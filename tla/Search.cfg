SPECIFICATION FairSpec
CONSTANTS
  B = 3
  Tries = 3
  MaxUnplug = 1
INVARIANTS
  Complete
  NoTwice
  Present
PROPERTIES
  Ends
