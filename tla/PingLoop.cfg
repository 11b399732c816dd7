SPECIFICATION PFairSpec
CONSTANTS
  MaxPings = 3
  MaxEntries = 3
INVARIANTS
  PingsUntilAnswered
PROPERTIES
  ImplementsReply
  PingMeansQuiet
  EveryRequestEnds
