SPECIFICATION FairSpec
CONSTANTS
  Query = {q1, q2}
  N = 3
  Val = {0, 1}
  Formats = {"number", "bitfield"}
  None = None
INVARIANTS
  ReadCurrent
  WriteComplete
  CacheCoherent
PROPERTIES
  OthersKept
  LockComesBack
