SPECIFICATION FairSpec
CONSTANTS
  Query = {q1, q2}
  Sock = {s1, s2}
  Bad = Bad
  InUse = InUse
  Kinds = {"one", "list"}
  MaxRequests = 2
  MaxElements = 1
INVARIANTS
  SocketExclusive
  OwnAnswerUnlessBroken
  SlotOwned
PROPERTIES
  QueryEnds
CHECK_DEADLOCK FALSE
