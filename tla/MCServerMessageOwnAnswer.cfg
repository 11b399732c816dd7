SPECIFICATION Spec
CONSTANTS
  Query = {q1, q2}
  Sock = {s1, s2, s3}
  Bad = Bad
  InUse = InUse
  Kinds = {"read", "one", "list"}
  MaxRequests = 3
  MaxElements = 2
SYMMETRY Symmetry
INVARIANTS
  OwnAnswer
CHECK_DEADLOCK FALSE
