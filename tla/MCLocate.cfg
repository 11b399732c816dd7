SPECIFICATION Spec
CONSTANTS
  m1 = m1
  m2 = m2
  remote = remote
  None = None
  Master = {m1, m2, remote}
  Remote = {remote}
  Start <- MCStart
  Handler = {h1, h2}
  Query = {q1, q2}
  MaxCell = 4
  MaxTrouble = 2
INVARIANTS
  IndexUnique
  FollowsKernel
  PointersLive
  Finds
SYMMETRY MCSymmetry
