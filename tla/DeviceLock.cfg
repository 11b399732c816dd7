SPECIFICATION FairSpec
CONSTANTS
  Thread = {t1, t2, t3}
  Bus = {b1, b2}
  Sn = {s1, s2}
  Block = {n1, n2, n3}
  NoThread = NoThread
  NoBlock = NoBlock
INVARIANTS
  MutualExclusion
  NoUseAfterFree
  UsersCountsClaims
  NoLeak
PROPERTIES
  Drains
