SPECIFICATION Spec
CONSTANTS
  a = a
  b = b
  c = c
  None = None
  Threads = {t1, t2}
  Coupler = {a, b, c}
  Path <- MCPath
  Targets <- MCTargets
  Ds2404 = TRUE
  reconnect_error = 2
  MaxTrouble = 2
INVARIANTS
  OnlyThePath
  ClosesOnlyFailed
PROPERTY Recovers
