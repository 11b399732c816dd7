SPECIFICATION Spec
CONSTANTS
  Item = {}
  Simul = {simul}
  Internal = {internal}
  Dir = {dir}
  Bare <- MCBare
  Kind = {"volatile", "directory"}
  KindOf <- MCKindOf
  Timeout <- MCTimeout
  IntMax = 2
  Val = {v1, v2}
  None = None
  Lifespan = 1
  CacheSize = 1
VIEW View
INVARIANTS
  GetLatest
  GetFresh
  CachedItsTime
  RamExact
