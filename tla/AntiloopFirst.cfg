SPECIFICATION ASpec
CONSTANTS
  Server = {a, b, c, d}
  Mangled = Mangled
  ZeroFirst = {d}
  MaxChain = 6
INVARIANTS
  NoLoop
