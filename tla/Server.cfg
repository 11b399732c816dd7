SPECIFICATION ServerSpec
CONSTANTS
  Conn = {c1, c2, c3}
  None = None
  High = 2
  Low = 2
INVARIANTS
  CountExact
  HighLimit
  AllServed
  LastWord
PROPERTIES
  ShutsDown
  Answered
