CONSTANTS
  Proc = {p1, p2}
  Block = {1, 2, 3}
  Data = {a, b}
  None = None
  NBUF = 2
  MaxHeld = 2
  MaxPins = 1
SPECIFICATION SpecFaults
PROPERTY ChangesLast
CHECK_DEADLOCK FALSE
