CONSTANTS
  Proc = {p1, p2, p3}
  Block = {1, 2, 3}
  Data = {a, b}
  None = None
  NBUF = 2
  MaxHeld = 2
  MaxPins = 1
SPECIFICATION Spec
SYMMETRY Perms
INVARIANTS PanicsWhenFull NoLostWakeup
PROPERTY RefinesBlockStore
CHECK_DEADLOCK FALSE
