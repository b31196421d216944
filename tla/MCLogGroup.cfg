CONSTANTS
  Proc = {p1, p2, p3}
  Block = {a, b}
  Data = {v, w}
  Torn = Torn
  Nothing = Nothing
  MAXOPBLOCKS = 3
  LOGSIZE = 7
  NLOG = 7
  OpBlocks = 1
SPECIFICATION Spec
INVARIANTS NoLostWakeup
PROPERTIES RefinesAtomicDisk
SYMMETRY Symmetry
