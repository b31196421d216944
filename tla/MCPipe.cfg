CONSTANTS
  Proc = {p1, p2}
  Byte = {a, b}
  None = None
  PIPESIZE = 2
  UINT = 4
  MaxCount = 3
  NCPU = 1
SPECIFICATION FairSpec
INVARIANTS NoLostWakeup
PROPERTIES RefinesChannel EndIsSeen KilledReturns
