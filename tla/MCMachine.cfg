SPECIFICATION PartsSpec
CONSTANTS
  Proc = {"p", "q"}
  Loop = 2
  MaxLocks = 2
  Coincide = FALSE
  Reader = {"r"}
  Writer = {"w"}
  Key = {"x", "NL", "EOF", "BS", "KILL"}
  Glyph = {"a"}
  INPUT_BUF_SIZE = 2
  UART_TX_BUF_SIZE = 1
  UINT = 4
  MaxRead = 2
  Sector = {1, 2}
  Byte = {0, 255, 90}
  BLEN = 2
  Tries = 3
  Patience = 3
  Attempts = 3
  Delay = 2
  Frame = {0, 1, 2}
  Root = 0
  Index = {0, 1}
  Memory <- MCMemory
  Lanes <- MCLanes
  Word <- MCWord
  STAGES = 2
  BYTE = 2
CONSTRAINTS OneWord OneTurns
INVARIANTS
  PartsTypeOK
  NoTrapPanic
  UserContext
  InterruptedSafely
  ConsoleMoves
  TransferExact
  ArithmeticExact
PROPERTIES
  LineDiscipline
  OutputInOrder
  AccessExact
CHECK_DEADLOCK FALSE
