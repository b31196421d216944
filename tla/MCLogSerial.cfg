CONSTANTS
  Proc = {p1, p2}
  Block = {a, b}
  Data = {v, w}
  Torn = Torn
  Nothing = Nothing
  MAXOPBLOCKS = 4
  LOGSIZE = 4
  NLOG = 4
  OpBlocks = 2
SPECIFICATION FairSpec
PROPERTIES CommitPoint RefinesAtomicDisk SleeperWakes
