SPECIFICATION PartsSpec
CONSTANTS
  Proc = {p1, p2}
  InitProc = p1
  Inum = {1, 2, 3}
  Root = 1
  File = {1, 2}
  Fd = {1, 2}
  Name = {"a", "b"}
  NINODE = 3
  Path <- MCPath
  RmCwd = FALSE
  Inode = {"i", "j"}
  Block = {1, 2, 3, 4}
  OpenFile = {"f", "h"}
  inodeOf <- MCInodeOf
  Writer = {"p", "q"}
  Val = {1, 2}
  Image <- MCImage
  valueOf <- MCValueOf
  NDIRECT = 1
  NINDIRECT = 2
  MaxChunk = 1
  MaxWrite = 2
  Page = {1, 2, 3, 4, 5, 6, 7, 8, 9, 10, 11}
  Slot = {"p", "q"}
  First = "p"
  PGSIZE = 2
  MaxPages = 11
  Span = 2
  Program <- MCProgram
  MaxArgs = 1
  MaxBrk = 2
  HeapEnd = 13
  MinCore = 4
  MaxUnits = 5
  MAXARGS = 3
  Letter = {"x", "y"}
  MaxProc = 5
  Command <- MCCommand
  MEM = 5
  Char = {"a", "b", "NUL"}
  Text <- MCText
  Pattern <- MCPattern
  BUFSIZE = 4
  Batch <- MCBatch
  PathName <- MCPathName
  DIRSIZ = 2
  Call <- MCCall
  BITS = 8
CONSTRAINTS FewOpen ShortSecond
INVARIANTS
  PartsTypeOK
  CountsExact
  LinksExact
  NoPanic
  NothingElseLeaks
  BlocksOwnedOnce
  MemoryConsistent
  LibraryExact
  ParsesBack
  PipelinesRun
PROPERTIES
  InUseKept
  RefinesStore
  FailedCallUndone
CHECK_DEADLOCK FALSE
