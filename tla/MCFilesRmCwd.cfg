CONSTANTS
  Proc = {p1, p2}
  InitProc = p1
  Inum = {1, 2, 3}
  Root = 1
  File = {1, 2}
  Fd = {1, 2}
  Name = {"a", "b"}
  NINODE = 3
  Path <- MCPath
  RmCwd = TRUE
SPECIFICATION Spec
INVARIANT NoPanic

CONSTRAINT FewOpen
CHECK_DEADLOCK FALSE
