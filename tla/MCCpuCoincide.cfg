SPECIFICATION CpuSpec
CONSTANTS
  Proc = {"p", "q"}
  Loop = 2
  MaxLocks = 2
  Coincide = TRUE
INVARIANT UserCodeInUserMode
