CONSTANTS
  CPU = {c1, c2}
  NPROC = 3
  None = None
SPECIFICATION Spec
INVARIANTS StackInUse NoLostWakeup
PROPERTIES ImplementsProcTree
SYMMETRY Symmetry
