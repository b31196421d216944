CONSTANTS
  CPU = {c1}
  NPROC = 3
  None = None
SPECIFICATION Spec
PROPERTIES BornAlive
