CONSTANTS
  CPU = {c1}
  NPROC = 3
  None = None
SPECIFICATION FairSpec
PROPERTIES WaiterIsServed KilledExits
