CONSTANTS
  r1 = r1
  r2 = r2
  r3 = r3
  i1 = i1
  i2 = i2
  None = None
  Requests <- MCRequests
  Instances <- MCInstances
  Home <- MCHome
  Length <- MCLength
  MaxVersion = 2
  MaxChunks = 2
  Tagged = {1}
  TTLs = {1}
  MaxTime = 1
  Faults = {"cancel"}
SPECIFICATION Spec
CHECK_DEADLOCK FALSE
INVARIANT
  ServedMatchesHeaders
SYMMETRY MCSymmetry
