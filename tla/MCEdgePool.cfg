CONSTANTS
  r1 = r1
  r2 = r2
  r3 = r3
  i1 = i1
  None = None
  Requests = {r1, r2, r3}
  Instances = {i1}
  Home <- MCHome
  Length <- MCLength
  MaxVersion = 1
  MaxChunks = 1
  Tagged = {1}
  TTLs = {1}
  MaxTime = 0
  Faults = {}
  Threads = 2
SPECIFICATION PoolSpec
CHECK_DEADLOCK FALSE
PROPERTY
  ParallelRequestsAsk
