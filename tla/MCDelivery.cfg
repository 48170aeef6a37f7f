CONSTANTS
  old = old
  fresh = fresh
  d1 = d1
  d2 = d2
  d3 = d3
  d4 = d4
  e1 = e1
  e2 = e2
  None = None
  Files = {old, fresh}
  Legacy = {old}
  Edges = {e1, e2}
  Downloads = {d1, d2, d3, d4}
  Target <- MCTarget
  MaxAge = 2
  MaxTime = 2
  Faults = {"down", "read", "break", "cut", "lose", "crash"}
SPECIFICATION Spec
SYMMETRY Symmetry
CHECK_DEADLOCK FALSE
INVARIANTS
  TypeOK
  OneBody
  ServedIsFile
  FoundOnceAcknowledged
PROPERTY
  EdgesKeepContract
