CONSTANTS
  u1 = u1
  u2 = u2
  d1 = d1
  d2 = d2
  l1 = l1
  alice = alice
  Uploads = {u1}
  Downloads = {d1}
  Listings = {}
  Users = {alice}
  Owner <- MCOwner
  Target <- MCTarget
  Conditional <- MCConditional
  Lister <- MCLister
  MetaNamed = {u1}
  Faults = {}
  MaxFailures = 0
SPECIFICATION Spec
CHECK_DEADLOCK FALSE
INVARIANT
  AcknowledgedIsStored
