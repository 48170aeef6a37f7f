CONSTANTS
  u1 = u1
  u2 = u2
  d1 = d1
  d2 = d2
  l1 = l1
  alice = alice
  Uploads = {u1, u2}
  Downloads = {d1, d2}
  Listings = {l1}
  Users = {alice}
  Owner <- MCOwner
  Target <- MCTarget
  Conditional <- MCConditional
  Lister <- MCLister
  MetaNamed = {}
  Faults = {"refused", "cancel", "crash"}
  MaxFailures = 2
SPECIFICATION Spec
CHECK_DEADLOCK FALSE
INVARIANTS
  TypeOK
  AcknowledgedIsStored
  DownloadIsWhole
  ListingIsComplete
  RolledBack
PROPERTY
  FoundOnceCreated
