SPECIFICATION Spec
CONSTANTS
  f1 = f1
  f2 = f2
  x = x
  y = y
  s1 = s1
  band = band
  coffee = coffee
  None = None
  Phones = {f1, f2}
  Actors = {x, y}
  Sessions = {s1}
  Items = {band, coffee}
  Admission = {band}
  Linked = {coffee}
  Refundable = {coffee}
  Bands = 1
  Others = 1
  PerSession = 1
  Quantity <- MCQuantity
  Limit <- MCLimit
  MaxUnits = 1
  MaxRevision = 2
CHECK_DEADLOCK FALSE
SYMMETRY Symmetry
INVARIANTS TypeOK OneSelectionPerActor PendingReservesItem AdmissionReceipt NeverOverCollected ClaimMatchesOperation
PROPERTIES IntentKept
