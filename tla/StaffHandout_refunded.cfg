SPECIFICATION Spec
CONSTANTS
  f1 = f1
  x = x
  s1 = s1
  coffee = coffee
  None = None
  Phones = {f1}
  Actors = {x}
  Sessions = {s1}
  Items = {coffee}
  Admission = {}
  Linked = {coffee}
  Refundable = {coffee}
  Bands = 1
  Others = 2
  PerSession = 1
  Quantity <- MCQuantity
  Limit <- MCLimit
  MaxUnits = 2
  MaxRevision = 4
CHECK_DEADLOCK FALSE
PROPERTIES RefundedNotHandedOut
