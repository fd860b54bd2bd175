SPECIFICATION Spec
CONSTANTS
  d1 = d1
  d2 = d2
  i1 = i1
  i2 = i2
  n1 = n1
  n2 = n2
  p1 = p1
  Drafts = {d1, d2}
  Installs = {i1, i2}
  Names = {n1, n2}
  Pairings = {p1}
  MaxFaults = 1
  Free = Free
  NoRow = NoRow
  NoName = NoName
  NoInstall = NoInstall
CHECK_DEADLOCK FALSE
SYMMETRY Symmetry
INVARIANTS OneLivePayment LiveHoldsItsKeys NoOrphanClaim
