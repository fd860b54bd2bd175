SPECIFICATION Spec
CONSTANTS
  s1 = s1
  s2 = s2
  Starts = {s1, s2}
  Readies = {}
  Confirms = {}
  Staff = {}
  Purchase = purchase
  Batches = {1, 2}
  Tries = 2
  Attested = TRUE
  ShowsState = TRUE
  MaxFaults = 0
  MaxCrashes = 0
  None = None
CHECK_DEADLOCK FALSE
SYMMETRY Symmetry
INVARIANTS OneNumber
