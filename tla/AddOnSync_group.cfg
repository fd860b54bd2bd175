SPECIFICATION Spec
CONSTANTS
  a1 = a1
  a2 = a2
  f1 = f1
  n1 = n1
  u1 = u1
  g1 = g1
  b1 = b1
  AddOns = {a1, a2}
  Finals = {f1}
  Signals = {n1}
  Staff = {u1}
  Guests = {g1}
  Boards = {b1}
  Outcomes = {"approved", "unknown"}
  MaxFaults = 1
  None = None
CHECK_DEADLOCK FALSE
SYMMETRY Symmetry
INVARIANTS HeldUnlessStale RequestUnderway ReleasedAtRest
