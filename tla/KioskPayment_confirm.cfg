SPECIFICATION Spec
CONSTANTS
  c1 = c1
  c2 = c2
  w1 = w1
  w2 = w2
  l1 = l1
  r1 = r1
  Callers = {c1, c2}
  Workers = {w1, w2}
  Webhooks = {}
  Lookups = {l1}
  Staff = {}
  Rivals = {r1}
  Offsets = 1
  MaxFaults = 0
  TimelyBooking = TRUE
CHECK_DEADLOCK FALSE
SYMMETRY Symmetry
INVARIANTS TypeOK ReadyIsPaid AdmittedIsBooked PublishedOnce NoChargeReleased
PROPERTIES NothingTakenBack ImplementsPromise
