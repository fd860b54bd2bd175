SPECIFICATION CloudSpec
CONSTANTS
  c1 = c1
  h1 = h1
  u1 = u1
  w1 = w1
  Callers = {c1}
  Workers = {w1}
  Webhooks = {h1}
  Lookups = {}
  Staff = {u1}
  Rivals = {}
  Offsets = 1
  MaxFaults = 1
  TimelyBooking = TRUE
CHECK_DEADLOCK FALSE
INVARIANTS NoChargeReleased
PROPERTIES ChargeBooked ApprovalResolved
