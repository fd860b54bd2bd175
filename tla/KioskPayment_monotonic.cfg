SPECIFICATION Spec
CONSTANTS
  c1 = c1
  c2 = c2
  h1 = h1
  w1 = w1
  Callers = {c1, c2}
  Workers = {w1}
  Webhooks = {h1}
  Lookups = {}
  Staff = {}
  Rivals = {}
  Offsets = 1
  MaxFaults = 0
  TimelyBooking = TRUE
CHECK_DEADLOCK FALSE
SYMMETRY Symmetry
PROPERTIES StateIsMonotonic
