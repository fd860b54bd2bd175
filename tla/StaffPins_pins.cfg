SPECIFICATION Spec
CONSTANTS
  p2 = p2
  i1 = i1
  i2 = i2
  x1 = x1
  x2 = x2
  p1 = p1
  a1 = a1
  o1 = o1
  o2 = o2
  People = {i1, i2}
  Pins = {x1}
  Logins = {p1, p2}
  Admins = {a1}
  Operators = {o1, o2}
  MaxVersion = 3
  MaxWrites = 2
  None = None
CHECK_DEADLOCK FALSE
SYMMETRY Symmetry
INVARIANTS LoginNeverCollides SessionsBacked PinsDistinct PinsCurrent SecretFenced
