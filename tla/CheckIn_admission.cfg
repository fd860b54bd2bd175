SPECIFICATION Spec
CONSTANTS
  s1 = s1
  s2 = s2
  t1 = t1
  Starts = {s1, s2}
  Readies = {}
  Confirms = {}
  Staff = {t1}
  Purchase = purchase
  Batches = {1, 2}
  Tries = 1
  Attested = TRUE
  ShowsState = FALSE
  MaxFaults = 1
  MaxCrashes = 1
  None = None
CHECK_DEADLOCK FALSE
SYMMETRY Symmetry
INVARIANTS TypeOK OneRedeemer ReceiptMeansEntered ReceiptIsWhole
PROPERTIES AdmissionIsFinal ImplementsVisit
