SPECIFICATION FairSpec
CONSTANTS
  c1 = c1
  r1 = r1
  Starts = {}
  Readies = {r1}
  Confirms = {c1}
  Staff = {}
  Purchase = purchase
  Batches = {1, 2}
  Tries = 3
  Attested = TRUE
  ShowsState = TRUE
  MaxFaults = 3
  MaxCrashes = 0
  None = None
CHECK_DEADLOCK FALSE
INVARIANTS RetryingIsRetried
PROPERTIES Handed
