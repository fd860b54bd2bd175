SPECIFICATION FairSpec
CONSTANTS
  l1 = l1
  Lookups = {l1}
  Changes = 2
  Cancels = TRUE
  MaxAttempts = 2
  MaxReceives = 2
  MaxRepeats = 1
  MaxFaults = 1
CHECK_DEADLOCK FALSE
INVARIANTS TypeOK ProcessedWasCopied
PROPERTIES FinishedStays EventsSettle
