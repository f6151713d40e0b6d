SPECIFICATION FairSpec
CONSTANTS
  s1 = s1
  s2 = s2
  r1 = r1
  r2 = r2
  None = None
  Sessions <- MCSessions
  EventKinds = {"completed", "async"}
  References <- MCReferences
  Requests <- MCRequests
  Credits = 2
  RetryFor = 1
  KeepFor = 2
  MaxFaults = 2
INVARIANTS OneCheckout CreditedOnce ProcessedIsCredited LedgerSound
PROPERTIES PaidIsCredited
CHECK_DEADLOCK FALSE
