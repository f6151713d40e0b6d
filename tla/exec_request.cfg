SPECIFICATION FairSpec
CONSTANTS
  m1 = m1
  m2 = m2
  m3 = m3
  p1 = p1
  p2 = p2
  None = None
  Models <- MCModels
  Children <- MCChildren
  Provider <- MCProvider
  Unfit <- MCUnfit
  MaxAttempts = 3
  MaxTries = 2
  MaxEvents = 1
INVARIANTS OneUpstream
PROPERTIES OneModelAnswers AbortStops RequestEnds LeasesReturned
CHECK_DEADLOCK FALSE
