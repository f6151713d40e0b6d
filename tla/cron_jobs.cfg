SPECIFICATION FairSpec
CONSTANTS
    j1 = j1
    e1 = e1
    None = None
    Jobs = {j1}
    Editors = {e1}
    Periods = {1}
    MaxClaims = 2
    MaxRevision = 3
    MaxTime = 2
    MaxRestarts = 1
INVARIANTS OneRunPerJob SlotsClaimedOnce
PROPERTIES RunsCurrentJob MissedSlotsSkipped ClaimsEnd
CHECK_DEADLOCK FALSE
