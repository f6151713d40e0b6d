SPECIFICATION Spec
CONSTANTS
    j1 = j1
    e1 = e1
    None = None
    Jobs = {j1}
    Editors = {}
    Periods = {1}
    MaxClaims = 3
    MaxRevision = 1
    MaxTime = 3
    MaxRestarts = 0
PROPERTIES HeldWorkPreventsLaunch
CHECK_DEADLOCK FALSE
