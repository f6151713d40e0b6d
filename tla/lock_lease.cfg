SPECIFICATION FairSpec
CONSTANTS
    p1 = p1
    p2 = p2
    p3 = p3
    a1 = a1
    a2 = a2
    b1 = b1
    b2 = b2
    c1 = c1
    None = None
    Procs = {p1, p2}
    Acquires = {a1, a2, b1, b2}
    Proc <- MCProc
    Waits = FALSE
    MaxFaults = 2
INVARIANTS OwnRecordRecoverable
PROPERTIES LeaseSafety SoleSurvivorAcquires
CHECK_DEADLOCK FALSE
