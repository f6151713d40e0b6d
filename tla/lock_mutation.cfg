SPECIFICATION FairSpec
CONSTANTS
    p1 = p1
    p2 = p2
    p3 = p3
    a1 = a1
    a2 = a2
    b1 = b1
    b2 = b2
    c1 = c1
    None = None
    Procs = {p1, p2, p3}
    Acquires = {a1, b1, c1}
    Proc <- MCProc
    Waits = TRUE
    MaxFaults = 3
INVARIANTS MutualExclusion CompareHoldsAtUnlink
PROPERTIES AbandonedClaimStays OnlyOwnersRemoveLiveRecords DeadOwnerRecovered
CHECK_DEADLOCK FALSE
