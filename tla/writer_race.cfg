SPECIFICATION Spec
CONSTANTS
    p1 = p1
    p2 = p2
    p3 = p3
    p4 = p4
    p5 = p5
    h1 = h1
    h2 = h2
    h3 = h3
    g1 = g1
    g2 = g2
    None = None
    Procs = {p1, p2, p3}
    Host <- MCHost
    Pid <- MCPid
    Generation <- MCGeneration
    Overlapping = TRUE
    MaxFaults = 1
INVARIANT OneWriter
CHECK_DEADLOCK FALSE
