SPECIFICATION LeaseSpec
CONSTANTS
    p1 = p1
    p2 = p2
    o1 = o1
    o2 = o2
    None = None
    Procs = {p1, p2}
    Operators = {}
    MaxRelease = 2
    MaxFaults = 2
    MaxEdits = 0
    RunOptions <- Plain
    Reuse = TRUE
    Outlive = TRUE
    ReleaseModes <- NoModes
PROPERTY ActivatedCurrent
PROPERTY PendingResolved
CHECK_DEADLOCK FALSE
