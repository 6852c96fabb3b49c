SPECIFICATION Spec
CONSTANTS
    p1 = p1
    p2 = p2
    o1 = o1
    o2 = o2
    None = None
    Procs = {p1, p2}
    Operators = {}
    MaxRelease = 2
    MaxFaults = 1
    MaxEdits = 0
    RunOptions <- Plain
    Reuse = TRUE
    Outlive = FALSE
    ReleaseModes <- NoModes
SYMMETRY ProcSymmetry
INVARIANT OneBackend
CHECK_DEADLOCK FALSE
