SPECIFICATION Spec
CONSTANTS
    p1 = p1
    p2 = p2
    o1 = o1
    o2 = o2
    None = None
    Procs = {p1, p2}
    Operators = {o1, o2}
    MaxRelease = 2
    MaxFaults = 0
    MaxEdits = 2
    RunOptions <- Plain
    Reuse = TRUE
    Outlive = FALSE
    ReleaseModes <- NoModes
SYMMETRY ProcSymmetry
PROPERTY ConsoleSparesMaintenance
CHECK_DEADLOCK FALSE
