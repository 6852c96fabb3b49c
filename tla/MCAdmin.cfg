SPECIFICATION Spec
CONSTANTS
    p1 = p1
    p2 = p2
    o1 = o1
    o2 = o2
    None = None
    Procs = {p1, p2}
    Operators = {o1}
    MaxRelease = 2
    MaxFaults = 1
    MaxEdits = 2
    RunOptions <- SomeOptions
    Reuse = FALSE
    Outlive = FALSE
    ReleaseModes <- Checked1
SYMMETRY ProcSymmetry
INVARIANT MaintenanceExclusive
INVARIANT NoSilentAdoption
PROPERTY OperatorStatusKept
PROPERTY LifecycleKept
CHECK_DEADLOCK FALSE
INVARIANT OwnerOnly
INVARIANT ForgetOwed
INVARIANT SessionOwned
