SPECIFICATION Spec
CONSTANTS
    Runs = {r1, r2}
    MaxWrites = 1
    MaxFaults = 2
SYMMETRY Symmetry
INVARIANTS
    EscapeReported
    OwnWritesExcused
    LiveTreeKept
    ReconcileAccounts
CHECK_DEADLOCK FALSE
