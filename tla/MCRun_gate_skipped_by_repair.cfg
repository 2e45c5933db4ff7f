SPECIFICATION Spec
CONSTANTS
    Workflow <- Shipped
    MaxFaults = 0
INVARIANTS
    GatesDecided
CHECK_DEADLOCK FALSE
