SPECIFICATION Spec
CONSTANTS
    Workflow <- Gated
    MaxFaults = 2
INVARIANTS
    ServiceTypeOK
    PendingMeansPaused
    CompletedIsPrefix
    EvidenceIsCurrent
    KnownTreeReleased
PROPERTIES
    TerminalIsFinal
    RefinesLifecycle
CHECK_DEADLOCK FALSE
