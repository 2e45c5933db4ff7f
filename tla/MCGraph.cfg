SPECIFICATION Spec
CONSTANTS
    Graphs <- AllGraphs
INVARIANTS
    ValidatorExact
    WalkedInOrder
    HumanSawWrites
CHECK_DEADLOCK FALSE
