SPECIFICATION Spec
CONSTANTS
    N = 2
    MaxRounds = 3
INVARIANTS
    SeenPassingStaysPassing
    OldFailuresTolerated
CHECK_DEADLOCK FALSE
