SPECIFICATION FairSpec
CONSTANTS
    Workflow <- Shipped
    MaxFaults = 0
INVARIANTS
    CompletionIsEarned
    FirstRoundGated
    OwnConversation
PROPERTIES
    CancelStopsProgress
    AdvanceEnds
    
CHECK_DEADLOCK FALSE
