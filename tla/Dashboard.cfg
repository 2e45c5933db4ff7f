SPECIFICATION FairSpec
CONSTANTS
    MaxVersion = 3
    MaxRenders = 2
    MaxPosts = 2
INVARIANTS
    DecisionAsShown
PROPERTIES
    NeverGoesBack
    ButtonsComeBack
    PendingIsShown
CHECK_DEADLOCK FALSE
