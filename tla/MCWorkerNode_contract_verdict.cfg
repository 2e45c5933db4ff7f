SPECIFICATION Spec
CONSTANTS
    Platforms = {"posix", "windows"}
    Texts <- SomeTexts
    MaxLines = 2
    MaxNodes = 2
    MaxCrashes = 1
INVARIANTS
    ContractVerdictHeard
CHECK_DEADLOCK FALSE
