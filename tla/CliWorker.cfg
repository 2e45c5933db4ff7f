SPECIFICATION FairWorkerSpec
CONSTANTS
    Platforms = {"posix", "windows"}
    Cancels = {c1, c2}
INVARIANTS
    KilledNeverSucceeds
    StoppedMeansDead
    StepRecorded
PROPERTIES
    WaitEnds
    ForceLeavesNobody
CHECK_DEADLOCK FALSE
