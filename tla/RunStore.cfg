SPECIFICATION Spec
CONSTANTS
    Backends = {"filesystem", "postgres"}
    N = 2
    MaxVersions = 2
    MaxEvents = 5
    MaxCrashes = 2
INVARIANTS
    NamedArtifactsIntact
    AnswerGenuine
    TrailSurvives
PROPERTIES
    RecordAlwaysLoads
CHECK_DEADLOCK FALSE
