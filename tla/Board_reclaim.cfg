SPECIFICATION Spec
CONSTANTS
    Agent = {"a1", "a2", "a3"}
    Task = {"P1A", "P1A2"}
    Matches <- MCMatches
    None = None
    Patient = FALSE
    MaxTroubles = 2
INVARIANTS
    OneWorker
CHECK_DEADLOCK FALSE
