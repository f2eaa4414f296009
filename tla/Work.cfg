SPECIFICATION WorkSpec
CONSTANTS
    Agent = {"a1", "a2"}
    Task = {"P1A", "P1A2"}
    Matches <- MCMatches
    None = None
    Patient = TRUE
    MaxTroubles = 2
    Claims0 = {"missing", "ownerless", "empty", "mine", "theirs"}
    Lane0 = {"none", "mine", "twice", "theirs"}
    Says0 = {"busy", "alike"}
    Tasks0 = {"none", "one", "twice"}
    Window = 1
    MaxClock = 2
    MaxMishaps = 3
    MaxOthers = 1
    TornWrites = TRUE
    Req = {"r1", "r2"}
    MaxLines = 5
    Lanes <- MCLanes
    Claude = {"a"}
    MaxChanges = 3
    MaxServerDeaths = 1
    LaneNo = {1, 2}
    Grace = 1
    MaxAttempts = 2
    Base = 1
    Cap = 2
    Interval = 1
    MaxTime = 7
\* agents rest, a close ends, the bound stops the journal
CHECK_DEADLOCK FALSE
INVARIANTS
    OneWorker
    CompleteMeansClosed
    InRuleTenOrder
    RememberedIsTold
    StormEnds
PROPERTIES
    WorkIsRecovered
    DeadClaimIsFreed
    EventuallyClosed
    SickIsTold
    ImplementsMap
