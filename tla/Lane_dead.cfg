SPECIFICATION ServerSpec
CONSTANTS
    Parts = {"board"}
    Lane = {"A", "B"}
    Settings = {"s1", "s2"}
    None = None
    Daemon = {d1, d2}
    Client = {c1}
    Foreign = {}
    MaxCrashes = 2
    Worker = {"w1", "w2"}
    Flip <- MCFlips
    Phase0 = "P"
    MaxRecoveries = 1
    MaxFlipCrashes = 1
    Watcher = {"c1", "c2"}
    MaxWatchers = 2
    QueueMax = 2
    TailBytes = 1
    MaxBytes = 3
    MaxRespawns = 1
    Sid = {"s1"}
    Request = {"c1", "c2"}
    MaxAge = 2
    Window = 2
    Budget = 1
    MaxClock = 3
    MaxStarts = 2
    MaxTyped = 2
    Calls <- MCCalls
    Patterns <- MCPatterns
    HasTarget = TRUE
    MaxRules = 1
    Code = {"A"}
    RunDir = "run"
    Threshold = 3
    Ttl = 2
    DenyWindow = 2
    DenyCount = 2
    DayLength = 4
    LogTail = 3
    MaxStaleClock = 4
    MaxCalls = 2
    RowLabel <- MCRowLabels
    Config <- MCConfigs
    Sender <- MCSenders
    Topic = {"t"}
    MaxMinute = 1
    MaxSignals = 2
    Lanes <- MCLanes
    Claude = {"a"}
    Agent = {"x", "y"}
    Docs <- MCDocs
    Rows <- MCRows
    MaxEdits = 1
    MaxTranscripts = 2
    MaxBoardRespawns = 1
\* processes end, clocks and counters reach their bounds
CHECK_DEADLOCK FALSE
INVARIANTS
    StateIsProbed
