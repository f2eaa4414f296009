SPECIFICATION FairSpec
CONSTANTS
    Req <- MCReq
    Lane = {"A", "B"}
    Task = {"t1", "t2"}
    Agent = {"ag1", "ag2"}
    Line <- MCLine
    Phase = {"PA", "PB"}
    Body <- MCBody
    Within <- MCWithin
    Announces <- MCAnnounces
    Rank <- MCRank
    Status0 = {"A"}
    Tasks0 = {"t1"}
    Events0 <- MCEvents0
    Workloads <- FaultWorkloads
    MaxClock = 0
    MaxRestarts = 1
    MaxIOErrors = 1
    TornWrites = TRUE
PROPERTIES
    EveryRequestAnswered
