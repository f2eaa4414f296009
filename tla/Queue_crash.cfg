SPECIFICATION Spec
CONSTANTS
    Req <- MCReq
    Lane = {"A", "B"}
    Task = {"t1", "t2"}
    Agent = {"ag1", "ag2"}
    Line <- MCLine
    Phase = {"PA", "PB"}
    Body <- MCBody
    Within <- MCWithin
    Announces <- MCAnnounces
    Rank <- MCRank
    Status0 = {"A"}
    Tasks0 = {"t1"}
    Events0 <- MCEvents0
    Workloads <- CrashWorkloads
    MaxClock = 1
    MaxRestarts = 2
    MaxIOErrors = 0
    TornWrites = TRUE
INVARIANTS
    AppliedIsShown
    NoDuplicateLines
    LandedAppendNotRejected
    ArchiveAgreesWithJournal
    OneClaimant
PROPERTIES
    ReapplyTakesNothingBack
    ImplementsLog
