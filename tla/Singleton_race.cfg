SPECIFICATION LockSpec
CONSTANTS
    d1 = d1
    d2 = d2
    c1 = c1
    Daemon <- MCDaemon
    Client <- MCClient
    Foreign = {}
    MaxCrashes = 2
SYMMETRY Symmetry
\* every process ends in the end
CHECK_DEADLOCK FALSE
INVARIANTS
    MutualExclusion
