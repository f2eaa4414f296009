SPECIFICATION WatchSpec
CONSTANTS
    MaxFailures = 3
    Watcher = {"w1", "w2"}
    QueueMax = 2
    MaxFrames = 4
    Viewer = {"v"}
    Note = {101}
    Days = 2
    RingMax = 3
    ViewerQueue = 1
    MaxWrites = 3
    MaxInodes = 2
\* after stop() everything may rest
CHECK_DEADLOCK FALSE
INVARIANTS
    RespawnsAreBounded
    NoChildAfterStop
    NoLostWakeup
    NewestIsKept
    NoteOnce
PROPERTIES
    WatcherIsServed
    ItemsReachTheWall
