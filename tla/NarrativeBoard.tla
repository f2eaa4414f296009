--------------------------- MODULE NarrativeBoard ---------------------------
(***************************************************************************)
(* narrator/hub.py and scheduler.py: watchers subscribe to the board, a    *)
(* scheduler builds and publishes a frame every interval, at once for the  *)
(* first watcher, and never without one.  All run in one event loop: steps *)
(* are what happens between two awaits.                                    *)
(***************************************************************************)
EXTENDS Naturals, Sequences

CONSTANTS
    Watcher,    \* clients of GET /api/v1/narrative-stream
    QueueMax,   \* SUBSCRIBER_QUEUE_MAXLEN
    MaxFrames   \* bound: how many frames are published

ASSUME BoardAssumption == QueueMax \in Nat \ {0} /\ MaxFrames \in Nat

VARIABLES
    watching,  \* the watchers whose queue is in _subscribers
    count,     \* _count
    tickNow,   \* hub.tick_now
    queue,     \* of each watcher: numbers of frames
    seen,      \* the last frame each has been sent; the first is the cache
    frames,    \* how many were published; the cache holds the last
    sched,     \* where the scheduler is
    owed       \* history: nothing was published since the first watcher came

board == <<watching, count, tickNow, queue, seen, frames, sched, owed>>

NarrativeTypeOK ==
    /\ watching \subseteq Watcher
    /\ count \in Nat
    /\ tickNow \in BOOLEAN /\ owed \in BOOLEAN
    /\ queue \in [Watcher -> Seq(1..MaxFrames)]
    /\ \A w \in Watcher : Len(queue[w]) <= QueueMax
    /\ seen \in [Watcher -> 0..MaxFrames]
    /\ frames \in 0..MaxFrames
    /\ sched \in {"off", "wait", "woken", "build", "narrate", "dead", "over"}

NarrativeInit ==
    /\ watching = {} /\ count = 0 /\ tickNow = FALSE
    /\ queue = [w \in Watcher |-> <<>>] /\ seen = [w \in Watcher |-> 0]
    /\ frames = 0 /\ sched = "off" /\ owed = FALSE

-----------------------------------------------------------------------------
\* narrative_stream: subscribe() and the snapshot of the cache, with no await
\* in between
Subscribe(w) ==
    /\ w \notin watching
    /\ watching' = watching \cup {w} /\ count' = count + 1
    /\ tickNow' = (tickNow \/ count' = 1)
    /\ queue' = [queue EXCEPT ![w] = <<>>]
    /\ seen' = [seen EXCEPT ![w] = frames]
    /\ owed' = (owed \/ watching = {})
    /\ UNCHANGED <<frames, sched>>

Receive(w) ==
    /\ w \in watching /\ queue[w] # <<>>
    /\ seen' = [seen EXCEPT ![w] = Head(queue[w])]
    /\ queue' = [queue EXCEPT ![w] = Tail(@)]
    /\ UNCHANGED <<watching, count, tickNow, frames, sched, owed>>

\* Mutant: _count is not kept in sync.
UnsubscribeUncounted(w) ==
    /\ w \in watching
    /\ watching' = watching \ {w}
    /\ owed' = (owed /\ watching' # {})
    /\ queue' = [queue EXCEPT ![w] = <<>>] /\ seen' = [seen EXCEPT ![w] = 0]
    /\ UNCHANGED <<count, tickNow, frames, sched>>

\* The generator's finally: the client is gone.
Unsubscribe(w) ==
    /\ w \in watching
    /\ watching' = watching \ {w} /\ count' = count - 1
    /\ owed' = (owed /\ watching' # {})
    /\ queue' = [queue EXCEPT ![w] = <<>>] /\ seen' = [seen EXCEPT ![w] = 0]
    /\ UNCHANGED <<tickNow, frames, sched>>

-----------------------------------------------------------------------------
\* _wait_for_tick returns when tick_now is set or the interval is over.  It
\* awaits the waiters it cancels, so that others run before the next step.
WaitEnds ==
    /\ sched = "wait"
    /\ sched' = "woken"
    /\ UNCHANGED <<watching, count, tickNow, queue, seen, frames, owed>>

\* Mutant: the gate is off by one.
BeginTickForTwo ==
    /\ sched = "woken"
    /\ tickNow' = FALSE
    /\ sched' = IF count <= 1 \/ frames = MaxFrames THEN "wait" ELSE "build"
    /\ UNCHANGED <<watching, count, queue, seen, frames, owed>>

\* tick_now is cleared before anything else; no tick without a watcher.
BeginTick ==
    /\ sched = "woken"
    /\ tickNow' = FALSE
    /\ sched' = IF count = 0 \/ frames = MaxFrames THEN "wait" ELSE "build"
    /\ UNCHANGED <<watching, count, queue, seen, frames, owed>>

\* Mutant: a full queue keeps what it has.
EnqueuedIfRoom(q, frame) == IF Len(q) = QueueMax THEN q ELSE Append(q, frame)

\* hub.publish: a full queue loses its oldest frame.
Enqueued(q, frame) ==
    Append(IF Len(q) = QueueMax THEN Tail(q) ELSE q, frame)

Publish ==
    /\ frames' = frames + 1
    /\ queue' = [w \in Watcher |->
                    IF w \in watching THEN Enqueued(queue[w], frames')
                    ELSE queue[w]]
    /\ owed' = FALSE
    /\ sched' = "wait"
    /\ UNCHANGED <<watching, count, tickNow, seen>>

\* build_rows returns.  The rows are narrated if the narrator is ready and
\* one of them has a transcript.
RowsBuilt(ready) ==
    /\ sched = "build"
    /\ \/ Publish
       \/ /\ ready
          /\ sched' = "narrate"
          /\ UNCHANGED <<watching, count, tickNow, queue, seen, frames, owed>>

\* An exception of build_rows is caught nowhere: the scheduler task ends.
RowsFail ==
    /\ sched = "build"
    /\ sched' = "dead"
    /\ UNCHANGED <<watching, count, tickNow, queue, seen, frames, owed>>

\* gather(return_exceptions=True): every call has answered or failed
Narrated == sched = "narrate" /\ Publish

Schedule(ready) ==
    WaitEnds \/ BeginTick \/ RowsBuilt(ready) \/ RowsFail \/ Narrated

Watch(w) == Subscribe(w) \/ Receive(w) \/ Unsubscribe(w)

-----------------------------------------------------------------------------
\* F4: the first watcher after a time without any does not wait for the
\* interval.  While it is owed a frame the scheduler sleeps only with tick_now
\* set, wherever in the loop the subscription came in and whoever left and
\* joined since.
NoLostWakeup ==
    owed /\ sched = "wait" /\ frames < MaxFrames => tickNow

\* A slow watcher loses old frames, never the newest one: what it was sent
\* last, or what waits last in its queue, is the present board.
NewestIsKept ==
    \A w \in watching :
        \/ seen[w] = frames
        \/ queue[w] # <<>> /\ queue[w][Len(queue[w])] = frames

\* The first watcher is sent a new frame in the end if it stays and the
\* scheduler lives.
WatcherIsServed ==
    \A w \in Watcher :
        w \in watching /\ owed
            ~> \/ ~owed \/ w \notin watching \/ frames = MaxFrames
               \/ sched \in {"dead", "over"}

=============================================================================
