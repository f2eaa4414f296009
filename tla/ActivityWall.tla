---------------------------- MODULE ActivityWall ----------------------------
(***************************************************************************)
(* activity_wall.py: sources that watch the mission's files put events on  *)
(* a ring, from which the snapshot is made, and into the queues of the SSE *)
(* connections.  One of each kind of source: the tail of a document        *)
(* (HISTORY.md, .mission-events, the applier's log), a directory (findings,*)
(* signals), the [SIG] notes of STATUS.md, and a log with one file per day *)
(* (inject log, governor log).  What is written is numbered: the number is *)
(* its time stamp.                                                         *)
(***************************************************************************)
EXTENDS EventTail

CONSTANTS
    Viewer,      \* SSE connections
    Note,        \* [SIG] tokens, by content
    Days,        \* bound: number of days
    RingMax,     \* RING_BUFFER_MAXLEN
    ViewerQueue, \* SUBSCRIBER_QUEUE_MAXLEN
    MaxWrites,   \* bound: what is written
    MaxInodes    \* bound: how often HISTORY.md is replaced

ASSUME WallAssumption ==
    /\ {Days, RingMax, ViewerQueue, MaxWrites, MaxInodes} \subseteq Nat \ {0}
    /\ ViewerQueue <= RingMax
    /\ IsFiniteSet(Note)

VARIABLES
    now,      \* the number of the last thing written
    history,  \* HISTORY.md, a disk
    finding,  \* the files of findings/: number -> has its text been written
    status,   \* STATUS.md: [mtime, notes]
    daily,    \* the inject log of each day, a sequence of numbers
    day,      \* today
    running,  \* the wall: "off", "on"
    tail,     \* of the history source
    known,    \* the directory source's snapshot, or {0} before it
    notes,    \* the note source: [step, seen, mtime]
    drain,    \* the daily source: [date, tail, lines]
    ring, viewer, \* the events; the queue of each connection, <<0>> when closed
    shown,    \* history: the numbers and notes in any event since the start
    since,    \* history: the time each source attached
    watched   \* the kind of source a behaviour watches: they share only the ring

wall == <<now, history, finding, status, daily, day, running, tail, known, notes,
          drain, ring, viewer, shown, since, watched>>

files     == <<watched, now, history, finding, status, daily, day>>
sources   == <<tail, known, notes, drain>>
wallBoard == <<ring, viewer, shown>>

Source == {"tail", "dir", "notes", "daily"}
Closed == <<[type |-> "closed", what |-> {}]>>
NoSnapshot == {0}

EventTypes == {"history", "finding", "signal", "note", "inject"}
Events == [type : EventTypes, what : SUBSET (Nat \cup Note)]

FilesTypeOK ==
    /\ watched \in Source /\ now \in 0..MaxWrites /\ day \in 1..Days
    /\ history \in Disks(MaxInodes) /\ history.cur # 0
    /\ DOMAIN finding \subseteq 1..MaxWrites /\ finding \in [DOMAIN finding -> BOOLEAN]
    /\ status \in [mtime : 0..MaxWrites, notes : SUBSET Note]
    /\ daily \in [1..Days -> Disks(1)]

SourcesTypeOK ==
    /\ tail \in Tails(MaxInodes) /\ known \subseteq 0..MaxWrites
    /\ notes \in [step : {"parse", "mtime", "sleep", "read"}, seen : SUBSET Note,
                  mtime : 0..MaxWrites]
    /\ drain \in [date : 0..Days, tail : Tails(1), lines : Seq(Seq(Nat))]
    /\ since \in [Source -> 0..MaxWrites]

BoardTypeOK ==
    /\ running \in {"off", "on"}
    /\ ring \in Seq(Events) /\ Len(ring) <= RingMax
    /\ viewer \in [Viewer -> {Closed} \cup Seq(Events)]
    /\ \A v \in Viewer : viewer[v] # Closed => Len(viewer[v]) <= ViewerQueue
    /\ shown \subseteq Nat \cup Note

WallTypeOK == FilesTypeOK /\ SourcesTypeOK /\ BoardTypeOK

WallInit ==
    /\ watched \in Source
    /\ now = 0 /\ day = 1
    /\ history = [Absent(MaxInodes) EXCEPT !.cur = 1]
    /\ finding = <<>> /\ status = [mtime |-> 0, notes |-> {}]
    /\ daily = [d \in 1..Days |-> Absent(1)]
    /\ running = "off" /\ tail = TailStart /\ known = NoSnapshot
    /\ notes = [step |-> "parse", seen |-> {}, mtime |-> 0]
    /\ drain = [date |-> 0, tail |-> TailStart, lines |-> <<>>]
    /\ ring = <<>> /\ viewer = [v \in Viewer |-> Closed] /\ shown = {}
    /\ since = [s \in Source |-> MaxWrites]

-----------------------------------------------------------------------------
\* What agents, hooks and the server write
Write == now < MaxWrites /\ now' = now + 1

AddTo(disk, text) == [disk EXCEPT !.cur = 1, !.text[1] = @ \o text]

AppendHistory ==
    /\ Write
    /\ history' = [history EXCEPT !.text[history.cur] = @ \o <<now', LineEnd>>]
    /\ UNCHANGED <<watched, finding, status, daily, day, running, sources, wallBoard, since>>

\* The direct_fcntl backend renames a copy with the new line over the file.
ReplaceHistory ==
    /\ Write /\ history.cur < MaxInodes
    /\ history' = [history EXCEPT !.cur = @ + 1,
                     !.text[history.cur + 1] = Text(history) \o <<now', LineEnd>>]
    /\ UNCHANGED <<watched, finding, status, daily, day, running, sources, wallBoard, since>>

\* A finding appears, and its text with it or later
CreateFinding ==
    /\ Write
    /\ \E full \in BOOLEAN :
        finding' = [f \in DOMAIN finding \cup {now'} |-> IF f = now' THEN full ELSE finding[f]]
    /\ UNCHANGED <<watched, history, status, daily, day, running, sources, wallBoard, since>>

FillFinding ==
    /\ \E f \in DOMAIN finding : ~finding[f] /\ finding' = [finding EXCEPT ![f] = TRUE]
    /\ UNCHANGED <<watched, now, history, status, daily, day, running, sources, wallBoard, since>>

WriteStatus ==
    /\ Write
    /\ \E n \in SUBSET Note : status' = [mtime |-> now', notes |-> n]
    /\ UNCHANGED <<watched, history, finding, daily, day, running, sources, wallBoard, since>>

AppendDaily ==
    /\ Write
    /\ daily' = [daily EXCEPT ![day] = AddTo(@, <<now', LineEnd>>)]
    /\ UNCHANGED <<watched, history, finding, status, day, running, sources, wallBoard, since>>

Midnight ==
    /\ day < Days
    /\ day' = day + 1
    /\ UNCHANGED <<watched, now, history, finding, status, daily, running, sources, wallBoard, since>>

-----------------------------------------------------------------------------
Event(type, what) == [type |-> type, what |-> what]

\* What a bounded queue keeps that drops its oldest element for a new one
Newest(evs, max) == SubSeq(evs, IF Len(evs) > max THEN Len(evs) - max + 1 ELSE 1, Len(evs))

\* _ring is a deque(maxlen).
Ring(evs) == Newest(evs, RingMax)

\* _fan_out of each of the events: a full queue loses its oldest one.
FanOut(q, evs) == IF q = Closed THEN q ELSE Newest(q \o evs, ViewerQueue)

\* _emit for each of the events
Emit(evs) ==
    /\ ring' = Ring(ring \o evs)
    /\ viewer' = [v \in Viewer |-> FanOut(viewer[v], evs)]
    /\ shown' = shown \cup UNION {evs[i].what : i \in DOMAIN evs}

\* start(): _backfill puts the lines, findings and signals that exist on the
\* ring, in the order of their time stamps, and starts the sources.
Start ==
    /\ running = "off"
    /\ LET found == Ascending(Lines(Text(history)) \cup DOMAIN finding)
           type(n) == IF n \in DOMAIN finding THEN "finding" ELSE "history"
       IN Emit(Ring([i \in DOMAIN found |-> Event(type(found[i]), {found[i]})]))
    /\ running' = "on"
    /\ UNCHANGED <<files, sources, since>>

\* The process ends: what was in memory is gone.
Stop ==
    /\ running = "on"
    /\ running' = "off" /\ tail' = TailStart /\ known' = NoSnapshot
    /\ notes' = [step |-> "parse", seen |-> {}, mtime |-> 0]
    /\ drain' = [date |-> 0, tail |-> TailStart, lines |-> <<>>]
    /\ ring' = <<>> /\ viewer' = [v \in Viewer |-> Closed] /\ shown' = {}
    /\ since' = [s \in Source |-> MaxWrites]
    /\ UNCHANGED files

\* The tasks start with the wall.
Runs(s) == running = "on" /\ watched = s

Attach(s) == since' = IF since[s] = MaxWrites THEN [since EXCEPT ![s] = now] ELSE since

\* _source_history
HistoryStat ==
    /\ Runs("tail") /\ tail.step = "sleep"
    /\ tail' = TailStat(tail, history)
    /\ UNCHANGED <<files, running, known, notes, drain, wallBoard, since>>

HistoryRead ==
    /\ Runs("tail") /\ tail.step = "stat"
    /\ LET r == TailRead(tail, history) IN
        /\ tail' = r.tail
        /\ Emit([i \in 1..Len(r.lines) |-> Event("history", ToSet(r.lines[i]))])
    /\ Attach("tail")
    /\ UNCHANGED <<files, running, known, notes, drain>>

\* _source_findings: the snapshot, then every poll; a finding whose
\* frontmatter is there already is also a signal.
DirSnapshot ==
    /\ Runs("dir") /\ known = NoSnapshot
    /\ known' = DOMAIN finding
    /\ Attach("dir")
    /\ UNCHANGED <<files, running, tail, notes, drain, wallBoard>>

DirPoll ==
    /\ Runs("dir") /\ known # NoSnapshot /\ DOMAIN finding # known
    /\ LET new == NewFiles(known, DOMAIN finding)
           of(f) == IF finding[f] THEN <<Event("finding", {f}), Event("signal", {f})>>
                                  ELSE <<Event("finding", {f})>>
       IN Emit(FlattenSeq([i \in 1..Len(new) |-> of(new[i])]))
    /\ known' = DOMAIN finding
    /\ UNCHANGED <<files, running, tail, notes, drain, since>>

\* _source_status_notes: what is there is seen, without an event ...
NotesPrime ==
    /\ Runs("notes") /\ notes.step = "parse"
    /\ notes' = [notes EXCEPT !.step = "mtime", !.seen = status.notes]
    /\ UNCHANGED <<files, running, tail, known, drain, wallBoard, since>>

NotesPrimed ==
    /\ Runs("notes") /\ notes.step = "mtime"
    /\ notes' = [notes EXCEPT !.step = "sleep", !.mtime = status.mtime]
    /\ Attach("notes")
    /\ UNCHANGED <<files, running, tail, known, drain, wallBoard>>

\* ... then the mtime, and a parse if it has changed
NotesStat ==
    /\ Runs("notes") /\ notes.step = "sleep" /\ notes.mtime # status.mtime
    /\ notes' = [notes EXCEPT !.step = "read", !.mtime = status.mtime]
    /\ UNCHANGED <<files, running, tail, known, drain, wallBoard, since>>

\* Mutant: only the notes of the last text are remembered.
NotesReadForgets ==
    /\ Runs("notes") /\ notes.step = "read"
    /\ notes' = [notes EXCEPT !.step = "sleep", !.seen = status.notes]
    /\ LET new == SetToSeq(status.notes \ notes.seen) IN
        Emit([i \in 1..Len(new) |-> Event("note", {new[i]})])
    /\ UNCHANGED <<files, running, tail, known, drain, since>>

NotesRead ==
    /\ Runs("notes") /\ notes.step = "read"
    /\ notes' = [notes EXCEPT !.step = "sleep", !.seen = @ \cup status.notes]
    /\ LET new == SetToSeq(status.notes \ notes.seen) IN
        Emit([i \in 1..Len(new) |-> Event("note", {new[i]})])
    /\ UNCHANGED <<files, running, tail, known, drain, since>>

\* _source_inject_log: on another day the drainer starts anew with its file.
DailyRollover ==
    /\ Runs("daily") /\ drain.date # day
    /\ drain' = [drain EXCEPT !.date = day, !.tail = TailStart]
    /\ since' = [since EXCEPT !["daily"] = MaxWrites]
    /\ UNCHANGED <<files, running, tail, known, notes, wallBoard>>

DailyStat ==
    /\ Runs("daily") /\ drain.date # 0 /\ drain.tail.step = "sleep"
    /\ drain' = [drain EXCEPT !.tail = TailStat(@, daily[drain.date])]
    /\ IF daily[drain.date].cur = 0 THEN Attach("daily") ELSE UNCHANGED since
    /\ UNCHANGED <<files, running, tail, known, notes, wallBoard>>

DailyRead ==
    /\ Runs("daily") /\ drain.date # 0 /\ drain.tail.step = "stat"
    /\ LET r == TailRead(drain.tail, daily[drain.date]) IN
        drain' = [drain EXCEPT !.tail = r.tail, !.lines = @ \o r.lines]
    /\ Attach("daily")
    /\ UNCHANGED <<files, running, tail, known, notes, wallBoard>>

DailyEmit ==
    /\ Runs("daily") /\ drain.lines # <<>>
    /\ Emit(<<Event("inject", ToSet(Head(drain.lines)))>>)
    /\ drain' = [drain EXCEPT !.lines = Tail(@)]
    /\ UNCHANGED <<files, running, tail, known, notes, since>>

-----------------------------------------------------------------------------
\* subscribe(), one event of the SSE stream, unsubscribe()
ViewerJoins(v) ==
    /\ running = "on" /\ viewer[v] = Closed
    /\ viewer' = [viewer EXCEPT ![v] = <<>>]
    /\ UNCHANGED <<files, running, sources, ring, shown, since>>

Deliver(v) ==
    /\ viewer[v] \notin {Closed, <<>>}
    /\ viewer' = [viewer EXCEPT ![v] = Tail(@)]
    /\ UNCHANGED <<files, running, sources, ring, shown, since>>

ViewerLeaves(v) ==
    /\ viewer[v] # Closed
    /\ viewer' = [viewer EXCEPT ![v] = Closed]
    /\ UNCHANGED <<files, running, sources, ring, shown, since>>

\* The source with the writers of what it watches
SourceSteps ==
    \/ watched = "tail"  /\ (AppendHistory \/ ReplaceHistory \/ HistoryStat \/ HistoryRead)
    \/ watched = "dir"   /\ (CreateFinding \/ FillFinding \/ DirSnapshot \/ DirPoll)
    \/ watched = "notes" /\ (WriteStatus \/ NotesPrime \/ NotesPrimed \/ NotesStat \/ NotesRead)
    \/ watched = "daily" /\ (AppendDaily \/ Midnight \/ DailyRollover \/ DailyStat \/ DailyRead \/ DailyEmit)

WallSteps ==
    \/ Start \/ Stop
    \/ \E v \in Viewer : ViewerJoins(v) \/ Deliver(v) \/ ViewerLeaves(v)

WallNext == WallSteps \/ SourceSteps

WallSpec == WallInit /\ [][WallNext]_wall

\* Each source is a task of the event loop and polls for ever.
Polls ==
    \/ HistoryStat \/ HistoryRead \/ DirSnapshot \/ DirPoll
    \/ NotesPrime \/ NotesPrimed \/ NotesStat \/ NotesRead

WallFairness ==
    WF_wall(Polls) /\ WF_wall(DailyRollover) /\ WF_wall(DailyStat \/ DailyRead) /\ WF_wall(DailyEmit)

-----------------------------------------------------------------------------
\* A note is announced once, also when STATUS.md is rewritten without it and
\* with it again (_source_status_notes keeps what it has seen).
NoteOnce ==
    \A i, j \in DOMAIN ring :
        ring[i].type = "note" /\ ring[j].type = "note" /\ ring[i].what = ring[j].what => i = j

Listed(s) ==
    CASE s = "tail"  -> {i \in Lines(Text(history)) : i > since[s]}
      [] s = "dir"   -> {i \in DOMAIN finding : i > since[s]}
      [] s = "daily" -> {i \in Lines(Text(daily[day])) : i > since[s] /\ drain.date = day}
      [] s = "notes" -> IF status.mtime > since[s] THEN status.notes ELSE {}

\* What is written after its source has attached comes to the wall, also when
\* HISTORY.md is replaced between stat() and open() or a line of a day's log
\* waits in the drainer's queue: unless it is taken away, the day ends or the
\* server stops first.
ItemsReachTheWall ==
    \A i \in 1..MaxWrites \cup Note :
        running = "on" /\ i \in Listed(watched)
            ~> i \in shown \cup notes.seen \/ running = "off" \/ i \notin Listed(watched)

=============================================================================
