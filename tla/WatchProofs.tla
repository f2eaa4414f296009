---------------------------- MODULE WatchProofs ----------------------------
(***************************************************************************)
(* What a browser watches.  The narrator's safety for any number of        *)
(* watchers, any length of their queues and any ceiling of failures; and   *)
(* the activity wall's for any number of connections, notes and files, any *)
(* length of the ring and of the queues.                                   *)
(***************************************************************************)
EXTENDS Narrator, ActivityWall, Induction, TLAPS


\* The supervisor's budget: between two healthy polls every child after the
\* first was preceded by a failure that was counted.
Budget ==
    /\ respawns \in Nat /\ born \in Nat
    /\ born <= MaxFailures
    /\ sup = "off" => respawns = 0 /\ born = 0
    /\ sup \in {"poll", "polled", "sleep"} =>
            respawns < MaxFailures /\ born <= respawns + 1
    /\ sup \in {"backoff", "spawn"} =>
            respawns < MaxFailures /\ born <= respawns

\* Where the supervisor and stop() are together, and what child there is.
Stages ==
    /\ life = "new" <=> sup = "off"
    /\ life \in {"new", "up", "cancel", "close", "stopped", "raised"}
    /\ life \in {"cancel", "close", "stopped", "raised"} =>
            sup \in {"done", "failed", "cancelled"}
    /\ sup \in {"off", "backoff", "spawn", "failed"} => proc = "none"
    /\ life \in {"close", "stopped"} => proc = "none"
    /\ life = "raised" => sup = "failed"

RuntimeInv == Budget /\ Stages

\* The hub's count is that of its subscribers, somebody is owed a frame only
\* if somebody watches, nobody before the server is up, and NoLostWakeup.
BoardInv ==
    /\ life = "new" => ~owed
    /\ IsFiniteSet(watching) /\ count = Cardinality(watching)
    /\ tickNow \in BOOLEAN /\ owed \in BOOLEAN
    /\ owed => watching # {}
    /\ NoLostWakeup

-----------------------------------------------------------------------------
\* Every step of the supervisor, the child and stop() keeps RuntimeInv.
LEMMA RuntimeStep ==
    ASSUME RuntimeInv, [Next]_vars
    PROVE  RuntimeInv'
<1> USE RuntimeAssumption DEF RuntimeInv, Budget, Stages
<1>1. CASE \E child \in BOOLEAN : Startup(child)
  BY <1>1 DEF Startup, StartRuntime
<1>2. CASE ShutdownScheduler
  BY <1>2 DEF ShutdownScheduler, runtime
<1>3. CASE ShutdownRuntime
  BY <1>3 DEF ShutdownRuntime, Cancel
<1>4. CASE Outside
  BY <1>4 DEF Outside, Listens, Exits, PortChanges, Running
<1>5. CASE Supervise
  <2>1. CASE Poll BY <2>1 DEF Poll
  <2>2. CASE PollPassed BY <2>2 DEF PollPassed
  <2>3. CASE PollFailed BY <2>3 DEF PollFailed
  <2>4. CASE PollFoundExited BY <2>4 DEF PollFoundExited
  <2>5. CASE Wake BY <2>5 DEF Wake
  <2>6. CASE BackoffEnds BY <2>6 DEF BackoffEnds
  <2>7. CASE Spawned BY <2>7 DEF Spawned
  <2>8. CASE SpawnFails BY <2>8 DEF SpawnFails
  <2> QED BY <1>5, <2>1, <2>2, <2>3, <2>4, <2>5, <2>6, <2>7, <2>8 DEF Supervise
<1>6. CASE StopRuntime
  BY <1>6 DEF StopRuntime, StopRaises, Reap, CloseClient
<1>7. CASE UNCHANGED runtime
  BY <1>7 DEF runtime
<1> QED
  BY <1>1, <1>2, <1>3, <1>4, <1>5, <1>6, <1>7 DEF Next, vars

\* For every ceiling: at most MaxFailures children are started without a
\* healthy poll (_supervise, CV-6 and PM-3).
THEOREM RespawnsBounded == Spec => []RespawnsAreBounded
<1>1. Init => RuntimeInv
  BY RuntimeAssumption DEF Init, RuntimeInit, RuntimeInv, Budget, Stages
<1>2. RuntimeInv /\ [Next]_vars => RuntimeInv'
  BY RuntimeStep
<1>3. RuntimeInv => RespawnsAreBounded
  BY DEF RuntimeInv, Budget, RespawnsAreBounded
<1> QED BY <1>1, <1>2, <1>3, PTL DEF Spec

\* Whatever the supervisor awaits when stop() comes, no child is left running
\* (stop, _respawn_with_backoff).
THEOREM NoChildLeft == Spec => []NoChildAfterStop
<1>1. Init => RuntimeInv
  BY RuntimeAssumption DEF Init, RuntimeInit, RuntimeInv, Budget, Stages
<1>2. RuntimeInv /\ [Next]_vars => RuntimeInv'
  BY RuntimeStep
<1>3. RuntimeInv => NoChildAfterStop
  BY DEF RuntimeInv, Stages, NoChildAfterStop, Running
<1> QED BY <1>1, <1>2, <1>3, PTL DEF Spec

-----------------------------------------------------------------------------
\* The server starts once.
LEMMA StartsOnce ==
    ASSUME [Next]_vars
    PROVE  life' = "new" => life = "new"
  BY DEF Next, vars, runtime, Startup, StartRuntime, ShutdownScheduler,
         ShutdownRuntime, Cancel, Outside, Listens, Exits, PortChanges,
         Supervise, Poll, PollPassed, PollFailed, PollFoundExited, Wake,
         BackoffEnds, Spawned, SpawnFails, StopRuntime, StopRaises, Reap,
         CloseClient

\* Every step of the scheduler and the watchers keeps BoardInv.
LEMMA BoardStep ==
    ASSUME BoardInv, [Next]_vars
    PROVE  BoardInv'
<1> USE DEF BoardInv, NoLostWakeup
<1>0. life' = "new" => life = "new"
  BY StartsOnce
<1>1. CASE UNCHANGED board
  BY <1>0, <1>1 DEF board
<1>2. CASE \E child \in BOOLEAN : Startup(child)
  BY <1>2 DEF Startup, StartRuntime
<1>3. CASE ShutdownScheduler
  BY <1>0, <1>3 DEF ShutdownScheduler
<1>4. ASSUME NEW w \in Watcher, Subscribe(w), life' # "new"
      PROVE  BoardInv'
  <2>1. IsFiniteSet(watching') /\ count' = Cardinality(watching')
    BY <1>4, FS_AddElement DEF Subscribe
  <2>2. watching = {} => tickNow'
    <3>1. watching = {} => count = 0
      BY FS_EmptySet
    <3>2. tickNow' <=> tickNow \/ count' = 1
      BY <1>4 DEF Subscribe
    <3>3. count = 0 => count' = 1
      BY <1>4 DEF Subscribe
    <3> QED BY <3>1, <3>2, <3>3
  <2> QED BY <1>4, <2>1, <2>2 DEF Subscribe
<1>5. ASSUME NEW w \in Watcher, Unsubscribe(w)
      PROVE  BoardInv'
  <2>1. IsFiniteSet(watching') /\ count' = Cardinality(watching')
    BY <1>5, FS_RemoveElement DEF Unsubscribe
  <2> QED BY <1>0, <1>5, <2>1 DEF Unsubscribe
<1>6. ASSUME NEW w \in Watcher, Receive(w)
      PROVE  BoardInv'
  BY <1>0, <1>6 DEF Receive
<1>7. CASE Schedule(ready)
  <2>0. life' = "new" => life = "new"
    BY <1>0
  <2>1. CASE WaitEnds BY <2>0, <2>1 DEF WaitEnds
  <2>2. CASE BeginTick
    <3>1. count = 0 => watching = {}
      BY FS_EmptySet
    <3>2. sched' = "wait" => ~owed \/ ~(frames < MaxFrames)
      BY <2>2, <3>1, BoardAssumption DEF BeginTick
    <3> QED BY <2>0, <2>2, <3>2 DEF BeginTick
  <2>3. CASE RowsBuilt(ready)
    <3>1. CASE Publish BY <2>0, <3>1 DEF Publish
    <3>2. CASE ~Publish BY <2>0, <2>3, <3>2 DEF RowsBuilt
    <3> QED BY <3>1, <3>2
  <2>4. CASE RowsFail BY <2>0, <2>4 DEF RowsFail
  <2>5. CASE Narrated BY <2>0, <2>5 DEF Narrated, Publish
  <2> QED BY <1>7, <2>1, <2>2, <2>3, <2>4, <2>5 DEF Schedule
<1>8. CASE ShutdownRuntime
  BY <1>8, <1>1 DEF ShutdownRuntime
<1>9. CASE (life = "up" /\ \E w \in Watcher : Watch(w)) /\ UNCHANGED runtime
  BY <1>9, <1>4, <1>5, <1>6 DEF Watch, runtime
<1> QED
  BY <1>1, <1>2, <1>3, <1>7, <1>8, <1>9 DEF Next, vars

\* For any number of watchers that come and go at any time: the first one is
\* never left to wait for the interval (hub.subscribe, run_narrator_scheduler).
THEOREM NoWakeupIsLost == Spec => []NoLostWakeup
<1>1. Init => BoardInv
  BY FS_EmptySet DEF Init, NarrativeInit, BoardInv, NoLostWakeup
<1>2. BoardInv /\ [Next]_vars => BoardInv'
  BY BoardStep
<1>3. BoardInv => NoLostWakeup
  BY DEF BoardInv
<1> QED BY <1>1, <1>2, <1>3, PTL DEF Spec

-----------------------------------------------------------------------------
\* A tick that publishes has a frame left, and a watcher's queue ends with the
\* newest frame; one whose queue is empty has been sent it.
FrameInv ==
    /\ NarrativeTypeOK
    /\ sched \in {"build", "narrate"} => frames < MaxFrames
    /\ \A w \in watching :
          IF queue[w] = <<>> THEN seen[w] = frames
          ELSE queue[w][Len(queue[w])] = frames

\* A bounded queue keeps its length and ends with what was put last.
LEMMA EnqueuedQueue ==
    ASSUME NEW S, NEW q \in Seq(S), NEW f \in S, Len(q) <= QueueMax
    PROVE  /\ Enqueued(q, f) \in Seq(S) /\ Len(Enqueued(q, f)) <= QueueMax
           /\ Enqueued(q, f) # <<>> /\ Enqueued(q, f)[Len(Enqueued(q, f))] = f
<1>1. PICK r : r = IF Len(q) = QueueMax THEN Tail(q) ELSE q
  OBVIOUS
<1>2. r \in Seq(S) /\ Len(r) < QueueMax
  BY <1>1, BoardAssumption
<1>3. Enqueued(q, f) = Append(r, f)
  BY <1>1 DEF Enqueued
<1> QED BY <1>2, <1>3, BoardAssumption

\* What is left of a queue ends as it did.
LEMMA TailEnds ==
    ASSUME NEW S, NEW q \in Seq(S), q # <<>>
    PROVE  /\ Head(q) \in S /\ Tail(q) \in Seq(S) /\ Len(Tail(q)) <= Len(q)
           /\ IF Tail(q) = <<>> THEN Head(q) = q[Len(q)]
              ELSE Tail(q)[Len(Tail(q))] = q[Len(q)]
<1>1. Head(q) \in S /\ Tail(q) \in Seq(S) /\ Len(Tail(q)) = Len(q) - 1
  BY HeadTailProperties
<1>2. Tail(q) = <<>> => Len(q) = 1
  BY <1>1
<1>3. Tail(q) # <<>> => Tail(q)[Len(Tail(q))] = q[Len(q)]
  BY <1>1
<1> QED BY <1>1, <1>2, <1>3

\* Publishing puts the new frame last in every watcher's queue.
LEMMA PublishStep ==
    ASSUME FrameInv, Publish, frames < MaxFrames
    PROVE  FrameInv'
<1> USE BoardAssumption DEF FrameInv, NarrativeTypeOK
<1>1. PICK f \in 1..MaxFrames : f = frames + 1
  OBVIOUS
<1>2. /\ frames' = f /\ sched' = "wait" /\ owed' = FALSE
      /\ UNCHANGED <<watching, count, tickNow, seen>>
      /\ queue' = [w \in Watcher |-> IF w \in watching THEN Enqueued(queue[w], f) ELSE queue[w]]
  BY <1>1 DEF Publish
<1>3. \A w \in Watcher :
        /\ Enqueued(queue[w], f) \in Seq(1..MaxFrames)
        /\ Len(Enqueued(queue[w], f)) <= QueueMax
        /\ Enqueued(queue[w], f) # <<>>
        /\ Enqueued(queue[w], f)[Len(Enqueued(queue[w], f))] = f
  BY EnqueuedQueue
<1>4. queue' \in [Watcher -> Seq(1..MaxFrames)] /\ \A w \in Watcher : Len(queue'[w]) <= QueueMax
  BY <1>2, <1>3
<1>5. \A w \in watching : queue'[w] # <<>> /\ queue'[w][Len(queue'[w])] = f
  BY <1>2, <1>3
<1>6. owed' \in BOOLEAN /\ tickNow' \in BOOLEAN
  BY <1>2
<1>7. NarrativeTypeOK'
  BY <1>2, <1>4, <1>6
<1> QED BY <1>2, <1>5, <1>7

\* Every step of the server and its watchers keeps the newest frame at the end.
LEMMA FrameStep ==
    ASSUME BoardInv, FrameInv, [Next]_vars
    PROVE  FrameInv'
<1> USE BoardAssumption DEF FrameInv, NarrativeTypeOK
<1>1. CASE UNCHANGED board
  BY <1>1 DEF board
<1>2. CASE \E child \in BOOLEAN : Startup(child)
  BY <1>2 DEF Startup
<1>3. CASE ShutdownScheduler
  BY <1>3 DEF ShutdownScheduler
<1>4. ASSUME NEW w \in Watcher, Subscribe(w)
      PROVE  FrameInv'
  <2>1. tickNow' \in BOOLEAN /\ owed' \in BOOLEAN
    BY <1>4, Zenon DEF Subscribe
  <2> QED BY <1>4, <2>1 DEF Subscribe
<1>5. ASSUME NEW w \in Watcher, Unsubscribe(w)
      PROVE  FrameInv'
  <2>1. owed' \in BOOLEAN
    BY <1>5, Zenon DEF Unsubscribe
  <2>2. count' \in Nat
    <3>1. count' = Cardinality(watching \ {w})
      BY <1>5, FS_RemoveElement DEF BoardInv, Unsubscribe
    <3> QED BY <3>1, FS_RemoveElement, FS_CardinalityType DEF BoardInv
  <2> QED BY <1>5, <2>1, <2>2 DEF Unsubscribe
<1>6. ASSUME NEW w \in Watcher, Receive(w)
      PROVE  FrameInv'
  <2>1. queue[w] \in Seq(1..MaxFrames) /\ queue[w] # <<>> /\ w \in watching
    BY <1>6 DEF Receive
  <2>2. /\ Head(queue[w]) \in 1..MaxFrames /\ Tail(queue[w]) \in Seq(1..MaxFrames)
        /\ Len(Tail(queue[w])) <= Len(queue[w])
        /\ IF Tail(queue[w]) = <<>> THEN Head(queue[w]) = frames
           ELSE Tail(queue[w])[Len(Tail(queue[w]))] = frames
    BY <2>1, TailEnds
  <2>3. /\ seen' = [seen EXCEPT ![w] = Head(queue[w])]
        /\ queue' = [queue EXCEPT ![w] = Tail(queue[w])]
        /\ UNCHANGED <<watching, count, tickNow, frames, sched, owed>>
    BY <1>6 DEF Receive
  <2>4. Len(Tail(queue[w])) <= QueueMax
    BY <2>1, <2>2
  <2>5. /\ queue' \in [Watcher -> Seq(1..MaxFrames)] /\ seen' \in [Watcher -> 0..MaxFrames]
        /\ \A v \in Watcher : Len(queue'[v]) <= QueueMax
    <3>1. queue' \in [Watcher -> Seq(1..MaxFrames)]
      BY <2>2, <2>3
    <3>2. seen' \in [Watcher -> 0..MaxFrames]
      <4>1. PICK h \in 0..MaxFrames : h = Head(queue[w])
        BY <2>2
      <4>2. seen \in [Watcher -> 0..MaxFrames] /\ seen' = [seen EXCEPT ![w] = h]
        BY <2>3, <4>1
      <4> QED BY <4>2
    <3>3. ASSUME NEW v \in Watcher PROVE Len(queue'[v]) <= QueueMax
      <4>1. queue'[v] = IF v = w THEN Tail(queue[w]) ELSE queue[v]
        BY <2>3
      <4> QED BY <2>4, <4>1
    <3> QED BY <3>1, <3>2, <3>3
  <2>6. NarrativeTypeOK'
    BY <2>3, <2>5
  <2>7. \A v \in watching' : IF queue'[v] = <<>> THEN seen'[v] = frames'
                             ELSE queue'[v][Len(queue'[v])] = frames'
    BY <2>2, <2>3
  <2> QED BY <2>3, <2>6, <2>7
<1>7. CASE Schedule(ready)
  <2>1. CASE WaitEnds BY <2>1 DEF WaitEnds
  <2>2. CASE BeginTick
    <3>1. sched' \in {"wait", "build"} /\ (sched' = "build" => frames < MaxFrames)
      BY <2>2 DEF BeginTick
    <3>2. tickNow' \in BOOLEAN /\ UNCHANGED <<watching, count, queue, seen, frames, owed>>
      BY <2>2 DEF BeginTick
    <3> QED BY <3>1, <3>2
  <2>3. CASE RowsBuilt(ready)
    <3>1. CASE Publish BY <2>3, <3>1, PublishStep DEF RowsBuilt
    <3>2. CASE ~Publish BY <2>3, <3>2 DEF RowsBuilt
    <3> QED BY <3>1, <3>2
  <2>4. CASE RowsFail BY <2>4 DEF RowsFail
  <2>5. CASE Narrated BY <2>5, PublishStep DEF Narrated
  <2> QED BY <1>7, <2>1, <2>2, <2>3, <2>4, <2>5 DEF Schedule
<1>8. CASE ShutdownRuntime
  BY <1>8, <1>1 DEF ShutdownRuntime
<1>9. CASE (life = "up" /\ \E w \in Watcher : Watch(w)) /\ UNCHANGED runtime
  BY <1>9, <1>4, <1>5, <1>6 DEF Watch
<1> HIDE BoardAssumption DEF FrameInv, NarrativeTypeOK
<1> QED
  BY <1>1, <1>2, <1>3, <1>7, <1>8, <1>9 DEF Next, vars

\* The board's frames, queues and counts in every behaviour of the server.
LEMMA FrameInvariant == Spec => []FrameInv
<1>1. Init => BoardInv
  BY FS_EmptySet DEF Init, NarrativeInit, BoardInv, NoLostWakeup
<1>2. Init => FrameInv
  <2> SUFFICES ASSUME NarrativeInit PROVE FrameInv
    BY DEF Init
  <2>1. tickNow \in BOOLEAN /\ owed \in BOOLEAN /\ watching \subseteq Watcher /\ count \in Nat
    BY DEF NarrativeInit
  <2>2. /\ queue \in [Watcher -> Seq(1..MaxFrames)] /\ \A w \in Watcher : Len(queue[w]) <= QueueMax
        /\ seen \in [Watcher -> 0..MaxFrames] /\ frames \in 0..MaxFrames
    BY BoardAssumption DEF NarrativeInit
  <2> QED BY <2>1, <2>2 DEF NarrativeInit, FrameInv, NarrativeTypeOK
<1>3. BoardInv /\ [Next]_vars => BoardInv'
  BY BoardStep
<1>4. BoardInv /\ FrameInv /\ [Next]_vars => FrameInv'
  BY FrameStep
<1> QED BY <1>1, <1>2, <1>3, <1>4, PTL DEF Spec

\* No watcher's queue grows beyond QueueMax, no count below zero: the types of
\* the board's state.
THEOREM NarrativeTypeCorrect == Spec => []NarrativeTypeOK
<1>1. FrameInv => NarrativeTypeOK
  BY DEF FrameInv
<1> QED BY <1>1, FrameInvariant, PTL

\* A slow watcher loses old frames and never the newest one (hub.publish), for
\* any number of watchers and any length of their queues.
THEOREM NewestFrameIsKept == Spec => []NewestIsKept
<1>1. FrameInv => NewestIsKept
  BY DEF FrameInv, NewestIsKept
<1> QED BY <1>1, FrameInvariant, PTL

-----------------------------------------------------------------------------
\* Ascending lists the numbers of a finite set, each once.
LEMMA AscendingIs ==
    ASSUME NEW S \in SUBSET Nat, IsFiniteSet(S)
    PROVE  /\ Cardinality(S) \in Nat
           /\ Ascending(S) \in [1..Cardinality(S) -> S]
           /\ \A i, j \in 1..Cardinality(S) : i < j => Ascending(S)[i] < Ascending(S)[j]
<1> DEFINE Lists(f, T, n) ==
        f \in [1..n -> T] /\ \A i, j \in 1..n : i < j => f[i] < f[j]
<1>1. PICK U : U = {n \in Nat : \A T \in SUBSET Nat :
                       IsFiniteSet(T) /\ Cardinality(T) = n => \E f : Lists(f, T, n)}
  OBVIOUS
<1>2. 0 \in U
  <2> SUFFICES ASSUME NEW T \in SUBSET Nat, IsFiniteSet(T), Cardinality(T) = 0
               PROVE  \E f : Lists(f, T, 0)
    BY <1>1
  <2>1. PICK f : f = [i \in 1..0 |-> 0]
    OBVIOUS
  <2>2. f \in [1..0 -> T]
    BY <2>1
  <2>3. Lists(f, T, 0)
    BY <2>2
  <2> QED BY <2>3
<1>3. ASSUME NEW n \in Nat, n \in U PROVE n + 1 \in U
  <2> SUFFICES ASSUME NEW T \in SUBSET Nat, IsFiniteSet(T), Cardinality(T) = n + 1
               PROVE  \E f : Lists(f, T, n + 1)
    BY <1>1
  <2>1. T # {}
    BY FS_EmptySet
  <2>2. PICK m \in T : \A y \in T : m <= y
    BY <2>1, LeastNumber
  <2>3. PICK R : R = T \ {m}
    OBVIOUS
  <2>4. IsFiniteSet(R) /\ Cardinality(R) = n /\ R \in SUBSET Nat
    <3>1. IsFiniteSet(T \ {m}) /\ Cardinality(T \ {m}) = Cardinality(T) - 1
      BY <2>2, FS_RemoveElement
    <3> QED BY <2>3, <3>1
  <2>5. PICK g : Lists(g, R, n)
    BY <1>1, <1>3, <2>4
  <2>6. PICK f : f = [i \in 1..(n + 1) |-> IF i = 1 THEN m ELSE g[i - 1]]
    OBVIOUS
  <2>7. \A i \in 2..(n + 1) : f[i] = g[i - 1] /\ g[i - 1] \in R
    BY <2>5, <2>6
  <2>8. f[1] = m
    BY <2>6
  <2>9. \A y \in R : m < y /\ y \in T
    BY <2>2, <2>3
  <2>10. f \in [1..(n + 1) -> T]
    <3>1. \A i \in 1..(n + 1) : i = 1 \/ i \in 2..(n + 1)
      OBVIOUS
    <3>2. \A i \in 1..(n + 1) : f[i] \in T
      BY <2>7, <2>8, <2>9, <3>1
    <3> QED BY <2>6, <3>2
  <2>11. ASSUME NEW i \in 1..(n + 1), NEW j \in 1..(n + 1), i < j PROVE f[i] < f[j]
    <3>1. j \in 2..(n + 1) /\ j - 1 \in 1..n
      BY <2>11
    <3>2. CASE i = 1
      BY <2>7, <2>8, <2>9, <3>1, <3>2
    <3>3. CASE i # 1
      <4>1. i \in 2..(n + 1) /\ i - 1 \in 1..n /\ i - 1 < j - 1
        BY <2>11, <3>3
      <4>2. g[i - 1] < g[j - 1]
        BY <2>5, <3>1, <4>1
      <4> QED BY <2>7, <3>1, <4>1, <4>2
    <3> QED BY <3>2, <3>3
  <2>12. Lists(f, T, n + 1)
    BY <2>10, <2>11
  <2> HIDE DEF Lists
  <2> QED BY <2>12
<1>4. PICK n \in Nat : n = Cardinality(S)
  BY FS_CardinalityType
<1>5. n \in U
  <2> HIDE DEF Lists
  <2> QED BY <1>2, <1>3, SetInduction
<1>6. \E f : Lists(f, S, n)
  <2> HIDE DEF Lists
  <2> QED BY <1>1, <1>4, <1>5
<1>7. PICK g : g = Ascending(S)
  OBVIOUS
<1>8. g \in [1..n -> S] /\ \A i, j \in 1..n : i < j => g[i] < g[j]
  BY <1>4, <1>6, <1>7 DEF Ascending
<1> QED BY <1>4, <1>7, <1>8

\* What a text is split into: lines and a rest, all texts.
Parts == [lines : Seq(Seq(Nat)), kept : Seq(Nat)]

LEMMA SplitCharIs ==
    ASSUME NEW parts \in Parts, NEW x \in Nat
    PROVE  SplitChar(parts, x) \in Parts
<1>1. PICK ls, ps : ls = parts.lines /\ ps = parts.kept
  OBVIOUS
<1>2. ls \in Seq(Seq(Nat)) /\ ps \in Seq(Nat)
  BY <1>1 DEF Parts
<1>3. Append(ls, ps) \in Seq(Seq(Nat)) /\ Append(ps, x) \in Seq(Nat) /\ <<>> \in Seq(Nat)
  BY <1>2, AppendProperties, EmptySeq
<1> QED BY <1>1, <1>3 DEF SplitChar, Parts

LEMMA SplitIs ==
    ASSUME NEW text \in Seq(Nat)
    PROVE  Split(text) \in Parts
<1>0. PICK n \in Nat : n = Len(text)
  OBVIOUS
<1>1. PICK none : none = [lines |-> <<>>, kept |-> <<>>]
  OBVIOUS
<1> DEFINE Filled(f, k) == f = [i \in 0..k |-> IF i = 0 THEN none ELSE SplitChar(f[i - 1], text[i])]
<1>2. PICK T : T = {k \in Nat : \E f : Filled(f, k)}
  OBVIOUS
<1>3. 0 \in T
  <2>1. PICK f : f = [i \in 0..0 |-> none]
    OBVIOUS
  <2>2. Filled(f, 0)
    BY <2>1
  <2> QED BY <1>2, <2>2
<1>4. ASSUME NEW k \in Nat, k \in T PROVE k + 1 \in T
  <2>1. PICK f : Filled(f, k)
    BY <1>2, <1>4
  <2>2. PICK g : g = [i \in 0..(k + 1) |-> IF i = k + 1 THEN SplitChar(f[k], text[k + 1]) ELSE f[i]]
    OBVIOUS
  <2>3. Filled(g, k + 1)
    <3>1. \A i \in 0..(k + 1) : g[i] = IF i = 0 THEN none ELSE SplitChar(g[i - 1], text[i])
      BY <2>1, <2>2
    <3> QED BY <2>2, <3>1
  <2> HIDE DEF Filled
  <2> QED BY <1>2, <2>3
<1>5. n \in T
  <2> HIDE DEF Filled
  <2> QED BY <1>3, <1>4, SetInduction
<1>6. PICK upTo : upTo = CHOOSE f : Filled(f, n)
  OBVIOUS
<1>7. Filled(upTo, n)
  <2> HIDE DEF Filled
  <2> QED BY <1>2, <1>5, <1>6
<1>8. Split(text) = upTo[n]
  BY <1>0, <1>1, <1>6 DEF Split
<1>9. \A i \in 0..n : upTo[i] = IF i = 0 THEN none ELSE SplitChar(upTo[i - 1], text[i])
  BY <1>7
<1>10. none \in Parts
  BY <1>1, EmptySeq DEF Parts
<1>11. PICK U : U = {k \in Nat : k <= n => upTo[k] \in Parts}
  OBVIOUS
<1>12. 0 \in U
  BY <1>9, <1>10, <1>11
<1>13. ASSUME NEW k \in Nat, k \in U PROVE k + 1 \in U
  <2> SUFFICES ASSUME k + 1 <= n PROVE upTo[k + 1] \in Parts
    BY <1>11
  <2>1. k + 1 \in 0..n /\ k + 1 # 0 /\ (k + 1) - 1 = k /\ k <= n /\ k + 1 \in 1..n
    OBVIOUS
  <2>2. upTo[k] \in Parts /\ text[k + 1] \in Nat
    BY <1>0, <1>11, <1>13, <2>1
  <2>3. upTo[k + 1] = SplitChar(upTo[k], text[k + 1])
    BY <1>9, <2>1
  <2> QED BY <2>2, <2>3, SplitCharIs
<1>14. n \in U
  BY <1>12, <1>13, SetInduction
<1> QED BY <1>8, <1>11, <1>14

\* One poll of the tail: stat(), then the read.
LEMMA TailStatIs ==
    ASSUME NEW n \in Nat, NEW t \in Tails(n), NEW disk \in Disks(n)
    PROVE  TailStat(t, disk) \in Tails(n)
<1>1. disk.cur # 0 => Len(disk.text[disk.cur]) \in Nat
  BY DEF Disks
<1>2. CASE disk.cur = 0
  BY <1>2 DEF TailStat, Tails
<1>3. CASE disk.cur # 0
  BY <1>1, <1>3 DEF TailStat, Tails, Disks
<1> QED BY <1>2, <1>3

LEMMA TailReadIs ==
    ASSUME NEW n \in Nat, NEW t \in Tails(n), NEW disk \in Disks(n)
    PROVE  /\ TailRead(t, disk).tail \in Tails(n)
           /\ TailRead(t, disk).lines \in Seq(Seq(Nat))
<1>0. <<>> \in Seq(Seq(Nat))
  BY EmptySeq
<1>1. CASE Rotated(t) /\ disk.cur = 0
  <2>1. PICK none : none = [t EXCEPT !.step = "sleep", !.open = 0]
    OBVIOUS
  <2>2. none \in Tails(n)
    <3>1. 0 \in 0..n
      OBVIOUS
    <3> QED BY <2>1, <3>1, Zenon DEF Tails
  <2>3. TailRead(t, disk) = [tail |-> none, lines |-> <<>>]
    BY <1>1, <2>1 DEF TailRead
  <2> QED BY <1>0, <2>2, <2>3
<1>2. CASE ~(Rotated(t) /\ disk.cur = 0)
  <2>1. PICK u : u = IF Rotated(t) THEN Reopen(t, disk) ELSE t
    OBVIOUS
  <2>2. u \in Tails(n) /\ u.open \in 1..n /\ u.partial = t.partial
    <3>1. CASE Rotated(t)
      <4>1. disk.cur \in 1..n /\ Len(disk.text[disk.cur]) \in Nat
        BY <1>2, <3>1 DEF Disks
      <4>2. PICK o \in Nat : o = IF t.ino = 0 /\ t.first THEN Len(disk.text[disk.cur]) ELSE 0
        BY <4>1
      <4>3. PICK c \in 1..n : c = disk.cur
        BY <4>1
      <4>4. u = [t EXCEPT !.open = c, !.ino = t.stIno, !.off = o]
        BY <2>1, <3>1, <4>2, <4>3 DEF Reopen
      <4>5. c \in 0..n
        OBVIOUS
      <4>6. u \in Tails(n)
        BY <4>4, <4>5, Zenon DEF Tails
      <4> QED BY <4>4, <4>6 DEF Tails
    <3>2. CASE ~Rotated(t)
      BY <2>1, <3>2 DEF Rotated, Tails
    <3> QED BY <3>1, <3>2
  <2>3. PICK text : text = disk.text[u.open]
    OBVIOUS
  <2>4. text \in Seq(Nat) /\ Len(text) \in Nat
    BY <2>2, <2>3 DEF Disks
  <2>5. PICK off \in Nat : off = u.off
    BY <2>2 DEF Tails
  <2>6. PICK chunk : chunk = SubSeq(text, off + 1, Len(text))
    OBVIOUS
  <2>7. chunk \in Seq(Nat)
    <3>1. \A i \in (off + 1)..Len(text) : text[i] \in Nat
      BY <2>4
    <3> QED BY <2>4, <2>6, <3>1, SubSeqProperties
  <2>8. PICK whole : whole = t.partial \o chunk
    OBVIOUS
  <2>9. whole \in Seq(Nat)
    <3>1. t.partial \in Seq(Nat)
      BY DEF Tails
    <3> QED BY <2>7, <2>8, <3>1, ConcatProperties
  <2>10. PICK parts : parts = Split(whole)
    OBVIOUS
  <2>11. parts.lines \in Seq(Seq(Nat)) /\ parts.kept \in Seq(Nat)
    BY <2>9, <2>10, SplitIs DEF Parts
  <2>12. TailRead(t, disk) =
           IF t.stSize <= u.off THEN [tail |-> [u EXCEPT !.step = "sleep"], lines |-> <<>>]
           ELSE [tail |-> [u EXCEPT !.step = "sleep", !.off = Len(text), !.partial = parts.kept],
                 lines |-> parts.lines]
    <3> HIDE DEF Rotated
    <3> QED BY <1>2, <2>1, <2>3, <2>5, <2>6, <2>8, <2>10 DEF TailRead
  <2>13. CASE t.stSize <= u.off
    <3>1. PICK v : v = [u EXCEPT !.step = "sleep"]
      OBVIOUS
    <3>2. v \in Tails(n)
      BY <2>2, <3>1 DEF Tails
    <3>3. TailRead(t, disk) = [tail |-> v, lines |-> <<>>]
      BY <2>12, <2>13, <3>1
    <3> QED BY <1>0, <3>2, <3>3
  <2>14. CASE ~(t.stSize <= u.off)
    <3>1. PICK v : v = [u EXCEPT !.step = "sleep", !.off = Len(text), !.partial = parts.kept]
      OBVIOUS
    <3>2. v \in Tails(n)
      BY <2>2, <2>4, <2>11, <3>1 DEF Tails
    <3>3. TailRead(t, disk) = [tail |-> v, lines |-> parts.lines]
      BY <2>12, <2>14, <3>1
    <3> QED BY <2>11, <3>2, <3>3
  <2> QED BY <2>13, <2>14
<1> QED BY <1>1, <1>2

-----------------------------------------------------------------------------
\* q is the end of s.
IsEnd(q, s) ==
    /\ Len(q) <= Len(s)
    /\ \A i \in 1..Len(q) : q[i] = s[i + (Len(s) - Len(q))]

\* A bounded queue keeps the end of what was put into it, as long as it can.
LEMMA NewestIs ==
    ASSUME NEW S, NEW evs \in Seq(S), NEW max \in Nat
    PROVE  /\ Newest(evs, max) \in Seq(S)
           /\ Len(Newest(evs, max)) = IF Len(evs) > max THEN max ELSE Len(evs)
           /\ IsEnd(Newest(evs, max), evs)
<1>1. PICK n \in Nat : n = Len(evs)
  OBVIOUS
<1>2. PICK m \in Nat : m >= 1 /\ m = IF n > max THEN n - max + 1 ELSE 1
  <2>1. CASE n > max
    <3>1. n - max + 1 \in Nat /\ n - max + 1 >= 1
      BY <2>1
    <3> QED BY <2>1, <3>1
  <2>2. CASE ~(n > max)
    BY <2>2
  <2> QED BY <2>1, <2>2
<1>3. \A i \in m..n : evs[i] \in S
  BY <1>1, <1>2
<1>4. PICK q : q = SubSeq(evs, m, n)
  OBVIOUS
<1>5. /\ q \in Seq(S) /\ Len(q) = (IF m <= n THEN n - m + 1 ELSE 0)
      /\ \A i \in 1..(n - m + 1) : q[i] = evs[m + i - 1]
  BY <1>3, <1>4, SubSeqProperties
<1>6. Newest(evs, max) = q
  BY <1>1, <1>2, <1>4 DEF Newest
<1>7. Len(q) = IF n > max THEN max ELSE n
  BY <1>2, <1>5
<1>8. IsEnd(q, evs)
  <2>1. PICK k \in Nat : k = Len(q)
    <3>1. Len(q) \in Nat
      BY <1>5, LenProperties
    <3> QED BY <3>1
  <2>2. k <= n /\ n - k = m - 1
    BY <1>2, <1>7, <2>1
  <2>3. ASSUME NEW i \in 1..k PROVE q[i] = evs[i + (n - k)]
    <3>1. i \in 1..(n - m + 1) /\ m + i - 1 = i + (n - k)
      BY <2>2
    <3> QED BY <1>5, <3>1
  <2> QED BY <1>1, <2>1, <2>2, <2>3 DEF IsEnd
<1> QED BY <1>1, <1>5, <1>6, <1>7, <1>8

\* The same is put behind a sequence and behind an end of it.
LEMMA EndsGrowTogether ==
    ASSUME NEW S, NEW s \in Seq(S), NEW q \in Seq(S), NEW evs \in Seq(S), IsEnd(q, s)
    PROVE  IsEnd(q \o evs, s \o evs)
<1>1. PICK k \in Nat, n \in Nat, e \in Nat : k = Len(q) /\ n = Len(s) /\ e = Len(evs)
  OBVIOUS
<1>2. PICK a, b : a = q \o evs /\ b = s \o evs
  OBVIOUS
<1>3. /\ Len(a) = k + e /\ Len(b) = n + e
      /\ \A i \in 1..(k + e) : a[i] = IF i <= k THEN q[i] ELSE evs[i - k]
      /\ \A i \in 1..(n + e) : b[i] = IF i <= n THEN s[i] ELSE evs[i - n]
  BY <1>1, <1>2, ConcatProperties
<1>4. k <= n /\ \A i \in 1..k : q[i] = s[i + (n - k)]
  BY <1>1 DEF IsEnd
<1>5. ASSUME NEW i \in 1..(k + e) PROVE a[i] = b[i + ((n + e) - (k + e))]
  <2>1. i + ((n + e) - (k + e)) = i + (n - k) /\ i + (n - k) \in 1..(n + e)
    BY <1>4
  <2>2. CASE i <= k
    <3>1. i \in 1..k /\ i + (n - k) <= n
      BY <1>4, <2>2
    <3>2. a[i] = q[i] /\ b[i + (n - k)] = s[i + (n - k)]
      BY <1>3, <2>1, <2>2, <3>1
    <3> QED BY <1>4, <2>1, <3>1, <3>2
  <2>3. CASE ~(i <= k)
    <3>1. ~(i + (n - k) <= n) /\ (i + (n - k)) - n = i - k
      BY <2>3
    <3>2. a[i] = evs[i - k] /\ b[i + (n - k)] = evs[(i + (n - k)) - n]
      BY <1>3, <2>1, <2>3, <3>1
    <3> QED BY <2>1, <3>1, <3>2
  <2> QED BY <2>2, <2>3
<1>6. PICK x \in Nat, y \in Nat : x = k + e /\ y = n + e /\ x <= y
  BY <1>4
<1>7. Len(a) = x /\ Len(b) = y /\ \A i \in 1..x : a[i] = b[i + (y - x)]
  BY <1>3, <1>5, <1>6
<1>8. IsEnd(a, b)
  BY <1>6, <1>7, Zenon DEF IsEnd
<1> QED BY <1>2, <1>8

\* Of two ends the shorter is the end of the longer; an end of an end is one.
LEMMA EndOfEnd ==
    ASSUME NEW S, NEW a \in Seq(S), NEW b \in Seq(S), NEW s \in Seq(S), IsEnd(a, s), IsEnd(b, s),
           Len(a) <= Len(b)
    PROVE  IsEnd(a, b)
<1>1. PICK k \in Nat, m \in Nat, n \in Nat : k = Len(a) /\ m = Len(b) /\ n = Len(s)
  OBVIOUS
<1>2. ASSUME NEW i \in 1..k PROVE a[i] = b[i + (m - k)]
  <2>1. i + (m - k) \in 1..m /\ (i + (m - k)) + (n - m) = i + (n - k)
    BY <1>1
  <2>2. a[i] = s[i + (n - k)] /\ b[i + (m - k)] = s[(i + (m - k)) + (n - m)]
    BY <1>1, <2>1 DEF IsEnd
  <2> QED BY <2>1, <2>2
<1> QED BY <1>1, <1>2 DEF IsEnd

LEMMA EndTransitive ==
    ASSUME NEW S, NEW a \in Seq(S), NEW b \in Seq(S), NEW s \in Seq(S), IsEnd(a, b), IsEnd(b, s)
    PROVE  IsEnd(a, s)
<1>1. PICK k \in Nat, m \in Nat, n \in Nat : k = Len(a) /\ m = Len(b) /\ n = Len(s)
  OBVIOUS
<1>2. k <= m /\ m <= n
  BY <1>1 DEF IsEnd
<1>3. ASSUME NEW i \in 1..k PROVE a[i] = s[i + (n - k)]
  <2>1. i + (m - k) \in 1..m /\ (i + (m - k)) + (n - m) = i + (n - k)
    BY <1>2
  <2>2. a[i] = b[i + (m - k)] /\ b[i + (m - k)] = s[(i + (m - k)) + (n - m)]
    BY <1>1, <2>1 DEF IsEnd
  <2> QED BY <2>1, <2>2
<1> QED BY <1>1, <1>2, <1>3 DEF IsEnd

-----------------------------------------------------------------------------
\* What a connection has still to send is the end of the ring, without a gap
\* and in its order: _emit puts an event on the ring and into every queue, and
\* _fan_out drops only the oldest event of a queue.
StreamIsEndOfRing == \A v \in Viewer : viewer[v] # Closed => IsEnd(viewer[v], ring)

StreamInv == BoardTypeOK /\ StreamIsEndOfRing

\* _emit keeps the ring and the queues so.
LEMMA EmitKeeps ==
    ASSUME StreamInv, NEW evs \in Seq(Events), Emit(evs), running' \in {"off", "on"}
    PROVE  /\ StreamInv'
           /\ ring' \in Seq(Events) /\ IsEnd(ring', ring \o evs)
<1>0. RingMax \in Nat /\ ViewerQueue \in Nat /\ ViewerQueue <= RingMax
  BY WallAssumption
<1>1. PICK r : r = ring
  OBVIOUS
<1>2. r \in Seq(Events) /\ r \o evs \in Seq(Events) /\ Len(r \o evs) = Len(r) + Len(evs)
  BY <1>1, ConcatProperties DEF StreamInv, BoardTypeOK
<1>3. PICK r2 : r2 = Newest(r \o evs, RingMax)
  OBVIOUS
<1>4. /\ r2 \in Seq(Events) /\ IsEnd(r2, r \o evs)
      /\ Len(r2) = IF Len(r \o evs) > RingMax THEN RingMax ELSE Len(r \o evs)
  BY <1>0, <1>2, <1>3, NewestIs
<1>5. ring' = r2 /\ viewer' = [v \in Viewer |-> FanOut(viewer[v], evs)]
  BY <1>1, <1>3 DEF Emit, Ring
<1>6. ASSUME NEW v \in Viewer
      PROVE  /\ viewer'[v] \in {Closed} \cup Seq(Events)
             /\ viewer'[v] # Closed => Len(viewer'[v]) <= ViewerQueue /\ IsEnd(viewer'[v], r2)
  <2>1. PICK q : q = viewer[v]
    OBVIOUS
  <2>2. viewer'[v] = FanOut(q, evs)
    BY <1>5, <2>1
  <2>3. CASE q = Closed
    BY <2>2, <2>3 DEF FanOut
  <2>4. CASE q # Closed
    <3>1. q \in Seq(Events) /\ IsEnd(q, r)
      BY <1>1, <2>1, <2>4 DEF StreamInv, BoardTypeOK, StreamIsEndOfRing
    <3>2. q \o evs \in Seq(Events) /\ Len(q \o evs) = Len(q) + Len(evs)
      BY <3>1, ConcatProperties
    <3>3. IsEnd(q \o evs, r \o evs)
      BY <1>2, <3>1, EndsGrowTogether
    <3>4. PICK q2 : q2 = Newest(q \o evs, ViewerQueue)
      OBVIOUS
    <3>5. /\ q2 \in Seq(Events) /\ IsEnd(q2, q \o evs)
          /\ Len(q2) = IF Len(q \o evs) > ViewerQueue THEN ViewerQueue ELSE Len(q \o evs)
      BY <1>0, <3>2, <3>4, NewestIs
    <3>6. IsEnd(q2, r \o evs)
      BY <1>2, <3>2, <3>3, <3>5, EndTransitive
    <3>7. Len(q) <= Len(r)
      BY <3>1 DEF IsEnd
    <3>8. Len(q2) <= ViewerQueue /\ Len(q2) <= Len(r2)
      <4>1. PICK a \in Nat, b \in Nat, c \in Nat : a = Len(q) /\ b = Len(r) /\ c = Len(evs)
        BY <1>2, <3>1
      <4>2. Len(q \o evs) = a + c /\ Len(r \o evs) = b + c /\ a <= b
        BY <1>2, <3>2, <3>7, <4>1
      <4> QED BY <1>0, <1>4, <3>5, <4>2
    <3>9. IsEnd(q2, r2)
      BY <1>2, <1>4, <3>5, <3>6, <3>8, EndOfEnd
    <3>10. viewer'[v] = q2
      BY <2>2, <2>4, <3>4 DEF FanOut
    <3> QED BY <3>5, <3>8, <3>9, <3>10
  <2> QED BY <2>3, <2>4
<1>7. Len(r2) <= RingMax
  <2>1. PICK a \in Nat : a = Len(r \o evs)
    BY <1>2
  <2> QED BY <1>0, <1>4, <2>1
<1>8. shown' \subseteq Nat \cup Note
  <2>1. \A i \in DOMAIN evs : evs[i] \in Events
    OBVIOUS
  <2>2. \A e \in Events : e.what \subseteq Nat \cup Note
    BY DEF Events
  <2>3. shown' = shown \cup UNION {evs[i].what : i \in DOMAIN evs}
    BY DEF Emit
  <2>4. shown \subseteq Nat \cup Note
    BY DEF StreamInv, BoardTypeOK
  <2> QED BY <2>1, <2>2, <2>3, <2>4
<1>9. viewer' \in [Viewer -> {Closed} \cup Seq(Events)]
  <2>1. viewer' = [v \in Viewer |-> viewer'[v]]
    BY <1>5
  <2> QED BY <1>6, <2>1
<1> QED BY <1>1, <1>4, <1>5, <1>6, <1>7, <1>8, <1>9 DEF StreamInv, BoardTypeOK, StreamIsEndOfRing

-----------------------------------------------------------------------------
\* The note events of a sequence: each is of a note that was seen, and no two
\* are of the same note.
NotesTold(s, heard) ==
    /\ \A i \in 1..Len(s) : s[i].type = "note" => \E n \in heard : s[i].what = {n}
    /\ \A i, j \in 1..Len(s) :
          s[i].type = "note" /\ s[j].type = "note" /\ s[i].what = s[j].what => i = j

LEMMA ToldAtTheEnd ==
    ASSUME NEW s \in Seq(Events), NEW q \in Seq(Events), NEW heard, IsEnd(q, s), NotesTold(s, heard)
    PROVE  NotesTold(q, heard)
<1>1. PICK k \in Nat, n \in Nat : k = Len(q) /\ n = Len(s)
  OBVIOUS
<1>2. k <= n /\ \A i \in 1..k : q[i] = s[i + (n - k)]
  BY <1>1 DEF IsEnd
<1>3. \A i \in 1..k : i + (n - k) \in 1..n
  BY <1>2
<1>4. ASSUME NEW i \in 1..k, q[i].type = "note" PROVE \E x \in heard : q[i].what = {x}
  <2>1. PICK x \in 1..n : q[i] = s[x]
    BY <1>2, <1>3
  <2> QED BY <1>1, <1>4, <2>1 DEF NotesTold
<1>5. ASSUME NEW i \in 1..k, NEW j \in 1..k,
             q[i].type = "note", q[j].type = "note", q[i].what = q[j].what
      PROVE  i = j
  <2>1. PICK x \in 1..n, y \in 1..n : x = i + (n - k) /\ y = j + (n - k)
    BY <1>3
  <2>2. q[i] = s[x] /\ q[j] = s[y]
    BY <1>2, <2>1
  <2>3. x = y
    BY <1>1, <1>5, <2>2 DEF NotesTold
  <2> QED BY <2>1, <2>3
<1> QED BY <1>1, <1>4, <1>5 DEF NotesTold

\* Events of other kinds are put behind.
LEMMA ToldWithOthers ==
    ASSUME NEW s \in Seq(Events), NEW evs \in Seq(Events), NEW heard, NotesTold(s, heard),
           \A i \in 1..Len(evs) : evs[i].type # "note"
    PROVE  NotesTold(s \o evs, heard)
<1>1. PICK n \in Nat, e \in Nat : n = Len(s) /\ e = Len(evs)
  OBVIOUS
<1>2. PICK b : b = s \o evs
  OBVIOUS
<1>3. Len(b) = n + e /\ \A i \in 1..(n + e) : b[i] = IF i <= n THEN s[i] ELSE evs[i - n]
  BY <1>1, <1>2, ConcatProperties
<1>4. ASSUME NEW i \in 1..(n + e), b[i].type = "note" PROVE i \in 1..n /\ b[i] = s[i]
  <2>1. CASE i <= n
    BY <1>3, <2>1
  <2>2. CASE ~(i <= n)
    <3>1. i - n \in 1..e /\ b[i] = evs[i - n]
      BY <1>3, <2>2
    <3> QED BY <1>1, <1>4, <3>1
  <2> QED BY <2>1, <2>2
<1>5. ASSUME NEW i \in 1..(n + e), b[i].type = "note" PROVE \E x \in heard : b[i].what = {x}
  BY <1>1, <1>4, <1>5 DEF NotesTold
<1>6. ASSUME NEW i \in 1..(n + e), NEW j \in 1..(n + e),
             b[i].type = "note", b[j].type = "note", b[i].what = b[j].what
      PROVE  i = j
  BY <1>1, <1>4, <1>6 DEF NotesTold
<1>7. NotesTold(b, heard)
  BY <1>3, <1>5, <1>6, Zenon DEF NotesTold
<1> QED BY <1>2, <1>7

\* New notes are put behind, each once.
LEMMA ToldWithNew ==
    ASSUME NEW s \in Seq(Events), NEW heard, NotesTold(s, heard),
           NEW new, NEW e \in Nat, NEW fresh, new \in [1..e -> fresh], fresh \cap heard = {},
           \A i, j \in 1..e : new[i] = new[j] => i = j,
           NEW evs \in Seq(Events), evs = [i \in 1..e |-> Event("note", {new[i]})]
    PROVE  NotesTold(s \o evs, heard \cup fresh)
<1>1. PICK n \in Nat : n = Len(s)
  OBVIOUS
<1>2. PICK b : b = s \o evs
  OBVIOUS
<1>3. Len(evs) = e
  OBVIOUS
<1>4. Len(b) = n + e /\ \A i \in 1..(n + e) : b[i] = IF i <= n THEN s[i] ELSE evs[i - n]
  BY <1>1, <1>2, <1>3, ConcatProperties
<1>5. \A i \in 1..e : evs[i].what = {new[i]} /\ new[i] \in fresh
  BY DEF Event
<1>6. ASSUME NEW i \in 1..(n + e), i <= n PROVE i \in 1..n /\ b[i] = s[i]
  <2>1. b[i] = s[i]
    BY <1>4, <1>6
  <2> QED BY <1>6, <2>1
<1>7. ASSUME NEW i \in 1..(n + e), ~(i <= n)
      PROVE  i - n \in 1..e /\ b[i].what = {new[i - n]} /\ new[i - n] \in fresh
  <2>1. PICK k \in 1..e : k = i - n
    BY <1>7
  <2>2. b[i] = evs[k]
    BY <1>4, <1>7, <2>1
  <2>3. b[i].what = {new[k]} /\ new[k] \in fresh
    BY <1>5, <2>2
  <2> QED BY <2>1, <2>3
<1>8. ASSUME NEW i \in 1..(n + e), b[i].type = "note"
      PROVE  \E x \in heard \cup fresh : b[i].what = {x}
  <2>1. CASE i <= n
    BY <1>1, <1>6, <1>8, <2>1 DEF NotesTold
  <2>2. CASE ~(i <= n)
    BY <1>7, <2>2
  <2> QED BY <2>1, <2>2
<1>9. ASSUME NEW i \in 1..(n + e), NEW j \in 1..(n + e),
             b[i].type = "note", b[j].type = "note", b[i].what = b[j].what
      PROVE  i = j
  <2>1. CASE i <= n /\ j <= n
    BY <1>1, <1>6, <1>9, <2>1 DEF NotesTold
  <2>2. CASE ~(i <= n) /\ ~(j <= n)
    <3>1. {new[i - n]} = {new[j - n]} /\ i - n \in 1..e /\ j - n \in 1..e
      BY <1>7, <1>9, <2>2
    <3>2. i - n = j - n
      BY <3>1
    <3> QED BY <3>2
  <2>3. CASE i <= n /\ ~(j <= n)
    <3>1. PICK x \in heard : s[i].what = {x} /\ b[i] = s[i]
      BY <1>1, <1>6, <1>9, <2>3 DEF NotesTold
    <3>2. b[j].what = {new[j - n]} /\ new[j - n] \in fresh
      BY <1>7, <2>3
    <3> QED BY <1>9, <3>1, <3>2
  <2>4. CASE ~(i <= n) /\ j <= n
    <3>1. PICK x \in heard : s[j].what = {x} /\ b[j] = s[j]
      BY <1>1, <1>6, <1>9, <2>4 DEF NotesTold
    <3>2. b[i].what = {new[i - n]} /\ new[i - n] \in fresh
      BY <1>7, <2>4
    <3> QED BY <1>9, <3>1, <3>2
  <2> QED BY <2>1, <2>2, <2>3, <2>4
<1>10. NotesTold(b, heard \cup fresh)
  BY <1>4, <1>8, <1>9, Zenon DEF NotesTold
<1> QED BY <1>2, <1>10

-----------------------------------------------------------------------------
\* The invariant of the wall.  The note source has seen every note on the
\* ring, and has told none before its first look.
WallInv ==
    /\ FilesTypeOK /\ SourcesTypeOK /\ StreamInv
    /\ NotesTold(ring, notes.seen)
    /\ notes.step = "parse" => notes.seen = {}

\* Events of the other sources on the board.
LEMMA OthersEmitted ==
    ASSUME WallInv, NEW evs \in Seq(Events), Emit(evs), running' \in {"off", "on"},
           notes' = notes, \A i \in 1..Len(evs) : evs[i].type # "note"
    PROVE  StreamInv' /\ NotesTold(ring', notes.seen)
<1>1. PICK r, r2, heard : r = ring /\ r2 = ring' /\ heard = notes.seen
  OBVIOUS
<1>2. StreamInv' /\ r2 \in Seq(Events) /\ IsEnd(r2, r \o evs)
  BY <1>1, EmitKeeps DEF WallInv
<1>3. r \in Seq(Events) /\ NotesTold(r, heard)
  BY <1>1 DEF WallInv, StreamInv, BoardTypeOK
<1>4. r \o evs \in Seq(Events) /\ NotesTold(r \o evs, heard)
  BY <1>3, ToldWithOthers, ConcatProperties
<1>5. NotesTold(r2, heard)
  BY <1>2, <1>4, ToldAtTheEnd
<1> QED BY <1>1, <1>2, <1>5

\* A step that touches neither the files nor the board.
LEMMA BoardRests ==
    ASSUME WallInv, UNCHANGED <<running, wallBoard>>
    PROVE  StreamInv' /\ ring' = ring
<1>1. running' = running /\ ring' = ring /\ viewer' = viewer /\ shown' = shown
  BY DEF wallBoard
<1> QED BY <1>1 DEF WallInv, StreamInv, BoardTypeOK, StreamIsEndOfRing

LEMMA FilesRest ==
    ASSUME FilesTypeOK, UNCHANGED files
    PROVE  FilesTypeOK'
  BY DEF FilesTypeOK, files

LEMMA SourcesRest ==
    ASSUME SourcesTypeOK, UNCHANGED <<sources, since>>
    PROVE  SourcesTypeOK' /\ notes' = notes
  BY DEF SourcesTypeOK, sources

LEMMA AttachKeeps ==
    ASSUME FilesTypeOK, SourcesTypeOK, NEW s \in Source, Attach(s)
    PROVE  since' \in [Source -> 0..MaxWrites]
  BY DEF FilesTypeOK, SourcesTypeOK, Attach

LEMMA EventIs ==
    ASSUME NEW type \in EventTypes, NEW what \in SUBSET (Nat \cup Note)
    PROVE  /\ Event(type, what) \in Events
           /\ Event(type, what).type = type /\ Event(type, what).what = what
  BY DEF Event, Events

\* Text behind a text
LEMMA TextGrows ==
    ASSUME NEW text \in Seq(Nat), NEW n \in Nat
    PROVE  text \o <<n, LineEnd>> \in Seq(Nat)
<1>1. <<n, LineEnd>> \in Seq(Nat)
  BY DEF LineEnd
<1> QED BY <1>1, ConcatProperties

\* A writer's step: nothing of the wall changes.
LEMMA WriterKeeps ==
    ASSUME WallInv, FilesTypeOK', UNCHANGED <<running, sources, wallBoard, since>>
    PROVE  WallInv'
<1>1. StreamInv' /\ ring' = ring
  BY BoardRests
<1>2. SourcesTypeOK' /\ notes' = notes
  BY SourcesRest DEF WallInv
<1> QED BY <1>1, <1>2 DEF WallInv

LEMMA WritersKeep ==
    ASSUME WallInv,
           \/ AppendHistory \/ ReplaceHistory \/ CreateFinding \/ FillFinding
           \/ WriteStatus \/ AppendDaily \/ Midnight
    PROVE  WallInv'
<1>0. FilesTypeOK /\ MaxWrites \in Nat /\ MaxInodes \in Nat /\ Days \in Nat
  BY WallAssumption DEF WallInv
<1>1. ASSUME Write PROVE now' \in 1..MaxWrites /\ now' \in 0..MaxWrites /\ now' \in Nat
  BY <1>0, <1>1 DEF Write, FilesTypeOK
<1>2. CASE AppendHistory
  <2>1. PICK c \in 1..MaxInodes : c = history.cur
    BY <1>0 DEF FilesTypeOK, Disks
  <2>2. PICK text : text = history.text[c] \o <<now', LineEnd>>
    OBVIOUS
  <2>3. text \in Seq(Nat)
    <3>1. history.text[c] \in Seq(Nat)
      BY <1>0 DEF FilesTypeOK, Disks
    <3> QED BY <1>1, <1>2, <2>2, <3>1, TextGrows DEF AppendHistory
  <2>4. history' = [history EXCEPT !.text[c] = text]
    BY <1>2, <2>1, <2>2 DEF AppendHistory
  <2>5. history' \in Disks(MaxInodes) /\ history'.cur # 0
    BY <1>0, <2>3, <2>4 DEF FilesTypeOK, Disks
  <2>6. FilesTypeOK'
    BY <1>0, <1>1, <1>2, <2>5 DEF AppendHistory, FilesTypeOK
  <2> QED BY <1>2, <2>6, WriterKeeps DEF AppendHistory
<1>3. CASE ReplaceHistory
  <2>1. PICK c \in 1..MaxInodes : c = history.cur
    BY <1>0 DEF FilesTypeOK, Disks
  <2>2. c + 1 \in 1..MaxInodes
    BY <1>0, <1>3, <2>1 DEF ReplaceHistory
  <2>3. PICK text : text = Text(history) \o <<now', LineEnd>>
    OBVIOUS
  <2>4. text \in Seq(Nat)
    <3>1. Text(history) \in Seq(Nat)
      BY <1>0, <2>1 DEF FilesTypeOK, Disks, Text
    <3> QED BY <1>1, <1>3, <2>3, <3>1, TextGrows DEF ReplaceHistory
  <2>5. history' = [history EXCEPT !.cur = c + 1, !.text[c + 1] = text]
    BY <1>3, <2>1, <2>3 DEF ReplaceHistory
  <2>6. history' \in Disks(MaxInodes) /\ history'.cur # 0
    <3>1. PICK texts : texts = [history.text EXCEPT ![c + 1] = text]
      OBVIOUS
    <3>2. texts \in [1..MaxInodes -> Seq(Nat)]
      BY <1>0, <2>4, <3>1 DEF FilesTypeOK, Disks
    <3>3. history' = [cur |-> c + 1, text |-> texts]
      BY <1>0, <2>5, <3>1 DEF FilesTypeOK, Disks
    <3> QED BY <2>2, <3>2, <3>3 DEF Disks
  <2>7. FilesTypeOK'
    BY <1>0, <1>1, <1>3, <2>6 DEF ReplaceHistory, FilesTypeOK
  <2> QED BY <1>3, <2>7, WriterKeeps DEF ReplaceHistory
<1>4. CASE CreateFinding
  <2>1. PICK full \in BOOLEAN :
           finding' = [f \in DOMAIN finding \cup {now'} |-> IF f = now' THEN full ELSE finding[f]]
    BY <1>4 DEF CreateFinding
  <2>2. DOMAIN finding' = DOMAIN finding \cup {now'}
    BY <2>1
  <2>3. DOMAIN finding' \subseteq 1..MaxWrites
    BY <1>0, <1>1, <1>4, <2>2 DEF CreateFinding, FilesTypeOK
  <2>4. \A f \in DOMAIN finding : finding[f] \in BOOLEAN
    BY <1>0 DEF FilesTypeOK
  <2>5. finding' \in [DOMAIN finding' -> BOOLEAN]
    BY <2>1, <2>2, <2>4, Zenon
  <2>6. FilesTypeOK'
    BY <1>0, <1>1, <1>4, <2>3, <2>5 DEF CreateFinding, FilesTypeOK
  <2> QED BY <1>4, <2>6, WriterKeeps DEF CreateFinding
<1>5. CASE FillFinding
  <2>1. PICK f \in DOMAIN finding : finding' = [finding EXCEPT ![f] = TRUE]
    BY <1>5 DEF FillFinding
  <2>2. DOMAIN finding' = DOMAIN finding /\ finding' \in [DOMAIN finding -> BOOLEAN]
    BY <1>0, <2>1, Zenon DEF FilesTypeOK
  <2>3. FilesTypeOK'
    BY <1>0, <1>5, <2>2 DEF FillFinding, FilesTypeOK
  <2> QED BY <1>5, <2>3, WriterKeeps DEF FillFinding
<1>6. CASE WriteStatus
  <2>1. status' \in [mtime : 0..MaxWrites, notes : SUBSET Note]
    BY <1>1, <1>6 DEF WriteStatus
  <2>2. FilesTypeOK'
    BY <1>0, <1>1, <1>6, <2>1 DEF WriteStatus, FilesTypeOK
  <2> QED BY <1>6, <2>2, WriterKeeps DEF WriteStatus
<1>7. CASE AppendDaily
  <2>1. PICK disk : disk = daily[day]
    OBVIOUS
  <2>2. disk \in Disks(1) /\ day \in 1..Days
    BY <1>0, <2>1 DEF FilesTypeOK
  <2>3. PICK text : text = disk.text[1] \o <<now', LineEnd>>
    OBVIOUS
  <2>4. text \in Seq(Nat)
    <3>1. disk.text[1] \in Seq(Nat)
      BY <2>2 DEF Disks
    <3> QED BY <1>1, <1>7, <2>3, <3>1, TextGrows DEF AppendDaily
  <2>5. PICK new : new = [disk EXCEPT !.cur = 1, !.text[1] = text]
    OBVIOUS
  <2>6. new \in Disks(1)
    <3>1. PICK texts : texts = [disk.text EXCEPT ![1] = text]
      OBVIOUS
    <3>2. texts \in [1..1 -> Seq(Nat)]
      BY <2>2, <2>4, <3>1 DEF Disks
    <3>3. new = [cur |-> 1, text |-> texts]
      BY <2>2, <2>5, <3>1 DEF Disks
    <3> QED BY <3>2, <3>3 DEF Disks
  <2>7. daily' = [daily EXCEPT ![day] = new]
    BY <1>7, <2>1, <2>3, <2>5 DEF AppendDaily, AddTo
  <2>8. daily' \in [1..Days -> Disks(1)]
    BY <1>0, <2>6, <2>7 DEF FilesTypeOK
  <2>9. FilesTypeOK'
    BY <1>0, <1>1, <1>7, <2>8 DEF AppendDaily, FilesTypeOK
  <2> QED BY <1>7, <2>9, WriterKeeps DEF AppendDaily
<1>8. CASE Midnight
  <2>1. FilesTypeOK'
    BY <1>0, <1>8 DEF Midnight, FilesTypeOK
  <2> QED BY <1>8, <2>1, WriterKeeps DEF Midnight
<1> QED BY <1>2, <1>3, <1>4, <1>5, <1>6, <1>7, <1>8

\* A source's step that puts nothing on the ring.
LEMMA SourceKeeps ==
    ASSUME WallInv, UNCHANGED <<files, running, wallBoard>>, SourcesTypeOK',
           NotesTold(ring, notes'.seen), notes'.step = "parse" => notes'.seen = {}
    PROVE  WallInv'
<1>1. StreamInv' /\ ring' = ring
  BY BoardRests
<1>2. FilesTypeOK'
  BY FilesRest DEF WallInv
<1> QED BY <1>1, <1>2 DEF WallInv

\* A source's step that puts events other than notes on the ring.
LEMMA SourceEmits ==
    ASSUME WallInv, UNCHANGED <<files, running, notes>>, SourcesTypeOK',
           NEW evs \in Seq(Events), Emit(evs), \A i \in 1..Len(evs) : evs[i].type # "note"
    PROVE  WallInv'
<1>1. running' \in {"off", "on"} /\ notes' = notes
  BY DEF WallInv, StreamInv, BoardTypeOK
<1>2. StreamInv' /\ NotesTold(ring', notes.seen)
  BY <1>1, OthersEmitted
<1>3. FilesTypeOK'
  BY FilesRest DEF WallInv
<1> QED BY <1>1, <1>2, <1>3 DEF WallInv

\* Lines as events: each a set of numbers.
LEMMA LinesAreEvents ==
    ASSUME NEW ls \in Seq(Seq(Nat)), NEW evs,
           evs = [i \in 1..Len(ls) |-> Event("history", ToSet(ls[i]))]
    PROVE  evs \in Seq(Events) /\ \A i \in 1..Len(evs) : evs[i].type # "note"
<1>1. PICK n \in Nat : n = Len(ls)
  OBVIOUS
<1>2. ASSUME NEW i \in 1..n
      PROVE  Event("history", ToSet(ls[i])) \in Events /\ Event("history", ToSet(ls[i])).type = "history"
  <2>1. ls[i] \in Seq(Nat)
    BY <1>1
  <2>2. ToSet(ls[i]) \subseteq Nat
    BY <2>1 DEF ToSet
  <2> QED BY <2>2, EventIs DEF EventTypes
<1>3. evs = [i \in 1..n |-> Event("history", ToSet(ls[i]))]
  BY <1>1
<1>4. evs \in [1..n -> Events]
  BY <1>2, <1>3
<1>5. evs \in Seq(Events) /\ Len(evs) = n
  BY <1>4
<1> QED BY <1>2, <1>3, <1>5

\* _source_history
LEMMA HistoryKeeps ==
    ASSUME WallInv, HistoryStat \/ HistoryRead
    PROVE  WallInv'
<1>0. FilesTypeOK /\ SourcesTypeOK /\ MaxInodes \in Nat
  BY WallAssumption DEF WallInv
<1>1. tail \in Tails(MaxInodes) /\ history \in Disks(MaxInodes)
  BY <1>0 DEF FilesTypeOK, SourcesTypeOK
<1>2. CASE HistoryStat
  <2>1. PICK t, d : t = tail /\ d = history
    OBVIOUS
  <2>2. tail' \in Tails(MaxInodes)
    BY <1>0, <1>1, <1>2, <2>1, TailStatIs DEF HistoryStat
  <2>3. SourcesTypeOK'
    BY <1>0, <1>2, <2>2 DEF HistoryStat, SourcesTypeOK
  <2>4. notes' = notes /\ UNCHANGED <<files, running, wallBoard>>
    BY <1>2 DEF HistoryStat
  <2> QED BY <2>3, <2>4, SourceKeeps DEF WallInv
<1>3. CASE HistoryRead
  <2>1. PICK t, d : t = tail /\ d = history
    OBVIOUS
  <2>2. PICK r : r = TailRead(t, d)
    OBVIOUS
  <2>3. r.tail \in Tails(MaxInodes) /\ r.lines \in Seq(Seq(Nat))
    BY <1>0, <1>1, <2>1, <2>2, TailReadIs
  <2>4. PICK evs : evs = [i \in 1..Len(r.lines) |-> Event("history", ToSet(r.lines[i]))]
    OBVIOUS
  <2>5. evs \in Seq(Events) /\ \A i \in 1..Len(evs) : evs[i].type # "note"
    BY <2>3, <2>4, LinesAreEvents
  <2>6. tail' = r.tail /\ Emit(evs)
    BY <1>3, <2>1, <2>2, <2>4 DEF HistoryRead
  <2>7. since' \in [Source -> 0..MaxWrites]
    BY <1>0, <1>3, AttachKeeps DEF HistoryRead, Source
  <2>8. UNCHANGED <<files, running, notes>>
    BY <1>3 DEF HistoryRead
  <2>9. SourcesTypeOK'
    BY <1>0, <1>3, <2>3, <2>6, <2>7 DEF HistoryRead, SourcesTypeOK
  <2> QED BY <2>5, <2>6, <2>8, <2>9, SourceEmits
<1> QED BY <1>2, <1>3

\* _source_findings
LEMMA DirKeeps ==
    ASSUME WallInv, DirSnapshot \/ DirPoll
    PROVE  WallInv'
<1>0. FilesTypeOK /\ SourcesTypeOK /\ MaxWrites \in Nat
  BY WallAssumption DEF WallInv
<1>1. DOMAIN finding \subseteq 0..MaxWrites
  BY <1>0 DEF FilesTypeOK
<1>2. CASE DirSnapshot
  <2>1. since' \in [Source -> 0..MaxWrites]
    BY <1>0, <1>2, AttachKeeps DEF DirSnapshot, Source
  <2>2. SourcesTypeOK'
    BY <1>0, <1>1, <1>2, <2>1 DEF DirSnapshot, SourcesTypeOK
  <2>3. notes' = notes /\ UNCHANGED <<files, running, wallBoard>>
    BY <1>2 DEF DirSnapshot
  <2> QED BY <2>2, <2>3, SourceKeeps DEF WallInv
<1>3. CASE DirPoll
  <2> DEFINE of(f) == IF finding[f] THEN <<Event("finding", {f}), Event("signal", {f})>>
                                    ELSE <<Event("finding", {f})>>
             Told == {e \in Events : e.type # "note"}
  <2>1. PICK F : F = DOMAIN finding \ known
    OBVIOUS
  <2>2. F \in SUBSET Nat /\ IsFiniteSet(F)
    <3>1. IsFiniteSet(0..MaxWrites) /\ F \subseteq 0..MaxWrites
      BY <1>0, <1>1, <2>1, FS_Interval
    <3>2. IsFiniteSet(F)
      BY <3>1, FS_Subset
    <3> QED BY <1>0, <3>1, <3>2
  <2>3. PICK new : new = Ascending(F)
    OBVIOUS
  <2>4. PICK n \in Nat : new \in [1..n -> F]
    BY <2>2, <2>3, AscendingIs
  <2>5. new \in Seq(F) /\ Len(new) = n
    BY <2>4
  <2>6. ASSUME NEW f \in Nat PROVE of(f) \in Seq(Told)
    <3>1. PICK a, b : a = Event("finding", {f}) /\ b = Event("signal", {f})
      OBVIOUS
    <3>2. a \in Told /\ b \in Told
      BY <3>1, EventIs DEF EventTypes
    <3>3. <<a, b>> \in Seq(Told) /\ <<a>> \in Seq(Told)
      BY <3>2
    <3> QED BY <3>1, <3>3
  <2>7. PICK seqs : seqs = [i \in 1..n |-> of(new[i])]
    OBVIOUS
  <2>8. seqs \in Seq(Seq(Told))
    <3>1. \A i \in 1..n : of(new[i]) \in Seq(Told)
      BY <2>2, <2>4, <2>6
    <3> HIDE DEF of, Told
    <3>2. seqs \in [1..n -> Seq(Told)]
      BY <2>7, <3>1
    <3> QED BY <3>2
  <2>9. PICK evs : evs = FlattenSeq(seqs)
    OBVIOUS
  <2>10. evs \in Seq(Told)
    <3> HIDE DEF Told
    <3> QED BY <2>8, <2>9, FlattenSeqIs
  <2>11. evs \in Seq(Events) /\ \A i \in 1..Len(evs) : evs[i].type # "note"
    <3>1. \A i \in 1..Len(evs) : evs[i] \in Told
      BY <2>10
    <3>2. Told \subseteq Events
      OBVIOUS
    <3> HIDE DEF Told
    <3>3. evs \in Seq(Events)
      BY <2>10, <3>2, SeqMonotonic
    <3> QED BY <3>1, <3>3 DEF Told
  <2>12. Emit(evs)
    <3>1. Emit(FlattenSeq([i \in 1..Len(new) |-> of(new[i])]))
      BY <1>3, <2>1, <2>3 DEF DirPoll, NewFiles
    <3> HIDE DEF of
    <3> QED BY <2>5, <2>7, <2>9, <3>1
  <2>13. UNCHANGED <<files, running, notes>>
    BY <1>3 DEF DirPoll
  <2>14. SourcesTypeOK'
    BY <1>0, <1>1, <1>3 DEF DirPoll, SourcesTypeOK
  <2> QED BY <2>11, <2>12, <2>13, <2>14, SourceEmits
<1> QED BY <1>2, <1>3

\* _source_status_notes
LEMMA NotesKeep ==
    ASSUME WallInv, NotesPrime \/ NotesPrimed \/ NotesStat \/ NotesRead
    PROVE  WallInv'
<1>0. FilesTypeOK /\ SourcesTypeOK /\ NotesTold(ring, notes.seen)
  BY DEF WallInv
<1>1. /\ status.mtime \in 0..MaxWrites /\ status.notes \in SUBSET Note
      /\ notes \in [step : {"parse", "mtime", "sleep", "read"}, seen : SUBSET Note,
                    mtime : 0..MaxWrites]
  BY <1>0 DEF FilesTypeOK, SourcesTypeOK
<1>2. CASE NotesPrime
  <2>1. notes' = [notes EXCEPT !.step = "mtime", !.seen = status.notes]
    BY <1>2 DEF NotesPrime
  <2>2. notes'.seen = status.notes /\ notes'.step = "mtime"
    BY <1>1, <2>1
  <2>3. NotesTold(ring, notes'.seen)
    <3>1. notes.seen = {}
      BY <1>2 DEF NotesPrime, WallInv
    <3> QED BY <1>0, <3>1 DEF NotesTold
  <2>4. SourcesTypeOK'
    BY <1>0, <1>1, <1>2, <2>1 DEF NotesPrime, SourcesTypeOK
  <2> QED BY <1>2, <2>2, <2>3, <2>4, SourceKeeps DEF NotesPrime
<1>3. CASE NotesPrimed
  <2>1. notes' = [notes EXCEPT !.step = "sleep", !.mtime = status.mtime]
    BY <1>3 DEF NotesPrimed
  <2>2. notes'.seen = notes.seen /\ notes'.step = "sleep"
    BY <1>1, <2>1
  <2>3. since' \in [Source -> 0..MaxWrites]
    BY <1>0, <1>3, AttachKeeps DEF NotesPrimed, Source
  <2>4. SourcesTypeOK'
    BY <1>0, <1>1, <1>3, <2>1, <2>3 DEF NotesPrimed, SourcesTypeOK
  <2>5. UNCHANGED <<files, running, wallBoard>>
    BY <1>3 DEF NotesPrimed
  <2> QED BY <1>0, <2>2, <2>4, <2>5, SourceKeeps
<1>4. CASE NotesStat
  <2>1. notes' = [notes EXCEPT !.step = "read", !.mtime = status.mtime]
    BY <1>4 DEF NotesStat
  <2>2. notes'.seen = notes.seen /\ notes'.step = "read"
    BY <1>1, <2>1
  <2>3. SourcesTypeOK'
    BY <1>0, <1>1, <1>4, <2>1 DEF NotesStat, SourcesTypeOK
  <2>4. UNCHANGED <<files, running, wallBoard>>
    BY <1>4 DEF NotesStat
  <2> QED BY <1>0, <2>2, <2>3, <2>4, SourceKeeps
<1>5. CASE NotesRead
  <2>1. PICK heard, fresh, r, r2 : heard = notes.seen /\ fresh = status.notes \ notes.seen
                                  /\ r = ring /\ r2 = ring'
    OBVIOUS
  <2>2. notes' = [notes EXCEPT !.step = "sleep", !.seen = heard \cup fresh]
    <3>1. notes.seen \cup status.notes = heard \cup fresh
      BY <2>1
    <3> QED BY <1>5, <3>1 DEF NotesRead
  <2>3. notes'.seen = heard \cup fresh /\ notes'.step = "sleep"
    BY <1>1, <2>2
  <2>4. IsFiniteSet(fresh) /\ fresh \subseteq Note /\ fresh \cap heard = {}
    <3>1. fresh \subseteq Note /\ fresh \cap heard = {}
      BY <1>1, <2>1
    <3> QED BY <3>1, WallAssumption, FS_Subset
  <2>5. PICK new : new = SetToSeq(fresh)
    OBVIOUS
  <2>6. PICK e \in Nat : new \in [1..e -> fresh] /\ \A i, j \in 1..e : new[i] = new[j] => i = j
    BY <2>4, <2>5, SetToSeqIs
  <2>7. PICK evs : evs = [i \in 1..e |-> Event("note", {new[i]})]
    OBVIOUS
  <2>8. evs \in Seq(Events)
    <3>1. \A i \in 1..e : Event("note", {new[i]}) \in Events
      BY <2>4, <2>6, EventIs DEF EventTypes
    <3>2. evs \in [1..e -> Events]
      BY <2>7, <3>1
    <3> QED BY <3>2
  <2>9. Emit(evs)
    <3>1. Emit([i \in 1..Len(new) |-> Event("note", {new[i]})])
      BY <1>5, <2>1, <2>5 DEF NotesRead
    <3>2. Len(new) = e
      BY <2>6
    <3> QED BY <2>7, <3>1, <3>2
  <2>10. UNCHANGED <<files, running, tail, known, drain, since>>
    BY <1>5 DEF NotesRead
  <2>11. StreamInv' /\ r2 \in Seq(Events) /\ IsEnd(r2, r \o evs)
    <3>1. running' \in {"off", "on"}
      BY <2>10 DEF WallInv, StreamInv, BoardTypeOK
    <3> QED BY <2>1, <2>8, <2>9, <3>1, EmitKeeps DEF WallInv
  <2>12. NotesTold(r2, heard \cup fresh)
    <3>1. r \in Seq(Events) /\ NotesTold(r, heard)
      BY <1>0, <2>1 DEF WallInv, StreamInv, BoardTypeOK
    <3>2. NotesTold(r \o evs, heard \cup fresh)
      BY <2>4, <2>6, <2>7, <2>8, <3>1, ToldWithNew
    <3>3. r \o evs \in Seq(Events)
      BY <2>8, <3>1, ConcatProperties
    <3> QED BY <2>11, <3>2, <3>3, ToldAtTheEnd
  <2>13. SourcesTypeOK'
    <3>1. heard \cup fresh \in SUBSET Note
      BY <1>1, <2>1, <2>4
    <3> QED BY <1>0, <1>1, <2>2, <2>10, <3>1 DEF SourcesTypeOK
  <2>14. FilesTypeOK'
    BY <1>0, <2>10, FilesRest
  <2> QED BY <2>1, <2>3, <2>11, <2>12, <2>13, <2>14 DEF WallInv
<1> QED BY <1>2, <1>3, <1>4, <1>5

\* _source_inject_log
LEMMA DailyKeeps ==
    ASSUME WallInv, DailyRollover \/ DailyStat \/ DailyRead \/ DailyEmit
    PROVE  WallInv'
<1>0. /\ FilesTypeOK /\ SourcesTypeOK /\ NotesTold(ring, notes.seen)
      /\ MaxWrites \in Nat /\ Days \in Nat
  BY WallAssumption DEF WallInv
<1>1. /\ drain \in [date : 0..Days, tail : Tails(1), lines : Seq(Seq(Nat))]
      /\ \A d \in 1..Days : daily[d] \in Disks(1)
  BY <1>0 DEF FilesTypeOK, SourcesTypeOK
<1>2. CASE DailyRollover
  <2>1. TailStart \in Tails(1)
    BY EmptySeq DEF TailStart, Tails
  <2>2. drain' \in [date : 0..Days, tail : Tails(1), lines : Seq(Seq(Nat))]
    <3>1. PICK d \in 0..Days, t \in Tails(1) : d = day /\ t = TailStart
      BY <1>0, <2>1 DEF FilesTypeOK
    <3>2. drain' = [drain EXCEPT !.date = d, !.tail = t]
      BY <1>2, <3>1 DEF DailyRollover
    <3> QED BY <1>1, <3>2
  <2>3. since' \in [Source -> 0..MaxWrites]
    <3>1. MaxWrites \in 0..MaxWrites
      BY <1>0
    <3> QED BY <1>0, <1>2, <3>1 DEF DailyRollover, SourcesTypeOK
  <2>4. SourcesTypeOK'
    BY <1>0, <1>2, <2>2, <2>3 DEF DailyRollover, SourcesTypeOK
  <2>5. notes' = notes /\ UNCHANGED <<files, running, wallBoard>>
    BY <1>2 DEF DailyRollover
  <2> QED BY <2>4, <2>5, SourceKeeps DEF WallInv
<1>3. CASE DailyStat
  <2>1. PICK t, d : t = drain.tail /\ d = daily[drain.date]
    OBVIOUS
  <2>2. t \in Tails(1) /\ d \in Disks(1)
    BY <1>0, <1>1, <1>3, <2>1 DEF DailyStat
  <2>3. PICK u : u = TailStat(t, d)
    OBVIOUS
  <2>4. u \in Tails(1)
    BY <2>2, <2>3, TailStatIs
  <2>5. drain' = [drain EXCEPT !.tail = u]
    BY <1>3, <2>1, <2>3 DEF DailyStat
  <2>6. since' \in [Source -> 0..MaxWrites]
    <3>1. Attach("daily") \/ since' = since
      BY <1>3 DEF DailyStat
    <3>2. Attach("daily") => since' \in [Source -> 0..MaxWrites]
      BY <1>0, AttachKeeps DEF Source
    <3> QED BY <1>0, <3>1, <3>2 DEF SourcesTypeOK
  <2>7. SourcesTypeOK'
    BY <1>0, <1>1, <1>3, <2>4, <2>5, <2>6 DEF DailyStat, SourcesTypeOK
  <2>8. notes' = notes /\ UNCHANGED <<files, running, wallBoard>>
    BY <1>3 DEF DailyStat
  <2> QED BY <2>7, <2>8, SourceKeeps DEF WallInv
<1>4. CASE DailyRead
  <2>1. PICK t, d : t = drain.tail /\ d = daily[drain.date]
    OBVIOUS
  <2>2. t \in Tails(1) /\ d \in Disks(1)
    BY <1>0, <1>1, <1>4, <2>1 DEF DailyRead
  <2>3. PICK r : r = TailRead(t, d)
    OBVIOUS
  <2>4. r.tail \in Tails(1) /\ r.lines \in Seq(Seq(Nat))
    BY <2>2, <2>3, TailReadIs
  <2>5. PICK ls : ls = drain.lines \o r.lines
    OBVIOUS
  <2>6. ls \in Seq(Seq(Nat))
    <3>1. drain.lines \in Seq(Seq(Nat))
      BY <1>1
    <3> QED BY <2>4, <2>5, <3>1, ConcatProperties
  <2>7. drain' = [drain EXCEPT !.tail = r.tail, !.lines = ls]
    BY <1>4, <2>1, <2>3, <2>5 DEF DailyRead
  <2>8. since' \in [Source -> 0..MaxWrites]
    BY <1>0, <1>4, AttachKeeps DEF DailyRead, Source
  <2>9. SourcesTypeOK'
    BY <1>0, <1>1, <1>4, <2>4, <2>6, <2>7, <2>8 DEF DailyRead, SourcesTypeOK
  <2>10. notes' = notes /\ UNCHANGED <<files, running, wallBoard>>
    BY <1>4 DEF DailyRead
  <2> QED BY <2>9, <2>10, SourceKeeps DEF WallInv
<1>5. CASE DailyEmit
  <2>1. PICK ls : ls = drain.lines
    OBVIOUS
  <2>2. ls \in Seq(Seq(Nat)) /\ ls # <<>>
    BY <1>1, <1>5, <2>1 DEF DailyEmit
  <2>3. Head(ls) \in Seq(Nat) /\ Tail(ls) \in Seq(Seq(Nat))
    BY <2>2, HeadTailProperties
  <2>4. ToSet(Head(ls)) \subseteq Nat
    BY <2>3 DEF ToSet
  <2>5. PICK e : e = Event("inject", ToSet(Head(ls)))
    OBVIOUS
  <2>6. e \in Events /\ e.type = "inject"
    BY <2>4, <2>5, EventIs DEF EventTypes
  <2>7. PICK evs : evs = <<e>>
    OBVIOUS
  <2>8. evs \in Seq(Events) /\ \A i \in 1..Len(evs) : evs[i].type # "note"
    BY <2>6, <2>7
  <2>9. Emit(evs) /\ drain' = [drain EXCEPT !.lines = Tail(ls)]
    BY <1>5, <2>1, <2>5, <2>7 DEF DailyEmit
  <2>10. UNCHANGED <<files, running, notes>>
    BY <1>5 DEF DailyEmit
  <2>11. SourcesTypeOK'
    BY <1>0, <1>1, <1>5, <2>3, <2>9 DEF DailyEmit, SourcesTypeOK
  <2> QED BY <2>8, <2>9, <2>10, <2>11, SourceEmits
<1> QED BY <1>2, <1>3, <1>4, <1>5

\* start()
LEMMA StartKeeps ==
    ASSUME WallInv, Start
    PROVE  WallInv'
<1>0. /\ FilesTypeOK /\ SourcesTypeOK /\ MaxWrites \in Nat /\ MaxInodes \in Nat /\ RingMax \in Nat
  BY WallAssumption DEF WallInv
<1> DEFINE type(n) == IF n \in DOMAIN finding THEN "finding" ELSE "history"
           Told == {e \in Events : e.type # "note"}
<1>1. PICK F : F = Lines(Text(history)) \cup DOMAIN finding
  OBVIOUS
<1>2. F \in SUBSET Nat /\ IsFiniteSet(F)
  <2>1. PICK text : text = Text(history)
    OBVIOUS
  <2>2. text \in Seq(Nat)
    BY <1>0, <2>1 DEF FilesTypeOK, Disks, Text
  <2>3. PICK n \in Nat : n = Len(text)
    BY <2>2
  <2>4. PICK J : J = {j \in 1..(n - 1) : text[j] # LineEnd /\ text[j + 1] = LineEnd}
    OBVIOUS
  <2>5. J \subseteq 1..n /\ IsFiniteSet(J)
    <3>1. J \subseteq 1..n
      BY <2>4
    <3>2. IsFiniteSet(1..n)
      BY FS_Interval
    <3> QED BY <3>1, <3>2, FS_Subset
  <2>6. Lines(text) = {text[j] : j \in J}
    BY <2>3, <2>4 DEF Lines
  <2>7. IsFiniteSet(Lines(text)) /\ Lines(text) \subseteq Nat
    <3>1. \A j \in J : text[j] \in Nat
      BY <2>2, <2>3, <2>5
    <3>2. PICK f : f = [j \in J |-> text[j]]
      OBVIOUS
    <3>3. f \in Surjection(J, Lines(text))
      BY <2>6, <3>2 DEF Surjection
    <3>4. IsFiniteSet(Lines(text))
      BY <2>5, <3>3, FS_Surjection DEF ExistsSurjection
    <3> QED BY <2>6, <3>1, <3>4
  <2>8. IsFiniteSet(DOMAIN finding) /\ DOMAIN finding \subseteq Nat
    <3>1. PICK D : D = DOMAIN finding
      OBVIOUS
    <3>2. D \subseteq 1..MaxWrites
      BY <1>0, <3>1 DEF FilesTypeOK
    <3>3. IsFiniteSet(1..MaxWrites)
      BY <1>0, FS_Interval
    <3>4. IsFiniteSet(D)
      BY <3>2, <3>3, FS_Subset
    <3> QED BY <1>0, <3>1, <3>2, <3>4
  <2>9. IsFiniteSet(Lines(text) \cup DOMAIN finding)
    BY <2>7, <2>8, FS_Union
  <2> QED BY <1>1, <2>1, <2>7, <2>8, <2>9
<1>3. PICK found : found = Ascending(F)
  OBVIOUS
<1>4. PICK n \in Nat : found \in [1..n -> F]
  BY <1>2, <1>3, AscendingIs
<1>5. PICK all : all = [i \in DOMAIN found |-> Event(type(found[i]), {found[i]})]
  OBVIOUS
<1>6. all \in Seq(Told)
  <2>1. ASSUME NEW i \in 1..n PROVE Event(type(found[i]), {found[i]}) \in Told
    <3>1. type(found[i]) \in {"finding", "history"} /\ found[i] \in Nat
      BY <1>2, <1>4
    <3> HIDE DEF type
    <3> QED BY <3>1, EventIs DEF EventTypes
  <2> HIDE DEF type, Told
  <2>2. all \in [1..n -> Told]
    BY <1>4, <1>5, <2>1
  <2> QED BY <2>2
<1>7. PICK evs : evs = Ring(all)
  OBVIOUS
<1>8. evs \in Seq(Told)
  <2> HIDE DEF Told
  <2> QED BY <1>0, <1>6, <1>7, NewestIs DEF Ring
<1>9. evs \in Seq(Events) /\ \A i \in 1..Len(evs) : evs[i].type # "note"
  <2>1. \A i \in 1..Len(evs) : evs[i] \in Told
    BY <1>8
  <2>2. Told \subseteq Events
    OBVIOUS
  <2> HIDE DEF Told
  <2>3. evs \in Seq(Events)
    BY <1>8, <2>2, SeqMonotonic
  <2> QED BY <2>1, <2>3 DEF Told
<1>10. Emit(evs) /\ running' = "on" /\ UNCHANGED <<files, sources, since>>
  <2>1. Emit(Ring([i \in DOMAIN found |-> Event(type(found[i]), {found[i]})]))
    BY <1>1, <1>3 DEF Start
  <2> HIDE DEF type
  <2> QED BY <1>5, <1>7, <2>1 DEF Start
<1>11. SourcesTypeOK' /\ notes' = notes
  BY <1>0, <1>10, SourcesRest
<1>12. StreamInv' /\ NotesTold(ring', notes.seen)
  BY <1>9, <1>10, <1>11, OthersEmitted
<1>13. FilesTypeOK'
  BY <1>0, <1>10, FilesRest
<1> QED BY <1>11, <1>12, <1>13 DEF WallInv

\* stop(), and the connections
LEMMA StopKeeps ==
    ASSUME WallInv, Stop
    PROVE  WallInv'
<1>0. FilesTypeOK /\ MaxWrites \in Nat /\ MaxInodes \in Nat /\ Days \in Nat /\ RingMax \in Nat
  BY WallAssumption DEF WallInv
<1>1. FilesTypeOK'
  BY <1>0, FilesRest DEF Stop
<1>2. TailStart \in Tails(1) /\ TailStart \in Tails(MaxInodes)
  BY <1>0, EmptySeq DEF TailStart, Tails
<1>3. SourcesTypeOK'
  <2>1. since' \in [Source -> 0..MaxWrites]
    BY <1>0 DEF Stop
  <2>2. drain' \in [date : 0..Days, tail : Tails(1), lines : Seq(Seq(Nat))]
    <3>1. <<>> \in Seq(Seq(Nat)) /\ 0 \in 0..Days
      BY <1>0, EmptySeq
    <3> HIDE DEF TailStart
    <3> QED BY <1>2, <3>1 DEF Stop
  <2>3. notes' \in [step : {"parse", "mtime", "sleep", "read"}, seen : SUBSET Note, mtime : 0..MaxWrites]
    BY <1>0 DEF Stop
  <2>4. tail' \in Tails(MaxInodes) /\ known' \subseteq 0..MaxWrites
    BY <1>0, <1>2 DEF Stop, NoSnapshot
  <2> QED BY <2>1, <2>2, <2>3, <2>4 DEF SourcesTypeOK
<1>4. StreamInv'
  <2>1. ring' = <<>> /\ viewer' = [v \in Viewer |-> Closed] /\ shown' = {} /\ running' = "off"
    BY DEF Stop
  <2>2. <<>> \in Seq(Events) /\ Len(<<>>) = 0
    BY EmptySeq
  <2> QED BY <1>0, <2>1, <2>2 DEF StreamInv, BoardTypeOK, StreamIsEndOfRing
<1>5. NotesTold(ring', notes'.seen)
  <2>1. ring' = <<>>
    BY DEF Stop
  <2> QED BY <2>1 DEF NotesTold
<1>6. notes'.step = "parse" => notes'.seen = {}
  BY DEF Stop
<1> QED BY <1>1, <1>3, <1>4, <1>5, <1>6 DEF WallInv

LEMMA ViewerKeeps ==
    ASSUME WallInv, NEW v \in Viewer, ViewerJoins(v) \/ Deliver(v) \/ ViewerLeaves(v)
    PROVE  WallInv'
<1>1. UNCHANGED <<files, running, sources, ring, shown, since>>
  BY DEF ViewerJoins, Deliver, ViewerLeaves
<1>2. FilesTypeOK' /\ SourcesTypeOK' /\ notes' = notes /\ ring' = ring
  BY <1>1, FilesRest, SourcesRest DEF WallInv
<1>3. PICK q : /\ viewer' = [viewer EXCEPT ![v] = q]
               /\ q \in {Closed} \cup Seq(Events)
               /\ q # Closed => Len(q) <= ViewerQueue /\ IsEnd(q, ring)
  <2>1. CASE ViewerJoins(v)
    <3>1. <<>> \in Seq(Events) /\ Len(<<>>) = 0
      BY EmptySeq
    <3>2. ViewerQueue \in Nat /\ ring \in Seq(Events)
      BY WallAssumption DEF WallInv, StreamInv, BoardTypeOK
    <3>3. IsEnd(<<>>, ring)
      BY <3>1, <3>2 DEF IsEnd
    <3>4. viewer' = [viewer EXCEPT ![v] = <<>>]
      BY <2>1 DEF ViewerJoins
    <3>5. PICK none : none = <<>>
      OBVIOUS
    <3>6. none \in Seq(Events) /\ Len(none) <= ViewerQueue /\ IsEnd(none, ring)
      BY <3>1, <3>2, <3>3, <3>5
    <3> QED BY <3>4, <3>5, <3>6
  <2>2. CASE Deliver(v)
    <3>1. PICK p : p = viewer[v]
      OBVIOUS
    <3>2. p \in Seq(Events) /\ p # <<>> /\ Len(p) <= ViewerQueue /\ IsEnd(p, ring)
      BY <2>2, <3>1 DEF Deliver, WallInv, StreamInv, BoardTypeOK, StreamIsEndOfRing
    <3>3. PICK q : q = Tail(p)
      OBVIOUS
    <3>4. /\ q \in Seq(Events) /\ Len(q) = Len(p) - 1
          /\ \A i \in 1..Len(q) : q[i] = p[i + 1]
      BY <3>2, <3>3, HeadTailProperties
    <3>5. IsEnd(q, p)
      <4>1. PICK k \in Nat : k = Len(q) /\ Len(p) = k + 1
        BY <3>2, <3>4
      <4>2. \A i \in 1..k : q[i] = p[i + ((k + 1) - k)]
        BY <3>4, <4>1
      <4> QED BY <4>1, <4>2 DEF IsEnd
    <3>6. IsEnd(q, ring)
      <4>1. PICK r : r = ring /\ r \in Seq(Events)
        BY DEF WallInv, StreamInv, BoardTypeOK
      <4>2. IsEnd(q, r)
        BY <3>2, <3>4, <3>5, <4>1, EndTransitive
      <4> QED BY <4>1, <4>2
    <3>7. viewer' = [viewer EXCEPT ![v] = q]
      BY <2>2, <3>1, <3>3 DEF Deliver
    <3>8. Len(q) <= ViewerQueue
      <4>1. PICK k \in Nat, m \in Nat : k = Len(p) /\ m = Len(q)
        BY <3>2, <3>4
      <4> QED BY <3>2, <3>4, <4>1, WallAssumption
    <3> QED BY <3>4, <3>6, <3>7, <3>8
  <2>3. CASE ViewerLeaves(v)
    BY <2>3 DEF ViewerLeaves
  <2> QED BY <2>1, <2>2, <2>3
<1>4. StreamInv'
  <2>1. viewer' \in [Viewer -> {Closed} \cup Seq(Events)]
    BY <1>3 DEF WallInv, StreamInv, BoardTypeOK
  <2>2. \A w \in Viewer : viewer'[w] = IF w = v THEN q ELSE viewer[w]
    BY <1>3 DEF WallInv, StreamInv, BoardTypeOK
  <2>3. \A w \in Viewer : viewer'[w] # Closed => Len(viewer'[w]) <= ViewerQueue /\ IsEnd(viewer'[w], ring)
    BY <1>3, <2>2 DEF WallInv, StreamInv, BoardTypeOK, StreamIsEndOfRing
  <2> QED BY <1>1, <1>2, <2>1, <2>3 DEF WallInv, StreamInv, BoardTypeOK, StreamIsEndOfRing
<1> QED BY <1>2, <1>4 DEF WallInv

LEMMA WallStarts ==
    ASSUME WallInit
    PROVE  WallInv
<1>0. /\ MaxWrites \in Nat /\ MaxInodes \in Nat \ {0} /\ Days \in Nat \ {0}
      /\ RingMax \in Nat /\ ViewerQueue \in Nat
  BY WallAssumption
<1>1. <<>> \in Seq(Nat) /\ <<>> \in Seq(Events) /\ <<>> \in Seq(Seq(Nat)) /\ Len(<<>>) = 0
  BY EmptySeq
<1>2. FilesTypeOK
  <2>1. \A n \in Nat : Absent(n) \in Disks(n)
    BY <1>1 DEF Absent, Disks
  <2>2. history \in Disks(MaxInodes) /\ history.cur # 0
    <3>1. PICK d : d = Absent(MaxInodes)
      OBVIOUS
    <3>2. d \in Disks(MaxInodes) /\ history = [d EXCEPT !.cur = 1]
      BY <1>0, <2>1, <3>1 DEF WallInit
    <3>3. 1 \in 0..MaxInodes
      BY <1>0
    <3> QED BY <3>2, <3>3 DEF Disks
  <2>3. daily \in [1..Days -> Disks(1)]
    <3>1. Absent(1) \in Disks(1)
      BY <2>1
    <3> HIDE DEF Absent
    <3> QED BY <3>1 DEF WallInit
  <2>4. DOMAIN finding = {} /\ finding \in [DOMAIN finding -> BOOLEAN]
    BY DEF WallInit
  <2>5. status \in [mtime : 0..MaxWrites, notes : SUBSET Note]
    BY <1>0 DEF WallInit
  <2> QED BY <1>0, <2>2, <2>3, <2>4, <2>5 DEF WallInit, FilesTypeOK
<1>3. SourcesTypeOK
  <2>1. TailStart \in Tails(1) /\ TailStart \in Tails(MaxInodes)
    BY <1>0, <1>1 DEF TailStart, Tails
  <2>2. since \in [Source -> 0..MaxWrites]
    BY <1>0 DEF WallInit
  <2>3. drain \in [date : 0..Days, tail : Tails(1), lines : Seq(Seq(Nat))]
    <3> HIDE DEF TailStart
    <3> QED BY <1>0, <1>1, <2>1 DEF WallInit
  <2>4. notes \in [step : {"parse", "mtime", "sleep", "read"}, seen : SUBSET Note, mtime : 0..MaxWrites]
    BY <1>0 DEF WallInit
  <2>5. tail \in Tails(MaxInodes) /\ known \subseteq 0..MaxWrites
    BY <1>0, <2>1 DEF WallInit, NoSnapshot
  <2> QED BY <2>2, <2>3, <2>4, <2>5 DEF SourcesTypeOK
<1>4. StreamInv
  <2>1. ring = <<>> /\ viewer = [v \in Viewer |-> Closed] /\ shown = {} /\ running = "off"
    BY DEF WallInit
  <2> QED BY <1>0, <1>1, <2>1 DEF StreamInv, BoardTypeOK, StreamIsEndOfRing
<1>5. NotesTold(ring, notes.seen)
  <2>1. ring = <<>>
    BY DEF WallInit
  <2> QED BY <2>1 DEF NotesTold
<1>6. notes.step = "parse" => notes.seen = {}
  BY DEF WallInit
<1> QED BY <1>2, <1>3, <1>4, <1>5, <1>6 DEF WallInv

LEMMA WallStep ==
    ASSUME WallInv, [WallNext]_wall
    PROVE  WallInv'
<1>1. CASE SourceSteps
  BY <1>1, WritersKeep, HistoryKeeps, DirKeeps, NotesKeep, DailyKeeps DEF SourceSteps
<1>2. CASE WallSteps
  BY <1>2, StartKeeps, StopKeeps, ViewerKeeps DEF WallSteps
<1>3. CASE UNCHANGED wall
  <2>1. UNCHANGED <<files, running, sources, wallBoard, since>>
    BY <1>3 DEF wall, files, sources, wallBoard
  <2>2. FilesTypeOK'
    BY <2>1, FilesRest DEF WallInv
  <2> QED BY <2>1, <2>2, WriterKeeps
<1> QED BY <1>1, <1>2, <1>3 DEF WallNext

\* Every field of the sources' locals and of the events stays within its type,
\* and the ring and the queues within their lengths, for any number of
\* viewers, notes, days and writes.
THEOREM WallTypeCorrect == WallSpec => []WallTypeOK
<1>1. WallInit => WallInv
  BY WallStarts
<1>2. WallInv /\ [WallNext]_wall => WallInv'
  BY WallStep
<1>3. WallInv => WallTypeOK
  BY DEF WallInv, WallTypeOK, StreamInv
<1> QED BY <1>1, <1>2, <1>3, PTL DEF WallSpec

\* _source_status_notes announces a note at most once while the wall runs.
THEOREM NotesAreToldOnce == WallSpec => []NoteOnce
<1>1. WallInit => WallInv
  BY WallStarts
<1>2. WallInv /\ [WallNext]_wall => WallInv'
  BY WallStep
<1>3. WallInv => NoteOnce
  <2> SUFFICES ASSUME WallInv PROVE NoteOnce
    OBVIOUS
  <2>1. DOMAIN ring = 1..Len(ring)
    BY DEF WallInv, StreamInv, BoardTypeOK
  <2> QED BY <2>1 DEF WallInv, NotesTold, NoteOnce
<1> QED BY <1>1, <1>2, <1>3, PTL DEF WallSpec

\* What is in the queue of an SSE connection is at any time the end of the
\* ring, whatever the sources emit and however slowly it is read: _fan_out
\* makes a slow reader lose its oldest events, and only those.
THEOREM StreamsFollowTheRing == WallSpec => []StreamIsEndOfRing
<1>1. WallInit => WallInv
  BY WallStarts
<1>2. WallInv /\ [WallNext]_wall => WallInv'
  BY WallStep
<1>3. WallInv => StreamIsEndOfRing
  BY DEF WallInv, StreamInv
<1> QED BY <1>1, <1>2, <1>3, PTL DEF WallSpec

=============================================================================
