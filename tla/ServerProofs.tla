---------------------------- MODULE ServerProofs ----------------------------
(***************************************************************************)
(* The parts of the server that a request or a lane meets: the applier's   *)
(* lock, the bytes of a lane, phase flips, sessions and the rate limit,    *)
(* the governor, signals, silent lanes, the board.                         *)
(***************************************************************************)
EXTENDS ApplierSingleton, LaneStream, PhaseFlip, Gate, Governor, Signals,
        StaleLanes, LaneBoard, Induction, TLAPS

-----------------------------------------------------------------------------
\* ApplierSingleton

\* A process between two file operations on the lock
Busy(p) == pc[p] \in Acquiring \cup Releasing

\* A process at one of these points may remove or replace the lock's files.
TakesLock(p) == pc[p] \in {"clear", "rmdir", "again", "writepid", "firstbeat"}
                      \cup Releasing

\* As long as taking and releasing never overlapped: one process at a time is
\* busy with the lock, the directory names its holder, and who got as far as
\* to change the lock's files found no holder.
Serial ==
    /\ \A p, q \in Proc : Busy(p) /\ Busy(q) => p = q
    /\ \A p \in Proc : pc[p] \in {"hold", "firstbeat"} => dir /\ pid = p
    /\ \A p, q \in Proc : TakesLock(p) => pc[q] # "hold"

LockInv == LockTypeOK /\ (~met /\ ~crossed => Serial)

\* A step of one process: only its own point changes, and if met stays FALSE
\* it is busy alone.
LEMMA GoAlone ==
    ASSUME LockTypeOK, NEW p \in Proc, NEW point \in Points, Go(p, point)
    PROVE  /\ pc' \in [Proc -> Points] /\ met' \in BOOLEAN /\ crashes' = crashes
           /\ pc'[p] = point
           /\ \A q \in Proc : q # p => pc'[q] = pc[q]
           /\ met => met'
           /\ crossed' \in BOOLEAN /\ (crossed => crossed')
           /\ pc[p] = "read" /\ pid # NoFile /\ Alive(pid) /\ ~crossed' => MaySignal(p, pid)
           /\ ~met' /\ point \in Acquiring \cup Releasing =>
                \A q \in Proc : Busy(q) => q = p
<1>1. crossed' \in BOOLEAN /\ (crossed => crossed') /\ met' \in BOOLEAN /\ (met => met')
  BY Zenon DEF LockTypeOK, Go
<1>2. pc[p] = "read" /\ pid # NoFile /\ Alive(pid) /\ ~crossed' => MaySignal(p, pid)
  BY Zenon DEF Go
<1> QED BY <1>1, <1>2 DEF LockTypeOK, Go, Busy

\* Every action keeps the type of the lock's files.
LEMMA LockTypeStep ==
    ASSUME LockTypeOK, [LockNext]_lockVars
    PROVE  LockTypeOK'
<1> USE ProcAssumption DEF LockTypeOK, Points, Acquiring, Releasing
<1>1. ASSUME NEW p \in Proc, StartDaemon(p) PROVE LockTypeOK'
  BY <1>1 DEF StartDaemon, Go, lockFiles
<1>2. ASSUME NEW p \in Proc, StartClient(p) PROVE LockTypeOK'
  BY <1>2 DEF StartClient, Go, lockFiles
<1>3. ASSUME NEW p \in Proc, CheckAlive(p) PROVE LockTypeOK'
  BY <1>3 DEF CheckAlive, Go, lockFiles
<1>4. ASSUME NEW p \in Proc, Mkdir(p) PROVE LockTypeOK'
  BY <1>4 DEF Mkdir, Go
<1>5. ASSUME NEW p \in Proc, PidExists(p) PROVE LockTypeOK'
  BY <1>5 DEF PidExists, Go, lockFiles
<1>6. ASSUME NEW p \in Proc, ReadPid(p) PROVE LockTypeOK'
  BY <1>6 DEF ReadPid, Refused, Go, lockFiles
<1>7. ASSUME NEW p \in Proc, Clear(p) PROVE LockTypeOK'
  BY <1>7 DEF Clear, Go
<1>8. ASSUME NEW p \in Proc, Rmdir(p) PROVE LockTypeOK'
  BY <1>8 DEF Rmdir, Go
<1>9. ASSUME NEW p \in Proc, MkdirAgain(p) PROVE LockTypeOK'
  BY <1>9 DEF MkdirAgain, Refused, Go
<1>10. ASSUME NEW p \in Proc, WritePid(p) PROVE LockTypeOK'
  BY <1>10 DEF WritePid, Go
<1>11. ASSUME NEW p \in Proc, FirstBeat(p) PROVE LockTypeOK'
  BY <1>11 DEF FirstBeat, Go
<1>12. ASSUME NEW p \in Proc, Heartbeat(p) PROVE LockTypeOK'
  BY <1>12 DEF Heartbeat
<1>13. ASSUME NEW p \in Proc, BeginRelease(p) PROVE LockTypeOK'
  BY <1>13 DEF BeginRelease, Go, lockFiles
<1>14. ASSUME NEW p \in Proc, EndWait(p) PROVE LockTypeOK'
  BY <1>14 DEF EndWait, Go, lockFiles
<1>15. ASSUME NEW p \in Proc, ProcessDies(p) PROVE LockTypeOK'
  BY <1>15 DEF ProcessDies
<1>16. CASE HeartbeatAges
  BY <1>16 DEF HeartbeatAges, NoFile
<1>17. CASE UNCHANGED lockVars
  BY <1>17 DEF lockVars
<1> HIDE ProcAssumption DEF LockTypeOK, Points, Acquiring, Releasing
<1> QED
  BY <1>1, <1>2, <1>3, <1>4, <1>5, <1>6, <1>7, <1>8, <1>9, <1>10, <1>11,
     <1>12, <1>13, <1>14, <1>15, <1>16, <1>17 DEF LockNext

\* While no two processes met in the lock code, nor two users, no step breaks
\* what Serial says of the directory, pid.txt and their holder.
LEMMA SerialStep ==
    ASSUME LockTypeOK, Serial, [LockNext]_lockVars, ~met', ~crossed'
    PROVE  Serial'
<1> USE ProcAssumption DEF Serial, Busy, TakesLock, Acquiring, Releasing, Points
<1>1. ASSUME NEW p \in Proc, StartDaemon(p) PROVE Serial'
  BY <1>1, GoAlone DEF StartDaemon, lockFiles
<1>2. ASSUME NEW p \in Proc, StartClient(p) PROVE Serial'
  BY <1>2, GoAlone DEF StartClient, lockFiles
<1>3. ASSUME NEW p \in Proc, CheckAlive(p) PROVE Serial'
  BY <1>3, GoAlone DEF CheckAlive, lockFiles
<1>4. ASSUME NEW p \in Proc, Mkdir(p) PROVE Serial'
  \* the directory of a holder is there
  BY <1>4, GoAlone DEF Mkdir
<1>5. ASSUME NEW p \in Proc, PidExists(p) PROVE Serial'
  \* ... and so is its pid.txt
  BY <1>5, GoAlone DEF PidExists, lockFiles
<1>6. ASSUME NEW p \in Proc, ReadPid(p) PROVE Serial'
  \* ... which names a live process
  <2>1. /\ UNCHANGED lockFiles
        /\ pid # NoFile /\ Alive(pid) => MaySignal(p, pid)
    BY <1>6, GoAlone DEF ReadPid, Refused
  <2> QED BY <1>6, <2>1, GoAlone DEF ReadPid, Refused, Alive, lockFiles
<1>7. ASSUME NEW p \in Proc, Clear(p) PROVE Serial'
  BY <1>7, GoAlone DEF Clear
<1>8. ASSUME NEW p \in Proc, Rmdir(p) PROVE Serial'
  BY <1>8, GoAlone DEF Rmdir
<1>9. ASSUME NEW p \in Proc, MkdirAgain(p) PROVE Serial'
  BY <1>9, GoAlone DEF MkdirAgain, Refused
<1>10. ASSUME NEW p \in Proc, WritePid(p) PROVE Serial'
  BY <1>10, GoAlone DEF WritePid
<1>11. ASSUME NEW p \in Proc, FirstBeat(p) PROVE Serial'
  BY <1>11, GoAlone DEF FirstBeat
<1>12. ASSUME NEW p \in Proc, Heartbeat(p) PROVE Serial'
  BY <1>12 DEF Heartbeat
<1>13. ASSUME NEW p \in Proc, BeginRelease(p) PROVE Serial'
  BY <1>13, GoAlone DEF BeginRelease, lockFiles
<1>14. ASSUME NEW p \in Proc, EndWait(p) PROVE Serial'
  BY <1>14, GoAlone DEF EndWait, lockFiles
<1>15. ASSUME NEW p \in Proc, ProcessDies(p) PROVE Serial'
  BY <1>15 DEF ProcessDies, LockTypeOK
<1>16. CASE HeartbeatAges
  BY <1>16 DEF HeartbeatAges, NoFile
<1>17. CASE UNCHANGED lockVars
  BY <1>17 DEF lockVars
<1> QED
  BY <1>1, <1>2, <1>3, <1>4, <1>5, <1>6, <1>7, <1>8, <1>9, <1>10, <1>11,
     <1>12, <1>13, <1>14, <1>15, <1>16, <1>17 DEF LockNext

\* met and crossed are history variables: once TRUE they stay TRUE.
LEMMA MetStays ==
    ASSUME [LockNext]_lockVars
    PROVE  (met => met') /\ (crossed => crossed')
<1>1. ASSUME NEW p \in Proc, NEW point, Go(p, point)
      PROVE  (met => met') /\ (crossed => crossed')
  BY <1>1, Zenon DEF Go
<1>2. CASE UNCHANGED <<met, crossed>>
  BY <1>2
<1>3. UNCHANGED <<met, crossed>> \/ \E p \in Proc : \E point \in Points : Go(p, point)
  <2>1. \A p \in Proc : Refused(p) \in Points
    BY DEF Refused, Points
  <2> QED BY <2>1 DEF LockNext, lockVars, StartDaemon, StartClient, CheckAlive,
         Mkdir, PidExists, ReadPid, Clear, Rmdir, MkdirAgain, WritePid, FirstBeat,
         Heartbeat, BeginRelease, EndWait, ProcessDies, HeartbeatAges, Points,
         Acquiring, Releasing
<1> QED BY <1>1, <1>2, <1>3

\* LockInv is an invariant of the lock.
LEMMA LockInvariant == LockSpec => []LockInv
<1>1. ASSUME LockInit PROVE LockInv
  <2>1. LockTypeOK
    <3>1. pc \in [Proc -> Points] /\ crashes \in 0..MaxCrashes
      BY <1>1, ProcAssumption DEF LockInit, Points
    <3> QED BY <1>1, <3>1, Zenon DEF LockInit, LockTypeOK
  <2>2. Serial
    BY <1>1 DEF LockInit, Serial, Busy, TakesLock, Acquiring, Releasing
  <2> QED BY <2>1, <2>2 DEF LockInv
<1>2. LockInv /\ [LockNext]_lockVars => LockInv'
  BY LockTypeStep, SerialStep, MetStays DEF LockInv
<1> QED BY <1>1, <1>2, PTL DEF LockSpec

\* The files of the lock directory and the processes around it are always what
\* they can be: a file is never without its directory (acquire_singleton,
\* release_singleton, drain_once).
THEOREM LockTypeCorrect == LockSpec => []LockTypeOK
<1>1. LockInv => LockTypeOK
  BY DEF LockInv
<1> QED BY <1>1, LockInvariant, PTL

\* For any number of daemons and clients of two users, whichever of them die
\* and wherever: as long as no two of them were taking or releasing the lock
\* at the same time, and none came upon the live holder of the other user,
\* whom acquire_singleton takes for dead, at most one drains the queue.
THEOREM LockIsExclusive == LockSpec => []SingleWhenSerial
<1>1. LockInv => SingleWhenSerial
  BY DEF LockInv, Serial, SingleWhenSerial, MutualExclusion, Holders
<1> QED BY <1>1, LockInvariant, PTL

-----------------------------------------------------------------------------
\* LaneStream

Byte == 1..MaxBytes

StreamInv ==
    /\ StreamTypeOK
    /\ \A c \in Watcher : Len(queue[c]) <= QueueMax
    /\ NothingMissed

\* Queue r has the new chunk and what queue q had, but the head of a full one.
Takes(r, q, chunk, S) ==
    /\ r \in Seq(S) /\ Len(r) <= QueueMax
    /\ \E j \in DOMAIN r : r[j] = chunk
    /\ \A i \in DOMAIN q : \/ Len(q) = QueueMax /\ q[i] = Head(q)
                           \/ \E j \in DOMAIN r : r[j] = q[i]

\* A chunk is put at the end of a bounded queue, which loses its head for it if
\* it is full and nothing else.
LEMMA PutKeeps ==
    ASSUME NEW S, NEW q \in Seq(S), NEW chunk \in S, Len(q) <= QueueMax
    PROVE  Takes(Put(q, chunk), q, chunk, S)
<1>0. QueueMax \in Nat /\ QueueMax > 0
  BY StreamAssumption
<1>1. CASE Len(q) < QueueMax
  <2>1. Put(q, chunk) = Append(q, chunk)
    BY <1>1 DEF Put
  <2>2. /\ Append(q, chunk) \in Seq(S) /\ Len(Append(q, chunk)) = Len(q) + 1
        /\ Append(q, chunk)[Len(q) + 1] = chunk
        /\ \A i \in 1..Len(q) : Append(q, chunk)[i] = q[i]
    OBVIOUS
  <2> QED BY <1>0, <1>1, <2>1, <2>2 DEF Takes
<1>2. CASE ~(Len(q) < QueueMax)
  <2>1. Len(q) = QueueMax /\ q # <<>>
    BY <1>0, <1>2
  <2>2. PICK r : r = Tail(q)
    OBVIOUS
  <2>3. /\ r \in Seq(S) /\ Len(r) = QueueMax - 1 /\ \A i \in 1..Len(r) : r[i] = q[i + 1]
    BY <1>0, <2>1, <2>2
  <2>4. Put(q, chunk) = Append(r, chunk)
    BY <1>2, <2>2 DEF Put
  <2>5. /\ Append(r, chunk) \in Seq(S) /\ Len(Append(r, chunk)) = QueueMax
        /\ Append(r, chunk)[QueueMax] = chunk
        /\ \A i \in 1..Len(r) : Append(r, chunk)[i] = q[i + 1]
    BY <1>0, <2>3
  <2>6. ASSUME NEW i \in DOMAIN q
        PROVE  \/ Len(q) = QueueMax /\ q[i] = Head(q)
               \/ \E j \in DOMAIN Put(q, chunk) : Put(q, chunk)[j] = q[i]
    <3>1. CASE i = 1
      BY <2>1, <3>1
    <3>2. CASE i # 1
      <4>1. i - 1 \in 1..Len(r) /\ i - 1 \in DOMAIN Append(r, chunk)
        BY <1>0, <2>1, <2>3, <2>5, <3>2
      <4>2. Append(r, chunk)[i - 1] = q[i]
        BY <2>1, <2>5, <4>1
      <4> QED BY <2>4, <4>1, <4>2
    <3> QED BY <3>1, <3>2
  <2> QED BY <1>0, <2>4, <2>5, <2>6, SMTT(20) DEF Takes
<1> QED BY <1>1, <1>2

\* The tail hands a chunk to every watcher.
LEMMA FanOutStep ==
    ASSUME StreamInv, FanOut
    PROVE  StreamInv'
<1> USE StreamAssumption DEF StreamInv, StreamTypeOK
<1>1. PICK upto \in (read + 1)..written :
        /\ read' = upto
        /\ queue' = [c \in Watcher |-> IF c \in Subscribers THEN Put(queue[c], (read + 1)..upto)
                                       ELSE queue[c]]
        /\ dropped' = [c \in Watcher |-> IF c \in Subscribers /\ Len(queue[c]) = QueueMax
                                         THEN dropped[c] \cup Head(queue[c]) ELSE dropped[c]]
  BY DEF FanOut
<1>2. /\ tailing /\ read < written
      /\ UNCHANGED <<written, pipe, tailing, respawning, respawns, phase, sent, from>>
  BY DEF FanOut
<1>3. PICK chunk \in SUBSET Byte : chunk = (read + 1)..upto
  BY <1>1 DEF Byte
<1>4. \A c \in Watcher : c \in Subscribers => Takes(queue'[c], queue[c], chunk, SUBSET Byte)
  <2> SUFFICES ASSUME NEW c \in Watcher, c \in Subscribers
               PROVE  Takes(queue'[c], queue[c], chunk, SUBSET Byte)
    OBVIOUS
  <2>1. queue[c] \in Seq(SUBSET Byte) /\ Len(queue[c]) <= QueueMax
    BY DEF Byte
  <2>2. PICK q \in Seq(SUBSET Byte) : q = queue[c]
    BY <2>1
  <2>3. queue'[c] = Put(q, chunk)
    BY <1>1, <1>3, <2>2
  <2>4. Takes(Put(q, chunk), q, chunk, SUBSET Byte)
    BY <2>1, <2>2, PutKeeps
  <2> QED BY <2>2, <2>3, <2>4
<1>5. \A c \in Watcher : c \in Subscribers /\ Len(queue[c]) = QueueMax => Head(queue[c]) \in SUBSET Byte
  <2> SUFFICES ASSUME NEW c \in Watcher, Len(queue[c]) = QueueMax PROVE Head(queue[c]) \in SUBSET Byte
    OBVIOUS
  <2>1. queue[c] \in Seq(SUBSET Byte) /\ queue[c] # <<>>
    BY DEF Byte
  <2> QED BY <2>1, HeadTailProperties
<1>6. /\ queue' \in [Watcher -> Seq(SUBSET Byte)] /\ \A c \in Watcher : Len(queue'[c]) <= QueueMax
  BY <1>1, <1>4 DEF Byte, Takes
<1>7. dropped' \in [Watcher -> SUBSET Byte]
  BY <1>1, <1>5 DEF Byte
<1>8. StreamTypeOK'
  BY <1>1, <1>2, <1>6, <1>7 DEF Byte
<1>9. NothingMissed'
  <2> SUFFICES ASSUME NEW c \in Watcher, phase[c] = "live", NEW b \in (from[c] + 1)..written
               PROVE  \/ b \in sent[c] \cup dropped'[c] \/ b > upto
                      \/ \E j \in DOMAIN queue'[c] : b \in queue'[c][j]
    BY <1>1, <1>2 DEF NothingMissed
  <2>1. c \in Subscribers /\ dropped[c] \subseteq dropped'[c]
    BY <1>1 DEF Subscribers
  <2>2. CASE b > read /\ b <= upto
    <3>1. b \in chunk
      BY <1>1, <1>3, <2>2
    <3> QED BY <1>4, <2>1, <3>1 DEF Takes
  <2>3. CASE \E i \in DOMAIN queue[c] : b \in queue[c][i]
    <3>1. PICK i \in DOMAIN queue[c] : b \in queue[c][i]
      BY <2>3
    <3>2. CASE Len(queue[c]) = QueueMax /\ queue[c][i] = Head(queue[c])
      BY <1>1, <2>1, <3>1, <3>2
    <3> QED BY <1>4, <2>1, <3>1, <3>2 DEF Takes
  <2> QED BY <1>1, <2>1, <2>2, <2>3 DEF NothingMissed
<1> QED BY <1>6, <1>8, <1>9

\* A watcher is sent the end of the log, or the head of its queue.
LEMMA WatcherStep ==
    ASSUME StreamInv, NEW c \in Watcher, Replay(c) \/ Send(c) \/ Connect(c) \/ Disconnect(c) \/ Leak(c)
    PROVE  StreamInv'
<1> USE StreamAssumption DEF StreamInv, StreamTypeOK
<1>1. CASE Connect(c)
  BY <1>1 DEF Connect, NothingMissed
<1>l. CASE Leak(c)
  BY <1>l DEF Leak, NothingMissed
<1>2. CASE Disconnect(c)
  BY <1>2 DEF Disconnect, NothingMissed
<1>3. CASE Replay(c)
  <2>0. PICK begin \in 0..written : begin = IF written > TailBytes THEN written - TailBytes ELSE 0
    OBVIOUS
  <2>1. /\ sent' = [sent EXCEPT ![c] = (begin + 1)..written]
        /\ from' = [from EXCEPT ![c] = begin]
        /\ phase' = [phase EXCEPT ![c] = "live"]
    BY <1>3, <2>0 DEF Replay
  <2>2. UNCHANGED <<written, pipe, read, tailing, respawning, respawns, queue, dropped>>
    BY <1>3 DEF Replay
  <2>3. StreamTypeOK'
    BY <2>1, <2>2
  <2>4. NothingMissed'
    BY <2>1, <2>2 DEF NothingMissed
  <2> QED BY <2>2, <2>3, <2>4
<1>4. CASE Send(c)
  <2>1. /\ sent' = [sent EXCEPT ![c] = @ \cup Head(queue[c])]
        /\ queue' = [queue EXCEPT ![c] = Tail(queue[c])]
        /\ UNCHANGED <<written, pipe, read, tailing, respawning, respawns, phase, from, dropped>>
    BY <1>4 DEF Send
  <2>2. queue[c] \in Seq(SUBSET Byte) /\ queue[c] # <<>>
    BY <1>4 DEF Send, Byte
  <2>3. /\ Head(queue[c]) \in SUBSET Byte /\ Tail(queue[c]) \in Seq(SUBSET Byte)
        /\ Len(Tail(queue[c])) = Len(queue[c]) - 1
    BY <2>2, HeadTailProperties
  <2>4. \A i \in DOMAIN queue[c] : \/ queue[c][i] = Head(queue[c])
                                   \/ \E j \in DOMAIN Tail(queue[c]) : Tail(queue[c])[j] = queue[c][i]
    <3> SUFFICES ASSUME NEW i \in DOMAIN queue[c], i # 1
                 PROVE  \E j \in DOMAIN Tail(queue[c]) : Tail(queue[c])[j] = queue[c][i]
      <4>1. PICK q \in Seq(SUBSET Byte) : q = queue[c] /\ q # <<>>
        BY <2>2
      <4>2. q[1] = Head(q)
        BY <4>1
      <4> QED BY <4>1, <4>2
    <3>1. i - 1 \in DOMAIN Tail(queue[c]) /\ Tail(queue[c])[i - 1] = queue[c][i]
      BY <2>2, <2>3
    <3> QED BY <3>1
  <2>5. StreamTypeOK'
    BY <2>1, <2>3 DEF Byte
  <2>6. \A d \in Watcher : Len(queue'[d]) <= QueueMax
    <3>1. Len(Tail(queue[c])) <= QueueMax
      BY <2>2, <2>3
    <3>2. \A d \in Watcher : queue'[d] = IF d = c THEN Tail(queue[c]) ELSE queue[d]
      BY <2>1
    <3> QED BY <3>1, <3>2
  <2>7. NothingMissed'
    <3> SUFFICES ASSUME NEW d \in Watcher, phase[d] = "live", NEW b \in (from[d] + 1)..written
                 PROVE  \/ b \in sent'[d] \cup dropped[d] \/ b > read
                        \/ \E j \in DOMAIN queue'[d] : b \in queue'[d][j]
      BY <2>1 DEF NothingMissed
    <3>1. CASE d # c
      BY <2>1, <3>1 DEF NothingMissed
    <3>2. CASE d = c
      <4>1. sent'[c] = sent[c] \cup Head(queue[c]) /\ queue'[c] = Tail(queue[c])
        BY <2>1
      <4>2. \/ b \in sent[c] \cup dropped[c] \/ b > read
            \/ \E i \in DOMAIN queue[c] : b \in queue[c][i]
        BY <3>2 DEF NothingMissed
      <4> QED BY <2>4, <3>2, <4>1, <4>2
    <3> QED BY <3>1, <3>2
  <2> QED BY <2>5, <2>6, <2>7
<1> QED BY <1>1, <1>l, <1>2, <1>3, <1>4

\* The other steps of the lane: output, the end of the tail, another server, a
\* respawn with its failures.
LEMMA LaneStep ==
    ASSUME StreamInv,
           \/ Output \/ TailExits \/ Restart \/ RespawnKill \/ PipePane \/ PipeFails
           \/ DrainAndPush \/ UNCHANGED stream
    PROVE  StreamInv'
<1> USE StreamAssumption DEF StreamInv, StreamTypeOK
<1>1. CASE Output
  <2>1. StreamTypeOK' /\ queue' = queue
    BY <1>1 DEF Output
  <2>2. NothingMissed'
    <3> SUFFICES ASSUME NEW c \in Watcher, phase[c] = "live", NEW b \in (from[c] + 1)..(written + 1)
                 PROVE  \/ b \in sent[c] \cup dropped[c] \/ b > read
                        \/ \E i \in DOMAIN queue[c] : b \in queue[c][i]
      BY <1>1 DEF Output, NothingMissed
    <3>1. b \in (from[c] + 1)..written \/ b > read
      OBVIOUS
    <3> QED BY <3>1 DEF NothingMissed
  <2> QED BY <2>1, <2>2
<1>2. CASE TailExits
  BY <1>2 DEF TailExits, NothingMissed
<1>3. CASE Restart
  BY <1>3 DEF Restart, NothingMissed
<1>4. CASE RespawnKill
  <2>1. /\ pipe' = FALSE /\ respawning' = "killed" /\ respawns' \in 0..MaxRespawns
        /\ UNCHANGED <<written, read, tailing, phase, queue, sent, from, dropped>>
    BY <1>4 DEF RespawnKill
  <2>2. pipe' \in BOOLEAN
    BY <2>1
  <2> QED BY <2>1, <2>2 DEF NothingMissed
<1>5. CASE PipePane
  BY <1>5 DEF PipePane, NothingMissed
<1>6. CASE PipeFails
  BY <1>6 DEF PipeFails, NothingMissed
<1>7. CASE DrainAndPush
  <2>1. /\ queue' = [c \in Watcher |-> IF c \in Subscribers THEN <<{}>> ELSE queue[c]]
        /\ dropped' = [c \in Watcher |-> dropped[c] \cup UNION {queue[c][i] : i \in DOMAIN queue[c]}]
        /\ respawning' = "idle"
        /\ UNCHANGED <<written, pipe, read, tailing, respawns, phase, sent, from>>
    BY <1>7 DEF DrainAndPush
  <2>2. <<{}>> \in Seq(SUBSET Byte) /\ Len(<<{}>>) = 1
    OBVIOUS
  <2>3. queue' \in [Watcher -> Seq(SUBSET Byte)] /\ \A c \in Watcher : Len(queue'[c]) <= QueueMax
    <3>1. \A c \in Watcher : queue'[c] = <<{}>> \/ queue'[c] = queue[c]
      BY <2>1
    <3>2. \A c \in Watcher : queue[c] \in Seq(SUBSET Byte) /\ Len(queue[c]) <= QueueMax
      BY DEF Byte
    <3>3. \A c \in Watcher : queue'[c] \in Seq(SUBSET Byte) /\ Len(queue'[c]) <= QueueMax
      <4>1. PICK z : z = <<{}>>
        OBVIOUS
      <4>2. z \in Seq(SUBSET Byte) /\ Len(z) <= QueueMax
        BY <2>2, <4>1
      <4> QED BY <3>1, <3>2, <4>1, <4>2
    <3> QED BY <2>1, <3>3
  <2>4. dropped' \in [Watcher -> SUBSET Byte]
    BY <2>1 DEF Byte
  <2>5. StreamTypeOK'
    BY <2>1, <2>3, <2>4 DEF Byte
  <2>6. NothingMissed'
    BY <2>1 DEF NothingMissed
  <2> QED BY <2>3, <2>5, <2>6
<1>8. CASE UNCHANGED stream
  BY <1>8 DEF stream, NothingMissed
<1> QED BY <1>1, <1>2, <1>3, <1>4, <1>5, <1>6, <1>7, <1>8

\* The stream of a lane keeps its invariant.
LEMMA StreamInvariant == StreamSpec => []StreamInv
<1>1. StreamInit => StreamInv
  BY StreamAssumption DEF StreamInit, StreamInv, StreamTypeOK, NothingMissed
<1>2. StreamInv /\ [StreamNext]_stream => StreamInv'
  BY FanOutStep, WatcherStep, LaneStep DEF StreamNext, StreamServer
<1> QED BY <1>1, <1>2, PTL DEF StreamSpec

\* No byte of a lane is lost to a watcher but by its own full queue or by a
\* respawn, for any number of watchers, queue length and replay: subscribing
\* before reading the log leaves no gap (generate_lane_pane_stream_events).
THEOREM NoByteIsMissed == StreamSpec => []NothingMissed
<1>1. StreamInv => NothingMissed
  BY DEF StreamInv
<1> QED BY <1>1, StreamInvariant, PTL

-----------------------------------------------------------------------------
\* PhaseFlip

\* The worker that made the lock of f and has not written its event
Holds(w, f) == at[w].pc \in {"owner", "event"} /\ at[w].flip = f

FlipType ==
    /\ at \in [Worker -> [pc : {"rest", "owner", "event", "readme"}, flip : Flip \cup {NoFlip}]]
    /\ events \in Seq([flip : Flip \cup {NoFlip}, by : Worker \cup {"recovery-agent"}])
    /\ recovery.pc = "remake" => recovery.flip \in recovered
    /\ recovery \in [pc : {"rest", "scan", "remake"}, todo : SUBSET Flip, last : Flip \cup {NoFlip},
                     aged : SUBSET Flip, flip : Flip \cup {NoFlip}]
    /\ locks \subseteq Flip /\ recovered \subseteq Flip

\* A flip whose lock was never removed was taken by one worker at most, which
\* has the lock, or has written its event, or is gone.
OneTaker ==
    \A f \in Flip \ recovered :
        /\ \A v, w \in Worker : Holds(v, f) /\ Holds(w, f) => v = w
        /\ \A w \in Worker : Holds(w, f) =>
              f \in locks /\ \A i \in DOMAIN events : events[i].flip # f
        /\ \A i \in DOMAIN events : events[i].flip = f => f \in locks
        /\ \A i, j \in DOMAIN events : events[i].flip = f /\ events[j].flip = f => i = j

FlipInv == FlipType /\ OneTaker

\* The record of an event
FlipEvent == [flip : Flip \cup {NoFlip}, by : Worker \cup {"recovery-agent"}]

\* A worker's step on its flip, up to the event.
LEMMA WorkerStep ==
    ASSUME FlipInv, NEW w \in Worker,
           TryFlip(w) \/ WriteOwner(w) \/ WriteOwnerFails(w) \/ UpdateReadme(w) \/ CrashFlip(w)
    PROVE  FlipInv'
<1> USE DEF FlipInv, FlipType
<1>1. CASE TryFlip(w)
  <2>1. PICK f \in Flip : /\ f \notin locks /\ locks' = locks \cup {f}
                          /\ at' = [at EXCEPT ![w] = [pc |-> "owner", flip |-> f]]
                          /\ UNCHANGED <<recovered, events, recovery>>
    BY <1>1 DEF TryFlip, MakeLock
  <2>2. FlipType'
    BY <2>1
  <2>3. \A v \in Worker : at'[v] = IF v = w THEN [pc |-> "owner", flip |-> f] ELSE at[v]
    BY <2>1
  <2>4. \A v \in Worker : \A g : Holds(v, g)' => (v = w /\ g = f) \/ (v # w /\ Holds(v, g))
    BY <2>3 DEF Holds
  <2>5. \A g \in Flip \ recovered : g = f => \A v \in Worker : ~Holds(v, g)
    BY <2>1 DEF OneTaker
  <2>6. OneTaker'
    <3> SUFFICES ASSUME NEW g \in Flip \ recovered
                 PROVE  /\ \A v, u \in Worker : Holds(v, g)' /\ Holds(u, g)' => v = u
                        /\ \A v \in Worker : Holds(v, g)' =>
                              g \in locks' /\ \A i \in DOMAIN events : events[i].flip # g
                        /\ \A i \in DOMAIN events : events[i].flip = g => g \in locks'
                        /\ \A i, j \in DOMAIN events : events[i].flip = g /\ events[j].flip = g => i = j
      BY <2>1 DEF OneTaker
    <3>1. \A v, u \in Worker : Holds(v, g)' /\ Holds(u, g)' => v = u
      BY <2>4, <2>5 DEF OneTaker
    <3>2. \A v \in Worker : Holds(v, g)' => g \in locks' /\ \A i \in DOMAIN events : events[i].flip # g
      BY <2>1, <2>4 DEF OneTaker
    <3> QED BY <2>1, <3>1, <3>2 DEF OneTaker
  <2> QED BY <2>2, <2>6
<1>2. CASE WriteOwner(w) \/ WriteOwnerFails(w) \/ UpdateReadme(w) \/ CrashFlip(w)
  <2>1. /\ UNCHANGED <<recovered, events, recovery, locks>>
        /\ \/ at' = [at EXCEPT ![w] = Resting]
           \/ at[w].pc = "owner" /\ at' = [at EXCEPT ![w].pc = "event"]
    BY <1>2 DEF WriteOwner, WriteOwnerFails, UpdateReadme, CrashFlip
  <2>2. FlipType'
    BY <2>1 DEF Resting
  <2>3. \A v \in Worker : \A g : Holds(v, g)' => Holds(v, g)
    <3>1. \A v \in Worker : v # w => at'[v] = at[v]
      BY <2>1
    <3>2. at'[w].pc = "rest" \/ (at[w].pc = "owner" /\ at'[w].flip = at[w].flip)
      BY <2>1 DEF Resting
    <3> QED BY <3>1, <3>2 DEF Holds
  <2>4. OneTaker'
    BY <2>1, <2>3 DEF OneTaker
  <2> QED BY <2>2, <2>4
<1> QED BY <1>1, <1>2

\* The event of the worker that has the lock is the flip's only one.
LEMMA AppendStep ==
    ASSUME FlipInv, NEW w \in Worker, AppendEvent(w)
    PROVE  FlipInv'
<1> USE DEF FlipInv, FlipType
<1>1. PICK f \in Flip \cup {NoFlip} : f = at[w].flip
  OBVIOUS
<1>2. /\ at[w].pc = "event" /\ events' = Append(events, [flip |-> f, by |-> w])
      /\ at' = [at EXCEPT ![w].pc = "readme"]
      /\ UNCHANGED <<recovered, locks, recovery>>
  BY <1>1 DEF AppendEvent
<1>3. /\ events \in Seq(FlipEvent) /\ events' \in Seq(FlipEvent) /\ Len(events') = Len(events) + 1
      /\ events'[Len(events) + 1].flip = f /\ \A i \in 1..Len(events) : events'[i] = events[i]
  BY <1>2 DEF FlipEvent
<1>4. FlipType'
  BY <1>2, <1>3 DEF FlipEvent
<1>5. Holds(w, f) /\ \A v \in Worker : \A g : Holds(v, g)' => v # w /\ Holds(v, g)
  BY <1>1, <1>2 DEF Holds
<1>6. \A i \in DOMAIN events' : \/ i = Len(events) + 1 /\ events'[i].flip = f
                                \/ i \in DOMAIN events /\ events'[i] = events[i]
  BY <1>3
<1>7. OneTaker'
  <2> SUFFICES ASSUME NEW g \in Flip \ recovered
               PROVE  /\ \A v, u \in Worker : Holds(v, g)' /\ Holds(u, g)' => v = u
                      /\ \A v \in Worker : Holds(v, g)' =>
                            g \in locks' /\ \A i \in DOMAIN events' : events'[i].flip # g
                      /\ \A i \in DOMAIN events' : events'[i].flip = g => g \in locks'
                      /\ \A i, j \in DOMAIN events' : events'[i].flip = g /\ events'[j].flip = g => i = j
    BY <1>2 DEF OneTaker
  <2>1. \A v, u \in Worker : Holds(v, g)' /\ Holds(u, g)' => v = u
    BY <1>5 DEF OneTaker
  <2>2. g = f => g \in locks /\ (\A i \in DOMAIN events : events[i].flip # g)
                 /\ \A v \in Worker : ~Holds(v, g)'
    BY <1>5 DEF OneTaker
  <2>3. \A v \in Worker : Holds(v, g)' => g \in locks' /\ \A i \in DOMAIN events' : events'[i].flip # g
    BY <1>2, <1>5, <1>6, <2>2 DEF OneTaker
  <2>4. \A i \in DOMAIN events' : events'[i].flip = g => g \in locks'
    BY <1>2, <1>6, <2>2 DEF OneTaker
  <2>5. \A i, j \in DOMAIN events' : events'[i].flip = g /\ events'[j].flip = g => i = j
    BY <1>6, <2>2 DEF OneTaker
  <2> QED BY <2>1, <2>3, <2>4, <2>5
<1> QED BY <1>4, <1>7

\* A recovery writes the second event of a flip only after it has removed its
\* lock.
LEMMA RecoveryStep ==
    ASSUME FlipInv, TimePasses \/ RecoverBegin \/ RecoverRemove \/ RecoverRemake \/ RecoverEnd
    PROVE  FlipInv'
<1> USE DEF FlipInv, FlipType
<1>1. CASE TimePasses
  <2>1. UNCHANGED <<recovered, locks, events, at, recovery>>
    BY <1>1 DEF TimePasses
  <2> QED BY <2>1 DEF OneTaker, Holds
<1>2. CASE RecoverBegin \/ RecoverEnd
  <2>1. UNCHANGED <<recovered, locks, events, at>>
    BY <1>2 DEF RecoverBegin, RecoverEnd
  <2>2. recovery'.pc # "remake" /\ recovery' \in [pc : {"rest", "scan", "remake"}, todo : SUBSET Flip,
               last : Flip \cup {NoFlip}, aged : SUBSET Flip, flip : Flip \cup {NoFlip}]
    <3>1. CASE RecoverEnd
      BY <3>1 DEF RecoverEnd, NoRecovery
    <3>2. CASE RecoverBegin
      <4>1. PICK last : last = IF events = <<>> THEN NoFlip ELSE Last(events).flip
        OBVIOUS
      <4>2. PICK aged : aged = IF events = <<>> THEN old \cap locks
                               ELSE IF EventsFile \in old THEN locks ELSE {}
        OBVIOUS
      <4>3. recovery' = [pc |-> "scan", todo |-> locks, flip |-> NoFlip, last |-> last, aged |-> aged]
        BY <3>2, <4>1, <4>2 DEF RecoverBegin
      <4>4. last \in Flip \cup {NoFlip}
        <5>1. CASE events = <<>>
          BY <4>1, <5>1
        <5>2. CASE events # <<>>
          <6>1. events \in Seq(FlipEvent) /\ Len(events) \in 1..Len(events)
            BY <5>2 DEF FlipEvent
          <6>2. events[Len(events)] \in FlipEvent
            BY <6>1
          <6>3. last = events[Len(events)].flip
            BY <4>1, <5>2 DEF Last
          <6> QED BY <6>2, <6>3 DEF FlipEvent
        <5> QED BY <5>1, <5>2
      <4>5. aged \subseteq Flip
        BY <4>2
      <4> QED BY <4>3, <4>4, <4>5
    <3> QED BY <1>2, <3>1, <3>2
  <2>3. OneTaker'
    BY <2>1 DEF OneTaker, Holds
  <2> QED BY <2>1, <2>2, <2>3
<1>3. CASE RecoverRemove
  <2>1. PICK f \in recovery.todo :
          IF Stuck(f)
          THEN /\ locks' = locks \ {f}
               /\ recovery' = [recovery EXCEPT !.todo = @ \ {f}, !.pc = "remake", !.flip = f]
               /\ recovered' = recovered \cup {f}
          ELSE /\ recovery' = [recovery EXCEPT !.todo = @ \ {f}]
               /\ UNCHANGED <<locks, recovered>>
    BY <1>3 DEF RecoverRemove
  <2>2. UNCHANGED <<events, at>> /\ recovery.pc = "scan"
    BY <1>3 DEF RecoverRemove
  <2>3. f \in Flip
    OBVIOUS
  <2>4. FlipType'
    BY <2>1, <2>2, <2>3, ZenonT(40)
  <2>5. /\ Flip \ recovered' \subseteq Flip \ recovered
        /\ \A g \in Flip \ recovered' : g \in locks => g \in locks'
    BY <2>1
  <2>6. \A v \in Worker : \A g : Holds(v, g)' <=> Holds(v, g)
    BY <2>2 DEF Holds
  <2>7. OneTaker'
    BY <2>2, <2>5, <2>6 DEF OneTaker
  <2> QED BY <2>4, <2>7
<1>4. CASE RecoverRemake
  <2>1. PICK f \in Flip \cup {NoFlip} : f = recovery.flip /\ f \in recovered
    BY <1>4 DEF RecoverRemake
  <2>2. CASE f \in locks
    <3>1. recovery' = NoRecovery /\ UNCHANGED <<locks, events, recovered, at>>
      BY <1>4, <2>1, <2>2 DEF RecoverRemake
    <3>2. FlipType'
      BY <3>1 DEF NoRecovery
    <3> QED BY <3>1, <3>2 DEF OneTaker, Holds
  <2>3. CASE f \notin locks
    <3>1. /\ locks' = locks \cup {f} /\ UNCHANGED <<recovered, at>>
          /\ events' = Append(events, [flip |-> f, by |-> "recovery-agent"])
          /\ recovery' = [recovery EXCEPT !.pc = "scan", !.flip = NoFlip]
      BY <1>4, <2>1, <2>3 DEF RecoverRemake
    <3>2. /\ events \in Seq(FlipEvent) /\ events' \in Seq(FlipEvent) /\ Len(events') = Len(events) + 1
          /\ events'[Len(events) + 1].flip = f /\ \A i \in 1..Len(events) : events'[i] = events[i]
      BY <3>1 DEF FlipEvent
    <3>3. \A i \in DOMAIN events' : \/ events'[i].flip = f
                                    \/ i \in DOMAIN events /\ events'[i] = events[i]
      BY <3>2
    <3>4. FlipType'
      <4>1. recovery' \in [pc : {"rest", "scan", "remake"}, todo : SUBSET Flip,
               last : Flip \cup {NoFlip}, aged : SUBSET Flip, flip : Flip \cup {NoFlip}]
            /\ recovery'.pc = "scan"
        BY <3>1
      <4>2. locks' \subseteq Flip
        BY <2>1, <3>1
      <4> QED BY <3>1, <3>2, <4>1, <4>2 DEF FlipEvent
    <3>5. \A v \in Worker : \A g : Holds(v, g)' <=> Holds(v, g)
      BY <3>1 DEF Holds
    <3>6. OneTaker'
      BY <2>1, <3>1, <3>3, <3>5 DEF OneTaker
    <3> QED BY <3>4, <3>6
  <2> QED BY <2>2, <2>3
<1> QED BY <1>1, <1>2, <1>3, <1>4

\* Of the workers that try a flip, mkdir picks one: however their steps, the
\* crashes and the recoveries interleave, a flip whose lock no recovery has
\* removed is written to .mission-events once at most.
THEOREM FlipHasOneWinner == FlipSpec => []OneWinner
<1>1. FlipInit => FlipInv
  BY DEF FlipInit, FlipInv, FlipType, OneTaker, Holds, Resting, NoRecovery
<1>2. FlipInv /\ [FlipNext]_flip => FlipInv'
  <2> SUFFICES ASSUME FlipInv, [FlipNext]_flip PROVE FlipInv'
    OBVIOUS
  <2>1. CASE UNCHANGED flip
    BY <2>1 DEF flip, FlipInv, FlipType, OneTaker, Holds
  <2> QED BY <2>1, WorkerStep, AppendStep, RecoveryStep DEF FlipNext
<1>3. FlipInv => OneWinner
  <2> SUFFICES ASSUME FlipInv, NEW f \in Flip \ recovered
               PROVE  Cardinality({i \in DOMAIN events : events[i].flip = f}) <= 1
    BY DEF OneWinner
  <2>1. PICK E : E = {i \in DOMAIN events : events[i].flip = f}
    OBVIOUS
  <2>2. \A i, j \in E : i = j
    BY <2>1 DEF FlipInv, OneTaker
  <2>3. E = {} \/ \E x : E = {x}
    BY <2>2
  <2>4. Cardinality(E) <= 1
    <3>1. CASE E = {}
      BY <3>1, FS_EmptySet
    <3>2. CASE \E x : E = {x}
      <4>1. PICK x : E = {x}
        BY <3>2
      <4>2. Cardinality({x}) = 1
        BY FS_Singleton
      <4> QED BY <4>1, <4>2
    <3> QED BY <2>3, <3>1, <3>2
  <2> QED BY <2>1, <2>4
<1> QED BY <1>1, <1>2, <1>3, PTL DEF FlipSpec

-----------------------------------------------------------------------------
\* Gate

\* How many admitted calls the rate limit has forgotten
Forgotten == Len(admitted) - Len(recent)

\* The limit remembers the last calls that were admitted, and those it has
\* forgotten are out of every window to come.
RateInv ==
    /\ clock \in Nat /\ admitted \in Seq(Nat) /\ recent \in Seq(Nat)
    /\ Len(recent) <= Len(admitted)
    /\ \A i \in 1..Len(admitted) : admitted[i] <= clock
    /\ \A i \in 1..Len(recent) : recent[i] = admitted[Forgotten + i]
    /\ \A i \in 1..Forgotten : admitted[i] + Window <= clock
    /\ InjectBudget

\* What is left of the limit's memory: its end, from the first entry that is in
\* the window; what is popped is not.
LEMMA FreshIsSuffix ==
    ASSUME RateInv
    PROVE  \E p \in 0..Len(recent) :
              /\ Fresh \in Seq(Nat) /\ Len(Fresh) = Len(recent) - p
              /\ \A i \in 1..Len(Fresh) : Fresh[i] = recent[p + i]
              /\ \A i \in 1..p : recent[i] + Window <= clock
<1>0. /\ recent \in Seq(Nat) /\ Len(recent) \in Nat /\ clock \in Nat /\ Window \in Nat
      /\ \A i \in 1..Len(recent) : recent[i] \in Nat
  <2>1. clock \in Nat /\ recent \in Seq(Nat)
    BY Zenon DEF RateInv
  <2> QED BY <2>1, GateAssumption
<1>1. PICK I : I = {i \in 1..(Len(recent) + 1) : i <= Len(recent) => recent[i] + Window > clock}
  OBVIOUS
<1>2. Len(recent) \in Nat /\ Len(recent) + 1 \in I /\ I \in SUBSET Nat
  BY <1>0, <1>1
<1>3. FirstFresh \in I /\ \A i \in I : FirstFresh <= i
  BY <1>1, <1>2, MinIsLeast DEF FirstFresh
<1>4. PICK k \in 1..(Len(recent) + 1) : k = FirstFresh
  BY <1>1, <1>3
<1>5. \A i \in 1..(k - 1) : recent[i] + Window <= clock
  <2> SUFFICES ASSUME NEW i \in 1..(k - 1) PROVE recent[i] + Window <= clock
    OBVIOUS
  <2>1. i \in 1..Len(recent) /\ i \notin I
    BY <1>2, <1>3, <1>4
  <2>2. ~(recent[i] + Window > clock)
    BY <1>1, <2>1
  <2>3. recent[i] \in Nat /\ clock \in Nat /\ Window \in Nat
    BY <1>0, <2>1
  <2> QED BY <2>2, <2>3
<1>6. recent \in Seq(Nat)
  BY DEF RateInv
<1>7. /\ SubSeq(recent, k, Len(recent)) \in Seq(Nat)
      /\ Len(SubSeq(recent, k, Len(recent))) = Len(recent) - (k - 1)
      /\ \A i \in 1..(Len(recent) - (k - 1)) : SubSeq(recent, k, Len(recent))[i] = recent[(k - 1) + i]
  BY <1>2, <1>6
<1>8. Fresh = SubSeq(recent, k, Len(recent))
  BY <1>4 DEF Fresh
<1>9. k - 1 \in 0..Len(recent)
  BY <1>2
<1> QED BY <1>5, <1>7, <1>8, <1>9

\* An admitted injection is the last of a window that has room for it.
LEMMA InjectStep ==
    ASSUME RateInv, NEW c \in Request, Inject(c)
    PROVE  RateInv'
<1>0. /\ clock \in Nat /\ Window \in Nat /\ Window > 0 /\ Budget \in Nat
      /\ admitted \in Seq(Nat) /\ recent \in Seq(Nat) /\ Len(recent) <= Len(admitted)
      /\ \A i \in 1..Len(admitted) : admitted[i] \in Nat /\ admitted[i] <= clock
  <2>1. Window \in Nat /\ Window > 0 /\ Budget \in Nat
    BY GateAssumption
  <2>2. /\ clock \in Nat /\ admitted \in Seq(Nat) /\ recent \in Seq(Nat)
        /\ Len(recent) <= Len(admitted)
        /\ \A i \in 1..Len(admitted) : admitted[i] <= clock
    BY Zenon DEF RateInv
  <2>3. \A i \in 1..Len(admitted) : admitted[i] \in Nat
    BY <2>2
  <2> QED BY <2>1, <2>2, <2>3
<1>1. PICK p \in 0..Len(recent) :
        /\ Fresh \in Seq(Nat) /\ Len(Fresh) = Len(recent) - p
        /\ \A i \in 1..Len(Fresh) : Fresh[i] = recent[p + i]
        /\ \A i \in 1..p : recent[i] + Window <= clock
  BY FreshIsSuffix
<1>2. /\ Len(Fresh) < Budget /\ recent' = Append(Fresh, clock)
      /\ admitted' = Append(admitted, clock) /\ clock' = clock
  BY DEF Inject
<1>3. PICK n \in Nat : n = Len(admitted)
  BY <1>0
<1>a. PICK m \in Nat : m = Len(recent)
  BY <1>0
<1>b. PICK q \in Nat : q = Len(Fresh) /\ q = m - p /\ q < Budget
  <2>1. Len(Fresh) \in Nat
    BY <1>1
  <2> QED BY <1>1, <1>2, <1>a, <2>1
<1>4. PICK g \in Nat : g = n - q /\ g <= n /\ g = (n - m) + p /\ m <= n
  <2>1. m <= n /\ p <= m
    BY <1>0, <1>1, <1>3, <1>a
  <2> QED BY <1>b, <2>1
<1>c. /\ Forgotten = n - m
      /\ \A i \in 1..m : recent[i] = admitted[(n - m) + i]
      /\ \A i \in 1..(n - m) : admitted[i] + Window <= clock
  BY <1>3, <1>a DEF RateInv, Forgotten
<1>d. /\ \A i \in 1..q : Fresh[i] = recent[p + i]
      /\ \A i \in 1..p : recent[i] + Window <= clock
  BY <1>1, <1>b
<1>5. \A i \in 1..g : admitted[i] + Window <= clock
  <2> SUFFICES ASSUME NEW i \in 1..g PROVE admitted[i] + Window <= clock
    OBVIOUS
  <2>1. CASE i <= n - m
    BY <1>4, <1>c, <2>1
  <2>2. CASE ~(i <= n - m)
    <3>1. PICK j \in 1..p : i = (n - m) + j
      <4>1. i - (n - m) \in 1..p
        BY <1>4, <2>2
      <4> QED BY <1>4, <4>1
    <3>2. j \in 1..m
      BY <1>a, <3>1
    <3> QED BY <1>c, <1>d, <3>1, <3>2
  <2> QED BY <2>1, <2>2
<1>6. /\ admitted' \in Seq(Nat) /\ Len(admitted') = n + 1 /\ admitted'[n + 1] = clock
      /\ \A i \in 1..n : admitted'[i] = admitted[i]
  BY <1>0, <1>2, <1>3
<1>7. /\ recent' \in Seq(Nat) /\ Len(recent') = q + 1 /\ recent'[q + 1] = clock
      /\ \A i \in 1..q : recent'[i] = Fresh[i]
  BY <1>0, <1>1, <1>2, <1>b
<1>8. Forgotten' = g
  BY <1>3, <1>4, <1>6, <1>7 DEF Forgotten
<1>9. \A i \in 1..Len(recent') : recent'[i] = admitted'[g + i]
  <2> SUFFICES ASSUME NEW i \in 1..(q + 1) PROVE recent'[i] = admitted'[g + i]
    BY <1>7
  <2>1. CASE i = q + 1
    <3>1. g + i = n + 1
      BY <1>4, <2>1
    <3> QED BY <1>6, <1>7, <2>1, <3>1
  <2>2. CASE i # q + 1
    <3>1. i \in 1..q /\ p + i \in 1..m /\ g + i \in 1..n /\ (n - m) + (p + i) = g + i
      BY <1>b, <1>4, <2>2
    <3>2. recent'[i] = recent[p + i]
      BY <1>7, <1>d, <3>1
    <3>3. recent[p + i] = admitted[(n - m) + (p + i)]
      BY <1>c, <3>1
    <3> QED BY <1>6, <3>1, <3>2, <3>3
  <2> QED BY <2>1, <2>2
<1>10. InjectBudget'
  <2>0. DOMAIN admitted' = 1..(n + 1)
    BY <1>6
  <2> SUFFICES ASSUME NEW i \in 1..(n + 1)
               PROVE  Cardinality({j \in 1..(n + 1) : admitted'[j] <= admitted'[i]
                                      /\ admitted'[j] + Window > admitted'[i]}) <= Budget
    BY <2>0, Zenon DEF InjectBudget
  <2>1. PICK W : W = {j \in 1..(n + 1) : admitted'[j] <= admitted'[i]
                                      /\ admitted'[j] + Window > admitted'[i]}
    OBVIOUS
  <2>2. CASE admitted'[i] = clock
    <3>1. W \subseteq (g + 1)..(n + 1)
      <4> SUFFICES ASSUME NEW j \in 1..(n + 1), j \in W PROVE j >= g + 1
        BY <2>1
      <4>1. admitted'[j] + Window > clock
        BY <2>1, <2>2
      <4>2. ~(j \in 1..g)
        <5> SUFFICES ASSUME j \in 1..g PROVE FALSE
          OBVIOUS
        <5>1. j \in 1..n /\ admitted[j] \in Nat /\ admitted[j] + Window <= clock
          <6>1. j \in 1..n
            BY <1>4
          <6>2. admitted[j] + Window <= clock
            BY <1>5
          <6> QED BY <1>0, <1>3, <6>1, <6>2
        <5> QED BY <1>0, <1>6, <4>1, <5>1
      <4> QED BY <4>2
    <3>2. IsFiniteSet((g + 1)..(n + 1)) /\ Cardinality((g + 1)..(n + 1)) = n + 1 - g
      BY <1>4, FS_Interval
    <3>3. IsFiniteSet(W) /\ Cardinality(W) <= n + 1 - g /\ Cardinality(W) \in Nat
      BY <3>1, <3>2, FS_Subset, FS_CardinalityType, ZenonT(40)
    <3>4. n + 1 - g <= Budget
      BY <1>0, <1>b, <1>4
    <3> QED BY <1>0, <2>1, <3>3, <3>4
  <2>3. CASE admitted'[i] # clock
    <3>1. i \in 1..n /\ admitted'[i] = admitted[i] /\ admitted[i] < clock
      BY <1>0, <1>3, <1>6, <2>3
    <3>2. W = {j \in 1..n : admitted[j] <= admitted[i] /\ admitted[j] + Window > admitted[i]}
      <4>1. ASSUME NEW j \in W PROVE j \in 1..n
        <5>1. j \in 1..(n + 1) /\ admitted'[j] <= admitted[i] /\ admitted[i] \in Nat
          BY <1>0, <1>3, <2>1, <3>1, <4>1
        <5>2. ASSUME j = n + 1 PROVE FALSE
          <6>1. clock <= admitted[i]
            BY <1>6, <5>1, <5>2
          <6> QED BY <1>0, <3>1, <5>1, <6>1
        <5> QED BY <5>1, <5>2
      <4> QED BY <1>6, <2>1, <3>1, <4>1
    <3>3. DOMAIN admitted = 1..n
      BY <1>0, <1>3
    <3> QED BY <2>1, <3>1, <3>2, <3>3 DEF RateInv, InjectBudget
  <2> QED BY <2>2, <2>3
<1> QED
  <2>1. \A i \in 1..Len(admitted') : admitted'[i] <= clock'
    BY <1>0, <1>2, <1>3, <1>6
  <2>2. Len(recent') <= Len(admitted')
    BY <1>4, <1>6, <1>7
  <2>3. \A i \in 1..Forgotten' : admitted'[i] + Window <= clock'
    BY <1>2, <1>4, <1>5, <1>6, <1>8
  <2> QED BY <1>0, <1>2, <1>6, <1>7, <1>8, <1>9, <1>10, <2>1, <2>2, <2>3 DEF RateInv

\* The steps of the gate that leave the rate limit or the sessions alone.
OtherStep ==
    \E c \in Request :
        \/ Refuse(c) \/ CheckThenWait(c) \/ SetControl(c) \/ Effect(c) \/ Answer(c)
        \/ RestartLoop(c) \/ Typed(c) \/ TypeFails(c) \/ Log(c) \/ \E s \in Sid : Admit(c, s)

\* The limit of injections per lane holds for every window of time, however
\* requests overlap, and whichever process runs.
THEOREM BudgetHolds == GateSpec => []InjectBudget
<1>1. GateInit => RateInv
  BY DEF GateInit, RateInv, InjectBudget, Forgotten
<1>2. RateInv /\ [GateNext]_gate => RateInv'
  <2> SUFFICES ASSUME RateInv, [GateNext]_gate PROVE RateInv'
    OBVIOUS
  <2>1. CASE UNCHANGED <<clock, recent, admitted>>
    BY <2>1 DEF RateInv, InjectBudget, Forgotten
  <2>2. CASE Tick
    <3>1. clock' = clock + 1 /\ UNCHANGED <<recent, admitted>>
      BY <2>2 DEF Tick
    <3>2. InjectBudget'
      BY <3>1 DEF RateInv, InjectBudget
    <3>3. \A i \in 1..Len(admitted) : admitted[i] \in Nat
      BY DEF RateInv
    <3>4. Forgotten' = Forgotten /\ Forgotten \in Nat /\ Forgotten <= Len(admitted)
      BY <3>1 DEF RateInv, Forgotten
    <3>5. clock \in Nat /\ Window \in Nat
      BY GateAssumption DEF RateInv
    <3>6. /\ \A i \in 1..Len(admitted) : admitted[i] <= clock + 1
          /\ \A i \in 1..Forgotten : admitted[i] + Window <= clock + 1
      <4>1. /\ \A i \in 1..Len(admitted) : admitted[i] <= clock
            /\ \A i \in 1..Forgotten : admitted[i] + Window <= clock
        BY Zenon DEF RateInv
      <4> QED BY <3>3, <3>4, <3>5, <4>1
    <3> QED BY <3>1, <3>2, <3>4, <3>5, <3>6 DEF RateInv
  <2>3. CASE Launch
    <3>1. clock' = clock /\ recent' = <<>> /\ admitted' = <<>>
      BY <2>3 DEF Launch
    <3> QED BY <3>1 DEF RateInv, InjectBudget, Forgotten
  <2>4. Die \/ OtherStep \/ (\E s \in Sid : Create(s) \/ Revoke(s) \/ Evict(s)) \/ UNCHANGED gate
          => UNCHANGED <<clock, recent, admitted>>
    BY DEF Die, OtherStep, Create, Revoke, Evict, Refuse, CheckThenWait, SetControl, Effect,
           Answer, RestartLoop, Typed, TypeFails, Log, Admit, gate
  <2> QED BY <2>1, <2>2, <2>3, <2>4, InjectStep DEF GateNext, OtherStep
<1>3. RateInv => InjectBudget
  BY DEF RateInv
<1> QED BY <1>1, <1>2, <1>3, PTL DEF GateSpec

\* A server that comes after another has exactly its sessions, but the expired
\* ones: the file is what the process has in memory unless its last write of it
\* failed (SessionStore._persist).
THEOREM SessionsSurviveRestart == GateSpec => []RestartKeepsSessions
<1>1. GateInit => RestartKeepsSessions
  BY DEF GateInit, RestartKeepsSessions
<1>2. RestartKeepsSessions /\ [GateNext]_gate => RestartKeepsSessions'
  <2> SUFFICES ASSUME RestartKeepsSessions, [GateNext]_gate PROVE RestartKeepsSessions'
    OBVIOUS
  <2>1. ASSUME NEW m, sessions' = m, Persist(m) PROVE RestartKeepsSessions'
    <3>1. stored' = m \/ ~saved' \/ (stored' = stored /\ stored = m)
      BY <2>1, Zenon DEF Persist
    <3> QED BY <2>1, <3>1, Zenon DEF RestartKeepsSessions
  <2>2. CASE UNCHANGED <<up, sessions, stored, saved>>
    BY <2>2 DEF RestartKeepsSessions
  <2>3. CASE Launch
    <3>1. PICK m : sessions' = m /\ Persist(m)
      BY <2>3, Zenon DEF Launch
    <3> QED BY <2>1, <3>1
  <2>4. CASE \E s \in Sid : Create(s) \/ Revoke(s) \/ Evict(s)
    <3>1. Persist(sessions')
      BY <2>4, Zenon DEF Create, Revoke, Evict
    <3>2. PICK m : m = sessions'
      OBVIOUS
    <3>3. Persist(m)
      BY <3>1, <3>2 DEF Persist
    <3> QED BY <2>1, <3>2, <3>3
  <2>5. CASE Die
    BY <2>5 DEF Die, RestartKeepsSessions
  <2>6. Tick \/ OtherStep \/ (\E c \in Request : Inject(c)) \/ UNCHANGED gate
          => UNCHANGED <<up, sessions, stored, saved>>
    BY DEF Tick, OtherStep, Refuse, CheckThenWait, SetControl, Effect, Inject,
           Answer, RestartLoop, Typed, TypeFails, Log, Admit, gate
  <2> QED BY <2>2, <2>3, <2>4, <2>5, <2>6 DEF GateNext, OtherStep
<1> QED BY <1>1, <1>2, PTL DEF GateSpec

-----------------------------------------------------------------------------
\* Governor

\* The decision in hand is the policy's, for rules that were stored once.
HookInv ==
    \/ call = NoCall
    \/ call.tool = "bad input"
    \/ \E specs : decision = Decide(call, specs, HasTarget)

\* The decision in hand is the policy's.
LEMMA HookInvariant == GovernorSpec => []HookInv
<1>1. GovernorInit => HookInv
  BY DEF GovernorInit, HookInv
<1>2. HookInv /\ [GovernorNext]_governor => HookInv'
  <2> SUFFICES ASSUME HookInv, [GovernorNext]_governor PROVE HookInv'
    OBVIOUS
  <2>1. CASE RunHook
    <3>1. PICK c \in Calls : /\ call' = c
                             /\ decision' = IF c.tool = "bad input" THEN Deny("governor-error")
                                            ELSE Decide(c, ToSet(rules), HasTarget)
      BY <2>1, Zenon DEF RunHook
    <3>2. CASE c.tool = "bad input"
      BY <3>1, <3>2, Zenon DEF HookInv
    <3>3. CASE c.tool # "bad input"
      <4>1. PICK specs : specs = ToSet(rules)
        OBVIOUS
      <4>2. decision' = Decide(c, specs, HasTarget)
        BY <3>1, <3>3, <4>1, Zenon
      <4>3. decision' = Decide(call', specs, HasTarget)
        BY <3>1, <4>2, Zenon
      <4> QED BY <4>3, Zenon DEF HookInv
    <3> QED BY <3>2, <3>3
  <2>2. CASE HookExits
    BY <2>2 DEF HookExits, HookInv
  <2>3. CASE UNCHANGED <<call, decision>>
    BY <2>3, Zenon DEF HookInv
  <2>4. PostApprovalRule \/ DeleteApprovalRule \/ UNCHANGED governor => UNCHANGED <<call, decision>>
    BY Zenon DEF PostApprovalRule, DeleteApprovalRule, governor
  <2> QED BY <2>1, <2>2, <2>3, <2>4 DEF GovernorNext
<1> QED BY <1>1, <1>2, PTL DEF GovernorSpec

\* A rule matches after the floor has been consulted only.
LEMMA FloorsStand ==
    ASSUME NEW c, c.tool = "Bash", NEW specs, NEW target,
           Decide(c, {}, target).category \in Floors
    PROVE  Decide(c, specs, target) = Decide(c, {}, target)
<1>1. \A t : Decide(c, t, target) = DecideBash(c, t, target)
  BY DEF Decide
<1>2. CASE c.shape \in {"empty", "canary", "substitution", "function"}
  BY <1>1, <1>2 DEF DecideBash
<1>3. CASE c.shape \notin {"empty", "canary", "substitution", "function"}
  <2>1. PICK objected : objected = {i \in DOMAIN c.segments: AdjudicateSegment(c.segments[i], target) # "ok"}
    OBVIOUS
  <2>2. PICK s : s = c.segments[Min(objected)]
    OBVIOUS
  <2>3. PICK category : category = AdjudicateSegment(s, target)
    OBVIOUS
  <2>4. \A t : DecideBash(c, t, target) = IF objected = {} THEN Allow("bash-ok")
                                          ELSE OverrideOf(category, s, t)
    BY <1>3, <2>1, <2>2, <2>3 DEF DecideBash
  <2>5. CASE objected = {}
    BY <1>1, <2>4, <2>5
  <2>6. CASE objected # {}
    <3>1. OverrideOf(category, s, {}) = Deny(category)
      BY DEF OverrideOf
    <3>2. category \in Floors
      BY <1>1, <2>4, <2>6, <3>1 DEF Deny
    <3>3. OverrideOf(category, s, specs) = Deny(category)
      BY <3>2 DEF OverrideOf
    <3> QED BY <1>1, <2>4, <2>6, <3>1, <3>3
  <2> QED BY <2>5, <2>6
<1> QED BY <1>2, <1>3

\* No rule of the operator, stored at any time, and no command of any length
\* moves a floor (_decide_bash).
THEOREM FloorsAreFinal == GovernorSpec => []FloorIsFinal
<1>1. HookInv => FloorIsFinal
  <2> SUFFICES ASSUME HookInv, call.tool = "Bash", Decide(call, {}, HasTarget).category \in Floors
               PROVE  decision = Decide(call, {}, HasTarget)
    BY DEF FloorIsFinal
  <2>1. call # NoCall
    BY DEF NoCall
  <2>2. PICK specs : decision = Decide(call, specs, HasTarget)
    BY <2>1 DEF HookInv
  <2> QED BY <2>2, FloorsStand
<1> QED BY <1>1, HookInvariant, PTL

\* Of verdicts with one objection at most, at place k, that one is returned.
LEMMA OnlyObjection ==
    ASSUME NEW v, NEW k \in Nat, k \in DOMAIN v, \A i \in DOMAIN v : i # k => v[i] = "ok"
    PROVE  FirstObjection(v) = v[k]
<1>1. CASE v[k] = "ok"
  <2>1. {i \in DOMAIN v: v[i] # "ok"} = {}
    BY <1>1
  <2> QED BY <1>1, <2>1 DEF FirstObjection
<1>2. CASE v[k] # "ok"
  <2>1. {i \in DOMAIN v: v[i] # "ok"} = {k}
    BY <1>2
  <2>2. Min({k}) = k
    BY DEF Min
  <2> QED BY <2>1, <2>2 DEF FirstObjection
<1> QED BY <1>1, <1>2

\* A segment whose only objection can come from its redirects or from its head.
LEMMA PartsOfSegment ==
    ASSUME NEW s, NEW target, s.parses, s.prefix = <<>>
    PROVE  /\ HeadVerdict(s, target) = "ok" =>
                AdjudicateSegment(s, target) = RedirectVerdict(s, target)
           /\ s.writes = <<>> => AdjudicateSegment(s, target) = HeadVerdict(s, target)
<1>1. PrefixVerdict(s) = "ok"
  BY DEF PrefixVerdict, ToSet
<1>2. PICK a : a = RedirectVerdict(s, target)
  OBVIOUS
<1>3. PICK h : h = HeadVerdict(s, target)
  OBVIOUS
<1>4. AdjudicateSegment(s, target) = FirstObjection(<<a, "ok", h>>)
  BY <1>1, <1>2, <1>3 DEF AdjudicateSegment
<1>5. h = "ok" => FirstObjection(<<a, "ok", h>>) = a
  <2>1. PICK v : v = <<a, "ok", h>>
    OBVIOUS
  <2>2. DOMAIN v = 1..3 /\ v[1] = a /\ v[2] = "ok" /\ v[3] = h
    BY <2>1
  <2>3. h = "ok" => \A i \in DOMAIN v : i # 1 => v[i] = "ok"
    BY <2>2
  <2> QED BY <2>1, <2>2, <2>3, OnlyObjection
<1>6. a = "ok" => FirstObjection(<<a, "ok", h>>) = h
  <2>1. PICK v : v = <<a, "ok", h>>
    OBVIOUS
  <2>2. DOMAIN v = 1..3 /\ v[1] = a /\ v[2] = "ok" /\ v[3] = h
    BY <2>1
  <2>3. a = "ok" => \A i \in DOMAIN v : i # 3 => v[i] = "ok"
    BY <2>2
  <2> QED BY <2>1, <2>2, <2>3, OnlyObjection
<1>7. s.writes = <<>> => a = "ok"
  BY <1>2 DEF RedirectVerdict, FirstObjection
<1> QED BY <1>2, <1>3, <1>4, <1>5, <1>6, <1>7

\* What WriteTarget may answer
WriteVerdicts == {"ok", "anti-tamper", "write-secret", "write-out-of-scope"}

\* A head that reads nothing or a plain file of the project and writes p last.
LEMMA MutationRoute ==
    ASSUME NEW s, NEW target, NEW p, NEW source, source = PlainFile,
           s.head \in {"tee", "cp", "ln", "pv"}, ~s.bad, Operands(s).ok,
           Operands(s).from \in {<<>>, <<source>>},
           Operands(s).to \in {<<p>>, <<source, p>>}
    PROVE  HeadVerdict(s, target) = WriteTarget(p.named, target)
<1>1. HeadVerdict(s, target) = MutationVerdict(s, target)
  BY DEF HeadVerdict, AlwaysDenied, DeniedWithArgument, MutationHeads, ReadHeads
<1>2. ReadVerdict(source.named, target) = "ok" /\ WriteTarget(source.named, target) = "ok"
  BY DEF ReadVerdict, WriteTarget, WithinScope, PlainFile, Absolute
<1>3. PICK w \in WriteVerdicts : w = WriteTarget(p.named, target)
  BY DEF WriteTarget, WriteVerdicts
<1>4. PICK A : A = [i \in DOMAIN Operands(s).from |-> ReadVerdict(Operands(s).from[i].named, target)]
  OBVIOUS
<1>5. PICK B : B = [i \in DOMAIN Operands(s).to |-> WriteTarget(Operands(s).to[i].named, target)]
  OBVIOUS
<1>6. A \in Seq(WriteVerdicts) /\ Len(A) \in 0..1 /\ \A i \in 1..Len(A) : A[i] = "ok"
  <2>1. CASE Operands(s).from = <<>>
    <3>1. A = <<>>
      BY <1>4, <2>1
    <3> QED BY <3>1
  <2>2. CASE Operands(s).from = <<source>>
    <3>1. A = <<"ok">>
      BY <1>2, <1>4, <2>2
    <3> QED BY <3>1 DEF WriteVerdicts
  <2> QED BY <2>1, <2>2
<1>7. B \in Seq(WriteVerdicts) /\ Len(B) \in 1..2 /\ B[Len(B)] = w /\ (Len(B) = 2 => B[1] = "ok")
  <2>1. CASE Operands(s).to = <<p>>
    <3>1. B = <<w>>
      BY <1>3, <1>5, <2>1
    <3> QED BY <1>3, <3>1
  <2>2. CASE Operands(s).to = <<source, p>>
    <3>1. B = <<"ok", w>>
      BY <1>2, <1>3, <1>5, <2>2
    <3> QED BY <1>3, <3>1 DEF WriteVerdicts
  <2> QED BY <2>1, <2>2
<1>8. PICK v : v = A \o B
  OBVIOUS
<1>9. /\ v \in Seq(WriteVerdicts) /\ Len(v) = Len(A) + Len(B) /\ v[Len(v)] = w
      /\ \A i \in 1..Len(v) : i # Len(v) => v[i] = "ok"
  <2>1. /\ v \in Seq(WriteVerdicts) /\ Len(v) = Len(A) + Len(B)
        /\ \A i \in 1..(Len(A) + Len(B)) : v[i] = IF i <= Len(A) THEN A[i] ELSE B[i - Len(A)]
    BY <1>6, <1>7, <1>8, ConcatProperties
  <2>2. Len(v) - Len(A) = Len(B)
    BY <1>6, <1>7, <2>1
  <2>3. v[Len(v)] = w
    BY <1>6, <1>7, <2>1, <2>2
  <2>4. ASSUME NEW i \in 1..Len(v), i # Len(v) PROVE v[i] = "ok"
    <3>1. CASE i <= Len(A)
      BY <1>6, <2>1, <3>1
    <3>2. CASE ~(i <= Len(A))
      <4>1. i - Len(A) = 1 /\ Len(B) = 2
        BY <1>6, <1>7, <2>1, <2>4, <3>2
      <4> QED BY <1>7, <2>1, <3>2, <4>1
    <3> QED BY <3>1, <3>2
  <2> QED BY <2>1, <2>3, <2>4
<1>10. FirstObjection(v) = w
  <2>1. Len(v) \in Nat /\ Len(v) \in DOMAIN v /\ DOMAIN v = 1..Len(v)
    BY <1>6, <1>7, <1>8, <1>9
  <2> QED BY <1>9, <2>1, OnlyObjection
<1> QED BY <1>1, <1>3, <1>4, <1>5, <1>8, <1>10 DEF MutationVerdict

\* A path has one verdict, by whichever route it is written.
LEMMA RoutesAgree ==
    ASSUME NEW target, NEW p,
           NEW s \in OperandRoutes(p) \cup (IF p.spelled = "device" THEN {} ELSE {Redirected(p)})
    PROVE  AdjudicateSegment(s, target) = WriteTarget(p.named, target)
<1>s. PICK source : source = PlainFile
  OBVIOUS
<1>r. (s = Redirected(p) /\ p.spelled # "device") \/ s \in OperandRoutes(p)
  OBVIOUS
<1>0. s.parses /\ s.prefix = <<>> /\ ~s.bad
  BY <1>r, ZenonT(40) DEF Segment, OperandRoutes, Redirected
<1>1. CASE s = Redirected(p) /\ p.spelled # "device"
  <2>1. s.head = "echo" /\ s.writes = <<p>>
    BY <1>1 DEF Segment, Redirected
  <2>2. HeadVerdict(s, target) = "ok"
    BY <2>1 DEF HeadVerdict, AlwaysDenied, DeniedWithArgument, MutationHeads, ReadHeads
  <2>3. PICK v : v = [i \in DOMAIN s.writes |-> IF s.writes[i].spelled = "device" THEN "ok"
                                            ELSE WriteTarget(s.writes[i].named, target)]
    OBVIOUS
  <2>4. DOMAIN v = {1} /\ v[1] = WriteTarget(p.named, target)
    BY <1>1, <2>1, <2>3
  <2>5. FirstObjection(v) = v[1]
    BY <2>4, OnlyObjection
  <2> QED BY <1>0, <2>2, <2>3, <2>4, <2>5, PartsOfSegment DEF RedirectVerdict
<1>2. CASE s \in OperandRoutes(p)
  <2>1. s.writes = <<>> /\ s.head \in {"tee", "cp", "ln", "pv"}
    BY <1>2, ZenonT(40) DEF Segment, OperandRoutes
  <2>2. CASE s = [Segment EXCEPT !.head = "tee", !.operands = <<source, p>>]
    <3>1. s.head = "tee" /\ s.operands = <<source, p>>
      BY <2>2 DEF Segment
    <3>2. Operands(s) = [from |-> <<>>, to |-> <<source, p>>, ok |-> TRUE]
      BY <1>0, <3>1 DEF Operands
    <3> QED BY <1>0, <2>1, <3>2, <1>s, MutationRoute, PartsOfSegment
  <2>3. CASE s = [Segment EXCEPT !.head = "cp", !.operands = <<source, p>>]
    <3>1. s.head = "cp" /\ s.operands = <<source, p>> /\ s.into = <<>>
      BY <2>3 DEF Segment
    <3>2. Len(s.operands) = 2 /\ Front(s.operands) = <<source>> /\ Last(s.operands) = p
      <4>1. PICK q : q = <<source, p>>
        OBVIOUS
      <4>2. Len(q) = 2 /\ q[1] = source /\ q[2] = p
        BY <4>1
      <4>3. PICK f : f = SubSeq(q, 1, 1)
        OBVIOUS
      <4>4. f \in Seq({source}) /\ Len(f) = 1 /\ f[1] = source
        BY <4>2, <4>3, SubSeqProperties
      <4>5. f = <<source>>
        BY <4>4
      <4>6. s.operands = q
        BY <3>1, <4>1
      <4>7. Last(q) = p
        BY <4>2 DEF Last
      <4>8. Front(q) = f
        <5>1. PICK n : n = Len(q) - 1
          OBVIOUS
        <5>2. n = 1
          BY <4>2, <5>1
        <5>3. Front(q) = SubSeq(q, 1, n)
          BY <5>1 DEF Front
        <5> QED BY <4>3, <5>2, <5>3
      <4> QED BY <4>2, <4>5, <4>6, <4>7, <4>8
    <3>3. Operands(s) = [from |-> <<source>>, to |-> <<p>>, ok |-> TRUE]
      <4>1. PICK ops, f, l : ops = s.operands /\ f = Front(ops) /\ l = Last(ops)
        OBVIOUS
      <4>2. ~(Len(ops) < 2) /\ f = <<source>> /\ l = p
        BY <3>2, <4>1
      <4>3. Operands(s) = [from |-> f, to |-> <<l>>, ok |-> TRUE]
        BY <1>0, <3>1, <4>1, <4>2 DEF Operands
      <4> QED BY <4>2, <4>3
    <3> QED BY <1>0, <2>1, <3>3, <1>s, MutationRoute, PartsOfSegment
  <2>4. CASE s \in { [Segment EXCEPT !.head = "cp", !.operands = <<source>>, !.into = <<p>>],
                     [Segment EXCEPT !.head = "ln", !.operands = <<source>>, !.into = <<p>>],
                     [Segment EXCEPT !.head = "pv", !.operands = <<source>>, !.into = <<p>>] }
    <3>1. s.head \in {"cp", "ln", "pv"} /\ s.operands = <<source>> /\ s.into = <<p>>
      BY <2>4, ZenonT(40) DEF Segment
    <3>2. Operands(s) = [from |-> <<source>>, to |-> <<p>>, ok |-> TRUE]
      BY <1>0, <3>1 DEF Operands
    <3> QED BY <1>0, <2>1, <3>2, <1>s, MutationRoute, PartsOfSegment
  <2> QED BY <1>s, <1>2, <2>2, <2>3, <2>4 DEF OperandRoutes
<1> QED BY <1>r, <1>1, <1>2

\* One write lock for every route to a file, whichever file, target repository
\* and rules: tee, cp, cp -t, ln -t, pv -o and redirects, the device files
\* excepted, answer alike, and as the Write tool does when the path means the
\* same file to the hook (_adjudicate_write_target).
THEOREM OneWriteLock == GovernorSpec => []WriteRoutesAgree
<1>1. HookInv => WriteRoutesAgree
  <2> SUFFICES ASSUME HookInv, call.tool = "Write", call.paths # <<>> PROVE WriteRoutesAgree
    BY DEF WriteRoutesAgree
  <2>1. call # NoCall
    BY DEF NoCall
  <2>2. PICK specs : decision = Decide(call, specs, HasTarget)
    BY <2>1 DEF HookInv
  <2>3. decision = DecideWrite(call.paths, HasTarget)
    BY <2>2 DEF Decide
  <2>4. PICK p : p = call.paths[1]
    OBVIOUS
  <2>5. (IF decision.permission = "allow" THEN "ok" ELSE decision.category) = WriteTarget(p.seen, HasTarget)
    BY <2>3, <2>4 DEF DecideWrite, Allow, Deny
  <2>6. PICK routes : routes = OperandRoutes(p) \cup (IF p.spelled = "device" THEN {} ELSE {Redirected(p)})
    OBVIOUS
  <2>7. \A s \in routes : AdjudicateSegment(s, HasTarget) = WriteTarget(p.named, HasTarget)
    BY <2>6, RoutesAgree
  <2> QED BY <2>4, <2>5, <2>6, <2>7, Zenon DEF WriteRoutesAgree
<1> QED BY <1>1, HookInvariant, PTL

-----------------------------------------------------------------------------
\* Signals

\* The server keeps the configuration it was built with.
ConfigLoaded == serverLanes \in Config

\* One configuration makes one roster, although the two loaders give a blank
\* label different names: the schema lets none through.
LEMMA OneRoster ==
    ASSUME ConfigLoaded, wallLanes = serverLanes
    PROVE  ServerRoster = WallRoster
<1>1. serverLanes # NoConfig /\ <<>> \notin serverLanes
  BY SignalAssumption DEF ConfigLoaded
<1>2. \A l \in serverLanes : NormalizeLane(l, Unknown) = NormalizeLane(l, <<>>)
  BY <1>1 DEF NormalizeLane
<1>3. serverLanes \ {<<>>} = serverLanes
  BY <1>1
<1>4. {NormalizeLane(l, Unknown) : l \in serverLanes} = {NormalizeLane(l, <<>>) : l \in serverLanes}
  BY <1>2, Zenon
<1> QED BY <1>1, <1>3, <1>4 DEF ServerRoster, WallRoster

\* Whatever a token says and wherever it stands, the page's parser and the
\* wall's find one sender, and look it up in their rosters.
LEMMA BothReadAlike ==
    ASSUME NEW row, NEW tok
    PROVE  /\ ServerRead(row, tok).from = WallRead(row, tok).from
           /\ ServerRead(row, tok).claimed = WallRead(row, tok).claimed
           /\ (ServerRead(row, tok).from \in ServerRoster <=> ServerRead(row, tok).from \in WallRoster)
                 => ServerRead(row, tok) = WallRead(row, tok)
<1>1. Orch \in ServerRoster /\ Orch \in WallRoster /\ Unknown # Orch
  BY DEF ServerRoster, WallRoster, Orch, Unknown
<1>2. PICK claimed : claimed = NormalizeLane(tok.from, Unknown)
  OBVIOUS
<1>3. PICK holder : holder = Owner(row, tok)
  OBVIOUS
<1>4. CASE tok.from \in OrchLabels
  BY <1>1, <1>2, <1>3, <1>4 DEF ServerRead, WallRead, Read
<1>5. CASE tok.from \notin OrchLabels /\ holder = <<>>
  BY <1>1, <1>2, <1>3, <1>5 DEF ServerRead, WallRead, Read
<1>6. CASE tok.from \notin OrchLabels /\ holder # <<>>
  BY <1>1, <1>2, <1>3, <1>6 DEF ServerRead, WallRead, Read
<1> QED BY <1>4, <1>5, <1>6

\* The two parsers of [SIG] notes agree on the sender, for every label, every
\* text of STATUS.md and every pair of configurations the server and the wall
\* may have loaded, and on its marks as far as the two rosters agree on it;
\* with one configuration they agree on everything.
THEOREM ParsersAgree == SignalsSpec => []ReadersAgree
<1>1. SignalsInit => ConfigLoaded
  BY DEF SignalsInit, ConfigLoaded
<1>2. ConfigLoaded /\ [SignalsNext]_signals => ConfigLoaded'
  BY DEF ConfigLoaded, SignalsNext, signals, rosters, WallLoads, AgentWrites, Minute, PostRead,
         PostWrite, PostQueued, WriteSignalFile
<1>3. ConfigLoaded => ReadersAgree
  <2> SUFFICES ASSUME ConfigLoaded, NEW x \in Tokens
               PROVE  LET page == ServerRead(x[1], x[2])
                          wall == WallRead(x[1], x[2])
                      IN /\ page.from = wall.from /\ page.claimed = wall.claimed
                         /\ page # wall => /\ wallLanes # serverLanes
                                           /\ (page.from \in ServerRoster) # (page.from \in WallRoster)
    BY DEF ReadersAgree
  <2> DEFINE page == ServerRead(x[1], x[2])
             wall == WallRead(x[1], x[2])
  <2>1. page.from = wall.from /\ page.claimed = wall.claimed
    BY BothReadAlike
  <2>2. (page.from \in ServerRoster <=> page.from \in WallRoster) => page = wall
    BY BothReadAlike
  <2>3. wallLanes = serverLanes => ServerRoster = WallRoster
    BY OneRoster
  <2>4. wallLanes = serverLanes => page = wall
    <3> HIDE DEF page, wall
    <3> QED BY <2>2, <2>3
  <2>5. page # wall => (page.from \in ServerRoster) # (page.from \in WallRoster)
    <3> HIDE DEF page, wall
    <3> QED BY <2>2
  <2> QED BY <2>1, <2>4, <2>5
<1> QED BY <1>1, <1>2, <1>3, PTL DEF SignalsSpec

-----------------------------------------------------------------------------
\* StaleLanes

\* What an answer of get_stale_lanes is worth later on: a lane it accuses was
\* silent when it was computed, and may have moved since.
Judged(a) ==
    \/ a = Empty
    \/ /\ a = [at |-> a.at, stale |-> a.stale, blocked |-> a.blocked, computed |-> a.computed]
       /\ a.computed \in Nat /\ a.at \in Nat /\ a.computed <= staleClock
       /\ a.computed <= a.at /\ a.at < a.computed + Ttl
       /\ a.stale \subseteq Code
       /\ \A l \in a.stale, s \in Sources :
             \/ seen[l][s] = Never
             \/ seen[l][s] + Threshold <= a.computed
             \/ a.computed <= seen[l][s]

StaleInv ==
    /\ staleClock \in 0..MaxStaleClock
    /\ seen \in [Code -> [Sources -> 0..Never]]
    /\ Judged(cache) /\ Judged(answer)

\* Time, traces of the lanes and requests leave every answer as it was judged.
LEMMA StaleStep ==
    ASSUME StaleInv, [StaleNext]_stale
    PROVE  StaleInv'
<1> USE StaleAssumption DEF StaleInv
<1>0. MaxStaleClock \in Nat /\ Never = MaxStaleClock + 1 /\ Ttl \in Nat /\ Ttl > 0 /\ Threshold \in Nat
  BY DEF Never
<1>1. CASE StaleTick
  BY <1>0, <1>1 DEF StaleTick, Judged, Empty, Never
<1>2. CASE Activity
  <2>1. PICK l \in Code, s \in Sources : seen' = [seen EXCEPT ![l][s] = staleClock]
    BY <1>2 DEF Activity
  <2>2. UNCHANGED <<staleClock, governorLog, cache, answer>>
    BY <1>2 DEF Activity
  <2>3. seen' \in [Code -> [Sources -> 0..Never]]
    BY <1>0, <2>1
  <2>4. \A k \in Code, t \in Sources : seen'[k][t] = seen[k][t] \/ seen'[k][t] = staleClock
    BY <2>1
  <2>5. ASSUME NEW a, Judged(a) PROVE Judged(a)'
    BY <1>0, <2>2, <2>3, <2>4, <2>5 DEF Judged, Empty, Never
  <2> QED BY <1>0, <2>2, <2>3, <2>5
<1>3. CASE ToolCall
  BY <1>3 DEF ToolCall, Judged, Empty, Never
<1>4. CASE GetStaleLanes
  <2>1. UNCHANGED <<staleClock, seen, governorLog>>
    BY <1>4 DEF GetStaleLanes
  <2>2. CASE CacheFresh
    <3>1. cache' = cache /\ answer' = [cache EXCEPT !.at = staleClock]
      BY <1>4, <2>2 DEF GetStaleLanes
    <3>2. cache # Empty /\ staleClock < cache.computed + Ttl
      BY <2>2 DEF CacheFresh
    <3>3. Judged(cache)' /\ Judged(answer)'
      BY <1>0, <2>1, <3>1, <3>2 DEF Judged, Empty, Never
    <3> QED BY <2>1, <3>3 DEF Never
  <2>3. CASE ~CacheFresh
    <3>1. PICK blocked : blocked = GovernorBlocked
      OBVIOUS
    <3>2. PICK c : c = [at |-> staleClock, computed |-> staleClock, blocked |-> blocked,
                        stale |-> {l \in Code : Silent(l) /\ l \notin blocked}]
      OBVIOUS
    <3>3. Compute = c
      BY <3>1, <3>2 DEF Compute
    <3>4. cache' = c /\ answer' = c
      BY <1>4, <2>3, <3>2, <3>3 DEF GetStaleLanes
    <3>5. Judged(c)'
      BY <1>0, <2>1, <3>2 DEF Judged, Empty, Silent, Never
    <3> QED BY <2>1, <3>4, <3>5 DEF Never
  <2> QED BY <2>2, <2>3
<1>5. CASE UNCHANGED stale
  BY <1>5 DEF stale, Judged, Empty, Never
<1> QED BY <1>1, <1>2, <1>3, <1>4, <1>5 DEF StaleNext

\* For every threshold and every life of the cache: an answer accuses no lane
\* that moved before the cache's life and after the threshold (get_stale_lanes).
THEOREM AccusedLanesWereSilent == StaleSpec => []StaleIsRecent
<1>1. StaleInit => StaleInv
  BY StaleAssumption DEF StaleInit, StaleInv, Judged, Never
<1>2. StaleInv => StaleIsRecent
  <2> SUFFICES ASSUME StaleInv, NEW l \in answer.stale, NEW s \in Sources
               PROVE  \/ seen[l][s] = Never \/ seen[l][s] + Threshold <= answer.at
                      \/ seen[l][s] + Ttl > answer.at
    BY DEF StaleIsRecent
  <2>1. answer # Empty
    BY DEF Empty
  <2>2. l \in Code /\ seen[l][s] \in Nat
    BY <2>1, StaleAssumption DEF StaleInv, Judged, Never
  <2> QED BY <2>1, <2>2, StaleAssumption DEF StaleInv, Judged
<1> QED BY <1>1, <1>2, StaleStep, PTL DEF StaleSpec

-----------------------------------------------------------------------------
\* LaneBoard

\* A row that assemble_lane_rows made, of any documents and any digest.
LEMMA RowAgrees ==
    ASSUME NEW l, NEW d, NEW r, NEW tokens, NEW row, row = Assembled(l, d, r, tokens)
    PROVE  /\ row.state = "claimed" => row.now # <<>>
           /\ row.now # <<>> => row.state \in {"claimed", "blocked"}
           /\ row.tokens = tokens
<1>1. PICK ts : ts = ParseTasks(d)
  OBVIOUS
<1> DEFINE mine(state) == {i \in DOMAIN ts : ts[i].lane = l /\ ts[i].state = state}
<1>2. PICK done, claimed, blocked :
         done = mine("done") /\ claimed = mine("claimed") /\ blocked = mine("blocked")
  OBVIOUS
<1>3. PICK working \in BOOLEAN : working = (r.says = "working" /\ (r.task # Nothing \/ r.note = "note"))
  OBVIOUS
<1>4. PICK gap \in BOOLEAN : gap = (/\ ~working /\ StatusState(r) # "open"
                                    /\ done = {} /\ claimed = {} /\ blocked = {})
  OBVIOUS
<1>5. PICK desc, id : desc = Desc(r, ts) /\ id = Latest(d, ts, claimed)
  OBVIOUS
<1>6. /\ row.state = Pill(r, working, gap, blocked, claimed, done)
      /\ row.now = IF working \/ gap THEN <<r.task, desc>>
                   ELSE IF r.says = "idle" \/ claimed = {} THEN <<>> ELSE <<id, <<"task", id>>>>
      /\ row.tokens = tokens
  BY <1>1, <1>2, <1>3, <1>4, <1>5 DEF Assembled
<1>7. StatusState(r) \in {"blocked", "claimed", "open"}
  BY DEF StatusState
<1>8. <<r.task, desc>> # <<>> /\ <<id, <<"task", id>>>> # <<>>
  OBVIOUS
<1> QED BY <1>3, <1>4, <1>6, <1>7, <1>8 DEF Pill

\* A transcript, by its session and the agent it opens with.
Opening == [sid : Nat, agent : Agent]

\* The transcripts: sids are given in turn, and each is in one place.
LogsInv ==
    /\ logs \in Seq(Opening)
    /\ \A i \in 1..Len(logs) : logs[i].sid <= Len(logs)
    /\ \A i, j \in 1..Len(logs) : logs[i].sid = logs[j].sid => i = j

\* Session id belongs to a lane: it is none, or it is not given to anybody else
\* later, and who has it was named by the lane's row.
Owns(l, id) ==
    /\ id \in Nat /\ id <= Len(logs)
    /\ \A i \in 1..Len(logs) : logs[i].sid = id => logs[i].agent \in named[l]

\* What a build holds between its awaits.
BuildInv ==
    /\ DOMAIN build = {"at", "doc", "status", "tokens", "found", "todo", "wanted"}
    /\ build.at \in {"resolve", "recovered", "digests"}
    /\ \A l \in LaneSet : build.status[l].agent \in named[l]
    /\ DOMAIN build.tokens = LaneSet
    /\ \A l \in LaneSet : build.tokens[l] \in named[l] \cup {Nothing}
    /\ build.todo \in Seq(LaneSet) /\ build.wanted \subseteq LaneSet
    /\ build.at = "recovered" => \A l \in LaneSet \cap DOMAIN build.found : Owns(l, build.found[l])

DigestInv ==
    /\ LogsInv
    /\ DOMAIN named = LaneSet /\ DOMAIN status = LaneSet
    /\ \A l \in LaneSet : status[l].agent \in named[l]
    /\ DOMAIN session = LaneSet
    /\ \A l \in LaneSet : "id" \in DOMAIN session[l] /\ Owns(l, session[l].id)
    /\ build = NoBuild \/ BuildInv
    /\ DOMAIN board = LaneSet
    /\ DigestIsTheLanes

\* A non-empty set of places in a sequence has a last one, and Max is it.
LEMMA MaxIsPlace ==
    ASSUME NEW n \in Nat, NEW S \in SUBSET (1..n), S # {}
    PROVE  Max(S) \in S
<1>1. PICK T : T = {k \in Nat : \E x \in S : k = n - x}
  OBVIOUS
<1>2. T \in SUBSET Nat /\ T # {}
  <2>1. PICK x \in S : TRUE
    OBVIOUS
  <2>2. n - x \in Nat
    BY <2>1
  <2> QED BY <1>1, <2>1, <2>2
<1>3. PICK k \in T : \A y \in T : k <= y
  BY <1>2, MinIsLeast
<1>4. PICK x \in S : k = n - x
  BY <1>1, <1>3
<1>5. ASSUME NEW y \in S PROVE x >= y
  <2>1. n - y \in T
    BY <1>1
  <2> QED BY <1>3, <1>4, <2>1
<1> QED BY <1>4, <1>5 DEF Max

\* The digest of an id that belongs to a lane is of one of its agents.
LEMMA ParsedIsOwn ==
    ASSUME LogsInv, NEW l, NEW id, Owns(l, id)
    PROVE  ParseSession(id) \in named[l] \cup {Nothing}
<1>1. PICK S : S = {i \in DOMAIN logs : logs[i].sid = id}
  OBVIOUS
<1>2. Len(logs) \in Nat /\ DOMAIN logs = 1..Len(logs)
  BY DEF LogsInv
<1>3. S \in SUBSET (1..Len(logs))
  BY <1>1, <1>2
<1>4. CASE S = {}
  BY <1>1, <1>4 DEF ParseSession
<1>5. CASE S # {}
  <2>1. Max(S) \in S
    BY <1>2, <1>3, <1>5, MaxIsPlace
  <2>2. ParseSession(id) = logs[Max(S)].agent
    BY <1>1, <1>5 DEF ParseSession
  <2> QED BY <1>1, <1>2, <2>1, <2>2 DEF Owns
<1> QED BY <1>4, <1>5

\* The newest transcript that an agent of the lane opened belongs to the lane.
LEMMA NewestIsOwn ==
    ASSUME LogsInv, NEW l, NEW agent \in named[l], OwnedBy(agent) # {}
    PROVE  Owns(l, logs[Max(OwnedBy(agent))].sid)
<1>1. PICK S : S = OwnedBy(agent)
  OBVIOUS
<1>2. Len(logs) \in Nat /\ DOMAIN logs = 1..Len(logs)
  BY DEF LogsInv
<1>3. S \in SUBSET (1..Len(logs)) /\ \A i \in S : logs[i].agent = agent
  BY <1>1, <1>2 DEF OwnedBy
<1>4. PICK m \in S : m = Max(S)
  BY <1>1, <1>2, <1>3, MaxIsPlace
<1>5. /\ logs[m].sid \in Nat /\ logs[m].sid <= Len(logs) /\ logs[m].agent = agent
      /\ \A i \in 1..Len(logs) : logs[i].sid = logs[m].sid => i = m
  <2>1. m \in 1..Len(logs) /\ logs[m].agent = agent
    BY <1>3, <1>4
  <2>2. logs[m] \in Opening
    BY <1>2, <2>1 DEF LogsInv
  <2>3. logs[m].sid \in Nat
    BY <2>2 DEF Opening
  <2> QED BY <2>1, <2>3 DEF LogsInv
<1> QED BY <1>1, <1>4, <1>5 DEF Owns

\* A transcript that is opened, or written to again, takes no id from a lane.
LEMMA TranscriptStep ==
    ASSUME LogsInv, Transcript
    PROVE  /\ LogsInv'
           /\ \A l, id : Owns(l, id) => Owns(l, id)'
<1>0. logs \in Seq(Opening) /\ Len(logs) \in Nat /\ UNCHANGED named
  BY DEF LogsInv, Transcript
<1>1. CASE \E a \in Agent : logs' = Append(logs, [sid |-> Len(logs) + 1, agent |-> a])
  <2>1. PICK a \in Agent : logs' = Append(logs, [sid |-> Len(logs) + 1, agent |-> a])
    BY <1>1
  <2>2. PICK new : new = [sid |-> Len(logs) + 1, agent |-> a]
    OBVIOUS
  <2>3. new \in Opening /\ new.sid = Len(logs) + 1
    BY <1>0, <2>2 DEF Opening
  <2>4. /\ logs' \in Seq(Opening) /\ Len(logs') = Len(logs) + 1
        /\ logs'[Len(logs) + 1] = new /\ \A i \in 1..Len(logs) : logs'[i] = logs[i]
    BY <1>0, <2>1, <2>2, <2>3
  <2>5. \A i \in 1..Len(logs) : logs[i].sid \in Nat /\ logs[i].sid <= Len(logs)
    <3>1. ASSUME NEW i \in 1..Len(logs) PROVE logs[i].sid \in Nat
      <4>1. logs[i] \in Opening
        BY <1>0
      <4> QED BY <4>1 DEF Opening
    <3> QED BY <3>1 DEF LogsInv
  <2>6. LogsInv'
    BY <1>0, <2>3, <2>4, <2>5 DEF LogsInv
  <2>7. ASSUME NEW l, NEW id, Owns(l, id) PROVE Owns(l, id)'
    BY <1>0, <2>3, <2>4, <2>5, <2>7 DEF Owns
  <2> QED BY <2>6, <2>7
<1>2. CASE \E i \in 1..(Len(logs) - 1) : logs' = Append(RemoveAt(logs, i), logs[i])
  <2>1. PICK i \in 1..(Len(logs) - 1) : logs' = Append(RemoveAt(logs, i), logs[i])
    BY <1>2
  <2>2. PICK n : n = Len(logs)
    OBVIOUS
  <2>3. n \in Nat /\ i \in 1..n /\ i # n
    BY <1>0, <2>1, <2>2
  <2>4. PICK before, after : before = SubSeq(logs, 1, i - 1) /\ after = SubSeq(logs, i + 1, n)
    OBVIOUS
  <2>5. /\ before \in Seq(Opening) /\ Len(before) = i - 1
        /\ \A k \in 1..(i - 1) : before[k] = logs[k]
    BY <1>0, <2>2, <2>3, <2>4
  <2>6. /\ after \in Seq(Opening) /\ Len(after) = n - i
        /\ \A k \in 1..(n - i) : after[k] = logs[i + k]
    BY <1>0, <2>2, <2>3, <2>4
  <2>7. PICK rest : rest = before \o after
    OBVIOUS
  <2>8. /\ rest \in Seq(Opening) /\ Len(rest) = n - 1
        /\ \A k \in 1..(n - 1) : rest[k] = IF k < i THEN logs[k] ELSE logs[k + 1]
    <3>1. /\ rest \in Seq(Opening) /\ Len(rest) = (i - 1) + (n - i)
          /\ \A k \in 1..((i - 1) + (n - i)) :
                rest[k] = IF k <= i - 1 THEN before[k] ELSE after[k - (i - 1)]
      <4>1. PICK p, q : p = Len(before) /\ q = Len(after)
        OBVIOUS
      <4>2. p = i - 1 /\ q = n - i
        BY <2>5, <2>6, <4>1
      <4>3. /\ rest \in Seq(Opening) /\ Len(rest) = p + q
            /\ \A k \in 1..(p + q) : rest[k] = IF k <= p THEN before[k] ELSE after[k - p]
        BY <2>5, <2>6, <2>7, <4>1, ConcatProperties
      <4> QED BY <4>2, <4>3
    <3>2. ASSUME NEW k \in 1..(n - 1), ~(k < i) PROVE rest[k] = logs[k + 1]
      <4>1. k - (i - 1) \in 1..(n - i) /\ i + (k - (i - 1)) = k + 1
        BY <2>3, <3>2
      <4>2. after[k - (i - 1)] = logs[k + 1]
        BY <2>6, <4>1
      <4> QED BY <2>3, <3>1, <3>2, <4>2
    <3> QED BY <2>3, <2>5, <3>1, <3>2
  <2>9. logs' = Append(rest, logs[i])
    BY <2>1, <2>2, <2>4, <2>7 DEF RemoveAt
  <2> DEFINE From(k) == IF k < i THEN k ELSE IF k < n THEN k + 1 ELSE i
  <2>10. /\ logs' \in Seq(Opening) /\ Len(logs') = n
         /\ \A k \in 1..n : From(k) \in 1..n /\ logs'[k] = logs[From(k)]
    BY <1>0, <2>2, <2>3, <2>8, <2>9
  <2>11. \A j, k \in 1..n : From(j) = From(k) => j = k
    BY <2>3
  <2> HIDE DEF From
  <2>12. LogsInv'
    <3>1. \A k \in 1..n : logs'[k].sid <= n
      BY <2>2, <2>10 DEF LogsInv
    <3>2. \A j, k \in 1..n : logs'[j].sid = logs'[k].sid => j = k
      <4> SUFFICES ASSUME NEW j \in 1..n, NEW k \in 1..n, logs'[j].sid = logs'[k].sid PROVE j = k
        OBVIOUS
      <4>1. From(j) = From(k)
        BY <2>2, <2>10, SMTT(30) DEF LogsInv
      <4> QED BY <2>11, <4>1
    <3> QED BY <2>10, <3>1, <3>2 DEF LogsInv
  <2>13. ASSUME NEW l, NEW id, Owns(l, id) PROVE Owns(l, id)'
    BY <1>0, <2>2, <2>10, <2>13 DEF Owns
  <2> QED BY <2>12, <2>13
<1> QED BY <1>1, <1>2 DEF Transcript

\* A lane keeps its ids while its agents are not forgotten and no transcript is
\* touched.
LEMMA OwnsStays ==
    ASSUME UNCHANGED logs, \A l \in LaneSet : named[l] \subseteq named'[l],
           NEW l \in LaneSet, NEW id, Owns(l, id)
    PROVE  Owns(l, id)'
  BY DEF Owns

\* The steps of a build.
LEMMA BuildStep ==
    ASSUME DigestInv, BuildBegin \/ Resolve \/ Recovered \/ ReadDigest \/ BuildEnd
    PROVE  DigestInv'
<1>1. CASE BuildBegin
  <2>1. UNCHANGED <<status, logs, session, board, named>>
    BY <1>1 DEF BuildBegin
  <2>2. BuildInv'
    <3>1. Lanes \in Seq(LaneSet)
      BY LaneBoardAssumption DEF LaneSet, Range
    <3>2. build' = [at |-> "resolve", doc |-> doc, status |-> status,
                    tokens |-> [l \in LaneSet |-> Nothing], found |-> <<>>, todo |-> Lanes,
                    wanted |-> {l \in Claude : session[l].id = 0 /\ status[l].agent # "unclaimed"}]
      BY <1>1 DEF BuildBegin
    <3> QED BY <2>1, <3>1, <3>2, LaneBoardAssumption DEF BuildInv, DigestInv
  <2> QED BY <2>1, <2>2 DEF DigestInv, LogsInv, Owns, DigestIsTheLanes
<1>2. CASE Resolve
  <2>1. UNCHANGED <<status, logs, session, board, named>> /\ build.at = "resolve"
    BY <1>2 DEF Resolve
  <2>2. BuildInv
    BY <2>1 DEF DigestInv, NoBuild
  <2>3. PICK found : found = [l \in {x \in build.wanted : OwnedBy(build.status[x].agent) # {}} |->
                                 logs[Max(OwnedBy(build.status[l].agent))].sid]
    OBVIOUS
  <2>4. build' = [build EXCEPT !.at = "recovered", !.found = found]
    BY <1>2, <2>3 DEF Resolve
  <2>5. ASSUME NEW l \in LaneSet \cap DOMAIN found PROVE Owns(l, found[l])
    <3>1. PICK agent : agent = build.status[l].agent
      OBVIOUS
    <3>2. agent \in named[l] /\ OwnedBy(agent) # {} /\ found[l] = logs[Max(OwnedBy(agent))].sid
      BY <2>2, <2>3, <2>5, <3>1 DEF BuildInv
    <3> QED BY <3>2, NewestIsOwn DEF DigestInv
  <2>6. /\ DOMAIN build' = DOMAIN build /\ build'.at = "recovered" /\ build'.found = found
        /\ build'.status = build.status /\ build'.tokens = build.tokens
        /\ build'.todo = build.todo /\ build'.wanted = build.wanted
    BY <2>2, <2>4 DEF BuildInv
  <2>7. \A l \in LaneSet \cap DOMAIN found : Owns(l, found[l])'
    BY <2>1, <2>5, OwnsStays
  <2>8. BuildInv'
    BY <2>1, <2>2, <2>6, <2>7 DEF BuildInv
  <2> QED BY <2>1, <2>8 DEF DigestInv, LogsInv, Owns, DigestIsTheLanes
<1>3. CASE Recovered
  <2>1. UNCHANGED <<status, logs, board, named>> /\ build.at = "recovered"
    BY <1>3 DEF Recovered
  <2>2. BuildInv
    BY <2>1 DEF DigestInv, NoBuild
  <2>3. session' = [l \in LaneSet |-> IF l \in DOMAIN build.found
                                      THEN [session[l] EXCEPT !.id = build.found[l]] ELSE session[l]]
    BY <1>3 DEF Recovered
  <2>4. ASSUME NEW l \in LaneSet PROVE "id" \in DOMAIN session'[l] /\ Owns(l, session'[l].id)
    <3>1. CASE l \in DOMAIN build.found
      <4>1. session'[l] = [session[l] EXCEPT !.id = build.found[l]] /\ "id" \in DOMAIN session[l]
        BY <2>3, <3>1 DEF DigestInv
      <4>2. "id" \in DOMAIN session'[l] /\ session'[l].id = build.found[l]
        BY <4>1
      <4> QED BY <2>1, <2>2, <3>1, <4>2 DEF BuildInv
    <3>2. CASE l \notin DOMAIN build.found
      BY <2>3, <3>2 DEF DigestInv
    <3> QED BY <3>1, <3>2
  <2>5. build' = [build EXCEPT !.at = "digests"]
    BY <1>3 DEF Recovered
  <2>6. /\ DOMAIN build' = DOMAIN build /\ build'.at = "digests"
        /\ build'.status = build.status /\ build'.tokens = build.tokens
        /\ build'.todo = build.todo /\ build'.wanted = build.wanted
    BY <2>2, <2>5 DEF BuildInv
  <2>7. BuildInv'
    BY <2>1, <2>2, <2>6 DEF BuildInv
  <2>8. DOMAIN session' = LaneSet
    BY <2>3
  <2>9. \A l \in LaneSet : ("id" \in DOMAIN session[l] /\ Owns(l, session[l].id))'
    BY <2>1, <2>4 DEF Owns
  <2> QED BY <2>1, <2>7, <2>8, <2>9 DEF DigestInv, LogsInv, DigestIsTheLanes
<1>4. CASE ReadDigest
  <2>1. UNCHANGED <<status, logs, session, board, named>> /\ build.at = "digests" /\ build.todo # <<>>
    BY <1>4 DEF ReadDigest
  <2>2. BuildInv
    BY <2>1 DEF DigestInv, NoBuild
  <2>3. PICK l : l = Head(build.todo)
    OBVIOUS
  <2>4. l \in LaneSet /\ Tail(build.todo) \in Seq(LaneSet)
    BY <2>1, <2>2, <2>3, HeadTailProperties DEF BuildInv
  <2>5. PICK digest : digest = IF l \in Claude THEN ParseSession(session[l].id) ELSE Nothing
    OBVIOUS
  <2>6. digest \in named[l] \cup {Nothing}
    BY <2>4, <2>5, ParsedIsOwn DEF DigestInv
  <2>7. build' = [build EXCEPT !.todo = Tail(@), !.tokens[l] = digest]
    BY <1>4, <2>3, <2>5 DEF ReadDigest
  <2>8. /\ DOMAIN build' = DOMAIN build /\ build'.at = build.at
        /\ build'.status = build.status /\ build'.wanted = build.wanted
        /\ build'.todo = Tail(build.todo) /\ build'.tokens = [build.tokens EXCEPT ![l] = digest]
    BY <2>2, <2>7 DEF BuildInv
  <2>9. BuildInv'
    BY <2>1, <2>2, <2>4, <2>6, <2>8 DEF BuildInv
  <2> QED BY <2>1, <2>9 DEF DigestInv, LogsInv, Owns, DigestIsTheLanes
<1>5. CASE BuildEnd
  <2>1. UNCHANGED <<status, logs, session, named>> /\ build.at = "digests" /\ build' = NoBuild
    BY <1>5 DEF BuildEnd
  <2>2. BuildInv
    BY <2>1 DEF DigestInv, NoBuild
  <2>3. board' = [l \in LaneSet |-> Assembled(l, build.doc, build.status[l], build.tokens[l])]
    BY <1>5 DEF BuildEnd
  <2>4. ASSUME NEW l \in LaneSet PROVE board'[l].tokens = build.tokens[l]
    BY <2>3, RowAgrees
  <2>5. DOMAIN board' = LaneSet /\ DigestIsTheLanes'
    BY <2>1, <2>2, <2>3, <2>4 DEF BuildInv, DigestIsTheLanes
  <2> QED BY <2>1, <2>5 DEF DigestInv, LogsInv, Owns
<1> QED BY <1>1, <1>2, <1>3, <1>4, <1>5

\* A session that is probed, or whose pane dies or is respawned, keeps its id.
LEMMA PaneStep ==
    ASSUME DigestInv, GetLaneState \/ Second \/ PaneDies \/ Respawn
    PROVE  DigestInv'
<1>1. UNCHANGED <<status, logs, build, board, named>>
  BY DEF GetLaneState, Second, PaneDies, Respawn
<1>2. DOMAIN session = LaneSet /\ \A l \in LaneSet : "id" \in DOMAIN session[l]
  BY DEF DigestInv
<1>3. /\ DOMAIN session' = LaneSet
      /\ \A l \in LaneSet : "id" \in DOMAIN session'[l] /\ session'[l].id = session[l].id
  <2>1. CASE GetLaneState
    <3>1. PICK l \in LaneSet :
             session' = [session EXCEPT ![l] =
                IF session[l].fresh THEN session[l]
                ELSE [session[l] EXCEPT !.fresh = TRUE,
                        !.exited_rc = IF session[l].pane = "alive" THEN @ ELSE session[l].pane,
                        !.running = @ /\ session[l].pane = "alive"]]
      BY <2>1 DEF GetLaneState
    <3>2. "id" \in DOMAIN session'[l] /\ session'[l].id = session[l].id
      BY <1>2, <3>1
    <3> QED BY <1>2, <3>1, <3>2
  <2>2. CASE Second
    BY <1>2, <2>2 DEF Second
  <2>3. CASE PaneDies
    <3>1. PICK l \in LaneSet, rc \in {"0", "1"} : session' = [session EXCEPT ![l].pane = rc]
      BY <2>3 DEF PaneDies
    <3> QED BY <1>2, <3>1
  <2>4. CASE Respawn
    <3>1. PICK l \in LaneSet : session' = [session EXCEPT ![l].pane = "alive"]
      BY <2>4 DEF Respawn
    <3> QED BY <1>2, <3>1
  <2> QED BY <2>1, <2>2, <2>3, <2>4
<1>4. \A l \in LaneSet : ("id" \in DOMAIN session[l] /\ Owns(l, session[l].id))'
  BY <1>1, <1>3 DEF DigestInv, Owns
<1>5. BuildInv => BuildInv'
  BY <1>1 DEF BuildInv, Owns
<1> QED BY <1>1, <1>3, <1>4, <1>5 DEF DigestInv, LogsInv, DigestIsTheLanes

\* An edit of a document forgets no agent of a lane.
LEMMA EditStep ==
    ASSUME DigestInv, Edit
    PROVE  DigestInv'
<1>1. UNCHANGED <<logs, session, build, board>>
  BY DEF Edit
<1>2. /\ DOMAIN named' = LaneSet /\ DOMAIN status' = LaneSet
      /\ \A l \in LaneSet : named[l] \subseteq named'[l] /\ status'[l].agent \in named'[l]
  <2>1. CASE UNCHANGED <<status, named>>
    BY <2>1 DEF DigestInv
  <2>2. CASE \E l \in LaneSet, r \in Rows : /\ status' = [status EXCEPT ![l] = r]
                                            /\ named' = [named EXCEPT ![l] = @ \cup {r.agent}]
    BY <2>2 DEF DigestInv
  <2> QED BY <2>1, <2>2 DEF Edit
<1>3. ASSUME NEW l \in LaneSet, NEW id, Owns(l, id) PROVE Owns(l, id)'
  BY <1>1, <1>2, <1>3, OwnsStays
<1>4. ASSUME BuildInv PROVE BuildInv'
  <2>1. build.at = "recovered" => \A l \in LaneSet \cap DOMAIN build.found : Owns(l, build.found[l])'
    <3> SUFFICES ASSUME build.at = "recovered", NEW l \in LaneSet \cap DOMAIN build.found
                 PROVE  Owns(l, build.found[l])'
      OBVIOUS
    <3>1. PICK id : id = build.found[l]
      OBVIOUS
    <3>2. Owns(l, id)
      BY <1>4, <3>1 DEF BuildInv
    <3>3. Owns(l, id)' /\ id = build'.found[l]
      BY <1>1, <1>3, <3>1, <3>2
    <3> QED BY <3>3 DEF Owns
  <2> QED BY <1>1, <1>2, <1>4, <2>1 DEF BuildInv
<1>5. \A l \in LaneSet : "id" \in DOMAIN session[l] /\ Owns(l, session[l].id)'
  <2> SUFFICES ASSUME NEW l \in LaneSet
               PROVE  "id" \in DOMAIN session[l] /\ Owns(l, session[l].id)'
    OBVIOUS
  <2>1. PICK id : id = session[l].id
    OBVIOUS
  <2>2. "id" \in DOMAIN session[l] /\ Owns(l, id)
    BY <2>1 DEF DigestInv
  <2>3. Owns(l, id)' /\ id = session'[l].id
    BY <1>1, <1>3, <2>1, <2>2
  <2> QED BY <2>2, <2>3 DEF Owns
<1>6. DigestIsTheLanes'
  BY <1>1, <1>2 DEF DigestInv, DigestIsTheLanes
<1> QED BY <1>1, <1>2, <1>4, <1>5, <1>6 DEF DigestInv, LogsInv

\* DigestInv is an invariant of the board.
LEMMA DigestInvariant == LaneBoardSpec => []DigestInv
<1>1. LaneBoardInit => DigestInv
  <2> SUFFICES ASSUME LaneBoardInit PROVE DigestInv
    OBVIOUS
  <2>1. LogsInv /\ build = NoBuild
    BY DEF LaneBoardInit, LogsInv
  <2>2. /\ DOMAIN named = LaneSet /\ DOMAIN status = LaneSet
        /\ \A l \in LaneSet : status[l].agent \in named[l]
    BY DEF LaneBoardInit
  <2>3. DOMAIN session = LaneSet /\ \A l \in LaneSet : "id" \in DOMAIN session[l] /\ session[l].id = 0
    BY DEF LaneBoardInit
  <2>4. \A l \in LaneSet : Owns(l, 0)
    BY DEF LaneBoardInit, Owns
  <2>5. DOMAIN board = LaneSet /\ DigestIsTheLanes
    BY DEF LaneBoardInit, NoRow, DigestIsTheLanes
  <2> QED BY <2>1, <2>2, <2>3, <2>4, <2>5 DEF DigestInv
<1>2. ASSUME DigestInv, [LaneBoardNext]_laneBoard PROVE DigestInv'
  <2>1. CASE Transcript
    <3>1. LogsInv' /\ \A l, id : Owns(l, id) => Owns(l, id)'
      BY <1>2, <2>1, TranscriptStep DEF DigestInv
    <3>2. UNCHANGED <<status, session, build, board, named>>
      BY <2>1 DEF Transcript
    <3>3. BuildInv => BuildInv'
      BY <3>1, <3>2 DEF BuildInv
    <3>4. \A l \in LaneSet : "id" \in DOMAIN session[l] /\ Owns(l, session[l].id)'
      <4> SUFFICES ASSUME NEW l \in LaneSet
                   PROVE  "id" \in DOMAIN session[l] /\ Owns(l, session[l].id)'
        OBVIOUS
      <4>1. PICK id : id = session[l].id
        OBVIOUS
      <4>2. "id" \in DOMAIN session[l] /\ Owns(l, id)
        BY <1>2, <4>1 DEF DigestInv
      <4>3. Owns(l, id)' /\ id = session'[l].id
        BY <3>1, <3>2, <4>1, <4>2
      <4> QED BY <4>2, <4>3 DEF Owns
    <3> QED BY <1>2, <3>1, <3>2, <3>3, <3>4 DEF DigestInv, DigestIsTheLanes
  <2>2. CASE UNCHANGED laneBoard
    <3>1. UNCHANGED <<status, session, build, board, named, logs>>
      BY <2>2 DEF laneBoard
    <3> QED BY <1>2, <3>1 DEF DigestInv, BuildInv, LogsInv, Owns, DigestIsTheLanes
  <2> QED BY <1>2, <2>1, <2>2, BuildStep, PaneStep, EditStep DEF LaneBoardNext
<1> QED BY <1>1, <1>2, PTL DEF LaneBoardSpec

\* For any lanes, agents and documents, however rows and transcripts change
\* while a build awaits its threads: the tokens on a lane's row are of an agent
\* of that lane (build_lane_rows, _owning_agent_id).
THEOREM DigestsAreOwn == LaneBoardSpec => []DigestIsTheLanes
<1>1. DigestInv => DigestIsTheLanes
  BY DEF DigestInv
<1> QED BY <1>1, DigestInvariant, PTL

\* For every TASKS.md and STATUS.md the pill of a row and its current activity
\* agree (assemble_lane_rows).
THEOREM PillsAgree == LaneBoardSpec => []PillAndNowAgree
<1>1. LaneBoardInit => PillAndNowAgree
  BY DEF LaneBoardInit, NoRow, PillAndNowAgree
<1>2. ASSUME PillAndNowAgree, [LaneBoardNext]_laneBoard PROVE PillAndNowAgree'
  <2>1. CASE BuildEnd
    <3>1. board' = [l \in LaneSet |-> Assembled(l, build.doc, build.status[l], build.tokens[l])]
      BY <2>1 DEF BuildEnd
    <3>2. ASSUME NEW l \in LaneSet
          PROVE  /\ board'[l].state = "claimed" => board'[l].now # <<>>
                 /\ board'[l].now # <<>> => board'[l].state \in {"claimed", "blocked"}
      <4>1. PICK d, r, tokens : d = build.doc /\ r = build.status[l] /\ tokens = build.tokens[l]
        OBVIOUS
      <4>2. board'[l] = Assembled(l, d, r, tokens)
        BY <3>1, <4>1
      <4>3. PICK row : row = Assembled(l, d, r, tokens)
        OBVIOUS
      <4> QED BY <4>2, <4>3, RowAgrees
    <3> QED BY <3>2 DEF PillAndNowAgree
  <2>2. CASE UNCHANGED board
    BY <1>2, <2>2 DEF PillAndNowAgree
  <2> QED BY <1>2, <2>1, <2>2 DEF LaneBoardNext, laneBoard, BuildBegin, Resolve, Recovered,
             ReadDigest, GetLaneState, Second, PaneDies, Respawn, Edit, Transcript
<1> QED BY <1>1, <1>2, PTL DEF LaneBoardSpec

=============================================================================
