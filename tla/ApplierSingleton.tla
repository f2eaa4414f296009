-------------------------- MODULE ApplierSingleton --------------------------
(***************************************************************************)
(* queue/.applier.lock: the directory that is to keep the applier single.  *)
(* Daemons (Applier.run) and clients whose request nobody drains           *)
(* (_wait_or_drain) acquire it, and everything they do to it is several    *)
(* file operations that interleave.                                        *)
(***************************************************************************)
EXTENDS Naturals, FiniteSets

CONSTANTS
    Daemon, Client,  \* processes, by what they run
    Foreign,         \* those of another user, who may not signal the others
    MaxCrashes       \* bound: how many processes die

Proc == Daemon \cup Client
NoFile == "none"

ASSUME ProcAssumption ==
    /\ Daemon \cap Client = {} /\ Foreign \subseteq Proc
    /\ NoFile \notin Proc /\ MaxCrashes \in Nat

VARIABLES
    dir,   \* the lock directory exists
    pid,   \* the process pid.txt names, NoFile if there is no pid.txt
    beat,  \* heartbeat.txt: NoFile, "fresh" or "stale"
    pc,
    crashes,
    met,    \* history: two processes were in the middle of taking or
            \* releasing the lock at the same time
    crossed \* history: one found the pid of a live process of another user

lockVars == <<dir, pid, beat, pc, crashes, met, crossed>>

Acquiring == {"mkdir", "exists", "read", "clear", "rmdir", "again",
              "writepid", "firstbeat"}
Releasing == {"unclear", "unrmdir"}
Points == Acquiring \cup Releasing
          \cup {"off", "check", "hold", "wait", "done", "dead"}

LockTypeOK ==
    /\ dir \in BOOLEAN
    /\ pid \in Proc \cup {NoFile}
    /\ beat \in {NoFile, "fresh", "stale"}
    /\ pc \in [Proc -> Points]
    /\ crashes \in 0..MaxCrashes
    /\ met \in BOOLEAN /\ crossed \in BOOLEAN
    /\ pid # NoFile \/ beat # NoFile => dir  \* a file needs its directory

LockInit ==
    /\ dir = FALSE /\ pid = NoFile /\ beat = NoFile
    /\ pc = [p \in Proc |-> "off"]
    /\ crashes = 0
    /\ met = FALSE /\ crossed = FALSE

Alive(p) == pc[p] \notin {"dead", "done"}

\* os.kill(pid, 0) raises PermissionError for the process of another user.
MaySignal(p, q) == (p \in Foreign) = (q \in Foreign)

\* Move p on; met records overlapping use of the lock directory, crossed a
\* holder whose life p cannot see.
Go(p, point) ==
    /\ pc' = [pc EXCEPT ![p] = point]
    /\ met' = (met \/ \E q \in Proc \ {p} :
                        /\ point \in Acquiring \cup Releasing
                        /\ pc[q] \in Acquiring \cup Releasing)
    /\ crossed' = (crossed \/ /\ pc[p] = "read" /\ pid # NoFile
                              /\ Alive(pid) /\ ~MaySignal(p, pid))
    /\ UNCHANGED crashes

lockFiles == <<dir, pid, beat>>

-----------------------------------------------------------------------------
\* Applier.run starts with acquire_singleton; _wait_or_drain first looks
\* whether an applier is alive.
StartDaemon(p) ==
    /\ p \in Daemon /\ pc[p] = "off"
    /\ Go(p, "mkdir") /\ UNCHANGED lockFiles

StartClient(p) ==
    /\ p \in Client /\ pc[p] = "off"
    /\ Go(p, "check") /\ UNCHANGED lockFiles

\* _applier_alive: pid.txt and heartbeat.txt exist, the process can be seen to
\* run and the heartbeat is recent.
ApplierAlive(p) == pid # NoFile /\ Alive(pid) /\ MaySignal(p, pid) /\ beat = "fresh"

CheckAlive(p) ==
    /\ pc[p] = "check"
    /\ Go(p, IF ApplierAlive(p) THEN "wait" ELSE "mkdir")
    /\ UNCHANGED lockFiles

\* acquire_singleton returned False: a daemon exits, a client only polls.
Refused(p) == IF p \in Daemon THEN "done" ELSE "wait"

Mkdir(p) ==
    /\ pc[p] = "mkdir"
    /\ dir' = TRUE
    /\ Go(p, IF dir THEN "exists" ELSE "writepid")
    /\ UNCHANGED <<pid, beat>>

PidExists(p) ==
    /\ pc[p] = "exists"
    /\ Go(p, IF pid = NoFile THEN "clear" ELSE "read")
    /\ UNCHANGED lockFiles

\* Mutant: the process behind pid.txt is not probed.
ReadPidUnprobed(p) ==
    /\ pc[p] = "read"
    /\ Go(p, IF pid = NoFile THEN "done" ELSE "clear")
    /\ UNCHANGED lockFiles

\* read_text raises FileNotFoundError, which nobody catches, when pid.txt has
\* gone since exists(). The PermissionError for the process of another user
\* is caught like the ProcessLookupError for a dead one: the lock is stale.
ReadPid(p) ==
    /\ pc[p] = "read"
    /\ Go(p, IF pid = NoFile THEN "done"
             ELSE IF Alive(pid) /\ MaySignal(p, pid) THEN Refused(p) ELSE "clear")
    /\ UNCHANGED lockFiles

\* shutil.rmtree(ignore_errors=True): unlink the files, then remove the
\* directory, which fails if a file has appeared in it. The files of another
\* user stay where the directory's permissions say so.
Clear(p) ==
    /\ pc[p] \in {"clear", "unclear"}
    /\ \/ pid' = NoFile /\ beat' = NoFile
       \/ pid # NoFile /\ ~MaySignal(p, pid) /\ UNCHANGED <<pid, beat>>
    /\ Go(p, IF pc[p] = "clear" THEN "rmdir" ELSE "unrmdir")
    /\ UNCHANGED dir

Rmdir(p) ==
    /\ pc[p] \in {"rmdir", "unrmdir"}
    /\ dir' = (dir /\ (pid # NoFile \/ beat # NoFile))
    /\ Go(p, IF pc[p] = "rmdir" THEN "again" ELSE "done")
    /\ UNCHANGED <<pid, beat>>

MkdirAgain(p) ==
    /\ pc[p] = "again"
    /\ dir' = TRUE
    /\ Go(p, IF dir THEN Refused(p) ELSE "writepid")
    /\ UNCHANGED <<pid, beat>>

\* pid.txt cannot be written into a directory somebody removed.
WritePid(p) ==
    /\ pc[p] = "writepid"
    /\ pid' = IF dir THEN p ELSE pid
    /\ Go(p, IF dir THEN "firstbeat" ELSE "done")
    /\ UNCHANGED <<dir, beat>>

\* start_utc.txt fails like pid.txt; the heartbeat makes the directory again.
FirstBeat(p) ==
    /\ pc[p] = "firstbeat"
    /\ beat' = IF dir THEN "fresh" ELSE beat
    /\ Go(p, IF dir THEN "hold" ELSE "done")
    /\ UNCHANGED <<dir, pid>>

\* drain_once: mkdir(exist_ok=True) and a new heartbeat.txt
Heartbeat(p) ==
    /\ pc[p] = "hold"
    /\ dir' = TRUE /\ beat' = "fresh"
    /\ UNCHANGED <<pid, pc, crashes, met, crossed>>

\* The run or the drain ends: release_singleton removes whatever lock is there.
BeginRelease(p) ==
    /\ pc[p] = "hold"
    /\ Go(p, "unclear") /\ UNCHANGED lockFiles

\* A client that only polls gets its answer or times out.
EndWait(p) ==
    /\ pc[p] = "wait"
    /\ Go(p, "done") /\ UNCHANGED lockFiles

ProcessDies(p) ==
    /\ pc[p] \notin {"off", "done", "dead"} /\ crashes < MaxCrashes
    /\ crashes' = crashes + 1
    /\ pc' = [pc EXCEPT ![p] = "dead"]
    /\ UNCHANGED <<dir, pid, beat, met, crossed>>

\* Time passes without a drain for longer than the heartbeat may be old.
HeartbeatAges ==
    /\ beat = "fresh"
    /\ beat' = "stale"
    /\ UNCHANGED <<dir, pid, pc, crashes, met, crossed>>

LockNext ==
    \/ \E p \in Proc :
        \/ StartDaemon(p) \/ StartClient(p) \/ CheckAlive(p)
        \/ Mkdir(p) \/ PidExists(p) \/ ReadPid(p) \/ Clear(p) \/ Rmdir(p)
        \/ MkdirAgain(p) \/ WritePid(p) \/ FirstBeat(p)
        \/ Heartbeat(p) \/ BeginRelease(p) \/ EndWait(p) \/ ProcessDies(p)
    \/ HeartbeatAges

LockSpec == LockInit /\ [][LockNext]_lockVars

-----------------------------------------------------------------------------
Holders == {p \in Proc : pc[p] = "hold"}

\* What applier.py says of the lock ("Singleton ... mkdir-atomic"): at most
\* one process drains the queue.
MutualExclusion == \A p, q \in Holders : p = q

\* The lock does keep the applier single as long as no two processes were
\* ever taking or releasing it at the same time, and none came upon the live
\* holder of another user, whatever crashed before: a live holder is refused
\* for, a dead one is cleared away.
SingleWhenSerial == ~met /\ ~crossed => MutualExclusion

=============================================================================
