------------------------------ MODULE Narrator ------------------------------
(***************************************************************************)
(* The narrator in the server's lifespan: the runtime is started, then the *)
(* scheduler; at shutdown the scheduler is cancelled and awaited before    *)
(* the runtime is stopped.                                                 *)
(***************************************************************************)
EXTENDS NarratorRuntime, NarrativeBoard

vars == <<runtime, board>>

TypeOK == RuntimeTypeOK /\ NarrativeTypeOK

Init == RuntimeInit /\ NarrativeInit

Startup(child) ==
    /\ StartRuntime(child)
    /\ sched' = "wait"
    /\ UNCHANGED <<watching, count, tickNow, queue, seen, frames, owed>>

ShutdownScheduler ==
    /\ life = "up" /\ sched \notin {"dead", "over"}
    /\ sched' = "over"
    /\ UNCHANGED <<watching, count, tickNow, queue, seen, frames, owed, runtime>>

ShutdownRuntime ==
    /\ life = "up" /\ sched \in {"dead", "over"}
    /\ Cancel
    /\ UNCHANGED board

Next ==
    \/ \E child \in BOOLEAN : Startup(child)
    \/ ShutdownScheduler \/ ShutdownRuntime
    \/ (Outside \/ Supervise \/ StopRuntime) /\ UNCHANGED board
    \/ Schedule(ready) /\ UNCHANGED runtime
    \/ (life = "up" /\ \E w \in Watcher : Watch(w)) /\ UNCHANGED runtime

Spec == Init /\ [][Next]_vars

\* The event loop runs both tasks on; timers and timeouts of theirs end what
\* they wait for.
FairSpec ==
    /\ Spec
    /\ WF_vars(Supervise /\ UNCHANGED board)
    /\ WF_vars(Schedule(ready) /\ UNCHANGED runtime)

=============================================================================
