----------------------------- MODULE Blackboard -----------------------------
(***************************************************************************)
(* The task protocol on the shared directory: agents take a task with      *)
(* scripts/claim.sh, report it in their STATUS.md row, write a finding and *)
(* close the task; the operator signals a lane or reclaims the task of a   *)
(* lane that went silent (POST /api/v1/signal, /api/v1/reclaim).           *)
(*                                                                         *)
(* Agents, the server and the applier are different processes, so every    *)
(* file operation of a claim or a reclaim is a step of its own.  The rows  *)
(* of STATUS.md are written through the queue: a row is replaced as a      *)
(* whole, and the requests for one row are applied in the order in which   *)
(* the server submitted them (same agent, target and intent: the sequence  *)
(* number in the request id decides within one second).                    *)
(***************************************************************************)
EXTENDS Naturals, Sequences

CONSTANTS
    Agent,       \* one per lane; its lane's row of STATUS.md names it
    Task,
    Matches,     \* whose findings _finding_exists_for_task takes for a task's
    None,
    Patient,     \* the operator waits until a lane's requests are applied
    MaxTroubles  \* bound: deaths, signals, and reclaims from the living

ASSUME BoardAssumption ==
    /\ Matches \in [Task -> SUBSET Task]
    /\ \A t \in Task : t \in Matches[t]
    /\ None \notin Agent \cup Task
    /\ {"free", "ownerless"} \cap Agent = {}
    /\ {"idle", "reclaimed"} \cap Task = {}
    /\ Patient \in BOOLEAN
    /\ MaxTroubles \in Nat

VARIABLES
    claim,     \* claims/<task>: "free", "ownerless", or who is in owner.txt
    done,      \* the tasks with claims/<task>/done
    found,     \* the tasks with a finding
    row,       \* the State of each agent's row: a task, "idle" or "reclaimed"
    requests,  \* the STATUS_UPDATEs in the queue, for each row
    pc,        \* where each agent is
    task,      \* the task it is busy with
    op,        \* where the operator's reclaim is
    opLane, opTask, opFound,
    troubles,
    foundThen, \* history: the findings when the reclaim was called
    misjudged  \* history: the tasks reclaimed from a lane that was not dead

docs == <<claim, done, found, row, requests>>
agents == <<pc, task>>
operator == <<op, opLane, opTask, opFound, foundThen, misjudged>>
vars == <<docs, agents, operator, troubles>>

States == Task \cup {"idle", "reclaimed"}

TypeOK ==
    /\ claim \in [Task -> {"free", "ownerless"} \cup Agent]
    /\ done \subseteq {t \in Task : claim[t] # "free"}
    /\ found \subseteq Task
    /\ row \in [Agent -> States]
    /\ requests \in [Agent -> Seq(States)]
    /\ pc \in [Agent -> {"ready", "mkdir", "owner", "lost", "report", "work",
                         "close", "dead"}]
    /\ task \in [Agent -> Task \cup {None}]
    /\ op \in {"idle", "look", "remove", "submit"}
    /\ opLane \in Agent \cup {None}
    /\ opTask \in Task \cup {None}
    /\ opFound \in BOOLEAN
    /\ foundThen \subseteq Task /\ misjudged \subseteq Task
    /\ troubles \in 0..MaxTroubles

Init ==
    /\ claim = [t \in Task |-> "free"]
    /\ done = {} /\ found = {}
    /\ row = [a \in Agent |-> "idle"]
    /\ requests = [a \in Agent |-> <<>>]
    /\ pc = [a \in Agent |-> "ready"]
    /\ task = [a \in Agent |-> None]
    /\ op = "idle" /\ opLane = None /\ opTask = None /\ opFound = FALSE
    /\ foundThen = {} /\ misjudged = {}
    /\ troubles = 0

Goto(a, point) == pc' = [pc EXCEPT ![a] = point]

Trouble == troubles < MaxTroubles /\ troubles' = troubles + 1

GiveUp(a) == Goto(a, "ready") /\ task' = [task EXCEPT ![a] = None]

\* status_update: the new content of a's row
Submit(a, state) == requests' = [requests EXCEPT ![a] = Append(@, state)]

-----------------------------------------------------------------------------
\* claim.sh

\* The directory exists: only its owner is told that it has the task.  An
\* agent chooses among the tasks that are not done.
ClaimSeen(a, t) ==
    /\ pc[a] = "ready" /\ claim[t] # "free" /\ t \notin done
    /\ IF claim[t] = a
       THEN Goto(a, "report") /\ task' = [task EXCEPT ![a] = t]
       ELSE UNCHANGED agents
    /\ UNCHANGED <<docs, operator, troubles>>

ClaimFree(a, t) ==
    /\ pc[a] = "ready" /\ claim[t] = "free"
    /\ Goto(a, "mkdir") /\ task' = [task EXCEPT ![a] = t]
    /\ UNCHANGED <<docs, operator, troubles>>

ClaimMkdir(a) ==
    /\ pc[a] = "mkdir"
    /\ IF claim[task[a]] = "free"
       THEN /\ claim' = [claim EXCEPT ![task[a]] = "ownerless"]
            /\ Goto(a, "owner")
       ELSE Goto(a, "lost") /\ UNCHANGED claim
    /\ UNCHANGED <<done, found, row, requests, task, operator, troubles>>

\* owner.txt cannot be written when the directory is gone again (set -e).
ClaimOwner(a) ==
    /\ pc[a] = "owner"
    /\ IF claim[task[a]] = "free"
       THEN GiveUp(a) /\ UNCHANGED claim
       ELSE /\ claim' = [claim EXCEPT ![task[a]] = a]
            /\ Goto(a, "report") /\ UNCHANGED task
    /\ UNCHANGED <<done, found, row, requests, operator, troubles>>

ClaimLost(a) ==
    /\ pc[a] = "lost"
    /\ IF claim[task[a]] = a
       THEN Goto(a, "report") /\ UNCHANGED task
       ELSE GiveUp(a)
    /\ UNCHANGED <<docs, operator, troubles>>

-----------------------------------------------------------------------------
\* The agent's task

\* POST /api/v1/status/update with "working: <task>"
Report(a) ==
    /\ pc[a] = "report"
    /\ Submit(a, task[a])
    /\ Goto(a, "work")
    /\ UNCHANGED <<claim, done, found, row, task, operator, troubles>>

WriteFinding(a) ==
    /\ pc[a] = "work"
    /\ found' = found \cup {task[a]}
    /\ Goto(a, "close")
    /\ UNCHANGED <<claim, done, row, requests, task, operator, troubles>>

\* The RULE-10 close (see AtomicClose): claims/<task>/done first, which the
\* queue refuses to anyone but the owner, the row last.
Close(a) ==
    /\ pc[a] = "close"
    /\ IF claim[task[a]] = a
       THEN done' = done \cup {task[a]} /\ Submit(a, "idle")
       ELSE UNCHANGED <<done, requests>>
    /\ GiveUp(a)
    /\ UNCHANGED <<claim, found, row, operator, troubles>>

Die(a) ==
    /\ pc[a] # "dead" /\ Trouble
    /\ Goto(a, "dead") /\ task' = [task EXCEPT ![a] = None]
    /\ UNCHANGED <<docs, operator>>

\* respawn of the lane.  The launch file already has the agent's id, so the
\* new process goes by the same name.  It is the server that restarts lanes,
\* and its event loop runs a reclaim without a break.
Restart(a) ==
    /\ pc[a] = "dead" /\ op = "idle"
    /\ GiveUp(a)
    /\ UNCHANGED <<docs, operator, troubles>>

-----------------------------------------------------------------------------
\* The applier

ApplyUpdate(a) ==
    /\ requests[a] # <<>>
    /\ row' = [row EXCEPT ![a] = Head(requests[a])]
    /\ requests' = [requests EXCEPT ![a] = Tail(@)]
    /\ UNCHANGED <<claim, done, found, agents, operator, troubles>>

-----------------------------------------------------------------------------
\* The operator

Settled(a) == Patient => requests[a] = <<>>

\* post_v1_signal: the request repeats the row as it is now, with the signal
\* added to its notes.
Signal(a) ==
    /\ op = "idle" /\ Settled(a) /\ Trouble
    /\ Submit(a, row[a])
    /\ UNCHANGED <<claim, done, found, row, agents, operator>>

\* _finding_exists_for_task compares names: a task id that is part of
\* another one finds the other's findings, too.
FindingExists(t) == Matches[t] \cap found # {}

\* post_v1_reclaim.  A row that is not "working: <task>" is answered with
\* 204.  Nobody looks whether the lane lives: a row that was not updated for
\* a while may be that of a slow worker, too.
ReclaimCall(a) ==
    /\ op = "idle" /\ Settled(a)
    /\ row[a] \in Task
    /\ op' = "look" /\ opLane' = a /\ opTask' = row[a]
    /\ opFound' = FindingExists(row[a])
    /\ foundThen' = found
    /\ IF pc[a] = "dead"
       THEN UNCHANGED <<misjudged, troubles>>
       ELSE misjudged' = misjudged \cup {row[a]} /\ Trouble
    /\ UNCHANGED <<docs, agents>>

\* Mutant: no look at the findings.
ReclaimLookBlind ==
    /\ op = "look"
    /\ op' = "remove"
    /\ UNCHANGED <<docs, agents, opLane, opTask, opFound, foundThen,
                   misjudged, troubles>>

\* reclaim_or_recover looks for a finding itself: with one the task is done,
\* ...
ReclaimLook ==
    /\ op = "look"
    /\ IF FindingExists(opTask)
       THEN /\ claim' = [claim EXCEPT ![opTask] =
                            IF @ = "free" THEN "ownerless" ELSE @]
            /\ done' = done \cup {opTask}
            /\ op' = "submit"
       ELSE op' = "remove" /\ UNCHANGED <<claim, done>>
    /\ UNCHANGED <<found, row, requests, agents, opLane, opTask, opFound,
                   foundThen, misjudged, troubles>>

\* Mutant: an rmtree that ignores its errors.
ReclaimRemoveFails ==
    /\ op = "remove"
    /\ op' = "submit"
    /\ UNCHANGED <<docs, agents, opLane, opTask, opFound, foundThen,
                   misjudged, troubles>>

\* ... without one the directory is removed, whoever owns it.
ReclaimRemove ==
    /\ op = "remove"
    /\ claim' = [claim EXCEPT ![opTask] = "free"]
    /\ done' = done \ {opTask}
    /\ op' = "submit"
    /\ UNCHANGED <<found, row, requests, agents, opLane, opTask, opFound,
                   foundThen, misjudged, troubles>>

\* Mutant: the row keeps the task it was reclaimed from.
ReclaimSubmitKeeps ==
    /\ op = "submit"
    /\ Submit(opLane, row[opLane])
    /\ op' = "idle" /\ opLane' = None /\ opTask' = None /\ opFound' = FALSE
    /\ foundThen' = {}
    /\ UNCHANGED <<claim, done, found, row, agents, misjudged, troubles>>

ReclaimSubmit ==
    /\ op = "submit"
    /\ Submit(opLane, IF opFound THEN "idle" ELSE "reclaimed")
    /\ op' = "idle" /\ opLane' = None /\ opTask' = None /\ opFound' = FALSE
    /\ foundThen' = {}
    /\ UNCHANGED <<claim, done, found, row, agents, misjudged, troubles>>

-----------------------------------------------------------------------------
ReclaimStep == ReclaimLook \/ ReclaimRemove \/ ReclaimSubmit

ReclaimDead(a) == pc[a] = "dead" /\ ReclaimCall(a)

AgentStep(a) ==
    \/ \E t \in Task : ClaimSeen(a, t) \/ ClaimFree(a, t)
    \/ ClaimMkdir(a) \/ ClaimOwner(a) \/ ClaimLost(a)
    \/ Report(a) \/ WriteFinding(a) \/ Close(a)

Next ==
    \/ ReclaimStep
    \/ \E a \in Agent :
        \/ AgentStep(a) \/ Die(a) \/ Restart(a)
        \/ ApplyUpdate(a) \/ Signal(a) \/ ReclaimCall(a)

Spec == Init /\ [][Next]_vars

\* The applier drains the queue (EveryRequestAnswered of QueueApplier), a
\* reclaim that was called ends, and the operator, who scans every row in
\* every tick (RULE 6), comes to each lane that stays silent.
FairSpec ==
    /\ Spec
    /\ WF_vars(ReclaimStep)
    /\ \A a \in Agent : WF_vars(ReclaimDead(a)) /\ WF_vars(ApplyUpdate(a))

-----------------------------------------------------------------------------
Working(a, t) == pc[a] \in {"report", "work", "close"} /\ task[a] = t

\* RULE 2: exit 0 of claim.sh means that one owns the task.  No two live
\* agents work on the same task, although the claim of a dead agent is
\* removed and made again, and the reclaim reads STATUS.md, which lags behind
\* the claims; a reclaim that takes a slow worker for a dead one costs this
\* promise for the task it was about, and for no other.
OneWorker ==
    \A a, b \in Agent : \A t \in Task \ misjudged :
        Working(a, t) /\ Working(b, t) => a = b

\* RULE 6: work that is there is recovered, not thrown away.  A reclaim never
\* removes the claim of a task that had a finding when it was called.
WorkIsRecovered ==
    [][\A t \in Task : claim[t] # "free" /\ claim'[t] = "free"
            => t \notin foundThen]_vars

OwnerIsDead(t) == claim[t] \in Agent /\ pc[claim[t]] = "dead"

\* A task whose owner died is done or can be claimed again in the end, once
\* the owner's row says that it is working on it and no other content for the
\* row is on its way, from the agent, a signal or a reclaim, unless the agent
\* is back.
DeadClaimIsFreed ==
    \A t \in Task :
        (/\ OwnerIsDead(t) /\ op = "idle"
         /\ row[claim[t]] = t /\ requests[claim[t]] = <<>>) ~> (t \in done \/ ~OwnerIsDead(t))

=============================================================================
