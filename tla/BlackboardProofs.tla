-------------------------- MODULE BlackboardProofs --------------------------
(***************************************************************************)
(* The task protocol for any number of agents and tasks, any number of     *)
(* deaths and signals, and any matching of findings to tasks.              *)
(***************************************************************************)
EXTENDS Blackboard, SequenceTheorems, TLAPS

Points == {"ready", "mkdir", "owner", "lost", "report", "work", "close", "dead"}

\* TypeOK, and what the points of the agents and of a reclaim imply for the
\* tasks and lanes they are about.
BoardType ==
    /\ TypeOK
    /\ \A a \in Agent : pc[a] \notin {"ready", "dead"} => task[a] \in Task
    /\ op # "idle" => opLane \in Agent /\ opTask \in Task

\* What the row of an agent says once its requests are applied.
Final(a) == IF requests[a] = <<>> THEN row[a] ELSE requests[a][Len(requests[a])]

\* Who works on a task owns its claim, and mkdir let one agent in, as far as
\* nobody reclaimed the task from a living agent.
ClaimInv ==
    /\ \A a \in Agent : pc[a] \in {"report", "work", "close"} /\ task[a] \notin misjudged
            => claim[task[a]] = a
    /\ \A a \in Agent : pc[a] = "owner" /\ task[a] \notin misjudged
            => claim[task[a]] = "ownerless"
    /\ \A a, b \in Agent :
            /\ pc[a] = "owner" /\ pc[b] = "owner" /\ task[a] = task[b]
            /\ task[a] \notin misjudged
            => a = b

\* A row that will say that its agent works on a task is right about the
\* claim, except between the removal of the claim and the request that says
\* so; a reclaim is about such a row, of an agent that stays dead. Again but
\* for tasks that were reclaimed from the living.
RowInv ==
    /\ \A a \in Agent :
            Final(a) \in Task \ misjudged /\ ~(op = "submit" /\ opLane = a)
            => claim[Final(a)] = a
    /\ op # "idle" /\ opTask \notin misjudged => pc[opLane] = "dead"
    /\ op \in {"look", "remove"} /\ opTask \notin misjudged => Final(opLane) = opTask

ProtocolInv == ClaimInv /\ RowInv

\* A reclaim that is to remove a claim found no finding for the task when it
\* was called: the findings only become more.
RecoverInv ==
    /\ op # "idle" => foundThen \subseteq found
    /\ op = "remove" => opTask \notin foundThen

-----------------------------------------------------------------------------
\* What one update of an agent's point, of its task and of a claim changes.
LEMMA Went ==
    ASSUME BoardType, NEW a \in Agent, NEW point \in Points, Goto(a, point)
    PROVE  /\ pc' \in [Agent -> Points] /\ pc'[a] = point
           /\ \A b \in Agent : b # a => pc'[b] = pc[b]
  BY DEF BoardType, TypeOK, Points, Goto

\* An agent that takes up a task changes its own entry only.
LEMMA Took ==
    ASSUME BoardType, NEW a \in Agent, NEW t \in Task \cup {None},
           task' = [task EXCEPT ![a] = t]
    PROVE  /\ task' \in [Agent -> Task \cup {None}] /\ task'[a] = t
           /\ \A b \in Agent : b # a => task'[b] = task[b]
  BY DEF BoardType, TypeOK

\* A write to claims/<t> changes that claim only.
LEMMA Claimed ==
    ASSUME BoardType, NEW t \in Task, NEW v \in {"free", "ownerless"} \cup Agent,
           claim' = [claim EXCEPT ![t] = v]
    PROVE  /\ claim' \in [Task -> {"free", "ownerless"} \cup Agent] /\ claim'[t] = v
           /\ \A u \in Task : u # t => claim'[u] = claim[u]
  BY DEF BoardType, TypeOK

\* An agent that gives up is ready again, without a task; the others stay.
LEMMA GaveUp ==
    ASSUME BoardType, NEW a \in Agent, GiveUp(a)
    PROVE  /\ pc' \in [Agent -> Points] /\ pc'[a] = "ready"
           /\ task' \in [Agent -> Task \cup {None}]
           /\ \A b \in Agent : b # a => pc'[b] = pc[b] /\ task'[b] = task[b]
<1>1. Goto(a, "ready") /\ task' = [task EXCEPT ![a] = None]
  BY DEF GiveUp
<1> QED BY <1>1, Went, Took DEF Points

\* No step of an agent, of the applier or of the operator breaks a type.
LEMMA BoardTypeStep ==
    ASSUME BoardType, [Next]_vars
    PROVE  BoardType'
<1> USE BoardAssumption DEF BoardType, TypeOK, States, Points, docs, agents, operator
<1>1. CASE ReclaimLook
  <2>1. CASE FindingExists(opTask)
    <3> DEFINE v == IF claim[opTask] = "free" THEN "ownerless" ELSE claim[opTask]
    <3>1. claim' = [claim EXCEPT ![opTask] = v] /\ done' = done \cup {opTask} /\ op' = "submit"
      BY <1>1, <2>1, Zenon DEF ReclaimLook
    <3>2. v \in {"free", "ownerless"} \cup Agent /\ v # "free" /\ opTask \in Task
      BY <1>1 DEF ReclaimLook
    <3> HIDE DEF v
    <3>3. /\ claim' \in [Task -> {"free", "ownerless"} \cup Agent] /\ claim'[opTask] = v
          /\ \A u \in Task : u # opTask => claim'[u] = claim[u]
      BY <3>1, <3>2, Claimed
    <3> QED BY <1>1, <3>1, <3>2, <3>3 DEF ReclaimLook
  <2>2. CASE ~FindingExists(opTask)
    BY <1>1, <2>2 DEF ReclaimLook
  <2> QED BY <2>1, <2>2
<1>2. CASE ReclaimRemove
  BY <1>2 DEF ReclaimRemove
<1>3. CASE ReclaimSubmit
  <2>1. requests' \in [Agent -> Seq(States)]
    <3>1. (IF opFound THEN "idle" ELSE "reclaimed") \in States
      BY DEF States
    <3> HIDE DEF States
    <3> QED BY <1>3, <3>1 DEF ReclaimSubmit, Submit
  <2> QED BY <1>3, <2>1 DEF ReclaimSubmit
<1>4. ASSUME NEW a \in Agent, ReclaimCall(a) PROVE BoardType'
  <2>1. opFound' \in BOOLEAN
    BY <1>4, Zenon DEF ReclaimCall, FindingExists
  <2>2. misjudged' \subseteq Task /\ troubles' \in 0..MaxTroubles
    <3>1. CASE pc[a] = "dead"
      BY <1>4, <3>1 DEF ReclaimCall
    <3>2. CASE pc[a] # "dead"
      BY <1>4, <3>2 DEF ReclaimCall, Trouble
    <3> QED BY <3>1, <3>2
  <2> QED BY <1>4, <2>1, <2>2 DEF ReclaimCall
<1>5. ASSUME NEW a \in Agent, ClaimMkdir(a) PROVE BoardType'
  BY <1>5, ZenonT(40) DEF ClaimMkdir, Goto
<1>6. ASSUME NEW a \in Agent, ClaimOwner(a) PROVE BoardType'
  <2>0. pc[a] = "owner" /\ task[a] \in Task
    BY <1>6 DEF ClaimOwner
  <2>1. CASE claim[task[a]] = "free"
    <3>1. GiveUp(a) /\ UNCHANGED claim
      BY <1>6, <2>1, Zenon DEF ClaimOwner
    <3> QED BY <1>6, <3>1, GaveUp DEF ClaimOwner
  <2>2. CASE claim[task[a]] # "free"
    <3>1. claim' = [claim EXCEPT ![task[a]] = a] /\ Goto(a, "report") /\ UNCHANGED task
      BY <1>6, <2>2, Zenon DEF ClaimOwner
    <3>2. /\ claim' \in [Task -> {"free", "ownerless"} \cup Agent] /\ claim'[task[a]] = a
          /\ \A u \in Task : u # task[a] => claim'[u] = claim[u]
      BY <2>0, <3>1, Claimed
    <3> QED BY <1>6, <2>0, <3>1, <3>2, Went DEF ClaimOwner
  <2> QED BY <2>1, <2>2
<1>7. ASSUME NEW a \in Agent, ClaimLost(a) PROVE BoardType'
  <2>1. CASE claim[task[a]] = a
    BY <1>7, <2>1, ZenonT(40) DEF ClaimLost, Goto, GiveUp
  <2>2. CASE claim[task[a]] # a
    BY <1>7, <2>2, ZenonT(40) DEF ClaimLost, Goto, GiveUp
  <2> QED BY <2>1, <2>2
<1>8. ASSUME NEW a \in Agent, Report(a) PROVE BoardType'
  BY <1>8 DEF Report, Submit, Goto
<1>9. ASSUME NEW a \in Agent, WriteFinding(a) PROVE BoardType'
  BY <1>9 DEF WriteFinding, Goto
<1>10. ASSUME NEW a \in Agent, Close(a) PROVE BoardType'
  <2>1. GiveUp(a)
    BY <1>10 DEF Close
  <2>2. CASE claim[task[a]] = a
    <3>1. done' = done \cup {task[a]} /\ Submit(a, "idle")
      BY <1>10, <2>2, Zenon DEF Close
    <3>2. requests' \in [Agent -> Seq(States)]
      BY <3>1 DEF Submit
    <3>3. done' \subseteq {t \in Task : claim[t] # "free"}
      <4>1. task[a] \in Task /\ claim[task[a]] # "free"
        BY <1>10, <2>2 DEF Close
      <4> QED BY <3>1, <4>1
    <3> QED BY <1>10, <2>1, <3>2, <3>3, GaveUp DEF Close
  <2>3. CASE claim[task[a]] # a
    <3>1. UNCHANGED <<done, requests>>
      BY <1>10, <2>3, Zenon DEF Close
    <3> QED BY <1>10, <2>1, <3>1, GaveUp DEF Close
  <2> QED BY <2>2, <2>3
<1>11. ASSUME NEW a \in Agent, Die(a) PROVE BoardType'
  BY <1>11 DEF Die, Goto, Trouble
<1>12. ASSUME NEW a \in Agent, Restart(a) PROVE BoardType'
  BY <1>12 DEF Restart, Goto, GiveUp
<1>13. ASSUME NEW a \in Agent, ApplyUpdate(a) PROVE BoardType'
  BY <1>13 DEF ApplyUpdate
<1>14. ASSUME NEW a \in Agent, Signal(a) PROVE BoardType'
  BY <1>14 DEF Signal, Submit, Trouble
<1>15. ASSUME NEW a \in Agent, NEW t \in Task, ClaimSeen(a, t)
      PROVE  BoardType'
  <2>1. CASE claim[t] = a
    <3>1. Goto(a, "report") /\ task' = [task EXCEPT ![a] = t]
      BY <1>15, <2>1, Zenon DEF ClaimSeen
    <3>2. /\ task' \in [Agent -> Task \cup {None}] /\ task'[a] = t
          /\ \A b \in Agent : b # a => task'[b] = task[b]
      BY <3>1, Took
    <3> QED BY <1>15, <3>1, <3>2, Went DEF ClaimSeen
  <2>2. CASE claim[t] # a
    BY <1>15, <2>2 DEF ClaimSeen
  <2> QED BY <2>1, <2>2
<1>16. ASSUME NEW a \in Agent, NEW t \in Task, ClaimFree(a, t)
      PROVE  BoardType'
  BY <1>16 DEF ClaimFree, Goto
<1>17. CASE UNCHANGED vars
  BY <1>17 DEF vars
<1> HIDE BoardAssumption DEF BoardType, TypeOK, States, Points, docs, agents, operator
<1> QED
  BY <1>1, <1>2, <1>3, <1>4, <1>5, <1>6, <1>7, <1>8, <1>9, <1>10,
     <1>11, <1>12, <1>13, <1>14, <1>15, <1>16, <1>17 DEF Next, ReclaimStep, AgentStep

\* The last element of a sequence is the last one of its tail, if any.
LEMMA LastOfTail ==
    ASSUME NEW S, NEW q \in Seq(S), q # <<>>
    PROVE  q[Len(q)] = IF Tail(q) = <<>> THEN Head(q) ELSE Tail(q)[Len(Tail(q))]
<1>1. /\ Tail(q) \in Seq(S) /\ Len(Tail(q)) = Len(q) - 1 /\ Len(q) \in Nat \ {0}
      /\ \A i \in 1..Len(Tail(q)) : Tail(q)[i] = q[i + 1]
  BY HeadTailProperties, EmptySeq
<1>2. CASE Tail(q) = <<>>
  <2>1. Len(Tail(q)) = 0
    BY <1>2, EmptySeq, Zenon
  <2>2. Len(q) = 1
    <3> DEFINE n == Len(Tail(q))
    <3>1. n = 0 /\ n = Len(q) - 1 /\ Len(q) \in Nat
      BY <1>1, <2>1, Zenon
    <3> HIDE DEF n
    <3> QED BY <3>1
  <2>3. Head(q) = q[1]
    BY HeadTailProperties
  <2> QED BY <1>2, <2>2, <2>3
<1>3. CASE Tail(q) # <<>>
  <2>1. Len(Tail(q)) \in Nat \ {0}
    BY <1>1, <1>3, EmptySeq
  <2>2. Tail(q)[Len(Tail(q))] = q[Len(Tail(q)) + 1]
    BY <1>1, <2>1
  <2> QED BY <1>1, <1>3, <2>2
<1> QED BY <1>2, <1>3

\* What a request adds to the end of a row's queue, and what applying the
\* first one leaves.
LEMMA FinalSubmit ==
    ASSUME BoardType, NEW a \in Agent, NEW s \in States, Submit(a, s), row' = row
    PROVE  Final(a)' = s /\ \A b \in Agent : b # a => Final(b)' = Final(b)
<1>1. requests \in [Agent -> Seq(States)]
  BY DEF BoardType, TypeOK
<1>2. requests'[a] = Append(requests[a], s)
  BY <1>1 DEF Submit
<1>3. \A b \in Agent : b # a => requests'[b] = requests[b]
  BY <1>1 DEF Submit
<1>4. requests'[a] # <<>> /\ requests'[a][Len(requests'[a])] = s
  <2>1. requests[a] \in Seq(States)
    BY <1>1
  <2> QED BY <1>2, <2>1, AppendProperties
<1> QED BY <1>3, <1>4 DEF Final

\* Applying a queued update does not change what the row will be in the end.
LEMMA FinalApply ==
    ASSUME BoardType, NEW a \in Agent, ApplyUpdate(a)
    PROVE  \A b \in Agent : Final(b)' = Final(b)
<1>1. requests \in [Agent -> Seq(States)] /\ row \in [Agent -> States]
  BY DEF BoardType, TypeOK
<1>2. requests'[a] = Tail(requests[a]) /\ row'[a] = Head(requests[a])
  BY <1>1 DEF ApplyUpdate
<1>3. \A b \in Agent : b # a => requests'[b] = requests[b] /\ row'[b] = row[b]
  BY <1>1 DEF ApplyUpdate
<1>4. Final(a)' = Final(a)
  <2>1. requests[a] \in Seq(States) /\ requests[a] # <<>>
    BY <1>1 DEF ApplyUpdate
  <2> QED BY <1>2, <2>1, LastOfTail DEF Final
<1> QED BY <1>3, <1>4 DEF Final

\* What the row will be in the end depends on the row and its requests only.
LEMMA FinalSame ==
    ASSUME UNCHANGED <<row, requests>>
    PROVE  \A b \in Agent : Final(b)' = Final(b)
  BY DEF Final

\* An agent that moves without touching a claim keeps ClaimInv if it owns
\* the claim it goes on to work under.
LEMMA ClaimKept ==
    ASSUME ClaimInv, UNCHANGED <<claim, misjudged>>, NEW a \in Agent,
           \A b \in Agent : b # a => pc'[b] = pc[b] /\ task'[b] = task[b],
           pc'[a] # "owner",
           pc'[a] \in {"report", "work", "close"} /\ task'[a] \notin misjudged
                => claim[task'[a]] = a
    PROVE  ClaimInv'
  BY DEF ClaimInv

\* A step that leaves the claims, the reclaim and what the rows will say
\* keeps RowInv if a dead lane that is being reclaimed stays dead.
LEMMA RowKept ==
    ASSUME RowInv, BoardType, UNCHANGED <<claim, misjudged, op, opLane, opTask>>,
           \A b \in Agent : Final(b)' = Final(b),
           op # "idle" /\ opTask \notin misjudged => pc'[opLane] = "dead"
    PROVE  RowInv'
  BY DEF RowInv, BoardType

\* With a patient operator no step takes a claim away from an agent that
\* works under it.
LEMMA ProtocolStep ==
    ASSUME Patient, BoardType, ProtocolInv, [Next]_vars
    PROVE  ProtocolInv'
<1>0. ClaimInv /\ RowInv
  BY DEF ProtocolInv
<1> USE <1>0, BoardAssumption DEF docs, agents, operator
<1>1. CASE ReclaimLook
  <2>1. \A b \in Agent : Final(b)' = Final(b)
    BY <1>1, FinalSame DEF ReclaimLook
  <2>2. /\ op = "look" /\ opTask \in Task /\ opLane \in Agent
        /\ opTask \notin misjudged => pc[opLane] = "dead" /\ Final(opLane) = opTask
    BY <1>1 DEF ReclaimLook, BoardType, RowInv
  <2>3. opTask \notin misjudged => claim[opTask] = opLane /\ opLane # "free"
    BY <2>2 DEF RowInv
  <2>4. \A t \in Task : t \notin misjudged => claim'[t] = claim[t]
    <3>1. CASE FindingExists(opTask)
      <4>1. PICK v : v = IF claim[opTask] = "free" THEN "ownerless" ELSE claim[opTask]
        OBVIOUS
      <4>2. claim' = [claim EXCEPT ![opTask] = v]
        BY <1>1, <3>1, <4>1, Zenon DEF ReclaimLook
      <4>3. \A t \in Task : t # opTask => claim'[t] = claim[t]
        BY <2>2, <4>2 DEF BoardType, TypeOK
      <4>4. opTask \notin misjudged => claim'[opTask] = claim[opTask]
        BY <2>2, <2>3, <4>1, <4>2 DEF BoardType, TypeOK
      <4> QED BY <4>3, <4>4
    <3>2. CASE ~FindingExists(opTask)
      BY <1>1, <3>2 DEF ReclaimLook
    <3> QED BY <3>1, <3>2
  <2>5. op' \in {"submit", "remove"} /\ UNCHANGED <<pc, task, opLane, opTask, misjudged>>
    BY <1>1 DEF ReclaimLook
  <2>6. ClaimInv'
    BY <2>4, <2>5 DEF ClaimInv, BoardType
  <2>7. RowInv'
    <3>1. ASSUME NEW b \in Agent, Final(b)' \in Task \ misjudged PROVE claim'[Final(b)'] = b
      BY <2>1, <2>2, <2>4, <3>1 DEF RowInv
    <3> QED BY <2>1, <2>2, <2>5, <3>1 DEF RowInv
  <2> QED BY <2>6, <2>7 DEF ProtocolInv
<1>2. CASE ReclaimRemove
  <2>1. \A b \in Agent : Final(b)' = Final(b)
    BY <1>2, FinalSame DEF ReclaimRemove
  <2>2. /\ op = "remove" /\ opTask \in Task /\ opLane \in Agent /\ op' = "submit"
        /\ opTask \notin misjudged => pc[opLane] = "dead" /\ Final(opLane) = opTask
    BY <1>2 DEF ReclaimRemove, BoardType, RowInv
  <2>3. opTask \notin misjudged => claim[opTask] = opLane
    BY <2>2 DEF RowInv
  <2>4. claim'[opTask] = "free" /\ \A u \in Task : u # opTask => claim'[u] = claim[u]
    BY <1>2, <2>2, Claimed DEF ReclaimRemove
  <2>5. UNCHANGED <<pc, task, opLane, opTask, misjudged>>
    BY <1>2 DEF ReclaimRemove
  <2>6. \A b \in Agent :
            pc[b] \in {"owner", "report", "work", "close"} /\ task[b] \notin misjudged
            => task[b] \in Task /\ task[b] # opTask
    BY <2>2, <2>3 DEF ClaimInv, BoardType
  <2>7. ClaimInv'
    BY <2>4, <2>5, <2>6 DEF ClaimInv
  <2>8. RowInv'
    <3>1. ASSUME NEW b \in Agent, Final(b)' \in Task \ misjudged, b # opLane
          PROVE  claim'[Final(b)'] = b
      BY <2>1, <2>2, <2>3, <2>4, <3>1 DEF RowInv
    <3> QED BY <2>2, <2>5, <3>1 DEF RowInv
  <2> QED BY <2>7, <2>8 DEF ProtocolInv
<1>3. CASE ReclaimSubmit
  <2>1. /\ op = "submit" /\ op' = "idle" /\ UNCHANGED <<claim, row, pc, task, misjudged>>
        /\ opLane \in Agent
    BY <1>3 DEF ReclaimSubmit, BoardType
  <2>2. PICK a \in Agent, s \in {"idle", "reclaimed"} : a = opLane /\ Submit(a, s)
    BY <1>3, <2>1 DEF ReclaimSubmit
  <2>3. s \in States /\ s \notin Task
    BY DEF States
  <2>4. Final(a)' = s /\ \A b \in Agent : b # a => Final(b)' = Final(b)
    BY <2>1, <2>2, <2>3, FinalSubmit
  <2>5. ClaimInv'
    BY <2>1 DEF ClaimInv
  <2>6. ASSUME NEW b \in Agent, Final(b)' \in Task \ misjudged
        PROVE  claim'[Final(b)'] = b
    <3>1. b # a /\ Final(b)' = Final(b)
      BY <2>3, <2>4, <2>6
    <3> QED BY <2>1, <2>2, <2>6, <3>1 DEF RowInv
  <2>7. RowInv'
    BY <2>1, <2>6 DEF RowInv
  <2> QED BY <2>5, <2>7 DEF ProtocolInv
<1>4. ASSUME NEW a \in Agent, ReclaimCall(a) PROVE ProtocolInv'
  <2>1. \A b \in Agent : Final(b)' = Final(b)
    BY <1>4, FinalSame DEF ReclaimCall
  <2>2. op = "idle" /\ op' = "look" /\ opLane' = a /\ opTask' = row[a]
    BY <1>4 DEF ReclaimCall
  <2>3. Final(a) = row[a]
    BY <1>4 DEF ReclaimCall, Settled, Final
  <2>4. UNCHANGED <<claim, pc, task>>
    BY <1>4 DEF ReclaimCall
  <2>5. misjudged \subseteq misjudged' /\ (pc[a] # "dead" => row[a] \in misjudged')
    BY <1>4 DEF ReclaimCall
  <2>6. ClaimInv'
    BY <2>4, <2>5 DEF ClaimInv
  <2>7. \A b \in Agent : Final(b)' \in Task \ misjudged' => claim'[Final(b)'] = b
    BY <2>1, <2>2, <2>4, <2>5 DEF RowInv
  <2>8. RowInv'
    <3>1. Final(a)' = opTask' /\ (opTask' \notin misjudged' => pc'[a] = "dead")
      BY <2>1, <2>2, <2>3, <2>4, <2>5
    <3>2. Final(opLane)' = opTask'
      BY <2>2, <3>1 DEF Final
    <3> QED BY <2>2, <2>7, <3>1, <3>2 DEF RowInv
  <2> QED BY <2>6, <2>8 DEF ProtocolInv
<1>5. ASSUME NEW a \in Agent, ClaimMkdir(a) PROVE ProtocolInv'
  <2>1. \A b \in Agent : Final(b)' = Final(b)
    BY <1>5, FinalSame DEF ClaimMkdir
  <2>2. pc[a] = "mkdir" /\ task[a] \in Task /\ UNCHANGED <<task, misjudged, op, opLane, opTask>>
    BY <1>5 DEF ClaimMkdir, BoardType
  <2>3. CASE claim[task[a]] = "free"
    <3>1. claim' = [claim EXCEPT ![task[a]] = "ownerless"] /\ Goto(a, "owner")
      BY <1>5, <2>3, Zenon DEF ClaimMkdir
    <3>2. /\ claim'[task[a]] = "ownerless"
          /\ \A u \in Task : u # task[a] => claim'[u] = claim[u]
      BY <2>2, <3>1, Claimed
    <3>3. pc'[a] = "owner" /\ \A b \in Agent : b # a => pc'[b] = pc[b]
      BY <3>1, Went DEF Points
    <3>4. \A b \in Agent : pc[b] \in {"owner", "report", "work", "close"} /\ task[b] \notin misjudged
              => task[b] \in Task /\ task[b] # task[a]
      BY <2>3 DEF ClaimInv, BoardType
    <3>5. ClaimInv'
      BY <2>2, <3>2, <3>3, <3>4 DEF ClaimInv
    <3>6. \A b \in Agent : Final(b) \in Task \ misjudged /\ ~(op = "submit" /\ opLane = b)
              => claim'[Final(b)] = b
      BY <2>3, <3>2 DEF RowInv
    <3>7. RowInv'
      BY <2>1, <2>2, <3>3, <3>6 DEF RowInv, BoardType
    <3> QED BY <3>5, <3>7 DEF ProtocolInv
  <2>4. CASE claim[task[a]] # "free"
    <3>1. Goto(a, "lost") /\ UNCHANGED claim
      BY <1>5, <2>4, Zenon DEF ClaimMkdir
    <3>2. pc'[a] = "lost" /\ \A b \in Agent : b # a => pc'[b] = pc[b]
      BY <3>1, Went DEF Points
    <3>3. ClaimInv'
      BY <2>2, <3>1, <3>2, ClaimKept
    <3>4. op # "idle" /\ opTask \notin misjudged => pc'[opLane] = "dead"
      BY <2>2, <3>2 DEF RowInv, BoardType
    <3>5. RowInv'
      BY <2>1, <2>2, <3>1, <3>4, RowKept
    <3> QED BY <3>3, <3>5 DEF ProtocolInv
  <2> QED BY <2>3, <2>4
<1>6. ASSUME NEW a \in Agent, ClaimOwner(a) PROVE ProtocolInv'
  <2>1. \A b \in Agent : Final(b)' = Final(b)
    BY <1>6, FinalSame DEF ClaimOwner
  <2>2. /\ pc[a] = "owner" /\ task[a] \in Task
        /\ task[a] \notin misjudged => claim[task[a]] = "ownerless"
        /\ UNCHANGED <<misjudged, op, opLane, opTask>>
    BY <1>6 DEF ClaimOwner, BoardType, ClaimInv
  <2>3. CASE claim[task[a]] = "free"
    <3>1. GiveUp(a) /\ UNCHANGED claim
      BY <1>6, <2>3, Zenon DEF ClaimOwner
    <3>2. /\ pc'[a] = "ready"
          /\ \A b \in Agent : b # a => pc'[b] = pc[b] /\ task'[b] = task[b]
      BY <3>1, GaveUp
    <3>3. ClaimInv'
      BY <2>2, <3>1, <3>2, ClaimKept
    <3>4. op # "idle" /\ opTask \notin misjudged => pc'[opLane] = "dead"
      BY <2>2, <3>2 DEF RowInv, BoardType
    <3>5. RowInv'
      BY <2>1, <2>2, <3>1, <3>4, RowKept
    <3> QED BY <3>3, <3>5 DEF ProtocolInv
  <2>4. CASE claim[task[a]] # "free"
    <3>1. claim' = [claim EXCEPT ![task[a]] = a] /\ Goto(a, "report") /\ UNCHANGED task
      BY <1>6, <2>4, Zenon DEF ClaimOwner
    <3>2. claim'[task[a]] = a /\ \A u \in Task : u # task[a] => claim'[u] = claim[u]
      BY <2>2, <3>1, Claimed
    <3>3. pc'[a] = "report" /\ \A b \in Agent : b # a => pc'[b] = pc[b]
      BY <3>1, Went DEF Points
    <3>4. \A b \in Agent :
              /\ b # a /\ pc[b] \in {"owner", "report", "work", "close"}
              /\ task[b] \notin misjudged
              => task[b] \in Task /\ task[b] # task[a]
      BY <2>2 DEF ClaimInv, BoardType
    <3>5. ClaimInv'
      BY <2>2, <3>1, <3>2, <3>3, <3>4 DEF ClaimInv
    <3>6. \A b \in Agent :
              Final(b) \in Task \ misjudged /\ ~(op = "submit" /\ opLane = b)
              => claim'[Final(b)] = b
      BY <2>2, <3>2 DEF RowInv
    <3>7. RowInv'
      BY <2>1, <2>2, <3>3, <3>6 DEF RowInv, BoardType
    <3> QED BY <3>5, <3>7 DEF ProtocolInv
  <2> QED BY <2>3, <2>4
<1>7. ASSUME NEW a \in Agent, ClaimLost(a) PROVE ProtocolInv'
  <2>1. \A b \in Agent : Final(b)' = Final(b)
    BY <1>7, FinalSame DEF ClaimLost
  <2>2. pc[a] = "lost" /\ UNCHANGED <<claim, misjudged, op, opLane, opTask>>
    BY <1>7 DEF ClaimLost
  <2>3. ClaimInv' /\ \A b \in Agent : b # a => pc'[b] = pc[b]
    <3>1. CASE claim[task[a]] = a
      <4>1. Goto(a, "report") /\ UNCHANGED task
        BY <1>7, <3>1, Zenon DEF ClaimLost
      <4>2. pc'[a] = "report" /\ \A b \in Agent : b # a => pc'[b] = pc[b]
        BY <4>1, Went DEF Points
      <4> QED BY <2>2, <3>1, <4>1, <4>2, ClaimKept
    <3>2. CASE claim[task[a]] # a
      <4>1. GiveUp(a)
        BY <1>7, <3>2, Zenon DEF ClaimLost
      <4> QED BY <2>2, <4>1, GaveUp, ClaimKept
    <3> QED BY <3>1, <3>2
  <2>4. op # "idle" /\ opTask \notin misjudged => pc'[opLane] = "dead"
    BY <2>2, <2>3 DEF RowInv, BoardType
  <2>5. RowInv'
    BY <2>1, <2>2, <2>4, RowKept
  <2> QED BY <2>3, <2>5 DEF ProtocolInv
<1>8. ASSUME NEW a \in Agent, Report(a) PROVE ProtocolInv'
  <2>1. /\ pc[a] = "report" /\ task[a] \in Task
        /\ task[a] \notin misjudged => claim[task[a]] = a
        /\ UNCHANGED <<claim, misjudged, row, task, op, opLane, opTask>>
        /\ Submit(a, task[a]) /\ Goto(a, "work")
    BY <1>8 DEF Report, BoardType, ClaimInv
  <2>2. Final(a)' = task[a] /\ \A b \in Agent : b # a => Final(b)' = Final(b)
    BY <2>1, FinalSubmit DEF States
  <2>3. pc'[a] = "work" /\ \A b \in Agent : b # a => pc'[b] = pc[b]
    BY <2>1, Went DEF Points
  <2>4. ClaimInv'
    BY <2>1, <2>3, ClaimKept
  <2>5. op # "idle" /\ opTask \notin misjudged => opLane # a /\ pc'[opLane] = "dead"
    BY <2>1, <2>3 DEF RowInv, BoardType
  <2>6. RowInv'
    BY <2>1, <2>2, <2>5 DEF RowInv, BoardType
  <2> QED BY <2>4, <2>6 DEF ProtocolInv
<1>9. ASSUME NEW a \in Agent, WriteFinding(a) PROVE ProtocolInv'
  <2>1. \A b \in Agent : Final(b)' = Final(b)
    BY <1>9, FinalSame DEF WriteFinding
  <2>2. /\ pc[a] = "work"
        /\ task[a] \notin misjudged => claim[task[a]] = a
        /\ UNCHANGED <<claim, misjudged, task, op, opLane, opTask>> /\ Goto(a, "close")
    BY <1>9 DEF WriteFinding, ClaimInv
  <2>3. pc'[a] = "close" /\ \A b \in Agent : b # a => pc'[b] = pc[b]
    BY <2>2, Went DEF Points
  <2>4. ClaimInv'
    BY <2>2, <2>3, ClaimKept
  <2>5. op # "idle" /\ opTask \notin misjudged => pc'[opLane] = "dead"
    BY <2>2, <2>3 DEF RowInv, BoardType
  <2>6. RowInv'
    BY <2>1, <2>2, <2>5, RowKept
  <2> QED BY <2>4, <2>6 DEF ProtocolInv
<1>10. ASSUME NEW a \in Agent, Close(a) PROVE ProtocolInv'
  <2>1. /\ pc[a] = "close" /\ GiveUp(a)
        /\ UNCHANGED <<claim, misjudged, row, op, opLane, opTask>>
    BY <1>10 DEF Close
  <2>2. Final(a)' \in {Final(a), "idle"} /\ \A b \in Agent : b # a => Final(b)' = Final(b)
    <3>1. CASE claim[task[a]] = a
      <4>1. Submit(a, "idle")
        BY <1>10, <3>1, Zenon DEF Close
      <4> QED BY <2>1, <4>1, FinalSubmit DEF States
    <3>2. CASE claim[task[a]] # a
      <4>1. UNCHANGED requests
        BY <1>10, <3>2, Zenon DEF Close
      <4> QED BY <2>1, <4>1, FinalSame
    <3> QED BY <3>1, <3>2
  <2>3. /\ pc'[a] = "ready"
        /\ \A b \in Agent : b # a => pc'[b] = pc[b] /\ task'[b] = task[b]
    BY <2>1, GaveUp
  <2>4. ClaimInv'
    BY <2>1, <2>3, ClaimKept
  <2>5. op # "idle" /\ opTask \notin misjudged => opLane # a /\ pc'[opLane] = "dead"
    BY <2>1, <2>3 DEF RowInv, BoardType
  <2>6. RowInv'
    BY <2>1, <2>2, <2>5 DEF RowInv, BoardType
  <2> QED BY <2>4, <2>6 DEF ProtocolInv
<1>11. ASSUME NEW a \in Agent, Die(a) PROVE ProtocolInv'
  <2>1. \A b \in Agent : Final(b)' = Final(b)
    BY <1>11, FinalSame DEF Die
  <2>2. /\ UNCHANGED <<claim, misjudged, op, opLane, opTask>> /\ Goto(a, "dead")
        /\ task' = [task EXCEPT ![a] = None]
    BY <1>11 DEF Die
  <2>3. pc'[a] = "dead" /\ \A b \in Agent : b # a => pc'[b] = pc[b] /\ task'[b] = task[b]
    BY <2>2, Went, Took DEF Points
  <2>4. ClaimInv'
    BY <2>2, <2>3, ClaimKept
  <2>5. op # "idle" /\ opTask \notin misjudged => pc'[opLane] = "dead"
    BY <2>2, <2>3 DEF RowInv, BoardType
  <2>6. RowInv'
    BY <2>1, <2>2, <2>5, RowKept
  <2> QED BY <2>4, <2>6 DEF ProtocolInv
<1>12. ASSUME NEW a \in Agent, Restart(a) PROVE ProtocolInv'
  <2>1. \A b \in Agent : Final(b)' = Final(b)
    BY <1>12, FinalSame DEF Restart
  <2>2. op = "idle" /\ UNCHANGED <<claim, misjudged, op, opLane, opTask>> /\ GiveUp(a)
    BY <1>12 DEF Restart
  <2>3. /\ pc'[a] = "ready"
        /\ \A b \in Agent : b # a => pc'[b] = pc[b] /\ task'[b] = task[b]
    BY <2>2, GaveUp
  <2>4. ClaimInv'
    BY <2>2, <2>3, ClaimKept
  <2>5. RowInv'
    BY <2>1, <2>2, RowKept
  <2> QED BY <2>4, <2>5 DEF ProtocolInv
<1>13. ASSUME NEW a \in Agent, ApplyUpdate(a) PROVE ProtocolInv'
  <2>1. \A b \in Agent : Final(b)' = Final(b)
    BY <1>13, FinalApply
  <2>2. UNCHANGED <<claim, misjudged, pc, task, op, opLane, opTask>>
    BY <1>13 DEF ApplyUpdate
  <2>3. ClaimInv'
    BY <2>2 DEF ClaimInv
  <2>4. RowInv'
    BY <2>1, <2>2 DEF RowInv, BoardType
  <2> QED BY <2>3, <2>4 DEF ProtocolInv
<1>14. ASSUME NEW a \in Agent, Signal(a) PROVE ProtocolInv'
  <2>1. /\ Submit(a, row[a]) /\ row[a] \in States
        /\ UNCHANGED <<row, misjudged, claim, pc, task, op, opLane, opTask>>
    BY <1>14 DEF Signal, BoardType, TypeOK
  <2>2. Final(a) = row[a]
    BY <1>14 DEF Signal, Settled, Final
  <2>3. \A b \in Agent : Final(b)' = Final(b)
    BY <2>1, <2>2, FinalSubmit
  <2>4. ClaimInv'
    BY <2>1 DEF ClaimInv
  <2>5. RowInv'
    BY <2>1, <2>3 DEF RowInv, BoardType
  <2> QED BY <2>4, <2>5 DEF ProtocolInv
<1>15. ASSUME NEW a \in Agent, NEW t \in Task, ClaimSeen(a, t)
      PROVE  ProtocolInv'
  <2>1. \A b \in Agent : Final(b)' = Final(b)
    BY <1>15, FinalSame DEF ClaimSeen
  <2>2. pc[a] = "ready" /\ UNCHANGED <<claim, misjudged, op, opLane, opTask>>
    BY <1>15 DEF ClaimSeen
  <2>3. ClaimInv' /\ \A b \in Agent : b # a => pc'[b] = pc[b]
    <3>1. CASE claim[t] = a
      <4>1. Goto(a, "report") /\ task' = [task EXCEPT ![a] = t]
        BY <1>15, <3>1, Zenon DEF ClaimSeen
      <4>2. task'[a] = t /\ \A b \in Agent : b # a => task'[b] = task[b]
        BY <4>1, Took
      <4>3. pc'[a] = "report" /\ \A b \in Agent : b # a => pc'[b] = pc[b]
        BY <4>1, Went DEF Points
      <4> QED BY <2>2, <3>1, <4>2, <4>3, ClaimKept
    <3>2. CASE claim[t] # a
      <4>1. UNCHANGED <<pc, task>>
        BY <1>15, <3>2, Zenon DEF ClaimSeen
      <4> QED BY <2>2, <4>1, ClaimKept
    <3> QED BY <3>1, <3>2
  <2>4. op # "idle" /\ opTask \notin misjudged => pc'[opLane] = "dead"
    BY <2>2, <2>3 DEF RowInv, BoardType
  <2>5. RowInv'
    BY <2>1, <2>2, <2>4, RowKept
  <2> QED BY <2>3, <2>5 DEF ProtocolInv
<1>16. ASSUME NEW a \in Agent, NEW t \in Task, ClaimFree(a, t)
      PROVE  ProtocolInv'
  <2>1. \A b \in Agent : Final(b)' = Final(b)
    BY <1>16, FinalSame DEF ClaimFree
  <2>2. /\ pc[a] = "ready" /\ UNCHANGED <<claim, misjudged, op, opLane, opTask>>
        /\ Goto(a, "mkdir") /\ task' = [task EXCEPT ![a] = t]
    BY <1>16 DEF ClaimFree
  <2>3. pc'[a] = "mkdir" /\ \A b \in Agent : b # a => pc'[b] = pc[b]
    BY <2>2, Went DEF Points
  <2>4. \A b \in Agent : b # a => task'[b] = task[b]
    BY <2>2, Took
  <2>5. ClaimInv'
    BY <2>2, <2>3, <2>4, ClaimKept
  <2>6. op # "idle" /\ opTask \notin misjudged => pc'[opLane] = "dead"
    BY <2>2, <2>3 DEF RowInv, BoardType
  <2>7. RowInv'
    BY <2>1, <2>2, <2>6, RowKept
  <2> QED BY <2>5, <2>7 DEF ProtocolInv
<1>17. CASE UNCHANGED vars
  <2>1. \A b \in Agent : Final(b)' = Final(b)
    BY <1>17, FinalSame DEF vars
  <2>2. UNCHANGED <<claim, misjudged, pc, task, op, opLane, opTask>>
    BY <1>17 DEF vars
  <2>3. ClaimInv'
    BY <2>2 DEF ClaimInv
  <2>4. RowInv'
    BY <2>1, <2>2 DEF RowInv, BoardType
  <2> QED BY <2>3, <2>4 DEF ProtocolInv
<1> HIDE <1>0, BoardAssumption DEF docs, agents, operator
<1> QED
  BY <1>1, <1>2, <1>3, <1>4, <1>5, <1>6, <1>7, <1>8, <1>9, <1>10, <1>11,
     <1>12, <1>13, <1>14, <1>15, <1>16, <1>17 DEF Next, ReclaimStep, AgentStep

-----------------------------------------------------------------------------
\* A task's own finding counts for it, so the look that leads to the removal
\* of its claim saw that there was none.
LEMMA RecoverStep ==
    ASSUME BoardType, RecoverInv, [Next]_vars
    PROVE  RecoverInv'
<1> USE BoardAssumption DEF docs, agents, operator
<1>1. CASE ReclaimLook
  <2>1. op = "look" /\ opTask \in Task /\ UNCHANGED <<found, opTask, foundThen>>
    BY <1>1 DEF ReclaimLook, BoardType
  <2>2. CASE FindingExists(opTask)
    <3>1. op' = "submit"
      BY <1>1, <2>2, Zenon DEF ReclaimLook
    <3> QED BY <2>1, <3>1 DEF RecoverInv
  <2>3. CASE ~FindingExists(opTask)
    <3>1. opTask \notin found
      BY <2>1, <2>3 DEF FindingExists
    <3> QED BY <2>1, <3>1 DEF RecoverInv
  <2> QED BY <2>2, <2>3
<1>2. CASE ReclaimRemove
  BY <1>2 DEF ReclaimRemove, RecoverInv
<1>3. CASE ReclaimSubmit
  BY <1>3 DEF ReclaimSubmit, RecoverInv
<1>4. ASSUME NEW a \in Agent, ReclaimCall(a) PROVE RecoverInv'
  BY <1>4 DEF ReclaimCall, RecoverInv
<1>5. ASSUME NEW a \in Agent, WriteFinding(a) PROVE RecoverInv'
  BY <1>5 DEF WriteFinding, RecoverInv
<1>6. ASSUME UNCHANGED <<found, operator>> PROVE RecoverInv'
  BY <1>6 DEF RecoverInv
<1>7. ASSUME NEW a \in Agent,
             \/ \E t \in Task : ClaimSeen(a, t) \/ ClaimFree(a, t)
             \/ ClaimMkdir(a) \/ ClaimOwner(a) \/ ClaimLost(a) \/ Report(a)
             \/ Close(a) \/ Die(a) \/ Restart(a) \/ ApplyUpdate(a) \/ Signal(a)
      PROVE  UNCHANGED <<found, operator>>
  BY <1>7 DEF ClaimSeen, ClaimFree, ClaimMkdir, ClaimOwner, ClaimLost, Report,
              Close, Die, Restart, ApplyUpdate, Signal
<1>8. CASE UNCHANGED vars
  BY <1>6, <1>8 DEF vars
<1> HIDE BoardAssumption DEF docs, agents, operator
<1> QED
  BY <1>1, <1>2, <1>3, <1>4, <1>5, <1>6, <1>7, <1>8 DEF Next, ReclaimStep, AgentStep

\* The first state, for the parts of the invariant.
LEMMA BoardInit ==
    ASSUME Init
    PROVE  BoardType /\ ProtocolInv /\ RecoverInv
<1> USE BoardAssumption DEF Init
<1>1. BoardType
  <2>1. opFound \in BOOLEAN /\ foundThen \subseteq Task /\ found \subseteq Task
    BY Zenon
  <2> QED BY <2>1 DEF BoardType, TypeOK, States
<1>2. \A a \in Agent : Final(a) = "idle"
  BY DEF Final
<1>3. ProtocolInv
  BY <1>2 DEF ProtocolInv, ClaimInv, RowInv
<1> QED BY <1>1, <1>3 DEF RecoverInv

\* The documents, the agents and the operator's reclaim keep their types for
\* any number of agents and tasks; a task is marked done only while its claim
\* directory is there.
THEOREM TypeCorrect == Spec => []TypeOK
<1>1. BoardType => TypeOK
  BY DEF BoardType
<1> QED BY <1>1, BoardInit, BoardTypeStep, PTL DEF Spec

\* RULE 2 of the protocol: claim.sh never tells two live agents that they own
\* the same task, whatever the interleaving of their mkdir, owner.txt and
\* row requests with deaths, respawns and reclaims, provided the operator
\* reclaims a lane, or signals it, only once the lane's requests are applied,
\* and but for the tasks it reclaimed from a lane that was not dead: such a
\* mistake costs the promise for that task alone, whatever the other agents
\* and the other reclaims do.  Without the patience it is false even when only
\* dead lanes are reclaimed (run board_reclaim).
THEOREM OneWorkerIfPatient ==
    ASSUME Patient
    PROVE  Spec => []OneWorker
<1>1. ProtocolInv => OneWorker
  BY DEF ProtocolInv, ClaimInv, OneWorker, Working
<1>2. BoardType /\ ProtocolInv /\ [Next]_vars => (BoardType /\ ProtocolInv)'
  BY BoardTypeStep, ProtocolStep
<1> QED BY <1>1, <1>2, BoardInit, PTL DEF Spec

\* RULE 6: reclaim_or_recover never removes the claim of a task that had a
\* finding when the reclaim was called.  It needs no patience.
THEOREM FoundWorkIsRecovered == Spec => WorkIsRecovered
<1> DEFINE Kept == \A t \in Task : claim[t] # "free" /\ claim'[t] = "free"
                        => t \notin foundThen
<1>1. ASSUME BoardType, RecoverInv, [Next]_vars PROVE [Kept]_vars
  <2> SUFFICES ASSUME NEW t \in Task, claim[t] # "free", claim'[t] = "free"
               PROVE  t \notin foundThen
    OBVIOUS
  <2> USE <1>1 DEF docs, agents, operator
  <2>1. CASE ReclaimRemove
    <3>1. t = opTask /\ op = "remove"
      BY <2>1 DEF ReclaimRemove, BoardType, TypeOK
    <3> QED BY <3>1 DEF RecoverInv
  <2>2. CASE ReclaimLook
    <3>1. opTask \in Task
      BY <2>2 DEF ReclaimLook, BoardType
    <3>2. CASE FindingExists(opTask)
      <4>1. claim' = [claim EXCEPT ![opTask] = IF claim[opTask] = "free" THEN "ownerless" ELSE claim[opTask]]
        BY <2>2, <3>2, Zenon DEF ReclaimLook
      <4> QED BY <3>1, <4>1 DEF BoardType, TypeOK
    <3>3. CASE ~FindingExists(opTask)
      BY <2>2, <3>3 DEF ReclaimLook
    <3> QED BY <3>2, <3>3
  <2>3. CASE ReclaimSubmit
    BY <2>3 DEF ReclaimSubmit
  <2>4. ASSUME NEW a \in Agent, ClaimMkdir(a) PROVE t \notin foundThen
    BY <2>4 DEF ClaimMkdir, BoardType, TypeOK
  <2>5. ASSUME NEW a \in Agent, ClaimOwner(a) PROVE t \notin foundThen
    BY <2>5, BoardAssumption DEF ClaimOwner, BoardType, TypeOK
  <2>6. ASSUME NEW a \in Agent,
               \/ \E u \in Task : ClaimSeen(a, u) \/ ClaimFree(a, u)
               \/ ClaimLost(a) \/ Report(a) \/ WriteFinding(a) \/ Close(a) \/ Die(a)
               \/ Restart(a) \/ ApplyUpdate(a) \/ Signal(a) \/ ReclaimCall(a)
        PROVE  claim' = claim
    BY <2>6 DEF ClaimSeen, ClaimFree, ClaimLost, Report, WriteFinding, Close, Die,
                Restart, ApplyUpdate, Signal, ReclaimCall
  <2>7. CASE UNCHANGED vars
    BY <2>7 DEF vars
  <2> HIDE DEF docs, agents, operator
  <2> QED
    BY <1>1, <2>1, <2>2, <2>3, <2>4, <2>5, <2>6, <2>7 DEF Next, ReclaimStep, AgentStep
<1> HIDE DEF Kept
<1>2. BoardType /\ RecoverInv /\ [Next]_vars
        => (BoardType /\ RecoverInv)' /\ [Kept]_vars
  BY <1>1, BoardTypeStep, RecoverStep
<1>3. Spec => [][Kept]_vars
  BY <1>2, BoardInit, PTL DEF Spec
<1> QED BY <1>3 DEF WorkIsRecovered, Kept

=============================================================================
