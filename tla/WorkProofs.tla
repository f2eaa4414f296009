----------------------------- MODULE WorkProofs -----------------------------
(***************************************************************************)
(* The work on the shared directory beside the queue: the RULE-10 close    *)
(* with its crashes, timeouts and resumes, the watchdog's memory across    *)
(* restarts of the server, the supervisor's bound on restarts, and what    *)
(* replay() makes of the journal's lines.                                  *)
(***************************************************************************)
EXTENDS AtomicClose, Watchdog, AutoRecover, JournalLog, Induction, TLAPS

-----------------------------------------------------------------------------
\* AtomicClose

\* The effect of step s is there, or what the backend takes for it.
Took(s) ==
    /\ s = "CLAIM_DIR_DONE" => doneFile
    /\ s = "TASKS_BRACKET"  => bracket
    /\ s = "HISTORY_APPEND" => rows \cup others # {}
    /\ s = "STATUS_UPDATE"  => laneRow.says # "busy"

TookBefore(s) == \A t \in Steps : Place(t) < Place(s) => Took(t)

\* A set of steps that leaves out none before one it has.
InOrder(ok) == \A s \in ok, t \in Steps : Place(t) < Place(s) => t \in ok

\* What the process and its journal call ok is there, in order.
OksTook ==
    /\ closer # "off" => todo = Steps \ oks
    /\ InOrder(oks) /\ \A s \in oks : Took(s)
    /\ InOrder(journal.ok) /\ \A s \in journal.ok : Took(s)
    /\ Completed => journal.ok = Steps

\* A request is submitted when the effects before its own are there, and the
\* process waits for the last request of the queue.
QueueInOrder ==
    /\ \A i \in 1..Len(queue) : TookBefore(queue[i].step)
    /\ closer = "wait" =>
        /\ todo # {}
        /\ answer = "none" => queue # <<>> /\ queue[Len(queue)].step = Turn
        /\ answer # "none" => queue = <<>>
        /\ answer = "applied" => Took(Turn)

CloseInv == CloseTypeOK /\ OksTook /\ QueueInOrder /\ InRuleTenOrder

\* Every step has its place in _STEPS_IN_ORDER.
LEMMA PlaceType ==
    ASSUME NEW s \in Steps
    PROVE  Place(s) \in 1..4
  BY DEF Steps, Place

\* The loop is at the first step that is left.
LEMMA TurnIsFirst ==
    ASSUME todo \subseteq Steps, todo # {}
    PROVE  Turn \in todo /\ \A t \in todo : Place(Turn) <= Place(t)
<1>1. \E s \in todo : \A t \in todo : Place(s) <= Place(t)
  <2>1. CASE "CLAIM_DIR_DONE" \in todo
    BY <2>1 DEF Steps, Place
  <2>2. CASE "CLAIM_DIR_DONE" \notin todo /\ "TASKS_BRACKET" \in todo
    BY <2>2 DEF Steps, Place
  <2>3. CASE todo \subseteq {"HISTORY_APPEND", "STATUS_UPDATE"} /\ "HISTORY_APPEND" \in todo
    BY <2>3 DEF Place
  <2>4. CASE todo = {"STATUS_UPDATE"}
    BY <2>4 DEF Place
  <2> QED BY <2>1, <2>2, <2>3, <2>4 DEF Steps
<1> QED BY <1>1 DEF Turn

\* What lies before the step the loop is at is there; adding that step keeps
\* the order.
LEMMA TurnComesNext ==
    ASSUME OksTook, closer # "off", oks \subseteq Steps, todo # {}
    PROVE  /\ Turn \in Steps /\ Turn \notin oks /\ TookBefore(Turn)
           /\ InOrder(oks \cup {Turn})
           /\ todo \ {Turn} = Steps \ (oks \cup {Turn})
<1>1. todo = Steps \ oks
  BY DEF OksTook
<1>2. Turn \in todo /\ \A t \in todo : Place(Turn) <= Place(t)
  BY <1>1, TurnIsFirst
<1>3. \A t \in Steps : Place(t) < Place(Turn) => t \in oks
  BY <1>1, <1>2, PlaceType
<1>4. TookBefore(Turn)
  BY <1>3 DEF TookBefore, OksTook
<1>5. InOrder(oks \cup {Turn})
  BY <1>3 DEF InOrder, OksTook
<1> QED BY <1>1, <1>2, <1>4, <1>5

\* The first request of the queue
LEMMA HeadOfQueue ==
    ASSUME CloseTypeOK, QueueAnswers
    PROVE  /\ queue # <<>>
           /\ Head(queue) \in [step : Steps, utc : 1..(MaxClock + 1)]
           /\ Head(queue).step \in Steps /\ Head(queue).utc \in 1..(MaxClock + 1)
           /\ Head(queue) = queue[1] /\ 1 \in 1..Len(queue)
<1>1. queue \in Seq([step : Steps, utc : 1..(MaxClock + 1)]) /\ queue # <<>>
  BY DEF CloseTypeOK, QueueAnswers, QueueApplies, QueueRejects, QueueFails
<1>2. Head(queue) \in [step : Steps, utc : 1..(MaxClock + 1)]
  BY <1>1, HeadTailProperties
<1>3. Head(queue) = queue[1] /\ 1 \in 1..Len(queue)
  BY <1>1
<1> QED BY <1>1, <1>2, <1>3

\* An answer either leaves the documents alone or makes the effect of the
\* first request, and it is that effect that is answered "applied".
LEMMA AnswerActs ==
    ASSUME QueueAnswers
    PROVE  /\ UNCHANGED effects \/ Applied(Head(queue))
           /\ UNCHANGED <<clock, claimDir, taskLine, others, journal, proc>>
           /\ queue' = Tail(queue)
           /\ answer' \in {answer, "applied", "rejected"}
           /\ closer = "wait" /\ ~(Len(queue) > 1)
                => \/ answer' = "rejected"
                   \/ answer' = "applied" /\ Applied(Head(queue))
           /\ closer = "wait" /\ Len(queue) > 1 => answer' = answer
<1>1. CASE QueueApplies
  BY <1>1 DEF QueueApplies, Reply
<1>2. CASE QueueRejects
  BY <1>2 DEF QueueRejects, Reply
<1>3. CASE QueueFails
  BY <1>3 DEF QueueFails, Reply
<1> QED BY <1>1, <1>2, <1>3 DEF QueueAnswers

\* What the effect of a request makes of the four documents.
LEMMA AppliedEffect ==
    ASSUME NEW q, Applied(q)
    PROVE  /\ doneFile' = (doneFile \/ q.step = "CLAIM_DIR_DONE")
           /\ bracket' = (bracket \/ q.step = "TASKS_BRACKET")
           /\ q.step # "HISTORY_APPEND" => rows' = rows
           /\ q.step = "HISTORY_APPEND" => rows' = rows \cup {q.utc}
           /\ q.step # "STATUS_UPDATE" => laneRow' = laneRow
           /\ q.step = "STATUS_UPDATE" => laneRow' = [owner |-> "mine", says |-> "done"]
           /\ q.step = "STATUS_UPDATE" => laneRow'.says = "done"
<1>1. /\ doneFile' = (doneFile \/ q.step = "CLAIM_DIR_DONE")
      /\ bracket' = (bracket \/ q.step = "TASKS_BRACKET")
  BY Zenon DEF Applied
<1>2. /\ rows' = IF q.step = "HISTORY_APPEND" THEN rows \cup {q.utc} ELSE rows
      /\ laneRow' = IF q.step = "STATUS_UPDATE"
                    THEN [owner |-> "mine", says |-> "done"] ELSE laneRow
  BY Zenon DEF Applied
<1> QED BY <1>1, <1>2

\* The steps that leave the four effects alone.
LEMMA EffectsSame ==
    ASSUME \/ CloseStep \/ BeginResume \/ StepTimeout \/ Crash \/ OtherRow \/ Tick
           \/ UNCHANGED closeVars
    PROVE  UNCHANGED effects /\ (others # {} => others' # {})
  BY DEF CloseStep, BeginClose, StepIdempotent, StepSubmit, StepRefused, StepApplied,
         StepRejected, Complete, EndWith, BeginResume, StepTimeout, Crash, OtherRow,
         Tick, closeDocs, closeVars

\* The documents only gain effects.
LEMMA EffectsStay ==
    ASSUME CloseTypeOK, [CloseNext]_closeVars
    PROVE  /\ doneFile => doneFile'
           /\ bracket => bracket'
           /\ rows \cup others # {} => rows' \cup others' # {}
           /\ laneRow.says # "busy" => laneRow'.says # "busy"
           /\ \A s : Took(s) => Took(s)'
<1>1. CASE QueueAnswers
  <2>1. others' = others
    BY <1>1, AnswerActs
  <2>2. CASE UNCHANGED effects
    BY <2>1, <2>2 DEF effects, Took
  <2>3. CASE Applied(Head(queue))
    <3>1. /\ doneFile => doneFile'
          /\ bracket => bracket'
      BY <2>3, AppliedEffect, Zenon
    <3>2. rows \cup others # {} => rows' \cup others' # {}
      BY <2>1, <2>3, AppliedEffect
    <3>3. laneRow.says # "busy" => laneRow'.says # "busy"
      BY <2>3, AppliedEffect
    <3> QED BY <3>1, <3>2, <3>3 DEF Took
  <2> QED BY <1>1, <2>2, <2>3, AnswerActs
<1>2. CASE UNCHANGED effects /\ (others # {} => others' # {})
  BY <1>2 DEF effects, Took
<1> QED BY <1>1, <1>2, EffectsSame DEF CloseNext

\* No step of the closing process or of the queue breaks a type.
LEMMA CloseTypeStep ==
    ASSUME CloseInv, [CloseNext]_closeVars
    PROVE  CloseTypeOK'
<1> USE CloseAssumption DEF CloseInv, CloseTypeOK, JournalStatus, closeDocs, effects, proc
<1>0. closer # "off" /\ todo # {} => Turn \in Steps
  BY TurnComesNext
<1>1. CASE Tick
  BY <1>1 DEF Tick
<1>2. CASE BeginClose
  BY <1>2 DEF BeginClose
<1>3. CASE BeginResume
  BY <1>3 DEF BeginResume
<1>4. CASE StepIdempotent
  BY <1>0, <1>4 DEF StepIdempotent
<1>5. CASE StepSubmit
  <2>1. Now \in 1..(MaxClock + 1)
    BY DEF Now
  <2>2. [step |-> Turn, utc |-> Now] \in [step : Steps, utc : 1..(MaxClock + 1)]
    BY <1>0, <1>5, <2>1 DEF StepSubmit
  <2>3. queue' \in Seq([step : Steps, utc : 1..(MaxClock + 1)])
    BY <1>5, <2>2 DEF StepSubmit
  <2>4. claimDir' \in ClaimStates
    BY <1>5 DEF StepSubmit, ClaimStates
  <2> QED BY <1>5, <2>3, <2>4 DEF StepSubmit
<1>6. CASE StepRefused \/ StepRejected \/ StepTimeout \/ Complete
  <2>1. PICK status \in {"PARTIAL", "COMPLETE", "RESUMED-COMPLETE"} : EndWith(status)
    BY <1>6 DEF StepRefused, StepRejected, StepTimeout, Complete
  <2>2. /\ answer' \in {"none", "applied", "rejected"} /\ mishaps' \in 0..MaxMishaps
    BY <1>6 DEF StepRefused, StepRejected, StepTimeout, Complete, Mishap
  <2> QED BY <2>1, <2>2 DEF EndWith
<1>7. CASE StepApplied
  <2>1. closer = "wait" /\ todo # {}
    BY <1>7 DEF StepApplied, QueueInOrder
  <2> QED BY <1>0, <1>7, <2>1 DEF StepApplied
<1>8. CASE Crash
  BY <1>8 DEF Crash, Mishap
<1>9. CASE QueueAnswers
  <2>1. /\ Head(queue).step \in Steps /\ Head(queue).utc \in 1..(MaxClock + 1)
        /\ queue' \in Seq([step : Steps, utc : 1..(MaxClock + 1)])
    <3>1. queue \in Seq([step : Steps, utc : 1..(MaxClock + 1)]) /\ queue # <<>>
      BY <1>9, HeadOfQueue
    <3>2. Tail(queue) \in Seq([step : Steps, utc : 1..(MaxClock + 1)])
      BY <3>1, HeadTailProperties
    <3> QED BY <1>9, <3>2, HeadOfQueue, AnswerActs
  <2>2. /\ rows' \subseteq 1..(MaxClock + 1)
        /\ laneRow' \in [owner : LaneOwners, says : {"busy", "alike", "done"}]
    <3>1. CASE UNCHANGED effects
      BY <3>1
    <3>2. CASE Applied(Head(queue))
      <4>1. rows' = rows \/ rows' = rows \cup {Head(queue).utc}
        BY <3>2, AppliedEffect
      <4>2. laneRow' = laneRow \/ laneRow' = [owner |-> "mine", says |-> "done"]
        BY <3>2, AppliedEffect
      <4>3. laneRow' \in [owner : LaneOwners, says : {"busy", "alike", "done"}]
        BY <4>2 DEF LaneOwners
      <4> QED BY <2>1, <4>1, <4>3
    <3> QED BY <1>9, <3>1, <3>2, AnswerActs
  <2>3. doneFile' \in BOOLEAN /\ bracket' \in BOOLEAN
    <3>1. CASE UNCHANGED effects
      BY <3>1
    <3>2. CASE Applied(Head(queue))
      BY <3>2, AppliedEffect, Zenon
    <3> QED BY <1>9, <3>1, <3>2, AnswerActs
  <2>4. mishaps' \in 0..MaxMishaps
    BY <1>9 DEF QueueAnswers, QueueApplies, QueueRejects, QueueFails, Mishap
  <2> QED BY <1>9, <2>1, <2>2, <2>3, <2>4, AnswerActs
<1>10. CASE UNCHANGED closeVars
  BY <1>10 DEF closeVars
<1>11. CASE OtherRow
  BY <1>11 DEF OtherRow
<1> HIDE CloseAssumption DEF CloseInv, CloseTypeOK, JournalStatus, closeDocs, effects, proc
<1> QED
  BY <1>1, <1>2, <1>3, <1>4, <1>5, <1>6, <1>7, <1>8, <1>9, <1>10, <1>11
  DEF CloseNext, CloseStep

\* The steps that end a run of the close.
LEMMA EndingStep ==
    ASSUME CloseInv, StepRefused \/ StepRejected \/ StepTimeout \/ Complete
    PROVE  OksTook'
<1>1. PICK status \in {"PARTIAL", "COMPLETE", "RESUMED-COMPLETE"} :
          EndWith(status) /\ (status = "PARTIAL" \/ (closer # "off" /\ todo = {}))
  BY DEF StepRefused, StepRejected, StepTimeout, Complete
<1>2. status # "PARTIAL" => oks = Steps
  BY <1>1 DEF CloseInv, CloseTypeOK, OksTook
<1>3. \A s : Took(s)' <=> Took(s)
  BY <1>1 DEF EndWith, closeDocs, effects, Took
<1>4. /\ journal' = [status |-> status, ok |-> oks] /\ oks' = {} /\ closer' = "off"
  BY <1>1 DEF EndWith
<1>5. journal'.ok = oks /\ journal'.status = status
  BY <1>4
<1> QED BY <1>2, <1>3, <1>4, <1>5 DEF CloseInv, OksTook, InOrder, Completed

\* What was called ok stays there, and no step is called ok before its effect.
LEMMA OksStep ==
    ASSUME CloseInv, [CloseNext]_closeVars
    PROVE  OksTook'
<1>0. /\ \A s : Took(s) => Took(s)'
      /\ OksTook /\ oks \subseteq Steps /\ journal.ok \subseteq Steps
  BY EffectsStay DEF CloseInv, CloseTypeOK
<1>1. CASE UNCHANGED <<journal, closer, todo, oks>>
  BY <1>0, <1>1 DEF OksTook, InOrder, Completed
<1>2. CASE BeginClose
  <2>1. /\ journal' = [status |-> "PENDING", ok |-> {}] /\ oks' = {} /\ todo' = Steps
    BY <1>2 DEF BeginClose
  <2> QED BY <2>1 DEF OksTook, InOrder, Completed
<1>3. CASE BeginResume
  <2>1. /\ journal' = journal /\ oks' = journal.ok /\ todo' = Steps \ journal.ok
    BY <1>3 DEF BeginResume
  <2> QED BY <1>0, <2>1 DEF OksTook, InOrder, Completed
<1>4. CASE StepIdempotent \/ StepApplied
  <2>1. closer # "off" /\ todo # {} /\ Took(Turn)
    <3>1. CASE StepIdempotent
      <4>1. closer = "step" /\ todo # {} /\ Idempotent(Turn)
        BY <3>1 DEF StepIdempotent
      <4>2. Turn \in Steps
        BY <1>0, <4>1, TurnComesNext
      <4> QED BY <4>1, <4>2 DEF Idempotent, Took, Steps
    <3>2. CASE StepApplied
      BY <3>2 DEF StepApplied, CloseInv, QueueInOrder
    <3> QED BY <1>4, <3>1, <3>2
  <2>2. /\ oks' = oks \cup {Turn} /\ todo' = todo \ {Turn} /\ journal' = journal
    BY <1>4 DEF StepIdempotent, StepApplied
  <2>3. /\ InOrder(oks \cup {Turn}) /\ todo \ {Turn} = Steps \ (oks \cup {Turn})
    BY <1>0, <2>1, TurnComesNext
  <2>4. PICK u : u = oks \cup {Turn}
    OBVIOUS
  <2>5. oks' = u /\ InOrder(u) /\ todo' = Steps \ u /\ \A s \in u : Took(s)
    BY <1>0, <2>1, <2>2, <2>3, <2>4 DEF OksTook
  <2> QED BY <1>0, <2>2, <2>5 DEF OksTook, InOrder, Completed
<1>5. CASE StepSubmit
  BY <1>0, <1>5 DEF StepSubmit, OksTook, InOrder, Completed
<1>6. CASE StepRefused \/ StepRejected \/ StepTimeout \/ Complete
  BY <1>6, EndingStep
<1>7. CASE Crash
  <2>1. closer' = "off" /\ oks' = {}
    BY <1>7 DEF Crash
  <2>2. CASE journal' = journal
    BY <1>0, <2>1, <2>2 DEF OksTook, InOrder, Completed
  <2>3. CASE journal' = [status |-> "torn", ok |-> {}]
    BY <2>1, <2>3 DEF OksTook, InOrder, Completed
  <2> QED BY <1>7, <2>2, <2>3 DEF Crash
<1>8. Tick \/ OtherRow \/ QueueAnswers \/ UNCHANGED closeVars
        => UNCHANGED <<journal, closer, todo, oks>>
  BY AnswerActs DEF Tick, OtherRow, closeVars, proc
<1> QED
  BY <1>1, <1>2, <1>3, <1>4, <1>5, <1>6, <1>7, <1>8 DEF CloseNext, CloseStep

\* A request enters the queue when its turn has come, and the process learns
\* of its own request only.
LEMMA QueueStep ==
    ASSUME CloseInv, [CloseNext]_closeVars
    PROVE  QueueInOrder'
<1>0. /\ \A s : Took(s) => Took(s)'
      /\ OksTook /\ oks \subseteq Steps /\ QueueInOrder
      /\ \A s : TookBefore(s) => TookBefore(s)'
      /\ queue \in Seq([step : Steps, utc : 1..(MaxClock + 1)])
  BY EffectsStay DEF CloseInv, CloseTypeOK, TookBefore
<1>1. CASE queue' = queue /\ closer' # "wait"
  BY <1>0, <1>1 DEF QueueInOrder
<1>2. CASE UNCHANGED <<queue, closer, todo, answer>>
  <2>1. Turn' = Turn
    BY <1>2 DEF Turn
  <2>2. PICK t : t = Turn
    OBVIOUS
  <2> QED BY <1>0, <1>2, <2>1, <2>2 DEF QueueInOrder
<1>3. CASE StepSubmit
  <2>1. /\ closer = "step" /\ todo # {} /\ todo' = todo /\ answer' = "none"
        /\ queue' = Append(queue, [step |-> Turn, utc |-> Now])
    BY <1>3 DEF StepSubmit
  <2>2. TookBefore(Turn) /\ Turn' = Turn
    BY <1>0, <2>1, TurnComesNext DEF Turn
  <2>3. PICK t : t = Turn
    OBVIOUS
  <2>4. /\ queue' # <<>> /\ queue'[Len(queue')].step = t
        /\ \A i \in 1..Len(queue') :
             queue'[i].step = t \/ (i \in 1..Len(queue) /\ queue'[i] = queue[i])
    BY <1>0, <2>1, <2>3
  <2>5. (\A i \in 1..Len(queue) : TookBefore(queue[i].step))'
    <3> SUFFICES ASSUME NEW i \in 1..Len(queue'),
                        NEW b \in Steps, Place(b) < Place(queue'[i].step)
                 PROVE  Took(b)'
      BY DEF TookBefore
    <3>1. Took(b)
      BY <1>0, <2>2, <2>3, <2>4 DEF QueueInOrder, TookBefore
    <3> QED BY <1>0, <3>1
  <2> QED BY <2>1, <2>2, <2>3, <2>4, <2>5 DEF QueueInOrder
<1>4. CASE QueueAnswers
  <2>1. /\ queue # <<>> /\ queue' = Tail(queue) /\ UNCHANGED <<closer, todo>>
    <3>1. queue # <<>>
      BY <1>4, HeadOfQueue DEF CloseInv
    <3>2. queue' = Tail(queue) /\ UNCHANGED proc
      BY <1>4, AnswerActs
    <3> QED BY <3>1, <3>2 DEF proc
  <2>2. Turn' = Turn
    BY <2>1 DEF Turn
  <2>3. PICK t : t = Turn
    OBVIOUS
  <2>4. /\ Len(queue) \in Nat /\ Len(queue) >= 1 /\ Len(queue') = Len(queue) - 1
        /\ \A i \in 1..Len(queue') : queue'[i] = queue[i + 1] /\ i + 1 \in 1..Len(queue)
        /\ Head(queue) = queue[1] /\ Head(queue).step \in Steps
    <3>1. Head(queue) \in [step : Steps, utc : 1..(MaxClock + 1)]
      BY <1>0, <2>1, HeadTailProperties
    <3> QED BY <1>0, <2>1, <3>1
  <2>5. (\A i \in 1..Len(queue) : TookBefore(queue[i].step))'
    <3> SUFFICES ASSUME NEW i \in 1..Len(queue'),
                        NEW b \in Steps, Place(b) < Place(queue'[i].step)
                 PROVE  Took(b)'
      BY DEF TookBefore
    <3>1. Took(b)
      BY <1>0, <2>4 DEF QueueInOrder, TookBefore
    <3> QED BY <1>0, <3>1
  <2>6. CASE closer = "wait" /\ Len(queue) > 1
    <3>1. answer = "none" /\ answer' = answer /\ todo # {} /\ queue[Len(queue)].step = t
      BY <1>0, <1>4, <2>1, <2>3, <2>6, AnswerActs DEF QueueInOrder, CloseInv, CloseTypeOK
    <3>2. queue' # <<>> /\ queue'[Len(queue')].step = t
      BY <2>4, <2>6, <3>1
    <3> QED BY <2>1, <2>2, <2>3, <2>5, <3>1, <3>2 DEF QueueInOrder
  <2>7. CASE closer = "wait" /\ ~(Len(queue) > 1)
    <3>1. todo # {} /\ Head(queue).step = t
      BY <1>0, <2>1, <2>3, <2>4, <2>7 DEF QueueInOrder
    <3>2. Len(queue) = 1 /\ queue' = <<>>
      BY <1>0, <2>1, <2>4, <2>7
    <3>3. /\ answer' \in {"applied", "rejected"}
          /\ answer' = "applied" => Applied(Head(queue))
      BY <1>4, <2>7, AnswerActs
    <3>4. answer' = "applied" => Took(t)'
      <4>1. ASSUME Applied(Head(queue)), t = "CLAIM_DIR_DONE" PROVE doneFile'
        BY <3>1, <4>1, AppliedEffect, Zenon
      <4>2. ASSUME Applied(Head(queue)), t = "TASKS_BRACKET" PROVE bracket'
        BY <3>1, <4>2, AppliedEffect, Zenon
      <4>3. ASSUME Applied(Head(queue)), t = "HISTORY_APPEND" PROVE rows' # {}
        BY <3>1, <4>3, AppliedEffect
      <4>4. ASSUME Applied(Head(queue)), t = "STATUS_UPDATE" PROVE laneRow'.says # "busy"
        BY <3>1, <4>4, AppliedEffect
      <4> QED BY <3>3, <4>1, <4>2, <4>3, <4>4 DEF Took
    <3>5. answer' = "applied" => Took(Turn)'
      BY <2>2, <2>3, <3>4 DEF Took
    <3>6. /\ closer' = closer /\ todo' = todo
          /\ answer' # "none"
      BY <2>1, <3>3
    <3> QED BY <2>5, <3>1, <3>2, <3>5, <3>6, Zenon DEF QueueInOrder
  <2>8. CASE closer # "wait"
    BY <2>1, <2>5, <2>8 DEF QueueInOrder
  <2> QED BY <2>6, <2>7, <2>8
<1>5. BeginClose \/ BeginResume \/ StepApplied \/ Crash
        \/ StepRefused \/ StepRejected \/ StepTimeout \/ Complete
        => queue' = queue /\ closer' # "wait"
  BY DEF BeginClose, BeginResume, StepApplied, Crash, StepRefused, StepRejected,
         StepTimeout, Complete, EndWith
<1>6. Tick \/ OtherRow \/ UNCHANGED closeVars => UNCHANGED <<queue, closer, todo, answer>>
  BY DEF Tick, OtherRow, closeVars, proc
<1>7. CASE StepIdempotent
  BY <1>1, <1>7 DEF StepIdempotent
<1> QED
  BY <1>1, <1>2, <1>3, <1>4, <1>5, <1>6, <1>7 DEF CloseNext, CloseStep

\* The queue turns requests into effects in the order of RULE 10.
LEMMA OrderStep ==
    ASSUME CloseInv, [CloseNext]_closeVars
    PROVE  InRuleTenOrder'
<1>1. CASE Applied(Head(queue)) /\ QueueAnswers
  <2>1. PICK q : q = Head(queue)
    OBVIOUS
  <2>2. q.step \in Steps /\ TookBefore(q.step)
    BY <1>1, <2>1, HeadOfQueue DEF CloseInv, QueueInOrder
  <2>3. /\ q.step = "TASKS_BRACKET" => doneFile
        /\ q.step = "HISTORY_APPEND" => bracket
        /\ q.step = "STATUS_UPDATE" => bracket /\ rows \cup others # {}
    BY <2>2 DEF TookBefore, Took, Steps, Place
  <2>4. /\ bracket' = (bracket \/ q.step = "TASKS_BRACKET")
        /\ rows' # {} => rows # {} \/ q.step = "HISTORY_APPEND"
        /\ laneRow'.says = "done" => laneRow.says = "done" \/ q.step = "STATUS_UPDATE"
    BY <1>1, <2>1, AppliedEffect
  <2>5. /\ doneFile => doneFile'
        /\ bracket => bracket'
        /\ rows \cup others # {} => rows' \cup others' # {}
    BY EffectsStay DEF CloseInv
  <2>6. (bracket => doneFile) /\ (rows # {} => bracket)
        /\ (laneRow.says = "done" => bracket /\ rows \cup others # {})
    BY DEF CloseInv, InRuleTenOrder
  <2>7. (bracket => doneFile)'
    BY <2>3, <2>4, <2>5, <2>6, Zenon
  <2>8. (rows # {} => bracket)'
    BY <2>3, <2>4, <2>5, <2>6, Zenon
  <2>9. (laneRow.says = "done" => bracket /\ rows \cup others # {})'
    BY <2>3, <2>4, <2>5, <2>6, Zenon
  <2> QED BY <2>7, <2>8, <2>9 DEF InRuleTenOrder
<1>2. CASE UNCHANGED effects
  BY <1>2, EffectsStay DEF CloseInv, InRuleTenOrder, effects
<1> QED BY <1>1, <1>2, EffectsSame, AnswerActs DEF CloseNext

\* The close keeps its invariant.
LEMMA CloseInvariant == CloseSpec => []CloseInv
<1>1. CloseInit => CloseInv
  <2> SUFFICES ASSUME CloseInit PROVE CloseInv
    OBVIOUS
  <2>1. CloseTypeOK
    <3>1. laneRow \in [owner : LaneOwners, says : {"busy", "alike", "done"}]
      BY CloseAssumption DEF CloseInit
    <3>2. journal \in [status : JournalStatus, ok : SUBSET Steps]
      BY DEF CloseInit, JournalStatus
    <3>3. queue \in Seq([step : Steps, utc : 1..(MaxClock + 1)])
      BY DEF CloseInit
    <3>4. clock \in 1..(MaxClock + 1) /\ rows \subseteq 1..(MaxClock + 1)
          /\ others \subseteq 1..(MaxClock + 1)
          /\ utc \in 0..(MaxClock + 1) /\ mishaps \in 0..MaxMishaps
      BY CloseAssumption DEF CloseInit
    <3>5. claimDir \in ClaimStates /\ taskLine \in TaskLines
      BY CloseAssumption DEF CloseInit
    <3>6. doneFile \in BOOLEAN /\ bracket \in BOOLEAN /\ todo \subseteq Steps /\ oks \subseteq Steps
      BY DEF CloseInit
    <3> QED BY <3>1, <3>2, <3>3, <3>4, <3>5, <3>6 DEF CloseInit, CloseTypeOK
  <2>2. OksTook
    BY DEF CloseInit, OksTook, InOrder, Completed
  <2>3. QueueInOrder /\ InRuleTenOrder
    BY CloseAssumption DEF CloseInit, QueueInOrder, InRuleTenOrder
  <2> QED BY <2>1, <2>2, <2>3 DEF CloseInv
<1>2. CloseInv /\ [CloseNext]_closeVars => CloseInv'
  BY CloseTypeStep, OksStep, QueueStep, OrderStep DEF CloseInv
<1> QED BY <1>1, <1>2, PTL DEF CloseSpec

\* The close keeps its types: the journal never lists a step that RULE 10
\* does not have, the queue holds whole requests.
THEOREM CloseTypeCorrect == CloseSpec => []CloseTypeOK
<1>1. CloseInv => CloseTypeOK
  BY DEF CloseInv
<1> QED BY <1>1, CloseInvariant, PTL

\* The effects of a close appear in the order of RULE 10, wherever the process
\* died, timed out or was resumed, with requests of earlier tries in the queue
\* and whatever the applier failed at.  The row of HISTORY.md alone may be
\* missing, where history_append found another one with both ids in it.
THEOREM EffectsInOrder == CloseSpec => []InRuleTenOrder
<1>1. CloseInv => InRuleTenOrder
  BY DEF CloseInv
<1> QED BY <1>1, CloseInvariant, PTL

\* A close that its journal calls complete has all four effects; for the row
\* of HISTORY.md and the lane's row of STATUS.md, it has them or what the
\* backend takes for them.
THEOREM CompleteIsClosed == CloseSpec => []CompleteMeansClosed
<1>1. CloseInv => CompleteMeansClosed
  BY DEF CloseInv, OksTook, Took, Steps, CompleteMeansClosed
<1> QED BY <1>1, CloseInvariant, PTL

-----------------------------------------------------------------------------
\* Watchdog

\* The lane the pass is at
AtLane == Lanes[cursor]

DogType ==
    /\ cursor \in 1..Len(Lanes)
    /\ memory \in [LaneSet -> Kinds \cup {"none"}]
    /\ file \in [LaneSet -> Kinds \cup {"none"}]
    /\ told \in [LaneSet -> SUBSET Kinds]
    /\ listed \in [LaneSet -> SUBSET Kinds]

\* What the server remembers, and what the next one will load, was told.
MemoryIsTold == \A l \in LaneSet : memory[l] # "none" => memory[l] \in told[l] \cap listed[l]

\* Between the finding and the memory: the alert in hand was written.
AlertInHand ==
    /\ dogPc \in {"append", "save"} => alerting \in told[AtLane]
    /\ dogPc = "save" => alerting \in listed[AtLane]

DogInv == DogType /\ RememberedIsTold /\ MemoryIsTold /\ AlertInHand

\* The lanes are those of the sequence, and the pass is at one of them.
LEMMA AtLaneIsLane ==
    ASSUME cursor \in 1..Len(Lanes)
    PROVE  AtLane \in LaneSet
  BY WatchdogAssumption DEF AtLane, LaneSet, ToSet

\* After a lane the pass is at a lane again.
LEMMA NextLaneStays ==
    ASSUME cursor \in 1..Len(Lanes), NextLane
    PROVE  cursor' \in 1..Len(Lanes) /\ dogPc' \in {"sleep", "check"}
  BY WatchdogAssumption DEF NextLane

\* A pass over the lanes remembers only what it told.
LEMMA DogStep ==
    ASSUME DogInv, [WatchdogNext]_watchdog
    PROVE  DogInv'
<1> USE DEF DogInv
<1>0. AtLane \in LaneSet /\ 1 \in 1..Len(Lanes) /\ "none" \notin Kinds
  BY AtLaneIsLane, WatchdogAssumption DEF DogType, Kinds
<1>1. PICK l \in LaneSet : l = AtLane
  BY <1>0
<1>2. CASE Health \/ UNCHANGED watchdog
  <2>1. UNCHANGED <<dogPc, cursor, memory, file, alerting, told, listed>>
    BY <1>2 DEF Health, watchdog
  <2> QED BY <2>1 DEF DogType, RememberedIsTold, MemoryIsTold, AlertInHand, AtLane
<1>3. CASE StartPass
  BY <1>0, <1>3 DEF StartPass, DogType, RememberedIsTold, MemoryIsTold, AlertInHand
<1>4. CASE CheckLane
  <2>1. CASE Recover(l)
    <3>1. cursor' \in 1..Len(Lanes) /\ dogPc' \in {"sleep", "check"}
      BY <2>1, NextLaneStays DEF Recover, DogType
    <3>2. /\ memory' = [memory EXCEPT ![l] = "none"] /\ file' = memory'
          /\ told' = [told EXCEPT ![l] = {}] /\ listed' = [listed EXCEPT ![l] = {}]
      BY <2>1 DEF Recover
    <3>3. DogType'
      BY <3>1, <3>2 DEF DogType
    <3>4. RememberedIsTold' /\ MemoryIsTold'
      BY <3>2 DEF DogType, RememberedIsTold, MemoryIsTold
    <3> QED BY <3>1, <3>3, <3>4 DEF AlertInHand
  <2>2. CASE /\ NextLane \/ (dogPc' = "sleep" /\ cursor' = 1)
             /\ UNCHANGED <<memory, file, alerting, told, listed>>
    <3>1. cursor' \in 1..Len(Lanes) /\ dogPc' \in {"sleep", "check"}
      BY <1>0, <2>2, NextLaneStays DEF DogType
    <3> QED BY <2>2, <3>1 DEF DogType, RememberedIsTold, MemoryIsTold, AlertInHand
  <2>3. CASE \E k \in Kinds : WriteAlert(l, k)
    <3>1. PICK k \in Kinds : WriteAlert(l, k)
      BY <2>3
    <3>2. /\ alerting' = k /\ told' = [told EXCEPT ![l] = @ \cup {k}]
          /\ dogPc' = "append" /\ UNCHANGED <<cursor, memory, file, listed>>
      BY <3>1 DEF WriteAlert
    <3>3. DogType' /\ told'[l] = told[l] \cup {k} /\ \A m \in LaneSet : told[m] \subseteq told'[m]
      BY <3>2 DEF DogType
    <3>4. RememberedIsTold' /\ MemoryIsTold'
      BY <3>2, <3>3 DEF RememberedIsTold, MemoryIsTold
    <3>5. AtLane' = l
      BY <1>1, <3>2 DEF AtLane
    <3> QED BY <3>2, <3>3, <3>4, <3>5 DEF AlertInHand
  <2> QED BY <1>1, <1>4, <2>1, <2>2, <2>3 DEF CheckLane, AtLane
<1>5. CASE AppendLine
  <2>1. /\ dogPc = "append" /\ dogPc' = "save"
        /\ listed' = [listed EXCEPT ![l] = @ \cup {alerting}]
        /\ UNCHANGED <<cursor, memory, file, alerting, told>>
    BY <1>1, <1>5 DEF AppendLine, AtLane
  <2>2. alerting \in told[l] /\ AtLane' = l
    BY <1>1, <2>1 DEF AlertInHand, AtLane
  <2>3. DogType' /\ listed'[l] = listed[l] \cup {alerting}
        /\ \A m \in LaneSet : listed[m] \subseteq listed'[m]
    BY <2>1, <2>2 DEF DogType
  <2>4. RememberedIsTold' /\ MemoryIsTold'
    BY <2>1, <2>3 DEF RememberedIsTold, MemoryIsTold
  <2> QED BY <2>1, <2>2, <2>3, <2>4 DEF AlertInHand
<1>6. CASE Remember
  <2>1. /\ dogPc = "save" /\ NextLane
        /\ memory' = [memory EXCEPT ![l] = alerting] /\ file' = memory'
        /\ UNCHANGED <<told, listed>>
    BY <1>1, <1>6 DEF Remember, AtLane
  <2>2. alerting \in told[l] \cap listed[l]
    BY <1>1, <2>1 DEF AlertInHand
  <2>3. cursor' \in 1..Len(Lanes) /\ dogPc' \in {"sleep", "check"}
    BY <2>1, NextLaneStays DEF DogType
  <2>4. DogType'
    BY <2>1, <2>2, <2>3 DEF DogType
  <2>5. RememberedIsTold' /\ MemoryIsTold'
    BY <2>1, <2>2 DEF DogType, RememberedIsTold, MemoryIsTold
  <2> QED BY <2>3, <2>4, <2>5 DEF AlertInHand
<1>7. CASE ServerDies
  <2>1. /\ cursor' = 1 /\ dogPc' = "down" /\ memory' = Nothing
        /\ UNCHANGED <<file, told, listed>>
    BY <1>7 DEF ServerDies
  <2> QED BY <1>0, <2>1 DEF Nothing, DogType, RememberedIsTold, MemoryIsTold, AlertInHand
<1>8. CASE LoadState
  <2>1. /\ dogPc' = "sleep" /\ memory' = file /\ UNCHANGED <<cursor, file, told, listed>>
    BY <1>8 DEF LoadState
  <2> QED BY <2>1 DEF DogType, RememberedIsTold, MemoryIsTold, AlertInHand
<1> HIDE DEF DogInv
<1> QED
  BY <1>2, <1>3, <1>4, <1>5, <1>6, <1>7, <1>8 DEF WatchdogNext, Pass, AlertStep

\* An alert that the watchdog keeps quiet about because it remembers it was
\* given: also when the server died between the finding and the memory, or
\* the file of an earlier server was loaded.
THEOREM RememberedAlertsWereTold == WatchdogSpec => []RememberedIsTold
<1>1. WatchdogInit => DogInv
  BY WatchdogAssumption
  DEF WatchdogInit, DogInv, DogType, RememberedIsTold, MemoryIsTold, AlertInHand, Nothing
<1>2. DogInv /\ [WatchdogNext]_watchdog => DogInv'
  BY DogStep
<1>3. DogInv => RememberedIsTold
  BY DEF DogInv
<1> QED BY <1>1, <1>2, <1>3, PTL DEF WatchdogSpec

-----------------------------------------------------------------------------
\* AutoRecover

\* The lane whose restart is awaited
Awaited(l) == at = "await" /\ l \in left /\ \A m \in left : l <= m

StormType ==
    /\ attempts \in [LaneNo -> 0..MaxAttempts]
    /\ storm \in [LaneNo -> Nat]
    /\ left \subseteq LaneNo

\* The restarts of the present illness are among the attempts: a lane that is
\* well, or was well when the present tick looked, has had none.
StormCounted ==
    \A l \in LaneNo :
        /\ l \notin ill => storm[l] = 0
        /\ at # "sleep" /\ l \notin snapshot => storm[l] = 0
        /\ Awaited(l) => attempts[l] < MaxAttempts
        /\ storm[l] <= attempts[l] + (IF Awaited(l) THEN 1 ELSE 0)

StormInv == StormType /\ StormCounted

\* A step of the supervisor or of the lanes keeps the count.
LEMMA StormStep ==
    ASSUME StormInv, [RecoveryNext]_recoveryVars
    PROVE  StormInv'
<1> USE RecoverAssumption DEF StormInv, StormType, StormCounted, Awaited
<1>1. CASE TimePasses \/ UNCHANGED recoveryVars
  BY <1>1 DEF TimePasses, recoveryVars, supervisor
<1>2. ASSUME NEW l \in LaneNo, FallIll(l) PROVE StormInv'
  BY <1>2 DEF FallIll, supervisor
<1>3. ASSUME NEW l \in LaneNo, GetWell(l) PROVE StormInv'
  BY <1>3 DEF GetWell, supervisor
<1>4. CASE Begin
  BY <1>4 DEF Begin
<1>5. CASE End
  BY <1>5 DEF End
<1>6. ASSUME NEW l \in LaneNo, VisitHealthy(l) PROVE StormInv'
  BY <1>6 DEF VisitHealthy, Next1
<1>7. ASSUME NEW l \in LaneNo, VisitFirst(l) \/ VisitHeldBack(l) PROVE StormInv'
  BY <1>7 DEF VisitFirst, VisitHeldBack, Next1
<1>8. ASSUME NEW l \in LaneNo, SendRestart(l) PROVE StormInv'
  BY <1>8 DEF SendRestart, Next1, Eligible
<1>9. ASSUME NEW l \in LaneNo, Restarted(l) PROVE StormInv'
  BY <1>9 DEF Restarted
<1> HIDE RecoverAssumption DEF StormInv, StormType, StormCounted, Awaited
<1> QED
  BY <1>1, <1>2, <1>3, <1>4, <1>5, <1>6, <1>7, <1>8, <1>9 DEF RecoveryNext, SupervisorStep

\* One illness of a lane is answered with at most MaxAttempts restarts, for
\* any number of lanes, any grace, backoff and interval.
THEOREM StormsEnd == RecoverySpec => []StormEnds
<1>1. RecoveryInit => StormInv
  BY RecoverAssumption DEF RecoveryInit, StormInv, StormType, StormCounted, Awaited
<1>2. StormInv /\ [RecoveryNext]_recoveryVars => StormInv'
  BY StormStep
<1>3. StormInv => StormEnds
  BY RecoverAssumption DEF StormInv, StormType, StormCounted, StormEnds
<1> QED BY <1>1, <1>2, <1>3, PTL DEF RecoverySpec

\* 2 ** n is a positive number.
LEMMA TwoToIs ==
    ASSUME NEW n \in Nat
    PROVE  TwoTo(n) \in Nat /\ TwoTo(n) > 0
<1> DEFINE Filled(f, k) == f = [i \in 0..k |-> IF i = 0 THEN 1 ELSE 2 * f[i - 1]]
<1>1. PICK S : S = {k \in Nat : \E f \in [0..k -> Nat \ {0}] : Filled(f, k)}
  OBVIOUS
<1>2. 0 \in S
  <2>1. PICK f : f = [i \in 0..0 |-> 1]
    OBVIOUS
  <2>2. f \in [0..0 -> Nat \ {0}] /\ Filled(f, 0)
    BY <2>1
  <2> QED BY <1>1, <2>2
<1>3. ASSUME NEW k \in Nat, k \in S PROVE k + 1 \in S
  <2>1. PICK f \in [0..k -> Nat \ {0}] : Filled(f, k)
    BY <1>1, <1>3
  <2>2. PICK g : g = [i \in 0..(k + 1) |-> IF i = k + 1 THEN 2 * f[k] ELSE f[i]]
    OBVIOUS
  <2>3. g \in [0..(k + 1) -> Nat \ {0}]
    BY <2>1, <2>2
  <2>4. Filled(g, k + 1)
    <3>1. \A i \in 0..k : g[i] = f[i]
      BY <2>2
    <3>2. \A i \in 0..k : g[i] = IF i = 0 THEN 1 ELSE 2 * g[i - 1]
      BY <2>1, <3>1
    <3>3. g[k + 1] = 2 * g[(k + 1) - 1]
      BY <2>2, <3>1
    <3>4. \A i \in 0..(k + 1) : i \in 0..k \/ (i = k + 1 /\ i # 0)
      OBVIOUS
    <3>5. ASSUME NEW i \in 0..(k + 1) PROVE g[i] = IF i = 0 THEN 1 ELSE 2 * g[i - 1]
      <4>1. CASE i \in 0..k
        BY <3>2, <4>1
      <4>2. CASE i = k + 1 /\ i # 0
        BY <3>3, <4>2
      <4> QED BY <3>4, <4>1, <4>2
    <3> QED BY <2>2, <3>5
  <2> HIDE DEF Filled
  <2> QED BY <1>1, <2>3, <2>4
<1>4. PICK f \in [0..n -> Nat \ {0}] : Filled(f, n)
  <2> HIDE DEF Filled
  <2>1. n \in S
    BY <1>2, <1>3, SetInduction
  <2> QED BY <1>1, <2>1
<1>5. PICK g : g = CHOOSE h : Filled(h, n)
  OBVIOUS
<1>6. Filled(g, n)
  <2> HIDE DEF Filled
  <2> QED BY <1>4, <1>5
<1>7. TwoTo(n) = g[n]
  BY <1>5 DEF TwoTo
<1>8. /\ \A i \in 0..n : f[i] = IF i = 0 THEN 1 ELSE 2 * f[i - 1]
      /\ \A i \in 0..n : g[i] = IF i = 0 THEN 1 ELSE 2 * g[i - 1]
  BY <1>4, <1>6
<1>9. PICK T : T = {i \in Nat : i <= n => g[i] = f[i]}
  OBVIOUS
<1>10. 0 \in T
  BY <1>8, <1>9
<1>11. ASSUME NEW i \in Nat, i \in T PROVE i + 1 \in T
  <2> SUFFICES ASSUME i + 1 <= n PROVE g[i + 1] = f[i + 1]
    BY <1>9
  <2>1. i + 1 \in 0..n /\ i + 1 # 0 /\ (i + 1) - 1 = i /\ i <= n
    OBVIOUS
  <2>2. g[i] = f[i]
    BY <1>9, <1>11, <2>1
  <2>3. g[i + 1] = 2 * g[i] /\ f[i + 1] = 2 * f[i]
    BY <1>8, <2>1
  <2> QED BY <2>2, <2>3
<1>12. g[n] = f[n]
  <2>1. n \in T
    BY <1>10, <1>11, SetInduction
  <2> QED BY <1>9, <2>1
<1> QED BY <1>4, <1>7, <1>12

\* min(base * 2 ** (attempts - 1), cap) is between 0 and the cap.
LEMMA BackoffIs ==
    ASSUME NEW n \in Nat, n > 0
    PROVE  Backoff(n) \in 0..Cap
<1>1. PICK p \in Nat : p = TwoTo(n - 1)
  BY TwoToIs
<1>2. Base \in Nat /\ Cap \in Nat
  BY RecoverAssumption
<1>3. Base * p \in Nat
  BY <1>1, <1>2
<1> QED BY <1>1, <1>2, <1>3 DEF Backoff

\* The clock of the tick is never ahead of the time, and no lane is held back
\* for longer than the cap.
HeldBack == now <= time /\ \A l \in LaneNo : allowed[l] <= now + Cap

RecoveryInv == RecoveryTypeOK /\ HeldBack /\ StormInv

LEMMA RecoveryStep ==
    ASSUME RecoveryInv, [RecoveryNext]_recoveryVars
    PROVE  RecoveryInv'
<1>0. StormInv'
  BY StormStep DEF RecoveryInv
<1> USE RecoverAssumption DEF RecoveryInv, RecoveryTypeOK, HeldBack, Times, Never
<1> SUFFICES RecoveryTypeOK' /\ HeldBack'
  BY <1>0
<1>1. CASE TimePasses \/ UNCHANGED recoveryVars
  <2>1. CASE TimePasses
    BY <2>1 DEF TimePasses, supervisor
  <2>2. CASE UNCHANGED recoveryVars
    BY <2>2 DEF recoveryVars, supervisor
  <2> QED BY <1>1, <2>1, <2>2
<1>2. ASSUME NEW l \in LaneNo, FallIll(l) PROVE RecoveryTypeOK' /\ HeldBack'
  BY <1>2 DEF FallIll, supervisor
<1>3. ASSUME NEW l \in LaneNo, GetWell(l) PROVE RecoveryTypeOK' /\ HeldBack'
  BY <1>3 DEF GetWell, supervisor
<1>4. CASE Begin
  BY <1>4 DEF Begin
<1>5. CASE End
  BY <1>5 DEF End
<1>6. ASSUME NEW l \in LaneNo, VisitHealthy(l) PROVE RecoveryTypeOK' /\ HeldBack'
  BY <1>6 DEF VisitHealthy, Next1
<1>7. ASSUME NEW l \in LaneNo, VisitFirst(l) \/ VisitHeldBack(l) PROVE RecoveryTypeOK' /\ HeldBack'
  BY <1>7 DEF VisitFirst, VisitHeldBack, Next1
<1>8. ASSUME NEW l \in LaneNo, SendRestart(l) PROVE RecoveryTypeOK' /\ HeldBack'
  BY <1>8 DEF SendRestart, Next1, Eligible
<1>9. ASSUME NEW l \in LaneNo, Restarted(l) PROVE RecoveryTypeOK' /\ HeldBack'
  <2>1. PICK b \in 0..Cap : b = Backoff(attempts[l] + 1)
    BY BackoffIs
  <2>2. attempts[l] + 1 \in 0..MaxAttempts
    BY <1>9 DEF Restarted, StormInv, StormCounted, Awaited
  <2>3. allowed' = [allowed EXCEPT ![l] = now + b] /\ attempts' = [attempts EXCEPT ![l] = @ + 1]
    BY <1>9, <2>1 DEF Restarted
  <2> QED BY <1>9, <2>1, <2>2, <2>3 DEF Restarted
<1> HIDE RecoverAssumption DEF RecoveryInv, RecoveryTypeOK, HeldBack, Times, Never
<1> QED
  BY <1>1, <1>2, <1>3, <1>4, <1>5, <1>6, <1>7, <1>8, <1>9 DEF RecoveryNext, SupervisorStep

\* Every variable of the supervisor keeps its type: in particular the attempts
\* stay below max_attempts, and next_allowed_mono is at most the cap away from
\* the tick that set it, however often the backoff has doubled.
THEOREM RecoveryTypeCorrect == RecoverySpec => [](RecoveryTypeOK /\ HeldBack)
<1>1. RecoveryInit => RecoveryInv
  BY RecoverAssumption DEF RecoveryInit, RecoveryInv, RecoveryTypeOK, HeldBack, Times, Never,
     StormInv, StormType, StormCounted, Awaited
<1>2. RecoveryInv /\ [RecoveryNext]_recoveryVars => RecoveryInv'
  BY RecoveryStep
<1>3. RecoveryInv => RecoveryTypeOK /\ HeldBack
  BY DEF RecoveryInv
<1> QED BY <1>1, <1>2, <1>3, PTL DEF RecoverySpec

-----------------------------------------------------------------------------
\* JournalLog

\* A complete line of journal.log
Entry == [rid : Req, status : Statuses] \cup {Garbage}

\* The loop has a dict after every line, each from the one before.
LEMMA ReplayLoopDef ==
    ASSUME NEW log \in Seq(Entry)
    PROVE  ReplayLoop(log) = [i \in 0..Len(log) |->
               IF i = 0 THEN <<>> ELSE ReplayLine(ReplayLoop(log)[i - 1], log[i])]
<1> DEFINE Filled(f, n) ==
        f = [i \in 0..n |-> IF i = 0 THEN <<>> ELSE ReplayLine(f[i - 1], log[i])]
<1>1. PICK S : S = {n \in Nat : \E f : Filled(f, n)}
  OBVIOUS
<1>2. 0 \in S
  <2>1. PICK f : f = [i \in 0..0 |-> <<>>]
    OBVIOUS
  <2>2. Filled(f, 0)
    BY <2>1
  <2> QED BY <1>1, <2>2
<1>3. ASSUME NEW n \in Nat, n \in S PROVE n + 1 \in S
  <2>1. PICK f : Filled(f, n)
    BY <1>1, <1>3
  <2>2. PICK g : g = [i \in 0..(n + 1) |-> IF i = n + 1 THEN ReplayLine(f[n], log[n + 1]) ELSE f[i]]
    OBVIOUS
  <2>3. Filled(g, n + 1)
    <3>1. \A i \in 0..(n + 1) : g[i] = IF i = 0 THEN <<>> ELSE ReplayLine(g[i - 1], log[i])
      BY <2>1, <2>2
    <3> QED BY <2>2, <3>1
  <2> HIDE DEF Filled
  <2> QED BY <1>1, <2>3
<1>4. Len(log) \in S
  <2> HIDE DEF Filled
  <2> QED BY <1>2, <1>3, SetInduction
<1>5. \E f : Filled(f, Len(log))
  BY <1>1, <1>4
<1>6. ReplayLoop(log) = CHOOSE f : Filled(f, Len(log))
  BY DEF ReplayLoop
<1>7. Filled(ReplayLoop(log), Len(log))
  <2> HIDE DEF Filled
  <2> QED BY <1>5, <1>6
<1> QED BY <1>7

\* One more line: replay() reads what it read before, and then the line.
LEMMA ReplayOneMore ==
    ASSUME NEW log \in Seq(Entry), NEW entry \in Entry
    PROVE  ReplayLoop(Append(log, entry))[Len(log) + 1]
             = ReplayLine(ReplayLoop(log)[Len(log)], entry)
<1>1. PICK n \in Nat : n = Len(log)
  OBVIOUS
<1>2. PICK more : more = Append(log, entry)
  OBVIOUS
<1>3. /\ more \in Seq(Entry) /\ Len(more) = n + 1 /\ more[n + 1] = entry
      /\ \A i \in 1..n : more[i] = log[i]
  BY <1>1, <1>2
<1>4. PICK f, g : f = ReplayLoop(log) /\ g = ReplayLoop(more)
  OBVIOUS
<1>5. \A i \in 0..n : f[i] = IF i = 0 THEN <<>> ELSE ReplayLine(f[i - 1], log[i])
  BY <1>1, <1>4, ReplayLoopDef
<1>6. \A i \in 0..(n + 1) : g[i] = IF i = 0 THEN <<>> ELSE ReplayLine(g[i - 1], more[i])
  BY <1>3, <1>4, ReplayLoopDef
<1>7. PICK S : S = {i \in Nat : i <= n => g[i] = f[i]}
  OBVIOUS
<1>8. 0 \in S
  BY <1>5, <1>6, <1>7
<1>9. ASSUME NEW i \in Nat, i \in S PROVE i + 1 \in S
  <2> SUFFICES ASSUME i + 1 <= n PROVE g[i + 1] = f[i + 1]
    BY <1>7
  <2>1. i + 1 \in 1..n /\ i + 1 \in 0..(n + 1) /\ i + 1 # 0 /\ (i + 1) - 1 = i
    OBVIOUS
  <2>2. g[i] = f[i] /\ more[i + 1] = log[i + 1]
    BY <1>3, <1>7, <1>9, <2>1
  <2>3. g[i + 1] = ReplayLine(g[i], more[i + 1]) /\ f[i + 1] = ReplayLine(f[i], log[i + 1])
    BY <1>5, <1>6, <2>1
  <2> QED BY <2>2, <2>3
<1>10. n \in S
  BY <1>8, <1>9, SetInduction
<1>11. g[n] = f[n]
  BY <1>7, <1>10
<1>12. g[n + 1] = ReplayLine(g[n], more[n + 1])
  BY <1>6
<1> QED BY <1>1, <1>2, <1>3, <1>4, <1>11, <1>12

\* Every line is an entry or garbage, and replay() ends with one of the three
\* statuses for each id it has met.
LogInv ==
    /\ lines \in Seq(Entry) /\ partial \in Entry \cup {NoLine}
    /\ \A r \in DOMAIN Terminated : Terminated[r] \in {"PENDING_INDOUBT", "APPLIED", "REJECTED"}

\* The dict new has what states had, and the status of r.
Adds(new, states, r, status) ==
    /\ DOMAIN new = DOMAIN states \cup {r}
    /\ \A q \in DOMAIN states : q # r => new[q] = states[q]
    /\ new[r] = IF status # "PENDING" THEN status
                ELSE IF r \in DOMAIN states THEN states[r] ELSE "PENDING_INDOUBT"

\* The dict after a line, key by key.
LEMMA ReplayLineIs ==
    ASSUME NEW states, NEW r, NEW status \in Statuses,
           NEW new, new = ReplayLine(states, [rid |-> r, status |-> status])
    PROVE  Adds(new, states, r, status)
<1>0. PICK entry : entry = [rid |-> r, status |-> status]
  OBVIOUS
<1>1. entry # Garbage /\ entry.rid = r /\ entry.status = status /\ new = ReplayLine(states, entry)
  BY <1>0 DEF Garbage, Statuses
<1>2. CASE status = "PENDING" /\ r \in DOMAIN states
  BY <1>1, <1>2 DEF ReplayLine, Adds
<1>3. CASE ~(status = "PENDING" /\ r \in DOMAIN states)
  <2>1. new = SetItem(states, r, Meaning(status))
    BY <1>1, <1>3 DEF ReplayLine
  <2>2. new = [x \in DOMAIN states \cup {r} |-> IF x = r THEN Meaning(status) ELSE states[x]]
    BY <2>1 DEF SetItem
  <2> QED BY <1>3, <2>2 DEF Meaning, Adds
<1> QED BY <1>2, <1>3

\* NoLine is no entry, and what is glued to nothing is the entry.
LEMMA GluedIs ==
    ASSUME NEW r \in Req, NEW status \in Statuses
    PROVE  /\ Glued(r, status) \in Entry
           /\ partial = NoLine => Glued(r, status) = [rid |-> r, status |-> status]
           /\ partial # NoLine => Glued(r, status) = Garbage
           /\ Garbage # NoLine /\ Glued(r, status) # NoLine
<1>1. \A entry \in Entry : entry # NoLine
  BY DEF Entry, Garbage, NoLine, Statuses
<1>2. Glued(r, status) \in Entry /\ Garbage \in Entry
  BY DEF Glued, Entry
<1> QED BY <1>1, <1>2 DEF Glued

\* An entry changes the map of its own request only, as JournalMap says.
LEMMA EntryEnters ==
    ASSUME NEW old, NEW new, NEW r \in Req, NEW status \in Statuses,
           \A q \in DOMAIN old : old[q] \in {"PENDING_INDOUBT", "APPLIED", "REJECTED"},
           new = ReplayLine(old, [rid |-> r, status |-> status])
    PROVE  /\ \A q \in DOMAIN new : new[q] \in {"PENDING_INDOUBT", "APPLIED", "REJECTED"}
           /\ Lookup(new) = [Lookup(old) EXCEPT ![r] = Map!Collapse(@, status)]
<1>1. Adds(new, old, r, status)
  BY ReplayLineIs
<1>2. \A q \in DOMAIN new : new[q] \in {"PENDING_INDOUBT", "APPLIED", "REJECTED"}
  BY <1>1 DEF Statuses, Adds
<1>3. Lookup(new) = [Lookup(old) EXCEPT ![r] = Map!Collapse(@, status)]
  BY <1>1 DEF Lookup, Map!Collapse, Adds
<1> QED BY <1>2, <1>3

\* A complete line changes the map of its own request only, or is lost.
LEMMA WriteStep ==
    ASSUME LogInv, NEW r \in Req, NEW status \in Statuses, Write(r, status)
    PROVE  LogInv' /\ Map!JournalAppend(r, status)
<1>1. PICK entry \in Entry : entry = Glued(r, status)
  BY GluedIs
<1>2. lines' = Append(lines, entry) /\ partial' = NoLine
  BY <1>1 DEF Write
<1>3. PICK old, new : old = Terminated /\ new = Terminated'
  OBVIOUS
<1>4. lines \in Seq(Entry) /\ lines' \in Seq(Entry) /\ Len(lines') = Len(lines) + 1
  BY <1>2 DEF LogInv
<1>5. new = ReplayLine(old, entry)
  BY <1>2, <1>3, <1>4, ReplayOneMore DEF Terminated
<1>6. \A q \in DOMAIN old : old[q] \in {"PENDING_INDOUBT", "APPLIED", "REJECTED"}
  BY <1>3 DEF LogInv
<1>7. Replay' = Lookup(Terminated)' /\ ~(partial # NoLine)'
  BY <1>2 DEF Replay
<1>8. CASE partial # NoLine
  <2>1. new = old
    BY <1>1, <1>5, <1>8, GluedIs DEF ReplayLine
  <2>2. Lookup(Terminated)' = Lookup(Terminated)
    BY <1>3, <2>1 DEF Lookup
  <2> QED BY <1>2, <1>3, <1>4, <1>6, <1>7, <1>8, <2>1, <2>2 DEF LogInv, Map!JournalAppend
<1>9. CASE partial = NoLine
  <2>1. new = ReplayLine(old, [rid |-> r, status |-> status])
    BY <1>1, <1>5, <1>9, GluedIs
  <2>2. /\ \A q \in DOMAIN new : new[q] \in {"PENDING_INDOUBT", "APPLIED", "REJECTED"}
        /\ Lookup(new) = [Lookup(old) EXCEPT ![r] = Map!Collapse(@, status)]
    BY <1>6, <2>1, EntryEnters
  <2>3. Lookup(Terminated)' = Lookup(new)
    BY <1>3 DEF Lookup
  <2>4. Lookup(Terminated)' = Map!Entered(r, status)
    BY <1>3, <2>2, <2>3 DEF Map!Entered
  <2> QED BY <1>2, <1>3, <1>4, <1>7, <1>9, <2>2, <2>4 DEF LogInv, Map!JournalAppend
<1> QED BY <1>8, <1>9

\* A line without its newline: garbage, or an entry for the time being.
LEMMA TearStep ==
    ASSUME LogInv, NEW r \in Req, NEW status \in Statuses, Tear(r, status)
    PROVE  LogInv' /\ Map!JournalTear(r, status)
<1>1. lines' = lines /\ partial' \in {Garbage, Glued(r, status)}
  BY DEF Tear
<1>2. Terminated' = Terminated /\ Lookup(Terminated)' = Lookup(Terminated)
  BY <1>1 DEF Terminated, Lookup
<1>3. partial' # NoLine /\ partial' \in Entry /\ LogInv'
  BY <1>1, <1>2, GluedIs DEF LogInv, Entry
<1>4. PICK old : old = Terminated
  OBVIOUS
<1>5. Replay' = Lookup(ReplayLine(old, partial'))
  BY <1>2, <1>3, <1>4 DEF Replay, Lookup
<1>6. CASE partial' = Garbage
  <2>1. Replay' = Lookup(old)
    BY <1>5, <1>6 DEF ReplayLine
  <2> QED BY <1>2, <1>3, <1>4, <2>1 DEF Map!JournalTear
<1>7. CASE partial' # Garbage
  <2>1. partial = NoLine /\ partial' = [rid |-> r, status |-> status]
    BY <1>1, <1>7, GluedIs
  <2>2. Replay' = [Lookup(old) EXCEPT ![r] = Map!Collapse(@, status)]
    <3>1. PICK new : new = ReplayLine(old, [rid |-> r, status |-> status])
      OBVIOUS
    <3>2. Replay' = Lookup(new)
      BY <1>5, <2>1, <3>1
    <3>3. \A q \in DOMAIN old : old[q] \in {"PENDING_INDOUBT", "APPLIED", "REJECTED"}
      BY <1>4 DEF LogInv
    <3>4. Lookup(new) = [Lookup(old) EXCEPT ![r] = Map!Collapse(@, status)]
      BY <3>1, <3>3, EntryEnters
    <3> QED BY <3>2, <3>4
  <2>3. Replay' = Map!Entered(r, status)
    BY <1>4, <2>2 DEF Map!Entered
  <2> QED BY <1>2, <1>3, <2>1, <2>3 DEF Map!JournalTear
<1> QED BY <1>6, <1>7

\* Appending to journal.log and replaying it is the update of the map that the
\* applier reasons with: for any requests, any length of the log and any torn
\* lines (Journal._append, Journal.replay).
THEOREM JournalIsTheMap == JournalLogSpec => ImplementsMap
<1>1. JournalLogInit => LogInv /\ Map!JournalInit
  <2> SUFFICES ASSUME JournalLogInit PROVE LogInv /\ Map!JournalInit
    OBVIOUS
  <2>1. lines = <<>> /\ partial = NoLine /\ lines \in Seq(Entry) /\ Len(lines) = 0
    BY DEF JournalLogInit
  <2>2. Terminated = <<>>
    <3>1. PICK log \in Seq(Entry) : log = lines
      BY <2>1
    <3>2. PICK f : f = ReplayLoop(log)
      OBVIOUS
    <3>3. f = [i \in 0..Len(log) |-> IF i = 0 THEN <<>> ELSE ReplayLine(f[i - 1], log[i])]
      BY <3>2, ReplayLoopDef
    <3>4. f[0] = <<>>
      BY <2>1, <3>1, <3>3
    <3> QED BY <2>1, <3>1, <3>2, <3>4 DEF Terminated
  <2>3. DOMAIN Terminated = {}
    BY <2>2
  <2>4. Lookup(Terminated) = [r \in Req |-> "NONE"] /\ Replay = Lookup(Terminated)
    BY <2>1, <2>3 DEF Replay, Lookup
  <2> QED BY <2>1, <2>3, <2>4 DEF LogInv, Map!JournalInit
<1> DEFINE Seen == <<Replay, Lookup(Terminated), partial # NoLine>>
           MapNext == \E r \in Req, status \in Map!Statuses :
                         Map!JournalAppend(r, status) \/ Map!JournalTear(r, status)
<1>2. LogInv /\ [JournalLogNext]_journalLog => LogInv' /\ [MapNext]_Seen
  <2> SUFFICES ASSUME LogInv, [JournalLogNext]_journalLog
               PROVE  LogInv' /\ [MapNext]_Seen
    OBVIOUS
  <2>1. ASSUME NEW r \in Req, NEW status \in Statuses, Write(r, status) \/ Tear(r, status)
        PROVE  LogInv' /\ (Map!JournalAppend(r, status) \/ Map!JournalTear(r, status))
    BY <2>1, WriteStep, TearStep
  <2>2. CASE UNCHANGED journalLog
    <3>1. lines' = lines /\ partial' = partial
      BY <2>2 DEF journalLog
    <3>2. Terminated' = Terminated /\ Replay' = Replay /\ Lookup(Terminated)' = Lookup(Terminated)
      BY <3>1 DEF Terminated, Replay, Lookup
    <3> QED BY <3>1, <3>2 DEF LogInv
  <2>3. Statuses = Map!Statuses
    BY DEF Statuses, Map!Statuses
  <2> QED BY <2>1, <2>2, <2>3 DEF JournalLogNext
<1> QED BY <1>1, <1>2, PTL DEF JournalLogSpec, ImplementsMap, Map!JournalSpec

=============================================================================
