------------------------------- MODULE MCWork -------------------------------
(* The agents' work: claims, reclaims and signals of two agents, one close    *)
(* with its crashes, timeouts and resumes from every kind of claim, the       *)
(* journal both write through, the watchdog of two lanes and the supervisor   *)
(* that restarts them. They share no state here: a behaviour is one of them,  *)
(* and the state space is their sum.                                          *)
EXTENDS MCBlackboard, AtomicClose, JournalLog, Watchdog, AutoRecover

VARIABLE part

\* What is not as a close expects it to be.
Amiss ==
  {doc \in {"claims", "TASKS", "STATUS", "notes"} :
      CASE doc = "claims" -> claimDir \notin {"mine", "ownerless"}
        [] doc = "TASKS"  -> taskLine # "one"
        [] doc = "STATUS" -> laneRow.owner # "mine"
        [] doc = "notes"  -> laneRow.says # "busy"}

MCLanes == <<"a", "b">>

WorkInit ==
  /\ part \in {"tasks", "close", "journal", "watchdog", "recovery"}
  /\ Init /\ CloseInit /\ JournalLogInit /\ WatchdogInit /\ RecoveryInit
  \* a close finds one thing amiss at most; a part that rests begins in one state
  /\ part = "close" => Cardinality(Amiss) <= 1
  /\ part # "close" => claimDir = "theirs" /\ laneRow.owner = "theirs"
                       /\ laneRow.says = "busy" /\ taskLine = "one"

WorkNext ==
  /\ UNCHANGED part
  /\ \/ part = "tasks" /\ Next
     \/ part = "close" /\ CloseNext
     \/ part = "journal" /\ JournalLogNext
     \/ part = "watchdog" /\ WatchdogNext
     \/ part = "recovery" /\ RecoveryNext
  /\ IF part = "tasks" THEN TRUE ELSE UNCHANGED vars
  /\ IF part = "close" THEN TRUE ELSE UNCHANGED closeVars
  /\ IF part = "journal" THEN TRUE ELSE UNCHANGED journalLog
  /\ IF part = "watchdog" THEN TRUE ELSE UNCHANGED watchdog
  /\ IF part = "recovery" THEN TRUE ELSE UNCHANGED recoveryVars

work_vars == <<part, vars, closeVars, journalLog, watchdog, recoveryVars>>

\* The fairness of Blackboard, AtomicClose and Watchdog.
WorkSpec ==
  /\ WorkInit /\ [][WorkNext]_work_vars
  /\ WF_vars(part = "tasks" /\ ReclaimStep)
  /\ \A a \in Agent :
       /\ WF_vars(part = "tasks" /\ ReclaimDead(a))
       /\ WF_vars(part = "tasks" /\ ApplyUpdate(a))
  /\ WF_closeVars(part = "close" /\ CloseStep)
  /\ WF_closeVars(part = "close" /\ BeginResume)
  /\ WF_closeVars(part = "close" /\ QueueAnswers)
  /\ WF_watchdog(part = "watchdog" /\ (Pass \/ LoadState))

=============================================================================
