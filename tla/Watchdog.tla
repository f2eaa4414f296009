------------------------------ MODULE Watchdog ------------------------------
(* The lane-health watchdog of the server: every minute a pass over the lanes *)
(* (watchdog/daemon.py, detectors.py) alerts on what it finds, once per       *)
(* episode, as a finding, as a line of watchdog-alerts.jsonl and in the       *)
(* memory that the next server loads (watchdog/alerts.py).                    *)
(*                                                                            *)
(* A lane is "sick" in the ways its detectors tell apart, and its pid file    *)
(* may be missing.  HUNG is not one of a lane's own: _find_jsonl takes the    *)
(* newest transcript of the machine, so it is the same for every claude lane. *)
EXTENDS Naturals, Sequences, SequencesExt, FiniteSetsExt

CONSTANTS Lanes,           \* the lanes of the mission, in the order of its configuration
          Claude,          \* those whose harness is claude
          MaxChanges,      \* bound on changes of the lanes' health
          MaxServerDeaths  \* bound on deaths of the server

\* A mission configuration has at least one lane.
ASSUME WatchdogAssumption == Lanes \in Seq(STRING) /\ Lanes # <<>>

VARIABLES sick,                  \* lane -> subset of Ails
          quiet,                 \* no session transcript of the machine is fresh
          unreadable,            \* STATUS.md cannot be decoded: its detector raises
          dogPc, cursor,         \* the pass: "down", "sleep", "check", "append", "save"; the lane it is at
          memory,                \* AlertManager._state: lane -> last_alert_type
          file,                  \* .scratch/watchdog/state.json
          alerting,              \* the kind being alerted, between its finding and its memory
          told,                  \* lane -> kinds written as findings since the lane was last seen well
          listed,                \* lane -> kinds given a line of the alert log since then, or lost for it
          changes, serverDeaths  \* changes of health and deaths so far

watchdog == <<sick, quiet, unreadable, dogPc, cursor, memory, file, alerting, told, listed, changes, serverDeaths>>

LaneSet == ToSet(Lanes)
Nothing == [l \in LaneSet |-> "none"]
Kinds == {"CRASHED", "STATUS-STALE", "HUNG", "STREAM-LOG-SIZE"}
Ails == (Kinds \ {"HUNG"}) \cup {"NO-PID"}

WatchdogInit ==
  /\ sick = [l \in LaneSet |-> {}] /\ quiet = FALSE /\ unreadable = FALSE
  /\ dogPc = "sleep" /\ cursor = 1
  /\ memory = Nothing /\ file = Nothing /\ alerting = "none"
  /\ told = [l \in LaneSet |-> {}] /\ listed = told
  /\ changes = 0 /\ serverDeaths = 0

\* S1 to S4 in the order of the pass: the first one that fires is the lane's alert.
\* Without a pid the first and the third are skipped.  The STATUS.md detector is
\* reached only when the process is not found dead.
Detect(l) ==
  IF "CRASHED" \in sick[l] /\ "NO-PID" \notin sick[l] THEN "CRASHED"
  ELSE IF unreadable THEN "raises"
  ELSE IF "STATUS-STALE" \in sick[l] THEN "STATUS-STALE"
  ELSE IF quiet /\ l \in Claude /\ "NO-PID" \notin sick[l] THEN "HUNG"
  ELSE IF "STREAM-LOG-SIZE" \in sick[l] THEN "STREAM-LOG-SIZE"
  ELSE "well"

Health ==
  /\ changes < MaxChanges /\ changes' = changes + 1
  /\ \/ \E l \in LaneSet, k \in Ails:
          /\ sick' = [sick EXCEPT ![l] = IF k \in @ THEN @ \ {k} ELSE @ \cup {k}]
          /\ UNCHANGED <<quiet, unreadable>>
     \/ quiet' = ~quiet /\ UNCHANGED <<sick, unreadable>>
     \/ unreadable' = ~unreadable /\ UNCHANGED <<sick, quiet>>
  /\ UNCHANGED <<dogPc, cursor, memory, file, alerting, told, listed, serverDeaths>>

StartPass ==
  /\ dogPc = "sleep"
  /\ dogPc' = "check" /\ cursor' = 1
  /\ UNCHANGED <<sick, quiet, unreadable, memory, file, alerting, told, listed, changes, serverDeaths>>

\* After a lane comes the next one, after the last one the sleep.
NextLane ==
  /\ cursor' = IF cursor = Len(Lanes) THEN 1 ELSE cursor + 1
  /\ dogPc' = IF cursor = Len(Lanes) THEN "sleep" ELSE "check"

\* recover: forget what was said of the lane, in memory and on disk.
Recover(l) ==
  /\ memory' = [memory EXCEPT ![l] = "none"] /\ file' = memory'
  /\ told' = [told EXCEPT ![l] = {}] /\ listed' = [listed EXCEPT ![l] = {}]
  /\ NextLane /\ UNCHANGED alerting

\* alert: the same kind as last time is not repeated; otherwise the finding is
\* written first.
WriteAlert(l, kind) ==
  /\ alerting' = kind /\ told' = [told EXCEPT ![l] = @ \cup {kind}]
  /\ dogPc' = "append" /\ cursor' = cursor
  /\ UNCHANGED <<memory, file, listed>>

\* Mutation of Known: a lane that was alerted is not alerted again, whatever the kind.
KnownAnyKind(l, kind) == memory[l] # "none"

Known(l, kind) == memory[l] = kind

\* One lane of the pass.  A detector that raises ends the pass for all that follow.
CheckLane ==
  LET l == Lanes[cursor]
      found == Detect(l)
  IN /\ dogPc = "check"
     /\ \/ found = "well" /\ Recover(l)
        \/ found = "raises" /\ dogPc' = "sleep" /\ cursor' = 1
           /\ UNCHANGED <<memory, file, alerting, told, listed>>
        \/ found \in Kinds /\ Known(l, found) /\ NextLane
           /\ UNCHANGED <<memory, file, alerting, told, listed>>
        \/ found \in Kinds /\ ~Known(l, found) /\ WriteAlert(l, found)
     /\ UNCHANGED <<sick, quiet, unreadable, changes, serverDeaths>>

\* The line of the alert log; an OSError is swallowed, the line is then lost.
AppendLine ==
  LET l == Lanes[cursor]
  IN /\ dogPc = "append" /\ dogPc' = "save"
     /\ listed' = [listed EXCEPT ![l] = @ \cup {alerting}]
     /\ UNCHANGED <<sick, quiet, unreadable, cursor, memory, file, alerting, told, changes, serverDeaths>>

\* Mutation of AlertStep: the alert is remembered before it is written.
AlertStepRemembersFirst ==
  \/ /\ dogPc = "append"
     /\ memory' = [memory EXCEPT ![Lanes[cursor]] = alerting] /\ file' = memory'
     /\ dogPc' = "save"
     /\ UNCHANGED <<sick, quiet, unreadable, cursor, alerting, told, listed, changes, serverDeaths>>
  \/ /\ dogPc = "save" /\ NextLane
     /\ listed' = [listed EXCEPT ![Lanes[cursor]] = @ \cup {alerting}] /\ alerting' = "none"
     /\ UNCHANGED <<sick, quiet, unreadable, memory, file, told, changes, serverDeaths>>

\* Only then is the alert remembered and the memory saved.
Remember ==
  LET l == Lanes[cursor]
  IN /\ dogPc = "save"
     /\ memory' = [memory EXCEPT ![l] = alerting] /\ file' = memory'
     /\ alerting' = "none"
     /\ NextLane
     /\ UNCHANGED <<sick, quiet, unreadable, told, listed, changes, serverDeaths>>

AlertStep == AppendLine \/ Remember

\* The server may die anywhere; the next one loads the file, which is replaced whole.
ServerDies ==
  /\ dogPc # "down" /\ serverDeaths < MaxServerDeaths
  /\ serverDeaths' = serverDeaths + 1 /\ dogPc' = "down" /\ cursor' = 1 /\ memory' = Nothing /\ alerting' = "none"
  /\ UNCHANGED <<sick, quiet, unreadable, file, told, listed, changes>>

LoadState ==
  /\ dogPc = "down"
  /\ memory' = file /\ dogPc' = "sleep"
  /\ UNCHANGED <<sick, quiet, unreadable, cursor, file, alerting, told, listed, changes, serverDeaths>>

Pass == StartPass \/ CheckLane \/ AlertStep

WatchdogNext == Health \/ Pass \/ ServerDies \/ LoadState

WatchdogSpec == WatchdogInit /\ [][WatchdogNext]_watchdog /\ WF_watchdog(Pass \/ LoadState)

-----------------------------------------------------------------------------
(* Properties.                                                                *)

\* The memory never silences an alert nobody was given: a kind that is remembered,
\* on disk across deaths of the server too, was written as a finding since the lane
\* was last seen well, and its line of the alert log was tried.
RememberedIsTold ==
  \A l \in LaneSet: file[l] # "none" => file[l] \in told[l] \cap listed[l]

\* A lane that stays sick in one way is told of in that way, whatever was said of it
\* before, once STATUS.md can be read and the server is no longer restarted.
SickIsTold ==
  \A l \in LaneSet, k \in {"CRASHED", "STATUS-STALE"}:
    <>[](Detect(l) = k /\ ~unreadable) => <>[](k \in told[l])
=============================================================================
