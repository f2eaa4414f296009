------------------------------ MODULE MCQueue ------------------------------
(***************************************************************************)
(* Instances of QueueApplier.  One mission with two lanes, tasks, agents   *)
(* and phases, the requests its clients may submit, and the workloads: the *)
(* requests that meet in one behaviour.                                    *)
(***************************************************************************)
EXTENDS QueueRefinement

MCLine == {"l0", "l1", "l2"}

\* l1 is a substring of l2.  The mission starts in PA and l2 announces PB.
MCWithin == [l \in MCLine |-> IF l = "l1" THEN {"l1", "l2"} ELSE {l}]
MCAnnounces == [l0 |-> "PA", l1 |-> None, l2 |-> "PB"]
MCEvents0 == <<"l0">>

Plain == [intent |-> "HISTORY_APPEND", shape |-> "ok", agent |-> "ag1",
          lane |-> "A", task |-> "t1", after |-> None, line |-> "l1",
          required_phase |-> None, hash |-> FALSE]

Update == [Plain EXCEPT !.intent = "STATUS_UPDATE"]
Event  == [Plain EXCEPT !.intent = "MISSION_EVENT_APPEND", !.line = "l2"]
Claim  == [Plain EXCEPT !.intent = "CLAIM_DIR_CREATE"]

MCBody ==
    [\* two clients append the same line; a third corrects the event log
     append     |-> Plain,
     same       |-> Plain,
     correct    |-> [Event EXCEPT !.intent = "MISSION_EVENT_CORRECTION"],
     \* a phase flip that requires the phase it leaves, an append that
     \* requires the phase it enters, and a file that does not parse
     flip       |-> [Event EXCEPT !.required_phase = "PA"],
     entered    |-> [Plain EXCEPT !.required_phase = "PB"],
     garbled    |-> [Plain EXCEPT !.shape = "undecodable"],
     \* two updates of one lane's row, one guarded by a hash; a bracket
     update     |-> Update,
     guarded    |-> [Update EXCEPT !.hash = TRUE],
     bracket    |-> [Plain EXCEPT !.intent = "TASKS_BRACKET"],
     \* a task is injected behind another, then bracketed; a row is inserted
     inject     |-> [Plain EXCEPT !.intent = "TASKS_INJECT", !.task = "t2",
                                  !.after = "t1"],
     injected   |-> [Plain EXCEPT !.intent = "TASKS_BRACKET", !.task = "t2"],
     insert     |-> [Plain EXCEPT !.intent = "STATUS_ROW_INSERT", !.lane = "B"],
     \* two agents claim one task, the first of them twice and marks it done
     claim      |-> Claim,
     rival      |-> [Claim EXCEPT !.agent = "ag2"],
     done       |-> [Plain EXCEPT !.intent = "CLAIM_DIR_DONE"],
     claimAgain |-> Claim,
     \* a line its handler refuses, and an object that does not validate
     badline    |-> [Plain EXCEPT !.shape = "badline"],
     invalid    |-> [Update EXCEPT !.shape = "invalid"]]

MCReq == DOMAIN MCBody

CrashWorkloads ==
    {{"append", "same"}, {"flip", "entered"}, {"flip", "correct"},
     {"update", "guarded"}, {"inject", "injected"}, {"insert", "bracket"},
     {"claim", "rival", "done"}, {"claim", "claimAgain"}}

FaultWorkloads ==
    {{"flip", "entered", "garbled"}, {"inject", "injected"},
     {"claim", "claimAgain", "done"}, {"badline", "invalid", "insert"}}

\* The order of the file names: not that of the workloads.
Names ==
    <<"claimAgain", "same", "entered", "guarded", "injected", "rival",
      "invalid", "correct", "garbled", "bracket", "insert", "done", "append",
      "flip", "update", "inject", "claim", "badline">>

MCRank == [r \in MCReq |-> CHOOSE i \in 1..Len(Names) : Names[i] = r]

=============================================================================
