---------------------------- MODULE AtomicClose ----------------------------
(***************************************************************************)
(* The RULE-10 close of one task (scripts/atomic_close.py,                 *)
(* scripts/_shared_state.py): four writes through the queue, in order,     *)
(* under a journal of their own, and --resume, which an operator runs when *)
(* a close ended PARTIAL or its process died.  The queue is seen from      *)
(* outside: it answers requests in the order of their submission, at some  *)
(* later time, perhaps after the client has given up waiting.              *)
(***************************************************************************)
EXTENDS Naturals, Sequences, FiniteSets

CONSTANTS
    Claims0,      \* what claims/<task> may be when the close begins
    Lane0,        \* whom the lane's STATUS.md row may belong to
    Says0,        \* what it may say: "busy", or "alike", see Idempotent
    Tasks0,       \* what TASKS.md may have of the task
    Window,       \* history_append calls rows this close in time the same
    MaxClock,     \* bound: the clock
    MaxMishaps,   \* bound: deaths of the closing process, waits for the queue
                  \* that time out, and requests the applier fails at
    MaxOthers,    \* bound: rows that history_append may take for the close's
    TornWrites    \* whether dying inside _write_journal leaves half a file

Steps == {"CLAIM_DIR_DONE", "TASKS_BRACKET", "HISTORY_APPEND", "STATUS_UPDATE"}

\* The order of RULE 10
Place(s) ==
    CASE s = "CLAIM_DIR_DONE" -> 1
      [] s = "TASKS_BRACKET"  -> 2
      [] s = "HISTORY_APPEND" -> 3
      [] s = "STATUS_UPDATE"  -> 4

\* owner.txt may be missing, empty, or name someone; a lane or a task may have
\* no line in its document, or two, which only the applier objects to.
ClaimStates == {"missing", "ownerless", "empty", "mine", "theirs"}
LaneOwners == {"none", "mine", "twice", "theirs"}
TaskLines == {"none", "one", "twice"}

ASSUME CloseAssumption ==
    /\ Claims0 \subseteq ClaimStates /\ Lane0 \subseteq LaneOwners
    /\ Says0 \subseteq {"busy", "alike"} /\ Tasks0 \subseteq TaskLines
    /\ {Window, MaxClock, MaxMishaps, MaxOthers} \subseteq Nat
    /\ TornWrites \in BOOLEAN

VARIABLES
    clock,
    claimDir,  \* claims/<task>, one of ClaimStates
    doneFile,  \* claims/<task>/done exists
    taskLine,  \* what TASKS.md has of the task
    bracket,   \* its line says [done: ...]
    rows,      \* the UTCs of the HISTORY.md rows this close wrote
    others,    \* the UTCs of other rows with the agent's and the task's id in them
    laneRow,   \* the STATUS.md row: whose it is, and what it says
    queue,     \* the submitted requests that are not answered: [step, utc]
    answer,    \* what became of the request the process waits for
    journal,   \* .scripts-journal/<id>.json: its status and its ok steps
    closer,    \* "off", "step" (at the next step) or "wait" (for the queue)
    todo,      \* the steps that are left
    oks,       \* the steps that went well, in memory
    utc,       \* the UTC execute_close runs with; 0 in resume_close
    mishaps

effects == <<doneFile, bracket, rows, laneRow>>
closeDocs == <<effects, claimDir, taskLine, others>>
proc == <<closer, todo, oks, utc>>
closeVars == <<clock, closeDocs, queue, answer, journal, proc, mishaps>>

JournalStatus == {"none", "PENDING", "PARTIAL", "COMPLETE", "RESUMED-COMPLETE",
                  "torn"}

CloseTypeOK ==
    /\ clock \in 1..(MaxClock + 1)
    /\ claimDir \in ClaimStates /\ taskLine \in TaskLines
    /\ doneFile \in BOOLEAN /\ bracket \in BOOLEAN
    /\ rows \subseteq 1..(MaxClock + 1) /\ others \subseteq 1..(MaxClock + 1)
    /\ laneRow \in [owner : LaneOwners, says : {"busy", "alike", "done"}]
    /\ queue \in Seq([step : Steps, utc : 1..(MaxClock + 1)])
    /\ answer \in {"none", "applied", "rejected"}
    /\ journal \in [status : JournalStatus, ok : SUBSET Steps]
    /\ closer \in {"off", "step", "wait"}
    /\ todo \subseteq Steps /\ oks \subseteq Steps
    /\ utc \in 0..(MaxClock + 1)
    /\ mishaps \in 0..MaxMishaps

CloseInit ==
    /\ clock = 1
    /\ claimDir \in Claims0 /\ taskLine \in Tasks0
    /\ doneFile = FALSE /\ bracket = FALSE /\ rows = {} /\ others = {}
    /\ \E o \in Lane0, say \in Says0 : laneRow = [owner |-> o, says |-> say]
    /\ queue = <<>> /\ answer = "none"
    /\ journal = [status |-> "none", ok |-> {}]
    /\ closer = "off" /\ todo = {} /\ oks = {} /\ utc = 0
    /\ mishaps = 0

Mishap == mishaps < MaxMishaps /\ mishaps' = mishaps + 1

Tick ==
    /\ clock <= MaxClock
    /\ clock' = clock + 1
    /\ UNCHANGED <<closeDocs, queue, answer, journal, proc, mishaps>>

\* Another close writes a row that names the agent and contains the task's id:
\* of a task whose id contains this one's, or with both in its notes.
OtherRow ==
    /\ clock \notin others /\ Cardinality(others) < MaxOthers
    /\ others' = others \cup {clock}
    /\ UNCHANGED <<clock, effects, claimDir, taskLine, queue, answer, journal, proc,
                   mishaps>>

-----------------------------------------------------------------------------
\* The closing process

\* execute_close: the journal says PENDING before the first step.
BeginClose ==
    /\ closer = "off" /\ journal.status = "none"
    /\ journal' = [status |-> "PENDING", ok |-> {}]
    /\ closer' = "step" /\ todo' = Steps /\ oks' = {} /\ utc' = clock
    /\ UNCHANGED <<clock, closeDocs, queue, answer, mishaps>>

\* Mutant: only a PARTIAL close is resumed.
BeginResumePartial ==
    /\ closer = "off" /\ journal.status = "PARTIAL"
    /\ closer' = "step"
    /\ todo' = Steps \ journal.ok
    /\ oks' = journal.ok
    /\ utc' = 0
    /\ UNCHANGED <<clock, closeDocs, queue, answer, journal, mishaps>>

\* resume_close: the steps the journal does not list as ok, each with the
\* time of its own start.  A complete close is left alone.
BeginResume ==
    /\ closer = "off" /\ journal.status \in {"PENDING", "PARTIAL"}
    /\ closer' = "step"
    /\ todo' = Steps \ journal.ok
    /\ oks' = journal.ok
    /\ utc' = 0
    /\ UNCHANGED <<clock, closeDocs, queue, answer, journal, mishaps>>

\* The step the loop is at
Turn == CHOOSE s \in todo : \A t \in todo : Place(s) <= Place(t)

Now == IF utc = 0 THEN clock ELSE utc

\* What the backend finds already done, and returns ok for without a request.
\* A row of HISTORY.md counts if it is recent and contains the agent's and the
\* task's id, a row of STATUS.md if it is idle and contains "<task> done":
\* neither need be about this task.
Idempotent(s) ==
    CASE s = "CLAIM_DIR_DONE" -> doneFile /\ claimDir = "mine"
      [] s = "TASKS_BRACKET"  -> bracket
      [] s = "HISTORY_APPEND" ->
            \E u \in rows \cup others : u <= Now + Window /\ Now <= u + Window
      [] s = "STATUS_UPDATE"  -> laneRow.owner \in {"mine", "twice"} /\ laneRow.says # "busy"

\* What the backend refuses by itself.
Refused(s) ==
    \/ s = "CLAIM_DIR_DONE" /\ claimDir = "missing"
    \/ s = "TASKS_BRACKET" /\ taskLine = "none"
    \/ s = "STATUS_UPDATE" /\ laneRow.owner \in {"none", "theirs"}

\* One turn of the loop over the steps.
StepIdempotent ==
    /\ closer = "step" /\ todo # {} /\ Idempotent(Turn)
    /\ oks' = oks \cup {Turn}
    /\ todo' = todo \ {Turn}
    /\ UNCHANGED <<clock, closeDocs, queue, answer, journal, closer, utc, mishaps>>

\* claim_dir_done writes owner.txt itself when there is none.
StepSubmit ==
    /\ closer = "step" /\ todo # {}
    /\ ~Idempotent(Turn) /\ ~Refused(Turn)
    /\ claimDir' = IF Turn = "CLAIM_DIR_DONE" /\ claimDir = "ownerless"
                THEN "mine" ELSE claimDir
    /\ queue' = Append(queue, [step |-> Turn, utc |-> Now])
    /\ answer' = "none"
    /\ closer' = "wait"
    /\ UNCHANGED <<clock, effects, taskLine, others, journal, todo, oks, utc, mishaps>>

\* The steps ended, well or with the first that failed: the journal is
\* written for the second time.
EndWith(status) ==
    /\ journal' = [status |-> status, ok |-> oks]
    /\ closer' = "off" /\ todo' = {} /\ oks' = {} /\ utc' = 0
    /\ UNCHANGED <<clock, closeDocs, queue>>

StepRefused ==
    /\ closer = "step" /\ todo # {}
    /\ ~Idempotent(Turn) /\ Refused(Turn)
    /\ EndWith("PARTIAL")
    /\ UNCHANGED <<answer, mishaps>>

StepApplied ==
    /\ closer = "wait" /\ answer = "applied"
    /\ oks' = oks \cup {Turn}
    /\ todo' = todo \ {Turn}
    /\ answer' = "none" /\ closer' = "step"
    /\ UNCHANGED <<clock, closeDocs, queue, journal, utc, mishaps>>

\* Mutant: the loop goes on after a step that failed.
StepRejectedGoesOn ==
    /\ closer = "wait" /\ answer = "rejected"
    /\ todo' = todo \ {Turn}
    /\ answer' = "none" /\ closer' = "step"
    /\ UNCHANGED <<clock, closeDocs, queue, journal, oks, utc, mishaps>>

StepRejected ==
    /\ closer = "wait" /\ answer = "rejected"
    /\ EndWith("PARTIAL")
    /\ answer' = "none"
    /\ UNCHANGED mishaps

\* Mutant: a request that was submitted counts as done.
StepTimeoutIsOk ==
    /\ closer = "wait" /\ answer = "none" /\ Mishap
    /\ oks' = oks \cup {Turn}
    /\ todo' = todo \ {Turn} /\ closer' = "step"
    /\ UNCHANGED <<clock, closeDocs, queue, answer, journal, utc>>

\* The wait ends, the request stays in the queue.
StepTimeout ==
    /\ closer = "wait" /\ answer = "none" /\ Mishap
    /\ EndWith("PARTIAL")
    /\ UNCHANGED answer

Complete ==
    /\ closer = "step" /\ todo = {}
    /\ EndWith(IF utc = 0 THEN "RESUMED-COMPLETE" ELSE "COMPLETE")
    /\ UNCHANGED <<answer, mishaps>>

\* _write_journal truncates the file before it writes it, at the beginning
\* (the first step is not submitted yet) and at the end.
WritingJournal ==
    \/ closer = "step" /\ todo \in {{}, Steps}
    \/ closer = "step" /\ todo # {} /\ Refused(Turn)
    \/ closer = "wait" /\ answer # "applied"

Crash ==
    /\ closer # "off" /\ Mishap
    /\ \/ journal' = journal
       \/ /\ TornWrites /\ WritingJournal
          /\ journal' = [status |-> "torn", ok |-> {}]
    /\ answer' = "none"
    /\ closer' = "off" /\ todo' = {} /\ oks' = {} /\ utc' = 0
    /\ UNCHANGED <<clock, closeDocs, queue>>

-----------------------------------------------------------------------------
(***************************************************************************)
(* The queue: the handlers of QueueApplier on the documents of this task.  *)
(* The process waits for the request it submitted last.                    *)
(***************************************************************************)
Rejects(s) ==
    \/ s = "CLAIM_DIR_DONE" /\ claimDir # "mine"
    \/ s = "TASKS_BRACKET" /\ taskLine = "twice"
    \/ s = "STATUS_UPDATE" /\ laneRow.owner = "twice"

Applied(q) ==
    /\ doneFile' = (doneFile \/ q.step = "CLAIM_DIR_DONE")
    /\ bracket' = (bracket \/ q.step = "TASKS_BRACKET")
    /\ rows' = IF q.step = "HISTORY_APPEND" THEN rows \cup {q.utc} ELSE rows
    /\ laneRow' = IF q.step = "STATUS_UPDATE"
                  THEN [owner |-> "mine", says |-> "done"] ELSE laneRow

Reply(result) ==
    /\ queue' = Tail(queue)
    /\ answer' = IF closer # "wait" \/ Len(queue) > 1 THEN answer ELSE result
    /\ UNCHANGED <<clock, claimDir, taskLine, others, journal, proc>>

QueueApplies ==
    /\ queue # <<>> /\ ~Rejects(Head(queue).step)
    /\ Applied(Head(queue)) /\ Reply("applied")
    /\ UNCHANGED mishaps

QueueRejects ==
    /\ queue # <<>> /\ Rejects(Head(queue).step)
    /\ Reply("rejected")
    /\ UNCHANGED <<effects, mishaps>>

\* A failing file operation: the request is rejected, its effect may be there.
QueueFails ==
    /\ queue # <<>> /\ Mishap
    /\ \/ UNCHANGED effects
       \/ ~Rejects(Head(queue).step) /\ Applied(Head(queue))
    /\ Reply("rejected")

QueueAnswers == QueueApplies \/ QueueRejects \/ QueueFails

-----------------------------------------------------------------------------
CloseStep ==
    \/ BeginClose \/ StepIdempotent \/ StepSubmit \/ StepRefused
    \/ StepApplied \/ StepRejected \/ Complete

CloseNext == CloseStep \/ BeginResume \/ StepTimeout \/ Crash \/ QueueAnswers \/ OtherRow \/ Tick

CloseSpec == CloseInit /\ [][CloseNext]_closeVars

\* The closing process runs, an operator resumes what did not complete, and
\* the queue answers (EveryRequestAnswered of QueueApplier).
FairCloseSpec ==
    /\ CloseSpec
    /\ WF_closeVars(CloseStep) /\ WF_closeVars(BeginResume) /\ WF_closeVars(QueueAnswers)

-----------------------------------------------------------------------------
Completed == journal.status \in {"COMPLETE", "RESUMED-COMPLETE"}

\* A close that its journal calls complete is complete: claim done, bracket
\* done, a history row, the lane idle; also when it was interrupted by
\* crashes, timeouts and failures of the applier and finished by later
\* resumes. The history row may be another one with both ids in it, and
\* only then is it not this close's; so may what the lane's row says.
CompleteMeansClosed ==
    Completed => doneFile /\ bracket /\ rows \cup others # {} /\ laneRow.says # "busy"

\* The four effects appear in RULE-10 order, and later ones never without
\* the earlier ones, wherever the process died: the row of HISTORY.md may be
\* missing under a STATUS.md row of this close where another one was taken
\* for it, and nothing else may.
InRuleTenOrder ==
    /\ bracket => doneFile
    /\ rows # {} => bracket
    /\ laneRow.says = "done" => bracket /\ rows \cup others # {}

\* Every close of a task one may close is completed in the end, if it is
\* resumed whenever it stopped short and its journal was not torn: the claim
\* is one's own or nobody's, the task has its line and the lane its row.
EventuallyClosed ==
    (claimDir \in {"mine", "ownerless"} /\ taskLine = "one" /\ laneRow.owner = "mine")
        ~> (Completed \/ journal.status = "torn")

=============================================================================
