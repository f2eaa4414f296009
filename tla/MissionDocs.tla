---------------------------- MODULE MissionDocs ----------------------------
(***************************************************************************)
(* The shared documents of a Megalodon mission and what the nine queue     *)
(* intents do to them (the _apply_* handlers of queue/applier.py).         *)
(*                                                                         *)
(* The documents are one value d with the fields                           *)
(*   status   STATUS.md:       per lane, the request that wrote its row    *)
(*   tasks    TASKS.md:        per task, the request that wrote its line   *)
(*   history  HISTORY.md:      the sequence of its lines                   *)
(*   events   .mission-events: the sequence of its lines                   *)
(*   owner    claims/<task>/:  no directory, a directory without owner.txt,*)
(*                             an empty owner.txt, or the agent it names   *)
(*   done     the tasks with a claims/<task>/done marker                   *)
(* Rows and brackets carry a UTC and the agent, so two requests never      *)
(* write the same text: a row is identified with its writer.               *)
(***************************************************************************)
EXTENDS Naturals, Sequences

CONSTANTS
    Req,        \* request ids
    Lane, Task, Agent, Line, Phase,
    Body,       \* what each request file holds
    Within,     \* Within[l]: the lines that contain the text of line l
    Announces,  \* the phase named by the "-> PHASE-X" of a line
    Status0,    \* the lanes that have a STATUS.md row at mission start
    Tasks0,     \* the tasks listed in TASKS.md at mission start
    Events0     \* .mission-events at mission start

None  == "none"      \* no row, no task line, no phase, no predecessor
Given == "given"     \* a row or a line that was there at mission start

NoDir   == "nodir"   \* claims/<task> does not exist
NoOwner == "noowner" \* the directory exists, owner.txt does not
Empty   == "empty"   \* owner.txt exists and is empty

AppendIntents ==
    {"HISTORY_APPEND", "MISSION_EVENT_APPEND", "MISSION_EVENT_CORRECTION"}
RowIntents  == {"STATUS_UPDATE", "STATUS_ROW_INSERT"}
TaskIntents == {"TASKS_BRACKET", "TASKS_INJECT"}

Intents == AppendIntents \cup RowIntents \cup TaskIntents
           \cup {"CLAIM_DIR_CREATE", "CLAIM_DIR_DONE"}

(***************************************************************************)
(* The shape of a pending file: "ok"; "badline", a line its handler's      *)
(* regular expression refuses; "invalid", an object _validate refuses;     *)
(* "undecodable", not JSON; "notdict", JSON that is not an object.         *)
(***************************************************************************)
Shapes == {"ok", "badline", "invalid", "undecodable", "notdict"}

Bodies ==
    [intent : Intents, shape : Shapes, agent : Agent, lane : Lane,
     task : Task, after : Task \cup {None}, line : Line,
     required_phase : Phase \cup {None}, hash : BOOLEAN]

ASSUME BodyAssumption == Body \in [Req -> Bodies]
ASSUME LineAssumption ==
    /\ Within \in [Line -> SUBSET Line]
    /\ \A l \in Line : l \in Within[l]
    /\ Announces \in [Line -> Phase \cup {None}]
ASSUME StartAssumption ==
    /\ Status0 \subseteq Lane
    /\ Tasks0 \subseteq Task
    /\ Events0 \in Seq(Line)
ASSUME NamesAssumption ==
    /\ Req \cap {None, Given} = {}
    /\ Agent \cap {NoDir, NoOwner, Empty} = {}
    /\ Task \cap {None, "journal", "STATUS.md", "TASKS.md"} = {}
    /\ None \notin Phase
ASSUME HashAssumption ==  \* only requests on a regular file carry a hash
    \A r \in Req : Body[r].hash =>
        Body[r].intent \notin {"CLAIM_DIR_CREATE", "CLAIM_DIR_DONE"}

Docs ==
    [status  : [Lane -> Req \cup {None, Given}],
     tasks   : [Task -> Req \cup {None, Given}],
     history : Seq(Line),
     events  : Seq(Line),
     owner   : [Task -> Agent \cup {NoDir, NoOwner, Empty}],
     done    : SUBSET Task]

InitDocs ==
    [status  |-> [l \in Lane |-> IF l \in Status0 THEN Given ELSE None],
     tasks   |-> [t \in Task |-> IF t \in Tasks0 THEN Given ELSE None],
     history |-> <<>>,
     events  |-> Events0,
     owner   |-> [t \in Task |-> NoDir],
     done    |-> {}]

-----------------------------------------------------------------------------
\* Reading the documents

\* `line in file.read()`: the text of line l occurs somewhere in the file.
Present(l, file) == \E i \in 1..Len(file) : file[i] \in Within[l]

\* The last line of .mission-events that announces a phase decides.
CurrentPhase(file) ==
    LET marks == {i \in 1..Len(file) : Announces[file[i]] # None}
    IN  IF marks = {} THEN None
        ELSE Announces[file[CHOOSE i \in marks : \A j \in marks : j <= i]]

\* The file an append request goes to.
AppendTarget(d, r) ==
    IF Body[r].intent = "HISTORY_APPEND" THEN d.history ELSE d.events

\* The content whose hash the client took: the whole target file.
Target(d, r) ==
    IF Body[r].intent \in AppendIntents THEN AppendTarget(d, r)
    ELSE IF Body[r].intent \in RowIntents
         THEN d.status
         ELSE d.tasks

-----------------------------------------------------------------------------
(***************************************************************************)
(* One pair of operators per handler: when it does not raise, and what it  *)
(* leaves.  _apply_claim_dir_create is two steps of the applier, because   *)
(* the directory and its owner.txt are two effects on the file system.     *)
(***************************************************************************)
StatusUpdateOK(d, r) == d.status[Body[r].lane] # None
StatusUpdate(d, r) == [d EXCEPT !.status[Body[r].lane] = r]

TasksBracketOK(d, r) == d.tasks[Body[r].task] # None
TasksBracket(d, r) == [d EXCEPT !.tasks[Body[r].task] = r]

StatusRowInsertOK(d, r) == d.status[Body[r].lane] = None
StatusRowInsert(d, r) == [d EXCEPT !.status[Body[r].lane] = r]

TasksInjectOK(d, r) ==
    /\ d.tasks[Body[r].task] = None
    /\ Body[r].after = None \/ d.tasks[Body[r].after] # None
TasksInject(d, r) == [d EXCEPT !.tasks[Body[r].task] = r]

\* Mutant: the line is appended without looking for it.
HistoryAppendBlind(d, r) == [d EXCEPT !.history = Append(@, Body[r].line)]

\* An append is skipped when the text is already in the file.
HistoryAppendOK(r) == Body[r].shape # "badline"
HistoryAppend(d, r) ==
    IF Present(Body[r].line, d.history) THEN d
    ELSE [d EXCEPT !.history = Append(@, Body[r].line)]

MissionEventOK(r) == Body[r].shape # "badline"
MissionEventAppend(d, r) ==
    IF Present(Body[r].line, d.events) THEN d
    ELSE [d EXCEPT !.events = Append(@, Body[r].line)]

\* Mutant: an existing claim is taken over.
ClaimDirCreateAnyOwner(d, r) == d.owner[Body[r].task] # NoOwner

\* mkdir(parents=True) fails on a directory that exists: then the claim must
\* be the agent's own, or its owner.txt empty.
ClaimDirCreateOK(d, r) == d.owner[Body[r].task] \in {NoDir, Empty, Body[r].agent}
ClaimMkdir(d, r) == [d EXCEPT !.owner[Body[r].task] = NoOwner]
ClaimOwner(d, r) == [d EXCEPT !.owner[Body[r].task] = Body[r].agent]

ClaimDirDoneOK(d, r) == d.owner[Body[r].task] = Body[r].agent
ClaimDirDone(d, r) == [d EXCEPT !.done = @ \cup {Body[r].task}]

\* owner.txt is empty: `.split()[0]` raises IndexError, not ValueError.
Unexpected(d, r) ==
    Body[r].intent = "CLAIM_DIR_DONE" /\ d.owner[Body[r].task] = Empty

\* _apply dispatches on the intent.
Accepts(d, r) ==
    CASE Body[r].intent = "STATUS_UPDATE"            -> StatusUpdateOK(d, r)
      [] Body[r].intent = "TASKS_BRACKET"            -> TasksBracketOK(d, r)
      [] Body[r].intent = "STATUS_ROW_INSERT"        -> StatusRowInsertOK(d, r)
      [] Body[r].intent = "TASKS_INJECT"             -> TasksInjectOK(d, r)
      [] Body[r].intent = "HISTORY_APPEND"           -> HistoryAppendOK(r)
      [] Body[r].intent = "MISSION_EVENT_APPEND"     -> MissionEventOK(r)
      [] Body[r].intent = "MISSION_EVENT_CORRECTION" -> TRUE
      [] Body[r].intent = "CLAIM_DIR_CREATE"         -> ClaimDirCreateOK(d, r)
      [] Body[r].intent = "CLAIM_DIR_DONE"           -> ClaimDirDoneOK(d, r)

Effect(d, r) ==
    CASE Body[r].intent = "STATUS_UPDATE"     -> StatusUpdate(d, r)
      [] Body[r].intent = "TASKS_BRACKET"     -> TasksBracket(d, r)
      [] Body[r].intent = "STATUS_ROW_INSERT" -> StatusRowInsert(d, r)
      [] Body[r].intent = "TASKS_INJECT"      -> TasksInject(d, r)
      [] Body[r].intent = "HISTORY_APPEND"    -> HistoryAppend(d, r)
      [] Body[r].intent \in {"MISSION_EVENT_APPEND", "MISSION_EVENT_CORRECTION"}
                                              -> MissionEventAppend(d, r)
      [] Body[r].intent = "CLAIM_DIR_CREATE"  -> ClaimOwner(d, r)
      [] Body[r].intent = "CLAIM_DIR_DONE"    -> ClaimDirDone(d, r)

=============================================================================
