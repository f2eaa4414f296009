---------------------------- MODULE QueueApplier ----------------------------
(***************************************************************************)
(* The write queue: clients drop request files into queue/pending/, one    *)
(* applier process drains them in (submitted_utc, name) order into the     *)
(* shared documents under a write-ahead journal, and moves each file to    *)
(* queue/applied/ or queue/rejected/.                                      *)
(*                                                                         *)
(* Every call of drain_once that touches the disk is a step of its own, so *)
(* that the process can die (Crash) or the call can fail (IOFail, IOAbort) *)
(* between any two of them.  The journal is kept as the map that           *)
(* Journal.replay() computes from its lines (JournalLog shows that this is *)
(* enough).  A crash in the middle of an append leaves a line without its  *)
(* newline (torn), to which the next append is glued, so that neither      *)
(* parses; one in the middle of an overwrite leaves a damaged document.    *)
(***************************************************************************)
EXTENDS MissionDocs

CONSTANTS
    Rank,         \* the order of the pending file names within one second
    Workloads,    \* bound: which requests clients submit in one behaviour
    MaxClock,     \* bound: seconds in which a request can be submitted
    MaxRestarts,  \* bound: how often the applier process ends
    MaxIOErrors,  \* bound: how many file operations fail
    TornWrites    \* whether dying inside a write can leave a partial file

ASSUME RankAssumption ==
    /\ Rank \in [Req -> Nat]
    /\ \A r, s \in Req : Rank[r] = Rank[s] => r = s
ASSUME BoundAssumption ==
    /\ Workloads \subseteq SUBSET Req
    /\ MaxClock \in Nat /\ MaxRestarts \in Nat /\ MaxIOErrors \in Nat
    /\ TornWrites \in BOOLEAN

VARIABLES
    clock,        \* the current second
    where,        \* where each request is: see Places
    stamp,        \* its submitted_utc
    expected,     \* the target content behind expected_hash_before
    reasons,      \* the requests with a rejected/<rid>-reason.txt
    docs,         \* the shared documents
    journal,      \* what replaying journal.log yields for each request
    settled,      \* what its lines yield that end in a newline
    torn,         \* journal.log ends in a line without a newline
    pc,           \* where the applier is: see Points
    cur,          \* the request in hand (req_path, req, rid)
    batch,        \* the rest of drain_once's sorted list
    appliedIds,   \* _applied_ids
    rejectedIds,  \* _rejected_ids
    loud,         \* the rejection ends in `raise`
    restarts, ioErrors,
    landed,       \* history: the requests whose handler ran to its end
    tears         \* history: what was ever left partial: "journal",
                  \* "STATUS.md", "TASKS.md", or a task for its owner.txt

\* JournalAppend, JournalTear: what an appended line does to the map
INSTANCE JournalMap

client  == <<clock, where, stamp, expected>>
log     == <<journal, settled, torn>>
disk    == <<reasons, docs, log>>
process == <<pc, cur, batch, appliedIds, rejectedIds, loud>>
bounds  == <<restarts, ioErrors>>
history == <<landed, tears>>
vars    == <<client, disk, process, bounds, history>>

Places == {"unborn", "stamped", "pending", "applied", "rejected"}
Points == {"down", "idle", "loop", "jpending", "apply", "owner", "japplied",
           "archive", "jreconciled", "archiveAgain", "rejectAgain",
           "jrejected", "reject", "reason"}
Contents == [Lane -> Req \cup {None, Given}]
            \cup [Task -> Req \cup {None, Given}] \cup Seq(Line)

TypeOK ==
    /\ clock \in 1..(MaxClock + 1)
    /\ where \in [Req -> Places]
    /\ stamp \in [Req -> 0..(MaxClock + 1)]
    /\ expected \in [Req -> Contents]
    /\ reasons \subseteq Req
    /\ docs \in Docs
    /\ journal \in [Req -> Replayed]
    /\ settled \in [Req -> Replayed]
    /\ torn \in BOOLEAN
    /\ pc \in Points
    /\ cur \in Req \cup {None}
    /\ batch \subseteq Req
    /\ appliedIds \subseteq Req
    /\ rejectedIds \subseteq Req
    /\ loud \in BOOLEAN
    /\ restarts \in 0..MaxRestarts
    /\ ioErrors \in 0..MaxIOErrors
    /\ landed \subseteq Req
    /\ tears \subseteq Task \cup {"journal", "STATUS.md", "TASKS.md"}

Init ==
    /\ clock = 1
    /\ where = [r \in Req |-> "unborn"]
    /\ stamp = [r \in Req |-> 0]
    /\ expected = [r \in Req |-> <<>>]
    /\ reasons = {}
    /\ docs = InitDocs
    /\ JournalInit
    /\ pc = "down" /\ cur = None /\ batch = {}
    /\ appliedIds = {} /\ rejectedIds = {} /\ loud = FALSE
    /\ restarts = 0 /\ ioErrors = 0
    /\ landed = {} /\ tears = {}

-----------------------------------------------------------------------------
(***************************************************************************)
(* Clients.  submit() takes the time and builds the request id, and only   *)
(* later renames the temporary file into queue/pending/.                   *)
(***************************************************************************)
Tick ==
    /\ clock <= MaxClock
    /\ clock' = clock + 1
    /\ UNCHANGED <<where, stamp, expected, disk, process, bounds, history>>

Stamp(r) ==
    /\ where[r] = "unborn"
    /\ \E load \in Workloads : {q \in Req : where[q] # "unborn"} \cup {r} \subseteq load
    /\ where' = [where EXCEPT ![r] = "stamped"]
    /\ stamp' = [stamp EXCEPT ![r] = clock]
    /\ expected' = IF Body[r].hash
                   THEN [expected EXCEPT ![r] = Target(docs, r)]
                   ELSE expected
    /\ UNCHANGED <<clock, disk, process, bounds, history>>

Publish(r) ==
    /\ where[r] = "stamped"
    /\ where' = [where EXCEPT ![r] = "pending"]
    /\ UNCHANGED <<clock, stamp, expected, disk, process, bounds, history>>

-----------------------------------------------------------------------------
\* The applier process

\* Mutant: the journal is not replayed at the start.
StartForgets ==
    /\ pc = "down"
    /\ pc' = "idle" /\ appliedIds' = {} /\ rejectedIds' = {}
    /\ UNCHANGED <<client, disk, cur, batch, loud, bounds, history>>

\* __init__ and _replay_journal_state
Start ==
    /\ pc = "down"
    /\ pc' = "idle"
    /\ appliedIds' = {r \in Req : journal[r] = "APPLIED"}
    /\ rejectedIds' = {r \in Req : journal[r] = "REJECTED"}
    /\ UNCHANGED <<client, disk, cur, batch, loud, bounds, history>>

Pending == {r \in Req : where[r] = "pending"}

\* A file that does not parse sorts with the empty string.
SortStamp(r) == IF Body[r].shape = "undecodable" THEN 0 ELSE stamp[r]

Before(r, s) ==
    \/ SortStamp(r) < SortStamp(s)
    \/ SortStamp(r) = SortStamp(s) /\ Rank[r] < Rank[s]

\* Mutant: the directory listing is not sorted.
FirstOfAny(r) == r \in batch

First(r) == r \in batch /\ \A s \in batch \ {r} : Before(r, s)

\* drain_once lists queue/pending/ once.  _read_field calls .get on whatever
\* JSON value a file holds: on one that is not an object the sort raises and
\* the whole drain is given up (run() prints the error and sleeps).
DrainBegin ==
    /\ pc = "idle"
    /\ \A r \in Pending : Body[r].shape # "notdict"
    /\ batch' = Pending
    /\ pc' = "loop"
    /\ UNCHANGED <<client, disk, cur, appliedIds, rejectedIds, loud, bounds,
                   history>>

DrainEnd ==
    /\ pc = "loop" /\ batch = {}
    /\ pc' = "idle"
    /\ UNCHANGED <<client, disk, cur, batch, appliedIds, rejectedIds, loud,
                   bounds, history>>

\* One turn of the for loop decides what becomes of request r.
Turn(r, point) ==
    /\ pc = "loop" /\ First(r)
    /\ batch' = batch \ {r}
    /\ cur' = r
    /\ loud' = FALSE
    /\ pc' = point
    /\ UNCHANGED <<client, disk, appliedIds, rejectedIds, history>>

Take(r, point) == Turn(r, point) /\ UNCHANGED bounds

Known(r) == r \in appliedIds \cup rejectedIds

\* Mutant: an in-doubt append is taken for applied without reading the file.
ReconciledBlind(r) == Body[r].intent \in AppendIntents

\* Mutant: an in-doubt request is never reconciled.
ReconciledNever(r) == FALSE

\* _reconcile_indoubt
Reconciled(r) ==
    /\ Body[r].intent \in AppendIntents
    /\ Present(Body[r].line, AppendTarget(docs, r))

InDoubt(r) == journal[r] = "PENDING_INDOUBT"

CheckPreconditions(r) ==
    Body[r].required_phase # None =>
        CurrentPhase(docs.events) = Body[r].required_phase

CheckHash(r) == Body[r].hash => Target(docs, r) = expected[r]

Acceptable(r) ==
    /\ Body[r].shape # "invalid"
    /\ CheckPreconditions(r)
    /\ CheckHash(r)

TakeUndecodable(r) == Body[r].shape = "undecodable" /\ Take(r, "reject")

TakeApplied(r) ==
    /\ Body[r].shape # "undecodable"
    /\ r \in appliedIds
    /\ Take(r, "archiveAgain")

TakeRejected(r) ==
    /\ Body[r].shape # "undecodable"
    /\ r \in rejectedIds \ appliedIds
    /\ Take(r, "rejectAgain")

TakeReconciled(r) ==
    /\ Body[r].shape # "undecodable"
    /\ ~Known(r)
    /\ InDoubt(r) /\ Reconciled(r)
    /\ Take(r, "jreconciled")

TakeRefused(r) ==
    /\ Body[r].shape # "undecodable"
    /\ ~Known(r)
    /\ ~(InDoubt(r) /\ Reconciled(r))
    /\ ~Acceptable(r)
    /\ Take(r, "reject")

TakeValid(r) ==
    /\ Body[r].shape # "undecodable"
    /\ ~Known(r)
    /\ ~(InDoubt(r) /\ Reconciled(r))
    /\ Acceptable(r)
    /\ Take(r, "jpending")

JournalPending ==
    /\ pc = "jpending"
    /\ JournalAppend(cur, "PENDING")
    /\ pc' = "apply"
    /\ UNCHANGED <<client, reasons, docs, cur, batch, appliedIds, rejectedIds,
                   loud, bounds, history>>

\* _apply: the handler of every intent but a first CLAIM_DIR_CREATE is one
\* read-modify-write under the lock of its file.
MkdirFirst == Body[cur].intent = "CLAIM_DIR_CREATE"
              /\ docs.owner[Body[cur].task] = NoDir

Apply ==
    /\ pc = "apply"
    /\ Accepts(docs, cur) /\ ~MkdirFirst
    /\ docs' = Effect(docs, cur)
    /\ landed' = landed \cup {cur}
    /\ pc' = "japplied"
    /\ UNCHANGED <<client, reasons, log, cur, batch, appliedIds,
                   rejectedIds, loud, bounds, tears>>

ApplyMkdir ==
    /\ pc = "apply"
    /\ Accepts(docs, cur) /\ MkdirFirst
    /\ docs' = ClaimMkdir(docs, cur)
    /\ pc' = "owner"
    /\ UNCHANGED <<client, reasons, log, cur, batch, appliedIds,
                   rejectedIds, loud, bounds, history>>

ApplyOwner ==
    /\ pc = "owner"
    /\ docs' = ClaimOwner(docs, cur)
    /\ landed' = landed \cup {cur}
    /\ pc' = "japplied"
    /\ UNCHANGED <<client, reasons, log, cur, batch, appliedIds,
                   rejectedIds, loud, bounds, tears>>

\* The handler raises: ValueError is quiet, anything else is raised again.
ApplyRaises ==
    /\ pc = "apply"
    /\ ~Accepts(docs, cur)
    /\ loud' = Unexpected(docs, cur)
    /\ pc' = "jrejected"
    /\ UNCHANGED <<client, disk, cur, batch, appliedIds, rejectedIds, bounds,
                   history>>

\* write_applied and _applied_ids.add, on the normal and the reconciled path
JournalApplied ==
    /\ pc \in {"japplied", "jreconciled"}
    /\ JournalAppend(cur, "APPLIED")
    /\ appliedIds' = appliedIds \cup {cur}
    /\ pc' = IF pc = "japplied" THEN "archive" ELSE "archiveAgain"
    /\ UNCHANGED <<client, reasons, docs, cur, batch, rejectedIds, loud,
                   bounds, history>>

\* _archive: the rename.  The .idempotent marker is never read.
Archive ==
    /\ pc \in {"archive", "archiveAgain", "rejectAgain"}
    /\ where' = [where EXCEPT ![cur] =
                    IF pc = "rejectAgain" THEN "rejected" ELSE "applied"]
    /\ pc' = "loop" /\ cur' = None
    /\ UNCHANGED <<clock, stamp, expected, disk, batch, appliedIds,
                   rejectedIds, loud, bounds, history>>

JournalRejected ==
    /\ pc = "jrejected"
    /\ JournalAppend(cur, "REJECTED")
    /\ rejectedIds' = rejectedIds \cup {cur}
    /\ pc' = "reject"
    /\ UNCHANGED <<client, reasons, docs, cur, batch, appliedIds, loud,
                   bounds, history>>

\* Mutant: the refused file stays in queue/pending/.
RejectUnmoved ==
    /\ pc = "reject"
    /\ pc' = "reason"
    /\ UNCHANGED <<client, disk, cur, batch, appliedIds, rejectedIds, loud,
                   bounds, history>>

\* _reject: the rename, then the reason file
Reject ==
    /\ pc = "reject"
    /\ where' = [where EXCEPT ![cur] = "rejected"]
    /\ pc' = "reason"
    /\ UNCHANGED <<clock, stamp, expected, disk, cur, batch, appliedIds,
                   rejectedIds, loud, bounds, history>>

WriteReason ==
    /\ pc = "reason"
    /\ reasons' = reasons \cup {cur}
    /\ pc' = (IF loud THEN "idle" ELSE "loop") /\ cur' = None
    /\ batch' = (IF loud THEN {} ELSE batch) /\ loud' = FALSE
    /\ UNCHANGED <<client, docs, log, appliedIds, rejectedIds, bounds, history>>

-----------------------------------------------------------------------------
\* Failures

\* The status of the line that is being appended to the journal.
JournalStatus ==
    IF pc = "jpending" THEN "PENDING"
    ELSE IF pc = "jrejected" THEN "REJECTED"
    ELSE "APPLIED"

Journalling == pc \in {"jpending", "japplied", "jreconciled", "jrejected"}

TearJournal ==
    /\ TornWrites /\ Journalling
    /\ JournalTear(cur, JournalStatus)
    /\ tears' = tears \cup {"journal"}
    /\ docs' = docs

\* write_text truncates owner.txt before it writes it.
TearOwner ==
    /\ TornWrites
    /\ \/ pc = "owner"
       \/ /\ pc = "apply" /\ Accepts(docs, cur) /\ ~MkdirFirst
          /\ Body[cur].intent = "CLAIM_DIR_CREATE"
    /\ docs' = [docs EXCEPT !.owner[Body[cur].task] = Empty]
    /\ tears' = tears \cup {Body[cur].task}
    /\ UNCHANGED log

\* AtomicFile.write overwrites STATUS.md and TASKS.md in place: what follows
\* the changed row moves, and a row at the seam is lost.
TearRows ==
    /\ TornWrites
    /\ pc = "apply" /\ Accepts(docs, cur)
    /\ \/ /\ Body[cur].intent \in RowIntents
          /\ \E l \in Lane : docs' = [Effect(docs, cur) EXCEPT !.status[l] = None]
          /\ tears' = tears \cup {"STATUS.md"}
       \/ /\ Body[cur].intent \in TaskIntents
          /\ \E t \in Task : docs' = [Effect(docs, cur) EXCEPT !.tasks[t] = None]
          /\ tears' = tears \cup {"TASKS.md"}
    /\ UNCHANGED log

\* What is on the disk when a write does not come to its end.
Unfinished ==
    UNCHANGED <<docs, log, tears>> \/ TearJournal \/ TearOwner \/ TearRows

\* The process is gone, and its memory with it.
Exit ==
    /\ pc' = "down" /\ cur' = None /\ batch' = {}
    /\ appliedIds' = {} /\ rejectedIds' = {} /\ loud' = FALSE

OneMoreError == ioErrors < MaxIOErrors /\ ioErrors' = ioErrors + 1

\* fsync fails after the journal line was written.
LineFails ==
    /\ Journalling
    /\ JournalAppend(cur, JournalStatus)
    /\ UNCHANGED <<docs, tears>>

\* fsync fails after the document was written.
EffectFails ==
    /\ pc = "apply" /\ Accepts(docs, cur) /\ ~MkdirFirst
    /\ docs' = Effect(docs, cur)
    /\ landed' = landed \cup {cur}
    /\ UNCHANGED <<log, tears>>

\* The file of the request cannot be read: refused as one that does not parse.
Unreadable(r) ==
    /\ OneMoreError
    /\ Turn(r, "reject")
    /\ UNCHANGED restarts

\* An OSError inside drain_once's try block.
IOFail ==
    /\ pc \in {"jpending", "apply", "owner", "japplied", "archive"}
    /\ OneMoreError
    /\ \/ (Unfinished \/ LineFails) /\ landed' = landed
       \/ EffectFails
    /\ loud' = TRUE
    /\ pc' = "jrejected"
    /\ UNCHANGED <<client, reasons, cur, batch, appliedIds, rejectedIds, restarts>>

\* An OSError outside the try block, or inside its handlers, leaves
\* drain_once; run() prints it and drains again after a pause.
IOAbort ==
    /\ pc \in {"jreconciled", "archiveAgain", "rejectAgain", "jrejected",
               "reject", "reason"}
    /\ OneMoreError
    /\ Unfinished \/ LineFails
    /\ pc' = "idle" /\ cur' = None /\ batch' = {} /\ loud' = FALSE
    /\ UNCHANGED <<client, reasons, appliedIds, rejectedIds, restarts, landed>>

\* SIGTERM or SIGINT: run() leaves its loop between two drains.
Stop ==
    /\ pc = "idle" /\ restarts < MaxRestarts
    /\ restarts' = restarts + 1
    /\ Exit
    /\ UNCHANGED <<client, disk, ioErrors, history>>

Crash ==
    /\ pc # "down" /\ restarts < MaxRestarts
    /\ restarts' = restarts + 1
    /\ Unfinished
    /\ Exit
    /\ UNCHANGED <<client, reasons, ioErrors, landed>>

-----------------------------------------------------------------------------
TakeStep ==
    \E r \in Req :
        \/ TakeUndecodable(r) \/ TakeApplied(r) \/ TakeRejected(r)
        \/ TakeReconciled(r) \/ TakeRefused(r) \/ TakeValid(r)

ApplierStep ==
    \/ Start \/ DrainBegin \/ DrainEnd \/ TakeStep
    \/ JournalPending \/ Apply \/ ApplyMkdir \/ ApplyOwner \/ ApplyRaises
    \/ JournalApplied \/ Archive
    \/ JournalRejected \/ Reject \/ WriteReason

ClientStep == Tick \/ \E r \in Req : Stamp(r) \/ Publish(r)

IOError == IOFail \/ IOAbort \/ \E r \in Req : Unreadable(r)

Next == ClientStep \/ ApplierStep \/ IOError \/ Stop \/ Crash

Spec == Init /\ [][Next]_vars

\* The applier process runs on, and something starts it again after it died
\* (the launcher, or a client's in-process drain: see ApplierSingleton).
FairSpec == Spec /\ WF_vars(ApplierStep)

-----------------------------------------------------------------------------
(***************************************************************************)
(* Properties                                                              *)
(***************************************************************************)

\* The documents show what request r asked for.  A row or a bracket may have
\* been rewritten since, by a request that came later.
Shows(d, r) ==
    CASE Body[r].intent \in AppendIntents ->
            Present(Body[r].line, AppendTarget(d, r))
      [] Body[r].intent \in RowIntents ->
            d.status[Body[r].lane] # None
      [] Body[r].intent \in TaskIntents ->
            d.tasks[Body[r].task] # None
      [] Body[r].intent = "CLAIM_DIR_CREATE" ->
            d.owner[Body[r].task] = Body[r].agent
      [] Body[r].intent = "CLAIM_DIR_DONE" ->
            Body[r].task \in d.done

\* ... or the file it was written to was left damaged by a torn write.
Damaged(r) ==
    \/ Body[r].intent = "CLAIM_DIR_CREATE" /\ Body[r].task \in tears
    \/ Body[r].intent \in RowIntents /\ "STATUS.md" \in tears
    \/ Body[r].intent \in TaskIntents /\ "TASKS.md" \in tears

Shown(r) == Shows(docs, r) \/ Damaged(r)

\* A request reported applied (its file is in queue/applied/, or the journal
\* says APPLIED) really is in the documents, whatever crashed or failed in
\* between: drain_once journals APPLIED only after the handler returned, and
\* a restart believes the journal.
AppliedIsShown ==
    \A r \in Req : where[r] = "applied" \/ journal[r] = "APPLIED" => Shown(r)

\* The two facts that make AppliedIsShown inductive.  The request in hand is
\* a pending file that is no longer in the list of the drain; ...
Busy == Points \ {"down", "idle", "loop"}

InHand ==
    /\ batch \subseteq Pending
    /\ pc \in Busy => cur \in Req /\ cur \notin batch
    /\ pc \in Busy \ {"reason"} => where[cur] = "pending"
    /\ pc = "owner" => /\ Body[cur].intent = "CLAIM_DIR_CREATE"
                       /\ docs.owner[Body[cur].task] = NoOwner

\* ... and the applier believes a request applied, in memory, by a line of the
\* journal that will still be read after the next one, or by being on its way
\* to journal or archive it, only when the documents show it.
Believed ==
    /\ \A r \in Req : settled[r] = "APPLIED" => Shown(r)
    /\ \A r \in appliedIds : Shown(r)
    /\ pc \in {"japplied", "jreconciled", "archive", "archiveAgain"} => Shown(cur)

QueueInv == TypeOK /\ InHand /\ AppliedIsShown /\ Believed

\* An append lands once: re-applying a request whose APPLIED line was lost in
\* a crash does not write HISTORY.md or .mission-events a second time, nor
\* does a second request with the same line.
Distinct(file) == \A i, j \in 1..Len(file) : file[i] = file[j] => i = j

NoDuplicateLines ==
    /\ Distinct(docs.history)
    /\ Distinct(Events0) => Distinct(docs.events)

\* No file operation has failed, and no journal line was torn.
JournalWhole == ioErrors = 0 /\ "journal" \notin tears

\* An append that landed is never reported rejected, however often the applier
\* crashes: the in-doubt request is reconciled before its preconditions are
\* looked at again.
LandedAppendNotRejected ==
    \A r \in Req :
        /\ JournalWhole
        /\ where[r] = "rejected" /\ Body[r].intent \in AppendIntents
        => r \notin landed

\* queue/applied/, queue/rejected/ and the journal tell one story of a
\* request.
ArchiveAgreesWithJournal ==
    JournalWhole =>
        \A r \in Req :
            /\ where[r] = "applied"  => journal[r] # "REJECTED"
            /\ where[r] = "rejected" => journal[r] # "APPLIED"

\* Applying an in-doubt STATUS_UPDATE or TASKS_BRACKET again after a crash
\* never takes the row back from a request that sorts after it: nothing that
\* sorts later is applied while the in-doubt request is still pending.
ReapplyTakesNothingBack ==
    [][\A r \in landed : \A s \in Req :
            /\ cur = r /\ docs' # docs
            /\ \/ \E l \in Lane : docs.status[l] = s /\ docs'.status[l] = r
               \/ \E t \in Task : docs.tasks[t] = s /\ docs'.tasks[t] = r
            => s = r \/ Before(s, r)]_vars

\* A task is claimed by one agent only, as long as its owner.txt is not torn:
\* two CLAIM_DIR_CREATE requests that were both reported applied name the same
\* owner.
OneClaimant ==
    LET Granted == {r \in Req : /\ where[r] = "applied"
                                /\ Body[r].intent = "CLAIM_DIR_CREATE"
                                /\ Body[r].task \notin tears}
    IN  \A r, s \in Granted :
            Body[r].task = Body[s].task => Body[r].agent = Body[s].agent

\* What docs/v9/QUEUE-DESIGN.md promises of a restart between apply and
\* archive, for every intent: "same request applied twice is a no-op", so a
\* request that took effect is not turned into a rejection.
LandedIsNotRejected ==
    \A r \in Req : where[r] = "rejected" /\ ioErrors = 0 => r \notin landed

\* Every request that reaches queue/pending/ is answered: its file is moved to
\* queue/applied/ or queue/rejected/.  A file is submitted once, so this says
\* that queue/pending/ is empty again and again.
EveryRequestAnswered == []<>(Pending = {})

=============================================================================
