----------------------- MODULE QueueRefinementProofs -----------------------
(***************************************************************************)
(* The queue implements ExactlyOnceLog: every step of the applier, its     *)
(* clients and its failures is a step of the log, or changes nothing that  *)
(* the log's clients can see.                                              *)
(***************************************************************************)
EXTENDS QueueRefinement, QueueApplierProofs

\* A request that neither _validate nor its handler refuses by its form.
WellFormed(r) == Body[r].shape \notin {"undecodable", "invalid", "badline"}

Guarded(r) == Body[r].hash \/ Body[r].required_phase # None

\* What landed was well-formed; and while no file operation failed, what is
\* refused was not, or had a precondition.
FormInv ==
    /\ \A r \in landed \cap HistoryReq : WellFormed(r)
    /\ pc \in {"jpending", "apply"} => Body[cur].shape \notin {"undecodable", "invalid"}
    /\ ioErrors = 0 =>
        /\ \A r \in HistoryReq :
              "REJECTED" \in {journal[r], settled[r]} \/ r \in rejectedIds => ~WellFormed(r)
        /\ pc \in {"jrejected", "rejectAgain"} /\ cur \in HistoryReq => ~WellFormed(cur)
        /\ pc = "reject" /\ cur \in HistoryReq => ~WellFormed(cur) \/ Guarded(cur)
    /\ "journal" \in tears => TornWrites

\* A HISTORY_APPEND's handler refuses a line by its form only.
LEMMA HistoryForm ==
    ASSUME NEW d, NEW r \in HistoryReq
    PROVE  /\ r \in Req
           /\ Accepts(d, r) <=> Body[r].shape # "badline"
           /\ Effect(d, r) = HistoryAppend(d, r)
  BY DEF HistoryReq, Accepts, HistoryAppendOK, Effect, AppendIntents

\* Failing file operations are counted, and only torn writes tear.
LEMMA ErrorsCount ==
    ASSUME TypeOK, [Next]_vars
    PROVE  /\ ioErrors' = 0 => ioErrors = 0 /\ ~IOError
           /\ "journal" \in tears' => "journal" \in tears \/ TornWrites
<1> USE DEF client, disk, log, process, bounds, history
<1>0. ioErrors \in Nat
  BY BoundAssumption DEF TypeOK
<1>1. \/ ioErrors' = ioErrors
      \/ ioErrors' = ioErrors + 1
  <2>1. CASE UNCHANGED vars
    BY <2>1 DEF vars
  <2>2. CASE Tick \/ (\E r \in Req : Stamp(r) \/ Publish(r))
    BY <2>2 DEF Tick, Stamp, Publish
  <2>3. CASE \E r \in Req, point \in Points : Take(r, point) /\ TakeStep
    BY <2>3 DEF Take, Turn
  <2>4. CASE Start \/ DrainBegin \/ DrainEnd \/ JournalPending \/ ApplyRaises
             \/ JournalApplied \/ Archive \/ JournalRejected \/ Reject
             \/ WriteReason \/ Stop \/ Apply \/ ApplyMkdir \/ ApplyOwner
             \/ Crash
    BY <2>4 DEF Start, DrainBegin, DrainEnd, JournalPending, ApplyRaises,
       JournalApplied, Archive, JournalRejected, Reject, WriteReason, Stop,
       Apply, ApplyMkdir, ApplyOwner, Crash
  <2>5. CASE IOFail \/ IOAbort \/ (\E r \in Req : Unreadable(r))
    BY <2>5 DEF IOFail, IOAbort, Unreadable, OneMoreError
  <2> QED BY <2>1, <2>2, <2>3, <2>4, <2>5, NextCases
<1>2. "journal" \in tears' => "journal" \in tears \/ TornWrites
  <2>1. CASE UNCHANGED vars
    BY <2>1 DEF vars
  <2>2. CASE Tick \/ (\E r \in Req : Stamp(r) \/ Publish(r))
    BY <2>2 DEF Tick, Stamp, Publish
  <2>3. CASE \E r \in Req, point \in Points : Take(r, point) /\ TakeStep
    BY <2>3 DEF Take, Turn
  <2>4. CASE Start \/ DrainBegin \/ DrainEnd \/ JournalPending \/ ApplyRaises
             \/ JournalApplied \/ Archive \/ JournalRejected \/ Reject
             \/ WriteReason \/ Stop \/ Apply \/ ApplyMkdir \/ ApplyOwner
    BY <2>4 DEF Start, DrainBegin, DrainEnd, JournalPending, ApplyRaises,
       JournalApplied, Archive, JournalRejected, Reject, WriteReason, Stop,
       Apply, ApplyMkdir, ApplyOwner
  <2>5. CASE Crash \/ IOFail \/ IOAbort
    BY <2>5, NamesAssumption DEF Crash, IOFail, IOAbort, Unfinished, TearJournal,
       TearOwner, TearRows, LineFails, EffectFails
  <2>6. CASE \E r \in Req : Unreadable(r)
    BY <2>6 DEF Unreadable, Turn
  <2> QED BY <2>1, <2>2, <2>3, <2>4, <2>5, <2>6, NextCases
<1>3. IOError => ioErrors' = ioErrors + 1
  BY DEF IOError, IOFail, IOAbort, Unreadable, OneMoreError
<1> QED BY <1>0, <1>1, <1>2, <1>3

\* Every step keeps what FormInv says of refused requests.
LEMMA FormStep ==
    ASSUME TypeOK, InHand, FormInv, [Next]_vars
    PROVE  FormInv'
<1>a. /\ journal \in [Req -> Replayed] /\ settled \in [Req -> Replayed]
      /\ pc \in Points
      /\ rejectedIds \subseteq Req /\ (pc \in Busy => cur \in Req)
      /\ HistoryReq \subseteq Req
  BY DEF TypeOK, InHand, HistoryReq
<1>b. "journal" \in tears' => TornWrites
  BY ErrorsCount DEF FormInv
<1>c. ioErrors' = 0 => ioErrors = 0 /\ ~IOError
  BY ErrorsCount
<1>d. \A r \in landed' \cap HistoryReq : WellFormed(r)
  <2> SUFFICES ASSUME NEW r \in landed' \cap HistoryReq, r \notin landed PROVE WellFormed(r)
    BY DEF FormInv
  <2>1. r = cur /\ (Apply \/ ApplyOwner \/ IOFail) /\ landed' # landed
    BY LandedGrows
  <2>2. ~ApplyOwner
    BY <2>1 DEF ApplyOwner, InHand, HistoryReq
  <2>3. pc = "apply" /\ Accepts(docs, cur)
    BY <2>1, <2>2 DEF Apply, IOFail, EffectFails
  <2> QED BY <2>1, <2>3, HistoryForm DEF FormInv, WellFormed
<1> USE <1>a DEF client, disk, log, process, bounds, history, Points, Busy
<1> DEFINE Refusals ==
        ioErrors = 0 =>
        /\ \A r \in HistoryReq :
              "REJECTED" \in {journal[r], settled[r]} \/ r \in rejectedIds => ~WellFormed(r)
        /\ pc \in {"jrejected", "rejectAgain"} /\ cur \in HistoryReq => ~WellFormed(cur)
        /\ pc = "reject" /\ cur \in HistoryReq => ~WellFormed(cur) \/ Guarded(cur)
           Taken == pc \in {"jpending", "apply"}
                        => Body[cur].shape \notin {"undecodable", "invalid"}
<1> SUFFICES Refusals' /\ Taken'
  BY <1>b, <1>d DEF FormInv, WellFormed, Guarded
<1>0. Refusals /\ Taken
  BY DEF FormInv
<1>1. CASE \E r \in Req, point \in Points : Take(r, point) /\ TakeStep
  <2>1. PICK r \in Req : \/ TakeUndecodable(r) \/ TakeApplied(r)
                         \/ TakeRejected(r) \/ TakeReconciled(r)
                         \/ TakeRefused(r) \/ TakeValid(r)
    BY <1>1 DEF TakeStep
  <2>2. /\ pc = "loop" /\ cur' = r /\ UNCHANGED <<journal, settled, rejectedIds, ioErrors>>
    BY <2>1 DEF TakeUndecodable, TakeApplied, TakeRejected, TakeReconciled,
                TakeRefused, TakeValid, Take, Turn
  <2>3. CASE TakeUndecodable(r)
    BY <1>0, <2>2, <2>3 DEF TakeUndecodable, Take, Turn, WellFormed
  <2>4. CASE TakeApplied(r) \/ TakeReconciled(r)
    BY <1>0, <2>2, <2>4 DEF TakeApplied, TakeReconciled, Take, Turn
  <2>5. CASE TakeRejected(r)
    BY <1>0, <2>2, <2>5 DEF TakeRejected, Take, Turn
  <2>6. CASE TakeRefused(r)
    <3>1. ~WellFormed(r) \/ Guarded(r)
      BY <2>6 DEF TakeRefused, Acceptable, CheckPreconditions, CheckHash, WellFormed, Guarded
    <3> QED BY <1>0, <2>2, <2>6, <3>1 DEF TakeRefused, Take, Turn, WellFormed, Guarded
  <2>7. CASE TakeValid(r)
    BY <1>0, <2>2, <2>7 DEF TakeValid, Acceptable, Take, Turn
  <2> QED BY <2>1, <2>3, <2>4, <2>5, <2>6, <2>7
<1>2. CASE JournalPending \/ JournalApplied
  <2>1. /\ pc' \in {"apply", "archive", "archiveAgain"}
        /\ UNCHANGED <<cur, rejectedIds, ioErrors>>
        /\ pc' = "apply" => pc = "jpending"
    BY <1>2 DEF JournalPending, JournalApplied
  <2>2. PICK status \in {"PENDING", "APPLIED"} : JournalAppend(cur, status) /\ cur \in Req
    BY <1>2 DEF JournalPending, JournalApplied
  <2>3. \A r \in Req : "REJECTED" \in {journal'[r], settled'[r]} => settled[r] = "REJECTED"
    BY <2>2, LogMarks
  <2> QED BY <1>0, <2>1, <2>3
<1>3. CASE JournalRejected
  <2>1. /\ pc = "jrejected" /\ pc' = "reject" /\ UNCHANGED <<cur, ioErrors>> /\ cur \in Req
        /\ rejectedIds' = rejectedIds \cup {cur}
    BY <1>3 DEF JournalRejected
  <2>2. \A r \in Req : "REJECTED" \in {journal'[r], settled'[r]}
                        => settled[r] = "REJECTED" \/ r = cur
    BY <1>3, <2>1, LogMarks DEF JournalRejected
  <2> QED BY <1>0, <2>1, <2>2
<1>4. CASE ApplyRaises
  <2>1. /\ pc' = "jrejected" /\ UNCHANGED <<cur, journal, settled, rejectedIds, ioErrors>>
        /\ ~Accepts(docs, cur)
    BY <1>4 DEF ApplyRaises
  <2>2. cur \in HistoryReq => ~WellFormed(cur)
    BY <2>1, HistoryForm DEF WellFormed
  <2> QED BY <1>0, <2>1, <2>2 DEF WellFormed
<1>5. CASE Start
  <2>1. /\ pc' = "idle" /\ UNCHANGED <<journal, settled, ioErrors>>
        /\ rejectedIds' = {r \in Req : journal[r] = "REJECTED"}
    BY <1>5 DEF Start
  <2> QED BY <1>0, <2>1
<1>6. CASE DrainBegin \/ DrainEnd \/ ApplyMkdir \/ Apply \/ ApplyOwner \/ Archive
           \/ Reject \/ WriteReason
  <2>1. /\ pc' \in {"idle", "loop", "owner", "japplied", "reason"}
        /\ UNCHANGED <<journal, settled, rejectedIds, ioErrors>>
    BY <1>6 DEF DrainBegin, DrainEnd, ApplyMkdir, Apply, ApplyOwner, Archive,
                Reject, WriteReason
  <2> QED BY <1>0, <2>1
<1>7. CASE IOFail \/ IOAbort \/ (\E r \in Req : Unreadable(r))
  <2>1. ~(ioErrors' = 0) /\ pc' \notin {"jpending", "apply"}
    BY <1>7, <1>c DEF IOError, IOFail, IOAbort, Unreadable, Turn
  <2> QED BY <2>1
<1>8. CASE Stop \/ Crash
  <2>1. pc' = "down" /\ rejectedIds' = {} /\ UNCHANGED ioErrors
    BY <1>8 DEF Stop, Crash, Exit
  <2>2. ASSUME NEW r \in Req, "REJECTED" \in {journal'[r], settled'[r]}
        PROVE  \/ "REJECTED" \in {journal[r], settled[r]}
               \/ r = cur /\ pc = "jrejected"
    <3>1. CASE Stop
      BY <2>2, <3>1 DEF Stop
    <3>2. CASE Crash /\ cur \in Req
      BY <2>2, <3>2, FailureMarks DEF Crash, JournalStatus, Journalling
    <3>3. CASE Crash /\ cur \notin Req
      BY <2>2, <3>3 DEF Crash, Unfinished, TearJournal, TearOwner, TearRows, Journalling
    <3> QED BY <1>8, <3>1, <3>2, <3>3
  <2> QED BY <1>0, <2>1, <2>2
<1>9. CASE Tick \/ (\E r \in Req : Stamp(r) \/ Publish(r)) \/ UNCHANGED vars
  <2>1. UNCHANGED <<pc, cur, journal, settled, rejectedIds, ioErrors>>
    BY <1>9 DEF Tick, Stamp, Publish, vars
  <2> QED BY <1>0, <2>1
<1> QED BY <1>1, <1>2, <1>3, <1>4, <1>5, <1>6, <1>7, <1>8, <1>9, NextCases

-----------------------------------------------------------------------------
FullInv ==
    /\ TypeOK /\ InHand /\ AppliedIsShown /\ Believed
    /\ JournalInv /\ LandedInv /\ FormInv

\* The invariants the refinement needs hold together.
LEMMA FullInvariant == Spec => []FullInv
<1>1. Init => FullInv
  <2>1. Init => AppliedIsShown /\ Believed
    BY DEF Init, JournalInit, AppliedIsShown, Believed
  <2>2. Init => JournalInv /\ LandedInv
    BY DEF Init, JournalInit, JournalInv, JournalTells, JournalOfCur, LandedInv, Busy, Points
  <2>3. Init => FormInv
    BY DEF Init, JournalInit, FormInv, HistoryReq
  <2> QED BY <2>1, <2>2, <2>3, TypeInit DEF FullInv
<1>2. FullInv /\ [Next]_vars => FullInv'
  BY TypeStep, ShownStep, JournalStep, LandedStep, FormStep DEF FullInv
<1> QED BY <1>1, <1>2, PTL DEF Spec

\* Why a refusal is truthful: an append that is on its way to be refused did
\* not take effect, unless it is one of those MayBeRefused names.
LEMMA RefusedDidNothing ==
    ASSUME FullInv, pc \in {"reject", "rejectAgain"}, cur \in HistoryReq
    PROVE  cur \notin landed \/ cur \in MayBeRefused
<1>1. CASE MaxIOErrors > 0
  BY <1>1 DEF MayBeRefused
<1>2. CASE ~(MaxIOErrors > 0)
  <2>1. ioErrors = 0
    BY <1>2, BoundAssumption DEF FullInv, TypeOK
  <2>2. CASE ~TornWrites
    <3>1. JournalWhole
      BY <2>1, <2>2 DEF FullInv, FormInv, JournalWhole
    <3>2. Body[cur].intent \in AppendIntents
      BY DEF HistoryReq, AppendIntents
    <3> QED BY <3>1, <3>2 DEF FullInv, LandedInv
  <2>3. CASE TornWrites
    <3>1. cur \in landed => WellFormed(cur)
      BY DEF FullInv, FormInv
    <3>2. pc = "rejectAgain" => ~WellFormed(cur)
      BY <2>1 DEF FullInv, FormInv
    <3>3. pc = "reject" => ~WellFormed(cur) \/ Guarded(cur)
      BY <2>1 DEF FullInv, FormInv
    <3>4. Guarded(cur) => cur \in MayBeRefused
      BY <2>3 DEF Guarded, MayBeRefused
    <3> QED BY <3>1, <3>2, <3>3, <3>4
  <2> QED BY <2>2, <2>3
<1> QED BY <1>1, <1>2

\* What the log's clients see.
LogAsked  == {r \in HistoryReq : where[r] \notin {"unborn", "stamped"}}
LogTook   == landed \cap HistoryReq
LogAnswer == [r \in HistoryReq |->
                IF where[r] \in {"applied", "rejected"} THEN where[r] ELSE "none"]

\* A step that changes nothing the log is made of is a stutter of the log.
LEMMA Unseen ==
    ASSUME UNCHANGED <<LogAsked, LogTook, LogAnswer, docs.history>>
    PROVE  UNCHANGED Log!vars
  BY DEF Log!vars, LogAsked, LogTook, LogAnswer

\* A write that does not come to its end leaves HISTORY.md alone.
LEMMA UnfinishedKeeps ==
    ASSUME docs \in Docs, Unfinished, pc \in Busy => cur \in Req
    PROVE  docs'.history = docs.history
<1>1. CASE TearRows
  <2>1. docs'.history = Effect(docs, cur).history
    <3>1. cur \in Req /\ Effect(docs, cur) \in Docs
      BY <1>1, EffectType DEF TearRows, Busy, Points
    <3> QED BY <1>1, <3>1 DEF TearRows, Docs
  <2>2. Body[cur].intent \in RowIntents \cup TaskIntents
    BY <1>1 DEF TearRows
  <2>3. Effect(docs, cur).history = docs.history
    BY <2>2 DEF Effect, RowIntents, TaskIntents, StatusUpdate, StatusRowInsert,
                TasksBracket, TasksInject, Docs
  <2> QED BY <2>1, <2>3
<1>2. CASE TearOwner
  BY <1>2 DEF TearOwner, Docs
<1> QED BY <1>1, <1>2 DEF Unfinished, TearJournal

\* One step of the queue is one step of the log, or none.
LEMMA LogStep ==
    ASSUME FullInv, [Next]_vars
    PROVE  [Log!Next]_(Log!vars)
<1>a. /\ where \in [Req -> Places] /\ docs \in Docs /\ landed \subseteq Req
      /\ (pc \in Busy => cur \in Req) /\ HistoryReq \subseteq Req
      /\ pc \in Busy \ {"reason"} => where[cur] = "pending"
  BY DEF FullInv, TypeOK, InHand, HistoryReq
<1> USE <1>a DEF client, disk, log, process, bounds, history, Points, Busy
<1>1. CASE UNCHANGED <<where, landed>> /\ docs'.history = docs.history
  BY <1>1, Unseen DEF LogAsked, LogTook, LogAnswer
<1>2. ASSUME NEW r \in Req, Stamp(r) PROVE UNCHANGED Log!vars
  <2>1. UNCHANGED <<landed, docs>> /\ \A q \in Req : where'[q] = where[q]
            \/ (where[q] \in {"unborn", "stamped"} /\ where'[q] \in {"unborn", "stamped"})
    BY <1>2 DEF Stamp
  <2> QED BY <2>1, Unseen DEF LogAsked, LogTook, LogAnswer
<1>3. ASSUME NEW r \in Req, Publish(r) PROVE [Log!Next]_(Log!vars)
  <2>1. /\ UNCHANGED <<landed, docs>> /\ where[r] = "stamped" /\ where'[r] = "pending"
        /\ \A q \in Req : q # r => where'[q] = where[q]
    BY <1>3 DEF Publish
  <2>2. UNCHANGED <<LogTook, LogAnswer, docs.history>>
    BY <2>1 DEF LogTook, LogAnswer
  <2>3. CASE r \notin HistoryReq
    <3>1. UNCHANGED LogAsked
      BY <2>1, <2>3 DEF LogAsked
    <3> QED BY <2>2, <3>1, Unseen
  <2>4. CASE r \in HistoryReq
    <3>1. r \notin LogAsked /\ LogAsked' = LogAsked \cup {r}
      BY <2>1, <2>4 DEF LogAsked
    <3>2. Log!Submit(r)
      BY <2>2, <3>1 DEF Log!Submit, LogAsked, LogTook, LogAnswer
    <3> QED BY <2>4, <3>2 DEF Log!Next
  <2> QED BY <2>3, <2>4
<1>4. CASE landed' # landed
  <2>1. /\ landed' = landed \cup {cur} /\ cur \in Req /\ docs' = Effect(docs, cur)
        /\ where' = where /\ (Apply \/ ApplyOwner \/ IOFail)
    BY <1>4, LandedGrows DEF FullInv
  <2>2. CASE cur \notin HistoryReq
    <3>1. docs'.history = docs.history
      <4>1. Body[cur].intent \in Intents /\ Body[cur].intent # "HISTORY_APPEND"
        BY <2>1, <2>2, BodyType DEF HistoryReq
      <4> QED BY <2>1, <4>1
        DEF Effect, Intents, AppendIntents, RowIntents, TaskIntents, MissionEventAppend, StatusUpdate,
            TasksBracket, StatusRowInsert, TasksInject, ClaimOwner, ClaimDirDone, Docs
    <3> QED BY <2>1, <2>2, <3>1, Unseen DEF LogAsked, LogTook, LogAnswer
  <2>3. CASE cur \in HistoryReq
    <3>1. where[cur] = "pending"
      BY <2>1 DEF Apply, ApplyOwner, IOFail
    <3>2. docs'.history = IF Present(Body[cur].line, docs.history) THEN docs.history
                          ELSE Append(docs.history, Body[cur].line)
      <4>1. docs' = HistoryAppend(docs, cur)
        BY <2>1, <2>3, HistoryForm
      <4>2. CASE Present(Body[cur].line, docs.history)
        BY <4>1, <4>2, Zenon DEF HistoryAppend
      <4>3. CASE ~Present(Body[cur].line, docs.history)
        <5>1. docs' = [docs EXCEPT !.history = Append(docs.history, Body[cur].line)]
          BY <4>1, <4>3, Zenon DEF HistoryAppend
        <5> QED BY <4>3, <5>1 DEF Docs
      <4> QED BY <4>2, <4>3
    <3>3. cur \in LogAsked /\ LogAnswer[cur] = "none" /\ LogTook' = LogTook \cup {cur}
          /\ UNCHANGED <<LogAsked, LogAnswer>>
      BY <2>1, <2>3, <3>1 DEF LogAsked, LogAnswer, LogTook
    <3>4. PICK c \in HistoryReq : c = cur
      BY <2>3
    <3>5. Log!TakeEffect(c)
      BY <3>2, <3>3, <3>4
      DEF Log!TakeEffect, Log!IsIn, Present, LogAsked, LogAnswer, LogTook
    <3> QED BY <3>4, <3>5 DEF Log!Next
  <2> QED BY <2>2, <2>3
<1>5. CASE Archive \/ Reject
  <2>1. PICK c \in Req, to \in {"applied", "rejected"} :
            /\ c = cur /\ where[c] = "pending" /\ where' = [where EXCEPT ![c] = to]
            /\ UNCHANGED <<landed, docs>>
            /\ to = "applied" => pc \in {"archive", "archiveAgain"}
            /\ to = "rejected" => pc \in {"reject", "rejectAgain"}
    BY <1>5 DEF Archive, Reject
  <2>2. where'[c] = to /\ \A q \in Req : q # c => where'[q] = where[q]
    BY <2>1
  <2>3. UNCHANGED <<LogAsked, LogTook, docs.history>>
    BY <2>1, <2>2 DEF LogAsked, LogTook
  <2>4. CASE c \notin HistoryReq
    <3>1. UNCHANGED LogAnswer
      BY <2>2, <2>4 DEF LogAnswer
    <3> QED BY <2>3, <3>1, Unseen
  <2>5. CASE c \in HistoryReq
    <3>1. LogAnswer' = [LogAnswer EXCEPT ![c] = to] /\ LogAnswer[c] = "none"
      BY <2>1, <2>2, <2>5 DEF LogAnswer
    <3>2. c \in LogAsked
      BY <2>1, <2>5 DEF LogAsked
    <3>3. CASE to = "applied"
      <4>1. Present(Body[c].line, docs.history)
        BY <2>1, <2>5, <3>3
        DEF FullInv, Believed, Shown, Damaged, Shows, AppendTarget, HistoryReq,
            AppendIntents, RowIntents, TaskIntents
      <4>2. Log!Confirm(c)
        BY <2>3, <2>5, <3>1, <3>2, <3>3, <4>1
        DEF Log!Confirm, Log!IsIn, Present, LogAsked, LogAnswer, LogTook
      <4> QED BY <2>5, <4>2 DEF Log!Next
    <3>4. CASE to = "rejected"
      <4>1. c \notin landed \/ c \in MayBeRefused
        BY <2>1, <2>5, <3>4, RefusedDidNothing
      <4>2. Log!Refuse(c)
        BY <2>3, <2>5, <3>1, <3>2, <3>4, <4>1
        DEF Log!Refuse, LogAsked, LogAnswer, LogTook
      <4> QED BY <2>5, <4>2 DEF Log!Next
    <3> QED BY <3>3, <3>4
  <2> QED BY <2>4, <2>5
<1>6. CASE Tick \/ DrainBegin \/ DrainEnd \/ Start \/ JournalPending \/ ApplyRaises
           \/ JournalApplied \/ JournalRejected \/ WriteReason \/ Stop \/ UNCHANGED vars
  BY <1>1, <1>6
  DEF Tick, DrainBegin, DrainEnd, Start, JournalPending, ApplyRaises, JournalApplied,
      JournalRejected, WriteReason, Stop, vars
<1>7. CASE \/ \E r \in Req, point \in Points : Take(r, point) /\ TakeStep
          \/ \E r \in Req : Unreadable(r)
  BY <1>1, <1>7 DEF Take, Turn, Unreadable
<1>8. CASE ApplyMkdir \/ Crash \/ IOAbort
  <2>1. UNCHANGED <<where, landed>> /\ docs'.history = docs.history
    BY <1>8, UnfinishedKeeps DEF ApplyMkdir, ClaimMkdir, Crash, IOAbort, LineFails,
       FullInv, TypeOK, Docs
  <2> QED BY <1>1, <2>1
<1>9. CASE (Apply \/ ApplyOwner \/ IOFail) /\ landed' = landed
  <2>1. UNCHANGED where
    BY <1>9 DEF Apply, ApplyOwner, IOFail
  <2>2. CASE IOFail /\ (Unfinished \/ LineFails)
    <3>1. docs'.history = docs.history
      BY <2>2, UnfinishedKeeps DEF LineFails
    <3> QED BY <1>1, <1>9, <2>1, <3>1
  <2>3. CASE docs' = Effect(docs, cur) /\ cur \in landed /\ cur \in Req /\ where[cur] = "pending"
    <3>1. CASE cur \notin HistoryReq
      <4>1. Body[cur].intent \in Intents /\ Body[cur].intent # "HISTORY_APPEND"
        BY <2>3, <3>1, BodyType DEF HistoryReq
      <4>2. docs'.history = docs.history
        BY <2>3, <4>1
        DEF Effect, Intents, AppendIntents, RowIntents, TaskIntents, MissionEventAppend, StatusUpdate,
            TasksBracket, StatusRowInsert, TasksInject, ClaimOwner, ClaimDirDone, Docs
      <4> QED BY <1>1, <1>9, <2>1, <4>2
    <3>2. CASE cur \in HistoryReq
      <4>1. Present(Body[cur].line, docs.history)
        BY <2>3, <3>2 DEF FullInv, LandedInv, Shown, Damaged, Shows,
         AppendTarget, HistoryReq, AppendIntents, RowIntents, TaskIntents
      <4>2. docs'.history = docs.history
        BY <2>3, <3>2, <4>1, HistoryForm DEF HistoryAppend
      <4> QED BY <1>1, <1>9, <2>1, <4>2
    <3> QED BY <3>1, <3>2
  <2>4. IOFail => (IOFail /\ (Unfinished \/ LineFails))
                  \/ (docs' = Effect(docs, cur) /\ cur \in landed' /\ pc = "apply")
    BY DEF IOFail, EffectFails
  <2>5. Apply => docs' = Effect(docs, cur) /\ cur \in landed' /\ pc = "apply"
    BY DEF Apply
  <2>6. ApplyOwner => docs' = Effect(docs, cur) /\ cur \in landed' /\ pc = "owner"
    BY DEF ApplyOwner, FullInv, InHand, Effect, AppendIntents, RowIntents, TaskIntents
  <2> QED BY <1>9, <2>2, <2>3, <2>4, <2>5, <2>6
<1> HIDE <1>a DEF client, disk, log, process, bounds, history, Points, Busy
<1> QED BY <1>2, <1>3, <1>4, <1>5, <1>6, <1>7, <1>8, <1>9, NextCases

(***************************************************************************)
(* HISTORY.md through the queue is an exactly-once log: for any requests,  *)
(* crashes, torn writes and failing file operations, every behaviour of    *)
(* the queue, seen through HISTORY.md and the archive directories, is one  *)
(* of ExactlyOnceLog.                                                      *)
(***************************************************************************)
THEOREM QueueIsExactlyOnce == Spec => ImplementsLog
<1>1. Init => Log!Init
  BY DEF Init, Log!Init, InitDocs, HistoryReq
<1>2. Spec => [][Log!Next]_(Log!vars)
  BY FullInvariant, LogStep, PTL DEF Spec
<1> QED BY <1>1, <1>2 DEF Spec, ImplementsLog, Log!Spec

=============================================================================
