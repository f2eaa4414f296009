------------------------ MODULE QueueApplierProofs ------------------------
(***************************************************************************)
(* What holds of the write queue for every set of requests, every bound on *)
(* restarts and failing file operations, and every interleaving.           *)
(***************************************************************************)
EXTENDS QueueApplier, TLAPS

-----------------------------------------------------------------------------
\* Facts about the handlers (MissionDocs)

\* What a request carries, by the assumption on Body.
LEMMA BodyType ==
    ASSUME NEW r \in Req
    PROVE  /\ Body[r] \in Bodies
           /\ Body[r].intent \in Intents
           /\ Body[r].agent \in Agent
           /\ Body[r].lane \in Lane
           /\ Body[r].task \in Task
           /\ Body[r].line \in Line
BY BodyAssumption DEF Bodies

\* The documents an applier finds at first are well formed.
LEMMA InitDocsType == InitDocs \in Docs
BY StartAssumption DEF InitDocs, Docs, NoDir, None, Given

\* Every handler leaves well-formed documents.
LEMMA EffectType ==
    ASSUME NEW d \in Docs, NEW r \in Req
    PROVE  Effect(d, r) \in Docs
<1>1. StatusUpdate(d, r) \in Docs
  BY BodyType DEF Docs, StatusUpdate
<1>2. TasksBracket(d, r) \in Docs
  BY BodyType DEF Docs, TasksBracket
<1>3. StatusRowInsert(d, r) \in Docs
  BY BodyType DEF Docs, StatusRowInsert
<1>4. TasksInject(d, r) \in Docs
  BY BodyType DEF Docs, TasksInject
<1>5. HistoryAppend(d, r) \in Docs
  <2>1. Append(d.history, Body[r].line) \in Seq(Line)
    BY BodyType DEF Docs
  <2> QED BY <2>1 DEF Docs, HistoryAppend
<1>6. MissionEventAppend(d, r) \in Docs
  <2>1. Append(d.events, Body[r].line) \in Seq(Line)
    BY BodyType DEF Docs
  <2> QED BY <2>1 DEF Docs, MissionEventAppend
<1>7. ClaimOwner(d, r) \in Docs
  BY BodyType DEF Docs, ClaimOwner
<1>8. ClaimDirDone(d, r) \in Docs
  BY BodyType DEF Docs, ClaimDirDone
<1> QED
  BY <1>1, <1>2, <1>3, <1>4, <1>5, <1>6, <1>7, <1>8, BodyType
  DEF Effect, Intents, RowIntents, TaskIntents, AppendIntents

\* The parts of CLAIM_DIR_CREATE, a torn owner.txt and a lost row leave
\* well-formed documents.
LEMMA MkdirType ==
    ASSUME NEW d \in Docs, NEW r \in Req
    PROVE  /\ ClaimMkdir(d, r) \in Docs
           /\ ClaimOwner(d, r) \in Docs
           /\ [d EXCEPT !.owner[Body[r].task] = Empty] \in Docs
           /\ \A l \in Lane : [d EXCEPT !.status[l] = None] \in Docs
           /\ \A t \in Task : [d EXCEPT !.tasks[t] = None] \in Docs
BY BodyType DEF Docs, ClaimMkdir, ClaimOwner

\* What an expected_hash is compared with is a content.
LEMMA TargetType ==
    ASSUME NEW d \in Docs, NEW r \in Req
    PROVE  Target(d, r) \in Contents
BY DEF Docs, Target, AppendTarget, Contents

-----------------------------------------------------------------------------
(***************************************************************************)
(* What a handler never takes away.  This is what makes a request that has *)
(* once been shown stay shown.                                             *)
(***************************************************************************)
Grows(d, e) ==
    /\ \A l \in Line : Present(l, d.history) => Present(l, e.history)
    /\ \A l \in Line : Present(l, d.events) => Present(l, e.events)
    /\ \A l \in Lane : d.status[l] # None => e.status[l] # None
    /\ \A t \in Task : d.tasks[t] # None => e.tasks[t] # None
    /\ \A t \in Task : d.owner[t] \in Agent => e.owner[t] = d.owner[t]
    /\ d.done \subseteq e.done

\* A line that is in a file is there after an append.
LEMMA PresentAppend ==
    ASSUME NEW f \in Seq(Line), NEW l \in Line, NEW m \in Line,
           Present(l, f)
    PROVE  Present(l, Append(f, m))
<1>1. PICK i \in 1..Len(f) : f[i] \in Within[l]
  BY DEF Present
<1>2. i \in 1..Len(Append(f, m)) /\ Append(f, m)[i] = f[i]
  BY <1>1
<1> QED BY <1>1, <1>2 DEF Present

\* A line that was just appended is in the file.
LEMMA PresentLast ==
    ASSUME NEW f \in Seq(Line), NEW l \in Line
    PROVE  Present(l, Append(f, l))
<1>1. Len(f) + 1 \in 1..Len(Append(f, l)) /\ Append(f, l)[Len(f) + 1] = l
  OBVIOUS
<1> QED BY <1>1, LineAssumption DEF Present

\* What the documents show of a request they go on to show while they grow.
LEMMA ShowsGrows ==
    ASSUME NEW d \in Docs, NEW e \in Docs, NEW r \in Req,
           Grows(d, e), Shows(d, r)
    PROVE  Shows(e, r)
BY BodyType DEF Grows, Shows, RowIntents, TaskIntents, AppendTarget, Intents, AppendIntents

\* A handler that accepts its request only adds to the documents or
\* overwrites a row.
LEMMA EffectGrows ==
    ASSUME NEW d \in Docs, NEW r \in Req, Accepts(d, r)
    PROVE  Grows(d, Effect(d, r))
<1> DEFINE b == Body[r]
<1>a. b.intent \in Intents /\ b.lane \in Lane /\ b.task \in Task
      /\ b.agent \in Agent /\ b.line \in Line /\ r # None
  BY BodyType, NamesAssumption
<1>b. /\ d.history \in Seq(Line) /\ d.events \in Seq(Line)
      /\ DOMAIN d.status = Lane /\ DOMAIN d.tasks = Task
      /\ DOMAIN d.owner = Task
  BY DEF Docs
<1>1. Grows(d, StatusUpdate(d, r))
  BY <1>a, <1>b DEF Grows, StatusUpdate, Docs
<1>2. Grows(d, TasksBracket(d, r))
  BY <1>a, <1>b DEF Grows, TasksBracket, Docs
<1>3. Grows(d, StatusRowInsert(d, r))
  BY <1>a, <1>b DEF Grows, StatusRowInsert, Docs
<1>4. Grows(d, TasksInject(d, r))
  BY <1>a, <1>b DEF Grows, TasksInject, Docs
<1>5. Grows(d, HistoryAppend(d, r))
  <2>1. CASE Present(b.line, d.history)
    BY <2>1 DEF HistoryAppend, Grows
  <2>2. CASE ~Present(b.line, d.history)
    <3>1. HistoryAppend(d, r) = [d EXCEPT !.history = Append(@, b.line)]
      BY <2>2 DEF HistoryAppend
    <3>2. \A l \in Line : Present(l, d.history)
             => Present(l, Append(d.history, b.line))
      BY <1>a, <1>b, PresentAppend
    <3> QED BY <3>1, <3>2, <1>a DEF Grows, Docs
  <2> QED BY <2>1, <2>2
<1>6. Grows(d, MissionEventAppend(d, r))
  <2>1. CASE Present(b.line, d.events)
    BY <2>1 DEF MissionEventAppend, Grows
  <2>2. CASE ~Present(b.line, d.events)
    <3>1. MissionEventAppend(d, r) = [d EXCEPT !.events = Append(@, b.line)]
      BY <2>2 DEF MissionEventAppend
    <3>2. \A l \in Line : Present(l, d.events)
             => Present(l, Append(d.events, b.line))
      BY <1>a, <1>b, PresentAppend
    <3> QED BY <3>1, <3>2, <1>a DEF Grows, Docs
  <2> QED BY <2>1, <2>2
<1>7. ClaimDirCreateOK(d, r) => Grows(d, ClaimOwner(d, r))
  BY <1>a, <1>b, NamesAssumption DEF Grows, ClaimOwner, ClaimDirCreateOK, Docs
<1>8. Grows(d, ClaimDirDone(d, r))
  BY <1>a, <1>b DEF Grows, ClaimDirDone, Docs
<1> QED
  BY <1>a, <1>1, <1>2, <1>3, <1>4, <1>5, <1>6, <1>7, <1>8
  DEF Effect, Accepts, Intents, RowIntents, TaskIntents, AppendIntents

\* A handler that does not raise leaves what the request asked for.
LEMMA EffectShows ==
    ASSUME NEW d \in Docs, NEW r \in Req
    PROVE  Shows(Effect(d, r), r)
<1> DEFINE b == Body[r]
<1>a. b.intent \in Intents /\ b.lane \in Lane /\ b.task \in Task
      /\ b.agent \in Agent /\ b.line \in Line /\ r # None
  BY BodyType, NamesAssumption
<1>1. CASE b.intent = "HISTORY_APPEND"
  <2>1. Present(b.line, HistoryAppend(d, r).history)
    BY <1>a, PresentLast DEF HistoryAppend, Docs
  <2> QED BY <1>1, <2>1 DEF Effect, Shows, RowIntents, TaskIntents, AppendTarget, AppendIntents
<1>2. CASE b.intent \in {"MISSION_EVENT_APPEND", "MISSION_EVENT_CORRECTION"}
  <2>1. Present(b.line, MissionEventAppend(d, r).events)
    BY <1>a, PresentLast DEF MissionEventAppend, Docs
  <2> QED BY <1>2, <2>1 DEF Effect, Shows, RowIntents, TaskIntents, AppendTarget, AppendIntents
<1>3. CASE b.intent \in RowIntents
  BY <1>3, <1>a
  DEF Effect, Shows, RowIntents, TaskIntents, AppendIntents, StatusUpdate, StatusRowInsert, Docs
<1>4. CASE b.intent \in TaskIntents
  BY <1>4, <1>a
  DEF Effect, Shows, RowIntents, TaskIntents, AppendIntents, TasksBracket, TasksInject, Docs
<1>5. CASE b.intent \in {"CLAIM_DIR_CREATE", "CLAIM_DIR_DONE"}
  BY <1>5, <1>a
  DEF Effect, Shows, RowIntents, TaskIntents, AppendIntents, ClaimOwner, ClaimDirDone, Docs
<1> QED BY <1>a, <1>1, <1>2, <1>3, <1>4, <1>5 DEF Intents, RowIntents, TaskIntents, AppendIntents

-----------------------------------------------------------------------------
\* The actions of Next, one by one.
LEMMA NextCases ==
    ASSUME Next
    PROVE  \/ Tick \/ (\E r \in Req : Stamp(r) \/ Publish(r))
           \/ Start \/ DrainBegin \/ DrainEnd
           \/ (\E r \in Req, point \in Points : Take(r, point) /\ TakeStep)
           \/ JournalPending \/ Apply \/ ApplyMkdir \/ ApplyOwner
           \/ ApplyRaises \/ JournalApplied \/ Archive
           \/ JournalRejected \/ Reject \/ WriteReason
           \/ IOFail \/ IOAbort \/ (\E r \in Req : Unreadable(r)) \/ Stop \/ Crash
<1>1. TakeStep => \E r \in Req, point \in Points : Take(r, point) /\ TakeStep
  BY DEF TakeStep, TakeUndecodable, TakeApplied, TakeRejected,
         TakeReconciled, TakeRefused, TakeValid, Points
<1> QED BY <1>1 DEF Next, ClientStep, ApplierStep, IOError

\* A status that is journalled leaves a replay entry.
LEMMA CollapseType ==
    ASSUME NEW old \in Replayed, NEW status \in {"PENDING", "APPLIED", "REJECTED"}
    PROVE  Collapse(old, status) \in Replayed
BY DEF Collapse, Replayed

\* A write to the journal, finished or not, leaves a map to replay.
LEMMA LogType ==
    ASSUME settled \in [Req -> Replayed], cur \in Req,
           NEW status \in {"PENDING", "APPLIED", "REJECTED"},
           JournalAppend(cur, status) \/ JournalTear(cur, status)
    PROVE  /\ journal' \in [Req -> Replayed] /\ settled' \in [Req -> Replayed]
           /\ torn' \in BOOLEAN
<1>1. Collapse(settled[cur], status) \in Replayed
  BY CollapseType
<1>2. Entered(cur, status) \in [Req -> Replayed]
  BY <1>1 DEF Entered
<1> QED BY <1>2 DEF JournalAppend, JournalTear

\* What the line says that is being written.
LEMMA StatusType == JournalStatus \in {"PENDING", "APPLIED", "REJECTED"}
BY DEF JournalStatus

\* The files that can be torn.
Tearable == Task \cup {"journal", "STATUS.md", "TASKS.md"}

\* A write that stops half way leaves well-typed documents and journal.
LEMMA UnfinishedType ==
    ASSUME TypeOK, cur \in Req, Unfinished
    PROVE  /\ docs' \in Docs
           /\ journal' \in [Req -> Replayed] /\ settled' \in [Req -> Replayed]
           /\ torn' \in BOOLEAN
           /\ tears' \subseteq Tearable
<1>0. /\ docs \in Docs /\ Effect(docs, cur) \in Docs /\ Body[cur].task \in Task
      /\ journal \in [Req -> Replayed] /\ settled \in [Req -> Replayed]
      /\ torn \in BOOLEAN /\ tears \subseteq Tearable
  BY EffectType, BodyType DEF TypeOK, Tearable
<1>1. CASE UNCHANGED <<docs, log, tears>>
  BY <1>0, <1>1 DEF log
<1>2. CASE TearJournal
  <2>1. /\ journal' \in [Req -> Replayed] /\ settled' \in [Req -> Replayed]
        /\ torn' \in BOOLEAN
    BY <1>0, <1>2, LogType, StatusType DEF TearJournal
  <2> QED BY <1>0, <1>2, <2>1 DEF TearJournal, Tearable
<1>3. CASE TearOwner
  BY <1>0, <1>3, MkdirType DEF TearOwner, log, Tearable
<1>4. CASE TearRows
  <2>1. docs' \in Docs
    BY <1>0, <1>4, MkdirType, Zenon DEF TearRows
  <2>2. tears' \subseteq Tearable /\ UNCHANGED log
    BY <1>0, <1>4 DEF TearRows, Tearable
  <2> QED BY <1>0, <2>1, <2>2 DEF log
<1> QED BY <1>1, <1>2, <1>3, <1>4 DEF Unfinished

\* So does one that fails only when the file is synchronised.
LEMMA FailsType ==
    ASSUME TypeOK, cur \in Req, LineFails \/ EffectFails
    PROVE  /\ docs' \in Docs
           /\ journal' \in [Req -> Replayed] /\ settled' \in [Req -> Replayed]
           /\ torn' \in BOOLEAN
           /\ tears' = tears
<1>1. CASE LineFails
  <2>1. /\ journal' \in [Req -> Replayed] /\ settled' \in [Req -> Replayed]
        /\ torn' \in BOOLEAN
    BY <1>1, LogType, StatusType DEF LineFails, TypeOK
  <2> QED BY <1>1, <2>1 DEF LineFails, TypeOK
<1>2. CASE EffectFails
  BY <1>2, EffectType DEF EffectFails, log, TypeOK
<1> QED BY <1>1, <1>2

\* The initial states are well typed.
LEMMA TypeInit == Init => TypeOK /\ InHand
<1> SUFFICES ASSUME Init PROVE TypeOK /\ InHand
  OBVIOUS
<1>1. clock \in 1..(MaxClock + 1) /\ restarts \in 0..MaxRestarts
      /\ ioErrors \in 0..MaxIOErrors /\ stamp \in [Req -> 0..(MaxClock + 1)]
  BY BoundAssumption DEF Init
<1>2. expected \in [Req -> Contents]
  BY DEF Init, Contents
<1>3. TypeOK
  BY <1>1, <1>2, InitDocsType DEF Init, JournalInit, TypeOK, Places, Points, Replayed
<1>4. InHand
  BY DEF Init, InHand, Busy, Points
<1> QED BY <1>3, <1>4

\* TypeOK and InHand need each other: the handlers are well-typed only on a
\* request, and the request in hand is one because batch holds requests.
LEMMA TypeStep ==
    ASSUME TypeOK, InHand, [Next]_vars
    PROVE  TypeOK' /\ InHand'
<1> USE DEF TypeOK, client, disk, log, process, bounds, history, Pending
<1>1. CASE Tick
  BY <1>1, BoundAssumption DEF Tick, InHand
<1>2. CASE \E r \in Req : Stamp(r) \/ Publish(r)
  <2> PICK r \in Req : Stamp(r) \/ Publish(r)
    BY <1>2
  <2>1. CASE Stamp(r)
    <3>1. Target(docs, r) \in Contents
      BY TargetType
    <3> QED BY <2>1, <3>1 DEF Stamp, InHand, Places
  <2>2. CASE Publish(r)
    BY <2>2 DEF Publish, InHand, Places
  <2> QED BY <2>1, <2>2
<1>3. CASE Start
  BY <1>3 DEF Start, InHand, Points, Busy
<1>4. CASE DrainBegin \/ DrainEnd
  BY <1>4 DEF DrainBegin, DrainEnd, InHand, Points, Busy
<1>5. CASE \E r \in Req, point \in Points : Take(r, point) /\ TakeStep
  <2> PICK r \in Req, point \in Points \ {"owner"} : Take(r, point)
    BY <1>5 DEF TakeStep, TakeUndecodable, TakeApplied, TakeRejected,
                TakeReconciled, TakeRefused, TakeValid, Points
  <2> QED BY DEF Take, Turn, First, InHand, Points, Busy
<1>6. CASE JournalPending \/ JournalApplied \/ JournalRejected
  <2>1. PICK status \in {"PENDING", "APPLIED", "REJECTED"} :
                JournalAppend(cur, status) /\ cur \in Req
    BY <1>6 DEF JournalPending, JournalApplied, JournalRejected,
                InHand, Points, Busy
  <2>3. /\ journal' \in [Req -> Replayed] /\ settled' \in [Req -> Replayed]
        /\ torn' \in BOOLEAN
    BY <2>1, LogType
  <2> QED BY <1>6, <2>3
    DEF JournalPending, JournalApplied, JournalRejected, InHand, Points, Busy
<1>7. CASE Apply
  BY <1>7, EffectType DEF Apply, InHand, Points, Busy
<1>8. CASE ApplyMkdir
  <2>1. cur \in Req /\ Body[cur].task \in Task /\ docs' \in Docs
    BY <1>8, MkdirType, BodyType DEF ApplyMkdir, InHand, Points, Busy
  <2>2. docs'.owner[Body[cur].task] = NoOwner
    BY <1>8, <2>1 DEF ApplyMkdir, ClaimMkdir, Docs
  <2> QED BY <1>8, <2>1, <2>2 DEF ApplyMkdir, MkdirFirst, InHand, Points, Busy
<1>9. CASE ApplyOwner
  BY <1>9, MkdirType DEF ApplyOwner, InHand, Points, Busy
<1>10. CASE ApplyRaises
  BY <1>10 DEF ApplyRaises, Unexpected, InHand, Points, Busy
<1>11. CASE Archive
  BY <1>11 DEF Archive, InHand, Points, Busy, Places
<1>12. CASE Reject
  BY <1>12 DEF Reject, InHand, Points, Busy, Places
<1>13. CASE WriteReason
  BY <1>13 DEF WriteReason, InHand, Points, Busy
<1>14. CASE IOFail \/ IOAbort
  <2>1. cur \in Req
    BY <1>14 DEF IOFail, IOAbort, InHand, Points, Busy
  <2>2. /\ docs' \in Docs /\ tears' \subseteq Tearable /\ torn' \in BOOLEAN
        /\ journal' \in [Req -> Replayed] /\ settled' \in [Req -> Replayed]
    BY <1>14, <2>1, UnfinishedType, FailsType DEF IOFail, IOAbort, Tearable
  <2>3. ioErrors' \in 0..MaxIOErrors
    BY <1>14, BoundAssumption DEF IOFail, IOAbort, OneMoreError
  <2>4. landed' \subseteq Req
    BY <1>14, <2>1 DEF IOFail, IOAbort, EffectFails
  <2>5. TypeOK'
    BY <1>14, <2>2, <2>3, <2>4 DEF IOFail, IOAbort, Points, Tearable
  <2>6. InHand'
    BY <1>14, <2>1 DEF IOFail, IOAbort, InHand, Points, Busy
  <2> QED BY <2>5, <2>6
<1>15. CASE \E r \in Req : Unreadable(r)
  <2>1. PICK r \in Req : Unreadable(r)
    BY <1>15
  <2>2. ioErrors' \in 0..MaxIOErrors
    BY <2>1, BoundAssumption DEF Unreadable, OneMoreError
  <2> QED BY <2>1, <2>2 DEF Unreadable, Turn, First, InHand, Points, Busy
<1>16. CASE Stop
  <2>1. restarts' \in 0..MaxRestarts
    BY <1>16, BoundAssumption DEF Stop
  <2>2. TypeOK'
    BY <1>16, <2>1 DEF Stop, Exit, Points
  <2>3. InHand'
    BY <1>16 DEF Stop, Exit, InHand, Points, Busy
  <2> QED BY <2>2, <2>3
<1>17. CASE Crash
  <2>1. /\ docs' \in Docs /\ torn' \in BOOLEAN /\ tears' \subseteq Tearable
        /\ journal' \in [Req -> Replayed] /\ settled' \in [Req -> Replayed]
    <3>1. CASE UNCHANGED <<docs, log, tears>>
      BY <3>1 DEF Tearable
    <3>2. CASE TearJournal \/ TearOwner \/ TearRows
      <4>1. cur \in Req
        BY <3>2 DEF TearJournal, Journalling, TearOwner, TearRows, InHand, Points, Busy
      <4> QED BY <1>17, <4>1, UnfinishedType DEF Crash
    <3> QED BY <1>17, <3>1, <3>2 DEF Crash, Unfinished
  <2>3. restarts' \in 0..MaxRestarts
    BY <1>17, BoundAssumption DEF Crash
  <2>4. TypeOK'
    BY <1>17, <2>1, <2>3 DEF Crash, Exit, Points, Tearable
  <2>5. InHand'
    BY <1>17 DEF Crash, Exit, InHand, Points, Busy
  <2> QED BY <2>4, <2>5
<1>18. CASE UNCHANGED vars
  BY <1>18 DEF vars, InHand
<1> QED
  BY <1>1, <1>2, <1>3, <1>4, <1>5, <1>6, <1>7, <1>8, <1>9, <1>10, <1>11,
     <1>12, <1>13, <1>14, <1>15, <1>16, <1>17, <1>18, NextCases

(***************************************************************************)
(* Type correctness: along every run of the queue, through crashes, torn   *)
(* journal lines and failing file operations, the state keeps its types,   *)
(* and drain_once always holds a request while it works on one.            *)
(***************************************************************************)
THEOREM TypeCorrect == Spec => []TypeOK
<1>1. Init => TypeOK /\ InHand
  BY TypeInit
<1>2. TypeOK /\ InHand /\ [Next]_vars => (TypeOK /\ InHand)'
  BY TypeStep
<1> QED BY <1>1, <1>2, PTL DEF Spec

-----------------------------------------------------------------------------
\* A write to the journal reports a request applied, or rejected, only if the
\* line says so or the journal did.
LEMMA LogMarks ==
    ASSUME settled \in [Req -> Replayed], cur \in Req,
           NEW status \in {"PENDING", "APPLIED", "REJECTED"},
           JournalAppend(cur, status) \/ JournalTear(cur, status),
           NEW r \in Req, NEW mark \in {"APPLIED", "REJECTED"},
           settled'[r] = mark \/ journal'[r] = mark
    PROVE  settled[r] = mark \/ (r = cur /\ status = mark)
<1>1. Entered(cur, status)[r] = mark => settled[r] = mark \/ (r = cur /\ status = mark)
  BY DEF Entered, Collapse
<1> QED BY <1>1 DEF JournalAppend, JournalTear

\* So does one that fails.
LEMMA FailureMarks ==
    ASSUME TypeOK, cur \in Req, Unfinished \/ LineFails \/ EffectFails,
           NEW r \in Req, NEW mark \in {"APPLIED", "REJECTED"},
           settled'[r] = mark \/ journal'[r] = mark
    PROVE  \/ settled[r] = mark \/ journal[r] = mark
           \/ r = cur /\ Journalling /\ JournalStatus = mark
<1>1. settled \in [Req -> Replayed]
  BY DEF TypeOK
<1>2. CASE TearJournal \/ LineFails
  <2>1. JournalAppend(cur, JournalStatus) \/ JournalTear(cur, JournalStatus)
    BY <1>2 DEF TearJournal, LineFails
  <2>2. Journalling
    BY <1>2 DEF TearJournal, LineFails
  <2> QED BY <1>1, <2>1, <2>2, LogMarks, StatusType
<1>3. CASE UNCHANGED log
  BY <1>3 DEF log
<1> QED BY <1>2, <1>3 DEF Unfinished, TearOwner, TearRows, EffectFails

(***************************************************************************)
(* Reported applied means applied.  Every change a step makes to the       *)
(* documents is a handler's, which takes nothing away, or one that tears   *)
(* records: an owner.txt left empty, a row lost from STATUS.md or TASKS.md.*)
(***************************************************************************)
OnlyEmpties(t) ==
    /\ docs' = [docs EXCEPT !.owner[t] = Empty]
    /\ tears' = tears \cup {t}

OnlyLoses(e) ==
    \/ /\ \E l \in Lane : docs' = [e EXCEPT !.status[l] = None]
       /\ tears' = tears \cup {"STATUS.md"}
    \/ /\ \E t \in Task : docs' = [e EXCEPT !.tasks[t] = None]
       /\ tears' = tears \cup {"TASKS.md"}

\* A step leaves the documents, lets them grow, empties one owner.txt, or lets
\* them grow and loses a row.
LEMMA DocsGrow ==
    ASSUME TypeOK, InHand, Next
    PROVE  /\ tears \subseteq tears'
           /\ \/ docs' = docs
              \/ docs' \in Docs /\ Grows(docs, docs')
              \/ \E t \in Task : OnlyEmpties(t)
              \/ \E e \in Docs : Grows(docs, e) /\ OnlyLoses(e)
<1> USE DEF client, disk, process, bounds, history
<1>0. docs \in Docs /\ (pc \in Busy => cur \in Req)
  BY DEF TypeOK, InHand
<1>1. CASE Apply
  <2>1. cur \in Req /\ Accepts(docs, cur) /\ docs' = Effect(docs, cur)
        /\ tears' = tears
    BY <1>0, <1>1 DEF Apply, Busy, Points
  <2> QED BY <1>0, <2>1, EffectType, EffectGrows
<1>2. CASE ApplyMkdir
  <2>1. cur \in Req /\ docs.owner[Body[cur].task] = NoDir
        /\ docs' = ClaimMkdir(docs, cur) /\ tears' = tears
    BY <1>0, <1>2 DEF ApplyMkdir, MkdirFirst, Busy, Points
  <2>2. Grows(docs, docs')
    BY <1>0, <2>1, BodyType, NamesAssumption DEF Grows, ClaimMkdir, Docs
  <2> QED BY <1>0, <2>1, <2>2, MkdirType
<1>3. CASE ApplyOwner
  <2>1. cur \in Req /\ docs.owner[Body[cur].task] = NoOwner
        /\ docs' = ClaimOwner(docs, cur) /\ tears' = tears
    BY <1>0, <1>3 DEF ApplyOwner, InHand, Busy, Points
  <2>2. Grows(docs, docs')
    BY <1>0, <2>1, BodyType, NamesAssumption DEF Grows, ClaimOwner, Docs
  <2> QED BY <1>0, <2>1, <2>2, MkdirType
<1>4. ASSUME Unfinished
      PROVE  /\ tears \subseteq tears'
             /\ \/ docs' = docs
                \/ \E t \in Task : OnlyEmpties(t)
                \/ \E e \in Docs : Grows(docs, e) /\ OnlyLoses(e)
  <2>1. CASE UNCHANGED <<docs, log, tears>> \/ TearJournal
    BY <2>1 DEF TearJournal
  <2>2. CASE TearOwner
    <3>1. Body[cur].task \in Task /\ OnlyEmpties(Body[cur].task)
      BY <1>0, <2>2, BodyType DEF TearOwner, OnlyEmpties, Busy, Points
    <3> QED BY <2>2, <3>1 DEF TearOwner
  <2>3. CASE TearRows
    <3>1. PICK e : e = Effect(docs, cur)
      OBVIOUS
    <3>2. e \in Docs /\ Grows(docs, e)
      BY <1>0, <2>3, <3>1, EffectType, EffectGrows DEF TearRows, Busy, Points
    <3>3. OnlyLoses(e) /\ tears \subseteq tears'
      BY <2>3, <3>1 DEF TearRows, OnlyLoses
    <3> QED BY <3>2, <3>3
  <2> QED BY <1>4, <2>1, <2>2, <2>3 DEF Unfinished
<1>5. CASE IOFail
  <2>1. cur \in Req
    BY <1>0, <1>5 DEF IOFail, Busy, Points
  <2>2. CASE Unfinished
    BY <1>4, <2>2
  <2>3. CASE LineFails
    BY <2>3 DEF LineFails
  <2>4. CASE EffectFails
    <3>1. Accepts(docs, cur) /\ docs' = Effect(docs, cur) /\ tears' = tears
      BY <2>4 DEF EffectFails
    <3> QED BY <1>0, <2>1, <3>1, EffectType, EffectGrows
  <2> QED BY <1>5, <2>2, <2>3, <2>4 DEF IOFail
<1>6. CASE Crash \/ IOAbort
  BY <1>4, <1>6 DEF Crash, IOAbort, LineFails
<1>7. CASE Tick \/ (\E r \in Req : Stamp(r) \/ Publish(r))
  BY <1>7 DEF Tick, Stamp, Publish
<1>8. CASE \/ \E r \in Req, point \in Points : Take(r, point) /\ TakeStep
           \/ \E r \in Req : Unreadable(r)
  BY <1>8 DEF Take, Turn, Unreadable
<1>9. CASE Start \/ DrainBegin \/ DrainEnd \/ JournalPending \/ ApplyRaises
           \/ JournalApplied \/ Archive \/ JournalRejected \/ Reject
           \/ WriteReason \/ Stop
  BY <1>9 DEF Start, DrainBegin, DrainEnd, JournalPending, ApplyRaises,
     JournalApplied, Archive, JournalRejected, Reject, WriteReason, Stop
<1> QED BY <1>1, <1>2, <1>3, <1>5, <1>6, <1>7, <1>8, <1>9, NextCases

\* What has once been shown stays shown.
LEMMA StaysShown ==
    ASSUME TypeOK, InHand, Next, NEW r \in Req, Shown(r)
    PROVE  Shown(r)'
<1>0. docs \in Docs
  BY DEF TypeOK
<1>1. tears \subseteq tears' /\ (Damaged(r) => Damaged(r)')
  BY DocsGrow DEF Damaged
<1>2. CASE docs' = docs
  BY <1>1, <1>2 DEF Shown
<1>3. CASE docs' \in Docs /\ Grows(docs, docs')
  BY <1>0, <1>1, <1>3, ShowsGrows DEF Shown
<1>4. Body[r].intent \in Intents /\ Body[r].task \in Task
  BY BodyType
<1>5. CASE \E t \in Task : OnlyEmpties(t)
  <2> PICK t \in Task : OnlyEmpties(t)
    BY <1>5
  <2>1. /\ docs'.history = docs.history /\ docs'.events = docs.events
        /\ docs'.status = docs.status /\ docs'.tasks = docs.tasks
        /\ docs'.done = docs.done
        /\ \A u \in Task : u # t => docs'.owner[u] = docs.owner[u]
    BY <1>0 DEF OnlyEmpties, Docs
  <2>2. CASE Body[r].intent = "CLAIM_DIR_CREATE" /\ Body[r].task = t
    BY <2>2 DEF Shown, Damaged, OnlyEmpties
  <2>3. CASE ~(Body[r].intent = "CLAIM_DIR_CREATE" /\ Body[r].task = t)
    <3>1. Shows(docs, r) => Shows(docs', r)
      BY <1>4, <2>1, <2>3
      DEF Shows, AppendTarget, Intents, AppendIntents, RowIntents, TaskIntents
    <3> QED BY <1>1, <3>1 DEF Shown
  <2> QED BY <2>2, <2>3
<1>6. CASE \E e \in Docs : Grows(docs, e) /\ OnlyLoses(e)
  <2> PICK e \in Docs : Grows(docs, e) /\ OnlyLoses(e)
    BY <1>6
  <2>1. Shows(docs, r) => Shows(e, r)
    BY <1>0, ShowsGrows
  <2>2. /\ docs'.history = e.history /\ docs'.events = e.events
        /\ docs'.owner = e.owner /\ docs'.done = e.done
        /\ docs'.status = e.status \/ "STATUS.md" \in tears'
        /\ docs'.tasks = e.tasks \/ "TASKS.md" \in tears'
    BY DEF OnlyLoses, Docs
  <2>3. Shows(e, r) => Shows(docs', r) \/ Damaged(r)'
    BY <1>4, <2>2
    DEF Shows, Damaged, AppendTarget, Intents, AppendIntents, RowIntents, TaskIntents
  <2> QED BY <1>1, <2>1, <2>3 DEF Shown
<1> QED BY <1>2, <1>3, <1>5, <1>6, DocsGrow

\* No step makes the queue report or believe applied what is not shown.
LEMMA ShownStep ==
    ASSUME TypeOK, InHand, AppliedIsShown, Believed, [Next]_vars
    PROVE  AppliedIsShown' /\ Believed'
<1> DEFINE Sure == {"japplied", "jreconciled", "archive", "archiveAgain"}
<1> USE DEF client, disk, log, process, bounds, history
<1>0. CASE UNCHANGED vars
  BY <1>0 DEF vars, AppliedIsShown, Believed, Shown, Damaged
<1> SUFFICES ASSUME Next PROVE AppliedIsShown' /\ Believed'
  BY <1>0
<1>a. /\ docs \in Docs /\ cur \in Req \cup {None}
      /\ journal \in [Req -> Replayed] /\ where \in [Req -> Places]
      /\ settled \in [Req -> Replayed]
      /\ appliedIds \subseteq Req /\ (pc \in Busy => cur \in Req)
  BY DEF TypeOK, InHand
<1>b. \A r \in Req : Shown(r) => Shown(r)'
  BY StaysShown
<1>c. \A r \in Req : settled[r] = "APPLIED" \/ journal[r] = "APPLIED" => Shown(r)
  BY DEF AppliedIsShown, Believed
<1> SUFFICES
      /\ \A r \in Req : where'[r] = "applied"
            => where[r] = "applied" \/ Shown(r)
      /\ \A r \in Req : settled'[r] = "APPLIED" \/ journal'[r] = "APPLIED"
            => settled[r] = "APPLIED" \/ journal[r] = "APPLIED" \/ Shown(r)
      /\ \A r \in appliedIds' : r \in Req /\ Shown(r)
      /\ pc' \in Sure => cur' \in Req /\ Shown(cur)'
  BY <1>b, <1>c DEF AppliedIsShown, Believed
<1>1. CASE Tick \/ (\E r \in Req : Stamp(r) \/ Publish(r))
  BY <1>a, <1>b, <1>1
  DEF Tick, Stamp, Publish, Believed, AppliedIsShown, Busy, Points
<1>2. CASE Start
  BY <1>a, <1>2 DEF Start, AppliedIsShown
<1>3. CASE DrainBegin \/ DrainEnd
  BY <1>a, <1>3 DEF DrainBegin, DrainEnd, Believed
<1>4. CASE \E r \in Req, point \in Points : Take(r, point) /\ TakeStep
  <2>1. PICK r \in Req : \/ TakeUndecodable(r) \/ TakeApplied(r)
                         \/ TakeRejected(r) \/ TakeReconciled(r)
                         \/ TakeRefused(r) \/ TakeValid(r)
    BY <1>4 DEF TakeStep
  <2>2. /\ where' = where /\ journal' = journal /\ docs' = docs
        /\ appliedIds' = appliedIds /\ cur' = r /\ tears' = tears
        /\ settled' = settled
    BY <2>1 DEF TakeUndecodable, TakeApplied, TakeRejected, TakeReconciled,
                TakeRefused, TakeValid, Take, Turn
  <2>3. pc' \in Sure => Shown(r)
    <3>1. CASE TakeApplied(r)
      BY <3>1 DEF TakeApplied, Believed
    <3>2. CASE TakeReconciled(r)
      BY <3>2 DEF TakeReconciled, Reconciled, Shown, Shows, RowIntents, TaskIntents, AppendIntents
    <3>3. CASE TakeUndecodable(r) \/ TakeRejected(r) \/ TakeRefused(r)
               \/ TakeValid(r)
      BY <3>3 DEF TakeUndecodable, TakeRejected, TakeRefused, TakeValid, Take, Turn
    <3> QED BY <2>1, <3>1, <3>2, <3>3
  <2> QED BY <1>a, <1>b, <2>2, <2>3 DEF Believed
<1>5. CASE JournalPending
  <2>1. cur \in Req /\ JournalAppend(cur, "PENDING")
    BY <1>a, <1>5 DEF JournalPending, Busy, Points
  <2>2. \A r \in Req : settled'[r] = "APPLIED" \/ journal'[r] = "APPLIED" => settled[r] = "APPLIED"
    BY <1>a, <2>1, LogMarks
  <2> QED BY <1>a, <1>5, <2>2 DEF JournalPending, Believed
<1>6. CASE Apply
  <2>1. cur \in Req /\ cur' = cur /\ docs' = Effect(docs, cur)
    BY <1>a, <1>6 DEF Apply, Busy, Points
  <2>2. Shown(cur)'
    BY <1>a, <2>1, EffectShows DEF Shown, Damaged
  <2> QED BY <1>a, <1>6, <2>1, <2>2 DEF Apply, Believed
<1>7. CASE ApplyMkdir
  BY <1>a, <1>7 DEF ApplyMkdir, Believed
<1>8. CASE ApplyOwner
  <2>1. cur \in Req /\ cur' = cur /\ docs' = Effect(docs, cur)
    BY <1>a, <1>8 DEF ApplyOwner, InHand, Busy, Points, Effect, AppendIntents, RowIntents, TaskIntents
  <2>2. Shown(cur)'
    BY <1>a, <2>1, EffectShows DEF Shown, Damaged
  <2> QED BY <1>a, <1>8, <2>1, <2>2 DEF ApplyOwner, Believed
<1>9. CASE ApplyRaises
  BY <1>a, <1>9 DEF ApplyRaises, Believed
<1>10. CASE JournalApplied
  <2>1. cur \in Req /\ Shown(cur)
    BY <1>a, <1>10 DEF JournalApplied, Believed, Busy, Points
  <2>2. \A r \in Req : settled'[r] = "APPLIED" \/ journal'[r] = "APPLIED"
                        => settled[r] = "APPLIED" \/ r = cur
    BY <1>a, <1>10, <2>1, LogMarks DEF JournalApplied
  <2>3. Shown(cur)'
    BY <1>10, <2>1 DEF JournalApplied, Shown, Damaged
  <2> QED BY <1>a, <1>10, <2>1, <2>2, <2>3 DEF JournalApplied, Believed
<1>11. CASE Archive
  <2>1. cur \in Req
    BY <1>a, <1>11 DEF Archive, Busy, Points
  <2>2. \A r \in Req : where'[r] = "applied"
          => where[r] = "applied" \/ (r = cur /\ pc \in Sure)
    BY <1>a, <1>11, <2>1 DEF Archive
  <2> QED BY <1>a, <1>11, <2>1, <2>2 DEF Archive, Believed
<1>12. CASE JournalRejected
  <2>1. cur \in Req /\ JournalAppend(cur, "REJECTED")
    BY <1>a, <1>12 DEF JournalRejected, Busy, Points
  <2>2. \A r \in Req : settled'[r] = "APPLIED" \/ journal'[r] = "APPLIED" => settled[r] = "APPLIED"
    BY <1>a, <2>1, LogMarks
  <2> QED BY <1>a, <1>12, <2>2 DEF JournalRejected, Believed
<1>13. CASE Reject
  BY <1>a, <1>13 DEF Reject, Believed, Busy, Points
<1>14. CASE WriteReason
  BY <1>a, <1>14 DEF WriteReason, Believed
<1>15. CASE IOFail \/ IOAbort \/ Crash
  <2>1. \A r \in Req : settled'[r] = "APPLIED" \/ journal'[r] = "APPLIED"
                        => settled[r] = "APPLIED" \/ journal[r] = "APPLIED" \/ Shown(r)
    <3>1. CASE UNCHANGED log
      BY <3>1 DEF log
    <3>2. CASE ~UNCHANGED log
      <4>1. cur \in Req /\ (Unfinished \/ LineFails \/ EffectFails)
        BY <1>a, <1>15, <3>2
        DEF IOFail, IOAbort, Crash, Unfinished, TearJournal, Journalling, TearOwner,
            TearRows, Busy, Points
      <4>2. Journalling /\ JournalStatus = "APPLIED" => Shown(cur)
        BY DEF Journalling, JournalStatus, Believed
      <4> QED BY <4>1, <4>2, FailureMarks
    <3> QED BY <3>1, <3>2
  <2>2. where' = where /\ pc' \notin Sure /\ appliedIds' \subseteq appliedIds
    BY <1>15 DEF IOFail, IOAbort, Crash, Exit
  <2> QED BY <1>a, <2>1, <2>2 DEF Believed
<1>16. CASE Stop
  BY <1>a, <1>16 DEF Stop, Exit, Believed
<1>17. CASE \E r \in Req : Unreadable(r)
  BY <1>a, <1>17 DEF Unreadable, Turn, Believed
<1> QED
  BY <1>1, <1>2, <1>3, <1>4, <1>5, <1>6, <1>7, <1>8, <1>9, <1>10, <1>11,
     <1>12, <1>13, <1>14, <1>15, <1>16, <1>17, NextCases

(***************************************************************************)
(* Whatever is reported applied, by its place in queue/applied/ or by the  *)
(* journal, is in the documents: through any number of crashes, restarts,  *)
(* torn journal lines and failing file operations.                         *)
(***************************************************************************)
THEOREM AppliedShown == Spec => []AppliedIsShown
<1>1. Init => QueueInv
  <2>1. Init => AppliedIsShown /\ Believed
    BY DEF Init, JournalInit, AppliedIsShown, Believed
  <2> QED BY <2>1, TypeInit DEF QueueInv
<1>2. QueueInv /\ [Next]_vars => QueueInv'
  BY TypeStep, ShownStep DEF QueueInv
<1>3. QueueInv => AppliedIsShown
  BY DEF QueueInv
<1> QED BY <1>1, <1>2, <1>3, PTL DEF Spec

\* Two agents are never both told that they claimed the same task, unless
\* its owner.txt was torn.
THEOREM SingleClaimant == Spec => []OneClaimant
<1>1. AppliedIsShown => OneClaimant
  BY DEF AppliedIsShown, OneClaimant, Shown, Damaged, Shows, RowIntents, TaskIntents, AppendIntents
<1> QED BY <1>1, AppliedShown, PTL

-----------------------------------------------------------------------------
\* Appending a line that is not present keeps a file free of duplicates.
LEMMA DistinctAppend ==
    ASSUME NEW f \in Seq(Line), NEW l \in Line, Distinct(f), ~Present(l, f)
    PROVE  Distinct(Append(f, l))
<1>1. \A i \in 1..Len(f) : f[i] # l
  BY LineAssumption DEF Present
<1>2. /\ Len(Append(f, l)) = Len(f) + 1
      /\ \A i \in 1..Len(f) : Append(f, l)[i] = f[i]
      /\ Append(f, l)[Len(f) + 1] = l
  OBVIOUS
<1> QED BY <1>1, <1>2 DEF Distinct

\* A file of the documents is left alone or gains one line it did not have.
Extends1(f, g) ==
    g = f \/ \E l \in Line : ~Present(l, f) /\ g = Append(f, l)

\* A handler appends at most one line to a log, and only one that is not
\* in it yet.
LEMMA EffectExtends ==
    ASSUME NEW d \in Docs, NEW r \in Req
    PROVE  /\ Extends1(d.history, Effect(d, r).history)
           /\ Extends1(d.events, Effect(d, r).events)
<1>1. Body[r].intent \in Intents /\ Body[r].line \in Line
  BY BodyType
<1>2. /\ Extends1(d.history, HistoryAppend(d, r).history)
      /\ HistoryAppend(d, r).events = d.events
  BY <1>1 DEF HistoryAppend, Extends1, Docs
<1>3. /\ Extends1(d.events, MissionEventAppend(d, r).events)
      /\ MissionEventAppend(d, r).history = d.history
  BY <1>1 DEF MissionEventAppend, Extends1, Docs
<1>4. CASE Body[r].intent \in AppendIntents
  BY <1>2, <1>3, <1>4 DEF Effect, AppendIntents, RowIntents, TaskIntents, Extends1
<1>5. CASE Body[r].intent \notin AppendIntents
  BY <1>1, <1>5
  DEF Effect, Intents, RowIntents, TaskIntents, AppendIntents, Extends1, Docs, StatusUpdate,
      TasksBracket, StatusRowInsert, TasksInject, ClaimOwner, ClaimDirDone
<1> QED BY <1>4, <1>5

\* A step appends at most one line to a log, and only one that is not in
\* it yet.
LEMMA FilesExtend ==
    ASSUME TypeOK, InHand, [Next]_vars
    PROVE  /\ Extends1(docs.history, docs'.history)
           /\ Extends1(docs.events, docs'.events)
<1> USE DEF client, disk, log, process, bounds, history
<1>0. docs \in Docs /\ (pc \in Busy => cur \in Req)
  BY DEF TypeOK, InHand
<1>a. ASSUME Unfinished
      PROVE  /\ Extends1(docs.history, docs'.history)
             /\ Extends1(docs.events, docs'.events)
  <2>1. CASE TearRows
    <3>1. PICK e : e = Effect(docs, cur)
      OBVIOUS
    <3>2. /\ e \in Docs
          /\ Extends1(docs.history, e.history) /\ Extends1(docs.events, e.events)
      BY <1>0, <2>1, <3>1, EffectType, EffectExtends DEF TearRows, Busy, Points
    <3>3. docs'.history = e.history /\ docs'.events = e.events
      BY <2>1, <3>1, <3>2 DEF TearRows, Docs
    <3> QED BY <3>2, <3>3
  <2>2. CASE UNCHANGED <<docs, log, tears>> \/ TearJournal \/ TearOwner
    BY <1>0, <2>2 DEF TearJournal, TearOwner, Extends1, Docs
  <2> QED BY <1>a, <2>1, <2>2 DEF Unfinished
<1>1. CASE Apply \/ IOFail
  <2>1. cur \in Req
    BY <1>0, <1>1 DEF Apply, IOFail, Busy, Points
  <2>2. CASE Unfinished
    BY <1>a, <2>2
  <2>3. CASE docs' = docs \/ docs' = Effect(docs, cur)
    BY <1>0, <2>1, <2>3, EffectExtends DEF Extends1
  <2> QED BY <1>1, <2>2, <2>3 DEF Apply, IOFail, LineFails, EffectFails
<1>2. CASE ApplyMkdir \/ ApplyOwner \/ Crash \/ IOAbort
  <2>1. CASE ApplyMkdir \/ ApplyOwner
    BY <1>0, <2>1 DEF ApplyMkdir, ClaimMkdir, ApplyOwner, ClaimOwner, Extends1, Docs
  <2>2. CASE Crash \/ IOAbort
    BY <1>a, <2>2 DEF Crash, IOAbort, LineFails, Extends1
  <2> QED BY <1>2, <2>1, <2>2
<1>3. CASE Tick \/ (\E r \in Req : Stamp(r) \/ Publish(r))
  BY <1>3 DEF Tick, Stamp, Publish, Extends1
<1>4. CASE \E r \in Req, point \in Points : Take(r, point) /\ TakeStep
  BY <1>4 DEF Take, Turn, Extends1
<1>7. CASE \E r \in Req : Unreadable(r)
  BY <1>7 DEF Unreadable, Turn, Extends1
<1>5. CASE Start \/ DrainBegin \/ DrainEnd \/ JournalPending \/ ApplyRaises
           \/ JournalApplied \/ Archive \/ JournalRejected \/ Reject
           \/ WriteReason \/ Stop
  BY <1>5 DEF Start, DrainBegin, DrainEnd, JournalPending, ApplyRaises,
     JournalApplied, Archive, JournalRejected, Reject, WriteReason, Stop,
     Extends1
<1>6. CASE UNCHANGED vars
  BY <1>6 DEF vars, Extends1
<1> QED BY <1>1, <1>2, <1>3, <1>4, <1>5, <1>6, <1>7, NextCases

(***************************************************************************)
(* HISTORY.md and .mission-events never gain a line twice, although an     *)
(* in-doubt append is applied again after every crash.                     *)
(***************************************************************************)
THEOREM AppendOnce == Spec => []NoDuplicateLines
<1>1. Init => NoDuplicateLines
  BY DEF Init, InitDocs, NoDuplicateLines, Distinct
<1>2. TypeOK /\ InHand /\ NoDuplicateLines /\ [Next]_vars => NoDuplicateLines'
  <2> SUFFICES ASSUME TypeOK, InHand, NoDuplicateLines, [Next]_vars
               PROVE  NoDuplicateLines'
    OBVIOUS
  <2>1. docs.history \in Seq(Line) /\ docs.events \in Seq(Line)
    BY DEF TypeOK, Docs
  <2>2. Distinct(docs'.history)
    BY <2>1, FilesExtend, DistinctAppend DEF NoDuplicateLines, Extends1
  <2>3. Distinct(Events0) => Distinct(docs'.events)
    BY <2>1, FilesExtend, DistinctAppend DEF NoDuplicateLines, Extends1
  <2> QED BY <2>2, <2>3 DEF NoDuplicateLines
<1>3. Init => TypeOK /\ InHand
  BY TypeInit
<1>4. TypeOK /\ InHand /\ [Next]_vars => (TypeOK /\ InHand)'
  BY TypeStep
<1> QED BY <1>1, <1>2, <1>3, <1>4, PTL DEF Spec

-----------------------------------------------------------------------------
(***************************************************************************)
(* The journal while it is whole: replaying it yields what the archive and *)
(* the applier's memory say, and how far the request in hand has come.     *)
(***************************************************************************)
JournalTells ==
    /\ torn = FALSE /\ settled = journal
    /\ \A r \in Req : where[r] = "applied" => journal[r] = "APPLIED"
    /\ \A r \in Req : where[r] = "rejected" => journal[r] # "APPLIED"
    /\ \A r \in Req : Body[r].shape = "undecodable" => journal[r] = "NONE"
    /\ pc # "down" => /\ appliedIds = {r \in Req : journal[r] = "APPLIED"}
                      /\ rejectedIds = {r \in Req : journal[r] = "REJECTED"}

JournalOfCur ==
    /\ pc = "jpending" => journal[cur] \in {"NONE", "PENDING_INDOUBT"}
    /\ pc \in {"apply", "owner", "japplied", "jrejected", "jreconciled"}
            => journal[cur] = "PENDING_INDOUBT"
    /\ pc \in {"archive", "archiveAgain"} => journal[cur] = "APPLIED"
    /\ pc = "rejectAgain" => journal[cur] = "REJECTED"
    /\ pc = "reject" => journal[cur] # "APPLIED"
    /\ pc \in Busy \ {"reject", "reason"} => Body[cur].shape # "undecodable"

JournalInv == JournalWhole => JournalTells /\ JournalOfCur

\* A journal that was torn, or a file operation that failed, is remembered.
LEMMA WholeBefore ==
    ASSUME TypeOK, [Next]_vars, JournalWhole'
    PROVE  /\ JournalWhole
           /\ ~IOFail /\ ~IOAbort /\ \A r \in Req : ~Unreadable(r)
           /\ Unfinished => UNCHANGED log
<1> USE DEF client, disk, log, process, bounds, history
<1>0. ioErrors \in Nat
  BY BoundAssumption DEF TypeOK
<1>1. ~IOFail /\ ~IOAbort /\ \A r \in Req : ~Unreadable(r)
  BY <1>0 DEF IOFail, IOAbort, Unreadable, OneMoreError, JournalWhole
<1>2. ioErrors' = ioErrors /\ (tears' = tears \/ Unfinished)
  <2>1. CASE UNCHANGED vars
    BY <2>1 DEF vars
  <2>2. CASE Tick \/ (\E r \in Req : Stamp(r) \/ Publish(r))
    BY <2>2 DEF Tick, Stamp, Publish
  <2>3. CASE \E r \in Req, point \in Points : Take(r, point) /\ TakeStep
    BY <2>3 DEF Take, Turn
  <2>4. CASE Start \/ DrainBegin \/ DrainEnd \/ JournalPending \/ ApplyRaises
             \/ JournalApplied \/ Archive \/ JournalRejected \/ Reject
             \/ WriteReason \/ Stop \/ Apply \/ ApplyMkdir \/ ApplyOwner \/ Crash
    BY <2>4 DEF Start, DrainBegin, DrainEnd, JournalPending, ApplyRaises,
       JournalApplied, Archive, JournalRejected, Reject, WriteReason, Stop,
       Apply, ApplyMkdir, ApplyOwner, Crash
  <2> QED BY <1>1, <2>1, <2>2, <2>3, <2>4, NextCases
<1>3. ~TearJournal
  BY DEF TearJournal, JournalWhole
<1>4. tears \subseteq tears'
  BY <1>2, <1>3 DEF Unfinished, TearOwner, TearRows
<1> QED BY <1>1, <1>2, <1>3, <1>4 DEF JournalWhole, Unfinished, TearOwner, TearRows

\* What an entry does to a whole journal.
LEMMA JournalEntry ==
    ASSUME TypeOK, torn = FALSE, settled = journal, cur \in Req,
           NEW status \in {"PENDING", "APPLIED", "REJECTED"},
           JournalAppend(cur, status)
    PROVE  /\ torn' = FALSE /\ settled' = journal'
           /\ journal'[cur] = Collapse(journal[cur], status)
           /\ \A r \in Req : r # cur => journal'[r] = journal[r]
           /\ journal' \in [Req -> Replayed]
<1>1. journal \in [Req -> Replayed]
  BY DEF TypeOK
<1>2. Collapse(journal[cur], status) \in Replayed
  BY <1>1, CollapseType
<1>3. /\ torn' = FALSE /\ settled' = journal'
      /\ journal' = [journal EXCEPT ![cur] = Collapse(journal[cur], status)]
  BY DEF JournalAppend, Entered
<1> HIDE DEF Collapse
<1> QED BY <1>1, <1>2, <1>3

\* While the journal is whole, it and the archive go on telling one story.
LEMMA JournalStep ==
    ASSUME TypeOK, InHand, JournalInv, [Next]_vars
    PROVE  JournalInv'
<1> SUFFICES ASSUME JournalWhole' PROVE JournalTells' /\ JournalOfCur'
  BY DEF JournalInv
<1>0. /\ JournalTells /\ JournalOfCur
      /\ ~IOFail /\ ~IOAbort /\ \A r \in Req : ~Unreadable(r)
      /\ Unfinished => UNCHANGED log
  BY WholeBefore DEF JournalInv
<1>a. /\ journal \in [Req -> Replayed] /\ where \in [Req -> Places] /\ pc \in Points
      /\ batch \subseteq Req /\ (pc \in Busy => cur \in Req)
      /\ pc \in Busy \ {"reason"} => where[cur] = "pending"
  BY DEF TypeOK, InHand
<1> USE <1>0, <1>a DEF client, disk, log, process, bounds, history, Points, Busy
<1>1. CASE Tick \/ (\E r \in Req : Stamp(r) \/ Publish(r))
  <2>1. /\ UNCHANGED <<journal, settled, torn, pc, cur, appliedIds, rejectedIds>>
        /\ \A r \in Req : where'[r] \in {"applied", "rejected"} => where'[r] = where[r]
    BY <1>1 DEF Tick, Stamp, Publish
  <2> QED BY <2>1 DEF JournalTells, JournalOfCur
<1>2. CASE Start
  <2>1. JournalTells'
    BY <1>2 DEF Start, JournalTells
  <2> QED BY <1>2, <2>1 DEF Start, JournalOfCur
<1>3. CASE DrainBegin \/ DrainEnd
  BY <1>3 DEF DrainBegin, DrainEnd, JournalTells, JournalOfCur
<1>4. CASE \E r \in Req, point \in Points : Take(r, point) /\ TakeStep
  <2>1. PICK r \in Req : \/ TakeUndecodable(r) \/ TakeApplied(r)
                         \/ TakeRejected(r) \/ TakeReconciled(r)
                         \/ TakeRefused(r) \/ TakeValid(r)
    BY <1>4 DEF TakeStep
  <2>2. /\ pc = "loop" /\ cur' = r
        /\ UNCHANGED <<where, journal, settled, torn, appliedIds, rejectedIds>>
    BY <2>1 DEF TakeUndecodable, TakeApplied, TakeRejected, TakeReconciled,
                TakeRefused, TakeValid, Take, Turn
  <2>3. /\ pc' \in {"reject", "archiveAgain", "rejectAgain", "jreconciled", "jpending"}
        /\ JournalOfCur'
    <3>1. /\ r \in appliedIds <=> journal[r] = "APPLIED"
          /\ r \in rejectedIds <=> journal[r] = "REJECTED"
          /\ journal[r] \in Replayed
          /\ Body[r].shape = "undecodable" => journal[r] = "NONE"
      BY <2>2 DEF JournalTells
    <3>2. CASE TakeUndecodable(r)
      BY <2>2, <3>1, <3>2 DEF TakeUndecodable, Take, Turn, JournalOfCur
    <3>3. CASE TakeApplied(r)
      BY <2>2, <3>1, <3>3 DEF TakeApplied, Take, Turn, JournalOfCur
    <3>4. CASE TakeRejected(r)
      BY <2>2, <3>1, <3>4 DEF TakeRejected, Take, Turn, JournalOfCur
    <3>5. CASE TakeReconciled(r)
      BY <2>2, <3>1, <3>5 DEF TakeReconciled, InDoubt, Take, Turn, JournalOfCur
    <3>6. CASE TakeRefused(r)
      BY <2>2, <3>1, <3>6 DEF TakeRefused, Known, Take, Turn, JournalOfCur
    <3>7. CASE TakeValid(r)
      BY <2>2, <3>1, <3>7 DEF TakeValid, Known, Replayed, Take, Turn, JournalOfCur
    <3> QED BY <2>1, <3>2, <3>3, <3>4, <3>5, <3>6, <3>7
  <2>4. JournalTells'
    BY <2>2, <2>3 DEF JournalTells
  <2> QED BY <2>3, <2>4
<1>5. CASE JournalPending
  <2>1. cur \in Req /\ torn = FALSE /\ settled = journal /\ JournalAppend(cur, "PENDING")
    BY <1>5 DEF JournalPending, JournalTells
  <2>2. /\ torn' = FALSE /\ settled' = journal' /\ journal'[cur] = Collapse(journal[cur], "PENDING")
        /\ \A r \in Req : r # cur => journal'[r] = journal[r]
    BY <2>1, JournalEntry
  <2>3. journal[cur] \in {"NONE", "PENDING_INDOUBT"} /\ journal'[cur] = "PENDING_INDOUBT"
    BY <1>5, <2>2 DEF JournalPending, JournalOfCur, Collapse
  <2>4. /\ UNCHANGED <<where, cur, appliedIds, rejectedIds>> /\ where[cur] = "pending"
        /\ pc # "down" /\ pc' = "apply" /\ Body[cur].shape # "undecodable"
    BY <1>5 DEF JournalPending, JournalOfCur
  <2>5. JournalTells'
    BY <2>1, <2>2, <2>3, <2>4 DEF JournalTells
  <2> QED BY <2>3, <2>4, <2>5 DEF JournalOfCur
<1>6. CASE Apply \/ ApplyMkdir \/ ApplyOwner \/ ApplyRaises
  <2>1. /\ UNCHANGED <<where, cur, appliedIds, rejectedIds, journal, settled, torn>>
        /\ pc \in {"apply", "owner"} /\ pc' \in {"japplied", "owner", "jrejected"}
    BY <1>6 DEF Apply, ApplyMkdir, ApplyOwner, ApplyRaises
  <2> QED BY <2>1 DEF JournalTells, JournalOfCur
<1>7. CASE JournalApplied
  <2>1. cur \in Req /\ torn = FALSE /\ settled = journal /\ JournalAppend(cur, "APPLIED")
    BY <1>7 DEF JournalApplied, JournalTells
  <2>2. /\ torn' = FALSE /\ settled' = journal' /\ journal'[cur] = "APPLIED"
        /\ \A r \in Req : r # cur => journal'[r] = journal[r]
    BY <2>1, JournalEntry DEF Collapse
  <2>3. /\ UNCHANGED <<where, cur, rejectedIds>> /\ where[cur] = "pending"
        /\ appliedIds' = appliedIds \cup {cur}
        /\ pc # "down" /\ pc' \in {"archive", "archiveAgain"}
        /\ Body[cur].shape # "undecodable" /\ journal[cur] = "PENDING_INDOUBT"
    BY <1>7 DEF JournalApplied, JournalOfCur
  <2>4. JournalTells'
    BY <2>1, <2>2, <2>3 DEF JournalTells
  <2> QED BY <2>2, <2>3, <2>4 DEF JournalOfCur
<1>8. CASE Archive
  <2>1. /\ UNCHANGED <<torn, settled, journal, appliedIds, rejectedIds>> /\ cur \in Req
        /\ pc' = "loop" /\ pc # "down"
        /\ pc \in {"archive", "archiveAgain", "rejectAgain"}
        /\ where' = [where EXCEPT ![cur] =
                        IF pc = "rejectAgain" THEN "rejected" ELSE "applied"]
    BY <1>8 DEF Archive
  <2>2. \A r \in Req : where'[r] = where[r] \/ (r = cur /\ where'[r] =
                        IF pc = "rejectAgain" THEN "rejected" ELSE "applied")
    BY <2>1
  <2>3. JournalTells'
    BY <2>1, <2>2 DEF JournalTells, JournalOfCur
  <2> QED BY <2>1, <2>3 DEF JournalOfCur
<1>9. CASE JournalRejected
  <2>1. cur \in Req /\ torn = FALSE /\ settled = journal /\ JournalAppend(cur, "REJECTED")
    BY <1>9 DEF JournalRejected, JournalTells
  <2>2. /\ torn' = FALSE /\ settled' = journal' /\ journal'[cur] = "REJECTED"
        /\ \A r \in Req : r # cur => journal'[r] = journal[r]
    BY <2>1, JournalEntry DEF Collapse
  <2>3. /\ UNCHANGED <<where, cur, appliedIds>> /\ where[cur] = "pending"
        /\ rejectedIds' = rejectedIds \cup {cur}
        /\ pc # "down" /\ pc' = "reject"
        /\ Body[cur].shape # "undecodable" /\ journal[cur] = "PENDING_INDOUBT"
    BY <1>9 DEF JournalRejected, JournalOfCur
  <2>4. JournalTells'
    BY <2>1, <2>2, <2>3 DEF JournalTells
  <2> QED BY <2>2, <2>3, <2>4 DEF JournalOfCur
<1>10. CASE Reject
  <2>1. /\ UNCHANGED <<torn, settled, journal, appliedIds, rejectedIds, cur>> /\ cur \in Req
        /\ pc = "reject" /\ pc' = "reason" /\ where' = [where EXCEPT ![cur] = "rejected"]
    BY <1>10 DEF Reject
  <2>2. \A r \in Req : where'[r] = where[r] \/ (r = cur /\ where'[r] = "rejected")
    BY <2>1
  <2>3. JournalTells'
    BY <2>1, <2>2 DEF JournalTells, JournalOfCur
  <2> QED BY <2>1, <2>3 DEF JournalOfCur
<1>11. CASE WriteReason
  <2>1. /\ UNCHANGED <<torn, settled, journal, appliedIds, rejectedIds, where>>
        /\ pc = "reason" /\ pc' \in {"idle", "loop"}
    BY <1>11 DEF WriteReason
  <2> QED BY <2>1 DEF JournalTells, JournalOfCur
<1>12. CASE Stop \/ Crash
  <2>1. UNCHANGED <<torn, settled, journal, where>> /\ pc' = "down"
    BY <1>12 DEF Stop, Crash, Exit
  <2> QED BY <2>1 DEF JournalTells, JournalOfCur
<1>13. CASE UNCHANGED vars
  BY <1>13 DEF vars, JournalTells, JournalOfCur
<1> QED
  BY <1>1, <1>2, <1>3, <1>4, <1>5, <1>6, <1>7, <1>8, <1>9, <1>10, <1>11,
     <1>12, <1>13, NextCases

(***************************************************************************)
(* A request in queue/applied/ is not REJECTED in the journal, and one in  *)
(* queue/rejected/ is not APPLIED there, however often the process died,   *)
(* as long as no file operation failed and no journal line was torn.       *)
(***************************************************************************)
THEOREM ArchiveMatchesJournal == Spec => []ArchiveAgreesWithJournal
<1>1. Init => TypeOK /\ InHand /\ JournalInv
  <2>1. Init => JournalInv
    BY DEF Init, JournalInit, JournalInv, JournalTells, JournalOfCur, Busy, Points
  <2> QED BY <2>1, TypeInit
<1>2. TypeOK /\ InHand /\ JournalInv /\ [Next]_vars => (TypeOK /\ InHand /\ JournalInv)'
  BY TypeStep, JournalStep
<1>3. JournalInv => ArchiveAgreesWithJournal
  BY DEF JournalInv, JournalTells, ArchiveAgreesWithJournal
<1> QED BY <1>1, <1>2, <1>3, PTL DEF Spec

-----------------------------------------------------------------------------
\* An append that landed stays in doubt or is applied; it is never on its way
\* to be refused.
LandedInv ==
    /\ landed \subseteq Req
    /\ \A r \in landed : Body[r].intent \in AppendIntents => Shown(r)
    /\ JournalWhole =>
        \A r \in landed : Body[r].intent \in AppendIntents =>
            /\ journal[r] \in {"PENDING_INDOUBT", "APPLIED"}
            /\ where[r] # "rejected"
            /\ pc \in {"jpending", "apply", "jrejected", "reject", "rejectAgain"}
                    => cur # r

\* Only a handler that ran to its end adds to landed, and its request is shown.
LEMMA LandedGrows ==
    ASSUME TypeOK, InHand, [Next]_vars
    PROVE  \/ landed' = landed
           \/ /\ landed' = landed \cup {cur} /\ cur \in Req /\ cur' = cur
              /\ docs' = Effect(docs, cur) /\ where' = where
              /\ Apply \/ ApplyOwner \/ IOFail
<1> USE DEF client, disk, log, process, bounds, history
<1>0. pc \in Busy => cur \in Req
  BY DEF InHand
<1>1. CASE UNCHANGED vars
  BY <1>1 DEF vars
<1>2. CASE Tick \/ (\E r \in Req : Stamp(r) \/ Publish(r))
  BY <1>2 DEF Tick, Stamp, Publish
<1>3. CASE \E r \in Req, point \in Points : Take(r, point) /\ TakeStep
  BY <1>3 DEF Take, Turn
<1>4. CASE Start \/ DrainBegin \/ DrainEnd \/ JournalPending \/ ApplyRaises
           \/ JournalApplied \/ Archive \/ JournalRejected \/ Reject
           \/ WriteReason \/ Stop \/ ApplyMkdir \/ Crash \/ IOAbort
  BY <1>4 DEF Start, DrainBegin, DrainEnd, JournalPending, ApplyRaises,
     JournalApplied, Archive, JournalRejected, Reject, WriteReason, Stop,
     ApplyMkdir, Crash, IOAbort
<1>5. CASE Apply
  BY <1>0, <1>5 DEF Apply, Busy, Points
<1>6. CASE IOFail
  BY <1>0, <1>6 DEF IOFail, EffectFails, Busy, Points
<1>8. CASE \E r \in Req : Unreadable(r)
  BY <1>8 DEF Unreadable, Turn
<1>7. CASE ApplyOwner
  BY <1>0, <1>7 DEF ApplyOwner, InHand, Busy, Points, Effect, AppendIntents, RowIntents, TaskIntents
<1> QED BY <1>1, <1>2, <1>3, <1>4, <1>5, <1>6, <1>7, <1>8, NextCases

\* An append that landed stays in doubt or applied, never on its way to a
\* rejection.
LEMMA LandedStep ==
    ASSUME TypeOK, InHand, JournalInv, LandedInv, [Next]_vars
    PROVE  LandedInv'
<1> DEFINE Doomed == {"jpending", "apply", "jrejected", "reject", "rejectAgain"}
           Safe(r) == /\ journal[r] \in {"PENDING_INDOUBT", "APPLIED"}
                      /\ where[r] # "rejected"
                      /\ pc \in Doomed => cur # r
<1>1. landed' \subseteq Req
  BY LandedGrows DEF LandedInv
<1>2. \A r \in landed' : Body[r].intent \in AppendIntents => Shown(r)'
  <2>1. ASSUME NEW r \in landed, Body[r].intent \in AppendIntents
        PROVE  Shown(r)'
    <3>1. r \in Req /\ Shown(r)
      BY <2>1 DEF LandedInv
    <3>2. CASE Next
      BY <3>1, <3>2, StaysShown
    <3>3. CASE UNCHANGED vars
      BY <3>1, <3>3 DEF vars, disk, log, history, Shown, Damaged
    <3> QED BY <3>2, <3>3
  <2>2. CASE landed' = landed
    BY <2>1, <2>2
  <2>3. CASE landed' # landed
    <3>1. landed' = landed \cup {cur} /\ cur \in Req /\ docs' = Effect(docs, cur)
      BY <2>3, LandedGrows
    <3>2. docs \in Docs
      BY DEF TypeOK
    <3>3. PICK c \in Req : c = cur
      BY <3>1
    <3>4. Shown(c)'
      BY <3>1, <3>2, <3>3, EffectShows DEF Shown, Damaged
    <3> QED BY <2>1, <3>1, <3>3, <3>4
  <2> QED BY <2>2, <2>3
<1>3. ASSUME JournalWhole', NEW r \in landed', Body[r].intent \in AppendIntents
      PROVE  Safe(r)'
  <2>0. /\ JournalTells /\ JournalOfCur
        /\ ~IOFail /\ ~IOAbort /\ \A q \in Req : ~Unreadable(q)
        /\ Unfinished => UNCHANGED log
    BY <1>3, WholeBefore DEF JournalInv
  <2>a. /\ journal \in [Req -> Replayed] /\ where \in [Req -> Places] /\ pc \in Points
        /\ batch \subseteq Req /\ (pc \in Busy => cur \in Req) /\ r \in Req
        /\ pc \in Busy \ {"reason"} => where[cur] = "pending"
    BY <1>1, <1>3 DEF TypeOK, InHand
  <2> USE <2>0, <2>a DEF client, disk, log, process, bounds, history, Points, Busy
  <2>1. CASE Apply
    <3>1. CASE r = cur
      BY <2>1, <3>1 DEF Apply, JournalOfCur, JournalTells
    <3>2. CASE r # cur
      <4>1. Safe(r)
        BY <1>3, <2>1, <3>2, WholeBefore DEF Apply, LandedInv
      <4> QED BY <2>1, <4>1 DEF Apply
    <3> QED BY <3>1, <3>2
  <2>2. CASE ApplyOwner
    <3>1. r # cur
      BY <1>3, <2>2 DEF ApplyOwner, InHand, AppendIntents, RowIntents, TaskIntents
    <3>2. Safe(r)
      BY <1>3, <2>2, <3>1, WholeBefore DEF ApplyOwner, LandedInv
    <3> QED BY <2>2, <3>2 DEF ApplyOwner
  <2> SUFFICES ASSUME ~Apply, ~ApplyOwner PROVE Safe(r)'
    BY <2>1, <2>2
  <2>3. Safe(r) /\ Shown(r)
    BY <1>3, LandedGrows, WholeBefore DEF LandedInv
  <2>4. CASE Tick \/ (\E q \in Req : Stamp(q) \/ Publish(q))
    <3>1. /\ UNCHANGED <<journal, pc, cur>>
          /\ \A q \in Req : where'[q] = "rejected" => where'[q] = where[q]
      BY <2>4 DEF Tick, Stamp, Publish
    <3> QED BY <2>3, <3>1
  <2>5. CASE Start \/ DrainBegin \/ DrainEnd
    BY <2>3, <2>5 DEF Start, DrainBegin, DrainEnd
  <2>6. CASE \E q \in Req, point \in Points : Take(q, point) /\ TakeStep
    <3>1. PICK q \in Req : \/ TakeUndecodable(q) \/ TakeApplied(q)
                           \/ TakeRejected(q) \/ TakeReconciled(q)
                           \/ TakeRefused(q) \/ TakeValid(q)
      BY <2>6 DEF TakeStep
    <3>2. pc = "loop" /\ cur' = q /\ UNCHANGED <<where, journal>>
      BY <3>1 DEF TakeUndecodable, TakeApplied, TakeRejected, TakeReconciled,
                  TakeRefused, TakeValid, Take, Turn
    <3>3. q = r => pc' \notin Doomed
      <4> SUFFICES ASSUME q = r PROVE pc' \notin Doomed
        OBVIOUS
      <4>1. /\ r \in appliedIds <=> journal[r] = "APPLIED"
            /\ r \in rejectedIds <=> journal[r] = "REJECTED"
            /\ Body[r].shape = "undecodable" => journal[r] = "NONE"
        BY <3>2 DEF JournalTells
      <4>2. Reconciled(r)
        BY <1>3, <2>3 DEF Shown, Damaged, Shows, RowIntents, TaskIntents, Reconciled, AppendIntents
      <4>3. journal[r] = "PENDING_INDOUBT" => InDoubt(r)
        BY DEF InDoubt
      <4>4. ~TakeUndecodable(r) /\ ~TakeRejected(r)
        BY <2>3, <4>1 DEF TakeUndecodable, TakeRejected
      <4>5. ~TakeRefused(r) /\ ~TakeValid(r)
        BY <2>3, <4>1, <4>2, <4>3 DEF TakeRefused, TakeValid, Known
      <4> QED BY <3>1, <4>4, <4>5 DEF TakeApplied, TakeReconciled, Take, Turn
    <3> QED BY <2>3, <3>2, <3>3
  <2>7. CASE JournalPending \/ JournalApplied \/ JournalRejected
    <3>1. PICK status \in {"PENDING", "APPLIED", "REJECTED"} :
              /\ JournalAppend(cur, status) /\ cur \in Req
              /\ torn = FALSE /\ settled = journal
              /\ status = "REJECTED" => pc = "jrejected"
      BY <2>7 DEF JournalPending, JournalApplied, JournalRejected, JournalTells
    <3>2. /\ journal'[cur] = Collapse(journal[cur], status)
          /\ \A q \in Req : q # cur => journal'[q] = journal[q]
      BY <3>1, JournalEntry
    <3>3. journal'[r] \in {"PENDING_INDOUBT", "APPLIED"}
      <4>1. CASE r = cur
        BY <2>3, <3>1, <3>2, <4>1 DEF Collapse
      <4>2. CASE r # cur
        BY <2>3, <3>2, <4>2
      <4> QED BY <4>1, <4>2
    <3> QED BY <2>3, <2>7, <3>3 DEF JournalPending, JournalApplied, JournalRejected
  <2>8. CASE ApplyMkdir \/ ApplyRaises
    BY <2>3, <2>8 DEF ApplyMkdir, ApplyRaises
  <2>9. CASE Archive
    <3>1. cur \in Req /\ UNCHANGED journal /\ pc' = "loop"
          /\ \A q \in Req : where'[q] = "rejected"
                => where[q] = "rejected" \/ (q = cur /\ pc = "rejectAgain")
      BY <2>9 DEF Archive
    <3> QED BY <2>3, <3>1
  <2>10. CASE Reject
    <3>1. cur \in Req /\ UNCHANGED journal /\ pc = "reject" /\ pc' = "reason"
          /\ \A q \in Req : where'[q] = "rejected" => where[q] = "rejected" \/ q = cur
      BY <2>10 DEF Reject
    <3> QED BY <2>3, <3>1
  <2>11. CASE WriteReason
    <3>1. UNCHANGED <<journal, where>> /\ pc' \in {"idle", "loop"}
      BY <2>11 DEF WriteReason
    <3> QED BY <2>3, <3>1
  <2>12. CASE Stop \/ Crash
    BY <2>3, <2>12 DEF Stop, Crash, Exit
  <2>13. CASE UNCHANGED vars
    BY <2>3, <2>13 DEF vars
  <2> QED BY <2>4, <2>5, <2>6, <2>7, <2>8, <2>9, <2>10, <2>11, <2>12, <2>13, NextCases
<1> QED BY <1>1, <1>2, <1>3 DEF LandedInv

(***************************************************************************)
(* A HISTORY.md or .mission-events append that took effect is never        *)
(* reported rejected, whatever crashes come between its effect and its     *)
(* APPLIED line: it is in doubt, its text is found, and it is reconciled   *)
(* before its preconditions could refuse it.                               *)
(***************************************************************************)
THEOREM LandedAppendStands == Spec => []LandedAppendNotRejected
<1> DEFINE Inv == TypeOK /\ InHand /\ JournalInv /\ LandedInv
<1>1. Init => Inv
  BY TypeInit DEF Init, JournalInit, JournalInv, JournalTells, JournalOfCur, LandedInv, Busy, Points
<1>2. Inv /\ [Next]_vars => Inv'
  BY TypeStep, JournalStep, LandedStep
<1>3. Inv => LandedAppendNotRejected
  BY DEF LandedInv, LandedAppendNotRejected
<1> QED BY <1>1, <1>2, <1>3, PTL DEF Spec

-----------------------------------------------------------------------------
(***************************************************************************)
(* The order of the rows.  The drain takes the request in hand before the  *)
(* rest of its list; a request that landed and is still pending is in that *)
(* list or in hand; and what overwrote its row meanwhile sorts before it.  *)
(***************************************************************************)
DrainOrder ==
    /\ pc \in Busy \ {"reason"} => \A q \in batch : Before(cur, q)
    /\ pc = "reason" => where[cur] = "rejected"
    /\ pc \notin {"down", "idle"} =>
        \A r \in landed : where[r] = "pending" => r \in batch \/ (pc \in Busy /\ cur = r)

WrittenBefore(row, r) ==
    row \in Req => where[row] # "unborn" /\ (row = r \/ Before(row, r))

RowOrder ==
    /\ landed \subseteq {r \in Req : where[r] \notin {"unborn", "stamped"}}
    /\ \A l \in Lane : docs.status[l] \in Req => where[docs.status[l]] # "unborn"
    /\ \A t \in Task : docs.tasks[t] \in Req => where[docs.tasks[t]] # "unborn"
    /\ \A r \in landed : where[r] = "pending" =>
        /\ Body[r].intent \in RowIntents => WrittenBefore(docs.status[Body[r].lane], r)
        /\ Body[r].intent \in TaskIntents => WrittenBefore(docs.tasks[Body[r].task], r)

\* A submitted request keeps its place in the order: its time is taken once.
LEMMA OrderIsFixed ==
    ASSUME TypeOK, [Next]_vars
    PROVE  /\ \A r \in Req : where[r] # "unborn" => stamp'[r] = stamp[r] /\ where'[r] # "unborn"
           /\ \A r \in Req : where[r] \notin {"unborn", "stamped"}
                    => where'[r] \notin {"unborn", "stamped"}
           /\ \A r \in Req : where'[r] = "pending" => where[r] \in {"pending", "stamped"}
           /\ \A r, q \in Req : where[r] # "unborn" /\ where[q] # "unborn" /\ Before(r, q)
                    => Before(r, q)'
<1> USE DEF client, disk, log, process, bounds, history
<1>0. where \in [Req -> Places] /\ stamp \in [Req -> 0..(MaxClock + 1)] /\ cur \in Req \cup {None}
  BY DEF TypeOK
<1>1. /\ \A r \in Req : where[r] # "unborn" => stamp'[r] = stamp[r] /\ where'[r] # "unborn"
      /\ \A r \in Req : where[r] \notin {"unborn", "stamped"}
               => where'[r] \notin {"unborn", "stamped"}
      /\ \A r \in Req : where'[r] = "pending" => where[r] \in {"pending", "stamped"}
  <2>1. CASE UNCHANGED vars
    BY <2>1 DEF vars
  <2>2. CASE Tick
    BY <2>2 DEF Tick
  <2>3. CASE \E r \in Req : Stamp(r) \/ Publish(r)
    BY <1>0, <2>3 DEF Stamp, Publish
  <2>4. CASE \/ \E r \in Req, point \in Points : Take(r, point) /\ TakeStep
             \/ \E r \in Req : Unreadable(r)
    BY <2>4 DEF Take, Turn, Unreadable
  <2>5. CASE Start \/ DrainBegin \/ DrainEnd \/ JournalPending \/ ApplyRaises
             \/ JournalApplied \/ JournalRejected \/ WriteReason \/ Stop
             \/ ApplyMkdir \/ Crash \/ IOAbort \/ Apply \/ ApplyOwner \/ IOFail
    BY <2>5 DEF Start, DrainBegin, DrainEnd, JournalPending, ApplyRaises,
       JournalApplied, JournalRejected, WriteReason, Stop, ApplyMkdir, Crash,
       IOAbort, Apply, ApplyOwner, IOFail
  <2>6. CASE Archive
    BY <1>0, <2>6 DEF Archive
  <2>7. CASE Reject
    BY <1>0, <2>7 DEF Reject
  <2> QED BY <2>1, <2>2, <2>3, <2>4, <2>5, <2>6, <2>7, NextCases
<1> QED BY <1>1 DEF Before, SortStamp

\* What the drain's own steps do to its list.
LEMMA DrainOrderStep ==
    ASSUME TypeOK, InHand, DrainOrder, RowOrder, [Next]_vars
    PROVE  DrainOrder'
<1>a. /\ where \in [Req -> Places] /\ pc \in Points /\ landed \subseteq Req
      /\ batch \subseteq Req /\ (pc \in Busy => cur \in Req)
      /\ pc \in Busy \ {"reason"} => where[cur] = "pending"
      /\ \A q \in batch : where[q] = "pending"
  BY DEF TypeOK, InHand, Pending
<1>b. \A r, q \in Req : where[r] # "unborn" /\ where[q] # "unborn" /\ Before(r, q)
            => Before(r, q)'
  BY OrderIsFixed
<1> USE <1>a DEF client, disk, log, process, bounds, history, Points, Busy
<1>1. CASE Tick \/ (\E r \in Req : Stamp(r) \/ Publish(r))
  <2>1. UNCHANGED <<pc, cur, batch, landed>>
    BY <1>1 DEF Tick, Stamp, Publish
  <2>2. pc \in Busy \ {"reason"} => \A q \in batch : Before(cur, q)'
    BY <1>b, <2>1 DEF DrainOrder, Before, SortStamp
  <2>3. pc = "reason" => where'[cur] = "rejected"
    BY <1>1 DEF Tick, Stamp, Publish, DrainOrder
  <2>4. \A r \in landed : where'[r] = "pending" => where[r] = "pending"
    BY OrderIsFixed DEF RowOrder
  <2> QED BY <2>1, <2>2, <2>3, <2>4 DEF DrainOrder
<1>2. CASE Start \/ DrainBegin \/ DrainEnd
  BY <1>2 DEF Start, DrainBegin, DrainEnd, DrainOrder, Pending
<1>3. CASE \/ \E r \in Req, point \in Points : Take(r, point) /\ TakeStep
           \/ \E r \in Req : Unreadable(r)
  <2>1. PICK r \in Req, point \in Busy \ {"reason"} : Turn(r, point)
    BY <1>3 DEF TakeStep, TakeUndecodable, TakeApplied, TakeRejected,
                TakeReconciled, TakeRefused, TakeValid, Take, Unreadable
  <2>2. point # "reason" /\ point \in Busy
    BY <2>1
  <2>3. /\ pc = "loop" /\ cur' = r /\ pc' = point /\ batch' = batch \ {r} /\ r \in batch
        /\ UNCHANGED <<where, stamp, landed>>
    BY <2>1 DEF Take, Turn, First
  <2>4. \A q \in batch' : Before(r, q)'
    BY <2>1, <2>3 DEF Take, Turn, First, Before, SortStamp
  <2>5. \A q \in batch' : Before(cur, q)'
    BY <2>3, <2>4 DEF Before, SortStamp
  <2> QED BY <2>2, <2>3, <2>5 DEF DrainOrder
<1>4. CASE JournalPending \/ JournalApplied \/ JournalRejected \/ ApplyMkdir \/ ApplyRaises
           \/ Apply \/ ApplyOwner \/ IOFail
  <2>1. /\ pc \in Busy \ {"reason"} /\ pc' \in Busy \ {"reason"}
        /\ UNCHANGED <<where, stamp, batch, cur>>
        /\ landed' \subseteq landed \cup {cur}
    BY <1>4 DEF JournalPending, JournalApplied, JournalRejected, ApplyMkdir,
                ApplyRaises, Apply, ApplyOwner, IOFail, EffectFails
  <2> QED BY <2>1 DEF DrainOrder, Before, SortStamp
<1>5. CASE Archive
  <2>1. /\ pc' = "loop" /\ UNCHANGED <<batch, landed>> /\ where'[cur] # "pending"
        /\ cur \in Req /\ pc \in Busy
        /\ \A r \in Req : where'[r] = "pending" => where[r] = "pending"
    BY <1>5 DEF Archive
  <2> QED BY <2>1 DEF DrainOrder
<1>6. CASE Reject
  <2>1. /\ pc' = "reason" /\ UNCHANGED <<batch, landed, cur>> /\ where'[cur] = "rejected"
        /\ cur \in Req /\ pc \in Busy
        /\ \A r \in Req : where'[r] = "pending" => where[r] = "pending"
    BY <1>6 DEF Reject
  <2> QED BY <2>1 DEF DrainOrder
<1>7. CASE WriteReason
  <2>1. /\ pc = "reason" /\ where[cur] = "rejected" /\ UNCHANGED <<where, landed>>
        /\ pc' \in {"idle", "loop"} /\ (pc' = "loop" => batch' = batch)
    BY <1>7 DEF WriteReason, DrainOrder
  <2> QED BY <2>1 DEF DrainOrder
<1>8. CASE IOAbort \/ Stop \/ Crash
  BY <1>8 DEF IOAbort, Stop, Crash, Exit, DrainOrder
<1>9. CASE UNCHANGED vars
  BY <1>9 DEF vars, DrainOrder, Before, SortStamp
<1> QED BY <1>1, <1>2, <1>3, <1>4, <1>5, <1>6, <1>7, <1>8, <1>9, NextCases

\* A row changes only when the request in hand writes it, or is lost.
LEMMA RowsChange ==
    ASSUME TypeOK, InHand, [Next]_vars
    PROVE  /\ \A l \in Lane :
                \/ docs'.status[l] \in {docs.status[l], None}
                \/ /\ docs'.status[l] = cur /\ pc = "apply" /\ cur \in Req
                   /\ Body[cur].intent \in RowIntents /\ Body[cur].lane = l
           /\ \A t \in Task :
                \/ docs'.tasks[t] \in {docs.tasks[t], None}
                \/ /\ docs'.tasks[t] = cur /\ pc = "apply" /\ cur \in Req
                   /\ Body[cur].intent \in TaskIntents /\ Body[cur].task = t
<1> USE DEF client, disk, log, process, bounds, history
<1>0. docs \in Docs /\ (pc \in Busy => cur \in Req)
  BY DEF TypeOK, InHand
<1> DEFINE Rows(e) ==
           /\ \A l \in Lane : e.status[l] = docs.status[l]
                 \/ (e.status[l] = cur /\ Body[cur].intent \in RowIntents /\ Body[cur].lane = l)
           /\ \A t \in Task : e.tasks[t] = docs.tasks[t]
                 \/ (e.tasks[t] = cur /\ Body[cur].intent \in TaskIntents /\ Body[cur].task = t)
<1>1. cur \in Req => Effect(docs, cur) \in Docs /\ Rows(Effect(docs, cur))
  <2> SUFFICES ASSUME cur \in Req PROVE Effect(docs, cur) \in Docs /\ Rows(Effect(docs, cur))
    OBVIOUS
  <2>0. Effect(docs, cur) \in Docs
    BY <1>0, EffectType
  <2>1. Body[cur].intent \in Intents /\ Body[cur].lane \in Lane /\ Body[cur].task \in Task
    BY BodyType
  <2>2. CASE Body[cur].intent \in RowIntents
    BY <1>0, <2>0, <2>1, <2>2
    DEF RowIntents, Effect, AppendIntents, TaskIntents, StatusUpdate, StatusRowInsert, Docs
  <2>3. CASE Body[cur].intent \in TaskIntents
    BY <1>0, <2>0, <2>1, <2>3
    DEF TaskIntents, Effect, AppendIntents, RowIntents, TasksBracket, TasksInject, Docs
  <2>4. CASE Body[cur].intent \notin RowIntents \cup TaskIntents
    <3>1. Effect(docs, cur).status = docs.status /\ Effect(docs, cur).tasks = docs.tasks
      BY <1>0, <2>1, <2>4
      DEF RowIntents, TaskIntents, Effect, Intents, AppendIntents, HistoryAppend,
          MissionEventAppend, ClaimOwner, ClaimDirDone, Docs
    <3> QED BY <2>0, <3>1
  <2> QED BY <2>2, <2>3, <2>4, <2>0
<1>2. CASE docs'.status = docs.status /\ docs'.tasks = docs.tasks
  BY <1>2
<1>3. CASE docs' = Effect(docs, cur) /\ pc = "apply" /\ cur \in Req
  BY <1>1, <1>3
<1>4. CASE TearRows
  <2>1. PICK e : e = Effect(docs, cur)
    OBVIOUS
  <2>2. pc = "apply" /\ cur \in Req
    BY <1>0, <1>4 DEF TearRows, Busy, Points
  <2>3. e \in Docs /\ Rows(e)
    BY <1>1, <2>1, <2>2
  <2>4. \/ \E l \in Lane : docs' = [e EXCEPT !.status[l] = None]
        \/ \E t \in Task : docs' = [e EXCEPT !.tasks[t] = None]
    BY <1>4, <2>1 DEF TearRows
  <2>5. /\ \A l \in Lane : docs'.status[l] = e.status[l] \/ docs'.status[l] = None
        /\ \A t \in Task : docs'.tasks[t] = e.tasks[t] \/ docs'.tasks[t] = None
    BY <2>3, <2>4 DEF Docs
  <2> HIDE DEF Rows
  <2> QED BY <2>2, <2>3, <2>5 DEF Rows
<1> QED
  <2>1. CASE Apply
    BY <1>0, <1>3, <2>1 DEF Apply, Busy, Points
  <2>2. CASE ApplyMkdir \/ ApplyOwner
    BY <1>0, <1>2, <2>2 DEF ApplyMkdir, ClaimMkdir, ApplyOwner, ClaimOwner, Docs
  <2>3. CASE IOFail \/ IOAbort \/ Crash
    <3>1. CASE Unfinished
      BY <1>0, <1>2, <1>4, <3>1 DEF Unfinished, TearJournal, TearOwner, Docs
    <3>2. CASE LineFails
      BY <1>2, <3>2 DEF LineFails
    <3>3. CASE EffectFails
      BY <1>0, <1>3, <3>3 DEF EffectFails, Busy, Points
    <3> QED BY <2>3, <3>1, <3>2, <3>3 DEF IOFail, IOAbort, Crash
  <2>4. CASE Tick \/ (\E r \in Req : Stamp(r) \/ Publish(r))
    BY <1>2, <2>4 DEF Tick, Stamp, Publish
  <2>5. CASE \/ \E r \in Req, point \in Points : Take(r, point) /\ TakeStep
             \/ \E r \in Req : Unreadable(r)
    BY <1>2, <2>5 DEF Take, Turn, Unreadable
  <2>6. CASE Start \/ DrainBegin \/ DrainEnd \/ JournalPending \/ ApplyRaises
             \/ JournalApplied \/ Archive \/ JournalRejected \/ Reject
             \/ WriteReason \/ Stop
    BY <1>2, <2>6 DEF Start, DrainBegin, DrainEnd, JournalPending, ApplyRaises,
       JournalApplied, Archive, JournalRejected, Reject, WriteReason, Stop
  <2>7. CASE UNCHANGED vars
    BY <1>2, <2>7 DEF vars
  <2> HIDE <1>1, <1>2, <1>3, <1>4
  <2> QED BY <2>1, <2>2, <2>3, <2>4, <2>5, <2>6, <2>7, NextCases

\* A row holds no request that sorts after one that is to be applied again.
LEMMA RowOrderStep ==
    ASSUME TypeOK, InHand, DrainOrder, RowOrder, [Next]_vars
    PROVE  RowOrder'
<1>a. /\ where \in [Req -> Places] /\ docs \in Docs
      /\ (pc \in Busy => cur \in Req) /\ batch \subseteq Req
      /\ pc \in Busy \ {"reason"} => where[cur] = "pending"
  BY DEF TypeOK, InHand
<1>b. /\ \A r \in Req : where[r] # "unborn" => where'[r] # "unborn"
      /\ \A r \in Req : where[r] \notin {"unborn", "stamped"}
               => where'[r] \notin {"unborn", "stamped"}
      /\ \A r \in Req : where'[r] = "pending" => where[r] \in {"pending", "stamped"}
      /\ \A r, q \in Req : where[r] # "unborn" /\ where[q] # "unborn" /\ Before(r, q)
               => Before(r, q)'
  BY OrderIsFixed
<1>c. pc = "apply" => pc \in Busy \ {"reason"}
  BY DEF Busy, Points
<1>d. landed' \subseteq landed \/ (landed' = landed \cup {cur} /\ cur \in Req /\ where[cur] = "pending")
  <2>1. Apply \/ ApplyOwner \/ IOFail => pc \in Busy \ {"reason"}
    BY DEF Apply, ApplyOwner, IOFail, Busy, Points
  <2> QED BY <1>a, <2>1, LandedGrows
<1>1. landed' \subseteq {r \in Req : where'[r] \notin {"unborn", "stamped"}}
  BY <1>b, <1>d DEF RowOrder
<1>2. /\ \A l \in Lane : docs'.status[l] \in Req => where'[docs'.status[l]] # "unborn"
      /\ \A t \in Task : docs'.tasks[t] \in Req => where'[docs'.tasks[t]] # "unborn"
  BY <1>a, <1>b, <1>c, NamesAssumption, RowsChange DEF RowOrder
<1>3. ASSUME NEW r \in landed', where'[r] = "pending", NEW row, NEW old,
             row \in Req => where[row] # "unborn" /\ where'[row] # "unborn",
             r \in landed => WrittenBefore(old, r),
             \/ row = cur /\ pc = "apply"
             \/ row = old /\ r \in landed
             \/ row = None
      PROVE  row \in Req => row = r \/ Before(row, r)'
  <2> SUFFICES ASSUME row \in Req, row # r PROVE Before(row, r)'
    OBVIOUS
  <2>1. r \in Req /\ (r \in landed => where[r] = "pending")
    BY <1>b, <1>d, <1>3 DEF RowOrder
  <2>2. where[r] # "unborn"
    BY <1>b, <1>3, <2>1
  <2>3. CASE row = cur /\ pc = "apply"
    <3>1. r \in landed
      BY <1>d, <2>3
    <3>2. r \in batch
      BY <1>c, <2>1, <2>3, <3>1 DEF DrainOrder
    <3>3. Before(row, r)
      BY <1>c, <2>3, <3>2 DEF DrainOrder
    <3> QED BY <1>3, <1>b, <2>1, <2>2, <3>3
  <2>4. CASE row = old /\ r \in landed
    BY <1>3, <1>b, <2>1, <2>2, <2>4 DEF WrittenBefore
  <2> QED BY <1>3, <2>3, <2>4, NamesAssumption
<1>4. ASSUME NEW r \in landed', where'[r] = "pending"
      PROVE  /\ Body[r].intent \in RowIntents => WrittenBefore(docs.status[Body[r].lane], r)'
             /\ Body[r].intent \in TaskIntents => WrittenBefore(docs.tasks[Body[r].task], r)'
  <2>1. r \in Req /\ Body[r].lane \in Lane /\ Body[r].task \in Task
        /\ (r \in landed => where[r] = "pending")
    BY <1>1, <1>4, <1>b, BodyType DEF RowOrder
  <2>2. r \notin landed => r = cur /\ docs' = Effect(docs, cur)
    BY <1>4, LandedGrows
  <2>3. ASSUME Body[r].intent \in RowIntents
        PROVE  WrittenBefore(docs.status[Body[r].lane], r)'
    <3>0. PICK row, old : row = docs'.status[Body[r].lane] /\ old = docs.status[Body[r].lane]
      OBVIOUS
    <3>1. row \in Req => where'[row] # "unborn" /\ where[row] # "unborn"
      BY <1>2, <1>a, <1>c, <2>1, <3>0, NamesAssumption, RowsChange DEF RowOrder
    <3>2. CASE r \in landed
      <4>1. WrittenBefore(old, r)
        BY <2>1, <2>3, <3>0, <3>2 DEF RowOrder
      <4>2. row = old \/ (row = cur /\ pc = "apply") \/ row = None
        BY <2>1, <3>0, RowsChange
      <4>3. row \in Req => row = r \/ Before(row, r)'
        BY <1>3, <1>4, <3>1, <3>2, <4>1, <4>2
      <4> QED BY <3>0, <3>1, <4>3 DEF WrittenBefore, Before, SortStamp
    <3>3. CASE r \notin landed
      <4>1. row = r
        BY <1>a, <2>1, <2>2, <2>3, <3>0, <3>3
        DEF RowIntents, Effect, AppendIntents, TaskIntents, StatusUpdate, StatusRowInsert, Docs
      <4> QED BY <3>0, <3>1, <4>1 DEF WrittenBefore
    <3> QED BY <3>2, <3>3
  <2>4. ASSUME Body[r].intent \in TaskIntents
        PROVE  WrittenBefore(docs.tasks[Body[r].task], r)'
    <3>0. PICK row, old : row = docs'.tasks[Body[r].task] /\ old = docs.tasks[Body[r].task]
      OBVIOUS
    <3>1. row \in Req => where'[row] # "unborn" /\ where[row] # "unborn"
      BY <1>2, <1>a, <1>c, <2>1, <3>0, NamesAssumption, RowsChange DEF RowOrder
    <3>2. CASE r \in landed
      <4>1. WrittenBefore(old, r)
        BY <2>1, <2>4, <3>0, <3>2 DEF RowOrder
      <4>2. row = old \/ (row = cur /\ pc = "apply") \/ row = None
        BY <2>1, <3>0, RowsChange
      <4>3. row \in Req => row = r \/ Before(row, r)'
        BY <1>3, <1>4, <3>1, <3>2, <4>1, <4>2
      <4> QED BY <3>0, <3>1, <4>3 DEF WrittenBefore, Before, SortStamp
    <3>3. CASE r \notin landed
      <4>1. row = r
        BY <1>a, <2>1, <2>2, <2>4, <3>0, <3>3
        DEF TaskIntents, Effect, AppendIntents, RowIntents, TasksBracket, TasksInject, Docs
      <4> QED BY <3>0, <3>1, <4>1 DEF WrittenBefore
    <3> QED BY <3>2, <3>3
  <2> QED BY <2>3, <2>4
<1> QED BY <1>1, <1>2, <1>4 DEF RowOrder

(***************************************************************************)
(* Re-applying an in-doubt STATUS_UPDATE or TASKS_BRACKET after a crash    *)
(* never takes a row back from a request that sorts after it.              *)
(***************************************************************************)
THEOREM NothingTakenBack == Spec => ReapplyTakesNothingBack
<1> DEFINE Inv == TypeOK /\ InHand /\ DrainOrder /\ RowOrder
           Forward == \A r \in landed : \A s \in Req :
                /\ cur = r /\ docs' # docs
                /\ \/ \E l \in Lane : docs.status[l] = s /\ docs'.status[l] = r
                   \/ \E t \in Task : docs.tasks[t] = s /\ docs'.tasks[t] = r
                => s = r \/ Before(s, r)
<1>1. Init => Inv
  <2>1. Init => DrainOrder /\ RowOrder
    BY NamesAssumption DEF Init, InitDocs, DrainOrder, RowOrder, Busy, Points
  <2> QED BY <2>1, TypeInit
<1>2. ASSUME Inv, [Next]_vars PROVE Forward
  <2> SUFFICES ASSUME NEW r \in landed, NEW s \in Req, cur = r, s # r,
                      \/ \E l \in Lane : docs.status[l] = s /\ docs'.status[l] = r
                      \/ \E t \in Task : docs.tasks[t] = s /\ docs'.tasks[t] = r
               PROVE  Before(s, r)
    OBVIOUS
  <2>1. pc = "apply" => where[r] = "pending"
    BY <1>2 DEF InHand, Busy, Points
  <2> QED BY <1>2, <2>1, NamesAssumption, RowsChange DEF RowOrder, WrittenBefore
<1>3. Inv /\ [Next]_vars => Inv'
  BY TypeStep, DrainOrderStep, RowOrderStep
<1> HIDE DEF Inv, Forward
<1>4. Inv /\ [Next]_vars => [Forward]_vars
  BY <1>2
<1>5. Spec => [][Forward]_vars
  BY <1>1, <1>3, <1>4, PTL DEF Spec
<1> QED BY <1>5 DEF ReapplyTakesNothingBack, Forward

=============================================================================
