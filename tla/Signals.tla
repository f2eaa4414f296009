------------------------------ MODULE Signals ------------------------------
(***************************************************************************)
(* The three channels a signal takes (server.py, activity_wall.py,         *)
(* signal_grammar.py): files in signals/, [SIG] tokens in the notes of     *)
(* STATUS.md and findings with a signal-type.  The server writes the first *)
(* two; GET /api/v1/state and the activity wall each parse them with code  *)
(* of their own.  A label is a sequence of its dash-separated words, so    *)
(* that LANE-A is <<"LANE", "A">>; the words of one cell run together are  *)
(* a set.                                                                  *)
(***************************************************************************)
EXTENDS Naturals, Sequences, FiniteSets

CONSTANTS
    RowLabel,  \* first cells of the rows of STATUS.md, labels
    Config,    \* what mission.config may say: sets of the labels of its lanes
    Sender,    \* what a from= says, labels
    Topic,     \* slugs
    MaxMinute, \* bound: the clock of the file names
    MaxSignals \* bound: signals posted

Unread == {<<"unread">>}      \* the wall has not looked yet
NoConfig == {<<"no config">>} \* its load failed

ASSUME SignalAssumption ==
    /\ \A l \in RowLabel \cup Sender : l \in Seq(STRING)
    \* the schema refuses a blank name and gives every lane a short code
    /\ \A c \in Config : \A l \in c : l \in Seq(STRING) /\ l # <<>>
    /\ {Unread, NoConfig} \cap Config = {}
    /\ {MaxMinute, MaxSignals} \subseteq Nat

VARIABLES
    rows,    \* STATUS.md: the tokens in and after each row, and loose ones
    signalDir, \* signals/: what each name holds
    minute,
    post,    \* the POST under way
    posted,  \* history: the signals that were answered with success
    serverLanes, \* the configuration the server was built with
    wallLanes    \* the one the wall loaded at its first look at STATUS.md

rosters == <<serverLanes, wallLanes>>
signals == <<rows, signalDir, minute, post, posted, serverLanes, wallLanes>>

Loose == <<"loose">>
NoPost == [step |-> "idle"]
Token == [from : Sender, text : {0}, place : {"cell", "after"}]

SignalsInit ==
    /\ rows = [l \in RowLabel \cup {Loose} |-> {}]
    /\ signalDir = <<>> /\ minute = 0 /\ post = NoPost /\ posted = {}
    /\ serverLanes \in Config /\ wallLanes = Unread

-----------------------------------------------------------------------------
\* _normalize_lane_label
NormalizeLane(raw, default) ==
    IF raw = <<>> THEN default
    ELSE IF raw[1] = "LANE" THEN raw
    ELSE IF raw = <<"ORCHESTRATOR">> THEN <<"LANE", "ORCH">>
    ELSE IF Len(raw) = 1 THEN <<"LANE">> \o raw
    ELSE raw

Orch == <<"LANE", "ORCH">>
Unknown == <<"LANE", "UNKNOWN">>
OrchLabels == {<<"ORCHESTRATOR">>, <<"ORCH">>, Orch}

\* _roster_labels.  The server does not start without a configuration.
ServerRoster == {Orch} \cup {NormalizeLane(l, Unknown) : l \in serverLanes}

\* _load_roster: cached for good, the orchestrator alone when the load failed
WallRoster ==
    IF wallLanes = NoConfig THEN {Orch}
    ELSE {Orch} \cup {NormalizeLane(l, <<>>) : l \in wallLanes \ {<<>>}}

\* _owning_lane_for, or _owning_lane_on_line for a token after the last pipe.
\* A token outside the table has no owner.
Owner(row, tok) ==
    IF row = Loose THEN <<>> ELSE NormalizeLane(row, Unknown)

\* What a parser makes of a token
Read(from, claimed, unverified, unknown) ==
    [from |-> from, claimed |-> claimed, unverified |-> unverified, unknown |-> unknown]

\* Mutant: the sender is the one the token names.
ServerReadTrusts(row, tok) ==
    LET claimed == NormalizeLane(tok.from, Unknown) IN
    Read(claimed, claimed, claimed \notin ServerRoster, claimed \notin ServerRoster)

\* _parse_status_note_signals
ServerRead(row, tok) ==
    LET claimed == NormalizeLane(tok.from, Unknown)
        owner   == Owner(row, tok)
        from    == IF tok.from \in OrchLabels THEN Orch
                   ELSE IF owner = <<>> THEN Unknown ELSE owner
        doubt   == tok.from \notin OrchLabels /\ (owner = <<>> \/ claimed # owner)
        unknown == from # Orch /\ from \notin ServerRoster
    IN Read(from, claimed, doubt \/ unknown, unknown)

\* _parse_status_note_events
WallRead(row, tok) ==
    LET claimed == NormalizeLane(tok.from, Unknown)
        owner   == Owner(row, tok)
    IN IF tok.from \in OrchLabels
       THEN Read(Orch, claimed, Orch \notin WallRoster, Orch \notin WallRoster)
       ELSE IF owner = <<>> THEN Read(Unknown, claimed, TRUE, Unknown \notin WallRoster)
       ELSE Read(owner, claimed, claimed # owner \/ owner \notin WallRoster, owner \notin WallRoster)

-----------------------------------------------------------------------------
\* An agent edits STATUS.md: any token, in a row, after it or elsewhere, or
\* none any more
AgentWrites ==
    /\ \E row \in RowLabel \cup {Loose} :
        /\ \A other \in DOMAIN rows \ {row} : rows[other] \cap Token = {}
        /\ \E new \in {{}} \cup {{tok} : tok \in Token} : rows' = [rows EXCEPT ![row] = new]
    /\ UNCHANGED <<signalDir, minute, post, posted, rosters>>

Minute ==
    /\ minute < MaxMinute
    /\ minute' = minute + 1
    /\ UNCHANGED <<rows, signalDir, post, posted, rosters>>

\* POST /api/lanes/{lane}/signal: STATUS.md is read ...
PostRead ==
    /\ post = NoPost /\ Cardinality(posted) < MaxSignals
    /\ \E lane \in RowLabel, topic \in Topic :
        post' = [step |-> "read", lane |-> lane, topic |-> topic, rows |-> rows,
                 n |-> Cardinality(posted) + 1]
    /\ UNCHANGED <<rows, signalDir, minute, posted, rosters>>

\* ... and written as it was read, with the token in the cell of the row
PostWrite ==
    /\ post.step = "read"
    /\ rows' = [post.rows EXCEPT ![post.lane] = @ \cup
                   {[from |-> <<"ORCHESTRATOR">>, text |-> post.n, place |-> "cell"]}]
    /\ post' = [post EXCEPT !.step = "file"]
    /\ UNCHANGED <<signalDir, minute, posted, rosters>>

\* POST /api/v1/signals: the note goes through the queue.
PostQueued ==
    /\ post = NoPost /\ Cardinality(posted) < MaxSignals
    /\ \E lane \in RowLabel, topic \in Topic :
        post' = [step |-> "file", lane |-> lane, topic |-> topic, rows |-> rows,
                 n |-> Cardinality(posted) + 1]
    /\ UNCHANGED <<rows, signalDir, minute, posted, rosters>>

\* _norm of _write_signal_file: the words behind LANE run together.
FileLane(raw) ==
    LET words == IF raw # <<>> /\ raw[1] = "LANE" THEN Tail(raw) ELSE raw IN
    IF words = <<>> THEN {"UNKNOWN"} ELSE {words[i] : i \in DOMAIN words}

Name(lane, topic, utc) == [from |-> {"ORCH"}, to |-> FileLane(lane), topic |-> topic, utc |-> utc]

\* _write_signal_file, or an OSError that is logged: the answer is a success
\* in both cases.
WriteSignalFile ==
    /\ post.step = "file"
    /\ \/ signalDir' = LET name == Name(post.lane, post.topic, minute) IN
                 [x \in DOMAIN signalDir \cup {name} |-> IF x = name THEN post.n ELSE signalDir[x]]
       \/ signalDir' = signalDir
    /\ posted' = posted \cup {[n |-> post.n, filed |-> signalDir' # signalDir]}
    /\ post' = NoPost
    /\ UNCHANGED <<rows, minute, rosters>>

\* The wall's first look at STATUS.md loads the configuration, edited since the
\* server started, perhaps, or not to be read.
WallLoads ==
    /\ wallLanes = Unread
    /\ wallLanes' \in Config \cup {NoConfig}
    /\ UNCHANGED <<rows, signalDir, minute, post, posted, serverLanes>>

SignalsNext ==
    WallLoads \/ AgentWrites \/ Minute \/ PostRead \/ PostWrite \/ PostQueued \/ WriteSignalFile

SignalsSpec == SignalsInit /\ [][SignalsNext]_signals

-----------------------------------------------------------------------------
Tokens == UNION {{<<row, tok>> : tok \in rows[row]} : row \in DOMAIN rows}

\* The page and the live wall name the same sender for a note, although each
\* has its own parser and its own roster.  Their marks differ only when the
\* configuration was edited or unreadable between the two loads, and then only
\* for a sender that one roster has and the other has not.
ReadersAgree ==
    wallLanes # Unread =>
        \A x \in Tokens :
            LET page == ServerRead(x[1], x[2])
                wall == WallRead(x[1], x[2])
            IN /\ page.from = wall.from /\ page.claimed = wall.claimed
               /\ page # wall => /\ wallLanes # serverLanes
                                 /\ (page.from \in ServerRoster) # (page.from \in WallRoster)

\* "an immediate, durable signal record": what was filed stays filed.
SignalIsKept == \A p \in posted : p.filed => \E name \in DOMAIN signalDir : signalDir[name] = p.n

=============================================================================
