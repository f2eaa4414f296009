------------------------------ MODULE MCServer ------------------------------
(* The parts of the server that share no state with each other, one of them   *)
(* per behaviour: the state space is the sum of theirs and not the product.   *)
EXTENDS MCFleet, Governor, ApplierSingleton, PhaseFlip, LaneStream, Gate, StaleLanes, LaneBoard, Signals

CONSTANT Parts  \* the parts a run is about

VARIABLE part

MCFlips == {<<"P", "Q">>, <<"Q", "R">>}

\* Labels of the signals: of lanes one configuration has and the other has not,
\* the orchestrator, none.
MCRowLabels == {<<"A">>, <<"LANE", "Z">>}
MCConfigs == {{<<"A">>, <<"B">>}, {<<"B">>, <<"LANE", "Z">>}}
MCSenders == {<<"A">>, <<"ORCH">>, <<"LANE", "Z">>, <<>>}

\* TASKS.md and STATUS.md for the board: a claim time that is and is not readable,
\* a blocked task in the cross-lane pool, a header nobody declared, an id twice.
Header(s) == [kind |-> "h2", section |-> s]
TaskLine(id, state, utc) == [kind |-> "task", id |-> id, lane |-> "a", state |-> state, utc |-> utc]
MCDocs == { <<>>,
  <<Header("phase"), TaskLine("t1", "claimed", 1), TaskLine("t2", "claimed", 0)>>,
  <<Header("cross"), TaskLine("t2", "blocked", 0), Header("phase"), TaskLine("t1", "claimed", 1)>>,
  <<TaskLine("t2", "claimed", 1), Header("phase"), TaskLine("t1", "done", 1), TaskLine("t2", "done", 1),
    Header("unknown"), TaskLine("t1", "claimed", 1)>> }
StatusRow(agent, says, task, note) == [agent |-> agent, says |-> says, task |-> task, note |-> note]
MCRows == { StatusRow("unclaimed", "unclaimed", "none", "signal"), StatusRow("x", "working", "t1", "signal"),
  StatusRow("x", "working", "none", "signal"), StatusRow("x", "idle", "none", "note"), StatusRow("y", "blocked", "none", "note") }
MCLanes == <<"a">>

-----------------------------------------------------------------------------
\* Tool calls for the governor: every head with and without an argument its
\* denylist names, every place a path can lead to as operand, redirect or -t
\* directory, wrappers before the head, commands of two segments.
FilePlaces == [at : {"project", "target", "tmp", "tmpdir", "elsewhere", "/"}, kind : {"plain"}]
  \cup [at : {"project", "elsewhere"}, kind : {"secret", "secretlink", "hidden", "governor"}]
\* Two places of one name: a signature is in both or in neither.
SameName(p, q) == \E kinds \in {{"secret", "secretlink"}, {"plain", "hidden"}, {"governor"}} :
                    {p.kind, q.kind} \subseteq kinds
Paths ==
  {Absolute(p) : p \in FilePlaces}
  \cup {[spelled |-> "device", named |-> p, seen |-> p] : p \in {[at |-> "elsewhere", kind |-> "plain"]}}
  \cup {p \in [spelled : {"relative", "bare"},
               named : {p \in FilePlaces : p.at = "project"},
               seen : {p \in FilePlaces : p.at = "elsewhere"}] : SameName(p.named, p.seen)}
Plain == PlainFile
Segments ==
  {[Segment EXCEPT !.head = h, !.bad = b] : b \in BOOLEAN,
     h \in DOMAIN AlwaysDenied \cup DOMAIN DeniedWithArgument \cup MutationHeads \cup {"echo"}}
  \cup {[Segment EXCEPT !.head = h, !.operands = <<p>>] : h \in ReadHeads \cup MutationHeads \cup {"tar"}, p \in Paths}
  \cup {[Segment EXCEPT !.head = "rm", !.forced = b, !.operands = ps] : b \in BOOLEAN, ps \in {<<>>} \cup {<<p>> : p \in Paths}}
  \cup {[Segment EXCEPT !.head = h, !.operands = <<Plain, p>>] : h \in MutationHeads, p \in Paths}
  \cup {[Segment EXCEPT !.head = h, !.operands = <<Plain>>, !.into = <<p>>] : h \in MutationHeads, p \in Paths}
  \cup {[Segment EXCEPT !.writes = <<p>>] : p \in Paths}
  \cup {[Segment EXCEPT !.head = "curl", !.url = [host |-> "h", plain |-> b]] : b \in BOOLEAN}
  \cup {[Segment EXCEPT !.prefix = <<w>>, !.head = h] : w \in {"env", "env -S", "time"}, h \in {"make", "sudo", "echo"}}
  \cup {[Segment EXCEPT !.parses = FALSE]}
Few == {[Segment EXCEPT !.head = h] : h \in {"make", "sudo", "echo", "curl"}}
MCCalls ==
  {Bash(s) : s \in Segments}
  \cup {[tool |-> "Bash", shape |-> "plain", segments |-> <<s, t>>] : s \in Few, t \in Few}
  \cup {[tool |-> "Bash", shape |-> sh, segments |-> <<>>] : sh \in {"empty", "canary", "substitution", "function"}}
  \cup {[tool |-> t, paths |-> ps] : t \in {"Read", "Write"}, ps \in {<<>>} \cup {<<p>> : p \in Paths}}
  \cup {[tool |-> "WebFetch", host |-> h] : h \in {"listed", "below-listed", "other"}}
  \cup {[tool |-> t] : t \in {"TodoWrite", "Task", "raises", "mcp", "bad input"}}
MCPatterns == {<<"head", "make">>, <<"head", "sudo">>}

-----------------------------------------------------------------------------
ServerInit ==
  /\ part \in Parts
  /\ Init /\ GovernorInit /\ LockInit /\ FlipInit
  /\ StreamInit /\ StaleInit /\ LaneBoardInit /\ SignalsInit /\ GateInit
  \* a part that rests begins in one state, the board's with an empty TASKS.md
  /\ part # "fleet" => settings = CHOOSE s \in Settings : TRUE
  /\ part # "board" => status["a"] = CHOOSE r \in MCRows : TRUE
  /\ part # "signals" => serverLanes = CHOOSE c \in MCConfigs : TRUE
  /\ doc = <<>>

ServerNext ==
  /\ UNCHANGED part
  /\ \/ part = "fleet" /\ Next
     \/ part = "governor" /\ GovernorNext
     \/ part = "lock" /\ LockNext
     \/ part = "flips" /\ FlipNext
     \/ part = "stream" /\ StreamNext
     \/ part = "silent" /\ StaleNext
     \/ part = "board" /\ LaneBoardNext
     \/ part = "signals" /\ SignalsNext
     \/ part = "gate" /\ GateNext
  /\ IF part = "fleet" THEN TRUE ELSE UNCHANGED vars
  /\ IF part = "governor" THEN TRUE ELSE UNCHANGED governor
  /\ IF part = "lock" THEN TRUE ELSE UNCHANGED lockVars
  /\ IF part = "flips" THEN TRUE ELSE UNCHANGED flip
  /\ IF part = "stream" THEN TRUE ELSE UNCHANGED stream
  /\ IF part = "silent" THEN TRUE ELSE UNCHANGED stale
  /\ IF part = "board" THEN TRUE ELSE UNCHANGED laneBoard
  /\ IF part = "signals" THEN TRUE ELSE UNCHANGED signals
  /\ IF part = "gate" THEN TRUE ELSE UNCHANGED gate

server_vars == <<part, vars, governor, lockVars, flip, stream,
                 stale, laneBoard, signals, gate>>

ServerSpec == ServerInit /\ [][ServerNext]_server_vars
=============================================================================
