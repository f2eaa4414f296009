-------------------------------- MODULE Gate --------------------------------
(***************************************************************************)
(* Who may change something (auth.py, server.py): sessions kept in memory  *)
(* and in a file, the CSRF token and the control-mode flag of the process, *)
(* and the handlers behind them, which wait for bodies and for tmux        *)
(* between their checks and their effects.                                 *)
(***************************************************************************)
EXTENDS Naturals, Sequences, FiniteSets, FiniteSetsExt

CONSTANTS
    Sid,        \* session ids
    Request,    \* requests under way at the same time
    MaxAge,     \* COOKIE_MAX_AGE_SECONDS
    Window,     \* _INJECT_RL_WINDOW
    Budget,     \* _INJECT_RL_MAX
    MaxClock,   \* bound
    MaxStarts,  \* bound: processes one after the other
    MaxTyped    \* bound: texts typed into the pane

ASSUME GateAssumption ==
    {MaxAge, Window, Budget, MaxClock, MaxStarts, MaxTyped} \subseteq Nat \ {0}

VARIABLES
    clock,
    up, start,  \* is there a server, and the number of its process
    sessions,   \* _created_at: session -> time; sessions it lacks are not in it
    stored,     \* the session file, in the same form
    saved,      \* did the last _persist succeed
    control,    \* ctx.control_mode
    recent,     \* _inject_rl of the lane: times of admitted calls
    request,    \* the requests
    typed,      \* history: how many texts reached the pane
    log,        \* lines of the inject log
    admitted,   \* history: when calls were admitted, by all processes of now
    unlocked,   \* history: control mode was switched on in this process
    out         \* history: revoked sessions

gate == <<clock, up, start, sessions, stored, saved, control, recent, request, typed, log,
          admitted, unlocked, out>>

NoRequest == [step |-> "none"]

GateInit ==
    /\ clock = 0 /\ up = FALSE /\ start = 0
    /\ sessions = <<>> /\ stored = <<>> /\ saved = TRUE
    /\ control = FALSE /\ recent = <<>> /\ request = [c \in Request |-> NoRequest]
    /\ typed = 0 /\ log = 0 /\ admitted = <<>> /\ unlocked = FALSE /\ out = {}

\* _persist: the whole map replaces the file, or a warning is logged.
Persist(map) ==
    \/ stored' = map /\ saved' = TRUE
    \/ stored' = stored /\ saved' = (stored = map)

Without(map, s) == [x \in DOMAIN map \ {s} |-> map[x]]

-----------------------------------------------------------------------------
Tick ==
    /\ clock < MaxClock
    /\ clock' = clock + 1
    /\ UNCHANGED <<up, start, sessions, stored, saved, control, recent, request, typed, log,
                   admitted, unlocked, out>>

\* Another process: _load_and_prune, a new CSRF token, control mode off
Launch ==
    /\ ~up /\ start < MaxStarts
    /\ up' = TRUE /\ start' = start + 1
    /\ LET kept == [s \in {x \in DOMAIN stored : clock < stored[x] + MaxAge} |-> stored[s]] IN
        sessions' = kept /\ Persist(kept)
    /\ control' = FALSE /\ recent' = <<>> /\ admitted' = <<>> /\ unlocked' = FALSE
    /\ UNCHANGED <<clock, request, typed, log, out>>

Die ==
    /\ up
    /\ up' = FALSE
    /\ sessions' = <<>> /\ saved' = TRUE /\ request' = [c \in Request |-> NoRequest]
    /\ UNCHANGED <<clock, start, stored, control, recent, typed, log, admitted, unlocked, out>>

\* Mutant: the new session is only in memory.
CreateUnsaved(s) ==
    /\ up /\ s \notin DOMAIN sessions \cup DOMAIN stored \cup out
    /\ sessions' = [x \in DOMAIN sessions \cup {s} |-> IF x = s THEN clock ELSE sessions[x]]
    /\ UNCHANGED <<clock, up, start, stored, saved, control, recent, request, typed, log,
                   admitted, unlocked, out>>

\* POST /api/v1/auth/exchange with the token of .fleet/ui.token
Create(s) ==
    /\ up /\ s \notin DOMAIN sessions \cup DOMAIN stored \cup out
    /\ sessions' = [x \in DOMAIN sessions \cup {s} |-> IF x = s THEN clock ELSE sessions[x]]
    /\ Persist(sessions')
    /\ UNCHANGED <<clock, up, start, control, recent, request, typed, log, admitted,
                   unlocked, out>>

\* revoke()
Revoke(s) ==
    /\ up /\ s \in DOMAIN sessions
    /\ sessions' = Without(sessions, s)
    /\ Persist(sessions')
    /\ out' = out \cup {s}
    /\ UNCHANGED <<clock, up, start, control, recent, request, typed, log, admitted, unlocked>>

-----------------------------------------------------------------------------
Kinds == {"control", "inject", "restart", "other"}

Expired(s) == clock > sessions[s] + MaxAge

\* v92_auth_gate: validate() admits the request to its handler ...
Admit(c, s) ==
    /\ up /\ request[c] = NoRequest /\ s \in DOMAIN sessions /\ ~Expired(s)
    /\ \E kind \in Kinds, csrf \in 1..start :
        request' = [request EXCEPT ![c] = [step |-> "admitted", kind |-> kind, csrf |-> csrf]]
    /\ UNCHANGED <<clock, up, start, sessions, stored, saved, control, recent, typed, log,
                   admitted, unlocked, out>>

\* ... or evicts the session and answers 401.
Evict(s) ==
    /\ up /\ s \in DOMAIN sessions /\ Expired(s)
    /\ sessions' = Without(sessions, s)
    /\ Persist(sessions')
    /\ UNCHANGED <<clock, up, start, control, recent, request, typed, log, admitted,
                   unlocked, out>>

\* 401, 403, 404, 413, 422 or 429: the request ends.
Refuse(c) ==
    /\ request[c].step \in {"admitted", "checked"}
    /\ request' = [request EXCEPT ![c] = NoRequest]
    /\ UNCHANGED <<clock, up, start, sessions, stored, saved, control, recent, typed, log,
                   admitted, unlocked, out>>

\* _csrf_or_403, then _control_mode_or_403 except for the switch itself
Passes(c) ==
    /\ request[c].csrf = start
    /\ request[c].kind = "control" \/ control

\* post_control_mode and the handlers that wait for their body
CheckThenWait(c) ==
    /\ request[c].step = "admitted" /\ request[c].kind \in {"control", "other"} /\ Passes(c)
    /\ request' = [request EXCEPT ![c].step = "checked"]
    /\ UNCHANGED <<clock, up, start, sessions, stored, saved, control, recent, typed, log,
                   admitted, unlocked, out>>

SetControl(c) ==
    /\ request[c].step = "checked" /\ request[c].kind = "control"
    /\ control' \in BOOLEAN
    /\ unlocked' = (unlocked \/ control')
    /\ request' = [request EXCEPT ![c] = NoRequest]
    /\ UNCHANGED <<clock, up, start, sessions, stored, saved, recent, typed, log, admitted, out>>

\* A handler has its body and does what it is for.
Effect(c) ==
    /\ request[c].step = "checked" /\ request[c].kind = "other"
    /\ request' = [request EXCEPT ![c] = [@ EXCEPT !.step = "effect"]]
    /\ UNCHANGED <<clock, up, start, sessions, stored, saved, control, recent, typed, log,
                   admitted, unlocked, out>>

Answer(c) ==
    /\ request[c].step = "effect"
    /\ request' = [request EXCEPT ![c] = NoRequest]
    /\ UNCHANGED <<clock, up, start, sessions, stored, saved, control, recent, typed, log,
                   admitted, unlocked, out>>

\* Entries are popped from the left as long as they are older than Window.
FirstFresh ==
    Min({i \in 1..(Len(recent) + 1) : i <= Len(recent) => recent[i] + Window > clock})
Fresh == SubSeq(recent, FirstFresh, Len(recent))

\* Mutant: a call counts only from the next one on.
InjectLate(c) ==
    /\ request[c].step = "admitted" /\ request[c].kind = "inject" /\ Passes(c)
    /\ Len(Fresh) <= Budget
    /\ recent' = Append(Fresh, clock)
    /\ admitted' = Append(admitted, clock)
    /\ request' = [request EXCEPT ![c].step = "typing"]
    /\ UNCHANGED <<clock, up, start, sessions, stored, saved, control, typed, log, unlocked, out>>

\* lane_inject: the checks, the rate limit and its entry, then tmux
Inject(c) ==
    /\ request[c].step = "admitted" /\ request[c].kind = "inject" /\ Passes(c)
    /\ Len(Fresh) < Budget
    /\ recent' = Append(Fresh, clock)
    /\ admitted' = Append(admitted, clock)
    /\ request' = [request EXCEPT ![c].step = "typing"]
    /\ UNCHANGED <<clock, up, start, sessions, stored, saved, control, typed, log, unlocked, out>>

\* lane_restart_loop types the initial prompt, without a limit.
RestartLoop(c) ==
    /\ request[c].step = "admitted" /\ request[c].kind = "restart" /\ Passes(c)
    /\ request' = [request EXCEPT ![c].step = "typing"]
    /\ UNCHANGED <<clock, up, start, sessions, stored, saved, control, recent, typed, log,
                   admitted, unlocked, out>>

\* tmux has typed the text.  The log is written next, without a wait.
Typed(c) ==
    /\ request[c].step = "typing" /\ typed < MaxTyped
    /\ typed' = typed + 1
    /\ request' = [request EXCEPT ![c].step = "log"]
    /\ UNCHANGED <<clock, up, start, sessions, stored, saved, control, recent, log, admitted,
                   unlocked, out>>

\* send-keys failed: 500, and no line
TypeFails(c) ==
    /\ request[c].step = "typing"
    /\ request' = [request EXCEPT ![c] = NoRequest]
    /\ UNCHANGED <<clock, up, start, sessions, stored, saved, control, recent, typed, log,
                   admitted, unlocked, out>>

Log(c) ==
    /\ request[c].step = "log"
    /\ log' = log + 1
    /\ request' = [request EXCEPT ![c] = NoRequest]
    /\ UNCHANGED <<clock, up, start, sessions, stored, saved, control, recent, typed,
                   admitted, unlocked, out>>

GateNext ==
    \/ Tick \/ Launch \/ Die
    \/ \E s \in Sid : Create(s) \/ Revoke(s) \/ Evict(s) \/ \E c \in Request : Admit(c, s)
    \/ \E c \in Request :
        \/ Refuse(c) \/ CheckThenWait(c) \/ SetControl(c) \/ Effect(c) \/ Answer(c)
        \/ Inject(c) \/ RestartLoop(c) \/ Typed(c) \/ TypeFails(c) \/ Log(c)

GateSpec == GateInit /\ [][GateNext]_gate

-----------------------------------------------------------------------------
\* A restart forgets no session and brings none back: what is in memory is in
\* the file, unless the last write of it failed.
RestartKeepsSessions == up /\ saved => stored = sessions

\* However calls overlap, no Window has more than Budget admitted injections.
InjectBudget ==
    \A i \in DOMAIN admitted :
        Cardinality({j \in DOMAIN admitted :
                        admitted[j] <= admitted[i] /\ admitted[j] + Window > admitted[i]}) <= Budget

=============================================================================
