-------------------------- MODULE NarratorRuntime --------------------------
(***************************************************************************)
(* narrator/runtime.py: a llama-server child under a supervisor task that  *)
(* polls its /health, starts it again when it exited, and gives up after   *)
(* MaxFailures exits without a healthy poll.  Another server may hold the  *)
(* port; the child then exits, sooner or later.                            *)
(***************************************************************************)
EXTENDS Naturals

CONSTANT MaxFailures  \* max_consecutive_failures

ASSUME RuntimeAssumption == MaxFailures \in Nat \ {0}

VARIABLES
    life,      \* of the runtime: "new", "up", then the stages of stop()
    client,    \* the httpx client is open
    owns,      \* _owns_child
    proc,      \* the child: "none", "loading", "serving" or "exited"
    foreign,   \* another server listens on the port
    sup,       \* where the supervisor task is
    answer,    \* of /health
    respawns,  \* consecutive_respawns
    ready,     \* _ready
    born       \* history: children since the last healthy poll

runtime == <<life, client, owns, proc, foreign, sup, answer, respawns, ready,
             born>>

RuntimeTypeOK ==
    /\ life \in {"new", "up", "cancel", "close", "stopped", "raised"}
    /\ client \in BOOLEAN /\ owns \in BOOLEAN /\ foreign \in BOOLEAN
    /\ proc \in {"none", "loading", "serving", "exited"}
    /\ proc # "none" => owns
    /\ ~(proc = "serving" /\ foreign)
    /\ sup \in {"off", "poll", "polled", "sleep", "backoff", "spawn", "done",
                "failed", "cancelled"}
    /\ answer \in BOOLEAN /\ ready \in BOOLEAN
    /\ respawns \in 0..MaxFailures /\ born \in 0..(MaxFailures + 1)

RuntimeInit ==
    /\ life = "new" /\ client = FALSE /\ owns = FALSE
    /\ proc = "none" /\ foreign \in BOOLEAN
    /\ sup = "off" /\ answer = FALSE /\ respawns = 0 /\ ready = FALSE
    /\ born = 0

Running == {"loading", "serving"}

-----------------------------------------------------------------------------
\* The child and the port (external)

Listens ==
    /\ proc = "loading" /\ ~foreign
    /\ proc' = "serving"
    /\ UNCHANGED <<life, client, owns, foreign, sup, answer, respawns, ready,
                   born>>

Exits ==
    /\ proc \in Running
    /\ proc' = "exited"
    /\ UNCHANGED <<life, client, owns, foreign, sup, answer, respawns, ready,
                   born>>

PortChanges ==
    /\ proc # "serving"
    /\ foreign' = ~foreign
    /\ UNCHANGED <<life, client, owns, proc, sup, answer, respawns, ready, born>>

-----------------------------------------------------------------------------
\* start(): without a model file, with MEGALODON_NARRATOR_URL, or when the
\* binary cannot be run, there is no child to look after.
StartRuntime(child) ==
    /\ life = "new"
    /\ life' = "up" /\ client' = TRUE
    /\ owns' = child
    /\ proc' = IF child THEN "loading" ELSE "none"
    /\ born' = IF child THEN 1 ELSE 0
    /\ sup' = "poll"
    /\ UNCHANGED <<foreign, answer, respawns, ready>>

\* healthy(): whoever listens answers, or does not within the timeout.
Poll ==
    /\ sup = "poll"
    /\ answer' \in {FALSE, proc = "serving" \/ foreign}
    /\ sup' = "polled"
    /\ UNCHANGED <<life, client, owns, proc, foreign, respawns, ready, born>>

ChildExited == owns /\ proc \notin Running

PollPassed ==
    /\ sup = "polled" /\ answer
    /\ ready' = ~ChildExited
    /\ respawns' = 0 /\ born' = 0
    /\ sup' = "sleep"
    /\ UNCHANGED <<life, client, owns, proc, foreign, answer>>

PollFailed ==
    /\ sup = "polled" /\ ~answer /\ ~ChildExited
    /\ ready' = FALSE
    /\ sup' = "sleep"
    /\ UNCHANGED <<life, client, owns, proc, foreign, answer, respawns, born>>

\* Mutant: one respawn more.
PollFoundExitedLate ==
    /\ sup = "polled" /\ ~answer /\ ChildExited
    /\ ready' = FALSE
    /\ IF respawns >= MaxFailures
       THEN sup' = "done" /\ UNCHANGED <<proc, respawns>>
       ELSE sup' = "backoff" /\ proc' = "none" /\ respawns' = respawns + 1
    /\ UNCHANGED <<life, client, owns, foreign, answer, born>>

\* The only failure that counts.  At the ceiling the supervisor returns.
PollFoundExited ==
    /\ sup = "polled" /\ ~answer /\ ChildExited
    /\ ready' = FALSE
    /\ respawns' = respawns + 1
    /\ IF respawns' >= MaxFailures
       THEN sup' = "done" /\ UNCHANGED proc
       ELSE sup' = "backoff" /\ proc' = "none"
    /\ UNCHANGED <<life, client, owns, foreign, answer, born>>

Stopping == life \notin {"new", "up"}

Wake ==
    /\ sup = "sleep"
    /\ sup' = IF Stopping THEN "done" ELSE "poll"
    /\ UNCHANGED <<life, client, owns, proc, foreign, answer, respawns, ready,
                   born>>

BackoffEnds ==
    /\ sup = "backoff"
    /\ sup' = IF Stopping THEN "done" ELSE "spawn"
    /\ UNCHANGED <<life, client, owns, proc, foreign, answer, respawns, ready,
                   born>>

Spawned ==
    /\ sup = "spawn"
    /\ proc' = "loading" /\ born' = born + 1
    /\ sup' = "poll"
    /\ UNCHANGED <<life, client, owns, foreign, answer, respawns, ready>>

\* An OSError of the respawn is caught nowhere: the supervisor task ends.
SpawnFails ==
    /\ sup = "spawn"
    /\ sup' = "failed"
    /\ UNCHANGED <<life, client, owns, proc, foreign, answer, respawns, ready,
                   born>>

-----------------------------------------------------------------------------
\* Mutant: stop() relies on the supervisor to look at _stopped.
CancelUnheeded ==
    /\ life' = "cancel" /\ ready' = FALSE
    /\ UNCHANGED <<client, owns, proc, foreign, sup, answer, respawns, born>>

\* stop(): the supervisor is cancelled at whatever it awaits; a child that is
\* being started dies with its transport.
Cancel ==
    /\ life' = "cancel" /\ ready' = FALSE
    /\ sup' = IF sup \in {"done", "failed"} THEN sup ELSE "cancelled"
    /\ UNCHANGED <<client, owns, proc, foreign, answer, respawns, born>>

\* Awaiting a supervisor that ended with an OSError raises it again.
StopRaises ==
    /\ life = "cancel" /\ sup = "failed"
    /\ life' = "raised"
    /\ UNCHANGED <<client, owns, proc, foreign, sup, answer, respawns, ready,
                   born>>

\* _reap: terminate, wait, kill
Reap ==
    /\ life = "cancel" /\ sup # "failed"
    /\ proc' = "none"
    /\ life' = "close"
    /\ UNCHANGED <<client, owns, foreign, sup, answer, respawns, ready, born>>

CloseClient ==
    /\ life = "close"
    /\ client' = FALSE
    /\ life' = "stopped"
    /\ UNCHANGED <<owns, proc, foreign, sup, answer, respawns, ready, born>>

Supervise ==
    \/ Poll \/ PollPassed \/ PollFailed \/ PollFoundExited \/ Wake
    \/ BackoffEnds \/ Spawned \/ SpawnFails

Outside == Listens \/ Exits \/ PortChanges

StopRuntime == StopRaises \/ Reap \/ CloseClient

-----------------------------------------------------------------------------
\* CV-6 and PM-3: however health polls, exits and respawns interleave, at
\* most MaxFailures children are started without a healthy poll.
RespawnsAreBounded == born <= MaxFailures

\* stop() leaves no child behind, also when it comes while one is being
\* started again.
NoChildAfterStop ==
    life \in {"close", "stopped", "raised"} => proc \notin Running

=============================================================================
