----------------------------- MODULE LaneStream -----------------------------
(***************************************************************************)
(* The bytes of one lane (spawn.py, server.py pane-stream).  tmux pipes    *)
(* the pane to a log, a tail task of the server reads the log and puts     *)
(* chunks into the bounded queue of every watcher; a watcher is first sent *)
(* the end of the log.  respawn() empties the queues and puts a sentinel   *)
(* there.  A byte is its position in the log.                              *)
(***************************************************************************)
EXTENDS Naturals, Sequences, FiniteSets

CONSTANTS
    Watcher,      \* connections to GET /api/v1/lane/{lane}/pane-stream
    MaxWatchers,  \* SSE_MAX_SUBSCRIBERS_PER_LANE
    QueueMax,     \* SSE_PER_SUBSCRIBER_QUEUE_MAXSIZE
    TailBytes,    \* TAIL_ON_CONNECT_BYTES
    MaxBytes,     \* bound: length of the log
    MaxRespawns   \* bound

ASSUME StreamAssumption ==
    /\ {MaxWatchers, QueueMax} \subseteq Nat \ {0}
    /\ {TailBytes, MaxBytes, MaxRespawns} \subseteq Nat

VARIABLES
    written,     \* length of the log
    pipe,        \* pipe-pane is attached
    read,        \* how much of the log the tail has fanned out
    tailing,     \* the tail task runs
    respawning,  \* where respawn() is
    respawns,    \* how often the pane was respawned
    phase,       \* of each client: "off", "open" (subscribed), "live", "leaked"
    queue,       \* of each client: chunks, as sets of bytes; {} is the sentinel
    sent,        \* history: the bytes a client was sent
    from,        \* history: what is before its replay
    dropped      \* history: the bytes that were taken out of its queue

stream == <<written, pipe, read, tailing, respawning, respawns, phase, queue,
            sent, from, dropped>>

StreamTypeOK ==
    /\ written \in 0..MaxBytes /\ read \in 0..written
    /\ pipe \in BOOLEAN /\ tailing \in BOOLEAN
    /\ respawning \in {"idle", "killed", "piped"} /\ respawns \in 0..MaxRespawns
    /\ phase \in [Watcher -> {"off", "open", "live", "leaked"}]
    /\ queue \in [Watcher -> Seq(SUBSET (1..MaxBytes))]
    /\ sent \in [Watcher -> SUBSET (1..MaxBytes)] /\ dropped \in [Watcher -> SUBSET (1..MaxBytes)]
    /\ from \in [Watcher -> 0..MaxBytes]

StreamInit ==
    /\ written = 0 /\ pipe = TRUE /\ read = 0 /\ tailing = TRUE
    /\ respawning = "idle" /\ respawns = 0
    /\ phase = [c \in Watcher |-> "off"] /\ queue = [c \in Watcher |-> <<>>]
    /\ sent = [c \in Watcher |-> {}] /\ from = [c \in Watcher |-> 0]
    /\ dropped = [c \in Watcher |-> {}]

Subscribers == {c \in Watcher : phase[c] # "off"}

-----------------------------------------------------------------------------
\* The process in the pane writes; without a pipe its bytes are lost.
Output ==
    /\ pipe /\ written < MaxBytes
    /\ written' = written + 1
    /\ UNCHANGED <<pipe, read, tailing, respawning, respawns, phase, queue, sent,
                   from, dropped>>

\* _tail_lane: a full queue loses its oldest chunk.
Put(q, chunk) ==
    Append(IF Len(q) < QueueMax THEN q ELSE Tail(q), chunk)

\* One chunk of _tail_lane, under subscribers_lock
FanOut ==
    /\ tailing /\ read < written
    /\ \E upto \in (read + 1)..written :
        LET chunk == (read + 1)..upto IN
        /\ read' = upto
        /\ queue' = [c \in Watcher |->
                        IF c \in Subscribers THEN Put(queue[c], chunk)
                        ELSE queue[c]]
        /\ dropped' = [c \in Watcher |->
                        IF c \in Subscribers /\ Len(queue[c]) = QueueMax
                        THEN dropped[c] \cup Head(queue[c]) ELSE dropped[c]]
    /\ UNCHANGED <<written, pipe, tailing, respawning, respawns, phase, sent, from>>

\* tail has ended: the task returns, nobody starts it again.
TailExits ==
    /\ tailing
    /\ tailing' = FALSE
    /\ UNCHANGED <<written, pipe, read, respawning, respawns, phase, queue, sent,
                   from, dropped>>

\* Another server takes over: it tails the log from its first byte.
Restart ==
    /\ respawning' = "idle"
    /\ pipe' = TRUE /\ read' = 0 /\ tailing' = TRUE
    /\ phase' = [c \in Watcher |-> "off"] /\ queue' = [c \in Watcher |-> <<>>]
    /\ sent' = [c \in Watcher |-> {}] /\ from' = [c \in Watcher |-> 0]
    /\ dropped' = [c \in Watcher |-> {}]
    /\ UNCHANGED <<written, respawns>>

-----------------------------------------------------------------------------
\* lane_pane_stream: subscribe(), or 503 when the lane is full
Connect(c) ==
    /\ phase[c] = "off" /\ Cardinality(Subscribers) < MaxWatchers
    /\ phase' = [phase EXCEPT ![c] = "open"]
    /\ UNCHANGED <<written, pipe, read, tailing, respawning, respawns, queue, sent,
                   from, dropped>>

\* Mutant: the log is read first, and subscribed to some time later.
ReplayThenSubscribe(c) ==
    /\ phase[c] = "open"
    /\ \E upto \in 0..written :
        LET start == IF upto > TailBytes THEN upto - TailBytes ELSE 0 IN
        /\ sent' = [sent EXCEPT ![c] = (start + 1)..upto]
        /\ from' = [from EXCEPT ![c] = start]
    /\ phase' = [phase EXCEPT ![c] = "live"]
    /\ queue' = [queue EXCEPT ![c] = <<>>]
    /\ UNCHANGED <<written, pipe, read, tailing, respawning, respawns, dropped>>

\* generate_lane_pane_stream_events: the end of the log, as it is now
Replay(c) ==
    /\ phase[c] = "open"
    /\ LET start == IF written > TailBytes THEN written - TailBytes ELSE 0 IN
        /\ sent' = [sent EXCEPT ![c] = (start + 1)..written]
        /\ from' = [from EXCEPT ![c] = start]
    /\ phase' = [phase EXCEPT ![c] = "live"]
    /\ UNCHANGED <<written, pipe, read, tailing, respawning, respawns, queue, dropped>>

Send(c) ==
    /\ phase[c] = "live" /\ queue[c] # <<>>
    /\ sent' = [sent EXCEPT ![c] = @ \cup Head(queue[c])]
    /\ queue' = [queue EXCEPT ![c] = Tail(@)]
    /\ UNCHANGED <<written, pipe, read, tailing, respawning, respawns, phase, from,
                   dropped>>

\* The client goes before its generator has begun: there is no finally to run,
\* and its queue stays among the subscribers.
Leak(c) ==
    /\ phase[c] = "open"
    /\ phase' = [phase EXCEPT ![c] = "leaked"]
    /\ UNCHANGED <<written, pipe, read, tailing, respawning, respawns, queue, sent,
                   from, dropped>>

\* The generator's finally: unsubscribe()
Disconnect(c) ==
    /\ phase[c] \in {"open", "live"}
    /\ phase' = [phase EXCEPT ![c] = "off"]
    /\ queue' = [queue EXCEPT ![c] = <<>>]
    /\ sent' = [sent EXCEPT ![c] = {}] /\ dropped' = [dropped EXCEPT ![c] = {}]
    /\ from' = [from EXCEPT ![c] = 0]
    /\ UNCHANGED <<written, pipe, read, tailing, respawning, respawns>>

-----------------------------------------------------------------------------
\* respawn(): tmux respawn-pane -k drops the pipe
RespawnKill ==
    /\ respawning = "idle" /\ respawns < MaxRespawns
    /\ pipe' = FALSE
    /\ respawning' = "killed" /\ respawns' = respawns + 1
    /\ UNCHANGED <<written, read, tailing, phase, queue, sent, from, dropped>>

PipePane ==
    /\ respawning = "killed"
    /\ pipe' = TRUE
    /\ respawning' = "piped"
    /\ UNCHANGED <<written, read, tailing, respawns, phase, queue, sent, from, dropped>>

\* The pipe did not attach: respawn() raises and the queues stay.
PipeFails ==
    /\ respawning \in {"killed", "piped"}
    /\ pipe' = FALSE
    /\ respawning' = "idle"
    /\ UNCHANGED <<written, read, tailing, respawns, phase, queue, sent, from, dropped>>

DrainAndPush ==
    /\ respawning = "piped"
    /\ queue' = [c \in Watcher |-> IF c \in Subscribers THEN <<{}>> ELSE queue[c]]
    /\ dropped' = [c \in Watcher |->
                    dropped[c] \cup UNION {queue[c][i] : i \in DOMAIN queue[c]}]
    /\ respawning' = "idle"
    /\ UNCHANGED <<written, pipe, read, tailing, respawns, phase, sent, from>>

StreamServer == FanOut \/ \E c \in Watcher : Replay(c) \/ Send(c)

StreamNext ==
    \/ Output \/ StreamServer \/ TailExits \/ Restart
    \/ \E c \in Watcher : Connect(c) \/ Disconnect(c) \/ Leak(c)
    \/ RespawnKill \/ PipePane \/ PipeFails \/ DrainAndPush

StreamSpec == StreamInit /\ [][StreamNext]_stream

-----------------------------------------------------------------------------
\* A watcher misses no byte: from the beginning of its replay on, every byte
\* of the log was sent to it, waits in its queue, is still to be fanned out or
\* was dropped from its own queue (a slow watcher, or a respawn).
NothingMissed ==
    \A c \in Watcher : phase[c] = "live" =>
        \A b \in (from[c] + 1)..written :
            \/ b \in sent[c] \cup dropped[c] \/ b > read
            \/ \E i \in DOMAIN queue[c] : b \in queue[c][i]

=============================================================================
