-------------------------------- MODULE Fleet --------------------------------
(***************************************************************************)
(* The fleet: the server starts one tmux session per lane (spawn.py), or   *)
(* finds the session of an earlier server, and tells the operator which    *)
(* lanes run under the governor.                                           *)
(*                                                                         *)
(* tmux and the processes in its panes outlive the server; the server can  *)
(* die between any two of its tmux commands.  What a new server knows of a *)
(* pane is what tmux and the marker file .fleet/<lane>.governed tell it.   *)
(* The mission file (which lanes, governor on or off) and the governor's   *)
(* settings change between two servers; the settings at any time.          *)
(***************************************************************************)
EXTENDS Naturals

CONSTANTS Lane, Settings, None

ASSUME FleetAssumption == None \notin Settings

VARIABLES
    sess,     \* tmux: "none", "bare" or "owned" (MEGALODON_FLEET_OWNED=1)
    regime,   \* the settings the process in the pane was born with, or None
    alive,    \* remain-on-exit keeps the pane of a process that is dead
    piped,    \* pipe-pane is on
    marker,   \* .fleet/<lane>.governed: the settings' fingerprint, or None
    settings, \* the content of governor-settings.json
    mode,     \* where the server is
    cfg,      \* the lanes of its mission file
    enabled,  \* ... and the governor's kill-switch
    todo,     \* the sessions start_all has not looked at yet
    job,      \* where each lane's _spawn_one is
    respawn,  \* where each lane's respawn is
    spawned,  \* the lanes start_all cleans up when it fails
    known,    \* the keys of self.sessions
    running, governed,  \* of each LaneSession
    told,     \* history: the marker was brought up to date for this process
    refused   \* history: the lanes whose last pipe-pane tmux refused to this
              \* server, none of them piped

tmux == <<sess, regime, alive, piped>>
disk == <<marker, settings>>
memory == <<known, running, governed>>
server == <<mode, cfg, enabled, todo, job, respawn, spawned, memory>>
history == <<told, refused>>
vars == <<tmux, disk, server, history>>

TypeOK ==
    /\ sess \in [Lane -> {"none", "bare", "owned"}]
    /\ regime \in [Lane -> Settings \cup {None}]
    /\ alive \in [Lane -> BOOLEAN] /\ piped \in [Lane -> BOOLEAN]
    /\ marker \in [Lane -> Settings \cup {None}]
    /\ settings \in Settings
    /\ mode \in {"down", "scan", "spawn", "up", "cleanup", "stop"}
    /\ cfg \subseteq Lane /\ enabled \in BOOLEAN
    /\ todo \subseteq Lane /\ spawned \subseteq known /\ known \subseteq Lane
    /\ job \in [Lane -> {"none", "new", "own", "mark", "pipe", "failed"}]
    /\ respawn \in [Lane -> {"none", "kill", "pipe", "mark"}]
    /\ running \in [Lane -> BOOLEAN] /\ governed \in [Lane -> BOOLEAN]
    /\ told \in [Lane -> BOOLEAN] /\ refused \subseteq Lane

Off == [l \in Lane |-> FALSE]
Nowhere == [l \in Lane |-> "none"]

Init ==
    /\ sess = Nowhere /\ regime = [l \in Lane |-> None]
    /\ alive = Off /\ piped = Off
    /\ marker = [l \in Lane |-> None] /\ settings \in Settings
    /\ mode = "down" /\ cfg = {} /\ enabled = FALSE
    /\ todo = {} /\ job = Nowhere /\ respawn = Nowhere /\ spawned = {}
    /\ known = {} /\ running = Off /\ governed = Off
    /\ told = Off /\ refused = {}

-----------------------------------------------------------------------------
\* tmux (external)

\* argv carries --settings exactly when the governor is on (governor_kwargs).
Argv == IF enabled THEN settings ELSE None

Birth(l, how) ==
    /\ regime' = [regime EXCEPT ![l] = how]
    /\ alive' = [alive EXCEPT ![l] = TRUE]
    /\ piped' = [piped EXCEPT ![l] = FALSE]
    /\ told' = [told EXCEPT ![l] = FALSE]
    /\ refused' = refused \ {l}

Kill(L) ==
    /\ sess' = [l \in Lane |-> IF l \in L THEN "none" ELSE sess[l]]
    /\ regime' = [l \in Lane |-> IF l \in L THEN None ELSE regime[l]]
    /\ alive' = [l \in Lane |-> alive[l] /\ l \notin L]
    /\ piped' = [l \in Lane |-> piped[l] /\ l \notin L]

\* A session of the operator's own, named like a lane.
OperatorSession(l) ==
    /\ sess[l] = "none" /\ mode # "stop"
    /\ sess' = [sess EXCEPT ![l] = "bare"]
    /\ Birth(l, None)
    /\ UNCHANGED <<disk, server>>

ProcessExits(l) ==
    /\ alive[l]
    /\ alive' = [alive EXCEPT ![l] = FALSE]
    /\ UNCHANGED <<sess, regime, piped, disk, server, history>>

EditSettings ==
    /\ settings' \in Settings \ {settings}
    /\ UNCHANGED <<tmux, marker, server, history>>

-----------------------------------------------------------------------------
\* start_all

\* The process exits: nothing of its memory is left.
Exit ==
    /\ mode' = "down" /\ cfg' = {} /\ enabled' = FALSE
    /\ todo' = {} /\ job' = Nowhere /\ respawn' = Nowhere /\ spawned' = {}
    /\ known' = {} /\ running' = Off /\ governed' = Off
    /\ refused' = {}

\* The governor's preflight and canary come first; list_sessions.
Start(lanes, on) ==
    /\ mode = "down"
    /\ mode' = "scan" /\ cfg' = lanes /\ enabled' = on
    /\ todo' = {l \in Lane : sess[l] # "none"}
    /\ UNCHANGED <<tmux, disk, job, respawn, spawned, memory, history>>

LeaveAlone(l) ==
    /\ mode = "scan" /\ l \in todo /\ sess[l] # "owned"
    /\ todo' = todo \ {l}
    /\ UNCHANGED <<tmux, disk, mode, cfg, enabled, job, respawn, spawned,
                   memory, history>>

MarkerValid(l) == marker[l] = settings

\* Mutant: the command line decides, which says nothing of an old process.
ReattachByArgv(l) ==
    /\ mode = "scan" /\ l \in todo /\ sess[l] = "owned" /\ l \in cfg
    /\ todo' = todo \ {l}
    /\ known' = known \cup {l}
    /\ running' = [running EXCEPT ![l] = TRUE]
    /\ governed' = [governed EXCEPT ![l] = enabled]
    /\ piped' = [piped EXCEPT ![l] = TRUE]
    /\ UNCHANGED <<sess, regime, alive, disk, mode, cfg, enabled, job, respawn,
                   spawned, history>>

\* Mutant: a session that was found is taken to be piped.
ReattachUnpiped(l) ==
    /\ mode = "scan" /\ l \in todo /\ sess[l] = "owned" /\ l \in cfg
    /\ todo' = todo \ {l}
    /\ known' = known \cup {l}
    /\ running' = [running EXCEPT ![l] = TRUE]
    /\ governed' = [governed EXCEPT ![l] = MarkerValid(l)]
    /\ UNCHANGED <<tmux, disk, mode, cfg, enabled, job, respawn, spawned, history>>

\* tmux pipe-pane may fail; start_all and _spawn_one do not look.
Wire(l) ==
    \/ piped' = [piped EXCEPT ![l] = TRUE] /\ refused' = refused \ {l}
    \/ UNCHANGED piped /\ refused' = refused \cup {l}

\* Only a pane without a pipe is piped again.
Reattach(l) ==
    /\ mode = "scan" /\ l \in todo /\ sess[l] = "owned" /\ l \in cfg
    /\ todo' = todo \ {l}
    /\ known' = known \cup {l}
    /\ running' = [running EXCEPT ![l] = TRUE]
    /\ governed' = [governed EXCEPT ![l] = MarkerValid(l)]
    /\ IF piped[l] THEN UNCHANGED <<piped, refused>> ELSE Wire(l)
    /\ UNCHANGED <<sess, regime, alive, disk, mode, cfg, enabled, job, respawn,
                   spawned, told>>

\* Mutant: every session that is not configured is an orphan.
PurgeAll(l) ==
    /\ mode = "scan" /\ l \in todo /\ l \notin cfg
    /\ todo' = todo \ {l}
    /\ Kill({l})
    /\ UNCHANGED <<disk, mode, cfg, enabled, job, respawn, spawned, memory,
                   history>>

Purge(l) ==
    /\ mode = "scan" /\ l \in todo /\ sess[l] = "owned" /\ l \notin cfg
    /\ todo' = todo \ {l}
    /\ Kill({l})
    /\ UNCHANGED <<disk, mode, cfg, enabled, job, respawn, spawned, memory,
                   history>>

\* The lanes without a session get a LaneSession and a _spawn_one each.
Build ==
    /\ mode = "scan" /\ todo = {}
    /\ LET new == cfg \ known IN
        /\ known' = known \cup new
        /\ governed' = [l \in Lane |-> IF l \in new THEN enabled ELSE governed[l]]
        /\ job' = [l \in Lane |-> IF l \in new THEN "new" ELSE job[l]]
    /\ mode' = "spawn"
    /\ UNCHANGED <<tmux, disk, cfg, enabled, todo, respawn, spawned, running,
                   history>>

-----------------------------------------------------------------------------
\* _spawn_one.  gather does not stop the others when one of them fails.

At(l, point) == mode \in {"spawn", "cleanup"} /\ job[l] = point

Goto(l, point) == job' = [job EXCEPT ![l] = point]

NewSession(l) ==
    /\ At(l, "new") /\ sess[l] = "none"
    /\ sess' = [sess EXCEPT ![l] = "bare"]
    /\ Birth(l, Argv)
    /\ Goto(l, "own")
    /\ UNCHANGED <<disk, mode, cfg, enabled, todo, respawn, spawned, memory>>

\* "duplicate session", or any other failure of the two commands of new_session
NewSessionFails(l) ==
    /\ At(l, "new") \/ At(l, "own")
    /\ Goto(l, "failed")
    /\ UNCHANGED <<tmux, disk, mode, cfg, enabled, todo, respawn, spawned,
                   memory, history>>

SetOwned(l) ==
    /\ At(l, "own") /\ sess[l] = "bare"
    /\ sess' = [sess EXCEPT ![l] = "owned"]
    /\ running' = [running EXCEPT ![l] = TRUE]
    /\ spawned' = spawned \cup {l}
    /\ Goto(l, "mark")
    /\ UNCHANGED <<regime, alive, piped, disk, mode, cfg, enabled, todo,
                   respawn, known, governed, history>>

\* write_governed_marker or remove_governed_marker
Mark(l) ==
    /\ marker' = [marker EXCEPT ![l] = IF governed'[l] THEN settings ELSE None]
    /\ told' = [told EXCEPT ![l] = TRUE]

SpawnMark(l) ==
    /\ At(l, "mark")
    /\ governed' = governed
    /\ Mark(l)
    /\ Goto(l, "pipe")
    /\ UNCHANGED <<tmux, settings, mode, cfg, enabled, todo, respawn, spawned,
                   known, running, refused>>

SpawnPipe(l) ==
    /\ At(l, "pipe")
    /\ Wire(l)
    /\ Goto(l, "none")
    /\ UNCHANGED <<sess, regime, alive, disk, mode, cfg, enabled, todo, respawn,
                   spawned, memory, told>>

StartupComplete ==
    /\ mode = "spawn" /\ job = Nowhere
    /\ mode' = "up" /\ spawned' = {}
    /\ UNCHANGED <<tmux, disk, cfg, enabled, todo, job, respawn, memory, history>>

\* The first failure ends the gather; what has been spawned so far is killed,
\* and the exception ends the server.
StartFails ==
    /\ mode = "spawn" /\ \E l \in Lane : job[l] = "failed"
    /\ mode' = "cleanup"
    /\ todo' = spawned
    /\ UNCHANGED <<tmux, disk, cfg, enabled, job, respawn, spawned, memory, history>>

CleanupEnd ==
    /\ mode = "cleanup"
    /\ Kill(todo)
    /\ Exit
    /\ UNCHANGED <<disk, told>>

\* wait_for gives up: the lanes' coroutines are cancelled, too.
StartTimeout ==
    /\ mode \in {"scan", "spawn"}
    /\ mode' = "stop" /\ job' = Nowhere
    /\ UNCHANGED <<tmux, disk, cfg, enabled, todo, respawn, spawned, memory, history>>

-----------------------------------------------------------------------------
\* The running server

\* GET /api/v1/lane/{lane}/state
LaneState(l) ==
    /\ mode = "up" /\ l \in known
    /\ sess[l] # "none" /\ ~alive[l]
    /\ running' = [running EXCEPT ![l] = FALSE]
    /\ UNCHANGED <<tmux, disk, mode, cfg, enabled, todo, job, respawn, spawned,
                   known, governed, history>>

\* POST /api/v1/lane/{lane}/followup
Followup(l) ==
    /\ mode = "up" /\ l \in known /\ respawn[l] = "none"
    /\ respawn' = [respawn EXCEPT ![l] = "kill"]
    /\ UNCHANGED <<tmux, disk, mode, cfg, enabled, todo, job, spawned, memory,
                   history>>

RespawnPane(l) ==
    /\ respawn[l] = "kill" /\ sess[l] # "none"
    /\ Birth(l, Argv)
    /\ respawn' = [respawn EXCEPT ![l] = "pipe"]
    /\ UNCHANGED <<sess, disk, mode, cfg, enabled, todo, job, spawned, memory>>

RespawnPipe(l) ==
    /\ respawn[l] = "pipe" /\ sess[l] # "none"
    /\ piped' = [piped EXCEPT ![l] = TRUE] /\ refused' = refused \ {l}
    /\ respawn' = [respawn EXCEPT ![l] = "mark"]
    /\ UNCHANGED <<sess, regime, alive, disk, mode, cfg, enabled, todo, job,
                   spawned, memory, told>>

\* RuntimeError: respawn-pane fails and leaves the lane as it was, or the pipe
\* does not attach to the new process. The marker and what the server knows
\* of the lane are then still those of the old one.
RespawnFails(l) ==
    /\ respawn[l] \in {"kill", "pipe"}
    /\ refused' = IF respawn[l] = "pipe" THEN refused \cup {l} ELSE refused
    /\ respawn' = [respawn EXCEPT ![l] = "none"]
    /\ UNCHANGED <<tmux, disk, mode, cfg, enabled, todo, job, spawned, memory,
                   told>>

\* argv_is_governed: this is the command line the process was born with.
RespawnMark(l) ==
    /\ respawn[l] = "mark"
    /\ governed' = [governed EXCEPT ![l] = enabled]
    /\ Mark(l)
    /\ respawn' = [respawn EXCEPT ![l] = "none"]
    /\ UNCHANGED <<tmux, settings, mode, cfg, enabled, todo, job, spawned, known,
                   running, refused>>

\* DELETE /api/v1/fleet: kill-server, then a shutdown
DeleteFleet ==
    /\ mode = "up"
    /\ Kill(Lane)
    /\ mode' = "stop"
    /\ UNCHANGED <<disk, cfg, enabled, todo, job, respawn, spawned, memory, history>>

Shutdown ==
    /\ mode = "up"
    /\ mode' = "stop"
    /\ UNCHANGED <<tmux, disk, cfg, enabled, todo, job, respawn, spawned, memory,
                   history>>

StopAll ==
    /\ mode = "stop"
    /\ Kill({l \in known : running[l]})
    /\ Exit
    /\ UNCHANGED <<disk, told>>

Crash ==
    /\ mode # "down"
    /\ Exit
    /\ UNCHANGED <<tmux, disk, told>>

-----------------------------------------------------------------------------
ServerStep ==
    \/ Build \/ StartupComplete \/ StartFails \/ CleanupEnd \/ StartTimeout
    \/ DeleteFleet \/ Shutdown \/ StopAll
    \/ \E l \in Lane :
        \/ LeaveAlone(l) \/ Reattach(l) \/ Purge(l)
        \/ NewSession(l) \/ NewSessionFails(l) \/ SetOwned(l)
        \/ SpawnMark(l) \/ SpawnPipe(l)
        \/ LaneState(l) \/ Followup(l) \/ RespawnPane(l) \/ RespawnPipe(l)
        \/ RespawnFails(l) \/ RespawnMark(l)

Next ==
    \/ ServerStep \/ Crash \/ EditSettings
    \/ \E lanes \in SUBSET Lane \ {{}}, on \in BOOLEAN : Start(lanes, on)
    \/ \E l \in Lane : OperatorSession(l) \/ ProcessExits(l)

Spec == Init /\ [][Next]_vars

-----------------------------------------------------------------------------
\* A lane that is shown as governed has a process that was born under the
\* governor, through crashes, reattachments, respawns, and changes of the
\* settings and of the kill-switch.  The exception is the process whose birth
\* the marker has not caught up with.
GovernedIsBorn ==
    mode = "up" => \A l \in known :
        governed[l] /\ told[l] /\ sess[l] # "none" /\ respawn[l] = "none"
            => regime[l] # None

\* "A stale governed marker can never outlive the governed regime it
\* described" (remove_governed_marker): no exception.
FailsTowardUngoverned ==
    mode = "up" => \A l \in known :
        governed[l] /\ sess[l] # "none" /\ respawn[l] = "none"
            => regime[l] # None

\* The bytes of every lane of a running server reach its stream log, also
\* after a server died before it had wired the lane, or had been refused: the
\* exceptions are the lanes tmux refused to pipe in this server's own life,
\* which nobody tries again before the next respawn or server.
LaneIsPiped ==
    mode = "up" => \A l \in known \ refused :
        sess[l] # "none" /\ respawn[l] = "none" => piped[l]

\* A session without the fleet's mark is the operator's: only the kill-switch
\* ends it.
ManualSessionsLive ==
    [][\A l \in Lane : sess[l] = "bare" /\ sess'[l] = "none"
            => mode = "up" /\ mode' = "stop"]_vars

=============================================================================
