---------------------------- MODULE FleetProofs ----------------------------
(***************************************************************************)
(* The fleet for any set of lanes and any contents of the governor's       *)
(* settings.                                                               *)
(***************************************************************************)
EXTENDS Fleet, TLAPS

\* Who is at work on a lane, and in which life of the server.
JobInv(l) ==
    /\ job[l] # "none" => l \in known /\ mode \in {"spawn", "cleanup"}
    /\ respawn[l] # "none" => l \in known /\ mode \in {"up", "stop"}
    /\ l \in spawned => mode \in {"spawn", "cleanup", "stop"}
    /\ running[l] => l \in known

\* A server that starts or runs has found or made the session of every lane
\* that _spawn_one is not still busy with, and marked it as the fleet's.
SessionInv(l) ==
    /\ job[l] = "own" => sess[l] # "none"
    /\ mode \in {"scan", "spawn", "up"} /\ l \in known
            /\ job[l] = "none" => sess[l] = "owned"
    /\ job[l] \in {"mark", "pipe"} => sess[l] = "owned"
    /\ running[l] => sess[l] = "owned" \/ (mode = "stop" /\ sess[l] = "none")
    /\ l \in spawned => sess[l] = "owned"

PipeInv(l) ==
    mode \in {"scan", "spawn", "up"} /\ l \in known /\ job[l] = "none"
            /\ respawn[l] # "pipe" /\ l \notin refused => piped[l]

\* What is known of the process in a lane's pane: a marker that was written
\* for it tells the truth, and so does the server's memory.
RegimeInv(l) ==
    /\ told[l] /\ sess[l] # "none" /\ marker[l] # None => regime[l] # None
    /\ job[l] \in {"new", "own", "mark", "pipe"} => governed[l] = enabled
    /\ job[l] \in {"own", "mark", "pipe"} /\ enabled => regime[l] # None
    /\ respawn[l] \in {"pipe", "mark"} /\ sess[l] # "none" /\ enabled =>
            regime[l] # None
    /\ mode \in {"scan", "spawn", "up"} /\ l \in known /\ governed[l] /\ told[l]
            /\ respawn[l] \in {"none", "kill"} /\ job[l] = "none" => regime[l] # None
    /\ respawn[l] \in {"pipe", "mark"} => ~told[l]

FleetInv ==
    /\ TypeOK
    /\ mode = "down" => known = {}
    /\ mode = "scan" => known \subseteq cfg
    /\ mode = "cleanup" => todo \subseteq spawned
    /\ \A l \in Lane : JobInv(l) /\ SessionInv(l) /\ PipeInv(l) /\ RegimeInv(l)

-----------------------------------------------------------------------------
\* A lane that is found is taken for governed only with a marker.
LEMMA ReattachTrusts ==
    ASSUME TypeOK, NEW k \in Lane, Reattach(k)
    PROVE  governed'[k] => marker[k] # None
<1>1. governed \in [Lane -> BOOLEAN] /\ settings # None
  BY FleetAssumption DEF TypeOK
<1>2. governed' = [governed EXCEPT ![k] = MarkerValid(k)] /\ MarkerValid(k) \in BOOLEAN
  BY DEF Reattach, MarkerValid
<1>3. governed'[k] = MarkerValid(k)
  BY <1>1, <1>2
<1> QED BY <1>1, <1>3 DEF MarkerValid

\* No step of the server, of tmux or of the operator breaks a type.
LEMMA TypeStep ==
    ASSUME TypeOK, \A l \in Lane : JobInv(l), [Next]_vars
    PROVE  TypeOK'
<1> USE FleetAssumption DEF TypeOK, JobInv, tmux, disk, server, memory, history
<1>1. CASE Build
  BY <1>1 DEF Build
<1>2. CASE StartupComplete
  BY <1>2 DEF StartupComplete, Nowhere
<1>3. CASE StartFails
  BY <1>3 DEF StartFails
<1>4. CASE CleanupEnd
  BY <1>4 DEF CleanupEnd, Kill, Exit, Off, Nowhere
<1>5. CASE StartTimeout
  BY <1>5 DEF StartTimeout, Nowhere
<1>6. CASE DeleteFleet
  BY <1>6 DEF DeleteFleet, Kill
<1>7. CASE Shutdown
  BY <1>7 DEF Shutdown
<1>8. CASE StopAll
  BY <1>8 DEF StopAll, Kill, Exit, Off, Nowhere
<1>9. CASE Crash
  BY <1>9 DEF Crash, Exit, Off, Nowhere
<1>10. CASE EditSettings
  BY <1>10 DEF EditSettings
<1>11. ASSUME NEW lanes \in SUBSET Lane, NEW on \in BOOLEAN, Start(lanes, on)
      PROVE  TypeOK'
  BY <1>11 DEF Start
<1>12. ASSUME NEW k \in Lane, LeaveAlone(k) PROVE TypeOK'
  BY <1>12 DEF LeaveAlone
<1>13. ASSUME NEW k \in Lane, Reattach(k) PROVE TypeOK'
  <2>1. piped' \in [Lane -> BOOLEAN] /\ refused' \subseteq Lane
    <3>1. CASE piped[k]
      BY <1>13, <3>1 DEF Reattach
    <3>2. CASE ~piped[k]
      <4>1. piped' = [piped EXCEPT ![k] = TRUE] \/ piped' = piped
        BY <1>13, <3>2 DEF Reattach, Wire
      <4>2. refused' = refused \ {k} \/ refused' = refused \cup {k}
        BY <1>13, <3>2 DEF Reattach, Wire
      <4> QED BY <4>1, <4>2
    <3> QED BY <3>1, <3>2
  <2> QED BY <1>13, <2>1 DEF Reattach, MarkerValid
<1>14. ASSUME NEW k \in Lane, Purge(k) PROVE TypeOK'
  BY <1>14 DEF Purge, Kill
<1>15. ASSUME NEW k \in Lane, NewSession(k) PROVE TypeOK'
  BY <1>15 DEF NewSession, At, Goto, Birth, Argv
<1>16. ASSUME NEW k \in Lane, NewSessionFails(k) PROVE TypeOK'
  BY <1>16 DEF NewSessionFails, At, Goto
<1>17. ASSUME NEW k \in Lane, SetOwned(k) PROVE TypeOK'
  BY <1>17 DEF SetOwned, At, Goto
<1>18. ASSUME NEW k \in Lane, SpawnMark(k) PROVE TypeOK'
  BY <1>18 DEF SpawnMark, At, Goto, Mark
<1>19. ASSUME NEW k \in Lane, SpawnPipe(k) PROVE TypeOK'
  BY <1>19 DEF SpawnPipe, Wire, At, Goto
<1>20. ASSUME NEW k \in Lane, LaneState(k) PROVE TypeOK'
  BY <1>20 DEF LaneState
<1>21. ASSUME NEW k \in Lane, Followup(k) PROVE TypeOK'
  BY <1>21 DEF Followup
<1>22. ASSUME NEW k \in Lane, RespawnPane(k) PROVE TypeOK'
  BY <1>22 DEF RespawnPane, Birth, Argv
<1>23. ASSUME NEW k \in Lane, RespawnPipe(k) PROVE TypeOK'
  BY <1>23 DEF RespawnPipe
<1>24. ASSUME NEW k \in Lane, RespawnFails(k) PROVE TypeOK'
  BY <1>24 DEF RespawnFails
<1>25. ASSUME NEW k \in Lane, RespawnMark(k) PROVE TypeOK'
  BY <1>25 DEF RespawnMark, Mark
<1>26. ASSUME NEW k \in Lane, OperatorSession(k) PROVE TypeOK'
  BY <1>26 DEF OperatorSession, Birth
<1>27. ASSUME NEW k \in Lane, ProcessExits(k) PROVE TypeOK'
  BY <1>27 DEF ProcessExits
<1>28. CASE UNCHANGED vars
  BY <1>28 DEF vars
<1> HIDE FleetAssumption DEF TypeOK, JobInv, tmux, disk, server, memory, history
<1> QED
  BY <1>1, <1>2, <1>3, <1>4, <1>5, <1>6, <1>7, <1>8, <1>9, <1>10,
     <1>11, <1>12, <1>13, <1>14, <1>15, <1>16, <1>17, <1>18, <1>19,
     <1>20, <1>21, <1>22, <1>23, <1>24, <1>25, <1>26, <1>27, <1>28 DEF Next, ServerStep

\* Every step keeps what FleetInv says of each lane: its job, its session,
\* its pipe and the regime of its process.
LEMMA FleetStep ==
    ASSUME FleetInv, [Next]_vars
    PROVE  FleetInv'
<1>0. TypeOK /\ TypeOK'
  BY TypeStep DEF FleetInv
<1> USE <1>0, FleetAssumption
    DEF FleetInv, TypeOK, JobInv, SessionInv, PipeInv, RegimeInv, tmux, disk,
        server, memory, history
<1>1. CASE Build
  BY <1>1 DEF Build
<1>2. CASE StartupComplete
  BY <1>2 DEF StartupComplete, Nowhere
<1>3. CASE StartFails
  BY <1>3 DEF StartFails
<1>4. CASE CleanupEnd
  BY <1>4 DEF CleanupEnd, Kill, Exit, Off, Nowhere
<1>5. CASE StartTimeout
  BY <1>5 DEF StartTimeout, Nowhere
<1>6. CASE DeleteFleet
  BY <1>6 DEF DeleteFleet, Kill
<1>7. CASE Shutdown
  BY <1>7 DEF Shutdown
<1>8. CASE StopAll
  BY <1>8 DEF StopAll, Kill, Exit, Off, Nowhere
<1>9. CASE Crash
  BY <1>9 DEF Crash, Exit, Off, Nowhere
<1>10. CASE EditSettings
  BY <1>10 DEF EditSettings
<1>11. ASSUME NEW lanes \in SUBSET Lane, NEW on \in BOOLEAN, Start(lanes, on)
      PROVE  FleetInv'
  BY <1>11 DEF Start
<1>12. ASSUME NEW k \in Lane, LeaveAlone(k) PROVE FleetInv'
  BY <1>12 DEF LeaveAlone
<1>13. ASSUME NEW k \in Lane, Reattach(k) PROVE FleetInv'
  <2>1. \A l \in Lane : JobInv(l)'
    BY <1>13 DEF Reattach, MarkerValid
  <2>2. \A l \in Lane : SessionInv(l)'
    BY <1>13 DEF Reattach, MarkerValid
  <2>3. \A l \in Lane : PipeInv(l)'
    <3>1. k \notin refused' => piped'[k]
      BY <1>13 DEF Reattach, Wire
    <3>2. \A l \in Lane : l # k => piped'[l] = piped[l] /\ (l \in refused' <=> l \in refused)
      BY <1>13 DEF Reattach, Wire
    <3> QED BY <1>13, <3>1, <3>2 DEF Reattach
  <2>4. \A l \in Lane : RegimeInv(l)'
    <3>1. governed'[k] => marker[k] # None
      BY <1>13, ReattachTrusts
    <3>2. \A l \in Lane : l # k => governed'[l] = governed[l]
      BY <1>13 DEF Reattach
    <3>3. UNCHANGED <<mode, sess, regime, marker, told, job, respawn, enabled>>
      BY <1>13 DEF Reattach
    <3>4. known' = known \cup {k} /\ sess[k] # "none" /\ job[k] = "none"
      BY <1>13 DEF Reattach
    <3> QED BY <3>1, <3>2, <3>3, <3>4
  <2> QED BY <1>13, <2>1, <2>2, <2>3, <2>4 DEF Reattach, MarkerValid
<1>14. ASSUME NEW k \in Lane, Purge(k) PROVE FleetInv'
  <2>0. k \notin known
    BY <1>14 DEF Purge
  <2>1. \A l \in Lane : JobInv(l)'
    BY <1>14 DEF Purge, Kill
  <2>2. \A l \in Lane : SessionInv(l)'
    BY <1>14, <2>0 DEF Purge, Kill
  <2>3. \A l \in Lane : PipeInv(l)'
    BY <1>14, <2>0 DEF Purge, Kill
  <2>4. \A l \in Lane : RegimeInv(l)'
    BY <1>14, <2>0 DEF Purge, Kill
  <2> QED BY <1>14, <2>1, <2>2, <2>3, <2>4 DEF Purge, Kill
<1>15. ASSUME NEW k \in Lane, NewSession(k) PROVE FleetInv'
  BY <1>15 DEF NewSession, At, Goto, Birth, Argv
<1>16. ASSUME NEW k \in Lane, NewSessionFails(k) PROVE FleetInv'
  BY <1>16 DEF NewSessionFails, At, Goto
<1>17. ASSUME NEW k \in Lane, SetOwned(k) PROVE FleetInv'
  BY <1>17 DEF SetOwned, At, Goto
<1>18. ASSUME NEW k \in Lane, SpawnMark(k) PROVE FleetInv'
  BY <1>18 DEF SpawnMark, At, Goto, Mark
<1>19. ASSUME NEW k \in Lane, SpawnPipe(k) PROVE FleetInv'
  <2>1. \A l \in Lane : JobInv(l)'
    BY <1>19 DEF SpawnPipe, At, Goto
  <2>2. \A l \in Lane : SessionInv(l)'
    BY <1>19 DEF SpawnPipe, At, Goto
  <2>3. \A l \in Lane : PipeInv(l)'
    <3>1. k \notin refused' => piped'[k]
      BY <1>19 DEF SpawnPipe, Wire
    <3>2. \A l \in Lane : l # k => piped'[l] = piped[l] /\ (l \in refused' <=> l \in refused)
      BY <1>19 DEF SpawnPipe, Wire
    <3> QED BY <1>19, <3>1, <3>2 DEF SpawnPipe, At, Goto
  <2>4. \A l \in Lane : RegimeInv(l)'
    BY <1>19 DEF SpawnPipe, At, Goto
  <2> QED BY <1>19, <2>1, <2>2, <2>3, <2>4 DEF SpawnPipe, At, Goto
<1>20. ASSUME NEW k \in Lane, LaneState(k) PROVE FleetInv'
  BY <1>20 DEF LaneState
<1>21. ASSUME NEW k \in Lane, Followup(k) PROVE FleetInv'
  BY <1>21 DEF Followup
<1>22. ASSUME NEW k \in Lane, RespawnPane(k) PROVE FleetInv'
  BY <1>22 DEF RespawnPane, Birth, Argv
<1>23. ASSUME NEW k \in Lane, RespawnPipe(k) PROVE FleetInv'
  BY <1>23 DEF RespawnPipe
<1>24. ASSUME NEW k \in Lane, RespawnFails(k) PROVE FleetInv'
  <2>1. \A l \in Lane : JobInv(l)'
    BY <1>24 DEF RespawnFails
  <2>2. \A l \in Lane : SessionInv(l)'
    BY <1>24 DEF RespawnFails
  <2>3. \A l \in Lane : PipeInv(l)'
    <3>1. respawn[k] # "pipe" => refused' = refused
      BY <1>24 DEF RespawnFails
    <3>2. respawn[k] = "pipe" => refused' = refused \cup {k}
      BY <1>24 DEF RespawnFails
    <3> QED BY <1>24, <3>1, <3>2 DEF RespawnFails
  <2>4. \A l \in Lane : RegimeInv(l)'
    BY <1>24 DEF RespawnFails
  <2> QED BY <1>24, <2>1, <2>2, <2>3, <2>4 DEF RespawnFails
<1>25. ASSUME NEW k \in Lane, RespawnMark(k) PROVE FleetInv'
  BY <1>25 DEF RespawnMark, Mark
<1>26. ASSUME NEW k \in Lane, OperatorSession(k) PROVE FleetInv'
  <2>1. \A l \in Lane : JobInv(l)'
    BY <1>26 DEF OperatorSession, Birth
  <2>2. \A l \in Lane : SessionInv(l)'
    BY <1>26 DEF OperatorSession, Birth
  <2>3. \A l \in Lane : PipeInv(l)'
    BY <1>26 DEF OperatorSession, Birth
  <2>4. \A l \in Lane : RegimeInv(l)'
    BY <1>26 DEF OperatorSession, Birth
  <2> QED BY <1>26, <2>1, <2>2, <2>3, <2>4 DEF OperatorSession, Birth
<1>27. ASSUME NEW k \in Lane, ProcessExits(k) PROVE FleetInv'
  BY <1>27 DEF ProcessExits
<1>28. CASE UNCHANGED vars
  BY <1>28 DEF vars
<1> HIDE FleetAssumption
    DEF FleetInv, TypeOK, JobInv, SessionInv, PipeInv, RegimeInv, tmux, disk,
        server, memory, history
<1> QED
  BY <1>1, <1>2, <1>3, <1>4, <1>5, <1>6, <1>7, <1>8, <1>9, <1>10,
     <1>11, <1>12, <1>13, <1>14, <1>15, <1>16, <1>17, <1>18, <1>19,
     <1>20, <1>21, <1>22, <1>23, <1>24, <1>25, <1>26, <1>27, <1>28 DEF Next, ServerStep

\* FleetInv is an invariant of the fleet.
LEMMA FleetInvariant == Spec => []FleetInv
<1>1. ASSUME Init PROVE FleetInv
  <2>1. TypeOK
    BY <1>1 DEF Init, TypeOK, Off, Nowhere
  <2>2. \A l \in Lane : JobInv(l) /\ SessionInv(l) /\ PipeInv(l) /\ RegimeInv(l)
    BY <1>1 DEF Init, Off, Nowhere, JobInv, SessionInv, PipeInv, RegimeInv
  <2> QED BY <1>1, <2>1, <2>2 DEF Init, FleetInv
<1>2. FleetInv /\ [Next]_vars => FleetInv'
  BY FleetStep
<1> QED BY <1>1, <1>2, PTL DEF Spec

\* The types of what tmux, the disk and the server hold; in particular a lane
\* start_all would clean up is one it knows.
THEOREM FleetTypeCorrect == Spec => []TypeOK
<1>1. FleetInv => TypeOK
  BY DEF FleetInv
<1> QED BY <1>1, FleetInvariant, PTL

\* For every set of lanes: a lane shown as governed has a process that was
\* born under the governor, across crashes, reattachments, respawns and
\* changes of the settings, once the marker was written for that process.
THEOREM GovernedLanesAreBorn == Spec => []GovernedIsBorn
<1>1. FleetInv => GovernedIsBorn
  BY DEF FleetInv, TypeOK, JobInv, RegimeInv, GovernedIsBorn
<1> QED BY <1>1, FleetInvariant, PTL

\* For every set of lanes: the pane of each lane of a running server is piped
\* to its stream log, whatever an earlier server had left undone, unless tmux
\* refused the pipe to this very server.
THEOREM LanesArePiped == Spec => []LaneIsPiped
<1>1. FleetInv => LaneIsPiped
  BY DEF FleetInv, TypeOK, JobInv, PipeInv, LaneIsPiped
<1> QED BY <1>1, FleetInvariant, PTL

\* What ends a session: the purge of orphans, the clean-up of a start that
\* failed and the shutdown take only sessions of the fleet's own.
LEMMA BareSurvives ==
    ASSUME FleetInv, Next, NEW l \in Lane, sess[l] = "bare", sess'[l] = "none"
    PROVE  mode = "up" /\ mode' = "stop"
<1> USE DEF tmux, Kill
<1>1. CASE DeleteFleet
  BY <1>1 DEF DeleteFleet
<1>2. ASSUME NEW k \in Lane, Purge(k) PROVE FALSE
  BY <1>2 DEF Purge
<1>3. CASE CleanupEnd
  BY <1>3 DEF CleanupEnd, FleetInv, TypeOK, SessionInv
<1>4. CASE StopAll
  BY <1>4 DEF StopAll, FleetInv, TypeOK, SessionInv
<1>5. ASSUME NEW k \in Lane,
             NewSession(k) \/ SetOwned(k) \/ OperatorSession(k)
      PROVE  FALSE
  BY <1>5 DEF NewSession, SetOwned, OperatorSession, FleetInv, TypeOK
<1>6. CASE UNCHANGED sess
  BY <1>6
<1>7. DeleteFleet \/ CleanupEnd \/ StopAll \/ UNCHANGED sess
        \/ \E k \in Lane : Purge(k) \/ NewSession(k) \/ SetOwned(k) \/ OperatorSession(k)
  BY DEF Next, ServerStep, Build, StartupComplete, StartFails, StartTimeout,
         Shutdown, LeaveAlone, Reattach, NewSessionFails, SpawnMark, SpawnPipe,
         LaneState, Followup, RespawnPane, RespawnPipe, RespawnFails,
         RespawnMark, Crash, EditSettings, Start, ProcessExits
<1> QED BY <1>1, <1>2, <1>3, <1>4, <1>5, <1>6, <1>7

\* For every set of lanes: a session without the fleet's mark is ended only by
\* DELETE /api/v1/fleet, never by a start, its failure or a shutdown.
THEOREM ManualSessionsSurvive == Spec => ManualSessionsLive
<1>1. FleetInv /\ [Next]_vars
        => [\A l \in Lane : sess[l] = "bare" /\ sess'[l] = "none"
                => mode = "up" /\ mode' = "stop"]_vars
  BY BareSurvives
<1> QED BY <1>1, FleetInvariant, PTL DEF Spec, ManualSessionsLive

=============================================================================
