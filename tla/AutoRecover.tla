---------------------------- MODULE AutoRecover ----------------------------
(***************************************************************************)
(* The auto-recovery supervisor (server.py, AutoRecoverSupervisor): every  *)
(* tick takes one snapshot of the lanes' health and one reading of the     *)
(* clock, then visits the lanes in order; a restart awaits tmux, and       *)
(* everything else goes on meanwhile.                                      *)
(***************************************************************************)
EXTENDS Integers

CONSTANTS
    LaneNo,       \* 1..n, in the order of sorted(lanes)
    Grace,        \* grace_seconds
    MaxAttempts,  \* max_attempts
    Base, Cap,    \* backoff_base_seconds, backoff_cap_seconds
    Interval,     \* interval_seconds of run()
    MaxTime       \* bound: the monotonic clock

ASSUME RecoverAssumption ==
    /\ LaneNo \subseteq Nat
    /\ {Grace, MaxAttempts, Base, Cap, Interval, MaxTime} \subseteq Nat

Never == -1

VARIABLES
    time,
    ill,       \* lane dead, or at the deny threshold
    since,     \* unhealthy_since, Never for None
    attempts,
    allowed,   \* next_allowed_mono
    at,        \* "sleep", "tick" or "await"
    snapshot,  \* the lanes that were sick when the tick began
    now,       \* the time when the tick began
    wake,      \* the end of the sleep of run()
    left,      \* the lanes the tick has still to visit
    storm      \* history: the restarts of its present illness

supervisor == <<since, attempts, allowed, at, snapshot, now, wake, left>>
recoveryVars == <<time, ill, supervisor, storm>>

Times == 0..MaxTime

RecoveryTypeOK ==
    /\ time \in Times
    /\ ill \subseteq LaneNo
    /\ since \in [LaneNo -> Times \cup {Never}]
    /\ attempts \in [LaneNo -> 0..MaxAttempts]
    /\ allowed \in [LaneNo -> 0..(MaxTime + Cap)]
    /\ at \in {"sleep", "tick", "await"}
    /\ snapshot \subseteq LaneNo
    /\ now \in Times
    /\ wake \in 0..(MaxTime + Interval)
    /\ left \subseteq LaneNo
    /\ storm \in [LaneNo -> Nat]

RecoveryInit ==
    /\ time = 0 /\ ill = {}
    /\ since = [l \in LaneNo |-> Never]
    /\ attempts = [l \in LaneNo |-> 0]
    /\ allowed = [l \in LaneNo |-> 0]
    /\ at = "sleep" /\ snapshot = {} /\ now = 0 /\ left = {}
    /\ wake = Interval
    /\ storm = [l \in LaneNo |-> 0]

-----------------------------------------------------------------------------
\* The world: time passes, a lane falls ill or recovers.  tick() runs
\* without a pause from one await to the next, in no time.

TimePasses ==
    /\ time < MaxTime
    /\ at # "tick"
    /\ time' = time + 1
    /\ UNCHANGED <<ill, supervisor, storm>>

FallIll(l) ==
    /\ l \notin ill /\ at # "tick"
    /\ ill' = ill \cup {l}
    /\ UNCHANGED <<time, supervisor, storm>>

GetWell(l) ==
    /\ l \in ill /\ at # "tick"
    /\ ill' = ill \ {l}
    /\ storm' = [storm EXCEPT ![l] = 0]
    /\ UNCHANGED <<time, supervisor>>

-----------------------------------------------------------------------------
\* tick()

Begin ==
    /\ at = "sleep" /\ time >= wake
    /\ at' = "tick" /\ snapshot' = ill /\ now' = time /\ left' = LaneNo
    /\ UNCHANGED <<time, ill, since, attempts, allowed, wake, storm>>

End ==
    /\ at = "tick" /\ left = {}
    /\ at' = "sleep" /\ wake' = time + Interval
    /\ UNCHANGED <<time, ill, since, attempts, allowed, snapshot, now, left,
                   storm>>

Next1(l) == at = "tick" /\ l \in left /\ \A m \in left : l <= m

\* A healthy lane: all its state is reset.
VisitHealthy(l) ==
    /\ Next1(l) /\ l \notin snapshot
    /\ since' = [since EXCEPT ![l] = Never]
    /\ attempts' = [attempts EXCEPT ![l] = 0]
    /\ allowed' = [allowed EXCEPT ![l] = 0]
    /\ left' = left \ {l}
    /\ UNCHANGED <<time, ill, at, snapshot, now, wake, storm>>

\* The first sighting only starts the clock.
VisitFirst(l) ==
    /\ Next1(l) /\ l \in snapshot /\ since[l] = Never
    /\ since' = [since EXCEPT ![l] = now]
    /\ left' = left \ {l}
    /\ UNCHANGED <<time, ill, attempts, allowed, at, snapshot, now, wake,
                   storm>>

Eligible(l) ==
    /\ now - since[l] >= Grace
    /\ attempts[l] < MaxAttempts
    /\ now >= allowed[l]

VisitHeldBack(l) ==
    /\ Next1(l) /\ l \in snapshot /\ since[l] # Never /\ ~Eligible(l)
    /\ left' = left \ {l}
    /\ UNCHANGED <<time, ill, since, attempts, allowed, at, snapshot, now,
                   wake, storm>>

\* The restart is sent and awaited.
SendRestart(l) ==
    /\ Next1(l) /\ l \in snapshot /\ since[l] # Never /\ Eligible(l)
    /\ at' = "await"
    /\ storm' = IF l \in ill THEN [storm EXCEPT ![l] = @ + 1] ELSE storm
    /\ UNCHANGED <<time, ill, since, attempts, allowed, snapshot, now, wake,
                   left>>

\* 2 ** n
TwoTo(n) ==
    LET power[i \in 0..n] == IF i = 0 THEN 1 ELSE 2 * power[i - 1]
    IN  power[n]

Backoff(n) == IF Base * TwoTo(n - 1) < Cap THEN Base * TwoTo(n - 1) ELSE Cap

\* Mutant: a restart that fails is not counted.
RestartedMayFail(l) ==
    /\ at = "await" /\ l \in left /\ \A m \in left : l <= m
    /\ attempts' \in {attempts, [attempts EXCEPT ![l] = @ + 1]}
    /\ allowed' = [allowed EXCEPT ![l] = now + Backoff(attempts[l] + 1)]
    /\ left' = left \ {l}
    /\ at' = "tick"
    /\ UNCHANGED <<time, ill, since, snapshot, now, wake, storm>>

\* restart_fn came back, with True, with False or with an exception: each
\* counts as an attempt.
Restarted(l) ==
    /\ at = "await" /\ l \in left /\ \A m \in left : l <= m
    /\ attempts' = [attempts EXCEPT ![l] = @ + 1]
    /\ allowed' = [allowed EXCEPT ![l] = now + Backoff(attempts[l] + 1)]
    /\ left' = left \ {l}
    /\ at' = "tick"
    /\ UNCHANGED <<time, ill, since, snapshot, now, wake, storm>>

SupervisorStep ==
    \/ Begin \/ End
    \/ \E l \in LaneNo : \/ VisitHealthy(l) \/ VisitFirst(l)
                         \/ VisitHeldBack(l) \/ SendRestart(l) \/ Restarted(l)

RecoveryNext ==
    \/ SupervisorStep \/ TimePasses
    \/ \E l \in LaneNo : FallIll(l) \/ GetWell(l)

RecoverySpec == RecoveryInit /\ [][RecoveryNext]_recoveryVars

-----------------------------------------------------------------------------
\* One illness of a lane is answered with at most MaxAttempts restarts,
\* although the supervisor sees the lane only in its snapshots, forgets all
\* attempts at a healthy one, and the lane may recover and fall ill between
\* two of them or while a restart is awaited.
StormEnds ==
    \A l \in LaneNo : storm[l] <= MaxAttempts

=============================================================================
