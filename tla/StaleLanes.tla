----------------------------- MODULE StaleLanes -----------------------------
(* GET /api/v1/lanes/stale: which lanes are silent and which are stuck in a   *)
(* loop of refusals, computed from STATUS.md, the lanes' stream logs, the     *)
(* applier's log and today's governor log, and cached for a few seconds.      *)
EXTENDS Naturals, Sequences, SequencesExt, FiniteSetsExt

CONSTANTS Code,        \* the short codes of the mission's lanes
          RunDir,      \* the name of the run directory, the cwd of every lane
          Threshold,   \* _STALE_THRESHOLD_SECONDS
          Ttl,         \* _STALE_CACHE_TTL_SECONDS
          DenyWindow, DenyCount,  \* a loop: DenyCount refusals within DenyWindow
          DayLength,   \* ticks of a UTC day: the governor log is one file a day
          LogTail,     \* _GOVERNOR_LOG_TAIL_LINES
          MaxStaleClock, MaxCalls  \* bounds on time and on governed tool calls

ASSUME StaleAssumption ==
  /\ {Threshold, DenyWindow, DenyCount, LogTail, MaxStaleClock, MaxCalls} \subseteq Nat
  /\ {Ttl, DayLength} \subseteq Nat \ {0}

VARIABLES staleClock,
          seen,        \* lane -> source -> time of the last activity there, Never if none
          governorLog, \* the governor logs: sequence of [lane, permission, at]
          cache,       \* [at, answer] or Empty
          answer       \* the last answer: [at, stale, blocked, computed]

stale == <<staleClock, seen, governorLog, cache, answer>>

Sources == {"status-md", "stream-log", "applier-log"}
Never == MaxStaleClock + 1
Empty == [at |-> Never, stale |-> {}, blocked |-> {}, computed |-> Never]

StaleInit ==
  /\ staleClock = 0
  /\ seen = [l \in Code |-> [s \in Sources |-> Never]]
  /\ governorLog = <<>>
  /\ cache = Empty /\ answer = Empty

StaleTick == staleClock < MaxStaleClock /\ staleClock' = staleClock + 1 /\ UNCHANGED <<seen, governorLog, cache, answer>>

\* An agent updates its row, its pane prints, the applier logs one of its requests.
Activity ==
  \E l \in Code, s \in Sources:
    /\ seen[l][s] # staleClock
    /\ seen' = [seen EXCEPT ![l][s] = staleClock]
    /\ UNCHANGED <<staleClock, governorLog, cache, answer>>

\* hook.run: the lane of an audit line is the base name of the event's cwd, which is
\* the run directory for every lane the spawner starts.
LaneOfCall == RunDir

ToolCall ==
  \E permission \in {"allow", "deny"}:
    /\ Len(governorLog) < MaxCalls
    /\ governorLog' = Append(governorLog, [lane |-> LaneOfCall, permission |-> permission, at |-> staleClock])
    /\ UNCHANGED <<staleClock, seen, cache, answer>>

\* _compute_governor_blocked: refusals of today's file, its tail, inside the window.
GovernorBlocked ==
  LET today == SelectSeq(governorLog, LAMBDA e: e.at \div DayLength = staleClock \div DayLength)
      tail == SubSeq(today, IF Len(today) > LogTail THEN Len(today) - LogTail + 1 ELSE 1, Len(today))
      count(who) == Quantify(DOMAIN tail, LAMBDA i: /\ tail[i].lane = who
                                                    /\ tail[i].permission = "deny"
                                                    /\ tail[i].at + DenyWindow >= staleClock)
  IN {who \in {tail[i].lane : i \in DOMAIN tail} : count(who) >= DenyCount}

\* The newest of the three sources decides; a lane that left no trace is stale.
Silent(l) == \A s \in Sources: seen[l][s] = Never \/ seen[l][s] + Threshold <= staleClock

\* _compute_stale_response.
Compute == [at |-> staleClock, computed |-> staleClock, blocked |-> GovernorBlocked,
            stale |-> {l \in Code : Silent(l) /\ l \notin GovernorBlocked}]

\* Mutation of CacheFresh: a cached answer is served until it is replaced.
CacheFreshForever == cache # Empty

CacheFresh == cache # Empty /\ staleClock < cache.computed + Ttl

GetStaleLanes ==
  /\ answer' = [(IF CacheFresh THEN cache ELSE Compute) EXCEPT !.at = staleClock]
  /\ cache' = IF CacheFresh THEN cache ELSE Compute
  /\ UNCHANGED <<staleClock, seen, governorLog>>

StaleNext == StaleTick \/ Activity \/ ToolCall \/ GetStaleLanes

StaleSpec == StaleInit /\ [][StaleNext]_stale

-----------------------------------------------------------------------------
\* A cached answer never accuses a lane that moved long before it was given: a
\* lane whose newest trace is older than the cache's life and younger than the
\* threshold is not in stale_lanes.
StaleIsRecent ==
  \A l \in answer.stale, s \in Sources:
    \/ seen[l][s] = Never
    \/ seen[l][s] + Threshold <= answer.at
    \/ seen[l][s] + Ttl > answer.at

=============================================================================
