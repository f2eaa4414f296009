------------------------------ MODULE PhaseFlip ------------------------------
(* RULE 11: workers flip the mission's phase by making a lock directory for   *)
(* the transition, writing the event and rewriting README.md's status line,   *)
(* in steps another worker, the recovery of stuck flips or a crash can come   *)
(* between. The operator's POST /api/mission/flip is one of the workers.      *)
EXTENDS Naturals, Sequences, SequencesExt, FiniteSets

CONSTANTS Worker,
          Flip,    \* the transitions: <<from, to>>
          Phase0,  \* the phase README.md names at the start
          MaxRecoveries, MaxFlipCrashes

Nobody == "nobody"
NoFlip == <<>>
EventsFile == <<>>

VARIABLES locks,      \* the directories of .phase-flip-locks
          owner,      \* flip -> owner.txt of its lock, Nobody if there is none
          events,     \* .mission-events: sequence of [flip, by]
          current,    \* the phase README.md names
          at,         \* worker -> [pc, flip]
          old,        \* what is older than stuck_after_seconds: EventsFile and lock directories
          quiet,      \* workers whose STATUS row is older than RULE 1's threshold
          recovery,   \* detect_and_recover_stuck_flips under way
          recovered,  \* history: flips whose lock a recovery has removed
          recoveries, flipCrashes

flip == <<recovered, locks, owner, events, current, at, old, quiet, recovery, recoveries, flipCrashes>>

Resting == [pc |-> "rest", flip |-> NoFlip]
NoRecovery == [pc |-> "rest", todo |-> {}, last |-> NoFlip, aged |-> {}, flip |-> NoFlip]

FlipInit ==
  /\ locks = {} /\ owner = [f \in Flip |-> Nobody] /\ events = <<>> /\ current = Phase0
  /\ at = [w \in Worker |-> Resting] /\ old = {} /\ quiet = {}
  /\ recovery = NoRecovery /\ recovered = {} /\ recoveries = 0 /\ flipCrashes = 0

-----------------------------------------------------------------------------
\* Mutation of MakeLock: a lock is free as long as nobody's name is in it.
MakeLockUnowned(f) == owner[f] = Nobody

MakeLock(f) == f \notin locks

\* try_phase_flip: mkdir wins or loses; a loser has changed nothing.
TryFlip(w) ==
  \E f \in Flip:
    /\ at[w].pc = "rest" /\ MakeLock(f)
    /\ locks' = locks \cup {f} /\ old' = old \ {f}
    /\ at' = [at EXCEPT ![w] = [pc |-> "owner", flip |-> f]]
    /\ UNCHANGED <<recovered, owner, events, current, quiet, recovery, recoveries, flipCrashes>>

\* owner.txt is written into the directory, which a recovery may have replaced.
WriteOwner(w) ==
  /\ at[w].pc = "owner" /\ at[w].flip \in locks
  /\ owner' = [owner EXCEPT ![at[w].flip] = w] /\ old' = old \ {at[w].flip}
  /\ at' = [at EXCEPT ![w].pc = "event"]
  /\ UNCHANGED <<recovered, locks, events, current, quiet, recovery, recoveries, flipCrashes>>

\* The directory is gone: open() raises and the flip ends there.
WriteOwnerFails(w) ==
  /\ at[w].pc = "owner" /\ at[w].flip \notin locks
  /\ at' = [at EXCEPT ![w] = Resting]
  /\ UNCHANGED <<recovered, locks, owner, events, current, old, quiet, recovery, recoveries, flipCrashes>>

AppendEvent(w) ==
  /\ at[w].pc = "event"
  /\ events' = Append(events, [flip |-> at[w].flip, by |-> w]) /\ old' = old \ {EventsFile}
  /\ at' = [at EXCEPT ![w].pc = "readme"]
  /\ UNCHANGED <<recovered, locks, owner, current, quiet, recovery, recoveries, flipCrashes>>

\* README.md's status line is replaced, whatever phase it names by now.
UpdateReadme(w) ==
  /\ at[w].pc = "readme"
  /\ current' = at[w].flip[2]
  /\ at' = [at EXCEPT ![w] = Resting]
  /\ UNCHANGED <<recovered, locks, owner, events, old, quiet, recovery, recoveries, flipCrashes>>

\* The worker's process ends; another one may come under its name.
CrashFlip(w) ==
  /\ flipCrashes < MaxFlipCrashes /\ flipCrashes' = flipCrashes + 1
  /\ at[w].pc # "rest" /\ at' = [at EXCEPT ![w] = Resting]
  /\ UNCHANGED <<recovered, locks, owner, events, current, old, quiet, recovery, recoveries>>

\* Time: everything there is grows old, and some workers fall silent.
TimePasses ==
  /\ recoveries < MaxRecoveries
  /\ old' = locks \cup (IF events = <<>> THEN {} ELSE {EventsFile})
  /\ quiet' \in SUBSET Worker
  /\ <<old', quiet'>> # <<old, quiet>>
  /\ UNCHANGED <<recovered, locks, owner, events, current, at, recovery, recoveries, flipCrashes>>

-----------------------------------------------------------------------------
\* detect_and_recover_stuck_flips: the last event is read once. Its age stands
\* for the age of every lock; without an event it is the lock's own.
RecoverBegin ==
  /\ recovery.pc = "rest" /\ recoveries < MaxRecoveries /\ recoveries' = recoveries + 1
  /\ recovery' = [pc |-> "scan", todo |-> locks, flip |-> NoFlip,
                  last |-> IF events = <<>> THEN NoFlip ELSE Last(events).flip,
                  aged |-> IF events = <<>> THEN old \cap locks ELSE IF EventsFile \in old THEN locks ELSE {}]
  /\ UNCHANGED <<recovered, locks, owner, events, current, at, old, quiet, flipCrashes>>

Stuck(f) == /\ f \in recovery.aged /\ f # recovery.last
            /\ owner[f] \in {Nobody, "recovery-agent"} \cup quiet

\* One lock that is stuck: rmtree here, mkdir and the synthetic event below.
RecoverRemove ==
  \E f \in recovery.todo:
    /\ recovery.pc = "scan"
    /\ IF Stuck(f)
       THEN /\ locks' = locks \ {f} /\ owner' = [owner EXCEPT ![f] = Nobody]
            /\ recovery' = [recovery EXCEPT !.todo = @ \ {f}, !.pc = "remake", !.flip = f]
            /\ recovered' = recovered \cup {f}
       ELSE /\ recovery' = [recovery EXCEPT !.todo = @ \ {f}]
            /\ UNCHANGED <<locks, owner, recovered>>
    /\ UNCHANGED <<events, current, at, old, quiet, recoveries, flipCrashes>>

\* A worker may have taken the directory in between: mkdir raises, the scan ends.
RecoverRemake ==
  /\ recovery.pc = "remake"
  /\ IF recovery.flip \in locks
     THEN recovery' = NoRecovery /\ UNCHANGED <<locks, owner, events, old>>
     ELSE /\ locks' = locks \cup {recovery.flip}
          /\ owner' = [owner EXCEPT ![recovery.flip] = "recovery-agent"]
          /\ events' = Append(events, [flip |-> recovery.flip, by |-> "recovery-agent"])
          /\ old' = old \ {EventsFile, recovery.flip}
          /\ recovery' = [recovery EXCEPT !.pc = "scan", !.flip = NoFlip]
  /\ UNCHANGED <<recovered, current, at, quiet, recoveries, flipCrashes>>

RecoverEnd ==
  /\ recovery.pc = "scan" /\ recovery.todo = {}
  /\ recovery' = NoRecovery
  /\ UNCHANGED <<recovered, locks, owner, events, current, at, old, quiet, recoveries, flipCrashes>>

FlipNext ==
  \/ \E w \in Worker: TryFlip(w) \/ WriteOwner(w) \/ WriteOwnerFails(w) \/ AppendEvent(w)
                      \/ UpdateReadme(w) \/ CrashFlip(w)
  \/ TimePasses \/ RecoverBegin \/ RecoverRemove \/ RecoverRemake \/ RecoverEnd

FlipSpec == FlipInit /\ [][FlipNext]_flip

\* _detect_stuck_flip_lock: a directory in .phase-flip-locks is shown as a stuck flip.
StuckShown == locks

-----------------------------------------------------------------------------
\* However the workers' steps interleave and wherever they die, a flip that was
\* never recovered has at most one event: mkdir picks one winner.
OneWinner ==
  \A f \in Flip \ recovered: Cardinality({i \in DOMAIN events : events[i].flip = f}) <= 1

\* _detect_stuck_flip_lock: "The dir is removed when the flip lands": a flip whose
\* event and status line are written and whose worker is done is not shown as stuck.
LandedIsNotStuck ==
  \A f \in StuckShown: (\E i \in DOMAIN events: events[i].flip = f) /\ current = f[2]
    => \E w \in Worker: at[w].flip = f
=============================================================================
