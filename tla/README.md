# Megalodon: a verification development in TLA+

Megalodon runs a *fleet* of coding agents. Each agent (a *lane*) is a process
in a tmux pane; the agents coordinate only through files of a shared mission
directory; a FastAPI server starts the fleet, shows it to an operator and acts
for the operator. This directory has TLA+ models of the parts that must stay
correct while agents, the server, the applier and the operator's commands
interleave and die at any point, TLC runs over small instances, and TLAPS
proofs of all their safety properties for instances of any size.

`PROJECT.json` is the index: `map` gives for every definition the source lines
it stands for, `runs` the TLC runs, `mutants` for every property a plausible
bug that breaks it, `hazards` what is hard to test, `theorems` what is proved.

    tlc -workers 2 -config Queue_crash.cfg MCQueue      # a run
    tlapm QueueApplierProofs.tla                        # proofs

## 1. The system

### 1.1 Components

| Component | State it keeps | Operations | Module |
|---|---|---|---|
| Write queue, applier (`megalodon_ui/queue/applier.py`, `schemas.py`) | `queue/pending`, `applied`, `rejected`; `STATUS.md`, `TASKS.md`, `HISTORY.md`, `.mission-events`, `claims/`; in memory the ids it knows | `submit`, `drain_once` with nine intents, reconciliation after a restart, `_reject` | `QueueApplier`, `MissionDocs` |
| Queue journal (`queue/journal.py`) | `journal.log`, one JSON line per transition | append, `replay()` | `JournalLog`, `JournalMap` |
| Applier lock (`applier.py` 204-258, `_backends/queue_client.py`) | `queue/.applier.lock/` with `pid.txt`, `heartbeat.txt` | acquire, release, heartbeat, a client's in-process drain | `ApplierSingleton` |
| RULE-10 close (`scripts/_shared_state.py`, `atomic_close.py`) | `.scripts-journal/<id>.json`; one task's claim, bracket, history row, lane row | `execute_close`, `resume_close` | `AtomicClose` |
| Task protocol (`scripts/claim.sh`, `primitives.py`, reclaim, signal and status endpoints of `server.py`) | `claims/<task>/{owner.txt,done}`, findings, rows of `STATUS.md` | claim, report, close, signal, reclaim, respawn | `Blackboard` |
| Fleet spawner (`spawn.py`, `tmux.py`, `governor/wiring.py`, the lifespan of `server.py`) | tmux sessions and pipes, `.fleet/<lane>.governed`, `LaneSession`s | `start_all`, `_spawn_one`, `respawn`, `stop_all`, kill-switch | `Fleet` |
| Auto-recovery supervisor (`server.py` 1723-1888) | per lane: since when unhealthy, attempts, next allowed time | `tick`, `run` | `AutoRecover` |
| Lane streams (`spawn.py` tail and fan-out, pane-stream endpoint of `server.py`) | position of the tail in a pane's log, bounded queues of watchers | tail, subscribe, replay, `respawn` with its sentinel, reattach | `LaneStream` |
| Event tail, activity wall (`event_tail.py`, `activity_wall.py`) | file positions, snapshots, seen notes, ring buffer, subscriber queues | backfill, eight sources of four kinds, fan-out, SSE | `EventTail`, `ActivityWall` |
| Narrator (`narrator/runtime.py`, `hub.py`, `scheduler.py`) | a supervised child process and its readiness; bounded queues of watchers, a wakeup flag, the cache | `start`, `stop`, `_supervise`, `subscribe`, `publish`, `narrator_tick` | `NarratorRuntime`, `NarrativeBoard`, composed in `Narrator` |
| Board (`narrator/board_state.py`, parsers and lane state of `server.py`) | session ids and flags of a lane, a build under way | `build_lane_rows`, recovery of session ids, `assemble_lane_rows`, `lane_state` | `LaneBoard` |
| Sessions, CSRF, control mode (`auth.py`, checks of `server.py`) | sessions in memory and on disk, the control switch, the injection window | create, validate, revoke, load, gate, inject, restart-loop | `Gate` |
| Governor (`governor/policy.py`, `hook.py`, `approval_rules.py`) | none in the decision; approval rules in a file | `decide`, hook, add and delete rules | `Governor` |
| Signals (`server.py`, `activity_wall.py`, `signals.py`) | `[SIG]` notes in `STATUS.md`, `signals/` | the two POST endpoints, the two parsers, the signal file | `Signals` |
| Silent lanes (`server.py` 3900-4080) | a cached answer | activity, compute, answer | `StaleLanes` |
| Watchdog (`watchdog/`) | last alert per lane in memory and in a file | pass, four detectors, `alert`, `recover` | `Watchdog` |
| Phase flips (`primitives.py` 345-552) | `.phase-flip-locks/`, `.mission-events`, status line | `try_phase_flip`, `detect_and_recover_stuck_flips` | `PhaseFlip` |
| Mission configuration, harness adapters, preflight, run scripts, reporting scripts, browser UI | none that changes while the fleet runs, or none the server depends on | - | not modelled |

The full list, with the reason for each part left out, is `components` in
`PROJECT.json`.

### 1.2 How they interact

- **Files.** An agent claims with `claim.sh` (`mkdir`, then `owner.txt`) and
  writes everything else through the queue: a request file is stamped, written
  aside and renamed into `queue/pending/`, and one applier turns it into an
  edit of a document. The server writes rows through the same queue, but
  removes claims directly (`reclaim_or_recover`).
- **Processes.** Server, agents, tmux and a possible applier daemon live and
  die independently. Nothing but the disk and tmux survives; a restarted
  applier replays its journal, a restarted server lists tmux sessions, an
  operator resumes an interrupted close.
- **Callbacks and awaits.** Inside the server one event loop runs everything;
  state read before an `await` (a health snapshot, a tmux command, a request's
  body) is used after it.

### 1.3 What is hard here

Crashes between any two file operations and inside one (torn lines, documents
that are rewritten in place); requests that wait in the queue while what they
were based on changes; two processes taking one lock; rows that lag behind
claims; timeouts of a client whose request is still applied later; restarts of
lanes that race with the lanes' own recovery; tmux processes that outlive the
server that knew how they were started; files that are replaced between a
`stat` and an `open`; a board that is put together from reads on both sides of
an await; one policy that several parsers of the same command or note have to
agree on. `hazards` in `PROJECT.json` lists them at their lines, with the
properties that watch them or the reason why none does yet.

## 2. The models

One action stands for one operation of the code up to the next point where
something else can intervene: a file operation if other processes read or
write the same file or the process may die there, an `await` inside the
server. Payloads are model values; what the properties tell apart is kept: who
owns a claim, which request wrote a row, which lines contain which.

### QueueApplier and MissionDocs (the write queue)

`MissionDocs` has the documents and, for each of the intents, its
precondition (`...OK`) and effect, translated from the `_apply_*` handlers.
The duplicate test of an append is a substring test, so lines carry a relation
`Within`: the lines that contain a line's text.

`QueueApplier` has the life of a request (`Stamp`, `Publish`) and
`drain_once`, cut at every disk operation: list and sort (`DrainBegin`), read
and classify one file (`TakeUndecodable`, `TakeApplied`, `TakeRejected`,
`TakeReconciled`, `TakeRefused`, `TakeValid`), `JournalPending`, `Apply` (or
`ApplyMkdir`, `ApplyOwner`, since a claim is two operations),
`JournalApplied`, `Archive`, and the way of a rejection. `Crash` ends the
process at any of these points, and may leave a partial journal line, an empty
`owner.txt`, or, since `AtomicFile.write` truncates and rewrites in place, a
`STATUS.md` or `TASKS.md` without the row at the seam (`TearRows`). `IOFail`
and `IOAbort` are a file operation that raises where the code catches it and
where it does not; the one that raises may be the `fsync` after a write that
took place (`LineFails`, `EffectFails`). `Unreadable` is a request whose file
cannot be read, which the code rejects like one that does not parse.

`ExactlyOnceLog` states what a client may rely on when it appends, with no
mention of processes and journals; `QueueRefinement` maps the queue to it
(`ImplementsLog`), including the exact circumstances in which an append that
took effect may be answered "rejected".

### JournalLog and JournalMap

`QueueApplier` keeps the journal as the map that `replay()` yields and, beside
it, what the lines yield that end in a newline (`settled`): an entry that
lacks only its newline is read until the next append is glued to it.
`JournalLog` has the lines, torn and unterminated ones too, and the loop of
`replay()` as a recursive function from the number of lines read to the dict
(`ReplayLoop`); `ImplementsMap` shows that appending a line and replaying is
the update of the map that `JournalMap` defines and `QueueApplier` uses.

### ApplierSingleton

`acquire_singleton` step by step (mkdir, look for `pid.txt`, read and probe
it, remove the directory, mkdir again, write the pid, first heartbeat),
`release_singleton`, the heartbeat that makes the directory again when it is
gone, and the client of `_backends/queue_client.py` that drains for itself
when no applier seems alive. Processes may belong to two users: `os.kill(pid,
0)` then raises `PermissionError`, which the code takes for a dead holder
(`MaySignal`). `met` and `crossed` are history variables: two processes were
taking or releasing the lock at the same time; one came upon the live holder
of another user. The pid of a process that died is not given to another one.

### AtomicClose

`execute_close` and `resume_close` for one task over the four backend steps,
with the queue seen from outside: it answers in order, at some later time.
Claims may be missing, ownerless, empty, one's own or somebody else's; the
lane's row and the task's line may be missing or there twice, the row somebody
else's. `Refused` is what the backend itself refuses, `Rejects` what only the
applier does, `QueueFails` an applier whose file operation fails. What is left
to do is a set of steps, `Place` their order in `_STEPS_IN_ORDER` and `Turn`
the first of them that is left, which is how the loop and the journal's resume
see it. The backend's adoption of an ownerless claim and its tests for a
duplicate are in the model (`Idempotent`). Those look for ids in the text of a
row: `history_append` answers ok with no row of its own when any recent row
has the agent's and the task's id in it (`others`, written by `OtherRow`), and
`status_update` when the agent's row is idle and has "`<task> done`" in its
notes, also of a task whose id ends in this one's (`"alike"`). What a
completed close then has is what `CompleteMeansClosed` and `InRuleTenOrder`
say, and no more.

### Blackboard

Agents and operator on the shared directory: `claim.sh` as its separate file
operations, the status row through the queue, the finding, the close (which
the queue refuses to a non-owner; `AtomicClose` has its details), death at any
point and respawn under the same agent id, `post_v1_signal`, which repeats the
row it read, and `post_v1_reclaim` with `reclaim_or_recover`, which looks for
findings twice and removes the claim whoever owns it. It does not ask whether
the lane lives: RULE 6 only presumes that one whose row is 15 minutes old is
dead, so the claim of a slow worker can be removed too. `misjudged` remembers
those tasks; on them, and on no others, two agents may then work. The constant
`Patient` says whether the operator waits for a lane's requests to be applied
before acting on it.

### Fleet

tmux (sessions, their ownership mark, live or dead panes, pipes) outlives the
server. `start_all` visits the sessions it finds (`LeaveAlone`, `Reattach`,
`Purge`), builds the missing lanes (`Build`) and runs one `_spawn_one` per
lane, whose tmux commands interleave; a failure, a timeout, a shutdown, the
kill-switch and a crash end the server. tmux may refuse a pipe: `start_all`
and `_spawn_one` do not look at the result (`Wire`), and `respawn` raises with
the new process alive, unpiped and its marker not written (`RespawnFails`).
`refused` are the lanes this server was refused a pipe for; nothing tries
again until the next respawn or the next server. The governor's regime of a
process is what it was *born* with; the marker file is what a later server
believes. The mission file may change between servers, the settings at any
time.

### AutoRecover

`tick` takes one snapshot of the lanes' health and one clock reading, visits
the lanes in order and awaits each restart; lanes fall ill and recover, and
time passes, meanwhile. Backoff, grace and attempts are those of the code.

### NarratorRuntime, NarrativeBoard and Narrator

`NarratorRuntime` has the llama-server child (which loads, serves and exits
when it likes), a possible other server on its port, `start`, the supervisor
cut at its awaits (`Poll`, then what it makes of the answer, `Wake`,
`BackoffEnds`, `Spawned`, `SpawnFails`) and `stop` in three stages. Cancelling
the supervisor while it starts a child kills the child: that is what asyncio's
subprocess transport does, and it is why `Cancel` can be one step. `born` is a
history variable that counts children since the last healthy poll.

`NarrativeBoard` has the hub and the scheduler loop: `subscribe` with the
snapshot, `publish` with drop-oldest, `_wait_for_tick` and the test of the
count, with watchers that come and go at every await. A frame is its number;
`owed` remembers that nothing was published since the first watcher came.

`Narrator` composes the two as the server's lifespan does: the board narrates
only while the runtime is ready, and shutdown ends the scheduler before the
runtime.

### LaneStream

One lane's bytes: what the pane writes (`Output`), the tail task that reads
the log and puts a chunk into every watcher's bounded queue, dropping the
oldest (`FanOut`, `Put`), a watcher that subscribes first and is then sent the
end of the log (`Connect`, `Replay`), and `respawn` with the await between the
new pane, its pipe, and the drained queues with their sentinel. A client that
goes before its generator has begun leaves its queue among the subscribers
(`Leak`). A server that dies and one that takes over continue at the end of
the log. A byte is its position; `from` and `dropped` are history variables
that say what a watcher was never owed and what its own slowness cost it.

### EventTail and ActivityWall

`EventTail` has `tail_file_lines` as two steps, the `stat` and what follows,
since a file can be replaced in between; a disk keeps the text of every inode,
which an open handle goes on reading. `Split` goes through the text item by
item as `str.split` does. `ActivityWall` has the wall's life (backfill, ring,
fan-out, subscribers) and one source of each of the four kinds the code has:
the tail of a document, a directory, the `[SIG]` notes of `STATUS.md`
(seen-set and mtime, primed in two steps) and a log with one file per day,
whose drainer and emitter are two tasks. `watched` fixes for a behaviour which
source works; the sources share only the ring.

### LaneBoard

A build reads both documents, looks for the transcripts of agents whose
session id is unknown (a thread), reads one digest per lane (threads) and
assembles the rows; documents, transcripts and panes change between those
steps. `Assembled` is the choice of pill, activity and goal from the task rows
and the STATUS row, by the code's order of precedence. `GetLaneState` is the
endpoint with its cached probe of tmux; `PaneDies` and `Respawn` are the fate
of the pane it asks about.

### Signals

What a note says of its sender, read twice: by `_parse_status_note_signals`
for the page and by `_parse_status_note_events` for the live wall, which share
no code, nor their list of the mission's lanes: `_roster_labels` has the
configuration the server was built with, `_load_roster` loads one of its own
at the wall's first look, keeps it for good, and falls back to the
orchestrator alone when the load fails (`ServerRoster`, `WallRoster`,
`WallLoads`). A label is a sequence of words, so that normalising (`LANE-`
prefix, unknown and orchestrator labels) is modelled by what it does. The two
POST endpoints and the file they write, named by lanes, topic and minute.

### Gate

Sessions in memory and in their file (whose write may fail), a server that
dies and is started again, and requests that pass session, CSRF token and
control mode, await their body or tmux, and then act: switch control mode,
inject text within a budget per window, restart the loop, or any other write.

### Governor

`decide` as a function of what tokenising leaves of a call: the segments of a
command with their redirects, prefixes, heads and operands, where each path
leads and whether it is a secret or part of the governor. A path has two such
places: redirects and operands are anchored at the project's directory, the
path of a Read or Write call at the directory the hook happens to run in. The
verdicts on reads, writes, redirects, heads and wrappers are operators of
their own, as they are functions of the policy; `DecideBash` combines them
with the operator's rules as the code does. `RunHook` is one hook process for
one call under the rules the file has at that time.

### StaleLanes

`get_stale_lanes` over three sources of activity and the day's governor log,
with the answer cached for `Ttl`.

### Watchdog

A pass over the lanes in their order with the four detectors in theirs; an
alert is a finding, a line of the alert log and a memory, in this order and in
three steps, and the server may die between them. A detector that raises ends
the pass; a lane without a pid is looked at by one detector only. HUNG is
judged by the newest transcript of the machine, as the code does it.

### PhaseFlip

Workers that make the lock, write `owner.txt`, the event and the status line
in steps; a recovery that lists the locks, judges them and removes and remakes
one in two operations; deaths anywhere. The dashboard's view of the locks
(`StuckShown`) is the list of directories, as in the code.

### Composition

Components that share state are composed: `Narrator` (child and scheduler),
`QueueApplier` over `MissionDocs` and `JournalMap`, `AtomicClose` over the
queue's interface. The modules `MCWork`, `MCWatch` and `MCServer` put
components that share none into one run: `part` says which one a behaviour is
about, and the others rest, so that the state space is a sum. Nothing is shown
by these three about interaction between parts. They extend the components'
modules, so that names of state and actions differ between components.

## 3. The runs

States are distinct states found; a passing run takes between half a minute
and four minutes with two workers.

| Run | Question | Result |
|---|---|---|
| `Queue_crash` (242k) | Eight workloads of two or three conflicting requests, two crashes anywhere, torn journal lines, claims and documents: is what is reported true (`AppliedIsShown`, `ArchiveAgreesWithJournal`), do appends land once (`NoDuplicateLines`) and truthfully (`LandedAppendNotRejected`), do claims have one owner (`OneClaimant`), does re-applying take nothing back (`ReapplyTakesNothingBack`), does the queue implement `ExactlyOnceLog` (`ImplementsLog`)? | holds |
| `Queue_faults` (87k) | Malformed, unreadable and refused requests, a failing file operation and a crash: is every request answered (`EveryRequestAnswered`, liveness)? | holds |
| `Work` (830k) | *Tasks:* one worker per task that was not reclaimed from a living agent (`OneWorker`), finished work recovered (`WorkIsRecovered`), dead claims freed (`DeadClaimIsFreed`). *Close:* in RULE-10 order, truthful, completed in the end (`InRuleTenOrder`, `CompleteMeansClosed`, `EventuallyClosed`). *Journal:* replaying the lines is the map (`ImplementsMap`). *Watchdog:* what silences an alert was told (`RememberedIsTold`), a lane that stays sick is told of (`SickIsTold`). *Recovery:* restarts for one illness are bounded (`StormEnds`). | holds |
| `Watch` (168k) | *Narrator:* bounded restarts, no child left, no lost wakeup, the newest frame kept, watchers served (`RespawnsAreBounded`, `NoChildAfterStop`, `NoLostWakeup`, `NewestIsKept`, `WatcherIsServed`). *Wall:* a note is told once (`NoteOnce`), what is written after its source attached is shown (`ItemsReachTheWall`). | holds |
| `Server` (3.9M) | *Fleet:* a lane shown governed was born governed by a server that did not die in between (`GovernedIsBorn`), streams are piped unless tmux refused it to this server (`LaneIsPiped`), the operator's sessions are left alone (`ManualSessionsLive`). *Lock:* exclusive while nobody takes or releases it at the same time or meets another user's process (`SingleWhenSerial`). *Flips:* one winner of a flip no recovery touched (`OneWinner`). *Stream:* no byte missed but those a watcher's own queue dropped (`NothingMissed`). *Silent lanes:* nobody accused for longer than the cache lives (`StaleIsRecent`). *Board:* pill and activity agree (`PillAndNowAgree`), tokens are of the lane's own agents (`DigestIsTheLanes`). *Signals:* both readers name one sender, and mark it alike unless it is in only one of their rosters (`ReadersAgree`). *Gate:* restarts keep sessions (`RestartKeepsSessions`), injections stay within the budget (`InjectBudget`). *Governor:* all ways of writing to a path are judged alike, three devices excepted (`WriteRoutesAgree`), no rule lifts the floor that settles a command (`FloorIsFinal`). | holds |
| `Queue_indoubt` | Is a request that took effect never reported rejected, for every intent? | **violated** |
| `Singleton_race` | Is the applier's lock exclusive always? | **violated** |
| `Board_reclaim` | One worker per task when a reclaim may be repeated at once? | **violated** |
| `Fleet_marker` | Can no lane be shown governed that was not born governed? | **violated** |
| `Signal_kept` | Is every signal that was filed still on record? | **violated** |
| `Flip_stuck` | Is a flip that landed never shown as stuck? | **violated** |
| `Lane_dead` | Is `running` what tmux said when it was asked? | **violated** |

### Bounds

- *Queue.* Two lanes, tasks, agents, phases and three lines, one of them part
  of another, are what it takes for two requests to conflict in every way the
  handlers distinguish; the workloads pair the intents that can. Two crashes
  reach a crash during the recovery from a crash. `MaxClock` gives two
  different seconds. All invariants of this run, its action property and its
  refinement are proved without these bounds (section 5).
- *Work.* Tasks: two agents and two troubles (`MaxTroubles`: deaths, signals
  and reclaims from the living), so that a respawned agent meets the one that
  took over, and a signal or a wrong reclaim comes before or after a death;
  one task's id is part of the other's, as the finding test is a substring
  test (the violation needs three agents, and one death). Close: clock 2 is
  beyond the duplicate window of 1; three mishaps (`MaxMishaps`: deaths,
  timeouts, failures of the applier) hit a resume as well as the first
  attempt, with one row of somebody else (`MaxOthers`); it begins with at most
  one thing amiss in claim, task line or lane row, since the first one refused
  ends it. Journal: two requests and five lines cover every order of three
  statuses with a torn line before, between and after them. Watchdog: two
  lanes, of which one is claude, three changes of health (sick, otherwise
  sick, without a pid, well) and one death. Recovery: two lanes, so that one
  lane's restart delays the other's visit; the clock runs to 7 so that grace
  1, backoffs 1 and 2 (the cap), two attempts and a second illness fit.
- *Watch.* Two watchers (one leaves while the other joins), queues of two and
  four frames, so that a queue overflows twice; a ceiling of three failures,
  so that one is counted, cleared by a healthy poll, and reached. Wall: three
  writes, two inodes and two days: a write before, during and after a
  replacement or midnight; a viewer's queue of one overflows at the second
  event.
- *Server.* Fleet: two lanes and two contents of the settings, no bound on
  servers, crashes or respawns. Lock: two daemons and a client, since three
  processes are needed for one to remove what a second made while a third
  holds, one of another user (`Foreign`); two crashes. Flips: two workers, two
  consecutive transitions, one recovery, one crash. Stream: two watchers,
  queues of two chunks, three bytes, a replay of one, one respawn. Silent
  lanes: clock 4 exceeds threshold 3 and cache life 2. Board: one lane with
  two agents, two transcripts, one edit in the middle of a build, one respawn;
  documents with a claimed task with and without a readable time, a blocked
  task in the cross-lane pool, an undeclared header and an id that occurs
  twice. Signals: labels that are known, unknown, empty and the
  orchestrator's, in and after a cell and outside the table; two
  configurations of the mission, so that the two rosters can differ, and one
  that cannot be loaded; two minutes, one signal (two in `Signal_kept`). Gate:
  one session, two overlapping calls, a budget of one in a window of two, two
  processes. Governor: about eleven hundred calls, every head of the policy's
  tables with and without a denied argument, every kind of place a path can
  lead to, relative ones that mean one file to the command and another to the
  hook, in every route a write can take; one stored rule at a time, of the
  extracted ones and two typed in by hand.

Every module has a type invariant or small, evident types; section 5 says
which are proved.

`CHECK_DEADLOCK FALSE` stands where the system may rest: all work is done,
processes have ended, or the bound on a log or clock is reached.

### Fairness

- Queue (`FairSpec`): weak fairness of the applier's steps, its start
  included. The server's drain loop runs every second, `run_forever` polls,
  and a client drains for itself when no applier is alive. Nothing is assumed
  of clients, crashes or failures.
- Close: weak fairness of the closing process, of the operator's `--resume`
  (the premise of the property is that somebody resumes) and of the queue's
  answers, which is what `EveryRequestAnswered` shows of the queue.
- Tasks: weak fairness of the applier for each row, for the same reason, of a
  reclaim that was called, and of the operator's reclaim from each lane that
  stays dead (RULE 6 asks for a scan of all rows). Nothing is assumed of
  agents.
- Watchdog: weak fairness of the pass and of the next server's load of the
  state file. The pass is a loop of the server with a sleep of a minute, and
  catches what its detectors raise.
- Narrator: weak fairness of the supervisor and of the scheduler. Both are
  tasks of one event loop, and all they wait for has a timeout (the health
  request, the sleeps, the interval, each narration). Nothing is assumed of
  the child, the port or the watchers.
- Wall: weak fairness of each source's poll and of the daily log's rollover,
  drainer and emitter, which are tasks of the same loop. Nothing is assumed of
  writers and viewers.

## 4. Where code and documents disagree

The seven violated runs:

1. **In-doubt requests** (`Queue_indoubt`, `applier.py:493`). After a crash
   between applying and the APPLIED line, `STATUS_ROW_INSERT`, `TASKS_INJECT`
   and `CLAIM_DIR_CREATE` are run again, find their own effect and are
   reported rejected. The design document promises a no-op.
2. **Applier lock** (`Singleton_race`, `applier.py:237`). A directory without
   `pid.txt` is taken for stale, which a live process's lock is between its
   two operations.
3. **Repeated reclaim** (`Board_reclaim`, `server.py:3746`). The claim is
   removed at once, the row that says so is only queued; the second call
   removes the claim of whoever took the task over.
4. **Governed marker** (`Fleet_marker`, `spawn.py:749`). The marker of an
   earlier process is removed only after the ungoverned one lives; a crash in
   between makes the next server show it as governed.
5. **Signal records** (`Signal_kept`, `server.py:1492`). Of two signals to one
   lane with one topic in one minute the second file replaces the first; the
   comment calls the record durable.
6. **Landed flips** (`Flip_stuck`, `primitives.py:440`). The lock directory of
   a flip that landed stays, and the dashboard takes every directory for a
   stuck flip; the docstring says it is removed when the flip lands.
7. **Respawned lanes** (`Lane_dead`, `server.py:2789`). `lane_state` writes
   `running = False` when the pane is dead and nothing ever clears it; after a
   respawn it answers "not running" right after tmux said the opposite.

Observed while modelling, without a run of their own:

- A pending file with JSON that is not an object makes the sort of every drain
  raise, and nothing is answered any more (`applier.py:679`). The workloads of
  `Queue_faults` leave it out.
- A torn journal line swallows the entry after it; a torn `owner.txt` lets a
  second agent claim; a crash inside a write of `STATUS.md` or `TASKS.md`
  loses rows, although `applier.py:357` says that the "AtomicFile fsync
  discipline keeps overwrites atomic": `AtomicFile.write` (151-156) truncates
  the file and writes it anew. The properties name these exceptions (`tears`).
- `history_append` takes any recent row with both ids in it for its own
  (`queue_client.py:281-299`), and `status_update` an idle row whose notes
  contain "`<task> done`": the close of `A-1` reads complete without a row of
  its own right after the close of `A-10`.
- A reclaim asks for no proof that the lane is dead; a slow worker and the
  next owner then both work on the task (`misjudged`).
- The lock of a live applier that runs as another user is removed as stale
  (`applier.py:234`, `crossed`).
- A pipe that tmux refuses at start is never tried again by that server
  (`spawn.py:407`, `750`), and a failed respawn leaves a live lane that nobody
  reads (`603-607`).
- A close whose process died while its journal said PENDING is resumed only by
  someone who knows its id; a resume outside the duplicate window adds a
  second HISTORY row.
- The backoff of the auto-recovery counts from the start of the tick, and a
  lane that recovered after the snapshot is restarted all the same.
- `POST /api/v1/task/claim` says that the applier rejects a second claimant;
  `_apply_tasks_bracket` overwrites any bracket (`applier.py:522`).
- A failing `start_all` does not wait for the siblings of the lane that
  failed, so that a session made late survives the cleanup; the next server
  finds it.
- `respawn` leaves the pid file, `running`, `exited_rc` and the session id of
  the old process. The discovery of a session id by "one new file" may take
  another lane's transcript.
- While the narrator's own child is loading, the answer of another server on
  the port makes it ready, which the comment at `runtime.py:341` rules out; it
  lasts until the child has failed to bind.
- An `OSError` of a narrator respawn is caught nowhere: the supervisor ends,
  and `stop()` raises the error before it closes the HTTP client
  (`StopRaises`). An exception of `build_rows` ends the scheduler task, and
  the board stands still from then on (`RowsFail`).
- The recovery of stuck phase flips compares with the last event only: older
  flips that landed are "recovered" again. A lock without `owner.txt` is
  judged by that event's age, a fresh holder's too. Between the recovery's
  `rmtree` and `mkdir` a worker can make the directory, and both believe they
  won; `OneWinner` excepts flips a recovery touched.
- The hook names a lane by the base name of its working directory, which is
  the run directory for every lane the spawner starts (`hook.py:332`):
  `governor_blocked` never names a lane, contrary to the docstring of
  `get_stale_lanes`.
- `/dev/null`, `/dev/stdout` and `/dev/stderr` may be written by a redirect
  and by no other route (`policy.py:845`), and a relative path of the Write
  tool is not anchored at the project as those of redirects and commands are
  (`1738-1751`); the comment at `policy.py:833-842` says that the guards are
  identical. `WriteRoutesAgree` excepts the devices and relates the Write tool
  only where both mean one file.
- `_decide_bash` returns at the first segment with an objection, also when a
  rule overrides it, so the decision says nothing of the segments after it;
  the comment at `policy.py:1705` says that a rule for one head cannot flip
  another segment. `FloorIsFinal` is about the segment that settles the
  command.
- A quoted URL or one without a path does not match the pattern extracted from
  its own command. `rm -rf $TMPDIR/x` is carved out of the destructive check
  and then refused by the scope check when `TMPDIR` is not under `/tmp`. `tar`
  and `rm` ignore the mission's target directory.
- Notes that are in `STATUS.md` when the wall attaches are not shown live nor
  in its backfill, though the comment at `activity_wall.py:599` says they are
  part of the snapshot.
- The page and the wall judge senders by two rosters: a mission file that was
  edited or could not be read when the wall first looked makes their marks
  differ until the server is restarted. `_roster_labels` also adds
  `LANE-UNKNOWN` for a lane without a name, which the wall skips; the schema
  admits none.
- `POST /api/tasks` writes lines that `build_task_line_re` does not match. A
  `blocked` STATUS row is masked by claimed or done task rows of the lane.
- Control mode is tested before a request's body is awaited (`CheckThenWait`):
  a call that passed takes effect after control mode was switched off.

## 5. The proofs

The runs check small instances; the theorems hold for **every** value of the
constants that satisfies the assumptions of the modules: any number of
requests, agents, lanes, watchers or processes, any length of a queue, any
clock, budget, ceiling and number of crashes. Each module of proofs extends
the modules it is about; `tlapm` checks it with Z3, Zenon and LS4.

`Induction` has the lemmas that several of them need. The library's induction
theorems take a predicate as a parameter, which the provers cannot
instantiate; `SetInduction` says the same of a *set* of numbers and is derived
from the well-foundedness of `<` (`BelowWellFounded`, `LeastNumber`). With it,
what a recursive function computes can be proved for every length: first that
a function that satisfies the recursion exists on `0..n` (so that the one that
TLA+ chooses does), then what holds of its values. The loop of `replay()`, the
split of a text into lines, the flattening of a list of lists, the listing of
a set of numbers in ascending order and the powers of two of a backoff are
treated so.

### What is assumed

The assumptions are named, stand in the module that declares the constants,
and are evaluated by TLC in the runs of these modules. They say that constants
have their types (a bound is a natural number, a queue has room for one
element, a number of seconds is not negative), that a placeholder such as
`None`, `NoFile` or `"unclaimed"` is not the name of a request, a process or a
task, and otherwise only: a line contains itself and file names differ
(`LineAssumption`, `RankAssumption`), a task's id occurs in itself
(`BoardAssumption` of the task protocol), daemons are not clients
(`ProcAssumption`), the queue of a connection is not longer than the wall's
ring (`WallAssumption`; 100 and 500 in the code). One theorem has a hypothesis
of its own, `OneWorkerIfPatient`; see there.

### The write queue (`QueueApplierProofs`, `QueueRefinementProofs`)

| Theorem | States |
|---|---|
| `TypeCorrect` | `Spec => []TypeOK` |
| `AppliedShown` | `Spec => []AppliedIsShown`: what is archived or journalled as applied is in the documents |
| `SingleClaimant` | `Spec => []OneClaimant`: two granted claims of one task name one agent |
| `AppendOnce` | `Spec => []NoDuplicateLines` |
| `ArchiveMatchesJournal` | `Spec => []ArchiveAgreesWithJournal`: directory and journal tell one story of every request |
| `LandedAppendStands` | `Spec => []LandedAppendNotRejected` |
| `NothingTakenBack` | `Spec => ReapplyTakesNothingBack`: a step that applies a request again restores no older row |
| `QueueIsExactlyOnce` | `Spec => ImplementsLog`: the queue implements `ExactlyOnceLog` |

The first four rest on `QueueInv == TypeOK /\ InHand /\ AppliedIsShown /\
Believed`. `AppliedIsShown` alone is not inductive, for two reasons. The
applier acts on beliefs it acquired earlier: it archives because it has just
journalled, or because it found the id in its replayed set. `Believed` says
that each such belief is already true of the documents. And the handlers act
on `cur`: `InHand` says it is a pending file which the rest of the drain will
not visit again, and that a claim between its two operations is a directory
without an owner. A line of the journal is believed only when it ends in a
newline (`settled`): one that does not is lost with the next append. The step
from there is monotonicity (`Grows`): no handler, torn write or failure takes
away what a request showed, except an `owner.txt` or a document that was torn,
which `tears` remembers. `SingleClaimant` follows because an owner, once
written and not torn, is never replaced; `AppendOnce` because a handler
appends only what `Present` does not find, and a line contains itself.

`JournalInv` is about journals that no crash has torn and no failing write has
cut short (`JournalWhole`): what the journal says of a request agrees with the
directory it is in and, for the request in hand, with the point the applier is
at. `LandedInv` adds that an append that took effect stays in doubt or is
applied and is never at a point that leads to a rejection. `NothingTakenBack`
needs an order: `DrainOrder` says that the batch is visited by time stamp and
that no landed request is behind the applier, `RowOrder` that the row a landed
request wrote was last written by it or by an earlier one; so a second
application finds its own row. The refinement puts these together (`FullInv`)
with `FormInv`: what was refused had a malformed line or a precondition that
failed. Each of the queue's actions is then one of the four steps of
`ExactlyOnceLog` (`Submit`, `TakeEffect`, `Confirm`, `Refuse`) or leaves its
variables alone.

### Task protocol (`BlackboardProofs`)

`TypeCorrect` (`TypeOK`), `OneWorkerIfPatient` (`Patient` implies `OneWorker`)
and `FoundWorkIsRecovered` (`WorkIsRecovered`: no claim with a finding is
freed), for any number of agents, tasks, deaths, respawns, signals and
reclaims from the living, and any relation between the ids and the names of
findings. A reclaim from a living agent costs `OneWorker` for the task it was
about; the theorem says that it costs it for no other. `Patient` is needed: it
says that the operator waits for the rows in the queue before the next
reclaim, and `Board_reclaim` is the counterexample without it. The inductive
invariant has two parts. `ClaimInv`: who works owns the claim, and `mkdir` let
in one. `RowInv`: a row is right about the claim *once its queue is empty*
(`Final` is the row after all pending requests), except between the removal of
the claim and the request that says so, and then its agent is dead or the task
is one of the `misjudged`.

### Journal, close, watchdog, recovery (`WorkProofs`)

| Theorem | States |
|---|---|
| `CloseTypeCorrect` | `CloseSpec => []CloseTypeOK` |
| `EffectsInOrder` | `CloseSpec => []InRuleTenOrder`, through crashes, timeouts, torn journals, failures of the applier and resumes |
| `CompleteIsClosed` | `CloseSpec => []CompleteMeansClosed`: the done file, the bracket, a history row and an idle lane row, the last two its own or look-alikes |
| `RememberedAlertsWereTold` | `[]RememberedIsTold` for any lanes and deaths of the server |
| `StormsEnd` | `[]StormEnds` for any grace, backoff, ceiling and interval |
| `RecoveryTypeCorrect` | `[](RecoveryTypeOK /\ HeldBack)`: the attempts stay within their ceiling, and no lane is held back for longer than the cap, however often its backoff has doubled |
| `JournalIsTheMap` | `JournalLogSpec => ImplementsMap`: the log file, read back by `replay()`, implements `JournalMap`, the journal that `QueueApplier` has |

`CloseInv`: what the process or its journal calls ok has taken effect, in
order (`OksTook`), and a request waits in the queue only when the effects
before its own are there (`QueueInOrder`): a request that timed out is still
applied later, when another attempt has gone on, so order has to hold of the
whole queue. `DogInv` follows an alert through its three writes; its memory,
in the process and in the file, is behind them at every point at which the
server can die. `StormInv` counts a restart that is awaited and not yet booked
as an attempt; `TwoToIs` and `BackoffIs` bound the backoff.

`JournalIsTheMap` closes the gap between the queue's proofs, which have the
journal as a map, and the file. `ReplayLoopDef` says that the loop has a dict
after every line, `ReplayOneMore` that reading a log with one more line is
reading the log and then the line (both by induction over the lines), and
`ReplayLineIs` what one line does to each key. `WriteStep` then makes of an
appended line, also one that is swallowed by the torn line before it, the
update of one key in `JournalMap`; `LogInv` is needed for the values: after
any log a dict holds only the three statuses of a replayed request.

### Narrator and wall (`WatchProofs`)

`RespawnsBounded` (`RespawnsAreBounded`), `NoChildLeft` (`NoChildAfterStop`),
`NoWakeupIsLost` (`NoLostWakeup`), `NarrativeTypeCorrect` (`NarrativeTypeOK`)
and `NewestFrameIsKept` (`NewestIsKept`). The first two rest on `RuntimeInv`,
which ties three counters of progress together: where the supervisor is, how
many failures it has counted and how many children were born (`Budget`), and
which stages of `stop()` the supervisor can be in, and with what child
(`Stages`). `NoLostWakeup` needs that the hub's `_count` is the cardinality of
its subscribers (`BoardInv`); otherwise "the first one" and "nobody watches"
need not be what the counter says. `FrameInv` says that a watcher's queue ends
with the newest frame.

Of the wall: `WallTypeCorrect` (`WallTypeOK`), `NotesAreToldOnce` (`NoteOnce`)
and `StreamsFollowTheRing` (`StreamIsEndOfRing`: what a connection has still
to send is the end of the ring, so that a slow one loses the oldest events and
never one from the middle), for any number of connections, notes, writes,
replacements and days. The invariant is `WallInv`. `NoteOnce` speaks of the
ring only, and the ring forgets; what is inductive is that every note on the
ring was *seen* by the source and that the source has seen none before its
first look (`NotesTold`). It has to survive what else is emitted, so the types
are part of it, down to the lines that a poll of a tail yields (`SplitIs`,
`TailReadIs`), the files of a directory poll (`AscendingIs`, `FlattenSeqIs`)
and the listing of the new notes without repetition (`SetToSeqIs`). `IsEnd` is
the relation of a bounded queue to what was put into it: `NewestIs`,
`EndsGrowTogether`, `EndOfEnd` and `EndTransitive` are its laws, and
`EmitKeeps` puts them together for `_emit`.

### Fleet (`FleetProofs`)

`FleetTypeCorrect` (`TypeOK`), `GovernedLanesAreBorn` (`GovernedIsBorn`),
`LanesArePiped` (`LaneIsPiped`) and `ManualSessionsSurvive`
(`ManualSessionsLive`), for any lanes and settings and without a bound on
servers and crashes. `FleetInv` says per lane who is at work on it in which
life of the server (`JobInv`), what exists of its session then (`SessionInv`),
who owes it a pipe or was refused one (`PipeInv`), and what marker and memory
say of the process in the pane (`RegimeInv`): a marker that was written for it
tells the truth, and so does the server. The history variable `told` keeps
apart the processes whose marker was never written, as when a server died
first; those are what `Fleet_marker` exhibits.

### Server (`ServerProofs`)

| Theorem | States | Inductive invariant |
|---|---|---|
| `NoByteIsMissed` | `NothingMissed` | `StreamInv`: types and bounded queues; `PutKeeps` says that a full queue loses its head and nothing else |
| `FlipHasOneWinner` | `OneWinner` | `FlipInv`: of a flip that no recovery has touched, one worker at most is beyond `mkdir`, and none once the event is there (`OneTaker`) |
| `BudgetHolds` | `InjectBudget` | `RateInv`: the limit's memory is a suffix of all that was admitted, and what it forgot is out of the window |
| `SessionsSurviveRestart` | `RestartKeepsSessions` | inductive by itself; the work is in what `Persist` leaves in the file |
| `FloorsAreFinal`, `OneWriteLock` | `FloorIsFinal`, `WriteRoutesAgree` | `HookInv`: the decision in hand is `Decide` of the call in hand and some rules; the rest is about `Decide`, for every call, not only the enumerated ones |
| `ParsersAgree` | `ReadersAgree` | `ConfigLoaded`: the server runs with a configuration. The rest is that the two parsers name one sender whatever the rosters (`BothReadAlike`), and that one configuration makes one roster (`OneRoster`) |
| `AccusedLanesWereSilent` | `StaleIsRecent` | `StaleInv`: what was judged at the time of computing, of the cache and of the answer (`Judged`) |
| `DigestsAreOwn` | `DigestIsTheLanes` | `DigestInv`: a session id is owned by an agent its lane has named, also one found by a thread and used later (`Owns`, `BuildInv`) |
| `PillsAgree` | `PillAndNowAgree` | inductive by itself, by a case split over the branches of `Assembled` |

`Min` and `Max` of sets of positions are handled by `MinIsLeast` and
`MaxIsPlace`, from the well-foundedness of the natural numbers.

### The lock (`ServerProofs`)

`LockTypeCorrect` (`LockTypeOK`) and `LockIsExclusive` (`SingleWhenSerial`),
for any number of daemons and clients. The run `Singleton_race` shows that the
lock is not exclusive without qualification; the proof shows that an overlap
of two takings or releases and the live holder of another user are the *only*
ways to lose it. `Serial` is the content of `LockInv`: as long as neither
happened (`~met`, `~crossed`), one process at a time is taking or releasing,
`pid.txt` names the holder, and a process that may remove or replace the
lock's files meets no holder.

### Model-checked only

- Liveness: `EveryRequestAnswered`, `EventuallyClosed`, `DeadClaimIsFreed`,
  `SickIsTold`, `WatcherIsServed`, `ItemsReachTheWall`. The prover has no
  fairness.
- The types of the modules without a type invariant of their own.
- The seven violated runs are counterexamples and need no proof.

## 6. Plan

Done: all the models of section 2, and the proofs of section 5.

Every invariant, action property and refinement of the passing runs is proved.
Next, proofs: that a tail yields only whole lines of some inode's text, from a
lemma on `Split` and concatenation.

After that, models: the `direct_fcntl` backend as a second implementation of
the steps of `AtomicClose`; the queue-status endpoint against an applier in
another process.

## 7. Not modelled, and why

- The tokenisation of shell text and the regular expressions of the governor's
  policy, and the redaction of its audit line: processing of strings without
  state. `Governor` begins where they end.
- Rendering, formatting and the wording of prompts, signals, alerts and notes;
  endpoints that return the content of a file.
- The queue-status endpoint: with an applier in another process a request may
  move from `pending` to `applied` between its two looks and be reported
  unknown (`server.py:3893`).
- Mission file and command lines of the harnesses (inputs, read once); the
  preflight interview; the run, benchmark, export and report scripts (single
  processes that write once); the old UI's mutations, which nothing calls;
  test doubles; the browser UI.
- The `direct_fcntl` backend, an alternative to the queue chosen by an
  environment variable.
- The flush of file systems: a file operation that returned is on the disk.
  The journal and `AtomicFile` call `fsync`; the other writes (claims,
  renames, markers) rely on it without.
- Of a crash inside a write: a partial line appended to `HISTORY.md` or
  `.mission-events` (the appends of the model are whole), and the end of a
  longer former version that a crash can leave in an overwritten document.
- A read that fails while the pending directory is listed and sorted.
- `history_append` searches the last 50 lines of `HISTORY.md` only; the model
  searches all of them, so that a row can be missed only by its time.
- A pid that is given to a new process while `pid.txt` still has it: the lock
  would be taken for held.
