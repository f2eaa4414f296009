----------------------------- MODULE JournalLog -----------------------------
(***************************************************************************)
(* queue/journal.py: journal.log as a sequence of lines, and replay() as   *)
(* the loop over them.  It implements JournalMap, which QueueApplier uses. *)
(***************************************************************************)
EXTENDS Naturals, Sequences

CONSTANTS Req,
          MaxLines  \* bound: lines of journal.log

VARIABLES
    lines,    \* complete lines: an entry, or garbage that does not parse
    partial   \* what follows the last newline: nothing, a line that does not
              \* parse, or an entry that lacks only its newline

journalLog == <<lines, partial>>

Garbage == [rid |-> "none", status |-> "GARBAGE"]
NoLine == [rid |-> "none", status |-> "NO-LINE"]
Statuses == {"PENDING", "APPLIED", "REJECTED"}

JournalLogInit == lines = <<>> /\ partial = NoLine

\* What stands after the last newline once an entry was written there.
Glued(r, status) ==
    IF partial = NoLine THEN [rid |-> r, status |-> status] ELSE Garbage

\* _append: open for appending, write the line, flush, fsync.  Behind a
\* partial line the new entry becomes part of one line that does not parse.
Write(r, status) ==
    /\ Len(lines) < MaxLines
    /\ lines' = Append(lines, Glued(r, status))
    /\ partial' = NoLine

\* The process dies inside write().
Tear(r, status) ==
    /\ Len(lines) < MaxLines
    /\ partial' \in {Garbage, Glued(r, status)}
    /\ UNCHANGED lines

JournalLogNext ==
    \E r \in Req, status \in Statuses : Write(r, status) \/ Tear(r, status)

JournalLogSpec == JournalLogInit /\ [][JournalLogNext]_journalLog

\* states[rid] = value
SetItem(states, rid, value) ==
    [id \in DOMAIN states \cup {rid} |-> IF id = rid THEN value ELSE states[id]]

Meaning(status) == IF status = "PENDING" THEN "PENDING_INDOUBT" ELSE status

\* Mutant: the last line decides.
ReplayLineLastWins(states, entry) ==
    IF entry = Garbage THEN states
    ELSE SetItem(states, entry.rid, Meaning(entry.status))

\* The body of replay()'s loop; states is the dict it fills.
ReplayLine(states, entry) ==
    IF \/ entry = Garbage
       \/ entry.status = "PENDING" /\ entry.rid \in DOMAIN states
    THEN states
    ELSE SetItem(states, entry.rid, Meaning(entry.status))

\* The loop: the dict after each line.
ReplayLoop(log) ==
    LET states[i \in 0..Len(log)] ==
            IF i = 0 THEN <<>> ELSE ReplayLine(states[i - 1], log[i])
    IN  states

Lookup(states) == [r \in Req |-> IF r \in DOMAIN states THEN states[r] ELSE "NONE"]

\* What the complete lines say; ...
Terminated == ReplayLoop(lines)[Len(lines)]

\* ... and replay().get(rid), which reads what follows them too.
Replay ==
    Lookup(IF partial = NoLine THEN Terminated ELSE ReplayLine(Terminated, partial))

-----------------------------------------------------------------------------
Map == INSTANCE JournalMap WITH
    journal <- Replay, settled <- Lookup(Terminated), torn <- partial # NoLine

\* The log on disk, read back by replay(), behaves as the map the applier
\* reasons with: in particular a PENDING entry written after a terminal one
\* does not bring a request back in doubt, and a torn line costs exactly the
\* entry that is glued to it, and the torn one if only its newline was missing.
ImplementsMap == Map!JournalSpec

=============================================================================
