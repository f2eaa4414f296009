----------------------------- MODULE EventTail -----------------------------
(***************************************************************************)
(* event_tail.py: following a file that others append to or replace, and a *)
(* directory in which files appear.  A text is a sequence of lines' texts  *)
(* (numbers) and line ends.  A disk has the file's current inode (0: there *)
(* is none) and the text of every inode there was, which an open handle    *)
(* can still read.                                                         *)
(***************************************************************************)
EXTENDS Naturals, Sequences, FiniteSets, SequencesExt

LineEnd == 0

Absent(inodes) == [cur |-> 0, text |-> [i \in 1..inodes |-> <<>>]]

\* With room for n inodes
Disks(n) == [cur : 0..n, text : [1..n -> Seq(Nat)]]

Text(disk) == IF disk.cur = 0 THEN <<>> ELSE disk.text[disk.cur]

\* A finite set of numbers, smallest first
Ascending(S) ==
    CHOOSE f \in [1..Cardinality(S) -> S] :
        \A i, j \in 1..Cardinality(S) : i < j => f[i] < f[j]

\* The complete lines of a text
Lines(text) ==
    {text[i] : i \in {j \in 1..(Len(text) - 1) : text[j] # LineEnd /\ text[j + 1] = LineEnd}}

-----------------------------------------------------------------------------
\* The locals of tail_file_lines.  off is where the handle is: the code keeps
\* it as last_pos.
TailStart ==
    [step |-> "sleep", open |-> 0, ino |-> 0, off |-> 0, partial |-> <<>>,
     statted |-> FALSE, first |-> FALSE, stIno |-> 0, stSize |-> 0]

Tails(n) ==
    [step : {"sleep", "stat"}, open : 0..n, ino : 0..n, off : Nat, partial : Seq(Nat),
     statted : BOOLEAN, first : BOOLEAN, stIno : 0..n, stSize : Nat]

\* After the sleep: os.stat.  A file that is not there has been looked for.
TailStat(t, disk) ==
    IF disk.cur = 0 THEN [t EXCEPT !.statted = TRUE]
    ELSE [t EXCEPT !.step = "stat", !.first = ~t.statted, !.statted = TRUE,
                   !.stIno = disk.cur, !.stSize = Len(disk.text[disk.cur])]

\* Mutant: a file that was replaced is read on from the old position.
RotatedBySize(t) == t.open = 0 \/ t.stSize < t.off

Rotated(t) == t.open = 0 \/ t.ino # t.stIno \/ t.stSize < t.off

\* open(): the file may be another one than stat() saw.  The end of the file
\* is sought only the first time.
Reopen(t, disk) ==
    [t EXCEPT !.open = disk.cur, !.ino = t.stIno,
              !.off = IF t.ino = 0 /\ t.first THEN Len(disk.text[disk.cur]) ELSE 0]

\* "".split("\n"): the complete lines, and the last one that has no end yet
SplitChar(parts, x) ==
    IF x = LineEnd THEN [lines |-> Append(parts.lines, parts.kept), kept |-> <<>>]
                   ELSE [parts EXCEPT !.kept = Append(@, x)]

Split(text) ==
    LET upTo[i \in 0..Len(text)] ==
            IF i = 0 THEN [lines |-> <<>>, kept |-> <<>>] ELSE SplitChar(upTo[i - 1], text[i])
    IN  upTo[Len(text)]

\* The rest of the poll: reopen if rotated, read to the end of the handle's
\* file if stat() saw more than was read, split.  Gives the locals and the
\* lines that are yielded.
TailRead(t, disk) ==
    LET lost   == Rotated(t) /\ disk.cur = 0
        u      == IF Rotated(t) /\ ~lost THEN Reopen(t, disk) ELSE t
        text   == disk.text[u.open]
        chunk  == SubSeq(text, u.off + 1, Len(text))
        parts  == Split(t.partial \o chunk)
    IN IF lost THEN [tail |-> [t EXCEPT !.step = "sleep", !.open = 0], lines |-> <<>>]
       ELSE IF t.stSize <= u.off THEN [tail |-> [u EXCEPT !.step = "sleep"], lines |-> <<>>]
       ELSE [tail |-> [u EXCEPT !.step = "sleep", !.off = Len(text), !.partial = parts.kept],
             lines |-> parts.lines]

-----------------------------------------------------------------------------
\* One poll of watch_dir_for_new_files: the files that were not there the last
\* time, oldest first.  A file is its number, which is also its mtime.
NewFiles(snapshot, current) == Ascending(current \ snapshot)

=============================================================================
