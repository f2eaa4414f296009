------------------------------ MODULE Governor ------------------------------
(* The permission governor: what the PreToolUse hook answers for a tool call  *)
(* of a lane (governor/policy.py, governor/hook.py), and the operator's rules *)
(* it reads on the way (approval_rules.py, the approval-rules endpoints).     *)
(*                                                                            *)
(* A place is where a path leads after symlinks and "..": [at, kind],         *)
(* "tmpdir" being a path spelled with $TMPDIR that is not under /tmp,         *)
(* "secretlink" a name with a secret's signature that resolves to an ordinary *)
(* file, "hidden" the reverse.  A path is [spelled, named, seen]: the place   *)
(* it names from project_dir, where the lane's commands run, and the one it   *)
(* names from the directory the hook runs in; an absolute path names one      *)
(* place.  "bare" is a name without slash or leading dot, "device" one of     *)
(* /dev/null, /dev/stdout and /dev/stderr.  A segment of a Bash command is    *)
(* what tokenising leaves of it: the redirect targets it writes, the words    *)
(* before its head, the head, whether one of the arguments the head's own     *)
(* denylist names is there (bad), whether rm is recursive or forced, its      *)
(* operands, and the directory an option names (into, a sequence of at most   *)
(* one).                                                                      *)
EXTENDS Naturals, Sequences, SequencesExt, FiniteSetsExt

CONSTANTS Calls,      \* the tool calls the lanes make
          Patterns,   \* the patterns an operator may type in by hand
          HasTarget,  \* whether the mission works on an external repository
          MaxRules    \* bound on the rules stored at a time

VARIABLES rules,      \* .fleet/approval-rules.json: patterns, oldest first
          call,       \* the tool call the hook was last started for
          decision    \* [permission, category] it wrote to stdout

governor == <<rules, call, decision>>

Floors == {"bash-root-destructive", "bash-privilege", "secret-read",
           "anti-tamper", "write-secret", "write-out-of-scope"}

Allow(category) == [permission |-> "allow", category |-> category]
Deny(category) == [permission |-> "deny", category |-> category]

-----------------------------------------------------------------------------
(* Verdicts on paths and segments are a category, "ok" when there is no objection.  *)

FirstObjection(verdicts) ==
  LET bad == {i \in DOMAIN verdicts: verdicts[i] # "ok"}
  IN IF bad = {} THEN "ok" ELSE verdicts[Min(bad)]

WithinScope(place, target) ==
  \/ place.at \in {"project", "tmp"}
  \/ target /\ place.at = "target"

ExplicitTemp(path) == path.spelled = "absolute" /\ path.named.at \in {"tmp", "tmpdir"}

ReadVerdict(place, target) ==
  IF place.kind \in {"secret", "secretlink", "hidden"} THEN "secret-read"
  ELSE IF WithinScope(place, target) THEN "ok" ELSE "out-of-scope"

WriteTarget(place, target) ==
  IF place.kind = "governor" THEN "anti-tamper"
  ELSE IF place.kind \in {"secret", "hidden"} THEN "write-secret"
  ELSE IF WithinScope(place, target) THEN "ok" ELSE "write-out-of-scope"

\* Heads that are refused whatever their arguments, and with an argument of their denylist.
AlwaysDenied == [ sudo    |-> "bash-privilege",   chmod |-> "bash-privilege",
                  python3 |-> "bash-interpreter", pytest |-> "bash-interpreter",
                  vim     |-> "bash-editor",      make  |-> "bash-exec-runner",
                  pip     |-> "bash-installer",   curl  |-> "bash-network",
                  dd      |-> "bash-destructive", xargs |-> "bash-flag-exec" ]
DeniedWithArgument == [ bash |-> "bash-interpreter", source |-> "bash-interpreter",
                        uv   |-> "bash-interpreter", find   |-> "bash-flag-exec",
                        git  |-> "bash-flag-exec",   sed    |-> "bash-flag-exec",
                        tar  |-> "bash-flag-exec" ]
ReadHeads == {"cat", "find", "sed"}
MutationHeads == {"cp", "ln", "tee", "mktemp", "split", "csplit", "pv"}

\* rm -rf of the root
RootDestructive(s) == s.forced /\ \E i \in DOMAIN s.operands: s.operands[i].seen.at = "/"

\* rm: recursive or forced only in a scratch directory, then every target as a read;
\* no form of it knows the target repository.
RmVerdict(s) ==
  IF RootDestructive(s) THEN "bash-root-destructive"
  ELSE IF s.forced /\ (s.operands = <<>> \/ \E i \in DOMAIN s.operands: ~ExplicitTemp(s.operands[i]))
       THEN "bash-destructive"
  ELSE FirstObjection([i \in DOMAIN s.operands |-> ReadVerdict(s.operands[i].named, FALSE)])

\* tar writes to the directory of -C and to the archive it creates, both here the
\* operands; the target repository is not passed on.
TarVerdict(s) ==
  IF \E i \in DOMAIN s.operands: WriteTarget(s.operands[i].named, FALSE) # "ok" THEN "bash-flag-exec" ELSE "ok"

\* Mutation of Operands: the last operand is the destination even when an option names it.
OperandsIgnoreOption(s) ==
  IF s.head = "tee" THEN [from |-> <<>>, to |-> s.operands, ok |-> TRUE]
  ELSE IF s.operands = <<>> THEN [from |-> <<>>, to |-> <<>>, ok |-> FALSE]
  ELSE [from |-> Front(s.operands), to |-> <<Last(s.operands)>>, ok |-> TRUE]

\* Which operands of a mutation head are read and which are written.
Operands(s) ==
  LET ops == s.operands
      parts(from, to) == [from |-> from, to |-> to, ok |-> TRUE]
      refused == [from |-> <<>>, to |-> <<>>, ok |-> FALSE]
  IN IF s.bad THEN refused                                 \* an option without its value
     ELSE
     CASE s.head \in {"cp", "ln"} /\ s.into # <<>> -> IF ops = <<>> THEN refused ELSE parts(ops, s.into)
       [] s.head = "cp" /\ s.into = <<>> -> IF Len(ops) < 2 THEN refused ELSE parts(Front(ops), <<Last(ops)>>)
       [] s.head = "ln" /\ s.into = <<>> -> IF ops = <<>> THEN refused ELSE parts(<<ops[1]>>, Tail(ops))
       [] s.head = "tee" -> parts(<<>>, ops)
       [] s.head = "mktemp" ->
            parts(<<>>, IF s.into # <<>> THEN s.into ELSE IF ops = <<>> THEN <<>> ELSE <<Last(ops)>>)
       [] s.head = "split" -> IF ops = <<>> THEN refused ELSE parts(Front(ops), <<Last(ops)>>)
       [] s.head = "csplit" -> parts(IF ops = <<>> THEN <<>> ELSE <<ops[1]>>, s.into)
       [] s.head = "pv" -> parts(ops, s.into)

MutationVerdict(s, target) ==
  LET o == Operands(s)
  IN IF ~o.ok THEN "write-out-of-scope"
     ELSE FirstObjection([i \in DOMAIN o.from |-> ReadVerdict(o.from[i].named, target)]
                         \o [i \in DOMAIN o.to |-> WriteTarget(o.to[i].named, target)])

\* An argument of a read head: one that does not look like a path is only
\* compared with the names of secrets.
ReadArgument(path, target) ==
  IF path.spelled # "bare" THEN ReadVerdict(path.seen, target)
  ELSE IF path.named.kind \in {"secret", "secretlink"} THEN "secret-read" ELSE "ok"

HeadVerdict(s, target) ==
  IF s.head \in DOMAIN DeniedWithArgument /\ s.bad THEN DeniedWithArgument[s.head]
  ELSE
  CASE s.head \in DOMAIN AlwaysDenied -> AlwaysDenied[s.head]
    [] s.head = "rm" -> RmVerdict(s)
    [] s.head = "tar" -> TarVerdict(s)
    [] s.head \in MutationHeads -> MutationVerdict(s, target)
    [] s.head \in ReadHeads ->
         FirstObjection([i \in DOMAIN s.operands |-> ReadArgument(s.operands[i], target)])
    [] OTHER -> "ok"

RedirectVerdict(s, target) ==
  FirstObjection([i \in DOMAIN s.writes |->
                   IF s.writes[i].spelled = "device" THEN "ok"
                   ELSE WriteTarget(s.writes[i].named, target)])

\* The words in front of the head are peeled off; env -S runs its argument.
PrefixVerdict(s) == IF "env -S" \in ToSet(s.prefix) THEN "bash-exec-runner" ELSE "ok"

\* One segment: what it cannot parse is refused, then its parts in order
AdjudicateSegment(s, target) ==
  IF ~s.parses THEN "bash-parse-error"
  ELSE FirstObjection(<<RedirectVerdict(s, target), PrefixVerdict(s), HeadVerdict(s, target)>>)

-----------------------------------------------------------------------------
(* The operator's rules.  <<"head", h>> allows every command with that head,  *)
(* <<"url", host>> a curl of any path of that host with the same flags.       *)

\* The head a rule is compared with is the first word of the segment, unpeeled.
FirstWord(s) == IF s.prefix # <<>> THEN s.prefix[1] ELSE s.head

\* A glob is matched against the text of the segment, so a URL that is quoted or
\* that has no path after its host does not match its own pattern.
SpecMatches(rule, s) ==
  IF rule[1] = "head" THEN rule[2] = FirstWord(s)
  ELSE s.head = "curl" /\ s.prefix = <<>> /\ s.url.plain /\ s.url.host = rule[2]

\* extract_pattern: nothing for a compound command or one with a redirect.
Extract(segments) ==
  LET s == segments[1]
  IN IF Len(segments) # 1 \/ ~s.parses \/ s.writes # <<>> THEN {}
     ELSE IF s.head = "curl" /\ s.prefix = <<>> /\ s.url.host # "none" THEN {<<"url", s.url.host>>}
     ELSE {<<"head", FirstWord(s)>>}

\* Mutation of OverrideOf: a rule is consulted before the floor.
OverrideOfAny(category, s, specs) ==
  IF \E rule \in specs: SpecMatches(rule, s) THEN Allow("allow-override") ELSE Deny(category)

\* What becomes of a segment that was refused.
OverrideOf(category, s, specs) ==
  IF category \notin Floors /\ s.parses /\ \E rule \in specs: SpecMatches(rule, s)
  THEN Allow("allow-override") ELSE Deny(category)

\* _decide_bash: the checks on the whole text, then the first segment with an
\* objection settles the command.
DecideBash(c, specs, target) ==
  CASE c.shape = "empty" -> Allow("bash-empty")
    [] c.shape = "canary" -> Deny("governor-canary")
    [] c.shape = "substitution" -> Deny("bash-substitution")
    [] c.shape = "function" -> Deny("bash-destructive")
    [] OTHER ->
         LET objected == {i \in DOMAIN c.segments: AdjudicateSegment(c.segments[i], target) # "ok"}
         IN IF objected = {} THEN Allow("bash-ok")
            ELSE LET s == c.segments[Min(objected)]
                 IN OverrideOf(AdjudicateSegment(s, target), s, specs)

\* The tools' paths are not anchored at project_dir.
DecideRead(paths, target) ==
  IF paths = <<>> \/ ReadVerdict(paths[1].seen, target) = "ok"
  THEN Allow("read-ok") ELSE Deny(ReadVerdict(paths[1].seen, target))

DecideWrite(paths, target) ==
  IF paths = <<>> THEN Deny("write-out-of-scope")
  ELSE IF WriteTarget(paths[1].seen, target) = "ok" THEN Allow("write-ok")
  ELSE Deny(WriteTarget(paths[1].seen, target))

\* A host is on the list, is below one that is, or is not on it; a missing list is empty.
DecideWebfetch(host) ==
  IF host \in {"listed", "below-listed"} THEN Allow("network-host-ok") ELSE Deny("network-host")

\* decide(): any exception is a refusal.
Decide(c, specs, target) ==
  CASE c.tool = "TodoWrite" -> Allow("inert")
    [] c.tool = "Task" -> Deny("subagent-spawn")
    [] c.tool = "Bash" -> DecideBash(c, specs, target)
    [] c.tool = "Read" -> DecideRead(c.paths, target)
    [] c.tool = "Write" -> DecideWrite(c.paths, target)
    [] c.tool = "WebFetch" -> DecideWebfetch(c.host)
    [] c.tool = "raises" -> Deny("governor-error")
    [] OTHER -> Deny("unknown-tool-deny")

-----------------------------------------------------------------------------
NoCall == [tool |-> "none"]

GovernorInit ==
  /\ rules = <<>>
  /\ call = NoCall /\ decision = NoCall

\* The hook of one tool call: it reads the rules as they are at this moment.
\* Input it cannot parse is refused before the policy is asked.
RunHook ==
  \E c \in Calls:
    /\ call = NoCall
    /\ call' = c
    /\ decision' = IF c.tool = "bad input" THEN Deny("governor-error")
                   ELSE Decide(c, ToSet(rules), HasTarget)
    /\ UNCHANGED rules

\* The hook is a process of its own for every call.
HookExits ==
  /\ call # NoCall
  /\ call' = NoCall /\ decision' = NoCall
  /\ UNCHANGED rules

\* POST: the pattern extracted from a refused command, or one typed in; a pattern
\* that is already there is answered with its entry.
PostApprovalRule ==
  \E pattern \in Patterns \cup (IF call # NoCall /\ call.tool = "Bash" /\ call.shape = "plain"
                                THEN Extract(call.segments) ELSE {}):
    /\ pattern \notin ToSet(rules) /\ Len(rules) < MaxRules
    /\ rules' = Append(rules, pattern)
    /\ UNCHANGED <<call, decision>>

DeleteApprovalRule ==
  \E pattern \in ToSet(rules):
    /\ rules' = SelectSeq(rules, LAMBDA r: r # pattern)
    /\ UNCHANGED <<call, decision>>

GovernorNext == RunHook \/ HookExits \/ PostApprovalRule \/ DeleteApprovalRule

GovernorSpec == GovernorInit /\ [][GovernorNext]_governor

-----------------------------------------------------------------------------
(* Properties.                                                                *)

Segment == [parses |-> TRUE, writes |-> <<>>, prefix |-> <<>>, head |-> "echo", bad |-> FALSE,
            forced |-> FALSE, operands |-> <<>>, into |-> <<>>,
            url |-> [host |-> "none", plain |-> FALSE]]
Bash(s) == [tool |-> "Bash", shape |-> "plain", segments |-> <<s>>]

Absolute(place) == [spelled |-> "absolute", named |-> place, seen |-> place]
PlainFile == Absolute([at |-> "project", kind |-> "plain"])

\* The commands that write to p: by a redirect, and as an operand of a head
Redirected(p) == [Segment EXCEPT !.writes = <<p>>]
OperandRoutes(p) ==
  { [Segment EXCEPT !.head = "tee", !.operands = <<PlainFile, p>>],
    [Segment EXCEPT !.head = "cp", !.operands = <<PlainFile, p>>],
    [Segment EXCEPT !.head = "cp", !.operands = <<PlainFile>>, !.into = <<p>>],
    [Segment EXCEPT !.head = "ln", !.operands = <<PlainFile>>, !.into = <<p>>],
    [Segment EXCEPT !.head = "pv", !.operands = <<PlainFile>>, !.into = <<p>>] }

\* One write lock for every route: tee, cp, cp -t, ln -t, pv -o and, except for
\* the three device files it lets through, a redirect give one verdict on a
\* path; where the path means the same file to the hook as to the commands, it
\* is the one the Write tool gives.
WriteRoutesAgree ==
  call.tool = "Write" /\ call.paths # <<>> =>
    LET p == call.paths[1]
        routes == OperandRoutes(p) \cup (IF p.spelled = "device" THEN {} ELSE {Redirected(p)})
        tool == IF decision.permission = "allow" THEN "ok" ELSE decision.category
    IN /\ \A s, r \in routes: AdjudicateSegment(s, HasTarget) = AdjudicateSegment(r, HasTarget)
       /\ p.named = p.seen => \A s \in routes: AdjudicateSegment(s, HasTarget) = tool

\* The operator's rules do not move the floor that settles a command: one that is
\* refused for a floor category without any rule is refused for the same category
\* with the ones stored.  It says nothing of the segments after one that a rule
\* allows: DecideBash does not look at them.
FloorIsFinal ==
  call.tool = "Bash" =>
    LET bare == Decide(call, {}, HasTarget)
    IN bare.category \in Floors => decision = bare

=============================================================================
