------------------------------ MODULE LaneBoard ------------------------------
(* The rows of the dashboard's board. A build reads TASKS.md and STATUS.md,   *)
(* recovers the session ids the spawner could not discover, reads the lanes'  *)
(* transcripts in threads and only then assembles the rows; the files, the    *)
(* transcripts and the panes go on meanwhile. Text is abstracted to where it  *)
(* comes from. Session ids start unknown: the case the recovery is for.       *)
EXTENDS Naturals, Sequences, SequencesExt, FiniteSetsExt

CONSTANTS Lanes,          \* sequence of the lanes in the order of the mission file
          Claude,         \* the lanes whose harness is claude
          Agent,
          Docs,           \* contents of TASKS.md: sequences of headers and task lines
          Rows,           \* rows of STATUS.md: [agent, says, task, note]
          MaxEdits, MaxTranscripts, MaxBoardRespawns

Nothing == "none"
LaneSet == Range(Lanes)

ASSUME LaneBoardAssumption ==
  /\ Lanes \in Seq(STRING) /\ Claude \subseteq LaneSet
  /\ \A r \in Rows : r.agent \in Agent \cup {"unclaimed"}
  /\ {MaxEdits, MaxTranscripts, MaxBoardRespawns} \subseteq Nat

VARIABLES doc,       \* TASKS.md
          status,    \* lane -> its STATUS.md row
          logs,      \* the transcripts in order of their mtime: the agent each one opens with
          session,   \* lane -> LaneSession: [id, running, exited_rc, fresh], and its pane: "alive" or its exit status
          build,     \* the build under way
          board,     \* lane -> its row
          named,     \* history: lane -> agents its STATUS row has named
          asked,     \* the last answer of GET lane/{lane}/state: [lane, running, probed]
          edits, boardRespawns

laneBoard == <<doc, status, logs, session, build, board, named, asked, edits, boardRespawns>>

NoRow == [state |-> "open", now |-> <<>>, last |-> <<>>, goal |-> <<>>, tokens |-> Nothing, liveness |-> "unknown"]
NoBuild == [at |-> "idle"]
NoAnswer == [lane |-> Nothing, running |-> FALSE, probed |-> FALSE]

LaneBoardInit ==
  /\ doc \in Docs /\ status \in [LaneSet -> Rows] /\ logs = <<>>
  /\ session = [l \in LaneSet |-> [id |-> 0, running |-> TRUE, exited_rc |-> Nothing, fresh |-> FALSE, pane |-> "alive"]]
  /\ build = NoBuild /\ board = [l \in LaneSet |-> NoRow] /\ asked = NoAnswer
  /\ named = [l \in LaneSet |-> {status[l].agent}]
  /\ edits = 0 /\ boardRespawns = 0

-----------------------------------------------------------------------------
\* TASKS.md: the task lines below a known header. A header nobody declared ends
\* the section. Sections that are not a phase come last, in tasks.cross.
SectionOf(d, i) == LET heads == {j \in 1..i : d[j].kind = "h2"}
                   IN IF heads = {} THEN "unknown" ELSE d[Max(heads)].section

ParseTasks(d) ==
  LET tasks == {i \in DOMAIN d : d[i].kind = "task"}
      In(s) == [k \in 1..Cardinality({i \in tasks : SectionOf(d, i) = s}) |->
                  d[CHOOSE i \in tasks : /\ SectionOf(d, i) = s
                                         /\ Cardinality({j \in tasks : j <= i /\ SectionOf(d, j) = s}) = k]]
  IN In("phase") \o In("cross")

\* _capture_doc_order: the place of an id's first line, whatever its section.
DocOrder(d, id) == Min({i \in DOMAIN d : d[i].kind = "task" /\ d[i].id = id})

\* _pick_latest, of the tasks at some places of ts: a readable claim time (not 0)
\* first, then the order of the file.
Latest(d, ts, places) ==
  LET Before(i, j) == \/ ts[i].utc > ts[j].utc
                      \/ ts[i].utc = ts[j].utc /\ DocOrder(d, ts[i].id) > DocOrder(d, ts[j].id)
  IN ts[CHOOSE i \in places : \A j \in places : ~Before(j, i) /\ (i <= j \/ Before(i, j))].id

\* _status_to_board_state.
StatusState(r) == CASE r.says = "blocked" -> "blocked"
                    [] r.says \in {"working", "initialized"} -> "claimed"
                    [] OTHER -> "open"

\* _resolve_task_desc, a clean note, the state itself: the text of a lane at work.
Desc(r, ts) ==
  IF r.task # Nothing /\ \E i \in DOMAIN ts : ts[i].id = r.task THEN <<"task", r.task>>
  ELSE IF r.note = "note" THEN <<"note">>
  ELSE <<"state">>

\* _derive_liveness.
Liveness(s) == CASE s.exited_rc = "0" -> "exited"
                 [] s.exited_rc \notin {"0", Nothing} -> "dead"
                 [] OTHER -> IF s.running THEN "running" ELSE "unknown"

\* Mutation of Pill: a claimed row is promoted although the agent says it is idle.
PillIgnoresIdle(r, working, gap, blocked, claimed, done) ==
  IF blocked # {} THEN "blocked"
  ELSE IF working \/ claimed # {} THEN "claimed"
  ELSE IF done # {} THEN "done"
  ELSE IF gap THEN StatusState(r) ELSE "open"

Pill(r, working, gap, blocked, claimed, done) ==
  IF blocked # {} THEN "blocked"
  ELSE IF working \/ (claimed # {} /\ r.says # "idle") THEN "claimed"
  ELSE IF done # {} THEN "done"
  ELSE IF gap THEN StatusState(r) ELSE "open"

\* assemble_lane_rows, for one lane.
Assembled(l, d, r, tokens) ==
  LET ts == ParseTasks(d)
      mine(state) == {i \in DOMAIN ts : ts[i].lane = l /\ ts[i].state = state}
      done == mine("done")  claimed == mine("claimed")  blocked == mine("blocked")
      working == r.says = "working" /\ (r.task # Nothing \/ r.note = "note")
      gap == /\ ~working /\ StatusState(r) # "open"
             /\ done = {} /\ claimed = {} /\ blocked = {}
      onTask(id) == <<id, <<"task", id>>>>
  IN [state |-> Pill(r, working, gap, blocked, claimed, done),
      now |-> IF working \/ gap THEN <<r.task, Desc(r, ts)>>
              ELSE IF r.says = "idle" \/ claimed = {} THEN <<>>
              ELSE onTask(Latest(d, ts, claimed)),
      last |-> IF done = {} THEN <<>> ELSE onTask(Latest(d, ts, done)),
      goal |-> IF working THEN Desc(r, ts)
               ELSE IF gap /\ r.note = "note" THEN <<"note">>
               ELSE IF gap \/ r.says = "idle" THEN <<"role">>
               ELSE IF claimed # {} THEN <<"task", Latest(d, ts, claimed)>>
               ELSE IF done # {} THEN <<"task", Latest(d, ts, done)>>
               ELSE <<"role">>,
      tokens |-> tokens,
      liveness |-> Liveness(session[l])]

-----------------------------------------------------------------------------
\* A build, up to its first await: the two files are read, and the lanes wanted
\* whose session is unknown and whose row names an agent.
BuildBegin ==
  /\ build.at = "idle"
  /\ build' = [at |-> "resolve", doc |-> doc, status |-> status, tokens |-> [l \in LaneSet |-> Nothing], found |-> <<>>,
               todo |-> Lanes,
               wanted |-> {l \in Claude : session[l].id = 0 /\ status[l].agent # "unclaimed"}]
  /\ UNCHANGED <<doc, status, logs, session, board, named, asked, edits, boardRespawns>>

\* Mutation of OwnedBy: the newest transcript of the directory, whoever wrote it.
OwnedByAny(agent) == DOMAIN logs

OwnedBy(agent) == {i \in DOMAIN logs : logs[i].agent = agent}

\* _resolve_session_ids_by_agent, in a thread: the newest transcript the agent opened.
Resolve ==
  /\ build.at = "resolve"
  /\ build' = [build EXCEPT !.at = "recovered",
                 !.found = [l \in {x \in build.wanted : OwnedBy(build.status[x].agent) # {}} |->
                              logs[Max(OwnedBy(build.status[l].agent))].sid]]
  /\ UNCHANGED <<doc, status, logs, session, board, named, asked, edits, boardRespawns>>

Recovered ==
  /\ build.at = "recovered"
  /\ session' = [l \in LaneSet |-> IF l \in DOMAIN build.found
                                   THEN [session[l] EXCEPT !.id = build.found[l]] ELSE session[l]]
  /\ build' = [build EXCEPT !.at = "digests"]
  /\ UNCHANGED <<doc, status, logs, board, named, asked, edits, boardRespawns>>

\* parse_session: the tokens of a transcript, here whose they are; none without it
ParseSession(id) ==
  LET mine == {i \in DOMAIN logs : logs[i].sid = id} IN IF mine = {} THEN Nothing ELSE logs[Max(mine)].agent

\* One lane's transcript, in a thread
ReadDigest ==
  /\ build.at = "digests" /\ build.todo # <<>>
  /\ LET l == Head(build.todo)
     IN build' = [build EXCEPT !.todo = Tail(@),
                    !.tokens[l] = IF l \in Claude THEN ParseSession(session[l].id) ELSE Nothing]
  /\ UNCHANGED <<doc, status, logs, session, board, named, asked, edits, boardRespawns>>

BuildEnd ==
  /\ build.at = "digests" /\ build.todo = <<>>
  /\ board' = [l \in LaneSet |-> Assembled(l, build.doc, build.status[l], build.tokens[l])]
  /\ build' = NoBuild
  /\ UNCHANGED <<doc, status, logs, session, named, asked, edits, boardRespawns>>

-----------------------------------------------------------------------------
\* GET lane/{lane}/state: tmux is asked unless it was asked in this second.
GetLaneState ==
  \E l \in LaneSet:
    LET probed == IF session[l].fresh THEN session[l]
                  ELSE [session[l] EXCEPT !.fresh = TRUE,
                          !.exited_rc = IF session[l].pane = "alive" THEN @ ELSE session[l].pane,
                          !.running = @ /\ session[l].pane = "alive"]
    IN /\ session' = [session EXCEPT ![l] = probed]
       /\ asked' = [lane |-> l, running |-> probed.running /\ probed.exited_rc = Nothing, 
                    probed |-> ~session[l].fresh]
       /\ UNCHANGED <<doc, status, logs, build, board, named, edits, boardRespawns>>

Second ==
  /\ session' = [l \in LaneSet |-> [session[l] EXCEPT !.fresh = FALSE]] /\ session' # session
  /\ asked' = NoAnswer
  /\ UNCHANGED <<doc, status, logs, build, board, named, edits, boardRespawns>>

\* The lane's process ends; respawn gives it another one and leaves the session as it is.
PaneDies ==
  \E l \in LaneSet, rc \in {"0", "1"}:
    /\ session[l].pane = "alive" /\ boardRespawns < MaxBoardRespawns
    /\ session' = [session EXCEPT ![l].pane = rc] /\ asked' = NoAnswer
    /\ UNCHANGED <<doc, status, logs, build, board, named, edits, boardRespawns>>

Respawn ==
  \E l \in LaneSet:
    /\ boardRespawns < MaxBoardRespawns /\ boardRespawns' = boardRespawns + 1
    /\ session' = [session EXCEPT ![l].pane = "alive"] /\ asked' = NoAnswer
    /\ UNCHANGED <<doc, status, logs, build, board, named, edits>>

\* The applier rewrites a document.
Edit ==
  /\ edits < MaxEdits /\ edits' = edits + 1
  /\ \/ doc' \in Docs /\ UNCHANGED <<status, named>>
     \/ \E l \in LaneSet, r \in Rows:
          /\ status' = [status EXCEPT ![l] = r]
          /\ named' = [named EXCEPT ![l] = @ \cup {r.agent}]
          /\ UNCHANGED doc
  /\ UNCHANGED <<logs, session, build, board, asked, boardRespawns>>

\* A claude opens a transcript with its agent id, or writes to an older one.
Transcript ==
  /\ \/ \E a \in Agent: Len(logs) < MaxTranscripts /\ logs' = Append(logs, [sid |-> Len(logs) + 1, agent |-> a])
     \/ \E i \in 1..(Len(logs) - 1): logs' = Append(RemoveAt(logs, i), logs[i])
  /\ UNCHANGED <<doc, status, session, build, board, named, asked, edits, boardRespawns>>

LaneBoardNext == BuildBegin \/ Resolve \/ Recovered \/ ReadDigest \/ BuildEnd
                 \/ GetLaneState \/ Second \/ PaneDies \/ Respawn \/ Edit \/ Transcript

LaneBoardSpec == LaneBoardInit /\ [][LaneBoardNext]_laneBoard

-----------------------------------------------------------------------------
\* The pill and the "now" of a row come from different branches of
\* assemble_lane_rows and never contradict each other: a lane shown RUNNING has
\* a current activity, one that is not shown blocked or RUNNING has none.
PillAndNowAgree ==
  \A l \in LaneSet: /\ board[l].state = "claimed" => board[l].now # <<>>
                    /\ board[l].now # <<>> => board[l].state \in {"claimed", "blocked"}

\* However the rows and transcripts change while a build awaits its threads, the
\* tokens on a lane's row come from the transcript of an agent of that lane.
DigestIsTheLanes == \A l \in LaneSet: board[l].tokens \in named[l] \cup {Nothing}

\* lane_state: "running" is what tmux said when it was asked.
StateIsProbed ==
  asked.probed => asked.running = (session[asked.lane].pane = "alive")
=============================================================================
