------------------------------ MODULE MCWatch ------------------------------
(* What a browser watches: the narrator with its child and its watchers, and  *)
(* the activity wall with its sources. They share no state: a behaviour is    *)
(* one of them, and the state space is the sum of the two.                    *)
EXTENDS Narrator, ActivityWall

VARIABLE part

WatchInit ==
  /\ part \in {"narrator", "wall"}
  /\ Init /\ WallInit
  \* a part that rests begins in one state
  /\ part # "wall" => watched = "tail"

WatchNext ==
  /\ UNCHANGED part
  /\ \/ part = "narrator" /\ Next
     \/ part = "wall" /\ WallNext
  /\ IF part = "narrator" THEN TRUE ELSE UNCHANGED vars
  /\ IF part = "wall" THEN TRUE ELSE UNCHANGED wall

watch_vars == <<part, vars, wall>>

\* The fairness of Narrator and of ActivityWall: tasks of one event loop.
WatchSpec ==
  /\ WatchInit /\ [][WatchNext]_watch_vars
  /\ WF_vars(part = "narrator" /\ Supervise /\ UNCHANGED board)
  /\ WF_vars(part = "narrator" /\ Schedule(ready) /\ UNCHANGED runtime)
  /\ WF_wall(part = "wall" /\ Polls)
  /\ WF_wall(part = "wall" /\ DailyRollover)
  /\ WF_wall(part = "wall" /\ (DailyStat \/ DailyRead))
  /\ WF_wall(part = "wall" /\ DailyEmit)

=============================================================================
