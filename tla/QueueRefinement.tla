-------------------------- MODULE QueueRefinement --------------------------
(***************************************************************************)
(* Seen through HISTORY.md and the archive directories, the queue with its *)
(* crashes, restarts and journal implements ExactlyOnceLog.                *)
(***************************************************************************)
EXTENDS QueueApplier

HistoryReq == {r \in Req : Body[r].intent = "HISTORY_APPEND"}

\* A failing file operation turns an append that landed into a rejection; so
\* does the loss of its PENDING line, if its preconditions changed meanwhile.
MayBeRefused ==
    IF MaxIOErrors > 0 THEN HistoryReq
    ELSE IF ~TornWrites THEN {}
    ELSE {r \in HistoryReq : Body[r].hash \/ Body[r].required_phase # None}

Log == INSTANCE ExactlyOnceLog WITH
    Ask      <- HistoryReq,
    LineOf   <- [r \in HistoryReq |-> Body[r].line],
    Doubtful <- MayBeRefused,
    asked    <- {r \in HistoryReq : where[r] \notin {"unborn", "stamped"}},
    took     <- landed \cap HistoryReq,
    answer   <- [r \in HistoryReq |->
                    IF where[r] \in {"applied", "rejected"} THEN where[r]
                    ELSE "none"],
    log      <- docs.history

\* Appending through the queue is an exactly-once append with a truthful
\* answer, as ExactlyOnceLog states it.
ImplementsLog == Log!Spec

=============================================================================
