---------------------------- MODULE MCBlackboard ----------------------------
(***************************************************************************)
(* Two or three agents, two tasks; the id of one is part of the other's     *)
(* id (P1-A, P1-A2).                                                       *)
(***************************************************************************)
EXTENDS Blackboard

MCMatches == [t \in Task |-> IF t = "P1A" THEN Task ELSE {t}]

=============================================================================
