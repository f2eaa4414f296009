------------------------------- MODULE MCFleet -------------------------------
(***************************************************************************)
(* Two lanes and two versions of the governor's settings.                  *)
(***************************************************************************)
EXTENDS Fleet

=============================================================================
