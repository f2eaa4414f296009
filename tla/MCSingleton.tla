---------------------------- MODULE MCSingleton ----------------------------
(* Two daemons and a client that drains for itself; interchangeable daemons. *)
EXTENDS ApplierSingleton, TLC
CONSTANTS d1, d2, c1
MCDaemon == {d1, d2}
MCClient == {c1}
Symmetry == Permutations(MCDaemon)
=============================================================================
