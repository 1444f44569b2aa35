------------------------------- MODULE MCLogs -------------------------------
(* Instance of Logs for TLC. *)
EXTENDS Logs, TLC
Symmetry == Permutations(Workers)
=============================================================================
