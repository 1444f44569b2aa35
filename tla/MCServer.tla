------------------------------ MODULE MCServer ------------------------------
(* Instances of Server for TLC. *)
EXTENDS Server, TLC

\* Connections to one port are interchangeable.
Symmetry == Permutations(HttpConns) \cup Permutations(HttpsConns)
=============================================================================
