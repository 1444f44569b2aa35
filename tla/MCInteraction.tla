--------------------------- MODULE MCInteraction ---------------------------
(* Instances of Interaction for TLC. *)
EXTENDS Interaction
=============================================================================
