------------------------------- MODULE MCRio --------------------------------
(* Instance of Rio for TLC. *)
EXTENDS Rio

=============================================================================
