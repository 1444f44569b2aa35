------------------------------- MODULE MCCgi -------------------------------
(* Instances of Cgi for TLC. *)
EXTENDS Cgi
=============================================================================
