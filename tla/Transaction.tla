---------------------------- MODULE Transaction ----------------------------
(***************************************************************************)
(* What a worker promises its client: to "handle one HTTP request/response *)
(* transaction" (mini_httpd_helper.c:608).  It sends one response at most, *)
(* the head before the body, both on the channel the client connected for, *)
(* and nothing once it has ended; it may end at any moment.                *)
(***************************************************************************)
EXTENDS Sequences

CONSTANTS
  Pages,      \* the responses there are
  Channels    \* what they can travel on

VARIABLES
  channel,    \* the channel of this transaction
  out,        \* the parts of the response sent so far
  over        \* the worker has ended

tvars == <<channel, out, over>>

Part(p, ch, name) == [page |-> p, channel |-> ch, part |-> name]

TInit == channel \in Channels /\ out = <<>> /\ over = FALSE

Begin ==
  /\ ~over /\ out = <<>>
  /\ \E p \in Pages : out' = <<Part(p, channel, "head")>>
  /\ UNCHANGED <<channel, over>>

Complete ==
  /\ ~over
  /\ \E p \in Pages :
       /\ out = <<Part(p, channel, "head")>>
       /\ out' = <<Part(p, channel, "head"), Part(p, channel, "body")>>
  /\ UNCHANGED <<channel, over>>

Finish == ~over /\ over' = TRUE /\ UNCHANGED <<channel, out>>

TNext == Begin \/ Complete \/ Finish

TSpec == TInit /\ [][TNext]_tvars
=============================================================================
