----------------------------- MODULE Connection -----------------------------
(***************************************************************************)
(* What main() of src/main.c promises one client, whoever else is served   *)
(* and whichever processes fail: access is decided once and before         *)
(* anything is sent; a denied client gets the 403 page at most and never a *)
(* worker; a permitted one gets a worker and one page at most, from it or  *)
(* from a program it has started, on the channel of the port the client    *)
(* has connected to, and nothing when they are all gone.                   *)
(***************************************************************************)
CONSTANT Promised   \* the channel of the port: "plain" or "tls"

VARIABLES
  stage,   \* "waiting" to be accepted, "taken", "denied", "permitted",
           \* "served" by a worker, or "over"
  sent     \* the <<page, channel>> pairs sent in full

cvars == <<stage, sent>>

CInit == stage = "waiting" /\ sent = {}

Step(from, to) == stage = from /\ stage' = to /\ UNCHANGED sent

Take == Step("waiting", "taken")
Deny == Step("taken", "denied")
Permit == Step("taken", "permitted")
Serve == Step("permitted", "served")
Leave == Step("served", "over")

\* The listener's page is not encrypted, whatever the port.
Refuse ==
  /\ stage = "denied" /\ sent = {} /\ sent' = {<<"403", "plain">>}
  /\ UNCHANGED stage

Give ==
  /\ stage = "served" /\ sent = {} /\ sent' = {<<"page", Promised>>}
  /\ UNCHANGED stage

CNext == Take \/ Deny \/ Permit \/ Serve \/ Refuse \/ Give \/ Leave

CSpec == CInit /\ [][CNext]_cvars
=============================================================================
