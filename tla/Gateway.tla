------------------------------ MODULE Gateway -------------------------------
(***************************************************************************)
(* What get_dynamic() and post_dynamic() of src/mini_httpd_helper.c        *)
(* promise, whichever processes do it: one program is run for a request.   *)
(* It is given the body piece by piece; the client is told that the        *)
(* request succeeded before the program can say anything, and then gets    *)
(* what the program has written, never more and never twice.               *)
(*                                                                         *)
(* What the server does not have of the body, or lost of it, is replaced   *)
(* by zeros.  Over http the client sees each piece of output at once; over *)
(* https it gets a beginning of the output, once, and to a GET a remainder *)
(* of the buffer may be added.                                             *)
(***************************************************************************)
EXTENDS Naturals, Sequences

CONSTANT MaxOut   \* pieces of output a program writes at most

VARIABLES
  https,     \* the channel the request came on
  post,      \* it is a POST
  length,    \* the length of its body, as the client gave it
  phase,     \* the program is still to come: "before"; "runs"; or is "over"
  given,     \* pieces of the body the program has been given
  made,      \* pieces of output the program has written
  sent       \* what the client has been sent

demand == <<https, post, length>>
gvars == <<demand, phase, given, made, sent>>

Lacking == 0
StatusLine == 0
Remainder == MaxOut + 1

\* The first n pieces of output.
Output(n) == [i \in 1..n |-> i]

GInit ==
  /\ https \in BOOLEAN /\ post \in BOOLEAN /\ length \in Nat
  /\ phase = "before" /\ given = <<>> /\ made = 0 /\ sent = <<>>

Announce ==
  /\ phase = "before" /\ sent = <<>>
  /\ sent' = <<StatusLine>>
  /\ UNCHANGED <<demand, phase, given, made>>

\* Over https the status line may have been lost on a client that has gone.
Run ==
  /\ phase = "before" /\ (~https => sent = <<StatusLine>>)
  /\ phase' = "runs"
  /\ UNCHANGED <<demand, given, made, sent>>

\* It ends, or cannot be run.
End ==
  /\ phase \in {"before", "runs"} /\ phase' = "over"
  /\ UNCHANGED <<demand, given, made, sent>>

Give ==
  /\ phase = "runs" /\ Len(given) < length
  /\ \E piece \in {Len(given) + 1, Lacking} : given' = Append(given, piece)
  /\ UNCHANGED <<demand, phase, made, sent>>

Make ==
  /\ phase = "runs" /\ made < MaxOut
  /\ made' = made + 1
  /\ IF https THEN UNCHANGED sent
     ELSE sent = <<StatusLine>> \o Output(made) /\ sent' = Append(sent, made + 1)
  /\ UNCHANGED <<demand, phase, given>>

Forward ==
  /\ https /\ sent = <<StatusLine>>
  /\ \E n \in 0..made :
       LET all == sent \o Output(n)
       IN \/ sent' = all
          \/ ~post /\ sent' = Append(all, Remainder)
  /\ UNCHANGED <<demand, phase, given, made>>

GNext == Announce \/ Run \/ End \/ Give \/ Make \/ Forward

GSpec == GInit /\ [][GNext]_gvars
=============================================================================
