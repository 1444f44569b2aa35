----------------------------- MODULE ByteStream -----------------------------
(***************************************************************************)
(* What the robust I/O functions of src/wrap.c promise their callers: the  *)
(* peer's bytes are a stream, numbered from 1, and each call takes the     *)
(* next ones or adds the next ones, whatever read() and write() return in  *)
(* between.  A call that fails is the last one: its wrapper exits.         *)
(***************************************************************************)
EXTENDS Integers, Sequences

CONSTANT Sizes   \* sizes callers ask for

VARIABLES
  newlines,  \* positions of the stream that hold '\n'
  arrived,   \* how many bytes of the peer the kernel has received
  peer,      \* "open", "closed" after its last byte, or "reset"
  consumed,  \* how many bytes calls have taken
  wire,      \* the bytes calls have written, as positions
  last       \* the call that returned last: [op, n, usr, rc]

svars == <<newlines, arrived, peer, consumed, wire, last>>

\* The first k numbers after p.
After(p, k) == [i \in 1..k |-> p + i]

NoCall == [op |-> "none", n |-> 0, usr |-> <<>>, rc |-> 0]

SInit ==
  /\ arrived = 0 /\ peer = "open" /\ consumed = 0
  /\ wire = <<>> /\ last = NoCall

Peer ==
  /\ peer = "open"
  /\ arrived' \in Nat /\ arrived' >= arrived
  /\ peer' \in {"open", "closed", "reset"}
  /\ UNCHANGED <<newlines, consumed, wire, last>>

\* The stream has ended with its k-th byte from here.
EndsWith(k) == peer = "closed" /\ consumed + k = arrived

\* A call takes k bytes and returns rc.
Take(op, n, k, rc) ==
  /\ k <= arrived - consumed
  /\ consumed' = consumed + k
  /\ last' = [op |-> op, n |-> n, usr |-> After(consumed, k), rc |-> rc]
  /\ UNCHANGED <<newlines, arrived, peer, wire>>

\* rio_readn and rio_readnb: n bytes, or all there are before the end.
TakeBytes(op, n) ==
  \E k \in 0..n : (k = n \/ EndsWith(k)) /\ Take(op, n, k, k)

\* rio_readlineb: to the end of the line, but never more than n - 1 bytes.
\* It counts one more than it took when it stops for another reason.
TakeLine(n) ==
  \E k \in 0..(n - 1) :
    /\ \A i \in 1..(k - 1) : consumed + i \notin newlines
    /\ LET whole == k > 0 /\ consumed + k \in newlines
       IN \/ /\ whole \/ k = n - 1
             /\ Take("readlineb", n, k, IF whole THEN k ELSE k + 1)
          \/ /\ ~whole /\ EndsWith(k)
             /\ Take("readlineb", n, k, IF k = 0 THEN 0 ELSE k + 1)

\* A read fails: some bytes may have been taken, how many is not told.
FailRead(op, n) ==
  \E k \in 0..n : peer = "reset" /\ Take(op, n, k, -1)

\* rio_writen: the whole message, or a beginning of it and a failure.
Put(n) ==
  \E k \in 0..n :
    /\ wire' = wire \o After(Len(wire), k)
    /\ \E rc \in {n, -1} :
         /\ rc = n => k = n
         /\ last' = [op |-> "writen", n |-> n, usr |-> <<>>, rc |-> rc]
    /\ UNCHANGED <<newlines, arrived, peer, consumed>>

SNext ==
  \/ Peer
  \/ /\ last.rc >= 0
     /\ \E n \in Sizes :
          \/ \E op \in {"readn", "readnb"} : TakeBytes(op, n)
          \/ TakeLine(n)
          \/ \E op \in {"readn", "readnb", "readlineb"} : FailRead(op, n)
          \/ Put(n)

SSpec == SInit /\ [][SNext]_svars
=============================================================================
