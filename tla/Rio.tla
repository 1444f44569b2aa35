-------------------------------- MODULE Rio ---------------------------------
(***************************************************************************)
(* The robust I/O package of src/wrap.c: rio_readn, rio_writen, rio_read,  *)
(* rio_readnb and rio_readlineb, over a descriptor whose read() and        *)
(* write() return short counts, fail, or are interrupted by a signal.      *)
(*                                                                         *)
(* The peer's bytes are numbered from 1; `newlines' says which are '\n'.   *)
(* What the program keeps of a byte is its number, so that a byte that is  *)
(* lost, doubled or out of order shows.                                    *)
(***************************************************************************)
EXTENDS Integers, Sequences

CONSTANTS
  Length,      \* bytes the peer may send
  BufSize,     \* RIO_BUFSIZE
  MaxN,        \* largest size a caller asks for
  MaxOut,      \* bytes the program may write
  MaxSignals   \* how often a system call may be interrupted

ASSUME RioAssumption ==
  /\ Length \in Nat /\ MaxN \in Nat /\ MaxOut \in Nat /\ MaxSignals \in Nat
  /\ BufSize \in Nat \ {0}

VARIABLES
  newlines,  \* positions that hold '\n'
  arrived,   \* bytes the kernel has received
  peer,      \* "open", "closed" or "reset"
  taken,     \* bytes read() has returned
  buffered,  \* whether the descriptor is read through a rio_t
  rio_buf,   \* the internal buffer
  rio_ptr,   \* index in rio_buf of the next unread byte (rio_bufptr)
  rio_cnt,   \* unread bytes in it, or what a failed read() returned
  call,      \* the running call: [op, n, nleft, usr, bufp, base]
  last,      \* the call that returned last: [op, n, usr, rc]
  wire,      \* bytes written to the peer
  signals    \* interruptions left

rio_t == <<rio_buf, rio_ptr, rio_cnt>>
kernel == <<newlines, arrived, peer, buffered>>
vars == <<kernel, rio_t, taken, call, last, wire, signals>>

After(p, k) == [i \in 1..k |-> p + i]
Least(a, b) == IF a <= b THEN a ELSE b

ReadOps == {"readn", "readnb", "readlineb"}
Idle == [op |-> "none", n |-> 0, nleft |-> 0, usr |-> <<>>, bufp |-> 0,
         base |-> 0]
NoCall == [op |-> "none", n |-> 0, usr |-> <<>>, rc |-> 0]

\* rio_readinitb(), and a peer that will send what it likes.
Init ==
  /\ newlines \in SUBSET (1..Length)
  /\ buffered \in BOOLEAN
  /\ arrived = 0 /\ peer = "open" /\ taken = 0
  /\ rio_buf = [i \in 1..BufSize |-> 0] /\ rio_ptr = 1 /\ rio_cnt = 0
  /\ call = Idle /\ last = NoCall
  /\ wire = <<>> /\ signals = MaxSignals

-----------------------------------------------------------------------------
(* Calls and returns.                                                      *)

\* Which functions a descriptor is used with: never both kinds of reads.
Callable(op) == op = "writen" \/ buffered = (op # "readn")

\* A caller asks for n bytes.  After a failure there is none: the Rio_
\* wrappers exit.
Call(op, n) ==
  /\ call = Idle /\ last.rc >= 0 /\ Callable(op)
  /\ op = "readlineb" => n > 0
  /\ op = "writen" => Len(wire) + n <= MaxOut
  /\ call' = [op |-> op, n |-> n, nleft |-> n, usr |-> <<>>, bufp |-> 0,
              base |-> Len(wire)]
  /\ UNCHANGED <<kernel, rio_t, taken, last, wire, signals>>

Return(rc) ==
  /\ call' = Idle
  /\ last' = [op |-> call.op, n |-> call.n, usr |-> call.usr, rc |-> rc]

\* rio_readlineb() has just stored '\n'.
AtNewline ==
  call.usr # <<>> /\ call.usr[Len(call.usr)] \in newlines

\* The loop of the running call is over.
Done ==
  IF call.op = "readlineb"
  THEN AtNewline \/ Len(call.usr) + 1 >= call.n
  ELSE call.nleft = 0

Running(ops) == call.op \in ops /\ ~Done

\* The value of a call whose loop is over or has met the end of the stream:
\* n - nleft, or the loop variable of rio_readlineb, which has not been
\* counted up for a newline only.
Count ==
  IF call.op = "readlineb"
  THEN IF AtNewline THEN Len(call.usr) ELSE Len(call.usr) + 1
  ELSE call.n - call.nleft

EofCount ==
  IF call.op = "readlineb" /\ call.usr = <<>> THEN 0 ELSE Count

Finish ==
  /\ call # Idle /\ Done
  /\ Return(Count)
  /\ UNCHANGED <<kernel, rio_t, taken, wire, signals>>

-----------------------------------------------------------------------------
(* read(2).                                                                *)

\* It returns k bytes, is interrupted, finds the end, or fails.
Gives(k, room) ==
  /\ peer # "reset" /\ k <= arrived - taken /\ k <= room
  /\ taken' = taken + k
Interrupted == signals > 0 /\ signals' = signals - 1
AtEof == peer = "closed" /\ taken = arrived
Fails == peer = "reset"

\* read() fills rio_buf from its start.
Fill ==
  \E k \in 1..BufSize :
    /\ Gives(k, BufSize)
    /\ rio_buf' = [i \in 1..BufSize |->
                     IF i <= k THEN taken + i ELSE rio_buf[i]]
    /\ rio_cnt' = k /\ rio_ptr' = 1
    /\ UNCHANGED <<call, last, signals>>

\* It returns nothing: rio_cnt is what it returned instead.
NotFilled(result) == rio_cnt' = result /\ UNCHANGED <<rio_buf, rio_ptr, taken>>

\* Mutant of Refill: an interrupted read() is taken for the end.
Refill_EintrIsEof ==
  /\ Running({"readnb", "readlineb"}) /\ rio_cnt <= 0
  /\ \/ Fill
     \/ (AtEof \/ signals > 0) /\ NotFilled(0) /\ Return(EofCount) /\ UNCHANGED signals
     \/ Fails /\ NotFilled(-1) /\ Return(-1) /\ UNCHANGED signals
  /\ UNCHANGED <<kernel, wire>>

\* Mutant of Refill: `while (rio_cnt == 0)', no refill after an interruption.
Refill_NotAfterEintr ==
  /\ Running({"readnb", "readlineb"}) /\ rio_cnt = 0
  /\ \/ Fill
     \/ Interrupted /\ NotFilled(-1) /\ UNCHANGED <<call, last>>
     \/ AtEof /\ NotFilled(0) /\ Return(EofCount) /\ UNCHANGED signals
     \/ Fails /\ NotFilled(-1) /\ Return(-1) /\ UNCHANGED signals
  /\ UNCHANGED <<kernel, wire>>

\* The refill loop of rio_read(): it runs while rio_cnt <= 0, which the -1
\* of an interrupted read() is too.
Refill ==
  /\ Running({"readnb", "readlineb"}) /\ rio_cnt <= 0
  /\ \/ Fill
     \/ Interrupted /\ NotFilled(-1) /\ UNCHANGED <<call, last>>
     \/ AtEof /\ NotFilled(0) /\ Return(EofCount) /\ UNCHANGED signals
     \/ Fails /\ NotFilled(-1) /\ Return(-1) /\ UNCHANGED signals
  /\ UNCHANGED <<kernel, wire>>

\* How many bytes the caller of rio_read() asks for.
Asked == IF call.op = "readlineb" THEN 1 ELSE call.nleft

\* memcpy() of k bytes from rio_bufptr.
Store(k) ==
  call' = [call EXCEPT
             !.usr = @ \o [i \in 1..k |-> rio_buf[rio_ptr + i - 1]],
             !.nleft = @ - k]

\* Mutant of Copy: rio_bufptr stays where it is.
Copy_PtrStays ==
  /\ Running({"readnb", "readlineb"}) /\ rio_cnt > 0
  /\ LET k == Least(Asked, rio_cnt) IN Store(k) /\ rio_cnt' = rio_cnt - k
  /\ UNCHANGED <<kernel, rio_buf, rio_ptr, taken, last, wire, signals>>

\* Mutant of Copy: rio_bufptr counts one byte too many.
Copy_PtrRuns ==
  /\ Running({"readnb", "readlineb"}) /\ rio_cnt > 0
  /\ LET k == Least(Asked, rio_cnt) IN
       Store(k) /\ rio_ptr' = rio_ptr + k + 1 /\ rio_cnt' = rio_cnt - k
  /\ UNCHANGED <<kernel, rio_buf, taken, last, wire, signals>>

\* The copy at the end of rio_read().
Copy ==
  /\ Running({"readnb", "readlineb"}) /\ rio_cnt > 0
  /\ LET k == Least(Asked, rio_cnt) IN
       Store(k) /\ rio_ptr' = rio_ptr + k /\ rio_cnt' = rio_cnt - k
  /\ UNCHANGED <<kernel, rio_buf, taken, last, wire, signals>>

\* The loop of rio_readn(), straight into the caller's buffer.
ReadDirect ==
  /\ Running({"readn"})
  /\ \/ /\ \E k \in 1..call.nleft :
             /\ Gives(k, call.nleft)
             /\ call' = [call EXCEPT !.usr = @ \o After(taken, k),
                                     !.nleft = @ - k]
        /\ UNCHANGED <<last, signals>>
     \/ Interrupted /\ UNCHANGED <<taken, call, last>>
     \/ AtEof /\ Return(Count) /\ UNCHANGED <<taken, signals>>
     \/ Fails /\ Return(-1) /\ UNCHANGED <<taken, signals>>
  /\ UNCHANGED <<kernel, rio_t, wire>>

-----------------------------------------------------------------------------
(* write(2).                                                               *)

\* The loop of rio_writen(): a short count, an interruption, or a failure
\* once the peer is gone.
Write ==
  /\ Running({"writen"})
  /\ \/ /\ \E k \in 1..call.nleft :
             /\ wire' = wire \o After(call.base + call.bufp, k)
             /\ call' = [call EXCEPT !.nleft = @ - k, !.bufp = @ + k]
        /\ UNCHANGED <<last, signals>>
     \/ Interrupted /\ UNCHANGED <<wire, call, last>>
     \/ peer # "open" /\ Return(-1) /\ UNCHANGED <<wire, signals>>
  /\ UNCHANGED <<kernel, rio_t, taken>>

-----------------------------------------------------------------------------
(* The peer.                                                               *)

Arrive ==
  /\ peer = "open"
  /\ arrived' \in (arrived + 1)..Length
  /\ UNCHANGED <<newlines, peer, buffered, rio_t, taken, call, last, wire,
                 signals>>

Leave ==
  /\ peer = "open"
  /\ peer' \in {"closed", "reset"}
  /\ UNCHANGED <<newlines, arrived, buffered, rio_t, taken, call, last, wire,
                 signals>>

-----------------------------------------------------------------------------
Step == Refill \/ Copy \/ ReadDirect \/ Write \/ Finish

Next ==
  \/ Step
  \/ \E op \in ReadOps \cup {"writen"}, n \in 0..MaxN : Call(op, n)
  \/ Arrive \/ Leave

\* The process runs; neither its peer nor its caller need ever do more.
Spec == Init /\ [][Next]_vars /\ WF_vars(Step)

-----------------------------------------------------------------------------
Position == 0..Length

TypeOK ==
  /\ newlines \subseteq 1..Length /\ buffered \in BOOLEAN
  /\ arrived \in Position /\ taken \in Position /\ taken <= arrived
  /\ peer \in {"open", "closed", "reset"}
  /\ rio_buf \in [1..BufSize -> Position]
  /\ rio_cnt \in -1..BufSize /\ rio_ptr \in 1..(BufSize + 1)
  /\ call.op \in {"none", "writen"} \cup ReadOps
  /\ call.n \in 0..MaxN /\ call.nleft \in 0..call.n
  /\ call.usr \in Seq(Position) /\ Len(call.usr) <= call.n
  /\ call.bufp = IF call.op = "writen" THEN call.n - call.nleft ELSE 0
  /\ call.base \in 0..MaxOut
  /\ last.op \in {"none", "writen"} \cup ReadOps
  /\ last.n \in 0..MaxN /\ last.usr \in Seq(Position)
  /\ last.rc \in -1..MaxN
  /\ wire \in Seq(1..MaxOut) /\ signals \in 0..MaxSignals

Unread == IF rio_cnt > 0 THEN rio_cnt ELSE 0

\* How many bytes the calls before the running one have taken.
Consumed == taken - Unread - Len(call.usr)

\* No byte is lost, doubled or out of order: what earlier calls took, what
\* the running call has stored and what rio_buf still holds follow one
\* another and are all that read() has returned (wrap.c:508-530, 564-567:
\* rio_cnt, rio_bufptr and nleft across short counts and interruptions).
BytesInOrder ==
  /\ call.usr = After(Consumed, Len(call.usr))
  /\ \A i \in 1..Unread :
       rio_buf[rio_ptr + i - 1] = taken - Unread + i

\* Every call behaves as one step on the stream: it takes the next n bytes,
\* the next line or what is left before the end, writes its whole message
\* or fails, and returns the count callers rely on (wrap.c:445-604).
Stream == INSTANCE ByteStream WITH
  Sizes <- 0..MaxN,
  consumed <- Consumed,
  wire <- IF call.op = "writen" THEN SubSeq(wire, 1, call.base) ELSE wire
StreamImplemented == Stream!SSpec

\* A read whose peer has closed or reset ends, however often signals
\* interrupt it (wrap.c:508-518: the refill loop must not spin on rio_cnt).
ReadReturns ==
  (call.op \in ReadOps /\ peer # "open") ~> call = Idle
=============================================================================
