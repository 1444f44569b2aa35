----------------------------- MODULE RioProofs ------------------------------
(***************************************************************************)
(* Theorems about Rio: for buffers, streams and requests of any size, and  *)
(* whatever read() and write() return, no byte is lost, doubled or out of  *)
(* order; and Rio implements ByteStream: each call of a robust I/O         *)
(* function is one step of the stream, all its reads and writes before     *)
(* are none.                                                               *)
(***************************************************************************)
EXTENDS Rio, SequenceTheorems, TLAPS

-----------------------------------------------------------------------------
(* The inductive invariant.                                                *)

Ops == {"none", "writen"} \cup ReadOps

KernelType ==
  /\ newlines \subseteq 1..Length /\ buffered \in BOOLEAN
  /\ arrived \in Position /\ taken \in Position /\ taken <= arrived
  /\ peer \in {"open", "closed", "reset"} /\ signals \in 0..MaxSignals

BufferType ==
  /\ rio_buf \in [1..BufSize -> Position]
  /\ rio_cnt \in -1..BufSize /\ rio_ptr \in 1..(BufSize + 1)
  /\ rio_ptr + Unread <= BufSize + 1
  /\ ~buffered => rio_cnt = 0

\* A read has stored what it is not waiting for; a line leaves room for the
\* zero behind it; a write has put what it is not waiting for on the wire.
CallType ==
  /\ call \in [op : Ops, n : 0..MaxN, nleft : 0..MaxN, usr : Seq(Position),
               bufp : 0..MaxN, base : 0..MaxOut]
  /\ call.op = "none" => call = Idle
  /\ call.op \in ReadOps => Len(call.usr) + call.nleft = call.n /\ call.bufp = 0
  /\ call.op \in {"readnb", "readlineb"} => buffered
  /\ call.op = "readn" => ~buffered
  /\ call.op = "readlineb" => Len(call.usr) + 1 <= call.n
  /\ call.op = "writen" => /\ call.bufp + call.nleft = call.n /\ call.usr = <<>>
                           /\ call.base + call.n <= MaxOut
                           /\ Len(wire) = call.base + call.bufp

LastType ==
  /\ last \in [op : Ops, n : 0..MaxN, usr : Seq(Position), rc : -1..MaxN]
  /\ wire \in Seq(1..MaxOut) /\ Len(wire) <= MaxOut

IType == KernelType /\ BufferType /\ CallType /\ LastType
IInv == IType /\ BytesInOrder

LEMMA TypeParts == IType => TypeOK
<1> SUFFICES ASSUME IType PROVE TypeOK OBVIOUS
<1>1. KernelType /\ BufferType /\ CallType /\ LastType
  BY DEF IType
<1>2. /\ newlines \subseteq 1..Length /\ buffered \in BOOLEAN
      /\ arrived \in Position /\ taken \in Position /\ taken <= arrived
      /\ peer \in {"open", "closed", "reset"} /\ signals \in 0..MaxSignals
  BY <1>1 DEF KernelType
<1>3. /\ rio_buf \in [1..BufSize -> Position]
      /\ rio_cnt \in -1..BufSize /\ rio_ptr \in 1..(BufSize + 1)
  BY <1>1 DEF BufferType
<1>4. /\ call.op \in {"none", "writen"} \cup ReadOps
      /\ call.n \in 0..MaxN /\ call.usr \in Seq(Position)
      /\ call.nleft \in 0..MaxN /\ call.bufp \in 0..MaxN /\ call.base \in 0..MaxOut
  BY <1>1 DEF CallType, Ops
<1>5. MaxN \in Nat /\ Len(call.usr) \in Nat
  BY <1>4, RioAssumption
<1>6. /\ call.nleft \in 0..call.n /\ Len(call.usr) <= call.n
      /\ call.bufp = IF call.op = "writen" THEN call.n - call.nleft ELSE 0
  <2>1. CASE call.op = "none"
    <3>1. call = Idle
      BY <1>1, <2>1 DEF CallType
    <3> QED BY <2>1, <3>1 DEF Idle
  <2>2. CASE call.op = "writen"
    <3>1. call.bufp + call.nleft = call.n /\ call.usr = <<>>
      BY <1>1, <2>2 DEF CallType
    <3> QED BY <1>4, <1>5, <2>2, <3>1
  <2>3. CASE call.op \in ReadOps
    <3>1. Len(call.usr) + call.nleft = call.n /\ call.bufp = 0
      BY <1>1, <2>3 DEF CallType
    <3>2. call.op # "writen"
      BY <2>3 DEF ReadOps
    <3> QED BY <1>4, <1>5, <3>1, <3>2
  <2> QED BY <1>4, <2>1, <2>2, <2>3
<1>7. /\ last.op \in {"none", "writen"} \cup ReadOps
      /\ last.n \in 0..MaxN /\ last.usr \in Seq(Position) /\ last.rc \in -1..MaxN
      /\ wire \in Seq(1..MaxOut)
  BY <1>1 DEF LastType, Ops
<1> QED BY <1>2, <1>3, <1>4, <1>6, <1>7 DEF TypeOK

-----------------------------------------------------------------------------
(* Runs of consecutive numbers.                                            *)

LEMMA AfterType ==
  ASSUME NEW p \in Int, NEW k \in Nat
  PROVE  After(p, k) \in Seq(Int) /\ Len(After(p, k)) = k
BY DEF After

LEMMA AfterBounded ==
  ASSUME NEW p \in Nat, NEW k \in Nat, NEW m \in Nat, p + k <= m
  PROVE  After(p, k) \in Seq(1..m)
BY DEF After

LEMMA AfterJoins ==
  ASSUME NEW p \in Int, NEW j \in Nat, NEW k \in Nat
  PROVE  After(p, j) \o After(p + j, k) = After(p, j + k)
BY DEF After

LEMMA Joined ==
  ASSUME NEW S, NEW s \in Seq(S), NEW t \in Seq(S)
  PROVE  s \o t \in Seq(S) /\ Len(s \o t) = Len(s) + Len(t)
BY ConcatProperties

LEMMA Initial == Init => IInv
<1> SUFFICES ASSUME Init PROVE IInv OBVIOUS
<1> USE RioAssumption
<1>1. KernelType /\ BufferType
  BY DEF Init, KernelType, BufferType, Position, Unread
<1>2. CallType /\ LastType
  BY DEF Init, CallType, LastType, Idle, NoCall, Ops, ReadOps
<1>3. BytesInOrder
  BY DEF Init, BytesInOrder, Idle, Unread, Consumed, After
<1> QED BY <1>1, <1>2, <1>3 DEF IInv, IType

-----------------------------------------------------------------------------
(* Calls and returns.                                                      *)

LEMMA CallStep ==
  ASSUME IInv, NEW op \in ReadOps \cup {"writen"}, NEW n \in 0..MaxN, Call(op, n)
  PROVE  IInv'
<1> USE RioAssumption DEF IInv, IType
<1>1. KernelType' /\ BufferType' /\ LastType'
  BY DEF Call, kernel, rio_t, KernelType, BufferType, LastType, Unread
<1>2. CallType'
  <2>1. buffered' = buffered /\ (op = "readn" => ~buffered)
        /\ (op \in {"readnb", "readlineb"} => buffered)
    BY DEF Call, Callable, kernel, KernelType
  <2>2. Len(wire) \in 0..MaxOut /\ wire' = wire
    BY DEF Call, LastType
  <2>3. <<>> \in Seq(Position) /\ Len(<<>>) = 0
    OBVIOUS
  <2> QED BY <2>1, <2>2, <2>3 DEF Call, CallType, Ops, ReadOps
<1>3. BytesInOrder'
  <2>1. call.usr = <<>> /\ call'.usr = <<>>
    BY DEF Call, Idle
  <2> QED BY <2>1 DEF Call, kernel, rio_t, BytesInOrder, Unread, Consumed, After
<1> QED BY <1>1, <1>2, <1>3

LEMMA ReturnStep ==
  ASSUME IType, NEW rc \in -1..MaxN, Return(rc), UNCHANGED wire
  PROVE  CallType' /\ LastType'
BY RioAssumption DEF IType, Return, CallType, LastType, Idle, Ops, ReadOps

\* After a return no bytes are the running call's.
LEMMA ReturnOrder ==
  ASSUME IInv, NEW rc, Return(rc), UNCHANGED <<rio_buf, rio_ptr, taken>>,
         UNCHANGED rio_cnt \/ (rio_cnt <= 0 /\ rio_cnt' \in {0, -1})
  PROVE  BytesInOrder'
<1>1. call'.usr = <<>>
  BY DEF Return, Idle
<1>2. Unread' = Unread
  BY RioAssumption DEF Unread, IInv, IType, BufferType
<1> QED BY <1>1, <1>2 DEF IInv, BytesInOrder, Consumed, After

\* What a loop that is over, or that has met the end, returns.
LEMMA CountType ==
  ASSUME IType, call # Idle, Done \/ ~Done
  PROVE  Count \in -1..MaxN /\ EofCount \in -1..MaxN
<1>1. call.op # "none" /\ call.n \in 0..MaxN /\ call.nleft \in 0..call.n
      /\ Len(call.usr) \in Nat
  BY RioAssumption DEF IType, CallType, Ops, ReadOps
<1>2. call.op = "readlineb" => Len(call.usr) + 1 <= call.n
  BY DEF IType, CallType
<1> QED BY <1>1, <1>2, RioAssumption DEF Count, EofCount

LEMMA FinishStep ==
  ASSUME IInv, Finish
  PROVE  IInv'
<1>1. KernelType' /\ BufferType'
  BY DEF Finish, kernel, rio_t, IInv, IType, KernelType, BufferType, Unread
<1>2. CallType' /\ LastType'
  BY CountType, ReturnStep DEF Finish, IInv
<1>3. BytesInOrder'
  BY ReturnOrder DEF Finish, rio_t
<1> QED BY <1>1, <1>2, <1>3 DEF IInv, IType

-----------------------------------------------------------------------------
(* Reads.                                                                  *)

LEMMA RefillStep ==
  ASSUME IInv, Refill
  PROVE  IInv'
<1> USE RioAssumption DEF IInv, IType
<1>1. /\ call.op \in {"readnb", "readlineb"} /\ buffered /\ call # Idle
      /\ rio_cnt <= 0 /\ Unread = 0 /\ UNCHANGED <<kernel, wire>>
  BY DEF Refill, Running, CallType, BufferType, Idle, Unread
<1>2. CASE Fill
  <2>1. PICK k \in 1..BufSize :
          /\ Gives(k, BufSize)
          /\ rio_buf' = [i \in 1..BufSize |-> IF i <= k THEN taken + i ELSE rio_buf[i]]
          /\ rio_cnt' = k /\ rio_ptr' = 1
          /\ UNCHANGED <<call, last, signals>>
    BY <1>2 DEF Fill
  <2>2. taken' = taken + k /\ k <= arrived - taken /\ Unread' = k
    BY <2>1 DEF Gives, Unread
  <2>3. KernelType'
    BY <1>1, <2>1, <2>2 DEF kernel, KernelType, Position
  <2>4. BufferType'
    <3>1. \A i \in 1..k : taken + i \in Position
      BY <2>2 DEF KernelType, Position
    <3>2. rio_buf' \in [1..BufSize -> Position]
      BY <2>1, <3>1 DEF BufferType
    <3> QED BY <1>1, <2>1, <2>2, <3>2 DEF BufferType, kernel
  <2>5. CallType' /\ LastType'
    BY <1>1, <2>1 DEF CallType, LastType, kernel
  <2>6. BytesInOrder'
    <3>1. Consumed' = Consumed
      BY <1>1, <2>1, <2>2 DEF Consumed, KernelType, CallType, Position
    <3>2. \A i \in 1..k : rio_buf'[rio_ptr' + i - 1] = taken' - k + i
      BY <2>1, <2>2 DEF KernelType, Position
    <3> QED BY <2>1, <2>2, <3>1, <3>2 DEF BytesInOrder
  <2> QED BY <2>3, <2>4, <2>5, <2>6
<1>3. CASE Interrupted /\ NotFilled(-1) /\ UNCHANGED <<call, last>>
  <2>1. Unread' = 0
    BY <1>3 DEF NotFilled, Unread
  <2>2. KernelType' /\ BufferType'
    BY <1>1, <1>3, <2>1 DEF Interrupted, NotFilled, kernel, KernelType, BufferType
  <2>3. CallType' /\ LastType'
    BY <1>1, <1>3 DEF CallType, LastType, kernel
  <2>4. BytesInOrder'
    BY <1>1, <1>3, <2>1 DEF NotFilled, BytesInOrder, Consumed
  <2> QED BY <2>2, <2>3, <2>4
<1>4. ASSUME NEW result \in {0, -1}, NotFilled(result), UNCHANGED signals,
             NEW rc \in -1..MaxN, Return(rc)
      PROVE  IInv'
  <2>1. Unread' = 0
    BY <1>4 DEF NotFilled, Unread
  <2>2. KernelType' /\ BufferType'
    BY <1>1, <1>4, <2>1 DEF NotFilled, kernel, KernelType, BufferType
  <2>3. CallType' /\ LastType'
    BY <1>1, <1>4, ReturnStep
  <2>4. BytesInOrder'
    BY <1>1, <1>4, ReturnOrder DEF NotFilled
  <2> QED BY <2>2, <2>3, <2>4
<1>5. EofCount \in -1..MaxN /\ -1 \in -1..MaxN
  BY <1>1, CountType
<1> QED BY <1>2, <1>3, <1>4, <1>5 DEF Refill

\* The bytes a copy moves are the next ones of the stream.
LEMMA CopyMoves ==
  ASSUME IInv, Copy
  PROVE  /\ IInv' /\ Consumed' = Consumed /\ call'.op = call.op
         /\ call.op = "readlineb" => Len(call'.usr) = Len(call.usr) + 1
<1> USE RioAssumption DEF IInv, IType
<1> DEFINE k == Least(Asked, rio_cnt)
           m == Len(call.usr)
           moved == [i \in 1..k |-> rio_buf[rio_ptr + i - 1]]
<1> HIDE DEF k, m, moved
<1>1. /\ call.op \in {"readnb", "readlineb"} /\ buffered /\ rio_cnt > 0
      /\ Unread = rio_cnt /\ ~Done
      /\ UNCHANGED <<kernel, rio_buf, taken, last, wire, signals>>
  BY DEF Copy, Running, CallType, BufferType, Unread
<1>2. /\ call.usr \in Seq(Position) /\ m \in Nat /\ call.nleft \in Nat
      /\ m + call.nleft = call.n /\ rio_cnt \in Nat /\ rio_ptr \in Nat
      /\ taken \in Nat /\ rio_ptr + rio_cnt <= BufSize + 1 /\ call.n \in 0..MaxN
  BY <1>1 DEF m, CallType, BufferType, KernelType, Position, ReadOps
<1>3. /\ k \in 1..rio_cnt /\ k <= call.nleft
      /\ call.op = "readlineb" => k = 1 /\ m + 1 < call.n
  BY <1>1, <1>2 DEF k, m, Least, Asked, Done
<1>4. /\ call' = [call EXCEPT !.usr = @ \o moved, !.nleft = @ - k]
      /\ rio_ptr' = rio_ptr + k /\ rio_cnt' = rio_cnt - k
  BY DEF k, moved, Copy, Store
<1>5. Unread' = rio_cnt - k
  BY <1>2, <1>3, <1>4 DEF Unread
<1>6. moved = After(Consumed + m, k)
  <2>1. Consumed + m = taken - Unread
    BY <1>1, <1>2 DEF m, Consumed
  <2>2. \A i \in 1..k : rio_buf[rio_ptr + i - 1] = taken - Unread + i
    BY <1>1, <1>2, <1>3 DEF BytesInOrder
  <2> QED BY <2>1, <2>2 DEF moved, After
<1>7. moved \in Seq(Position) /\ Len(moved) = k
  <2>1. \A i \in 1..k : rio_ptr + i - 1 \in 1..BufSize
    BY <1>2, <1>3 DEF BufferType
  <2>2. \A i \in 1..k : rio_buf[rio_ptr + i - 1] \in Position
    BY <2>1 DEF BufferType
  <2> QED BY <1>2, <1>3, <2>2 DEF moved
<1>8. /\ call'.usr = call.usr \o moved /\ call'.usr \in Seq(Position)
      /\ Len(call'.usr) = m + k
  <2>1. call'.usr = call.usr \o moved
    BY <1>4 DEF CallType
  <2> QED BY <1>2, <1>7, <2>1, ConcatProperties DEF m
<1>9. KernelType' /\ BufferType' /\ LastType'
  <2>1. KernelType' /\ LastType'
    BY <1>1 DEF kernel, KernelType, LastType
  <2>2. /\ rio_ptr + k \in 1..(BufSize + 1) /\ rio_cnt - k \in -1..BufSize
        /\ (rio_ptr + k) + (rio_cnt - k) <= BufSize + 1
    BY <1>2, <1>3 DEF BufferType
  <2>3. BufferType'
    BY <1>1, <1>4, <1>5, <2>2 DEF kernel, BufferType
  <2> QED BY <2>1, <2>3
<1>10. CallType'
  <2>1. call.nleft - k \in 0..MaxN
    BY <1>2, <1>3
  <2>2. call' \in [op : Ops, n : 0..MaxN, nleft : 0..MaxN, usr : Seq(Position),
                   bufp : 0..MaxN, base : 0..MaxOut]
    BY <1>4, <1>8, <2>1 DEF CallType
  <2>3. /\ call'.op = call.op /\ call'.n = call.n /\ call'.nleft = call.nleft - k
        /\ call'.bufp = call.bufp
    BY <1>4 DEF CallType
  <2>4. buffered'
    BY <1>1 DEF kernel
  <2>5. Len(call'.usr) + call'.nleft = call'.n /\ call'.bufp = 0
    BY <1>1, <1>2, <1>3, <1>8, <2>3 DEF CallType, ReadOps
  <2>6. call'.op = "readlineb" => Len(call'.usr) + 1 <= call'.n
    BY <1>2, <1>3, <1>8, <2>3
  <2> QED BY <1>1, <2>2, <2>3, <2>4, <2>5, <2>6 DEF CallType
<1>11. BytesInOrder' /\ Consumed' = Consumed
  <2>1. Consumed' = Consumed
    BY <1>1, <1>2, <1>3, <1>5, <1>8 DEF m, Consumed
  <2>2. Consumed \in Int
    BY <1>1, <1>2 DEF m, Consumed
  <2>3. call'.usr = After(Consumed, m + k)
    <3>1. call.usr = After(Consumed, m)
      BY DEF m, BytesInOrder
    <3>2. k \in Nat
      BY <1>2, <1>3
    <3>3. After(Consumed, m) \o After(Consumed + m, k) = After(Consumed, m + k)
      BY <1>2, <2>2, <3>2, AfterJoins
    <3> QED BY <1>6, <1>8, <3>1, <3>3
  <2>4. ASSUME NEW i \in 1..(rio_cnt - k)
        PROVE  rio_buf'[rio_ptr' + i - 1] = taken' - Unread' + i
    <3>1. k + i \in 1..Unread
      BY <1>1, <1>2, <1>3
    <3>2. rio_buf[rio_ptr + (k + i) - 1] = taken - Unread + (k + i)
      BY <3>1 DEF BytesInOrder
    <3>3. /\ k \in Nat /\ i \in Nat /\ rio_ptr \in Nat /\ rio_cnt \in Nat /\ taken \in Nat
          /\ rio_ptr' = rio_ptr + k /\ Unread' = rio_cnt - k /\ Unread = rio_cnt
          /\ taken' = taken
      <4>1. k \in Nat /\ i \in Nat
        BY <1>2, <1>3
      <4> QED BY <1>1, <1>2, <1>4, <1>5, <4>1
    <3>4. rio_ptr' + i - 1 = rio_ptr + (k + i) - 1
      BY <3>3
    <3>5. taken' - Unread' + i = taken - Unread + (k + i)
      BY <3>3
    <3> QED BY <1>1, <3>2, <3>4, <3>5
  <2> QED BY <1>5, <1>8, <2>1, <2>3, <2>4 DEF m, BytesInOrder
<1>12. /\ call'.op = call.op
       /\ call.op = "readlineb" => Len(call'.usr) = Len(call.usr) + 1
  <2>1. call'.op = call.op
    BY <1>4 DEF CallType
  <2> QED BY <1>3, <1>8, <2>1 DEF m
<1> QED BY <1>9, <1>10, <1>11, <1>12

\* The first disjunct of ReadDirect.
TakesSome ==
  \E k \in 1..call.nleft :
    /\ Gives(k, call.nleft)
    /\ call' = [call EXCEPT !.usr = @ \o After(taken, k), !.nleft = @ - k]
    /\ UNCHANGED <<last, signals>>

\* rio_readn() takes its bytes from the stream itself: nothing is buffered.
LEMMA DirectTakes ==
  ASSUME IInv, call.op = "readn", ~buffered, rio_cnt = 0, Unread = 0,
         UNCHANGED <<kernel, rio_t, wire>>, BufferType', Unread' = 0,
         TakesSome
  PROVE  IInv' /\ Consumed' = Consumed /\ call'.op = call.op
<1>1. PICK k \in 1..call.nleft :
        /\ taken' = taken + k /\ k <= arrived - taken
        /\ call' = [call EXCEPT !.usr = @ \o After(taken, k), !.nleft = @ - k]
        /\ UNCHANGED <<last, signals>>
  BY DEF TakesSome, Gives
<1>2. KernelType /\ CallType /\ LastType
  BY DEF IInv, IType
<1>3. /\ Length \in Nat /\ taken \in Nat /\ arrived \in 0..Length
      /\ call.nleft \in 0..MaxN /\ call.usr \in Seq(Position)
      /\ Len(call.usr) + call.nleft = call.n /\ call.bufp = 0
  BY <1>2, RioAssumption DEF KernelType, CallType, Position, ReadOps
<1>4. k \in Nat /\ k >= 1 /\ k <= call.nleft /\ k <= arrived - taken
  BY <1>1, <1>3
<1>5. /\ call'.usr = call.usr \o After(taken, k)
      /\ call'.op = call.op /\ call'.n = call.n /\ call'.nleft = call.nleft - k
      /\ call'.bufp = call.bufp
  BY <1>1, <1>2 DEF CallType
<1>6. After(taken, k) \in Seq(Position) /\ Len(After(taken, k)) = k
  <2>1. \A i \in 1..k : taken + i \in Position
    BY <1>3, <1>4 DEF Position
  <2> QED BY <1>4, <2>1 DEF After
<1>7. call'.usr \in Seq(Position) /\ Len(call'.usr) = Len(call.usr) + k
  <2>1. /\ call.usr \o After(taken, k) \in Seq(Position)
        /\ Len(call.usr \o After(taken, k)) = Len(call.usr) + Len(After(taken, k))
    <3> HIDE DEF After
    <3> QED BY <1>3, <1>6, ConcatProperties
  <2> QED BY <1>5, <1>6, <2>1
<1>8. KernelType'
  <2>1. taken' \in Position /\ taken' <= arrived
    BY <1>1, <1>3, <1>4 DEF Position
  <2> QED BY <1>1, <1>2, <2>1 DEF kernel, KernelType
<1>9. LastType'
  BY <1>1, <1>2 DEF LastType
<1>10. CallType'
  <2>1. call.nleft - k \in 0..MaxN
    BY <1>3, <1>4, RioAssumption
  <2>2. call' \in [op : Ops, n : 0..MaxN, nleft : 0..MaxN, usr : Seq(Position),
                   bufp : 0..MaxN, base : 0..MaxOut]
    <3>1. call.usr \o After(taken, k) \in Seq(Position)
      BY <1>5, <1>7
    <3> QED BY <1>1, <1>2, <2>1, <3>1 DEF CallType
  <2>3. Len(call'.usr) + call'.nleft = call'.n /\ call'.bufp = 0
    <3>1. Len(call.usr) \in Nat
      BY <1>3, LenProperties
    <3> QED BY <1>3, <1>4, <1>5, <1>7, <3>1
  <2>4. ~buffered'
    BY DEF kernel
  <2> QED BY <1>5, <2>2, <2>3, <2>4 DEF CallType
<1>11. BytesInOrder' /\ Consumed' = Consumed
  <2>1. Len(call.usr) \in Nat
    BY <1>3, LenProperties
  <2>2. Consumed = taken - Len(call.usr) /\ Consumed' = Consumed /\ Consumed \in Int
    BY <1>1, <1>3, <1>4, <1>7, <2>1 DEF Consumed
  <2>3. call.usr = After(Consumed, Len(call.usr))
    BY DEF IInv, BytesInOrder
  <2>4. taken = Consumed + Len(call.usr)
    BY <1>3, <2>1, <2>2
  <2>5. After(Consumed, Len(call.usr)) \o After(Consumed + Len(call.usr), k)
          = After(Consumed, Len(call.usr) + k)
    BY <1>4, <2>1, <2>2, AfterJoins
  <2>6. call'.usr = After(Consumed, Len(call.usr) + k)
    BY <1>5, <2>3, <2>4, <2>5
  <2> QED BY <1>7, <2>2, <2>6 DEF BytesInOrder
<1> QED BY <1>5, <1>8, <1>9, <1>10, <1>11 DEF IInv, IType

LEMMA ReadDirectStep ==
  ASSUME IInv, ReadDirect
  PROVE  IInv'
<1> USE RioAssumption DEF IInv, IType
<1>1. /\ call.op = "readn" /\ ~buffered /\ rio_cnt = 0 /\ Unread = 0
      /\ call # Idle /\ UNCHANGED <<kernel, rio_t, wire>>
  <2>1. call.op = "readn" /\ UNCHANGED <<kernel, rio_t, wire>>
    BY DEF ReadDirect, Running
  <2>2. call # Idle
    BY <2>1 DEF Idle
  <2> QED BY <2>1, <2>2 DEF CallType, BufferType, Unread
<1>2. BufferType' /\ Unread' = 0
  BY <1>1 DEF kernel, rio_t, BufferType, Unread
<1>3. CASE TakesSome
  BY <1>1, <1>2, <1>3, DirectTakes
<1>4. CASE Interrupted /\ UNCHANGED <<taken, call, last>>
  <2>1. KernelType' /\ CallType' /\ LastType'
    BY <1>1, <1>4 DEF Interrupted, kernel, KernelType, CallType, LastType
  <2>2. BytesInOrder'
    BY <1>1, <1>2, <1>4 DEF BytesInOrder, Consumed
  <2> QED BY <1>2, <2>1, <2>2
<1>5. ASSUME UNCHANGED <<taken, signals>>, NEW rc \in -1..MaxN, Return(rc)
      PROVE  IInv'
  <2>1. KernelType'
    BY <1>1, <1>5 DEF kernel, KernelType
  <2>2. CallType' /\ LastType' /\ BytesInOrder'
    BY <1>1, <1>5, ReturnStep, ReturnOrder DEF rio_t
  <2> QED BY <1>2, <2>1, <2>2
<1>6. Count \in -1..MaxN /\ -1 \in -1..MaxN
  BY <1>1, CountType
<1> QED BY <1>3, <1>4, <1>5, <1>6 DEF ReadDirect, TakesSome

-----------------------------------------------------------------------------
(* Writes, and the peer.                                                   *)

LEMMA Progress ==
  ASSUME NEW m \in Nat, NEW put \in 0..m, NEW left \in 0..m, put + left <= m,
         NEW k \in Nat, k <= left
  PROVE  left - k \in 0..m /\ put + k \in 0..m
OBVIOUS

\* The first disjunct of Write.
PutsSome ==
  \E k \in 1..call.nleft :
    /\ wire' = wire \o After(call.base + call.bufp, k)
    /\ call' = [call EXCEPT !.nleft = @ - k, !.bufp = @ + k]
    /\ UNCHANGED <<last, signals>>

LEMMA WritePuts ==
  ASSUME IInv, call.op = "writen", UNCHANGED <<kernel, rio_t, taken>>,
         BufferType', Unread' = Unread,
         PutsSome
  PROVE  /\ IInv' /\ call'.op = call.op /\ call'.base = call.base
         /\ \E k \in Nat : /\ wire' = wire \o After(Len(wire), k)
                         /\ Len(wire') = Len(wire) + k
<1>1. PICK k \in 1..call.nleft :
        /\ wire' = wire \o After(call.base + call.bufp, k)
        /\ call' = [call EXCEPT !.nleft = @ - k, !.bufp = @ + k]
        /\ UNCHANGED <<last, signals>>
  BY DEF PutsSome
<1>2. KernelType /\ CallType /\ LastType
  BY DEF IInv, IType
<1>3. /\ call.base \in 0..MaxOut /\ call.bufp \in 0..MaxN /\ call.nleft \in 0..MaxN
      /\ call.n \in 0..MaxN /\ call.bufp + call.nleft = call.n /\ call.usr = <<>>
      /\ call.base + call.n <= MaxOut /\ Len(wire) = call.base + call.bufp
      /\ wire \in Seq(1..MaxOut) /\ MaxOut \in Nat /\ MaxN \in Nat
  BY <1>2, RioAssumption DEF CallType, LastType
<1>4. k \in Nat /\ k >= 1 /\ k <= call.nleft
  BY <1>1, <1>3
<1>5. /\ call.base + call.bufp \in Nat
      /\ (call.base + call.bufp) + k <= MaxOut
  BY <1>3, <1>4
<1>6. /\ After(call.base + call.bufp, k) \in Seq(1..MaxOut)
      /\ Len(After(call.base + call.bufp, k)) = k
  BY <1>3, <1>4, <1>5, AfterBounded, AfterType
<1>7. wire' \in Seq(1..MaxOut) /\ Len(wire') = Len(wire) + k
  <2> DEFINE put == After(call.base + call.bufp, k)
  <2> HIDE DEF put
  <2>1. wire' = wire \o put /\ put \in Seq(1..MaxOut) /\ Len(put) = k
    BY <1>1, <1>6 DEF put
  <2>2. wire \o put \in Seq(1..MaxOut) /\ Len(wire \o put) = Len(wire) + Len(put)
    <3>1. wire \in Seq(1..MaxOut)
      BY <1>3
    <3> QED BY <2>1, <3>1, Joined
  <2> QED BY <2>1, <2>2
<1>8. /\ call'.op = "writen" /\ call'.n = call.n /\ call'.nleft = call.nleft - k
      /\ call'.bufp = call.bufp + k /\ call'.base = call.base /\ call'.usr = <<>>
  BY <1>1, <1>2, <1>3 DEF CallType
<1>9. KernelType'
  BY <1>1, <1>2 DEF kernel, KernelType
<1>10. LastType'
  <2>1. Len(wire') <= MaxOut
    BY <1>3, <1>5, <1>7
  <2> QED BY <1>1, <1>2, <1>7, <2>1 DEF LastType
<1>11. CallType'
  <2>1. call.nleft - k \in 0..MaxN /\ call.bufp + k \in 0..MaxN
    <3>1. call.bufp + call.nleft <= MaxN
      BY <1>3
    <3> QED BY <1>3, <1>4, <3>1, Progress
  <2>2. call' \in [op : Ops, n : 0..MaxN, nleft : 0..MaxN, usr : Seq(Position),
                   bufp : 0..MaxN, base : 0..MaxOut]
    BY <1>1, <1>2, <2>1 DEF CallType
  <2>3. /\ call'.bufp + call'.nleft = call'.n /\ call'.base + call'.n <= MaxOut
        /\ Len(wire') = call'.base + call'.bufp
    <3>1. call'.bufp + call'.nleft = call'.n
      BY <1>3, <1>4, <1>8
    <3>2. call'.base + call'.n <= MaxOut
      BY <1>3, <1>8
    <3>3. call'.base + call'.bufp = (call.base + call.bufp) + k
      BY <1>3, <1>4, <1>8
    <3> QED BY <1>3, <1>7, <3>1, <3>2, <3>3
  <2> QED BY <1>8, <2>2, <2>3 DEF CallType, ReadOps
<1>12. BytesInOrder'
  BY <1>3, <1>8 DEF rio_t, IInv, BytesInOrder, Consumed
<1>13. wire' = wire \o After(Len(wire), k)
  BY <1>1, <1>3
<1>14. IInv'
  BY <1>9, <1>10, <1>11, <1>12 DEF IInv, IType
<1> QED BY <1>4, <1>7, <1>8, <1>13, <1>14

LEMMA WriteStep ==
  ASSUME IInv, Write
  PROVE  IInv'
<1>1. /\ call.op = "writen" /\ call # Idle /\ UNCHANGED <<kernel, rio_t, taken>>
      /\ Unread' = Unread
  <2>1. call.op = "writen" /\ UNCHANGED <<kernel, rio_t, taken>>
    BY DEF Write, Running
  <2>2. call # Idle
    BY <2>1 DEF Idle
  <2> QED BY <2>1, <2>2 DEF rio_t, Unread
<1>2. BufferType'
  BY <1>1 DEF kernel, rio_t, IInv, IType, BufferType
<1>3. CASE PutsSome
  BY <1>1, <1>2, <1>3, WritePuts
<1>4. CASE Interrupted /\ UNCHANGED <<wire, call, last>>
  <2>1. KernelType'
    <3>1. signals' \in 0..MaxSignals
      BY <1>4, RioAssumption DEF Interrupted, IInv, IType, KernelType
    <3> QED BY <1>1, <3>1 DEF kernel, IInv, IType, KernelType
  <2>2. CallType' /\ LastType'
    BY <1>1, <1>4 DEF kernel, IInv, IType, CallType, LastType
  <2>3. BytesInOrder'
    BY <1>1, <1>4 DEF rio_t, IInv, BytesInOrder, Consumed
  <2> QED BY <1>2, <2>1, <2>2, <2>3 DEF IInv, IType
<1>5. CASE Return(-1) /\ UNCHANGED <<wire, signals>>
  <2>1. KernelType'
    BY <1>1, <1>5 DEF kernel, IInv, IType, KernelType
  <2>2. CallType' /\ LastType' /\ BytesInOrder'
    BY <1>1, <1>5, ReturnStep, ReturnOrder, RioAssumption DEF rio_t, IInv
  <2> QED BY <1>2, <2>1, <2>2 DEF IInv, IType
<1> QED BY <1>3, <1>4, <1>5 DEF Write, PutsSome

LEMMA PeerStep ==
  ASSUME IInv, Arrive \/ Leave
  PROVE  IInv'
<1> USE RioAssumption DEF IInv, IType
<1>1. /\ UNCHANGED <<newlines, buffered, rio_t, taken, call, last, wire, signals>>
      /\ Unread' = Unread
  BY DEF Arrive, Leave, rio_t, Unread
<1>2. KernelType'
  <2>1. CASE Arrive
    <3>1. arrived' \in Position /\ taken <= arrived'
      BY <2>1 DEF Arrive, KernelType, Position
    <3> QED BY <1>1, <2>1, <3>1 DEF Arrive, KernelType
  <2>2. CASE Leave
    BY <1>1, <2>2 DEF Leave, KernelType
  <2> QED BY <2>1, <2>2
<1>3. BufferType' /\ CallType' /\ LastType'
  BY <1>1 DEF rio_t, BufferType, CallType, LastType
<1>4. BytesInOrder'
  BY <1>1 DEF rio_t, BytesInOrder, Consumed
<1> QED BY <1>2, <1>3, <1>4

-----------------------------------------------------------------------------
\* The inductive invariant: BytesInOrder, and what its arithmetic needs: that
\* the unread bytes end within rio_buf, and that a call's counts add up.
THEOREM Invariance == Spec => []IInv
<1>1. Init => IInv
  BY Initial
<1>2. IInv /\ [Next]_vars => IInv'
  <2> SUFFICES ASSUME IInv, [Next]_vars PROVE IInv'
    OBVIOUS
  <2>1. CASE UNCHANGED vars
    <3>1. KernelType' /\ BufferType'
      BY <2>1 DEF vars, kernel, rio_t, IInv, IType, KernelType, BufferType, Unread
    <3>2. CallType' /\ LastType'
      BY <2>1 DEF vars, kernel, IInv, IType, CallType, LastType
    <3>3. BytesInOrder'
      BY <2>1 DEF vars, rio_t, IInv, BytesInOrder, Unread, Consumed
    <3> QED BY <3>1, <3>2, <3>3 DEF IInv, IType
  <2>2. CASE Step
    BY <2>2, RefillStep, CopyMoves, ReadDirectStep, WriteStep, FinishStep DEF Step
  <2>3. ASSUME NEW op \in ReadOps \cup {"writen"}, NEW n \in 0..MaxN, Call(op, n)
        PROVE  IInv'
    BY <2>3, CallStep
  <2>4. CASE Arrive \/ Leave
    BY <2>4, PeerStep
  <2> QED BY <2>1, <2>2, <2>3, <2>4 DEF Next
<1> QED BY <1>1, <1>2, PTL DEF Spec

\* Every variable keeps its type: no index leaves rio_buf, no call stores more
\* than it was asked for.
THEOREM TypeCorrect == Spec => []TypeOK
<1>1. IInv => TypeOK
  BY TypeParts DEF IInv
<1> QED BY <1>1, Invariance, PTL

\* No byte is lost, doubled or out of order, for buffers and streams of any
\* size (wrap.c:508-530, 564-567).
THEOREM BytesStayInOrder == Spec => []BytesInOrder
<1>1. IInv => BytesInOrder
  BY DEF IInv
<1> QED BY <1>1, Invariance, PTL

-----------------------------------------------------------------------------
(* What the steps need beyond the inductive invariant.                     *)

\* A line that is being read has met no newline before its last byte.
LineGoesOn ==
  call.op = "readlineb" =>
    \A i \in 1..(Len(call.usr) - 1) : Consumed + i \notin newlines

WireInOrder == wire = After(0, Len(wire))

\* A call that failed is the last one.
NoneAfterFailure == call # Idle => last.rc >= 0

Extra == LineGoesOn /\ WireInOrder /\ NoneAfterFailure
RefInv == IInv /\ Extra

\* The wire of the stream: without what the running call has put on it.
SentLen == IF call.op = "writen" THEN call.base ELSE Len(wire)
Sent == IF call.op = "writen" THEN SubSeq(wire, 1, call.base) ELSE wire

LEMMA AfterPrefix ==
  ASSUME NEW j \in Nat, NEW m \in Nat, j <= m
  PROVE  SubSeq(After(0, m), 1, j) = After(0, j)
BY DEF After

LEMMA FromStart ==
  ASSUME NEW j \in Nat, NEW k \in Nat
  PROVE  After(0, j) \o After(j, k) = After(0, j + k)
BY DEF After

LEMMA Lengths ==
  ASSUME IInv
  PROVE  /\ Len(wire) \in Nat /\ SentLen \in Nat /\ SentLen <= Len(wire)
         /\ Len(call.usr) \in Nat /\ Consumed \in Int
         /\ taken \in Nat /\ arrived \in Nat /\ Unread \in Nat
         /\ call.n \in 0..MaxN /\ MaxN \in Nat
<1>1. KernelType /\ BufferType /\ CallType /\ LastType
  BY DEF IInv, IType
<1>2. MaxN \in Nat /\ MaxOut \in Nat /\ Length \in Nat /\ BufSize \in Nat
  BY RioAssumption
<1>3. /\ wire \in Seq(1..MaxOut) /\ call.usr \in Seq(Position)
      /\ taken \in Nat /\ arrived \in Nat /\ call.n \in 0..MaxN
      /\ call.base \in Nat /\ call.bufp \in Nat
  BY <1>1, <1>2 DEF KernelType, CallType, LastType, Position
<1>4. Len(wire) \in Nat /\ Len(call.usr) \in Nat
  BY <1>3, LenProperties
<1>5. Unread \in Nat
  BY <1>1, <1>2 DEF BufferType, Unread
<1>6. SentLen \in Nat /\ SentLen <= Len(wire)
  <2>1. call.op = "writen" => Len(wire) = call.base + call.bufp
    BY <1>1 DEF CallType
  <2> QED BY <1>3, <1>4, <2>1 DEF SentLen
<1>7. Consumed \in Int
  BY <1>3, <1>4, <1>5 DEF Consumed
<1> QED BY <1>2, <1>3, <1>4, <1>5, <1>6, <1>7

LEMMA SentIs ==
  ASSUME IInv, WireInOrder
  PROVE  Sent = After(0, SentLen) /\ Len(Sent) = SentLen
<1>1. Sent = After(0, SentLen)
  <2>1. SubSeq(After(0, Len(wire)), 1, SentLen) = After(0, SentLen)
    BY Lengths, AfterPrefix
  <2> QED BY <2>1 DEF Sent, SentLen, WireInOrder
<1> QED BY <1>1, Lengths, AfterType

-----------------------------------------------------------------------------
(* Steps of the stream.                                                    *)

LEMMA Silent ==
  ASSUME UNCHANGED <<newlines, arrived, peer, last>>, Consumed' = Consumed, Sent' = Sent
  PROVE  [Stream!SNext]_(Stream!svars)
BY DEF Stream!svars, Sent

LEMMA Takes ==
  ASSUME UNCHANGED <<newlines, arrived, peer>>, Sent' = Sent,
         NEW op, NEW n, NEW k, NEW rc, k <= arrived - Consumed,
         Consumed' = Consumed + k,
         last' = [op |-> op, n |-> n, usr |-> After(Consumed, k), rc |-> rc]
  PROVE  Stream!Take(op, n, k, rc)
BY DEF Stream!Take, Stream!After, After, Sent

LEMMA Puts ==
  ASSUME UNCHANGED <<newlines, arrived, peer>>, Consumed' = Consumed, last.rc >= 0,
         NEW n \in 0..MaxN, NEW k \in 0..n, NEW rc \in {n, -1}, rc = n => k = n,
         Sent' = Sent \o After(Len(Sent), k),
         last' = [op |-> "writen", n |-> n, usr |-> <<>>, rc |-> rc]
  PROVE  Stream!SNext
<1>1. Stream!Put(n)
  BY DEF Stream!Put, Stream!After, After, Sent
<1> QED BY <1>1 DEF Stream!SNext

\* A read that returns takes what it has stored, as far as the stream can see.
LEMMA ReturnTakes ==
  ASSUME RefInv, call.op \in ReadOps, NEW rc, Return(rc),
         UNCHANGED <<newlines, arrived, peer, taken, wire>>, Unread' = Unread
  PROVE  /\ Stream!Take(call.op, call.n, Len(call.usr), rc)
         /\ Extra'
<1>1. /\ call' = Idle
      /\ last' = [op |-> call.op, n |-> call.n, usr |-> call.usr, rc |-> rc]
  BY DEF Return
<1>2. /\ Len(call.usr) \in Nat /\ taken \in Nat /\ Unread \in Nat /\ arrived \in Nat
      /\ taken <= arrived /\ Consumed = taken - Unread - Len(call.usr)
  BY Lengths DEF RefInv, IInv, IType, KernelType, Consumed
<1>3. Consumed' = taken - Unread
  <2>1. Len(call'.usr) = 0
    BY <1>1 DEF Idle
  <2> QED BY <1>2, <2>1 DEF Consumed
<1>4. Consumed' = Consumed + Len(call.usr) /\ Len(call.usr) <= arrived - Consumed
  BY <1>2, <1>3
<1>5. call.usr = After(Consumed, Len(call.usr))
  BY DEF RefInv, IInv, BytesInOrder
<1>6. Sent' = Sent
  BY <1>1 DEF Sent, ReadOps, Idle
<1>7. Stream!Take(call.op, call.n, Len(call.usr), rc)
  BY <1>1, <1>4, <1>5, <1>6, Takes
<1>8. Extra'
  BY <1>1 DEF RefInv, Extra, LineGoesOn, WireInOrder, NoneAfterFailure, Idle
<1> QED BY <1>7, <1>8

\* A newline among the bytes of a line is its last byte.
LEMMA NewlineIsLast ==
  ASSUME RefInv, call.op = "readlineb"
  PROVE  AtNewline <=> Len(call.usr) > 0 /\ Consumed + Len(call.usr) \in newlines
<1>1. Len(call.usr) \in Nat /\ Consumed \in Int /\ call.usr \in Seq(Position)
  BY Lengths DEF RefInv, IInv, IType, CallType
<1>2. call.usr = After(Consumed, Len(call.usr))
  BY DEF RefInv, IInv, BytesInOrder
<1>3. Len(call.usr) > 0 => call.usr[Len(call.usr)] = Consumed + Len(call.usr)
  BY <1>1, <1>2 DEF After
<1>4. call.usr # <<>> <=> Len(call.usr) > 0
  BY <1>1, EmptySeq
<1> QED BY <1>3, <1>4 DEF AtNewline

LEMMA LineBytes ==
  ASSUME RefInv, call.op = "readlineb"
  PROVE  /\ call.n \in 1..MaxN /\ Len(call.usr) \in 0..(call.n - 1)
         /\ \A i \in 1..(Len(call.usr) - 1) : Consumed + i \notin newlines
<1>1. Len(call.usr) + 1 <= call.n
  BY DEF RefInv, IInv, IType, CallType
<1> QED BY <1>1, Lengths DEF RefInv, Extra, LineGoesOn

\* A read that fails.
LEMMA FailedRead ==
  ASSUME RefInv, call.op \in ReadOps, Fails, Return(-1),
         UNCHANGED <<newlines, arrived, peer, taken, wire>>, Unread' = Unread
  PROVE  Stream!SNext /\ Extra'
<1>1. /\ Stream!Take(call.op, call.n, Len(call.usr), -1) /\ Extra'
  BY ReturnTakes
<1>2. Len(call.usr) \in 0..call.n /\ call.n \in 0..MaxN
  <2>1. Len(call.usr) + call.nleft = call.n /\ call.nleft \in Nat
    BY RioAssumption DEF RefInv, IInv, IType, CallType
  <2> QED BY <2>1, Lengths DEF RefInv
<1>3. Stream!FailRead(call.op, call.n)
  BY <1>1, <1>2 DEF Stream!FailRead, Fails
<1>4. last.rc >= 0 /\ call.op \in {"readn", "readnb", "readlineb"}
  BY DEF RefInv, Extra, NoneAfterFailure, ReadOps, Idle
<1> QED BY <1>1, <1>2, <1>3, <1>4 DEF Stream!SNext

\* A read that meets the end of the stream.
LEMMA EndedRead ==
  ASSUME RefInv, call.op \in ReadOps, ~Done, AtEof, Unread = 0,
         NEW rc, Return(rc), rc = EofCount,
         UNCHANGED <<newlines, arrived, peer, taken, wire>>, Unread' = Unread
  PROVE  Stream!SNext /\ Extra'
<1> DEFINE k == Len(call.usr)
<1>1. Stream!Take(call.op, call.n, k, rc) /\ Extra'
  BY ReturnTakes
<1>2. k \in Nat /\ call.n \in 0..MaxN /\ call.nleft \in Nat /\ k + call.nleft = call.n
  BY Lengths, RioAssumption DEF RefInv, IInv, IType, CallType
<1>3. Stream!EndsWith(k)
  BY Lengths DEF AtEof, Stream!EndsWith, Consumed, RefInv
<1>4. last.rc >= 0
  BY DEF RefInv, Extra, NoneAfterFailure, ReadOps, Idle
<1>5. CASE call.op \in {"readn", "readnb"}
  <2>1. rc = k
    BY <1>2, <1>5 DEF EofCount, Count
  <2>2. Stream!TakeBytes(call.op, call.n)
    BY <1>1, <1>2, <1>3, <2>1 DEF Stream!TakeBytes
  <2> QED BY <1>1, <1>2, <1>4, <1>5, <2>2 DEF Stream!SNext
<1>6. CASE call.op = "readlineb"
  <2>1. ~(k > 0 /\ Consumed + k \in newlines) /\ ~AtNewline
    BY <1>6, NewlineIsLast DEF Done
  <2>2. rc = IF k = 0 THEN 0 ELSE k + 1
    <3>1. call.usr = <<>> <=> k = 0
      BY EmptySeq DEF RefInv, IInv, IType, CallType
    <3> QED BY <1>2, <1>6, <2>1, <3>1 DEF EofCount, Count
  <2>3. Stream!TakeLine(call.n)
    BY <1>1, <1>3, <1>6, <2>1, <2>2, LineBytes DEF Stream!TakeLine
  <2> QED BY <1>1, <1>2, <1>4, <2>3 DEF Stream!SNext
<1> QED BY <1>5, <1>6 DEF ReadOps

\* A read that is complete, and a write.
LEMMA FinishMaps ==
  ASSUME RefInv, Finish
  PROVE  Stream!SNext /\ Extra'
<1> DEFINE k == Len(call.usr)
<1>1. /\ Done /\ Return(Count) /\ UNCHANGED <<newlines, arrived, peer, taken, wire>>
      /\ Unread' = Unread /\ call # Idle
  BY DEF Finish, kernel, rio_t, Unread
<1>2. /\ last.rc >= 0 /\ call.n \in 0..MaxN /\ k \in Nat
      /\ call.op \in ReadOps \cup {"writen"}
  BY <1>1, Lengths DEF RefInv, Extra, NoneAfterFailure, IInv, IType, CallType, Ops
<1>3. CASE call.op \in {"readn", "readnb"}
  <2>1. call.nleft = 0 /\ Count = call.n - call.nleft /\ k + call.nleft = call.n
    BY <1>1, <1>3 DEF Done, Count, ReadOps, RefInv, IInv, IType, CallType
  <2>2. Stream!Take(call.op, call.n, k, Count) /\ Extra'
    BY <1>1, <1>3, ReturnTakes DEF ReadOps
  <2>3. Count = k /\ k = call.n
    BY <1>2, <2>1
  <2>4. Stream!TakeBytes(call.op, call.n)
    BY <1>2, <2>2, <2>3, Lengths DEF Stream!TakeBytes
  <2> QED BY <1>2, <1>3, <2>2, <2>4 DEF Stream!SNext
<1>4. CASE call.op = "readlineb"
  <2>1. Stream!Take("readlineb", call.n, k, Count) /\ Extra'
    BY <1>1, <1>4, ReturnTakes DEF ReadOps
  <2>2. AtNewline <=> k > 0 /\ Consumed + k \in newlines
    BY <1>4, NewlineIsLast
  <2>3. AtNewline \/ k = call.n - 1
    BY <1>1, <1>2, <1>4, LineBytes DEF Done
  <2>4. Count = IF AtNewline THEN k ELSE k + 1
    BY <1>4 DEF Count
  <2>5. Stream!TakeLine(call.n)
    BY <1>4, <2>1, <2>2, <2>3, <2>4, LineBytes DEF Stream!TakeLine
  <2> QED BY <1>2, <2>1, <2>5 DEF Stream!SNext
<1>5. CASE call.op = "writen"
  <2>1. /\ call.nleft = 0 /\ call.bufp + call.nleft = call.n /\ call.usr = <<>>
        /\ Len(wire) = call.base + call.bufp /\ call.bufp \in Nat /\ call.base \in Nat
    BY <1>1, <1>5, RioAssumption DEF Done, RefInv, IInv, IType, CallType
  <2>2. Count = call.n /\ SentLen = call.base /\ Len(wire) = SentLen + call.n
    BY <1>2, <1>5, <2>1 DEF Count, SentLen
  <2>3. /\ call' = Idle /\ Sent' = wire
        /\ last' = [op |-> "writen", n |-> call.n, usr |-> <<>>, rc |-> call.n]
    BY <1>1, <1>5, <2>1, <2>2 DEF Return, Sent, Idle
  <2>4. Sent' = Sent \o After(Len(Sent), call.n)
    <3>1. Sent = After(0, SentLen) /\ Len(Sent) = SentLen
      BY SentIs DEF RefInv, Extra
    <3>2. After(0, SentLen) \o After(SentLen, call.n) = After(0, SentLen + call.n)
      <4>1. SentLen \in Nat /\ call.n \in Nat
        BY <1>2, <2>1, <2>2, Lengths DEF RefInv
      <4> QED BY <4>1, FromStart
    <3>3. wire = After(0, SentLen + call.n)
      BY <2>2 DEF RefInv, Extra, WireInOrder
    <3> QED BY <2>1, <2>2, <2>3, <3>1, <3>2, <3>3
  <2>5. Consumed' = Consumed
    <3>1. Len(call'.usr) = Len(call.usr)
      BY <2>1, <2>3 DEF Idle
    <3> QED BY <1>1, <3>1 DEF Consumed
  <2>6. call.n \in 0..call.n
    BY <1>2
  <2>7. Stream!SNext
    BY <1>1, <1>2, <2>3, <2>4, <2>5, <2>6, Puts
  <2>8. Extra'
    BY <1>1, <2>3 DEF RefInv, Extra, LineGoesOn, WireInOrder, NoneAfterFailure, Idle
  <2> QED BY <2>7, <2>8
<1> QED BY <1>2, <1>3, <1>4, <1>5 DEF ReadOps

-----------------------------------------------------------------------------
(* Each action is a step of the stream or none.                            *)

StreamStep == [Stream!SNext]_(Stream!svars)

LEMMA CallMaps ==
  ASSUME RefInv, NEW op \in ReadOps \cup {"writen"}, NEW n \in 0..MaxN, Call(op, n)
  PROVE  StreamStep /\ Extra'
<1>1. /\ call = Idle /\ last.rc >= 0
      /\ call' = [op |-> op, n |-> n, nleft |-> n, usr |-> <<>>, bufp |-> 0,
                  base |-> Len(wire)]
      /\ UNCHANGED <<kernel, rio_t, taken, last, wire, signals>>
  BY DEF Call
<1>2. Len(call.usr) = 0 /\ Len(call'.usr) = 0
  BY <1>1 DEF Idle
<1>3. Consumed' = Consumed
  BY <1>1, <1>2 DEF Consumed, Unread, rio_t
<1>4. Sent' = Sent
  <2>1. Sent = wire
    BY <1>1 DEF Sent, Idle
  <2>2. SubSeq(wire, 1, Len(wire)) = wire
    BY DEF RefInv, IInv, IType, LastType
  <2> QED BY <1>1, <2>1, <2>2 DEF Sent
<1>5. StreamStep
  BY <1>1, <1>3, <1>4, Silent DEF kernel, StreamStep
<1>6. Extra'
  <2>1. LineGoesOn'
    BY <1>2 DEF LineGoesOn
  <2>2. WireInOrder' /\ NoneAfterFailure'
    BY <1>1 DEF RefInv, Extra, WireInOrder, NoneAfterFailure
  <2> QED BY <2>1, <2>2 DEF Extra
<1> QED BY <1>5, <1>6

\* A step within a read that stores nothing.
LEMMA NothingStored ==
  ASSUME RefInv, UNCHANGED <<newlines, arrived, peer, call, last, wire>>,
         Consumed' = Consumed
  PROVE  StreamStep /\ Extra'
<1>1. Sent' = Sent
  BY DEF Sent
<1>2. StreamStep
  BY <1>1, Silent DEF StreamStep
<1>3. Extra'
  BY DEF RefInv, Extra, LineGoesOn, WireInOrder, NoneAfterFailure
<1> QED BY <1>2, <1>3

LEMMA RefillMaps ==
  ASSUME RefInv, Refill
  PROVE  StreamStep /\ Extra'
<1>1. /\ call.op \in ReadOps /\ ~Done /\ rio_cnt <= 0 /\ Unread = 0
      /\ UNCHANGED <<newlines, arrived, peer, wire>>
  <2>1. rio_cnt \in Int
    BY RioAssumption DEF RefInv, IInv, IType, BufferType
  <2>2. Unread = 0
    BY <2>1 DEF Refill, Unread
  <2> QED BY <2>2 DEF Refill, Running, ReadOps, kernel
<1>2. CASE Fill
  <2>1. PICK k \in 1..BufSize : taken' = taken + k /\ rio_cnt' = k
    BY <1>2 DEF Fill, Gives
  <2>2. UNCHANGED <<call, last>> /\ Unread' = k
    BY <1>2, <2>1, RioAssumption DEF Fill, Unread
  <2>3. Consumed' = Consumed
    BY <1>1, <2>1, <2>2, Lengths, RioAssumption DEF Consumed, RefInv
  <2> QED BY <1>1, <2>2, <2>3, NothingStored
<1>3. CASE Interrupted /\ NotFilled(-1) /\ UNCHANGED <<call, last>>
  <2>1. Unread' = 0 /\ taken' = taken
    BY <1>3 DEF NotFilled, Unread
  <2>2. Consumed' = Consumed
    BY <1>1, <1>3, <2>1 DEF Consumed
  <2> QED BY <1>1, <1>3, <2>2, NothingStored
<1>4. CASE AtEof /\ NotFilled(0) /\ Return(EofCount)
  <2>1. Unread' = 0 /\ taken' = taken
    BY <1>4 DEF NotFilled, Unread
  <2> QED BY <1>1, <1>4, <2>1, EndedRead DEF StreamStep
<1>5. CASE Fails /\ NotFilled(-1) /\ Return(-1)
  <2>1. Unread' = 0 /\ taken' = taken
    BY <1>5 DEF NotFilled, Unread
  <2> QED BY <1>1, <1>5, <2>1, FailedRead DEF StreamStep
<1> QED BY <1>2, <1>3, <1>4, <1>5 DEF Refill

LEMMA CopyMaps ==
  ASSUME RefInv, Copy
  PROVE  StreamStep /\ Extra'
<1>1. /\ IInv' /\ Consumed' = Consumed /\ call'.op = call.op
      /\ call.op = "readlineb" => Len(call'.usr) = Len(call.usr) + 1
  BY CopyMoves DEF RefInv
<1>2. /\ call.op \in {"readnb", "readlineb"} /\ ~Done
      /\ UNCHANGED <<newlines, arrived, peer, last, wire>>
  BY DEF Copy, Running, kernel
<1>3. StreamStep
  <2>1. Sent' = Sent
    BY <1>1, <1>2 DEF Sent
  <2> QED BY <1>1, <1>2, <2>1, Silent DEF StreamStep
<1>4. LineGoesOn'
  <2> SUFFICES ASSUME call.op = "readlineb", NEW i \in 1..Len(call.usr)
      PROVE Consumed + i \notin newlines
    BY <1>1, <1>2, Lengths DEF LineGoesOn, RefInv
  <2>1. ~AtNewline
    BY <1>2 DEF Done
  <2>2. CASE i = Len(call.usr)
    BY <2>1, <2>2, NewlineIsLast, Lengths DEF RefInv
  <2>3. CASE i # Len(call.usr)
    BY <2>3, LineBytes, Lengths DEF RefInv
  <2> QED BY <2>2, <2>3
<1>5. WireInOrder' /\ NoneAfterFailure'
  <2>1. call # Idle
    BY <1>2 DEF Idle
  <2> QED BY <1>2, <2>1 DEF RefInv, Extra, WireInOrder, NoneAfterFailure
<1> QED BY <1>3, <1>4, <1>5 DEF Extra

LEMMA ReadDirectMaps ==
  ASSUME RefInv, ReadDirect
  PROVE  StreamStep /\ Extra'
<1>1. /\ call.op = "readn" /\ ~Done /\ ~buffered /\ rio_cnt = 0 /\ Unread = 0
      /\ UNCHANGED <<kernel, rio_t, wire>> /\ Unread' = Unread
  <2>1. call.op = "readn" /\ ~Done /\ UNCHANGED <<kernel, rio_t, wire>>
    BY DEF ReadDirect, Running
  <2> QED BY <2>1 DEF RefInv, IInv, IType, CallType, BufferType, Unread, rio_t
<1>2. call.op \in ReadOps /\ UNCHANGED <<newlines, arrived, peer, wire>>
  BY <1>1 DEF ReadOps, kernel
<1>3. CASE TakesSome
  <2>1. BufferType'
    BY <1>1 DEF RefInv, IInv, IType, BufferType, kernel, rio_t
  <2>2. Consumed' = Consumed /\ call'.op = call.op
    BY <1>1, <1>3, <2>1, DirectTakes DEF RefInv
  <2>3. last' = last /\ call # Idle
    BY <1>1, <1>3 DEF TakesSome, Idle
  <2>4. Sent' = Sent
    BY <1>1, <2>2 DEF Sent
  <2>5. Extra'
    BY <1>1, <2>2, <2>3 DEF RefInv, Extra, LineGoesOn, WireInOrder, NoneAfterFailure
  <2> QED BY <1>2, <2>2, <2>3, <2>4, <2>5, Silent DEF StreamStep
<1>4. CASE Interrupted /\ UNCHANGED <<taken, call, last>>
  <2>1. Consumed' = Consumed
    BY <1>1, <1>4 DEF Consumed
  <2> QED BY <1>2, <1>4, <2>1, NothingStored
<1>5. CASE AtEof /\ Return(Count) /\ UNCHANGED taken
  <2>1. Count = EofCount
    BY <1>1 DEF EofCount
  <2> QED BY <1>1, <1>2, <1>5, <2>1, EndedRead DEF StreamStep
<1>6. CASE Fails /\ Return(-1) /\ UNCHANGED taken
  BY <1>1, <1>2, <1>6, FailedRead DEF StreamStep
<1> QED BY <1>3, <1>4, <1>5, <1>6 DEF ReadDirect, TakesSome

LEMMA WriteMaps ==
  ASSUME RefInv, Write
  PROVE  StreamStep /\ Extra'
<1>1. /\ call.op = "writen" /\ call # Idle /\ last.rc >= 0
      /\ UNCHANGED <<kernel, rio_t, taken>>
      /\ UNCHANGED <<newlines, arrived, peer>> /\ Unread' = Unread
  <2>1. call.op = "writen" /\ UNCHANGED <<kernel, rio_t, taken>>
    BY DEF Write, Running
  <2>2. call # Idle
    BY <2>1 DEF Idle
  <2> QED BY <2>1, <2>2 DEF RefInv, Extra, NoneAfterFailure, kernel, rio_t, Unread
<1>2. /\ call.usr = <<>> /\ call.bufp \in Nat /\ call.base \in Nat
      /\ call.bufp + call.nleft = call.n /\ call.nleft \in Nat
      /\ Len(wire) = call.base + call.bufp /\ call.n \in 0..MaxN
  BY <1>1, RioAssumption DEF RefInv, IInv, IType, CallType
<1>3. CASE PutsSome
  <2>1. BufferType'
    BY <1>1 DEF RefInv, IInv, IType, BufferType, kernel, rio_t
  <2>2. /\ IInv' /\ call'.op = call.op /\ call'.base = call.base
        /\ \E k \in Nat : /\ wire' = wire \o After(Len(wire), k)
                          /\ Len(wire') = Len(wire) + k
    BY <1>1, <1>3, <2>1, WritePuts DEF RefInv
  <2>3. WireInOrder'
    <3>1. PICK k \in Nat : wire' = wire \o After(Len(wire), k) /\ Len(wire') = Len(wire) + k
      BY <2>2
    <3>2. After(0, Len(wire)) \o After(Len(wire), k) = After(0, Len(wire) + k)
      <4>1. Len(wire) \in Nat
        BY Lengths DEF RefInv
      <4> QED BY <4>1, FromStart
    <3>3. wire = After(0, Len(wire))
      BY DEF RefInv, Extra, WireInOrder
    <3> QED BY <3>1, <3>2, <3>3 DEF WireInOrder
  <2>4. Sent' = Sent
    <3>1. Sent = After(0, call.base)
      BY <1>1, SentIs DEF RefInv, Extra, SentLen
    <3>2. Sent' = After(0, call'.base)
      <4>1. SentLen' = call'.base
        BY <1>1, <2>2 DEF SentLen
      <4>2. (IInv /\ WireInOrder => Sent = After(0, SentLen))'
        BY SentIs, PTL
      <4> QED BY <2>2, <2>3, <4>1, <4>2
    <3> QED BY <2>2, <3>1, <3>2
  <2>5. Consumed' = Consumed /\ last' = last
    <3>1. call'.usr = call.usr
      BY <1>3 DEF PutsSome, RefInv, IInv, IType, CallType
    <3> QED BY <1>1, <1>3, <3>1 DEF PutsSome, Consumed
  <2>6. Extra'
    BY <1>1, <2>2, <2>3, <2>5 DEF Extra, LineGoesOn, NoneAfterFailure
  <2> QED BY <1>1, <2>4, <2>5, <2>6, Silent DEF StreamStep
<1>4. CASE Interrupted /\ UNCHANGED <<wire, call, last>>
  <2>1. Consumed' = Consumed
    BY <1>1, <1>4 DEF Consumed
  <2> QED BY <1>1, <1>4, <2>1, NothingStored
<1>5. CASE Return(-1) /\ UNCHANGED wire
  <2>1. /\ call' = Idle /\ Sent' = wire
        /\ last' = [op |-> "writen", n |-> call.n, usr |-> <<>>, rc |-> -1]
    BY <1>1, <1>2, <1>5 DEF Return, Sent, Idle
  <2>2. Sent' = Sent \o After(Len(Sent), call.bufp)
    <3>1. Sent = After(0, call.base) /\ Len(Sent) = call.base
      BY <1>1, SentIs DEF RefInv, Extra, SentLen
    <3>2. After(0, call.base) \o After(call.base, call.bufp)
            = After(0, call.base + call.bufp)
      BY <1>2, FromStart
    <3>3. wire = After(0, call.base + call.bufp)
      BY <1>2 DEF RefInv, Extra, WireInOrder
    <3> QED BY <1>2, <2>1, <3>1, <3>2, <3>3
  <2>3. Consumed' = Consumed
    <3>1. Len(call'.usr) = Len(call.usr)
      BY <1>2, <2>1 DEF Idle
    <3> QED BY <1>1, <3>1 DEF Consumed
  <2>4. call.bufp \in 0..call.n /\ -1 \in {call.n, -1} /\ -1 # call.n
    BY <1>2, Lengths DEF RefInv
  <2>5. Stream!SNext
    BY <1>1, <1>2, <2>1, <2>2, <2>3, <2>4, Puts
  <2>6. Extra'
    BY <1>5, <2>1 DEF RefInv, Extra, LineGoesOn, WireInOrder, NoneAfterFailure, Idle
  <2> QED BY <2>5, <2>6 DEF StreamStep
<1> QED BY <1>3, <1>4, <1>5 DEF Write, PutsSome

LEMMA PeerMaps ==
  ASSUME RefInv, Arrive \/ Leave
  PROVE  StreamStep /\ Extra'
<1>1. /\ peer = "open" /\ UNCHANGED <<newlines, rio_t, taken, call, last, wire>>
      /\ Consumed' = Consumed /\ Sent' = Sent
  BY DEF Arrive, Leave, rio_t, Consumed, Unread, Sent
<1>2. /\ arrived' \in Nat /\ arrived' >= arrived
      /\ peer' \in {"open", "closed", "reset"}
  <2>1. CASE Arrive
    BY <1>1, <2>1, Lengths, RioAssumption DEF Arrive, RefInv
  <2>2. CASE Leave
    BY <2>2, Lengths DEF Leave, RefInv
  <2> QED BY <2>1, <2>2
<1>3. Stream!Peer
  BY <1>1, <1>2 DEF Stream!Peer, Sent
<1>4. Extra'
  BY <1>1 DEF RefInv, Extra, LineGoesOn, WireInOrder, NoneAfterFailure
<1> QED BY <1>3, <1>4 DEF StreamStep, Stream!SNext

-----------------------------------------------------------------------------
\* Rio implements ByteStream: whatever read() and write() return and however
\* often they are interrupted, each call takes the next bytes or the next line
\* of the stream, or adds its bytes to it, at once (wrap.c:445-604).
THEOREM Refinement == Spec => StreamImplemented
<1>1. Init => Stream!SInit
  <2> SUFFICES ASSUME Init PROVE Stream!SInit OBVIOUS
  <2>1. /\ arrived = 0 /\ peer = "open" /\ wire = <<>> /\ last = NoCall
        /\ taken = 0 /\ rio_cnt = 0 /\ call = Idle
    BY DEF Init
  <2>2. Consumed = 0
    <3>1. Unread = 0 /\ Len(call.usr) = 0
      BY <2>1 DEF Unread, Idle
    <3> QED BY <2>1, <3>1 DEF Consumed
  <2>3. call.op # "writen"
    BY <2>1 DEF Idle
  <2> QED BY <2>1, <2>2, <2>3 DEF Stream!SInit, Stream!NoCall, NoCall
<1>2. Init => Extra
  BY DEF Init, Extra, LineGoesOn, WireInOrder, NoneAfterFailure, After, Idle
<1>3. RefInv /\ [Next]_vars => StreamStep /\ Extra'
  <2> SUFFICES ASSUME RefInv, [Next]_vars PROVE StreamStep /\ Extra'
    OBVIOUS
  <2>1. CASE UNCHANGED vars
    <3>1. UNCHANGED <<newlines, arrived, peer, call, last, wire>> /\ Consumed' = Consumed
      BY <2>1 DEF vars, kernel, rio_t, Consumed, Unread
    <3> QED BY <3>1, NothingStored
  <2>2. CASE Step
    BY <2>2, RefillMaps, CopyMaps, ReadDirectMaps, WriteMaps, FinishMaps
    DEF Step, StreamStep
  <2>3. ASSUME NEW op \in ReadOps \cup {"writen"}, NEW n \in 0..MaxN, Call(op, n)
        PROVE  StreamStep /\ Extra'
    BY <2>3, CallMaps
  <2>4. CASE Arrive \/ Leave
    BY <2>4, PeerMaps
  <2> QED BY <2>1, <2>2, <2>3, <2>4 DEF Next
<1>4. Spec => []Extra
  <2>1. IInv /\ Extra /\ [Next]_vars => Extra'
    BY <1>3 DEF RefInv
  <2> QED BY <1>2, <2>1, Invariance, PTL DEF Spec
<1>5. IInv /\ Extra /\ [Next]_vars => [Stream!SNext]_(Stream!svars)
  BY <1>3 DEF RefInv, StreamStep
<1> QED BY <1>1, <1>4, <1>5, Invariance, PTL DEF Spec, StreamImplemented, Stream!SSpec

-----------------------------------------------------------------------------
(***************************************************************************)
(* No call goes round for nothing.                                         *)
(***************************************************************************)

\* What the running call has still to do, what read() can still return, and
\* the interruptions left.
Due == (IF call = Idle THEN 0 ELSE 1 + call.nleft) + (Length - taken) + signals

\* Each round of a loop of rio_readn, rio_read, rio_readnb, rio_readlineb or
\* rio_writen uses up a byte asked for, a byte of the stream or an
\* interruption, or is the last one (wrap.c:445-604): the -1 that an
\* interrupted read() leaves in rio_cnt starts one more round, not an endless
\* one.  ReadReturns adds to this that a read whose peer has gone always has
\* a next round.
RoundsCount ==
  /\ [](Due \in Nat)
  /\ [][Step => Due' < Due]_vars

LEMMA DueType ==
  ASSUME IInv
  PROVE  /\ Due \in Nat /\ Length \in Nat /\ taken \in Nat /\ signals \in Nat
         /\ call \in [op : Ops, n : 0..MaxN, nleft : 0..MaxN, usr : Seq(Position),
                      bufp : 0..MaxN, base : 0..MaxOut]
         /\ call.nleft \in Nat
<1>1. Length \in Nat /\ MaxN \in Nat /\ MaxSignals \in Nat
  BY RioAssumption
<1>2. taken \in 0..Length /\ signals \in 0..MaxSignals
  BY DEF IInv, IType, KernelType, Position
<1>3. call \in [op : Ops, n : 0..MaxN, nleft : 0..MaxN, usr : Seq(Position),
                bufp : 0..MaxN, base : 0..MaxOut]
  BY DEF IInv, IType, CallType
<1>4. call.nleft \in 0..MaxN
  BY <1>3
<1> QED BY <1>1, <1>2, <1>3, <1>4 DEF Due

\* One of three summands gets less and none gets more.
LEMMA OneIsLess ==
  ASSUME NEW a \in Nat, NEW b \in Nat, NEW c \in Nat, NEW d \in Nat,
         NEW e \in Nat, NEW f \in Nat, NEW g \in Nat,
         a <= b, c >= d, e <= f, a < b \/ c > d \/ e < f
  PROVE  1 + a + (g - c) + e < 1 + b + (g - d) + f
OBVIOUS

\* For buffers, streams and requests of any size, and whatever read() and
\* write() return, a robust I/O call goes round finitely often
\* (wrap.c:445-604).
THEOREM CallsAreBounded == Spec => RoundsCount
<1>1. IInv => Due \in Nat
  BY DueType
<1>2. IInv /\ IInv' /\ Step => Due' < Due
  <2> SUFFICES ASSUME IInv, IInv', Step PROVE Due' < Due
    OBVIOUS
  <2>1. /\ Length \in Nat /\ taken \in Nat /\ signals \in Nat /\ call.nleft \in Nat
        /\ call \in [op : Ops, n : 0..MaxN, nleft : 0..MaxN, usr : Seq(Position),
                     bufp : 0..MaxN, base : 0..MaxOut]
    BY DueType
  <2>2. taken' \in Nat /\ signals' \in Nat /\ (call').nleft \in Nat
    <3>1. Length \in Nat /\ MaxN \in Nat /\ MaxSignals \in Nat
      BY RioAssumption
    <3>2. taken' \in 0..Length /\ signals' \in 0..MaxSignals
      BY DEF IInv, IType, KernelType, Position
    <3>3. call' \in [op : Ops, n : 0..MaxN, nleft : 0..MaxN, usr : Seq(Position),
                     bufp : 0..MaxN, base : 0..MaxOut]
      BY DEF IInv, IType, CallType
    <3> QED BY <3>1, <3>2, <3>3
  <2>3. call # Idle
    <3>1. Idle.op = "none"
      BY DEF Idle
    <3>2. Finish \/ call.op \in ReadOps \cup {"writen"}
      BY DEF Step, Refill, Copy, ReadDirect, Write, Running, ReadOps
    <3> QED BY <3>1, <3>2 DEF Finish, ReadOps
  <2> SUFFICES \/ call' = Idle /\ taken' = taken /\ signals' = signals
               \/ /\ (call').nleft <= call.nleft /\ taken' >= taken /\ signals' <= signals
                  /\ \/ (call').nleft < call.nleft
                     \/ taken' > taken
                     \/ signals' < signals
    <3> DEFINE Round == /\ (call').nleft <= call.nleft
                        /\ taken' >= taken /\ signals' <= signals
                        /\ \/ (call').nleft < call.nleft
                           \/ taken' > taken
                           \/ signals' < signals
    <3>1. Due = 1 + call.nleft + (Length - taken) + signals
      BY <2>3 DEF Due
    <3>2. CASE call' = Idle /\ taken' = taken /\ signals' = signals
      <4>1. Due' = 0 + (Length - taken) + signals
        BY <3>2 DEF Due
      <4> QED BY <2>1, <3>1, <4>1
    <3>3. CASE call' = Idle /\ Round
      <4>1. Due' = 0 + (Length - taken') + signals'
        BY <3>3 DEF Due
      <4> QED BY <2>1, <2>2, <3>1, <3>3, <4>1
    <3>4. CASE call' # Idle /\ Round
      <4>1. Due' = 1 + (call').nleft + (Length - taken') + signals'
        BY <3>4 DEF Due
      <4>2. 1 + (call').nleft + (Length - taken') + signals'
              < 1 + call.nleft + (Length - taken) + signals
        BY <2>1, <2>2, <3>4, OneIsLess
      <4> QED BY <3>1, <4>1, <4>2
    <3> QED BY <3>2, <3>3, <3>4
  <2>4. CASE Finish
    BY <2>4 DEF Finish, Return
  <2>5. CASE Refill
    <3>1. CASE Fill
      BY <2>1, <2>5, <3>1 DEF Refill, Fill, Gives
    <3>2. CASE Interrupted /\ NotFilled(-1) /\ UNCHANGED <<call, last>>
      BY <2>1, <3>2 DEF Interrupted, NotFilled
    <3>3. CASE (\E rc : Return(rc)) /\ UNCHANGED <<signals, taken>>
      BY <3>3 DEF Return
    <3> QED BY <2>5, <3>1, <3>2, <3>3 DEF Refill, NotFilled
  <2>6. CASE Copy
    <3> DEFINE k == Least(Asked, rio_cnt)
    <3>1. call' = [call EXCEPT
                     !.usr = @ \o [i \in 1..k |-> rio_buf[rio_ptr + i - 1]],
                     !.nleft = @ - k]
      BY <2>6 DEF Copy, Store
    <3>2. (call').nleft = call.nleft - k
      BY <2>1, <3>1
    <3>3. rio_cnt \in Int /\ rio_cnt > 0
      BY <2>6, RioAssumption DEF Copy, IInv, IType, BufferType
    <3>4. Asked \in Nat /\ Asked > 0
      <4>1. CASE call.op = "readlineb"
        BY <4>1 DEF Asked
      <4>2. CASE call.op # "readlineb"
        BY <2>1, <2>6, <4>2 DEF Asked, Copy, Running, Done
      <4> QED BY <4>1, <4>2
    <3>5. k \in Nat /\ k > 0
      BY <3>3, <3>4 DEF Least
    <3>6. taken' = taken /\ signals' = signals
      BY <2>6 DEF Copy
    <3> HIDE DEF k
    <3> QED BY <2>1, <2>2, <3>2, <3>5, <3>6
  <2>7. CASE ReadDirect
    <3>1. ASSUME NEW k \in 1..call.nleft, Gives(k, call.nleft),
                 call' = [call EXCEPT !.usr = @ \o After(taken, k), !.nleft = @ - k],
                 signals' = signals
          PROVE  (call').nleft < call.nleft /\ taken' >= taken /\ signals' <= signals
      <4>1. (call').nleft = call.nleft - k
        BY <2>1, <3>1
      <4>2. taken' = taken + k
        BY <3>1 DEF Gives
      <4> QED BY <2>1, <3>1, <4>1, <4>2
    <3>2. CASE Interrupted /\ UNCHANGED <<taken, call, last>>
      BY <2>1, <3>2 DEF Interrupted
    <3>3. CASE (\E rc : Return(rc)) /\ UNCHANGED <<signals, taken>>
      BY <3>3 DEF Return
    <3>4. ASSUME NEW k \in 1..call.nleft,
                 (call').nleft < call.nleft /\ taken' >= taken /\ signals' <= signals
          PROVE  (call').nleft <= call.nleft
      BY <2>1, <2>2, <3>4
    <3> QED BY <2>7, <3>1, <3>2, <3>3, <3>4 DEF ReadDirect
  <2>8. CASE Write
    <3>1. ASSUME NEW k \in 1..call.nleft,
                 call' = [call EXCEPT !.nleft = @ - k, !.bufp = @ + k]
          PROVE  (call').nleft <= call.nleft /\ (call').nleft < call.nleft
      <4>1. (call').nleft = call.nleft - k
        BY <2>1, <3>1
      <4> QED BY <2>1, <3>1, <4>1
    <3>2. CASE Interrupted /\ UNCHANGED <<wire, call, last>>
      <4>1. taken' = taken
        BY <2>8 DEF Write
      <4> QED BY <2>1, <3>2, <4>1 DEF Interrupted
    <3>3. CASE (\E rc : Return(rc)) /\ UNCHANGED <<wire, signals>>
      BY <2>8, <3>3 DEF Return, Write
    <3>4. taken' = taken /\ taken' >= taken
      <4>1. taken' = taken
        BY <2>8 DEF Write
      <4> QED BY <2>1, <4>1
    <3>5. signals' = signals => signals' <= signals
      BY <2>1
    <3> QED BY <2>8, <3>1, <3>2, <3>3, <3>4, <3>5 DEF Write
  <2> QED BY <2>4, <2>5, <2>6, <2>7, <2>8 DEF Step
<1>3. IInv /\ IInv' /\ [Next]_vars => [Step => Due' < Due]_vars
  BY <1>2
<1> QED BY <1>1, <1>3, Invariance, PTL DEF Spec, RoundsCount
=============================================================================
