----------------------------- MODULE LogsProofs -----------------------------
(***************************************************************************)
(* Theorems about Logs: for any number of workers, headers and messages of *)
(* any length and stdio buffers of any size, what ends up in the two log   *)
(* files, and in which order.                                              *)
(***************************************************************************)
EXTENDS Logs, SequenceTheorems, TLAPS

-----------------------------------------------------------------------------
(* Types.                                                                  *)

Entry == [who : Workers, line : 0..MaxLines]
Piece == [who : Workers, at : {"client", "serve"}, piece : Nat, size : Nat]

IType ==
  /\ kind \in [Workers -> {"static", "forbidden", "get", "post"}]
  /\ lines \in [Workers -> 1..MaxLines] /\ line \in [Workers -> 0..MaxLines]
  /\ gone \in [Workers -> {"here", "closed", "reset"}]
  /\ pc \in [Workers -> Places]
  /\ child \in [Workers -> {"none", "feeder", "program", "ended"}]
  /\ msg \in [Workers -> [size : 0..MaxPieces, left : 0..MaxPieces]]
  /\ buf \in [Workers -> Seq(Entry)] /\ cbuf \in [Workers -> Seq(Entry)]
  /\ access \in Seq(Entry) /\ debug \in Seq(Piece)

\* What a worker holds: at most one stamp in each buffer, and a message only
\* where it writes one.
Holds(w) ==
  /\ buf[w] \in {<<>>, <<Stamp(w)>>} /\ cbuf[w] \in {<<>>, <<Stamp(w)>>}
  /\ msg[w].left <= msg[w].size
  /\ msg[w].left > 0 => pc[w] \in {"client", "serve"}

-----------------------------------------------------------------------------
(* The access log.                                                         *)

\* Before the first line nothing is logged or buffered.
Fresh(w) ==
  pc[w] \in {"client", "first"} =>
    line[w] = 0 /\ gone[w] = "here" /\ buf[w] = <<>> /\ Stamps(w) = {}

\* The child, which is forked after the header, is the only one to have a
\* second copy of the stamp.
Family(w) ==
  /\ pc[w] \notin {"forked", "ended"} => child[w] = "none"
  /\ pc[w] = "header" => line[w] >= 1
  /\ child[w] = "none" => cbuf[w] = <<>> /\ (buf[w] # <<>> => Stamps(w) = {})

\* With a second line, the stamp leaves the buffer with the line after it.
Flushed(w) ==
  lines[w] > 1 =>
    /\ cbuf[w] = <<>>
    /\ buf[w] # <<>> => pc[w] = "header" /\ line[w] = 1
    /\ Stamps(w) # {} => line[w] >= 2 \/ gone[w] # "here"

\* Only a client that resets before its second line leaves it alone.
Followed(w, i) ==
  /\ i < Len(access) /\ access[i + 1].who = w
  /\ access[i + 1].line = IF gone[w] = "closed" /\ line[w] = 1 THEN 1 ELSE 2

Lone(w) == gone[w] = "reset" /\ line[w] = 1 /\ Logged(w) = {}

StampLine(w) ==
  lines[w] > 1 =>
    \A i \in Stamps(w) : Stamps(w) = {i} /\ (Followed(w, i) \/ Lone(w))

\* Stamps in the file and stamps that are still to be written are two at most.
Two(w) ==
  /\ \A i, j, k \in Stamps(w) : i = j \/ j = k \/ i = k
  /\ buf[w] # <<>> \/ cbuf[w] # <<>> => \A i, j \in Stamps(w) : i = j
  /\ buf[w] # <<>> /\ cbuf[w] # <<>> => Stamps(w) = {}

LinesOf(w) ==
  /\ \A k \in 2..line[w] : \E i \in Logged(w) : access[i].line = k
  /\ \A i \in Logged(w) :
       \/ access[i].line \in 2..line[w]
       \/ gone[w] = "closed" /\ access[i].line = line[w]
  /\ \A i, j \in Logged(w) : i < j =>
       \/ access[i].line < access[j].line
       \/ gone[w] = "closed" /\ access[i].line = line[w] /\ access[j].line = line[w]

Access(w) ==
  Fresh(w) /\ Family(w) /\ Flushed(w) /\ StampLine(w) /\ Two(w) /\ LinesOf(w)

IInv == IType /\ \A w \in Workers : Holds(w) /\ Access(w)

LEMMA Constants ==
  /\ MaxLines \in Nat \ {0} /\ MaxPieces \in Nat \ {0}
  /\ StdioBuf \in Nat \ {0} /\ PieceBytes \in Nat
BY LogsAssumption

\* What is written at the end of the access log leaves the rest of it alone.
LEMMA Grows ==
  ASSUME IType, NEW s \in Seq(Entry), access' = access \o s
  PROVE  /\ access' \in Seq(Entry) /\ Len(access') = Len(access) + Len(s)
         /\ DOMAIN access = 1..Len(access) /\ DOMAIN access' = 1..Len(access')
         /\ Len(access) \in Nat /\ Len(s) \in Nat
         /\ \A i \in DOMAIN access : i \in DOMAIN access' /\ access'[i] = access[i]
         /\ \A i \in 1..Len(s) : access'[Len(access) + i] = s[i]
         /\ \A i \in DOMAIN access' :
              i \in DOMAIN access \/ \E j \in 1..Len(s) : i = Len(access) + j
<1>1. access \in Seq(Entry)
  BY DEF IType
<1> QED BY <1>1, ConcatProperties, LenProperties

\* What is known of a worker's lines, and of its stamps, is kept as long as
\* the log only grows.
LEMMA LinesKept ==
  ASSUME NEW v \in Workers, LinesOf(v),
         line'[v] = line[v], gone'[v] = gone[v], Logged(v)' = Logged(v),
         \A i \in DOMAIN access : access'[i] = access[i]
  PROVE  LinesOf(v)'
<1>1. \A i \in Logged(v) : access'[i] = access[i]
  BY DEF Logged
<1>2. \A k \in 2..line'[v] : \E i \in Logged(v)' : access'[i].line = k
  <2> SUFFICES ASSUME NEW k \in 2..line[v]
      PROVE  \E i \in Logged(v) : access'[i].line = k
    OBVIOUS
  <2>1. PICK i \in Logged(v) : access[i].line = k
    BY DEF LinesOf
  <2>2. access'[i].line = k
    BY <1>1, <2>1
  <2> QED BY <2>2
<1>3. \A i \in Logged(v)' :
        \/ access'[i].line \in 2..line'[v]
        \/ gone'[v] = "closed" /\ access'[i].line = line'[v]
  BY <1>1 DEF LinesOf
<1>4. \A i, j \in Logged(v)' : i < j =>
        \/ access'[i].line < access'[j].line
        \/ gone'[v] = "closed" /\ access'[i].line = line'[v] /\ access'[j].line = line'[v]
  <2> SUFFICES ASSUME NEW i \in Logged(v), NEW j \in Logged(v), i < j
      PROVE  \/ access'[i].line < access'[j].line
             \/ gone'[v] = "closed" /\ access'[i].line = line'[v] /\ access'[j].line = line'[v]
    OBVIOUS
  <2>1. \/ access[i].line < access[j].line
        \/ gone[v] = "closed" /\ access[i].line = line[v] /\ access[j].line = line[v]
    BY DEF LinesOf
  <2> QED BY <1>1, <2>1
<1> QED BY <1>2, <1>3, <1>4 DEF LinesOf

LEMMA StampKept ==
  ASSUME NEW v \in Workers, StampLine(v),
         line'[v] = line[v], gone'[v] = gone[v], lines'[v] = lines[v],
         Stamps(v)' = Stamps(v), Logged(v)' = Logged(v), DOMAIN access = 1..Len(access),
         Len(access) \in Nat, Len(access') \in Nat, Len(access') >= Len(access),
         \A i \in DOMAIN access : access'[i] = access[i]
  PROVE  StampLine(v)'
<1> SUFFICES ASSUME lines[v] > 1, NEW i \in Stamps(v)
    PROVE  Stamps(v) = {i} /\ (Followed(v, i)' \/ Lone(v)')
  BY DEF StampLine
<1>1. Stamps(v) = {i} /\ (Followed(v, i) \/ Lone(v))
  BY DEF StampLine
<1>2. Lone(v) => Lone(v)'
  BY DEF Lone
<1>3. ASSUME Followed(v, i) PROVE Followed(v, i)'
  <2>1. i \in DOMAIN access
    BY DEF Stamps
  <2>2. i + 1 \in DOMAIN access
    BY <1>3, <2>1 DEF Followed
  <2> QED BY <1>3, <2>1, <2>2 DEF Followed
<1> QED BY <1>1, <1>2, <1>3

\* Steps of one worker.
OnlyOf(w) ==
  \A v \in Workers \ {w} :
    /\ pc'[v] = pc[v] /\ line'[v] = line[v] /\ gone'[v] = gone[v]
    /\ msg'[v] = msg[v] /\ buf'[v] = buf[v]
    /\ child'[v] = child[v] /\ cbuf'[v] = cbuf[v]

\* They do not disturb what is logged of the others.
LEMMA Others ==
  ASSUME IInv, NEW w \in Workers, OnlyOf(w), UNCHANGED <<kind, lines>>,
         NEW s \in Seq(Entry), access' = access \o s,
         \A i \in 1..Len(s) : s[i].who = w,
         NEW v \in Workers \ {w}
  PROVE  Holds(v)' /\ Access(v)'
<1>1. /\ Holds(v) /\ Access(v)
      /\ pc'[v] = pc[v] /\ line'[v] = line[v] /\ gone'[v] = gone[v]
      /\ msg'[v] = msg[v] /\ buf'[v] = buf[v] /\ lines'[v] = lines[v]
      /\ child'[v] = child[v] /\ cbuf'[v] = cbuf[v]
  BY DEF IInv, OnlyOf
<1>2. /\ \A i \in DOMAIN access : i \in DOMAIN access' /\ access'[i] = access[i]
      /\ \A i \in DOMAIN access' : i \in DOMAIN access \/ access'[i].who = w
      /\ Len(access') >= Len(access) /\ Len(access) \in Nat /\ Len(access') \in Nat
      /\ DOMAIN access = 1..Len(access)
  BY Grows DEF IInv
<1>3. Stamps(v)' = Stamps(v) /\ Logged(v)' = Logged(v)
  BY <1>2 DEF Stamps, Logged, Stamp
<1>4. Holds(v)'
  BY <1>1 DEF Holds, Stamp
<1>5. Fresh(v)' /\ Family(v)' /\ Flushed(v)' /\ Two(v)'
  BY <1>1, <1>3 DEF Access, Fresh, Family, Flushed, Two
<1>6. StampLine(v)'
  BY <1>1, <1>2, <1>3, StampKept DEF Access
<1>7. LinesOf(v)'
  BY <1>1, <1>2, <1>3, LinesKept DEF Access
<1> QED BY <1>4, <1>5, <1>6, <1>7 DEF Access

\* A step of one worker that writes nothing to the access log.
LEMMA OthersSilent ==
  ASSUME IInv, NEW w \in Workers, OnlyOf(w), UNCHANGED <<kind, lines, access>>,
         NEW v \in Workers \ {w}
  PROVE  Holds(v)' /\ Access(v)'
<1>1. access \in Seq(Entry) /\ <<>> \in Seq(Entry)
  BY DEF IInv, IType
<1>2. access' = access \o <<>>
  BY <1>1, ConcatEmptySeq
<1>3. \A i \in 1..Len(<<>>) : <<>>[i].who = w
  BY EmptySeq
<1> QED BY <1>1, <1>2, <1>3, Others

-----------------------------------------------------------------------------
(* What one write adds of the worker that acts.                            *)

LEMMA StampWritten ==
  ASSUME IInv, NEW w \in Workers, access' = access \o <<Stamp(w)>>
  PROVE  /\ Stamps(w)' = Stamps(w) \cup {Len(access) + 1}
         /\ Logged(w)' = Logged(w)
<1>1. /\ Stamp(w) \in Entry /\ Stamp(w).who = w /\ Stamp(w).line = 0
  BY Constants DEF Stamp, Entry
<1>2. <<Stamp(w)>> \in Seq(Entry) /\ Len(<<Stamp(w)>>) = 1 /\ <<Stamp(w)>>[1] = Stamp(w)
  BY <1>1
<1>3. /\ DOMAIN access = 1..Len(access) /\ DOMAIN access' = 1..Len(access')
      /\ Len(access) \in Nat /\ Len(access') = Len(access) + 1
      /\ \A i \in DOMAIN access : i \in DOMAIN access' /\ access'[i] = access[i]
      /\ access'[Len(access) + 1] = Stamp(w)
      /\ \A i \in DOMAIN access' : i \in DOMAIN access \/ i = Len(access) + 1
  BY <1>2, Grows DEF IInv
<1>4. Stamps(w)' = Stamps(w) \cup {Len(access) + 1}
  BY <1>3 DEF Stamps, Stamp
<1>5. Logged(w)' = Logged(w)
  BY <1>1, <1>3 DEF Logged
<1> QED BY <1>4, <1>5

LEMMA LineWritten ==
  ASSUME IInv, NEW w \in Workers, NEW k \in 1..MaxLines,
         access' = access \o <<Line(w, k)>>
  PROVE  /\ Stamps(w)' = Stamps(w)
         /\ Logged(w)' = Logged(w) \cup {Len(access) + 1}
<1>1. /\ Line(w, k) \in Entry /\ Line(w, k).who = w /\ Line(w, k).line = k
      /\ k > 0 /\ Line(w, k) # Stamp(w)
  BY Constants DEF Line, Stamp, Entry
<1>2. /\ <<Line(w, k)>> \in Seq(Entry) /\ Len(<<Line(w, k)>>) = 1
      /\ <<Line(w, k)>>[1] = Line(w, k)
  BY <1>1
<1>3. /\ DOMAIN access = 1..Len(access) /\ DOMAIN access' = 1..Len(access')
      /\ Len(access) \in Nat /\ Len(access') = Len(access) + 1
      /\ \A i \in DOMAIN access : i \in DOMAIN access' /\ access'[i] = access[i]
      /\ access'[Len(access) + 1] = Line(w, k)
      /\ \A i \in DOMAIN access' : i \in DOMAIN access \/ i = Len(access) + 1
  BY <1>2, Grows DEF IInv
<1>4. Stamps(w)' = Stamps(w)
  BY <1>1, <1>3 DEF Stamps, Stamp
<1>5. Logged(w)' = Logged(w) \cup {Len(access) + 1}
  BY <1>1, <1>3 DEF Logged
<1> QED BY <1>4, <1>5

LEMMA BothWritten ==
  ASSUME IInv, NEW w \in Workers, NEW k \in 1..MaxLines,
         access' = access \o <<Stamp(w), Line(w, k)>>
  PROVE  /\ Stamps(w)' = Stamps(w) \cup {Len(access) + 1}
         /\ Logged(w)' = Logged(w) \cup {Len(access) + 2}
<1>1. /\ Line(w, k) \in Entry /\ Line(w, k).who = w /\ Line(w, k).line = k
      /\ Stamp(w) \in Entry /\ Stamp(w).who = w /\ Stamp(w).line = 0
      /\ k > 0 /\ Line(w, k) # Stamp(w)
  BY Constants DEF Line, Stamp, Entry
<1>2. /\ <<Stamp(w), Line(w, k)>> \in Seq(Entry) /\ Len(<<Stamp(w), Line(w, k)>>) = 2
      /\ <<Stamp(w), Line(w, k)>>[1] = Stamp(w)
      /\ <<Stamp(w), Line(w, k)>>[2] = Line(w, k)
  BY <1>1
<1>3. /\ DOMAIN access = 1..Len(access) /\ DOMAIN access' = 1..Len(access')
      /\ Len(access) \in Nat /\ Len(access') = Len(access) + 2
      /\ \A i \in DOMAIN access : i \in DOMAIN access' /\ access'[i] = access[i]
      /\ access'[Len(access) + 1] = Stamp(w) /\ access'[Len(access) + 2] = Line(w, k)
      /\ \A i \in DOMAIN access' :
           i \in DOMAIN access \/ i = Len(access) + 1 \/ i = Len(access) + 2
  <2> DEFINE s == <<Stamp(w), Line(w, k)>>
  <2>1. s \in Seq(Entry) /\ Len(s) = 2 /\ s[1] = Stamp(w) /\ s[2] = Line(w, k)
    BY <1>2
  <2>2. access' = access \o s
    OBVIOUS
  <2> HIDE DEF s
  <2>3. /\ Len(access') = Len(access) + 2
        /\ DOMAIN access = 1..Len(access) /\ DOMAIN access' = 1..Len(access')
        /\ Len(access) \in Nat
        /\ \A i \in DOMAIN access : i \in DOMAIN access' /\ access'[i] = access[i]
        /\ \A i \in 1..2 : access'[Len(access) + i] = s[i]
    BY <2>1, <2>2, Grows DEF IInv
  <2> QED BY <2>1, <2>3
<1>4. Stamps(w)' = Stamps(w) \cup {Len(access) + 1}
  BY <1>1, <1>3 DEF Stamps, Stamp
<1>5. Logged(w)' = Logged(w) \cup {Len(access) + 2}
  BY <1>1, <1>3 DEF Logged
<1> QED BY <1>4, <1>5

-----------------------------------------------------------------------------
(* The steps.                                                              *)

\* What the invariant says of the worker that acts.
Known(w) ==
  /\ lines[w] \in 1..MaxLines /\ line[w] \in 0..MaxLines
  /\ gone[w] \in {"here", "closed", "reset"} /\ pc[w] \in Places
  /\ msg[w] \in [size : 0..MaxPieces, left : 0..MaxPieces]
  /\ buf[w] \in Seq(Entry) /\ cbuf[w] \in Seq(Entry)
  /\ DOMAIN access = 1..Len(access) /\ Len(access) \in Nat
  /\ IType /\ Holds(w) /\ Fresh(w) /\ Family(w) /\ Flushed(w)
  /\ StampLine(w) /\ Two(w) /\ LinesOf(w)

LEMMA Facts ==
  ASSUME IInv, NEW w \in Workers
  PROVE  Known(w)
<1>1. IType /\ Holds(w) /\ Access(w)
  BY DEF IInv
<1>2. access \in Seq(Entry)
  BY <1>1 DEF IType
<1>3. DOMAIN access = 1..Len(access) /\ Len(access) \in Nat
  BY <1>2, LenProperties
<1> QED BY <1>1, <1>3 DEF IType, Access, Known

\* A step is proved for the worker that takes it.
LEMMA Acts ==
  ASSUME IInv, NEW w \in Workers, OnlyOf(w), UNCHANGED <<kind, lines>>,
         NEW s \in Seq(Entry), access' = access \o s,
         \A i \in 1..Len(s) : s[i].who = w,
         IType', Holds(w)', Access(w)'
  PROVE  IInv'
<1>1. \A v \in Workers \ {w} : Holds(v)' /\ Access(v)'
  BY Others
<1> QED BY <1>1 DEF IInv

LEMMA ActsSilently ==
  ASSUME IInv, NEW w \in Workers, OnlyOf(w), UNCHANGED <<kind, lines, access>>,
         IType', Holds(w)', Access(w)'
  PROVE  IInv'
<1>1. \A v \in Workers \ {w} : Holds(v)' /\ Access(v)'
  BY OthersSilent
<1> QED BY <1>1 DEF IInv

\* A process that ends loses its buffer, to the log or not; the stamp in it is
\* one whose line never came.
LEMMA Ends ==
  ASSUME IInv, NEW w \in Workers, pc[w] \in {"client", "serve", "send", "forked"},
         Exit(w) \/ Drop(w), UNCHANGED <<request, header, msg, children, debug>>,
         msg[w].left = 0
  PROVE  IInv'
<1>0. Known(w)
  BY Facts
<1> USE <1>0 DEF Known
<1>1. /\ pc' = [pc EXCEPT ![w] = "ended"] /\ pc'[w] = "ended"
      /\ buf' = [buf EXCEPT ![w] = <<>>] /\ buf'[w] = <<>>
      /\ UNCHANGED <<kind, lines, gone, line, msg, child, cbuf, debug>>
  BY DEF Exit, Drop, Go, request, header, children, IType
<1>2. OnlyOf(w)
  BY <1>1 DEF OnlyOf, IType
<1>3. Holds(w)'
  BY <1>1 DEF Holds, Stamp
<1>4. Fresh(w)' /\ (child[w] = "none" => cbuf[w] = <<>>)
  BY <1>1 DEF Fresh, Family
<1>5. CASE UNCHANGED access
  <2>1. Stamps(w)' = Stamps(w) /\ Logged(w)' = Logged(w)
    BY <1>5 DEF Stamps, Logged, Stamp
  <2>2. IType'
    BY <1>1, <1>5 DEF IType, Places
  <2>3. Family(w)' /\ Flushed(w)' /\ Two(w)'
    BY <1>1, <2>1 DEF Family, Flushed, Two
  <2>4. StampLine(w)'
    BY <1>1, <1>5, <2>1, StampKept
  <2>5. LinesOf(w)'
    BY <1>1, <1>5, <2>1, LinesKept
  <2> QED BY <1>1, <1>2, <1>3, <1>4, <1>5, <2>2, <2>3, <2>4, <2>5, ActsSilently
      DEF Access
<1>6. CASE access' = access \o buf[w] /\ buf[w] # <<>>
  <2>1. buf[w] = <<Stamp(w)>>
    BY <1>6 DEF Holds
  <2>2. access' = access \o <<Stamp(w)>>
    BY <1>6, <2>1
  <2>3. Stamps(w)' = Stamps(w) \cup {Len(access) + 1} /\ Logged(w)' = Logged(w)
    BY <2>2, StampWritten
  <2>4. /\ access' \in Seq(Entry)
        /\ \A i \in DOMAIN access : access'[i] = access[i]
    BY <1>6, Grows
  <2>5. IType'
    BY <1>1, <2>4 DEF IType, Places
  <2>6. ~(lines[w] > 1)
    BY <1>6 DEF Flushed
  <2>7. Family(w)' /\ Flushed(w)' /\ StampLine(w)'
    BY <1>1, <1>4, <2>6 DEF Family, Flushed, StampLine
  <2>8. Two(w)'
    BY <1>1, <1>6, <2>3 DEF Two
  <2>9. LinesOf(w)'
    BY <1>1, <2>3, <2>4, LinesKept
  <2>10. \A i \in 1..Len(buf[w]) : buf[w][i].who = w
    BY <2>1 DEF Stamp
  <2> QED BY <1>1, <1>2, <1>3, <1>4, <1>6, <2>5, <2>7, <2>8, <2>9, <2>10, Acts
      DEF Access
<1>7. ASSUME buf[w] = <<>>, access' = access \o buf[w]
      PROVE  UNCHANGED access
  BY <1>7, ConcatEmptySeq DEF IType
<1> QED BY <1>5, <1>6, <1>7 DEF Exit, Drop

LEMMA OpenDebugStep ==
  ASSUME IInv, NEW w \in Workers, OpenDebug(w)
  PROVE  IInv'
<1>0. Known(w)
  BY Facts
<1> USE <1>0 DEF Known
<1>1. CASE Drop(w) /\ UNCHANGED msg
  BY <1>1, Ends DEF OpenDebug
<1>2. CASE UNCHANGED <<pc, buf, access>>
  <2>1. PICK n \in 1..MaxPieces : msg' = [msg EXCEPT ![w] = [size |-> n, left |-> n]]
    BY <1>2 DEF OpenDebug, Drop, Go, IType
  <2>2. /\ UNCHANGED <<kind, lines, gone, line, pc, buf, child, cbuf, access, debug>>
        /\ pc[w] \in {"client", "serve"}
    BY <1>2 DEF OpenDebug, request, header, children
  <2>3. [size |-> n, left |-> n] \in [size : 0..MaxPieces, left : 0..MaxPieces]
    BY Constants
  <2>4. IType' /\ msg'[w] = [size |-> n, left |-> n]
    BY <2>1, <2>2, <2>3 DEF IType
  <2>5. OnlyOf(w)
    BY <2>1, <2>2 DEF OnlyOf, IType
  <2>6. Holds(w)'
    BY <2>2, <2>4, Constants DEF Holds, Stamp
  <2>7. Access(w)'
    BY <2>2 DEF Access, Fresh, Family, Flushed, StampLine, Followed, Lone, Two,
       LinesOf, Stamps, Logged, Stamp
  <2> QED BY <2>2, <2>4, <2>5, <2>6, <2>7, ActsSilently
<1> QED BY <1>1, <1>2 DEF OpenDebug

LEMMA TupleIs ==
  ASSUME NEW S, NEW n \in Nat, NEW f \in [1..n -> S]
  PROVE  f \in Seq(S)
OBVIOUS

LEMMA WriteDebugStep ==
  ASSUME IInv, NEW w \in Workers, WriteDebug(w)
  PROVE  IInv'
<1>0. Known(w)
  BY Facts
<1> USE <1>0 DEF Known
<1> DEFINE k == Written(msg[w].left)
           done == msg[w].size - msg[w].left
           pieces == [i \in 1..k |->
             [who |-> w, at |-> pc[w], piece |-> done + i, size |-> msg[w].size]]
<1>1. /\ UNCHANGED <<kind, lines, gone, line, buf, child, cbuf, access>>
      /\ debug' = debug \o pieces /\ msg' = [msg EXCEPT ![w].left = @ - k]
      /\ IF msg[w].left = k THEN Go(w, After(pc[w])) ELSE UNCHANGED pc
      /\ msg[w].left > 0
  BY DEF WriteDebug, request, header, children
<1>2. /\ k \in 1..msg[w].left /\ done \in Nat
      /\ msg[w].left \in Nat /\ msg[w].size \in Nat /\ msg[w].left <= msg[w].size
  <2>1. /\ msg[w].left \in Nat /\ msg[w].size \in Nat
        /\ msg[w].left <= msg[w].size /\ msg[w].left > 0
    BY <1>1, Constants DEF Holds
  <2>2. k \in 1..msg[w].left
    BY <2>1, Constants DEF Written
  <2> HIDE DEF k
  <2> QED BY <2>1, <2>2
<1>3. pc[w] \in {"client", "serve"}
  BY <1>1 DEF Holds
<1>4. pieces \in Seq(Piece)
  <2>1. \A i \in 1..k :
          [who |-> w, at |-> pc[w], piece |-> done + i, size |-> msg[w].size] \in Piece
    BY <1>2, <1>3 DEF Piece
  <2>2. k \in Nat
    BY <1>2
  <2>3. pieces \in [1..k -> Piece]
    <3> HIDE DEF k, done
    <3> QED BY <2>1 DEF pieces
  <2> HIDE DEF k, pieces
  <2> QED BY <2>2, <2>3, TupleIs
<1>5. /\ msg'[w].left = msg[w].left - k /\ msg'[w].size = msg[w].size
      /\ msg' \in [Workers -> [size : 0..MaxPieces, left : 0..MaxPieces]]
      /\ \A v \in Workers \ {w} : msg'[v] = msg[v]
  <2> HIDE DEF k
  <2>1. msg[w].left - k \in 0..MaxPieces
    BY <1>2, Constants
  <2>2. /\ msg \in [Workers -> [size : 0..MaxPieces, left : 0..MaxPieces]]
        /\ msg' = [msg EXCEPT ![w].left = msg[w].left - k]
    BY <1>1 DEF IType
  <2>3. [msg[w] EXCEPT !.left = msg[w].left - k]
          = [size |-> msg[w].size, left |-> msg[w].left - k]
    BY <2>2
  <2>4. msg' = [msg EXCEPT ![w] = [size |-> msg[w].size, left |-> msg[w].left - k]]
    BY <2>2, <2>3
  <2>5. [size |-> msg[w].size, left |-> msg[w].left - k]
          \in [size : 0..MaxPieces, left : 0..MaxPieces]
    BY <2>1, <2>2
  <2> QED BY <2>2, <2>4, <2>5
<1>6. /\ pc' \in [Workers -> Places] /\ \A v \in Workers \ {w} : pc'[v] = pc[v]
      /\ \/ pc'[w] = pc[w]
         \/ pc[w] = "client" /\ pc'[w] = "first" /\ msg[w].left = k
         \/ pc[w] = "serve" /\ pc'[w] = "send" /\ msg[w].left = k
      /\ pc'[w] = pc[w] \/ msg[w].left = k
      /\ msg[w].left # k => pc'[w] = pc[w]
  <2> HIDE DEF k
  <2> QED BY <1>1, <1>3 DEF Go, After, Places, IType
<1> HIDE DEF k, pieces, done
<1>7. debug' \in Seq(Piece)
  BY <1>1, <1>4, ConcatProperties DEF IType
<1>8. IType'
  BY <1>1, <1>5, <1>6, <1>7 DEF IType
<1>9. OnlyOf(w)
  BY <1>1, <1>5, <1>6 DEF OnlyOf
<1>10. Holds(w)'
  BY <1>1, <1>2, <1>3, <1>5, <1>6 DEF Holds, Stamp
<1>11. Stamps(w)' = Stamps(w) /\ Logged(w)' = Logged(w)
  BY <1>1 DEF Stamps, Logged, Stamp
<1>12. Fresh(w)' /\ Family(w)' /\ Flushed(w)' /\ Two(w)'
  BY <1>1, <1>3, <1>6, <1>11 DEF Fresh, Family, Flushed, Two
<1>13. StampLine(w)'
  BY <1>1, <1>11, StampKept
<1>14. LinesOf(w)'
  BY <1>1, <1>11, LinesKept
<1> QED BY <1>1, <1>8, <1>9, <1>10, <1>12, <1>13, <1>14, ActsSilently DEF Access

LEMMA FirstLineStep ==
  ASSUME IInv, NEW w \in Workers, FirstLine(w)
  PROVE  IInv'
<1>0. Known(w)
  BY Facts
<1> USE <1>0 DEF Known
<1>1. /\ pc[w] = "first"
      /\ UNCHANGED <<kind, lines, gone, msg, child, cbuf, access, debug>>
      /\ line' = [line EXCEPT ![w] = 1] /\ pc' = [pc EXCEPT ![w] = "header"]
      /\ buf' = [buf EXCEPT ![w] = Append(buf[w], Stamp(w))]
  BY DEF FirstLine, At, Go, WriteTime, request, children
<1>2. line[w] = 0 /\ gone[w] = "here" /\ buf[w] = <<>> /\ Stamps(w) = {} /\ child[w] = "none"
  BY <1>1 DEF Fresh, Family
<1>3. Stamp(w) \in Entry
  BY Constants DEF Stamp, Entry
<1>4. buf' = [buf EXCEPT ![w] = <<Stamp(w)>>]
  BY <1>1, <1>2
<1>5. IType'
  BY <1>1, <1>3, <1>4, Constants DEF IType, Places
<1>6. pc'[w] = "header" /\ line'[w] = 1 /\ buf'[w] = <<Stamp(w)>>
  BY <1>1, <1>4 DEF IType
<1>7. OnlyOf(w)
  BY <1>1 DEF OnlyOf, IType
<1>8. Stamps(w)' = {} /\ Logged(w)' = Logged(w)
  BY <1>1, <1>2 DEF Stamps, Logged, Stamp
<1>9. Holds(w)'
  BY <1>1, <1>6 DEF Holds, Stamp
<1>10. Fresh(w)' /\ Family(w)' /\ Flushed(w)' /\ StampLine(w)' /\ Two(w)'
  <2>1. cbuf[w] = <<>>
    BY <1>2 DEF Family
  <2> QED BY <1>1, <1>2, <1>6, <1>8, <2>1 DEF Fresh, Family, Flushed, StampLine, Two
<1>11. LinesOf(w)'
  <2>1. Logged(w) = {}
    BY <1>2 DEF LinesOf, Logged
  <2> QED BY <1>6, <1>8, <2>1 DEF LinesOf
<1> QED BY <1>1, <1>5, <1>7, <1>9, <1>10, <1>11, ActsSilently DEF Access

LEMMA CloseStep ==
  ASSUME IInv, NEW w \in Workers, Close(w)
  PROVE  IInv'
<1>0. Known(w)
  BY Facts
<1> USE <1>0 DEF Known
<1>1. /\ pc[w] = "header" /\ line[w] < lines[w] /\ gone[w] = "here"
      /\ UNCHANGED <<kind, lines, pc, line, msg, buf, child, cbuf, access, debug>>
      /\ gone' = [gone EXCEPT ![w] = "closed"]
  BY DEF Close, At, request, children
<1>2. IType' /\ gone'[w] = "closed"
  BY <1>1 DEF IType
<1>3. OnlyOf(w)
  BY <1>1 DEF OnlyOf, IType
<1>4. Stamps(w)' = Stamps(w) /\ Logged(w)' = Logged(w)
  BY <1>1 DEF Stamps, Logged, Stamp
<1>5. Holds(w)'
  BY <1>1 DEF Holds, Stamp
<1>6. Fresh(w)' /\ Family(w)' /\ Flushed(w)' /\ Two(w)'
  BY <1>1, <1>2, <1>4 DEF Fresh, Family, Flushed, Two
<1>7. StampLine(w)'
  <2>1. line[w] \in Nat /\ lines[w] > 1
    BY <1>1, Constants DEF Family
  <2>2. Stamps(w) # {} => line[w] >= 2
    BY <1>1, <2>1 DEF Flushed
  <2> QED BY <1>1, <1>2, <1>4, <2>1, <2>2 DEF StampLine, Followed, Lone
<1>8. LinesOf(w)'
  BY <1>1, <1>2, <1>4 DEF LinesOf
<1> QED BY <1>1, <1>2, <1>3, <1>5, <1>6, <1>7, <1>8, ActsSilently DEF Access

\* A read that fails: the stamp that waits goes out alone.
LEMMA ReadFailsStep ==
  ASSUME IInv, NEW w \in Workers, ReadFails(w)
  PROVE  IInv'
<1>0. Known(w)
  BY Facts
<1> USE <1>0 DEF Known
<1>1. /\ pc[w] = "first" \/ (pc[w] = "header" /\ line[w] < lines[w])
      /\ gone[w] = "here" /\ gone' = [gone EXCEPT ![w] = "reset"] /\ gone'[w] = "reset"
      /\ pc' = [pc EXCEPT ![w] = "ended"] /\ pc'[w] = "ended"
      /\ buf' = [buf EXCEPT ![w] = <<>>] /\ buf'[w] = <<>>
      /\ access' = access \o buf[w]
      /\ UNCHANGED <<kind, lines, line, msg, child, cbuf, debug>>
  BY DEF ReadFails, Exit, At, Go, request, children, IType
<1>2. OnlyOf(w)
  BY <1>1 DEF OnlyOf, IType
<1>3. msg[w].left = 0 /\ child[w] = "none" /\ cbuf[w] = <<>>
  <2>1. msg[w].left \in Nat /\ pc[w] \notin {"client", "serve"}
    BY <1>1, Constants
  <2>2. ~(msg[w].left > 0)
    BY <2>1 DEF Holds
  <2> QED BY <1>1, <2>1, <2>2 DEF Family
<1>4. Holds(w)'
  BY <1>1, <1>3 DEF Holds, Stamp
<1>5. Fresh(w)' /\ Family(w)'
  BY <1>1, <1>3 DEF Fresh, Family
<1>6. CASE buf[w] = <<>>
  <2>1. UNCHANGED access
    BY <1>1, <1>6, ConcatEmptySeq DEF IType
  <2>2. Stamps(w)' = Stamps(w) /\ Logged(w)' = Logged(w)
    BY <2>1 DEF Stamps, Logged, Stamp
  <2>3. IType'
    BY <1>1, <2>1 DEF IType, Places
  <2>4. Flushed(w)' /\ Two(w)'
    BY <1>1, <1>3, <1>6, <2>2 DEF Flushed, Two
  <2>5. StampLine(w)'
    BY <1>1, <2>1, <2>2 DEF StampLine, Followed, Lone
  <2>6. LinesOf(w)'
    BY <1>1, <2>1, <2>2 DEF LinesOf
  <2> QED BY <1>1, <1>2, <1>4, <1>5, <2>1, <2>3, <2>4, <2>5, <2>6, ActsSilently
      DEF Access
<1>7. CASE buf[w] # <<>>
  <2>1. buf[w] = <<Stamp(w)>> /\ pc[w] = "header" /\ Stamps(w) = {}
    BY <1>1, <1>3, <1>7 DEF Holds, Fresh, Family
  <2>2. access' = access \o <<Stamp(w)>>
    BY <1>1, <2>1
  <2>3. Stamps(w)' = {Len(access) + 1} /\ Logged(w)' = Logged(w)
    BY <2>1, <2>2, StampWritten
  <2>4. /\ access' \in Seq(Entry)
        /\ \A i \in DOMAIN access : access'[i] = access[i]
    BY <1>1, Grows
  <2>5. IType'
    BY <1>1, <2>4 DEF IType, Places
  <2>6. line[w] = 1 /\ Logged(w) = {}
    <3>1. line[w] \in Nat /\ line[w] >= 1 /\ lines[w] > 1
      BY <1>1, <2>1, Constants DEF Family
    <3>2. line[w] = 1
      BY <1>7, <3>1 DEF Flushed
    <3> QED BY <1>1, <3>2 DEF LinesOf
  <2>7. Flushed(w)' /\ StampLine(w)' /\ Two(w)'
    BY <1>1, <1>3, <2>3, <2>6 DEF Flushed, StampLine, Lone, Two
  <2>8. LinesOf(w)'
    BY <1>1, <2>3, <2>6 DEF LinesOf
  <2>9. \A i \in 1..Len(buf[w]) : buf[w][i].who = w
    BY <2>1 DEF Stamp
  <2> QED BY <1>1, <1>2, <1>4, <1>5, <2>5, <2>7, <2>8, <2>9, Acts DEF Access
<1> QED BY <1>6, <1>7

LEMMA HeaderEndsStep ==
  ASSUME IInv, NEW w \in Workers, HeaderEnds(w)
  PROVE  IInv'
<1>0. Known(w)
  BY Facts
<1> USE <1>0 DEF Known
<1>1. /\ pc[w] = "header" /\ line[w] = lines[w]
      /\ UNCHANGED <<kind, lines, gone, line, msg, buf, child, cbuf, access, debug>>
      /\ \E loc \in {"send", "serve"} : pc' = [pc EXCEPT ![w] = loc]
  BY DEF HeaderEnds, At, Go, request, header, children
<1>2. IType' /\ pc'[w] \in {"send", "serve"}
  BY <1>1 DEF IType, Places
<1>3. OnlyOf(w)
  BY <1>1 DEF OnlyOf, IType
<1>4. Stamps(w)' = Stamps(w) /\ Logged(w)' = Logged(w)
  BY <1>1 DEF Stamps, Logged, Stamp
<1>5. Holds(w)'
  BY <1>1 DEF Holds, Stamp
<1>6. Fresh(w)' /\ Family(w)' /\ Flushed(w)' /\ Two(w)'
  BY <1>1, <1>2, <1>4 DEF Fresh, Family, Flushed, Two
<1>7. StampLine(w)' /\ LinesOf(w)'
  BY <1>1, <1>4, StampKept, LinesKept
<1> QED BY <1>1, <1>2, <1>3, <1>5, <1>6, <1>7, ActsSilently DEF Access

\* What writelog() appends: the line, after the stamp if that still waits.
LEMMA LogWritten ==
  ASSUME IInv, NEW w \in Workers, NEW k \in 1..MaxLines, WriteLog(w, k)
  PROVE  /\ buf' = [buf EXCEPT ![w] = <<>>] /\ buf'[w] = <<>>
         /\ \/ /\ buf[w] = <<>> /\ access' = access \o <<Line(w, k)>>
               /\ Stamps(w)' = Stamps(w)
               /\ Logged(w)' = Logged(w) \cup {Len(access) + 1}
               /\ Len(access') = Len(access) + 1
               /\ access'[Len(access) + 1] = Line(w, k)
            \/ /\ buf[w] = <<Stamp(w)>> /\ access' = access \o <<Stamp(w), Line(w, k)>>
               /\ Stamps(w)' = Stamps(w) \cup {Len(access) + 1}
               /\ Logged(w)' = Logged(w) \cup {Len(access) + 2}
               /\ Len(access') = Len(access) + 2
               /\ access'[Len(access) + 2] = Line(w, k)
         /\ access' \in Seq(Entry)
         /\ \A i \in DOMAIN access : access'[i] = access[i]
         /\ \E s \in Seq(Entry) :
              access' = access \o s /\ \A i \in 1..Len(s) : s[i].who = w
<1>0. Known(w)
  BY Facts
<1> USE <1>0 DEF Known
<1>1. /\ Stamp(w) \in Entry /\ Stamp(w).who = w
      /\ Line(w, k) \in Entry /\ Line(w, k).who = w
  BY Constants DEF Stamp, Line, Entry
<1>2. /\ access' = access \o Append(buf[w], Line(w, k))
      /\ buf' = [buf EXCEPT ![w] = <<>>] /\ buf'[w] = <<>>
  BY DEF WriteLog, IType
<1>3. CASE buf[w] = <<>>
  <2> DEFINE s == <<Line(w, k)>>
  <2>1. access' = access \o s
    BY <1>2, <1>3
  <2>2. /\ Stamps(w)' = Stamps(w)
        /\ Logged(w)' = Logged(w) \cup {Len(access) + 1}
    BY <2>1, LineWritten
  <2>3. /\ s \in Seq(Entry) /\ Len(s) = 1 /\ s[1] = Line(w, k)
        /\ \A i \in 1..Len(s) : s[i].who = w
    BY <1>1
  <2>4. buf[w] = <<>> /\ access' = access \o <<Line(w, k)>>
    BY <1>3, <2>1
  <2> HIDE DEF s
  <2>5. /\ access' \in Seq(Entry) /\ Len(access') = Len(access) + Len(s)
        /\ \A i \in DOMAIN access : access'[i] = access[i]
        /\ \A i \in 1..Len(s) : access'[Len(access) + i] = s[i]
    BY <2>1, <2>3, Grows
  <2>6. Len(access') = Len(access) + 1 /\ access'[Len(access) + 1] = Line(w, k)
    BY <2>3, <2>5
  <2> QED BY <1>2, <2>1, <2>2, <2>3, <2>4, <2>5, <2>6
<1>4. CASE buf[w] = <<Stamp(w)>>
  <2> DEFINE s == <<Stamp(w), Line(w, k)>>
  <2>1. access' = access \o s
    BY <1>2, <1>4
  <2>2. /\ Stamps(w)' = Stamps(w) \cup {Len(access) + 1}
        /\ Logged(w)' = Logged(w) \cup {Len(access) + 2}
    BY <2>1, BothWritten
  <2>3. /\ s \in Seq(Entry) /\ Len(s) = 2 /\ s[2] = Line(w, k)
        /\ \A i \in 1..Len(s) : s[i].who = w
    BY <1>1
  <2>4. buf[w] = <<Stamp(w)>> /\ access' = access \o <<Stamp(w), Line(w, k)>>
    BY <1>4, <2>1
  <2> HIDE DEF s
  <2>5. /\ access' \in Seq(Entry) /\ Len(access') = Len(access) + Len(s)
        /\ \A i \in DOMAIN access : access'[i] = access[i]
        /\ \A i \in 1..Len(s) : access'[Len(access) + i] = s[i]
    BY <2>1, <2>3, Grows
  <2>6. Len(access') = Len(access) + 2 /\ access'[Len(access) + 2] = Line(w, k)
    BY <2>3, <2>5
  <2> QED BY <1>2, <2>1, <2>2, <2>3, <2>4, <2>5, <2>6
<1> QED BY <1>3, <1>4 DEF Holds

\* A line after the first in the file, and the stamp in the buffer, before it.
LEMMA LineLogged ==
  ASSUME IInv, NEW w \in Workers, NEW k \in 1..MaxLines, WriteLog(w, k),
         pc[w] = "header", lines[w] > 1, UNCHANGED <<pc, lines, gone, child, cbuf>>,
         \/ gone[w] = "here" /\ k = line[w] + 1
         \/ gone[w] = "closed" /\ k = line[w],
         line'[w] = k
  PROVE  Fresh(w)' /\ Family(w)' /\ Flushed(w)' /\ StampLine(w)' /\ Two(w)'
<1>0. Known(w)
  BY Facts
<1> USE <1>0 DEF Known
<1>1. /\ child[w] = "none" /\ cbuf[w] = <<>> /\ line[w] \in Nat /\ line[w] >= 1
      /\ buf[w] # <<>> => Stamps(w) = {} /\ line[w] = 1
      /\ Stamps(w) # {} => line[w] >= 2 \/ gone[w] # "here"
  BY DEF Family, Flushed
<1>2. k >= 2 \/ gone[w] = "closed"
  BY <1>1
<1>3. buf'[w] = <<>>
  BY LogWritten
<1>4. Fresh(w)' /\ Family(w)'
  BY <1>1, <1>3 DEF Fresh, Family
<1>5. Flushed(w)'
  BY <1>1, <1>2, <1>3 DEF Flushed
<1>6. CASE buf[w] = <<>>
  <2>1. /\ Stamps(w)' = Stamps(w) /\ Len(access') = Len(access) + 1
        /\ \A i \in DOMAIN access : access'[i] = access[i]
    <3>1. buf[w] # <<Stamp(w)>>
      BY <1>6
    <3> QED BY <3>1, LogWritten
  <2>2. \A i \in Stamps(w) : Stamps(w) = {i} /\ Followed(w, i)
    BY DEF StampLine, Lone
  <2>3. StampLine(w)'
    <3> SUFFICES ASSUME NEW i \in Stamps(w)
        PROVE  Stamps(w)' = {i} /\ Followed(w, i)'
      BY <2>1 DEF StampLine
    <3>1. i \in DOMAIN access
      BY DEF Stamps
    <3>2. i + 1 \in DOMAIN access
      BY <2>2, <3>1 DEF Followed
    <3>3. access'[i + 1] = access[i + 1]
      BY <2>1, <3>2
    <3>4. (gone[w] = "closed" /\ k = 1) <=> (gone[w] = "closed" /\ line[w] = 1)
      BY <1>1
    <3> QED BY <2>1, <2>2, <3>1, <3>3, <3>4 DEF Followed
  <2>4. Two(w)'
    BY <1>1, <1>3, <2>1 DEF Two
  <2> QED BY <1>4, <1>5, <2>3, <2>4
<1>7. CASE buf[w] = <<Stamp(w)>>
  <2>1. /\ Stamps(w)' = Stamps(w) \cup {Len(access) + 1}
        /\ Len(access') = Len(access) + 2
        /\ access'[Len(access) + 2] = Line(w, k)
    <3>1. buf[w] # <<>>
      BY <1>7
    <3> QED BY <3>1, LogWritten
  <2>2. Stamps(w)' = {Len(access) + 1} /\ line[w] = 1
    BY <1>1, <1>7, <2>1
  <2>3. k = IF gone[w] = "closed" /\ k = 1 THEN 1 ELSE 2
    BY <2>2
  <2>4. (Len(access) + 1) + 1 = Len(access) + 2
    OBVIOUS
  <2>5. StampLine(w)'
    <3> SUFFICES ASSUME NEW i \in {Len(access) + 1}
        PROVE  /\ Stamps(w)' = {i}
               /\ i < Len(access') /\ access'[i + 1].who = w
               /\ access'[i + 1].line = IF gone[w] = "closed" /\ k = 1 THEN 1 ELSE 2
      BY <2>2 DEF StampLine, Followed
    <3>1. access'[i + 1] = Line(w, k)
      BY <2>1, <2>4
    <3>2. Line(w, k).who = w /\ Line(w, k).line = k
      BY DEF Line
    <3> QED BY <2>1, <2>2, <2>3, <3>1, <3>2
  <2>6. Two(w)'
    BY <1>1, <1>3, <2>2 DEF Two
  <2> QED BY <1>4, <1>5, <2>5, <2>6
<1> QED BY <1>6, <1>7 DEF Holds

\* The line that is added is the last one of its worker.
LEMMA LineAdded ==
  ASSUME NEW w \in Workers, NEW k \in Nat, NEW n \in Nat, IType, LinesOf(w),
         \/ gone[w] = "here" /\ k = line[w] + 1 /\ k >= 2
         \/ gone[w] = "closed" /\ k = line[w],
         line'[w] = k, gone'[w] = gone[w], line[w] \in Nat,
         Logged(w)' = Logged(w) \cup {n}, access'[n] = Line(w, k),
         \A i \in Logged(w) : i < n, Logged(w) \subseteq Nat,
         \A i \in DOMAIN access : access'[i] = access[i]
  PROVE  LinesOf(w)'
<1>1. \A i \in Logged(w) : access'[i] = access[i]
  BY DEF Logged
<1>2. access'[n].line = k
  BY DEF Line
<1>3. \A i \in Logged(w) :
        \/ access[i].line \in 2..line[w]
        \/ gone[w] = "closed" /\ access[i].line = line[w]
  BY DEF LinesOf
<1>4. \A m \in 2..line'[w] : \E i \in Logged(w)' : access'[i].line = m
  <2> SUFFICES ASSUME NEW m \in 2..k
      PROVE  \E i \in Logged(w)' : access'[i].line = m
    OBVIOUS
  <2>1. CASE m = k
    BY <1>2, <2>1
  <2>2. CASE m # k
    <3>1. m \in 2..line[w]
      BY <2>2
    <3>2. PICK i \in Logged(w) : access[i].line = m
      BY <3>1 DEF LinesOf
    <3> QED BY <1>1, <3>2
  <2> QED BY <2>1, <2>2
<1>5. \A i \in Logged(w)' :
        \/ access'[i].line \in 2..line'[w]
        \/ gone'[w] = "closed" /\ access'[i].line = line'[w]
  BY <1>1, <1>2, <1>3
<1>6. \A i, j \in Logged(w)' : i < j =>
        \/ access'[i].line < access'[j].line
        \/ gone'[w] = "closed" /\ access'[i].line = line'[w] /\ access'[j].line = line'[w]
  <2> SUFFICES ASSUME NEW i \in Logged(w)', NEW j \in Logged(w)', i < j
      PROVE  \/ access'[i].line < access'[j].line
             \/ gone[w] = "closed" /\ access'[i].line = k /\ access'[j].line = k
    OBVIOUS
  <2>1. i \in Logged(w)
    OBVIOUS
  <2>2. CASE j \in Logged(w)
    <3>1. \/ access[i].line < access[j].line
          \/ gone[w] = "closed" /\ access[i].line = line[w] /\ access[j].line = line[w]
      BY <2>1, <2>2 DEF LinesOf
    <3> QED BY <1>1, <2>1, <2>2, <3>1
  <2>3. CASE j = n
    BY <1>1, <1>2, <1>3, <2>1, <2>3
  <2> QED BY <2>2, <2>3
<1> QED BY <1>4, <1>5, <1>6 DEF LinesOf

LEMMA LineStep ==
  ASSUME IInv, NEW w \in Workers, NEW k \in 1..MaxLines, WriteLog(w, k),
         pc[w] = "header", line[w] < lines[w],
         \/ gone[w] = "here" /\ k = line[w] + 1
         \/ gone[w] = "closed" /\ k = line[w],
         line' = [line EXCEPT ![w] = k],
         UNCHANGED <<kind, lines, gone, pc, msg, child, cbuf, debug>>
  PROVE  IInv'
<1>0. Known(w)
  BY Facts
<1> USE <1>0 DEF Known
<1>1. /\ line[w] \in Nat /\ line[w] >= 1 /\ lines[w] > 1 /\ k \in Nat
      /\ gone[w] = "here" => k >= 2
  BY Constants DEF Family
<1>2. line'[w] = k /\ line' \in [Workers -> 0..MaxLines]
  BY Constants DEF IType
<1>3. PICK s \in Seq(Entry) : access' = access \o s /\ \A i \in 1..Len(s) : s[i].who = w
  BY LogWritten
<1>4. buf' = [buf EXCEPT ![w] = <<>>] /\ buf'[w] = <<>> /\ access' \in Seq(Entry)
  BY LogWritten
<1>5. IType'
  BY <1>2, <1>4 DEF IType
<1>6. OnlyOf(w)
  BY <1>4 DEF OnlyOf, IType
<1>7. Holds(w)'
  BY <1>4 DEF Holds, Stamp
<1>8. Fresh(w)' /\ Family(w)' /\ Flushed(w)' /\ StampLine(w)' /\ Two(w)'
  BY <1>1, <1>2, LineLogged
<1>9. LinesOf(w)'
  <2>1. PICK n \in {Len(access) + 1, Len(access) + 2} :
          Logged(w)' = Logged(w) \cup {n} /\ access'[n] = Line(w, k)
    BY LogWritten
  <2>2. \A i \in DOMAIN access : access'[i] = access[i]
    BY LogWritten
  <2>3. n \in Nat /\ Logged(w) \subseteq Nat /\ \A i \in Logged(w) : i < n
    BY DEF Logged
  <2> QED BY <1>1, <1>2, <2>1, <2>2, <2>3, LineAdded
<1> QED BY <1>3, <1>5, <1>6, <1>7, <1>8, <1>9, Acts DEF Access

LEMMA NextLineStep ==
  ASSUME IInv, NEW w \in Workers, NextLine(w)
  PROVE  IInv'
<1>1. /\ pc[w] = "header" /\ line[w] < lines[w] /\ gone[w] = "here"
      /\ line' = [line EXCEPT ![w] = line[w] + 1] /\ WriteLog(w, line[w] + 1)
      /\ UNCHANGED <<kind, lines, gone, pc, msg, child, cbuf, debug>>
  BY DEF NextLine, At, request, children
<1>2. line[w] + 1 \in 1..MaxLines
  BY <1>1, Facts, Constants DEF Known
<1> QED BY <1>1, <1>2, LineStep

LEMMA SameLineStep ==
  ASSUME IInv, NEW w \in Workers, SameLine(w)
  PROVE  IInv'
<1>1. /\ pc[w] = "header" /\ line[w] < lines[w] /\ gone[w] = "closed"
      /\ UNCHANGED line /\ WriteLog(w, line[w])
      /\ UNCHANGED <<kind, lines, gone, pc, msg, child, cbuf, debug>>
  BY DEF SameLine, At, request, header, children
<1>2. line[w] \in 1..MaxLines
  BY <1>1, Facts, Constants DEF Known, Family
<1>3. line' = [line EXCEPT ![w] = line[w]]
  BY <1>1, Facts DEF Known, IType
<1> QED BY <1>1, <1>2, <1>3, LineStep

LEMMA ForkChildStep ==
  ASSUME IInv, NEW w \in Workers, ForkChild(w)
  PROVE  IInv'
<1>0. Known(w)
  BY Facts
<1> USE <1>0 DEF Known
<1>1. /\ pc[w] = "send" /\ UNCHANGED <<request, header, msg, debug>>
      /\ msg[w].left = 0
  BY DEF ForkChild, At, Holds
<1>2. CASE Exit(w) /\ UNCHANGED children
  BY <1>1, <1>2, Ends
<1>3. ASSUME NEW c \in {"program", "feeder"}, child' = [child EXCEPT ![w] = c],
             cbuf' = [cbuf EXCEPT ![w] = buf[w]],
             Go(w, "forked"), UNCHANGED <<buf, access>>
      PROVE  IInv'
  <2>1. /\ UNCHANGED <<kind, lines, gone, line, msg, buf, access, debug>>
        /\ pc' = [pc EXCEPT ![w] = "forked"]
    BY <1>1, <1>3 DEF Go, request, header
  <2>2. /\ IType' /\ pc'[w] = "forked" /\ child'[w] = c /\ cbuf'[w] = buf[w]
    BY <1>3, <2>1 DEF IType, Places
  <2>3. OnlyOf(w)
    BY <1>3, <2>1 DEF OnlyOf, IType
  <2>4. Stamps(w)' = Stamps(w) /\ Logged(w)' = Logged(w)
    BY <2>1 DEF Stamps, Logged, Stamp
  <2>5. Holds(w)'
    BY <1>1, <2>1, <2>2 DEF Holds, Stamp
  <2>6. Fresh(w)' /\ Family(w)'
    BY <2>2 DEF Fresh, Family
  <2>7. Flushed(w)'
    BY <1>1, <2>1, <2>2, <2>4 DEF Flushed
  <2>8. Two(w)'
    BY <1>1, <2>1, <2>2, <2>4 DEF Two, Family
  <2>9. StampLine(w)' /\ LinesOf(w)'
    BY <2>1, <2>4, StampKept, LinesKept
  <2> QED BY <2>1, <2>2, <2>3, <2>5, <2>6, <2>7, <2>8, <2>9, ActsSilently DEF Access
<1> QED BY <1>2, <1>3 DEF ForkChild

\* The child's copy of the stamp is a second one at most.
LEMMA ChildEndsStep ==
  ASSUME IInv, NEW w \in Workers, ChildEnds(w)
  PROVE  IInv'
<1>0. Known(w)
  BY Facts
<1> USE <1>0 DEF Known
<1>1. /\ UNCHANGED <<kind, lines, gone, line, pc, msg, buf, debug>>
      /\ child' = [child EXCEPT ![w] = "ended"] /\ child'[w] = "ended"
      /\ cbuf' = [cbuf EXCEPT ![w] = <<>>] /\ cbuf'[w] = <<>>
      /\ access' = access \o cbuf[w] \/ UNCHANGED access
      /\ pc[w] \in {"forked", "ended"}
  BY DEF ChildEnds, request, header, IType, Family, Places
<1>2. OnlyOf(w)
  BY <1>1 DEF OnlyOf, IType
<1>3. Holds(w)' /\ Fresh(w)' /\ Family(w)'
  BY <1>1 DEF Holds, Stamp, Fresh, Family
<1>4. CASE UNCHANGED access
  <2>1. Stamps(w)' = Stamps(w) /\ Logged(w)' = Logged(w)
    BY <1>4 DEF Stamps, Logged, Stamp
  <2>2. IType'
    BY <1>1, <1>4 DEF IType
  <2>3. Flushed(w)' /\ Two(w)'
    BY <1>1, <2>1 DEF Flushed, Two
  <2>4. StampLine(w)' /\ LinesOf(w)'
    BY <1>1, <1>4, <2>1, StampKept, LinesKept
  <2> QED BY <1>1, <1>2, <1>3, <1>4, <2>2, <2>3, <2>4, ActsSilently DEF Access
<1>5. CASE access' = access \o cbuf[w] /\ cbuf[w] # <<>>
  <2>1. cbuf[w] = <<Stamp(w)>>
    BY <1>5 DEF Holds
  <2>2. access' = access \o <<Stamp(w)>>
    BY <1>5, <2>1
  <2>3. Stamps(w)' = Stamps(w) \cup {Len(access) + 1} /\ Logged(w)' = Logged(w)
    BY <2>2, StampWritten
  <2>4. /\ access' \in Seq(Entry)
        /\ \A i \in DOMAIN access : access'[i] = access[i]
    BY <1>5, Grows
  <2>5. IType'
    BY <1>1, <2>4 DEF IType
  <2>6. ~(lines[w] > 1)
    BY <1>5 DEF Flushed
  <2>7. Flushed(w)' /\ StampLine(w)'
    BY <1>1, <2>6 DEF Flushed, StampLine
  <2>8. Two(w)'
    BY <1>1, <1>5, <2>3 DEF Two
  <2>9. LinesOf(w)'
    BY <1>1, <2>3, <2>4, LinesKept
  <2>10. \A i \in 1..Len(cbuf[w]) : cbuf[w][i].who = w
    BY <2>1 DEF Stamp
  <2> QED BY <1>1, <1>2, <1>3, <1>5, <2>5, <2>7, <2>8, <2>9, <2>10, Acts DEF Access
<1>6. ASSUME cbuf[w] = <<>>, access' = access \o cbuf[w]
      PROVE  UNCHANGED access
  BY <1>6, ConcatEmptySeq DEF IType
<1> QED BY <1>1, <1>4, <1>5, <1>6

-----------------------------------------------------------------------------
(* The theorems.                                                           *)

LEMMA Initially == Init => IInv
<1> SUFFICES ASSUME Init
    PROVE  IInv
  OBVIOUS
<1>1. IType
  <2>1. NoMessage \in [size : 0..MaxPieces, left : 0..MaxPieces]
    BY Constants DEF NoMessage
  <2>2. <<>> \in Seq(Entry) /\ <<>> \in Seq(Piece) /\ 0 \in 0..MaxLines
    BY Constants
  <2> QED BY <2>1, <2>2 DEF Init, IType, Places
<1>2. \A w \in Workers : Stamps(w) = {} /\ Logged(w) = {}
  <2>1. DOMAIN access = {}
    BY DEF Init
  <2> QED BY <2>1 DEF Stamps, Logged
<1>3. ASSUME NEW w \in Workers
      PROVE  Holds(w) /\ Access(w)
  <2>1. /\ pc[w] = "client" /\ line[w] = 0 /\ gone[w] = "here" /\ child[w] = "none"
        /\ buf[w] = <<>> /\ cbuf[w] = <<>> /\ msg[w].left = 0 /\ msg[w].size = 0
    BY DEF Init, NoMessage
  <2>2. Holds(w)
    BY <2>1 DEF Holds
  <2>3. Fresh(w) /\ Family(w) /\ Flushed(w)
    BY <1>2, <2>1 DEF Fresh, Family, Flushed
  <2>4. StampLine(w) /\ Two(w) /\ LinesOf(w)
    BY <1>2, <2>1 DEF StampLine, Two, LinesOf
  <2> QED BY <2>2, <2>3, <2>4 DEF Access
<1> QED BY <1>1, <1>3 DEF IInv

LEMMA Inductive == IInv /\ [Next]_vars => IInv'
<1> SUFFICES ASSUME IInv, [Next]_vars
    PROVE  IInv'
  OBVIOUS
<1>1. CASE UNCHANGED vars
  <2>1. UNCHANGED <<kind, lines, gone, pc, line, msg, buf, child, cbuf, access, debug>>
    BY <1>1 DEF vars, request
  <2>2. IType'
    BY <2>1 DEF IInv, IType
  <2>3. ASSUME NEW w \in Workers
        PROVE  Holds(w)' /\ Access(w)'
    <3>1. Holds(w) /\ Access(w)
      BY DEF IInv
    <3>2. Stamps(w)' = Stamps(w) /\ Logged(w)' = Logged(w)
      BY <2>1 DEF Stamps, Logged, Stamp
    <3>3. Holds(w)'
      BY <2>1, <3>1 DEF Holds, Stamp
    <3>4. Fresh(w)' /\ Family(w)' /\ Flushed(w)' /\ StampLine(w)' /\ Two(w)' /\ LinesOf(w)'
      BY <2>1, <3>1, <3>2 DEF Access, Fresh, Family, Flushed, StampLine, Followed, Lone,
         Two, LinesOf
    <3> QED BY <3>3, <3>4 DEF Access
  <2> QED BY <2>2, <2>3 DEF IInv
<1>2. ASSUME NEW w \in Workers, OpenDebug(w) \/ WriteDebug(w)
      PROVE  IInv'
  BY <1>2, OpenDebugStep, WriteDebugStep
<1>3. ASSUME NEW w \in Workers,
             FirstLine(w) \/ NextLine(w) \/ SameLine(w) \/ Close(w) \/ ReadFails(w) \/ HeaderEnds(w)
      PROVE  IInv'
  BY <1>3, FirstLineStep, NextLineStep, SameLineStep, CloseStep, ReadFailsStep,
     HeaderEndsStep
<1>4. ASSUME NEW w \in Workers, Answer(w)
      PROVE  IInv'
  <2>1. /\ pc[w] = "send" /\ UNCHANGED <<request, header, msg, children, debug>>
        /\ Exit(w) \/ Drop(w)
    BY <1>4 DEF Answer, At
  <2>2. msg[w].left = 0
    BY <2>1, Facts DEF Known, Holds
  <2> QED BY <2>1, <2>2, Ends
<1>5. ASSUME NEW w \in Workers, Finish(w)
      PROVE  IInv'
  <2>1. /\ pc[w] = "forked" /\ UNCHANGED <<request, header, msg, children, debug>>
        /\ Exit(w) \/ Drop(w)
    BY <1>5 DEF Finish, At
  <2>2. msg[w].left = 0
    BY <2>1, Facts DEF Known, Holds
  <2> QED BY <2>1, <2>2, Ends
<1>6. ASSUME NEW w \in Workers, ForkChild(w) \/ ChildEnds(w)
      PROVE  IInv'
  BY <1>6, ForkChildStep, ChildEndsStep
<1> QED BY <1>1, <1>2, <1>3, <1>4, <1>5, <1>6 DEF Next

\* The inductive invariant: what each worker still holds back of its log, and
\* what the files say of it.
THEOREM Invariance == Spec => []IInv
<1> QED BY Initially, Inductive, PTL DEF Spec

\* Types; no stdio buffer ever holds more than the one stamp that waits for the
\* next line.
THEOREM TypeCorrect == Spec => []TypeOK
<1>1. IInv => TypeOK
  <2> SUFFICES ASSUME IInv
      PROVE  TypeOK
    OBVIOUS
  <2>1. IType /\ \A w \in Workers : Holds(w)
    BY DEF IInv
  <2>2. \A i \in DOMAIN access : \E w \in Workers : access[i] \in Entries(w)
    <3> SUFFICES ASSUME NEW i \in DOMAIN access
        PROVE  \E w \in Workers : access[i] \in Entries(w)
      OBVIOUS
    <3>1. access[i] \in Entry
      BY <2>1, LenProperties, ElementOfSeq DEF IType
    <3>2. access[i].who \in Workers /\ access[i] \in Entries(access[i].who)
      BY <3>1 DEF Entry, Entries
    <3> QED BY <3>2
  <2>3. \A i \in DOMAIN debug : debug[i].who \in Workers
    <3> SUFFICES ASSUME NEW i \in DOMAIN debug
        PROVE  debug[i].who \in Workers
      OBVIOUS
    <3>1. debug[i] \in Piece
      BY <2>1, LenProperties, ElementOfSeq DEF IType
    <3> QED BY <3>1 DEF Piece
  <2>4. ASSUME NEW w \in Workers
        PROVE  msg[w].size \in 0..MaxPieces /\ msg[w].left \in 0..msg[w].size
    <3>1. msg[w] \in [size : 0..MaxPieces, left : 0..MaxPieces]
      BY <2>1 DEF IType
    <3>2. msg[w].size \in 0..MaxPieces /\ msg[w].left \in 0..MaxPieces
      BY <3>1
    <3>3. msg[w].left <= msg[w].size
      BY <2>1 DEF Holds
    <3> QED BY <3>2, <3>3, Constants
  <2> QED BY <2>1, <2>2, <2>3, <2>4 DEF TypeOK, IType, Holds
<1> QED BY <1>1, Invariance, PTL

\* Every line after the first is in the access log as soon as it is read, once
\* and in order, whatever is forked, executed or killed later: the fflush() of
\* writelog() leaves nothing of it in a buffer.
THEOREM LinesAreLogged == Spec => []LinesLogged
<1>1. IInv => LinesLogged
  BY DEF IInv, Access, LinesOf, LinesLogged
<1> QED BY <1>1, Invariance, PTL

\* The time of a request stands once and right before its second line, although
\* writetime() leaves it in a buffer; it stands alone only when the client reset
\* before that line.  With a blank first line it appears twice at most, for at
\* most two processes hold a copy.
THEOREM StampStaysWithLine == Spec => []StampWithLine
<1>1. IInv => StampWithLine
  BY DEF IInv, Access, StampLine, Followed, Lone, Two, StampWithLine
<1> QED BY <1>1, Invariance, PTL

\* A message that fits the buffer leaves it with one write, so that no other
\* process gets in between: what is first of a message is followed by the rest.
LEMMA WholeKept == IInv /\ DebugWhole /\ [Next]_vars => DebugWhole'
<1> SUFFICES ASSUME IInv, DebugWhole, [Next]_vars
    PROVE  DebugWhole'
  OBVIOUS
<1>1. CASE UNCHANGED debug
  BY <1>1 DEF DebugWhole
<1>2. ASSUME NEW w \in Workers, WriteDebug(w)
      PROVE  DebugWhole'
  <2>0. Known(w) /\ debug \in Seq(Piece)
    BY Facts DEF IInv, IType
  <2> DEFINE k == Written(msg[w].left)
             done == msg[w].size - msg[w].left
             piece(i) == [who |-> w, at |-> pc[w], piece |-> done + i, size |-> msg[w].size]
             pieces == [i \in 1..k |-> piece(i)]
  <2>1. debug' = debug \o pieces /\ pc[w] \in {"client", "serve"} /\ msg[w].left > 0
    BY <1>2, <2>0 DEF WriteDebug, Known, Holds
  <2>2. /\ k \in 1..msg[w].left /\ done \in Nat
        /\ msg[w].left \in Nat /\ msg[w].size \in Nat
        /\ msg[w].left <= StdioBuf => k = msg[w].left
    BY <2>0, <2>1, Constants DEF Written, Known, Holds
  <2>3. \A i \in 1..k : piece(i) \in Piece
    BY <2>1, <2>2 DEF Piece
  <2>4. pieces \in Seq(Piece) /\ Len(pieces) = k /\ \A i \in 1..k : pieces[i] = piece(i)
    <3>1. k \in Nat
      BY <2>2
    <3> HIDE DEF k, piece
    <3> QED BY <2>3, <3>1
  <2> HIDE DEF pieces
  <2>5. /\ DOMAIN debug = 1..Len(debug) /\ DOMAIN debug' = 1..Len(debug')
        /\ Len(debug) \in Nat /\ Len(debug') = Len(debug) + k
        /\ \A i \in DOMAIN debug : debug'[i] = debug[i]
        /\ \A i \in 1..k : debug'[Len(debug) + i] = piece(i)
    <3> HIDE DEF k, piece
    <3>1. /\ debug' \in Seq(Piece) /\ Len(debug') = Len(debug) + Len(pieces)
          /\ \A i \in 1..Len(debug') :
               debug'[i] = IF i <= Len(debug) THEN debug[i] ELSE pieces[i - Len(debug)]
      <4>1. debug' = debug \o pieces /\ debug \in Seq(Piece) /\ pieces \in Seq(Piece)
        BY <2>0, <2>1, <2>4
      <4> QED BY <4>1, ConcatProperties
    <3>2. k \in Nat
      BY <2>2 DEF k
    <3>3. /\ DOMAIN debug = 1..Len(debug) /\ DOMAIN debug' = 1..Len(debug')
          /\ Len(debug) \in Nat
      BY <2>0, <3>1, LenProperties
    <3>4. \A i \in DOMAIN debug : debug'[i] = debug[i]
      BY <2>4, <3>1, <3>2, <3>3
    <3>5. ASSUME NEW i \in 1..k
          PROVE  debug'[Len(debug) + i] = piece(i)
      <4>1. Len(debug) + i \in 1..Len(debug') /\ ~(Len(debug) + i <= Len(debug))
        BY <2>4, <3>1, <3>2, <3>3
      <4>2. (Len(debug) + i) - Len(debug) = i
        BY <3>2, <3>3
      <4> QED BY <2>4, <3>1, <4>1, <4>2
    <3> QED BY <2>4, <3>1, <3>3, <3>4, <3>5
  <2> SUFFICES ASSUME NEW i \in DOMAIN debug',
                      debug'[i].size <= StdioBuf, debug'[i].piece = 1
      PROVE  /\ i + debug'[i].size - 1 <= Len(debug')
             /\ \A j \in 1..(debug'[i].size - 1) :
                  debug'[i + j] = [debug'[i] EXCEPT !.piece = j + 1]
    BY DEF DebugWhole
  <2>6. CASE i \in DOMAIN debug
    <3>1. debug'[i] = debug[i] /\ debug[i].size \in Nat
      <4>1. debug[i] \in Piece
        BY <2>0, <2>5, <2>6, ElementOfSeq
      <4> QED BY <2>5, <2>6, <4>1 DEF Piece
    <3>2. /\ i + debug[i].size - 1 <= Len(debug)
          /\ \A j \in 1..(debug[i].size - 1) :
               debug[i + j] = [debug[i] EXCEPT !.piece = j + 1]
      BY <2>6, <3>1 DEF DebugWhole
    <3>3. \A j \in 1..(debug[i].size - 1) : debug'[i + j] = debug[i + j]
      <4> SUFFICES ASSUME NEW j \in 1..(debug[i].size - 1)
          PROVE  i + j \in DOMAIN debug
        BY <2>5
      <4> QED BY <2>5, <2>6, <3>1, <3>2
    <3>4. i + debug[i].size - 1 <= Len(debug')
      <4> HIDE DEF k
      <4> QED BY <2>2, <2>5, <2>6, <3>1, <3>2
    <3> QED BY <3>1, <3>2, <3>3, <3>4
  <2>7. CASE i \notin DOMAIN debug
    <3>1. PICK m \in 1..k : i = Len(debug) + m
      <4>1. k \in Nat
        BY <2>2
      <4>2. i - Len(debug) \in 1..k /\ i = Len(debug) + (i - Len(debug))
        <5> HIDE DEF k
        <5> QED BY <2>5, <2>7, <4>1
      <4> QED BY <4>2
    <3>2. debug'[i] = piece(m)
      BY <2>5, <3>1
    <3>3. m = 1 /\ done = 0 /\ msg[w].left = msg[w].size
      BY <2>2, <3>1, <3>2
    <3>4. k = msg[w].size
      BY <2>2, <3>2, <3>3
    <3>5. i + debug'[i].size - 1 <= Len(debug')
      BY <2>2, <2>5, <3>1, <3>2, <3>3, <3>4
    <3>6. ASSUME NEW j \in 1..(msg[w].size - 1)
          PROVE  debug'[i + j] = [debug'[i] EXCEPT !.piece = j + 1]
      <4>1. j + 1 \in 1..k /\ i + j = Len(debug) + (j + 1)
        BY <2>2, <2>5, <3>1, <3>3, <3>4
      <4>2. debug'[i + j] = piece(j + 1)
        BY <2>5, <4>1
      <4>3. [piece(m) EXCEPT !.piece = j + 1] = piece(j + 1)
        BY <3>3, <4>1
      <4> QED BY <3>2, <4>2, <4>3
    <3> QED BY <3>2, <3>5, <3>6
  <2> QED BY <2>6, <2>7
<1>3. ASSUME NEW w \in Workers, ~WriteDebug(w),
             \/ OpenDebug(w) \/ FirstLine(w) \/ NextLine(w) \/ SameLine(w) \/ Close(w) \/ ReadFails(w)
             \/ HeaderEnds(w) \/ Answer(w) \/ ForkChild(w) \/ Finish(w) \/ ChildEnds(w)
      PROVE  UNCHANGED debug
  BY <1>3 DEF OpenDebug, FirstLine, NextLine, SameLine, Close, ReadFails, HeaderEnds,
    Answer,
    ForkChild, Finish, ChildEnds
<1> QED BY <1>1, <1>2, <1>3 DEF Next, vars

\* A debug message that fits a stdio buffer is in the file whole, whatever
\* other processes write at the same time: for every size of the buffer.
THEOREM MessagesAreWhole == Spec => []DebugWhole
<1>1. Init => DebugWhole
  BY DEF Init, DebugWhole
<1> QED BY <1>1, WholeKept, Invariance, PTL DEF Spec

-----------------------------------------------------------------------------
(* The hex dump.                                                           *)

Row == [offset : Nat, bytes : Seq(Nat)]

LEMMA BytesType ==
  ASSUME NEW p \in Nat, NEW n \in Nat
  PROVE  /\ Bytes(p, n) \in Seq(Nat) /\ Len(Bytes(p, n)) = n
         /\ \A j \in 1..n : Bytes(p, n)[j] = p + j - 1
<1>1. \A j \in 1..n : p + j - 1 \in Nat
  OBVIOUS
<1> QED BY <1>1 DEF Bytes

\* Two runs of bytes, the second where the first ends, are one.
LEMMA BytesJoin ==
  ASSUME NEW p \in Nat, NEW m \in Nat, NEW n \in Nat
  PROVE  Bytes(p, m) \o Bytes(p + m, n) = Bytes(p, m + n)
<1> DEFINE a == Bytes(p, m)
           b == Bytes(p + m, n)
           c == Bytes(p, m + n)
<1>1. /\ a \in Seq(Nat) /\ Len(a) = m /\ b \in Seq(Nat) /\ Len(b) = n
      /\ c \in Seq(Nat) /\ Len(c) = m + n
      /\ \A j \in 1..m : a[j] = p + j - 1
      /\ \A j \in 1..n : b[j] = p + m + j - 1
      /\ \A j \in 1..(m + n) : c[j] = p + j - 1
  BY BytesType
<1> HIDE DEF a, b, c
<1>2. /\ a \o b \in Seq(Nat) /\ Len(a \o b) = m + n
      /\ \A i \in 1..(m + n) : (a \o b)[i] = IF i <= m THEN a[i] ELSE b[i - m]
  BY <1>1, ConcatProperties
<1>3. \A i \in 1..(m + n) : (a \o b)[i] = c[i]
  <2> SUFFICES ASSUME NEW i \in 1..(m + n)
      PROVE  (IF i <= m THEN a[i] ELSE b[i - m]) = c[i]
    BY <1>2
  <2>1. CASE i <= m
    BY <1>1, <2>1
  <2>2. CASE ~(i <= m)
    <3>1. i - m \in 1..n
      BY <2>2
    <3>2. b[i - m] = p + m + (i - m) - 1
      BY <1>1, <3>1
    <3> QED BY <1>1, <2>2, <3>2
  <2> QED BY <2>1, <2>2
<1>4. a \o b = c
  BY <1>1, <1>2, <1>3, SeqEqual
<1> QED BY <1>4 DEF a, b, c

LEMMA LastRowIs ==
  ASSUME NEW size \in Nat
  PROVE  LastRow(size) =
           IF size % 16 = 0 THEN <<>>
           ELSE <<[offset |-> size - (size % 16),
                   bytes |-> Bytes(size - (size % 16), size % 16)]>>
<1> DEFINE r == size % 16
<1>1. r \in 0..15 /\ size - r \in Nat
  OBVIOUS
<1>2. r > 8 => Bytes(size - r, 8) \o Bytes((size - r) + 8, r - 8) = Bytes(size - r, r)
  <2> SUFFICES ASSUME r > 8
      PROVE  Bytes(size - r, 8) \o Bytes((size - r) + 8, r - 8) = Bytes(size - r, r)
    OBVIOUS
  <2>1. r - 8 \in Nat /\ 8 + (r - 8) = r
    BY <1>1
  <2> HIDE DEF r
  <2>2. Bytes(size - r, 8) \o Bytes((size - r) + 8, r - 8) = Bytes(size - r, 8 + (r - 8))
    BY <1>1, <2>1, BytesJoin
  <2> QED BY <2>1, <2>2
<1>3. (IF r > 8 THEN Bytes(size - r, 8) \o Bytes((size - r) + 8, r - 8)
       ELSE Bytes(size - r, r)) = Bytes(size - r, r)
  BY <1>2
<1>4. LastRow(size) =
        IF r = 0 THEN <<>>
        ELSE <<[offset |-> size - r,
                bytes |-> IF r > 8 THEN Bytes(size - r, 8) \o Bytes((size - r) + 8, r - 8)
                          ELSE Bytes(size - r, r)]>>
  BY DEF LastRow
<1> QED BY <1>3, <1>4

\* The rows: sixteen bytes each, and one more for the rest if there is any.
LEMMA DumpRows ==
  ASSUME NEW size \in Nat
  PROVE  LET q == size \div 16
             r == size % 16
             n == IF r = 0 THEN q ELSE q + 1
         IN /\ Len(HexDump(size)) = n /\ DOMAIN HexDump(size) = 1..n
            /\ \A i \in 1..q :
                 HexDump(size)[i] = [offset |-> 16 * (i - 1), bytes |-> Bytes(16 * (i - 1), 16)]
            /\ r # 0 => HexDump(size)[q + 1] = [offset |-> 16 * q, bytes |-> Bytes(16 * q, r)]
<1> DEFINE q == size \div 16
           r == size % 16
           n == IF r = 0 THEN q ELSE q + 1
           row(i) == [offset |-> 16 * (i - 1), bytes |-> Bytes(16 * (i - 1), 16)]
           rows == [i \in 1..q |-> row(i)]
           last == [offset |-> 16 * q, bytes |-> Bytes(16 * q, r)]
<1>1. q \in Nat /\ r \in 0..15 /\ size = 16 * q + r /\ size - r = 16 * q
  OBVIOUS
<1>2. HexDump(size) = rows \o LastRow(size)
  BY DEF HexDump
<1>3. LastRow(size) = IF r = 0 THEN <<>> ELSE <<last>>
  <2>1. LastRow(size) =
          IF r = 0 THEN <<>> ELSE <<[offset |-> size - r, bytes |-> Bytes(size - r, r)]>>
    BY LastRowIs
  <2> HIDE DEF q, r
  <2> QED BY <1>1, <2>1
<1> HIDE DEF q, r
<1>4. rows \in Seq(Row) /\ Len(rows) = q /\ \A i \in 1..q : rows[i] = row(i)
  <2>1. ASSUME NEW i \in 1..q
        PROVE  row(i) \in Row
    <3>1. 16 * (i - 1) \in Nat
      BY <1>1
    <3> QED BY <3>1, BytesType DEF Row
  <2> HIDE DEF row
  <2> QED BY <1>1, <2>1
<1>5. last \in Row
  BY <1>1, BytesType DEF Row
<1> HIDE DEF rows, last, row
<1>6. CASE r = 0
  <2>1. HexDump(size) = rows
    BY <1>2, <1>3, <1>4, <1>6, ConcatEmptySeq
  <2> QED BY <1>4, <1>6, <2>1, LenProperties DEF row, q, r
<1>7. CASE r # 0
  <2>1. HexDump(size) = rows \o <<last>> /\ <<last>> \in Seq(Row) /\ Len(<<last>>) = 1
    BY <1>2, <1>3, <1>5, <1>7
  <2>2. /\ HexDump(size) \in Seq(Row) /\ Len(HexDump(size)) = q + 1
        /\ \A i \in 1..(q + 1) :
             HexDump(size)[i] = IF i <= q THEN rows[i] ELSE <<last>>[i - q]
    <3>1. <<last>> \in Seq(Row) /\ HexDump(size) = rows \o <<last>>
      BY <2>1
    <3>2. /\ rows \o <<last>> \in Seq(Row) /\ Len(rows \o <<last>>) = Len(rows) + Len(<<last>>)
          /\ \A i \in 1..(Len(rows) + Len(<<last>>)) :
               (rows \o <<last>>)[i] = IF i <= Len(rows) THEN rows[i] ELSE <<last>>[i - Len(rows)]
      BY <1>4, <3>1, ConcatProperties
    <3> QED BY <1>4, <2>1, <3>1, <3>2
  <2>3. DOMAIN HexDump(size) = 1..(q + 1)
    BY <2>2, LenProperties
  <2>4. \A i \in 1..q : HexDump(size)[i] = row(i)
    BY <1>1, <1>4, <2>2
  <2>5. HexDump(size)[q + 1] = last
    <3>1. q + 1 \in 1..(q + 1) /\ ~(q + 1 <= q) /\ (q + 1) - q = 1
      BY <1>1
    <3> QED BY <2>2, <3>1
  <2> QED BY <1>7, <2>2, <2>3, <2>4, <2>5 DEF row, last, q, r
<1> QED BY <1>6, <1>7

\* A hex dump of any length prints every byte once and in order, and names the
\* position of the first byte of each row, the odd last row included.
THEOREM HexDumpIsWhole == Spec => []HexDumpWhole
<1>1. IInv => HexDumpWhole
  <2> SUFFICES ASSUME IInv
      PROVE  HexDumpWhole
    OBVIOUS
  <2> DEFINE size == PieceBytes * Len(debug)
             q == size \div 16
             r == size % 16
             n == IF r = 0 THEN q ELSE q + 1
             dump == HexDump(size)
             end(i) == IF i = 0 THEN 0 ELSE dump[i].offset + Len(dump[i].bytes)
  <2>1. size \in Nat
    <3>1. Len(debug) \in Nat /\ PieceBytes \in Nat
      BY Constants, LenProperties DEF IInv, IType
    <3> QED BY <3>1
  <2>2. HexDumpWhole <=>
          /\ \A i \in DOMAIN dump :
               /\ dump[i].bytes # <<>> /\ dump[i].offset = end(i - 1)
               /\ dump[i].bytes = Bytes(dump[i].offset, Len(dump[i].bytes))
          /\ end(Len(dump)) = size
    BY DEF HexDumpWhole
  <2> HIDE DEF size
  <2>3. q \in Nat /\ r \in 0..15 /\ size = 16 * q + r
    BY <2>1
  <2>4. /\ Len(dump) = n /\ DOMAIN dump = 1..n
        /\ \A i \in 1..q :
             dump[i] = [offset |-> 16 * (i - 1), bytes |-> Bytes(16 * (i - 1), 16)]
        /\ r # 0 => dump[q + 1] = [offset |-> 16 * q, bytes |-> Bytes(16 * q, r)]
    BY <2>1, DumpRows
  <2> HIDE DEF q, r, dump
  <2>5. ASSUME NEW i \in 1..q
        PROVE  /\ dump[i].offset = 16 * (i - 1) /\ Len(dump[i].bytes) = 16
               /\ dump[i].bytes = Bytes(16 * (i - 1), 16) /\ end(i) = 16 * i
    <3> DEFINE p == 16 * (i - 1)
    <3>1. dump[i] = [offset |-> p, bytes |-> Bytes(p, 16)]
      BY <2>4
    <3>2. i \in Nat /\ p \in Nat /\ p + 16 = 16 * i /\ i # 0
      BY <2>3
    <3> HIDE DEF p, end
    <3>3. dump[i].offset = p /\ dump[i].bytes = Bytes(p, 16)
      BY <3>1
    <3>4. Len(dump[i].bytes) = 16
      <4>1. 16 \in Nat
        OBVIOUS
      <4>2. \A m \in Nat : Len(Bytes(p, m)) = m
        BY <3>2, BytesType
      <4>3. Len(Bytes(p, 16)) = 16
        BY <4>1, <4>2
      <4> QED BY <3>3, <4>3
    <3>5. end(i) = p + 16
      BY <3>2, <3>3, <3>4 DEF end
    <3> QED BY <3>2, <3>3, <3>4, <3>5 DEF p
  <2>6. end(0) = 0 /\ end(q) = 16 * q
    BY <2>3, <2>5
  <2>7. ASSUME r # 0
        PROVE  /\ dump[q + 1].offset = 16 * q /\ Len(dump[q + 1].bytes) = r
               /\ dump[q + 1].bytes = Bytes(16 * q, r) /\ end(q + 1) = size
    <3> DEFINE p == 16 * q
    <3>1. dump[q + 1] = [offset |-> p, bytes |-> Bytes(p, r)]
      BY <2>4, <2>7
    <3>2. q + 1 # 0 /\ p \in Nat /\ r \in Nat /\ p + r = size
      BY <2>3
    <3> HIDE DEF p, end
    <3>3. dump[q + 1].offset = p /\ dump[q + 1].bytes = Bytes(p, r)
      BY <3>1
    <3>4. Len(dump[q + 1].bytes) = r
      BY <3>2, <3>3, BytesType
    <3>5. end(q + 1) = p + r
      BY <3>2, <3>3, <3>4 DEF end
    <3> QED BY <3>2, <3>3, <3>4, <3>5 DEF p
  <2>8. end(Len(dump)) = size
    <3>1. CASE r = 0
      BY <2>3, <2>4, <2>6, <3>1
    <3>2. CASE r # 0
      BY <2>4, <2>7, <3>2
    <3> QED BY <3>1, <3>2
  <2>9. ASSUME NEW i \in DOMAIN dump
        PROVE  /\ dump[i].bytes # <<>> /\ dump[i].offset = end(i - 1)
               /\ dump[i].bytes = Bytes(dump[i].offset, Len(dump[i].bytes))
    <3>1. CASE i \in 1..q
      <4>1. end(i - 1) = 16 * (i - 1)
        <5>1. i - 1 = 0 \/ i - 1 \in 1..q
          BY <2>3, <3>1
        <5>2. i - 1 \in 1..q => end(i - 1) = 16 * (i - 1)
          BY <2>5
        <5> QED BY <2>6, <5>1, <5>2
      <4>2. Len(dump[i].bytes) # 0 => dump[i].bytes # <<>>
        BY EmptySeq
      <4> QED BY <2>5, <3>1, <4>1, <4>2
    <3>2. CASE r # 0 /\ i = q + 1
      <4>1. (q + 1) - 1 = q
        BY <2>3
      <4>2. Len(dump[i].bytes) # 0 => dump[i].bytes # <<>>
        BY EmptySeq
      <4> QED BY <2>6, <2>7, <3>2, <4>1, <4>2
    <3> QED BY <2>3, <2>4, <3>1, <3>2
  <2> QED BY <2>2, <2>8, <2>9
<1> QED BY <1>1, Invariance, PTL
=============================================================================
