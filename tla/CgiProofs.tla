----------------------------- MODULE CgiProofs -----------------------------
(***************************************************************************)
(* Proofs about Cgi: types, the input a program reads, the response, the   *)
(* children the handler finds, and that it implements Gateway; for every   *)
(* length of body and output and every capacity of the pipes.              *)
(***************************************************************************)
EXTENDS Cgi, TLAPS

\* The worker's next call, from each.
Moves ==
  \/ /\ post
     /\ \/ worker = "pipe" /\ worker' = "feed"
        \/ worker = "feed" /\ worker' = "status"
        \/ worker = "status" /\ worker' = "redirect"
        \/ worker = "redirect" /\ worker' = IF https THEN "outpipe" ELSE "exec"
        \/ https /\ worker = "outpipe" /\ worker' = "fork"
        \/ https /\ worker = "fork" /\ worker' = "read"
  \/ /\ ~post /\ https
     /\ \/ worker = "status" /\ worker' = "pipe"
        \/ worker = "pipe" /\ worker' = "fork"
        \/ worker = "fork" /\ worker' = "close"
        \/ worker = "close" /\ worker' = "read"
  \/ /\ https
     /\ \/ worker = "read" /\ worker' = "reply"
        \/ worker = "reply" /\ worker' = "exit"
  \/ /\ ~post /\ ~https
     /\ \/ worker = "status" /\ worker' = "fork"
        \/ worker = "fork" /\ worker' = "exit"

LEMMA GoesMoves ==
  ASSUME Goes
  PROVE  Moves
<1>1. CASE post /\ https
  BY <1>1 DEF Goes, Calls, Moves
<1>2. CASE post /\ ~https
  BY <1>2 DEF Goes, Calls, Moves
<1>3. CASE ~post /\ https
  BY <1>3 DEF Goes, Calls, Moves
<1>4. CASE ~post /\ ~https
  BY <1>4 DEF Goes, Calls, Moves
<1> QED BY <1>1, <1>2, <1>3, <1>4

\* Where the worker starts.
LEMMA FirstCall == Calls[1] = IF post THEN "pipe" ELSE "status"
<1>1. CASE post /\ https
  BY <1>1 DEF Calls
<1>2. CASE post /\ ~https
  BY <1>2 DEF Calls
<1>3. CASE ~post /\ https
  BY <1>3 DEF Calls
<1>4. CASE ~post /\ ~https
  BY <1>4 DEF Calls
<1> QED BY <1>1, <1>2, <1>3, <1>4

-----------------------------------------------------------------------------
(***************************************************************************)
(* Types.                                                                  *)
(***************************************************************************)

\* Holders of pipe ends stay processes.
LEMMA HoldersType ==
  ASSUME NEW P, NEW h \in [Pipes -> SUBSET P], NEW p \in P, NEW q \in P
  PROVE  Drop(h, p) \in [Pipes -> SUBSET P] /\ Copy(h, p, q) \in [Pipes -> SUBSET P]
<1>1. \A k \in Pipes : h[k] \in SUBSET P
  OBVIOUS
<1>2. Drop(h, p) \in [Pipes -> SUBSET P]
  BY <1>1 DEF Drop
<1>3. Copy(h, p, q) \in [Pipes -> SUBSET P]
  BY <1>1 DEF Copy
<1> QED BY <1>2, <1>3

Processes == Children \cup {"worker"}

\* The four parts of the type invariant.
RequestType ==
  /\ https \in BOOLEAN /\ post \in BOOLEAN /\ sample \in BOOLEAN
  /\ length \in Nat /\ body \in Nat /\ arrived \in Nat
  /\ ahead \in Nat /\ text \in Nat
  /\ gone \in {"here", "closed", "reset"}

PlaceType ==
  /\ worker \in {"pipe", "feed", "status", "redirect", "outpipe", "fork",
                 "exec", "close", "read", "reply", "exit", "became", "ended"}
  /\ feeder \in {"none", "close", "collect", "write", "exit", "ended"}
  /\ program \in {"none", "start", "runs", "failed", "ended"}

ProcessType ==
  /\ readers \in [Pipes -> SUBSET Processes]
  /\ writers \in [Pipes -> SUBSET Processes]
  /\ zombies \in SUBSET Children /\ pending \in BOOLEAN

DataType ==
  /\ data \in Seq(Nat) /\ pipe \in [Pipes -> Seq(Nat)]
  /\ input \in Seq(Nat) /\ wrote \in Nat /\ chunk \in Seq(Nat)
  /\ response \in Seq(Nat)

LEMMA TypeParts ==
  TypeOK <=> RequestType /\ PlaceType /\ ProcessType /\ DataType
BY DEF TypeOK, RequestType, PlaceType, ProcessType, DataType, Processes

LEMMA TypeInit ==
  ASSUME Init
  PROVE  TypeOK
<1>1. RequestType
  BY CgiAssumption DEF Init, RequestType
<1>2. PlaceType
  BY FirstCall DEF Init, PlaceType
<1>3. ProcessType
  BY DEF Init, ProcessType
<1>4. DataType
  BY DEF Init, DataType
<1> QED BY <1>1, <1>2, <1>3, <1>4, TypeParts

LEMMA RequestTypeStep ==
  ASSUME TypeOK, Next
  PROVE  RequestType'
<1> USE DEF TypeOK, RequestType, request, client
<1>1. CASE Worker \/ HandleSigchld
  BY <1>1 DEF Worker, HandleSigchld, WorkerStep, MakePipe, ForkFeeder,
     SendStatus, CloseEnd, ForkProgram, Exec, ReadOutput, Reply, WorkerExit
<1>2. CASE Feeder
  BY <1>2 DEF Feeder, FeederStep, FeederCloses, FeederReads, FeederTakes,
     FeederWrites, FeederExit
<1>3. CASE StartProgram \/ Program
  BY <1>3 DEF Program, ProgramStep, StartProgram, ProgramReads, ProgramWrites,
     ProgramEnds
<1>4. CASE Arrive
  BY <1>4 DEF Arrive
<1>5. CASE Leave
  BY <1>5 DEF Leave
<1> QED BY <1>1, <1>2, <1>3, <1>4, <1>5 DEF Next

LEMMA PlaceTypeStep ==
  ASSUME TypeOK, Next
  PROVE  PlaceType'
<1> USE DEF TypeOK, PlaceType
<1>1. CASE Worker \/ HandleSigchld
  <2>1. /\ worker' = worker \/ worker' \in {"ended", "became"} \/ Goes
        /\ feeder' = feeder \/ feeder' = "close"
        /\ program' = program \/ program' \in {"start", "runs", "failed"}
    BY <1>1 DEF Worker, HandleSigchld, WorkerStep, MakePipe, ForkFeeder, Forks,
       SendStatus, CloseEnd, ForkProgram, Exec, ReadOutput, Reply, WorkerExit,
       WorkerEnds
  <2>2. Goes => Moves
    BY GoesMoves
  <2> QED BY <2>1, <2>2 DEF Moves
<1>2. CASE Feeder
  BY <1>2 DEF Feeder, FeederStep, FeederCloses, FeederReads, FeederTakes,
     FeederWrites, FeederExit
<1>3. CASE StartProgram \/ Program
  BY <1>3 DEF Program, ProgramStep, StartProgram, ProgramReads, ProgramWrites,
     ProgramEnds
<1>4. CASE Arrive \/ Leave
  BY <1>4 DEF Arrive, Leave
<1> QED BY <1>1, <1>2, <1>3, <1>4 DEF Next

LEMMA ProcessTypeStep ==
  ASSUME TypeOK, Next
  PROVE  ProcessType'
<1> DEFINE Holders == [Pipes -> SUBSET Processes]
<1>1. /\ readers \in Holders /\ writers \in Holders
      /\ zombies \in SUBSET Children /\ pending \in BOOLEAN
  BY DEF TypeOK, Processes
<1>2. /\ Children \subseteq Processes /\ "worker" \in Processes
      /\ "feeder" \in Children /\ "program" \in Children
  BY DEF Processes, Children
<1>3. \A p, q \in Processes : \A h \in Holders :
        Drop(h, p) \in Holders /\ Copy(h, p, q) \in Holders
  BY HoldersType
<1>4. \A h \in Holders : \A k : \A p : [h EXCEPT ![k] = @ \ {p}] \in Holders
  BY DEF Pipes
<1>5. \A h \in Holders : \A k : [h EXCEPT ![k] = {"worker"}] \in Holders
  BY <1>2 DEF Pipes
<1>6. CASE UNCHANGED <<ends, signals>>
  BY <1>1, <1>6 DEF ends, signals, ProcessType
<1>7. ASSUME NEW p \in Children, ChildEnds(p)
      PROVE  ProcessType'
  BY <1>1, <1>2, <1>3, <1>7 DEF ChildEnds, ProcessType, WorkerLives
<1>8. CASE WorkerEnds
  BY <1>1, <1>2, <1>3, <1>8 DEF WorkerEnds, ProcessType
<1>9. ASSUME NEW p \in Children, Forks(p)
      PROVE  ProcessType'
  BY <1>1, <1>2, <1>3, <1>9 DEF Forks, ProcessType, signals
<1>10. CASE MakePipe
  BY <1>1, <1>5, <1>8, <1>10 DEF MakePipe, ProcessType, signals
<1>11. CASE ForkFeeder \/ ForkProgram
  BY <1>2, <1>8, <1>9, <1>11 DEF ForkFeeder, ForkProgram
<1>12. CASE SendStatus \/ Reply \/ WorkerExit
  BY <1>6, <1>8, <1>12 DEF SendStatus, Reply, WorkerExit
<1>13. CASE CloseEnd
  BY <1>1, <1>4, <1>13 DEF CloseEnd, Close, ProcessType, signals
<1>14. CASE Exec
  <2>1. CASE WorkerEnds
    BY <1>8, <2>1
  <2>2. CASE /\ readers' = Drop(Copy(readers, "worker", "program"), "worker")
             /\ writers' = Drop(Copy(writers, "worker", "program"), "worker")
             /\ zombies' = {} /\ pending' = FALSE
    BY <1>1, <1>2, <1>3, <2>2 DEF ProcessType
  <2> QED BY <1>14, <2>1, <2>2 DEF Exec
<1>15. CASE ReadOutput
  BY <1>6, <1>15 DEF ReadOutput
<1>16. CASE HandleSigchld
  BY <1>1, <1>8, <1>16 DEF HandleSigchld, ends, ProcessType
<1>17. CASE FeederCloses
  BY <1>1, <1>4, <1>17 DEF FeederCloses, Close, signals, ProcessType
<1>18. CASE FeederReads \/ FeederTakes \/ FeederWrites \/ FeederExit
  BY <1>2, <1>6, <1>7, <1>18 DEF FeederReads, FeederTakes, FeederWrites, FeederExit
<1>19. CASE StartProgram
  BY <1>1, <1>2, <1>4, <1>7, <1>19 DEF StartProgram, Close, signals, ProcessType
<1>20. CASE ProgramReads \/ ProgramWrites
  BY <1>6, <1>20 DEF ProgramReads, ProgramWrites
<1>21. CASE ProgramEnds
  BY <1>1, <1>2, <1>3, <1>7, <1>21 DEF ProgramEnds, signals, ProcessType
<1>22. CASE Arrive \/ Leave
  BY <1>6, <1>22 DEF Arrive, Leave
<1> QED
  BY <1>10, <1>11, <1>12, <1>13, <1>14, <1>15, <1>16, <1>17, <1>18, <1>19,
     <1>20, <1>21, <1>22 DEF Next, Worker, Feeder, Program

LEMMA DataTypeStep ==
  ASSUME TypeOK, Next
  PROVE  DataType'
<1>1. /\ DataType /\ length \in Nat /\ text \in Nat
      /\ MaxOut \in Nat
  BY CgiAssumption DEF TypeOK, DataType
<1>2. \A s \in Seq(Nat) : \A n \in Nat : Append(s, n) \in Seq(Nat)
  OBVIOUS
<1>3. CASE UNCHANGED <<data, pipe, input, wrote, chunk, response>>
  BY <1>1, <1>3 DEF DataType
<1>4. CASE SendStatus
  BY <1>1, <1>2, <1>4 DEF SendStatus, WorkerStep, DataType, Status
<1>5. CASE ReadOutput
  <2>1. pipe["out"] \in Seq(Nat)
    BY <1>1 DEF DataType, Pipes
  <2>2. CASE UNCHANGED <<pipe, chunk>>
    BY <1>3, <1>5, <2>2 DEF ReadOutput, WorkerStep
  <2>3. ASSUME NEW n \in 1..Len(pipe["out"]),
               chunk' = SubSeq(pipe["out"], 1, n),
               pipe' = [pipe EXCEPT !["out"] = SubSeq(@, n + 1, Len(@))]
        PROVE  DataType'
    <3>1. SubSeq(pipe["out"], 1, n) \in Seq(Nat)
      BY <2>1
    <3>2. SubSeq(pipe["out"], n + 1, Len(pipe["out"])) \in Seq(Nat)
      BY <2>1
    <3> QED BY <1>1, <1>5, <2>3, <3>1, <3>2 DEF ReadOutput, WorkerStep, DataType, Pipes
  <2> QED BY <1>5, <2>2, <2>3 DEF ReadOutput
<1>6. CASE Reply
  <2>1. response \o chunk \in Seq(Nat) /\ Garbage \in Nat
    BY <1>1 DEF DataType, Garbage
  <2>2. Append(response \o chunk, Garbage) \in Seq(Nat)
    BY <1>2, <2>1
  <2>3. \A n \in 0..Len(chunk) : response \o SubSeq(chunk, 1, n) \in Seq(Nat)
    BY <1>1 DEF DataType
  <2> QED BY <1>1, <1>6, <2>1, <2>2, <2>3 DEF Reply, WorkerStep, DataType
<1>7. CASE \/ MakePipe \/ ForkFeeder \/ CloseEnd \/ ForkProgram \/ Exec
           \/ WorkerExit \/ HandleSigchld
  BY <1>3, <1>7 DEF MakePipe, ForkFeeder, CloseEnd, ForkProgram, Exec,
     WorkerExit, HandleSigchld, WorkerStep
<1>8. CASE FeederCloses \/ FeederExit
  BY <1>3, <1>8 DEF FeederCloses, FeederExit, FeederStep
<1>9. CASE FeederReads
  <2>1. Len(data) + 1 \in Nat /\ data \in Seq(Nat)
    BY <1>1 DEF DataType
  <2> QED BY <1>1, <1>2, <1>9, <2>1 DEF FeederReads, FeederStep, DataType
<1>10. CASE FeederTakes
  <2>1. [i \in 1..text |-> i] \in Seq(Nat)
    BY <1>1
  <2> QED BY <1>1, <1>10, <2>1 DEF FeederTakes, FeederStep, DataType
<1>11. CASE FeederWrites
  <2> DEFINE all == [i \in 1..length |-> IF i <= Len(data) THEN data[i] ELSE Pad]
  <2>1. \A i \in 1..length : (IF i <= Len(data) THEN data[i] ELSE Pad) \in Nat
    BY <1>1 DEF DataType, Pad
  <2>2. all \in Seq(Nat)
    BY <1>1, <2>1
  <2> HIDE DEF all
  <2>3. pipe' = pipe \/ pipe' = [pipe EXCEPT !["in"] = all]
    BY <1>11 DEF FeederWrites, all
  <2> QED BY <1>1, <1>11, <2>2, <2>3 DEF FeederWrites, FeederStep, DataType
<1>12. CASE StartProgram \/ ProgramEnds
  BY <1>3, <1>12 DEF StartProgram, ProgramEnds, ProgramStep
<1>13. CASE ProgramReads
  <2>1. /\ pipe["in"] \in Seq(Nat) /\ pipe["in"] # <<>>
        /\ input \in Seq(Nat)
    BY <1>1, <1>13 DEF ProgramReads, DataType, Pipes
  <2>2. Head(pipe["in"]) \in Nat /\ Tail(pipe["in"]) \in Seq(Nat)
    BY <2>1
  <2>3. Append(input, Head(pipe["in"])) \in Seq(Nat)
    BY <1>2, <2>1, <2>2
  <2> QED BY <1>1, <1>13, <2>2, <2>3 DEF ProgramReads, ProgramStep, DataType
<1>14. CASE ProgramWrites
  <2>1. /\ wrote + 1 \in Nat /\ response \in Seq(Nat)
        /\ pipe["out"] \in Seq(Nat)
    BY <1>1 DEF DataType, Pipes
  <2>2. Append(response, wrote + 1) \in Seq(Nat)
        /\ Append(pipe["out"], wrote + 1) \in Seq(Nat)
    BY <1>2, <2>1
  <2> QED BY <1>1, <1>14, <2>1, <2>2 DEF ProgramWrites, ProgramStep, DataType
<1>15. CASE Arrive \/ Leave
  BY <1>3, <1>15 DEF Arrive, Leave
<1> QED
  BY <1>4, <1>5, <1>6, <1>7, <1>8, <1>9, <1>10, <1>11, <1>12, <1>13, <1>14,
     <1>15 DEF Next, Worker, Feeder, Program

LEMMA TypeStep ==
  ASSUME TypeOK, [Next]_vars
  PROVE  TypeOK'
<1>1. CASE Next
  <2>1. RequestType' /\ PlaceType'
    BY <1>1, RequestTypeStep, PlaceTypeStep
  <2>2. ProcessType' /\ DataType'
    BY <1>1, ProcessTypeStep, DataTypeStep
  <2> QED
    BY <2>1, <2>2 DEF TypeOK, RequestType, PlaceType, ProcessType, DataType,
       Processes
<1>2. CASE UNCHANGED vars
  BY <1>2 DEF vars, request, client, ends, signals, TypeOK
<1> QED BY <1>1, <1>2

\* Every variable keeps its type, whatever the lengths and the capacity.
THEOREM TypeCorrect == Spec => []TypeOK
<1>1. Init => TypeOK
  BY TypeInit
<1>2. TypeOK /\ [Next]_vars => TypeOK'
  BY TypeStep
<1> QED BY <1>1, <1>2, PTL DEF Spec

-----------------------------------------------------------------------------
(***************************************************************************)
(* The program's input.  The feeder collects a beginning of the body; what *)
(* it writes, and so what is in the pipe and what the program has read, is *)
(* that beginning followed by zeros: over http for what cannot come any    *)
(* more, over https for all that is not text read together with the head.  *)
(***************************************************************************)

\* What may be the i-th piece of the input.
Fits(i, x) ==
  IF https THEN x = IF i <= text THEN i ELSE Pad
  ELSE x = i \/ (x = Pad /\ i > arrived /\ gone = "closed")

CollectedInv ==
  /\ \A i \in 1..Len(data) : data[i] = i
  /\ ~https => Len(data) <= arrived
  /\ feeder = "write" =>
       IF https THEN Len(data) = text
       ELSE Len(data) = length \/ (Len(data) = arrived /\ gone = "closed")

CarriedInv ==
  /\ feeder \in {"none", "close", "collect", "write"} =>
       input = <<>> /\ pipe["in"] = <<>>
  /\ Len(input) + Len(pipe["in"]) <= length
  /\ \A i \in 1..Len(input) : Fits(i, input[i])
  /\ \A i \in 1..Len(pipe["in"]) : Fits(Len(input) + i, pipe["in"][i])

\* The feeder is forked once.
FeedInv ==
  /\ worker = "feed" => post
  /\ post /\ worker \in {"pipe", "feed"} => feeder = "none"

InputInv == CollectedInv /\ CarriedInv /\ FeedInv

LEMMA InputInit ==
  ASSUME Init
  PROVE  InputInv
<1>1. CollectedInv
  BY DEF Init, CollectedInv
<1>2. CarriedInv
  BY DEF Init, CarriedInv, Pipes
<1>3. FeedInv
  BY FirstCall DEF Init, FeedInv
<1> QED BY <1>1, <1>2, <1>3 DEF InputInv

\* What fits now fits as long as the request is the same and the client sends
\* no more once it has closed.
LEMMA FitsStays ==
  ASSUME UNCHANGED request,
         UNCHANGED client \/ (gone = "here" /\ (UNCHANGED arrived \/ UNCHANGED gone))
  PROVE  \A i, x : Fits(i, x) => Fits(i, x)'
BY DEF Fits, request, client

\* Steps that leave the body alone.
LEMMA BodyFrame ==
  ASSUME InputInv, UNCHANGED <<request, data, input>>,
         UNCHANGED client \/ (gone = "here" /\ (UNCHANGED arrived \/ UNCHANGED gone)),
         arrived' \in Nat, arrived' >= arrived, pipe'["in"] = pipe["in"],
         TypeOK,
         feeder' = feeder \/ (feeder = "none" /\ feeder' = "close")
  PROVE  CollectedInv' /\ CarriedInv'
<1>1. CollectedInv'
  <2>1. Len(data) \in Nat /\ arrived \in Nat /\ data' = data /\ https' = https
        /\ length' = length /\ text' = text
    BY DEF TypeOK, request
  <2>2. CollectedInv
    BY DEF InputInv
  <2>3. ~https => Len(data) <= arrived'
    <3> SUFFICES ASSUME ~https PROVE Len(data) <= arrived'
      OBVIOUS
    <3>1. Len(data) <= arrived
      BY <2>2 DEF CollectedInv
    <3> QED BY <2>1, <3>1
  <2> QED BY <2>1, <2>2, <2>3 DEF CollectedInv, client
<1>2. CarriedInv'
  <2>1. \A i, x : Fits(i, x) => Fits(i, x)'
    BY FitsStays
  <2>2. length' = length /\ input' = input /\ pipe'["in"] = pipe["in"]
    BY DEF request
  <2>3. \A i \in 1..Len(input) : Fits(i, input[i])'
    BY <2>1, <2>2 DEF InputInv, CarriedInv
  <2>4. \A i \in 1..Len(pipe["in"]) : Fits(Len(input) + i, pipe["in"][i])'
    BY <2>1, <2>2 DEF InputInv, CarriedInv
  <2> QED BY <2>2, <2>3, <2>4 DEF InputInv, CarriedInv
<1> QED BY <1>1, <1>2

LEMMA FeedStep ==
  ASSUME TypeOK, InputInv, Next
  PROVE  FeedInv'
<1>1. CASE ForkFeeder
  <2>1. Goes \/ worker' = "ended"
    BY <1>1 DEF ForkFeeder, Forks, WorkerEnds
  <2>2. worker = "feed" /\ post' = post
    BY <1>1 DEF ForkFeeder, WorkerStep, request
  <2>3. worker' \in {"status", "ended"}
    BY <2>1, <2>2, GoesMoves DEF Moves
  <2> QED BY <2>3 DEF FeedInv
<1>2. CASE /\ UNCHANGED <<post, feeder>>
           /\ worker' = worker \/ worker' \in {"ended", "became"} \/ Goes
  BY <1>2, GoesMoves DEF Moves, FeedInv, InputInv
<1>3. CASE (Worker /\ ~ForkFeeder) \/ HandleSigchld
  BY <1>2, <1>3 DEF Worker, HandleSigchld, WorkerStep, request, MakePipe,
     SendStatus, CloseEnd, ForkProgram, Forks, Exec, ReadOutput, Reply,
     WorkerExit, WorkerEnds
<1>4. CASE Feeder
  BY <1>4 DEF Feeder, FeederStep, request, FeederCloses, FeederReads,
     FeederTakes, FeederWrites, FeederExit, FeedInv, InputInv
<1>5. CASE StartProgram \/ Program \/ Arrive \/ Leave
  BY <1>2, <1>5 DEF StartProgram, Program, ProgramStep, request, ProgramReads,
     ProgramWrites, ProgramEnds, Arrive, Leave
<1> QED BY <1>1, <1>3, <1>4, <1>5 DEF Next

\* The feeder collects: it has written nothing yet, so nothing is carried.
LEMMA CollectStep ==
  ASSUME TypeOK, InputInv, FeederReads \/ FeederTakes
  PROVE  CollectedInv' /\ CarriedInv'
<1>1. /\ feeder = "collect" /\ UNCHANGED <<request, client, input, pipe>>
      /\ feeder' \in {"collect", "write", "ended"}
  BY DEF FeederReads, FeederTakes, FeederStep
<1>2. CarriedInv'
  BY <1>1 DEF InputInv, CarriedInv, request
<1>3. ASSUME FeederTakes PROVE CollectedInv'
  <2>1. data' = [i \in 1..text |-> i] /\ https' /\ text' = text
    BY <1>1, <1>3 DEF FeederTakes, request
  <2>2. Len(data') = text
    BY <2>1 DEF TypeOK
  <2>3. \A i \in 1..Len(data') : data'[i] = i
    BY <2>1, <2>2
  <2> QED BY <2>1, <2>2, <2>3 DEF CollectedInv
<1>4. ASSUME FeederReads PROVE CollectedInv'
  <2>1. /\ ~https /\ ~https' /\ arrived' = arrived /\ length' = length
        /\ gone' = gone
    BY <1>1, <1>4 DEF FeederReads, request, client
  <2>2. data \in Seq(Nat) /\ Len(data) \in Nat /\ arrived \in Nat
    BY DEF TypeOK
  <2>3. ASSUME Len(data) < arrived, data' = Append(data, Len(data) + 1),
               feeder' = feeder
        PROVE  CollectedInv'
    <3>1. Len(data') = Len(data) + 1
      BY <2>2, <2>3
    <3>2. \A i \in 1..Len(data') : data'[i] = i
      BY <2>2, <2>3, <3>1 DEF InputInv, CollectedInv
    <3>3. Len(data') <= arrived
      BY <2>2, <2>3, <3>1
    <3> QED BY <1>1, <2>1, <2>3, <3>2, <3>3 DEF CollectedInv
  <2>4. CASE /\ Len(data) = length \/ (Len(data) = arrived /\ gone = "closed")
             /\ data' = data
    BY <2>1, <2>4 DEF InputInv, CollectedInv
  <2>5. CASE data' = data /\ feeder' = "ended"
    BY <2>1, <2>5 DEF InputInv, CollectedInv
  <2> QED BY <1>4, <2>3, <2>4, <2>5 DEF FeederReads
<1> QED BY <1>2, <1>3, <1>4

\* The feeder writes what it has collected and fills up with zeros.
LEMMA WriteStep ==
  ASSUME TypeOK, InputInv, FeederWrites
  PROVE  CollectedInv' /\ CarriedInv'
<1>1. /\ feeder = "write" /\ UNCHANGED <<request, client, input, data>>
      /\ feeder' \in {"exit", "ended"}
  BY DEF FeederWrites, FeederStep
<1>2. /\ CollectedInv /\ CarriedInv
      /\ input = <<>> /\ pipe["in"] = <<>>
  BY <1>1 DEF InputInv, CarriedInv
<1>3. CollectedInv'
  BY <1>1, <1>2 DEF CollectedInv, request, client
<1>4. ASSUME pipe' = pipe
      PROVE  CarriedInv'
  <2>1. (\A i \in 1..Len(pipe["in"]) : Fits(Len(input) + i, pipe["in"][i]))'
    BY <1>1, <1>2, <1>4
  <2>2. (\A i \in 1..Len(input) : Fits(i, input[i]))'
    BY <1>1, <1>2
  <2> QED BY <1>1, <1>2, <1>4, <2>1, <2>2 DEF CarriedInv, request
<1>5. ASSUME pipe' = [pipe EXCEPT !["in"] =
                [i \in 1..length |-> IF i <= Len(data) THEN data[i] ELSE Pad]]
      PROVE  CarriedInv'
  <2>1. pipe'["in"] = [i \in 1..length |-> IF i <= Len(data) THEN data[i] ELSE Pad]
    BY <1>5 DEF TypeOK, Pipes
  <2>2. /\ length \in Nat /\ length' = length /\ input' = <<>>
        /\ Len(data) \in Nat /\ arrived \in Nat /\ text \in Nat
        /\ text' = text /\ arrived' = arrived /\ gone' = gone /\ https' = https
    BY <1>1, <1>2 DEF TypeOK, request, client
  <2>3. Len(pipe'["in"]) = length
    BY <2>1, <2>2
  <2>4. \A i \in 1..length : Fits(i, pipe'["in"][i])
    <3> SUFFICES ASSUME NEW i \in 1..length
                 PROVE  Fits(i, pipe'["in"][i])
      OBVIOUS
    <3>1. CASE i <= Len(data)
      <4>1. pipe'["in"][i] = data[i]
        BY <2>1, <3>1
      <4>2. data[i] = i
        BY <1>2, <2>2, <3>1 DEF CollectedInv
      <4>3. https => Len(data) = text
        BY <1>1, <1>2 DEF CollectedInv
      <4> QED BY <2>2, <3>1, <4>1, <4>2, <4>3 DEF Fits
    <3>2. CASE ~(i <= Len(data))
      <4>1. pipe'["in"][i] = Pad
        BY <2>1, <3>2
      <4>2. IF https THEN ~(i <= text) ELSE i > arrived /\ gone = "closed"
        BY <1>1, <1>2, <2>2, <3>2 DEF CollectedInv
      <4> QED BY <2>2, <4>1, <4>2 DEF Fits, Pad
    <3> QED BY <3>1, <3>2
  <2>5. Len(input') = 0
    BY <2>2
  <2>6. \A i \in 1..length : Len(input') + i = i
    BY <2>2, <2>5
  <2>7. (\A i \in 1..Len(pipe["in"]) : Fits(Len(input) + i, pipe["in"][i]))'
    BY <1>1, <2>3, <2>4, <2>6, FitsStays
  <2> QED BY <1>1, <2>2, <2>3, <2>5, <2>7 DEF CarriedInv
<1> QED BY <1>3, <1>4, <1>5 DEF FeederWrites

\* The program reads: the first piece of the pipe becomes the last of the input.
LEMMA ReadStep ==
  ASSUME TypeOK, InputInv, ProgramReads
  PROVE  CollectedInv' /\ CarriedInv'
<1> DEFINE q == pipe["in"]
<1>1. /\ UNCHANGED <<request, client, feeder, data>>
      /\ q # <<>> /\ input' = Append(input, Head(q))
      /\ pipe'["in"] = Tail(q)
  BY DEF ProgramReads, ProgramStep, TypeOK, Pipes
<1>2. CollectedInv'
  BY <1>1 DEF InputInv, CollectedInv, request, client
<1>3. q \in Seq(Nat) /\ input \in Seq(Nat) /\ length \in Nat
  BY DEF TypeOK, Pipes
<1>4. CarriedInv
  BY DEF InputInv
<1>5. \A i, x : Fits(i, x) => Fits(i, x)'
  BY <1>1, FitsStays
<1> HIDE DEF q
<1>6. /\ Len(q) \in Nat \ {0} /\ Len(Tail(q)) = Len(q) - 1
      /\ Head(q) = q[1] /\ \A i \in 1..Len(Tail(q)) : Tail(q)[i] = q[i + 1]
  BY <1>1, <1>3
<1>7. /\ Len(input) \in Nat /\ Len(input') = Len(input) + 1
      /\ \A i \in 1..Len(input) : input'[i] = input[i]
      /\ input'[Len(input) + 1] = q[1]
  BY <1>1, <1>3, <1>6
<1>8. /\ Len(input) + Len(q) <= length
      /\ \A i \in 1..Len(input) : Fits(i, input[i])
      /\ \A i \in 1..Len(q) : Fits(Len(input) + i, q[i])
  BY <1>4 DEF CarriedInv, q
<1>9. \A i \in 1..Len(input') : Fits(i, input'[i])
  <2> SUFFICES ASSUME NEW i \in 1..Len(input')
               PROVE  Fits(i, input'[i])
    OBVIOUS
  <2>1. CASE i \in 1..Len(input)
    BY <1>7, <1>8, <2>1
  <2>2. CASE i = Len(input) + 1
    <3>1. 1 \in 1..Len(q)
      BY <1>6
    <3>2. Fits(Len(input) + 1, q[1])
      BY <1>8, <3>1
    <3> QED BY <1>7, <2>2, <3>2
  <2> QED BY <1>7, <2>1, <2>2
<1>10. \A i \in 1..Len(Tail(q)) : Fits(Len(input') + i, Tail(q)[i])
  <2> SUFFICES ASSUME NEW i \in 1..Len(Tail(q))
               PROVE  Fits(Len(input') + i, Tail(q)[i])
    OBVIOUS
  <2>1. i + 1 \in 1..Len(q) /\ Tail(q)[i] = q[i + 1]
    BY <1>6
  <2>2. Len(input') + i = Len(input) + (i + 1)
    BY <1>6, <1>7
  <2> QED BY <1>8, <2>1, <2>2
<1>11. Len(input') + Len(Tail(q)) <= length
  BY <1>3, <1>6, <1>7, <1>8
<1>12. feeder \notin {"none", "close", "collect", "write"}
  BY <1>1, <1>4 DEF CarriedInv, q
<1>13. (\A i \in 1..Len(input) : Fits(i, input[i]))'
  BY <1>5, <1>9
<1>14. (\A i \in 1..Len(pipe["in"]) : Fits(Len(input) + i, pipe["in"][i]))'
  BY <1>1, <1>5, <1>10
<1>15. length' = length
  BY <1>1 DEF request
<1>16. CarriedInv'
  BY <1>1, <1>11, <1>12, <1>13, <1>14, <1>15 DEF CarriedInv
<1> QED BY <1>2, <1>16

LEMMA InputStep ==
  ASSUME TypeOK, InputInv, [Next]_vars
  PROVE  InputInv'
<1>1. arrived \in Nat /\ \A n \in Nat : n + 1 \in Nat /\ n + 1 >= n /\ n >= n
  BY DEF TypeOK
<1>2. CASE Worker \/ HandleSigchld
  <2>1. /\ UNCHANGED <<request, client, data, input>>
        /\ feeder' = feeder \/ (worker = "feed" /\ feeder' = "close")
    BY <1>2 DEF Worker, HandleSigchld, WorkerStep, MakePipe, ForkFeeder,
       SendStatus, CloseEnd, ForkProgram, Exec, ReadOutput, Reply, WorkerExit
  <2>2. pipe'["in"] = pipe["in"]
    BY <1>2 DEF TypeOK, Pipes, Worker, HandleSigchld, MakePipe, ForkFeeder,
       SendStatus, CloseEnd, ForkProgram, Exec, ReadOutput, Reply, WorkerExit
  <2>3. worker = "feed" => feeder = "none"
    BY DEF InputInv, FeedInv
  <2>4. arrived' \in Nat /\ arrived' >= arrived
    BY <1>1, <2>1 DEF client
  <2>5. CollectedInv' /\ CarriedInv'
    BY <2>1, <2>2, <2>3, <2>4, BodyFrame
  <2> QED BY <1>2, <2>5, FeedStep DEF InputInv, Next
<1>3. CASE FeederCloses \/ FeederExit
  <2>1. /\ UNCHANGED <<request, client, data, input, pipe>>
        /\ \/ feeder = "close" /\ feeder' = "collect"
           \/ feeder' = "ended"
    BY <1>3 DEF FeederCloses, FeederExit, FeederStep
  <2>2. CollectedInv'
    BY <2>1 DEF InputInv, CollectedInv, request, client
  <2>3. \A i, x : Fits(i, x) => Fits(i, x)'
    BY <2>1, FitsStays
  <2>4. (\A i \in 1..Len(input) : Fits(i, input[i]))'
    BY <2>1, <2>3 DEF InputInv, CarriedInv
  <2>5. (\A i \in 1..Len(pipe["in"]) : Fits(Len(input) + i, pipe["in"][i]))'
    BY <2>1, <2>3 DEF InputInv, CarriedInv
  <2>6. CarriedInv'
    BY <2>1, <2>4, <2>5 DEF InputInv, CarriedInv, request
  <2> QED BY <1>3, <2>2, <2>6, FeedStep DEF InputInv, Next, Feeder
<1>4. CASE FeederReads \/ FeederTakes
  BY <1>4, CollectStep, FeedStep DEF InputInv, Next, Feeder
<1>5. CASE FeederWrites
  BY <1>5, WriteStep, FeedStep DEF InputInv, Next, Feeder
<1>6. CASE ProgramReads
  BY <1>6, ReadStep, FeedStep DEF InputInv, Next, Program
<1>7. CASE StartProgram \/ ProgramWrites \/ ProgramEnds
  <2>1. UNCHANGED <<request, client, data, input, feeder>>
    BY <1>7 DEF StartProgram, ProgramWrites, ProgramEnds, ProgramStep
  <2>2. pipe'["in"] = pipe["in"]
    BY <1>7 DEF TypeOK, Pipes, StartProgram, ProgramWrites, ProgramEnds
  <2>3. arrived' \in Nat /\ arrived' >= arrived
    BY <1>1, <2>1 DEF client
  <2>4. CollectedInv' /\ CarriedInv'
    BY <2>1, <2>2, <2>3, BodyFrame
  <2> QED BY <1>7, <2>4, FeedStep DEF InputInv, Next, Program
<1>8. CASE Arrive \/ Leave
  <2>1. /\ UNCHANGED <<request, data, input, pipe, feeder>>
        /\ gone = "here" /\ (UNCHANGED arrived \/ UNCHANGED gone)
        /\ arrived' = arrived \/ arrived' = arrived + 1
    BY <1>8 DEF Arrive, Leave
  <2>2. arrived' \in Nat /\ arrived' >= arrived
    BY <1>1, <2>1
  <2>3. CollectedInv' /\ CarriedInv'
    BY <2>1, <2>2, BodyFrame
  <2> QED BY <1>8, <2>3, FeedStep DEF InputInv, Next
<1>9. CASE UNCHANGED vars
  <2>1. UNCHANGED <<request, client, data, input, feeder, pipe, worker>>
    BY <1>9 DEF vars
  <2>2. arrived' \in Nat /\ arrived' >= arrived
    BY <1>1, <2>1 DEF client
  <2>3. CollectedInv' /\ CarriedInv'
    BY <2>1, <2>2, BodyFrame
  <2> QED BY <2>1, <2>3 DEF InputInv, FeedInv, request
<1> QED
  BY <1>2, <1>3, <1>4, <1>5, <1>6, <1>7, <1>8, <1>9 DEF Next, Feeder, Program

LEMMA InputHolds == TypeOK /\ InputInv => InputIntact
<1> SUFFICES ASSUME TypeOK, InputInv
             PROVE  InputIntact
  OBVIOUS
<1>1. Len(input) \in Nat /\ Len(pipe["in"]) \in Nat /\ length \in Nat
  BY DEF TypeOK, Pipes
<1>2. Len(input) <= length
  BY <1>1 DEF InputInv, CarriedInv
<1>3. \A i \in 1..Len(input) : Fits(i, input[i])
  BY DEF InputInv, CarriedInv
<1> QED BY <1>2, <1>3 DEF InputIntact, Fits

\* What the program of a POST reads is the body, piece by piece.  Over http
\* zeros stand in only for what cannot come any more; over https for all but
\* the text that was read together with the head, received or not
\* (mini_httpd_helper.c:249-270, 597).
THEOREM InputDelivered == Spec => []InputIntact
<1>1. Init => TypeOK /\ InputInv
  BY TypeInit, InputInit
<1>2. TypeOK /\ InputInv /\ [Next]_vars => (TypeOK /\ InputInv)'
  BY TypeStep, InputStep
<1>3. TypeOK /\ InputInv => InputIntact
  BY InputHolds
<1> QED BY <1>1, <1>2, <1>3, PTL DEF Spec

\* The handler always finds a child of the worker (main.c:21).
THEOREM HandlerFindsChild == Spec => []SigchldCovered
<1>1. Init => SigchldCovered
  BY DEF Init, SigchldCovered
<1>2. SigchldCovered /\ [Next]_vars => SigchldCovered'
  <2> SUFFICES ASSUME SigchldCovered, [Next]_vars
               PROVE  SigchldCovered'
    OBVIOUS
  <2> USE DEF SigchldCovered
  <2>1. ASSUME NEW p, ChildEnds(p), worker' = worker
        PROVE  SigchldCovered'
    BY <2>1 DEF ChildEnds, WorkerLives
  <2>2. CASE WorkerEnds
    BY <2>2 DEF WorkerEnds
  <2>3. CASE Goes /\ UNCHANGED signals
    BY <2>3, GoesMoves DEF Moves, signals, WorkerLives
  <2>4. CASE UNCHANGED <<signals, worker>>
    BY <2>4 DEF signals, WorkerLives
  <2>5. CASE Worker \/ HandleSigchld
    BY <2>2, <2>3, <2>4, <2>5 DEF Worker, MakePipe, ForkFeeder, Forks,
       SendStatus, CloseEnd, ForkProgram, Exec, ReadOutput, Reply, WorkerExit,
       HandleSigchld
  <2>6. CASE Feeder
    BY <2>1, <2>4, <2>6 DEF Feeder, FeederStep, FeederCloses, FeederReads,
       FeederTakes, FeederWrites, FeederExit
  <2>7. CASE StartProgram \/ Program
    BY <2>1, <2>4, <2>7 DEF Program, ProgramStep, StartProgram, ProgramReads,
       ProgramWrites, ProgramEnds, signals, WorkerLives
  <2>8. CASE Arrive \/ Leave \/ UNCHANGED vars
    BY <2>4, <2>8 DEF Arrive, Leave, vars
  <2> QED BY <2>5, <2>6, <2>7, <2>8 DEF Next
<1> QED BY <1>1, <1>2, PTL DEF Spec

-----------------------------------------------------------------------------
(***************************************************************************)
(* The response.  Over http the program adds to the status line, which     *)
(* precedes it; over https the worker adds what it read of the pipe, and   *)
(* it reads once, from the beginning.                                      *)
(***************************************************************************)

\* The client has the status line first and then the output from its beginning,
\* in order; get_dynamic() may add what its buffer held.
ResponseOrdered ==
  \A i \in 1..Len(response) :
    \/ response[i] = i - 1
    \/ https /\ ~post /\ i = Len(response) /\ response[i] = Garbage

\* The status line is still to be sent.
Before == worker = "status" \/ (post /\ worker \in {"pipe", "feed"})

BranchInv ==
  /\ worker \in {"feed", "redirect", "exec"} => post
  /\ worker \in {"outpipe", "close", "read", "reply"} => https
  /\ worker = "exec" => ~https

StatusInv ==
  /\ Before => response = <<>>
  /\ ~https /\ (worker \in {"redirect", "exec", "fork"} \/ program \in {"start", "runs"})
       => response # <<>>

PlainInv ==
  ~https => IF response = <<>> THEN wrote = 0 ELSE Len(response) = wrote + 1

TlsInv ==
  https =>
    /\ worker \notin {"reply", "exit", "ended", "became"} =>
         /\ Len(pipe["out"]) = wrote
         /\ \A i \in 1..Len(pipe["out"]) : pipe["out"][i] = i
    /\ \A i \in 1..Len(chunk) : chunk[i] = i
    /\ worker \notin {"exit", "ended"} => response \in {<<>>, <<Status>>}

ResponseInv ==
  BranchInv /\ StatusInv /\ PlainInv /\ TlsInv /\ ResponseOrdered

LEMMA ResponseInit ==
  ASSUME Init
  PROVE  ResponseInv
<1>1. BranchInv /\ StatusInv
  BY FirstCall DEF Init, BranchInv, StatusInv
<1>2. PlainInv /\ TlsInv /\ ResponseOrdered
  BY DEF Init, PlainInv, TlsInv, ResponseOrdered, Pipes
<1> QED BY <1>1, <1>2 DEF ResponseInv

\* Steps that move neither output nor response.
LEMMA OutputFrame ==
  ASSUME ResponseInv, UNCHANGED <<https, post, response, wrote, chunk>>,
         pipe'["out"] = pipe["out"],
         \/ /\ worker' = worker \/ worker' = "ended"
            /\ \/ program' \notin {"start", "runs"}
               \/ program' = program
               \/ program = "start"
         \/ /\ Goes /\ worker \notin {"status", "read", "reply"}
            /\ program' = program \/ worker = "fork"
         \/ worker = "exec" /\ worker' = "became"
  PROVE  ResponseInv'
<1>1. \/ worker' = worker \/ worker' = "ended"
      \/ Moves /\ worker \notin {"status", "read", "reply"}
      \/ worker = "exec" /\ worker' = "became"
  BY GoesMoves
<1>2. BranchInv'
  BY <1>1 DEF ResponseInv, BranchInv, Moves
<1>3. StatusInv'
  BY <1>1 DEF ResponseInv, BranchInv, StatusInv, Before, Moves
<1>4. PlainInv'
  BY DEF ResponseInv, PlainInv
<1>5. TlsInv'
  <2> SUFFICES ASSUME https
               PROVE  TlsInv'
    BY DEF TlsInv
  <2>1. worker \in {"reply", "exit", "ended", "became"} =>
          worker' \in {"reply", "exit", "ended", "became"}
    BY <1>1 DEF Moves
  <2>2. worker \in {"exit", "ended"} => worker' \in {"exit", "ended"}
    BY <1>1 DEF Moves
  <2> QED BY <2>1, <2>2 DEF ResponseInv, TlsInv, Status
<1>6. ResponseOrdered'
  BY DEF ResponseInv, ResponseOrdered, Garbage
<1> QED BY <1>2, <1>3, <1>4, <1>5, <1>6 DEF ResponseInv

LEMMA SendStatusStep ==
  ASSUME TypeOK, ResponseInv, SendStatus
  PROVE  ResponseInv'
<1>1. /\ UNCHANGED <<https, post, wrote, chunk, pipe, program>>
      /\ worker = "status" /\ response = <<>>
  BY DEF SendStatus, WorkerStep, request, ResponseInv, StatusInv, Before
<1>2. CASE Goes /\ response' = Append(response, Status)
  <2>1. worker' \in {"redirect", "pipe", "fork"}
        /\ (worker' = "redirect" => post) /\ (worker' = "pipe" => ~post /\ https)
    BY <1>1, <1>2, GoesMoves DEF Moves
  <2>2. response' = <<Status>> /\ response' # <<>> /\ Len(response') = 1
        /\ response'[1] = 0
    BY <1>1, <1>2 DEF Status
  <2>3. BranchInv' /\ StatusInv'
    BY <1>1, <2>1, <2>2 DEF BranchInv, StatusInv, Before
  <2>4. wrote \in Nat /\ (~https => wrote = 0)
    BY <1>1 DEF ResponseInv, PlainInv, TypeOK
  <2>5. PlainInv'
    BY <1>1, <2>2, <2>4 DEF PlainInv
  <2>6. TlsInv'
    BY <1>1, <2>2 DEF ResponseInv, TlsInv, Status
  <2>7. ResponseOrdered'
    BY <2>2 DEF ResponseOrdered
  <2> QED BY <2>3, <2>5, <2>6, <2>7 DEF ResponseInv
<1>3. CASE WorkerEnds /\ UNCHANGED response
  BY <1>1, <1>3, OutputFrame DEF WorkerEnds
<1>4. CASE https /\ Goes /\ UNCHANGED response
  <2>1. worker' \in {"redirect", "pipe"}
        /\ (worker' = "redirect" => post) /\ (worker' = "pipe" => ~post)
    BY <1>1, <1>4, GoesMoves DEF Moves
  <2>2. BranchInv' /\ StatusInv' /\ PlainInv'
    BY <1>1, <1>4, <2>1 DEF BranchInv, StatusInv, PlainInv, Before
  <2>3. TlsInv' /\ ResponseOrdered'
    BY <1>1, <1>4 DEF ResponseInv, TlsInv, ResponseOrdered, Status
  <2> QED BY <2>2, <2>3 DEF ResponseInv
<1> QED BY <1>2, <1>3, <1>4 DEF SendStatus

LEMMA ReadOutputStep ==
  ASSUME TypeOK, ResponseInv, ReadOutput
  PROVE  ResponseInv'
<1>1. /\ UNCHANGED <<https, post, wrote, program, response>>
      /\ worker = "read" /\ https
  BY DEF ReadOutput, WorkerStep, request, ResponseInv, BranchInv
<1>2. worker' = "reply"
  <2>1. Goes
    BY DEF ReadOutput
  <2> QED BY <1>1, <2>1, GoesMoves DEF Moves
<1>3. \A i \in 1..Len(chunk') : chunk'[i] = i
  <2>1. /\ \A i \in 1..Len(pipe["out"]) : pipe["out"][i] = i
        /\ \A i \in 1..Len(chunk) : chunk[i] = i
    BY <1>1 DEF ResponseInv, TlsInv
  <2>2. pipe["out"] \in Seq(Nat)
    BY DEF TypeOK, Pipes
  <2>3. ASSUME NEW n \in 1..Len(pipe["out"])
        PROVE  LET s == SubSeq(pipe["out"], 1, n)
               IN Len(s) = n /\ \A i \in 1..n : s[i] = pipe["out"][i]
    BY <2>2
  <2>4. \/ \E n \in 1..Len(pipe["out"]) : chunk' = SubSeq(pipe["out"], 1, n)
        \/ chunk' = chunk
    BY DEF ReadOutput
  <2>5. ASSUME NEW n \in 1..Len(pipe["out"]), chunk' = SubSeq(pipe["out"], 1, n)
        PROVE  \A i \in 1..Len(chunk') : chunk'[i] = i
    BY <2>1, <2>2, <2>3, <2>5
  <2> QED BY <2>1, <2>4, <2>5
<1>4. BranchInv' /\ StatusInv' /\ PlainInv'
  BY <1>1, <1>2 DEF BranchInv, StatusInv, PlainInv, Before
<1>5. TlsInv' /\ ResponseOrdered'
  BY <1>1, <1>2, <1>3 DEF ResponseInv, TlsInv, ResponseOrdered, Status
<1> QED BY <1>4, <1>5 DEF ResponseInv

LEMMA ReplyStep ==
  ASSUME TypeOK, ResponseInv, Reply
  PROVE  ResponseInv'
<1>1. /\ UNCHANGED <<https, post, wrote, program, chunk, pipe>>
      /\ worker = "reply" /\ https
  BY DEF Reply, WorkerStep, request, ResponseInv, BranchInv
<1>2. CASE WorkerEnds /\ UNCHANGED response
  BY <1>1, <1>2, OutputFrame DEF WorkerEnds
<1>3. ASSUME Goes, ResponseOrdered'
      PROVE  ResponseInv'
  <2>1. worker' = "exit"
    BY <1>1, <1>3, GoesMoves DEF Moves
  <2>2. BranchInv' /\ StatusInv' /\ PlainInv' /\ TlsInv'
    BY <1>1, <2>1 DEF ResponseInv, BranchInv, StatusInv, PlainInv, TlsInv, Before
  <2> QED BY <1>3, <2>2 DEF ResponseInv
<1>4. CASE Goes /\ UNCHANGED response
  <2>1. ResponseOrdered'
    BY <1>1, <1>4 DEF ResponseInv, ResponseOrdered, Garbage
  <2> QED BY <1>3, <1>4, <2>1
<1>5. ASSUME response # <<>>, Goes, NEW n \in 0..Len(chunk),
             \/ response' = response \o SubSeq(chunk, 1, n)
             \/ ~post /\ response' = Append(response \o SubSeq(chunk, 1, n), Garbage)
      PROVE  ResponseInv'
  <2> DEFINE part == SubSeq(chunk, 1, n)
             s == response \o part
  <2>1. response = <<Status>> /\ \A i \in 1..Len(chunk) : chunk[i] = i
    BY <1>1, <1>5 DEF ResponseInv, TlsInv
  <2>2. chunk \in Seq(Nat) /\ response \in Seq(Nat) /\ Garbage \in Nat
    BY CgiAssumption DEF TypeOK, Garbage
  <2>7. part \in Seq(Nat) /\ Len(part) = n /\ \A i \in 1..Len(part) : part[i] = i
    BY <2>1, <2>2
  <2> HIDE DEF part
  <2>3. /\ s \in Seq(Nat) /\ Len(s) = Len(part) + 1
        /\ \A i \in 1..Len(s) : s[i] = i - 1
    BY <2>1, <2>2, <2>7 DEF Status
  <2> HIDE DEF s
  <2>4. LET t == Append(s, Garbage)
        IN /\ Len(t) = Len(s) + 1 /\ t[Len(s) + 1] = Garbage
           /\ \A i \in 1..Len(s) : t[i] = s[i]
    BY <2>2, <2>3
  <2>5. CASE response' = s
    <3>1. ResponseOrdered'
      BY <2>3, <2>5 DEF ResponseOrdered
    <3> QED BY <1>3, <1>5, <3>1
  <2>6. CASE ~post /\ response' = Append(s, Garbage)
    <3>1. /\ Len(response') = Len(s) + 1 /\ response'[Len(s) + 1] = Garbage
          /\ \A i \in 1..Len(s) : response'[i] = i - 1
      BY <2>3, <2>4, <2>6
    <3>2. https' /\ ~post' /\ Garbage' = Garbage /\ Len(s) \in Nat
      BY <1>1, <2>3, <2>6 DEF Garbage
    <3>3. ResponseOrdered'
      BY <3>1, <3>2 DEF ResponseOrdered
    <3> QED BY <1>3, <1>5, <3>3
  <2> QED BY <1>5, <2>5, <2>6 DEF s, part
<1>6. Len(chunk) \in 0..Len(chunk) /\ SubSeq(chunk, 1, Len(chunk)) = chunk
  BY DEF TypeOK
<1>7. \/ WorkerEnds /\ UNCHANGED response
      \/ Goes /\ UNCHANGED response
      \/ /\ response # <<>> /\ Goes
         /\ \/ \E n \in 0..Len(chunk) : response' = response \o SubSeq(chunk, 1, n)
            \/ ~post /\ response' = Append(response \o SubSeq(chunk, 1, Len(chunk)), Garbage)
  BY <1>6 DEF Reply
<1> QED BY <1>2, <1>4, <1>5, <1>6, <1>7

LEMMA ProgramWritesStep ==
  ASSUME TypeOK, ResponseInv, ProgramWrites
  PROVE  ResponseInv'
<1>1. /\ UNCHANGED <<https, post, worker, program, chunk>>
      /\ program = "runs" /\ wrote' = wrote + 1 /\ wrote \in Nat
  BY DEF ProgramWrites, ProgramStep, request, TypeOK
<1>2. BranchInv'
  BY <1>1 DEF ResponseInv, BranchInv
<1>3. CASE ~https /\ response' = Append(response, wrote + 1)
  <2>1. response # <<>> /\ Len(response) = wrote + 1 /\ response \in Seq(Nat)
    BY <1>1, <1>3 DEF ResponseInv, StatusInv, PlainInv, TypeOK
  <2>2. /\ Len(response') = wrote + 2 /\ response'[wrote + 2] = wrote + 1
        /\ \A i \in 1..(wrote + 1) : response'[i] = response[i]
        /\ response' # <<>>
    BY <1>1, <1>3, <2>1
  <2>3. StatusInv'
    BY <1>1, <1>3, <2>1, <2>2 DEF ResponseInv, StatusInv, Before
  <2>4. PlainInv' /\ TlsInv'
    BY <1>1, <1>3, <2>2 DEF PlainInv, TlsInv
  <2>5. \A i \in 1..(wrote + 1) : response[i] = i - 1
    BY <1>3, <2>1 DEF ResponseInv, ResponseOrdered
  <2>6. ResponseOrdered'
    <3>1. \A i \in 1..(wrote + 2) : response'[i] = i - 1
      <4> SUFFICES ASSUME NEW i \in 1..(wrote + 2)
                   PROVE  response'[i] = i - 1
        OBVIOUS
      <4>1. i \in 1..(wrote + 1) \/ i = wrote + 2
        BY <1>1
      <4> QED BY <1>1, <2>2, <2>5, <4>1
    <3> QED BY <2>2, <3>1 DEF ResponseOrdered
  <2> QED BY <1>2, <2>3, <2>4, <2>6 DEF ResponseInv
<1>4. CASE /\ https /\ UNCHANGED response
           /\ pipe' = [pipe EXCEPT !["out"] = Append(@, wrote + 1)]
  <2> DEFINE q == pipe["out"]
  <2>1. q \in Seq(Nat) /\ pipe'["out"] = Append(q, wrote + 1)
    BY <1>4 DEF TypeOK, Pipes
  <2>2. /\ Len(pipe'["out"]) = Len(q) + 1 /\ pipe'["out"][Len(q) + 1] = wrote + 1
        /\ \A i \in 1..Len(q) : pipe'["out"][i] = q[i]
    BY <1>1, <2>1
  <2>3. ASSUME worker \notin {"reply", "exit", "ended", "became"}
        PROVE  /\ Len(pipe'["out"]) = wrote'
               /\ \A i \in 1..Len(pipe'["out"]) : pipe'["out"][i] = i
    <3>1. Len(q) = wrote /\ \A i \in 1..Len(q) : q[i] = i
      BY <1>4, <2>3 DEF ResponseInv, TlsInv
    <3> HIDE DEF q
    <3> QED BY <1>1, <2>2, <3>1
  <2>4. TlsInv'
    BY <1>1, <1>4, <2>3 DEF ResponseInv, TlsInv, Status
  <2>5. StatusInv' /\ PlainInv' /\ ResponseOrdered'
    BY <1>1, <1>4 DEF ResponseInv, StatusInv, PlainInv, ResponseOrdered, Before,
       Garbage
  <2> QED BY <1>2, <2>4, <2>5 DEF ResponseInv
<1> QED BY <1>3, <1>4 DEF ProgramWrites

LEMMA ResponseStep ==
  ASSUME TypeOK, ResponseInv, [Next]_vars
  PROVE  ResponseInv'
<1>1. CASE MakePipe \/ ForkFeeder \/ CloseEnd \/ ForkProgram \/ Exec \/ WorkerExit
  <2>1. UNCHANGED <<https, post, response, wrote, chunk, pipe>>
    BY <1>1 DEF MakePipe, ForkFeeder, CloseEnd, ForkProgram, Exec, WorkerExit,
       WorkerStep, request
  <2>2. \/ worker' = "ended" /\ (program' = program \/ program' = "failed")
        \/ /\ Goes /\ worker \notin {"status", "read", "reply"}
           /\ program' = program \/ worker = "fork"
        \/ worker = "exec" /\ worker' = "became"
    BY <1>1 DEF MakePipe, ForkFeeder, CloseEnd, ForkProgram, Exec, WorkerExit,
       Forks, WorkerEnds
  <2> QED BY <2>1, <2>2, OutputFrame
<1>2. CASE HandleSigchld
  <2>1. UNCHANGED <<https, post, response, wrote, chunk, pipe, program>>
        /\ (worker' = worker \/ worker' = "ended")
    BY <1>2 DEF HandleSigchld, WorkerStep, WorkerEnds, request
  <2> QED BY <2>1, OutputFrame
<1>3. CASE Feeder
  <2>1. UNCHANGED <<https, post, response, wrote, chunk, program, worker>>
    BY <1>3 DEF Feeder, FeederStep, request, FeederCloses, FeederReads,
       FeederTakes, FeederWrites, FeederExit
  <2>2. pipe'["out"] = pipe["out"]
    BY <1>3 DEF Feeder, FeederCloses, FeederReads, FeederTakes, FeederWrites,
       FeederExit, TypeOK, Pipes
  <2> QED BY <2>1, <2>2, OutputFrame
<1>4. CASE StartProgram \/ ProgramReads \/ ProgramEnds
  <2>1. /\ UNCHANGED <<https, post, response, wrote, chunk, worker>>
        /\ program' = program \/ program = "start" \/ program' = "ended"
    BY <1>4 DEF StartProgram, ProgramReads, ProgramEnds, ProgramStep, request
  <2>2. pipe'["out"] = pipe["out"]
    BY <1>4 DEF StartProgram, ProgramReads, ProgramEnds, TypeOK, Pipes
  <2> QED BY <2>1, <2>2, OutputFrame
<1>5. CASE Arrive \/ Leave \/ UNCHANGED vars
  <2>1. UNCHANGED <<https, post, response, wrote, chunk, worker, pipe, program>>
    BY <1>5 DEF Arrive, Leave, vars, request
  <2> QED BY <2>1, OutputFrame
<1> QED
  BY <1>1, <1>2, <1>3, <1>4, <1>5, SendStatusStep, ReadOutputStep, ReplyStep,
     ProgramWritesStep DEF Next, Worker, Program

\* The client gets the status line and then the output, from its beginning and
\* in order (mini_httpd_helper.c:425-470, 272-314).
THEOREM ResponseInOrder == Spec => []ResponseOrdered
<1>1. Init => TypeOK /\ ResponseInv
  BY TypeInit, ResponseInit
<1>2. TypeOK /\ ResponseInv /\ [Next]_vars => (TypeOK /\ ResponseInv)'
  BY TypeStep, ResponseStep
<1>3. ResponseInv => ResponseOrdered
  BY DEF ResponseInv
<1> QED BY <1>1, <1>2, <1>3, PTL DEF Spec

-----------------------------------------------------------------------------
(***************************************************************************)
(* One gateway: every step of worker, feeder, program and client is a step *)
(* of Gateway or none.                                                     *)
(***************************************************************************)

\* Where the worker is before its program is there, that nobody else writes
\* output, and that what the worker has read of it was written.
GateInv ==
  /\ worker \in {"pipe", "feed", "status", "redirect", "outpipe", "fork", "exec"}
       => program = "none"
  /\ program \in {"none", "start"} => wrote = 0
  /\ Len(chunk) <= wrote

LEMMA GateInit ==
  ASSUME Init
  PROVE  GateInv
BY DEF Init, GateInv

LEMMA GateStep ==
  ASSUME TypeOK, ResponseInv, GateInv, [Next]_vars
  PROVE  GateInv'
<1> DEFINE Early == {"pipe", "feed", "status", "redirect", "outpipe", "fork", "exec"}
<1>1. Goes => (worker' \in Early => worker \in Early \ {"fork"})
  BY GoesMoves DEF Moves
<1>2. CASE \/ MakePipe \/ ForkFeeder \/ CloseEnd \/ WorkerExit \/ SendStatus \/ Reply
           \/ HandleSigchld
  <2>1. /\ UNCHANGED <<program, chunk, wrote>>
        /\ Goes \/ worker' = worker \/ worker' = "ended"
    BY <1>2 DEF MakePipe, ForkFeeder, CloseEnd, WorkerExit, SendStatus, Reply,
       HandleSigchld, WorkerStep, WorkerEnds, Forks
  <2> QED BY <1>1, <2>1 DEF GateInv
<1>3. CASE ForkProgram
  <2>1. /\ UNCHANGED <<chunk, wrote>> /\ worker = "fork"
        /\ Goes \/ worker' = "ended"
    BY <1>3 DEF ForkProgram, WorkerStep, WorkerEnds, Forks
  <2> QED BY <1>1, <2>1 DEF GateInv
<1>4. CASE Exec
  BY <1>4 DEF Exec, WorkerStep, WorkerEnds, GateInv
<1>5. CASE ReadOutput
  <2>1. worker = "read" /\ UNCHANGED <<program, wrote>> /\ Goes /\ https
    BY <1>5 DEF ReadOutput, WorkerStep, ResponseInv, BranchInv
  <2>2. Len(pipe["out"]) = wrote /\ pipe["out"] \in Seq(Nat)
    BY <2>1 DEF ResponseInv, TlsInv, TypeOK, Pipes
  <2>3. \A n \in 1..Len(pipe["out"]) : Len(SubSeq(pipe["out"], 1, n)) = n
    BY <2>2
  <2>4. \/ \E n \in 1..Len(pipe["out"]) : chunk' = SubSeq(pipe["out"], 1, n)
        \/ chunk' = chunk
    BY <1>5 DEF ReadOutput
  <2>5. Len(chunk') <= wrote
    BY <2>2, <2>3, <2>4 DEF GateInv
  <2> QED BY <1>1, <2>1, <2>5 DEF GateInv
<1>6. CASE Feeder
  BY <1>6 DEF Feeder, FeederStep, FeederCloses, FeederReads, FeederTakes,
     FeederWrites, FeederExit, GateInv
<1>7. CASE StartProgram \/ Program
  <2>1. /\ UNCHANGED <<worker, chunk>> /\ program # "none"
        /\ wrote' = wrote \/ wrote' = wrote + 1
    BY <1>7 DEF StartProgram, Program, ProgramStep, ProgramReads, ProgramWrites,
       ProgramEnds
  <2>2. /\ wrote \in Nat /\ wrote' \in Nat
        /\ chunk' = chunk /\ Len(chunk) \in Nat /\ Len(chunk) <= wrote
    BY <2>1 DEF TypeOK, GateInv
  <2>3. Len(chunk') <= wrote'
    BY <2>1, <2>2
  <2>4. program' \notin {"none", "start"}
    BY <1>7 DEF StartProgram, Program, ProgramStep, ProgramReads, ProgramWrites,
       ProgramEnds
  <2> QED BY <2>1, <2>3, <2>4 DEF GateInv
<1>8. CASE Arrive \/ Leave \/ UNCHANGED vars
  BY <1>8 DEF Arrive, Leave, vars, GateInv
<1> QED
  BY <1>2, <1>3, <1>4, <1>5, <1>6, <1>7, <1>8 DEF Next, Worker, Program

\* What the client has been sent is the status line and the beginning of the
\* output when it is consecutive numbers.
LEMMA OutputIs ==
  ASSUME NEW s \in Seq(Nat), \A i \in 1..Len(s) : s[i] = i
  PROVE  s = G!Output(Len(s))
<1>1. Len(s) \in Nat /\ s = [i \in 1..Len(s) |-> s[i]]
  OBVIOUS
<1>2. [i \in 1..Len(s) |-> s[i]] = [i \in 1..Len(s) |-> i]
  OBVIOUS
<1> QED BY <1>1, <1>2 DEF G!Output

LEMMA PlainResponse ==
  ASSUME TypeOK, ResponseInv, ~https, response # <<>>
  PROVE  response = <<G!StatusLine>> \o G!Output(wrote)
<1>1. response \in Seq(Nat) /\ wrote \in Nat /\ Len(response) = wrote + 1
  BY DEF TypeOK, ResponseInv, PlainInv
<1>2. \A i \in 1..(wrote + 1) : response[i] = i - 1
  BY <1>1 DEF ResponseInv, ResponseOrdered
<1> DEFINE o == G!Output(wrote)
           r == <<0>> \o o
<1>3. o \in Seq(Nat) /\ Len(o) = wrote /\ \A i \in 1..wrote : o[i] = i
  BY <1>1 DEF G!Output
<1> HIDE DEF o
<1>4. /\ r \in Seq(Nat) /\ Len(r) = wrote + 1
      /\ \A i \in 1..(wrote + 1) : r[i] = IF i = 1 THEN 0 ELSE o[i - 1]
  BY <1>1, <1>3
<1>5. \A i \in 1..(wrote + 1) : r[i] = i - 1
  <2> SUFFICES ASSUME NEW i \in 1..(wrote + 1)
      PROVE  (IF i = 1 THEN 0 ELSE o[i - 1]) = i - 1
    BY <1>4
  <2>1. i = 1 \/ i - 1 \in 1..wrote
    BY <1>1
  <2> QED BY <1>3, <2>1
<1> HIDE DEF r
<1>6. response = r
  BY <1>1, <1>2, <1>4, <1>5
<1> QED BY <1>6 DEF r, o, G!StatusLine

\* Steps that neither run nor feed a program, nor send anything.
Quiet == UNCHANGED <<https, post, length, Phase, input, wrote, response>>

LEMMA QuietStep == Quiet => UNCHANGED G!gvars
BY DEF Quiet, G!gvars, G!demand

LEMMA QuietActions ==
  ASSUME TypeOK, GateInv,
         \/ MakePipe \/ ForkFeeder \/ ForkProgram \/ CloseEnd \/ ReadOutput
         \/ WorkerExit \/ HandleSigchld \/ Feeder \/ Arrive \/ Leave \/ UNCHANGED vars
  PROVE  Quiet
<1>1. CASE \/ MakePipe \/ ForkFeeder \/ CloseEnd \/ ReadOutput \/ WorkerExit
           \/ HandleSigchld
  BY <1>1 DEF Quiet, Phase, MakePipe, ForkFeeder, CloseEnd, ReadOutput, WorkerExit,
     HandleSigchld, WorkerStep, request
<1>2. CASE ForkProgram
  <2>1. /\ UNCHANGED <<request, input, wrote, response>> /\ program = "none"
        /\ program' \in {"start", "none"}
    BY <1>2 DEF ForkProgram, WorkerStep, GateInv
  <2> QED BY <2>1 DEF Quiet, Phase, request
<1>3. CASE Feeder
  BY <1>3 DEF Quiet, Phase, Feeder, FeederStep, FeederCloses, FeederReads,
     FeederTakes, FeederWrites, FeederExit, request
<1>4. CASE Arrive \/ Leave \/ UNCHANGED vars
  BY <1>4 DEF Quiet, Phase, Arrive, Leave, vars, request
<1> QED BY <1>1, <1>2, <1>3, <1>4

LEMMA AnnounceStep ==
  ASSUME TypeOK, ResponseInv, GateInv, SendStatus
  PROVE  G!Announce \/ Quiet
<1>1. /\ UNCHANGED <<request, input, wrote, program>>
      /\ worker = "status" /\ program = "none" /\ response = <<>>
      /\ response' = Append(response, Status) \/ UNCHANGED response
  BY DEF SendStatus, WorkerStep, GateInv, ResponseInv, StatusInv, Before
<1>2. Phase = "before" /\ Phase' = Phase
  BY <1>1 DEF Phase
<1>3. Append(<<>>, Status) = <<G!StatusLine>>
  BY DEF Status, G!StatusLine
<1> QED BY <1>1, <1>2, <1>3 DEF G!Announce, G!demand, Quiet, request

LEMMA RunStep ==
  ASSUME TypeOK, ResponseInv, GateInv, Exec \/ StartProgram
  PROVE  G!Run \/ G!End
<1>1. /\ UNCHANGED <<request, input, wrote, response>>
      /\ program \in {"none", "start"} /\ program' \in {"runs", "failed"}
      /\ worker = "exec" \/ program = "start"
  BY DEF Exec, StartProgram, WorkerStep, ProgramStep, GateInv
<1>2. Phase = "before" /\ Phase' = IF program' = "runs" THEN "runs" ELSE "over"
  BY <1>1 DEF Phase
<1>3. ~https => response = <<G!StatusLine>>
  <2> SUFFICES ASSUME ~https
      PROVE  response = <<G!StatusLine>>
    OBVIOUS
  <2>1. response # <<>> /\ wrote = 0
    BY <1>1 DEF ResponseInv, BranchInv, StatusInv, GateInv
  <2>2. response = <<G!StatusLine>> \o G!Output(0)
    BY <2>1, PlainResponse
  <2>3. G!Output(0) = <<>>
    BY DEF G!Output
  <2> DEFINE head == <<G!StatusLine>>
  <2>4. head \in Seq(Nat)
    BY DEF G!StatusLine
  <2> HIDE DEF head
  <2>5. head \o <<>> = head
    BY <2>4
  <2> QED BY <2>2, <2>3, <2>5 DEF head
<1> QED BY <1>1, <1>2, <1>3 DEF G!Run, G!End, G!demand, request

LEMMA ForwardStep ==
  ASSUME TypeOK, ResponseInv, GateInv, Reply
  PROVE  G!Forward \/ Quiet
<1> DEFINE part(n) == SubSeq(chunk, 1, n)
<1>1. /\ UNCHANGED <<request, input, wrote, program>> /\ https /\ Phase' = Phase
      /\ \/ response # <<>> /\ \E n \in 0..Len(chunk) : response' = response \o part(n)
         \/ ~post /\ response # <<>> /\ response' = Append(response \o chunk, Garbage)
         \/ UNCHANGED response
  BY DEF Reply, WorkerStep, WorkerEnds, ResponseInv, BranchInv, Phase
<1>2. CASE UNCHANGED response
  BY <1>1, <1>2 DEF Quiet, request
<1>3. chunk \in Seq(Nat) /\ Len(chunk) \in 0..wrote /\ wrote \in Nat
  BY DEF GateInv, TypeOK
<1>4. \A i \in 1..Len(chunk) : chunk[i] = i
  BY <1>1 DEF ResponseInv, TlsInv
<1>5. ASSUME NEW n \in 0..Len(chunk), response # <<>>,
             response' = response \o part(n) \/ (~post /\ response' = Append(response \o part(n), Garbage))
      PROVE  G!Forward
  <2>1. response = <<G!StatusLine>>
    BY <1>1, <1>5 DEF Reply, ResponseInv, TlsInv, Status, G!StatusLine
  <2>2. /\ part(n) \in Seq(Nat) /\ Len(part(n)) = n
        /\ \A i \in 1..n : part(n)[i] = i
    BY <1>3, <1>4
  <2> HIDE DEF part
  <2>3. part(n) = G!Output(n)
    BY <2>2, OutputIs
  <2>4. \/ response' = response \o G!Output(n)
        \/ ~post /\ response' = Append(response \o G!Output(n), G!Remainder)
    BY <1>5, <2>3 DEF Garbage, G!Remainder
  <2>5. n \in 0..wrote
    BY <1>3
  <2> QED BY <1>1, <2>1, <2>4, <2>5 DEF G!Forward, G!demand, request
<1>6. Len(chunk) \in 0..Len(chunk) /\ part(Len(chunk)) = chunk
  BY <1>3
<1> QED BY <1>1, <1>2, <1>5, <1>6

LEMMA GiveStep ==
  ASSUME TypeOK, InputIntact', ProgramReads
  PROVE  G!Give
<1>1. /\ UNCHANGED <<request, wrote, response, program>> /\ program = "runs"
      /\ input' = Append(input, Head(pipe["in"])) /\ pipe["in"] # <<>>
  BY DEF ProgramReads, ProgramStep
<1>2. Phase = "runs" /\ Phase' = Phase
  BY <1>1 DEF Phase
<1> DEFINE piece == Head(pipe["in"])
<1>3. input \in Seq(Nat) /\ piece \in Nat
  BY <1>1 DEF TypeOK, Pipes
<1> HIDE DEF piece
<1>4. /\ input' = Append(input, piece) /\ Len(input') = Len(input) + 1
      /\ input'[Len(input) + 1] = piece /\ Len(input) \in Nat
  BY <1>1, <1>3 DEF piece
<1>5. length' = length /\ length \in Nat
  BY <1>1 DEF request, TypeOK
<1>6. Len(input) < length /\ piece \in {Len(input) + 1, G!Lacking}
  BY <1>4, <1>5 DEF InputIntact, Pad, G!Lacking
<1> QED BY <1>1, <1>2, <1>4, <1>6 DEF G!Give, G!demand, request

LEMMA MakeStep ==
  ASSUME TypeOK, ResponseInv, ProgramWrites
  PROVE  G!Make
<1>1. /\ UNCHANGED <<request, input, program>> /\ program = "runs"
      /\ wrote < MaxOut /\ wrote' = wrote + 1
      /\ IF https THEN UNCHANGED response ELSE response' = Append(response, wrote + 1)
  BY DEF ProgramWrites, ProgramStep
<1>2. Phase = "runs" /\ Phase' = Phase
  BY <1>1 DEF Phase
<1>3. ~https => response = <<G!StatusLine>> \o G!Output(wrote)
  <2>1. ~https => response # <<>>
    BY <1>1 DEF ResponseInv, StatusInv
  <2> QED BY <2>1, PlainResponse
<1> QED BY <1>1, <1>2, <1>3 DEF G!Make, G!demand, request

LEMMA EndStep ==
  ASSUME ProgramEnds
  PROVE  G!End
<1>1. /\ UNCHANGED <<request, input, wrote, response>>
      /\ program = "runs" /\ program' = "ended"
  BY DEF ProgramEnds, ProgramStep
<1>2. Phase = "runs" /\ Phase' = "over"
  BY <1>1 DEF Phase
<1> QED BY <1>1, <1>2 DEF G!End, G!demand, request

LEMMA Simulates ==
  ASSUME TypeOK, ResponseInv, GateInv, InputIntact', [Next]_vars
  PROVE  [G!GNext]_G!gvars
<1>1. CASE \/ MakePipe \/ ForkFeeder \/ ForkProgram \/ CloseEnd \/ ReadOutput
           \/ WorkerExit \/ HandleSigchld \/ Feeder \/ Arrive \/ Leave \/ UNCHANGED vars
  BY <1>1, QuietActions, QuietStep
<1>2. CASE SendStatus
  BY <1>2, AnnounceStep, QuietStep DEF G!GNext
<1>3. CASE Exec \/ StartProgram
  BY <1>3, RunStep DEF G!GNext
<1>4. CASE Reply
  BY <1>4, ForwardStep, QuietStep DEF G!GNext
<1>5. CASE Program
  BY <1>5, GiveStep, MakeStep, EndStep DEF Program, G!GNext
<1> QED BY <1>1, <1>2, <1>3, <1>4, <1>5 DEF Next, Worker

\* Worker, feeder and program together are one gateway: the status line before
\* any program runs, one program, its input and the response piece by piece and
\* in order (mini_httpd_helper.c:222-314, 417-470).
THEOREM Refinement == Spec => OneGateway
<1> DEFINE Inv == TypeOK /\ InputInv /\ ResponseInv /\ GateInv
<1>1. Init => Inv /\ G!GInit
  <2> SUFFICES ASSUME Init
      PROVE  Inv /\ G!GInit
    OBVIOUS
  <2>1. Inv
    BY TypeInit, InputInit, ResponseInit, GateInit
  <2>2. length \in Nat /\ https \in BOOLEAN /\ post \in BOOLEAN
    BY <2>1 DEF TypeOK
  <2>3. Phase = "before"
    BY DEF Init, Phase
  <2> QED BY <2>1, <2>2, <2>3 DEF Init, G!GInit
<1>2. Inv /\ [Next]_vars => Inv'
  BY TypeStep, InputStep, ResponseStep, GateStep
<1>3. Inv /\ InputIntact' /\ [Next]_vars => [G!GNext]_G!gvars
  BY Simulates
<1>4. Spec => []InputIntact
  BY InputDelivered
<1> HIDE DEF Inv
<1> QED BY <1>1, <1>2, <1>3, <1>4, PTL DEF Spec, OneGateway, G!GSpec

-----------------------------------------------------------------------------
(***************************************************************************)
(* Who holds the write ends: what a read that waits for end-of-file waits  *)
(* for.                                                                    *)
(***************************************************************************)

\* A child holds its own pipe as long as it lives; the worker holds each
\* for a part of its way.
WritersInv ==
  /\ "feeder" \in writers["in"] => feeder \notin {"none", "ended"}
  /\ "program" \in writers["out"] => program \in {"start", "runs"}
  /\ "program" \notin writers["in"] /\ "feeder" \notin writers["out"]
  /\ "worker" \in writers["in"] => post /\ worker \in {"feed", "status", "redirect"}
  /\ "worker" \in writers["out"] =>
       /\ https
       /\ worker \in IF post THEN {"fork", "read", "reply", "exit"} ELSE {"fork", "close"}

LEMMA WritersInit ==
  ASSUME Init
  PROVE  WritersInv
BY DEF Init, WritersInv, Pipes

\* A step that changes no end, and neither a worker's place nor the life of
\* a child for the worse.
LEMMA WritersFrame ==
  ASSUME WritersInv, UNCHANGED <<https, post, worker, writers>>,
         feeder \notin {"none", "ended"} => feeder' \notin {"none", "ended"},
         program \in {"start", "runs"} => program' \in {"start", "runs"}
  PROVE  WritersInv'
BY DEF WritersInv

\* The end of a child, which closes what it holds.
LEMMA WritersChild ==
  ASSUME TypeOK, WritersInv, UNCHANGED <<https, post, worker>>,
         NEW p \in Children, writers' = Drop(writers, p),
         p # "feeder" => feeder' = feeder, p # "program" => program' = program
  PROVE  WritersInv'
<1>1. \A k \in Pipes : writers'[k] = writers[k] \ {p}
  BY DEF Drop
<1> QED BY <1>1 DEF WritersInv, Pipes, Children

\* The end of the worker.
LEMMA WritersLast ==
  ASSUME TypeOK, WritersInv, GateInv, UNCHANGED <<https, post, feeder>>, WorkerEnds,
         program' = program \/ worker = "exec"
  PROVE  WritersInv'
<1>1. \A k \in Pipes : writers'[k] = writers[k] \ {"worker"}
  BY DEF WorkerEnds, Drop
<1>2. worker = "exec" => program = "none"
  BY DEF GateInv
<1> QED BY <1>1, <1>2 DEF WritersInv, Pipes

LEMMA WritersWorker ==
  ASSUME TypeOK, GateInv, WritersInv, Worker \/ HandleSigchld
  PROVE  WritersInv'
<1>1. UNCHANGED <<https, post>>
  BY DEF Worker, HandleSigchld, WorkerStep, request, MakePipe, ForkFeeder, SendStatus,
         CloseEnd, ForkProgram, Exec, ReadOutput, Reply, WorkerExit
<1>2. CASE WorkerEnds
  <2>1. worker' = "ended" /\ ~Goes
    BY <1>2, GoesMoves DEF WorkerEnds, Moves
  <2>2. ~Forks("feeder") /\ ~Forks("program")
    BY <2>1 DEF Forks
  <2>3. UNCHANGED feeder /\ (program' = program \/ worker = "exec")
    BY <2>2 DEF Worker, HandleSigchld, MakePipe, ForkFeeder, SendStatus, CloseEnd,
                ForkProgram, Exec, ReadOutput, Reply, WorkerExit
  <2> QED BY <1>1, <1>2, <2>3, WritersLast
<1>3. Goes => Moves /\ worker' # "ended"
  BY GoesMoves DEF Moves
<1>4. CASE MakePipe /\ ~WorkerEnds
  <2>1. PICK k \in Pipes : /\ k = (IF post /\ worker = "pipe" THEN "in" ELSE "out")
                           /\ writers' = [writers EXCEPT ![k] = {"worker"}]
    BY <1>4 DEF MakePipe, Pipes
  <2>2. /\ worker \in {"pipe", "outpipe"} /\ Moves /\ UNCHANGED <<feeder, program>>
    BY <1>3, <1>4 DEF MakePipe
  <2>3. writers'[k] = {"worker"} /\ \A j \in Pipes \ {k} : writers'[j] = writers[j]
    BY <2>1 DEF TypeOK
  <2>4. CASE k = "in"
    <3>1. post /\ worker' = "feed" /\ writers'["out"] = writers["out"]
      BY <2>1, <2>2, <2>3, <2>4 DEF Moves, Pipes
    <3> QED BY <1>1, <2>1, <2>2, <2>3, <2>4, <3>1 DEF WritersInv
  <2>5. CASE k = "out"
    <3>1. https /\ worker' = "fork" /\ writers'["in"] = writers["in"]
      BY <2>1, <2>2, <2>3, <2>5 DEF Moves, Pipes
    <3> QED BY <1>1, <2>1, <2>2, <2>3, <2>5, <3>1 DEF WritersInv
  <2> QED BY <2>1, <2>4, <2>5
<1>5. CASE ForkFeeder /\ ~WorkerEnds
  <2>1. worker = "feed" /\ Moves /\ feeder' = "close" /\ UNCHANGED program
        /\ writers' = Copy(writers, "worker", "feeder")
    BY <1>3, <1>5 DEF ForkFeeder, Forks
  <2>2. \A k \in Pipes : writers'[k] = IF "worker" \in writers[k]
                                       THEN writers[k] \cup {"feeder"} ELSE writers[k]
    BY <2>1 DEF Copy
  <2>3. post /\ worker' = "status" /\ "worker" \notin writers["out"]
    BY <2>1 DEF Moves, WritersInv
  <2> QED BY <1>1, <2>1, <2>2, <2>3 DEF WritersInv, Pipes
<1>6. CASE ForkProgram /\ ~WorkerEnds
  <2>1. worker = "fork" /\ Moves /\ program' = "start" /\ UNCHANGED feeder
        /\ writers' = Copy(writers, "worker", "program")
    BY <1>3, <1>6 DEF ForkProgram, Forks
  <2>2. \A k \in Pipes : writers'[k] = IF "worker" \in writers[k]
                                       THEN writers[k] \cup {"program"} ELSE writers[k]
    BY <2>1 DEF Copy
  <2>3. "worker" \notin writers["in"]
        /\ (https => worker' = IF post THEN "read" ELSE "close")
    BY <2>1 DEF Moves, WritersInv
  <2> QED BY <1>1, <2>1, <2>2, <2>3 DEF WritersInv, Pipes
<1>7. CASE CloseEnd
  <2>1. PICK k \in Pipes : /\ k = (IF worker = "close" THEN "out" ELSE "in")
                           /\ writers' = [writers EXCEPT ![k] = writers[k] \ {"worker"}]
    BY <1>7 DEF CloseEnd, Close, Pipes
  <2>2. worker \in {"redirect", "close"} /\ Moves /\ UNCHANGED <<feeder, program>>
    BY <1>3, <1>7 DEF CloseEnd
  <2>3. \A j \in Pipes : writers'[j] = IF j = k THEN writers[j] \ {"worker"} ELSE writers[j]
    BY <2>1 DEF TypeOK
  <2>4. "worker" \notin writers'["in"] /\ "worker" \notin writers'["out"]
    BY <2>1, <2>2, <2>3 DEF WritersInv, Pipes
  <2> QED BY <1>1, <2>2, <2>3, <2>4 DEF WritersInv, Pipes
<1>8. CASE Exec /\ ~WorkerEnds
  <2>1. worker = "exec" /\ program' = "runs" /\ UNCHANGED feeder
        /\ writers' = Drop(Copy(writers, "worker", "program"), "worker")
    BY <1>8 DEF Exec
  <2>2. \A k \in Pipes : "worker" \notin writers[k]
    BY <2>1 DEF WritersInv, Pipes
  <2>3. \A k \in Pipes : writers'[k] = writers[k] \ {"worker"}
    BY <2>1, <2>2 DEF Copy, Drop
  <2> QED BY <1>1, <2>1, <2>2, <2>3 DEF WritersInv, Pipes
<1>9. CASE (SendStatus \/ ReadOutput \/ Reply) /\ ~WorkerEnds
  <2>1. worker \in {"status", "read", "reply"} /\ Moves
        /\ UNCHANGED <<writers, feeder, program>>
    BY <1>3, <1>9 DEF SendStatus, ReadOutput, Reply, ends
  <2> QED BY <1>1, <2>1 DEF WritersInv, Moves
<1>10. CASE HandleSigchld /\ ~WorkerEnds
  <2>1. UNCHANGED <<worker, writers, feeder, program>>
    BY <1>10 DEF HandleSigchld, ends
  <2> QED BY <1>1, <2>1, WritersFrame
<1>11. CASE WorkerExit
  BY <1>2, <1>11 DEF WorkerExit
<1> QED
  BY <1>2, <1>4, <1>5, <1>6, <1>7, <1>8, <1>9, <1>10, <1>11 DEF Worker

LEMMA WritersOthers ==
  ASSUME TypeOK, WritersInv,
         Feeder \/ StartProgram \/ Program \/ Arrive \/ Leave \/ UNCHANGED vars
  PROVE  WritersInv'
<1>1. UNCHANGED <<https, post, worker>>
  BY DEF Feeder, FeederStep, FeederCloses, FeederReads, FeederTakes, FeederWrites,
         FeederExit, StartProgram, Program, ProgramStep, ProgramReads, ProgramWrites,
         ProgramEnds, Arrive, Leave, vars, request
<1>2. CASE Feeder
  <2>1. UNCHANGED program /\ feeder \notin {"none", "ended"}
    BY <1>2 DEF Feeder, FeederStep, FeederCloses, FeederReads, FeederTakes,
                FeederWrites, FeederExit
  <2>2. \/ UNCHANGED writers /\ feeder' \notin {"none", "ended"}
        \/ writers' = Drop(writers, "feeder")
    BY <1>2 DEF Feeder, FeederCloses, FeederReads, FeederTakes, FeederWrites,
                FeederExit, ChildEnds, ends
  <2> QED BY <1>1, <2>1, <2>2, WritersFrame, WritersChild DEF Children
<1>3. CASE StartProgram \/ Program
  <2>1. UNCHANGED feeder /\ program \in {"start", "runs"}
    BY <1>3 DEF StartProgram, Program, ProgramStep, ProgramReads, ProgramWrites,
                ProgramEnds
  <2>2. \/ UNCHANGED writers /\ program' \in {"start", "runs"}
        \/ writers' = Drop(writers, "program")
    BY <1>3 DEF StartProgram, Program, ProgramReads, ProgramWrites, ProgramEnds,
                ChildEnds, ends
  <2> QED BY <1>1, <2>1, <2>2, WritersFrame, WritersChild DEF Children
<1>4. CASE Arrive \/ Leave \/ UNCHANGED vars
  <2>1. UNCHANGED <<writers, feeder, program>>
    BY <1>4 DEF Arrive, Leave, vars, ends
  <2> QED BY <1>1, <2>1, WritersFrame
<1> QED BY <1>2, <1>3, <1>4

\* A program that waits for the end of its input waits for the feeder alone,
\* and only while that lives; the worker of a GET that waits for output waits
\* for the program alone, and only while that lives.  This is what
\* ProgramSeesEof, SampleEnds and GetEnds rest on: nobody keeps an end that
\* its own reader waits for.  The worker of a POST over https does, and there
\* PostEnds fails (mini_httpd_helper.c:252, 284-287, 306, 454-456).
NoIdleWriter ==
  /\ program = "runs" =>
       /\ writers["in"] \subseteq {"feeder"}
       /\ feeder \in {"none", "ended"} => writers["in"] = {}
  /\ ~post /\ worker = "read" =>
       /\ writers["out"] \subseteq {"program"}
       /\ program \notin {"start", "runs"} => writers["out"] = {}

\* For every request, body, output and pipe, only a process that lives is
\* waited for, except in a POST over https (mini_httpd_helper.c:249-306).
THEOREM WritersAreAwaited == Spec => []NoIdleWriter
<1> DEFINE Inv == TypeOK /\ InputInv /\ ResponseInv /\ GateInv /\ WritersInv
<1>1. Init => Inv
  BY TypeInit, InputInit, ResponseInit, GateInit, WritersInit
<1>2. Inv /\ [Next]_vars => Inv'
  BY TypeStep, InputStep, ResponseStep, GateStep, WritersWorker, WritersOthers DEF Next
<1>3. Inv => NoIdleWriter
  <2> SUFFICES ASSUME TypeOK, GateInv, WritersInv PROVE NoIdleWriter
    OBVIOUS
  <2>1. \A k \in Pipes : writers[k] \subseteq {"feeder", "program", "worker"}
    BY DEF TypeOK, Children
  <2>2. program = "runs" => worker \notin {"feed", "status", "redirect"}
    BY DEF GateInv
  <2> QED BY <2>1, <2>2 DEF NoIdleWriter, WritersInv, Pipes
<1> HIDE DEF Inv
<1> QED BY <1>1, <1>2, <1>3, PTL DEF Spec
=============================================================================
