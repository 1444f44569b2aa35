-------------------------------- MODULE Cgi --------------------------------
(***************************************************************************)
(* get_dynamic() and post_dynamic() of src/mini_httpd_helper.c: a worker   *)
(* that has read the head of a request runs a CGI program.                 *)
(*                                                                         *)
(* Over http the program writes to the client itself: as a child of the    *)
(* worker (GET) or in its place, after execve (POST).  Over https it       *)
(* writes into a pipe, of which the worker sends the client what one read  *)
(* returns.  The body of a POST goes through another pipe: a feeder forked *)
(* by the worker collects it and writes it to the program's input.         *)
(*                                                                         *)
(* Bodies and outputs are counted in pieces.  A read or a write over http  *)
(* moves one piece, a pipe keeps them in order.  Content lengths beyond    *)
(* the feeder's buffer are left out.                                       *)
(*                                                                         *)
(* The program is any that reads its input, writes and ends, or one of     *)
(* src/cgi-bin: getAuth for a GET, postAuth for a POST.                    *)
(***************************************************************************)
EXTENDS Naturals, Sequences

CONSTANTS
  MaxBody,     \* pieces of body a client sends, or promises, at most
  MaxOut,      \* pieces of output a program writes at most
  PipeCap      \* pieces a pipe holds

ASSUME CgiAssumption ==
  MaxBody \in Nat /\ MaxOut \in Nat /\ PipeCap \in Nat \ {0}

VARIABLES
  https,       \* ishttps
  post,        \* post_dynamic() was called, not get_dynamic()
  sample,      \* the program is getAuth or postAuth
  length,      \* contentLength
  body,        \* pieces of body the client has to send
  ahead,       \* ... that were read together with the head
  text,        \* ... of those, the ones before their first zero byte
  arrived,     \* ... that have arrived
  gone,        \* the client is "here", has "closed" its end or "reset" it
  worker,      \* where the worker is
  feeder,      \* where the feeder is
  program,     \* where the program is
  data,        \* what the feeder has collected
  pipe,        \* pipe[k]: pieces in pipe k
  readers,     \* readers[k]: processes that hold its read end
  writers,     \* writers[k]: processes that hold its write end
  zombies,     \* children of the worker that have ended
  pending,     \* SIGCHLD is pending for the worker
  input,       \* pieces the program has read
  wrote,       \* pieces of output it has written
  chunk,       \* what the worker has read of them (https)
  response     \* what the client has been sent

request == <<https, post, sample, length, body, ahead, text>>
client == <<arrived, gone>>
ends == <<readers, writers>>
signals == <<zombies, pending>>
vars == <<request, client, worker, feeder, program, data, pipe, ends, signals,
          input, wrote, chunk, response>>

Pipes == {"in", "out"}
Children == {"feeder", "program"}
Pad == 0
Status == 0
Garbage == MaxOut + 1

-----------------------------------------------------------------------------
(* The order of the worker's calls.                                        *)

\* Mutant of Calls: get_dynamic() forks before it has sent the status line.
Calls_ForkFirst ==
  IF post
    THEN IF https
           THEN <<"pipe", "feed", "status", "redirect", "outpipe", "fork",
                  "read", "reply", "exit">>
           ELSE <<"pipe", "feed", "status", "redirect", "exec">>
    ELSE IF https
           THEN <<"status", "pipe", "fork", "close", "read", "reply", "exit">>
           ELSE <<"fork", "status", "exit">>

\* Mutant of Calls: no exit(1) after DoInteraction().
Calls_NoExit ==
  IF post
    THEN IF https
           THEN <<"pipe", "feed", "status", "redirect", "outpipe", "fork",
                  "read", "reply", "accept">>
           ELSE <<"pipe", "feed", "status", "redirect", "exec">>
    ELSE IF https
           THEN <<"status", "pipe", "fork", "close", "read", "reply", "accept">>
           ELSE <<"status", "fork", "accept">>

Calls ==
  IF post
    THEN IF https
           THEN <<"pipe", "feed", "status", "redirect", "outpipe", "fork",
                  "read", "reply", "exit">>
           ELSE <<"pipe", "feed", "status", "redirect", "exec">>
    ELSE IF https
           THEN <<"status", "pipe", "fork", "close", "read", "reply", "exit">>
           ELSE <<"status", "fork", "exit">>

Goes ==
  \E i \in 1..(Len(Calls) - 1) : worker = Calls[i] /\ worker' = Calls[i + 1]

Init ==
  /\ https \in BOOLEAN /\ post \in BOOLEAN /\ sample \in BOOLEAN
  /\ body \in 0..MaxBody /\ length \in 0..MaxBody
  /\ arrived \in 0..body /\ ahead \in 0..arrived /\ text \in 0..ahead
  /\ https \/ text = ahead
  /\ post \/ (body = 0 /\ length = 0)
  /\ gone = "here"
  /\ worker = Calls[1] /\ feeder = "none" /\ program = "none"
  /\ data = <<>> /\ pipe = [k \in Pipes |-> <<>>]
  /\ readers = [k \in Pipes |-> {}] /\ writers = [k \in Pipes |-> {}]
  /\ zombies = {} /\ pending = FALSE
  /\ input = <<>> /\ wrote = 0 /\ chunk = <<>> /\ response = <<>>

-----------------------------------------------------------------------------
(* Processes and the ends of pipes they hold.                              *)

Drop(holders, p) == [k \in Pipes |-> holders[k] \ {p}]
Copy(holders, p, q) ==
  [k \in Pipes |-> IF p \in holders[k] THEN holders[k] \cup {q} ELSE holders[k]]

\* Close() of one end.
Close(holders, k, p) == [holders EXCEPT ![k] = @ \ {p}]

WorkerLives == worker \notin {"ended", "became"}
ChildLives == feeder \notin {"none", "ended"} \/ program \in {"start", "runs"}

\* A child ends; init reaps it when the worker has ended or called execve().
ChildEnds(p) ==
  /\ readers' = Drop(readers, p) /\ writers' = Drop(writers, p)
  /\ zombies' = IF WorkerLives THEN zombies \cup {p} ELSE zombies
  /\ pending' = (pending \/ WorkerLives)

WorkerEnds ==
  /\ worker' = "ended"
  /\ readers' = Drop(readers, "worker") /\ writers' = Drop(writers, "worker")
  /\ zombies' = {} /\ pending' = FALSE

\* Fork(): the child gets a copy of the worker's descriptors.
Forks(p) ==
  /\ readers' = Copy(readers, "worker", p)
  /\ writers' = Copy(writers, "worker", p)
  /\ Goes /\ UNCHANGED signals

-----------------------------------------------------------------------------
(* The worker.                                                             *)

WorkerStep == UNCHANGED <<request, client, data, input, wrote>>

\* CreatePipe(), which exits when no descriptor is left.
MakePipe ==
  /\ worker \in {"pipe", "outpipe"}
  /\ \/ LET k == IF post /\ worker = "pipe" THEN "in" ELSE "out"
        IN /\ readers' = [readers EXCEPT ![k] = {"worker"}]
           /\ writers' = [writers EXCEPT ![k] = {"worker"}]
           /\ Goes /\ UNCHANGED signals
     \/ WorkerEnds
  /\ UNCHANGED <<feeder, program, pipe, chunk, response>> /\ WorkerStep

ForkFeeder ==
  /\ worker = "feed"
  /\ \/ Forks("feeder") /\ feeder' = "close"
     \/ WorkerEnds /\ UNCHANGED feeder
  /\ UNCHANGED <<program, pipe, chunk, response>> /\ WorkerStep

ForkProgram ==
  /\ worker = "fork"
  /\ \/ Forks("program") /\ program' = "start"
     \/ WorkerEnds /\ UNCHANGED program
  /\ UNCHANGED <<feeder, pipe, chunk, response>> /\ WorkerStep

\* A write to a client that has gone may end the worker, or fail unnoticed
\* in SSL_write().
SendStatus ==
  /\ worker = "status"
  /\ \/ Goes /\ response' = Append(response, Status) /\ UNCHANGED <<ends, signals>>
     \/ gone # "here" /\ WorkerEnds /\ UNCHANGED response
     \/ gone # "here" /\ https /\ Goes /\ UNCHANGED <<response, ends, signals>>
  /\ UNCHANGED <<feeder, program, pipe, chunk>> /\ WorkerStep

\* Mutant of CloseEnd: the write end stays open.
CloseEnd_Not ==
  /\ worker \in {"redirect", "close"}
  /\ Goes
  /\ UNCHANGED <<feeder, program, pipe, ends, signals, chunk, response>>
  /\ WorkerStep

\* The worker closes a write end: post_dynamic() that of the input pipe, the
\* read end of which becomes its standard input, get_dynamic() that of the
\* output pipe.  Post_dynamic() keeps httpsp[1].
CloseEnd ==
  /\ worker \in {"redirect", "close"}
  /\ writers' = Close(writers, IF worker = "close" THEN "out" ELSE "in", "worker")
  /\ Goes
  /\ UNCHANGED <<feeder, program, pipe, readers, signals, chunk, response>>
  /\ WorkerStep

\* The worker itself becomes the program; its SIGCHLD handler is gone.
Exec ==
  /\ worker = "exec"
  /\ \/ /\ worker' = "became" /\ program' = "runs"
        /\ readers' = Drop(Copy(readers, "worker", "program"), "worker")
        /\ writers' = Drop(Copy(writers, "worker", "program"), "worker")
        /\ zombies' = {} /\ pending' = FALSE
     \/ WorkerEnds /\ program' = "failed"
  /\ UNCHANGED <<feeder, pipe, chunk, response>> /\ WorkerStep

\* Mutant of ReadOutput: Wait(NULL) comes after it, as a comment has it.
ReadOutput_Waits ==
  /\ worker = "read"
  /\ pipe["out"] # <<>> \/ writers["out"] = {}
  /\ chunk' = pipe["out"] /\ pipe' = [pipe EXCEPT !["out"] = <<>>]
  /\ \E z \in zombies : zombies' = zombies \ {z}
  /\ Goes
  /\ UNCHANGED <<feeder, program, ends, pending, response>> /\ WorkerStep

\* Read(), once: what there is, or nothing when nobody holds the write end.
ReadOutput ==
  /\ worker = "read"
  /\ \/ \E n \in 1..Len(pipe["out"]) :
          /\ chunk' = SubSeq(pipe["out"], 1, n)
          /\ pipe' = [pipe EXCEPT !["out"] = SubSeq(@, n + 1, Len(@))]
     \/ pipe["out"] = <<>> /\ writers["out"] = {} /\ UNCHANGED <<pipe, chunk>>
  /\ Goes
  /\ UNCHANGED <<feeder, program, ends, signals, response>> /\ WorkerStep

\* The text up to the first zero byte is sent, which may be one of the output:
\* get_dynamic()'s buffer was never cleared and may hold anything after what
\* was read.
Reply ==
  /\ worker = "reply"
  /\ \/ /\ response # <<>>
        /\ \/ \E n \in 0..Len(chunk) : response' = response \o SubSeq(chunk, 1, n)
           \/ ~post /\ response' = Append(response \o chunk, Garbage)
        /\ Goes /\ UNCHANGED <<ends, signals>>
     \/ gone # "here" /\ Goes /\ UNCHANGED <<response, ends, signals>>
     \/ gone # "here" /\ WorkerEnds /\ UNCHANGED response
  /\ UNCHANGED <<feeder, program, pipe, chunk>> /\ WorkerStep

\* Back in main(): exit(1).
WorkerExit ==
  /\ worker = "exit" /\ WorkerEnds
  /\ UNCHANGED <<feeder, program, pipe, chunk, response>> /\ WorkerStep

\* sigChldHandler, inherited from the listener: Waitpid(), once.
HandleSigchld ==
  /\ pending /\ WorkerLives
  /\ \/ /\ \/ \E z \in zombies : zombies' = zombies \ {z}
           \/ zombies = {} /\ ChildLives /\ UNCHANGED zombies
        /\ pending' = FALSE /\ UNCHANGED <<worker, ends>>
     \/ zombies = {} /\ ~ChildLives /\ WorkerEnds
  /\ UNCHANGED <<feeder, program, pipe, chunk, response>> /\ WorkerStep

-----------------------------------------------------------------------------
(* The feeder.                                                             *)

FeederStep ==
  UNCHANGED <<request, client, worker, program, input, wrote, chunk, response>>

FeederCloses ==
  /\ feeder = "close" /\ feeder' = "collect"
  /\ readers' = Close(readers, "in", "feeder")
  /\ UNCHANGED <<data, pipe, writers, signals>> /\ FeederStep

\* Mutant of FeederReads: reads the socket, not through the rio_t.
FeederReads_Unbuffered ==
  /\ feeder = "collect" /\ ~https
  /\ IF Len(data) < length /\ ahead + Len(data) < arrived
       THEN data' = Append(data, ahead + Len(data) + 1) /\ UNCHANGED feeder
       ELSE /\ Len(data) = length \/ gone = "closed"
            /\ feeder' = "write" /\ UNCHANGED data
  /\ UNCHANGED <<pipe, ends, signals>> /\ FeederStep

\* Rio_readnb() on the copy of the rio_t: the pieces read ahead come first;
\* it returns when it has `length' of them or at end-of-file.
FeederReads ==
  /\ feeder = "collect" /\ ~https
  /\ \/ /\ Len(data) < length /\ Len(data) < arrived
        /\ data' = Append(data, Len(data) + 1)
        /\ UNCHANGED <<feeder, ends, signals>>
     \/ /\ \/ Len(data) = length
           \/ Len(data) = arrived /\ gone = "closed"
        /\ feeder' = "write"
        /\ UNCHANGED <<data, ends, signals>>
     \/ /\ Len(data) < length /\ Len(data) = arrived /\ gone = "reset"
        /\ feeder' = "ended" /\ ChildEnds("feeder")
        /\ UNCHANGED data
  /\ UNCHANGED pipe /\ FeederStep

\* Over https the body is what strcpy() copied of the part that was read with
\* the head: that up to its first zero byte.
FeederTakes ==
  /\ feeder = "collect" /\ https
  /\ data' = [i \in 1..text |-> i]
  /\ feeder' = "write"
  /\ UNCHANGED <<pipe, ends, signals>> /\ FeederStep

\* `length' bytes are written, zeros where nothing was collected; without a
\* reader SIGPIPE ends the feeder.
FeederWrites ==
  /\ feeder = "write"
  /\ \/ /\ readers["in"] # {} \/ length = 0
        /\ pipe' = [pipe EXCEPT !["in"] =
                      [i \in 1..length |-> IF i <= Len(data) THEN data[i] ELSE Pad]]
        /\ feeder' = "exit"
        /\ UNCHANGED <<ends, signals>>
     \/ /\ readers["in"] = {} /\ length > 0
        /\ feeder' = "ended" /\ ChildEnds("feeder")
        /\ UNCHANGED pipe
  /\ UNCHANGED data /\ FeederStep

FeederExit ==
  /\ feeder = "exit" /\ feeder' = "ended"
  /\ ChildEnds("feeder")
  /\ UNCHANGED <<data, pipe>> /\ FeederStep

-----------------------------------------------------------------------------
(* The program.                                                            *)

ProgramStep ==
  UNCHANGED <<request, client, worker, feeder, data, chunk>>

\* The child up to its execve(): get_dynamic()'s closes p[0] first.
StartProgram ==
  /\ program = "start"
  /\ \/ /\ program' = "runs"
        /\ readers' = IF post THEN readers
                      ELSE Close(readers, "out", "program")
        /\ UNCHANGED <<writers, signals>>
     \/ program' = "failed" /\ ChildEnds("program")
  /\ UNCHANGED <<pipe, input, wrote, response>> /\ ProgramStep

\* What postAuth has read is what fgets() returns: `length' bytes, or less
\* with a newline, which any piece may hold, or at end-of-file.
LineRead ==
  Len(input) = length \/ input # <<>> \/ (pipe["in"] = <<>> /\ writers["in"] = {})

\* getAuth faults when QUERY_STRING has no `&'.
Faults == sample /\ ~post

\* SIGPIPE.
NoReader == IF https THEN readers["out"] = {} ELSE gone # "here"

ProgramReads ==
  /\ program = "runs" /\ pipe["in"] # <<>>
  /\ sample => post /\ wrote = 0 /\ Len(input) < length
  /\ input' = Append(input, Head(pipe["in"]))
  /\ pipe' = [pipe EXCEPT !["in"] = Tail(@)]
  /\ UNCHANGED <<program, ends, signals, wrote, response>> /\ ProgramStep

ProgramWrites ==
  /\ program = "runs" /\ wrote < MaxOut
  /\ sample /\ post => LineRead
  /\ \/ /\ ~https
        /\ response' = Append(response, wrote + 1)
        /\ UNCHANGED pipe
     \/ /\ https /\ readers["out"] # {} /\ Len(pipe["out"]) < PipeCap
        /\ pipe' = [pipe EXCEPT !["out"] = Append(@, wrote + 1)]
        /\ UNCHANGED response
  /\ wrote' = wrote + 1
  /\ UNCHANGED <<program, ends, signals, input>> /\ ProgramStep

\* At any time, also by SIGPIPE; getAuth and postAuth after their answer.
ProgramEnds ==
  /\ program = "runs" /\ program' = "ended"
  /\ sample => wrote > 0 \/ Faults \/ (LineRead /\ NoReader)
  /\ IF worker = "became"
       THEN /\ readers' = Drop(readers, "program")
            /\ writers' = Drop(writers, "program")
            /\ UNCHANGED signals
       ELSE ChildEnds("program")
  /\ UNCHANGED <<pipe, input, wrote, response>> /\ ProgramStep

(* The client.                                                             *)

Arrive ==
  /\ gone = "here" /\ arrived < body
  /\ arrived' = arrived + 1
  /\ UNCHANGED <<request, gone, worker, feeder, program, data, pipe, ends,
                 signals, input, wrote, chunk, response>>

Leave ==
  /\ gone = "here"
  /\ gone' \in {"closed", "reset"}
  /\ UNCHANGED <<request, arrived, worker, feeder, program, data, pipe, ends,
                 signals, input, wrote, chunk, response>>

-----------------------------------------------------------------------------
Worker ==
  \/ MakePipe \/ ForkFeeder \/ SendStatus \/ CloseEnd \/ ForkProgram \/ Exec
  \/ ReadOutput \/ Reply \/ WorkerExit

Feeder ==
  FeederCloses \/ FeederReads \/ FeederTakes \/ FeederWrites \/ FeederExit

Program == ProgramReads \/ ProgramWrites \/ ProgramEnds

Next ==
  \/ Worker \/ HandleSigchld \/ Feeder \/ StartProgram \/ Program
  \/ Arrive \/ Leave

\* The kernel schedules the server's processes, getAuth and postAuth.  Another
\* program may hang and a client may keep silent.
Fairness ==
  WF_vars(Worker) /\ WF_vars(HandleSigchld) /\ WF_vars(Feeder)
    /\ WF_vars(StartProgram) /\ WF_vars(sample /\ Program)

Spec == Init /\ [][Next]_vars /\ Fairness

-----------------------------------------------------------------------------
TypeOK ==
  /\ https \in BOOLEAN /\ post \in BOOLEAN /\ sample \in BOOLEAN
  /\ length \in Nat /\ body \in Nat /\ arrived \in Nat
  /\ ahead \in Nat /\ text \in Nat
  /\ gone \in {"here", "closed", "reset"}
  /\ worker \in {"pipe", "feed", "status", "redirect", "outpipe", "fork",
                 "exec", "close", "read", "reply", "exit", "became", "ended"}
  /\ feeder \in {"none", "close", "collect", "write", "exit", "ended"}
  /\ program \in {"none", "start", "runs", "failed", "ended"}
  /\ data \in Seq(Nat) /\ pipe \in [Pipes -> Seq(Nat)]
  /\ readers \in [Pipes -> SUBSET (Children \cup {"worker"})]
  /\ writers \in [Pipes -> SUBSET (Children \cup {"worker"})]
  /\ zombies \in SUBSET Children /\ pending \in BOOLEAN
  /\ input \in Seq(Nat) /\ wrote \in Nat /\ chunk \in Seq(Nat)
  /\ response \in Seq(Nat)

\* The i-th piece the program reads is the i-th piece of the body, wherever
\* it was read: ahead with the head, by the feeder from the socket.  Over http
\* zeros stand in only for pieces that cannot come because the client closed.
\* Over https the program gets the text that was read together with the head
\* and zeros for all the rest, also for bytes that were received: those behind
\* the first zero byte of the body (mini_httpd_helper.c:249-270, 597).
InputIntact ==
  /\ Len(input) <= length
  /\ \A i \in 1..Len(input) :
       IF https THEN input[i] = IF i <= text THEN i ELSE Pad
       ELSE input[i] = i \/ (input[i] = Pad /\ i > arrived /\ gone = "closed")

\* The program of a request, as Gateway sees it.
Phase ==
  CASE program \in {"none", "start"} -> "before"
    [] program = "runs" -> "runs"
    [] program \in {"failed", "ended"} -> "over"

G == INSTANCE Gateway WITH phase <- Phase, given <- input, made <- wrote,
                           sent <- response

\* The processes of a request together are one gateway: the status line goes
\* out before any program runs, one program runs, its input and the response
\* grow by pieces in order, and over https the client gets a beginning of
\* what was written, once (mini_httpd_helper.c:222-314, 417-470).
OneGateway == G!GSpec

\* The handler always finds a child: Waitpid() does not end a worker
\* (main.c:21, mini_httpd_helper.c:249, 300, 446, 461).
SigchldCovered == pending /\ WorkerLives => zombies # {}

\* A program that reads its input sees end-of-file once the body is complete
\* or the client has gone: nobody else keeps the write end of its pipe
\* (mini_httpd_helper.c:252, 284-287).
ProgramSeesEof ==
  (post /\ program = "runs" /\ (https \/ arrived >= length \/ gone # "here"))
    ~> (writers["in"] = {} \/ program # "runs")

\* The programs of cgi-bin end, wherever the body stops: postAuth gets the
\* bytes it was promised, or end-of-file when the feeder was killed, and
\* somebody takes its answer or closes its output
\* (postAuth.c:21, mini_httpd_helper.c:262-263, 287, 306).
SampleEnds ==
  (/\ sample /\ program = "runs"
   /\ ~post \/ https \/ arrived >= length \/ gone # "here")
    ~> program # "runs"

\* The worker of a GET is done when its program has ended, also when that
\* wrote nothing (mini_httpd_helper.c:454-456).
GetEnds ==
  (~post /\ program \in {"failed", "ended"}) ~> (worker = "ended")

(***************************************************************************)
(* Statements of the repository's comments and documents that the code     *)
(* does not live up to.                                                    *)
(***************************************************************************)

\* mini_httpd_helper.c:608: `handle one HTTP request/response transaction':
\* when the program of a POST has ended, so does the worker.
PostEnds ==
  (post /\ program \in {"failed", "ended"} /\ WorkerLives)
    ~> ~WorkerLives
=============================================================================
