-------------------------------- MODULE Logs --------------------------------
(***************************************************************************)
(* The two log files of the workers: the access log of                     *)
(* src/mini_httpd_log.c, one stdio stream that every process inherits with *)
(* its buffer, and the debug log of src/mini_httpd_debug.c, which each     *)
(* message opens and closes.  Both are opened with "a+": each write(2)     *)
(* appends what it is given as a whole.                                    *)
(*                                                                         *)
(* A worker serves one http request and logs on its way through            *)
(* DoInteraction(); over https, for a directory and for a request that is  *)
(* turned down before its header is read, there is no access log entry.    *)
(***************************************************************************)
EXTENDS Integers, Sequences

CONSTANTS
  Workers,
  MaxLines,   \* lines of a header, the blank one included
  MaxPieces,  \* size of a debug message, in pieces
  StdioBuf,   \* pieces a stdio buffer holds
  MaxLog,     \* bound on the access log, for the worker that loops
  PieceBytes  \* bytes of a piece in a hex dump

ASSUME LogsAssumption ==
  /\ MaxLines \in Nat \ {0} /\ MaxPieces \in Nat \ {0}
  /\ StdioBuf \in Nat \ {0} /\ MaxLog \in Nat /\ PieceBytes \in Nat

VARIABLES
  kind,    \* what each worker's request asks for
  lines,   \* lines of its header, as Rio_readlineb() returns them
  gone,    \* its client is "here", or has "closed" or "reset" inside the header
  pc,      \* where the worker is
  line,    \* lines of the header read
  msg,     \* the debug message being written: [size, left]
  buf,     \* the worker's stdio buffer of the access log
  child,   \* the process it forked: "none", "feeder", "program", "ended"
  cbuf,    \* that process's copy of the buffer
  access,  \* the access log
  debug    \* the debug log

request == <<kind, lines>>
vars == <<request, gone, pc, line, msg, buf, child, cbuf, access, debug>>

Stamp(w) == [who |-> w, line |-> 0]
Line(w, k) == [who |-> w, line |-> k]
NoMessage == [size |-> 0, left |-> 0]

Init ==
  /\ kind \in [Workers -> {"static", "forbidden", "get", "post"}]
  /\ lines \in [Workers -> 1..MaxLines]
  /\ gone = [w \in Workers |-> "here"]
  /\ pc = [w \in Workers |-> "client"]
  /\ line = [w \in Workers |-> 0]
  /\ msg = [w \in Workers |-> NoMessage]
  /\ buf = [w \in Workers |-> <<>>]
  /\ child = [w \in Workers |-> "none"] /\ cbuf = [w \in Workers |-> <<>>]
  /\ access = <<>> /\ debug = <<>>

At(w, loc) == pc[w] = loc /\ UNCHANGED request
Go(w, loc) == pc' = [pc EXCEPT ![w] = loc]

children == <<child, cbuf>>
header == <<gone, line>>

-----------------------------------------------------------------------------
(* Ends of a process, and what becomes of its buffer.                      *)

\* exit(), also that of a wrapper whose call fails, writes the buffer out.
Exit(w) ==
  /\ Go(w, "ended")
  /\ access' = access \o buf[w] /\ buf' = [buf EXCEPT ![w] = <<>>]

\* A signal, or execve(), drops it.
Drop(w) ==
  /\ Go(w, "ended")
  /\ buf' = [buf EXCEPT ![w] = <<>>] /\ UNCHANGED access

-----------------------------------------------------------------------------
(* MINIHTTPD_LOG_WRITE().                                                  *)

\* The messages before the header and before the answer: [at, next].
After(loc) == IF loc = "client" THEN "first" ELSE "send"

\* fopen() and the time stamp; without a descriptor left the worker faults.
OpenDebug(w) ==
  /\ pc[w] \in {"client", "serve"} /\ msg[w].left = 0
  /\ UNCHANGED <<request, header, children, debug>>
  /\ \/ /\ \E n \in 1..MaxPieces : msg' = [msg EXCEPT ![w] = [size |-> n, left |-> n]]
        /\ UNCHANGED <<pc, buf, access>>
     \/ Drop(w) /\ UNCHANGED msg

\* Mutant of Written: a stream without a buffer.
Written_Piecewise(left) == 1

\* As much as the buffer holds goes out at once, the rest with fclose().
Written(left) == IF left > StdioBuf THEN StdioBuf ELSE left

WriteDebug(w) ==
  /\ msg[w].left > 0
  /\ LET k == Written(msg[w].left)
         done == msg[w].size - msg[w].left
     IN /\ debug' = debug \o [i \in 1..k |->
              [who |-> w, at |-> pc[w], piece |-> done + i, size |-> msg[w].size]]
        /\ msg' = [msg EXCEPT ![w].left = @ - k]
        /\ IF msg[w].left = k THEN Go(w, After(pc[w])) ELSE UNCHANGED pc
  /\ UNCHANGED <<request, header, children, buf, access>>

-----------------------------------------------------------------------------
(* get_requesthdrs() and post_requesthdrs().                               *)

\* Mutant of WriteTime: the time goes out at once.
WriteTime_Flushes(w) ==
  access' = access \o <<Stamp(w)>> /\ UNCHANGED buf

\* writetime() leaves its text in the buffer.
WriteTime(w) ==
  buf' = [buf EXCEPT ![w] = Append(@, Stamp(w))] /\ UNCHANGED access

\* Mutant of WriteLog: no fflush().
WriteLog_Buffered(w, k) ==
  buf' = [buf EXCEPT ![w] = Append(@, Line(w, k))] /\ UNCHANGED access

\* writelog() adds the line and flushes.
WriteLog(w, k) ==
  /\ access' = access \o Append(buf[w], Line(w, k))
  /\ buf' = [buf EXCEPT ![w] = <<>>]

\* The first line is read, and the time, but not the line, is logged.  (What
\* a worker does whose client closes before it is in Interaction.)
FirstLine(w) ==
  /\ At(w, "first")
  /\ line' = [line EXCEPT ![w] = 1] /\ WriteTime(w)
  /\ Go(w, "header")
  /\ UNCHANGED <<gone, msg, children, debug>>

\* The loop: the next line is read and logged.
NextLine(w) ==
  /\ At(w, "header") /\ line[w] < lines[w] /\ gone[w] = "here"
  /\ line' = [line EXCEPT ![w] = @ + 1] /\ WriteLog(w, line[w] + 1)
  /\ UNCHANGED <<pc, gone, msg, children, debug>>

\* At end-of-file buf keeps its text, which is logged again and again.
SameLine(w) ==
  /\ At(w, "header") /\ line[w] < lines[w] /\ gone[w] = "closed"
  /\ Len(access) < MaxLog
  /\ WriteLog(w, line[w])
  /\ UNCHANGED <<pc, header, msg, children, debug>>

\* The client closes before the blank line.
Close(w) ==
  /\ At(w, "header") /\ line[w] < lines[w] /\ gone[w] = "here"
  /\ gone' = [gone EXCEPT ![w] = "closed"]
  /\ UNCHANGED <<pc, line, msg, buf, children, access, debug>>

\* The client resets before a line that is waited for: Rio_readlineb() fails
\* and exits, with whatever waits in the buffer.
ReadFails(w) ==
  /\ At(w, "first") \/ (At(w, "header") /\ line[w] < lines[w])
  /\ gone[w] = "here" /\ gone' = [gone EXCEPT ![w] = "reset"]
  /\ Exit(w)
  /\ UNCHANGED <<line, msg, children, debug>>

HeaderEnds(w) ==
  /\ At(w, "header") /\ line[w] = lines[w]
  /\ Go(w, IF kind[w] = "forbidden" THEN "send" ELSE "serve")
  /\ UNCHANGED <<header, msg, buf, children, access, debug>>

-----------------------------------------------------------------------------
(* The answer: serve_static(), clienterror(), get_dynamic(), post_dynamic().*)

\* A page is sent and the worker exits, or SIGPIPE ends it.
Answer(w) ==
  /\ At(w, "send") /\ kind[w] \in {"static", "forbidden"}
  /\ Exit(w) \/ Drop(w)
  /\ UNCHANGED <<header, msg, children, debug>>

\* A child gets a copy of the buffer.
ForkChild(w) ==
  /\ At(w, "send") /\ kind[w] \in {"get", "post"}
  /\ \/ /\ child' = [child EXCEPT ![w] = IF kind[w] = "get" THEN "program" ELSE "feeder"]
        /\ cbuf' = [cbuf EXCEPT ![w] = buf[w]]
        /\ Go(w, "forked") /\ UNCHANGED <<buf, access>>
     \/ Exit(w) /\ UNCHANGED children
  /\ UNCHANGED <<header, msg, debug>>

\* The worker of a GET exits; that of a POST becomes the program, or exits
\* because it cannot.
Finish(w) ==
  /\ At(w, "forked")
  /\ Exit(w) \/ (kind[w] = "post" /\ Drop(w))
  /\ UNCHANGED <<header, msg, children, debug>>

\* The feeder exits, or SIGPIPE ends it; the child of a GET becomes the
\* program, or exits because it cannot.
ChildEnds(w) ==
  /\ child[w] \in {"feeder", "program"}
  /\ child' = [child EXCEPT ![w] = "ended"] /\ cbuf' = [cbuf EXCEPT ![w] = <<>>]
  /\ \/ access' = access \o cbuf[w]
     \/ UNCHANGED access
  /\ UNCHANGED <<request, header, pc, msg, buf, debug>>

-----------------------------------------------------------------------------
(* MINIHTTPD_Debug_HexDump_Ex(), which nobody calls: the bytes it prints,  *)
(* as positions.                                                           *)

\* p[0] to p[k - 1].
Bytes(p, k) == [j \in 1..k |-> p + j - 1]

\* Mutant of LastRow: `p += 8' is left out.
LastRow_NoAdvance(size) ==
  LET remain == size % 16
      p == size - remain
  IN IF remain = 0 THEN <<>>
     ELSE <<[offset |-> p,
             bytes |-> IF remain > 8 THEN Bytes(p, 8) \o Bytes(p, remain - 8)
                       ELSE Bytes(p, remain)]>>

\* What is left after the full rows: eight bytes, a bar and the rest, or the
\* rest alone.
LastRow(size) ==
  LET remain == size % 16
      p == size - remain
  IN IF remain = 0 THEN <<>>
     ELSE <<[offset |-> p,
             bytes |-> IF remain > 8 THEN Bytes(p, 8) \o Bytes(p + 8, remain - 8)
                       ELSE Bytes(p, remain)]>>

HexDump(size) ==
  [i \in 1..(size \div 16) |-> [offset |-> 16 * (i - 1),
                                bytes |-> Bytes(16 * (i - 1), 16)]]
    \o LastRow(size)

-----------------------------------------------------------------------------
Next ==
  \E w \in Workers :
    \/ OpenDebug(w) \/ WriteDebug(w)
    \/ FirstLine(w) \/ NextLine(w) \/ SameLine(w) \/ Close(w)
    \/ ReadFails(w) \/ HeaderEnds(w)
    \/ Answer(w) \/ ForkChild(w) \/ Finish(w) \/ ChildEnds(w)

Spec == Init /\ [][Next]_vars

-----------------------------------------------------------------------------
Entries(w) == [who : {w}, line : 0..MaxLines]
Places == {"client", "first", "header", "serve", "send", "forked", "ended"}

\* A buffer never holds more than one stamp.
TypeOK ==
  /\ kind \in [Workers -> {"static", "forbidden", "get", "post"}]
  /\ lines \in [Workers -> 1..MaxLines] /\ line \in [Workers -> 0..MaxLines]
  /\ gone \in [Workers -> {"here", "closed", "reset"}]
  /\ pc \in [Workers -> Places]
  /\ child \in [Workers -> {"none", "feeder", "program", "ended"}]
  /\ \A w \in Workers :
       /\ msg[w].size \in 0..MaxPieces /\ msg[w].left \in 0..msg[w].size
       /\ buf[w] \in {<<>>, <<Stamp(w)>>} /\ cbuf[w] \in {<<>>, <<Stamp(w)>>}
  /\ \A i \in DOMAIN access : \E w \in Workers : access[i] \in Entries(w)
  /\ \A i \in DOMAIN debug : debug[i].who \in Workers

\* What the access log says of w.
Logged(w) == {i \in DOMAIN access : access[i].who = w /\ access[i].line > 0}
Stamps(w) == {i \in DOMAIN access : access[i] = Stamp(w)}

\* Every line after the first is in the file as soon as it is read, once and
\* in order, whatever is forked, executed or killed later: only a client
\* that closes inside its header makes the last one repeat
\* (mini_httpd_log.c:68-72, mini_httpd_helper.c:60-68).
LinesLogged ==
  \A w \in Workers :
    /\ \A k \in 2..line[w] : \E i \in Logged(w) : access[i].line = k
    /\ \A i \in Logged(w) :
         \/ access[i].line \in 2..line[w]
         \/ gone[w] = "closed" /\ access[i].line = line[w]
    /\ \A i, j \in Logged(w) : i < j =>
         \/ access[i].line < access[j].line
         \/ gone[w] = "closed" /\ access[i].line = line[w] /\ access[j].line = line[w]

\* The access time of a request is logged once and right before its own
\* second line, although other workers write at the same time and although
\* it waits in a buffer that fork() copies; only a client that resets before
\* its second line leaves it alone in the log, where any other worker's line
\* may follow.  With a blank first line it stays in the buffer: it may be
\* lost, or appear twice, never more often
\* (mini_httpd_log.c:46, mini_httpd_helper.c:65, 249, 313, wrap.c:651-654).
StampWithLine ==
  \A w \in Workers :
    /\ lines[w] > 1 =>
         \A i \in Stamps(w) :
           /\ Stamps(w) = {i}
           /\ \/ /\ i < Len(access) /\ access[i + 1].who = w
                 /\ access[i + 1].line = IF gone[w] = "closed" /\ line[w] = 1 THEN 1 ELSE 2
              \/ gone[w] = "reset" /\ line[w] = 1 /\ Logged(w) = {}
    /\ \A i, j, k \in Stamps(w) : i = j \/ j = k \/ i = k

\* A debug message that fits a stdio buffer is in the file whole, whatever
\* other processes log at the same time: the mutex of the process cannot
\* keep them off, one write(2) does (mini_httpd_debug.c:75-114).
DebugWhole ==
  \A i \in DOMAIN debug :
    debug[i].size <= StdioBuf /\ debug[i].piece = 1 =>
      /\ i + debug[i].size - 1 <= Len(debug)
      /\ \A j \in 1..(debug[i].size - 1) :
           debug[i + j] = [debug[i] EXCEPT !.piece = j + 1]

\* A hex dump of the debug log prints every byte once and in order, and each
\* row begins with the position of its first byte, whatever its length leaves
\* for the last row (mini_httpd_debug.c:144-183).
HexDumpWhole ==
  LET size == PieceBytes * Len(debug)
      dump == HexDump(size)
      end(i) == IF i = 0 THEN 0 ELSE dump[i].offset + Len(dump[i].bytes)
  IN /\ \A i \in DOMAIN dump :
          /\ dump[i].bytes # <<>> /\ dump[i].offset = end(i - 1)
          /\ dump[i].bytes = Bytes(dump[i].offset, Len(dump[i].bytes))
     /\ end(Len(dump)) = size
=============================================================================
