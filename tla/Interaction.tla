---------------------------- MODULE Interaction ----------------------------
(***************************************************************************)
(* One worker: DoInteraction() of src/mini_httpd_helper.c and what it      *)
(* calls, from its first read of the connection to the end of the process  *)
(* or to its call of get_dynamic() or post_dynamic().                      *)
(*                                                                         *)
(* The client sends its message item by item and may close its end at any  *)
(* time, also in the middle of an item.  An item is what Rio_readlineb()   *)
(* returns: the request line, a header field, the blank line, a piece of   *)
(* body; and of a line that has no room in the caller's buffer, MAXLINE,   *)
(* what was left over, if that alone reads like a blank line.  (Any other  *)
(* left-over piece is as good as a field.)  Over https the worker reads    *)
(* once and gets what the first TLS record of the client holds.  What the  *)
(* URI names may change at any time.                                       *)
(*                                                                         *)
(* A failing call ends the worker inside its wrapper ("exit"), a fault or  *)
(* a signal does so without any wrapper ("crash").                         *)
(***************************************************************************)
EXTENDS Naturals, Sequences

CONSTANTS
  MaxFields,     \* items between request line and blank line, at most
  MaxBody,       \* pieces of body it sends at most
  MaxChanges,    \* times the file changes at most
  MaxFree        \* descriptors a worker can open, at most

ASSUME InteractionAssumption ==
  MaxFields \in Nat /\ MaxBody \in Nat /\ MaxChanges \in Nat /\ MaxFree \in Nat

VARIABLES
  req,       \* the client's request
  pos,       \* items of its message the client has sent
  gone,      \* the client is "here", has "closed" its end or "reset" it
  torn,      \* ... in the middle of an item, of which the beginning is unread
  file,      \* what the URI names in the file system
  changes,   \* how often that has changed
  https,     \* ishttps
  dirShow,   \* isShowdir
  pc,        \* where DoInteraction() is
  got,       \* items of the message the worker has taken
  line,      \* the line buffer: "zero", the kind of an item, or "torn"
  chan,      \* what the response travels on: "plain", "tls" or "broken"
  seen,      \* what lstat(), and later mmap(), found
  free,      \* descriptors the worker can still open
  page,      \* the response being sent
  out,       \* the parts of a response the client has been sent
  end        \* how the worker ended: "no" as long as it runs

fixed == <<req, https, dirShow>>
client == <<pos, gone, torn>>
closed == gone # "here"
files == <<file, changes>>
worker == <<pc, got, line, chan, seen, free, page, out, end>>
vars == <<fixed, client, files, worker>>

-----------------------------------------------------------------------------
(* The client's message and the file system.                               *)

\* A piece that reads like a blank line, "rest", follows what it was cut from.
Heads ==
  {h \in UNION {[1..n -> {"field", "rest"}] : n \in 0..MaxFields} :
     \A i \in DOMAIN h : h[i] = "rest" => i = 1 \/ h[i - 1] = "field"}

\* A URI "fits" if there is room for it behind the directory it starts from.
\* One that does not names nothing: no path is that long.  A body follows the
\* head of a POST.
Requests ==
  {r \in [method : {"GET", "POST", "other"}, cgi : BOOLEAN, fits : BOOLEAN,
          head : Heads, body : 0..MaxBody] : r.method = "POST" \/ r.body = 0}

HeadLength == Len(req.head) + 2
MessageLength == HeadLength + req.body
Item(i) == CASE i = 1 -> "request"
             [] i \in 2..(HeadLength - 1) -> req.head[i - 1]
             [] i = HeadLength -> "blank"
             [] i > HeadLength -> "body"

\* "foreign" has the owner's permission bits but is not the worker's to open;
\* "private" lacks them.  A "dangling" directory has a link to nothing in it;
\* a "faulty" one may not be opened, holds files of owners without a name, or
\* has a listing that is longer than MAXLINE.
Directories == {"dir", "dangling", "faulty"}
Files == Directories \cup {"absent", "regular", "empty", "private", "foreign",
                          "program"}
IsRegular(f) == f \notin Directories \cup {"absent", "none"}
OwnerReads(f) == f # "private"
OwnerRuns(f) == f = "program"

\* Open() and Mmap() of a file, which end the worker otherwise: a mapping of
\* as many bytes as lstat() counted cannot be empty.
Opens(f) == f \in {"regular", "empty", "program"}
Maps(f) == f # "empty"

\* Stat() of an entry: a link to nothing, or it went away after readdir().
StatFails == changes > 0 \/ file = "dangling"

Pages == {"listing", "file", "403", "404", "501"}
Channels == {"plain", "tls"}
Part(p, ch, name) == [page |-> p, channel |-> ch, part |-> name]

-----------------------------------------------------------------------------
(* Steps of the worker.                                                    *)

At(where) == pc = where /\ end = "no"
Stay == UNCHANGED <<fixed, client, files>>
Go(where) == pc' = where
\* One of the responses: its head comes next.
Respond(p) == page' = p /\ Go("head")

\* The worker ends here.
Ends(how) ==
  /\ end' = how
  /\ UNCHANGED <<pc, got, line, chan, seen, free, page, out>>

\* MINIHTTPD_LOG_DEBUG(): the log file is opened for each message, and a
\* worker without a descriptor writes through the null pointer it gets.
Logs == free > 0

Init ==
  /\ req \in Requests /\ https \in BOOLEAN /\ dirShow \in BOOLEAN
  /\ pos = 0 /\ gone = "here" /\ torn = FALSE
  /\ file \in (IF req.fits THEN Files ELSE {"absent"}) /\ changes = 0
  /\ pc = "first" /\ got = 0 /\ line = "zero"
  /\ chan = IF https THEN "tls" ELSE "plain"
  /\ seen = "none" /\ free \in 0..MaxFree
  /\ page = "none" /\ out = <<>> /\ end = "no"

(* Rio_readlineb(., ., MAXLINE) and what follows it: the next line or      *)
(* piece of one, as much of it as there is before end-of-file, or nothing, *)
(* which leaves the caller's buffer alone; an error ends the worker.       *)
ReadLine ==
  \/ /\ got < pos
     /\ got' = got + 1 /\ line' = Item(got + 1)
     /\ UNCHANGED <<client, end>>
  \/ /\ got = pos /\ gone = "closed"
     /\ line' = IF torn THEN "torn" ELSE line
     /\ torn' = FALSE
     /\ UNCHANGED <<got, pos, gone, end>>
  \/ /\ got = pos /\ gone = "reset"
     /\ end' = "exit"
     /\ UNCHANGED <<got, line, client>>

ReadRequest ==
  /\ At("first") /\ ~https
  /\ ReadLine
  /\ Go("method")
  /\ UNCHANGED <<fixed, files, chan, seen, free, page, out>>

(* ssl_prepare(): the handshake, of which a result of 0 alone is an error, *)
(* and one SSL_read(): of whole items, of a part of the request line, or   *)
(* of nothing, for a client that has gone or failed in the handshake.      *)
SslPrepare ==
  /\ At("first") /\ https
  /\ \/ /\ \E n \in 1..pos : got' = n
        /\ line' = "request" /\ chan' = "tls"
        /\ Go("method")
        /\ UNCHANGED <<seen, free, page, out, end>>
     \/ /\ \/ line' = "torn" /\ chan' = "tls"
           \/ closed /\ line' = "zero" /\ chan' = "tls"
           \/ line' = "zero" /\ chan' = "broken"
        /\ Go("method")
        /\ UNCHANGED <<got, seen, free, page, out, end>>
     \/ Ends("exit")
  /\ Stay

(* A line that was not read leaves `method' uninitialised: whatever it     *)
(* holds is no method, if it is a string at all.  A torn line may look     *)
(* like another method, and lack its URI, which is then anything, as the   *)
(* URI of any request, if it is a string at all.                           *)
CheckMethod ==
  /\ At("method")
  /\ \/ /\ line = "torn" \/ (line = "request" /\ req.method # "other")
        /\ \/ Logs /\ Go("uri") /\ UNCHANGED <<page, end>>
           \/ ~Logs /\ end' = "crash" /\ UNCHANGED <<pc, page>>
     \/ /\ line # "request" \/ req.method = "other"
        /\ Respond("501") /\ UNCHANGED end
     \/ /\ line \in {"zero", "torn"}
        /\ end' = "crash" /\ UNCHANGED <<pc, page>>
  /\ UNCHANGED <<got, line, chan, seen, free, out>>
  /\ Stay

\* Mutant of ParseUri: two keys are looked up, unchecked.
ParseUri_TwoKeys ==
  /\ At("uri")
  /\ free' = IF req.cgi THEN free ELSE free - 2
  /\ Go("lstat")
  /\ UNCHANGED <<got, line, chan, seen, page, out, end>>
  /\ Stay

(* parse_uri(): for static content GetConfig("root") opens config.ini and  *)
(* leaves it open.  A path of MAXLINE bytes or more overflows filename[].  *)
ParseUri ==
  /\ At("uri")
  /\ LET left == IF req.cgi THEN free ELSE free - 1
     IN \/ /\ ~req.cgi /\ free = 0 /\ Ends("exit")
        \/ /\ left = 0 \/ ~req.fits
           /\ (req.cgi \/ free > 0) /\ Ends("crash")
        \/ /\ left > 0 /\ free' = left
           /\ Go("lstat")
           /\ UNCHANGED <<got, line, chan, seen, page, out, end>>
  /\ Stay

(* lstat() and the branches on its result.  Over https the headers have    *)
(* been read already.                                                      *)
Lstat ==
  /\ At("lstat")
  /\ seen' = file
  /\ \/ file = "absent" /\ Respond("404")
     \/ file \in Directories /\ dirShow /\ Go("dir") /\ UNCHANGED page
     \/ /\ file # "absent" /\ ~(file \in Directories /\ dirShow)
        /\ Go(IF req.cgi THEN "dynamic"
              ELSE IF https THEN "static" ELSE "headers")
        /\ UNCHANGED page
  /\ UNCHANGED <<got, line, chan, free, out, end>>
  /\ Stay

(* serve_dir().  The message logged before it has is_static where a string *)
(* is expected: 1 is no address, 0 prints as (null).  Then the directory   *)
(* is opened and every entry of it looked at, which fails when it has gone *)
(* or when no descriptor is left for the user database; nobody looks       *)
(* whether opendir() and getpwuid() succeed, or files[] has room.          *)
ServeDir ==
  /\ At("dir")
  /\ \/ ~(req.cgi /\ Logs) /\ Ends("crash")
     \/ req.cgi /\ Logs /\ file \notin Directories \ {"faulty"} /\ Ends("crash")
     \/ req.cgi /\ free = 1 /\ Ends("crash")
     \/ req.cgi /\ Logs /\ StatFails /\ Ends("exit")
     \/ /\ req.cgi /\ Logs /\ file \in {"dir", "faulty"}
        /\ Respond("listing")
        /\ UNCHANGED <<got, line, chan, seen, free, out, end>>
  /\ Stay

\* Mutant of ReadHeaders: the line is tested before the next one is read.
ReadHeaders_PastBlank ==
  /\ At("headers") /\ ~https
  /\ ReadLine
  /\ Go(IF line = "blank" THEN IF req.cgi THEN "cgi" ELSE "static"
        ELSE "headers")
  /\ UNCHANGED <<fixed, files, chan, seen, free, page, out>>

\* Mutant of ReadHeaders: `if' for `while'.
ReadHeaders_Once ==
  /\ At("headers") /\ ~https
  /\ ReadLine
  /\ Go(IF req.cgi THEN "cgi" ELSE "static")
  /\ UNCHANGED <<fixed, files, chan, seen, free, page, out>>

\* strcmp(buf, "\r\n") finds no difference.
ReadsBlank(item) == item \in {"blank", "rest"}

(* get_requesthdrs() and post_requesthdrs(): lines up to one that reads    *)
(* like the blank one.  Nothing ends the loop when the client closes       *)
(* before it.                                                              *)
ReadHeaders ==
  /\ At("headers") /\ ~https
  /\ ReadLine
  /\ Go(IF ~ReadsBlank(line') THEN "headers"
        ELSE IF req.cgi THEN "cgi" ELSE "static")
  /\ UNCHANGED <<fixed, files, chan, seen, free, page, out>>

\* Mutant of CheckStatic: the type of the file alone is checked.
CheckStatic_TypeOnly ==
  /\ At("static")
  /\ IF IsRegular(seen) THEN Go("open") /\ UNCHANGED page ELSE Respond("403")
  /\ UNCHANGED <<got, line, chan, seen, free, out, end>>
  /\ Stay

CheckStatic ==
  /\ At("static")
  /\ \/ /\ ~(IsRegular(seen) /\ OwnerReads(seen))
        /\ Respond("403") /\ UNCHANGED end
     \/ /\ IsRegular(seen) /\ OwnerReads(seen) /\ Logs
        /\ Go("open") /\ UNCHANGED <<page, end>>
     \/ /\ IsRegular(seen) /\ OwnerReads(seen) /\ ~Logs
        /\ end' = "crash" /\ UNCHANGED <<pc, page>>
  /\ UNCHANGED <<got, line, chan, seen, free, out>>
  /\ Stay

(* serve_static(): opens the file by its name again and maps as many bytes *)
(* as lstat() counted, which cannot be 0.                                  *)
OpenFile ==
  /\ At("open")
  /\ \/ /\ free > 0 /\ Opens(file) /\ Maps(seen)
        /\ seen' = file
        /\ Respond("file")
        /\ UNCHANGED <<got, line, chan, free, out, end>>
     \/ /\ ~(free > 0 /\ Opens(file) /\ Maps(seen))
        /\ Ends("exit")
  /\ Stay

CheckDynamic ==
  /\ At("dynamic")
  /\ \/ /\ ~OwnerRuns(seen)
        /\ Respond("403")
     \/ /\ OwnerRuns(seen)
        /\ Go(IF https THEN "cgi" ELSE "headers") /\ UNCHANGED page
  /\ UNCHANGED <<got, line, chan, seen, free, out, end>>
  /\ Stay

(* get_dynamic() or post_dynamic() takes over.                             *)
CallDynamic ==
  /\ At("cgi")
  /\ Ends(IF Logs THEN "dynamic" ELSE "crash")
  /\ Stay

(* One part of the response.  A client that has gone may end an http       *)
(* worker, by SIGPIPE or through Rio_writen(), and an https one by         *)
(* SIGPIPE; SSL_write() itself reports to nobody.                          *)
Write(name) ==
  \/ /\ chan # "broken"
     /\ out' = Append(out, Part(page, chan, name))
     /\ UNCHANGED <<chan, end>>
  \/ /\ https /\ (closed \/ chan = "broken")
     /\ chan' = "broken"
     /\ UNCHANGED <<out, end>>
  \/ /\ closed
     /\ end' \in IF https THEN {"pipe"} ELSE {"pipe", "exit"}
     /\ UNCHANGED <<out, chan>>

SendHead ==
  /\ At("head")
  /\ Write("head")
  /\ IF end' = "no" THEN Go("body") ELSE UNCHANGED pc
  /\ UNCHANGED <<got, line, seen, free, page>>
  /\ Stay

\* Mutant of SendBody: serve_dir() returns instead of calling exit(0).
SendBody_DirReturns ==
  /\ At("body")
  /\ Write("body")
  /\ IF page = "listing" THEN Go("dynamic") ELSE Go("done")
  /\ UNCHANGED <<got, line, seen, free, page>>
  /\ Stay

(* All of the body.  The bytes of a mapped file that has been cut short    *)
(* are not there to be sent.                                               *)
WriteBody ==
  \/ /\ ~(page = "file" /\ seen = "empty")
     /\ Write("body")
     /\ Go("done")
     /\ UNCHANGED <<got, line, seen, free, page>>
  \/ page = "file" /\ "empty" \in {seen, file} /\ Ends("crash")

(* What the worker makes up itself has room in the socket's buffer.  A     *)
(* file may fill it: then the worker waits until the client reads.         *)
SendBody ==
  /\ At("body")
  /\ \/ WriteBody
     \/ /\ page = "file" /\ seen # "empty" /\ chan # "broken"
        /\ Go("full")
        /\ UNCHANGED <<got, line, chan, seen, free, page, out, end>>
  /\ Stay

(* The write goes on: the client reads, or has gone.                       *)
SendRest ==
  /\ At("full")
  /\ WriteBody
  /\ Stay

(* DoInteraction() or serve_dir() is done: exit.                           *)
Exit ==
  /\ At("done")
  /\ Ends("done")
  /\ Stay

-----------------------------------------------------------------------------
(* The client and the file system.                                         *)

\* Once the worker has ended it does not matter what they do.
Send ==
  /\ ~closed /\ pos < MessageLength /\ end = "no"
  /\ pos' = pos + 1
  /\ UNCHANGED <<gone, torn, fixed, files, worker>>

Close ==
  /\ ~closed /\ end = "no"
  /\ gone' \in {"closed", "reset"}
  /\ torn' \in {FALSE, pos < MessageLength}
  /\ UNCHANGED <<pos, fixed, files, worker>>

\* At the places where the worker goes by what it has seen: what changes
\* before it looks might have been so before, and what changes earlier after
\* that might as well do so there.
ChangeFile ==
  /\ changes < MaxChanges /\ end = "no" /\ req.fits
  /\ pc \in {"dir", "open"} \/ (page = "file" /\ pc \in {"body", "full"})
  /\ file' \in Files \ {file} /\ changes' = changes + 1
  /\ UNCHANGED <<fixed, client, worker>>

-----------------------------------------------------------------------------
Work ==
  \/ ReadRequest \/ SslPrepare \/ CheckMethod \/ ParseUri \/ Lstat
  \/ ServeDir \/ ReadHeaders \/ CheckStatic \/ OpenFile \/ CheckDynamic
  \/ CallDynamic \/ SendHead \/ SendBody \/ Exit

Next == Work \/ SendRest \/ Send \/ Close \/ ChangeFile

\* The handshake, or SSL_read(), waits for a client that says nothing.
Waits == At("first") /\ https /\ pos = 0 /\ ~closed

(* The kernel schedules the worker when nothing keeps it, and fails a      *)
(* write to a client that has reset; nothing makes the client act.         *)
Spec ==
  /\ Init /\ [][Next]_vars
  /\ WF_vars(~Waits /\ Work) /\ WF_vars(gone = "reset" /\ SendRest)

-----------------------------------------------------------------------------
TypeOK ==
  /\ req \in Requests /\ https \in BOOLEAN /\ dirShow \in BOOLEAN
  /\ pos \in Nat /\ got \in Nat
  /\ gone \in {"here", "closed", "reset"} /\ torn \in BOOLEAN
  /\ file \in Files /\ changes \in Nat
  /\ pc \in {"first", "method", "uri", "lstat", "dir", "headers", "static",
             "open", "dynamic", "cgi", "head", "body", "full", "done"}
  /\ line \in {"zero", "request", "field", "rest", "blank", "body", "torn"}
  /\ chan \in Channels \cup {"broken"}
  /\ seen \in Files \cup {"none"} /\ free \in Nat
  /\ page \in Pages \cup {"none"}
  /\ out \in Seq([page : Pages, channel : Channels, part : {"head", "body"}])
  /\ end \in {"no", "exit", "crash", "pipe", "dynamic", "done"}

\* The worker handles one transaction (module Transaction): it never sends
\* two responses, a body without its head, anything of an https response in
\* plain text, or anything after its end (mini_httpd_helper.c:608-726).
T == INSTANCE Transaction
       WITH channel <- IF https THEN "tls" ELSE "plain",
            over <- end # "no"
OneTransaction == T!TSpec

\* A worker that leaves a static request or hands over a CGI request on http
\* has taken the head of the message and not a byte of the body, which
\* post_dynamic()'s feeder reads next.  Only where a line was cut so that its
\* rest reads like a blank line, it has stopped there
\* (mini_httpd_helper.c:63, 674-677, 702-723).
HeadConsumed ==
  ~https /\ (end = "dynamic" \/ \E i \in 1..Len(out) : out[i].page = "file")
    => /\ got \in 1..HeadLength
       /\ got = HeadLength \/ Item(got) = "rest"
       /\ \A i \in 1..(got - 1) : Item(i) # "rest"

\* The answer a request deserves: README:8, 37 and the texts of the errors.
Deserved ==
  IF req.method = "other" THEN "501"
  ELSE IF file = "absent" THEN "404"
  ELSE IF file \in Directories THEN IF dirShow THEN "listing" ELSE "403"
  ELSE IF req.cgi THEN IF OwnerRuns(file) THEN "dynamic" ELSE "403"
  ELSE IF file \in {"private", "foreign"} THEN "403"
  ELSE "file"

\* The client has it, or the program runs that will give it.
Answered ==
  LET ch == IF https THEN "tls" ELSE "plain"
  IN IF Deserved = "dynamic" THEN out = <<>> /\ end = "dynamic"
     ELSE out = <<Part(Deserved, ch, "head"), Part(Deserved, ch, "body")>>

\* The requests whose answer the code loses: for a directory that is not under
\* cgi-bin or that serve_dir() cannot cope with, for a static file that is
\* empty or somebody else's, and for a URI that does not fit.
Unserved ==
  \/ Deserved = "listing" /\ (~req.cgi \/ file # "dir")
  \/ ~req.cgi /\ file \in {"empty", "foreign"}
  \/ ~req.fits

\* A worker that has its client's request and ends while the client waits,
\* the file was left alone and descriptors were there, has given the answer
\* the request deserves, in full; of those whose answer the code loses no
\* client gets a part or another answer (mini_httpd_helper.c:635-725).
AnsweredAsDeserved ==
  end # "no" /\ got > 0 /\ ~closed /\ changes = 0 /\ free > 1 =>
    Answered \/ (Unserved /\ out = <<>> /\ end \in {"exit", "crash"})

\* A worker ends once its client has sent the head of its message, whether
\* or not the client sends or closes anything more, unless it waits for the
\* client to read a file (mini_httpd_helper.c:63-68, 383-390).
HeadSentEnds ==
  (pos >= HeadLength) ~> (end # "no" \/ (pc = "full" /\ gone # "reset"))

(***************************************************************************)
(* Statements of the repository's comments and documents that the code     *)
(* does not live up to.                                                    *)
(***************************************************************************)

\* mini_httpd_helper.c:608: DoInteraction() handles ONE transaction: it is
\* over when its client has closed the connection, unless there is still a
\* file that the client does not read.
ClosedEnds == closed ~> (end # "no" \/ pc = "full")

\* README:8: `provide dircetory view function': a worker that has ended has
\* listed the directory its client asked for and still waits for.
DirectoryShown ==
  end # "no" /\ got > 0 /\ ~closed /\ changes = 0 /\ free > 1 /\ dirShow
    /\ req.method = "GET" /\ req.fits /\ file = "dir"
    => out # <<>> /\ out[1].page = "listing"
=============================================================================
