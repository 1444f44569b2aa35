------------------------------- MODULE Server -------------------------------
(***************************************************************************)
(* The process tree of mini-httpd: main() of src/main.c from the point     *)
(* where the options and the configuration have been read (line 93 on).    *)
(*                                                                         *)
(* The process started by the user is the HTTP listener.  When https is    *)
(* on it forks the HTTPS listener.  Each listener is single threaded: it   *)
(* accepts a connection, asks access_ornot() whether the peer may use the  *)
(* server, and either writes a 403 page itself or forks a worker that runs *)
(* DoInteraction() and exits.  Both listeners reap their children in the   *)
(* SIGCHLD handler that main() installed before the first fork.            *)
(*                                                                         *)
(* Every system call goes through a wrapper of src/wrap.c that calls       *)
(* exit(0) when the call fails, so a failing call in a listener is the end *)
(* of that listener; `cause' records which call it was.                    *)
(*                                                                         *)
(* What DoInteraction() does inside a worker is abstracted to: switch TLS  *)
(* on (HTTPS only), maybe answer, exit at any moment.                      *)
(***************************************************************************)
EXTENDS Naturals, FiniteSets

CONSTANTS
  HttpConns,    \* connections clients may open to the http port
  HttpsConns,   \* connections clients may open to the https port
  DoSsl,        \* dossl: whether the HTTPS listener is started
  FdLimit,      \* descriptors left in a listener's table when it starts
  ProcLimit,    \* processes the user may own at once, zombies included
  JobControl    \* connections whose workers may be stopped and continued

Listeners == {"http", "https"}
Conns == HttpConns \cup HttpsConns
\* The worker forked for connection c is identified by c itself.
Procs == Listeners \cup Conns
None == "none"

ASSUME ServerAssumption ==
  /\ HttpConns \cap HttpsConns = {}
  /\ Conns \cap (Listeners \cup {None, "init"}) = {}
  /\ DoSsl \in BOOLEAN /\ JobControl \subseteq Conns
  /\ FdLimit \in Nat \ {0} /\ ProcLimit \in Nat \ {0}

VARIABLES
  pc,        \* pc[l]: where listener l is in main()
  cur,       \* cur[l]: the connection behind l's `clientfd', or None
  status,    \* status[p]: life of process p
  pending,   \* pending[l]: SIGCHLD is pending for l (one bit: not queued)
  handling,  \* handling[l]: l is inside sigChldHandler (SIGCHLD blocked)
  held,      \* held[p]: connections open in p's descriptor table
  cfg,       \* cfg[l]: config.ini streams open in l's descriptor table
  tls,       \* tls[p]: p's copy of the flag `ishttps'
  verdict,   \* verdict[c]: what access_ornot() returned for c
  net,       \* net[c]: "idle", "queued" in the kernel or "accepted"
  program,   \* program[c]: connections open in the processes the worker of c
             \* forked (CGI program, POST feeder); {} when none runs
  sent,      \* sent[c]: <<page, channel>> pairs written in full to c
  cause      \* cause[l]: the failed call that ended listener l

vars == <<pc, cur, status, pending, handling, held, cfg, tls, verdict, net,
          program, sent, cause>>

-----------------------------------------------------------------------------
(* Processes, descriptors and signals, as the kernel sees them.            *)

ListenerPc == {"none", "boot", "bind", "sslinit", "accept", "check",
               "deny_head", "deny_body", "fork", "close", "dead"}
Status == {"none", "alive", "stopped", "zombie", "reaped"}
Causes == {"none", "bind", "cert", "accept", "config", "mask", "log", "peer",
           "fork", "waitpid"}
Pages == {"403", "page"}
Channels == {"plain", "tls"}

Service(c) == IF c \in HttpConns THEN "http" ELSE "https"
Parent(p) == IF p = "http" THEN "init"
             ELSE IF p = "https" THEN "http" ELSE Service(p)
Children(l) == {p \in Procs : Parent(p) = l}
Alive(p) == p \in Procs /\ status[p] \in {"alive", "stopped"}
Zombies(l) == {p \in Children(l) : status[p] = "zombie"}
LiveChildren(l) == {p \in Children(l) : Alive(p)}
Programs == {c \in Conns : program[c] # {}}
ProcessTableFull ==
  Cardinality({p \in Procs : status[p] \in {"alive", "stopped", "zombie"}})
    + Cardinality(Programs) >= ProcLimit

FdsUsed(l) == cfg[l] + Cardinality(held[l])
TableFull(l) == FdsUsed(l) >= FdLimit

\* The stream a lookup opens takes the last descriptor: a debug message after
\* it cannot open its log file and is written through the null pointer.
LastFdTaken(l) == FdsUsed(l) + 1 = FdLimit

\* The listening socket of l outlives l: workers and their programs inherit
\* it, across execve() too.
Started(l) == pc[l] \notin {"none", "boot", "bind", "dead"}
PortOpen(l) ==
  Started(l) \/ \E c \in Conns : Service(c) = l /\ (Alive(c) \/ c \in Programs)

\* The main program of l runs unless the signal handler interrupts it.
Running(l) == status[l] = "alive" /\ ~handling[l]

(* Process p ends.  It becomes a zombie of a living parent, which gets     *)
(* SIGCHLD; the children it leaves behind are adopted and reaped by init.  *)
StatusAfter(p) ==
  [q \in Procs |->
     IF q = p THEN IF Alive(Parent(p)) THEN "zombie" ELSE "reaped"
     ELSE IF q \in Zombies(p) THEN "reaped" ELSE status[q]]

SignalAfter(p) ==
  [l \in Listeners |->
     l # p /\ (pending[l] \/ (l = Parent(p) /\ Alive(l)))]

End(p) ==
  /\ status' = StatusAfter(p)
  /\ pending' = SignalAfter(p)
  /\ held' = [held EXCEPT ![p] = {}]

(* unix_error(): a wrapper's call failed, the listener prints and exits.   *)
Exit(l, why) ==
  /\ End(l)
  /\ pc' = [pc EXCEPT ![l] = "dead"]
  /\ cur' = [cur EXCEPT ![l] = None]
  /\ handling' = [handling EXCEPT ![l] = FALSE]
  /\ cfg' = [cfg EXCEPT ![l] = 0]
  /\ cause' = [cause EXCEPT ![l] = why]

GoTo(l, loc) == pc' = [pc EXCEPT ![l] = loc]

Init ==
  /\ pc = [l \in Listeners |-> IF l = "http" THEN "boot" ELSE "none"]
  /\ cur = [l \in Listeners |-> None]
  /\ status = [p \in Procs |-> IF p = "http" THEN "alive" ELSE "none"]
  /\ pending = [l \in Listeners |-> FALSE]
  /\ handling = [l \in Listeners |-> FALSE]
  /\ held = [p \in Procs |-> {}]
  /\ cfg = [l \in Listeners |-> 0]
  /\ tls = [p \in Procs |-> FALSE]
  /\ verdict = [c \in Conns |-> "none"]
  /\ net = [c \in Conns |-> "idle"]
  /\ program = [c \in Conns |-> {}]
  /\ sent = [c \in Conns |-> {}]
  /\ cause = [l \in Listeners |-> "none"]

-----------------------------------------------------------------------------
(* Start-up of the two listeners.                                          *)

(* The HTTP listener forks the HTTPS listener when dossl is set.           *)
StartHttps ==
  /\ Running("http") /\ pc["http"] = "boot"
  /\ \/ /\ ~DoSsl
        /\ GoTo("http", "bind")
        /\ UNCHANGED <<cur, status, pending, handling, held, cfg, cause>>
     \/ /\ DoSsl /\ ~ProcessTableFull
        /\ pc' = [pc EXCEPT !["http"] = "bind", !["https"] = "bind"]
        /\ status' = [status EXCEPT !["https"] = "alive"]
        /\ UNCHANGED <<cur, pending, handling, held, cfg, cause>>
     \/ /\ DoSsl /\ ProcessTableFull
        /\ Exit("http", "fork")
  /\ UNCHANGED <<tls, verdict, net, program, sent>>

(* Open_listenfd(): socket, SO_REUSEADDR, bind and listen, any of which    *)
(* may fail (the port may be taken or privileged).                         *)
OpenListen(l) ==
  /\ Running(l) /\ pc[l] = "bind"
  /\ \/ /\ GoTo(l, IF l = "https" THEN "sslinit" ELSE "accept")
        /\ UNCHANGED <<cur, status, pending, handling, held, cfg, cause>>
     \/ Exit(l, "bind")
  /\ UNCHANGED <<tls, verdict, net, program, sent>>

(* ssl_init(): reads `ca' from config.ini, through a stream that is never  *)
(* closed, then loads the certificate and its key.  The debug message that *)
(* follows needs one descriptor more, as LastFdTaken says.                 *)
SslInit ==
  /\ Running("https") /\ pc["https"] = "sslinit"
  /\ \/ /\ ~TableFull("https") /\ ~LastFdTaken("https")
        /\ cfg' = [cfg EXCEPT !["https"] = @ + 1]
        /\ GoTo("https", "accept")
        /\ UNCHANGED <<cur, status, pending, handling, held, cause>>
     \/ /\ ~TableFull("https")
        /\ Exit("https", "cert")
     \/ /\ LastFdTaken("https")
        /\ Exit("https", "log")
     \/ /\ TableFull("https")
        /\ Exit("https", "config")
  /\ UNCHANGED <<tls, verdict, net, program, sent>>

-----------------------------------------------------------------------------
(* The accept loop.                                                        *)

(* Accept(): takes a connection the kernel has queued.                     *)
Accept(l) ==
  /\ Running(l) /\ pc[l] = "accept"
  /\ \E c \in Conns :
       /\ Service(c) = l /\ net[c] = "queued" /\ ~TableFull(l)
       /\ net' = [net EXCEPT ![c] = "accepted"]
       /\ cur' = [cur EXCEPT ![l] = c]
       /\ held' = [held EXCEPT ![l] = @ \cup {c}]
  /\ GoTo(l, "check")
  /\ UNCHANGED <<status, pending, handling, cfg, tls, verdict, program,
                 sent, cause>>

(* Accept() with no descriptor left: accept fails with EMFILE before it    *)
(* waits for a connection.                                                 *)
AcceptFails(l) ==
  /\ Running(l) /\ pc[l] = "accept" /\ TableFull(l)
  /\ Exit(l, "accept")
  /\ UNCHANGED <<tls, verdict, net, program, sent>>

\* Mutant of CheckAccess: the stream is closed although it was never open.
CheckAccess_OverClose(l) ==
  /\ Running(l) /\ pc[l] = "check"
  /\ cfg' = [cfg EXCEPT ![l] = @ - 1]
  /\ verdict' = [verdict EXCEPT ![cur[l]] = "permit"]
  /\ GoTo(l, "fork")
  /\ UNCHANGED <<cur, status, pending, handling, held, cause, tls, net, program, sent>>

\* Mutant of CheckAccess: GetConfig is called for two keys per connection.
CheckAccess_TwoKeys(l) ==
  /\ Running(l) /\ pc[l] = "check" /\ FdsUsed(l) + 1 < FdLimit
  /\ cfg' = [cfg EXCEPT ![l] = @ + 2]
  /\ \E v \in {"permit", "deny"} :
       /\ verdict' = [verdict EXCEPT ![cur[l]] = v]
       /\ GoTo(l, IF v = "permit" THEN "fork" ELSE "deny_head")
  /\ UNCHANGED <<cur, status, pending, handling, held, cause, tls, net, program, sent>>

(* access_ornot(): GetConfig("mask") opens config.ini and never closes it. *)
(* The file is read again for every connection, so the verdict is open;    *)
(* an empty mask permits everybody, and logs that.  Without the key, or    *)
(* with a mask that AccessControl shows to be none, the listener ends.     *)
CheckAccess(l) ==
  /\ Running(l) /\ pc[l] = "check"
  /\ \/ /\ ~TableFull(l)
        /\ cfg' = [cfg EXCEPT ![l] = @ + 1]
        /\ \E v \in {"permit", "deny"} :
             /\ verdict' = [verdict EXCEPT ![cur[l]] = v]
             /\ GoTo(l, IF v = "permit" THEN "fork" ELSE "deny_head")
        /\ UNCHANGED <<cur, status, pending, handling, held, cause>>
     \/ /\ TableFull(l)
        /\ Exit(l, "config")
        /\ UNCHANGED verdict
     \/ /\ ~TableFull(l)
        /\ Exit(l, "mask")
        /\ UNCHANGED verdict
     \/ /\ LastFdTaken(l)
        /\ Exit(l, "log")
        /\ UNCHANGED verdict
  /\ UNCHANGED <<tls, net, program, sent>>

(* clienterror() for a denied client, run by the listener: the header and  *)
(* then the body.  The client may have gone at any time, and then a write  *)
(* ends the listener, by Rio_writen's error exit or by SIGPIPE.            *)
Channel(p) == IF tls[p] THEN "tls" ELSE "plain"

DenyWrite(l, from, to) ==
  /\ Running(l) /\ pc[l] = from
  /\ GoTo(l, to)
  /\ UNCHANGED <<status, pending, handling, cfg, tls, verdict, net, program, cause>>

DenyHead(l) ==
  /\ DenyWrite(l, "deny_head", "deny_body")
  /\ UNCHANGED <<cur, held, sent>>

\* Mutant of DenyBody: no `continue' after clienterror().
DenyBody_FallsThrough(l) ==
  /\ DenyWrite(l, "deny_body", "fork")
  /\ sent' = [sent EXCEPT ![cur[l]] = @ \cup {<<"403", Channel(l)>>}]
  /\ UNCHANGED <<cur, held>>

\* After the body main() goes on with `continue': clientfd stays open.
DenyBody(l) ==
  /\ DenyWrite(l, "deny_body", "accept")
  /\ sent' = [sent EXCEPT ![cur[l]] = @ \cup {<<"403", Channel(l)>>}]
  /\ cur' = [cur EXCEPT ![l] = None]
  /\ UNCHANGED held

DenyFails(l) ==
  /\ Running(l) /\ pc[l] \in {"deny_head", "deny_body"}
  /\ Exit(l, "peer")
  /\ UNCHANGED <<tls, verdict, net, program, sent>>

(* Fork() of the worker, which gets a copy of the descriptor table and of  *)
(* the flag ishttps; a failing fork ends the listener.                     *)
ForkWorker(l) ==
  /\ Running(l) /\ pc[l] = "fork"
  /\ \/ /\ ~ProcessTableFull
        /\ status' = [status EXCEPT ![cur[l]] = "alive"]
        /\ held' = [held EXCEPT ![cur[l]] = held[l]]
        /\ tls' = [tls EXCEPT ![cur[l]] = tls[l]]
        /\ GoTo(l, "close")
        /\ UNCHANGED <<cur, pending, handling, cfg, cause>>
     \/ /\ ProcessTableFull
        /\ Exit(l, "fork")
        /\ UNCHANGED tls
  /\ UNCHANGED <<verdict, net, program, sent>>

\* Mutant of CloseConn: the parent keeps its copy of clientfd.
CloseConn_Keeps(l) ==
  /\ Running(l) /\ pc[l] = "close"
  /\ cur' = [cur EXCEPT ![l] = None]
  /\ GoTo(l, "accept")
  /\ UNCHANGED <<status, pending, handling, held, cfg, tls, verdict, net,
                 program, sent, cause>>

(* The parent closes its copy of clientfd and goes back to Accept().       *)
CloseConn(l) ==
  /\ Running(l) /\ pc[l] = "close"
  /\ held' = [held EXCEPT ![l] = @ \ {cur[l]}]
  /\ cur' = [cur EXCEPT ![l] = None]
  /\ GoTo(l, "accept")
  /\ UNCHANGED <<status, pending, handling, cfg, tls, verdict, net, program, sent, cause>>

-----------------------------------------------------------------------------
(* sigChldHandler.                                                         *)

(* The pending SIGCHLD is delivered: between two steps of the main program *)
(* or inside a blocked Accept(), which SA_RESTART resumes afterwards.      *)
Deliver(l) ==
  /\ Running(l) /\ pending[l]
  /\ pending' = [pending EXCEPT ![l] = FALSE]
  /\ handling' = [handling EXCEPT ![l] = TRUE]
  /\ UNCHANGED <<pc, cur, status, held, cfg, tls, verdict, net, program, sent, cause>>

\* Mutant of Reap: while (Waitpid(-1, NULL, WNOHANG) > 0), whose last call
\* fails when it has reaped every child.
Reap_Loops(l) ==
  /\ handling[l]
  /\ \/ /\ LiveChildren(l) # {}
        /\ status' = [p \in Procs |->
                        IF p \in Zombies(l) THEN "reaped" ELSE status[p]]
        /\ handling' = [handling EXCEPT ![l] = FALSE]
        /\ UNCHANGED <<pc, cur, pending, held, cfg, cause>>
     \/ /\ LiveChildren(l) = {}
        /\ Exit(l, "waitpid")
  /\ UNCHANGED <<tls, verdict, net, program, sent>>

\* Mutant of Reap: the loop without WNOHANG waits for every living child.
Reap_Waits(l) ==
  /\ handling[l]
  /\ \E z \in Zombies(l) :
       /\ status' = [status EXCEPT ![z] = "reaped"]
       /\ handling' = [handling EXCEPT ![l] =
                          Zombies(l) # {z} \/ LiveChildren(l) # {}]
  /\ UNCHANGED <<pc, cur, pending, held, cfg, cause, tls, verdict, net, program, sent>>

(* Waitpid(-1, NULL, WNOHANG), once: reaps one zombie, finds none among    *)
(* living children, or fails for want of any child and exits.              *)
Reap(l) ==
  /\ handling[l]
  /\ \/ /\ \E z \in Zombies(l) : status' = [status EXCEPT ![z] = "reaped"]
        /\ handling' = [handling EXCEPT ![l] = FALSE]
        /\ UNCHANGED <<pc, cur, pending, held, cfg, cause>>
     \/ /\ Zombies(l) = {} /\ LiveChildren(l) # {}
        /\ handling' = [handling EXCEPT ![l] = FALSE]
        /\ UNCHANGED <<pc, cur, status, pending, held, cfg, cause>>
     \/ /\ Zombies(l) = {} /\ LiveChildren(l) = {}
        /\ Exit(l, "waitpid")
  /\ UNCHANGED <<tls, verdict, net, program, sent>>

-----------------------------------------------------------------------------
(* Workers and clients.                                                    *)

WorkerRuns(c) == status[c] = "alive"

(* mini_httpd_ssl_enable(), the first call of an HTTPS worker.             *)
EnableSsl(c) ==
  /\ WorkerRuns(c) /\ Service(c) = "https" /\ ~tls[c]
  /\ tls' = [tls EXCEPT ![c] = TRUE]
  /\ UNCHANGED <<pc, cur, status, pending, handling, held, cfg, verdict, net,
                 program, sent, cause>>

(* get_dynamic() or post_dynamic() forks the CGI program or the feeder of  *)
(* its input, which inherits all the worker has open and is not waited     *)
(* for: it may outlive the worker and is then a child of init.             *)
StartProgram(c) ==
  /\ WorkerRuns(c) /\ (Service(c) = "https" => tls[c])
  /\ program[c] = {} /\ ~ProcessTableFull
  /\ program' = [program EXCEPT ![c] = held[c]]
  /\ UNCHANGED <<pc, cur, status, pending, handling, held, cfg, tls,
                 verdict, net, sent, cause>>

EndProgram(c) ==
  /\ program[c] # {}
  /\ program' = [program EXCEPT ![c] = {}]
  /\ UNCHANGED <<pc, cur, status, pending, handling, held, cfg, tls,
                 verdict, net, sent, cause>>

\* Mutant of Answer: DoInteraction() before mini_httpd_ssl_enable().
Answer_Early(c) ==
  /\ WorkerRuns(c) \/ (Service(c) = "http" /\ c \in Programs)
  /\ <<"page", Channel(c)>> \notin sent[c]
  /\ sent' = [sent EXCEPT ![c] = @ \cup {<<"page", Channel(c)>>}]
  /\ UNCHANGED <<pc, cur, status, pending, handling, held, cfg, tls, verdict, cause,
                 net, program>>

(* The response, whatever it is, is written by DoInteraction() or, to an   *)
(* http client, by the CGI program itself.                                 *)
Answer(c) ==
  /\ \/ WorkerRuns(c) /\ (Service(c) = "https" => tls[c])
     \/ Service(c) = "http" /\ c \in Programs
  /\ <<"page", Channel(c)>> \notin sent[c]
  /\ sent' = [sent EXCEPT ![c] = @ \cup {<<"page", Channel(c)>>}]
  /\ UNCHANGED <<pc, cur, status, pending, handling, held, cfg, tls, verdict,
                 net, program, cause>>

(* The worker ends: exit(1) after DoInteraction(), an error exit inside    *)
(* it, or a fatal signal.                                                  *)
WorkerExit(c) ==
  /\ WorkerRuns(c)
  /\ End(c)
  /\ UNCHANGED <<pc, cur, handling, cfg, tls, verdict, net, program,
                 sent, cause>>

(* Job control.  sa_flags has no SA_NOCLDSTOP, so the parent gets SIGCHLD  *)
(* for a child that stops or continues as well.                            *)
Toggle(c, from, to) ==
  /\ c \in JobControl /\ status[c] = from
  /\ status' = [status EXCEPT ![c] = to]
  /\ pending' = [pending EXCEPT ![Service(c)] = @ \/ Alive(Service(c))]
  /\ UNCHANGED <<pc, cur, handling, held, cfg, tls, verdict, net, program, sent, cause>>

Stop(c) == Toggle(c, "alive", "stopped")
Continue(c) == Toggle(c, "stopped", "alive")

(* A client connects; the kernel queues it while anyone holds the port.    *)
Connect(c) ==
  /\ net[c] = "idle" /\ PortOpen(Service(c))
  /\ net' = [net EXCEPT ![c] = "queued"]
  /\ UNCHANGED <<pc, cur, status, pending, handling, held, cfg, tls, verdict,
                 program, sent, cause>>

-----------------------------------------------------------------------------
Main(l) ==
  \/ l = "http" /\ StartHttps
  \/ OpenListen(l)
  \/ l = "https" /\ SslInit
  \/ Accept(l) \/ AcceptFails(l) \/ CheckAccess(l)
  \/ DenyHead(l) \/ DenyBody(l) \/ DenyFails(l)
  \/ ForkWorker(l) \/ CloseConn(l)

Handler(l) == Deliver(l) \/ Reap(l)

Worker(c) ==
  EnableSsl(c) \/ StartProgram(c) \/ Answer(c) \/ WorkerExit(c) \/ EndProgram(c)

Environment(c) == Stop(c) \/ Continue(c) \/ Connect(c)

Next ==
  \/ \E l \in Listeners : Main(l) \/ Handler(l)
  \/ \E c \in Conns : Worker(c) \/ Environment(c)

(* The kernel schedules a runnable listener and delivers a pending signal  *)
(* sooner or later.  Nothing makes a worker end or a client act.           *)
Fairness == \A l \in Listeners : WF_vars(Main(l)) /\ WF_vars(Handler(l))

Spec == Init /\ [][Next]_vars /\ Fairness

-----------------------------------------------------------------------------
TypeOK ==
  /\ pc \in [Listeners -> ListenerPc]
  /\ cur \in [Listeners -> Conns \cup {None}]
  /\ status \in [Procs -> Status]
  /\ pending \in [Listeners -> BOOLEAN]
  /\ handling \in [Listeners -> BOOLEAN]
  /\ held \in [Procs -> SUBSET Conns]
  /\ cfg \in [Listeners -> Nat]
  /\ tls \in [Procs -> BOOLEAN]
  /\ verdict \in [Conns -> {"none", "permit", "deny"}]
  /\ net \in [Conns -> {"idle", "queued", "accepted"}]
  /\ program \in [Conns -> SUBSET Conns]
  /\ sent \in [Conns -> SUBSET (Pages \X Channels)]
  /\ cause \in [Listeners -> Causes]

(***************************************************************************)
(* Safety.                                                                 *)
(***************************************************************************)

\* No worker of listener l is ever stopped or continued.
Undisturbed(l) == \A c \in JobControl : Service(c) # l

\* Every SIGCHLD that is pending or being handled has a zombie of its own,
\* so that the one waitpid() of each handler run finds a child to reap
\* (main.c:19-23: one Waitpid per signal, signals coalesce).  The handler
\* never ends its listener: Waitpid(), which exits on ECHILD
\* (wrap.c:69-73), has never been called without a child.  It may be when
\* children stop and continue, hence the condition; the children of the
\* other listener do not matter.
SignalsCovered ==
  \A l \in Listeners : Undisturbed(l) =>
    /\ pending[l] \/ handling[l] => Zombies(l) # {}
    /\ pending[l] /\ handling[l] => \E y, z \in Zombies(l) : y # z
    /\ cause[l] # "waitpid"

\* The descriptor of a permitted connection is open in its own worker and,
\* from Accept() to Close() only, in its listener: no sibling worker, no
\* other listener, no later child and no program of one of them ever holds
\* it (main.c:103-123).
ServedConnPrivate ==
  \A c \in Conns : verdict[c] = "permit" =>
    /\ \A p \in Procs : c \in held[p] =>
         \/ p = c
         \/ /\ p = Service(c) /\ cur[p] = c
            /\ pc[p] \in {"fork", "close"}
    /\ \A d \in Conns : c \in program[d] => d = c

\* Every descriptor of a living listener is accounted for: a config.ini
\* stream per access check (and one for `ca'), a connection per denial, and
\* the connection it is working on; and all of them fit its table
\* (main.c:133-140, parse_config.c:11-15).
DescriptorLedger ==
  \A l \in Listeners : status[l] = "alive" =>
    LET checked(v) == {c \in Conns : Service(c) = l /\ verdict[c] \in v}
        ca == IF l = "https" /\ pc[l] \notin {"bind", "sslinit"}
              THEN 1 ELSE 0
    IN /\ cfg[l] = ca + Cardinality(checked({"permit", "deny"}))
       /\ held[l] = checked({"deny"}) \cup ({cur[l]} \ {None})
       /\ FdsUsed(l) <= FdLimit

\* A worker exists only for a connection access_ornot() has permitted, a
\* denied client gets nothing but the 403 page and a permitted one never
\* gets it from the listener (main.c:106-123, 136-152).
AccessEnforced ==
  \A c \in Conns :
    /\ status[c] # "none" => verdict[c] = "permit"
    /\ \A ch \in Channels :
         /\ <<"page", ch>> \in sent[c] => verdict[c] = "permit"
         /\ <<"403", ch>> \in sent[c] => verdict[c] = "deny"

Finished(c) ==
  status[c] \in {"zombie", "reaped"} /\ c \notin Programs

\* How far connection c has come: no process has it, the listener has taken
\* it, has judged it, a worker serves it, or worker and program are gone.
Stage(c) ==
  IF Finished(c) THEN "over"
  ELSE IF status[c] # "none" \/ c \in Programs THEN "served"
  ELSE IF verdict[c] = "deny" THEN "denied"
  ELSE IF verdict[c] = "permit" THEN "permitted"
  ELSE IF net[c] = "accepted" THEN "taken" ELSE "waiting"

\* Every client is treated as module Connection says: the verdict comes
\* first and is final, and what is sent is what it allows, once and on the
\* channel of the client's port (main.c:103-123, 133-152).
Client(c) ==
  INSTANCE Connection
    WITH stage <- Stage(c), sent <- sent[c],
         Promised <- IF Service(c) = "https" THEN "tls" ELSE "plain"
ServedAsPromised ==
  /\ \A c \in Conns : Client(c)!CInit
  /\ [][\A c \in Conns : [Client(c)!CNext]_(Client(c)!cvars)]_vars

(***************************************************************************)
(* Liveness.                                                               *)
(***************************************************************************)

Held(c) ==
  \/ \E p \in Procs : c \in held[p]
  \/ \E d \in Conns : c \in program[d]
\* Once its worker and the program it started have ended, no process keeps a
\* permitted connection open, so its client sees end-of-file (main.c:112-116:
\* the parent's Close).
EofAfterWorker ==
  \A c \in Conns : (verdict[c] = "permit" /\ Finished(c)) ~> ~Held(c)

\* A connection queued at a listener that accepts is given a worker or the
\* 403 page, whatever the workers of other clients do, unless the listener
\* ends (main.c:103-123: SIGCHLD never keeps main() from its loop).
ConnectionDisposed ==
  \A c \in Conns :
    net[c] = "queued" /\ Started(Service(c))
      ~> \/ status[c] # "none"
         \/ <<"403", "plain">> \in sent[c]
         \/ status[Service(c)] # "alive"

(***************************************************************************)
(* A statement of the repository's comments that the code does not live    *)
(* up to.                                                                  *)
(***************************************************************************)

\* main.c:18: the handler is there `to protect zimble process': a dead
\* worker of a living listener does not stay a zombie.
ZombiesReaped ==
  \A p \in Procs :
    status[p] = "zombie" ~> status[p] # "zombie"

=============================================================================
