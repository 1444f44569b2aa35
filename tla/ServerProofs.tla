---------------------------- MODULE ServerProofs ----------------------------
(***************************************************************************)
(* Proofs about Server, for any number of connections, any descriptor and  *)
(* process limits, with and without https.                                 *)
(***************************************************************************)
EXTENDS Server, FiniteSetTheorems, TLAPS

(***************************************************************************)
(* Type correctness.                                                       *)
(***************************************************************************)

\* What Exit() leaves behind is well typed.
LEMMA ExitTypes ==
  ASSUME TypeOK, NEW l \in Listeners, NEW why \in Causes, Exit(l, why)
  PROVE  /\ pc' \in [Listeners -> ListenerPc]
         /\ cur' \in [Listeners -> Conns \cup {None}]
         /\ status' \in [Procs -> Status]
         /\ pending' \in [Listeners -> BOOLEAN]
         /\ handling' \in [Listeners -> BOOLEAN]
         /\ held' \in [Procs -> SUBSET Conns]
         /\ cfg' \in [Listeners -> Nat]
         /\ cause' \in [Listeners -> Causes]
<1>1. status' \in [Procs -> Status]
  BY DEF TypeOK, Exit, End, StatusAfter, Status
<1>2. pending' \in [Listeners -> BOOLEAN]
  BY DEF TypeOK, Exit, End, SignalAfter, Alive
<1>3. held' \in [Procs -> SUBSET Conns]
  BY DEF TypeOK, Exit, End
<1>4. pc' \in [Listeners -> ListenerPc] /\ cur' \in [Listeners -> Conns \cup {None}]
  BY DEF TypeOK, Exit, ListenerPc
<1>5. handling' \in [Listeners -> BOOLEAN] /\ cfg' \in [Listeners -> Nat]
  BY DEF TypeOK, Exit
<1>6. cause' \in [Listeners -> Causes]
  BY DEF TypeOK, Exit
<1> QED BY <1>1, <1>2, <1>3, <1>4, <1>5, <1>6

\* The steps of a listener's main program keep the types.
LEMMA MainTypes ==
  ASSUME TypeOK, NEW l \in Listeners, Main(l)
  PROVE  TypeOK'
<1> USE DEF TypeOK, GoTo, ListenerPc
<1>1. CASE l = "http" /\ StartHttps
  <2>1. UNCHANGED <<tls, verdict, net, program, sent>>
    BY <1>1 DEF StartHttps
  <2>2. CASE Exit("http", "fork")
    BY <1>1, <2>1, <2>2, ExitTypes DEF Causes
  <2>3. CASE /\ GoTo("http", "bind")
             /\ UNCHANGED <<cur, status, pending, handling, held, cfg, cause>>
    BY <2>1, <2>3
  <2>4. CASE /\ pc' = [pc EXCEPT !["http"] = "bind", !["https"] = "bind"]
             /\ status' = [status EXCEPT !["https"] = "alive"]
             /\ UNCHANGED <<cur, pending, handling, held, cfg, cause>>
    BY <2>1, <2>4 DEF Status
  <2> QED BY <1>1, <2>2, <2>3, <2>4 DEF StartHttps
<1>2. CASE OpenListen(l)
  <2>1. CASE Exit(l, "bind")
    BY <1>2, <2>1, ExitTypes DEF OpenListen, Causes
  <2>2. CASE ~Exit(l, "bind")
    BY <1>2, <2>2 DEF OpenListen
  <2> QED BY <2>1, <2>2
<1>3. CASE l = "https" /\ SslInit
  <2>1. CASE \/ Exit("https", "cert") \/ Exit("https", "config")
             \/ Exit("https", "log")
    BY <1>3, <2>1, ExitTypes DEF SslInit, Causes
  <2>2. CASE ~(\/ Exit("https", "cert") \/ Exit("https", "config")
               \/ Exit("https", "log"))
    BY <1>3, <2>2 DEF SslInit
  <2> QED BY <2>1, <2>2
<1>4. CASE Accept(l)
  BY <1>4 DEF Accept, Procs
<1>5. CASE AcceptFails(l)
  BY <1>5, ExitTypes DEF AcceptFails, Causes
<1>6. CASE CheckAccess(l)
  <2>1. CASE Exit(l, "config") \/ Exit(l, "mask") \/ Exit(l, "log")
    <3>1. PICK why \in Causes : Exit(l, why)
      BY <2>1 DEF Causes
    <3>2. UNCHANGED <<verdict, tls, net, program, sent>>
      BY <1>6, <2>1 DEF CheckAccess, Exit
    <3> QED BY <3>1, <3>2, ExitTypes
  <2>2. CASE ~(Exit(l, "config") \/ Exit(l, "mask") \/ Exit(l, "log"))
    BY <1>6, <2>2 DEF CheckAccess
  <2> QED BY <2>1, <2>2
<1>7. CASE DenyHead(l)
  BY <1>7 DEF DenyHead, DenyWrite
<1>8. CASE DenyBody(l)
  <2>1. <<"403", Channel(l)>> \in Pages \X Channels
    BY DEF Channel, Pages, Channels
  <2> QED BY <1>8, <2>1 DEF DenyBody, DenyWrite
<1>9. CASE DenyFails(l)
  BY <1>9, ExitTypes DEF DenyFails, Causes
<1>10. CASE ForkWorker(l)
  <2>1. UNCHANGED <<verdict, net, program, sent>>
    BY <1>10 DEF ForkWorker
  <2>2. CASE Exit(l, "fork") /\ UNCHANGED tls
    BY <2>1, <2>2, ExitTypes DEF Causes
  <2>3. CASE /\ status' = [status EXCEPT ![cur[l]] = "alive"]
             /\ held' = [held EXCEPT ![cur[l]] = held[l]]
             /\ tls' = [tls EXCEPT ![cur[l]] = tls[l]]
             /\ GoTo(l, "close")
             /\ UNCHANGED <<cur, pending, handling, cfg, cause>>
    BY <2>1, <2>3 DEF Status, Procs
  <2> QED BY <1>10, <2>2, <2>3 DEF ForkWorker
<1>11. CASE CloseConn(l)
  BY <1>11 DEF CloseConn, Procs
<1> QED
  BY <1>1, <1>2, <1>3, <1>4, <1>5, <1>6, <1>7, <1>8, <1>9, <1>10, <1>11
     DEF Main

\* The steps of the signal handler keep the types.
LEMMA HandlerTypes ==
  ASSUME TypeOK, NEW l \in Listeners, Handler(l)
  PROVE  TypeOK'
<1> USE DEF TypeOK
<1>1. CASE Deliver(l)
  BY <1>1 DEF Deliver
<1>2. CASE Reap(l)
  <2>1. CASE Exit(l, "waitpid")
    BY <1>2, <2>1, ExitTypes DEF Reap, Causes
  <2>2. CASE ~Exit(l, "waitpid")
    BY <1>2, <2>2 DEF Reap, Status
  <2> QED BY <2>1, <2>2
<1> QED BY <1>1, <1>2 DEF Handler

\* The steps of workers and clients keep the types.
LEMMA ConnTypes ==
  ASSUME TypeOK, NEW c \in Conns, Worker(c) \/ Environment(c)
  PROVE  TypeOK'
<1> USE DEF TypeOK
<1>1. CASE EnableSsl(c)
  BY <1>1 DEF EnableSsl
<1>2. CASE Answer(c)
  <2>1. <<"page", Channel(c)>> \in Pages \X Channels
    BY DEF Channel, Pages, Channels
  <2> QED BY <1>2, <2>1 DEF Answer
<1>3. CASE StartProgram(c)
  BY <1>3 DEF StartProgram, Procs
<1>4. CASE EndProgram(c)
  BY <1>4 DEF EndProgram
<1>5. CASE WorkerExit(c)
  BY <1>5 DEF WorkerExit, End, StatusAfter, SignalAfter, Alive, Status
<1>6. CASE Stop(c)
  BY <1>6 DEF Stop, Toggle, Status, Alive
<1>7. CASE Continue(c)
  BY <1>7 DEF Continue, Toggle, Status, Alive
<1>8. CASE Connect(c)
  BY <1>8 DEF Connect
<1> QED
  BY <1>1, <1>2, <1>3, <1>4, <1>5, <1>6, <1>7, <1>8
     DEF Worker, Environment

\* Every reachable state is well typed.
THEOREM TypeCorrect == Spec => []TypeOK
<1>1. Init => TypeOK
  BY DEF Init, TypeOK, ListenerPc, Status, Causes
<1>2. TypeOK /\ [Next]_vars => TypeOK'
  <2> SUFFICES ASSUME TypeOK, [Next]_vars PROVE TypeOK'
    OBVIOUS
  <2>1. CASE UNCHANGED vars
    BY <2>1 DEF vars, TypeOK
  <2> QED BY <2>1, MainTypes, HandlerTypes, ConnTypes DEF Next
<1> QED BY <1>1, <1>2, PTL DEF Spec

-----------------------------------------------------------------------------
(***************************************************************************)
(* The inductive invariant.                                                *)
(***************************************************************************)

AtConn(l) == pc[l] \in {"check", "deny_head", "deny_body", "fork", "close"}

\* The connection a listener works on, and what has been decided about it.
LoopInv ==
  \A l \in Listeners : AtConn(l) =>
    /\ cur[l] \in Conns /\ Service(cur[l]) = l /\ net[cur[l]] = "accepted"
    /\ pc[l] = "check" => verdict[cur[l]] = "none"
    /\ pc[l] \in {"deny_head", "deny_body"} => verdict[cur[l]] = "deny"
    /\ pc[l] \in {"fork", "close"} => verdict[cur[l]] = "permit"
    /\ pc[l] # "close" => status[cur[l]] = "none"

\* A connection that has not been accepted has left no trace.
FreshInv ==
  \A c \in Conns : net[c] # "accepted" =>
    /\ verdict[c] = "none"
    /\ \A p \in Procs : c \notin held[p]
    /\ \A d \in Conns : c \notin program[d]

\* Who holds a connection that has not been denied.
HeldInv ==
  \A c \in Conns : verdict[c] # "deny" =>
    /\ \A p \in Procs : c \in held[p] =>
         p = c \/ (p = Service(c) /\ cur[p] = c /\ AtConn(p))
    /\ \A d \in Conns : c \in program[d] => d = c

\* Only a worker has programs.
ProgramInv == \A c \in Conns : program[c] # {} => status[c] # "none"

\* SIGCHLD is pending for or handled by living listeners only.
SignalledAlive ==
  \A l \in Listeners : pending[l] \/ handling[l] => Alive(l)

\* The HTTPS listener does not exist before the HTTP listener forks it.
BootInv ==
  pc["http"] = "boot" => status["https"] = "none" /\ pc["https"] = "none"

\* SignalsCovered in two parts.
Covered ==
  \A l \in Listeners : Undisturbed(l) =>
    /\ pending[l] \/ handling[l] => Zombies(l) # {}
    /\ pending[l] /\ handling[l] => \E y, z \in Zombies(l) : y # z

NeverFails == \A l \in Listeners : Undisturbed(l) => cause[l] # "waitpid"

ConnInv ==
  LoopInv /\ FreshInv /\ HeldInv /\ ProgramInv /\ AccessEnforced

SignalInv ==
  SignalledAlive /\ BootInv /\ Covered /\ NeverFails

IInv == TypeOK /\ ConnInv /\ SignalInv

-----------------------------------------------------------------------------
(***************************************************************************)
(* Facts about the process tree.                                           *)
(***************************************************************************)

\* Connections, listeners and init are different processes.
LEMMA Tree ==
  /\ Listeners \subseteq Procs /\ Conns \subseteq Procs
  /\ "init" \notin Procs /\ None \notin Conns
  /\ Parent("http") = "init" /\ Parent("https") = "http"
  /\ \A c \in Conns : /\ c \notin Listeners
                      /\ Service(c) \in Listeners
                      /\ Parent(c) = Service(c)
BY ServerAssumption DEF Listeners, Conns, Procs, None, Parent, Service

\* Zombies(l), spelled out.
LEMMA ZombieOf ==
  \A l, z : z \in Zombies(l) <=>
    z \in Procs /\ Parent(z) = l /\ status[z] = "zombie"
BY DEF Zombies, Children

\* The same in the next state.
LEMMA ZombieOfNext ==
  \A l, z : z \in Zombies(l)' <=>
    z \in Procs /\ Parent(z) = l /\ status'[z] = "zombie"
BY DEF Zombies, Children

\* The end of a process that is alive: it becomes a zombie of a living
\* parent or nothing at all, and its own zombies go with it.
LEMMA EndFacts ==
  ASSUME TypeOK, NEW p \in Procs, Alive(p), End(p)
  PROVE  /\ status'[p] = IF Alive(Parent(p)) THEN "zombie" ELSE "reaped"
         /\ \A q \in Procs \ {p} :
              status'[q] = IF status[q] = "zombie" /\ Parent(q) = p
                           THEN "reaped" ELSE status[q]
         /\ \A q \in Procs : (status'[q] = "none") <=> (status[q] = "none")
         /\ \A l \in Listeners :
              pending'[l] <=> l # p /\ (pending[l] \/ (l = Parent(p) /\ Alive(l)))
         /\ held' = [held EXCEPT ![p] = {}]
<1>1. \A q \in Procs : q \in Zombies(p) <=> status[q] = "zombie" /\ Parent(q) = p
  BY ZombieOf
<1>2. \A q \in Procs :
        status'[q] = IF q = p THEN IF Alive(Parent(p)) THEN "zombie" ELSE "reaped"
                     ELSE IF q \in Zombies(p) THEN "reaped" ELSE status[q]
  BY DEF End, StatusAfter
<1>3. \A l \in Listeners :
        pending'[l] = (l # p /\ (pending[l] \/ (l = Parent(p) /\ Alive(l))))
  BY DEF End, SignalAfter
<1>4. status[p] # "none"
  BY DEF Alive
<1>5. held' = [held EXCEPT ![p] = {}]
  BY DEF End
<1> QED BY <1>1, <1>2, <1>3, <1>4, <1>5

\* A step that touches no process and no signal keeps SignalInv.
LEMMA QuietStep ==
  ASSUME SignalInv, UNCHANGED <<status, pending, handling, cause>>,
         pc'["http"] = "boot" => pc' = pc
  PROVE  SignalInv'
<1>1. \A l : Zombies(l)' = Zombies(l)
  BY DEF Zombies
<1>2. \A l : Alive(l)' <=> Alive(l)
  BY DEF Alive
<1> QED
  BY <1>1, <1>2
     DEF SignalInv, SignalledAlive, BootInv, Covered, NeverFails

\* The end of one process keeps the signals of the listeners that survive it
\* covered: its parent is told of the zombie it has become.
LEMMA EndSignals ==
  ASSUME TypeOK, SignalledAlive, Covered,
         NEW p \in Procs, Alive(p), End(p),
         \/ p \in Listeners /\ handling' = [handling EXCEPT ![p] = FALSE]
         \/ p \in Conns /\ UNCHANGED handling
  PROVE  SignalledAlive' /\ Covered'
<1> USE Tree, EndFacts
<1>1. SignalledAlive'
  <2> SUFFICES ASSUME NEW l \in Listeners, pending'[l] \/ handling'[l]
               PROVE  Alive(l)'
    BY DEF SignalledAlive
  <2>1. l # p /\ Alive(l)
    BY DEF SignalledAlive, TypeOK
  <2> QED BY <2>1 DEF Alive
<1>2. Covered'
  <2> SUFFICES ASSUME NEW l \in Listeners, Undisturbed(l)
               PROVE  /\ pending'[l] \/ handling'[l] => Zombies(l)' # {}
                      /\ pending'[l] /\ handling'[l] =>
                           \E y, z \in Zombies(l)' : y # z
    BY DEF Covered
  <2>1. CASE l = p
    BY <2>1 DEF TypeOK
  <2>2. CASE l # p
    <3>1. \A z \in Zombies(l) : z \in Zombies(l)' /\ z # p
      BY <2>2, ZombieOf, ZombieOfNext DEF Alive
    <3>2. handling'[l] <=> handling[l]
      BY <2>2 DEF TypeOK
    <3>3. CASE l = Parent(p) /\ Alive(l)
      <4>1. p \in Zombies(l)'
        BY <3>3, ZombieOfNext
      <4>2. handling[l] => \E z \in Zombies(l) : TRUE
        BY DEF Covered
      <4> QED BY <3>1, <3>2, <4>1, <4>2
    <3>4. CASE ~(l = Parent(p) /\ Alive(l))
      <4>1. pending'[l] <=> pending[l]
        BY <2>2, <3>4
      <4> QED BY <3>1, <3>2, <4>1 DEF Covered
    <3> QED BY <3>3, <3>4
  <2> QED BY <2>1, <2>2
<1> QED BY <1>1, <1>2

-----------------------------------------------------------------------------
(***************************************************************************)
(* Preservation of ConnInv.                                                *)
(***************************************************************************)

\* A step that moves a listener outside the handling of a connection, or
\* none, and leaves connections, their holders and their workers alone.
LEMMA ConnQuiet ==
  ASSUME TypeOK, ConnInv,
         UNCHANGED <<cur, held, verdict, net, program, sent>>,
         \A c \in Conns : (status'[c] = "none") <=> (status[c] = "none"),
         \A l \in Listeners : pc'[l] # pc[l] => ~AtConn(l) /\ ~AtConn(l)'
  PROVE  ConnInv'
<1>1. \A l \in Listeners : AtConn(l)' <=> AtConn(l)
  BY DEF AtConn
<1>2. LoopInv'
  BY <1>1 DEF ConnInv, LoopInv
<1>3. FreshInv'
  BY DEF ConnInv, FreshInv
<1>4. HeldInv'
  <2>1. \A p \in Procs, c \in Conns : p = Service(c) => p \in Listeners
    BY Tree
  <2> QED BY <1>1, <2>1 DEF ConnInv, HeldInv
<1>5. ProgramInv'
  BY DEF ConnInv, ProgramInv
<1>6. AccessEnforced'
  BY DEF ConnInv, AccessEnforced
<1> QED BY <1>2, <1>3, <1>4, <1>5, <1>6 DEF ConnInv

\* The end of a process only takes connections away from it.
LEMMA ConnEnd ==
  ASSUME TypeOK, ConnInv, NEW p \in Procs, Alive(p), End(p),
         \/ /\ p \in Listeners
            /\ pc' = [pc EXCEPT ![p] = "dead"]
            /\ cur' = [cur EXCEPT ![p] = None]
         \/ p \in Conns /\ UNCHANGED <<pc, cur>>,
         UNCHANGED <<verdict, net, program, sent>>
  PROVE  ConnInv'
<1> USE EndFacts, Tree
<1>1. \A l \in Listeners : AtConn(l)' =>
        l # p /\ AtConn(l) /\ pc'[l] = pc[l] /\ cur'[l] = cur[l]
  BY DEF AtConn, TypeOK
<1>2. \A l \in Listeners : l # p => pc'[l] = pc[l] /\ cur'[l] = cur[l]
  BY DEF TypeOK
<1>3. \A q \in Procs : q # p => held'[q] = held[q]
  BY DEF TypeOK
<1>4. held'[p] = {}
  BY DEF TypeOK
<1>5. LoopInv'
  BY <1>1 DEF ConnInv, LoopInv
<1>6. FreshInv'
  BY <1>3, <1>4 DEF ConnInv, FreshInv
<1>7. HeldInv'
  <2> SUFFICES ASSUME NEW c \in Conns, verdict[c] # "deny"
               PROVE  /\ \A q \in Procs : c \in held'[q] =>
                           q = c \/ (q = Service(c) /\ cur'[q] = c /\ AtConn(q)')
                      /\ \A d \in Conns : c \in program'[d] => d = c
    BY DEF HeldInv
  <2>1. \A q \in Procs : c \in held'[q] => q # p /\ c \in held[q]
    BY <1>3, <1>4
  <2>2. \A q \in Listeners : q # p /\ AtConn(q) => AtConn(q)'
    BY <1>2 DEF AtConn
  <2> QED BY <1>2, <2>1, <2>2 DEF ConnInv, HeldInv
<1>8. ProgramInv'
  BY DEF ConnInv, ProgramInv
<1>9. AccessEnforced'
  BY DEF ConnInv, AccessEnforced
<1> QED BY <1>5, <1>6, <1>7, <1>8, <1>9 DEF ConnInv

\* A listener that a failed call ends, unless that call was waitpid().
LEMMA ExitInv ==
  ASSUME IInv, NEW l \in Listeners, NEW why \in Causes \ {"waitpid"},
         Alive(l), Exit(l, why), UNCHANGED <<verdict, net, program, sent>>
  PROVE  ConnInv' /\ SignalInv'
<1>1. ConnInv'
  BY ConnEnd, Tree DEF IInv, Exit
<1>2. SignalledAlive' /\ Covered'
  BY EndSignals, Tree DEF IInv, SignalInv, Exit
<1>3. NeverFails'
  BY DEF IInv, TypeOK, SignalInv, NeverFails, Exit
<1>4. BootInv'
  <2>1. l = "https" => pc["http"] # "boot"
    BY DEF IInv, SignalInv, BootInv, Alive
  <2>2. pc'["http"] # "boot"
    BY <2>1 DEF IInv, TypeOK, Exit, Listeners
  <2> QED BY <2>2 DEF BootInv
<1> QED BY <1>1, <1>2, <1>3, <1>4 DEF SignalInv

\* A step of a listener's main program that moves on, never back to "boot",
\* and changes no process keeps SignalInv.
LEMMA MoveInv ==
  ASSUME IInv, NEW l \in Listeners, Running(l),
         NEW loc \in ListenerPc \ {"boot"}, GoTo(l, loc),
         UNCHANGED <<status, pending, handling, cause>>
  PROVE  SignalInv'
<1>1. l = "https" => pc["http"] # "boot"
  BY DEF IInv, SignalInv, BootInv, Running
<1>2. pc'["http"] # "boot"
  BY <1>1 DEF IInv, TypeOK, GoTo, Listeners
<1> QED BY <1>2, QuietStep DEF IInv

\* Start-up: neither fork nor bind nor the certificate touches a connection.
LEMMA StartInv ==
  ASSUME IInv, NEW l \in Listeners,
         \/ l = "http" /\ StartHttps
         \/ OpenListen(l)
         \/ l = "https" /\ SslInit
  PROVE  ConnInv' /\ SignalInv'
<1> USE DEF IInv
<1>1. UNCHANGED <<verdict, net, program, sent>> /\ Running(l) /\ Alive(l)
  BY Tree DEF StartHttps, OpenListen, SslInit, Running, Alive
<1>2. ~AtConn(l)
  BY DEF StartHttps, OpenListen, SslInit, AtConn
<1>3. ASSUME NEW why \in Causes \ {"waitpid"}, Exit(l, why)
      PROVE  ConnInv' /\ SignalInv'
  BY <1>1, <1>3, ExitInv
<1>4. ASSUME NEW loc \in {"bind", "sslinit", "accept"}, GoTo(l, loc),
             UNCHANGED <<cur, status, pending, handling, held, cause>>
      PROVE  ConnInv' /\ SignalInv'
  <2>1. ConnInv'
    BY <1>1, <1>2, <1>4, ConnQuiet DEF AtConn, GoTo, TypeOK
  <2>2. SignalInv'
    BY <1>1, <1>4, MoveInv DEF ListenerPc
  <2> QED BY <2>1, <2>2
<1>5. CASE /\ l = "http" /\ pc["http"] = "boot"
           /\ pc' = [pc EXCEPT !["http"] = "bind", !["https"] = "bind"]
           /\ status' = [status EXCEPT !["https"] = "alive"]
           /\ UNCHANGED <<cur, pending, handling, held, cause>>
  <2>1. status["https"] = "none" /\ pc["https"] = "none"
    BY <1>5 DEF SignalInv, BootInv
  <2>2. "https" \in Procs /\ "https" \notin Conns /\ "http" # "https"
    BY Tree DEF Listeners
  <2>3. \A p \in Procs : status'[p] = IF p = "https" THEN "alive" ELSE status[p]
    BY <1>5 DEF TypeOK
  <2>4. \A m \in Listeners : pc'[m] = "bind"
    BY <1>5 DEF TypeOK, Listeners
  <2>5. ConnInv'
    <3>1. \A m \in Listeners : ~AtConn(m) /\ ~AtConn(m)'
      BY <1>5, <2>1, <2>4 DEF AtConn, Listeners
    <3>2. \A c \in Conns : status'[c] = status[c]
      BY <2>2, <2>3, Tree
    <3> QED BY <1>1, <1>5, <3>1, <3>2, ConnQuiet
  <2>6. \A m : Zombies(m)' = Zombies(m)
    BY <2>1, <2>3, ZombieOf, ZombieOfNext
  <2>7. Covered' /\ NeverFails'
    BY <1>5, <2>6 DEF SignalInv, Covered, NeverFails
  <2>8. SignalledAlive'
    BY <1>5, <2>3 DEF SignalInv, SignalledAlive, Alive
  <2>9. BootInv'
    BY <2>4 DEF BootInv, Listeners
  <2> QED BY <2>5, <2>7, <2>8, <2>9 DEF SignalInv
<1>6. CASE l = "http" /\ StartHttps
  BY <1>3, <1>4, <1>5, <1>6 DEF StartHttps, Causes
<1>7. CASE OpenListen(l)
  BY <1>3, <1>4, <1>7 DEF OpenListen, Causes
<1>8. CASE l = "https" /\ SslInit
  BY <1>3, <1>4, <1>8 DEF SslInit, Causes
<1> QED BY <1>6, <1>7, <1>8

\* Accept(): the connection it takes was held by nobody.
LEMMA AcceptInv ==
  ASSUME IInv, NEW l \in Listeners, Accept(l)
  PROVE  ConnInv' /\ SignalInv'
<1> USE DEF IInv
<1>1. SignalInv'
  BY MoveInv DEF Accept, ListenerPc
<1>2. PICK c \in Conns :
        /\ Service(c) = l /\ net[c] = "queued"
        /\ net' = [net EXCEPT ![c] = "accepted"]
        /\ cur' = [cur EXCEPT ![l] = c]
        /\ held' = [held EXCEPT ![l] = @ \cup {c}]
  BY DEF Accept
<1>3. /\ pc[l] = "accept" /\ pc' = [pc EXCEPT ![l] = "check"]
      /\ UNCHANGED <<status, verdict, program, sent>>
  BY DEF Accept, GoTo
<1>4. /\ verdict[c] = "none" /\ status[c] = "none"
      /\ \A p \in Procs : c \notin held[p]
      /\ \A d \in Conns : c \notin program[d]
  BY <1>2 DEF ConnInv, FreshInv, AccessEnforced
<1>5. ~AtConn(l) /\ AtConn(l)' /\ cur'[l] = c /\ pc'[l] = "check"
  BY <1>2, <1>3 DEF AtConn, TypeOK
<1>6. \A m \in Listeners \ {l} : /\ AtConn(m)' <=> AtConn(m)
                               /\ pc'[m] = pc[m] /\ cur'[m] = cur[m]
  BY <1>2, <1>3 DEF AtConn, TypeOK
<1>7. \A d \in Conns : net'[d] = IF d = c THEN "accepted" ELSE net[d]
  BY <1>2 DEF TypeOK
<1>8. \A p \in Procs : held'[p] = IF p = l THEN held[l] \cup {c} ELSE held[p]
  BY <1>2, Tree DEF TypeOK
<1>9. LoopInv'
  <2> SUFFICES ASSUME NEW m \in Listeners, AtConn(m)'
      PROVE /\ cur'[m] \in Conns /\ Service(cur'[m]) = m /\ net'[cur'[m]] = "accepted"
            /\ pc'[m] = "check" => verdict'[cur'[m]] = "none"
            /\ pc'[m] \in {"deny_head", "deny_body"} => verdict'[cur'[m]] = "deny"
            /\ pc'[m] \in {"fork", "close"} => verdict'[cur'[m]] = "permit"
            /\ pc'[m] # "close" => status'[cur'[m]] = "none"
    BY DEF LoopInv
  <2>1. CASE m = l
    BY <1>2, <1>3, <1>4, <1>5, <1>7, <2>1
  <2>2. CASE m # l
    BY <1>3, <1>6, <1>7, <2>2 DEF ConnInv, LoopInv
  <2> QED BY <2>1, <2>2
<1>10. FreshInv'
  BY <1>3, <1>7, <1>8 DEF ConnInv, FreshInv
<1>11. HeldInv'
  <2> SUFFICES ASSUME NEW d \in Conns, verdict[d] # "deny"
      PROVE /\ \A p \in Procs : d \in held'[p] =>
                 p = d \/ (p = Service(d) /\ cur'[p] = d /\ AtConn(p)')
            /\ \A e \in Conns : d \in program'[e] => e = d
    BY <1>3 DEF HeldInv
  <2>1. CASE d = c
    BY <1>2, <1>3, <1>4, <1>5, <1>8, <2>1
  <2>2. CASE d # c
    <3>1. \A p \in Procs : d \in held'[p] => d \in held[p]
      BY <1>8, <2>2
    <3> QED BY <1>3, <1>5, <1>6, <3>1, Tree DEF ConnInv, HeldInv
  <2> QED BY <2>1, <2>2
<1>12. ProgramInv' /\ AccessEnforced'
  BY <1>3 DEF ConnInv, ProgramInv, AccessEnforced
<1> QED BY <1>1, <1>9, <1>10, <1>11, <1>12 DEF ConnInv

\* access_ornot() decides about the connection the listener works on.
LEMMA CheckInv ==
  ASSUME IInv, NEW l \in Listeners, CheckAccess(l)
  PROVE  ConnInv' /\ SignalInv'
<1> USE DEF IInv
<1>1. CASE (Exit(l, "config") \/ Exit(l, "mask") \/ Exit(l, "log")) /\ UNCHANGED verdict
  BY <1>1, ExitInv, Tree DEF CheckAccess, Running, Alive, Causes
<1>2. ASSUME NEW v \in {"permit", "deny"},
             verdict' = [verdict EXCEPT ![cur[l]] = v],
             GoTo(l, IF v = "permit" THEN "fork" ELSE "deny_head"),
             UNCHANGED <<cur, status, pending, handling, held, cause>>
      PROVE  ConnInv' /\ SignalInv'
  <2>1. Running(l) /\ pc[l] = "check" /\ UNCHANGED <<net, program, sent>>
    BY DEF CheckAccess
  <2>2. SignalInv'
    BY <1>2, <2>1, MoveInv DEF ListenerPc
  <2> DEFINE c == cur[l]
  <2>3. /\ c \in Conns /\ Service(c) = l /\ net[c] = "accepted"
        /\ verdict[c] = "none" /\ status[c] = "none" /\ AtConn(l)
    BY <2>1 DEF ConnInv, LoopInv, AtConn
  <2> HIDE DEF c
  <2>4. \A d \in Conns : verdict'[d] = IF d = c THEN v ELSE verdict[d]
    BY <1>2 DEF TypeOK, c
  <2>5. \A m \in Listeners : AtConn(m)' <=> AtConn(m)
    BY <1>2, <2>3 DEF AtConn, GoTo, TypeOK
  <2>6. /\ pc'[l] = IF v = "permit" THEN "fork" ELSE "deny_head"
        /\ \A m \in Listeners \ {l} : pc'[m] = pc[m]
    BY <1>2 DEF GoTo, TypeOK
  <2>7. LoopInv'
    <3> SUFFICES ASSUME NEW m \in Listeners, AtConn(m)
        PROVE /\ cur[m] \in Conns /\ Service(cur[m]) = m /\ net[cur[m]] = "accepted"
              /\ pc'[m] = "check" => verdict'[cur[m]] = "none"
              /\ pc'[m] \in {"deny_head", "deny_body"} => verdict'[cur[m]] = "deny"
              /\ pc'[m] \in {"fork", "close"} => verdict'[cur[m]] = "permit"
              /\ pc'[m] # "close" => status[cur[m]] = "none"
      BY <1>2, <2>1, <2>5 DEF LoopInv
    <3>1. CASE m = l
      BY <1>2, <2>3, <2>4, <2>6, <3>1 DEF c
    <3>2. CASE m # l
      <4>1. cur[m] # c
        BY <2>3, <3>2 DEF ConnInv, LoopInv
      <4> QED BY <2>4, <2>6, <3>2, <4>1 DEF ConnInv, LoopInv
    <3> QED BY <3>1, <3>2
  <2>8. FreshInv'
    BY <1>2, <2>1, <2>3, <2>4 DEF ConnInv, FreshInv
  <2>9. HeldInv'
    <3>1. \A d \in Conns : verdict'[d] # "deny" => verdict[d] # "deny"
      BY <1>2, <2>3, <2>4
    <3>2. \A d \in Conns : Service(d) \in Listeners
      BY Tree
    <3> QED BY <1>2, <2>1, <2>5, <3>1, <3>2 DEF ConnInv, HeldInv
  <2>10. ProgramInv'
    BY <1>2, <2>1 DEF ConnInv, ProgramInv
  <2>11. AccessEnforced'
    BY <1>2, <2>1, <2>3, <2>4 DEF ConnInv, AccessEnforced
  <2> QED BY <2>2, <2>7, <2>8, <2>9, <2>10, <2>11 DEF ConnInv
<1> QED BY <1>1, <1>2 DEF CheckAccess

\* The listener's own 403 page goes to a connection that was denied.
LEMMA DenyInv ==
  ASSUME IInv, NEW l \in Listeners, DenyHead(l) \/ DenyBody(l)
  PROVE  ConnInv' /\ SignalInv'
<1> USE DEF IInv
<1> DEFINE c == cur[l]
<1>1. /\ Running(l) /\ pc[l] \in {"deny_head", "deny_body"}
      /\ pc' = [pc EXCEPT ![l] = IF pc[l] = "deny_head" THEN "deny_body"
                                 ELSE "accept"]
      /\ UNCHANGED <<status, pending, handling, held, verdict, net, program,
                     cause>>
  BY DEF DenyHead, DenyBody, DenyWrite, GoTo
<1>2. c \in Conns /\ Service(c) = l /\ verdict[c] = "deny"
  BY <1>1 DEF ConnInv, LoopInv, AtConn
<1>3. SignalInv'
  BY <1>1, MoveInv DEF GoTo, ListenerPc
<1>4. \A m \in Listeners \ {l} : pc'[m] = pc[m] /\ cur'[m] = cur[m]
  BY <1>1 DEF DenyHead, DenyBody, TypeOK
<1>5. pc'[l] = "accept" \/ (pc'[l] = "deny_body" /\ cur'[l] = cur[l])
  BY <1>1 DEF DenyHead, DenyBody, DenyWrite, GoTo, TypeOK
<1> HIDE DEF c
<1>6. LoopInv'
  <2>1. \A m \in Listeners \ {l} : AtConn(m)' <=> AtConn(m)
    BY <1>4 DEF AtConn
  <2>2. AtConn(l) /\ (AtConn(l)' => pc'[l] = "deny_body" /\ cur'[l] = cur[l])
    BY <1>1, <1>5 DEF AtConn
  <2> SUFFICES ASSUME NEW m \in Listeners, AtConn(m)'
      PROVE /\ cur'[m] \in Conns /\ Service(cur'[m]) = m /\ net[cur'[m]] = "accepted"
            /\ pc'[m] = "check" => verdict[cur'[m]] = "none"
            /\ pc'[m] \in {"deny_head", "deny_body"} => verdict[cur'[m]] = "deny"
            /\ pc'[m] \in {"fork", "close"} => verdict[cur'[m]] = "permit"
            /\ pc'[m] # "close" => status[cur'[m]] = "none"
    BY <1>1 DEF LoopInv
  <2>3. CASE m = l
    BY <1>1, <2>2, <2>3 DEF ConnInv, LoopInv
  <2>4. CASE m # l
    BY <1>4, <2>1, <2>4 DEF ConnInv, LoopInv
  <2> QED BY <2>3, <2>4
<1>7. FreshInv' /\ ProgramInv'
  BY <1>1 DEF ConnInv, FreshInv, ProgramInv
<1>8. HeldInv'
  <2>1. \A d \in Conns : verdict[d] # "deny" => d # c /\ Service(d) \in Listeners
    BY <1>2, Tree
  <2>2. \A d \in Conns : cur[l] = d => d = c
    BY DEF c
  <2>3. \A m \in Listeners \ {l} : AtConn(m)' <=> AtConn(m)
    BY <1>4 DEF AtConn
  <2> QED BY <1>1, <1>4, <2>1, <2>2, <2>3 DEF ConnInv, HeldInv
<1>9. AccessEnforced'
  <2>1. \/ UNCHANGED sent
        \/ sent' = [sent EXCEPT ![c] = @ \cup {<<"403", Channel(l)>>}]
    BY DEF DenyHead, DenyBody, c
  <2>2. \A d \in Conns, ch \in Channels :
          /\ <<"page", ch>> \in sent'[d] => <<"page", ch>> \in sent[d]
          /\ <<"403", ch>> \in sent'[d] => d = c \/ <<"403", ch>> \in sent[d]
    BY <2>1 DEF TypeOK
  <2> QED BY <1>1, <1>2, <2>2 DEF ConnInv, AccessEnforced
<1> QED BY <1>3, <1>6, <1>7, <1>8, <1>9 DEF ConnInv

\* Close(clientfd): what the listener still holds afterwards was denied.
LEMMA CloseInv ==
  ASSUME IInv, NEW l \in Listeners, CloseConn(l)
  PROVE  ConnInv' /\ SignalInv'
<1> USE DEF IInv
<1>1. /\ pc[l] = "close" /\ pc' = [pc EXCEPT ![l] = "accept"]
      /\ held' = [held EXCEPT ![l] = @ \ {cur[l]}]
      /\ cur' = [cur EXCEPT ![l] = None]
      /\ UNCHANGED <<status, verdict, net, program, sent>>
  BY DEF CloseConn, GoTo
<1>2. SignalInv'
  BY MoveInv DEF CloseConn, ListenerPc
<1>3. ~AtConn(l)'
  BY <1>1 DEF AtConn, TypeOK
<1>4. \A m \in Listeners \ {l} : /\ pc'[m] = pc[m] /\ cur'[m] = cur[m]
                               /\ AtConn(m)' <=> AtConn(m)
  BY <1>1 DEF AtConn, TypeOK
<1>5. \A p \in Procs : held'[p] = IF p = l THEN held[l] \ {cur[l]} ELSE held[p]
  BY <1>1, Tree DEF TypeOK
<1>6. LoopInv'
  BY <1>1, <1>3, <1>4 DEF ConnInv, LoopInv
<1>7. FreshInv' /\ ProgramInv' /\ AccessEnforced'
  BY <1>1, <1>5 DEF ConnInv, FreshInv, ProgramInv, AccessEnforced
<1>8. HeldInv'
  <2> SUFFICES ASSUME NEW d \in Conns, verdict[d] # "deny", NEW p \in Procs,
                      d \in held'[p]
               PROVE  p = d \/ (p = Service(d) /\ cur'[p] = d /\ AtConn(p)')
    BY <1>1 DEF HeldInv, ConnInv
  <2>1. d \in held[p] /\ (p = l => d # cur[l])
    BY <1>5
  <2> QED BY <1>4, <2>1, Tree DEF ConnInv, HeldInv
<1> QED BY <1>2, <1>6, <1>7, <1>8 DEF ConnInv

\* Fork() of the worker: it gets what the listener holds, of which only its
\* own connection was not denied; no zombie is lost.
LEMMA ForkInv ==
  ASSUME IInv, NEW l \in Listeners, ForkWorker(l)
  PROVE  ConnInv' /\ SignalInv'
<1> USE DEF IInv
<1> DEFINE c == cur[l]
<1>1. Running(l) /\ pc[l] = "fork" /\ UNCHANGED <<verdict, net, program, sent>>
  BY DEF ForkWorker
<1>2. CASE Exit(l, "fork")
  BY <1>1, <1>2, ExitInv, Tree DEF Running, Alive, Causes
<1>3. CASE /\ status' = [status EXCEPT ![c] = "alive"]
           /\ held' = [held EXCEPT ![c] = held[l]]
           /\ GoTo(l, "close")
           /\ UNCHANGED <<cur, pending, handling, cause>>
  <2>1. /\ c \in Conns /\ Service(c) = l /\ verdict[c] = "permit"
        /\ net[c] = "accepted" /\ status[c] = "none" /\ AtConn(l)
    BY <1>1 DEF ConnInv, LoopInv, AtConn
  <2> HIDE DEF c
  <2>2. \A p \in Procs : status'[p] = IF p = c THEN "alive" ELSE status[p]
    BY <1>3 DEF TypeOK
  <2>3. \A p \in Procs : held'[p] = IF p = c THEN held[l] ELSE held[p]
    BY <1>3 DEF TypeOK
  <2>4. /\ pc'[l] = "close" /\ AtConn(l)'
        /\ \A m \in Listeners \ {l} : pc'[m] = pc[m] /\ (AtConn(m)' <=> AtConn(m))
    BY <1>3 DEF GoTo, AtConn, TypeOK
  <2>5. LoopInv'
    <3> SUFFICES ASSUME NEW m \in Listeners, AtConn(m)
        PROVE /\ cur[m] \in Conns /\ Service(cur[m]) = m /\ net[cur[m]] = "accepted"
              /\ pc'[m] = "check" => verdict[cur[m]] = "none"
              /\ pc'[m] \in {"deny_head", "deny_body"} => verdict[cur[m]] = "deny"
              /\ pc'[m] \in {"fork", "close"} => verdict[cur[m]] = "permit"
              /\ pc'[m] # "close" => status'[cur[m]] = "none"
      BY <1>1, <1>3, <2>1, <2>4 DEF LoopInv
    <3>1. CASE m = l
      BY <2>1, <2>4, <3>1 DEF c
    <3>2. CASE m # l
      <4>1. cur[m] # c /\ cur[m] \in Procs
        BY <2>1, <3>2, Tree DEF ConnInv, LoopInv
      <4> QED BY <2>2, <2>4, <3>2, <4>1 DEF ConnInv, LoopInv
    <3> QED BY <3>1, <3>2
  <2>6. FreshInv'
    BY <1>1, <2>1, <2>3, Tree DEF ConnInv, FreshInv
  <2>7. HeldInv'
    <3> SUFFICES ASSUME NEW d \in Conns, verdict[d] # "deny", NEW p \in Procs,
                        d \in held'[p]
                 PROVE  p = d \/ (p = Service(d) /\ cur'[p] = d /\ AtConn(p)')
      BY <1>1 DEF HeldInv, ConnInv
    <3>1. CASE p = c
      <4>1. d \in held[l] /\ l # d
        BY <2>3, <3>1, Tree
      <4>2. cur[l] = d
        BY <4>1, Tree DEF ConnInv, HeldInv
      <4> QED BY <3>1, <4>2 DEF c
    <3>2. CASE p # c
      <4>1. d \in held[p]
        BY <2>3, <3>2
      <4> QED BY <1>3, <2>4, <4>1, Tree DEF ConnInv, HeldInv
    <3> QED BY <3>1, <3>2
  <2>8. ProgramInv' /\ AccessEnforced'
    BY <1>1, <2>1, <2>2, Tree DEF ConnInv, ProgramInv, AccessEnforced
  <2>9. SignalInv'
    <3>1. l = "https" => pc["http"] # "boot"
      BY <1>1 DEF SignalInv, BootInv, Running
    <3>2. pc'["http"] # "boot"
      BY <1>1, <2>4, <3>1 DEF Listeners
    <3>3. \A m : Zombies(m)' = Zombies(m)
      BY <2>1, <2>2, ZombieOf, ZombieOfNext
    <3>4. Covered' /\ NeverFails'
      BY <1>3, <3>3 DEF SignalInv, Covered, NeverFails
    <3>5. SignalledAlive'
      BY <1>3, <2>2 DEF SignalInv, SignalledAlive, Alive
    <3> QED BY <3>2, <3>4, <3>5 DEF SignalInv, BootInv
  <2> QED BY <2>5, <2>6, <2>7, <2>8, <2>9 DEF ConnInv
<1> QED BY <1>2, <1>3 DEF ForkWorker

\* sigChldHandler: the waitpid() of a covered signal reaps one zombie and
\* leaves one for the signal that is still pending.
LEMMA HandlerInv ==
  ASSUME IInv, NEW l \in Listeners, Handler(l)
  PROVE  ConnInv' /\ SignalInv'
<1> USE DEF IInv
<1>1. CASE Deliver(l)
  <2>1. /\ ~handling[l] /\ pending[l]
        /\ pending' = [pending EXCEPT ![l] = FALSE]
        /\ handling' = [handling EXCEPT ![l] = TRUE]
        /\ UNCHANGED <<pc, cur, status, held, verdict, net, program, sent, cause>>
    BY <1>1 DEF Deliver, Running
  <2>2. ConnInv'
    BY <2>1, ConnQuiet
  <2>3. \A m : Zombies(m)' = Zombies(m)
    BY <2>1 DEF Zombies
  <2>4. Covered' /\ SignalledAlive'
    BY <2>1, <2>3 DEF SignalInv, Covered, SignalledAlive, Alive, TypeOK
  <2> QED
    BY <2>1, <2>2, <2>4 DEF SignalInv, BootInv, NeverFails
<1>2. CASE Reap(l)
  <2>1. handling[l] /\ Alive(l) /\ UNCHANGED <<verdict, net, program, sent>>
    BY <1>2 DEF Reap, SignalInv, SignalledAlive
  <2>2. ASSUME NEW z \in Zombies(l), status' = [status EXCEPT ![z] = "reaped"],
               handling' = [handling EXCEPT ![l] = FALSE],
               UNCHANGED <<pc, cur, pending, held, cause>>
        PROVE  ConnInv' /\ SignalInv'
    <3>1. z \in Procs /\ Parent(z) = l /\ status[z] = "zombie"
      BY ZombieOf
    <3>2. \A p \in Procs : status'[p] = IF p = z THEN "reaped" ELSE status[p]
      BY <2>2 DEF TypeOK
    <3>3. ConnInv'
      BY <2>1, <2>2, <3>1, <3>2, ConnQuiet, Tree
    <3>4. \A m \in Listeners : handling'[m] = IF m = l THEN FALSE ELSE handling[m]
      BY <2>2 DEF TypeOK
    <3>5. \A m \in Listeners : \A y : y \in Zombies(m) /\ (m # l \/ y # z)
                                  => y \in Zombies(m)'
      BY <3>1, <3>2, ZombieOf, ZombieOfNext
    <3>6. Covered'
      <4> SUFFICES ASSUME NEW m \in Listeners, Undisturbed(m)
                   PROVE  /\ pending'[m] \/ handling'[m] => Zombies(m)' # {}
                          /\ pending'[m] /\ handling'[m] =>
                               \E x, y \in Zombies(m)' : x # y
        BY DEF Covered
      <4>1. CASE m = l
        <5>1. pending[l] => \E x, y \in Zombies(l) : x # y
          BY <2>1, <4>1 DEF SignalInv, Covered, Undisturbed
        <5>2. pending[l] => \E y \in Zombies(l) : y # z
          BY <5>1
        <5> QED BY <2>2, <3>4, <3>5, <4>1, <5>2
      <4>2. CASE m # l
        <5>1. \A y \in Zombies(m) : y \in Zombies(m)'
          BY <3>5, <4>2
        <5> QED BY <2>2, <3>4, <4>2, <5>1 DEF SignalInv, Covered
      <4> QED BY <4>1, <4>2
    <3>7. SignalledAlive'
      BY <2>2, <3>1, <3>2, <3>4 DEF SignalInv, SignalledAlive, Alive
    <3>8. BootInv' /\ NeverFails'
      BY <2>2, <3>1, <3>2 DEF SignalInv, BootInv, NeverFails
    <3> QED BY <3>3, <3>6, <3>7, <3>8 DEF SignalInv
  <2>3. CASE /\ Zombies(l) = {} /\ handling' = [handling EXCEPT ![l] = FALSE]
             /\ UNCHANGED <<pc, cur, status, pending, held, cause>>
    <3>1. ConnInv'
      BY <2>1, <2>3, ConnQuiet
    <3>2. \A m : Zombies(m)' = Zombies(m)
      BY <2>3 DEF Zombies
    <3>3. \A m \in Listeners : handling'[m] => handling[m]
      BY <2>3 DEF TypeOK
    <3>4. Covered' /\ SignalledAlive'
      BY <2>3, <3>2, <3>3 DEF SignalInv, Covered, SignalledAlive, Alive
    <3> QED
      BY <2>3, <3>1, <3>4 DEF SignalInv, BootInv, NeverFails
  <2>4. CASE Zombies(l) = {} /\ Exit(l, "waitpid")
    <3>1. ~Undisturbed(l)
      BY <2>1, <2>4 DEF SignalInv, Covered
    <3>2. ConnInv'
      BY <2>1, <2>4, ConnEnd, Tree DEF Exit
    <3>3. SignalledAlive' /\ Covered'
      BY <2>1, <2>4, EndSignals, Tree DEF SignalInv, Exit
    <3>4. BootInv'
      <4>1. l = "https" => pc["http"] # "boot"
        BY <2>1 DEF SignalInv, BootInv, Alive
      <4>2. pc'["http"] # "boot"
        BY <2>4, <4>1 DEF TypeOK, Exit, Listeners
      <4> QED BY <4>2 DEF BootInv
    <3>5. NeverFails'
      BY <2>4, <3>1, <2>1 DEF SignalInv, NeverFails, Exit, Undisturbed, TypeOK
    <3> QED BY <3>2, <3>3, <3>4, <3>5 DEF SignalInv
  <2> QED BY <1>2, <2>2, <2>3, <2>4 DEF Reap
<1> QED BY <1>1, <1>2 DEF Handler

\* Workers, their programs and clients.
LEMMA ConnStepInv ==
  ASSUME IInv, NEW c \in Conns, Worker(c) \/ Environment(c)
  PROVE  ConnInv' /\ SignalInv'
<1> USE DEF IInv
<1>1. CASE EnableSsl(c)
  <2>1. UNCHANGED <<pc, cur, status, pending, handling, held, verdict, net,
                    program, sent, cause>>
    BY <1>1 DEF EnableSsl
  <2> QED BY <2>1, ConnQuiet, QuietStep
<1>2. CASE Connect(c)
  <2>1. /\ net[c] = "idle" /\ net' = [net EXCEPT ![c] = "queued"]
        /\ UNCHANGED <<pc, cur, status, pending, handling, held, verdict,
                       program, sent, cause>>
    BY <1>2 DEF Connect
  <2>2. \A d \in Conns : (net'[d] = "accepted") <=> (net[d] = "accepted")
    BY <2>1 DEF TypeOK
  <2>3. LoopInv' /\ FreshInv'
    BY <2>1, <2>2 DEF ConnInv, LoopInv, FreshInv, AtConn
  <2>4. HeldInv' /\ ProgramInv' /\ AccessEnforced'
    BY <2>1 DEF ConnInv, HeldInv, ProgramInv, AccessEnforced, AtConn
  <2> QED BY <2>1, <2>3, <2>4, QuietStep DEF ConnInv
<1>3. CASE StartProgram(c) \/ EndProgram(c)
  <2>1. UNCHANGED <<pc, cur, status, pending, handling, held, verdict, net,
                    sent, cause>>
    BY <1>3 DEF StartProgram, EndProgram
  <2>2. \/ program' = [program EXCEPT ![c] = held[c]] /\ status[c] # "none"
        \/ program' = [program EXCEPT ![c] = {}]
    BY <1>3 DEF StartProgram, EndProgram, WorkerRuns
  <2>3. \A d \in Conns : d # c => program'[d] = program[d]
    BY <2>2 DEF TypeOK
  <2>4. program'[c] = {} \/ (program'[c] = held[c] /\ status[c] # "none")
    BY <2>2 DEF TypeOK
  <2>5. LoopInv' /\ AccessEnforced'
    BY <2>1 DEF ConnInv, LoopInv, AccessEnforced, AtConn
  <2>6. FreshInv' /\ ProgramInv'
    BY <2>1, <2>3, <2>4, Tree DEF ConnInv, FreshInv, ProgramInv
  <2>7. HeldInv'
    <3>1. \A d \in Conns : Service(d) # c
      BY Tree
    <3> QED BY <2>1, <2>3, <2>4, <3>1, Tree DEF ConnInv, HeldInv, AtConn
  <2> QED BY <2>1, <2>5, <2>6, <2>7, QuietStep DEF ConnInv
<1>4. CASE Answer(c)
  <2>1. /\ sent' = [sent EXCEPT ![c] = @ \cup {<<"page", Channel(c)>>}]
        /\ UNCHANGED <<pc, cur, status, pending, handling, held, verdict, net,
                       program, cause>>
    BY <1>4 DEF Answer
  <2>2. verdict[c] = "permit"
    BY <1>4 DEF Answer, WorkerRuns, Programs, ConnInv, ProgramInv, AccessEnforced
  <2>3. \A d \in Conns, ch \in Channels :
          /\ <<"403", ch>> \in sent'[d] => <<"403", ch>> \in sent[d]
          /\ <<"page", ch>> \in sent'[d] => d = c \/ <<"page", ch>> \in sent[d]
    BY <2>1 DEF TypeOK
  <2>4. AccessEnforced'
    BY <2>1, <2>2, <2>3 DEF ConnInv, AccessEnforced
  <2>5. LoopInv' /\ FreshInv' /\ HeldInv' /\ ProgramInv'
    BY <2>1 DEF ConnInv, LoopInv, FreshInv, HeldInv, ProgramInv, AtConn
  <2> QED BY <2>1, <2>4, <2>5, QuietStep DEF ConnInv
<1>5. CASE WorkerExit(c)
  <2>1. /\ Alive(c) /\ End(c) /\ c \in Procs
        /\ UNCHANGED <<pc, cur, handling, verdict, net, program, sent, cause>>
    BY <1>5, Tree DEF WorkerExit, WorkerRuns, Alive
  <2>2. ConnInv'
    BY <2>1, ConnEnd
  <2>3. SignalledAlive' /\ Covered'
    BY <2>1, EndSignals DEF SignalInv
  <2>4. "https" \in Procs
    BY Tree DEF Listeners
  <2>5. BootInv' /\ NeverFails'
    BY <2>1, <2>4, EndFacts DEF SignalInv, BootInv, NeverFails
  <2> QED BY <2>2, <2>3, <2>5 DEF SignalInv
<1>6. CASE Stop(c) \/ Continue(c)
  <2>1. /\ c \in JobControl
        /\ \E to \in {"alive", "stopped"} : status' = [status EXCEPT ![c] = to]
        /\ status[c] \in {"alive", "stopped"}
        /\ pending' = [pending EXCEPT ![Service(c)] = @ \/ Alive(Service(c))]
        /\ UNCHANGED <<pc, cur, handling, held, verdict, net, program, sent, cause>>
    BY <1>6 DEF Stop, Continue, Toggle
  <2>2. /\ \A p \in Procs \ {c} : status'[p] = status[p]
        /\ status'[c] \in {"alive", "stopped"}
    BY <2>1, Tree DEF TypeOK
  <2>3. ConnInv'
    BY <2>1, <2>2, ConnQuiet, Tree
  <2>4. SignalledAlive'
    BY <2>1, <2>2, Tree DEF SignalInv, SignalledAlive, Alive, TypeOK
  <2>5. BootInv'
    BY <2>1, <2>2, Tree DEF SignalInv, BootInv, Listeners
  <2>6. \A l \in Listeners : Undisturbed(l) => l # Service(c)
    BY <2>1 DEF Undisturbed
  <2>7. \A l : Zombies(l)' = Zombies(l)
    BY <2>1, <2>2, ZombieOf, ZombieOfNext
  <2>8. Covered' /\ NeverFails'
    BY <2>1, <2>6, <2>7 DEF SignalInv, Covered, NeverFails, TypeOK, Undisturbed
  <2> QED BY <2>3, <2>4, <2>5, <2>8 DEF SignalInv
<1> QED
  BY <1>1, <1>2, <1>3, <1>4, <1>5, <1>6 DEF Worker, Environment

-----------------------------------------------------------------------------
(***************************************************************************)
(* The theorems.                                                           *)
(***************************************************************************)

\* The initial state satisfies the inductive invariant.
LEMMA InitInv == Init => IInv
<1> SUFFICES ASSUME Init PROVE ConnInv /\ SignalInv
  BY DEF Init, TypeOK, ListenerPc, Status, Causes, IInv
<1>1. ConnInv
  <2>1. \A l \in Listeners : ~AtConn(l)
    BY DEF Init, AtConn
  <2>2. LoopInv /\ FreshInv
    BY <2>1 DEF Init, LoopInv, FreshInv
  <2>3. HeldInv
    BY DEF Init, HeldInv
  <2>4. ProgramInv
    BY DEF Init, ProgramInv
  <2>5. AccessEnforced
    <3>1. \A c \in Conns : status[c] = "none" /\ sent[c] = {}
      BY Tree DEF Init, Listeners
    <3> QED BY <3>1 DEF AccessEnforced
  <2> QED BY <2>2, <2>3, <2>4, <2>5 DEF ConnInv
<1>2. SignalInv
  BY Tree DEF Init, SignalInv, SignalledAlive, BootInv, Covered,
              NeverFails, Listeners
<1> QED BY <1>1, <1>2

\* Every step preserves it.
LEMMA NextInv == IInv /\ [Next]_vars => IInv'
<1> SUFFICES ASSUME IInv, [Next]_vars PROVE IInv'
  OBVIOUS
<1>1. TypeOK'
  BY MainTypes, HandlerTypes, ConnTypes DEF IInv, Next, vars, TypeOK
<1> SUFFICES ConnInv' /\ SignalInv'
  BY <1>1 DEF IInv
<1>2. ASSUME NEW l \in Listeners, Main(l) PROVE ConnInv' /\ SignalInv'
  <2>1. CASE AcceptFails(l)
    BY <2>1, ExitInv, Tree DEF AcceptFails, Running, Alive, Causes
  <2>2. CASE DenyFails(l)
    BY <2>2, ExitInv, Tree DEF DenyFails, Running, Alive, Causes
  <2> QED
    BY <1>2, <2>1, <2>2, StartInv, AcceptInv, CheckInv, DenyInv, ForkInv,
       CloseInv DEF Main
<1>3. CASE UNCHANGED vars
  BY <1>3, ConnQuiet, QuietStep DEF vars, IInv
<1> QED BY <1>2, <1>3, HandlerInv, ConnStepInv DEF Next

\* The inductive invariant holds in every reachable state.
THEOREM Invariance == Spec => []IInv
BY InitInv, NextInv, PTL DEF Spec

\* Each pending SIGCHLD, and each run of the handler before its waitpid(), is
\* covered by a child that is there to be waited for, so the handler never
\* ends a listener when no worker is stopped or continued (main.c:19-23).
THEOREM SignalsAreCovered == Spec => []SignalsCovered
<1>1. IInv => SignalsCovered
  BY DEF IInv, SignalInv, Covered, NeverFails, SignalsCovered
<1> QED BY <1>1, Invariance, PTL

\* A permitted connection is open in its own worker, the programs of that
\* worker and, between Accept() and Close(), in its listener only
\* (main.c:103-123), whatever the limits and with job control.
THEOREM ConnectionsArePrivate == Spec => []ServedConnPrivate
<1>1. IInv => ServedConnPrivate
  <2> SUFFICES ASSUME IInv, NEW c \in Conns, verdict[c] = "permit"
      PROVE /\ \A p \in Procs : c \in held[p] =>
                 \/ p = c
                 \/ /\ p = Service(c) /\ cur[p] = c
                    /\ pc[p] \in {"fork", "close"}
            /\ \A d \in Conns : c \in program[d] => d = c
    BY DEF ServedConnPrivate
  <2>1. \A d \in Conns : c \in program[d] => d = c
    BY DEF IInv, ConnInv, HeldInv
  <2>2. ASSUME NEW p \in Procs, c \in held[p], p # c
        PROVE  p = Service(c) /\ cur[p] = c /\ pc[p] \in {"fork", "close"}
    <3>1. p = Service(c) /\ cur[p] = c /\ AtConn(p)
      BY <2>2 DEF IInv, ConnInv, HeldInv
    <3>2. p \in Listeners
      BY <3>1, Tree
    <3> QED BY <3>1, <3>2 DEF IInv, ConnInv, LoopInv, AtConn
  <2> QED BY <2>1, <2>2
<1> QED BY <1>1, Invariance, PTL

\* A denied client never gets a worker or a page, a permitted one never the
\* listener's 403 page (main.c:106-123, 136-152).
THEOREM AccessIsEnforced == Spec => []AccessEnforced
<1>1. IInv => AccessEnforced
  BY DEF IInv, ConnInv
<1> QED BY <1>1, Invariance, PTL
-----------------------------------------------------------------------------
(***************************************************************************)
(* The ledger of descriptors.                                              *)
(***************************************************************************)

Checked(l) == {c \in Conns : Service(c) = l /\ verdict[c] \in {"permit", "deny"}}
Denied(l) == {c \in Conns : Service(c) = l /\ verdict[c] \in {"deny"}}

\* The stream ssl_init() leaves open.
CaStream(l) ==
  IF l = "https" /\ pc[l] \notin {"none", "bind", "sslinit"} THEN 1 ELSE 0

\* What a listener that has not ended has open, one that has not begun
\* included.
Accounts(l) ==
  /\ cfg[l] = CaStream(l) + Cardinality(Checked(l))
  /\ held[l] = Denied(l) \cup ({cur[l]} \ {None})
  /\ ~AtConn(l) => cur[l] = None

LedgerInv ==
  /\ \A l \in Listeners : IsFiniteSet(Checked(l))
  /\ \A l \in Listeners : status[l] = "alive" => pc[l] # "none"
  /\ \A l \in Listeners : status[l] \in {"none", "alive"} => Accounts(l)

\* A step that leaves connections, descriptors and the places of listeners
\* alone, and begins no listener.
LEMMA LedgerQuiet ==
  ASSUME LedgerInv, UNCHANGED <<pc, cur, cfg, verdict>>,
         \A l \in Listeners : held'[l] = held[l],
         \A l \in Listeners : status'[l] \in {"none", "alive"} => status'[l] = status[l]
  PROVE  LedgerInv'
<1>1. \A l \in Listeners : /\ Checked(l)' = Checked(l) /\ Denied(l)' = Denied(l)
                           /\ CaStream(l)' = CaStream(l) /\ AtConn(l)' = AtConn(l)
  BY DEF Checked, Denied, CaStream, AtConn
<1>2. \A l \in Listeners : status'[l] \in {"none", "alive"} => Accounts(l)'
  BY <1>1 DEF LedgerInv, Accounts
<1> QED BY <1>1, <1>2 DEF LedgerInv

\* A process that ends has no books to keep; nobody else's change.
LEMMA LedgerEnd ==
  ASSUME IInv, LedgerInv, NEW p \in Procs, Alive(p), End(p), UNCHANGED verdict,
         \A l \in Listeners \ {p} : /\ pc'[l] = pc[l] /\ cur'[l] = cur[l]
                                    /\ cfg'[l] = cfg[l]
  PROVE  LedgerInv'
<1>1. status'[p] \notin {"none", "alive"}
  BY EndFacts DEF IInv
<1>2. \A l \in Listeners \ {p} :
        /\ held'[l] = held[l]
        /\ status'[l] \in {"none", "alive"} => status'[l] = status[l]
  BY EndFacts, Tree DEF IInv, TypeOK
<1>3. \A l \in Listeners : Checked(l)' = Checked(l) /\ Denied(l)' = Denied(l)
  BY DEF Checked, Denied
<1>4. \A l \in Listeners \ {p} : CaStream(l)' = CaStream(l) /\ AtConn(l)' = AtConn(l)
  BY DEF CaStream, AtConn
<1>5. \A l \in Listeners : status'[l] \in {"none", "alive"} =>
        l # p /\ Accounts(l)' /\ pc'[l] = pc[l] /\ status'[l] = status[l]
  BY <1>1, <1>2, <1>3, <1>4 DEF LedgerInv, Accounts
<1> QED BY <1>3, <1>5 DEF LedgerInv

LEMMA LedgerExit ==
  ASSUME IInv, LedgerInv, NEW l \in Listeners, NEW why \in Causes, Alive(l),
         Exit(l, why), UNCHANGED verdict
  PROVE  LedgerInv'
BY LedgerEnd, Tree DEF Exit, IInv, TypeOK

\* A step of one living listener that judges no connection: only its own
\* account has to be looked at.
LEMMA LedgerMove ==
  ASSUME IInv, LedgerInv, NEW l \in Listeners, UNCHANGED verdict,
         pc'[l] # "none", Accounts(l)',
         \A m \in Listeners \ {l} :
           /\ pc'[m] = pc[m] /\ cur'[m] = cur[m] /\ cfg'[m] = cfg[m]
           /\ held'[m] = held[m] /\ status'[m] = status[m]
  PROVE  LedgerInv'
<1>1. \A m \in Listeners : Checked(m)' = Checked(m) /\ Denied(m)' = Denied(m)
  BY DEF Checked, Denied
<1>2. \A m \in Listeners \ {l} : CaStream(m)' = CaStream(m) /\ AtConn(m)' = AtConn(m)
  BY DEF CaStream, AtConn
<1>3. \A m \in Listeners : status'[m] \in {"none", "alive"} => Accounts(m)'
  BY <1>1, <1>2 DEF LedgerInv, Accounts
<1> QED BY <1>1, <1>3 DEF LedgerInv

\* Accept() takes a descriptor for the connection; Close() gives it back,
\* and the 403 page does not.
LEMMA LedgerLoop ==
  ASSUME IInv, LedgerInv, NEW l \in Listeners,
         Accept(l) \/ DenyHead(l) \/ DenyBody(l) \/ CloseConn(l)
  PROVE  LedgerInv'
<1>1. /\ l \in Procs /\ status[l] = "alive" /\ UNCHANGED <<verdict, status, cfg>>
      /\ Accounts(l) /\ pc[l] # "none"
  BY Tree DEF Accept, DenyHead, DenyBody, DenyWrite, CloseConn, Running, LedgerInv
<1>2. Checked(l)' = Checked(l) /\ Denied(l)' = Denied(l)
  BY <1>1 DEF Checked, Denied
<1>3. CASE Accept(l)
  <2>1. PICK c \in Conns : /\ cur' = [cur EXCEPT ![l] = c]
                           /\ held' = [held EXCEPT ![l] = @ \cup {c}]
    BY <1>3 DEF Accept
  <2>2. /\ pc[l] = "accept" /\ pc'[l] = "check" /\ cur'[l] = c
        /\ held'[l] = held[l] \cup {c} /\ cur[l] = None /\ c # None
        /\ \A m \in Listeners \ {l} : pc'[m] = pc[m] /\ cur'[m] = cur[m] /\ held'[m] = held[m]
    BY <1>1, <1>3, <2>1, Tree DEF Accept, GoTo, IInv, TypeOK, Accounts, AtConn
  <2>3. Accounts(l)'
    BY <1>1, <1>2, <2>2 DEF Accounts, CaStream, AtConn
  <2> QED BY <1>1, <2>2, <2>3, LedgerMove
<1>4. CASE DenyHead(l)
  <2>1. /\ pc[l] = "deny_head" /\ pc'[l] = "deny_body" /\ UNCHANGED <<cur, held>>
        /\ \A m \in Listeners \ {l} : pc'[m] = pc[m]
    BY <1>4 DEF DenyHead, DenyWrite, GoTo, IInv, TypeOK
  <2>2. Accounts(l)'
    BY <1>1, <1>2, <2>1 DEF Accounts, CaStream, AtConn
  <2> QED BY <1>1, <2>1, <2>2, LedgerMove
<1>5. CASE DenyBody(l)
  <2>1. /\ pc[l] = "deny_body" /\ pc'[l] = "accept" /\ cur'[l] = None /\ UNCHANGED held
        /\ \A m \in Listeners \ {l} : pc'[m] = pc[m] /\ cur'[m] = cur[m]
    BY <1>5 DEF DenyBody, DenyWrite, GoTo, IInv, TypeOK
  <2>2. cur[l] \in Denied(l)
    BY <2>1 DEF IInv, ConnInv, LoopInv, AtConn, Denied
  <2>3. Accounts(l)'
    BY <1>1, <1>2, <2>1, <2>2 DEF Accounts, CaStream, AtConn
  <2> QED BY <1>1, <2>1, <2>3, LedgerMove
<1>6. CASE CloseConn(l)
  <2>1. /\ pc[l] = "close" /\ pc'[l] = "accept" /\ cur'[l] = None
        /\ held'[l] = held[l] \ {cur[l]}
        /\ \A m \in Listeners \ {l} : pc'[m] = pc[m] /\ cur'[m] = cur[m] /\ held'[m] = held[m]
    BY <1>1, <1>6 DEF CloseConn, GoTo, IInv, TypeOK
  <2>2. cur[l] \notin Denied(l)
    BY <2>1 DEF IInv, ConnInv, LoopInv, AtConn, Denied
  <2>3. Accounts(l)'
    BY <1>1, <1>2, <2>1, <2>2 DEF Accounts, CaStream, AtConn
  <2> QED BY <1>1, <2>1, <2>3, LedgerMove
<1> QED BY <1>3, <1>4, <1>5, <1>6

\* access_ornot() opens one stream more and judges one connection more.
LEMMA LedgerCheck ==
  ASSUME IInv, LedgerInv, NEW l \in Listeners, CheckAccess(l)
  PROVE  LedgerInv'
<1>1. CASE (Exit(l, "config") \/ Exit(l, "mask") \/ Exit(l, "log")) /\ UNCHANGED verdict
  BY <1>1, LedgerExit, Tree DEF CheckAccess, Running, Alive, Causes
<1>2. ASSUME NEW v \in {"permit", "deny"},
             cfg' = [cfg EXCEPT ![l] = @ + 1],
             verdict' = [verdict EXCEPT ![cur[l]] = v],
             GoTo(l, IF v = "permit" THEN "fork" ELSE "deny_head"),
             UNCHANGED <<cur, status, pending, handling, held, cause>>
      PROVE  LedgerInv'
  <2> DEFINE c == cur[l]
  <2>1. Running(l) /\ pc[l] = "check"
    BY DEF CheckAccess
  <2>2. /\ c \in Conns /\ Service(c) = l /\ verdict[c] = "none" /\ c # None
        /\ Accounts(l) /\ IsFiniteSet(Checked(l)) /\ status[l] = "alive"
    BY <2>1, Tree DEF IInv, ConnInv, LoopInv, AtConn, LedgerInv, Running
  <2> HIDE DEF c
  <2>3. \A d \in Conns : verdict'[d] = IF d = c THEN v ELSE verdict[d]
    BY <1>2 DEF IInv, TypeOK, c
  <2>4. /\ pc'[l] \in {"fork", "deny_head"} /\ cfg'[l] = cfg[l] + 1 /\ cfg[l] \in Nat
        /\ \A m \in Listeners \ {l} : pc'[m] = pc[m] /\ cfg'[m] = cfg[m]
    BY <1>2 DEF GoTo, IInv, TypeOK
  <2>5. Checked(l)' = Checked(l) \cup {c} /\ c \notin Checked(l)
    BY <2>2, <2>3 DEF Checked
  <2>6. /\ IsFiniteSet(Checked(l)') /\ Cardinality(Checked(l)') = Cardinality(Checked(l)) + 1
        /\ Cardinality(Checked(l)) \in Nat
    BY <2>2, <2>5, FS_AddElement, FS_CardinalityType
  <2>7. Denied(l)' = IF v = "deny" THEN Denied(l) \cup {c} ELSE Denied(l)
    BY <2>2, <2>3 DEF Denied
  <2>8. \A m \in Listeners \ {l} : Checked(m)' = Checked(m) /\ Denied(m)' = Denied(m)
    BY <2>2, <2>3 DEF Checked, Denied
  <2>9. Accounts(l)'
    <3>1. CaStream(l)' = CaStream(l) /\ CaStream(l) \in Nat /\ AtConn(l)'
      BY <2>1, <2>4 DEF CaStream, AtConn
    <3>2. cfg'[l] = CaStream(l)' + Cardinality(Checked(l)')
      BY <2>2, <2>4, <2>6, <3>1 DEF Accounts
    <3>3. held'[l] = Denied(l)' \cup ({cur'[l]} \ {None})
      BY <1>2, <2>2, <2>7 DEF Accounts, c
    <3> QED BY <3>1, <3>2, <3>3 DEF Accounts
  <2>10. \A m \in Listeners \ {l} : CaStream(m)' = CaStream(m) /\ AtConn(m)' = AtConn(m)
    BY <2>4 DEF CaStream, AtConn
  <2>11. \A m \in Listeners \ {l} : Accounts(m) => Accounts(m)'
    BY <1>2, <2>4, <2>8, <2>10 DEF Accounts
  <2> QED BY <1>2, <2>4, <2>6, <2>8, <2>9, <2>11 DEF LedgerInv
<1> QED BY <1>1, <1>2 DEF CheckAccess

\* Start-up: the https listener begins with nothing open, and ssl_init()
\* leaves its stream.
LEMMA LedgerStart ==
  ASSUME IInv, LedgerInv, NEW l \in Listeners,
         \/ l = "http" /\ StartHttps
         \/ OpenListen(l)
         \/ l = "https" /\ SslInit
  PROVE  LedgerInv'
<1>1. /\ UNCHANGED verdict /\ Running(l) /\ Alive(l) /\ status[l] = "alive"
      /\ Accounts(l) /\ ~AtConn(l) /\ l \in Procs
  BY Tree DEF StartHttps, OpenListen, SslInit, Running, Alive, LedgerInv, AtConn
<1>2. ASSUME NEW why \in Causes, Exit(l, why) PROVE LedgerInv'
  BY <1>1, <1>2, LedgerExit
<1>3. Checked(l)' = Checked(l) /\ Denied(l)' = Denied(l)
  BY <1>1 DEF Checked, Denied
<1>4. ASSUME NEW loc \in {"bind", "sslinit", "accept"}, GoTo(l, loc),
             UNCHANGED <<cur, status, held>>,
             \A m \in Listeners \ {l} : cfg'[m] = cfg[m],
             cfg'[l] = cfg[l] + (CaStream(l)' - CaStream(l))
      PROVE  LedgerInv'
  <2>1. pc'[l] = loc /\ \A m \in Listeners \ {l} : pc'[m] = pc[m]
    BY <1>4 DEF GoTo, IInv, TypeOK
  <2>2. ~AtConn(l)'
    BY <2>1 DEF AtConn
  <2>3. IsFiniteSet(Checked(l)) /\ CaStream(l) \in Nat /\ CaStream(l)' \in Nat
    BY DEF LedgerInv, CaStream
  <2>4. cfg'[l] = CaStream(l)' + Cardinality(Checked(l))
    BY <1>1, <1>4, <2>3, FS_CardinalityType DEF Accounts
  <2>5. Accounts(l)'
    BY <1>1, <1>3, <1>4, <2>2, <2>4 DEF Accounts
  <2> QED BY <1>1, <1>4, <2>1, <2>5, LedgerMove
<1>5. CASE l = "http" /\ StartHttps
  <2>1. CASE GoTo("http", "bind") /\ UNCHANGED <<cur, status, held, cfg>>
    <3>1. CaStream(l)' = 0 /\ CaStream(l) = 0 /\ cfg[l] \in Nat
      BY <1>5 DEF CaStream, IInv, TypeOK
    <3> QED BY <1>4, <1>5, <2>1, <3>1
  <2>2. CASE /\ pc' = [pc EXCEPT !["http"] = "bind", !["https"] = "bind"]
             /\ status' = [status EXCEPT !["https"] = "alive"]
             /\ UNCHANGED <<cur, held, cfg>>
    <3>1. /\ \A m \in Listeners : status[m] \in {"none", "alive"}
          /\ pc["http"] = "boot" /\ pc["https"] = "none"
      BY <1>1, <1>5 DEF IInv, SignalInv, BootInv, StartHttps, Listeners
    <3>2. \A m \in Listeners : pc'[m] = "bind"
      BY <2>2 DEF IInv, TypeOK, Listeners
    <3>3. \A m \in Listeners : Checked(m)' = Checked(m) /\ Denied(m)' = Denied(m)
      BY <1>1 DEF Checked, Denied
    <3>4. \A m \in Listeners : /\ CaStream(m)' = CaStream(m)
                               /\ ~AtConn(m) /\ ~AtConn(m)'
      BY <3>1, <3>2 DEF CaStream, AtConn, Listeners
    <3>5. \A m \in Listeners : Accounts(m)'
      BY <2>2, <3>1, <3>3, <3>4 DEF Accounts, LedgerInv
    <3> QED BY <3>2, <3>3, <3>5 DEF LedgerInv
  <2> QED BY <1>2, <1>5, <2>1, <2>2 DEF StartHttps, Causes
<1>6. CASE OpenListen(l)
  <2>1. CASE /\ GoTo(l, IF l = "https" THEN "sslinit" ELSE "accept")
             /\ UNCHANGED <<cur, status, held, cfg>>
    <3>1. CaStream(l)' = 0 /\ CaStream(l) = 0 /\ cfg[l] \in Nat
      BY <1>6, <2>1 DEF CaStream, OpenListen, GoTo, IInv, TypeOK
    <3> QED BY <1>4, <2>1, <3>1
  <2> QED BY <1>2, <1>6, <2>1 DEF OpenListen, Causes
<1>7. CASE l = "https" /\ SslInit
  <2>1. CASE /\ cfg' = [cfg EXCEPT !["https"] = @ + 1] /\ GoTo("https", "accept")
             /\ UNCHANGED <<cur, status, held>>
    <3>1. CaStream(l)' = 1 /\ CaStream(l) = 0
      BY <1>7, <2>1 DEF CaStream, SslInit, GoTo, IInv, TypeOK
    <3>2. cfg'[l] = cfg[l] + 1 /\ \A m \in Listeners \ {l} : cfg'[m] = cfg[m]
      BY <1>7, <2>1 DEF IInv, TypeOK
    <3> QED BY <1>4, <1>7, <2>1, <3>1, <3>2
  <2> QED BY <1>2, <1>7, <2>1 DEF SslInit, Causes
<1> QED BY <1>5, <1>6, <1>7

\* Fork() copies the books and changes none.
LEMMA LedgerFork ==
  ASSUME IInv, LedgerInv, NEW l \in Listeners, ForkWorker(l)
  PROVE  LedgerInv'
<1>1. /\ Running(l) /\ Alive(l) /\ pc[l] = "fork" /\ UNCHANGED verdict
      /\ status[l] = "alive" /\ Accounts(l)
  BY Tree DEF ForkWorker, Running, Alive, LedgerInv
<1>2. CASE Exit(l, "fork")
  BY <1>1, <1>2, LedgerExit DEF Causes
<1>3. CASE /\ status' = [status EXCEPT ![cur[l]] = "alive"]
           /\ held' = [held EXCEPT ![cur[l]] = held[l]]
           /\ GoTo(l, "close") /\ UNCHANGED <<cur, cfg>>
  <2>1. cur[l] \notin Listeners
    BY <1>1, Tree DEF IInv, ConnInv, LoopInv, AtConn
  <2>2. \A m \in Listeners : status'[m] = status[m] /\ held'[m] = held[m]
    BY <1>3, <2>1, Tree DEF IInv, TypeOK
  <2>3. pc'[l] = "close" /\ \A m \in Listeners \ {l} : pc'[m] = pc[m]
    BY <1>3 DEF GoTo, IInv, TypeOK
  <2>4. Accounts(l)'
    BY <1>1, <1>3, <2>2, <2>3 DEF Accounts, Checked, Denied, CaStream, AtConn
  <2> QED BY <1>1, <1>3, <2>2, <2>3, <2>4, LedgerMove
<1> QED BY <1>2, <1>3 DEF ForkWorker

\* The handler, workers and clients do not touch a listener's descriptors.
LEMMA LedgerOthers ==
  ASSUME IInv, LedgerInv,
         \/ \E l \in Listeners : Handler(l)
         \/ \E c \in Conns : Worker(c) \/ Environment(c)
  PROVE  LedgerInv'
<1>1. ASSUME NEW l \in Listeners, Handler(l) PROVE LedgerInv'
  <2>1. CASE Deliver(l)
    BY <2>1, LedgerQuiet DEF Deliver
  <2>2. CASE Exit(l, "waitpid") /\ Reap(l)
    <3>1. Alive(l)
      BY <2>2 DEF Reap, IInv, SignalInv, SignalledAlive
    <3> QED BY <2>2, <3>1, LedgerExit DEF Reap, Causes
  <2>3. CASE ~Exit(l, "waitpid") /\ Reap(l)
    <3>1. UNCHANGED <<pc, cur, held, cfg, verdict>>
      BY <2>3 DEF Reap
    <3>2. status' = status \/ \E z \in Zombies(l) : status' = [status EXCEPT ![z] = "reaped"]
      BY <2>3 DEF Reap
    <3>3. \A m \in Listeners : status'[m] \in {"none", "alive"} => status'[m] = status[m]
      BY <3>2, ZombieOf, Tree DEF IInv, TypeOK
    <3> QED BY <3>1, <3>3, LedgerQuiet
  <2> QED BY <1>1, <2>1, <2>2, <2>3 DEF Handler
<1>2. ASSUME NEW c \in Conns, Worker(c) \/ Environment(c) PROVE LedgerInv'
  <2>1. c \in Procs /\ c \notin Listeners /\ Service(c) \in Listeners
    BY Tree
  <2>2. CASE WorkerExit(c)
    BY <2>1, <2>2, LedgerEnd DEF WorkerExit, WorkerRuns, Alive
  <2>3. CASE Stop(c) \/ Continue(c)
    <3>1. PICK to \in Status : status' = [status EXCEPT ![c] = to]
      BY <2>3 DEF Stop, Continue, Toggle, Status
    <3>2. \A l \in Listeners : status'[l] = status[l]
      BY <2>1, <3>1, Tree DEF IInv, TypeOK
    <3> QED BY <2>3, <3>2, LedgerQuiet DEF Stop, Continue, Toggle
  <2>4. CASE EnableSsl(c) \/ StartProgram(c) \/ EndProgram(c) \/ Answer(c) \/ Connect(c)
    BY <2>4, LedgerQuiet DEF EnableSsl, StartProgram, EndProgram, Answer, Connect
  <2> QED BY <1>2, <2>2, <2>3, <2>4 DEF Worker, Environment
<1> QED BY <1>1, <1>2

\* The books balance in every reachable state.
LEMMA LedgerAlways == Spec => []LedgerInv
<1>1. Init => LedgerInv
  <2> SUFFICES ASSUME Init PROVE LedgerInv
    OBVIOUS
  <2>1. \A l \in Listeners : Checked(l) = {} /\ Denied(l) = {}
    BY DEF Init, Checked, Denied
  <2>2. IsFiniteSet({}) /\ Cardinality({}) = 0
    BY FS_EmptySet
  <2>3. \A l \in Listeners : CaStream(l) = 0
    BY DEF Init, CaStream, Listeners
  <2>4. \A l \in Listeners : cfg[l] = 0 /\ held[l] = {} /\ cur[l] = None
    BY Tree DEF Init
  <2>5. \A l \in Listeners : Accounts(l)
    BY <2>1, <2>2, <2>3, <2>4 DEF Accounts
  <2>6. \A l \in Listeners : status[l] = "alive" => pc[l] # "none"
    BY Tree DEF Init, Listeners
  <2> QED BY <2>1, <2>2, <2>5, <2>6 DEF LedgerInv
<1>2. IInv /\ LedgerInv /\ [Next]_vars => LedgerInv'
  <2> SUFFICES ASSUME IInv, LedgerInv, [Next]_vars PROVE LedgerInv'
    OBVIOUS
  <2>1. ASSUME NEW l \in Listeners, Main(l) PROVE LedgerInv'
    <3>1. CASE AcceptFails(l)
      BY <3>1, LedgerExit, Tree DEF AcceptFails, Running, Alive, Causes
    <3>2. CASE DenyFails(l)
      BY <3>2, LedgerExit, Tree DEF DenyFails, Running, Alive, Causes
    <3> QED BY <2>1, <3>1, <3>2, LedgerStart, LedgerLoop, LedgerCheck, LedgerFork DEF Main
  <2>2. CASE UNCHANGED vars
    BY <2>2, LedgerQuiet DEF vars
  <2> QED BY <2>1, <2>2, LedgerOthers DEF Next
<1> QED BY <1>1, <1>2, Invariance, PTL DEF Spec

-----------------------------------------------------------------------------
(***************************************************************************)
(* The table of descriptors.                                               *)
(***************************************************************************)

Room(l) == FdsUsed(l) <= FdLimit
RoomInv == \A l \in Listeners : status[l] \in {"none", "alive"} => Room(l)

LEMMA HeldFinite ==
  ASSUME IInv, LedgerInv, NEW l \in Listeners, status[l] \in {"none", "alive"}
  PROVE  /\ IsFiniteSet(held[l]) /\ Cardinality(held[l]) \in Nat
         /\ cfg[l] \in Nat
<1>1. IsFiniteSet(Denied(l))
  <2>1. Denied(l) \subseteq Checked(l)
    BY DEF Denied, Checked
  <2> QED BY <2>1, FS_Subset DEF LedgerInv
<1>2. IsFiniteSet({cur[l]} \ {None})
  <2>1. IsFiniteSet({cur[l]}) /\ {cur[l]} \ {None} \subseteq {cur[l]}
    BY FS_Singleton
  <2> QED BY <2>1, FS_Subset
<1>3. IsFiniteSet(held[l])
  <2>1. held[l] = Denied(l) \cup ({cur[l]} \ {None})
    BY DEF LedgerInv, Accounts
  <2>2. \A S, T : IsFiniteSet(S) /\ IsFiniteSet(T) => IsFiniteSet(S \cup T)
    BY FS_Union
  <2>3. IsFiniteSet(Denied(l) \cup ({cur[l]} \ {None}))
    BY <1>1, <1>2, <2>2, Zenon
  <2> QED BY <2>1, <2>3
<1> QED BY <1>3, FS_CardinalityType DEF IInv, TypeOK

\* A step of one listener that leaves the tables of the others alone, or of
\* nobody's table.
LEMMA RoomMove ==
  ASSUME RoomInv, NEW l \in Listeners, status'[l] \in {"none", "alive"} => Room(l)',
         \A m \in Listeners \ {l} :
           /\ cfg'[m] = cfg[m] /\ held'[m] = held[m]
           /\ status'[m] \in {"none", "alive"} => status[m] \in {"none", "alive"}
  PROVE  RoomInv'
BY DEF RoomInv, Room, FdsUsed

LEMMA RoomQuiet ==
  ASSUME RoomInv,
         \A m \in Listeners :
           /\ cfg'[m] = cfg[m] /\ held'[m] = held[m]
           /\ status'[m] \in {"none", "alive"} => status[m] \in {"none", "alive"}
  PROVE  RoomInv'
BY DEF RoomInv, Room, FdsUsed

LEMMA RoomEnd ==
  ASSUME IInv, RoomInv, NEW p \in Procs, Alive(p), End(p),
         \A l \in Listeners \ {p} : cfg'[l] = cfg[l]
  PROVE  RoomInv'
<1>1. status'[p] \notin {"none", "alive"}
  BY EndFacts DEF IInv
<1>2. \A m \in Listeners \ {p} :
        /\ held'[m] = held[m]
        /\ status'[m] \in {"none", "alive"} => status[m] \in {"none", "alive"}
  BY EndFacts, Tree DEF IInv, TypeOK
<1> QED BY <1>1, <1>2 DEF RoomInv, Room, FdsUsed

LEMMA RoomExit ==
  ASSUME IInv, RoomInv, NEW l \in Listeners, NEW why \in Causes, Alive(l), Exit(l, why)
  PROVE  RoomInv'
BY RoomEnd, Tree DEF Exit, IInv, TypeOK

\* What takes a descriptor finds one free.
LEMMA RoomTaken ==
  ASSUME IInv, LedgerInv, RoomInv, NEW l \in Listeners,
         \/ Accept(l) \/ CheckAccess(l) \/ CloseConn(l) \/ (l = "https" /\ SslInit)
  PROVE  RoomInv'
<1>1. /\ status[l] = "alive" /\ Alive(l) /\ l \in Procs /\ FdLimit \in Nat
      /\ Room(l)
  BY Tree, ServerAssumption
     DEF Accept, CheckAccess, CloseConn, SslInit, Running, Alive, RoomInv
<1>2. IsFiniteSet(held[l]) /\ Cardinality(held[l]) \in Nat /\ cfg[l] \in Nat
  BY <1>1, HeldFinite
<1>3. ASSUME UNCHANGED <<status, held>>, cfg' = [cfg EXCEPT ![l] = @ + 1], ~TableFull(l)
      PROVE  RoomInv'
  <2>1. cfg'[l] = cfg[l] + 1 /\ \A m \in Listeners \ {l} : cfg'[m] = cfg[m]
    BY <1>3 DEF IInv, TypeOK
  <2>2. Room(l)'
    BY <1>1, <1>2, <1>3, <2>1 DEF Room, FdsUsed, TableFull
  <2> QED BY <1>3, <2>1, <2>2, RoomMove
<1>4. ASSUME NEW why \in Causes, Exit(l, why) PROVE RoomInv'
  BY <1>1, <1>4, RoomExit
<1>5. CASE Accept(l)
  <2>1. PICK c \in Conns : held' = [held EXCEPT ![l] = @ \cup {c}] /\ ~TableFull(l)
    BY <1>5 DEF Accept
  <2>2. /\ held'[l] = held[l] \cup {c} /\ UNCHANGED <<status, cfg>>
        /\ \A m \in Listeners \ {l} : held'[m] = held[m]
    BY <1>1, <1>5, <2>1, Tree DEF Accept, IInv, TypeOK
  <2>3. Cardinality(held'[l]) \in Nat /\ Cardinality(held'[l]) <= Cardinality(held[l]) + 1
    BY <1>2, <2>2, FS_AddElement, FS_CardinalityType
  <2>4. Room(l)'
    BY <1>1, <1>2, <2>1, <2>2, <2>3 DEF Room, FdsUsed, TableFull
  <2> QED BY <2>2, <2>4, RoomMove
<1>6. CASE CheckAccess(l)
  <2>1. CASE Exit(l, "config") \/ Exit(l, "mask") \/ Exit(l, "log")
    BY <1>4, <2>1 DEF Causes
  <2> QED BY <1>3, <1>6, <2>1 DEF CheckAccess
<1>7. CASE CloseConn(l)
  <2>1. /\ held'[l] = held[l] \ {cur[l]} /\ UNCHANGED <<status, cfg>>
        /\ \A m \in Listeners \ {l} : held'[m] = held[m]
    BY <1>1, <1>7, Tree DEF CloseConn, IInv, TypeOK
  <2>2. Cardinality(held'[l]) \in Nat /\ Cardinality(held'[l]) <= Cardinality(held[l])
    BY <1>2, <2>1, FS_Subset, FS_CardinalityType
  <2>3. Room(l)'
    BY <1>1, <1>2, <2>1, <2>2 DEF Room, FdsUsed
  <2> QED BY <2>1, <2>3, RoomMove
<1>8. CASE l = "https" /\ SslInit
  <2>1. CASE Exit("https", "cert") \/ Exit("https", "config") \/ Exit("https", "log")
    BY <1>4, <1>8, <2>1 DEF Causes
  <2> QED BY <1>3, <1>8, <2>1 DEF SslInit
<1> QED BY <1>5, <1>6, <1>7, <1>8

\* The other steps of a listener take none.
LEMMA RoomOther ==
  ASSUME IInv, LedgerInv, RoomInv, NEW l \in Listeners,
         \/ l = "http" /\ StartHttps
         \/ OpenListen(l) \/ AcceptFails(l) \/ DenyHead(l) \/ DenyBody(l)
         \/ DenyFails(l) \/ ForkWorker(l)
  PROVE  RoomInv'
<1>1. Running(l) /\ Alive(l) /\ l \in Procs
  BY Tree DEF StartHttps, OpenListen, AcceptFails, DenyHead, DenyBody, DenyWrite,
              DenyFails, ForkWorker, Running, Alive
<1>2. ASSUME NEW why \in Causes, Exit(l, why) PROVE RoomInv'
  BY <1>1, <1>2, RoomExit
<1>3. CASE UNCHANGED <<cfg, held>> /\ \A m \in Listeners :
             status'[m] \in {"none", "alive"} => status[m] \in {"none", "alive"}
  BY <1>3, RoomQuiet
<1>4. CASE l = "http" /\ StartHttps
  <2>1. ASSUME status' = [status EXCEPT !["https"] = "alive"], UNCHANGED <<cfg, held>>
        PROVE  RoomInv'
    <3>1. status["https"] = "none"
      BY <1>4 DEF StartHttps, IInv, SignalInv, BootInv
    <3>2. \A m \in Listeners : m # "https" => status'[m] = status[m]
      BY <2>1, Tree DEF IInv, TypeOK
    <3> QED BY <1>3, <2>1, <3>1, <3>2
  <2> QED BY <1>2, <1>3, <1>4, <2>1 DEF StartHttps, Causes
<1>5. CASE OpenListen(l) \/ AcceptFails(l) \/ DenyFails(l)
  BY <1>2, <1>3, <1>5 DEF OpenListen, AcceptFails, DenyFails, Causes
<1>6. CASE DenyHead(l) \/ DenyBody(l)
  BY <1>3, <1>6 DEF DenyHead, DenyBody, DenyWrite
<1>7. CASE ForkWorker(l)
  <2>1. ASSUME status' = [status EXCEPT ![cur[l]] = "alive"],
               held' = [held EXCEPT ![cur[l]] = held[l]], UNCHANGED cfg
        PROVE  RoomInv'
    <3>1. cur[l] \notin Listeners
      BY <1>7, Tree DEF ForkWorker, IInv, ConnInv, LoopInv, AtConn
    <3>2. \A m \in Listeners : status'[m] = status[m] /\ held'[m] = held[m]
      BY <2>1, <3>1, Tree DEF IInv, TypeOK
    <3> QED BY <2>1, <3>2, RoomQuiet
  <2> QED BY <1>2, <1>7, <2>1 DEF ForkWorker, Causes
<1> QED BY <1>4, <1>5, <1>6, <1>7

\* Nor do the handler, workers and clients.
LEMMA RoomOutside ==
  ASSUME IInv, RoomInv,
         \/ \E l \in Listeners : Handler(l)
         \/ \E c \in Conns : Worker(c) \/ Environment(c)
  PROVE  RoomInv'
<1>1. ASSUME NEW l \in Listeners, Handler(l) PROVE RoomInv'
  <2>1. CASE Deliver(l)
    BY <2>1, RoomQuiet DEF Deliver
  <2>2. CASE Exit(l, "waitpid") /\ Reap(l)
    <3>1. Alive(l)
      BY <2>2 DEF Reap, IInv, SignalInv, SignalledAlive
    <3> QED BY <2>2, <3>1, RoomExit DEF Causes
  <2>3. CASE ~Exit(l, "waitpid") /\ Reap(l)
    <3>1. UNCHANGED <<held, cfg>>
      BY <2>3 DEF Reap
    <3>2. status' = status \/ \E z \in Zombies(l) : status' = [status EXCEPT ![z] = "reaped"]
      BY <2>3 DEF Reap
    <3>3. \A m \in Listeners : status'[m] \in {"none", "alive"} => status[m] \in {"none", "alive"}
      BY <3>2, ZombieOf, Tree DEF IInv, TypeOK
    <3> QED BY <3>1, <3>3, RoomQuiet
  <2> QED BY <1>1, <2>1, <2>2, <2>3 DEF Handler
<1>2. ASSUME NEW c \in Conns, Worker(c) \/ Environment(c) PROVE RoomInv'
  <2>1. c \in Procs /\ c \notin Listeners
    BY Tree
  <2>2. CASE WorkerExit(c)
    BY <2>1, <2>2, RoomEnd DEF WorkerExit, WorkerRuns, Alive
  <2>3. CASE Stop(c) \/ Continue(c)
    <3>1. PICK to \in Status : status' = [status EXCEPT ![c] = to]
      BY <2>3 DEF Stop, Continue, Toggle, Status
    <3>2. \A l \in Listeners : status'[l] = status[l]
      BY <2>1, <3>1, Tree DEF IInv, TypeOK
    <3> QED BY <2>3, <3>2, RoomQuiet DEF Stop, Continue, Toggle
  <2>4. CASE EnableSsl(c) \/ StartProgram(c) \/ EndProgram(c) \/ Answer(c) \/ Connect(c)
    BY <2>4, RoomQuiet DEF EnableSsl, StartProgram, EndProgram, Answer, Connect
  <2> QED BY <1>2, <2>2, <2>3, <2>4 DEF Worker, Environment
<1> QED BY <1>1, <1>2

LEMMA RoomAlways == Spec => []RoomInv
<1>1. Init => RoomInv
  <2> SUFFICES ASSUME Init, NEW l \in Listeners PROVE Room(l)
    BY DEF RoomInv
  <2>1. cfg[l] = 0 /\ held[l] = {}
    BY Tree DEF Init
  <2> QED BY <2>1, FS_EmptySet, ServerAssumption DEF Room, FdsUsed
<1>2. IInv /\ LedgerInv /\ RoomInv /\ [Next]_vars => RoomInv'
  <2> SUFFICES ASSUME IInv, LedgerInv, RoomInv, [Next]_vars PROVE RoomInv'
    OBVIOUS
  <2>1. ASSUME NEW l \in Listeners, Main(l) PROVE RoomInv'
    BY <2>1, RoomTaken, RoomOther DEF Main
  <2>2. CASE UNCHANGED vars
    BY <2>2, RoomQuiet DEF vars
  <2> QED BY <2>1, <2>2, RoomOutside DEF Next
<1> QED BY <1>1, <1>2, Invariance, LedgerAlways, PTL DEF Spec

\* Descriptors leak, and by exactly this much: one stream on config.ini per
\* access check and one for `ca', and the connection of every denied client,
\* for any number of connections and whatever the limits; and no listener
\* lives beyond its table (main.c:133-140, parse_config.c:11-15).
THEOREM LedgerIsKept == Spec => []DescriptorLedger
<1>1. LedgerInv /\ RoomInv => DescriptorLedger
  <2> SUFFICES ASSUME LedgerInv, RoomInv, NEW l \in Listeners, status[l] = "alive"
      PROVE /\ cfg[l] = (IF l = "https" /\ pc[l] \notin {"bind", "sslinit"} THEN 1 ELSE 0)
                          + Cardinality(Checked(l))
            /\ held[l] = Denied(l) \cup ({cur[l]} \ {None})
            /\ FdsUsed(l) <= FdLimit
    BY DEF DescriptorLedger, Checked, Denied
  <2>1. pc[l] # "none" /\ Accounts(l)
    BY DEF LedgerInv
  <2> QED BY <2>1 DEF Accounts, CaStream, RoomInv, Room
<1> QED BY <1>1, LedgerAlways, RoomAlways, PTL

\* The life of a listener is bounded by its table: it judges FdLimit clients
\* at most, and those it denies count twice.  Nothing a client, a worker or
\* the kernel does gives a descriptor back (main.c:133-140,
\* parse_config.c:11-15).
LifeBounded ==
  \A l \in Listeners : status[l] = "alive" =>
    CaStream(l) + Cardinality(Checked(l)) + Cardinality(Denied(l)) <= FdLimit

\* For every table size: what a living listener has judged and denied fits
\* into its table, the stream of the https listener included (main.c:133-140).
THEOREM LifeIsBounded == Spec => []LifeBounded
<1>1. IInv /\ LedgerInv /\ RoomInv => LifeBounded
  <2> SUFFICES ASSUME IInv, LedgerInv, RoomInv, NEW l \in Listeners, status[l] = "alive"
      PROVE  CaStream(l) + Cardinality(Checked(l)) + Cardinality(Denied(l)) <= FdLimit
    BY DEF LifeBounded
  <2>1. IsFiniteSet(held[l]) /\ Cardinality(held[l]) \in Nat
    BY HeldFinite
  <2>2. Denied(l) \subseteq held[l]
    BY DEF LedgerInv, Accounts
  <2>3. Cardinality(Denied(l)) \in Nat /\ Cardinality(Denied(l)) <= Cardinality(held[l])
    BY <2>1, <2>2, FS_Subset, FS_CardinalityType
  <2>4. /\ cfg[l] = CaStream(l) + Cardinality(Checked(l)) /\ CaStream(l) \in Nat
        /\ Cardinality(Checked(l)) \in Nat
    BY FS_CardinalityType DEF LedgerInv, Accounts, CaStream
  <2>5. cfg[l] + Cardinality(held[l]) <= FdLimit /\ FdLimit \in Nat
    BY ServerAssumption DEF RoomInv, Room, FdsUsed
  <2> QED BY <2>1, <2>3, <2>4, <2>5
<1> QED BY <1>1, Invariance, LedgerAlways, RoomAlways, PTL

-----------------------------------------------------------------------------
(***************************************************************************)
(* The server treats every client as module Connection says.               *)
(***************************************************************************)

Promise(c) == IF Service(c) = "https" THEN "tls" ELSE "plain"
Leaves(c) == [Client(c)!CNext]_(Client(c)!cvars)

\* Which channel a process writes on, and what has been written to whom.
PromiseInv ==
  /\ \A l \in Listeners :
       /\ ~tls[l]
       /\ pc[l] \in {"deny_head", "deny_body"} => sent[cur[l]] = {}
  /\ \A c \in Conns :
       /\ tls[c] => Service(c) = "https"
       /\ verdict[c] = "deny" => sent[c] \subseteq {<<"403", "plain">>}
       /\ verdict[c] # "deny" => sent[c] \subseteq {<<"page", Promise(c)>>}
       /\ status[c] = "none" /\ verdict[c] # "deny" => sent[c] = {}

\* What a client sees of a step that does not change its stage.
LEMMA StageKept ==
  ASSUME NEW c \in Conns, verdict'[c] = verdict[c], sent'[c] = sent[c],
         (net'[c] = "accepted") <=> (net[c] = "accepted"),
         (status'[c] = "none") <=> (status[c] = "none"),
         (status'[c] \in {"zombie", "reaped"}) <=> (status[c] \in {"zombie", "reaped"}),
         (program'[c] = {}) <=> (program[c] = {})
  PROVE  Leaves(c)
<1>1. c \in Programs' <=> c \in Programs
  BY DEF Programs
<1>2. Finished(c)' <=> Finished(c)
  BY <1>1 DEF Finished
<1>3. Stage(c)' = Stage(c)
  BY <1>1, <1>2 DEF Stage
<1> QED BY <1>3 DEF Leaves, Client!cvars

\* The end of a process leaves the clients of the others where they are.
LEMMA StageEnd ==
  ASSUME TypeOK, NEW p \in Procs, Alive(p), End(p), NEW c \in Conns \ {p},
         UNCHANGED <<verdict, net, program, sent>>
  PROVE  Leaves(c)
<1>1. /\ (status'[c] = "none") <=> (status[c] = "none")
      /\ (status'[c] \in {"zombie", "reaped"}) <=> (status[c] \in {"zombie", "reaped"})
  BY EndFacts, Tree
<1> QED BY <1>1, StageKept

\* Before its worker is forked, a connection is where net and verdict say.
LEMMA StageEarly ==
  ASSUME IInv, NEW c \in Conns, status[c] = "none"
  PROVE  Stage(c) = IF verdict[c] = "deny" THEN "denied"
                    ELSE IF verdict[c] = "permit" THEN "permitted"
                    ELSE IF net[c] = "accepted" THEN "taken" ELSE "waiting"
<1>1. c \notin Programs
  BY DEF Programs, IInv, ConnInv, ProgramInv
<1> QED BY <1>1 DEF Stage, Finished

\* A step that keeps the promises it has found, to every client.
Obeys == PromiseInv' /\ \A c \in Conns : Leaves(c)

\* Nobody is written to, and no listener begins to write.
LEMMA PromiseKept ==
  ASSUME PromiseInv, UNCHANGED <<tls, verdict, sent>>,
         \A c \in Conns : (status'[c] = "none") => (status[c] = "none"),
         \A l \in Listeners : pc'[l] \in {"deny_head", "deny_body"} =>
            pc[l] \in {"deny_head", "deny_body"} /\ cur'[l] = cur[l]
  PROVE  PromiseInv'
BY DEF PromiseInv, Promise, Service

\* A failed call, or SIGPIPE, ends a listener: its clients keep their stage.
LEMMA ObeyExit ==
  ASSUME IInv, PromiseInv, NEW l \in Listeners, NEW why, Alive(l), Exit(l, why),
         UNCHANGED <<tls, verdict, net, program, sent>>
  PROVE  Obeys
<1>1. TypeOK /\ l \in Procs /\ End(l) /\ \A c \in Conns : c # l
  BY Tree DEF IInv, Exit
<1>2. \A c \in Conns : Leaves(c)
  BY <1>1, StageEnd
<1>3. \A c \in Conns : (status'[c] = "none") => (status[c] = "none")
  BY <1>1, EndFacts, Tree
<1>4. \A k \in Listeners : pc'[k] \in {"deny_head", "deny_body"} =>
        pc[k] \in {"deny_head", "deny_body"} /\ cur'[k] = cur[k]
  BY <1>1 DEF Exit, TypeOK
<1> QED BY <1>2, <1>3, <1>4, PromiseKept DEF Obeys

\* Start-up, the first half of the 403 page, the parent's Close().
LEMMA ObeyQuiet ==
  ASSUME IInv, PromiseInv, NEW l \in Listeners,
         \/ l = "http" /\ StartHttps
         \/ OpenListen(l)
         \/ l = "https" /\ SslInit
         \/ AcceptFails(l) \/ DenyHead(l) \/ DenyFails(l) \/ CloseConn(l)
  PROVE  Obeys
<1> USE DEF Running, Alive
<1>1. CASE \E why \in Causes : Exit(l, why)
  <2>1. UNCHANGED <<tls, verdict, net, program, sent>> /\ Alive(l)
    BY Tree DEF StartHttps, OpenListen, SslInit, AcceptFails, DenyHead, DenyFails,
            CloseConn, DenyWrite
  <2> QED BY <1>1, <2>1, ObeyExit
<1>2. CASE ~\E why \in Causes : Exit(l, why)
  <2>1. /\ UNCHANGED <<tls, verdict, net, program, sent>>
        /\ \A c \in Conns : status'[c] = status[c]
    BY <1>2, Tree DEF StartHttps, OpenListen, SslInit, AcceptFails, DenyHead,
                      DenyFails, CloseConn, DenyWrite, Causes, Listeners, IInv, TypeOK
  <2>2. \A k \in Listeners : pc'[k] \in {"deny_head", "deny_body"} =>
          pc[k] \in {"deny_head", "deny_body"} /\ cur'[k] = cur[k]
    BY <1>2 DEF StartHttps, OpenListen, SslInit, AcceptFails, DenyHead,
                DenyFails, CloseConn, DenyWrite, Causes, GoTo, IInv, TypeOK
  <2>3. \A c \in Conns : Leaves(c)
    BY <2>1, StageKept
  <2> QED BY <2>1, <2>2, <2>3, PromiseKept DEF Obeys
<1> QED BY <1>1, <1>2

\* Accept() takes a connection that has left no trace.
LEMMA ObeyAccept ==
  ASSUME IInv, PromiseInv, NEW l \in Listeners, Accept(l)
  PROVE  Obeys
<1>1. PICK d \in Conns : net[d] = "queued" /\ net' = [net EXCEPT ![d] = "accepted"]
  BY DEF Accept
<1>2. /\ UNCHANGED <<status, tls, verdict, program, sent>>
      /\ pc' = [pc EXCEPT ![l] = "check"]
      /\ \A k \in Listeners \ {l} : cur'[k] = cur[k]
  BY DEF Accept, GoTo, IInv, TypeOK
<1>3. PromiseInv'
  BY <1>2, PromiseKept DEF IInv, TypeOK
<1>4. \A c \in Conns \ {d} : net'[c] = net[c]
  BY <1>1 DEF IInv, TypeOK
<1>5. \A c \in Conns \ {d} : Leaves(c)
  BY <1>2, <1>4, StageKept
<1>6. Leaves(d)
  <2>1. verdict[d] = "none" /\ net'[d] = "accepted"
    BY <1>1 DEF IInv, TypeOK, ConnInv, FreshInv
  <2>2. status[d] = "none"
    BY <2>1 DEF IInv, ConnInv, AccessEnforced
  <2>3. d \notin Programs /\ d \notin Programs'
    BY <1>2, <2>2 DEF Programs, IInv, ConnInv, ProgramInv
  <2>4. Stage(d) = "waiting" /\ Stage(d)' = "taken"
    BY <1>1, <1>2, <2>1, <2>2, <2>3 DEF Stage, Finished
  <2> QED BY <1>2, <2>4 DEF Leaves, Client!CNext, Client!Take, Client!Step
<1> QED BY <1>3, <1>5, <1>6 DEF Obeys

\* access_ornot() judges it, once.
LEMMA ObeyCheck ==
  ASSUME IInv, PromiseInv, NEW l \in Listeners, CheckAccess(l)
  PROVE  Obeys
<1>1. CASE \E why \in Causes : Exit(l, why) /\ UNCHANGED verdict
  <2>1. UNCHANGED <<tls, net, program, sent>> /\ Alive(l)
    BY Tree DEF CheckAccess, Running, Alive
  <2> QED BY <1>1, <2>1, ObeyExit
<1>2. CASE \E v \in {"permit", "deny"} :
             /\ verdict' = [verdict EXCEPT ![cur[l]] = v]
             /\ GoTo(l, IF v = "permit" THEN "fork" ELSE "deny_head")
             /\ UNCHANGED <<cur, status>>
  <2>1. PICK v \in {"permit", "deny"} :
             /\ verdict' = [verdict EXCEPT ![cur[l]] = v]
             /\ pc' = [pc EXCEPT ![l] = IF v = "permit" THEN "fork" ELSE "deny_head"]
             /\ UNCHANGED <<cur, status>>
    BY <1>2 DEF GoTo
  <2>2. PICK d \in Conns : /\ d = cur[l] /\ verdict[d] = "none"
                           /\ status[d] = "none" /\ net[d] = "accepted"
    BY DEF CheckAccess, IInv, ConnInv, LoopInv, AtConn
  <2>3. verdict'[d] = v /\ UNCHANGED <<tls, net, program, sent>>
    BY <2>1, <2>2 DEF CheckAccess, IInv, TypeOK
  <2>4. sent[d] = {}
    BY <2>2 DEF PromiseInv
  <2>5. \A c \in Conns \ {d} : verdict'[c] = verdict[c]
    BY <2>1, <2>2 DEF IInv, TypeOK
  <2>6. \A k \in Listeners \ {l} : pc'[k] = pc[k]
    BY <2>1 DEF IInv, TypeOK
  <2>7. PromiseInv'
    <3>1. \A k \in Listeners : pc'[k] \in {"deny_head", "deny_body"} => sent'[cur'[k]] = {}
      BY <2>1, <2>2, <2>3, <2>4, <2>6 DEF PromiseInv
    <3>2. \A c \in Conns : c = d \/ verdict'[c] = verdict[c]
      BY <2>5
    <3> QED BY <2>1, <2>3, <2>4, <3>1, <3>2 DEF PromiseInv, Promise, Service
  <2>8. \A c \in Conns \ {d} : Leaves(c)
    BY <2>1, <2>3, <2>5, StageKept
  <2>9. Leaves(d)
    <3>1. d \notin Programs /\ d \notin Programs'
      BY <2>2, <2>3 DEF Programs, IInv, ConnInv, ProgramInv
    <3>2. /\ Stage(d) = "taken"
          /\ v = "permit" => Stage(d)' = "permitted"
          /\ v = "deny" => Stage(d)' = "denied"
      BY <2>1, <2>2, <2>3, <3>1 DEF Stage, Finished
    <3> QED BY <2>3, <3>2 DEF Leaves, Client!CNext, Client!Permit, Client!Deny, Client!Step
  <2> QED BY <2>7, <2>8, <2>9 DEF Obeys
<1> QED BY <1>1, <1>2 DEF CheckAccess, Causes

\* The listener's page, whole and unencrypted, and to a denied client.
LEMMA ObeyDeny ==
  ASSUME IInv, PromiseInv, NEW l \in Listeners, DenyBody(l)
  PROVE  Obeys
<1>1. PICK d \in Conns : /\ d = cur[l] /\ verdict[d] = "deny"
                         /\ status[d] = "none" /\ sent[d] = {}
  BY DEF DenyBody, DenyWrite, IInv, ConnInv, LoopInv, AtConn, PromiseInv
<1>2. Channel(l) = "plain"
  BY DEF Channel, PromiseInv
<1>3. /\ UNCHANGED <<status, tls, verdict, net, program>>
      /\ pc' = [pc EXCEPT ![l] = "accept"] /\ cur' = [cur EXCEPT ![l] = None]
      /\ sent' = [sent EXCEPT ![d] = {<<"403", "plain">>}]
  BY <1>1, <1>2 DEF DenyBody, DenyWrite, GoTo
<1>4. \A c \in Conns \ {d} : sent'[c] = sent[c]
  BY <1>3 DEF IInv, TypeOK
<1>5. sent'[d] = {<<"403", "plain">>}
  BY <1>3 DEF IInv, TypeOK
<1>6. PromiseInv'
  <2>1. \A k \in Listeners : pc'[k] \in {"deny_head", "deny_body"} => sent'[cur'[k]] = {}
    <3> SUFFICES ASSUME NEW k \in Listeners, pc'[k] \in {"deny_head", "deny_body"}
        PROVE  sent'[cur'[k]] = {}
      OBVIOUS
    <3>1. k # l /\ pc'[k] = pc[k] /\ cur'[k] = cur[k]
      BY <1>3 DEF IInv, TypeOK
    <3>2. cur[k] \in Conns /\ Service(cur[k]) = k /\ sent[cur[k]] = {}
      BY <3>1 DEF IInv, ConnInv, LoopInv, AtConn, PromiseInv
    <3>3. Service(d) = l
      BY <1>1 DEF DenyBody, DenyWrite, IInv, ConnInv, LoopInv, AtConn
    <3> QED BY <1>4, <3>1, <3>2, <3>3
  <2>2. \A c \in Conns : c = d \/ sent'[c] = sent[c]
    BY <1>4
  <2> QED BY <1>1, <1>3, <1>5, <2>1, <2>2 DEF PromiseInv, Promise, Service
<1>7. \A c \in Conns \ {d} : Leaves(c)
  BY <1>3, <1>4, StageKept
<1>8. Leaves(d)
  <2>1. d \notin Programs /\ d \notin Programs'
    BY <1>1, <1>3 DEF Programs, IInv, ConnInv, ProgramInv
  <2>2. Stage(d) = "denied" /\ Stage(d)' = "denied"
    BY <1>1, <1>3, <2>1 DEF Stage, Finished
  <2> QED BY <1>1, <1>5, <2>2 DEF Leaves, Client!CNext, Client!Refuse
<1> QED BY <1>6, <1>7, <1>8 DEF Obeys

\* Fork() of the worker of a permitted client.
LEMMA ObeyFork ==
  ASSUME IInv, PromiseInv, NEW l \in Listeners, ForkWorker(l)
  PROVE  Obeys
<1>1. CASE Exit(l, "fork") /\ UNCHANGED tls
  <2>1. UNCHANGED <<verdict, net, program, sent>> /\ Alive(l)
    BY Tree DEF ForkWorker, Running, Alive
  <2> QED BY <1>1, <2>1, ObeyExit DEF Causes
<1>2. CASE /\ status' = [status EXCEPT ![cur[l]] = "alive"]
           /\ tls' = [tls EXCEPT ![cur[l]] = tls[l]]
           /\ GoTo(l, "close") /\ UNCHANGED cur
  <2>1. PICK d \in Conns : /\ d = cur[l] /\ verdict[d] = "permit"
                           /\ status[d] = "none"
    BY DEF ForkWorker, IInv, ConnInv, LoopInv, AtConn
  <2>2. /\ UNCHANGED <<verdict, net, program, sent>>
        /\ status' = [status EXCEPT ![d] = "alive"]
        /\ tls' = [tls EXCEPT ![d] = FALSE] /\ UNCHANGED cur
        /\ pc' = [pc EXCEPT ![l] = "close"]
    <3>1. tls[l] = FALSE
      BY Tree DEF PromiseInv, IInv, TypeOK
    <3> QED BY <1>2, <2>1, <3>1 DEF ForkWorker, GoTo
  <2>3. \A c \in Conns \ {d} : status'[c] = status[c] /\ tls'[c] = tls[c]
    BY <2>2, Tree DEF IInv, TypeOK
  <2>4. status'[d] = "alive" /\ tls'[d] = FALSE
    BY <2>2, Tree DEF IInv, TypeOK
  <2>5. PromiseInv'
    <3>1. \A k \in Listeners :
            /\ ~tls'[k]
            /\ pc'[k] \in {"deny_head", "deny_body"} => sent'[cur'[k]] = {}
      BY <2>2, Tree DEF IInv, TypeOK, PromiseInv
    <3>2. \A c \in Conns : c = d \/ (status'[c] = status[c] /\ tls'[c] = tls[c])
      BY <2>3
    <3> QED BY <2>1, <2>2, <2>4, <3>1, <3>2 DEF PromiseInv, Promise, Service
  <2>6. \A c \in Conns \ {d} : Leaves(c)
    BY <2>2, <2>3, StageKept
  <2>7. Leaves(d)
    <3>1. d \notin Programs /\ d \notin Programs'
      BY <2>1, <2>2 DEF Programs, IInv, ConnInv, ProgramInv
    <3>2. Stage(d) = "permitted" /\ Stage(d)' = "served"
      BY <2>1, <2>2, <2>4, <3>1 DEF Stage, Finished
    <3> QED BY <2>2, <3>2 DEF Leaves, Client!CNext, Client!Serve, Client!Step
  <2> QED BY <2>5, <2>6, <2>7 DEF Obeys
<1> QED BY <1>1, <1>2 DEF ForkWorker

\* The signal handler, whatever it finds.
LEMMA ObeyHandler ==
  ASSUME IInv, PromiseInv, NEW l \in Listeners, Handler(l)
  PROVE  Obeys
<1>1. UNCHANGED <<tls, verdict, net, program, sent>>
  BY DEF Handler, Deliver, Reap
<1>2. CASE Exit(l, "waitpid")
  <2>1. Alive(l)
    <3>1. CASE handling[l]
      BY <3>1 DEF IInv, SignalInv, SignalledAlive
    <3>2. CASE ~handling[l]
      BY <3>2, Tree DEF Handler, Deliver, Reap, Running, Alive
    <3> QED BY <3>1, <3>2
  <2> QED BY <1>1, <1>2, <2>1, ObeyExit
<1>3. CASE ~Exit(l, "waitpid")
  <2>1. /\ UNCHANGED <<pc, cur>>
        /\ \/ UNCHANGED status
           \/ \E z \in Zombies(l) : status' = [status EXCEPT ![z] = "reaped"]
    BY <1>3 DEF Handler, Deliver, Reap
  <2>2. \A c \in Conns : \/ status'[c] = status[c]
                         \/ status[c] = "zombie" /\ status'[c] = "reaped"
    BY <2>1, ZombieOf, Tree DEF IInv, TypeOK
  <2>3. \A c \in Conns : Leaves(c)
    BY <1>1, <2>2, StageKept
  <2> QED BY <1>1, <2>1, <2>2, <2>3, PromiseKept DEF Obeys
<1> QED BY <1>2, <1>3

\* The page of a permitted client, on its channel and once.
LEMMA ObeyAnswer ==
  ASSUME IInv, PromiseInv, NEW d \in Conns, Answer(d)
  PROVE  Obeys
<1>1. status[d] # "none" /\ verdict[d] = "permit"
  <2>1. status[d] # "none"
    BY DEF Answer, WorkerRuns, Programs, IInv, ConnInv, ProgramInv
  <2> QED BY <2>1 DEF IInv, ConnInv, AccessEnforced
<1>2. Channel(d) = Promise(d)
  <2>1. Service(d) = "https" <=> tls[d]
    BY DEF Answer, PromiseInv, Service
  <2> QED BY <2>1 DEF Channel, Promise
<1>3. sent[d] = {}
  BY <1>1, <1>2 DEF PromiseInv, Answer
<1>4. /\ UNCHANGED <<pc, cur, status, tls, verdict, net, program>>
      /\ sent' = [sent EXCEPT ![d] = {<<"page", Promise(d)>>}]
  BY <1>2, <1>3 DEF Answer
<1>5. \A c \in Conns \ {d} : sent'[c] = sent[c]
  BY <1>4 DEF IInv, TypeOK
<1>6. sent'[d] = {<<"page", Promise(d)>>}
  BY <1>4 DEF IInv, TypeOK
<1>7. PromiseInv'
  <2>1. \A k \in Listeners : pc'[k] \in {"deny_head", "deny_body"} => sent'[cur'[k]] = {}
    <3> SUFFICES ASSUME NEW k \in Listeners, pc[k] \in {"deny_head", "deny_body"}
        PROVE  sent'[cur[k]] = {}
      BY <1>4
    <3>1. cur[k] \in Conns /\ verdict[cur[k]] = "deny" /\ sent[cur[k]] = {}
      BY DEF IInv, ConnInv, LoopInv, AtConn, PromiseInv
    <3> QED BY <1>1, <1>5, <3>1
  <2>2. \A c \in Conns : c = d \/ sent'[c] = sent[c]
    BY <1>5
  <2> QED BY <1>1, <1>4, <1>6, <2>1, <2>2 DEF PromiseInv, Promise, Service
<1>8. \A c \in Conns \ {d} : Leaves(c)
  BY <1>4, <1>5, StageKept
<1>9. Leaves(d)
  <2>1. d \in Programs' <=> d \in Programs
    BY <1>4 DEF Programs
  <2>2. ~Finished(d)
    BY DEF Answer, WorkerRuns, Finished
  <2>3. Stage(d) = "served" /\ Stage(d)' = "served"
    BY <1>1, <1>4, <2>1, <2>2 DEF Stage, Finished
  <2> QED BY <1>3, <1>6, <2>3 DEF Leaves, Client!CNext, Client!Give, Promise
<1> QED BY <1>7, <1>8, <1>9 DEF Obeys

\* The other steps of a worker, its programs and its client.
LEMMA ObeyOthers ==
  ASSUME IInv, PromiseInv, NEW d \in Conns,
         \/ EnableSsl(d) \/ StartProgram(d) \/ WorkerExit(d) \/ EndProgram(d)
         \/ Environment(d)
  PROVE  Obeys
<1>1. /\ UNCHANGED <<pc, cur, verdict, sent>>
      /\ \A c \in Conns \ {d} : net'[c] = net[c] /\ program'[c] = program[c]
  BY DEF EnableSsl, StartProgram, WorkerExit, EndProgram, Environment, Stop,
         Continue, Toggle, Connect, IInv, TypeOK
<1>2. CASE EnableSsl(d)
  <2>1. UNCHANGED <<status, net, program>> /\ tls' = [tls EXCEPT ![d] = TRUE]
        /\ Service(d) = "https"
    BY <1>2 DEF EnableSsl
  <2>2. \A c \in Conns : c = d \/ tls'[c] = tls[c]
    BY <2>1, Tree DEF IInv, TypeOK
  <2>3. \A k \in Listeners : tls'[k] = tls[k]
    BY <2>1, Tree DEF IInv, TypeOK
  <2>4. PromiseInv'
    BY <1>1, <2>1, <2>2, <2>3 DEF PromiseInv, Promise, Service
  <2> QED BY <1>1, <2>1, <2>4, StageKept DEF Obeys
<1>3. CASE StartProgram(d)
  <2>1. UNCHANGED <<status, tls, net>> /\ status[d] = "alive"
    BY <1>3 DEF StartProgram, WorkerRuns
  <2>2. PromiseInv'
    BY <1>1, <2>1, PromiseKept
  <2>3. Stage(d) = "served" /\ Stage(d)' = "served"
    BY <2>1 DEF Stage, Finished
  <2>4. Leaves(d)
    BY <1>1, <2>3 DEF Leaves, Client!cvars
  <2> QED BY <1>1, <2>1, <2>2, <2>4, StageKept DEF Obeys
<1>4. CASE EndProgram(d)
  <2>1. UNCHANGED <<status, tls, net>> /\ program[d] # {} /\ program'[d] = {}
    BY <1>4 DEF EndProgram, IInv, TypeOK
  <2>2. PromiseInv'
    BY <1>1, <2>1, PromiseKept
  <2>3. status[d] # "none" /\ status[d] \in Status
    BY <2>1, Tree DEF IInv, TypeOK, ConnInv, ProgramInv
  <2>4. d \in Programs /\ d \notin Programs'
    BY <2>1 DEF Programs
  <2>5. Stage(d) = "served" /\ Stage(d)' \in {"served", "over"}
    BY <2>1, <2>3, <2>4 DEF Stage, Finished
  <2>6. Leaves(d)
    BY <1>1, <2>5 DEF Leaves, Client!cvars, Client!CNext, Client!Leave, Client!Step
  <2> QED BY <1>1, <2>1, <2>2, <2>6, StageKept DEF Obeys
<1>5. CASE WorkerExit(d)
  <2>1. UNCHANGED <<tls, net, program>> /\ End(d) /\ status[d] = "alive"
        /\ TypeOK /\ d \in Procs /\ Alive(d)
    BY <1>5, Tree DEF WorkerExit, WorkerRuns, Alive, IInv
  <2>2. \A c \in Conns : (status'[c] = "none") => (status[c] = "none")
    BY <2>1, EndFacts, Tree
  <2>3. PromiseInv'
    BY <1>1, <2>1, <2>2, PromiseKept
  <2>4. status'[d] \in {"zombie", "reaped"} /\ (d \in Programs' <=> d \in Programs)
    BY <2>1, EndFacts DEF Programs
  <2>5. Stage(d) = "served" /\ Stage(d)' \in {"served", "over"}
    BY <2>1, <2>4 DEF Stage, Finished
  <2>6. Leaves(d)
    BY <1>1, <2>5 DEF Leaves, Client!cvars, Client!CNext, Client!Leave, Client!Step
  <2> QED BY <1>1, <2>1, <2>3, <2>6, StageEnd DEF Obeys
<1>6. CASE Environment(d)
  <2>1. UNCHANGED <<tls, program>>
        /\ \A c \in Conns : \/ status'[c] = status[c]
                            \/ {status[c], status'[c]} = {"alive", "stopped"}
    BY <1>6, Tree DEF Environment, Stop, Continue, Toggle, Connect, IInv, TypeOK
  <2>2. \A c \in Conns : (net'[c] = "accepted") <=> (net[c] = "accepted")
    BY <1>6 DEF Environment, Stop, Continue, Toggle, Connect, IInv, TypeOK
  <2>3. \A c \in Conns : status'[c] = status[c] \/
           (status[c] \in {"alive", "stopped"} /\ status'[c] \in {"alive", "stopped"})
    BY <2>1
  <2>4. PromiseInv'
    BY <1>1, <2>1, <2>3, PromiseKept
  <2> QED BY <1>1, <2>1, <2>2, <2>3, <2>4, StageKept DEF Obeys
<1> QED BY <1>2, <1>3, <1>4, <1>5, <1>6

LEMMA Obedience == IInv /\ PromiseInv /\ [Next]_vars => Obeys
<1> SUFFICES ASSUME IInv, PromiseInv, [Next]_vars PROVE Obeys
  OBVIOUS
<1>1. ASSUME NEW l \in Listeners, Main(l) PROVE Obeys
  BY <1>1, ObeyQuiet, ObeyAccept, ObeyCheck, ObeyDeny, ObeyFork DEF Main
<1>2. ASSUME NEW c \in Conns, Worker(c) PROVE Obeys
  BY <1>2, ObeyAnswer, ObeyOthers DEF Worker
<1>3. CASE UNCHANGED vars
  BY <1>3, PromiseKept, StageKept DEF vars, Obeys
<1> QED BY <1>1, <1>2, <1>3, ObeyHandler, ObeyOthers DEF Next

LEMMA PromiseAlways == Spec => []PromiseInv
<1>1. Init => PromiseInv
  <2> SUFFICES ASSUME Init PROVE PromiseInv
    OBVIOUS
  <2>1. /\ \A p \in Procs : ~tls[p]
        /\ \A c \in Conns : sent[c] = {}
        /\ \A l \in Listeners : pc[l] \in {"boot", "none"}
    BY DEF Init
  <2> QED BY <2>1, Tree DEF PromiseInv
<1>2. IInv /\ PromiseInv /\ [Next]_vars => PromiseInv'
  BY Obedience DEF Obeys
<1> QED BY <1>1, <1>2, Invariance, PTL DEF Spec

LEMMA ClientInit == Init => \A c \in Conns : Client(c)!CInit
<1> SUFFICES ASSUME Init, NEW c \in Conns PROVE Client(c)!CInit
  OBVIOUS
<1>1. /\ status[c] = "none" /\ verdict[c] = "none" /\ net[c] = "idle"
      /\ program[c] = {} /\ sent[c] = {}
  BY Tree DEF Init, Listeners
<1>2. Stage(c) = "waiting"
  BY <1>1 DEF Stage, Finished, Programs
<1> QED BY <1>1, <1>2 DEF Client!CInit

LEMMA ClientNext ==
  IInv /\ PromiseInv /\ [Next]_vars =>
    \A c \in Conns : [Client(c)!CNext]_(Client(c)!cvars)
BY Obedience DEF Obeys, Leaves

\* For every client, whatever the others do and whichever process fails, the
\* whole server is its connection as module Connection describes it: each
\* step is one step of that connection or none (main.c:103-123, 133-152).
THEOREM Refinement == Spec => ServedAsPromised
<1>1. IInv /\ PromiseInv /\ [Next]_vars =>
        [\A c \in Conns : [Client(c)!CNext]_(Client(c)!cvars)]_vars
  BY ClientNext
<1> QED
  BY <1>1, ClientInit, Invariance, PromiseAlways, PTL DEF Spec, ServedAsPromised

\* The same, client by client: the server implements the abstract
\* specification of every connection.
THEOREM EachClient == \A c \in Conns : Spec => Client(c)!CSpec
<1> SUFFICES ASSUME NEW c \in Conns PROVE Spec => Client(c)!CSpec
  OBVIOUS
<1>1. Init => Client(c)!CInit
  BY ClientInit
<1>2. IInv /\ PromiseInv /\ [Next]_vars => [Client(c)!CNext]_(Client(c)!cvars)
  BY ClientNext
<1> QED BY <1>1, <1>2, Invariance, PromiseAlways, PTL DEF Spec, Client!CSpec

-----------------------------------------------------------------------------
(***************************************************************************)
(* Who stands between a finished worker and its client's end-of-file.      *)
(***************************************************************************)

\* A process that has not begun or has ended has no descriptors.
DeadInv == \A p \in Procs : ~Alive(p) => held[p] = {}

LEMMA DeadQuiet ==
  ASSUME DeadInv, UNCHANGED held, \A p \in Procs : Alive(p) => Alive(p)'
  PROVE  DeadInv'
BY DEF DeadInv

\* One listener or worker, alive before and after, changes its table.
LEMMA DeadMove ==
  ASSUME DeadInv, TypeOK, NEW q \in Procs, NEW H, Alive(q)',
         held' = [held EXCEPT ![q] = H],
         \A p \in Procs : Alive(p) => Alive(p)'
  PROVE  DeadInv'
BY DEF DeadInv, TypeOK

LEMMA DeadEnd ==
  ASSUME DeadInv, TypeOK, NEW q \in Procs, Alive(q), End(q)
  PROVE  DeadInv'
<1>1. \A p \in Procs \ {q} : Alive(p) => Alive(p)'
  BY EndFacts DEF Alive
<1>2. held' = [held EXCEPT ![q] = {}]
  BY EndFacts
<1> QED BY <1>1, <1>2 DEF DeadInv, TypeOK

LEMMA DeadMain ==
  ASSUME IInv, DeadInv, NEW l \in Listeners, Main(l)
  PROVE  DeadInv'
<1> USE DEF Running, Alive
<1>1. Alive(l) /\ l \in Procs /\ TypeOK
  BY Tree DEF Main, StartHttps, OpenListen, SslInit, Accept, AcceptFails, CheckAccess,
              DenyHead, DenyBody, DenyWrite, DenyFails, ForkWorker, CloseConn, IInv
<1>2. CASE \E why : Exit(l, why)
  BY <1>1, <1>2, DeadEnd DEF Exit
<1>3. CASE ~\E why : Exit(l, why)
  <2>1. CASE l = "http" /\ StartHttps
    <3>1. UNCHANGED held /\ (UNCHANGED status \/ status' = [status EXCEPT !["https"] = "alive"])
      BY <1>3, <2>1 DEF StartHttps
    <3>2. \A p \in Procs : Alive(p) => Alive(p)'
      BY <1>1, <3>1 DEF TypeOK
    <3> QED BY <3>1, <3>2, DeadQuiet
  <2>2. CASE OpenListen(l) \/ (l = "https" /\ SslInit) \/ CheckAccess(l)
             \/ DenyHead(l) \/ DenyBody(l)
    BY <1>3, <2>2, DeadQuiet
       DEF OpenListen, SslInit, CheckAccess, DenyHead, DenyBody, DenyWrite
  <2>3. CASE Accept(l)
    <3>1. PICK c \in Conns : held' = [held EXCEPT ![l] = held[l] \cup {c}]
      BY <2>3 DEF Accept
    <3>2. UNCHANGED status
      BY <2>3 DEF Accept
    <3> QED BY <1>1, <3>1, <3>2, DeadMove
  <2>4. CASE ForkWorker(l)
    <3>1. cur[l] \in Conns /\ cur[l] \in Procs
      BY <2>4, Tree DEF ForkWorker, IInv, ConnInv, LoopInv, AtConn
    <3>2. PICK c \in Procs : c = cur[l]
      BY <3>1
    <3>3. status' = [status EXCEPT ![c] = "alive"] /\ held' = [held EXCEPT ![c] = held[l]]
      BY <1>3, <2>4, <3>2 DEF ForkWorker
    <3>4. Alive(c)' /\ \A p \in Procs : Alive(p) => Alive(p)'
      BY <1>1, <3>3 DEF TypeOK
    <3> QED BY <1>1, <3>3, <3>4, DeadMove
  <2>5. CASE CloseConn(l)
    <3>1. PICK H : H = held[l] \ {cur[l]}
      OBVIOUS
    <3>2. UNCHANGED status /\ held' = [held EXCEPT ![l] = H]
      BY <2>5, <3>1 DEF CloseConn
    <3> QED BY <1>1, <3>2, DeadMove
  <2>6. ~AcceptFails(l) /\ ~DenyFails(l)
    BY <1>3 DEF AcceptFails, DenyFails
  <2> QED BY <2>1, <2>2, <2>3, <2>4, <2>5, <2>6 DEF Main
<1> QED BY <1>2, <1>3

LEMMA DeadOthers ==
  ASSUME IInv, DeadInv,
         \/ \E l \in Listeners : Handler(l)
         \/ \E c \in Conns : Worker(c) \/ Environment(c)
  PROVE  DeadInv'
<1>1. ASSUME NEW l \in Listeners, Handler(l) PROVE DeadInv'
  <2>1. CASE Exit(l, "waitpid")
    <3>1. Alive(l) /\ l \in Procs
      BY <1>1, Tree DEF IInv, SignalInv, SignalledAlive, Handler, Deliver, Reap
    <3> QED BY <2>1, <3>1, DeadEnd DEF Exit, IInv
  <2>2. CASE ~Exit(l, "waitpid")
    <3>1. UNCHANGED held /\ (\/ UNCHANGED status
            \/ \E z \in Zombies(l) : status' = [status EXCEPT ![z] = "reaped"])
      BY <1>1, <2>2 DEF Handler, Deliver, Reap
    <3>2. \A p \in Procs : Alive(p) => Alive(p)'
      BY <3>1, ZombieOf DEF Alive, IInv, TypeOK
    <3> QED BY <3>1, <3>2, DeadQuiet
  <2> QED BY <2>1, <2>2
<1>2. ASSUME NEW c \in Conns, Worker(c) \/ Environment(c) PROVE DeadInv'
  <2>1. CASE WorkerExit(c)
    BY <2>1, DeadEnd, Tree DEF WorkerExit, WorkerRuns, Alive, IInv
  <2>2. CASE Stop(c) \/ Continue(c)
    <3>1. UNCHANGED held
      BY <2>2 DEF Stop, Continue, Toggle
    <3>2. \A p \in Procs : Alive(p) => Alive(p)'
      BY <2>2 DEF Stop, Continue, Toggle, Alive, IInv, TypeOK
    <3> QED BY <3>1, <3>2, DeadQuiet
  <2>3. CASE EnableSsl(c) \/ StartProgram(c) \/ EndProgram(c) \/ Answer(c) \/ Connect(c)
    BY <2>3, DeadQuiet DEF EnableSsl, StartProgram, EndProgram, Answer, Connect, Alive
  <2> QED BY <1>2, <2>1, <2>2, <2>3 DEF Worker, Environment
<1> QED BY <1>1, <1>2

LEMMA DeadAlways == Spec => []DeadInv
<1>1. Init => DeadInv
  BY DEF Init, DeadInv
<1>2. IInv /\ DeadInv /\ [Next]_vars => DeadInv'
  BY DeadMain, DeadOthers, DeadQuiet DEF Next, vars, Alive
<1> QED BY <1>1, <1>2, Invariance, PTL DEF Spec

\* When the worker of a client and its program have ended, the one thing the
\* client's end-of-file can still wait for is the Close() of a listener that
\* is on its way to it: no process keeps the connection for good
\* (main.c:112-116).  The rest of EofAfterWorker is that the listener runs.
OnlyCloseLeft ==
  \A c \in Conns : verdict[c] = "permit" /\ Finished(c) /\ Held(c) =>
    LET l == Service(c)
    IN Alive(l) /\ pc[l] = "close" /\ cur[l] = c

\* For any connections and limits, a finished worker's client waits for nobody
\* but its own listener's Close() (main.c:112-116).
THEOREM EofWaitsForClose == Spec => []OnlyCloseLeft
<1>1. IInv /\ DeadInv => OnlyCloseLeft
  <2> SUFFICES ASSUME IInv, DeadInv, NEW c \in Conns,
                      verdict[c] = "permit", Finished(c), Held(c)
      PROVE  Alive(Service(c)) /\ pc[Service(c)] = "close" /\ cur[Service(c)] = c
    BY DEF OnlyCloseLeft
  <2>1. status[c] \in {"zombie", "reaped"} /\ program[c] = {}
    BY DEF Finished, Programs
  <2>2. \A d \in Conns : c \notin program[d]
    BY <2>1 DEF IInv, ConnInv, HeldInv
  <2>3. PICK p \in Procs : c \in held[p]
    BY <2>2 DEF Held
  <2>4. Alive(p) /\ p # c
    BY <2>1, <2>3 DEF DeadInv, Alive
  <2>5. p = Service(c) /\ cur[p] = c /\ AtConn(p) /\ p \in Listeners
    BY <2>3, <2>4, Tree DEF IInv, ConnInv, HeldInv
  <2>6. pc[p] = "close"
    BY <2>1, <2>5 DEF IInv, ConnInv, LoopInv
  <2> QED BY <2>4, <2>5, <2>6
<1> QED BY <1>1, Invariance, DeadAlways, PTL
=============================================================================
