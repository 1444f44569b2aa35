------------------------------ MODULE Lifecycle -----------------------------
(***************************************************************************)
(* The processes of a server from ./webd to its end: main() of src/main.c  *)
(* from Daemon() on, Open_listenfd(), the pid file, and the script         *)
(* bin/mini-httpd.sh that starts, stops and restarts them.  Who holds a    *)
(* listening socket decides whether the next server can bind its port: a   *)
(* child gets the descriptor from its parent, also across execve(), and    *)
(* nobody closes it.                                                       *)
(*                                                                         *)
(* How settings are read is module Startup, what listeners and workers do  *)
(* with connections is module Server: here any of their calls may fail and *)
(* end them.                                                               *)
(***************************************************************************)
EXTENDS Integers

CONSTANTS
  MaxPid,     \* processes are numbered in the order they are made
  Scripts,    \* instances of the script that run at a time
  MaxCommands \* how many commands the administrators give

ASSUME LifecycleAssumption == MaxPid \in Nat \ {0} /\ MaxCommands \in Nat

Pids == 1..MaxPid
Ports == {"http", "https"}

VARIABLES
  daemon, dossl,  \* the settings
  named,     \* is the program installed under the name the script has?
  procs,     \* each process: [role, port, pc, holds, dying]
  made,      \* how many have been made
  pidfile,   \* whose numbers the text of the pid file is made of
  scripts,   \* each instance: [cmd, pc, child, left]
  commands,  \* commands given
  alone      \* ghost: was the last server started when no other lived?

settings == <<daemon, dossl, named>>
vars == <<settings, procs, made, pidfile, scripts, commands, alone>>

Role(p) == procs[p].role
Alive(p) == procs[p].pc \notin {"none", "ended"}
Acts(p) == Alive(p) /\ ~procs[p].dying

\* skill and ps look for processes by the name `webd'.  The Makefile calls the
\* program mini-httpd, so somebody has to have renamed it; a program run by
\* execve() has a name of its own.
Webd(p) == named /\ Alive(p) /\ Role(p) # "program"

Holds(p, port) == Alive(p) /\ port \in procs[p].holds

NoProcess == [role |-> "none", port |-> "none", pc |-> "none", holds |-> {},
              dying |-> FALSE]
Idle == [cmd |-> "none", pc |-> "idle", child |-> 0, left |-> {}]

Init ==
  /\ daemon \in BOOLEAN /\ dossl \in BOOLEAN /\ named \in BOOLEAN
  /\ procs = [p \in Pids |-> NoProcess] /\ made = 0
  /\ pidfile = {}
  /\ scripts = [s \in Scripts |-> Idle] /\ commands = 0
  /\ alone = TRUE

-----------------------------------------------------------------------------
(* Processes.                                                              *)

Program(port, pc) == [role |-> "main", port |-> port, pc |-> pc,
                      holds |-> {}, dying |-> FALSE]

\* fork(): a copy of p that is at pc, and p where it goes on.
Forks(p, parent, role, port, pc) ==
  /\ made < MaxPid /\ made' = made + 1
  /\ procs' = [procs EXCEPT
       ![p] = parent,
       ![made + 1] = [procs[p] EXCEPT !.role = role, !.port = port, !.pc = pc]]

Goes(p, pc) == [procs[p] EXCEPT !.pc = pc]
Ended(r) == [r EXCEPT !.pc = "ended", !.holds = {}, !.dying = FALSE]

System(p) == Acts(p) /\ UNCHANGED <<settings, scripts, commands, alone>>

\* Mutant of Order: the http port is opened before the https listener is
\* forked.
Order_BindFirst == [init |-> "pid", pid |-> "put", put |-> "bind",
                    bind |-> "fork", fork |-> "serve"]

\* Mutant of Order: the pid file is written before Daemon().
Order_PidFirst == [pid |-> "put", put |-> "init", init |-> "fork",
                   fork |-> "bind", bind |-> "serve"]

\* The steps of main(), each with the next one.
Order == [init |-> "pid", pid |-> "put", put |-> "fork",
          fork |-> "bind", bind |-> "serve"]

\* The first one.
Start == CHOOSE pc \in {"init", "pid"} : \A q \in DOMAIN Order : Order[q] # pc

\* Daemon(1, 1): the parent ends with _exit(0), the child goes on.
Daemon(p) ==
  /\ System(p) /\ procs[p].pc = "init"
  /\ \/ /\ daemon
        /\ Forks(p, [Ended(procs[p]) EXCEPT !.role = "launcher"], "main", "http",
                 Order["init"])
     \/ /\ ~daemon
        /\ procs' = [procs EXCEPT ![p] = Goes(p, Order["init"])] /\ UNCHANGED made
  /\ UNCHANGED pidfile

\* writePid(1): Fopen() with "w+" empties the file ...
OpenPidFile(p) ==
  /\ System(p) /\ procs[p].pc = "pid"
  /\ pidfile' = {}
  /\ procs' = [procs EXCEPT ![p] = Goes(p, Order["pid"])] /\ UNCHANGED made

\* Mutant of WritePid: writePid(0).
WritePid_Ended(p) ==
  /\ System(p) /\ procs[p].pc = "put"
  /\ pidfile' = {-1}
  /\ procs' = [procs EXCEPT ![p] = Goes(p, Order["put"])] /\ UNCHANGED made

\* ... and Fclose() writes the number over what another server may have put
\* there since, of which the end stays if it was longer.  Nobody calls
\* writePid(0), which would write -1.
WritePid(p) ==
  /\ System(p) /\ procs[p].pc = "put"
  /\ pidfile' \in {{p}, pidfile \cup {p}}
  /\ procs' = [procs EXCEPT ![p] = Goes(p, Order["put"])] /\ UNCHANGED made

\* if (dossl) ... Fork(): the https listener.
ForkHttps(p) ==
  /\ System(p) /\ procs[p].pc = "fork"
  /\ \/ dossl /\ Forks(p, Goes(p, Order["fork"]), "https", "https", "bind")
     \/ /\ ~dossl
        /\ procs' = [procs EXCEPT ![p] = Goes(p, Order["fork"])] /\ UNCHANGED made
  /\ UNCHANGED pidfile

\* bind() succeeds when no socket listens on the port, SO_REUSEADDR or not.
Unheld(port) == \A q \in Pids : ~Holds(q, port)

\* Open_listenfd().
OpenListen(p) ==
  /\ System(p) /\ procs[p].pc = "bind"
  /\ Unheld(procs[p].port)
  /\ procs' = [procs EXCEPT
       ![p].holds = @ \cup {procs[p].port},
       ![p].pc = IF Role(p) = "main" THEN Order["bind"] ELSE "serve"]
  /\ UNCHANGED <<made, pidfile>>

\* A connection is accepted and permitted.
ForkWorker(p) ==
  /\ System(p) /\ procs[p].pc = "serve" /\ Role(p) \in {"main", "https"}
  /\ Forks(p, procs[p], "worker", procs[p].port, "serve")
  /\ UNCHANGED pidfile

\* A worker becomes a CGI program, or makes one and goes on.
RunProgram(p) ==
  /\ System(p) /\ Role(p) = "worker"
  /\ \/ procs' = [procs EXCEPT ![p].role = "program"] /\ UNCHANGED made
     \/ Forks(p, procs[p], "program", procs[p].port, "serve")
  /\ UNCHANGED pidfile

\* A bind() that finds the port taken, another call that fails, or the end
\* of a worker.
Exit(p) ==
  /\ System(p) /\ Role(p) # "program"
  /\ procs' = [procs EXCEPT ![p] = Ended(@)]
  /\ UNCHANGED <<made, pidfile>>

\* A CGI program ends.
EndProgram(p) ==
  /\ System(p) /\ Role(p) = "program"
  /\ procs' = [procs EXCEPT ![p] = Ended(@)]
  /\ UNCHANGED <<made, pidfile>>

\* SIGKILL takes effect after skill has returned.
Die(p) ==
  /\ Alive(p) /\ procs[p].dying
  /\ procs' = [procs EXCEPT ![p] = Ended(@)]
  /\ UNCHANGED <<settings, made, pidfile, scripts, commands, alone>>

-----------------------------------------------------------------------------
(* mini-httpd.sh.                                                          *)

Script(s, pc) ==
  /\ scripts[s].pc = pc
  /\ UNCHANGED <<settings, pidfile>>

Goto(s, pc) ==
  scripts' = [scripts EXCEPT ![s] = IF pc = "idle" THEN Idle ELSE [@ EXCEPT !.pc = pc]]

\* An administrator calls the script, or runs the program by hand; `status'
\* changes nothing.
First == [start |-> "start", stop |-> "stop", restart |-> "stop", hand |-> "launch"]

Command(s) ==
  /\ Script(s, "idle") /\ commands < MaxCommands
  /\ \E cmd \in DOMAIN First :
       scripts' = [scripts EXCEPT ![s] =
                     [cmd |-> cmd, pc |-> First[cmd], child |-> 0, left |-> {}]]
  /\ commands' = commands + 1
  /\ UNCHANGED <<procs, made, alone>>

\* run(): ps shows a process of the name, as it does while one is dying.
Running == \E p \in Pids : Webd(p)

\* stop() looks, and skill follows later, which will come across all that is
\* there now.
CheckStop(s) ==
  /\ Script(s, "stop")
  /\ scripts' = [scripts EXCEPT ![s].pc = IF Running THEN "skill" ELSE "stopped",
                                ![s].left = {p \in Pids : Webd(p)}]
  /\ UNCHANGED <<procs, made, commands, alone>>

\* Mutant of Victim: the process the pid file names.
Victim_PidFile(p) == p \in pidfile /\ Webd(p)

\* Every process of that name, workers included.
Victim(p) == Webd(p)

\* skill -KILL goes through the processes one by one, in any order.
Skill(s) ==
  /\ Script(s, "skill")
  /\ \E p \in 1..made :
       /\ scripts' = [scripts EXCEPT ![s].left = @ \ {p}]
       /\ procs' = [procs EXCEPT ![p].dying = @ \/ Victim(p)]
  /\ UNCHANGED <<made, commands, alone>>

\* One that was forked meanwhile may be missed.
Skilled(s) ==
  /\ Script(s, "skill") /\ scripts[s].left = {}
  /\ Goto(s, "stopped")
  /\ UNCHANGED <<procs, made, commands, alone>>

\* `stop && start': stop() always succeeds.
Stopped(s) ==
  /\ Script(s, "stopped")
  /\ Goto(s, IF scripts[s].cmd = "restart" THEN "start" ELSE "idle")
  /\ UNCHANGED <<procs, made, commands, alone>>

\* start() looks, and ./webd follows later, if there is such a file.
CheckStart(s) ==
  /\ Script(s, "start")
  /\ Goto(s, IF Running \/ ~named THEN "idle" ELSE "launch")
  /\ UNCHANGED <<procs, made, commands, alone>>

Launch(s) ==
  /\ Script(s, "launch") /\ made < MaxPid
  /\ made' = made + 1
  /\ procs' = [procs EXCEPT ![made + 1] = Program("http", Start)]
  /\ scripts' = [scripts EXCEPT ![s].pc = "wait", ![s].child = made + 1]
  /\ alone' = \A p \in Pids : ~(Alive(p) /\ Role(p) = "main")
  /\ UNCHANGED commands

\* The shell waits for the program, which is a server that is no daemon.
Wait(s) ==
  /\ Script(s, "wait") /\ ~Alive(scripts[s].child)
  /\ Goto(s, "idle")
  /\ UNCHANGED <<procs, made, commands, alone>>

-----------------------------------------------------------------------------
Server(p) ==
  \/ Daemon(p) \/ OpenPidFile(p) \/ WritePid(p) \/ ForkHttps(p) \/ OpenListen(p)
  \/ ForkWorker(p) \/ RunProgram(p) \/ Exit(p)

Shell(s) ==
  \/ Command(s) \/ CheckStop(s) \/ Skill(s) \/ Skilled(s) \/ Stopped(s)
  \/ CheckStart(s) \/ Launch(s) \/ Wait(s)

Next ==
  \/ \E p \in Pids : Server(p) \/ EndProgram(p) \/ Die(p)
  \/ \E s \in Scripts : Shell(s)

\* A killed process dies; of the script and the programs nothing is assumed
\* but that skill comes to its end.
Spec ==
  /\ Init /\ [][Next]_vars
  /\ \A p \in Pids : WF_vars(Die(p))
  /\ \A s \in Scripts : WF_vars(Skill(s))

-----------------------------------------------------------------------------
Roles == {"none", "main", "launcher", "https", "worker", "program"}
ProcessPcs == {"none", "init", "pid", "put", "fork", "bind", "serve", "ended"}
ScriptPcs == {"idle", "stop", "skill", "stopped", "start", "launch", "wait"}

TypeOK ==
  /\ settings \in BOOLEAN \X BOOLEAN \X BOOLEAN
  /\ made \in 0..MaxPid /\ pidfile \subseteq 1..made
  /\ alone \in BOOLEAN
  /\ procs \in [Pids -> [role : Roles, port : Ports \cup {"none"},
                         pc : ProcessPcs, holds : SUBSET Ports, dying : BOOLEAN]]
  /\ \A p \in Pids : procs[p].pc = "none" <=> p > made
  /\ scripts \in [Scripts -> [cmd : DOMAIN First \cup {"none"},
                              pc : ScriptPcs, child : 0..made,
                              left : SUBSET (1..made)]]
  /\ \A s \in Scripts : scripts[s].pc = "wait" => scripts[s].child > 0
  /\ commands \in 0..MaxCommands

\* A process of the one listener never holds the other's listening socket,
\* so that what is left of the one, its workers and programs too, cannot
\* keep the other's port (main.c:96 forks before main.c:98 and 130 bind).
ListenersApart ==
  \A p \in Pids : Alive(p) => procs[p].holds \subseteq {procs[p].port}

\* A server that was started when no other lived has its own number, whole, in
\* the pid file while it serves; and whoever started when, the file never has
\* the number of the process that daemon() left behind (main.c:87-90,
\* helper.c:38-49).
PidFileNamesServer ==
  /\ \A p \in pidfile : Role(p) = "main"
  /\ alone => \A p \in Pids :
       Alive(p) /\ Role(p) = "main" /\ procs[p].pc = "serve" => pidfile = {p}

\* Whatever ps and skill could see when a stop began is gone in the end,
\* workers whose clients say nothing included, or has become a CGI program
\* before skill got to it (mini-httpd.sh:38 kills by name).
StopEndsAll ==
  \A p \in Pids : (\E s \in Scripts : p \in scripts[s].left) ~> ~Webd(p)
=============================================================================
