-------------------------- MODULE LifecycleProofs ---------------------------
(***************************************************************************)
(* Theorems about Lifecycle: for any number of processes, scripts and      *)
(* commands, listening sockets stay with their listener's descendants and  *)
(* the pid file names the server, if nobody else started one.              *)
(***************************************************************************)
EXTENDS Lifecycle, TLAPS

-----------------------------------------------------------------------------
(* The inductive invariant.                                                *)

Record == [role : Roles, port : Ports \cup {"none"}, pc : ProcessPcs,
           holds : SUBSET Ports, dying : BOOLEAN]

\* The last conjuncts of TypeOK follow the script, the others the processes.
ProcessType ==
  /\ settings \in BOOLEAN \X BOOLEAN \X BOOLEAN
  /\ made \in 0..MaxPid /\ pidfile \subseteq 1..made /\ alone \in BOOLEAN
  /\ procs \in [Pids -> Record]
  /\ \A p \in Pids : procs[p].pc = "none" <=> p > made

ScriptType ==
  /\ scripts \in [Scripts -> [cmd : DOMAIN First \cup {"none"},
                              pc : ScriptPcs, child : 0..made,
                              left : SUBSET (1..made)]]
  /\ \A s \in Scripts : scripts[s].pc = "wait" => scripts[s].child > 0
  /\ commands \in 0..MaxCommands

\* Before it forks a server holds nothing that the https listener could get.
Holding(r) ==
  /\ r.holds \subseteq {r.port}
  /\ r.pc \in {"init", "pid", "put", "fork"} => r.role = "main" /\ r.holds = {}
  /\ r.pc = "bind" => r.port \in Ports
  /\ r.role = "main" => r.port = "http"
  /\ r.role = "main" /\ r.pc = "serve" => "http" \in r.holds

HoldInv == \A p \in Pids : Holding(procs[p])

\* A server that has written the pid file, and one that has not ended since.
Wrote(r) == r.role = "main" /\ r.pc \in {"fork", "bind", "serve", "ended"}
Stays(r) == Wrote(r) /\ r.pc # "ended"

\* One that has emptied the file, and one that lives at all.
Opened(r) == r.role = "main" /\ r.pc = "put"
Lives(r) == r.role = "main" /\ r.pc \notin {"none", "ended"}

\* Only servers write the pid file.  The last one that was started when no
\* other lived remains the only one: it finds the file empty when it writes.
PidInv ==
  /\ \A p \in pidfile : Wrote(procs[p])
  /\ alone => \A p, q \in Pids : Lives(procs[p]) /\ Lives(procs[q]) => p = q
  /\ alone => \A p \in Pids : Opened(procs[p]) => pidfile = {}
  /\ alone => \A p \in Pids : Stays(procs[p]) => pidfile = {p}

IInv == ProcessType /\ ScriptType /\ HoldInv /\ PidInv

LEMMA TypeParts == TypeOK <=> ProcessType /\ ScriptType
BY DEF TypeOK, ProcessType, ScriptType, Record

\* The order in which main() calls what it calls.
LEMMA OrderValues ==
  /\ Order["init"] = "pid" /\ Order["pid"] = "put" /\ Order["put"] = "fork"
  /\ Order["fork"] = "bind" /\ Order["bind"] = "serve"
  /\ Start \in {"init", "pid"}
<1>1. /\ Order["init"] = "pid" /\ Order["pid"] = "put" /\ Order["put"] = "fork"
      /\ Order["fork"] = "bind" /\ Order["bind"] = "serve"
  BY DEF Order
<1>2. \A q \in DOMAIN Order : Order[q] # "init"
  BY DEF Order
<1>3. Start \in {"init", "pid"}
  BY <1>2 DEF Start
<1> QED BY <1>1, <1>3

LEMMA Initial == Init => IInv
<1> SUFFICES ASSUME Init PROVE IInv OBVIOUS
<1> USE LifecycleAssumption
<1>1. ProcessType
  BY DEF Init, settings, ProcessType, Record, Pids, Ports, NoProcess, Roles, ProcessPcs
<1>2. ScriptType
  BY DEF Init, ScriptType, Idle, ScriptPcs
<1>3. HoldInv
  BY DEF Init, HoldInv, Holding, NoProcess
<1>4. PidInv
  BY DEF Init, PidInv, Stays, Opened, Lives, Wrote, NoProcess
<1> QED BY <1>1, <1>2, <1>3, <1>4 DEF IInv

-----------------------------------------------------------------------------
(* A step of a process: it changes its own record, and may make another.   *)

\* The scripts only see that more processes may have been made.
LEMMA ScriptsFollow ==
  ASSUME ScriptType, ProcessType, ProcessType', UNCHANGED <<scripts, commands>>,
         made' \in {made, made + 1}
  PROVE  ScriptType'
BY DEF ScriptType, ProcessType, ScriptPcs, First

\* Process p goes on as r.  What r may be, seen from what p was: it keeps
\* what was written, and gets no further with the pid file.
Quiet(q, r) ==
  /\ Wrote(q) => Wrote(r)
  /\ Stays(r) => Stays(q)
  /\ Opened(r) => Opened(q)
  /\ Lives(r) => Lives(q)

\* A new process has not touched the file, and is a server only if it takes
\* the place of q, which becomes r.
Fresh(q, r, c) ==
  /\ ~Wrote(c) /\ ~Stays(c) /\ ~Opened(c)
  /\ Lives(c) => Lives(q) /\ ~Lives(r)

LEMMA ChangeType ==
  ASSUME ProcessType, NEW p \in Pids, p <= made,
         NEW r \in Record, r.pc # "none",
         procs' = [procs EXCEPT ![p] = r],
         UNCHANGED <<settings, made, alone>>, pidfile' \subseteq 1..made
  PROVE  ProcessType'
<1>1. settings' \in BOOLEAN \X BOOLEAN \X BOOLEAN
  BY DEF ProcessType
<1> QED BY <1>1, LifecycleAssumption DEF ProcessType, Pids

LEMMA ForkType ==
  ASSUME ProcessType, NEW p \in Pids, p <= made,
         NEW r \in Record, r.pc # "none", NEW c \in Record, c.pc # "none",
         made < MaxPid, made' = made + 1,
         procs' = [procs EXCEPT ![p] = r, ![made + 1] = c],
         UNCHANGED <<settings, alone, pidfile>>
  PROVE  ProcessType'
<1> USE LifecycleAssumption
<1>1. /\ made' \in 0..MaxPid /\ pidfile' \subseteq 1..made' /\ alone' \in BOOLEAN
      /\ settings' \in BOOLEAN \X BOOLEAN \X BOOLEAN
  BY DEF ProcessType
<1>2. procs' \in [Pids -> Record]
  BY DEF ProcessType
<1>3. \A q \in Pids :
        procs'[q] = IF q = made + 1 THEN c ELSE IF q = p THEN r ELSE procs[q]
  BY DEF ProcessType
<1>4. ASSUME NEW q \in Pids PROVE procs'[q].pc = "none" <=> q > made'
  BY <1>3 DEF ProcessType, Pids
<1> QED BY <1>1, <1>2, <1>4 DEF ProcessType

LEMMA ChangeHold ==
  ASSUME HoldInv, ProcessType, NEW p \in Pids, NEW r, Holding(r),
         procs' = [procs EXCEPT ![p] = r]
  PROVE  HoldInv'
<1>1. \A q \in Pids : procs'[q] = IF q = p THEN r ELSE procs[q]
  BY DEF ProcessType
<1> QED BY <1>1 DEF HoldInv, Holding

LEMMA ForkHold ==
  ASSUME HoldInv, ProcessType, NEW p \in Pids, NEW r, Holding(r),
         NEW c, Holding(c), made < MaxPid,
         procs' = [procs EXCEPT ![p] = r, ![made + 1] = c]
  PROVE  HoldInv'
<1>1. \A q \in Pids : procs'[q] \in {procs[q], r, c}
  BY LifecycleAssumption DEF ProcessType, Pids
<1> QED BY <1>1 DEF HoldInv, Holding

LEMMA ChangePid ==
  ASSUME PidInv, ProcessType, NEW p \in Pids, NEW r, Quiet(procs[p], r),
         procs' = [procs EXCEPT ![p] = r], UNCHANGED <<pidfile, alone>>
  PROVE  PidInv'
<1>1. \A q \in Pids : procs'[q] = IF q = p THEN r ELSE procs[q]
  BY DEF ProcessType
<1>2. pidfile \subseteq Pids
  BY LifecycleAssumption DEF ProcessType, Pids
<1>3. \A q \in pidfile : Wrote(procs'[q])
  BY <1>1, <1>2 DEF PidInv, Quiet
<1>4. /\ \A q \in Pids : Lives(procs'[q]) => Lives(procs[q])
      /\ \A q \in Pids : Opened(procs'[q]) => Opened(procs[q])
      /\ \A q \in Pids : Stays(procs'[q]) => Stays(procs[q])
  BY <1>1 DEF Quiet
<1> QED BY <1>3, <1>4 DEF PidInv

LEMMA ForkPid ==
  ASSUME PidInv, ProcessType, NEW p \in Pids, p <= made,
         NEW r, Quiet(procs[p], r), NEW c, Fresh(procs[p], r, c), made < MaxPid,
         procs' = [procs EXCEPT ![p] = r, ![made + 1] = c],
         UNCHANGED <<pidfile, alone>>
  PROVE  PidInv'
<1> DEFINE n == made + 1
<1>1. /\ \A q \in Pids : procs'[q] = IF q = n THEN c ELSE IF q = p THEN r ELSE procs[q]
      /\ pidfile \subseteq Pids /\ n \notin pidfile /\ p # n /\ n \in Pids
  BY LifecycleAssumption DEF ProcessType, Pids
<1> HIDE DEF n
<1>2. \A q \in pidfile : Wrote(procs'[q])
  BY <1>1 DEF PidInv, Quiet
<1>3. /\ \A q \in Pids : Opened(procs'[q]) => Opened(procs[q])
      /\ \A q \in Pids : Stays(procs'[q]) => Stays(procs[q])
  BY <1>1 DEF Quiet, Fresh
<1>4. ASSUME alone, NEW q1 \in Pids, NEW q2 \in Pids,
             Lives(procs'[q1]), Lives(procs'[q2])
      PROVE  q1 = q2
  <2>1. \A q \in Pids : Lives(procs'[q]) => q = n \/ Lives(procs[q])
    BY <1>1 DEF Quiet
  <2>2. \A q \in Pids : Lives(procs[q]) /\ Lives(procs[p]) => q = p
    BY <1>4 DEF PidInv
  <2>3. CASE Lives(c)
    <3>1. Lives(procs[p]) /\ ~Lives(procs'[p])
      BY <1>1, <2>3 DEF Fresh
    <3> QED BY <1>4, <2>1, <2>2, <3>1
  <2>4. CASE ~Lives(c)
    <3>1. Lives(procs[q1]) /\ Lives(procs[q2])
      BY <1>1, <1>4, <2>1, <2>4
    <3> QED BY <1>4, <3>1 DEF PidInv
  <2> QED BY <2>3, <2>4
<1> QED BY <1>2, <1>3, <1>4 DEF PidInv

-----------------------------------------------------------------------------
(* main() and what it forks.                                               *)

LEMMA Acting ==
  ASSUME ProcessType, NEW p \in Pids, Acts(p)
  PROVE  p <= made /\ procs[p] \in Record
BY LifecycleAssumption DEF ProcessType, Acts, Alive, Pids

LEMMA DaemonStep ==
  ASSUME NEW p \in Pids, IInv, Daemon(p)
  PROVE  IInv'
<1>1. /\ procs[p] \in Record /\ p <= made /\ procs[p].pc = "init"
      /\ procs[p].role = "main" /\ procs[p].holds = {} /\ procs[p].port = "http"
  BY Acting DEF Daemon, System, IInv, HoldInv, Holding
<1>2. UNCHANGED <<settings, scripts, commands, alone, pidfile>>
  BY DEF Daemon, System
<1> DEFINE r == [Ended(procs[p]) EXCEPT !.role = "launcher"]
           c == [procs[p] EXCEPT !.role = "main", !.port = "http", !.pc = "pid"]
           g == [procs[p] EXCEPT !.pc = "pid"]
<1>3. /\ r \in Record /\ r.pc = "ended" /\ r.role = "launcher" /\ r.holds = {}
      /\ c \in Record /\ c.pc = "pid" /\ c.role = "main" /\ c.holds = {}
      /\ c.port = "http"
      /\ g \in Record /\ g.pc = "pid" /\ g.role = "main" /\ g.holds = {}
      /\ g.port = "http"
  BY <1>1 DEF Record, Ended, Roles, ProcessPcs, Ports
<1>4. /\ Holding(r) /\ Holding(c) /\ Holding(g)
      /\ Quiet(procs[p], r) /\ Fresh(procs[p], r, c) /\ Quiet(procs[p], g)
  BY <1>1, <1>3 DEF Holding, Ports, Quiet, Fresh, Stays, Opened, Lives, Wrote
<1>5. CASE Forks(p, r, "main", "http", Order["init"])
  <2>1. /\ made < MaxPid /\ made' = made + 1
        /\ procs' = [procs EXCEPT ![p] = r, ![made + 1] = c]
    BY <1>5, OrderValues DEF Forks
  <2> QED
    BY <1>1, <1>2, <1>3, <1>4, <2>1, ForkType, ForkHold, ForkPid,
       ScriptsFollow DEF IInv
<1>6. CASE procs' = [procs EXCEPT ![p] = Goes(p, Order["init"])] /\ UNCHANGED made
  <2>1. procs' = [procs EXCEPT ![p] = g]
    BY <1>6, OrderValues DEF Goes
  <2>2. ProcessType'
    BY <1>1, <1>2, <1>3, <1>6, <2>1, ChangeType DEF IInv, ProcessType
  <2> QED
    BY <1>2, <1>4, <1>6, <2>1, <2>2, ChangeHold, ChangePid, ScriptsFollow DEF IInv
<1> QED BY <1>5, <1>6 DEF Daemon

\* The pid file changes with p, which is a server at "pid" or "put".
LEMMA PidFileStep ==
  ASSUME NEW p \in Pids, IInv, OpenPidFile(p) \/ WritePid(p)
  PROVE  IInv'
<1>1. /\ procs[p] \in Record /\ p <= made /\ procs[p].pc \in {"pid", "put"}
      /\ procs[p].role = "main" /\ procs[p].holds = {} /\ procs[p].port = "http"
  BY Acting DEF OpenPidFile, WritePid, System, IInv, HoldInv, Holding
<1>2. UNCHANGED <<settings, scripts, commands, alone, made>>
  BY DEF OpenPidFile, WritePid, System
<1> DEFINE g == [procs[p] EXCEPT !.pc = Order[procs[p].pc]]
<1>3. /\ procs' = [procs EXCEPT ![p] = g]
      /\ \/ procs[p].pc = "pid" /\ g.pc = "put" /\ pidfile' = {}
         \/ /\ procs[p].pc = "put" /\ g.pc = "fork"
            /\ pidfile' \in {{p}, pidfile \cup {p}}
  BY <1>1, OrderValues DEF OpenPidFile, WritePid, Goes, Record
<1>4. /\ g \in Record /\ g.pc \in {"put", "fork"} /\ g.role = "main" /\ g.holds = {}
      /\ g.port = "http"
  BY <1>1, <1>3 DEF Record, ProcessPcs
<1> HIDE DEF g
<1>5. ProcessType'
  <2>0. p \in 1..made /\ pidfile \subseteq 1..made
    BY <1>1, LifecycleAssumption DEF IInv, ProcessType, Pids
  <2>1. pidfile' \subseteq 1..made
    BY <1>3, <2>0
  <2> QED BY <1>1, <1>2, <1>3, <1>4, <2>1, ChangeType DEF IInv
<1>6. HoldInv'
  BY <1>3, <1>4, ChangeHold DEF IInv, Holding
<1>7. PidInv'
  <2>1. \A q \in Pids : procs'[q] = IF q = p THEN g ELSE procs[q]
    BY <1>3 DEF IInv, ProcessType
  <2>2. /\ Lives(procs[p]) /\ Lives(g)
        /\ Opened(g) <=> procs[p].pc = "pid"
        /\ Stays(g) <=> procs[p].pc = "put"
        /\ Wrote(g) <=> procs[p].pc = "put"
        /\ Opened(procs[p]) <=> procs[p].pc = "put"
        /\ ~Wrote(procs[p])
    BY <1>1, <1>3, <1>4 DEF Lives, Opened, Stays, Wrote
  <2>3. \A q \in pidfile' : Wrote(procs'[q])
    <3>1. pidfile \subseteq Pids /\ p \notin pidfile
      BY <2>2, LifecycleAssumption DEF IInv, ProcessType, PidInv, Pids
    <3> QED BY <1>3, <2>1, <2>2, <3>1 DEF IInv, PidInv
  <2>4. ASSUME alone, NEW q \in Pids, q # p PROVE ~Lives(procs'[q])
    BY <2>1, <2>2, <2>4 DEF IInv, PidInv
  <2>5. ASSUME alone PROVE /\ Opened(g) => pidfile' = {}
                           /\ Stays(g) => pidfile' = {p}
    BY <1>3, <2>2, <2>5 DEF IInv, PidInv
  <2>6. \A q \in Pids : Opened(procs'[q]) \/ Stays(procs'[q]) => Lives(procs'[q])
    BY DEF Opened, Stays, Lives, Wrote
  <2> QED BY <1>2, <2>1, <2>3, <2>4, <2>5, <2>6 DEF PidInv
<1> QED BY <1>2, <1>5, <1>6, <1>7, ScriptsFollow DEF IInv

LEMMA ForkHttpsStep ==
  ASSUME NEW p \in Pids, IInv, ForkHttps(p)
  PROVE  IInv'
<1>1. /\ procs[p] \in Record /\ p <= made /\ procs[p].pc = "fork"
      /\ procs[p].role = "main" /\ procs[p].holds = {} /\ procs[p].port = "http"
  BY Acting DEF ForkHttps, System, IInv, HoldInv, Holding
<1>2. UNCHANGED <<settings, scripts, commands, alone, pidfile>>
  BY DEF ForkHttps, System
<1> DEFINE r == [procs[p] EXCEPT !.pc = "bind"]
           c == [procs[p] EXCEPT !.role = "https", !.port = "https", !.pc = "bind"]
<1>3. /\ r \in Record /\ r.pc = "bind" /\ r.role = "main" /\ r.holds = {}
      /\ r.port = "http"
      /\ c \in Record /\ c.pc = "bind" /\ c.role = "https" /\ c.holds = {}
  BY <1>1 DEF Record, Roles, ProcessPcs, Ports
<1>4. Holding(r) /\ Holding(c) /\ Quiet(procs[p], r) /\ Fresh(procs[p], r, c)
  BY <1>1, <1>3 DEF Holding, Ports, Quiet, Fresh, Stays, Opened, Lives, Wrote
<1>5. CASE Forks(p, Goes(p, Order["fork"]), "https", "https", "bind")
  <2>1. /\ made < MaxPid /\ made' = made + 1
        /\ procs' = [procs EXCEPT ![p] = r, ![made + 1] = c]
    BY <1>5, OrderValues DEF Forks, Goes
  <2> QED
    BY <1>1, <1>2, <1>3, <1>4, <2>1, ForkType, ForkHold, ForkPid,
       ScriptsFollow DEF IInv
<1>6. CASE procs' = [procs EXCEPT ![p] = Goes(p, Order["fork"])] /\ UNCHANGED made
  <2>1. procs' = [procs EXCEPT ![p] = r]
    BY <1>6, OrderValues DEF Goes
  <2>2. ProcessType'
    BY <1>1, <1>2, <1>3, <1>6, <2>1, ChangeType DEF IInv, ProcessType
  <2> QED
    BY <1>2, <1>4, <1>6, <2>1, <2>2, ChangeHold, ChangePid, ScriptsFollow DEF IInv
<1> QED BY <1>5, <1>6 DEF ForkHttps

LEMMA OpenListenStep ==
  ASSUME NEW p \in Pids, IInv, OpenListen(p)
  PROVE  IInv'
<1>1. procs[p] \in Record /\ p <= made /\ procs[p].pc = "bind"
  BY Acting DEF OpenListen, System, IInv
<1>2. UNCHANGED <<settings, scripts, commands, alone, made, pidfile>>
  BY DEF OpenListen, System
<1> DEFINE g == [procs[p] EXCEPT !.holds = @ \cup {procs[p].port}, !.pc = "serve"]
<1>3. procs' = [procs EXCEPT ![p] = g]
  BY <1>1, OrderValues DEF OpenListen, Role, IInv, ProcessType, Record
<1>4. procs[p].port \in Ports
  BY <1>1 DEF IInv, HoldInv, Holding
<1>5. /\ g \in Record /\ g.pc = "serve" /\ g.role = procs[p].role
      /\ g.port = procs[p].port /\ g.holds = procs[p].holds \cup {procs[p].port}
  BY <1>1, <1>4 DEF Record, ProcessPcs
<1>6. ProcessType'
  BY <1>1, <1>2, <1>3, <1>5, ChangeType DEF IInv, ProcessType
<1>7. HoldInv'
  <2>1. Holding(g)
    BY <1>1, <1>5 DEF IInv, HoldInv, Holding
  <2> QED BY <1>3, <2>1, ChangeHold DEF IInv
<1>8. PidInv'
  <2>1. Quiet(procs[p], g)
    BY <1>1, <1>5 DEF Quiet, Stays, Opened, Lives, Wrote
  <2> QED BY <1>2, <1>3, <2>1, ChangePid DEF IInv
<1> QED BY <1>2, <1>6, <1>7, <1>8, ScriptsFollow DEF IInv

LEMMA ForkWorkerStep ==
  ASSUME NEW p \in Pids, IInv, ForkWorker(p)
  PROVE  IInv'
<1>1. procs[p] \in Record /\ p <= made /\ procs[p].pc = "serve"
  BY Acting DEF ForkWorker, System, IInv
<1>2. UNCHANGED <<settings, scripts, commands, alone, pidfile>>
  BY DEF ForkWorker, System
<1> DEFINE r == procs[p]
           c == [procs[p] EXCEPT !.role = "worker", !.port = procs[p].port,
                                 !.pc = "serve"]
<1>3. /\ c \in Record /\ c.pc = "serve" /\ c.role = "worker"
      /\ c.port = r.port /\ c.holds = r.holds
  BY <1>1 DEF Record, Roles, ProcessPcs
<1>4. Holding(r) /\ Holding(c) /\ Quiet(procs[p], r) /\ Fresh(procs[p], r, c)
  BY <1>1, <1>3 DEF IInv, HoldInv, Holding, Quiet, Fresh, Stays, Opened, Lives, Wrote
<1>5. /\ made < MaxPid /\ made' = made + 1
      /\ procs' = [procs EXCEPT ![p] = r, ![made + 1] = c]
  BY DEF ForkWorker, Forks
<1> QED
  BY <1>1, <1>2, <1>3, <1>4, <1>5, ForkType, ForkHold, ForkPid, ScriptsFollow
     DEF IInv

LEMMA RunProgramStep ==
  ASSUME NEW p \in Pids, IInv, RunProgram(p)
  PROVE  IInv'
<1>1. /\ procs[p] \in Record /\ p <= made /\ procs[p].role = "worker"
      /\ procs[p].pc # "none"
  BY Acting DEF RunProgram, System, Acts, Alive, Role, IInv
<1>2. UNCHANGED <<settings, scripts, commands, alone, pidfile>>
  BY DEF RunProgram, System
<1> DEFINE r == procs[p]
           g == [procs[p] EXCEPT !.role = "program"]
           c == [procs[p] EXCEPT !.role = "program", !.port = procs[p].port,
                                 !.pc = "serve"]
<1>3. /\ c \in Record /\ c.pc = "serve" /\ c.role = "program"
      /\ c.port = r.port /\ c.holds = r.holds
      /\ g \in Record /\ g.pc = r.pc /\ g.role = "program"
      /\ g.port = r.port /\ g.holds = r.holds
  BY <1>1 DEF Record, Roles, ProcessPcs
<1>4. /\ Holding(r) /\ Holding(c) /\ Holding(g) /\ Fresh(procs[p], r, c)
      /\ Quiet(procs[p], r) /\ Quiet(procs[p], g)
  BY <1>1, <1>3 DEF IInv, HoldInv, Holding, Quiet, Fresh, Stays, Opened, Lives, Wrote
<1>5. CASE Forks(p, procs[p], "program", procs[p].port, "serve")
  <2>1. /\ made < MaxPid /\ made' = made + 1
        /\ procs' = [procs EXCEPT ![p] = r, ![made + 1] = c]
    BY <1>5 DEF Forks
  <2> QED
    BY <1>1, <1>2, <1>3, <1>4, <2>1, ForkType, ForkHold, ForkPid,
       ScriptsFollow DEF IInv
<1>6. CASE procs' = [procs EXCEPT ![p].role = "program"] /\ UNCHANGED made
  <2>1. procs' = [procs EXCEPT ![p] = g]
    BY <1>6
  <2>2. ProcessType'
    BY <1>1, <1>2, <1>3, <1>6, <2>1, ChangeType DEF IInv, ProcessType
  <2> QED
    BY <1>2, <1>4, <1>6, <2>1, <2>2, ChangeHold, ChangePid, ScriptsFollow DEF IInv
<1> QED BY <1>5, <1>6 DEF RunProgram

\* A process ends: by itself, or killed.
LEMMA EndStep ==
  ASSUME NEW p \in Pids, IInv, Exit(p) \/ EndProgram(p) \/ Die(p)
  PROVE  IInv'
<1>1. procs[p].pc # "none"
  BY DEF Exit, EndProgram, Die, System, Acts, Alive
<1>2. procs[p] \in Record /\ p <= made
  BY <1>1, LifecycleAssumption DEF IInv, ProcessType, Pids
<1>3. /\ UNCHANGED <<settings, scripts, commands, alone, made, pidfile>>
      /\ procs' = [procs EXCEPT ![p] = Ended(procs[p])]
  BY DEF Exit, EndProgram, Die, System
<1> DEFINE g == Ended(procs[p])
<1>4. /\ g \in Record /\ g.pc = "ended" /\ g.holds = {}
      /\ g.role = procs[p].role /\ g.port = procs[p].port
  BY <1>2 DEF Record, Ended, ProcessPcs
<1>5. Holding(g) /\ Quiet(procs[p], g)
  BY <1>4 DEF IInv, HoldInv, Holding, Quiet, Stays, Opened, Lives, Wrote
<1>6. ProcessType'
  BY <1>2, <1>3, <1>4, ChangeType DEF IInv, ProcessType
<1> QED
  BY <1>3, <1>5, <1>6, ChangeHold, ChangePid, ScriptsFollow DEF IInv

-----------------------------------------------------------------------------
(* The script.                                                             *)

\* What leaves processes and the pid file alone.
LEMMA ScriptStep ==
  ASSUME NEW s \in Scripts, IInv,
         Command(s) \/ CheckStop(s) \/ Skilled(s) \/ Stopped(s)
           \/ CheckStart(s) \/ Wait(s)
  PROVE  IInv'
<1>1. UNCHANGED <<settings, procs, made, pidfile, alone>>
  BY DEF Command, CheckStop, Skilled, Stopped, CheckStart, Wait, Script
<1>2. ProcessType' /\ HoldInv' /\ PidInv'
  BY <1>1 DEF IInv, ProcessType, HoldInv, PidInv, settings
<1>3. ScriptType'
  <2> USE DEF IInv, ProcessType, ScriptType
  <2>1. CASE Command(s)
    <3>1. PICK cmd \in DOMAIN First :
            scripts' = [scripts EXCEPT ![s] =
              [cmd |-> cmd, pc |-> First[cmd], child |-> 0, left |-> {}]]
      BY <2>1 DEF Command
    <3>2. First[cmd] \in ScriptPcs /\ First[cmd] # "wait"
      BY DEF First, ScriptPcs
    <3>3. commands' = commands + 1 /\ commands < MaxCommands
      BY <2>1 DEF Command
    <3>4. made' = made /\ 0 \in 0..made
      BY <1>1, LifecycleAssumption
    <3>5. scripts' \in [Scripts -> [cmd : DOMAIN First \cup {"none"},
                                   pc : ScriptPcs, child : 0..made,
                                   left : SUBSET (1..made)]]
      BY <3>1, <3>2, <3>4
    <3>6. \A t \in Scripts : scripts'[t].pc = "wait" => scripts'[t].child > 0
      BY <3>1, <3>2
    <3>7. commands' \in 0..MaxCommands
      BY <3>3, LifecycleAssumption
    <3> QED BY <3>4, <3>5, <3>6, <3>7
  <2>2. CASE CheckStop(s)
    <3>1. {p \in Pids : Webd(p)} \subseteq 1..made
      BY LifecycleAssumption DEF Webd, Alive, Pids
    <3> HIDE DEF ProcessType
    <3>2. made' = made /\ UNCHANGED commands
      BY <2>2 DEF CheckStop
    <3>3. scripts' = [scripts EXCEPT ![s].pc = IF Running THEN "skill" ELSE "stopped",
                                     ![s].left = {p \in Pids : Webd(p)}]
      BY <2>2 DEF CheckStop
    <3> QED BY <3>1, <3>2, <3>3 DEF ScriptPcs
  <2>3. CASE Skilled(s) \/ Stopped(s) \/ CheckStart(s) \/ Wait(s)
    BY <1>1, <2>3, LifecycleAssumption
       DEF Skilled, Stopped, CheckStart, Wait, Script, Goto, Idle, First, ScriptPcs
  <2> QED BY <2>1, <2>2, <2>3
<1> QED BY <1>2, <1>3 DEF IInv

LEMMA SkillStep ==
  ASSUME NEW s \in Scripts, IInv, Skill(s)
  PROVE  IInv'
<1>1. UNCHANGED <<settings, made, pidfile, commands, alone>>
  BY DEF Skill, Script
<1>0. PICK k \in 1..made :
        /\ scripts' = [scripts EXCEPT ![s].left = @ \ {k}]
        /\ procs' = [procs EXCEPT ![k].dying = @ \/ Victim(k)]
  BY DEF Skill
<1>2. ASSUME NEW p \in Pids
      PROVE  /\ procs'[p] \in Record
             /\ procs'[p].role = procs[p].role /\ procs'[p].pc = procs[p].pc
             /\ procs'[p].port = procs[p].port /\ procs'[p].holds = procs[p].holds
  <2>1. (procs[p].dying \/ Victim(p)) \in BOOLEAN /\ procs[p] \in Record
    BY DEF IInv, ProcessType, Record, Victim, Webd
  <2>2. procs' = [procs EXCEPT ![k] = [procs[k] EXCEPT !.dying = @ \/ Victim(k)]]
    BY <1>0
  <2>3. procs'[p] = procs[p] \/ procs'[p] = [procs[p] EXCEPT !.dying = @ \/ Victim(p)]
    BY <2>2 DEF IInv, ProcessType
  <2> QED BY <2>1, <2>3 DEF Record
<1>3. procs' \in [Pids -> Record]
  BY <1>0, <1>2 DEF IInv, ProcessType
<1>4. ProcessType'
  BY <1>1, <1>2, <1>3 DEF IInv, ProcessType, settings
<1>5. HoldInv'
  BY <1>2 DEF IInv, HoldInv, Holding
<1>6. PidInv'
  <2>1. pidfile \subseteq Pids
    BY LifecycleAssumption DEF IInv, ProcessType, Pids
  <2> QED BY <1>1, <1>2, <2>1 DEF IInv, PidInv, Stays, Opened, Lives, Wrote
<1>7. ScriptType'
  BY <1>0, <1>1 DEF IInv, ScriptType
<1> QED BY <1>4, <1>5, <1>6, <1>7 DEF IInv

\* A new server.
LEMMA LaunchStep ==
  ASSUME NEW s \in Scripts, IInv, Launch(s)
  PROVE  IInv'
<1> DEFINE c == Program("http", Start)
<1>1. /\ made < MaxPid /\ made' = made + 1 /\ made + 1 \in Pids
      /\ procs' = [procs EXCEPT ![made + 1] = c]
      /\ UNCHANGED <<settings, pidfile, commands>>
      /\ alone' = \A p \in Pids : ~(Alive(p) /\ Role(p) = "main")
  BY LifecycleAssumption DEF Launch, Script, IInv, ProcessType, Pids
<1>2. /\ c \in Record /\ c.pc \in {"init", "pid"} /\ c.role = "main"
      /\ c.port = "http" /\ c.holds = {}
  BY OrderValues DEF Program, Record, Roles, Ports, ProcessPcs
<1>3. \A q \in Pids : procs'[q] = IF q = made + 1 THEN c ELSE procs[q]
  BY <1>1 DEF IInv, ProcessType
<1>4. ProcessType'
  <2>1. made' \in 0..MaxPid /\ pidfile' \subseteq 1..made' /\ alone' \in BOOLEAN
    BY <1>1, LifecycleAssumption DEF IInv, ProcessType
  <2>2. procs' \in [Pids -> Record]
    BY <1>1, <1>2 DEF IInv, ProcessType
  <2>3. ASSUME NEW q \in Pids PROVE procs'[q].pc = "none" <=> q > made'
    BY <1>1, <1>2, <1>3, LifecycleAssumption DEF IInv, ProcessType, Pids
  <2> QED BY <1>1, <2>1, <2>2, <2>3 DEF IInv, ProcessType, settings
<1>5. HoldInv'
  <2>1. Holding(c)
    BY <1>2 DEF Holding
  <2> QED BY <1>3, <2>1 DEF IInv, HoldInv
<1>6. PidInv'
  <2>1. pidfile \subseteq Pids /\ made + 1 \notin pidfile
    BY LifecycleAssumption DEF IInv, ProcessType, Pids
  <2>2. \A q \in pidfile' : Wrote(procs'[q])
    BY <1>1, <1>3, <2>1 DEF IInv, PidInv
  <2>3. ASSUME alone', NEW q \in Pids, Lives(procs'[q])
        PROVE  q = made + 1 /\ ~Opened(procs'[q]) /\ ~Stays(procs'[q])
    <3>1. ~Lives(procs[q])
      BY <1>1, <2>3 DEF Lives, Alive, Role
    <3> QED BY <1>2, <1>3, <2>3, <3>1 DEF Opened, Stays, Wrote
  <2>4. \A q \in Pids : Opened(procs'[q]) \/ Stays(procs'[q]) => Lives(procs'[q])
    BY DEF Opened, Stays, Lives, Wrote
  <2> QED BY <2>2, <2>3, <2>4 DEF PidInv
<1>7. ScriptType'
  BY <1>1, LifecycleAssumption
     DEF Launch, Script, IInv, ProcessType, ScriptType, First, ScriptPcs
<1> QED BY <1>4, <1>5, <1>6, <1>7 DEF IInv

-----------------------------------------------------------------------------
\* The inductive invariant: a process that has not forked its https listener
\* holds no socket, and a server that was started when no other lived is the
\* only one: it finds the pid file empty when it writes its number.
THEOREM Invariance == Spec => []IInv
<1>1. Init => IInv
  BY Initial
<1>2. IInv /\ [Next]_vars => IInv'
  <2> SUFFICES ASSUME IInv, [Next]_vars PROVE IInv'
    OBVIOUS
  <2>1. CASE UNCHANGED vars
    BY <2>1 DEF vars, settings, IInv, ProcessType, ScriptType, HoldInv, PidInv
  <2>2. ASSUME NEW p \in Pids, Server(p) PROVE IInv'
    BY <2>2, DaemonStep, PidFileStep, ForkHttpsStep, OpenListenStep,
       ForkWorkerStep, RunProgramStep, EndStep DEF Server
  <2>3. ASSUME NEW p \in Pids, EndProgram(p) \/ Die(p) PROVE IInv'
    BY <2>3, EndStep
  <2>4. ASSUME NEW s \in Scripts, Shell(s) PROVE IInv'
    BY <2>4, ScriptStep, SkillStep, LaunchStep DEF Shell
  <2> QED BY <2>1, <2>2, <2>3, <2>4 DEF Next
<1> QED BY <1>1, <1>2, PTL DEF Spec

\* Every variable keeps its type, for any number of processes and scripts.
THEOREM TypeCorrect == Spec => []TypeOK
<1>1. IInv => TypeOK
  BY TypeParts DEF IInv
<1> QED BY <1>1, Invariance, PTL

\* No process of one listener ever holds the other's listening socket, so
\* neither listener's remains keep the other's port (main.c:96, 98, 130).
THEOREM ListenersStayApart == Spec => []ListenersApart
<1>1. IInv => ListenersApart
  BY DEF IInv, HoldInv, Holding, ListenersApart
<1> QED BY <1>1, Invariance, PTL

\* A server that was started when no other lived has its own number, whole, in
\* the pid file while it serves, and nobody but a server ever writes one there
\* (main.c:87-90, helper.c:39-49).
THEOREM PidFileIsRight == Spec => []PidFileNamesServer
<1>1. IInv => PidFileNamesServer
  BY DEF IInv, PidInv, Stays, Wrote, Role, PidFileNamesServer
<1> QED BY <1>1, Invariance, PTL
=============================================================================
