--------------------------- MODULE StartupProofs ----------------------------
(***************************************************************************)
(* Theorems about Startup: whatever the command line and config.ini hold,  *)
(* a server that comes up has the settings they give.                      *)
(***************************************************************************)
EXTENDS Startup, FiniteSetTheorems, WellFoundedInduction, TLAPS

-----------------------------------------------------------------------------
(* The inductive invariant.                                                *)

IType ==
  /\ pc \in {"options", "https", "dossl", "http", "log", "initlog", "dir",
             "daemon", "up", "exited"}
  /\ argv \in Seq(Args) /\ config \in Configs
  /\ optind \in 1..(Len(argv) + 1)
  /\ opts \in [d : BOOLEAN, e : BOOLEAN, p : Texts \cup {None},
               s : Texts \cup {None}, l : Texts \cup {None}]
  /\ info \in Texts
  /\ logp \in {None, "option", "info"}
  /\ settings \in [port : Int, sslport : Int, dossl : BOOLEAN,
                   showdir : BOOLEAN, daemon : BOOLEAN, log : Paths \cup {<< >>}]
  /\ streams \in Nat
  /\ cause \in {None, "option", "missing", "file"}

\* What parse_option() has stored is what the options so far have given.
Seen == 1..(optind - 1)

FlagSeen(stored, c) == stored <=> \E i \in Seen : argv[i].opt = c

LastAmong(args, seen, stored, c) ==
  \/ stored = None /\ \A i \in seen : args[i].opt # c
  \/ \E i \in seen : /\ args[i].opt = c /\ stored = args[i].arg
                     /\ \A j \in seen : j > i => args[j].opt # c

ValueSeen(stored, c) == LastAmong(argv, Seen, stored, c)

OptsRight ==
  /\ FlagSeen(opts.d, "d") /\ FlagSeen(opts.e, "e")
  /\ ValueSeen(opts.p, "p") /\ ValueSeen(opts.s, "s") /\ ValueSeen(opts.l, "l")
  /\ pc \notin {"options", "exited"} => optind = Len(argv) + 1

Port(number, c, name) == \E v \in Texts : Chooses(c, name, v) /\ number = Atoi[v]
Flag(stored, c, name) == stored <=> (Given(c) \/ Value(name) = "yes")

LogFile(path) == \E v \in Texts : Chooses("l", "log", v) /\ path = InCwd(v)

\* What main() has decided when it gets to a step.
Decided ==
  /\ pc \in {"dossl", "http", "log", "initlog", "dir", "daemon", "up"}
       => Port(settings.sslport, "s", "https")
  /\ pc \in {"http", "log", "initlog", "dir", "daemon", "up"}
       => Flag(settings.dossl, "e", "dossl")
  /\ pc \in {"log", "initlog", "dir", "daemon", "up"}
       => Port(settings.port, "p", "http")
  /\ pc \in {"daemon", "up"} => (settings.showdir <=> Value("dir") # "no")
  /\ pc = "up" => Flag(settings.daemon, "d", "daemon")

\* The path: what logp points to, until initlog() has used it.
PathRight ==
  /\ pc = "initlog" => \/ logp = "info" /\ Chooses("l", "log", info)
                       \/ logp = "option" /\ opts.l \in Texts
                          /\ Chooses("l", "log", opts.l)
  /\ pc \in {"dir", "daemon", "up"}
       => LogFile(settings.log)

IInv == IType /\ OptsRight /\ Decided /\ PathRight

LEMMA Constants ==
  /\ MaxArgs \in Nat /\ None \notin Texts /\ Atoi \in [Texts -> Int]
  /\ Configs \subseteq Seq([key : Keys, value : Texts, comment : BOOLEAN])
BY Zenon, StartupAssumption

LEMMA Initial == Init => IInv
<1> SUFFICES ASSUME Init PROVE IInv OBVIOUS
<1>1. argv \in Seq(Args) /\ config \in Configs
  <2>1. PICK n \in 0..MaxArgs : argv \in [1..n -> Args]
    BY Zenon DEF Init
  <2>2. n \in Nat
    BY <2>1, Constants
  <2>3. config \in Configs
    BY Zenon DEF Init
  <2> QED BY <2>1, <2>2, <2>3
<1>0. /\ pc = "options" /\ optind = 1 /\ info \in Texts /\ logp = None
      /\ opts = [d |-> FALSE, e |-> FALSE, p |-> None, s |-> None, l |-> None]
      /\ settings = [port |-> 80, sslport |-> 443, dossl |-> FALSE,
                     showdir |-> TRUE, daemon |-> FALSE, log |-> << >>]
      /\ streams = 0 /\ cause = None
  <2>1. "" \in Texts
    BY Zenon, StartupAssumption
  <2> QED BY <2>1, Zenon DEF Init
<1>2. IType
  <2>2. /\ opts \in [d : BOOLEAN, e : BOOLEAN, p : Texts \cup {None},
                     s : Texts \cup {None}, l : Texts \cup {None}]
        /\ settings \in [port : Int, sslport : Int, dossl : BOOLEAN,
                         showdir : BOOLEAN, daemon : BOOLEAN, log : Paths \cup {<< >>}]
    BY <1>0
  <2>3. optind \in 1..(Len(argv) + 1)
    <3>1. Len(argv) \in Nat
      BY <1>1
    <3> QED BY <1>0, <3>1
  <2> QED BY <1>0, <1>1, <2>2, <2>3, Constants DEF IType
<1>3. OptsRight
  <2>1. Seen = {}
    BY <1>0 DEF Seen
  <2>2. opts.d = FALSE /\ opts.e = FALSE
        /\ opts.p = None /\ opts.s = None /\ opts.l = None
    BY <1>0
  <2> QED BY <1>0, <2>1, <2>2 DEF OptsRight, FlagSeen, ValueSeen, LastAmong
<1>4. Decided /\ PathRight
  BY <1>0 DEF Decided, PathRight
<1> QED BY <1>2, <1>3, <1>4 DEF IInv

-----------------------------------------------------------------------------
(* Control and lookups.                                                    *)

LEMMA Follows ==
  /\ Following("options") = "https" /\ Following("https") = "dossl"
  /\ Following("dossl") = "http" /\ Following("http") = "log"
  /\ Following("log") = "initlog" /\ Following("initlog") = "dir"
  /\ Following("dir") = "daemon" /\ Following("daemon") = "up"
<1>1. /\ Order[1] = "options" /\ Order[2] = "https" /\ Order[3] = "dossl"
      /\ Order[4] = "http" /\ Order[5] = "log" /\ Order[6] = "initlog"
      /\ Order[7] = "dir" /\ Order[8] = "daemon" /\ Order[9] = "up"
  BY DEF Order
<1>2. ASSUME NEW n \in 1..8, NEW loc, Order[n] = loc,
             \A i \in 1..8 : Order[i] = loc => i = n
      PROVE  Following(loc) = Order[n + 1]
  BY <1>2 DEF Following
<1>3. \A n \in 1..8 : \A i \in 1..8 : Order[i] = Order[n] => i = n
  BY <1>1
<1> QED BY <1>1, <1>2, <1>3

\* A key that config.ini has gives a text: there is a first line of it.
LEMMA ValueType ==
  ASSUME IType, NEW name, Has(name)
  PROVE  Value(name) \in Texts
<1>1. config \in Seq([key : Keys, value : Texts, comment : BOOLEAN])
  BY Constants DEF IType
<1>2. Matches(name) \subseteq Nat /\ Matches(name) \subseteq DOMAIN config
  BY <1>1 DEF Matches
<1>3. \E i \in Matches(name) : \A j \in Matches(name) : ~(j < i)
  <2>1. \E i \in Matches(name) : \A j \in Matches(name) :
          ~(<<j, i>> \in OpToRel(<, Nat))
    BY <1>2, NatLessThanWellFounded, WFMin DEF Has
  <2> QED BY <1>2, <2>1 DEF OpToRel
<1>4. \E i \in Matches(name) : \A j \in Matches(name) : i <= j
  BY <1>2, <1>3
<1>5. PICK i \in Matches(name) : Value(name) = config[i].value
  BY <1>4 DEF Value
<1>6. config[i] \in [key : Keys, value : Texts, comment : BOOLEAN]
  <2> DEFINE L == [key : Keys, value : Texts, comment : BOOLEAN]
  <2>1. i \in 1..Len(config) /\ config \in Seq(L)
    BY <1>1, <1>2, <1>5
  <2> HIDE DEF L
  <2>2. config[i] \in L
    BY <2>1
  <2> QED BY <2>2 DEF L
<1> QED BY <1>5, <1>6
-----------------------------------------------------------------------------
(* parse_option().                                                         *)

\* Nothing has been decided before the options are read, nor by a process
\* that ends.
LEMMA Undecided ==
  ASSUME pc' \in {"options", "https", "exited"}
  PROVE  Decided' /\ PathRight'
BY DEF Decided, PathRight

LEMMA ArgType ==
  ASSUME IType, NEW i \in 1..Len(argv), argv[i].opt # "bad"
  PROVE  \/ argv[i].opt \in Flags
         \/ argv[i].opt \in Valued /\ argv[i].arg \in Texts
<1>1. argv[i] \in Args
  BY DEF IType
<1>2. argv[i] \in [opt : Flags \cup {"bad"}, arg : {None}]
                 \cup [opt : Valued, arg : Texts]
  BY <1>1, Zenon, StartupAssumption
<1> QED BY <1>2

LEMMA ParseStep ==
  ASSUME IInv, ParseOption
  PROVE  IInv'
<1>1. IType /\ OptsRight /\ pc = "options" /\ UNCHANGED <<argv, config, info, streams>>
  BY DEF IInv, ParseOption, At, input
<1>2. CASE Exit("option")
  <2>1. pc' = "exited" /\ cause' = "option" /\ UNCHANGED <<optind, opts, logp, settings>>
    BY <1>2 DEF Exit
  <2>2. IType'
    BY <1>1, <2>1 DEF IType
  <2>3. OptsRight'
    BY <1>1, <2>1 DEF OptsRight, FlagSeen, ValueSeen, Seen
  <2> QED BY <2>1, <2>2, <2>3, Undecided DEF IInv
<1>3. CASE /\ optind <= Len(argv) /\ argv[optind].opt # "bad"
           /\ opts' = Store(argv[optind]) /\ optind' = optind + 1
           /\ UNCHANGED <<pc, logp, settings, cause>>
  <2> DEFINE a == argv[optind]
  <2>1. optind \in Nat /\ optind \in 1..Len(argv) /\ Len(argv) \in Nat
    BY <1>1, <1>3 DEF IType
  <2>2. a.opt \in Flags \/ (a.opt \in Valued /\ a.arg \in Texts)
    BY <1>1, <1>3, <2>1, ArgType
  <2>3. Seen' = Seen \cup {optind} /\ \A i \in Seen : i < optind
    BY <1>3, <2>1 DEF Seen
  <2>4. \A i \in Seen : argv'[i] = argv[i]
    BY <1>1
  <2> HIDE DEF a
  <2>5. /\ a.opt = "d" => opts' = [opts EXCEPT !.d = TRUE]
        /\ a.opt = "e" => opts' = [opts EXCEPT !.e = TRUE]
        /\ a.opt = "p" => opts' = [opts EXCEPT !.p = a.arg]
        /\ a.opt = "s" => opts' = [opts EXCEPT !.s = a.arg]
        /\ a.opt = "l" => opts' = [opts EXCEPT !.l = a.arg]
    BY <1>3 DEF Store, Flags, a
  <2>6. opts \in [d : BOOLEAN, e : BOOLEAN, p : Texts \cup {None},
                  s : Texts \cup {None}, l : Texts \cup {None}]
    BY <1>1 DEF IType
  <2>7. opts' \in [d : BOOLEAN, e : BOOLEAN, p : Texts \cup {None},
                  s : Texts \cup {None}, l : Texts \cup {None}]
    BY <2>2, <2>5, <2>6 DEF Flags, Valued
  <2>8. IType'
    BY <1>1, <1>3, <2>1, <2>7 DEF IType
  <2>9. /\ \A i \in Seen' : argv'[i] = argv[i]
        /\ argv[optind] = a
    BY <1>1 DEF a
  <2>10. FlagSeen(opts.d, "d")' /\ FlagSeen(opts.e, "e")'
    <3>1. /\ opts'.d <=> (opts.d \/ a.opt = "d")
          /\ opts'.e <=> (opts.e \/ a.opt = "e")
      BY <2>2, <2>5, <2>6 DEF Flags, Valued
    <3>2. FlagSeen(opts.d, "d") /\ FlagSeen(opts.e, "e")
      BY <1>1 DEF OptsRight
    <3> QED BY <2>3, <2>9, <3>1, <3>2 DEF FlagSeen
  <2>11. /\ opts'.p = IF a.opt = "p" THEN a.arg ELSE opts.p
         /\ opts'.s = IF a.opt = "s" THEN a.arg ELSE opts.s
         /\ opts'.l = IF a.opt = "l" THEN a.arg ELSE opts.l
    BY <2>2, <2>5, <2>6 DEF Flags, Valued
  <2>12. ASSUME NEW stored, NEW later, NEW c, ValueSeen(stored, c),
                later = IF a.opt = c THEN a.arg ELSE stored
         PROVE  LastAmong(argv, Seen', later, c)
    <3>1. CASE a.opt = c
      <4>1. optind \in Seen' /\ argv[optind].opt = c /\ later = argv[optind].arg
        BY <2>3, <2>9, <2>12, <3>1
      <4>2. \A j \in Seen' : ~(j > optind)
        BY <2>1, <2>3 DEF Seen
      <4> QED BY <4>1, <4>2 DEF LastAmong
    <3>2. CASE a.opt # c
      BY <2>3, <2>9, <2>12, <3>2 DEF ValueSeen, LastAmong
    <3> QED BY <3>1, <3>2
  <2>13. /\ ValueSeen(opts.p, "p")' /\ ValueSeen(opts.s, "s")' /\ ValueSeen(opts.l, "l")'
    <3>1. ValueSeen(opts.p, "p") /\ ValueSeen(opts.s, "s") /\ ValueSeen(opts.l, "l")
      BY <1>1 DEF OptsRight
    <3>2. argv' = argv
      BY <1>1
    <3>3. ValueSeen(opts.p, "p")'
      <4>1. LastAmong(argv, Seen', opts'.p, "p")
        BY <2>11, <2>12, <3>1
      <4> QED BY <3>2, <4>1 DEF ValueSeen
    <3>4. ValueSeen(opts.s, "s")'
      <4>1. LastAmong(argv, Seen', opts'.s, "s")
        BY <2>11, <2>12, <3>1
      <4> QED BY <3>2, <4>1 DEF ValueSeen
    <3>5. ValueSeen(opts.l, "l")'
      <4>1. LastAmong(argv, Seen', opts'.l, "l")
        BY <2>11, <2>12, <3>1
      <4> QED BY <3>2, <4>1 DEF ValueSeen
    <3> QED BY <3>3, <3>4, <3>5
  <2>14. OptsRight'
    BY <1>1, <1>3, <2>10, <2>13 DEF OptsRight
  <2> QED BY <1>1, <1>3, <2>8, <2>14, Undecided DEF IInv
<1> QED BY <1>2, <1>3 DEF ParseOption
-----------------------------------------------------------------------------
(* main().                                                                 *)

InMain == pc \notin {"options", "exited"}

\* Once all options are read, what is stored is what the command line gives.
LEMMA AllSeen ==
  ASSUME IType, OptsRight, optind = Len(argv) + 1
  PROVE  /\ opts.d <=> Given("d")
         /\ opts.e <=> Given("e")
         /\ opts.p = None => ~Given("p")
         /\ opts.s = None => ~Given("s")
         /\ opts.l = None => ~Given("l")
         /\ opts.p # None => opts.p \in Texts /\ \A name : Chooses("p", name, opts.p)
         /\ opts.s # None => opts.s \in Texts /\ \A name : Chooses("s", name, opts.s)
         /\ opts.l # None => opts.l \in Texts /\ \A name : Chooses("l", name, opts.l)
<1>1. Seen = DOMAIN argv /\ DOMAIN argv = 1..Len(argv)
  BY DEF Seen, IType
<1>2. (opts.d <=> Given("d")) /\ (opts.e <=> Given("e"))
  BY <1>1 DEF OptsRight, FlagSeen, Given
<1>3. ASSUME NEW stored, NEW c \in Valued, ValueSeen(stored, c)
      PROVE  /\ stored = None => ~Given(c)
             /\ stored # None => stored \in Texts /\ \A name : Chooses(c, name, stored)
  <2>1. \A i \in DOMAIN argv : argv[i].opt = c => argv[i].arg \in Texts
    BY <1>1, ArgType DEF Flags, Valued
  <2>2. CASE stored = None /\ \A i \in Seen : argv[i].opt # c
    BY <1>1, <2>2 DEF Given
  <2>3. CASE \E i \in Seen : /\ argv[i].opt = c /\ stored = argv[i].arg
                            /\ \A j \in Seen : j > i => argv[j].opt # c
    BY <1>1, <2>1, <2>3, Constants DEF Chooses
  <2> QED BY <1>3, <2>2, <2>3 DEF ValueSeen, LastAmong
<1>4. /\ ValueSeen(opts.p, "p") /\ ValueSeen(opts.s, "s") /\ ValueSeen(opts.l, "l")
      /\ "p" \in Valued /\ "s" \in Valued /\ "l" \in Valued
  BY DEF OptsRight, Valued
<1> QED BY <1>2, <1>3, <1>4

LEMMA FetchType ==
  ASSUME IType, NEW name, Fetch(name)
  PROVE  info' = Value(name) /\ info' \in Texts /\ streams' \in Nat
BY ValueType DEF Fetch, IType

LEMMA SameInput ==
  ASSUME UNCHANGED <<argv, config>>
  PROVE  /\ \A c : Given(c)' <=> Given(c)
         /\ \A name : Value(name)' = Value(name)
BY DEF Given, Value, Matches

\* The process ends.
LEMMA ExitStep ==
  ASSUME IInv, InMain, UNCHANGED input, NEW why \in {"missing", "file"}, Exit(why),
         info' = info, streams' \in Nat
  PROVE  IInv'
<1>1. IType'
  BY DEF IInv, IType, Exit, input
<1>2. OptsRight'
  BY DEF IInv, OptsRight, FlagSeen, ValueSeen, Seen, Exit, input
<1>3. pc' = "exited"
  BY DEF Exit
<1> QED BY <1>1, <1>2, <1>3, Undecided DEF IInv

LEMMA FetchFailsStep ==
  ASSUME IInv, InMain, UNCHANGED input, NEW name, FetchFails(name)
  PROVE  IInv'
BY ExitStep DEF FetchFails, FopenFails, NoFetch, IInv, IType

\* main() goes on: what the options gave stays.
LEMMA GoesOn ==
  ASSUME IInv, NEW loc, loc # "exited", Step(loc),
         pc' \in {"https", "dossl", "http", "log", "initlog", "dir", "daemon", "up"},
         loc = "options" => optind > Len(argv),
         info' \in Texts, streams' \in Nat, logp' \in {None, "option", "info"},
         settings' \in [port : Int, sslport : Int, dossl : BOOLEAN, showdir : BOOLEAN,
                        daemon : BOOLEAN, log : Paths \cup {<< >>}]
  PROVE  /\ pc = loc /\ UNCHANGED <<argv, config, optind, opts>>
         /\ IType' /\ OptsRight'
<1>1. pc = loc /\ UNCHANGED <<argv, config, optind, opts, cause>>
  BY DEF Step, At, input
<1>2. IType'
  BY <1>1 DEF IInv, IType
<1>3. optind = Len(argv) + 1
  BY <1>1 DEF IInv, IType, OptsRight, InMain, Step, At
<1>4. OptsRight'
  BY <1>1, <1>3 DEF IInv, OptsRight, FlagSeen, ValueSeen, Seen
<1> QED BY <1>1, <1>2, <1>4
\* What has been decided stays so, as long as its setting does.
LEMMA Carried ==
  ASSUME UNCHANGED <<argv, config>>
  PROVE  /\ \A v : \A c, name : Chooses(c, name, v) => Chooses(c, name, v)'
         /\ settings'.sslport = settings.sslport /\ Port(settings.sslport, "s", "https")
              => Port(settings.sslport, "s", "https")'
         /\ settings'.port = settings.port /\ Port(settings.port, "p", "http")
              => Port(settings.port, "p", "http")'
         /\ settings'.dossl = settings.dossl /\ Flag(settings.dossl, "e", "dossl")
              => Flag(settings.dossl, "e", "dossl")'
         /\ settings'.log = settings.log /\ LogFile(settings.log)
              => LogFile(settings.log)'
         /\ settings'.showdir = settings.showdir /\ (settings.showdir <=> Value("dir") # "no")
              => (settings.showdir <=> Value("dir") # "no")'
<1>1. \A v : \A c, name : Chooses(c, name, v) => Chooses(c, name, v)'
  BY SameInput DEF Chooses
<1>2. /\ Port(settings'.sslport, "s", "https") => Port(settings.sslport, "s", "https")'
      /\ Port(settings'.port, "p", "http") => Port(settings.port, "p", "http")'
  BY SameInput DEF Port, Chooses
<1>3. Flag(settings'.dossl, "e", "dossl") => Flag(settings.dossl, "e", "dossl")'
  BY SameInput DEF Flag
<1>4. LogFile(settings'.log) => LogFile(settings.log)'
  BY SameInput DEF LogFile, InCwd, Chooses
<1>5. (settings'.showdir <=> Value("dir") # "no") => (settings.showdir <=> Value("dir") # "no")'
  BY SameInput
<1> QED BY <1>1, <1>2, <1>3, <1>4, <1>5

SettingsType ==
  [port : Int, sslport : Int, dossl : BOOLEAN, showdir : BOOLEAN,
   daemon : BOOLEAN, log : Paths \cup {<< >>}]

\* A port, from the option or from the file.
LEMMA PortGiven ==
  ASSUME IInv, InMain, NEW loc, NEW field, NEW option, NEW c, NEW name,
         option = None => ~Given(c),
         option # None => option \in Texts /\ Chooses(c, name, option),
         SetPort(loc, field, option, name)
  PROVE  \/ UNCHANGED input /\ FetchFails(name)
         \/ /\ Step(loc) /\ info' \in Texts /\ streams' \in Nat
            /\ \E v \in Texts : Chooses(c, name, v) /\ Set(field, Atoi[v])
<1>1. CASE Step(loc) /\ option # None /\ NoFetch /\ Set(field, Atoi[option])
  BY <1>1 DEF NoFetch, IInv, IType
<1>2. CASE Step(loc) /\ option = None /\ Fetch(name) /\ Set(field, Atoi[info'])
  <2>1. info' = Value(name) /\ info' \in Texts /\ streams' \in Nat
    BY <1>2, FetchType DEF IInv
  <2>2. Chooses(c, name, info')
    BY <1>2, <2>1 DEF Chooses
  <2> QED BY <1>2, <2>1, <2>2
<1>3. CASE At(loc) /\ option = None /\ FetchFails(name)
  BY <1>3 DEF At
<1> QED BY <1>1, <1>2, <1>3 DEF SetPort

LEMMA SslPortStep ==
  ASSUME IInv, SslPort
  PROVE  IInv'
<1>1. InMain /\ pc = "https"
  BY DEF SslPort, SetPort, Step, At, InMain
<1>2. \/ UNCHANGED input /\ FetchFails("https")
      \/ /\ Step("https") /\ info' \in Texts /\ streams' \in Nat
         /\ \E v \in Texts : Chooses("s", "https", v) /\ Set("sslport", Atoi[v])
  <2>1. IType /\ OptsRight /\ optind = Len(argv) + 1
    BY <1>1 DEF IInv, OptsRight
  <2>2. /\ opts.s = None => ~Given("s")
        /\ opts.s # None => opts.s \in Texts /\ Chooses("s", "https", opts.s)
    BY <2>1, AllSeen
  <2>3. SetPort("https", "sslport", opts.s, "https")
    BY DEF SslPort
  <2> QED BY <1>1, <2>2, <2>3, PortGiven, Zenon
<1>3. CASE UNCHANGED input /\ FetchFails("https")
  BY <1>1, <1>3, FetchFailsStep
<1>4. ASSUME Step("https"), info' \in Texts, streams' \in Nat,
             NEW v \in Texts, Chooses("s", "https", v), Set("sslport", Atoi[v])
      PROVE  IInv'
  <2>0. settings' = [settings EXCEPT !.sslport = Atoi[v]] /\ UNCHANGED logp
    BY <1>4 DEF Set
  <2>1. pc' = "dossl" /\ UNCHANGED <<argv, config>>
    BY <1>4, Follows DEF Step, At, input
  <2>2. settings' \in SettingsType /\ settings'.sslport = Atoi[v]
    BY <2>0, Constants DEF IInv, IType, SettingsType
  <2>3. IType' /\ OptsRight'
    BY <1>4, <2>0, <2>1, <2>2, GoesOn DEF SettingsType, IInv, IType
  <2>4. Port(settings.sslport, "s", "https")'
    BY <1>4, <2>1, <2>2, Carried, Constants DEF Port
  <2> QED BY <2>1, <2>3, <2>4 DEF IInv, Decided, PathRight
<1> QED BY <1>2, <1>3, <1>4

LEMMA HttpPortStep ==
  ASSUME IInv, HttpPort
  PROVE  IInv'
<1>1. InMain /\ pc = "http"
  BY DEF HttpPort, SetPort, Step, At, InMain
<1>2. \/ UNCHANGED input /\ FetchFails("http")
      \/ /\ Step("http") /\ info' \in Texts /\ streams' \in Nat
         /\ \E v \in Texts : Chooses("p", "http", v) /\ Set("port", Atoi[v])
  <2>1. IType /\ OptsRight /\ optind = Len(argv) + 1
    BY <1>1 DEF IInv, OptsRight
  <2>2. /\ opts.p = None => ~Given("p")
        /\ opts.p # None => opts.p \in Texts /\ Chooses("p", "http", opts.p)
    BY <2>1, AllSeen
  <2>3. SetPort("http", "port", opts.p, "http")
    BY DEF HttpPort
  <2> QED BY <1>1, <2>2, <2>3, PortGiven, Zenon
<1>3. CASE UNCHANGED input /\ FetchFails("http")
  BY <1>1, <1>3, FetchFailsStep
<1>4. ASSUME Step("http"), info' \in Texts, streams' \in Nat,
             NEW v \in Texts, Chooses("p", "http", v), Set("port", Atoi[v])
      PROVE  IInv'
  <2>0. settings' = [settings EXCEPT !.port = Atoi[v]] /\ UNCHANGED logp
    BY <1>4 DEF Set
  <2>1. pc' = "log" /\ UNCHANGED <<argv, config>>
    BY <1>4, Follows DEF Step, At, input
  <2>2. /\ settings' \in SettingsType /\ settings'.port = Atoi[v]
        /\ settings'.sslport = settings.sslport /\ settings'.dossl = settings.dossl
    BY <2>0, Constants DEF IInv, IType, SettingsType
  <2>3. IType' /\ OptsRight'
    BY <1>4, <2>0, <2>1, <2>2, GoesOn DEF SettingsType, IInv, IType
  <2>4. Port(settings.port, "p", "http")'
    BY <1>4, <2>1, <2>2, Carried, Constants DEF Port
  <2>5. Port(settings.sslport, "s", "https") /\ Flag(settings.dossl, "e", "dossl")
    BY <1>1 DEF IInv, Decided
  <2>6. Decided'
    BY <2>1, <2>2, <2>4, <2>5, Carried DEF Decided
  <2> QED BY <2>1, <2>3, <2>6 DEF IInv, PathRight
<1> QED BY <1>2, <1>3, <1>4
\* A flag, from the option or from the file.
LEMMA FlagGiven ==
  ASSUME IInv, NEW loc, NEW field, NEW flag, NEW c, flag <=> Given(c),
         SetFlag(loc, field, flag)
  PROVE  \/ UNCHANGED input /\ FetchFails(loc)
         \/ /\ Step(loc) /\ info' \in Texts /\ streams' \in Nat
            /\ \E b \in BOOLEAN : Flag(b, c, loc) /\ Set(field, b)
<1>1. CASE Step(loc) /\ flag /\ NoFetch /\ Set(field, TRUE)
  <2>1. Flag(TRUE, c, loc)
    BY <1>1 DEF Flag
  <2> QED BY <1>1, <2>1 DEF NoFetch, IInv, IType
<1>2. CASE Step(loc) /\ ~flag /\ Fetch(loc) /\ Set(field, info' = "yes")
  <2>1. info' = Value(loc) /\ info' \in Texts /\ streams' \in Nat
    BY <1>2, FetchType DEF IInv
  <2>2. Flag(info' = "yes", c, loc) /\ (info' = "yes") \in BOOLEAN
    BY <1>2, <2>1 DEF Flag
  <2> QED BY <1>2, <2>1, <2>2
<1>3. CASE At(loc) /\ ~flag /\ FetchFails(loc)
  BY <1>3 DEF At
<1> QED BY <1>1, <1>2, <1>3 DEF SetFlag

LEMMA DoSslStep ==
  ASSUME IInv, DoSsl
  PROVE  IInv'
<1>1. InMain /\ pc = "dossl"
  BY DEF DoSsl, SetFlag, Step, At, InMain
<1>2. \/ UNCHANGED input /\ FetchFails("dossl")
      \/ /\ Step("dossl") /\ info' \in Texts /\ streams' \in Nat
         /\ \E b \in BOOLEAN : Flag(b, "e", "dossl") /\ Set("dossl", b)
  <2>1. IType /\ OptsRight /\ optind = Len(argv) + 1
    BY <1>1 DEF IInv, OptsRight, InMain
  <2>2. opts.e <=> Given("e")
    BY <2>1, AllSeen
  <2>3. SetFlag("dossl", "dossl", opts.e)
    BY DEF DoSsl
  <2> QED BY <2>2, <2>3, FlagGiven, Zenon
<1>3. CASE UNCHANGED input /\ FetchFails("dossl")
  BY <1>1, <1>3, FetchFailsStep
<1>4. ASSUME Step("dossl"), info' \in Texts, streams' \in Nat,
             NEW b \in BOOLEAN, Flag(b, "e", "dossl"), Set("dossl", b)
      PROVE  IInv'
  <2>0. settings' = [settings EXCEPT !.dossl = b] /\ UNCHANGED logp
    BY <1>4 DEF Set
  <2>1. pc' = "http" /\ UNCHANGED <<argv, config>>
    BY <1>4, Follows DEF Step, At, input
  <2>2. /\ settings' \in SettingsType /\ settings'.dossl = b
        /\ settings'.sslport = settings.sslport
    BY <2>0 DEF IInv, IType, SettingsType
  <2>3. IType' /\ OptsRight'
    BY <1>4, <2>0, <2>1, <2>2, GoesOn DEF SettingsType, IInv, IType
  <2>4. Flag(settings.dossl, "e", "dossl")'
    BY <1>4, <2>1, <2>2, SameInput DEF Flag
  <2>5. Port(settings.sslport, "s", "https")
    BY <1>1 DEF IInv, Decided
  <2>6. Decided'
    BY <2>1, <2>2, <2>4, <2>5, Carried DEF Decided
  <2> QED BY <2>1, <2>3, <2>6 DEF IInv, PathRight
<1> QED BY <1>2, <1>3, <1>4

LEMMA IsDaemonStep ==
  ASSUME IInv, IsDaemon
  PROVE  IInv'
<1>1. InMain /\ pc = "daemon"
  BY DEF IsDaemon, SetFlag, Step, At, InMain
<1>2. \/ UNCHANGED input /\ FetchFails("daemon")
      \/ /\ Step("daemon") /\ info' \in Texts /\ streams' \in Nat
         /\ \E b \in BOOLEAN : Flag(b, "d", "daemon") /\ Set("daemon", b)
  <2>1. IType /\ OptsRight /\ optind = Len(argv) + 1
    BY <1>1 DEF IInv, OptsRight, InMain
  <2>2. opts.d <=> Given("d")
    BY <2>1, AllSeen
  <2>3. SetFlag("daemon", "daemon", opts.d)
    BY DEF IsDaemon
  <2> QED BY <2>2, <2>3, FlagGiven, Zenon
<1>3. CASE UNCHANGED input /\ FetchFails("daemon")
  BY <1>1, <1>3, FetchFailsStep
<1>4. ASSUME Step("daemon"), info' \in Texts, streams' \in Nat,
             NEW b \in BOOLEAN, Flag(b, "d", "daemon"), Set("daemon", b)
      PROVE  IInv'
  <2>0. settings' = [settings EXCEPT !.daemon = b] /\ UNCHANGED logp
    BY <1>4 DEF Set
  <2>1. pc' = "up" /\ UNCHANGED <<argv, config>>
    BY <1>4, Follows DEF Step, At, input
  <2>2. /\ settings' \in SettingsType /\ settings'.daemon = b
        /\ settings'.sslport = settings.sslport /\ settings'.port = settings.port
        /\ settings'.dossl = settings.dossl /\ settings'.showdir = settings.showdir
        /\ settings'.log = settings.log
    BY <2>0 DEF IInv, IType, SettingsType
  <2>3. IType' /\ OptsRight'
    BY <1>4, <2>0, <2>1, <2>2, GoesOn DEF SettingsType, IInv, IType
  <2>4. Flag(settings.daemon, "d", "daemon")'
    BY <1>4, <2>1, <2>2, SameInput DEF Flag
  <2>5. /\ Port(settings.sslport, "s", "https") /\ Flag(settings.dossl, "e", "dossl")
        /\ Port(settings.port, "p", "http") /\ (settings.showdir <=> Value("dir") # "no")
        /\ LogFile(settings.log)
    BY <1>1 DEF IInv, Decided, PathRight
  <2>6. Decided'
    BY <2>1, <2>2, <2>4, <2>5, Carried DEF Decided
  <2>7. PathRight'
    BY <2>1, <2>2, <2>5, Carried DEF PathRight
  <2> QED BY <2>3, <2>6, <2>7 DEF IInv
<1> QED BY <1>2, <1>3, <1>4

\* The path main() keeps a pointer to.
LEMMA LogPathStep ==
  ASSUME IInv, LogPath
  PROVE  IInv'
<1>1. InMain /\ pc = "log" /\ UNCHANGED <<argv, config>>
  BY DEF LogPath, Step, At, InMain, input
<1>2. CASE At("log") /\ opts.l = None /\ FetchFails("log")
  BY <1>1, <1>2, FetchFailsStep DEF At
<1>3. /\ opts.l = None => ~Given("l")
      /\ opts.l # None => opts.l \in Texts /\ Chooses("l", "log", opts.l)
  <2>1. IType /\ OptsRight /\ optind = Len(argv) + 1
    BY <1>1 DEF IInv, OptsRight, InMain
  <2> QED BY <2>1, AllSeen
<1>4. ASSUME Step("log"), UNCHANGED settings, info' \in Texts, streams' \in Nat,
             \/ logp' = "info" /\ Chooses("l", "log", info')
             \/ logp' = "option" /\ opts.l \in Texts /\ Chooses("l", "log", opts.l)
      PROVE  IInv'
  <2>1. pc' = "initlog" /\ opts' = opts
    BY <1>4, Follows DEF Step
  <2>2. IType' /\ OptsRight'
    BY <1>4, <2>1, GoesOn DEF IInv, IType
  <2>3. /\ Port(settings.sslport, "s", "https") /\ Flag(settings.dossl, "e", "dossl")
        /\ Port(settings.port, "p", "http")
    BY <1>1 DEF IInv, Decided
  <2>4. Decided'
    BY <1>1, <1>4, <2>1, <2>3, Carried DEF Decided
  <2>5. \/ logp' = "info" /\ Chooses("l", "log", info)'
        \/ logp' = "option" /\ opts'.l \in Texts /\ Chooses("l", "log", opts.l)'
    BY <1>1, <1>4, <2>1, SameInput DEF Chooses
  <2>6. PathRight'
    BY <2>1, <2>5 DEF PathRight
  <2> QED BY <2>2, <2>4, <2>6 DEF IInv
<1>5. CASE Step("log") /\ opts.l # None /\ logp' = "option" /\ NoFetch
           /\ UNCHANGED settings
  BY <1>3, <1>4, <1>5 DEF NoFetch, IInv, IType
<1>6. CASE Step("log") /\ opts.l = None /\ Fetch("log") /\ logp' = "info"
           /\ UNCHANGED settings
  <2>1. info' = Value("log") /\ info' \in Texts /\ streams' \in Nat
    BY <1>6, FetchType DEF IInv
  <2>2. Chooses("l", "log", info')
    BY <1>3, <1>6, <2>1 DEF Chooses
  <2> QED BY <1>4, <1>6, <2>1, <2>2
<1> QED BY <1>2, <1>5, <1>6 DEF LogPath
LEMMA InitLogStep ==
  ASSUME IInv, InitLog
  PROVE  IInv'
<1>1. InMain /\ pc = "initlog" /\ UNCHANGED <<argv, config>>
  BY DEF InitLog, Step, At, InMain, input
<1>2. CASE At("initlog") /\ FopenFails
  BY <1>1, <1>2, ExitStep DEF At, FopenFails, NoFetch, IInv, IType
<1>3. CASE Step("initlog") /\ NoFetch
           /\ Set("log", InCwd(IF logp = "info" THEN info ELSE opts.l))
  <2> DEFINE path == IF logp = "info" THEN info ELSE opts.l
  <2>1. path \in Texts /\ Chooses("l", "log", path)
    BY <1>1 DEF IInv, IType, PathRight
  <2>2. settings' = [settings EXCEPT !.log = InCwd(path)] /\ UNCHANGED logp
    BY <1>3 DEF Set
  <2> HIDE DEF path
  <2>3. pc' = "dir"
    BY <1>3, Follows DEF Step
  <2>4. /\ settings' \in SettingsType /\ settings'.log = InCwd(path)
        /\ settings'.sslport = settings.sslport /\ settings'.port = settings.port
        /\ settings'.dossl = settings.dossl
    BY <2>1, <2>2 DEF IInv, IType, SettingsType, Paths
  <2>5. IType' /\ OptsRight'
    BY <1>3, <2>2, <2>3, <2>4, GoesOn DEF SettingsType, NoFetch, IInv, IType
  <2>6. /\ Port(settings.sslport, "s", "https") /\ Flag(settings.dossl, "e", "dossl")
        /\ Port(settings.port, "p", "http")
    BY <1>1 DEF IInv, Decided
  <2>7. Decided'
    BY <1>1, <2>3, <2>4, <2>6, Carried DEF Decided
  <2>8. LogFile(settings.log)'
    BY <1>1, <2>1, <2>4, SameInput DEF LogFile, InCwd, Chooses
  <2>9. PathRight'
    BY <2>3, <2>8 DEF PathRight
  <2> QED BY <2>5, <2>7, <2>9 DEF IInv
<1> QED BY <1>2, <1>3 DEF InitLog

LEMMA ShowDirStep ==
  ASSUME IInv, ShowDir
  PROVE  IInv'
<1>1. InMain /\ pc = "dir" /\ UNCHANGED <<argv, config>>
  BY DEF ShowDir, Step, At, InMain, input
<1>2. CASE At("dir") /\ FetchFails("dir")
  BY <1>1, <1>2, FetchFailsStep DEF At
<1>3. CASE Step("dir") /\ Fetch("dir") /\ Set("showdir", info' # "no")
  <2>1. info' = Value("dir") /\ info' \in Texts /\ streams' \in Nat
    BY <1>3, FetchType DEF IInv
  <2>2. settings' = [settings EXCEPT !.showdir = (info' # "no")] /\ UNCHANGED logp
    BY <1>3 DEF Set
  <2>3. pc' = "daemon"
    BY <1>3, Follows DEF Step
  <2>4. /\ settings' \in SettingsType /\ settings'.showdir = (info' # "no")
        /\ settings'.sslport = settings.sslport /\ settings'.port = settings.port
        /\ settings'.dossl = settings.dossl /\ settings'.log = settings.log
    BY <2>2 DEF IInv, IType, SettingsType
  <2>5. IType' /\ OptsRight'
    BY <1>3, <2>1, <2>2, <2>3, <2>4, GoesOn DEF SettingsType, IInv, IType
  <2>6. /\ Port(settings.sslport, "s", "https") /\ Flag(settings.dossl, "e", "dossl")
        /\ Port(settings.port, "p", "http")
        /\ LogFile(settings.log)
    BY <1>1 DEF IInv, Decided, PathRight
  <2>7. (settings.showdir <=> Value("dir") # "no")'
    BY <1>1, <2>1, <2>4, SameInput
  <2>8. Decided' /\ PathRight'
    BY <1>1, <2>3, <2>4, <2>6, <2>7, Carried DEF Decided, PathRight
  <2> QED BY <2>5, <2>8 DEF IInv
<1> QED BY <1>2, <1>3 DEF ShowDir

LEMMA NoMoreStep ==
  ASSUME IInv, NoMoreOptions
  PROVE  IInv'
<1>1. pc' = "https" /\ Step("options") /\ optind > Len(argv)
      /\ UNCHANGED <<info, logp, settings, streams>>
  BY Follows DEF NoMoreOptions, Step
<1>2. IType' /\ OptsRight'
  BY <1>1, GoesOn DEF IInv, IType
<1> QED BY <1>1, <1>2, Undecided DEF IInv

-----------------------------------------------------------------------------
\* The inductive invariant: what parse_option() has stored, and, step by step
\* of main(), what is decided by then; until initlog() runs, that logp points
\* to a text nobody has overwritten.
THEOREM Invariance == Spec => []IInv
<1>1. Init => IInv
  BY Initial
<1>2. IInv /\ [Next]_vars => IInv'
  <2> SUFFICES ASSUME IInv, [Next]_vars PROVE IInv'
    OBVIOUS
  <2>1. CASE UNCHANGED vars
    <3>1. UNCHANGED <<pc, argv, config, optind, opts, info, logp, settings, streams, cause>>
      BY <2>1 DEF vars, input
    <3>2. IType' /\ OptsRight'
      BY <3>1 DEF IInv, IType, OptsRight, FlagSeen, ValueSeen, Seen
    <3>3. Decided'
      BY <3>1, SameInput DEF IInv, Decided, Port, Flag, Chooses
    <3>4. PathRight'
      BY <3>1, SameInput DEF IInv, PathRight, LogFile, InCwd, Chooses
    <3> QED BY <3>2, <3>3, <3>4 DEF IInv
  <2>2. CASE ParseOption \/ NoMoreOptions
    BY <2>2, ParseStep, NoMoreStep
  <2>3. CASE SslPort \/ HttpPort \/ DoSsl \/ IsDaemon
    BY <2>3, SslPortStep, HttpPortStep, DoSslStep, IsDaemonStep
  <2>4. CASE LogPath \/ InitLog \/ ShowDir
    BY <2>4, LogPathStep, InitLogStep, ShowDirStep
  <2> QED BY <2>1, <2>2, <2>3, <2>4 DEF Next
<1> QED BY <1>1, <1>2, PTL DEF Spec

\* Every variable keeps its type, and a server that comes up has a log path.
THEOREM TypeCorrect == Spec => []TypeOK
<1>1. IInv => TypeOK
  <2> SUFFICES ASSUME IInv PROVE TypeOK OBVIOUS
  <2>1. IType /\ PathRight
    BY DEF IInv
  <2>2. pc \in Locations
    <3>1. /\ Order[1] = "options" /\ Order[2] = "https" /\ Order[3] = "dossl"
          /\ Order[4] = "http" /\ Order[5] = "log" /\ Order[6] = "initlog"
          /\ Order[7] = "dir" /\ Order[8] = "daemon" /\ Order[9] = "up"
      BY DEF Order
    <3> QED BY <2>1, <3>1 DEF IType, Locations
  <2>3. settings \in [port : Int, sslport : Int, dossl : BOOLEAN,
                      showdir : BOOLEAN, daemon : BOOLEAN,
                      log : IF pc = "up" THEN Paths ELSE Paths \cup {<< >>}]
    BY <2>1 DEF IType, PathRight, LogFile, Paths
  <2> QED BY <2>1, <2>2, <2>3 DEF IType, TypeOK
<1> QED BY <1>1, Invariance, PTL

\* For every command line and every config.ini: a server that comes up has the
\* settings they give, although GetConfig() returns one static buffer
\* (parse_config.c:28, main.c:56-88).
THEOREM SettingsCorrect == Spec => []SettingsAsGiven
<1>1. IInv => SettingsAsGiven
  <2> SUFFICES ASSUME IInv, pc = "up" PROVE SettingsAsGiven
    BY DEF SettingsAsGiven
  <2>1. /\ Port(settings.port, "p", "http") /\ Port(settings.sslport, "s", "https")
        /\ LogFile(settings.log)
        /\ Flag(settings.dossl, "e", "dossl") /\ Flag(settings.daemon, "d", "daemon")
        /\ settings.showdir <=> Value("dir") # "no"
    BY DEF IInv, Decided, PathRight
  <2>2. settings.dossl \in BOOLEAN /\ settings.daemon \in BOOLEAN
        /\ settings.showdir \in BOOLEAN
    BY DEF IInv, IType
  <2>3. /\ settings.dossl = (Given("e") \/ Value("dossl") = "yes")
        /\ settings.daemon = (Given("d") \/ Value("daemon") = "yes")
        /\ settings.showdir = (Value("dir") # "no")
    BY <2>1, <2>2 DEF Flag
  <2> QED BY <2>1, <2>3 DEF SettingsAsGiven, Port, LogFile
<1> QED BY <1>1, Invariance, PTL
-----------------------------------------------------------------------------
(* Lookups: what main() has asked config.ini for.                          *)

\* The keys of the decisions before each step.
Before ==
  [https |-> {}, dossl |-> {"https"}, http |-> {"https", "dossl"},
   log |-> {"https", "dossl", "http"},
   initlog |-> {"https", "dossl", "http", "log"},
   dir |-> {"https", "dossl", "http", "log"},
   daemon |-> {"https", "dossl", "http", "log", "dir"},
   up |-> {"https", "dossl", "http", "log", "dir", "daemon"}]

Asked == Needed \cap Before[pc]

LookupInv ==
  /\ InMain => /\ ~Given("bad")
               /\ IsFiniteSet(Asked) /\ streams = Cardinality(Asked)
               /\ \A k \in Asked : Has(k)
  /\ pc = "options" => streams = 0 /\ \A i \in Seen : argv[i].opt # "bad"
  /\ cause = "missing" => \E k \in Needed : ~Has(k)
  /\ cause = "option" => Given("bad")
  /\ Given("bad") => streams = 0

\* What the command line and the file say does not change.
LEMMA SameNeeds ==
  ASSUME UNCHANGED <<argv, config>>
  PROVE  /\ Needed' = Needed
         /\ \A k : Has(k)' <=> Has(k)
         /\ \A c : Given(c)' <=> Given(c)
<1>1. \A k : Has(k)' <=> Has(k)
  BY DEF Has, Matches
<1> QED BY <1>1, SameInput DEF Needed

\* An option is stored if, and only if, it is given.
LEMMA StoredIffGiven ==
  ASSUME IInv, InMain
  PROVE  /\ opts.d <=> Given("d")
         /\ opts.e <=> Given("e")
         /\ opts.p # None <=> Given("p")
         /\ opts.s # None <=> Given("s")
         /\ opts.l # None <=> Given("l")
<1>1. IType /\ OptsRight /\ optind = Len(argv) + 1
  BY DEF IInv, OptsRight, InMain
<1>2. Seen = DOMAIN argv
  BY <1>1 DEF Seen, IType
<1>3. ASSUME NEW stored, NEW c, ValueSeen(stored, c) PROVE stored # None => Given(c)
  BY <1>2, <1>3 DEF ValueSeen, LastAmong, Given
<1>4. ValueSeen(opts.p, "p") /\ ValueSeen(opts.s, "s") /\ ValueSeen(opts.l, "l")
  BY <1>1 DEF OptsRight
<1> QED BY <1>1, <1>3, <1>4, AllSeen

\* main() decides what key k is about: it asks for k where it is needed, and
\* only there.
LEMMA LookupGoesOn ==
  ASSUME LookupInv, InMain, InMain', UNCHANGED <<argv, config, cause>>,
         NEW k, k \notin Before[pc], Before[pc'] = Before[pc] \cup {k},
         \/ k \in Needed /\ Has(k) /\ streams' = streams + 1
         \/ k \notin Needed /\ streams' = streams
  PROVE  LookupInv'
<1>1. /\ Needed' = Needed
      /\ \A j : Has(j)' <=> Has(j)
      /\ \A c : Given(c)' <=> Given(c)
  BY SameNeeds
<1>2. /\ ~Given("bad") /\ IsFiniteSet(Asked) /\ streams = Cardinality(Asked)
      /\ \A j \in Asked : Has(j)
  BY DEF LookupInv
<1>3. /\ IsFiniteSet(Asked') /\ streams' = Cardinality(Asked')
      /\ \A j \in Asked' : Has(j)
  <2>1. CASE k \in Needed /\ Has(k) /\ streams' = streams + 1
    <3>1. Asked' = Asked \cup {k} /\ k \notin Asked
      BY <1>1, <2>1 DEF Asked
    <3> QED BY <1>2, <2>1, <3>1, FS_AddElement
  <2>2. CASE k \notin Needed /\ streams' = streams
    <3>1. Asked' = Asked
      BY <1>1, <2>2 DEF Asked
    <3> QED BY <1>2, <2>2, <3>1
  <2> QED BY <2>1, <2>2
<1>4. \A j \in Asked' : Has(j)'
  BY <1>1, <1>3
<1>5. pc' # "options"
  BY DEF InMain
<1> QED BY <1>1, <1>2, <1>3, <1>4, <1>5 DEF LookupInv

\* The process ends over a key that it does need, or over a file.
LEMMA LookupFails ==
  ASSUME LookupInv, InMain, UNCHANGED <<argv, config>>,
         \/ FopenFails
         \/ \E k \in Needed : FetchFails(k)
  PROVE  LookupInv'
<1>1. /\ ~Given("bad") /\ Needed' = Needed
      /\ \A j : Has(j)' <=> Has(j)
      /\ \A c : Given(c)' <=> Given(c)
  BY SameNeeds DEF LookupInv
<1>2. /\ pc' = "exited"
      /\ cause' = "file" \/ (cause' = "missing" /\ \E k \in Needed : ~Has(k))
  BY DEF FopenFails, FetchFails, Exit
<1> QED BY <1>1, <1>2 DEF LookupInv, InMain

\* A port or a flag: an option that is given makes its key unneeded.
LEMMA LookupDecides ==
  ASSUME LookupInv, InMain, NEW loc, NEW k, NEW next, NEW c,
         UNCHANGED <<argv, config>>, k \in Needed <=> ~Given(c),
         next = Following(loc), next \notin {"options", "exited"},
         k \notin Before[loc], Before[next] = Before[loc] \cup {k},
         \/ Step(loc) /\ Given(c) /\ NoFetch
         \/ Step(loc) /\ ~Given(c) /\ Fetch(k)
         \/ ~Given(c) /\ FetchFails(k)
  PROVE  LookupInv'
<1>1. CASE ~Given(c) /\ FetchFails(k)
  BY <1>1, LookupFails
<1>2. CASE Step(loc) /\ ((Given(c) /\ NoFetch) \/ (~Given(c) /\ Fetch(k)))
  <2>1. pc = loc /\ pc' = next /\ cause' = cause
    BY <1>2 DEF Step, At
  <2>2. \/ k \in Needed /\ Has(k) /\ streams' = streams + 1
        \/ k \notin Needed /\ streams' = streams
    BY <1>2 DEF Fetch, NoFetch
  <2>3. InMain'
    BY <2>1 DEF InMain
  <2> QED BY <2>1, <2>2, <2>3, LookupGoesOn
<1> QED BY <1>1, <1>2

\* What is decided at each step that asks.
LEMMA BeforeIs ==
  /\ "https" \notin Before["https"] /\ Before["dossl"] = Before["https"] \cup {"https"}
  /\ "dossl" \notin Before["dossl"] /\ Before["http"] = Before["dossl"] \cup {"dossl"}
  /\ "http" \notin Before["http"] /\ Before["log"] = Before["http"] \cup {"http"}
  /\ "log" \notin Before["log"] /\ Before["initlog"] = Before["log"] \cup {"log"}
  /\ Before["dir"] = Before["initlog"]
  /\ "dir" \notin Before["dir"] /\ Before["daemon"] = Before["dir"] \cup {"dir"}
  /\ "daemon" \notin Before["daemon"] /\ Before["up"] = Before["daemon"] \cup {"daemon"}
BY DEF Before

\* The keys, one by one.
LEMMA NeededIs ==
  /\ "https" \in Needed <=> ~Given("s")
  /\ "dossl" \in Needed <=> ~Given("e")
  /\ "http" \in Needed <=> ~Given("p")
  /\ "log" \in Needed <=> ~Given("l")
  /\ "daemon" \in Needed <=> ~Given("d")
  /\ "dir" \in Needed
  /\ Needed \subseteq {"https", "dossl", "http", "log", "dir", "daemon"}
BY DEF Needed

\* Reading the options asks for nothing.
LEMMA LookupParse ==
  ASSUME IInv, LookupInv, ParseOption \/ NoMoreOptions
  PROVE  LookupInv'
<1>1. /\ pc = "options" /\ UNCHANGED <<argv, config, streams>> /\ streams = 0
      /\ \A i \in Seen : argv[i].opt # "bad"
  BY DEF ParseOption, NoMoreOptions, Step, At, input, LookupInv
<1>2. /\ Needed' = Needed
      /\ \A j : Has(j)' <=> Has(j)
      /\ \A c : Given(c)' <=> Given(c)
  BY <1>1, SameNeeds
<1>3. optind \in Nat /\ optind >= 1 /\ DOMAIN argv = 1..Len(argv) /\ Len(argv) \in Nat
      /\ optind <= Len(argv) + 1
  BY DEF IInv, IType
<1>4. CASE ParseOption /\ Exit("option")
  <2>1. optind \in DOMAIN argv /\ argv[optind].opt = "bad"
    BY <1>3, <1>4 DEF ParseOption, Exit
  <2>2. Given("bad") /\ pc' = "exited" /\ cause' = "option"
    BY <1>4, <2>1 DEF Given, Exit
  <2> QED BY <1>1, <1>2, <2>2 DEF LookupInv, InMain
<1>5. CASE ParseOption /\ ~Exit("option")
  <2>1. /\ argv[optind].opt # "bad" /\ optind' = optind + 1 /\ UNCHANGED <<pc, cause>>
    BY <1>5 DEF ParseOption
  <2>2. \A i \in Seen' : i \in Seen \/ i = optind
    BY <1>3, <2>1 DEF Seen
  <2>3. \A i \in Seen' : argv'[i].opt # "bad"
    BY <1>1, <2>1, <2>2
  <2> QED BY <1>1, <1>2, <2>1, <2>3 DEF LookupInv, InMain
<1>6. CASE NoMoreOptions
  <2>1. pc' = "https" /\ cause' = cause /\ optind > Len(argv)
    BY <1>6, Follows DEF NoMoreOptions, Step
  <2>2. Seen = DOMAIN argv
    BY <1>3, <2>1 DEF Seen
  <2>3. ~Given("bad")
    BY <1>1, <2>2 DEF Given
  <2>4. Asked' = {} /\ IsFiniteSet({}) /\ Cardinality({}) = 0
    BY <2>1, FS_EmptySet DEF Asked, Before
  <2> QED BY <1>1, <1>2, <2>1, <2>3, <2>4 DEF LookupInv, InMain
<1> QED BY <1>4, <1>5, <1>6

LEMMA LookupMain ==
  ASSUME IInv, LookupInv,
         \/ SslPort \/ DoSsl \/ HttpPort \/ LogPath \/ InitLog \/ ShowDir \/ IsDaemon
  PROVE  LookupInv'
<1>1. InMain /\ UNCHANGED <<argv, config>>
  BY DEF SslPort, DoSsl, HttpPort, LogPath, InitLog, ShowDir, IsDaemon, SetPort,
         SetFlag, Step, At, InMain, input
<1>2. /\ opts.d <=> Given("d")
      /\ opts.e <=> Given("e")
      /\ opts.p # None <=> Given("p")
      /\ opts.s # None <=> Given("s")
      /\ opts.l # None <=> Given("l")
  BY <1>1, StoredIffGiven
<1>3. CASE SslPort
  <2>1. \/ Step("https") /\ Given("s") /\ NoFetch
        \/ Step("https") /\ ~Given("s") /\ Fetch("https")
        \/ ~Given("s") /\ FetchFails("https")
    BY <1>2, <1>3 DEF SslPort, SetPort
  <2>2. /\ "https" \in Needed <=> ~Given("s")
        /\ "dossl" = Following("https")
        /\ "https" \notin Before["https"]
        /\ Before["dossl"] = Before["https"] \cup {"https"}
    BY NeededIs, Follows, BeforeIs
  <2> QED BY <1>1, <2>1, <2>2, LookupDecides
<1>4. CASE DoSsl
  <2>1. \/ Step("dossl") /\ Given("e") /\ NoFetch
        \/ Step("dossl") /\ ~Given("e") /\ Fetch("dossl")
        \/ ~Given("e") /\ FetchFails("dossl")
    BY <1>2, <1>4 DEF DoSsl, SetFlag
  <2>2. /\ "dossl" \in Needed <=> ~Given("e")
        /\ "http" = Following("dossl")
        /\ "dossl" \notin Before["dossl"]
        /\ Before["http"] = Before["dossl"] \cup {"dossl"}
    BY NeededIs, Follows, BeforeIs
  <2> QED BY <1>1, <2>1, <2>2, LookupDecides
<1>5. CASE HttpPort
  <2>1. \/ Step("http") /\ Given("p") /\ NoFetch
        \/ Step("http") /\ ~Given("p") /\ Fetch("http")
        \/ ~Given("p") /\ FetchFails("http")
    BY <1>2, <1>5 DEF HttpPort, SetPort
  <2>2. /\ "http" \in Needed <=> ~Given("p")
        /\ "log" = Following("http")
        /\ "http" \notin Before["http"]
        /\ Before["log"] = Before["http"] \cup {"http"}
    BY NeededIs, Follows, BeforeIs
  <2> QED BY <1>1, <2>1, <2>2, LookupDecides
<1>6. CASE LogPath
  <2>1. \/ Step("log") /\ Given("l") /\ NoFetch
        \/ Step("log") /\ ~Given("l") /\ Fetch("log")
        \/ ~Given("l") /\ FetchFails("log")
    BY <1>2, <1>6 DEF LogPath
  <2>2. /\ "log" \in Needed <=> ~Given("l")
        /\ "initlog" = Following("log")
        /\ "log" \notin Before["log"]
        /\ Before["initlog"] = Before["log"] \cup {"log"}
    BY NeededIs, Follows, BeforeIs
  <2> QED BY <1>1, <2>1, <2>2, LookupDecides
<1>7. CASE InitLog
  <2>1. CASE FopenFails
    BY <1>1, <2>1, LookupFails
  <2>2. CASE Step("initlog") /\ NoFetch
    <3>1. pc = "initlog" /\ pc' = "dir" /\ UNCHANGED <<streams, cause>>
      BY <2>2, Follows DEF Step, At, NoFetch
    <3>2. Asked' = Asked
      BY <1>1, <3>1, SameNeeds DEF Asked, Before
    <3> QED BY <1>1, <3>1, <3>2, SameNeeds DEF LookupInv, InMain
  <2> QED BY <1>7, <2>1, <2>2 DEF InitLog
<1>8. CASE ShowDir
  <2>1. CASE FetchFails("dir")
    BY <1>1, <2>1, LookupFails, NeededIs
  <2>2. CASE Step("dir") /\ Fetch("dir")
    <3>1. pc = "dir" /\ pc' = "daemon" /\ cause' = cause
      BY <2>2, Follows DEF Step, At
    <3>2. "dir" \in Needed /\ Has("dir") /\ streams' = streams + 1
      BY <2>2, NeededIs DEF Fetch
    <3>3. InMain'
      BY <3>1 DEF InMain
    <3> QED BY <1>1, <3>1, <3>2, <3>3, BeforeIs, LookupGoesOn
  <2> QED BY <1>8, <2>1, <2>2 DEF ShowDir
<1>9. CASE IsDaemon
  <2>1. \/ Step("daemon") /\ Given("d") /\ NoFetch
        \/ Step("daemon") /\ ~Given("d") /\ Fetch("daemon")
        \/ ~Given("d") /\ FetchFails("daemon")
    BY <1>2, <1>9 DEF IsDaemon, SetFlag
  <2>2. /\ "daemon" \in Needed <=> ~Given("d")
        /\ "up" = Following("daemon")
        /\ "daemon" \notin Before["daemon"]
        /\ Before["up"] = Before["daemon"] \cup {"daemon"}
    BY NeededIs, Follows, BeforeIs
  <2> QED BY <1>1, <2>1, <2>2, LookupDecides
<1> QED BY <1>3, <1>4, <1>5, <1>6, <1>7, <1>8, <1>9

\* A server that comes up has looked up what its command line leaves open and
\* nothing else, and has left one stream open for each; one that ends for
\* want of a key needed it (parse_config.c:13, 80-84, main.c:56-87).
THEOREM LookupsAreNeeded == Spec => []NeededOnly
<1>1. Init => LookupInv
  <2> SUFFICES ASSUME Init PROVE LookupInv
    OBVIOUS
  <2>1. pc = "options" /\ streams = 0 /\ cause = None /\ optind = 1
    BY DEF Init
  <2>2. Seen = {}
    BY <2>1 DEF Seen
  <2> QED BY <2>1, <2>2 DEF LookupInv, InMain, None
<1>2. IInv /\ LookupInv /\ [Next]_vars => LookupInv'
  <2> SUFFICES ASSUME IInv, LookupInv, [Next]_vars PROVE LookupInv'
    OBVIOUS
  <2>1. CASE UNCHANGED vars
    <3>1. UNCHANGED <<pc, argv, config, optind, streams, cause>>
      BY <2>1 DEF vars, input
    <3>2. Asked' = Asked
      BY <3>1, SameNeeds DEF Asked
    <3> QED BY <3>1, <3>2, SameNeeds DEF LookupInv, InMain, Seen
  <2> QED BY <2>1, LookupParse, LookupMain DEF Next
<1>3. LookupInv => NeededOnly
  <2> SUFFICES ASSUME LookupInv PROVE NeededOnly
    OBVIOUS
  <2>1. Before["up"] = {"https", "dossl", "http", "log", "dir", "daemon"}
    BY DEF Before
  <2>2. pc = "up" => Asked = Needed
    BY <2>1, NeededIs DEF Asked
  <2> QED BY <2>2 DEF LookupInv, NeededOnly, InMain
<1> QED BY <1>1, <1>2, <1>3, Invariance, PTL DEF Spec
=============================================================================
