------------------------------- MODULE Startup ------------------------------
(***************************************************************************)
(* How a server gets its settings: parse_option() of src/parse_option.c,   *)
(* GetConfig() of src/parse_config.c and main() up to Daemon().            *)
(*                                                                         *)
(* A setting comes from an option, or else from config.ini, which is       *)
(* opened and searched again for each key.  What GetConfig() returns is    *)
(* one static buffer, `info', so main() has to use a value before it asks  *)
(* for the next one.                                                       *)
(***************************************************************************)
EXTENDS Integers, Sequences, FiniteSets

CONSTANTS
  Texts,     \* what options and config.ini may give as a value
  Atoi,      \* the number atoi() makes of each
  Args,      \* options as getopt_long() returns them
  MaxArgs,   \* how many a command line has
  Configs    \* contents of config.ini, as sequences of lines

None == "NULL"
Keys == {"https", "dossl", "http", "log", "dir", "daemon"}
Flags == {"d", "e"}
Valued == {"p", "s", "l"}

ASSUME StartupAssumption ==
  /\ {"yes", "no", ""} \subseteq Texts /\ None \notin Texts
  /\ Atoi \in [Texts -> Int]
  /\ Args \subseteq [opt : Flags \cup {"bad"}, arg : {None}]
                      \cup [opt : Valued, arg : Texts]
  /\ MaxArgs \in Nat
  /\ Configs \subseteq Seq([key : Keys, value : Texts, comment : BOOLEAN])

VARIABLES
  pc,        \* what main() does next
  argv,      \* the command line
  optind,    \* index of its next option
  opts,      \* what parse_option() has stored
  config,    \* the lines of config.ini
  info,      \* the static buffer of getconfig()
  logp,      \* where main()'s logp points: None, "option" or "info"
  settings,  \* what main() has decided
  streams,   \* streams on config.ini left open
  cause      \* why the process ended: None, "option", "missing", "file"

input == <<argv, config>>
vars == <<pc, input, optind, opts, info, logp, settings, streams, cause>>

\* `-h', `-v', an unknown option and one without its value are all "bad":
\* each prints its text and ends the process with exit(1).
Init ==
  /\ argv \in UNION {[1..n -> Args] : n \in 0..MaxArgs}
  /\ config \in Configs
  /\ pc = "options" /\ optind = 1
  /\ opts = [d |-> FALSE, e |-> FALSE, p |-> None, s |-> None, l |-> None]
  /\ info = "" /\ logp = None
  /\ settings = [port |-> 80, sslport |-> 443, dossl |-> FALSE,
                 showdir |-> TRUE, daemon |-> FALSE, log |-> << >>]
  /\ streams = 0 /\ cause = None

-----------------------------------------------------------------------------
(* Control.                                                                *)

\* Mutant of Order: the log is opened after the next lookup.
Order_LogLate == <<"options", "https", "dossl", "http", "log", "dir",
                   "initlog", "daemon", "up">>

\* What main() does, in this order.
Order == <<"options", "https", "dossl", "http", "log", "initlog", "dir",
           "daemon", "up">>

Following(loc) == Order[1 + CHOOSE i \in 1..8 : Order[i] = loc]

At(loc) == pc = loc /\ UNCHANGED input
Step(loc) == At(loc) /\ pc' = Following(loc) /\ UNCHANGED <<optind, opts, cause>>

Exit(why) ==
  /\ pc' = "exited" /\ cause' = why
  /\ UNCHANGED <<optind, opts, logp, settings>>

-----------------------------------------------------------------------------
(* parse_option().                                                         *)

\* A later option overwrites the static buffer of an earlier one.
Store(a) ==
  [opts EXCEPT ![a.opt] = IF a.opt \in Flags THEN TRUE ELSE a.arg]

ParseOption ==
  /\ At("options") /\ optind <= Len(argv)
  /\ \/ /\ argv[optind].opt = "bad"
        /\ Exit("option")
     \/ /\ argv[optind].opt # "bad"
        /\ opts' = Store(argv[optind]) /\ optind' = optind + 1
        /\ UNCHANGED <<pc, logp, settings, cause>>
  /\ UNCHANGED <<info, streams>>

NoMoreOptions ==
  /\ Step("options") /\ optind > Len(argv)
  /\ UNCHANGED <<info, logp, settings, streams>>

-----------------------------------------------------------------------------
(* GetConfig().                                                            *)

\* The lines getconfig() stops at: the first one counts, and a line that
\* starts with `#' never does.
Matches(name) ==
  {i \in DOMAIN config : config[i].key = name /\ ~config[i].comment}

Has(name) == Matches(name) # {}

Value(name) ==
  config[CHOOSE i \in Matches(name) : \A j \in Matches(name) : i <= j].value

\* The file is opened, searched, and left open.
Fetch(name) ==
  /\ Has(name)
  /\ info' = Value(name) /\ streams' = streams + 1

NoFetch == UNCHANGED <<info, streams>>

\* Fopen() of config.ini or of the log fails and ends the process.
FopenFails == Exit("file") /\ NoFetch

\* The file cannot be opened, or does not have the key: the process ends.
FetchFails(name) ==
  \/ FopenFails
  \/ ~Has(name) /\ Exit("missing") /\ streams' = streams + 1 /\ UNCHANGED info

-----------------------------------------------------------------------------
(* main().                                                                 *)

Set(field, v) == settings' = [settings EXCEPT ![field] = v] /\ UNCHANGED logp

\* A port: the option's, or the value of `name'.
SetPort(loc, field, option, name) ==
  \/ Step(loc) /\ option # None /\ NoFetch /\ Set(field, Atoi[option])
  \/ Step(loc) /\ option = None /\ Fetch(name) /\ Set(field, Atoi[info'])
  \/ At(loc) /\ option = None /\ FetchFails(name)

SslPort == SetPort("https", "sslport", opts.s, "https")
HttpPort == SetPort("http", "port", opts.p, "http")

\* Mutant of SetFlag: `GetConfig(...) is "yes" || flag' asks in any case.
SetFlag_Asks(loc, field, flag) ==
  \/ Step(loc) /\ Fetch(loc) /\ Set(field, flag \/ info' = "yes")
  \/ At(loc) /\ FetchFails(loc)

\* A flag: set by an option, without a lookup, or by "yes".
SetFlag(loc, field, flag) ==
  \/ Step(loc) /\ flag /\ NoFetch /\ Set(field, TRUE)
  \/ Step(loc) /\ ~flag /\ Fetch(loc) /\ Set(field, info' = "yes")
  \/ At(loc) /\ ~flag /\ FetchFails(loc)

DoSsl == SetFlag("dossl", "dossl", opts.e)
IsDaemon == SetFlag("daemon", "daemon", opts.d)

\* logp keeps pointing to `info' when no option gives it.
LogPath ==
  \/ Step("log") /\ opts.l # None /\ logp' = "option" /\ NoFetch /\ UNCHANGED settings
  \/ Step("log") /\ opts.l = None /\ Fetch("log") /\ logp' = "info" /\ UNCHANGED settings
  \/ At("log") /\ opts.l = None /\ FetchFails("log")

\* strcat(tmpcwd, logp): every path is one below the working directory, that
\* of an option too, even if it starts with `/'.
InCwd(path) == <<"cwd", path>>

\* Mutant of InitLog: only a given path is opened.
InitLog_OptionOnly ==
  \/ /\ Step("initlog") /\ NoFetch
     /\ IF logp = "option" THEN Set("log", InCwd(opts.l)) ELSE UNCHANGED <<logp, settings>>
  \/ At("initlog") /\ FopenFails

\* initlog() opens the file that logp names by now.
InitLog ==
  \/ /\ Step("initlog") /\ NoFetch
     /\ Set("log", InCwd(IF logp = "info" THEN info ELSE opts.l))
  \/ At("initlog") /\ FopenFails

\* Only "no" hides directories.
ShowDir ==
  \/ Step("dir") /\ Fetch("dir") /\ Set("showdir", info' # "no")
  \/ At("dir") /\ FetchFails("dir")

Next ==
  \/ ParseOption \/ NoMoreOptions
  \/ SslPort \/ DoSsl \/ HttpPort \/ LogPath \/ InitLog \/ ShowDir \/ IsDaemon

Spec == Init /\ [][Next]_vars

-----------------------------------------------------------------------------
Locations == {Order[i] : i \in 1..9} \cup {"exited"}

Paths == {InCwd(t) : t \in Texts}

\* At "up" every setting has a value.
TypeOK ==
  /\ pc \in Locations
  /\ argv \in Seq(Args) /\ config \in Configs
  /\ optind \in 1..(Len(argv) + 1)
  /\ opts \in [d : BOOLEAN, e : BOOLEAN, p : Texts \cup {None},
               s : Texts \cup {None}, l : Texts \cup {None}]
  /\ info \in Texts
  /\ logp \in {None, "option", "info"}
  /\ settings \in [port : Int, sslport : Int, dossl : BOOLEAN,
                   showdir : BOOLEAN, daemon : BOOLEAN,
                   log : IF pc = "up" THEN Paths ELSE Paths \cup {<< >>}]
  /\ streams \in Nat
  /\ cause \in {None, "option", "missing", "file"}

\* The reference: what a reader of the README and of config.ini expects.
Given(c) == \E i \in DOMAIN argv : argv[i].opt = c

\* The value option c gives, the last one if there are several; else the
\* value of the key.
Chooses(c, name, v) ==
  \/ /\ ~Given(c) /\ v = Value(name)
  \/ \E i \in DOMAIN argv :
       /\ argv[i].opt = c /\ v = argv[i].arg
       /\ \A j \in DOMAIN argv : j > i => argv[j].opt # c

\* A server that comes up has the settings of its command line, and those of
\* config.ini where that says nothing: none is the value of another key,
\* although GetConfig() returns the same buffer each time, and the log is the
\* chosen path below the working directory (parse_config.c:28, main.c:47-88).
SettingsAsGiven ==
  pc = "up" =>
    /\ \E v \in Texts : Chooses("p", "http", v) /\ settings.port = Atoi[v]
    /\ \E v \in Texts : Chooses("s", "https", v) /\ settings.sslport = Atoi[v]
    /\ \E v \in Texts : Chooses("l", "log", v) /\ settings.log = InCwd(v)
    /\ settings.dossl = (Given("e") \/ Value("dossl") = "yes")
    /\ settings.daemon = (Given("d") \/ Value("daemon") = "yes")
    /\ settings.showdir = (Value("dir") # "no")

\* The keys the command line leaves to config.ini.
Needed ==
  {"dir"} \cup (IF Given("s") THEN {} ELSE {"https"})
          \cup (IF Given("e") THEN {} ELSE {"dossl"})
          \cup (IF Given("p") THEN {} ELSE {"http"})
          \cup (IF Given("l") THEN {} ELSE {"log"})
          \cup (IF Given("d") THEN {} ELSE {"daemon"})

\* Only those are looked up: a server comes up with one stream left open for
\* each of them, and ends for the lack of a key only if it is one of them
\* (parse_config.c:13, 80-84, main.c:56-87: ?: and || decide).
NeededOnly ==
  /\ pc = "up" => streams = Cardinality(Needed) /\ \A k \in Needed : Has(k)
  /\ cause = "missing" => \E k \in Needed : ~Has(k)
  /\ cause = "option" => Given("bad")
  /\ Given("bad") => pc \in {"options", "exited"} /\ streams = 0
=============================================================================
