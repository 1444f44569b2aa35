----------------------------- MODULE MCStartup ------------------------------
(* Instance of Startup for TLC. *)
EXTENDS Startup, FiniteSetsExt, SequencesExt

MCTexts == {"yes", "no", "", "8000", "4444", "access.log"}
MCAtoi == [t \in MCTexts |-> CASE t = "8000" -> 8000
                               [] t = "4444" -> 4444 [] OTHER -> 0]
MCArgs ==
  [opt : {"d", "e", "bad"}, arg : {None}]
    \cup {[opt |-> "p", arg |-> t] : t \in {"8000", "4444"}}
    \cup {[opt |-> "s", arg |-> "8000"], [opt |-> "l", arg |-> "yes"]}

Line(k, v) == [key |-> k, value |-> v, comment |-> FALSE]

\* A complete file, whose flags are "yes", "no" or empty.
Complete(ssl, dir, daemon) ==
  <<Line("daemon", daemon), Line("http", "8000"), Line("https", "4444"),
    Line("dir", dir), Line("dossl", ssl), Line("log", "access.log")>>

\* Or without one of its lines.
Files ==
  UNION {{f} \cup {RemoveAt(f, i) : i \in 1..6} :
           f \in {Complete(s, d, b) : s \in {"yes", "no"}, d \in {"yes", "no"},
                                      b \in {"", "yes"}}}

\* Or with a line before it: a comment, or a second value of a key.
MCConfigs ==
  Files \cup {<<l>> \o f : f \in Files,
                l \in {Line("http", "4444"), Line("log", "no"),
                       [key |-> "dir", value |-> "no", comment |-> TRUE]}}
=============================================================================
