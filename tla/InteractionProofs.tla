------------------------- MODULE InteractionProofs -------------------------
(***************************************************************************)
(* Proofs about Interaction: whatever the client sends and the files do,   *)
(* a worker implements Transaction.                                        *)
(***************************************************************************)
EXTENDS Interaction, SequenceTheorems, TLAPS

\* The channel the client connected for.
Promised == IF https THEN "tls" ELSE "plain"

(***************************************************************************)
(* The inductive invariant: the channel is the promised one until it       *)
(* breaks, and what has been sent is what comes before pc.                 *)
(***************************************************************************)
ChannelInv == chan = Promised \/ (https /\ chan = "broken")

SentInv ==
  /\ pc \notin {"body", "full", "done"} => out = <<>>
  /\ pc \in {"head", "body", "full"} => page \in Pages
  /\ pc \in {"body", "full"} =>
       \/ out = <<Part(page, Promised, "head")>>
       \/ out = <<>> /\ chan = "broken"

Inv == ChannelInv /\ SentInv

\* The steps that send nothing.
Silent ==
  \/ ReadRequest \/ SslPrepare \/ CheckMethod \/ ParseUri \/ Lstat
  \/ ServeDir \/ ReadHeaders \/ CheckStatic \/ OpenFile \/ CheckDynamic
  \/ CallDynamic \/ Exit

\* Those that send.
Sends == SendHead \/ SendBody \/ SendRest

\* What a silent step may do to the response.
LEMMA SilentStep ==
  ASSUME Silent
  PROVE  /\ end = "no" /\ UNCHANGED <<https, out>>
         /\ pc = "done" => pc' = "done"
         /\ pc # "done" => pc \notin {"head", "body", "full"}
         /\ pc' \in {"body", "full", "done"} => pc' = pc
         /\ pc' = "head" => pc' = pc \/ page' \in Pages
         /\ chan' = chan \/ (pc = "first" /\ https /\ chan' \in {"tls", "broken"})
<1> USE DEF Stay, fixed, client, files, worker, Go, Ends, Respond, At, Pages
<1>1. CASE ReadRequest
  BY <1>1 DEF ReadRequest, ReadLine
<1>2. CASE SslPrepare
  BY <1>2 DEF SslPrepare
<1>3. CASE CheckMethod
  BY <1>3 DEF CheckMethod
<1>4. CASE ParseUri
  BY <1>4 DEF ParseUri
<1>5. CASE Lstat
  BY <1>5 DEF Lstat
<1>6. CASE ServeDir
  BY <1>6 DEF ServeDir
<1>7. CASE ReadHeaders
  BY <1>7 DEF ReadHeaders, ReadLine
<1>8. CASE CheckStatic
  BY <1>8 DEF CheckStatic
<1>9. CASE OpenFile
  BY <1>9 DEF OpenFile
<1>10. CASE CheckDynamic
  BY <1>10 DEF CheckDynamic
<1>11. CASE CallDynamic
  BY <1>11 DEF CallDynamic
<1>12. CASE Exit
  BY <1>12 DEF Exit
<1> QED
  BY <1>1, <1>2, <1>3, <1>4, <1>5, <1>6, <1>7, <1>8, <1>9, <1>10, <1>11,
     <1>12 DEF Silent

\* Silent steps keep the invariant.
LEMMA SilentInv ==
  ASSUME Inv, Silent
  PROVE  Inv'
<1>1. ChannelInv'
  BY SilentStep DEF Inv, ChannelInv, Promised
<1>2. SentInv'
  <2>1. pc \notin {"head", "body", "full"}
    BY SilentStep
  <2>2. pc' \in {"body", "full", "done"} => pc = "done" /\ pc' = "done"
    BY SilentStep, <2>1
  <2>3. pc' = "head" => page' \in Pages
    BY SilentStep, <2>1
  <2> QED BY SilentStep, <2>2, <2>3 DEF Inv, SentInv
<1> QED BY <1>1, <1>2 DEF Inv

\* The second of two parts comes after the first.
LEMMA AppendPair ==
  ASSUME NEW x, NEW y
  PROVE  Append(<<x>>, y) = <<x, y>>
<1> DEFINE S == {x, y}
<1> DEFINE s == Append(<<x>>, y)
<1> DEFINE t == <<x, y>>
<1>1. <<x>> \in Seq(S) /\ y \in S /\ Len(<<x>>) = 1
  OBVIOUS
<1>2. s \in Seq(S) /\ Len(s) = 2 /\ s[1] = x /\ s[2] = y
  BY <1>1
<1>3. t \in Seq(S) /\ Len(t) = 2 /\ t[1] = x /\ t[2] = y
  OBVIOUS
<1> HIDE DEF S, s, t
<1>4. \A i \in 1..Len(s) : s[i] = t[i]
  BY <1>2, <1>3
<1>5. s = t
  BY <1>2, <1>3, <1>4, SeqEqual
<1> QED BY <1>5 DEF s, t

\* The steps of the client and the file system leave the worker alone.
LEMMA OthersStep ==
  ASSUME Send \/ Close \/ ChangeFile \/ UNCHANGED vars
  PROVE  UNCHANGED <<https, pc, chan, page, out, end>>
<1>1. CASE Send
  BY <1>1 DEF Send, worker, fixed
<1>2. CASE Close
  BY <1>2 DEF Close, worker, fixed
<1>3. CASE ChangeFile
  BY <1>3 DEF ChangeFile, worker, fixed
<1>4. CASE UNCHANGED vars
  BY <1>4 DEF vars, worker, fixed
<1> QED BY <1>1, <1>2, <1>3, <1>4

\* What the sending steps do to the response.
LEMMA SendStep ==
  ASSUME Inv, Sends
  PROVE  /\ Inv' /\ end = "no" /\ UNCHANGED https
         /\ \/ out' = out
            \/ /\ out = <<>> /\ page \in Pages /\ end' = "no"
               /\ out' = <<Part(page, Promised, "head")>>
            \/ /\ out = <<Part(page, Promised, "head")>> /\ page \in Pages
               /\ end' = "no"
               /\ out' = <<Part(page, Promised, "head"),
                           Part(page, Promised, "body")>>
<1> USE DEF Stay, fixed, Go, At
<1>1. CASE SendHead
  <2>1. /\ pc = "head" /\ end = "no" /\ out = <<>> /\ page \in Pages
        /\ UNCHANGED <<page, https>>
    BY <1>1 DEF SendHead, Inv, SentInv
  <2>2. \/ /\ chan # "broken" /\ chan' = chan /\ end' = "no"
           /\ pc' = "body" /\ out' = <<Part(page, chan, "head")>>
        \/ /\ https /\ chan' = "broken" /\ end' = "no" /\ pc' = "body"
           /\ out' = <<>>
        \/ end' # "no" /\ UNCHANGED <<out, chan, pc>>
    BY <1>1, <2>1 DEF SendHead, Write
  <2>3. chan # "broken" => chan = Promised
    BY DEF Inv, ChannelInv
  <2>4. Promised' = Promised
    BY <2>1 DEF Promised
  <2>5. ChannelInv'
    BY <2>1, <2>2, <2>3, <2>4 DEF Inv, ChannelInv
  <2>6. SentInv'
    <3>1. CASE pc' = "body"
      <4>1. \/ out' = <<Part(page', Promised', "head")>>
            \/ out' = <<>> /\ chan' = "broken"
        BY <2>1, <2>2, <2>3, <2>4, <3>1
      <4> QED BY <2>1, <3>1, <4>1 DEF SentInv
    <3>2. CASE pc' # "body"
      <4>1. pc' = "head" /\ out' = <<>>
        BY <2>1, <2>2, <3>2
      <4> QED BY <2>1, <4>1 DEF SentInv
    <3> QED BY <3>1, <3>2
  <2> QED BY <2>1, <2>2, <2>3, <2>5, <2>6 DEF Inv
<1>2. CASE SendBody \/ SendRest
  <2>1. /\ pc \in {"body", "full"} /\ end = "no" /\ page \in Pages
        /\ UNCHANGED <<page, https>>
    BY <1>2 DEF SendBody, SendRest, WriteBody, Ends, Inv, SentInv
  <2>2. chan # "broken" => /\ chan = Promised
                           /\ out = <<Part(page, Promised, "head")>>
    BY <2>1 DEF Inv, ChannelInv, SentInv
  <2>3. \/ /\ chan # "broken" /\ chan' = chan /\ end' = "no"
           /\ pc' = "done" /\ out' = Append(out, Part(page, chan, "body"))
        \/ https /\ chan' = "broken" /\ pc' = "done" /\ out' = out
        \/ chan' = chan /\ pc' = "done" /\ out' = out
        \/ UNCHANGED <<out, chan>> /\ pc' \in {pc, "full"}
    BY <1>2, <2>1 DEF SendBody, SendRest, WriteBody, Write, Ends
  <2>4. out = <<Part(page, Promised, "head")>> =>
          Append(out, Part(page, Promised, "body")) =
            <<Part(page, Promised, "head"), Part(page, Promised, "body")>>
    BY AppendPair
  <2>5. Promised' = Promised
    BY <2>1 DEF Promised
  <2>6. Inv'
    <3>1. ChannelInv'
      BY <2>1, <2>2, <2>3, <2>5 DEF Inv, ChannelInv
    <3>2. CASE pc' = "done"
      BY <3>1, <3>2 DEF Inv, SentInv
    <3>3. CASE pc' # "done"
      <4>1. UNCHANGED <<out, chan>> /\ pc' \in {"body", "full"}
        BY <2>1, <2>3, <3>3
      <4> QED BY <2>1, <2>5, <3>1, <4>1 DEF Inv, SentInv
    <3> QED BY <3>2, <3>3
  <2> QED BY <2>1, <2>2, <2>3, <2>4, <2>6
<1> QED BY <1>1, <1>2 DEF Sends

\* The invariant holds in every reachable state.
THEOREM Invariance == Spec => []Inv
<1>1. Init => Inv
  BY DEF Init, Inv, ChannelInv, SentInv, Promised
<1>2. Inv /\ [Next]_vars => Inv'
  <2> SUFFICES ASSUME Inv, [Next]_vars PROVE Inv'
    OBVIOUS
  <2>1. CASE Silent
    BY <2>1, SilentInv
  <2>2. CASE Sends
    BY <2>2, SendStep
  <2>3. CASE Send \/ Close \/ ChangeFile \/ UNCHANGED vars
    BY <2>3, OthersStep DEF Inv, ChannelInv, SentInv, Promised
  <2> QED BY <2>1, <2>2, <2>3 DEF Next, Work, Silent, Sends
<1> QED BY <1>1, <1>2, PTL DEF Spec

\* A worker implements Transaction: one response at most, on the promised
\* channel, head first, nothing after the end (mini_httpd_helper.c:608-726).
THEOREM Refinement == Spec => OneTransaction
<1>1. Init => T!TInit
  BY DEF Init, T!TInit, Channels
<1>2. Inv /\ [Next]_vars => [T!TNext]_(T!tvars)
  <2> SUFFICES ASSUME Inv, [Next]_vars PROVE [T!TNext]_(T!tvars)
    OBVIOUS
  <2>1. ASSUME end = "no", UNCHANGED <<https, out>>
        PROVE  [T!TNext]_(T!tvars)
    BY <2>1 DEF T!TNext, T!Finish, T!tvars
  <2>2. CASE Silent
    BY <2>1, <2>2, SilentStep
  <2>3. CASE Sends
    <3>1. end = "no" /\ UNCHANGED https
      BY <2>3, SendStep
    <3>2. CASE out' = out
      BY <2>1, <3>1, <3>2
    <3>3. CASE /\ out = <<>> /\ page \in Pages /\ end' = "no"
               /\ out' = <<Part(page, Promised, "head")>>
      <4>1. \E p \in Pages : out' = <<T!Part(p, Promised, "head")>>
        BY <3>3 DEF T!Part, Part
      <4> QED BY <3>1, <3>3, <4>1 DEF T!TNext, T!Begin, Promised
    <3>4. CASE /\ out = <<Part(page, Promised, "head")>> /\ page \in Pages
               /\ end' = "no"
               /\ out' = <<Part(page, Promised, "head"),
                           Part(page, Promised, "body")>>
      BY <3>1, <3>4 DEF T!TNext, T!Complete, T!Part, Part, Promised
    <3> QED BY <2>3, <3>2, <3>3, <3>4, SendStep
  <2>4. CASE Send \/ Close \/ ChangeFile \/ UNCHANGED vars
    BY <2>4, OthersStep DEF T!tvars
  <2> QED BY <2>2, <2>3, <2>4 DEF Next, Work, Silent, Sends
<1> QED BY <1>1, <1>2, Invariance, PTL DEF Spec, OneTransaction, T!TSpec

(***************************************************************************)
(* The worker as the "served" part of its client's connection.             *)
(***************************************************************************)

\* The page is sent when both parts are; a worker that has called
\* get_dynamic() or post_dynamic() still serves its client.
Served(ch) ==
  INSTANCE Connection
    WITH stage <- IF end \in {"no", "dynamic"} THEN "served" ELSE "over",
         sent <- IF Len(out) = 2 THEN {<<"page", out[2].channel>>} ELSE {},
         Promised <- ch

Serves(ch) ==
  /\ end = "no" /\ out = <<>>
  /\ [][Served(ch)!Give \/ Served(ch)!Leave]_(Served(ch)!cvars)

\* What a worker does is what module Connection allows between the fork of
\* the worker and its end: it gives one page at most and leaves, in this
\* order, and nothing else.  ServerProofs shows that a server whose workers
\* do this treats every client as Connection says (main.c:117-122,
\* mini_httpd_helper.c:608-726).
THEOREM WorkerServes ==
  \A ch \in Channels : Spec /\ ch = Promised => Serves(ch)
<1> SUFFICES ASSUME NEW ch \in Channels PROVE Spec /\ ch = Promised => Serves(ch)
  OBVIOUS
<1>1. [Next]_vars => Promised' = Promised
  BY SilentStep, OthersStep
     DEF Next, Work, Silent, Promised, SendHead, SendBody, SendRest, WriteBody,
         Stay, Ends, fixed
<1>2. Inv /\ ch = Promised /\ [Next]_vars /\ [T!TNext]_(T!tvars)
        => [Served(ch)!Give \/ Served(ch)!Leave]_(Served(ch)!cvars)
  <2> SUFFICES ASSUME Inv, ch = Promised, [Next]_vars, [T!TNext]_(T!tvars)
      PROVE  [Served(ch)!Give \/ Served(ch)!Leave]_(Served(ch)!cvars)
    OBVIOUS
  <2>1. end # "no" => end' = end
    BY SilentStep, SendStep, OthersStep DEF Next, Work, Silent, Sends
  <2>2. CASE T!Begin
    <3>1. end = "no" /\ end' = "no" /\ Len(out) = 0 /\ Len(out') = 1
      BY <2>2 DEF T!Begin
    <3> QED BY <3>1 DEF Served!cvars
  <2>3. CASE T!Complete
    <3>1. end = "no" /\ end' = "no" /\ Len(out) = 1 /\ Len(out') = 2
      BY <2>3 DEF T!Complete
    <3>2. out'[2].channel = ch
      BY <2>3 DEF T!Complete, T!Part, Promised
    <3> QED BY <3>1, <3>2 DEF Served!Give
  <2>4. CASE T!Finish
    BY <2>4 DEF T!Finish, Served!cvars, Served!Leave, Served!Step
  <2>5. CASE UNCHANGED T!tvars
    <3>1. out' = out /\ (end = "no" <=> end' = "no")
      BY <2>5 DEF T!tvars
    <3> QED BY <2>1, <3>1 DEF Served!cvars
  <2> QED BY <2>2, <2>3, <2>4, <2>5 DEF T!TNext
<1>3. Init => end = "no" /\ out = <<>>
  BY DEF Init
<1>4. ch = Promised /\ [Next]_vars => (ch = Promised)'
  BY <1>1
<1> QED
  BY <1>2, <1>3, <1>4, Invariance, Refinement, PTL
     DEF Spec, Serves, OneTransaction, T!TSpec
-----------------------------------------------------------------------------
(* Types.                                                                  *)

LEMMA TypeInit == Init => TypeOK
<1> SUFFICES ASSUME Init PROVE TypeOK OBVIOUS
<1>1. free \in Nat
  BY InteractionAssumption DEF Init
<1>2. chan \in Channels
  BY DEF Init, Channels
<1>3. out \in Seq([page : Pages, channel : Channels, part : {"head", "body"}])
  BY DEF Init
<1>4. /\ pos \in Nat /\ got \in Nat /\ changes \in Nat /\ torn \in BOOLEAN
      /\ gone = "here" /\ pc = "first" /\ line = "zero" /\ seen = "none"
      /\ page = "none" /\ end = "no"
      /\ req \in Requests /\ https \in BOOLEAN /\ dirShow \in BOOLEAN
      /\ file \in Files
  BY DEF Init, Files
<1> QED BY <1>1, <1>2, <1>3, <1>4 DEF TypeOK

\* The head of a message: a sequence of fields and pieces of fields.
LEMMA HeadType ==
  ASSUME TypeOK
  PROVE  /\ HeadLength \in Nat /\ HeadLength >= 2
         /\ \A i \in 2..(HeadLength - 1) : req.head[i - 1] \in {"field", "rest"}
<1>1. PICK n \in 0..MaxFields : req.head \in [1..n -> {"field", "rest"}]
  BY DEF TypeOK, Requests, Heads
<1>2. n \in Nat
  BY InteractionAssumption
<1>3. req.head \in Seq({"field", "rest"})
  BY <1>1, <1>2, SeqDef
<1>4. Len(req.head) \in Nat /\ \A i \in 1..Len(req.head) : req.head[i] \in {"field", "rest"}
  BY <1>3
<1> QED BY <1>4 DEF HeadLength

\* What its items are.
LEMMA ItemType ==
  ASSUME TypeOK
  PROVE  /\ \A i \in Nat : i > 0 => Item(i) \in {"request", "field", "rest", "blank", "body"}
         /\ Item(1) = "request" /\ Item(HeadLength) = "blank"
         /\ \A i \in Nat : i > 0 /\ Item(i) = "blank" => i = HeadLength
<1>1. /\ HeadLength \in Nat /\ HeadLength >= 2
      /\ \A i \in 2..(HeadLength - 1) : req.head[i - 1] \in {"field", "rest"}
  BY HeadType
<1> HIDE DEF HeadLength
<1>2. ASSUME NEW i \in Nat, i > 0
      PROVE  /\ Item(i) \in {"request", "field", "rest", "blank", "body"}
             /\ Item(i) = "blank" => i = HeadLength
  <2>1. i = 1 \/ i \in 2..(HeadLength - 1) \/ i = HeadLength \/ i > HeadLength
    BY <1>1, <1>2
  <2> QED BY <1>1, <2>1 DEF Item
<1>3. Item(1) = "request" /\ Item(HeadLength) = "blank"
  BY <1>1 DEF Item
<1> QED BY <1>2, <1>3

\* What the worker does not send.
LEMMA TypeSilent ==
  ASSUME TypeOK, Silent
  PROVE  TypeOK'
<1> USE DEF TypeOK, Stay, fixed, client, files, Go, Ends, Respond, At
<1>1. \A i \in Nat : i > 0 => Item(i) \in {"request", "field", "rest", "blank", "body"}
  BY ItemType
<1>2. ASSUME ReadLine
      PROVE  /\ got' \in Nat /\ pos' = pos /\ gone' = gone /\ torn' \in BOOLEAN
             /\ line' \in {"zero", "request", "field", "rest", "blank", "body", "torn"}
             /\ end' \in {"no", "exit", "crash", "pipe", "dynamic", "done"}
  <2>1. CASE /\ got < pos
             /\ got' = got + 1 /\ line' = Item(got + 1)
             /\ UNCHANGED <<client, end>>
    <3>1. Item(got + 1) \in {"request", "field", "rest", "blank", "body"}
      BY <1>1
    <3> QED BY <2>1, <3>1
  <2>2. CASE /\ line' = IF torn THEN "torn" ELSE line
             /\ torn' = FALSE
             /\ UNCHANGED <<got, pos, gone, end>>
    BY <2>2
  <2>3. CASE /\ end' = "exit"
             /\ UNCHANGED <<got, line, client>>
    BY <2>3
  <2> QED BY <1>2, <2>1, <2>2, <2>3 DEF ReadLine
<1>3. CASE ReadRequest
  BY <1>2, <1>3 DEF ReadRequest
<1>4. CASE SslPrepare
  BY <1>4 DEF SslPrepare, Channels
<1>5. CASE CheckMethod
  BY <1>5 DEF CheckMethod, Pages
<1>6. CASE ParseUri
  BY <1>6 DEF ParseUri
<1>7. CASE Lstat
  BY <1>7 DEF Lstat, Pages
<1>8. CASE ServeDir
  BY <1>8 DEF ServeDir, Pages
<1>9. CASE ReadHeaders
  BY <1>2, <1>9 DEF ReadHeaders
<1>10. CASE CheckStatic
  BY <1>10 DEF CheckStatic, Pages
<1>11. CASE OpenFile
  BY <1>11 DEF OpenFile, Pages
<1>12. CASE CheckDynamic
  BY <1>12 DEF CheckDynamic, Pages
<1>13. CASE CallDynamic
  BY <1>13 DEF CallDynamic
<1>14. CASE Exit
  BY <1>14 DEF Exit
<1> QED
  BY <1>3, <1>4, <1>5, <1>6, <1>7, <1>8, <1>9, <1>10, <1>11, <1>12, <1>13,
     <1>14 DEF Silent

LEMMA TypeSend ==
  ASSUME TypeOK, Inv, Sends
  PROVE  TypeOK'
<1> USE DEF Sends
<1>1. page \in Pages /\ UNCHANGED <<fixed, client, files, got, line, seen, free, page>>
      /\ pc' \in {"head", "body", "full", "done"}
  BY DEF SendHead, SendBody, SendRest, WriteBody, Write, Stay, Go, Ends, At, Inv, SentInv
<1>2. \/ UNCHANGED <<out, chan>> \/ (chan' = "broken" /\ out' = out)
      \/ /\ chan' = chan /\ chan \in Channels
         /\ \E name \in {"head", "body"} : out' = Append(out, Part(page, chan, name))
  BY DEF SendHead, SendBody, SendRest, WriteBody, Write, Ends, TypeOK
<1>3. end' \in {"no", "exit", "crash", "pipe", "dynamic", "done"}
  BY DEF SendHead, SendBody, SendRest, WriteBody, Write, Ends, At, TypeOK
<1>4. out' \in Seq([page : Pages, channel : Channels, part : {"head", "body"}])
  <2> DEFINE P == [page : Pages, channel : Channels, part : {"head", "body"}]
  <2>1. CASE out' = out
    BY <2>1 DEF TypeOK
  <2>2. ASSUME chan \in Channels, NEW name \in {"head", "body"},
               out' = Append(out, Part(page, chan, name))
        PROVE  out' \in Seq(P)
    <3>1. Part(page, chan, name) \in P
      BY <1>1, <2>2 DEF Part
    <3>2. out \in Seq(P)
      BY DEF TypeOK
    <3> HIDE DEF P
    <3> QED BY <2>2, <3>1, <3>2
  <2> QED BY <1>2, <2>1, <2>2
<1> QED BY <1>1, <1>2, <1>3, <1>4 DEF TypeOK, fixed, client, files

LEMMA TypeOthers ==
  ASSUME TypeOK, Send \/ Close \/ ChangeFile \/ UNCHANGED vars
  PROVE  TypeOK'
<1> USE DEF TypeOK, fixed, client, files, worker
<1>1. CASE Send
  BY <1>1 DEF Send
<1>2. CASE Close
  <2>1. torn' \in BOOLEAN
    <3>1. (pos < MessageLength) \in BOOLEAN
      OBVIOUS
    <3>2. torn' \in {FALSE, pos < MessageLength}
      BY <1>2 DEF Close
    <3> QED BY <3>1, <3>2, Zenon
  <2>2. gone' \in {"closed", "reset"} /\ UNCHANGED <<pos, fixed, files, worker>>
    BY <1>2 DEF Close
  <2>3. gone' \in {"here", "closed", "reset"}
    BY <2>2
  <2> QED BY <2>1, <2>2, <2>3
<1>3. CASE ChangeFile
  BY <1>3 DEF ChangeFile
<1>4. CASE UNCHANGED vars
  BY <1>4 DEF vars
<1> QED BY <1>1, <1>2, <1>3, <1>4

\* Every variable keeps its type, for clients and files of any kind.
THEOREM TypeCorrect == Spec => []TypeOK
<1>1. TypeOK /\ Inv /\ [Next]_vars => TypeOK'
  BY TypeSilent, TypeSend, TypeOthers DEF Next, Work, Silent, Sends
<1> QED BY <1>1, TypeInit, Invariance, PTL DEF Spec
-----------------------------------------------------------------------------
(* How much of the message an http worker has taken.                       *)

\* Up to and with the first item that reads like a blank line, or less.
HeadTaken ==
  /\ got \in 1..HeadLength
  /\ got = HeadLength \/ Item(got) = "rest"
  /\ \A i \in 1..(got - 1) : Item(i) # "rest"
HeadOpen ==
  /\ got < HeadLength /\ ~ReadsBlank(line)
  /\ \A i \in 1..got : Item(i) # "rest"

HeadInv ==
  ~https =>
    /\ pc = "first" => got = 0
    /\ pc \in {"first", "method", "uri", "lstat", "dir", "dynamic", "headers"} =>
         HeadOpen
    /\ pc \in {"static", "open", "cgi"} => HeadTaken
    /\ pc \in {"head", "body", "full", "done"} /\ page = "file" => HeadTaken
    /\ end = "dynamic" => HeadTaken
    /\ (\E i \in 1..Len(out) : out[i].page = "file") => HeadTaken

LEMMA HeadInit == Init => HeadInv
<1> SUFFICES ASSUME Init PROVE HeadInv OBVIOUS
<1>1. HeadLength \in Nat /\ HeadLength >= 2
  BY TypeInit, HeadType
<1>2. pc = "first" /\ end = "no" /\ out = <<>> /\ got = 0 /\ line = "zero"
  BY DEF Init
<1>3. HeadOpen
  BY <1>1, <1>2 DEF HeadOpen, ReadsBlank
<1> QED BY <1>2, <1>3 DEF HeadInv

\* The message does not change.
LEMMA SameHead ==
  ASSUME UNCHANGED <<req, got>>
  PROVE  HeadTaken' = HeadTaken /\ (line' = line => HeadOpen' = HeadOpen)
BY DEF HeadTaken, HeadOpen, HeadLength, Item

\* A read that finds no blank line leaves something of the head.
LEMMA HeadRead ==
  ASSUME TypeOK, ReadLine, UNCHANGED fixed, HeadOpen
  PROVE  IF ReadsBlank(line') THEN HeadTaken' ELSE HeadOpen'
<1>1. HeadLength \in Nat /\ HeadLength >= 2 /\ got \in Nat
  BY HeadType DEF TypeOK
<1>2. CASE got' = got + 1 /\ line' = Item(got + 1)
  <2>1. got' \in 1..HeadLength /\ \A i \in 1..(got' - 1) : Item(i) # "rest"
    BY <1>1, <1>2 DEF HeadOpen
  <2>2. line' = Item(got')
    BY <1>2
  <2>3. PICK g \in 1..HeadLength : g = got'
    BY <2>1
  <2>4. (Item(g) = "blank" => g = HeadLength) /\ Item(HeadLength) = "blank"
    BY <1>1, <2>3, ItemType
  <2>5. CASE ReadsBlank(line')
    <3>1. g = HeadLength \/ Item(g) = "rest"
      BY <2>2, <2>3, <2>4, <2>5 DEF ReadsBlank
    <3>2. got' = HeadLength \/ Item(got') = "rest"
      BY <2>3, <3>1
    <3>3. (got \in 1..HeadLength)'
      BY <2>1 DEF HeadLength, fixed
    <3>4. (got = HeadLength \/ Item(got) = "rest")'
      BY <3>2 DEF Item, HeadLength, fixed
    <3>5. (\A i \in 1..(got - 1) : Item(i) # "rest")'
      BY <2>1 DEF Item, HeadLength, fixed
    <3> QED BY <2>5, <3>3, <3>4, <3>5 DEF HeadTaken
  <2>6. CASE ~ReadsBlank(line')
    <3>1. g # HeadLength /\ Item(g) # "rest"
      BY <2>2, <2>3, <2>4, <2>6 DEF ReadsBlank
    <3>2. got' < HeadLength
      BY <1>1, <2>3, <3>1
    <3>3. \A i \in 1..g : Item(i) # "rest"
      <4>1. \A i \in 1..(g - 1) : Item(i) # "rest"
        BY <2>1, <2>3
      <4>2. g \in Nat /\ \A i \in 1..g : i = g \/ i \in 1..(g - 1)
        BY <1>1
      <4> QED BY <3>1, <4>1, <4>2
    <3>4. (\A i \in 1..got : Item(i) # "rest")'
      BY <2>3, <3>3 DEF Item, HeadLength, fixed
    <3> QED BY <2>6, <3>2, <3>4 DEF HeadOpen, ReadsBlank, HeadLength, fixed
  <2> QED BY <2>5, <2>6
<1>3. CASE got' = got /\ line' \in {"torn", line}
  <2>1. ~ReadsBlank(line')
    BY <1>3 DEF HeadOpen, ReadsBlank
  <2> QED BY <1>3, <2>1 DEF HeadOpen, Item, HeadLength, fixed
<1> QED BY <1>2, <1>3 DEF ReadLine

LEMMA HeadSilent ==
  ASSUME TypeOK, Inv, HeadInv, Silent
  PROVE  HeadInv'
<1>1. /\ UNCHANGED <<https, out, req>> /\ end = "no"
      /\ pc' \in {"body", "full", "done"} => pc' = pc
  BY SilentStep DEF Silent, ReadRequest, SslPrepare, CheckMethod, ParseUri, Lstat,
     ServeDir, ReadHeaders, CheckStatic, OpenFile, CheckDynamic, CallDynamic, Exit,
     Stay, fixed
<1> SUFFICES ASSUME ~https PROVE HeadInv'
  BY <1>1 DEF HeadInv
<1> USE DEF At, Go, Respond, Ends, Stay, fixed
<1>2. got' = got => HeadTaken' = HeadTaken /\ (line' = line => HeadOpen' = HeadOpen)
  BY <1>1, SameHead
<1>3. CASE ReadRequest
  <2>1. got = 0 /\ HeadOpen /\ pc' = "method" /\ end' \in {"no", "exit"} /\ out = <<>>
    BY <1>3 DEF ReadRequest, ReadLine, HeadInv, Inv, SentInv
  <2>2. IF ReadsBlank(line') THEN HeadTaken' ELSE HeadOpen'
    BY <1>3, <2>1, HeadRead DEF ReadRequest
  <2>3. ~ReadsBlank(line')
    BY <1>3, <2>1, ItemType DEF ReadRequest, ReadLine, ReadsBlank, HeadOpen
  <2> QED BY <1>1, <2>1, <2>2, <2>3 DEF HeadInv
<1>4. CASE ReadHeaders
  <2>1. /\ HeadOpen /\ end' \in {"no", "exit"} /\ out = <<>>
        /\ pc' \in (IF ReadsBlank(line') THEN {"static", "cgi"} ELSE {"headers"})
    BY <1>4 DEF ReadHeaders, ReadLine, HeadInv, Inv, SentInv
  <2>2. IF ReadsBlank(line') THEN HeadTaken' ELSE HeadOpen'
    BY <1>4, <2>1, HeadRead DEF ReadHeaders
  <2> QED BY <1>1, <2>1, <2>2 DEF HeadInv
<1>5. CASE CheckMethod \/ ParseUri \/ Lstat \/ ServeDir \/ CheckDynamic
  <2>1. UNCHANGED <<got, line>> /\ out = <<>> /\ HeadOpen
        /\ pc' \in {"method", "uri", "lstat", "dir", "headers", "dynamic", "head"}
                     \cup (IF https THEN {"static", "cgi"} ELSE {})
        /\ (pc' = "head" => page' \in {"501", "404", "listing", "403"})
        /\ end' \in {"no", "exit", "crash"}
    BY <1>1, <1>5 DEF CheckMethod, ParseUri, Lstat, ServeDir, CheckDynamic, Inv, SentInv,
       HeadInv
  <2> QED BY <1>1, <1>2, <2>1 DEF HeadInv
<1>6. CASE CheckStatic \/ OpenFile
  <2>1. UNCHANGED <<got, line>> /\ out = <<>> /\ HeadTaken
        /\ pc' \in {"static", "open", "head"} /\ end' \in {"no", "exit", "crash"}
    BY <1>1, <1>6 DEF CheckStatic, OpenFile, Inv, SentInv, HeadInv
  <2> QED BY <1>1, <1>2, <2>1 DEF HeadInv
<1>7. CASE CallDynamic
  BY <1>1, <1>2, <1>7 DEF CallDynamic, HeadInv
<1>8. CASE Exit
  BY <1>1, <1>2, <1>8 DEF Exit, HeadInv
<1>9. CASE SslPrepare
  BY <1>9 DEF SslPrepare
<1> QED BY <1>3, <1>4, <1>5, <1>6, <1>7, <1>8, <1>9 DEF Silent

LEMMA HeadSend ==
  ASSUME Inv, HeadInv, Sends
  PROVE  HeadInv'
<1>1. /\ UNCHANGED <<req, https, got, line, page>> /\ pc \in {"head", "body", "full"}
      /\ pc' \in {"head", "body", "full", "done"} /\ end' # "dynamic"
  BY DEF Sends, SendHead, SendBody, SendRest, WriteBody, Write, Ends, Go, At, Stay, fixed
<1>2. \A i \in 1..Len(out') : out'[i].page = "file" =>
        page = "file" \/ \E j \in 1..Len(out) : out[j].page = "file"
  BY SendStep DEF Part
<1> QED BY <1>1, <1>2, SameHead DEF HeadInv

LEMMA HeadOthers ==
  ASSUME HeadInv, Send \/ Close \/ ChangeFile \/ UNCHANGED vars
  PROVE  HeadInv'
<1>1. UNCHANGED <<req, https, got, line, pc, page, out, end>>
  BY DEF Send, Close, ChangeFile, vars, fixed, worker
<1> QED BY <1>1, SameHead DEF HeadInv

\* A worker that has sent a file or calls a program on http has taken the
\* header to the first line that reads like a blank one, which is the blank
\* line unless a longer line was cut just there, and nothing of the body
\* (mini_httpd_helper.c:63, 674-677, 702-723; mini_httpd_wrap.c:583).
THEOREM HeadIsConsumed == Spec => []HeadConsumed
<1>1. TypeOK /\ Inv /\ HeadInv /\ [Next]_vars => HeadInv'
  BY HeadSilent, HeadSend, HeadOthers DEF Next, Work, Silent, Sends
<1>2. HeadInv => HeadConsumed
  BY DEF HeadInv, HeadTaken, HeadConsumed
<1> QED BY <1>1, <1>2, HeadInit, TypeCorrect, Invariance, PTL DEF Spec
-----------------------------------------------------------------------------
(* The answer a request deserves.                                          *)

\* Nothing has disturbed the worker.
Calm == ~closed /\ changes = 0 /\ free > 1

PageHead(p) == Part(p, Promised, "head")
PageBody(p) == Part(p, Promised, "body")

\* What the worker knows at each point, and what it has done by the end.
Known ==
  /\ pc \in {"uri", "lstat", "dir", "headers", "static", "open", "dynamic", "cgi"}
       => req.method # "other"
  /\ pc \in {"headers", "static", "open", "dynamic", "cgi"}
       => seen = file /\ file # "absent" /\ ~(file \in Directories /\ dirShow)
  /\ pc = "dir" => file \in Directories /\ dirShow
  /\ pc \in {"static", "open"} => ~req.cgi
  /\ pc = "open" => file \notin Directories \cup {"private"}
  /\ pc \in {"dynamic", "cgi"} => req.cgi
  /\ pc \in {"headers", "cgi"} /\ req.cgi => file = "program"

Answering ==
  /\ chan = Promised
  /\ pc = "method" => line = "request"
  /\ pc \in {"head", "body", "full", "done"} => page = Deserved
  /\ pc \in {"head", "body", "full"} /\ page = "file" => seen = file /\ file # "empty"
  /\ pc \in {"body", "full"} => out = <<PageHead(page)>>
  /\ pc = "done" => page \in Pages /\ out = <<PageHead(page), PageBody(page)>>

\* Only over https can the first read bring less than the request line from a
\* client that is there.
CalmInv ==
  /\ pc = "first" => got = 0
  /\ ~https /\ pc # "first" /\ ~closed => got > 0
  /\ Calm /\ got > 0 => Known /\ Answering /\ (end # "no" => AnsweredAsDeserved)

LEMMA CalmInit == Init => CalmInv
BY DEF Init, CalmInv, Known, Answering, Promised

\* What is deserved does not change under a calm worker.
LEMMA CalmBefore ==
  ASSUME TypeOK, Silent \/ Sends, Calm'
  PROVE  /\ Calm /\ UNCHANGED <<req, https, dirShow, file, changes, gone, closed>>
         /\ Deserved' = Deserved /\ Promised' = Promised
<1>1. UNCHANGED <<req, https, dirShow, file, changes, gone>>
  BY DEF Silent, ReadRequest, SslPrepare, CheckMethod, ParseUri, Lstat, ServeDir,
     ReadHeaders, CheckStatic, OpenFile, CheckDynamic, CallDynamic, Exit, Sends,
     SendHead, SendBody, SendRest, ReadLine, Stay, fixed, client, files
<1>2. free \in Nat /\ (free' = free \/ free' = free - 1)
  BY DEF TypeOK, Silent, ReadRequest, SslPrepare, CheckMethod, ParseUri, Lstat, ServeDir,
     ReadHeaders, CheckStatic, OpenFile, CheckDynamic, CallDynamic, Exit, Sends,
     SendHead, SendBody, SendRest, WriteBody, Ends, Stay
<1> QED BY <1>1, <1>2 DEF Calm, closed, Deserved, Promised

\* A worker that ends now has answered, or loses the answer.
LEMMA CalmEnd ==
  ASSUME UNCHANGED <<req, https, dirShow, file, out, pc>>,
         \/ out = <<>> /\ end' = "dynamic" /\ Deserved = "dynamic"
         \/ /\ Deserved # "dynamic"
            /\ out = <<PageHead(Deserved), PageBody(Deserved)>>
         \/ Unserved /\ out = <<>> /\ end' \in {"exit", "crash"}
  PROVE  AnsweredAsDeserved'
<1>1. Deserved' = Deserved /\ Unserved' = Unserved
  BY DEF Deserved, Unserved
<1> QED
  BY <1>1 DEF AnsweredAsDeserved, Answered, PageHead, PageBody, Promised

LEMMA CalmSilent ==
  ASSUME TypeOK, Inv, CalmInv, Silent
  PROVE  CalmInv'
<1> USE DEF At, Go, Respond, Ends, Stay
<1>1. pc' = "first" => got' = 0
  BY DEF CalmInv, Silent, ReadRequest, SslPrepare, CheckMethod, ParseUri, Lstat, ServeDir,
     ReadHeaders, CheckStatic, OpenFile, CheckDynamic, CallDynamic, Exit
<1>2. ~https' /\ pc' # "first" /\ ~closed' => got' > 0
  <2>1. CASE SslPrepare
    BY <2>1 DEF SslPrepare, fixed
  <2>2. CASE ReadRequest \/ ReadHeaders
    BY <2>2 DEF ReadRequest, ReadHeaders, ReadLine, closed, CalmInv, TypeOK, client, fixed
  <2>3. CASE ~SslPrepare /\ ~ReadRequest /\ ~ReadHeaders
    <3>1. UNCHANGED <<https, closed, got>> /\ pc # "first"
      BY <2>3 DEF Silent, CheckMethod, ParseUri, Lstat, ServeDir, CheckStatic, OpenFile,
         CheckDynamic, CallDynamic, Exit, fixed, client, closed
    <3> QED BY <3>1 DEF CalmInv
  <2> QED BY <2>1, <2>2, <2>3
<1> SUFFICES ASSUME Calm', got' > 0
    PROVE  (Known /\ Answering /\ (end # "no" => AnsweredAsDeserved))'
  BY <1>1, <1>2 DEF CalmInv
<1>3. /\ Calm /\ UNCHANGED <<req, https, dirShow, file, changes, gone, closed>>
      /\ Deserved' = Deserved /\ Promised' = Promised
  BY CalmBefore
<1>4. gone = "here" /\ changes = 0 /\ free' > 1 /\ free > 1 /\ free > 0 /\ free # 1
      /\ Logs /\ (file # "dangling" => ~StatFails)
  BY <1>3 DEF Calm, closed, TypeOK, Logs, StatFails
<1>5. end = "no" /\ out' = out
  BY SilentStep
<1>6. CASE ReadRequest
  <2>1. got = 0 /\ pc' = "method" /\ line' = Item(got + 1) /\ end' = "no" /\ chan' = chan
    BY <1>4, <1>5, <1>6 DEF ReadRequest, ReadLine, CalmInv
  <2>2. line' = "request" /\ chan' = Promised
    BY <1>6, <2>1, ItemType DEF ReadRequest, Inv, ChannelInv
  <2> QED BY <1>3, <2>1, <2>2 DEF Known, Answering
<1>7. CASE SslPrepare
  <2>1. got = 0 /\ https
    BY <1>7 DEF SslPrepare, CalmInv
  <2>2. pc' = "method" /\ line' = "request" /\ end' = "no" /\ chan' = "tls"
    BY <1>5, <1>7, <2>1 DEF SslPrepare
  <2> QED BY <1>3, <2>1, <2>2 DEF Known, Answering, Promised
<1> SUFFICES ASSUME pc # "first"
    PROVE  (Known /\ Answering /\ (end # "no" => AnsweredAsDeserved))'
  BY <1>6, <1>7 DEF Silent, ReadRequest, SslPrepare, CheckMethod, ParseUri, Lstat,
     ServeDir, ReadHeaders, CheckStatic, OpenFile, CheckDynamic, CallDynamic, Exit
<1>8. got > 0
  <2>1. CASE ReadHeaders
    BY <1>3, <2>1 DEF ReadHeaders, CalmInv, Calm
  <2>2. CASE ~ReadHeaders
    BY <2>2 DEF Silent, ReadRequest, SslPrepare, CheckMethod, ParseUri, Lstat,
       ServeDir, CheckStatic, OpenFile, CheckDynamic, CallDynamic, Exit
  <2> QED BY <2>1, <2>2
<1>9. Known /\ Answering
  BY <1>3, <1>8 DEF CalmInv
<1>10. CASE CheckMethod
  <2>1. /\ end' = "no" /\ chan' = chan
        /\ \/ pc' = "uri" /\ req.method # "other"
           \/ pc' = "head" /\ page' = "501" /\ req.method = "other"
    BY <1>4, <1>5, <1>9, <1>10 DEF CheckMethod, Answering
  <2> QED BY <1>3, <1>5, <1>9, <2>1 DEF Known, Answering, Deserved
<1>11. CASE ParseUri
  <2>1. CASE req.fits
    <3>1. /\ end' = "no" /\ chan' = chan /\ pc' = "lstat" /\ pc = "uri"
      BY <1>4, <1>5, <1>11, <2>1 DEF ParseUri, TypeOK
    <3> QED BY <1>3, <1>9, <3>1 DEF Known, Answering
  <2>2. CASE ~req.fits
    <3>1. \/ /\ UNCHANGED <<pc, chan, seen, line, page>> /\ out = <<>>
             /\ end' \in {"exit", "crash"} /\ Unserved
          \/ end' = "no" /\ chan' = chan /\ pc' = "lstat" /\ pc = "uri"
      BY <1>5, <1>11, <2>2 DEF ParseUri, Unserved, Inv, SentInv
    <3>2. CASE end' = "no" /\ chan' = chan /\ pc' = "lstat" /\ pc = "uri"
      BY <1>3, <1>9, <3>2 DEF Known, Answering
    <3>3. CASE UNCHANGED <<pc, chan, seen, line, page>> /\ out = <<>>
               /\ end' \in {"exit", "crash"} /\ Unserved
      <4>1. AnsweredAsDeserved'
        BY <1>3, <1>5, <3>3, CalmEnd
      <4> QED BY <1>3, <1>5, <1>9, <3>3, <4>1, <1>11 DEF ParseUri, Known, Answering
    <3> QED BY <3>1, <3>2, <3>3
  <2> QED BY <2>1, <2>2
<1>12. CASE Lstat
  <2>1. /\ end' = "no" /\ chan' = chan /\ pc = "lstat" /\ seen' = file
        /\ \/ pc' = "head" /\ page' = "404" /\ file = "absent"
           \/ pc' = "dir" /\ file \in Directories /\ dirShow
           \/ /\ pc' \in {"dynamic", "static", "headers"}
              /\ file # "absent" /\ ~(file \in Directories /\ dirShow)
              /\ pc' = "dynamic" <=> req.cgi
    BY <1>5, <1>12 DEF Lstat
  <2> QED BY <1>3, <1>9, <2>1 DEF Known, Answering, Deserved
<1>13. CASE ServeDir
  <2>1. pc = "dir" /\ file \in Directories /\ dirShow /\ req.method # "other"
        /\ out = <<>> /\ file # "absent"
    BY <1>9, <1>13 DEF ServeDir, Known, Inv, SentInv, Directories
  <2>2. Deserved = "listing"
    BY <2>1 DEF Deserved
  <2>3. \/ end' = "no" /\ chan' = chan /\ pc' = "head" /\ page' = "listing"
        \/ /\ UNCHANGED <<pc, chan, seen, line, page>> /\ end' \in {"exit", "crash"}
           /\ ~req.cgi \/ file # "dir"
    BY <1>4, <1>5, <1>13, <2>1 DEF ServeDir, Directories
  <2>4. CASE end' = "no" /\ chan' = chan /\ pc' = "head" /\ page' = "listing"
    BY <1>3, <1>9, <2>1, <2>2, <2>4 DEF Known, Answering
  <2>5. CASE UNCHANGED <<pc, chan, seen, line, page>> /\ end' \in {"exit", "crash"}
             /\ (~req.cgi \/ file # "dir")
    <3>1. AnsweredAsDeserved'
      BY <1>3, <1>5, <2>1, <2>2, <2>5, CalmEnd DEF Unserved
    <3> QED BY <1>3, <1>9, <2>1, <2>5, <3>1 DEF Known, Answering
  <2> QED BY <2>3, <2>4, <2>5
<1>14. CASE ReadHeaders
  <2>1. /\ end' = "no" /\ UNCHANGED <<chan, seen>> /\ pc = "headers"
        /\ pc' \in {"headers", "cgi", "static"}
        /\ pc' = "cgi" => req.cgi
        /\ pc' = "static" => ~req.cgi
    BY <1>4, <1>5, <1>14 DEF ReadHeaders, ReadLine
  <2> QED BY <1>3, <1>9, <2>1 DEF Known, Answering
<1>15. CASE CheckStatic
  <2>1. /\ pc = "static" /\ seen = file /\ file # "absent" /\ ~req.cgi
        /\ req.method # "other" /\ ~(file \in Directories /\ dirShow) /\ file \in Files
    BY <1>9, <1>15 DEF CheckStatic, Known, TypeOK
  <2>2. /\ end' = "no" /\ UNCHANGED <<chan, seen>>
        /\ \/ pc' = "head" /\ page' = "403" /\ file \in Directories \cup {"private"}
           \/ pc' = "open" /\ file \notin Directories \cup {"private"}
    BY <1>4, <1>5, <1>15, <2>1 DEF CheckStatic, IsRegular, OwnerReads, Files
  <2>3. page' = "403" /\ pc' = "head" => page' = Deserved
    BY <2>1, <2>2 DEF Deserved
  <2> QED BY <1>3, <1>9, <2>1, <2>2, <2>3 DEF Known, Answering
<1>16. CASE OpenFile
  <2>1. /\ pc = "open" /\ seen = file /\ req.method # "other" /\ ~req.cgi
        /\ file \in {"regular", "empty", "foreign", "program"} /\ out = <<>>
    BY <1>9, <1>16 DEF OpenFile, Known, TypeOK, Files, Inv, SentInv
  <2>2. CASE Opens(file) /\ Maps(file)
    <3>1. /\ end' = "no" /\ chan' = chan /\ seen' = file /\ pc' = "head" /\ page' = "file"
          /\ file \in {"regular", "program"}
      BY <1>4, <1>5, <1>16, <2>1, <2>2 DEF OpenFile, Opens, Maps
    <3>2. Deserved = "file"
      BY <2>1, <3>1 DEF Deserved, Directories
    <3> QED BY <1>3, <1>9, <2>1, <3>1, <3>2 DEF Known, Answering
  <2>3. CASE ~(Opens(file) /\ Maps(file))
    <3>1. UNCHANGED <<pc, chan, seen, line, page>> /\ end' = "exit" /\ Unserved
      BY <1>4, <1>16, <2>1, <2>3 DEF OpenFile, Opens, Maps, Unserved
    <3>2. AnsweredAsDeserved'
      BY <1>3, <1>5, <2>1, <3>1, CalmEnd
    <3> QED BY <1>3, <1>9, <2>1, <3>1, <3>2 DEF Known, Answering
  <2> QED BY <2>2, <2>3
<1>17. CASE CheckDynamic
  <2>1. /\ end' = "no" /\ UNCHANGED <<chan, seen>> /\ pc = "dynamic"
        /\ \/ pc' = "head" /\ page' = "403" /\ ~OwnerRuns(seen)
           \/ pc' \in {"cgi", "headers"} /\ OwnerRuns(seen)
    BY <1>5, <1>17 DEF CheckDynamic
  <2>2. ~OwnerRuns(seen) => Deserved = "403"
    BY <1>9, <2>1 DEF Known, Deserved, OwnerRuns
  <2> QED BY <1>3, <1>9, <2>1, <2>2 DEF Known, Answering, OwnerRuns
<1>18. CASE CallDynamic
  <2>1. /\ end' = "dynamic" /\ UNCHANGED <<pc, chan, seen, line, page>> /\ pc = "cgi"
        /\ out = <<>>
    BY <1>4, <1>18 DEF CallDynamic, Inv, SentInv
  <2>2. Deserved = "dynamic"
    BY <1>9, <2>1 DEF Known, Deserved, OwnerRuns, Directories
  <2>3. AnsweredAsDeserved'
    BY <1>3, <1>5, <2>1, <2>2, CalmEnd
  <2> QED BY <1>3, <1>9, <2>1, <2>3 DEF Known, Answering
<1>19. CASE Exit
  <2>1. /\ UNCHANGED <<pc, chan, seen, line, page>> /\ pc = "done"
        /\ Deserved \in Pages /\ out = <<PageHead(Deserved), PageBody(Deserved)>>
    BY <1>9, <1>19 DEF Exit, Answering
  <2>2. AnsweredAsDeserved'
    BY <1>3, <1>5, <2>1, CalmEnd DEF Pages
  <2> QED BY <1>3, <1>5, <1>9, <2>1, <2>2 DEF Known, Answering, PageHead, PageBody
<1> QED
  BY <1>10, <1>11, <1>12, <1>13, <1>14, <1>15, <1>16, <1>17, <1>18, <1>19
     DEF Silent, ReadRequest, SslPrepare

LEMMA CalmSend ==
  ASSUME TypeOK, Inv, CalmInv, Sends
  PROVE  CalmInv'
<1> USE DEF At, Go, Ends, Stay
<1>1. pc # "first" /\ pc' # "first" /\ UNCHANGED <<got, https, gone>>
  BY DEF Sends, SendHead, SendBody, SendRest, WriteBody, Write, fixed, client
<1> SUFFICES ASSUME Calm', got' > 0
    PROVE  (Known /\ Answering /\ (end # "no" => AnsweredAsDeserved))'
  BY <1>1 DEF CalmInv, closed
<1>2. /\ Calm /\ UNCHANGED <<req, https, dirShow, file, changes, gone, closed>>
      /\ Deserved' = Deserved /\ Promised' = Promised
  BY CalmBefore
<1>3. Known /\ Answering /\ UNCHANGED <<page, seen, line>> /\ ~closed
  BY <1>1, <1>2
     DEF CalmInv, Sends, SendHead, SendBody, SendRest, WriteBody, Calm
<1>4. chan = Promised /\ chan # "broken" /\ page \in Pages
  BY <1>3 DEF Answering, Promised, Sends, SendHead, SendBody, SendRest, Inv, SentInv
<1>5. CASE SendHead
  <2>1. pc = "head" /\ pc' = "body" /\ chan' = chan /\ end' = "no" /\ out' # out
    BY <1>3, <1>4, <1>5, SendStep DEF Sends, SendHead, Write, Inv, SentInv
  <2>2. out' = <<PageHead(page)>>
    BY <1>5, <2>1, SendStep DEF Sends, SendHead, Inv, SentInv, PageHead
  <2> QED BY <1>2, <1>3, <1>4, <2>1, <2>2 DEF Known, Answering, PageHead
<1>6. CASE SendBody \/ SendRest
  <2>1. pc \in {"body", "full"} /\ page = Deserved /\ out = <<PageHead(page)>>
        /\ (page = "file" => seen = file /\ file # "empty") /\ end = "no"
    BY <1>3, <1>6 DEF SendBody, SendRest, Answering
  <2>2. ~(page = "file" /\ "empty" \in {seen, file})
    BY <2>1
  <2>3. \/ pc' = "full" /\ out' = out /\ chan' = chan /\ end' = "no"
        \/ /\ pc' = "done" /\ chan' = chan /\ end' = "no"
           /\ out' = Append(out, PageBody(page))
    BY <1>3, <1>4, <1>6, <2>1, <2>2 DEF SendBody, SendRest, WriteBody, Write, PageBody
  <2>4. CASE pc' = "full" /\ out' = out /\ chan' = chan /\ end' = "no"
    BY <1>2, <1>3, <1>4, <2>1, <2>4 DEF Known, Answering, PageHead, PageBody
  <2>5. CASE pc' = "done" /\ chan' = chan /\ end' = "no"
             /\ out' = Append(out, PageBody(page))
    <3>1. out' = <<PageHead(page), PageBody(page)>>
      BY <2>1, <2>5, AppendPair
    <3> QED BY <1>2, <1>3, <1>4, <2>1, <2>5, <3>1 DEF Known, Answering, PageHead, PageBody
  <2> QED BY <2>3, <2>4, <2>5
<1> QED BY <1>5, <1>6 DEF Sends

LEMMA CalmOthers ==
  ASSUME CalmInv, Send \/ Close \/ ChangeFile \/ UNCHANGED vars, changes \in Nat
  PROVE  CalmInv'
<1>1. UNCHANGED <<req, https, dirShow, got, line, pc, chan, seen, free, page, out, end>>
  BY DEF Send, Close, ChangeFile, vars, fixed, worker
<1>2. ~closed' => ~closed
  BY DEF Send, Close, ChangeFile, vars, client, closed
<1>3. Calm' => Calm /\ UNCHANGED <<gone, file, changes>>
  BY <1>1 DEF Send, Close, ChangeFile, vars, files, client, Calm, closed
<1>4. Calm' => Deserved' = Deserved /\ Promised' = Promised /\ Unserved' = Unserved
  BY <1>1, <1>3 DEF Deserved, Promised, Unserved
<1>5. Calm' /\ AnsweredAsDeserved => AnsweredAsDeserved'
  BY <1>1, <1>3, <1>4 DEF AnsweredAsDeserved, Answered, Calm, closed
<1> QED
  BY <1>1, <1>2, <1>3, <1>4, <1>5 DEF CalmInv, Known, Answering, PageHead, PageBody

\* Whatever is asked for: a worker that got its request and ends undisturbed
\* has given the answer the request deserves, in full; and to the requests
\* whose answer the code loses it has given nothing
\* (mini_httpd_helper.c:635-725).
THEOREM DeservedAnswer == Spec => []AnsweredAsDeserved
<1>1. TypeOK /\ Inv /\ CalmInv /\ [Next]_vars => CalmInv'
  <2> SUFFICES ASSUME TypeOK, Inv, CalmInv, [Next]_vars PROVE CalmInv'
    OBVIOUS
  <2>1. CASE Silent
    BY <2>1, CalmSilent
  <2>2. CASE Sends
    BY <2>2, CalmSend
  <2>3. CASE Send \/ Close \/ ChangeFile \/ UNCHANGED vars
    BY <2>3, CalmOthers DEF TypeOK
  <2> QED BY <2>1, <2>2, <2>3 DEF Next, Work, Silent, Sends
<1>2. CalmInv => AnsweredAsDeserved
  BY DEF CalmInv, Calm, AnsweredAsDeserved
<1> QED BY <1>1, <1>2, CalmInit, TypeCorrect, Invariance, PTL DEF Spec

-----------------------------------------------------------------------------
(***************************************************************************)
(* The one loop of a worker that uses nothing up.                          *)
(***************************************************************************)

\* A worker has taken what was sent, and nothing before its first read.
TakenInv ==
  /\ got <= pos /\ pos <= MessageLength
  /\ pc = "first" => got = 0

\* How many program points are ahead at most.
Rank == CASE pc = "first" -> 11
          [] pc = "method" -> 10
          [] pc = "uri" -> 9
          [] pc = "lstat" -> 8
          [] pc \in {"dir", "dynamic"} -> 7
          [] pc = "headers" -> 6
          [] pc \in {"static", "cgi"} -> 5
          [] pc = "open" -> 4
          [] pc = "head" -> 3
          [] pc = "body" -> 2
          [] pc = "full" -> 1
          [] OTHER -> 0

\* What is left of the message and of the program.
Due == (MessageLength - got) + Rank + (IF end = "no" THEN 1 ELSE 0)

\* The header loop reads at end-of-file, again and again.
Spins == /\ pc = "headers" /\ pc' = "headers" /\ ~https
         /\ gone = "closed" /\ got = pos /\ got' = got

LEMMA LengthType ==
  ASSUME TypeOK
  PROVE  MessageLength \in Nat
BY HeadType, InteractionAssumption DEF TypeOK, Requests, MessageLength

\* A read takes the next item, or finds the end, or ends the worker.
LEMMA ReadTakes ==
  ASSUME TypeOK, TakenInv, ReadLine
  PROVE  \/ got' = got + 1 /\ got' <= pos /\ end' = end
         \/ got' = got /\ got = pos /\ gone = "closed" /\ end' = end
         \/ got' = got /\ end' = "exit"
BY DEF ReadLine, TypeOK, TakenInv

\* What a step of the worker uses up.
LEMMA WorkSpends ==
  ASSUME TypeOK, TakenInv, Work \/ SendRest
  PROVE  /\ UNCHANGED <<req, pos>> /\ end = "no"
         /\ got' \in Nat /\ got <= got' /\ got' <= pos
         /\ pc' = "first" => got' = got /\ pc = "first"
         /\ \/ got' > got /\ Rank' <= Rank
            \/ Rank' < Rank
            \/ Rank' <= Rank /\ end' # "no"
            \/ Spins
<1> USE DEF At, Go, Respond, Ends, Stay, fixed, client, Rank
<1>1. CASE ReadRequest
  BY <1>1, ReadTakes DEF ReadRequest, TypeOK, TakenInv, ReadLine
<1>2. CASE SslPrepare
  <2>1. got = 0 /\ pc = "first" /\ end = "no" /\ UNCHANGED <<req, pos>> /\ pos \in Nat
    BY <1>2 DEF SslPrepare, TakenInv, TypeOK
  <2>2. \/ (\E n \in 1..pos : got' = n) /\ pc' = "method"
        \/ got' = got /\ pc' = "method"
        \/ got' = got /\ pc' = pc /\ end' = "exit"
    BY <1>2 DEF SslPrepare
  <2>3. CASE \E n \in 1..pos : got' = n
    <3>1. got' \in Nat /\ got' <= pos /\ got' > 0
      BY <2>1, <2>3
    <3>2. pc' = "method"
      BY <2>1, <2>2, <3>1
    <3> QED BY <2>1, <3>1, <3>2
  <2>4. CASE got' = got
    <3>1. pc' = "method" \/ (pc' = pc /\ end' = "exit")
      BY <2>1, <2>2, <2>4
    <3> QED BY <2>1, <2>4, <3>1
  <2> QED BY <2>2, <2>3, <2>4
<1>3. CASE CheckMethod \/ ParseUri \/ Lstat \/ ServeDir \/ CheckDynamic
  BY <1>3 DEF CheckMethod, ParseUri, Lstat, ServeDir, CheckDynamic, TypeOK, TakenInv
<1>4. CASE CheckStatic \/ OpenFile \/ CallDynamic \/ Exit
  BY <1>4 DEF CheckStatic, OpenFile, CallDynamic, Exit, TypeOK, TakenInv
<1>5. CASE SendHead \/ SendBody \/ SendRest
  BY <1>5 DEF SendHead, SendBody, SendRest, WriteBody, Write, TypeOK, TakenInv
<1>6. CASE ReadHeaders
  <2>1. /\ pc = "headers" /\ end = "no" /\ ~https /\ UNCHANGED <<req, pos>>
        /\ pc' \in {"headers", "cgi", "static"}
    BY <1>6 DEF ReadHeaders, ReadLine
  <2>2. \/ got' = got + 1 /\ got' <= pos
        \/ got' = got /\ got = pos /\ gone = "closed"
        \/ got' = got /\ end' = "exit"
    BY <1>6, ReadTakes DEF ReadHeaders
  <2>3. got \in Nat /\ pos \in Nat /\ got <= pos
    BY DEF TypeOK, TakenInv
  <2> QED BY <2>1, <2>2, <2>3 DEF Spins
<1> QED BY <1>1, <1>2, <1>3, <1>4, <1>5, <1>6 DEF Work

LEMMA TakenStep ==
  ASSUME TypeOK, TakenInv, [Next]_vars
  PROVE  TakenInv'
<1>1. CASE Work \/ SendRest
  <2>1. MessageLength' = MessageLength
    BY <1>1, WorkSpends DEF MessageLength, HeadLength
  <2> QED BY <1>1, <2>1, WorkSpends DEF TakenInv
<1>2. CASE Send \/ Close \/ ChangeFile \/ UNCHANGED vars
  <2>1. UNCHANGED <<req, pc, got>> /\ (pos' = pos \/ (pos < MessageLength /\ pos' = pos + 1))
    BY <1>2 DEF Send, Close, ChangeFile, vars, fixed, client, worker
  <2>2. MessageLength' = MessageLength
    BY <2>1 DEF MessageLength, HeadLength
  <2>3. MessageLength \in Nat /\ pos \in Nat /\ got \in Nat
    BY LengthType DEF TypeOK
  <2> QED BY <2>1, <2>2, <2>3 DEF TakenInv
<1> QED BY <1>1, <1>2 DEF Next

\* Every step of a worker takes from a natural number, the items still to be
\* read and the program points ahead, to which nobody adds; except one: a header
\* loop whose client has closed reads nothing and goes round.  No other loop
\* of the worker can run for ever, whatever client and file system do, and
\* this one does: ClosedEnds is violated (mini_httpd_helper.c:63-68).
OnlyHeadersSpin ==
  /\ [](Due \in Nat)
  /\ [][Due' <= Due /\ (Work \/ SendRest => Due' < Due \/ Spins)]_vars

\* Whatever the client sends and whenever it leaves, the header loop at
\* end-of-file is the only one that can go round without an end
\* (mini_httpd_helper.c:63-68, 611-726).
THEOREM WorkIsBounded == Spec => OnlyHeadersSpin
<1>1. TypeOK /\ TakenInv => Due \in Nat
  <2> SUFFICES ASSUME TypeOK, TakenInv PROVE Due \in Nat
    OBVIOUS
  <2>1. MessageLength \in Nat /\ got \in Nat /\ got <= MessageLength
    BY LengthType DEF TypeOK, TakenInv
  <2>2. Rank \in Nat
    BY DEF Rank
  <2> HIDE DEF Rank
  <2> QED BY <2>1, <2>2 DEF Due
<1>2. TypeOK /\ TakenInv /\ [Next]_vars =>
        [Due' <= Due /\ (Work \/ SendRest => Due' < Due \/ Spins)]_vars
  <2> SUFFICES ASSUME TypeOK, TakenInv, [Next]_vars
      PROVE  Due' <= Due /\ (Work \/ SendRest => Due' < Due \/ Spins)
    OBVIOUS
  <2>1. MessageLength \in Nat /\ got \in Nat /\ Rank \in Nat /\ Rank' \in Nat
    BY LengthType DEF TypeOK, Rank
  <2>2. CASE Work \/ SendRest
    <3>1. MessageLength' = MessageLength
      BY <2>2, WorkSpends DEF MessageLength, HeadLength
    <3>2. Spins => Rank' = Rank /\ got' = got
      BY DEF Spins, Rank
    <3> HIDE DEF Rank
    <3> QED BY <2>1, <2>2, <3>1, <3>2, WorkSpends DEF Due
  <2>3. CASE ~Work /\ ~SendRest /\ (Send \/ Close \/ ChangeFile \/ UNCHANGED vars)
    <3>1. UNCHANGED <<req, pc, got, end>>
      BY <2>3 DEF Send, Close, ChangeFile, vars, fixed, worker
    <3>2. MessageLength' = MessageLength /\ Rank' = Rank
      BY <3>1 DEF MessageLength, HeadLength, Rank
    <3>3. Due' = Due
      BY <3>1, <3>2 DEF Due
    <3>4. Due \in Int
      BY <2>1 DEF Due
    <3> QED BY <2>3, <3>3, <3>4
  <2> QED BY <2>2, <2>3 DEF Next
<1>3. Init => TakenInv
  BY LengthType, TypeInit DEF Init, TakenInv
<1>4. TypeOK /\ TakenInv /\ [Next]_vars => TakenInv'
  BY TakenStep
<1> QED BY <1>1, <1>2, <1>3, <1>4, TypeCorrect, PTL DEF Spec, OnlyHeadersSpin
=============================================================================
