----------------------------- MODULE MCWork_proofs -----------------------------
(***************************************************************************)
(* Theorems about the machines that the composed run MCWork is made of,    *)
(* for every value of their constants.                                     *)
(*   WorkSend (extended): its types, that a prompt meets the CLI its own   *)
(*     launch started, and that a session gets one launch line and an      *)
(*     agent one request at a time.                                        *)
(*   WorkBoard: the board never acknowledges a request before it is saved  *)
(*     and a confirmed quit loses nothing.                                 *)
(*   RunRecipes: no recipe's process is forgotten.                         *)
(***************************************************************************)
EXTENDS MCWork, Integers, TLAPS, WellFoundedInduction, SequenceTheorems

-----------------------------------------------------------------------------
(* Requests to a CLI                                                       *)

\* A set of numbers that is not empty has a least element.
LEMMA LeastNat ==
    ASSUME NEW T \in SUBSET Nat, T # {}
    PROVE  \E x \in T : \A y \in T : x <= y
<1> DEFINE R == {ss \in Nat \X Nat : ss[1] < ss[2]}
<1>1. IsWellFoundedOn(R, Nat)
  BY NatLessThanWellFounded DEF OpToRel
<1> HIDE DEF R
<1>2. \E x \in T : \A y \in T : <<y, x>> \notin R
  BY <1>1, WFMin, Zenon
<1>3. PICK x \in T : \A y \in T : <<y, x>> \notin R
  BY <1>2
<1>4. \A y \in T : ~(y < x)
  BY <1>3 DEF R
<1> QED BY <1>4

\* A set with 0 and, of each number, the next has all.
LEMMA FromZero ==
    ASSUME NEW S, 0 \in S, \A n \in Nat : n \in S => n + 1 \in S
    PROVE  Nat \subseteq S
<1> DEFINE T == Nat \ S
<1> SUFFICES ASSUME T # {} PROVE FALSE
  OBVIOUS
<1>1. PICK x \in T : \A y \in T : x <= y
  BY LeastNat
<1>2. x - 1 \in Nat /\ x - 1 \notin T
  BY <1>1
<1> QED BY <1>1, <1>2

-----------------------------------------------------------------------------
ReqType == [sid : 0 .. MaxSessions, rev : 0 .. MaxTyped, fresh : BOOLEAN]

UnderWay(r) == pc[r] \notin {"idle", "asked", "done"}

\* The parts of the state's type.
Counts ==
    /\ sid \in 0 .. MaxSessions /\ (running => sid > 0)
    /\ rev \in 0 .. typed /\ typed \in 0 .. MaxTyped

Kinds ==
    /\ running \in BOOLEAN /\ open \in BOOLEAN /\ armed \in BOOLEAN /\ mistaken \in BOOLEAN
    /\ fg \in {"rc", "prompt", Other} \cup Sends /\ (~running => fg = "rc")

Runtime ==
    /\ owner \in Reqs \cup {NoOne} /\ active \in Reqs \cup {NoOne} /\ cancelled \subseteq Reqs

TypedTries ==
    attempted \subseteq 1 .. MaxSessions /\ typedIn \in [Sends -> 0 .. MaxSessions]

TypedLines ==
    line \in Seq(Items) /\ inbox \in Seq(Seq(Items)) /\ queue \in Seq({"text", "enter"})

TypedReqs ==
    /\ pc \in [Reqs -> Steps] /\ req \in [Reqs -> ReqType]
    /\ \A r \in Reqs : pc[r] \in {"asked", "settle", "own", "attempt", "launch", "launchCr",
                                  "ack", "ready", "prompt", "promptCr"} => req[r].sid > 0
    /\ \A r \in Reqs : pc[r] \in {"asked", "settle", "attempt", "launch", "launchCr",
                                  "ack", "ready"} => r \in Sends

TypedRead == readBy \in [Reqs -> {"none", "shell", Other} \cup Sends]

Typed == Counts /\ Kinds /\ Runtime /\ TypedTries /\ TypedLines /\ TypedReqs /\ TypedRead

\* The owner of the gate and the registered request are under way.
Registered == \A r \in Reqs : owner = r \/ active = r => UnderWay(r)

\* A CLI of a launch is in the foreground from its started receipt to its end.
Receipts ==
    /\ started \subseteq Sends /\ ended \subseteq Sends /\ returned \subseteq started
    /\ \A r \in started : fg = r \/ r \in ended
    /\ \A r \in Sends : fg = r => r \in started

\* x stands on the line l or in one of the submitted lines ms.
Has(l, ms, x) ==
    \/ \E i \in DOMAIN l : l[i] = x
    \/ \E j \in DOMAIN ms : \E i \in DOMAIN ms[j] : ms[j][i] = x

\* A launch's prompt is typed after its receipt.
PromptsStarted ==
    \A r \in Sends :
        pc[r] \in {"ready", "prompt", "promptCr"} \/ Has(line, inbox, Prompt(r)) => r \in started

\* A session a request still has to launch in was never tried by another, and one
\* with a launch line was tried.
Tried ==
    /\ \A q \in Sends : typedIn[q] # 0 => typedIn[q] \in attempted
    /\ \A r \in Sends : r \notin cancelled =>
          /\ pc[r] \in {"settle", "own", "attempt"} => req[r].sid \notin attempted
          /\ pc[r] = "launch" => \A q \in Sends : typedIn[q] # req[r].sid
    /\ \A r \in Sends : pc[r] = "launch" => req[r].sid \in attempted

-----------------------------------------------------------------------------
(* Lines and submitted lines                                                *)

Lines == [line : Seq(Items), inbox : Seq(Seq(Items))]

\* What an item on an appended, a submitted or a read line stood on before.
LEMMA HasMoves ==
    ASSUME NEW l \in Seq(Items), NEW ms \in Seq(Seq(Items)), NEW x
    PROVE  /\ \A y \in Items : Append(l, y) \in Seq(Items)
           /\ \A y \in Items : Has(Append(l, y), ms, x) => Has(l, ms, x) \/ x = y
           /\ Append(ms, l) \in Seq(Seq(Items)) /\ <<>> \in Seq(Items)
           /\ Has(<<>>, Append(ms, l), x) => Has(l, ms, x)
           /\ <<>> \in Seq(Seq(Items)) /\ ~Has(<<>>, <<>>, x)
           /\ ms # <<>> =>
                 /\ Head(ms) \in Seq(Items) /\ Tail(ms) \in Seq(Seq(Items))
                 /\ Has(l, Tail(ms), x) => Has(l, ms, x)
                 /\ \A i \in DOMAIN Head(ms) : Head(ms)[i] = x => Has(l, ms, x)
<1>1. ASSUME NEW y \in Items
      PROVE  Append(l, y) \in Seq(Items) /\ (Has(Append(l, y), ms, x) => Has(l, ms, x) \/ x = y)
  <2>1. /\ Append(l, y) \in Seq(Items) /\ DOMAIN Append(l, y) = 1 .. Len(l) + 1
        /\ DOMAIN l = 1 .. Len(l) /\ Len(l) \in Nat
        /\ \A i \in 1 .. Len(l) : Append(l, y)[i] = l[i]
        /\ Append(l, y)[Len(l) + 1] = y
    BY AppendProperties, LenProperties
  <2> HIDE DEF Items
  <2>2. ASSUME Has(Append(l, y), ms, x), x # y PROVE Has(l, ms, x)
    <3>1. CASE \E i \in 1 .. Len(l) + 1 : Append(l, y)[i] = x
      <4>1. PICK i \in 1 .. Len(l) + 1 : Append(l, y)[i] = x
        BY <3>1
      <4>2. i \in 1 .. Len(l)
        BY <2>1, <2>2, <4>1
      <4> QED BY <2>1, <4>1, <4>2 DEF Has
    <3>2. CASE \E j \in DOMAIN ms : \E i \in DOMAIN ms[j] : ms[j][i] = x
      BY <3>2 DEF Has
    <3> QED BY <2>1, <2>2, <3>1, <3>2 DEF Has
  <2> QED BY <2>1, <2>2
<1>2. /\ Append(ms, l) \in Seq(Seq(Items)) /\ <<>> \in Seq(Items)
      /\ Has(<<>>, Append(ms, l), x) => Has(l, ms, x)
  <2>1. /\ Append(ms, l) \in Seq(Seq(Items)) /\ DOMAIN Append(ms, l) = 1 .. Len(ms) + 1
        /\ DOMAIN ms = 1 .. Len(ms) /\ Len(ms) \in Nat
        /\ \A i \in 1 .. Len(ms) : Append(ms, l)[i] = ms[i]
        /\ Append(ms, l)[Len(ms) + 1] = l
    BY AppendProperties, LenProperties
  <2>2. <<>> \in Seq(Items) /\ DOMAIN <<>> = {}
    BY EmptySeq
  <2> QED BY <2>1, <2>2 DEF Has
<1>3. <<>> \in Seq(Seq(Items)) /\ ~Has(<<>>, <<>>, x)
  BY EmptySeq DEF Has
<1>4. ASSUME ms # <<>>
      PROVE  /\ Head(ms) \in Seq(Items) /\ Tail(ms) \in Seq(Seq(Items))
             /\ Has(l, Tail(ms), x) => Has(l, ms, x)
             /\ \A i \in DOMAIN Head(ms) : Head(ms)[i] = x => Has(l, ms, x)
  <2>1. /\ Head(ms) \in Seq(Items) /\ Tail(ms) \in Seq(Seq(Items))
        /\ Head(ms) = ms[1] /\ DOMAIN ms = 1 .. Len(ms) /\ Len(ms) \in Nat /\ Len(ms) > 0
        /\ DOMAIN Tail(ms) = 1 .. Len(ms) - 1
        /\ \A i \in 1 .. Len(ms) - 1 : Tail(ms)[i] = ms[i + 1]
    BY <1>4, HeadTailProperties, LenProperties, EmptySeq
  <2>2. ASSUME Has(l, Tail(ms), x) PROVE Has(l, ms, x)
    <3>1. CASE \E i \in DOMAIN l : l[i] = x
      BY <3>1 DEF Has
    <3>2. CASE \E j \in 1 .. Len(ms) - 1 : \E i \in DOMAIN Tail(ms)[j] : Tail(ms)[j][i] = x
      <4>1. PICK j \in 1 .. Len(ms) - 1 : \E i \in DOMAIN Tail(ms)[j] : Tail(ms)[j][i] = x
        BY <3>2
      <4>2. j + 1 \in DOMAIN ms /\ Tail(ms)[j] = ms[j + 1]
        BY <2>1
      <4> QED BY <4>1, <4>2 DEF Has
    <3> QED BY <2>1, <2>2, <3>1, <3>2 DEF Has
  <2>3. 1 \in DOMAIN ms
    BY <2>1
  <2> QED BY <2>1, <2>2, <2>3 DEF Has
<1> QED BY <1>1, <1>2, <1>3, <1>4

\* A chunk brings no item of a request to the terminal.
LEMMA ChunkKeeps ==
    ASSUME NEW t \in Lines, NEW c \in {"text", "enter"}
    PROVE  /\ AfterChunk(t, c) \in Lines
           /\ \A r \in Reqs : Has(AfterChunk(t, c).line, AfterChunk(t, c).inbox, Prompt(r))
                                  => Has(t.line, t.inbox, Prompt(r))
<1> DEFINE Adds(l, ms) == /\ l \in Seq(Items) /\ ms \in Seq(Seq(Items))
                         /\ \A r \in Reqs : Has(l, ms, Prompt(r))
                                                => Has(t.line, t.inbox, Prompt(r))
<1>1. PICK l \in Seq(Items), ms \in Seq(Seq(Items)) : t = [line |-> l, inbox |-> ms]
  BY DEF Lines
<1>2. t.line = l /\ t.inbox = ms /\ Adds(l, ms)
  BY <1>1
<1>3. Text \in Items /\ \A r \in Reqs : Prompt(r) # Text
  BY DEF Items, Text, Prompt
<1>4. Adds(Append(l, Text), ms)
  <2>1. Append(l, Text) \in Seq(Items)
    BY <1>3, HasMoves
  <2>2. \A r \in Reqs : Has(Append(l, Text), ms, Prompt(r)) => Has(l, ms, Prompt(r))
    BY <1>3, HasMoves
  <2> QED BY <1>2, <2>1, <2>2
<1>5. Adds(<<>>, ms)
  BY <1>2, EmptySeq DEF Has
<1>6. Adds(<<>>, Append(ms, l))
  <2>1. Append(ms, l) \in Seq(Seq(Items)) /\ <<>> \in Seq(Items)
    BY HasMoves
  <2>2. \A r \in Reqs : Has(<<>>, Append(ms, l), Prompt(r)) => Has(l, ms, Prompt(r))
    BY HasMoves
  <2> QED BY <1>2, <2>1, <2>2
<1> HIDE DEF Adds
<1>7. \E m, d : AfterChunk(t, c) = [line |-> m, inbox |-> d] /\ Adds(m, d)
  <2>1. c = "text" => \E m : AfterChunk(t, c) = [line |-> m, inbox |-> ms]
                             /\ (m = l \/ m = Append(l, Text))
    BY <1>1 DEF AfterChunk
  <2>2. c = "enter" => \E d : AfterChunk(t, c) = [line |-> <<>>, inbox |-> d]
                              /\ (d = ms \/ d = Append(ms, l))
    BY <1>1 DEF AfterChunk
  <2> QED BY <1>2, <1>4, <1>5, <1>6, <2>1, <2>2
<1>8. PICK m, d : AfterChunk(t, c) = [line |-> m, inbox |-> d] /\ Adds(m, d)
  BY <1>7
<1>9. AfterChunk(t, c).line = m /\ AfterChunk(t, c).inbox = d
  BY <1>8
<1> QED BY <1>8, <1>9 DEF Adds, Lines

\* What the terminal has made of the first i chunks (WorkSend, After).
AfterStep(chunks, t, i) ==
    IF i = 0 THEN [line |-> line, inbox |-> inbox]
    ELSE AfterChunk(t[i - 1], chunks[i])

\* The recursion of After has a solution for chunks of every number.
LEMMA AfterStepsExist ==
    ASSUME NEW q
    PROVE  \A k \in Nat : \E g : g = [i \in 0 .. k |-> AfterStep(q, g, i)]
<1> DEFINE S == {k \in Nat : \E g : g = [i \in 0 .. k |-> AfterStep(q, g, i)]}
<1>1. 0 \in S
  <2> DEFINE h == [i \in 0 .. 0 |-> [line |-> line, inbox |-> inbox]]
  <2>1. h = [i \in 0 .. 0 |-> AfterStep(q, h, i)]
    BY DEF AfterStep
  <2> QED BY <2>1
<1>2. ASSUME NEW n \in Nat, n \in S PROVE n + 1 \in S
  <2>1. PICK g : g = [i \in 0 .. n |-> AfterStep(q, g, i)]
    BY <1>2
  <2> DEFINE h == [i \in 0 .. n + 1 |-> IF i <= n THEN g[i] ELSE AfterStep(q, g, i)]
  <2>2. h = [i \in 0 .. n + 1 |-> AfterStep(q, h, i)]
    <3> SUFFICES ASSUME NEW i \in 0 .. n + 1 PROVE h[i] = AfterStep(q, h, i)
      OBVIOUS
    <3>1. CASE i = 0
      BY <2>1, <3>1 DEF AfterStep
    <3>2. CASE i \in 1 .. n
      <4>1. i \in 0 .. n /\ i - 1 \in 0 .. n /\ i # 0
        BY <3>2
      <4>2. h[i] = g[i] /\ h[i - 1] = g[i - 1]
        BY <4>1
      <4>3. g[i] = AfterStep(q, g, i)
        BY <2>1, <4>1
      <4> HIDE DEF h
      <4> QED BY <4>1, <4>2, <4>3 DEF AfterStep
    <3>3. CASE i = n + 1
      <4>1. h[i] = AfterStep(q, g, i) /\ h[i - 1] = g[i - 1] /\ i # 0
        BY <3>3
      <4> HIDE DEF h
      <4> QED BY <4>1 DEF AfterStep
    <3> QED BY <3>1, <3>2, <3>3
  <2> HIDE DEF h
  <2>3. \E e : e = [i \in 0 .. n + 1 |-> AfterStep(q, e, i)]
    BY <2>2, Zenon
  <2> QED BY <2>3
<1> HIDE DEF S
<1>3. Nat \subseteq S
  BY <1>1, <1>2, FromZero
<1> QED BY <1>3 DEF S

\* Nor do any number of them.
LEMMA AfterKeeps ==
    ASSUME NEW q \in Seq({"text", "enter"}),
           line \in Seq(Items), inbox \in Seq(Seq(Items))
    PROVE  /\ After(q) \in Lines
           /\ \A r \in Reqs : Has(After(q).line, After(q).inbox, Prompt(r))
                                  => Has(line, inbox, Prompt(r))
<1> DEFINE t == CHOOSE g : g = [i \in 0 .. Len(q) |-> AfterStep(q, g, i)]
           P(u) == /\ u \in Lines
                   /\ \A r \in Reqs : Has(u.line, u.inbox, Prompt(r))
                                          => Has(line, inbox, Prompt(r))
           S == {k \in Nat : k <= Len(q) => P(t[k])}
<1>1. Len(q) \in Nat
  OBVIOUS
<1>2. t = [i \in 0 .. Len(q) |-> AfterStep(q, t, i)]
  <2>1. \E g : g = [i \in 0 .. Len(q) |-> AfterStep(q, g, i)]
    BY <1>1, AfterStepsExist
  <2> QED BY <2>1, Zenon
<1>3. After(q) = t[Len(q)]
  BY Zenon DEF After, AfterStep
<1> HIDE DEF t
<1>4. P([line |-> line, inbox |-> inbox])
  BY DEF Lines
<1>5. t[0] = [line |-> line, inbox |-> inbox]
  BY <1>1, <1>2 DEF AfterStep
<1> HIDE DEF P
<1>6. 0 \in S
  BY <1>4, <1>5
<1>7. ASSUME NEW n \in Nat, n \in S PROVE n + 1 \in S
  <2> SUFFICES ASSUME n + 1 <= Len(q) PROVE P(t[n + 1])
    OBVIOUS
  <2>1. P(t[n])
    BY <1>1, <1>7
  <2>2. n + 1 \in 0 .. Len(q) /\ n + 1 # 0 /\ n + 1 - 1 = n /\ q[n + 1] \in {"text", "enter"}
    BY <1>1
  <2>3. t[n + 1] = AfterChunk(t[n], q[n + 1])
    <3>1. t[n + 1] = AfterStep(q, t, n + 1)
      BY <1>2, <2>2
    <3> QED BY <2>2, <3>1 DEF AfterStep
  <2> QED BY <2>1, <2>2, <2>3, ChunkKeeps DEF P
<1>8. Nat \subseteq S
  <2> HIDE DEF S
  <2> QED BY <1>6, <1>7, FromZero
<1>9. P(After(q))
  BY <1>1, <1>3, <1>8
<1> QED BY <1>9 DEF P

-----------------------------------------------------------------------------
(* Types                                                                    *)

LEMMA TypedInit == Init => Typed /\ Registered
<1> SUFFICES ASSUME Init PROVE Typed /\ Registered
  OBVIOUS
<1>1. Counts /\ TypedTries
  BY BoundsAssumption DEF Init, Counts, TypedTries
<1>4. Kinds /\ Runtime /\ TypedRead
  BY DEF Init, Kinds, Runtime, TypedRead
<1>5. TypedLines
  BY EmptySeq DEF Init, TypedLines
<1>2. TypedReqs
  <2>1. NoReq \in ReqType
    BY BoundsAssumption DEF NoReq, ReqType
  <2>2. "idle" \in Steps
    BY DEF Steps
  <2> QED BY <2>1, <2>2 DEF Init, TypedReqs
<1>3. Registered
  BY NamesAssumption DEF Init, Registered
<1> QED BY <1>1, <1>2, <1>3, <1>4, <1>5 DEF Typed

LEMMA LinesKeep == ASSUME Typed, [Next]_vars PROVE TypedLines'
<1>1. /\ line \in Seq(Items) /\ inbox \in Seq(Seq(Items)) /\ queue \in Seq({"text", "enter"})
      /\ <<>> \in Seq(Items) /\ <<>> \in Seq(Seq(Items)) /\ <<>> \in Seq({"text", "enter"})
  BY EmptySeq DEF Typed, TypedLines
<1>2. \A q \in Seq({"text", "enter"}) : Flush(q) => line' \in Seq(Items) /\ inbox' \in Seq(Seq(Items))
  BY <1>1, AfterKeeps DEF Flush, Lines
<1>3. CASE OpenSession \/ SessionExit \/ \E r \in Reqs : AskFresh(r)
  BY <1>1, <1>3 DEF OpenSession, SessionExit, AskFresh, SpawnShell, Dead, TypedLines, gate
<1>4. CASE DisposeSession
  BY <1>1, <1>4 DEF DisposeSession, Dead, TypedLines
<1>5. CASE Reads
  <2>1. inbox' = Tail(inbox) /\ inbox # <<>> /\ line' = line /\ queue' = queue
    BY <1>5 DEF Reads, gate
  <2> QED BY <1>1, <2>1, HeadTailProperties DEF TypedLines
<1>6. ASSUME NEW c \in {"text", "enter"}, PersonTypes(c) PROVE TypedLines'
  <2>1. <<c>> \in Seq({"text", "enter"}) /\ Append(queue, c) \in Seq({"text", "enter"})
    BY <1>1, AppendProperties
  <2> QED BY <1>1, <1>2, <1>6, <2>1 DEF PersonTypes, TypedLines
<1>7. ASSUME NEW r \in Reqs, LaunchBody(r) \/ PromptBody(r) PROVE TypedLines'
  <2>1. (r \in Sends => Launch(r) \in Items) /\ Prompt(r) \in Items
    BY DEF Items
  <2>2. LaunchBody(r) => r \in Sends
    BY <1>7 DEF LaunchBody, Typed, TypedReqs
  <2>3. \A y \in Items : Append(line, y) \in Seq(Items)
    BY <1>1, HasMoves
  <2> QED BY <1>1, <1>7, <2>1, <2>2, <2>3 DEF LaunchBody, PromptBody, Body, TypedLines, gate
<1>8. ASSUME NEW r \in Reqs, LaunchEnter(r) \/ PromptEnter(r) PROVE TypedLines'
  <2>1. Append(inbox, line) \in Seq(Seq(Items))
    BY <1>1, HasMoves
  <2> QED BY <1>1, <1>2, <1>8, <2>1 DEF LaunchEnter, PromptEnter, Enter, TypedLines
<1>9. CASE RcDone \/ CliEnds \/ StopAll \/ UNCHANGED vars
  BY <1>1, <1>9 DEF RcDone, CliEnds, StopAll, vars, term, gate, TypedLines
<1>10. CASE \E r \in Reqs, s \in 1 .. sid : FollowBegin(r, s)
  BY <1>1, <1>10 DEF FollowBegin, term, gate, TypedLines
<1>11. ASSUME NEW r \in Reqs, Ask(r) \/ SendBegin(r) \/ Settle(r) \/ Own(r) \/ Attempt(r)
                              \/ AwaitStarted(r) \/ AwaitReady(r) \/ Drop(r)
       PROVE  TypedLines'
  BY <1>1, <1>11 DEF Ask, SendBegin, Settle, Own, Attempt, AwaitStarted, AwaitReady, Drop,
                     term, gate, TypedLines
<1> QED BY <1>3, <1>4, <1>5, <1>6, <1>7, <1>8, <1>9, <1>10, <1>11 DEF Next, Step

\* What no action but these changes.
LEMMA Changes ==
    ASSUME [Next]_vars
    PROVE  /\ \/ sid' = sid /\ (running' => running)
              \/ SpawnShell
           /\ \/ rev' = rev /\ typed' = typed
              \/ \E c \in {"text", "enter"} : PersonTypes(c)
              \/ rev' = 0 /\ typed' = typed
<1>1. CASE OpenSession \/ RcDone \/ SessionExit \/ Reads \/ CliEnds \/ StopAll \/ DisposeSession
           \/ UNCHANGED vars
  BY <1>1 DEF OpenSession, RcDone, SessionExit, Reads, CliEnds, StopAll, DisposeSession, Dead,
              vars, term, gate
<1>2. CASE \E c \in {"text", "enter"} : PersonTypes(c)
  <2>1. \A c \in {"text", "enter"} : PersonTypes(c) => sid' = sid /\ running' = running
    BY DEF PersonTypes
  <2> QED BY <1>2, <2>1, Zenon
<1>3. CASE \E r \in Reqs : Ask(r) \/ AskFresh(r) \/ \E x \in 1 .. sid : FollowBegin(r, x)
  BY <1>3 DEF Ask, AskFresh, FollowBegin, term, gate
<1>4. ASSUME NEW r \in Reqs, Step(r)
      PROVE  sid' = sid /\ (running' => running) /\ rev' = rev /\ typed' = typed
  BY <1>4 DEF Step, SendBegin, Settle, Own, Attempt, LaunchBody, LaunchEnter, AwaitStarted,
              AwaitReady, PromptBody, PromptEnter, Drop, term, gate
<1> QED BY <1>1, <1>2, <1>3, <1>4 DEF Next

LEMMA CountsKeep == ASSUME Typed, [Next]_vars PROVE Counts'
<1> USE BoundsAssumption
<1>1. Counts
  BY DEF Typed
<1>2. sid' \in 0 .. MaxSessions /\ (running' => sid' > 0)
  <2>1. (sid' = sid /\ (running' => running)) \/ (sid < MaxSessions /\ sid' = sid + 1)
    BY Changes DEF SpawnShell
  <2> QED BY <1>1, <2>1 DEF Counts
<1>3. rev' \in 0 .. typed' /\ typed' \in 0 .. MaxTyped
  BY <1>1, Changes DEF PersonTypes, Counts
<1> QED BY <1>2, <1>3 DEF Counts

LEMMA KindsKeep == ASSUME Typed, [Next]_vars PROVE Kinds'
<1>1. Kinds
  BY DEF Typed
<1>2. CASE OpenSession \/ RcDone \/ SessionExit \/ CliEnds \/ \E r \in Reqs : AskFresh(r)
  BY <1>1, <1>2 DEF OpenSession, RcDone, SessionExit, CliEnds, AskFresh, SpawnShell, Dead, gate,
                    mark, Kinds
<1>3. CASE DisposeSession \/ StopAll
  BY <1>1, <1>3 DEF DisposeSession, StopAll, Dead, term, gate, mark, Kinds
<1>4. CASE Reads
  <2>1. fg' \in {"rc", "prompt", Other} \cup Sends /\ running
    BY <1>1, <1>4 DEF Reads, ShellReads, CliReads, Kinds
  <2>2. armed' \in BOOLEAN /\ mistaken' \in BOOLEAN
    BY <1>1, <1>4 DEF Reads, CliReads, mark, Kinds
  <2>3. UNCHANGED <<running, open>>
    BY <1>4 DEF Reads, gate
  <2> QED BY <1>1, <2>1, <2>2, <2>3 DEF Kinds
<1>5. CASE \E c \in {"text", "enter"} : PersonTypes(c)
  BY <1>1, <1>5 DEF PersonTypes, mark, Kinds
<1>6. ASSUME NEW r \in Reqs, LaunchBody(r) \/ PromptBody(r) PROVE Kinds'
  BY <1>1, <1>6 DEF LaunchBody, PromptBody, Body, gate, Kinds
<1>7. ASSUME NEW r \in Reqs, LaunchEnter(r) \/ PromptEnter(r) \/ SendBegin(r) \/ Settle(r)
                             \/ Own(r) \/ Attempt(r) \/ AwaitStarted(r) \/ AwaitReady(r)
                             \/ Drop(r) \/ Ask(r) \/ \E x \in 1 .. sid : FollowBegin(r, x)
      PROVE  Kinds'
  BY <1>1, <1>7 DEF LaunchEnter, PromptEnter, SendBegin, Settle, Own, Attempt, AwaitStarted,
                    AwaitReady, Drop, Ask, FollowBegin, term, gate, mark, Kinds
<1>8. CASE UNCHANGED vars
  BY <1>1, <1>8 DEF vars, term, gate, mark, Kinds
<1> QED BY <1>2, <1>3, <1>4, <1>5, <1>6, <1>7, <1>8 DEF Next, Step

\* Registering, owning, freeing and cancelling are the steps of SendBegin,
\* FollowBegin, Own, Drop, StopAll and DisposeSession.
LEMMA Registers ==
    ASSUME [Next]_vars
    PROVE  \/ UNCHANGED runtime
           \/ \E r \in Reqs : SendBegin(r) \/ Own(r) \/ Attempt(r) \/ Drop(r)
                              \/ \E x \in 1 .. sid : FollowBegin(r, x)
           \/ StopAll \/ DisposeSession
<1>1. CASE OpenSession \/ RcDone \/ SessionExit \/ Reads \/ CliEnds \/ UNCHANGED vars
           \/ \E c \in {"text", "enter"} : PersonTypes(c)
  BY <1>1 DEF OpenSession, RcDone, SessionExit, Reads, CliEnds, PersonTypes, vars
<1>2. CASE \E r \in Reqs : Ask(r) \/ AskFresh(r) \/ Settle(r) \/ LaunchBody(r) \/ LaunchEnter(r)
                           \/ AwaitStarted(r) \/ AwaitReady(r) \/ PromptBody(r) \/ PromptEnter(r)
  BY <1>2 DEF Ask, AskFresh, Settle, LaunchBody, LaunchEnter, AwaitStarted, AwaitReady,
              PromptBody, PromptEnter
<1> QED BY <1>1, <1>2 DEF Next, Step

LEMMA RuntimeKeeps == ASSUME Typed, [Next]_vars PROVE Runtime'
<1>1. Runtime
  BY DEF Typed
<1>2. CASE UNCHANGED runtime
  BY <1>1, <1>2 DEF runtime, Runtime
<1>3. CASE StopAll \/ DisposeSession
  BY <1>1, <1>3 DEF StopAll, DisposeSession, StopActive, Runtime
<1>4. ASSUME NEW r \in Reqs, SendBegin(r) \/ Own(r) \/ Attempt(r) \/ Drop(r)
                             \/ \E x \in 1 .. sid : FollowBegin(r, x)
      PROVE  Runtime'
  BY <1>1, <1>4 DEF SendBegin, Own, Attempt, Drop, FollowBegin, Runtime
<1> QED BY <1>2, <1>3, <1>4, Registers

LEMMA TriesKeep == ASSUME Typed, [Next]_vars PROVE TypedTries'
<1> USE BoundsAssumption
<1>1. TypedTries /\ sid \in 0 .. MaxSessions /\ (running => sid \in 1 .. MaxSessions)
  BY DEF Typed, Counts
<1>2. attempted' = attempted \/ \E r \in Reqs : Attempt(r)
  BY Registers DEF runtime, SendBegin, Own, Drop, FollowBegin, StopAll, DisposeSession
<1>3. attempted' \subseteq 1 .. MaxSessions
  <2>1. \A r \in Reqs : Attempt(r) => attempted' = attempted \/ (running /\ attempted' = attempted \cup {sid})
    BY DEF Attempt, Check
  <2> QED BY <1>1, <1>2, <2>1 DEF TypedTries
<1>4. typedIn' = typedIn \/ \E r \in Reqs : LaunchBody(r)
  BY DEF Next, Step, vars, files, OpenSession, RcDone, SessionExit, Dead, Reads, CliEnds,
     PersonTypes, Ask, AskFresh, SendBegin, Settle, Own, Attempt, LaunchEnter,
     AwaitStarted, AwaitReady, PromptBody, PromptEnter, FollowBegin, Drop, StopAll,
     DisposeSession
<1>5. \A r \in Reqs : LaunchBody(r) => \E n \in 0 .. MaxSessions : typedIn' = [typedIn EXCEPT ![r] = n]
  <2> SUFFICES ASSUME NEW r \in Reqs, LaunchBody(r)
               PROVE  \E n \in 0 .. MaxSessions : typedIn' = [typedIn EXCEPT ![r] = n]
    OBVIOUS
  <2>1. (IF Check(r) THEN sid ELSE 0) \in 0 .. MaxSessions
    BY <1>1
  <2> QED BY <2>1 DEF LaunchBody
<1>6. typedIn' \in [Sends -> 0 .. MaxSessions]
  BY <1>1, <1>4, <1>5 DEF TypedTries
<1> QED BY <1>3, <1>6 DEF TypedTries

LEMMA ReadKeeps == ASSUME Typed, [Next]_vars PROVE TypedRead'
<1>1. TypedRead /\ fg \in {"rc", "prompt", Other} \cup Sends
  BY DEF Typed, Kinds
<1>2. CASE Reads
  <2>1. fg \in {"prompt", Other} \cup Sends
    BY <1>1, <1>2 DEF Reads
  <2>2. CASE fg = "prompt"
    BY <1>1, <1>2, <2>2 DEF Reads, ShellReads, TypedRead
  <2>3. CASE fg # "prompt"
    BY <1>1, <1>2, <2>1, <2>3 DEF Reads, CliReads, TypedRead
  <2> QED BY <2>2, <2>3
<1>3. ASSUME ~Reads PROVE readBy' = readBy
  BY <1>3 DEF Next, Step, vars, files, OpenSession, RcDone, SessionExit, Dead, CliEnds,
     PersonTypes, Ask, AskFresh, SendBegin, Settle, Own, Attempt, LaunchBody, LaunchEnter,
     AwaitStarted, AwaitReady, PromptBody, PromptEnter, FollowBegin, Drop, StopAll,
     DisposeSession
<1> QED BY <1>1, <1>2, <1>3 DEF TypedRead

\* The steps of a request move nobody else, and a request only from its own place.
LEMMA Moves ==
    ASSUME Typed, [Next]_vars, NEW r \in Reqs, pc'[r] # pc[r]
    PROVE  Ask(r) \/ AskFresh(r) \/ Step(r) \/ \E x \in 1 .. sid : FollowBegin(r, x)
<1>1. pc \in [Reqs -> Steps]
  BY DEF Typed, TypedReqs
<1>2. CASE OpenSession \/ RcDone \/ SessionExit \/ Reads \/ CliEnds \/ UNCHANGED vars
           \/ (\E c \in {"text", "enter"} : PersonTypes(c)) \/ StopAll \/ DisposeSession
  BY <1>2 DEF OpenSession, RcDone, SessionExit, Reads, CliEnds, PersonTypes, vars, StopAll,
              DisposeSession
<1>3. ASSUME NEW q \in Reqs, Ask(q) \/ AskFresh(q) \/ \E x \in 1 .. sid : FollowBegin(q, x)
      PROVE  r = q
  BY <1>1, <1>3 DEF Ask, AskFresh, FollowBegin, Goto
<1>4. ASSUME NEW q \in Reqs, Step(q) PROVE r = q
  BY <1>1, <1>4 DEF Step, SendBegin, Settle, Own, Attempt, LaunchBody, LaunchEnter,
       AwaitStarted, AwaitReady, PromptBody, PromptEnter, Drop, Goto, Body, Enter
<1> QED BY <1>2, <1>3, <1>4 DEF Next

\* A step of a request takes it from one place to another and leaves its session and
\* revision alone, until it is dropped.
LEMMA Ways ==
    ASSUME Typed, NEW r \in Reqs, Step(r)
    PROVE  /\ \E l \in Steps : pc' = [pc EXCEPT ![r] = l]
           /\ <<pc[r], pc'[r]>> \in
                 {<<"asked", "settle">>, <<"asked", "drop">>, <<"asked", "done">>,
                  <<"settle", "own">>, <<"settle", "drop">>,
                  <<"own", "attempt">>, <<"own", "prompt">>, <<"own", "drop">>,
                  <<"attempt", "launch">>, <<"attempt", "drop">>,
                  <<"launch", "launchCr">>, <<"launch", "drop">>,
                  <<"launchCr", "ack">>, <<"launchCr", "drop">>,
                  <<"ack", "ready">>, <<"ack", "drop">>,
                  <<"ready", "prompt">>, <<"ready", "drop">>,
                  <<"prompt", "promptCr">>, <<"prompt", "drop">>,
                  <<"promptCr", "drop">>, <<"drop", "done">>}
           /\ req' = req \/ (pc[r] = "drop" /\ req' = [req EXCEPT ![r] = NoReq])
           /\ pc[r] = "own" /\ pc'[r] = "attempt" => r \in Sends
           /\ pc[r] = "own" /\ pc'[r] = "prompt" => r \notin Sends
<1>1. pc \in [Reqs -> Steps]
  BY DEF Typed, TypedReqs
<1>2. CASE SendBegin(r)
  BY <1>1, <1>2 DEF SendBegin, Goto, Steps
<1>3. CASE Settle(r)
  BY <1>1, <1>3 DEF Settle, Goto, Steps
<1>4. CASE Own(r)
  BY <1>1, <1>4 DEF Own, Goto, Steps
<1>5. CASE Attempt(r)
  BY <1>1, <1>5 DEF Attempt, Goto, Steps
<1>6. CASE LaunchBody(r) \/ PromptBody(r)
  BY <1>1, <1>6 DEF LaunchBody, PromptBody, Body, Goto, Steps
<1>7. CASE LaunchEnter(r) \/ PromptEnter(r)
  BY <1>1, <1>7 DEF LaunchEnter, PromptEnter, Enter, Goto, Steps
<1>8. CASE AwaitStarted(r) \/ AwaitReady(r)
  BY <1>1, <1>8 DEF AwaitStarted, AwaitReady, Goto, Steps
<1>9. CASE Drop(r)
  BY <1>1, <1>9 DEF Drop, Goto, Steps
<1> QED BY <1>2, <1>3, <1>4, <1>5, <1>6, <1>7, <1>8, <1>9 DEF Step

LEMMA ReqsKeep == ASSUME Typed, [Next]_vars PROVE TypedReqs'
<1> USE BoundsAssumption
<1>1. TypedReqs /\ Counts /\ Sends \subseteq Reqs /\ NoReq \in ReqType
  BY DEF Typed, Counts, NoReq, ReqType, Reqs
<1>2. ASSUME NEW r \in Reqs, Step(r) PROVE TypedReqs'
  <2>1. pc' \in [Reqs -> Steps] /\ req' \in [Reqs -> ReqType]
    BY <1>1, <1>2, Ways DEF TypedReqs
  <2>2. ASSUME NEW q \in Reqs
        PROVE  /\ pc'[q] \in {"asked", "settle", "own", "attempt", "launch", "launchCr",
                              "ack", "ready", "prompt", "promptCr"} => req'[q].sid > 0
               /\ pc'[q] \in {"asked", "settle", "attempt", "launch", "launchCr",
                              "ack", "ready"} => q \in Sends
    <3>1. CASE q = r
      <4>1. pc'[r] \in {"done", "drop"} \/ (req' = req /\ pc[r] \in
              {"asked", "settle", "own", "attempt", "launch", "launchCr", "ack", "ready",
               "prompt", "promptCr"})
        BY <1>2, Ways
      <4>2. pc'[r] \in {"asked", "settle", "attempt", "launch", "launchCr", "ack", "ready"} =>
               r \in Sends
        BY <1>1, <1>2, Ways DEF TypedReqs
      <4> QED BY <1>1, <3>1, <4>1, <4>2 DEF TypedReqs
    <3>2. CASE q # r
      <4>1. pc'[q] = pc[q] /\ req'[q] = req[q]
        BY <1>1, <1>2, <3>2, Ways DEF TypedReqs
      <4> QED BY <1>1, <4>1 DEF TypedReqs
    <3> QED BY <3>1, <3>2
  <2> QED BY <2>1, <2>2 DEF TypedReqs
<1>3. ASSUME NEW r \in Reqs, Ask(r) \/ AskFresh(r) \/ \E x \in 1 .. sid : FollowBegin(r, x)
      PROVE  TypedReqs'
  <2>1. \/ /\ r \in Sends /\ pc' = [pc EXCEPT ![r] = "asked"]
           /\ \E t \in ReqType : t.sid > 0 /\ req' = [req EXCEPT ![r] = t]
        \/ /\ \E l \in {"own", "drop"} : pc' = [pc EXCEPT ![r] = l]
           /\ \E t \in ReqType : t.sid > 0 /\ req' = [req EXCEPT ![r] = t]
        \/ pc' = [pc EXCEPT ![r] = "done"] /\ req' = req
    <3>1. CASE Ask(r)
      <4>1. [sid |-> sid, rev |-> rev, fresh |-> FALSE] \in ReqType /\ sid > 0
        BY <1>1, <3>1 DEF Ask, Counts, ReqType
      <4> QED BY <3>1, <4>1 DEF Ask, Goto
    <3>2. CASE AskFresh(r)
      <4>1. [sid |-> sid + 1, rev |-> rev, fresh |-> TRUE] \in ReqType /\ sid + 1 > 0
        BY <1>1, <3>2 DEF AskFresh, SpawnShell, Counts, ReqType
      <4> QED BY <3>2, <4>1 DEF AskFresh, SpawnShell, Goto
    <3>3. ASSUME NEW x \in 1 .. sid, FollowBegin(r, x)
          PROVE  \/ /\ \E l \in {"own", "drop"} : pc' = [pc EXCEPT ![r] = l]
                    /\ \E t \in ReqType : t.sid > 0 /\ req' = [req EXCEPT ![r] = t]
                 \/ pc' = [pc EXCEPT ![r] = "done"] /\ req' = req
      <4>1. [sid |-> x, rev |-> rev, fresh |-> FALSE] \in ReqType /\ x > 0
        BY <1>1 DEF Counts, ReqType
      <4> QED BY <3>3, <4>1 DEF FollowBegin, Goto
    <3> QED BY <1>3, <3>1, <3>2, <3>3
  <2> QED BY <1>1, <2>1 DEF TypedReqs, Steps
<1>4. CASE OpenSession \/ RcDone \/ SessionExit \/ Reads \/ CliEnds \/ UNCHANGED vars
           \/ (\E c \in {"text", "enter"} : PersonTypes(c)) \/ StopAll \/ DisposeSession
  <2>1. pc' = pc /\ req' = req
    BY <1>4 DEF OpenSession, RcDone, SessionExit, Reads, CliEnds, PersonTypes, vars, StopAll,
                DisposeSession
  <2> QED BY <1>1, <2>1 DEF TypedReqs
<1> QED BY <1>2, <1>3, <1>4 DEF Next

LEMMA TypedKeeps == ASSUME Typed, [Next]_vars PROVE Typed'
BY CountsKeep, KindsKeep, RuntimeKeeps, TriesKeep, LinesKeep, ReqsKeep, ReadKeeps DEF Typed

-----------------------------------------------------------------------------
(* One request at a time                                                    *)

LEMMA RegisteredKeeps == ASSUME Typed, Registered, OneAtATime, [Next]_vars
                         PROVE  Registered' /\ OneAtATime'
<1>1. Runtime /\ pc \in [Reqs -> Steps] /\ NoOne \notin Reqs
  BY NamesAssumption DEF Typed, TypedReqs
<1> SUFFICES ASSUME NEW r \in Reqs
             PROVE  /\ owner' = r \/ active' = r => UnderWay(r)'
                    /\ UnderWay(r)' => active' = r \/ r \in cancelled'
  BY DEF Registered, OneAtATime, UnderWay
<1>2. CASE pc'[r] = pc[r]
  <2>1. owner' = r => owner = r
    <3>1. ASSUME NEW q \in Reqs, SendBegin(q) \/ Own(q) \/ Attempt(q) \/ Drop(q)
                                 \/ \E x \in 1 .. sid : FollowBegin(q, x)
          PROVE  owner' = r => owner = r
      BY <1>1, <1>2, <3>1 DEF SendBegin, Own, Attempt, Drop, FollowBegin, Goto
    <3>2. CASE UNCHANGED runtime \/ StopAll \/ DisposeSession
      BY <1>1, <3>2 DEF runtime, StopAll, DisposeSession
    <3> QED BY <3>1, <3>2, Registers
  <2>2. /\ active' = r => active = r
        /\ active = r => active' = r \/ r \in cancelled'
        /\ r \in cancelled => r \in cancelled'
    <3>1. ASSUME NEW q \in Reqs, SendBegin(q) \/ Own(q) \/ Attempt(q) \/ Drop(q)
                                 \/ \E x \in 1 .. sid : FollowBegin(q, x)
          PROVE  /\ active' = r => active = r
                 /\ active = r => active' = r
                 /\ r \in cancelled => r \in cancelled'
      <4>1. CASE SendBegin(q)
        BY <1>1, <1>2, <4>1 DEF SendBegin, Goto
      <4>4. CASE \E x \in 1 .. sid : FollowBegin(q, x)
        <5>1. PICK x \in 1 .. sid : FollowBegin(q, x)
          BY <4>4
        <5>2. /\ active' = active \/ (active = NoOne /\ active' = q)
              /\ cancelled' = cancelled
          BY <5>1 DEF FollowBegin
        <5>3. q # r
          BY <1>1, <1>2, <5>1 DEF FollowBegin, Unmade, Goto
        <5> QED BY <1>1, <5>2, <5>3
      <4>2. CASE Own(q) \/ Attempt(q)
        BY <4>2 DEF Own, Attempt
      <4>3. CASE Drop(q)
        <5>1. q # r
          BY <1>1, <1>2, <4>3 DEF Drop, Goto
        <5> QED BY <1>1, <4>3, <5>1 DEF Drop
      <4> QED BY <3>1, <4>1, <4>2, <4>3, <4>4
    <3>2. CASE UNCHANGED runtime
      BY <3>2 DEF runtime
    <3>3. CASE StopAll \/ DisposeSession
      BY <1>1, <3>3 DEF StopAll, DisposeSession, StopActive
    <3> QED BY <3>1, <3>2, <3>3, Registers
  <2> QED BY <1>2, <2>1, <2>2 DEF Registered, OneAtATime, UnderWay
<1>3. CASE pc'[r] # pc[r]
  <2>1. CASE Ask(r) \/ AskFresh(r)
    BY <1>1, <2>1 DEF Ask, AskFresh, Unmade, Goto, runtime, Registered, UnderWay
  <2>2. ASSUME NEW x \in 1 .. sid, FollowBegin(r, x)
        PROVE  /\ owner' = r \/ active' = r => UnderWay(r)'
               /\ UnderWay(r)' => active' = r \/ r \in cancelled'
    BY <1>1, <2>2 DEF FollowBegin, Unmade, Goto, Registered, UnderWay
  <2>3. CASE SendBegin(r)
    BY <1>1, <2>3 DEF SendBegin, Goto, Registered, UnderWay
  <2>4. CASE Drop(r)
    BY <1>1, <2>4 DEF Drop, Goto, Registered, UnderWay
  <2>5. CASE Step(r) /\ ~SendBegin(r) /\ ~Drop(r)
    <3>2. UnderWay(r) /\ UnderWay(r)'
      BY <2>5, Ways DEF UnderWay, Step, Settle, Own, Attempt, LaunchBody, LaunchEnter,
                        AwaitStarted, AwaitReady, PromptBody, PromptEnter
    <3>3. active' = active /\ cancelled' = cancelled
      BY <2>5 DEF Step, Settle, Own, Attempt, LaunchBody, LaunchEnter,
                  AwaitStarted, AwaitReady, PromptBody, PromptEnter, runtime
    <3> QED BY <3>2, <3>3 DEF OneAtATime, UnderWay
  <2> QED BY <1>3, <2>1, <2>2, <2>3, <2>4, <2>5, Moves
<1> QED BY <1>2, <1>3

-----------------------------------------------------------------------------
(* Receipts and prompts                                                     *)

\* Only the shell and the CLIs change who is in the foreground and the receipts.
LEMMA Foreground ==
    ASSUME [Next]_vars
    PROVE  \/ UNCHANGED <<fg, started, returned, ended, readBy>>
           \/ fg' = "rc" /\ ~running /\ UNCHANGED <<started, returned, ended, readBy>>
           \/ RcDone \/ SessionExit \/ DisposeSession \/ Reads \/ CliEnds
<1>1. CASE OpenSession \/ StopAll \/ UNCHANGED vars \/ \E c \in {"text", "enter"} : PersonTypes(c)
  BY <1>1 DEF OpenSession, SpawnShell, StopAll, PersonTypes, vars, term, files
<1>2. CASE \E r \in Reqs : Ask(r) \/ AskFresh(r) \/ \E x \in 1 .. sid : FollowBegin(r, x)
  BY <1>2 DEF Ask, AskFresh, SpawnShell, FollowBegin, term, files
<1>3. CASE \E r \in Reqs : Step(r)
  BY <1>3 DEF Step, SendBegin, Settle, Own, Attempt, LaunchBody, LaunchEnter, AwaitStarted,
              AwaitReady, PromptBody, PromptEnter, Drop, term, files
<1> QED BY <1>1, <1>2, <1>3 DEF Next

LEMMA ReceiptsKeep == ASSUME Typed, Receipts, [Next]_vars PROVE Receipts'
<1>1. /\ fg \in {"rc", "prompt", Other} \cup Sends /\ (~running => fg = "rc")
      /\ "rc" \notin Sends /\ "prompt" \notin Sends /\ Other \notin Sends
  BY NamesAssumption DEF Typed, Kinds, Reqs
<1>2. CASE UNCHANGED <<fg, started, returned, ended, readBy>>
  BY <1>2 DEF Receipts
<1>3. CASE fg' = "rc" /\ ~running /\ UNCHANGED <<started, returned, ended, readBy>>
  BY <1>1, <1>3 DEF Receipts
<1>4. CASE RcDone
  BY <1>1, <1>4 DEF RcDone, files, Receipts
<1>5. CASE SessionExit \/ DisposeSession
  BY <1>1, <1>5 DEF SessionExit, DisposeSession, Dead, Receipts
<1>6. CASE Reads
  <2>1. CASE fg = "prompt"
    <3>1. UNCHANGED returned /\ ShellReads(Head(inbox))
      BY <1>6, <2>1 DEF Reads
    <3>2. CASE \E q \in Sends : Head(inbox) = <<Launch(q)>>
      <4>1. PICK q \in Sends : \/ started' = started \cup {q} /\ fg' = q /\ UNCHANGED ended
                               \/ ended' = ended \cup {q} /\ UNCHANGED <<started, fg>>
        BY <3>1, <3>2 DEF ShellReads
      <4> QED BY <1>1, <2>1, <3>1, <4>1 DEF Receipts
    <3>3. CASE ~\E q \in Sends : Head(inbox) = <<Launch(q)>>
      <4>1. UNCHANGED <<started, ended>> /\ fg' \in {"prompt", Other}
        BY <3>1, <3>3 DEF ShellReads
      <4> QED BY <1>1, <2>1, <3>1, <4>1 DEF Receipts
    <3> QED BY <3>2, <3>3
  <2>2. CASE fg # "prompt"
    BY <1>6, <2>2 DEF Reads, CliReads, Receipts
  <2> QED BY <2>1, <2>2
<1>7. CASE CliEnds
  <2>1. /\ fg' = "prompt" /\ started' = started /\ ended' = ended \cup ({fg} \cap Sends)
        /\ returned' \subseteq returned \cup ({fg} \cap Sends)
    BY <1>7 DEF CliEnds
  <2> QED BY <1>1, <2>1 DEF Receipts
<1> QED BY <1>2, <1>3, <1>4, <1>5, <1>6, <1>7, Foreground

\* A request's prompt comes to the terminal by the request's own body.
LEMMA PromptsMove ==
    ASSUME Typed, [Next]_vars, NEW r \in Reqs, Has(line, inbox, Prompt(r))'
    PROVE  Has(line, inbox, Prompt(r)) \/ pc[r] = "prompt"
<1>1. /\ line \in Seq(Items) /\ inbox \in Seq(Seq(Items)) /\ queue \in Seq({"text", "enter"})
      /\ Has(line', inbox', Prompt(r))
  BY DEF Typed, TypedLines, Has, Prompt
<1>2. \A q \in Seq({"text", "enter"}) : Flush(q) => Has(line, inbox, Prompt(r))
  BY <1>1, AfterKeeps DEF Flush
<1>3. CASE OpenSession \/ SessionExit \/ DisposeSession \/ \E q \in Reqs : AskFresh(q)
  <2>1. line' = <<>> /\ inbox' = <<>>
    BY <1>3 DEF OpenSession, SessionExit, DisposeSession, AskFresh, SpawnShell, Dead
  <2>2. ~Has(<<>>, <<>>, Prompt(r))
    BY EmptySeq DEF Has
  <2> QED BY <1>1, <2>1, <2>2
<1>4. CASE Reads
  <2>1. line' = line /\ inbox' = Tail(inbox) /\ inbox # <<>>
    BY <1>4 DEF Reads
  <2>2. Has(line, Tail(inbox), Prompt(r)) => Has(line, inbox, Prompt(r))
    BY <1>1, <2>1, HasMoves
  <2> QED BY <1>1, <2>1, <2>2
<1>5. ASSUME NEW c \in {"text", "enter"}, PersonTypes(c) PROVE Has(line, inbox, Prompt(r))
  <2>1. <<c>> \in Seq({"text", "enter"})
    OBVIOUS
  <2>2. Flush(<<c>>) \/ (line' = line /\ inbox' = inbox)
    BY <1>5 DEF PersonTypes
  <2> QED BY <1>1, <1>2, <2>1, <2>2
<1>6. ASSUME NEW q \in Reqs, LaunchBody(q) \/ PromptBody(q)
      PROVE  Has(line, inbox, Prompt(r)) \/ pc[r] = "prompt"
  <2>1. (LaunchBody(q) => Launch(q) \in Items) /\ Prompt(q) \in Items
    BY DEF Items, LaunchBody, Typed, TypedReqs
  <2>2. /\ Launch(q) # Prompt(r)
        /\ Prompt(q) = Prompt(r) => q = r
    BY DEF Launch, Prompt
  <2>3. \A y \in Items : Has(Append(line, y), inbox, Prompt(r)) =>
                             Has(line, inbox, Prompt(r)) \/ Prompt(r) = y
    BY <1>1, HasMoves
  <2>4. \/ line' = line /\ inbox' = inbox
        \/ LaunchBody(q) /\ line' = Append(line, Launch(q)) /\ inbox' = inbox
        \/ pc[q] = "prompt" /\ line' = Append(line, Prompt(q)) /\ inbox' = inbox
    BY <1>6 DEF LaunchBody, PromptBody, Body
  <2> QED BY <1>1, <2>1, <2>2, <2>3, <2>4
<1>7. ASSUME NEW q \in Reqs, LaunchEnter(q) \/ PromptEnter(q) PROVE Has(line, inbox, Prompt(r))
  <2>1. Has(<<>>, Append(inbox, line), Prompt(r)) => Has(line, inbox, Prompt(r))
    BY <1>1, HasMoves
  <2>2. Flush(queue) \/ (line' = <<>> /\ inbox' = Append(inbox, line))
    BY <1>7 DEF LaunchEnter, PromptEnter, Enter
  <2> QED BY <1>1, <1>2, <2>1, <2>2
<1>8. CASE RcDone \/ CliEnds \/ StopAll \/ UNCHANGED vars
  BY <1>1, <1>8 DEF RcDone, CliEnds, StopAll, vars, term
<1>9. CASE \E q \in Reqs : Ask(q) \/ SendBegin(q) \/ Settle(q) \/ Own(q) \/ Attempt(q)
                  \/ AwaitStarted(q) \/ AwaitReady(q) \/ Drop(q) \/ \E x \in 1 .. sid : FollowBegin(q, x)
  BY <1>1, <1>9 DEF Ask, SendBegin, Settle, Own, Attempt, AwaitStarted, AwaitReady, Drop,
                    FollowBegin, term
<1> QED BY <1>3, <1>4, <1>5, <1>6, <1>7, <1>8, <1>9 DEF Next, Step

LEMMA PromptsKeep == ASSUME Typed, Receipts, PromptsStarted, [Next]_vars PROVE PromptsStarted'
<1>1. Sends \subseteq Reqs /\ Sends \cap Follows = {}
  BY NamesAssumption DEF Reqs
<1> SUFFICES ASSUME NEW r \in Sends, \/ pc'[r] \in {"ready", "prompt", "promptCr"}
                                     \/ Has(line, inbox, Prompt(r))'
             PROVE  r \in started'
  BY DEF PromptsStarted, Has, Prompt
<1>2. started \subseteq started'
  <2>1. CASE RcDone \/ SessionExit \/ DisposeSession \/ CliEnds
    BY <2>1 DEF RcDone, SessionExit, DisposeSession, CliEnds, Dead, files
  <2>2. CASE Reads
    BY <2>2 DEF Reads, ShellReads, CliReads
  <2> QED BY <2>1, <2>2, Foreground
<1>3. CASE pc[r] \in {"ready", "prompt", "promptCr"} \/ Has(line, inbox, Prompt(r))
  BY <1>2, <1>3 DEF PromptsStarted
<1>4. CASE Has(line, inbox, Prompt(r))' /\ ~Has(line, inbox, Prompt(r))
  BY <1>1, <1>3, <1>4, PromptsMove
<1>5. CASE pc'[r] \in {"ready", "prompt", "promptCr"} /\ pc[r] \notin {"ready", "prompt", "promptCr"}
  <2>1. CASE Ask(r) \/ AskFresh(r) \/ \E x \in 1 .. sid : FollowBegin(r, x)
    BY <1>1, <1>5, <2>1 DEF Ask, AskFresh, FollowBegin, Goto, Typed, TypedReqs
  <2>2. CASE Step(r)
    <3>1. pc[r] = "ack" /\ pc'[r] = "ready"
      BY <1>1, <1>5, <2>2, Ways
    <3>2. AwaitStarted(r)
      BY <2>2, <3>1 DEF Step, SendBegin, Settle, Own, Attempt, LaunchBody, LaunchEnter,
                        AwaitReady, PromptBody, PromptEnter, Drop
    <3>3. pc \in [Reqs -> Steps]
      BY DEF Typed, TypedReqs
    <3> QED BY <1>1, <1>2, <3>1, <3>2, <3>3 DEF AwaitStarted, Goto
  <2> QED BY <1>1, <1>5, <2>1, <2>2, Moves
<1> QED BY <1>3, <1>4, <1>5

LEMMA MeetsKeeps == ASSUME Typed, Receipts, PromptsStarted, PromptMeetsItsCli, [Next]_vars
                    PROVE  PromptMeetsItsCli'
<1> SUFFICES ASSUME NEW r \in Sends PROVE readBy'[r] \in {"none", r} \/ r \in ended'
  BY DEF PromptMeetsItsCli
<1>1. r \in Reqs /\ Sends \cap {"none", "shell", "rc", "prompt"} = {}
  BY NamesAssumption DEF Reqs
<1>2. ended \subseteq ended'
  <2>1. CASE RcDone \/ SessionExit \/ DisposeSession \/ CliEnds
    BY <2>1 DEF RcDone, SessionExit, DisposeSession, CliEnds, Dead, files
  <2>2. CASE Reads
    BY <2>2 DEF Reads, ShellReads, CliReads
  <2> QED BY <2>1, <2>2, Foreground
<1>3. CASE readBy'[r] = readBy[r]
  BY <1>2, <1>3 DEF PromptMeetsItsCli
<1>4. CASE readBy'[r] # readBy[r]
  <2>1. Reads
    BY <1>4, Foreground DEF RcDone, SessionExit, DisposeSession, CliEnds, Dead, files
  <2>2. inbox # <<>> /\ inbox \in Seq(Seq(Items)) /\ line \in Seq(Items)
    BY <2>1 DEF Reads, Typed, TypedLines
  <2>3. TypedRead
    BY DEF Typed
  <2>4. /\ Prompt(r) \in {Head(inbox)[i] : i \in DOMAIN Head(inbox)}
        /\ fg # "prompt" => readBy'[r] = fg
    <3>1. CASE fg = "prompt"
      BY <1>1, <1>4, <2>1, <2>3, <3>1 DEF Reads, ShellReads, TypedRead
    <3>2. CASE fg # "prompt"
      BY <1>1, <1>4, <2>1, <2>3, <3>2 DEF Reads, CliReads, TypedRead
    <3> QED BY <3>1, <3>2
  <2>5. Has(line, inbox, Prompt(r))
    BY <2>2, <2>4, HasMoves
  <2>6. r \in started
    BY <2>5 DEF PromptsStarted
  <2>7. fg = r \/ r \in ended
    BY <2>6 DEF Receipts
  <2> QED BY <1>1, <1>2, <2>4, <2>7
<1> QED BY <1>3, <1>4

LEMMA ReceiptsInit == Init => Receipts /\ PromptsStarted /\ PromptMeetsItsCli /\ OneAtATime
<1> SUFFICES ASSUME Init PROVE Receipts /\ PromptsStarted /\ PromptMeetsItsCli /\ OneAtATime
  OBVIOUS
<1>1. Sends \subseteq Reqs /\ Sends \cap {"none", "shell", "rc", "prompt"} = {}
  BY NamesAssumption DEF Reqs
<1>2. Receipts /\ PromptMeetsItsCli /\ OneAtATime
  BY <1>1 DEF Init, Receipts, PromptMeetsItsCli, OneAtATime
<1>3. \A r \in Sends : ~Has(line, inbox, Prompt(r))
  BY EmptySeq DEF Init, Has
<1>4. \A r \in Sends : pc[r] = "idle"
  BY <1>1 DEF Init
<1> QED BY <1>2, <1>3, <1>4 DEF PromptsStarted

\* What the theorem below needs at every state: a launch's prompt is on the terminal only
\* after its receipt, and from then on its CLI reads or is over.
ReceiptsInv == Typed /\ Receipts /\ PromptsStarted /\ PromptMeetsItsCli

\* The prompt of a send is read by the CLI its own launch started, or that CLI has ended
\* (work_send.rs, await_started and await_ready; the shell's script, cli_transition.rs).
THEOREM PromptsMeet == Spec => []PromptMeetsItsCli
<1>1. Init => ReceiptsInv
  BY TypedInit, ReceiptsInit DEF ReceiptsInv
<1>2. ReceiptsInv /\ [Next]_vars => ReceiptsInv'
  BY TypedKeeps, ReceiptsKeep, PromptsKeep, MeetsKeeps DEF ReceiptsInv
<1>3. ReceiptsInv => PromptMeetsItsCli
  BY DEF ReceiptsInv
<1> QED BY <1>1, <1>2, <1>3, PTL DEF Spec

-----------------------------------------------------------------------------
(* One launch line per session                                              *)

\* What a step leaves of the things Tried speaks about, for a request it does not move.
LEMMA Standing ==
    ASSUME Typed, [Next]_vars, NEW r \in Reqs
    PROVE  /\ attempted \subseteq attempted'
           /\ pc'[r] = pc[r] => req'[r] = req[r]
           /\ r \in cancelled /\ r \notin cancelled' => pc'[r] = "done"
<1>1. pc \in [Reqs -> Steps] /\ req \in [Reqs -> ReqType] /\ Runtime
  BY DEF Typed, TypedReqs
<1>2. attempted \subseteq attempted'
  <2>1. CASE UNCHANGED runtime \/ StopAll \/ DisposeSession
    BY <2>1 DEF runtime, StopAll, DisposeSession
  <2>2. ASSUME NEW q \in Reqs, SendBegin(q) \/ Own(q) \/ Attempt(q) \/ Drop(q)
                               \/ \E x \in 1 .. sid : FollowBegin(q, x)
        PROVE  attempted \subseteq attempted'
    BY <2>2 DEF SendBegin, Own, Attempt, Drop, FollowBegin
  <2> QED BY <2>1, <2>2, Registers
<1>3. ASSUME pc'[r] = pc[r] PROVE req'[r] = req[r]
  <2>1. ASSUME NEW q \in Reqs, Step(q) PROVE req'[r] = req[r]
    <3>1. req' = req \/ (pc[q] = "drop" /\ pc'[q] = "done" /\ req' = [req EXCEPT ![q] = NoReq])
      BY <2>1, Ways
    <3> QED BY <1>1, <1>3, <3>1
  <2>2. ASSUME NEW q \in Reqs, Ask(q) \/ AskFresh(q) \/ \E x \in 1 .. sid : FollowBegin(q, x)
        PROVE  req'[r] = req[r]
    <3>1. \/ \E l \in {"asked", "own", "drop"} : \E t :
                pc[q] = "idle" /\ pc' = [pc EXCEPT ![q] = l] /\ req' = [req EXCEPT ![q] = t]
          \/ req' = req
      BY <2>2 DEF Ask, AskFresh, FollowBegin, Unmade, Goto
    <3> QED BY <1>1, <1>3, <3>1
  <2>3. CASE OpenSession \/ RcDone \/ SessionExit \/ Reads \/ CliEnds \/ UNCHANGED vars
             \/ (\E c \in {"text", "enter"} : PersonTypes(c)) \/ StopAll \/ DisposeSession
    BY <2>3 DEF OpenSession, RcDone, SessionExit, Reads, CliEnds, PersonTypes, vars, StopAll,
                DisposeSession
  <2> QED BY <2>1, <2>2, <2>3 DEF Next
<1>4. ASSUME r \in cancelled, r \notin cancelled' PROVE pc'[r] = "done"
  <2>1. CASE UNCHANGED runtime \/ StopAll \/ DisposeSession
    BY <1>4, <2>1 DEF runtime, StopAll, DisposeSession, StopActive
  <2>2. ASSUME NEW q \in Reqs, SendBegin(q) \/ Own(q) \/ Attempt(q) \/ Drop(q)
                               \/ \E x \in 1 .. sid : FollowBegin(q, x)
        PROVE  pc'[r] = "done"
    BY <1>1, <1>4, <2>2 DEF SendBegin, Own, Attempt, Drop, FollowBegin, Goto
  <2> QED BY <2>1, <2>2, Registers
<1> QED BY <1>2, <1>3, <1>4

\* A session is marked as tried, and a launch line typed, by the one request that works.
LEMMA Attempts ==
    ASSUME Typed, OneAtATime, [Next]_vars
    PROVE  /\ \/ attempted' = attempted
              \/ \E q \in Sends : /\ Attempt(q) /\ Check(q) /\ active = q
                                  /\ attempted' = attempted \cup {req[q].sid}
           /\ \/ typedIn' = typedIn
              \/ \E q \in Sends : LaunchBody(q) /\ ~Check(q) /\ typedIn' = [typedIn EXCEPT ![q] = 0]
              \/ \E q \in Sends : /\ LaunchBody(q) /\ Check(q) /\ active = q
                                  /\ typedIn' = [typedIn EXCEPT ![q] = req[q].sid]
<1>1. \A q \in Reqs : pc[q] \in {"attempt", "launch"} => q \in Sends
  BY DEF Typed, TypedReqs
<1>2. \A q \in Reqs : Check(q) /\ pc[q] \in {"attempt", "launch"} => active = q
  BY DEF Check, OneAtATime
<1>3. \/ attempted' = attempted
      \/ \E q \in Sends : /\ Attempt(q) /\ Check(q) /\ active = q
                          /\ attempted' = attempted \cup {req[q].sid}
  <2>1. attempted' = attempted \/ \E r \in Reqs : Attempt(r)
    BY Registers DEF runtime, SendBegin, Own, Drop, FollowBegin, StopAll, DisposeSession
  <2>2. ASSUME NEW q \in Reqs, Attempt(q)
        PROVE  \/ attempted' = attempted
               \/ Check(q) /\ pc[q] = "attempt" /\ attempted' = attempted \cup {req[q].sid}
    BY <2>2 DEF Attempt
  <2> QED BY <1>1, <1>2, <2>1, <2>2
<1>4. typedIn' = typedIn \/ \E r \in Reqs : LaunchBody(r)
  BY DEF Next, Step, vars, files, OpenSession, RcDone, SessionExit, Dead, Reads, CliEnds,
     PersonTypes, Ask, AskFresh, SendBegin, Settle, Own, Attempt, LaunchEnter,
     AwaitStarted, AwaitReady, PromptBody, PromptEnter, FollowBegin, Drop, StopAll,
     DisposeSession
<1>5. ASSUME NEW q \in Reqs, LaunchBody(q)
      PROVE  /\ pc[q] = "launch"
             /\ \/ ~Check(q) /\ typedIn' = [typedIn EXCEPT ![q] = 0]
                \/ Check(q) /\ typedIn' = [typedIn EXCEPT ![q] = req[q].sid]
  <2>1. typedIn' = [typedIn EXCEPT ![q] = IF Check(q) THEN sid ELSE 0] /\ pc[q] = "launch"
    BY <1>5 DEF LaunchBody
  <2>2. Check(q) => req[q].sid = sid
    BY DEF Check
  <2> QED BY <2>1, <2>2
<1> QED BY <1>1, <1>2, <1>3, <1>4, <1>5

LEMMA TriedKeeps ==
    ASSUME Typed, OneAtATime, Tried, OneLaunchPerSession, [Next]_vars
    PROVE  Tried' /\ OneLaunchPerSession'
<1>1. Sends \subseteq Reqs /\ typedIn \in [Sends -> 0 .. MaxSessions] /\ pc \in [Reqs -> Steps]
  BY DEF Reqs, Typed, TypedTries, TypedReqs
<1>2. \A r \in Reqs : pc[r] \in {"attempt", "launch"} => req[r].sid > 0
  BY DEF Typed, TypedReqs
<1>3. attempted \subseteq attempted'
  BY Standing, Attempts
<1>4. \A q \in Sends : typedIn'[q] # 0 => typedIn'[q] \in attempted'
  <2>1. \A q \in Sends : LaunchBody(q) => req[q].sid \in attempted
    BY DEF LaunchBody, Tried
  <2> QED BY <1>1, <1>3, <2>1, Attempts DEF Tried
<1>5. OneLaunchPerSession'
  <2>1. \A q \in Sends : LaunchBody(q) /\ Check(q) => \A x \in Sends : typedIn[x] # req[q].sid
    BY DEF LaunchBody, Check, Tried
  <2> SUFFICES ASSUME NEW x \in Sends, NEW y \in Sends, typedIn'[x] # 0, typedIn'[x] = typedIn'[y]
               PROVE  x = y
    BY DEF OneLaunchPerSession
  <2>2. CASE typedIn' = typedIn
    BY <2>2 DEF OneLaunchPerSession
  <2>3. ASSUME NEW q \in Sends, LaunchBody(q), Check(q),
               typedIn' = [typedIn EXCEPT ![q] = req[q].sid]
        PROVE  x = y
    <3>1. \A z \in Sends : typedIn[z] # req[q].sid
      BY <2>1, <2>3
    <3> QED BY <1>1, <2>3, <3>1 DEF OneLaunchPerSession
  <2>4. ASSUME NEW q \in Sends, typedIn' = [typedIn EXCEPT ![q] = 0] PROVE x = y
    BY <1>1, <2>4 DEF OneLaunchPerSession
  <2> QED BY <2>2, <2>3, <2>4, Attempts
<1>6. ASSUME NEW r \in Sends
      PROVE  /\ r \notin cancelled' =>
                   /\ pc'[r] \in {"settle", "own", "attempt"} => req'[r].sid \notin attempted'
                   /\ pc'[r] = "launch" => \A q \in Sends : typedIn'[q] # req'[r].sid
             /\ pc'[r] = "launch" => req'[r].sid \in attempted'
  <2> SUFFICES ASSUME pc'[r] \in {"settle", "own", "attempt", "launch"}
               PROVE  /\ r \notin cancelled' =>
                            /\ pc'[r] \in {"settle", "own", "attempt"} =>
                                  req'[r].sid \notin attempted'
                            /\ pc'[r] = "launch" => \A q \in Sends : typedIn'[q] # req'[r].sid
                      /\ pc'[r] = "launch" => req'[r].sid \in attempted'
    OBVIOUS
  <2>1. r \in Reqs /\ (r \notin cancelled' => r \notin cancelled)
    BY <1>1, Standing
  <2>2. CASE pc'[r] = pc[r]
    <3>1. req'[r] = req[r]
      BY <2>1, <2>2, Standing
    <3>2. r \notin cancelled => active = r
      BY <2>1, <2>2 DEF OneAtATime
    <3>3. r \notin cancelled /\ pc[r] # "launch" => attempted' = attempted
      <4>2. ASSUME r \notin cancelled, NEW q \in Sends, Attempt(q), active = q,
                   attempted' = attempted \cup {req[q].sid}, Check(q)
            PROVE  attempted' = attempted
        <5>1. q = r
          BY <3>2, <4>2
        <5> QED BY <1>1, <2>1, <2>2, <4>2, <5>1 DEF Attempt, Goto
      <4> QED BY <4>2, Attempts
    <3>4. r \notin cancelled /\ pc[r] = "launch" => \A q \in Sends : typedIn'[q] # req[r].sid
      <4>1. req[r].sid > 0 \/ pc[r] # "launch"
        BY <1>2, <2>1
      <4>2. ASSUME NEW q \in Sends, LaunchBody(q), active = q, r \notin cancelled, Check(q)
            PROVE  FALSE
        <5>1. q = r
          BY <3>2, <4>2
        <5> QED BY <1>1, <2>1, <2>2, <4>2, <5>1 DEF LaunchBody, Body, Goto
      <4> QED BY <1>1, <4>1, <4>2, Attempts DEF Tried
    <3> QED BY <1>3, <2>1, <2>2, <3>1, <3>3, <3>4 DEF Tried
  <2>3. CASE pc'[r] # pc[r]
    <3>1. Step(r)
      <4>1. \A x \in 1 .. sid : ~FollowBegin(r, x)
        BY <1>1, NamesAssumption DEF FollowBegin
      <4>2. ~Ask(r) /\ ~AskFresh(r)
        BY <1>1, <2>1 DEF Ask, AskFresh, Goto
      <4> QED BY <2>1, <2>3, <4>1, <4>2, Moves
    <3>2. CASE SendBegin(r)
      BY <1>1, <2>1, <3>2 DEF SendBegin, Goto
    <3>3. CASE Attempt(r)
      <4>1. /\ pc[r] = "attempt" /\ pc'[r] = "launch" /\ req' = req /\ typedIn' = typedIn
            /\ attempted' = attempted \cup {req[r].sid} /\ r \notin cancelled
        BY <1>1, <2>1, <3>3 DEF Attempt, Goto, files, Check
      <4>2. \A q \in Sends : typedIn[q] # req[r].sid
        BY <1>2, <2>1, <4>1 DEF Tried
      <4> QED BY <4>1, <4>2
    <3>4. CASE Settle(r) \/ Own(r)
      <4>1. /\ pc[r] \in {"settle", "own"} /\ pc'[r] \in {"own", "attempt"} /\ req' = req
            /\ attempted' = attempted
        BY <1>1, <2>1, <3>1, <3>4, Ways DEF Settle, Own, runtime
      <4> QED BY <2>1, <4>1 DEF Tried
    <3>5. CASE ~SendBegin(r) /\ ~Attempt(r) /\ ~Settle(r) /\ ~Own(r)
      <4>1. pc[r] \in {"launch", "launchCr", "ack", "ready", "prompt", "promptCr", "drop"}
        BY <3>1, <3>5 DEF Step, LaunchBody, LaunchEnter, AwaitStarted, AwaitReady, PromptBody,
                          PromptEnter, Drop
      <4> QED BY <2>1, <3>1, <4>1, Ways
    <3> QED BY <3>2, <3>3, <3>4, <3>5
  <2> QED BY <2>2, <2>3
<1> QED BY <1>4, <1>5, <1>6 DEF Tried

\* What the theorem below needs at every state: the request that works is the registered one,
\* and no session it may still launch in was tried.
LaunchInv == Typed /\ Registered /\ OneAtATime /\ Tried /\ OneLaunchPerSession

\* A session gets one launch line, an agent one request (work_send.rs, attempted and active).
THEOREM Launches == Spec => []LaunchedOnce
<1>1. Init => LaunchInv
  <2>1. Init => Tried /\ OneLaunchPerSession
    BY DEF Init, Tried, OneLaunchPerSession, Reqs
  <2> QED BY <2>1, TypedInit, ReceiptsInit DEF LaunchInv
<1>2. LaunchInv /\ [Next]_vars => LaunchInv'
  BY TypedKeeps, RegisteredKeeps, TriedKeeps DEF LaunchInv
<1>3. LaunchInv => LaunchedOnce
  BY DEF LaunchInv, LaunchedOnce
<1> QED BY <1>1, <1>2, <1>3, PTL DEF Spec

\* The requests' state is well formed, and a registered request or owner is under way
\* (WorkSendRuntime, the gate's owner).
THEOREM SendTypes == Spec => []TypeOK
<1>1. Init => ReceiptsInv /\ LaunchInv
  <2>1. Init => Tried /\ OneLaunchPerSession
    BY DEF Init, Tried, OneLaunchPerSession, Reqs
  <2> QED BY <2>1, TypedInit, ReceiptsInit DEF LaunchInv, ReceiptsInv
<1>2. ReceiptsInv /\ LaunchInv /\ [Next]_vars => ReceiptsInv' /\ LaunchInv'
  BY TypedKeeps, ReceiptsKeep, PromptsKeep, MeetsKeeps, RegisteredKeeps, TriedKeeps
     DEF LaunchInv, ReceiptsInv
<1>3. ReceiptsInv /\ LaunchInv => TypeOK
  <2> SUFFICES ASSUME ReceiptsInv, LaunchInv PROVE TypeOK
    OBVIOUS
  <2>1. rev \in 0 .. MaxTyped
    BY BoundsAssumption DEF ReceiptsInv, Typed, Counts
  <2>2. Registered /\ Receipts /\ Counts /\ Kinds /\ Runtime /\ TypedTries /\ TypedLines
        /\ TypedReqs /\ TypedRead
    BY DEF ReceiptsInv, LaunchInv, Typed
  <2> QED BY <2>1, <2>2 DEF TypeOK, Registered, UnderWay, Receipts, Counts, Kinds, Runtime,
                            TypedTries, TypedLines, TypedReqs, ReqType, TypedRead
<1> QED BY <1>1, <1>2, <1>3, PTL DEF Spec

-----------------------------------------------------------------------------
(* The machines that run beside it                                          *)

\* A step of the composition is a step of one machine and leaves the others alone.
LEMMA OneMachineSteps ==
    [MCNext]_<<part, vars, board, recipes>> =>
        [Board!Next]_board /\ [Recipes!Next]_recipes
  BY DEF MCNext

-----------------------------------------------------------------------------
(* Recipes                                                                  *)

\* Where a process is and where its agent's entry points to.
Processes ==
    /\ tree \in [Recipes!Tokens -> {"none", "up", "termed", "killed", "gone"}]
    /\ DOMAIN whose = Recipes!Tokens
    /\ entries \in [Agents -> Recipes!Tokens \cup {Recipes!None}]
    /\ \A t \in Recipes!Tokens : tree[t] # "none" => whose[t] \in Agents
    /\ \A x \in Agents :
         entries[x] # Recipes!None => whose[entries[x]] = x /\ tree[entries[x]] # "none"

\* What the holder of the operations lock is about to do.
LockHeld ==
    /\ op.of \subseteq Recipes!Tokens
    /\ op.kind \in {"free", "start", "stop", "all"}
    /\ op.kind = "free" => op.of = {}
    /\ op.kind = "start" => \E t \in Recipes!Tokens :
         op.of = {t} /\ tree[t] # "none" /\ entries[whose[t]] = Recipes!None
    /\ op.kind = "stop" => \E t \in Recipes!Tokens : op.of = {t} /\ tree[t] # "none"
    /\ op.kind = "all" => quit = "asked"

\* stop_all sets its flag before it waits for the lock; once it has the lock there are no
\* entries, and with the flag set there never are again.
Closing ==
    /\ quit \in {"no", "asked", "done"} /\ shutting \in BOOLEAN
    /\ quit # "no" => shutting
    /\ quit = "done" \/ op.kind = "all" => \A x \in Agents : entries[x] = Recipes!None
    /\ quit = "done" => op.kind = "free"

RecipesInv == Processes /\ LockHeld /\ Closing /\ Recipes!LiveIsListed

LEMMA TokensAreNumbers == 0 \notin Recipes!Tokens /\ Recipes!None = 0
  BY InstancesFit DEF Recipes!ConstantsFit, Recipes!Tokens, Recipes!None

LEMMA RecipesInitially == Recipes!Init => RecipesInv
  <1> SUFFICES ASSUME Recipes!Init PROVE RecipesInv
    OBVIOUS
  <1>1. Processes
    BY DEF Recipes!Init, Processes
  <1>2. LockHeld /\ Closing
    BY DEF Recipes!Init, LockHeld, Closing, Recipes!Free
  <1>3. Recipes!LiveIsListed
    BY DEF Recipes!Init, Recipes!LiveIsListed, Recipes!Living
  <1> QED BY <1>1, <1>2, <1>3 DEF RecipesInv

\* A signal ends nobody and starts nobody.
LEMMA SignalledTree ==
    ASSUME RecipesInv, NEW ts \in SUBSET Recipes!Tokens, NEW sig \in {"termed", "killed"},
           tree' = Recipes!Signalled(ts, sig)
    PROVE  /\ tree' \in [Recipes!Tokens -> {"none", "up", "termed", "killed", "gone"}]
           /\ \A t \in Recipes!Tokens : tree'[t] = "none" <=> tree[t] = "none"
           /\ \A t \in Recipes!Tokens : Recipes!Living(t)' => Recipes!Living(t)
           /\ sig = "killed" => \A t \in ts : ~Recipes!Living(t)'
  BY DEF RecipesInv, Processes, Recipes!Signalled, Recipes!Living

\* An entry taken out by its token.
LEMMA RemovedEntry ==
    ASSUME RecipesInv, NEW x \in Agents, NEW t \in Recipes!Tokens,
           entries' = Recipes!Removed(x, t)
    PROVE  /\ entries' \in [Agents -> Recipes!Tokens \cup {Recipes!None}]
           /\ \A y \in Agents : \/ entries'[y] = entries[y]
                                \/ entries[y] = t /\ entries'[y] = Recipes!None
  BY DEF RecipesInv, Processes, Recipes!Removed

LEMMA RecipesStart ==
    ASSUME RecipesInv, NEW x \in Agents, Recipes!Start(x)
    PROVE  RecipesInv'
  <1>1. PICK t \in Recipes!Tokens :
          /\ tree[t] = "none"
          /\ tree' = [tree EXCEPT ![t] = "up"] /\ whose' = [whose EXCEPT ![t] = x]
          /\ op' = [kind |-> "start", of |-> {t}]
    BY DEF Recipes!Start
  <1>2. /\ op = Recipes!Free /\ ~shutting /\ entries[x] = Recipes!None
        /\ UNCHANGED <<entries, shutting, quit>>
    BY DEF Recipes!Start
  <1>3. /\ whose'[t] = x /\ tree'[t] = "up"
        /\ \A u \in Recipes!Tokens : u # t => whose'[u] = whose[u] /\ tree'[u] = tree[u]
    BY <1>1 DEF RecipesInv, Processes
  <1>4. \A y \in Agents : entries[y] # Recipes!None => entries[y] # t
    BY <1>1 DEF RecipesInv, Processes
  <1>5. Processes'
    BY <1>1, <1>2, <1>3, <1>4 DEF RecipesInv, Processes
  <1>6. LockHeld' /\ Closing'
    BY <1>1, <1>2, <1>3 DEF RecipesInv, LockHeld, Closing, Recipes!Free
  <1>7. Recipes!LiveIsListed'
    BY <1>1, <1>2, <1>3 DEF RecipesInv, Recipes!LiveIsListed, Recipes!Living, Recipes!Free
  <1> QED BY <1>5, <1>6, <1>7 DEF RecipesInv

LEMMA RecipesRecord ==
    ASSUME RecipesInv, Recipes!Record
    PROVE  RecipesInv'
  <1>1. PICK t \in Recipes!Tokens :
          op.of = {t} /\ tree[t] # "none" /\ entries[whose[t]] = Recipes!None
    BY DEF RecipesInv, LockHeld, Recipes!Record
  <1>2. /\ entries' = [entries EXCEPT ![whose[t]] = t] /\ op' = Recipes!Free
        /\ op.kind = "start" /\ UNCHANGED <<tree, whose, shutting, quit>>
    BY <1>1 DEF Recipes!Record
  <1>3. whose[t] \in Agents /\ entries'[whose[t]] = t
        /\ \A y \in Agents : y # whose[t] => entries'[y] = entries[y]
    BY <1>1, <1>2 DEF RecipesInv, Processes
  <1>4. Processes'
    BY <1>1, <1>2, <1>3 DEF RecipesInv, Processes
  <1>5. LockHeld' /\ Closing'
    BY <1>2 DEF RecipesInv, LockHeld, Closing, Recipes!Free
  <1>6. Recipes!LiveIsListed'
    <2> SUFFICES ASSUME NEW u \in Recipes!Tokens, Recipes!Living(u)
                 PROVE  entries'[whose[u]] = u
      BY <1>2 DEF Recipes!LiveIsListed, Recipes!Living
    <2>1. entries[whose[u]] = u \/ u = t
      BY <1>1 DEF RecipesInv, Recipes!LiveIsListed
    <2>2. whose[u] \in Agents
      BY DEF RecipesInv, Processes, Recipes!Living
    <2> QED BY <1>1, <1>3, <2>1, <2>2, TokensAreNumbers
  <1> QED BY <1>4, <1>5, <1>6 DEF RecipesInv

LEMMA RecipesStop ==
    ASSUME RecipesInv, NEW x \in Agents, Recipes!Stop(x)
    PROVE  RecipesInv'
  <1>1. /\ op = Recipes!Free /\ entries[x] \in Recipes!Tokens
        /\ op' = [kind |-> "stop", of |-> {entries[x]}]
        /\ tree' = Recipes!Signalled({entries[x]}, "termed")
        /\ UNCHANGED <<whose, entries, shutting, quit>> /\ tree[entries[x]] # "none"
        /\ entries[x] # Recipes!None
    BY DEF Recipes!Stop, RecipesInv, Processes
  <1>2. /\ tree' \in [Recipes!Tokens -> {"none", "up", "termed", "killed", "gone"}]
        /\ \A t \in Recipes!Tokens : tree'[t] = "none" <=> tree[t] = "none"
        /\ \A t \in Recipes!Tokens : Recipes!Living(t)' => Recipes!Living(t)
    BY <1>1, SignalledTree
  <1>3. Processes'
    BY <1>1, <1>2 DEF RecipesInv, Processes
  <1>4. LockHeld' /\ Closing'
    BY <1>1, <1>2 DEF RecipesInv, LockHeld, Closing, Recipes!Free
  <1>5. Recipes!LiveIsListed'
    BY <1>1, <1>2 DEF RecipesInv, Recipes!LiveIsListed, Recipes!Free
  <1> QED BY <1>3, <1>4, <1>5 DEF RecipesInv

LEMMA RecipesStopEnds ==
    ASSUME RecipesInv, Recipes!StopEnds
    PROVE  RecipesInv'
  <1>1. PICK t \in Recipes!Tokens : op.of = {t} /\ tree[t] # "none"
    BY DEF RecipesInv, LockHeld, Recipes!StopEnds
  <1>2. /\ entries' = Recipes!Removed(whose[t], t) /\ op' = Recipes!Free
        /\ tree' = Recipes!Signalled({t}, "killed") /\ op.kind = "stop"
        /\ UNCHANGED <<whose, shutting, quit>> /\ whose[t] \in Agents
    BY <1>1 DEF Recipes!StopEnds, RecipesInv, Processes
  <1>3. /\ tree' \in [Recipes!Tokens -> {"none", "up", "termed", "killed", "gone"}]
        /\ \A u \in Recipes!Tokens : tree'[u] = "none" <=> tree[u] = "none"
        /\ \A u \in Recipes!Tokens : Recipes!Living(u)' => Recipes!Living(u)
        /\ ~Recipes!Living(t)'
    BY <1>2, SignalledTree
  <1>4. /\ entries' \in [Agents -> Recipes!Tokens \cup {Recipes!None}]
        /\ \A y \in Agents : \/ entries'[y] = entries[y]
                             \/ entries[y] = t /\ entries'[y] = Recipes!None
    BY <1>2, RemovedEntry
  <1>5. Processes'
    BY <1>2, <1>3, <1>4 DEF RecipesInv, Processes
  <1>6. LockHeld' /\ Closing'
    BY <1>2, <1>4 DEF RecipesInv, LockHeld, Closing, Recipes!Free
  <1>7. Recipes!LiveIsListed'
    <2> SUFFICES ASSUME NEW u \in Recipes!Tokens, Recipes!Living(u)'
                 PROVE  entries'[whose[u]] = u
      BY <1>2 DEF Recipes!LiveIsListed
    <2>1. u # t /\ Recipes!Living(u) /\ entries[whose[u]] = u
      BY <1>1, <1>3 DEF RecipesInv, Recipes!LiveIsListed
    <2>2. whose[u] \in Agents
      BY <2>1 DEF RecipesInv, Processes, Recipes!Living
    <2> QED BY <1>4, <2>1, <2>2
  <1> QED BY <1>5, <1>6, <1>7 DEF RecipesInv

LEMMA RecipesStopAll ==
    ASSUME RecipesInv, Recipes!StopAll
    PROVE  RecipesInv'
  <1> DEFINE all == {entries[x] : x \in Agents} \ {Recipes!None}
  <1>1. /\ quit = "asked" /\ op = Recipes!Free /\ op' = [kind |-> "all", of |-> all]
        /\ tree' = Recipes!Signalled(all, "termed")
        /\ entries' = [x \in Agents |-> Recipes!None] /\ UNCHANGED <<whose, shutting, quit>>
    BY DEF Recipes!StopAll
  <1>2. all \subseteq Recipes!Tokens
    BY DEF RecipesInv, Processes
  <1>3. /\ tree' \in [Recipes!Tokens -> {"none", "up", "termed", "killed", "gone"}]
        /\ \A u \in Recipes!Tokens : tree'[u] = "none" <=> tree[u] = "none"
        /\ \A u \in Recipes!Tokens : Recipes!Living(u)' => Recipes!Living(u)
    <2> HIDE DEF all
    <2> QED BY <1>1, <1>2, SignalledTree
  <1>4. Processes'
    BY <1>1, <1>3 DEF RecipesInv, Processes
  <1>5. LockHeld' /\ Closing'
    BY <1>1, <1>2 DEF RecipesInv, LockHeld, Closing, Recipes!Free
  <1>6. Recipes!LiveIsListed'
    <2> SUFFICES ASSUME NEW u \in Recipes!Tokens, Recipes!Living(u)'
                 PROVE  u \in op'.of
      BY <1>1 DEF Recipes!LiveIsListed
    <2>1. Recipes!Living(u) /\ entries[whose[u]] = u /\ whose[u] \in Agents
      BY <1>1, <1>3 DEF RecipesInv, Recipes!LiveIsListed, Recipes!Free, Processes,
                        Recipes!Living
    <2> QED BY <1>1, <2>1, TokensAreNumbers
  <1> QED BY <1>4, <1>5, <1>6 DEF RecipesInv

LEMMA RecipesStopAllEnds ==
    ASSUME RecipesInv, Recipes!StopAllEnds
    PROVE  RecipesInv'
  <1>1. /\ op.kind = "all" /\ op' = Recipes!Free /\ quit' = "done"
        /\ tree' = Recipes!Signalled(op.of, "killed") /\ op.of \subseteq Recipes!Tokens
        /\ quit = "asked" /\ UNCHANGED <<whose, entries, shutting>>
    BY DEF Recipes!StopAllEnds, RecipesInv, LockHeld
  <1>2. /\ tree' \in [Recipes!Tokens -> {"none", "up", "termed", "killed", "gone"}]
        /\ \A u \in Recipes!Tokens : tree'[u] = "none" <=> tree[u] = "none"
        /\ \A u \in Recipes!Tokens : Recipes!Living(u)' => Recipes!Living(u)
        /\ \A u \in op.of : ~Recipes!Living(u)'
    BY <1>1, SignalledTree
  <1>3. Processes'
    BY <1>1, <1>2 DEF RecipesInv, Processes
  <1>4. LockHeld' /\ Closing'
    BY <1>1 DEF RecipesInv, LockHeld, Closing, Recipes!Free
  <1>5. Recipes!LiveIsListed'
    BY <1>1, <1>2 DEF RecipesInv, Recipes!LiveIsListed
  <1> QED BY <1>3, <1>4, <1>5 DEF RecipesInv

LEMMA RecipesQuit ==
    ASSUME RecipesInv, Recipes!Quit
    PROVE  RecipesInv'
  BY DEF Recipes!Quit, RecipesInv, Processes, LockHeld, Closing, Recipes!LiveIsListed,
         Recipes!Living

LEMMA RecipesWatcher ==
    ASSUME RecipesInv, NEW t \in Recipes!Tokens, Recipes!Watcher(t)
    PROVE  RecipesInv'
  <1>1. /\ tree[t] = "gone" /\ entries' = Recipes!Removed(whose[t], t)
        /\ UNCHANGED <<tree, whose, op, shutting, quit>> /\ whose[t] \in Agents
    BY DEF Recipes!Watcher, RecipesInv, Processes
  <1>2. /\ entries' \in [Agents -> Recipes!Tokens \cup {Recipes!None}]
        /\ \A y \in Agents : \/ entries'[y] = entries[y]
                             \/ entries[y] = t /\ entries'[y] = Recipes!None
    BY <1>1, RemovedEntry
  <1>3. Processes'
    BY <1>1, <1>2 DEF RecipesInv, Processes
  <1>4. LockHeld' /\ Closing'
    <2>1. \A u \in Recipes!Tokens : tree[u] # "none" => whose[u] \in Agents
      BY DEF RecipesInv, Processes
    <2> QED BY <1>1, <1>2, <2>1 DEF RecipesInv, LockHeld, Closing
  <1>5. Recipes!LiveIsListed'
    <2> SUFFICES ASSUME NEW u \in Recipes!Tokens, Recipes!Living(u)
                 PROVE  entries'[whose[u]] = u \/ u \in op.of
      BY <1>1 DEF Recipes!LiveIsListed, Recipes!Living
    <2>1. u # t /\ whose[u] \in Agents
      BY <1>1 DEF RecipesInv, Processes, Recipes!Living
    <2> QED BY <1>2, <2>1 DEF RecipesInv, Recipes!LiveIsListed
  <1> QED BY <1>3, <1>4, <1>5 DEF RecipesInv

LEMMA RecipesTreeEnds ==
    ASSUME RecipesInv, NEW t \in Recipes!Tokens, Recipes!TreeEnds(t)
    PROVE  RecipesInv'
  <1>1. /\ tree[t] # "none" /\ tree' = [tree EXCEPT ![t] = "gone"]
        /\ UNCHANGED <<whose, entries, op, shutting, quit>>
    BY DEF Recipes!TreeEnds
  <1>2. /\ tree' \in [Recipes!Tokens -> {"none", "up", "termed", "killed", "gone"}]
        /\ \A u \in Recipes!Tokens : tree'[u] = "none" <=> tree[u] = "none"
        /\ \A u \in Recipes!Tokens : Recipes!Living(u)' => Recipes!Living(u)
    BY <1>1 DEF RecipesInv, Processes, Recipes!Living
  <1>3. Processes' /\ LockHeld' /\ Closing'
    BY <1>1, <1>2 DEF RecipesInv, Processes, LockHeld, Closing
  <1>4. Recipes!LiveIsListed'
    BY <1>1, <1>2 DEF RecipesInv, Recipes!LiveIsListed
  <1> QED BY <1>3, <1>4 DEF RecipesInv

LEMMA RecipesStep == RecipesInv /\ [Recipes!Next]_recipes => RecipesInv'
  <1> SUFFICES ASSUME RecipesInv, [Recipes!Next]_recipes PROVE RecipesInv'
    OBVIOUS
  <1>1. CASE UNCHANGED recipes
    BY <1>1 DEF recipes, RecipesInv, Processes, LockHeld, Closing, Recipes!LiveIsListed,
                Recipes!Living
  <1>2. CASE Recipes!Next
    BY <1>2, RecipesStart, RecipesRecord, RecipesStop, RecipesStopEnds, RecipesStopAll,
       RecipesStopAllEnds, RecipesQuit, RecipesWatcher, RecipesTreeEnds
       DEF Recipes!Next, Recipes!Locked, Recipes!Watch
  <1> QED BY <1>1, <1>2

\* A recipe's process that runs has its agent's entry, or a call that holds the lock is
\* about to record or to end it, and none runs on after stop_all, however starts, stops
\* and watchers cross (run_recipes/runner.rs).
THEOREM NoProcessForgotten == MCSpec => []NoneForgotten
  <1>1. MCInit => RecipesInv
    BY RecipesInitially DEF MCInit
  <1>2. RecipesInv /\ [MCNext]_<<part, vars, board, recipes>> => RecipesInv'
    BY RecipesStep, OneMachineSteps
  <1>3. RecipesInv => NoneForgotten
    <2> SUFFICES ASSUME RecipesInv, quit = "done", NEW t \in Recipes!Tokens, Recipes!Living(t)
                 PROVE  FALSE
      BY DEF NoneForgotten, RecipesInv, Recipes!NothingOutlivesQuit
    <2>1. op.of = {} /\ \A x \in Agents : entries[x] = Recipes!None
      BY DEF RecipesInv, LockHeld, Closing
    <2>2. whose[t] \in Agents /\ entries[whose[t]] = t
      BY <2>1 DEF RecipesInv, Processes, Recipes!LiveIsListed, Recipes!Living
    <2> QED BY <2>1, <2>2, TokensAreNumbers
  <1> QED BY <1>1, <1>2, <1>3, PTL DEF MCSpec

-----------------------------------------------------------------------------
(* The board                                                                *)

\* The records of the save and of the receive under way.
BoardShape ==
    /\ {loaded, dirty} \subseteq BOOLEAN
    /\ saving = [busy |-> saving.busy, snap |-> saving.snap, of |-> saving.of,
                 moved |-> saving.moved, written |-> saving.written]
    /\ {saving.busy, saving.moved, saving.written} \subseteq BOOLEAN
    /\ cycle = [pc |-> cycle.pc, stale |-> cycle.stale, files |-> cycle.files,
                acks |-> cycle.acks, rejects |-> cycle.rejects]
    /\ cycle.pc = "idle" => cycle = Board!Idle

\* What is in memory, in the save under way and on the disk: a save that nothing
\* has changed since is the tasks in memory, and tasks that are not dirty are saved.
CopiesAgree ==
    /\ dirty => loaded
    /\ error = "save" => dirty
    /\ saving.busy => dirty /\ durable \subseteq saving.of /\ saving.of \subseteq applied
    /\ saving.busy /\ ~saving.moved => saving.snap = items
    /\ saving.busy /\ saving.written => disk = saving.snap
    /\ loaded => durable \subseteq applied
    /\ loaded /\ ~dirty => disk = items /\ durable = applied

\* What the receive under way is about to acknowledge is in memory while it waits for
\* the save, and saved from then on.
ReceiptsCovered ==
    /\ cycle.pc # "idle" => loaded
    /\ cycle.pc = "flush" => cycle.acks \subseteq applied
    /\ cycle.pc = "ack" => cycle.acks \subseteq durable
    /\ acked \subseteq durable

\* An app that was closed has nothing left to do.
ClosedIsDone == app = "closed" => ~quitting /\ ~dirty /\ cycle = Board!Idle

BoardInv == BoardShape /\ CopiesAgree /\ ReceiptsCovered /\ ClosedIsDone

\* What the definitions of a save under way come to.
LEMMA Records ==
    /\ Board!NoSave.busy = FALSE /\ Board!NoSave.moved = FALSE /\ Board!NoSave.written = FALSE
    /\ Board!NoSave = [busy |-> FALSE, snap |-> Board!NoSave.snap, of |-> Board!NoSave.of,
                       moved |-> FALSE, written |-> FALSE]
    /\ Board!Idle.pc = "idle" /\ Board!Idle.acks = {} /\ Board!Idle.stale = FALSE
    /\ \A bd, fs : LET s == Board!Snapshot(bd, fs) IN
         /\ s = [busy |-> TRUE, snap |-> bd, of |-> fs, moved |-> FALSE, written |-> FALSE]
         /\ s.busy = TRUE /\ s.snap = bd /\ s.of = fs /\ s.moved = FALSE /\ s.written = FALSE
  BY DEF Board!NoSave, Board!Idle, Board!Snapshot

LEMMA BoardInitially == Board!Init => BoardInv
  <1> SUFFICES ASSUME Board!Init PROVE BoardInv
    OBVIOUS
  <1>1. BoardShape
    <2>1. saving = Board!NoSave /\ cycle = Board!Idle /\ loaded = FALSE /\ dirty = FALSE
      BY DEF Board!Init
    <2> QED BY <2>1, Records DEF BoardShape, Board!Idle
  <1>2. CopiesAgree /\ ReceiptsCovered /\ ClosedIsDone
    BY Records DEF Board!Init, CopiesAgree, ReceiptsCovered, ClosedIsDone
  <1> QED BY <1>1, <1>2 DEF BoardInv

\* A flush that changes nothing begins a save of the tasks in memory, or none.
LEMMA FlushSaves ==
    ASSUME BoardInv, Board!Flush(FALSE), UNCHANGED <<items, applied, dirty>>
    PROVE  \/ saving' = saving
           \/ ~saving.busy /\ dirty /\ saving' = Board!Snapshot(items, applied)
           \/ ~saving.busy /\ ~dirty /\ saving' = Board!NoSave
  <1>1. CASE saving.busy
    BY <1>1 DEF Board!Flush, BoardInv, BoardShape
  <1>2. CASE ~saving.busy
    BY <1>2 DEF Board!Flush, BoardInv, BoardShape
  <1> QED BY <1>1, <1>2

\* Steps that leave the copies and the receive alone but for such a save.
LEMMA BoardKept ==
    ASSUME BoardInv,
           UNCHANGED <<loaded, dirty, error, items, applied, disk, durable, acked>>,
           cycle' = cycle \/ cycle' = [cycle EXCEPT !.stale = cycle'.stale],
           cycle.pc = "idle" => cycle' = cycle,
           \/ saving' = saving
           \/ dirty /\ saving' = Board!Snapshot(items, applied)
           \/ ~saving.busy /\ ~dirty /\ saving' = Board!NoSave,
           app' = "closed" => ~quitting' /\ ~dirty /\ cycle' = Board!Idle
    PROVE  BoardInv'
  <1>1. /\ cycle'.pc = cycle.pc /\ cycle'.acks = cycle.acks
        /\ cycle' = [pc |-> cycle'.pc, stale |-> cycle'.stale, files |-> cycle'.files,
                     acks |-> cycle'.acks, rejects |-> cycle'.rejects]
        /\ cycle'.pc = "idle" => cycle' = Board!Idle
    BY DEF BoardInv, BoardShape
  <1>2. BoardShape'
    <2>1. CASE saving' = saving
      BY <1>1, <2>1 DEF BoardInv, BoardShape
    <2>2. CASE saving' = Board!Snapshot(items, applied)
      BY <1>1, <2>2, Records DEF BoardInv, BoardShape
    <2>3. CASE saving' = Board!NoSave
      BY <1>1, <2>3, Records DEF BoardInv, BoardShape
    <2> QED BY <2>1, <2>2, <2>3
  <1>3. CopiesAgree'
    BY Records DEF BoardInv, CopiesAgree
  <1>4. ReceiptsCovered' /\ ClosedIsDone'
    BY <1>1 DEF BoardInv, ReceiptsCovered, ClosedIsDone
  <1> QED BY <1>2, <1>3, <1>4 DEF BoardInv

LEMMA BoardTimerFlush == BoardInv /\ Board!TimerFlush => BoardInv'
  <1> SUFFICES ASSUME BoardInv, Board!TimerFlush PROVE BoardInv'
    OBVIOUS
  <1>1. /\ app = "up" /\ UNCHANGED <<loaded, dirty, error, items, applied, disk, durable, acked>>
        /\ Board!Flush(FALSE) /\ UNCHANGED <<cycle, app>>
    BY DEF Board!TimerFlush
  <1> QED BY <1>1, FlushSaves, BoardKept

LEMMA BoardSaveWritten == BoardInv /\ Board!SaveWritten => BoardInv'
  <1> SUFFICES ASSUME BoardInv, Board!SaveWritten PROVE BoardInv'
    OBVIOUS
  <1>1. /\ saving.busy /\ disk' = saving.snap /\ durable' = saving.of
        /\ UNCHANGED <<loaded, dirty, error, items, applied, acked, cycle, app, quitting>>
        /\ saving' = [saving EXCEPT !.written = TRUE]
    BY DEF Board!SaveWritten
  <1>2. /\ saving' = [busy |-> saving'.busy, snap |-> saving'.snap, of |-> saving'.of,
                      moved |-> saving'.moved, written |-> saving'.written]
        /\ saving'.busy = saving.busy /\ saving'.snap = saving.snap /\ saving'.of = saving.of
        /\ saving'.moved = saving.moved /\ saving'.written = TRUE
    BY <1>1 DEF BoardInv, BoardShape
  <1>3. BoardShape'
    BY <1>1, <1>2 DEF BoardInv, BoardShape
  <1>4. CopiesAgree'
    BY <1>1, <1>2 DEF BoardInv, BoardShape, CopiesAgree
  <1>5. ReceiptsCovered' /\ ClosedIsDone'
    BY <1>1 DEF BoardInv, CopiesAgree, ReceiptsCovered, ClosedIsDone
  <1> QED BY <1>3, <1>4, <1>5 DEF BoardInv

\* What a receive that awaits a save goes on with.
LEMMA SettledCycle ==
    ASSUME BoardInv, NEW ok \in BOOLEAN, cycle' = Board!Settled(ok)
    PROVE  \/ cycle' = cycle /\ cycle.pc # "flush"
           \/ ok /\ cycle.pc = "flush" /\ cycle'.pc = "ack" /\ cycle'.acks = cycle.acks
              /\ cycle' = [pc |-> cycle'.pc, stale |-> cycle'.stale, files |-> cycle'.files,
                           acks |-> cycle'.acks, rejects |-> cycle'.rejects]
           \/ cycle' = Board!Idle
  BY DEF Board!Settled, BoardInv, BoardShape

LEMMA BoardSaveOk == BoardInv /\ Board!SaveOk => BoardInv'
  <1> SUFFICES ASSUME BoardInv, Board!SaveOk PROVE BoardInv'
    OBVIOUS
  <1>1. /\ saving.busy /\ saving.written /\ error' = "none" /\ dirty' = saving.moved
        /\ durable' = IF saving.moved THEN durable ELSE applied
        /\ UNCHANGED <<loaded, items, applied, disk, acked, app, quitting>>
    BY DEF Board!SaveOk
  <1>2. loaded /\ dirty /\ app # "closed" /\ saving.moved \in BOOLEAN
    BY <1>1 DEF BoardInv, BoardShape, CopiesAgree, ClosedIsDone
  <1>3. CASE saving.moved
    <2>1. saving' = Board!Snapshot(items, applied) /\ UNCHANGED cycle /\ durable' = durable
          /\ dirty' = TRUE
      BY <1>1, <1>3, <1>2 DEF Board!SaveOk
    <2>2. BoardShape'
      BY <1>1, <2>1, Records DEF BoardInv, BoardShape
    <2>3. CopiesAgree'
      BY <1>1, <1>2, <2>1, Records DEF BoardInv, CopiesAgree
    <2>4. ReceiptsCovered' /\ ClosedIsDone'
      BY <1>1, <1>2, <2>1 DEF BoardInv, ReceiptsCovered, ClosedIsDone
    <2> QED BY <2>2, <2>3, <2>4 DEF BoardInv
  <1>4. CASE ~saving.moved
    <2>1. saving' = Board!NoSave /\ cycle' = Board!Settled(TRUE) /\ durable' = applied
          /\ dirty' = FALSE
      BY <1>1, <1>2, <1>4 DEF Board!SaveOk
    <2>2. \/ cycle' = cycle /\ cycle.pc # "flush"
          \/ cycle.pc = "flush" /\ cycle'.pc = "ack" /\ cycle'.acks = cycle.acks
             /\ cycle' = [pc |-> cycle'.pc, stale |-> cycle'.stale, files |-> cycle'.files,
                          acks |-> cycle'.acks, rejects |-> cycle'.rejects]
          \/ cycle' = Board!Idle
      BY <2>1, SettledCycle
    <2>3. BoardShape'
      BY <1>1, <2>1, <2>2, Records DEF BoardInv, BoardShape, Board!Idle
    <2>4. disk' = items' /\ durable \subseteq applied
      BY <1>1, <1>2, <1>4 DEF BoardInv, CopiesAgree
    <2>5. CopiesAgree'
      BY <1>1, <1>2, <2>1, <2>4, Records DEF CopiesAgree
    <2>6. ReceiptsCovered'
      BY <1>1, <1>2, <2>1, <2>2, <2>4, Records DEF BoardInv, ReceiptsCovered
    <2>7. ClosedIsDone'
      BY <1>1, <1>2 DEF ClosedIsDone
    <2> QED BY <2>3, <2>5, <2>6, <2>7 DEF BoardInv
  <1> QED BY <1>3, <1>4

LEMMA BoardSaveFails == BoardInv /\ Board!SaveFails => BoardInv'
  <1> SUFFICES ASSUME BoardInv, Board!SaveFails PROVE BoardInv'
    OBVIOUS
  <1>1. /\ saving.busy /\ saving' = Board!NoSave /\ dirty' = TRUE /\ error' = "save"
        /\ cycle' = Board!Settled(FALSE)
        /\ UNCHANGED <<loaded, items, applied, disk, durable, acked, app, quitting>>
    BY DEF Board!SaveFails
  <1>2. loaded /\ dirty /\ app # "closed"
    BY <1>1 DEF BoardInv, BoardShape, CopiesAgree, ClosedIsDone
  <1>3. cycle' = cycle \/ cycle' = Board!Idle
    BY <1>1, SettledCycle
  <1>4. BoardShape'
    BY <1>1, <1>3, Records DEF BoardInv, BoardShape, Board!Idle
  <1>5. CopiesAgree'
    BY <1>1, <1>2, Records DEF BoardInv, CopiesAgree
  <1>6. ReceiptsCovered' /\ ClosedIsDone'
    BY <1>1, <1>2, <1>3, Records DEF BoardInv, ReceiptsCovered, ClosedIsDone
  <1> QED BY <1>4, <1>5, <1>6 DEF BoardInv

\* Steps of the receive that leave the store alone.
LEMMA BoardCycle ==
    ASSUME BoardInv, app # "closed" \/ cycle' = Board!Idle, loaded,
           UNCHANGED <<loaded, dirty, error, items, applied, disk, durable, app, quitting>>,
           saving' = saving \/ (dirty /\ saving' = Board!Snapshot(items, applied)),
           \/ cycle' = Board!Idle
           \/ /\ cycle' = [pc |-> cycle'.pc, stale |-> cycle'.stale, files |-> cycle'.files,
                           acks |-> cycle'.acks, rejects |-> cycle'.rejects]
              /\ cycle'.pc \notin {"idle", "flush"}
              /\ cycle'.pc = "ack" => cycle'.acks \subseteq durable,
           acked' \subseteq durable
    PROVE  BoardInv'
  <1>1. BoardShape'
    <2>1. /\ cycle' = [pc |-> cycle'.pc, stale |-> cycle'.stale, files |-> cycle'.files,
                       acks |-> cycle'.acks, rejects |-> cycle'.rejects]
          /\ cycle'.pc = "idle" => cycle' = Board!Idle
      BY DEF Board!Idle
    <2>2. CASE saving' = saving
      BY <2>1, <2>2 DEF BoardInv, BoardShape
    <2>3. CASE saving' = Board!Snapshot(items, applied)
      BY <2>1, <2>3, Records DEF BoardInv, BoardShape
    <2> QED BY <2>2, <2>3
  <1>2. CopiesAgree'
    BY Records DEF BoardInv, CopiesAgree
  <1>3. ReceiptsCovered' /\ ClosedIsDone'
    BY Records DEF BoardInv, ReceiptsCovered, ClosedIsDone
  <1> QED BY <1>1, <1>2, <1>3 DEF BoardInv

LEMMA BoardTick == BoardInv /\ Board!Tick => BoardInv'
  <1> SUFFICES ASSUME BoardInv, Board!Tick PROVE BoardInv'
    OBVIOUS
  <1>1. /\ app = "up" /\ loaded
        /\ UNCHANGED <<loaded, dirty, error, items, applied, disk, durable, app, quitting,
                       saving, acked>>
        /\ cycle' = [Board!Idle EXCEPT !.pc = "scan"]
    BY DEF Board!Tick, Board!store
  <1>2. /\ cycle' = [pc |-> cycle'.pc, stale |-> cycle'.stale, files |-> cycle'.files,
                     acks |-> cycle'.acks, rejects |-> cycle'.rejects]
        /\ cycle'.pc = "scan"
    BY <1>1 DEF Board!Idle
  <1>3. acked' \subseteq durable
    BY <1>1 DEF BoardInv, ReceiptsCovered
  <1> QED BY <1>1, <1>2, <1>3, BoardCycle

LEMMA BoardScan == BoardInv /\ Board!Scan => BoardInv'
  <1> SUFFICES ASSUME BoardInv, Board!Scan PROVE BoardInv'
    OBVIOUS
  <1>1. /\ cycle.pc = "scan"
        /\ UNCHANGED <<acked, disk, durable, app, items, applied, loaded, dirty, error, quitting>>
    BY DEF Board!Scan
  <1>2. loaded /\ app # "closed"
    BY <1>1, Records DEF BoardInv, ReceiptsCovered, ClosedIsDone
  <1>3. saving' = saving \/ (error = "save" /\ saving' = Board!Snapshot(items, applied))
    BY DEF Board!Scan
  <1>4. cycle' = Board!Idle \/ \E at \in {"retry", "import"} :
            \E fs : cycle' = [cycle EXCEPT !.pc = at, !.files = fs]
    BY DEF Board!Scan
  <1>5. \/ cycle' = Board!Idle
        \/ /\ cycle' = [pc |-> cycle'.pc, stale |-> cycle'.stale, files |-> cycle'.files,
                        acks |-> cycle'.acks, rejects |-> cycle'.rejects]
           /\ cycle'.pc \in {"retry", "import"}
    BY <1>4 DEF BoardInv, BoardShape
  <1>6. acked' \subseteq durable
    BY <1>1 DEF BoardInv, ReceiptsCovered
  <1>7. saving' = saving \/ (dirty /\ saving' = Board!Snapshot(items, applied))
    BY <1>3 DEF BoardInv, CopiesAgree
  <1> QED BY <1>1, <1>2, <1>5, <1>6, <1>7, BoardCycle

\* Whatever the requests make of the board: what they leave as it is, is saved.
LEMMA BoardImport == BoardInv /\ Board!Import => BoardInv'
  <1> SUFFICES ASSUME BoardInv, Board!Import PROVE BoardInv'
    OBVIOUS
  <1>1. PICK changed \in BOOLEAN :
          /\ changed \/ items' = items
          /\ applied \subseteq applied' /\ dirty' = (dirty \/ changed)
          /\ durable' = IF dirty' THEN durable ELSE applied'
          /\ Board!Flush(changed)
          /\ \E fs, rs : /\ fs \subseteq applied'
                         /\ cycle' = [cycle EXCEPT !.pc = IF saving'.busy THEN "flush" ELSE "ack",
                                                   !.acks = fs, !.rejects = rs]
    <2> DEFINE batch == IF error = "none" THEN cycle.files ELSE <<>>
               adds == SelectSeq(batch, Board!IsAdd)
               reqs == SelectSeq(batch, LAMBDA f : ~Board!IsAdd(f))
               done == Board!ApplyAll(Board!Imported(items, adds), reqs)
               taken == Board!Added(items, adds) \cup done.ok
               moved == \/ Board!New(items, adds) # <<>>
                        \/ \E f \in done.ok : Request[f].kind # "done"
                        \/ done.board # items
    <2>1. /\ items' = done.board /\ applied' = applied \cup taken
          /\ dirty' = (dirty \/ moved)
          /\ durable' = IF dirty' THEN durable ELSE applied'
          /\ Board!Flush(moved)
          /\ cycle' = [cycle EXCEPT !.pc = IF saving'.busy THEN "flush" ELSE "ack",
                                    !.acks = Board!ToSet(batch) \cap taken,
                                    !.rejects = Board!ToSet(batch) \ taken]
      BY DEF Board!Import
    <2>2. moved \in BOOLEAN /\ (moved \/ done.board = items)
      OBVIOUS
    <2>3. Board!ToSet(batch) \cap taken \subseteq applied'
      BY <2>1
    <2> HIDE DEF moved, taken, batch, done
    <2> QED BY <2>1, <2>2, <2>3
  <1>2. /\ cycle.pc # "idle" /\ UNCHANGED <<acked, disk, app, loaded, error, quitting>>
    BY DEF Board!Import
  <1>3. loaded /\ app # "closed" /\ {dirty, dirty'} \subseteq BOOLEAN
    BY <1>1, <1>2, Records DEF BoardInv, BoardShape, ReceiptsCovered, ClosedIsDone
  <1>4. /\ cycle' = [pc |-> cycle'.pc, stale |-> cycle'.stale, files |-> cycle'.files,
                     acks |-> cycle'.acks, rejects |-> cycle'.rejects]
        /\ cycle'.pc = IF saving'.busy THEN "flush" ELSE "ack"
        /\ cycle'.acks \subseteq applied'
    BY <1>1 DEF BoardInv, BoardShape
  <1>5. CASE saving.busy
    <2>1. saving' = [saving EXCEPT !.moved = @ \/ changed]
      BY <1>1, <1>5 DEF Board!Flush
    <2>2. /\ saving' = [busy |-> saving'.busy, snap |-> saving'.snap, of |-> saving'.of,
                        moved |-> saving'.moved, written |-> saving'.written]
          /\ saving'.busy = saving.busy /\ saving'.snap = saving.snap
          /\ saving'.of = saving.of /\ saving'.written = saving.written
          /\ saving'.moved = (saving.moved \/ changed)
      BY <2>1 DEF BoardInv, BoardShape
    <2>3. dirty /\ dirty' /\ durable' = durable
      BY <1>1, <1>5 DEF BoardInv, CopiesAgree
    <2>4. BoardShape'
      BY <1>1, <1>2, <1>3, <1>4, <2>2, <2>3 DEF BoardInv, BoardShape
    <2>5. CopiesAgree'
      BY <1>1, <1>2, <1>3, <1>5, <2>2, <2>3 DEF BoardInv, CopiesAgree
    <2>6. ReceiptsCovered' /\ ClosedIsDone'
      BY <1>2, <1>3, <1>4, <1>5, <2>2, <2>3 DEF BoardInv, ReceiptsCovered, ClosedIsDone
    <2> QED BY <2>4, <2>5, <2>6 DEF BoardInv
  <1>6. CASE ~saving.busy /\ dirty'
    <2>1. saving' = Board!Snapshot(items', applied') /\ durable' = durable
      BY <1>1, <1>6 DEF Board!Flush
    <2>2. durable \subseteq applied'
      BY <1>1, <1>3 DEF BoardInv, CopiesAgree
    <2>3. BoardShape'
      BY <1>2, <1>3, <1>4, <2>1, Records DEF BoardInv, BoardShape
    <2>4. CopiesAgree'
      BY <1>2, <1>3, <1>6, <2>1, <2>2, Records DEF BoardInv, CopiesAgree
    <2>5. ReceiptsCovered' /\ ClosedIsDone'
      BY <1>2, <1>3, <1>4, <2>1, Records DEF BoardInv, ReceiptsCovered, ClosedIsDone
    <2> QED BY <2>3, <2>4, <2>5 DEF BoardInv
  <1>7. CASE ~saving.busy /\ ~dirty'
    <2>1. saving' = Board!NoSave /\ durable' = applied' /\ ~dirty /\ ~changed
      BY <1>1, <1>3, <1>7 DEF Board!Flush
    <2>2. disk = items /\ durable = applied /\ error # "save"
      BY <1>3, <2>1 DEF BoardInv, CopiesAgree
    <2>3. BoardShape'
      BY <1>2, <1>3, <1>4, <2>1, Records DEF BoardInv, BoardShape
    <2>4. CopiesAgree'
      BY <1>1, <1>2, <1>3, <1>7, <2>1, <2>2, Records DEF CopiesAgree
    <2>5. ReceiptsCovered' /\ ClosedIsDone'
      BY <1>1, <1>2, <1>3, <1>4, <2>1, <2>2, Records
         DEF BoardInv, ReceiptsCovered, ClosedIsDone
    <2> QED BY <2>3, <2>4, <2>5 DEF BoardInv
  <1> QED BY <1>5, <1>6, <1>7

LEMMA BoardAck == BoardInv /\ (Board!Ack \/ Board!Reject) => BoardInv'
  <1> SUFFICES ASSUME BoardInv, Board!Ack \/ Board!Reject PROVE BoardInv'
    OBVIOUS
  <1>1. /\ cycle.pc = "ack"
        /\ UNCHANGED <<loaded, dirty, error, items, applied, disk, durable, app, quitting, saving>>
    BY DEF Board!Ack, Board!Reject, Board!store
  <1>2. loaded /\ app # "closed" /\ cycle.acks \subseteq durable /\ acked \subseteq durable
    BY <1>1, Records DEF BoardInv, ReceiptsCovered, ClosedIsDone
  <1>3. CASE Board!Ack
    <2>1. PICK f \in cycle.acks :
            acked' = acked \cup {f} /\ cycle' = [cycle EXCEPT !.acks = @ \ {f}]
      BY <1>3 DEF Board!Ack
    <2>2. /\ cycle' = [pc |-> cycle'.pc, stale |-> cycle'.stale, files |-> cycle'.files,
                       acks |-> cycle'.acks, rejects |-> cycle'.rejects]
          /\ cycle'.pc = "ack" /\ cycle'.acks = cycle.acks \ {f}
      BY <1>1, <2>1 DEF BoardInv, BoardShape
    <2> QED BY <1>1, <1>2, <2>1, <2>2, BoardCycle
  <1>4. CASE Board!Reject
    <2>1. PICK f \in cycle.rejects :
            acked' = acked /\ cycle' = [cycle EXCEPT !.rejects = @ \ {f}]
      BY <1>4 DEF Board!Reject
    <2>2. /\ cycle' = [pc |-> cycle'.pc, stale |-> cycle'.stale, files |-> cycle'.files,
                       acks |-> cycle'.acks, rejects |-> cycle'.rejects]
          /\ cycle'.pc = "ack" /\ cycle'.acks = cycle.acks
      BY <1>1, <2>1 DEF BoardInv, BoardShape
    <2> QED BY <1>1, <1>2, <2>1, <2>2, BoardCycle
  <1> QED BY <1>3, <1>4

LEMMA BoardReceived == BoardInv /\ (Board!Received \/ Board!AckFails) => BoardInv'
  <1> SUFFICES ASSUME BoardInv, Board!Received \/ Board!AckFails PROVE BoardInv'
    OBVIOUS
  <1>1. /\ cycle.pc = "ack" /\ cycle' = Board!Idle
        /\ UNCHANGED <<loaded, dirty, error, items, applied, disk, durable, app, quitting,
                       saving, acked>>
    BY DEF Board!Received, Board!AckFails, Board!store
  <1>2. loaded /\ acked \subseteq durable
    BY <1>1 DEF BoardInv, ReceiptsCovered
  <1> QED BY <1>1, <1>2, BoardCycle

LEMMA BoardPut == ASSUME BoardInv, NEW f \in Files, Board!Put(f) PROVE BoardInv'
  <1>1. UNCHANGED <<loaded, dirty, error, items, applied, disk, durable, acked, saving, cycle,
                    app, quitting>>
    BY DEF Board!Put, Board!store
  <1> QED BY <1>1, BoardKept DEF BoardInv, ClosedIsDone

LEMMA BoardPerson == BoardInv /\ Board!Person => BoardInv'
  <1> SUFFICES ASSUME BoardInv, Board!Person PROVE BoardInv'
    OBVIOUS
  <1>1. /\ app = "up" /\ loaded /\ dirty' = TRUE
        /\ saving' = [saving EXCEPT !.moved = saving.busy]
        /\ UNCHANGED <<loaded, error, applied, disk, durable, acked, cycle, app>>
    BY DEF Board!Person, Board!Change
  <1>2. /\ saving' = [busy |-> saving'.busy, snap |-> saving'.snap, of |-> saving'.of,
                      moved |-> saving'.moved, written |-> saving'.written]
        /\ saving'.busy = saving.busy /\ saving'.snap = saving.snap /\ saving'.of = saving.of
        /\ saving'.moved = saving.busy /\ saving'.written = saving.written
    BY <1>1 DEF BoardInv, BoardShape
  <1>3. BoardShape'
    BY <1>1, <1>2 DEF BoardInv, BoardShape
  <1>4. CopiesAgree'
    BY <1>1, <1>2 DEF BoardInv, CopiesAgree
  <1>5. ReceiptsCovered' /\ ClosedIsDone'
    BY <1>1 DEF BoardInv, ReceiptsCovered, ClosedIsDone
  <1> QED BY <1>3, <1>4, <1>5 DEF BoardInv

LEMMA BoardLoad == BoardInv /\ (Board!Load \/ Board!LoadFails) => BoardInv'
  <1> SUFFICES ASSUME BoardInv, Board!Load \/ Board!LoadFails PROVE BoardInv'
    OBVIOUS
  <1>1. /\ app = "up" /\ ~loaded
        /\ UNCHANGED <<dirty, disk, durable, acked, cycle, app, saving>>
    BY DEF Board!Load, Board!LoadFails
  <1>2. ~dirty /\ ~saving.busy /\ cycle.pc = "idle" /\ acked \subseteq durable
    BY <1>1 DEF BoardInv, BoardShape, CopiesAgree, ReceiptsCovered
  <1>3. CASE Board!Load
    <2>1. items' = disk /\ applied' = durable /\ loaded' = TRUE /\ error' = "none"
      BY <1>3 DEF Board!Load
    <2>2. BoardShape'
      BY <1>1, <2>1 DEF BoardInv, BoardShape
    <2>3. CopiesAgree' /\ ReceiptsCovered' /\ ClosedIsDone'
      BY <1>1, <1>2, <2>1 DEF CopiesAgree, ReceiptsCovered, ClosedIsDone
    <2> QED BY <2>2, <2>3 DEF BoardInv
  <1>4. CASE Board!LoadFails
    <2>1. error' = "load" /\ UNCHANGED <<items, applied, loaded>>
      BY <1>4 DEF Board!LoadFails
    <2>2. BoardShape'
      BY <1>1, <2>1 DEF BoardInv, BoardShape
    <2>3. CopiesAgree' /\ ReceiptsCovered' /\ ClosedIsDone'
      BY <1>1, <1>2, <2>1 DEF CopiesAgree, ReceiptsCovered, ClosedIsDone
    <2> QED BY <2>2, <2>3 DEF BoardInv
  <1> QED BY <1>3, <1>4

LEMMA BoardSwitch == BoardInv /\ (Board!Switch \/ Board!Quit) => BoardInv'
  <1> SUFFICES ASSUME BoardInv, Board!Switch \/ Board!Quit PROVE BoardInv'
    OBVIOUS
  <1>1. /\ app = "up" /\ app' = "up"
        /\ UNCHANGED <<loaded, dirty, error, items, applied, disk, durable, acked>>
    BY DEF Board!Switch, Board!Quit, Board!store
  <1>2. \E stale : cycle' = [cycle EXCEPT !.stale = stale]
    BY DEF Board!Switch, Board!Quit
  <1>3. cycle' = [cycle EXCEPT !.stale = cycle'.stale]
    BY <1>2 DEF BoardInv, BoardShape
  <1>4. cycle.pc = "idle" => cycle' = cycle
    <2> SUFFICES ASSUME cycle.pc = "idle" PROVE cycle' = cycle
      OBVIOUS
    <2>1. cycle = Board!Idle
      BY DEF BoardInv, BoardShape
    <2>2. cycle' = [cycle EXCEPT !.stale = FALSE]
      BY <2>1 DEF Board!Switch, Board!Quit, Board!Idle
    <2>3. cycle = [pc |-> "idle", stale |-> FALSE, files |-> <<>>, acks |-> {}, rejects |-> {}]
      BY <2>1 DEF Board!Idle
    <2>4. cycle' = [pc |-> "idle", stale |-> FALSE, files |-> <<>>, acks |-> {}, rejects |-> {}]
      BY <2>2, <2>3
    <2> QED BY <2>3, <2>4
  <1>5. \/ saving' = saving
        \/ dirty /\ saving' = Board!Snapshot(items, applied)
        \/ ~saving.busy /\ ~dirty /\ saving' = Board!NoSave
    <2>1. CASE Board!Switch
      BY <2>1 DEF Board!Switch, Board!store
    <2>2. CASE Board!Quit
      <3>1. saving' = saving \/ Board!Flush(FALSE)
        BY <2>2 DEF Board!Quit
      <3> QED BY <1>1, <3>1, FlushSaves
    <2> QED BY <2>1, <2>2
  <1> QED BY <1>1, <1>3, <1>4, <1>5, BoardKept

LEMMA BoardQuitEnds == BoardInv /\ (Board!QuitEnds \/ Board!QuitCancelled) => BoardInv'
  <1> SUFFICES ASSUME BoardInv, Board!QuitEnds \/ Board!QuitCancelled PROVE BoardInv'
    OBVIOUS
  <1>1. /\ quitting
        /\ UNCHANGED <<loaded, dirty, error, items, applied, disk, durable, acked, saving, cycle>>
        /\ app' = app \/ (Board!QuitEnds /\ app' = "closed" /\ ~dirty)
        /\ ~quitting'
    BY DEF Board!QuitEnds, Board!QuitCancelled, Board!store
  <1>2. app # "closed"
    BY <1>1 DEF BoardInv, ClosedIsDone
  <1>3. Board!QuitEnds => cycle = Board!Idle
    BY DEF Board!QuitEnds, BoardInv, BoardShape
  <1> QED BY <1>1, <1>2, <1>3, BoardKept

LEMMA BoardCrash == BoardInv /\ Board!Crash => BoardInv'
  <1> SUFFICES ASSUME BoardInv, Board!Crash PROVE BoardInv'
    OBVIOUS
  <1>1. /\ app' = "down" /\ ~loaded' /\ ~dirty' /\ error' = "none" /\ saving' = Board!NoSave
        /\ cycle' = Board!Idle /\ loaded' \in BOOLEAN /\ dirty' \in BOOLEAN
        /\ UNCHANGED <<disk, durable, acked>>
    BY DEF Board!Crash, Board!Gone
  <1>2. BoardShape'
    BY <1>1, Records DEF BoardShape, Board!Idle
  <1>3. CopiesAgree' /\ ClosedIsDone'
    BY <1>1, Records DEF CopiesAgree, ClosedIsDone
  <1>4. ReceiptsCovered'
    BY <1>1, Records DEF BoardInv, ReceiptsCovered
  <1> QED BY <1>2, <1>3, <1>4 DEF BoardInv

LEMMA BoardRestart == BoardInv /\ Board!Restart => BoardInv'
  <1> SUFFICES ASSUME BoardInv, Board!Restart PROVE BoardInv'
    OBVIOUS
  <1>1. /\ app' = "up"
        /\ UNCHANGED <<loaded, dirty, error, items, applied, disk, durable, acked, saving, cycle>>
    BY DEF Board!Restart, Board!store
  <1> QED BY <1>1, BoardKept

LEMMA BoardStep == BoardInv /\ [Board!Next]_board => BoardInv'
  <1> SUFFICES ASSUME BoardInv, [Board!Next]_board PROVE BoardInv'
    OBVIOUS
  <1>1. CASE UNCHANGED board
    BY <1>1 DEF board, BoardInv, BoardShape, CopiesAgree, ReceiptsCovered, ClosedIsDone
  <1>2. CASE Board!Next
    BY <1>2, BoardTimerFlush, BoardSaveWritten, BoardSaveOk, BoardSaveFails, BoardTick,
       BoardScan, BoardImport, BoardAck, BoardReceived, BoardPut, BoardPerson, BoardLoad,
       BoardSwitch, BoardQuitEnds, BoardCrash, BoardRestart
       DEF Board!Next, Board!Saves, Board!Receives
  <1> QED BY <1>1, <1>2

LEMMA BoardInvariant == MCSpec => []BoardInv
  <1>1. MCInit => BoardInv
    BY BoardInitially DEF MCInit
  <1>2. BoardInv /\ [MCNext]_<<part, vars, board, recipes>> => BoardInv'
    BY BoardStep, OneMachineSteps
  <1> QED BY <1>1, <1>2, PTL DEF MCSpec

\* A request file is removed as received only when it is part of the saved board, whatever
\* saves and acknowledgements fail, the app crashes and people edit (workInbox.ts).
THEOREM NothingAckedEarly == MCSpec => []AckedIsDurable
  <1>1. BoardInv => AckedIsDurable
    BY DEF BoardInv, ReceiptsCovered, AckedIsDurable, Board!AckedIsDurable
  <1> QED BY <1>1, BoardInvariant, PTL

\* A confirmed quit leaves nothing behind that was only in memory, and no receive half
\* done (workItemStore.ts, lifecycle.ts, ConfirmQuitDialog.tsx).
THEOREM NothingLostAtQuit == MCSpec => []QuitLosesNothing
  <1>1. BoardInv => QuitLosesNothing
    BY DEF BoardInv, CopiesAgree, ClosedIsDone, QuitLosesNothing, Board!QuitLosesNothing
  <1> QED BY <1>1, BoardInvariant, PTL
=============================================================================
