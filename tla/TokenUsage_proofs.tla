----------------------------- MODULE TokenUsage_proofs -----------------------------
(***************************************************************************)
(* Theorems about the counters of tokens that MCHooks instantiates         *)
(* (CodexUsage, ClaudeUsage, AgyUsage), for any values of their constants: *)
(* no token is counted twice, and none is missed.                          *)
(*                                                                         *)
(* That none is missed needs transcripts of claude no longer than the tail *)
(* that is read of them: beyond it, responses are left out.                *)
(***************************************************************************)
EXTENDS MCHooks, SequenceTheorems, FiniteSetTheorems, NaturalsInduction,
        WellFoundedInduction, TLAPS

-----------------------------------------------------------------------------
(* Tokens of agy                                                            *)

\* A step of the composition is a step of one counter, or leaves it alone.
LEMMA CounterSteps ==
    [MCNext]_allVars =>
        /\ part' = part
        /\ [Codex!Next]_codex
        /\ part = "pair" => [Pair!Next]_claude
        /\ part # "pair" => [OneHook!Next]_claude
        /\ part = "moves" => [Moves!Next]_agy
        /\ part # "moves" => [Keeps!Next]_agy
  BY DEF MCNext, allVars, IsHub

\* What was counted before and by this run of the app, of a response.
Times(i) == before[Conv][i] + answers[Conv][i]

\* A session that keeps to its conversation has counted each response once: all of them
\* between turns, those up to the watermark within one.
KeptInv ==
    /\ rows \in [{Conv} -> 0 .. KeptRows] /\ conv = Conv /\ open \in BOOLEAN
    /\ watermark \in 0 .. Keeps!None
    /\ answers \in [{Conv} -> [Keeps!Rows -> Nat]] /\ before \in [{Conv} -> [Keeps!Rows -> Nat]]
    /\ open => /\ Keeps!Baseline <= rows[Conv]
               /\ \A i \in Keeps!Rows : Times(i) = IF i <= Keeps!Baseline THEN 1 ELSE 0
    /\ ~open => /\ watermark \in {rows[Conv], Keeps!None}
                /\ \A i \in Keeps!Rows : Times(i) = IF i <= rows[Conv] THEN 1 ELSE 0

\* What was counted lies below the watermark, in whichever conversation it was.
MovedInv ==
    /\ rows \in [Convs -> 0 .. MovedRows] /\ conv \in Convs
    /\ watermark \in 0 .. Moves!None /\ answers \in [Convs -> [Moves!Rows -> Nat]]
    /\ \A c \in Convs : \A i \in Moves!Rows :
         /\ answers[c][i] <= 1
         /\ answers[c][i] > 0 => watermark # Moves!None /\ i <= watermark

\* What the ASSUME of MCHooks says of the constants of the agy counters.
LEMMA AgyFits ==
    /\ KeptHistory \subseteq 0 .. KeptRows /\ KeptRows \in Nat
    /\ MovedHistory \subseteq 0 .. MovedRows /\ MovedRows \in Nat
  BY InstancesFit DEF Keeps!ConstantsFit, Moves!ConstantsFit

LEMMA KeptStarts == Keeps!Init => KeptInv
<1> SUFFICES ASSUME Keeps!Init PROVE KeptInv
  OBVIOUS
<1>1. /\ rows \in [{Conv} -> KeptHistory] /\ conv = Conv /\ open = FALSE
      /\ watermark = Keeps!None
  BY DEF Keeps!Init
<1>5. rows \in [{Conv} -> 0 .. KeptRows] /\ watermark \in 0 .. Keeps!None
  <2>1. \A c \in {Conv} : rows[c] \in 0 .. KeptRows
    BY <1>1, AgyFits
  <2>2. rows \in [{Conv} -> 0 .. KeptRows]
    BY <1>1, <2>1
  <2>3. watermark \in 0 .. Keeps!None
    BY <1>1, AgyFits DEF Keeps!None
  <2> QED BY <2>2, <2>3
<1>2. /\ answers = [c \in {Conv} |-> [i \in Keeps!Rows |-> 0]]
      /\ before = [c \in {Conv} |-> [i \in Keeps!Rows |-> IF i <= rows[c] THEN 1 ELSE 0]]
  BY DEF Keeps!Init
<1>3. \A i \in Keeps!Rows : Times(i) = IF i <= rows[Conv] THEN 1 ELSE 0
  BY <1>2 DEF Times
<1>4. /\ answers \in [{Conv} -> [Keeps!Rows -> Nat]]
      /\ before \in [{Conv} -> [Keeps!Rows -> Nat]]
  BY <1>2
<1> QED BY <1>1, <1>3, <1>4, <1>5 DEF KeptInv

\* Stop counts exactly what lies above the watermark.
LEMMA KeptStep == restarts \in Nat /\ KeptInv /\ [Keeps!Next]_agy => KeptInv'
<1> SUFFICES ASSUME restarts \in Nat, KeptInv, [Keeps!Next]_agy PROVE KeptInv'
  OBVIOUS
<1> USE AgyFits DEF Keeps!None, Keeps!Rows, Keeps!Baseline
<1>0. /\ rows \in [{Conv} -> 0 .. KeptRows] /\ rows[Conv] \in 0 .. KeptRows
      /\ \A i \in Keeps!Rows : /\ i \in Nat /\ answers[Conv][i] \in Nat
                               /\ before[Conv][i] \in Nat
  <2>1. /\ rows \in [{Conv} -> 0 .. KeptRows]
        /\ answers[Conv] \in [Keeps!Rows -> Nat] /\ before[Conv] \in [Keeps!Rows -> Nat]
    BY DEF KeptInv
  <2> QED BY <2>1
<1>1. CASE UNCHANGED agy
  BY <1>1 DEF KeptInv, agy, Times
<1>2. CASE Keeps!Prompt
  <2>1. /\ ~open /\ open' = TRUE /\ UNCHANGED <<rows, answers, before, conv>>
        /\ watermark' = IF watermark = Keeps!None THEN Keeps!LastRow ELSE watermark
    BY <1>2 DEF Keeps!Prompt
  <2>2. Keeps!Baseline' = rows[Conv] /\ watermark' \in 0 .. Keeps!None
    BY <1>0, <2>1 DEF KeptInv, Keeps!LastRow
  <2> QED BY <1>0, <2>1, <2>2 DEF KeptInv, Times
<1>3. CASE Keeps!Respond
  <2>1. /\ open /\ rows[Conv] < KeptRows /\ rows' = [rows EXCEPT ![Conv] = @ + 1]
        /\ UNCHANGED <<answers, before, conv, open, watermark>>
    BY <1>3 DEF Keeps!Respond, KeptInv
  <2>2. rows' \in [{Conv} -> 0 .. KeptRows] /\ rows'[Conv] = rows[Conv] + 1
    BY <1>0, <2>1
  <2> QED BY <1>0, <2>1, <2>2 DEF KeptInv, Times
<1>4. CASE Keeps!Stop
  <2>1. /\ open /\ open' = FALSE /\ UNCHANGED <<rows, before, conv>>
        /\ answers' = [answers EXCEPT ![Conv] =
                [i \in Keeps!Rows |-> IF i \in Keeps!Above THEN @[i] + 1 ELSE @[i]]]
        /\ watermark' = IF Keeps!Above = {} THEN watermark ELSE rows[Conv]
    BY <1>4 DEF Keeps!Stop, KeptInv
  <2>2. /\ answers' \in [{Conv} -> [Keeps!Rows -> Nat]]
        /\ \A i \in Keeps!Rows : answers'[Conv][i] =
             IF i \in Keeps!Above THEN answers[Conv][i] + 1 ELSE answers[Conv][i]
    BY <1>0, <2>1 DEF KeptInv
  <2>3. /\ \A i \in Keeps!Rows : i \in Keeps!Above <=> i > Keeps!Baseline /\ i <= rows[Conv]
        /\ Keeps!Baseline <= rows[Conv] /\ Keeps!Baseline \in Nat
        /\ \A i \in Keeps!Above : i > Keeps!Baseline /\ i <= rows[Conv]
    BY <1>0, <2>1 DEF Keeps!Above, KeptInv
  <2>4. \A i \in Keeps!Rows : Times(i)' = IF i <= rows[Conv] THEN 1 ELSE 0
    <3> SUFFICES ASSUME NEW i \in Keeps!Rows
                 PROVE  Times(i)' = IF i <= rows[Conv] THEN 1 ELSE 0
      OBVIOUS
    <3>1. Times(i) = IF i <= Keeps!Baseline THEN 1 ELSE 0
      BY <2>1 DEF KeptInv
    <3>2. Times(i)' = IF i \in Keeps!Above THEN Times(i) + 1 ELSE Times(i)
      BY <1>0, <2>1, <2>2 DEF Times
    <3> HIDE DEF Keeps!Baseline, Keeps!Rows
    <3> QED BY <1>0, <2>3, <3>1, <3>2
  <2>5. watermark' \in {rows[Conv], Keeps!None}
    <3>1. CASE Keeps!Above = {}
      <4>1. rows[Conv] \notin Keeps!Rows \/ rows[Conv] <= Keeps!Baseline
        BY <2>3, <3>1
      <4>2. rows[Conv] = Keeps!Baseline
        BY <1>0, <2>3, <4>1
      <4> QED BY <2>1, <3>1, <4>2
    <3>2. CASE Keeps!Above # {}
      BY <2>1, <3>2
    <3> QED BY <3>1, <3>2
  <2>6. watermark' \in 0 .. Keeps!None /\ rows' = rows /\ conv' = Conv /\ before' = before
    BY <1>0, <2>1, <2>5 DEF KeptInv
  <2> QED BY <2>1, <2>2, <2>4, <2>5, <2>6 DEF KeptInv
<1>5. CASE Keeps!Switch
  BY <1>5 DEF Keeps!Switch, KeptInv
<1>6. CASE Keeps!Restart
  BY <1>6 DEF Keeps!Restart
<1> QED BY <1>1, <1>2, <1>3, <1>4, <1>5, <1>6 DEF Keeps!Next

LEMMA MovedStarts == Moves!Init => MovedInv
<1> SUFFICES ASSUME Moves!Init PROVE MovedInv
  OBVIOUS
<1>1. /\ rows \in [Convs -> MovedHistory] /\ conv \in Convs /\ watermark = Moves!None
      /\ answers = [c \in Convs |-> [i \in Moves!Rows |-> 0]]
  BY DEF Moves!Init
<1>2. rows \in [Convs -> 0 .. MovedRows] /\ watermark \in 0 .. Moves!None
  <2>1. \A c \in Convs : rows[c] \in 0 .. MovedRows
    BY <1>1, AgyFits
  <2>2. rows \in [Convs -> 0 .. MovedRows]
    BY <1>1, <2>1
  <2>3. watermark \in 0 .. Moves!None
    BY <1>1, AgyFits DEF Moves!None
  <2> QED BY <2>2, <2>3
<1>3. \A c \in Convs : \A i \in Moves!Rows : answers[c][i] = 0
  BY <1>1
<1>4. answers \in [Convs -> [Moves!Rows -> Nat]]
  BY <1>1
<1> QED BY <1>1, <1>2, <1>3, <1>4 DEF MovedInv

\* In whichever conversation a Stop counts, it counts above the watermark only.
LEMMA MovedStep == MovedInv /\ [Moves!Next]_agy => MovedInv'
<1> SUFFICES ASSUME MovedInv, [Moves!Next]_agy PROVE MovedInv'
  OBVIOUS
<1> USE AgyFits DEF Moves!None, Moves!Rows, Moves!Baseline
<1>0. \A c \in Convs : /\ rows[c] \in 0 .. MovedRows
                       /\ \A i \in Moves!Rows : i \in Nat /\ answers[c][i] \in Nat
  BY DEF MovedInv
<1>1. CASE UNCHANGED agy
  BY <1>1 DEF MovedInv, agy
<1>2. CASE Moves!Prompt
  BY <1>0, <1>2 DEF Moves!Prompt, MovedInv, Moves!LastRow
<1>3. CASE Moves!Respond
  BY <1>0, <1>3 DEF Moves!Respond, MovedInv
<1>4. CASE Moves!Stop
  <2>1. /\ UNCHANGED <<rows, conv>>
        /\ answers' = [answers EXCEPT ![conv] =
                [i \in Moves!Rows |-> IF i \in Moves!Above THEN @[i] + 1 ELSE @[i]]]
        /\ watermark' = IF Moves!Above = {} THEN watermark ELSE rows[conv]
    BY <1>4 DEF Moves!Stop
  <2>2. /\ answers' \in [Convs -> [Moves!Rows -> Nat]]
        /\ \A c \in Convs : \A i \in Moves!Rows : answers'[c][i] =
             IF c = conv /\ i \in Moves!Above THEN answers[c][i] + 1 ELSE answers[c][i]
    BY <1>0, <2>1 DEF MovedInv
  <2>3. \A i \in Moves!Above : /\ i \in Moves!Rows /\ i <= rows[conv]
                               /\ i > Moves!Baseline /\ answers[conv][i] = 0
    BY <1>0 DEF MovedInv, Moves!Above
  <2>4. CASE Moves!Above = {}
    BY <1>0, <2>1, <2>2, <2>4 DEF MovedInv
  <2>5. CASE Moves!Above # {}
    <3>1. /\ watermark' = rows[conv] /\ rows[conv] \in 0 .. MovedRows
          /\ watermark # Moves!None => rows[conv] > watermark
      BY <1>0, <2>1, <2>3, <2>5 DEF MovedInv
    <3>2. \A c \in Convs : \A i \in Moves!Rows :
            answers'[c][i] <= 1 /\ (answers'[c][i] > 0 => i <= rows[conv])
      <4>1. ASSUME NEW c \in Convs, NEW i \in Moves!Rows
            PROVE  answers'[c][i] <= 1 /\ (answers'[c][i] > 0 => i <= rows[conv])
        <5>1. /\ answers[c][i] \in Nat /\ answers[c][i] <= 1 /\ i \in Nat
              /\ answers[c][i] > 0 => watermark # Moves!None /\ i <= watermark
          BY <1>0 DEF MovedInv
        <5>2. CASE c = conv /\ i \in Moves!Above
          BY <2>2, <2>3, <5>2
        <5>3. CASE ~(c = conv /\ i \in Moves!Above)
          <6>1. answers'[c][i] = answers[c][i]
            BY <2>2, <5>3
          <6>2. watermark \in Nat /\ rows[conv] \in Nat
            BY <3>1 DEF MovedInv
          <6> QED BY <3>1, <5>1, <6>1, <6>2
        <5> QED BY <5>2, <5>3
      <4> QED BY <4>1
    <3> QED BY <2>1, <2>2, <3>1, <3>2 DEF MovedInv
  <2> QED BY <2>4, <2>5
<1>5. CASE Moves!Switch
  BY <1>5 DEF Moves!Switch, MovedInv
<1>6. CASE Moves!Restart
  BY <1>0, <1>6 DEF Moves!Restart, MovedInv
<1> QED BY <1>1, <1>2, <1>3, <1>4, <1>5, <1>6 DEF Moves!Next

-----------------------------------------------------------------------------
(* Tokens of claude                                                         *)

\* A set of numbers that is not empty has a least element, and a bounded one a greatest.
LEMMA LeastNat ==
    ASSUME NEW T \in SUBSET Nat, T # {}
    PROVE  \E x \in T : \A y \in T : x <= y
<1> DEFINE R == {ss \in Nat \X Nat : ss[1] < ss[2]}
<1>1. IsWellFoundedOn(R, Nat)
  BY NatLessThanWellFounded DEF OpToRel
<1> HIDE DEF R
<1>2. \E x \in T : \A y \in T : <<y, x>> \notin R
  BY <1>1, WFMin, Zenon
<1>3. PICK x \in T : \A y \in T : <<y, x>> \notin R
  BY <1>2
<1>4. \A y \in T : ~(y < x)
  BY <1>3 DEF R
<1> QED BY <1>4

LEMMA GreatestNat ==
    ASSUME NEW n \in Nat, NEW T \in SUBSET (0 .. n), T # {}
    PROVE  \E x \in T : \A y \in T : y <= x
<1> DEFINE U == {n - x : x \in T}
<1>1. U \in SUBSET Nat /\ U # {}
  <2>1. \A x \in T : n - x \in Nat
    OBVIOUS
  <2>2. PICK x \in T : TRUE
    OBVIOUS
  <2>3. n - x \in U
    BY <2>2
  <2> QED BY <2>1, <2>3
<1> HIDE DEF U
<1>2. PICK u \in U : \A v \in U : u <= v
  BY <1>1, LeastNat
<1>3. PICK x \in T : u = n - x
  BY <1>2 DEF U
<1>4. \A y \in T : n - y \in U /\ y \in 0 .. n
  BY DEF U
<1>5. \A y \in T : y <= x
  BY <1>2, <1>3, <1>4
<1> QED BY <1>5

LEMMA HighestIs ==
    ASSUME NEW n \in Nat, NEW T \in SUBSET (0 .. n), T # {}
    PROVE  OneHook!Highest(T) \in T /\ \A y \in T : y <= OneHook!Highest(T)
  BY GreatestNat DEF OneHook!Highest

-----------------------------------------------------------------------------
Docs == {Main} \cup Subs
Responses == 1 .. MaxIds
NoId == MaxIds + 1
Lines(f) == 1 .. Len(file[f])

\* A line that is written to its end.
Whole(f, n) == ~(f \in torn /\ n = Len(file[f]))
Units(f) == 2 * Len(file[f]) - (IF f \in torn THEN 1 ELSE 0)

Handler == [pc : {"idle", "stat", "scan"}, todo : Seq(Docs), len : Nat]
Marks   == [len : Nat, id : 1 .. NoId]

ClaudeTypes ==
    /\ file \in [Docs -> Seq(0 .. MaxIds)] /\ torn \subseteq Docs /\ ids \in 0 .. MaxIds
    /\ mark \in [Docs -> Marks] /\ from \in [Docs -> Nat]
    /\ counted \in [Responses -> Nat]

\* What claude writes: responses one after the other, each with its blocks in one file.
Written ==
    /\ \A f \in Docs : f \in torn => file[f] # <<>>
    /\ \A f \in Docs : \A n \in Lines(f) : file[f][n] <= ids
    /\ \A f \in Docs : \A m, n \in Lines(f) : m < n /\ file[f][n] # 0 => file[f][m] <= file[f][n]
    /\ \A f, g \in Docs : \A m \in Lines(f), n \in Lines(g) :
         file[f][m] = file[g][n] /\ file[f][m] # 0 => f = g

\* The watermark is on a line that was read whole, and no longer than the file.
Marked ==
    \A f \in Docs :
        /\ mark[f].id = NoId <=> from[f] = 0
        /\ mark[f].id # NoId => \E n \in Lines(f) : file[f][n] = mark[f].id /\ Whole(f, n)
        /\ mark[f].len <= Units(f)

\* No response was counted twice, and none beyond the watermark of its file once.
Uncounted ==
    /\ \A i \in Responses : counted[i] <= 1 /\ (i > ids => counted[i] = 0)
    /\ \A f \in Docs : \A n \in Lines(f) :
         file[f][n] # 0 /\ (mark[f].id = NoId \/ file[f][n] > mark[f].id)
             => counted[file[f][n]] = 0

\* From the first line that was counted on, what lies up to the watermark was counted, and
\* all that is whole if the file has not grown since the length was taken.
Caught ==
    \A f \in Docs : from[f] > 0 =>
        /\ from[f] <= Len(file[f])
        /\ \A n \in from[f] .. Len(file[f]) : file[f][n] # 0 =>
             /\ file[f][n] <= mark[f].id => counted[file[f][n]] > 0
             /\ mark[f].len = Units(f) /\ Whole(f, n) => counted[file[f][n]] > 0

ClaudeInv == ClaudeTypes /\ Written /\ Marked /\ Uncounted

\* The handlers H go through files, and saw no more of one than there is.
HandlersTrue(H) ==
    /\ hook \in [H -> Handler]
    /\ \A h \in H : hook[h].pc # "idle" =>
         /\ hook[h].todo # <<>>
         /\ hook[h].pc = "scan" => hook[h].len <= Units(Head(hook[h].todo))

\* At most B lines in a file.
Short(B) == \A f \in Docs : Len(file[f]) <= B

\* A line more, of a prompt, a response or one more block of the last one.
Extended(B) ==
    \E f \in Docs, l \in 0 .. MaxIds :
        /\ f \notin torn /\ Len(file[f]) < B
        /\ file' = [file EXCEPT ![f] = Append(@, l)] /\ torn' \in {torn, torn \cup {f}}
        /\ UNCHANGED <<mark, from, counted, hook>>
        /\ \/ l = 0 /\ ids' = ids
           \/ l = ids + 1 /\ ids' = ids + 1
           \/ file[f] # <<>> /\ l = file[f][Len(file[f])] /\ l # 0 /\ ids' = ids

Restarted(H) ==
    /\ mark' = [f \in Docs |-> OneHook!NoMark] /\ from' = [f \in Docs |-> 0]
    /\ hook' = [h \in H |-> OneHook!Done]
    /\ counted' = [i \in Responses |-> 0]
    /\ UNCHANGED <<file, torn, ids>>

ClaudeStep(H, B) ==
    \/ Extended(B) \/ Restarted(H) \/ UNCHANGED claude
    \/ \E f \in Docs : OneHook!Complete(f)
    \/ \E h \in H : OneHook!Hook(h) \/ OneHook!Stat(h) \/ OneHook!Scan(h)

\* The instances' own copies of the operators of the library are the library's.
LEMMA Libraries ==
    /\ \A S : (OneHook!IsFiniteSet(S) <=> IsFiniteSet(S)) /\ (Pair!IsFiniteSet(S) <=> IsFiniteSet(S))
    /\ \A S : OneHook!Cardinality(S) = Cardinality(S) /\ Pair!Cardinality(S) = Cardinality(S)
<1>1. \A S : OneHook!IsFiniteSet(S) <=> IsFiniteSet(S)
  BY DEF OneHook!IsFiniteSet, IsFiniteSet
<1>2. \A S : Pair!IsFiniteSet(S) <=> IsFiniteSet(S)
  BY DEF Pair!IsFiniteSet, IsFiniteSet
<1>3. \A S : OneHook!Cardinality(S) = Cardinality(S)
  BY DEF OneHook!Cardinality, Cardinality
<1>4. \A S : Pair!Cardinality(S) = Cardinality(S)
  BY DEF Pair!Cardinality, Cardinality
<1> QED BY <1>1, <1>2, <1>3, <1>4

LEMMA ClaudeFits ==
    /\ Main \notin Subs /\ IsFiniteSet(Subs)
    /\ TailLines \in Nat \ {0} /\ MaxIds \in Nat
    /\ LineLines \in Nat \ {0} /\ PairLines \in Nat \ {0}
  BY InstancesFit, Libraries DEF OneHook!ConstantsFit, Pair!ConstantsFit

\* What the two instances say of a file is the same.
LEMMA SameReading ==
    /\ \A f : Pair!Length(f) = OneHook!Length(f)
    /\ \A f : Pair!Fresh(f) = OneHook!Fresh(f) /\ Pair!ScanFrom(f) = OneHook!ScanFrom(f)
    /\ \A h : Pair!Following(h) = OneHook!Following(h)
    /\ \A S : Pair!Highest(S) = OneHook!Highest(S)
    /\ \A i, S : Pair!Cardinality({i} \cap S) = OneHook!Cardinality({i} \cap S)
    /\ Pair!Ids = OneHook!Ids /\ Pair!Done = OneHook!Done /\ Pair!NoMark = OneHook!NoMark
<1>1. \A f : Pair!Length(f) = OneHook!Length(f)
  BY Libraries DEF Pair!Length, OneHook!Length
<1>2. \A f : Pair!Readable(f) = OneHook!Readable(f)
  BY DEF Pair!Readable, OneHook!Readable
<1>3. \A S : Pair!Highest(S) = OneHook!Highest(S)
  BY DEF Pair!Highest, OneHook!Highest
<1>4. /\ Pair!None = OneHook!None /\ Pair!PromptLine = OneHook!PromptLine
      /\ Pair!Ids = OneHook!Ids /\ Pair!Done = OneHook!Done
  BY DEF Pair!None, OneHook!None, Pair!PromptLine, OneHook!PromptLine, Pair!Ids, OneHook!Ids,
     Pair!Done, OneHook!Done
<1>5. Pair!NoMark = OneHook!NoMark
  BY <1>4 DEF Pair!NoMark, OneHook!NoMark
<1>6. \A f : Pair!ScanFrom(f) = OneHook!ScanFrom(f)
  BY <1>2, <1>3, <1>4 DEF Pair!ScanFrom, OneHook!ScanFrom
<1>7. \A f : Pair!Fresh(f) = OneHook!Fresh(f)
  BY <1>2, <1>4, <1>6 DEF Pair!Fresh, OneHook!Fresh
<1>8. \A S : Pair!SetToSeq(S) = OneHook!SetToSeq(S)
  BY Libraries DEF Pair!SetToSeq, OneHook!SetToSeq, Pair!IsInjective, OneHook!IsInjective
<1>9. \A h : Pair!Following(h) = OneHook!Following(h)
  BY <1>4, <1>8 DEF Pair!Following, OneHook!Following
<1> QED BY <1>1, <1>3, <1>4, <1>5, <1>6, <1>7, <1>9, Libraries

\* The two instances differ in their handlers and bounds only.
LEMMA LineSteps == ClaudeTypes /\ [OneHook!Next]_claude => ClaudeStep(LineHooks, LineLines)
<1> SUFFICES ASSUME ClaudeTypes, [OneHook!Next]_claude PROVE ClaudeStep(LineHooks, LineLines)
  OBVIOUS
<1>1. CASE OneHook!WritePrompt
  <2>1. /\ ids' = ids /\ Main \notin torn /\ Len(file[Main]) < LineLines
        /\ file' = [file EXCEPT ![Main] = Append(@, 0)] /\ torn' \in {torn, torn \cup {Main}}
        /\ UNCHANGED <<mark, from, counted, hook>>
    BY <1>1 DEF OneHook!WritePrompt, OneHook!Extend, OneHook!PromptLine
  <2>2. Main \in Docs /\ 0 \in 0 .. MaxIds
    BY ClaudeFits DEF Docs
  <2> QED BY <2>1, <2>2 DEF ClaudeStep, Extended
<1>2. ASSUME NEW f \in Docs, OneHook!WriteReply(f) PROVE ClaudeStep(LineHooks, LineLines)
  <2>1. /\ ids < MaxIds /\ ids' = ids + 1 /\ f \notin torn /\ Len(file[f]) < LineLines
        /\ file' = [file EXCEPT ![f] = Append(@, ids + 1)] /\ torn' \in {torn, torn \cup {f}}
        /\ UNCHANGED <<mark, from, counted, hook>>
    BY <1>2 DEF OneHook!WriteReply, OneHook!Extend
  <2>2. ids + 1 \in 0 .. MaxIds
    BY <2>1, ClaudeFits DEF ClaudeTypes
  <2> QED BY <2>1, <2>2 DEF ClaudeStep, Extended
<1>3. ASSUME NEW f \in Docs, OneHook!WriteBlock(f) PROVE ClaudeStep(LineHooks, LineLines)
  <2> DEFINE l == file[f][Len(file[f])]
  <2>1. /\ file[f] # <<>> /\ l # 0 /\ ids' = ids /\ f \notin torn /\ Len(file[f]) < LineLines
        /\ file' = [file EXCEPT ![f] = Append(@, l)] /\ torn' \in {torn, torn \cup {f}}
        /\ UNCHANGED <<mark, from, counted, hook>>
    BY <1>3 DEF OneHook!WriteBlock, OneHook!Extend, OneHook!Last, OneHook!PromptLine
  <2>2. l \in 0 .. MaxIds
    BY <2>1, ClaudeFits DEF ClaudeTypes
  <2> QED BY <2>1, <2>2 DEF ClaudeStep, Extended
<1>4. CASE OneHook!Restart
  BY <1>4 DEF OneHook!Restart, OneHook!written, OneHook!Files, OneHook!Ids, Docs, Responses,
     ClaudeStep, Restarted
<1> QED BY <1>1, <1>2, <1>3, <1>4 DEF OneHook!Next, OneHook!Writes, OneHook!Files, Docs,
           ClaudeStep

LEMMA PairSteps == ClaudeTypes /\ [Pair!Next]_claude => ClaudeStep(PairHooks, PairLines)
<1> SUFFICES ASSUME ClaudeTypes, [Pair!Next]_claude PROVE ClaudeStep(PairHooks, PairLines)
  OBVIOUS
<1>1. CASE Pair!WritePrompt
  <2>1. /\ ids' = ids /\ Main \notin torn /\ Len(file[Main]) < PairLines
        /\ file' = [file EXCEPT ![Main] = Append(@, 0)] /\ torn' \in {torn, torn \cup {Main}}
        /\ UNCHANGED <<mark, from, counted, hook>>
    BY <1>1 DEF Pair!WritePrompt, Pair!Extend, Pair!PromptLine
  <2>2. Main \in Docs /\ 0 \in 0 .. MaxIds
    BY ClaudeFits DEF Docs
  <2> QED BY <2>1, <2>2 DEF ClaudeStep, Extended
<1>2. ASSUME NEW f \in Docs, Pair!WriteReply(f) PROVE ClaudeStep(PairHooks, PairLines)
  <2>1. /\ ids < MaxIds /\ ids' = ids + 1 /\ f \notin torn /\ Len(file[f]) < PairLines
        /\ file' = [file EXCEPT ![f] = Append(@, ids + 1)] /\ torn' \in {torn, torn \cup {f}}
        /\ UNCHANGED <<mark, from, counted, hook>>
    BY <1>2 DEF Pair!WriteReply, Pair!Extend
  <2>2. ids + 1 \in 0 .. MaxIds
    BY <2>1, ClaudeFits DEF ClaudeTypes
  <2> QED BY <2>1, <2>2 DEF ClaudeStep, Extended
<1>3. ASSUME NEW f \in Docs, Pair!WriteBlock(f) PROVE ClaudeStep(PairHooks, PairLines)
  <2> DEFINE l == file[f][Len(file[f])]
  <2>1. /\ file[f] # <<>> /\ l # 0 /\ ids' = ids /\ f \notin torn /\ Len(file[f]) < PairLines
        /\ file' = [file EXCEPT ![f] = Append(@, l)] /\ torn' \in {torn, torn \cup {f}}
        /\ UNCHANGED <<mark, from, counted, hook>>
    BY <1>3 DEF Pair!WriteBlock, Pair!Extend, Pair!Last, Pair!PromptLine
  <2>2. l \in 0 .. MaxIds
    BY <2>1, ClaudeFits DEF ClaudeTypes
  <2> QED BY <2>1, <2>2 DEF ClaudeStep, Extended
<1>4. CASE Pair!Restart
  BY <1>4, SameReading DEF Pair!Restart, Pair!written, Pair!Files, OneHook!Ids, Docs, Responses,
     ClaudeStep, Restarted
<1>5. ASSUME NEW f \in Docs PROVE Pair!Complete(f) => OneHook!Complete(f)
  BY DEF Pair!Complete, OneHook!Complete
<1>6. ASSUME NEW h PROVE Pair!Hook(h) => OneHook!Hook(h)
  BY SameReading DEF Pair!Hook, OneHook!Hook, Pair!written, OneHook!written
<1>7. ASSUME NEW h PROVE Pair!Stat(h) => OneHook!Stat(h)
  BY SameReading DEF Pair!Stat, OneHook!Stat, Pair!written, OneHook!written
<1>8. ASSUME NEW h PROVE Pair!Scan(h) => OneHook!Scan(h)
  <2> DEFINE f == Head(hook[h].todo)
  <2>1. Pair!Fresh(f) = OneHook!Fresh(f) /\ Pair!ScanFrom(f) = OneHook!ScanFrom(f)
    BY SameReading
  <2>2. Pair!Following(h) = OneHook!Following(h)
    BY SameReading
  <2>3. Pair!Highest(Pair!Fresh(f)) = OneHook!Highest(OneHook!Fresh(f))
    BY <2>1, SameReading
  <2>4. [i \in Pair!Ids |-> counted[i] + Pair!Cardinality({i} \cap Pair!Fresh(f))]
          = [i \in OneHook!Ids |-> counted[i] + OneHook!Cardinality({i} \cap OneHook!Fresh(f))]
    <3>1. Pair!Ids = OneHook!Ids
      BY SameReading
    <3>2. \A i : Pair!Cardinality({i} \cap Pair!Fresh(f))
                    = OneHook!Cardinality({i} \cap OneHook!Fresh(f))
      BY <2>1, SameReading
    <3> QED BY <3>1, <3>2
  <2> QED BY <2>1, <2>2, <2>3, <2>4 DEF Pair!Scan, OneHook!Scan, Pair!written, OneHook!written
<1> QED BY <1>1, <1>2, <1>3, <1>4, <1>5, <1>6, <1>7, <1>8 DEF Pair!Next, Pair!Writes,
           Pair!Files, Docs, ClaudeStep

-----------------------------------------------------------------------------
LEMMA LineTypes ==
    ASSUME ClaudeTypes, NEW f \in Docs
    PROVE  /\ Len(file[f]) \in Nat /\ \A n \in Lines(f) : n \in Nat /\ file[f][n] \in 0 .. MaxIds
           /\ Units(f) \in Nat \/ file[f] = <<>>
           /\ MaxIds \in Nat /\ mark[f].id \in 1 .. NoId /\ mark[f].len \in Nat /\ from[f] \in Nat
<1>1. file[f] \in Seq(0 .. MaxIds) /\ mark[f] \in Marks /\ from[f] \in Nat
  BY DEF ClaudeTypes
<1>2. Len(file[f]) \in Nat /\ \A n \in Lines(f) : n \in Nat /\ file[f][n] \in 0 .. MaxIds
  <2>1. Len(file[f]) \in Nat /\ file[f] \in [1 .. Len(file[f]) -> 0 .. MaxIds]
    BY <1>1, LenProperties
  <2>2. \A n \in 1 .. Len(file[f]) : n \in Nat
    BY <2>1
  <2> QED BY <2>1, <2>2 DEF Lines
<1>3. file[f] # <<>> => Len(file[f]) > 0
  BY <1>1, <1>2, EmptySeq
<1>4. Units(f) \in Nat \/ file[f] = <<>>
  BY <1>2, <1>3 DEF Units
<1> QED BY <1>1, <1>2, <1>4, ClaudeFits DEF Marks

LEMMA Appended ==
    ASSUME ClaudeTypes, NEW f \in Docs, NEW l \in 0 .. MaxIds,
           file' = [file EXCEPT ![f] = Append(@, l)]
    PROVE  /\ file' \in [Docs -> Seq(0 .. MaxIds)] /\ Len(file'[f]) = Len(file[f]) + 1
           /\ Len(file[f]) \in Nat /\ \A n \in Lines(f) : file'[f][n] = file[f][n]
           /\ file'[f][Len(file[f]) + 1] = l /\ \A g \in Docs \ {f} : file'[g] = file[g]
<1>1. file[f] \in Seq(0 .. MaxIds) /\ file \in [Docs -> Seq(0 .. MaxIds)]
  BY DEF ClaudeTypes
<1>2. file'[f] = Append(file[f], l) /\ \A g \in Docs \ {f} : file'[g] = file[g]
  BY <1>1
<1>3. /\ Append(file[f], l) \in Seq(0 .. MaxIds) /\ Len(Append(file[f], l)) = Len(file[f]) + 1
      /\ \A n \in 1 .. Len(file[f]) : Append(file[f], l)[n] = file[f][n]
      /\ Append(file[f], l)[Len(file[f]) + 1] = l
  BY <1>1, AppendProperties
<1>4. file' \in [Docs -> Seq(0 .. MaxIds)]
  BY <1>1, <1>3
<1> QED BY <1>1, <1>2, <1>3, <1>4, LenProperties DEF Lines

\* What an extended transcript keeps, and what its new line is.
LEMMA ExtendedKeeps ==
    ASSUME ClaudeTypes, Written, NEW B, Extended(B)
    PROVE  \E f \in Docs, l \in 0 .. MaxIds :
              LET L == Len(file[f]) IN
              /\ L \in Nat /\ f \notin torn /\ torn' \subseteq torn \cup {f} /\ torn \subseteq torn'
              /\ file' \in [Docs -> Seq(0 .. MaxIds)]
              /\ Len(file'[f]) = L + 1 /\ \A n \in 1 .. L : file'[f][n] = file[f][n]
              /\ file'[f][L + 1] = l /\ \A g \in Docs \ {f} : file'[g] = file[g]
              /\ ids \in 0 .. MaxIds /\ ids' \in 0 .. MaxIds /\ ids <= ids'
              /\ UNCHANGED <<mark, from, counted, hook>>
              /\ \/ l = 0
                 \/ l = ids + 1 /\ ids' = ids + 1
                 \/ L > 0 /\ l = file[f][L] /\ l # 0
              /\ L < B
<1>1. PICK f \in Docs, l \in 0 .. MaxIds :
        /\ f \notin torn /\ Len(file[f]) < B
        /\ file' = [file EXCEPT ![f] = Append(@, l)] /\ torn' \in {torn, torn \cup {f}}
        /\ UNCHANGED <<mark, from, counted, hook>>
        /\ \/ l = 0 /\ ids' = ids
           \/ l = ids + 1 /\ ids' = ids + 1
           \/ file[f] # <<>> /\ l = file[f][Len(file[f])] /\ l # 0 /\ ids' = ids
  BY DEF Extended
<1>2. /\ file' \in [Docs -> Seq(0 .. MaxIds)] /\ Len(file'[f]) = Len(file[f]) + 1
      /\ Len(file[f]) \in Nat /\ \A n \in 1 .. Len(file[f]) : file'[f][n] = file[f][n]
      /\ file'[f][Len(file[f]) + 1] = l /\ \A g \in Docs \ {f} : file'[g] = file[g]
  BY <1>1, Appended DEF Lines
<1>3. ids \in 0 .. MaxIds /\ ids' \in 0 .. MaxIds /\ ids <= ids'
  BY <1>1, ClaudeFits DEF ClaudeTypes
<1>4. file[f] # <<>> => Len(file[f]) > 0
  BY <1>2, EmptySeq DEF ClaudeTypes
<1> QED BY <1>1, <1>2, <1>3, <1>4

\* A line more, or a block more of a response, leaves what was counted true.
LEMMA ExtendedStep ==
    ASSUME ClaudeInv, NEW B, Extended(B)
    PROVE  /\ ClaudeInv' /\ \A f \in Docs : Units(f) <= Units(f)'
           /\ Caught => Caught'
<1> USE DEF ClaudeInv
<1>1. PICK f \in Docs, l \in 0 .. MaxIds :
        LET L == Len(file[f]) IN
        /\ L \in Nat /\ f \notin torn /\ torn' \subseteq torn \cup {f} /\ torn \subseteq torn'
        /\ file' \in [Docs -> Seq(0 .. MaxIds)]
        /\ Len(file'[f]) = L + 1 /\ \A n \in 1 .. L : file'[f][n] = file[f][n]
        /\ file'[f][L + 1] = l /\ \A g \in Docs \ {f} : file'[g] = file[g]
        /\ ids \in 0 .. MaxIds /\ ids' \in 0 .. MaxIds /\ ids <= ids'
        /\ UNCHANGED <<mark, from, counted, hook>>
        /\ \/ l = 0
           \/ l = ids + 1 /\ ids' = ids + 1
           \/ L > 0 /\ l = file[f][L] /\ l # 0
        /\ L < B
  BY ExtendedKeeps
<1> DEFINE L == Len(file[f])
<1>2. /\ Lines(f)' = 1 .. L + 1 /\ Lines(f) = 1 .. L
      /\ \A g \in Docs \ {f} : Lines(g)' = Lines(g) /\ \A n : Whole(g, n)' = Whole(g, n)
      /\ \A n \in 1 .. L : Whole(f, n) /\ Whole(f, n)'
  BY <1>1 DEF Lines, Whole
<1>3. /\ Units(f) = 2 * L /\ Units(f) < Units(f)'
      /\ \A g \in Docs \ {f} : Units(g)' = Units(g)
  <2>1. Units(f) = 2 * L
    BY <1>1 DEF Units
  <2>2. Units(f)' \in {2 * (L + 1), 2 * (L + 1) - 1}
    <3>1. Len(file'[f]) = L + 1
      BY <1>1
    <3>2. CASE f \in torn'
      BY <3>1, <3>2 DEF Units
    <3>3. CASE f \notin torn'
      <4>1. L \in Nat
        BY <1>1
      <4>2. 2 * (L + 1) - 0 = 2 * (L + 1)
        BY <4>1
      <4>3. Units(f)' = 2 * (L + 1) - 0
        BY <3>1, <3>3 DEF Units
      <4> QED BY <4>2, <4>3
    <3> QED BY <3>2, <3>3
  <2>3. Units(f) < Units(f)'
    BY <1>1, <2>1, <2>2
  <2>4. ASSUME NEW g \in Docs \ {f} PROVE Units(g)' = Units(g)
    <3>1. file'[g] = file[g] /\ (g \in torn' <=> g \in torn)
      BY <1>1, <2>4
    <3> QED BY <3>1 DEF Units
  <2> QED BY <2>1, <2>3, <2>4
<1>4. \A g \in Docs : Len(file[g]) \in Nat /\ \A n \in Lines(g) : n \in Nat /\ file[g][n] \in 0 .. MaxIds
  BY LineTypes
<1>5. \A g \in Docs : Units(g) <= Units(g)'
  <2>1. \A g \in Docs : Units(g) \in Int
    BY <1>4 DEF Units
  <2>2. ASSUME NEW g \in Docs PROVE Units(g) <= Units(g)'
    <3>1. CASE g = f
      <4>1. Units(f) \in Int /\ Units(f)' \in Int
        BY <1>1 DEF Units
      <4> QED BY <1>3, <3>1, <4>1
    <3>2. CASE g # f
      BY <1>3, <2>1, <3>2
    <3> QED BY <3>1, <3>2
  <2> QED BY <2>2
<1>6. ClaudeTypes'
  BY <1>1 DEF ClaudeTypes, Docs, Marks, NoId, Responses
\* A line of any file is an old one, or the new one.
<1>7. ASSUME NEW g \in Docs, NEW n \in Lines(g)'
      PROVE  \/ n \in Lines(g) /\ file'[g][n] = file[g][n]
             \/ g = f /\ n = L + 1 /\ file'[g][n] = l
  BY <1>1, <1>2, <1>7
<1> HIDE DEF L
<1>8. Written'
  <2>1. \A g \in Docs : g \in torn' => file'[g] # <<>>
    <3>1. file'[f] # <<>>
      BY <1>1, EmptySeq
    <3> QED BY <1>1, <3>1 DEF Written
  <2>2. ASSUME NEW g \in Docs, NEW n \in Lines(g)' PROVE file'[g][n] <= ids'
    <3>1. CASE n \in Lines(g) /\ file'[g][n] = file[g][n]
      BY <1>1, <1>4, <3>1 DEF Written
    <3>2. CASE g = f /\ n = L + 1 /\ file'[g][n] = l
      <4>1. L > 0 => L \in Lines(f)
        BY <1>1, <1>2 DEF L
      <4>2. L > 0 => file[f][L] <= ids /\ file[f][L] \in Int
        BY <1>4, <4>1 DEF Written
      <4> QED BY <1>1, <3>2, <4>2 DEF L
    <3> QED BY <1>7, <2>2, <3>1, <3>2
  <2>3. ASSUME NEW g \in Docs, NEW m \in Lines(g)', NEW n \in Lines(g)', m < n, file'[g][n] # 0
        PROVE  file'[g][m] <= file'[g][n]
    <3>1. CASE n \in Lines(g) /\ file'[g][n] = file[g][n]
      <4>1. m \in Lines(g) /\ file'[g][m] = file[g][m]
        BY <1>1, <1>2, <1>7, <2>3, <3>1 DEF L
      <4> QED BY <2>3, <3>1, <4>1 DEF Written
    <3>2. CASE g = f /\ n = L + 1 /\ file'[g][n] = l
      <4>1. m \in Lines(f) /\ file'[f][m] = file[f][m] /\ L > 0 /\ L \in Lines(f) /\ m <= L
        BY <1>1, <1>2, <1>7, <2>3, <3>2 DEF L
      <4>2. file[f][m] <= ids /\ file[f][m] \in Int /\ ids \in Int
        BY <1>1, <1>4, <4>1 DEF Written
      <4>3. file[f][L] # 0 => file[f][m] <= file[f][L]
        <5>1. CASE m = L
          BY <4>2, <5>1
        <5>2. CASE m < L
          BY <4>1, <5>2 DEF Written
        <5> QED BY <1>1, <1>2, <4>1, <5>1, <5>2 DEF L
      <4> QED BY <1>1, <2>3, <3>2, <4>1, <4>2, <4>3 DEF L
    <3> QED BY <1>7, <2>3, <3>1, <3>2
  <2>4. ASSUME NEW g \in Docs, NEW k \in Docs, NEW m \in Lines(g)', NEW n \in Lines(k)',
               file'[g][m] = file'[k][n], file'[g][m] # 0
        PROVE  g = k
    <3>1. ASSUME NEW e \in Docs \ {f}, NEW i \in Lines(e), l # 0, file[e][i] = l
          PROVE  FALSE
      <4>1. file[e][i] <= ids /\ ids \in Int
        BY <1>1, <3>1 DEF Written
      <4>2. L > 0 /\ l = file[f][L] /\ L \in Lines(f)
        BY <1>1, <1>2, <3>1, <4>1 DEF L
      <4> QED BY <3>1, <4>2 DEF Written
    <3>2. \/ m \in Lines(g) /\ file'[g][m] = file[g][m]
          \/ g = f /\ m = L + 1 /\ file'[g][m] = l
      BY <1>7, <2>4
    <3>3. \/ n \in Lines(k) /\ file'[k][n] = file[k][n]
          \/ k = f /\ n = L + 1 /\ file'[k][n] = l
      BY <1>7, <2>4
    <3> QED BY <2>4, <3>1, <3>2, <3>3 DEF Written
  <2> QED BY <2>1, <2>2, <2>3, <2>4 DEF Written, Docs
<1>9. Marked'
  <2>1. ASSUME NEW g \in Docs
        PROVE  /\ mark'[g].id = NoId <=> from'[g] = 0
               /\ mark'[g].id # NoId =>
                    \E n \in Lines(g)' : file'[g][n] = mark'[g].id /\ Whole(g, n)'
               /\ mark'[g].len <= Units(g)'
    <3>1. /\ mark[g].id = NoId <=> from[g] = 0
          /\ mark[g].id # NoId => \E n \in Lines(g) : file[g][n] = mark[g].id /\ Whole(g, n)
          /\ mark[g].len <= Units(g) /\ mark[g].len \in Nat
      BY LineTypes DEF Marked
    <3>2. \A n \in Lines(g) : /\ n \in Lines(g)' /\ file'[g][n] = file[g][n]
                              /\ Whole(g, n) => Whole(g, n)'
      <4>1. CASE g = f
        BY <1>1, <1>2, <4>1 DEF L
      <4>2. CASE g # f
        BY <1>1, <1>2, <4>2
      <4> QED BY <4>1, <4>2
    <3>3. mark'[g] = mark[g] /\ from'[g] = from[g] /\ Units(g) <= Units(g)'
      BY <1>1, <1>5
    <3>4. mark[g].len <= Units(g)'
      <4>1. Units(g) \in Int /\ Units(g)' \in Int
        BY <1>1, <1>3, <1>4 DEF Units, L
      <4> QED BY <3>1, <3>3, <4>1
    <3> QED BY <3>1, <3>2, <3>3, <3>4
  <2> QED BY <2>1 DEF Marked, Docs, NoId
<1>10. Uncounted'
  <2>1. \A i \in Responses : counted'[i] <= 1 /\ (i > ids' => counted'[i] = 0)
    <3>1. \A i \in Responses : i > ids' => i > ids
      BY <1>1, ClaudeFits DEF Responses
    <3> QED BY <1>1, <3>1 DEF Uncounted
  <2>2. ASSUME NEW g \in Docs, NEW n \in Lines(g)', file'[g][n] # 0,
               mark'[g].id = NoId \/ file'[g][n] > mark'[g].id
        PROVE  counted'[file'[g][n]] = 0
    <3>1. CASE n \in Lines(g) /\ file'[g][n] = file[g][n]
      BY <1>1, <2>2, <3>1 DEF Uncounted
    <3>2. CASE g = f /\ n = L + 1 /\ file'[g][n] = l
      <4>1. CASE l = ids + 1
        <5>1. l \in Responses /\ l > ids
          BY <1>1, <4>1, ClaudeFits DEF Responses
        <5> QED BY <1>1, <3>2, <5>1 DEF Uncounted
      <4>2. CASE L > 0 /\ l = file[f][L]
        <5>1. L \in Lines(f)
          BY <1>1, <1>2, <4>2 DEF L
        <5> QED BY <1>1, <2>2, <3>2, <4>2, <5>1 DEF Uncounted
      <4> QED BY <1>1, <2>2, <3>2, <4>1, <4>2 DEF L
    <3> QED BY <1>7, <2>2, <3>1, <3>2
  <2> QED BY <2>1, <2>2 DEF Uncounted, Docs, Responses, NoId
<1>11. ASSUME Caught PROVE Caught'
  <2>1. ASSUME NEW g \in Docs, from'[g] > 0
        PROVE  /\ from'[g] <= Len(file'[g])
               /\ \A n \in from'[g] .. Len(file'[g]) : file'[g][n] # 0 =>
                    /\ file'[g][n] <= mark'[g].id => counted'[file'[g][n]] > 0
                    /\ mark'[g].len = Units(g)' /\ Whole(g, n)' => counted'[file'[g][n]] > 0
    <3>1. /\ from[g] > 0 /\ from[g] \in Nat /\ from[g] <= Len(file[g])
          /\ \A n \in from[g] .. Len(file[g]) : file[g][n] # 0 =>
               /\ file[g][n] <= mark[g].id => counted[file[g][n]] > 0
               /\ mark[g].len = Units(g) /\ Whole(g, n) => counted[file[g][n]] > 0
      BY <1>1, <1>11, <2>1, LineTypes DEF Caught
    <3>2. CASE g # f
      <4>1. /\ file'[g] = file[g] /\ Units(g)' = Units(g) /\ (\A n : Whole(g, n)' = Whole(g, n))
            /\ mark' = mark /\ counted' = counted /\ from' = from
        BY <1>1, <1>2, <1>3, <3>2
      <4> QED BY <3>1, <4>1
    <3>3. CASE g = f
      <4>1. mark'[f].len # Units(f)'
        <5>1. mark[f].len <= Units(f) /\ mark[f].len \in Nat
          BY LineTypes DEF Marked
        <5>2. Units(f) \in Int /\ Units(f)' \in Int
          BY <1>1, <1>3 DEF Units, L
        <5> QED BY <1>1, <1>3, <5>1, <5>2
      <4>2. ASSUME NEW n \in from[f] .. L + 1, file'[f][n] # 0, file'[f][n] <= mark[f].id
            PROVE  counted[file'[f][n]] > 0
        <5>1. CASE n \in from[f] .. L
          <6>1. file'[f][n] = file[f][n]
            BY <1>1, <3>1, <3>3, <5>1 DEF L
          <6> QED BY <3>1, <3>3, <4>2, <5>1, <6>1 DEF L
        <5>2. CASE n = L + 1
          <6>1. l # 0 /\ l <= mark[f].id /\ mark[f].id # NoId
            BY <1>1, <3>1, <3>3, <4>2, <5>2 DEF Marked, L
          <6>2. PICK k \in Lines(f) : file[f][k] = mark[f].id
            BY <6>1 DEF Marked
          <6>3. mark[f].id <= ids /\ mark[f].id \in Int /\ ids \in Int /\ l \in Int
            BY <1>1, <1>4, <6>2 DEF Written
          <6>4. L > 0 /\ l = file[f][L] /\ L \in from[f] .. L
            BY <1>1, <3>1, <3>3, <6>1, <6>3 DEF L
          <6> QED BY <1>1, <3>1, <3>3, <5>2, <6>1, <6>4 DEF L
        <5> QED BY <1>1, <3>1, <3>3, <4>2, <5>1, <5>2 DEF L
      <4> QED BY <1>1, <3>1, <3>3, <4>1, <4>2 DEF L
    <3> QED BY <3>2, <3>3
  <2> QED BY <2>1 DEF Caught, Docs
<1> QED BY <1>5, <1>6, <1>8, <1>9, <1>10, <1>11

\* So does the end of a line.
LEMMA CompleteStep ==
    ASSUME ClaudeInv, NEW f \in Docs, OneHook!Complete(f)
    PROVE  /\ ClaudeInv' /\ \A g \in Docs : Units(g) <= Units(g)'
           /\ Caught => Caught'
<1> USE DEF ClaudeInv
<1>1. /\ f \in torn /\ torn' = torn \ {f}
      /\ UNCHANGED <<file, ids, mark, from, counted, hook>>
  BY DEF OneHook!Complete
<1>2. \A g \in Docs : /\ Len(file[g]) \in Nat
                      /\ mark[g].len <= Units(g) /\ mark[g].len \in Nat /\ from[g] \in Nat
  BY LineTypes DEF Marked
<1>3. \A g \in Docs : /\ Units(g) \in Int /\ Units(g)' \in Int /\ Units(g) <= Units(g)'
                      /\ IF g = f THEN Units(g) < Units(g)' ELSE Units(g)' = Units(g)
  <2>1. ASSUME NEW g \in Docs
        PROVE  /\ Units(g) \in Int /\ Units(g)' \in Int /\ Units(g) <= Units(g)'
               /\ IF g = f THEN Units(g) < Units(g)' ELSE Units(g)' = Units(g)
    <3>1. CASE g = f
      <4>1. Units(f) = 2 * Len(file[f]) - 1
        BY <1>1 DEF Units
      <4>2. Units(f)' = 2 * Len(file[f]) - 0
        BY <1>1 DEF Units
      <4>3. Len(file[f]) \in Nat
        BY <1>2
      <4> QED BY <3>1, <4>1, <4>2, <4>3
    <3>2. CASE g # f
      <4>1. g \in torn' <=> g \in torn
        BY <1>1, <3>2
      <4>2. Units(g)' = Units(g)
        BY <1>1, <4>1 DEF Units
      <4>3. Units(g) \in Int
        BY <1>2 DEF Units
      <4> QED BY <3>2, <4>2, <4>3
    <3> QED BY <3>1, <3>2
  <2> QED BY <2>1
<1>4. \A g \in Docs : Lines(g)' = Lines(g) /\ \A n : Whole(g, n) => Whole(g, n)'
  BY <1>1 DEF Lines, Whole
<1>5. \A g \in Docs \ {f} : \A n : Whole(g, n)' = Whole(g, n)
  BY <1>1 DEF Whole
<1>6. ClaudeTypes'
  BY <1>1 DEF ClaudeTypes, Docs, Marks, NoId, Responses
<1>7. Written'
  BY <1>1, <1>4 DEF Written, Docs
<1>8. Marked'
  <2>1. ASSUME NEW g \in Docs
        PROVE  /\ mark'[g].id = NoId <=> from'[g] = 0
               /\ mark'[g].id # NoId =>
                    \E n \in Lines(g)' : file'[g][n] = mark'[g].id /\ Whole(g, n)'
               /\ mark'[g].len <= Units(g)'
    <3>1. /\ mark[g].id = NoId <=> from[g] = 0
          /\ mark[g].id # NoId => \E n \in Lines(g) : file[g][n] = mark[g].id /\ Whole(g, n)
      BY DEF Marked
    <3>2. mark[g].len <= Units(g)'
      BY <1>2, <1>3
    <3> QED BY <1>1, <1>4, <3>1, <3>2
  <2> QED BY <2>1 DEF Marked, Docs, NoId
<1>9. Uncounted'
  BY <1>1, <1>4 DEF Uncounted, Docs, Responses, NoId
<1>10. ASSUME Caught PROVE Caught'
  <2>1. ASSUME NEW g \in Docs, from'[g] > 0
        PROVE  /\ from'[g] <= Len(file'[g])
               /\ \A n \in from'[g] .. Len(file'[g]) : file'[g][n] # 0 =>
                    /\ file'[g][n] <= mark'[g].id => counted'[file'[g][n]] > 0
                    /\ mark'[g].len = Units(g)' /\ Whole(g, n)' => counted'[file'[g][n]] > 0
    <3>1. /\ from[g] <= Len(file[g])
          /\ \A n \in from[g] .. Len(file[g]) : file[g][n] # 0 =>
               /\ file[g][n] <= mark[g].id => counted[file[g][n]] > 0
               /\ mark[g].len = Units(g) /\ Whole(g, n) => counted[file[g][n]] > 0
      BY <1>1, <1>10, <2>1 DEF Caught
    <3>2. CASE g = f
      <4>1. mark'[g].len # Units(g)'
        BY <1>1, <1>2, <1>3, <3>2
      <4> QED BY <1>1, <3>1, <4>1
    <3>3. CASE g # f
      <4>1. Units(g)' = Units(g) /\ \A n : Whole(g, n)' = Whole(g, n)
        BY <1>3, <1>5, <3>3
      <4> QED BY <1>1, <3>1, <4>1
    <3> QED BY <3>2, <3>3
  <2> QED BY <2>1 DEF Caught, Docs
<1> QED BY <1>3, <1>6, <1>7, <1>8, <1>9, <1>10

\* A step that leaves the transcripts and what is known of them alone.
LEMMA ClaudeRests ==
    ASSUME ClaudeInv, UNCHANGED <<file, torn, ids, mark, from, counted>>
    PROVE  /\ ClaudeInv' /\ \A g \in Docs : Units(g)' = Units(g)
           /\ Caught => Caught'
<1>1. /\ \A g : Units(g)' = Units(g) /\ Lines(g)' = Lines(g)
      /\ \A g, n : Whole(g, n)' = Whole(g, n)
  BY DEF Units, Lines, Whole
<1>2. ClaudeTypes' /\ Written'
  BY <1>1 DEF ClaudeInv, ClaudeTypes, Written
<1>3. Marked' /\ Uncounted'
  BY <1>1 DEF ClaudeInv, Marked, Uncounted
<1>4. Caught => Caught'
  BY <1>1 DEF Caught
<1> QED BY <1>1, <1>2, <1>3, <1>4 DEF ClaudeInv

\* After a restart nothing is counted and no watermark set.
LEMMA RestartedStep ==
    ASSUME ClaudeInv, NEW H, Restarted(H)
    PROVE  ClaudeInv' /\ Caught'
<1> USE DEF ClaudeInv
<1>1. /\ mark' = [f \in Docs |-> [len |-> 0, id |-> NoId]] /\ from' = [f \in Docs |-> 0]
      /\ counted' = [i \in Responses |-> 0] /\ UNCHANGED <<file, torn, ids>>
  BY DEF Restarted, OneHook!NoMark, OneHook!None, NoId
<1>2. NoId \in 1 .. NoId
  BY ClaudeFits DEF NoId
<1>3. ClaudeTypes'
  <2>1. mark' \in [Docs -> Marks]
    BY <1>1, <1>2 DEF Marks
  <2> QED BY <1>1, <2>1 DEF ClaudeTypes, Docs, Marks, NoId, Responses
<1>4. Written'
  BY <1>1 DEF Written, Docs, Lines
<1>5. \A g \in Docs : 0 <= Units(g)'
  <2>1. ASSUME NEW g \in Docs PROVE 0 <= Units(g)'
    <3>1. Units(g)' = Units(g)
      BY <1>1 DEF Units
    <3>2. Len(file[g]) \in Nat
      BY LineTypes
    <3>3. g \in torn => Len(file[g]) > 0
      BY <3>2, EmptySeq DEF Written, ClaudeTypes
    <3>4. CASE g \in torn
      <4>1. Units(g) = 2 * Len(file[g]) - 1
        BY <3>4 DEF Units
      <4> QED BY <3>1, <3>2, <3>3, <3>4, <4>1
    <3>5. CASE g \notin torn
      <4>1. Units(g) = 2 * Len(file[g]) - 0
        BY <3>5 DEF Units
      <4> QED BY <3>1, <3>2, <4>1
    <3> QED BY <3>4, <3>5
  <2> QED BY <2>1
<1>6. Marked'
  <2>1. \A f \in Docs : mark'[f].id = NoId /\ from'[f] = 0 /\ mark'[f].len = 0
    BY <1>1
  <2> QED BY <1>5, <2>1 DEF Marked, Docs, NoId
<1>7. Uncounted'
  <2>1. \A g \in Docs : \A n \in Lines(g) : file[g][n] # 0 => file[g][n] \in Responses
    BY LineTypes DEF Responses
  <2>2. \A i \in Responses : counted'[i] = 0
    BY <1>1
  <2>3. \A g \in Docs : Lines(g)' = Lines(g) /\ file' = file
    BY <1>1 DEF Lines
  <2> QED BY <2>1, <2>2, <2>3 DEF Uncounted, Docs, Responses, NoId
<1>8. Caught'
  BY <1>1 DEF Caught, Docs
<1> QED BY <1>3, <1>4, <1>6, <1>7, <1>8

-----------------------------------------------------------------------------
\* The set of transcripts that a hook goes on with is listed.
LEMMA Listed ==
    ASSUME NEW T \in SUBSET Subs
    PROVE  OneHook!SetToSeq(T) \in Seq(Subs)
<1>1. IsFiniteSet(T)
  BY ClaudeFits, FS_Subset
<1>2. Cardinality(T) \in Nat /\ ExistsBijection(1 .. Cardinality(T), T)
  BY <1>1, FS_CardinalityType
<1>3. PICK b \in Bijection(1 .. Cardinality(T), T) : TRUE
  BY <1>2 DEF ExistsBijection
<1>4. /\ b \in [1 .. Cardinality(T) -> T]
      /\ \A m, n \in 1 .. Cardinality(T) : b[m] = b[n] => m = n
  BY <1>3 DEF Bijection, Injection, Surjection, IsInjective
<1>5. OneHook!IsInjective(b)
  BY <1>4 DEF OneHook!IsInjective
<1>6. OneHook!SetToSeq(T) \in [1 .. Cardinality(T) -> T]
  <2>1. OneHook!Cardinality(T) = Cardinality(T)
    BY Libraries
  <2>2. OneHook!SetToSeq(T) = CHOOSE s \in [1 .. Cardinality(T) -> T] : OneHook!IsInjective(s)
    BY <2>1 DEF OneHook!SetToSeq
  <2> QED BY <1>4, <1>5, <2>2
<1>7. OneHook!SetToSeq(T) \in [1 .. Cardinality(T) -> Subs]
  BY <1>6
<1>8. Seq(Subs) = UNION {[1 .. n -> Subs] : n \in Nat}
  BY SeqDef
<1> QED BY <1>2, <1>7, <1>8

LEMMA FollowingHandler ==
    ASSUME NEW H, HandlersTrue(H), NEW h \in H, hook[h].pc # "idle"
    PROVE  /\ OneHook!Following(h) \in Handler /\ OneHook!Following(h).pc \in {"idle", "stat"}
           /\ OneHook!Following(h).pc # "idle" => OneHook!Following(h).todo # <<>>
<1>1. hook[h] \in Handler /\ hook[h].todo # <<>>
  BY DEF HandlersTrue
<1>2. hook[h].todo \in Seq(Docs) /\ Tail(hook[h].todo) \in Seq(Docs)
  BY <1>1, HeadTailProperties DEF Handler
<1>3. OneHook!SetToSeq({s \in Subs : file[s] # <<>>}) \in Seq(Docs)
  <2>1. OneHook!SetToSeq({s \in Subs : file[s] # <<>>}) \in Seq(Subs)
    BY Listed
  <2>2. Subs \subseteq Docs
    BY DEF Docs
  <2> QED BY <2>1, <2>2
<1> DEFINE todo == IF Head(hook[h].todo) = Main
                   THEN OneHook!SetToSeq({s \in Subs : file[s] # <<>>}) ELSE Tail(hook[h].todo)
<1>4. todo \in Seq(Docs)
  BY <1>2, <1>3
<1>5. OneHook!Following(h) = IF todo = <<>> THEN OneHook!Done
                            ELSE [pc |-> "stat", todo |-> todo, len |-> 0]
  BY DEF OneHook!Following
<1> HIDE DEF todo
<1>6. CASE todo = <<>>
  BY <1>4, <1>5, <1>6 DEF OneHook!Done, Handler
<1>7. CASE todo # <<>>
  <2>1. OneHook!Following(h) = [pc |-> "stat", todo |-> todo, len |-> 0]
    BY <1>5, <1>7
  <2> QED BY <1>4, <1>7, <2>1 DEF Handler
<1> QED BY <1>6, <1>7

\* The record of a handler, written field by field.
LEMMA HandlerRecords ==
    /\ \A x : [[[pc |-> "idle", todo |-> <<>>, len |-> 0] EXCEPT !.pc = "stat"] EXCEPT !.todo = x]
                = [pc |-> "stat", todo |-> x, len |-> 0]
    /\ \A r \in Handler : \A x : [[r EXCEPT !.pc = "scan"] EXCEPT !.len = x]
                = [pc |-> "scan", todo |-> r.todo, len |-> x]
<1>1. ASSUME NEW e, NEW x, NEW y
      PROVE  [[[pc |-> y, todo |-> e, len |-> 0] EXCEPT !.pc = "stat"] EXCEPT !.todo = x]
               = [pc |-> "stat", todo |-> x, len |-> 0]
  <2>1. [[pc |-> y, todo |-> e, len |-> 0] EXCEPT !.pc = "stat"]
          = [pc |-> "stat", todo |-> e, len |-> 0]
    OBVIOUS
  <2>2. [[pc |-> "stat", todo |-> e, len |-> 0] EXCEPT !.todo = x]
          = [pc |-> "stat", todo |-> x, len |-> 0]
    OBVIOUS
  <2> QED BY <2>1, <2>2
<1>2. ASSUME NEW r \in Handler, NEW x
      PROVE  [[r EXCEPT !.pc = "scan"] EXCEPT !.len = x]
               = [pc |-> "scan", todo |-> r.todo, len |-> x]
  <2>1. [r EXCEPT !.pc = "scan"] = [pc |-> "scan", todo |-> r.todo, len |-> r.len]
    BY DEF Handler
  <2>2. [[pc |-> "scan", todo |-> r.todo, len |-> r.len] EXCEPT !.len = x]
          = [pc |-> "scan", todo |-> r.todo, len |-> x]
    OBVIOUS
  <2> QED BY <2>1, <2>2
<1> QED BY <1>1, <1>2, Zenon

\* What hooks see of the length of a transcript.
LEMMA LengthIs == ASSUME NEW f PROVE OneHook!Length(f) = Units(f)
<1>1. Cardinality({f} \cap torn) = IF f \in torn THEN 1 ELSE 0
  <2>1. CASE f \in torn
    <3>1. {f} \cap torn = {f}
      BY <2>1
    <3> QED BY <2>1, <3>1, FS_Singleton
  <2>2. CASE f \notin torn
    <3>1. {f} \cap torn = {}
      BY <2>2
    <3> QED BY <2>2, <3>1, FS_EmptySet
  <2> QED BY <2>1, <2>2
<1>2. OneHook!Length(f) = 2 * Len(file[f]) - Cardinality({f} \cap torn)
  BY Libraries DEF OneHook!Length
<1> QED BY <1>1, <1>2 DEF Units

\* A handler goes on.
LEMMA HandlerMoves ==
    ASSUME NEW H, HandlersTrue(H), NEW h \in H, NEW new \in Handler,
           hook' = [hook EXCEPT ![h] = new], UNCHANGED <<file, torn>>,
           new.pc # "idle" => new.todo # <<>>,
           new.pc = "scan" => new.len <= Units(Head(new.todo))
    PROVE  HandlersTrue(H)'
<1>1. hook \in [H -> Handler] /\ hook' \in [H -> Handler]
  BY DEF HandlersTrue
<1>2. \A k \in H : hook'[k] = IF k = h THEN new ELSE hook[k]
  BY <1>1
<1>3. \A f : Units(f)' = Units(f)
  BY DEF Units
<1>4. ASSUME NEW k \in H, hook'[k].pc # "idle"
      PROVE  /\ hook'[k].todo # <<>>
             /\ hook'[k].pc = "scan" => hook'[k].len <= Units(Head(hook'[k].todo))
  <2>1. CASE k = h
    BY <1>2, <1>4, <2>1
  <2>2. CASE k # h
    BY <1>2, <1>4, <2>2 DEF HandlersTrue
  <2> QED BY <2>1, <2>2
<1>5. ASSUME NEW k \in H, hook'[k].pc # "idle"
      PROVE  (hook[k].todo # <<>> /\ (hook[k].pc = "scan" => hook[k].len <= Units(Head(hook[k].todo))))'
  BY <1>3, <1>4, <1>5 DEF Units
<1> QED BY <1>1, <1>5 DEF HandlersTrue, Handler, Docs

\* The transcripts grow.
LEMMA HandlersWait ==
    ASSUME NEW H, HandlersTrue(H), ClaudeTypes, ClaudeTypes', hook' = hook,
           \A f \in Docs : Units(f) <= Units(f)'
    PROVE  HandlersTrue(H)'
<1>1. \A h \in H : hook[h] \in Handler /\ hook[h].len \in Nat /\ hook[h].todo \in Seq(Docs)
  BY DEF HandlersTrue, Handler
<1>2. \A f \in Docs : Units(f) \in Int /\ Units(f)' \in Int
  <2>1. ASSUME NEW f \in Docs PROVE Units(f) \in Int /\ Units(f)' \in Int
    <3>1. file[f] \in Seq(0 .. MaxIds) /\ file'[f] \in Seq(0 .. MaxIds)'
      BY DEF ClaudeTypes, Docs
    <3>2. Len(file[f]) \in Nat /\ Len(file'[f]) \in Nat
      BY <3>1, LenProperties
    <3>3. Units(f) \in Int
      BY <3>2 DEF Units
    <3>4. CASE f \in torn'
      BY <3>2, <3>3, <3>4 DEF Units
    <3>5. CASE f \notin torn'
      BY <3>2, <3>3, <3>5 DEF Units
    <3> QED BY <3>4, <3>5
  <2> QED BY <2>1
<1>3. ASSUME NEW h \in H, hook[h].pc = "scan"
      PROVE  hook[h].len <= Units(Head(hook[h].todo))'
  <2>1. hook[h].len <= Units(Head(hook[h].todo)) /\ Head(hook[h].todo) \in Docs
    BY <1>1, <1>3, HeadTailProperties DEF HandlersTrue
  <2>2. PICK f \in Docs : f = Head(hook[h].todo)
    BY <2>1
  <2>3. hook[h].len <= Units(f)'
    BY <1>1, <1>2, <2>1, <2>2
  <2>4. Units(f)' = Units(Head(hook[h].todo))'
    BY <2>2 DEF Units
  <2> QED BY <2>3, <2>4
<1> QED BY <1>3 DEF HandlersTrue, Handler, Docs

\* A handler that begins has not looked at anything yet.
LEMMA HookStep ==
    ASSUME NEW H, HandlersTrue(H), NEW h \in H, OneHook!Hook(h)
    PROVE  HandlersTrue(H)'
<1> DEFINE new == [pc |-> "stat", todo |-> <<Main>>, len |-> 0]
<1>1. hook' = [hook EXCEPT ![h] = new] /\ UNCHANGED <<file, torn>>
  <2>1. [[[pc |-> "idle", todo |-> <<>>, len |-> 0] EXCEPT !.pc = "stat"] EXCEPT !.todo = <<Main>>]
          = new
    BY HandlerRecords, Zenon
  <2> QED BY <2>1 DEF OneHook!Hook, OneHook!written, OneHook!Done
<1>2. Main \in Docs
  BY DEF Docs
<1>3. new \in Handler /\ new.pc = "stat" /\ new.todo # <<>>
  BY <1>2 DEF Handler
<1> HIDE DEF new
<1> QED BY <1>1, <1>3, HandlerMoves

\* A length that is read is one the file has from then on at least.
LEMMA StatStep ==
    ASSUME NEW H, HandlersTrue(H), ClaudeTypes, Written, NEW h \in H, OneHook!Stat(h)
    PROVE  HandlersTrue(H)'
<1> DEFINE f == Head(hook[h].todo)
           new == [pc |-> "scan", todo |-> hook[h].todo, len |-> OneHook!Length(f)]
<1>1. hook[h].pc = "stat" /\ hook \in [H -> Handler] /\ UNCHANGED <<file, torn>>
      /\ hook' = [hook EXCEPT ![h].pc = "scan", ![h].len = OneHook!Length(f)]
  BY DEF OneHook!Stat, OneHook!written, HandlersTrue
<1>2. hook[h] \in Handler /\ hook[h].todo # <<>> /\ hook[h].todo \in Seq(Docs)
  BY <1>1 DEF HandlersTrue, Handler
<1>3. f \in Docs
  BY <1>2, HeadTailProperties
<1>4. OneHook!Length(f) = Units(f)
  BY LengthIs
<1>5. Units(f) \in Nat
  <2>1. /\ file[f] \in Seq(0 .. MaxIds) /\ Len(file[f]) \in Nat
        /\ f \in torn => file[f] # <<>>
    BY <1>3, LenProperties DEF ClaudeTypes, Written
  <2>2. f \in torn => Len(file[f]) > 0
    BY <2>1, EmptySeq
  <2>3. CASE f \in torn
    BY <2>1, <2>2, <2>3 DEF Units
  <2>4. CASE f \notin torn
    <3>1. Units(f) = 2 * Len(file[f]) - 0
      BY <2>4 DEF Units
    <3> QED BY <2>1, <3>1
  <2> QED BY <2>3, <2>4
<1>6. hook' = [hook EXCEPT ![h] = new]
  <2> DEFINE mid == [hook EXCEPT ![h] = [hook[h] EXCEPT !.pc = "scan"]]
  <2>1. mid[h] = [hook[h] EXCEPT !.pc = "scan"]
    BY <1>1
  <2>2. [[hook[h] EXCEPT !.pc = "scan"] EXCEPT !.len = OneHook!Length(f)] = new
    BY <1>2, HandlerRecords, Zenon
  <2>3. hook' = [mid EXCEPT ![h] = [mid[h] EXCEPT !.len = OneHook!Length(f)]]
    BY <1>1
  <2>4. hook' = [mid EXCEPT ![h] = new]
    BY <2>1, <2>2, <2>3
  <2> HIDE DEF new
  <2>5. [mid EXCEPT ![h] = new] = [hook EXCEPT ![h] = new]
    BY <1>1
  <2> QED BY <2>4, <2>5
<1>7. new \in Handler /\ new.pc = "scan" /\ new.todo # <<>> /\ new.len <= Units(Head(new.todo))
  BY <1>2, <1>4, <1>5 DEF Handler
<1> HIDE DEF new
<1> QED BY <1>1, <1>6, <1>7, HandlerMoves

-----------------------------------------------------------------------------
\* What a scan reads of a transcript: only responses beyond the watermark, and all of those
\* if the watermark is within the tail.
Within(f) == {n \in Lines(f) : n + TailLines > Len(file[f]) /\ Whole(f, n)}

\* What a scan finds lies above the watermark, and above all that was counted.
LEMMA Reading ==
    ASSUME ClaudeInv, NEW f \in Docs
    PROVE  LET start == OneHook!ScanFrom(f)
               new == OneHook!Fresh(f)
           IN  /\ start \in Nat \ {0}
               /\ new = {file[f][n] : n \in {k \in Within(f) : k >= start}} \ {0}
               /\ mark[f].id # NoId => \A n \in Within(f) :
                    n >= start /\ file[f][n] # 0 => file[f][n] > mark[f].id
               /\ (\E n \in Within(f) : file[f][n] = mark[f].id) /\ mark[f].id # NoId =>
                    \A n \in Lines(f) : file[f][n] > mark[f].id => n >= start
<1> USE DEF ClaudeInv
<1> DEFINE lines == OneHook!Readable(f)
           known == {i \in lines : mark[f].id # OneHook!None /\ file[f][i] = mark[f].id}
           prompts == {i \in lines : file[f][i] = OneHook!PromptLine}
           start == OneHook!ScanFrom(f)
<1>1. /\ Len(file[f]) \in Nat /\ \A n \in Lines(f) : n \in Nat /\ file[f][n] \in 0 .. MaxIds
      /\ MaxIds \in Nat /\ mark[f].id \in 1 .. NoId /\ TailLines \in Nat \ {0}
  BY LineTypes, ClaudeFits
<1>2. lines = Within(f) /\ Within(f) \subseteq Lines(f) /\ Lines(f) \subseteq 0 .. Len(file[f])
  BY <1>1 DEF OneHook!Readable, Within, Lines, Whole
<1>3. start = IF known # {} THEN OneHook!Highest(known) + 1
              ELSE IF prompts # {} THEN OneHook!Highest(prompts) + 1 ELSE 1
  BY DEF OneHook!ScanFrom
<1>4. OneHook!Fresh(f) = {file[f][n] : n \in {k \in Within(f) : k >= start}} \ {0}
  BY <1>2 DEF OneHook!Fresh, OneHook!PromptLine
<1>5. known = {i \in Within(f) : mark[f].id # NoId /\ file[f][i] = mark[f].id}
  BY <1>2 DEF OneHook!None, NoId
<1>6. prompts \subseteq 0 .. Len(file[f]) /\ known \subseteq 0 .. Len(file[f])
  BY <1>2
<1> HIDE DEF lines, known, prompts, start
<1>7. known # {} => /\ OneHook!Highest(known) \in known
                    /\ \A y \in known : y <= OneHook!Highest(known)
  BY <1>1, <1>6, HighestIs
<1>8. prompts # {} => OneHook!Highest(prompts) \in prompts
  BY <1>1, <1>6, HighestIs
<1>9. start \in Nat \ {0}
  <2>3. \A x \in 0 .. Len(file[f]) : x \in Nat
    BY <1>1
  <2>1. known # {} => OneHook!Highest(known) \in Nat
    BY <1>6, <1>7, <2>3, Zenon
  <2>2. prompts # {} => OneHook!Highest(prompts) \in Nat
    BY <1>6, <1>8, <2>3, Zenon
  <2> QED BY <1>3, <2>1, <2>2
<1>10. \A m, n \in Lines(f) : m < n /\ file[f][n] # 0 => file[f][m] <= file[f][n]
  BY DEF Written
<1>11. ASSUME mark[f].id # NoId, NEW n \in Within(f), n >= start, file[f][n] # 0
       PROVE  file[f][n] > mark[f].id
  <2>1. /\ n \in Lines(f) /\ n \in Nat /\ file[f][n] \in Nat /\ mark[f].id \in Nat
        /\ n + TailLines > Len(file[f])
    BY <1>1, <1>2 DEF Within
  <2>2. CASE known # {}
    <3> DEFINE k == OneHook!Highest(known)
    <3>1. k \in known /\ k \in Lines(f) /\ k \in Nat /\ file[f][k] = mark[f].id /\ start = k + 1
      BY <1>1, <1>2, <1>3, <1>5, <1>7, <2>2
    <3>2. k < n
      BY <1>11, <2>1, <3>1
    <3>3. mark[f].id <= file[f][n]
      BY <1>10, <1>11, <2>1, <3>1, <3>2
    <3>4. n \notin known
      BY <1>7, <2>1, <2>2, <3>1, <3>2
    <3>5. file[f][n] # mark[f].id
      BY <1>5, <1>11, <3>4
    <3> QED BY <2>1, <3>3, <3>5
  <2>3. CASE known = {}
    <3>1. PICK j \in Lines(f) : file[f][j] = mark[f].id /\ Whole(f, j)
      BY <1>11 DEF Marked
    <3>2. ~(j + TailLines > Len(file[f])) /\ j \in Nat
      BY <1>1, <1>5, <1>11, <2>3, <3>1 DEF Within
    <3>3. j < n
      BY <1>1, <2>1, <3>2
    <3>4. mark[f].id <= file[f][n]
      BY <1>10, <1>11, <2>1, <3>1, <3>3
    <3>5. file[f][n] # mark[f].id
      BY <1>5, <1>11, <2>3
    <3> QED BY <2>1, <3>4, <3>5
  <2> QED BY <2>2, <2>3
<1>12. ASSUME NEW j \in Within(f), file[f][j] = mark[f].id, mark[f].id # NoId,
              NEW n \in Lines(f), file[f][n] > mark[f].id
       PROVE  n >= start
  <2>1. known # {}
    BY <1>5, <1>12
  <2> DEFINE k == OneHook!Highest(known)
  <2>2. k \in Lines(f) /\ k \in Nat /\ file[f][k] = mark[f].id /\ start = k + 1
    BY <1>1, <1>2, <1>3, <1>5, <1>7, <2>1
  <2>3. n \in Nat /\ file[f][n] \in Nat /\ mark[f].id \in Nat /\ mark[f].id # 0
    BY <1>1
  <2>4. n # k
    BY <1>12, <2>2, <2>3
  <2>5. ~(n < k)
    BY <1>10, <1>12, <2>2, <2>3
  <2> QED BY <2>2, <2>3, <2>4, <2>5
<1> QED BY <1>4, <1>9, <1>11, <1>12 DEF start

\* A scan counts each response once, and all it passes.
LEMMA ScanStep ==
    ASSUME ClaudeInv, NEW H, HandlersTrue(H), NEW h \in H, OneHook!Scan(h)
    PROVE  /\ ClaudeInv' /\ HandlersTrue(H)'
           /\ Caught /\ Short(TailLines) => Caught'
<1> USE DEF ClaudeInv
<1> DEFINE f == Head(hook[h].todo)
           new == OneHook!Fresh(f)
           start == OneHook!ScanFrom(f)
<1>1. /\ hook[h].pc = "scan" /\ UNCHANGED <<file, torn, ids>>
      /\ hook' = [hook EXCEPT ![h] = OneHook!Following(h)]
  BY DEF OneHook!Scan, OneHook!written
<1>2. /\ OneHook!Following(h) \in Handler /\ OneHook!Following(h).pc \in {"idle", "stat"}
      /\ OneHook!Following(h).pc # "idle" => OneHook!Following(h).todo # <<>>
  BY <1>1, FollowingHandler
<1>3. HandlersTrue(H)'
  BY <1>1, <1>2, HandlerMoves
<1>4. CASE mark[f].len = hook[h].len
  <2>1. UNCHANGED <<file, torn, ids, mark, from, counted>>
    BY <1>1, <1>4 DEF OneHook!Scan
  <2> QED BY <1>3, <2>1, ClaudeRests
<1>5. CASE mark[f].len # hook[h].len
  <2>1. /\ mark' = [mark EXCEPT ![f] =
                      [len |-> hook[h].len, id |-> IF new = {} THEN mark[f].id ELSE OneHook!Highest(new)]]
        /\ from' = [from EXCEPT ![f] = IF from[f] = 0 /\ new # {} THEN start ELSE from[f]]
        /\ counted' = [i \in Responses |-> counted[i] + (IF i \in new THEN 1 ELSE 0)]
    <3>1. \A i : OneHook!Cardinality({i} \cap new) = IF i \in new THEN 1 ELSE 0
      <4>1. ASSUME NEW i PROVE Cardinality({i} \cap new) = IF i \in new THEN 1 ELSE 0
        <5>1. CASE i \in new
          <6>1. {i} \cap new = {i}
            BY <5>1
          <6> QED BY <5>1, <6>1, FS_Singleton
        <5>2. CASE i \notin new
          <6>1. {i} \cap new = {}
            BY <5>2
          <6> QED BY <5>2, <6>1, FS_EmptySet
        <5> QED BY <5>1, <5>2
      <4> QED BY <4>1, Libraries
    <3>2. /\ mark' = [mark EXCEPT ![f] =
                      [len |-> hook[h].len, id |-> IF new = {} THEN mark[f].id ELSE OneHook!Highest(new)]]
          /\ from' = [from EXCEPT ![f] = IF from[f] = 0 /\ new # {} THEN start ELSE from[f]]
          /\ counted' = [i \in OneHook!Ids |-> counted[i] + OneHook!Cardinality({i} \cap new)]
      BY <1>5 DEF OneHook!Scan
    <3> QED BY <3>1, <3>2 DEF OneHook!Ids, Responses
  <2>2. f \in Docs /\ hook[h].len \in Nat /\ hook[h].len <= Units(f)
    <3>1. hook[h] \in Handler /\ hook[h].todo # <<>> /\ hook[h].len <= Units(f)
      BY <1>1 DEF HandlersTrue
    <3>2. hook[h].todo \in Seq(Docs) /\ hook[h].len \in Nat
      BY <3>1 DEF Handler
    <3> QED BY <3>1, <3>2, HeadTailProperties
  <2> HIDE DEF f
  <2>3. /\ start \in Nat \ {0}
        /\ new = {file[f][n] : n \in {k \in Within(f) : k >= start}} \ {0}
        /\ mark[f].id # NoId => \A n \in Within(f) :
             n >= start /\ file[f][n] # 0 => file[f][n] > mark[f].id
        /\ (\E n \in Within(f) : file[f][n] = mark[f].id) /\ mark[f].id # NoId =>
             \A n \in Lines(f) : file[f][n] > mark[f].id => n >= start
    BY <2>2, Reading
  <2> HIDE DEF new, start
  <2>4. /\ \A g \in Docs : /\ Len(file[g]) \in Nat
                           /\ \A n \in Lines(g) : n \in Nat /\ file[g][n] \in 0 .. MaxIds
                           /\ mark[g].id \in 1 .. NoId /\ mark[g].len \in Nat /\ from[g] \in Nat
        /\ MaxIds \in Nat
        /\ mark \in [Docs -> Marks] /\ from \in [Docs -> Nat] /\ counted \in [Responses -> Nat]
    BY LineTypes, ClaudeFits DEF ClaudeTypes
  <2>5. Within(f) \subseteq Lines(f) /\ \A n \in Within(f) : Whole(f, n)
    BY DEF Within
  <2>6. new \subseteq Responses /\ new \subseteq 0 .. MaxIds
    <3>1. \A n \in Within(f) : file[f][n] \in 0 .. MaxIds
      BY <2>2, <2>4, <2>5
    <3>2. \A i \in new : i \in 0 .. MaxIds /\ i # 0
      BY <2>3, <3>1
    <3>3. MaxIds \in Nat
      BY <2>4
    <3> QED BY <3>2, <3>3 DEF Responses
  <2>7. ASSUME new # {}
        PROVE  OneHook!Highest(new) \in new /\ \A y \in new : y <= OneHook!Highest(new)
    BY <2>4, <2>6, <2>7, HighestIs
  <2>8. \A i \in new : counted[i] = 0
    <3>1. ASSUME NEW i \in new PROVE counted[i] = 0
      <4>1. PICK n \in Within(f) : n >= start /\ i = file[f][n] /\ i # 0
        BY <2>3
      <4> QED BY <2>2, <2>3, <2>5, <4>1 DEF Uncounted
    <3> QED BY <3>1
  <2>9. \A i \in Responses : counted'[i] = IF i \in new THEN 1 ELSE counted[i]
    BY <2>1, <2>4, <2>6, <2>8
  <2>10. /\ \A g \in Docs \ {f} : mark'[g] = mark[g] /\ from'[g] = from[g]
         /\ mark'[f].len = hook[h].len
         /\ mark'[f].id = IF new = {} THEN mark[f].id ELSE OneHook!Highest(new)
         /\ from'[f] = IF from[f] = 0 /\ new # {} THEN start ELSE from[f]
    BY <2>1, <2>2, <2>4
  <2>11. \A g \in Docs : Lines(g)' = Lines(g) /\ Units(g)' = Units(g) /\ \A n : Whole(g, n)' = Whole(g, n)
    BY <1>1 DEF Lines, Units, Whole
  \* Old responses are up to the old watermark, the ones read now beyond it.
  <2>12. mark[f].id # NoId => \A i \in new : i > mark[f].id
    BY <2>3
  <2>13. ClaudeTypes'
    <3>1. IF new = {} THEN mark[f].id \in 1 .. NoId ELSE OneHook!Highest(new) \in 1 .. NoId
      <4>1. Responses \subseteq 1 .. NoId
        BY <2>4 DEF Responses, NoId
      <4>2. CASE new = {}
        BY <2>2, <2>4, <4>2
      <4>3. CASE new # {}
        <5>1. OneHook!Highest(new) \in new
          BY <2>7, <4>3
        <5> QED BY <2>6, <4>1, <4>3, <5>1
      <4> QED BY <4>2, <4>3
    <3>2. [len |-> hook[h].len, id |-> IF new = {} THEN mark[f].id ELSE OneHook!Highest(new)] \in Marks
      BY <2>2, <3>1 DEF Marks
    <3>3. mark' \in [Docs -> Marks]
      BY <2>1, <2>4, <3>2
    <3>4. from' \in [Docs -> Nat]
      BY <2>1, <2>2, <2>3, <2>4
    <3>5. counted' \in [Responses -> Nat]
      BY <2>1, <2>4
    <3> QED BY <1>1, <3>3, <3>4, <3>5 DEF ClaudeTypes, Docs, Marks, NoId, Responses
  <2>14. Written'
    BY <1>1 DEF Written, Docs, Lines
  <2>15. Marked'
    <3>1. ASSUME NEW g \in Docs
          PROVE  /\ mark'[g].id = NoId <=> from'[g] = 0
                 /\ mark'[g].id # NoId => \E n \in Lines(g) : file[g][n] = mark'[g].id /\ Whole(g, n)
                 /\ mark'[g].len <= Units(g)
      <4>1. CASE g # f
        BY <2>10, <4>1 DEF Marked
      <4>2. CASE g = f /\ new = {}
        BY <2>2, <2>10, <4>2 DEF Marked
      <4>3. CASE g = f /\ new # {}
        <5>1. mark'[f].id \in new
          BY <2>7, <2>10, <4>3
        <5>2. PICK n \in Within(f) : file[f][n] = mark'[f].id
          BY <2>3, <5>1
        <5>3. mark'[f].id # NoId
          BY <2>4, <2>6, <5>1 DEF NoId
        <5>4. from'[f] # 0
          BY <2>3, <2>10, <4>3
        <5> QED BY <2>2, <2>5, <2>10, <4>3, <5>2, <5>3, <5>4
      <4> QED BY <4>1, <4>2, <4>3
    <3> QED BY <1>1, <2>11, <3>1 DEF Marked, Docs, NoId
  <2>16. Uncounted'
    <3>1. ASSUME NEW i \in Responses PROVE counted'[i] <= 1 /\ (i > ids => counted'[i] = 0)
      <4>1. CASE i \in new
        <5>1. PICK n \in Lines(f) : file[f][n] = i
          BY <2>3, <2>5, <4>1
        <5>2. i <= ids /\ ids \in Int /\ i \in Int
          BY <2>2, <2>4, <5>1 DEF Written, ClaudeTypes
        <5> QED BY <2>9, <3>1, <4>1, <5>2
      <4>2. CASE i \notin new
        BY <2>9, <3>1, <4>2 DEF Uncounted
      <4> QED BY <4>1, <4>2
    <3>2. ASSUME NEW g \in Docs, NEW n \in Lines(g), file[g][n] # 0,
                 mark'[g].id = NoId \/ file[g][n] > mark'[g].id
          PROVE  counted'[file[g][n]] = 0
      <4>1. file[g][n] \in Responses /\ file[g][n] \in Nat
        BY <2>4, <3>2 DEF Responses
      <4>2. CASE g # f
        <5>1. file[g][n] \notin new
          <6>1. ASSUME NEW m \in Within(f), file[f][m] = file[g][n] PROVE FALSE
            BY <2>2, <2>5, <3>2, <4>2, <6>1 DEF Written
          <6> QED BY <2>3, <6>1
        <5>2. counted[file[g][n]] = 0
          BY <2>10, <3>2, <4>2 DEF Uncounted
        <5> QED BY <2>9, <4>1, <5>1, <5>2
      <4>3. CASE g = f /\ new = {}
        <5>1. counted[file[g][n]] = 0
          BY <2>10, <3>2, <4>3 DEF Uncounted
        <5> QED BY <2>9, <4>1, <4>3, <5>1
      <4>4. CASE g = f /\ new # {}
        <5>1. mark'[f].id \in new /\ mark'[f].id # NoId /\ \A y \in new : y <= mark'[f].id
          <6>1. mark'[f].id = OneHook!Highest(new)
            BY <2>10, <4>4
          <6>2. mark'[f].id \in new /\ \A y \in new : y <= mark'[f].id
            BY <2>7, <4>4, <6>1
          <6>3. \A i \in Responses : i # NoId
            BY <2>4 DEF Responses, NoId
          <6> QED BY <2>6, <6>2, <6>3
        <5>2. file[f][n] > mark'[f].id /\ mark'[f].id \in Nat
          <6>1. \A i \in Responses : i \in Nat
            BY DEF Responses
          <6> QED BY <2>6, <3>2, <4>4, <5>1, <6>1
        <5>3. file[f][n] \notin new
          BY <4>1, <4>4, <5>1, <5>2
        <5>4. mark[f].id = NoId \/ file[f][n] > mark[f].id
          <6>1. mark[f].id # NoId => mark'[f].id > mark[f].id
            BY <2>12, <5>1
          <6> QED BY <2>2, <2>4, <4>1, <4>4, <5>2, <6>1
        <5>5. counted[file[f][n]] = 0
          BY <2>2, <3>2, <4>4, <5>4 DEF Uncounted
        <5> QED BY <2>9, <4>1, <4>4, <5>3, <5>5
      <4> QED BY <4>2, <4>3, <4>4
    <3> QED BY <1>1, <2>11, <3>1, <3>2 DEF Uncounted, Docs, Responses, NoId
  <2>17. ASSUME Caught, Short(TailLines) PROVE Caught'
    <3>1. ASSUME NEW g \in Docs, from'[g] > 0
          PROVE  /\ from'[g] <= Len(file[g])
                 /\ \A n \in from'[g] .. Len(file[g]) : file[g][n] # 0 =>
                      /\ file[g][n] <= mark'[g].id => counted'[file[g][n]] > 0
                      /\ mark'[g].len = Units(g) /\ Whole(g, n) => counted'[file[g][n]] > 0
      <4>1. CASE g # f
        <5>1. /\ from[g] <= Len(file[g]) /\ from'[g] = from[g] /\ mark'[g] = mark[g]
              /\ \A n \in from[g] .. Len(file[g]) : file[g][n] # 0 =>
                   /\ file[g][n] <= mark[g].id => counted[file[g][n]] > 0
                   /\ mark[g].len = Units(g) /\ Whole(g, n) => counted[file[g][n]] > 0
          BY <2>10, <2>17, <3>1, <4>1 DEF Caught
        <5>2. \A n \in from[g] .. Len(file[g]) : file[g][n] # 0 => file[g][n] \in Responses
          BY <2>4, <3>1, <5>1 DEF Responses, Lines
        <5>3. \A i \in Responses : counted[i] > 0 => counted'[i] > 0
          BY <2>4, <2>9
        <5> QED BY <5>1, <5>2, <5>3
      <4>2. CASE g = f
        <5>1. \A n \in Lines(f) : Whole(f, n) => n \in Within(f)
          <6>1. ASSUME NEW n \in Lines(f) PROVE n + TailLines > Len(file[f])
            <7>1. Len(file[f]) <= TailLines
              BY <2>2, <2>17 DEF Short
            <7> QED BY <2>2, <2>4, <6>1, <7>1, ClaudeFits DEF Lines
          <6> QED BY <6>1 DEF Within
        <5>2. ASSUME mark[f].id # NoId PROVE \E n \in Within(f) : file[f][n] = mark[f].id
          BY <2>2, <5>1, <5>2 DEF Marked
        <5>3. from[f] > 0 <=> mark[f].id # NoId
          BY <2>2, <2>4 DEF Marked
        <5>4. new # {} => \E k \in Within(f) : k >= start /\ file[f][k] = OneHook!Highest(new)
                                              /\ file[f][k] # 0
          BY <2>3, <2>7
        <5>5. from'[f] <= Len(file[f])
          <6>1. CASE from[f] > 0
            BY <2>2, <2>10, <2>17, <6>1 DEF Caught
          <6>2. CASE from[f] = 0
            <7>1. new # {} /\ from'[f] = start
              BY <2>10, <3>1, <4>2, <6>2
            <7>2. PICK k \in Within(f) : k >= start
              BY <5>4, <7>1
            <7> QED BY <2>2, <2>3, <2>4, <2>5, <7>1, <7>2 DEF Lines
          <6> QED BY <2>2, <2>4, <6>1, <6>2
        <5>6. from'[f] \in Nat \ {0}
          BY <2>2, <2>3, <2>4, <2>10, <3>1, <4>2
        <5>7. ASSUME NEW n \in from'[f] .. Len(file[f]), file[f][n] # 0,
                     file[f][n] <= mark'[f].id \/ Whole(f, n)
              PROVE  counted'[file[f][n]] > 0
          <6>1. n \in Lines(f) /\ n \in Nat /\ file[f][n] \in Responses /\ file[f][n] \in Nat
            BY <2>2, <2>4, <5>6, <5>7 DEF Lines, Responses
          <6>2. CASE from[f] > 0 /\ file[f][n] <= mark[f].id
            <7>1. n \in from[f] .. Len(file[f])
              BY <2>10, <5>7, <6>2
            <7>2. counted[file[f][n]] > 0
              BY <2>2, <2>17, <5>7, <6>2, <7>1 DEF Caught
            <7>3. counted'[file[f][n]] = IF file[f][n] \in new THEN 1 ELSE counted[file[f][n]]
              BY <2>9, <6>1
            <7>4. CASE file[f][n] \in new
              BY <7>3, <7>4
            <7>5. CASE file[f][n] \notin new
              BY <7>2, <7>3, <7>5
            <7> QED BY <7>4, <7>5
          <6>3. CASE ~(from[f] > 0 /\ file[f][n] <= mark[f].id)
            <7>1. n >= start
              <8>1. CASE from[f] = 0
                <9>1. from'[f] = start
                  BY <2>10, <3>1, <4>2, <8>1
                <9> QED BY <2>3, <5>7, <6>1, <9>1
              <8>2. CASE from[f] # 0
                <9>1. mark[f].id # NoId /\ file[f][n] > mark[f].id
                  BY <2>2, <2>4, <5>3, <6>1, <6>3, <8>2
                <9> QED BY <2>3, <5>2, <6>1, <9>1
              <8> QED BY <8>1, <8>2
            <7>2. file[f][n] \in new
              <8>1. CASE Whole(f, n)
                BY <2>3, <5>1, <5>7, <6>1, <7>1, <8>1
              <8>2. CASE ~Whole(f, n)
                <9>1. n = Len(file[f]) /\ file[f][n] <= mark'[f].id
                  BY <5>7, <8>2 DEF Whole
                <9>2. new # {}
                  <10>1. ASSUME new = {} PROVE FALSE
                    <11>1. mark'[f].id = mark[f].id /\ from'[f] = from[f]
                      BY <2>10, <10>1
                    <11> QED BY <2>2, <2>4, <5>6, <6>3, <9>1, <11>1
                  <10> QED BY <10>1
                <9>3. PICK k \in Within(f) : /\ k >= start /\ file[f][k] = OneHook!Highest(new)
                                             /\ file[f][k] # 0
                  BY <5>4, <9>2
                <9>4. k \in Lines(f) /\ Whole(f, k) /\ mark'[f].id = file[f][k]
                  BY <2>5, <2>10, <9>2, <9>3
                <9>5. k < n
                  BY <2>2, <2>4, <6>1, <8>2, <9>1, <9>4 DEF Lines
                <9>6. file[f][k] <= file[f][n]
                  BY <2>2, <5>7, <6>1, <9>4, <9>5 DEF Written
                <9>7. file[f][k] = file[f][n]
                  <10>1. file[f][k] \in 0 .. MaxIds
                    BY <2>2, <2>4, <9>4
                  <10>2. file[f][k] \in Nat /\ file[f][n] <= file[f][k]
                    BY <9>1, <9>4, <10>1
                  <10> QED BY <6>1, <9>6, <10>2
                <9> QED BY <2>7, <9>2, <9>3, <9>7
              <8> QED BY <8>1, <8>2
            <7> QED BY <2>9, <6>1, <7>2
          <6> QED BY <6>2, <6>3
        <5> QED BY <4>2, <5>5, <5>7
      <4> QED BY <4>1, <4>2
    <3> QED BY <1>1, <2>11, <3>1 DEF Caught, Docs
  <2> QED BY <1>3, <2>13, <2>14, <2>15, <2>16, <2>17
<1> QED BY <1>4, <1>5

\* Every step of claude or of a hook keeps the counts right.
LEMMA ClaudeStays ==
    ASSUME ClaudeInv, NEW H, NEW B, HandlersTrue(H), ClaudeStep(H, B)
    PROVE  /\ ClaudeInv' /\ HandlersTrue(H)'
           /\ Caught /\ Short(TailLines) => Caught'
<1>1. ClaudeTypes /\ Written
  BY DEF ClaudeInv
<1>2. CASE Extended(B)
  <2>1. ClaudeInv' /\ (\A f \in Docs : Units(f) <= Units(f)') /\ (Caught => Caught')
    BY <1>2, ExtendedStep
  <2>2. hook' = hook
    BY <1>2 DEF Extended
  <2> QED BY <1>1, <2>1, <2>2, HandlersWait DEF ClaudeInv
<1>3. ASSUME NEW f \in Docs, OneHook!Complete(f)
      PROVE  ClaudeInv' /\ HandlersTrue(H)' /\ (Caught => Caught')
  <2>1. ClaudeInv' /\ (\A g \in Docs : Units(g) <= Units(g)') /\ (Caught => Caught')
    BY <1>3, CompleteStep
  <2>2. hook' = hook
    BY <1>3 DEF OneHook!Complete
  <2> QED BY <1>1, <2>1, <2>2, HandlersWait DEF ClaudeInv
<1>4. CASE Restarted(H)
  <2>1. ClaudeInv' /\ Caught'
    BY <1>4, RestartedStep
  <2>2. hook' = [h \in H |-> OneHook!Done]
    BY <1>4 DEF Restarted
  <2>3. OneHook!Done \in Handler /\ OneHook!Done.pc = "idle"
    <3>1. <<>> \in Seq(Docs)
      BY EmptySeq
    <3> QED BY <3>1 DEF OneHook!Done, Handler
  <2>4. HandlersTrue(H)'
    BY <2>2, <2>3 DEF HandlersTrue, Handler, Docs
  <2> QED BY <2>1, <2>4
<1>5. CASE UNCHANGED claude
  <2>1. /\ UNCHANGED <<file, torn, ids, mark, from, counted>> /\ hook' = hook
        /\ \A f \in Docs : Units(f) <= Units(f)
    <3>1. \A f \in Docs : Units(f) \in Int
      <4>1. \A f \in Docs : Len(file[f]) \in Nat
        BY <1>1, LineTypes
      <4> QED BY <4>1 DEF Units
    <3> QED BY <1>5, <3>1 DEF claude
  <2>2. ClaudeInv' /\ (Caught => Caught') /\ \A f \in Docs : Units(f) <= Units(f)'
    BY <2>1, ClaudeRests
  <2> QED BY <1>1, <2>1, <2>2, HandlersWait DEF ClaudeInv
<1>6. ASSUME NEW h \in H, OneHook!Hook(h) \/ OneHook!Stat(h)
      PROVE  ClaudeInv' /\ HandlersTrue(H)' /\ (Caught => Caught')
  <2>1. UNCHANGED <<file, torn, ids, mark, from, counted>>
    BY <1>6 DEF OneHook!Hook, OneHook!Stat, OneHook!written
  <2>2. ClaudeInv' /\ (Caught => Caught')
    BY <2>1, ClaudeRests
  <2>3. HandlersTrue(H)'
    BY <1>1, <1>6, HookStep, StatStep
  <2> QED BY <2>2, <2>3
<1>7. ASSUME NEW h \in H, OneHook!Scan(h)
      PROVE  ClaudeInv' /\ HandlersTrue(H)' /\ (Caught /\ Short(TailLines) => Caught')
  BY <1>7, ScanStep
<1> QED BY <1>2, <1>3, <1>4, <1>5, <1>6, <1>7, ExtendedStep DEF ClaudeStep, Extended

\* Transcripts stay within the bound of their instance.
LEMMA ShortStays ==
    ASSUME ClaudeInv, NEW H, NEW B \in Nat, Short(B), ClaudeStep(H, B)
    PROVE  Short(B)'
<1>1. CASE Extended(B)
  <2>1. PICK f \in Docs, l \in 0 .. MaxIds :
          /\ Len(file[f]) \in Nat /\ Len(file[f]) < B
          /\ Len(file'[f]) = Len(file[f]) + 1 /\ \A g \in Docs \ {f} : file'[g] = file[g]
    BY <1>1, ExtendedKeeps DEF ClaudeInv
  <2>2. \A g \in Docs : Len(file'[g]) <= B
    BY <2>1 DEF Short
  <2> QED BY <2>2 DEF Short, Docs
<1>2. CASE file' = file
  BY <1>2 DEF Short, Docs
<1> QED BY <1>1, <1>2 DEF ClaudeStep, Restarted, claude, OneHook!Complete, OneHook!Hook,
           OneHook!Stat, OneHook!Scan, OneHook!written

LEMMA ClaudeStarts ==
    /\ OneHook!Init => ClaudeInv /\ Caught /\ Short(LineLines) /\ HandlersTrue(LineHooks)
    /\ Pair!Init => ClaudeInv /\ Caught /\ Short(PairLines) /\ HandlersTrue(PairHooks)
<1>1. ASSUME NEW H, NEW B \in Nat,
             file = [f \in Docs |-> <<>>], torn = {}, ids = 0,
             mark = [f \in Docs |-> OneHook!NoMark], from = [f \in Docs |-> 0],
             counted = [i \in Responses |-> 0], hook = [h \in H |-> OneHook!Done]
      PROVE  ClaudeInv /\ Caught /\ Short(B) /\ HandlersTrue(H)
  <2>1. /\ \A f \in Docs : /\ file[f] = <<>> /\ from[f] = 0 /\ Len(file[f]) = 0
                           /\ mark[f] = [len |-> 0, id |-> NoId]
        /\ \A i \in Responses : counted[i] = 0
    BY <1>1, EmptySeq DEF OneHook!NoMark, OneHook!None, NoId
  <2>2. \A f \in Docs : Lines(f) = {} /\ Units(f) = 0
    BY <1>1, <2>1 DEF Lines, Units
  <2>3. <<>> \in Seq(0 .. MaxIds) /\ <<>> \in Seq(Docs)
    BY EmptySeq
  <2>4. [len |-> 0, id |-> NoId] \in Marks
    BY ClaudeFits DEF Marks, NoId
  <2>5. ClaudeTypes
    <3>1. mark \in [Docs -> Marks] /\ file \in [Docs -> Seq(0 .. MaxIds)]
      BY <1>1, <2>1, <2>3, <2>4
    <3> QED BY <1>1, <3>1, ClaudeFits DEF ClaudeTypes
  <2>6. Written /\ Marked /\ Uncounted /\ Caught /\ Short(B)
    BY <1>1, <2>1, <2>2 DEF Written, Marked, Uncounted, Caught, Short
  <2>7. HandlersTrue(H)
    <3>1. OneHook!Done \in Handler /\ OneHook!Done.pc = "idle"
      BY <2>3 DEF OneHook!Done, Handler
    <3> QED BY <1>1, <3>1 DEF HandlersTrue
  <2> QED BY <2>5, <2>6, <2>7 DEF ClaudeInv
<1>2. OneHook!Init => ClaudeInv /\ Caught /\ Short(LineLines) /\ HandlersTrue(LineHooks)
  <2> SUFFICES ASSUME OneHook!Init
               PROVE  ClaudeInv /\ Caught /\ Short(LineLines) /\ HandlersTrue(LineHooks)
    OBVIOUS
  <2>1. /\ file = [f \in Docs |-> <<>>] /\ torn = {} /\ ids = 0
        /\ mark = [f \in Docs |-> OneHook!NoMark] /\ from = [f \in Docs |-> 0]
        /\ counted = [i \in Responses |-> 0] /\ hook = [h \in LineHooks |-> OneHook!Done]
    BY DEF OneHook!Init, OneHook!Files, Docs, OneHook!Ids, Responses
  <2> QED BY <1>1, <2>1, ClaudeFits
<1>3. Pair!Init => ClaudeInv /\ Caught /\ Short(PairLines) /\ HandlersTrue(PairHooks)
  <2> SUFFICES ASSUME Pair!Init
               PROVE  ClaudeInv /\ Caught /\ Short(PairLines) /\ HandlersTrue(PairHooks)
    OBVIOUS
  <2>1. /\ file = [f \in Docs |-> <<>>] /\ torn = {} /\ ids = 0
        /\ mark = [f \in Docs |-> OneHook!NoMark] /\ from = [f \in Docs |-> 0]
        /\ counted = [i \in Responses |-> 0] /\ hook = [h \in PairHooks |-> OneHook!Done]
    BY SameReading DEF Pair!Init, Pair!Files, Docs, OneHook!Ids, Responses
  <2> QED BY <1>1, <2>1, ClaudeFits
<1> QED BY <1>2, <1>3

LEMMA ClaudeSays ==
    ASSUME ClaudeInv
    PROVE  OneHook!NeverTwice /\ (Caught => OneHook!NoneMissed)
<1>1. OneHook!NeverTwice
  BY DEF ClaudeInv, Uncounted, OneHook!NeverTwice, OneHook!Ids, Responses
<1>2. \A f \in Docs : OneHook!Length(f) = Units(f)
  BY LengthIs
<1>3. ASSUME Caught PROVE OneHook!NoneMissed
  <2>1. ASSUME NEW f \in Docs, from[f] > 0, mark[f].len = Units(f),
               NEW n \in from[f] .. Len(file[f]), file[f][n] # 0,
               ~(f \in torn /\ n = Len(file[f]))
        PROVE  counted[file[f][n]] > 0
    BY <1>3, <2>1 DEF Caught, Whole
  <2> QED BY <1>2, <2>1 DEF OneHook!NoneMissed, OneHook!Files, Docs, OneHook!PromptLine
<1> QED BY <1>1, <1>3

-----------------------------------------------------------------------------
(* Tokens of codex                                                          *)

RowKinds == Models \cup {Codex!Meta, Codex!Count}
ModelNames == Models \cup {Codex!Unknown}
Cursors == [at : Nat, total : Nat, model : ModelNames, set : BOOLEAN]

CodexTypes ==
    /\ row \in [Docs -> Seq(RowKinds)] /\ cut \in [Docs -> {"whole", "torn", "bare"}]
    /\ since \subseteq Subs /\ cur \in [Docs -> Cursors]
    /\ state \in [partial : BOOLEAN, final : BOOLEAN]
    /\ base \in [Docs -> Nat]
    /\ charged \in [Docs -> [1 .. CodexRows -> Seq(ModelNames)]] /\ finals \in Nat
    /\ \A t \in Docs : /\ Len(row[t]) <= CodexRows
                       /\ cut[t] = "torn" \/ cur[t].set => row[t] # <<>>
                       /\ ~cur[t].set => cur[t] = Codex!NoCursor

\* A cursor c is on a row that was read, and knows the total and the model there; b is the
\* base, s says that the thread began in sight.
PlacedAt(t, c, b, s) ==
    /\ c.at <= Codex!Parsed(t) /\ c.total = Codex!TotalAt(t, c.at)
    /\ b <= Codex!Parsed(t) /\ (c.set => b <= c.at)
    /\ s => b = 0
    /\ Codex!ModelRows(t, b + 1, c.at) # {} =>
         c.model = Codex!ModelAt(t, 1, c.at, Codex!Unknown)

\* What row i was charged to, ms, if it was: once, before the cursor, to the model there; and
\* it was if it counts and lies between the base and the cursor.
ChargedAt(t, c, b, s, i, ms) ==
    /\ Len(ms) <= 1
    /\ ms # <<>> =>
         /\ i <= Codex!Parsed(t) /\ (c.set => i <= c.at)
         /\ s => c.set
         /\ Codex!ModelRows(t, b + 1, i) # {} => ms = <<Codex!ModelAt(t, 1, i, Codex!Unknown)>>
    /\ b < i /\ i <= c.at /\ row[t][i] = Codex!Count => ms # <<>>

Placed(t) == PlacedAt(t, cur[t], base[t], t \in since)
ChargedRight(t) ==
    \A i \in 1 .. CodexRows : ChargedAt(t, cur[t], base[t], t \in since, i, charged[t][i])

\* A turn whose final count was taken is final.
FinalOnce ==
    finals <= 1 /\ (finals > 0 => state.final) /\ (~cur[Main].set => finals = 0)

\* What a step makes of a thread: it leaves its counter alone, sets the cursor on its end,
\* reads it from the cursor to its end, or forgets the cursor.
Stays(t) ==
    /\ cur'[t] = cur[t] /\ base'[t] = base[t] /\ charged'[t] = charged[t]
    /\ t \in since' <=> t \in since
Seeds(t) ==
    /\ ~cur[t].set /\ t \notin since /\ row[t] # <<>>
    /\ \E m \in ModelNames :
         cur'[t] = [at |-> Codex!Parsed(t), total |-> Codex!TotalAt(t, Codex!Parsed(t)),
                    model |-> m, set |-> TRUE]
    /\ base'[t] = Codex!Parsed(t) /\ charged'[t] = charged[t] /\ since' = since
Reads(t) ==
    /\ cur[t].set \/ t \in since
    /\ row[t] # <<>> /\ cur'[t] = Codex!Advanced(t, cur[t]) /\ base'[t] = base[t]
    /\ charged'[t] = [i \in 1 .. CodexRows |->
                         IF i \in DOMAIN Codex!Deltas(t, cur[t])
                         THEN Append(charged[t][i], Codex!Deltas(t, cur[t])[i]) ELSE charged[t][i]]
    /\ since' = since
Forgets(t) ==
    /\ cur'[t] = Codex!NoCursor /\ t \notin since' /\ base'[t] = base[t]
    /\ charged'[t] = charged[t]

CodexInv == CodexTypes /\ FinalOnce /\ \A t \in Docs : Placed(t) /\ ChargedRight(t)

LEMMA CodexFits ==
    /\ Main \notin Subs /\ CodexRows \in Nat
    /\ Codex!Meta \notin Models /\ Codex!Count \notin Models
  BY InstancesFit DEF Codex!ConstantsFit

LEMMA RowTypes ==
    ASSUME CodexTypes, NEW t \in Docs
    PROVE  /\ row[t] \in Seq(RowKinds) /\ Len(row[t]) \in Nat /\ Len(row[t]) <= CodexRows
           /\ \A i \in 1 .. Len(row[t]) : row[t][i] \in RowKinds
           /\ Codex!Parsed(t) \in Nat /\ Codex!Parsed(t) <= Len(row[t])
           /\ row[t] = <<>> <=> Len(row[t]) = 0
           /\ cur[t] \in Cursors /\ cur[t].at \in Nat /\ cur[t].total \in Nat
           /\ cur[t].model \in ModelNames /\ cur[t].set \in BOOLEAN /\ base[t] \in Nat
           /\ charged[t] \in [1 .. CodexRows -> Seq(ModelNames)]
<1>1. /\ row[t] \in Seq(RowKinds) /\ Len(row[t]) <= CodexRows /\ (cut[t] = "torn" => row[t] # <<>>)
      /\ cur[t] \in Cursors /\ base[t] \in Nat
      /\ charged[t] \in [1 .. CodexRows -> Seq(ModelNames)]
  BY DEF CodexTypes
<1>2. Len(row[t]) \in Nat /\ row[t] \in [1 .. Len(row[t]) -> RowKinds]
  BY <1>1, LenProperties
<1>3. row[t] = <<>> <=> Len(row[t]) = 0
  BY <1>1, EmptySeq
<1>4. Codex!Parsed(t) \in Nat /\ Codex!Parsed(t) <= Len(row[t])
  <2>1. CASE cut[t] = "torn"
    <3>1. Codex!Parsed(t) = Len(row[t]) - 1
      BY <2>1 DEF Codex!Parsed
    <3> QED BY <1>1, <1>2, <1>3, <2>1, <3>1
  <2>2. CASE cut[t] # "torn"
    <3>1. Codex!Parsed(t) = Len(row[t]) - 0
      BY <2>2 DEF Codex!Parsed
    <3> QED BY <1>2, <3>1
  <2> QED BY <2>1, <2>2
<1>5. /\ cur[t].at \in Nat /\ cur[t].total \in Nat /\ cur[t].model \in ModelNames
      /\ cur[t].set \in BOOLEAN
  BY <1>1 DEF Cursors
<1> QED BY <1>1, <1>2, <1>3, <1>4, <1>5

\* Totals are numbers, and each count row raises them.
LEMMA Totals ==
    ASSUME NEW t
    PROVE  /\ \A n \in Nat : Codex!TotalAt(t, n) \in Nat
           /\ \A n \in Nat : \A m \in 0 .. n : m < n /\ row[t][n] = Codex!Count =>
                Codex!TotalAt(t, m) < Codex!TotalAt(t, n)
           /\ Codex!TotalAt(t, 0) = 0
<1> DEFINE C(n) == {i \in 1 .. n : row[t][i] = Codex!Count}
<1>0. \A S : Codex!Cardinality(S) = Cardinality(S)
  BY DEF Codex!Cardinality, Cardinality
<1>1. \A n : Codex!TotalAt(t, n) = Cardinality(C(n))
  BY <1>0 DEF Codex!TotalAt
<1>2. ASSUME NEW n \in Nat PROVE IsFiniteSet(C(n)) /\ Cardinality(C(n)) \in Nat
  <2>1. IsFiniteSet(1 .. n)
    BY FS_Interval
  <2>2. IsFiniteSet(C(n))
    BY <2>1, FS_Subset
  <2> QED BY <2>2, FS_CardinalityType
<1>3. ASSUME NEW n \in Nat, NEW m \in 0 .. n, m < n, row[t][n] = Codex!Count
      PROVE  Cardinality(C(m)) < Cardinality(C(n))
  <2>1. C(m) \in SUBSET C(n) /\ n \in C(n) /\ n \notin C(m) /\ m \in Nat
    BY <1>3
  <2>2. IsFiniteSet(C(n)) /\ Cardinality(C(n)) \in Nat /\ Cardinality(C(m)) \in Nat
    BY <1>2, <2>1
  <2> HIDE DEF C
  <2>3. Cardinality(C(m)) <= Cardinality(C(n)) /\ (Cardinality(C(n)) = Cardinality(C(m)) => C(n) = C(m))
    BY <2>1, <2>2, FS_Subset
  <2> QED BY <2>1, <2>2, <2>3
<1>4. Cardinality(C(0)) = 0
  <2>1. C(0) = {}
    OBVIOUS
  <2> QED BY <2>1, FS_EmptySet
<1> QED BY <1>1, <1>2, <1>3, <1>4

\* The model at the end of a range is the one of its last row that names one.
LEMMA LastRow ==
    ASSUME NEW t, NEW lo \in Nat \ {0}, NEW n \in Nat
    PROVE  /\ \A x \in Codex!ModelRows(t, lo, n) : x \in Nat /\ row[t][x] \in Models
           /\ Codex!ModelRows(t, lo, n) = {} => \A o : Codex!ModelAt(t, lo, n, o) = o
           /\ Codex!ModelRows(t, lo, n) # {} =>
                \E x \in Codex!ModelRows(t, lo, n) :
                    /\ \A y \in Codex!ModelRows(t, lo, n) : y <= x
                    /\ \A o : Codex!ModelAt(t, lo, n, o) = row[t][x]
<1> DEFINE S == Codex!ModelRows(t, lo, n)
           last == CHOOSE i \in S : \A j \in S : j <= i
<1>1. S \in SUBSET (0 .. n) /\ \A x \in S : x \in Nat /\ row[t][x] \in Models
  BY DEF Codex!ModelRows
<1>2. \A o : Codex!ModelAt(t, lo, n, o) = IF S = {} THEN o ELSE row[t][last]
  BY DEF Codex!ModelAt
<1> HIDE DEF S
<1>3. S # {} => \E x \in S : \A y \in S : y <= x
  BY <1>1, GreatestNat
<1>4. S # {} => last \in S /\ \A y \in S : y <= last
  BY <1>3
<1> HIDE DEF last
<1> QED BY <1>1, <1>2, <1>4 DEF S

\* A range without a model beyond row m names the models it does up to m.
LEMMA RowsBeyond ==
    ASSUME NEW t, NEW b \in Nat, NEW m \in Nat, NEW n \in Nat, b <= m, m <= n,
           Codex!ModelRows(t, m + 1, n) = {}
    PROVE  Codex!ModelRows(t, b + 1, n) = Codex!ModelRows(t, b + 1, m)
<1> DEFINE M(k) == row[t][k] \in Models
<1>1. \A k \in m + 1 .. n : ~M(k)
  BY DEF Codex!ModelRows
<1> HIDE DEF M
<1>2. ASSUME NEW k
      PROVE  k \in b + 1 .. n /\ M(k) <=> k \in b + 1 .. m /\ M(k)
  <2>1. k \in b + 1 .. n => k \in b + 1 .. m \/ k \in m + 1 .. n
    OBVIOUS
  <2>2. k \in b + 1 .. m => k \in b + 1 .. n
    OBVIOUS
  <2> QED BY <1>1, <2>1, <2>2
<1> QED BY <1>2 DEF Codex!ModelRows, M

\* ... wherever one begins to look.
LEMMA ModelBeyond ==
    ASSUME NEW t, NEW m \in Nat, NEW n \in Nat, m <= n, NEW o
    PROVE  /\ Codex!ModelRows(t, m + 1, n) # {} =>
                Codex!ModelAt(t, m + 1, n, o) = Codex!ModelAt(t, 1, n, Codex!Unknown)
           /\ Codex!ModelRows(t, m + 1, n) = {} =>
                /\ Codex!ModelAt(t, m + 1, n, o) = o
                /\ Codex!ModelAt(t, 1, n, Codex!Unknown) = Codex!ModelAt(t, 1, m, Codex!Unknown)
<1> DEFINE S == Codex!ModelRows(t, m + 1, n)
           W == Codex!ModelRows(t, 1, n)
           V == Codex!ModelRows(t, 1, m)
<1>0. 1 \in Nat \ {0} /\ m + 1 \in Nat \ {0}
  OBVIOUS
<1>1. /\ \A x \in S \cup W \cup V : x \in Nat
      /\ S = {} => Codex!ModelAt(t, m + 1, n, o) = o
      /\ S # {} => \E x \in S : /\ \A y \in S : y <= x
                                /\ Codex!ModelAt(t, m + 1, n, o) = row[t][x]
  BY <1>0, LastRow
<1>2. /\ W = {} => Codex!ModelAt(t, 1, n, Codex!Unknown) = Codex!Unknown
      /\ W # {} => \E x \in W : /\ \A y \in W : y <= x
                                /\ Codex!ModelAt(t, 1, n, Codex!Unknown) = row[t][x]
  BY <1>0, LastRow
<1>3. /\ V = {} => Codex!ModelAt(t, 1, m, Codex!Unknown) = Codex!Unknown
      /\ V # {} => \E x \in V : /\ \A y \in V : y <= x
                                /\ Codex!ModelAt(t, 1, m, Codex!Unknown) = row[t][x]
  BY <1>0, LastRow
<1>4. CASE S # {}
  <2>1. S \subseteq W /\ (\A k \in W : k \in S \/ k <= m) /\ \A k \in S : k > m
    BY DEF Codex!ModelRows
  <2> HIDE DEF S, W, V
  <2>2. PICK x \in S : (\A y \in S : y <= x) /\ Codex!ModelAt(t, m + 1, n, o) = row[t][x]
    BY <1>1, <1>4
  <2>3. PICK z \in W : (\A y \in W : y <= z) /\ Codex!ModelAt(t, 1, n, Codex!Unknown) = row[t][z]
    BY <1>2, <2>1, <2>2
  <2>4. x = z
    <3>1. x \in Nat /\ z \in Nat /\ x > m /\ x <= z
      BY <1>1, <2>1, <2>2, <2>3
    <3>2. z \in S
      BY <2>1, <2>3, <3>1
    <3> QED BY <2>2, <3>1, <3>2
  <2> QED BY <1>4, <2>2, <2>3, <2>4 DEF S
<1>5. CASE S = {}
  <2>1. Codex!ModelRows(t, 0 + 1, n) = Codex!ModelRows(t, 0 + 1, m)
    BY <1>5, RowsBeyond
  <2>2. 0 + 1 = 1
    OBVIOUS
  <2>3. W = V
    BY <2>1, <2>2
  <2> HIDE DEF W, V
  <2>4. Codex!ModelAt(t, 1, n, Codex!Unknown) = Codex!ModelAt(t, 1, m, Codex!Unknown)
    <3>1. CASE W = {}
      BY <1>2, <1>3, <2>3, <3>1
    <3>2. CASE W # {}
      <4>1. PICK x \in W : (\A y \in W : y <= x) /\ Codex!ModelAt(t, 1, n, Codex!Unknown) = row[t][x]
        BY <1>2, <3>2
      <4>2. PICK z \in V : (\A y \in V : y <= z) /\ Codex!ModelAt(t, 1, m, Codex!Unknown) = row[t][z]
        BY <1>3, <2>3, <3>2
      <4>3. x = z
        BY <1>1, <2>3, <4>1, <4>2
      <4> QED BY <4>1, <4>2, <4>3
    <3> QED BY <3>1, <3>2
  <2> QED BY <1>1, <1>5, <2>3, <2>4
<1> QED BY <1>4, <1>5

\* What a reader carries from row m on is the model at every row beyond.
LEMMA ModelCarried ==
    ASSUME NEW t, NEW b \in Nat, NEW m \in Nat, NEW n \in Nat, b <= m, m <= n, NEW o,
           Codex!ModelRows(t, b + 1, m) # {} => o = Codex!ModelAt(t, 1, m, Codex!Unknown),
           Codex!ModelRows(t, b + 1, n) # {}
    PROVE  Codex!ModelAt(t, m + 1, n, o) = Codex!ModelAt(t, 1, n, Codex!Unknown)
<1>1. CASE Codex!ModelRows(t, m + 1, n) # {}
  BY <1>1, ModelBeyond
<1>2. CASE Codex!ModelRows(t, m + 1, n) = {}
  <2>1. Codex!ModelRows(t, b + 1, n) = Codex!ModelRows(t, b + 1, m)
    BY <1>2, RowsBeyond
  <2>2. /\ Codex!ModelAt(t, m + 1, n, o) = o
        /\ Codex!ModelAt(t, 1, n, Codex!Unknown) = Codex!ModelAt(t, 1, m, Codex!Unknown)
    BY <1>2, ModelBeyond
  <2> QED BY <2>1, <2>2
<1> QED BY <1>1, <1>2

LEMMA ModelKinds ==
    ASSUME NEW t, NEW lo \in Nat \ {0}, NEW n \in Nat, NEW o \in ModelNames
    PROVE  Codex!ModelAt(t, lo, n, o) \in ModelNames
<1>1. CASE Codex!ModelRows(t, lo, n) = {}
  <2>1. Codex!ModelAt(t, lo, n, o) = o
    BY <1>1, LastRow
  <2> QED BY <2>1
<1>2. CASE Codex!ModelRows(t, lo, n) # {}
  <2>1. \A x \in Codex!ModelRows(t, lo, n) : row[t][x] \in Models
    BY LastRow
  <2>2. \E x \in Codex!ModelRows(t, lo, n) :
          /\ \A y \in Codex!ModelRows(t, lo, n) : y <= x
          /\ \A p : Codex!ModelAt(t, lo, n, p) = row[t][x]
    BY <1>2, LastRow
  <2>3. PICK x \in Codex!ModelRows(t, lo, n) : Codex!ModelAt(t, lo, n, o) = row[t][x]
    BY <2>2
  <2> QED BY <2>1, <2>3 DEF ModelNames
<1> QED BY <1>1, <1>2

\* The rollouts stay: what is known of a thread afterwards is said of its rows now.
LEMMA Frozen ==
    ASSUME UNCHANGED <<row, cut>>, NEW t
    PROVE  /\ PlacedAt(t, cur'[t], base'[t], t \in since') => Placed(t)'
           /\ (\A i \in 1 .. CodexRows :
                 ChargedAt(t, cur'[t], base'[t], t \in since', i, charged'[t][i])) => ChargedRight(t)'
<1>1. PlacedAt(t, cur'[t], base'[t], t \in since') => Placed(t)'
  BY DEF Placed, PlacedAt, Codex!Parsed, Codex!TotalAt, Codex!ModelRows, Codex!ModelAt
<1>2. ASSUME NEW i \in 1 .. CodexRows,
             ChargedAt(t, cur'[t], base'[t], t \in since', i, charged'[t][i])
      PROVE  ChargedAt(t, cur[t], base[t], t \in since, i, charged[t][i])'
  <2> DEFINE ms == charged'[t][i]
  <2>1. Len(ms) <= 1
    BY <1>2 DEF ChargedAt
  <2>2. ms # <<>> =>
          /\ i <= Codex!Parsed(t) /\ (cur'[t].set => i <= cur'[t].at)
          /\ t \in since' => cur'[t].set
    BY <1>2 DEF ChargedAt
  <2>3. ms # <<>> /\ Codex!ModelRows(t, base'[t] + 1, i) # {} =>
          ms = <<Codex!ModelAt(t, 1, i, Codex!Unknown)>>
    BY <1>2 DEF ChargedAt
  <2>4. base'[t] < i /\ i <= cur'[t].at /\ row[t][i] = Codex!Count => ms # <<>>
    BY <1>2 DEF ChargedAt
  <2>5. Codex!Parsed(t)' = Codex!Parsed(t)
    BY DEF Codex!Parsed
  <2>6. (Codex!ModelRows(t, base[t] + 1, i) # {})' => Codex!ModelRows(t, base'[t] + 1, i) # {}
    BY DEF Codex!ModelRows
  <2>7. Codex!ModelAt(t, 1, i, Codex!Unknown)' = Codex!ModelAt(t, 1, i, Codex!Unknown)
    BY DEF Codex!ModelAt, Codex!ModelRows
  <2>8. row' = row
    OBVIOUS
  <2> QED BY <2>1, <2>2, <2>3, <2>4, <2>5, <2>6, <2>7, <2>8 DEF ChargedAt
<1> QED BY <1>1, <1>2 DEF ChargedRight

-----------------------------------------------------------------------------
\* Each of these leaves the charges of the thread right.
LEMMA ThreadStays ==
    ASSUME CodexInv, NEW t \in Docs, UNCHANGED <<row, cut>>, Stays(t)
    PROVE  Placed(t)' /\ ChargedRight(t)'
<1>1. PlacedAt(t, cur'[t], base'[t], t \in since')
  BY DEF CodexInv, Placed, Stays
<1>2. \A i \in 1 .. CodexRows :
        ChargedAt(t, cur'[t], base'[t], t \in since', i, charged'[t][i])
  BY DEF CodexInv, ChargedRight, Stays
<1> QED BY <1>1, <1>2, Frozen

LEMMA ThreadSeeded ==
    ASSUME CodexInv, NEW t \in Docs, UNCHANGED <<row, cut>>, Seeds(t)
    PROVE  Placed(t)' /\ ChargedRight(t)'
<1> DEFINE p == Codex!Parsed(t)
<1>1. PICK m \in ModelNames :
        cur'[t] = [at |-> p, total |-> Codex!TotalAt(t, p), model |-> m, set |-> TRUE]
  BY DEF Seeds
<1>2. /\ cur'[t].at = p /\ cur'[t].total = Codex!TotalAt(t, p) /\ cur'[t].set
      /\ base'[t] = p /\ charged'[t] = charged[t] /\ t \notin since'
  BY <1>1 DEF Seeds
<1>3. p \in Nat
  BY RowTypes DEF CodexInv
<1> HIDE DEF p
<1>4. \A i : i <= p /\ i \in Nat => Codex!ModelRows(t, p + 1, i) = {}
  BY <1>3 DEF Codex!ModelRows
<1>5. PlacedAt(t, cur'[t], base'[t], t \in since')
  <2>1. Codex!ModelRows(t, p + 1, p) = {}
    BY <1>3, <1>4
  <2> QED BY <1>2, <1>3, <2>1 DEF PlacedAt, p
<1>6. ASSUME NEW i \in 1 .. CodexRows
      PROVE  ChargedAt(t, cur'[t], base'[t], t \in since', i, charged'[t][i])
  <2>1. Len(charged[t][i]) <= 1 /\ (charged[t][i] # <<>> => i <= p)
    BY DEF CodexInv, ChargedRight, ChargedAt, p
  <2>2. i \in Nat
    OBVIOUS
  <2>3. charged[t][i] # <<>> => Codex!ModelRows(t, p + 1, i) = {}
    BY <1>4, <2>1, <2>2
  <2>4. ~(p < i /\ i <= p)
    BY <1>3, <2>2
  <2> QED BY <1>2, <2>1, <2>3, <2>4 DEF ChargedAt, p
<1> QED BY <1>5, <1>6, Frozen

LEMMA ThreadForgets ==
    ASSUME CodexInv, NEW t \in Docs, UNCHANGED <<row, cut>>, Forgets(t)
    PROVE  Placed(t)' /\ ChargedRight(t)'
<1>1. /\ cur'[t].at = 0 /\ cur'[t].total = 0 /\ ~cur'[t].set
      /\ base'[t] = base[t] /\ charged'[t] = charged[t] /\ t \notin since'
  BY DEF Forgets, Codex!NoCursor
<1>2. Codex!Parsed(t) \in Nat /\ base[t] \in Nat
  BY RowTypes DEF CodexInv
<1>3. Codex!ModelRows(t, base[t] + 1, 0) = {}
  BY <1>2 DEF Codex!ModelRows
<1>4. PlacedAt(t, cur'[t], base'[t], t \in since')
  <2>1. base[t] <= Codex!Parsed(t)
    BY DEF CodexInv, Placed, PlacedAt
  <2>2. Codex!TotalAt(t, 0) = 0
    BY Totals
  <2> QED BY <1>1, <1>2, <1>3, <2>1, <2>2 DEF PlacedAt
<1>5. ASSUME NEW i \in 1 .. CodexRows
      PROVE  ChargedAt(t, cur'[t], base'[t], t \in since', i, charged'[t][i])
  <2>1. ~(i <= 0)
    OBVIOUS
  <2>2. ChargedAt(t, cur[t], base[t], t \in since, i, charged[t][i])
    BY DEF CodexInv, ChargedRight
  <2> QED BY <1>1, <2>1, <2>2 DEF ChargedAt
<1> QED BY <1>4, <1>5, Frozen

\* A count charges the rows from the cursor on, none of which was charged.
LEMMA ThreadRead ==
    ASSUME CodexInv, NEW t \in Docs, UNCHANGED <<row, cut>>, Reads(t)
    PROVE  /\ Placed(t)' /\ ChargedRight(t)' /\ cur'[t] \in Cursors
           /\ charged'[t] \in [1 .. CodexRows -> Seq(ModelNames)]
<1> DEFINE p == Codex!Parsed(t)
           c == cur[t]
           d == Codex!Deltas(t, c)
<1>1. /\ p \in Nat /\ c.at \in Nat /\ c.total \in Nat /\ base[t] \in Nat /\ c.model \in ModelNames
      /\ charged[t] \in [1 .. CodexRows -> Seq(ModelNames)] /\ p <= CodexRows /\ CodexRows \in Nat
  BY RowTypes, CodexFits DEF CodexInv
<1>0. PICK m \in Nat, total \in Nat, b \in Nat, o \in ModelNames :
        m = c.at /\ total = c.total /\ b = base[t] /\ o = c.model
  BY <1>1
<1>2. /\ m <= p /\ total = Codex!TotalAt(t, m) /\ b <= p /\ (c.set => b <= m)
      /\ t \in since => b = 0
      /\ Codex!ModelRows(t, b + 1, m) # {} => o = Codex!ModelAt(t, 1, m, Codex!Unknown)
  BY <1>0 DEF CodexInv, Placed, PlacedAt
<1>3. b <= m
  BY <1>1, <1>2 DEF Reads
<1>4. /\ cur'[t] = [at |-> p, total |-> Codex!TotalAt(t, p),
                    model |-> Codex!ModelAt(t, m + 1, p, o), set |-> TRUE]
      /\ base'[t] = b /\ since' = since
      /\ charged'[t] = [i \in 1 .. CodexRows |-> IF i \in DOMAIN d THEN Append(charged[t][i], d[i])
                                                ELSE charged[t][i]]
  BY <1>0 DEF Reads, Codex!Advanced
<1>5. /\ DOMAIN d = {j \in m + 1 .. p : row[t][j] = Codex!Count /\ Codex!TotalAt(t, j) > total}
      /\ \A i \in DOMAIN d : d[i] = Codex!ModelAt(t, m + 1, i, o)
  BY <1>0 DEF Codex!Deltas
<1> HIDE DEF p, c, d
\* The model at any row from the cursor on is found from the cursor's.
<1>6. ASSUME NEW i \in Nat, m <= i, Codex!ModelRows(t, b + 1, i) # {}
      PROVE  Codex!ModelAt(t, m + 1, i, o) = Codex!ModelAt(t, 1, i, Codex!Unknown)
  BY <1>2, <1>3, <1>6, ModelCarried
<1>7. \A i \in m + 1 .. p : row[t][i] = Codex!Count => i \in DOMAIN d
  <2>1. ASSUME NEW i \in m + 1 .. p, row[t][i] = Codex!Count
        PROVE  Codex!TotalAt(t, i) > total
    <3>1. i \in Nat /\ m \in 0 .. i /\ m < i
      BY <1>1
    <3>2. Codex!TotalAt(t, m) < Codex!TotalAt(t, i)
      BY <2>1, <3>1, Totals
    <3>3. Codex!TotalAt(t, i) \in Nat
      BY <3>1, Totals
    <3> QED BY <1>1, <1>2, <3>2, <3>3
  <2> QED BY <1>5, <2>1
<1>8. PlacedAt(t, cur'[t], base'[t], t \in since')
  <2>1. Codex!ModelRows(t, b + 1, p) # {} =>
          Codex!ModelAt(t, m + 1, p, o) = Codex!ModelAt(t, 1, p, Codex!Unknown)
    BY <1>1, <1>2, <1>6
  <2>2. /\ cur'[t].at = p /\ cur'[t].total = Codex!TotalAt(t, p)
        /\ cur'[t].model = Codex!ModelAt(t, m + 1, p, o)
    BY <1>4
  <2> QED BY <1>1, <1>2, <1>4, <2>1, <2>2 DEF PlacedAt, p
<1>9. ASSUME NEW i \in 1 .. CodexRows
      PROVE  /\ ChargedAt(t, cur'[t], base'[t], t \in since', i, charged'[t][i])
             /\ charged'[t][i] \in Seq(ModelNames)
  <2>1. cur'[t].at = p /\ cur'[t].set /\ base'[t] = b /\ i \in Nat
    BY <1>4
  <2>2. /\ Len(charged[t][i]) <= 1 /\ charged[t][i] \in Seq(ModelNames)
        /\ charged[t][i] # <<>> =>
             /\ i <= p /\ (c.set => i <= m) /\ (t \in since => c.set)
             /\ Codex!ModelRows(t, b + 1, i) # {} =>
                  charged[t][i] = <<Codex!ModelAt(t, 1, i, Codex!Unknown)>>
        /\ b < i /\ i <= m /\ row[t][i] = Codex!Count => charged[t][i] # <<>>
    BY <1>1, <1>0 DEF CodexInv, ChargedRight, ChargedAt, c, p
  <2>3. CASE i \in DOMAIN d
    <3>1. m + 1 <= i /\ i <= p
      BY <1>1, <1>5, <2>3
    <3>2. charged[t][i] = <<>>
      <4>1. c.set \/ t \in since
        BY DEF Reads, c
      <4>2. ~(i <= m)
        BY <1>1, <2>1, <3>1
      <4> QED BY <2>2, <4>1, <4>2
    <3>3. charged'[t][i] = Append(charged[t][i], d[i])
      BY <1>4, <2>3
    <3>4. charged'[t][i] = <<d[i]>>
      BY <3>2, <3>3
    <3>5. d[i] = Codex!ModelAt(t, m + 1, i, o) /\ d[i] \in ModelNames
      <4>1. d[i] = Codex!ModelAt(t, m + 1, i, o)
        BY <1>5, <2>3
      <4>2. m + 1 \in Nat \ {0}
        BY <1>1
      <4> QED BY <1>1, <2>1, <4>1, <4>2, ModelKinds
    <3>6. Codex!ModelRows(t, b + 1, i) # {} => d[i] = Codex!ModelAt(t, 1, i, Codex!Unknown)
      <4>1. m <= i
        BY <1>1, <2>1, <3>1
      <4> QED BY <1>6, <2>1, <3>5, <4>1
    <3>7. Len(charged'[t][i]) = 1 /\ charged'[t][i] # <<>> /\ charged'[t][i] \in Seq(ModelNames)
      BY <3>4, <3>5
    <3> QED BY <2>1, <3>1, <3>4, <3>6, <3>7 DEF ChargedAt, p
  <2>4. CASE i \notin DOMAIN d
    <3>1. charged'[t][i] = charged[t][i]
      BY <1>4, <2>4
    <3>2. b < i /\ i <= p /\ row[t][i] = Codex!Count => charged[t][i] # <<>>
      <4>1. i <= p /\ row[t][i] = Codex!Count => ~(m + 1 <= i)
        BY <1>1, <1>7, <2>1, <2>4
      <4> QED BY <1>1, <2>1, <2>2, <4>1
    <3>3. charged[t][i] # <<>> => i <= p
      BY <2>2
    <3> QED BY <2>1, <2>2, <3>1, <3>2, <3>3 DEF ChargedAt, p
  <2> QED BY <2>3, <2>4
<1>10. cur'[t] \in Cursors
  <2>1. Codex!TotalAt(t, p) \in Nat
    BY <1>1, Totals
  <2>2. m + 1 \in Nat \ {0}
    BY <1>1
  <2>3. Codex!ModelAt(t, m + 1, p, o) \in ModelNames
    BY <1>1, <2>2, ModelKinds
  <2> QED BY <1>1, <1>4, <2>1, <2>3 DEF Cursors
<1>11. charged'[t] \in [1 .. CodexRows -> Seq(ModelNames)]
  <2>1. \A i \in 1 .. CodexRows : charged'[t][i] \in Seq(ModelNames)
    BY <1>9
  <2> QED BY <1>4, <2>1
<1>12. Placed(t)' /\ ChargedRight(t)'
  BY <1>8, <1>9, Frozen
<1> QED BY <1>10, <1>11, <1>12

-----------------------------------------------------------------------------
\* The rows up to p are the rows of before: so is what is read from them.
LEMMA SameBelow ==
    ASSUME NEW t, NEW p \in Nat, \A i \in 1 .. p : row'[t][i] = row[t][i],
           NEW lo \in Nat \ {0}, NEW n \in 0 .. p
    PROVE  /\ Codex!ModelRows(t, lo, n)' = Codex!ModelRows(t, lo, n)
           /\ Codex!TotalAt(t, n)' = Codex!TotalAt(t, n)
           /\ Codex!ModelAt(t, lo, n, Codex!Unknown)' = Codex!ModelAt(t, lo, n, Codex!Unknown)
<1> DEFINE S == Codex!ModelRows(t, lo, n)
           last == CHOOSE i \in S : \A j \in S : j <= i
<1>1. Codex!ModelRows(t, lo, n)' = S
  BY DEF Codex!ModelRows
<1>2. Codex!TotalAt(t, n)' = Codex!TotalAt(t, n)
  <2>1. {i \in 1 .. n : row'[t][i] = Codex!Count} = {i \in 1 .. n : row[t][i] = Codex!Count}
    OBVIOUS
  <2> QED BY <2>1 DEF Codex!TotalAt
<1>3. S \in SUBSET (1 .. p)
  BY DEF Codex!ModelRows
<1>4. /\ Codex!ModelAt(t, lo, n, Codex!Unknown) = IF S = {} THEN Codex!Unknown ELSE row[t][last]
      /\ Codex!ModelAt(t, lo, n, Codex!Unknown)' = IF S = {} THEN Codex!Unknown ELSE row'[t][last]
  BY <1>1 DEF Codex!ModelAt
<1> HIDE DEF S
<1>5. S # {} => last \in S
  <2>1. S \in SUBSET (0 .. p)
    BY <1>3
  <2>2. S # {} => \E x \in S : \A y \in S : y <= x
    BY <2>1, GreatestNat
  <2> QED BY <2>2
<1> HIDE DEF last
<1>6. S # {} => row'[t][last] = row[t][last]
  BY <1>3, <1>5
<1> QED BY <1>1, <1>2, <1>4, <1>6 DEF S

\* A thread grows, or its last row is completed.
LEMMA ThreadGrown ==
    ASSUME CodexInv, NEW t \in Docs, UNCHANGED <<cur, base, charged>>,
           \A i \in 1 .. Codex!Parsed(t) : row'[t][i] = row[t][i],
           Codex!Parsed(t)' \in Nat, Codex!Parsed(t) <= Codex!Parsed(t)',
           t \in since' => t \in since \/ row[t] = <<>>
    PROVE  Placed(t)' /\ ChargedRight(t)'
<1> DEFINE p == Codex!Parsed(t)
<1>1. /\ p \in Nat /\ Len(row[t]) \in Nat /\ p <= Len(row[t]) /\ (row[t] = <<>> => Len(row[t]) = 0)
      /\ cur[t].at \in Nat /\ base[t] \in Nat
  BY RowTypes DEF CodexInv
<1>2. PICK at \in Nat, b \in Nat : at = cur[t].at /\ b = base[t]
  BY <1>1
<1>3. PlacedAt(t, cur[t], base[t], t \in since)
  BY DEF CodexInv, Placed
<1>4. at <= p /\ b <= p
  BY <1>2, <1>3 DEF PlacedAt
<1>5. t \in since' => b = 0
  BY <1>1, <1>2, <1>3, <1>4 DEF PlacedAt
<1>6. \A n \in 0 .. p :
        /\ Codex!ModelRows(t, b + 1, n)' = Codex!ModelRows(t, b + 1, n)
        /\ Codex!TotalAt(t, n)' = Codex!TotalAt(t, n)
        /\ Codex!ModelAt(t, 1, n, Codex!Unknown)' = Codex!ModelAt(t, 1, n, Codex!Unknown)
  <2>1. 1 \in Nat \ {0} /\ b + 1 \in Nat \ {0}
    OBVIOUS
  <2>2. \A i \in 1 .. p : row'[t][i] = row[t][i]
    OBVIOUS
  <2> QED BY <1>1, <2>1, <2>2, SameBelow
<1>7. p <= Codex!Parsed(t)' /\ \A i \in 1 .. p : row'[t][i] = row[t][i]
  OBVIOUS
<1> HIDE DEF p
<1>8. Placed(t)'
  <2>1. at \in 0 .. p
    BY <1>1, <1>4
  <2>2. /\ Codex!ModelRows(t, b + 1, at)' = Codex!ModelRows(t, b + 1, at)
        /\ Codex!TotalAt(t, at)' = Codex!TotalAt(t, at)
        /\ Codex!ModelAt(t, 1, at, Codex!Unknown)' = Codex!ModelAt(t, 1, at, Codex!Unknown)
    BY <1>6, <2>1
  <2>3. /\ cur[t].total = Codex!TotalAt(t, at) /\ (cur[t].set => b <= at)
        /\ Codex!ModelRows(t, b + 1, at) # {} =>
             cur[t].model = Codex!ModelAt(t, 1, at, Codex!Unknown)
    BY <1>2, <1>3 DEF PlacedAt
  <2>4. at <= Codex!Parsed(t)' /\ b <= Codex!Parsed(t)'
    BY <1>1, <1>4, <1>7
  <2>5. cur'[t] = cur[t] /\ cur'[t].at = at /\ base'[t] = b
    BY <1>2
  <2> QED BY <1>5, <2>2, <2>3, <2>4, <2>5 DEF Placed, PlacedAt
<1>9. ASSUME NEW i \in 1 .. CodexRows
      PROVE  ChargedAt(t, cur[t], base[t], t \in since, i, charged[t][i])'
  <2> DEFINE ms == charged[t][i]
  <2>1. ChargedAt(t, cur[t], b, t \in since, i, ms)
    BY <1>2 DEF CodexInv, ChargedRight
  <2>2. /\ Len(ms) <= 1 /\ (ms # <<>> => i <= p /\ (cur[t].set => i <= at) /\ (t \in since => cur[t].set))
        /\ ms # <<>> /\ Codex!ModelRows(t, b + 1, i) # {} =>
             ms = <<Codex!ModelAt(t, 1, i, Codex!Unknown)>>
        /\ b < i /\ i <= at /\ row[t][i] = Codex!Count => ms # <<>>
    BY <1>2, <2>1 DEF ChargedAt, p
  <2>3. ms # <<>> => i \in 0 .. p /\ i <= Codex!Parsed(t)'
    BY <1>1, <1>7, <2>2
  <2>4. ms # <<>> => /\ Codex!ModelRows(t, b + 1, i)' = Codex!ModelRows(t, b + 1, i)
                     /\ Codex!ModelAt(t, 1, i, Codex!Unknown)' = Codex!ModelAt(t, 1, i, Codex!Unknown)
    BY <1>6, <2>3
  <2>5. i <= at => row'[t][i] = row[t][i]
    BY <1>1, <1>4, <1>7
  <2>6. ms # <<>> => row[t] # <<>>
    BY <1>1, <2>3
  <2>7. cur'[t] = cur[t] /\ cur'[t].at = at /\ base'[t] = b /\ charged'[t][i] = ms
    BY <1>2
  <2>8. ms # <<>> /\ t \in since' => cur[t].set
    BY <2>2, <2>6
  <2> HIDE DEF ms
  <2> QED BY <2>2, <2>3, <2>4, <2>5, <2>7, <2>8 DEF ChargedAt
<1> QED BY <1>8, <1>9 DEF ChargedRight

\* A step leaves the rollouts alone and makes one of these of every thread.
CodexStep ==
    /\ UNCHANGED <<row, cut>> /\ since' \subseteq Subs
    /\ cur' = [t \in Docs |-> cur'[t]] /\ base' = [t \in Docs |-> base'[t]]
    /\ charged' = [t \in Docs |-> charged'[t]]
    /\ \A t \in Docs : Stays(t) \/ Seeds(t) \/ Reads(t) \/ Forgets(t)

\* So a step that makes these of the threads keeps the books of codex.
LEMMA CodexMoves ==
    ASSUME CodexInv, CodexStep, FinalOnce', finals' \in Nat,
           state' \in [partial : BOOLEAN, final : BOOLEAN]
    PROVE  CodexInv'
<1>1. /\ UNCHANGED <<row, cut>> /\ since' \subseteq Subs
      /\ cur' = [t \in Docs |-> cur'[t]] /\ base' = [t \in Docs |-> base'[t]]
      /\ charged' = [t \in Docs |-> charged'[t]]
      /\ \A t \in Docs : Stays(t) \/ Seeds(t) \/ Reads(t) \/ Forgets(t)
  BY DEF CodexStep
<1>2. ASSUME NEW t \in Docs
      PROVE  /\ Placed(t)' /\ ChargedRight(t)'
             /\ cur'[t] \in Cursors /\ base'[t] \in Nat
             /\ charged'[t] \in [1 .. CodexRows -> Seq(ModelNames)]
             /\ cur'[t].set => row[t] # <<>>
             /\ ~cur'[t].set => cur'[t] = Codex!NoCursor
  <2>1. /\ cur[t] \in Cursors /\ base[t] \in Nat
        /\ charged[t] \in [1 .. CodexRows -> Seq(ModelNames)] /\ Codex!Parsed(t) \in Nat
    BY RowTypes DEF CodexInv
  <2>2. (cur[t].set => row[t] # <<>>) /\ (~cur[t].set => cur[t] = Codex!NoCursor)
    BY DEF CodexInv, CodexTypes
  <2>3. CASE Stays(t)
    BY <1>1, <2>1, <2>2, <2>3, ThreadStays DEF Stays
  <2>4. CASE Seeds(t)
    <3>1. Placed(t)' /\ ChargedRight(t)'
      BY <1>1, <2>4, ThreadSeeded
    <3>2. PICK m \in ModelNames :
            cur'[t] = [at |-> Codex!Parsed(t), total |-> Codex!TotalAt(t, Codex!Parsed(t)),
                       model |-> m, set |-> TRUE]
      BY <2>4 DEF Seeds
    <3>3. Codex!TotalAt(t, Codex!Parsed(t)) \in Nat
      BY <2>1, Totals
    <3>4. cur'[t] \in Cursors /\ cur'[t].set
      BY <2>1, <3>2, <3>3 DEF Cursors
    <3> QED BY <2>1, <2>4, <3>1, <3>4 DEF Seeds
  <2>5. CASE Reads(t)
    <3>1. /\ Placed(t)' /\ ChargedRight(t)' /\ cur'[t] \in Cursors
          /\ charged'[t] \in [1 .. CodexRows -> Seq(ModelNames)]
      BY <1>1, <2>5, ThreadRead
    <3>2. base'[t] = base[t] /\ row[t] # <<>> /\ cur'[t].set
      BY <2>5 DEF Reads, Codex!Advanced
    <3> QED BY <2>1, <3>1, <3>2
  <2>6. CASE Forgets(t)
    <3>1. Placed(t)' /\ ChargedRight(t)'
      BY <1>1, <2>6, ThreadForgets
    <3>2. Codex!NoCursor \in Cursors /\ ~Codex!NoCursor.set
      BY DEF Codex!NoCursor, Cursors, ModelNames
    <3> QED BY <2>1, <2>6, <3>1, <3>2 DEF Forgets
  <2> QED BY <1>1, <2>3, <2>4, <2>5, <2>6
<1>3. CodexTypes'
  <2>1. /\ row' \in [Docs -> Seq(RowKinds)] /\ cut' \in [Docs -> {"whole", "torn", "bare"}]
        /\ since' \subseteq Subs /\ \A t \in Docs : Len(row'[t]) <= CodexRows
        /\ \A t \in Docs : cut'[t] = "torn" => row'[t] # <<>>
    BY <1>1 DEF CodexInv, CodexTypes
  <2>2. /\ cur' \in [Docs -> Cursors] /\ base' \in [Docs -> Nat]
        /\ charged' \in [Docs -> [1 .. CodexRows -> Seq(ModelNames)]]
    BY <1>1, <1>2
  <2> QED BY <1>1, <1>2, <2>1, <2>2 DEF CodexTypes
<1> QED BY <1>2, <1>3 DEF CodexInv

\* A snapshot is of the end of a thread with rows, under a model of its or the one given.
LEMMA Snapshots ==
    ASSUME CodexInv, NEW t \in Docs, NEW o \in ModelNames, Codex!Snapshot(t, o) # {}
    PROVE  /\ row[t] # <<>>
           /\ \E m \in ModelNames :
                (CHOOSE c \in Codex!Snapshot(t, o) : TRUE) =
                    [at |-> Codex!Parsed(t), total |-> Codex!TotalAt(t, Codex!Parsed(t)),
                     model |-> m, set |-> TRUE]
<1> DEFINE lo == IF Len(row[t]) > TailRows THEN Len(row[t]) - TailRows + 1 ELSE 1
           m == Codex!ModelAt(t, lo, Codex!Parsed(t), o)
<1>1. /\ row[t] # <<>>
      /\ Codex!Snapshot(t, o) =
           {[at |-> Codex!Parsed(t), total |-> Codex!TotalAt(t, Codex!Parsed(t)), model |-> m,
             set |-> TRUE]}
  BY DEF Codex!Snapshot
<1>2. Len(row[t]) \in Nat /\ Codex!Parsed(t) \in Nat /\ TailRows \in Nat
  BY RowTypes, InstancesFit DEF CodexInv, Codex!ConstantsFit
<1>3. lo \in Nat \ {0}
  BY <1>2
<1> HIDE DEF lo
<1>4. m \in ModelNames
  BY <1>2, <1>3, ModelKinds
<1> HIDE DEF m
<1> QED BY <1>1, <1>4

LEMMA HeadModels ==
    ASSUME CodexInv, NEW t \in Docs
    PROVE  Codex!HeadModel(t) \in ModelNames
<1> DEFINE S == Codex!ModelRows(t, 1, Codex!Parsed(t))
           first == CHOOSE i \in S : \A j \in S : i <= j
<1>1. Codex!HeadModel(t) = IF S = {} THEN Codex!Unknown ELSE row[t][first]
  BY DEF Codex!HeadModel
<1>2. S \in SUBSET Nat /\ \A i \in S : row[t][i] \in Models
  BY DEF Codex!ModelRows
<1> HIDE DEF S
<1>3. S # {} => first \in S
  <2>1. S # {} => \E x \in S : \A y \in S : x <= y
    BY <1>2, LeastNat
  <2> QED BY <2>1
<1> QED BY <1>1, <1>2, <1>3 DEF ModelNames

\* The main thread's cursor is set, or stays as it was.
LEMMA SeedSteps ==
    ASSUME CodexInv, UNCHANGED <<row, cut>>, ~cur[Main].set, Codex!Seed
    PROVE  CodexStep /\ since' = since
<1> DEFINE at == Codex!Snapshot(Main, Codex!HeadModel(Main))
<1>1. /\ cur \in [Docs -> Cursors] /\ base \in [Docs -> Nat] /\ since \subseteq Subs
      /\ charged \in [Docs -> [1 .. CodexRows -> Seq(ModelNames)]] /\ Main \in Docs /\ Main \notin Subs
  BY CodexFits DEF CodexInv, CodexTypes, Docs
<1>2. CASE at = {}
  <2>1. UNCHANGED <<cur, base, charged, since>>
    BY <1>2 DEF Codex!Seed
  <2> QED BY <1>1, <2>1 DEF CodexStep, Stays
<1>3. CASE at # {}
  <2>1. /\ cur' = [cur EXCEPT ![Main] = CHOOSE c \in at : TRUE]
        /\ base' = [base EXCEPT ![Main] = Codex!Parsed(Main)] /\ UNCHANGED <<charged, since>>
    BY <1>3 DEF Codex!Seed
  <2>2. /\ row[Main] # <<>>
        /\ \E m \in ModelNames :
             (CHOOSE c \in at : TRUE) =
                 [at |-> Codex!Parsed(Main), total |-> Codex!TotalAt(Main, Codex!Parsed(Main)),
                  model |-> m, set |-> TRUE]
    BY <1>1, <1>3, HeadModels, Snapshots
  <2> HIDE DEF at
  <2>3. cur'[Main] = (CHOOSE c \in at : TRUE) /\ base'[Main] = Codex!Parsed(Main)
    BY <1>1, <2>1
  <2>4. Seeds(Main)
    BY <1>1, <2>1, <2>2, <2>3 DEF Seeds
  <2>5. \A t \in Docs \ {Main} : Stays(t)
    BY <1>1, <2>1 DEF Stays
  <2>6. /\ cur' = [t \in Docs |-> cur'[t]] /\ base' = [t \in Docs |-> base'[t]]
        /\ charged' = [t \in Docs |-> charged'[t]]
    <3>1. \A a, b : cur' = [cur EXCEPT ![a] = b] => cur' = [t \in Docs |-> cur'[t]]
      BY <1>1
    <3>2. \A a, b : base' = [base EXCEPT ![a] = b] => base' = [t \in Docs |-> base'[t]]
      BY <1>1
    <3>3. charged = [t \in Docs |-> charged[t]]
      BY <1>1
    <3> QED BY <2>1, <3>1, <3>2, <3>3
  <2> QED BY <1>1, <2>1, <2>4, <2>5, <2>6 DEF CodexStep
<1> QED BY <1>2, <1>3

\* A count reads a thread from its cursor, sets the cursor on its end, or leaves it alone.
LEMMA ChargeSteps ==
    ASSUME CodexInv, UNCHANGED <<row, cut>>, cur[Main].set, Codex!Charge
    PROVE  CodexStep /\ cur'[Main].set
<1> DEFINE reads == {t \in Codex!Threads : /\ Codex!Named(t) /\ (t = Main \/ Codex!Descends(t))
                                           /\ Codex!Read(t)}
           seeds == {t \in Subs : /\ Codex!Descends(t) /\ ~Codex!Read(t)
                                  /\ Codex!Snapshot(t, Codex!Unknown) # {}}
           of == IF Codex!Named(Main) THEN reads ELSE reads \cap {Main}
           seed(t) == CHOOSE c \in Codex!Snapshot(t, Codex!Unknown) : TRUE
<1>0. Codex!Threads = Docs
  BY DEF Codex!Threads, Docs
<1>1. /\ cur' = [t \in Docs |-> IF t \in of THEN Codex!Advanced(t, cur[t])
                                ELSE IF t \in seeds THEN seed(t) ELSE cur[t]]
      /\ base' = [t \in Docs |-> IF t \in seeds THEN Codex!Parsed(t) ELSE base[t]]
      /\ charged' = [t \in Docs |-> [i \in 1 .. CodexRows |->
                        IF t \in of /\ i \in DOMAIN Codex!Deltas(t, cur[t])
                        THEN Append(charged[t][i], Codex!Deltas(t, cur[t])[i]) ELSE charged[t][i]]]
      /\ since' = since
  BY <1>0 DEF Codex!Charge
<1>2. \A t \in of : /\ Codex!Parsed(t) > 0 /\ t \notin seeds
                    /\ cur[t].set \/ t \in since
  BY DEF Codex!Named, Codex!Read
<1>3. \A t \in seeds : /\ ~cur[t].set /\ t \notin since
                       /\ Codex!Snapshot(t, Codex!Unknown) # {}
  BY DEF Codex!Read
<1> HIDE DEF of, seeds
<1>4. ASSUME NEW t \in Docs
      PROVE  /\ Stays(t) \/ Seeds(t) \/ Reads(t)
             /\ cur[t].set => cur'[t].set
  <2>1. /\ row[t] = <<>> => Len(row[t]) = 0
        /\ Codex!Parsed(t) \in Nat /\ Len(row[t]) \in Nat /\ Codex!Parsed(t) <= Len(row[t])
        /\ charged[t] \in [1 .. CodexRows -> Seq(ModelNames)]
    BY RowTypes DEF CodexInv
  <2>2. CASE t \in of
    <3>1. row[t] # <<>>
      BY <1>2, <2>1, <2>2
    <3>2. /\ cur'[t] = Codex!Advanced(t, cur[t]) /\ base'[t] = base[t]
          /\ charged'[t] = [i \in 1 .. CodexRows |->
                              IF i \in DOMAIN Codex!Deltas(t, cur[t])
                              THEN Append(charged[t][i], Codex!Deltas(t, cur[t])[i])
                              ELSE charged[t][i]]
      BY <1>1, <1>2, <2>2
    <3>3. Reads(t)
      BY <1>1, <1>2, <2>2, <3>1, <3>2 DEF Reads
    <3>4. cur'[t].set
      BY <3>2 DEF Codex!Advanced
    <3> QED BY <3>3, <3>4
  <2>3. CASE t \notin of
    <3>1. charged'[t] = charged[t]
      <4>1. charged'[t] = [i \in 1 .. CodexRows |-> charged[t][i]]
        BY <1>1, <2>3
      <4> QED BY <2>1, <4>1
    <3>2. CASE t \in seeds
      <4>1. cur'[t] = seed(t) /\ base'[t] = Codex!Parsed(t)
        BY <1>1, <2>3, <3>2
      <4>2. Codex!Unknown \in ModelNames
        BY DEF ModelNames
      <4>3. /\ row[t] # <<>>
            /\ \E m \in ModelNames :
                 seed(t) = [at |-> Codex!Parsed(t), total |-> Codex!TotalAt(t, Codex!Parsed(t)),
                            model |-> m, set |-> TRUE]
        BY <1>3, <3>2, <4>2, Snapshots
      <4> HIDE DEF seed
      <4>4. Seeds(t)
        BY <1>1, <1>3, <3>1, <3>2, <4>1, <4>3 DEF Seeds
      <4> QED BY <1>3, <3>2, <4>4
    <3>3. CASE t \notin seeds
      BY <1>1, <2>3, <3>1, <3>3 DEF Stays
    <3> QED BY <3>2, <3>3
  <2> QED BY <2>2, <2>3
<1>5. /\ cur' = [t \in Docs |-> cur'[t]] /\ base' = [t \in Docs |-> base'[t]]
      /\ charged' = [t \in Docs |-> charged'[t]]
  BY <1>1
<1>6. since' \subseteq Subs
  BY <1>1 DEF CodexInv, CodexTypes
<1>7. Main \in Docs
  BY DEF Docs
<1> QED BY <1>4, <1>5, <1>6, <1>7 DEF CodexStep

-----------------------------------------------------------------------------
\* Every thread keeps its counter: only the throttle or the turn's state moves.
LEMMA AllStay ==
    ASSUME CodexInv, UNCHANGED <<row, cut, since, cur, base, charged>>
    PROVE  CodexStep
<1>1. /\ cur \in [Docs -> Cursors] /\ base \in [Docs -> Nat] /\ since \subseteq Subs
      /\ charged \in [Docs -> [1 .. CodexRows -> Seq(ModelNames)]]
  BY DEF CodexInv, CodexTypes
<1>2. cur = [t \in Docs |-> cur[t]] /\ base = [t \in Docs |-> base[t]]
  BY <1>1
<1>3. charged = [t \in Docs |-> charged[t]]
  BY <1>1
<1> QED BY <1>1, <1>2, <1>3 DEF CodexStep, Stays

\* The rollouts grow beyond what was read.
LEMMA WriteStep ==
    ASSUME CodexInv, NEW t \in Docs, Codex!Write(t)
    PROVE  CodexInv'
<1>1. PICK r \in RowKinds : Codex!AddRow(t, r)
  BY DEF Codex!Write, RowKinds
<1>2. /\ cut[t] = "whole" /\ Len(row[t]) < CodexRows
      /\ row' = [row EXCEPT ![t] = Append(row[t], r)]
      /\ \E how \in {"whole", "torn", "bare"} : cut' = [cut EXCEPT ![t] = how]
  BY <1>1 DEF Codex!AddRow
<1>3. /\ UNCHANGED <<cur, state, base, charged, finals>>
      /\ since' \subseteq since \cup {t} /\ (t \in since' => t \in since \/ (row[t] = <<>> /\ cur[Main].set))
  BY DEF Codex!Write
<1>4. /\ row \in [Docs -> Seq(RowKinds)] /\ cut \in [Docs -> {"whole", "torn", "bare"}]
      /\ since \subseteq Subs
      /\ \A g \in Docs : /\ Len(row[g]) <= CodexRows
                         /\ cut[g] = "torn" \/ cur[g].set => row[g] # <<>>
                         /\ ~cur[g].set => cur[g] = Codex!NoCursor
  BY DEF CodexInv, CodexTypes
<1>5. Len(row[t]) \in Nat /\ CodexRows \in Nat /\ row[t] \in Seq(RowKinds)
  BY RowTypes, CodexFits DEF CodexInv
<1>6. /\ row'[t] = Append(row[t], r) /\ \A g \in Docs \ {t} : row'[g] = row[g] /\ cut'[g] = cut[g]
      /\ cut' \in [Docs -> {"whole", "torn", "bare"}]
  BY <1>2, <1>4
<1>7. /\ row'[t] \in Seq(RowKinds) /\ Len(row'[t]) = Len(row[t]) + 1 /\ row'[t] # <<>>
      /\ \A i \in 1 .. Len(row[t]) : row'[t][i] = row[t][i]
  BY <1>5, <1>6, AppendProperties
<1>8. CodexTypes'
  <2>1. row' \in [Docs -> Seq(RowKinds)]
    <3>1. \A g \in Docs : row'[g] \in Seq(RowKinds)
      BY <1>4, <1>6, <1>7
    <3> QED BY <1>2, <1>4, <3>1
  <2>2. since' \subseteq Subs
    <3>1. Main \in Docs /\ Subs = Docs \ {Main}
      BY CodexFits DEF Docs
    <3> QED BY <1>3, <1>4, <3>1
  <2>3. \A g \in Docs : /\ Len(row'[g]) <= CodexRows
                        /\ cut'[g] = "torn" \/ cur'[g].set => row'[g] # <<>>
                        /\ ~cur'[g].set => cur'[g] = Codex!NoCursor
    BY <1>2, <1>3, <1>4, <1>5, <1>6, <1>7
  <2> QED BY <1>3, <1>6, <2>1, <2>2, <2>3 DEF CodexInv, CodexTypes
<1>9. ASSUME NEW g \in Docs PROVE Placed(g)' /\ ChargedRight(g)'
  <2>1. Codex!Parsed(g) \in Nat /\ Codex!Parsed(g) <= Len(row[g])
    BY RowTypes DEF CodexInv
  <2>2. CASE g = t
    <3>1. Codex!Parsed(t) = Len(row[t])
      BY <1>2, <1>5 DEF Codex!Parsed
    <3>2. Codex!Parsed(t)' \in Nat /\ Codex!Parsed(t) <= Codex!Parsed(t)'
      <4>1. Codex!Parsed(t)' = Len(row[t]) + 1 - (IF cut'[t] = "torn" THEN 1 ELSE 0)
        BY <1>7 DEF Codex!Parsed
      <4>2. CASE cut'[t] = "torn"
        BY <1>5, <3>1, <4>1, <4>2
      <4>3. CASE cut'[t] # "torn"
        BY <1>5, <3>1, <4>1, <4>3
      <4> QED BY <4>2, <4>3
    <3>3. \A i \in 1 .. Codex!Parsed(t) : row'[t][i] = row[t][i]
      BY <1>7, <3>1
    <3> QED BY <1>3, <2>2, <3>2, <3>3, ThreadGrown
  <2>3. CASE g # t
    <3>1. /\ \A i \in 1 .. Codex!Parsed(g) : row'[g][i] = row[g][i]
          /\ Codex!Parsed(g)' = Codex!Parsed(g) /\ (g \in since' => g \in since)
      BY <1>3, <1>6, <2>3 DEF Codex!Parsed
    <3> QED BY <1>3, <2>1, <3>1, ThreadGrown
  <2> QED BY <2>2, <2>3
<1>10. FinalOnce'
  BY <1>3 DEF CodexInv, FinalOnce
<1> QED BY <1>8, <1>9, <1>10 DEF CodexInv

LEMMA CompletedStep ==
    ASSUME CodexInv, NEW t \in Docs, Codex!Complete(t)
    PROVE  CodexInv'
<1>1. /\ cut' = [cut EXCEPT ![t] = "whole"]
      /\ UNCHANGED <<row, since, cur, state, base, charged, finals>>
  BY DEF Codex!Complete
<1>2. CodexTypes'
  BY <1>1 DEF CodexInv, CodexTypes
<1>3. ASSUME NEW g \in Docs PROVE Placed(g)' /\ ChargedRight(g)'
  <2>1. Codex!Parsed(g) \in Nat /\ Codex!Parsed(g) <= Len(row[g]) /\ Len(row[g]) \in Nat
    BY RowTypes DEF CodexInv
  <2>2. cut'[g] = cut[g] \/ cut'[g] = "whole"
    BY <1>1 DEF CodexInv, CodexTypes
  <2>3. Codex!Parsed(g)' = Codex!Parsed(g) \/ Codex!Parsed(g)' = Len(row[g])
    <3>1. CASE cut'[g] = cut[g]
      BY <1>1, <3>1 DEF Codex!Parsed
    <3>2. CASE cut'[g] = "whole"
      <4>1. Codex!Parsed(g)' = Len(row[g]) - 0
        BY <1>1, <3>2 DEF Codex!Parsed
      <4> QED BY <2>1, <4>1
    <3> QED BY <2>2, <3>1, <3>2
  <2> QED BY <1>1, <2>1, <2>3, ThreadGrown
<1>4. FinalOnce'
  BY <1>1 DEF CodexInv, FinalOnce
<1> QED BY <1>2, <1>3, <1>4 DEF CodexInv

\* Every step of codex or of a hook keeps the books.
LEMMA CodexStays == CodexInv /\ [Codex!Next]_codex => CodexInv'
<1> SUFFICES ASSUME CodexInv, [Codex!Next]_codex PROVE CodexInv'
  OBVIOUS
<1>0. /\ state \in [partial : BOOLEAN, final : BOOLEAN] /\ finals \in Nat /\ FinalOnce
      /\ cur \in [Docs -> Cursors] /\ base \in [Docs -> Nat] /\ since \subseteq Subs
      /\ charged \in [Docs -> [1 .. CodexRows -> Seq(ModelNames)]] /\ Main \in Docs
  BY DEF CodexInv, CodexTypes, Docs
<1>1. state.partial \in BOOLEAN /\ state.final \in BOOLEAN /\ Codex!Fresh = [partial |-> FALSE, final |-> FALSE]
  BY <1>0 DEF Codex!Fresh
<1>2. CASE Codex!Prompt
  <2>1. UNCHANGED <<row, cut>>
    BY <1>2 DEF Codex!Prompt, Codex!rollouts
  <2>2. CodexStep
    <3>1. CASE cur[Main].set
      BY <1>2, <2>1, <3>1, AllStay DEF Codex!Prompt
    <3>2. CASE ~cur[Main].set
      BY <1>2, <2>1, <3>2, SeedSteps DEF Codex!Prompt
    <3> QED BY <3>1, <3>2
  <2>3. /\ (state' = Codex!Fresh /\ finals' = 0) \/ (UNCHANGED <<state, finals>>)
        /\ cur[Main].set => cur' = cur
    BY <1>2 DEF Codex!Prompt
  <2>4. FinalOnce' /\ finals' \in Nat /\ state' \in [partial : BOOLEAN, final : BOOLEAN]
    <3>1. CASE state' = Codex!Fresh /\ finals' = 0
      BY <1>1, <3>1 DEF FinalOnce
    <3>2. CASE UNCHANGED <<state, finals>>
      <4>1. ~cur'[Main].set => finals = 0
        BY <1>0, <2>3 DEF FinalOnce
      <4> QED BY <1>0, <3>2, <4>1 DEF FinalOnce
    <3> QED BY <2>3, <3>1, <3>2
  <2> QED BY <2>2, <2>4, CodexMoves
<1>3. CASE Codex!Tool
  <2>1. UNCHANGED <<row, cut>> /\ finals' = finals
    BY <1>3 DEF Codex!Tool, Codex!rollouts
  <2>2. CASE ~cur[Main].set
    <3>1. CodexStep
      BY <1>3, <2>1, <2>2, SeedSteps DEF Codex!Tool
    <3>2. state' = [state EXCEPT !.final = FALSE] /\ finals = 0
      BY <1>0, <1>3, <2>2 DEF Codex!Tool, FinalOnce
    <3>3. FinalOnce' /\ finals' \in Nat /\ state' \in [partial : BOOLEAN, final : BOOLEAN]
      <4>1. finals' = 0 /\ ~(0 > 0) /\ 0 <= 1 /\ 0 \in Nat
        BY <2>1, <3>2
      <4>2. state' \in [partial : BOOLEAN, final : BOOLEAN]
        BY <1>0, <3>2, Zenon
      <4> QED BY <4>1, <4>2, Zenon DEF FinalOnce
    <3> QED BY <3>1, <3>3, CodexMoves
  <2>3. CASE cur[Main].set
    <3>1. CodexStep /\ cur'[Main].set
      BY <1>3, <2>1, <2>3, ChargeSteps DEF Codex!Tool
    <3>2. state' = [state EXCEPT !.partial = @ \/ charged' # charged]
      BY <1>3, <2>3 DEF Codex!Tool
    <3>3. state' \in [partial : BOOLEAN, final : BOOLEAN] /\ state'.final = state.final
      BY <1>0, <3>2, Zenon
    <3>4. FinalOnce'
      BY <1>0, <2>1, <3>1, <3>3 DEF FinalOnce
    <3> QED BY <1>0, <2>1, <3>1, <3>3, <3>4, CodexMoves
  <2> QED BY <2>2, <2>3
<1>4. CASE Codex!Due
  <2>1. UNCHANGED <<row, cut, since, cur, state, base, charged, finals>>
    BY <1>4 DEF Codex!Due, Codex!rollouts
  <2>2. FinalOnce'
    BY <1>0, <2>1 DEF FinalOnce
  <2> QED BY <1>0, <2>1, <2>2, AllStay, CodexMoves
<1>5. CASE Codex!Stop
  <2>1. UNCHANGED <<row, cut>> /\ state' = [state EXCEPT !.final = TRUE]
    BY <1>5 DEF Codex!Stop, Codex!rollouts
  <2>2. state' \in [partial : BOOLEAN, final : BOOLEAN] /\ state'.final
    BY <1>0, <2>1
  <2>3. CASE ~cur[Main].set
    <3>1. CodexStep /\ finals' = finals /\ finals = 0
      BY <1>0, <1>5, <2>1, <2>3, SeedSteps DEF Codex!Stop, FinalOnce
    <3>2. FinalOnce'
      BY <2>2, <3>1 DEF FinalOnce
    <3> QED BY <1>0, <2>2, <3>1, <3>2, CodexMoves
  <2>4. CASE cur[Main].set /\ state.final
    <3>1. UNCHANGED <<since, cur, base, charged, finals>>
      BY <1>5, <2>4 DEF Codex!Stop
    <3>2. FinalOnce'
      BY <1>0, <2>2, <3>1 DEF FinalOnce
    <3> QED BY <1>0, <2>1, <2>2, <3>1, <3>2, AllStay, CodexMoves
  <2>5. CASE cur[Main].set /\ ~state.final
    <3>1. CodexStep /\ cur'[Main].set
      BY <1>5, <2>1, <2>5, ChargeSteps DEF Codex!Stop
    <3>2. finals' \in {finals, finals + 1} /\ finals = 0
      BY <1>0, <1>5, <2>5 DEF Codex!Stop, FinalOnce
    <3>3. FinalOnce' /\ finals' \in Nat
      BY <2>2, <3>1, <3>2 DEF FinalOnce
    <3> QED BY <2>2, <3>1, <3>3, CodexMoves
  <2> QED BY <1>1, <2>3, <2>4, <2>5
<1>6. CASE Codex!Restart
  <2>1. /\ since' = {} /\ cur' = [t \in Docs |-> Codex!NoCursor] /\ state' = Codex!Fresh
        /\ finals' = 0 /\ UNCHANGED <<row, cut, base, charged>>
    BY <1>6 DEF Codex!Restart, Codex!rollouts, Codex!Threads, Docs
  <2>2. \A t \in Docs : Forgets(t)
    BY <2>1 DEF Forgets
  <2>3. base = [t \in Docs |-> base[t]] /\ charged = [t \in Docs |-> charged[t]]
    <3>1. base = [t \in Docs |-> base[t]]
      BY <1>0
    <3>2. charged = [t \in Docs |-> charged[t]]
      BY <1>0
    <3> QED BY <3>1, <3>2
  <2>4. CodexStep
    BY <2>1, <2>2, <2>3 DEF CodexStep
  <2>5. FinalOnce' /\ finals' \in Nat /\ state' \in [partial : BOOLEAN, final : BOOLEAN]
    BY <1>1, <2>1 DEF FinalOnce
  <2> QED BY <2>4, <2>5, CodexMoves
<1>7. CASE UNCHANGED codex
  <2>1. UNCHANGED <<row, cut, since, cur, state, base, charged, finals>>
    BY <1>7 DEF codex
  <2>2. FinalOnce'
    BY <1>0, <2>1 DEF FinalOnce
  <2> QED BY <1>0, <2>1, <2>2, AllStay, CodexMoves
<1>8. ASSUME NEW t \in Docs, Codex!Write(t) \/ Codex!Complete(t) PROVE CodexInv'
  BY <1>8, WriteStep, CompletedStep
<1> QED BY <1>2, <1>3, <1>4, <1>5, <1>6, <1>7, <1>8 DEF Codex!Next, Codex!Threads, Docs

LEMMA CodexStarts == Codex!Init => CodexInv
<1> SUFFICES ASSUME Codex!Init PROVE CodexInv
  OBVIOUS
<1>1. /\ row = [t \in Docs |-> <<>>] /\ cut = [t \in Docs |-> "whole"] /\ since = {}
      /\ cur = [t \in Docs |-> Codex!NoCursor] /\ state = [partial |-> FALSE, final |-> FALSE]
      /\ base = [t \in Docs |-> 0] /\ finals = 0
      /\ charged = [t \in Docs |-> [i \in 1 .. CodexRows |-> <<>>]]
  BY DEF Codex!Init, Codex!Threads, Docs, Codex!Fresh
<1>2. /\ Codex!NoCursor \in Cursors /\ Codex!NoCursor.at = 0 /\ Codex!NoCursor.total = 0
      /\ ~Codex!NoCursor.set
  BY DEF Codex!NoCursor, Cursors, ModelNames
<1>3. <<>> \in Seq(RowKinds) /\ <<>> \in Seq(ModelNames) /\ Len(<<>>) = 0
  BY EmptySeq
<1>4. CodexTypes
  <2>1. charged \in [Docs -> [1 .. CodexRows -> Seq(ModelNames)]]
    BY <1>1, <1>3
  <2>2. row \in [Docs -> Seq(RowKinds)] /\ cur \in [Docs -> Cursors]
    BY <1>1, <1>2, <1>3
  <2>3. \A t \in Docs : /\ Len(row[t]) <= CodexRows /\ cut[t] = "whole" /\ ~cur[t].set
                        /\ cur[t] = Codex!NoCursor
    BY <1>1, <1>2, <1>3, CodexFits
  <2>4. cut \in [Docs -> {"whole", "torn", "bare"}] /\ base \in [Docs -> Nat]
    BY <1>1
  <2> QED BY <1>1, <2>1, <2>2, <2>3, <2>4 DEF CodexTypes
<1>5. ASSUME NEW t \in Docs PROVE Placed(t) /\ ChargedRight(t)
  <2>1. /\ cur[t].at = 0 /\ cur[t].total = 0 /\ ~cur[t].set /\ base[t] = 0 /\ t \notin since
        /\ Codex!Parsed(t) = 0
    BY <1>1, <1>2, <1>3 DEF Codex!Parsed
  <2>2. Codex!ModelRows(t, 0 + 1, 0) = {} /\ Codex!TotalAt(t, 0) = 0
    BY Totals DEF Codex!ModelRows
  <2>3. Placed(t)
    BY <2>1, <2>2 DEF Placed, PlacedAt
  <2>4. \A i \in 1 .. CodexRows : charged[t][i] = <<>> /\ ~(i <= 0)
    BY <1>1
  <2>5. ChargedRight(t)
    BY <1>3, <2>1, <2>4 DEF ChargedRight, ChargedAt
  <2> QED BY <2>3, <2>5
<1> QED BY <1>1, <1>4, <1>5 DEF CodexInv, FinalOnce

\* Books that are kept say what CodexUsage promises.
LEMMA CodexSays ==
    ASSUME CodexInv
    PROVE  Codex!ChargedOnce /\ Codex!OneFinal /\ Codex!RightModel /\ Codex!PassedIsCharged
<1>1. Codex!Threads = Docs
  BY DEF Codex!Threads, Docs
<1>2. ASSUME NEW t \in Docs, NEW i \in 1 .. Len(row[t])
      PROVE  /\ Len(charged[t][i]) <= 1
             /\ \A n \in 1 .. Len(charged[t][i]) :
                  Codex!ModelRows(t, base[t] + 1, i) # {} =>
                    charged[t][i][n] = Codex!ModelAt(t, 1, i, Codex!Unknown)
  <2>1. i \in 1 .. CodexRows
    BY RowTypes, CodexFits DEF CodexInv
  <2>2. charged[t][i] \in Seq(ModelNames)
    BY <2>1, RowTypes DEF CodexInv
  <2>3. /\ Len(charged[t][i]) <= 1
        /\ charged[t][i] # <<>> /\ Codex!ModelRows(t, base[t] + 1, i) # {} =>
             charged[t][i] = <<Codex!ModelAt(t, 1, i, Codex!Unknown)>>
    BY <2>1 DEF CodexInv, ChargedRight, ChargedAt
  <2>4. ASSUME NEW n \in 1 .. Len(charged[t][i]), Codex!ModelRows(t, base[t] + 1, i) # {}
        PROVE  charged[t][i][n] = Codex!ModelAt(t, 1, i, Codex!Unknown)
    <3>1. Len(charged[t][i]) \in Nat /\ Len(charged[t][i]) >= 1 /\ charged[t][i] # <<>>
      BY <2>2, <2>4, EmptySeq, LenProperties
    <3>2. n = 1
      BY <2>3, <2>4, <3>1
    <3> QED BY <2>3, <2>4, <3>1, <3>2
  <2> QED BY <2>3, <2>4
<1>3. Codex!ChargedOnce
  BY <1>1, <1>2 DEF Codex!ChargedOnce
<1>4. Codex!RightModel
  BY <1>1, <1>2 DEF Codex!RightModel
<1>5. Codex!PassedIsCharged
  <2>1. ASSUME NEW t \in Docs, NEW i \in base[t] + 1 .. cur[t].at, cur[t].set,
               row[t][i] = Codex!Count
        PROVE  charged[t][i] # <<>>
    <3>1. /\ base[t] \in Nat /\ cur[t].at \in Nat /\ Codex!Parsed(t) \in Nat /\ Len(row[t]) \in Nat
          /\ Codex!Parsed(t) <= Len(row[t]) /\ Len(row[t]) <= CodexRows /\ CodexRows \in Nat
      BY RowTypes, CodexFits DEF CodexInv
    <3>2. cur[t].at <= Codex!Parsed(t)
      BY DEF CodexInv, Placed, PlacedAt
    <3>3. i \in 1 .. CodexRows /\ base[t] < i /\ i <= cur[t].at
      BY <3>1, <3>2
    <3> QED BY <2>1, <3>3 DEF CodexInv, ChargedRight, ChargedAt
  <2> QED BY <1>1, <2>1 DEF Codex!PassedIsCharged
<1>6. Codex!OneFinal
  BY DEF CodexInv, FinalOnce, Codex!OneFinal
<1> QED BY <1>3, <1>4, <1>5, <1>6

-----------------------------------------------------------------------------
(* All counters                                                             *)

TheHooks == IF part = "pair" THEN PairHooks ELSE LineHooks
TheLines == IF part = "pair" THEN PairLines ELSE LineLines

\* The counters keep their books, each as its instance has it.
Books ==
    /\ restarts \in Nat
    /\ IF part = "moves" THEN MovedInv ELSE KeptInv
    /\ ClaudeInv /\ HandlersTrue(TheHooks) /\ Short(TheLines)
    /\ CodexInv

\* Transcripts within the bound of their instance, and that within the tail.
LEMMA Bounds ==
    /\ PairLines \in Nat /\ LineLines \in Nat /\ TheLines \in Nat
    /\ \A B \in Nat : Short(B) /\ B <= TailLines /\ ClaudeInv => Short(TailLines)
<1>1. PairLines \in Nat /\ LineLines \in Nat /\ TailLines \in Nat
  BY InstancesFit DEF Pair!ConstantsFit, OneHook!ConstantsFit
<1>2. ASSUME NEW B \in Nat, Short(B), B <= TailLines, ClaudeInv
      PROVE  Short(TailLines)
  <2>1. \A f \in Docs : Len(file[f]) \in Nat
    BY LineTypes DEF ClaudeInv
  <2> QED BY <1>1, <1>2, <2>1 DEF Short
<1> QED BY <1>1, <1>2 DEF TheLines

LEMMA BooksOpen == MCInit => Books /\ Caught
<1> SUFFICES ASSUME MCInit PROVE Books /\ Caught
  OBVIOUS
<1>1. ClaudeInv /\ Caught /\ HandlersTrue(TheHooks) /\ Short(TheLines)
  <2>1. CASE part = "pair"
    BY <2>1, ClaudeStarts DEF MCInit, TheHooks, TheLines
  <2>2. CASE part # "pair"
    BY <2>2, ClaudeStarts DEF MCInit, TheHooks, TheLines
  <2> QED BY <2>1, <2>2
<1>2. IF part = "moves" THEN MovedInv ELSE KeptInv
  BY KeptStarts, MovedStarts DEF MCInit
<1>3. CodexInv
  BY CodexStarts DEF MCInit
<1>4. restarts = 0
  BY DEF MCInit, Codex!Init
<1> QED BY <1>1, <1>2, <1>3, <1>4 DEF Books

LEMMA RestartsCounted == restarts \in Nat /\ [MCNext]_allVars => restarts' \in Nat
<1> SUFFICES ASSUME restarts \in Nat, [MCNext]_allVars PROVE restarts' \in {restarts, restarts + 1}
  OBVIOUS
<1>1. CASE Codex!Next
  BY <1>1 DEF Codex!Next, Codex!Write, Codex!Complete, Codex!Prompt, Codex!Tool, Codex!Due,
     Codex!Stop, Codex!Restart
<1>2. CASE Pair!Next
  <2>1. CASE Pair!Restart
    BY <2>1 DEF Pair!Restart
  <2>2. ASSUME NEW h, Pair!Hook(h) \/ Pair!Stat(h) \/ Pair!Scan(h)
        PROVE  restarts' = restarts
    <3>1. CASE Pair!Hook(h)
      BY <3>1 DEF Pair!Hook
    <3>2. CASE Pair!Stat(h)
      BY <3>2 DEF Pair!Stat
    <3>3. CASE Pair!Scan(h)
      BY <3>3 DEF Pair!Scan
    <3> QED BY <2>2, <3>1, <3>2, <3>3
  <2>3. ASSUME NEW f, \/ Pair!WriteReply(f) \/ Pair!WriteBlock(f)
                     \/ Pair!Complete(f) \/ Pair!WritePrompt
        PROVE  restarts' = restarts
    BY <2>3 DEF Pair!WriteReply, Pair!WriteBlock, Pair!Complete, Pair!WritePrompt
  <2> QED BY <1>2, <2>1, <2>2, <2>3 DEF Pair!Next, Pair!Writes
<1>3. CASE OneHook!Next
  <2>1. CASE OneHook!Restart
    BY <2>1 DEF OneHook!Restart
  <2>2. ASSUME NEW h, OneHook!Hook(h) \/ OneHook!Stat(h) \/ OneHook!Scan(h)
        PROVE  restarts' = restarts
    <3>1. CASE OneHook!Hook(h)
      BY <3>1 DEF OneHook!Hook
    <3>2. CASE OneHook!Stat(h)
      BY <3>2 DEF OneHook!Stat
    <3>3. CASE OneHook!Scan(h)
      BY <3>3 DEF OneHook!Scan
    <3> QED BY <2>2, <3>1, <3>2, <3>3
  <2>3. ASSUME NEW f, \/ OneHook!WriteReply(f) \/ OneHook!WriteBlock(f)
                     \/ OneHook!Complete(f) \/ OneHook!WritePrompt
        PROVE  restarts' = restarts
    BY <2>3 DEF OneHook!WriteReply, OneHook!WriteBlock, OneHook!Complete, OneHook!WritePrompt
  <2> QED BY <1>3, <2>1, <2>2, <2>3 DEF OneHook!Next, OneHook!Writes
<1>4. CASE Keeps!Next
  BY <1>4 DEF Keeps!Next, Keeps!Prompt, Keeps!Respond, Keeps!Stop, Keeps!Switch, Keeps!Restart
<1>5. CASE Moves!Next
  BY <1>5 DEF Moves!Next, Moves!Prompt, Moves!Respond, Moves!Stop, Moves!Switch, Moves!Restart
<1>6. CASE restarts' = restarts
  BY <1>6
<1> QED BY <1>1, <1>2, <1>3, <1>4, <1>5, <1>6 DEF MCNext, allVars

\* Every step keeps the books of every counter.
LEMMA BooksKept ==
    ASSUME Books, [MCNext]_allVars
    PROVE  Books' /\ (TheLines <= TailLines /\ Caught => Caught')
<1>1. /\ part' = part /\ [Codex!Next]_codex
      /\ part = "pair" => [Pair!Next]_claude
      /\ part # "pair" => [OneHook!Next]_claude
      /\ part = "moves" => [Moves!Next]_agy
      /\ part # "moves" => [Keeps!Next]_agy
  BY CounterSteps
<1>2. ClaudeStep(TheHooks, TheLines)
  <2>1. CASE part = "pair"
    BY <1>1, <2>1, PairSteps DEF Books, ClaudeInv, TheHooks, TheLines
  <2>2. CASE part # "pair"
    BY <1>1, <2>2, LineSteps DEF Books, ClaudeInv, TheHooks, TheLines
  <2> QED BY <2>1, <2>2
<1>3. /\ ClaudeInv' /\ HandlersTrue(TheHooks)' /\ Short(TheLines)'
      /\ Caught /\ Short(TailLines) => Caught'
  <2>1. TheHooks' = TheHooks /\ TheLines' = TheLines
    BY <1>1 DEF TheHooks, TheLines
  <2>2. PICK H : H = TheHooks
    OBVIOUS
  <2>7. PICK B \in Nat : B = TheLines
    BY Bounds
  <2>3. ClaudeInv /\ HandlersTrue(H) /\ Short(B) /\ ClaudeStep(H, B)
    BY <1>2, <2>2, <2>7 DEF Books
  <2>4. /\ ClaudeInv' /\ HandlersTrue(H)'
        /\ Caught /\ Short(TailLines) => Caught'
    BY <2>3, ClaudeStays
  <2>5. Short(B)'
    BY <2>3, ShortStays
  <2>6. HandlersTrue(TheHooks)' /\ Short(TheLines)'
    BY <2>1, <2>2, <2>7, <2>4, <2>5 DEF HandlersTrue, Short
  <2> QED BY <2>4, <2>6
<1>4. TheLines <= TailLines => Short(TailLines)
  BY Bounds DEF Books
<1>5. (IF part = "moves" THEN MovedInv ELSE KeptInv)'
  <2>1. CASE part = "moves"
    BY <1>1, <2>1, MovedStep DEF Books
  <2>2. CASE part # "moves"
    BY <1>1, <2>2, KeptStep DEF Books
  <2> QED BY <2>1, <2>2
<1>6. CodexInv' /\ restarts' \in Nat
  BY <1>1, CodexStays, RestartsCounted DEF Books
<1> QED BY <1>3, <1>4, <1>5, <1>6 DEF Books

LEMMA AgySays ==
    /\ MovedInv => Moves!OncePerRun
    /\ KeptInv => Keeps!OncePerRun /\ Keeps!CountedExactly
<1>1. MovedInv => Moves!OncePerRun
  BY DEF MovedInv, Moves!OncePerRun
<1>2. ASSUME KeptInv PROVE Keeps!OncePerRun /\ Keeps!CountedExactly
  <2>1. ASSUME NEW i \in Keeps!Rows
        PROVE  answers[Conv][i] \in Nat /\ before[Conv][i] \in Nat
    BY <1>2, <2>1 DEF KeptInv
  <2>2. ASSUME NEW i \in Keeps!Rows PROVE answers[Conv][i] <= 1
    <3>1. Times(i) = 0 \/ Times(i) = 1
      BY <1>2, <2>2 DEF KeptInv
    <3> QED BY <2>1, <2>2, <3>1 DEF Times
  <2>3. Keeps!OncePerRun
    BY <2>2 DEF Keeps!OncePerRun
  <2>4. Keeps!CountedExactly
    BY <1>2 DEF KeptInv, Times, Keeps!CountedExactly
  <2> QED BY <2>3, <2>4
<1> QED BY <1>1, <1>2

\* No CLI's response is counted twice while the app runs, and no codex row ever or to
\* another model than that of its place (CountedOnce): however many hooks overlap, come
\* late or twice, and however often the app restarts.
THEOREM TokensOnce == MCSpec => []CountedOnce
<1>1. MCInit => Books
  BY BooksOpen
<1>2. Books /\ [MCNext]_allVars => Books'
  BY BooksKept
<1>3. Books => CountedOnce
  BY ClaudeSays, CodexSays, AgySays DEF Books, CountedOnce
<1> QED BY <1>1, <1>2, <1>3, PTL DEF MCSpec

\* What the counters have passed was counted (NoneMissed), torn or not when it was read, as
\* long as the transcripts of claude are no longer than the tail it is counted from.
THEOREM NoTokensMissed ==
    PairLines <= TailLines /\ LineLines <= TailLines => (MCSpec => []NoneMissed)
<1> SUFFICES ASSUME PairLines <= TailLines, LineLines <= TailLines
             PROVE  MCSpec => []NoneMissed
  OBVIOUS
<1>1. MCInit => Books /\ Caught
  BY BooksOpen
<1>2. Books /\ Caught /\ [MCNext]_allVars => (Books /\ Caught)'
  <2>1. TheLines <= TailLines
    BY DEF TheLines
  <2> QED BY <2>1, BooksKept
<1>3. Books /\ Caught => NoneMissed
  BY ClaudeSays, CodexSays, AgySays DEF Books, NoneMissed
<1> QED BY <1>1, <1>2, <1>3, PTL DEF MCSpec

=============================================================================
