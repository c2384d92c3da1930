--------------------------- MODULE MCTerminal_proofs ---------------------------
(***************************************************************************)
(* Theorems about the machines that the composed run MCTerminal            *)
(* instantiates, for every value of their constants: no chunk of output is *)
(* delivered twice or out of order (OutputPipeline), and over any handoffs *)
(* nothing of an unopened terminal's output is lost, an adopted terminal   *)
(* shows one unbroken run of it, and no two readers share a terminal       *)
(* (HandoffStream).  InjectGate, which MCTerminal extends, has its         *)
(* theorems in InjectGate_proofs.                                          *)
(*                                                                         *)
(* Those about handoffs are for InTime = TRUE, and do not hold otherwise   *)
(* (MCStreamSlowReader.cfg).                                               *)
(***************************************************************************)
EXTENDS MCTerminal, SequenceTheorems, TLAPS

\* A step of the composition is a step of one machine and leaves the others alone.
LEMMA OneMachineSteps ==
    [MCNext]_allVars =>
        /\ part' = part /\ [Moved!Next]_moved
        /\ part = "sink" => [Sink!Next]_output
  BY DEF MCNext, allVars

-----------------------------------------------------------------------------
(* The sink                                                                 *)

Has(s)    == {s[i] : i \in 1 .. Len(s)}
Rising(s) == \A i, j \in 1 .. Len(s) : i < j => s[i] < s[j]

SinkTypes ==
    /\ seq \in Nat /\ seen \in Seq(Nat) /\ backlog \in Seq(Nat)
    /\ channel \in {"none", "page", "gone"}

\* Each chunk was seen, waits or is lost, and is one of these; what was seen came in order
\* and before what waits; nothing waits while a page listens, nor more than the cap.
Delivered ==
    /\ Rising(seen) /\ Rising(backlog)
    /\ \A x \in Has(seen), y \in Has(backlog) : x < y
    /\ Has(seen) \cup Has(backlog) \cup lost = 0 .. seq - 1
    /\ lost \cap (Has(seen) \cup Has(backlog)) = {}
    /\ channel = "page" => backlog = <<>>
    /\ Len(backlog) <= BacklogCap

KInv == SinkTypes /\ Delivered

LEMMA NoneInEmpty == <<>> \in Seq(Nat) /\ Len(<<>>) = 0 /\ Has(<<>>) = {} /\ Rising(<<>>)
<1>1. <<>> \in Seq(Nat) /\ Len(<<>>) = 0
  OBVIOUS
<1> QED BY <1>1 DEF Has, Rising

LEMMA JoinRising ==
    ASSUME NEW s \in Seq(Nat), NEW t \in Seq(Nat), Rising(s), Rising(t),
           \A x \in Has(s), y \in Has(t) : x < y
    PROVE  /\ s \o t \in Seq(Nat) /\ Rising(s \o t) /\ Has(s \o t) = Has(s) \cup Has(t)
           /\ Len(s \o t) = Len(s) + Len(t)
<1>1. /\ s \o t \in Seq(Nat) /\ Len(s \o t) = Len(s) + Len(t)
      /\ Len(s) \in Nat /\ Len(t) \in Nat
      /\ \A i \in 1 .. Len(s) + Len(t) :
            (s \o t)[i] = IF i <= Len(s) THEN s[i] ELSE t[i - Len(s)]
  BY ConcatProperties, LenProperties
<1> DEFINE r == s \o t
<1>2. /\ \A i \in 1 .. Len(s) : i \in 1 .. Len(r) /\ r[i] = s[i]
      /\ \A i \in 1 .. Len(t) : Len(s) + i \in 1 .. Len(r) /\ r[Len(s) + i] = t[i]
  BY <1>1
<1>3. \A i \in 1 .. Len(r) : \/ i \in 1 .. Len(s)
                             \/ i - Len(s) \in 1 .. Len(t) /\ r[i] = t[i - Len(s)]
  BY <1>1
<1> HIDE DEF r
<1>4. Has(r) = Has(s) \cup Has(t)
  <2>1. ASSUME NEW x \in Has(r) PROVE x \in Has(s) \cup Has(t)
    <3>1. PICK i \in 1 .. Len(r) : x = r[i]
      BY <2>1 DEF Has
    <3> QED BY <1>2, <1>3, <3>1 DEF Has
  <2>2. Has(s) \subseteq Has(r)
    BY <1>2 DEF Has
  <2>3. Has(t) \subseteq Has(r)
    BY <1>2 DEF Has
  <2> QED BY <2>1, <2>2, <2>3
<1>5. ASSUME NEW i \in 1 .. Len(r), NEW j \in 1 .. Len(r), i < j PROVE r[i] < r[j]
  <2>1. CASE j \in 1 .. Len(s)
    <3>1. i \in 1 .. Len(s)
      BY <1>1, <1>5, <2>1
    <3> QED BY <1>2, <1>5, <2>1, <3>1 DEF Rising
  <2>2. CASE i - Len(s) \in 1 .. Len(t)
    <3>1. j - Len(s) \in 1 .. Len(t) /\ i - Len(s) < j - Len(s) /\ r[j] = t[j - Len(s)]
      BY <1>1, <1>3, <1>5, <2>2
    <3>2. r[i] = t[i - Len(s)]
      BY <1>1, <1>3, <2>2
    <3> QED BY <2>2, <3>1, <3>2 DEF Rising
  <2>3. CASE i \in 1 .. Len(s) /\ j - Len(s) \in 1 .. Len(t)
    <3>1. r[i] \in Has(s)
      BY <1>2, <2>3 DEF Has
    <3>2. r[j] = t[j - Len(s)]
      BY <1>1, <1>3, <2>3
    <3>3. r[j] \in Has(t)
      BY <2>3, <3>2 DEF Has
    <3> QED BY <3>1, <3>3
  <2> QED BY <1>3, <2>1, <2>2, <2>3
<1> QED BY <1>1, <1>4, <1>5 DEF Rising, r

LEMMA SplitRising ==
    ASSUME NEW s \in Seq(Nat), NEW c \in 0 .. Len(s), Rising(s)
    PROVE  LET a == SubSeq(s, 1, c)
               b == SubSeq(s, c + 1, Len(s))
           IN  /\ a \in Seq(Nat) /\ b \in Seq(Nat) /\ Len(b) = Len(s) - c /\ Rising(b)
               /\ Has(a) \cup Has(b) = Has(s) /\ Has(a) \cap Has(b) = {}
<1> DEFINE a == SubSeq(s, 1, c)
           b == SubSeq(s, c + 1, Len(s))
<1>1. Len(s) \in Nat /\ c \in Nat /\ c <= Len(s) /\ \A i \in 1 .. Len(s) : s[i] \in Nat
  BY LenProperties
<1>2. a \in Seq(Nat) /\ Len(a) = c /\ \A i \in 1 .. c : a[i] = s[i]
  <2>1. 1 \in Int /\ c <= Len(s) /\ \A i \in 1 .. c : s[i] \in Nat
    BY <1>1
  <2>2. /\ a \in Seq(Nat) /\ Len(a) = IF 1 <= c THEN c - 1 + 1 ELSE 0
        /\ \A i \in 1 .. c - 1 + 1 : a[i] = s[1 + i - 1]
    BY <1>1, <2>1, SubSeqProperties
  <2> HIDE DEF a
  <2>3. c - 1 + 1 = c /\ \A i \in 1 .. c : 1 + i - 1 = i
    BY <1>1
  <2> QED BY <1>1, <2>2, <2>3
<1>3. /\ b \in Seq(Nat) /\ Len(b) = Len(s) - c
      /\ \A i \in 1 .. Len(s) - c : b[i] = s[c + i]
  <2>1. c + 1 \in Int /\ Len(s) \in Int /\ \A i \in c + 1 .. Len(s) : s[i] \in Nat
    BY <1>1
  <2>2. /\ b \in Seq(Nat)
        /\ Len(b) = IF c + 1 <= Len(s) THEN Len(s) - (c + 1) + 1 ELSE 0
        /\ \A i \in 1 .. Len(s) - (c + 1) + 1 : b[i] = s[c + 1 + i - 1]
    BY <2>1, SubSeqProperties
  <2> HIDE DEF b
  <2>3. Len(b) = Len(s) - c
    <3>1. CASE c + 1 <= Len(s)
      BY <1>1, <2>2, <3>1
    <3>2. CASE ~(c + 1 <= Len(s))
      BY <1>1, <2>2, <3>2
    <3> QED BY <3>1, <3>2
  <2>4. ASSUME NEW i \in 1 .. Len(s) - c PROVE b[i] = s[c + i]
    <3>1. i \in 1 .. Len(s) - (c + 1) + 1 /\ c + 1 + i - 1 = c + i
      BY <1>1, <2>4
    <3>2. b[i] = s[c + 1 + i - 1]
      BY <2>2, <3>1, Zenon
    <3> QED BY <3>1, <3>2, Zenon
  <2> QED BY <2>2, <2>3, <2>4
<1> HIDE DEF a, b
<1>4. Has(a) \cup Has(b) = Has(s)
  <2>1. Has(a) \subseteq Has(s)
    BY <1>1, <1>2 DEF Has
  <2>2. ASSUME NEW i \in 1 .. Len(b) PROVE b[i] \in Has(s)
    <3>1. c + i \in 1 .. Len(s) /\ b[i] = s[c + i]
      BY <1>1, <1>3
    <3> QED BY <3>1 DEF Has
  <2>3. ASSUME NEW i \in 1 .. Len(s) PROVE s[i] \in Has(a) \cup Has(b)
    <3>1. CASE i <= c
      BY <1>2, <3>1 DEF Has
    <3>2. CASE i > c
      <4>1. i - c \in 1 .. Len(b) /\ c + (i - c) = i
        BY <1>1, <1>3, <3>2
      <4>2. b[i - c] = s[i]
        BY <1>3, <4>1
      <4> QED BY <4>1, <4>2 DEF Has
    <3> QED BY <1>1, <3>1, <3>2
  <2>4. Has(b) \subseteq Has(s)
    BY <2>2 DEF Has
  <2>5. Has(s) \subseteq Has(a) \cup Has(b)
    BY <2>3 DEF Has
  <2> QED BY <2>1, <2>4, <2>5
<1>5. ASSUME NEW i \in 1 .. Len(a), NEW j \in 1 .. Len(b) PROVE a[i] # b[j]
  <2>1. /\ i \in 1 .. Len(s) /\ c + j \in 1 .. Len(s) /\ i < c + j
        /\ a[i] = s[i] /\ b[j] = s[c + j]
    BY <1>1, <1>2, <1>3
  <2>2. s[i] < s[c + j] /\ s[i] \in Nat /\ s[c + j] \in Nat
    BY <1>1, <2>1 DEF Rising
  <2> QED BY <2>1, <2>2
<1>6. Has(a) \cap Has(b) = {}
  BY <1>5 DEF Has
<1>7. ASSUME NEW i \in 1 .. Len(b), NEW j \in 1 .. Len(b), i < j PROVE b[i] < b[j]
  <2>1. /\ c + i \in 1 .. Len(s) /\ c + j \in 1 .. Len(s) /\ c + i < c + j
        /\ b[i] = s[c + i] /\ b[j] = s[c + j]
    BY <1>1, <1>3, <1>7
  <2> QED BY <2>1 DEF Rising
<1> QED BY <1>2, <1>3, <1>4, <1>6, <1>7 DEF Rising, a, b

\* The numbers of k new chunks.
LEMMA Fresh ==
    ASSUME NEW n \in Nat, NEW k \in Nat, NEW ns, ns = [i \in 1 .. k |-> n + i - 1]
    PROVE  /\ ns \in Seq(Nat) /\ Len(ns) = k /\ Rising(ns) /\ Has(ns) = n .. n + k - 1
           /\ Sink!ToSet(ns) = Has(ns)
<1>1. \A i \in 1 .. k : n + i - 1 \in Nat
  OBVIOUS
<1>2. ns \in Seq(Nat) /\ Len(ns) = k /\ DOMAIN ns = 1 .. k
  BY <1>1
<1>3. Rising(ns)
  BY <1>2 DEF Rising
<1>4. ASSUME NEW x \in n .. n + k - 1 PROVE x \in Has(ns)
  <2>1. x - n + 1 \in 1 .. k /\ n + (x - n + 1) - 1 = x
    OBVIOUS
  <2>2. ns[x - n + 1] = x
    BY <2>1
  <2> QED BY <1>2, <2>1, <2>2 DEF Has
<1>5. ASSUME NEW i \in 1 .. k PROVE ns[i] \in n .. n + k - 1
  <2>1. ns[i] = n + i - 1
    BY <1>5
  <2>2. n + i - 1 \in n .. n + k - 1
    OBVIOUS
  <2> QED BY <2>1, <2>2
<1>6. Has(ns) \subseteq n .. n + k - 1
  BY <1>2, <1>5 DEF Has
<1> QED BY <1>2, <1>3, <1>4, <1>6 DEF Has, Sink!ToSet

LEMMA TakeKeeps ==
    ASSUME KInv, NEW k \in Nat, NEW ns, ns = [i \in 1 .. k |-> seq + i - 1],
           seq' = seq + k, Sink!Take(ns)
    PROVE  KInv'
<1>1. /\ ns \in Seq(Nat) /\ Len(ns) = k /\ Rising(ns) /\ Has(ns) = seq .. seq + k - 1
      /\ Sink!ToSet(ns) = Has(ns)
  <2>1. PICK n \in Nat : n = seq
    BY DEF KInv, SinkTypes
  <2>2. ns = [i \in 1 .. k |-> n + i - 1]
    BY <2>1, Zenon
  <2>3. /\ ns \in Seq(Nat) /\ Len(ns) = k /\ Rising(ns) /\ Has(ns) = n .. n + k - 1
        /\ Sink!ToSet(ns) = Has(ns)
    BY <2>2, Fresh, Zenon
  <2> QED BY <2>1, <2>3
<1>2. /\ seq \in Nat /\ seen \in Seq(Nat) /\ backlog \in Seq(Nat) /\ seq' \in Nat
      /\ channel' = channel /\ channel \in {"none", "page", "gone"}
  BY DEF KInv, SinkTypes, Sink!Take
<1>3. /\ Rising(seen) /\ Rising(backlog)
      /\ \A x \in Has(seen), y \in Has(backlog) : x < y
      /\ Has(seen) \cup Has(backlog) \cup lost = 0 .. seq - 1
      /\ lost \cap (Has(seen) \cup Has(backlog)) = {}
      /\ channel = "page" => backlog = <<>>
      /\ Len(backlog) <= BacklogCap
  BY DEF KInv, Delivered
<1>4. /\ \A x \in 0 .. seq - 1, y \in Has(ns) : x < y
      /\ (0 .. seq - 1) \cup Has(ns) = 0 .. seq' - 1
  <2>1. PICK n \in Nat : n = seq
    BY <1>2
  <2>2. Has(ns) = n .. n + k - 1 /\ 0 .. seq - 1 = 0 .. n - 1 /\ 0 .. seq' - 1 = 0 .. n + k - 1
    BY <1>1, <2>1
  <2>3. \A x \in 0 .. n - 1, y \in n .. n + k - 1 : x < y
    OBVIOUS
  <2>4. (0 .. n - 1) \cup (n .. n + k - 1) = 0 .. n + k - 1
    OBVIOUS
  <2> QED BY <2>2, <2>3, <2>4, Zenon
<1>5. \A x \in Has(seen) \cup Has(backlog), y \in Has(ns) : x < y
  BY <1>3, <1>4
<1>6. Has(ns) \cap (0 .. seq - 1) = {}
  <2>1. ASSUME NEW x \in Has(ns) \cap (0 .. seq - 1) PROVE FALSE
    <3>1. x < x /\ x \in Int
      BY <1>4, <2>1
    <3> QED BY <3>1
  <2> QED BY <2>1
<1>7. CASE channel = "page" /\ seen' = seen \o ns /\ UNCHANGED <<backlog, lost>>
  <2>1. backlog = <<>> /\ Has(backlog) = {}
    BY <1>3, <1>7, NoneInEmpty
  <2>2. seen' \in Seq(Nat) /\ Rising(seen') /\ Has(seen') = Has(seen) \cup Has(ns)
    BY <1>1, <1>2, <1>3, <1>5, <1>7, JoinRising
  <2>3. SinkTypes'
    BY <1>2, <1>7, <2>2 DEF SinkTypes
  <2>4. Has(backlog') = {} /\ Rising(backlog') /\ Len(backlog') <= BacklogCap /\ backlog' = <<>>
    BY <1>3, <1>7, <2>1
  <2>5. lost' = lost /\ Has(seen') \cup Has(backlog') \cup lost' = 0 .. seq' - 1
    BY <1>3, <1>4, <1>7, <2>1, <2>2, <2>4
  <2>6. lost' \cap (Has(seen') \cup Has(backlog')) = {}
    BY <1>3, <1>6, <1>7, <2>1, <2>2, <2>4
  <2> QED BY <1>2, <2>2, <2>3, <2>4, <2>5, <2>6 DEF KInv, Delivered
<1>8. CASE channel = "gone" /\ lost' = lost \cup Sink!ToSet(ns) /\ UNCHANGED <<backlog, seen>>
  <2>1. SinkTypes'
    BY <1>2, <1>8 DEF SinkTypes
  <2>2. Has(seen') \cup Has(backlog') \cup lost' = 0 .. seq' - 1
    BY <1>1, <1>3, <1>4, <1>8
  <2>3. lost' \cap (Has(seen') \cup Has(backlog')) = {}
    BY <1>1, <1>3, <1>6, <1>8
  <2> QED BY <1>2, <1>3, <1>8, <2>1, <2>2, <2>3 DEF KInv, Delivered
<1>9. CASE channel = "none" /\ channel # "page" /\ channel # "gone"
  <2> DEFINE all == backlog \o ns
             cut == IF Len(all) > BacklogCap THEN Len(all) - BacklogCap ELSE 0
  <2>1. /\ backlog' = SubSeq(all, cut + 1, Len(all))
        /\ lost' = lost \cup Sink!ToSet(SubSeq(all, 1, cut)) /\ seen' = seen
    BY <1>9 DEF Sink!Take
  <2>2. /\ all \in Seq(Nat) /\ Rising(all) /\ Has(all) = Has(backlog) \cup Has(ns)
        /\ Len(all) = Len(backlog) + Len(ns)
    BY <1>1, <1>2, <1>3, <1>5, JoinRising
  <2>3. BacklogCap \in Nat /\ Len(all) \in Nat
    BY <2>2, InstancesFit, LenProperties DEF Sink!ConstantsFit
  <2> HIDE DEF all
  <2>4. cut \in 0 .. Len(all) /\ Len(all) - cut <= BacklogCap
    BY <2>3
  <2> HIDE DEF cut
  <2> DEFINE a == SubSeq(all, 1, cut)
  <2>5. /\ a \in Seq(Nat) /\ backlog' \in Seq(Nat) /\ Len(backlog') = Len(all) - cut
        /\ Rising(backlog') /\ Has(a) \cup Has(backlog') = Has(all)
        /\ Has(a) \cap Has(backlog') = {}
    BY <2>1, <2>2, <2>4, SplitRising
  <2>6. Sink!ToSet(a) = Has(a)
    BY <2>5 DEF Sink!ToSet, Has
  <2> HIDE DEF a
  <2>7. lost' = lost \cup Has(a)
    BY <2>1, <2>6 DEF a
  <2>8. SinkTypes'
    BY <1>2, <2>1, <2>5 DEF SinkTypes
  <2>9. \A x \in Has(seen'), y \in Has(backlog') : x < y
    BY <1>3, <1>5, <2>1, <2>2, <2>5
  <2>10. Has(seen') \cup Has(backlog') \cup lost' = 0 .. seq' - 1
    BY <1>3, <1>4, <2>1, <2>2, <2>5, <2>7
  <2>11. \A x \in Has(seen), y \in Has(all) : x # y
    <3>1. ASSUME NEW x \in Has(seen), NEW y \in Has(all) PROVE x < y /\ x \in Int
      BY <1>3, <1>5, <2>2
    <3> QED BY <3>1
  <2>12. lost' \cap (Has(seen') \cup Has(backlog')) = {}
    <3>1. lost \cap Has(all) = {}
      BY <1>3, <1>6, <2>2
    <3> QED BY <1>3, <2>1, <2>5, <2>7, <2>11, <3>1
  <2> QED BY <1>2, <1>3, <1>9, <2>1, <2>4, <2>5, <2>8, <2>9, <2>10, <2>12 DEF KInv, Delivered
<1> QED BY <1>7, <1>8, <1>9 DEF Sink!Take

\* A flush emits no chunk or one, and the restored screen one more.
LEMMA EmitKeeps ==
    ASSUME KInv, NEW b, NEW final, NEW more,
           more = <<>> \/ \E x : more = <<x>>, Sink!Emit(Sink!Flushed(b, final) \o more)
    PROVE  KInv'
<1> DEFINE f == Sink!Flushed(b, final)
           all == f \o more
<1>1. f = <<>> \/ \E x : f = <<x>>
  BY DEF Sink!Flushed
<1>2. /\ seq' = seq + Len(all)
      /\ Sink!Take([i \in DOMAIN all |-> seq + i - 1])
  BY DEF Sink!Emit
<1> HIDE DEF f
<1>3. Len(all) \in Nat /\ DOMAIN all = 1 .. Len(all)
  <2>1. PICK S : f \in Seq(S) /\ more \in Seq(S)
    <3>1. PICK x, y : (f = <<>> \/ f = <<x>>) /\ (more = <<>> \/ more = <<y>>)
      BY <1>1
    <3>2. <<>> \in Seq({x, y}) /\ <<x>> \in Seq({x, y}) /\ <<y>> \in Seq({x, y})
      OBVIOUS
    <3>3. f \in Seq({x, y}) /\ more \in Seq({x, y})
      BY <3>1, <3>2, Zenon
    <3> QED BY <3>3
  <2>2. all \in Seq(S)
    BY <2>1, ConcatProperties
  <2> QED BY <2>2, LenProperties
<1> HIDE DEF all
<1>4. PICK k \in Nat : k = Len(all)
  BY <1>3
<1>5. PICK ns : ns = [i \in 1 .. k |-> seq + i - 1]
  OBVIOUS
<1> QED BY <1>2, <1>3, <1>4, <1>5, TakeKeeps

LEMMA KInit == Sink!Init => KInv
<1> SUFFICES ASSUME Sink!Init PROVE KInv
  OBVIOUS
<1>1. seq = 0 /\ seen = <<>> /\ backlog = <<>> /\ lost = {} /\ channel = "none"
  BY DEF Sink!Init
<1>2. BacklogCap \in Nat /\ 0 .. seq - 1 = {}
  BY <1>1, InstancesFit DEF Sink!ConstantsFit
<1> QED BY <1>1, <1>2, NoneInEmpty DEF KInv, SinkTypes, Delivered

LEMMA Still ==
    ASSUME KInv, UNCHANGED <<seq, seen, backlog, lost, channel>>
    PROVE  KInv'
BY DEF KInv, SinkTypes, Delivered

LEMMA KNext == KInv /\ [Sink!Next]_output => KInv'
<1> SUFFICES ASSUME KInv, [Sink!Next]_output PROVE KInv'
  OBVIOUS
<1>1. CASE Sink!Read \/ Sink!ReadEof \/ UNCHANGED output
  <2>1. UNCHANGED <<seq, seen, backlog, lost, channel>>
    BY <1>1 DEF Sink!Read, Sink!ReadEof, Sink!pump, Sink!sink, output
  <2> QED BY <2>1, Still
<1>2. CASE Sink!PumpData
  <2>1. PICK b : \/ Sink!Emit(Sink!Flushed(b, FALSE) \o <<>>)
                 \/ UNCHANGED <<seq, Sink!sink>>
    BY <1>2 DEF Sink!PumpData, Sink!Flush
  <2> QED BY <2>1, EmitKeeps, Still DEF Sink!sink
<1>3. CASE Sink!PumpRestore
  <2>1. PICK x : Sink!Emit(Sink!Flushed(buf, FALSE) \o <<x>>)
    BY <1>3 DEF Sink!PumpRestore, Sink!Flush
  <2> QED BY <2>1, EmitKeeps
<1>4. CASE Sink!PumpTimer \/ Sink!PumpEof
  <2>1. PICK final : Sink!Emit(Sink!Flushed(buf, final) \o <<>>)
    BY <1>4 DEF Sink!PumpTimer, Sink!PumpEof, Sink!Flush
  <2> QED BY <2>1, EmitKeeps
<1>5. CASE Sink!Attach
  <2>1. /\ seen' = seen \o backlog /\ backlog' = <<>> /\ channel' = "page"
        /\ lost' = lost /\ seq' = seq
    BY <1>5 DEF Sink!Attach, Sink!pump
  <2>2. /\ seen' \in Seq(Nat) /\ Rising(seen') /\ Has(seen') = Has(seen) \cup Has(backlog)
    BY <2>1, JoinRising DEF KInv, SinkTypes, Delivered
  <2>3. BacklogCap \in Nat
    BY InstancesFit DEF Sink!ConstantsFit
  <2>4. SinkTypes'
    BY <2>1, <2>2, NoneInEmpty DEF KInv, SinkTypes
  <2>5. Delivered'
    BY <2>1, <2>2, <2>3, NoneInEmpty DEF KInv, Delivered
  <2> QED BY <2>4, <2>5 DEF KInv
<1>6. CASE Sink!Detach \/ Sink!PageGone
  <2>1. /\ UNCHANGED <<seq, seen, backlog, lost>> /\ channel' \in {"none", "gone"}
    BY <1>6 DEF Sink!Detach, Sink!PageGone, Sink!pump
  <2> QED BY <2>1 DEF KInv, SinkTypes, Delivered
<1> QED BY <1>1, <1>2, <1>3, <1>4, <1>5, <1>6 DEF Sink!Next, Sink!Pump

LEMMA Once == KInv => Sink!ChunksOnce
<1> SUFFICES ASSUME KInv PROVE Sink!ChunksOnce
  OBVIOUS
<1> DEFINE r == seen \o backlog
<1>1. /\ r \in Seq(Nat) /\ Rising(r) /\ Has(r) = Has(seen) \cup Has(backlog)
  BY JoinRising DEF KInv, SinkTypes, Delivered
<1>2. DOMAIN r = 1 .. Len(r) /\ Sink!ToSet(r) = Has(r)
  BY <1>1, LenProperties DEF Sink!ToSet, Has
<1>3. /\ Has(seen) \cup Has(backlog) \cup lost = 0 .. seq - 1
      /\ lost \cap (Has(seen) \cup Has(backlog)) = {}
      /\ channel = "page" => backlog = <<>>
  BY DEF KInv, Delivered
<1> HIDE DEF r
<1>4. \A i, j \in DOMAIN r : i < j => r[i] < r[j]
  BY <1>1, <1>2 DEF Rising
<1> QED BY <1>1, <1>2, <1>3, <1>4 DEF Sink!ChunksOnce, r

-----------------------------------------------------------------------------
(* The handoff                                                              *)

Within == Moved!ConstantsFit /\ InTime

\* The terminal is the app's until it is sent, and from its adoption on.
Phases  == {"up", "quitting", "stopping", "away", "down", "adopting"}
Reading == phase \in {"up", "quitting", "stopping"}

\* The units that have been read, and how many of them a reader holds.
Taken      == out - Len(tty)
AppHolds    == IF reader = "hand" THEN 1 ELSE 0
DaemonHolds == IF taker = "hand" THEN 1 ELSE 0

StreamTypes ==
    /\ out \in Nat /\ edge \in Nat /\ phase \in Phases
    /\ tty \in Seq(Nat) /\ shown \in Seq(Nat) /\ snap \in Seq(Nat) /\ ring \in Seq(Nat)
    /\ hand \in [app : Nat, daemon : Nat] /\ reader \in Moved!Readers /\ taker \in Moved!Readers
    /\ mounted \in BOOLEAN /\ whole \in BOOLEAN /\ Len(tty) <= out /\ Len(ring) <= RingCap

\* A run of the sequence s, after its first m, is the output up to the unit n.
RunsTo(s, m, n) == \A i \in 1 .. Len(s) : i > m => s[i] = n - Len(s) + i

\* What has not been read, in its order.
Waiting == RunsTo(tty, 0, out)

\* The app reads alone, and shows the newest of what was read.
AppReads ==
    Reading => /\ taker = "off" /\ edge <= Len(shown)
               /\ reader = "hand" => hand.app = Taken
               /\ RunsTo(shown, edge, Taken - AppHolds)

\* The daemon reads alone, and keeps the newest of what was read.
DaemonReads ==
    ~Reading => /\ reader = "off"
                /\ taker = "hand" => hand.daemon = Taken
                /\ RunsTo(ring, 0, Taken - DaemonHolds)

\* Of a terminal nobody opened, all that was read.
AllShown ==
    Reading /\ whole => /\ Len(shown) + AppHolds = Taken /\ RunsTo(shown, 0, Len(shown))
                        /\ phase # "up" => ~mounted /\ snap = <<>>
AllKept ==
    ~Reading /\ whole => /\ Len(snap) + Len(ring) + DaemonHolds = Taken
                         /\ RunsTo(snap, 0, Len(snap))

SInv == StreamTypes /\ Waiting /\ AppReads /\ DaemonReads /\ AllShown /\ AllKept

-----------------------------------------------------------------------------
(* Runs of the output                                                       *)

LEMMA AppendRun ==
    ASSUME NEW s \in Seq(Nat), NEW m \in Nat, NEW n \in Int, NEW x \in Nat, x = n + 1,
           m <= Len(s), RunsTo(s, m, n)
    PROVE  /\ Append(s, x) \in Seq(Nat) /\ Len(Append(s, x)) = Len(s) + 1
           /\ RunsTo(Append(s, x), m, n + 1)
<1>1. /\ Append(s, x) \in Seq(Nat) /\ Len(Append(s, x)) = Len(s) + 1 /\ Len(s) \in Nat
      /\ \A i \in 1 .. Len(s) : Append(s, x)[i] = s[i]
      /\ Append(s, x)[Len(s) + 1] = x
  BY AppendProperties, LenProperties
<1>2. ASSUME NEW i \in 1 .. Len(Append(s, x)), i > m
      PROVE  Append(s, x)[i] = (n + 1) - Len(Append(s, x)) + i
  <2>1. CASE i = Len(s) + 1
    BY <1>1, <2>1
  <2>2. CASE i \in 1 .. Len(s)
    <3>1. s[i] = n - Len(s) + i
      BY <1>2, <2>2 DEF RunsTo
    <3> QED BY <1>1, <2>2, <3>1
  <2> QED BY <1>1, <2>1, <2>2
<1> QED BY <1>1, <1>2 DEF RunsTo

LEMMA TailRun ==
    ASSUME NEW s \in Seq(Nat), NEW n \in Int, s # <<>>, RunsTo(s, 0, n)
    PROVE  /\ Head(s) \in Nat /\ Head(s) = n - Len(s) + 1
           /\ Tail(s) \in Seq(Nat) /\ Len(Tail(s)) = Len(s) - 1 /\ Len(s) >= 1
           /\ RunsTo(Tail(s), 0, n)
<1>1. /\ Head(s) \in Nat /\ Tail(s) \in Seq(Nat) /\ Len(Tail(s)) = Len(s) - 1
      /\ \A i \in 1 .. Len(Tail(s)) : Tail(s)[i] = s[i + 1]
  BY HeadTailProperties
<1>2. Len(s) \in Nat /\ Len(s) >= 1 /\ Head(s) = s[1]
  BY EmptySeq, LenProperties
<1>3. s[1] = n - Len(s) + 1
  BY <1>2 DEF RunsTo
<1>4. ASSUME NEW i \in 1 .. Len(Tail(s)) PROVE Tail(s)[i] = n - Len(Tail(s)) + i
  <2>1. s[i + 1] = n - Len(s) + (i + 1)
    BY <1>1, <1>2 DEF RunsTo
  <2> QED BY <1>1, <1>2, <2>1
<1> QED BY <1>1, <1>2, <1>3, <1>4 DEF RunsTo

\* A full ring drops from its front.
LEMMA NewestRun ==
    ASSUME NEW s \in Seq(Nat), NEW c \in Nat, c > 0, NEW n \in Int, RunsTo(s, 0, n)
    PROVE  /\ Moved!Newest(s, c) \in Seq(Nat) /\ Len(Moved!Newest(s, c)) <= c
           /\ Len(s) <= c => Moved!Newest(s, c) = s
           /\ RunsTo(Moved!Newest(s, c), 0, n)
<1>1. CASE Len(s) <= c
  BY <1>1 DEF Moved!Newest
<1>2. CASE ~(Len(s) <= c)
  <2> DEFINE a == Len(s) - c + 1
             r == SubSeq(s, a, Len(s))
  <2>1. Len(s) \in Nat /\ a \in Int /\ a >= 1 /\ a <= Len(s)
    BY <1>2
  <2>2. \A i \in a .. Len(s) : s[i] \in Nat
    BY <2>1
  <2>3. /\ r \in Seq(Nat) /\ Len(r) = c
        /\ \A i \in 1 .. Len(s) - a + 1 : r[i] = s[a + i - 1]
    BY <2>1, <2>2, SubSeqProperties
  <2>4. Moved!Newest(s, c) = r
    BY <1>2 DEF Moved!Newest
  <2>5. ASSUME NEW i \in 1 .. Len(r) PROVE r[i] = n - Len(r) + i
    <3>1. a + i - 1 \in 1 .. Len(s) /\ r[i] = s[a + i - 1]
      BY <2>1, <2>3
    <3>2. s[a + i - 1] = n - Len(s) + (a + i - 1)
      BY <2>1, <3>1 DEF RunsTo
    <3> QED BY <2>1, <2>3, <3>1, <3>2
  <2> HIDE DEF r
  <2> QED BY <1>2, <2>3, <2>4, <2>5 DEF RunsTo
<1> QED BY <1>1, <1>2

\* A snapshot, and the ring after it.
LEMMA ConcatRun ==
    ASSUME NEW s \in Seq(Nat), NEW t \in Seq(Nat), NEW n \in Int, RunsTo(t, 0, n)
    PROVE  /\ s \o t \in Seq(Nat) /\ Len(s \o t) = Len(s) + Len(t) /\ Len(s) \in Nat
           /\ Len(t) \in Nat /\ RunsTo(s \o t, Len(s), n)
           /\ RunsTo(s, 0, Len(s)) /\ n = Len(s) + Len(t) => RunsTo(s \o t, 0, n)
<1>1. /\ s \o t \in Seq(Nat) /\ Len(s \o t) = Len(s) + Len(t)
      /\ Len(s) \in Nat /\ Len(t) \in Nat
      /\ \A i \in 1 .. Len(s) + Len(t) :
            (s \o t)[i] = IF i <= Len(s) THEN s[i] ELSE t[i - Len(s)]
  BY ConcatProperties, LenProperties
<1>2. ASSUME NEW i \in 1 .. Len(s \o t), i > Len(s)
      PROVE  (s \o t)[i] = n - Len(s \o t) + i
  <2>1. i - Len(s) \in 1 .. Len(t) /\ (s \o t)[i] = t[i - Len(s)]
    BY <1>1, <1>2
  <2>2. t[i - Len(s)] = n - Len(t) + (i - Len(s))
    BY <2>1 DEF RunsTo
  <2> QED BY <1>1, <2>1, <2>2
<1>3. ASSUME RunsTo(s, 0, Len(s)), n = Len(s) + Len(t), NEW i \in 1 .. Len(s \o t)
      PROVE  (s \o t)[i] = n - Len(s \o t) + i
  <2>1. CASE i > Len(s)
    BY <1>2, <2>1
  <2>2. CASE ~(i > Len(s))
    <3>1. i \in 1 .. Len(s) /\ (s \o t)[i] = s[i]
      BY <1>1, <2>2
    <3>2. s[i] = Len(s) - Len(s) + i
      BY <1>3, <3>1 DEF RunsTo
    <3> QED BY <1>1, <1>3, <3>1, <3>2
  <2> QED BY <2>1, <2>2
<1> QED BY <1>1, <1>2, <1>3 DEF RunsTo

-----------------------------------------------------------------------------
(* The steps                                                                *)

LEMMA Basics ==
    ASSUME SInv
    PROVE  /\ Len(tty) \in Nat /\ Len(shown) \in Nat /\ Len(snap) \in Nat /\ Len(ring) \in Nat
           /\ Taken \in Int /\ Taken >= 0 /\ AppHolds \in {0, 1} /\ DaemonHolds \in {0, 1}
           /\ hand.app \in Nat /\ hand.daemon \in Nat /\ out \in Nat /\ edge \in Nat
BY LenProperties DEF SInv, StreamTypes, Taken, AppHolds, DaemonHolds

LEMMA ProduceKeeps == ASSUME SInv, Within, Moved!Produce PROVE SInv'
<1>1. /\ out' = out + 1 /\ tty' = Append(tty, out + 1)
      /\ UNCHANGED <<mounted, phase, reader, shown, snap, edge, taker, ring, whole, hand>>
  BY DEF Moved!Produce, Moved!appside, Moved!daemonside
<1>2. out \in Nat /\ tty \in Seq(Nat) /\ Len(tty) \in Nat /\ Len(tty) <= out /\ RunsTo(tty, 0, out)
  BY Basics DEF SInv, StreamTypes, Waiting
<1>3. tty' \in Seq(Nat) /\ Len(tty') = Len(tty) + 1 /\ RunsTo(tty', 0, out')
  BY <1>1, <1>2, AppendRun
<1>4. Taken' = Taken /\ AppHolds' = AppHolds /\ DaemonHolds' = DaemonHolds /\ Reading' = Reading
  BY <1>1, <1>2, <1>3 DEF Taken, AppHolds, DaemonHolds, Reading
<1>5. StreamTypes'
  BY <1>1, <1>2, <1>3 DEF SInv, StreamTypes
<1> QED BY <1>1, <1>3, <1>4, <1>5
        DEF SInv, Waiting, AppReads, DaemonReads, AllShown, AllKept, RunsTo

\* A reader takes the oldest unit that waits.
LEMMA Takes ==
    ASSUME SInv, tty # <<>>, tty' = Tail(tty), out' = out
    PROVE  /\ Head(tty) \in Nat /\ Head(tty) = Taken + 1 /\ Taken' = Taken + 1
           /\ tty' \in Seq(Nat) /\ Len(tty') <= out' /\ Waiting'
<1>1. out \in Nat /\ tty \in Seq(Nat) /\ Len(tty) \in Nat /\ Len(tty) <= out /\ RunsTo(tty, 0, out)
  BY Basics DEF SInv, StreamTypes, Waiting
<1>2. /\ Head(tty) \in Nat /\ Head(tty) = out - Len(tty) + 1
      /\ Tail(tty) \in Seq(Nat) /\ Len(Tail(tty)) = Len(tty) - 1 /\ Len(tty) >= 1
      /\ RunsTo(Tail(tty), 0, out)
  BY <1>1, TailRun
<1> QED BY <1>1, <1>2 DEF Taken, Waiting

LEMMA AppKeeps == ASSUME SInv, Within, Moved!AppPoll \/ Moved!AppRead \/ Moved!AppShow PROVE SInv'
<1>1. /\ UNCHANGED <<out, mounted, phase, snap, edge, taker, ring, whole>>
      /\ reader # "off"
  BY DEF Moved!AppPoll, Moved!AppRead, Moved!AppShow, Moved!daemonside
<1>2. Reading /\ Reading'
  BY <1>1 DEF SInv, DaemonReads, Reading
<1>3. /\ taker = "off" /\ edge <= Len(shown) /\ (reader = "hand" => hand.app = Taken)
      /\ RunsTo(shown, edge, Taken - AppHolds)
      /\ whole => /\ Len(shown) + AppHolds = Taken /\ RunsTo(shown, 0, Len(shown))
                  /\ phase # "up" => ~mounted /\ snap = <<>>
  BY <1>2 DEF SInv, AppReads, AllShown
<1>4. CASE Moved!AppPoll
  <2>1. /\ reader = "poll" /\ reader' \in {"off", "ready"} /\ UNCHANGED <<tty, shown, hand>>
    BY <1>4 DEF Moved!AppPoll
  <2>2. Taken' = Taken /\ AppHolds' = AppHolds /\ AppHolds = 0
    BY <1>1, <2>1 DEF Taken, AppHolds
  <2>3. StreamTypes' /\ Waiting'
    BY <1>1, <2>1 DEF SInv, StreamTypes, Waiting, Moved!Readers
  <2>4. AppReads' /\ AllShown'
    BY <1>1, <1>2, <1>3, <2>1, <2>2 DEF AppReads, AllShown
  <2> QED BY <1>2, <2>3, <2>4 DEF SInv, DaemonReads, AllKept
<1>5. CASE Moved!AppRead
  <2>1. /\ reader = "ready" /\ reader' = "hand" /\ tty # <<>> /\ tty' = Tail(tty)
        /\ hand' = [hand EXCEPT !.app = Head(tty)] /\ shown' = shown
    BY <1>5 DEF Moved!AppRead
  <2>2. /\ Head(tty) \in Nat /\ Head(tty) = Taken + 1 /\ Taken' = Taken + 1
        /\ tty' \in Seq(Nat) /\ Len(tty') <= out' /\ Waiting'
    BY <1>1, <2>1, Takes
  <2>3. hand' \in [app : Nat, daemon : Nat] /\ hand'.app = Head(tty)
    BY <2>1, <2>2 DEF SInv, StreamTypes
  <2>4. AppHolds = 0 /\ AppHolds' = 1
    BY <2>1 DEF AppHolds
  <2>5. Taken' - AppHolds' = Taken - AppHolds
    BY <2>2, <2>4, Basics
  <2>6. StreamTypes'
    BY <1>1, <2>1, <2>2, <2>3 DEF SInv, StreamTypes, Moved!Readers
  <2>7. AppReads'
    BY <1>1, <1>3, <2>1, <2>2, <2>3, <2>5 DEF AppReads, RunsTo
  <2>8. AllShown'
    BY <1>1, <1>3, <2>1, <2>2, <2>4, Basics DEF AllShown, RunsTo
  <2> QED BY <1>2, <2>2, <2>6, <2>7, <2>8 DEF SInv, DaemonReads, AllKept
<1>6. CASE Moved!AppShow
  <2>1. /\ reader = "hand" /\ reader' = "poll" /\ shown' = Append(shown, hand.app)
        /\ UNCHANGED <<tty, hand>>
    BY <1>6 DEF Moved!AppShow
  <2>2. AppHolds = 1 /\ AppHolds' = 0 /\ Taken' = Taken
    BY <1>1, <2>1 DEF AppHolds, Taken
  <2>3. shown \in Seq(Nat)
    BY DEF SInv, StreamTypes
  <2>4. hand.app = (Taken - 1) + 1 /\ Taken - 1 \in Int /\ RunsTo(shown, edge, Taken - 1)
    BY <1>3, <2>1, <2>2, Basics
  <2>5. /\ shown' \in Seq(Nat) /\ Len(shown') = Len(shown) + 1
        /\ RunsTo(shown', edge, (Taken - 1) + 1)
    BY <1>3, <2>1, <2>3, <2>4, Basics, AppendRun
  <2>6. StreamTypes' /\ Waiting'
    BY <1>1, <2>1, <2>5 DEF SInv, StreamTypes, Waiting, Moved!Readers
  <2>7. AppReads'
    <3>1. edge' <= Len(shown')
      BY <1>1, <1>3, <2>5, Basics
    <3>2. Taken' - AppHolds' = (Taken - 1) + 1
      BY <2>2, Basics
    <3> QED BY <1>1, <1>3, <2>1, <2>5, <3>1, <3>2 DEF AppReads
  <2>8. AllShown'
    <3> SUFFICES ASSUME whole
                 PROVE  /\ Len(shown') + AppHolds' = Taken' /\ RunsTo(shown', 0, Len(shown'))
                        /\ phase' # "up" => ~mounted' /\ snap' = <<>>
      BY <1>1 DEF AllShown
    <3>1. Len(shown) + 1 = Taken /\ RunsTo(shown, 0, Len(shown)) /\ Len(shown) \in Nat
      BY <1>3, <2>2, Basics
    <3>2. hand.app = Len(shown) + 1
      BY <1>3, <2>1, <3>1
    <3>3. RunsTo(shown', 0, Len(shown) + 1)
      BY <2>1, <2>3, <3>1, <3>2, Basics, AppendRun
    <3> QED BY <1>1, <1>3, <2>2, <2>5, <3>1, <3>3
  <2> QED BY <1>2, <2>6, <2>7, <2>8 DEF SInv, DaemonReads, AllKept
<1> QED BY <1>4, <1>5, <1>6

LEMMA DaemonKeeps ==
    ASSUME SInv, Within, Moved!DaemonPoll \/ Moved!DaemonRead \/ Moved!DaemonKeep
    PROVE  SInv'
<1>1. /\ UNCHANGED <<out, mounted, phase, reader, shown, snap, edge>>
      /\ taker # "off"
  BY DEF Moved!DaemonPoll, Moved!DaemonRead, Moved!DaemonKeep, Moved!appside
<1>2. ~Reading /\ ~Reading'
  BY <1>1 DEF SInv, AppReads, Reading
<1>3. /\ reader = "off" /\ (taker = "hand" => hand.daemon = Taken)
      /\ RunsTo(ring, 0, Taken - DaemonHolds)
      /\ whole => /\ Len(snap) + Len(ring) + DaemonHolds = Taken /\ RunsTo(snap, 0, Len(snap))
  BY <1>2 DEF SInv, DaemonReads, AllKept
<1>4. CASE Moved!DaemonPoll
  <2>1. /\ taker = "poll" /\ taker' \in {"off", "ready"} /\ UNCHANGED <<tty, ring, whole, hand>>
    BY <1>4 DEF Moved!DaemonPoll
  <2>2. Taken' = Taken /\ DaemonHolds' = DaemonHolds /\ DaemonHolds = 0
    BY <1>1, <2>1 DEF Taken, DaemonHolds
  <2>3. StreamTypes' /\ Waiting'
    BY <1>1, <2>1 DEF SInv, StreamTypes, Waiting, Moved!Readers
  <2>4. DaemonReads' /\ AllKept'
    BY <1>1, <1>2, <1>3, <2>1, <2>2 DEF DaemonReads, AllKept
  <2> QED BY <1>2, <2>3, <2>4 DEF SInv, AppReads, AllShown
<1>5. CASE Moved!DaemonRead
  <2>1. /\ taker = "ready" /\ taker' = "hand" /\ tty # <<>> /\ tty' = Tail(tty)
        /\ hand' = [hand EXCEPT !.daemon = Head(tty)] /\ UNCHANGED <<ring, whole>>
    BY <1>5 DEF Moved!DaemonRead
  <2>2. /\ Head(tty) \in Nat /\ Head(tty) = Taken + 1 /\ Taken' = Taken + 1
        /\ tty' \in Seq(Nat) /\ Len(tty') <= out' /\ Waiting'
    BY <1>1, <2>1, Takes
  <2>3. hand' \in [app : Nat, daemon : Nat] /\ hand'.daemon = Head(tty)
    BY <2>1, <2>2 DEF SInv, StreamTypes
  <2>4. DaemonHolds = 0 /\ DaemonHolds' = 1
    BY <2>1 DEF DaemonHolds
  <2>5. Taken' - DaemonHolds' = Taken - DaemonHolds
    BY <2>2, <2>4, Basics
  <2>6. StreamTypes'
    BY <1>1, <2>1, <2>2, <2>3 DEF SInv, StreamTypes, Moved!Readers
  <2>7. DaemonReads'
    BY <1>1, <1>3, <2>1, <2>2, <2>3, <2>5 DEF DaemonReads, RunsTo
  <2>8. AllKept'
    BY <1>1, <1>3, <2>1, <2>2, <2>4, Basics DEF AllKept, RunsTo
  <2> QED BY <1>2, <2>2, <2>6, <2>7, <2>8 DEF SInv, AppReads, AllShown
<1>6. CASE Moved!DaemonKeep
  <2> DEFINE r == Append(ring, hand.daemon)
  <2>1. /\ taker = "hand" /\ taker' = "poll" /\ ring' = Moved!Newest(r, RingCap)
        /\ whole' = (whole /\ Len(ring) < RingCap) /\ UNCHANGED <<tty, hand>>
    BY <1>6 DEF Moved!DaemonKeep
  <2>2. DaemonHolds = 1 /\ DaemonHolds' = 0 /\ Taken' = Taken
    BY <1>1, <2>1 DEF DaemonHolds, Taken
  <2>3. ring \in Seq(Nat) /\ RingCap \in Nat /\ RingCap > 0
    BY DEF SInv, StreamTypes, Within, Moved!ConstantsFit
  <2>4. hand.daemon = (Taken - 1) + 1 /\ Taken - 1 \in Int /\ RunsTo(ring, 0, Taken - 1)
    BY <1>3, <2>1, <2>2, Basics
  <2>5. r \in Seq(Nat) /\ Len(r) = Len(ring) + 1 /\ RunsTo(r, 0, (Taken - 1) + 1)
    BY <2>3, <2>4, Basics, AppendRun
  <2>6. (Taken - 1) + 1 = Taken /\ Taken \in Int
    BY Basics
  <2> HIDE DEF r
  <2>7. /\ ring' \in Seq(Nat) /\ Len(ring') <= RingCap /\ (Len(r) <= RingCap => ring' = r)
        /\ RunsTo(ring', 0, Taken)
    BY <2>1, <2>3, <2>5, <2>6, NewestRun
  <2>8. whole' \in BOOLEAN
    BY <2>1
  <2>9. StreamTypes' /\ Waiting'
    BY <1>1, <2>1, <2>7, <2>8 DEF SInv, StreamTypes, Waiting, Moved!Readers
  <2>10. DaemonReads'
    BY <1>1, <1>3, <2>1, <2>2, <2>6, <2>7 DEF DaemonReads
  <2>11. AllKept'
    <3> SUFFICES ASSUME whole'
                 PROVE  /\ Len(snap') + Len(ring') + DaemonHolds' = Taken'
                        /\ RunsTo(snap', 0, Len(snap'))
      BY DEF AllKept
    <3>1. whole /\ Len(ring) < RingCap
      BY <2>1
    <3>2. ring' = r
      BY <2>3, <2>5, <2>7, <3>1, Basics
    <3>3. Len(snap) + Len(ring) + 1 = Taken /\ RunsTo(snap, 0, Len(snap)) /\ snap' = snap
      BY <1>1, <1>3, <2>2, <3>1
    <3>4. Len(snap) + Len(ring') + 0 = Taken
      BY <2>5, <3>2, <3>3, Basics
    <3> QED BY <2>2, <3>3, <3>4
  <2> QED BY <1>2, <2>9, <2>10, <2>11 DEF SInv, AppReads, AllShown
<1> QED BY <1>4, <1>5, <1>6

\* Before the terminal is sent the app goes on reading it.
LEMMA QuitKeeps == ASSUME SInv, Within, Moved!Open \/ Moved!Quit \/ Moved!Interrupt PROVE SInv'
<1>1. /\ UNCHANGED <<out, tty, reader, shown, edge, taker, ring, hand>> /\ Reading /\ Reading'
      /\ phase' \in Phases
  BY DEF Moved!Open, Moved!Quit, Moved!Interrupt, Moved!daemonside, Reading, Phases, SInv, StreamTypes
<1>2. /\ Taken' = Taken /\ AppHolds' = AppHolds
      /\ taker = "off" /\ edge <= Len(shown) /\ (reader = "hand" => hand.app = Taken)
      /\ RunsTo(shown, edge, Taken - AppHolds)
  BY <1>1 DEF Taken, AppHolds, SInv, AppReads
<1>3. Waiting' /\ AppReads'
  BY <1>1, <1>2 DEF SInv, Waiting, AppReads
<1>4. DaemonReads' /\ AllKept'
  BY <1>1 DEF DaemonReads, AllKept
<1>5. whole => Len(shown) + AppHolds = Taken /\ RunsTo(shown, 0, Len(shown))
  BY <1>1 DEF SInv, AllShown
<1>6. CASE Moved!Open
  <2>1. mounted' = TRUE /\ snap' = snap /\ whole' = whole /\ phase = "up" /\ phase' = phase
    BY <1>6 DEF Moved!Open, Moved!daemonside
  <2>2. StreamTypes'
    BY <1>1, <2>1 DEF SInv, StreamTypes
  <2>3. AllShown'
    BY <1>1, <1>2, <1>5, <2>1 DEF AllShown
  <2> QED BY <1>3, <1>4, <2>2, <2>3 DEF SInv
<1>7. CASE Moved!Quit
  <2>1. /\ mounted' = mounted /\ snap' = (IF mounted THEN shown ELSE <<>>)
        /\ whole' = (whole /\ ~mounted)
    BY <1>7 DEF Moved!Quit
  <2>2. snap' \in Seq(Nat) /\ whole' \in BOOLEAN
    BY <2>1, EmptySeq DEF SInv, StreamTypes
  <2>3. StreamTypes'
    BY <1>1, <2>1, <2>2 DEF SInv, StreamTypes
  <2>4. AllShown'
    BY <1>1, <1>2, <1>5, <2>1 DEF AllShown
  <2> QED BY <1>3, <1>4, <2>3, <2>4 DEF SInv
<1>8. CASE Moved!Interrupt
  <2>1. mounted' = mounted /\ snap' = snap /\ whole' = whole /\ phase = "quitting"
    BY <1>8 DEF Moved!Interrupt, Moved!daemonside
  <2>2. StreamTypes'
    BY <1>1, <2>1 DEF SInv, StreamTypes
  <2>3. AllShown'
    BY <1>1, <1>2, <2>1 DEF SInv, AllShown
  <2> QED BY <1>3, <1>4, <2>2, <2>3 DEF SInv
<1> QED BY <1>6, <1>7, <1>8

\* The app has read its last when the terminal goes.
LEMMA SendKeeps == ASSUME SInv, Within, Moved!Send PROVE SInv'
<1>1. /\ phase = "stopping" /\ phase' = "away" /\ reader = "off"
      /\ snap' = (IF snap = <<>> /\ ~mounted THEN shown ELSE snap)
      /\ taker' = "poll" /\ ring' = <<>>
      /\ UNCHANGED <<out, tty, mounted, reader, shown, edge, whole, hand>>
  BY DEF Moved!Send, Within
<1>2. Reading /\ ~Reading' /\ phase' \in Phases
  BY <1>1 DEF Reading, Phases
<1>3. Taken' = Taken /\ AppHolds = 0 /\ DaemonHolds' = 0
  BY <1>1 DEF Taken, AppHolds, DaemonHolds
<1>4. /\ <<>> \in Seq(Nat) /\ Len(<<>>) = 0 /\ snap' \in Seq(Nat) /\ RingCap \in Nat
  BY <1>1 DEF SInv, StreamTypes, Within, Moved!ConstantsFit
<1>5. StreamTypes' /\ Waiting'
  BY <1>1, <1>2, <1>4 DEF SInv, StreamTypes, Waiting, Moved!Readers
<1>6. DaemonReads'
  <2>1. RunsTo(ring', 0, Taken' - DaemonHolds')
    BY <1>1, <1>4 DEF RunsTo
  <2> QED BY <1>1, <2>1 DEF DaemonReads
<1>7. AllKept'
  <2> SUFFICES ASSUME whole
               PROVE  /\ Len(snap') + Len(ring') + DaemonHolds' = Taken'
                      /\ RunsTo(snap', 0, Len(snap'))
    BY <1>1 DEF AllKept
  <2>1. /\ Len(shown) + AppHolds = Taken /\ RunsTo(shown, 0, Len(shown))
        /\ ~mounted /\ snap = <<>>
    BY <1>1, <1>2 DEF SInv, AllShown
  <2>2. snap' = shown
    BY <1>1, <2>1
  <2> QED BY <1>1, <1>3, <1>4, <2>1, <2>2, Basics
<1> QED BY <1>2, <1>5, <1>6, <1>7 DEF SInv, AppReads, AllShown

LEMMA ExitKeeps == ASSUME SInv, Within, Moved!AppExit \/ Moved!AdoptBegin PROVE SInv'
<1>1. /\ UNCHANGED <<out, tty, mounted, snap, edge, taker, ring, whole, hand>>
      /\ ~Reading /\ ~Reading' /\ phase' \in Phases
  BY DEF Moved!AppExit, Moved!AdoptBegin, Moved!daemonside, Reading, Phases
<1>2. reader' = "off" /\ shown' \in Seq(Nat)
  BY <1>1, EmptySeq DEF Moved!AppExit, Moved!AdoptBegin, SInv, DaemonReads, StreamTypes
<1>3. Taken' = Taken /\ DaemonHolds' = DaemonHolds
  BY <1>1 DEF Taken, DaemonHolds
<1>4. StreamTypes' /\ Waiting'
  BY <1>1, <1>2 DEF SInv, StreamTypes, Waiting, Moved!Readers
<1>5. DaemonReads' /\ AllKept'
  BY <1>1, <1>2, <1>3 DEF SInv, DaemonReads, AllKept
<1> QED BY <1>1, <1>4, <1>5 DEF SInv, AppReads, AllShown

\* The terminal comes back with the snapshot and the ring, once the daemon has read its last.
LEMMA AdoptKeeps == ASSUME SInv, Within, Moved!Adopt PROVE SInv'
<1>1. /\ phase = "adopting" /\ taker = "off" /\ phase' = "up" /\ shown' = snap \o ring
      /\ edge' = Len(snap) /\ mounted' \in Mounted /\ reader' = "poll"
      /\ UNCHANGED <<out, tty, snap, taker, ring, whole, hand>>
  BY DEF Moved!Adopt, Moved!daemonside
<1>2. ~Reading /\ Reading' /\ phase' \in Phases /\ mounted' \in BOOLEAN
  BY <1>1 DEF Reading, Phases, Within, Moved!ConstantsFit
<1>3. Taken' = Taken /\ AppHolds' = 0 /\ DaemonHolds = 0
  BY <1>1 DEF Taken, AppHolds, DaemonHolds
<1>4. snap \in Seq(Nat) /\ ring \in Seq(Nat) /\ Taken \in Int /\ Taken - 0 = Taken
  BY Basics DEF SInv, StreamTypes
<1>5. RunsTo(ring, 0, Taken)
  BY <1>2, <1>3, <1>4 DEF SInv, DaemonReads
<1>6. /\ shown' \in Seq(Nat) /\ Len(shown') = Len(snap) + Len(ring) /\ Len(snap) \in Nat
      /\ Len(ring) \in Nat /\ RunsTo(shown', Len(snap), Taken)
      /\ RunsTo(snap, 0, Len(snap)) /\ Taken = Len(snap) + Len(ring) => RunsTo(shown', 0, Taken)
  BY <1>1, <1>4, <1>5, ConcatRun
<1>7. StreamTypes' /\ Waiting'
  BY <1>1, <1>2, <1>6 DEF SInv, StreamTypes, Waiting, Moved!Readers
<1>8. AppReads'
  <2>1. edge' <= Len(shown')
    BY <1>1, <1>6
  <2> QED BY <1>1, <1>3, <1>4, <1>6, <2>1 DEF AppReads
<1>9. AllShown'
  <2> SUFFICES ASSUME whole
               PROVE  /\ Len(shown') + AppHolds' = Taken' /\ RunsTo(shown', 0, Len(shown'))
                      /\ phase' # "up" => ~mounted' /\ snap' = <<>>
    BY <1>1 DEF AllShown
  <2>1. Len(snap) + Len(ring) + 0 = Taken /\ RunsTo(snap, 0, Len(snap))
    BY <1>2, <1>3 DEF SInv, AllKept
  <2>2. Taken = Len(snap) + Len(ring) /\ Len(shown') = Taken /\ Len(shown') + 0 = Taken
    BY <1>6, <2>1
  <2> QED BY <1>1, <1>3, <1>6, <2>1, <2>2
<1> QED BY <1>2, <1>7, <1>8, <1>9 DEF SInv, DaemonReads, AllKept

LEMMA SInit == Within /\ Moved!Init => SInv
<1> SUFFICES ASSUME Within, Moved!Init PROVE SInv
  OBVIOUS
<1>1. /\ out = 0 /\ tty = <<>> /\ mounted \in BOOLEAN /\ phase = "up" /\ reader = "poll"
      /\ shown = <<>> /\ snap = <<>> /\ taker = "off" /\ ring = <<>>
      /\ hand = [app |-> 0, daemon |-> 0] /\ edge = 0 /\ whole = TRUE
  BY DEF Moved!Init, Within, Moved!ConstantsFit
<1>2. <<>> \in Seq(Nat) /\ Len(<<>>) = 0 /\ RingCap \in Nat
  BY DEF Within, Moved!ConstantsFit
<1>3. StreamTypes
  BY <1>1, <1>2 DEF StreamTypes, Phases, Moved!Readers
<1>4. Reading /\ Taken = 0 /\ AppHolds = 0
  <2>1. Taken = 0 - 0
    BY <1>1, <1>2 DEF Taken
  <2>2. Reading /\ AppHolds = 0
    BY <1>1 DEF Reading, AppHolds
  <2> QED BY <2>1, <2>2
<1>5. \A m \in Nat, n \in Int : RunsTo(<<>>, m, n)
  BY <1>2 DEF RunsTo
<1>6. Waiting /\ AppReads /\ AllShown
  BY <1>1, <1>2, <1>4, <1>5 DEF Waiting, AppReads, AllShown
<1> QED BY <1>3, <1>4, <1>6 DEF SInv, DaemonReads, AllKept

LEMMA SNext == Within /\ SInv /\ [Moved!Next]_moved => SInv'
<1> SUFFICES ASSUME Within, SInv, [Moved!Next]_moved PROVE SInv'
  OBVIOUS
<1>1. CASE Moved!Next
  BY <1>1, ProduceKeeps, AppKeeps, DaemonKeeps, QuitKeeps, SendKeeps, ExitKeeps, AdoptKeeps DEF Moved!Next
<1>2. CASE UNCHANGED moved
  BY <1>2 DEF moved, SInv, StreamTypes, Waiting, AppReads, DaemonReads, AllShown, AllKept,
              Reading, Taken, AppHolds, DaemonHolds
<1> QED BY <1>1, <1>2

-----------------------------------------------------------------------------
(* What the runs show                                                       *)

LEMMA JoinRun ==
    ASSUME NEW s \in Seq(Nat), NEW t \in Seq(Nat), NEW n \in Int,
           RunsTo(s, 0, n - Len(t)), RunsTo(t, 0, n)
    PROVE  s \o t \in Seq(Nat) /\ Len(s \o t) = Len(s) + Len(t) /\ RunsTo(s \o t, 0, n)
<1>1. /\ s \o t \in Seq(Nat) /\ Len(s \o t) = Len(s) + Len(t)
      /\ Len(s) \in Nat /\ Len(t) \in Nat
      /\ \A i \in 1 .. Len(s) + Len(t) :
            (s \o t)[i] = IF i <= Len(s) THEN s[i] ELSE t[i - Len(s)]
  BY ConcatProperties, LenProperties
<1>2. ASSUME NEW i \in 1 .. Len(s \o t) PROVE (s \o t)[i] = n - Len(s \o t) + i
  <2>1. CASE i <= Len(s)
    <3>1. s[i] = n - Len(t) - Len(s) + i
      BY <1>1, <2>1 DEF RunsTo
    <3> QED BY <1>1, <2>1, <3>1
  <2>2. CASE ~(i <= Len(s))
    <3>1. t[i - Len(s)] = n - Len(t) + (i - Len(s))
      BY <1>1, <2>2 DEF RunsTo
    <3> QED BY <1>1, <2>2, <3>1
  <2> QED BY <2>1, <2>2
<1> QED BY <1>1, <1>2 DEF RunsTo

LEMMA RunIsCounted ==
    ASSUME NEW s \in Seq(Nat), NEW n \in Int, RunsTo(s, 0, n)
    PROVE  s = Moved!Counted(n - Len(s) + 1, n)
<1>1. Len(s) \in Nat /\ s = [i \in 1 .. Len(s) |-> s[i]]
  BY LenProperties
<1>2. n - (n - Len(s) + 1) + 1 = Len(s)
  BY <1>1
<1>3. ASSUME NEW i \in 1 .. Len(s) PROVE s[i] = n - Len(s) + 1 + i - 1
  BY <1>1 DEF RunsTo
<1> QED BY <1>1, <1>2, <1>3 DEF Moved!Counted

\* What the screen shows, what the reader has in hand and what waits make one run.
LEMMA OneRun ==
    ASSUME SInv, Reading, NEW s \in Seq(Nat), RunsTo(s, 0, Taken - AppHolds)
    PROVE  /\ Len(s \o Moved!InHand \o tty) = Len(s) + AppHolds + Len(tty)
           /\ s \o Moved!InHand \o tty = Moved!Counted(out - Len(s \o Moved!InHand \o tty) + 1, out)
<1>1. /\ tty \in Seq(Nat) /\ RunsTo(tty, 0, out) /\ out \in Int /\ Taken = out - Len(tty)
      /\ hand.app \in Nat /\ (reader = "hand" => hand.app = Taken)
  BY Basics DEF SInv, StreamTypes, Waiting, AppReads, Taken
<1>2. /\ Moved!InHand \in Seq(Nat) /\ Len(Moved!InHand) = AppHolds /\ RunsTo(Moved!InHand, 0, Taken)
  <2>1. CASE reader = "hand"
    <3>1. Moved!InHand = <<hand.app>> /\ AppHolds = 1
      BY <2>1 DEF Moved!InHand, AppHolds
    <3>2. hand.app \in Nat /\ hand.app = Taken
      BY <1>1, <2>1
    <3>3. Moved!InHand \in Seq(Nat) /\ Len(Moved!InHand) = 1 /\ Moved!InHand[1] = Taken
      BY <3>1, <3>2
    <3>4. \A i \in 1 .. 1 : i = 1 /\ Taken = Taken - 1 + i
      BY Basics
    <3> QED BY <3>1, <3>3, <3>4 DEF RunsTo
  <2>2. CASE reader # "hand"
    <3>1. Moved!InHand = <<>> /\ AppHolds = 0
      BY <2>2 DEF Moved!InHand, AppHolds
    <3> QED BY <3>1 DEF RunsTo
  <2> QED BY <2>1, <2>2
<1>3. /\ s \o Moved!InHand \in Seq(Nat) /\ Len(s \o Moved!InHand) = Len(s) + AppHolds
      /\ RunsTo(s \o Moved!InHand, 0, Taken)
  BY <1>2, Basics, JoinRun
<1>4. /\ s \o Moved!InHand \o tty \in Seq(Nat)
      /\ Len(s \o Moved!InHand \o tty) = Len(s) + AppHolds + Len(tty)
      /\ RunsTo(s \o Moved!InHand \o tty, 0, out)
  BY <1>1, <1>3, JoinRun
<1> QED BY <1>1, <1>4, RunIsCounted

LEMMA AllThere == SInv => Moved!NothingLost
<1> SUFFICES ASSUME SInv, phase = "up", whole PROVE Moved!Everything
  BY DEF Moved!NothingLost
<1>1. Reading /\ shown \in Seq(Nat)
  BY DEF Reading, SInv, StreamTypes
<1>2. Len(shown) + AppHolds = Taken /\ RunsTo(shown, 0, Len(shown))
  BY <1>1 DEF SInv, AllShown
<1>3. Taken - AppHolds = Len(shown)
  BY <1>2, Basics
<1>4. /\ Len(shown \o Moved!InHand \o tty) = Len(shown) + AppHolds + Len(tty)
      /\ shown \o Moved!InHand \o tty = Moved!Counted(out - Len(shown \o Moved!InHand \o tty) + 1, out)
  BY <1>1, <1>2, <1>3, OneRun
<1>5. Taken = out - Len(tty)
  BY DEF Taken
<1>6. Len(shown) + AppHolds + Len(tty) = out
  BY <1>2, <1>5, Basics
<1>7. out - out + 1 = 1
  BY Basics
<1> QED BY <1>4, <1>6, <1>7 DEF Moved!Everything

LEMMA Unbroken == SInv => Moved!TailContiguous
<1> SUFFICES ASSUME SInv, phase = "up" PROVE Moved!TailContiguous
  BY DEF Moved!TailContiguous
<1> DEFINE s == SubSeq(shown, edge + 1, Len(shown))
<1>1. Reading /\ shown \in Seq(Nat) /\ edge \in Nat /\ Len(shown) \in Nat
  BY Basics DEF Reading, SInv, StreamTypes
<1>2. edge <= Len(shown) /\ RunsTo(shown, edge, Taken - AppHolds)
  BY <1>1 DEF SInv, AppReads
<1>3. \A i \in edge + 1 .. Len(shown) : shown[i] \in Nat
  BY <1>1
<1>4. s \in Seq(Nat) /\ RunsTo(s, 0, Taken - AppHolds)
  <2> DEFINE a == edge + 1
             h == Taken - AppHolds
  <2>1. a \in Int /\ a <= Len(shown) + 1 /\ Len(shown) - a + 1 = Len(shown) - edge
    BY <1>1, <1>2
  <2>2. h \in Int
    BY Basics
  <2>3. /\ s \in Seq(Nat) /\ Len(s) = IF a <= Len(shown) THEN Len(shown) - a + 1 ELSE 0
        /\ \A i \in 1 .. Len(shown) - a + 1 : s[i] = shown[a + i - 1]
    BY <1>1, <1>3, <2>1, SubSeqProperties
  <2> HIDE DEF s, h
  <2>4. Len(s) = Len(shown) - edge
    <3>1. CASE edge < Len(shown)
      <4>1. a <= Len(shown)
        BY <1>1, <3>1
      <4> QED BY <2>1, <2>3, <4>1
    <3>2. CASE edge = Len(shown)
      <4>1. ~(a <= Len(shown)) /\ Len(shown) - edge = 0
        BY <1>1, <3>2
      <4> QED BY <2>3, <4>1
    <3> QED BY <1>1, <1>2, <3>1, <3>2
  <2>5. ASSUME NEW i \in 1 .. Len(s) PROVE s[i] = h - Len(s) + i
    <3>1. a + i - 1 = edge + i /\ edge + i \in 1 .. Len(shown) /\ edge + i > edge
      BY <1>1, <1>2, <2>4
    <3>2. s[i] = shown[edge + i]
      BY <2>1, <2>3, <2>4, <3>1
    <3>3. shown[edge + i] = h - Len(shown) + (edge + i)
      BY <1>2, <3>1 DEF RunsTo, h
    <3> QED BY <1>1, <2>2, <2>4, <3>2, <3>3
  <2> QED BY <2>3, <2>5 DEF RunsTo, h
<1> HIDE DEF s
<1>5. s \o Moved!InHand \o tty = Moved!Counted(out - Len(s \o Moved!InHand \o tty) + 1, out)
  BY <1>1, <1>4, OneRun
<1> QED BY <1>5 DEF Moved!TailContiguous, s

LEMMA Alternate == SInv => Moved!OneReader
BY DEF SInv, AppReads, DaemonReads, Reading, Moved!OneReader

-----------------------------------------------------------------------------
(* The composition                                                          *)

LEMMA SinkInvariant == MCSpec => [](part = "sink" => KInv)
<1>1. MCInit => (part = "sink" => KInv)
  BY KInit DEF MCInit
<1>2. (part = "sink" => KInv) /\ [MCNext]_allVars => (part = "sink" => KInv)'
  BY KNext, OneMachineSteps
<1> QED BY <1>1, <1>2, PTL DEF MCSpec

\* However often a page attaches, detaches, reloads or goes, each chunk it sees comes once
\* and in order, one that waits comes after those, and one that does neither fell off the
\* full backlog or went to a page that was gone (OutputSink, output.rs).
THEOREM NoChunkTwice == MCSpec => []ChunksOnce
<1>1. (part = "sink" => KInv) => ChunksOnce
  BY Once DEF ChunksOnce
<1> QED BY <1>1, SinkInvariant, PTL

LEMMA StreamInvariant == InTime => (MCSpec => []SInv)
<1> SUFFICES ASSUME InTime PROVE MCSpec => []SInv
  OBVIOUS
<1>0. Within
  BY InstancesFit DEF Within
<1>1. MCInit => SInv
  BY <1>0, SInit DEF MCInit
<1>2. SInv /\ [MCNext]_allVars => SInv'
  BY <1>0, SNext, OneMachineSteps
<1> QED BY <1>1, <1>2, PTL DEF MCSpec

\* Two readers never share the terminal: the output is not split between them.
\* (handoff_v1.rs and handle_adopt each wait for a reader before the next starts.)
THEOREM NoDoubleReader == InTime => (MCSpec => [](Moved!OneReader))
  BY StreamInvariant, Alternate, PTL

\* Nothing of a terminal nobody opened is lost, repeated or moved, through any
\* number of handoffs, as long as no ring overflowed.
THEOREM UnopenedIsWhole == InTime => (MCSpec => []NothingLost)
<1>1. SInv => NothingLost
  BY AllThere DEF NothingLost
<1> QED BY <1>1, StreamInvariant, PTL

\* After its snapshot an adopted terminal shows one unbroken run that ends with
\* the newest output: a full ring costs the oldest part only.
THEOREM AdoptedTail == InTime => (MCSpec => []TailContiguous)
<1>1. SInv => TailContiguous
  BY Unbroken DEF TailContiguous
<1> QED BY <1>1, StreamInvariant, PTL
=============================================================================
