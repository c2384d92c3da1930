--------------------------- MODULE InjectGate_proofs ---------------------------
(***************************************************************************)
(* Theorems about InjectGate, for every set of sessions and producers and  *)
(* every bound: a gate has one owner; among strict producers no Enter ever *)
(* submits another's body, however gates are replaced; and while the gate  *)
(* is not replaced (MaxGates = 1) what people type keeps its order, every  *)
(* automated Enter follows its own body, and a confirmed send never lands  *)
(* on input that came after the confirmation.                              *)
(***************************************************************************)
EXTENDS InjectGate, Integers, TLAPS, WellFoundedInduction, SequenceTheorems

\* A set of numbers that is not empty has a least element.
LEMMA LeastNat ==
    ASSUME NEW T \in SUBSET Nat, T # {}
    PROVE  \E x \in T : \A y \in T : x <= y
<1> DEFINE R == {ss \in Nat \X Nat : ss[1] < ss[2]}
<1>1. IsWellFoundedOn(R, Nat)
  BY NatLessThanWellFounded DEF OpToRel
<1> HIDE DEF R
<1>2. \E x \in T : \A y \in T : <<y, x>> \notin R
  BY <1>1, WFMin, Zenon
<1>3. PICK x \in T : \A y \in T : <<y, x>> \notin R
  BY <1>2
<1>4. \A y \in T : ~(y < x)
  BY <1>3 DEF R
<1> QED BY <1>4

\* A set with 0 and, of each number, the next has all.
LEMMA FromZero ==
    ASSUME NEW S, 0 \in S, \A n \in Nat : n \in S => n + 1 \in S
    PROVE  Nat \subseteq S
<1> DEFINE T == Nat \ S
<1> SUFFICES ASSUME T # {} PROVE FALSE
  OBVIOUS
<1>1. PICK x \in T : \A y \in T : x <= y
  BY LeastNat
<1>2. x - 1 \in Nat /\ x - 1 \notin T
  BY <1>1
<1> QED BY <1>1, <1>2

-----------------------------------------------------------------------------
Piece     == [by : {"human"}, n : 1 .. MaxTyped] \cup [by : {"body", "cr"}, n : Producers]
Queued    == [sid : Sids \cup {NoSid}, n : 1 .. MaxTyped]
GateType  == [lock : Producers \cup {NoOne}, uncommitted : BOOLEAN, old : BOOLEAN,
              generation : {0, 1}, revision : Nat, held : BOOLEAN, queueing : BOOLEAN,
              queue : Seq(Queued)]
ClaimType == [sid : Sids \cup {NoSid}, gate : Gates, generation : {0}, revision : Nat,
              ok : BOOLEAN, seen : Nat]

StrictSteps == {"idle", "inspect", "dialog", "begun", "owner", "sleep", "unqueue", "release"}
PlainSteps  == {"idle", "locked", "held", "sleep", "release"}
AtGate      == {"owner", "locked", "held", "sleep", "unqueue", "release"}

Typed ==
    /\ cur \in Sids \cup {NoSid} /\ opened \subseteq Sids
    /\ running \in BOOLEAN /\ doomed \in BOOLEAN /\ closing \in BOOLEAN
    /\ running => cur \in Sids
    /\ wire \in [Sids -> Seq(Piece)]
    /\ current \in Gates
    /\ gate \in [Gates -> GateType]
    /\ typed \in 0 .. MaxTyped
    /\ \/ typing = <<>>
       \/ \E g \in Gates, c \in Chunks : typing = <<[gate |-> g, chunk |-> c]>>
    /\ claim \in [Producers -> ClaimType]
    /\ active \in Strict \cup {NoOne}
    /\ cancelled \subseteq Strict

\* A producer is where its kind of submission can be, with a session to write to.
StepsFit ==
    /\ DOMAIN step = Producers
    /\ \A p \in Strict : step[p] \in StrictSteps
    /\ \A p \in Plain : step[p] \in PlainSteps
    /\ \A p \in Producers :
          step[p] \in {"dialog", "begun", "owner", "locked", "held", "sleep", "unqueue"}
              => claim[p].sid \in Sids

\* The async lock of a gate is with the one producer that works at this gate.
OneOwner ==
    /\ \A p \in Producers : step[p] \in AtGate => gate[claim[p].gate].lock = p
    /\ \A i \in Gates : gate[i].lock # NoOne =>
          /\ step[gate[i].lock] \in AtGate
          /\ claim[gate[i].lock].gate = i

\* Human input is queued only while the owner is between body and Enter.
QueueHeld ==
    /\ \A i \in Gates :
          /\ gate[i].queue # <<>> => gate[i].queueing
          /\ gate[i].queueing => gate[i].held
          /\ gate[i].held => gate[i].lock # NoOne /\ step[gate[i].lock] # "locked"
    /\ \A p \in Producers : step[p] \in {"held", "sleep"} => gate[claim[p].gate].queueing

\* A gate has noted at most what was typed, and queued at most what it noted.
Counted ==
    \A i \in Gates :
        /\ gate[i].revision + Len(typing) <= typed
        /\ Len(gate[i].queue) <= gate[i].revision

\* Only a gate that left the map has moved on.
Generations ==
    /\ closing => current + 1 \in Gates
    /\ \A i \in Gates : gate[i].generation = IF i < current THEN 1 ELSE 0

GInv == Typed /\ StepsFit /\ OneOwner /\ QueueHeld /\ Counted /\ Generations

\* No claim is on a gate the agent has not got yet.
ClaimPast == \A p \in Producers : claim[p].gate <= current

\* Among strict producers: who sleeps at the agent's gate wrote the last body.
BodyLast ==
    \A p \in Strict :
        step[p] = "sleep" /\ gate[claim[p].gate].generation = 0 =>
            \E i \in DOMAIN wire[claim[p].sid] :
                /\ wire[claim[p].sid][i] = Body(p)
                /\ \A j \in DOMAIN wire[claim[p].sid] :
                      wire[claim[p].sid][j].by # "human" => j <= i

\* The pieces written to a session, then those queued, are in the order they were
\* typed, and the n-th was the last.
InOrder(w, q, n) ==
    /\ \A s \in Sids : \A i, j \in DOMAIN w[s] :
          /\ w[s][i].by = "human" => w[s][i].n <= n
          /\ i < j /\ w[s][i].by = "human" /\ w[s][j].by = "human"
                 => w[s][i].n < w[s][j].n
    /\ \A i, j \in DOMAIN q :
          /\ q[i].n <= n
          /\ i < j => q[i].n < q[j].n
    /\ \A s \in Sids : \A i \in DOMAIN w[s] : \A j \in DOMAIN q :
          w[s][i].by = "human" => w[s][i].n < q[j].n

\* With one gate: who sleeps wrote the last piece of its session, and a claim
\* says how much input there was.
BodyWritten ==
    \A p \in Producers : step[p] = "sleep" =>
        LET w == wire[claim[p].sid] IN w # <<>> /\ LastOf(w) = Body(p)

SeenCounted ==
    /\ gate[1].revision = Noticed
    /\ \A p \in Strict : claim[p].revision = claim[p].seen

OneGateInv == InOrder(wire, gate[1].queue, Noticed) /\ BodyWritten /\ SeenCounted

-----------------------------------------------------------------------------
(* What a flush writes                                                     *)

\* What the flush of q has written after its i-th piece (InjectGate, Flushed).
FlushStep(q, f, i) ==
    IF i = 0 THEN <<>>
    ELSE IF Accepts(q[i].sid) THEN Append(f[i - 1], Human(q[i].n))
    ELSE f[i - 1]

\* The recursion of Flushed has a solution for a queue of every length.
LEMMA FlushStepsExist ==
    ASSUME NEW q
    PROVE  \A k \in Nat : \E g : g = [i \in 0 .. k |-> FlushStep(q, g, i)]
<1> DEFINE S == {k \in Nat : \E g : g = [i \in 0 .. k |-> FlushStep(q, g, i)]}
<1>1. 0 \in S
  <2> DEFINE h == [i \in 0 .. 0 |-> <<>>]
  <2>1. h = [i \in 0 .. 0 |-> FlushStep(q, h, i)]
    BY DEF FlushStep
  <2> QED BY <2>1
<1>2. ASSUME NEW n \in Nat, n \in S PROVE n + 1 \in S
  <2>1. PICK g : g = [i \in 0 .. n |-> FlushStep(q, g, i)]
    BY <1>2
  <2> DEFINE h == [i \in 0 .. n + 1 |-> IF i <= n THEN g[i] ELSE FlushStep(q, g, i)]
  <2>2. h = [i \in 0 .. n + 1 |-> FlushStep(q, h, i)]
    <3> SUFFICES ASSUME NEW i \in 0 .. n + 1 PROVE h[i] = FlushStep(q, h, i)
      OBVIOUS
    <3>1. CASE i = 0
      BY <2>1, <3>1 DEF FlushStep
    <3>2. CASE i \in 1 .. n
      <4>1. i \in 0 .. n /\ i - 1 \in 0 .. n /\ i # 0
        BY <3>2
      <4>2. h[i] = g[i] /\ h[i - 1] = g[i - 1]
        BY <4>1
      <4>3. g[i] = FlushStep(q, g, i)
        BY <2>1, <4>1
      <4> HIDE DEF h
      <4> QED BY <4>1, <4>2, <4>3 DEF FlushStep
    <3>3. CASE i = n + 1
      <4>1. h[i] = FlushStep(q, g, i) /\ h[i - 1] = g[i - 1] /\ i # 0
        BY <3>3
      <4> HIDE DEF h
      <4> QED BY <4>1 DEF FlushStep
    <3> QED BY <3>1, <3>2, <3>3
  <2> HIDE DEF h
  <2>3. \E e : e = [i \in 0 .. n + 1 |-> FlushStep(q, e, i)]
    BY <2>2, Zenon
  <2> QED BY <2>3
<1> HIDE DEF S
<1>3. Nat \subseteq S
  BY <1>1, <1>2, FromZero
<1> QED BY <1>3 DEF S

Increasing(q) == \A i, j \in DOMAIN q : i < j => q[i].n < q[j].n

\* A flush writes pieces of the queue, in the order of the queue.
LEMMA FlushShape ==
    ASSUME NEW q \in Seq(Queued)
    PROVE  /\ Flushed(q) \in Seq([by : {"human"}, n : 1 .. MaxTyped])
           /\ \A k \in DOMAIN Flushed(q) :
                 \E i \in DOMAIN q : q[i].n = Flushed(q)[k].n
           /\ Increasing(q) => Increasing(Flushed(q))
           /\ q = <<>> => Flushed(q) = <<>>
<1> DEFINE f == CHOOSE g : g = [i \in 0 .. Len(q) |-> FlushStep(q, g, i)]
           P(w, k) == /\ w \in Seq([by : {"human"}, n : 1 .. MaxTyped])
                      /\ \A l \in DOMAIN w : \E i \in 1 .. k : q[i].n = w[l].n
                      /\ Increasing(q) => Increasing(w)
           S == {k \in Nat : k <= Len(q) => P(f[k], k)}
<1>1. Len(q) \in Nat
  OBVIOUS
<1>2. f = [i \in 0 .. Len(q) |-> FlushStep(q, f, i)]
  <2>1. \E g : g = [i \in 0 .. Len(q) |-> FlushStep(q, g, i)]
    BY <1>1, FlushStepsExist
  <2> QED BY <2>1, Zenon
<1>3. Flushed(q) = f[Len(q)]
  BY Zenon DEF Flushed, FlushStep
<1> HIDE DEF f
<1>4. f[0] = <<>>
  BY <1>1, <1>2 DEF FlushStep
<1>5. 0 \in S
  <2>1. P(<<>>, 0)
    BY DEF Increasing
  <2> HIDE DEF P
  <2> QED BY <1>4, <2>1
<1>6. ASSUME NEW n \in Nat, n \in S PROVE n + 1 \in S
  <2> SUFFICES ASSUME n + 1 <= Len(q) PROVE P(f[n + 1], n + 1)
    OBVIOUS
  <2>1. P(f[n], n)
    BY <1>1, <1>6
  <2>2. n + 1 \in 0 .. Len(q) /\ n + 1 \in 1 .. Len(q) /\ n + 1 # 0 /\ n + 1 - 1 = n
    BY <1>1
  <2>3. q[n + 1] \in Queued
    BY <2>2
  <2>4. f[n + 1] = IF Accepts(q[n + 1].sid) THEN Append(f[n], Human(q[n + 1].n)) ELSE f[n]
    <3>1. f[n + 1] = FlushStep(q, f, n + 1)
      BY <1>2, <2>2
    <3> QED BY <2>2, <3>1 DEF FlushStep
  <2>5. CASE Accepts(q[n + 1].sid)
    <3> DEFINE x == Human(q[n + 1].n)
    <3>1. x \in [by : {"human"}, n : 1 .. MaxTyped] /\ x.n = q[n + 1].n
      BY <2>3 DEF Human, Queued
    <3>2. f[n + 1] = Append(f[n], x)
      BY <2>4, <2>5
    <3> HIDE DEF x
    <3>3. /\ f[n + 1] \in Seq([by : {"human"}, n : 1 .. MaxTyped])
          /\ DOMAIN f[n] = 1 .. Len(f[n])
          /\ DOMAIN f[n + 1] = 1 .. Len(f[n]) + 1
          /\ \A l \in 1 .. Len(f[n]) : f[n + 1][l] = f[n][l]
          /\ f[n + 1][Len(f[n]) + 1] = x
      BY <2>1, <3>1, <3>2
    <3>4. \A l \in DOMAIN f[n + 1] : \E i \in 1 .. n + 1 : q[i].n = f[n + 1][l].n
      <4> SUFFICES ASSUME NEW l \in 1 .. Len(f[n]) + 1
                   PROVE  \E i \in 1 .. n + 1 : q[i].n = f[n + 1][l].n
        BY <3>3
      <4>1. CASE l = Len(f[n]) + 1
        BY <2>2, <3>1, <3>3, <4>1
      <4>2. CASE l \in 1 .. Len(f[n])
        <5>1. PICK i \in 1 .. n : q[i].n = f[n][l].n
          BY <2>1, <3>3, <4>2
        <5>2. i \in 1 .. n + 1
          BY <1>6
        <5>3. f[n + 1][l] = f[n][l]
          BY <3>3, <4>2
        <5> QED BY <5>1, <5>2, <5>3
      <4> QED BY <2>1, <4>1, <4>2
    <3>5. ASSUME Increasing(q) PROVE Increasing(f[n + 1])
      <4>1. \A l \in 1 .. Len(f[n]) : f[n][l].n < x.n
        <5> SUFFICES ASSUME NEW l \in 1 .. Len(f[n]) PROVE f[n][l].n < x.n
          OBVIOUS
        <5>1. PICK i \in 1 .. n : q[i].n = f[n][l].n
          BY <2>1, <3>3
        <5>2. i \in DOMAIN q /\ n + 1 \in DOMAIN q /\ i < n + 1
          BY <2>2, <5>1
        <5> QED BY <3>1, <3>5, <5>1, <5>2 DEF Increasing
      <4>2. Increasing(f[n])
        BY <2>1, <3>5
      <4>3. ASSUME NEW i \in 1 .. Len(f[n]) + 1, NEW j \in 1 .. Len(f[n]) + 1, i < j
            PROVE  f[n + 1][i].n < f[n + 1][j].n
        <5>1. i \in 1 .. Len(f[n])
          BY <2>1, <4>3
        <5>2. CASE j = Len(f[n]) + 1
          BY <3>3, <4>1, <5>1, <5>2
        <5>3. CASE j \in 1 .. Len(f[n])
          BY <3>3, <4>2, <4>3, <5>1, <5>3 DEF Increasing
        <5> QED BY <2>1, <5>2, <5>3
      <4> QED BY <3>3, <4>3 DEF Increasing
    <3> QED BY <3>3, <3>4, <3>5
  <2>6. CASE ~Accepts(q[n + 1].sid)
    <3>1. f[n + 1] = f[n]
      BY <2>4, <2>6
    <3>2. 1 .. n \subseteq 1 .. n + 1
      BY <1>6
    <3>3. \A l \in DOMAIN f[n] : \E i \in 1 .. n + 1 : q[i].n = f[n][l].n
      BY <2>1, <3>2
    <3> QED BY <2>1, <3>1, <3>3
  <2> QED BY <2>5, <2>6
<1>7. Nat \subseteq S
  <2> HIDE DEF S
  <2> QED BY <1>5, <1>6, FromZero
<1>8. P(f[Len(q)], Len(q))
  <2> HIDE DEF P
  <2> QED BY <1>1, <1>7
<1>9. DOMAIN q = 1 .. Len(q)
  OBVIOUS
<1>10. q = <<>> => Len(q) = 0
  OBVIOUS
<1> HIDE DEF S
<1> QED BY <1>3, <1>4, <1>8, <1>9, <1>10

\* A flush appends to the agent's session, while it runs, and to no other.
LEMMA FlushToShape ==
    ASSUME Typed, NEW q \in Seq(Queued)
    PROVE  /\ FlushTo(wire, q) \in [Sids -> Seq(Piece)]
           /\ \A s \in Sids :
                 FlushTo(wire, q)[s] = IF running /\ s = cur THEN wire[s] \o Flushed(q)
                                                             ELSE wire[s]
<1>1. Flushed(q) \in Seq(Piece)
  BY FlushShape, SeqMonotonic DEF Piece
<1>2. CASE running
  <2>1. cur \in Sids /\ wire[cur] \in Seq(Piece)
    BY <1>2 DEF Typed
  <2>2. wire[cur] \o Flushed(q) \in Seq(Piece)
    BY <1>1, <2>1, ConcatProperties
  <2> QED BY <1>2, <2>1, <2>2 DEF Typed, FlushTo
<1>3. CASE ~running
  BY <1>3 DEF Typed, FlushTo
<1> QED BY <1>2, <1>3

-----------------------------------------------------------------------------
(* GInv is inductive                                                       *)

\* The gate nobody used yet satisfies the invariant.
LEMMA GInitKeeps == Init => GInv
<1> SUFFICES ASSUME Init PROVE GInv
  OBVIOUS
<1> USE GatesAssumption, NamesAssumption, BoundAssumption DEF Init
<1>1. NewGate \in GateType /\ NoClaim \in ClaimType
  <2>1. <<>> \in Seq(Queued) /\ 1 \in Gates
    BY DEF Gates
  <2> QED BY <2>1 DEF NewGate, GateType, NoClaim, ClaimType, Producers
<1>2. Typed
  <2>1. 1 \in Gates /\ 0 \in 0 .. MaxTyped /\ <<>> \in Seq(Piece)
    BY DEF Gates
  <2>2. wire \in [Sids -> Seq(Piece)] /\ gate \in [Gates -> GateType]
    BY <1>1, <2>1
  <2>3. claim \in [Producers -> ClaimType]
    BY <1>1
  <2> QED BY <2>1, <2>2, <2>3 DEF Typed
<1>3. StepsFit
  BY DEF StepsFit, StrictSteps, PlainSteps, Producers
<1>4. OneOwner /\ QueueHeld /\ Counted /\ Generations
  BY DEF OneOwner, QueueHeld, Counted, Generations, NewGate, AtGate, Gates
<1> QED BY <1>2, <1>3, <1>4 DEF GInv

\* A producer's step moves it, sets its claim and one gate.  If the gate is the
\* one it works at, and gets or loses its lock as the step says, the gates
\* stay in order.
LEMMA MoveKeeps ==
    ASSUME GInv,
           NEW p \in Producers, NEW i \in Gates, NEW l, NEW c \in ClaimType,
           NEW g \in GateType,
           step' = [step EXCEPT ![p] = l],
           claim' = [claim EXCEPT ![p] = c],
           gate' = [gate EXCEPT ![i] = g],
           UNCHANGED <<current, closing, typed, typing>>,
           p \in Strict => l \in StrictSteps,
           p \in Plain => l \in PlainSteps,
           l \in {"dialog", "begun", "owner", "locked", "held", "sleep", "unqueue"} => c.sid \in Sids,
           \/ /\ l \in AtGate /\ c.gate = i /\ g.lock = p /\ gate[i].lock \in {p, NoOne}
              /\ step[p] \in AtGate => claim[p].gate = i
              /\ g.held => l # "locked"
           \/ /\ l \notin AtGate /\ step[p] \in AtGate /\ i = claim[p].gate
              /\ g.lock = NoOne /\ ~g.held
           \/ l \notin AtGate /\ step[p] \notin AtGate /\ g = gate[i],
           g.queue # <<>> => g.queueing,
           g.queueing => g.held,
           l \in {"held", "sleep"} => g.queueing,
           Len(g.queue) <= g.revision,
           g.revision = gate[i].revision,
           g.generation = gate[i].generation
    PROVE  /\ claim' \in [Producers -> ClaimType] /\ gate' \in [Gates -> GateType]
           /\ StepsFit' /\ OneOwner' /\ QueueHeld' /\ Counted' /\ Generations'
<1> USE NamesAssumption, KindsAssumption DEF GInv, Producers
<1>1. /\ gate \in [Gates -> GateType] /\ claim \in [Producers -> ClaimType]
      /\ DOMAIN step = Producers
  BY DEF Typed, StepsFit
<1>2. /\ gate' \in [Gates -> GateType] /\ claim' \in [Producers -> ClaimType]
      /\ DOMAIN step' = Producers
      /\ step'[p] = l /\ claim'[p] = c /\ gate'[i] = g
      /\ \A q \in Producers : q # p => step'[q] = step[q] /\ claim'[q] = claim[q]
      /\ \A j \in Gates : j # i => gate'[j] = gate[j]
  BY <1>1
<1>3. \A h \in GateType : h.lock \in Producers \cup {NoOne}
  BY DEF GateType
<1>4. \A d \in ClaimType : d.gate \in Gates
  BY DEF ClaimType
<1>5. StepsFit'
  BY <1>2 DEF StepsFit
<1>6. OneOwner'
  <2>1. ASSUME NEW q \in Producers, step'[q] \in AtGate
        PROVE  gate'[claim'[q].gate].lock = q
    <3>1. CASE q = p
      BY <1>2, <2>1, <3>1
    <3>2. CASE q # p
      <4>1. claim[q].gate \in Gates /\ gate[claim[q].gate].lock = q
        BY <1>1, <1>2, <1>4, <2>1, <3>2 DEF OneOwner
      <4>2. CASE claim[q].gate = i
        BY <1>2, <2>1, <3>2, <4>1, <4>2 DEF OneOwner
      <4>3. CASE claim[q].gate # i
        BY <1>2, <3>2, <4>1, <4>3
      <4> QED BY <4>2, <4>3
    <3> QED BY <3>1, <3>2
  <2>2. ASSUME NEW j \in Gates, gate'[j].lock # NoOne
        PROVE  step'[gate'[j].lock] \in AtGate /\ claim'[gate'[j].lock].gate = j
    <3>1. CASE j = i /\ g.lock = p
      BY <1>2, <2>2, <3>1 DEF OneOwner
    <3>2. CASE j = i /\ g.lock # p
      BY <1>1, <1>2, <1>3, <2>2, <3>2 DEF OneOwner
    <3>3. CASE j # i
      <4>1. /\ gate[j].lock \in Producers /\ step[gate[j].lock] \in AtGate
            /\ claim[gate[j].lock].gate = j
        BY <1>1, <1>2, <1>3, <2>2, <3>3 DEF OneOwner
      <4> QED BY <1>2, <3>3, <4>1
    <3> QED BY <3>1, <3>2, <3>3
  <2> QED BY <2>1, <2>2 DEF OneOwner
<1>7. QueueHeld'
  <2>1. ASSUME NEW j \in Gates
        PROVE  /\ gate'[j].queue # <<>> => gate'[j].queueing
               /\ gate'[j].queueing => gate'[j].held
               /\ gate'[j].held =>
                     gate'[j].lock # NoOne /\ step'[gate'[j].lock] # "locked"
    <3>1. CASE j = i /\ g # gate[i]
      BY <1>2, <3>1
    <3>2. CASE j # i \/ g = gate[i]
      <4>1. /\ gate'[j] = gate[j]
            /\ gate[j].held => gate[j].lock \in Producers /\ step[gate[j].lock] # "locked"
        BY <1>1, <1>2, <1>3, <3>2 DEF QueueHeld
      <4>2. gate[j].lock = p => step'[p] # "locked" \/ ~gate[j].held
        BY <1>2, <1>6, <3>2, <4>1 DEF OneOwner, AtGate
      <4> QED BY <1>2, <4>1, <4>2 DEF QueueHeld
    <3> QED BY <3>1, <3>2
  <2>2. ASSUME NEW q \in Producers, step'[q] \in {"held", "sleep"}
        PROVE  gate'[claim'[q].gate].queueing
    <3>1. CASE q = p
      BY <1>2, <2>2, <3>1 DEF AtGate
    <3>2. CASE q # p
      <4>1. claim[q].gate \in Gates /\ gate[claim[q].gate].queueing
        BY <1>1, <1>2, <1>4, <2>2, <3>2 DEF QueueHeld
      <4>2. claim[q].gate = i => g = gate[i]
        BY <1>2, <2>2, <3>2 DEF OneOwner, AtGate
      <4> QED BY <1>2, <3>2, <4>1, <4>2
    <3> QED BY <3>1, <3>2
  <2> QED BY <2>1, <2>2 DEF QueueHeld
<1>8. Counted'
  BY <1>2 DEF Counted
<1>9. Generations'
  BY <1>2 DEF Generations
<1> QED BY <1>2, <1>5, <1>6, <1>7, <1>8, <1>9

\* The fields of a gate and of a claim have their types.
LEMMA FieldsTyped ==
    ASSUME GInv
    PROVE  /\ \A i \in Gates :
                 /\ gate[i] \in GateType
                 /\ gate[i].lock \in Producers \cup {NoOne}
                 /\ gate[i].generation \in {0, 1} /\ gate[i].revision \in Nat
                 /\ gate[i].uncommitted \in BOOLEAN /\ gate[i].old \in BOOLEAN
                 /\ gate[i].held \in BOOLEAN /\ gate[i].queueing \in BOOLEAN
                 /\ gate[i].queue \in Seq(Queued)
           /\ \A p \in Producers :
                 /\ claim[p] \in ClaimType
                 /\ claim[p].sid \in Sids \cup {NoSid} /\ claim[p].gate \in Gates
                 /\ claim[p].generation = 0 /\ claim[p].revision \in Nat
                 /\ claim[p].ok \in BOOLEAN /\ claim[p].seen \in Nat
<1>1. gate \in [Gates -> GateType] /\ claim \in [Producers -> ClaimType]
  BY DEF GInv, Typed
<1>2. \A i \in Gates : gate[i] \in GateType
  BY <1>1
<1>3. \A p \in Producers : claim[p] \in ClaimType
  BY <1>1
<1> QED BY <1>2, <1>3 DEF GateType, ClaimType

\* What the steps of a producer make of the gate h.
Claimed(h, p) == [Lock(h, p) EXCEPT !.held = TRUE, !.queueing = FALSE]
Locked(h, p)  == Lock(h, p)
Closed(h)     == [h EXCEPT !.held = TRUE, !.queueing = TRUE]
Taken(h)      == [h EXCEPT !.uncommitted = FALSE, !.old = FALSE,
                           !.held = TRUE, !.queueing = TRUE]
Drained(h)    == [h EXCEPT !.queueing = FALSE, !.queue = <<>>]
Freed(h)      == [Lock(h, NoOne) EXCEPT !.held = FALSE, !.queueing = FALSE,
                                        !.queue = <<>>]

\* They are gates, with the fields they set.
LEMMA GateUpdates ==
    ASSUME NEW h \in GateType, NEW p \in Producers \cup {NoOne}
    PROVE  /\ Locked(h, p) \in GateType
           /\ Closed(h) \in GateType /\ Taken(h) \in GateType
           /\ Drained(h) \in GateType /\ Freed(h) \in GateType
           /\ Locked(h, p).lock = p /\ Locked(h, p).held = h.held
           /\ Locked(h, p).queueing = h.queueing
           /\ Locked(h, p).queue = h.queue /\ Locked(h, p).revision = h.revision
           /\ Locked(h, p).generation = h.generation
           /\ Closed(h).lock = h.lock /\ Closed(h).held /\ Closed(h).queueing
           /\ Closed(h).queue = h.queue /\ Closed(h).revision = h.revision
           /\ Closed(h).generation = h.generation
           /\ Taken(h).lock = h.lock /\ Taken(h).held /\ Taken(h).queueing
           /\ Taken(h).queue = h.queue /\ Taken(h).revision = h.revision
           /\ Taken(h).generation = h.generation
           /\ Drained(h).lock = h.lock /\ Drained(h).held = h.held /\ ~Drained(h).queueing
           /\ Drained(h).queue = <<>> /\ Drained(h).revision = h.revision
           /\ Drained(h).generation = h.generation
           /\ Freed(h).lock = NoOne /\ ~Freed(h).held /\ ~Freed(h).queueing
           /\ Freed(h).queue = <<>> /\ Freed(h).revision = h.revision
           /\ Freed(h).generation = h.generation
<1>1. <<>> \in Seq(Queued)
  OBVIOUS
<1> QED BY <1>1 DEF GateType, Lock, Locked, Closed, Taken, Drained, Freed

\* An owner is at a gate, with a lock that is its own.
LEMMA OwnerAt ==
    ASSUME GInv, NEW p \in Producers
    PROVE  /\ step[p] \in AtGate => gate[claim[p].gate].lock = p
           /\ \A i \in Gates : gate[i].lock = p => step[p] \in AtGate /\ claim[p].gate = i
           /\ \A i \in Gates : gate[i].lock = NoOne => gate[i].queue = <<>> /\ ~gate[i].queueing /\ ~gate[i].held
BY NamesAssumption DEF GInv, OneOwner, QueueHeld, Producers

\* What a person typed so far is counted by a number.
LEMMA NoticedNat == ASSUME GInv PROVE Noticed \in Nat
<1>1. Len(typing) \in {0, 1} /\ typed \in Nat /\ current \in Gates
  BY BoundAssumption DEF GInv, Typed
<1>2. gate[current].revision + Len(typing) <= typed /\ gate[current].revision \in Nat
  BY <1>1, FieldsTyped DEF GInv, Counted
<1> QED BY <1>1, <1>2 DEF Noticed

\* A producer keeps the invariant as it comes to the gate: the send dialog, the
\* follow-up, the claim of the gate, and giving up before it has it.
LEMMA GComeKeeps ==
    ASSUME GInv, NEW p \in Strict,
           \/ InspectRevision(p) \/ InspectSession(p) \/ SendBegin(p)
           \/ FollowUp(p) \/ GiveUp(p)
    PROVE  GInv'
<1> USE NamesAssumption, KindsAssumption, GatesAssumption DEF Producers
<1>0. /\ gate \in [Gates -> GateType] /\ claim \in [Producers -> ClaimType]
      /\ current \in Gates /\ p \in Producers /\ claim[p] \in ClaimType /\ Noticed \in Nat
      /\ gate[current].revision \in Nat /\ gate[current].generation \in {0, 1}
      /\ step[p] \notin AtGate /\ p \notin Plain /\ DOMAIN step = Producers
  BY FieldsTyped, NoticedNat
     DEF GInv, Typed, StepsFit, InspectRevision, InspectSession, SendBegin, FollowUp,
         GiveUp, AtGate
<1>1. \E l \in {"idle", "inspect", "dialog", "begun"}, c \in ClaimType :
         /\ step' = [step EXCEPT ![p] = l]
         /\ claim' = [claim EXCEPT ![p] = c]
         /\ l \in {"dialog", "begun"} => c.sid \in Sids
  <2>1. NoClaim \in ClaimType
    BY DEF NoClaim, ClaimType, Gates
  <2>2. CASE InspectRevision(p)
    <3> DEFINE c == [NoClaim EXCEPT !.revision = gate[current].revision, !.seen = Noticed]
    <3>1. c \in ClaimType
      BY <1>0, <2>1 DEF ClaimType
    <3> QED BY <2>2, <3>1 DEF InspectRevision, GotoAs
  <2>3. CASE InspectSession(p)
    <3> DEFINE c == [claim[p] EXCEPT !.sid = cur]
    <3>1. c \in ClaimType /\ c.sid \in Sids
      BY <1>0, <2>3 DEF ClaimType, InspectSession, GInv, Typed
    <3> QED BY <2>3, <3>1 DEF InspectSession, GotoAs
  <2>4. CASE SendBegin(p)
    <3> DEFINE c == [claim[p] EXCEPT !.generation = gate[current].generation]
    <3>1. c \in ClaimType /\ c.sid \in Sids
      BY <1>0, <2>4 DEF ClaimType, SendBegin, Accepts, GInv, Typed, Generations, Gates
    <3> QED BY <2>4, <3>1 DEF SendBegin, GotoAs
  <2>5. CASE FollowUp(p)
    <3> DEFINE c == [sid |-> cur, gate |-> current,
                     generation |-> gate[current].generation,
                     revision |-> gate[current].revision, ok |-> FALSE,
                     seen |-> Noticed]
    <3>1. c \in ClaimType /\ c.sid \in Sids
      BY <1>0, <2>5 DEF ClaimType, FollowUp, GInv, Typed, Generations, Gates
    <3> QED BY <2>5, <3>1 DEF FollowUp, GotoAs
  <2>6. CASE GiveUp(p)
    BY <2>1, <2>6 DEF GiveUp, GotoAs
  <2> QED BY <2>2, <2>3, <2>4, <2>5, <2>6
<1>2. UNCHANGED <<session, wire, current, gate, typed, typing, closing>>
  BY DEF InspectRevision, InspectSession, SendBegin, FollowUp, GiveUp
<1>3. active' \in Strict \cup {NoOne} /\ cancelled' \subseteq Strict
  BY DEF InspectRevision, InspectSession, SendBegin, FollowUp, GiveUp, Deregister, GInv, Typed
<1>4. PICK l \in {"idle", "inspect", "dialog", "begun"}, c \in ClaimType :
         /\ step' = [step EXCEPT ![p] = l]
         /\ claim' = [claim EXCEPT ![p] = c]
         /\ l \in {"dialog", "begun"} => c.sid \in Sids
  BY <1>1
<1>5. gate' = [gate EXCEPT ![current] = gate[current]] /\ gate[current] \in GateType
  BY <1>0, <1>2
<1>6. /\ gate[current].queue # <<>> => gate[current].queueing
      /\ gate[current].queueing => gate[current].held
      /\ Len(gate[current].queue) <= gate[current].revision
  BY <1>0 DEF GInv, QueueHeld, Counted
<1>7. /\ l \in StrictSteps /\ l \notin AtGate /\ l \notin {"held", "sleep"}
      /\ l \in {"dialog", "begun", "owner", "locked", "held", "sleep", "unqueue"}
            => c.sid \in Sids
  BY <1>4 DEF StrictSteps, AtGate
<1>8. /\ claim' \in [Producers -> ClaimType] /\ gate' \in [Gates -> GateType]
      /\ StepsFit' /\ OneOwner' /\ QueueHeld' /\ Counted' /\ Generations'
  BY <1>0, <1>2, <1>4, <1>5, <1>6, <1>7, MoveKeeps
<1>9. Typed'
  BY <1>2, <1>3, <1>8 DEF Typed, GInv, session
<1> QED BY <1>8, <1>9 DEF GInv

\* A session that gets one more piece has pieces.
LEMMA WireTyped ==
    ASSUME GInv, NEW s \in Sids, NEW x \in Piece
    PROVE  [wire EXCEPT ![s] = Append(@, x)] \in [Sids -> Seq(Piece)]
<1>1. wire \in [Sids -> Seq(Piece)] /\ wire[s] \in Seq(Piece)
  BY DEF GInv, Typed
<1>2. Append(wire[s], x) \in Seq(Piece)
  BY <1>1, AppendProperties
<1> QED BY <1>1, <1>2

\* What a producer's step at its gate finds.
LEMMA GateInOrder ==
    ASSUME GInv, NEW i \in Gates
    PROVE  /\ gate[i] \in GateType
           /\ gate[i].queue \in Seq(Queued)
           /\ gate[i].queue # <<>> => gate[i].queueing
           /\ gate[i].queueing => gate[i].held
           /\ Len(gate[i].queue) <= gate[i].revision
           /\ gate[i].revision \in Nat
BY FieldsTyped DEF GInv, QueueHeld, Counted

\* A step of the producer that owns the gate, short of giving it up.
LEMMA OwnerKeeps ==
    ASSUME GInv, NEW p \in Producers, step[p] \in AtGate,
           NEW l \in AtGate,
           p \in Strict => l \in StrictSteps, p \in Plain => l \in PlainSteps,
           NEW c \in ClaimType, c.gate = claim[p].gate,
           l # "release" => c.sid \in Sids,
           NEW g \in GateType, g.lock = p,
           g.queue # <<>> => g.queueing, g.queueing => g.held,
           g.held => l # "locked", l \in {"held", "sleep"} => g.queueing,
           Len(g.queue) <= g.revision,
           g.revision = gate[claim[p].gate].revision,
           g.generation = gate[claim[p].gate].generation,
           step' = [step EXCEPT ![p] = l], claim' = [claim EXCEPT ![p] = c],
           gate' = [gate EXCEPT ![claim[p].gate] = g],
           wire' \in [Sids -> Seq(Piece)],
           UNCHANGED <<session, current, typed, typing, active, cancelled, closing>>
    PROVE  GInv'
<1>1. gate[claim[p].gate].lock = p /\ claim[p].gate \in Gates
  BY OwnerAt, FieldsTyped
<1>2. /\ claim' \in [Producers -> ClaimType] /\ gate' \in [Gates -> GateType]
      /\ StepsFit' /\ OneOwner' /\ QueueHeld' /\ Counted' /\ Generations'
  BY <1>1, MoveKeeps DEF AtGate
<1>3. Typed'
  BY <1>2 DEF Typed, GInv, session
<1> QED BY <1>2, <1>3 DEF GInv

\* try_acquire_transition_owner keeps the invariant.
LEMMA GAcquireKeeps == ASSUME GInv, NEW p \in Strict, Acquire(p) PROVE GInv'
<1> DEFINE g == Claimed(gate[current], p)
           c == [claim[p] EXCEPT !.gate = current]
<1>0. /\ p \in Producers /\ p \notin Plain /\ current \in Gates /\ claim[p] \in ClaimType
      /\ gate[current] \in GateType /\ p \in Producers \cup {NoOne}
      /\ gate \in [Gates -> GateType]
  BY FieldsTyped, KindsAssumption DEF GInv, Typed, Producers
<1>1. /\ g \in GateType /\ g.lock = p /\ ~g.queueing /\ g.held
      /\ g.queue = gate[current].queue /\ g.revision = gate[current].revision
      /\ g.generation = gate[current].generation
  <2>1. ASSUME NEW h \in GateType
        PROVE  /\ Claimed(h, p) \in GateType /\ Claimed(h, p).lock = p
               /\ ~Claimed(h, p).queueing /\ Claimed(h, p).held
               /\ Claimed(h, p).queue = h.queue /\ Claimed(h, p).revision = h.revision
               /\ Claimed(h, p).generation = h.generation
    BY <1>0 DEF Claimed, Lock, GateType
  <2> QED BY <1>0, <2>1
<1>2. c \in ClaimType /\ c.gate = current /\ c.sid \in Sids
  BY <1>0 DEF ClaimType, Acquire, GInv, StepsFit
<1>3. gate[current].lock = NoOne /\ gate[current].queue = <<>> /\ step[p] \notin AtGate
  BY <1>0, OwnerAt DEF Acquire, AtGate
<1>4. /\ step' = [step EXCEPT ![p] = "owner"] /\ claim' = [claim EXCEPT ![p] = c]
      /\ gate' = [gate EXCEPT ![current] = g]
      /\ UNCHANGED <<session, wire, current, typed, typing, active, cancelled, closing>>
  BY <1>0 DEF Acquire, GotoAs, Claimed
<1>5. Len(g.queue) <= g.revision
  BY <1>0, <1>1, GateInOrder
<1> HIDE DEF g, c
<1>6. /\ claim' \in [Producers -> ClaimType] /\ gate' \in [Gates -> GateType]
      /\ StepsFit' /\ OneOwner' /\ QueueHeld' /\ Counted' /\ Generations'
  BY <1>0, <1>1, <1>2, <1>3, <1>4, <1>5, MoveKeeps DEF StrictSteps, AtGate
<1>7. Typed'
  BY <1>4, <1>6 DEF Typed, GInv, session
<1> QED BY <1>6, <1>7 DEF GInv

\* submit_strict and its guard keep the invariant.
LEMMA GStrictKeeps ==
    ASSUME GInv, NEW p \in Strict, StrictBody(p) \/ StrictCr(p) \/ Unqueue(p)
    PROVE  GInv'
<1> DEFINE i == claim[p].gate
           s == claim[p].sid
<1>0. /\ gate \in [Gates -> GateType] /\ claim \in [Producers -> ClaimType]
      /\ wire \in [Sids -> Seq(Piece)]
      /\ p \in Producers /\ p \notin Plain /\ claim[p] \in ClaimType /\ i \in Gates
      /\ Body(p) \in Piece /\ Cr(p) \in Piece
      /\ claim[p].ok \in BOOLEAN
  BY FieldsTyped, KindsAssumption DEF GInv, Typed, Piece, Body, Cr, Producers
<1>1. s \in Sids /\ step[p] \in AtGate /\ gate[i].lock = p
  BY <1>0, OwnerAt DEF StrictBody, StrictCr, Unqueue, GInv, StepsFit, AtGate
<1>2. /\ gate[i] \in GateType /\ gate[i].queue \in Seq(Queued)
      /\ gate[i].queue # <<>> => gate[i].queueing
      /\ gate[i].queueing => gate[i].held
      /\ Len(gate[i].queue) <= gate[i].revision /\ gate[i].revision \in Nat
  BY <1>0, GateInOrder
<1>3. \A b \in BOOLEAN : LET c == [claim[p] EXCEPT !.ok = b]
                         IN c \in ClaimType /\ c.gate = i /\ c.sid \in Sids
  BY <1>0, <1>1 DEF ClaimType
<1>4. CASE StrictBody(p) /\ Valid(p) /\ ~gate[i].uncommitted
  <2>1. /\ Closed(gate[i]) \in GateType /\ Closed(gate[i]).lock = p
        /\ Closed(gate[i]).queueing /\ Closed(gate[i]).held
        /\ Closed(gate[i]).queue = gate[i].queue
        /\ Closed(gate[i]).revision = gate[i].revision
        /\ Closed(gate[i]).generation = gate[i].generation
    BY <1>0, <1>1, <1>2, GateUpdates
  <2>2. /\ gate' = [gate EXCEPT ![i] = Closed(gate[i])]
        /\ wire' = [wire EXCEPT ![s] = Append(@, Body(p))]
        /\ step' = [step EXCEPT ![p] = "sleep"]
        /\ claim' = [claim EXCEPT ![p] = claim[p]]
        /\ UNCHANGED <<session, current, typed, typing, active, cancelled, closing>>
    BY <1>0, <1>4 DEF StrictBody, Goto, Closed
  <2>3. wire' \in [Sids -> Seq(Piece)]
    BY <1>0, <1>1, <2>2, WireTyped
  <2> QED BY <1>0, <1>1, <1>2, <2>1, <2>2, <2>3, OwnerKeeps DEF StrictSteps, AtGate
<1>5. CASE StrictBody(p) /\ ~(Valid(p) /\ ~gate[i].uncommitted)
  <2> DEFINE c == [claim[p] EXCEPT !.ok = FALSE]
  <2>1. /\ step' = [step EXCEPT ![p] = "unqueue"] /\ claim' = [claim EXCEPT ![p] = c]
        /\ gate' = [gate EXCEPT ![i] = gate[i]] /\ wire' = wire
        /\ UNCHANGED <<session, current, typed, typing, active, cancelled, closing>>
    BY <1>0, <1>5 DEF StrictBody, GotoAs
  <2>2. c \in ClaimType /\ c.gate = i /\ c.sid \in Sids
    BY <1>3
  <2> HIDE DEF c
  <2> QED BY <1>0, <1>1, <1>2, <2>1, <2>2, OwnerKeeps DEF StrictSteps, AtGate
<1>6. CASE StrictCr(p)
  <2> DEFINE c == [claim[p] EXCEPT !.ok = Valid(p)]
  <2>1. /\ step' = [step EXCEPT ![p] = "unqueue"] /\ claim' = [claim EXCEPT ![p] = c]
        /\ gate' = [gate EXCEPT ![i] = gate[i]]
        /\ wire' = IF Valid(p) THEN [wire EXCEPT ![s] = Append(@, Cr(p))] ELSE wire
        /\ UNCHANGED <<session, current, typed, typing, active, cancelled, closing>>
    BY <1>0, <1>6 DEF StrictCr, GotoAs
  <2>2. c \in ClaimType /\ c.gate = i /\ c.sid \in Sids
    <3>1. Valid(p) \in BOOLEAN
      BY DEF Valid
    <3> QED BY <1>3, <3>1
  <2>3. wire' \in [Sids -> Seq(Piece)]
    BY <1>0, <1>1, <2>1, WireTyped
  <2> HIDE DEF c
  <2> QED BY <1>0, <1>1, <1>2, <2>1, <2>2, <2>3, OwnerKeeps DEF StrictSteps, AtGate
<1>7. CASE Unqueue(p)
  <2> DEFINE l == IF claim[p].ok THEN "owner" ELSE "release"
  <2>1. /\ Drained(gate[i]) \in GateType /\ Drained(gate[i]).lock = p
        /\ ~Drained(gate[i]).queueing /\ Drained(gate[i]).queue = <<>>
        /\ Drained(gate[i]).revision = gate[i].revision
        /\ Drained(gate[i]).generation = gate[i].generation
    BY <1>0, <1>1, <1>2, GateUpdates
  <2>2. /\ gate' = [gate EXCEPT ![i] = Drained(gate[i])]
        /\ wire' = FlushTo(wire, gate[i].queue)
        /\ step' = [step EXCEPT ![p] = l]
        /\ claim' = [claim EXCEPT ![p] = claim[p]]
        /\ UNCHANGED <<session, current, typed, typing, active, cancelled, closing>>
    BY <1>0, <1>7 DEF Unqueue, Goto, Drained
  <2>3. wire' \in [Sids -> Seq(Piece)]
    BY <1>2, <2>2, FlushToShape DEF GInv
  <2>4. Len(Drained(gate[i]).queue) <= Drained(gate[i]).revision
    BY <1>2, <2>1
  <2>5. l \in {"owner", "release"}
    OBVIOUS
  <2> HIDE DEF l
  <2> QED BY <1>0, <1>1, <1>2, <2>1, <2>2, <2>3, <2>4, <2>5, OwnerKeeps DEF StrictSteps, AtGate
<1> QED BY <1>4, <1>5, <1>6, <1>7

\* submit keeps the invariant.
LEMMA GPlainKeeps ==
    ASSUME GInv, NEW p \in Plain,
           PlainLock(p) \/ PlainHold(p) \/ PlainBody(p) \/ PlainCr(p)
    PROVE  GInv'
<1> DEFINE i == claim[p].gate
           s == claim[p].sid
<1>0. /\ gate \in [Gates -> GateType] /\ claim \in [Producers -> ClaimType]
      /\ wire \in [Sids -> Seq(Piece)] /\ current \in Gates
      /\ p \in Producers /\ p \notin Strict /\ claim[p] \in ClaimType /\ i \in Gates
      /\ Body(p) \in Piece /\ Cr(p) \in Piece
      /\ NoClaim \in ClaimType
  BY FieldsTyped, KindsAssumption, GatesAssumption
     DEF GInv, Typed, Piece, Body, Cr, Producers, NoClaim, ClaimType, Gates
<1>1. \A j \in Gates :
         /\ gate[j] \in GateType
         /\ gate[j].queue # <<>> => gate[j].queueing
         /\ gate[j].queueing => gate[j].held
         /\ Len(gate[j].queue) <= gate[j].revision
  BY GateInOrder
<1>2. CASE PlainLock(p)
  <2> DEFINE c == [NoClaim EXCEPT !.sid = cur, !.gate = current]
  <2>1. c \in ClaimType /\ c.gate = current /\ c.sid \in Sids
    BY <1>0, <1>2 DEF PlainLock, GInv, Typed, NoClaim, ClaimType
  <2>2. /\ gate[current].lock = NoOne /\ ~gate[current].held /\ gate[current].queue = <<>>
        /\ step[p] \notin AtGate
    BY <1>0, <1>2, OwnerAt DEF PlainLock, AtGate
  <2>3. ASSUME NEW h \in GateType
        PROVE  /\ Locked(h, p) \in GateType /\ Locked(h, p).lock = p
               /\ Locked(h, p).held = h.held /\ Locked(h, p).queueing = h.queueing
               /\ Locked(h, p).queue = h.queue /\ Locked(h, p).revision = h.revision
               /\ Locked(h, p).generation = h.generation
    BY <1>0 DEF Locked, Lock, GateType
  <2>4. /\ step' = [step EXCEPT ![p] = "locked"] /\ claim' = [claim EXCEPT ![p] = c]
        /\ gate' = [gate EXCEPT ![current] = Locked(gate[current], p)]
        /\ UNCHANGED <<session, wire, current, typed, typing, active, cancelled, closing>>
    BY <1>0, <1>2 DEF PlainLock, GotoAs, Locked
  <2> HIDE DEF c
  <2> DEFINE g == Locked(gate[current], p)
  <2>5. /\ g \in GateType /\ g.lock = p /\ ~g.held /\ g.queue = <<>>
        /\ g.queueing = gate[current].queueing
        /\ g.revision = gate[current].revision /\ g.generation = gate[current].generation
        /\ Len(g.queue) <= g.revision
    BY <1>0, <1>1, <2>2, <2>3
  <2>6. ~g.queueing
    BY <1>0, <1>1, <2>2, <2>5
  <2>7. gate' = [gate EXCEPT ![current] = g]
    BY <2>4
  <2> HIDE DEF g
  <2>8. /\ claim' \in [Producers -> ClaimType] /\ gate' \in [Gates -> GateType]
        /\ StepsFit' /\ OneOwner' /\ QueueHeld' /\ Counted' /\ Generations'
    BY <1>0, <2>1, <2>2, <2>4, <2>5, <2>6, <2>7, MoveKeeps DEF PlainSteps, AtGate
  <2>9. Typed'
    BY <2>4, <2>8 DEF Typed, GInv, session
  <2> QED BY <2>8, <2>9 DEF GInv
<1>3. CASE PlainHold(p) /\ gate[i].uncommitted /\ ~gate[i].old
  <2>1. step[p] = "locked" /\ step[p] \in AtGate /\ gate[i].lock = p
    BY <1>0, <1>3, OwnerAt DEF PlainHold, AtGate
  <2>2. ~gate[i].held
    BY <1>0, <2>1 DEF GInv, QueueHeld
  <2>3. ASSUME NEW h \in GateType
        PROVE  /\ Locked(h, NoOne) \in GateType /\ Locked(h, NoOne).lock = NoOne
               /\ Locked(h, NoOne).held = h.held /\ Locked(h, NoOne).queueing = h.queueing
               /\ Locked(h, NoOne).queue = h.queue
               /\ Locked(h, NoOne).revision = h.revision
               /\ Locked(h, NoOne).generation = h.generation
    BY DEF Locked, Lock, GateType
  <2>4. /\ step' = [step EXCEPT ![p] = "idle"] /\ claim' = [claim EXCEPT ![p] = NoClaim]
        /\ gate' = [gate EXCEPT ![i] = Locked(gate[i], NoOne)]
        /\ UNCHANGED <<session, wire, current, typed, typing, active, cancelled, closing>>
    BY <1>0, <1>3 DEF PlainHold, GotoAs, Locked
  <2> DEFINE g == Locked(gate[i], NoOne)
  <2>5. /\ g \in GateType /\ g.lock = NoOne /\ g.held = gate[i].held
        /\ g.queue = gate[i].queue
        /\ g.queueing = gate[i].queueing
        /\ g.revision = gate[i].revision /\ g.generation = gate[i].generation
    BY <1>0, <1>1, <2>3
  <2>6. /\ ~g.held /\ ~g.queueing /\ g.queue = <<>> /\ Len(g.queue) <= g.revision
    BY <1>0, <1>1, <2>2, <2>5
  <2>7. gate' = [gate EXCEPT ![i] = g]
    BY <2>4
  <2> HIDE DEF g
  <2>8. /\ claim' \in [Producers -> ClaimType] /\ gate' \in [Gates -> GateType]
        /\ StepsFit' /\ OneOwner' /\ QueueHeld' /\ Counted' /\ Generations'
    BY <1>0, <2>1, <2>4, <2>5, <2>6, <2>7, MoveKeeps DEF PlainSteps, AtGate
  <2>9. Typed'
    BY <2>4, <2>8 DEF Typed, GInv, session
  <2> QED BY <2>8, <2>9 DEF GInv
<1>4. CASE PlainHold(p) /\ ~(gate[i].uncommitted /\ ~gate[i].old)
  <2>1. step[p] = "locked" /\ step[p] \in AtGate /\ gate[i].lock = p /\ s \in Sids
    BY <1>0, <1>4, OwnerAt DEF PlainHold, AtGate, GInv, StepsFit
  <2>2. /\ Taken(gate[i]) \in GateType /\ Taken(gate[i]).lock = p
        /\ Taken(gate[i]).queueing /\ Taken(gate[i]).held
        /\ Taken(gate[i]).queue = gate[i].queue
        /\ Taken(gate[i]).revision = gate[i].revision
        /\ Taken(gate[i]).generation = gate[i].generation
    BY <1>0, <1>1, <2>1, GateUpdates
  <2>3. /\ gate' = [gate EXCEPT ![i] = Taken(gate[i])]
        /\ step' = [step EXCEPT ![p] = "held"]
        /\ claim' = [claim EXCEPT ![p] = claim[p]]
        /\ UNCHANGED <<session, wire, current, typed, typing, active, cancelled, closing>>
    BY <1>0, <1>4 DEF PlainHold, Goto, Taken
  <2> QED BY <1>0, <1>1, <2>1, <2>2, <2>3, OwnerKeeps DEF PlainSteps, AtGate
<1>5. CASE PlainBody(p) \/ PlainCr(p)
  <2>1. step[p] \in {"held", "sleep"} /\ step[p] \in AtGate /\ gate[i].lock = p /\ s \in Sids
    BY <1>0, <1>5, OwnerAt DEF PlainBody, PlainCr, AtGate, GInv, StepsFit
  <2>2. gate[i].queueing
    BY <1>0, <2>1 DEF GInv, QueueHeld
  <2>3. PICK l \in {"sleep", "release"} :
           /\ step' = [step EXCEPT ![p] = l]
           /\ claim' = [claim EXCEPT ![p] = claim[p]]
           /\ gate' = [gate EXCEPT ![i] = gate[i]]
           /\ UNCHANGED <<session, current, typed, typing, active, cancelled, closing>>
    BY <1>0, <1>5 DEF PlainBody, PlainCr, Goto
  <2>4. wire' \in [Sids -> Seq(Piece)]
    <3>1. \A x \in {Body(p), Cr(p)} : [wire EXCEPT ![s] = Append(@, x)] \in [Sids -> Seq(Piece)]
      BY <1>0, <2>1, WireTyped
    <3> QED BY <1>0, <1>5, <3>1 DEF PlainBody, PlainCr
  <2>5. l \in AtGate /\ l \in PlainSteps /\ l # "locked"
    BY <2>3 DEF PlainSteps, AtGate
  <2>6. /\ gate[i] \in GateType /\ Len(gate[i].queue) <= gate[i].revision
        /\ gate[i].queue # <<>> => gate[i].queueing
        /\ gate[i].queueing => gate[i].held
    BY <1>0, <1>1
  <2> QED BY <1>0, <2>1, <2>2, <2>3, <2>4, <2>5, <2>6, OwnerKeeps
<1> QED BY <1>2, <1>3, <1>4, <1>5

\* The end of a submission, by its guards or before its time, keeps the invariant.
LEMMA GLeaveKeeps ==
    ASSUME GInv, NEW p \in Producers, Abandon(p) \/ Release(p)
    PROVE  GInv'
<1> DEFINE i == claim[p].gate
<1>0. /\ gate \in [Gates -> GateType] /\ claim \in [Producers -> ClaimType]
      /\ wire \in [Sids -> Seq(Piece)] /\ step[p] \in AtGate
      /\ claim[p] \in ClaimType /\ i \in Gates /\ NoClaim \in ClaimType
      /\ gate[i] \in GateType /\ gate[i].queue \in Seq(Queued)
  BY FieldsTyped, GatesAssumption
     DEF GInv, Typed, NoClaim, ClaimType, Gates, Abandon, Release, AtGate
<1>1. /\ gate[i].queue # <<>> => gate[i].queueing
      /\ gate[i].queueing => gate[i].held
      /\ Len(gate[i].queue) <= gate[i].revision
      /\ gate[i].lock = p
  BY <1>0, GateInOrder, OwnerAt
<1>2. CASE Abandon(p)
  <2>1. claim[p].sid \in Sids
    BY <1>2 DEF Abandon, GInv, StepsFit
  <2>2. \E l \in {"unqueue", "release"}, b \in {claim[p].ok, FALSE} :
           /\ p \in Plain => l = "release"
           /\ step' = [step EXCEPT ![p] = l]
           /\ claim' = [claim EXCEPT ![p] = [claim[p] EXCEPT !.ok = b]]
           /\ gate' = [gate EXCEPT ![i] = gate[i]] /\ wire' = wire
           /\ UNCHANGED <<session, current, typed, typing, active, cancelled, closing>>
    <3>1. [claim[p] EXCEPT !.ok = claim[p].ok] = claim[p]
      BY <1>0 DEF ClaimType
    <3> QED BY <1>0, <1>2, <3>1, KindsAssumption DEF Abandon, Goto, GotoAs, GInv, StepsFit, PlainSteps
  <2>3. PICK l \in {"unqueue", "release"}, b \in {claim[p].ok, FALSE} :
           /\ p \in Plain => l = "release"
           /\ step' = [step EXCEPT ![p] = l]
           /\ claim' = [claim EXCEPT ![p] = [claim[p] EXCEPT !.ok = b]]
           /\ gate' = [gate EXCEPT ![i] = gate[i]] /\ wire' = wire
           /\ UNCHANGED <<session, current, typed, typing, active, cancelled, closing>>
    BY <2>2
  <2> DEFINE c == [claim[p] EXCEPT !.ok = b]
  <2>4. c \in ClaimType /\ c.gate = i /\ c.sid \in Sids
    BY <1>0, <2>1, <2>3 DEF ClaimType
  <2>5. claim' = [claim EXCEPT ![p] = c]
    BY <2>3
  <2>6. /\ l \in AtGate /\ l # "locked" /\ l \notin {"held", "sleep"}
        /\ p \in Strict => l \in StrictSteps
        /\ p \in Plain => l \in PlainSteps
    BY <2>3 DEF StrictSteps, PlainSteps, AtGate
  <2>7. wire' \in [Sids -> Seq(Piece)]
    BY <1>0, <2>3
  <2> HIDE DEF c
  <2> QED BY <1>0, <1>1, <2>3, <2>4, <2>5, <2>6, <2>7, OwnerKeeps
<1>3. CASE Release(p)
  <2> DEFINE g == Freed(gate[i])
  <2>1. /\ g \in GateType /\ g.lock = NoOne /\ ~g.held /\ ~g.queueing /\ g.queue = <<>>
        /\ g.revision = gate[i].revision /\ g.generation = gate[i].generation
        /\ g.revision \in Nat
    <3>1. \A h \in GateType :
             /\ Freed(h) \in GateType /\ Freed(h).lock = NoOne /\ ~Freed(h).held
             /\ ~Freed(h).queueing /\ Freed(h).queue = <<>>
             /\ Freed(h).revision = h.revision /\ Freed(h).generation = h.generation
             /\ Freed(h).revision \in Nat
      <4>1. <<>> \in Seq(Queued)
        OBVIOUS
      <4> QED BY <4>1 DEF Freed, Lock, GateType
    <3> QED BY <1>0, <3>1
  <2>2. /\ step' = [step EXCEPT ![p] = "idle"] /\ claim' = [claim EXCEPT ![p] = NoClaim]
        /\ gate' = [gate EXCEPT ![i] = g]
        /\ wire' = FlushTo(wire, gate[i].queue)
        /\ UNCHANGED <<session, current, typed, typing, closing>>
    BY <1>0, <1>3 DEF Release, GotoAs, Freed
  <2>3. Len(g.queue) <= g.revision
    BY <2>1
  <2> HIDE DEF g
  <2>4. /\ claim' \in [Producers -> ClaimType] /\ gate' \in [Gates -> GateType]
        /\ StepsFit' /\ OneOwner' /\ QueueHeld' /\ Counted' /\ Generations'
    BY <1>0, <1>1, <2>1, <2>2, <2>3, MoveKeeps DEF StrictSteps, PlainSteps, AtGate
  <2>5. wire' \in [Sids -> Seq(Piece)]
    BY <1>0, <2>2, FlushToShape DEF GInv
  <2>6. active' \in Strict \cup {NoOne} /\ cancelled' \subseteq Strict
    BY <1>3 DEF Release, Deregister, GInv, Typed
  <2>7. Typed'
    BY <2>2, <2>4, <2>5, <2>6 DEF Typed, GInv, session
  <2> QED BY <2>4, <2>7 DEF GInv
<1> QED BY <1>2, <1>3

\* Steps that leave the gates and the producers alone keep the invariant.
LEMMA GOutsideKeeps ==
    ASSUME GInv,
           \/ \E s \in Sids : SessionStart(s)
           \/ SessionExit
           \/ \E c \in Chunks : TypeBegin(c)
           \/ Dispose
           \/ UNCHANGED vars
    PROVE  GInv'
<1> USE NamesAssumption, BoundAssumption DEF GInv
<1>1. UNCHANGED <<wire, current, gate, step, claim>>
  BY DEF SessionStart, SessionExit, TypeBegin, Dispose, vars, session
<1>2. CASE \E s \in Sids : SessionStart(s)
  <2>1. UNCHANGED <<typed, typing, active, cancelled, closing>>
    BY <1>2 DEF SessionStart
  <2>2. Typed'
    BY <1>1, <1>2, <2>1 DEF Typed, SessionStart
  <2>3. StepsFit' /\ OneOwner' /\ QueueHeld' /\ Counted' /\ Generations'
    BY <1>1, <2>1 DEF StepsFit, OneOwner, QueueHeld, Counted, Generations
  <2> QED BY <2>2, <2>3
<1>3. CASE SessionExit
  <2>1. UNCHANGED <<opened, typed, typing, active, cancelled, closing>>
    BY <1>3 DEF SessionExit
  <2>2. Typed'
    BY <1>1, <1>3, <2>1 DEF Typed, SessionExit
  <2>3. StepsFit' /\ OneOwner' /\ QueueHeld' /\ Counted' /\ Generations'
    BY <1>1, <2>1 DEF StepsFit, OneOwner, QueueHeld, Counted, Generations
  <2> QED BY <2>2, <2>3
<1>4. CASE \E c \in Chunks : TypeBegin(c)
  <2>1. UNCHANGED <<session, active, cancelled, closing>>
    BY <1>4 DEF TypeBegin
  <2>2. PICK c \in Chunks : TypeBegin(c)
    BY <1>4
  <2>3. /\ typing = <<>> /\ typing' = <<[gate |-> current, chunk |-> c]>>
        /\ typed' = typed + 1 /\ typed' \in 0 .. MaxTyped
        /\ Len(typing) = 0 /\ Len(typing') = 1
    BY <2>2 DEF TypeBegin, Typed
  <2>4. Typed'
    BY <1>1, <2>1, <2>3 DEF Typed, session
  <2>5. Counted'
    <3> SUFFICES ASSUME NEW i \in Gates
                 PROVE  gate[i].revision + 1 <= typed + 1 /\ Len(gate[i].queue) <= gate[i].revision
      BY <1>1, <2>3 DEF Counted
    <3> QED BY <2>3, GateInOrder DEF Counted, Typed
  <2>6. StepsFit' /\ OneOwner' /\ QueueHeld' /\ Generations'
    BY <1>1, <2>1 DEF StepsFit, OneOwner, QueueHeld, Generations
  <2> QED BY <2>4, <2>5, <2>6
<1>5. CASE Dispose
  <2>1. UNCHANGED <<cur, opened, running, typed, typing>>
    BY <1>5 DEF Dispose
  <2>2. Typed'
    BY <1>1, <1>5, <2>1 DEF Typed, Dispose, Stop
  <2>3. StepsFit' /\ OneOwner' /\ QueueHeld' /\ Counted' /\ Generations'
    BY <1>1, <1>5, <2>1 DEF StepsFit, OneOwner, QueueHeld, Counted, Generations, Dispose
  <2> QED BY <2>2, <2>3
<1>6. CASE UNCHANGED vars
  BY <1>6 DEF vars, Typed, StepsFit, OneOwner, QueueHeld, Counted, Generations
<1> QED BY <1>2, <1>3, <1>4, <1>5, <1>6

\* Noting a chunk leaves the gate's lock and queue alone.
LEMMA NotedTyped ==
    ASSUME NEW k \in GateType, NEW c \in Chunks
    PROVE  /\ Noted(k, c) \in GateType /\ Noted(k, c).lock = k.lock
           /\ Noted(k, c).held = k.held /\ Noted(k, c).queueing = k.queueing
           /\ Noted(k, c).queue = k.queue
           /\ Noted(k, c).revision = k.revision + 1
           /\ Noted(k, c).generation = k.generation
<1> DEFINE u == c # "close"
           o == k.old /\ c = "open"
           n == k.revision + 1
           m == [k EXCEPT !.uncommitted = u, !.old = o, !.revision = n]
<1>1. u \in BOOLEAN /\ o \in BOOLEAN
  BY Zenon
<1>2. n \in Nat
  BY DEF GateType
<1>3. Noted(k, c) = m
  BY Zenon DEF Noted
<1> HIDE DEF u, o, n
<1>4. /\ m \in GateType /\ m.lock = k.lock /\ m.held = k.held
      /\ m.queueing = k.queueing /\ m.queue = k.queue
      /\ m.revision = n /\ m.generation = k.generation
  BY <1>1, <1>2 DEF GateType
<1> HIDE DEF m
<1> QED BY <1>3, <1>4 DEF n

\* A person's chunk arrives at the gate its caller fetched, and the invariant stays.
LEMMA GTypeEndKeeps == ASSUME GInv, TypeEnd PROVE GInv'
<1> USE NamesAssumption, BoundAssumption
<1>1. PICK i \in Gates, c \in Chunks : typing = <<[gate |-> i, chunk |-> c]>>
  BY DEF GInv, Typed, TypeEnd
<1> DEFINE g == Noted(gate[i], c)
           x == [sid |-> cur, n |-> typed]
           h == [g EXCEPT !.queue = Append(@, x)]
<1>2. typing[1].gate = i /\ typing[1].chunk = c /\ Len(typing) = 1 /\ Len(typing') = 0
  BY <1>1 DEF TypeEnd
<1>3. /\ gate \in [Gates -> GateType] /\ gate[i] \in GateType
      /\ gate[i].queue \in Seq(Queued) /\ gate[i].revision \in Nat
      /\ gate[i].revision + 1 <= typed /\ Len(gate[i].queue) <= gate[i].revision
      /\ typed \in 1 .. MaxTyped
  BY <1>2, GateInOrder DEF GInv, Counted, Typed
<1>4. x \in Queued /\ Human(typed) \in Piece
  BY <1>3 DEF Queued, GInv, Typed, Piece, Human
<1>5. /\ g \in GateType /\ g.lock = gate[i].lock /\ g.held = gate[i].held
      /\ g.queueing = gate[i].queueing /\ g.queue = gate[i].queue
      /\ g.revision = gate[i].revision + 1 /\ g.generation = gate[i].generation
  <2> QED BY <1>3, NotedTyped
<1>6. /\ h \in GateType /\ h.lock = g.lock /\ h.held = g.held
      /\ h.queueing = g.queueing /\ h.queue = Append(g.queue, x)
      /\ h.revision = g.revision /\ h.generation = g.generation
  <2>1. \A k \in GateType : \A q \in Seq(Queued) :
           LET m == [k EXCEPT !.queue = q]
           IN  /\ m \in GateType /\ m.lock = k.lock /\ m.held = k.held
               /\ m.queueing = k.queueing /\ m.queue = q
               /\ m.revision = k.revision /\ m.generation = k.generation
    BY DEF GateType
  <2>2. Append(g.queue, x) \in Seq(Queued)
    BY <1>3, <1>4, <1>5, AppendProperties
  <2> HIDE DEF g, x
  <2> QED BY <1>5, <2>1, <2>2
<1>7. \E k \in GateType :
         /\ gate' = [gate EXCEPT ![i] = k]
         /\ k.lock = gate[i].lock /\ k.held = gate[i].held
         /\ k.queueing = gate[i].queueing /\ k.generation = gate[i].generation
         /\ k.revision = gate[i].revision + 1
         /\ Len(k.queue) <= k.revision
         /\ k.queue # <<>> => k.queueing
  <2>1. CASE g.held /\ g.queueing
    <3>1. gate' = [gate EXCEPT ![i] = h]
      BY <1>2, <2>1 DEF TypeEnd
    <3>2. Len(h.queue) = Len(gate[i].queue) + 1
      BY <1>3, <1>4, <1>5, <1>6, AppendProperties
    <3> HIDE DEF g, h
    <3>3. /\ h.lock = gate[i].lock /\ h.held = gate[i].held
          /\ h.queueing = gate[i].queueing /\ h.generation = gate[i].generation
          /\ h.revision = gate[i].revision + 1
          /\ Len(h.queue) <= h.revision
          /\ h.queueing
      BY <1>3, <1>5, <1>6, <2>1, <3>2
    <3>4. h \in GateType
      BY <1>6
    <3> QED BY <3>1, <3>3, <3>4
  <2>2. CASE ~(g.held /\ g.queueing)
    <3>1. gate' = [gate EXCEPT ![i] = g]
      BY <1>2, <2>2 DEF TypeEnd
    <3>2. Len(g.queue) <= g.revision /\ (g.queue # <<>> => g.queueing)
      BY <1>3, <1>5, GateInOrder
    <3> HIDE DEF g
    <3> QED BY <1>5, <3>1, <3>2
  <2> QED BY <2>1, <2>2
<1>8. PICK k \in GateType :
         /\ gate' = [gate EXCEPT ![i] = k]
         /\ k.lock = gate[i].lock /\ k.held = gate[i].held
         /\ k.queueing = gate[i].queueing /\ k.generation = gate[i].generation
         /\ k.revision = gate[i].revision + 1
         /\ Len(k.queue) <= k.revision
         /\ k.queue # <<>> => k.queueing
  BY <1>7
<1>9. /\ UNCHANGED <<session, current, typed, step, claim, active, cancelled, closing>>
      /\ typing' = <<>>
  BY DEF TypeEnd
<1>10. wire' \in [Sids -> Seq(Piece)]
  <2>1. running => [wire EXCEPT ![cur] = Append(@, Human(typed))] \in [Sids -> Seq(Piece)]
    BY <1>4, WireTyped DEF GInv, Typed
  <2>2. wire' \in {wire, IF running THEN [wire EXCEPT ![cur] = Append(@, Human(typed))] ELSE wire}
    BY DEF TypeEnd
  <2> QED BY <2>1, <2>2 DEF GInv, Typed
<1>11. /\ gate' \in [Gates -> GateType] /\ gate'[i] = k
       /\ \A j \in Gates : j # i => gate'[j] = gate[j]
       /\ \A j \in Gates : gate'[j].lock = gate[j].lock /\ gate'[j].held = gate[j].held
                           /\ gate'[j].queueing = gate[j].queueing
                           /\ gate'[j].generation = gate[j].generation
  BY <1>3, <1>8
<1>12. Typed'
  BY <1>9, <1>10, <1>11 DEF GInv, Typed, session
<1>13. StepsFit' /\ Generations'
  BY <1>9, <1>11 DEF GInv, StepsFit, Generations
<1>14. OneOwner'
  BY <1>9, <1>11, FieldsTyped DEF GInv, OneOwner
<1>15. QueueHeld'
  BY <1>8, <1>9, <1>11, FieldsTyped DEF GInv, QueueHeld
<1>16. Counted'
  <2> SUFFICES ASSUME NEW j \in Gates
               PROVE  gate'[j].revision + 0 <= typed /\ Len(gate'[j].queue) <= gate'[j].revision
    BY <1>2, <1>9 DEF Counted
  <2>1. CASE j = i
    BY <1>3, <1>8, <1>11, <2>1
  <2>2. CASE j # i
    <3>1. gate[j].revision + 1 <= typed /\ gate[j].revision \in Nat
          /\ Len(gate[j].queue) <= gate[j].revision
      BY <1>2, GateInOrder DEF GInv, Counted
    <3> QED BY <1>3, <1>11, <2>2, <3>1
  <2> QED BY <2>1, <2>2
<1> QED BY <1>12, <1>13, <1>14, <1>15, <1>16 DEF GInv

\* The two minutes pass, or the gate is replaced, and the invariant stays.
LEMMA GGateKeeps == ASSUME GInv, Age \/ RemoveAgent PROVE GInv'
<1> USE NamesAssumption, BoundAssumption
<1>0. current \in Gates /\ gate \in [Gates -> GateType] /\ gate[current] \in GateType
      /\ gate[current].generation = 0
      /\ Gates = 1 .. MaxGates /\ MaxGates \in Nat
  BY FieldsTyped, GatesAssumption DEF GInv, Typed, Generations, Gates
<1>1. \E k \in GateType :
         /\ gate' = [gate EXCEPT ![current] = k]
         /\ k.lock = gate[current].lock /\ k.held = gate[current].held
         /\ k.queueing = gate[current].queueing /\ k.queue = gate[current].queue
         /\ k.revision = gate[current].revision
         /\ Age => k.generation = 0
         /\ RemoveAgent => k.generation = 1
  <2>1. CASE Age
    <3>1. \A h \in GateType : LET k == [h EXCEPT !.old = TRUE]
            IN /\ k \in GateType /\ k.lock = h.lock /\ k.held = h.held
               /\ k.queueing = h.queueing /\ k.queue = h.queue
               /\ k.revision = h.revision /\ k.generation = h.generation
      BY DEF GateType
    <3>2. gate' = [gate EXCEPT ![current] = [gate[current] EXCEPT !.old = TRUE]]
      BY <2>1 DEF Age
    <3>3. ~RemoveAgent
      BY <1>0, <2>1 DEF Age, RemoveAgent
    <3> QED BY <1>0, <3>1, <3>2, <3>3
  <2>2. CASE RemoveAgent
    <3>1. \A h \in GateType : h.generation = 0 =>
            LET k == [h EXCEPT !.generation = @ + 1]
            IN /\ k \in GateType /\ k.lock = h.lock /\ k.held = h.held
               /\ k.queueing = h.queueing /\ k.queue = h.queue
               /\ k.revision = h.revision /\ k.generation = 1
      BY DEF GateType
    <3>2. gate' = [gate EXCEPT ![current] = [gate[current] EXCEPT !.generation = @ + 1]]
      BY <2>2 DEF RemoveAgent
    <3>3. ~Age
      BY <1>0, <2>2 DEF Age, RemoveAgent
    <3> QED BY <1>0, <3>1, <3>2, <3>3
  <2> QED BY <2>1, <2>2
<1>2. PICK k \in GateType :
         /\ gate' = [gate EXCEPT ![current] = k]
         /\ k.lock = gate[current].lock /\ k.held = gate[current].held
         /\ k.queueing = gate[current].queueing /\ k.queue = gate[current].queue
         /\ k.revision = gate[current].revision
         /\ Age => k.generation = 0
         /\ RemoveAgent => k.generation = 1
  BY <1>1
<1>3. /\ gate' \in [Gates -> GateType] /\ gate'[current] = k
      /\ \A j \in Gates : j # current => gate'[j] = gate[j]
      /\ \A j \in Gates : /\ gate'[j].lock = gate[j].lock /\ gate'[j].held = gate[j].held
                          /\ gate'[j].queueing = gate[j].queueing
                          /\ gate'[j].queue = gate[j].queue
                          /\ gate'[j].revision = gate[j].revision
  BY <1>0, <1>2
<1>4. UNCHANGED <<session, wire, typed, typing, step, claim, active, cancelled>>
  BY DEF Age, RemoveAgent
<1>5. Generations' /\ current' \in Gates /\ closing' \in BOOLEAN
  <2>1. CASE Age
    <3>1. current' = current /\ closing' = closing
      BY <2>1 DEF Age
    <3>2. ASSUME NEW j \in Gates PROVE gate'[j].generation = gate[j].generation
      BY <1>0, <1>2, <1>3, <2>1
    <3> QED BY <3>1, <3>2 DEF GInv, Typed, Generations
  <2>2. CASE RemoveAgent
    <3>1. closing /\ closing' = FALSE /\ current' = current + 1 /\ current + 1 \in Gates
      BY <2>2 DEF RemoveAgent, GInv, Generations
    <3>2. ASSUME NEW j \in Gates PROVE gate'[j].generation = IF j < current + 1 THEN 1 ELSE 0
      <4>1. CASE j = current
        BY <1>0, <1>2, <1>3, <2>2, <4>1
      <4>2. CASE j # current
        <5>1. gate'[j].generation = IF j < current THEN 1 ELSE 0
          BY <1>3, <4>2 DEF GInv, Generations
        <5>2. j \in Nat /\ current \in Nat
          BY <1>0
        <5> QED BY <4>2, <5>1, <5>2
      <4> QED BY <4>1, <4>2
    <3>3. \A j \in Gates : gate'[j].generation = IF j < current' THEN 1 ELSE 0
      BY <3>1, <3>2
    <3>4. (closing => current + 1 \in Gates)'
      BY <3>1
    <3> QED BY <3>1, <3>3, <3>4 DEF Generations
  <2> QED BY <2>1, <2>2
<1>6. Typed'
  BY <1>3, <1>4, <1>5 DEF GInv, Typed, session
<1>7. StepsFit' /\ Counted'
  BY <1>3, <1>4 DEF GInv, StepsFit, Counted
<1>8. OneOwner'
  BY <1>3, <1>4, FieldsTyped DEF GInv, OneOwner
<1>9. QueueHeld'
  BY <1>3, <1>4, FieldsTyped DEF GInv, QueueHeld
<1> QED BY <1>5, <1>6, <1>7, <1>8, <1>9 DEF GInv

\* Every step keeps the invariant.
LEMMA GStepKeeps == ASSUME GInv, [Next]_vars PROVE GInv'
<1>1. ASSUME NEW p \in Strict,
             \/ InspectRevision(p) \/ InspectSession(p) \/ SendBegin(p)
             \/ FollowUp(p) \/ Acquire(p) \/ StrictBody(p) \/ StrictCr(p)
             \/ Unqueue(p) \/ GiveUp(p) \/ DisposeConfirmed(p)
      PROVE  GInv'
  <2>1. CASE DisposeConfirmed(p)
    BY <2>1, GOutsideKeeps DEF DisposeConfirmed
  <2> QED BY <1>1, <2>1, GComeKeeps, GAcquireKeeps, GStrictKeeps
<1>2. ASSUME NEW p \in Plain, PlainLock(p) \/ PlainHold(p) \/ PlainBody(p) \/ PlainCr(p)
      PROVE  GInv'
  BY <1>2, GPlainKeeps
<1>3. ASSUME NEW p \in Producers, Abandon(p) \/ Release(p) PROVE GInv'
  BY <1>3, GLeaveKeeps
<1>4. ASSUME \/ \E s \in Sids : SessionStart(s)
             \/ SessionExit
             \/ \E c \in Chunks : TypeBegin(c)
             \/ Dispose
             \/ UNCHANGED vars
      PROVE  GInv'
  BY <1>4, GOutsideKeeps
<1> QED BY <1>1, <1>2, <1>3, <1>4, GTypeEndKeeps, GGateKeeps DEF Next

\* A gate has one owner, queues only while that one is between its body and its
\* Enter, and counts what was typed, however often the gate is replaced.
THEOREM GateOwned == Spec => []GInv
<1>1. Init => GInv
  BY GInitKeeps
<1>2. GInv /\ [Next]_vars => GInv'
  BY GStepKeeps
<1> QED BY <1>1, <1>2, PTL DEF Spec

\* Every variable of the gate has its type.
THEOREM TypeSafety == Spec => []TypeOK
<1>1. GInv => TypeOK
  <2> SUFFICES ASSUME GInv PROVE TypeOK
    OBVIOUS
  <2>1. ASSUME NEW s \in Sids, NEW i \in DOMAIN wire[s]
        PROVE  wire[s][i] \in Piece
    BY <2>1 DEF GInv, Typed
  <2>2. ASSUME NEW i \in Gates
        PROVE  /\ gate[i].lock \in Producers \cup {NoOne}
               /\ gate[i].revision \in 0 .. MaxTyped
               /\ gate[i].queue \in
                     UNION {[1 .. k -> [sid : Sids \cup {NoSid}, n : 1 .. MaxTyped]]
                                : k \in 0 .. MaxTyped}
    <3>1. /\ gate[i].lock \in Producers \cup {NoOne}
          /\ gate[i].queue \in Seq(Queued) /\ gate[i].revision \in Nat
          /\ Len(gate[i].queue) <= gate[i].revision
          /\ gate[i].revision + Len(typing) <= typed
      BY FieldsTyped, GateInOrder DEF GInv, Counted
    <3>2. Len(typing) \in Nat /\ typed \in 0 .. MaxTyped /\ MaxTyped \in Nat
      BY BoundAssumption DEF GInv, Typed
    <3> DEFINE n == Len(gate[i].queue)
    <3>3. n \in 0 .. MaxTyped /\ gate[i].revision \in 0 .. MaxTyped
      BY <3>1, <3>2
    <3>4. gate[i].queue \in [1 .. n -> [sid : Sids \cup {NoSid}, n : 1 .. MaxTyped]]
      BY <3>1, LenProperties DEF Queued
    <3> HIDE DEF n
    <3> QED BY <3>1, <3>3, <3>4
  <2> QED BY <2>1, <2>2 DEF TypeOK, GInv, Typed, Piece
<1> QED BY <1>1, GateOwned, PTL

-----------------------------------------------------------------------------
(* The gate that is not replaced                                           *)

\* An automated piece does not disturb the order of what was typed.
LEMMA AutoInOrder ==
    ASSUME NEW w \in [Sids -> Seq(Piece)], NEW q, NEW n, InOrder(w, q, n),
           NEW s \in Sids, NEW x \in Piece, x.by # "human"
    PROVE  InOrder([w EXCEPT ![s] = Append(@, x)], q, n)
<1> DEFINE v == [w EXCEPT ![s] = Append(@, x)]
<1>1. /\ w[s] \in Seq(Piece) /\ v[s] = Append(w[s], x)
      /\ \A t \in Sids : t # s => v[t] = w[t]
  OBVIOUS
<1>2. /\ DOMAIN w[s] = 1 .. Len(w[s]) /\ DOMAIN v[s] = 1 .. Len(w[s]) + 1
      /\ Len(w[s]) \in Nat
      /\ \A i \in 1 .. Len(w[s]) : v[s][i] = w[s][i]
      /\ v[s][Len(w[s]) + 1].by # "human"
  BY <1>1, AppendProperties, LenProperties
<1> HIDE DEF v
<1>3. \A t \in Sids : \A i \in DOMAIN v[t] : v[t][i].by = "human" => i \in DOMAIN w[t] /\ v[t][i] = w[t][i]
  <2> SUFFICES ASSUME NEW t \in Sids, NEW i \in DOMAIN v[t], v[t][i].by = "human"
               PROVE  i \in DOMAIN w[t] /\ v[t][i] = w[t][i]
    OBVIOUS
  <2>1. CASE t = s
    <3>1. i # Len(w[s]) + 1
      BY <1>2, <2>1
    <3>2. i \in 1 .. Len(w[s])
      BY <1>2, <2>1, <3>1
    <3> QED BY <1>2, <2>1, <3>2
  <2>2. CASE t # s
    BY <1>1, <2>2
  <2> QED BY <2>1, <2>2
<1>4. InOrder(v, q, n)
  BY <1>3 DEF InOrder
<1> QED BY <1>4 DEF v

\* Nor does a piece that is written while nothing is queued.
LEMMA HumanInOrderWritten ==
    ASSUME NEW w \in [Sids -> Seq(Piece)], NEW n \in Nat, InOrder(w, <<>>, n),
           NEW s \in Sids, Human(n + 1) \in Piece
    PROVE  InOrder([w EXCEPT ![s] = Append(@, Human(n + 1))], <<>>, n + 1)
<1> DEFINE x == Human(n + 1)
           v == [w EXCEPT ![s] = Append(@, x)]
<1>1. /\ w[s] \in Seq(Piece) /\ v[s] = Append(w[s], x)
      /\ \A t \in Sids : t # s => v[t] = w[t]
  OBVIOUS
<1>2. /\ DOMAIN w[s] = 1 .. Len(w[s]) /\ DOMAIN v[s] = 1 .. Len(w[s]) + 1
      /\ Len(w[s]) \in Nat
      /\ \A i \in 1 .. Len(w[s]) : v[s][i] = w[s][i]
      /\ v[s][Len(w[s]) + 1] = x /\ x.n = n + 1
  BY <1>1, AppendProperties, LenProperties DEF Human
<1> HIDE DEF v, x
<1>3. ASSUME NEW t \in Sids, NEW i \in DOMAIN v[t], v[t][i].by = "human"
      PROVE  \/ i \in DOMAIN w[t] /\ v[t][i] = w[t][i] /\ v[t][i].n \in Nat /\ v[t][i].n <= n
             \/ t = s /\ i = Len(w[s]) + 1 /\ v[t][i].n = n + 1
  <2>1. CASE t = s /\ i = Len(w[s]) + 1
    BY <1>2, <2>1
  <2>2. CASE ~(t = s /\ i = Len(w[s]) + 1)
    <3>1. i \in DOMAIN w[t] /\ v[t][i] = w[t][i]
      <4>1. CASE t = s
        <5>1. i \in 1 .. Len(w[s])
          BY <1>2, <2>2, <4>1
        <5> QED BY <1>2, <4>1, <5>1
      <4>2. CASE t # s
        BY <1>1, <4>2
      <4> QED BY <4>1, <4>2
    <3>2. w[t][i] \in Piece
      BY <3>1
    <3>3. w[t][i].n \in Nat
      BY <1>3, <3>1, <3>2 DEF Piece
    <3> QED BY <1>3, <3>1, <3>3 DEF InOrder
  <2> QED BY <2>1, <2>2
<1>4. ASSUME NEW t \in Sids, NEW i \in DOMAIN v[t], NEW j \in DOMAIN v[t]
      PROVE  /\ v[t][i].by = "human" => v[t][i].n <= n + 1
             /\ i < j /\ v[t][i].by = "human" /\ v[t][j].by = "human"
                    => v[t][i].n < v[t][j].n
  <2>1. v[t][i].by = "human" => v[t][i].n <= n + 1
    BY <1>3
  <2>2. ASSUME i < j, v[t][i].by = "human", v[t][j].by = "human"
        PROVE  v[t][i].n < v[t][j].n
    <3>1. ~(t = s /\ i = Len(w[s]) + 1)
      <4> SUFFICES ASSUME t = s, i = Len(w[s]) + 1 PROVE FALSE
        OBVIOUS
      <4>1. j \in 1 .. Len(w[s]) + 1
        BY <1>2
      <4> QED BY <1>2, <2>2, <4>1
    <3>2. i \in DOMAIN w[t] /\ v[t][i] = w[t][i] /\ v[t][i].n \in Nat /\ v[t][i].n <= n
      BY <1>3, <2>2, <3>1
    <3>3. CASE j \in DOMAIN w[t] /\ v[t][j] = w[t][j]
      BY <2>2, <3>2, <3>3 DEF InOrder
    <3>4. CASE v[t][j].n = n + 1
      BY <3>2, <3>4
    <3> QED BY <1>3, <2>2, <3>3, <3>4
  <2> QED BY <2>1, <2>2
<1>5. InOrder(v, <<>>, n + 1)
  BY <1>4 DEF InOrder
<1> QED BY <1>5 DEF v, x

\* Nor does a piece that is queued.
LEMMA HumanInOrderQueued ==
    ASSUME NEW w \in [Sids -> Seq(Piece)], NEW q \in Seq(Queued), NEW n \in Nat,
           InOrder(w, q, n), NEW x \in Queued, x.n = n + 1
    PROVE  InOrder(w, Append(q, x), n + 1)
<1> DEFINE r == Append(q, x)
<1>1. /\ DOMAIN q = 1 .. Len(q) /\ DOMAIN r = 1 .. Len(q) + 1 /\ Len(q) \in Nat
      /\ \A i \in 1 .. Len(q) : r[i] = q[i]
      /\ r[Len(q) + 1] = x
  BY AppendProperties, LenProperties
<1> HIDE DEF r
<1>2. \A i \in 1 .. Len(q) : q[i].n \in Nat /\ q[i].n <= n
  <2>1. \A i \in 1 .. Len(q) : q[i] \in Queued
    OBVIOUS
  <2>2. \A i \in 1 .. Len(q) : q[i].n <= n
    BY <1>1 DEF InOrder
  <2> QED BY <2>1, <2>2 DEF Queued
<1>3. ASSUME NEW t \in Sids, NEW i \in DOMAIN w[t], w[t][i].by = "human"
      PROVE  w[t][i].n \in Nat /\ w[t][i].n <= n
  <2>1. w[t][i] \in Piece
    OBVIOUS
  <2> QED BY <1>3, <2>1 DEF Piece, InOrder
<1>4. ASSUME NEW i \in DOMAIN r, NEW j \in DOMAIN r
      PROVE  r[i].n <= n + 1 /\ (i < j => r[i].n < r[j].n)
  <2>1. i \in 1 .. Len(q) \/ i = Len(q) + 1
    BY <1>1
  <2>2. r[i].n <= n + 1
    BY <1>1, <1>2, <2>1
  <2>3. ASSUME i < j PROVE r[i].n < r[j].n
    <3>1. i \in 1 .. Len(q) /\ (j \in 1 .. Len(q) \/ j = Len(q) + 1)
      BY <1>1, <2>3
    <3>2. CASE j \in 1 .. Len(q)
      BY <1>1, <2>3, <3>1, <3>2 DEF InOrder
    <3>3. CASE j = Len(q) + 1
      BY <1>1, <1>2, <3>1, <3>3
    <3> QED BY <3>1, <3>2, <3>3
  <2> QED BY <2>2, <2>3
<1>5. ASSUME NEW t \in Sids, NEW i \in DOMAIN w[t], NEW j \in DOMAIN r, w[t][i].by = "human"
      PROVE  w[t][i].n < r[j].n
  <2>1. CASE j \in 1 .. Len(q)
    BY <1>1, <1>5, <2>1 DEF InOrder
  <2>2. CASE j = Len(q) + 1
    BY <1>1, <1>3, <1>5, <2>2
  <2> QED BY <1>1, <2>1, <2>2
<1>6. ASSUME NEW t \in Sids, NEW i \in DOMAIN w[t], NEW j \in DOMAIN w[t]
      PROVE  /\ w[t][i].by = "human" => w[t][i].n <= n + 1
             /\ i < j /\ w[t][i].by = "human" /\ w[t][j].by = "human"
                    => w[t][i].n < w[t][j].n
  BY <1>3 DEF InOrder
<1>7. InOrder(w, r, n + 1)
  BY <1>4, <1>5, <1>6 DEF InOrder
<1> QED BY <1>7 DEF r

\* A piece of two sequences, one after the other, is a piece of one of them.
LEMMA ConcatPart ==
    ASSUME NEW S, NEW a \in Seq(S), NEW f \in Seq(S), NEW k \in DOMAIN (a \o f)
    PROVE  /\ k \in Nat
           /\ \/ k <= Len(a) /\ k \in DOMAIN a /\ (a \o f)[k] = a[k]
              \/ k > Len(a) /\ k - Len(a) \in DOMAIN f /\ (a \o f)[k] = f[k - Len(a)]
<1>1. /\ Len(a) \in Nat /\ DOMAIN a = 1 .. Len(a)
      /\ Len(f) \in Nat /\ DOMAIN f = 1 .. Len(f)
  BY LenProperties
<1>2. /\ a \o f \in Seq(S) /\ Len(a \o f) = Len(a) + Len(f)
      /\ (k \in 1 .. Len(a) + Len(f)) =>
            (a \o f)[k] = IF k <= Len(a) THEN a[k] ELSE f[k - Len(a)]
  BY ConcatProperties
<1>3. k \in 1 .. Len(a) + Len(f)
  BY <1>2, LenProperties
<1> QED BY <1>1, <1>2, <1>3

\* Nor does the flush of the queue.
LEMMA FlushInOrder ==
    ASSUME Typed, NEW q \in Seq(Queued), NEW n \in Nat, InOrder(wire, q, n)
    PROVE  InOrder(FlushTo(wire, q), <<>>, n)
<1> DEFINE v == FlushTo(wire, q)
           f == Flushed(q)
<1>1. \A t \in Sids : v[t] = IF running /\ t = cur THEN wire[t] \o f ELSE wire[t]
  BY FlushToShape
<1>2. /\ f \in Seq(Piece) /\ DOMAIN f = 1 .. Len(f) /\ Len(f) \in Nat
      /\ \A k \in DOMAIN f : \E i \in DOMAIN q : q[i].n = f[k].n
      /\ Increasing(f)
  <2>1. f \in Seq([by : {"human"}, n : 1 .. MaxTyped])
    BY FlushShape
  <2>2. f \in Seq(Piece)
    BY <2>1, SeqMonotonic DEF Piece
  <2>3. Increasing(q)
    BY DEF InOrder, Increasing
  <2> QED BY <2>2, <2>3, FlushShape, LenProperties
<1>3. \A t \in Sids : wire[t] \in Seq(Piece) /\ DOMAIN wire[t] = 1 .. Len(wire[t]) /\ Len(wire[t]) \in Nat
  BY LenProperties DEF Typed
<1> HIDE DEF v, f
<1>4. \A k \in DOMAIN f : f[k].n <= n /\ \A t \in Sids : \A i \in DOMAIN wire[t] :
          wire[t][i].by = "human" => wire[t][i].n < f[k].n
  BY <1>2 DEF InOrder
<1>5. ASSUME NEW t \in Sids, NEW i \in DOMAIN v[t], NEW j \in DOMAIN v[t]
      PROVE  /\ v[t][i].by = "human" => v[t][i].n <= n
             /\ i < j /\ v[t][i].by = "human" /\ v[t][j].by = "human"
                    => v[t][i].n < v[t][j].n
  <2>1. CASE ~(running /\ t = cur)
    BY <1>1, <2>1 DEF InOrder
  <2>2. CASE running /\ t = cur
    <3> DEFINE m == Len(wire[t])
    <3>1. m \in Nat /\ wire[t] \in Seq(Piece) /\ v[t] = wire[t] \o f
      BY <1>1, <1>3, <2>2
    <3>2. ASSUME NEW k \in DOMAIN v[t]
          PROVE  /\ k \in Nat
                 /\ \/ k <= m /\ k \in DOMAIN wire[t] /\ v[t][k] = wire[t][k]
                    \/ k > m /\ k - m \in DOMAIN f /\ v[t][k] = f[k - m]
      <4>1. k \in DOMAIN (wire[t] \o f)
        BY <3>1
      <4>2. f \in Seq(Piece) /\ wire[t] \in Seq(Piece)
        BY <1>2, <3>1
      <4> DEFINE u == wire[t] \o f
      <4>3. /\ k \in Nat
            /\ \/ k <= m /\ k \in DOMAIN wire[t] /\ u[k] = wire[t][k]
               \/ k > m /\ k - m \in DOMAIN f /\ u[k] = f[k - m]
        BY <4>1, <4>2, ConcatPart
      <4>4. v[t] = u
        BY <3>1
      <4> HIDE DEF u, m
      <4> QED BY <4>3, <4>4
    <3> HIDE DEF m
    <3>3. /\ \/ i <= m /\ i \in DOMAIN wire[t] /\ v[t][i] = wire[t][i]
             \/ i > m /\ i - m \in DOMAIN f /\ v[t][i] = f[i - m]
          /\ \/ j <= m /\ j \in DOMAIN wire[t] /\ v[t][j] = wire[t][j]
             \/ j > m /\ j - m \in DOMAIN f /\ v[t][j] = f[j - m]
      BY <3>2
    <3>4. i \in Nat /\ j \in Nat
      BY <3>2
    <3>5. v[t][i].by = "human" => v[t][i].n <= n
      BY <1>4, <3>3 DEF InOrder
    <3>6. ASSUME i < j, v[t][i].by = "human", v[t][j].by = "human"
          PROVE  v[t][i].n < v[t][j].n
      <4>1. CASE i \in DOMAIN wire[t] /\ v[t][i] = wire[t][i] /\ j \in DOMAIN wire[t] /\ v[t][j] = wire[t][j]
        BY <3>6, <4>1 DEF InOrder
      <4>2. CASE i \in DOMAIN wire[t] /\ v[t][i] = wire[t][i] /\ j - m \in DOMAIN f /\ v[t][j] = f[j - m]
        BY <1>4, <3>6, <4>2
      <4>3. CASE /\ i - m \in DOMAIN f /\ v[t][i] = f[i - m]
                 /\ j - m \in DOMAIN f /\ v[t][j] = f[j - m]
        <5>1. i - m < j - m
          BY <3>1, <3>4, <3>6
        <5> QED BY <1>2, <4>3, <5>1 DEF Increasing
      <4>4. ~(i > m /\ j <= m)
        BY <3>1, <3>4, <3>6
      <4> QED BY <3>3, <4>1, <4>2, <4>3, <4>4
    <3> QED BY <3>5, <3>6
  <2> QED BY <2>1, <2>2
<1>6. InOrder(v, <<>>, n)
  BY <1>5 DEF InOrder
<1> QED BY <1>6 DEF v

\* Then there is one gate, it is the agent's, and one producer at most is at it.
LEMMA OneGate ==
    ASSUME MaxGates = 1, GInv
    PROVE  /\ Gates = {1} /\ current = 1 /\ gate[1].generation = 0 /\ closing = FALSE
           /\ gate \in [Gates -> GateType] /\ gate[1] \in GateType
           /\ gate[1].queue \in Seq(Queued) /\ gate[1].revision \in Nat
           /\ claim \in [Producers -> ClaimType] /\ wire \in [Sids -> Seq(Piece)]
           /\ DOMAIN step = Producers
           /\ \A p \in Producers :
                 /\ claim[p].gate = 1 /\ claim[p] \in ClaimType
                 /\ Body(p) \in Piece /\ Cr(p) \in Piece
           /\ \A p, q \in Producers : step[p] \in AtGate /\ step[q] \in AtGate => p = q
<1>1. Gates = {1}
  BY DEF Gates
<1>2. /\ current \in Gates /\ closing \in BOOLEAN
      /\ gate \in [Gates -> GateType] /\ wire \in [Sids -> Seq(Piece)]
      /\ claim \in [Producers -> ClaimType] /\ DOMAIN step = Producers
  BY DEF GInv, Typed, StepsFit
<1>3. current = 1 /\ closing = FALSE /\ gate[1].generation = 0
  BY <1>1, <1>2 DEF GInv, Generations
<1>4. gate[1].queue \in Seq(Queued) /\ gate[1].revision \in Nat /\ gate[1] \in GateType
  BY <1>1, FieldsTyped
<1>5. \A p \in Producers : claim[p].gate = 1 /\ claim[p] \in ClaimType
  BY <1>1, FieldsTyped
<1>6. \A p, q \in Producers : step[p] \in AtGate /\ step[q] \in AtGate => p = q
  BY <1>5, OwnerAt
<1>7. \A p \in Producers : Body(p) \in Piece /\ Cr(p) \in Piece
  BY DEF Body, Cr, Piece
<1> QED BY <1>1, <1>2, <1>3, <1>4, <1>5, <1>6, <1>7

\* A step that writes nothing and leaves queue and count keeps the invariant.
LEMMA SilentKeeps ==
    ASSUME MaxGates = 1, GInv, OneGateInv,
           wire' = wire, gate'[1].queue = gate[1].queue,
           gate'[1].revision = gate[1].revision, Noticed' = Noticed,
           \A q \in Producers : step'[q] = "sleep" =>
               step[q] = "sleep" /\ claim'[q].sid = claim[q].sid,
           \A q \in Strict : claim'[q].revision = claim'[q].seen
    PROVE  OneGateInv'
<1>1. InOrder(wire, gate[1].queue, Noticed)'
  BY DEF OneGateInv, InOrder
<1>2. BodyWritten'
  BY DEF OneGateInv, BodyWritten
<1>3. SeenCounted'
  BY DEF OneGateInv, SeenCounted
<1> QED BY <1>1, <1>2, <1>3 DEF OneGateInv

\* So does a producer's step that writes nothing.
LEMMA SilentStepKeeps ==
    ASSUME MaxGates = 1, GInv, OneGateInv, NEW p \in Producers, NEW l, NEW c,
           step' = [step EXCEPT ![p] = l], claim' = [claim EXCEPT ![p] = c],
           l # "sleep", p \in Strict => c.revision = c.seen,
           wire' = wire, gate'[1].queue = gate[1].queue,
           gate'[1].revision = gate[1].revision, UNCHANGED <<typed, typing>>
    PROVE  OneGateInv'
<1>1. \A q \in Producers : step'[q] = "sleep" => step[q] = "sleep" /\ claim'[q] = claim[q]
  BY OneGate
<1>2. \A q \in Strict : claim'[q].revision = claim'[q].seen
  BY OneGate DEF OneGateInv, SeenCounted, Producers
<1>3. Noticed' = Noticed
  BY DEF Noticed
<1> QED BY <1>1, <1>2, <1>3, SilentKeeps

\* A producer's write to its session keeps the invariant.
LEMMA WriteKeeps ==
    ASSUME MaxGates = 1, GInv, OneGateInv, NEW p \in Producers, step[p] \in AtGate,
           NEW l, NEW c, NEW s \in Sids, NEW x \in {Body(p), Cr(p)},
           step' = [step EXCEPT ![p] = l], claim' = [claim EXCEPT ![p] = c],
           l = "sleep" => x = Body(p) /\ c.sid = s,
           p \in Strict => c.revision = c.seen,
           wire' = [wire EXCEPT ![s] = Append(@, x)],
           gate'[1].queue = gate[1].queue, gate'[1].revision = gate[1].revision,
           UNCHANGED <<typed, typing>>
    PROVE  OneGateInv'
<1>0. /\ claim \in [Producers -> ClaimType] /\ wire \in [Sids -> Seq(Piece)]
      /\ DOMAIN step = Producers /\ x \in Piece
      /\ \A q \in Producers : step[q] \in AtGate => q = p
  BY OneGate
<1>1. Noticed' = Noticed
  BY DEF Noticed
<1>2. InOrder(wire, gate[1].queue, Noticed)'
  <2>1. x.by # "human"
    BY DEF Body, Cr
  <2>2. InOrder(wire, gate[1].queue, Noticed)
    BY DEF OneGateInv
  <2>3. InOrder([wire EXCEPT ![s] = Append(@, x)], gate[1].queue, Noticed)
    BY <1>0, <2>1, <2>2, AutoInOrder
  <2>4. InOrder(wire', gate'[1].queue, Noticed')
    BY <1>1, <2>3
  <2> QED BY <2>4 DEF InOrder
<1>3. BodyWritten'
  <2> SUFFICES ASSUME NEW q \in Producers, step'[q] = "sleep"
               PROVE  wire'[claim'[q].sid] # <<>> /\ LastOf(wire'[claim'[q].sid]) = Body(q)
    BY DEF BodyWritten
  <2>1. q = p
    BY <1>0 DEF AtGate
  <2>2. l = "sleep" /\ claim'[q].sid = s /\ x = Body(q)
    BY <1>0, <2>1
  <2>3. wire'[s] = Append(wire[s], x) /\ wire[s] \in Seq(Piece)
    BY <1>0
  <2>4. wire'[s] # <<>> /\ LastOf(wire'[s]) = x
    BY <1>0, <2>3, AppendProperties DEF LastOf
  <2> QED BY <2>2, <2>4
<1>4. SeenCounted'
  <2>1. \A q \in Strict : claim'[q].revision = claim'[q].seen
    BY <1>0 DEF OneGateInv, SeenCounted, Producers
  <2> QED BY <1>1, <2>1 DEF OneGateInv, SeenCounted
<1> QED BY <1>2, <1>3, <1>4 DEF OneGateInv

\* The flush at the end of a submission keeps the invariant.
LEMMA FlushKeeps ==
    ASSUME MaxGates = 1, GInv, OneGateInv, NEW p \in Producers, step[p] \in AtGate,
           NEW l, NEW c,
           step' = [step EXCEPT ![p] = l], claim' = [claim EXCEPT ![p] = c],
           l # "sleep", p \in Strict => c.revision = c.seen,
           wire' = FlushTo(wire, gate[1].queue),
           gate'[1].queue = <<>>, gate'[1].revision = gate[1].revision,
           UNCHANGED <<typed, typing>>
    PROVE  OneGateInv'
<1>0. /\ claim \in [Producers -> ClaimType] /\ DOMAIN step = Producers
      /\ gate[1].queue \in Seq(Queued)
      /\ \A q \in Producers : step[q] \in AtGate => q = p
  BY OneGate
<1>1. Noticed' = Noticed
  BY DEF Noticed
<1>2. InOrder(wire, gate[1].queue, Noticed)'
  <2>1. InOrder(FlushTo(wire, gate[1].queue), <<>>, Noticed)
    BY <1>0, NoticedNat, FlushInOrder DEF OneGateInv, GInv
  <2>2. InOrder(wire', gate'[1].queue, Noticed')
    BY <1>1, <2>1
  <2> QED BY <2>2 DEF InOrder
<1>3. BodyWritten'
  BY <1>0 DEF BodyWritten, AtGate
<1>4. SeenCounted'
  <2>1. \A q \in Strict : claim'[q].revision = claim'[q].seen
    BY <1>0 DEF OneGateInv, SeenCounted, Producers
  <2> QED BY <1>1, <2>1 DEF OneGateInv, SeenCounted
<1> QED BY <1>2, <1>3, <1>4 DEF OneGateInv

\* A person's chunk keeps it, written or queued.
LEMMA TypeEndKeeps ==
    ASSUME MaxGates = 1, GInv, OneGateInv, TypeEnd
    PROVE  OneGateInv'
<1>0. /\ gate \in [Gates -> GateType] /\ Gates = {1} /\ wire \in [Sids -> Seq(Piece)]
      /\ gate[1].queue \in Seq(Queued) /\ gate[1].revision \in Nat
      /\ gate[1] \in GateType
  BY OneGate
<1>1. PICK c \in Chunks : typing = <<[gate |-> 1, chunk |-> c]>>
  BY <1>0 DEF GInv, Typed, TypeEnd
<1>2. typing[1].gate = 1 /\ typing[1].chunk = c /\ Len(typing) = 1 /\ Len(typing') = 0
  BY <1>1 DEF TypeEnd
<1>3. /\ Noticed \in Nat /\ typed = Noticed + 1 /\ Noticed' = Noticed + 1
      /\ typed \in 1 .. MaxTyped
  <2>1. typed \in 0 .. MaxTyped /\ gate[1].revision + 1 <= typed /\ MaxTyped \in Nat
    BY <1>0, <1>2, BoundAssumption DEF GInv, Typed, Counted
  <2>2. typed' = typed
    BY DEF TypeEnd
  <2> QED BY <1>0, <1>2, <2>1, <2>2, NoticedNat DEF Noticed
<1> DEFINE g == Noted(gate[1], c)
           x == [sid |-> cur, n |-> typed]
           q == gate[1].queue
<1>4. /\ g.held = gate[1].held /\ g.queueing = gate[1].queueing
      /\ g.queue = q /\ g.revision = gate[1].revision + 1
  BY <1>0, NotedTyped
<1>5. x \in Queued /\ x.n = Noticed + 1 /\ Human(typed) \in Piece
  BY <1>3 DEF Queued, GInv, Typed, Piece, Human
<1>6. UNCHANGED <<step, claim>>
  BY DEF TypeEnd
<1>7. SeenCounted' /\ BodyWritten' /\ InOrder(wire', gate'[1].queue, Noticed')
  <2>1. CASE g.held /\ g.queueing
    <3>1. /\ wire' = wire
          /\ gate'[1].queue = Append(q, x) /\ gate'[1].revision = gate[1].revision + 1
      <4> DEFINE h == [g EXCEPT !.queue = Append(@, x)]
      <4>1. wire' = wire /\ gate' = [gate EXCEPT ![1] = h]
        BY <1>2, <2>1 DEF TypeEnd
      <4>2. gate'[1] = h
        BY <1>0, <4>1
      <4>3. h.queue = Append(g.queue, x) /\ h.revision = g.revision
        <5>1. \A k \in GateType : LET n == [k EXCEPT !.queue = Append(@, x)]
                 IN n.queue = Append(k.queue, x) /\ n.revision = k.revision
          BY DEF GateType
        <5>2. g \in GateType
          BY <1>0, NotedTyped
        <5> HIDE DEF g, x
        <5> QED BY <5>1, <5>2
      <4> HIDE DEF h, g
      <4> QED BY <1>4, <4>1, <4>2, <4>3
    <3>2. InOrder(wire, Append(q, x), Noticed + 1)
      BY <1>0, <1>3, <1>5, HumanInOrderQueued DEF OneGateInv
    <3> QED BY <1>3, <1>6, <3>1, <3>2 DEF OneGateInv, SeenCounted, BodyWritten
  <2>2. CASE ~(g.held /\ g.queueing)
    <3>1. q = <<>> /\ ~gate[1].queueing
      BY <1>0, <1>4, <2>2, GateInOrder
    <3>2. /\ wire' = IF running THEN [wire EXCEPT ![cur] = Append(@, Human(typed))] ELSE wire
          /\ gate'[1].queue = q /\ gate'[1].revision = gate[1].revision + 1
      BY <1>0, <1>2, <1>4, <2>2 DEF TypeEnd
    <3>3. InOrder(wire', <<>>, Noticed + 1)
      <4>1. InOrder(wire, <<>>, Noticed)
        BY <3>1 DEF OneGateInv
      <4>2. CASE running
        BY <1>0, <1>3, <1>5, <3>2, <4>1, <4>2, HumanInOrderWritten DEF GInv, Typed
      <4>3. CASE ~running
        <5>1. \A s \in Sids : \A i \in DOMAIN wire[s] : wire[s][i].by = "human" =>
                 wire[s][i].n \in Nat /\ wire[s][i].n <= Noticed + 1
          <6> SUFFICES ASSUME NEW s \in Sids, NEW i \in DOMAIN wire[s], wire[s][i].by = "human"
                       PROVE  wire[s][i].n \in Nat /\ wire[s][i].n <= Noticed + 1
            OBVIOUS
          <6>1. wire[s][i] \in Piece
            BY <1>0
          <6>2. wire[s][i].n <= Noticed
            BY <4>1 DEF InOrder
          <6> QED BY <1>3, <6>1, <6>2 DEF Piece
        <5> QED BY <3>2, <4>1, <4>3, <5>1 DEF InOrder
      <4> QED BY <4>2, <4>3
    <3>4. BodyWritten'
      <4>1. \A p \in Producers : step[p] # "sleep"
        BY <3>1, OneGate DEF GInv, QueueHeld
      <4> QED BY <1>6, <4>1 DEF BodyWritten
    <3> QED BY <1>3, <1>6, <3>1, <3>2, <3>3, <3>4 DEF OneGateInv, SeenCounted
  <2> QED BY <2>1, <2>2
<1>8. InOrder(wire, gate[1].queue, Noticed)'
  BY <1>7 DEF InOrder
<1> QED BY <1>7, <1>8 DEF OneGateInv

\* The steps of a send until it owns the gate.
LEMMA ComeKeeps ==
    ASSUME MaxGates = 1, GInv, OneGateInv, NEW p \in Strict,
           \/ InspectRevision(p) \/ InspectSession(p) \/ SendBegin(p)
           \/ FollowUp(p) \/ GiveUp(p) \/ Acquire(p)
    PROVE  OneGateInv'
<1>0. /\ Gates = {1} /\ current = 1 /\ gate[1] \in GateType /\ gate \in [Gates -> GateType]
      /\ claim \in [Producers -> ClaimType] /\ p \in Producers /\ claim[p] \in ClaimType
      /\ gate[1].revision = Noticed /\ claim[p].revision = claim[p].seen
  BY OneGate DEF Producers, OneGateInv, SeenCounted
<1>1. /\ UNCHANGED <<wire, typed, typing>>
      /\ gate'[1].queue = gate[1].queue /\ gate'[1].revision = gate[1].revision
  <2>1. CASE Acquire(p)
    <3>1. \A h \in GateType : Claimed(h, p).queue = h.queue /\ Claimed(h, p).revision = h.revision
      BY DEF Claimed, Lock, GateType
    <3>2. gate' = [gate EXCEPT ![1] = Claimed(gate[1], p)]
      BY <1>0, <2>1 DEF Acquire, Claimed
    <3> QED BY <1>0, <2>1, <3>1, <3>2 DEF Acquire
  <2>2. CASE ~Acquire(p)
    BY <2>2 DEF InspectRevision, InspectSession, SendBegin, FollowUp, GiveUp
  <2> QED BY <2>1, <2>2
<1>2. \E l \in {"inspect", "dialog", "begun", "idle", "owner"} : \E c :
         /\ step' = [step EXCEPT ![p] = l] /\ claim' = [claim EXCEPT ![p] = c]
         /\ c.revision = c.seen
  <2>1. CASE InspectRevision(p)
    <3> DEFINE c == [NoClaim EXCEPT !.revision = gate[current].revision, !.seen = Noticed]
    <3>1. c.revision = c.seen
      BY <1>0 DEF NoClaim
    <3> QED BY <2>1, <3>1 DEF InspectRevision, GotoAs
  <2>2. CASE InspectSession(p)
    <3> DEFINE c == [claim[p] EXCEPT !.sid = cur]
    <3>1. c.revision = c.seen
      BY <1>0 DEF ClaimType
    <3> QED BY <2>2, <3>1 DEF InspectSession, GotoAs
  <2>3. CASE SendBegin(p)
    <3> DEFINE c == [claim[p] EXCEPT !.generation = gate[current].generation]
    <3>1. c.revision = c.seen
      BY <1>0 DEF ClaimType
    <3> QED BY <2>3, <3>1 DEF SendBegin, GotoAs
  <2>4. CASE FollowUp(p)
    <3> DEFINE c == [sid |-> cur, gate |-> current,
                     generation |-> gate[current].generation,
                     revision |-> gate[current].revision, ok |-> FALSE,
                     seen |-> Noticed]
    <3>1. c.revision = c.seen
      BY <1>0
    <3> QED BY <2>4, <3>1 DEF FollowUp, GotoAs
  <2>5. CASE GiveUp(p)
    <3>1. NoClaim.revision = NoClaim.seen
      BY DEF NoClaim
    <3> QED BY <2>5, <3>1 DEF GiveUp, GotoAs
  <2>6. CASE Acquire(p)
    <3> DEFINE c == [claim[p] EXCEPT !.gate = current]
    <3>1. c.revision = c.seen
      BY <1>0 DEF ClaimType
    <3> QED BY <2>6, <3>1 DEF Acquire, GotoAs
  <2> QED BY <2>1, <2>2, <2>3, <2>4, <2>5, <2>6
<1>3. PICK l \in {"inspect", "dialog", "begun", "idle", "owner"} :
         \E c : /\ step' = [step EXCEPT ![p] = l] /\ claim' = [claim EXCEPT ![p] = c]
                /\ c.revision = c.seen
  BY <1>2, Zenon
<1>4. PICK c : /\ step' = [step EXCEPT ![p] = l] /\ claim' = [claim EXCEPT ![p] = c]
               /\ c.revision = c.seen
  BY <1>3
<1> QED BY <1>0, <1>1, <1>4, SilentStepKeeps

\* A strict submission.
LEMMA StrictKeeps ==
    ASSUME MaxGates = 1, GInv, OneGateInv, NEW p \in Strict,
           StrictBody(p) \/ StrictCr(p) \/ Unqueue(p)
    PROVE  OneGateInv'
<1> DEFINE s == claim[p].sid
<1>0. /\ Gates = {1} /\ gate[1] \in GateType /\ gate \in [Gates -> GateType]
      /\ claim \in [Producers -> ClaimType] /\ p \in Producers /\ claim[p] \in ClaimType
      /\ claim[p].gate = 1 /\ claim[p].revision = claim[p].seen
      /\ step[p] \in AtGate /\ s \in Sids
  BY OneGate DEF Producers, OneGateInv, SeenCounted, GInv, StepsFit, AtGate,
                 StrictBody, StrictCr, Unqueue
<1>1. \A b : [claim[p] EXCEPT !.ok = b].revision = [claim[p] EXCEPT !.ok = b].seen
  BY <1>0 DEF ClaimType
<1>2. \A h \in GateType : /\ Closed(h).queue = h.queue /\ Closed(h).revision = h.revision
                          /\ Drained(h).queue = <<>> /\ Drained(h).revision = h.revision
  BY DEF Closed, Drained, GateType
<1>3. CASE StrictBody(p) /\ Valid(p) /\ ~gate[1].uncommitted
  <2>1. /\ gate' = [gate EXCEPT ![1] = Closed(gate[1])]
        /\ wire' = [wire EXCEPT ![s] = Append(@, Body(p))]
        /\ step' = [step EXCEPT ![p] = "sleep"]
        /\ claim' = [claim EXCEPT ![p] = claim[p]]
        /\ UNCHANGED <<typed, typing>>
    BY <1>0, <1>3 DEF StrictBody, Goto, Closed
  <2>2. gate'[1].queue = gate[1].queue /\ gate'[1].revision = gate[1].revision
    BY <1>0, <1>2, <2>1
  <2> QED BY <1>0, <2>1, <2>2, WriteKeeps
<1>4. CASE StrictBody(p) /\ ~(Valid(p) /\ ~gate[1].uncommitted)
  <2> DEFINE c == [claim[p] EXCEPT !.ok = FALSE]
  <2>1. /\ step' = [step EXCEPT ![p] = "unqueue"] /\ claim' = [claim EXCEPT ![p] = c]
        /\ UNCHANGED <<gate, wire, typed, typing>>
    BY <1>0, <1>4 DEF StrictBody, GotoAs
  <2>2. c.revision = c.seen
    BY <1>1
  <2> HIDE DEF c
  <2> QED BY <1>0, <2>1, <2>2, SilentStepKeeps
<1>5. CASE StrictCr(p)
  <2> DEFINE c == [claim[p] EXCEPT !.ok = Valid(p)]
  <2>1. /\ step' = [step EXCEPT ![p] = "unqueue"] /\ claim' = [claim EXCEPT ![p] = c]
        /\ wire' = IF Valid(p) THEN [wire EXCEPT ![s] = Append(@, Cr(p))] ELSE wire
        /\ UNCHANGED <<gate, typed, typing>>
    BY <1>0, <1>5 DEF StrictCr, GotoAs
  <2>2. c.revision = c.seen
    BY <1>1
  <2> HIDE DEF c
  <2>3. CASE Valid(p)
    BY <1>0, <2>1, <2>2, <2>3, WriteKeeps
  <2>4. CASE ~Valid(p)
    BY <1>0, <2>1, <2>2, <2>4, SilentStepKeeps
  <2> QED BY <2>3, <2>4
<1>6. CASE Unqueue(p)
  <2> DEFINE l == IF claim[p].ok THEN "owner" ELSE "release"
  <2>1. /\ gate' = [gate EXCEPT ![1] = Drained(gate[1])]
        /\ wire' = FlushTo(wire, gate[1].queue)
        /\ step' = [step EXCEPT ![p] = l]
        /\ claim' = [claim EXCEPT ![p] = claim[p]]
        /\ UNCHANGED <<typed, typing>>
    BY <1>0, <1>6 DEF Unqueue, Goto, Drained
  <2>2. gate'[1].queue = <<>> /\ gate'[1].revision = gate[1].revision
    BY <1>0, <1>2, <2>1
  <2>3. l # "sleep"
    OBVIOUS
  <2> HIDE DEF l
  <2> QED BY <1>0, <2>1, <2>2, <2>3, FlushKeeps
<1> QED BY <1>0, <1>3, <1>4, <1>5, <1>6

\* A plain submission.
LEMMA PlainKeeps ==
    ASSUME MaxGates = 1, GInv, OneGateInv, NEW p \in Plain,
           PlainLock(p) \/ PlainHold(p) \/ PlainBody(p) \/ PlainCr(p)
    PROVE  OneGateInv'
<1> DEFINE s == claim[p].sid
<1>0. /\ Gates = {1} /\ gate[1] \in GateType /\ gate \in [Gates -> GateType] /\ current = 1
      /\ claim \in [Producers -> ClaimType] /\ p \in Producers /\ claim[p] \in ClaimType
      /\ claim[p].gate = 1 /\ p \notin Strict
  BY OneGate, KindsAssumption DEF Producers
<1>1. \A h \in GateType : /\ Locked(h, p).queue = h.queue /\ Locked(h, p).revision = h.revision
                          /\ Locked(h, NoOne).queue = h.queue
                          /\ Locked(h, NoOne).revision = h.revision
                          /\ Taken(h).queue = h.queue /\ Taken(h).revision = h.revision
  BY DEF Locked, Lock, Taken, GateType
<1>2. CASE PlainLock(p) \/ PlainHold(p)
  <2>1. UNCHANGED <<wire, typed, typing>>
    BY <1>2 DEF PlainLock, PlainHold
  <2>2. \E h \in {Locked(gate[1], p), Locked(gate[1], NoOne), Taken(gate[1])} :
           gate' = [gate EXCEPT ![1] = h]
    BY <1>0, <1>2 DEF PlainLock, PlainHold, Locked, Taken
  <2>3. gate'[1].queue = gate[1].queue /\ gate'[1].revision = gate[1].revision
    BY <1>0, <1>1, <2>2
  <2>4. \E l \in {"locked", "idle", "held"} : \E c :
           step' = [step EXCEPT ![p] = l] /\ claim' = [claim EXCEPT ![p] = c]
    <3>1. claim = [claim EXCEPT ![p] = claim[p]]
      BY <1>0
    <3> QED BY <1>2, <3>1 DEF PlainLock, PlainHold, Goto, GotoAs
  <2> QED BY <1>0, <2>1, <2>3, <2>4, SilentStepKeeps
<1>3. CASE PlainBody(p) \/ PlainCr(p)
  <2>1. step[p] \in AtGate /\ s \in Sids
    BY <1>0, <1>3 DEF PlainBody, PlainCr, AtGate, GInv, StepsFit
  <2>2. claim' = [claim EXCEPT ![p] = claim[p]] /\ UNCHANGED <<gate, typed, typing>>
    BY <1>0, <1>3 DEF PlainBody, PlainCr, Goto
  <2>3. CASE PlainBody(p) /\ Accepts(s)
    <3>1. /\ wire' = [wire EXCEPT ![s] = Append(@, Body(p))]
          /\ step' = [step EXCEPT ![p] = "sleep"]
      BY <2>3 DEF PlainBody, Goto
    <3> QED BY <1>0, <2>1, <2>2, <3>1, WriteKeeps
  <2>4. CASE PlainCr(p) /\ Accepts(s)
    <3>1. /\ wire' = [wire EXCEPT ![s] = Append(@, Cr(p))]
          /\ step' = [step EXCEPT ![p] = "release"]
      BY <2>4 DEF PlainCr, Goto
    <3> QED BY <1>0, <2>1, <2>2, <3>1, WriteKeeps
  <2>5. CASE ~Accepts(s)
    <3>1. wire' = wire /\ step' = [step EXCEPT ![p] = "release"]
      BY <1>3, <2>5 DEF PlainBody, PlainCr, Goto
    <3> QED BY <1>0, <2>2, <3>1, SilentStepKeeps
  <2> QED BY <1>3, <2>3, <2>4, <2>5
<1> QED BY <1>2, <1>3

\* The end of a submission, by its guards or before its time.
LEMMA LeaveKeeps ==
    ASSUME MaxGates = 1, GInv, OneGateInv, NEW p \in Producers, Abandon(p) \/ Release(p)
    PROVE  OneGateInv'
<1>0. /\ Gates = {1} /\ gate[1] \in GateType /\ gate \in [Gates -> GateType]
      /\ claim \in [Producers -> ClaimType] /\ claim[p] \in ClaimType
      /\ claim[p].gate = 1 /\ step[p] \in AtGate
      /\ p \in Strict => claim[p].revision = claim[p].seen
  BY OneGate DEF OneGateInv, SeenCounted, Abandon, Release, AtGate
<1>1. CASE Abandon(p)
  <2>1. UNCHANGED <<wire, gate, typed, typing>>
    BY <1>1 DEF Abandon
  <2>2. \E l \in {"unqueue", "release"}, c \in {claim[p], [claim[p] EXCEPT !.ok = FALSE]} :
           step' = [step EXCEPT ![p] = l] /\ claim' = [claim EXCEPT ![p] = c]
    <3>1. claim = [claim EXCEPT ![p] = claim[p]]
      BY <1>0
    <3> QED BY <1>1, <3>1 DEF Abandon, Goto, GotoAs
  <2>3. PICK l \in {"unqueue", "release"}, c \in {claim[p], [claim[p] EXCEPT !.ok = FALSE]} :
           step' = [step EXCEPT ![p] = l] /\ claim' = [claim EXCEPT ![p] = c]
    BY <2>2
  <2>4. p \in Strict => c.revision = c.seen
    BY <1>0 DEF ClaimType
  <2> QED BY <1>0, <2>1, <2>3, <2>4, SilentStepKeeps
<1>2. CASE Release(p)
  <2>1. /\ gate' = [gate EXCEPT ![1] = Freed(gate[1])]
        /\ wire' = FlushTo(wire, gate[1].queue)
        /\ step' = [step EXCEPT ![p] = "idle"] /\ claim' = [claim EXCEPT ![p] = NoClaim]
        /\ UNCHANGED <<typed, typing>>
    BY <1>0, <1>2 DEF Release, GotoAs, Freed
  <2>2. gate'[1].queue = <<>> /\ gate'[1].revision = gate[1].revision
    <3>1. \A h \in GateType : Freed(h).queue = <<>> /\ Freed(h).revision = h.revision
      BY DEF Freed, Lock, GateType
    <3> QED BY <1>0, <2>1, <3>1
  <2>3. NoClaim.revision = NoClaim.seen
    BY DEF NoClaim
  <2> QED BY <1>0, <2>1, <2>2, <2>3, FlushKeeps
<1> QED BY <1>1, <1>2

\* The steps around the gate.
LEMMA OutsideKeeps ==
    ASSUME MaxGates = 1, GInv, OneGateInv,
           \/ \E s \in Sids : SessionStart(s)
           \/ SessionExit
           \/ \E c \in Chunks : TypeBegin(c)
           \/ Age
           \/ UNCHANGED vars
    PROVE  OneGateInv'
<1>0. /\ Gates = {1} /\ current = 1 /\ gate[1] \in GateType /\ gate \in [Gates -> GateType]
      /\ \A q \in Strict : claim[q].revision = claim[q].seen
  BY OneGate DEF OneGateInv, SeenCounted
<1>1. UNCHANGED <<wire, step, claim>>
  BY DEF SessionStart, SessionExit, TypeBegin, Age, vars
<1>2. gate'[1].queue = gate[1].queue /\ gate'[1].revision = gate[1].revision
  <2>1. CASE Age
    <3>1. \A h \in GateType : LET k == [h EXCEPT !.old = TRUE]
             IN k.queue = h.queue /\ k.revision = h.revision
      BY DEF GateType
    <3>2. gate' = [gate EXCEPT ![1] = [gate[1] EXCEPT !.old = TRUE]]
      BY <1>0, <2>1 DEF Age
    <3> QED BY <1>0, <3>1, <3>2
  <2>2. CASE ~Age
    <3>1. gate' = gate
      BY <2>2 DEF SessionStart, SessionExit, TypeBegin, vars
    <3> QED BY <3>1
  <2> QED BY <2>1, <2>2
<1>3. Noticed' = Noticed
  <2>1. CASE \E c \in Chunks : TypeBegin(c)
    <3>1. typing = <<>> /\ Len(typing) = 0 /\ Len(typing') = 1 /\ typed' = typed + 1
      BY <2>1 DEF TypeBegin
    <3>2. typed \in Nat
      BY BoundAssumption DEF GInv, Typed
    <3> QED BY <3>1, <3>2 DEF Noticed
  <2>2. CASE ~\E c \in Chunks : TypeBegin(c)
    <3>1. UNCHANGED <<typed, typing>>
      BY <2>2 DEF SessionStart, SessionExit, Age, vars
    <3> QED BY <3>1 DEF Noticed
  <2> QED BY <2>1, <2>2
<1> QED BY <1>0, <1>1, <1>2, <1>3, SilentKeeps

\* The invariant of the gate that is not replaced.
LEMMA OneGateStep == ASSUME MaxGates = 1, GInv, OneGateInv, [Next]_vars PROVE OneGateInv'
<1>1. ~Dispose /\ ~RemoveAgent /\ \A p \in Strict : ~DisposeConfirmed(p)
  BY OneGate DEF Dispose, RemoveAgent, DisposeConfirmed
<1>2. ASSUME NEW p \in Strict,
             \/ InspectRevision(p) \/ InspectSession(p) \/ SendBegin(p)
             \/ FollowUp(p) \/ Acquire(p) \/ StrictBody(p) \/ StrictCr(p)
             \/ Unqueue(p) \/ GiveUp(p) \/ DisposeConfirmed(p)
      PROVE  OneGateInv'
  BY <1>1, <1>2, ComeKeeps, StrictKeeps
<1>3. ASSUME NEW p \in Plain, PlainLock(p) \/ PlainHold(p) \/ PlainBody(p) \/ PlainCr(p)
      PROVE  OneGateInv'
  BY <1>3, PlainKeeps
<1>4. ASSUME NEW p \in Producers, Abandon(p) \/ Release(p) PROVE OneGateInv'
  BY <1>4, LeaveKeeps
<1>5. ASSUME \/ \E s \in Sids : SessionStart(s)
             \/ SessionExit
             \/ \E c \in Chunks : TypeBegin(c)
             \/ Age
             \/ UNCHANGED vars
      PROVE  OneGateInv'
  BY <1>5, OutsideKeeps
<1> QED BY <1>1, <1>2, <1>3, <1>4, <1>5, TypeEndKeeps DEF Next

\* It holds of the gate nobody used yet.
LEMMA OneGateInit == ASSUME MaxGates = 1, Init PROVE OneGateInv
<1>1. 1 \in Gates /\ gate[1] = NewGate /\ gate[1].queue = <<>> /\ gate[1].revision = 0
  BY DEF Gates, Init, NewGate
<1>2. Noticed = 0
  <2>1. typed = 0
    BY DEF Init
  <2>2. Len(typing) = 0
    BY EmptySeq DEF Init
  <2> QED BY <2>1, <2>2 DEF Noticed
<1>3. InOrder(wire, gate[1].queue, Noticed)
  BY <1>1 DEF InOrder, Init
<1>4. BodyWritten
  BY DEF BodyWritten, Init
<1>5. SeenCounted
  BY <1>1, <1>2 DEF SeenCounted, Init, NoClaim, Producers
<1> QED BY <1>3, <1>4, <1>5 DEF OneGateInv

-----------------------------------------------------------------------------
(* What is written, and by whom                                            *)

\* A terminal gets human input, or the body or the Enter of one producer, to the
\* session it claimed; a strict one's claim is valid.
LEMMA Writes ==
    ASSUME GInv, [Next]_vars, NEW s \in Sids, Sent(s)
    PROVE  \/ \E f \in Seq(Piece) : /\ f # <<>> /\ wire'[s] = wire[s] \o f
                                    /\ \A k \in DOMAIN f : f[k].by = "human"
           \/ \E p \in Producers :
                 /\ step[p] = "sleep" /\ s = claim[p].sid /\ step'[p] # "sleep"
                 /\ wire'[s] = Append(wire[s], Cr(p))
                 /\ p \in Strict => Valid(p)
           \/ \E p \in Producers :
                 /\ step[p] \in {"owner", "held"} /\ s = claim[p].sid
                 /\ step'[p] = "sleep" /\ claim'[p] = claim[p]
                 /\ wire'[s] = Append(wire[s], Body(p))
                 /\ p \in Strict => Valid(p)
<1> DEFINE Goal ==
           \/ \E f \in Seq(Piece) : /\ f # <<>> /\ wire'[s] = wire[s] \o f
                                    /\ \A k \in DOMAIN f : f[k].by = "human"
           \/ \E p \in Producers :
                 /\ step[p] = "sleep" /\ s = claim[p].sid /\ step'[p] # "sleep"
                 /\ wire'[s] = Append(wire[s], Cr(p))
                 /\ p \in Strict => Valid(p)
           \/ \E p \in Producers :
                 /\ step[p] \in {"owner", "held"} /\ s = claim[p].sid
                 /\ step'[p] = "sleep" /\ claim'[p] = claim[p]
                 /\ wire'[s] = Append(wire[s], Body(p))
                 /\ p \in Strict => Valid(p)
<1>0. /\ wire \in [Sids -> Seq(Piece)] /\ wire[s] \in Seq(Piece) /\ wire' # wire
      /\ claim \in [Producers -> ClaimType] /\ DOMAIN step = Producers
  BY DEF GInv, Typed, StepsFit, Sent
<1>1. ASSUME NEW p \in Producers, wire' = FlushTo(wire, gate[claim[p].gate].queue)
      PROVE  Goal
  <2> DEFINE q == gate[claim[p].gate].queue
             f == Flushed(q)
  <2>1. q \in Seq(Queued)
    BY FieldsTyped
  <2>2. f \in Seq([by : {"human"}, n : 1 .. MaxTyped])
    BY <2>1, FlushShape
  <2>3. f \in Seq(Piece) /\ \A k \in DOMAIN f : f[k].by = "human"
    <3> DEFINE H == [by : {"human"}, n : 1 .. MaxTyped]
    <3>0. H \subseteq Piece /\ f \in Seq(H)
      BY <2>2 DEF Piece
    <3> HIDE DEF H, f
    <3>1. f \in Seq(Piece)
      BY <3>0, SeqMonotonic
    <3> USE DEF f
    <3>2. \A k \in DOMAIN f : f[k] \in [by : {"human"}, n : 1 .. MaxTyped]
      BY <2>2, LenProperties
    <3> QED BY <3>1, <3>2
  <2>4. wire'[s] = wire[s] \o f
    BY <1>1, <2>1, FlushToShape DEF GInv, Sent
  <2>5. f # <<>>
    BY <1>0, <2>4, ConcatEmptySeq DEF Sent
  <2> QED BY <2>3, <2>4, <2>5
<1>2. ASSUME NEW p \in Producers, NEW x \in {Body(p), Cr(p)},
             wire' = [wire EXCEPT ![claim[p].sid] = Append(@, x)],
             p \in Strict => Valid(p),
             \/ x = Cr(p) /\ step[p] = "sleep" /\ step'[p] # "sleep"
             \/ /\ x = Body(p) /\ step[p] \in {"owner", "held"} /\ step'[p] = "sleep"
                /\ claim'[p] = claim[p]
      PROVE  Goal
  <2>1. s = claim[p].sid
    BY <1>0, <1>2 DEF Sent
  <2>2. wire'[s] = Append(wire[s], x)
    BY <1>0, <1>2, <2>1
  <2> QED BY <1>2, <2>1, <2>2
<1>3. CASE TypeEnd
  <2>1. /\ running /\ wire' = [wire EXCEPT ![cur] = Append(@, Human(typed))]
    BY <1>0, <1>3 DEF TypeEnd
  <2>2. s = cur /\ wire'[s] = Append(wire[s], Human(typed))
    BY <1>0, <2>1 DEF Sent
  <2>3. Human(typed) \in Piece
    <3>1. PICK i \in Gates, c \in Chunks : typing = <<[gate |-> i, chunk |-> c]>>
      BY <1>3 DEF GInv, Typed, TypeEnd
    <3>2. Len(typing) = 1
      BY <3>1
    <3>3. gate[i].revision + 1 <= typed /\ gate[i].revision \in Nat /\ typed \in 0 .. MaxTyped
      BY <3>2, FieldsTyped DEF GInv, Counted, Typed
    <3> QED BY <3>3, BoundAssumption DEF Piece, Human
  <2> DEFINE f == <<Human(typed)>>
  <2>4. f \in Seq(Piece) /\ f # <<>> /\ \A k \in DOMAIN f : f[k].by = "human"
    BY <2>3 DEF Human
  <2>5. wire'[s] = wire[s] \o f
    BY <1>0, <2>2, <2>3, AppendIsConcat
  <2> QED BY <2>4, <2>5
<1>4. ASSUME NEW p \in Producers, Unqueue(p) \/ Release(p) PROVE Goal
  BY <1>1, <1>4 DEF Unqueue, Release
<1>5. ASSUME NEW p \in Producers,
             \/ p \in Strict /\ (StrictBody(p) \/ StrictCr(p))
             \/ p \in Plain /\ (PlainBody(p) \/ PlainCr(p))
      PROVE  Goal
  <2>1. p \notin Strict \/ p \notin Plain
    BY KindsAssumption
  <2>2. CASE StrictBody(p) /\ p \in Strict
    BY <1>0, <1>2, <2>2 DEF StrictBody, Goto
  <2>3. CASE StrictCr(p) /\ p \in Strict
    BY <1>0, <1>2, <2>3 DEF StrictCr, GotoAs
  <2>4. CASE PlainBody(p) /\ p \in Plain
    BY <1>0, <1>2, <2>1, <2>4 DEF PlainBody, Goto
  <2>5. CASE PlainCr(p) /\ p \in Plain
    BY <1>0, <1>2, <2>1, <2>5 DEF PlainCr, Goto
  <2> QED BY <1>5, <2>2, <2>3, <2>4, <2>5
<1>6. \/ TypeEnd
      \/ \E p \in Producers : Unqueue(p) \/ Release(p)
      \/ \E p \in Producers :
            \/ p \in Strict /\ (StrictBody(p) \/ StrictCr(p))
            \/ p \in Plain /\ (PlainBody(p) \/ PlainCr(p))
  <2>1. CASE \/ \E t \in Sids : SessionStart(t)
             \/ SessionExit
             \/ \E c \in Chunks : TypeBegin(c)
             \/ Age \/ Dispose \/ RemoveAgent \/ UNCHANGED vars
             \/ \E p \in Strict :
                   \/ InspectRevision(p) \/ InspectSession(p) \/ SendBegin(p)
                   \/ FollowUp(p) \/ GiveUp(p) \/ DisposeConfirmed(p) \/ Acquire(p)
             \/ \E p \in Plain : PlainLock(p) \/ PlainHold(p)
             \/ \E p \in Producers : Abandon(p)
    BY <1>0, <2>1 DEF SessionStart, SessionExit, TypeBegin, Age, Dispose, RemoveAgent, vars,
        InspectRevision, InspectSession, SendBegin, FollowUp, GiveUp, DisposeConfirmed,
        Acquire, PlainLock, PlainHold, Abandon
  <2> QED BY <2>1 DEF Next, Producers
<1>7. Goal
  BY <1>3, <1>4, <1>5, <1>6
<1> QED BY <1>7

\* The last piece of an automated write says who wrote it.
LEMMA AutoWrites ==
    ASSUME GInv, [Next]_vars, NEW s \in Sids, Sent(s), NEW p \in Producers,
           LastOf(wire'[s]) \in {Body(p), Cr(p)}
    PROVE  /\ s = claim[p].sid /\ (p \in Strict => Valid(p))
           /\ LastOf(wire'[s]) = Cr(p) => step[p] = "sleep"
<1>0. wire[s] \in Seq(Piece) /\ \A q \in Producers : Body(q) \in Piece /\ Cr(q) \in Piece
  BY DEF GInv, Typed, Body, Cr, Piece
<1>1. ASSUME NEW f \in Seq(Piece), f # <<>>, wire'[s] = wire[s] \o f,
             \A k \in DOMAIN f : f[k].by = "human"
      PROVE  FALSE
  <2>1. Len(f) \in Nat /\ Len(f) # 0 /\ DOMAIN f = 1 .. Len(f) /\ Len(wire[s]) \in Nat
    BY <1>0, <1>1
  <2>2. LastOf(wire'[s]) = f[Len(f)]
    <3>1. Len(wire'[s]) = Len(wire[s]) + Len(f)
      BY <1>0, <1>1, ConcatProperties
    <3>2. Len(wire[s]) + Len(f) \in 1 .. Len(wire[s]) + Len(f)
      BY <2>1
    <3>3. (wire[s] \o f)[Len(wire[s]) + Len(f)] = f[Len(f)]
      BY <1>0, <2>1, <3>2
    <3> QED BY <1>1, <3>1, <3>3 DEF LastOf
  <2>3. f[Len(f)].by = "human"
    BY <1>1, <2>1
  <2> QED BY <2>2, <2>3 DEF Body, Cr
<1>2. ASSUME NEW q \in Producers, NEW x \in {Body(q), Cr(q)}, wire'[s] = Append(wire[s], x)
      PROVE  LastOf(wire'[s]) = x /\ q = p
  <2>1. LastOf(wire'[s]) = x
    BY <1>0, <1>2, AppendProperties DEF LastOf
  <2> QED BY <2>1 DEF Body, Cr
<1>3. Body(p) # Cr(p)
  BY DEF Body, Cr
<1> QED BY <1>1, <1>2, <1>3, Writes

\* Of an agent whose gate is not replaced: what a person types reaches each
\* terminal in the order it was typed, through every submission and flush.
THEOREM HumanOrder == MaxGates = 1 => (Spec => []HumanInOrder)
<1> SUFFICES ASSUME MaxGates = 1 PROVE Spec => []HumanInOrder
  OBVIOUS
<1>1. Init => GInv /\ OneGateInv
  BY GInitKeeps, OneGateInit
<1>2. (GInv /\ OneGateInv) /\ [Next]_vars => (GInv /\ OneGateInv)'
  BY GStepKeeps, OneGateStep
<1>3. GInv /\ OneGateInv => HumanInOrder
  BY DEF OneGateInv, InOrder, HumanInOrder
<1> QED BY <1>1, <1>2, <1>3, PTL DEF Spec

\* Of an agent whose gate is not replaced: an automated Enter submits exactly
\* the body its producer wrote, with nothing between the two.
THEOREM EnterFollowsBody == MaxGates = 1 => (Spec => CrFollowsItsBody)
<1> SUFFICES ASSUME MaxGates = 1 PROVE Spec => CrFollowsItsBody
  OBVIOUS
<1>1. Init => GInv /\ OneGateInv
  BY GInitKeeps, OneGateInit
<1>2. (GInv /\ OneGateInv) /\ [Next]_vars => (GInv /\ OneGateInv)'
  BY GStepKeeps, OneGateStep
<1>3. (GInv /\ OneGateInv) /\ [Next]_vars =>
         [\A p \in Producers, s \in Sids :
             CrSent(p, s) => wire[s] # <<>> /\ LastOf(wire[s]) = Body(p)]_vars
  <2> SUFFICES ASSUME GInv, OneGateInv, [Next]_vars,
                      NEW p \in Producers, NEW s \in Sids, CrSent(p, s)
               PROVE  wire[s] # <<>> /\ LastOf(wire[s]) = Body(p)
    OBVIOUS
  <2>1. s = claim[p].sid /\ step[p] = "sleep"
    BY AutoWrites DEF CrSent
  <2> QED BY <2>1 DEF OneGateInv, BodyWritten
<1> QED BY <1>1, <1>2, <1>3, PTL DEF Spec, CrFollowsItsBody

\* Of an agent whose gate is not replaced: a confirmed send writes to a terminal
\* only while nothing was typed to it since the confirmation.
THEOREM SendsOverSeenInput == MaxGates = 1 => (Spec => OnlyOverSeenInput)
<1> SUFFICES ASSUME MaxGates = 1 PROVE Spec => OnlyOverSeenInput
  OBVIOUS
<1>1. Init => GInv /\ OneGateInv
  BY GInitKeeps, OneGateInit
<1>2. (GInv /\ OneGateInv) /\ [Next]_vars => (GInv /\ OneGateInv)'
  BY GStepKeeps, OneGateStep
<1>3. (GInv /\ OneGateInv) /\ [Next]_vars =>
         [\A p \in Strict, s \in Sids :
             Sent(s) /\ LastOf(wire'[s]) \in {Body(p), Cr(p)} =>
                 \A n \in HumanPieces(s) : n <= claim[p].seen]_vars
  <2> SUFFICES ASSUME GInv, OneGateInv, [Next]_vars,
                      NEW p \in Strict, NEW s \in Sids,
                      Sent(s), LastOf(wire'[s]) \in {Body(p), Cr(p)},
                      NEW n \in HumanPieces(s)
               PROVE  n <= claim[p].seen
    OBVIOUS
  <2>1. p \in Producers
    BY DEF Producers
  <2>2. Valid(p)
    BY <2>1, AutoWrites
  <2>3. claim[p].seen = Noticed
    BY <2>1, <2>2, OneGate DEF Valid, OneGateInv, SeenCounted
  <2>4. PICK i \in DOMAIN wire[s] : wire[s][i].by = "human" /\ n = wire[s][i].n
    BY DEF HumanPieces
  <2> QED BY <2>3, <2>4 DEF OneGateInv, InOrder
<1> QED BY <1>1, <1>2, <1>3, PTL DEF Spec, OnlyOverSeenInput

-----------------------------------------------------------------------------
(* The gates of an agent that is disposed of and comes back                *)

\* Gates are replaced by later ones; a claim is on the agent's gate or an older one.
LEMMA ClaimPastKeeps == ASSUME GInv, ClaimPast, [Next]_vars PROVE ClaimPast' /\ current <= current'
<1>0. /\ current \in Nat /\ current >= 1 /\ claim \in [Producers -> ClaimType]
      /\ \A d \in ClaimType : d.gate \in Nat
      /\ \A p \in Producers : claim[p] \in ClaimType
      /\ NoClaim.gate = 1
  BY GatesAssumption DEF GInv, Typed, Gates, ClaimType, NoClaim
<1>1. current' = current \/ (current' = current + 1 /\ claim' = claim)
  BY DEF Next, SessionStart, SessionExit, TypeBegin, TypeEnd, Age, InspectRevision,
         InspectSession, SendBegin, FollowUp, Acquire, StrictBody, StrictCr, Unqueue, GiveUp,
         DisposeConfirmed, PlainLock, PlainHold, PlainBody, PlainCr, Abandon, Release, Dispose,
         RemoveAgent, vars
<1>2. claim' = claim \/ \E p \in Producers : \E c :
         claim' = [claim EXCEPT ![p] = c] /\ c.gate \in {claim[p].gate, current, 1}
  <2>1. ASSUME NEW p \in Strict,
               \/ InspectRevision(p) \/ InspectSession(p) \/ SendBegin(p)
               \/ FollowUp(p) \/ Acquire(p) \/ StrictBody(p) \/ StrictCr(p)
               \/ Unqueue(p) \/ GiveUp(p) \/ DisposeConfirmed(p)
        PROVE  claim' = claim \/ \E c : /\ claim' = [claim EXCEPT ![p] = c]
                                        /\ c.gate \in {claim[p].gate, current, 1}
    <3>0. claim[p] \in ClaimType
      BY <1>0 DEF Producers
    <3>1. \A x, y : /\ [NoClaim EXCEPT !.revision = x, !.seen = y].gate = 1
      BY DEF NoClaim
    <3>2. \A x : /\ [claim[p] EXCEPT !.sid = x].gate = claim[p].gate
                 /\ [claim[p] EXCEPT !.generation = x].gate = claim[p].gate
                 /\ [claim[p] EXCEPT !.ok = x].gate = claim[p].gate
                 /\ [claim[p] EXCEPT !.gate = current].gate = current
      BY <3>0 DEF ClaimType
    <3>4. CASE InspectRevision(p)
      BY <3>1, <3>4 DEF InspectRevision, GotoAs
    <3>5. CASE InspectSession(p) \/ SendBegin(p) \/ Acquire(p) \/ StrictBody(p) \/ StrictCr(p)
      BY <3>2, <3>5 DEF InspectSession, SendBegin, Acquire, StrictBody, StrictCr, Goto, GotoAs
    <3>6. CASE FollowUp(p)
      <4> DEFINE c == [sid |-> cur, gate |-> current,
                       generation |-> gate[current].generation,
                       revision |-> gate[current].revision, ok |-> FALSE,
                       seen |-> Noticed]
      <4>1. c.gate = current
        OBVIOUS
      <4>2. claim' = [claim EXCEPT ![p] = c]
        BY <3>6 DEF FollowUp, GotoAs
      <4> HIDE DEF c
      <4> QED BY <4>1, <4>2
    <3>7. CASE Unqueue(p) \/ DisposeConfirmed(p)
      BY <3>7 DEF Unqueue, Goto, DisposeConfirmed, Dispose
    <3>8. CASE GiveUp(p)
      BY <1>0, <3>8 DEF GiveUp, GotoAs
    <3> QED BY <2>1, <3>4, <3>5, <3>6, <3>7, <3>8
  <2>2. ASSUME NEW p \in Plain, PlainLock(p) \/ PlainHold(p) \/ PlainBody(p) \/ PlainCr(p)
        PROVE  claim' = claim \/ \E c : /\ claim' = [claim EXCEPT ![p] = c]
                                        /\ c.gate \in {claim[p].gate, current, 1}
    <3>1. [NoClaim EXCEPT !.sid = cur, !.gate = current].gate = current
      BY DEF NoClaim
    <3> QED BY <1>0, <2>2, <3>1 DEF PlainLock, PlainHold, PlainBody, PlainCr, Goto, GotoAs
  <2>3. ASSUME NEW p \in Producers, Abandon(p) \/ Release(p)
        PROVE  claim' = claim \/ \E c : /\ claim' = [claim EXCEPT ![p] = c]
                                        /\ c.gate \in {claim[p].gate, current, 1}
    <3>1. [claim[p] EXCEPT !.ok = FALSE].gate = claim[p].gate
      BY <1>0 DEF ClaimType
    <3> QED BY <1>0, <2>3, <3>1 DEF Abandon, Release, Goto, GotoAs
  <2>4. ASSUME \/ \E s \in Sids : SessionStart(s)
               \/ SessionExit
               \/ \E c \in Chunks : TypeBegin(c)
               \/ TypeEnd \/ Age \/ Dispose \/ RemoveAgent \/ UNCHANGED vars
        PROVE  claim' = claim
    BY <2>4 DEF SessionStart, SessionExit, TypeBegin, TypeEnd, Age, Dispose, RemoveAgent, vars
  <2> QED BY <2>1, <2>2, <2>3, <2>4 DEF Next, Producers
<1>3. ASSUME NEW q \in Producers PROVE claim'[q].gate <= current
  <2>1. claim[q].gate \in Nat /\ claim[q].gate <= current
    BY <1>0 DEF ClaimPast
  <2>2. CASE claim' = claim
    BY <2>1, <2>2
  <2>3. CASE claim' # claim
    <3>0. PICK p \in Producers :
             \E c : claim' = [claim EXCEPT ![p] = c] /\ c.gate \in {claim[p].gate, current, 1}
      BY <1>2, <2>3
    <3>1. PICK c : claim' = [claim EXCEPT ![p] = c] /\ c.gate \in {claim[p].gate, current, 1}
      BY <3>0
    <3>2. CASE q = p
      BY <1>0, <2>1, <3>1, <3>2
    <3>3. CASE q # p
      BY <1>0, <2>1, <3>1, <3>3
    <3> QED BY <3>2, <3>3
  <2> QED BY <2>2, <2>3
<1>4. \A q \in Producers : claim'[q].gate \in Nat
  <2>1. claim' \in [Producers -> ClaimType]
    BY GStepKeeps DEF GInv, Typed
  <2> QED BY <1>0, <2>1
<1>5. current <= current' /\ current' \in Nat
  BY <1>0, <1>1
<1>6. ASSUME NEW q \in Producers PROVE claim'[q].gate <= current'
  <2>1. claim'[q].gate <= current /\ claim'[q].gate \in Nat
    BY <1>3, <1>4
  <2> QED BY <1>0, <1>5, <2>1
<1> QED BY <1>5, <1>6 DEF ClaimPast

\* Who sleeps after a step slept before it, or has just written its body.
LEMMA SleepSteps ==
    ASSUME GInv, [Next]_vars, NEW p \in Strict, step'[p] = "sleep"
    PROVE  \/ step[p] = "sleep" /\ claim'[p] = claim[p]
           \/ /\ Valid(p) /\ claim'[p] = claim[p]
              /\ wire' = [wire EXCEPT ![claim[p].sid] = Append(@, Body(p))]
              /\ step[p] = "owner"
<1>0. /\ DOMAIN step = Producers /\ claim \in [Producers -> ClaimType]
      /\ p \in Producers /\ p \notin Plain
  BY KindsAssumption DEF GInv, Typed, StepsFit, Producers
<1>1. ASSUME NEW q \in Producers, NEW l, NEW c,
             step' = [step EXCEPT ![q] = l], claim' = [claim EXCEPT ![q] = c], l # "sleep"
      PROVE  step[p] = "sleep" /\ claim'[p] = claim[p]
  BY <1>0, <1>1
<1>2. ASSUME NEW q \in Producers, NEW l,
             step' = [step EXCEPT ![q] = l], claim' = claim, l # "sleep"
      PROVE  step[p] = "sleep" /\ claim'[p] = claim[p]
  BY <1>0, <1>2
<1>3. ASSUME NEW q \in Strict,
             \/ InspectRevision(q) \/ InspectSession(q) \/ SendBegin(q)
             \/ FollowUp(q) \/ Acquire(q) \/ StrictCr(q) \/ Unqueue(q) \/ GiveUp(q)
      PROVE  step[p] = "sleep" /\ claim'[p] = claim[p]
  <2>1. q \in Producers
    BY DEF Producers
  <2>2. CASE Unqueue(q)
    BY <1>2, <2>1, <2>2 DEF Unqueue, Goto
  <2>3. CASE InspectRevision(q) \/ InspectSession(q) \/ SendBegin(q) \/ FollowUp(q)
    BY <1>1, <2>1, <2>3 DEF InspectRevision, InspectSession, SendBegin, FollowUp, GotoAs
  <2>4. CASE Acquire(q) \/ StrictCr(q) \/ GiveUp(q)
    BY <1>1, <2>1, <2>4 DEF Acquire, StrictCr, GiveUp, GotoAs
  <2> QED BY <1>3, <2>2, <2>3, <2>4
<1>4. ASSUME NEW q \in Strict, StrictBody(q)
      PROVE  \/ step[p] = "sleep" /\ claim'[p] = claim[p]
             \/ /\ q = p /\ Valid(p) /\ claim'[p] = claim[p]
                /\ wire' = [wire EXCEPT ![claim[p].sid] = Append(@, Body(p))]
                /\ step[p] = "owner"
  <2>1. q \in Producers
    BY DEF Producers
  <2>2. CASE Valid(q) /\ ~gate[claim[q].gate].uncommitted
    BY <1>0, <1>4, <2>1, <2>2 DEF StrictBody, Goto
  <2>3. CASE ~(Valid(q) /\ ~gate[claim[q].gate].uncommitted)
    BY <1>1, <1>4, <2>1, <2>3 DEF StrictBody, GotoAs
  <2> QED BY <2>2, <2>3
<1>5. ASSUME NEW q \in Plain, PlainLock(q) \/ PlainHold(q) \/ PlainBody(q) \/ PlainCr(q)
      PROVE  step[p] = "sleep" /\ claim'[p] = claim[p]
  <2>1. q \in Producers /\ q # p
    BY <1>0 DEF Producers
  <2> QED BY <1>0, <1>5, <2>1 DEF PlainLock, PlainHold, PlainBody, PlainCr, Goto, GotoAs
<1>6. ASSUME NEW q \in Producers, Abandon(q) \/ Release(q)
      PROVE  step[p] = "sleep" /\ claim'[p] = claim[p]
  BY <1>1, <1>2, <1>6 DEF Abandon, Release, Goto, GotoAs
<1>7. ASSUME \/ \E s \in Sids : SessionStart(s)
             \/ SessionExit
             \/ \E c \in Chunks : TypeBegin(c)
             \/ \E q \in Strict : DisposeConfirmed(q)
             \/ TypeEnd \/ Age \/ Dispose \/ RemoveAgent \/ UNCHANGED vars
      PROVE  step[p] = "sleep" /\ claim'[p] = claim[p]
  BY <1>7 DEF SessionStart, SessionExit, TypeBegin, DisposeConfirmed, TypeEnd, Age, Dispose,
              RemoveAgent, vars
<1> QED BY <1>3, <1>4, <1>5, <1>6, <1>7 DEF Next

\* Among strict producers the body of who sleeps stays the last that was written.
LEMMA BodyLastKeeps ==
    ASSUME Plain = {}, GInv, ClaimPast, BodyLast, [Next]_vars
    PROVE  BodyLast'
<1> SUFFICES ASSUME NEW p \in Strict, step'[p] = "sleep", gate'[claim'[p].gate].generation = 0
             PROVE  \E i \in DOMAIN wire'[claim'[p].sid] :
                       /\ wire'[claim'[p].sid][i] = Body(p)
                       /\ \A j \in DOMAIN wire'[claim'[p].sid] :
                             wire'[claim'[p].sid][j].by # "human" => j <= i
  BY DEF BodyLast
<1> DEFINE s == claim[p].sid
<1>0. /\ p \in Producers /\ claim'[p] = claim[p] /\ s \in Sids /\ claim[p].gate \in Gates
      /\ wire \in [Sids -> Seq(Piece)] /\ wire[s] \in Seq(Piece) /\ step[p] \in AtGate
      /\ Body(p) \in Piece /\ \A q \in Producers : q \in Strict
  BY SleepSteps, FieldsTyped DEF Producers, GInv, Typed, StepsFit, AtGate, Piece, Body
<1>1. claim[p].gate = current /\ gate[current].generation = 0 /\ current' = current
  <2>1. /\ gate'[claim[p].gate].generation = 0 /\ current \in Nat
        /\ current' \in Nat /\ current <= current' /\ claim[p].gate \in Nat
        /\ claim[p].gate <= current /\ current \in Gates
    BY <1>0, ClaimPastKeeps, GStepKeeps DEF GInv, Typed, Gates, ClaimPast
  <2>2. ~(claim[p].gate < current')
    <3>1. GInv'
      BY GStepKeeps
    <3>2. \A i \in Gates : gate'[i].generation = IF i < current' THEN 1 ELSE 0
      BY <3>1 DEF GInv, Generations
    <3> QED BY <1>0, <2>1, <3>2
  <2> QED BY <1>0, <2>1, <2>2 DEF GInv, Generations
<1>2. CASE wire'[s] = wire[s]
  <2>1. step[p] = "sleep"
    <3> SUFFICES ASSUME wire' = [wire EXCEPT ![s] = Append(@, Body(p))] PROVE FALSE
      BY SleepSteps
    <3>1. wire'[s] = Append(wire[s], Body(p))
      BY <1>0
    <3>2. Len(wire'[s]) = Len(wire[s]) + 1 /\ Len(wire[s]) \in Nat
      BY <1>0, <3>1, AppendProperties, LenProperties
    <3> QED BY <1>2, <3>2
  <2> QED BY <1>0, <1>1, <1>2, <2>1 DEF BodyLast
<1>3. ASSUME NEW f \in Seq(Piece), f # <<>>, wire'[s] = wire[s] \o f,
             \A k \in DOMAIN f : f[k].by = "human"
      PROVE  \E i \in DOMAIN wire'[s] :
                /\ wire'[s][i] = Body(p)
                /\ \A j \in DOMAIN wire'[s] : wire'[s][j].by # "human" => j <= i
  <2>0. /\ Len(wire[s]) \in Nat /\ DOMAIN wire[s] = 1 .. Len(wire[s])
        /\ Len(f) \in Nat /\ DOMAIN f = 1 .. Len(f)
        /\ DOMAIN wire'[s] = 1 .. Len(wire[s]) + Len(f)
        /\ \A k \in DOMAIN wire[s] : wire'[s][k] = wire[s][k]
    <3>1. /\ wire[s] \o f \in Seq(Piece) /\ Len(wire[s] \o f) = Len(wire[s]) + Len(f)
          /\ \A k \in 1 .. Len(wire[s]) + Len(f) :
                (wire[s] \o f)[k] = IF k <= Len(wire[s]) THEN wire[s][k] ELSE f[k - Len(wire[s])]
      BY <1>0, <1>3, ConcatProperties
    <3>2. /\ Len(wire[s]) \in Nat /\ DOMAIN wire[s] = 1 .. Len(wire[s])
          /\ Len(f) \in Nat /\ DOMAIN f = 1 .. Len(f)
          /\ DOMAIN (wire[s] \o f) = 1 .. Len(wire[s] \o f)
      BY <1>0, <1>3, <3>1, LenProperties
    <3>3. \A k \in 1 .. Len(wire[s]) : k \in 1 .. Len(wire[s]) + Len(f) /\ k <= Len(wire[s])
      BY <3>2
    <3> QED BY <1>3, <3>1, <3>2, <3>3
  <2>1. step[p] = "sleep"
    <3> SUFFICES ASSUME wire' = [wire EXCEPT ![s] = Append(@, Body(p))] PROVE FALSE
      BY SleepSteps
    <3>1. wire'[s] = Append(wire[s], Body(p))
      BY <1>0
    <3>2. Len(wire'[s]) = Len(wire[s]) + 1 /\ wire'[s][Len(wire[s]) + 1] = Body(p)
      BY <1>0, <3>1, AppendProperties
    <3>3. Len(wire'[s]) = Len(wire[s]) + Len(f)
      BY <1>0, <1>3, ConcatProperties
    <3>4. Len(f) = 1
      BY <2>0, <3>2, <3>3
    <3>5. /\ Len(wire[s]) + 1 \in DOMAIN (wire[s] \o f)
          /\ (wire[s] \o f)[Len(wire[s]) + 1] = Body(p)
      BY <1>3, <2>0, <3>2, <3>4
    <3>6. (wire[s] \o f)[Len(wire[s]) + 1] = f[1] /\ 1 \in DOMAIN f
      BY <1>0, <2>0, <3>4, <3>5, ConcatPart
    <3> QED BY <1>3, <3>5, <3>6 DEF Body
  <2>2. PICK i \in DOMAIN wire[s] :
           /\ wire[s][i] = Body(p)
           /\ \A j \in DOMAIN wire[s] : wire[s][j].by # "human" => j <= i
    BY <1>1, <2>1 DEF BodyLast
  <2>3. i \in DOMAIN wire'[s] /\ wire'[s][i] = Body(p)
    BY <2>0, <2>2
  <2>4. ASSUME NEW j \in DOMAIN wire'[s], wire'[s][j].by # "human" PROVE j <= i
    <3>1. j \in DOMAIN (wire[s] \o f) /\ (wire[s] \o f)[j].by # "human"
      BY <1>3, <2>4
    <3>2. j \in DOMAIN wire[s] /\ (wire[s] \o f)[j] = wire[s][j]
      BY <1>0, <1>3, <3>1, ConcatPart
    <3> QED BY <2>2, <3>1, <3>2
  <2> QED BY <2>3, <2>4
<1>4. ASSUME NEW q \in Producers, NEW x \in {Body(q), Cr(q)}, x \in Piece, Valid(q), step[q] \in AtGate,
             x = Cr(q) => step'[q] # "sleep",
             wire'[s] = Append(wire[s], x)
      PROVE  \E i \in DOMAIN wire'[s] :
                /\ wire'[s][i] = Body(p)
                /\ \A j \in DOMAIN wire'[s] : wire'[s][j].by # "human" => j <= i
  <2>1. q = p
    <3>1. claim[q].gate \in Gates /\ gate[claim[q].gate].generation = 0
      BY <1>4, FieldsTyped DEF Valid
    <3>2. ~(claim[q].gate < current)
      BY <3>1 DEF GInv, Generations
    <3>3. claim[q].gate <= current /\ claim[q].gate \in Nat /\ current \in Nat
      BY <3>1 DEF ClaimPast, GInv, Typed, Gates
    <3>4. claim[q].gate = claim[p].gate
      BY <1>1, <3>2, <3>3
    <3> QED BY <1>0, <1>4, <3>4, OwnerAt
  <2>2. x = Body(p)
    BY <1>4, <2>1
  <2>3. /\ DOMAIN wire'[s] = 1 .. Len(wire[s]) + 1 /\ Len(wire[s]) \in Nat
        /\ wire'[s][Len(wire[s]) + 1] = Body(p)
    <3>1. /\ wire'[s] \in Seq(Piece) /\ Len(wire'[s]) = Len(wire[s]) + 1
          /\ wire'[s][Len(wire[s]) + 1] = x
      BY <1>0, <1>4, AppendProperties
    <3> QED BY <1>0, <2>2, <3>1, LenProperties
  <2>4. Len(wire[s]) + 1 \in DOMAIN wire'[s]
    BY <2>3
  <2>5. \A j \in DOMAIN wire'[s] : j <= Len(wire[s]) + 1
    BY <2>3
  <2> QED BY <2>3, <2>4, <2>5
<1>5. CASE wire'[s] # wire[s]
  <2>1. \A q \in Producers : Body(q) \in Piece /\ Cr(q) \in Piece
    BY DEF Body, Cr, Piece
  <2>2. \E i \in DOMAIN wire'[s] :
           /\ wire'[s][i] = Body(p)
           /\ \A j \in DOMAIN wire'[s] : wire'[s][j].by # "human" => j <= i
    <3>1. Sent(s)
      BY <1>5 DEF Sent
    <3>2. \/ \E f \in Seq(Piece) : /\ f # <<>> /\ wire'[s] = wire[s] \o f
                                    /\ \A k \in DOMAIN f : f[k].by = "human"
          \/ \E q \in Producers : \E x \in {Body(q), Cr(q)} :
                /\ Valid(q) /\ step[q] \in AtGate /\ wire'[s] = Append(wire[s], x)
                /\ x = Cr(q) => step'[q] # "sleep"
      <4>1. \A q \in Producers : Body(q) # Cr(q)
        BY DEF Body, Cr
      <4> QED BY <1>0, <3>1, <4>1, Writes DEF AtGate
    <3>3. CASE \E f \in Seq(Piece) : /\ f # <<>> /\ wire'[s] = wire[s] \o f
                                     /\ \A k \in DOMAIN f : f[k].by = "human"
      BY <1>3, <3>3
    <3>4. CASE \E q \in Producers : \E x \in {Body(q), Cr(q)} :
                  /\ Valid(q) /\ step[q] \in AtGate /\ wire'[s] = Append(wire[s], x)
                  /\ x = Cr(q) => step'[q] # "sleep"
      BY <1>4, <2>1, <3>4
    <3> QED BY <3>2, <3>3, <3>4
  <2> QED BY <1>0, <2>2
<1> QED BY <1>0, <1>2, <1>5

\* Among strict producers, however often the agent is disposed of and comes
\* back: an Enter never submits what another wrote, nor goes to a session its
\* body did not go to.
THEOREM EnterClosesOwnBody == Plain = {} => (Spec => CrClosesOwnBody)
<1> SUFFICES ASSUME Plain = {} PROVE Spec => CrClosesOwnBody
  OBVIOUS
<1> DEFINE I == GInv /\ ClaimPast /\ BodyLast
<1>1. Init => I
  <2> SUFFICES ASSUME Init PROVE ClaimPast /\ BodyLast
    BY GInitKeeps
  <2>1. ClaimPast
    BY DEF ClaimPast, Init, NoClaim
  <2>2. BodyLast
    BY DEF BodyLast, Init, Producers
  <2> QED BY <2>1, <2>2
<1>2. I /\ [Next]_vars => I'
  BY GStepKeeps, ClaimPastKeeps, BodyLastKeeps
<1>3. I /\ [Next]_vars =>
         [\A p \in Producers, s \in Sids :
             CrSent(p, s) =>
                 LET mine == {i \in DOMAIN wire[s] : wire[s][i].by # "human"}
                 IN \E i \in mine : /\ wire[s][i] = Body(p)
                                    /\ \A j \in mine : j <= i]_vars
  <2> SUFFICES ASSUME I, [Next]_vars, NEW p \in Producers, NEW s \in Sids, CrSent(p, s)
               PROVE  LET mine == {i \in DOMAIN wire[s] : wire[s][i].by # "human"}
                      IN \E i \in mine : /\ wire[s][i] = Body(p)
                                         /\ \A j \in mine : j <= i
    OBVIOUS
  <2>1. s = claim[p].sid /\ step[p] = "sleep" /\ p \in Strict /\ Valid(p)
    BY AutoWrites DEF CrSent, Producers
  <2>2. gate[claim[p].gate].generation = 0
    BY <2>1, FieldsTyped DEF Valid
  <2>3. PICK i \in DOMAIN wire[s] :
           /\ wire[s][i] = Body(p)
           /\ \A j \in DOMAIN wire[s] : wire[s][j].by # "human" => j <= i
    BY <2>1, <2>2 DEF BodyLast
  <2>4. wire[s][i].by # "human"
    BY <2>3 DEF Body
  <2> QED BY <2>3, <2>4
<1> HIDE DEF I
<1>4. Spec => [][\A p \in Producers, s \in Sids :
             CrSent(p, s) =>
                 LET mine == {i \in DOMAIN wire[s] : wire[s][i].by # "human"}
                 IN \E i \in mine : /\ wire[s][i] = Body(p)
                                    /\ \A j \in mine : j <= i]_vars
  BY <1>1, <1>2, <1>3, PTL DEF Spec
<1> QED BY <1>4 DEF CrClosesOwnBody
=============================================================================
