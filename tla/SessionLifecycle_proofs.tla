------------------------ MODULE SessionLifecycle_proofs ------------------------
(***************************************************************************)
(* Theorems about SessionLifecycle, for every set of agents and sessions.  *)
(* For every Overlap: its types, that the registry never disagrees with a  *)
(* session's state, and that an ended session is never revived.  While no  *)
(* create runs beside an adoption or a handoff (Overlap = {}): that it     *)
(* implements AgentSession, hence one session per agent, and that the      *)
(* renderer is told the state of every agent's current session.            *)
(***************************************************************************)
EXTENDS SessionLifecycle, TLAPS

ExitSteps    == {"exitcheck", "exitstate", "exitmap", "exitemit", "exitforget"}
InstallSteps == {"slot", "announce"}

\* s has no trace in this app run: no Session object, no registry entry, no
\* wait thread, no slot.
Unknown(s) ==
    /\ state[s] = "none"
    /\ reg[s] = "absent"
    /\ ~waiting[s]
    /\ \A a \in Agents : slot[a] # s

\* An id whose shell was never spawned is unknown and held by no thread but
\* the create that drew it.
UnspawnedUnknown ==
    \A s \in Sids : child[s] = "none" =>
        /\ Unknown(s)
        /\ s \notin detached
        /\ on["lc"] = s => at["lc"] = "spawn"
        /\ on["adopt"] # s

\* While sessions are still being adopted, what sessiond holds is unknown here.
DetachedUnknown ==
    phase = "adopting" => \A s \in detached : Unknown(s) /\ on["lc"] # s

\* A session being installed has left no trace before its slot is written, is
\* Starting after that, and has no wait thread before it is announced.
Installing(t) ==
    LET s == on[t] IN
    /\ at[t] = "slot"     => Unknown(s)
    /\ at[t] = "announce" => state[s] = "starting" /\ ~waiting[s]

\* The two installing threads, and the exit thread, work on different sessions.
Apart ==
    /\ at["adopt"] \in InstallSteps =>
           /\ on["lc"] = on["adopt"] => at["lc"] = "kill"
           /\ on["adopt"] \notin detached
    /\ at["adopt"] # "idle" /\ on["lc"] = on["adopt"]
           => at["lc"] \notin {"spawn", "slot", "announce", "run"}

\* on_exit runs once per session, on a live one.
ExitingOnce ==
    /\ \A s \in Sids : waiting[s] => state[s] \in Live
    /\ at["lc"] \in ExitSteps => on["lc"] \in Sids /\ ~waiting[on["lc"]]
    /\ at["lc"] \in {"exitcheck", "exitstate"} => state[on["lc"]] \in Live

PhaseInv ==
    /\ phase # "adopting" => Idle("adopt")
    /\ phase # "quitting" => Idle("handoff")
    /\ \A t \in {"lc", "adopt"} : at[t] # "idle" => on[t] \in Sids
    /\ \A t \in {"lc", "adopt"} : at[t] = "idle" => on[t] = NoSid
    /\ at["lc"] \in {"idle", "spawn", "slot", "announce", "run", "kill"} \cup ExitSteps
    /\ at["adopt"] \in {"idle", "slot", "announce", "run"}
    /\ at["handoff"] \in {"idle", "discard", "next", "mark", "send", "drop"}
    /\ at["lc"] = "spawn" => child[on["lc"]] = "none"
    /\ at["handoff"] \in {"mark", "send", "drop"} =>
           on["handoff"] \in Sids /\ child[on["handoff"]] # "none"

IInv ==
    /\ TypeOK
    /\ PhaseInv
    /\ RegistryMatches
    /\ UnspawnedUnknown
    /\ DetachedUnknown
    /\ Installing("lc")
    /\ Installing("adopt")
    /\ Apart
    /\ ExitingOnce


-----------------------------------------------------------------------------
(* IInv is inductive                                                        *)

\* Closing a master fd kills the shells behind it and spawns none (sessiond's
\* replaced entry, an abandoned adoption, the end of the app).
LEMMA HangupOnlyKills ==
    ASSUME TypeOK, NEW S
    PROVE  /\ Hangup(S) \in [Sids -> {"none", "alive", "dead"}]
           /\ \A x \in Sids : Hangup(S)[x] = "none" <=> child[x] = "none"
BY DEF Hangup, TypeOK

\* The empty manager satisfies the invariant.
LEMMA InitKeeps == Init => IInv
BY NoSidAssumption
   DEF Init, IInv, TypeOK, PhaseInv, RegistryMatches, UnspawnedUnknown,
       DetachedUnknown, Installing, Apart, ExitingOnce, Unknown, NothingShown,
       ExitSteps, InstallSteps, Threads, Steps, States, Idle

\* create and install_session, whichever thread runs it, preserve the invariant.
LEMMA CreateKeeps ==
    ASSUME IInv,
           \/ \E a \in Agents, s \in Sids : CreateBegin(a, s)
           \/ SpawnFail
           \/ SpawnOk
           \/ \E t \in {"lc", "adopt"} : InstallSlot(t)
           \/ \E t \in {"lc", "adopt"} : InstallAnnounce(t)
           \/ \E t \in {"lc", "adopt"} : InstallRun(t)
    PROVE  IInv'
<1> USE NoSidAssumption, AgentOfAssumption, ChatsAssumption
    DEF IInv, TypeOK, PhaseInv, RegistryMatches, UnspawnedUnknown,
        DetachedUnknown, Installing, Apart, ExitingOnce, Unknown, ExitSteps,
        InstallSteps, Threads, Steps, States, Live, Idle, Goto, Enter, Leave
<1>1. ASSUME NEW a \in Agents, NEW s \in Sids, CreateBegin(a, s) PROVE IInv'
  BY <1>1, SMTT(30) DEF CreateBegin
<1>2. CASE SpawnFail
  BY <1>2, SMTT(30) DEF SpawnFail
<1>3. CASE SpawnOk
  BY <1>3, SMTT(30) DEF SpawnOk
<1>4. ASSUME NEW t \in {"lc", "adopt"}, InstallSlot(t) PROVE IInv'
  BY <1>4, SMTT(30) DEF InstallSlot
<1>5. ASSUME NEW t \in {"lc", "adopt"}, InstallAnnounce(t) PROVE IInv'
  BY <1>5, SMTT(30) DEF InstallAnnounce
<1>6. ASSUME NEW t \in {"lc", "adopt"}, InstallRun(t) PROVE IInv'
  <2>1. on[t] \in Sids /\ AgentOf[on[t]] \in Agents
    BY <1>6 DEF InstallRun
  <2>2. CASE state[on[t]] # "starting"
    BY <1>6, <2>1, <2>2, SMTT(30) DEF InstallRun
  <2>3. CASE state[on[t]] = "starting"
    <3>1. TypeOK'
      <4>1. shown' \in [Agents -> [sid : Sids \cup {NoSid}, state : States]]
        BY <1>6, <2>1, <2>3 DEF InstallRun
      <4>2. state' \in [Sids -> States]
        BY <1>6, <2>1, <2>3 DEF InstallRun
      <4>3. reg' \in [Sids -> States \cup {"absent"}]
        BY <1>6, <2>1, <2>3, SMTT(30) DEF InstallRun
      <4>4. at' \in [Threads -> Steps] /\ on' \in [Threads -> Sids \cup {NoSid}]
        BY <1>6 DEF InstallRun
      <4> QED BY <1>6, <4>1, <4>2, <4>3, <4>4 DEF InstallRun
    <3>2. PhaseInv' /\ UnspawnedUnknown' /\ DetachedUnknown' /\ Apart'
      BY <1>6, <2>1, <2>3, SMTT(30) DEF InstallRun
    <3>3. RegistryMatches'
      BY <1>6, <2>1, <2>3, SMTT(30) DEF InstallRun
    <3>4. Installing("lc")' /\ Installing("adopt")'
      BY <1>6, <2>1, <2>3, SMTT(30) DEF InstallRun
    <3>5. ExitingOnce'
      BY <1>6, <2>1, <2>3, SMTT(30) DEF InstallRun
    <3> QED BY <3>1, <3>2, <3>3, <3>4, <3>5
  <2> QED BY <2>2, <2>3
<1> QED BY <1>1, <1>2, <1>3, <1>4, <1>5, <1>6

\* dispose, the end of a shell and on_exit preserve the invariant.
LEMMA ExitKeeps ==
    ASSUME IInv,
           \/ \E a \in Agents : DisposeCheck(a)
           \/ DisposeKill
           \/ \E s \in Sids : ChildExit(s)
           \/ \E s \in Sids : OnExitBegin(s)
           \/ OnExitCheck
           \/ OnExitState
           \/ OnExitMap
           \/ OnExitEmit
           \/ OnExitForget
    PROVE  IInv'
<1> USE NoSidAssumption, AgentOfAssumption, ChatsAssumption
    DEF IInv, TypeOK, PhaseInv, RegistryMatches, UnspawnedUnknown,
        DetachedUnknown, Installing, Apart, ExitingOnce, Unknown, ExitSteps,
        InstallSteps, Threads, Steps, States, Live, Idle, Goto, Enter, Leave
<1>1. ASSUME NEW a \in Agents, DisposeCheck(a) PROVE IInv'
  BY <1>1, SMTT(30) DEF DisposeCheck
<1>2. CASE DisposeKill
  BY <1>2, SMTT(30) DEF DisposeKill
<1>3. ASSUME NEW s \in Sids, ChildExit(s) PROVE IInv'
  BY <1>3, SMTT(30) DEF ChildExit
<1>4. ASSUME NEW s \in Sids, OnExitBegin(s) PROVE IInv'
  BY <1>4, SMTT(30) DEF OnExitBegin, WaitReturns
<1>5. CASE OnExitCheck
  BY <1>5, SMTT(30) DEF OnExitCheck
<1>6. CASE OnExitState
  BY <1>6, SMTT(30) DEF OnExitState, Ended
<1>7. CASE OnExitMap
  BY <1>7, SMTT(30) DEF OnExitMap
<1>8. CASE OnExitEmit
  BY <1>8, SMTT(30) DEF OnExitEmit
<1>9. CASE OnExitForget
  BY <1>9, SMTT(30) DEF OnExitForget
<1> QED BY <1>1, <1>2, <1>3, <1>4, <1>5, <1>6, <1>7, <1>8, <1>9

\* handoff_all and handoff_one preserve the invariant.
LEMMA HandoffKeeps ==
    ASSUME IInv,
           \/ HandoffBegin
           \/ \E a \in Agents : HandoffDiscard(a)
           \/ HandoffList
           \/ \E a \in Agents : HandoffTake(a)
           \/ HandoffMark
           \/ HandoffOk
           \/ HandoffErr
           \/ HandoffDrop
    PROVE  IInv'
<1> USE NoSidAssumption, AgentOfAssumption, ChatsAssumption
    DEF IInv, TypeOK, PhaseInv, RegistryMatches, UnspawnedUnknown,
        DetachedUnknown, Installing, Apart, ExitingOnce, Unknown, ExitSteps,
        InstallSteps, Threads, Steps, States, Live, Idle, Goto, Enter, Leave
<1>1. CASE HandoffBegin
  BY <1>1, SMTT(30) DEF HandoffBegin
<1>2. ASSUME NEW a \in Agents, HandoffDiscard(a) PROVE IInv'
  BY <1>2, SMTT(30) DEF HandoffDiscard
<1>3. CASE HandoffList
  BY <1>3, SMTT(30) DEF HandoffList
<1>4. ASSUME NEW a \in Agents, HandoffTake(a) PROVE IInv'
  <2>1. CASE slot[a] # NoSid /\ ~handed[slot[a]] /\ xfer[slot[a]]
    <3>1. slot[a] \in Sids /\ child[slot[a]] # "none"
      BY <2>1
    <3>2. TypeOK'
      <4>1. /\ xfer' = [xfer EXCEPT ![slot[a]] = FALSE]
            /\ cut'  = [cut EXCEPT ![slot[a]] = TRUE]
        BY <1>4, <2>1 DEF HandoffTake
      <4>2. xfer' \in [Sids -> BOOLEAN] /\ cut' \in [Sids -> BOOLEAN]
        BY <4>1
      <4>3. at' \in [Threads -> Steps]
        BY <1>4, <2>1 DEF HandoffTake
      <4>4. on' \in [Threads -> Sids \cup {NoSid}]
        BY <1>4, <2>1, <3>1 DEF HandoffTake
      <4> QED BY <1>4, <4>2, <4>3, <4>4 DEF HandoffTake
    <3>3. PhaseInv'
      BY <1>4, <2>1, <3>1, SMTT(30) DEF HandoffTake
    <3> QED BY <1>4, <2>1, <3>1, <3>2, <3>3, SMTT(30) DEF HandoffTake
  <2>2. CASE ~(slot[a] # NoSid /\ ~handed[slot[a]] /\ xfer[slot[a]])
    BY <1>4, <2>2, SMTT(30) DEF HandoffTake
  <2> QED BY <2>1, <2>2
<1>5. CASE HandoffMark
  BY <1>5, SMTT(30) DEF HandoffMark
<1>6. CASE HandoffOk
  BY <1>6, HangupOnlyKills, SMTT(30) DEF HandoffOk, DaemonTable, Dropped
<1>7. CASE HandoffErr
  BY <1>7, HangupOnlyKills, SMTT(30) DEF HandoffErr, DaemonTable, Dropped
<1>8. CASE HandoffDrop
  BY <1>8, SMTT(30) DEF HandoffDrop
<1> QED BY <1>1, <1>2, <1>3, <1>4, <1>5, <1>6, <1>7, <1>8

\* The adoption and a restart of the app preserve the invariant.
LEMMA AdoptKeeps ==
    ASSUME IInv,
           \/ \E s \in Sids : AdoptTake(s)
           \/ \E s \in Sids : AdoptLose(s)
           \/ AdoptDone
           \/ AppRestart
    PROVE  IInv'
<1> USE NoSidAssumption, AgentOfAssumption, ChatsAssumption
    DEF IInv, TypeOK, PhaseInv, RegistryMatches, UnspawnedUnknown,
        DetachedUnknown, Installing, Apart, ExitingOnce, Unknown, ExitSteps,
        InstallSteps, Threads, Steps, States, Live, Idle, Goto, Enter, Leave
<1>1. ASSUME NEW s \in Sids, AdoptTake(s) PROVE IInv'
  BY <1>1, SMTT(30) DEF AdoptTake
<1>2. ASSUME NEW s \in Sids, AdoptLose(s) PROVE IInv'
  BY <1>2, HangupOnlyKills, SMTT(30) DEF AdoptLose
<1>3. CASE AdoptDone
  BY <1>3, SMTT(30) DEF AdoptDone
<1>4. CASE AppRestart
  BY <1>4, HangupOnlyKills, SMTT(30) DEF AppRestart, NothingShown
<1> QED BY <1>1, <1>2, <1>3, <1>4

\* Every step, and every step that changes nothing, preserves the invariant.
LEMMA StepKeeps == IInv /\ [Next]_vars => IInv'
<1> SUFFICES ASSUME IInv, [Next]_vars PROVE IInv'
  OBVIOUS
<1>1. CASE Next
  BY <1>1, CreateKeeps, ExitKeeps, HandoffKeeps, AdoptKeeps
     DEF Next, Install, OnExit, Handoff
<1>2. CASE UNCHANGED vars
  BY <1>2
     DEF vars, IInv, TypeOK, PhaseInv, RegistryMatches, UnspawnedUnknown,
         DetachedUnknown, Installing, Apart, ExitingOnce, Unknown, Idle
<1> QED BY <1>1, <1>2

\* The invariant holds in every state the manager reaches.
THEOREM Invariance == Spec => []IInv
BY InitKeeps, StepKeeps, PTL DEF Spec

-----------------------------------------------------------------------------
(* What follows from it                                                     *)

\* Every variable keeps its type through creates, exits, handoffs, adoptions
\* and restarts of the app.
THEOREM TypeSafety == Spec => []TypeOK
<1>1. IInv => TypeOK
  BY DEF IInv
<1> QED BY Invariance, <1>1, PTL

\* Whatever adopts, creates, hands off or ends sessions beside each other, the
\* registry entry of a session (state.rs) says what state the session is in.
THEOREM RegistryAgrees == Spec => []RegistryMatches
<1>1. IInv => RegistryMatches
  BY DEF IInv
<1> QED BY Invariance, <1>1, PTL

\* No step takes a session out of Exited or Disposed: install_session meets
\* only unknown ids, its compare-and-set spares an ended one, and on_exit ends
\* each session once.
LEMMA StepNeverRevives ==
    ASSUME IInv, Next, NEW s \in Sids, state[s] \in Ended
    PROVE  state'[s] \in {state[s], "none"}
<1> USE DEF IInv, TypeOK, Ended, Live
<1>1. ASSUME NEW t \in {"lc", "adopt"}, InstallSlot(t)
      PROVE  state'[s] = state[s]
  BY <1>1 DEF InstallSlot, Installing, Unknown
<1>2. ASSUME NEW t \in {"lc", "adopt"}, InstallRun(t)
      PROVE  state'[s] = state[s]
  BY <1>2 DEF InstallRun
<1>3. ASSUME OnExitState PROVE state'[s] = state[s]
  BY <1>3 DEF OnExitState, ExitingOnce
<1>4. CASE AppRestart
  BY <1>4 DEF AppRestart
<1>5. CASE UNCHANGED state
  BY <1>5
<1> QED
  BY <1>1, <1>2, <1>3, <1>4, <1>5
     DEF Next, Install, InstallAnnounce, CreateBegin, SpawnFail, SpawnOk,
         DisposeCheck, DisposeKill, ChildExit, OnExitBegin, OnExit, OnExitCheck,
         OnExitMap, OnExitEmit, OnExitForget, HandoffBegin, Handoff,
         HandoffDiscard, HandoffList, HandoffTake, HandoffMark, HandoffOk,
         HandoffErr, HandoffDrop, AdoptTake, AdoptLose, AdoptDone

\* "Exited, then Running" is impossible within one run of the app.
THEOREM NeverRevived == Spec => EndedStaysEnded
<1>1. IInv /\ [Next]_vars =>
        [\A s \in Sids : state[s] \in Ended => state'[s] \in {state[s], "none"}]_vars
  <2> SUFFICES ASSUME IInv, Next
               PROVE  \A s \in Sids :
                        state[s] \in Ended => state'[s] \in {state[s], "none"}
    OBVIOUS
  <2> QED BY StepNeverRevives
<1> QED BY Invariance, <1>1, PTL DEF Spec, EndedStaysEnded

-----------------------------------------------------------------------------
(* The renderer's discipline: no create begins while sessions are adopted  *)
(* or handed off (Overlap = {}).                                           *)

Creating == at["lc"] \in {"spawn", "slot", "announce", "run"}

\* What sits in a slot is a session of that agent that this app run knows.
SlotKnown ==
    \A a \in Agents : slot[a] # NoSid => AgentOf[slot[a]] = a /\ state[slot[a]] # "none"

\* A create keeps the slot empty that it is to fill, and an installed session
\* keeps its slot while it is Starting.
SlotKept ==
    /\ Creating => phase # "adopting"
    /\ at["lc"] \in {"spawn", "slot"} => slot[AgentOf[on["lc"]]] = NoSid
    /\ at["lc"] = "run" => state[on["lc"]] = "starting"
    /\ \A t \in {"lc", "adopt"} :
           \/ at[t] = "announce"
           \/ at[t] = "run" /\ state[on[t]] = "starting"
           => slot[AgentOf[on[t]]] = on[t]

\* sessiond holds one session per agent, and until it is adopted the app knows
\* no other session of that agent.
AdoptFresh ==
    /\ \A d, e \in detached : AgentOf[d] = AgentOf[e] => d = e
    /\ phase = "adopting" =>
         \A d \in detached, s \in Sids : AgentOf[s] = AgentOf[d] /\ s # d =>
             state[s] = "none" /\ on["adopt"] # s
    /\ at["adopt"] = "slot" =>
         \A s \in Sids : AgentOf[s] = AgentOf[on["adopt"]] /\ s # on["adopt"] =>
             state[s] = "none"

\* The session handed off is the one in its slot, as long as there is one, and
\* no create is under way for an agent that is being handed off or listed.
HandoffAlone ==
    /\ at["handoff"] \in {"next", "mark", "send", "drop"} /\ Creating =>
           AgentOf[on["lc"]] \notin todo
    /\ at["handoff"] \in {"mark", "send", "drop"} =>
           /\ slot[AgentOf[on["handoff"]]] \in {on["handoff"], NoSid}
           /\ Creating => AgentOf[on["lc"]] # AgentOf[on["handoff"]]
    /\ at["handoff"] \in {"send", "drop"} => handed[on["handoff"]]

DInv == SlotKnown /\ SlotKept /\ AdoptFresh /\ HandoffAlone

\* The renderer knows the state of the session in a slot, or somebody is about
\* to tell it.
Telling(s) ==
    \/ \E t \in {"lc", "adopt"} : on[t] = s /\ at[t] = "announce"
    \/ on["lc"] = s /\ at["lc"] \in {"exitmap", "exitemit"}
ShownInv ==
    /\ \A a \in Agents : slot[a] # NoSid =>
           \/ shown[a] = [sid |-> slot[a], state |-> state[slot[a]]]
           \/ Telling(slot[a])
    /\ at["lc"] \in {"exitmap", "exitemit"} => state[on["lc"]] \in Ended
    /\ at["lc"] = "exitemit" => slot[AgentOf[on["lc"]]] \in {on["lc"], NoSid}

\* create and install_session keep the discipline.
LEMMA DCreateKeeps ==
    ASSUME Overlap = {}, IInv, DInv,
           \/ \E a \in Agents, s \in Sids : CreateBegin(a, s)
           \/ SpawnFail
           \/ SpawnOk
           \/ \E t \in {"lc", "adopt"} : InstallSlot(t)
           \/ \E t \in {"lc", "adopt"} : InstallAnnounce(t)
           \/ \E t \in {"lc", "adopt"} : InstallRun(t)
    PROVE  DInv'
<1> USE NoSidAssumption, AgentOfAssumption, ChatsAssumption
    DEF IInv, TypeOK, PhaseInv, UnspawnedUnknown, DetachedUnknown, Installing,
        Apart, ExitingOnce, Unknown, ExitSteps, InstallSteps, Threads, Live,
        Idle, Goto, Enter, Leave, DInv, SlotKnown, SlotKept, AdoptFresh,
        HandoffAlone, Creating
<1>1. ASSUME NEW a \in Agents, NEW s \in Sids, CreateBegin(a, s) PROVE DInv'
  BY <1>1, SMTT(30) DEF CreateBegin, MayCreate
<1>2. CASE SpawnFail
  BY <1>2, SMTT(30) DEF SpawnFail
<1>3. CASE SpawnOk
  BY <1>3, SMTT(30) DEF SpawnOk
<1>4. ASSUME NEW t \in {"lc", "adopt"}, InstallSlot(t) PROVE DInv'
  BY <1>4, SMTT(30) DEF InstallSlot
<1>5. ASSUME NEW t \in {"lc", "adopt"}, InstallAnnounce(t) PROVE DInv'
  BY <1>5, SMTT(30) DEF InstallAnnounce
<1>6. ASSUME NEW t \in {"lc", "adopt"}, InstallRun(t) PROVE DInv'
  BY <1>6, SMTT(30) DEF InstallRun
<1> QED BY <1>1, <1>2, <1>3, <1>4, <1>5, <1>6

\* dispose, the end of a shell and on_exit keep the discipline.
LEMMA DExitKeeps ==
    ASSUME Overlap = {}, IInv, DInv,
           \/ \E a \in Agents : DisposeCheck(a)
           \/ DisposeKill
           \/ \E s \in Sids : ChildExit(s)
           \/ \E s \in Sids : OnExitBegin(s)
           \/ OnExitCheck
           \/ OnExitState
           \/ OnExitMap
           \/ OnExitEmit
           \/ OnExitForget
    PROVE  DInv'
<1> USE NoSidAssumption, AgentOfAssumption, ChatsAssumption
    DEF IInv, TypeOK, PhaseInv, UnspawnedUnknown, DetachedUnknown, Installing,
        Apart, ExitingOnce, Unknown, ExitSteps, InstallSteps, Threads, Live,
        Idle, Goto, Enter, Leave, DInv, SlotKnown, SlotKept, AdoptFresh,
        HandoffAlone, Creating
<1>1. ASSUME NEW a \in Agents, DisposeCheck(a) PROVE DInv'
  BY <1>1, SMTT(30) DEF DisposeCheck
<1>2. CASE DisposeKill
  BY <1>2, SMTT(30) DEF DisposeKill
<1>3. ASSUME NEW s \in Sids, ChildExit(s) PROVE DInv'
  BY <1>3, SMTT(30) DEF ChildExit
<1>4. ASSUME NEW s \in Sids, OnExitBegin(s) PROVE DInv'
  BY <1>4, SMTT(30) DEF OnExitBegin, WaitReturns
<1>5. CASE OnExitCheck
  BY <1>5, SMTT(30) DEF OnExitCheck
<1>6. CASE OnExitState
  BY <1>6, SMTT(30) DEF OnExitState
<1>7. CASE OnExitMap
  BY <1>7, SMTT(30) DEF OnExitMap
<1>8. CASE OnExitEmit
  BY <1>8, SMTT(30) DEF OnExitEmit
<1>9. CASE OnExitForget
  BY <1>9, SMTT(30) DEF OnExitForget
<1> QED BY <1>1, <1>2, <1>3, <1>4, <1>5, <1>6, <1>7, <1>8, <1>9

\* handoff_all and handoff_one keep the discipline.
LEMMA DHandoffKeeps ==
    ASSUME Overlap = {}, IInv, DInv,
           \/ HandoffBegin
           \/ \E a \in Agents : HandoffDiscard(a)
           \/ HandoffList
           \/ \E a \in Agents : HandoffTake(a)
           \/ HandoffMark
           \/ HandoffOk
           \/ HandoffErr
           \/ HandoffDrop
    PROVE  DInv'
<1> USE NoSidAssumption, AgentOfAssumption, ChatsAssumption
    DEF IInv, TypeOK, PhaseInv, UnspawnedUnknown, DetachedUnknown, Installing,
        Apart, ExitingOnce, Unknown, ExitSteps, InstallSteps, Threads, Live,
        Idle, Goto, Enter, Leave, DInv, SlotKnown, SlotKept, AdoptFresh,
        HandoffAlone, Creating
<1>1. CASE HandoffBegin
  BY <1>1, SMTT(30) DEF HandoffBegin
<1>2. ASSUME NEW a \in Agents, HandoffDiscard(a) PROVE DInv'
  BY <1>2, SMTT(30) DEF HandoffDiscard
<1>3. CASE HandoffList
  BY <1>3, SMTT(30) DEF HandoffList
<1>4. ASSUME NEW a \in Agents, HandoffTake(a) PROVE DInv'
  BY <1>4, SMTT(30) DEF HandoffTake
<1>5. CASE HandoffMark
  BY <1>5, SMTT(30) DEF HandoffMark
<1>6. CASE HandoffOk
  BY <1>6, SMTT(30) DEF HandoffOk, DaemonTable, Dropped
<1>7. CASE HandoffErr
  BY <1>7, SMTT(30) DEF HandoffErr, DaemonTable, Dropped
<1>8. CASE HandoffDrop
  BY <1>8, SMTT(30) DEF HandoffDrop
<1> QED BY <1>1, <1>2, <1>3, <1>4, <1>5, <1>6, <1>7, <1>8

\* The adoption and a restart of the app keep the discipline.
LEMMA DAdoptKeeps ==
    ASSUME Overlap = {}, IInv, DInv,
           \/ \E s \in Sids : AdoptTake(s)
           \/ \E s \in Sids : AdoptLose(s)
           \/ AdoptDone
           \/ AppRestart
    PROVE  DInv'
<1> USE NoSidAssumption, AgentOfAssumption, ChatsAssumption
    DEF IInv, TypeOK, PhaseInv, UnspawnedUnknown, DetachedUnknown, Installing,
        Apart, ExitingOnce, Unknown, ExitSteps, InstallSteps, Threads, Live,
        Idle, Goto, Enter, Leave, DInv, SlotKnown, SlotKept, AdoptFresh,
        HandoffAlone, Creating
<1>1. ASSUME NEW s \in Sids, AdoptTake(s) PROVE DInv'
  BY <1>1, SMTT(30) DEF AdoptTake
<1>2. ASSUME NEW s \in Sids, AdoptLose(s) PROVE DInv'
  BY <1>2, SMTT(30) DEF AdoptLose
<1>3. CASE AdoptDone
  BY <1>3, SMTT(30) DEF AdoptDone
<1>4. CASE AppRestart
  BY <1>4, SMTT(30) DEF AppRestart
<1> QED BY <1>1, <1>2, <1>3, <1>4

\* Every step, and every step that changes nothing, keeps the discipline.
LEMMA DStepKeeps ==
    ASSUME Overlap = {}, IInv, DInv, [Next]_vars
    PROVE  DInv'
<1>1. CASE Next
  BY <1>1, DCreateKeeps, DExitKeeps, DHandoffKeeps, DAdoptKeeps
     DEF Next, Install, OnExit, Handoff
<1>2. CASE UNCHANGED vars
  BY <1>2 DEF vars, DInv, SlotKnown, SlotKept, AdoptFresh, HandoffAlone, Creating
<1> QED BY <1>1, <1>2

\* The empty manager satisfies it.
LEMMA DInitKeeps == Init => DInv
BY DEF Init, DInv, SlotKnown, SlotKept, AdoptFresh, HandoffAlone, Creating, Threads

\* Under the renderer's discipline no create runs into an adoption or a handoff.
THEOREM Discipline == Overlap = {} => (Spec => [](IInv /\ DInv))
<1> SUFFICES ASSUME Overlap = {} PROVE Spec => [](IInv /\ DInv)
  OBVIOUS
<1>1. Init => IInv /\ DInv
  BY InitKeeps, DInitKeeps
<1>2. (IInv /\ DInv) /\ [Next]_vars => (IInv /\ DInv)'
  BY StepKeeps, DStepKeeps
<1> QED BY <1>1, <1>2, PTL DEF Spec

-----------------------------------------------------------------------------
(* One session per agent: AgentSession is implemented, step by step.       *)

\* Every step of the manager is one of AgentSession or changes nothing there.
LEMMA PromiseStep ==
    ASSUME Overlap = {}, IInv, DInv, [Next]_vars
    PROVE  [Promise!Next]_(Promise!vars)
<1> DEFINE life == [s \in Sids |-> Life(s)]
<1> USE NoSidAssumption, AgentOfAssumption
    DEF IInv, TypeOK, States, Live, Ended
<1>0. \A s \in Sids : life[s] = Life(s) /\ life'[s] = Life(s)'
  OBVIOUS
<1>1. ASSUME NEW a \in Agents, NEW s \in Sids, CreateBegin(a, s)
      PROVE  [Promise!Next]_(Promise!vars)
  <2>1. life' = life
    BY <1>1 DEF CreateBegin, Life
  <2>2. CASE slot[a] = NoSid
    <3>1. slot' = slot
      BY <1>1, <2>2 DEF CreateBegin
    <3> QED BY <2>1, <3>1 DEF Promise!vars
  <2>3. CASE slot[a] # NoSid
    <3>1. life[slot[a]] # "live"
      BY <1>1, <2>3 DEF CreateBegin, Reusable, Life
    <3>2. Promise!Vacate(a)
      BY <1>1, <2>1, <2>3, <3>1 DEF CreateBegin, Promise!Vacate
    <3> QED BY <3>2 DEF Promise!Next
  <2> QED BY <2>2, <2>3
<1>2. ASSUME NEW t \in {"lc", "adopt"}, InstallSlot(t)
      PROVE  [Promise!Next]_(Promise!vars)
  <2> DEFINE s == on[t]
  <2>1. s \in Sids /\ AgentOf[s] \in Agents /\ state[s] = "none"
    BY <1>2 DEF InstallSlot, PhaseInv, Installing, Unknown
  <2>2. slot[AgentOf[s]] = NoSid
    BY <1>2, <2>1 DEF InstallSlot, DInv, SlotKept, AdoptFresh, SlotKnown
  <2>3. life[s] = "unborn"
    BY <2>1 DEF Life
  <2>4. life' = [life EXCEPT ![s] = "live"]
    BY <1>2, <2>1 DEF InstallSlot, Life
  <2>5. slot' = [slot EXCEPT ![AgentOf[s]] = s]
    BY <1>2 DEF InstallSlot
  <2>6. Promise!Open(s)
    BY <2>2, <2>3, <2>4, <2>5 DEF Promise!Open
  <2> QED BY <2>1, <2>6 DEF Promise!Next
<1>3. ASSUME NEW t \in {"lc", "adopt"}, InstallRun(t)
      PROVE  [Promise!Next]_(Promise!vars)
  <2>1. life' = life /\ slot' = slot
    BY <1>3 DEF InstallRun, PhaseInv, Life
  <2> QED BY <2>1 DEF Promise!vars
<1>4. ASSUME DisposeKill
      PROVE  [Promise!Next]_(Promise!vars)
  <2> DEFINE s == on["lc"]
  <2>1. s \in Sids /\ slot' = slot
    BY <1>4 DEF DisposeKill, PhaseInv
  <2>2. CASE life[s] = "live"
    <3>1. life' = [life EXCEPT ![s] = "doomed"]
      BY <1>4, <2>1, <2>2 DEF DisposeKill, Life
    <3> QED BY <2>1, <2>2, <3>1 DEF Promise!Doom, Promise!Next
  <2>3. CASE life[s] # "live"
    <3>1. life' = life
      BY <1>4, <2>1, <2>3 DEF DisposeKill, Life
    <3> QED BY <2>1, <3>1 DEF Promise!vars
  <2> QED BY <2>2, <2>3
<1>5. ASSUME HandoffMark
      PROVE  [Promise!Next]_(Promise!vars)
  <2> DEFINE s == on["handoff"]
  <2>1. s \in Sids /\ slot' = slot
    BY <1>5 DEF HandoffMark, PhaseInv
  <2>2. CASE life[s] = "live"
    <3>1. life' = [life EXCEPT ![s] = "doomed"]
      BY <1>5, <2>1, <2>2 DEF HandoffMark, Life
    <3> QED BY <2>1, <2>2, <3>1 DEF Promise!Doom, Promise!Next
  <2>3. CASE life[s] # "live"
    <3>1. life' = life
      BY <1>5, <2>1, <2>3 DEF HandoffMark, Life
    <3> QED BY <2>1, <3>1 DEF Promise!vars
  <2> QED BY <2>2, <2>3
<1>6. ASSUME OnExitState
      PROVE  [Promise!Next]_(Promise!vars)
  <2> DEFINE s == on["lc"]
  <2>1. s \in Sids /\ state[s] \in Live /\ slot' = slot
    BY <1>6 DEF OnExitState, PhaseInv, ExitingOnce, ExitSteps
  <2>2. life[s] \in {"live", "doomed"}
    BY <2>1 DEF Life
  <2>3. life' = [life EXCEPT ![s] = "over"]
    BY <1>6, <2>1 DEF OnExitState, Life
  <2> QED BY <2>1, <2>2, <2>3 DEF Promise!End, Promise!Next
<1>7. ASSUME OnExitMap
      PROVE  [Promise!Next]_(Promise!vars)
  <2> DEFINE s == on["lc"]
             a == AgentOf[s]
  <2>1. s \in Sids /\ a \in Agents /\ life' = life
    BY <1>7 DEF OnExitMap, PhaseInv, Life
  <2>2. CASE slot[a] = s /\ state[s] = "disposed"
    <3>1. slot' = [slot EXCEPT ![a] = NoSid] /\ slot[a] # NoSid /\ life[slot[a]] # "live"
      BY <1>7, <2>1, <2>2 DEF OnExitMap, Life
    <3> QED BY <2>1, <3>1 DEF Promise!Vacate, Promise!Next
  <2>3. CASE ~(slot[a] = s /\ state[s] = "disposed")
    <3>1. slot' = slot
      BY <1>7, <2>3 DEF OnExitMap
    <3> QED BY <2>1, <3>1 DEF Promise!vars
  <2> QED BY <2>2, <2>3
<1>8. ASSUME HandoffDrop
      PROVE  [Promise!Next]_(Promise!vars)
  <2> DEFINE s == on["handoff"]
             a == AgentOf[s]
  <2>1. s \in Sids /\ a \in Agents /\ life' = life /\ slot' = [slot EXCEPT ![a] = NoSid]
    BY <1>8 DEF HandoffDrop, PhaseInv, Life
  <2>2. slot[a] \in {s, NoSid} /\ handed[s]
    BY <1>8 DEF HandoffDrop, DInv, HandoffAlone
  <2>3. CASE slot[a] = s
    <3>1. slot[a] # NoSid /\ life[slot[a]] # "live"
      BY <2>1, <2>2, <2>3 DEF Life
    <3> QED BY <2>1, <3>1 DEF Promise!Vacate, Promise!Next
  <2>4. CASE slot[a] = NoSid
    <3>1. slot' = slot
      BY <2>1, <2>4
    <3> QED BY <2>1, <3>1 DEF Promise!vars
  <2> QED BY <2>2, <2>3, <2>4
<1>9. ASSUME AppRestart
      PROVE  [Promise!Next]_(Promise!vars)
  <2>1. life' = [s \in Sids |-> "unborn"]
    BY <1>9 DEF AppRestart, Life
  <2> QED BY <1>9, <2>1 DEF AppRestart, Promise!Restart, Promise!Next
<1>10. CASE UNCHANGED <<slot, state, kill, handed>>
  <2>1. life' = life /\ slot' = slot
    BY <1>10 DEF Life
  <2> QED BY <2>1 DEF Promise!vars
<1> QED
  BY <1>1, <1>2, <1>3, <1>4, <1>5, <1>6, <1>7, <1>8, <1>9, <1>10
     DEF Next, vars, Install, InstallAnnounce, SpawnFail, SpawnOk,
         DisposeCheck, ChildExit, OnExitBegin, OnExit, OnExitCheck,
         OnExitEmit, OnExitForget, HandoffBegin, Handoff,
         HandoffDiscard, HandoffList, HandoffTake,
         HandoffOk, HandoffErr, AdoptTake, AdoptLose, AdoptDone

\* While no create runs beside adoption or handoff, the manager implements
\* AgentSession: "1 agent, 1 session" (manager.rs, create_with_profile).
THEOREM Refinement == Overlap = {} => (Spec => KeepsPromise)
<1> SUFFICES ASSUME Overlap = {} PROVE Spec => KeepsPromise
  OBVIOUS
<1>1. Init => Promise!Init
  BY DEF Init, Promise!Init, Life, Live, Ended
<1>2. IInv /\ DInv /\ [Next]_vars => [Promise!Next]_(Promise!vars)
  BY PromiseStep
<1> QED BY <1>1, <1>2, Discipline, PTL DEF Spec, KeepsPromise, Promise!Spec

\* The abstract promise is kept for every set of agents and session ids: a live session
\* is its agent's current one, hence the only one.
THEOREM PromiseKept == Promise!ConstantsFit => (Promise!Spec => [](Promise!LiveIsCurrent))
<1> SUFFICES ASSUME Promise!ConstantsFit PROVE Promise!Spec => [](Promise!LiveIsCurrent)
  OBVIOUS
<1> DEFINE Inv == Promise!TypeOK /\ Promise!LiveIsCurrent
<1> USE DEF Promise!TypeOK, Promise!LiveIsCurrent
<1>1. Promise!Init => Inv
  BY DEF Promise!Init
<1>2. Inv /\ [Promise!Next]_(Promise!vars) => Inv'
  <2> SUFFICES ASSUME Inv, [Promise!Next]_(Promise!vars) PROVE Inv'
    OBVIOUS
  <2> USE DEF Promise!ConstantsFit
  <2>1. ASSUME NEW s \in Sids, Promise!Open(s) PROVE Inv'
    BY <2>1 DEF Promise!Open
  <2>2. ASSUME NEW s \in Sids, Promise!Doom(s) \/ Promise!End(s) PROVE Inv'
    BY <2>2 DEF Promise!Doom, Promise!End
  <2>3. ASSUME NEW a \in Agents, Promise!Vacate(a) PROVE Inv'
    BY <2>3 DEF Promise!Vacate
  <2>4. CASE Promise!Restart
    BY <2>4 DEF Promise!Restart
  <2>5. CASE UNCHANGED (Promise!vars)
    BY <2>5 DEF Promise!vars
  <2> QED BY <2>1, <2>2, <2>3, <2>4, <2>5 DEF Promise!Next
<1>3. Inv => Promise!LiveIsCurrent
  OBVIOUS
<1> QED BY <1>1, <1>2, <1>3, PTL DEF Promise!Spec

\* What AgentSession promises holds of the manager: a live session that
\* nobody asked to end is the one input, dispose and dispose_all reach.
THEOREM OneSession == Overlap = {} => (Spec => []NoLiveOrphan)
<1> SUFFICES ASSUME Overlap = {} PROVE Spec => []NoLiveOrphan
  OBVIOUS
<1>1. Promise!ConstantsFit
  BY NoSidAssumption, AgentOfAssumption DEF Promise!ConstantsFit
<1>2. Promise!Spec => []Promise!LiveIsCurrent
  BY <1>1, PromiseKept
<1>3. Promise!LiveIsCurrent => NoLiveOrphan
  BY DEF Promise!LiveIsCurrent, NoLiveOrphan, Life, Live, Ended
<1> QED BY <1>2, <1>3, Refinement, PTL DEF KeepsPromise

-----------------------------------------------------------------------------
(* What the renderer shows                                                 *)

\* Every step keeps the renderer told, or leaves somebody about to tell it:
\* the exit of a replaced session skips the event, and nobody moves a session
\* on before its Starting event is out.
LEMMA ShownStepKeeps ==
    ASSUME Overlap = {}, IInv, DInv, ShownInv, [Next]_vars
    PROVE  ShownInv'
<1> USE NoSidAssumption, AgentOfAssumption
    DEF IInv, TypeOK, PhaseInv, Installing, Apart, ExitingOnce, Unknown,
        ExitSteps, InstallSteps, Threads, Live, Idle, Goto, Enter, Leave, DInv,
        SlotKnown, SlotKept, AdoptFresh, Creating, Ended, ShownInv, Telling
<1>1. ASSUME NEW a \in Agents, NEW s \in Sids, CreateBegin(a, s) PROVE ShownInv'
  BY <1>1, SMTT(30) DEF CreateBegin
<1>2. CASE SpawnFail
  BY <1>2, SMTT(30) DEF SpawnFail
<1>3. CASE SpawnOk
  BY <1>3, SMTT(30) DEF SpawnOk
<1>4. ASSUME NEW t \in {"lc", "adopt"}, InstallSlot(t) PROVE ShownInv'
  BY <1>4, SMTT(30) DEF InstallSlot
<1>5. ASSUME NEW t \in {"lc", "adopt"}, InstallAnnounce(t) PROVE ShownInv'
  BY <1>5, SMTT(30) DEF InstallAnnounce
<1>6. ASSUME NEW t \in {"lc", "adopt"}, InstallRun(t) PROVE ShownInv'
  BY <1>6, SMTT(30) DEF InstallRun
<1>7. ASSUME NEW a \in Agents, DisposeCheck(a) PROVE ShownInv'
  BY <1>7, SMTT(30) DEF DisposeCheck
<1>8. CASE DisposeKill
  BY <1>8, SMTT(30) DEF DisposeKill
<1>9. ASSUME NEW s \in Sids, OnExitBegin(s) PROVE ShownInv'
  BY <1>9, SMTT(30) DEF OnExitBegin
<1>10. CASE OnExitCheck
  BY <1>10, SMTT(30) DEF OnExitCheck
<1>11. CASE OnExitState
  BY <1>11, SMTT(30) DEF OnExitState
<1>12. CASE OnExitMap
  BY <1>12, SMTT(30) DEF OnExitMap
<1>13. CASE OnExitEmit
  BY <1>13, SMTT(30) DEF OnExitEmit
<1>14. CASE OnExitForget
  BY <1>14, SMTT(30) DEF OnExitForget
<1>15. ASSUME NEW a \in Agents, HandoffDiscard(a) PROVE ShownInv'
  BY <1>15, SMTT(30) DEF HandoffDiscard
<1>16. ASSUME NEW a \in Agents, HandoffTake(a) PROVE ShownInv'
  BY <1>16, SMTT(30) DEF HandoffTake
<1>17. CASE HandoffDrop
  BY <1>17, SMTT(30) DEF HandoffDrop
<1>18. ASSUME NEW s \in Sids, AdoptTake(s) PROVE ShownInv'
  BY <1>18, SMTT(30) DEF AdoptTake
<1>19. CASE AppRestart
  BY <1>19, SMTT(30) DEF AppRestart
<1>20. CASE \/ \E s \in Sids : ChildExit(s) \/ AdoptLose(s)
            \/ HandoffBegin \/ HandoffList \/ HandoffMark \/ HandoffOk \/ HandoffErr
            \/ AdoptDone
            \/ UNCHANGED vars
  <2>1. UNCHANGED <<slot, state, shown>>
    BY <1>20
       DEF ChildExit, AdoptLose, HandoffBegin, HandoffList, HandoffMark,
           HandoffOk, HandoffErr, AdoptDone, vars
  <2>2. CASE HandoffBegin \/ HandoffList \/ HandoffMark \/ HandoffOk \/ HandoffErr
    <3>1. \A t \in {"lc", "adopt"} : at'[t] = at[t] /\ on'[t] = on[t]
      BY <2>2 DEF HandoffBegin, HandoffList, HandoffMark, HandoffOk, HandoffErr
    <3> QED BY <2>1, <3>1
  <2>3. CASE UNCHANGED <<at, on>>
    BY <2>1, <2>3
  <2> QED BY <1>20, <2>2, <2>3 DEF ChildExit, AdoptLose, AdoptDone, vars
<1>21. CASE Next
  <2> USE <1>21 DEF Next
  <2>1. CASE \/ \E a \in Agents, s \in Sids : CreateBegin(a, s)
             \/ SpawnFail \/ SpawnOk
             \/ \E t \in {"lc", "adopt"} : Install(t)
    BY <2>1, <1>1, <1>2, <1>3, <1>4, <1>5, <1>6, Zenon DEF Install
  <2>2. CASE \/ \E a \in Agents : DisposeCheck(a)
             \/ DisposeKill
             \/ \E s \in Sids : ChildExit(s) \/ OnExitBegin(s)
             \/ OnExit
    BY <2>2, <1>7, <1>8, <1>9, <1>10, <1>11, <1>12, <1>13, <1>14, <1>20, Zenon
       DEF OnExit
  <2>3. CASE HandoffBegin \/ Handoff
    BY <2>3, <1>15, <1>16, <1>17, <1>20, Zenon DEF Handoff
  <2>4. CASE \/ \E s \in Sids : AdoptTake(s) \/ AdoptLose(s)
             \/ AdoptDone
             \/ AppRestart
    BY <2>4, <1>18, <1>19, <1>20, Zenon
  <2> QED BY <2>1, <2>2, <2>3, <2>4, Zenon
<1> QED BY <1>20, <1>21

\* The renderer, which keys session state by agent, ends up with the state of
\* the agent's current session as soon as no thread works for that agent.
THEOREM RendererFollows == Overlap = {} => (Spec => []ShownFollowsSlot)
<1> SUFFICES ASSUME Overlap = {} PROVE Spec => []ShownFollowsSlot
  OBVIOUS
<1>1. Init => ShownInv
  BY DEF Init, ShownInv, Threads
<1>2. IInv /\ DInv /\ ShownInv /\ [Next]_vars => ShownInv'
  BY ShownStepKeeps
<1>3. IInv /\ DInv /\ ShownInv => ShownFollowsSlot
  BY NoSidAssumption
     DEF IInv, TypeOK, DInv, SlotKnown, ShownInv, Telling, ShownFollowsSlot,
         Busy, Idle, Threads
<1> QED BY <1>1, <1>2, <1>3, Discipline, PTL DEF Spec
=============================================================================
