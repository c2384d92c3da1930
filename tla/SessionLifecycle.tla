--------------------------- MODULE SessionLifecycle ---------------------------
(***************************************************************************)
(* The life of a PTY session as SessionManager drives it                   *)
(* (src-tauri/src/session/manager.rs) together with the handoff to and the *)
(* adoption from the sessiond daemon (session/handoff_v1.rs).              *)
(*                                                                         *)
(* create, dispose and on_exit take the `lifecycle` mutex, so the steps of *)
(* whichever of them holds it are one thread of control, "lc".  The        *)
(* handoff and the adoption run beside it WITHOUT the mutex: they are the  *)
(* threads "handoff" and "adopt".  A step is what one of the inner locks   *)
(* (sessions map, session state, registry) makes atomic.                   *)
(***************************************************************************)
EXTENDS Naturals, FiniteSets

CONSTANTS
    Agents,      \* agent ids that own a terminal
    Chats,       \* the agents that are task chats (id prefix "task-chat-")
    Sids,        \* session ids a run may draw (fresh UUIDs)
    NoSid,       \* "no session" in a slot
    AgentOf,     \* the agent each session id is drawn for
    Overlap      \* which of adoption and handoff may run beside a create:
                 \* {} is the renderer's own discipline (bootstrap awaits the
                 \* adoption, the quit dialog is modal); the control server
                 \* and its CLI obey neither

ASSUME ChatsAssumption   == Chats \subseteq Agents
ASSUME NoSidAssumption   == NoSid \notin Sids
ASSUME AgentOfAssumption == AgentOf \in [Sids -> Agents]
ASSUME OverlapAssumption == Overlap \subseteq {"adopt", "handoff"}

VARIABLES
    slot,      \* SessionManager.sessions: agent -> current session
    state,     \* Session.state ("none": no Session object in this app run)
    kill,      \* Session.kill_requested
    handed,    \* Session.handed_off
    xfer,      \* Session.handoff is still Some(..): the master fd can be sent
    cut,       \* the reader thread was interrupted for a handoff
    eofWait,   \* the wait thread is an EofWaiter (adopted) or waits the child
    waiting,   \* the wait thread has been started and has not returned
    reg,       \* SessionRegistry: sid -> state, or "absent"
    shown,     \* last SessionStateEvent emitted for each agent
    child,     \* the shell process: "none", "alive", "dead"
    detached,  \* sessions in sessiond's table
    at,        \* thread -> where it is
    on,        \* thread -> the session it works on
    todo,      \* agents the running handoff_all has still to visit
    phase      \* of this app run: "adopting", "normal", "quitting"

vars == <<slot, state, kill, handed, xfer, cut, eofWait, waiting, reg, shown,
          child, detached, at, on, todo, phase>>

Threads == {"lc", "adopt", "handoff"}
States  == {"none", "starting", "running", "exited", "disposed"}
Steps   == {"idle", "spawn", "slot", "announce", "run", "kill",
            "exitcheck", "exitstate", "exitmap", "exitemit", "exitforget",
            "discard", "next", "mark", "send", "drop"}

Live   == {"starting", "running"}
Ended  == {"exited", "disposed"}

Idle(t)        == at[t] = "idle"
Goto(t, l)     == at' = [at EXCEPT ![t] = l] /\ UNCHANGED on
Enter(t, l, s) == at' = [at EXCEPT ![t] = l] /\ on' = [on EXCEPT ![t] = s]
Leave(t)       == Enter(t, "idle", NoSid)

NothingShown == [sid |-> NoSid, state |-> "none"]

Init ==
    /\ slot     = [a \in Agents |-> NoSid]
    /\ state    = [s \in Sids |-> "none"]
    /\ kill     = [s \in Sids |-> FALSE]
    /\ handed   = [s \in Sids |-> FALSE]
    /\ xfer     = [s \in Sids |-> FALSE]
    /\ cut      = [s \in Sids |-> FALSE]
    /\ eofWait  = [s \in Sids |-> FALSE]
    /\ waiting  = [s \in Sids |-> FALSE]
    /\ reg      = [s \in Sids |-> "absent"]
    /\ shown    = [a \in Agents |-> NothingShown]
    /\ child    = [s \in Sids |-> "none"]
    /\ detached = {}
    /\ at       = [t \in Threads |-> "idle"]
    /\ on       = [t \in Threads |-> NoSid]
    /\ todo     = {}
    /\ phase    = "adopting"

-----------------------------------------------------------------------------
(* create_with_profile                                                     *)

\* A session create() hands back instead of spawning a new one.  create()
\* then changes nothing, so there is no action for that branch.
Reusable(a) ==
    /\ slot[a] # NoSid
    /\ state[slot[a]] \in Live
    /\ ~kill[slot[a]]

MayCreate ==
    \/ phase = "normal"
    \/ phase = "adopting" /\ "adopt" \in Overlap
    \/ phase = "quitting" /\ "handoff" \in Overlap

\* Seeded fault: create without its reuse branch.
CreateBeginAlways(a, s) ==
    /\ MayCreate
    /\ Idle("lc")
    /\ AgentOf[s] = a /\ child[s] = "none"
    /\ slot' = [slot EXCEPT ![a] = NoSid]
    /\ Enter("lc", "spawn", s)
    /\ UNCHANGED <<state, kill, handed, xfer, cut, eofWait, waiting, reg,
                   shown, child, detached, todo, phase>>

\* Takes the lifecycle lock, drops the session it will not reuse from the map
\* and draws a session id.
CreateBegin(a, s) ==
    /\ MayCreate
    /\ Idle("lc")
    /\ ~Reusable(a)
    /\ AgentOf[s] = a /\ child[s] = "none"
    /\ slot' = [slot EXCEPT ![a] = NoSid]
    /\ Enter("lc", "spawn", s)
    /\ UNCHANGED <<state, kill, handed, xfer, cut, eofWait, waiting, reg,
                   shown, child, detached, todo, phase>>

\* factory.spawn() fails: create returns Err, the slot stays empty.
SpawnFail ==
    /\ at["lc"] = "spawn"
    /\ Leave("lc")
    /\ UNCHANGED <<slot, state, kill, handed, xfer, cut, eofWait, waiting,
                   reg, shown, child, detached, todo, phase>>

SpawnOk ==
    LET s == on["lc"] IN
    /\ at["lc"] = "spawn"
    /\ child'   = [child EXCEPT ![s] = "alive"]
    /\ eofWait' = [eofWait EXCEPT ![s] = FALSE]
    /\ Goto("lc", "slot")
    /\ UNCHANGED <<slot, state, kill, handed, xfer, cut, waiting, reg, shown,
                   detached, todo, phase>>

-----------------------------------------------------------------------------
(* install_session, shared by create (under the lock) and adopt (outside)   *)

\* A new Session object in state Starting overwrites whatever the map holds.
InstallSlot(t) ==
    LET s == on[t] IN
    /\ at[t] = "slot"
    /\ slot'   = [slot EXCEPT ![AgentOf[s]] = s]
    /\ state'  = [state EXCEPT ![s] = "starting"]
    /\ kill'   = [kill EXCEPT ![s] = FALSE]
    /\ handed' = [handed EXCEPT ![s] = FALSE]
    /\ xfer'   = [xfer EXCEPT ![s] = TRUE]
    /\ cut'    = [cut EXCEPT ![s] = FALSE]
    /\ Goto(t, "announce")
    /\ UNCHANGED <<eofWait, waiting, reg, shown, child, detached, todo, phase>>

\* Seeded fault: the event is built from the registry before its entry exists.
InstallAnnounceFromRegistry(t) ==
    LET s == on[t] IN
    /\ at[t] = "announce"
    /\ reg'     = [reg EXCEPT ![s] = "starting"]
    /\ shown'   = [shown EXCEPT ![AgentOf[s]] = [sid |-> s, state |-> reg[s]]]
    /\ waiting' = [waiting EXCEPT ![s] = TRUE]
    /\ Goto(t, "run")
    /\ UNCHANGED <<slot, state, kill, handed, xfer, cut, eofWait, child,
                   detached, todo, phase>>

\* Registry entry, Starting event, then the reader, pump and wait threads.
InstallAnnounce(t) ==
    LET s == on[t] IN
    /\ at[t] = "announce"
    /\ reg'     = [reg EXCEPT ![s] = "starting"]
    /\ shown'   = [shown EXCEPT ![AgentOf[s]] = [sid |-> s, state |-> "starting"]]
    /\ waiting' = [waiting EXCEPT ![s] = TRUE]
    /\ Goto(t, "run")
    /\ UNCHANGED <<slot, state, kill, handed, xfer, cut, eofWait, child,
                   detached, todo, phase>>

\* Seeded fault: Running is set without the compare.
InstallRunNoCompare(t) ==
    LET s == on[t] IN
    /\ at[t] = "run"
    /\ state' = [state EXCEPT ![s] = "running"]
    /\ UNCHANGED <<reg, shown>>
    /\ Leave(t)
    /\ UNCHANGED <<slot, kill, handed, xfer, cut, eofWait, waiting, child,
                   detached, todo, phase>>

\* Seeded fault: the registry is set to Running outside the compare.
InstallRunRegistryAnyway(t) ==
    LET s == on[t] IN
    /\ at[t] = "run"
    /\ state' = [state EXCEPT ![s] = IF @ = "starting" THEN "running" ELSE @]
    /\ reg'   = [reg EXCEPT ![s] = IF @ = "absent" THEN @ ELSE "running"]
    /\ Leave(t)
    /\ UNCHANGED <<slot, kill, handed, xfer, cut, eofWait, waiting, shown,
                   child, detached, todo, phase>>

\* The compare-and-set to Running: only a session that is still Starting
\* becomes Running; registry and event follow under the same state lock.
InstallRun(t) ==
    LET s == on[t] IN
    /\ at[t] = "run"
    /\ IF state[s] = "starting"
         THEN /\ state' = [state EXCEPT ![s] = "running"]
              /\ reg'   = [reg EXCEPT ![s] = IF @ = "absent" THEN @ ELSE "running"]
              /\ shown' = [shown EXCEPT ![AgentOf[s]] =
                                [sid |-> s, state |-> "running"]]
         ELSE UNCHANGED <<state, reg, shown>>
    /\ Leave(t)
    /\ UNCHANGED <<slot, kill, handed, xfer, cut, eofWait, waiting, child,
                   detached, todo, phase>>

-----------------------------------------------------------------------------
(* dispose, dispose_matching, dispose_existing                              *)

\* Under the lock: find the current session and refuse a handed-off one.
DisposeCheck(a) ==
    /\ Idle("lc")
    /\ slot[a] # NoSid
    /\ ~handed[slot[a]]
    /\ Enter("lc", "kill", slot[a])
    /\ UNCHANGED <<slot, state, kill, handed, xfer, cut, eofWait, waiting,
                   reg, shown, child, detached, todo, phase>>

\* kill_session: the flag first, then the signal.  The process dies later.
DisposeKill ==
    LET s == on["lc"] IN
    /\ at["lc"] = "kill"
    /\ kill' = [kill EXCEPT ![s] = TRUE]
    /\ Leave("lc")
    /\ UNCHANGED <<slot, state, handed, xfer, cut, eofWait, waiting, reg,
                   shown, child, detached, todo, phase>>

-----------------------------------------------------------------------------
(* The shell process and on_exit                                            *)

\* The process ends, by itself or by the signal, wherever its master fd is.
ChildExit(s) ==
    /\ child[s] = "alive"
    /\ child' = [child EXCEPT ![s] = "dead"]
    /\ UNCHANGED <<slot, state, kill, handed, xfer, cut, eofWait, waiting,
                   reg, shown, detached, at, on, todo, phase>>

\* wait() returns.  A spawned child's waiter reaps it.  An adopted session's
\* EofWaiter sits on a channel whose sender lives in the reader: it returns at
\* end of file, and also when the interrupted reader thread drops the sender.
WaitReturns(s) ==
    \/ child[s] = "dead"
    \/ eofWait[s] /\ cut[s]

OnExitBegin(s) ==
    /\ Idle("lc")
    /\ waiting[s]
    /\ WaitReturns(s)
    /\ waiting' = [waiting EXCEPT ![s] = FALSE]
    /\ Enter("lc", "exitcheck", s)
    /\ UNCHANGED <<slot, state, kill, handed, xfer, cut, eofWait, reg, shown,
                   child, detached, todo, phase>>

OnExitCheck ==
    LET s == on["lc"] IN
    /\ at["lc"] = "exitcheck"
    /\ IF handed[s] THEN Leave("lc") ELSE Goto("lc", "exitstate")
    /\ UNCHANGED <<slot, state, kill, handed, xfer, cut, eofWait, waiting,
                   reg, shown, child, detached, todo, phase>>

\* Disposed if the kill was asked for, else Exited; registry under the same
\* state lock; the hub's pending notifications of the session are purged.
OnExitState ==
    LET s    == on["lc"]
        next == IF kill[s] THEN "disposed" ELSE "exited"
    IN
    /\ at["lc"] = "exitstate"
    /\ state' = [state EXCEPT ![s] = next]
    /\ reg'   = [reg EXCEPT ![s] = IF @ = "absent" THEN @ ELSE next]
    /\ Goto("lc", "exitmap")
    /\ UNCHANGED <<slot, kill, handed, xfer, cut, eofWait, waiting, shown,
                   child, detached, todo, phase>>

\* Seeded fault: the event goes out without asking whose slot it is.
OnExitMapEmitsAlways ==
    LET s == on["lc"]
        a == AgentOf[s]
    IN
    /\ at["lc"] = "exitmap"
    /\ slot' = IF slot[a] = s /\ state[s] = "disposed"
                 THEN [slot EXCEPT ![a] = NoSid] ELSE slot
    /\ Goto("lc", "exitemit")
    /\ UNCHANGED <<state, kill, handed, xfer, cut, eofWait, waiting, reg,
                   shown, child, detached, todo, phase>>

\* Seeded fault: the slot is freed by agent id, not by session identity.
OnExitMapByAgent ==
    LET s == on["lc"] IN
    /\ at["lc"] = "exitmap"
    /\ slot' = IF state[s] = "disposed"
                 THEN [slot EXCEPT ![AgentOf[s]] = NoSid] ELSE slot
    /\ Goto("lc", "exitemit")
    /\ UNCHANGED <<state, kill, handed, xfer, cut, eofWait, waiting, reg,
                   shown, child, detached, todo, phase>>

\* Is this still the agent's session?  If so and Disposed, free the slot.
OnExitMap ==
    LET s == on["lc"]
        a == AgentOf[s]
    IN
    /\ at["lc"] = "exitmap"
    /\ slot' = IF slot[a] = s /\ state[s] = "disposed"
                 THEN [slot EXCEPT ![a] = NoSid] ELSE slot
    /\ IF slot[a] = s THEN Goto("lc", "exitemit") ELSE Goto("lc", "exitforget")
    /\ UNCHANGED <<state, kill, handed, xfer, cut, eofWait, waiting, reg,
                   shown, child, detached, todo, phase>>

OnExitEmit ==
    LET s == on["lc"] IN
    /\ at["lc"] = "exitemit"
    /\ shown' = [shown EXCEPT ![AgentOf[s]] = [sid |-> s, state |-> state[s]]]
    /\ Goto("lc", "exitforget")
    /\ UNCHANGED <<slot, state, kill, handed, xfer, cut, eofWait, waiting,
                   reg, child, detached, todo, phase>>

\* Seeded fault: the registry entry of a disposed session stays.
OnExitForgetNothing ==
    /\ at["lc"] = "exitforget"
    /\ Leave("lc")
    /\ UNCHANGED <<slot, state, kill, handed, xfer, cut, eofWait, waiting, reg,
                   shown, child, detached, todo, phase>>

OnExitForget ==
    LET s == on["lc"] IN
    /\ at["lc"] = "exitforget"
    /\ reg' = [reg EXCEPT ![s] = IF state[s] = "disposed" THEN "absent" ELSE @]
    /\ Leave("lc")
    /\ UNCHANGED <<slot, state, kill, handed, xfer, cut, eofWait, waiting,
                   shown, child, detached, todo, phase>>

OnExit == OnExitCheck \/ OnExitState \/ OnExitMap \/ OnExitEmit \/ OnExitForget

-----------------------------------------------------------------------------
(* handoff_all and handoff_one                                              *)

\* The user keeps the terminals and quits: task chats are thrown away first.
HandoffBegin ==
    /\ phase = "normal"
    /\ phase' = "quitting"
    /\ todo'  = {a \in Chats : slot[a] # NoSid}
    /\ Enter("handoff", "discard", NoSid)
    /\ UNCHANGED <<slot, state, kill, handed, xfer, cut, eofWait, waiting,
                   reg, shown, child, detached>>

\* discard_task_chats: one dispose each, waiting for the lifecycle lock.
HandoffDiscard(a) ==
    /\ at["handoff"] = "discard"
    /\ a \in todo
    /\ Idle("lc")
    /\ todo' = todo \ {a}
    /\ IF slot[a] # NoSid /\ ~handed[slot[a]]
         THEN Enter("lc", "kill", slot[a])
         ELSE UNCHANGED <<at, on>>
    /\ UNCHANGED <<slot, state, kill, handed, xfer, cut, eofWait, waiting,
                   reg, shown, child, detached, phase>>

\* The Running sessions of the characters, read under the map lock.
HandoffList ==
    /\ at["handoff"] = "discard"
    /\ todo = {}
    /\ todo' = {a \in Agents \ Chats :
                    slot[a] # NoSid /\ state[slot[a]] = "running"}
    /\ Goto("handoff", "next")
    /\ UNCHANGED <<slot, state, kill, handed, xfer, cut, eofWait, waiting,
                   reg, shown, child, detached, phase>>

\* find, take the handoff info and stop the reader; or skip the agent.
HandoffTake(a) ==
    LET s == slot[a] IN
    /\ at["handoff"] = "next"
    /\ a \in todo
    /\ todo' = todo \ {a}
    /\ IF s # NoSid /\ ~handed[s] /\ xfer[s]
         THEN /\ xfer' = [xfer EXCEPT ![s] = FALSE]
              /\ cut'  = [cut EXCEPT ![s] = TRUE]
              /\ Enter("handoff", "mark", s)
         ELSE UNCHANGED <<xfer, cut, at, on>>
    /\ UNCHANGED <<slot, state, kill, handed, eofWait, waiting, reg, shown,
                   child, detached, phase>>

\* 20 ms later: handed_off.
HandoffMark ==
    LET s == on["handoff"] IN
    /\ at["handoff"] = "mark"
    /\ handed' = [handed EXCEPT ![s] = TRUE]
    /\ Goto("handoff", "send")
    /\ UNCHANGED <<slot, state, kill, xfer, cut, eofWait, waiting, reg, shown,
                   child, detached, todo, phase>>

\* sessiond's table holds one entry per agent: a new one drops the old, whose
\* last master fd is closed with it.
DaemonTable(s) == {d \in detached : AgentOf[d] # AgentOf[s]} \cup {s}
Dropped(s)     == {d \in detached : AgentOf[d] = AgentOf[s] /\ d # s}
Hangup(S) == [x \in Sids |-> IF x \in S /\ child[x] = "alive" THEN "dead"
                                                              ELSE child[x]]

HandoffOk ==
    LET s == on["handoff"] IN
    /\ at["handoff"] = "send"
    /\ detached' = DaemonTable(s)
    /\ child'    = Hangup(Dropped(s))
    /\ Goto("handoff", "drop")
    /\ UNCHANGED <<slot, state, kill, handed, xfer, cut, eofWait, waiting,
                   reg, shown, todo, phase>>

\* The request fails, or only its answer is lost: the session stays in the map
\* with handed_off set.
HandoffErr ==
    LET s == on["handoff"] IN
    /\ at["handoff"] = "send"
    /\ \/ UNCHANGED <<detached, child>>
       \/ detached' = DaemonTable(s) /\ child' = Hangup(Dropped(s))
    /\ Enter("handoff", "next", NoSid)
    /\ UNCHANGED <<slot, state, kill, handed, xfer, cut, eofWait, waiting,
                   reg, shown, todo, phase>>

\* On success: whatever the agent's slot holds goes, and the registry entry.
HandoffDrop ==
    LET s == on["handoff"] IN
    /\ at["handoff"] = "drop"
    /\ slot' = [slot EXCEPT ![AgentOf[s]] = NoSid]
    /\ reg'  = [reg EXCEPT ![s] = "absent"]
    /\ Enter("handoff", "next", NoSid)
    /\ UNCHANGED <<state, kill, handed, xfer, cut, eofWait, waiting, shown,
                   child, detached, todo, phase>>

Handoff ==
    \/ HandoffList \/ HandoffMark \/ HandoffOk \/ HandoffErr \/ HandoffDrop
    \/ \E a \in Agents : HandoffDiscard(a) \/ HandoffTake(a)

-----------------------------------------------------------------------------
(* adopt_detached and adopt_one, at boot                                    *)

\* Adopt takes the entry out of sessiond's table and brings its master fd.
AdoptTake(s) ==
    /\ phase = "adopting"
    /\ Idle("adopt")
    /\ s \in detached
    /\ detached' = detached \ {s}
    /\ eofWait'  = [eofWait EXCEPT ![s] = TRUE]
    /\ Enter("adopt", "slot", s)
    /\ UNCHANGED <<slot, state, kill, handed, xfer, cut, waiting, reg, shown,
                   child, todo, phase>>

\* assemble_adopted fails, or the agent is unknown and the entry is killed:
\* the last master fd is closed.
AdoptLose(s) ==
    /\ phase = "adopting"
    /\ Idle("adopt")
    /\ s \in detached
    /\ detached' = detached \ {s}
    /\ child'    = Hangup({s})
    /\ UNCHANGED <<slot, state, kill, handed, xfer, cut, eofWait, waiting,
                   reg, shown, at, on, todo, phase>>

AdoptDone ==
    /\ phase = "adopting"
    /\ Idle("adopt")
    /\ phase' = "normal"
    /\ UNCHANGED <<slot, state, kill, handed, xfer, cut, eofWait, waiting,
                   reg, shown, child, detached, at, on, todo>>

-----------------------------------------------------------------------------
\* The app process ends, by quit or crash, and is started again.  Everything
\* but sessiond's table is memory; closing the app's master fds hangs up every
\* shell that sessiond does not hold.
AppRestart ==
    /\ child'    = Hangup(Sids \ detached)
    /\ slot'     = [a \in Agents |-> NoSid]
    /\ state'    = [s \in Sids |-> "none"]
    /\ kill'     = [s \in Sids |-> FALSE]
    /\ handed'   = [s \in Sids |-> FALSE]
    /\ xfer'     = [s \in Sids |-> FALSE]
    /\ cut'      = [s \in Sids |-> FALSE]
    /\ eofWait'  = [s \in Sids |-> FALSE]
    /\ waiting'  = [s \in Sids |-> FALSE]
    /\ reg'      = [s \in Sids |-> "absent"]
    /\ shown'    = [a \in Agents |-> NothingShown]
    /\ at'       = [t \in Threads |-> "idle"]
    /\ on'       = [t \in Threads |-> NoSid]
    /\ todo'     = {}
    /\ phase'    = "adopting"
    /\ UNCHANGED detached

Install(t) == InstallSlot(t) \/ InstallAnnounce(t) \/ InstallRun(t)

Next ==
    \/ \E a \in Agents, s \in Sids : CreateBegin(a, s)
    \/ SpawnFail \/ SpawnOk
    \/ \E t \in {"lc", "adopt"} : Install(t)
    \/ \E a \in Agents : DisposeCheck(a)
    \/ DisposeKill
    \/ \E s \in Sids : ChildExit(s) \/ OnExitBegin(s)
    \/ OnExit
    \/ HandoffBegin \/ Handoff
    \/ \E s \in Sids : AdoptTake(s) \/ AdoptLose(s)
    \/ AdoptDone
    \/ AppRestart

Spec == Init /\ [][Next]_vars

\* Threads that hold a lock or an adopted fd keep running, a SIGKILLed child dies, and a wait
\* thread whose wait() returned gets the lifecycle lock in the end (parking_lot
\* hands it over eventually).  Nothing forces a create, a dispose or a quit.
LockProgress == SpawnOk \/ Install("lc") \/ DisposeKill \/ OnExit

Fairness ==
    /\ WF_vars(LockProgress)
    /\ WF_vars(Install("adopt"))
    /\ \A s \in Sids : WF_vars(kill[s] /\ ChildExit(s))
    /\ \A s \in Sids : SF_vars(OnExitBegin(s))

FairSpec == Spec /\ Fairness
-----------------------------------------------------------------------------
(* Properties                                                               *)

\* Every variable has its type (session, registry and event state of
\* manager.rs, state.rs and handoff_v1.rs).
TypeOK ==
    /\ slot     \in [Agents -> Sids \cup {NoSid}]
    /\ state    \in [Sids -> States]
    /\ kill     \in [Sids -> BOOLEAN]
    /\ handed   \in [Sids -> BOOLEAN]
    /\ xfer     \in [Sids -> BOOLEAN]
    /\ cut      \in [Sids -> BOOLEAN]
    /\ eofWait  \in [Sids -> BOOLEAN]
    /\ waiting  \in [Sids -> BOOLEAN]
    /\ reg      \in [Sids -> States \cup {"absent"}]
    /\ shown    \in [Agents -> [sid : Sids \cup {NoSid}, state : States]]
    /\ child    \in [Sids -> {"none", "alive", "dead"}]
    /\ detached \subseteq Sids
    /\ at       \in [Threads -> Steps]
    /\ on       \in [Threads -> Sids \cup {NoSid}]
    /\ todo     \subseteq Agents
    /\ phase    \in {"adopting", "normal", "quitting"}

\* Whoever resolves a session through the registry (the hub, the resume
\* recorders, the control server) reads the state the session is really in:
\* install_session's compare-and-set and on_exit write both under one lock.
RegistryMatches ==
    \A s \in Sids : reg[s] # "absent" => reg[s] = state[s]

\* "Exited, then Running" is impossible: once on_exit has ended a session no
\* step of the same app run moves it again, whichever of install_session's
\* last step (outside the lifecycle lock for an adoption) and on_exit wins.
EndedStaysEnded ==
    [][\A s \in Sids : state[s] \in Ended => state'[s] \in {state[s], "none"}]_vars

Busy(a) ==
    \E t \in Threads : ~Idle(t) /\ on[t] # NoSid /\ AgentOf[on[t]] = a

\* The renderer, which keys session state by agent, always ends up with the
\* state of the agent's current session: the late exit of a replaced session
\* never overwrites it (the restart race on_exit guards against).
ShownFollowsSlot ==
    \A a \in Agents :
        slot[a] # NoSid /\ ~Busy(a) =>
            shown[a] = [sid |-> slot[a], state |-> state[slot[a]]]

\* One agent, one session: a live session that nobody asked to kill and that
\* was not handed off is the one in its agent's slot, so that input, dispose
\* and dispose_all reach it.
NoLiveOrphan ==
    \A s \in Sids :
        state[s] \in Live /\ ~kill[s] /\ ~handed[s] /\ child[s] = "alive"
            => slot[AgentOf[s]] = s

\* A live session that is disposed of is reaped and forgotten by the registry
\* and the map, unless a handoff took it over meanwhile.  (Disposing of one
\* that has Exited only sets its flag: it stays in both.)
KilledIsForgotten ==
    \A s \in Sids :
        kill[s] /\ state[s] \in Live
            ~> \/ handed[s]
               \/ reg[s] = "absent" /\ slot[AgentOf[s]] # s

\* What the control server's `list` reports for an agent with a running
\* session: it walks the whole registry and keeps any one entry per agent
\* (control/routes.rs), so every entry of the agent must say "running".
ListShowsRunning ==
    \A a \in Agents, s \in Sids :
        /\ slot[a] # NoSid /\ state[slot[a]] = "running" /\ ~Busy(a)
        /\ AgentOf[s] = a /\ reg[s] # "absent"
        => reg[s] = "running"

\* The stop gate of an adopted session: handing it off again is not mistaken
\* for its exit (pty_factory.rs, AdoptedReader).
ExitedMeansDead ==
    \A s \in Sids : state[s] \in Ended => child[s] = "dead"

-----------------------------------------------------------------------------
(* Refinement                                                               *)

Life(s) ==
    CASE state[s] = "none"                                  -> "unborn"
      [] state[s] \in Live /\ ~kill[s] /\ ~handed[s]       -> "live"
      [] state[s] \in Live /\ (kill[s] \/ handed[s])       -> "doomed"
      [] state[s] \in Ended                                 -> "over"

Promise == INSTANCE AgentSession WITH
               current <- slot,
               life    <- [s \in Sids |-> Life(s)]

\* Under the renderer's discipline the manager keeps the one-session promise
\* step by step: no create, exit, dispose, handoff or adoption replaces a live
\* session or revives an ended one.
KeepsPromise == Promise!Spec
=============================================================================
