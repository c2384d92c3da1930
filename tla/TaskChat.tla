-------------------------------- MODULE TaskChat --------------------------------
(***************************************************************************)
(* Chats about tasks: sessions without a character, one per task.  The     *)
(* renderer keeps their tabs (workpanels/taskChatStore.ts); task_chat.rs   *)
(* makes the session, launches a CLI in it and gives it the context, and   *)
(* disposes the session when that fails.  The calls of the renderer run as *)
(* tasks of their own, and the answer of one and the events about its      *)
(* session may pass each other.  create, dispose and on_exit hold the      *)
(* lifecycle mutex and are a step each.                                    *)
(***************************************************************************)
EXTENDS Naturals, Sequences, FiniteSets, SequencesExt

CONSTANTS
    Tasks,
    MAX_TASK_CHATS,
    MaxSessions, MaxReloads    \* bounds

ConstantsFit == {MAX_TASK_CHATS, MaxSessions, MaxReloads} \subseteq Nat

Sids  == 1..MaxSessions
NoSid == 0
NoTab == [sid |-> NoSid, live |-> FALSE]
Tabs  == [sid : Sids \cup {NoSid}, live : BOOLEAN]

VARIABLES
    page,      \* loads of the web view before this one
    chats,     \* task -> its tab
    opening,   \* tasks whose open is under way, as the renderer knows
    latest,    \* task -> last state of a session of it
    calls,     \* open_task_chat under way, with the session each has made
    disposes,  \* dispose_session under way, for the tab that was closed
    events,    \* session-state on its way to the renderer
    slot,      \* sessions map: task -> session
    sess       \* session -> its life, its task and the page that asked for it

renderer == <<page, chats, opening, latest>>
manager  == <<slot, sess>>
vars     == <<renderer, calls, disposes, events, manager>>

Init ==
    /\ page = 0 /\ chats = [t \in Tasks |-> NoTab] /\ opening = {}
    /\ latest = [t \in Tasks |-> NoTab]
    /\ calls = {} /\ disposes = {} /\ events = <<>>
    /\ slot = [t \in Tasks |-> NoSid]
    /\ sess = [s \in Sids |-> [life |-> "unborn", of |-> CHOOSE t \in Tasks : TRUE, page |-> 0]]

-----------------------------------------------------------------------------
(* The renderer                                                             *)

Forgotten(t) ==
    /\ chats' = [chats EXCEPT ![t] = NoTab] /\ latest' = [latest EXCEPT ![t] = NoTab]

\* openTaskChat, up to its await; a chat that lives is only shown.
Open(t) ==
    /\ Cardinality(calls) < Cardinality({s \in Sids : sess[s].life = "unborn"})
    /\ ~chats[t].live /\ t \notin opening
    /\ Cardinality({u \in Tasks : chats[u].live}) < MAX_TASK_CHATS
    /\ opening' = opening \cup {t}
    /\ IF chats[t] = NoTab THEN UNCHANGED <<chats, latest>> ELSE Forgotten(t)
    /\ calls' = calls \cup {[task |-> t, page |-> page, at |-> "sent", sid |-> NoSid]}
    /\ UNCHANGED <<page, disposes, events, manager>>

\* Seeded fault: a chat that is new is taken to run.
AnsweredRunning(t, s) == [sid |-> s, live |-> TRUE]

\* The tab; what is known of its session may be newer than the answer.
Answered(t, s) ==
    [sid |-> s, live |-> IF latest[t].sid = s THEN latest[t].live ELSE TRUE]

\* ... and from its await on.
Answer(c) ==
    /\ c.at \in {"ok", "failed"}
    /\ IF c.page = page
       THEN /\ opening' = opening \ {c.task}
            /\ chats' = IF c.at = "ok" THEN [chats EXCEPT ![c.task] = Answered(c.task, c.sid)]
                        ELSE chats
       ELSE UNCHANGED <<opening, chats>>
    /\ calls' = calls \ {c}
    /\ UNCHANGED <<page, latest, disposes, events, manager>>

\* closeTaskChat.
Close(t) ==
    /\ chats[t] # NoTab /\ Forgotten(t)
    /\ disposes' = IF chats[t].live THEN disposes \cup {[task |-> t, tab |-> chats[t].sid]}
                   ELSE disposes
    /\ UNCHANGED <<page, opening, calls, events, manager>>

\* applyTaskChatState.
Event ==
    /\ events # <<>> /\ events' = Tail(events)
    /\ LET e == Head(events) IN
         /\ latest' = [latest EXCEPT ![e.task] = e.state]
         /\ chats' = IF chats[e.task].sid = e.state.sid
                     THEN [chats EXCEPT ![e.task] = e.state] ELSE chats
    /\ UNCHANGED <<page, opening, calls, disposes, manager>>

\* The web view starts anew; what it has called goes on, and has begun long before.
Reload ==
    /\ page < MaxReloads /\ page' = page + 1 /\ \A c \in calls : c.at # "sent"
    /\ chats' = [t \in Tasks |-> NoTab] /\ latest' = [t \in Tasks |-> NoTab]
    /\ opening' = {} /\ events' = <<>>
    /\ UNCHANGED <<calls, disposes, manager>>

-----------------------------------------------------------------------------
(* The back end                                                             *)

Running(t) == slot[t] # NoSid /\ sess[slot[t]].life \in {"live", "doomed"}
LiveChats  == {s \in Sids : sess[s].life = "live"}
Becomes(c, at, s) == calls' = (calls \ {c}) \cup {[c EXCEPT !.at = at, !.sid = s]}
Announced(s, t, live) ==
    events' = Append(events, [task |-> t, state |-> [sid |-> s, live |-> live]])

\* open: the opening guard, the session that may be there, the limit.
Guarded == {c.task : c \in {d \in calls : d.at \in {"building", "sending"}}}
Begin(c) ==
    /\ c.at = "sent"
    /\ Becomes(c, IF \/ c.task \in Guarded \/ Running(c.task)
                     \/ Cardinality(LiveChats) >= MAX_TASK_CHATS
                  THEN "failed" ELSE "building", NoSid)
    /\ UNCHANGED <<renderer, disposes, events, manager>>

\* Once the context is built: the session, which runs when create returns.
Create(c) ==
    /\ c.at = "building"
    /\ \E s \in Sids :
         /\ sess[s].life = "unborn" /\ \A r \in Sids : r < s => sess[r].life # "unborn"
         /\ sess' = [sess EXCEPT ![s] = [life |-> "live", of |-> c.task, page |-> c.page]]
         /\ slot' = [slot EXCEPT ![c.task] = s]
         /\ Announced(s, c.task, TRUE) /\ Becomes(c, "sending", s)
    /\ UNCHANGED <<renderer, disposes>>
CreateFails(c) ==
    /\ c.at = "building" /\ Becomes(c, "failed", NoSid)
    /\ UNCHANGED <<renderer, disposes, events, manager>>

\* The CLI has been launched and given the context.
Sent(c) ==
    /\ c.at = "sending" /\ Becomes(c, "ok", c.sid)
    /\ UNCHANGED <<renderer, disposes, events, manager>>

Killed(s) == IF sess[s].life = "live" THEN [sess EXCEPT ![s].life = "doomed"] ELSE sess

\* Or not, for whatever reason: dispose_matching.
SendFails(c) ==
    /\ c.at = "sending" /\ Becomes(c, "failed", NoSid)
    /\ sess' = IF slot[c.task] = c.sid THEN Killed(c.sid) ELSE sess
    /\ UNCHANGED <<renderer, disposes, events, slot>>

\* dispose_session, of the session that is there.
Dispose(d) ==
    /\ disposes' = disposes \ {d}
    /\ sess' = IF slot[d.task] = NoSid THEN sess ELSE Killed(slot[d.task])
    /\ UNCHANGED <<renderer, calls, events, slot>>

\* on_exit: of itself, by the person in the terminal or by the kill.
Exit(s) ==
    /\ sess[s].life \in {"live", "doomed"} /\ sess' = [sess EXCEPT ![s].life = "over"]
    /\ IF slot[sess[s].of] = s THEN Announced(s, sess[s].of, FALSE) ELSE UNCHANGED events
    /\ slot' = IF slot[sess[s].of] = s /\ sess[s].life = "doomed"
               THEN [slot EXCEPT ![sess[s].of] = NoSid] ELSE slot
    /\ UNCHANGED <<renderer, calls, disposes>>

-----------------------------------------------------------------------------
Goes(c) == Answer(c) \/ Begin(c) \/ Create(c) \/ CreateFails(c) \/ Sent(c) \/ SendFails(c)

Next ==
    \/ \E t \in Tasks : Open(t) \/ Close(t)
    \/ \E c \in calls : Goes(c)
    \/ \E d \in disposes : Dispose(d)
    \/ \E s \in Sids : Exit(s)
    \/ Event \/ Reload

Spec == Init /\ [][Next]_vars

\* A call ends: git, the launch and the waits for the CLI have deadlines.
Works(t) == \E c \in calls : c.task = t /\ Goes(c)
FairSpec == Spec /\ \A t \in Tasks : WF_vars(Works(t))

-----------------------------------------------------------------------------
TypeOK ==
    /\ page \in 0..MaxReloads /\ opening \subseteq Tasks
    /\ {chats, latest} \subseteq [Tasks -> Tabs] /\ slot \in [Tasks -> Sids \cup {NoSid}]
    /\ \A c, d \in calls : c.task = d.task /\ c.page = d.page => c = d

\* A chat that lives has its tab, or a call that has made it or is to end it: however an
\* open fails or meets the end of its session, no CLI is left running that nobody can see
\* and close (taskChatStore.ts, task_chat.rs).  What a page that is gone has asked for is
\* not meant: its sessions are only found when the app quits.
NoneHidden ==
    \A s \in Sids : sess[s].life = "live" /\ sess[s].page = page =>
        \/ chats[sess[s].of].sid = s
        \/ \E c \in calls : c.sid = s
        \/ \E d \in disposes : d.task = sess[s].of

\* What a tab shows of its session is true once the events about it have come, in
\* whatever order they and the answer of the open arrive (taskChatStore.ts).
TabsTrue ==
    \A t \in Tasks :
        chats[t] # NoTab /\ (\A i \in DOMAIN events : events[i].state.sid # chats[t].sid)
            => chats[t].live = (sess[chats[t].sid].life \in {"live", "doomed"})

\* Every open comes to its end.
Opened(t)   == t \notin opening
OpeningsEnd == \A t \in Tasks : []<>Opened(t)

\* No more chats live than the limit (guide.md, task_chat.rs).
LimitKept == Cardinality(LiveChats) <= MAX_TASK_CHATS

\* Closing a tab ends no other session than the tab's (taskChatStore.ts).
OnlyItsOwn ==
    [][\A d \in disposes : d \notin disposes' =>
         \A s \in Sids : sess[s].life = "live" /\ sess'[s].life = "doomed" => s = d.tab]_vars
=============================================================================
