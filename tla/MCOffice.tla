-------------------------------- MODULE MCOffice --------------------------------
(***************************************************************************)
(* TLC instances of what the office keeps beside its terminals, in one     *)
(* run.  A behaviour is one of these:                                      *)
(*   auto      the automatic run of a plan: a root and its prerequisite    *)
(*   chats     chats about two tasks, one of which may live                *)
(*   daemon    the session daemons and their clients                       *)
(* The other machines stay where they begin.                               *)
(***************************************************************************)
EXTENDS MCAutoRun

CONSTANTS
    MAX_TASK_CHATS, MaxChats, MaxReloads,                       \* of TaskChat
    Agents, Daemons, NoDaemon, Overlap, MaxConns, MaxStarts     \* of Sessiond

VARIABLES
    part,
    page, chats, opening, latest, calls, disposes, events, slot, sess,
    path, proc, table, ever, timer, conns, used, app, starts, mine, boot, quit, safe

Chats == INSTANCE TaskChat WITH MaxSessions <- MaxChats
Daemon == INSTANCE Sessiond

ASSUME InstancesFit == Chats!ConstantsFit /\ Daemon!ConstantsFit

talk == <<page, chats, opening, latest, calls, disposes, events, slot, sess>>
daemons == <<path, proc, table, ever, timer, conns, used, app, starts, mine, boot, quit, safe>>
allVars == <<part, vars, talk, daemons>>

MCInit == part \in {"auto", "chats", "daemon"} /\ Init /\ Chats!Init /\ Daemon!Init

MCNext ==
    /\ UNCHANGED part
    /\ \/ part = "auto" /\ Next /\ UNCHANGED <<talk, daemons>>
       \/ part = "chats" /\ Chats!Next /\ UNCHANGED <<vars, daemons>>
       \/ part = "daemon" /\ Daemon!Next /\ UNCHANGED <<vars, talk>>

\* The fairness of AutoRun, of TaskChat and of Sessiond.
MCSpec ==
    /\ MCInit /\ [][MCNext]_allVars
    /\ WF_vars(part = "auto" /\ Inside) /\ SF_vars(part = "auto" /\ Outside)
    /\ \A t \in Tasks : WF_talk(part = "chats" /\ Chats!Works(t))
    /\ Daemon!Fairness

-----------------------------------------------------------------------------
\* The types of the run, the chats and the daemons (AutoRun, TaskChat, Sessiond); in
\* particular no task gets more follow-ups than the limit.
OfficeTypes ==
    CASE part = "auto" -> TypeOK
      [] part = "chats" -> Chats!TypeOK
      [] part = "daemon" -> Daemon!TypeOK

\* A chat that lives can be seen and closed, and its tab is true of it, however its open
\* fails and in whatever order answers and events come (TaskChat, taskChatStore.ts).
ChatsInSight == part = "chats" => Chats!NoneHidden /\ Chats!TabsTrue

\* What was handed over stays in a running daemon's table until it ends or is taken back
\* (Sessiond, daemon.rs).
HandedOffSurvives == part = "daemon" => Daemon!HandedOffSurvives

\* The next app finds the daemon that holds it (Sessiond, client.rs).
FoundAgain == part = "daemon" => Daemon!FoundAgain

\* A daemon that holds nothing and serves nobody leaves (Sessiond, daemon.rs).
IdleDaemonLeaves == Daemon!IdleDaemonLeaves

\* A run of a plan never stays running for ever (AutoRun), and every open of a chat comes
\* to its end (TaskChat).
WorkEnds == RunSettles /\ Chats!OpeningsEnd
=============================================================================
