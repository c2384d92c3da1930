-------------------------------- MODULE Sessiond --------------------------------
(***************************************************************************)
(* The session daemon and its clients (sessiond/daemon.rs, client.rs, and  *)
(* their callers in session/handoff_v1.rs).  At quit the app connects to   *)
(* the daemon the socket path names, starting one if nobody answers, and   *)
(* hands its running sessions over; at boot it lists them and takes them   *)
(* back.  A daemon leaves when a connection ends and its table is empty,   *)
(* or when nothing was handed over for a minute.                           *)
(*                                                                         *)
(* What happens to one session's output is HandoffStream, what the app's   *)
(* session manager does with it SessionLifecycle.                          *)
(***************************************************************************)
EXTENDS Naturals, FiniteSets

CONSTANTS
    Agents,
    Daemons,    \* daemons that may be started, one after the other
    NoDaemon,
    Overlap,    \* a client may act between a daemon's decision to leave and
                \* its exit, which are a few instructions apart, and the app be
                \* started again before a daemon it has just started has bound
    MaxConns,   \* bound: connections
    MaxStarts   \* bound: starts of the app

ConstantsFit ==
    /\ NoDaemon \notin Daemons /\ Overlap \in BOOLEAN
    /\ MaxConns \in Nat /\ MaxStarts \in Nat

VARIABLES
    path,    \* the daemon whose listener the socket file is
    proc,    \* daemon -> "none", "born" (spawned), "up" (bound), "dead"
    table,   \* daemon -> agent -> its entry: "none", "live", "exited"
    ever,    \* daemon -> ever_handoff
    timer,   \* daemon -> its first-handoff thread: "wait", "unlink", "exit", "done"
    conns,   \* connection -> [d, open: by the client, at: the daemon's thread, agent]
    used,    \* connections made so far
    app,     \* "up" or "down"
    starts,  \* starts of the app so far
    mine,    \* agent -> the app runs a session for it
    boot,    \* adopt_detached: [at, c: its connection, todo: agents listed]
    quit,    \* handoff_all: [at, c, todo: agents to hand over, spawned]
    safe     \* history: agent -> the app was told HandoffOk and the session was
             \* neither adopted nor killed since

vars == <<path, proc, table, ever, timer, conns, used, app, starts, mine, boot, quit, safe>>
daemonside == <<path, proc, table, ever, timer>>

Conns == 1 .. MaxConns
NoConn == [d |-> NoDaemon, open |-> FALSE, at |-> "none", agent |-> {}]
BootIdle == [at |-> "start", c |-> 0, todo |-> {}]
QuitIdle == [at |-> "idle", c |-> 0, todo |-> {}, spawned |-> FALSE]

Init ==
    /\ path = NoDaemon
    /\ proc = [d \in Daemons |-> "none"]
    /\ table = [d \in Daemons |-> [a \in Agents |-> "none"]]
    /\ ever = [d \in Daemons |-> FALSE]
    /\ timer = [d \in Daemons |-> "wait"]
    /\ conns = [c \in Conns |-> NoConn] /\ used = 0
    /\ app = "up" /\ starts = 0
    /\ mine = [a \in Agents |-> FALSE]
    /\ boot = BootIdle /\ quit = QuitIdle
    /\ safe = [a \in Agents |-> FALSE]

Empty(d) == \A a \in Agents : table[d][a] = "none"
Leaving(d) == timer[d] \in {"unlink", "exit"}
              \/ \E c \in Conns : conns[c].d = d /\ conns[c].at \in {"unlink", "exit"}
Settled == Overlap \/ \A d \in Daemons : proc[d] = "up" => ~Leaving(d)

\* connect(2) to the path and Hello.
Answers == path # NoDaemon /\ proc[path] = "up"
Connect(d) ==
    /\ used < MaxConns
    /\ used' = used + 1
    /\ conns' = [conns EXCEPT ![used + 1] =
                   [d |-> d, open |-> TRUE, at |-> "serving", agent |-> {}]]
\* The daemon's end of a connection is there and waits for a request.
Serves(c) == c # 0 /\ conns[c].at = "serving" /\ conns[c].agent = {} /\ proc[conns[c].d] = "up"
Broken(c) == c # 0 /\ proc[conns[c].d] = "dead"
Close(c) == conns' = [conns EXCEPT ![c].open = FALSE]

-----------------------------------------------------------------------------
\* adopt_detached: does not start a daemon.

BootConnect ==
    /\ app = "up" /\ boot.at = "start" /\ Settled
    /\ IF Answers
         THEN /\ Connect(path)
              /\ boot' = [boot EXCEPT !.at = "list", !.c = used + 1]
         ELSE /\ boot' = [boot EXCEPT !.at = "done"]
              /\ UNCHANGED <<conns, used>>
    /\ UNCHANGED <<daemonside, app, starts, mine, quit, safe>>

\* Exited entries are skipped (and stay in the table).
BootList ==
    /\ boot.at = "list" /\ Serves(boot.c)
    /\ boot' = [boot EXCEPT !.at = "adopt",
                            !.todo = {a \in Agents : table[conns[boot.c].d][a] = "live"}]
    /\ UNCHANGED <<daemonside, conns, used, app, starts, mine, quit, safe>>

\* handle_adopt: the entry leaves the table and the app gets the fd.
BootAdopt(a) ==
    LET d == conns[boot.c].d IN
    /\ boot.at = "adopt" /\ a \in boot.todo /\ Serves(boot.c)
    /\ boot' = [boot EXCEPT !.todo = @ \ {a}]
    /\ table' = [table EXCEPT ![d][a] = "none"]
    /\ safe' = [safe EXCEPT ![a] = FALSE]
    /\ mine' = [mine EXCEPT ![a] = @ \/ table[d][a] = "live"]
    /\ UNCHANGED <<path, proc, ever, timer, conns, used, app, starts, quit>>

\* handle_kill: of an agent the profiles no longer know.
BootKill(a) ==
    LET d == conns[boot.c].d IN
    /\ boot.at = "adopt" /\ a \in boot.todo /\ Serves(boot.c)
    /\ boot' = [boot EXCEPT !.todo = @ \ {a}]
    /\ table' = [table EXCEPT ![d][a] = "none"]
    /\ safe' = [safe EXCEPT ![a] = FALSE]
    /\ UNCHANGED <<path, proc, ever, timer, conns, used, app, starts, mine, quit>>

BootDone ==
    /\ boot.at \in {"list", "adopt"}
    /\ (boot.at = "adopt" /\ boot.todo = {}) \/ Broken(boot.c)
    /\ Close(boot.c)
    /\ boot' = [boot EXCEPT !.at = "done"]
    /\ UNCHANGED <<daemonside, used, app, starts, mine, quit, safe>>

-----------------------------------------------------------------------------
\* handoff_all and connect_or_spawn.

QuitBegin ==
    /\ app = "up" /\ quit.at = "idle"
    /\ \E a \in Agents : mine[a]
    /\ quit' = [quit EXCEPT !.at = "connect", !.todo = {a \in Agents : mine[a]}]
    /\ UNCHANGED <<daemonside, conns, used, app, starts, mine, boot, safe>>

QuitConnect ==
    /\ quit.at = "connect" /\ Answers /\ Settled
    /\ Connect(path)
    /\ quit' = [quit EXCEPT !.at = "hand", !.c = used + 1]
    /\ UNCHANGED <<daemonside, app, starts, mine, boot, safe>>

\* Seeded fault: a daemon is started without looking for one.
QuitSpawnFirst ==
    /\ quit.at = "connect" /\ ~quit.spawned /\ Settled
    /\ quit' = [quit EXCEPT !.spawned = TRUE]
    /\ \E d \in Daemons : /\ proc[d] = "none"
                          /\ proc' = [proc EXCEPT ![d] = "born"]
    /\ UNCHANGED <<path, table, ever, timer, conns, used, app, starts, mine, boot, safe>>

\* Under DAEMON_SPAWN_LOCK: nobody answers, a daemon is started once.
QuitSpawn ==
    /\ quit.at = "connect" /\ ~quit.spawned /\ ~Answers /\ Settled
    /\ quit' = [quit EXCEPT !.spawned = TRUE]
    /\ \E d \in Daemons : /\ proc[d] = "none"
                          /\ proc' = [proc EXCEPT ![d] = "born"]
    /\ UNCHANGED <<path, table, ever, timer, conns, used, app, starts, mine, boot, safe>>

\* The daemon does not answer within two seconds.
QuitTimeout ==
    /\ quit.at = "connect" /\ quit.spawned /\ ~Answers
    /\ quit' = [quit EXCEPT !.at = "done"]
    /\ UNCHANGED <<daemonside, conns, used, app, starts, mine, boot, safe>>

\* handle_handoff: the table first (an old entry of the agent is dropped) ...
HandoffInsert(a) ==
    LET d == conns[quit.c].d IN
    /\ quit.at = "hand" /\ a \in quit.todo /\ Serves(quit.c) /\ Settled
    /\ table' = [table EXCEPT ![d][a] = "live"]
    /\ conns' = [conns EXCEPT ![quit.c].agent = {a}]
    /\ UNCHANGED <<path, proc, ever, timer, used, app, starts, mine, boot, quit, safe>>

\* ... then ever_handoff ...
HandoffEver ==
    LET d == conns[quit.c].d IN
    /\ quit.at = "hand" /\ proc[d] = "up" /\ conns[quit.c].agent # {} /\ ~ever[d]
    /\ ever' = [ever EXCEPT ![d] = TRUE]
    /\ UNCHANGED <<path, proc, table, timer, conns, used, app, starts, mine, boot, quit, safe>>

\* Seeded fault: the answer goes out before ever_handoff is set.
HandoffOkFirst ==
    LET a == CHOOSE x \in conns[quit.c].agent : TRUE IN
    /\ quit.at = "hand" /\ conns[quit.c].agent # {} /\ proc[conns[quit.c].d] = "up"
    /\ conns' = [conns EXCEPT ![quit.c].agent = {}]
    /\ quit' = [quit EXCEPT !.todo = @ \ {a}]
    /\ mine' = [mine EXCEPT ![a] = FALSE]
    /\ safe' = [safe EXCEPT ![a] = table[conns[quit.c].d][a] = "live"]
    /\ UNCHANGED <<daemonside, used, app, starts, boot>>

\* ... and HandoffOk: the manager forgets the session (which may have ended).
HandoffOk ==
    LET a == CHOOSE x \in conns[quit.c].agent : TRUE IN
    /\ quit.at = "hand" /\ conns[quit.c].agent # {}
    /\ proc[conns[quit.c].d] = "up" /\ ever[conns[quit.c].d]
    /\ conns' = [conns EXCEPT ![quit.c].agent = {}]
    /\ quit' = [quit EXCEPT !.todo = @ \ {a}]
    /\ mine' = [mine EXCEPT ![a] = FALSE]
    /\ safe' = [safe EXCEPT ![a] = table[conns[quit.c].d][a] = "live"]
    /\ UNCHANGED <<daemonside, used, app, starts, boot>>

\* Without a daemon the rest of the sessions end with the app.
QuitDone ==
    /\ quit.at = "hand"
    /\ (quit.todo = {} /\ conns[quit.c].agent = {}) \/ Broken(quit.c)
    /\ Close(quit.c)
    /\ quit' = [quit EXCEPT !.at = "done"]
    /\ UNCHANGED <<daemonside, used, app, starts, mine, boot, safe>>

-----------------------------------------------------------------------------
\* The app: opens sessions, ends (or crashes, at any time) and starts again.

Create(a) ==
    /\ app = "up" /\ quit.at = "idle" /\ ~mine[a]
    /\ mine' = [mine EXCEPT ![a] = TRUE]
    /\ UNCHANGED <<daemonside, conns, used, app, starts, boot, quit, safe>>

AppEnd ==
    /\ app = "up"
    /\ app' = "down"
    /\ mine' = [a \in Agents |-> FALSE]
    /\ conns' = [c \in Conns |-> [conns[c] EXCEPT !.open = FALSE]]
    /\ boot' = BootIdle /\ quit' = QuitIdle
    /\ UNCHANGED <<daemonside, used, starts, safe>>

AppStart ==
    /\ app = "down" /\ starts < MaxStarts
    /\ Overlap \/ \A d \in Daemons : proc[d] # "born"
    /\ app' = "up" /\ starts' = starts + 1
    /\ UNCHANGED <<daemonside, conns, used, mine, boot, quit, safe>>

-----------------------------------------------------------------------------
\* The daemon: run_daemon_inner removes whatever the path names and binds.

Bind(d) ==
    /\ proc[d] = "born"
    /\ proc' = [proc EXCEPT ![d] = "up"]
    /\ path' = d
    /\ UNCHANGED <<table, ever, timer, conns, used, app, starts, mine, boot, quit, safe>>

\* The reader sees the end of a session: the entry stays.
SessionEnds(d, a) ==
    /\ proc[d] = "up" /\ table[d][a] = "live"
    /\ table' = [table EXCEPT ![d][a] = "exited"]
    /\ safe' = [safe EXCEPT ![a] = FALSE]
    /\ UNCHANGED <<path, proc, ever, timer, conns, used, app, starts, mine, boot, quit>>

\* A request that was read is carried out although its client is gone.
ServerEver(c) ==
    LET d == conns[c].d IN
    /\ ~conns[c].open /\ conns[c].at = "serving" /\ conns[c].agent # {} /\ proc[d] = "up"
    /\ ever' = [ever EXCEPT ![d] = TRUE]
    /\ conns' = [conns EXCEPT ![c].agent = {}]
    /\ UNCHANGED <<path, proc, table, timer, used, app, starts, mine, boot, quit, safe>>

\* A connection has ended: is the table empty?  (The lock is released.)
ServerCheck(c) ==
    /\ proc[conns[c].d] = "up"
    /\ conns[c].at = "serving" /\ ~conns[c].open /\ conns[c].agent = {}
    /\ conns' = [conns EXCEPT ![c].at = IF Empty(conns[c].d) THEN "unlink" ELSE "done"]
    /\ UNCHANGED <<daemonside, used, app, starts, mine, boot, quit, safe>>

\* The shutdown hook removes the socket file, whoever's it is by now ...
ServerUnlink(c) ==
    /\ proc[conns[c].d] = "up" /\ conns[c].at = "unlink"
    /\ path' = NoDaemon
    /\ conns' = [conns EXCEPT ![c].at = "exit"]
    /\ UNCHANGED <<proc, table, ever, timer, used, app, starts, mine, boot, quit, safe>>

\* ... and ends the process, with every session it holds.
ServerExit(c) ==
    LET d == conns[c].d IN
    /\ proc[d] = "up" /\ conns[c].at = "exit"
    /\ proc' = [proc EXCEPT ![d] = "dead"]
    /\ table' = [table EXCEPT ![d] = [a \in Agents |-> "none"]]
    /\ conns' = [conns EXCEPT ![c].at = "done"]
    /\ UNCHANGED <<path, ever, timer, used, app, starts, mine, boot, quit, safe>>

\* Seeded fault: a minute after its start the daemon leaves, whatever it holds.
TimerCheckNothing(d) ==
    /\ proc[d] = "up" /\ timer[d] = "wait"
    /\ timer' = [timer EXCEPT ![d] = "unlink"]
    /\ UNCHANGED <<path, proc, table, ever, conns, used, app, starts, mine, boot, quit, safe>>

\* Seeded fault: there is no such thread.
TimerNever(d) == FALSE /\ UNCHANGED vars

TimerCheck(d) ==
    /\ proc[d] = "up" /\ timer[d] = "wait"
    /\ Overlap \/ \A c \in Conns : conns[c].d # d \/ conns[c].agent = {}
    /\ timer' = [timer EXCEPT ![d] = IF ever[d] THEN "done" ELSE "unlink"]
    /\ UNCHANGED <<path, proc, table, ever, conns, used, app, starts, mine, boot, quit, safe>>

TimerUnlink(d) ==
    /\ proc[d] = "up" /\ timer[d] = "unlink"
    /\ path' = NoDaemon
    /\ timer' = [timer EXCEPT ![d] = "exit"]
    /\ UNCHANGED <<proc, table, ever, conns, used, app, starts, mine, boot, quit, safe>>

TimerExit(d) ==
    /\ proc[d] = "up" /\ timer[d] = "exit"
    /\ proc' = [proc EXCEPT ![d] = "dead"]
    /\ table' = [table EXCEPT ![d] = [a \in Agents |-> "none"]]
    /\ timer' = [timer EXCEPT ![d] = "done"]
    /\ UNCHANGED <<path, ever, conns, used, app, starts, mine, boot, quit, safe>>

-----------------------------------------------------------------------------
Live(c) == c \in 1 .. used

Next ==
    \/ BootConnect \/ BootList \/ BootDone
    \/ \E a \in Agents : BootAdopt(a) \/ BootKill(a) \/ HandoffInsert(a) \/ Create(a)
    \/ QuitBegin \/ QuitConnect \/ QuitSpawn \/ QuitTimeout
    \/ HandoffEver \/ HandoffOk \/ QuitDone
    \/ AppEnd \/ AppStart
    \/ \E d \in Daemons : Bind(d) \/ TimerCheck(d) \/ TimerUnlink(d) \/ TimerExit(d)
    \/ \E d \in Daemons, a \in Agents : SessionEnds(d, a)
    \/ \E c \in 1 .. used : ServerEver(c) \/ ServerCheck(c) \/ ServerUnlink(c) \/ ServerExit(c)

Spec == Init /\ [][Next]_vars

\* The daemon's threads run; the app promises nothing.
Fairness ==
    /\ \A d \in Daemons : WF_vars(TimerCheck(d)) /\ WF_vars(TimerUnlink(d)) /\ WF_vars(TimerExit(d))
    /\ \A c \in Conns : /\ WF_vars(Live(c) /\ ServerEver(c)) /\ WF_vars(Live(c) /\ ServerCheck(c))
                        /\ WF_vars(Live(c) /\ ServerUnlink(c)) /\ WF_vars(Live(c) /\ ServerExit(c))

FairSpec == Spec /\ Fairness

-----------------------------------------------------------------------------
\* Types; entries are held by a running daemon only, and one that holds any has
\* noted so (ever_handoff) or is about to.
TypeOK ==
    /\ path \in Daemons \cup {NoDaemon}
    /\ proc \in [Daemons -> {"none", "born", "up", "dead"}]
    /\ table \in [Daemons -> [Agents -> {"none", "live", "exited"}]]
    /\ ever \in [Daemons -> BOOLEAN]
    /\ timer \in [Daemons -> {"wait", "unlink", "exit", "done"}]
    /\ used \in 0 .. MaxConns
    /\ \A c \in Conns : /\ conns[c].d \in Daemons \cup {NoDaemon}
                        /\ conns[c].open \in BOOLEAN
                        /\ conns[c].at \in {"none", "serving", "unlink", "exit", "done"}
                        /\ conns[c].agent \subseteq Agents /\ Cardinality(conns[c].agent) <= 1
                        /\ conns[c].d = NoDaemon <=> c > used
    /\ app \in {"up", "down"} /\ starts \in 0 .. MaxStarts
    /\ mine \in [Agents -> BOOLEAN] /\ safe \in [Agents -> BOOLEAN]
    /\ boot.at \in {"start", "list", "adopt", "done"} /\ boot.todo \subseteq Agents
    /\ quit.at \in {"idle", "connect", "hand", "done"} /\ quit.todo \subseteq Agents
    /\ \A d \in Daemons : ~Empty(d) =>
         /\ proc[d] = "up"
         /\ ever[d] \/ \E c \in Conns : conns[c].d = d /\ conns[c].agent # {}

\* A session the app was told is handed over stays in the table of a running
\* daemon until it ends or the next app takes or kills it: holding on to it is
\* all the daemon is for (daemon.rs).
HandedOffSurvives ==
    \A a \in Agents : safe[a] => \E d \in Daemons : proc[d] = "up" /\ table[d][a] = "live"

\* And the next app finds it: the socket path names the daemon that holds it.
FoundAgain ==
    app = "down" => \A a \in Agents : safe[a] => Answers /\ table[path][a] = "live"

\* A daemon that holds nothing and serves nobody does not stay.
Idle(d) == proc[d] = "up" /\ Empty(d) /\ \A c \in Conns : conns[c].d = d => ~conns[c].open
IdleDaemonLeaves == \A d \in Daemons : []<>~Idle(d)
=============================================================================
