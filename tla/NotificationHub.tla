---------------------------- MODULE NotificationHub ----------------------------
(***************************************************************************)
(* The notification hub (src-tauri/src/notification/hub.rs) for one        *)
(* session, with the threads that call it: hook requests, the output pump, *)
(* the 500 ms sweeper, the person at the window and the session's exit.    *)
(*                                                                         *)
(* Each table of the hub has a mutex of its own and no call holds two, so  *)
(* a call is a sequence of steps, one per critical section or event.  The  *)
(* hub keys everything by session id, and ids are never reused: one        *)
(* session is the general case.                                            *)
(*                                                                         *)
(* Time is kept as ages in units of about a second.  A call takes no time  *)
(* on that scale: Tick waits until no call is in progress.                 *)
(***************************************************************************)
EXTENDS Naturals, FiniteSets

CONSTANTS
    Handlers,    \* threads that serve hook requests
    Questions,   \* distinct texts of an Attention hook
    Window,      \* dedup window (3 s)
    Hold,        \* attention_hold_ms; 0 is "do not hold"
    HoldGrace,   \* output this soon after a question is its own drawing (1 s)
    Grace,       \* output this soon after a Stop is the prompt's redraw (3 s)
    WatchEnd,    \* a Stop is watched for so long (30 s)
    Noise,       \* batches of output that make 8 KB
    MaxNotes     \* bound: notifications that may be made

ASSUME TimesAssumption ==
    /\ {Window, Hold, HoldGrace, Grace, WatchEnd, Noise, MaxNotes} \subseteq Nat
    /\ Window > 0 /\ Grace <= WatchEnd /\ Grace <= Window /\ Noise > 0

\* No handler is one of the hub's own threads, and no question's text is one of the keys
\* the hub makes for itself (dedup_key puts the kind before it).
ASSUME NamesAssumption ==
    /\ Handlers \cap {"sweeper", "pump", "user"} = {}
    /\ Questions \cap {"stop", "bell", "none", "terminate"} = {}

Keys == Questions \cup {"stop", "bell"}     \* dedup_key, the session aside
Threads == Handlers \cup {"sweeper", "pump", "user"}
NoKey == "none"
Nothing == [key |-> NoKey]

VARIABLES
    life,      \* of the session: its registry and manager entries
    doomed,    \* its kill was requested
    queue,     \* NotificationHub.queues: notifications pending
    seen,      \* last_seen: key -> age, Window when older or absent
    held,      \* the question held back
    watch,     \* resume_watch: the Stop whose aftermath is watched
    job,       \* thread -> the call it is in
    made,      \* notifications made so far
    shown,     \* renderer: notifications in the store
    watching,  \* renderer: the agent's terminal is open and has the focus
    settled,   \* renderer: terminateAgentSession has returned
    emitted,   \* history: key -> age of its last notification, up to Window
    quiet      \* history: age of the last sign of work, up to Hold

vars == <<life, doomed, queue, seen, held, watch, job, made, shown, watching, settled,
          emitted, quiet>>
session == <<life, doomed>>
screen == <<shown, watching, settled>>

Idle == [at |-> "idle", key |-> NoKey, notes |-> {}]
In(t, at) == job[t].at = at
Goto(t, at) == job' = [job EXCEPT ![t].at = at]
Return(t) == job' = [job EXCEPT ![t] = Idle]
Call(t, at, key) == job' = [job EXCEPT ![t] = [Idle EXCEPT !.at = at, !.key = key]]

Note(id, key) == [id |-> id, key |-> key]
Aged(age, cap) == IF age < cap THEN age + 1 ELSE cap

\* SessionRegistry.resolve_agent and SessionManager::session_id_for.
Registered == life # "gone"
Mapped == life \notin {"unmapped", "gone"}

\* Bound: calls that may end in a notification begin only while there is room.
Room == made + Cardinality({t \in Threads : job[t].key # NoKey})
             + (IF held = Nothing THEN 0 ELSE 1) < MaxNotes

Init ==
    /\ life = "live" /\ doomed = FALSE
    /\ queue = {} /\ held = Nothing /\ watch = Nothing
    /\ seen = [k \in Keys |-> Window]
    /\ job = [t \in Threads |-> Idle]
    /\ made = 0
    /\ shown = {} /\ watching = FALSE /\ settled = FALSE
    /\ emitted = [k \in Keys |-> Window]
    /\ quiet = Hold

-----------------------------------------------------------------------------
\* Hook requests and the bell: ingest, up to the notification.

\* ObserverEvent::Attention: a session that is not registered is ignored.
Ask(h, q) ==
    /\ In(h, "idle") /\ Room /\ Registered
    /\ Call(h, "dedup", q)
    /\ UNCHANGED <<session, queue, seen, held, watch, made, screen, emitted, quiet>>

\* Prompt, Tool and SubStart: the session works on, a held question is moot.
Work(h) ==
    /\ In(h, "idle")
    /\ held' = Nothing /\ quiet' = 0
    /\ UNCHANGED <<session, queue, seen, watch, job, made, screen, emitted>>

\* Seeded fault: the question survives a Stop that does not notify.
StopTurnLastOnly(h, running) ==
    /\ In(h, "idle") /\ (running = 0 => Room)
    /\ quiet' = 0
    /\ IF running = 0 THEN held' = Nothing /\ Call(h, "resolve", "stop")
                      ELSE UNCHANGED <<held, job>>
    /\ UNCHANGED <<session, queue, seen, watch, made, screen, emitted>>

\* Stop with `running` subagents left: drops the question; only the last Stop
\* of a turn notifies.
StopTurn(h, running) ==
    /\ In(h, "idle") /\ (running = 0 => Room)
    /\ held' = Nothing /\ quiet' = 0
    /\ IF running = 0 THEN Call(h, "resolve", "stop") ELSE UNCHANGED job
    /\ UNCHANGED <<session, queue, seen, watch, made, screen, emitted>>

Resolve(t, next) ==
    /\ IF Registered THEN Goto(t, next) ELSE Return(t)
    /\ UNCHANGED <<session, queue, seen, held, watch, made, screen, emitted, quiet>>

ResolveStop(h) == In(h, "resolve") /\ Resolve(h, "dedup")

\* on_bell, from the output pump.
Bell ==
    /\ In("pump", "idle") /\ Room /\ Registered
    /\ Call("pump", "dedup", "bell")
    /\ UNCHANGED <<session, queue, seen, held, watch, made, screen, emitted, quiet>>

\* Seeded fault: nothing is recorded before the notification goes out.
DedupLooksOnly(t) ==
    LET key == job[t].key IN
    /\ In(t, "dedup")
    /\ seen' = [seen EXCEPT ![key] = IF @ < Window THEN 0 ELSE @]
    /\ IF seen[key] < Window THEN Return(t)
       ELSE Goto(t, IF key \in Questions /\ Hold > 0 THEN "hold" ELSE "emit")
    /\ UNCHANGED <<session, queue, held, watch, made, screen, emitted, quiet>>

\* Inside the window: suppressed, and the window slides.  A question is not
\* recorded here but when it is notified, for it may yet be discarded.
Dedup(t) ==
    LET key == job[t].key
        question == key \in Questions
    IN  /\ In(t, "dedup")
        /\ IF seen[key] < Window
             THEN /\ seen' = [seen EXCEPT ![key] = 0]
                  /\ Return(t)
             ELSE /\ seen' = IF question THEN seen ELSE [seen EXCEPT ![key] = 0]
                  /\ Goto(t, IF question /\ Hold > 0 THEN "hold" ELSE "emit")
        /\ UNCHANGED <<session, queue, held, watch, made, screen, emitted, quiet>>

\* Seeded fault: every repetition restarts the timer.
HoldBackAnew(t) ==
    /\ In(t, "hold")
    /\ held' = [key |-> job[t].key, age |-> 0, noise |-> 0]
    /\ Return(t)
    /\ UNCHANGED <<session, queue, seen, watch, made, screen, emitted, quiet>>

\* The same question again keeps its timer, another one replaces it.
HoldBack(t) ==
    /\ In(t, "hold")
    /\ held' = IF held.key = job[t].key THEN held
               ELSE [key |-> job[t].key, age |-> 0, noise |-> 0]
    /\ Return(t)
    /\ UNCHANGED <<session, queue, seen, watch, made, screen, emitted, quiet>>

-----------------------------------------------------------------------------
\* emit: last_seen and the queue, the event, and for a Stop the watch.

Emit(t) ==
    LET key == job[t].key IN
    /\ In(t, "emit")
    /\ seen' = [seen EXCEPT ![key] = 0]
    /\ queue' = queue \cup {Note(made + 1, key)}
    /\ made' = made + 1
    /\ job' = [job EXCEPT ![t].at = "show", ![t].notes = {Note(made + 1, key)}]
    /\ emitted' = [emitted EXCEPT ![key] = 0]
    /\ UNCHANGED <<session, held, watch, screen, quiet>>

\* notification-new: the store ignores it while the person looks at the agent.
Show(t) ==
    /\ In(t, "show")
    /\ shown' = IF watching THEN shown ELSE shown \cup job[t].notes
    /\ IF job[t].key = "stop" THEN Goto(t, "watch") ELSE Return(t)
    /\ UNCHANGED <<session, queue, seen, held, watch, made, watching, settled, emitted, quiet>>

WatchOutput(t) ==
    /\ In(t, "watch")
    /\ watch' = [key |-> "stop", age |-> 0, noise |-> 0, fired |-> FALSE]
    /\ Return(t)
    /\ UNCHANGED <<session, queue, seen, held, made, screen, emitted, quiet>>

-----------------------------------------------------------------------------
\* flush_expired: takes the question out first and resolves the session after.

SweepDrain ==
    /\ In("sweeper", "idle")
    /\ held # Nothing /\ held.age >= Hold
    /\ held' = Nothing
    /\ Call("sweeper", "sweep", held.key)
    /\ UNCHANGED <<session, queue, seen, watch, made, screen, emitted, quiet>>

SweepResolve == In("sweeper", "sweep") /\ Resolve("sweeper", "emit")

-----------------------------------------------------------------------------
\* on_output: one batch of output.

\* Seeded fault: a burst is counted and discards nothing.
HeldAfterOutputCounts ==
    IF held = Nothing \/ held.age < HoldGrace THEN held
    ELSE [held EXCEPT !.noise = @ + 1]

\* What a batch leaves of the held question: a burst discards it.
HeldAfterOutput ==
    IF held = Nothing \/ held.age < HoldGrace THEN held
    ELSE IF held.noise + 1 >= Noise THEN Nothing
    ELSE [held EXCEPT !.noise = @ + 1]

\* A burst while a Stop is watched, after the redraw: once, the session works on.
Output ==
    LET heard == watch # Nothing /\ ~watch.fired /\ watch.age >= Grace
        over  == heard /\ watch.age > WatchEnd
        burst == heard /\ ~over /\ watch.noise + 1 >= Noise
    IN  /\ In("pump", "idle")
        /\ held' = HeldAfterOutput
        /\ quiet' = IF held' = held \/ held' # Nothing THEN quiet ELSE 0
        /\ watch' = CASE ~heard -> watch
                      [] over   -> Nothing
                      [] OTHER  -> [watch EXCEPT !.noise = @ + 1, !.fired = burst]
        /\ IF burst THEN Goto("pump", "collect") ELSE UNCHANGED job
        /\ UNCHANGED <<session, queue, seen, made, screen, emitted>>

\* clear_stop_notifications: the ids first, under a lock of their own.
Collect ==
    LET stops == {n \in queue : n.key = "stop"} IN
    /\ In("pump", "collect")
    /\ IF stops = {} THEN Return("pump")
       ELSE job' = [job EXCEPT !["pump"].at = "clear", !["pump"].notes = stops]
    /\ UNCHANGED <<session, queue, seen, held, watch, made, screen, emitted, quiet>>

ClearStops ==
    LET hit == queue \cap job["pump"].notes IN
    /\ In("pump", "clear")
    /\ queue' = queue \ hit
    /\ IF hit = {} THEN Return("pump")
       ELSE job' = [job EXCEPT !["pump"].at = "cleared", !["pump"].notes = hit]
    /\ UNCHANGED <<session, seen, held, watch, made, screen, emitted, quiet>>

\* notification-cleared goes out if the session is still registered.
Cleared(t) ==
    /\ In(t, "cleared")
    /\ shown' = IF Registered THEN shown \ job[t].notes ELSE shown
    /\ settled' = (settled \/ job[t].key = "terminate")
    /\ Return(t)
    /\ UNCHANGED <<session, queue, seen, held, watch, made, watching, emitted, quiet>>

-----------------------------------------------------------------------------
\* The person: opens the terminal (the store forgets the agent's notifications
\* and the hub is told), closes it, or sends the agent away.

OpenTerminal ==
    /\ In("user", "idle") /\ ~watching /\ ~settled
    /\ watching' = TRUE /\ shown' = {}
    /\ Goto("user", "clear")
    /\ UNCHANGED <<session, queue, seen, held, watch, made, settled, emitted, quiet>>

CloseTerminal ==
    /\ In("user", "idle") /\ watching
    /\ watching' = FALSE
    /\ UNCHANGED <<session, queue, seen, held, watch, job, made, shown, settled,
                   emitted, quiet>>

\* terminateAgentSession: dispose first, clear_notifications after.
Terminate ==
    /\ In("user", "idle") /\ ~doomed /\ ~settled
    /\ doomed' = TRUE
    /\ Call("user", "clear", "terminate")
    /\ UNCHANGED <<life, queue, seen, held, watch, made, screen, emitted, quiet>>

\* clear_notifications without ids: nothing when the agent has no session.
ClearAll ==
    /\ In("user", "clear")
    /\ IF Mapped
         THEN /\ held' = Nothing /\ quiet' = 0
              /\ queue' = {}
              /\ job' = [job EXCEPT !["user"].at = "cleared", !["user"].notes = queue]
              /\ UNCHANGED settled
         ELSE /\ Return("user")
              /\ settled' = (job["user"].key = "terminate")
              /\ UNCHANGED <<held, quiet, queue>>
    /\ UNCHANGED <<session, seen, watch, made, shown, watching, emitted>>

-----------------------------------------------------------------------------
\* on_exit: a session whose kill was requested leaves the map and the registry,
\* another stays in both.

Exit ==
    /\ life = "live"
    /\ life' = IF doomed THEN "disposing" ELSE "exiting"
    /\ UNCHANGED <<doomed, queue, seen, held, watch, job, made, screen, emitted, quiet>>

\* purge_session tells the renderer nothing.
Purge ==
    /\ life \in {"disposing", "exiting"}
    /\ life' = IF life = "disposing" THEN "purged" ELSE "exited"
    /\ queue' = {} /\ watch' = Nothing /\ held' = Nothing
    /\ UNCHANGED <<doomed, seen, job, made, screen, emitted, quiet>>

Unmap ==
    /\ life = "purged"
    /\ life' = "unmapped"
    /\ UNCHANGED <<doomed, queue, seen, held, watch, job, made, screen, emitted, quiet>>

Unregister ==
    /\ life = "unmapped"
    /\ life' = "gone"
    /\ UNCHANGED <<doomed, queue, seen, held, watch, job, made, screen, emitted, quiet>>

-----------------------------------------------------------------------------
Tick ==
    /\ \A t \in Threads : In(t, "idle")
    /\ seen' = [k \in Keys |-> Aged(seen[k], Window)]
    /\ emitted' = [k \in Keys |-> Aged(emitted[k], Window)]
    /\ quiet' = Aged(quiet, Hold)
    /\ held' = IF held = Nothing THEN held ELSE [held EXCEPT !.age = Aged(@, Hold)]
    /\ watch' = IF watch = Nothing THEN watch
                ELSE [watch EXCEPT !.age = Aged(@, WatchEnd + 1)]
    /\ UNCHANGED <<session, queue, job, made, screen>>

Ingest(t) == Dedup(t) \/ HoldBack(t) \/ Emit(t) \/ Show(t) \/ WatchOutput(t)

\* What thread t goes on with.
Goes(t) ==
    \/ Ingest(t) \/ Cleared(t)
    \/ t \in Handlers /\ ResolveStop(t)
    \/ t = "sweeper" /\ (SweepDrain \/ SweepResolve)
    \/ t = "pump" /\ (Collect \/ ClearStops)
    \/ t = "user" /\ ClearAll

Next ==
    \/ \E h \in Handlers, q \in Questions : Ask(h, q)
    \/ \E h \in Handlers : Work(h)
    \/ \E h \in Handlers, running \in {0, 1} : StopTurn(h, running)
    \/ \E t \in Threads : Goes(t)
    \/ Bell \/ Output
    \/ OpenTerminal \/ CloseTerminal \/ Terminate
    \/ Exit \/ Purge \/ Unmap \/ Unregister
    \/ Tick

Spec == Init /\ [][Next]_vars

\* Threads go on with what they began, the sweeper keeps sweeping and time
\* passes between calls however many there are (hence the strong fairness).
FairSpec ==
    /\ Spec
    /\ \A t \in Threads : WF_vars(Goes(t))
    /\ SF_vars(Tick)

-----------------------------------------------------------------------------
Notes == [id : 1 .. MaxNotes, key : Keys]

\* Types; the ages and counts stay within the limits at which the hub acts.
TypeOK ==
    /\ life \in {"live", "exiting", "exited", "disposing", "purged", "unmapped", "gone"}
    /\ doomed \in BOOLEAN /\ watching \in BOOLEAN /\ settled \in BOOLEAN
    /\ queue \subseteq Notes /\ shown \subseteq Notes
    /\ made \in 0 .. MaxNotes
    /\ seen \in [Keys -> 0 .. Window] /\ emitted \in [Keys -> 0 .. Window]
    /\ quiet \in 0 .. Hold
    /\ held = Nothing
       \/ held \in [key : Questions, age : 0 .. Hold, noise : 0 .. Noise - 1]
    /\ watch = Nothing
       \/ watch \in [key : {"stop"}, age : 0 .. WatchEnd + 1, noise : 0 .. Noise,
                     fired : BOOLEAN]
    /\ \A t \in Threads : /\ job[t].key \in Keys \cup {NoKey, "terminate"}
                          /\ job[t].notes \subseteq Notes

\* The dedup window, through every way a notification can come about: whichever
\* threads report it, and held back or not, the same notification is not made
\* twice within the window (hub.rs, ingest and emit).
EmissionsApart ==
    [][\A k \in Keys :
         made' = made + 1 /\ Note(made', k) \in queue' => emitted[k] >= Window]_vars

\* A question that was held back is announced only when the session gave no sign
\* of work for the whole hold: no prompt, tool, subagent or Stop, no burst of
\* output, and the person did not open the terminal.
OnlyAfterQuiet ==
    [][In("sweeper", "idle") /\ ~In("sweeper", "idle")' => quiet >= Hold]_vars

\* No notification is made twice within the window, nor a question that was held back
\* announced before the session was quiet for the whole hold (hub.rs).
AnnouncedInTime == EmissionsApart /\ OnlyAfterQuiet

\* A held question is announced or discarded, however often the agent repeats it.
HeldResolves == []<>(held = Nothing)

\* "A held notification whose session is dead is dropped": for a session that has
\* left the registry no notification is made (hub.rs, flush_expired and ingest).
GoneStaysQuiet == [][life = "gone" => made' = made]_vars

\* Output in the grace period after a Stop takes its notification away from
\* nobody (hub.rs, RESUME_GRACE).
FreshStopSurvives ==
    [][In("pump", "clear") /\ (\E n \in queue \ queue' : n.key = "stop")
         => emitted["stop"] >= Grace]_vars

\* When terminateAgentSession has returned and the session is gone, the renderer
\* holds no notification that would keep the character at its desk.
TerminatedIsQuiet ==
    settled /\ life = "gone" /\ (\A t \in Threads : In(t, "idle")) => shown = {}
=============================================================================
