----------------------------- MODULE MCHooks_proofs -----------------------------
(***************************************************************************)
(* Theorems about the notification hub, which MCHooks extends, and about   *)
(* the wake lock, which it instantiates, for any values of their           *)
(* constants: when notifications are made, and that the machine is kept    *)
(* awake while somebody works and not for longer than a lease otherwise.   *)
(*                                                                         *)
(* That no notification is made twice within the window needs a hold at    *)
(* least as long as the window, as with the settings' 5 s and the hub's    *)
(* 3 s: with a shorter hold the same question can be held back again while *)
(* the sweeper announces it, and is then announced twice.                  *)
(***************************************************************************)
EXTENDS MCHooks, SequenceTheorems, TLAPS

Places == {"idle", "resolve", "dedup", "hold", "emit", "show", "watch", "sweep",
           "collect", "clear", "cleared"}
JobKeys == Keys \cup {NoKey, "terminate"}
Stored == [id : Nat, key : Keys]
Jobs == [at : Places, key : JobKeys, notes : SUBSET Stored]

\* The types the argument needs: calls, ages, and ids that were given out.
Shape ==
    /\ job \in [Threads -> Jobs]
    /\ made \in Nat /\ queue \subseteq Stored
    /\ \A n \in queue : n.id <= made
    /\ seen \in [Keys -> 0 .. Window] /\ emitted \in [Keys -> 0 .. Window]
    /\ quiet \in 0 .. Hold
    /\ held = Nothing \/ held \in [key : Questions, age : 0 .. Hold, noise : Nat]

\* What a call is about at each of its places, and who can be there.
Fits(t, j) ==
    /\ j.at = "resolve" => j.key = "stop"
    /\ j.at = "dedup" => j.key \in Keys
    /\ j.at = "hold" => j.key \in Questions
    /\ j.at = "emit" => j.key \in Keys
    /\ j.at = "sweep" => t = "sweeper"
    /\ t = "sweeper" => /\ j.at \in {"idle", "sweep", "emit", "show"}
                        /\ j.at # "idle" => j.key \in Questions
Roles == \A t \in Threads : Fits(t, job[t])

\* A held question has waited no longer than the session was quiet.
HeldQuiet == held # Nothing => held.age <= quiet

HubInv == Shape /\ Roles /\ HeldQuiet

\* The sweeper alone announces questions, once they were held back.
SweeperAnnounces ==
    \A t \in Threads : In(t, "emit") /\ job[t].key \in Questions => t = "sweeper"

\* The recorded time of a notification is never older than the notification.
SeenCovers == \A k \in Keys : seen[k] <= emitted[k]

\* A Stop or a bell that is about to be notified has claimed its key: the window was
\* over, and the key is recorded, so that nobody else passes.
Claimed ==
    \A t \in Threads : In(t, "emit") /\ job[t].key \notin Questions =>
        /\ emitted[job[t].key] = Window /\ seen[job[t].key] = 0
        /\ \A u \in Threads : In(u, "emit") /\ job[u].key = job[t].key => u = t

\* A held question has waited no longer than its last notification is ago; one that the
\* sweeper has in hand was held for the whole hold, and if the same question was held
\* back again since, its timer has only begun.
HeldInTime ==
    /\ held # Nothing =>
         emitted[held.key] >= held.age \/ emitted[held.key] = Window
    /\ job["sweeper"].at \in {"sweep", "emit"} =>
         /\ emitted[job["sweeper"].key] = Window
         /\ held # Nothing /\ held.key = job["sweeper"].key => held.age = 0

ApartInv == SweeperAnnounces /\ SeenCovers /\ Claimed /\ HeldInTime

-----------------------------------------------------------------------------
\* Facts about constants and calls.

LEMMA Times ==
    /\ Window \in Nat /\ Hold \in Nat /\ HoldGrace \in Nat /\ Noise \in Nat /\ MaxNotes \in Nat
    /\ Window > 0
  BY TimesAssumption

LEMMA Names ==
    /\ Handlers \subseteq Threads /\ {"sweeper", "pump", "user"} \subseteq Threads
    /\ \A h \in Handlers : h \notin {"sweeper", "pump", "user"}
    /\ Questions \subseteq Keys /\ "stop" \in Keys /\ "bell" \in Keys
    /\ \A q \in Questions : q \notin {"stop", "bell", NoKey, "terminate"}
    /\ NoKey \notin Keys
    /\ \A k \in Keys : k \notin Questions => k \in {"stop", "bell"}
  BY NamesAssumption DEF Threads, Keys, NoKey

LEMMA HeldIsReal ==
    ASSUME NEW h \in [key : Questions, age : 0 .. Hold, noise : Nat]
    PROVE  h # Nothing
  BY Names DEF Nothing

\* How a call that goes on, ends or begins changes the calls.
LEMMA JobMoves ==
    ASSUME Shape, NEW t \in Threads, NEW j \in Jobs, job' = [job EXCEPT ![t] = j]
    PROVE  /\ job' \in [Threads -> Jobs] /\ job'[t] = j
           /\ \A u \in Threads : u # t => job'[u] = job[u]
  BY DEF Shape

LEMMA GotoMoves ==
    ASSUME Shape, NEW t \in Threads, NEW at \in Places, Goto(t, at)
    PROVE  /\ job' \in [Threads -> Jobs] /\ job[t] \in Jobs
           /\ job'[t].at = at /\ job'[t].key = job[t].key
           /\ job'[t].notes = job[t].notes
           /\ \A u \in Threads : u # t => job'[u] = job[u]
  BY DEF Goto, Shape, Jobs

LEMMA ReturnMoves ==
    ASSUME Shape, NEW t \in Threads, Return(t)
    PROVE  /\ job' \in [Threads -> Jobs] /\ job'[t].at = "idle"
           /\ \A u \in Threads : u # t => job'[u] = job[u]
  <1>1. Idle \in Jobs /\ Idle.at = "idle"
    BY DEF Idle, Jobs, Places, JobKeys
  <1> QED BY <1>1, JobMoves DEF Return

LEMMA CallMoves ==
    ASSUME Shape, NEW t \in Threads, NEW at \in Places, NEW k \in JobKeys, Call(t, at, k)
    PROVE  /\ job' \in [Threads -> Jobs] /\ job'[t].at = at /\ job'[t].key = k
           /\ \A u \in Threads : u # t => job'[u] = job[u]
  <1> DEFINE j == [Idle EXCEPT !.at = at, !.key = k]
  <1>1. j \in Jobs /\ j.at = at /\ j.key = k
    BY DEF Idle, Jobs, JobKeys
  <1>2. job' = [job EXCEPT ![t] = j]
    BY DEF Call
  <1> HIDE DEF j
  <1> QED BY <1>1, <1>2, JobMoves

-----------------------------------------------------------------------------
\* What the sweeper announces was quiet long enough.
LEMMA HubInitially == Init => HubInv
  <1> SUFFICES ASSUME Init PROVE HubInv
    OBVIOUS
  <1>1. Idle \in Jobs /\ Idle.at = "idle"
    BY DEF Idle, Jobs, Places, JobKeys
  <1>2. Shape
    BY <1>1, Times DEF Init, Shape
  <1>3. Roles
    BY <1>1 DEF Init, Roles, Fits
  <1> QED BY <1>2, <1>3 DEF Init, HubInv, HeldQuiet

\* A step that moves one call, to a place where it fits, keeps the roles.
LEMMA RolesKept ==
    ASSUME Roles, NEW t \in Threads, Fits(t, job'[t]),
           \A u \in Threads : u # t => job'[u] = job[u]
    PROVE  Roles'
  BY DEF Roles

\* Ages stay within their caps.
LEMMA AgedBound ==
    ASSUME NEW cap \in Nat, NEW age \in 0 .. cap
    PROVE  Aged(age, cap) \in 0 .. cap /\ Aged(age, cap) >= age
  BY DEF Aged

\* Requests and the bell.
LEMMA HubAsk ==
    ASSUME HubInv, NEW h \in Handlers, NEW q \in Questions, Ask(h, q)
    PROVE  HubInv'
  <1>1. h \in Threads /\ q \in JobKeys /\ "dedup" \in Places
    BY Names DEF JobKeys, Places
  <1>2. /\ job' \in [Threads -> Jobs] /\ job'[h].at = "dedup" /\ job'[h].key = q
        /\ \A u \in Threads : u # h => job'[u] = job[u]
    BY <1>1, CallMoves DEF Ask, HubInv
  <1>3. Roles'
    BY <1>1, <1>2, RolesKept, Names DEF HubInv, Fits
  <1> QED BY <1>2, <1>3 DEF HubInv, Ask, Shape, HeldQuiet

LEMMA HubWork ==
    ASSUME HubInv, NEW h \in Handlers, Work(h)
    PROVE  HubInv'
  BY Times DEF HubInv, Work, Shape, Roles, HeldQuiet

LEMMA HubStopTurn ==
    ASSUME HubInv, NEW h \in Handlers, NEW running \in {0, 1}, StopTurn(h, running)
    PROVE  HubInv'
  <1>1. h \in Threads /\ "stop" \in JobKeys /\ "resolve" \in Places
    BY Names DEF JobKeys, Places
  <1>2. CASE running = 0
    <2>1. /\ job' \in [Threads -> Jobs] /\ job'[h].at = "resolve" /\ job'[h].key = "stop"
          /\ \A u \in Threads : u # h => job'[u] = job[u]
      BY <1>1, <1>2, CallMoves DEF StopTurn, HubInv
    <2>2. Roles'
      BY <1>1, <2>1, RolesKept, Names DEF HubInv, Fits
    <2> QED BY <2>1, <2>2, Times DEF HubInv, StopTurn, Shape, HeldQuiet
  <1>3. CASE running # 0
    BY <1>3, Times DEF HubInv, StopTurn, Shape, Roles, HeldQuiet
  <1> QED BY <1>2, <1>3

LEMMA HubResolve ==
    ASSUME HubInv, NEW t \in Threads, NEW next \in {"dedup", "emit"}, Resolve(t, next),
           job[t].key \in Keys, t = "sweeper" => next = "emit" /\ job[t].key \in Questions
    PROVE  HubInv'
  <1>1. next \in Places
    BY DEF Places
  <1>2. job' \in [Threads -> Jobs] /\ \A u \in Threads : u # t => job'[u] = job[u]
    BY <1>1, GotoMoves, ReturnMoves DEF Resolve, HubInv
  <1>3. Fits(t, job'[t])
    BY <1>1, GotoMoves, ReturnMoves DEF Resolve, HubInv, Fits
  <1>4. Roles'
    BY <1>2, <1>3, RolesKept DEF HubInv
  <1> QED BY <1>2, <1>4 DEF HubInv, Resolve, Shape, HeldQuiet

LEMMA HubBell ==
    ASSUME HubInv, Bell
    PROVE  HubInv'
  <1>1. "pump" \in Threads /\ "bell" \in JobKeys /\ "dedup" \in Places
    BY Names DEF JobKeys, Places
  <1>2. /\ job' \in [Threads -> Jobs] /\ job'["pump"].at = "dedup" /\ job'["pump"].key = "bell"
        /\ \A u \in Threads : u # "pump" => job'[u] = job[u]
    BY <1>1, CallMoves DEF Bell, HubInv
  <1>3. Roles'
    BY <1>1, <1>2, RolesKept, Names DEF HubInv, Fits
  <1> QED BY <1>2, <1>3 DEF HubInv, Bell, Shape, HeldQuiet

LEMMA HubDedup ==
    ASSUME HubInv, NEW t \in Threads, Dedup(t)
    PROVE  HubInv'
  <1>1. "hold" \in Places /\ "emit" \in Places /\ job[t].key \in Keys /\ t # "sweeper"
    BY DEF Places, Dedup, HubInv, Roles, Fits, In
  <1>2. \/ Return(t)
        \/ Goto(t, "hold") /\ job[t].key \in Questions
        \/ Goto(t, "emit")
    BY DEF Dedup
  <1>3. job' \in [Threads -> Jobs] /\ \A u \in Threads : u # t => job'[u] = job[u]
    BY <1>1, <1>2, GotoMoves, ReturnMoves DEF HubInv
  <1>4. Fits(t, job'[t])
    BY <1>1, <1>2, GotoMoves, ReturnMoves DEF HubInv, Fits
  <1>5. Roles'
    BY <1>3, <1>4, RolesKept DEF HubInv
  <1>6. seen' \in [Keys -> 0 .. Window]
    BY <1>1, Times DEF Dedup, HubInv, Shape
  <1> QED BY <1>3, <1>5, <1>6 DEF HubInv, Dedup, Shape, HeldQuiet

LEMMA HubHoldBack ==
    ASSUME HubInv, NEW t \in Threads, HoldBack(t)
    PROVE  HubInv'
  <1>1. job[t].key \in Questions
    BY DEF HoldBack, HubInv, Roles, Fits, In
  <1>2. /\ job' \in [Threads -> Jobs] /\ job'[t].at = "idle"
        /\ \A u \in Threads : u # t => job'[u] = job[u]
    BY ReturnMoves DEF HoldBack, HubInv
  <1>3. Roles'
    BY <1>2, RolesKept DEF HubInv, Fits
  <1>4. held' = held \/ held' = [key |-> job[t].key, age |-> 0, noise |-> 0]
    BY DEF HoldBack
  <1>5. held' = held \/ (held' \in [key : Questions, age : 0 .. Hold, noise : Nat] /\ held'.age = 0)
    BY <1>1, <1>4, Times
  <1> QED BY <1>2, <1>3, <1>5 DEF HubInv, HoldBack, Shape, HeldQuiet

LEMMA HubEmit ==
    ASSUME HubInv, NEW t \in Threads, Emit(t)
    PROVE  HubInv'
  <1> DEFINE key == job[t].key  note == Note(made + 1, key)
             j == [job[t] EXCEPT !.at = "show", !.notes = {note}]
  <1>1. key \in Keys /\ job[t] \in Jobs /\ (t = "sweeper" => key \in Questions)
    BY DEF Emit, HubInv, Roles, Fits, In, Shape
  <1>2. note \in Stored /\ note.id = made + 1
    BY <1>1 DEF Note, Stored, HubInv, Shape
  <1>3. j \in Jobs /\ j.at = "show" /\ j.key = key
    BY <1>1, <1>2 DEF Jobs, Places
  <1>4. job' = [job EXCEPT ![t] = j]
    BY DEF Emit
  <1>5. /\ job' \in [Threads -> Jobs] /\ job'[t] = j
        /\ \A u \in Threads : u # t => job'[u] = job[u]
    <2> HIDE DEF j
    <2> QED BY <1>3, <1>4, JobMoves DEF HubInv
  <1>6. Roles'
    <2>1. Fits(t, job'[t])
      BY <1>1, <1>3, <1>5 DEF Fits
    <2> QED BY <2>1, <1>5, RolesKept DEF HubInv
  <1>7. seen' \in [Keys -> 0 .. Window] /\ emitted' \in [Keys -> 0 .. Window]
    BY <1>1, Times DEF Emit, HubInv, Shape
  <1>8. queue' \subseteq Stored /\ made' \in Nat /\ \A n \in queue' : n.id <= made'
    <2>1. made' = made + 1 /\ queue' = queue \cup {note}
      BY DEF Emit
    <2>2. made \in Nat /\ queue \subseteq Stored /\ \A n \in queue : n.id \in Nat /\ n.id <= made
      BY DEF HubInv, Shape, Stored
    <2> HIDE DEF note
    <2>3. queue' \subseteq Stored /\ made' \in Nat
      BY <2>1, <2>2, <1>2
    <2>4. \A n \in queue : n.id <= made + 1
      BY <2>2
    <2>5. \A n \in queue' : n \in queue \/ n = note
      BY <2>1
    <2> QED BY <2>1, <2>2, <2>3, <2>4, <2>5, <1>2
  <1> QED BY <1>5, <1>6, <1>7, <1>8 DEF HubInv, Emit, Shape, HeldQuiet

\* A call that ends, or that goes on to a place where any call fits.
LEMMA HubOnward ==
    ASSUME HubInv, NEW t \in Threads,
           Return(t) \/ (t # "sweeper" /\ \E at \in {"watch", "collect", "clear"} : Goto(t, at)),
           queue' \subseteq queue,
           UNCHANGED <<seen, made, emitted, held, quiet>>
    PROVE  HubInv'
  <1>1. {"watch", "collect", "clear"} \subseteq Places
    BY DEF Places
  <1>2. job' \in [Threads -> Jobs] /\ \A u \in Threads : u # t => job'[u] = job[u]
    BY <1>1, GotoMoves, ReturnMoves DEF HubInv
  <1>3. Fits(t, job'[t])
    BY <1>1, GotoMoves, ReturnMoves DEF HubInv, Fits
  <1>4. Roles'
    BY <1>2, <1>3, RolesKept DEF HubInv
  <1> QED BY <1>2, <1>4 DEF HubInv, Shape, HeldQuiet

LEMMA HubShow ==
    ASSUME HubInv, NEW t \in Threads, Show(t) \/ WatchOutput(t) \/ Cleared(t)
    PROVE  HubInv'
  <1>1. Show(t) /\ t = "sweeper" => job[t].key \in Questions
    BY DEF Show, HubInv, Roles, Fits, In
  <1>2. Return(t) \/ (t # "sweeper" /\ Goto(t, "watch"))
    BY <1>1, Names DEF Show, WatchOutput, Cleared
  <1>3. queue' \subseteq queue /\ UNCHANGED <<seen, made, emitted, held, quiet>>
    BY DEF Show, WatchOutput, Cleared
  <1> QED BY <1>2, <1>3, HubOnward

LEMMA HubSweepDrain ==
    ASSUME HubInv, SweepDrain
    PROVE  HubInv' /\ job'["sweeper"].at = "sweep" /\ job'["sweeper"].key = held.key
  <1>1. /\ held \in [key : Questions, age : 0 .. Hold, noise : Nat]
        /\ "sweeper" \in Threads /\ held.key \in Questions /\ held.key \in JobKeys
        /\ "sweep" \in Places
    BY Names DEF SweepDrain, HubInv, Shape, JobKeys, Places
  <1>2. /\ job' \in [Threads -> Jobs] /\ job'["sweeper"].at = "sweep"
        /\ job'["sweeper"].key = held.key
        /\ \A u \in Threads : u # "sweeper" => job'[u] = job[u]
    BY <1>1, CallMoves DEF SweepDrain, HubInv
  <1>3. Roles'
    BY <1>1, <1>2, RolesKept DEF HubInv, Fits
  <1> QED BY <1>2, <1>3 DEF HubInv, SweepDrain, Shape, HeldQuiet

LEMMA HubOutput ==
    ASSUME HubInv, Output
    PROVE  /\ HubInv'
           /\ UNCHANGED job \/ (In("pump", "idle") /\ Goto("pump", "collect"))
           /\ held' = Nothing \/ (held # Nothing /\ held'.key = held.key /\ held'.age = held.age)
  <1>1. /\ "pump" \in Threads
        /\ UNCHANGED job \/ (In("pump", "idle") /\ Goto("pump", "collect"))
    BY Names DEF Output
  <1>2. \/ held' = held
        \/ held' = Nothing
        \/ held # Nothing /\ held' = [held EXCEPT !.noise = @ + 1]
    BY DEF Output, HeldAfterOutput
  <1>3. /\ held' = Nothing \/ held' \in [key : Questions, age : 0 .. Hold, noise : Nat]
        /\ held' = Nothing \/ (held # Nothing /\ held'.key = held.key /\ held'.age = held.age)
    BY <1>2 DEF HubInv, Shape
  <1>4. quiet' \in 0 .. Hold /\ (held' # Nothing => quiet' = quiet)
    BY Times DEF Output, HubInv, Shape
  <1>5. job' \in [Threads -> Jobs] /\ Roles'
    <2>1. "collect" \in Places
      BY DEF Places
    <2>2. CASE UNCHANGED job
      BY <2>2 DEF HubInv, Shape, Roles
    <2>3. CASE Goto("pump", "collect")
      <3>1. Fits("pump", job'["pump"])
        BY <1>1, <2>1, <2>3, GotoMoves DEF HubInv, Fits
      <3> QED BY <1>1, <2>1, <2>3, <3>1, GotoMoves, RolesKept DEF HubInv
    <2> QED BY <1>1, <2>2, <2>3
  <1>6. Shape'
    BY <1>3, <1>4, <1>5 DEF HubInv, Output, Shape
  <1> QED BY <1>1, <1>3, <1>4, <1>5, <1>6 DEF HubInv, HeldQuiet

\* The ids that a clear takes along.
LEMMA HubNoted ==
    ASSUME HubInv, NEW t \in Threads \ {"sweeper"}, NEW ns \in SUBSET Stored,
           NEW at \in {"clear", "cleared"},
           job' = [job EXCEPT ![t].at = at, ![t].notes = ns]
    PROVE  /\ job' \in [Threads -> Jobs] /\ Roles'
           /\ job'[t].at = at
           /\ \A u \in Threads : u # t => job'[u] = job[u]
  <1> DEFINE j == [job[t] EXCEPT !.at = at, !.notes = ns]
  <1>1. job[t] \in Jobs
    BY DEF HubInv, Shape
  <1>2. j \in Jobs /\ j.at = at
    BY <1>1 DEF Jobs, Places
  <1>3. job' = [job EXCEPT ![t] = j]
    OBVIOUS
  <1>4. Fits(t, j)
    BY <1>2 DEF Fits
  <1> HIDE DEF j
  <1>5. /\ job' \in [Threads -> Jobs] /\ job'[t] = j
        /\ \A u \in Threads : u # t => job'[u] = job[u]
    BY <1>2, <1>3, JobMoves DEF HubInv
  <1> QED BY <1>2, <1>4, <1>5, RolesKept DEF HubInv

LEMMA HubCollect ==
    ASSUME HubInv, Collect \/ ClearStops
    PROVE  /\ HubInv'
           /\ job'["pump"].at \notin {"sweep", "emit"}
           /\ \A u \in Threads : u # "pump" => job'[u] = job[u]
  <1>1. "pump" \in Threads \ {"sweeper"}
    BY Names
  <1>2. CASE Return("pump")
    <2>1. queue' \subseteq queue /\ UNCHANGED <<seen, made, emitted, held, quiet>>
      BY DEF Collect, ClearStops
    <2> QED BY <1>1, <1>2, <2>1, HubOnward, ReturnMoves DEF HubInv
  <1>3. CASE ~Return("pump")
    <2>1. PICK ns \in SUBSET queue, at \in {"clear", "cleared"} :
              job' = [job EXCEPT !["pump"].at = at, !["pump"].notes = ns]
      BY <1>3 DEF Collect, ClearStops
    <2>2. ns \in SUBSET Stored
      BY DEF HubInv, Shape
    <2>3. /\ job' \in [Threads -> Jobs] /\ Roles' /\ job'["pump"].at = at
          /\ \A u \in Threads : u # "pump" => job'[u] = job[u]
      BY <1>1, <2>1, <2>2, HubNoted
    <2>4. queue' \subseteq queue /\ UNCHANGED <<seen, made, emitted, held, quiet>>
      BY DEF Collect, ClearStops
    <2>5. Shape' /\ HeldQuiet'
      BY <2>3, <2>4 DEF HubInv, Shape, HeldQuiet
    <2> QED BY <2>3, <2>5 DEF HubInv
  <1> QED BY <1>2, <1>3

LEMMA HubClearAll ==
    ASSUME HubInv, ClearAll
    PROVE  /\ HubInv'
           /\ job'["user"].at \notin {"sweep", "emit"}
           /\ \A u \in Threads : u # "user" => job'[u] = job[u]
           /\ held' = held \/ held' = Nothing
  <1>1. "user" \in Threads \ {"sweeper"}
    BY Names
  <1>2. CASE Mapped
    <2>1. queue \in SUBSET Stored
      BY DEF HubInv, Shape
    <2>2. /\ job' \in [Threads -> Jobs] /\ Roles' /\ job'["user"].at = "cleared"
          /\ \A u \in Threads : u # "user" => job'[u] = job[u]
      BY <1>1, <1>2, <2>1, HubNoted DEF ClearAll
    <2>3. Shape' /\ HeldQuiet' /\ held' = Nothing
      BY <1>2, <2>2, Times DEF HubInv, ClearAll, Shape, HeldQuiet
    <2> QED BY <2>2, <2>3 DEF HubInv
  <1>3. CASE ~Mapped
    <2>1. Return("user") /\ UNCHANGED <<queue, seen, made, emitted, held, quiet>>
      BY <1>3 DEF ClearAll
    <2> QED BY <1>1, <2>1, HubOnward, ReturnMoves DEF HubInv
  <1> QED BY <1>2, <1>3

LEMMA HubUser ==
    ASSUME HubInv, OpenTerminal \/ Terminate
    PROVE  /\ HubInv'
           /\ job'["user"].at = "clear"
           /\ \A u \in Threads : u # "user" => job'[u] = job[u]
           /\ UNCHANGED <<seen, made, queue, emitted, held, quiet>>
  <1>1. "user" \in Threads /\ "user" # "sweeper" /\ "clear" \in Places /\ "terminate" \in JobKeys
    BY Names DEF Places, JobKeys
  <1>2. /\ job' \in [Threads -> Jobs] /\ job'["user"].at = "clear"
        /\ \A u \in Threads : u # "user" => job'[u] = job[u]
    BY <1>1, GotoMoves, CallMoves DEF OpenTerminal, Terminate, HubInv
  <1>3. UNCHANGED <<seen, made, queue, emitted, held, quiet>>
    BY DEF OpenTerminal, Terminate
  <1>4. Roles'
    BY <1>1, <1>2, RolesKept DEF HubInv, Fits
  <1> QED BY <1>2, <1>3, <1>4 DEF HubInv, Shape, HeldQuiet

LEMMA HubTick ==
    ASSUME HubInv, Tick
    PROVE  HubInv'
  <1>1. /\ seen' \in [Keys -> 0 .. Window] /\ emitted' \in [Keys -> 0 .. Window]
        /\ quiet' \in 0 .. Hold
    BY AgedBound, Times DEF HubInv, Shape, Tick
  <1>2. CASE held = Nothing
    BY <1>1, <1>2 DEF HubInv, Tick, Shape, Roles, HeldQuiet
  <1>3. CASE held # Nothing
    <2>1. held' = [held EXCEPT !.age = Aged(held.age, Hold)]
      BY <1>3 DEF Tick
    <2>2. held \in [key : Questions, age : 0 .. Hold, noise : Nat] /\ held.age <= quiet
          /\ quiet \in 0 .. Hold
      BY <1>3 DEF HubInv, Shape, HeldQuiet
    <2>3. held' \in [key : Questions, age : 0 .. Hold, noise : Nat]
      BY <2>1, <2>2, AgedBound, Times
    <2>4. held'.age <= quiet'
      BY <2>1, <2>2, Times DEF Tick, Aged
    <2>5. UNCHANGED <<queue, job, made>>
      BY DEF Tick
    <2> QED BY <1>1, <2>3, <2>4, <2>5 DEF HubInv, Shape, Roles, HeldQuiet
  <1> QED BY <1>2, <1>3

\* Steps of the session and of the person that touch no call and no time.
LEMMA HubApart ==
    ASSUME HubInv, CloseTerminal \/ Exit \/ Purge \/ Unmap \/ Unregister
    PROVE  /\ HubInv'
           /\ UNCHANGED <<seen, job, made, emitted, quiet>>
           /\ held' = held \/ held' = Nothing
           /\ queue' \subseteq queue
  <1>1. /\ UNCHANGED <<seen, job, made, emitted, quiet>>
        /\ held' = held \/ held' = Nothing
        /\ queue' \subseteq queue
    BY DEF CloseTerminal, Exit, Purge, Unmap, Unregister
  <1> QED BY <1>1 DEF HubInv, Shape, Roles, HeldQuiet

LEMMA HubStep == HubInv /\ [Next]_vars => HubInv'
  <1> SUFFICES ASSUME HubInv, [Next]_vars PROVE HubInv'
    OBVIOUS
  <1>1. CASE \E h \in Handlers, q \in Questions : Ask(h, q)
    BY <1>1, HubAsk
  <1>2. CASE \E h \in Handlers : Work(h)
    BY <1>2, HubWork
  <1>3. CASE \E h \in Handlers, running \in {0, 1} : StopTurn(h, running)
    BY <1>3, HubStopTurn
  <1>4. CASE \E t \in Threads : Goes(t)
    <2> PICK t \in Threads : Goes(t)
      BY <1>4
    <2>1. CASE Dedup(t)
      BY <2>1, HubDedup
    <2>2. CASE HoldBack(t)
      BY <2>2, HubHoldBack
    <2>3. CASE Emit(t)
      BY <2>3, HubEmit
    <2>4. CASE Show(t) \/ WatchOutput(t) \/ Cleared(t)
      BY <2>4, HubShow
    <2>5. CASE t \in Handlers /\ ResolveStop(t)
      <3>1. job[t].key = "stop" /\ t # "sweeper"
        BY <2>5, Names DEF ResolveStop, HubInv, Roles, Fits, In
      <3> QED BY <2>5, <3>1, HubResolve, Names DEF ResolveStop
    <2>6. CASE t = "sweeper" /\ SweepDrain
      BY <2>6, HubSweepDrain
    <2>7. CASE t = "sweeper" /\ SweepResolve
      <3>1. job[t].key \in Questions /\ job[t].key \in Keys
        BY <2>7, Names DEF SweepResolve, HubInv, Roles, Fits, In
      <3> QED BY <2>7, <3>1, HubResolve DEF SweepResolve
    <2>8. CASE Collect \/ ClearStops
      BY <2>8, HubCollect
    <2>9. CASE ClearAll
      BY <2>9, HubClearAll
    <2> QED BY <2>1, <2>2, <2>3, <2>4, <2>5, <2>6, <2>7, <2>8, <2>9 DEF Goes, Ingest
  <1>5. CASE Bell \/ Output
    BY <1>5, HubBell, HubOutput
  <1>6. CASE OpenTerminal \/ Terminate
    BY <1>6, HubUser
  <1>7. CASE CloseTerminal \/ Exit \/ Purge \/ Unmap \/ Unregister
    BY <1>7, HubApart
  <1>8. CASE Tick
    BY <1>8, HubTick
  <1>9. CASE UNCHANGED vars
    BY <1>9 DEF vars, HubInv, Shape, Roles, HeldQuiet
  <1> QED BY <1>1, <1>2, <1>3, <1>4, <1>5, <1>6, <1>7, <1>8, <1>9 DEF Next

\* The calls of the hub's threads are well formed at every step, and a held question has
\* never waited longer than the session was quiet.
THEOREM HubInvariant == Spec => []HubInv
  BY HubInitially, HubStep, PTL DEF Spec

\* Only the sweeper's drain makes it busy.
LEMMA SweeperStarts ==
    ASSUME HubInv, [Next]_vars, In("sweeper", "idle"), ~In("sweeper", "idle")'
    PROVE  SweepDrain
  <1> DEFINE same == job'["sweeper"] = job["sweeper"]
  <1>1. ~same
    BY DEF In
  <1>2. "sweeper" \in Threads /\ job \in [Threads -> Jobs]
    BY Names DEF HubInv, Shape
  <1>3. \A t \in Threads : In(t, "idle") \/ t # "sweeper"
    OBVIOUS
  <1>4. (\E h \in Handlers, q \in Questions : Ask(h, q)) => same
    BY <1>2, Names DEF Ask, Call
  <1>5. (\E h \in Handlers : Work(h)) => same
    BY DEF Work
  <1>6. (\E h \in Handlers, running \in {0, 1} : StopTurn(h, running)) => same
    BY <1>2, Names DEF StopTurn, Call
  <1>7. (\E t \in Threads : Ingest(t) \/ Cleared(t)) => same
    <2>1. SUFFICES ASSUME NEW t \in Threads, Ingest(t) \/ Cleared(t) PROVE same
      OBVIOUS
    <2>2. t # "sweeper"
      BY <2>1 DEF Ingest, Cleared, Dedup, HoldBack, Emit, Show, WatchOutput, In
    <2> QED BY <1>2, <2>1, <2>2 DEF Ingest, Cleared, Dedup, HoldBack, Emit, Show, WatchOutput,
              Goto, Return
  <1>8. (\E t \in Handlers : ResolveStop(t)) => same
    BY <1>2, Names DEF ResolveStop, Resolve, Goto, Return
  <1>9. ~SweepResolve
    BY DEF SweepResolve, In
  <1>10. Collect \/ ClearStops \/ ClearAll => same
    BY <1>2 DEF Collect, ClearStops, ClearAll, Return
  <1>11. Bell \/ Output => same
    BY <1>2 DEF Bell, Output, Call, Goto
  <1>12. OpenTerminal \/ CloseTerminal \/ Terminate => same
    BY <1>2 DEF OpenTerminal, CloseTerminal, Terminate, Call, Goto
  <1>13. Exit \/ Purge \/ Unmap \/ Unregister \/ Tick \/ UNCHANGED vars => same
    BY DEF Exit, Purge, Unmap, Unregister, Tick, vars
  <1> HIDE DEF same
  <1> QED BY <1>1, <1>4, <1>5, <1>6, <1>7, <1>8, <1>9, <1>10, <1>11, <1>12, <1>13 DEF Next, Goes

\* A question that was held back is announced only when the session gave no sign of
\* work for the whole hold (hub.rs, flush_expired, on_output and clear).
THEOREM AnnouncedOnlyAfterQuiet == Spec => OnlyAfterQuiet
  <1>1. ASSUME HubInv, [Next]_vars
        PROVE  [In("sweeper", "idle") /\ ~In("sweeper", "idle")' => quiet >= Hold]_vars
    <2> SUFFICES ASSUME In("sweeper", "idle"), ~In("sweeper", "idle")' PROVE quiet >= Hold
      OBVIOUS
    <2>1. SweepDrain
      BY <1>1, SweeperStarts
    <2>2. held # Nothing /\ held.age >= Hold /\ held.age <= quiet
      BY <1>1, <2>1 DEF SweepDrain, HubInv, HeldQuiet
    <2>3. held.age \in Nat /\ quiet \in Nat
      BY <1>1, <2>2 DEF HubInv, Shape
    <2> QED BY <2>2, <2>3, Times
  <1> QED BY <1>1, HubInvariant, PTL DEF Spec, OnlyAfterQuiet

-----------------------------------------------------------------------------
\* Notifications of the same key are a window apart.

LEMMA ApartInitially == Init => ApartInv
  <1> SUFFICES ASSUME Init PROVE ApartInv
    OBVIOUS
  <1>1. \A t \in Threads : job[t].at = "idle"
    BY DEF Init, Idle
  <1>2. held = Nothing /\ \A k \in Keys : seen[k] = Window /\ emitted[k] = Window
    BY DEF Init
  <1> QED BY <1>1, <1>2, Names, Times
        DEF ApartInv, SweeperAnnounces, SeenCovers, Claimed, HeldInTime, In

\* A step that lets nobody begin to announce, and leaves the times alone.
LEMMA ApartFrame ==
    ASSUME HubInv, ApartInv, UNCHANGED <<seen, emitted>>,
           held' = held \/ held' = Nothing
             \/ (held # Nothing /\ held'.key = held.key /\ held'.age = held.age),
           \A u \in Threads : job'[u] = job[u] \/ job'[u].at \notin {"sweep", "emit"}
    PROVE  ApartInv'
  <1>1. SweeperAnnounces' /\ SeenCovers'
    BY DEF ApartInv, SweeperAnnounces, SeenCovers, In
  <1>2. Claimed'
    BY DEF ApartInv, Claimed, In
  <1>3. HeldInTime'
    BY Names DEF ApartInv, HeldInTime
  <1> QED BY <1>1, <1>2, <1>3 DEF ApartInv

LEMMA ApartDedup ==
    ASSUME Hold >= Window, HubInv, ApartInv, NEW t \in Threads, Dedup(t)
    PROVE  ApartInv'
  <1> DEFINE key == job[t].key
  <1>1. key \in Keys /\ t # "sweeper" /\ Hold > 0 /\ seen[key] \in 0 .. Window
    BY Times DEF Dedup, HubInv, Roles, Fits, In, Shape
  <1>2. /\ held' = held /\ emitted' = emitted
        /\ seen' = seen \/ seen' = [seen EXCEPT ![key] = 0]
    BY DEF Dedup
  <1>3. /\ \A u \in Threads : u # t => job'[u] = job[u]
        /\ job'[t].at # "sweep"
        /\ job'[t].at = "emit" =>
             /\ job'[t].key = key /\ key \notin Questions
             /\ seen[key] = Window /\ seen' = [seen EXCEPT ![key] = 0]
    <2>1. CASE Return(t)
      BY <2>1, ReturnMoves DEF HubInv
    <2>2. CASE ~Return(t)
      <3>1. seen[key] = Window /\ "hold" \in Places /\ "emit" \in Places
        BY <1>1, <2>2, Times DEF Dedup, Places
      <3>2. \/ Goto(t, "hold")
            \/ Goto(t, "emit") /\ key \notin Questions /\ seen' = [seen EXCEPT ![key] = 0]
        BY <1>1, <2>2 DEF Dedup
      <3> QED BY <3>1, <3>2, GotoMoves DEF HubInv
    <2> QED BY <2>1, <2>2
  <1>4. \A k \in Keys : seen'[k] = seen[k] \/ seen'[k] = 0
    BY <1>2 DEF HubInv, Shape
  <1>5. \A k \in Keys : seen[k] \in Nat /\ emitted[k] \in Nat /\ emitted[k] <= Window
    BY Times DEF HubInv, Shape
  <1>6. SweeperAnnounces'
    BY <1>3 DEF ApartInv, SweeperAnnounces, In
  <1>7. SeenCovers'
    BY <1>2, <1>4, <1>5 DEF ApartInv, SeenCovers
  <1>8. Claimed'
    <2> SUFFICES ASSUME NEW u \in Threads, In(u, "emit")', job'[u].key \notin Questions
                 PROVE  /\ emitted'[job'[u].key] = Window /\ seen'[job'[u].key] = 0
                        /\ \A v \in Threads : In(v, "emit")' /\ job'[v].key = job'[u].key => v = u
      BY DEF Claimed
    <2>1. CASE u = t
      <3>1. job'[t].key = key /\ key \notin Questions /\ seen[key] = Window /\ seen'[key] = 0
        BY <1>1, <1>3, <2>1 DEF In, HubInv, Shape
      <3>2. emitted'[key] = Window
        BY <3>1, <1>1, <1>2, <1>5, Times DEF ApartInv, SeenCovers
      <3>3. \A v \in Threads : v # t => ~(In(v, "emit") /\ job[v].key = key)
        BY <3>1, Times DEF ApartInv, Claimed
      <3> QED BY <2>1, <3>1, <3>2, <3>3, <1>3 DEF In
    <2>2. CASE u # t
      <3>1. In(u, "emit") /\ job'[u].key = job[u].key /\ job[u].key \in Keys
        BY <1>3, <2>2 DEF In, HubInv, Roles, Fits
      <3>2. emitted[job[u].key] = Window /\ seen[job[u].key] = 0
        BY <3>1 DEF ApartInv, Claimed
      <3>3. \A v \in Threads : In(v, "emit")' /\ job'[v].key = job[u].key => v = u
        <4> SUFFICES ASSUME NEW v \in Threads, In(v, "emit")', job'[v].key = job[u].key
                     PROVE  v = u
          OBVIOUS
        <4>1. v # t
          BY <1>3, <3>2, Times DEF In
        <4> QED BY <4>1, <1>3, <3>1 DEF ApartInv, Claimed, In
      <3> QED BY <3>1, <3>2, <3>3, <1>2, <1>4
    <2> QED BY <2>1, <2>2
  <1>9. HeldInTime'
    BY <1>1, <1>2, <1>3, Names DEF ApartInv, HeldInTime
  <1> QED BY <1>6, <1>7, <1>8, <1>9 DEF ApartInv

LEMMA ApartHoldBack ==
    ASSUME HubInv, ApartInv, NEW t \in Threads, HoldBack(t)
    PROVE  ApartInv'
  <1>1. /\ job'[t].at = "idle" /\ \A u \in Threads : u # t => job'[u] = job[u]
    BY ReturnMoves DEF HoldBack, HubInv
  <1>2. UNCHANGED <<seen, emitted>>
    BY DEF HoldBack
  <1>3. CASE held' = held
    BY <1>1, <1>2, <1>3, ApartFrame
  <1>4. CASE held' # held
    <2>1. job[t].key \in Questions /\ t # "sweeper" /\ "sweeper" \in Threads
      BY Names DEF HoldBack, HubInv, Roles, Fits, In
    <2>2. held' = [key |-> job[t].key, age |-> 0, noise |-> 0]
      BY <1>4 DEF HoldBack
    <2>3. emitted'[held'.key] >= held'.age
      BY <1>2, <2>1, <2>2, Names, Times DEF HubInv, Shape
    <2>4. HeldInTime'
      BY <1>1, <1>2, <2>1, <2>2, <2>3 DEF ApartInv, HeldInTime
    <2>5. SweeperAnnounces' /\ SeenCovers' /\ Claimed'
      BY <1>1, <1>2 DEF ApartInv, SweeperAnnounces, SeenCovers, Claimed, In
    <2> QED BY <2>4, <2>5 DEF ApartInv
  <1> QED BY <1>3, <1>4

LEMMA ApartEmit ==
    ASSUME HubInv, ApartInv, NEW t \in Threads, Emit(t)
    PROVE  ApartInv'
  <1> DEFINE key == job[t].key
  <1>1. key \in Keys /\ In(t, "emit") /\ (key \in Questions => t = "sweeper")
        /\ (t = "sweeper" => key \in Questions)
    BY DEF Emit, HubInv, Roles, Fits, In, ApartInv, SweeperAnnounces
  <1>2. job'[t].at = "show" /\ \A u \in Threads : u # t => job'[u] = job[u]
    BY DEF Emit, HubInv, Shape, Jobs
  <1>3. /\ held' = held
        /\ seen' = [seen EXCEPT ![key] = 0] /\ emitted' = [emitted EXCEPT ![key] = 0]
    BY DEF Emit
  <1>4. /\ seen'[key] = 0 /\ emitted'[key] = 0
        /\ \A k \in Keys : k # key => seen'[k] = seen[k] /\ emitted'[k] = emitted[k]
    BY <1>1, <1>3 DEF HubInv, Shape
  <1>5. \A u \in Threads : u # t /\ In(u, "emit") => job[u].key \in Keys /\ job[u].key # key
    <2> SUFFICES ASSUME NEW u \in Threads, u # t, In(u, "emit")
                 PROVE  job[u].key \in Keys /\ job[u].key # key
      OBVIOUS
    <2>1. job[u].key \in Keys
      BY DEF HubInv, Roles, Fits, In
    <2>2. CASE key \in Questions
      BY <1>1, <2>1, <2>2 DEF ApartInv, SweeperAnnounces
    <2>3. CASE key \notin Questions
      BY <1>1, <2>1, <2>3 DEF ApartInv, Claimed
    <2> QED BY <2>1, <2>2, <2>3
  <1>6. SweeperAnnounces' /\ SeenCovers'
    BY <1>2, <1>4 DEF ApartInv, SweeperAnnounces, SeenCovers, In
  <1>7. Claimed'
    BY <1>2, <1>4, <1>5 DEF ApartInv, Claimed, In
  <1>8. HeldInTime'
    <2>1. held # Nothing => held.key \in Questions /\ held.key \in Keys /\ held.age \in Nat
      BY Names DEF HubInv, Shape
    <2>2. held # Nothing => emitted'[held.key] >= held.age \/ emitted'[held.key] = Window
      <3>1. CASE held # Nothing /\ held.key = key
        BY <1>1, <1>4, <2>1, <3>1 DEF ApartInv, HeldInTime, In
      <3>2. CASE held # Nothing /\ held.key # key
        BY <1>4, <2>1, <3>2 DEF ApartInv, HeldInTime
      <3> QED BY <3>1, <3>2
    <2>3. job'["sweeper"].at \in {"sweep", "emit"} =>
            /\ emitted'[job'["sweeper"].key] = Window
            /\ held' # Nothing /\ held'.key = job'["sweeper"].key => held'.age = 0
      <3> SUFFICES ASSUME job'["sweeper"].at \in {"sweep", "emit"}
                   PROVE  /\ emitted'[job'["sweeper"].key] = Window
                          /\ held' # Nothing /\ held'.key = job'["sweeper"].key => held'.age = 0
        OBVIOUS
      <3>1. t # "sweeper" /\ "sweeper" \in Threads
        BY <1>2, Names
      <3>2. job'["sweeper"] = job["sweeper"] /\ key \notin Questions
        BY <1>1, <1>2, <3>1
      <3>3. job["sweeper"].key \in Questions
        BY <3>1, <3>2 DEF HubInv, Roles, Fits
      <3> QED BY <1>3, <1>4, <3>2, <3>3, Names DEF ApartInv, HeldInTime
    <2> QED BY <1>3, <2>2, <2>3 DEF HeldInTime
  <1> QED BY <1>6, <1>7, <1>8 DEF ApartInv

LEMMA ApartSweepDrain ==
    ASSUME Hold >= Window, HubInv, ApartInv, SweepDrain
    PROVE  ApartInv'
  <1>1. /\ held \in [key : Questions, age : 0 .. Hold, noise : Nat] /\ held # Nothing
        /\ held.age = Hold /\ held' = Nothing /\ "sweeper" \in Threads
        /\ "sweep" \in Places /\ held.key \in JobKeys /\ held.key \in Keys
        /\ Call("sweeper", "sweep", held.key) /\ UNCHANGED <<seen, emitted>>
    BY Names, Times DEF SweepDrain, HubInv, Shape, Places, JobKeys
  <1>2. /\ job'["sweeper"].at = "sweep" /\ job'["sweeper"].key = held.key
        /\ \A u \in Threads : u # "sweeper" => job'[u] = job[u]
    BY <1>1, CallMoves DEF HubInv
  <1>3. emitted[held.key] = Window
    <2>1. emitted[held.key] \in 0 .. Window
      BY <1>1 DEF HubInv, Shape
    <2> QED BY <1>1, <2>1, Times DEF ApartInv, HeldInTime
  <1>4. HeldInTime'
    BY <1>1, <1>2, <1>3 DEF HeldInTime
  <1>5. SweeperAnnounces' /\ SeenCovers' /\ Claimed'
    BY <1>1, <1>2 DEF ApartInv, SweeperAnnounces, SeenCovers, Claimed, In
  <1> QED BY <1>4, <1>5 DEF ApartInv

LEMMA ApartSweepResolve ==
    ASSUME HubInv, ApartInv, SweepResolve
    PROVE  ApartInv'
  <1>1. "sweeper" \in Threads /\ "emit" \in Places /\ UNCHANGED <<seen, emitted, held>>
    BY Names DEF SweepResolve, Resolve, Places
  <1>2. CASE Return("sweeper")
    <2>1. /\ job'["sweeper"].at = "idle"
          /\ \A u \in Threads : u # "sweeper" => job'[u] = job[u]
      BY <1>1, <1>2, ReturnMoves DEF HubInv
    <2> QED BY <1>1, <2>1, ApartFrame
  <1>3. CASE Goto("sweeper", "emit")
    <2>1. /\ job'["sweeper"].at = "emit" /\ job'["sweeper"].key = job["sweeper"].key
          /\ \A u \in Threads : u # "sweeper" => job'[u] = job[u]
      BY <1>1, <1>3, GotoMoves DEF HubInv
    <2>2. job["sweeper"].at = "sweep" /\ job["sweeper"].key \in Questions
      BY <1>1 DEF SweepResolve, HubInv, Roles, Fits, In
    <2>3. SweeperAnnounces' /\ SeenCovers' /\ HeldInTime'
      BY <1>1, <2>1, <2>2 DEF ApartInv, SweeperAnnounces, SeenCovers, HeldInTime, In
    <2>4. Claimed'
      BY <1>1, <2>1, <2>2 DEF ApartInv, Claimed, In
    <2> QED BY <2>3, <2>4 DEF ApartInv
  <1> QED BY <1>2, <1>3 DEF SweepResolve, Resolve

LEMMA ApartTick ==
    ASSUME HubInv, ApartInv, Tick
    PROVE  ApartInv'
  <1>1. /\ job' = job /\ \A t \in Threads : job[t].at = "idle"
        /\ seen' = [k \in Keys |-> Aged(seen[k], Window)]
        /\ emitted' = [k \in Keys |-> Aged(emitted[k], Window)]
    BY DEF Tick, In
  <1>2. SweeperAnnounces' /\ Claimed'
    BY <1>1 DEF SweeperAnnounces, Claimed, In
  <1>3. \A k \in Keys : seen[k] \in 0 .. Window /\ emitted[k] \in 0 .. Window
    BY DEF HubInv, Shape
  <1>4. SeenCovers'
    <2> SUFFICES ASSUME NEW k \in Keys PROVE seen'[k] <= emitted'[k]
      BY DEF SeenCovers
    <2>1. seen[k] <= emitted[k]
      BY DEF ApartInv, SeenCovers
    <2> QED BY <1>1, <1>3, <2>1, Times DEF Aged
  <1>5. HeldInTime'
    <2>1. job'["sweeper"].at \notin {"sweep", "emit"}
      BY <1>1, Names
    <2>2. CASE held = Nothing
      BY <2>1, <2>2 DEF HeldInTime, Tick
    <2>3. CASE held # Nothing
      <3>1. held \in [key : Questions, age : 0 .. Hold, noise : Nat] /\ held.key \in Keys
        BY <2>3, Names DEF HubInv, Shape
      <3>2. held' = [held EXCEPT !.age = Aged(held.age, Hold)]
        BY <2>3 DEF Tick
      <3>3. held'.key = held.key /\ held'.age = Aged(held.age, Hold)
        BY <3>1, <3>2
      <3>4. emitted'[held'.key] = Aged(emitted[held.key], Window)
        BY <1>1, <3>1, <3>3
      <3>5. emitted[held.key] >= held.age \/ emitted[held.key] = Window
        BY <2>3 DEF ApartInv, HeldInTime
      <3>6. emitted[held.key] \in 0 .. Window /\ held.age \in 0 .. Hold
        BY <1>3, <3>1
      <3>7. emitted'[held'.key] >= held'.age \/ emitted'[held'.key] = Window
        BY <3>3, <3>4, <3>5, <3>6, Times DEF Aged
      <3> QED BY <2>1, <3>7 DEF HeldInTime
    <2> QED BY <2>2, <2>3
  <1> QED BY <1>2, <1>4, <1>5 DEF ApartInv

LEMMA ApartStep ==
    ASSUME Hold >= Window, HubInv, ApartInv, [Next]_vars
    PROVE  ApartInv'
  <1> DEFINE Still == \A u \in Threads : job'[u] = job[u] \/ job'[u].at \notin {"sweep", "emit"}
             Kept == \/ held' = held \/ held' = Nothing
                     \/ held # Nothing /\ held'.key = held.key /\ held'.age = held.age
             Timeless == UNCHANGED <<seen, emitted>>
  <1>a. ASSUME Still, Kept, Timeless PROVE ApartInv'
    BY <1>a, ApartFrame
  <1>b. {"dedup", "resolve", "watch", "collect", "clear"} \subseteq Places
        /\ {"stop", "bell"} \subseteq JobKeys /\ Questions \subseteq JobKeys
    BY Names DEF Places, JobKeys
  <1>1. CASE \E h \in Handlers, q \in Questions : Ask(h, q)
    <2> PICK h \in Handlers, q \in Questions : Ask(h, q)
      BY <1>1
    <2>1. h \in Threads /\ q \in JobKeys
      BY <1>b, Names
    <2>2. Still
      BY <2>1, <1>b, CallMoves DEF Ask, HubInv
    <2> QED BY <2>2, <1>a DEF Ask
  <1>2. CASE \E h \in Handlers : Work(h)
    BY <1>2, <1>a DEF Work
  <1>3. CASE \E h \in Handlers, running \in {0, 1} : StopTurn(h, running)
    <2> PICK h \in Handlers, running \in {0, 1} : StopTurn(h, running)
      BY <1>3
    <2>1. h \in Threads
      BY Names
    <2>2. UNCHANGED job \/ Call(h, "resolve", "stop")
      BY DEF StopTurn
    <2>3. Still
      BY <2>1, <2>2, <1>b, CallMoves DEF HubInv
    <2> QED BY <2>3, <1>a DEF StopTurn
  <1>4. CASE \E t \in Threads : Goes(t)
    <2> PICK t \in Threads : Goes(t)
      BY <1>4
    <2>1. CASE Dedup(t)
      BY <2>1, ApartDedup
    <2>2. CASE HoldBack(t)
      BY <2>2, ApartHoldBack
    <2>3. CASE Emit(t)
      BY <2>3, ApartEmit
    <2>4. CASE Show(t) \/ WatchOutput(t) \/ Cleared(t)
      <3>1. Return(t) \/ Goto(t, "watch")
        BY <2>4 DEF Show, WatchOutput, Cleared
      <3>2. Still
        BY <3>1, <1>b, GotoMoves, ReturnMoves DEF HubInv
      <3> QED BY <2>4, <3>2, <1>a DEF Show, WatchOutput, Cleared
    <2>5. CASE t \in Handlers /\ ResolveStop(t)
      <3>1. Return(t) \/ Goto(t, "dedup")
        BY <2>5 DEF ResolveStop, Resolve
      <3>2. Still
        BY <3>1, <1>b, GotoMoves, ReturnMoves DEF HubInv
      <3> QED BY <2>5, <3>2, <1>a DEF ResolveStop, Resolve
    <2>6. CASE t = "sweeper" /\ SweepDrain
      BY <2>6, ApartSweepDrain
    <2>7. CASE t = "sweeper" /\ SweepResolve
      BY <2>7, ApartSweepResolve
    <2>8. CASE Collect \/ ClearStops
      <3>1. Still
        BY <2>8, HubCollect
      <3> QED BY <2>8, <3>1, <1>a DEF Collect, ClearStops
    <2>9. CASE ClearAll
      <3>1. Still /\ Kept
        BY <2>9, HubClearAll
      <3> QED BY <2>9, <3>1, <1>a DEF ClearAll
    <2> QED BY <2>1, <2>2, <2>3, <2>4, <2>5, <2>6, <2>7, <2>8, <2>9 DEF Goes, Ingest
  <1>5. CASE Bell
    <2>1. Still
      BY <1>5, <1>b, CallMoves, Names DEF Bell, HubInv
    <2> QED BY <1>5, <2>1, <1>a DEF Bell
  <1>6. CASE Output
    <2>1. Still
      BY <1>6, <1>b, HubOutput, GotoMoves, Names DEF HubInv
    <2>2. Kept
      BY <1>6, HubOutput
    <2> QED BY <1>6, <2>1, <2>2, <1>a DEF Output
  <1>7. CASE OpenTerminal \/ Terminate
    <2>1. Still
      BY <1>7, HubUser
    <2> QED BY <1>7, <2>1, <1>a, HubUser
  <1>8. CASE CloseTerminal \/ Exit \/ Purge \/ Unmap \/ Unregister
    BY <1>8, <1>a, HubApart
  <1>9. CASE Tick
    BY <1>9, ApartTick
  <1>10. CASE UNCHANGED vars
    BY <1>10, <1>a DEF vars
  <1> QED BY <1>1, <1>2, <1>3, <1>4, <1>5, <1>6, <1>7, <1>8, <1>9, <1>10 DEF Next

\* Only emit makes a notification.
LEMMA EmitMakes ==
    ASSUME HubInv, [Next]_vars, made' = made + 1
    PROVE  \E t \in Threads : Emit(t)
  <1>1. made' # made
    BY DEF HubInv, Shape
  <1> QED BY <1>1 DEF Next, Goes, Ingest, Ask, Work, StopTurn, Dedup, HoldBack, Show,
        WatchOutput, Cleared, ResolveStop, Resolve, SweepDrain, SweepResolve, Collect,
        ClearStops, ClearAll, Bell, Output, OpenTerminal, CloseTerminal, Terminate, Exit,
        Purge, Unmap, Unregister, Tick, vars

\* Whichever threads report it, and held back or not, the same notification is not made
\* twice within the window (hub.rs, ingest and emit).
THEOREM NotTwiceInTheWindow ==
    ASSUME Hold >= Window
    PROVE  Spec => EmissionsApart
  <1>1. Spec => []ApartInv
    <2>1. HubInv /\ ApartInv /\ [Next]_vars => ApartInv'
      BY ApartStep
    <2> QED BY <2>1, ApartInitially, HubInvariant, PTL DEF Spec
  <1>2. ASSUME HubInv, ApartInv, [Next]_vars
        PROVE  [\A k \in Keys : made' = made + 1 /\ Note(made', k) \in queue'
                                  => emitted[k] >= Window]_vars
    <2> SUFFICES ASSUME NEW k \in Keys, made' = made + 1, Note(made', k) \in queue'
                 PROVE  emitted[k] >= Window
      OBVIOUS
    <2>1. PICK t \in Threads : Emit(t)
      BY <1>2, EmitMakes
    <2>2. \A n \in queue : n.id <= made /\ made \in Nat
      BY <1>2 DEF HubInv, Shape
    <2>3. Note(made', k) \notin queue
      <3> SUFFICES ASSUME Note(made', k) \in queue PROVE FALSE
        OBVIOUS
      <3>1. made' <= made
        BY <2>2 DEF Note
      <3> QED BY <3>1, <2>2, <1>2 DEF HubInv, Shape
    <2>4. Note(made', k) = Note(made + 1, job[t].key)
      BY <2>1, <2>3 DEF Emit
    <2>5. k = job[t].key
      BY <2>4 DEF Note
    <2>6. emitted[k] = Window
      BY <1>2, <2>1, <2>5 DEF Emit, ApartInv, SweeperAnnounces, Claimed, HeldInTime, In
    <2> QED BY <2>6, Times
  <1> QED BY <1>1, <1>2, HubInvariant, PTL DEF Spec, EmissionsApart

\* Both: no notification twice within the window, no held question before the quiet.
THEOREM AnnouncementsInTime ==
    ASSUME Hold >= Window
    PROVE  Spec => AnnouncedInTime
  BY NotTwiceInTheWindow, AnnouncedOnlyAfterQuiet DEF AnnouncedInTime

-----------------------------------------------------------------------------
(* The wake lock                                                            *)

\* The longest between two renewals.
Span == RenewInterval + Late
CallsOf(b) == [active : b, at : {"sent", "read"}]
SavesOf(b) == [on : b, at : {"sent", "saved"}]
Timers == [held : BOOLEAN, release : 0 .. Awake!Off, renew : 0 .. Awake!Off]

AwakeTypes ==
    /\ copy \in BOOLEAN /\ setting \in BOOLEAN /\ active \in BOOLEAN /\ looked \in BOOLEAN
    /\ page \in {"up", "hung"} /\ ctl \in Timers
    /\ left \in 0 .. Lease /\ unneeded \in Nat /\ needed \in Nat
    /\ calls \in Seq(CallsOf(BOOLEAN)) /\ saves \in Seq(SavesOf(BOOLEAN))
    /\ news \in Seq(BOOLEAN)

\* The renewals run exactly while the renderer has a reason, and its grace suspends them.
TimersTrue ==
    /\ ~ctl.held => ctl.renew = Awake!Off
    /\ ctl.release # Awake!Off => ctl.renew = Awake!Off
    /\ ctl.renew # Awake!Off => ctl.renew <= Span
    /\ page = "up" => (Awake!Works <=> ctl.renew # Awake!Off)

\* The task lets an expired lock go before the next half minute.
Expires == active /\ looked => left > 0

\* Once nobody has worked for a half minute no renewal is on its way and the lease runs.
Unneeded ==
    unneeded > 0 =>
        /\ ~Awake!Works /\ calls \in Seq(CallsOf({FALSE}))
        /\ active => left + unneeded <= Lease

\* Once somebody has worked for a half minute no release is on its way.
Steady ==
    needed > 0 =>
        /\ Awake!Works /\ setting
        /\ calls \in Seq(CallsOf({TRUE})) /\ saves \in Seq(SavesOf({TRUE}))

\* A renewal since then was handled, or is on its way and the lock was held before it.
Renewed  == active /\ left + Span >= Lease + ctl.renew
Renewing == ctl.renew = Span /\ calls # <<>> /\ (needed > Span => active /\ left > 0)
Covered  == needed > 0 /\ needed + ctl.renew > Span => Renewed \/ Renewing

AInv == AwakeTypes /\ TimersTrue /\ Expires /\ Unneeded
KInv == Steady /\ Covered

Kinds == {"prompt", "tool", "notification", "stop", "settle"}

\* What the timers may be.
LEMMA Spans ==
    /\ ReleaseDelay \in Nat /\ RenewInterval \in Nat /\ Lease \in Nat /\ Late \in Nat
    /\ Lease > 0 /\ RenewInterval > 0 /\ ReleaseDelay > 0
    /\ Span \in Nat /\ Span > 0 /\ Awake!Off \in Nat /\ Span < Awake!Off /\ Late < Awake!Off
    /\ ReleaseDelay + Late < Awake!Off
BY InstancesFit DEF Awake!ConstantsFit, Span, Awake!Off

LEMMA Typed ==
    ASSUME AInv
    PROVE  /\ ctl \in Timers /\ ctl.held \in BOOLEAN
           /\ ctl.release \in Nat /\ ctl.release <= Awake!Off
           /\ ctl.renew \in Nat /\ ctl.renew <= Awake!Off
           /\ left \in Nat /\ left <= Lease /\ unneeded \in Nat /\ needed \in Nat
BY Spans DEF AInv, AwakeTypes, Timers

\* A sequence without one of its elements.
LEMMA Removed ==
    ASSUME NEW S, NEW s \in Seq(S), NEW i \in DOMAIN s
    PROVE  Awake!RemoveAt(s, i) \in Seq(S)
<1>1. Len(s) \in Nat /\ i \in 1 .. Len(s) /\ \A j \in 1 .. Len(s) : s[j] \in S
  BY LenProperties
<1>2. SubSeq(s, 1, i - 1) \in Seq(S)
  <2>1. 1 \in Int /\ i - 1 \in Int /\ \A j \in 1 .. i - 1 : s[j] \in S
    BY <1>1
  <2> QED BY <2>1, SubSeqProperties
<1>3. SubSeq(s, i + 1, Len(s)) \in Seq(S)
  <2>1. i + 1 \in Int /\ Len(s) \in Int /\ \A j \in i + 1 .. Len(s) : s[j] \in S
    BY <1>1
  <2> QED BY <2>1, SubSeqProperties
<1> QED BY <1>2, <1>3, ConcatProperties DEF Awake!RemoveAt

LEMMA Put ==
    ASSUME NEW S, NEW s \in Seq(S), NEW i \in DOMAIN s, NEW e \in S
    PROVE  [s EXCEPT ![i] = e] \in Seq(S) /\ Len([s EXCEPT ![i] = e]) = Len(s)
BY ExceptSeq, LenProperties

-----------------------------------------------------------------------------
(* The renderer                                                             *)

\* What recomputeKeepAwake makes of the timers, and whether it has anything to say.
LEMMA Updates ==
    ASSUME AInv, NEW enabled \in BOOLEAN, NEW working \in BOOLEAN,
           Awake!Update(enabled, working)
    PROVE  /\ ctl' \in Timers
           /\ ~ctl'.held => ctl'.renew = Awake!Off
           /\ ctl'.release # Awake!Off => ctl'.renew = Awake!Off
           /\ ctl'.renew # Awake!Off => ctl'.renew <= Span
           /\ enabled /\ working <=> ctl'.renew # Awake!Off
           /\ calls' = calls \/ calls' = Append(calls, [active |-> ctl'.held, at |-> "sent"])
           /\ ctl'.held /\ ~ctl.held => enabled /\ working
           /\ ctl'.held = ctl.held => calls' = calls
           /\ enabled /\ working /\ ctl.renew # Awake!Off =>
                ctl'.renew = ctl.renew /\ calls' = calls
<1>1. /\ ctl \in Timers /\ ctl.held \in BOOLEAN /\ ctl.release \in 0 .. Awake!Off
      /\ ctl.renew \in 0 .. Awake!Off
      /\ ~ctl.held => ctl.renew = Awake!Off
      /\ ctl.release # Awake!Off => ctl.renew = Awake!Off
      /\ ctl.renew # Awake!Off => ctl.renew <= Span
  BY DEF AInv, AwakeTypes, TimersTrue, Timers
<1>2. /\ calls' = calls \/ calls' = Append(calls, [active |-> ctl'.held, at |-> "sent"])
      /\ ctl'.held = ctl.held => calls' = calls
  BY DEF Awake!Update, Awake!Becomes, Awake!Told
<1>3. CASE enabled /\ working
  <2>1. ctl' = Awake!Acquire(ctl)
    BY <1>3 DEF Awake!Update, Awake!Becomes
  <2>2. ctl' = [held |-> TRUE, release |-> Awake!Off,
                renew |-> IF ctl.renew = Awake!Off THEN Span ELSE ctl.renew]
    BY <2>1 DEF Awake!Acquire, Span
  <2>3. /\ ctl'.held = TRUE /\ ctl'.release = Awake!Off
        /\ ctl'.renew = IF ctl.renew = Awake!Off THEN Span ELSE ctl.renew
    BY <2>2
  <2>4. Span \in 0 .. Awake!Off /\ Awake!Off \in 0 .. Awake!Off /\ Span # Awake!Off
    BY Spans
  <2>5. ctl' \in Timers
    BY <1>1, <2>2, <2>4 DEF Timers
  <2>6. ctl'.renew # Awake!Off /\ ctl'.renew <= Span
    BY <1>1, <2>3, <2>4, Spans
  <2>7. ctl.renew # Awake!Off => ctl'.renew = ctl.renew /\ ctl.held
    BY <1>1, <2>3
  <2>8. ctl.renew # Awake!Off => calls' = calls
    BY <1>1, <1>2, <2>3, <2>7
  <2> QED BY <1>2, <1>3, <2>3, <2>5, <2>6, <2>7, <2>8
<1>4. CASE ~enabled
  <2>1. ctl' = IF ctl.held THEN Awake!Idle ELSE [ctl EXCEPT !.release = Awake!Off]
    BY <1>4 DEF Awake!Update, Awake!Becomes, Awake!ReleaseNow
  <2>2. Awake!Off \in 0 .. Awake!Off
    BY Spans
  <2>3. ctl' \in Timers /\ ctl'.held = FALSE /\ ctl'.renew = Awake!Off /\ ctl'.release = Awake!Off
    BY <1>1, <2>1, <2>2 DEF Timers, Awake!Idle
  <2> QED BY <1>2, <1>4, <2>3
<1>5. CASE enabled /\ ~working
  <2>1. ctl' = IF ctl.held /\ ctl.release = Awake!Off
               THEN [ctl EXCEPT !.release = ReleaseDelay + Late, !.renew = Awake!Off] ELSE ctl
    BY <1>5 DEF Awake!Update, Awake!Becomes, Awake!ReleaseSoon
  <2>2. Awake!Off \in 0 .. Awake!Off /\ ReleaseDelay + Late \in 0 .. Awake!Off
    BY Spans
  <2>3. ctl' \in Timers /\ ctl'.held = ctl.held /\ ctl'.renew = Awake!Off
    BY <1>1, <2>1, <2>2 DEF Timers
  <2> QED BY <1>2, <1>5, <2>3
<1> QED BY <1>3, <1>4, <1>5

\* How the two histories go on.
LEMMA Histories ==
    ASSUME AInv, Awake!History
    PROVE  /\ unneeded' \in Nat /\ unneeded' <= unneeded + 1
           /\ needed' \in Nat /\ needed' <= needed + 1
           /\ ~(looked /\ ~looked') => unneeded' \in {0, unneeded} /\ needed' \in {0, needed}
           /\ unneeded' > 0 => ~Awake!Works /\ ~Awake!Works'
           /\ needed' > 0 => /\ Awake!Works /\ setting /\ Awake!Works' /\ setting'
<1>1. unneeded \in Nat /\ needed \in Nat
  BY Typed
<1>2. \A n \in Nat : Awake!Capped(n) \in Nat /\ Awake!Capped(n) <= n + 1
  BY DEF Awake!Capped
<1>3. \/ unneeded' = 0
      \/ /\ ~Awake!Works /\ ~Awake!Works'
         /\ unneeded' = unneeded \/ (looked /\ ~looked' /\ unneeded' = Awake!Capped(unneeded))
  BY DEF Awake!History
<1>4. \/ needed' = 0
      \/ /\ Awake!Works /\ setting /\ Awake!Works' /\ setting'
         /\ needed' = needed \/ (looked /\ ~looked' /\ needed' = Awake!Capped(needed))
  BY DEF Awake!History
<1> HIDE DEF Awake!Works
<1> QED BY <1>1, <1>2, <1>3, <1>4

\* A step that leaves the lease and the time alone.
LEMMA LeaseAlone ==
    ASSUME AInv, Awake!History, UNCHANGED <<active, left, looked>>,
           unneeded' > 0 => (calls \in Seq(CallsOf({FALSE})) => calls' \in Seq(CallsOf({FALSE})))
    PROVE  Expires' /\ Unneeded'
<1>1. Expires'
  BY DEF AInv, Expires
<1>2. ~(looked /\ ~looked')
  BY DEF AInv, AwakeTypes
<1>3. /\ unneeded' \in {0, unneeded} /\ (unneeded' > 0 => ~Awake!Works')
  BY <1>2, Histories
<1>4. unneeded' > 0 => unneeded' = unneeded /\ unneeded > 0
  BY <1>3
<1> QED BY <1>1, <1>3, <1>4 DEF AInv, Unneeded

\* A turn or the setting changed: the renewals follow.
LEMMA Turn ==
    ASSUME AInv, Awake!History, page = "up", page' = page,
           NEW e \in BOOLEAN, NEW w \in BOOLEAN, e = copy', w <=> Awake!AnyWorking(phase'),
           Awake!Update(e, w), saves' \in Seq(SavesOf(BOOLEAN)), news' \in Seq(BOOLEAN),
           UNCHANGED <<setting, active, left, looked>>
    PROVE  AInv'
<1>1. Awake!Works' <=> e /\ w
  BY DEF Awake!Works
<1>2. /\ ctl' \in Timers
      /\ ~ctl'.held => ctl'.renew = Awake!Off
      /\ ctl'.release # Awake!Off => ctl'.renew = Awake!Off
      /\ ctl'.renew # Awake!Off => ctl'.renew <= Span
      /\ e /\ w <=> ctl'.renew # Awake!Off
      /\ calls' = calls \/ calls' = Append(calls, [active |-> ctl'.held, at |-> "sent"])
      /\ ctl'.held /\ ~ctl.held => e /\ w
      /\ ctl'.held = ctl.held => calls' = calls
  BY Updates
<1>3. TimersTrue'
  BY <1>1, <1>2 DEF TimersTrue
<1>4. ctl.held \in BOOLEAN /\ ctl'.held \in BOOLEAN /\ calls \in Seq(CallsOf(BOOLEAN))
  BY <1>2, Typed DEF Timers, AInv, AwakeTypes
<1>5. calls' \in Seq(CallsOf(BOOLEAN))
  <2>1. [active |-> ctl'.held, at |-> "sent"] \in CallsOf(BOOLEAN)
    BY <1>4 DEF CallsOf
  <2> QED BY <1>2, <1>4, <2>1, AppendProperties
<1>6. unneeded' > 0 => (calls \in Seq(CallsOf({FALSE})) => calls' \in Seq(CallsOf({FALSE})))
  <2> SUFFICES ASSUME unneeded' > 0, calls \in Seq(CallsOf({FALSE})), calls' # calls
               PROVE  calls' \in Seq(CallsOf({FALSE}))
    OBVIOUS
  <2>1. ~(e /\ w)
    BY <1>1, Histories
  <2>2. ctl'.held = FALSE
    BY <1>2, <1>4, <2>1
  <2>3. calls' = Append(calls, [active |-> FALSE, at |-> "sent"])
    BY <1>2, <2>2
  <2>4. [active |-> FALSE, at |-> "sent"] \in CallsOf({FALSE})
    BY DEF CallsOf
  <2> QED BY <2>3, <2>4, AppendProperties
<1>7. Expires' /\ Unneeded'
  BY <1>6, LeaseAlone
<1>8. AwakeTypes'
  BY <1>2, <1>5, Histories DEF AInv, AwakeTypes
<1> QED BY <1>3, <1>7, <1>8 DEF AInv

LEMMA Turns ==
    ASSUME AInv, Awake!History,
           Awake!Toggle \/ Awake!Receive \/ \E a \in Agents, k \in Kinds : Awake!Event(a, k)
    PROVE  AInv'
<1>1. page = "up" /\ page' = page /\ UNCHANGED <<setting, active, left, looked>>
  BY DEF Awake!Toggle, Awake!Receive, Awake!Event, Awake!lock
<1>2. PICK w \in BOOLEAN : w <=> Awake!AnyWorking(phase')
  OBVIOUS
<1>3. copy \in BOOLEAN /\ saves \in Seq(SavesOf(BOOLEAN)) /\ news \in Seq(BOOLEAN)
  BY DEF AInv, AwakeTypes
<1>4. CASE Awake!Toggle
  <2>1. /\ copy' = ~copy /\ phase' = phase /\ news' = news
        /\ saves' = Append(saves, [on |-> ~copy, at |-> "sent"])
        /\ Awake!Update(~copy, Awake!AnyWorking(phase))
    BY <1>4 DEF Awake!Toggle
  <2>2. PICK e \in BOOLEAN : e = ~copy
    OBVIOUS
  <2>3. Awake!Update(e, w)
    BY <1>2, <2>1, <2>2 DEF Awake!Update
  <2>4. [on |-> ~copy, at |-> "sent"] \in SavesOf(BOOLEAN)
    BY DEF SavesOf
  <2>5. saves' \in Seq(SavesOf(BOOLEAN))
    BY <1>3, <2>1, <2>4, AppendProperties
  <2> QED BY <1>1, <1>2, <1>3, <2>1, <2>2, <2>3, <2>5, Turn
<1>5. CASE Awake!Receive
  <2>1. /\ news # <<>> /\ copy' = Head(news) /\ news' = Tail(news) /\ phase' = phase
        /\ saves' = saves /\ Awake!Update(copy', Awake!AnyWorking(phase))
    BY <1>5 DEF Awake!Receive
  <2>2. Head(news) \in BOOLEAN /\ Tail(news) \in Seq(BOOLEAN)
    BY <1>3, <2>1, HeadTailProperties
  <2>3. PICK e \in BOOLEAN : e = copy'
    BY <2>1, <2>2
  <2>4. Awake!Update(e, w)
    BY <1>2, <2>1, <2>3 DEF Awake!Update
  <2> QED BY <1>1, <1>2, <1>3, <2>1, <2>2, <2>3, <2>4, Turn
<1>6. CASE \E a \in Agents, k \in Kinds : Awake!Event(a, k)
  <2>1. /\ copy' = copy /\ saves' = saves /\ news' = news
        /\ Awake!Update(copy, Awake!AnyWorking(phase'))
    BY <1>6 DEF Awake!Event
  <2>2. PICK e \in BOOLEAN : e = copy
    BY <1>3
  <2>3. Awake!Update(e, w)
    BY <1>2, <2>1, <2>2 DEF Awake!Update
  <2> QED BY <1>1, <1>2, <1>3, <2>1, <2>2, <2>3, Turn
<1> QED BY <1>4, <1>5, <1>6

LEMMA RendererTimers ==
    ASSUME AInv, Awake!History, Awake!RenewTimer \/ Awake!ReleaseTimer
    PROVE  AInv'
<1>1. /\ page = "up" /\ UNCHANGED <<page, phase, copy, setting, active, left, looked, saves, news>>
  BY DEF Awake!RenewTimer, Awake!ReleaseTimer, Awake!lock
<1>2. Awake!Works' <=> Awake!Works
  BY <1>1 DEF Awake!Works
<1>3. /\ ctl \in Timers /\ ctl.held \in BOOLEAN /\ calls \in Seq(CallsOf(BOOLEAN))
      /\ ctl.renew # Awake!Off => ctl.renew <= Span
      /\ ~ctl.held => ctl.renew = Awake!Off
      /\ ctl.release # Awake!Off => ctl.renew = Awake!Off
      /\ Awake!Works <=> ctl.renew # Awake!Off
  BY <1>1, Typed DEF AInv, AwakeTypes, TimersTrue
<1>4. CASE Awake!RenewTimer
  <2>1. /\ ctl.renew <= Late /\ ctl' = [ctl EXCEPT !.renew = Span]
        /\ calls' = Append(calls, [active |-> TRUE, at |-> "sent"])
    BY <1>4 DEF Awake!RenewTimer, Span
  <2>2. ctl.renew # Awake!Off
    BY <2>1, Spans, Typed
  <2>3. Span \in 0 .. Awake!Off /\ Span # Awake!Off
    BY Spans
  <2>4. /\ ctl' \in Timers /\ ctl'.renew = Span /\ ctl'.held = ctl.held
        /\ ctl'.release = ctl.release
    BY <1>3, <2>1, <2>3 DEF Timers
  <2>5. TimersTrue'
    BY <1>1, <1>2, <1>3, <2>2, <2>3, <2>4, Spans DEF TimersTrue
  <2>6. [active |-> TRUE, at |-> "sent"] \in CallsOf(BOOLEAN)
    BY DEF CallsOf
  <2>7. calls' \in Seq(CallsOf(BOOLEAN))
    BY <1>3, <2>1, <2>6, AppendProperties
  <2>8. AwakeTypes'
    BY <1>1, <2>4, <2>7, Histories DEF AInv, AwakeTypes
  <2>9. Expires' /\ Unneeded'
    <3>1. ~(unneeded' > 0)
      BY <1>3, <2>2, Histories
    <3> QED BY <1>1, <3>1, LeaseAlone
  <2> QED BY <2>5, <2>8, <2>9 DEF AInv
<1>5. CASE Awake!ReleaseTimer
  <2>1. /\ ctl.release <= Late
        /\ ctl' = IF ctl.held THEN Awake!Idle ELSE [ctl EXCEPT !.release = Awake!Off]
        /\ calls' = IF ctl.held = ctl'.held THEN calls
                    ELSE Append(calls, [active |-> ctl'.held, at |-> "sent"])
    BY <1>5 DEF Awake!ReleaseTimer, Awake!Becomes, Awake!ReleaseNow, Awake!Told
  <2>2. ctl.release # Awake!Off /\ ctl.renew = Awake!Off
    BY <1>3, <2>1, Spans, Typed
  <2>3. Awake!Off \in 0 .. Awake!Off
    BY Spans
  <2>4. ctl' \in Timers /\ ctl'.held = FALSE /\ ctl'.renew = Awake!Off
    BY <1>3, <2>1, <2>2, <2>3 DEF Timers, Awake!Idle
  <2>5. TimersTrue'
    BY <1>1, <1>2, <1>3, <2>2, <2>4 DEF TimersTrue
  <2>6. /\ [active |-> FALSE, at |-> "sent"] \in CallsOf(BOOLEAN)
        /\ [active |-> FALSE, at |-> "sent"] \in CallsOf({FALSE})
    BY DEF CallsOf
  <2>7. \/ calls' = calls
        \/ calls' = Append(calls, [active |-> FALSE, at |-> "sent"])
    BY <2>1, <2>4
  <2>8. /\ calls' \in Seq(CallsOf(BOOLEAN))
        /\ calls \in Seq(CallsOf({FALSE})) => calls' \in Seq(CallsOf({FALSE}))
    BY <1>3, <2>6, <2>7, AppendProperties
  <2>9. AwakeTypes'
    BY <1>1, <2>4, <2>8, Histories DEF AInv, AwakeTypes
  <2>10. Expires' /\ Unneeded'
    BY <1>1, <2>8, LeaseAlone
  <2> QED BY <2>5, <2>9, <2>10 DEF AInv
<1> QED BY <1>4, <1>5

LEMMA PageGoes ==
    ASSUME AInv, Awake!History, Awake!Hang \/ Awake!Reload
    PROVE  AInv'
<1>1. UNCHANGED <<calls, saves, setting, active, left, looked>>
  BY DEF Awake!Hang, Awake!Reload, Awake!lock
<1>2. Expires' /\ Unneeded'
  BY <1>1, LeaseAlone
<1>3. CASE Awake!Hang
  <2>1. page' = "hung" /\ UNCHANGED <<copy, ctl, news>>
    BY <1>3 DEF Awake!Hang
  <2> QED BY <1>1, <1>2, <2>1, Histories DEF AInv, AwakeTypes, TimersTrue
<1>4. CASE Awake!Reload
  <2>1. /\ page' = "up" /\ phase' = [a \in Agents |-> "idle"] /\ copy' = setting
        /\ ctl' = Awake!Idle /\ news' = <<>>
    BY <1>4 DEF Awake!Reload
  <2>2. ~Awake!Works'
    BY <2>1 DEF Awake!Works, Awake!AnyWorking
  <2>3. Awake!Off \in 0 .. Awake!Off /\ <<>> \in Seq(BOOLEAN)
    BY Spans
  <2>4. ctl' \in Timers /\ ctl'.renew = Awake!Off
    BY <2>1, <2>3 DEF Timers, Awake!Idle
  <2>5. AwakeTypes'
    BY <1>1, <2>1, <2>3, <2>4, Histories DEF AInv, AwakeTypes
  <2>6. TimersTrue'
    BY <2>2, <2>4 DEF TimersTrue
  <2> QED BY <1>2, <2>5, <2>6 DEF AInv
<1> QED BY <1>3, <1>4

-----------------------------------------------------------------------------
(* The back end                                                             *)

\* What the renderer sees stays.
LEMMA RendererAlone ==
    ASSUME AInv, UNCHANGED <<page, phase, copy, ctl>>
    PROVE  TimersTrue' /\ (Awake!Works' <=> Awake!Works)
BY DEF AInv, TimersTrue, Awake!Works

\* Calls and saves as they are handled, whatever they are all of.
LEMMA CallHandled ==
    ASSUME NEW b, calls \in Seq(CallsOf(b)), NEW i \in DOMAIN calls,
           \/ calls' = [calls EXCEPT ![i].at = "read"]
           \/ calls' = Awake!RemoveAt(calls, i)
    PROVE  calls' \in Seq(CallsOf(b)) /\ calls[i].active \in b
<1>1. calls[i] \in CallsOf(b)
  BY LenProperties
<1>2. [calls[i] EXCEPT !.at = "read"] \in CallsOf(b) /\ calls[i].active \in b
  BY <1>1 DEF CallsOf
<1>3. CASE calls' = [calls EXCEPT ![i].at = "read"]
  <2>1. calls' = [calls EXCEPT ![i] = [calls[i] EXCEPT !.at = "read"]]
    BY <1>3
  <2> QED BY <1>2, <2>1, Put
<1> QED BY <1>2, <1>3, Removed

LEMMA SaveHandled ==
    ASSUME NEW b, saves \in Seq(SavesOf(b)), NEW i \in DOMAIN saves,
           \/ saves' = [saves EXCEPT ![i].at = "saved"]
           \/ saves' = Awake!RemoveAt(saves, i)
    PROVE  saves' \in Seq(SavesOf(b)) /\ saves[i].on \in b
<1>1. saves[i] \in SavesOf(b)
  BY LenProperties
<1>2. [saves[i] EXCEPT !.at = "saved"] \in SavesOf(b) /\ saves[i].on \in b
  BY <1>1 DEF SavesOf
<1>3. CASE saves' = [saves EXCEPT ![i].at = "saved"]
  <2>1. saves' = [saves EXCEPT ![i] = [saves[i] EXCEPT !.at = "saved"]]
    BY <1>3
  <2> QED BY <1>2, <2>1, Put
<1> QED BY <1>2, <1>3, Removed

LEMMA CallsKeep ==
    ASSUME AInv, Awake!History, NEW i \in DOMAIN calls,
           Awake!ReadSetting(i) \/ Awake!SetTrue(i) \/ Awake!SetFalse(i)
    PROVE  AInv'
<1>1. /\ UNCHANGED <<page, phase, copy, ctl, saves, setting, news, looked>>
      /\ calls' = [calls EXCEPT ![i].at = "read"] \/ calls' = Awake!RemoveAt(calls, i)
  BY DEF Awake!ReadSetting, Awake!SetTrue, Awake!SetFalse, Awake!renderer
<1>2. calls \in Seq(CallsOf(BOOLEAN))
  BY DEF AInv, AwakeTypes
<1>3. calls' \in Seq(CallsOf(BOOLEAN))
  BY <1>1, <1>2, CallHandled
<1>4. /\ calls \in Seq(CallsOf({FALSE})) => calls' \in Seq(CallsOf({FALSE}))
      /\ calls \in Seq(CallsOf({FALSE})) => ~calls[i].active
  <2> SUFFICES ASSUME calls \in Seq(CallsOf({FALSE}))
               PROVE  calls' \in Seq(CallsOf({FALSE})) /\ ~calls[i].active
    OBVIOUS
  <2>1. calls' \in Seq(CallsOf({FALSE})) /\ calls[i].active \in {FALSE}
    BY <1>1, CallHandled
  <2> QED BY <2>1
<1>5. TimersTrue' /\ (Awake!Works' <=> Awake!Works)
  BY <1>1, RendererAlone
<1>6. left' \in 0 .. Lease /\ active' \in BOOLEAN
  <2>1. left \in 0 .. Lease /\ active \in BOOLEAN
    BY DEF AInv, AwakeTypes
  <2>2. \/ UNCHANGED <<active, left>>
        \/ active' = TRUE /\ left' = Lease
        \/ active' = FALSE /\ left' = 0
    BY DEF Awake!ReadSetting, Awake!SetTrue, Awake!SetFalse, Awake!lock, Awake!Renew,
           Awake!Deactivate
  <2>3. Lease \in 0 .. Lease /\ 0 \in 0 .. Lease
    BY Spans
  <2> QED BY <2>1, <2>2, <2>3
<1>7. AwakeTypes'
  BY <1>1, <1>3, <1>6, Histories DEF AInv, AwakeTypes
<1>8. Expires' /\ Unneeded'
  <2>1. CASE Awake!ReadSetting(i)
    <3>1. UNCHANGED <<active, left, looked>>
      BY <2>1 DEF Awake!ReadSetting, Awake!lock
    <3> QED BY <1>4, <3>1, LeaseAlone
  <2>2. CASE Awake!SetTrue(i)
    <3>1. calls[i].active /\ active' = TRUE /\ left' = Lease
      BY <2>2 DEF Awake!SetTrue, Awake!Renew
    <3>2. ~(unneeded > 0)
      BY <1>4, <3>1 DEF AInv, Unneeded
    <3>3. ~(unneeded' > 0)
      <4>1. ~(looked /\ ~looked')
        BY <1>1
      <4>2. unneeded' \in {0, unneeded}
        BY <4>1, Histories
      <4> QED BY <3>2, <4>2
    <3> QED BY <3>1, <3>3, Spans DEF Expires, Unneeded
  <2>3. CASE Awake!SetFalse(i)
    <3>1. active' = FALSE
      BY <2>3 DEF Awake!SetFalse, Awake!Deactivate
    <3>2. unneeded' > 0 => unneeded > 0 /\ ~Awake!Works'
      <4>1. ~(looked /\ ~looked')
        BY <1>1
      <4>2. unneeded' \in {0, unneeded} /\ (unneeded' > 0 => ~Awake!Works')
        BY <4>1, Histories
      <4> QED BY <4>2
    <3> QED BY <1>4, <3>1, <3>2 DEF AInv, Expires, Unneeded
  <2> QED BY <2>1, <2>2, <2>3
<1> QED BY <1>5, <1>7, <1>8 DEF AInv

LEMMA SettingsKeep ==
    ASSUME AInv, Awake!History,
           \/ Awake!CliSets
           \/ \E i \in DOMAIN saves : Awake!Save(i) \/ Awake!SaveFails(i) \/ Awake!SaveEnds(i)
    PROVE  AInv'
<1>1. UNCHANGED <<page, phase, copy, ctl, calls, looked>>
  BY DEF Awake!CliSets, Awake!Save, Awake!SaveFails, Awake!SaveEnds, Awake!renderer
<1>2. /\ saves \in Seq(SavesOf(BOOLEAN)) /\ news \in Seq(BOOLEAN) /\ setting \in BOOLEAN
      /\ calls \in Seq(CallsOf(BOOLEAN)) /\ active \in BOOLEAN /\ left \in 0 .. Lease
  BY DEF AInv, AwakeTypes
<1>3. TimersTrue' /\ (Awake!Works' <=> Awake!Works)
  BY <1>1, RendererAlone
<1>4. ASSUME NEW on \in BOOLEAN, Awake!Saved(on)
      PROVE  setting' \in BOOLEAN /\ news' \in Seq(BOOLEAN)
  <2>1. setting' = on /\ (news' = Append(news, on) \/ news' = news)
    BY <1>4 DEF Awake!Saved
  <2>2. Append(news, on) \in Seq(BOOLEAN)
    BY <1>2, AppendProperties
  <2>3. setting' \in BOOLEAN
    BY <2>1
  <2>4. news' \in Seq(BOOLEAN)
    BY <1>2, <2>1, <2>2, Zenon
  <2> QED BY <2>3, <2>4
<1>5. CASE Awake!CliSets
  <2>1. Awake!Saved(~setting) /\ saves' = saves /\ UNCHANGED <<active, left>>
    BY <1>5 DEF Awake!CliSets, Awake!lock
  <2>2. setting' \in BOOLEAN /\ news' \in Seq(BOOLEAN)
    BY <1>2, <1>4, <2>1
  <2>3. AwakeTypes'
    BY <1>1, <2>1, <2>2, Histories DEF AInv, AwakeTypes
  <2> QED BY <1>1, <1>3, <2>1, <2>3, LeaseAlone DEF AInv
<1>6. ASSUME NEW i \in DOMAIN saves, Awake!Save(i) \/ Awake!SaveFails(i) \/ Awake!SaveEnds(i)
      PROVE  AInv'
  <2>1. \/ saves' = [saves EXCEPT ![i].at = "saved"]
        \/ saves' = Awake!RemoveAt(saves, i)
    BY <1>6 DEF Awake!Save, Awake!SaveFails, Awake!SaveEnds
  <2>2. saves' \in Seq(SavesOf(BOOLEAN)) /\ saves[i].on \in BOOLEAN
    BY <1>2, <2>1, SaveHandled
  <2>3. setting' \in BOOLEAN /\ news' \in Seq(BOOLEAN)
    BY <1>2, <1>4, <1>6, <2>2 DEF Awake!Save, Awake!SaveFails, Awake!SaveEnds
  <2>4. \/ UNCHANGED <<active, left>>
        \/ active' = FALSE /\ left' = 0
    BY <1>6 DEF Awake!Save, Awake!SaveFails, Awake!SaveEnds, Awake!lock, Awake!Deactivate
  <2>5. AwakeTypes'
    <3>a. 0 \in 0 .. Lease /\ FALSE \in BOOLEAN
      BY Spans
    <3>1. active' \in BOOLEAN /\ left' \in 0 .. Lease
      BY <1>2, <2>4, <3>a, Zenon
    <3>2. unneeded' \in Nat /\ needed' \in Nat
      BY Histories
    <3> QED BY <1>1, <2>2, <2>3, <3>1, <3>2 DEF AInv, AwakeTypes
  <2>6. Expires' /\ Unneeded'
    <3>1. CASE UNCHANGED <<active, left>>
      BY <1>1, <3>1, LeaseAlone
    <3>2. CASE active' = FALSE
      <4>1. ~(looked /\ ~looked')
        BY <1>1
      <4>2. unneeded' \in {0, unneeded} /\ (unneeded' > 0 => ~Awake!Works')
        BY <4>1, Histories
      <4> QED BY <1>1, <3>2, <4>2 DEF AInv, Expires, Unneeded
    <3> QED BY <2>4, <3>1, <3>2
  <2> QED BY <1>3, <2>5, <2>6 DEF AInv
<1> QED BY <1>5, <1>6

LEMMA LookKeeps == ASSUME AInv, Awake!History, Awake!Look PROVE AInv'
<1>1. /\ UNCHANGED <<page, phase, copy, ctl, calls, saves, setting, news>>
      /\ ~looked /\ looked' = TRUE
      /\ IF active /\ left = 0 THEN active' = FALSE /\ left' = 0 ELSE UNCHANGED <<active, left>>
  BY DEF Awake!Look, Awake!renderer, Awake!lock, Awake!Deactivate
<1>2. TimersTrue'
  BY <1>1, RendererAlone
<1>3. unneeded' \in {0, unneeded} /\ (unneeded' > 0 => ~Awake!Works')
  BY <1>1, Histories
<1>4. left' \in 0 .. Lease /\ active' \in BOOLEAN /\ (active' => active /\ left' = left /\ left # 0)
  BY <1>1, Spans DEF AInv, AwakeTypes
<1>5. AwakeTypes'
  BY <1>1, <1>4, Histories DEF AInv, AwakeTypes
<1>6. Expires'
  BY <1>4, Spans DEF Expires
<1>7. Unneeded'
  <2>1. unneeded' > 0 => unneeded' = unneeded /\ unneeded > 0
    BY <1>3
  <2> QED BY <1>1, <1>3, <1>4, <2>1 DEF AInv, Unneeded
<1> QED BY <1>2, <1>5, <1>6, <1>7 DEF AInv

\* Half a minute: the timers and the lease are nearer to their end.
LEMMA PassTimes ==
    ASSUME AInv, Awake!Pass
    PROVE  /\ UNCHANGED <<page, phase, copy, calls, saves, setting, news, active>>
           /\ looked /\ looked' = FALSE /\ calls = <<>> /\ saves = <<>>
           /\ ctl' \in Timers /\ ctl'.held = ctl.held
           /\ ctl.renew # Awake!Off => ctl'.renew # Awake!Off /\ ctl'.renew <= ctl.renew
           /\ ctl.renew = Awake!Off => ctl'.renew = Awake!Off
           /\ ctl.release = Awake!Off => ctl'.release = Awake!Off
           /\ page = "up" /\ ctl.renew # Awake!Off => ctl'.renew = ctl.renew - 1
           /\ left' \in Nat /\ left' <= left /\ (left > 0 => left' = left - 1)
<1>1. /\ UNCHANGED <<page, phase, copy, calls, saves, setting, news, active>>
      /\ looked /\ looked' = FALSE /\ calls = <<>> /\ saves = <<>> /\ ~Awake!RendererDue
      /\ ctl' = [ctl EXCEPT !.release = Awake!Less(ctl.release), !.renew = Awake!Less(ctl.renew)]
      /\ left' = IF left = 0 THEN 0 ELSE left - 1
  BY DEF Awake!Pass
<1>2. /\ ctl \in Timers /\ ctl.release \in 0 .. Awake!Off /\ ctl.renew \in 0 .. Awake!Off
      /\ Awake!Off \in Nat /\ left \in Nat
  BY Typed, Spans DEF Timers
<1>3. \A n \in 0 .. Awake!Off :
         /\ Awake!Less(n) \in 0 .. Awake!Off /\ Awake!Less(n) <= n
         /\ n = Awake!Off => Awake!Less(n) = n
         /\ n # Awake!Off => Awake!Less(n) # Awake!Off
         /\ n # Awake!Off /\ n # 0 => Awake!Less(n) = n - 1
  BY <1>2 DEF Awake!Less
<1>4. PICK r, q : r = Awake!Less(ctl.release) /\ q = Awake!Less(ctl.renew)
  OBVIOUS
<1>5. ctl' = [ctl EXCEPT !.release = r, !.renew = q] /\ r \in 0 .. Awake!Off /\ q \in 0 .. Awake!Off
  BY <1>1, <1>2, <1>3, <1>4
<1>6. /\ ctl' \in Timers /\ ctl'.held = ctl.held /\ ctl'.release = r /\ ctl'.renew = q
  BY <1>2, <1>5 DEF Timers
<1>7. page = "up" => ctl.renew # 0
  BY <1>1 DEF Awake!RendererDue
<1>8. /\ ctl.renew # Awake!Off => q # Awake!Off /\ q <= ctl.renew
      /\ ctl.renew = Awake!Off => q = Awake!Off
      /\ ctl.release = Awake!Off => r = Awake!Off
      /\ page = "up" /\ ctl.renew # Awake!Off => q = ctl.renew - 1
  BY <1>2, <1>3, <1>4, <1>7
<1>9. left' \in Nat /\ left' <= left /\ (left > 0 => left' = left - 1)
  BY <1>1, <1>2
<1> QED BY <1>1, <1>6, <1>8, <1>9

LEMMA PassKeeps == ASSUME AInv, Awake!History, Awake!Pass PROVE AInv'
<1>1. /\ UNCHANGED <<page, phase, copy, calls, saves, setting, news, active>>
      /\ looked /\ looked' = FALSE /\ calls = <<>>
      /\ ctl' \in Timers /\ ctl'.held = ctl.held
      /\ ctl.renew # Awake!Off => ctl'.renew # Awake!Off /\ ctl'.renew <= ctl.renew
      /\ ctl.renew = Awake!Off => ctl'.renew = Awake!Off
      /\ ctl.release = Awake!Off => ctl'.release = Awake!Off
      /\ left' \in Nat /\ left' <= left /\ (left > 0 => left' = left - 1)
  BY PassTimes
<1>2. /\ left \in Nat /\ left <= Lease /\ Lease \in Nat /\ unneeded \in Nat
      /\ ctl.renew \in Nat /\ ctl'.renew \in Nat /\ Span \in Nat
  BY <1>1, Typed, Spans DEF Timers
<1>3. Awake!Works' <=> Awake!Works
  BY <1>1 DEF Awake!Works
<1>4. TimersTrue'
  <2>1. ctl.renew # Awake!Off => ctl.renew <= Span
    BY DEF AInv, TimersTrue
  <2>2. ctl'.renew # Awake!Off => ctl'.renew <= Span
    BY <1>1, <1>2, <2>1
  <2>3. /\ ~ctl.held => ctl.renew = Awake!Off
        /\ ctl.release # Awake!Off => ctl.renew = Awake!Off
        /\ page = "up" => (Awake!Works <=> ctl.renew # Awake!Off)
    BY DEF AInv, TimersTrue
  <2> QED BY <1>1, <1>3, <2>2, <2>3 DEF TimersTrue
<1>5. left' \in 0 .. Lease
  BY <1>1, <1>2
<1>6. AwakeTypes'
  BY <1>1, <1>5, Histories DEF AInv, AwakeTypes
<1>7. Unneeded'
  <2> SUFFICES ASSUME unneeded' > 0
               PROVE  /\ ~Awake!Works' /\ calls' \in Seq(CallsOf({FALSE}))
                      /\ active' => left' + unneeded' <= Lease
    BY DEF Unneeded
  <2>1. unneeded' \in Nat /\ unneeded' <= unneeded + 1 /\ ~Awake!Works'
    BY Histories
  <2>2. calls' \in Seq(CallsOf({FALSE}))
    BY <1>1
  <2>3. ASSUME active PROVE left' + unneeded' <= Lease
    <3>1. left > 0 /\ left' = left - 1
      BY <1>1, <2>3 DEF AInv, Expires
    <3>2. left + unneeded <= Lease
      BY <1>2, <2>3 DEF AInv, Unneeded
    <3>a. left \in Nat /\ unneeded \in Nat /\ unneeded' \in Nat
      BY <1>2, <2>1
    <3>b. unneeded' <= unneeded + 1 /\ left' = left - 1
      BY <2>1, <3>1, Zenon
    <3>c. PICK n \in Nat : n = unneeded'
      BY <3>a
    <3>3. left' + unneeded' <= (left - 1) + (unneeded + 1)
      <4>1. n <= unneeded + 1 /\ left' + n = left - 1 + n
        BY <3>a, <3>b, <3>c
      <4> QED BY <3>a, <3>c, <4>1
    <3>4. (left - 1) + (unneeded + 1) = left + unneeded
      BY <1>2
    <3>5. left' + unneeded' \in Int /\ left + unneeded \in Int
      BY <1>1, <1>2, <2>1
    <3> QED BY <1>2, <3>2, <3>3, <3>4, <3>5
  <2> QED BY <1>1, <2>1, <2>2, <2>3
<1> QED BY <1>1, <1>4, <1>6, <1>7 DEF AInv, Expires

LEMMA AInit == Awake!Init => AInv
<1> SUFFICES ASSUME Awake!Init PROVE AInv
  OBVIOUS
<1>1. /\ page = "up" /\ phase = [a \in Agents |-> "idle"] /\ setting \in BOOLEAN /\ copy = setting
      /\ ctl = Awake!Idle /\ calls = <<>> /\ saves = <<>> /\ news = <<>>
      /\ active = FALSE /\ left = 0 /\ looked = FALSE /\ unneeded = 0 /\ needed = 0
  BY DEF Awake!Init
<1>2. Awake!Off \in 0 .. Awake!Off /\ 0 \in 0 .. Lease
  BY Spans
<1>3. ctl \in Timers /\ ctl.held = FALSE /\ ctl.renew = Awake!Off /\ ctl.release = Awake!Off
  BY <1>1, <1>2 DEF Timers, Awake!Idle
<1>4. ~Awake!Works
  BY <1>1 DEF Awake!Works, Awake!AnyWorking
<1>5. AwakeTypes
  <2>1. /\ <<>> \in Seq(CallsOf(BOOLEAN)) /\ <<>> \in Seq(SavesOf(BOOLEAN))
        /\ <<>> \in Seq(BOOLEAN)
    OBVIOUS
  <2>2. copy \in BOOLEAN /\ active \in BOOLEAN /\ looked \in BOOLEAN
    BY <1>1
  <2> QED BY <1>1, <1>2, <1>3, <2>1, <2>2 DEF AwakeTypes
<1> QED BY <1>1, <1>3, <1>4, <1>5 DEF AInv, TimersTrue, Expires, Unneeded

LEMMA ANext == AInv /\ [Awake!Next]_(Awake!vars) => AInv'
<1> SUFFICES ASSUME AInv, [Awake!Next]_(Awake!vars) PROVE AInv'
  OBVIOUS
<1>1. CASE UNCHANGED Awake!vars
  <2>1. UNCHANGED <<page, phase, copy, ctl, calls, saves, setting, news, active, left, looked,
                    unneeded, needed>>
    BY <1>1 DEF Awake!vars, Awake!renderer, Awake!lock
  <2> QED BY <2>1, RendererAlone DEF AInv, AwakeTypes, Expires, Unneeded
<1>2. CASE Awake!Next
  BY <1>2, Turns, RendererTimers, PageGoes, CallsKeep, SettingsKeep, LookKeeps, PassKeeps
     DEF Awake!Next, Kinds
<1> QED BY <1>1, <1>2

\* An expired lease is let go: nobody has worked for no longer than it lasts.
LEMMA Lets == AInv => Awake!LetGo
<1> SUFFICES ASSUME AInv, active PROVE unneeded <= Lease
  BY DEF Awake!LetGo
<1>1. unneeded \in Nat /\ left \in Nat /\ Lease \in Nat
  BY Typed, Spans
<1>2. unneeded > 0 => left + unneeded <= Lease
  BY DEF AInv, Unneeded
<1> QED BY <1>1, <1>2

-----------------------------------------------------------------------------
(* The lock is held while somebody works                                    *)

Lasts == Lease > Span

\* A step in which nothing that could release the lock comes to be.
LEMMA SteadyStays ==
    ASSUME AInv, Awake!History, Steady, ~(looked /\ ~looked'),
           needed' > 0 => /\ calls \in Seq(CallsOf({TRUE})) => calls' \in Seq(CallsOf({TRUE}))
                          /\ saves \in Seq(SavesOf({TRUE})) => saves' \in Seq(SavesOf({TRUE}))
    PROVE  Steady' /\ (needed' > 0 => needed' = needed /\ needed > 0)
<1>1. /\ needed' \in {0, needed} /\ needed \in Nat
      /\ needed' > 0 => Awake!Works' /\ setting'
  BY Histories, Typed
<1>2. needed' > 0 => needed' = needed /\ needed > 0
  BY <1>1
<1> QED BY <1>1, <1>2 DEF Steady

\* While somebody works the timers run and the page is up.
LEMMA WorkingTimers ==
    ASSUME AInv, Awake!Works
    PROVE  /\ ctl.held /\ ctl.renew # Awake!Off /\ ctl.renew <= Span
           /\ ctl.release = Awake!Off /\ page = "up" /\ copy
BY DEF AInv, TimersTrue, Awake!Works

\* A step that says nothing and leaves the lock and the renewal timer alone.
LEMMA CoverStays ==
    ASSUME AInv, Awake!History, KInv, UNCHANGED <<active, left, looked>>,
           needed' > 0 => /\ ctl'.renew = ctl.renew
                          /\ calls # <<>> => calls' # <<>>
                          /\ calls \in Seq(CallsOf({TRUE})) => calls' \in Seq(CallsOf({TRUE}))
                          /\ saves \in Seq(SavesOf({TRUE})) => saves' \in Seq(SavesOf({TRUE}))
    PROVE  KInv'
<1>1. ~(looked /\ ~looked')
  BY DEF AInv, AwakeTypes
<1>2. Steady' /\ (needed' > 0 => needed' = needed /\ needed > 0)
  BY <1>1, SteadyStays DEF KInv
<1> QED BY <1>2 DEF KInv, Covered, Renewed, Renewing

LEMMA TurnCovered ==
    ASSUME AInv, Awake!History, KInv, NEW e \in BOOLEAN, NEW w \in BOOLEAN,
           Awake!Works' => e /\ w, Awake!Update(e, w),
           needed' > 0 => saves' = saves, UNCHANGED <<active, left, looked>>
    PROVE  KInv'
<1>1. needed' > 0 => Awake!Works /\ Awake!Works'
  BY Histories
<1>2. needed' > 0 => ctl'.renew = ctl.renew /\ calls' = calls
  BY <1>1, WorkingTimers, Updates
<1> QED BY <1>2, CoverStays

LEMMA TurnsCovered ==
    ASSUME AInv, Awake!History, KInv,
           Awake!Toggle \/ Awake!Receive \/ \E a \in Agents, k \in Kinds : Awake!Event(a, k)
    PROVE  KInv'
<1>1. page = "up" /\ page' = page /\ UNCHANGED <<active, left, looked>>
  BY DEF Awake!Toggle, Awake!Receive, Awake!Event, Awake!lock
<1>2. PICK w \in BOOLEAN : w <=> Awake!AnyWorking(phase')
  OBVIOUS
<1>3. copy \in BOOLEAN /\ news \in Seq(BOOLEAN)
  BY DEF AInv, AwakeTypes
<1>4. CASE Awake!Toggle
  <2>1. /\ copy' = ~copy /\ phase' = phase /\ Awake!Update(~copy, Awake!AnyWorking(phase))
    BY <1>4 DEF Awake!Toggle
  <2>2. PICK e \in BOOLEAN : e = ~copy
    OBVIOUS
  <2>3. Awake!Update(e, w) /\ (Awake!Works' => e /\ w)
    BY <1>2, <2>1, <2>2 DEF Awake!Update, Awake!Works
  <2>4. ~(needed' > 0)
    <3>1. ~(Awake!Works /\ Awake!Works')
      BY <2>1 DEF Awake!Works
    <3> QED BY <3>1, Histories
  <2> QED BY <1>1, <2>3, <2>4, TurnCovered
<1>5. CASE Awake!Receive
  <2>1. /\ news # <<>> /\ copy' = Head(news) /\ phase' = phase /\ saves' = saves
        /\ Awake!Update(copy', Awake!AnyWorking(phase))
    BY <1>5 DEF Awake!Receive
  <2>2. PICK e \in BOOLEAN : e = copy'
    BY <1>3, <2>1, HeadTailProperties
  <2>3. Awake!Update(e, w) /\ (Awake!Works' => e /\ w)
    BY <1>2, <2>1, <2>2 DEF Awake!Update, Awake!Works
  <2> QED BY <1>1, <2>1, <2>3, TurnCovered
<1>6. CASE \E a \in Agents, k \in Kinds : Awake!Event(a, k)
  <2>1. copy' = copy /\ saves' = saves /\ Awake!Update(copy, Awake!AnyWorking(phase'))
    BY <1>6 DEF Awake!Event
  <2>2. PICK e \in BOOLEAN : e = copy
    BY <1>3
  <2>3. Awake!Update(e, w) /\ (Awake!Works' => e /\ w)
    BY <1>2, <2>1, <2>2 DEF Awake!Update, Awake!Works
  <2> QED BY <1>1, <2>1, <2>3, TurnCovered
<1> QED BY <1>4, <1>5, <1>6

\* A renewal is sent: the last one is still enough until it is handled.
LEMMA RenewCovered ==
    ASSUME Lasts, AInv, Awake!History, KInv, Awake!RenewTimer
    PROVE  KInv'
<1>1. /\ ctl.renew <= Late /\ ctl' = [ctl EXCEPT !.renew = Span]
      /\ calls' = Append(calls, [active |-> TRUE, at |-> "sent"])
      /\ UNCHANGED <<saves, active, left, looked>>
  BY DEF Awake!RenewTimer, Span, Awake!lock
<1>2. ctl'.renew = Span
  BY <1>1, Typed DEF Timers
<1>3. [active |-> TRUE, at |-> "sent"] \in CallsOf({TRUE})
  BY DEF CallsOf
<1>4. calls \in Seq(CallsOf({TRUE})) => calls' \in Seq(CallsOf({TRUE}))
  BY <1>1, <1>3, AppendProperties
<1>5. calls \in Seq(CallsOf(BOOLEAN)) /\ [active |-> TRUE, at |-> "sent"] \in CallsOf(BOOLEAN)
  BY DEF AInv, AwakeTypes, CallsOf
<1>6. calls' # <<>>
  <2>1. Len(calls') = Len(calls) + 1 /\ Len(calls) \in Nat
    BY <1>1, <1>5, AppendProperties, LenProperties
  <2> QED BY <2>1
<1>7. ~(looked /\ ~looked')
  BY <1>1 DEF AInv, AwakeTypes
<1>8. Steady' /\ (needed' > 0 => needed' = needed /\ needed > 0)
  BY <1>1, <1>4, <1>7, SteadyStays DEF KInv
<1>9. ASSUME needed' > 0, needed' > Span PROVE active /\ left > 0
  <2>1. needed = needed' /\ needed > 0 /\ Awake!Works
    BY <1>8, <1>9 DEF KInv, Steady
  <2>2. ctl.renew \in Nat /\ left \in Nat /\ Span \in Nat /\ Lease \in Nat /\ needed \in Nat
    BY Typed, Spans
  <2>3. needed + ctl.renew > Span
    BY <1>9, <2>1, <2>2
  <2>4. Renewed \/ Renewing
    BY <2>1, <2>3 DEF KInv, Covered
  <2>5. Renewed => active /\ left > 0
    BY <2>2 DEF Renewed, Lasts
  <2>6. Renewing => active /\ left > 0
    BY <1>9, <2>1 DEF Renewing
  <2> QED BY <2>4, <2>5, <2>6
<1>10. Covered'
  <2> SUFFICES ASSUME needed' > 0 PROVE Renewing'
    BY DEF Covered
  <2>1. needed' > Span => active' /\ left' > 0
    BY <1>1, <1>9
  <2> QED BY <1>2, <1>6, <2>1 DEF Renewing
<1> QED BY <1>8, <1>10 DEF KInv

\* What ends the work.
LEMMA EndsCovered ==
    ASSUME AInv, Awake!History, KInv,
           Awake!ReleaseTimer \/ Awake!Hang \/ Awake!Reload \/ Awake!CliSets
    PROVE  KInv'
<1>1. ~(looked /\ ~looked') /\ needed' \in {0, needed}
  <2>1. looked' = looked
    BY DEF Awake!ReleaseTimer, Awake!Hang, Awake!Reload, Awake!CliSets
  <2>2. ~(looked /\ ~looked')
    BY <2>1
  <2> QED BY <2>2, Histories
<1>2. CASE Awake!ReleaseTimer
  <2>1. ctl.release # Awake!Off
    <3>1. ctl.release <= Late
      BY <1>2 DEF Awake!ReleaseTimer
    <3> QED BY <3>1, Typed, Spans
  <2>2. ~(needed' > 0)
    BY <2>1, WorkingTimers, Histories
  <2> QED BY <2>2 DEF KInv, Steady, Covered
<1>3. CASE Awake!Hang \/ Awake!Reload
  <2>1. ~Awake!Works'
    BY <1>3 DEF Awake!Hang, Awake!Reload, Awake!Works, Awake!AnyWorking
  <2>2. ~(needed' > 0)
    BY <2>1, Histories
  <2> QED BY <2>2 DEF KInv, Steady, Covered
<1>4. CASE Awake!CliSets
  <2>1. ~(setting /\ setting')
    BY <1>4 DEF Awake!CliSets, Awake!Saved
  <2>2. ~(needed' > 0)
    BY <2>1, Histories
  <2> QED BY <2>2 DEF KInv, Steady, Covered
<1> QED BY <1>2, <1>3, <1>4

LEMMA CallsCovered ==
    ASSUME AInv, Awake!History, KInv, NEW i \in DOMAIN calls,
           Awake!ReadSetting(i) \/ Awake!SetTrue(i) \/ Awake!SetFalse(i)
    PROVE  KInv'
<1>1. /\ UNCHANGED <<ctl, saves, setting, looked>>
      /\ calls' = [calls EXCEPT ![i].at = "read"] \/ calls' = Awake!RemoveAt(calls, i)
  BY DEF Awake!ReadSetting, Awake!SetTrue, Awake!SetFalse, Awake!renderer
<1>2. ASSUME calls \in Seq(CallsOf({TRUE}))
      PROVE  calls' \in Seq(CallsOf({TRUE})) /\ calls[i].active \in {TRUE}
  BY <1>1, <1>2, CallHandled
<1>3. ~(looked /\ ~looked')
  BY <1>1 DEF AInv, AwakeTypes
<1>4. Steady' /\ (needed' > 0 => needed' = needed /\ needed > 0)
  BY <1>1, <1>2, <1>3, SteadyStays DEF KInv
<1>5. CASE Awake!ReadSetting(i)
  <2>1. needed' > 0 => setting
    BY <1>4 DEF KInv, Steady
  <2>2. needed' > 0 => calls' = [calls EXCEPT ![i].at = "read"]
    BY <1>5, <2>1 DEF Awake!ReadSetting
  <2>3. calls \in Seq(CallsOf(BOOLEAN)) /\ calls[i] \in CallsOf(BOOLEAN)
    BY LenProperties DEF AInv, AwakeTypes
  <2>4. needed' > 0 => calls' # <<>>
    <3> SUFFICES ASSUME needed' > 0 PROVE calls' # <<>>
      OBVIOUS
    <3>1. DOMAIN calls' = DOMAIN calls
      BY <2>2
    <3>2. DOMAIN calls' # {}
      BY <3>1
    <3> QED BY <3>2
  <2>5. UNCHANGED <<active, left>>
    BY <1>5 DEF Awake!ReadSetting, Awake!lock
  <2> QED BY <1>1, <1>2, <2>4, <2>5, CoverStays
<1>6. CASE Awake!SetTrue(i)
  <2>1. active' = TRUE /\ left' = Lease
    BY <1>6 DEF Awake!SetTrue, Awake!Renew
  <2>2. needed' > 0 => ctl.renew <= Span
    BY <1>4, WorkingTimers DEF KInv, Steady
  <2>3. needed' > 0 => Renewed'
    BY <1>1, <2>1, <2>2, Typed, Spans DEF Renewed
  <2> QED BY <1>4, <2>3 DEF KInv, Covered
<1>7. CASE Awake!SetFalse(i)
  <2>1. ~(needed' > 0)
    <3>1. ~calls[i].active
      BY <1>7 DEF Awake!SetFalse
    <3> QED BY <1>2, <1>4, <3>1 DEF KInv, Steady
  <2> QED BY <2>1 DEF KInv, Steady, Covered
<1> QED BY <1>5, <1>6, <1>7

LEMMA SavesCovered ==
    ASSUME AInv, Awake!History, KInv, NEW i \in DOMAIN saves,
           Awake!Save(i) \/ Awake!SaveFails(i) \/ Awake!SaveEnds(i)
    PROVE  KInv'
<1>1. /\ UNCHANGED <<ctl, calls, looked>>
      /\ saves' = [saves EXCEPT ![i].at = "saved"] \/ saves' = Awake!RemoveAt(saves, i)
  BY DEF Awake!Save, Awake!SaveFails, Awake!SaveEnds, Awake!renderer
<1>2. ASSUME saves \in Seq(SavesOf({TRUE}))
      PROVE  saves' \in Seq(SavesOf({TRUE})) /\ saves[i].on \in {TRUE}
  BY <1>1, <1>2, SaveHandled
<1>3. ~(looked /\ ~looked')
  BY <1>1 DEF AInv, AwakeTypes
<1>4. Steady' /\ (needed' > 0 => needed' = needed /\ needed > 0)
  BY <1>1, <1>2, <1>3, SteadyStays DEF KInv
<1>5. CASE Awake!Save(i) \/ Awake!SaveFails(i)
  <2>1. UNCHANGED <<active, left>>
    BY <1>5 DEF Awake!Save, Awake!SaveFails, Awake!lock
  <2> QED BY <1>1, <1>2, <2>1, CoverStays
<1>6. CASE Awake!SaveEnds(i)
  <2>1. CASE saves[i].on
    <3>1. UNCHANGED <<active, left>>
      BY <1>6, <2>1 DEF Awake!SaveEnds, Awake!lock
    <3> QED BY <1>1, <1>2, <3>1, CoverStays
  <2>2. CASE ~saves[i].on
    <3>1. ~(needed' > 0)
      BY <1>2, <1>4, <2>2 DEF KInv, Steady
    <3> QED BY <3>1 DEF KInv, Steady, Covered
  <2> QED BY <2>1, <2>2
<1> QED BY <1>5, <1>6

\* The task finds the lease of a lock that was renewed not expired.
LEMMA LookCovered ==
    ASSUME Lasts, AInv, Awake!History, KInv, Awake!Look
    PROVE  KInv'
<1>1. /\ UNCHANGED <<ctl, calls, saves, setting>> /\ ~looked /\ looked' = TRUE
      /\ IF active /\ left = 0 THEN active' = FALSE /\ left' = 0 ELSE UNCHANGED <<active, left>>
      /\ page = "up" => ctl.renew # 0
  BY DEF Awake!Look, Awake!renderer, Awake!lock, Awake!Deactivate, Awake!RendererDue
<1>2. Steady' /\ (needed' > 0 => needed' = needed /\ needed > 0)
  BY <1>1, SteadyStays DEF KInv
<1>3. Covered'
  <2> SUFFICES ASSUME needed' > 0, needed' + ctl'.renew > Span PROVE Renewed' \/ Renewing'
    BY DEF Covered
  <2>1. needed' = needed /\ needed > 0 /\ Awake!Works /\ page = "up"
    BY <1>2, WorkingTimers DEF KInv, Steady
  <2>2. Renewed \/ Renewing
    BY <1>1, <2>1 DEF KInv, Covered
  <2>3. ctl.renew \in Nat /\ left \in Nat /\ Span \in Nat /\ Lease \in Nat
    BY Typed, Spans
  <2>4. CASE Renewed
    <3>1. active /\ left + Span >= Lease + ctl.renew /\ left > 0
      BY <2>3, <2>4 DEF Renewed, Lasts
    <3>a. left # 0
      BY <2>3, <3>1
    <3>2. active' = active /\ left' = left
      BY <1>1, <3>a, Zenon
    <3> QED BY <1>1, <3>1, <3>2 DEF Renewed
  <2>5. CASE Renewing
    <3>1. /\ ctl.renew = Span /\ calls # <<>> /\ (needed > Span => active /\ left > 0)
      BY <2>5 DEF Renewing
    <3>a. left > 0 => left # 0
      BY <2>3
    <3>2. needed > Span => active' = active /\ left' = left
      BY <1>1, <3>1, <3>a, Zenon
    <3> QED BY <1>1, <2>1, <3>1, <3>2 DEF Renewing
  <2> QED BY <2>2, <2>4, <2>5
<1> QED BY <1>2, <1>3 DEF KInv

LEMMA PassCovered ==
    ASSUME Lasts, AInv, Awake!History, KInv, Awake!Pass
    PROVE  KInv'
<1>1. /\ UNCHANGED <<calls, saves, active>> /\ calls = <<>> /\ saves = <<>>
      /\ ctl' \in Timers
      /\ page = "up" /\ ctl.renew # Awake!Off => ctl'.renew = ctl.renew - 1
      /\ left' \in Nat /\ left' <= left /\ (left > 0 => left' = left - 1)
  BY PassTimes
<1>2. needed' \in Nat /\ needed' <= needed + 1 /\ needed \in Nat
  BY Histories, Typed
<1>3. needed' > 0 => /\ Awake!Works /\ setting /\ Awake!Works' /\ setting'
  BY Histories
<1>4. Steady'
  BY <1>1, <1>3 DEF Steady
<1>5. Covered'
  <2> SUFFICES ASSUME needed' > 0, needed' + ctl'.renew > Span PROVE Renewed'
    BY DEF Covered
  <2>1. ctl'.renew = ctl.renew - 1 /\ ctl.renew <= Span
    BY <1>1, <1>3, WorkingTimers
  <2>2. ctl.renew \in Nat /\ left \in Nat /\ Span \in Nat /\ Lease \in Nat
    BY Typed, Spans
  <2>3. needed + ctl.renew > Span
    BY <1>2, <2>1, <2>2
  <2>4. needed > 0
    BY <1>2, <2>1, <2>2, <2>3
  <2>5. Renewed
    BY <1>1, <2>3, <2>4 DEF KInv, Covered, Renewing
  <2>6. active /\ left + Span >= Lease + ctl.renew /\ left > 0
    BY <2>2, <2>5 DEF Renewed, Lasts
  <2>7. left' = left - 1
    BY <1>1, <2>6
  <2> QED BY <1>1, <2>1, <2>2, <2>6, <2>7 DEF Renewed
<1> QED BY <1>4, <1>5 DEF KInv

LEMMA KNext == Lasts /\ AInv /\ KInv /\ [Awake!Next]_(Awake!vars) => KInv'
<1> SUFFICES ASSUME Lasts, AInv, KInv, [Awake!Next]_(Awake!vars) PROVE KInv'
  OBVIOUS
<1>1. CASE UNCHANGED Awake!vars
  <2>1. UNCHANGED <<page, phase, copy, ctl, calls, saves, setting, active, left, needed>>
    BY <1>1 DEF Awake!vars, Awake!renderer, Awake!lock
  <2> QED BY <2>1, RendererAlone DEF KInv, Steady, Covered, Renewed, Renewing
<1>2. CASE Awake!Next
  BY <1>2, TurnsCovered, RenewCovered, EndsCovered, CallsCovered, SavesCovered, LookCovered,
     PassCovered
     DEF Awake!Next, Kinds
<1> QED BY <1>1, <1>2

LEMMA StaysAwake == AInv /\ KInv => Awake!KeptAwake
<1> SUFFICES ASSUME AInv, KInv, needed > Span PROVE active
  BY DEF Awake!KeptAwake, Span
<1>1. needed \in Nat /\ Span \in Nat /\ ctl.renew \in Nat
  BY Typed, Spans
<1>2. needed > 0 /\ needed + ctl.renew > Span
  BY <1>1
<1> QED BY <1>2 DEF KInv, Covered, Renewed, Renewing

-----------------------------------------------------------------------------
(* The composition                                                          *)

LEMMA AwakeSteps == [MCNext]_allVars => [Awake!Next]_(Awake!vars)
  BY DEF MCNext, allVars, awake, Awake!vars, Awake!renderer, Awake!lock

LEMMA AwakeInvariant == MCSpec => []AInv
<1>1. MCInit => AInv
  BY AInit DEF MCInit
<1>2. AInv /\ [MCNext]_allVars => AInv'
  BY ANext, AwakeSteps
<1> QED BY <1>1, <1>2, PTL DEF MCSpec

\* Nobody's work keeps the machine awake for longer than a lease after it is over,
\* whatever of the renderer's calls, saves and pages is lost, late or fails (power.rs).
THEOREM LockIsLetGo == MCSpec => [](Awake!LetGo)
  BY AwakeInvariant, Lets, PTL

\* And while somebody works, with the setting on, the lock is held after one renewal
\* interval at the latest, in whatever order its calls are handled and however short the
\* pauses, if a lease outlasts the interval (keepAwake.ts; 180 s and 60 s in the code).
THEOREM KeptAwakeAsNeeded == Lease > RenewInterval + Late => (MCSpec => []AwakeAsNeeded)
<1> SUFFICES ASSUME Lease > RenewInterval + Late PROVE MCSpec => []AwakeAsNeeded
  OBVIOUS
<1>0. Lasts
  BY DEF Lasts, Span
<1>1. MCInit => KInv
  <2>1. Awake!Init => KInv
    BY DEF Awake!Init, KInv, Steady, Covered
  <2> QED BY <2>1 DEF MCInit
<1>2. AInv /\ KInv /\ [MCNext]_allVars => KInv'
  BY <1>0, KNext, AwakeSteps
<1>3. AInv /\ KInv => AwakeAsNeeded
  BY Lets, StaysAwake DEF AwakeAsNeeded
<1> QED BY <1>1, <1>2, <1>3, AwakeInvariant, PTL DEF MCSpec
=============================================================================
