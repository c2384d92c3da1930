----------------------------- MODULE HandoffStream -----------------------------
(***************************************************************************)
(* The output of one session while its terminal moves from the app to      *)
(* sessiond and back (session/handoff_v1.rs, session/poll_reader.rs,       *)
(* sessiond/daemon.rs).  The PTY's output is read by whoever runs a reader *)
(* on the master fd; each unit of output is numbered as it is produced.    *)
(* At quit the renderer serializes the terminal, then the app stops its    *)
(* reader and sends the fd; at boot the adopted terminal is replayed from  *)
(* that snapshot, the daemon's ring and what is read from then on.  The    *)
(* sink's backlog is not bounded here (256 chunks in the code).            *)
(***************************************************************************)
EXTENDS Naturals, Sequences

CONSTANTS
    Mounted,   \* values of `mounted` that may occur
    InTime,    \* within the 20 ms handoff_one sleeps the app's reader stops
               \* and the pump hands on what it had read
    RingCap,   \* RING_CAPACITY
    MaxOut,    \* bound: units of output
    MaxTrips   \* bound: handoffs

ConstantsFit ==
    /\ Mounted \subseteq BOOLEAN /\ Mounted # {} /\ InTime \in BOOLEAN
    /\ {RingCap, MaxOut, MaxTrips} \subseteq Nat /\ RingCap > 0

VARIABLES
    out,      \* units produced so far
    tty,      \* produced and not read: the kernel's buffer
    mounted,  \* the terminal has been opened: output reaches an xterm that the
              \* renderer serializes; otherwise it waits in the sink's backlog
    phase,    \* "up", "quitting", "stopping", "away" (sent), "down", "adopting"
    trips,    \* handoffs so far
    app,      \* the app's reader: "off", "poll", "ready" (poll has returned),
              \* "hand" (a unit was read and is not on the screen yet)
    halt,     \* its shutdown pipe was written
    screen,   \* what the app's xterm or backlog holds
    snap,     \* the snapshot sent along
    daemon,   \* the daemon's reader
    dhalt,    \* its shutdown pipe was written
    ring,     \* SessionEntry.ring
    hand,     \* reader -> the unit it holds
    edge,     \* history: length of the snapshot the screen was replayed from
    whole     \* history: no opened terminal was handed over, no full ring used

vars == <<out, tty, mounted, phase, trips, app, halt, screen, snap, daemon, dhalt,
          ring, hand, edge, whole>>
appside == <<mounted, phase, trips, app, halt, screen, snap, edge>>
daemonside == <<daemon, dhalt, ring, whole>>

Init ==
    /\ out = 0 /\ tty = <<>>
    /\ mounted \in Mounted
    /\ phase = "up" /\ trips = 0
    /\ app = "poll" /\ halt = FALSE
    /\ screen = <<>> /\ snap = <<>>
    /\ daemon = "off" /\ dhalt = FALSE /\ ring = <<>>
    /\ hand = [app |-> 0, daemon |-> 0]
    /\ edge = 0 /\ whole = TRUE

\* Seeded fault: off by one at the capacity.
NewestAndOne(s, n) == IF Len(s) <= n THEN s ELSE SubSeq(s, Len(s) - n, Len(s))

\* RingBuffer::push drops from the front what exceeds the capacity.
Newest(s, n) == IF Len(s) <= n THEN s ELSE SubSeq(s, Len(s) - n + 1, Len(s))

Produce ==
    /\ out < MaxOut
    /\ out' = out + 1
    /\ tty' = Append(tty, out + 1)
    /\ UNCHANGED <<appside, daemonside, hand>>

-----------------------------------------------------------------------------
\* PollReader in the app.  A shutdown is seen first, and only by poll.

AppPoll ==
    /\ app = "poll"
    /\ halt \/ tty # <<>>
    /\ app' = IF halt THEN "off" ELSE "ready"
    /\ UNCHANGED <<out, tty, mounted, phase, trips, halt, screen, snap, edge, daemonside, hand>>

AppRead ==
    /\ app = "ready" /\ tty # <<>>
    /\ hand' = [hand EXCEPT !.app = Head(tty)]
    /\ tty' = Tail(tty)
    /\ app' = "hand"
    /\ UNCHANGED <<out, mounted, phase, trips, halt, screen, snap, edge, daemonside>>

AppShow ==
    /\ app = "hand"
    /\ screen' = Append(screen, hand.app)
    /\ app' = "poll"
    /\ UNCHANGED <<out, tty, mounted, phase, trips, halt, snap, edge, daemonside, hand>>

\* PollReader in the daemon, and the ring.
DaemonPoll ==
    /\ daemon = "poll"
    /\ dhalt \/ tty # <<>>
    /\ daemon' = IF dhalt THEN "off" ELSE "ready"
    /\ UNCHANGED <<out, tty, appside, dhalt, ring, whole, hand>>

DaemonRead ==
    /\ daemon = "ready" /\ tty # <<>>
    /\ hand' = [hand EXCEPT !.daemon = Head(tty)]
    /\ tty' = Tail(tty)
    /\ daemon' = "hand"
    /\ UNCHANGED <<out, appside, dhalt, ring, whole>>

\* Seeded fault: a full ring refuses what is new.
DaemonKeepOld ==
    /\ daemon = "hand"
    /\ ring' = IF Len(ring) < RingCap THEN Append(ring, hand.daemon) ELSE ring
    /\ daemon' = "poll"
    /\ whole' = (whole /\ Len(ring) < RingCap)
    /\ UNCHANGED <<out, tty, appside, dhalt, hand>>

DaemonKeep ==
    /\ daemon = "hand"
    /\ ring' = Newest(Append(ring, hand.daemon), RingCap)
    /\ daemon' = "poll"
    /\ whole' = (whole /\ Len(ring) < RingCap)
    /\ UNCHANGED <<out, tty, appside, dhalt, hand>>

\* The terminal is opened: the backlog moves to an xterm.
Open ==
    /\ phase = "up" /\ ~mounted /\ TRUE \in Mounted
    /\ mounted' = TRUE
    /\ UNCHANGED <<out, tty, phase, trips, app, halt, screen, snap, edge, daemonside, hand>>

-----------------------------------------------------------------------------
\* Quitting.  The snapshots are made before handoff_all is called, which then
\* discards task chats, reaches or starts the daemon, and takes one session at
\* a time.

Quit ==
    /\ phase = "up" /\ trips < MaxTrips
    /\ phase' = "quitting" /\ trips' = trips + 1
    /\ snap' = IF mounted THEN screen ELSE <<>>
    /\ whole' = (whole /\ ~mounted)
    /\ UNCHANGED <<out, tty, mounted, app, halt, screen, edge, daemon, dhalt, ring, hand>>

Interrupt ==
    /\ phase = "quitting"
    /\ phase' = "stopping"
    /\ halt' = TRUE
    /\ UNCHANGED <<out, tty, mounted, trips, app, screen, snap, edge, daemonside, hand>>

\* Seeded fault: the fd is sent without waiting for the reader.
SendNow ==
    /\ phase = "stopping"
    /\ phase' = "away"
    /\ snap' = IF snap = <<>> /\ ~mounted THEN screen ELSE snap
    /\ daemon' = "poll" /\ dhalt' = FALSE /\ ring' = <<>>
    /\ UNCHANGED <<out, tty, mounted, trips, app, halt, screen, edge, whole, hand>>

\* The backlog stands in for an empty snapshot (an attached sink has none).
Send ==
    /\ phase = "stopping"
    /\ InTime => app = "off"
    /\ phase' = "away"
    /\ snap' = IF snap = <<>> /\ ~mounted THEN screen ELSE snap
    /\ daemon' = "poll" /\ dhalt' = FALSE /\ ring' = <<>>
    /\ UNCHANGED <<out, tty, mounted, trips, app, halt, screen, edge, whole, hand>>

AppExit ==
    /\ phase = "away"
    /\ phase' = "down"
    /\ app' = "off" /\ halt' = FALSE
    /\ screen' = <<>>
    /\ UNCHANGED <<out, tty, mounted, trips, snap, edge, daemonside, hand>>

-----------------------------------------------------------------------------
\* handle_adopt stops its reader and waits for it before it answers.

AdoptBegin ==
    /\ phase = "down"
    /\ phase' = "adopting"
    /\ dhalt' = TRUE
    /\ UNCHANGED <<out, tty, mounted, trips, app, halt, screen, snap, edge, daemon, ring, whole, hand>>

\* Seeded fault: the ring is copied before the reader has stopped.
AdoptUnjoined ==
    /\ phase = "adopting"
    /\ phase' = "up"
    /\ screen' = snap \o ring /\ edge' = Len(snap)
    /\ mounted' \in Mounted
    /\ app' = "poll"
    /\ daemon' = "off"
    /\ UNCHANGED <<out, tty, trips, halt, snap, dhalt, ring, whole, hand>>

\* The new app may or may not open the terminal.
Adopt ==
    /\ phase = "adopting" /\ daemon = "off"
    /\ phase' = "up"
    /\ screen' = snap \o ring /\ edge' = Len(snap)
    /\ mounted' \in Mounted
    /\ app' = "poll"
    /\ UNCHANGED <<out, tty, trips, halt, snap, daemonside, hand>>

Next ==
    \/ Produce
    \/ AppPoll \/ AppRead \/ AppShow \/ Open
    \/ DaemonPoll \/ DaemonRead \/ DaemonKeep
    \/ Quit \/ Interrupt \/ Send \/ AppExit
    \/ AdoptBegin \/ Adopt

Spec == Init /\ [][Next]_vars

-----------------------------------------------------------------------------
Readers == {"off", "poll", "ready", "hand"}
Units == 1 .. MaxOut

\* Types; the ring never exceeds its capacity.
TypeOK ==
    /\ out \in 0 .. MaxOut /\ trips \in 0 .. MaxTrips
    /\ phase \in {"up", "quitting", "stopping", "away", "down", "adopting"}
    /\ app \in Readers /\ daemon \in Readers
    /\ {mounted, halt, dhalt, whole} \subseteq BOOLEAN
    /\ \A s \in {tty, screen, snap, ring} : s \in Seq(Units)
    /\ hand \in [{"app", "daemon"} -> 0 .. MaxOut]
    /\ edge \in 0 .. MaxOut
    /\ Len(ring) <= RingCap

\* The app's and the daemon's reader never run at once: two readers of one fd
\* would split the output between them (poll_reader.rs, "no double reader").
OneReader == app = "off" \/ daemon = "off"

InHand == IF app = "hand" THEN <<hand.app>> ELSE <<>>
Counted(m, n) == [i \in 1 .. n - m + 1 |-> m + i - 1]

Everything == screen \o InHand \o tty = Counted(1, out)

\* Through any number of handoffs nothing of a terminal nobody opened is lost or
\* repeated and nothing changes place, unless a ring was too small: what an app
\* shows, has in hand and has yet to read is the whole output (handoff_one's
\* backlog fallback; poll_reader.rs).
NothingLost == phase = "up" /\ whole => Everything

\* The same of a terminal that was opened: the snapshot is sent along so that
\* what was on the screen before the end is there again (handoff_v1.rs).
ScreenKept == phase = "up" /\ Len(ring) < RingCap => Everything

\* After the snapshot an adopted terminal shows one uninterrupted run of output
\* that ends with the newest: a full ring drops its oldest part only, and
\* changing readers costs nothing.
TailContiguous ==
    phase = "up" =>
      LET tail == SubSeq(screen, edge + 1, Len(screen)) \o InHand \o tty
      IN  tail = Counted(out - Len(tail) + 1, out)
=============================================================================
