------------------------------ MODULE InjectGate ------------------------------
(***************************************************************************)
(* The input gate of one agent (src-tauri/src/session/inject.rs): people   *)
(* type into a terminal that automated producers also submit prompts to.   *)
(* A submission writes a body, sleeps 150 ms and writes a carriage return; *)
(* what a person types meanwhile is queued and written afterwards.         *)
(*                                                                         *)
(* The agent's gate has an async lock (one producer) and an inner mutex    *)
(* (everything else); a step is one critical section of the inner mutex.   *)
(* remove_agent replaces the gate while threads may hold the old one, so   *)
(* gates are numbered and every thread remembers the one it fetched.       *)
(***************************************************************************)
EXTENDS Naturals, Sequences, FiniteSets

CONSTANTS
    Sids,        \* sessions the agent may get, one after the other
    NoSid,
    Strict,      \* producers that call submit_strict (work send, follow-up)
    Plain,       \* producers that call submit
    NoOne,       \* the async lock is free
    MaxGates,    \* bound: gates the agent gets (remove_agent replaces one)
    MaxTyped,    \* bound: pieces of human input
    MaxBodies    \* bound: bodies written to one session

ASSUME GatesAssumption == MaxGates \in Nat /\ MaxGates > 0
ASSUME NamesAssumption == NoSid \notin Sids /\ NoOne \notin Strict \cup Plain
ASSUME KindsAssumption == Strict \cap Plain = {}
ASSUME BoundAssumption == MaxTyped \in Nat /\ MaxBodies \in Nat

Producers == Strict \cup Plain

Gates == 1 .. MaxGates

\* What one chunk of human input leaves on the input line: "open" text that is
\* not submitted, nothing ("close": Enter, or a Ctrl-C/U/Z that discards it), or
\* new open text after an Enter in the same chunk ("reopen").
Chunks == {"open", "close", "reopen"}

VARIABLES
    cur,       \* the agent's session in SessionManager
    opened,    \* sessions started so far (ids are never drawn twice)
    running,   \* cur is in state Running
    doomed,    \* its kill was requested: create will replace it
    wire,      \* what each session's PTY was sent
    current,   \* the gate in InjectGate.agents
    gate,      \* gate -> AgentGateInner and the async lock's owner
    typed,     \* pieces of input the person has typed so far
    typing,    \* the note_human call in progress
    step,      \* producer -> where it is
    claim,     \* producer -> session, gate, generation, revision it relies on,
               \* whether its submission succeeded, and (history) how much
               \* human input there was when it read the revision
    active,    \* the producer registered in WorkSendRuntime.active
    cancelled, \* producers whose cancel flag is set
    closing    \* dispose_session is about to call remove_agent

vars == <<cur, opened, running, doomed, wire, current, gate, typed, typing, step,
          claim, active, cancelled, closing>>

Human(n) == [by |-> "human", n |-> n]
Body(p)  == [by |-> "body", n |-> p]
Cr(p)    == [by |-> "cr", n |-> p]

NewGate == [lock |-> NoOne, uncommitted |-> FALSE, old |-> FALSE,
            generation |-> 0, revision |-> 0, held |-> FALSE,
            queueing |-> FALSE, queue |-> <<>>]
NoClaim == [sid |-> NoSid, gate |-> 1, generation |-> 0, revision |-> 0,
            ok |-> FALSE, seen |-> 0]

Init ==
    /\ cur = NoSid /\ opened = {} /\ running = FALSE /\ doomed = FALSE
    /\ wire = [s \in Sids |-> <<>>]
    /\ current = 1
    /\ gate = [i \in Gates |-> NewGate]
    /\ typed = 0
    /\ typing = <<>>
    /\ step = [p \in Producers |-> "idle"]
    /\ claim = [p \in Producers |-> NoClaim]
    /\ active = NoOne
    /\ cancelled = {}
    /\ closing = FALSE

-----------------------------------------------------------------------------
(* The session the gate writes to (manager.rs)                              *)

\* write_input_for_session: only to the pinned session, only while it runs.
Accepts(s) == s = cur /\ running

\* The sessions as create, on_exit and a refused dispose leave them.
SessionStart(s) ==
    /\ ~running \/ doomed
    /\ s \notin opened
    /\ cur' = s /\ opened' = opened \cup {s} /\ running' = TRUE /\ doomed' = FALSE
    /\ UNCHANGED <<wire, current, gate, typed, typing, step, claim, active,
                   cancelled, closing>>

\* on_exit: a disposed session also leaves the map.
SessionExit ==
    /\ running
    /\ running' = FALSE
    /\ doomed' = FALSE
    /\ cur' = IF doomed THEN NoSid ELSE cur
    /\ UNCHANGED <<opened, wire, current, gate, typed, typing, step, claim,
                   active, cancelled, closing>>

\* flush_queued_human: each piece goes to the session it was typed to, or is
\* dropped when that session is gone.
Flushed(q) ==
    LET f[i \in 0 .. Len(q)] ==
            IF i = 0 THEN <<>>
            ELSE IF Accepts(q[i].sid) THEN Append(f[i - 1], Human(q[i].n))
            ELSE f[i - 1]
    IN f[Len(q)]
FlushTo(w, q) == IF running THEN [w EXCEPT ![cur] = @ \o Flushed(q)] ELSE w

session == <<cur, opened, running, doomed>>

-----------------------------------------------------------------------------
(* note_human                                                               *)

\* get_agent_gate: the gate is fetched before its inner mutex is taken.
TypeBegin(c) ==
    /\ typing = <<>>
    /\ typed < MaxTyped
    /\ typing' = <<[gate |-> current, chunk |-> c]>>
    /\ typed'  = typed + 1
    /\ UNCHANGED <<session, wire, current, gate, step, claim, active,
                   cancelled, closing>>

\* Seeded fault: the revision counts an Enter inside a chunk as another piece.
NotedPerKey(g, c) ==
    [g EXCEPT !.uncommitted = c # "close",
              !.old = @ /\ c = "open",
              !.revision = @ + (IF c = "reopen" THEN 2 ELSE 1)]

\* The uncommitted flag after a chunk, and whether it is two minutes old: the
\* time counts from the first byte that set the flag.
Noted(g, c) ==
    [g EXCEPT !.uncommitted = c # "close",
              !.old = @ /\ c = "open",
              !.revision = @ + 1]

\* Seeded fault: human input is never queued.
TypeEndDirect ==
    /\ typing # <<>>
    /\ typing' = <<>>
    /\ gate' = [gate EXCEPT ![typing[1].gate] = Noted(@, typing[1].chunk)]
    /\ wire' = IF running THEN [wire EXCEPT ![cur] = Append(@, Human(typed))]
                          ELSE wire
    /\ UNCHANGED <<session, current, typed, step, claim, active, cancelled,
                   closing>>

\* Queue the piece while a submission is between its body and its carriage
\* return, else write it to the agent's session.
TypeEnd ==
    /\ typing # <<>>
    /\ typing' = <<>>
    /\ LET i == typing[1].gate
           g == Noted(gate[i], typing[1].chunk)
       IN IF g.held /\ g.queueing
            THEN /\ gate' = [gate EXCEPT ![i] =
                        [g EXCEPT !.queue = Append(@, [sid |-> cur, n |-> typed])]]
                 /\ UNCHANGED wire
            ELSE /\ gate' = [gate EXCEPT ![i] = g]
                 /\ wire' = IF running
                              THEN [wire EXCEPT ![cur] = Append(@, Human(typed))]
                              ELSE wire
    /\ UNCHANGED <<session, current, typed, step, claim, active, cancelled,
                   closing>>

\* Two minutes pass over an unsubmitted fragment.
Age ==
    /\ gate[current].uncommitted /\ ~gate[current].old
    /\ gate' = [gate EXCEPT ![current].old = TRUE]
    /\ UNCHANGED <<session, wire, current, typed, typing, step, claim, active,
                   cancelled, closing>>

-----------------------------------------------------------------------------
(* Producers                                                                *)

Goto(p, l)       == step' = [step EXCEPT ![p] = l] /\ UNCHANGED claim
GotoAs(p, l, c)  == step' = [step EXCEPT ![p] = l] /\ claim' = [claim EXCEPT ![p] = c]
Lock(g, p)       == [g EXCEPT !.lock = p]

CanWriteBody(s) ==
    Cardinality({i \in DOMAIN wire[s] : wire[s][i].by = "body"}) < MaxBodies

\* Pieces of human input that have gone through note_human.
Noticed == typed - Len(typing)

\* WorkSendRuntime.inspect for the send dialog: the revision first, then the
\* session.
InspectRevision(p) ==
    /\ p \in Strict
    /\ step[p] = "idle"
    /\ GotoAs(p, "inspect", [NoClaim EXCEPT !.revision = gate[current].revision,
                                           !.seen = Noticed])
    /\ UNCHANGED <<session, wire, current, gate, typed, typing, active,
                   cancelled, closing>>

InspectSession(p) ==
    /\ step[p] = "inspect"
    /\ running
    /\ GotoAs(p, "dialog", [claim[p] EXCEPT !.sid = cur])
    /\ UNCHANGED <<session, wire, current, gate, typed, typing, active,
                   cancelled, closing>>

\* send: one active send per agent, the generation, then check().
SendBegin(p) ==
    /\ step[p] = "dialog"
    /\ active = NoOne
    /\ Accepts(claim[p].sid)
    /\ gate[current].revision = claim[p].revision
    /\ ~gate[current].uncommitted
    /\ active' = p
    /\ GotoAs(p, "begun", [claim[p] EXCEPT !.generation = gate[current].generation])
    /\ UNCHANGED <<session, wire, current, gate, typed, typing, cancelled,
                   closing>>

\* follow_up reads everything itself.
FollowUp(p) ==
    /\ p \in Strict
    /\ step[p] = "idle"
    /\ active = NoOne
    /\ running
    /\ ~gate[current].uncommitted
    /\ active' = p
    /\ GotoAs(p, "begun", [sid |-> cur, gate |-> current,
                           generation |-> gate[current].generation,
                           revision |-> gate[current].revision, ok |-> FALSE,
                           seen |-> Noticed])
    /\ UNCHANGED <<session, wire, current, gate, typed, typing, cancelled,
                   closing>>

\* try_acquire_transition_owner: the gate's lock for the whole transition;
\* people may type meanwhile.
Acquire(p) ==
    /\ step[p] = "begun"
    /\ Accepts(claim[p].sid)
    /\ gate[current].lock = NoOne
    /\ gate[current].generation = claim[p].generation
    /\ gate' = [gate EXCEPT ![current] =
                    [Lock(@, p) EXCEPT !.held = TRUE, !.queueing = FALSE]]
    /\ GotoAs(p, "owner", [claim[p] EXCEPT !.gate = current])
    /\ UNCHANGED <<session, wire, current, typed, typing, active, cancelled,
                   closing>>

\* Seeded fault: validate forgets the revision.
ValidIgnoresTyping(p) ==
    /\ p \notin cancelled
    /\ Accepts(claim[p].sid)
    /\ gate[claim[p].gate].generation = claim[p].generation

\* submit_strict's validate.
Valid(p) ==
    /\ p \notin cancelled
    /\ Accepts(claim[p].sid)
    /\ gate[claim[p].gate].generation = claim[p].generation
    /\ gate[claim[p].gate].revision = claim[p].revision

StrictBody(p) ==
    LET i == claim[p].gate
        s == claim[p].sid
        go == Valid(p) /\ ~gate[i].uncommitted
    IN
    /\ step[p] = "owner"
    /\ go => CanWriteBody(s)
    /\ IF go
         THEN /\ gate' = [gate EXCEPT ![i].held = TRUE, ![i].queueing = TRUE]
              /\ wire' = [wire EXCEPT ![s] = Append(@, Body(p))]
              /\ Goto(p, "sleep")
         ELSE GotoAs(p, "unqueue", [claim[p] EXCEPT !.ok = FALSE])
              /\ UNCHANGED <<gate, wire>>
    /\ UNCHANGED <<session, current, typed, typing, active, cancelled, closing>>

\* Seeded fault: the carriage return goes to the agent's session, unchecked.
StrictCrByAgent(p) ==
    /\ p \in Strict
    /\ step[p] = "sleep"
    /\ wire' = IF running THEN [wire EXCEPT ![cur] = Append(@, Cr(p))] ELSE wire
    /\ GotoAs(p, "unqueue", [claim[p] EXCEPT !.ok = TRUE])
    /\ UNCHANGED <<session, current, gate, typed, typing, active, cancelled,
                   closing>>

StrictCr(p) ==
    LET s == claim[p].sid IN
    /\ p \in Strict
    /\ step[p] = "sleep"
    /\ wire' = IF Valid(p) THEN [wire EXCEPT ![s] = Append(@, Cr(p))] ELSE wire
    /\ GotoAs(p, "unqueue", [claim[p] EXCEPT !.ok = Valid(p)])
    /\ UNCHANGED <<session, current, gate, typed, typing, active, cancelled,
                   closing>>

\* Seeded fault: the guard stops queueing and leaves the queue for later.
UnqueueNoFlush(p) ==
    /\ step[p] = "unqueue"
    /\ gate' = [gate EXCEPT ![claim[p].gate].queueing = FALSE]
    /\ Goto(p, IF claim[p].ok THEN "owner" ELSE "release")
    /\ UNCHANGED <<session, wire, current, typed, typing, active, cancelled,
                   closing>>

\* StrictSubmissionGuard::drop.  After a submission the caller may submit again
\* under the same ownership (the prompt after the launch command).
Unqueue(p) ==
    LET i == claim[p].gate IN
    /\ step[p] = "unqueue"
    /\ wire' = FlushTo(wire, gate[i].queue)
    /\ gate' = [gate EXCEPT ![i].queueing = FALSE, ![i].queue = <<>>]
    /\ Goto(p, IF claim[p].ok THEN "owner" ELSE "release")
    /\ UNCHANGED <<session, current, typed, typing, active, cancelled, closing>>

\* submit: the lock, if the session is the expected one.
PlainLock(p) ==
    /\ p \in Plain
    /\ step[p] = "idle"
    /\ running /\ CanWriteBody(cur)
    /\ gate[current].lock = NoOne
    /\ gate' = [gate EXCEPT ![current] = Lock(@, p)]
    /\ GotoAs(p, "locked", [NoClaim EXCEPT !.sid = cur, !.gate = current])
    /\ UNCHANGED <<session, wire, current, typed, typing, active, cancelled,
                   closing>>

\* Defer to a fresh human fragment; submit over one that is two minutes old.
PlainHold(p) ==
    LET i == claim[p].gate IN
    /\ step[p] = "locked"
    /\ IF gate[i].uncommitted /\ ~gate[i].old
         THEN /\ gate' = [gate EXCEPT ![i] = Lock(@, NoOne)]
              /\ GotoAs(p, "idle", NoClaim)
         ELSE /\ gate' = [gate EXCEPT ![i] =
                    [@ EXCEPT !.uncommitted = FALSE, !.old = FALSE,
                              !.held = TRUE, !.queueing = TRUE]]
              /\ Goto(p, "held")
    /\ UNCHANGED <<session, wire, current, typed, typing, active, cancelled,
                   closing>>

PlainBody(p) ==
    LET s == claim[p].sid IN
    /\ step[p] = "held"
    /\ IF Accepts(s)
         THEN wire' = [wire EXCEPT ![s] = Append(@, Body(p))] /\ Goto(p, "sleep")
         ELSE Goto(p, "release") /\ UNCHANGED wire
    /\ UNCHANGED <<session, current, gate, typed, typing, active, cancelled,
                   closing>>

\* After the sleep the session is checked again, outside the inner mutex.
PlainCr(p) ==
    LET s == claim[p].sid IN
    /\ p \in Plain
    /\ step[p] = "sleep"
    /\ wire' = IF Accepts(s) THEN [wire EXCEPT ![s] = Append(@, Cr(p))] ELSE wire
    /\ Goto(p, "release")
    /\ UNCHANGED <<session, current, gate, typed, typing, active, cancelled,
                   closing>>

\* The future is dropped during the sleep (a closed connection, a cancelled
\* task), or a launch step of the owner fails or times out.
Abandon(p) ==
    /\ \/ step[p] = "sleep" /\ p \in Strict
            /\ GotoAs(p, "unqueue", [claim[p] EXCEPT !.ok = FALSE])
       \/ step[p] = "sleep" /\ p \in Plain /\ Goto(p, "release")
       \/ step[p] = "owner" /\ Goto(p, "release")
    /\ UNCHANGED <<session, wire, current, gate, typed, typing, active,
                   cancelled, closing>>

\* SendGuard drop: the call and its cancel flag are gone.
Deregister(p) ==
    /\ active' = IF active = p THEN NoOne ELSE active
    /\ cancelled' = cancelled \ {p}

\* Seeded fault: the last guard frees the gate and forgets the queue.
ReleaseKeepsQueue(p) ==
    /\ step[p] = "release"
    /\ gate' = [gate EXCEPT ![claim[p].gate] =
                    [Lock(@, NoOne) EXCEPT !.held = FALSE, !.queueing = FALSE]]
    /\ Deregister(p)
    /\ GotoAs(p, "idle", NoClaim)
    /\ UNCHANGED <<session, wire, current, typed, typing, closing>>

\* HolderGuard / TransitionOwnerGuard drop, the lock with it, then SendGuard.
Release(p) ==
    LET i == claim[p].gate IN
    /\ step[p] = "release"
    /\ wire' = FlushTo(wire, gate[i].queue)
    /\ gate' = [gate EXCEPT ![i] = [Lock(@, NoOne) EXCEPT !.held = FALSE,
                                        !.queueing = FALSE, !.queue = <<>>]]
    /\ Deregister(p)
    /\ GotoAs(p, "idle", NoClaim)
    /\ UNCHANGED <<session, current, typed, typing, closing>>

\* A send gives up before it owns the gate.
GiveUp(p) ==
    /\ step[p] \in {"inspect", "dialog", "begun"}
    /\ Deregister(p)
    /\ GotoAs(p, "idle", NoClaim)
    /\ UNCHANGED <<session, wire, current, gate, typed, typing, closing>>

-----------------------------------------------------------------------------
(* dispose_session                                                          *)

Stop == /\ cancelled' = cancelled \cup ({active} \ {NoOne})
        /\ active' = NoOne

\* A plain dispose, or a restart the dialog confirmed: that one disposes only
\* of the inspected session and only if nobody typed since, under the inner
\* mutex (with_human_revision).
Dispose ==
    /\ ~closing
    /\ current + 1 \in Gates
    /\ doomed' = (cur # NoSid)
    /\ closing' = TRUE
    /\ Stop
    /\ UNCHANGED <<cur, opened, running, wire, current, gate, typed, typing,
                   step, claim>>

DisposeConfirmed(p) ==
    /\ step[p] = "dialog"
    /\ claim[p].sid = cur
    /\ gate[current].revision = claim[p].revision
    /\ Dispose

\* remove_agent: the gate leaves the map, its generation moves on.
RemoveAgent ==
    /\ closing
    /\ closing' = FALSE
    /\ gate' = [gate EXCEPT ![current].generation = @ + 1]
    /\ current' = current + 1
    /\ UNCHANGED <<session, wire, typed, typing, step, claim, active, cancelled>>

-----------------------------------------------------------------------------
Next ==
    \/ \E s \in Sids : SessionStart(s)
    \/ SessionExit
    \/ \E c \in Chunks : TypeBegin(c)
    \/ TypeEnd
    \/ Age
    \/ \E p \in Strict :
          \/ InspectRevision(p) \/ InspectSession(p) \/ SendBegin(p)
          \/ FollowUp(p) \/ Acquire(p) \/ StrictBody(p) \/ StrictCr(p)
          \/ Unqueue(p) \/ GiveUp(p) \/ DisposeConfirmed(p)
    \/ \E p \in Plain : PlainLock(p) \/ PlainHold(p) \/ PlainBody(p) \/ PlainCr(p)
    \/ \E p \in Producers : Abandon(p) \/ Release(p)
    \/ Dispose
    \/ RemoveAgent

Spec == Init /\ [][Next]_vars

\* A submission that has begun ends: the sleep is a timer and the drops run on
\* every path.  An owner either submits or gives up (its waits have deadlines).
\* Nobody has to type, send or restart.
Ends(p) ==
    \/ StrictCr(p) \/ PlainHold(p) \/ PlainBody(p) \/ PlainCr(p)
    \/ Unqueue(p) \/ Abandon(p) \/ Release(p)

FairSpec ==
    /\ Spec
    /\ \A p \in Producers : WF_vars(Ends(p))
    /\ WF_vars(TypeEnd)
-----------------------------------------------------------------------------
(* Properties                                                               *)

\* Every variable has its type (AgentGateInner, the guards and the sessions).
TypeOK ==
    /\ cur \in Sids \cup {NoSid} /\ opened \subseteq Sids
    /\ running \in BOOLEAN /\ doomed \in BOOLEAN
    /\ \A s \in Sids : \A i \in DOMAIN wire[s] :
          \/ wire[s][i] \in [by : {"human"}, n : 1 .. MaxTyped]
          \/ wire[s][i] \in [by : {"body", "cr"}, n : Producers]
    /\ current \in Gates
    /\ DOMAIN gate = Gates
    /\ \A i \in Gates :
          /\ gate[i].lock \in Producers \cup {NoOne}
          /\ gate[i].queue \in
                UNION {[1 .. k -> [sid : Sids \cup {NoSid}, n : 1 .. MaxTyped]]
                           : k \in 0 .. MaxTyped}
          /\ gate[i].revision \in 0 .. MaxTyped
    /\ typed \in 0 .. MaxTyped
    /\ active \in Strict \cup {NoOne}
    /\ cancelled \subseteq Strict

Sent(s)      == wire'[s] # wire[s]
LastOf(q)    == q[Len(q)]
CrSent(p, s) == Sent(s) /\ LastOf(wire'[s]) = Cr(p)

\* An automated Enter submits exactly the body its producer wrote: nothing a
\* person or another producer wrote comes between the two (the serialized
\* body / 150 ms / CR section of inject.rs).
CrFollowsItsBody ==
    [][\A p \in Producers, s \in Sids :
          CrSent(p, s) => wire[s] # <<>> /\ LastOf(wire[s]) = Body(p)]_vars

HumanPieces(s) == {wire[s][i].n : i \in {j \in DOMAIN wire[s] : wire[s][j].by = "human"}}

\* What a person types reaches the terminal in the order it was typed.
HumanInOrder ==
    \A s \in Sids : \A i, j \in DOMAIN wire[s] :
        i < j /\ wire[s][i].by = "human" /\ wire[s][j].by = "human"
            => wire[s][i].n < wire[s][j].n

\* A strict producer never writes, body or Enter, to a terminal that got human
\* input after the revision the send was confirmed with was read.
OnlyOverSeenInput ==
    [][\A p \in Strict, s \in Sids :
          Sent(s) /\ LastOf(wire'[s]) \in {Body(p), Cr(p)} =>
              \A n \in HumanPieces(s) : n <= claim[p].seen]_vars

\* An automated Enter never submits what another producer wrote, nor goes to a
\* session its body did not go to, whatever is disposed and replaced between.
CrClosesOwnBody ==
    [][\A p \in Producers, s \in Sids :
          CrSent(p, s) =>
              LET mine == {i \in DOMAIN wire[s] : wire[s][i].by # "human"}
              IN \E i \in mine : /\ wire[s][i] = Body(p)
                                 /\ \A j \in mine : j <= i]_vars

\* Queued human input is written or dropped in the end: no path leaves the
\* terminal deaf (the reason HolderGuard exists).
QueueDrains == \A i \in Gates : []<>(gate[i].queue = <<>>)
=============================================================================
