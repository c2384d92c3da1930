------------------------------- MODULE RunRecipes -------------------------------
(***************************************************************************)
(* Run recipes (run_recipes/runner.rs): one command per agent, started in  *)
(* a process group of its own.  start, stop and stop_all hold the          *)
(* operations lock from their first line to their last; one watcher thread *)
(* per process waits until the whole group is gone and takes the entry     *)
(* out.  Signals are assumed to be permitted.                              *)
(***************************************************************************)
EXTENDS Naturals, FiniteSets

CONSTANTS
    Agents,
    MaxRuns     \* bound: processes started

ConstantsFit == MaxRuns \in Nat

Tokens == 1..MaxRuns
None   == 0
Free   == [kind |-> "free", of |-> {}]

VARIABLES
    tree,      \* token -> the process group: "none", "up", "termed", "killed", "gone"
    whose,     \* token -> agent it was started for
    entries,   \* agent -> token of its entry, or None
    watched,   \* tokens a watcher thread waits for
    op,        \* who holds the operations lock, and for which processes
    shutting,  \* shutting_down
    quit       \* "no", "asked": stop_all has set its flag, "done"

vars == <<tree, whose, entries, watched, op, shutting, quit>>

Init ==
    /\ tree = [t \in Tokens |-> "none"] /\ whose = [t \in Tokens |-> CHOOSE a \in Agents : TRUE]
    /\ entries = [a \in Agents |-> None] /\ watched = {}
    /\ op = Free /\ shutting = FALSE /\ quit = "no"

Living(t) == tree[t] \in {"up", "termed"}
Signalled(ts, sig) == [t \in Tokens |-> IF t \in ts /\ Living(t) THEN sig ELSE tree[t]]

\* An entry is taken out by whoever ended its process, never by the token of another.
Removed(a, t) == IF entries[a] = t THEN [entries EXCEPT ![a] = None] ELSE entries

\* start, up to the spawn.
Start(a) ==
    /\ op = Free /\ ~shutting /\ entries[a] = None
    /\ \E t \in Tokens :
         /\ tree[t] = "none" /\ \A u \in Tokens : u < t => tree[u] # "none"
         /\ tree' = [tree EXCEPT ![t] = "up"] /\ whose' = [whose EXCEPT ![t] = a]
         /\ op' = [kind |-> "start", of |-> {t}]
    /\ UNCHANGED <<entries, watched, shutting, quit>>

\* ... and from the insertion to the watcher thread.
Record ==
    /\ op.kind = "start"
    /\ \E t \in op.of :
         entries' = [entries EXCEPT ![whose[t]] = t] /\ watched' = watched \cup {t}
    /\ op' = Free
    /\ UNCHANGED <<tree, whose, shutting, quit>>

\* stop: SIGTERM to the group.
Stop(a) ==
    /\ op = Free /\ entries[a] # None
    /\ op' = [kind |-> "stop", of |-> {entries[a]}]
    /\ tree' = Signalled({entries[a]}, "termed")
    /\ UNCHANGED <<whose, entries, watched, shutting, quit>>

\* The group is gone or, after 250 ms, killed.
StopEnds ==
    /\ op.kind = "stop"
    /\ tree' = Signalled(op.of, "killed")
    /\ \E t \in op.of : entries' = Removed(whose[t], t)
    /\ op' = Free
    /\ UNCHANGED <<whose, watched, shutting, quit>>

\* Seeded fault: the flag is not set.
QuitUnflagged ==
    /\ quit = "no" /\ quit' = "asked"
    /\ UNCHANGED <<tree, whose, entries, watched, op, shutting>>

\* stop_all, before it waits for the lock.
Quit ==
    /\ quit = "no" /\ quit' = "asked" /\ shutting' = TRUE
    /\ UNCHANGED <<tree, whose, entries, watched, op>>

StopAll ==
    /\ quit = "asked" /\ op = Free
    /\ LET all == {entries[a] : a \in Agents} \ {None} IN
         /\ op' = [kind |-> "all", of |-> all]
         /\ tree' = Signalled(all, "termed")
    /\ entries' = [a \in Agents |-> None]
    /\ UNCHANGED <<whose, watched, shutting, quit>>

StopAllEnds ==
    /\ op.kind = "all"
    /\ tree' = Signalled(op.of, "killed")
    /\ op' = Free /\ quit' = "done"
    /\ UNCHANGED <<whose, entries, watched, shutting>>

\* The last process of a group ends, of itself or by a signal.
TreeEnds(t) ==
    /\ tree[t] \in {"up", "termed", "killed"}
    /\ tree' = [tree EXCEPT ![t] = "gone"]
    /\ UNCHANGED <<whose, entries, watched, op, shutting, quit>>

\* Seeded fault: the watcher does not compare the token.
WatcherForgets(t) ==
    /\ t \in watched /\ tree[t] = "gone" /\ watched' = watched \ {t}
    /\ entries' = [entries EXCEPT ![whose[t]] = None]
    /\ UNCHANGED <<tree, whose, op, shutting, quit>>

\* Seeded fault: the watcher thread ends without looking at the entry.
WatcherIdles(t) ==
    /\ t \in watched /\ tree[t] = "gone" /\ watched' = watched \ {t}
    /\ UNCHANGED <<tree, whose, entries, op, shutting, quit>>

\* wait_for_process_tree is over.
Watcher(t) ==
    /\ t \in watched /\ tree[t] = "gone" /\ watched' = watched \ {t}
    /\ entries' = Removed(whose[t], t)
    /\ UNCHANGED <<tree, whose, op, shutting, quit>>

Locked == Record \/ StopEnds \/ StopAll \/ StopAllEnds
Watch  == \E t \in Tokens : Watcher(t)
Next ==
    \/ \E a \in Agents : Start(a) \/ Stop(a)
    \/ Locked \/ Quit \/ Watch
    \/ \E t \in Tokens : TreeEnds(t)

Spec == Init /\ [][Next]_vars

\* Holders of the lock wait for at most 250 ms; watchers poll.
FairSpec == Spec /\ WF_vars(Locked) /\ WF_vars(Watch)

-----------------------------------------------------------------------------
TypeOK ==
    /\ tree \in [Tokens -> {"none", "up", "termed", "killed", "gone"}]
    /\ whose \in [Tokens -> Agents] /\ entries \in [Agents -> Tokens \cup {None}]
    /\ watched \subseteq Tokens /\ shutting \in BOOLEAN
    /\ op.kind \in {"free", "start", "stop", "all"} /\ op.of \subseteq Tokens
    /\ quit \in {"no", "asked", "done"}

\* A process that runs is shown and can be stopped: it has the entry of its agent,
\* or a call that holds the lock is about to record or to end it.  So an agent never
\* has two, and none is forgotten by a stop, a start and an old watcher that cross.
LiveIsListed == \A t \in Tokens : Living(t) => entries[whose[t]] = t \/ t \in op.of

\* When stop_all has returned, nothing it could have ended runs on, however a start
\* raced with it.
NothingOutlivesQuit == quit = "done" => \A t \in Tokens : ~Living(t)

\* The entry of a process that ended by itself is taken out, so that the next start
\* is not refused for ever.
Cleared(a) == entries[a] = None \/ tree[entries[a]] # "gone"
EndedIsCleared == \A a \in Agents : []<>Cleared(a)
=============================================================================
