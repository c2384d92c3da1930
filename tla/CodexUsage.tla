------------------------------- MODULE CodexUsage -------------------------------
(***************************************************************************)
(* Token usage of a Codex session (observer/codex_usage.rs).  Codex writes *)
(* a rollout per thread: the main one, and one for every subagent, named   *)
(* in its first line with its parent.  Rows carry the model from there on, *)
(* or the running total of the thread.  A prompt hook remembers where the  *)
(* main rollout stands; tool hooks (throttled) and Stop hooks read what    *)
(* was appended to every thread since and charge it, row by row, to the    *)
(* model of the row.  Hooks of a session are serialized by its lock, but   *)
(* come late, twice and in any order; rollouts are written meanwhile.      *)
(*                                                                         *)
(* One total of tokens stands for the four kinds.  Rollouts only grow.     *)
(***************************************************************************)
EXTENDS Naturals, FiniteSets, Sequences, SequencesExt

CONSTANTS
    Main, Subs,   \* threads
    Parent,       \* sub -> the thread that started it
    Models,
    TailRows,     \* rows of ROLLOUT_TAIL_BYTES
    MaxRows,      \* bound: rows of all rollouts together
    MaxRestarts   \* bound: restarts of the app

Meta  == "meta"      \* session_meta, the first row
Count == "count"     \* token_count: one more token than before
Unknown == "unknown"

Threads == {Main} \cup Subs
ConstantsFit ==
    /\ Main \notin Subs /\ Parent \in [Subs -> Threads]
    /\ Models \cap {Meta, Count} = {}
    /\ {TailRows, MaxRows, MaxRestarts} \subseteq Nat

VARIABLES
    row,       \* thread -> its rows: Meta, a model (turn_context) or Count
    torn,      \* thread -> "whole", "torn": the last row does not parse yet,
               \* "bare": it does, but its newline is not written
    since,     \* threads that were started after the session was first seen
    cur,       \* thread -> its cursor, or NoCursor
    state,     \* the rest of UsageState
    due,       \* the throttle lets the next tool hook through
    base,      \* (history) thread -> its whole rows when its cursor was set
    charged,   \* (history) thread -> row -> the models it was charged to, one by one
    finals,    \* (history) final counts since the turn was opened
    restarts

rollouts == <<row, torn>>
vars == <<rollouts, since, cur, state, due, base, charged, finals, restarts>>

NoCursor == [at |-> 0, total |-> 0, model |-> Unknown, set |-> FALSE]
Fresh    == [partial |-> FALSE, final |-> FALSE]

Init ==
    /\ row = [t \in Threads |-> <<>>] /\ torn = [t \in Threads |-> "whole"]
    /\ since = {} /\ cur = [t \in Threads |-> NoCursor] /\ state = Fresh /\ due = TRUE
    /\ base = [t \in Threads |-> 0]
    /\ charged = [t \in Threads |-> [i \in 1..MaxRows |-> <<>>]]
    /\ finals = 0 /\ restarts = 0

-----------------------------------------------------------------------------
(* Rollouts (external: codex)                                               *)

Size == FoldFunction(LAMBDA rows, n : Len(rows) + n, 0, row)
\* The bound on all rows is one on each thread's.
AddRow(t, r) ==
    /\ torn[t] = "whole" /\ Size < MaxRows /\ Len(row[t]) < MaxRows
    /\ row' = [row EXCEPT ![t] = Append(@, r)]
    /\ \E how \in {"whole", "torn", "bare"} : torn' = [torn EXCEPT ![t] = how]

Write(t) ==
    /\ IF row[t] = <<>> THEN /\ t \in Subs => row[Parent[t]] # <<>>
                             /\ AddRow(t, Meta)
                        ELSE \E r \in Models \cup {Count} : AddRow(t, r)
    /\ since' = IF row[t] = <<>> /\ cur[Main].set THEN since \cup {t} ELSE since
    /\ UNCHANGED <<cur, state, due, base, charged, finals, restarts>>

\* More of the row, or its newline, is written.
Complete(t) ==
    /\ torn[t] # "whole"
    /\ torn' = [torn EXCEPT ![t] = "whole"]
    /\ UNCHANGED <<row, since, cur, state, due, base, charged, finals, restarts>>

-----------------------------------------------------------------------------
(* Reading                                                                  *)

\* Rows that can be parsed.
Parsed(t) == Len(row[t]) - (IF torn[t] = "torn" THEN 1 ELSE 0)

TotalAt(t, n) == Cardinality({i \in 1..n : row[t][i] = Count})
ModelRows(t, lo, hi) == {i \in lo..hi : row[t][i] \in Models}
ModelAt(t, lo, hi, otherwise) ==
    LET rows == ModelRows(t, lo, hi)
    IN IF rows = {} THEN otherwise ELSE row[t][CHOOSE i \in rows : \A j \in rows : j <= i]

\* read_head_model: the first model of the rollout.
HeadModel(t) ==
    LET rows == ModelRows(t, 1, Parsed(t))
    IN IF rows = {} THEN Unknown ELSE row[t][CHOOSE i \in rows : \A j \in rows : i <= j]

\* Seeded fault: a row that does not parse yet is passed over.
SnapshotPastTorn(t, fallback) ==
    LET n == Parsed(t)
        lo == IF Len(row[t]) > TailRows THEN Len(row[t]) - TailRows + 1 ELSE 1
        counted == \E i \in lo..n : row[t][i] = Count
    IN IF row[t] = <<>> \/ (lo > 1 /\ ~counted) THEN {}
       ELSE {[at |-> Len(row[t]), total |-> TotalAt(t, n),
              model |-> ModelAt(t, lo, n, fallback), set |-> TRUE]}

\* read_tail_snapshot: the end of the rollout, unless its tail holds no total.
Snapshot(t, fallback) ==
    LET n == Parsed(t)
        lo == IF Len(row[t]) > TailRows THEN Len(row[t]) - TailRows + 1 ELSE 1
        counted == \E i \in lo..n : row[t][i] = Count
    IN IF row[t] = <<>> \/ (lo > 1 /\ ~counted) THEN {}
       ELSE {[at |-> n, total |-> TotalAt(t, n), model |-> ModelAt(t, lo, n, fallback),
              set |-> TRUE]}

\* Seeded fault: everything new goes to the model the rollout ends with.
DeltasLastModel(t, c) ==
    [i \in {j \in c.at + 1..Parsed(t) : row[t][j] = Count} |->
        ModelAt(t, c.at + 1, Parsed(t), c.model)]

\* read_thread_deltas: row -> the model it is charged to.
Deltas(t, c) ==
    [i \in {j \in c.at + 1..Parsed(t) : row[t][j] = Count /\ TotalAt(t, j) > c.total} |->
        ModelAt(t, c.at + 1, i, c.model)]

Advanced(t, c) ==
    [at |-> Parsed(t), total |-> TotalAt(t, Parsed(t)),
     model |-> ModelAt(t, c.at + 1, Parsed(t), c.model), set |-> TRUE]

\* descends_from, over the first rows that can be read.
Named(t) == Parsed(t) > 0
Descends(t) ==
    LET up[n \in 0..8] ==
          IF n = 0 THEN t
          ELSE IF up[n - 1] \in Subs /\ Named(up[n - 1]) THEN Parent[up[n - 1]] ELSE up[n - 1]
    IN t \in Subs /\ Named(t) /\ \E n \in 1..8 : up[n] = Main

-----------------------------------------------------------------------------
(* Hooks                                                                    *)

\* seed_main, and the first prompt: past usage is left out.
Seed ==
    LET at == Snapshot(Main, HeadModel(Main)) IN
    /\ cur' = IF at = {} THEN cur ELSE [cur EXCEPT ![Main] = CHOOSE c \in at : TRUE]
    /\ base' = IF at = {} THEN base ELSE [base EXCEPT ![Main] = Parsed(Main)]
    /\ UNCHANGED <<charged, since>>

\* mark_turn_start.  Any prompt after a final count opens a turn; others go on.
Prompt ==
    /\ row[Main] # <<>>
    /\ IF cur[Main].set
         THEN /\ UNCHANGED <<cur, base, charged, since>>
              /\ IF state.final THEN state' = Fresh /\ due' = TRUE /\ finals' = 0
                                ELSE UNCHANGED <<state, due, finals>>
         ELSE /\ Seed
              /\ IF cur'[Main].set THEN state' = Fresh /\ due' = TRUE /\ finals' = 0
                                   ELSE UNCHANGED <<state, due, finals>>
    /\ UNCHANGED <<rollouts, restarts>>

\* Which threads a count reads from a cursor, from the start, or not yet.
Read(t) == cur[t].set \/ (t \in since /\ Descends(t))
Charge ==
    LET reads == {t \in Threads : Named(t) /\ (t = Main \/ Descends(t)) /\ Read(t)}
        seeds == {t \in Subs : Descends(t) /\ ~Read(t) /\ Snapshot(t, Unknown) # {}}
        seed(t) == CHOOSE c \in Snapshot(t, Unknown) : TRUE
        \* The subagents are found by the id in the first row of the main rollout.
        of == IF Named(Main) THEN reads ELSE reads \cap {Main}
    IN /\ cur' = [t \in Threads |-> IF t \in of THEN Advanced(t, cur[t])
                                    ELSE IF t \in seeds THEN seed(t) ELSE cur[t]]
       /\ base' = [t \in Threads |-> IF t \in seeds THEN Parsed(t) ELSE base[t]]
       /\ charged' = [t \in Threads |-> [i \in 1..MaxRows |->
                        IF t \in of /\ i \in DOMAIN Deltas(t, cur[t])
                        THEN Append(charged[t][i], Deltas(t, cur[t])[i]) ELSE charged[t][i]]]
       /\ UNCHANGED since

\* progress_usage, when the throttle lets it through.
Tool ==
    /\ row[Main] # <<>> /\ due /\ due' = FALSE
    /\ IF ~cur[Main].set THEN Seed /\ state' = [state EXCEPT !.final = FALSE]
       ELSE /\ Charge
            /\ state' = [state EXCEPT !.partial = @ \/ charged' # charged]
    /\ UNCHANGED <<rollouts, finals, restarts>>

\* Five seconds have passed since the last tool hook.
Due ==
    /\ ~due /\ due' = TRUE
    /\ UNCHANGED <<rollouts, since, cur, state, base, charged, finals, restarts>>

\* Seeded fault: a Stop that comes again counts again.
StopAgain ==
    /\ row[Main] # <<>>
    /\ IF ~cur[Main].set THEN Seed /\ UNCHANGED finals
       ELSE /\ Charge
            /\ finals' = IF charged' # charged \/ state.partial THEN finals + 1 ELSE finals
    /\ state' = [state EXCEPT !.final = TRUE]
    /\ UNCHANGED <<rollouts, due, restarts>>

\* turn_usage.  A Stop that comes again counts nothing; one after partial counts is
\* final even when nothing is left.
Stop ==
    /\ row[Main] # <<>>
    /\ IF ~cur[Main].set THEN Seed /\ UNCHANGED finals
       ELSE IF state.final THEN UNCHANGED <<since, cur, base, charged, finals>>
       ELSE /\ Charge
            /\ finals' = IF charged' # charged \/ state.partial THEN finals + 1 ELSE finals
    /\ state' = [state EXCEPT !.final = TRUE]
    /\ UNCHANGED <<rollouts, due, restarts>>

\* The app restarts; what it knew was in memory.
Restart ==
    /\ restarts < MaxRestarts /\ restarts' = restarts + 1
    /\ since' = {} /\ cur' = [t \in Threads |-> NoCursor] /\ state' = Fresh /\ due' = TRUE
    /\ finals' = 0 /\ UNCHANGED <<rollouts, base, charged>>

Next ==
    \/ \E t \in Threads : Write(t) \/ Complete(t)
    \/ Prompt \/ Tool \/ Due \/ Stop \/ Restart

Spec == Init /\ [][Next]_vars

-----------------------------------------------------------------------------
TypeOK ==
    /\ row \in [Threads -> BoundedSeq(Models \cup {Meta, Count}, MaxRows)]
    /\ torn \in [Threads -> {"whole", "torn", "bare"}] /\ since \subseteq Threads
    /\ \A t \in Threads : cur[t].at <= Len(row[t]) /\ base[t] <= Len(row[t])
    /\ state.partial \in BOOLEAN /\ state.final \in BOOLEAN

\* No row is charged twice, not across hooks that come late or twice, threads found
\* late, or restarts.
ChargedOnce == \A t \in Threads : \A i \in 1..Len(row[t]) : Len(charged[t][i]) <= 1

\* No row that a cursor has passed is left out, however the rollout was torn when it was
\* read.
PassedIsCharged ==
    \A t \in Threads : \A i \in base[t] + 1..cur[t].at :
        cur[t].set /\ row[t][i] = Count => charged[t][i] # <<>>

\* A row is charged to the model its thread ran at that point, also when the model
\* changed several times between two hooks.
RightModel ==
    \A t \in Threads : \A i \in 1..Len(row[t]) :
        \A n \in 1..Len(charged[t][i]) :
            ModelRows(t, base[t] + 1, i) # {} => charged[t][i][n] = ModelAt(t, 1, i, Unknown)

\* A turn has at most one final count, however often its Stop arrives.
OneFinal == finals <= 1
=============================================================================
