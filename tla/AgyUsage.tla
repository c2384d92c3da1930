------------------------------- MODULE AgyUsage -------------------------------
(***************************************************************************)
(* Token usage of agy sessions (observer/mod.rs, observer/event.rs).  agy  *)
(* keeps one database of steps per conversation; the hooks of its turns    *)
(* carry the session and the conversation.  The observer remembers one row *)
(* index per session: the first prompt it sees sets it to the last row     *)
(* there is, and every Stop sums the responses above it and moves it on.   *)
(* A hook is handled before the next one of its session arrives.           *)
(***************************************************************************)
EXTENDS Naturals

CONSTANTS
    Convs,        \* conversations the session's agy may continue
    History,      \* responses each may hold already, written under other sessions
    MaxRows,      \* bound: responses per conversation
    MaxRestarts   \* bound: restarts of the app while the session lives on

ConstantsFit == History \subseteq 0..MaxRows /\ {MaxRows, MaxRestarts} \subseteq Nat

Rows == 1..MaxRows
None == MaxRows + 1

VARIABLES
    rows,      \* conversation -> responses in its database
    counted,   \* (history) conversation -> row -> how often this run of the app counted it
    earlier,   \* (history) ... and runs or sessions before
    conv,      \* the conversation agy runs
    turn,      \* a turn is open
    mark,      \* agy_usage_watermark of the session, or None
    restarts

vars == <<rows, counted, earlier, conv, turn, mark, restarts>>

\* What was written under another session was counted there.
Init ==
    /\ rows \in [Convs -> History] /\ conv \in Convs
    /\ counted = [c \in Convs |-> [i \in Rows |-> 0]]
    /\ earlier = [c \in Convs |-> [i \in Rows |-> IF i <= rows[c] THEN 1 ELSE 0]]
    /\ turn = FALSE /\ mark = None /\ restarts = 0

\* agy_turn_usage and agy_db_max_idx: None for a database without rows.
Baseline == IF mark = None THEN 0 ELSE mark
LastRow  == IF rows[conv] = 0 THEN None ELSE rows[conv]
Above    == {i \in Rows : i > Baseline /\ i <= rows[conv]}

\* Seeded fault: the first prompt sets no watermark.
PromptUnmarked ==
    /\ ~turn /\ turn' = TRUE
    /\ UNCHANGED <<rows, counted, earlier, conv, mark, restarts>>

\* The prompt hook of a new turn (invocationNum 0).
Prompt ==
    /\ ~turn /\ turn' = TRUE
    /\ mark' = IF mark = None THEN LastRow ELSE mark
    /\ UNCHANGED <<rows, counted, earlier, conv, restarts>>

\* A response is stored (external: agy).
Respond ==
    /\ turn /\ rows[conv] < MaxRows
    /\ rows' = [rows EXCEPT ![conv] = @ + 1]
    /\ UNCHANGED <<counted, earlier, conv, turn, mark, restarts>>

\* Seeded fault: the watermark stays one response behind.
StopLags ==
    /\ turn /\ turn' = FALSE
    /\ counted' = [counted EXCEPT ![conv] =
                     [i \in Rows |-> IF i \in Above THEN @[i] + 1 ELSE @[i]]]
    /\ mark' = IF Above = {} THEN mark ELSE rows[conv] - 1
    /\ UNCHANGED <<rows, earlier, conv, restarts>>

\* The stop hook.  Without new rows the watermark stays.
Stop ==
    /\ turn /\ turn' = FALSE
    /\ counted' = [counted EXCEPT ![conv] =
                     [i \in Rows |-> IF i \in Above THEN @[i] + 1 ELSE @[i]]]
    /\ mark' = IF Above = {} THEN mark ELSE rows[conv]
    /\ UNCHANGED <<rows, earlier, conv, restarts>>

\* agy goes on with another conversation in the same session (external: agy).
Switch ==
    /\ ~turn /\ conv' \in Convs \ {conv}
    /\ UNCHANGED <<rows, counted, earlier, turn, mark, restarts>>

\* The app restarts and adopts the session; the watermark was in memory.
Restart ==
    /\ restarts < MaxRestarts /\ restarts' = restarts + 1 /\ mark' = None
    /\ earlier' = [c \in Convs |-> [i \in Rows |-> earlier[c][i] + counted[c][i]]]
    /\ counted' = [c \in Convs |-> [i \in Rows |-> 0]]
    /\ UNCHANGED <<rows, conv, turn>>

Next == Prompt \/ Respond \/ Stop \/ Switch \/ Restart
Spec == Init /\ [][Next]_vars

-----------------------------------------------------------------------------
TypeOK ==
    /\ rows \in [Convs -> 0..MaxRows] /\ counted \in [Convs -> [Rows -> Nat]]
    /\ conv \in Convs /\ turn \in BOOLEAN /\ mark \in 0..None

\* While the app runs no response is counted twice, whichever conversations the
\* session goes through.
OncePerRun == \A c \in Convs : \A i \in Rows : counted[c][i] <= 1

\* In a session that keeps to one conversation, resumed with a history or not, every
\* response has been counted exactly once between turns, while the app runs.
CountedExactly ==
    ~turn => \A c \in Convs : \A i \in Rows :
        earlier[c][i] + counted[c][i] = IF i <= rows[c] THEN 1 ELSE 0

\* The first Stop of a resumed or adopted conversation does not count its history as
\* the turn (observer/mod.rs, event.rs).
HistoryLeftAlone == \A c \in Convs : \A i \in Rows : earlier[c][i] + counted[c][i] <= 1
=============================================================================
