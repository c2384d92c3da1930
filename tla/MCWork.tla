-------------------------------- MODULE MCWork --------------------------------
(***************************************************************************)
(* TLC instances of the work panels' back end, in one run: requests to a   *)
(* CLI (two sends and a follow-up over two sessions), the board with two   *)
(* tasks that name each other as prerequisites and requests about them in  *)
(* the inbox, and recipes of two agents.  A behaviour is one of one of     *)
(* them; the other two stay where they begin.                              *)
(***************************************************************************)
EXTENDS WorkSend

CONSTANTS
    Ids, Files, Request, MaxBatch, MaxEdits, MaxFaults,   \* of WorkBoard
    Agents, MaxRuns,                                      \* of RunRecipes
    a, b                                                  \* the tasks of InRequests

VARIABLES
    part,
    unsent, box, acked, rejected, disk, durable, app, items, applied, loaded, dirty, error,
    due, saving, on, cycle, quitting, count,
    tree, whose, entries, watched, op, shutting, quit

Add(i, t, after) == [kind |-> "add", id |-> i, text |-> t, after |-> after]
InRequests ==
    <<Add(a, "one", {b}), Add(b, "one", {a}),
      [kind |-> "edit", id |-> b, text |-> "two", after |-> {a}],
      [kind |-> "delete", id |-> a, text |-> "two", after |-> {}]>>

Board == INSTANCE WorkBoard WITH inbox <- box, armed <- due
Recipes == INSTANCE RunRecipes

ASSUME InstancesFit == Board!ConstantsFit /\ Recipes!ConstantsFit

board == <<unsent, box, acked, rejected, disk, durable, app, items, applied, loaded, dirty,
           error, due, saving, on, cycle, quitting, count>>
recipes == <<tree, whose, entries, watched, op, shutting, quit>>

MCInit ==
    /\ part \in {"send", "board", "recipes"}
    /\ Init /\ Board!Init /\ Recipes!Init

MCNext ==
    /\ UNCHANGED part
    /\ \/ part = "send" /\ Next /\ UNCHANGED <<board, recipes>>
       \/ part = "board" /\ Board!Next /\ UNCHANGED <<vars, recipes>>
       \/ part = "recipes" /\ Recipes!Next /\ UNCHANGED <<vars, board>>

\* The fairness of WorkSend, WorkBoard and RunRecipes.
MCSpec ==
    /\ MCInit /\ [][MCNext]_<<part, vars, board, recipes>>
    /\ WF_vars(part = "send" /\ \E r \in Reqs : Step(r))
    /\ WF_board(part = "board" /\ Board!Works)
    /\ WF_recipes(part = "recipes" /\ Recipes!Locked)
    /\ WF_recipes(part = "recipes" /\ Recipes!Watch)

-----------------------------------------------------------------------------
\* The requests', the board's and the recipes' state is well formed (WorkSend, WorkBoard,
\* RunRecipes); in particular no tasks wait for each other (workDependencies.ts).
WorkTypes == TypeOK /\ Board!TypeOK /\ Board!NoCircle /\ Recipes!TypeOK

\* A request file is removed as received only when it is part of the saved board
\* (WorkBoard, workInbox.ts).
AckedIsDurable == Board!AckedIsDurable

\* A confirmed quit leaves nothing behind that was only in memory (WorkBoard,
\* workItemStore.ts).
QuitLosesNothing == Board!QuitLosesNothing

\* A recipe's process is in its agent's entry, and none runs on after stop_all, however
\* starts, stops and watchers cross (RunRecipes, runner.rs).
NoneForgotten == Recipes!LiveIsListed /\ Recipes!NothingOutlivesQuit

\* Nothing waits for ever: the agent gets free for the next request, the inbox empties,
\* and the entry of a process that has ended is cleared (WorkSend, WorkBoard, RunRecipes).
WaitsEnd ==
    \A x \in Agents : []<>(NoneWaits /\ Board!Drained /\ Recipes!Cleared(x))
=============================================================================
