-------------------------------- MODULE MCHooks --------------------------------
(***************************************************************************)
(* TLC instances of what is made of the hooks of the agents' CLIs: the     *)
(* notification hub, the counting of tokens for each CLI, and the lock     *)
(* that keeps the machine awake while somebody works, in one run.          *)
(* A behaviour is one of these; the other machines stay where they begin.  *)
(*   hub     two threads, one question                                     *)
(*   codex   a main thread and a subagent                                  *)
(*   pair    claude, two hooks that overlap                                *)
(*   line    claude, one hook and longer transcripts                       *)
(*   keeps   agy, a session that keeps to its conversation and its app     *)
(*   moves   agy, two conversations and a restart of the app               *)
(*   awake   the wake lock                                                 *)
(***************************************************************************)
EXTENDS NotificationHub

CONSTANTS
    h1, h2, q1,
    \* Of CodexUsage, the first two of ClaudeUsage too.
    Main, Subs, Parent, Models, TailRows, CodexRows, CodexRestarts,
    \* Of ClaudeUsage, for the parts "pair" and "line".
    TailLines, MaxIds, PairHooks, PairLines, PairRestarts, LineHooks, LineLines, LineRestarts,
    \* Of AgyUsage, for the parts "keeps" and "moves".
    Conv, KeptHistory, KeptRows, Convs, MovedHistory, MovedRows, MovedRestarts,
    \* Of KeepAwake.
    Agents, ReleaseDelay, RenewInterval, Lease, Late, MaxActs

\* The main thread started every subagent.
ByMain == [s \in Subs |-> Main]

VARIABLES
    part, restarts,
    row, cut, since, cur, state, due, base, charged, finals,
    file, torn, ids, turn, mark, from, counted, earlier, hook,
    rows, answers, before, conv, open, watermark,
    page, phase, copy, ctl, calls, saves, setting, news, active, left, looked, unneeded,
    needed, acts

Codex ==
    INSTANCE CodexUsage WITH torn <- cut, MaxRows <- CodexRows, MaxRestarts <- CodexRestarts

Pair ==
    INSTANCE ClaudeUsage WITH Hooks <- PairHooks, MaxLines <- PairLines,
        MaxRestarts <- PairRestarts
OneHook ==
    INSTANCE ClaudeUsage WITH Hooks <- LineHooks, MaxLines <- LineLines,
        MaxRestarts <- LineRestarts

Keeps ==
    INSTANCE AgyUsage WITH counted <- answers, earlier <- before, turn <- open,
        mark <- watermark, Convs <- {Conv}, History <- KeptHistory, MaxRows <- KeptRows,
        MaxRestarts <- 0
Moves ==
    INSTANCE AgyUsage WITH counted <- answers, earlier <- before, turn <- open,
        mark <- watermark, History <- MovedHistory, MaxRows <- MovedRows,
        MaxRestarts <- MovedRestarts

Awake == INSTANCE KeepAwake

ASSUME InstancesFit ==
    /\ Codex!ConstantsFit /\ Pair!ConstantsFit /\ OneHook!ConstantsFit
    /\ Keeps!ConstantsFit /\ Moves!ConstantsFit /\ Awake!ConstantsFit

codex  == <<row, cut, since, cur, state, due, base, charged, finals>>
claude == <<file, torn, ids, turn, mark, from, counted, earlier, hook>>
agy    == <<rows, answers, before, conv, open, watermark>>
awake  == <<page, phase, copy, ctl, calls, saves, setting, news, active, left, looked,
            unneeded, needed, acts>>
allVars == <<part, restarts, vars, codex, claude, agy, awake>>

IsHub == part = "hub"
MCInit ==
    /\ part \in {"hub", "codex", "pair", "line", "keeps", "moves", "awake"}
    /\ Init /\ Codex!Init
    /\ IF part = "pair" THEN Pair!Init ELSE OneHook!Init
    /\ IF part = "moves" THEN Moves!Init ELSE Keeps!Init
    /\ Awake!Init
    /\ part \notin {"keeps", "moves"} => rows[Conv] = 0
    /\ part # "awake" => ~setting

MCNext ==
    /\ UNCHANGED part
    /\ \/ IsHub /\ Next /\ UNCHANGED <<restarts, codex, claude, agy, awake>>
       \/ part = "codex" /\ Codex!Next /\ UNCHANGED <<vars, claude, agy, awake>>
       \/ part = "pair" /\ Pair!Next /\ UNCHANGED <<vars, codex, agy, awake>>
       \/ part = "line" /\ OneHook!Next /\ UNCHANGED <<vars, codex, agy, awake>>
       \/ part = "keeps" /\ Keeps!Next /\ UNCHANGED <<vars, codex, claude, awake>>
       \/ part = "moves" /\ Moves!Next /\ UNCHANGED <<vars, codex, claude, awake>>
       \/ part = "awake" /\ Awake!Next /\ UNCHANGED <<restarts, vars, codex, claude, agy>>

\* The fairness of NotificationHub.
MCSpec ==
    /\ MCInit /\ [][MCNext]_allVars
    /\ \A t \in Threads : WF_vars(IsHub /\ Goes(t))
    /\ SF_vars(IsHub /\ Tick)

-----------------------------------------------------------------------------
\* The types of the hub's, the counters' and the lock's state (NotificationHub,
\* CodexUsage, ClaudeUsage, AgyUsage, KeepAwake).
HookTypes ==
    /\ TypeOK /\ Codex!TypeOK /\ Awake!TypeOK
    /\ IF part = "pair" THEN Pair!TypeOK ELSE OneHook!TypeOK
    /\ IF part = "moves" THEN Moves!TypeOK ELSE Keeps!TypeOK

\* While the app runs no CLI's response is counted twice, for overlapping, repeated or
\* late hooks; a codex row not even across restarts, and to the model of its place, and a
\* codex turn has one final count (codex_usage.rs, event.rs, mod.rs).
CountedOnce ==
    /\ Codex!ChargedOnce /\ Codex!OneFinal /\ Codex!RightModel /\ OneHook!NeverTwice
    /\ IF part = "moves" THEN Moves!OncePerRun ELSE Keeps!OncePerRun

\* Nothing the counters have passed is left out: neither what was torn when it was read
\* or written while it was, nor the turn of a resumed agy conversation (event.rs).
NoneMissed ==
    /\ Codex!PassedIsCharged /\ OneHook!NoneMissed
    /\ part # "moves" => Keeps!CountedExactly

\* The machine is kept awake while somebody works, but for one renewal interval after
\* calls that passed each other, and not longer than a lease when nobody does (KeepAwake,
\* power.rs, keepAwake.ts).
AwakeAsNeeded == Awake!LetGo /\ Awake!KeptAwake
=============================================================================
