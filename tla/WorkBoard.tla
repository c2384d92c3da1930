-------------------------------- MODULE WorkBoard --------------------------------
(***************************************************************************)
(* The task board and its inbox.  Agents leave one request per file in     *)
(* work-inbox (work_inbox_cli.rs); every three seconds the renderer scans  *)
(* it (workInbox.ts, work_inbox.rs), applies what it finds to the tasks in *)
(* memory (workItemStore.ts), saves them all in one file                   *)
(* (work_panels_store.rs) and only then removes or rejects the request     *)
(* files.  People edit the same tasks, saves fail, the app crashes and     *)
(* quits (lifecycle.ts).                                                   *)
(*                                                                         *)
(* Of a task the text, whether it is done and its prerequisites are kept.  *)
(***************************************************************************)
EXTENDS Naturals, Sequences, FiniteSets, SequencesExt

CONSTANTS
    Ids,        \* ids of tasks
    Files,      \* request files, numbered in the order of their names
    Request,    \* Files -> what the file asks for
    MaxBatch,   \* MAX_BATCH: files one scan takes
    MaxEdits,   \* bound: changes people make
    MaxFaults   \* bound: saves and acknowledgements that fail, crashes

Texts == {Request[f].text : f \in Files} \cup {"person"}

ConstantsFit ==
    /\ Files \subseteq Nat /\ IsFiniteSet(Files)
    /\ \A f \in Files :
         /\ Request[f].kind \in {"add", "done", "delete", "edit", "bad"}
         /\ Request[f].id \in Ids /\ Request[f].after \subseteq Ids
    /\ MaxBatch \in Nat \ {0} /\ MaxEdits \in Nat /\ MaxFaults \in Nat

VARIABLES
    unsent,    \* files nobody has written yet
    inbox,     \* files in work-inbox
    acked,     \* (history) files removed as received
    rejected,  \* files moved to rejected/
    disk,      \* work-items.json: id -> task, of the tasks there are
    durable,   \* (history) files whose request is part of disk
    app,       \* "up", "down", or "closed" by a confirmed quit
    items,     \* the tasks in memory
    applied,   \* (history) files whose request is part of items
    loaded, dirty, error, armed,   \* the store's flags; armed: its save timer
    saving,    \* the save under way, or NoSave
    on,        \* the inbox timer
    cycle,     \* the receive under way
    quitting,  \* flushWorkPanelWrites waits
    count      \* edits and faults so far

store == <<items, applied, loaded, dirty, error, armed, saving>>
vars == <<unsent, inbox, acked, rejected, disk, durable, app, store, on, cycle,
          quitting, count>>

NoSave == [busy |-> FALSE, snap |-> <<>>, of |-> {}, moved |-> FALSE, written |-> FALSE]
Idle   == [pc |-> "idle", stale |-> FALSE, files |-> <<>>, acks |-> {}, rejects |-> {}]

\* No task: the function with an empty domain.
NoTasks == <<>>

Init ==
    /\ unsent = Files /\ inbox = {} /\ acked = {} /\ rejected = {}
    /\ disk = NoTasks /\ durable = {}
    /\ app = "up" /\ items = NoTasks /\ applied = {}
    /\ loaded = FALSE /\ dirty = FALSE /\ error = "none" /\ armed = FALSE
    /\ saving = NoSave /\ on = TRUE /\ cycle = Idle /\ quitting = FALSE
    /\ count = [edits |-> 0, faults |-> 0]

Fault == count.faults < MaxFaults /\ count' = [count EXCEPT !.faults = @ + 1]

-----------------------------------------------------------------------------
(* Requests applied to the tasks b                                          *)

Without(b, id) ==
    [i \in DOMAIN b \ {id} |-> [b[i] EXCEPT !.deps = @ \ {id}]]

With(b, id, task) == [i \in DOMAIN b \cup {id} |-> IF i = id THEN task ELSE b[i]]

\* reaches: from waits, directly or not, for target.
Awaited(b, ids) == ids \cup UNION {b[i].deps : i \in ids \cap DOMAIN b}
Reaches(b, from, target) ==
    target \in FoldSet(LAMBDA i, ids : Awaited(b, ids), {from}, DOMAIN b)

\* Seeded fault: the prerequisites are not looked through.
KeptShallow(b, id, wanted) == {d \in wanted : d # id /\ d \in DOMAIN b}

\* explainDependsOn.
Kept(b, id, wanted) ==
    {d \in wanted : d # id /\ d \in DOMAIN b /\ ~Reaches(b, d, id)}

\* importInbox: all new tasks first, then their prerequisites one after the other.
New(b, fs) ==
    SelectSeq(fs, LAMBDA f : Request[f].id \notin DOMAIN b
        /\ \A g \in ToSet(fs) : Request[g].id = Request[f].id => f <= g)

Imported(b, fs) ==
    LET new == New(b, fs)
        raw == FoldLeft(LAMBDA c, f : With(c, Request[f].id,
                   [text |-> Request[f].text, done |-> FALSE, deps |-> Request[f].after]),
                 b, new)
    IN FoldLeft(LAMBDA c, f : [c EXCEPT ![Request[f].id].deps =
                                 Kept(c, Request[f].id, Request[f].after)], raw, new)

\* A file that is added or found again as it is; the others have a taken id.
Added(b, fs) == {f \in ToSet(fs) : \/ f \in ToSet(New(b, fs))
                                   \/ Imported(b, fs)[Request[f].id].text = Request[f].text}

\* One request of applyInbox.
Changed(b, f) ==
    LET r == Request[f] IN
    CASE r.id \notin DOMAIN b -> b
      [] r.id \in DOMAIN b /\ r.kind = "done" -> [b EXCEPT ![r.id].done = TRUE]
      [] r.id \in DOMAIN b /\ r.kind = "delete" -> Without(b, r.id)
      [] OTHER -> [b EXCEPT ![r.id].text = r.text,
                            ![r.id].deps = Kept(b, r.id, @ \cup r.after)]

ApplyAll(b, fs) ==
    FoldLeft(LAMBDA acc, f :
               [board |-> Changed(acc.board, f),
                ok |-> acc.ok \cup {g \in {f} : Request[f].id \in DOMAIN acc.board}],
             [board |-> b, ok |-> {}], fs)

-----------------------------------------------------------------------------
(* Saving                                                                   *)

Snapshot(b, of) ==
    [busy |-> TRUE, snap |-> b, of |-> of, moved |-> FALSE, written |-> FALSE]

\* flush, with the tasks as they are after this step (and changed by it, or not).
Flush(changed) ==
    /\ armed' = FALSE
    /\ saving' = IF saving.busy THEN [saving EXCEPT !.moved = @ \/ changed]
                 ELSE IF dirty' THEN Snapshot(items', applied') ELSE NoSave

\* A change: dirty, and the timer set again.
Change(b) ==
    /\ items' = b /\ dirty' = TRUE /\ armed' = TRUE
    /\ saving' = [saving EXCEPT !.moved = saving.busy]

TimerFlush ==
    /\ app = "up" /\ armed
    /\ UNCHANGED <<items, applied, dirty>> /\ Flush(FALSE)
    /\ UNCHANGED <<unsent, inbox, acked, rejected, disk, durable, app, loaded, error, on,
                   cycle, quitting, count>>

\* save_work_items: temporary file, fsync, rename.
SaveWritten ==
    /\ saving.busy /\ ~saving.written
    /\ disk' = saving.snap /\ durable' = saving.of
    /\ saving' = [saving EXCEPT !.written = TRUE]
    /\ UNCHANGED <<unsent, inbox, acked, rejected, app, items, applied, loaded, dirty,
                   error, armed, on, cycle, quitting, count>>

\* Seeded fault: a save that fails leaves the receive waiting.
SettledHangs(ok) ==
    IF cycle.pc = "flush" /\ ok THEN [cycle EXCEPT !.pc = "ack"] ELSE cycle

\* Seeded fault: the receive goes on whatever became of the save.
SettledAnyway(ok) ==
    IF cycle.pc = "flush" THEN [cycle EXCEPT !.pc = "ack"] ELSE cycle

\* The receive that awaits this save goes on.
Settled(ok) ==
    IF cycle.pc # "flush" THEN cycle
    ELSE IF ok THEN [cycle EXCEPT !.pc = "ack"] ELSE Idle

\* Whoever awaits a save under which the tasks have changed awaits the next one.
\* Otherwise the file has the tasks in memory, and every request applied to them.
SaveOk ==
    /\ saving.busy /\ saving.written
    /\ error' = "none" /\ dirty' = saving.moved
    /\ durable' = IF saving.moved THEN durable ELSE applied
    /\ IF saving.moved
         THEN /\ saving' = Snapshot(items, applied) /\ armed' = FALSE
              /\ UNCHANGED cycle
         ELSE /\ saving' = NoSave /\ UNCHANGED armed
              /\ cycle' = Settled(TRUE)
    /\ UNCHANGED <<unsent, inbox, acked, rejected, disk, app, items, applied, loaded, on,
                   quitting, count>>

SaveFails ==
    /\ saving.busy /\ ~saving.written /\ Fault
    /\ saving' = NoSave /\ dirty' = TRUE /\ error' = "save"
    /\ cycle' = Settled(FALSE)
    /\ UNCHANGED <<unsent, inbox, acked, rejected, disk, durable, app, items, applied,
                   loaded, armed, on, quitting>>

-----------------------------------------------------------------------------
(* Receiving                                                                *)

\* The tick, and the scan it asks for.
Tick ==
    /\ app = "up" /\ on /\ cycle.pc = "idle" /\ loaded
    /\ cycle' = [Idle EXCEPT !.pc = "scan"]
    /\ UNCHANGED <<unsent, inbox, acked, rejected, disk, durable, app, store, on,
                   quitting, count>>

\* scan, and its answer: what cannot be read is rejected at once.
Scan ==
    /\ cycle.pc = "scan"
    /\ LET sorted == SetToSortSeq(inbox, <)
           batch  == SubSeq(sorted, 1, IF Len(sorted) < MaxBatch THEN Len(sorted) ELSE MaxBatch)
           bad    == {f \in ToSet(batch) : Request[f].kind = "bad"}
       IN /\ inbox' = inbox \ bad /\ rejected' = rejected \cup bad
          /\ IF cycle.stale
               THEN cycle' = Idle /\ UNCHANGED <<armed, saving>>
               ELSE /\ cycle' = [cycle EXCEPT
                           !.pc = IF error = "save" THEN "retry" ELSE "import",
                           !.files = SelectSeq(batch, LAMBDA f : f \notin bad)]
                    \* A save that failed is tried again first.
                    /\ IF error = "save" /\ ~saving.busy
                         THEN armed' = FALSE /\ saving' = Snapshot(items, applied)
                         ELSE UNCHANGED <<armed, saving>>
    /\ UNCHANGED <<unsent, acked, disk, durable, app, items, applied, loaded, dirty, error,
                   on, quitting, count>>

IsAdd(f) == Request[f].kind = "add"

\* ack and rejections list the additions first, each kind in the order of the scan.
First(fs, f) ==
    f \in fs /\ \A g \in fs : IF IsAdd(f) = IsAdd(g) THEN f <= g ELSE IsAdd(f)

\* importInbox, applyInbox and the flush; with an error left nothing is taken in.
Import ==
    /\ \/ cycle.pc = "import"
       \/ cycle.pc = "retry" /\ ~saving.busy
    /\ LET files == IF error = "none" THEN cycle.files ELSE <<>>
           adds == SelectSeq(files, IsAdd)
           reqs == SelectSeq(files, LAMBDA f : ~IsAdd(f))
           done == ApplyAll(Imported(items, adds), reqs)
           ok   == Added(items, adds) \cup done.ok
           \* Only a task that is done already is left as it is.
           changed == \/ New(items, adds) # <<>>
                      \/ \E f \in done.ok : Request[f].kind # "done"
                      \/ done.board # items
       IN /\ items' = done.board /\ applied' = applied \cup ok
          /\ dirty' = (dirty \/ changed)
          \* What changes nothing is part of what is saved already.
          /\ durable' = IF dirty' THEN durable ELSE applied'
          /\ Flush(changed)
          /\ cycle' = [cycle EXCEPT
               !.pc = IF saving'.busy THEN "flush" ELSE "ack",
               !.acks = ToSet(files) \cap ok, !.rejects = ToSet(files) \ ok]
    /\ UNCHANGED <<unsent, inbox, acked, rejected, disk, app, loaded, error, on, quitting,
                   count>>

\* ack and reject_files, a file at a time.
Ack ==
    /\ cycle.pc = "ack"
    /\ \E f \in cycle.acks :
         /\ First(cycle.acks, f)
         /\ inbox' = inbox \ {f} /\ acked' = acked \cup {f}
         /\ cycle' = [cycle EXCEPT !.acks = @ \ {f}]
    /\ UNCHANGED <<unsent, rejected, disk, durable, app, store, on, quitting, count>>

Reject ==
    /\ cycle.pc = "ack" /\ cycle.acks = {}
    /\ \E f \in cycle.rejects :
         /\ First(cycle.rejects, f)
         /\ inbox' = inbox \ {f} /\ rejected' = rejected \cup {f}
         /\ cycle' = [cycle EXCEPT !.rejects = @ \ {f}]
    /\ UNCHANGED <<unsent, acked, disk, durable, app, store, on, quitting, count>>

\* A file that cannot be removed ends the receive.
AckFails ==
    /\ cycle.pc = "ack" /\ cycle.acks \cup cycle.rejects # {} /\ Fault
    /\ cycle' = Idle
    /\ UNCHANGED <<unsent, inbox, acked, rejected, disk, durable, app, store, on, quitting>>

Received ==
    /\ cycle.pc = "ack" /\ cycle.acks = {} /\ cycle.rejects = {}
    /\ cycle' = Idle
    /\ UNCHANGED <<unsent, inbox, acked, rejected, disk, durable, app, store, on, quitting,
                   count>>

-----------------------------------------------------------------------------
(* Agents, people, the app                                                  *)

\* office-task: a new task, or a request about tasks of the saved board.
Put(f) ==
    /\ f \in unsent
    /\ Request[f].kind \in {"add", "bad"} \/ Request[f].id \in DOMAIN disk
    /\ unsent' = unsent \ {f} /\ inbox' = inbox \cup {f}
    /\ UNCHANGED <<acked, rejected, disk, durable, app, store, on, cycle, quitting, count>>

\* edit and remove.
Person ==
    /\ app = "up" /\ loaded /\ count.edits < MaxEdits
    /\ \E id \in DOMAIN items :
         \/ Change([items EXCEPT ![id].text = "person"])
         \/ Change([items EXCEPT ![id].done = ~@])
         \/ Change(Without(items, id))
    /\ count' = [count EXCEPT !.edits = @ + 1]
    /\ UNCHANGED <<unsent, inbox, acked, rejected, disk, durable, app, applied, loaded,
                   error, on, cycle, quitting>>

Load ==
    /\ app = "up" /\ ~loaded
    /\ items' = disk /\ applied' = durable /\ loaded' = TRUE /\ error' = "none"
    /\ UNCHANGED <<unsent, inbox, acked, rejected, disk, durable, app, dirty, armed, saving,
                   on, cycle, quitting, count>>

\* Until a later load succeeds nothing is taken in and nothing is saved.
LoadFails ==
    /\ app = "up" /\ ~loaded /\ Fault
    /\ error' = "load"
    /\ UNCHANGED <<unsent, inbox, acked, rejected, disk, durable, app, items, applied,
                   loaded, dirty, armed, saving, on, cycle, quitting>>

\* startWorkInbox and stopWorkInbox, on a change of the setting.
Switch ==
    /\ app = "up" /\ ~quitting /\ count.edits < MaxEdits
    /\ on' = ~on
    /\ cycle' = [cycle EXCEPT !.stale = @ \/ (on /\ cycle.pc # "idle")]
    /\ count' = [count EXCEPT !.edits = @ + 1]
    /\ UNCHANGED <<unsent, inbox, acked, rejected, disk, durable, app, store, quitting>>

\* flushWorkPanelWrites, from the quit dialog.
Quit ==
    /\ app = "up" /\ ~quitting
    /\ quitting' = TRUE /\ on' = FALSE
    /\ cycle' = [cycle EXCEPT !.stale = cycle.pc # "idle"]
    /\ UNCHANGED <<items, applied, dirty>> /\ IF loaded THEN Flush(FALSE) ELSE UNCHANGED <<armed, saving>>
    /\ UNCHANGED <<unsent, inbox, acked, rejected, disk, durable, app, loaded, error, count>>

\* Seeded fault: the receive under way is not waited for.
QuitEndsEarly ==
    /\ quitting /\ ~saving.busy
    /\ quitting' = FALSE
    /\ IF dirty THEN on' = TRUE /\ UNCHANGED app
                ELSE on' = FALSE /\ app' = "closed"
    /\ UNCHANGED <<unsent, inbox, acked, rejected, disk, durable, store, cycle, count>>

\* The receive is over and so is the save: the window goes, or stays with what it
\* could not save.
QuitEnds ==
    /\ quitting /\ cycle.pc = "idle" /\ ~saving.busy
    /\ quitting' = FALSE
    /\ IF dirty THEN on' = TRUE /\ UNCHANGED app
                ELSE on' = FALSE /\ app' = "closed"
    /\ UNCHANGED <<unsent, inbox, acked, rejected, disk, durable, store, cycle, count>>

\* The person takes the quit back.
QuitCancelled ==
    /\ quitting /\ count.edits < MaxEdits
    /\ quitting' = FALSE /\ on' = TRUE
    /\ count' = [count EXCEPT !.edits = @ + 1]
    /\ UNCHANGED <<unsent, inbox, acked, rejected, disk, durable, app, store, cycle>>

Gone ==
    /\ items' = NoTasks /\ applied' = {} /\ loaded' = FALSE /\ dirty' = FALSE
    /\ error' = "none" /\ armed' = FALSE /\ saving' = NoSave /\ on' = TRUE
    /\ cycle' = Idle /\ quitting' = FALSE

Crash ==
    /\ app = "up" /\ Fault
    /\ app' = "down" /\ Gone
    /\ UNCHANGED <<unsent, inbox, acked, rejected, disk, durable>>

Restart ==
    /\ app = "down" /\ app' = "up"
    /\ UNCHANGED <<unsent, inbox, acked, rejected, disk, durable, store, on, cycle,
                   quitting, count>>

Saves    == TimerFlush \/ SaveWritten \/ SaveOk
Receives == Tick \/ Scan \/ Import \/ Ack \/ Reject \/ Received
Next ==
    \/ Saves \/ SaveFails \/ Receives \/ AckFails
    \/ \E f \in Files : Put(f)
    \/ Person \/ Load \/ LoadFails \/ Switch \/ Quit \/ QuitEnds \/ QuitCancelled
    \/ Crash \/ Restart

Spec == Init /\ [][Next]_vars

\* The timers fire, calls are answered, a dialog waits for nothing else, and an app
\* that died is started again.
Works == Saves \/ Receives \/ Load \/ Restart \/ QuitEnds
FairSpec == Spec /\ WF_vars(Works)

-----------------------------------------------------------------------------
(* Properties                                                               *)

IsBoard(b) ==
    /\ DOMAIN b \subseteq Ids
    /\ \A i \in DOMAIN b :
         b[i].text \in Texts /\ b[i].done \in BOOLEAN /\ b[i].deps \subseteq Ids

TypeOK ==
    /\ UNION {durable, applied} \subseteq Files
    /\ IsBoard(disk) /\ IsBoard(items)
    /\ app \in {"up", "down", "closed"} /\ error \in {"none", "load", "save"}
    /\ {loaded, dirty, armed, on, quitting} \subseteq BOOLEAN
    /\ cycle.pc \in {"idle", "scan", "retry", "import", "flush", "ack"}
    /\ UNION {unsent, inbox, acked, rejected} = Files

\* A request file is removed as received only when what it asked for is part of the
\* saved board, whatever failed or crashed on the way.
AckedIsDurable == acked \subseteq durable

\* A confirmed quit leaves nothing behind that was only in memory, and no receive
\* half done.
QuitLosesNothing == app = "closed" => (loaded => disk = items) /\ cycle = Idle

\* Tasks never wait for each other in a circle and never for a task there is not
\* (a plan with such a wait would stand still for ever).
NoCircle ==
    \A id \in DOMAIN items :
        /\ items[id].deps \subseteq DOMAIN items
        /\ \A d \in items[id].deps : ~Reaches(items, d, id)

\* Every request is taken out of the inbox in the end, received or rejected, unless
\* the inbox is off: saves and acknowledgements fail only so often.
Drained == inbox = {} \/ ~on \/ app = "closed"
InboxDrains == []<>Drained

\* What is rejected was not applied: rejected/ holds the files that cannot be
\* carried out (work_inbox.rs, workItemStore.ts).
RejectedIsUnapplied == rejected \cap applied = {}
=============================================================================
