# Verification of Agent Office

Agent Office is a Tauri desktop application: a Rust back end (`src-tauri/src`)
that runs terminals, watches the coding agents in them and automates input, and
a React renderer (`src/renderer`).  This directory holds TLA+ models of the
concurrent core of the back end and of what the renderer does with it, the TLC
runs that check them and the theorems TLAPS proves about them.  Paths below are
relative to the repository; `session/...`, `notification/...` and the like are
under `src-tauri/src`, `workpanels/...` under `src/renderer`.

1. The system - 2. The modules - 3. Runs and what they show - 4. Bounds -
5. Fairness - 6. Proofs - 7. Where code and documents disagree - 8. What is left
out - 9. Plan

## 1. The system

| Part | State it keeps | Operations | Talks to |
|---|---|---|---|
| **Session manager** `session/manager.rs` | `sessions` map agent -> session, per session `state`, `kill_requested`, `handed_off`; the `lifecycle` mutex | create, dispose, on_exit, write_input, dispose_all | registry (`state.rs`), hub (purge), PTY factory, renderer events |
| **Handoff / adoption** `session/handoff_v1.rs` | none of its own | handoff_all at quit, adopt_detached at boot | session manager (without its mutex), sessiond client |
| **sessiond** `sessiond/{daemon,client,protocol}.rs` | table agent -> (sid, master fd, 512K ring, exited, stopping) | Hello, Handoff, List, Adopt, Kill; idle shutdown | Unix socket, passes file descriptors |
| **Input gate** `session/inject.rs` | per agent: async lock, human-uncommitted flag, epoch, revision, generation, holder, human queue | note_human, submit, transition owner, submit_strict | writes to the session through `ManagerSink` |
| **Work send** `work_send.rs`, `work_send/*`; **bot prompt arms** `state.rs` | active sends, attempted sessions; one mark per agent, 120 s | send, stop, follow_up; arm, consume | input gate, CLI receipts on disk, observer |
| **Notification hub** `notification/hub.rs` | pending queue per session, dedup times, resume watches, held hooks | ingest, emit, flush_expired, observer events, on_output, clear, purge | registry, renderer |
| **Output pipeline** `session/output.rs`, `session/output_batcher.rs` | sink per agent: channel or backlog of 256; 64 KB / 16 ms batches; UTF-8 carry; sequence numbers | attach, detach, pump | renderer channel, hub, session log |
| **Session log** `session_log/*` | per session: bounded queue, a small terminal, the last line and its repetitions; files | start, output, agent lines, finish, sweep | output pump, transcript readers |
| **Work inbox and task board** `work_inbox_cli.rs`, `persistence/work_inbox.rs`, `workpanels/{workInbox,workItemStore,workDependencies}.ts` | request files; tasks in memory with loaded, dirty, error flags; one file of tasks | enqueue, scan, ack, reject; apply, import, save, load, flush at quit | CLI, renderer, `work_panels_store.rs` |
| **Run recipes** `run_recipes/*` | agent -> {pid, token}, shutting_down | start, stop, exit watcher, stop all | process groups |
| **Token usage** `observer/{codex_usage,claude,event,mod}.rs` | per session and thread: how far its rollout, transcript or database has been counted, and what of a turn was reported | prompt, tool and stop hooks | files the CLIs write, hub, diary |
| **Automatic run** `workpanels/autoRun.ts`, `workMonitor.ts`, `workSendStore.ts`, `workItemStore.ts` | the run on its root item, the flight of each root, the last signal of each session, item statuses | start, pause, resume, end, step; observe; send, follow-up, judge | work send, judge calls (`auto_run.rs`), monitor events |
| **Wake lock** `power.rs`, `power/keepAwake.ts`, `timeline/turnReducer.ts` | phase of each agent's turn; held and two timers in the renderer; lock and lease of 180 s in the back end; the setting in both | events reduced to phases; acquire, release, renew every 60 s; setting changed by GUI or CLI; tick every 30 s | hub events, settings, OS inhibitor |
| **Shell activity** `session/shell_activity.rs` | tracker per session | sample, onset 1.2 s, minimum 3 s | hub |
| **Task chat** `task_chat.rs`, `workpanels/taskChatStore.ts` | opening guard per task, limit 4; tabs, opens under way, last state of each chat's session | open, close; session events | session manager, work send |
| **Observer**, **session events**, **usage totals**, **summarizer**, **judge calls** | hook server, event files, counters | parse, append, aggregate, call | files, hub |
| **Stores** `persistence/*`, **control server** `control/*`, **workdir / file index / docs** | JSON files, HTTP routes | load, save, serve | everything above |
| **Renderer** `src/renderer` | Zustand store, terminal registry, office scene | ensureSession, restart, quit dialog, bootstrap adoption | Tauri IPC |

What makes the core hard: threads that share an agent's session under several
small locks instead of one; a PTY wait thread that reports an exit at any time,
also of a session that has been replaced; two threads (handoff, adoption) that
change the map without the lifecycle mutex; a file descriptor that moves between
two processes, either of which may die; a 150 ms window between the body and the
carriage return of an automated input, in which a person may type and the
session may be replaced; timers that race with events; queues that are full;
files that are read while another program writes them, and hooks about them that
come late, twice and together; a renderer whose async steps resume, after a call
that took seconds, in a world that has moved on.

What makes each part correct, in a sentence:

- *Session manager*: an agent has one live session and it is the one input and
  dispose reach; an ended session is never revived; registry, map and what the
  renderer shows agree.
- *Handoff, sessiond*: a session the app was told is handed over is held by the
  daemon the socket names until it is adopted, killed or over; only one process
  reads its terminal; none of its output is lost or repeated.
- *Input gate*: an automated Enter submits exactly its own body; what a person
  types keeps its order and is never withheld for ever; a confirmed send does
  not land on input nobody saw.
- *Work send*: a prompt is read by the CLI that was launched for it; a session is
  launched into once; every request ends and frees its agent.
- *Notification hub*: no duplicate within the dedup window; a question is
  announced only after a quiet hold, and announced or discarded in the end;
  what is cleared is cleared in the renderer too.
- *Output pipeline*: the text is that of the stream however it is cut; a chunk is
  delivered once and in order, or dropped from a full backlog.
- *Session log*: the file, unfolded, is what the terminal showed; it is closed
  when the session is over.
- *Work board*: no request is acknowledged before it is saved; a quit loses
  nothing; prerequisites form no circle.
- *Run recipes*: every process is in its agent's entry; none survives stop_all.
- *Token usage*: a response is counted once, to the model that gave it, and none
  is left out.
- *Automatic run*: the run never rests except to wait for its worker; it ends
  finished or paused for a reason that stays readable.
- *Wake lock*: held while an agent works, let go within a lease when none does.
- *Task chat*: a chat that lives has a tab that says so, or an open or a close
  under way; an open ends; at most four live (not kept, see 7).

## 2. The modules

`SessionLifecycle` refines `AgentSession`.  Theorems are in modules of their own,
named with `_proofs` (section 6), after the machine or, where it is the properties
of a composition that they state, after that (`MCHooks_proofs` has the hub's
theorems too, `MCWork_proofs` those of `WorkSend`; `TokenUsage_proofs` is about
the counters that `MCHooks` instantiates).  The other modules each take a
neighbour as its interface only:
`InjectGate` has of the manager what `write_input_for_session` asks, `WorkSend`
of the gate one step per submission, `HandoffStream` looks at one session's
output where `Sessiond` looks at the table of all, and where `SessionLifecycle`
has sessiond as a set; `SessionLog` starts at the chunks that `OutputPipeline`
ends with.  Operators under a comment "Seeded fault" are plausible wrong versions
of the definition that follows them; nothing refers to them, and PROJECT.json
says which property TLC must find violated when one is put in the place of the
definition.

Four of the `MC...` modules put several machines into one run: `MCTerminal`
(gate, twice; output, twice; log; stream), `MCHooks` (hub, the counters of the
three CLIs with two instances of two of them, wake lock), `MCWork` (send, board,
recipes) and `MCOffice` (daemons, task chats, automatic run).  A variable `part` says which machine a
behaviour is of; the others stay where they begin.  Their state spaces are
therefore added, not multiplied: machines side by side, no interaction
is claimed.  They take the constants of what they compose as their own, so that
a theorem about a composition holds for every value of them; the values TLC uses
are in the `.cfg`.  The assumptions on constants are named ASSUMEs in the module a
composed run extends, and an operator `ConstantsFit` in those it instantiates,
assumed of every instance (`InstancesFit`).

**AgentSession** - the abstract promise: `current` per agent, `life` per session
(unborn, live, doomed, over).  Opened only where nothing is current, an agent
loses only a session that is not live, nothing is reborn.

**SessionLifecycle** - `session/manager.rs` and `session/handoff_v1.rs`, a step
per critical section of the inner locks.  `slot` is the sessions map, `state`,
`kill`, `handed`, `xfer` the fields of a session, `reg` the registry, `shown`
the last event the renderer got, `detached` sessiond's table, `at`/`on` the
threads.  All of create, dispose and `on_exit` hold the `lifecycle` mutex, hence
one thread "lc"; handoff and adoption run beside it.  `CreateBegin`, `Spawn...`
and `Install...` are `create_with_profile` and `install_session`; `Dispose...`
the three disposes; `OnExit...` the five steps of `on_exit`; `Handoff...` and
`Adopt...` the loops of `handoff_all` and `adopt_detached`; `AppRestart` is a
quit or a crash at any step.  `Overlap` says whether a create may run during
adoption or handoff: the renderer waits for both, the control server does not.

**InjectGate** - `session/inject.rs` and the parts of `work_send.rs` that use
it.  `gate` holds `AgentGateInner` and the async lock of every gate an agent
had, since `remove_agent` replaces the gate while others hold the old one;
`claim` is what a producer has read and relies on; `wire` is what each session
was sent.  `TypeBegin`/`TypeEnd` are `note_human` before and after it takes the
mutex; `PlainLock` to `PlainCr` are `submit`; `InspectRevision` to `Unqueue` are
a work send (inspect, send, transition owner, `submit_strict` and its guard);
`Abandon` drops the future in the middle; `Dispose`, `DisposeConfirmed` and
`RemoveAgent` are `dispose_session`.  Text is only what it leaves on the input
line: open, closed, or reopened after an Enter.

**NotificationHub** - `notification/hub.rs` for one session (the hub keys all by
session id), a step per mutex or event, with the store of the renderer and
`terminateSession.ts`.  `job` is the call each thread is in.  Time is ages in
units of about a second; `Tick` waits until no call is in progress, so a table
of clocks read within one call cannot differ.  The text of a Stop is one key.

**HandoffStream** - one session's output as numbered units through the kernel
buffer `tty`, the two `PollReader`s (poll, read, pass on), the app's xterm or
backlog (`screen`), the snapshot and the ring.  `Quit`, `Interrupt`, `Send`,
`AppExit`, `AdoptBegin`, `Adopt` follow `ConfirmQuitDialog.tsx`, `handoff_one`
and `handle_adopt`.

**Sessiond** - `sessiond/daemon.rs` and `client.rs`, with the callers.  `path` is
the daemon whose listener the socket file is; `conns` the connections with what
the daemon's thread does at the end of each (check, unlink, exit); `timer` the
first-handoff thread.  `safe` is history: the app was told HandoffOk.

**WorkSend** - `work_send.rs` and `work_send/cli_transition.rs` for one agent.
`fg` is who reads its terminal (rc files, the shell's prompt, a CLI, something a
person started), `line` and `inbox` what was typed and not read, `started` and
`returned` the receipts on disk, `pc` and `req` the requests.  `SendBegin` to
`AwaitReady`, `PromptBody`, `PromptEnter` are `send_with_wait` between its awaits,
`FollowBegin` is `follow_up`, `Drop` what the guards undo at every return,
`StopActive` and `StopAll` the cancellations.  `ShellReads` and `CliReads` say
what the launch script does when its line is read, and `PromptSeen` consumes the
bot's mark that `Enter` armed.

**OutputPipeline** - `session/output.rs` and `output_batcher.rs`, one session.
`msgs` runs from the reader thread to the pump, `buf`, `seq` and `timer` are the
batcher's, `bell` the detector's state, `channel` and `backlog` the sink's.
`PumpData` feeds the detector and takes full batches, `Flush` is the batcher's,
with `Decode` for the UTF-8 that may be cut; `Take` is the sink's `emit` for the
chunks of one flush, one after the other, in closed form; `PumpRestore` is the
screen restored after an adoption.  Bytes are the classes that decoder and detector tell apart.

**SessionLog** - `session_log/`.  `queue` is the bounded channel (`dropped` what
it refused), `screen` history: what a terminal of any length would hold, `live`
the lines a redraw may still reach, `file`, `last`, `repeat` the folding writer.
`OnData`, `OnLines`, `Idle`, `OnEof`, `OnDisconnect` are the arms of the log
thread, `Ingest` the thread of the agent's transcript, `Finish` the end of the
session by exit or handoff, `Restart` the next app's `open`, `Sweep` is `gc.rs`.

**WorkBoard** - the inbox and the tasks.  `inbox`, `acked`, `rejected` are files;
`disk` is `work-items.json` and `items` the store; `durable` and `applied` are
history: the requests each contains.  `cycle` has the state of `receiveWorkInbox`
at its awaits (`Scan`, `Import`, `Ack`, `Reject`, `Received`), `saving` the save
under way, `Flush` what starts one, `Settled` what its answer leads to; `Quit`,
`QuitEnds`, `QuitCancelled` follow `lifecycle.ts`.  `First` is the order in which
one receive acknowledges and rejects its files (additions first).  `Kept` and `Reaches` are
`workDependencies.ts`, `ApplyAll` and `Imported` the batch.

**RunRecipes** - `run_recipes/runner.rs`.  `op` is who holds the operations lock,
`entries` the map, `watched` the watcher threads, `tree` the process groups.
`Start`, `Record`, `Stop`, `StopEnds`, `Quit`, `StopAll`, `StopAllEnds` are the
lock's sections; `Watcher` takes out only the entry with its own token.

**CodexUsage**, **ClaudeUsage**, **AgyUsage** - what the observer remembers
between hooks, and what it counts.  Codex: `row` the rollouts, `cur` the cursor
of each thread (where, and the last model and total), `state` whether a turn has
partial counts and its final one; `Seed`, `Charge` and `Advanced` are the reading
of all threads, `Descends` decides which threads belong to the session.  Claude:
`file` the transcripts, `mark` length and message counted last; `Stat` and `Scan`
are `usage_for_path` before and under the lock of the file.  Agy: `mark` the row
index.  All have torn last lines or restarts where the code has to
do with them, and history of what was counted how often.

**KeepAwake** - from the phase of a turn to the lock of the machine.  `phase` and
`copy` are the renderer's store, `ctl` its controller (`held`, what is left of
the timers for release and renewal), `calls` and `saves` the commands on their
way, each a task of its own, `setting` and `news` the back end's setting and its
announcements, `active` and `left` the lock and its lease.  `Event` is the store's
handling of an event with what its subscription does at once; `ReadSetting`,
`SetTrue`, `SetFalse` are `set_keep_awake` before and after it reads the setting;
`Save`, `SaveFails`, `SaveEnds` the GUI's change, `CliSets` the CLI's; `Look` is
the task's tick, `Hang` and `Reload` what may befall the web view.  `needed` and
`unneeded` are history: for how long somebody, or nobody, has worked.

**TaskChat** - chats about tasks, from the tab to the session.  `chats`, `opening`
and `latest` are the renderer's, `calls` the `open_task_chat` under way with what
each has reached (sent, building the context, sending it, ok, failed), `disposes`
the `dispose_session` of closed tabs, `events` the session events on their way,
`slot` and `sess` what the session manager has.  `Open` and `Answer` are
`openTaskChat` before and after its await, `Begin`, `Create`, `Sent` and the two
failures `task_chat.rs::open` between its own; `Exit` is `on_exit`; `Reload` starts
the web view anew.

**AutoRun** - the renderer's automatic run.  JavaScript runs a handler to its
next await, so `flight` has the state of the step at its awaits, and handlers
act only `AtRest`; `Woken` is the store subscription that runs inside the
handler that changed a store.  `PickAndSend`, `Step...`, `Send...`, `Judge...`,
`FollowUp...` are `autoRun.ts`; `Observe` and `Apply` the two halves of
`workMonitor.ts`; `mail` the events the back end has sent and the renderer not
yet seen.  The clock counts submissions and sends begun, the only instants the
code compares.

## 3. Runs and what they show

| Run | Question | Checked |
|---|---|---|
| `session_lifecycle` | a character with two session ids and a task chat, the renderer's discipline | `ShownFollowsSlot`, `NoLiveOrphan`, `RegistryMatches`, `EndedStaysEnded`; the refinement `KeepsPromise`; `KilledIsForgotten` under fairness |
| `terminal` | what goes into a terminal (a work send or two, a plain producer, a person, sessions and gates replaced), what comes out of it, what is written down of it, two handoffs of its output, opened and unopened, with a ring of three | gate: `HumanInOrder`, `CrFollowsItsBody`, `OnlyOverSeenInput`, `QueueDrains` under fairness; output: `StreamPreserved`, `ChunksOnce`, `BellsAreLone`; log: `LogIsTheScreen`, `LogCloses` under fairness; handoffs: `TailContiguous`, `NothingLost` |
| `hooks` | two hook threads, bell, sweeper, pump, person, exit at the hub; late, repeated and overlapping hooks at the counters of three CLIs; turns, the setting and a web view that hangs or reloads at the wake lock | `AnnouncedInTime`, `HeldResolves` under fairness; `CountedOnce` (to the right model), `NoneMissed`; `AwakeAsNeeded` |
| `work` | two sends and a follow-up over two sessions; requests for tasks that wait for each other, with failing saves and a crash; recipes of two agents at quit | `PromptMeetsItsCli`, `LaunchedOnce`; `AckedIsDurable`, `QuitLosesNothing`; `NoneForgotten`; `WaitsEnd` under fairness |
| `office` | two agents, two daemons, a restart or crash of the app; chats about two tasks, one of which may live, with failing opens and a reload; a root run after its prerequisite, one act of a person, end of session or restart | daemons: `HandedOffSurvives`, `FoundAgain`, `IdleDaemonLeaves` under fairness; chats: `ChatsInSight`; run: `RestsOnlyWaiting`, `ReasonKept`; `WorkEnds` (runs and opens) under fairness |
| `session_rehandoff` | *violation*: an adopted session handed off again | `ExitedMeansDead` |
| `inject_stale_gate` | *violation*: input through the gate that was removed | `CrFollowsItsBody` |
| `hub_terminate` | *violation*: the exit overtakes clear | `TerminatedIsQuiet` |
| `chat_limit` | *violation*: two opens pass the limit together | `LimitKept` |
| `auto_run_judge` | *violation*: pause, end and start while the judge is asked | `JudgeKnown` |
| `usage_adopted` | *violation*: an agy turn that is open when the app restarts | `HistoryLeftAlone` |
| `board_reject` | *violation*: a request applied and not acknowledged, and its task changed | `RejectedIsUnapplied` |

Passing runs check their types besides, in one invariant; it also says that no
two readers share a terminal (`TerminalTypes`), that a daemon holding an entry has
noted its first handoff and that no task gets more follow-ups than the limit
(`OfficeTypes`), that no tasks wait for each other in a circle and that whoever is
registered at an agent is under way (`WorkTypes`).  A property of a composed
run may be the conjunction of what its machines promise, where it is one promise
(`CountedOnce`, `WaitsEnd`, `WorkEnds`).

Further instances lie beside these, to be run by hand
(`tlc -config MCHubGone.cfg NotificationHub`).  Those that TLC refutes show
behaviour no document or test of the repository speaks against, or only
under a timing that a listed run excludes by a named constant:

| Configuration (module) | Outcome |
|---|---|
| `MCSessionAdoptRace` (`MCSessionLifecycle`) | `NoLiveOrphan` violated: with a create through the control server during adoption, the adopted session replaces a live one in the map |
| `MCSessionList` (`MCSessionLifecycle`) | `ListShowsRunning` violated: a replaced, exited session stays in the registry and may be the entry `list` shows |
| `MCHubGone` (`NotificationHub`) | `GoneStaysQuiet` violated: the session ends between the lookup and the emission |
| `MCHubFreshStop` (`NotificationHub`) | `FreshStopSurvives` violated: the burst after one Stop takes away the notification of the next |
| `MCHubNoHold` (`NotificationHub`) | `EmissionsApart` violated with hold 0: two threads pass the dedup check of one question together |
| `MCStreamSlowReader` (`HandoffStream`) | `NothingLost` violated when the reader needs more than the 20 ms |
| `MCStreamSnapshot` (`HandoffStream`) | `ScreenKept` violated: what arrives between the serialization of an opened terminal and its handoff is in neither snapshot nor ring |
| `MCSessiondOverlap` (`Sessiond`) | `HandedOffSurvives` violated: a handoff in the instructions between a daemon's decision to leave and its exit |
| `MCWorkSendMark` (`WorkSend`) | `PersonIsNoBot` violated: a bot's mark that its own prompt never used up is consumed by what a person submits within its 120 s |
| `MCClaudeRecount` (`ClaudeUsage`) | `RecountIsOneTurn` violated: after a restart the scan of a subagent's transcript, which holds no prompt of a turn, counts all its earlier turns again |
| `MCKeepAwakeOff` (`KeepAwake`) | `OffReleases` violated: a word of the renderer that has read the setting before it was switched off renews the lease after the release; the lock goes with its lease (`LetGo`) |
| `MCTaskChatOther` (`TaskChat`) | `OnlyItsOwn` violated: the disposal for a closed tab names no session; coming late it ends the chat opened since |
| `MCAutoRunEarly` (`MCAutoRun`) | `NewTurnAwaited` violated: the monitor's store wakes the run before the status is applied, so that after a late signal the unfinished turn is judged |
| `MCAutoRunLate` (`MCAutoRun`) | `RunSettles` violated: a follow-up's turn that ends before the answer to its call, or while the app is down, leaves the run waiting |

Three more properties are stated at the end of their modules and violated, with
no configuration of their own: `NoPromptInShell` (`WorkSend`: a CLI that returns
between the last look at its receipt and the prompt leaves the prompt to the
shell), `DialogueInOrder` (`SessionLog`: a line the screen keeps live is written
after dialogue that came later) and `LiveLogStays` (`SessionLog`: the sweep
removes the file of a session that has been quiet for five minutes).

Deadlock is checked for the session lifecycle, which can always restart.  The
other configurations say `CHECK_DEADLOCK FALSE` because their systems may really
stop: a person need not type, send or quit, and the named bounds run out; what
must nevertheless happen is stated as liveness.

## 4. Bounds

- *Session lifecycle*: no bound but the constants.  Two ids for one agent are what it takes to
  replace a session, and `AppRestart` lets either be handed off, adopted and
  handed off again without end; the chat is the agent that quitting discards.
  An id is drawn once, as UUIDs are.
- *Input gate*: two producers (a strict and a plain one, or two strict ones), two
  sessions, `MaxGates` gates, `MaxTyped` pieces of human input (two show order),
  `MaxBodies` one body per session (a second send goes to the second session or
  fails its claim).
- *Work send*: `MaxReqs` 2 of two sends and a follow-up (the second finds the
  first active, cancelled or done), `MaxSessions` 2 (the first is replaced under a
  request), `MaxTyped` 1.
- *Output*: `MaxBytes` 4 of up to `MaxRead` 2 bytes a read; `MaxBatch` 4 so that a
  batch fills; alphabets with what a character (lead and continuation) and a
  control string (escape, opener, BEL) need.  `BacklogCap` 1: the second chunk
  drops the first.  `MaxSubs` 3 attachments.
- *Log*: `Rows` 1 below `LiveRows` 2, so that a line can be live and out of a
  redraw's reach; `QueueCap` 2 for two chunks and a line of dialogue, so that
  the queue fills; one restart, one sweep.
- *Hub*: `Window`, `Hold`, `Grace` and the rest are the code's times scaled and
  keep their order (`TimesAssumption` asserts that the grace is not longer than
  the watch or the window).  `MaxNotes` 2: the least that shows
  a duplicate.  One question: another text only replaces the first.
- *Counters* (the constants of `MCHooks` from `Main` to `MovedRestarts`): codex a main thread and one subagent, two models, four rows in all
  (a model, a count, another model, a count in one thread); the tail reaches three
  rows.  Claude three responses over three lines with two hooks, four with one
  (an uncounted line between two scans needs three); the tail covers the
  file, as `NoneMissed` says.  Agy five rows in one conversation or three in each
  of two, with a history.
- *Wake lock*: one agent (the code looks at whether any works); the times of the
  code in half minutes, `Late` 1 of them for a timer; `MaxActs` 2 changes of the
  setting, failed saves, hangs and reloads.
- *Stream*: `RingCap` 3 with `MaxOut` 6 fills the ring and overflows it;
  `MaxTrips` 2 hands an adopted terminal over again.
- *Sessiond*: `Daemons` two, since a second daemon is the interesting one;
  `MaxConns` 3 (quit, boot, quit), `MaxStarts` 1 restart.
- *Task chats*: two tasks and a limit of one, so that one chat stands in the other's
  way (four in the code: the limit is compared with a count only); `MaxSessions` 2,
  so that a chat is opened again after it ended (3 by hand: 440 668 states, the
  same result); `MaxReloads` 1.
- *Work board*: four requests for two tasks (two additions that name each other, a
  change that would close the circle, a deletion); `MaxBatch` 3, so that one file
  waits for the next scan; `MaxEdits` 1 act of a person or cancelled quit,
  `MaxFaults` 1 failed save, failed acknowledgement, rejected load or crash.
- *Recipes*: two agents, `MaxRuns` 3 processes: one agent can be started again
  while the watcher of its last process is late.
- *Automatic run*: `MaxSessions` 3 sends that reach a session, `MaxFollowUps` 1
  (3 in the code: the counter is compared with the limit only), `MaxActs` 1
  for acts of a person, ends of the session and restarts together.

## 5. Fairness

- *Session lifecycle*: a thread that holds the lifecycle mutex goes on (weak); a
  killed child dies (weak; SIGKILL); a wait thread whose wait returned gets the
  mutex in the end (strong, for others take it in between; parking_lot's mutex
  is eventually fair).  No one has to create, dispose or quit.
- *Input gate*: a submission begun ends (weak): the 150 ms are a timer, every
  guard's drop runs, and the owner's waits have deadlines.  The person's input
  reaches the gate (weak).
- *Work send*: a task of the runtime that can go on goes on (weak); its waits for
  receipts have deadlines, which are steps of the request itself.  Shell, CLI and
  person promise nothing.
- *Log*: the log thread runs (weak) and the ingest thread looks at its flag every
  two seconds (weak).
- *Hub*: a call begun goes on, the sweeper's interval fires (weak); time passes
  (strong, since `Tick` waits for a moment without calls and hooks may keep
  coming).
- *Sessiond*: the daemon's threads run (weak); the app promises nothing.
- *Task chats*: for each task something of its open goes on (weak): git, the launch
  and the waits for the CLI have deadlines.
- *Work board*: the renderer's timers fire and its calls are answered, a quit that
  waits for nothing else ends, and an app that crashed is started again (weak, on
  the disjunction: JavaScript has one thread, so it is enough that something of
  its work goes on).  A person promises nothing.
- *Recipes*: who holds the lock lets go of it after at most 250 ms, and watchers
  poll (weak).  That a process ends is not assumed.
- *Automatic run*: handlers and events run (weak); calls answer and turns end
  (strong, for handlers come in between).  Calls have timeouts in the back end;
  that a turn ends is an assumption about the worker, as the property's comment
  says.  A person promises nothing.
- The stream, the output pipeline, the counters and the wake lock have safety
  properties only.  For the wake lock they speak of time and rest on commands
  that are over within half a minute and on timers that are at most `Late` late.

## 6. Proofs

Each theorem holds for every set of agents, ids, requests, producers, daemons,
tasks and every bound.  The assumptions on constants are those the modules
declare by name (ids are distinct from the value for none, bounds are numbers,
prerequisites are tasks, ...); what is assumed beyond them is in the hypothesis
of the theorem and in the table.  Where a hypothesis excludes something the
program can do, a configuration shows what happens then.  TLC checked every
inductive invariant below on a small instance before it was proved.

| Theorem | States | Under |
|---|---|---|
| *`SessionLifecycle_proofs`* | | |
| `PromiseKept` | of `AgentSession`: a live session is the current one of its agent, hence the only one | |
| `Invariance`, `TypeSafety` | `IInv`, `TypeOK` | |
| `RegistryAgrees` | `RegistryMatches` | |
| `NeverRevived` | the action property `EndedStaysEnded` | |
| `Discipline` | `IInv` and `DInv` | no create beside adoption or handoff (`Overlap = {}`) |
| `Refinement` | `KeepsPromise`: the manager implements `AgentSession` | the same; otherwise `MCSessionAdoptRace` |
| `OneSession` | `NoLiveOrphan` | the same |
| `RendererFollows` | `ShownFollowsSlot` | the same |
| *`InjectGate_proofs`* | | |
| `GateOwned`, `TypeSafety` | `GInv`, `TypeOK` | |
| `HumanOrder` | `HumanInOrder` | the gate is not replaced (`MaxGates = 1`); otherwise `MCInjectStaleGate` |
| `EnterFollowsBody` | the action property `CrFollowsItsBody` | the same |
| `SendsOverSeenInput` | the action property `OnlyOverSeenInput` | the same |
| `EnterClosesOwnBody` | the action property `CrClosesOwnBody`, for any `MaxGates` | producers are strict (`Plain = {}`) |
| *`AutoRun_proofs`* | | |
| `RestsWhileWaiting` | `RestsOnlyWaiting` | |
| `PauseKeepsReason` | the action property `ReasonKept` | |
| `FollowUpsLimited` | no task gets more follow-ups than `MaxFollowUps` | |
| *`MCOffice_proofs`* | | |
| `ChatsStayInSight` | `ChatsInSight` | |
| `HandedOff`, `FoundByTheNext` | `HandedOffSurvives`, `FoundAgain` | no request between a daemon's decision to leave and its exit (`~Overlap`); otherwise `MCSessiondOverlap` |
| `OneDaemon` | no second daemon beside one that runs or is about to bind | the same |
| *`MCTerminal_proofs`* | | |
| `NoChunkTwice` | `ChunksOnce` | |
| `NoDoubleReader`, `UnopenedIsWhole`, `AdoptedTail` | `OneReader`, `NothingLost`, `TailContiguous` | a reader stops within the 20 ms (`InTime`); otherwise `MCStreamSlowReader` |
| *`MCWork_proofs`* | | |
| `PromptsMeet`, `Launches`, `SendTypes` | of `WorkSend`: `PromptMeetsItsCli`, `LaunchedOnce`, `TypeOK` | |
| `NothingAckedEarly`, `NothingLostAtQuit` | `AckedIsDurable`, `QuitLosesNothing` | |
| `NoProcessForgotten` | `NoneForgotten` | |
| *`MCHooks_proofs`* | | |
| `HubInvariant` | `HubInv` | |
| `AnnouncedOnlyAfterQuiet` | the action property `OnlyAfterQuiet` | |
| `NotTwiceInTheWindow`, `AnnouncementsInTime` | the action properties `EmissionsApart`, `AnnouncedInTime` | the hold is not shorter than the window (`Hold >= Window`; 5 s and 3 s in the code); otherwise `MCHubNoHold` |
| `LockIsLetGo` | `LetGo` | |
| `KeptAwakeAsNeeded` | `AwakeAsNeeded` | a lease outlasts a late renewal (`Lease > RenewInterval + Late`; 180 s, 60 s and 30 s in the code's terms) |
| *`TokenUsage_proofs`* | | |
| `TokensOnce` | `CountedOnce` | |
| `NoTokensMissed` | `NoneMissed` | claude's transcripts are no longer than the tail that is read of them (`PairLines <= TailLines /\ LineLines <= TailLines`); beyond it, responses are left out |

**Session lifecycle.**  `RegistryMatches` and `EndedStaysEnded` are not inductive:
`InstallSlot` writes state "starting" for a session without looking, which
would break both if that session were already known to this app run.  So `IInv`
adds that an id about to be installed is `Unknown` (no state, no registry entry,
no wait thread, in no slot).  For a create that follows from `UnspawnedUnknown`
(ids are drawn fresh); for an adoption from `DetachedUnknown` (while the app
adopts, what sessiond holds is unknown here, for the app has just started and a
handoff cannot run before the adoption is over).  `Apart` keeps the two
installing threads on different sessions, `ExitingOnce` has `on_exit` run once
and on a live session, so that a late "Running" finds "exited" and its compare
fails.  One lemma per group of actions (create and install, exit, dispose,
handoff, adoption, restart) treats each action in a step of its own.

The refinement needs what the discipline of the renderer gives (`DInv`): a slot
holds a session of its agent that this app run knows (`SlotKnown`); a session
being installed finds its slot empty and keeps it until it runs, and no create is
under way during the adoption (`SlotKept`); sessiond holds one session per agent,
and the app knows no other of that agent until it has adopted it (`AdoptFresh`);
what is handed off is in its slot, or the slot is empty, and no create is for its
agent (`HandoffAlone`).  Then each action maps to
one of `AgentSession`'s or to a stutter; a handoff and a crash, after which
sessiond holds the session, are stutters.  `OneSession` is not proved again: it
is `PromiseKept` carried over the refinement.  `RendererFollows` adds `ShownInv`:
if the renderer does not show the slot's state, somebody who is to tell it is
under way (`Telling`).

**Input gate.**  `GInv` says of every gate, of the removed ones too, that its lock
has one owner (`OneOwner`), that it queues only while that owner is between body
and Enter (`QueueHeld`), and that gates before the current one carry generation
1 (`Generations`); `Counted` bounds revision and queue by what was typed, which
`TypeOK` needs.  For order (`InOrder`), what people typed on every wire ascends
and is older than what is queued, which ascends too; `BodyWritten` places a
sleeper's body at the end of its wire, since with one gate everybody else queues
or waits for the lock; `SeenCounted` ties the revision a claim carries to what had
been typed at the confirmation.  Input on its way through a removed gate breaks
this: see the run `inject_stale_gate`.  `EnterClosesOwnBody` needs `BodyLast` and `ClaimPast` instead: no producer but
the sleeper writes a body while its gate is current, and a removed gate's
generation stops its Enter.

**Work send.**  `ReceiptsInv`: the prompt's text is on the terminal, or its request
about to put it there, only after the launch's started receipt
(`PromptsStarted`), and a launch with a started receipt is in the foreground
until it is over (`Receipts`).  `LaunchInv`: one request is registered at a time
and it alone passes `Check` (`OneAtATime`); a session that a request not
cancelled has yet to launch in was not tried (`Tried`); hence one launch line per
session (`OneLaunchPerSession`).

**Automatic run.**  `RestInv` adds to `RestsOnlyWaiting` that while a send is being
saved the run is marked to be looked at again (`SavedAgain`); the rest is that
every handler that changes what `Waits` speaks about wakes the run (`Awake`) or
leaves it as it was (`WaitsSame`).  `WithinLimit` has a follow-up under way begin
below the limit and nobody raise the count until it is answered.

**Sessiond.**  `DInv`: whoever holds an entry runs and has noted its first handoff
or has a connection about to (`Held`), whoever has decided to leave holds nothing
(`LeaversEmpty`), whoever stays is named by the path (`Named`), there is one
(`Alone`), and one that has yet to bind was started by this quit or the app is
gone (`Asked`).  `Alone` is what `Named` needs when a daemon binds, and `Asked`
what `Alone` needs when a quit starts one.

**Task chats.**  That a chat has a tab is about two programs that tell each other
late, so `CInv` says what is under way.  A call of the page that is there has its
task marked and no tab yet, and a session it has made is its task's (`CallsTrue`);
one call at a time makes a session of a task (`OneCall`), because the back end's
guard is held from the first look to the answer; so a session that runs is the one
in its task's slot (`InSlot`).  What a tab or an answer names is the newest session
of its task, and if that has ended, either an event that says so is on its way,
the last about this task, or it was the last one heard (`ShownTrue`, with `Coming`
and `Known`); no event says it of a session that lives (`NewsTrue`).  Without the order of the events
(`Coming` is about the last of them) the invariant is not inductive: an old
"running" could overtake the end.

**Output's sink.**  `Delivered`: chunks seen ascend, as do those that wait, and come
before them; seen, waiting and lost together are all the numbers given out, and
nothing is lost that was seen or waits; nothing waits while a page listens.  The
last part is what keeps an attach from delivering old chunks after new ones, and
`ChunksOnce` does not say it.

**Stream.**  Output is numbered, and `SInv` says that each place holds a run of
consecutive numbers that ends where the next begins: the kernel's buffer ends
with what was produced last (`Waiting`), the screen after its snapshot, or the
ring, with what was read and handed on last (`AppReads`, `DaemonReads`), and of
a terminal nobody opened screen, or snapshot and ring, hold all of it
(`AllShown`, `AllKept`).  `AppendRun`, `TailRun`, `NewestRun` and `ConcatRun` say
what the operators on sequences do to a run.

**Work board.**  `AckedIsDurable` compares files with a board saved at some
earlier time, so `CopiesAgree` relates the three copies: what is not dirty is on the disk;
a save under way holds everything that is durable and nothing that is not applied;
if nothing has moved since it began, it is what is in memory; once written it
is the disk.  `ReceiptsCovered` follows a receive: what it will acknowledge
is in memory while it waits, and durable from the moment it goes on.  `ClosedIsDone`
is the quit: the window is closed only when nothing is dirty and no receive is
open.

**Recipes.**  `Processes` and `LockHeld` say what the holder of the operations lock
has in hand: a start has a process with no entry yet, a stop one whose entry it
has taken out.  `Closing`: `stop_all` sets its flag before it waits for the lock, a
start looks at it under the lock, so there are no entries once `stop_all` has had it.

**Hub.**  `HubInv` says at which place each thread's call may be and that a held
question has waited no longer than the session was quiet; this gives
`OnlyAfterQuiet`.  For the window, `ApartInv` adds that only the sweeper announces
questions, that the recorded time of a key is not older than its last notification
(`SeenCovers`), that a Stop or bell on its way has claimed its key alone
(`Claimed`), and that a held question was notified last before it was held or longer
ago than the window, and is not in the sweeper's hand at the same time with an old
timer (`HeldInTime`).  The last part is where `Hold >= Window` is needed: the dedup
check of a held question is taken when it comes, its notification is made a
hold later.

**Wake lock.**  `AInv`: a renewal timer runs exactly while the page has a reason
(`TimersTrue`), and once nobody has worked for half a minute no word that would
renew is on its way, so that the lease and the idle time together stay within a
lease (`Unneeded`).  This gives `LetGo`.  `KInv`: once somebody has worked for half a
minute no word that would release is on its way (`Steady`), and the last
renewal has been handled, with a lease left that covers the time to the next one, or is on its
way to a lock that is held (`Covered`).  `Renewed` is where
`Lease > RenewInterval + Late` is needed.

**Counters.**  `Books` is the conjunction of an invariant for each CLI, kept by
one step of the composition (`BooksKept`).

- *Codex* (`CodexInv`): a thread's cursor is on a row that was read and knows the
  total there, and the model if one was named since its base (`Placed`); each row was
  charged at most once, not beyond the cursor while that is set, to the model of its
  place, and it was charged if it counts and lies between base and cursor
  (`ChargedRight`).  A thread is left alone, seeded, read or forgotten by a step
  (`Stays`, `Seeds`, `Reads`, `Forgets`), with a lemma for each.  `Totals` has each
  count raise the total, so that comparing it with the cursor's leaves none out,
  and `ModelCarried` says that the model a reader carries from the cursor is the one it
  would find from the start.  A thread that began in sight is read from its first row only as
  long as it has no cursor and none of its rows was charged; that is what keeps a
  subagent found late from being counted twice.
- *Claude* (`ClaudeInv`): responses are numbered as they are written, in each file
  they ascend, and none is in two files (`Written`); the message of a watermark
  is in its file, on a line that is whole (`Marked`), and what lies above it is not
  counted, the rest at most once (`Uncounted`).  A hook reads the length before it has the lock of the file:
  `HandlersTrue` says that this length is one the file has by then at least, since it only grows, so
  a watermark with the file's own length was taken over the whole of it.  `Caught`, which
  gives `NoneMissed`, has everything from the first line counted up to the
  watermark counted; the two instances differ in handlers and bounds only
  (`SameReading`), so each lemma is proved once, for any set of handlers and any bound.
- *Agy* (`KeptInv`, `MovedInv`): in a session that keeps to its conversation each
  response has been counted once, up to the last row between turns and up to the watermark
  within one; in one that moves, what was counted in any conversation lies below the
  watermark.

Model-checked only, and why:

- liveness (`KilledIsForgotten`, `QueueDrains`, `LogCloses`, `HeldResolves`,
  `WaitsEnd`, `IdleDaemonLeaves`, `WorkEnds`): reasoning about ENABLED is out of the
  prover's reach;
- `StreamPreserved`, `BellsAreLone`, `LogIsTheScreen`:
  each compares what was put together piece by piece with a fold or a recursive
  function over the whole (the decoded text, the bells of a stream, a log unfolded).  That such a function distributes over the pieces
  is an induction over data, which no prover here can do;
- `OfficeTypes`, `TerminalTypes`, `WorkTypes`, `HookTypes`: the types of all machines
  of a composition at once.  `WorkTypes` says moreover that prerequisites form no
  circle, which is a closure computed by a fold.  What the proofs need of
  types is in their invariants;
- what a recursive function computes for every input.  The proofs do not need it:
  of the text a flush or a typed line leaves (`Flushed`, `After`) they use facts
  about every element, shown for the least number at which they would fail
  (`LeastNat`, `FromZero`), where a proof by induction would be natural.

## 7. Where code and documents disagree

The runs marked *violation*, each with the line quoted in PROJECT.json:

- `session_rehandoff`: the stop gate suppresses the end-of-file signal, but the
  interrupted reader drops the sender, the waiter returns all the same, and
  `on_exit` may run in the 20 ms before `handed_off` is set.
- `inject_stale_gate`: a `note_human` that fetched its gate before
  `remove_agent` writes past the new gate, also between body and Enter.
- `hub_terminate`: dispose, exit, then clear: the clear finds no session, the
  purge told nobody, the renderer keeps the notification.
- `auto_run_judge`: the late answer of the judge marks the new run's judge
  session as started, which then cannot be resumed.
- `chat_limit`: the chats that live are counted before the context is built and the
  session made after it; the guard is per task and the renderer does not count what
  it is opening, so opens of several tasks pass together.
- `usage_adopted`: only a prompt hook sets agy's watermark; the Stop of a turn
  that was open when the app restarted finds none and counts the history.
- `board_reject`: a request that was applied and could not be acknowledged is
  judged again by the board of the next receive; if its task has changed
  meanwhile, the request goes to `rejected/`.

## 8. What is left out

- *Session lifecycle*: environment, size and directory of a terminal.
- *Input gate*: terminal responses (written past the gate), the epoch and the
  forced-submission counters, which nobody reads.
- *Work send*: the text of command and script; a receipt that is there is the
  launch's own (its identity check is abstracted).  The gate is one step per body
  or Enter here and interleaved in `InjectGate`.
- *Output*: the frame counter.  A byte of a character is a lead or a continuation
  of three; other invalid input is `[`, one byte and one character.
- *Log*: the terminal emulation, reduced to new lines and redraws; the setting's
  switch; the reading of the agents' transcripts, which is an input.
- *Hub*: clears by id from the renderer, the activity and usage events, changes
  of the hold at run time.
- *Counters*: files that shrink or are replaced; a codex session whose rollout is
  found by its folder; two agy hooks of a session at once; one number stands for
  the kinds of tokens.
- *Wake lock*: how long turns took and what is shown of them; the operating
  system's own calls; the release at the app's exit.
- *Stream*: the backlog's cap of 256 chunks and batching (in `OutputPipeline`).
- *Sessiond*: a handoff without fd, a crash while an adopted fd is on its way
  (the entry is gone and so is the fd), framing and versions.
- *Task chats*: what the context holds, titles and the order of tabs; the launch and
  the prompt, which are `WorkSend`; quitting, which discards chats in
  `SessionLifecycle`.  A reload finds the calls sent before it begun.  A chat a
  page asked for that is gone has no tab in the next one; `NoneHidden` leaves it
  out, no document speaks of it.
- *Work board*: order, assignee, sessions and reports of tasks; the import of a
  file of tasks; a request names one task.
- *Recipes*: recipe files; a group that may not be signalled; Windows.
- *Automatic run*: several roots or runners; questions of the worker (they only
  change what is shown); deleting or editing items, their assignee or
  prerequisites during a run; an item set in progress by hand; saves a crash
  loses within their debounce.  At least one signal of a turn's end is
  delivered.  Every send makes a new session, for the dialog forces a restart of
  a session that was used before.
- *Not modelled at all*: the rest of the components in PROJECT.json, each with
  its reason; in short, parsing of hooks, receipts and settings, files written by
  rename, display, key store and external processes.

## 9. Plan

1. Done: `SessionLifecycle` with `AgentSession` and its proofs, `InjectGate`,
   `NotificationHub`, `HandoffStream`, `Sessiond`, `AutoRun`; then `WorkSend`,
   `OutputPipeline`, `SessionLog`, `WorkBoard`, `RunRecipes`, `KeepAwake`,
   `TaskChat` and the counters.  Proofs for every machine but the log.
2. More of the system: the shell activity that feeds hub and turns; session
   events.  Abstract
   specifications worth stating: for the gate, one atomic submission
   (body and Enter together) between pieces of human input; for `Sessiond` with
   `HandoffStream`, a terminal that is one sequence of output whoever holds it.
3. More proofs: the types of the composed machines; that the sink's `Take` is
   what one emission after the other comes to, which TLC could check over bounded
   inputs; the shell between `HandoffStream` and `Sessiond` once the abstract
   terminal above is stated.
