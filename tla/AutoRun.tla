-------------------------------- MODULE AutoRun --------------------------------
(***************************************************************************)
(* The automatic run of a plan (workpanels/autoRun.ts) with the parts of   *)
(* the renderer it acts through: the send of a work item                   *)
(* (workSendStore.ts), the monitor that turns a worker's signals into a    *)
(* status (workMonitor.ts) and the store of items (workItemStore.ts).      *)
(* One root and one runner.  The renderer runs one handler at a time up to *)
(* its next await; every change of the items or of the monitor wakes the   *)
(* run at once, inside the handler that made it.                           *)
(***************************************************************************)
EXTENDS Naturals, Sequences, FiniteSets

CONSTANTS
    Tasks,         \* the root and what it waits for
    Needs,         \* task -> its prerequisites
    Order,         \* task -> its place in the panel
    Root,
    Memo,          \* the root is a plan memo and is not run itself
    MaxFollowUps,  \* MAX_FOLLOW_UPS, 3 in the code
    HumanStatuses, \* what a person may set a task to
    InTime,        \* a follow-up's turn, or its session, does not end before the
                   \* answer to its call, and no turn ends while the app is down
    MaxSessions,   \* bound: sends that reach a session
    MaxActs        \* bound: acts of a person, ends of a session, restarts

Statuses == {"todo", "in_progress", "review", "done"}

Nobody == "nobody"    \* no task

ASSUME TasksAssumption ==
    /\ Root \in Tasks /\ IsFiniteSet(Tasks) /\ Nobody \notin Tasks
    /\ Needs \in [Tasks -> SUBSET Tasks]
    /\ \A t \in Tasks : Root \notin Needs[t]
    /\ Order \in [Tasks -> Nat]
    /\ \A t, u \in Tasks : Order[t] = Order[u] => t = u
    /\ HumanStatuses \subseteq Statuses
ASSUME FlagsAssumption  == Memo \in BOOLEAN /\ InTime \in BOOLEAN
ASSUME LimitsAssumption ==
    MaxFollowUps \in Nat \ {0} /\ MaxSessions \in Nat /\ MaxActs \in Nat

VARIABLES
    status,    \* task -> its status
    link,      \* task -> the last session it was sent to, 0 for none
    run,       \* root.autoRun; state "none" when there is none
    flight,    \* inFlight and the locals of the step under way
    obs,       \* session -> useWorkMonitorStore: [phase, at, moved: transition]
    applying,  \* a phase observe has stored and not yet applied: [s, phase]
    sessions,  \* sessions the sends have made so far; the newest is the runner's
    worker,    \* the CLI in it: "none", "idle", "working"
    owed,      \* a session whose last turn end is still to be signalled again, or 0
    mail,      \* events on their way to the renderer
    now,       \* clock: submissions and sends begun so far
    made,      \* judge sessions claude knows
    ids,       \* judge session ids drawn so far
    acts

vars == <<status, link, run, flight, obs, applying, sessions, worker, owed, mail, now, made, ids, acts>>
world == <<sessions, worker, owed, mail, now>>
judges == <<made, ids>>
monitor == <<obs, applying>>

Sessions == 1 .. MaxSessions
NoRun == [state |-> "none", reason |-> "none", current |-> Nobody, followUps |-> 0,
          sentAt |-> 0, judge |-> 0, started |-> FALSE, rootRan |-> FALSE]
NoFlight == [pc |-> "none", again |-> FALSE, task |-> Nobody, s |-> 0, judge |-> 0,
             resume |-> FALSE, at |-> 0]
Unseen == [phase |-> "none", at |-> 0, moved |-> FALSE]
NoApply == [s |-> 0, phase |-> "none"]

Init ==
    /\ status = [t \in Tasks |-> "todo"]
    /\ link = [t \in Tasks |-> 0]
    /\ run = NoRun /\ flight = NoFlight
    /\ obs = [s \in Sessions |-> Unseen] /\ applying = NoApply
    /\ sessions = 0 /\ worker = "none" /\ owed = 0 /\ mail = <<>> /\ now = 0
    /\ made = {} /\ ids = 0 /\ acts = 0

Running == run.state = "running"
\* runSteps: the root's prerequisites and, unless it is a memo, the root itself.
Steps == IF Memo THEN Tasks \ {Root} ELSE Tasks
Open(st) == {t \in Steps : st[t] # "done"}
Ready(st) == {t \in Open(st) : \A u \in Needs[t] : st[u] = "done"}

\* Handlers and events find the flight between two awaits: what runs without
\* one is over (step, the loop's test, the rest of observe).
AtRest == flight.pc \notin {"step", "loop"} /\ applying = NoApply

\* Seeded fault: a change during a step is not remembered.
WokenForgets(f, r) ==
    IF r.state = "running" /\ f.pc = "none" THEN [NoFlight EXCEPT !.pc = "step"] ELSE f
\* wake and kick, on a change of a store while the run is r.
Woken(f, r) ==
    IF r.state # "running" THEN f
    ELSE IF f.pc = "none" THEN [NoFlight EXCEPT !.pc = "step"]
    ELSE [f EXCEPT !.again = TRUE]

Paused(r, why) == [r EXCEPT !.state = "paused", !.reason = why]
Cleared(r) == [r EXCEPT !.current = Nobody, !.followUps = 0, !.sentAt = 0]
Finished(r) == [Cleared(r) EXCEPT !.state = "finished", !.reason = "none"]
\* edit: an item's status; a root that becomes done ends its run.
Edited(st, t, v) == [st EXCEPT ![t] = v]
RunAfter(r, t, v) ==
    IF t = Root /\ v = "done" /\ r.state \in {"running", "paused"} THEN Finished(r) ELSE r

-----------------------------------------------------------------------------
(* A step of the run.  It begins where the run is running, so that the first *)
(* return of stepAutoRun is never taken.                                    *)

\* The step returns; the loop looks at again next.
Returns(f) == [f EXCEPT !.pc = "loop", !.task = Nobody, !.s = 0, !.judge = 0,
                        !.resume = FALSE, !.at = 0]
StepPauses(r, f, why) == run' = Paused(r, why) /\ flight' = Returns(f)

\* pickAndSend, with the run r, the flight f and the statuses st so far.
PickAndSend(r, f, st) ==
    \/ /\ Open(st) = {} \/ (~Memo /\ r.rootRan)
       /\ run' = Finished(r) /\ flight' = Returns(f)
       /\ status' = IF st[Root] \in {"done", "review"} THEN st ELSE Edited(st, Root, "review")
       /\ UNCHANGED now
    \/ /\ Open(st) # {} /\ ~(~Memo /\ r.rootRan)
       /\ \E t \in Ready(st) : st[t] # "todo"
       /\ StepPauses(r, f, "task-busy")
       /\ status' = st /\ UNCHANGED now
    \/ /\ Open(st) # {} /\ ~(~Memo /\ r.rootRan)
       /\ \A t \in Ready(st) : st[t] = "todo"
       /\ \E t \in Ready(st) :
            /\ \A u \in Ready(st) : Order[t] <= Order[u]
            /\ run' = [r EXCEPT !.current = t, !.followUps = 0, !.sentAt = now + 1]
            /\ flight' = Woken([f EXCEPT !.pc = "sending", !.task = t], run')
       /\ status' = st /\ now' = now + 1

CurrentIs(v) == run.current # Nobody /\ status[run.current] = v

StepTaskChanged ==
    /\ flight.pc = "step" /\ Running
    /\ CurrentIs("todo")
    /\ StepPauses(run, flight, "task-changed")
    /\ UNCHANGED <<status, link, monitor, world, judges, acts>>

Seen(t) == IF link[t] = 0 THEN Unseen ELSE obs[link[t]]

StepWorking ==
    /\ flight.pc = "step" /\ Running
    /\ CurrentIs("in_progress")
    /\ IF Seen(run.current).phase = "ended"
       THEN StepPauses(run, flight, "session-ended")
       ELSE flight' = Returns(flight) /\ UNCHANGED run
    /\ UNCHANGED <<status, link, monitor, world, judges, acts>>

\* The signal is of a turn that ended before the last submission.
Late(t) == Seen(t).phase # "none" /\ run.sentAt # 0 /\ Seen(t).at < run.sentAt

StepReview ==
    /\ flight.pc = "step" /\ Running
    /\ CurrentIs("review")
    /\ flight' = IF Late(run.current) THEN Returns(flight)
                 ELSE [flight EXCEPT !.pc = "judging", !.task = run.current,
                         !.s = link[run.current], !.judge = run.judge, !.resume = run.started]
    /\ UNCHANGED <<status, link, run, monitor, world, judges, acts>>

\* No current task, or a person has set it done.
StepPick ==
    /\ flight.pc = "step" /\ Running
    /\ run.current = Nobody \/ CurrentIs("done")
    /\ IF run.current = Nobody THEN PickAndSend(run, flight, status)
       ELSE PickAndSend(Cleared(run), Woken(flight, run), status)
    /\ UNCHANGED <<link, monitor, sessions, worker, owed, mail, judges, acts>>

Step == StepTaskChanged \/ StepWorking \/ StepReview \/ StepPick

Loop ==
    /\ flight.pc = "loop" /\ applying = NoApply
    /\ flight' = IF flight.again /\ Running THEN [NoFlight EXCEPT !.pc = "step"] ELSE NoFlight
    /\ UNCHANGED <<status, link, run, monitor, world, judges, acts>>

-----------------------------------------------------------------------------
(* requestWorkSend and what it makes of the runner's terminal. *)

Prompt(s) == [s |-> s, phase |-> "working", at |-> now', moved |-> TRUE]

\* The runner's session is replaced by a fresh one, the CLI started and the
\* prompt submitted.
SendSubmits ==
    /\ AtRest /\ flight.pc = "sending" /\ sessions < MaxSessions
    /\ sessions' = sessions + 1 /\ worker' = "working" /\ now' = now + 1
    /\ mail' = Append(mail, Prompt(sessions + 1))
    /\ flight' = [flight EXCEPT !.pc = "sent", !.s = sessions + 1, !.at = now + 1]
    /\ UNCHANGED <<status, link, run, monitor, owed, judges, acts>>

\* Seeded fault: what the worker signalled before the answer is not looked at.
SendAnswersOnly ==
    /\ AtRest /\ flight.pc = "sent"
    /\ status' = [status EXCEPT ![flight.task] = "in_progress"]
    /\ link' = [link EXCEPT ![flight.task] = flight.s]
    /\ flight' = [Woken(flight, run) EXCEPT !.pc = "saving"]
    /\ UNCHANGED <<run, monitor, world, judges, acts>>

\* recordSend, reconcileWorkMonitor.
SendAnswers ==
    /\ AtRest /\ flight.pc = "sent"
    /\ LET o == obs[flight.s] IN
         status' = [status EXCEPT ![flight.task] =
             IF o.moved /\ o.at >= flight.at /\ o.phase = "review" THEN "review" ELSE "in_progress"]
    /\ link' = [link EXCEPT ![flight.task] = flight.s]
    /\ flight' = [Woken(flight, run) EXCEPT !.pc = "saving"]
    /\ UNCHANGED <<run, monitor, world, judges, acts>>

SendSaved ==
    /\ AtRest /\ flight.pc = "saving"
    /\ flight' = Returns(flight)
    /\ UNCHANGED <<status, link, run, monitor, world, judges, acts>>

\* Seeded fault: the failure's reason replaces what a person has paused for.
SendFailsAnyway ==
    /\ AtRest /\ flight.pc = "sending"
    /\ worker' \in {worker, "none"}
    /\ \E why \in {"send-failed", "human-input"} :
         IF run.state # "none" THEN StepPauses([run EXCEPT !.current = Nobody], flight, why)
         ELSE flight' = Returns(flight) /\ UNCHANGED run
    /\ UNCHANGED <<status, link, monitor, sessions, owed, mail, now, judges, acts>>

\* The send fails before the prompt is submitted, the old session perhaps gone.
SendFails ==
    /\ AtRest /\ flight.pc = "sending"
    /\ worker' \in {worker, "none"}
    /\ \E why \in {"send-failed", "human-input"} :
         IF Running THEN StepPauses([run EXCEPT !.current = Nobody], flight, why)
         ELSE flight' = Returns(flight) /\ UNCHANGED run
    /\ UNCHANGED <<status, link, monitor, sessions, owed, mail, now, judges, acts>>

-----------------------------------------------------------------------------
(* judge. *)

\* claude -p fails; of a first call nobody knows whether it made the session.
JudgeFails ==
    /\ AtRest /\ flight.pc = "judging"
    /\ made' \in {made, IF flight.resume THEN made ELSE made \union {flight.judge}}
    /\ LET fresh == run.state # "none" /\ ~run.started
           r == IF fresh THEN [run EXCEPT !.judge = ids + 1] ELSE run
       IN /\ ids' = IF fresh THEN ids + 1 ELSE ids
          /\ run' = IF Running THEN Paused(r, "judge-failed") ELSE r
    /\ flight' = Returns(flight)
    /\ UNCHANGED <<status, link, monitor, world, acts>>

\* claude knows the session it is to resume, and not the one it is to make.
Judged == AtRest /\ flight.pc = "judging" /\ (flight.resume <=> flight.judge \in made)
\* The answer is noted whatever has become of the run.
Noted == IF run.state = "none" THEN run ELSE [run EXCEPT !.started = TRUE]
NotedFlight == Woken(flight, Noted)

\* The run is paused, over, or at another task: the verdict is dropped.
JudgeStale ==
    /\ Judged /\ (~Running \/ run.current # flight.task)
    /\ made' = made \union {flight.judge}
    /\ run' = Noted /\ flight' = Returns(NotedFlight)
    /\ UNCHANGED <<status, link, monitor, world, ids, acts>>

JudgeNext ==
    /\ Judged /\ Running /\ run.current = flight.task
    /\ made' = made \union {flight.judge}
    /\ LET r == [Cleared(Noted) EXCEPT !.rootRan = @ \/ flight.task = Root]
       IN PickAndSend(r, NotedFlight,
                      IF flight.task = Root THEN status ELSE Edited(status, flight.task, "done"))
    /\ UNCHANGED <<link, monitor, sessions, worker, owed, mail, ids, acts>>

\* stop, or a follow-up that says nothing or has no session to go to.
JudgeStop ==
    /\ Judged /\ Running /\ run.current = flight.task
    /\ made' = made \union {flight.judge}
    /\ \E why \in {"judge-stop", "judge-failed"} : StepPauses(Noted, flight, why)
    /\ UNCHANGED <<status, link, monitor, world, ids, acts>>

\* Seeded fault: one follow-up too many.
JudgeFollowUpOneMore ==
    /\ Judged /\ Running /\ run.current = flight.task
    /\ flight.s # 0 \/ run.followUps >= MaxFollowUps
    /\ made' = made \union {flight.judge}
    /\ IF run.followUps > MaxFollowUps THEN StepPauses(Noted, flight, "followup-limit")
       ELSE run' = Noted /\ flight' = [NotedFlight EXCEPT !.pc = "following"]
    /\ UNCHANGED <<status, link, monitor, world, ids, acts>>
JudgeFollowUp ==
    /\ Judged /\ Running /\ run.current = flight.task
    /\ flight.s # 0 \/ run.followUps >= MaxFollowUps
    /\ made' = made \union {flight.judge}
    /\ IF run.followUps >= MaxFollowUps THEN StepPauses(Noted, flight, "followup-limit")
       ELSE run' = Noted /\ flight' = [NotedFlight EXCEPT !.pc = "following"]
    /\ UNCHANGED <<status, link, monitor, world, ids, acts>>

\* sendWorkFollowUp submits to the session the turn was in.
FollowUpSubmits ==
    /\ AtRest /\ flight.pc = "following" /\ flight.s = sessions /\ worker # "none"
    /\ now' = now + 1 /\ worker' = "working"
    /\ mail' = Append(mail, Prompt(sessions))
    /\ flight' = [flight EXCEPT !.pc = "followed", !.at = now + 1]
    /\ UNCHANGED <<status, link, run, monitor, sessions, owed, judges, acts>>

FollowUpFails ==
    /\ AtRest /\ flight.pc = "following"
    /\ \E why \in {"send-failed", "human-input"} :
         IF Running THEN StepPauses(run, flight, why) ELSE flight' = Returns(flight) /\ UNCHANGED run
    /\ UNCHANGED <<status, link, monitor, world, judges, acts>>

FollowUpAnswers ==
    /\ AtRest /\ flight.pc = "followed"
    /\ run' = IF run.state = "none" THEN run
              ELSE [run EXCEPT !.followUps = @ + 1, !.sentAt = flight.at]
    /\ status' = IF status[flight.task] = "review" THEN Edited(status, flight.task, "in_progress")
                 ELSE status
    /\ flight' = Returns(Woken(flight, run))
    /\ UNCHANGED <<link, monitor, world, judges, acts>>

Judge == JudgeFails \/ JudgeStale \/ JudgeNext \/ JudgeStop \/ JudgeFollowUp
FollowUp == FollowUpSubmits \/ FollowUpFails \/ FollowUpAnswers
Send == SendSubmits \/ SendAnswers \/ SendSaved \/ SendFails

-----------------------------------------------------------------------------
(* The worker and what the back end signals of it. *)

TurnEnds ==
    /\ AtRest /\ worker = "working"
    /\ InTime => flight.pc # "followed"
    /\ worker' = "idle"
    /\ mail' = Append(mail, [s |-> sessions, phase |-> "review", at |-> now, moved |-> TRUE])
    /\ owed' \in {owed, sessions}
    /\ UNCHANGED <<status, link, run, flight, monitor, sessions, now, judges, acts>>

\* The second signal of a turn's end: the hook's notification and the usage
\* read from the transcript come apart, each stamped when it is emitted.
TurnEndEcho ==
    /\ AtRest /\ owed # 0
    /\ mail' = Append(mail, [s |-> owed, phase |-> "review", at |-> now, moved |-> TRUE])
    /\ owed' = 0
    /\ UNCHANGED <<status, link, run, flight, monitor, sessions, worker, now, judges, acts>>

\* A tool or a resume.  A question only changes what is shown: observe drops it
\* after the end of a turn, and before that the run waits anyway.
Signals ==
    /\ AtRest /\ worker = "working" /\ mail = <<>>
    /\ mail' = <<[s |-> sessions, phase |-> "working", at |-> now, moved |-> FALSE]>>
    /\ UNCHANGED <<status, link, run, flight, monitor, sessions, worker, owed, now, judges, acts>>

\* observe, up to the write of the store; the run is woken before applyStatus.
Observe ==
    /\ AtRest /\ mail # <<>>
    /\ mail' = Tail(mail)
    /\ LET e == Head(mail) IN
         IF obs[e.s].at > e.at THEN UNCHANGED <<obs, applying, flight>>
         ELSE /\ obs' = [obs EXCEPT ![e.s] = [phase |-> e.phase, at |-> e.at, moved |-> e.moved]]
              /\ applying' = IF e.moved THEN [s |-> e.s, phase |-> e.phase] ELSE NoApply
              /\ flight' = Woken(flight, run)
    /\ UNCHANGED <<status, link, run, sessions, worker, owed, now, judges, acts>>

\* applyStatus: the items whose last session it is follow, but for what a
\* person has set todo or done.
Follows(t) == link[t] = applying.s
Applied(t) ==
    IF Follows(t) /\ applying.phase = "review" /\ status[t] = "in_progress" THEN "review"
    ELSE IF Follows(t) /\ applying.phase = "working" /\ status[t] = "review" THEN "in_progress"
    ELSE status[t]
Apply ==
    /\ applying # NoApply /\ flight.pc # "step"
    /\ status' = [t \in Tasks |-> Applied(t)]
    /\ applying' = NoApply
    /\ flight' = IF status' = status THEN flight ELSE Woken(flight, run)
    /\ UNCHANGED <<link, run, obs, world, judges, acts>>

-----------------------------------------------------------------------------
(* Acts of a person, ends of a session, restarts of the app. *)

Act == AtRest /\ acts < MaxActs /\ acts' = acts + 1

\* startAutoRun; over a finished run, after endAutoRun.
StartBlocked ==
    \/ status[Root] = "done" \/ Open(status) = {}
    \/ Open(status) = {Root} /\ status[Root] # "todo"
Start ==
    /\ AtRest /\ run.state \in {"none", "finished"} /\ ~StartBlocked
    /\ ids = 0 \/ acts < MaxActs
    /\ acts' = IF ids = 0 THEN acts ELSE acts + 1
    /\ ids' = ids + 1
    /\ run' = [NoRun EXCEPT !.state = "running", !.judge = ids + 1]
    /\ flight' = [Woken(flight, run') EXCEPT !.again = TRUE]
    /\ UNCHANGED <<status, link, monitor, world, made>>

PauseByUser ==
    /\ Act /\ Running
    /\ run' = Paused(run, "user")
    /\ UNCHANGED <<status, link, flight, monitor, world, judges>>

Resume ==
    /\ Act /\ run.state = "paused"
    /\ run' = [run EXCEPT !.state = "running", !.reason = "none",
                  !.followUps = IF run.reason = "followup-limit" THEN MaxFollowUps - 1 ELSE @]
    /\ flight' = [Woken(flight, run') EXCEPT !.again = TRUE]
    /\ UNCHANGED <<status, link, monitor, world, judges>>

\* endAutoRun: the button is there unless the run is running.
End ==
    /\ Act /\ run.state \in {"paused", "finished"}
    /\ run' = NoRun
    /\ UNCHANGED <<status, link, flight, monitor, world, judges>>

\* edit by a person.
SetStatus ==
    /\ Act
    /\ \E t \in Tasks, v \in HumanStatuses :
         /\ v # status[t]
         /\ status' = Edited(status, t, v) /\ run' = RunAfter(run, t, v)
         /\ flight' = Woken(flight, run')
    /\ UNCHANGED <<link, monitor, world, judges>>

\* A person submits something of their own to the worker.
TypePrompt ==
    /\ Act /\ worker = "idle"
    /\ worker' = "working" /\ now' = now + 1 /\ mail' = Append(mail, Prompt(sessions))
    /\ UNCHANGED <<status, link, run, flight, monitor, sessions, owed, judges>>

SessionEnds ==
    /\ Act /\ worker # "none"
    /\ InTime => flight.pc # "followed"
    /\ worker' = "none"
    /\ mail' = Append(mail, [s |-> sessions, phase |-> "ended", at |-> now, moved |-> FALSE])
    /\ UNCHANGED <<status, link, run, flight, monitor, sessions, owed, now, judges>>

\* The app ends and starts again, the sessions living on in the daemon; what is
\* signalled meanwhile is lost, and load pauses a run that was running.
AppRestarts ==
    /\ Act /\ (InTime => worker # "working" /\ mail = <<>>)
    /\ run' = IF Running THEN Paused(run, "app-restarted") ELSE run
    /\ flight' = NoFlight /\ obs' = [s \in Sessions |-> Unseen] /\ mail' = <<>> /\ owed' = 0
    /\ UNCHANGED <<status, link, applying, sessions, worker, now, judges>>

Human == Start \/ PauseByUser \/ Resume \/ End \/ SetStatus \/ TypePrompt
Next ==
    \/ Step \/ Loop \/ Send \/ Judge \/ FollowUp
    \/ TurnEnds \/ TurnEndEcho \/ Signals \/ Observe \/ Apply
    \/ Human \/ SessionEnds \/ AppRestarts

Spec == Init /\ [][Next]_vars

Inside == Step \/ Loop \/ Apply \/ Observe
Outside == Send \/ Judge \/ FollowUp \/ TurnEnds

\* Handlers run and events arrive; calls are answered and turns end, however
\* often other handlers come between.  A person need do nothing.
FairSpec == Spec /\ WF_vars(Inside) /\ SF_vars(Outside)

-----------------------------------------------------------------------------
(* Properties. *)

\* The state is well formed; in particular no task gets more follow-ups than
\* the limit, whatever pauses, resumptions and late answers came between.
TypeOK ==
    /\ status \in [Tasks -> Statuses]
    /\ link \in [Tasks -> 0 .. MaxSessions]
    /\ run.state \in {"none", "running", "paused", "finished"}
    /\ run.current \in Tasks \union {Nobody} /\ run.followUps \in 0 .. MaxFollowUps
    /\ run.sentAt \in 0 .. now /\ run.judge \in 0 .. ids
    /\ flight.pc \in {"none", "step", "loop", "sending", "sent", "saving", "judging", "following", "followed"}
    /\ flight.task \in Tasks \union {Nobody} /\ flight.s \in 0 .. sessions
    /\ flight.pc \in {"sending", "sent", "judging", "following", "followed"} => flight.task # Nobody
    /\ \A s \in Sessions : obs[s].at \in 0 .. now
    /\ sessions \in 0 .. MaxSessions /\ worker \in {"none", "idle", "working"}
    /\ made \subseteq 1 .. ids /\ acts \in 0 .. MaxActs

\* A running run without a step under way waits for its worker: it has a
\* current task, which is in progress in a session that has not ended, or in
\* review by a signal of an earlier turn (kick's again, wake).
RestsOnlyWaiting ==
    Running /\ flight.pc = "none" /\ applying = NoApply =>
        \/ CurrentIs("in_progress") /\ Seen(run.current).phase # "ended"
        \/ CurrentIs("review") /\ Late(run.current)

\* While a run stays paused, the reason it was paused for is not overwritten by
\* a call that comes back late ("do not cover the reason", autoRun.ts:273).
ReasonKept ==
    [][run.state = "paused" /\ run'.state = "paused" => run'.reason = run.reason]_vars

\* A run never stays running for ever: with workers that end their turns it is
\* finished, or it pauses and says so.
RunSettles == []<>~Running

\* A judge session that is to be resumed has been started (judgeStarted).
JudgeKnown == run.state # "none" /\ run.started => run.judge \in made

\* A turn that ended before the last submission is not judged (sentAt): when a
\* judgement begins the worker was last seen to end a turn.
NewTurnAwaited ==
    [][flight.pc # "judging" /\ flight'.pc = "judging" /\ flight'.s # 0
         => obs[flight'.s].phase # "working"]_vars
=============================================================================
