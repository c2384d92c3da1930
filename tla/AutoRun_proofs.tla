----------------------------- MODULE AutoRun_proofs -----------------------------
(***************************************************************************)
(* Theorems about AutoRun, for every set of tasks with their prerequisites *)
(* and every bound: a running run that is not at work waits for a worker   *)
(* that can still wake it, a late answer does not cover the reason of a    *)
(* pause, and no task gets more follow-ups than the limit.                 *)
(***************************************************************************)
EXTENDS AutoRun, TLAPS

Reasons == {"none", "task-changed", "session-ended", "task-busy", "send-failed",
            "human-input", "judge-failed", "judge-stop", "followup-limit", "user",
            "app-restarted"}
States  == {"none", "running", "paused", "finished"}
Places  == {"none", "step", "loop", "sending", "sent", "saving", "judging", "following",
            "followed"}

RunType == [state : States, reason : Reasons, current : Tasks \cup {Nobody},
            followUps : Nat, sentAt : Nat, judge : Nat, started : BOOLEAN, rootRan : BOOLEAN]
FlightType == [pc : Places, again : BOOLEAN, task : Tasks \cup {Nobody},
               s : Nat, judge : Nat, resume : BOOLEAN, at : Nat]

\* The types of what a handler reads and writes.
Typed ==
    /\ run \in RunType /\ flight \in FlightType
    /\ status \in [Tasks -> Statuses] /\ link \in [Tasks -> Nat]
    /\ sessions \in Nat /\ now \in Nat /\ ids \in Nat

\* What a run at rest waits for: a worker that has not ended, or the signal of the turn
\* that its last submission began.
Waits ==
    \/ CurrentIs("in_progress") /\ Seen(run.current).phase # "ended"
    \/ CurrentIs("review") /\ Late(run.current)

\* Nothing will look at the run again unless something changes.
Resting == flight.pc = "none" \/ (flight.pc = "loop" /\ ~flight.again)

\* A run that rests waits; one whose send is being saved is looked at again.
RestsWaiting == Running /\ Resting => Waits
SavedAgain   == Running /\ flight.pc = "saving" => flight.again

RestInv == Typed /\ RestsWaiting /\ SavedAgain

-----------------------------------------------------------------------------
(* The updates of the records                                               *)

LEMMA RunUpdates ==
    \A r \in RunType :
        /\ \A why \in Reasons : /\ Paused(r, why) \in RunType
                                /\ Paused(r, why).state = "paused"
                                /\ Paused(r, why).reason = why
                                /\ Paused(r, why).followUps = r.followUps
        /\ Cleared(r) \in RunType /\ Cleared(r).state = r.state /\ Cleared(r).reason = r.reason
        /\ Cleared(r).followUps = 0
        /\ Finished(r) \in RunType /\ Finished(r).state = "finished"
        /\ Finished(r).followUps = 0
<1> SUFFICES ASSUME NEW r \in RunType
             PROVE  /\ \A why \in Reasons : /\ Paused(r, why) \in RunType
                                            /\ Paused(r, why).state = "paused"
                                            /\ Paused(r, why).reason = why
                                            /\ Paused(r, why).followUps = r.followUps
                    /\ Cleared(r) \in RunType /\ Cleared(r).state = r.state
                    /\ Cleared(r).reason = r.reason /\ Cleared(r).followUps = 0
                    /\ Finished(r) \in RunType /\ Finished(r).state = "finished"
                    /\ Finished(r).followUps = 0
  OBVIOUS
<1>1. \A why \in Reasons : /\ Paused(r, why) \in RunType
                           /\ Paused(r, why).state = "paused"
                           /\ Paused(r, why).reason = why
                           /\ Paused(r, why).followUps = r.followUps
  <2>1. "paused" \in States
    BY DEF States
  <2> HIDE DEF Reasons, States
  <2> QED BY <2>1 DEF RunType, Paused
<1>2. /\ Cleared(r) \in RunType /\ Cleared(r).state = r.state
      /\ Cleared(r).reason = r.reason /\ Cleared(r).followUps = 0
  BY DEF RunType, Cleared
<1>3. /\ \A q \in RunType : [q EXCEPT !.state = "finished", !.reason = "none"] \in RunType
      /\ Finished(r).state = "finished" /\ Finished(r).followUps = 0
  <2>1. "finished" \in States /\ "none" \in Reasons
    BY DEF States, Reasons
  <2> QED BY <1>2, <2>1 DEF RunType, Finished
<1> QED BY <1>1, <1>2, <1>3 DEF Finished

LEMMA FlightUpdates ==
    \A f \in FlightType :
        /\ Returns(f) \in FlightType /\ Returns(f).pc = "loop" /\ Returns(f).again = f.again
        /\ \A r \in RunType :
              /\ Woken(f, r) \in FlightType
              /\ r.state # "running" => Woken(f, r) = f
              /\ f.pc # "none" => Woken(f, r).pc = f.pc
              /\ r.state = "running" /\ f.pc # "none" => Woken(f, r).again = TRUE
              /\ r.state = "running" /\ f.pc = "none" => Woken(f, r).pc = "step"
<1> SUFFICES ASSUME NEW f \in FlightType
             PROVE  /\ Returns(f) \in FlightType /\ Returns(f).pc = "loop"
                    /\ Returns(f).again = f.again
                    /\ \A r \in RunType :
                          /\ Woken(f, r) \in FlightType
                          /\ r.state # "running" => Woken(f, r) = f
                          /\ f.pc # "none" => Woken(f, r).pc = f.pc
                          /\ r.state = "running" /\ f.pc # "none" => Woken(f, r).again = TRUE
                          /\ r.state = "running" /\ f.pc = "none" => Woken(f, r).pc = "step"
  OBVIOUS
<1>1. Returns(f) \in FlightType /\ Returns(f).pc = "loop" /\ Returns(f).again = f.again
  <2> DEFINE g == [f EXCEPT !.pc = "loop", !.task = Nobody]
             h == [g EXCEPT !.s = 0, !.judge = 0]
  <2>1. g \in FlightType /\ g.pc = "loop" /\ g.again = f.again
    BY DEF FlightType, Places
  <2> HIDE DEF g
  <2>2. h \in FlightType /\ h.pc = g.pc /\ h.again = g.again
    BY <2>1 DEF FlightType
  <2> HIDE DEF h
  <2>3. /\ [h EXCEPT !.resume = FALSE, !.at = 0] \in FlightType
        /\ [h EXCEPT !.resume = FALSE, !.at = 0].pc = h.pc
        /\ [h EXCEPT !.resume = FALSE, !.at = 0].again = h.again
    BY <2>2 DEF FlightType
  <2>4. Returns(f) = [h EXCEPT !.resume = FALSE, !.at = 0]
    BY DEF Returns, g, h
  <2> QED BY <2>1, <2>2, <2>3, <2>4
<1>2. [NoFlight EXCEPT !.pc = "step"] \in FlightType /\ [NoFlight EXCEPT !.pc = "step"].pc = "step"
  <2>1. NoFlight \in FlightType
    BY DEF NoFlight, FlightType, Places
  <2> QED BY <2>1 DEF FlightType, Places
<1>3. [f EXCEPT !.again = TRUE] \in FlightType /\ [f EXCEPT !.again = TRUE].pc = f.pc
      /\ [f EXCEPT !.again = TRUE].again = TRUE
  BY DEF FlightType
<1> QED BY <1>1, <1>2, <1>3 DEF Woken

-----------------------------------------------------------------------------
(* The steps                                                                *)

\* A pick pauses only a run that is running.
LEMMA PickOutcome ==
    ASSUME NEW r \in RunType, NEW f \in FlightType, NEW st \in [Tasks -> Statuses],
           now \in Nat, r.state = "running", PickAndSend(r, f, st)
    PROVE  /\ run' \in RunType /\ flight' \in FlightType
           /\ status' \in [Tasks -> Statuses] /\ now' \in Nat
           /\ run'.followUps \in {r.followUps, 0}
           /\ \/ run'.state \in {"finished", "paused"} /\ flight'.pc = "loop"
              \/ run'.state = "running" /\ flight'.pc = "sending"
<1>1. CASE /\ run' = Finished(r) /\ flight' = Returns(f)
           /\ status' = (IF st[Root] \in {"done", "review"} THEN st ELSE Edited(st, Root, "review"))
           /\ UNCHANGED now
  <2>1. status' \in [Tasks -> Statuses]
    BY <1>1, TasksAssumption DEF Edited, Statuses
  <2> QED BY <1>1, <2>1, RunUpdates, FlightUpdates
<1>2. CASE StepPauses(r, f, "task-busy") /\ status' = st /\ UNCHANGED now
  BY <1>2, RunUpdates, FlightUpdates DEF StepPauses, Reasons
<1>3. ASSUME NEW t \in Tasks,
             run' = [r EXCEPT !.current = t, !.followUps = 0, !.sentAt = now + 1],
             flight' = Woken([f EXCEPT !.pc = "sending", !.task = t], run'),
             status' = st, now' = now + 1
      PROVE  /\ run' \in RunType /\ flight' \in FlightType
             /\ status' \in [Tasks -> Statuses] /\ now' \in Nat
             /\ run'.state = "running" /\ flight'.pc = "sending" /\ run'.followUps = 0
  <2>1. run' \in RunType /\ run'.state = "running" /\ run'.followUps = 0
    <3> DEFINE q == [r EXCEPT !.current = t, !.followUps = 0, !.sentAt = now + 1]
    <3>1. now + 1 \in Nat
      OBVIOUS
    <3>2. q \in RunType
      BY <3>1 DEF RunType
    <3>3. q.state = r.state /\ q.followUps = 0
      BY <3>1 DEF RunType
    <3> QED BY <1>3, <3>2, <3>3
  <2>2. [f EXCEPT !.pc = "sending", !.task = t] \in FlightType
        /\ [f EXCEPT !.pc = "sending", !.task = t].pc = "sending"
    BY DEF FlightType, Places
  <2> DEFINE g == [f EXCEPT !.pc = "sending", !.task = t]
  <2>3. g \in FlightType /\ g.pc = "sending" /\ flight' = Woken(g, run')
    BY <1>3, <2>2 DEF FlightType
  <2> HIDE DEF g
  <2>4. flight' \in FlightType /\ flight'.pc = "sending"
    BY <2>1, <2>3, FlightUpdates
  <2> QED BY <1>3, <2>1, <2>4
<1>4. Ready(st) \subseteq Tasks
  BY DEF Ready, Open, Steps
<1> QED BY <1>1, <1>2, <1>3, <1>4 DEF PickAndSend

\* A paused run that stays paused keeps its reason.
Kept == run.state = "paused" /\ run'.state = "paused" => run'.reason = run.reason

\* Nothing that Waits speaks about changes.
LEMMA WaitsSame ==
    ASSUME UNCHANGED <<status, link, obs, run>>
    PROVE  Waits' = Waits /\ Running' = Running
BY DEF Waits, CurrentIs, Seen, Late, Running

\* A state without a running run, or with one that is about to be looked at.
LEMMA Awake ==
    ASSUME Typed', \/ run'.state # "running"
                   \/ flight'.pc \notin {"none", "loop", "saving"}
                   \/ flight'.pc # "none" /\ flight'.again = TRUE
    PROVE  RestInv'
BY DEF RestInv, RestsWaiting, SavedAgain, Resting, Running

\* What a handler writes of the records and of the items.
LEMMA Writes ==
    ASSUME run' \in RunType, flight' \in FlightType, status' \in [Tasks -> Statuses],
           link' \in [Tasks -> Nat], sessions' \in Nat, now' \in Nat, ids' \in Nat
    PROVE  Typed'
BY DEF Typed

\* A handler that only returns to the loop, of a run that waits.
LEMMA StillWaiting ==
    ASSUME RestInv, Waits, flight' = Returns(flight),
           UNCHANGED <<status, link, obs, run, sessions, now, ids>>
    PROVE  RestInv'
<1>1. /\ run' \in RunType /\ status' \in [Tasks -> Statuses] /\ link' \in [Tasks -> Nat]
      /\ sessions' \in Nat /\ now' \in Nat /\ ids' \in Nat
  BY DEF RestInv, Typed
<1>2. flight' \in FlightType /\ flight'.pc = "loop"
  BY FlightUpdates DEF RestInv, Typed
<1>3. Typed'
  BY <1>1, <1>2, Writes
<1>4. Waits'
  BY WaitsSame
<1> QED BY <1>2, <1>3, <1>4 DEF RestInv, RestsWaiting, SavedAgain

\* A handler that pauses a running run.
LEMMA Pauses ==
    ASSUME RestInv, Running, NEW r \in RunType, NEW f \in FlightType, NEW why \in Reasons,
           StepPauses(r, f, why), status' \in [Tasks -> Statuses],
           UNCHANGED <<link, sessions>>, now' \in Nat, ids' \in Nat
    PROVE  RestInv' /\ Kept
<1>1. run' \in RunType /\ run'.state = "paused" /\ flight' \in FlightType
  BY RunUpdates, FlightUpdates DEF StepPauses
<1>2. link' \in [Tasks -> Nat] /\ sessions' \in Nat
  BY DEF RestInv, Typed
<1>3. Typed'
  BY <1>1, <1>2, Writes
<1>4. Kept
  BY DEF Kept, Running
<1> QED BY <1>1, <1>3, <1>4, Awake

LEMMA PickKeeps ==
    ASSUME RestInv, Running, NEW r \in RunType, NEW f \in FlightType,
           NEW st \in [Tasks -> Statuses], r.state = "running", PickAndSend(r, f, st),
           UNCHANGED <<link, sessions, ids>>
    PROVE  RestInv' /\ Kept
<1>1. now \in Nat /\ link' \in [Tasks -> Nat] /\ sessions' \in Nat /\ ids' \in Nat
  BY DEF RestInv, Typed
<1>2. /\ run' \in RunType /\ flight' \in FlightType
      /\ status' \in [Tasks -> Statuses] /\ now' \in Nat
      /\ \/ run'.state \in {"finished", "paused"} /\ flight'.pc = "loop"
         \/ run'.state = "running" /\ flight'.pc = "sending"
  BY <1>1, PickOutcome
<1>3. Typed'
  BY <1>1, <1>2, Writes
<1>4. Kept
  BY DEF Kept, Running
<1> QED BY <1>2, <1>3, <1>4, Awake

LEMMA StepKeeps == ASSUME RestInv, Step PROVE RestInv' /\ Kept
<1>1. /\ run \in RunType /\ flight \in FlightType
      /\ status \in [Tasks -> Statuses] /\ link \in [Tasks -> Nat]
      /\ sessions \in Nat /\ now \in Nat /\ ids \in Nat
  BY DEF RestInv, Typed
<1>2. Running /\ run.state = "running"
  BY DEF Step, StepTaskChanged, StepWorking, StepReview, StepPick, Running
<1>3. Kept
  BY <1>2 DEF Kept
<1>4. "task-changed" \in Reasons /\ "session-ended" \in Reasons
  BY DEF Reasons
<1>5. CASE StepTaskChanged
  <2>1. /\ StepPauses(run, flight, "task-changed")
        /\ status' = status /\ link' = link /\ sessions' = sessions /\ now' = now /\ ids' = ids
    BY <1>5 DEF StepTaskChanged, world, judges
  <2> QED BY <1>1, <1>2, <1>4, <2>1, Pauses
<1>6. CASE StepWorking
  <2>1. status' = status /\ link' = link /\ obs' = obs /\ sessions' = sessions /\ now' = now /\ ids' = ids
    BY <1>6 DEF StepWorking, monitor, world, judges
  <2>2. CASE Seen(run.current).phase = "ended"
    <3>1. StepPauses(run, flight, "session-ended")
      BY <1>6, <2>2 DEF StepWorking
    <3> QED BY <1>1, <1>2, <1>4, <2>1, <3>1, Pauses
  <2>3. CASE Seen(run.current).phase # "ended"
    <3>1. Waits /\ flight' = Returns(flight) /\ run' = run
      BY <1>6, <2>3 DEF StepWorking, Waits
    <3> QED BY <1>3, <2>1, <3>1, StillWaiting
  <2> QED BY <2>2, <2>3
<1>7. CASE StepReview
  <2>1. /\ run' = run /\ CurrentIs("review")
        /\ status' = status /\ link' = link /\ obs' = obs /\ sessions' = sessions /\ now' = now /\ ids' = ids
    BY <1>7 DEF StepReview, monitor, world, judges
  <2>2. CASE Late(run.current)
    <3>1. Waits /\ flight' = Returns(flight)
      BY <1>7, <2>1, <2>2 DEF StepReview, Waits
    <3> QED BY <1>3, <2>1, <3>1, StillWaiting
  <2>3. CASE ~Late(run.current)
    <3> DEFINE g == [flight EXCEPT !.pc = "judging", !.task = run.current]
               h == [g EXCEPT !.s = link[run.current], !.judge = run.judge]
    <3>1. flight' = [h EXCEPT !.resume = run.started]
      BY <1>7, <2>3 DEF StepReview
    <3>2. /\ run.current \in Tasks /\ link[run.current] \in Nat
          /\ run.judge \in Nat /\ run.started \in BOOLEAN
      BY <1>1, <2>1 DEF CurrentIs, RunType
    <3>3. g \in FlightType /\ g.pc = "judging"
      BY <1>1, <3>2 DEF FlightType, Places
    <3> HIDE DEF g
    <3>4. h \in FlightType /\ h.pc = "judging"
      BY <3>2, <3>3 DEF FlightType
    <3> HIDE DEF h
    <3>5. flight' \in FlightType /\ flight'.pc = "judging"
      BY <3>1, <3>2, <3>4 DEF FlightType
    <3>6. Typed'
      BY <1>1, <2>1, <3>5, Writes
    <3> QED BY <1>3, <3>5, <3>6, Awake
  <2> QED BY <2>2, <2>3
<1>8. CASE StepPick
  <2>1. Cleared(run) \in RunType /\ Cleared(run).state = "running" /\ Woken(flight, run) \in FlightType
    BY <1>1, <1>2, RunUpdates, FlightUpdates
  <2>2. PICK r \in RunType, f \in FlightType :
           r.state = "running" /\ PickAndSend(r, f, status)
    BY <1>1, <1>2, <1>8, <2>1 DEF StepPick
  <2>3. link' = link /\ sessions' = sessions /\ ids' = ids
    BY <1>8 DEF StepPick, judges
  <2> QED BY <1>1, <1>2, <2>2, <2>3, PickKeeps
<1> QED BY <1>5, <1>6, <1>7, <1>8 DEF Step

LEMMA LoopKeeps == ASSUME RestInv, Loop PROVE RestInv' /\ Kept
<1>1. /\ run \in RunType /\ flight \in FlightType
      /\ status \in [Tasks -> Statuses] /\ link \in [Tasks -> Nat]
      /\ sessions \in Nat /\ now \in Nat /\ ids \in Nat
  BY DEF RestInv, Typed
<1>2. /\ run' = run /\ obs' = obs
      /\ status' = status /\ link' = link /\ sessions' = sessions /\ now' = now /\ ids' = ids
  BY DEF Loop, monitor, world, judges
<1>3. /\ NoFlight \in FlightType /\ NoFlight.pc = "none"
      /\ [NoFlight EXCEPT !.pc = "step"] \in FlightType
      /\ [NoFlight EXCEPT !.pc = "step"].pc = "step"
  BY DEF NoFlight, FlightType, Places
<1>4. Kept
  BY <1>2 DEF Kept
<1>5. flight' \in FlightType
  BY <1>3 DEF Loop
<1>6. Typed'
  BY <1>1, <1>2, <1>5, Writes
<1>7. CASE flight.again /\ Running
  <2>1. flight'.pc = "step"
    BY <1>3, <1>7 DEF Loop
  <2> QED BY <1>4, <1>6, <2>1, Awake
<1>8. CASE ~Running
  <2>1. run'.state # "running"
    BY <1>2, <1>8 DEF Running
  <2> QED BY <1>4, <1>6, <2>1, Awake
<1>9. CASE Running /\ ~flight.again
  <2>1. Waits
    BY <1>9 DEF RestInv, RestsWaiting, Resting, Loop
  <2>2. Waits'
    BY <1>2, <2>1, WaitsSame
  <2>3. flight'.pc = "none"
    BY <1>3, <1>9 DEF Loop
  <2> QED BY <1>4, <1>6, <2>2, <2>3 DEF RestInv, RestsWaiting, SavedAgain
<1> QED BY <1>7, <1>8, <1>9

-----------------------------------------------------------------------------
(* The calls                                                                *)

\* A handler that wakes the run.
LEMMA Wakes ==
    ASSUME flight \in FlightType, run' \in RunType, NEW r \in RunType, r.state = run'.state,
           \/ flight' = Woken(flight, r)
           \/ flight.pc # "none" /\ flight' = Returns(Woken(flight, r)),
           status' \in [Tasks -> Statuses],
           link' \in [Tasks -> Nat], sessions' \in Nat, now' \in Nat, ids' \in Nat
    PROVE  RestInv'
<1>1. Woken(flight, r) \in FlightType
  BY FlightUpdates
<1>2. Returns(Woken(flight, r)) \in FlightType /\ Returns(Woken(flight, r)).pc = "loop"
      /\ Returns(Woken(flight, r)).again = Woken(flight, r).again
  BY <1>1, FlightUpdates
<1>3. flight' \in FlightType
  BY <1>1, <1>2
<1>4. Typed'
  BY <1>3, Writes
<1>5. CASE run'.state # "running"
  BY <1>4, <1>5, Awake
<1>6. CASE run'.state = "running" /\ flight.pc = "none"
  <2>1. flight' = Woken(flight, r)
    BY <1>6
  <2>2. Woken(flight, r).pc = "step"
    <3>1. r.state = "running"
      BY <1>6
    <3>2. Woken(flight, r) = [NoFlight EXCEPT !.pc = "step"]
      BY <1>6, <3>1 DEF Woken
    <3> QED BY <3>2 DEF NoFlight
  <2>3. flight'.pc = "step"
    BY <2>1, <2>2
  <2> QED BY <1>4, <2>3, Awake
<1>7. CASE run'.state = "running" /\ flight.pc # "none"
  <2>1. Woken(flight, r).pc # "none" /\ Woken(flight, r).again = TRUE
    BY <1>7, FlightUpdates
  <2>2. flight'.pc # "none" /\ flight'.again = TRUE
    BY <1>2, <2>1
  <2> QED BY <1>4, <2>2, Awake
<1> QED BY <1>5, <1>6, <1>7

\* A handler that touches neither the run nor what it waits for.
LEMMA Aside ==
    ASSUME RestInv, UNCHANGED <<status, link, obs, run, flight>>,
           sessions' \in Nat, now' \in Nat, ids' \in Nat
    PROVE  RestInv' /\ Kept
<1>1. /\ run' \in RunType /\ flight' \in FlightType
      /\ status' \in [Tasks -> Statuses] /\ link' \in [Tasks -> Nat]
  BY DEF RestInv, Typed
<1>2. Typed'
  BY <1>1, Writes
<1>3. Waits' = Waits /\ Running' = Running
  BY WaitsSame
<1>4. Kept
  BY DEF Kept
<1> QED BY <1>2, <1>3, <1>4 DEF RestInv, RestsWaiting, SavedAgain, Resting

\* The call's answer finds no running run, and only returns to the loop.
LEMMA NobodyWaits ==
    ASSUME RestInv, ~Running, run' = run, flight' = Returns(flight),
           status' \in [Tasks -> Statuses],
           link' \in [Tasks -> Nat], sessions' \in Nat, now' \in Nat, ids' \in Nat
    PROVE  RestInv' /\ Kept
<1>1. run' \in RunType /\ flight' \in FlightType /\ run'.state # "running"
  BY FlightUpdates DEF RestInv, Typed, Running
<1>2. Typed'
  BY <1>1, Writes
<1>3. Kept
  BY DEF Kept
<1> QED BY <1>1, <1>2, <1>3, Awake

LEMMA SendKeeps == ASSUME RestInv, Send PROVE RestInv' /\ Kept
<1>1. /\ run \in RunType /\ flight \in FlightType
      /\ status \in [Tasks -> Statuses] /\ link \in [Tasks -> Nat]
      /\ sessions \in Nat /\ now \in Nat /\ ids \in Nat
  BY DEF RestInv, Typed
<1>2. CASE SendSubmits
  <2>1. /\ run' = run /\ status' = status /\ link' = link /\ ids' = ids
        /\ sessions' \in Nat /\ now' \in Nat
    BY <1>1, <1>2 DEF SendSubmits, judges
  <2>2. flight' \in FlightType /\ flight'.pc = "sent"
    <3> DEFINE g == [flight EXCEPT !.pc = "sent", !.s = sessions + 1]
    <3>1. "sent" \in Places /\ sessions + 1 \in Nat /\ now + 1 \in Nat
      BY <1>1 DEF Places
    <3> HIDE DEF Places
    <3>2. g \in FlightType /\ g.pc = "sent"
      BY <1>1, <3>1 DEF FlightType
    <3>3. flight' = [g EXCEPT !.at = now + 1]
      BY <1>2 DEF SendSubmits
    <3> HIDE DEF g
    <3> QED BY <3>1, <3>2, <3>3 DEF FlightType
  <2>3. Typed'
    BY <1>1, <2>1, <2>2, Writes
  <2>4. Kept
    BY <2>1 DEF Kept
  <2> QED BY <2>2, <2>3, <2>4, Awake
<1>3. CASE SendAnswers
  <2>1. /\ run' = run /\ sessions' = sessions /\ now' = now /\ ids' = ids /\ flight.pc = "sent"
        /\ flight' = [Woken(flight, run) EXCEPT !.pc = "saving"]
    BY <1>3 DEF SendAnswers, world, judges
  <2>2. status' \in [Tasks -> Statuses]
    BY <1>1, <1>3 DEF SendAnswers, Statuses
  <2>3. link' \in [Tasks -> Nat]
    BY <1>1, <1>3 DEF SendAnswers, FlightType
  <2>4. Woken(flight, run) \in FlightType
    BY <1>1, FlightUpdates
  <2>5. flight' \in FlightType /\ flight'.pc = "saving" /\ flight'.again = Woken(flight, run).again
    BY <2>1, <2>4 DEF FlightType, Places
  <2>6. Typed'
    BY <1>1, <2>1, <2>2, <2>3, <2>5, Writes
  <2>7. Kept
    BY <2>1 DEF Kept
  <2>8. run'.state = "running" => flight'.again = TRUE
    BY <1>1, <2>1, <2>5, FlightUpdates
  <2> QED BY <2>5, <2>6, <2>7, <2>8, Awake
<1>4. CASE SendSaved
  <2>1. /\ run' = run /\ status' = status /\ link' = link /\ sessions' = sessions
        /\ now' = now /\ ids' = ids /\ flight.pc = "saving" /\ flight' = Returns(flight)
    BY <1>4 DEF SendSaved, world, judges
  <2>2. CASE ~Running
    BY <1>1, <2>1, <2>2, NobodyWaits
  <2>3. CASE Running
    <3>1. flight.again
      BY <2>1, <2>3 DEF RestInv, SavedAgain
    <3>2. flight' \in FlightType /\ flight'.pc = "loop" /\ flight'.again = flight.again
      BY <1>1, <2>1, FlightUpdates
    <3>3. Typed'
      BY <1>1, <2>1, <3>2, Writes
    <3>4. flight'.again = TRUE
      BY <1>1, <3>1, <3>2 DEF FlightType
    <3>5. Kept
      BY <2>1 DEF Kept
    <3> QED BY <3>2, <3>3, <3>4, <3>5, Awake
  <2> QED BY <2>2, <2>3
<1>5. CASE SendFails
  <2>1. status' = status /\ link' = link /\ sessions' = sessions /\ now' = now /\ ids' = ids
    BY <1>5 DEF SendFails, judges
  <2>2. CASE Running
    <3>1. [run EXCEPT !.current = Nobody] \in RunType
      BY <1>1 DEF RunType
    <3>2. PICK why \in {"send-failed", "human-input"} :
             StepPauses([run EXCEPT !.current = Nobody], flight, why)
      BY <1>5, <2>2 DEF SendFails
    <3>3. why \in Reasons
      BY DEF Reasons
    <3> QED BY <1>1, <2>1, <2>2, <3>1, <3>2, <3>3, Pauses
  <2>3. CASE ~Running
    <3>1. run' = run /\ flight' = Returns(flight)
      BY <1>5, <2>3 DEF SendFails
    <3> QED BY <1>1, <2>1, <2>3, <3>1, NobodyWaits
  <2> QED BY <2>2, <2>3
<1> QED BY <1>2, <1>3, <1>4, <1>5 DEF Send

LEMMA FollowUpKeeps == ASSUME RestInv, FollowUp PROVE RestInv' /\ Kept
<1>1. /\ run \in RunType /\ flight \in FlightType
      /\ status \in [Tasks -> Statuses] /\ link \in [Tasks -> Nat]
      /\ sessions \in Nat /\ now \in Nat /\ ids \in Nat
  BY DEF RestInv, Typed
<1>2. CASE FollowUpSubmits
  <2>1. /\ run' = run /\ status' = status /\ link' = link /\ sessions' = sessions /\ ids' = ids
        /\ now' \in Nat
    BY <1>1, <1>2 DEF FollowUpSubmits, judges
  <2>2. flight' \in FlightType /\ flight'.pc = "followed"
    <3>1. "followed" \in Places /\ now + 1 \in Nat
      BY <1>1 DEF Places
    <3> QED BY <1>1, <1>2, <3>1 DEF FollowUpSubmits, FlightType
  <2>3. Typed'
    BY <1>1, <2>1, <2>2, Writes
  <2>4. Kept
    BY <2>1 DEF Kept
  <2> QED BY <2>2, <2>3, <2>4, Awake
<1>3. CASE FollowUpFails
  <2>1. status' = status /\ link' = link /\ sessions' = sessions /\ now' = now /\ ids' = ids
    BY <1>3 DEF FollowUpFails, world, judges
  <2>2. CASE Running
    <3>1. PICK why \in {"send-failed", "human-input"} : StepPauses(run, flight, why)
      BY <1>3, <2>2 DEF FollowUpFails
    <3>2. why \in Reasons
      BY DEF Reasons
    <3> QED BY <1>1, <2>1, <2>2, <3>1, <3>2, Pauses
  <2>3. CASE ~Running
    <3>1. run' = run /\ flight' = Returns(flight)
      BY <1>3, <2>3 DEF FollowUpFails
    <3> QED BY <1>1, <2>1, <2>3, <3>1, NobodyWaits
  <2> QED BY <2>2, <2>3
<1>4. CASE FollowUpAnswers
  <2>1. /\ link' = link /\ sessions' = sessions /\ now' = now /\ ids' = ids
        /\ flight.pc # "none" /\ flight' = Returns(Woken(flight, run))
    BY <1>4 DEF FollowUpAnswers, world, judges
  <2>2. status' \in [Tasks -> Statuses]
    BY <1>1, <1>4 DEF FollowUpAnswers, Edited, Statuses
  <2>3. run' \in RunType /\ run'.state = run.state /\ run'.reason = run.reason
    <3>1. flight.at \in Nat /\ run.followUps + 1 \in Nat
      BY <1>1 DEF FlightType, RunType
    <3> QED BY <1>1, <1>4, <3>1 DEF FollowUpAnswers, RunType
  <2>4. RestInv'
    BY <1>1, <2>1, <2>2, <2>3, Wakes
  <2> QED BY <2>3, <2>4 DEF Kept
<1> QED BY <1>2, <1>3, <1>4 DEF FollowUp

LEMMA NotedRun ==
    ASSUME run \in RunType
    PROVE  Noted \in RunType /\ Noted.state = run.state /\ Noted.reason = run.reason
BY DEF Noted, RunType

LEMMA JudgeKeeps == ASSUME RestInv, Judge PROVE RestInv' /\ Kept
<1>1. /\ run \in RunType /\ flight \in FlightType
      /\ status \in [Tasks -> Statuses] /\ link \in [Tasks -> Nat]
      /\ sessions \in Nat /\ now \in Nat /\ ids \in Nat
  BY DEF RestInv, Typed
<1>2. Noted \in RunType /\ Noted.state = run.state /\ Noted.reason = run.reason
  BY <1>1, NotedRun
<1>3. NotedFlight \in FlightType
  BY <1>1, <1>2, FlightUpdates DEF NotedFlight
<1>4. CASE JudgeFails
  <2>1. status' = status /\ link' = link /\ sessions' = sessions /\ now' = now
    BY <1>4 DEF JudgeFails, world
  <2>2. flight' = Returns(flight) /\ ids' \in Nat
    BY <1>1, <1>4 DEF JudgeFails
  <2> DEFINE q == [run EXCEPT !.judge = ids + 1]
  <2>3. q \in RunType /\ q.state = run.state /\ q.reason = run.reason
    BY <1>1 DEF RunType
  <2>4. PICK r \in {run, q} : run' = IF Running THEN Paused(r, "judge-failed") ELSE r
    BY <1>4 DEF JudgeFails
  <2> HIDE DEF q
  <2>5. r \in RunType /\ r.state = run.state /\ r.reason = run.reason
    BY <1>1, <2>3, <2>4
  <2>6. "judge-failed" \in Reasons
    BY DEF Reasons
  <2>7. CASE Running
    <3>1. run' = Paused(r, "judge-failed")
      BY <2>4, <2>7
    <3>2. StepPauses(r, flight, "judge-failed")
      BY <2>2, <3>1 DEF StepPauses
    <3> QED BY <1>1, <2>1, <2>2, <2>5, <2>6, <2>7, <3>2, Pauses
  <2>8. CASE ~Running
    <3>1. run' = r
      BY <2>4, <2>8
    <3>2. flight' \in FlightType
      BY <1>1, <2>2, FlightUpdates
    <3>3. Typed'
      BY <1>1, <2>1, <2>2, <2>5, <3>1, <3>2, Writes
    <3>4. run'.state # "running" /\ Kept
      BY <2>5, <2>8, <3>1 DEF Running, Kept
    <3> QED BY <3>3, <3>4, Awake
  <2> QED BY <2>7, <2>8
<1>5. CASE JudgeStale
  <2>1. /\ status' = status /\ link' = link /\ sessions' = sessions /\ now' = now /\ ids' = ids
        /\ run' = Noted /\ flight.pc # "none" /\ flight' = Returns(Woken(flight, Noted))
    BY <1>5 DEF JudgeStale, Judged, NotedFlight, world
  <2>2. RestInv'
    BY <1>1, <1>2, <2>1, Wakes
  <2> QED BY <1>2, <2>1, <2>2 DEF Kept
<1>6. CASE JudgeNext
  <2> DEFINE r  == [Cleared(Noted) EXCEPT !.rootRan = @ \/ flight.task = Root]
             st == IF flight.task = Root THEN status ELSE Edited(status, flight.task, "done")
  <2>1. /\ Running /\ link' = link /\ sessions' = sessions /\ ids' = ids
        /\ PickAndSend(r, NotedFlight, st)
    BY <1>6 DEF JudgeNext
  <2>2. Cleared(Noted) \in RunType /\ Cleared(Noted).state = "running"
    BY <1>2, <2>1, RunUpdates DEF Running
  <2>3. (Cleared(Noted).rootRan \/ flight.task = Root) \in BOOLEAN
    BY Zenon
  <2>4. r \in RunType /\ r.state = "running"
    BY <2>2, <2>3 DEF RunType
  <2>5. st \in [Tasks -> Statuses]
    BY <1>1 DEF Edited, Statuses
  <2> HIDE DEF r, st
  <2> QED BY <1>3, <2>1, <2>4, <2>5, PickKeeps
<1>7. CASE JudgeStop
  <2>1. /\ Running /\ status' = status /\ link' = link /\ sessions' = sessions /\ now' = now
        /\ ids' = ids
    BY <1>7 DEF JudgeStop, world
  <2>2. PICK why \in {"judge-stop", "judge-failed"} : StepPauses(Noted, flight, why)
    BY <1>7 DEF JudgeStop
  <2>3. why \in Reasons
    BY DEF Reasons
  <2> QED BY <1>1, <1>2, <2>1, <2>2, <2>3, Pauses
<1>8. CASE JudgeFollowUp
  <2>1. /\ Running /\ status' = status /\ link' = link /\ sessions' = sessions /\ now' = now
        /\ ids' = ids
    BY <1>8 DEF JudgeFollowUp, world
  <2>2. CASE run.followUps >= MaxFollowUps
    <3>1. StepPauses(Noted, flight, "followup-limit") /\ "followup-limit" \in Reasons
      BY <1>8, <2>2 DEF JudgeFollowUp, Reasons
    <3> QED BY <1>1, <1>2, <2>1, <3>1, Pauses
  <2>3. CASE ~(run.followUps >= MaxFollowUps)
    <3>1. run' = Noted /\ flight' = [NotedFlight EXCEPT !.pc = "following"]
      BY <1>8, <2>3 DEF JudgeFollowUp
    <3>2. flight' \in FlightType /\ flight'.pc = "following"
      BY <1>3, <3>1 DEF FlightType, Places
    <3>3. Typed'
      BY <1>1, <1>2, <2>1, <3>1, <3>2, Writes
    <3>4. Kept
      BY <1>2, <3>1 DEF Kept
    <3> QED BY <3>2, <3>3, <3>4, Awake
  <2> QED BY <2>2, <2>3
<1> QED BY <1>4, <1>5, <1>6, <1>7, <1>8 DEF Judge

-----------------------------------------------------------------------------
(* The worker, the person, the restart                                      *)

LEMMA WorldKeeps ==
    ASSUME RestInv, TurnEnds \/ TurnEndEcho \/ Signals \/ TypePrompt \/ SessionEnds
    PROVE  RestInv' /\ Kept
<1>1. sessions \in Nat /\ now \in Nat /\ ids \in Nat
  BY DEF RestInv, Typed
<1>2. /\ UNCHANGED <<status, link, obs, run, flight>>
      /\ sessions' \in Nat /\ now' \in Nat /\ ids' \in Nat
  BY <1>1 DEF TurnEnds, TurnEndEcho, Signals, TypePrompt, SessionEnds, monitor, judges
<1> QED BY <1>2, Aside

LEMMA MonitorKeeps == ASSUME RestInv, Observe \/ Apply PROVE RestInv' /\ Kept
<1>1. /\ run \in RunType /\ flight \in FlightType
      /\ status \in [Tasks -> Statuses] /\ link \in [Tasks -> Nat]
      /\ sessions \in Nat /\ now \in Nat /\ ids \in Nat
  BY DEF RestInv, Typed
<1>2. CASE Observe
  <2>1. /\ run' = run /\ status' = status /\ link' = link /\ sessions' = sessions /\ now' = now
        /\ ids' = ids
    BY <1>2 DEF Observe, judges
  <2>2. CASE obs[Head(mail).s].at > Head(mail).at
    <3>1. obs' = obs /\ flight' = flight
      BY <1>2, <2>2 DEF Observe
    <3> QED BY <1>1, <2>1, <3>1, Aside
  <2>3. CASE ~(obs[Head(mail).s].at > Head(mail).at)
    <3>1. flight' = Woken(flight, run)
      BY <1>2, <2>3 DEF Observe
    <3>2. RestInv'
      BY <1>1, <2>1, <3>1, Wakes
    <3> QED BY <2>1, <3>2 DEF Kept
  <2> QED BY <2>2, <2>3
<1>3. CASE Apply
  <2>1. /\ run' = run /\ link' = link /\ obs' = obs /\ sessions' = sessions /\ now' = now
        /\ ids' = ids /\ flight' = IF status' = status THEN flight ELSE Woken(flight, run)
    BY <1>3 DEF Apply, world, judges
  <2>2. status' \in [Tasks -> Statuses]
    BY <1>1, <1>3 DEF Apply, Applied, Statuses
  <2>3. CASE status' = status
    BY <1>1, <2>1, <2>3, Aside
  <2>4. CASE status' # status
    <3>1. RestInv'
      BY <1>1, <2>1, <2>2, <2>4, Wakes
    <3> QED BY <2>1, <3>1 DEF Kept
  <2> QED BY <2>3, <2>4
<1> QED BY <1>2, <1>3

\* The run is looked at again, whatever the flight was doing.
LEMMA LookedAtAgain ==
    \A f \in FlightType, r \in RunType :
        r.state = "running" =>
            /\ [Woken(f, r) EXCEPT !.again = TRUE] \in FlightType
            /\ [Woken(f, r) EXCEPT !.again = TRUE].again = TRUE
            /\ [Woken(f, r) EXCEPT !.again = TRUE].pc # "none"
<1> SUFFICES ASSUME NEW f \in FlightType, NEW r \in RunType, r.state = "running"
             PROVE  /\ [Woken(f, r) EXCEPT !.again = TRUE] \in FlightType
                    /\ [Woken(f, r) EXCEPT !.again = TRUE].again = TRUE
                    /\ [Woken(f, r) EXCEPT !.again = TRUE].pc # "none"
  OBVIOUS
<1> DEFINE w == Woken(f, r)
<1>1. w \in FlightType
  BY FlightUpdates
<1>2. w.pc # "none"
  <2>1. CASE f.pc = "none"
    BY <2>1, FlightUpdates
  <2>2. CASE f.pc # "none"
    BY <2>2, FlightUpdates
  <2> QED BY <2>1, <2>2
<1> HIDE DEF w
<1>3. /\ [w EXCEPT !.again = TRUE] \in FlightType /\ [w EXCEPT !.again = TRUE].again = TRUE
      /\ [w EXCEPT !.again = TRUE].pc # "none"
  BY <1>1, <1>2 DEF FlightType
<1> QED BY <1>3 DEF w

LEMMA PersonKeeps ==
    ASSUME RestInv, Start \/ PauseByUser \/ Resume \/ End \/ SetStatus
    PROVE  RestInv' /\ Kept
<1>1. /\ run \in RunType /\ flight \in FlightType
      /\ status \in [Tasks -> Statuses] /\ link \in [Tasks -> Nat]
      /\ sessions \in Nat /\ now \in Nat /\ ids \in Nat
  BY DEF RestInv, Typed
<1>2. NoRun \in RunType /\ NoRun.state = "none"
  BY DEF NoRun, RunType, States, Reasons
<1>3. CASE Start
  <2>1. /\ status' = status /\ link' = link /\ sessions' = sessions /\ now' = now
        /\ ids' = ids + 1 /\ run.state \in {"none", "finished"}
        /\ run' = [NoRun EXCEPT !.state = "running", !.judge = ids + 1]
        /\ flight' = [Woken(flight, run') EXCEPT !.again = TRUE]
    BY <1>3 DEF Start, world
  <2>2. ids' \in Nat
    BY <1>1, <2>1
  <2>3. run' \in RunType /\ run'.state = "running"
    <3>1. "running" \in States /\ ids + 1 \in Nat
      BY <1>1 DEF States
    <3> HIDE DEF States, NoRun
    <3> QED BY <1>2, <2>1, <3>1 DEF RunType
  <2>4. flight' \in FlightType /\ flight'.again = TRUE /\ flight'.pc # "none"
    BY <1>1, <2>1, <2>3, LookedAtAgain
  <2>5. Typed'
    BY <1>1, <2>1, <2>2, <2>3, <2>4, Writes
  <2>6. Kept
    BY <2>1 DEF Kept
  <2> QED BY <2>4, <2>5, <2>6, Awake
<1>4. CASE PauseByUser
  <2>1. /\ status' = status /\ link' = link /\ sessions' = sessions /\ now' = now /\ ids' = ids
        /\ flight' = flight /\ Running /\ run' = Paused(run, "user")
    BY <1>4 DEF PauseByUser, world, judges
  <2>2. "user" \in Reasons
    BY DEF Reasons
  <2>3. run' \in RunType /\ run'.state = "paused"
    BY <1>1, <2>1, <2>2, RunUpdates
  <2>4. Typed'
    BY <1>1, <2>1, <2>3, Writes
  <2>5. Kept
    BY <2>1 DEF Kept, Running
  <2> QED BY <2>3, <2>4, <2>5, Awake
<1>5. CASE Resume
  <2> DEFINE n == IF run.reason = "followup-limit" THEN MaxFollowUps - 1 ELSE run.followUps
  <2>1. /\ status' = status /\ link' = link /\ sessions' = sessions /\ now' = now /\ ids' = ids
        /\ run' = [run EXCEPT !.state = "running", !.reason = "none", !.followUps = n]
        /\ flight' = [Woken(flight, run') EXCEPT !.again = TRUE]
    BY <1>1, <1>5 DEF Resume, world, judges, RunType
  <2>2. run.followUps \in Nat
    BY <1>1 DEF RunType
  <2>3. n \in Nat
    BY <2>2, LimitsAssumption
  <2> HIDE DEF n
  <2>4. run' \in RunType /\ run'.state = "running"
    <3>1. "running" \in States /\ "none" \in Reasons
      BY DEF States, Reasons
    <3> QED BY <1>1, <2>1, <2>3, <3>1 DEF RunType
  <2>5. flight' \in FlightType /\ flight'.again = TRUE /\ flight'.pc # "none"
    BY <1>1, <2>1, <2>4, LookedAtAgain
  <2>6. Typed'
    BY <1>1, <2>1, <2>4, <2>5, Writes
  <2>7. Kept
    BY <2>4 DEF Kept
  <2> QED BY <2>5, <2>6, <2>7, Awake
<1>6. CASE End
  <2>1. /\ status' = status /\ link' = link /\ sessions' = sessions /\ now' = now /\ ids' = ids
        /\ flight' = flight /\ run' = NoRun
    BY <1>6 DEF End, world, judges
  <2>2. Typed'
    BY <1>1, <1>2, <2>1, Writes
  <2>3. Kept
    BY <1>2, <2>1 DEF Kept
  <2> QED BY <1>2, <2>1, <2>2, <2>3, Awake
<1>7. CASE SetStatus
  <2>1. link' = link /\ sessions' = sessions /\ now' = now /\ ids' = ids
    BY <1>7 DEF SetStatus, world, judges
  <2>2. PICK t \in Tasks, v \in HumanStatuses :
           /\ status' = Edited(status, t, v) /\ run' = RunAfter(run, t, v)
           /\ flight' = Woken(flight, run')
    BY <1>7 DEF SetStatus
  <2>3. status' \in [Tasks -> Statuses]
    BY <1>1, <2>2, TasksAssumption DEF Edited
  <2>4. run' \in RunType /\ (run' = run \/ run'.state = "finished")
    BY <1>1, <2>2, RunUpdates DEF RunAfter
  <2>5. RestInv'
    BY <1>1, <2>1, <2>2, <2>3, <2>4, Wakes
  <2> QED BY <2>4, <2>5 DEF Kept
<1> QED BY <1>3, <1>4, <1>5, <1>6, <1>7

LEMMA RestartKeeps == ASSUME RestInv, AppRestarts PROVE RestInv' /\ Kept
<1>1. /\ run \in RunType /\ status \in [Tasks -> Statuses] /\ link \in [Tasks -> Nat]
      /\ sessions \in Nat /\ now \in Nat /\ ids \in Nat
  BY DEF RestInv, Typed
<1>2. /\ status' = status /\ link' = link /\ sessions' = sessions /\ now' = now /\ ids' = ids
      /\ flight' = NoFlight /\ run' = IF Running THEN Paused(run, "app-restarted") ELSE run
  BY DEF AppRestarts, judges
<1>3. NoFlight \in FlightType
  BY DEF NoFlight, FlightType, Places
<1>4. "app-restarted" \in Reasons
  BY DEF Reasons
<1>5. run' \in RunType /\ run'.state # "running"
  BY <1>1, <1>2, <1>4, RunUpdates DEF Running
<1>6. Typed'
  BY <1>1, <1>2, <1>3, <1>5, Writes
<1>7. Kept
  BY <1>2 DEF Kept, Running
<1> QED BY <1>5, <1>6, <1>7, Awake

LEMMA StartRests == Init => RestInv
<1> SUFFICES ASSUME Init PROVE RestInv
  OBVIOUS
<1>1. NoRun \in RunType /\ NoRun.state = "none" /\ NoFlight \in FlightType
  BY DEF NoRun, NoFlight, RunType, FlightType, States, Reasons, Places
<1>2. run = NoRun /\ flight = NoFlight /\ sessions = 0 /\ now = 0 /\ ids = 0
  BY DEF Init
<1>3. status \in [Tasks -> Statuses] /\ link \in [Tasks -> Nat]
  BY DEF Init, Statuses
<1>4. Typed
  BY <1>1, <1>2, <1>3 DEF Typed
<1> QED BY <1>1, <1>2, <1>4 DEF RestInv, RestsWaiting, SavedAgain, Running

\* Every step of the run keeps the invariant, and the reason of a run that stays paused.
LEMMA NextRests == ASSUME RestInv, [Next]_vars PROVE RestInv' /\ Kept
<1>1. CASE Step \/ Loop
  BY <1>1, StepKeeps, LoopKeeps
<1>2. CASE Send \/ Judge \/ FollowUp
  BY <1>2, SendKeeps, JudgeKeeps, FollowUpKeeps
<1>3. CASE TurnEnds \/ TurnEndEcho \/ Signals \/ TypePrompt \/ SessionEnds
  BY <1>3, WorldKeeps
<1>4. CASE Observe \/ Apply
  BY <1>4, MonitorKeeps
<1>5. CASE Start \/ PauseByUser \/ Resume \/ End \/ SetStatus
  BY <1>5, PersonKeeps
<1>6. CASE AppRestarts
  BY <1>6, RestartKeeps
<1>7. CASE UNCHANGED vars
  <2>1. /\ UNCHANGED <<status, link, obs, run, flight>>
        /\ sessions' \in Nat /\ now' \in Nat /\ ids' \in Nat
    BY <1>7 DEF vars, RestInv, Typed
  <2> QED BY <2>1, Aside
<1> QED BY <1>1, <1>2, <1>3, <1>4, <1>5, <1>6, <1>7 DEF Next, Human

\* A running run without a step under way waits for its worker: whatever pauses,
\* resumptions, edits, late answers and signals came in whatever order, a change that the
\* run needs to see has been seen or will be (kick's again, wake).
THEOREM RestsWhileWaiting == Spec => []RestsOnlyWaiting
<1>1. RestInv => RestsOnlyWaiting
  BY DEF RestInv, RestsWaiting, Resting, Waits, RestsOnlyWaiting
<1> QED BY <1>1, StartRests, NextRests, PTL DEF Spec

\* A call that comes back late does not cover the reason a run is paused for ("do not
\* cover the reason", autoRun.ts:273).
THEOREM PauseKeepsReason == Spec => ReasonKept
<1>1. RestInv /\ [Next]_vars =>
         [run.state = "paused" /\ run'.state = "paused" => run'.reason = run.reason]_vars
  BY NextRests DEF Kept
<1> QED BY <1>1, StartRests, NextRests, PTL DEF Spec, ReasonKept

-----------------------------------------------------------------------------
(* The limit of the follow-ups                                              *)

\* No task has more follow-ups than the limit, and fewer while one is on its way.
Following(f) == f.pc \in {"following", "followed"}
WithinLimit ==
    /\ run.followUps <= MaxFollowUps
    /\ Following(flight) => run.followUps < MaxFollowUps

LEMMA NoMore ==
    ASSUME RestInv, WithinLimit, run'.followUps \in {run.followUps, 0},
           Following(flight') => Following(flight)
    PROVE  WithinLimit'
<1>1. run.followUps \in Nat
  BY DEF RestInv, Typed, RunType
<1> QED BY <1>1, LimitsAssumption DEF WithinLimit, Following

LEMMA FlightsThatFollow ==
    \A f \in FlightType, r \in RunType :
        /\ ~Following(Returns(f))
        /\ Following(Woken(f, r)) => Following(f)
<1> SUFFICES ASSUME NEW f \in FlightType, NEW r \in RunType
             PROVE  ~Following(Returns(f)) /\ (Following(Woken(f, r)) => Following(f))
  OBVIOUS
<1>1. ~Following(Returns(f))
  BY FlightUpdates DEF Following
<1>2. CASE f.pc = "none" /\ r.state = "running"
  BY <1>1, <1>2, FlightUpdates DEF Following
<1>3. CASE f.pc # "none" \/ r.state # "running"
  <2>1. Woken(f, r).pc = f.pc
    BY <1>3, FlightUpdates
  <2> QED BY <1>1, <2>1 DEF Following
<1> QED BY <1>2, <1>3

LEMMA NotedFollowUps == ASSUME run \in RunType PROVE Noted.followUps = run.followUps
BY DEF Noted, RunType

LEMMA PickLimits ==
    ASSUME RestInv, WithinLimit, NEW r \in RunType, NEW f \in FlightType,
           NEW st \in [Tasks -> Statuses], r.state = "running",
           r.followUps \in {run.followUps, 0}, PickAndSend(r, f, st)
    PROVE  WithinLimit'
<1>1. now \in Nat
  BY DEF RestInv, Typed
<1>2. run'.followUps \in {r.followUps, 0} /\ flight'.pc \in {"loop", "sending"}
  BY <1>1, PickOutcome
<1>3. ~Following(flight')
  BY <1>2 DEF Following
<1>4. run'.followUps \in {run.followUps, 0}
  BY <1>2
<1> QED BY <1>3, <1>4, NoMore

LEMMA PauseLimits ==
    ASSUME RestInv, WithinLimit, NEW r \in RunType, r.followUps = run.followUps,
           NEW why \in Reasons, StepPauses(r, flight, why)
    PROVE  WithinLimit'
<1>1. run'.followUps = run.followUps
  BY RunUpdates DEF StepPauses
<1>2. ~Following(flight')
  BY FlightsThatFollow DEF StepPauses, RestInv, Typed
<1> QED BY <1>1, <1>2, NoMore

\* The handlers that leave the run alone and begin no follow-up.
LEMMA OthersLimit ==
    ASSUME RestInv, WithinLimit,
           \/ Loop \/ SendSubmits \/ SendAnswers \/ SendSaved \/ FollowUpSubmits
           \/ TurnEnds \/ TurnEndEcho \/ Signals \/ TypePrompt \/ SessionEnds
           \/ Observe \/ Apply \/ UNCHANGED vars
    PROVE  WithinLimit'
<1>1. run \in RunType /\ flight \in FlightType
  BY DEF RestInv, Typed
<1>2. Woken(flight, run) \in FlightType /\ (Following(Woken(flight, run)) => Following(flight))
      /\ ~Following(Returns(flight))
  BY <1>1, FlightUpdates, FlightsThatFollow
<1>3. run' = run
  BY DEF Loop, SendSubmits, SendAnswers, SendSaved, FollowUpSubmits, TurnEnds, TurnEndEcho,
         Signals, TypePrompt, SessionEnds, Observe, Apply, vars
<1>4. Following(flight') => Following(flight)
  <2>1. CASE Loop
    BY <2>1 DEF Loop, Following, NoFlight
  <2>2. CASE SendSubmits
    <3>1. flight'.pc = "sent"
      BY <1>1, <2>2 DEF SendSubmits, FlightType
    <3> QED BY <3>1 DEF Following
  <2>3. CASE SendAnswers
    <3>1. flight'.pc = "saving"
      BY <1>2, <2>3 DEF SendAnswers, FlightType
    <3> QED BY <3>1 DEF Following
  <2>4. CASE SendSaved
    BY <1>2, <2>4 DEF SendSaved
  <2>5. CASE FollowUpSubmits
    BY <2>5 DEF FollowUpSubmits, Following
  <2>6. CASE Observe
    BY <1>2, <2>6 DEF Observe
  <2>7. CASE Apply
    BY <1>2, <2>7 DEF Apply
  <2>8. CASE TurnEnds \/ TurnEndEcho \/ Signals \/ TypePrompt \/ SessionEnds \/ UNCHANGED vars
    <3>1. flight' = flight
      BY <2>8 DEF TurnEnds, TurnEndEcho, Signals, TypePrompt, SessionEnds, vars
    <3> QED BY <3>1
  <2> QED BY <2>1, <2>2, <2>3, <2>4, <2>5, <2>6, <2>7, <2>8
<1> QED BY <1>3, <1>4, NoMore

LEMMA StepLimits == ASSUME RestInv, WithinLimit, Step PROVE WithinLimit'
<1>1. /\ run \in RunType /\ flight \in FlightType /\ status \in [Tasks -> Statuses]
      /\ link \in [Tasks -> Nat]
  BY DEF RestInv, Typed
<1>2. ~Following(Returns(flight)) /\ Woken(flight, run) \in FlightType
  BY <1>1, FlightUpdates, FlightsThatFollow
<1>3. "task-changed" \in Reasons /\ "session-ended" \in Reasons
  BY DEF Reasons
<1>4. CASE StepTaskChanged
  <2>1. StepPauses(run, flight, "task-changed")
    BY <1>4 DEF StepTaskChanged
  <2> QED BY <1>1, <1>3, <2>1, PauseLimits
<1>5. CASE StepWorking
  <2>1. CASE Seen(run.current).phase = "ended"
    <3>1. StepPauses(run, flight, "session-ended")
      BY <1>5, <2>1 DEF StepWorking
    <3> QED BY <1>1, <1>3, <3>1, PauseLimits
  <2>2. CASE Seen(run.current).phase # "ended"
    <3>1. flight' = Returns(flight) /\ run' = run
      BY <1>5, <2>2 DEF StepWorking
    <3> QED BY <1>2, <3>1, NoMore
  <2> QED BY <2>1, <2>2
<1>6. CASE StepReview
  <2>1. run' = run
    BY <1>6 DEF StepReview
  <2>2. ~Following(flight')
    <3>1. CASE Late(run.current)
      BY <1>2, <1>6, <3>1 DEF StepReview
    <3>2. CASE ~Late(run.current)
      <4>1. flight' = [flight EXCEPT !.pc = "judging", !.task = run.current,
                          !.s = link[run.current], !.judge = run.judge, !.resume = run.started]
        BY <1>6, <3>2 DEF StepReview
      <4>2. flight'.pc = "judging"
        BY <1>1, <4>1 DEF FlightType
      <4> QED BY <4>2 DEF Following
    <3> QED BY <3>1, <3>2
  <2> QED BY <2>1, <2>2, NoMore
<1>7. CASE StepPick
  <2>1. Cleared(run) \in RunType /\ Cleared(run).state = run.state /\ Cleared(run).followUps = 0
    BY <1>1, RunUpdates
  <2>2. run.state = "running"
    BY <1>7 DEF StepPick, Running
  <2>3. PICK r \in RunType, f \in FlightType :
           /\ r.state = "running" /\ r.followUps \in {run.followUps, 0}
           /\ PickAndSend(r, f, status)
    BY <1>1, <1>2, <1>7, <2>1, <2>2 DEF StepPick
  <2> QED BY <1>1, <2>3, PickLimits
<1> QED BY <1>4, <1>5, <1>6, <1>7 DEF Step

LEMMA FailureLimits ==
    ASSUME RestInv, WithinLimit, SendFails \/ FollowUpFails \/ JudgeFails \/ JudgeStale \/ JudgeStop
    PROVE  WithinLimit'
<1>1. run \in RunType /\ flight \in FlightType /\ ids \in Nat
  BY DEF RestInv, Typed
<1>2. Noted \in RunType /\ Noted.followUps = run.followUps
  BY <1>1, NotedRun, NotedFollowUps
<1>3. ~Following(Returns(flight)) /\ ~Following(Returns(NotedFlight))
  <2>1. NotedFlight \in FlightType
    BY <1>1, <1>2, FlightUpdates DEF NotedFlight
  <2> QED BY <1>1, <2>1, FlightsThatFollow
<1>4. \A why \in {"send-failed", "human-input", "judge-stop", "judge-failed"} : why \in Reasons
  BY DEF Reasons
<1>5. CASE SendFails
  <2>1. CASE Running
    <3>1. [run EXCEPT !.current = Nobody] \in RunType
          /\ [run EXCEPT !.current = Nobody].followUps = run.followUps
      BY <1>1 DEF RunType
    <3>2. PICK why \in {"send-failed", "human-input"} :
             StepPauses([run EXCEPT !.current = Nobody], flight, why)
      BY <1>5, <2>1 DEF SendFails
    <3> QED BY <1>4, <3>1, <3>2, PauseLimits
  <2>2. CASE ~Running
    BY <1>3, <1>5, <2>2, NoMore DEF SendFails
  <2> QED BY <2>1, <2>2
<1>6. CASE FollowUpFails
  <2>1. CASE Running
    <3>1. PICK why \in {"send-failed", "human-input"} : StepPauses(run, flight, why)
      BY <1>6, <2>1 DEF FollowUpFails
    <3> QED BY <1>1, <1>4, <3>1, PauseLimits
  <2>2. CASE ~Running
    BY <1>3, <1>6, <2>2, NoMore DEF FollowUpFails
  <2> QED BY <2>1, <2>2
<1>7. CASE JudgeFails
  <2> DEFINE q == [run EXCEPT !.judge = ids + 1]
  <2>1. q \in RunType /\ q.followUps = run.followUps
    BY <1>1 DEF RunType
  <2>2. PICK r \in {run, q} : run' = IF Running THEN Paused(r, "judge-failed") ELSE r
    BY <1>7 DEF JudgeFails
  <2> HIDE DEF q
  <2>3. r \in RunType /\ r.followUps = run.followUps
    BY <1>1, <2>1, <2>2
  <2>4. run'.followUps = run.followUps
    BY <1>4, <2>2, <2>3, RunUpdates
  <2>5. flight' = Returns(flight)
    BY <1>7 DEF JudgeFails
  <2> QED BY <1>3, <2>4, <2>5, NoMore
<1>8. CASE JudgeStale
  <2>1. run' = Noted /\ flight' = Returns(NotedFlight)
    BY <1>8 DEF JudgeStale
  <2> QED BY <1>2, <1>3, <2>1, NoMore
<1>9. CASE JudgeStop
  <2>1. PICK why \in {"judge-stop", "judge-failed"} : StepPauses(Noted, flight, why)
    BY <1>9 DEF JudgeStop
  <2> QED BY <1>2, <1>4, <2>1, PauseLimits
<1> QED BY <1>5, <1>6, <1>7, <1>8, <1>9

LEMMA VerdictLimits ==
    ASSUME RestInv, WithinLimit, JudgeNext \/ JudgeFollowUp \/ FollowUpAnswers
    PROVE  WithinLimit'
<1>1. run \in RunType /\ flight \in FlightType /\ status \in [Tasks -> Statuses]
  BY DEF RestInv, Typed
<1>2. /\ Noted \in RunType /\ Noted.followUps = run.followUps /\ Noted.state = run.state
      /\ run.followUps \in Nat
  BY <1>1, NotedRun, NotedFollowUps DEF RunType
<1>3. NotedFlight \in FlightType
  BY <1>1, <1>2, FlightUpdates DEF NotedFlight
<1>4. CASE JudgeNext
  <2> DEFINE r  == [Cleared(Noted) EXCEPT !.rootRan = @ \/ flight.task = Root]
             st == IF flight.task = Root THEN status ELSE Edited(status, flight.task, "done")
  <2>1. Running /\ PickAndSend(r, NotedFlight, st)
    BY <1>4 DEF JudgeNext
  <2>2. /\ Cleared(Noted) \in RunType /\ Cleared(Noted).state = "running"
        /\ Cleared(Noted).followUps = 0
    BY <1>2, <2>1, RunUpdates DEF Running
  <2>3. (Cleared(Noted).rootRan \/ flight.task = Root) \in BOOLEAN
    BY Zenon
  <2>4. r \in RunType /\ r.state = "running" /\ r.followUps = 0
    BY <2>2, <2>3 DEF RunType
  <2>5. st \in [Tasks -> Statuses]
    BY <1>1 DEF Edited, Statuses
  <2> HIDE DEF r, st
  <2> QED BY <1>3, <2>1, <2>4, <2>5, PickLimits
<1>5. CASE JudgeFollowUp
  <2>1. CASE run.followUps >= MaxFollowUps
    <3>1. StepPauses(Noted, flight, "followup-limit") /\ "followup-limit" \in Reasons
      BY <1>5, <2>1 DEF JudgeFollowUp, Reasons
    <3> QED BY <1>2, <3>1, PauseLimits
  <2>2. CASE ~(run.followUps >= MaxFollowUps)
    <3>1. run' = Noted
      BY <1>5, <2>2 DEF JudgeFollowUp
    <3> QED BY <1>2, <2>2, <3>1, LimitsAssumption DEF WithinLimit
  <2> QED BY <2>1, <2>2
<1>6. CASE FollowUpAnswers
  <2>1. flight.pc = "followed" /\ flight' = Returns(Woken(flight, run))
    BY <1>6 DEF FollowUpAnswers
  <2>2. run.followUps < MaxFollowUps
    BY <2>1 DEF WithinLimit, Following
  <2>3. run'.followUps \in {run.followUps, run.followUps + 1}
    BY <1>1, <1>6 DEF FollowUpAnswers, RunType
  <2>4. ~Following(flight')
    BY <1>1, <2>1, FlightUpdates, FlightsThatFollow
  <2>5. run'.followUps <= MaxFollowUps
    BY <1>2, <2>2, <2>3, LimitsAssumption
  <2> QED BY <2>4, <2>5 DEF WithinLimit
<1> QED BY <1>4, <1>5, <1>6

LEMMA PersonLimits ==
    ASSUME RestInv, WithinLimit,
           Start \/ PauseByUser \/ Resume \/ End \/ SetStatus \/ AppRestarts
    PROVE  WithinLimit'
<1>1. run \in RunType /\ flight \in FlightType /\ ids \in Nat
  BY DEF RestInv, Typed
<1>2. "user" \in Reasons /\ "app-restarted" \in Reasons
  BY DEF Reasons
<1>3. CASE Start
  <2>1. run' = [NoRun EXCEPT !.state = "running", !.judge = ids + 1]
    BY <1>3 DEF Start
  <2>2. run'.followUps = 0
    BY <2>1 DEF NoRun
  <2> QED BY <2>2, LimitsAssumption DEF WithinLimit
<1>4. CASE PauseByUser
  <2>1. run' = Paused(run, "user") /\ flight' = flight
    BY <1>4 DEF PauseByUser
  <2>2. run'.followUps = run.followUps
    BY <1>1, <1>2, <2>1, RunUpdates
  <2> QED BY <2>1, <2>2, NoMore
<1>5. CASE Resume
  <2> DEFINE n == IF run.reason = "followup-limit" THEN MaxFollowUps - 1 ELSE run.followUps
  <2>1. /\ run' = [run EXCEPT !.state = "running", !.reason = "none", !.followUps = n]
        /\ flight' = [Woken(flight, run') EXCEPT !.again = TRUE]
    BY <1>1, <1>5 DEF Resume, RunType
  <2>2. run'.followUps = n /\ run.followUps \in Nat
    BY <1>1, <2>1 DEF RunType
  <2>3. run' \in RunType
    BY <1>5, PersonKeeps DEF RestInv, Typed
  <2>4. Following(flight') => Following(flight)
    <3>1. Woken(flight, run') \in FlightType
      BY <1>1, <2>3, FlightUpdates
    <3>2. flight'.pc = Woken(flight, run').pc
      BY <2>1, <3>1 DEF FlightType
    <3>3. Following(Woken(flight, run')) => Following(flight)
      BY <1>1, <2>3, FlightsThatFollow
    <3> QED BY <3>2, <3>3 DEF Following
  <2>5. n <= MaxFollowUps /\ (Following(flight) => n < MaxFollowUps)
    BY <2>2, LimitsAssumption DEF WithinLimit
  <2> QED BY <2>2, <2>4, <2>5 DEF WithinLimit
<1>6. CASE End
  <2>1. run'.followUps = 0
    BY <1>6 DEF End, NoRun
  <2> QED BY <2>1, LimitsAssumption DEF WithinLimit
<1>7. CASE SetStatus
  <2>1. PICK t \in Tasks, v \in HumanStatuses :
           run' = RunAfter(run, t, v) /\ flight' = Woken(flight, run')
    BY <1>7 DEF SetStatus
  <2>2. run' \in RunType /\ run'.followUps \in {run.followUps, 0}
    BY <1>1, <2>1, RunUpdates DEF RunAfter
  <2>3. Following(flight') => Following(flight)
    BY <1>1, <2>1, <2>2, FlightsThatFollow
  <2> QED BY <2>2, <2>3, NoMore
<1>8. CASE AppRestarts
  <2>1. run' = (IF Running THEN Paused(run, "app-restarted") ELSE run) /\ flight' = NoFlight
    BY <1>8 DEF AppRestarts
  <2>2. run'.followUps = run.followUps
    BY <1>1, <1>2, <2>1, RunUpdates
  <2>3. ~Following(flight')
    BY <2>1 DEF Following, NoFlight
  <2> QED BY <2>2, <2>3, NoMore
<1> QED BY <1>3, <1>4, <1>5, <1>6, <1>7, <1>8

\* No task gets more follow-ups than the limit, whatever pauses, resumptions, restarts and
\* late answers came between: a follow-up under way was begun below it, and nobody raises
\* the count meanwhile (MAX_FOLLOW_UPS).
THEOREM FollowUpsLimited == Spec => [](run.followUps <= MaxFollowUps)
<1>1. Init => WithinLimit
  BY LimitsAssumption DEF Init, WithinLimit, Following, NoRun, NoFlight
<1>2. RestInv /\ WithinLimit /\ [Next]_vars => WithinLimit'
  BY OthersLimit, StepLimits, FailureLimits, VerdictLimits, PersonLimits
     DEF Next, Human, Send, Judge, FollowUp
<1>3. WithinLimit => run.followUps <= MaxFollowUps
  BY DEF WithinLimit
<1>4. RestInv /\ [Next]_vars => RestInv'
  BY NextRests
<1> QED BY <1>1, <1>2, <1>3, <1>4, StartRests, PTL DEF Spec
=============================================================================
