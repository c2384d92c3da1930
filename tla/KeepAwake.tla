------------------------------- MODULE KeepAwake -------------------------------
(***************************************************************************)
(* Keeping the machine awake while an agent works.  The renderer reduces   *)
(* the hub's events to a phase per agent (timeline/turnReducer.ts), and    *)
(* while one works and the setting is on it tells the back end so, again   *)
(* and again (power/keepAwake.ts, ipc/sessionBridge.ts); every word renews *)
(* a lease on the lock, which a task looks at every 30 s (power.rs).  The  *)
(* setting is changed in the GUI and by the CLI, saved by the back end and *)
(* announced to the renderer (ipc/commands/settings.rs).                   *)
(*                                                                         *)
(* Commands of the renderer run as tasks of their own and may pass each    *)
(* other, but are over within half a minute, the unit of time.             *)
(***************************************************************************)
EXTENDS Naturals, Sequences, FiniteSets, SequencesExt

CONSTANTS
    Agents,
    ReleaseDelay, RenewInterval, Lease,   \* in half minutes
    Late,       \* how late a timer of the renderer may be
    MaxActs     \* bound: changes of the setting, failed saves, hangs and reloads

ConstantsFit ==
    /\ {ReleaseDelay, RenewInterval, Lease} \subseteq Nat \ {0}
    /\ {Late, MaxActs} \subseteq Nat

VARIABLES
    page,      \* the web view: "up" or "hung"
    phase,     \* timeTracking: agent -> phase of its turn
    copy,      \* the renderer's copy of keepAwakeEnabled
    ctl,       \* KeepAwakeController: held, and what is left of its two timers
    calls,     \* set_keep_awake under way
    saves,     \* set_app_settings under way
    setting,   \* the back end's keep_awake_enabled
    news,      \* app-settings-changed on the way
    active,    \* the lock is held
    left,      \* what is left of the lease
    looked,    \* the task has looked at the lease in this half minute
    unneeded,     \* (history) half minutes in which nobody needed the lock
    needed,      \* (history) half minutes in which somebody did throughout
    acts

renderer == <<page, phase, copy, ctl>>
lock     == <<active, left>>
vars     == <<renderer, calls, saves, setting, news, lock, looked, unneeded, needed, acts>>

Off == Late + Lease + ReleaseDelay + RenewInterval   \* no timer set
Idle == [held |-> FALSE, release |-> Off, renew |-> Off]

Init ==
    /\ page = "up" /\ phase = [a \in Agents |-> "idle"]
    /\ setting \in BOOLEAN /\ copy = setting /\ ctl = Idle
    /\ calls = <<>> /\ saves = <<>> /\ news = <<>>
    /\ active = FALSE /\ left = 0 /\ looked = FALSE
    /\ unneeded = 0 /\ needed = 0 /\ acts = 0

AnyWorking(p) == \E a \in Agents : p[a] = "working"
Act == acts < MaxActs /\ acts' = acts + 1

-----------------------------------------------------------------------------
(* The renderer                                                             *)

\* Seeded fault: the renewals that the grace suspended are not resumed.
AcquireOnce(c) == [c EXCEPT !.held = TRUE, !.release = Off,
                            !.renew = IF c.held THEN @ ELSE RenewInterval + Late]

\* acquire, releaseNow and releaseSoon of the controller.
Acquire(c) == [held |-> TRUE, release |-> Off,
               renew |-> IF c.renew = Off THEN RenewInterval + Late ELSE c.renew]
ReleaseNow(c) == IF c.held THEN Idle ELSE [c EXCEPT !.release = Off]
ReleaseSoon(c) ==
    IF c.held /\ c.release = Off
    THEN [c EXCEPT !.release = ReleaseDelay + Late, !.renew = Off] ELSE c

Told(c, d) ==
    IF c.held = d.held THEN calls ELSE Append(calls, [active |-> d.held, at |-> "sent"])
Becomes(d) == ctl' = d /\ calls' = Told(ctl, d)

\* recomputeKeepAwake: whenever a turn or the setting changed.
Update(enabled, working) ==
    Becomes(IF ~enabled THEN ReleaseNow(ctl)
            ELSE IF working THEN Acquire(ctl) ELSE ReleaseSoon(ctl))

\* reduceTurn, of which the phase is kept.
Reduced(old, kind) ==
    CASE kind = "prompt"                             -> "working"
      [] kind = "tool"                               -> "working"
      [] kind = "notification" /\ old = "working"    -> "waiting"
      [] kind \in {"stop", "settle"}                 -> "idle"
      [] OTHER                                       -> old

\* applyActivityEvent, applyNotificationTiming, applySessionTiming.
Event(a, kind) ==
    /\ page = "up"
    /\ phase' = [phase EXCEPT ![a] = Reduced(@, kind)]
    /\ Update(copy, AnyWorking(phase'))
    /\ UNCHANGED <<page, copy, saves, setting, news, lock, looked, acts>>

\* The renewal, and the delayed release; a timer may fire from Late half minutes before
\* the latest, which is when nothing is left of it.
RenewTimer ==
    /\ page = "up" /\ ctl.renew <= Late
    /\ ctl' = [ctl EXCEPT !.renew = RenewInterval + Late]
    /\ calls' = Append(calls, [active |-> TRUE, at |-> "sent"])
    /\ UNCHANGED <<page, phase, copy, saves, setting, news, lock, looked, acts>>
ReleaseTimer ==
    /\ page = "up" /\ ctl.release <= Late
    /\ Becomes(ReleaseNow(ctl))
    /\ UNCHANGED <<page, phase, copy, saves, setting, news, lock, looked, acts>>

\* updateAppSettings: at once here, and saved meanwhile.
Toggle ==
    /\ page = "up" /\ Act
    /\ copy' = ~copy /\ saves' = Append(saves, [on |-> ~copy, at |-> "sent"])
    /\ Update(~copy, AnyWorking(phase))
    /\ UNCHANGED <<page, phase, setting, news, lock, looked>>

\* receiveAppSettings.
Receive ==
    /\ page = "up" /\ news # <<>>
    /\ copy' = Head(news) /\ news' = Tail(news)
    /\ Update(copy', AnyWorking(phase))
    /\ UNCHANGED <<page, phase, saves, setting, lock, looked, acts>>

\* The web view stops, or starts anew; what it has sent goes on.
Hang ==
    /\ page = "up" /\ Act /\ page' = "hung"
    /\ UNCHANGED <<phase, copy, ctl, calls, saves, setting, news, lock, looked>>
Reload ==
    /\ Act
    /\ page' = "up" /\ phase' = [a \in Agents |-> "idle"] /\ copy' = setting
    /\ ctl' = Idle /\ news' = <<>>
    /\ UNCHANGED <<calls, saves, setting, lock, looked>>

-----------------------------------------------------------------------------
(* The back end                                                             *)

\* Seeded fault: a lock that is held is left as it is.
RenewHeld == active' = TRUE /\ left' = IF active THEN left ELSE Lease

\* WakeLock.renew and deactivate.
Renew      == active' = TRUE /\ left' = Lease
Deactivate == active' = FALSE /\ left' = 0

\* set_keep_awake(true) reads the setting, then renews.
ReadSetting(i) ==
    /\ calls[i].active /\ calls[i].at = "sent"
    /\ calls' = IF setting THEN [calls EXCEPT ![i].at = "read"] ELSE RemoveAt(calls, i)
    /\ UNCHANGED <<renderer, saves, setting, news, lock, looked, acts>>
SetTrue(i) ==
    /\ calls[i].active /\ calls[i].at = "read"
    /\ Renew /\ calls' = RemoveAt(calls, i)
    /\ UNCHANGED <<renderer, saves, setting, news, looked, acts>>
SetFalse(i) ==
    /\ ~calls[i].active
    /\ Deactivate /\ calls' = RemoveAt(calls, i)
    /\ UNCHANGED <<renderer, saves, setting, news, looked, acts>>

\* apply_settings_patch: saved, cached and announced under one guard.
Saved(on) == setting' = on /\ news' = IF page = "up" THEN Append(news, on) ELSE news
Save(i) ==
    /\ saves[i].at = "sent" /\ Saved(saves[i].on)
    /\ saves' = [saves EXCEPT ![i].at = "saved"]
    /\ UNCHANGED <<renderer, calls, lock, looked, acts>>
SaveFails(i) ==
    /\ saves[i].at = "sent" /\ Act /\ saves' = RemoveAt(saves, i)
    /\ UNCHANGED <<renderer, calls, setting, news, lock, looked>>

\* set_app_settings_inner, after the servers are started.
SaveEnds(i) ==
    /\ saves[i].at = "saved" /\ saves' = RemoveAt(saves, i)
    /\ IF saves[i].on THEN UNCHANGED lock ELSE Deactivate
    /\ UNCHANGED <<renderer, calls, setting, news, looked, acts>>

\* `ctl settings set`: the lock is left to its lease.
CliSets ==
    /\ Act /\ Saved(~setting)
    /\ UNCHANGED <<renderer, calls, saves, lock, looked>>

\* WakeLock.tick; a timer of the renderer that is due at the same instant is first.
RendererDue == page = "up" /\ (ctl.renew = 0 \/ ctl.release = 0)
Look ==
    /\ ~looked /\ looked' = TRUE /\ ~RendererDue
    /\ IF active /\ left = 0 THEN Deactivate ELSE UNCHANGED lock
    /\ UNCHANGED <<renderer, calls, saves, setting, news, acts>>

Less(timer) == IF timer \in {0, Off} THEN timer ELSE timer - 1
Pass ==
    /\ looked /\ calls = <<>> /\ saves = <<>> /\ news = <<>> /\ ~RendererDue
    /\ looked' = FALSE
    /\ ctl' = [ctl EXCEPT !.release = Less(@), !.renew = Less(@)]
    /\ left' = IF left = 0 THEN 0 ELSE left - 1
    /\ UNCHANGED <<page, phase, copy, calls, saves, setting, news, active, acts>>

-----------------------------------------------------------------------------
Works    == page = "up" /\ copy /\ AnyWorking(phase)
Capped(n) == IF n > Lease + RenewInterval THEN n ELSE n + 1
History ==
    /\ unneeded' = IF Works \/ Works' THEN 0 ELSE IF looked /\ ~looked' THEN Capped(unneeded) ELSE unneeded
    /\ needed'  = IF ~(Works /\ setting /\ Works' /\ setting') THEN 0
                ELSE IF looked /\ ~looked' THEN Capped(needed) ELSE needed

Next ==
    /\ \/ \E a \in Agents, k \in {"prompt", "tool", "notification", "stop", "settle"} :
            Event(a, k)
       \/ RenewTimer \/ ReleaseTimer \/ Toggle \/ Receive \/ Hang \/ Reload
       \/ \E i \in DOMAIN calls : ReadSetting(i) \/ SetTrue(i) \/ SetFalse(i)
       \/ \E i \in DOMAIN saves : Save(i) \/ SaveFails(i) \/ SaveEnds(i)
       \/ CliSets \/ Look \/ Pass
    /\ History

Spec == Init /\ [][Next]_vars

-----------------------------------------------------------------------------
TypeOK ==
    /\ page \in {"up", "hung"} /\ {copy, setting, active, looked} \subseteq BOOLEAN
    /\ phase \in [Agents -> {"idle", "working", "waiting"}]
    /\ ctl \in [held : BOOLEAN, release : 0..Off, renew : 0..Off]
    /\ left \in 0..Lease /\ news \in Seq(BOOLEAN)

\* The lock is let go when nobody works: within a lease after the renderer last had
\* a reason to speak, whatever it lost, reordered or left out (power.rs).
LetGo == active => unneeded <= Lease

\* While somebody works the lock is held, but for a renewal interval at most, however
\* short the pauses and in whatever order the calls are handled (keepAwake.ts).
KeptAwake == needed > RenewInterval + Late => active

\* The setting that is switched off in the GUI releases at once (settings.rs).
OffReleases == ~setting /\ ~copy /\ calls = <<>> /\ saves = <<>> => ~active
=============================================================================
