---------------------------- MODULE MCOffice_proofs ----------------------------
(***************************************************************************)
(* Theorems about the machines that the composed run MCOffice              *)
(* instantiates, for every value of their constants: a chat that lives can *)
(* be seen and closed and its tab is true of it (TaskChat), and a session  *)
(* the app was told is handed over is held by a running daemon, which the  *)
(* socket path names, until it ends or is taken back (Sessiond).  AutoRun, *)
(* which MCOffice extends, has its theorems in AutoRun_proofs.             *)
(*                                                                         *)
(* Those about the daemons are for Overlap = FALSE; with TRUE the first    *)
(* does not hold (MCSessiondOverlap.cfg).                                  *)
(***************************************************************************)
EXTENDS MCOffice, TLAPS

\* A step of the composition is a step of one machine and leaves the others alone.
LEMMA OneMachineSteps ==
    [MCNext]_allVars => [Chats!Next]_talk /\ [Daemon!Next]_daemons
  BY DEF MCNext, allVars

\* What is assumed of the constants.
LEMMA Fits == Chats!ConstantsFit /\ Daemon!ConstantsFit /\ Tasks # {}
  BY InstancesFit, TasksAssumption

-----------------------------------------------------------------------------
(* The chats                                                                *)

ChatType == [life : {"unborn", "live", "doomed", "over"}, of : Tasks, page : Nat]
CallType == [task : Tasks, page : Nat, at : {"sent", "building", "sending", "ok", "failed"},
             sid : Chats!Sids \cup {Chats!NoSid}]
CloseType == [task : Tasks, tab : Chats!Sids \cup {Chats!NoSid}]
NewsType == [task : Tasks, state : Chats!Tabs]

ChatTypes ==
    /\ page \in 0 .. MaxReloads /\ opening \subseteq Tasks
    /\ chats \in [Tasks -> Chats!Tabs] /\ latest \in [Tasks -> Chats!Tabs]
    /\ slot \in [Tasks -> Chats!Sids \cup {Chats!NoSid}] /\ sess \in [Chats!Sids -> ChatType]
    /\ calls \subseteq CallType /\ disposes \subseteq CloseType /\ events \in Seq(NewsType)

\* A session whose process runs, and a call of the page that is there.
Runs(s) == sess[s].life \in {"live", "doomed"}
Here(c) == c.page = page

\* A call of this page has its task marked and no tab of it is there; one that has made a
\* session knows it; one that is about to, knows that none runs.
CallTrue(c) ==
    /\ c.page <= page /\ (c.at = "sent" => Here(c))
    /\ Here(c) => c.task \in opening /\ chats[c.task] = Chats!NoTab
    /\ c.at \notin {"sending", "ok"} => c.sid = Chats!NoSid
    /\ c.at \in {"sending", "ok"} =>
         /\ c.sid \in Chats!Sids /\ sess[c.sid].life # "unborn"
         /\ sess[c.sid].of = c.task /\ sess[c.sid].page = c.page
    /\ c.at = "building" => \A s \in Chats!Sids : Runs(s) => sess[s].of # c.task
CallsTrue == \A c \in calls : CallTrue(c)

\* A page has one call about a task, and one call at a time makes a session of it.
OneCall ==
    \A c, d \in calls : c.task = d.task =>
        /\ c.page = d.page => c = d
        /\ {c.at, d.at} \subseteq {"building", "sending"} => c = d

\* A session that runs is its task's.
InSlot == \A s \in Chats!Sids : Runs(s) => slot[sess[s].of] = s
Pages  == \A s \in Chats!Sids : sess[s].life # "unborn" => sess[s].page <= page

\* That s has ended is the last that is, or will be, said of the task.
Ended(s) == [sid |-> s, live |-> FALSE]
Coming(t, s) ==
    \E i \in 1 .. Len(events) :
        /\ events[i].task = t /\ events[i].state = Ended(s)
        /\ \A j \in 1 .. Len(events) : j > i => events[j].task # t
Known(t, s) == latest[t] = Ended(s) /\ \A i \in 1 .. Len(events) : events[i].task # t

\* What the page shows of a task, or is about to, is its newest session, and its end is told.
Shown(t, s) == chats[t].sid = s \/ \E c \in calls : Here(c) /\ c.task = t /\ c.sid = s
ShownTrue ==
    \A t \in Tasks, s \in Chats!Sids : Shown(t, s) =>
        /\ sess[s].life # "unborn" /\ sess[s].of = t
        /\ slot[t] \in {s, Chats!NoSid}
        /\ \A d \in calls : d.task = t /\ d.at \in {"sent", "building", "sending"} => Here(d)
        /\ sess[s].life = "over" => Coming(t, s) \/ Known(t, s)

\* A session is only said to have ended when it has.
Said(t, tab) ==
    /\ tab.sid = Chats!NoSid => tab = Chats!NoTab
    /\ tab.sid # Chats!NoSid => /\ sess[tab.sid].life # "unborn" /\ sess[tab.sid].of = t
                                /\ ~tab.live => sess[tab.sid].life = "over"
NewsTrue ==
    /\ \A t \in Tasks : Said(t, latest[t]) /\ Said(t, chats[t])
    /\ \A i \in 1 .. Len(events) :
         events[i].state.sid # Chats!NoSid /\ Said(events[i].task, events[i].state)
\* A tab that still shows it as running will be told.
TabTold ==
    \A t \in Tasks : chats[t].live /\ sess[chats[t].sid].life = "over" => Coming(t, chats[t].sid)

CInv ==
    /\ ChatTypes /\ CallsTrue /\ OneCall /\ InSlot /\ Pages
    /\ ShownTrue /\ NewsTrue /\ TabTold /\ Chats!NoneHidden

-----------------------------------------------------------------------------
LEMMA ChatFields ==
    ASSUME ChatTypes
    PROVE  /\ \A s \in Chats!Sids : s # Chats!NoSid /\ s \in Nat /\ sess[s].of \in Tasks
                                    /\ sess[s].life \in {"unborn", "live", "doomed", "over"}
                                    /\ sess[s].page \in Nat
           /\ \A c \in calls : c.task \in Tasks /\ c.page \in Nat /\ c.sid \in Chats!Sids \cup {Chats!NoSid}
           /\ \A t \in Tasks : chats[t] \in Chats!Tabs /\ latest[t] \in Chats!Tabs
           /\ \A i \in 1 .. Len(events) : events[i] \in NewsType /\ events[i].task \in Tasks
                                          /\ events[i].state \in Chats!Tabs
           /\ Len(events) \in Nat /\ page \in Nat
           /\ \A d \in disposes : d.task \in Tasks
<1>1. \A s \in Chats!Sids : s # Chats!NoSid /\ s \in Nat /\ sess[s] \in ChatType
  BY Fits DEF ChatTypes, Chats!Sids, Chats!NoSid, Chats!ConstantsFit
<1>2. \A c \in calls : c \in CallType
  BY DEF ChatTypes
<1>3. \A i \in 1 .. Len(events) : events[i] \in NewsType
  BY DEF ChatTypes
<1>4. \A e \in NewsType : e.task \in Tasks /\ e.state \in Chats!Tabs
  BY DEF NewsType
<1>5. page \in Nat
  BY Fits DEF ChatTypes, Chats!ConstantsFit
<1>6. \A d \in disposes : d \in CloseType
  BY DEF ChatTypes
<1> QED BY <1>1, <1>2, <1>3, <1>4, <1>5, <1>6 DEF ChatTypes, ChatType, CallType, CloseType

\* No session is born, ends or changes its task.
Tame ==
    /\ sess' \in [Chats!Sids -> ChatType]
    /\ \A s \in Chats!Sids : /\ sess'[s].of = sess[s].of /\ sess'[s].page = sess[s].page
                             /\ \/ sess'[s].life = sess[s].life
                                \/ sess[s].life = "live" /\ sess'[s].life = "doomed"

LEMMA KilledTame ==
    ASSUME ChatTypes, NEW r \in Chats!Sids, sess' = Chats!Killed(r) \/ sess' = sess
    PROVE  Tame /\ (sess' = Chats!Killed(r) => sess'[r].life # "live")
<1>1. sess \in [Chats!Sids -> ChatType]
  BY DEF ChatTypes
<1>2. CASE sess' = sess
  <2>1. Tame
    BY <1>1, <1>2 DEF Tame
  <2>2. sess = Chats!Killed(r) => sess[r].life # "live"
    BY <1>1 DEF Chats!Killed, ChatType
  <2> QED BY <1>2, <2>1, <2>2
<1>3. CASE sess' = [sess EXCEPT ![r].life = "doomed"] /\ sess[r].life = "live"
  <2>1. [sess[r] EXCEPT !.life = "doomed"] \in ChatType
    BY <1>1 DEF ChatType
  <2>2. sess' = [sess EXCEPT ![r] = [sess[r] EXCEPT !.life = "doomed"]]
    BY <1>3
  <2>3. sess' \in [Chats!Sids -> ChatType]
    BY <1>1, <2>1, <2>2
  <2>4. /\ sess'[r].life = "doomed" /\ sess'[r].of = sess[r].of /\ sess'[r].page = sess[r].page
        /\ \A s \in Chats!Sids : s # r => sess'[s] = sess[s]
    BY <1>1, <1>3 DEF ChatType
  <2> QED BY <1>3, <2>3, <2>4 DEF Tame
<1> QED BY <1>2, <1>3 DEF Chats!Killed, Tame

\* What the page shows goes on, and no session is born or ends.
LEMMA Quiet ==
    ASSUME CInv, Tame, UNCHANGED <<page, chats, latest, events, slot>>,
           opening' \subseteq Tasks, calls' \subseteq CallType, disposes' \subseteq disposes,
           CallsTrue', OneCall',
           \A d \in calls' : \E c \in calls :
               /\ c.task = d.task /\ c.page = d.page /\ d.sid \in {c.sid, Chats!NoSid}
               /\ d.at \in {"sent", "building", "sending"}
                    => c.at \in {"sent", "building", "sending"}
    PROVE  /\ ChatTypes' /\ InSlot' /\ Pages' /\ ShownTrue' /\ NewsTrue' /\ TabTold'
<1>1. ChatTypes'
  BY DEF CInv, ChatTypes, Tame
<1>2. \A s \in Chats!Sids : /\ Runs(s)' = Runs(s) /\ sess'[s].of = sess[s].of
                            /\ sess'[s].page = sess[s].page
                            /\ (sess'[s].life = "over") = (sess[s].life = "over")
                            /\ (sess'[s].life = "unborn") = (sess[s].life = "unborn")
  BY DEF Tame, Runs
<1>3. InSlot' /\ Pages'
  BY <1>2 DEF CInv, InSlot, Pages
<1>4. \A t \in Tasks, s \in Chats!Sids : /\ Coming(t, s)' = Coming(t, s) /\ Known(t, s)' = Known(t, s)
  BY DEF Coming, Known
<1>5. \A t \in Tasks, tab \in Chats!Tabs : Said(t, tab) => Said(t, tab)'
  BY <1>2 DEF Said, Chats!Tabs
<1>6. NewsTrue'
  BY <1>5, ChatFields DEF CInv, NewsTrue
<1>7. TabTold'
  <2> SUFFICES ASSUME NEW t \in Tasks, chats[t].live, sess'[chats[t].sid].life = "over"
               PROVE  Coming(t, chats[t].sid)'
    BY DEF TabTold
  <2>1. chats[t].sid \in Chats!Sids
    BY ChatFields DEF CInv, NewsTrue, Said, Chats!Tabs, Chats!NoTab
  <2> QED BY <1>2, <1>4, <2>1 DEF CInv, TabTold
<1>8. ShownTrue'
  <2> SUFFICES ASSUME NEW t \in Tasks, NEW s \in Chats!Sids, Shown(t, s)'
               PROVE  /\ sess'[s].life # "unborn" /\ sess'[s].of = t
                      /\ slot'[t] \in {s, Chats!NoSid}
                      /\ \A d \in calls' : d.task = t /\ d.at \in {"sent", "building", "sending"}
                                             => Here(d)'
                      /\ sess'[s].life = "over" => Coming(t, s)' \/ Known(t, s)'
    BY DEF ShownTrue
  <2>1. Shown(t, s)
    BY ChatFields DEF Shown, Here, CInv
  <2>2. /\ sess[s].life # "unborn" /\ sess[s].of = t
        /\ slot[t] \in {s, Chats!NoSid}
        /\ \A d \in calls : d.task = t /\ d.at \in {"sent", "building", "sending"} => Here(d)
        /\ sess[s].life = "over" => Coming(t, s) \/ Known(t, s)
    BY <2>1 DEF CInv, ShownTrue
  <2> QED BY <1>2, <1>4, <2>2 DEF Here
<1> QED BY <1>1, <1>3, <1>6, <1>7, <1>8

\* A call takes its next step, and makes no session.
LEMMA Moves ==
    ASSUME CInv, Tame, UNCHANGED <<page, chats, latest, events, slot, opening, disposes>>,
           NEW c \in calls, NEW at \in {"building", "ok", "failed"}, NEW s \in {c.sid, Chats!NoSid},
           Chats!Becomes(c, at, s),
           at = "building" => /\ c.at = "sent" /\ c.task \notin Chats!Guarded /\ s = Chats!NoSid
                              /\ \A r \in Chats!Sids : Runs(r) => sess[r].of # c.task,
           at = "ok" => c.at = "sending" /\ s = c.sid,
           at = "failed" => s = Chats!NoSid /\ (c.sid \in Chats!Sids => sess'[c.sid].life # "live")
    PROVE  CInv'
<1> DEFINE n == [c EXCEPT !.at = at, !.sid = s]
<1>0. calls \subseteq CallType /\ c \in CallType /\ c.sid \in Chats!Sids \cup {Chats!NoSid}
  BY ChatFields DEF CInv, ChatTypes
<1>1. /\ n \in CallType /\ n.task = c.task /\ n.page = c.page /\ n.at = at /\ n.sid = s
      /\ calls' = (calls \ {c}) \cup {n}
  BY <1>0 DEF CallType, Chats!Becomes
<1> HIDE DEF n
<1>2. calls' \subseteq CallType
  BY <1>0, <1>1
<1>3. \A r \in Chats!Sids : /\ Runs(r)' = Runs(r) /\ sess'[r].of = sess[r].of
                            /\ sess'[r].page = sess[r].page
                            /\ (sess'[r].life = "unborn") = (sess[r].life = "unborn")
  BY DEF Tame, Runs
<1>4. CallsTrue'
  <2>1. ASSUME NEW d \in calls, d # c PROVE CallTrue(d)'
    <3>1. CallTrue(d)
      BY DEF CInv, CallsTrue
    <3> QED BY <1>3, <3>1 DEF CallTrue, Here
  <2>2. CallTrue(n)'
    <3>1. CallTrue(c)
      BY DEF CInv, CallsTrue
    <3>2. n.page <= page' /\ (n.at = "sent" => Here(n)')
      BY <1>1, <3>1 DEF CallTrue
    <3>3. Here(n)' => n.task \in opening' /\ chats'[n.task] = Chats!NoTab
      BY <1>1, <3>1 DEF CallTrue, Here
    <3>4. n.at \notin {"sending", "ok"} => n.sid = Chats!NoSid
      BY <1>1
    <3>5. n.at \in {"sending", "ok"} =>
            /\ n.sid \in Chats!Sids /\ sess'[n.sid].life # "unborn"
            /\ sess'[n.sid].of = n.task /\ sess'[n.sid].page = n.page
      BY <1>1, <1>3, <3>1 DEF CallTrue
    <3>6. n.at = "building" => \A r \in Chats!Sids : Runs(r)' => sess'[r].of # n.task
      BY <1>1, <1>3
    <3> QED BY <3>2, <3>3, <3>4, <3>5, <3>6 DEF CallTrue
  <2> QED BY <1>1, <2>1, <2>2 DEF CallsTrue
<1>5. OneCall'
  <2>1. ASSUME NEW d \in calls, d # c, d.task = c.task
        PROVE  /\ d.page # c.page
               /\ ~({n.at, d.at} \subseteq {"building", "sending"})
    <3>1. d.page # c.page
      BY <2>1 DEF CInv, OneCall
    <3>2. n.at = "building" => d.at \notin {"building", "sending"}
      BY <1>1, <2>1 DEF Chats!Guarded
    <3> QED BY <1>1, <3>1, <3>2
  <2> QED BY <1>1, <2>1 DEF CInv, OneCall
<1>6. \A d \in calls' : \E e \in calls :
               /\ e.task = d.task /\ e.page = d.page /\ d.sid \in {e.sid, Chats!NoSid}
               /\ d.at \in {"sent", "building", "sending"}
                    => e.at \in {"sent", "building", "sending"}
  BY <1>1
<1>7. /\ ChatTypes' /\ InSlot' /\ Pages' /\ ShownTrue' /\ NewsTrue' /\ TabTold'
  BY <1>2, <1>4, <1>5, <1>6, Quiet DEF CInv, ChatTypes
<1>8. Chats!NoneHidden'
  <2> SUFFICES ASSUME NEW r \in Chats!Sids, sess'[r].life = "live", sess'[r].page = page
               PROVE  \/ chats[sess[r].of].sid = r
                      \/ \E d \in calls' : d.sid = r
                      \/ \E d \in disposes : d.task = sess[r].of
    BY <1>3 DEF Chats!NoneHidden
  <2>1. sess[r].life = "live" /\ sess[r].page = page
    BY DEF Tame
  <2>2. CASE \E d \in calls : d.sid = r
    <3>1. PICK d \in calls : d.sid = r
      BY <2>2
    <3>2. CASE d # c
      BY <1>1, <3>1, <3>2
    <3>3. CASE d = c
      <4>1. at # "failed"
        BY <3>1, <3>3
      <4>2. at # "building"
        <5>1. c.at = "sent" => c.sid = Chats!NoSid
          BY DEF CInv, CallsTrue, CallTrue
        <5> QED BY <3>1, <3>3, <5>1, ChatFields DEF CInv
      <4> QED BY <1>1, <3>1, <3>3, <4>1, <4>2
    <3> QED BY <3>2, <3>3
  <2> QED BY <2>1, <2>2 DEF CInv, Chats!NoneHidden
<1> QED BY <1>4, <1>5, <1>7, <1>8 DEF CInv

\* The answer of a call is on its way, or it has failed, and its session is to end.
LEMMA CallSteps ==
    ASSUME CInv, NEW c \in calls, Chats!Begin(c) \/ Chats!CreateFails(c) \/ Chats!Sent(c) \/ Chats!SendFails(c)
    PROVE  CInv'
<1>1. /\ UNCHANGED <<page, chats, opening, latest, disposes, events, slot>>
      /\ sess' = sess \/ c.at = "sending"
  BY DEF Chats!Begin, Chats!CreateFails, Chats!Sent, Chats!SendFails, Chats!renderer, Chats!manager
<1>2. sess' = sess => Tame
  BY DEF Tame, CInv, ChatTypes
<1>3. c.at \in {"sending", "ok"} => c.sid \in Chats!Sids /\ sess[c.sid].of = c.task
  BY DEF CInv, CallsTrue, CallTrue
<1>4. c.at \notin {"sending", "ok"} => c.sid = Chats!NoSid
  BY DEF CInv, CallsTrue, CallTrue
<1>5. Chats!NoSid \notin Chats!Sids
  BY ChatFields DEF CInv
<1>6. CASE Chats!Begin(c)
  <2> DEFINE at == IF c.task \in Chats!Guarded \/ Chats!Running(c.task)
                      \/ Chats!Cardinality(Chats!LiveChats) >= MAX_TASK_CHATS THEN "failed" ELSE "building"
  <2>1. c.at = "sent" /\ Chats!Becomes(c, at, Chats!NoSid) /\ sess' = sess
    BY <1>6 DEF Chats!Begin, Chats!manager
  <2>2. at = "building" => c.task \notin Chats!Guarded /\ \A r \in Chats!Sids : Runs(r) => sess[r].of # c.task
    <3> SUFFICES ASSUME at = "building", NEW r \in Chats!Sids, Runs(r), sess[r].of = c.task
                 PROVE  FALSE
      OBVIOUS
    <3>1. slot[c.task] = r /\ r # Chats!NoSid
      BY <1>5 DEF CInv, InSlot
    <3> QED BY <3>1 DEF Chats!Running, Runs
  <2>3. at \in {"building", "failed"}
    OBVIOUS
  <2> HIDE DEF at
  <2> QED BY <1>1, <1>2, <1>4, <1>5, <2>1, <2>2, <2>3, Moves
<1>7. CASE Chats!CreateFails(c)
  <2>1. c.at = "building" /\ Chats!Becomes(c, "failed", Chats!NoSid) /\ sess' = sess
    BY <1>7 DEF Chats!CreateFails, Chats!manager
  <2> QED BY <1>1, <1>2, <1>4, <1>5, <2>1, Moves
<1>8. CASE Chats!Sent(c)
  <2>1. c.at = "sending" /\ Chats!Becomes(c, "ok", c.sid) /\ sess' = sess
    BY <1>8 DEF Chats!Sent, Chats!manager
  <2> QED BY <1>1, <1>2, <2>1, Moves
<1>9. CASE Chats!SendFails(c)
  <2>1. /\ c.at = "sending" /\ Chats!Becomes(c, "failed", Chats!NoSid)
        /\ sess' = IF slot[c.task] = c.sid THEN Chats!Killed(c.sid) ELSE sess
    BY <1>9 DEF Chats!SendFails
  <2>2. Tame /\ (slot[c.task] = c.sid => sess'[c.sid].life # "live")
    BY <1>3, <2>1, KilledTame DEF CInv
  <2>3. slot[c.task] # c.sid => sess'[c.sid].life # "live"
    BY <1>3, <2>1 DEF CInv, InSlot, Runs
  <2> QED BY <1>1, <2>1, <2>2, <2>3, Moves
<1> QED BY <1>6, <1>7, <1>8, <1>9

\* dispose_session ends the session that is there.
LEMMA Disposes == ASSUME CInv, NEW d \in disposes, Chats!Dispose(d) PROVE CInv'
<1>1. /\ UNCHANGED <<page, chats, opening, latest, calls, events, slot>>
      /\ disposes' = disposes \ {d}
      /\ sess' = IF slot[d.task] = Chats!NoSid THEN sess ELSE Chats!Killed(slot[d.task])
  BY DEF Chats!Dispose, Chats!renderer
<1>2. slot[d.task] # Chats!NoSid => slot[d.task] \in Chats!Sids
  BY ChatFields DEF CInv, ChatTypes
<1>3. sess' = sess => Tame
  BY DEF Tame, CInv, ChatTypes
<1>4. Tame /\ (slot[d.task] # Chats!NoSid => sess'[slot[d.task]].life # "live")
  BY <1>1, <1>2, <1>3, KilledTame DEF CInv
<1>5. \A r \in Chats!Sids : Runs(r)' = Runs(r) /\ (sess'[r].life = "unborn") = (sess[r].life = "unborn")
  BY <1>4 DEF Tame, Runs
<1>6. CallsTrue' /\ OneCall'
  <2>1. OneCall'
    BY <1>1 DEF CInv, OneCall
  <2>2. ASSUME NEW c \in calls PROVE CallTrue(c)'
    <3>1. CallTrue(c)
      BY DEF CInv, CallsTrue
    <3> QED BY <1>1, <1>4, <1>5, <3>1 DEF CallTrue, Here, Tame
  <2> QED BY <1>1, <2>1, <2>2 DEF CallsTrue
<1>7. \A c \in calls' : \E e \in calls :
               /\ e.task = c.task /\ e.page = c.page /\ c.sid \in {e.sid, Chats!NoSid}
               /\ c.at \in {"sent", "building", "sending"}
                    => e.at \in {"sent", "building", "sending"}
  BY <1>1
<1>8. /\ ChatTypes' /\ InSlot' /\ Pages' /\ ShownTrue' /\ NewsTrue' /\ TabTold'
  BY <1>1, <1>4, <1>6, <1>7, Quiet DEF CInv, ChatTypes
<1>9. Chats!NoneHidden'
  <2> SUFFICES ASSUME NEW r \in Chats!Sids, sess'[r].life = "live", sess'[r].page = page
               PROVE  \/ chats[sess[r].of].sid = r
                      \/ \E c \in calls : c.sid = r
                      \/ \E e \in disposes' : e.task = sess[r].of
    BY <1>1, <1>4 DEF Chats!NoneHidden, Tame
  <2>1. sess[r].life = "live" /\ sess[r].page = page
    BY <1>4 DEF Tame
  <2>2. slot[sess[r].of] = r /\ r # Chats!NoSid
    BY <2>1, ChatFields DEF CInv, InSlot, Runs
  <2>3. sess[r].of # d.task
    BY <1>4, <2>2
  <2> QED BY <1>1, <2>1, <2>3 DEF CInv, Chats!NoneHidden
<1> QED BY <1>6, <1>8, <1>9 DEF CInv

\* The renderer forgets what it knows of a task, which no call of its is about.
LEMMA Forgets ==
    ASSUME CInv, NEW t \in Tasks, \A c \in calls : Here(c) => c.task # t,
           chats' \in [Tasks -> Chats!Tabs], chats'[t] = Chats!NoTab,
           latest' \in [Tasks -> Chats!Tabs], latest'[t] \in {latest[t], Chats!NoTab},
           \A u \in Tasks : u # t => chats'[u] = chats[u] /\ latest'[u] = latest[u],
           UNCHANGED <<page, events, slot, sess>>,
           \/ calls' = calls /\ opening' = opening
           \/ /\ calls' = calls \cup {[task |-> t, page |-> page, at |-> "sent", sid |-> Chats!NoSid]}
              /\ opening' = opening \cup {t},
           disposes' \subseteq CloseType
    PROVE  ChatTypes' /\ CallsTrue' /\ OneCall' /\ InSlot' /\ Pages' /\ ShownTrue' /\ NewsTrue'
           /\ TabTold'
<1> PICK n : n = [task |-> t, page |-> page, at |-> "sent", sid |-> Chats!NoSid]
  OBVIOUS
<1>0. page \in Nat /\ Chats!NoSid \notin Chats!Sids /\ Chats!NoTab.sid = Chats!NoSid /\ ~Chats!NoTab.live
  BY ChatFields DEF CInv, Chats!NoTab
<1>1. /\ n \in CallType /\ n.task = t /\ n.page = page /\ n.at = "sent" /\ n.sid = Chats!NoSid
      /\ \/ calls' = calls /\ opening' = opening
         \/ calls' = calls \cup {n} /\ opening' = opening \cup {t}
  BY <1>0 DEF CallType
<1>2. ChatTypes'
  BY <1>1 DEF CInv, ChatTypes
<1>3. CallsTrue'
  <2>1. ASSUME NEW d \in calls PROVE CallTrue(d)'
    <3>1. CallTrue(d) /\ d.task \in Tasks
      BY ChatFields DEF CInv, CallsTrue
    <3>2. Here(d) => chats'[d.task] = chats[d.task] /\ d.task \in opening'
      BY <1>1, <3>1 DEF CallTrue
    <3> QED BY <3>1, <3>2 DEF CallTrue, Here, Runs
  <2>2. calls' = calls \cup {n} => CallTrue(n)'
    <3> SUFFICES ASSUME calls' = calls \cup {n} PROVE CallTrue(n)'
      OBVIOUS
    <3>1. t \in opening'
      BY <1>1 DEF Here
    <3>2. n.page <= page' /\ Here(n)'
      BY <1>0, <1>1 DEF Here
    <3> QED BY <1>1, <3>1, <3>2 DEF CallTrue
  <2> QED BY <1>1, <2>1, <2>2 DEF CallsTrue
<1>4. OneCall'
  <2>1. \A d \in calls : d.task = t => d.page # n.page
    BY <1>1 DEF Here
  <2> QED BY <1>1, <2>1 DEF CInv, OneCall
<1>5. InSlot' /\ Pages'
  BY DEF CInv, InSlot, Pages, Runs
<1>6. \A u \in Tasks, s \in Chats!Sids : /\ Coming(u, s)' = Coming(u, s)
                                         /\ u # t => Known(u, s)' = Known(u, s)
  BY DEF Coming, Known
<1>7. \A u \in Tasks, s \in Chats!Sids : Shown(u, s)' => Shown(u, s) /\ u # t
  <2> SUFFICES ASSUME NEW u \in Tasks, NEW s \in Chats!Sids, Shown(u, s)'
               PROVE  Shown(u, s) /\ u # t
    OBVIOUS
  <2>1. CASE chats'[u].sid = s
    BY <1>0, <2>1 DEF Shown
  <2>2. CASE \E c \in calls' : Here(c)' /\ c.task = u /\ c.sid = s
    <3>1. PICK c \in calls' : Here(c)' /\ c.task = u /\ c.sid = s
      BY <2>2
    <3>2. c \in calls /\ Here(c)
      BY <1>0, <1>1, <3>1 DEF Here
    <3> QED BY <3>1, <3>2 DEF Shown
  <2> QED BY <2>1, <2>2 DEF Shown
<1>8. ShownTrue'
  <2> SUFFICES ASSUME NEW u \in Tasks, NEW s \in Chats!Sids, Shown(u, s)'
               PROVE  /\ sess[s].life # "unborn" /\ sess[s].of = u
                      /\ slot[u] \in {s, Chats!NoSid}
                      /\ \A d \in calls' : d.task = u /\ d.at \in {"sent", "building", "sending"}
                                             => Here(d)'
                      /\ sess[s].life = "over" => Coming(u, s)' \/ Known(u, s)'
    BY DEF ShownTrue
  <2>1. Shown(u, s) /\ u # t
    BY <1>7
  <2>2. /\ sess[s].life # "unborn" /\ sess[s].of = u
        /\ slot[u] \in {s, Chats!NoSid}
        /\ \A d \in calls : d.task = u /\ d.at \in {"sent", "building", "sending"} => Here(d)
        /\ sess[s].life = "over" => Coming(u, s) \/ Known(u, s)
    BY <2>1 DEF CInv, ShownTrue
  <2> QED BY <1>1, <1>6, <2>1, <2>2 DEF Here
<1>9. NewsTrue'
  <2>1. \A u \in Tasks : Said(u, Chats!NoTab)
    BY <1>0 DEF Said
  <2>2. \A u \in Tasks, tab \in Chats!Tabs : Said(u, tab)' = Said(u, tab)
    BY DEF Said
  <2>3. \A u \in Tasks : Said(u, latest'[u]) /\ Said(u, chats'[u])
    BY <2>1, <2>2, ChatFields DEF CInv, NewsTrue
  <2> QED BY <2>2, <2>3, ChatFields DEF CInv, NewsTrue
<1>10. TabTold'
  <2> SUFFICES ASSUME NEW u \in Tasks, chats'[u].live, sess[chats'[u].sid].life = "over",
                      NEW s, s = chats'[u].sid
               PROVE  Coming(u, s)'
    BY DEF TabTold
  <2>1. u # t /\ chats'[u] = chats[u]
    BY <1>0
  <2>2. chats[u].sid \in Chats!Sids
    BY <1>0, <2>1, ChatFields DEF CInv, NewsTrue, Said, Chats!Tabs
  <2> QED BY <1>6, <2>1, <2>2 DEF CInv, TabTold
<1> QED BY <1>2, <1>3, <1>4, <1>5, <1>8, <1>9, <1>10

\* A tab that does not show its session as running is of one that has ended.
LEMMA TabOver ==
    ASSUME CInv, NEW s \in Chats!Sids, sess[s].life = "live", chats[sess[s].of].sid = s
    PROVE  chats[sess[s].of].live
BY ChatFields DEF CInv, NewsTrue, Said, Chats!Tabs

LEMMA OpenKeeps == ASSUME CInv, NEW t \in Tasks, Chats!Open(t) PROVE CInv'
<1>1. /\ ~chats[t].live /\ t \notin opening /\ opening' = opening \cup {t}
      /\ IF chats[t] = Chats!NoTab THEN UNCHANGED <<chats, latest>> ELSE Chats!Forgotten(t)
      /\ calls' = calls \cup {[task |-> t, page |-> page, at |-> "sent", sid |-> Chats!NoSid]}
      /\ UNCHANGED <<page, disposes, events, slot, sess>>
  BY DEF Chats!Open, Chats!manager
<1>2. \A c \in calls : Here(c) => c.task # t
  BY <1>1 DEF CInv, CallsTrue, CallTrue
<1>3. chats \in [Tasks -> Chats!Tabs] /\ latest \in [Tasks -> Chats!Tabs] /\ disposes \subseteq CloseType
  BY DEF CInv, ChatTypes
<1>4. Chats!NoTab \in Chats!Tabs /\ Chats!NoTab.sid = Chats!NoSid
  BY DEF Chats!NoTab, Chats!Tabs
<1>5. /\ chats' \in [Tasks -> Chats!Tabs] /\ chats'[t] = Chats!NoTab
      /\ latest' \in [Tasks -> Chats!Tabs] /\ latest'[t] \in {latest[t], Chats!NoTab}
      /\ \A u \in Tasks : u # t => chats'[u] = chats[u] /\ latest'[u] = latest[u]
  BY <1>1, <1>3, <1>4 DEF Chats!Forgotten
<1>6. /\ ChatTypes' /\ CallsTrue' /\ OneCall' /\ InSlot' /\ Pages' /\ ShownTrue' /\ NewsTrue'
      /\ TabTold'
  BY <1>1, <1>2, <1>3, <1>5, Forgets
<1>7. Chats!NoneHidden'
  <2> SUFFICES ASSUME NEW s \in Chats!Sids, sess[s].life = "live", sess[s].page = page
               PROVE  \/ chats'[sess[s].of].sid = s
                      \/ \E c \in calls' : c.sid = s
                      \/ \E d \in disposes : d.task = sess[s].of
    BY <1>1 DEF Chats!NoneHidden
  <2>1. \/ chats[sess[s].of].sid = s
        \/ \E c \in calls : c.sid = s
        \/ \E d \in disposes : d.task = sess[s].of
    BY DEF CInv, Chats!NoneHidden
  <2>2. chats[sess[s].of].sid = s => chats'[sess[s].of].sid = s
    BY <1>1, <1>5, TabOver, ChatFields DEF CInv
  <2> QED BY <1>1, <2>1, <2>2
<1> QED BY <1>6, <1>7 DEF CInv

LEMMA CloseKeeps == ASSUME CInv, NEW t \in Tasks, Chats!Close(t) PROVE CInv'
<1>1. /\ chats[t] # Chats!NoTab /\ Chats!Forgotten(t)
      /\ disposes' = IF chats[t].live THEN disposes \cup {[task |-> t, tab |-> chats[t].sid]}
                     ELSE disposes
      /\ UNCHANGED <<page, opening, calls, events, slot, sess>>
  BY DEF Chats!Close, Chats!manager
<1>2. \A c \in calls : Here(c) => c.task # t
  BY <1>1 DEF CInv, CallsTrue, CallTrue
<1>3. chats \in [Tasks -> Chats!Tabs] /\ latest \in [Tasks -> Chats!Tabs] /\ disposes \subseteq CloseType
  BY DEF CInv, ChatTypes
<1>4. Chats!NoTab \in Chats!Tabs /\ chats[t].sid \in Chats!Sids \cup {Chats!NoSid}
  BY <1>3 DEF Chats!NoTab, Chats!Tabs
<1>5. /\ chats' \in [Tasks -> Chats!Tabs] /\ chats'[t] = Chats!NoTab
      /\ latest' \in [Tasks -> Chats!Tabs] /\ latest'[t] \in {latest[t], Chats!NoTab}
      /\ \A u \in Tasks : u # t => chats'[u] = chats[u] /\ latest'[u] = latest[u]
  BY <1>1, <1>3, <1>4 DEF Chats!Forgotten
<1>6. disposes' \subseteq CloseType
  BY <1>1, <1>3, <1>4 DEF CloseType
<1>7. /\ ChatTypes' /\ CallsTrue' /\ OneCall' /\ InSlot' /\ Pages' /\ ShownTrue' /\ NewsTrue'
      /\ TabTold'
  BY <1>1, <1>2, <1>5, <1>6, Forgets
<1>8. Chats!NoneHidden'
  <2> SUFFICES ASSUME NEW s \in Chats!Sids, sess[s].life = "live", sess[s].page = page
               PROVE  \/ chats'[sess[s].of].sid = s
                      \/ \E c \in calls : c.sid = s
                      \/ \E d \in disposes' : d.task = sess[s].of
    BY <1>1 DEF Chats!NoneHidden
  <2>1. \/ chats[sess[s].of].sid = s
        \/ \E c \in calls : c.sid = s
        \/ \E d \in disposes : d.task = sess[s].of
    BY DEF CInv, Chats!NoneHidden
  <2>2. CASE chats[sess[s].of].sid = s /\ sess[s].of = t
    <3>1. [task |-> t, tab |-> chats[t].sid] \in disposes'
      BY <1>1, <2>2, TabOver
    <3> QED BY <2>2, <3>1
  <2>3. CASE chats[sess[s].of].sid = s /\ sess[s].of # t
    BY <1>5, <2>3, ChatFields DEF CInv
  <2> QED BY <1>1, <2>1, <2>2, <2>3
<1> QED BY <1>7, <1>8 DEF CInv

\* The answer is heard by the page that asked.
LEMMA AnswerKeeps == ASSUME CInv, NEW c \in calls, Chats!Answer(c) PROVE CInv'
<1>1. /\ c.at \in {"ok", "failed"} /\ calls' = calls \ {c}
      /\ UNCHANGED <<page, latest, disposes, events, slot, sess>>
      /\ c.page = page => opening' = opening \ {c.task}
      /\ c.page # page => UNCHANGED <<opening, chats>>
      /\ chats' = IF c.page = page /\ c.at = "ok"
                  THEN [chats EXCEPT ![c.task] = Chats!Answered(c.task, c.sid)] ELSE chats
  BY DEF Chats!Answer, Chats!manager
<1>2. /\ c.task \in Tasks /\ calls \subseteq CallType /\ opening \subseteq Tasks
      /\ disposes \subseteq CloseType /\ chats \in [Tasks -> Chats!Tabs] /\ latest \in [Tasks -> Chats!Tabs]
  BY ChatFields DEF CInv, ChatTypes
<1>3. calls' \subseteq CallType /\ opening' \subseteq Tasks /\ calls' \subseteq calls
  BY <1>1, <1>2
<1>4. \A d \in calls' : Here(d) /\ Here(c) => d.task # c.task
  BY <1>1 DEF CInv, OneCall, Here
<1>5. ASSUME NEW d \in calls' PROVE CallTrue(d)'
  <2>1. CallTrue(d) /\ d.task \in Tasks
    BY <1>3, ChatFields DEF CInv, CallsTrue
  <2>2. Here(d) => d.task \in opening' /\ chats'[d.task] = Chats!NoTab
    BY <1>1, <1>2, <1>4, <2>1 DEF CallTrue, Here
  <2> QED BY <1>1, <2>1, <2>2 DEF CallTrue, Here, Runs
<1>6. CallsTrue' /\ OneCall'
  BY <1>3, <1>5 DEF CallsTrue, CInv, OneCall
<1>7. Tame
  BY <1>1 DEF Tame, CInv, ChatTypes
<1>8. CASE ~(c.page = page /\ c.at = "ok")
  <2>1. UNCHANGED chats
    BY <1>1, <1>8
  <2>2. \A d \in calls' : \E e \in calls :
               /\ e.task = d.task /\ e.page = d.page /\ d.sid \in {e.sid, Chats!NoSid}
               /\ d.at \in {"sent", "building", "sending"}
                    => e.at \in {"sent", "building", "sending"}
    BY <1>3
  <2>3. /\ ChatTypes' /\ InSlot' /\ Pages' /\ ShownTrue' /\ NewsTrue' /\ TabTold'
    BY <1>1, <1>3, <1>6, <1>7, <2>1, <2>2, Quiet
  <2>4. Chats!NoneHidden'
    <3> SUFFICES ASSUME NEW s \in Chats!Sids, sess[s].life = "live", sess[s].page = page
                 PROVE  \/ chats[sess[s].of].sid = s
                        \/ \E d \in calls' : d.sid = s
                        \/ \E d \in disposes : d.task = sess[s].of
      BY <1>1, <2>1 DEF Chats!NoneHidden
    <3>1. c.sid # s
      BY <1>1, <1>8, ChatFields DEF CInv, CallsTrue, CallTrue
    <3> QED BY <1>1, <3>1 DEF CInv, Chats!NoneHidden
  <2> QED BY <1>6, <2>3, <2>4 DEF CInv
<1>9. CASE c.page = page /\ c.at = "ok"
  <2> DEFINE t == c.task
             s == c.sid
  <2>1. /\ s \in Chats!Sids /\ sess[s].life # "unborn" /\ sess[s].of = t
        /\ s # Chats!NoSid /\ t \in Tasks
    BY <1>2, <1>9, ChatFields DEF CInv, CallsTrue, CallTrue
  <2>2. Shown(t, s)
    BY <1>9 DEF Shown, Here
  <2>3. /\ chats'[t].sid = s /\ chats' \in [Tasks -> Chats!Tabs]
        /\ chats'[t].live = IF latest[t].sid = s THEN latest[t].live ELSE TRUE
        /\ \A u \in Tasks : u # t => chats'[u] = chats[u]
    <3>1. Chats!Answered(t, s) \in Chats!Tabs /\ Chats!Answered(t, s).sid = s
          /\ Chats!Answered(t, s).live = IF latest[t].sid = s THEN latest[t].live ELSE TRUE
      BY <1>2, <2>1 DEF Chats!Answered, Chats!Tabs
    <3> QED BY <1>1, <1>2, <1>9, <3>1
  <2>4. ~chats'[t].live => sess[s].life = "over" /\ latest[t].live = FALSE /\ latest[t].sid = s
    BY <2>1, <2>3 DEF CInv, NewsTrue, Said
  <2>5. ChatTypes'
    BY <1>1, <1>3, <2>3 DEF CInv, ChatTypes
  <2>6. InSlot' /\ Pages'
    BY <1>1 DEF CInv, InSlot, Pages, Runs
  <2>7. \A u \in Tasks, r \in Chats!Sids : /\ Coming(u, r)' = Coming(u, r) /\ Known(u, r)' = Known(u, r)
    BY <1>1 DEF Coming, Known
  <2>8. \A u \in Tasks, r \in Chats!Sids : Shown(u, r)' => Shown(u, r)
    BY <1>1, <2>2, <2>3 DEF Shown, Here
  <2>9. ShownTrue'
    <3> SUFFICES ASSUME NEW u \in Tasks, NEW r \in Chats!Sids, Shown(u, r)'
                 PROVE  /\ sess[r].life # "unborn" /\ sess[r].of = u
                        /\ slot[u] \in {r, Chats!NoSid}
                        /\ \A d \in calls' : d.task = u /\ d.at \in {"sent", "building", "sending"}
                                               => Here(d)'
                        /\ sess[r].life = "over" => Coming(u, r)' \/ Known(u, r)'
      BY <1>1 DEF ShownTrue
    <3>1. /\ sess[r].life # "unborn" /\ sess[r].of = u
          /\ slot[u] \in {r, Chats!NoSid}
          /\ \A d \in calls : d.task = u /\ d.at \in {"sent", "building", "sending"} => Here(d)
          /\ sess[r].life = "over" => Coming(u, r) \/ Known(u, r)
      BY <2>8 DEF CInv, ShownTrue
    <3> QED BY <1>1, <2>7, <3>1 DEF Here
  <2>10. NewsTrue'
    <3>1. \A u \in Tasks, tab \in Chats!Tabs : Said(u, tab)' = Said(u, tab)
      BY <1>1 DEF Said
    <3>2. Said(t, chats'[t])
      BY <2>1, <2>3, <2>4 DEF Said
    <3>3. \A u \in Tasks : Said(u, latest[u]) /\ Said(u, chats'[u]) /\ chats'[u] \in Chats!Tabs
      BY <2>3, <3>2 DEF CInv, NewsTrue
    <3> QED BY <1>1, <1>2, <3>1, <3>3, ChatFields DEF CInv, NewsTrue
  <2>11. TabTold'
    <3> SUFFICES ASSUME NEW u \in Tasks, chats'[u].live, NEW r, r = chats'[u].sid,
                        sess[r].life = "over"
                 PROVE  Coming(u, r)'
      BY <1>1 DEF TabTold
    <3>1. CASE u = t
      <4>1. r = s /\ (Coming(t, s) \/ Known(t, s))
        BY <2>1, <2>2, <2>3, <3>1 DEF CInv, ShownTrue
      <4>2. ~Known(t, s)
        <5> SUFFICES ASSUME Known(t, s) PROVE FALSE
          OBVIOUS
        <5>1. latest[t].sid = s /\ latest[t].live = FALSE
          BY DEF Known, Ended
        <5>2. chats'[t].live = FALSE
          BY <2>3, <5>1
        <5> QED BY <3>1, <5>2
      <4> QED BY <2>1, <2>7, <3>1, <4>1, <4>2
    <3>2. CASE u # t
      <4>1. chats[u].live /\ r = chats[u].sid
        BY <2>3, <3>2
      <4>2. r \in Chats!Sids
        BY <4>1, ChatFields DEF CInv, NewsTrue, Said, Chats!Tabs, Chats!NoTab
      <4> QED BY <2>7, <4>1, <4>2 DEF CInv, TabTold
    <3> QED BY <3>1, <3>2
  <2>12. Chats!NoneHidden'
    <3> SUFFICES ASSUME NEW r \in Chats!Sids, sess[r].life = "live", sess[r].page = page
                 PROVE  \/ chats'[sess[r].of].sid = r
                        \/ \E d \in calls' : d.sid = r
                        \/ \E d \in disposes : d.task = sess[r].of
      BY <1>1 DEF Chats!NoneHidden
    <3>1. CASE sess[r].of = t /\ chats[t].sid = r
      <4>1. chats[t] = Chats!NoTab
        BY <1>9 DEF CInv, CallsTrue, CallTrue, Here
      <4> QED BY <3>1, <4>1, ChatFields DEF CInv, Chats!NoTab
    <3> QED BY <1>1, <2>1, <2>3, <3>1, ChatFields DEF CInv, Chats!NoneHidden
  <2> QED BY <1>6, <2>5, <2>6, <2>9, <2>10, <2>11, <2>12 DEF CInv
<1> QED BY <1>8, <1>9

\* A new page shows nothing, and nothing of what the last one asked for is its.
LEMMA ReloadKeeps == ASSUME CInv, Chats!Reload PROVE CInv'
<1>1. /\ page < MaxReloads /\ page' = page + 1 /\ \A c \in calls : c.at # "sent"
      /\ chats' = [t \in Tasks |-> Chats!NoTab] /\ latest' = [t \in Tasks |-> Chats!NoTab]
      /\ opening' = {} /\ events' = <<>>
      /\ UNCHANGED <<calls, disposes, slot, sess>>
  BY DEF Chats!Reload, Chats!manager
<1>2. page \in 0 .. MaxReloads /\ MaxReloads \in Nat /\ page \in Nat /\ Chats!NoSid \notin Chats!Sids
  BY Fits, ChatFields DEF CInv, ChatTypes, Chats!ConstantsFit
<1>3. Chats!NoTab \in Chats!Tabs /\ Chats!NoTab.sid = Chats!NoSid /\ ~Chats!NoTab.live /\ Len(events') = 0
  BY <1>1 DEF Chats!NoTab, Chats!Tabs
<1>4. \A c \in calls : c.page \in Nat /\ c.page <= page /\ ~Here(c)'
  BY <1>1, <1>2, ChatFields DEF CInv, CallsTrue, CallTrue, Here
<1>5. ChatTypes'
  BY <1>1, <1>2, <1>3 DEF CInv, ChatTypes
<1>6. CallsTrue'
  <2>1. ASSUME NEW c \in calls PROVE CallTrue(c)'
    <3>1. CallTrue(c)
      BY DEF CInv, CallsTrue
    <3>2. c.page <= page'
      BY <1>1, <1>2, <1>4
    <3> QED BY <1>1, <1>4, <3>1, <3>2 DEF CallTrue, Runs
  <2> QED BY <1>1, <2>1 DEF CallsTrue
<1>7. OneCall' /\ InSlot'
  BY <1>1 DEF CInv, OneCall, InSlot, Runs
<1>8. \A s \in Chats!Sids : sess[s].life # "unborn" => sess[s].page <= page /\ sess[s].page < page'
  BY <1>1, <1>2, ChatFields DEF CInv, Pages
<1>9. Pages' /\ Chats!NoneHidden'
  <2>1. Pages'
    BY <1>1, <1>2, <1>8, ChatFields DEF Pages, CInv
  <2>2. Chats!NoneHidden'
    BY <1>1, <1>2, <1>8, ChatFields DEF Chats!NoneHidden, CInv
  <2> QED BY <2>1, <2>2
<1>10. ShownTrue'
  BY <1>1, <1>2, <1>3, <1>4 DEF ShownTrue, Shown
<1>11. NewsTrue' /\ TabTold'
  BY <1>1, <1>3 DEF NewsTrue, TabTold, Said
<1> QED BY <1>5, <1>6, <1>7, <1>9, <1>10, <1>11 DEF CInv

\* The page takes the next event; what is said of other tasks still comes.
LEMMA EventKeeps == ASSUME CInv, Chats!Event PROVE CInv'
<1> PICK e : e = Head(events)
  OBVIOUS
<1>1. /\ events # <<>> /\ events' = Tail(events)
      /\ latest' = [latest EXCEPT ![e.task] = e.state]
      /\ chats' = IF chats[e.task].sid = e.state.sid
                  THEN [chats EXCEPT ![e.task] = e.state] ELSE chats
      /\ UNCHANGED <<page, opening, calls, disposes, slot, sess>>
  BY DEF Chats!Event, Chats!manager
<1>2. /\ events \in Seq(NewsType) /\ chats \in [Tasks -> Chats!Tabs] /\ latest \in [Tasks -> Chats!Tabs]
  BY DEF CInv, ChatTypes
<1>3. /\ events' \in Seq(NewsType) /\ Len(events) \in Nat /\ Len(events) >= 1
      /\ Len(events') = Len(events) - 1 /\ e = events[1]
      /\ \A i \in 1 .. Len(events') : events'[i] = events[i + 1] /\ i + 1 \in 1 .. Len(events)
      /\ \A i \in 1 .. Len(events) : i # 1 => i - 1 \in 1 .. Len(events')
                                                /\ events'[i - 1] = events[i]
  <2>1. /\ events' \in Seq(NewsType) /\ Len(events) \in Nat /\ Len(events) >= 1
        /\ Len(events') = Len(events) - 1 /\ e = events[1]
    BY <1>1, <1>2
  <2>2. \A i \in 1 .. Len(events') : events'[i] = events[i + 1] /\ i + 1 \in 1 .. Len(events)
    BY <1>1, <1>2, <2>1
  <2>3. ASSUME NEW i \in 1 .. Len(events), i # 1
        PROVE  i - 1 \in 1 .. Len(events') /\ events'[i - 1] = events[i]
    <3>1. i - 1 \in 1 .. Len(events')
      BY <2>1, <2>3
    <3> QED BY <2>2, <3>1
  <2> QED BY <2>1, <2>2, <2>3
<1> HIDE <1>3
<1>4. /\ e \in NewsType /\ e.task \in Tasks /\ e.state \in Chats!Tabs /\ e.state.sid # Chats!NoSid
      /\ e.state.sid \in Chats!Sids /\ Said(e.task, e.state)
  <2>1. 1 \in 1 .. Len(events)
    BY <1>3
  <2>2. e \in NewsType /\ e.task \in Tasks /\ e.state \in Chats!Tabs
    BY <1>3, <2>1, ChatFields DEF CInv
  <2>3. e.state.sid # Chats!NoSid /\ Said(e.task, e.state)
    BY <1>3, <2>1 DEF CInv, NewsTrue
  <2> QED BY <2>2, <2>3 DEF Chats!Tabs
<1>5. /\ latest' \in [Tasks -> Chats!Tabs] /\ latest'[e.task] = e.state
      /\ \A u \in Tasks : u # e.task => latest'[u] = latest[u] /\ chats'[u] = chats[u]
      /\ chats' \in [Tasks -> Chats!Tabs]
      /\ IF chats[e.task].sid = e.state.sid THEN chats'[e.task] = e.state
                                            ELSE chats'[e.task] = chats[e.task]
  BY <1>1, <1>2, <1>4
<1>6. \A u \in Tasks : chats'[u].sid = chats[u].sid
  BY <1>5
<1>7. ChatTypes'
  BY <1>1, <1>3, <1>5 DEF CInv, ChatTypes
<1>8. CallsTrue'
  <2>1. ASSUME NEW c \in calls PROVE CallTrue(c)'
    <3>1. CallTrue(c) /\ c.task \in Tasks
      BY ChatFields DEF CInv, CallsTrue
    <3>2. Here(c) => chats'[c.task] = Chats!NoTab
      BY <1>4, <1>5, <3>1 DEF CallTrue, Chats!NoTab
    <3> QED BY <1>1, <3>1, <3>2 DEF CallTrue, Here, Runs
  <2> QED BY <1>1, <2>1 DEF CallsTrue
<1>9. OneCall' /\ InSlot' /\ Pages'
  BY <1>1 DEF CInv, OneCall, InSlot, Pages, Runs
<1>10. \A u \in Tasks, s \in Chats!Sids : Shown(u, s)' = Shown(u, s)
  BY <1>1, <1>6 DEF Shown, Here
\* The end of a session that is still to come, or was this event.
<1>11. ASSUME NEW u \in Tasks, NEW s \in Chats!Sids, Coming(u, s)
       PROVE  Coming(u, s)' \/ (e.task = u /\ e.state = Ended(s) /\ Known(u, s)')
  <2>1. PICK i \in 1 .. Len(events) :
               /\ events[i].task = u /\ events[i].state = Ended(s)
               /\ \A j \in 1 .. Len(events) : j > i => events[j].task # u
    BY <1>11 DEF Coming
  <2>2. CASE i = 1
    <3>1. e.task = u /\ e.state = Ended(s) /\ latest'[u] = Ended(s)
      BY <1>3, <1>5, <2>1, <2>2
    <3>2. ASSUME NEW j \in 1 .. Len(events') PROVE events'[j].task # u
      BY <1>3, <2>1, <2>2
    <3> QED BY <3>1, <3>2 DEF Known, Ended
  <2>3. CASE i # 1
    <3>1. i - 1 \in 1 .. Len(events') /\ events'[i - 1] = events[i]
      BY <1>3, <2>3
    <3>2. ASSUME NEW j \in 1 .. Len(events'), j > i - 1 PROVE events'[j].task # u
      <4>1. j + 1 \in 1 .. Len(events) /\ events'[j] = events[j + 1] /\ j + 1 > i
        BY <1>3, <3>2
      <4> QED BY <2>1, <4>1
    <3> QED BY <2>1, <3>1, <3>2 DEF Coming, Ended
  <2> QED BY <2>2, <2>3
<1>12. ASSUME NEW u \in Tasks, NEW s \in Chats!Sids, Known(u, s)
       PROVE  e.task # u /\ Known(u, s)'
  <2>1. e.task # u
    <3>1. 1 \in 1 .. Len(events)
      BY <1>3
    <3> QED BY <1>3, <1>12, <3>1 DEF Known
  <2>2. ASSUME NEW j \in 1 .. Len(events') PROVE events'[j].task # u
    BY <1>3, <1>12 DEF Known
  <2> QED BY <1>5, <1>12, <2>1, <2>2 DEF Known, Ended
<1>13. ShownTrue'
  <2> SUFFICES ASSUME NEW u \in Tasks, NEW s \in Chats!Sids, Shown(u, s)'
               PROVE  /\ sess[s].life # "unborn" /\ sess[s].of = u
                      /\ slot[u] \in {s, Chats!NoSid}
                      /\ \A d \in calls : d.task = u /\ d.at \in {"sent", "building", "sending"}
                                             => Here(d)'
                      /\ sess[s].life = "over" => Coming(u, s)' \/ Known(u, s)'
    BY <1>1 DEF ShownTrue
  <2>1. /\ sess[s].life # "unborn" /\ sess[s].of = u
        /\ slot[u] \in {s, Chats!NoSid}
        /\ \A d \in calls : d.task = u /\ d.at \in {"sent", "building", "sending"} => Here(d)
        /\ sess[s].life = "over" => Coming(u, s) \/ Known(u, s)
    BY <1>10 DEF CInv, ShownTrue
  <2> QED BY <1>1, <1>11, <1>12, <2>1 DEF Here
<1>14. NewsTrue'
  <2>1. \A u \in Tasks, tab \in Chats!Tabs : Said(u, tab)' = Said(u, tab)
    BY <1>1 DEF Said
  <2>2. \A u \in Tasks : Said(u, latest'[u]) /\ Said(u, chats'[u])
    BY <1>4, <1>5 DEF CInv, NewsTrue
  <2>3. \A i \in 1 .. Len(events') :
          /\ events'[i].state.sid # Chats!NoSid /\ Said(events'[i].task, events'[i].state)
          /\ events'[i].task \in Tasks /\ events'[i].state \in Chats!Tabs
    BY <1>3, ChatFields DEF CInv, NewsTrue
  <2> QED BY <1>5, <2>1, <2>2, <2>3 DEF NewsTrue
<1>15. TabTold'
  <2> SUFFICES ASSUME NEW u \in Tasks, chats'[u].live, NEW s, s = chats'[u].sid,
                      sess[s].life = "over"
               PROVE  Coming(u, s)'
    BY <1>1 DEF TabTold
  <2>1. s = chats[u].sid /\ s \in Chats!Sids
    <3>1. chats[u].sid = Chats!NoSid => chats'[u] = Chats!NoTab
      BY <1>4, <1>5 DEF CInv, NewsTrue, Said
    <3>2. chats[u].sid \in Chats!Sids \cup {Chats!NoSid}
      BY ChatFields DEF CInv, Chats!Tabs
    <3> QED BY <1>6, <3>1, <3>2 DEF Chats!NoTab
  <2>2. CASE u = e.task /\ chats[u].sid = e.state.sid
    <3>1. e.state.live /\ e.state # Ended(s)
      <4>1. e.state.live
        BY <1>5, <2>2
      <4> QED BY <4>1 DEF Ended
    <3>2. Shown(u, s)
      BY <2>1 DEF Shown
    <3>3. Coming(u, s) \/ Known(u, s)
      BY <2>1, <3>2 DEF CInv, ShownTrue
    <3> QED BY <1>11, <1>12, <2>1, <2>2, <3>1, <3>3
  <2>3. CASE ~(u = e.task /\ chats[u].sid = e.state.sid)
    <3>1. chats'[u] = chats[u]
      BY <1>5, <2>3
    <3>2. Coming(u, s)
      BY <2>1, <3>1 DEF CInv, TabTold
    <3>3. e.task = u => e.state # Ended(s)
      BY <2>1, <2>3 DEF Ended
    <3> QED BY <1>11, <2>1, <3>2, <3>3
  <2> QED BY <2>2, <2>3
<1>16. Chats!NoneHidden'
  BY <1>1, <1>6, ChatFields DEF CInv, Chats!NoneHidden
<1> QED BY <1>7, <1>8, <1>9, <1>13, <1>14, <1>15, <1>16 DEF CInv

\* An event is sent about a task: what is to come about another still is.
LEMMA Announces ==
    ASSUME ChatTypes, NEW t \in Tasks, NEW s \in Chats!Sids, NEW live \in BOOLEAN, Chats!Announced(s, t, live)
    PROVE  /\ events' \in Seq(NewsType)
           /\ \A u \in Tasks, r \in Chats!Sids :
                u # t => /\ Coming(u, r) => Coming(u, r)'
                         /\ Known(u, r) /\ latest' = latest => Known(u, r)'
           /\ live = FALSE => Coming(t, s)'
           /\ \A i \in 1 .. Len(events') :
                \/ events'[i] = [task |-> t, state |-> [sid |-> s, live |-> live]]
                \/ i \in 1 .. Len(events) /\ events'[i] = events[i]
<1> PICK e : e = [task |-> t, state |-> [sid |-> s, live |-> live]]
  OBVIOUS
<1>1. e \in NewsType /\ e.task = t /\ e.state = [sid |-> s, live |-> live]
  BY DEF NewsType, Chats!Tabs
<1>2. events \in Seq(NewsType) /\ events' = Append(events, e)
  BY DEF ChatTypes, Chats!Announced
<1>3. /\ events' \in Seq(NewsType) /\ Len(events) \in Nat /\ Len(events') = Len(events) + 1
      /\ events'[Len(events')] = e
      /\ \A i \in 1 .. Len(events) : events'[i] = events[i] /\ i \in 1 .. Len(events')
      /\ \A i \in 1 .. Len(events') : i \in 1 .. Len(events) \/ i = Len(events')
  BY <1>1, <1>2
<1>4. ASSUME NEW u \in Tasks, NEW r \in Chats!Sids, u # t, Coming(u, r) PROVE Coming(u, r)'
  <2>1. PICK i \in 1 .. Len(events) :
               /\ events[i].task = u /\ events[i].state = Ended(r)
               /\ \A j \in 1 .. Len(events) : j > i => events[j].task # u
    BY <1>4 DEF Coming
  <2>2. i \in 1 .. Len(events') /\ events'[i] = events[i]
    BY <1>3
  <2>3. \A j \in 1 .. Len(events') : j > i => events'[j].task # u
    BY <1>1, <1>3, <1>4, <2>1
  <2> QED BY <2>1, <2>2, <2>3 DEF Coming, Ended
<1>5. ASSUME NEW u \in Tasks, NEW r \in Chats!Sids, u # t, Known(u, r), latest' = latest
      PROVE  Known(u, r)'
  <2>1. \A j \in 1 .. Len(events') : events'[j].task # u
    BY <1>1, <1>3, <1>5 DEF Known
  <2> QED BY <1>5, <2>1 DEF Known, Ended
<1>6. ASSUME live = FALSE PROVE Coming(t, s)'
  <2>1. Len(events') \in 1 .. Len(events')
    BY <1>3
  <2>4. e.state = Ended(s)
    BY <1>1, <1>6 DEF Ended
  <2>2. \A j \in 1 .. Len(events') : ~(j > Len(events'))
    BY <1>3
  <2> QED BY <1>1, <1>3, <2>1, <2>2, <2>4 DEF Coming, Ended
<1>7. \A i \in 1 .. Len(events') : events'[i] = e \/ (i \in 1 .. Len(events) /\ events'[i] = events[i])
  BY <1>3
<1> QED BY <1>3, <1>4, <1>5, <1>6, <1>7

\* While a call makes a session of a task, the page shows none of it.
LEMMA ShowsNone ==
    ASSUME CInv, NEW c \in calls, c.at = "building", NEW r \in Chats!Sids
    PROVE  ~Shown(c.task, r)
<1> SUFFICES ASSUME Shown(c.task, r) PROVE FALSE
  OBVIOUS
<1>1. c.task \in Tasks /\ r # Chats!NoSid
  BY ChatFields DEF CInv
<1>2. Here(c)
  BY <1>1 DEF CInv, ShownTrue
<1>3. chats[c.task] = Chats!NoTab /\ c.sid = Chats!NoSid
  BY <1>2 DEF CInv, CallsTrue, CallTrue
<1>4. PICK d \in calls : Here(d) /\ d.task = c.task /\ d.sid = r
  BY <1>1, <1>3 DEF Shown, Chats!NoTab
<1>5. d = c
  BY <1>2, <1>4 DEF CInv, OneCall, Here
<1> QED BY <1>1, <1>3, <1>4, <1>5

LEMMA CreateKeeps == ASSUME CInv, NEW c \in calls, Chats!Create(c) PROVE CInv'
<1> PICK t : t = c.task
  OBVIOUS
<1>1. PICK s \in Chats!Sids :
         /\ sess[s].life = "unborn"
         /\ sess' = [sess EXCEPT ![s] = [life |-> "live", of |-> t, page |-> c.page]]
         /\ slot' = [slot EXCEPT ![t] = s]
         /\ Chats!Announced(s, t, TRUE) /\ Chats!Becomes(c, "sending", s)
  BY DEF Chats!Create
<1>2. c.at = "building" /\ UNCHANGED <<page, chats, opening, latest, disposes>>
  BY DEF Chats!Create, Chats!renderer
<1>3. /\ t \in Tasks /\ c \in CallType /\ calls \subseteq CallType /\ c.page \in Nat
      /\ slot \in [Tasks -> Chats!Sids \cup {Chats!NoSid}] /\ sess \in [Chats!Sids -> ChatType]
      /\ Chats!NoSid \notin Chats!Sids /\ page \in Nat
  BY ChatFields DEF CInv, ChatTypes
<1>4. /\ c.page <= page /\ c.sid = Chats!NoSid /\ (Here(c) => t \in opening /\ chats[t] = Chats!NoTab)
      /\ \A r \in Chats!Sids : Runs(r) => sess[r].of # t
  BY <1>2 DEF CInv, CallsTrue, CallTrue
<1> PICK n : n = [c EXCEPT !.at = "sending", !.sid = s]
  OBVIOUS
<1>5. /\ n \in CallType /\ n.task = t /\ n.page = c.page /\ n.at = "sending" /\ n.sid = s
      /\ calls' = (calls \ {c}) \cup {n}
  BY <1>1, <1>3 DEF CallType, Chats!Becomes
<1>6. /\ sess' \in [Chats!Sids -> ChatType] /\ sess'[s].life = "live" /\ sess'[s].of = t
      /\ sess'[s].page = c.page /\ \A r \in Chats!Sids : r # s => sess'[r] = sess[r]
  <2>1. [life |-> "live", of |-> t, page |-> c.page] \in ChatType
    BY <1>3 DEF ChatType
  <2> QED BY <1>1, <1>3, <2>1
<1>7. /\ slot' \in [Tasks -> Chats!Sids \cup {Chats!NoSid}] /\ slot'[t] = s
      /\ \A u \in Tasks : u # t => slot'[u] = slot[u]
  BY <1>1, <1>3
<1>8. /\ events' \in Seq(NewsType)
      /\ \A u \in Tasks, r \in Chats!Sids :
            u # t => /\ Coming(u, r) => Coming(u, r)'
                     /\ Known(u, r) /\ latest' = latest => Known(u, r)'
      /\ \A i \in 1 .. Len(events') :
            \/ events'[i] = [task |-> t, state |-> [sid |-> s, live |-> TRUE]]
            \/ i \in 1 .. Len(events) /\ events'[i] = events[i]
  BY <1>1, <1>3, Announces DEF CInv
<1>9. ChatTypes'
  BY <1>2, <1>3, <1>5, <1>6, <1>7, <1>8 DEF CInv, ChatTypes
\* Another call about the task makes no session now.
<1>10. ASSUME NEW d \in calls, d # c, d.task = t
       PROVE  d.page # c.page /\ d.at \notin {"building", "sending"}
  BY <1>2, <1>10 DEF CInv, OneCall
<1>11. CallsTrue'
  <2>1. ASSUME NEW d \in calls, d # c PROVE CallTrue(d)'
    <3>1. CallTrue(d)
      BY DEF CInv, CallsTrue
    <3>2. d.at \in {"sending", "ok"} => d.sid # s
      BY <1>1, <3>1 DEF CallTrue
    <3>3. d.at = "building" => \A r \in Chats!Sids : Runs(r)' => sess'[r].of # d.task
      <4> SUFFICES ASSUME d.at = "building", NEW r \in Chats!Sids, Runs(r)' PROVE sess'[r].of # d.task
        OBVIOUS
      <4>1. CASE r = s
        BY <1>6, <1>10, <2>1, <4>1
      <4>2. CASE r # s
        BY <1>6, <3>1, <4>2 DEF CallTrue, Runs
      <4> QED BY <4>1, <4>2
    <3> QED BY <1>2, <1>6, <3>1, <3>2, <3>3 DEF CallTrue, Here
  <2>2. CallTrue(n)'
    BY <1>2, <1>4, <1>5, <1>6 DEF CallTrue, Here
  <2> QED BY <1>5, <2>1, <2>2 DEF CallsTrue
<1>12. OneCall'
  <2>1. \A d \in calls : d # c /\ d.task = t =>
          d.page # n.page /\ ~({n.at, d.at} \subseteq {"building", "sending"})
    BY <1>5, <1>10
  <2>2. \A d, e \in calls : d # c /\ e # c /\ d.task = e.task =>
          /\ d.page = e.page => d = e
          /\ {d.at, e.at} \subseteq {"building", "sending"} => d = e
    BY DEF CInv, OneCall
  <2>3. \A d \in calls' : d # n => d \in calls /\ d # c
    BY <1>5
  <2> SUFFICES ASSUME NEW d \in calls', NEW e \in calls', d.task = e.task, d # e
               PROVE  d.page # e.page /\ ~({d.at, e.at} \subseteq {"building", "sending"})
    BY DEF OneCall
  <2>4. CASE d = n \/ e = n
    BY <1>5, <2>1, <2>3, <2>4
  <2> QED BY <2>2, <2>3, <2>4
<1>13. InSlot' /\ Pages'
  <2>1. ASSUME NEW r \in Chats!Sids, Runs(r)' PROVE slot'[sess'[r].of] = r
    <3>1. CASE r = s
      BY <1>6, <1>7, <3>1
    <3>2. CASE r # s
      <4>1. Runs(r) /\ sess'[r].of = sess[r].of /\ sess[r].of # t /\ sess[r].of \in Tasks
        BY <1>4, <1>6, <2>1, <3>2, ChatFields DEF Runs, CInv
      <4> QED BY <1>7, <4>1 DEF CInv, InSlot
    <3> QED BY <3>1, <3>2
  <2>2. Pages'
    BY <1>2, <1>4, <1>6 DEF CInv, Pages
  <2> QED BY <2>1, <2>2 DEF InSlot
\* What the page knows of is of another task, or the new session, and was born before.
<1>14. ASSUME NEW u \in Tasks, NEW r \in Chats!Sids, Shown(u, r)
       PROVE  u # t /\ r # s /\ sess'[r] = sess[r]
  <2>1. u # t
    BY <1>2, <1>14, ShowsNone
  <2>2. sess[r].life # "unborn"
    BY <1>14 DEF CInv, ShownTrue
  <2> QED BY <1>1, <1>6, <2>1, <2>2
<1>15. \A u \in Tasks, r \in Chats!Sids :
          Shown(u, r)' => Shown(u, r) \/ (u = t /\ r = s /\ Here(c))
  BY <1>2, <1>5 DEF Shown, Here
<1>16. ShownTrue'
  <2> SUFFICES ASSUME NEW u \in Tasks, NEW r \in Chats!Sids, Shown(u, r)'
               PROVE  /\ sess'[r].life # "unborn" /\ sess'[r].of = u
                      /\ slot'[u] \in {r, Chats!NoSid}
                      /\ \A d \in calls' : d.task = u /\ d.at \in {"sent", "building", "sending"}
                                             => Here(d)'
                      /\ sess'[r].life = "over" => Coming(u, r)' \/ Known(u, r)'
    BY DEF ShownTrue
  <2>1. CASE Shown(u, r)
    <3>1. /\ sess[r].life # "unborn" /\ sess[r].of = u
          /\ slot[u] \in {r, Chats!NoSid}
          /\ \A d \in calls : d.task = u /\ d.at \in {"sent", "building", "sending"} => Here(d)
          /\ sess[r].life = "over" => Coming(u, r) \/ Known(u, r)
      BY <2>1 DEF CInv, ShownTrue
    <3>2. u # t /\ r # s /\ sess'[r] = sess[r]
      BY <1>14, <2>1
    <3> QED BY <1>2, <1>5, <1>7, <1>8, <3>1, <3>2 DEF Here
  <2>2. CASE u = t /\ r = s /\ Here(c)
    <3>1. ASSUME NEW d \in calls', d.task = t, d.at \in {"sent", "building", "sending"}
          PROVE  Here(d)'
      <4>1. CASE d = n
        BY <1>2, <1>5, <2>2, <4>1 DEF Here
      <4>2. CASE d # n
        <5>1. d \in calls /\ d.at = "sent"
          BY <1>5, <1>10, <3>1, <4>2
        <5> QED BY <1>2, <5>1 DEF CInv, CallsTrue, CallTrue, Here
      <4> QED BY <4>1, <4>2
    <3> QED BY <1>6, <1>7, <2>2, <3>1
  <2> QED BY <1>15, <2>1, <2>2
<1>17. ASSUME NEW u \in Tasks, NEW tab \in Chats!Tabs, Said(u, tab) PROVE Said(u, tab)' /\ tab.sid # s
  <2>1. tab.sid # s /\ (tab.sid # Chats!NoSid => tab.sid \in Chats!Sids)
    BY <1>1, <1>3, <1>17 DEF Said, Chats!Tabs
  <2> QED BY <1>6, <1>17, <2>1 DEF Said, Chats!Tabs
<1>18. NewsTrue'
  <2>1. \A u \in Tasks : Said(u, latest[u])' /\ Said(u, chats[u])'
    BY <1>2, <1>17, ChatFields DEF CInv, NewsTrue
  <2>2. ASSUME NEW i \in 1 .. Len(events'), NEW x \in Tasks, NEW tab \in Chats!Tabs,
               x = events'[i].task, tab = events'[i].state
        PROVE  tab.sid # Chats!NoSid /\ Said(x, tab)'
    <3>1. CASE events'[i] = [task |-> t, state |-> [sid |-> s, live |-> TRUE]]
      BY <1>3, <1>6, <2>2, <3>1 DEF Said, Chats!NoTab
    <3>2. CASE i \in 1 .. Len(events) /\ events'[i] = events[i]
      BY <1>17, <2>2, <3>2 DEF CInv, NewsTrue
    <3> QED BY <1>8, <3>1, <3>2
  <2>3. \A i \in 1 .. Len(events') : events'[i].task \in Tasks /\ events'[i].state \in Chats!Tabs
    <3>1. \A i \in 1 .. Len(events') : events'[i] \in NewsType
      BY <1>8
    <3> QED BY <3>1 DEF NewsType
  <2> QED BY <1>2, <2>1, <2>2, <2>3 DEF NewsTrue
<1>19. TabTold'
  <2> SUFFICES ASSUME NEW u \in Tasks, chats[u].live, NEW r, r = chats[u].sid,
                      sess'[r].life = "over"
               PROVE  Coming(u, r)'
    BY <1>2 DEF TabTold
  <2>1. r \in Chats!Sids
    BY ChatFields DEF CInv, NewsTrue, Said, Chats!Tabs, Chats!NoTab
  <2>2. Shown(u, r)
    BY DEF Shown
  <2> QED BY <1>8, <1>14, <2>1, <2>2 DEF CInv, TabTold
<1>20. Chats!NoneHidden'
  <2> SUFFICES ASSUME NEW r \in Chats!Sids, sess'[r].life = "live", sess'[r].page = page
               PROVE  \/ chats[sess'[r].of].sid = r
                      \/ \E d \in calls' : d.sid = r
                      \/ \E d \in disposes : d.task = sess'[r].of
    BY <1>2 DEF Chats!NoneHidden
  <2>1. CASE r = s
    BY <1>5, <2>1
  <2>2. CASE r # s
    BY <1>3, <1>4, <1>5, <1>6, <2>2 DEF CInv, Chats!NoneHidden
  <2> QED BY <2>1, <2>2
<1> QED BY <1>9, <1>11, <1>12, <1>13, <1>16, <1>18, <1>19, <1>20 DEF CInv

\* A session ends, of itself or by the kill, and that is told.
LEMMA ExitKeeps == ASSUME CInv, NEW s \in Chats!Sids, Chats!Exit(s) PROVE CInv'
<1> PICK t : t = sess[s].of
  OBVIOUS
<1>1. /\ Runs(s) /\ sess' = [sess EXCEPT ![s].life = "over"]
      /\ UNCHANGED <<page, chats, opening, latest, calls, disposes>>
      /\ slot[t] = s
  BY DEF Chats!Exit, Chats!renderer, CInv, InSlot, Runs
<1>2. /\ Chats!Announced(s, t, FALSE)
      /\ slot' = IF sess[s].life = "doomed" THEN [slot EXCEPT ![t] = Chats!NoSid] ELSE slot
  BY <1>1 DEF Chats!Exit
<1>3. /\ t \in Tasks /\ s # Chats!NoSid /\ slot \in [Tasks -> Chats!Sids \cup {Chats!NoSid}]
      /\ sess \in [Chats!Sids -> ChatType]
  BY ChatFields DEF CInv, ChatTypes
<1>4. /\ sess' \in [Chats!Sids -> ChatType] /\ sess'[s].life = "over"
      /\ sess'[s].of = t /\ sess'[s].page = sess[s].page
      /\ \A r \in Chats!Sids : r # s => sess'[r] = sess[r]
  <2>1. /\ [sess[s] EXCEPT !.life = "over"] \in ChatType
        /\ sess' = [sess EXCEPT ![s] = [sess[s] EXCEPT !.life = "over"]]
    BY <1>1, <1>3 DEF ChatType
  <2> QED BY <1>3, <2>1 DEF ChatType
<1>5. /\ slot' \in [Tasks -> Chats!Sids \cup {Chats!NoSid}] /\ slot'[t] \in {s, Chats!NoSid}
      /\ \A u \in Tasks : u # t => slot'[u] = slot[u]
  BY <1>1, <1>2, <1>3
<1>6. /\ events' \in Seq(NewsType) /\ Coming(t, s)'
      /\ \A u \in Tasks, r \in Chats!Sids :
            u # t => /\ Coming(u, r) => Coming(u, r)'
                     /\ Known(u, r) /\ latest' = latest => Known(u, r)'
      /\ \A i \in 1 .. Len(events') :
            \/ events'[i] = [task |-> t, state |-> [sid |-> s, live |-> FALSE]]
            \/ i \in 1 .. Len(events) /\ events'[i] = events[i]
  BY <1>2, <1>3, Announces DEF CInv
<1>7. ChatTypes'
  BY <1>1, <1>4, <1>5, <1>6 DEF CInv, ChatTypes
<1>8. \A r \in Chats!Sids : /\ sess'[r].of = sess[r].of /\ sess'[r].page = sess[r].page
                            /\ (sess'[r].life = "unborn") = (sess[r].life = "unborn")
                            /\ Runs(r)' => Runs(r) /\ r # s
                            /\ sess[r].life = "over" => sess'[r].life = "over"
                            /\ sess'[r].life = "live" => sess[r].life = "live"
  BY <1>1, <1>4 DEF Runs
<1>9. CallsTrue' /\ OneCall'
  <2>1. ASSUME NEW c \in calls PROVE CallTrue(c)'
    <3>1. CallTrue(c)
      BY DEF CInv, CallsTrue
    <3> QED BY <1>1, <1>8, <3>1 DEF CallTrue, Here
  <2>2. OneCall'
    BY <1>1 DEF CInv, OneCall
  <2> QED BY <1>1, <2>1, <2>2 DEF CallsTrue
<1>10. InSlot' /\ Pages'
  <2>1. ASSUME NEW r \in Chats!Sids, Runs(r)' PROVE slot'[sess'[r].of] = r
    <3>1. Runs(r) /\ r # s /\ slot[sess[r].of] = r /\ sess[r].of \in Tasks
      BY <1>8, <2>1, ChatFields DEF CInv, InSlot
    <3> QED BY <1>1, <1>5, <1>8, <3>1
  <2>2. Pages'
    BY <1>1, <1>8 DEF CInv, Pages
  <2> QED BY <2>1, <2>2 DEF InSlot
\* Of its task the page shows no other.
<1>11. ASSUME NEW u \in Tasks, NEW r \in Chats!Sids, Shown(u, r) PROVE u = t <=> r = s
  BY <1>1, <1>3, <1>11, ChatFields DEF CInv, ShownTrue
<1>12. \A u \in Tasks, r \in Chats!Sids : Shown(u, r)' = Shown(u, r)
  BY <1>1 DEF Shown, Here
<1>13. ShownTrue'
  <2> SUFFICES ASSUME NEW u \in Tasks, NEW r \in Chats!Sids, Shown(u, r)'
               PROVE  /\ sess'[r].life # "unborn" /\ sess'[r].of = u
                      /\ slot'[u] \in {r, Chats!NoSid}
                      /\ \A d \in calls : d.task = u /\ d.at \in {"sent", "building", "sending"}
                                             => Here(d)'
                      /\ sess'[r].life = "over" => Coming(u, r)' \/ Known(u, r)'
    BY <1>1 DEF ShownTrue
  <2>1. Shown(u, r)
    BY <1>12
  <2>2. /\ sess[r].life # "unborn" /\ sess[r].of = u
        /\ slot[u] \in {r, Chats!NoSid}
        /\ \A d \in calls : d.task = u /\ d.at \in {"sent", "building", "sending"} => Here(d)
        /\ sess[r].life = "over" => Coming(u, r) \/ Known(u, r)
    BY <2>1 DEF CInv, ShownTrue
  <2>3. CASE u = t
    <3>1. r = s
      BY <1>11, <2>1, <2>3
    <3> QED BY <1>1, <1>4, <1>5, <1>6, <2>2, <2>3, <3>1 DEF Here
  <2>4. CASE u # t
    <3>1. r # s
      BY <1>11, <2>1, <2>4
    <3> QED BY <1>1, <1>4, <1>5, <1>6, <2>2, <2>4, <3>1 DEF Here
  <2> QED BY <2>3, <2>4
<1>14. NewsTrue'
  <2>0. ASSUME NEW u \in Tasks, NEW tab \in Chats!Tabs, Said(u, tab) PROVE Said(u, tab)'
    BY <1>8, <2>0 DEF Said, Chats!Tabs
  <2>1. \A u \in Tasks : Said(u, latest[u])' /\ Said(u, chats[u])'
    BY <1>1, <2>0, ChatFields DEF CInv, NewsTrue
  <2>2. ASSUME NEW i \in 1 .. Len(events'), NEW x \in Tasks, NEW tab \in Chats!Tabs,
               x = events'[i].task, tab = events'[i].state
        PROVE  tab.sid # Chats!NoSid /\ Said(x, tab)'
    <3>1. CASE events'[i] = [task |-> t, state |-> [sid |-> s, live |-> FALSE]]
      BY <1>3, <1>4, <2>2, <3>1 DEF Said, Chats!NoTab
    <3>2. CASE i \in 1 .. Len(events) /\ events'[i] = events[i]
      BY <2>0, <2>2, <3>2 DEF CInv, NewsTrue
    <3> QED BY <1>6, <3>1, <3>2
  <2>3. \A i \in 1 .. Len(events') : events'[i].task \in Tasks /\ events'[i].state \in Chats!Tabs
    <3>1. \A i \in 1 .. Len(events') : events'[i] \in NewsType
      BY <1>6
    <3> QED BY <3>1 DEF NewsType
  <2> QED BY <1>1, <2>1, <2>2, <2>3 DEF NewsTrue
<1>15. TabTold'
  <2> SUFFICES ASSUME NEW u \in Tasks, chats[u].live, NEW r, r = chats[u].sid,
                      sess'[r].life = "over"
               PROVE  Coming(u, r)'
    BY <1>1 DEF TabTold
  <2>1. r \in Chats!Sids
    BY ChatFields DEF CInv, NewsTrue, Said, Chats!Tabs, Chats!NoTab
  <2>2. Shown(u, r)
    BY DEF Shown
  <2>3. CASE u = t
    BY <1>6, <1>11, <2>1, <2>2, <2>3
  <2>4. CASE u # t
    BY <1>4, <1>6, <1>11, <2>1, <2>2, <2>4 DEF CInv, TabTold
  <2> QED BY <2>3, <2>4
<1>16. Chats!NoneHidden'
  BY <1>1, <1>8 DEF CInv, Chats!NoneHidden
<1> QED BY <1>7, <1>9, <1>10, <1>13, <1>14, <1>15, <1>16 DEF CInv

-----------------------------------------------------------------------------
LEMMA ChatInit == Chats!Init => CInv
<1> SUFFICES ASSUME Chats!Init PROVE CInv
  OBVIOUS
<1> PICK t0 \in Tasks : t0 = CHOOSE t \in Tasks : TRUE
  BY Fits
<1>1. /\ page = 0 /\ chats = [t \in Tasks |-> Chats!NoTab] /\ opening = {}
      /\ latest = [t \in Tasks |-> Chats!NoTab] /\ calls = {} /\ disposes = {} /\ events = <<>>
      /\ slot = [t \in Tasks |-> Chats!NoSid]
      /\ sess = [s \in Chats!Sids |-> [life |-> "unborn", of |-> t0, page |-> 0]]
  BY DEF Chats!Init
<1>2. Chats!NoTab \in Chats!Tabs /\ Chats!NoTab.sid = Chats!NoSid /\ ~Chats!NoTab.live /\ MaxReloads \in Nat
      /\ [life |-> "unborn", of |-> t0, page |-> 0] \in ChatType
  BY Fits DEF Chats!NoTab, Chats!Tabs, Chats!ConstantsFit, ChatType
<1>3. \A s \in Chats!Sids : s # Chats!NoSid /\ sess[s].life = "unborn"
  BY <1>1 DEF Chats!Sids, Chats!NoSid
<1>4. ChatTypes
  <2>1. events \in Seq(NewsType) /\ page \in 0 .. MaxReloads
    BY <1>1, <1>2
  <2>2. chats \in [Tasks -> Chats!Tabs] /\ latest \in [Tasks -> Chats!Tabs]
    BY <1>1, <1>2
  <2>3. slot \in [Tasks -> Chats!Sids \cup {Chats!NoSid}] /\ sess \in [Chats!Sids -> ChatType]
    BY <1>1, <1>2
  <2> QED BY <1>1, <2>1, <2>2, <2>3 DEF ChatTypes
<1>5. CallsTrue /\ OneCall
  BY <1>1 DEF CallsTrue, OneCall
<1>6. InSlot /\ Pages /\ Chats!NoneHidden
  BY <1>3 DEF InSlot, Pages, Chats!NoneHidden, Runs
<1>7. ShownTrue /\ TabTold /\ NewsTrue
  <2>1. Len(events) = 0
    BY <1>1
  <2>2. \A t \in Tasks : chats[t] = Chats!NoTab /\ latest[t] = Chats!NoTab
    BY <1>1
  <2>3. ShownTrue
    BY <1>1, <1>2, <1>3, <2>2 DEF ShownTrue, Shown
  <2>4. TabTold /\ NewsTrue
    BY <1>2, <2>1, <2>2 DEF TabTold, NewsTrue, Said
  <2> QED BY <2>3, <2>4
<1> QED BY <1>4, <1>5, <1>6, <1>7 DEF CInv

LEMMA ChatNext == CInv /\ [Chats!Next]_talk => CInv'
<1> SUFFICES ASSUME CInv, [Chats!Next]_talk PROVE CInv'
  OBVIOUS
<1>1. CASE \E t \in Tasks : Chats!Open(t) \/ Chats!Close(t)
  BY <1>1, OpenKeeps, CloseKeeps
<1>2. CASE \E c \in calls : Chats!Goes(c)
  BY <1>2, AnswerKeeps, CallSteps, CreateKeeps DEF Chats!Goes
<1>3. CASE \E d \in disposes : Chats!Dispose(d)
  BY <1>3, Disposes
<1>4. CASE \E s \in Chats!Sids : Chats!Exit(s)
  BY <1>4, ExitKeeps
<1>5. CASE Chats!Event \/ Chats!Reload
  BY <1>5, EventKeeps, ReloadKeeps
<1>6. CASE UNCHANGED talk
  <2>1. UNCHANGED <<page, chats, opening, latest, calls, disposes, events, slot, sess>>
    BY <1>6 DEF talk
  <2>2. Tame
    BY <2>1 DEF Tame, CInv, ChatTypes
  <2>3. CallsTrue' /\ OneCall' /\ Chats!NoneHidden'
    BY <2>1 DEF CInv, CallsTrue, CallTrue, OneCall, Chats!NoneHidden, Here, Runs
  <2>4. /\ opening' \subseteq Tasks /\ calls' \subseteq CallType
    BY <2>1 DEF CInv, ChatTypes
  <2> QED BY <2>1, <2>2, <2>3, <2>4, Quiet DEF CInv
<1> QED BY <1>1, <1>2, <1>3, <1>4, <1>5, <1>6 DEF Chats!Next

LEMMA InSight == CInv => Chats!NoneHidden /\ Chats!TabsTrue
<1> SUFFICES ASSUME CInv PROVE Chats!TabsTrue
  BY DEF CInv
<1> SUFFICES ASSUME NEW t \in Tasks, chats[t] # Chats!NoTab,
                    \A i \in DOMAIN events : events[i].state.sid # chats[t].sid
             PROVE  chats[t].live = (sess[chats[t].sid].life \in {"live", "doomed"})
  BY DEF Chats!TabsTrue
<1>1. events \in Seq(NewsType) /\ DOMAIN events = 1 .. Len(events)
  BY DEF CInv, ChatTypes
<1>2. /\ chats[t].sid \in Chats!Sids /\ chats[t].live \in BOOLEAN
      /\ sess[chats[t].sid].life # "unborn"
      /\ ~chats[t].live => sess[chats[t].sid].life = "over"
      /\ sess[chats[t].sid].life \in {"unborn", "live", "doomed", "over"}
  <2>1. chats[t].sid \in Chats!Sids /\ chats[t].live \in BOOLEAN
    BY ChatFields DEF CInv, NewsTrue, Said, Chats!Tabs
  <2> QED BY <2>1, ChatFields DEF CInv, NewsTrue, Said
<1>3. ~Coming(t, chats[t].sid)
  BY <1>1 DEF Coming, Ended
<1>4. chats[t].live => sess[chats[t].sid].life # "over"
  BY <1>3 DEF CInv, TabTold
<1> QED BY <1>2, <1>4

-----------------------------------------------------------------------------
(* The daemons                                                              *)

ConnType == [d : Daemons \cup {NoDaemon}, open : BOOLEAN,
             at : {"none", "serving", "unlink", "exit", "done"}, agent : SUBSET Agents]
BootType == [at : {"start", "list", "adopt", "done"}, c : Nat, todo : SUBSET Agents]
QuitType == [at : {"idle", "connect", "hand", "done"}, c : Nat, todo : SUBSET Agents,
             spawned : BOOLEAN]

\* What the daemons keep, and the types of the calls.
DaemonTypes ==
    /\ path \in Daemons \cup {NoDaemon}
    /\ proc \in [Daemons -> {"none", "born", "up", "dead"}]
    /\ table \in [Daemons -> [Agents -> {"none", "live", "exited"}]]
    /\ ever \in [Daemons -> BOOLEAN]
    /\ timer \in [Daemons -> {"wait", "unlink", "exit", "done"}]
    /\ safe \in [Agents -> BOOLEAN]
ClientTypes ==
    /\ conns \in [Daemon!Conns -> ConnType] /\ used \in 0 .. MaxConns
    /\ boot \in BootType /\ quit \in QuitType
    /\ \A c \in Daemon!Conns : IF c <= used THEN conns[c].d \in Daemons ELSE conns[c] = Daemon!NoConn
    /\ quit.at = "hand" => quit.c \in 1 .. used
    /\ boot.at \in {"list", "adopt"} => boot.c \in 1 .. used

\* A request whose entry is in the table, and which has not been noted yet.
Pending(d) == \E c \in Daemon!Conns : conns[c].d = d /\ conns[c].agent # {}

\* A daemon that holds entries runs, and has noted so or is about to.
Held == \A d \in Daemons : ~Daemon!Empty(d) => proc[d] = "up" /\ (ever[d] \/ Pending(d))
\* A daemon that has decided to leave holds nothing.
LeaversEmpty == \A d \in Daemons : proc[d] = "up" /\ Daemon!Leaving(d) => Daemon!Empty(d)
\* A daemon that stays is the one the path names.
Named == \A d \in Daemons : proc[d] = "up" => Daemon!Leaving(d) \/ path = d
\* There is at most one.
Alone ==
    \A d, e \in Daemons : proc[d] \in {"born", "up"} /\ proc[e] \in {"born", "up"} => d = e
\* One that has yet to bind is what this quit has started, or the app is gone.
Asked == \A d \in Daemons : proc[d] = "born" => app = "down" \/ quit.spawned
Gone  == app = "down" => quit.at = "idle"
\* What was handed over is where the path leads.
FoundAlways == \A a \in Agents : safe[a] => Daemon!Answers /\ table[path][a] = "live"

DInv ==
    /\ DaemonTypes /\ ClientTypes
    /\ Held /\ LeaversEmpty /\ Named /\ Alone /\ Asked /\ Gone /\ FoundAlways

\* The assumptions about them.
Within == Daemon!ConstantsFit /\ ~Overlap

-----------------------------------------------------------------------------
(* The app's side: it neither holds nor loses anything of a daemon's.       *)

\* The daemon's thread of a connection, and the request it has read.
Thread(cn) == <<cn.d, cn.at, cn.agent>>

\* A call that changes nothing of the daemons, but that a connection is made.
LEMMA AppSide ==
    ASSUME DInv, UNCHANGED <<path, proc, table, ever, timer, safe>>, ClientTypes',
           \A c \in Daemon!Conns : \/ Thread(conns[c])' = Thread(conns[c])
                                   \/ conns[c] = Daemon!NoConn /\ conns'[c].at = "serving"
                                      /\ conns'[c].agent = {},
           Asked', Gone'
    PROVE  DInv'
<1>1. DaemonTypes'
  BY DEF DInv, DaemonTypes
<1>2. \A d \in Daemons : Daemon!Empty(d)' = Daemon!Empty(d)
  BY DEF Daemon!Empty
<1>3. \A d \in Daemons : Pending(d) => Pending(d)'
  BY DEF Pending, Thread, Daemon!NoConn
<1>4. \A d \in Daemons : Daemon!Leaving(d)' = Daemon!Leaving(d)
  <2>1. \A c \in Daemon!Conns, d \in Daemons :
           (conns'[c].d = d /\ conns'[c].at \in {"unlink", "exit"})
             = (conns[c].d = d /\ conns[c].at \in {"unlink", "exit"})
    BY DEF Thread, Daemon!NoConn
  <2> QED BY <2>1 DEF Daemon!Leaving
<1>5. Held'
  BY <1>2, <1>3 DEF DInv, Held
<1>6. LeaversEmpty' /\ Named'
  BY <1>2, <1>4 DEF DInv, LeaversEmpty, Named
<1>7. Alone' /\ FoundAlways'
  BY DEF DInv, Alone, FoundAlways, Daemon!Answers
<1> QED BY <1>1, <1>5, <1>6, <1>7 DEF DInv

\* connect: the next connection, to the daemon d.
LEMMA Connects ==
    ASSUME ClientTypes, NEW d \in Daemons, Daemon!Connect(d), Within
    PROVE  /\ conns' \in [Daemon!Conns -> ConnType] /\ used' \in 0 .. MaxConns /\ used' = used + 1
           /\ \A c \in Daemon!Conns : IF c <= used' THEN conns'[c].d \in Daemons ELSE conns'[c] = Daemon!NoConn
           /\ \A c \in Daemon!Conns : \/ conns'[c] = conns[c]
                                      \/ conns[c] = Daemon!NoConn /\ conns'[c].at = "serving"
                                         /\ conns'[c].agent = {}
<1> DEFINE n == [d |-> d, open |-> TRUE, at |-> "serving", agent |-> {}]
<1>1. /\ used \in Nat /\ MaxConns \in Nat /\ used < MaxConns /\ used' = used + 1
      /\ conns' = [conns EXCEPT ![used + 1] = n] /\ conns \in [Daemon!Conns -> ConnType]
  BY DEF Daemon!Connect, ClientTypes, Within, Daemon!ConstantsFit
<1>2. n \in ConnType /\ n.at = "serving" /\ n.agent = {} /\ n.d = d
  BY DEF ConnType
<1> HIDE DEF n
<1>3. used + 1 \in Daemon!Conns
  BY <1>1 DEF Daemon!Conns
<1>4. conns'[used + 1] = n /\ \A c \in Daemon!Conns : c # used + 1 => conns'[c] = conns[c]
  BY <1>1, <1>3
<1>5. conns[used + 1] = Daemon!NoConn
  BY <1>1, <1>3 DEF ClientTypes
<1>6. conns' \in [Daemon!Conns -> ConnType] /\ used' \in 0 .. MaxConns
  <2>1. conns' \in [Daemon!Conns -> ConnType]
    BY <1>1, <1>2, <1>3
  <2> QED BY <1>1, <2>1
<1>7. ASSUME NEW c \in Daemon!Conns
      PROVE  IF c <= used' THEN conns'[c].d \in Daemons ELSE conns'[c] = Daemon!NoConn
  <2>1. CASE c = used + 1
    BY <1>1, <1>2, <1>4, <2>1
  <2>2. CASE c # used + 1
    <3>1. c \in Nat /\ conns'[c] = conns[c]
      BY <1>4, <2>2 DEF Daemon!Conns
    <3>2. c <= used' <=> c <= used
      BY <1>1, <2>2, <3>1
    <3> QED BY <3>1, <3>2 DEF ClientTypes
  <2> QED BY <2>1, <2>2
<1> QED BY <1>1, <1>2, <1>4, <1>5, <1>6, <1>7

\* Closing a connection is the client's; the daemon's thread goes on.
LEMMA Closes ==
    ASSUME ClientTypes, NEW c0 \in Daemon!Conns, Daemon!Close(c0)
    PROVE  /\ conns' \in [Daemon!Conns -> ConnType]
           /\ \A c \in Daemon!Conns : Thread(conns'[c]) = Thread(conns[c])
           /\ \A c \in Daemon!Conns : c > used => conns'[c] = conns[c] \/ c = c0
<1>1. conns \in [Daemon!Conns -> ConnType] /\ conns' = [conns EXCEPT ![c0].open = FALSE]
  BY DEF ClientTypes, Daemon!Close
<1>2. [conns[c0] EXCEPT !.open = FALSE] \in ConnType
      /\ Thread([conns[c0] EXCEPT !.open = FALSE]) = Thread(conns[c0])
  BY <1>1 DEF ConnType, Thread
<1>3. conns'[c0] = [conns[c0] EXCEPT !.open = FALSE]
      /\ \A c \in Daemon!Conns : c # c0 => conns'[c] = conns[c]
  BY <1>1
<1>4. conns' \in [Daemon!Conns -> ConnType]
  BY <1>1, <1>2
<1> QED BY <1>2, <1>3, <1>4

LEMMA BootSide ==
    ASSUME DInv, Within, Daemon!BootConnect \/ Daemon!BootList \/ Daemon!BootDone
    PROVE  DInv'
<1>1. /\ conns \in [Daemon!Conns -> ConnType] /\ used \in 0 .. MaxConns /\ MaxConns \in Nat
      /\ boot \in BootType /\ quit \in QuitType
      /\ \A c \in Daemon!Conns : IF c <= used THEN conns[c].d \in Daemons ELSE conns[c] = Daemon!NoConn
      /\ quit.at = "hand" => quit.c \in 1 .. used
      /\ boot.at \in {"list", "adopt"} => boot.c \in 1 .. used
  BY DEF DInv, ClientTypes, Within, Daemon!ConstantsFit
<1>2. UNCHANGED <<path, proc, table, ever, timer, safe, quit, app>>
  BY DEF Daemon!BootConnect, Daemon!BootList, Daemon!BootDone, Daemon!daemonside
<1>3. Asked' /\ Gone'
  BY <1>2 DEF DInv, Asked, Gone
<1>4. CASE Daemon!BootConnect
  <2>1. CASE Daemon!Answers
    <3>1. Daemon!Connect(path) /\ boot' = [boot EXCEPT !.at = "list", !.c = used + 1]
      BY <1>4, <2>1 DEF Daemon!BootConnect
    <3>2. path \in Daemons
      BY <2>1 DEF DInv, DaemonTypes, Daemon!Answers
    <3>3. /\ conns' \in [Daemon!Conns -> ConnType] /\ used' \in 0 .. MaxConns /\ used' = used + 1
          /\ \A c \in Daemon!Conns : IF c <= used' THEN conns'[c].d \in Daemons
                                     ELSE conns'[c] = Daemon!NoConn
          /\ \A c \in Daemon!Conns : \/ conns'[c] = conns[c]
                                     \/ conns[c] = Daemon!NoConn /\ conns'[c].at = "serving"
                                        /\ conns'[c].agent = {}
      BY <3>1, <3>2, Connects DEF DInv
    <3>4. boot' \in BootType /\ boot'.c = used + 1
      <4>1. used + 1 \in Nat
        BY <1>1
      <4> QED BY <1>1, <3>1, <4>1 DEF BootType
    <3>5. quit'.at = "hand" => quit'.c \in 1 .. used'
      BY <1>1, <1>2, <3>3
    <3>6. ClientTypes'
      BY <1>1, <1>2, <3>3, <3>4, <3>5 DEF ClientTypes
    <3> QED BY <1>2, <1>3, <3>3, <3>6, AppSide DEF Thread
  <2>2. CASE ~Daemon!Answers
    <3>1. boot' = [boot EXCEPT !.at = "done"] /\ conns' = conns /\ used' = used
      BY <1>4, <2>2 DEF Daemon!BootConnect
    <3>2. boot' \in BootType /\ boot'.at = "done"
      BY <1>1, <3>1 DEF BootType
    <3>3. ClientTypes'
      BY <1>1, <1>2, <3>1, <3>2 DEF ClientTypes
    <3> QED BY <1>2, <1>3, <3>1, <3>3, AppSide DEF Thread
  <2> QED BY <2>1, <2>2
<1>5. CASE Daemon!BootList
  <2> DEFINE live == {a \in Agents : table[conns[boot.c].d][a] = "live"}
  <2>1. /\ boot' = [boot EXCEPT !.at = "adopt", !.todo = live] /\ conns' = conns /\ used' = used
        /\ boot.at = "list"
    BY <1>5 DEF Daemon!BootList
  <2>2. live \in SUBSET Agents
    OBVIOUS
  <2> HIDE DEF live
  <2>3. boot' \in BootType /\ boot'.c = boot.c
    BY <1>1, <2>1, <2>2 DEF BootType
  <2>4. ClientTypes'
    BY <1>1, <1>2, <2>1, <2>3 DEF ClientTypes
  <2> QED BY <1>2, <1>3, <2>1, <2>4, AppSide DEF Thread
<1>6. CASE Daemon!BootDone
  <2>1. /\ Daemon!Close(boot.c) /\ boot' = [boot EXCEPT !.at = "done"] /\ used' = used
        /\ boot.at \in {"list", "adopt"}
    BY <1>6 DEF Daemon!BootDone
  <2>2. boot.c \in 1 .. used /\ boot.c \in Daemon!Conns
    BY <1>1, <2>1 DEF Daemon!Conns
  <2>3. /\ conns' \in [Daemon!Conns -> ConnType]
        /\ \A c \in Daemon!Conns : Thread(conns'[c]) = Thread(conns[c])
        /\ \A c \in Daemon!Conns : c > used => conns'[c] = conns[c] \/ c = boot.c
    BY <2>1, <2>2, Closes DEF DInv
  <2>4. boot' \in BootType /\ boot'.at = "done"
    BY <1>1, <2>1 DEF BootType
  <2>5. ASSUME NEW c \in Daemon!Conns
        PROVE  IF c <= used' THEN conns'[c].d \in Daemons ELSE conns'[c] = Daemon!NoConn
    <3>1. CASE c <= used
      BY <1>1, <2>1, <2>3, <3>1 DEF Thread
    <3>2. CASE ~(c <= used)
      <4>1. c > used /\ c # boot.c
        BY <1>1, <2>2, <3>2 DEF Daemon!Conns
      <4> QED BY <1>1, <2>1, <2>3, <3>2, <4>1
    <3> QED BY <3>1, <3>2
  <2>6. ClientTypes'
    BY <1>1, <1>2, <2>1, <2>3, <2>4, <2>5 DEF ClientTypes
  <2> QED BY <1>2, <1>3, <2>3, <2>6, AppSide DEF Thread
<1> QED BY <1>4, <1>5, <1>6

LEMMA QuitSide ==
    ASSUME DInv, Within, Daemon!QuitBegin \/ Daemon!QuitConnect \/ Daemon!QuitTimeout \/ Daemon!QuitDone
    PROVE  DInv'
<1>1. /\ conns \in [Daemon!Conns -> ConnType] /\ used \in 0 .. MaxConns /\ MaxConns \in Nat
      /\ boot \in BootType /\ quit \in QuitType
      /\ \A c \in Daemon!Conns : IF c <= used THEN conns[c].d \in Daemons ELSE conns[c] = Daemon!NoConn
      /\ quit.at = "hand" => quit.c \in 1 .. used
      /\ boot.at \in {"list", "adopt"} => boot.c \in 1 .. used
  BY DEF DInv, ClientTypes, Within, Daemon!ConstantsFit
<1>2. UNCHANGED <<path, proc, table, ever, timer, safe, boot, app>>
  BY DEF Daemon!QuitBegin, Daemon!QuitConnect, Daemon!QuitTimeout, Daemon!QuitDone, Daemon!daemonside
<1>3. app # "down"
  BY DEF DInv, Gone, Daemon!QuitBegin, Daemon!QuitConnect, Daemon!QuitTimeout, Daemon!QuitDone
<1>4. ASSUME quit'.spawned = quit.spawned PROVE Asked' /\ Gone'
  BY <1>2, <1>3, <1>4 DEF DInv, Asked, Gone
<1>5. CASE Daemon!QuitBegin
  <2> DEFINE all == {a \in Agents : mine[a]}
  <2>1. quit' = [quit EXCEPT !.at = "connect", !.todo = all] /\ conns' = conns /\ used' = used
    BY <1>5 DEF Daemon!QuitBegin
  <2>2. all \in SUBSET Agents
    OBVIOUS
  <2> HIDE DEF all
  <2>3. quit' \in QuitType /\ quit'.at = "connect" /\ quit'.spawned = quit.spawned
    BY <1>1, <2>1, <2>2 DEF QuitType
  <2>4. ClientTypes'
    BY <1>1, <1>2, <2>1, <2>3 DEF ClientTypes
  <2> QED BY <1>2, <1>4, <2>1, <2>3, <2>4, AppSide DEF Thread
<1>6. CASE Daemon!QuitConnect
  <2>1. Daemon!Connect(path) /\ quit' = [quit EXCEPT !.at = "hand", !.c = used + 1] /\ Daemon!Answers
    BY <1>6 DEF Daemon!QuitConnect
  <2>2. path \in Daemons
    BY <2>1 DEF DInv, DaemonTypes, Daemon!Answers
  <2>3. /\ conns' \in [Daemon!Conns -> ConnType] /\ used' \in 0 .. MaxConns /\ used' = used + 1
        /\ \A c \in Daemon!Conns : IF c <= used' THEN conns'[c].d \in Daemons
                                   ELSE conns'[c] = Daemon!NoConn
        /\ \A c \in Daemon!Conns : \/ conns'[c] = conns[c]
                                   \/ conns[c] = Daemon!NoConn /\ conns'[c].at = "serving"
                                      /\ conns'[c].agent = {}
    BY <2>1, <2>2, Connects DEF DInv
  <2>4. quit' \in QuitType /\ quit'.c = used + 1 /\ quit'.spawned = quit.spawned
    <3>1. used + 1 \in Nat
      BY <1>1
    <3> QED BY <1>1, <2>1, <3>1 DEF QuitType
  <2>5. boot'.at \in {"list", "adopt"} => boot'.c \in 1 .. used'
    BY <1>1, <1>2, <2>3
  <2>6. ClientTypes'
    BY <1>1, <1>2, <2>3, <2>4, <2>5 DEF ClientTypes
  <2> QED BY <1>2, <1>4, <2>3, <2>4, <2>6, AppSide DEF Thread
<1>7. CASE Daemon!QuitTimeout
  <2>1. quit' = [quit EXCEPT !.at = "done"] /\ conns' = conns /\ used' = used
    BY <1>7 DEF Daemon!QuitTimeout
  <2>2. quit' \in QuitType /\ quit'.at = "done" /\ quit'.spawned = quit.spawned
    BY <1>1, <2>1 DEF QuitType
  <2>3. ClientTypes'
    BY <1>1, <1>2, <2>1, <2>2 DEF ClientTypes
  <2> QED BY <1>2, <1>4, <2>1, <2>2, <2>3, AppSide DEF Thread
<1>8. CASE Daemon!QuitDone
  <2>1. Daemon!Close(quit.c) /\ quit' = [quit EXCEPT !.at = "done"] /\ used' = used /\ quit.at = "hand"
    BY <1>8 DEF Daemon!QuitDone
  <2>2. quit.c \in 1 .. used /\ quit.c \in Daemon!Conns
    BY <1>1, <2>1 DEF Daemon!Conns
  <2>3. /\ conns' \in [Daemon!Conns -> ConnType]
        /\ \A c \in Daemon!Conns : Thread(conns'[c]) = Thread(conns[c])
        /\ \A c \in Daemon!Conns : c > used => conns'[c] = conns[c] \/ c = quit.c
    BY <2>1, <2>2, Closes DEF DInv
  <2>4. quit' \in QuitType /\ quit'.at = "done" /\ quit'.spawned = quit.spawned
    BY <1>1, <2>1 DEF QuitType
  <2>5. ASSUME NEW c \in Daemon!Conns
        PROVE  IF c <= used' THEN conns'[c].d \in Daemons ELSE conns'[c] = Daemon!NoConn
    <3>1. CASE c <= used
      BY <1>1, <2>1, <2>3, <3>1 DEF Thread
    <3>2. CASE ~(c <= used)
      <4>1. c > used /\ c # quit.c
        BY <1>1, <2>2, <3>2 DEF Daemon!Conns
      <4> QED BY <1>1, <2>1, <2>3, <3>2, <4>1
    <3> QED BY <3>1, <3>2
  <2>6. ClientTypes'
    BY <1>1, <1>2, <2>1, <2>3, <2>4, <2>5 DEF ClientTypes
  <2> QED BY <1>2, <1>4, <2>3, <2>4, <2>6, AppSide DEF Thread
<1> QED BY <1>5, <1>6, <1>7, <1>8

\* The app opens sessions, ends and starts again.
LEMMA AppItself ==
    ASSUME DInv, Within, (\E a \in Agents : Daemon!Create(a)) \/ Daemon!AppEnd \/ Daemon!AppStart
    PROVE  DInv'
<1>1. /\ conns \in [Daemon!Conns -> ConnType] /\ used \in 0 .. MaxConns
      /\ boot \in BootType /\ quit \in QuitType
      /\ \A c \in Daemon!Conns : IF c <= used THEN conns[c].d \in Daemons ELSE conns[c] = Daemon!NoConn
      /\ quit.at = "hand" => quit.c \in 1 .. used
      /\ boot.at \in {"list", "adopt"} => boot.c \in 1 .. used
  BY DEF DInv, ClientTypes
<1>2. UNCHANGED <<path, proc, table, ever, timer, safe, used>>
  BY DEF Daemon!Create, Daemon!AppEnd, Daemon!AppStart, Daemon!daemonside
<1>3. CASE \E a \in Agents : Daemon!Create(a)
  <2>1. UNCHANGED <<conns, app, boot, quit>>
    BY <1>3 DEF Daemon!Create
  <2>2. ClientTypes' /\ Asked' /\ Gone'
    BY <1>2, <2>1 DEF DInv, ClientTypes, Asked, Gone
  <2> QED BY <1>2, <2>1, <2>2, AppSide DEF Thread
<1>4. CASE Daemon!AppEnd
  <2>1. /\ conns' = [c \in Daemon!Conns |-> [conns[c] EXCEPT !.open = FALSE]]
        /\ boot' = Daemon!BootIdle /\ quit' = Daemon!QuitIdle /\ app' = "down"
    BY <1>4 DEF Daemon!AppEnd
  <2>2. \A cn \in ConnType : /\ [cn EXCEPT !.open = FALSE] \in ConnType
                             /\ Thread([cn EXCEPT !.open = FALSE]) = Thread(cn)
                             /\ [cn EXCEPT !.open = FALSE].d = cn.d
    BY DEF ConnType, Thread
  <2>3. [Daemon!NoConn EXCEPT !.open = FALSE] = Daemon!NoConn
    <3>1. \A cn \in ConnType : cn.open = FALSE => [cn EXCEPT !.open = FALSE] = cn
      BY DEF ConnType
    <3>2. Daemon!NoConn \in ConnType /\ Daemon!NoConn.open = FALSE
      BY DEF Daemon!NoConn, ConnType
    <3> QED BY <3>1, <3>2
  <2>4. conns' \in [Daemon!Conns -> ConnType] /\ \A c \in Daemon!Conns : Thread(conns'[c]) = Thread(conns[c])
    BY <1>1, <2>1, <2>2
  <2>5. \A c \in Daemon!Conns : IF c <= used THEN conns'[c].d \in Daemons ELSE conns'[c] = Daemon!NoConn
    BY <1>1, <2>1, <2>2, <2>3
  <2>6. /\ boot' \in BootType /\ boot'.at = "start"
        /\ quit' \in QuitType /\ quit'.at = "idle"
    BY <2>1 DEF Daemon!BootIdle, Daemon!QuitIdle, BootType, QuitType
  <2>7. ClientTypes'
    BY <1>1, <1>2, <2>4, <2>5, <2>6 DEF ClientTypes
  <2>8. Asked' /\ Gone'
    BY <2>1, <2>6 DEF Asked, Gone
  <2> QED BY <1>2, <2>4, <2>7, <2>8, AppSide DEF Thread
<1>5. CASE Daemon!AppStart
  <2>1. UNCHANGED <<conns, boot, quit>> /\ app' = "up" /\ \A d \in Daemons : proc[d] # "born"
    BY <1>5 DEF Daemon!AppStart, Within
  <2>2. ClientTypes' /\ Asked' /\ Gone'
    BY <1>2, <2>1 DEF DInv, ClientTypes, Asked, Gone
  <2> QED BY <1>2, <2>1, <2>2, AppSide DEF Thread
<1> QED BY <1>3, <1>4, <1>5

-----------------------------------------------------------------------------
(* The daemon's table                                                       *)

\* A request or a thread of one connection goes on.
LEMMA Serving ==
    ASSUME ClientTypes, Within, NEW c \in 1 .. used, NEW cn \in ConnType, cn.d = conns[c].d,
           conns' = [conns EXCEPT ![c] = cn], used' = used, boot' = boot,
           quit' \in QuitType, quit'.at = quit.at, quit'.c = quit.c
    PROVE  /\ ClientTypes' /\ conns'[c] = cn /\ c \in Daemon!Conns
           /\ \A b \in Daemon!Conns : b # c => conns'[b] = conns[b]
<1>1. c \in Daemon!Conns
  BY DEF ClientTypes, Daemon!Conns, Within, Daemon!ConstantsFit
<1>2. /\ conns' \in [Daemon!Conns -> ConnType] /\ conns'[c] = cn
      /\ \A b \in Daemon!Conns : b # c => conns'[b] = conns[b]
  BY <1>1 DEF ClientTypes
<1>3. conns[c].d \in Daemons
  BY <1>1 DEF ClientTypes
<1>4. \A b \in Daemon!Conns : IF b <= used' THEN conns'[b].d \in Daemons ELSE conns'[b] = Daemon!NoConn
  BY <1>2, <1>3 DEF ClientTypes
<1>5. ClientTypes'
  BY <1>2, <1>4 DEF ClientTypes
<1> QED BY <1>1, <1>2, <1>5

\* An entry leaves the table, or its session ends.
LEMMA Drops ==
    ASSUME DInv, NEW d \in Daemons, NEW a \in Agents, NEW v \in {"none", "exited"},
           v = "exited" => table[d][a] = "live",
           table' = [table EXCEPT ![d][a] = v], safe' = [safe EXCEPT ![a] = FALSE],
           UNCHANGED <<path, proc, ever, timer, conns, used, quit, app>>,
           boot' \in BootType, boot'.at = boot.at, boot'.c = boot.c
    PROVE  DInv'
<1>1. /\ table \in [Daemons -> [Agents -> {"none", "live", "exited"}]]
      /\ safe \in [Agents -> BOOLEAN]
  BY DEF DInv, DaemonTypes
<1>2. /\ table'[d][a] = v
      /\ \A e \in Daemons, b \in Agents : e # d \/ b # a => table'[e][b] = table[e][b]
      /\ table' \in [Daemons -> [Agents -> {"none", "live", "exited"}]]
  BY <1>1
<1>3. /\ safe' \in [Agents -> BOOLEAN] /\ safe'[a] = FALSE
      /\ \A b \in Agents : b # a => safe'[b] = safe[b]
  BY <1>1
<1>4. DaemonTypes'
  BY <1>2, <1>3 DEF DInv, DaemonTypes
<1>5. ClientTypes'
  BY DEF DInv, ClientTypes
<1>6. \A e \in Daemons : Daemon!Empty(e) => Daemon!Empty(e)'
  BY <1>2 DEF Daemon!Empty
<1>7. \A e \in Daemons : Pending(e)' = Pending(e) /\ Daemon!Leaving(e)' = Daemon!Leaving(e)
  BY DEF Pending, Daemon!Leaving
<1>8. Held' /\ LeaversEmpty'
  BY <1>6, <1>7 DEF DInv, Held, LeaversEmpty
<1>9. Named' /\ Alone' /\ Asked' /\ Gone'
  BY <1>7 DEF DInv, Named, Alone, Asked, Gone
<1>10. FoundAlways'
  <2> SUFFICES ASSUME NEW b \in Agents, safe'[b] PROVE Daemon!Answers' /\ table'[path'][b] = "live"
    BY DEF FoundAlways
  <2>1. b # a /\ safe[b]
    BY <1>3
  <2>2. Daemon!Answers /\ table[path][b] = "live" /\ path \in Daemons
    BY <2>1 DEF DInv, FoundAlways, DaemonTypes, Daemon!Answers
  <2> QED BY <1>2, <2>1, <2>2 DEF Daemon!Answers
<1> QED BY <1>4, <1>5, <1>8, <1>9, <1>10 DEF DInv

LEMMA TakenBack ==
    ASSUME DInv, Within,
           (\E a \in Agents : Daemon!BootAdopt(a) \/ Daemon!BootKill(a))
             \/ (\E d \in Daemons, a \in Agents : Daemon!SessionEnds(d, a))
    PROVE  DInv'
<1>1. CASE \E a \in Agents : Daemon!BootAdopt(a) \/ Daemon!BootKill(a)
  <2>1. PICK a \in Agents : Daemon!BootAdopt(a) \/ Daemon!BootKill(a)
    BY <1>1
  <2> DEFINE d == conns[boot.c].d
  <2>2. /\ boot.at = "adopt" /\ table' = [table EXCEPT ![d][a] = "none"]
        /\ safe' = [safe EXCEPT ![a] = FALSE] /\ boot' = [boot EXCEPT !.todo = @ \ {a}]
        /\ UNCHANGED <<path, proc, ever, timer, conns, used, quit, app>>
    BY <2>1 DEF Daemon!BootAdopt, Daemon!BootKill
  <2>3. d \in Daemons
    BY <2>2 DEF DInv, ClientTypes, Daemon!Conns, Within, Daemon!ConstantsFit
  <2>4. boot' \in BootType /\ boot'.at = boot.at /\ boot'.c = boot.c
    BY <2>2 DEF DInv, ClientTypes, BootType
  <2> HIDE DEF d
  <2> QED BY <2>2, <2>3, <2>4, Drops
<1>2. CASE \E d \in Daemons, a \in Agents : Daemon!SessionEnds(d, a)
  <2>1. PICK d \in Daemons, a \in Agents : Daemon!SessionEnds(d, a)
    BY <1>2
  <2>2. /\ table[d][a] = "live" /\ table' = [table EXCEPT ![d][a] = "exited"]
        /\ safe' = [safe EXCEPT ![a] = FALSE] /\ boot' = boot
        /\ UNCHANGED <<path, proc, ever, timer, conns, used, quit, app>>
    BY <2>1 DEF Daemon!SessionEnds
  <2>3. boot' \in BootType /\ boot'.at = boot.at /\ boot'.c = boot.c
    BY <2>2 DEF DInv, ClientTypes
  <2> QED BY <2>2, <2>3, Drops
<1> QED BY <1>1, <1>2

LEMMA Handing ==
    ASSUME DInv, Within, (\E a \in Agents : Daemon!HandoffInsert(a)) \/ Daemon!HandoffEver \/ Daemon!HandoffOk
    PROVE  DInv'
<1>0. quit.at = "hand" /\ proc[conns[quit.c].d] = "up"
  BY DEF Daemon!HandoffInsert, Daemon!HandoffEver, Daemon!HandoffOk, Daemon!Serves
<1>a. /\ quit.c \in 1 .. used /\ quit.c \in Daemon!Conns /\ conns[quit.c].d \in Daemons
      /\ quit \in QuitType /\ conns[quit.c] \in ConnType
  BY <1>0 DEF DInv, ClientTypes, Daemon!Conns, Within, Daemon!ConstantsFit
<1> PICK d \in Daemons : d = conns[quit.c].d
  BY <1>a
<1>1. /\ quit.c \in 1 .. used /\ quit.c \in Daemon!Conns /\ conns[quit.c].d = d /\ quit.at = "hand"
      /\ quit \in QuitType /\ proc[d] = "up" /\ conns[quit.c] \in ConnType
  BY <1>0, <1>a
<1>2. /\ table \in [Daemons -> [Agents -> {"none", "live", "exited"}]]
      /\ safe \in [Agents -> BOOLEAN] /\ ever \in [Daemons -> BOOLEAN]
      /\ conns \in [Daemon!Conns -> ConnType]
  BY DEF DInv, DaemonTypes, ClientTypes
<1>3. CASE \E a \in Agents : Daemon!HandoffInsert(a)
  <2>1. PICK a \in Agents : Daemon!HandoffInsert(a)
    BY <1>3
  <2> DEFINE cn == [conns[quit.c] EXCEPT !.agent = {a}]
  <2>2. /\ table' = [table EXCEPT ![d][a] = "live"] /\ conns' = [conns EXCEPT ![quit.c] = cn]
        /\ Daemon!Settled /\ UNCHANGED <<path, proc, ever, timer, used, app, boot, quit, safe>>
    BY <1>1, <2>1 DEF Daemon!HandoffInsert
  <2>3. ~Daemon!Leaving(d)
    BY <1>1, <2>2 DEF Daemon!Settled, Within
  <2>4. cn \in ConnType /\ cn.d = d /\ cn.at = conns[quit.c].at /\ cn.agent = {a}
    BY <1>1 DEF ConnType
  <2> HIDE DEF cn
  <2>5. /\ ClientTypes' /\ conns'[quit.c] = cn
        /\ \A b \in Daemon!Conns : b # quit.c => conns'[b] = conns[b]
    BY <1>1, <2>2, <2>4, Serving DEF DInv
  <2>6. /\ table'[d][a] = "live"
        /\ \A e \in Daemons, b \in Agents : e # d \/ b # a => table'[e][b] = table[e][b]
        /\ table' \in [Daemons -> [Agents -> {"none", "live", "exited"}]]
    BY <1>1, <1>2, <2>2
  <2>7. DaemonTypes'
    BY <2>2, <2>6 DEF DInv, DaemonTypes
  <2>8. Pending(d)' /\ \A e \in Daemons : Pending(e) => Pending(e)'
    BY <1>1, <2>4, <2>5 DEF Pending
  <2>9. \A e \in Daemons : Daemon!Leaving(e)' = Daemon!Leaving(e)
    <3>1. \A b \in Daemon!Conns, e \in Daemons :
             (conns'[b].d = e /\ conns'[b].at \in {"unlink", "exit"})
               = (conns[b].d = e /\ conns[b].at \in {"unlink", "exit"})
      BY <1>1, <2>4, <2>5
    <3> QED BY <2>2, <3>1 DEF Daemon!Leaving
  <2>10. \A e \in Daemons : e # d => Daemon!Empty(e)' = Daemon!Empty(e)
    BY <2>6 DEF Daemon!Empty
  <2>11. Held'
    BY <1>1, <2>2, <2>8, <2>10 DEF DInv, Held
  <2>12. LeaversEmpty'
    BY <2>2, <2>3, <2>9, <2>10 DEF DInv, LeaversEmpty
  <2>13. Named' /\ Alone' /\ Asked' /\ Gone'
    BY <2>2, <2>9 DEF DInv, Named, Alone, Asked, Gone
  <2>14. FoundAlways'
    <3> SUFFICES ASSUME NEW b \in Agents, safe'[b] PROVE Daemon!Answers' /\ table'[path'][b] = "live"
      BY DEF FoundAlways
    <3>1. Daemon!Answers /\ table[path][b] = "live" /\ path \in Daemons
      BY <2>2 DEF DInv, FoundAlways, DaemonTypes, Daemon!Answers
    <3> QED BY <2>2, <2>6, <3>1 DEF Daemon!Answers
  <2> QED BY <2>5, <2>7, <2>11, <2>12, <2>13, <2>14 DEF DInv
<1>4. CASE Daemon!HandoffEver
  <2>1. /\ ever' = [ever EXCEPT ![d] = TRUE]
        /\ UNCHANGED <<path, proc, table, timer, conns, used, app, boot, quit, safe>>
    BY <1>1, <1>4 DEF Daemon!HandoffEver
  <2>2. ever' \in [Daemons -> BOOLEAN] /\ \A e \in Daemons : ever[e] => ever'[e]
    BY <1>1, <1>2, <2>1
  <2>3. DaemonTypes' /\ ClientTypes'
    BY <2>1, <2>2 DEF DInv, DaemonTypes, ClientTypes
  <2>4. \A e \in Daemons : /\ Pending(e)' = Pending(e) /\ Daemon!Leaving(e)' = Daemon!Leaving(e)
                           /\ Daemon!Empty(e)' = Daemon!Empty(e)
    BY <2>1 DEF Pending, Daemon!Leaving, Daemon!Empty
  <2>5. Held' /\ LeaversEmpty' /\ Named'
    BY <2>1, <2>2, <2>4 DEF DInv, Held, LeaversEmpty, Named
  <2>6. Alone' /\ Asked' /\ Gone' /\ FoundAlways'
    BY <2>1 DEF DInv, Alone, Asked, Gone, FoundAlways, Daemon!Answers
  <2> QED BY <2>3, <2>5, <2>6 DEF DInv
<1>5. CASE Daemon!HandoffOk
  <2> DEFINE a  == CHOOSE x \in conns[quit.c].agent : TRUE
             cn == [conns[quit.c] EXCEPT !.agent = {}]
  <2>1. /\ conns[quit.c].agent # {} /\ ever[d]
        /\ conns' = [conns EXCEPT ![quit.c] = cn] /\ quit' = [quit EXCEPT !.todo = @ \ {a}]
        /\ safe' = [safe EXCEPT ![a] = table[d][a] = "live"]
        /\ UNCHANGED <<path, proc, table, ever, timer, used, app, boot>>
    BY <1>1, <1>5 DEF Daemon!HandoffOk, Daemon!daemonside
  <2>2. a \in Agents
    <3>1. a \in conns[quit.c].agent
      BY <2>1
    <3> QED BY <1>1, <3>1 DEF ConnType
  <2> HIDE DEF a
  <2>3. quit' \in QuitType /\ quit'.at = quit.at /\ quit'.c = quit.c /\ quit'.spawned = quit.spawned
    BY <1>1, <2>1 DEF QuitType
  <2>4. cn \in ConnType /\ cn.d = d /\ cn.at = conns[quit.c].at
    BY <1>1 DEF ConnType
  <2> HIDE DEF cn
  <2>5. /\ ClientTypes' /\ conns'[quit.c] = cn
        /\ \A b \in Daemon!Conns : b # quit.c => conns'[b] = conns[b]
    BY <1>1, <2>1, <2>3, <2>4, Serving DEF DInv
  <2>6. /\ safe' \in [Agents -> BOOLEAN] /\ (safe'[a] <=> table[d][a] = "live")
        /\ \A b \in Agents : b # a => safe'[b] = safe[b]
    BY <1>2, <2>1, <2>2
  <2>7. DaemonTypes'
    BY <2>1, <2>6 DEF DInv, DaemonTypes
  <2>8. \A e \in Daemons : e # d /\ Pending(e) => Pending(e)'
    BY <1>1, <2>4, <2>5 DEF Pending
  <2>9. \A e \in Daemons : Daemon!Leaving(e)' = Daemon!Leaving(e) /\ Daemon!Empty(e)' = Daemon!Empty(e)
    <3>1. \A b \in Daemon!Conns, e \in Daemons :
             (conns'[b].d = e /\ conns'[b].at \in {"unlink", "exit"})
               = (conns[b].d = e /\ conns[b].at \in {"unlink", "exit"})
      BY <1>1, <2>4, <2>5
    <3> QED BY <2>1, <3>1 DEF Daemon!Leaving, Daemon!Empty
  <2>10. Held'
    BY <1>1, <2>1, <2>8, <2>9 DEF DInv, Held
  <2>11. LeaversEmpty' /\ Named'
    BY <2>1, <2>9 DEF DInv, LeaversEmpty, Named
  <2>12. Alone' /\ Asked' /\ Gone'
    BY <2>1, <2>3 DEF DInv, Alone, Asked, Gone
  <2>13. FoundAlways'
    <3> SUFFICES ASSUME NEW b \in Agents, safe'[b] PROVE Daemon!Answers' /\ table'[path'][b] = "live"
      BY DEF FoundAlways
    <3>1. CASE b = a
      <4>1. table[d][a] = "live"
        BY <2>6, <3>1
      <4>2. ~Daemon!Empty(d)
        BY <2>2, <4>1 DEF Daemon!Empty
      <4>3. path = d
        BY <1>1, <4>2 DEF DInv, LeaversEmpty, Named
      <4> QED BY <1>1, <2>1, <3>1, <4>1, <4>3 DEF Daemon!Answers, Within, Daemon!ConstantsFit
    <3>2. CASE b # a
      <4>1. Daemon!Answers /\ table[path][b] = "live"
        BY <2>6, <3>2 DEF DInv, FoundAlways
      <4> QED BY <2>1, <4>1 DEF Daemon!Answers
    <3> QED BY <3>1, <3>2
  <2> QED BY <2>5, <2>7, <2>10, <2>11, <2>12, <2>13 DEF DInv
<1> QED BY <1>3, <1>4, <1>5

-----------------------------------------------------------------------------
(* The daemons' processes                                                   *)

\* A daemon is only started when none runs or is on its way.
LEMMA SpawnKeeps == ASSUME DInv, Within, Daemon!QuitSpawn PROVE DInv'
<1>1. /\ quit.at = "connect" /\ ~quit.spawned /\ ~Daemon!Answers /\ Daemon!Settled
      /\ quit' = [quit EXCEPT !.spawned = TRUE]
      /\ UNCHANGED <<path, table, ever, timer, conns, used, app, boot, safe>>
  BY DEF Daemon!QuitSpawn
<1>2. PICK d \in Daemons : proc[d] = "none" /\ proc' = [proc EXCEPT ![d] = "born"]
  BY DEF Daemon!QuitSpawn
<1>3. proc \in [Daemons -> {"none", "born", "up", "dead"}] /\ quit \in QuitType
      /\ path \in Daemons \cup {NoDaemon} /\ NoDaemon \notin Daemons
  BY DEF DInv, DaemonTypes, ClientTypes, Within, Daemon!ConstantsFit
<1>4. \A e \in Daemons : proc[e] # "up"
  <2> SUFFICES ASSUME NEW e \in Daemons, proc[e] = "up" PROVE FALSE
    OBVIOUS
  <2>1. ~Daemon!Leaving(e)
    BY <1>1 DEF Daemon!Settled, Within
  <2>2. path = e
    BY <2>1 DEF DInv, Named
  <2> QED BY <1>1, <1>3, <2>2 DEF Daemon!Answers
<1>5. \A e \in Daemons : proc[e] # "born"
  BY <1>1 DEF DInv, Asked, Gone
<1>6. /\ proc' \in [Daemons -> {"none", "born", "up", "dead"}] /\ proc'[d] = "born"
      /\ \A e \in Daemons : e # d => proc'[e] = proc[e]
  BY <1>2, <1>3
<1>7. quit' \in QuitType /\ quit'.at = "connect" /\ quit'.spawned = TRUE
  BY <1>1, <1>3 DEF QuitType
<1>8. DaemonTypes' /\ ClientTypes'
  BY <1>1, <1>6, <1>7 DEF DInv, DaemonTypes, ClientTypes
<1>9. \A e \in Daemons : Daemon!Empty(e)' = Daemon!Empty(e)
  BY <1>1 DEF Daemon!Empty
<1>10. Held' /\ LeaversEmpty' /\ Named'
  BY <1>4, <1>6, <1>9 DEF DInv, Held, LeaversEmpty, Named
<1>11. Alone'
  BY <1>4, <1>5, <1>6 DEF Alone
<1>12. Asked' /\ Gone'
  BY <1>1, <1>7 DEF DInv, Asked, Gone
<1>13. FoundAlways'
  BY <1>1 DEF DInv, FoundAlways
<1> QED BY <1>8, <1>10, <1>11, <1>12, <1>13 DEF DInv

\* The daemon that binds is the only one, so that it takes nobody's place.
LEMMA BindKeeps == ASSUME DInv, Within, NEW d \in Daemons, Daemon!Bind(d) PROVE DInv'
<1>1. /\ proc[d] = "born" /\ proc' = [proc EXCEPT ![d] = "up"] /\ path' = d
      /\ UNCHANGED <<table, ever, timer, conns, used, app, boot, quit, safe>>
  BY DEF Daemon!Bind
<1>2. proc \in [Daemons -> {"none", "born", "up", "dead"}]
  BY DEF DInv, DaemonTypes
<1>3. \A e \in Daemons : e # d => proc[e] \notin {"born", "up"}
  BY <1>1 DEF DInv, Alone
<1>4. /\ proc' \in [Daemons -> {"none", "born", "up", "dead"}] /\ proc'[d] = "up"
      /\ \A e \in Daemons : e # d => proc'[e] = proc[e]
  BY <1>1, <1>2
<1>5. \A e \in Daemons : Daemon!Empty(e)
  BY <1>1, <1>3 DEF DInv, Held
<1>6. DaemonTypes' /\ ClientTypes'
  BY <1>1, <1>4 DEF DInv, DaemonTypes, ClientTypes
<1>7. \A e \in Daemons : Daemon!Empty(e)'
  BY <1>1, <1>5 DEF Daemon!Empty
<1>8. Held' /\ LeaversEmpty'
  BY <1>7 DEF Held, LeaversEmpty
<1>9. Named' /\ Alone' /\ Asked' /\ Gone'
  BY <1>1, <1>3, <1>4 DEF DInv, Named, Alone, Asked, Gone
<1>10. FoundAlways'
  <2>1. \A a \in Agents : ~safe[a]
    BY <1>5 DEF DInv, FoundAlways, Daemon!Answers, Daemon!Empty, DaemonTypes
  <2> QED BY <1>1, <2>1 DEF FoundAlways
<1> QED BY <1>6, <1>8, <1>9, <1>10 DEF DInv

\* A thread of a daemon that has decided to leave, or only looks.
LEMMA Looks ==
    ASSUME DInv, Within, UNCHANGED <<proc, table, app, boot, quit, safe>>,
           DaemonTypes', ClientTypes',
           \A e \in Daemons : /\ ever[e] => ever'[e]
                              /\ Pending(e) => Pending(e)' \/ ever'[e]
                              /\ Daemon!Leaving(e) => Daemon!Leaving(e)'
                              /\ proc[e] = "up" /\ Daemon!Leaving(e)' => Daemon!Empty(e),
           \/ path' = path
           \/ \E d \in Daemons : Daemon!Leaving(d) /\ proc[d] = "up" /\ path' = NoDaemon
    PROVE  DInv'
<1>1. \A e \in Daemons : Daemon!Empty(e)' = Daemon!Empty(e)
  BY DEF Daemon!Empty
<1>2. Held' /\ LeaversEmpty'
  BY <1>1 DEF DInv, Held, LeaversEmpty
<1>3. Alone' /\ Asked' /\ Gone'
  BY DEF DInv, Alone, Asked, Gone
<1>4. CASE path' = path
  <2>1. Named' /\ FoundAlways'
    BY <1>4 DEF DInv, Named, FoundAlways, Daemon!Answers
  <2> QED BY <1>2, <1>3, <2>1 DEF DInv
<1>5. CASE \E d \in Daemons : Daemon!Leaving(d) /\ proc[d] = "up" /\ path' = NoDaemon
  <2>1. PICK d \in Daemons : Daemon!Leaving(d) /\ proc[d] = "up" /\ path' = NoDaemon
    BY <1>5
  <2>2. Named'
    BY <2>1 DEF DInv, Named, Alone
  <2>3. \A a \in Agents : ~safe[a]
    <3> SUFFICES ASSUME NEW a \in Agents, safe[a] PROVE FALSE
      OBVIOUS
    <3>1. proc[path] = "up" /\ path \in Daemons /\ table[path][a] = "live"
      BY DEF DInv, FoundAlways, Daemon!Answers, DaemonTypes
    <3>2. path = d
      BY <2>1, <3>1 DEF DInv, Alone
    <3> QED BY <2>1, <3>1, <3>2 DEF DInv, LeaversEmpty, Daemon!Empty
  <2>4. FoundAlways'
    BY <2>3 DEF FoundAlways
  <2> QED BY <1>2, <1>3, <2>2, <2>4 DEF DInv
<1> QED BY <1>4, <1>5

\* A daemon that leaves takes nothing with it.
LEMMA Leaves ==
    ASSUME DInv, Within, NEW d \in Daemons, proc[d] = "up", Daemon!Leaving(d),
           proc' = [proc EXCEPT ![d] = "dead"],
           table' = [table EXCEPT ![d] = [a \in Agents |-> "none"]],
           UNCHANGED <<path, ever, app, boot, quit, safe>>,
           DaemonTypes', ClientTypes',
           \A e \in Daemons : e # d => Daemon!Leaving(e)' = Daemon!Leaving(e) /\ (Pending(e) => Pending(e)')
    PROVE  DInv'
<1>1. /\ proc \in [Daemons -> {"none", "born", "up", "dead"}]
      /\ table \in [Daemons -> [Agents -> {"none", "live", "exited"}]]
  BY DEF DInv, DaemonTypes
<1>2. /\ proc'[d] = "dead" /\ \A e \in Daemons : e # d => proc'[e] = proc[e]
      /\ table'[d] = [a \in Agents |-> "none"]
      /\ \A e \in Daemons : e # d => table'[e] = table[e]
  BY <1>1
<1>3. Daemon!Empty(d)' /\ \A e \in Daemons : e # d => Daemon!Empty(e)' = Daemon!Empty(e)
  BY <1>2 DEF Daemon!Empty
<1>4. Held' /\ LeaversEmpty' /\ Named'
  BY <1>2, <1>3 DEF DInv, Held, LeaversEmpty, Named
<1>5. Alone' /\ Asked' /\ Gone'
  BY <1>2 DEF DInv, Alone, Asked, Gone
<1>6. FoundAlways'
  <2> SUFFICES ASSUME NEW a \in Agents, safe[a] PROVE Daemon!Answers' /\ table'[path'][a] = "live"
    BY DEF FoundAlways
  <2>1. proc[path] = "up" /\ path \in Daemons /\ table[path][a] = "live" /\ path # NoDaemon
    BY DEF DInv, FoundAlways, Daemon!Answers, DaemonTypes
  <2>2. path # d
    BY <2>1 DEF DInv, LeaversEmpty, Daemon!Empty
  <2> QED BY <1>2, <2>1, <2>2 DEF Daemon!Answers
<1> QED BY <1>4, <1>5, <1>6 DEF DInv

LEMMA TimerKeeps ==
    ASSUME DInv, Within, NEW d \in Daemons, Daemon!TimerCheck(d) \/ Daemon!TimerUnlink(d) \/ Daemon!TimerExit(d)
    PROVE  DInv'
<1>1. /\ proc[d] = "up" /\ UNCHANGED <<ever, conns, used, app, boot, quit, safe>>
      /\ timer \in [Daemons -> {"wait", "unlink", "exit", "done"}]
  BY DEF Daemon!TimerCheck, Daemon!TimerUnlink, Daemon!TimerExit, DInv, DaemonTypes
<1>2. ClientTypes' /\ \A e \in Daemons : Pending(e)' = Pending(e)
  BY <1>1 DEF DInv, ClientTypes, Pending
<1>3. ASSUME NEW v \in {"unlink", "exit", "done"}, timer' = [timer EXCEPT ![d] = v]
      PROVE  /\ timer' \in [Daemons -> {"wait", "unlink", "exit", "done"}] /\ timer'[d] = v
             /\ \A e \in Daemons : e # d => timer'[e] = timer[e] /\ Daemon!Leaving(e)' = Daemon!Leaving(e)
  <2>1. /\ timer' \in [Daemons -> {"wait", "unlink", "exit", "done"}] /\ timer'[d] = v
        /\ \A e \in Daemons : e # d => timer'[e] = timer[e]
    BY <1>1, <1>3
  <2>2. \A e \in Daemons : e # d => Daemon!Leaving(e)' = Daemon!Leaving(e)
    BY <1>1, <2>1 DEF Daemon!Leaving
  <2> QED BY <2>1, <2>2
<1>4. CASE Daemon!TimerCheck(d)
  <2> DEFINE v == IF ever[d] THEN "done" ELSE "unlink"
  <2>1. /\ timer[d] = "wait" /\ timer' = [timer EXCEPT ![d] = v] /\ path' = path
        /\ UNCHANGED <<proc, table>> /\ ~Pending(d)
    BY <1>4 DEF Daemon!TimerCheck, Pending, Within
  <2>2. v \in {"unlink", "exit", "done"}
    OBVIOUS
  <2>3. /\ timer' \in [Daemons -> {"wait", "unlink", "exit", "done"}] /\ timer'[d] = v
        /\ \A e \in Daemons : e # d => timer'[e] = timer[e] /\ Daemon!Leaving(e)' = Daemon!Leaving(e)
    BY <1>3, <2>1, <2>2
  <2>4. DaemonTypes'
    BY <1>1, <2>1, <2>3 DEF DInv, DaemonTypes
  <2>5. Daemon!Leaving(d) => Daemon!Leaving(d)'
    BY <1>1, <2>1 DEF Daemon!Leaving
  <2>6. Daemon!Leaving(d)' => Daemon!Leaving(d) \/ ~ever[d]
    BY <1>1, <2>1, <2>3 DEF Daemon!Leaving
  <2>7. Daemon!Leaving(d)' => Daemon!Empty(d)
    BY <1>1, <2>1, <2>6 DEF DInv, LeaversEmpty, Held
  <2>8. \A e \in Daemons : /\ ever[e] => ever'[e]
                           /\ Pending(e) => Pending(e)' \/ ever'[e]
                           /\ Daemon!Leaving(e) => Daemon!Leaving(e)'
                           /\ proc[e] = "up" /\ Daemon!Leaving(e)' => Daemon!Empty(e)
    BY <1>1, <1>2, <2>3, <2>5, <2>7 DEF DInv, LeaversEmpty
  <2> QED BY <1>1, <1>2, <2>1, <2>4, <2>8, Looks
<1>5. CASE Daemon!TimerUnlink(d)
  <2>1. /\ timer[d] = "unlink" /\ timer' = [timer EXCEPT ![d] = "exit"] /\ path' = NoDaemon
        /\ UNCHANGED <<proc, table>>
    BY <1>5 DEF Daemon!TimerUnlink
  <2>2. /\ timer' \in [Daemons -> {"wait", "unlink", "exit", "done"}] /\ timer'[d] = "exit"
        /\ \A e \in Daemons : e # d => timer'[e] = timer[e] /\ Daemon!Leaving(e)' = Daemon!Leaving(e)
    BY <1>3, <2>1
  <2>3. DaemonTypes'
    BY <1>1, <2>1, <2>2 DEF DInv, DaemonTypes
  <2>4. Daemon!Leaving(d) /\ Daemon!Leaving(d)'
    BY <2>1, <2>2 DEF Daemon!Leaving
  <2>5. \A e \in Daemons : /\ ever[e] => ever'[e]
                           /\ Pending(e) => Pending(e)' \/ ever'[e]
                           /\ Daemon!Leaving(e) => Daemon!Leaving(e)'
                           /\ proc[e] = "up" /\ Daemon!Leaving(e)' => Daemon!Empty(e)
    BY <1>1, <1>2, <2>2, <2>4 DEF DInv, LeaversEmpty
  <2> QED BY <1>1, <1>2, <2>1, <2>3, <2>4, <2>5, Looks
<1>6. CASE Daemon!TimerExit(d)
  <2>1. /\ timer[d] = "exit" /\ timer' = [timer EXCEPT ![d] = "done"] /\ path' = path
        /\ proc' = [proc EXCEPT ![d] = "dead"]
        /\ table' = [table EXCEPT ![d] = [a \in Agents |-> "none"]]
    BY <1>6 DEF Daemon!TimerExit
  <2>2. /\ timer' \in [Daemons -> {"wait", "unlink", "exit", "done"}] /\ timer'[d] = "done"
        /\ \A e \in Daemons : e # d => timer'[e] = timer[e] /\ Daemon!Leaving(e)' = Daemon!Leaving(e)
    BY <1>3, <2>1
  <2>3. Daemon!Leaving(d)
    BY <2>1 DEF Daemon!Leaving
  <2>4. DaemonTypes'
    BY <1>1, <2>1, <2>2 DEF DInv, DaemonTypes
  <2> QED BY <1>1, <1>2, <2>1, <2>2, <2>3, <2>4, Leaves
<1> QED BY <1>4, <1>5, <1>6

LEMMA ServerKeeps ==
    ASSUME DInv, Within, NEW c \in 1 .. used,
           Daemon!ServerEver(c) \/ Daemon!ServerCheck(c) \/ Daemon!ServerUnlink(c) \/ Daemon!ServerExit(c)
    PROVE  DInv'
<1>0. /\ c \in Daemon!Conns /\ conns[c].d \in Daemons /\ conns[c] \in ConnType /\ quit \in QuitType
      /\ quit.at = quit.at
  BY DEF DInv, ClientTypes, Daemon!Conns, Within, Daemon!ConstantsFit
<1> PICK d \in Daemons : d = conns[c].d
  BY <1>0
<1>1. /\ c \in Daemon!Conns /\ conns[c].d = d /\ conns[c] \in ConnType /\ proc[d] = "up"
      /\ UNCHANGED <<timer, used, app, boot, quit, safe>>
  BY <1>0 DEF Daemon!ServerEver, Daemon!ServerCheck, Daemon!ServerUnlink, Daemon!ServerExit, Daemon!daemonside
<1>2. ASSUME NEW cn \in ConnType, cn.d = d, conns' = [conns EXCEPT ![c] = cn]
      PROVE  /\ ClientTypes' /\ conns'[c] = cn
             /\ \A b \in Daemon!Conns : b # c => conns'[b] = conns[b]
             /\ \A e \in Daemons : /\ e # d => Daemon!Leaving(e)' = Daemon!Leaving(e)
                                   /\ e # d => Pending(e)' = Pending(e)
  <2>1. /\ ClientTypes' /\ conns'[c] = cn
        /\ \A b \in Daemon!Conns : b # c => conns'[b] = conns[b]
    BY <1>0, <1>1, <1>2, Serving DEF DInv
  <2>2. \A e \in Daemons : e # d => Daemon!Leaving(e)' = Daemon!Leaving(e)
    <3>1. \A b \in Daemon!Conns, e \in Daemons : e # d =>
             (conns'[b].d = e /\ conns'[b].at \in {"unlink", "exit"})
               = (conns[b].d = e /\ conns[b].at \in {"unlink", "exit"})
      BY <1>1, <1>2, <2>1
    <3> QED BY <1>1, <3>1 DEF Daemon!Leaving
  <2>3. \A e \in Daemons : e # d => Pending(e)' = Pending(e)
    <3>1. \A b \in Daemon!Conns, e \in Daemons : e # d =>
             (conns'[b].d = e /\ conns'[b].agent # {}) = (conns[b].d = e /\ conns[b].agent # {})
      BY <1>1, <1>2, <2>1
    <3> QED BY <3>1 DEF Pending
  <2> QED BY <2>1, <2>2, <2>3
<1>3. CASE Daemon!ServerEver(c)
  <2> DEFINE cn == [conns[c] EXCEPT !.agent = {}]
  <2>1. /\ ever' = [ever EXCEPT ![d] = TRUE] /\ conns' = [conns EXCEPT ![c] = cn]
        /\ path' = path /\ UNCHANGED <<proc, table>>
    BY <1>1, <1>3 DEF Daemon!ServerEver
  <2>2. cn \in ConnType /\ cn.d = d /\ cn.at = conns[c].at
    BY <1>1 DEF ConnType
  <2> HIDE DEF cn
  <2>3. /\ ClientTypes' /\ conns'[c] = cn
        /\ \A b \in Daemon!Conns : b # c => conns'[b] = conns[b]
        /\ \A e \in Daemons : /\ e # d => Daemon!Leaving(e)' = Daemon!Leaving(e)
                              /\ e # d => Pending(e)' = Pending(e)
    BY <1>2, <2>1, <2>2
  <2>4. /\ ever' \in [Daemons -> BOOLEAN] /\ ever'[d] = TRUE
        /\ \A e \in Daemons : e # d => ever'[e] = ever[e]
    BY <2>1 DEF DInv, DaemonTypes
  <2>5. DaemonTypes'
    BY <1>1, <2>1, <2>4 DEF DInv, DaemonTypes
  <2>6. Daemon!Leaving(d)' = Daemon!Leaving(d)
    <3>1. \A b \in Daemon!Conns : (conns'[b].d = d /\ conns'[b].at \in {"unlink", "exit"})
                                   = (conns[b].d = d /\ conns[b].at \in {"unlink", "exit"})
      BY <1>1, <2>2, <2>3
    <3> QED BY <1>1, <3>1 DEF Daemon!Leaving
  <2>7. \A e \in Daemons : /\ ever[e] => ever'[e]
                           /\ Pending(e) => Pending(e)' \/ ever'[e]
                           /\ Daemon!Leaving(e) => Daemon!Leaving(e)'
                           /\ proc[e] = "up" /\ Daemon!Leaving(e)' => Daemon!Empty(e)
    BY <2>3, <2>4, <2>6 DEF DInv, LeaversEmpty
  <2> QED BY <1>1, <2>1, <2>3, <2>5, <2>7, Looks
<1>4. CASE Daemon!ServerCheck(c)
  <2> DEFINE to == IF Daemon!Empty(d) THEN "unlink" ELSE "done"
             cn == [conns[c] EXCEPT !.at = to]
  <2>1. /\ conns' = [conns EXCEPT ![c] = cn] /\ path' = path
        /\ UNCHANGED <<proc, table, ever>> /\ conns[c].at = "serving" /\ conns[c].agent = {}
    BY <1>1, <1>4 DEF Daemon!ServerCheck, Daemon!daemonside
  <2>2. cn \in ConnType /\ cn.d = d /\ cn.at = to /\ cn.agent = conns[c].agent
    BY <1>1 DEF ConnType
  <2> HIDE DEF cn
  <2>3. /\ ClientTypes' /\ conns'[c] = cn
        /\ \A b \in Daemon!Conns : b # c => conns'[b] = conns[b]
        /\ \A e \in Daemons : /\ e # d => Daemon!Leaving(e)' = Daemon!Leaving(e)
                              /\ e # d => Pending(e)' = Pending(e)
    BY <1>2, <2>1, <2>2
  <2>4. DaemonTypes'
    BY <1>1, <2>1 DEF DInv, DaemonTypes
  <2>5. Pending(d) => Pending(d)'
    BY <1>1, <2>2, <2>3 DEF Pending
  <2>6. Daemon!Leaving(d) => Daemon!Leaving(d)'
    BY <1>1, <2>1, <2>3 DEF Daemon!Leaving
  <2>7. Daemon!Leaving(d)' => Daemon!Leaving(d) \/ Daemon!Empty(d)
    BY <1>1, <2>2, <2>3 DEF Daemon!Leaving
  <2>8. \A e \in Daemons : /\ ever[e] => ever'[e]
                           /\ Pending(e) => Pending(e)' \/ ever'[e]
                           /\ Daemon!Leaving(e) => Daemon!Leaving(e)'
                           /\ proc[e] = "up" /\ Daemon!Leaving(e)' => Daemon!Empty(e)
    BY <1>1, <2>1, <2>3, <2>5, <2>6, <2>7 DEF DInv, LeaversEmpty
  <2> QED BY <1>1, <2>1, <2>3, <2>4, <2>8, Looks
<1>5. CASE Daemon!ServerUnlink(c)
  <2> DEFINE cn == [conns[c] EXCEPT !.at = "exit"]
  <2>1. /\ conns' = [conns EXCEPT ![c] = cn] /\ path' = NoDaemon
        /\ UNCHANGED <<proc, table, ever>> /\ conns[c].at = "unlink"
    BY <1>1, <1>5 DEF Daemon!ServerUnlink
  <2>2. cn \in ConnType /\ cn.d = d /\ cn.at = "exit" /\ cn.agent = conns[c].agent
    BY <1>1 DEF ConnType
  <2> HIDE DEF cn
  <2>3. /\ ClientTypes' /\ conns'[c] = cn
        /\ \A b \in Daemon!Conns : b # c => conns'[b] = conns[b]
        /\ \A e \in Daemons : /\ e # d => Daemon!Leaving(e)' = Daemon!Leaving(e)
                              /\ e # d => Pending(e)' = Pending(e)
    BY <1>2, <2>1, <2>2
  <2>4. DaemonTypes'
    BY <1>1, <2>1 DEF DInv, DaemonTypes
  <2>5. Pending(d) => Pending(d)'
    BY <1>1, <2>2, <2>3 DEF Pending
  <2>6. Daemon!Leaving(d) /\ Daemon!Leaving(d)'
    BY <1>1, <2>1, <2>2, <2>3 DEF Daemon!Leaving
  <2>7. \A e \in Daemons : /\ ever[e] => ever'[e]
                           /\ Pending(e) => Pending(e)' \/ ever'[e]
                           /\ Daemon!Leaving(e) => Daemon!Leaving(e)'
                           /\ proc[e] = "up" /\ Daemon!Leaving(e)' => Daemon!Empty(e)
    BY <1>1, <2>1, <2>3, <2>5, <2>6 DEF DInv, LeaversEmpty
  <2> QED BY <1>1, <2>1, <2>3, <2>4, <2>6, <2>7, Looks
<1>6. CASE Daemon!ServerExit(c)
  <2> DEFINE cn == [conns[c] EXCEPT !.at = "done"]
  <2>1. /\ conns' = [conns EXCEPT ![c] = cn] /\ path' = path /\ ever' = ever
        /\ proc' = [proc EXCEPT ![d] = "dead"] /\ conns[c].at = "exit"
        /\ table' = [table EXCEPT ![d] = [a \in Agents |-> "none"]]
    BY <1>1, <1>6 DEF Daemon!ServerExit
  <2>2. cn \in ConnType /\ cn.d = d
    BY <1>1 DEF ConnType
  <2> HIDE DEF cn
  <2>3. /\ ClientTypes'
        /\ \A e \in Daemons : /\ e # d => Daemon!Leaving(e)' = Daemon!Leaving(e)
                              /\ e # d => Pending(e)' = Pending(e)
    BY <1>2, <2>1, <2>2
  <2>4. Daemon!Leaving(d)
    BY <1>1, <2>1 DEF Daemon!Leaving
  <2>5. DaemonTypes'
    BY <1>1, <2>1 DEF DInv, DaemonTypes
  <2> QED BY <1>1, <2>1, <2>3, <2>4, <2>5, Leaves
<1> QED BY <1>3, <1>4, <1>5, <1>6

-----------------------------------------------------------------------------
(* The invariant and what follows                                           *)

LEMMA DInit == Within /\ Daemon!Init => DInv
<1> SUFFICES ASSUME Within, Daemon!Init PROVE DInv
  OBVIOUS
<1>1. Daemon!NoConn \in ConnType /\ Daemon!BootIdle \in BootType /\ Daemon!QuitIdle \in QuitType
      /\ Daemon!QuitIdle.at = "idle" /\ Daemon!BootIdle.at = "start"
  BY DEF Daemon!NoConn, Daemon!BootIdle, Daemon!QuitIdle, ConnType, BootType, QuitType
<1>2. /\ path = NoDaemon /\ proc = [d \in Daemons |-> "none"]
      /\ table = [d \in Daemons |-> [a \in Agents |-> "none"]]
      /\ ever = [d \in Daemons |-> FALSE] /\ timer = [d \in Daemons |-> "wait"]
      /\ conns = [c \in Daemon!Conns |-> Daemon!NoConn] /\ used = 0 /\ app = "up"
      /\ boot = Daemon!BootIdle /\ quit = Daemon!QuitIdle /\ safe = [a \in Agents |-> FALSE]
  BY DEF Daemon!Init
<1>3. DaemonTypes
  BY <1>2 DEF DaemonTypes
<1>4. \A c \in Daemon!Conns : ~(c <= used)
  BY <1>2 DEF Daemon!Conns
<1>5. ClientTypes
  BY <1>1, <1>2, <1>4 DEF ClientTypes, Within, Daemon!ConstantsFit
<1>6. \A d \in Daemons : Daemon!Empty(d) /\ proc[d] = "none"
  BY <1>2 DEF Daemon!Empty
<1> QED BY <1>2, <1>3, <1>5, <1>6
        DEF DInv, Held, LeaversEmpty, Named, Alone, Asked, Gone, FoundAlways

LEMMA DNext == Within /\ DInv /\ [Daemon!Next]_daemons => DInv'
<1> SUFFICES ASSUME Within, DInv, [Daemon!Next]_daemons PROVE DInv'
  OBVIOUS
<1>1. CASE Daemon!BootConnect \/ Daemon!BootList \/ Daemon!BootDone
  BY <1>1, BootSide
<1>2. CASE \E a \in Agents : Daemon!BootAdopt(a) \/ Daemon!BootKill(a)
  BY <1>2, TakenBack
<1>3. CASE \E a \in Agents : Daemon!HandoffInsert(a)
  BY <1>3, Handing
<1>4. CASE \E a \in Agents : Daemon!Create(a)
  BY <1>4, AppItself
<1>5. CASE Daemon!QuitBegin \/ Daemon!QuitConnect \/ Daemon!QuitTimeout \/ Daemon!QuitDone
  BY <1>5, QuitSide
<1>6. CASE Daemon!QuitSpawn
  BY <1>6, SpawnKeeps
<1>7. CASE Daemon!HandoffEver \/ Daemon!HandoffOk
  BY <1>7, Handing
<1>8. CASE Daemon!AppEnd \/ Daemon!AppStart
  BY <1>8, AppItself
<1>9. CASE \E d \in Daemons : Daemon!Bind(d) \/ Daemon!TimerCheck(d) \/ Daemon!TimerUnlink(d) \/ Daemon!TimerExit(d)
  BY <1>9, BindKeeps, TimerKeeps
<1>10. CASE \E d \in Daemons, a \in Agents : Daemon!SessionEnds(d, a)
  BY <1>10, TakenBack
<1>11. CASE \E c \in 1 .. used : Daemon!ServerEver(c) \/ Daemon!ServerCheck(c) \/ Daemon!ServerUnlink(c) \/ Daemon!ServerExit(c)
  BY <1>11, ServerKeeps
<1>12. CASE UNCHANGED daemons
  <2>1. UNCHANGED <<path, proc, table, ever, timer, safe, conns, used, app, boot, quit>>
    BY <1>12 DEF daemons
  <2>2. ClientTypes' /\ Asked' /\ Gone'
    BY <2>1 DEF DInv, ClientTypes, Asked, Gone
  <2> QED BY <2>1, <2>2, AppSide DEF Thread
<1> QED BY <1>1, <1>2, <1>3, <1>4, <1>5, <1>6, <1>7, <1>8, <1>9, <1>10, <1>11, <1>12 DEF Daemon!Next

-----------------------------------------------------------------------------
(* The composition                                                          *)

LEMMA ChatInvariant == MCSpec => []CInv
<1>1. MCInit => CInv
  BY ChatInit DEF MCInit
<1>2. CInv /\ [MCNext]_allVars => CInv'
  BY ChatNext, OneMachineSteps
<1> QED BY <1>1, <1>2, PTL DEF MCSpec

\* A chat that lives has its tab, or a call that is about to show or to end it, and once the
\* events have come its tab is true of it: whatever opens fail, however often the page is
\* loaded anew, in whatever order answers, events and ends of sessions arrive
\* (taskChatStore.ts, task_chat.rs).
THEOREM ChatsStayInSight == MCSpec => []ChatsInSight
<1>1. CInv => ChatsInSight
  BY InSight DEF ChatsInSight
<1> QED BY <1>1, ChatInvariant, PTL

LEMMA DaemonInvariant == ~Overlap => (MCSpec => []DInv)
<1> SUFFICES ASSUME ~Overlap PROVE MCSpec => []DInv
  OBVIOUS
<1>0. Within
  BY Fits DEF Within
<1>1. MCInit => DInv
  BY <1>0, DInit DEF MCInit
<1>2. DInv /\ [MCNext]_allVars => DInv'
  BY <1>0, DNext, OneMachineSteps
<1> QED BY <1>1, <1>2, PTL DEF MCSpec

\* A session the app was told is handed over stays in the table of a running daemon until
\* it ends or the next app takes or kills it: no daemon that holds one decides to leave, by
\* its timer, by the end of a connection, or after a crash of the app (daemon.rs).
THEOREM HandedOff == ~Overlap => (MCSpec => []HandedOffSurvives)
<1>1. DInv => HandedOffSurvives
  BY DEF DInv, FoundAlways, Daemon!Answers, HandedOffSurvives, Daemon!HandedOffSurvives,
         DaemonTypes
<1> QED BY <1>1, DaemonInvariant, PTL

\* And the next app finds it: the path names the daemon that holds it, since no second one
\* is started beside one that stays, and one that leaves holds nothing (client.rs).
THEOREM FoundByTheNext == ~Overlap => (MCSpec => []FoundAgain)
<1>1. DInv => FoundAgain
  BY DEF DInv, FoundAlways, FoundAgain, Daemon!FoundAgain
<1> QED BY <1>1, DaemonInvariant, PTL

\* There is never a second daemon beside one that runs or is about to bind.
THEOREM OneDaemon == ~Overlap => (MCSpec => []Alone)
<1>1. DInv => Alone
  BY DEF DInv
<1> QED BY <1>1, DaemonInvariant, PTL
=============================================================================
