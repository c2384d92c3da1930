-------------------------------- MODULE WorkSend --------------------------------
(***************************************************************************)
(* Sending a task to one agent (src-tauri/src/work_send.rs with            *)
(* work_send/cli_transition.rs): a launch line is typed into the agent's   *)
(* shell, the script it sources writes a started receipt, runs the CLI and *)
(* writes a return receipt; the prompt follows once the receipt was seen.  *)
(* A follow-up types a prompt into the CLI that is already running.  What  *)
(* is typed arms the bot mark (state.rs) that the next prompt consumes.    *)
(*                                                                         *)
(* The input gate's own critical sections are in InjectGate; here its lock *)
(* and revision are single steps and the terminal is what reads the lines. *)
(***************************************************************************)
EXTENDS Naturals, Sequences, FiniteSets

CONSTANTS
    Sends,        \* requests of WorkSendRuntime.send, each made once
    Follows,      \* requests of WorkSendRuntime.follow_up, each made once
    Other,        \* a program a person started in the shell
    NoOne,
    MaxReqs,      \* bound: requests made
    MaxSessions,  \* bound: sessions the agent gets
    MaxTyped      \* bound: chunks the person types

Reqs == Sends \cup Follows

ASSUME NamesAssumption ==
    /\ Sends \cap Follows = {}
    /\ Other \notin Reqs /\ NoOne \notin Reqs \cup {Other}
    /\ Reqs \cap {"none", "shell", "rc", "prompt"} = {}
ASSUME BoundsAssumption == MaxReqs \in Nat /\ MaxSessions \in Nat /\ MaxTyped \in Nat

VARIABLES
    sid,       \* sessions so far; the last one is the agent's
    running,   \* it runs
    fg,        \* who reads its terminal: rc files, the shell's prompt, a CLI
    line,      \* what stands on the input line
    inbox,     \* submitted lines nobody has read
    rev,       \* human_input_revision of the gate
    open,      \* human_uncommitted
    queue,     \* human input held back between a body and its Enter
    typed,     \* chunks typed so far
    owner,     \* the transition owner of the gate
    active,    \* WorkSendRuntime.active
    attempted, \* WorkSendRuntime.attempted
    cancelled, \* requests whose cancel flag is set
    pc,        \* request -> where it is
    req,       \* request -> session, revision and freshness it was given
    started,   \* launches with a started receipt
    returned,  \* launches with a return receipt
    ended,     \* (history) launches whose CLI is over
    typedIn,   \* (history) launch -> session its line was typed into, or 0
    readBy,    \* (history) request -> who read its prompt
    armed,     \* the agent's bot mark
    mistaken   \* (history) a person's prompt was taken for a bot's

term == <<sid, running, fg, line, inbox>>
gate == <<rev, open, queue, typed>>
runtime == <<owner, active, attempted, cancelled>>
files == <<started, returned, ended, typedIn, readBy>>
mark == <<armed, mistaken>>
vars == <<term, gate, runtime, pc, req, files, mark>>

Launch(r) == [what |-> "launch", of |-> r]
Prompt(r) == [what |-> "prompt", of |-> r]
Text      == [what |-> "text", of |-> NoOne]
Items == {Launch(r) : r \in Sends} \cup {Prompt(r) : r \in Reqs} \cup {Text}

NoReq == [sid |-> 0, rev |-> 0, fresh |-> FALSE]

Steps == {"idle", "asked", "settle", "own", "attempt", "launch", "launchCr",
          "ack", "ready", "prompt", "promptCr", "drop", "done"}

Init ==
    /\ sid = 0 /\ running = FALSE /\ fg = "rc" /\ line = <<>> /\ inbox = <<>>
    /\ rev = 0 /\ open = FALSE /\ queue = <<>> /\ typed = 0
    /\ owner = NoOne /\ active = NoOne /\ attempted = {} /\ cancelled = {}
    /\ pc = [r \in Reqs |-> "idle"]
    /\ req = [r \in Reqs |-> NoReq]
    /\ started = {} /\ returned = {} /\ ended = {}
    /\ typedIn = [r \in Sends |-> 0]
    /\ readBy = [r \in Reqs |-> "none"]
    /\ armed = FALSE /\ mistaken = FALSE

\* A request that can still be made.
Unmade(r) == pc[r] = "idle" /\ Cardinality({q \in Reqs : pc[q] # "idle"}) < MaxReqs

Goto(r, l) == pc' = [pc EXCEPT ![r] = l]

-----------------------------------------------------------------------------
(* The terminal                                                             *)

SpawnShell ==
    /\ ~running /\ sid < MaxSessions
    /\ sid' = sid + 1 /\ running' = TRUE /\ fg' = "rc"
    /\ line' = <<>> /\ inbox' = <<>>

\* A session somebody opens for work of their own.
OpenSession ==
    /\ SpawnShell
    /\ UNCHANGED <<gate, runtime, pc, req, files, mark>>

\* The rc files are through and the shell prompts.
RcDone ==
    /\ running /\ fg = "rc" /\ fg' = "prompt"
    /\ UNCHANGED <<sid, running, line, inbox, gate, runtime, pc, req, files, mark>>

\* The shell or the CLI dies with its terminal.
Dead == /\ running' = FALSE /\ fg' = "rc" /\ line' = <<>> /\ inbox' = <<>>
        /\ ended' = ended \cup {r \in Sends : fg = r}
        /\ UNCHANGED <<sid, started, returned, typedIn, readBy>>

SessionExit ==
    /\ running /\ Dead
    /\ UNCHANGED <<gate, runtime, pc, req, mark>>

\* The script of a launch: no CLI without a started receipt.
ShellReads(l) ==
    IF \E r \in Sends : l = <<Launch(r)>>
      THEN \E r \in Sends :
            /\ l = <<Launch(r)>>
            /\ \/ started' = started \cup {r} /\ fg' = r /\ UNCHANGED ended
               \/ ended' = ended \cup {r} /\ UNCHANGED <<started, fg>>
            /\ UNCHANGED readBy
      ELSE /\ fg' \in IF l = <<Text>> THEN {"prompt", Other} ELSE {"prompt"}
           /\ readBy' = [r \in Reqs |->
                 IF Prompt(r) \in {l[i] : i \in DOMAIN l} THEN "shell" ELSE readBy[r]]
           /\ UNCHANGED <<started, ended>>

\* A CLI reads a line as a prompt; BotPromptArms.consume takes the mark, which
\* counts for BOT_PROMPT_ARM_TTL_MS.
CliReads(l) ==
    /\ readBy' = [r \in Reqs |->
          IF Prompt(r) \in {l[i] : i \in DOMAIN l} THEN fg ELSE readBy[r]]
    /\ armed' = FALSE
    /\ \E expired \in BOOLEAN :
         mistaken' = (mistaken \/ (armed /\ ~expired /\ l = <<Text>>))
    /\ UNCHANGED <<fg, started, ended>>

Reads ==
    /\ running /\ inbox # <<>> /\ fg # "rc"
    /\ inbox' = Tail(inbox)
    /\ IF fg = "prompt" THEN ShellReads(Head(inbox)) /\ UNCHANGED mark
                        ELSE CliReads(Head(inbox))
    /\ UNCHANGED <<sid, running, line, gate, runtime, pc, req, returned, typedIn>>

\* The CLI ends; the script writes the return receipt, if it can.
CliEnds ==
    /\ running /\ fg \in Sends \cup {Other}
    /\ fg' = "prompt"
    /\ ended' = ended \cup ({fg} \cap Sends)
    /\ \E ok \in BOOLEAN : returned' = IF ok THEN returned \cup ({fg} \cap Sends)
                                             ELSE returned
    /\ UNCHANGED <<sid, running, line, inbox, gate, runtime, pc, req, started,
                   typedIn, readBy, mark>>

\* What the terminal makes of the person's chunks: text stands on the line,
\* Enter submits it.
AfterChunk(t, c) ==
    CASE c = "text"  -> [t EXCEPT !.line = IF Text \in {@[i] : i \in DOMAIN @}
                                             THEN @ ELSE Append(@, Text)]
      [] c = "enter" -> [line |-> <<>>, inbox |-> IF t.line = <<>> THEN t.inbox
                                                    ELSE Append(t.inbox, t.line)]
After(chunks) ==
    LET t[i \in 0 .. Len(chunks)] ==
            IF i = 0 THEN [line |-> line, inbox |-> inbox]
            ELSE AfterChunk(t[i - 1], chunks[i])
    IN t[Len(chunks)]
Flush(chunks) == line' = After(chunks).line /\ inbox' = After(chunks).inbox

\* note_human: the revision at once, the input itself after the Enter that is due.
PersonTypes(c) ==
    /\ running /\ typed < MaxTyped
    /\ typed' = typed + 1 /\ rev' = rev + 1 /\ open' = (c = "text")
    /\ IF \E r \in Reqs : owner = r /\ pc[r] \in {"launchCr", "promptCr"}
         THEN queue' = Append(queue, c) /\ UNCHANGED <<line, inbox>>
         ELSE Flush(<<c>>) /\ UNCHANGED queue
    /\ UNCHANGED <<sid, running, fg, runtime, pc, req, files, mark>>

-----------------------------------------------------------------------------
(* The requests                                                             *)

\* What is_shell_prompt may answer; None stands for a shell it cannot ask about.
PromptSeen == {"unknown", IF fg = "prompt" THEN "yes" ELSE "no"}

\* inspect, then the dialog: only an idle shell that was never tried.
Ask(r) ==
    /\ r \in Sends /\ Unmade(r)
    /\ running /\ active = NoOne
    /\ sid \notin attempted /\ ~open /\ fg = "prompt"
    /\ req' = [req EXCEPT ![r] = [sid |-> sid, rev |-> rev, fresh |-> FALSE]]
    /\ Goto(r, "asked")
    /\ UNCHANGED <<term, gate, runtime, files, mark>>

\* A session opened for the request.
AskFresh(r) ==
    /\ r \in Sends /\ Unmade(r)
    /\ SpawnShell
    /\ req' = [req EXCEPT ![r] = [sid |-> sid', rev |-> rev, fresh |-> TRUE]]
    /\ Goto(r, "asked")
    /\ UNCHANGED <<gate, runtime, files, mark>>

\* The check() of send, which every step begins with.
Check(r) ==
    /\ r \notin cancelled
    /\ running /\ req[r].sid = sid
    /\ rev = req[r].rev /\ ~open

\* send: one per agent.
SendBegin(r) ==
    /\ pc[r] = "asked"
    /\ IF active = NoOne
         THEN /\ active' = r
              /\ Goto(r, IF /\ Check(r)
                            /\ req[r].fresh => req[r].rev = 0
                            /\ req[r].sid \notin attempted
                         THEN "settle" ELSE "drop")
         ELSE Goto(r, "done") /\ UNCHANGED active
    /\ UNCHANGED <<term, gate, owner, attempted, cancelled, req, files, mark>>

\* The shell must be at its prompt; only a fresh one is waited for, and believed
\* when it cannot be asked.
Settle(r) ==
    /\ pc[r] = "settle"
    /\ \E seen \in PromptSeen :
         Goto(r, CASE seen = "yes" \/ (seen = "unknown" /\ req[r].fresh) -> "own"
                   [] OTHER -> "drop")
    /\ UNCHANGED <<term, gate, runtime, req, files, mark>>

Own(r) ==
    /\ pc[r] = "own"
    /\ IF owner = NoOne /\ running /\ req[r].sid = sid
         THEN owner' = r /\ Goto(r, IF r \in Sends THEN "attempt" ELSE "prompt")
         ELSE Goto(r, "drop") /\ UNCHANGED owner
    /\ UNCHANGED <<term, gate, active, attempted, cancelled, req, files, mark>>

\* Seeded fault: the session is not marked as tried.
AttemptUnmarked(r) ==
    /\ pc[r] = "attempt"
    /\ Goto(r, IF Check(r) THEN "launch" ELSE "drop")
    /\ UNCHANGED <<term, gate, runtime, req, files, mark>>

\* The model catalog and the launch script may fail; then the session is marked
\* as tried, before anything is typed.
Attempt(r) ==
    /\ pc[r] = "attempt"
    /\ \/ /\ Check(r)
          /\ attempted' = attempted \cup {req[r].sid}
          /\ Goto(r, "launch")
       \/ UNCHANGED attempted /\ Goto(r, "drop")
    /\ UNCHANGED <<term, gate, owner, active, cancelled, req, files, mark>>

\* submit_strict up to the sleep: a refusal before the body ends the request.
Body(r, item, next) ==
    IF Check(r)
      THEN line' = Append(line, item) /\ armed' = TRUE /\ Goto(r, next)
      ELSE Goto(r, "drop") /\ UNCHANGED <<line, armed>>

\* submit_strict after the sleep, and the guard that lets human input through.
Enter(r, next) ==
    /\ IF Check(r) THEN inbox' = Append(inbox, line) /\ line' = <<>>
                   ELSE Flush(queue)
    /\ queue' = <<>>
    /\ Goto(r, IF Check(r) THEN next ELSE "drop")

LaunchBody(r) ==
    /\ pc[r] = "launch"
    /\ Body(r, Launch(r), "launchCr")
    /\ typedIn' = [typedIn EXCEPT ![r] = IF Check(r) THEN sid ELSE 0]
    /\ UNCHANGED <<sid, running, fg, inbox, gate, runtime, req, started,
                   returned, ended, readBy, mistaken>>

LaunchEnter(r) ==
    /\ pc[r] = "launchCr"
    /\ Enter(r, "ack")
    /\ UNCHANGED <<sid, running, fg, rev, open, typed, runtime, req, files, mark>>

\* Seeded fault: the wait for the receipt goes on to the prompt when it times out.
AwaitStartedTimeout(r) ==
    /\ pc[r] = "ack"
    /\ Goto(r, IF Check(r) THEN "ready" ELSE "drop")
    /\ UNCHANGED <<term, gate, runtime, req, files, mark>>

\* Seeded fault: the wait for the receipt has no deadline.
AwaitStartedForever(r) ==
    /\ pc[r] = "ack"
    /\ IF Check(r) THEN r \in started /\ Goto(r, "ready") ELSE Goto(r, "drop")
    /\ UNCHANGED <<term, gate, runtime, req, files, mark>>

\* Ten seconds for the started receipt of this very launch.
AwaitStarted(r) ==
    /\ pc[r] = "ack"
    /\ \/ Check(r) /\ r \in started /\ Goto(r, "ready")
       \/ (~Check(r) \/ r \notin started) /\ Goto(r, "drop")
    /\ UNCHANGED <<term, gate, runtime, req, files, mark>>

\* Ten more for the CLI to come up; a return receipt ends the request.
AwaitReady(r) ==
    /\ pc[r] = "ready"
    /\ Goto(r, IF Check(r) /\ r \notin returned THEN "prompt" ELSE "drop")
    /\ UNCHANGED <<term, gate, runtime, req, files, mark>>

PromptBody(r) ==
    /\ pc[r] = "prompt"
    /\ Body(r, Prompt(r), "promptCr")
    /\ UNCHANGED <<sid, running, fg, inbox, gate, runtime, req, files, mistaken>>

PromptEnter(r) ==
    /\ pc[r] = "promptCr"
    /\ Enter(r, "drop")
    /\ UNCHANGED <<sid, running, fg, rev, open, typed, runtime, req, files, mark>>

\* follow_up: for the CLI that runs in the session the caller names.
FollowBegin(r, s) ==
    /\ r \in Follows /\ Unmade(r)
    /\ IF active = NoOne
         THEN /\ active' = r
              /\ req' = [req EXCEPT ![r] = [sid |-> s, rev |-> rev, fresh |-> FALSE]]
              /\ \E seen \in PromptSeen :
                   Goto(r, IF running /\ s = sid /\ seen # "yes" /\ ~open
                             THEN "own" ELSE "drop")
         ELSE Goto(r, "done") /\ UNCHANGED <<active, req>>
    /\ UNCHANGED <<term, gate, owner, attempted, cancelled, files, mark>>

\* Seeded fault: the transition owner outlives its request.
DropKeepsOwner(r) ==
    /\ pc[r] = "drop"
    /\ active' = IF active = r THEN NoOne ELSE active
    /\ Goto(r, "done")
    /\ req' = [req EXCEPT ![r] = NoReq]
    /\ cancelled' = cancelled \ {r}
    /\ UNCHANGED <<term, gate, owner, attempted, files, mark>>

\* Seeded fault: the guard of a request frees the agent whoever is registered.
DropAnyActive(r) ==
    /\ pc[r] = "drop"
    /\ owner' = IF owner = r THEN NoOne ELSE owner
    /\ active' = NoOne
    /\ Goto(r, "done")
    /\ req' = [req EXCEPT ![r] = NoReq]
    /\ cancelled' = cancelled \ {r}
    /\ UNCHANGED <<term, gate, attempted, files, mark>>

\* The owner's guard and SendGuard: each frees only what is still its own.
Drop(r) ==
    /\ pc[r] = "drop"
    /\ owner' = IF owner = r THEN NoOne ELSE owner
    /\ active' = IF active = r THEN NoOne ELSE active
    /\ Goto(r, "done")
    /\ req' = [req EXCEPT ![r] = NoReq]
    /\ cancelled' = cancelled \ {r}
    /\ UNCHANGED <<term, gate, attempted, files, mark>>

\* stop and stop_all.
StopActive ==
    /\ cancelled' = cancelled \cup ({active} \cap Reqs)
    /\ active' = NoOne

StopAll ==
    /\ active # NoOne /\ StopActive
    /\ UNCHANGED <<term, gate, owner, attempted, pc, req, files, mark>>

\* dispose_session: stop, dispose and a fresh gate.
DisposeSession ==
    /\ running /\ Dead /\ StopActive
    /\ rev' = 0 /\ open' = FALSE /\ queue' = <<>> /\ owner' = NoOne
    /\ UNCHANGED <<typed, attempted, pc, req, mark>>

Step(r) ==
    \/ SendBegin(r) \/ Settle(r) \/ Own(r) \/ Attempt(r)
    \/ LaunchBody(r) \/ LaunchEnter(r) \/ AwaitStarted(r) \/ AwaitReady(r)
    \/ PromptBody(r) \/ PromptEnter(r) \/ Drop(r)

Next ==
    \/ OpenSession \/ RcDone \/ SessionExit \/ Reads \/ CliEnds
    \/ \E c \in {"text", "enter"} : PersonTypes(c)
    \/ \E r \in Reqs : Ask(r) \/ AskFresh(r) \/ Step(r)
    \/ \E r \in Reqs, s \in 1 .. sid : FollowBegin(r, s)
    \/ StopAll \/ DisposeSession

Spec == Init /\ [][Next]_vars

\* Every wait of a request has a deadline, so a task under way goes on.
FairSpec == Spec /\ WF_vars(\E r \in Reqs : Step(r))

-----------------------------------------------------------------------------
(* Properties                                                               *)

\* Every variable has its type, and a registered request or owner is under way.
TypeOK ==
    /\ sid \in 0 .. MaxSessions /\ running \in BOOLEAN
    /\ fg \in {"rc", "prompt", Other} \cup Sends
    /\ line \in Seq(Items) /\ inbox \in Seq(Seq(Items))
    /\ rev \in 0 .. MaxTyped /\ open \in BOOLEAN /\ typed \in 0 .. MaxTyped
    /\ queue \in Seq({"text", "enter"})
    /\ owner \in Reqs \cup {NoOne} /\ active \in Reqs \cup {NoOne}
    /\ attempted \subseteq 1 .. MaxSessions /\ cancelled \subseteq Reqs
    /\ pc \in [Reqs -> Steps]
    /\ req \in [Reqs -> [sid : 0 .. MaxSessions, rev : 0 .. MaxTyped, fresh : BOOLEAN]]
    /\ started \subseteq Sends /\ returned \subseteq started /\ ended \subseteq Sends
    /\ typedIn \in [Sends -> 0 .. MaxSessions]
    /\ readBy \in [Reqs -> {"none", "shell", Other} \cup Sends]
    /\ armed \in BOOLEAN /\ mistaken \in BOOLEAN
    /\ \A r \in Reqs : (owner = r \/ active = r) => pc[r] \notin {"idle", "asked", "done"}

\* A prompt that send types is read by the CLI it launched, or that CLI has
\* ended: never by the shell it has not left yet, by another launch or by a
\* program a person started first (send_with_wait's two waits and its checks).
PromptMeetsItsCli ==
    \A r \in Sends : readBy[r] \in {"none", r} \/ r \in ended

\* No session gets two launch lines, however the first attempt ended: "a failed
\* partial submission or a missing receipt does not launch again".
OneLaunchPerSession ==
    \A r, q \in Sends : typedIn[r] # 0 /\ typedIn[r] = typedIn[q] => r = q

\* At most one request works on the agent's terminal: whoever is past the
\* registration is the registered one, or was cancelled.
OneAtATime ==
    \A r \in Reqs : pc[r] \notin {"idle", "asked", "done"} => active = r \/ r \in cancelled

\* A session gets one launch line at most, and an agent one request at a time
\* (work_send.rs: attempted and active).
LaunchedOnce == OneLaunchPerSession /\ OneAtATime

\* Requests do not wait for ever, whatever the shell, the CLI and the person do:
\* again and again none is under way, and the agent is free for the next.
NoneWaits == active = NoOne /\ \A r \in Reqs : pc[r] \in {"idle", "asked", "done"}
RequestsEnd == []<>NoneWaits

\* The shell is never given a prompt (follow_up's comment: the CLI has ended
\* when the shell prompts, and a prompt is not run in a shell).
NoPromptInShell == \A r \in Reqs : readBy[r] # "shell"

\* What a person types is not counted as a bot's prompt (state.rs: the mark has
\* surely expired before a person is back).
PersonIsNoBot == ~mistaken
=============================================================================
