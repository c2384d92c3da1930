----------------------------- MODULE AgentSession -----------------------------
(***************************************************************************)
(* What SessionManager promises for one app run, with the locks, threads   *)
(* and tables left out: an agent has at most one live session and it is    *)
(* the current one ("1 agent, 1 session", manager.rs, create_with_profile).*)
(* A session is live until somebody asks for its end (dispose) or gives it *)
(* away (handoff), then doomed, then over; it is never reborn.             *)
(***************************************************************************)
CONSTANTS Agents, Sids, NoSid, AgentOf

ConstantsFit == NoSid \notin Sids /\ AgentOf \in [Sids -> Agents]

VARIABLES current,   \* agent -> the session input and dispose reach
          life       \* sid -> "unborn", "live", "doomed", "over"

vars == <<current, life>>

Init ==
    /\ current = [a \in Agents |-> NoSid]
    /\ life    = [s \in Sids |-> "unborn"]

\* A session starts only where no session is current.
Open(s) ==
    /\ life[s] = "unborn"
    /\ current[AgentOf[s]] = NoSid
    /\ life'    = [life EXCEPT ![s] = "live"]
    /\ current' = [current EXCEPT ![AgentOf[s]] = s]

Doom(s) ==
    /\ life[s] = "live"
    /\ life' = [life EXCEPT ![s] = "doomed"]
    /\ UNCHANGED current

End(s) ==
    /\ life[s] \in {"live", "doomed"}
    /\ life' = [life EXCEPT ![s] = "over"]
    /\ UNCHANGED current

\* An agent loses its current session only if that one is not live.
Vacate(a) ==
    /\ current[a] # NoSid
    /\ life[current[a]] # "live"
    /\ current' = [current EXCEPT ![a] = NoSid]
    /\ UNCHANGED life

\* The app process starts over.
Restart ==
    /\ current' = [a \in Agents |-> NoSid]
    /\ life'    = [s \in Sids |-> "unborn"]

Next ==
    \/ \E s \in Sids : Open(s) \/ Doom(s) \/ End(s)
    \/ \E a \in Agents : Vacate(a)
    \/ Restart

Spec == Init /\ [][Next]_vars

TypeOK ==
    /\ current \in [Agents -> Sids \cup {NoSid}]
    /\ life    \in [Sids -> {"unborn", "live", "doomed", "over"}]

\* The promise: a live session is its agent's current one, hence the only one.
LiveIsCurrent == \A s \in Sids : life[s] = "live" => current[AgentOf[s]] = s
=============================================================================
