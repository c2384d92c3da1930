------------------------- MODULE MCSessionLifecycle -------------------------
(***************************************************************************)
(* TLC instance of SessionLifecycle: a character with two session ids and  *)
(* a task chat with one, so that a session is replaced, handed off,        *)
(* adopted and handed off again.                                           *)
(***************************************************************************)
EXTENDS SessionLifecycle, TLC

CONSTANTS hero, chat, s1, s2, c1, none

MCAgents  == {hero, chat}
MCChats   == {chat}
MCSids    == {s1, s2, c1}
MCAgentOf == (s1 :> hero) @@ (s2 :> hero) @@ (c1 :> chat)
=============================================================================
