------------------------------- MODULE MCAutoRun -------------------------------
(***************************************************************************)
(* TLC instances of AutoRun: a root with one prerequisite; the root is run *)
(* last, or is a memo.                                                     *)
(***************************************************************************)
EXTENDS AutoRun, TLC

CONSTANTS t1, root

OneBefore == t1 :> {} @@ root :> {t1}
Panel == t1 :> 1 @@ root :> 2
=============================================================================
