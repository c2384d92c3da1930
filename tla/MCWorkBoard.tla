------------------------------ MODULE MCWorkBoard ------------------------------
(***************************************************************************)
(* TLC instance of WorkBoard: two tasks that name each other as            *)
(* prerequisites, and requests about them.                                 *)
(***************************************************************************)
EXTENDS WorkBoard

CONSTANTS a, b

Add(i, t, after) == [kind |-> "add", id |-> i, text |-> t, after |-> after]
MCRequest ==
    <<Add(a, "one", {b}), Add(b, "one", {a}),
      [kind |-> "edit", id |-> b, text |-> "two", after |-> {a}],
      [kind |-> "delete", id |-> a, text |-> "two", after |-> {}]>>
MCFiles == DOMAIN MCRequest
=============================================================================
