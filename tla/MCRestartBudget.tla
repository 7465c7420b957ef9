-------------------------- MODULE MCRestartBudget ---------------------------
(***************************************************************************)
(* Two stacks waiting at once, with a controlled pod each, and a           *)
(* replacement for the second's.                                           *)
(***************************************************************************)
EXTENDS RestartBudget

MCOwner == [u \in Uids |-> IF u = 1 THEN "a" ELSE "b"]
=============================================================================
