--------------------------- MODULE MCStepExecutor ---------------------------
(***************************************************************************)
(* Three stacks, two at a time.  A global and a per-stack step of one      *)
(* number (the run phase's harness namespace and FMA warm-up, both 2), and *)
(* a global step numbered between two per-stack ones.                      *)
(***************************************************************************)
EXTENDS StepExecutor

MCNumber == <<2, 2, 3, 4>>
MCPerStack == <<FALSE, TRUE, FALSE, TRUE>>
=============================================================================
