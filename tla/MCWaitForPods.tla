---------------------------- MODULE MCWaitForPods ---------------------------
(***************************************************************************)
(* Two old pods and two new ones: enough for the old ones alone, or one of *)
(* each, to look like a finished rollout.                                  *)
(***************************************************************************)
EXTENDS WaitForPods
=============================================================================
