---------------------------- MODULE MCExperiment ----------------------------
(***************************************************************************)
(* Three setup treatments: one to fail, one after it, and one more.        *)
(***************************************************************************)
EXTENDS Experiment
=============================================================================
