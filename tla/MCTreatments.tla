---------------------------- MODULE MCTreatments ----------------------------
(***************************************************************************)
(* A group of two, run together, and a treatment alone, each tried twice.  *)
(***************************************************************************)
EXTENDS Treatments

MCGroup == <<"pair", "pair", NoGroup>>
=============================================================================
