----------------------------- MODULE MCGadgetRun ------------------------------
(* Instances of GadgetRun for TLC; the configurations give every constant. *)
EXTENDS GadgetRun
=============================================================================
