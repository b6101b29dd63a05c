---------------------------- MODULE MCEventPipeline ----------------------------
(* Instances of EventPipeline for TLC; the configurations give every constant. *)
EXTENDS EventPipeline
=============================================================================
