---------------------------- MODULE MCSessionStore ----------------------------
(* Instances of SessionStore for TLC. *)
EXTENDS SessionStore

AllFaults == FaultPoints
FaultsButFinalize == FaultPoints \ {"finalize"}
NoFaults == {}
IndexFaults == {"indexUpdate"}
=============================================================================
