----------------------------- MODULE MCConnection -----------------------------
(* Instances of Connection for TLC.                                            *)
EXTENDS Connection, TLC

CONSTANTS c1, c2

\* c1 does all of it, c2 is a socket that opens and may break
OneAsks == c1 :> 1 @@ c2 :> 0
NobodyAsks == c1 :> 0 @@ c2 :> 0
OneSends == c1 :> 1 @@ c2 :> 0
=============================================================================
