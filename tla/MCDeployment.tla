----------------------------- MODULE MCDeployment -----------------------------
(* Instances of Deployment for TLC; the configurations give the other          *)
(* constants.                                                                  *)
EXTENDS Deployment, TLC

CONSTANTS d1, d2

\* one deployment of any kind, slow (d1) or not (d2), or two removals at the same
\* time
OneOrTwo ==
  { d1 :> k @@ d2 :> "unused" : k \in Kinds }
  \cup { d1 :> "unused" @@ d2 :> k : k \in Kinds }
  \cup { [d \in {d1, d2} |-> "undeploy"] }
=============================================================================
