----------------------------- MODULE RunProtocol ------------------------------
(***************************************************************************)
(* What a client and the session recorder may rely on, whatever the number *)
(* of nodes a gadget runs on (abstract specification of GadgetRun).        *)
(*                                                                         *)
(* A run is announced once (GadgetInfo), then delivers data events, then   *)
(* stops once (GadgetStop). Nothing follows the stop, except from a run    *)
(* one of whose receivers was abandoned: its connection is closed, but     *)
(* what the receiver has in hand still gets through.                       *)
(***************************************************************************)
EXTENDS Naturals

CONSTANT Runs

VARIABLES
  announced,  \* runs whose GadgetInfo was sent
  sent,       \* the number of data events sent for each run
  stopped,    \* runs whose GadgetStop was sent
  abandoned   \* runs with an abandoned receiver

pvars == <<announced, sent, stopped, abandoned>>

PInit ==
  /\ announced = {}
  /\ sent = [r \in Runs |-> 0]
  /\ stopped = {}
  /\ abandoned = {}

Alive(r) == r \notin stopped \/ r \in abandoned

Announce(r) ==
  /\ r \notin announced
  /\ Alive(r)
  /\ announced' = announced \cup {r}
  /\ UNCHANGED <<sent, stopped, abandoned>>

Deliver(r) ==
  /\ r \in announced
  /\ Alive(r)
  /\ sent' = [sent EXCEPT ![r] = @ + 1]
  /\ UNCHANGED <<announced, stopped, abandoned>>

\* only a run that has not stopped can lose sight of a receiver
Abandon(r) ==
  /\ r \notin stopped
  /\ abandoned' = abandoned \cup {r}
  /\ UNCHANGED <<announced, sent, stopped>>

Stop(r) ==
  /\ r \notin stopped
  /\ stopped' = stopped \cup {r}
  /\ UNCHANGED <<announced, sent, abandoned>>

PNext == \E r \in Runs : Announce(r) \/ Deliver(r) \/ Abandon(r) \/ Stop(r)

PSpec == PInit /\ [][PNext]_pvars
=============================================================================
