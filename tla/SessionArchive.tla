---------------------------- MODULE SessionArchive ----------------------------
(***************************************************************************)
(* What recording promises to whoever replays a session, without files,    *)
(* connections, statements or locks: sessions that are created once and    *)
(* deleted for good, and in them runs that collect events while they are   *)
(* live, are summed up at most once and are never touched again.           *)
(***************************************************************************)
EXTENDS Naturals

CONSTANTS Sessions, Instances, NoSession

VARIABLES
  sessions,  \* the sessions that exist
  past,      \* session IDs that can never name a new session
  run,       \* none, begun (no final count), finished, deleted
  where,     \* the session a run belongs to
  live,      \* the runs whose events are being recorded
  events,    \* how many events a run holds
  count      \* the final count of a finished run

vars == <<sessions, past, run, where, live, events, count>>

Init ==
  /\ sessions = {}
  /\ past = {}
  /\ run = [i \in Instances |-> "none"]
  /\ where = [i \in Instances |-> NoSession]
  /\ live = {}
  /\ events = [i \in Instances |-> 0]
  /\ count = [i \in Instances |-> 0]

\* A new session, or an ID wasted on a failed creation.
Create(s) ==
  /\ s \notin past
  /\ past' = past \cup {s}
  /\ sessions' \in {sessions, sessions \cup {s}}
  /\ UNCHANGED <<run, where, live, events, count>>

Begin(i, s) ==
  /\ run[i] = "none"
  /\ s \in sessions
  /\ run' = [run EXCEPT ![i] = "begun"]
  /\ where' = [where EXCEPT ![i] = s]
  /\ UNCHANGED <<sessions, past, live, events, count>>

GoLive(i) ==
  /\ run[i] = "begun"
  /\ events[i] = 0
  /\ live' = live \cup {i}
  /\ UNCHANGED <<sessions, past, run, where, events, count>>

Record(i) ==
  /\ i \in live
  /\ events' = [events EXCEPT ![i] = @ + 1]
  /\ UNCHANGED <<sessions, past, run, where, live, count>>

Finish(i, n) ==
  /\ i \in live
  /\ run[i] = "begun"
  /\ n <= events[i]
  /\ run' = [run EXCEPT ![i] = "finished"]
  /\ count' = [count EXCEPT ![i] = n]
  /\ UNCHANGED <<sessions, past, where, live, events>>

\* The run is over, or the process is.
Leave(gone) ==
  /\ live' = live \ gone
  /\ UNCHANGED <<sessions, past, run, where, events, count>>

Delete(s) ==
  /\ s \in sessions
  /\ \A i \in live : where[i] # s
  /\ sessions' = sessions \ {s}
  /\ run' = [i \in Instances |->
               IF where[i] = s /\ run[i] # "none" THEN "deleted" ELSE run[i]]
  /\ UNCHANGED <<past, where, live, events, count>>

Next ==
  \/ \E s \in Sessions : Create(s) \/ Delete(s)
  \/ \E i \in Instances, s \in Sessions : Begin(i, s)
  \/ \E i \in Instances : GoLive(i) \/ Record(i) \/ \E n \in 0..events[i] : Finish(i, n)
  \/ \E gone \in SUBSET Instances : Leave(gone)

Spec == Init /\ [][Next]_vars
=============================================================================
