-------------------------------- MODULE Replay --------------------------------
(***************************************************************************)
(* Playing recorded runs on the page of a session                          *)
(* (routes/sessions/[id]/+page.svelte, services/replay.service.ts) into    *)
(* the event buffer of the page.                                           *)
(*                                                                         *)
(* A load stops the playback, empties the instance of its run and fetches  *)
(* the recorded events; only then a player starts.  In between the user    *)
(* may do anything.  A player belongs to the visit of the page that began  *)
(* it and outlives it.  What an abort resolves runs as microtasks, after   *)
(* the handler that aborts and before the next task.                       *)
(***************************************************************************)
EXTENDS Naturals, Sequences

CONSTANTS
  Runs,        \* the runs of the session
  recorded,    \* run -> its recorded events, each "event" or "array"
  MaxLoads,    \* bounds what the user asks for
  MaxVisits    \* bounds visits of the page

ASSUME ReplayAssumption ==
  /\ recorded \in [Runs -> Seq({"event", "array"})]
  /\ MaxLoads \in Nat /\ MaxVisits \in Nat

VARIABLES
  visit, mounted,  \* the page is shown for the visit-th time
  instances,       \* run -> [running, shown]; of the runs with a replay instance
  snapshotTimes,   \* run -> how often each recorded array was stored
  activeRunId,     \* run or "none"
  loadedRuns, isPlaying,
  controller,      \* the load whose player stop() reaches, 0: none
  fetching,        \* loads that wait for their events: [id, run, mode, visit]
  players,         \* realtime players between two events: [id, run, pos, visit]
  eventBuffer,     \* of the gadget handler, flushed 25 ms later: how often it has each event
  loads,
  hasty, failed    \* history: see ReplayShowsRecording, ReplaysSettle

ofPage == <<visit, mounted, activeRunId, loadedRuns, isPlaying, controller>>
ofReplay == <<instances, snapshotTimes, fetching, players, eventBuffer, loads, hasty, failed>>
replayVars == <<ofPage, ofReplay>>

Events(r) == DOMAIN recorded[r]
Never(r) == [n \in Events(r) |-> 0]
Nothing == [r \in Runs |-> Never(r)]

ReplayInit ==
  /\ visit = 1 /\ mounted = TRUE
  /\ instances = <<>> /\ snapshotTimes = Nothing
  /\ activeRunId = "none" /\ loadedRuns = {} /\ isPlaying = FALSE /\ controller = 0
  /\ fetching = {} /\ players = {} /\ eventBuffer = Nothing
  /\ loads = 0 /\ hasty = FALSE /\ failed = {}

(***************************************************************************)
(* stop() aborts the last player that was started, no other.  An aborted   *)
(* player returns, and its play() completes like any other.                *)
(***************************************************************************)
Aborted == {p \in players : p.id = controller /\ p.visit = visit}

Completed(list, done) ==
  [r \in DOMAIN list |-> [list[r] EXCEPT !.running = @ /\ r \notin {p.run : p \in done}]]

\* A plausible slip: an aborted playback is not complete.
AbortSilently(list) ==
  /\ players' = players \ Aborted
  /\ instances' = list
  /\ isPlaying' = FALSE
  /\ loadedRuns' = loadedRuns \cup {p.run : p \in Aborted}

Abort(list) ==
  /\ players' = players \ Aborted
  /\ instances' = Completed(list, Aborted)
  /\ isPlaying' = FALSE
  /\ loadedRuns' = loadedRuns \cup {p.run : p \in Aborted}

\* Another plausible slip: results that are viewed again are not cleared.
EmptiedOnce(r, running) ==
  [running |-> running, shown |-> IF r \in DOMAIN instances THEN instances[r].shown ELSE Never(r)]
\* The instance of a run, new or emptied; its array snapshots stay.
Emptied(r, running) == [running |-> running, shown |-> Never(r)]

\* viewResults ("instant") and playbackRealtime ("realtime") up to the fetch.
loadRunData(r, mode) ==
  /\ mounted /\ loads < MaxLoads /\ loads' = loads + 1
  /\ hasty' = (hasty \/ fetching # {} \/ eventBuffer # Nothing \/ players # Aborted)
  /\ activeRunId' = r
  /\ LET some == recorded[r] # <<>>
     IN /\ Abort([x \in DOMAIN instances \cup {r} |->
                    IF x = r THEN Emptied(r, mode = "realtime" /\ some) ELSE instances[x]])
        /\ fetching' = IF some THEN fetching \cup {[id |-> loads + 1, run |-> r, mode |-> mode, visit |-> visit]}
                       ELSE fetching
  /\ UNCHANGED <<visit, mounted, snapshotTimes, controller, eventBuffer, failed>>

(***************************************************************************)
(* Emitting: events go to the buffer, arrays are stored at once, when the  *)
(* instance is there.                                                      *)
(***************************************************************************)
Counted(times, r, from, to, type) ==
  [times EXCEPT ![r] = [n \in Events(r) |->
     IF n \in from .. to /\ recorded[r][n] = type THEN @[n] + 1 ELSE @[n]]]

Emit(r, from, to) ==
  /\ eventBuffer' = Counted(eventBuffer, r, from, to, "event")
  /\ snapshotTimes' = IF r \in DOMAIN instances THEN Counted(snapshotTimes, r, from, to, "array")
                      ELSE snapshotTimes

\* onComplete, and what awaits play().
Complete(p, playing) ==
  /\ instances' = Completed(instances, {p})
  /\ isPlaying' = (playing /\ p.visit # visit)
  /\ loadedRuns' = IF p.visit = visit THEN loadedRuns \cup {p.run} ELSE loadedRuns

\* A player emits the next event and those that are due already, and sleeps
\* again or is complete.
PlayOn(p, others, playing) ==
  \E to \in p.pos + 1 .. Len(recorded[p.run]) :
    /\ Emit(p.run, p.pos + 1, to)
    /\ IF to = Len(recorded[p.run]) THEN players' = others /\ Complete(p, playing)
       ELSE /\ players' = others \cup {[p EXCEPT !.pos = to]}
            /\ isPlaying' = playing
            /\ UNCHANGED <<instances, loadedRuns>>

playInstant(load) ==
  /\ Emit(load.run, 1, Len(recorded[load.run]))
  /\ Complete(load, isPlaying)
  /\ UNCHANGED players

\* The events arrive: play() replaces the abort controller of its service.
play(load) ==
  /\ load \in fetching
  /\ fetching' = fetching \ {load}
  /\ controller' = IF load.visit = visit THEN load.id ELSE controller
  /\ \/ load.mode = "instant" /\ playInstant(load)
     \/ load.mode = "realtime" /\ PlayOn([id |-> load.id, run |-> load.run, pos |-> 0, visit |-> load.visit],
                                         players, isPlaying \/ load.visit = visit)
  /\ UNCHANGED <<visit, mounted, activeRunId, loads, hasty, failed>>

\* Nothing catches a fetch that fails: the instance stays as it is.
FetchFails(load) ==
  /\ load \in fetching
  /\ fetching' = fetching \ {load}
  /\ failed' = failed \cup {load.run}
  /\ UNCHANGED <<ofPage, instances, snapshotTimes, players, eventBuffer, loads, hasty>>

\* The sleep of playRealtime ends.
PlayerWakes(p) ==
  /\ p \in players
  /\ PlayOn(p, players \ {p}, isPlaying)
  /\ UNCHANGED <<visit, mounted, activeRunId, controller, fetching, loads, hasty, failed>>

Flush ==
  /\ eventBuffer # Nothing
  /\ eventBuffer' = Nothing
  /\ instances' = [r \in DOMAIN instances |->
       [instances[r] EXCEPT !.shown = [n \in Events(r) |-> @[n] + eventBuffer[r][n]]]]
  /\ UNCHANGED <<ofPage, snapshotTimes, fetching, players, loads, hasty, failed>>

stopPlayback ==
  /\ mounted /\ isPlaying
  /\ Abort(Completed(instances, {[run |-> activeRunId]}))
  /\ UNCHANGED <<visit, mounted, snapshotTimes, activeRunId, controller, fetching, eventBuffer, loads, hasty, failed>>

\* Leaving deletes the instances of the runs that were loaded to the end.
Unmount ==
  /\ mounted /\ mounted' = FALSE
  /\ Abort([r \in DOMAIN instances \ loadedRuns |-> instances[r]])
  /\ UNCHANGED <<visit, snapshotTimes, activeRunId, controller, fetching, eventBuffer, loads, hasty, failed>>

Mount ==
  /\ ~mounted /\ visit < MaxVisits
  /\ visit' = visit + 1 /\ mounted' = TRUE
  /\ activeRunId' = "none" /\ loadedRuns' = {} /\ isPlaying' = FALSE /\ controller' = 0
  /\ UNCHANGED ofReplay

ReplayNext ==
  \/ \E r \in Runs, mode \in {"instant", "realtime"} : loadRunData(r, mode)
  \/ \E load \in fetching : play(load) \/ FetchFails(load)
  \/ \E p \in players : PlayerWakes(p)
  \/ Flush \/ stopPlayback \/ Unmount \/ Mount

\* Requests are answered or fail, timers fire; the user need do nothing.
ReplayFairness ==
  /\ WF_replayVars(\E load \in fetching : play(load) \/ FetchFails(load))
  /\ WF_replayVars(\E p \in players : PlayerWakes(p))
  /\ WF_replayVars(Flush)

ReplaySpec == ReplayInit /\ [][ReplayNext]_replayVars /\ ReplayFairness

(***************************************************************************)
(* Properties.                                                             *)
(***************************************************************************)
StreamEvents(r) == {n \in Events(r) : recorded[r][n] = "event"}

\* However runs are viewed, played, stopped and left, an instance shows, or
\* is about to show, a beginning of its recording, each event once, up to its
\* player's position (sessions/[id]/+page.svelte:112-123).  Not once the user
\* was hasty: began a load while another waited for its events, within 25 ms
\* of an event, or with a player out of reach.  Arrays are not claimed: their
\* snapshots survive a second load.
ReplayShowsRecording ==
  ~hasty => \A r \in DOMAIN instances :
    \E k \in 0 .. Len(recorded[r]) :
      /\ \A n \in StreamEvents(r) : instances[r].shown[n] + eventBuffer[r][n] = IF n <= k THEN 1 ELSE 0
      /\ \A p \in players : p.run = r => k = p.pos
      /\ (\E load \in fetching : load.run = r) => k = 0

\* What makes it inductive: without haste there is one load or player at a time.
RunLoad == [id : Nat, run : Runs, mode : {"instant", "realtime"}, visit : Nat]
RunPlayer == [id : Nat, run : Runs, pos : Nat, visit : Nat]
ReplayTypeOK ==
  /\ visit \in Nat /\ mounted \in BOOLEAN
  /\ DOMAIN instances \subseteq Runs
  /\ \A r \in DOMAIN instances : instances[r] \in [running : BOOLEAN, shown : [Events(r) -> Nat]]
  /\ DOMAIN snapshotTimes = Runs /\ \A r \in Runs : snapshotTimes[r] \in [Events(r) -> Nat]
  /\ DOMAIN eventBuffer = Runs /\ \A r \in Runs : eventBuffer[r] \in [Events(r) -> Nat]
  /\ activeRunId \in Runs \cup {"none"}
  /\ loadedRuns \subseteq Runs /\ isPlaying \in BOOLEAN /\ controller \in Nat
  /\ fetching \subseteq RunLoad
  /\ players \subseteq RunPlayer /\ \A p \in players : p.pos < Len(recorded[p.run])
  /\ loads \in Nat /\ hasty \in BOOLEAN /\ failed \subseteq Runs

OneAtATime ==
  /\ \A a, b \in fetching : a = b
  /\ \A p, q \in players : p = q
  /\ fetching = {} \/ players = {}

ReplayInv == ReplayTypeOK /\ (~hasty => OneAtATime) /\ ReplayShowsRecording

\* When the user rests, nothing plays and no instance claims to run: players
\* that nobody can stop end as well (+page.svelte:139-144).  Except for a run
\* whose fetch failed, which runs for ever.
ReplaysSettle ==
  <>[](~isPlaying /\ \A r \in DOMAIN instances : instances[r].running => r \in failed)
=============================================================================
