---------------------------- MODULE EventPipeline ----------------------------
(* What the frontend does with the messages of a gadget                        *)
(* (frontend/src/lib/handlers/gadget.handler.svelte.ts): the event buffer and  *)
(* its 25 ms flush, the data processors of plugins, the ring buffer, the       *)
(* counter and the array snapshots of an instance.                             *)
(*                                                                             *)
(* JavaScript runs one task at a time: a message, a timer.  A handler gives up *)
(* the thread at an await, and then everything else that is ready may run      *)
(* before it goes on.  What a processor answers with a settled promise is      *)
(* picked up before the next task, so only processors that really wait         *)
(* ("async") let messages and timers in between.                               *)
EXTENDS Integers, Sequences, SequencesExt, FiniteSetsExt

CONSTANTS Ids,         \* instance IDs
          Attached,    \* those whose receiver may outlive the quit message
          Capacity,    \* maxEventsPerGadget
          Processors,  \* "none", "sync" or "async": the pre-buffer processors
          CanFilter,   \* a processor may drop events
          MaxEmits,    \* synthetic events of one processor call
          MaxRows,     \* rows of one array message
          MaxEvents    \* bound: events and rows an instance is sent

ASSUME PipelineAssumption ==
  /\ Attached \subseteq Ids
  /\ Capacity \in Nat \ {0}
  /\ Processors \in {"none", "sync", "async"}
  /\ CanFilter \in BOOLEAN
  /\ MaxEmits \in Nat /\ MaxRows \in Nat /\ MaxEvents \in Nat

VARIABLES
  \* the instances object: IDs it has, running ones, the entry's fields
  shown, running, events, eventCount,
  snapshots,   \* arraySnapshotsStore
  \* EventBuffer: what is buffered, the timer, the flush in progress
  buffer, timer, flushing, groups, pushed, processing,
  \* array messages inside their processors, and the next batch ID
  pending, batchIdCounter,
  \* processor-state.service.ts: IDs with state, undrained synthetic events
  states, synthetic,
  \* onStart and onStop calls under way
  starting, stopping,
  \* history: IDs announced, events and rows received, IDs that quit, IDs
  \* whose cleanup has run, synthetic events minus dropped ones
  announced, received, quit, made

instVars  == <<shown, running, events, eventCount>>
flushVars == <<flushing, groups, pushed, processing>>
arrayVars == <<pending, batchIdCounter, snapshots>>
procVars  == <<states, synthetic, starting, stopping>>
msgVars  == <<announced, received, quit>>
vars == <<instVars, buffer, timer, flushVars, arrayVars, procVars, msgVars, made>>

\* An event is the number it arrived under; a row or a synthetic event is 0.
Zeros(k) == [r \in 1 .. k |-> 0]

\* a ring buffer (newest first) after pushing new, whose last is the oldest
PushAll(list, new) ==
  LET all == new \o list
  IN  SubSeq(all, 1, IF Len(all) < Capacity THEN Len(all) ELSE Capacity)

Init ==
  /\ shown = {} /\ running = {}
  /\ events = [i \in Ids |-> <<>>]
  /\ eventCount = [i \in Ids |-> 0]
  /\ snapshots = [i \in Ids |-> <<>>]
  /\ buffer = <<>> /\ timer = FALSE
  /\ flushing = FALSE /\ groups = <<>> /\ pushed = 0 /\ processing = FALSE
  /\ pending = {} /\ batchIdCounter = 0
  /\ states = {} /\ synthetic = [i \in Ids |-> 0]
  /\ starting = {} /\ stopping = {}
  /\ announced = {} /\ received = [i \in Ids |-> 0] /\ quit = {}
  /\ made = [i \in Ids |-> 0]

\* a task may start: nothing runs, or what runs waits for a processor
Task ==
  \/ Processors = "async"
  \/ ~flushing /\ pending = {} /\ starting = {} /\ stopping = {}

HasProcessors == Processors # "none"

\* what one processor call may do: set state, emit synthetic events
Keeps == IF HasProcessors THEN BOOLEAN ELSE {FALSE}
Emits == IF HasProcessors THEN 0 .. MaxEmits ELSE {0}
Kept(i, keep) == IF keep THEN states \cup {i} ELSE states

-----------------------------------------------------------------------------
(* Messages                                                                    *)

\* A gadget's messages come in the order they were sent: the info, then data;
\* data after the quit only from a receiver nobody waited for.
MaySend(i, n) ==
  /\ i \in announced
  /\ i \notin quit \/ i \in Attached
  /\ received[i] + n <= MaxEvents

handleGadgetInfo(i) ==
  /\ Task
  /\ i \notin announced
  /\ announced' = announced \cup {i}
  /\ shown' = shown \cup {i}
  /\ running' = running \cup {i}
  /\ starting' = IF HasProcessors THEN starting \cup {i} ELSE starting
  /\ states' = Kept(i, HasProcessors)
  /\ UNCHANGED <<events, eventCount, buffer, timer, flushVars, arrayVars,
                 synthetic, stopping, received, quit, made>>

\* initializeProcessors returns from onStart
Started(i) ==
  /\ i \in starting
  /\ starting' = starting \ {i}
  /\ \E keep \in Keeps, n \in Emits :
       /\ states' = Kept(i, keep)
       /\ synthetic' = [synthetic EXCEPT ![i] = @ + n]
  /\ UNCHANGED <<instVars, buffer, timer, flushVars, arrayVars, stopping,
                 msgVars, made>>

\* whether addEvent starts the timer
NeedsTimer == ~timer /\ ~flushing

handleGadgetEvent(i) ==
  /\ Task
  /\ MaySend(i, 1)
  /\ received' = [received EXCEPT ![i] = @ + 1]
  /\ buffer' = Append(buffer, [id |-> i, n |-> received[i] + 1])
  /\ timer' = (timer \/ NeedsTimer)
  /\ UNCHANGED <<instVars, flushVars, arrayVars, procVars, announced, quit, made>>

\* the cleanup at the end of a run: at once, or after the onStop calls
cleanupInstanceState(i) ==
  /\ states' = states \ {i}
  /\ synthetic' = [synthetic EXCEPT ![i] = 0]

handleGadgetQuit(i) ==
  /\ Task
  /\ i \in announced \ quit
  /\ quit' = quit \cup {i}
  /\ running' = running \ {i}
  /\ IF i \notin shown THEN UNCHANGED procVars
     ELSE IF HasProcessors
       THEN /\ stopping' = stopping \cup {i}
            /\ UNCHANGED <<states, synthetic, starting>>
       ELSE /\ cleanupInstanceState(i)
            /\ UNCHANGED <<starting, stopping>>
  /\ UNCHANGED <<shown, events, eventCount, buffer, timer, flushVars, arrayVars,
                 announced, received, made>>

\* cleanupProcessors returns from onStop
Stopped(i) ==
  /\ i \in stopping
  /\ stopping' = stopping \ {i}
  /\ cleanupInstanceState(i)
  /\ UNCHANGED <<instVars, buffer, timer, flushVars, arrayVars, starting, msgVars, made>>

\* the user closes the instance; nothing else of it is dropped
closeInstance(i) ==
  /\ Task
  /\ i \in shown
  /\ shown' = shown \ {i}
  /\ running' = running \ {i}
  /\ events' = [events EXCEPT ![i] = <<>>]
  /\ eventCount' = [eventCount EXCEPT ![i] = 0]
  /\ UNCHANGED <<buffer, timer, flushVars, arrayVars, procVars, msgVars, made>>

-----------------------------------------------------------------------------
(* The flush                                                                   *)

\* the buffered messages grouped by instance, in the order of the first ones
AddToGroups(gs, m) ==
  IF \E k \in 1 .. Len(gs) : gs[k].id = m.id
  THEN [k \in 1 .. Len(gs) |-> IF gs[k].id = m.id
                              THEN [gs[k] EXCEPT !.msgs = Append(@, m.n)]
                              ELSE gs[k]]
  ELSE Append(gs, [id |-> m.id, msgs |-> <<m.n>>])
GroupByInstance(msgs) ==
  LET grouped[k \in 0 .. Len(msgs)] == IF k = 0 THEN <<>> ELSE AddToGroups(grouped[k - 1], msgs[k])
  IN  grouped[Len(msgs)]

\* groups of instances that are gone are skipped when their turn comes
SkipClosed(gs) ==
  LET k == SelectInSeq(gs, LAMBDA g : g.id \in shown)
  IN  IF k = 0 THEN <<>> ELSE SubSeq(gs, k, Len(gs))

\* go on with these groups, or end the flush and schedule the next one
ContinueUnscheduled(gs, waiting) ==
  /\ groups' = gs
  /\ flushing' = (gs # <<>>)
  /\ processing' = (gs # <<>> /\ HasProcessors)
  /\ pushed' = 0
  /\ timer' = FALSE
ContinueCounting(gs, waiting) ==
  /\ groups' = gs
  /\ flushing' = (gs # <<>>)
  /\ processing' = (gs # <<>> /\ HasProcessors)
  /\ timer' = (gs = <<>> /\ waiting # <<>>)
  /\ UNCHANGED pushed
Continue(gs, waiting) ==
  /\ groups' = gs
  /\ flushing' = (gs # <<>>)
  /\ processing' = (gs # <<>> /\ HasProcessors)
  /\ pushed' = 0
  /\ timer' = (gs = <<>> /\ waiting # <<>>)

\* the 25 ms timer fires
KeepsBuffer == UNCHANGED buffer
TakesBuffer == buffer' = <<>>
flush ==
  /\ Task
  /\ timer
  /\ TakesBuffer
  /\ Continue(SkipClosed(GroupByInstance(buffer)), <<>>)
  /\ UNCHANGED <<instVars, arrayVars, procVars, msgVars, made>>

\* the event a flush is at: the batch is processed from its end
NextOf(msgs) == Last(msgs)

\* pushSyntheticEvents: how many there are to push for i, given n more
DrainedFor(i, n) == IF i \in shown THEN synthetic[i] + n ELSE 0
SyntheticLeft(i, n) ==
  [synthetic EXCEPT ![i] = IF i \in shown THEN 0 ELSE @ + n]

\* The processors are done with one event (runEventProcessors).  An instance
\* closed in the meantime still takes the event, into a buffer nobody sees, and
\* the rest of its batch is not processed any more.
EventProcessed ==
  /\ flushing
  /\ LET g == Head(groups)
         i == g.id
     IN  \E keep \in IF processing THEN Keeps ELSE {FALSE},
            n \in IF processing THEN Emits ELSE {0},
            passes \in IF processing /\ CanFilter THEN BOOLEAN ELSE {TRUE} :
           LET event == IF passes THEN <<NextOf(g.msgs)>> ELSE <<>>
               last  == Len(g.msgs) = 1
               drain == IF last THEN DrainedFor(i, n) ELSE 0
           IN  /\ states' = Kept(i, keep)
               /\ made' = [made EXCEPT ![i] = @ + drain + Len(event) - 1]
               /\ synthetic' = IF last THEN SyntheticLeft(i, n)
                               ELSE [synthetic EXCEPT ![i] = @ + n]
               /\ events' = [events EXCEPT ![i] = IF i \in shown
                                THEN PushAll(@, Zeros(drain) \o event) ELSE @]
               /\ IF last
                  THEN /\ eventCount' = [eventCount EXCEPT ![i] = IF i \in shown
                                THEN @ + pushed + Len(event) + drain ELSE @]
                       /\ Continue(SkipClosed(Tail(groups)), buffer)
                  ELSE /\ groups' = [groups EXCEPT ![1].msgs = Front(@)]
                       /\ pushed' = pushed + Len(event)
                       /\ processing' = (HasProcessors /\ i \in shown)
                       /\ UNCHANGED <<eventCount, flushing, timer>>
  /\ UNCHANGED <<shown, running, buffer, arrayVars, starting, stopping,
                 msgVars>>

-----------------------------------------------------------------------------
(* Array messages                                                              *)

handleGadgetArrayData(i, rows) ==
  /\ Task
  /\ MaySend(i, rows)
  /\ i \in shown
  /\ received' = [received EXCEPT ![i] = @ + rows]
  /\ batchIdCounter' = batchIdCounter + 1
  /\ pending' = pending \cup {[id |-> i, batch |-> batchIdCounter, rows |-> rows]}
  /\ UNCHANGED <<instVars, buffer, timer, flushVars, snapshots, procVars,
                 announced, quit, made>>

\* the new snapshot in front, cut before the total exceeds maxEvents
RowsUpTo(list, k) ==
  FoldLeft(LAMBDA total, snapshot : total + snapshot.rows, 0, SubSeq(list, 1, k))
Trimmed(list) ==
  LET over == {k \in 1 .. Len(list) : RowsUpTo(list, k) > Capacity}
  IN  IF over = {} THEN list ELSE SubSeq(list, 1, Min(over) - 1)

AddSnapshot(list, snapshot) == Trimmed(<<snapshot>> \o list)

\* the processors are done with one array (runBatchProcessors)
ArrayProcessed(b) ==
  /\ b \in pending
  /\ pending' = pending \ {b}
  /\ \E keep \in Keeps, n \in Emits,
        rows \in IF HasProcessors /\ CanFilter THEN 0 .. b.rows ELSE {b.rows} :
       LET i == b.id
           drain == DrainedFor(i, n)
       IN  /\ states' = Kept(i, keep)
           /\ made' = [made EXCEPT ![i] = @ + drain + rows - b.rows]
           /\ synthetic' = SyntheticLeft(i, n)
           /\ snapshots' = [snapshots EXCEPT ![i] = IF rows = 0 THEN @
                              ELSE AddSnapshot(@, [batch |-> b.batch, rows |-> rows])]
           /\ events' = [events EXCEPT ![i] = IF i \in shown
                              THEN PushAll(@, Zeros(drain + rows)) ELSE @]
           /\ eventCount' = [eventCount EXCEPT ![i] = IF i \in shown
                              THEN @ + rows + drain ELSE @]
  /\ UNCHANGED <<shown, running, buffer, timer, flushVars, batchIdCounter,
                 starting, stopping, msgVars>>

-----------------------------------------------------------------------------
Message ==
  \E i \in Ids :
    \/ handleGadgetInfo(i)
    \/ handleGadgetEvent(i)
    \/ \E rows \in 1 .. MaxRows : handleGadgetArrayData(i, rows)
    \/ handleGadgetQuit(i)

Processed ==
  \/ EventProcessed
  \/ \E b \in pending : ArrayProcessed(b)
  \/ \E i \in Ids : Started(i) \/ Stopped(i)

Next == Message \/ flush \/ Processed \/ (\E i \in Ids : closeInstance(i))

Spec == Init /\ [][Next]_vars

\* Timers fire and processors answer; nothing makes a gadget send.
FairSpec == Spec /\ WF_vars(flush) /\ WF_vars(EventProcessed)
                 /\ \A i \in Ids : WF_vars(Started(i)) /\ WF_vars(Stopped(i))
                 /\ WF_vars(\E b \in pending : ArrayProcessed(b))

-----------------------------------------------------------------------------
Numbers  == 0 .. MaxEvents
Messages == [id : Ids, n : Numbers]

TypeOK ==
  /\ shown \in SUBSET Ids /\ running \in SUBSET shown
  /\ events \in [Ids -> Seq(Numbers)]
  /\ \A i \in Ids : Len(events[i]) <= Capacity
  /\ eventCount \in [Ids -> Nat]
  /\ snapshots \in [Ids -> Seq([batch : Nat, rows : Nat])]
  /\ buffer \in Seq(Messages) /\ timer \in BOOLEAN
  /\ flushing \in BOOLEAN
  /\ groups \in Seq([id : Ids, msgs : Seq(Numbers)])
  /\ pushed \in Nat /\ processing \in BOOLEAN
  /\ pending \in SUBSET [id : Ids, batch : Nat, rows : Nat]
  /\ batchIdCounter \in Nat
  /\ states \in SUBSET Ids /\ synthetic \in [Ids -> Nat]
  /\ starting \in SUBSET Ids /\ stopping \in SUBSET Ids
  /\ announced \in SUBSET Ids /\ quit \in SUBSET Ids
  /\ received \in [Ids -> Nat] /\ made \in [Ids -> Int]

\* Buffered events always have a flush coming: the timer, or the end of the
\* flush in progress; and no timer is set during a flush, so no second flush
\* overlaps it (gadget.handler.svelte.ts:258-265, 272-330).
FlushScheduled ==
  /\ buffer # <<>> => timer \/ flushing
  /\ ~(timer /\ flushing)

\* singles of i in a sequence of messages, of groups, of ring items
BufferedOf(i) == {m.n : m \in {x \in ToSet(buffer) : x.id = i}}
GroupedOf(i)  == UNION {ToSet(g.msgs) : g \in {x \in ToSet(groups) : x.id = i}}
StoredOf(i)   == ToSet(events[i]) \ {0}

\* However flushes, arrays and closes interleave, no event is processed twice
\* and none overtakes one of an earlier batch: what is buffered came after what
\* is being flushed or stored, and the three share nothing
\* (gadget.handler.svelte.ts:276-290).
FlushOrder ==
  \A i \in Ids :
    /\ \A later \in BufferedOf(i), earlier \in GroupedOf(i) \cup StoredOf(i) : earlier < later
    /\ GroupedOf(i) \cap StoredOf(i) = {}
    /\ \A j, k \in 1 .. Len(events[i]) :
         j # k /\ events[i][j] = events[i][k] => events[i][j] = 0

\* pushed but not yet counted: the batch the flush is at
Uncounted(i) == IF flushing /\ Head(groups).id = i THEN pushed ELSE 0

\* Nothing an instance received is lost on its way to the ring buffer or
\* counted twice: what processors did not drop is counted, with the synthetic
\* events they added, or is buffered, in the flush or with a processor.  The
\* counter a tab shows and the ring tell of the same events between all awaits
\* (gadget.handler.svelte.ts:258-330, 458-525).
PendingRowsOf(i) == {row \in pending \X (1 .. MaxRows) : row[1].id = i /\ row[2] <= row[1].rows}
Waiting(i) == Cardinality(BufferedOf(i)) + Cardinality(GroupedOf(i)) + Cardinality(PendingRowsOf(i))
EverythingCounted ==
  \A i \in shown :
    /\ received[i] + made[i] = eventCount[i] + Uncounted(i) + Waiting(i)
    /\ Len(events[i]) = Min({Capacity, eventCount[i] + Uncounted(i)})

\* What makes the two inductive: a flush has groups, one per instance and each
\* in order; the buffer is in order; numbers are numbers of received events;
\* nothing of an instance is there before it is announced; pending batches
\* differ.
Increasing(msgs) == \A j, k \in DOMAIN msgs : j < k => msgs[j] < msgs[k]
InOrder(msgs) == \A j, k \in DOMAIN msgs : j < k /\ msgs[j].id = msgs[k].id => msgs[j].n < msgs[k].n
OneEach(gs) ==
  /\ \A j, k \in DOMAIN gs : gs[j].id = gs[k].id => j = k
  /\ \A k \in DOMAIN gs : gs[k].msgs # <<>> /\ Increasing(gs[k].msgs)
GroupsInv == (flushing <=> groups # <<>>) /\ OneEach(groups)
NumbersInv == \A i \in Ids : BufferedOf(i) \cup GroupedOf(i) \cup StoredOf(i) \subseteq 1 .. received[i]
AnnouncedInv ==
  /\ shown \subseteq announced
  /\ \A b \in pending : b.id \in announced
  /\ \A i \in Ids \ announced : received[i] = 0 /\ made[i] = 0 /\ eventCount[i] = 0 /\ events[i] = <<>>
PendingInv ==
  /\ IsFiniteSet(pending)
  /\ \A b \in pending : b.batch < batchIdCounter /\ b.rows \in 1 .. MaxRows

PipelineInv ==
  /\ TypeOK /\ FlushScheduled
  /\ GroupsInv /\ InOrder(buffer) /\ NumbersInv /\ AnnouncedInv /\ PendingInv
  /\ FlushOrder /\ EverythingCounted

\* Whatever is buffered or inside a flush gets to its ring buffer: a flush that
\* finds new events when it ends schedules the next one
\* (gadget.handler.svelte.ts:322-329).
EventsSettle ==
  \A i \in Ids : BufferedOf(i) \cup GroupedOf(i) # {} ~>
                  BufferedOf(i) \cup GroupedOf(i) = {}
=============================================================================
