--------------------------- MODULE SnapshotSelection ---------------------------
(***************************************************************************)
(* Which snapshots of an array data source a page shows.  Snapshots arrive *)
(* newest first, so every arrival moves the ones before it by one index,   *)
(* and the oldest leave when the page's limit of entries is exceeded.  The *)
(* view keeps indices and, once the user has chosen something other than   *)
(* the latest, also the batch numbers of what was chosen                   *)
(* (components/Gadget/DatasourceView.svelte, SnapshotTimeline.svelte).     *)
(*                                                                         *)
(* The effects of a change run before the next event of the page, so they  *)
(* are part of the action that makes the change.                           *)
(***************************************************************************)
EXTENDS Naturals, Sequences, FiniteSets, SequencesExt

CONSTANTS
  maxEvents,   \* getMaxEvents(): entries kept in all snapshots together
  Sizes,       \* how many rows an array may have
  Batches,     \* bounds batchIdCounter
  Tabs,        \* the visualizers of the data source
  null         \* no value

ASSUME SelectionAssumption ==
  /\ maxEvents \in Nat \ {0}
  /\ Sizes \subseteq Nat \ {0}
  /\ Batches \subseteq Nat
  /\ null \notin [start : Nat, current : Nat]

VARIABLES
  snapshots,       \* sequence of [batchId, size], newest first; index 0 is snapshots[1]
  batchIdCounter,  \* batches that have arrived, in any order of their processing
  selectedSnapshotIndices,
  lastSelectedIndex,
  isPinned,
  pinnedBatchIds,
  activeTab,
  focusIndex,      \* of the timeline, the end the arrow keys move
  drag             \* null or [start, current]

SelectionTypeOK ==
  /\ snapshots \in Seq([batchId : Batches, size : Sizes])
  /\ batchIdCounter \subseteq Batches
  /\ selectedSnapshotIndices \subseteq Nat /\ lastSelectedIndex \in Nat
  /\ isPinned \in BOOLEAN /\ pinnedBatchIds \subseteq Batches
  /\ activeTab \in Tabs
  /\ focusIndex \in Nat /\ drag \in [start : Nat, current : Nat] \cup {null}

chosen == <<selectedSnapshotIndices, lastSelectedIndex, isPinned, pinnedBatchIds>>
timeline == <<focusIndex, drag>>
selectionVars == <<snapshots, batchIdCounter, chosen, activeTab, timeline>>

(***************************************************************************)
(* Derived state.                                                          *)
(***************************************************************************)
Indices == 0 .. Len(snapshots) - 1
BatchesAt(list, indices) == {list[i + 1].batchId : i \in {j \in indices : j < Len(list)}}

\* The rows of a snapshot; a row is the batch it came with and its position.
Data(snapshot) == [n \in 1 .. snapshot.size |-> <<snapshot.batchId, n>>]

\* The rows of the selected snapshots, oldest snapshot first.
Part(list, indices, n) ==
  IF Len(list) - n \in indices THEN Data(list[Len(list) - n + 1]) ELSE <<>>
mergedData(list, indices) ==
  LET merged[n \in 0 .. Len(list)] ==
        IF n = 0 THEN <<>> ELSE merged[n - 1] \o Part(list, indices, n)
  IN  merged[Len(list)]

\* undefined tells the visualizers to read the ring buffer.
snapshotEvents ==
  IF snapshots = <<>> THEN null ELSE mergedData(snapshots, selectedSnapshotIndices)

TimelineTabs == {"table", "flamegraph", "histogram"}
TimelineShown == activeTab \in TimelineTabs /\ Len(snapshots) > 1

(***************************************************************************)
(* The two effects of DatasourceView: find the pinned batches again, then  *)
(* drop indices that are out of bounds.                                    *)
(***************************************************************************)
Refound(list, indices, pinned, batches) ==
  LET found == {i \in 0 .. Len(list) - 1 : list[i + 1].batchId \in batches}
  IN IF pinned /\ found # {} THEN found ELSE indices

\* A plausible slip: when nothing is left, nothing is selected.
InBoundsOnly(list, indices) == IF list = <<>> THEN indices ELSE {i \in indices : i < Len(list)}

\* The valid indices, or the latest when none is valid, are assigned only if
\* they are more or fewer than the selected ones: a lone index stays.
Alone(indices) == \E i \in indices : indices = {i}
InBounds(list, indices) ==
  LET valid == {i \in indices : i < Len(list)}
  IN IF list = <<>> \/ (valid = {} /\ Alone(indices)) THEN indices
     ELSE IF valid = {} THEN {0} ELSE valid

\* A plausible slip: trust the indices as long as they are in bounds.
SettleByIndex(indices, focus, dragged) ==
  /\ selectedSnapshotIndices' = InBounds(snapshots', indices)
  /\ focusIndex' = IF ~TimelineShown' THEN 0
                   ELSE IF focus >= Len(snapshots') THEN Len(snapshots') - 1 ELSE focus
  /\ drag' = IF TimelineShown' THEN dragged ELSE null

\* Effects in the state a step leads to; what the timeline keeps is gone
\* when it is not rendered, and starts anew when it is rendered again.
Settle(indices, focus, dragged) ==
  /\ selectedSnapshotIndices' = InBounds(snapshots', Refound(snapshots', indices, isPinned', pinnedBatchIds'))
  /\ focusIndex' = IF ~TimelineShown' THEN 0
                   ELSE IF focus >= Len(snapshots') THEN Len(snapshots') - 1 ELSE focus
  /\ drag' = IF TimelineShown' THEN dragged ELSE null

SelectionInit ==
  /\ snapshots = <<>> /\ batchIdCounter = {}
  /\ selectedSnapshotIndices = {0} /\ lastSelectedIndex = 0
  /\ isPinned = FALSE /\ pinnedBatchIds = {}
  /\ activeTab \in Tabs
  /\ focusIndex = 0 /\ drag = null

(***************************************************************************)
(* An array is stored when its processors have answered.  The list is cut  *)
(* at the first snapshot that exceeds the limit; no array is empty, so the   *)
(* ones within it are a prefix.                                            *)
(***************************************************************************)
Entries(list, n) == FoldLeft(LAMBDA total, s : total + s.size, 0, SubSeq(list, 1, n))
Trim(list) == SubSeq(list, 1, Cardinality({n \in DOMAIN list : Entries(list, n) <= maxEvents}))

SnapshotArrives(b, size) ==
  /\ b \in Batches \ batchIdCounter
  /\ batchIdCounter' = batchIdCounter \cup {b}
  /\ snapshots' = Trim(<<[batchId |-> b, size |-> size]>> \o snapshots)
  /\ UNCHANGED <<lastSelectedIndex, isPinned, pinnedBatchIds, activeTab>>
  /\ Settle(selectedSnapshotIndices, focusIndex, drag)

setTab(tab) ==
  /\ tab # activeTab
  /\ activeTab' = tab
  /\ UNCHANGED <<snapshots, batchIdCounter, lastSelectedIndex, isPinned, pinnedBatchIds>>
  /\ Settle(selectedSnapshotIndices, focusIndex, drag)

(***************************************************************************)
(* Choosing.  A choice of exactly the latest follows new snapshots, any    *)
(* other choice is pinned.                                                 *)
(***************************************************************************)
Pin(indices) ==
  /\ isPinned' = (indices # {0})
  /\ pinnedBatchIds' = IF indices = {0} THEN {} ELSE BatchesAt(snapshots, indices)

Choose(indices, last, focus, dragged) ==
  /\ Pin(indices)
  /\ lastSelectedIndex' = last
  /\ UNCHANGED <<snapshots, batchIdCounter, activeTab>>
  /\ Settle(indices, focus, dragged)

Between(i, j) == IF i <= j THEN i .. j ELSE j .. i
Toggled(index) ==
  CASE index \notin selectedSnapshotIndices -> selectedSnapshotIndices \cup {index}
    [] index \in selectedSnapshotIndices /\ Cardinality(selectedSnapshotIndices) > 1
         -> selectedSnapshotIndices \ {index}
    [] OTHER -> selectedSnapshotIndices

\* onSelect of the timeline, with the modifier of the click or key.
selectSnapshot(index, modifier, dragged) ==
  CASE modifier = "shift" -> Choose(Between(lastSelectedIndex, index), lastSelectedIndex, index, dragged)
    [] modifier = "ctrl" -> Choose(Toggled(index), index, index, dragged)
    [] modifier = "none" -> Choose({index}, index, index, dragged)

Modifiers == {"none", "ctrl", "shift"}

handleMouseDown(index) ==
  /\ TimelineShown /\ drag = null
  /\ drag' = [start |-> index, current |-> index]
  /\ UNCHANGED <<snapshots, batchIdCounter, chosen, activeTab, focusIndex>>

handleMouseMove(index) ==
  /\ drag # null /\ drag.current # index
  /\ drag' = [drag EXCEPT !.current = index]
  /\ UNCHANGED <<snapshots, batchIdCounter, chosen, activeTab, focusIndex>>

\* A drag over several is selectRange; the indices are those of the moment
\* of mouse down and of the last move.
handleMouseUp(modifier) ==
  /\ drag # null
  /\ \/ drag.start = drag.current /\ selectSnapshot(drag.start, modifier, null)
     \/ /\ drag.start # drag.current
        /\ LET range == Between(drag.start, drag.current)
               end == IF drag.start < drag.current THEN drag.current ELSE drag.start
           IN Choose(range, end, drag.current, null)

handleMouseLeave ==
  /\ drag # null
  /\ drag' = null
  /\ UNCHANGED <<snapshots, batchIdCounter, chosen, activeTab, focusIndex>>

\* The arrow keys move the focus by one; Home and End go to the ends.
KeyTarget(key) ==
  CASE key = "ArrowLeft" -> IF focusIndex + 1 < Len(snapshots) THEN focusIndex + 1 ELSE Len(snapshots) - 1
    [] key = "ArrowRight" -> IF focusIndex > 0 THEN focusIndex - 1 ELSE 0
    [] key = "Home" -> 0
    [] key = "End" -> Len(snapshots) - 1

handleContainerKeydown(key, modifier) ==
  /\ TimelineShown
  /\ key \in {"ArrowLeft", "ArrowRight"} => KeyTarget(key) # focusIndex
  /\ selectSnapshot(KeyTarget(key), modifier, drag)

\* Ctrl+A or the button; it keeps the anchor and always pins.
selectAll ==
  /\ TimelineShown
  /\ isPinned' = TRUE
  /\ pinnedBatchIds' = BatchesAt(snapshots, Indices)
  /\ UNCHANGED <<snapshots, batchIdCounter, lastSelectedIndex, activeTab>>
  /\ Settle(Indices, focusIndex, drag)

\* The buttons below the timeline do not move its focus.  To press one the
\* mouse leaves the timeline, which ends a drag.
Step(index) ==
  /\ Cardinality(selectedSnapshotIndices) = 1
  /\ Choose({index}, index, focusIndex, drag)
goToNewerSnapshot ==
  /\ TimelineShown /\ drag = null
  /\ \E i \in selectedSnapshotIndices : i > 0 /\ Step(i - 1)
goToOlderSnapshot ==
  /\ TimelineShown /\ drag = null
  /\ \E i \in selectedSnapshotIndices : i < Len(snapshots) - 1 /\ Step(i + 1)
goToLatest ==
  /\ TimelineShown /\ drag = null
  /\ isPinned
  /\ Choose({0}, 0, focusIndex, drag)

SelectionNext ==
  \/ \E b \in Batches, size \in Sizes : SnapshotArrives(b, size)
  \/ \E tab \in Tabs : setTab(tab)
  \/ \E i \in Indices : handleMouseDown(i) \/ handleMouseMove(i)
  \/ \E modifier \in Modifiers :
       \/ handleMouseUp(modifier)
       \/ \E key \in {"ArrowLeft", "ArrowRight", "Home", "End"} : handleContainerKeydown(key, modifier)
  \/ handleMouseLeave \/ selectAll
  \/ goToNewerSnapshot \/ goToOlderSnapshot \/ goToLatest

SelectionSpec == SelectionInit /\ [][SelectionNext]_selectionVars

(***************************************************************************)
(* Properties.                                                             *)
(***************************************************************************)
Present == BatchesAt(snapshots, Indices)

\* While any of the pinned batches is kept, the view selects exactly those of
\* them that are kept; a view that is not pinned selects the latest
\* (DatasourceView.svelte:131-168), whatever arrived, was evicted or chosen
\* with indices that had moved.  Only a pinned view of a single snapshot that has
\* been evicted may have its index out of bounds.
LoneEvicted == isPinned /\ pinnedBatchIds \cap Present = {} /\ Alone(selectedSnapshotIndices)
PinnedBatchesSelected ==
  /\ isPinned /\ pinnedBatchIds \cap Present # {} =>
       BatchesAt(snapshots, selectedSnapshotIndices) = pinnedBatchIds \cap Present
  /\ ~isPinned => selectedSnapshotIndices = {0}
  /\ snapshots # <<>> =>
       /\ selectedSnapshotIndices # {}
       /\ selectedSnapshotIndices \subseteq Indices \/ LoneEvicted

\* An arrival changes what a pinned view shows only by taking away, from its
\* front, the rows of evicted batches: no row changes its place, none of the new
\* batch slips in (the merge of DatasourceView.svelte:172-198 over indices that
\* have moved).
WithoutEvicted(rows, left, batches) ==
  \E n \in 0 .. Len(rows) :
    /\ left = SubSeq(rows, n + 1, Len(rows))
    /\ \A k \in 1 .. Len(rows) : rows[k][1] \in batches <=> k > n
ArrivalKeepsRows ==
  [][ (snapshots' # snapshots /\ isPinned /\ pinnedBatchIds \cap Present' # {}
        /\ snapshotEvents # null) =>
      WithoutEvicted(snapshotEvents, snapshotEvents', Present') ]_selectionVars
=============================================================================
