------------------------------ MODULE RowSelection ------------------------------
(***************************************************************************)
(* Focus and selection in a table of live rows                             *)
(* (components/VirtualTable/VirtualTableBody.svelte).  The component knows *)
(* rows by their index and the length of the list when the index was       *)
(* taken: an index grows with the list, since rows come in above.          *)
(***************************************************************************)
EXTENDS Integers, Sequences, FiniteSets, SequencesExt

CONSTANTS
  Place,        \* how many rows the list can hold: the ring's capacity
  NumRows,      \* bounds the rows that come
  MaxChoices,   \* bounds what the user does
  PageSize      \* rows PageUp and PageDown go

ASSUME RowAssumption == Place \in Nat /\ PageSize \in Nat

VARIABLES
  items,             \* numbers of rows, the newest first
  arrivals,
  focus,             \* [index, itemsLength], index -1: none
  selectionEntries,  \* set of [index, itemsLength]
  selectionAnchor,   \* [index, itemsLength], index -1: none
  isDragging, dragStartIndex, dragCurrentIndex,
  dragListening,     \* handleDragMove and handleDragEnd listen to the document
  dragTimers,        \* how many timers will end the dragging
  choices,
  lost               \* history: rows went other ways than down, see LosesTrack

listVars == <<items, arrivals>>
chosenVars == <<focus, selectionEntries, selectionAnchor>>
dragVars == <<isDragging, dragStartIndex, dragCurrentIndex, dragListening, dragTimers>>
rowVars == <<listVars, chosenVars, dragVars, choices, lost>>

Rows == 0 .. Len(items) - 1
\* an index that was taken now
Taken(index) == [index |-> index, itemsLength |-> Len(items)]
NothingTaken == [index |-> -1, itemsLength |-> 0]

\* where the row of an entry is in the list of today; -1: nowhere
Moved(entry) == entry.index + Len(items) - entry.itemsLength
Adjusted(entry) == IF entry.index = -1 \/ Moved(entry) \notin Rows THEN -1 ELSE Moved(entry)
focusedIndex == Adjusted(focus)
anchorIndex == Adjusted(selectionAnchor)
selectedIndices == {Moved(e) : e \in selectionEntries} \cap Rows

RowInit ==
  /\ items = <<>> /\ arrivals = 0
  /\ focus = NothingTaken /\ selectionEntries = {} /\ selectionAnchor = NothingTaken
  /\ isDragging = FALSE /\ dragStartIndex = -1 /\ dragCurrentIndex = -1
  /\ dragListening = FALSE /\ dragTimers = 0
  /\ choices = 0 /\ lost = FALSE

-----------------------------------------------------------------------------
(* The list *)

\* n new rows; a list that is full loses as many below, and keeps its length.
Arrival(n) ==
  /\ arrivals + n <= NumRows /\ arrivals' = arrivals + n
  /\ items' = SubSeq([k \in 1 .. n |-> arrivals + n + 1 - k] \o items, 1,
                     IF Len(items) + n < Place THEN Len(items) + n ELSE Place)
  /\ lost' = (lost \/ Len(items) + n > Place \/ isDragging)
  /\ UNCHANGED <<chosenVars, dragVars, choices>>

\* A search, a new order, or another snapshot: some of the rows in any order.
Replacement ==
  /\ \E n \in 0 .. Len(items) : \E at \in Injection(1 .. n, DOMAIN items) :
       items' = [k \in 1 .. n |-> items[at[k]]]
  /\ items' # items
  /\ choices < MaxChoices /\ choices' = choices + 1
  /\ lost' = TRUE
  /\ UNCHANGED <<arrivals, chosenVars, dragVars>>

-----------------------------------------------------------------------------
(* Choosing *)

Choice == choices < MaxChoices /\ choices' = choices + 1 /\ UNCHANGED listVars

SetFocus(index) == focus' = IF index \in Rows THEN Taken(index) ELSE focus
\* A plausible slip: the anchor is taken anew without the length.
SetAnchorIndex(index) == selectionAnchor' = [selectionAnchor EXCEPT !.index = index]
SetAnchor(index) == selectionAnchor' = Taken(index)

LowHigh(i, j) == IF i <= j THEN i .. j ELSE j .. i
SelectRows(indices) == selectionEntries' = {Taken(i) : i \in indices}

selectSingle(index) == SelectRows({index}) /\ SetAnchor(index)

toggleSelection(index) ==
  /\ LET existing == {e \in selectionEntries : Moved(e) = index}
     IN selectionEntries' = IF existing # {} THEN selectionEntries \ existing
                            ELSE selectionEntries \cup {Taken(index)}
  /\ SetAnchor(index)

selectRange(target) ==
  LET anchor == IF anchorIndex >= 0 THEN anchorIndex ELSE IF focusedIndex >= 0 THEN focusedIndex ELSE 0
  IN SelectRows(LowHigh(anchor, target)) /\ UNCHANGED selectionAnchor

\* A row is clicked; a click that ends a drag is ignored.
handleRowClick(index, shift, ctrl) ==
  IF isDragging THEN UNCHANGED <<chosenVars, lost>>
  ELSE /\ IF shift THEN selectRange(index)
          ELSE IF ctrl THEN toggleSelection(index) ELSE selectSingle(index)
       /\ SetFocus(index)
       /\ lost' = (lost /\ (shift \/ ctrl))

\* With Ctrl, pressing the button does nothing and the click counts.
CtrlClick(index, shift) ==
  Choice /\ handleRowClick(index, shift, TRUE) /\ UNCHANGED dragVars

RightClick(index) ==
  /\ Choice /\ selectSingle(index) /\ SetFocus(index)
  /\ lost' = (lost /\ isDragging)
  /\ UNCHANGED dragVars

\* updateDragSelection, which replaces the selection in every reachable mode
DragSelection(start, current) ==
  SelectRows(LowHigh(start, current)) /\ SetAnchor(start) /\ SetFocus(current)

handleDragStart(index, shift) ==
  /\ Choice /\ ~dragListening
  /\ isDragging' = TRUE /\ dragListening' = TRUE
  /\ dragCurrentIndex' = index
  /\ dragStartIndex' = IF shift /\ anchorIndex >= 0 THEN anchorIndex ELSE index
  /\ DragSelection(dragStartIndex', index)
  /\ lost' = (lost /\ shift)
  /\ UNCHANGED dragTimers

handleDragMove(index) ==
  /\ Choice /\ dragListening
  /\ isDragging /\ index # dragCurrentIndex
  /\ dragCurrentIndex' = index
  /\ DragSelection(dragStartIndex, index)
  /\ UNCHANGED <<isDragging, dragStartIndex, dragListening, dragTimers, lost>>

\* The button is released, and the click of it follows in the same task, if it
\* is over the row it was pressed on.
handleDragEnd ==
  /\ dragListening /\ dragListening' = FALSE
  /\ dragTimers' = dragTimers + 1
  /\ \/ UNCHANGED <<chosenVars, lost>>
     \/ \E index \in Rows \cap {dragCurrentIndex}, shift \in BOOLEAN : handleRowClick(index, shift, FALSE)
  /\ UNCHANGED <<listVars, isDragging, dragStartIndex, dragCurrentIndex, choices>>

\* The timer of a drag that has ended may end the next.
DragTimer ==
  /\ dragTimers > 0 /\ dragTimers' = dragTimers - 1
  /\ isDragging' = FALSE
  /\ UNCHANGED <<listVars, chosenVars, dragStartIndex, dragCurrentIndex, dragListening, choices, lost>>

-----------------------------------------------------------------------------
(* The keyboard *)

Bottom == Len(items) - 1
Up(n)   == IF focusedIndex - n < 0 THEN 0 ELSE focusedIndex - n
Down(n) == IF focusedIndex < 0 THEN 0 ELSE IF focusedIndex + n > Bottom THEN Bottom ELSE focusedIndex + n
Targets == {Up(1), Down(1), Up(PageSize), Down(PageSize), 0, Bottom}

\* Without focus or anchor the range starts at -1, a row that is yet to come.
extendSelection(to) ==
  LET from == IF anchorIndex >= 0 THEN anchorIndex ELSE focusedIndex
  IN /\ SelectRows(LowHigh(from, to))
     /\ IF anchorIndex = -1 /\ focusedIndex >= 0 THEN SetAnchor(focusedIndex) ELSE UNCHANGED selectionAnchor
     /\ lost' = (lost \/ from = -1)

handleKeydown(shift) ==
  /\ Choice /\ items # <<>>
  /\ \E new \in Targets \ {focusedIndex} :
       /\ IF shift THEN extendSelection(new)
          ELSE selectSingle(new) /\ lost' = (lost /\ isDragging)
       /\ SetFocus(new)
  /\ UNCHANGED dragVars

Escape ==
  /\ Choice /\ items # <<>>
  /\ selectionEntries' = {}
  /\ UNCHANGED <<focus, selectionAnchor, dragVars, lost>>

CtrlA ==
  /\ Choice /\ items # <<>>
  /\ SelectRows(Rows)
  /\ UNCHANGED <<focus, selectionAnchor, dragVars, lost>>

-----------------------------------------------------------------------------
RowNext ==
  \/ \E n \in 1 .. 2 : Arrival(n)
  \/ Replacement
  \/ \E index \in Rows, shift \in BOOLEAN : CtrlClick(index, shift) \/ handleDragStart(index, shift)
  \/ \E index \in Rows : RightClick(index)
  \/ \E index \in Rows \cup {0} : handleDragMove(index)
  \/ handleDragEnd \/ DragTimer
  \/ \E shift \in BOOLEAN : handleKeydown(shift)
  \/ Escape \/ CtrlA

RowSpec == RowInit /\ [][RowNext]_rowVars

-----------------------------------------------------------------------------
Spot == [index : Int, itemsLength : Int]

RowTypeOK ==
  /\ arrivals \in Nat /\ items \in Seq(1 .. arrivals) /\ IsInjective(items)
  /\ focus \in Spot /\ selectionAnchor \in Spot /\ selectionEntries \subseteq Spot
  /\ isDragging \in BOOLEAN /\ dragStartIndex \in Int /\ dragCurrentIndex \in Int
  /\ dragListening \in BOOLEAN /\ dragTimers \in Nat
  /\ lost \in BOOLEAN

\* Until rows are lost track of, every entry is at a row of today's list.
Tracked ==
  ~lost => /\ \A e \in selectionEntries : Moved(e) \in Rows
           /\ \A e \in {focus, selectionAnchor} : e.index = -1 \/ Moved(e) \in Rows
           /\ isDragging => dragStartIndex \in Rows

RowInv == RowTypeOK /\ Tracked

RowAt(index) == IF index \in Rows THEN items[index + 1] ELSE 0

Promise == INSTANCE ItemSelection WITH
  Row <- 1 .. NumRows, NoRow <- 0, rows <- items,
  selected <- {RowAt(i) : i \in selectedIndices},
  anchor <- RowAt(anchorIndex), focused <- RowAt(focusedIndex),
  origin <- IF isDragging THEN RowAt(dragStartIndex) ELSE 0

\* The indices stick to their rows: rows that come in above, while ranges,
\* drags and toggles build on each other, change neither what is selected nor
\* where the next range starts (VirtualTableBody.svelte:134-178).  Nothing is
\* claimed after the list was replaced or full, after rows came during a drag,
\* or after a range without a start, until a row is chosen by itself.
SelectionSticks == Promise!SelectionOfItems
=============================================================================
