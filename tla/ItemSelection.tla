----------------------------- MODULE ItemSelection -----------------------------
(***************************************************************************)
(* What selecting rows of a live table promises: the user chooses rows,    *)
(* not places.  Rows that come in above move what is chosen, they do not   *)
(* change it (components/VirtualTable/VirtualTableBody.svelte:134-136).    *)
(***************************************************************************)
EXTENDS Naturals, Sequences

CONSTANTS Row, NoRow

VARIABLES
  rows,       \* what the table shows, from the top
  selected,   \* set of rows
  anchor,     \* where ranges start, or NoRow
  focused,    \* the row with the keyboard, or NoRow
  origin,     \* where the drag under way started, or NoRow
  lost        \* nothing is promised until a row is chosen by itself

chosen == <<selected, anchor, focused>>

Shown == {rows[n] : n \in DOMAIN rows}
\* the rows from one to another, whichever is above
Stretch(x, y) ==
  {rows[n] : n \in {k \in DOMAIN rows : \E i, j \in DOMAIN rows :
     /\ {rows[i], rows[j]} = {x, y}
     /\ i <= k /\ k <= j}}

Init ==
  /\ rows = <<>> /\ selected = {} /\ lost = FALSE
  /\ anchor = NoRow /\ focused = NoRow /\ origin = NoRow

\* One row by itself, by mouse or keyboard; the mouse may go on to drag.
Select(x) ==
  /\ selected' = {x} /\ anchor' = x /\ focused' = x
  /\ origin' \in {x, origin}
  /\ lost' \in {FALSE, lost}

\* One row more or less.
Toggle(x) ==
  /\ selected' = IF x \in selected THEN selected \ {x} ELSE selected \cup {x}
  /\ anchor' = x /\ focused' = x
  /\ UNCHANGED <<origin, lost>>

\* From the anchor, the focus or, without either, some row.
Extend(x) ==
  \E from \in IF anchor # NoRow THEN {anchor} ELSE IF focused # NoRow THEN {focused} ELSE Shown :
    /\ selected' = Stretch(from, x)
    /\ anchor' \in {anchor, from} /\ origin' \in {origin, from}
    /\ focused' = x
    /\ UNCHANGED lost

\* From where the drag started.
Drag(x) ==
  /\ origin # NoRow
  /\ selected' = Stretch(origin, x)
  /\ anchor' = origin /\ focused' = x
  /\ UNCHANGED <<origin, lost>>

SelectAll == selected' = Shown /\ UNCHANGED <<anchor, focused, origin, lost>>
Clear     == selected' = {} /\ UNCHANGED <<anchor, focused, origin, lost>>
Release   == origin' = NoRow /\ UNCHANGED <<chosen, lost>>

\* Rows come in above.
Prepend ==
  /\ \E n \in 1 .. Len(rows') : SubSeq(rows', n + 1, Len(rows')) = rows
  /\ UNCHANGED <<chosen, origin, lost>>

\* The table shows something else, or a row is lost track of.
LoseTrack == lost'

Next ==
  \/ /\ UNCHANGED rows
     /\ \/ \E x \in Shown : Select(x) \/ Toggle(x) \/ Extend(x) \/ Drag(x)
        \/ SelectAll \/ Clear \/ Release
  \/ Prepend
  \/ LoseTrack

SelectionOfItems == Init /\ [][Next]_<<rows, chosen, origin, lost>>
=============================================================================
