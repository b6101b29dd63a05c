------------------------------ MODULE RingBuffer ------------------------------
(* EventRingBuffer (frontend/src/lib/utils/ring-buffer.ts): a fixed array, the *)
(* next write position and the number of items.  Index 0 is the newest item.   *)
EXTENDS Integers, Sequences

CONSTANTS Item,      \* what is stored
          undefined, \* what an empty slot reads as
          capacity   \* fixed when the buffer is made; the constructor throws on 0

ASSUME CapacityAssumption == capacity \in Nat \ {0} /\ undefined \notin Item

VARIABLES buffer,    \* the array: undefined or an item in each slot
          head,      \* next write position
          length     \* items held

vars == <<buffer, head, length>>

Slots == 0 .. capacity - 1

Init ==
  /\ buffer = [s \in Slots |-> undefined]
  /\ head = 0
  /\ length = 0

NextHead(h) == (h + 1) % capacity

push(item) ==
  /\ buffer' = [buffer EXCEPT ![head] = item]
  /\ head' = NextHead(head)
  /\ length' = IF length < capacity THEN length + 1 ELSE length

clear ==
  /\ buffer' = [s \in Slots |-> undefined]
  /\ head' = 0
  /\ length' = 0

\* where the item with this logical index is stored
PhysicalIndex(index) == (head - 1 - index + capacity) % capacity

get(index) ==
  IF index < 0 \/ index >= length THEN undefined ELSE buffer[PhysicalIndex(index)]

\* items start .. end - 1, as far as there are any
slice(start, end) ==
  LET first == IF start < 0 THEN 0 ELSE start
      last  == IF end < length THEN end ELSE length
  IN  IF first >= last THEN <<>>
      ELSE [i \in 1 .. last - first |-> get(first + i - 1)]

toArray == slice(0, length)

Next == (\E item \in Item : push(item)) \/ clear
Spec == Init /\ [][Next]_vars

-----------------------------------------------------------------------------
TypeOK ==
  /\ buffer \in [Slots -> Item \cup {undefined}]
  /\ head \in Slots
  /\ length \in 0 .. capacity

\* The slots behind head, as many as there are items, hold items: toArray never
\* returns undefined although its result is typed T[] (ring-buffer.ts:71-82,
\* the get(i)! of slice).
NoHoles == \A i \in 0 .. length - 1 : get(i) \in Item

\* The buffer is the newest-first list its comment promises, wherever head is:
\* overwriting a slot is forgetting the oldest item (ring-buffer.ts:10-11,26-35).
Log == INSTANCE NewestFirst WITH list <- toArray, Capacity <- capacity
IsNewestFirst == Log!Spec
=============================================================================
