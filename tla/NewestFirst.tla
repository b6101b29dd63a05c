----------------------------- MODULE NewestFirst -----------------------------
(* What EventRingBuffer promises (ring-buffer.ts:1-12): a bounded list, the   *)
(* newest item first, that forgets its oldest item when one too many is       *)
(* pushed.  RingBuffer implements it; the event pipeline is written over it.  *)
EXTENDS Integers, Sequences

CONSTANTS Item, Capacity
VARIABLE list

\* one more item in front of l, at most n kept
Pushed(l, item, n) ==
  [i \in 1 .. IF Len(l) < n THEN Len(l) + 1 ELSE n |->
     IF i = 1 THEN item ELSE l[i - 1]]

Init  == list = <<>>
Push  == \E item \in Item : list' = Pushed(list, item, Capacity)
Clear == list' = <<>>
Next  == Push \/ Clear
Spec  == Init /\ [][Next]_list
=============================================================================
