------------------------------ MODULE TableProofs ------------------------------
(***************************************************************************)
(* The table over the ring of events, and its filter worker.               *)
(*                                                                         *)
(* Read behind head, the array of the ring is one list (Items); push puts  *)
(* its item in front of that list and overwrites its last slot.            *)
(*                                                                         *)
(* A search ends with the rows that match it.  The page never looks at     *)
(* what the worker has, so the argument is about what the worker WILL have *)
(* when it has taken the messages before it (Ends): that is what matches   *)
(* in the rows last asked about (Due), and it is what will be shown        *)
(* (ShownInv), since answers come in the order they were asked for.  New   *)
(* events are asked about alone; what matches in a list and in another in  *)
(* front of it is what matches in each (MatchesOfTwo).                     *)
(***************************************************************************)
EXTENDS EventTable, FiniteSetTheorems, SequenceTheorems, TLAPS

-----------------------------------------------------------------------------
(* The ring *)

\* the slot of the i-th item from the front when h is the next write position
Slot(h, i) == IF i <= h THEN h - i ELSE h - i + capacity

\* the list behind h
Items(b, h, l) == [i \in 1 .. l |-> b[Slot(h, i)]]

\* A slot is a slot of the array.
LEMMA SlotType ==
  ASSUME NEW h \in Slots, NEW i \in 1 .. capacity PROVE Slot(h, i) \in Slots
  BY CapacityAssumption DEF Slots, Slot

\* The code's index of the i-th newest is its slot behind head.
LEMMA SlotIsPhysical ==
  ASSUME TypeOK, NEW i \in 1 .. capacity PROVE PhysicalIndex(i - 1) = Slot(head, i)
  <1>1. /\ capacity \in Nat \ {0} /\ head \in 0 .. capacity - 1
        /\ head - 1 - (i - 1) + capacity = head - i + capacity
        /\ head - i + capacity \in 0 .. 2 * capacity - 1
    BY CapacityAssumption DEF TypeOK, Slots
  <1>2. (head - i + capacity) % capacity
          = IF head - i + capacity < capacity THEN head - i + capacity
                                              ELSE head - i + capacity - capacity
    BY <1>1
  <1>3. head - i + capacity < capacity <=> ~(i <= head)
    BY <1>1
  <1>4. PhysicalIndex(i - 1) = (head - i + capacity) % capacity
    BY <1>1, Zenon DEF PhysicalIndex
  <1>5. (head - i + capacity) % capacity = Slot(head, i)
    BY <1>1, <1>2, <1>3 DEF Slot
  <1>6. QED
    BY <1>4, <1>5

\* toArray reads that list.
LEMMA ArrayIsItems == TypeOK => toArray = Items(buffer, head, length)
  <1> SUFFICES ASSUME TypeOK PROVE toArray = Items(buffer, head, length)
    OBVIOUS
  <1>1. length \in Nat /\ length <= capacity
    BY CapacityAssumption DEF TypeOK
  <1>2. CASE length = 0
    BY <1>2 DEF toArray, slice, Items
  <1>3. CASE length # 0
    <2>1. toArray = [i \in 1 .. length |-> get(i - 1)]
      <3>1. ~(0 < 0) /\ ~(length < length) /\ ~(0 >= length)
        BY <1>1, <1>3
      <3>2. toArray = [i \in 1 .. length - 0 |-> get(0 + i - 1)]
        BY <3>1 DEF toArray, slice
      <3>3. QED
        BY <1>1, <3>2
    <2>2. ASSUME NEW i \in 1 .. length PROVE get(i - 1) = buffer[Slot(head, i)]
      BY <1>1, SlotIsPhysical, CapacityAssumption DEF get
    <2>3. QED
      BY <2>1, <2>2 DEF Items
  <1>4. QED
    BY <1>2, <1>3

\* head moves to the next slot, and from the last to the first.
LEMMA HeadMoves ==
  ASSUME head \in Slots
  PROVE  NextHead(head) = IF head + 1 < capacity THEN head + 1 ELSE 0
  BY CapacityAssumption DEF Slots, NextHead

\* Every step keeps the types.
LEMMA TypeStep == TypeOK /\ [Next]_vars => TypeOK'
  <1> SUFFICES ASSUME TypeOK, [Next]_vars PROVE TypeOK'
    OBVIOUS
  <1>1. capacity \in Nat \ {0}
    BY CapacityAssumption
  <1>2. ASSUME NEW item \in Item, push(item) PROVE TypeOK'
    <2>1. head' \in Slots
      <3>1. head \in Slots /\ head' = NextHead(head)
        BY <1>2 DEF TypeOK, push
      <3>2. QED
        BY <1>1, <3>1, HeadMoves DEF Slots
    <2>2. QED
      BY <1>1, <1>2, <2>1 DEF TypeOK, push
  <1>3. CASE clear
    BY <1>1, <1>3 DEF TypeOK, clear, Slots
  <1>4. CASE UNCHANGED vars
    BY <1>4 DEF TypeOK, vars
  <1>5. QED
    BY <1>2, <1>3, <1>4 DEF Next

\* The constructor and every operation leave an array, a position and a length
\* that fit together (ring-buffer.ts:16-35, 103-108).
THEOREM TypeCorrect == Spec => []TypeOK
  <1>1. Init => TypeOK
    BY CapacityAssumption DEF Init, TypeOK, Slots
  <1>2. QED
    BY <1>1, TypeStep, PTL DEF Spec

\* Pushing to the list behind head: the item comes first, the others move back,
\* and in a full buffer the last one is overwritten (ring-buffer.ts:30-35).
LEMMA PushItems ==
  ASSUME TypeOK, TypeOK', NEW item \in Item, push(item)
  PROVE  Items(buffer', head', length') = Log!Pushed(Items(buffer, head, length), item, capacity)
  <1> DEFINE old == Items(buffer, head, length)
             n   == IF length < capacity THEN length + 1 ELSE capacity
  <1>1. /\ capacity \in Nat \ {0} /\ head \in 0 .. capacity - 1
        /\ length \in 0 .. capacity /\ n \in 1 .. capacity
        /\ n <= length + 1
    BY CapacityAssumption DEF TypeOK, Slots
  <1>2. length' = n
    BY <1>1 DEF push
  <1>3. head' = IF head + 1 < capacity THEN head + 1 ELSE 0
    BY HeadMoves DEF TypeOK, push
  <1>4. Slot(head', 1) = head
    BY <1>1, <1>3 DEF Slot
  <1>5. ASSUME NEW i \in 2 .. n
        PROVE  Slot(head', i) = Slot(head, i - 1) /\ Slot(head', i) # head
    BY <1>1, <1>3 DEF Slot
  <1>6. buffer'[head] = item
    BY <1>1 DEF push, TypeOK, Slots
  <1>7. ASSUME NEW s \in Slots, s # head PROVE buffer'[s] = buffer[s]
    BY <1>7 DEF push, TypeOK
  <1>8. ASSUME NEW i \in 2 .. n PROVE buffer'[Slot(head', i)] = old[i - 1]
    <2>1. i - 1 \in 1 .. length /\ i - 1 \in 1 .. capacity
      BY <1>1
    <2>2. Slot(head, i - 1) \in Slots
      BY <1>1, <2>1, SlotType DEF Slots
    <2>3. buffer'[Slot(head, i - 1)] = buffer[Slot(head, i - 1)]
      BY <1>5, <1>7, <2>2
    <2>4. old[i - 1] = buffer[Slot(head, i - 1)]
      BY <2>1 DEF Items
    <2>5. QED
      BY <1>5, <2>3, <2>4
  <1>9. Len(old) = length
    BY <1>1 DEF Items
  <1>10. ASSUME NEW i \in 1 .. n
         PROVE  buffer'[Slot(head', i)] = IF i = 1 THEN item ELSE old[i - 1]
    <2>1. CASE i = 1
      BY <1>4, <1>6, <2>1
    <2>2. CASE i # 1
      <3>1. i \in 2 .. n
        BY <1>1, <2>2
      <3>2. QED
        BY <1>8, <2>2, <3>1
    <2>3. QED
      BY <2>1, <2>2
  <1>11. Items(buffer', head', length') = [i \in 1 .. n |-> IF i = 1 THEN item ELSE old[i - 1]]
    BY <1>2, <1>10 DEF Items
  <1>12. QED
    BY <1>9, <1>11 DEF Log!Pushed

\* Every step of the array is a step of the list.
LEMMA RefinementStep ==
  ASSUME TypeOK, TypeOK', [Next]_vars,
         toArray = Items(buffer, head, length),
         toArray' = Items(buffer', head', length')
  PROVE  [Log!Next]_toArray
  <1>1. ASSUME NEW item \in Item, push(item) PROVE Log!Next
    <2>1. toArray' = Log!Pushed(toArray, item, capacity)
      BY <1>1, PushItems
    <2>2. QED
      BY <2>1 DEF Log!Next, Log!Push
  <1>2. CASE clear
    <2>1. length' = 0
      BY <1>2 DEF clear
    <2>2. toArray' = <<>>
      BY <2>1 DEF toArray, slice
    <2>3. QED
      BY <2>2 DEF Log!Next, Log!Clear
  <1>3. CASE UNCHANGED vars
    <2>1. toArray' = toArray
      BY <1>3 DEF vars, Items
    <2>2. QED
      BY <2>1
  <1>4. QED
    BY <1>1, <1>2, <1>3 DEF Next

\* EventRingBuffer is the newest-first list its comment promises, for every
\* capacity (ring-buffer.ts:1-12).
THEOREM RingIsNewestFirst == Spec => IsNewestFirst
  <1>1. Init => Log!Init
    <2> SUFFICES ASSUME Init PROVE toArray = <<>>
      BY DEF Log!Init
    <2>1. length = 0
      BY DEF Init
    <2>2. QED
      BY <2>1 DEF toArray, slice
  <1>2. TypeOK /\ TypeOK' /\ [Next]_vars /\ toArray = Items(buffer, head, length)
          /\ toArray' = Items(buffer', head', length') => [Log!Next]_toArray
    BY RefinementStep
  <1>3. TypeOK /\ TypeOK' /\ [Next]_vars => [Log!Next]_toArray
    <2>1. (TypeOK => toArray = Items(buffer, head, length))'
      BY ArrayIsItems, PTL
    <2>2. QED
      BY <1>2, <2>1, ArrayIsItems
  <1>4. QED
    BY <1>1, <1>3, TypeCorrect, PTL DEF Spec, IsNewestFirst, Log!Spec

\* No index below length reads an empty slot, so what a table or a chart gets
\* are items (ring-buffer.ts:50-55, 71-82).
Filled == \A i \in 1 .. length : buffer[Slot(head, i)] \in Item

\* Every step leaves an item in each slot it counts.
LEMMA FilledStep == TypeOK /\ TypeOK' /\ Filled /\ [Next]_vars => Filled'
  <1> SUFFICES ASSUME TypeOK, TypeOK', Filled, [Next]_vars PROVE Filled'
    OBVIOUS
  <1>0. capacity \in Nat \ {0} /\ length \in 0 .. capacity /\ length' \in 0 .. capacity
    BY CapacityAssumption DEF TypeOK
  <1>1. ASSUME NEW item \in Item, push(item) PROVE Filled'
    <2> SUFFICES ASSUME NEW i \in 1 .. length' PROVE buffer'[Slot(head', i)] \in Item
      BY DEF Filled
    <2>1. Items(buffer', head', length') = Log!Pushed(Items(buffer, head, length), item, capacity)
      BY <1>1, PushItems
    <2>2. /\ Len(Items(buffer, head, length)) = length
          /\ length' = IF length < capacity THEN length + 1 ELSE capacity
          /\ \A j \in 1 .. length : Items(buffer, head, length)[j] = buffer[Slot(head, j)]
      BY <1>0, <1>1 DEF Items, push
    <2>3. Items(buffer', head', length')[i] = buffer'[Slot(head', i)]
      BY DEF Items
    <2>4. CASE i = 1
      BY <2>1, <2>2, <2>3, <2>4 DEF Log!Pushed
    <2>5. CASE i # 1
      <3>1. i - 1 \in 1 .. length /\ i \in 1 .. length'
        BY <1>0, <2>2, <2>5
      <3>2. Items(buffer', head', length')[i] = Items(buffer, head, length)[i - 1]
        BY <2>1, <2>2, <2>5 DEF Log!Pushed
      <3>3. QED
        BY <2>2, <2>3, <3>1, <3>2 DEF Filled
    <2>6. QED
      BY <2>4, <2>5
  <1>2. CASE clear
    BY <1>2 DEF clear, Filled
  <1>3. CASE UNCHANGED vars
    BY <1>3 DEF vars, Filled
  <1>4. QED
    BY <1>1, <1>2, <1>3 DEF Next

\* No index below length ever reads an empty slot: get never answers undefined there.
THEOREM NoHolesEver == Spec => []NoHoles
  <1>1. Init => Filled
    BY DEF Init, Filled
  <1>2. TypeOK /\ Filled => NoHoles
    <2> SUFFICES ASSUME TypeOK, Filled, NEW i \in 0 .. length - 1 PROVE get(i) \in Item
      BY DEF NoHoles
    <2>1. capacity \in Nat \ {0} /\ length \in 0 .. capacity
      BY CapacityAssumption DEF TypeOK
    <2>2. i + 1 \in 1 .. capacity /\ i + 1 \in 1 .. length /\ (i + 1) - 1 = i
      BY <2>1
    <2>3. PhysicalIndex(i) = Slot(head, i + 1)
      BY <2>2, SlotIsPhysical
    <2>4. get(i) = buffer[PhysicalIndex(i)]
      BY <2>1 DEF get
    <2>5. QED
      BY <2>2, <2>3, <2>4 DEF Filled
  <1>3. QED
    BY <1>1, <1>2, FilledStep, TypeCorrect, PTL DEF Spec

\* A set of naturals has a least element.
LEMMA Least ==
  ASSUME NEW T \in SUBSET Nat, T # {}
  PROVE  \E m \in T : \A n \in T : m <= n
<1> DEFINE Ranges == {0 .. n : n \in T}
           R == StrictSubsetOrdering(Nat)
<1>1. Ranges \subseteq FiniteSubsetsOf(Nat) /\ Ranges # {}
  <2>1. \A n \in T : IsFiniteSet(0 .. n) /\ 0 .. n \subseteq Nat
    BY FS_Interval
  <2> QED BY <2>1 DEF FiniteSubsetsOf
<1>2. IsWellFoundedOn(R, FiniteSubsetsOf(Nat))
  BY FS_StrictSubsetOrderingWellFounded
<1>3. PICK r \in Ranges : \A s \in Ranges : ~(<<s, r>> \in R)
  <2> HIDE DEF Ranges, R
  <2> QED BY <1>1, <1>2, WFMin
<1>4. PICK m \in T : r = 0 .. m
  BY <1>3
<1>5. ASSUME NEW n \in T, ~(m <= n) PROVE FALSE
  <2>1. 0 .. n \in Ranges
    OBVIOUS
  <2>2. 0 .. n \subseteq 0 .. m /\ 0 .. n # 0 .. m
    <3>1. m \in 0 .. m /\ m \notin 0 .. n
      BY <1>5
    <3>2. \A k \in 0 .. n : k \in 0 .. m
      BY <1>5
    <3> QED BY <3>1, <3>2
  <2>3. <<0 .. n, 0 .. m>> \in R
    BY <2>2 DEF StrictSubsetOrdering
  <2> QED BY <1>3, <1>4, <2>1, <2>3
<1> QED BY <1>5

\* A set that has 0, and n + 1 with n, has all natural numbers.
LEMMA SetInduction ==
  ASSUME NEW S \in SUBSET Nat, 0 \in S, \A n \in S : n + 1 \in S
  PROVE  S = Nat
<1> DEFINE T == Nat \ S
<1>1. SUFFICES ASSUME T # {} PROVE FALSE
  OBVIOUS
<1>2. PICK x \in T : \A n \in T : x <= n
  <2> HIDE DEF T
  <2>1. T \in SUBSET Nat
    BY DEF T
  <2> QED BY <1>1, <2>1, Least
<1>3. x \in Nat /\ x # 0
  OBVIOUS
<1>4. x - 1 \in Nat /\ x - 1 + 1 = x /\ ~(x <= x - 1)
  BY <1>3
<1>5. x - 1 \in T
  BY <1>4
<1> QED BY <1>2, <1>4, <1>5

-----------------------------------------------------------------------------
(* What matches *)

\* One more row that matches goes at the end, whatever was found before.
LEMMA FoundAdds ==
  ASSUME NEW before \in Seq(Item), NEW found \in Seq(Item), NEW item \in Item, NEW query, NEW columns
  PROVE  /\ Found(found, item, query, columns) \in Seq(Item)
         /\ Found(before \o found, item, query, columns) = before \o Found(found, item, query, columns)
<1>1. Append(before \o found, item) = before \o Append(found, item) /\ Append(found, item) \in Seq(Item)
  <2>1. <<item>> \in Seq(Item) /\ before \o found \in Seq(Item)
    BY ConcatProperties
  <2>2. Append(before \o found, item) = (before \o found) \o <<item>> /\ Append(found, item) = found \o <<item>>
    BY <2>1, AppendIsConcat
  <2> QED BY <2>1, <2>2, ConcatAssociative, ConcatProperties
<1>2. CASE Hits(item, query, columns)
  BY <1>1, <1>2, Zenon DEF Found
<1>3. CASE ~Hits(item, query, columns)
  BY <1>3, Zenon DEF Found
<1> QED BY <1>2, <1>3

\* the loop over the first n rows
IsFound(f, rows, query, columns, n) ==
  f = [k \in 0 .. n |-> IF k = 0 THEN <<>>
                        ELSE Found(f[k - 1], rows[k], query, columns)]

\* The loop over the rows runs to any length.
LEMMA FoundRuns ==
  ASSUME NEW rows, NEW query, NEW columns, NEW last \in Nat
  PROVE  \E f : IsFound(f, rows, query, columns, last)
<1> DEFINE S == {n \in Nat : \E f : IsFound(f, rows, query, columns, n)}
<1>1. 0 \in S
  <2> DEFINE f == [k \in 0 .. 0 |-> <<>>]
  <2>1. IsFound(f, rows, query, columns, 0)
    BY DEF IsFound
  <2> QED BY <2>1
<1>2. ASSUME NEW n \in S PROVE n + 1 \in S
  <2>1. PICK f : IsFound(f, rows, query, columns, n)
    OBVIOUS
  <2> DEFINE next == Found(f[n], rows[n + 1], query, columns)
             g == [k \in 0 .. n + 1 |-> IF k = n + 1 THEN next ELSE f[k]]
             h == [k \in 0 .. n + 1 |-> IF k = 0 THEN <<>>
                     ELSE Found(g[k - 1], rows[k], query, columns)]
  <2>2. ASSUME NEW k \in 0 .. n + 1 PROVE g[k] = h[k]
    <3>1. CASE k = n + 1
      <4>1. g[k] = next /\ k # 0 /\ k - 1 \in 0 .. n + 1 /\ k - 1 # n + 1 /\ k - 1 = n
        BY <3>1
      <4>2. g[k - 1] = f[n]
        BY <4>1
      <4> QED BY <3>1, <4>1, <4>2
    <3>2. CASE k = 0
      <4>1. f[0] = <<>>
        BY <2>1 DEF IsFound
      <4> QED BY <3>2, <4>1
    <3>3. CASE k # n + 1 /\ k # 0
      <4>1. k \in 0 .. n /\ k - 1 \in 0 .. n + 1 /\ k - 1 # n + 1
        BY <3>3
      <4>2. g[k] = f[k] /\ g[k - 1] = f[k - 1]
        BY <3>3, <4>1
      <4>3. f[k] = Found(f[k - 1], rows[k], query, columns)
        BY <2>1, <3>3, <4>1 DEF IsFound
      <4> QED BY <3>3, <4>2, <4>3
    <3> QED BY <3>1, <3>2, <3>3
  <2>3. g = h
    <3>1. g = [k \in 0 .. n + 1 |-> g[k]] /\ h = [k \in 0 .. n + 1 |-> h[k]]
      OBVIOUS
    <3> HIDE DEF g, h
    <3> QED BY <2>2, <3>1
  <2>4. IsFound(g, rows, query, columns, n + 1)
    <3> HIDE DEF g
    <3> QED BY <2>3 DEF IsFound
  <2> QED BY <2>4
<1>3. S = Nat
  <2> HIDE DEF S
  <2>1. S \in SUBSET Nat
    BY DEF S
  <2> QED BY <1>1, <1>2, <2>1, SetInduction
<1> QED BY <1>3

\* What has been found after n rows is what was found before, and row n if it matches.
LEMMA FoundSteps ==
  ASSUME NEW f, NEW rows, NEW query, NEW columns, NEW last \in Nat, IsFound(f, rows, query, columns, last)
  PROVE  /\ f[0] = <<>>
         /\ \A n \in 1 .. last : f[n] = Found(f[n - 1], rows[n], query, columns)
<1>1. \A k \in 0 .. last : f[k] = IF k = 0 THEN <<>> ELSE Found(f[k - 1], rows[k], query, columns)
  BY DEF IsFound
<1> QED BY <1>1

\* What the loop has found is a list.
LEMMA FoundTyped ==
  ASSUME NEW f, NEW rows, NEW query, NEW columns, NEW last \in Nat, IsFound(f, rows, query, columns, last),
         \A n \in 1 .. last : rows[n] \in Item
  PROVE  \A n \in 0 .. last : f[n] \in Seq(Item)
<1> DEFINE S == {n \in Nat : n <= last => f[n] \in Seq(Item)}
<1>1. 0 \in S
  <2>1. f[0] = <<>> /\ <<>> \in Seq(Item)
    BY FoundSteps
  <2> QED BY <2>1
<1>2. ASSUME NEW n \in S PROVE n + 1 \in S
  <2> SUFFICES ASSUME n + 1 <= last PROVE f[n + 1] \in Seq(Item)
    OBVIOUS
  <2>1. n + 1 \in 1 .. last /\ n + 1 - 1 = n /\ f[n] \in Seq(Item)
    OBVIOUS
  <2>2. f[n + 1] = Found(f[n], rows[n + 1], query, columns)
    BY <2>1, FoundSteps
  <2> QED BY <2>1, <2>2, FoundAdds
<1>3. S = Nat
  <2> HIDE DEF S
  <2>1. S \in SUBSET Nat
    BY DEF S
  <2> QED BY <1>1, <1>2, <2>1, SetInduction
<1> QED BY <1>3

\* What matches is what the loop ends with.
MatchedBy(f, rows, query, columns, last) ==
  /\ IsFound(f, rows, query, columns, last)
  /\ Matches(rows, query, columns) = f[last]
  /\ \A n \in 0 .. last : f[n] \in Seq(Item)

\* Matches is what the loop has found at the end.
LEMMA MatchesIsLoop ==
  ASSUME NEW rows \in Seq(Item), NEW query, NEW columns, NEW last \in Nat, last = Len(rows)
  PROVE  \E f : MatchedBy(f, rows, query, columns, last)
<1> DEFINE loop == CHOOSE f : f = [n \in 0 .. Len(rows) |->
                     IF n = 0 THEN <<>> ELSE Found(f[n - 1], rows[n], query, columns)]
<1>1. loop = CHOOSE f : IsFound(f, rows, query, columns, last)
  BY Zenon DEF IsFound
<1>2. Matches(rows, query, columns) = loop[last]
  BY Zenon DEF Matches
<1> HIDE DEF loop
<1>3. IsFound(loop, rows, query, columns, last)
  <2>1. \E f : IsFound(f, rows, query, columns, last)
    BY FoundRuns
  <2> QED BY <1>1, <2>1, Zenon
<1>4. \A n \in 1 .. last : rows[n] \in Item
  OBVIOUS
<1>5. \A n \in 0 .. last : loop[n] \in Seq(Item)
  BY <1>3, <1>4, FoundTyped, Zenon
<1> QED BY <1>2, <1>3, <1>5 DEF MatchedBy

\* What matches is a list of rows.
LEMMA MatchesTyped ==
  ASSUME NEW rows \in Seq(Item), NEW query, NEW columns
  PROVE  Matches(rows, query, columns) \in Seq(Item)
<1>1. PICK last \in Nat : last = Len(rows)
  OBVIOUS
<1>2. PICK f : MatchedBy(f, rows, query, columns, last)
  BY <1>1, MatchesIsLoop
<1>3. last \in 0 .. last
  OBVIOUS
<1> QED BY <1>2, <1>3 DEF MatchedBy

\* Nothing matches in no rows.
LEMMA MatchesOfNone ==
  ASSUME NEW query, NEW columns
  PROVE  Matches(<<>>, query, columns) = <<>>
<1>1. <<>> \in Seq(Item) /\ 0 = Len(<<>>) /\ 0 \in Nat
  OBVIOUS
<1>2. PICK f : MatchedBy(f, <<>>, query, columns, 0)
  BY <1>1, MatchesIsLoop
<1>3. f[0] = <<>>
  BY <1>2, FoundSteps DEF MatchedBy
<1> QED BY <1>2, <1>3 DEF MatchedBy

\* What matches in two lists is what matches in each.
LEMMA MatchesOfTwo ==
  ASSUME NEW r \in Seq(Item), NEW s \in Seq(Item), NEW query, NEW columns
  PROVE  Matches(r \o s, query, columns) = Matches(r, query, columns) \o Matches(s, query, columns)
<1>1. PICK all \in Seq(Item), m \in Nat, n \in Nat :
        /\ all = r \o s /\ m = Len(r) /\ n = Len(s) /\ m + n = Len(all)
        /\ \A k \in 1 .. m : all[k] = r[k]
        /\ \A k \in 1 .. n : all[m + k] = s[k] /\ s[k] \in Item
  <2>1. /\ r \o s \in Seq(Item) /\ Len(r) \in Nat /\ Len(s) \in Nat /\ Len(r) + Len(s) = Len(r \o s)
        /\ \A k \in 1 .. Len(r) : (r \o s)[k] = r[k]
        /\ \A k \in 1 .. Len(s) : (r \o s)[Len(r) + k] = s[k] /\ s[k] \in Item
    BY ConcatProperties
  <2> QED BY <2>1, Zenon
<1>2. PICK f : MatchedBy(f, r, query, columns, m)
  BY <1>1, MatchesIsLoop
<1>3. PICK g : MatchedBy(g, s, query, columns, n)
  BY <1>1, MatchesIsLoop
<1>4. PICK last \in Nat : m \in Nat /\ n \in Nat /\ last = m + n
  BY <1>1
<1>5. PICK h : MatchedBy(h, all, query, columns, last)
  BY <1>1, <1>4, MatchesIsLoop
<1>6. /\ f[0] = <<>> /\ \A k \in 1 .. m : f[k] = Found(f[k - 1], r[k], query, columns)
      /\ g[0] = <<>> /\ \A k \in 1 .. n : g[k] = Found(g[k - 1], s[k], query, columns)
      /\ h[0] = <<>> /\ \A k \in 1 .. last : h[k] = Found(h[k - 1], all[k], query, columns)
  <2>1. /\ IsFound(f, r, query, columns, m) /\ IsFound(g, s, query, columns, n)
        /\ IsFound(h, all, query, columns, last)
    BY <1>2, <1>3, <1>5, Zenon DEF MatchedBy
  <2>2. m \in Nat /\ n \in Nat /\ last \in Nat
    BY <1>4
  <2>3. f[0] = <<>> /\ \A k \in 1 .. m : f[k] = Found(f[k - 1], r[k], query, columns)
    BY <2>1, <2>2, FoundSteps
  <2>4. g[0] = <<>> /\ \A k \in 1 .. n : g[k] = Found(g[k - 1], s[k], query, columns)
    BY <2>1, <2>2, FoundSteps
  <2>5. h[0] = <<>> /\ \A k \in 1 .. last : h[k] = Found(h[k - 1], all[k], query, columns)
    BY <2>1, <2>2, FoundSteps
  <2> QED BY <2>3, <2>4, <2>5
<1> DEFINE S == {k \in Nat : k <= m => h[k] = f[k]}
<1>7. 0 \in S
  BY <1>6
<1>8. ASSUME NEW k \in S PROVE k + 1 \in S
  <2> SUFFICES ASSUME k + 1 <= m PROVE h[k + 1] = f[k + 1]
    OBVIOUS
  <2>1. k \in Nat /\ k + 1 \in 1 .. m /\ k + 1 \in 1 .. last /\ k + 1 - 1 = k /\ h[k] = f[k]
    BY <1>4
  <2>2. all[k + 1] = r[k + 1]
    BY <1>1, <2>1
  <2>3. h[k + 1] = Found(h[k], all[k + 1], query, columns) /\ f[k + 1] = Found(f[k], r[k + 1], query, columns)
    BY <1>6, <2>1
  <2> QED BY <2>1, <2>2, <2>3
<1>9. S = Nat
  <2> HIDE DEF S
  <2>1. S \in SUBSET Nat
    BY DEF S
  <2> QED BY <1>7, <1>8, <2>1, SetInduction
<1>10. h[m] = f[m] /\ f[m] \in Seq(Item)
  <2>1. m \in S /\ m \in 0 .. m
    BY <1>9
  <2> QED BY <1>2, <2>1 DEF MatchedBy
<1> HIDE DEF S
<1> DEFINE both(k) == f[m] \o g[k]
           T == {k \in Nat : k <= n => h[m + k] = both(k)}
<1>11. 0 \in T
  <2>1. f[m] \o <<>> = f[m] /\ m + 0 = m
    BY <1>10, ConcatEmptySeq
  <2>2. both(0) = h[m + 0]
    BY <1>6, <1>10, <2>1
  <2> QED BY <2>2
<1>12. ASSUME NEW k \in T PROVE k + 1 \in T
  <2> SUFFICES ASSUME k + 1 <= n PROVE h[m + (k + 1)] = both(k + 1)
    <3> HIDE DEF both
    <3> QED OBVIOUS
  <2>1. /\ k \in Nat /\ k + 1 \in 1 .. n /\ k \in 0 .. n /\ m + (k + 1) \in 1 .. last
        /\ k + 1 - 1 = k /\ m + (k + 1) - 1 = m + k
        /\ h[m + k] = both(k)
    <3> HIDE DEF both
    <3> QED BY <1>4
  <2>2. all[m + (k + 1)] = s[k + 1] /\ s[k + 1] \in Item
    BY <1>1, <2>1
  <2>3. h[m + (k + 1)] = Found(h[m + k], all[m + (k + 1)], query, columns) /\ g[k + 1] = Found(g[k], s[k + 1], query, columns)
    <3>1. /\ h[m + (k + 1)] = Found(h[m + (k + 1) - 1], all[m + (k + 1)], query, columns)
          /\ g[k + 1] = Found(g[k + 1 - 1], s[k + 1], query, columns)
      <4> HIDE DEF both
      <4>1. k + 1 \in 1 .. n /\ m + (k + 1) \in 1 .. last
        BY <2>1
      <4> QED BY <1>6, <4>1
    <3> QED BY <2>1, <3>1
  <2>4. g[k] \in Seq(Item)
    BY <1>3, <2>1 DEF MatchedBy
  <2>5. Found(both(k), s[k + 1], query, columns) = f[m] \o Found(g[k], s[k + 1], query, columns)
    <3>1. PICK before \in Seq(Item), found \in Seq(Item), item \in Item : before = f[m] /\ found = g[k] /\ item = s[k + 1]
      BY <1>10, <2>2, <2>4
    <3>2. Found(before \o found, item, query, columns) = before \o Found(found, item, query, columns)
      BY FoundAdds
    <3> QED BY <3>1, <3>2, Zenon
  <2> QED BY <2>1, <2>2, <2>3, <2>5, Zenon
<1>13. T = Nat
  <2> HIDE DEF T
  <2>1. T \in SUBSET Nat
    BY DEF T
  <2> QED BY <1>11, <1>12, <2>1, SetInduction
<1>14. h[last] = both(n)
  <2>1. n \in T
    BY <1>13
  <2> HIDE DEF both
  <2> QED BY <1>4, <2>1 DEF T
<1> QED BY <1>1, <1>2, <1>3, <1>5, <1>10, <1>14, Zenon DEF MatchedBy

WorkerStates == [rows : Seq(Item), query : Query, columns : SUBSET Fields]
FilterMessages == [id : Nat, type : {"filter", "incremental"}, rows : Seq(Item), query : Query,
                   columns : SUBSET Fields]
Message == FilterMessages \cup {[type |-> "reset"]}

\* What the worker has after a message of each kind.
LEMMA AnsweredFacts ==
  ASSUME NEW state \in WorkerStates, NEW m \in Message
  PROVE  /\ Answered(state, m) \in WorkerStates
         /\ m.type = "filter" =>
              /\ Answered(state, m).rows = Matches(m.rows, m.query, m.columns)
              /\ Answered(state, m).query = m.query /\ Answered(state, m).columns = m.columns
         /\ m.type = "incremental" /\ m.query = state.query /\ m.columns = state.columns =>
              /\ Answered(state, m).rows = Matches(m.rows, m.query, m.columns) \o state.rows
              /\ Answered(state, m).query = m.query /\ Answered(state, m).columns = m.columns
<1> DEFINE found == Matches(m.rows, m.query, m.columns)
           kept  == IF m.type = "filter" \/ m.query # state.query \/ m.columns # state.columns
                    THEN <<>> ELSE state.rows
<1>1. Answered(state, m) = IF m.type = "reset" THEN EmptyWorker
                           ELSE [rows |-> found \o kept, query |-> m.query, columns |-> m.columns]
  BY Zenon DEF Answered
<1>2. CASE m.type = "reset"
  <2>1. EmptyWorker \in WorkerStates
    <3>1. "" \in Query
      BY TableAssumption
    <3>2. <<>> \in Seq(Item) /\ {} \in SUBSET Fields
      OBVIOUS
    <3> QED BY <3>1, <3>2 DEF EmptyWorker, WorkerStates
  <2> QED BY <1>1, <1>2, <2>1
<1>3. CASE m.type # "reset"
  <2>1. m \in FilterMessages
    BY <1>3 DEF Message
  <2>2. m.rows \in Seq(Item) /\ m.query \in Query /\ m.columns \in SUBSET Fields
    BY <2>1 DEF FilterMessages
  <2>3. found \in Seq(Item) /\ found \o <<>> = found
    BY <2>2, MatchesTyped, ConcatEmptySeq
  <2>4. state.rows \in Seq(Item)
    BY DEF WorkerStates
  <2> HIDE DEF found
  <2>5. kept \in Seq(Item) /\ found \o kept \in Seq(Item)
    <3>1. kept \in Seq(Item)
      BY <2>4
    <3> HIDE DEF kept
    <3> QED BY <2>3, <3>1, ConcatProperties
  <2>6. m.type = "filter" => kept = <<>>
    OBVIOUS
  <2>7. m.type = "incremental" /\ m.query = state.query /\ m.columns = state.columns => kept = state.rows
    OBVIOUS
  <2> HIDE DEF kept
  <2>8. Answered(state, m) = [rows |-> found \o kept, query |-> m.query, columns |-> m.columns]
    BY <1>1, <1>3
  <2>9. Answered(state, m) \in WorkerStates
    BY <2>2, <2>5, <2>8 DEF WorkerStates
  <2>10. Answered(state, m).rows = found \o kept /\ Answered(state, m).query = m.query /\ Answered(state, m).columns = m.columns
    BY <2>8
  <2> QED BY <2>3, <2>6, <2>7, <2>9, <2>10 DEF found
<1> QED BY <1>2, <1>3

-----------------------------------------------------------------------------
(* What the worker will have *)

\* The worker in this state, with these messages before it, ends up with final.
Takes(w, state, messages, n) ==
  /\ w \in [0 .. n -> WorkerStates] /\ w[0] = state
  /\ \A k \in 1 .. n : w[k] = Answered(w[k - 1], messages[k])
Ends(state, messages, final) ==
  \E n, w : n \in Nat /\ n = Len(messages) /\ Takes(w, state, messages, n) /\ w[n] = final

\* With no message before it, the worker will have what it has.
LEMMA EndsNow ==
  ASSUME NEW state, NEW final, Ends(state, <<>>, final)
  PROVE  final = state
<1>1. PICK w : Takes(w, state, <<>>, 0) /\ w[0] = final
  BY DEF Ends
<1> QED BY <1>1 DEF Takes

\* One more message at the end is answered after all the others.
LEMMA EndsAfter ==
  ASSUME NEW messages \in Seq(Message), NEW m \in Message, NEW state, NEW final, Ends(state, messages, final)
  PROVE  Ends(state, Append(messages, m), Answered(final, m)) /\ final \in WorkerStates
<1>1. PICK n, w : n \in Nat /\ n = Len(messages) /\ Takes(w, state, messages, n) /\ w[n] = final
  BY DEF Ends
<1>2. PICK more \in Seq(Message) :
        /\ more = Append(messages, m) /\ n + 1 = Len(more) /\ more[n + 1] = m
        /\ \A k \in 1 .. n : more[k] = messages[k]
  <2>1. /\ Append(messages, m) \in Seq(Message) /\ n + 1 = Len(Append(messages, m))
        /\ Append(messages, m)[n + 1] = m /\ \A k \in 1 .. n : Append(messages, m)[k] = messages[k]
    BY <1>1, AppendProperties
  <2> QED BY <2>1, Zenon
<1>3. PICK last \in Nat : n \in Nat /\ last = n + 1
  BY <1>1
<1>4. /\ w \in [0 .. n -> WorkerStates] /\ w[0] = state
      /\ \A k \in 1 .. n : w[k] = Answered(w[k - 1], messages[k])
  BY <1>1 DEF Takes
<1>5. final \in WorkerStates
  BY <1>1, <1>4
<1>6. PICK next \in WorkerStates : next = Answered(final, m)
  BY <1>5, AnsweredFacts
<1> DEFINE v == [k \in 0 .. last |-> IF k = last THEN next ELSE w[k]]
<1>7. v \in [0 .. last -> WorkerStates] /\ v[0] = state /\ v[last] = next
  BY <1>3, <1>2, <1>4
<1>8. ASSUME NEW k \in 1 .. last PROVE v[k] = Answered(v[k - 1], more[k])
  <2>1. CASE k = last
    <3>1. k - 1 = n /\ k - 1 # last /\ k - 1 \in 0 .. last
      BY <1>3, <1>2, <2>1
    <3>2. v[k - 1] = final /\ v[k] = next /\ more[k] = m
      BY <1>1, <1>3, <1>2, <1>7, <2>1, <3>1
    <3> HIDE DEF v
    <3> QED BY <1>6, <3>2
  <2>2. CASE k # last
    <3>1. k \in 1 .. n /\ k - 1 \in 0 .. last /\ k - 1 # last /\ k \in 0 .. last
      BY <1>3, <1>2, <2>2
    <3>2. v[k - 1] = w[k - 1] /\ v[k] = w[k]
      BY <2>2, <3>1
    <3>3. more[k] = messages[k] /\ w[k] = Answered(w[k - 1], messages[k])
      BY <1>3, <1>2, <1>4, <3>1
    <3> HIDE DEF v
    <3> QED BY <3>2, <3>3
  <2> QED BY <2>1, <2>2
<1> HIDE DEF v
<1>9. Takes(v, state, more, last)
  BY <1>7, <1>8 DEF Takes
<1> QED BY <1>3, <1>2, <1>5, <1>6, <1>7, <1>9 DEF Ends

\* Taking the first message leaves what the worker will have in the end.
LEMMA EndsFrom ==
  ASSUME NEW messages \in Seq(Message), messages # <<>>, NEW state, NEW final, Ends(state, messages, final)
  PROVE  Ends(Answered(state, Head(messages)), Tail(messages), final)
<1>1. PICK n, w : n \in Nat /\ n = Len(messages) /\ Takes(w, state, messages, n) /\ w[n] = final
  BY DEF Ends
<1>2. PICK last \in Nat : n \in Nat /\ n = last + 1
  <2>1. n # 0
    BY <1>1
  <2> QED BY <1>1, <2>1
<1>3. PICK rest, first :
        /\ rest = Tail(messages) /\ last = Len(rest) /\ first = Head(messages) /\ first = messages[1]
        /\ \A k \in 1 .. last : rest[k] = messages[k + 1]
  <2>1. last = Len(Tail(messages)) /\ Head(messages) = messages[1]
    <3>1. Len(Tail(messages)) = Len(messages) - 1
      BY HeadTailProperties, Zenon
    <3>2. Head(messages) = messages[1]
      OBVIOUS
    <3> QED BY <1>1, <1>2, <3>1, <3>2
  <2>2. \A k \in 1 .. last : Tail(messages)[k] = messages[k + 1]
    BY <2>1, HeadTailProperties
  <2> QED BY <2>1, <2>2, Zenon
<1>4. /\ w \in [0 .. n -> WorkerStates] /\ w[0] = state
      /\ \A k \in 1 .. n : w[k] = Answered(w[k - 1], messages[k])
  BY <1>1 DEF Takes
<1> DEFINE v == [k \in 0 .. last |-> w[k + 1]]
<1>5. v \in [0 .. last -> WorkerStates] /\ v[last] = final
  BY <1>1, <1>2, <1>3, <1>4
<1>6. v[0] = Answered(state, first)
  <2>1. 1 \in 1 .. n /\ 1 - 1 = 0 /\ 0 + 1 = 1
    BY <1>2, <1>3
  <2>2. w[1] = Answered(w[0], messages[1])
    BY <1>4, <2>1
  <2> QED BY <1>2, <1>3, <1>4, <2>1, <2>2
<1>7. ASSUME NEW k \in 1 .. last PROVE v[k] = Answered(v[k - 1], rest[k])
  <2>1. k + 1 \in 1 .. n /\ k + 1 - 1 = k /\ k - 1 + 1 = k /\ k \in 0 .. last /\ k - 1 \in 0 .. last
    BY <1>2, <1>3
  <2>2. w[k + 1] = Answered(w[k], messages[k + 1]) /\ rest[k] = messages[k + 1]
    BY <1>2, <1>3, <1>4, <2>1
  <2>3. v[k] = w[k + 1] /\ v[k - 1] = w[k]
    BY <2>1
  <2> HIDE DEF v
  <2> QED BY <2>2, <2>3
<1> HIDE DEF v
<1>8. Takes(v, Answered(state, first), rest, last)
  BY <1>5, <1>6, <1>7 DEF Takes
<1> QED BY <1>2, <1>3, <1>5, <1>8 DEF Ends

\* What the ring holds at a version: the newest events, the newest first.
Held(v) == IF v < capacity THEN v ELSE capacity
RowsAt(v) == [i \in 1 .. Held(v) |-> v + 1 - i]

\* The ring holds as many events as have come, and at most capacity.
LEMMA HeldType ==
  ASSUME NEW v \in Nat
  PROVE  /\ Held(v) \in Nat /\ Held(v) <= v /\ Held(v) <= capacity
         /\ v <= capacity => Held(v) = v
         /\ Held(v) = 0 <=> v = 0
  BY CapacityAssumption DEF Held

\* The events are numbered as they come.
LEMMA EventsNumbered ==
  /\ Cardinality(Item) \in Nat
  /\ \A n \in 1 .. Cardinality(Item) : n \in Item
  BY TableAssumption, FS_CardinalityType

\* The rows of the live feed are events, as many as the ring holds.
LEMMA RowsType ==
  ASSUME NEW v \in Nat, v <= Cardinality(Item)
  PROVE  /\ RowsAt(v) \in Seq(Item) /\ Len(RowsAt(v)) = Held(v)
         /\ RowsAt(v) = <<>> <=> v = 0
<1>1. PICK n \in Nat : n = Held(v) /\ n <= v /\ (n = 0 <=> v = 0)
  BY HeldType
<1>2. ASSUME NEW i \in 1 .. n PROVE v + 1 - i \in Item
  <2>1. v + 1 - i \in 1 .. Cardinality(Item)
    BY <1>1, EventsNumbered
  <2> QED BY <2>1, EventsNumbered
<1>3. RowsAt(v) = [i \in 1 .. n |-> v + 1 - i]
  BY <1>1 DEF RowsAt
<1>4. RowsAt(v) \in [1 .. n -> Item]
  BY <1>2, <1>3
<1>5. RowsAt(v) \in Seq(Item) /\ Len(RowsAt(v)) = n
  BY <1>4
<1>6. RowsAt(v) = <<>> <=> n = 0
  BY <1>5, EmptySeq
<1> QED BY <1>1, <1>5, <1>6

\* One more event is a push on the rows.
LEMMA RowsPushed ==
  ASSUME NEW v \in Nat, v < Cardinality(Item)
  PROVE  RowsAt(v + 1) = Log!Pushed(RowsAt(v), v + 1, capacity)
<1>1. PICK n \in Nat, c \in Nat : n = Held(v) /\ c = capacity /\ n <= c
  BY HeldType, CapacityAssumption
<1>2. Len(RowsAt(v)) = n /\ v <= Cardinality(Item)
  BY <1>1, RowsType, EventsNumbered
<1>3. PICK m \in Nat : m = IF n < c THEN n + 1 ELSE c
  BY <1>1
<1>4. Held(v + 1) = m
  BY <1>1, <1>3 DEF Held
<1>5. Log!Pushed(RowsAt(v), v + 1, capacity) = [i \in 1 .. m |-> IF i = 1 THEN v + 1 ELSE RowsAt(v)[i - 1]]
  BY <1>1, <1>2, <1>3 DEF Log!Pushed
<1>6. RowsAt(v + 1) = [i \in 1 .. m |-> v + 1 + 1 - i]
  BY <1>4 DEF RowsAt
<1>7. ASSUME NEW i \in 1 .. m PROVE v + 1 + 1 - i = IF i = 1 THEN v + 1 ELSE RowsAt(v)[i - 1]
  <2>1. CASE i = 1
    BY <2>1
  <2>2. CASE i # 1
    <3>1. i - 1 \in 1 .. n
      BY <1>3, <2>2
    <3>2. RowsAt(v)[i - 1] = v + 1 - (i - 1)
      BY <1>1, <3>1 DEF RowsAt
    <3> QED BY <2>2, <3>2
  <2> QED BY <2>1, <2>2
<1> QED BY <1>5, <1>6, <1>7

\* Until the ring wraps, new rows come in front of the old ones.
LEMMA RowsJoin ==
  ASSUME NEW v \in Nat, NEW w \in Nat, v <= w, w <= capacity, w <= Cardinality(Item)
  PROVE  /\ RowsAt(w) = SubSeq(RowsAt(w), 1, w - v) \o RowsAt(v)
         /\ SubSeq(RowsAt(w), 1, w - v) \in Seq(Item)
<1>1. v <= capacity /\ v <= Cardinality(Item)
  BY CapacityAssumption, EventsNumbered
<1>2. /\ RowsAt(w) \in Seq(Item) /\ Len(RowsAt(w)) = w /\ RowsAt(v) \in Seq(Item) /\ Len(RowsAt(v)) = v
      /\ RowsAt(w) = [i \in 1 .. w |-> w + 1 - i] /\ RowsAt(v) = [i \in 1 .. v |-> v + 1 - i]
  BY <1>1, RowsType, HeldType DEF RowsAt
<1>3. PICK rows \in Seq(Item), old \in Seq(Item) :
        /\ rows = RowsAt(w) /\ Len(rows) = w /\ old = RowsAt(v) /\ Len(old) = v
        /\ \A i \in 1 .. w : rows[i] = w + 1 - i /\ rows[i] \in Item
        /\ \A i \in 1 .. v : old[i] = v + 1 - i
  <2>1. PICK rows \in Seq(Item), old \in Seq(Item) : rows = RowsAt(w) /\ old = RowsAt(v)
    BY <1>2
  <2>2. Len(rows) = w /\ Len(old) = v
    BY <1>2, <2>1
  <2>3. \A i \in 1 .. w : rows[i] = w + 1 - i
    BY <1>2, <2>1
  <2>4. \A i \in 1 .. w : rows[i] \in Item
    BY <2>2, ElementOfSeq
  <2>5. \A i \in 1 .. v : old[i] = v + 1 - i
    BY <1>2, <2>1
  <2> QED BY <2>1, <2>2, <2>3, <2>4, <2>5, Zenon
<1>4. PICK d \in Nat : w = v + d /\ d = w - v
  OBVIOUS
<1>5. PICK new \in Seq(Item) : new = SubSeq(rows, 1, d) /\ Len(new) = d /\ \A i \in 1 .. d : new[i] = rows[i]
  <2>1. \A i \in 1 .. d : rows[i] \in Item
    BY <1>3, <1>4
  <2>2. d - 1 + 1 = d /\ (1 <= d \/ d = 0) /\ \A i \in 1 .. d : 1 + i - 1 = i
    OBVIOUS
  <2>3. SubSeq(rows, 1, d) \in Seq(Item) /\ Len(SubSeq(rows, 1, d)) = IF 1 <= d THEN d - 1 + 1 ELSE 0
    BY <2>1, SubSeqProperties
  <2>4. \A i \in 1 .. d : SubSeq(rows, 1, d)[i] = rows[i]
    BY <2>1, <2>2, SubSeqProperties
  <2> QED BY <2>2, <2>3, <2>4
<1>6. PICK both \in Seq(Item) : /\ both = new \o old /\ Len(both) = d + v
                                /\ \A i \in 1 .. d + v : both[i] = IF i <= d THEN new[i] ELSE old[i - d]
  <2>1. new \o old \in Seq(Item) /\ Len(new \o old) = Len(new) + Len(old)
    BY ConcatProperties
  <2>2. \A i \in 1 .. Len(new) + Len(old) : (new \o old)[i] = IF i <= Len(new) THEN new[i] ELSE old[i - Len(new)]
    BY ConcatProperties, Zenon
  <2>3. PICK both \in Seq(Item) : /\ both = new \o old /\ Len(both) = Len(new) + Len(old)
                                  /\ \A i \in 1 .. Len(new) + Len(old) :
                                       both[i] = IF i <= Len(new) THEN new[i] ELSE old[i - Len(new)]
    BY <2>1, <2>2, Zenon
  <2>4. Len(both) = d + v /\ \A i \in 1 .. d + v : both[i] = IF i <= d THEN new[i] ELSE old[i - d]
    BY <1>3, <1>5, <2>3
  <2> QED BY <2>3, <2>4, Zenon
<1>7. ASSUME NEW i \in 1 .. w PROVE rows[i] = both[i]
  <2>1. CASE i <= d
    BY <1>3, <1>4, <1>5, <1>6, <2>1
  <2>2. CASE ~(i <= d)
    <3>1. i - d \in 1 .. v /\ i \in 1 .. d + v
      BY <1>4, <2>2
    <3>2. both[i] = old[i - d] /\ old[i - d] = v + 1 - (i - d)
      BY <1>3, <1>6, <2>2, <3>1
    <3> QED BY <1>3, <1>4, <3>2
  <2> QED BY <2>1, <2>2
<1>8. rows = both
  BY <1>3, <1>4, <1>6, <1>7, SeqEqual
<1> QED BY <1>3, <1>4, <1>5, <1>6, <1>8, Zenon

\* The rows that are there at a version.
RowsOf(snapshot, v) == IF snapshot # undefined THEN snapshot ELSE RowsAt(v)

\* The rows of a snapshot or of the live feed are a list of events.
LEMMA RowsOfType ==
  ASSUME NEW s \in Snapshots, NEW v \in Nat, v <= Cardinality(Item)
  PROVE  /\ RowsOf(s, v) \in Seq(Item) /\ Len(RowsOf(s, v)) \in Nat
         /\ RowsOf(s, v) = <<>> <=> Len(RowsOf(s, v)) = 0
         /\ s = undefined => Len(RowsOf(s, v)) = Held(v) /\ (RowsOf(s, v) = <<>> <=> v = 0)
<1>1. RowsOf(s, v) \in Seq(Item)
  <2>1. s # undefined => s \in Seq(Item)
    BY TableAssumption
  <2>2. RowsAt(v) \in Seq(Item)
    BY RowsType
  <2> QED BY <2>1, <2>2 DEF RowsOf
<1>2. s = undefined => RowsOf(s, v) = RowsAt(v)
  BY DEF RowsOf
<1>3. \A rows \in Seq(Item) : Len(rows) \in Nat /\ (rows = <<>> <=> Len(rows) = 0)
  BY EmptySeq
<1>4. Len(RowsOf(s, v)) \in Nat /\ (RowsOf(s, v) = <<>> <=> Len(RowsOf(s, v)) = 0)
  BY <1>1, <1>3, Zenon
<1>5. s = undefined => Len(RowsOf(s, v)) = Held(v) /\ (RowsOf(s, v) = <<>> <=> v = 0)
  BY <1>2, RowsType, Zenon
<1> QED BY <1>1, <1>4, <1>5

-----------------------------------------------------------------------------
(* The numbers of messages and answers *)

\* Messages are numbered in the order they are answered and shown.
Answer == [id : Nat, rows : Seq(Item)]
Numbered(q, r, last, pending) ==
  /\ last <= pending
  /\ \A i \in DOMAIN r : last < r[i].id /\ r[i].id <= pending
  /\ \A i \in DOMAIN q : q[i].type # "reset" => last < q[i].id /\ q[i].id <= pending
  /\ \A i, j \in DOMAIN r : i < j => r[i].id < r[j].id
  /\ \A i \in DOMAIN q, j \in DOMAIN r : q[i].type # "reset" => r[j].id < q[i].id
  /\ \A i, j \in DOMAIN q : i < j /\ q[i].type # "reset" /\ q[j].type # "reset" => q[i].id < q[j].id

\* t is s with one more at its end
Appended(s, e, n, t) ==
  /\ t = Append(s, e) /\ n = Len(s) /\ n + 1 = Len(t) /\ t[n + 1] = e /\ t # <<>>
  /\ DOMAIN s = 1 .. n /\ DOMAIN t = 1 .. n + 1
  /\ \A i \in 1 .. n : t[i] = s[i]

\* Append, index by index.
LEMMA AppendAt ==
  ASSUME NEW S, NEW s \in Seq(S), NEW e \in S
  PROVE  \E n \in Nat, t \in Seq(S) : Appended(s, e, n, t)
<1>1. PICK n \in Nat : n = Len(s)
  OBVIOUS
<1>2. PICK t \in Seq(S) : t = Append(s, e)
  BY AppendProperties
<1>3. n + 1 = Len(t) /\ t[n + 1] = e /\ t # <<>> /\ \A i \in 1 .. n : t[i] = s[i]
  BY <1>1, <1>2, AppendProperties
<1>4. DOMAIN s = 1 .. n /\ DOMAIN t = 1 .. n + 1
  BY <1>1, <1>3
<1> QED BY <1>1, <1>2, <1>3, <1>4, Zenon DEF Appended

\* Tail, index by index.
LEMMA TailAt ==
  ASSUME NEW S, NEW s \in Seq(S), s # <<>>
  PROVE  \E n \in Nat, t \in Seq(S), e \in S :
           /\ t = Tail(s) /\ e = Head(s) /\ e = s[1] /\ n = Len(t) /\ n + 1 = Len(s)
           /\ DOMAIN s = 1 .. n + 1 /\ DOMAIN t = 1 .. n
           /\ (t = <<>> <=> n = 0)
           /\ \A i \in 1 .. n : t[i] = s[i + 1]
<1>1. PICK t \in Seq(S), e \in S : t = Tail(s) /\ e = Head(s)
  BY HeadTailProperties
<1>2. PICK n \in Nat : n = Len(t)
  OBVIOUS
<1>3. Len(Tail(s)) = Len(s) - 1 /\ \A i \in 1 .. Len(Tail(s)) : Tail(s)[i] = s[i + 1]
  BY HeadTailProperties
<1>4. n + 1 = Len(s) /\ \A i \in 1 .. n : t[i] = s[i + 1]
  BY <1>1, <1>2, <1>3
<1>5. e = s[1] /\ DOMAIN s = 1 .. n + 1 /\ DOMAIN t = 1 .. n
  BY <1>1, <1>2, <1>4
<1>6. t = <<>> <=> n = 0
  BY <1>2, EmptySeq
<1> QED BY <1>1, <1>2, <1>4, <1>5, <1>6, Zenon

\* A question takes the next number.
LEMMA NumbersPosted ==
  ASSUME NEW q \in Seq(Message), NEW r \in Seq(Answer), NEW last \in Nat, NEW pending \in Nat,
         Numbered(q, r, last, pending), NEW m \in Message, m.type # "reset", m.id = pending + 1
  PROVE  Numbered(Append(q, m), r, last, pending + 1)
<1>1. PICK n \in Nat, t \in Seq(Message) : Appended(q, m, n, t)
  BY AppendAt
<1>2. /\ t = Append(q, m) /\ n = Len(q) /\ n + 1 = Len(t) /\ t[n + 1] = m
      /\ DOMAIN q = 1 .. n /\ DOMAIN t = 1 .. n + 1
      /\ \A i \in 1 .. n : t[i] = q[i]
  BY <1>1 DEF Appended
<1>3. ASSUME NEW i \in 1 .. n, q[i].type # "reset" PROVE q[i].id \in Nat
  <2>1. q[i] \in Message
    BY <1>2, <1>3
  <2> QED BY <1>3, <2>1 DEF Message, FilterMessages
<1>4. \A i \in DOMAIN r : r[i].id \in Nat
  <2>1. \A i \in DOMAIN r : r[i] \in Answer
    OBVIOUS
  <2> QED BY <2>1 DEF Answer
<1>5. last <= pending + 1
  BY DEF Numbered
<1>6. \A i \in DOMAIN r : last < r[i].id /\ r[i].id <= pending + 1
  BY <1>4 DEF Numbered
<1>7. ASSUME NEW i \in DOMAIN t, t[i].type # "reset"
      PROVE last < t[i].id /\ t[i].id <= pending + 1 /\ \A j \in DOMAIN r : r[j].id < t[i].id
  <2>1. CASE i = n + 1
    BY <1>2, <1>4, <2>1 DEF Numbered
  <2>2. CASE i \in 1 .. n
    BY <1>2, <1>3, <1>7, <2>2 DEF Numbered
  <2> QED BY <1>2, <2>1, <2>2
<1>8. \A i, j \in DOMAIN r : i < j => r[i].id < r[j].id
  BY DEF Numbered
<1>9. ASSUME NEW i \in DOMAIN t, NEW j \in DOMAIN t, i < j, t[i].type # "reset", t[j].type # "reset"
      PROVE t[i].id < t[j].id
  <2>1. i \in 1 .. n /\ q[i].type # "reset" /\ t[i] = q[i]
    BY <1>2, <1>9
  <2>2. CASE j = n + 1
    BY <1>2, <1>3, <2>1, <2>2 DEF Numbered
  <2>3. CASE j \in 1 .. n
    BY <1>2, <1>9, <2>1, <2>3 DEF Numbered
  <2> QED BY <1>2, <2>2, <2>3
<1>10. Numbered(t, r, last, pending + 1)
  BY <1>5, <1>6, <1>7, <1>8, <1>9 DEF Numbered
<1> QED BY <1>2, <1>10

\* A reset takes no number.
LEMMA NumbersReset ==
  ASSUME NEW q \in Seq(Message), NEW r, NEW last, NEW pending,
         Numbered(q, r, last, pending), NEW m \in Message, m.type = "reset"
  PROVE  Numbered(Append(q, m), r, last, pending)
<1>1. PICK n \in Nat, t \in Seq(Message) : Appended(q, m, n, t)
  BY AppendAt
<1>2. /\ t = Append(q, m) /\ n = Len(q) /\ n + 1 = Len(t) /\ t[n + 1] = m
      /\ DOMAIN q = 1 .. n /\ DOMAIN t = 1 .. n + 1
      /\ \A i \in 1 .. n : t[i] = q[i]
  BY <1>1 DEF Appended
<1>3. \A i \in DOMAIN t : t[i].type # "reset" => i \in DOMAIN q /\ t[i] = q[i]
  BY <1>2
<1>4. Numbered(t, r, last, pending)
  BY <1>3 DEF Numbered
<1> QED BY <1>2, <1>4

\* The worker answers its first question under that number.
LEMMA NumbersTaken ==
  ASSUME NEW q \in Seq(Message), q # <<>>, NEW r \in Seq(Answer), NEW last \in Nat, NEW pending \in Nat,
         Numbered(q, r, last, pending)
  PROVE  /\ Numbered(Tail(q), r, last, pending)
         /\ Head(q).type # "reset" =>
              \A a \in Answer : a.id = Head(q).id => Numbered(Tail(q), Append(r, a), last, pending)
<1>1. PICK n \in Nat, t \in Seq(Message), e \in Message :
           /\ t = Tail(q) /\ e = Head(q) /\ e = q[1] /\ n = Len(t) /\ n + 1 = Len(q)
           /\ DOMAIN q = 1 .. n + 1 /\ DOMAIN t = 1 .. n
           /\ \A i \in 1 .. n : t[i] = q[i + 1]
  BY TailAt
<1>2. /\ 1 \in DOMAIN q /\ \A i \in DOMAIN t : i \in Int /\ i + 1 \in DOMAIN q /\ t[i] = q[i + 1] /\ 1 < i + 1
      /\ \A i, j \in DOMAIN t : i < j => i + 1 < j + 1
  BY <1>1
<1>3. Numbered(t, r, last, pending)
  BY <1>2 DEF Numbered
<1>4. ASSUME e.type # "reset", NEW a \in Answer, a.id = e.id PROVE Numbered(t, Append(r, a), last, pending)
  <2>1. PICK m \in Nat, s \in Seq(Answer) : Appended(r, a, m, s)
    BY AppendAt
  <2>2. /\ s = Append(r, a) /\ m = Len(r) /\ m + 1 = Len(s) /\ s[m + 1] = a
        /\ DOMAIN r = 1 .. m /\ DOMAIN s = 1 .. m + 1
        /\ \A i \in 1 .. m : s[i] = r[i]
    BY <2>1 DEF Appended
  <2>3. /\ last < a.id /\ a.id <= pending /\ \A j \in DOMAIN r : r[j].id < a.id
        /\ \A i \in DOMAIN t : t[i].type # "reset" => a.id < t[i].id
    BY <1>1, <1>2, <1>4 DEF Numbered
  <2>4. \A i \in DOMAIN s : s[i] = a \/ (i \in DOMAIN r /\ s[i] = r[i])
    BY <2>2
  <2>5. \A i, j \in DOMAIN s : i < j => i \in DOMAIN r /\ s[i] = r[i] /\ (s[j] = a \/ (j \in DOMAIN r /\ s[j] = r[j]))
    BY <2>2
  <2>6. Numbered(t, s, last, pending)
    <3>1. last <= pending /\ \A i \in DOMAIN t : t[i].type # "reset" => last < t[i].id /\ t[i].id <= pending
      BY <1>3 DEF Numbered
    <3>2. \A i \in DOMAIN s : last < s[i].id /\ s[i].id <= pending
      BY <2>3, <2>4 DEF Numbered
    <3>3. \A i, j \in DOMAIN s : i < j => s[i].id < s[j].id
      BY <2>3, <2>5 DEF Numbered
    <3>4. \A i \in DOMAIN t, j \in DOMAIN s : t[i].type # "reset" => s[j].id < t[i].id
      BY <1>3, <2>3, <2>4 DEF Numbered
    <3>5. \A i, j \in DOMAIN t : i < j /\ t[i].type # "reset" /\ t[j].type # "reset" => t[i].id < t[j].id
      BY <1>3 DEF Numbered
    <3> QED BY <3>1, <3>2, <3>3, <3>4, <3>5 DEF Numbered
  <2> QED BY <2>2, <2>6
<1> QED BY <1>1, <1>3, <1>4

\* The first answer is newer than the last one shown.
LEMMA NumbersShown ==
  ASSUME NEW q \in Seq(Message), NEW r \in Seq(Answer), r # <<>>, NEW last \in Nat, NEW pending \in Nat,
         Numbered(q, r, last, pending)
  PROVE  Head(r).id > last /\ Numbered(q, Tail(r), Head(r).id, pending)
<1>1. PICK n \in Nat, t \in Seq(Answer), e \in Answer :
           /\ t = Tail(r) /\ e = Head(r) /\ e = r[1] /\ n = Len(t) /\ n + 1 = Len(r)
           /\ DOMAIN r = 1 .. n + 1 /\ DOMAIN t = 1 .. n
           /\ \A i \in 1 .. n : t[i] = r[i + 1]
  BY TailAt
<1>2. /\ 1 \in DOMAIN r /\ \A i \in DOMAIN t : i \in Int /\ i + 1 \in DOMAIN r /\ t[i] = r[i + 1] /\ 1 < i + 1
      /\ \A i, j \in DOMAIN t : i < j => i + 1 < j + 1
  BY <1>1
<1>3. e.id \in Nat
  BY DEF Answer
<1>4. last < e.id /\ e.id <= pending /\ \A i \in DOMAIN q : q[i].type # "reset" => e.id < q[i].id
  BY <1>1, <1>2 DEF Numbered
<1>5. Numbered(q, t, e.id, pending)
  <2>1. \A i \in DOMAIN t : e.id < t[i].id /\ t[i].id <= pending
    BY <1>1, <1>2 DEF Numbered
  <2>2. \A i, j \in DOMAIN t : i < j => t[i].id < t[j].id
    BY <1>2 DEF Numbered
  <2>3. \A i \in DOMAIN q, j \in DOMAIN t : q[i].type # "reset" => t[j].id < q[i].id
    BY <1>2 DEF Numbered
  <2>4. \A i \in DOMAIN q : q[i].type # "reset" => e.id < q[i].id /\ q[i].id <= pending
    BY <1>4 DEF Numbered
  <2>5. \A i, j \in DOMAIN q : i < j /\ q[i].type # "reset" /\ q[j].type # "reset" => q[i].id < q[j].id
    BY DEF Numbered
  <2> QED BY <1>4, <2>1, <2>2, <2>3, <2>4, <2>5 DEF Numbered
<1> QED BY <1>1, <1>3, <1>4, <1>5

-----------------------------------------------------------------------------
(* The invariant *)

\* what the page remembers of its last question
Asked == [query : Query, version : Nat, length : Nat]

TableTypes ==
  /\ TypeOK
  /\ eventVersion \in Nat /\ eventVersion <= Cardinality(Item)
  /\ snapshotData \in Snapshots /\ searchQuery \in Query /\ overrides \in SUBSET Fields
  /\ lastFiltered \in Asked /\ filteredAll \in Int
  /\ requests \in Seq(Message) /\ responses \in Seq(Answer) /\ worker \in WorkerStates
  /\ pendingRequestId \in Nat /\ lastCompletedRequestId \in Nat

\* The rows there are, and that none are shown before one came.
RowsNow ==
  /\ currentRows = RowsOf(snapshotData, eventVersion)
  /\ ~isSnapshotMode /\ eventVersion = 0 =>
       filteredEvents = <<>> /\ responses = <<>> /\ \A k \in DOMAIN requests : requests[k].type = "reset"

\* A timer that runs will ask for what is there now.
TimerInv ==
  debounce # undefined =>
    /\ needsFiltering /\ hasData
    /\ debounce = [query |-> searchQuery, version |-> eventVersion, length |-> Len(currentRows)]

\* What was asked for last.
AskedInv ==
  /\ ~needsFiltering => lastFiltered.query = ""
  /\ lastFiltered.query = "" => lastFiltered.version = 0 /\ lastFiltered.length = 0
  /\ lastFiltered.query # "" =>
       /\ lastSnapshotDataRef \in Snapshots \ {<<>>}
       /\ lastSnapshotDataRef = undefined <=> snapshotData = undefined
       /\ lastFiltered.length = Len(RowsOf(lastSnapshotDataRef, lastFiltered.version))
       /\ lastFiltered.version <= eventVersion /\ filteredAll <= lastFiltered.version
  /\ filteredAll <= eventVersion

\* Without a timer it is what is searched for now.
CurrentInv ==
  needsFiltering /\ hasData /\ debounce = undefined =>
    /\ lastFiltered.query = searchQuery /\ lastSnapshotDataRef = snapshotData
    /\ ~isSnapshotMode /\ eventVersion <= capacity => lastFiltered.version = eventVersion

NumbersInv == Numbered(requests, responses, lastCompletedRequestId, pendingRequestId)

\* What the worker has in the end is what will be shown.
Shows(q, r, rows, filtered, received) ==
  IF q # <<>> THEN q[Len(q)].type # "reset"
  ELSE IF r # <<>> THEN r[Len(r)].rows = rows
  ELSE filtered = rows /\ received = TRUE
ShownInv ==
  lastFiltered.length # 0 => Shows(requests, responses, worker.rows, filteredEvents, hasReceivedFilterResult)

\* and that is what was asked for.
Due(final) ==
  /\ lastFiltered.length # 0 /\ filteredAll # -1
  /\ snapshotData # undefined \/ lastFiltered.version <= capacity \/ filteredAll = lastFiltered.version
  => /\ final.rows = Matches(RowsOf(lastSnapshotDataRef, lastFiltered.version), lastFiltered.query, visibleFields)
     /\ final.query = lastFiltered.query /\ final.columns = visibleFields
FutureInv == \E final \in WorkerStates : Ends(worker, requests, final) /\ Due(final)

TableInv ==
  /\ TableTypes /\ RowsNow /\ TimerInv /\ AskedInv /\ CurrentInv
  /\ NumbersInv /\ ShownInv /\ FutureInv

-----------------------------------------------------------------------------
(* What the invariant gives *)

\* The invariant says what a settled table shows.
LEMMA SettledFollows == TableInv => SettledTableIsRight
<1> SUFFICES ASSUME TableInv, needsFiltering, Quiet, hasData, NotWrapped, filteredAll # -1
             PROVE  LET found == Matches(currentRows, searchQuery, visibleFields)
                    IN  displayEvents = SortedBy(found, sort) /\ matchIndices = DOMAIN found
  BY DEF SettledTableIsRight
<1> DEFINE found == Matches(currentRows, searchQuery, visibleFields)
<1>1. /\ searchQuery # "" /\ searchModeFilter /\ debounce = undefined /\ requests = <<>> /\ responses = <<>>
      /\ lastFiltered.query = searchQuery /\ lastSnapshotDataRef = snapshotData
      /\ ~isSnapshotMode /\ eventVersion <= capacity => lastFiltered.version = eventVersion
  BY DEF TableInv, CurrentInv, needsFiltering, Quiet
<1>2. lastFiltered.query \in Query /\ lastFiltered.version \in Nat /\ lastFiltered.length \in Nat
      /\ eventVersion \in Nat /\ eventVersion <= Cardinality(Item) /\ snapshotData \in Snapshots /\ filteredAll \in Int
      /\ capacity \in Nat
  BY CapacityAssumption DEF TableInv, TableTypes, Asked
<1>3. /\ lastFiltered.length = Len(RowsOf(snapshotData, lastFiltered.version))
      /\ lastFiltered.version <= eventVersion /\ filteredAll <= lastFiltered.version
      /\ snapshotData # <<>>
  BY <1>1 DEF TableInv, AskedInv
<1>4. snapshotData # undefined \/ lastFiltered.version = eventVersion
  <2>1. isSnapshotMode \/ eventVersion <= capacity \/ filteredAll = eventVersion
    BY DEF NotWrapped
  <2>2. CASE eventVersion <= capacity
    BY <1>1, <2>2 DEF isSnapshotMode
  <2>3. CASE filteredAll = eventVersion
    <3>1. \A a, b, c \in Int : a = c /\ a <= b /\ b <= c => b = c
      OBVIOUS
    <3> QED BY <1>2, <1>3, <2>3, <3>1
  <2> QED BY <2>1, <2>2, <2>3 DEF isSnapshotMode
<1>5. currentRows = RowsOf(snapshotData, lastFiltered.version)
  <2>1. currentRows = RowsOf(snapshotData, eventVersion)
    BY DEF TableInv, RowsNow
  <2> QED BY <1>4, <2>1 DEF RowsOf
<1>6. PICK final \in WorkerStates : Ends(worker, requests, final) /\ Due(final)
  BY DEF TableInv, FutureInv
<1>7. final = worker
  BY <1>1, <1>6, EndsNow
<1>8. /\ RowsOf(snapshotData, lastFiltered.version) = <<>> <=> lastFiltered.length = 0
      /\ snapshotData = undefined => (RowsOf(snapshotData, lastFiltered.version) = <<>> <=> lastFiltered.version = 0)
  <2>1. lastFiltered.version <= Cardinality(Item)
    BY <1>2, <1>3, EventsNumbered
  <2>2. \A v \in Nat : v <= Cardinality(Item) =>
          /\ RowsOf(snapshotData, v) = <<>> <=> Len(RowsOf(snapshotData, v)) = 0
          /\ snapshotData = undefined => (RowsOf(snapshotData, v) = <<>> <=> v = 0)
    BY <1>2, RowsOfType
  <2> QED BY <1>2, <1>3, <2>1, <2>2, Zenon
<1>9. CASE lastFiltered.length # 0
  <2>1. snapshotData # undefined \/ lastFiltered.version <= capacity \/ filteredAll = lastFiltered.version
    <3>1. isSnapshotMode \/ eventVersion <= capacity \/ filteredAll = eventVersion
      BY DEF NotWrapped
    <3> QED BY <1>3, <1>4, <3>1 DEF isSnapshotMode
  <2>2. worker.rows = found
    BY <1>1, <1>5, <1>6, <1>7, <1>9, <2>1 DEF Due
  <2>3. filteredEvents = found /\ hasReceivedFilterResult = TRUE
    BY <1>1, <1>9, <2>2 DEF TableInv, ShownInv, Shows
  <2> HIDE DEF found
  <2>4. unsortedEvents = found
    BY <2>3 DEF unsortedEvents
  <2>5. displayEvents = SortedBy(found, sort)
    BY <2>4 DEF displayEvents
  <2>6. matchIndices = DOMAIN found
    BY <1>1, <2>3 DEF matchIndices
  <2> QED BY <2>5, <2>6 DEF found
<1>10. CASE lastFiltered.length = 0
  <2>1. currentRows = <<>>
    BY <1>5, <1>8, <1>10
  <2>2. snapshotData = undefined
    <3>1. ASSUME snapshotData # undefined PROVE FALSE
      <4>1. currentRows = snapshotData
        BY <1>5, <3>1 DEF RowsOf
      <4> QED BY <1>3, <2>1, <4>1
    <3> QED BY <3>1
  <2>3. eventVersion = 0
    BY <1>4, <1>8, <1>10, <2>2
  <2>4. filteredEvents = <<>>
    BY <2>2, <2>3 DEF TableInv, RowsNow, isSnapshotMode
  <2>5. found = <<>>
    BY <2>1, MatchesOfNone
  <2> HIDE DEF found
  <2>6. unsortedEvents = <<>>
    BY <2>1, <2>4 DEF unsortedEvents
  <2>7. displayEvents = SortedBy(<<>>, sort)
    BY <2>6 DEF displayEvents
  <2>8. matchIndices = DOMAIN <<>>
    BY <1>1, <2>4 DEF matchIndices
  <2> QED BY <2>5, <2>7, <2>8 DEF found
<1> QED BY <1>9, <1>10, <1>2

-----------------------------------------------------------------------------
(* The start, and changes that ask nothing *)

\* It holds at the start.
LEMMA TableStarts == TableInit => TableInv
<1> SUFFICES ASSUME TableInit PROVE TableInv
  OBVIOUS
<1>1. /\ Init /\ eventVersion = 0 /\ snapshotData \in Snapshots /\ searchQuery = "" /\ overrides = {}
      /\ lastFiltered.query = "" /\ lastFiltered.version = 0 /\ lastFiltered.length = 0 /\ lastFiltered \in Asked
      /\ debounce = undefined /\ requests = <<>> /\ responses = <<>> /\ worker \in WorkerStates
      /\ pendingRequestId = 0 /\ lastCompletedRequestId = 0 /\ filteredEvents = <<>> /\ filteredAll = -1
  <2>1. "" \in Query
    BY TableAssumption
  <2>2. NeverFiltered \in Asked
    BY <2>1 DEF NeverFiltered, Asked
  <2>3. EmptyWorker \in WorkerStates
    <3>1. <<>> \in Seq(Item) /\ {} \in SUBSET Fields
      OBVIOUS
    <3> QED BY <2>1, <3>1 DEF EmptyWorker, WorkerStates
  <2>4. NeverFiltered.query = "" /\ NeverFiltered.version = 0 /\ NeverFiltered.length = 0
    BY DEF NeverFiltered
  <2> QED BY <2>2, <2>3, <2>4, Zenon DEF TableInit
<1>2. TypeOK /\ length = 0
  <2>1. Init
    BY <1>1
  <2> QED BY <2>1, CapacityAssumption DEF Init, TypeOK, Slots
<1>3. TableTypes
  <2>1. "" \in Query /\ {} \in SUBSET Fields
    BY TableAssumption
  <2>2. <<>> \in Seq(Message) /\ <<>> \in Seq(Answer)
    BY EmptySeq
  <2>3. 0 \in Nat /\ 0 <= Cardinality(Item) /\ -1 \in Int
    BY EventsNumbered
  <2> QED BY <1>1, <1>2, <2>1, <2>2, <2>3, Zenon DEF TableTypes
<1>4. RowsNow
  <2>1. toArray = <<>>
    BY <1>2 DEF toArray, slice
  <2>2. RowsAt(0) = <<>>
    <3>1. 0 \in Nat /\ 0 <= Cardinality(Item)
      BY EventsNumbered
    <3> QED BY <3>1, RowsType
  <2>3. DOMAIN requests = {}
    <3>1. DOMAIN <<>> = {}
      OBVIOUS
    <3> QED BY <1>1, <3>1, Zenon
  <2>4. currentRows = RowsOf(snapshotData, eventVersion)
    BY <1>1, <2>1, <2>2 DEF currentRows, isSnapshotMode, RowsOf
  <2> QED BY <1>1, <2>3, <2>4 DEF RowsNow
<1>5. TimerInv /\ AskedInv /\ CurrentInv /\ ShownInv
  <2>1. ~needsFiltering
    BY <1>1 DEF needsFiltering
  <2>2. filteredAll <= eventVersion
    <3>1. -1 <= 0
      OBVIOUS
    <3> QED BY <1>1, <3>1, Zenon
  <2> QED BY <1>1, <2>1, <2>2, Zenon DEF TimerInv, AskedInv, CurrentInv, ShownInv
<1>6. NumbersInv
  <2>1. DOMAIN <<>> = {}
    OBVIOUS
  <2>2. Numbered(<<>>, <<>>, 0, 0)
    BY <2>1 DEF Numbered
  <2> QED BY <1>1, <2>2, Zenon DEF NumbersInv
<1>7. Ends(worker, <<>>, worker)
  <2> DEFINE w == [k \in 0 .. 0 |-> worker]
  <2>1. w \in [0 .. 0 -> WorkerStates] /\ w[0] = worker
    <3>1. worker \in WorkerStates
      BY <1>1, Zenon
    <3> QED BY <3>1
  <2> HIDE DEF w
  <2>2. Takes(w, worker, <<>>, 0) /\ w[0] = worker /\ 0 = Len(<<>>)
    <3>1. \A k \in 1 .. 0 : w[k] = Answered(w[k - 1], <<>>[k])
      OBVIOUS
    <3>2. 0 = Len(<<>>)
      OBVIOUS
    <3> QED BY <2>1, <3>1, <3>2 DEF Takes
  <2> QED BY <2>2 DEF Ends
<1>8. FutureInv
  BY <1>1, <1>7 DEF FutureInv, Due
<1> QED BY <1>3, <1>4, <1>5, <1>6, <1>8 DEF TableInv

\* What a change of the events, of the search or of the columns leaves.
Changed ==
  /\ TypeOK' /\ eventVersion' \in Nat /\ eventVersion <= eventVersion' /\ eventVersion' <= Cardinality(Item)
  /\ snapshotData' \in Snapshots /\ (snapshotData' = undefined <=> snapshotData = undefined)
  /\ searchQuery' \in Query /\ overrides' \in SUBSET Fields
  /\ filteredAll' \in {filteredAll, -1} /\ (filteredAll' # -1 => overrides' = overrides)
  /\ currentRows' = RowsOf(snapshotData', eventVersion')
  /\ worker' = worker /\ responses' = responses /\ lastCompletedRequestId' = lastCompletedRequestId

\* and what most of its effects leave
NothingAsked ==
  /\ lastFiltered' = lastFiltered /\ lastSnapshotDataRef' = lastSnapshotDataRef
  /\ filteredEvents' = filteredEvents /\ hasReceivedFilterResult' = hasReceivedFilterResult
  /\ pendingRequestId' = pendingRequestId /\ requests' = requests

\* The types the steps rely on.
LEMMA TypeFacts ==
  ASSUME TableInv
  PROVE  /\ eventVersion \in Nat /\ filteredAll \in Int /\ lastFiltered.query \in Query
         /\ lastFiltered.version \in Nat /\ lastFiltered.length \in Nat
         /\ capacity \in Nat /\ eventVersion <= Cardinality(Item) /\ Cardinality(Item) \in Nat
         /\ snapshotData \in Snapshots /\ pendingRequestId \in Nat /\ lastCompletedRequestId \in Nat
         /\ requests \in Seq(Message) /\ responses \in Seq(Answer) /\ worker \in WorkerStates
BY CapacityAssumption, EventsNumbered DEF TableInv, TableTypes, Asked

\* A change that asks the worker nothing keeps each part of the invariant.
LEMMA QuietTypes ==
  ASSUME TableInv, Changed, NothingAsked PROVE TableTypes'
<1>1. lastFiltered \in Asked /\ requests \in Seq(Message) /\ responses \in Seq(Answer) /\ worker \in WorkerStates
      /\ pendingRequestId \in Nat /\ lastCompletedRequestId \in Nat /\ filteredAll \in Int
  BY DEF TableInv, TableTypes
<1>2. filteredAll' \in Int
  <2>1. filteredAll' = filteredAll \/ filteredAll' = -1
    BY DEF Changed
  <2>2. -1 \in Int
    OBVIOUS
  <2> QED BY <1>1, <2>1, <2>2
<1> QED BY <1>1, <1>2, Zenon DEF Changed, NothingAsked, TableTypes

LEMMA QuietRows ==
  ASSUME TableInv, Changed, NothingAsked PROVE RowsNow'
<1>1. currentRows' = RowsOf(snapshotData', eventVersion')
  BY DEF Changed
<1>2. ASSUME snapshotData' = undefined, eventVersion' = 0
      PROVE  filteredEvents' = <<>> /\ responses' = <<>> /\ \A k \in DOMAIN requests' : requests'[k].type = "reset"
  <2>1. snapshotData = undefined /\ eventVersion = 0
    BY <1>2, TypeFacts DEF Changed
  <2>2. filteredEvents = <<>> /\ responses = <<>> /\ \A k \in DOMAIN requests : requests[k].type = "reset"
    BY <2>1 DEF TableInv, RowsNow, isSnapshotMode
  <2> QED BY <2>2 DEF Changed, NothingAsked
<1> QED BY <1>1, <1>2 DEF RowsNow, isSnapshotMode

LEMMA QuietAsked ==
  ASSUME TableInv, Changed, NothingAsked, ~needsFiltering' => ~needsFiltering PROVE AskedInv'
<1>1. ~needsFiltering' => lastFiltered'.query = ""
  BY DEF TableInv, AskedInv, NothingAsked
<1>2. lastFiltered'.query = "" => lastFiltered'.version = 0 /\ lastFiltered'.length = 0
  BY DEF TableInv, AskedInv, NothingAsked
<1>3. filteredAll' <= eventVersion'
  <2>1. filteredAll <= eventVersion /\ eventVersion <= eventVersion' /\ (filteredAll' = filteredAll \/ filteredAll' = -1)
    BY DEF TableInv, AskedInv, Changed
  <2>2. eventVersion \in Nat /\ eventVersion' \in Nat /\ filteredAll \in Int
    BY TypeFacts, QuietTypes DEF TableTypes, Changed
  <2>3. \A a \in Int, b, c \in Nat : a <= b /\ b <= c => a <= c /\ -1 <= c
    OBVIOUS
  <2> QED BY <2>1, <2>2, <2>3
<1>4. ASSUME lastFiltered'.query # ""
      PROVE  /\ lastSnapshotDataRef' \in Snapshots \ {<<>>}
             /\ lastSnapshotDataRef' = undefined <=> snapshotData' = undefined
             /\ lastFiltered'.length = Len(RowsOf(lastSnapshotDataRef', lastFiltered'.version))
             /\ lastFiltered'.version <= eventVersion' /\ filteredAll' <= lastFiltered'.version
  <2>1. /\ lastSnapshotDataRef \in Snapshots \ {<<>>}
        /\ lastSnapshotDataRef = undefined <=> snapshotData = undefined
        /\ lastFiltered.length = Len(RowsOf(lastSnapshotDataRef, lastFiltered.version))
        /\ lastFiltered.version <= eventVersion /\ filteredAll <= lastFiltered.version
    BY <1>4 DEF TableInv, AskedInv, NothingAsked
  <2>2. eventVersion \in Nat /\ eventVersion' \in Nat /\ filteredAll \in Int /\ lastFiltered.version \in Nat
        /\ eventVersion <= eventVersion' /\ (filteredAll' = filteredAll \/ filteredAll' = -1)
    BY TypeFacts, QuietTypes DEF TableTypes, Changed
  <2>3. \A a, b, c \in Nat : -1 <= a /\ (a <= b /\ b <= c => a <= c)
    OBVIOUS
  <2>4. lastFiltered.version <= eventVersion' /\ filteredAll' <= lastFiltered.version
    BY <2>1, <2>2, <2>3
  <2>5. lastFiltered' = lastFiltered /\ lastSnapshotDataRef' = lastSnapshotDataRef
        /\ (snapshotData' = undefined <=> snapshotData = undefined)
    BY DEF Changed, NothingAsked
  <2> QED BY <2>1, <2>4, <2>5, Zenon
<1> QED BY <1>1, <1>2, <1>3, <1>4 DEF AskedInv

\* What the worker will have after a step, for the rows then asked about.
LEMMA FutureNext ==
  ASSUME NEW end \in WorkerStates, Ends(worker', requests', end),
         /\ lastFiltered'.length # 0 /\ filteredAll' # -1
         /\ snapshotData' # undefined \/ lastFiltered'.version <= capacity \/ filteredAll' = lastFiltered'.version
         => /\ end.rows = Matches(RowsOf(lastSnapshotDataRef', lastFiltered'.version), lastFiltered'.query, visibleFields')
            /\ end.query = lastFiltered'.query /\ end.columns = visibleFields'
  PROVE  FutureInv'
BY DEF FutureInv, Due

LEMMA QuietMessages ==
  ASSUME TableInv, Changed, NothingAsked PROVE NumbersInv' /\ ShownInv' /\ FutureInv'
<1>1. NumbersInv'
  BY DEF TableInv, NumbersInv, Changed, NothingAsked
<1>2. ShownInv'
  BY DEF TableInv, ShownInv, Changed, NothingAsked
<1>3. FutureInv'
  <2>1. PICK final \in WorkerStates : Ends(worker, requests, final) /\ Due(final)
    BY DEF TableInv, FutureInv
  <2>2. Ends(worker', requests', final)
    BY <2>1 DEF Changed, NothingAsked
  <2>3. ASSUME lastFiltered'.length # 0, filteredAll' # -1,
               snapshotData' # undefined \/ lastFiltered'.version <= capacity \/ filteredAll' = lastFiltered'.version
        PROVE  /\ final.rows = Matches(RowsOf(lastSnapshotDataRef', lastFiltered'.version), lastFiltered'.query, visibleFields')
               /\ final.query = lastFiltered'.query /\ final.columns = visibleFields'
    <3>1. /\ lastFiltered' = lastFiltered /\ lastSnapshotDataRef' = lastSnapshotDataRef
          /\ (snapshotData' = undefined <=> snapshotData = undefined)
          /\ filteredAll' = filteredAll /\ overrides' = overrides
      BY <2>3 DEF Changed, NothingAsked
    <3>2. visibleFields' = visibleFields
      BY <3>1 DEF visibleFields
    <3>3. lastFiltered.length # 0 /\ filteredAll # -1
          /\ (snapshotData # undefined \/ lastFiltered.version <= capacity \/ filteredAll = lastFiltered.version)
      BY <2>3, <3>1
    <3>4. /\ final.rows = Matches(RowsOf(lastSnapshotDataRef, lastFiltered.version), lastFiltered.query, visibleFields)
          /\ final.query = lastFiltered.query /\ final.columns = visibleFields
      BY <2>1, <3>3 DEF Due
    <3> QED BY <3>1, <3>2, <3>4
  <2> QED BY <2>2, <2>3, FutureNext
<1> QED BY <1>1, <1>2, <1>3

LEMMA QuietKeeps ==
  ASSUME TableInv, Changed, NothingAsked, ~needsFiltering' => ~needsFiltering
  PROVE  TableTypes' /\ RowsNow' /\ AskedInv' /\ NumbersInv' /\ ShownInv' /\ FutureInv'
BY QuietTypes, QuietRows, QuietAsked, QuietMessages

\* requests' is requests with m at its end
Posted(m) ==
  /\ m \in Message /\ requests' \in Seq(Message) /\ requests' = Append(requests, m)
  /\ requests' # <<>> /\ requests'[Len(requests')] = m

\* A message posted last is answered last.
LEMMA PostedFrom ==
  ASSUME TableInv, NEW m \in Message, requests' = Append(requests, m)
  PROVE  /\ Posted(m)
         /\ \A final : Ends(worker, requests, final) => Ends(worker, requests', Answered(final, m)) /\ final \in WorkerStates
<1>1. requests \in Seq(Message)
  BY TypeFacts
<1>2. PICK n \in Nat, t \in Seq(Message) : Appended(requests, m, n, t)
  BY <1>1, AppendAt
<1>3. Posted(m)
  BY <1>2 DEF Appended, Posted
<1>4. \A final : Ends(worker, requests, final) => Ends(worker, requests', Answered(final, m)) /\ final \in WorkerStates
  BY <1>1, EndsAfter
<1> QED BY <1>3, <1>4

\* What asking the worker does.
LEMMA PostAsks ==
  ASSUME TableInv, NEW type \in {"filter", "incremental"}, NEW rows \in Seq(Item), NEW query \in Query,
         NEW columns \in SUBSET Fields, Post(type, rows, query, columns),
         responses' = responses, lastCompletedRequestId' = lastCompletedRequestId
  PROVE  \E m \in Message :
           /\ Posted(m) /\ m.type = type /\ m.rows = rows /\ m.query = query /\ m.columns = columns
           /\ pendingRequestId' \in Nat
           /\ NumbersInv' /\ \A shown, filtered, received : Shows(requests', responses', shown, filtered, received)
           /\ \A final : Ends(worker, requests, final) => Ends(worker, requests', Answered(final, m)) /\ final \in WorkerStates
<1>1. PICK id \in Nat : id = pendingRequestId + 1
  BY TypeFacts
<1>2. PICK m : m = [id |-> id, type |-> type, rows |-> rows, query |-> query, columns |-> columns]
  OBVIOUS
<1>3. m \in Message /\ m.id = id /\ m.type = type /\ m.rows = rows /\ m.query = query /\ m.columns = columns
  BY <1>2 DEF Message, FilterMessages
<1>4. requests' = Append(requests, m) /\ pendingRequestId' = id
  BY <1>1, <1>2, Zenon DEF Post
<1>5. /\ Posted(m)
      /\ \A final : Ends(worker, requests, final) => Ends(worker, requests', Answered(final, m)) /\ final \in WorkerStates
  BY <1>3, <1>4, PostedFrom
<1>6. m.type # "reset"
  BY <1>3
<1>7. NumbersInv'
  <2>1. requests \in Seq(Message) /\ responses \in Seq(Answer) /\ lastCompletedRequestId \in Nat /\ pendingRequestId \in Nat
        /\ Numbered(requests, responses, lastCompletedRequestId, pendingRequestId)
    BY TypeFacts DEF TableInv, NumbersInv
  <2>2. Numbered(Append(requests, m), responses, lastCompletedRequestId, pendingRequestId + 1)
    BY <1>1, <1>3, <1>6, <2>1, NumbersPosted
  <2> QED BY <1>1, <1>4, <2>2, Zenon DEF NumbersInv
<1>8. \A shown, filtered, received : Shows(requests', responses', shown, filtered, received)
  BY <1>5, <1>6 DEF Shows, Posted
<1> QED BY <1>1, <1>3, <1>4, <1>5, <1>7, <1>8, Zenon

-----------------------------------------------------------------------------
(* The effect of the search *)

\* The effect with no search: the worker forgets its rows.
LEMMA ResetKeeps ==
  ASSUME TableInv, Changed, ~needsFiltering', debounce' = undefined, Reset PROVE TableInv'
<1>1. PICK m \in Message : m.type = "reset" /\ requests' = Append(requests, m)
  <2>1. [type |-> "reset"] \in Message /\ [type |-> "reset"].type = "reset"
    BY DEF Message
  <2> QED BY <2>1 DEF Reset
<1>2. /\ Posted(m)
      /\ \A final : Ends(worker, requests, final) => Ends(worker, requests', Answered(final, m)) /\ final \in WorkerStates
  BY <1>1, PostedFrom
<1>3. /\ lastFiltered'.query = "" /\ lastFiltered'.version = 0 /\ lastFiltered'.length = 0 /\ lastFiltered' \in Asked
      /\ pendingRequestId' = pendingRequestId /\ filteredEvents' = <<>>
  <2>1. "" \in Query
    BY TableAssumption
  <2> QED BY <2>1 DEF Reset, NeverFiltered, Asked
<1>4. filteredAll \in Int /\ filteredAll' \in Int /\ eventVersion \in Int /\ eventVersion' \in Int
  <2>1. filteredAll' = filteredAll \/ filteredAll' = -1
    BY DEF Changed
  <2> QED BY <2>1, TypeFacts DEF Changed
<1>5. TableTypes'
  <2>1. responses \in Seq(Answer) /\ worker \in WorkerStates /\ pendingRequestId \in Nat /\ lastCompletedRequestId \in Nat
    BY TypeFacts
  <2> QED BY <1>2, <1>3, <1>4, <2>1, Zenon DEF Changed, Posted, TableTypes
<1>6. RowsNow'
  <2>1. ASSUME snapshotData' = undefined, eventVersion' = 0
        PROVE  filteredEvents' = <<>> /\ responses' = <<>> /\ \A k \in DOMAIN requests' : requests'[k].type = "reset"
    <3>1. snapshotData = undefined /\ eventVersion = 0
      BY <2>1, <1>4, TypeFacts DEF Changed
    <3>2. responses = <<>> /\ \A k \in DOMAIN requests : requests[k].type = "reset"
      BY <3>1 DEF TableInv, RowsNow, isSnapshotMode
    <3>3. PICK n \in Nat, t \in Seq(Message) : Appended(requests, m, n, t)
      BY AppendAt, TypeFacts
    <3>4. \A k \in DOMAIN t : t[k].type = "reset"
      BY <1>1, <3>2, <3>3 DEF Appended
    <3>5. t = requests'
      BY <1>1, <3>3 DEF Appended
    <3> QED BY <1>3, <3>2, <3>4, <3>5 DEF Changed
  <2>2. currentRows' = RowsOf(snapshotData', eventVersion')
    BY DEF Changed
  <2> QED BY <2>1, <2>2 DEF RowsNow, isSnapshotMode
<1>7. TimerInv' /\ CurrentInv' /\ ShownInv'
  BY <1>3 DEF TimerInv, CurrentInv, ShownInv
<1>8. AskedInv'
  <2>1. filteredAll <= eventVersion /\ eventVersion <= eventVersion' /\ (filteredAll' = filteredAll \/ filteredAll' = -1)
        /\ eventVersion' \in Nat
    BY DEF TableInv, AskedInv, Changed
  <2>2. \A a, b \in Int, c \in Nat : -1 <= c /\ (a <= b /\ b <= c => a <= c)
    OBVIOUS
  <2>3. filteredAll' <= eventVersion'
    BY <1>4, <2>1, <2>2
  <2> QED BY <1>3, <2>3, Zenon DEF AskedInv
<1>9. NumbersInv'
  <2>1. requests \in Seq(Message) /\ Numbered(requests, responses, lastCompletedRequestId, pendingRequestId)
    BY TypeFacts DEF TableInv, NumbersInv
  <2>2. Numbered(Append(requests, m), responses, lastCompletedRequestId, pendingRequestId)
    BY <1>1, <2>1, NumbersReset
  <2> QED BY <1>1, <1>3, <2>2 DEF NumbersInv, Changed
<1>10. FutureInv'
  <2>1. PICK final \in WorkerStates : Ends(worker, requests, final)
    BY DEF TableInv, FutureInv
  <2>2. Ends(worker', requests', Answered(final, m))
    BY <1>2, <2>1 DEF Changed
  <2>3. Answered(final, m) \in WorkerStates
    BY AnsweredFacts
  <2> QED BY <1>3, <2>2, <2>3 DEF FutureInv, Due
<1> QED BY <1>5, <1>6, <1>7, <1>8, <1>9, <1>10 DEF TableInv

-----------------------------------------------------------------------------
(* Asking again, and asking about new rows *)

\* The rows after a change.
LEMMA RowsNext ==
  ASSUME Changed
  PROVE  /\ currentRows' \in Seq(Item) /\ Len(currentRows') \in Nat
         /\ snapshotData' = undefined => Len(currentRows') = Held(eventVersion')
         /\ snapshotData' # undefined => currentRows' = snapshotData'
<1>1. PICK s \in Snapshots, v \in Nat : s = snapshotData' /\ v = eventVersion' /\ v <= Cardinality(Item)
  BY DEF Changed
<1>2. currentRows' = RowsOf(s, v)
  BY <1>1 DEF Changed
<1>3. /\ RowsOf(s, v) \in Seq(Item) /\ Len(RowsOf(s, v)) \in Nat
      /\ s = undefined => Len(RowsOf(s, v)) = Held(v)
      /\ s # undefined => RowsOf(s, v) = s
  BY <1>1, RowsOfType DEF RowsOf
<1> QED BY <1>1, <1>2, <1>3

\* The effect that asks about all the rows, at once or by the timer.
LEMMA AgainKeeps ==
  ASSUME TableInv, Changed, needsFiltering', hasData', FilterAgain PROVE TableInv'
<1>1. NothingAsked
  BY DEF FilterAgain, NothingAsked, PostNothing
<1>2. TableTypes' /\ RowsNow' /\ AskedInv' /\ NumbersInv' /\ ShownInv' /\ FutureInv'
  BY <1>1, QuietKeeps
<1>3. PICK n \in Nat, v \in Nat, q \in Query : n = Len(currentRows') /\ v = eventVersion' /\ q = searchQuery'
  BY RowsNext DEF Changed
<1>4. debounce' = [query |-> q, version |-> v, length |-> n]
  BY <1>3, Zenon DEF FilterAgain
<1>5. debounce' # undefined
  <2>1. debounce' \in [query : Query, version : Nat, length : Nat]
    BY <1>4
  <2> QED BY <2>1, TableAssumption, Zenon
<1>6. TimerInv' /\ CurrentInv'
  BY <1>3, <1>4, <1>5, Zenon DEF TimerInv, CurrentInv
<1> QED BY <1>2, <1>6 DEF TableInv

\* Nothing is asked for when nothing is searched for, and nothing has to be when
\* what was asked for last is still what is searched for.
LEMMA StillKeeps ==
  ASSUME TableInv, Changed, NothingAsked, debounce' = undefined, ~needsFiltering' => ~needsFiltering,
         needsFiltering' /\ hasData' =>
           /\ searchQuery' = lastFiltered.query /\ snapshotData' = lastSnapshotDataRef
           /\ eventVersion' = lastFiltered.version \/ Len(currentRows') - lastFiltered.length <= 0
  PROVE  TableInv'
<1>1. TableTypes' /\ RowsNow' /\ AskedInv' /\ NumbersInv' /\ ShownInv' /\ FutureInv'
  BY QuietKeeps
<1>2. TimerInv'
  BY DEF TimerInv
<1>3. ASSUME needsFiltering', hasData', snapshotData' = undefined, eventVersion' <= capacity
      PROVE  lastFiltered.version = eventVersion'
  <2>1. searchQuery' = lastFiltered.query /\ searchQuery' # "" /\ snapshotData' = lastSnapshotDataRef
        /\ (eventVersion' = lastFiltered.version \/ Len(currentRows') - lastFiltered.length <= 0)
    BY <1>3 DEF needsFiltering
  <2>2. lastFiltered.length = Len(RowsOf(undefined, lastFiltered.version)) /\ lastFiltered.version <= eventVersion
    BY <1>3, <2>1 DEF TableInv, AskedInv
  <2>3. PICK v \in Nat, w \in Nat, e \in Nat, c \in Nat :
          /\ v = lastFiltered.version /\ w = eventVersion' /\ e = eventVersion /\ c = capacity
          /\ v <= e /\ e <= w /\ w <= c /\ w <= Cardinality(Item)
    BY <1>3, <2>2, TypeFacts DEF Changed
  <2>4. v <= w /\ v <= c /\ v <= Cardinality(Item)
    BY <2>3, EventsNumbered
  <2>5. lastFiltered.length = v
    BY <2>2, <2>3, <2>4, RowsType, HeldType DEF RowsOf
  <2>6. Len(currentRows') = w
    BY <1>3, <2>3, RowsNext, HeldType
  <2>7. w = v \/ w - v <= 0
    BY <2>1, <2>3, <2>5, <2>6
  <2>8. w = v
    BY <2>4, <2>7
  <2> QED BY <2>3, <2>8
<1>4. CurrentInv'
  BY <1>3 DEF CurrentInv, NothingAsked, isSnapshotMode
<1> QED BY <1>1, <1>2, <1>4 DEF TableInv

\* The effect that asks about the new rows alone, in front of what matched before.
LEMMA NewKeeps ==
  ASSUME TableInv, Changed, needsFiltering', searchQuery' = lastFiltered.query,
         snapshotData' = lastSnapshotDataRef, lastFiltered.version # 0, NEW new, new = Len(currentRows') - lastFiltered.length, new > 0,
         FilterNew(new)
  PROVE  TableInv'
<1>1. searchQuery' # "" /\ lastFiltered.query # ""
  BY DEF needsFiltering
<1>2. /\ lastSnapshotDataRef \in Snapshots /\ (lastSnapshotDataRef = undefined <=> snapshotData = undefined)
      /\ lastFiltered.length = Len(RowsOf(lastSnapshotDataRef, lastFiltered.version))
      /\ lastFiltered.version <= eventVersion /\ filteredAll <= lastFiltered.version
  BY <1>1 DEF TableInv, AskedInv
<1>3. PICK v \in Nat, e \in Nat, w \in Nat, c \in Nat, l \in Nat, n \in Nat :
        /\ v = lastFiltered.version /\ e = eventVersion /\ w = eventVersion' /\ c = capacity
        /\ l = lastFiltered.length /\ n = Len(currentRows') /\ v <= e /\ e <= w /\ w <= Cardinality(Item)
  <2>1. lastFiltered.version \in Nat /\ eventVersion \in Nat /\ capacity \in Nat /\ lastFiltered.length \in Nat
    BY TypeFacts
  <2>2. eventVersion' \in Nat /\ eventVersion <= eventVersion' /\ eventVersion' <= Cardinality(Item) /\ Len(currentRows') \in Nat
    BY RowsNext DEF Changed
  <2> QED BY <1>2, <2>1, <2>2, Zenon
<1>4. new = n - l /\ n > l
  BY <1>3
<1>5. snapshotData' = undefined /\ snapshotData = undefined /\ lastSnapshotDataRef = undefined
  <2>1. ASSUME snapshotData' # undefined PROVE FALSE
    <3>1. currentRows' = snapshotData' /\ RowsOf(lastSnapshotDataRef, v) = lastSnapshotDataRef
      BY <2>1, RowsNext DEF RowsOf
    <3>2. n = l
      BY <1>2, <1>3, <3>1
    <3> QED BY <1>4, <3>2
  <2> QED BY <1>2, <2>1
<1>6. v <= w /\ v <= Cardinality(Item) /\ l = Held(v) /\ n = Held(w)
  <2>1. v <= w /\ v <= Cardinality(Item)
    BY <1>3, EventsNumbered
  <2>2. l = Len(RowsAt(v))
    BY <1>2, <1>3, <1>5 DEF RowsOf
  <2>3. l = Held(v)
    BY <2>1, <2>2, RowsType
  <2>4. n = Held(w)
    BY <1>3, <1>5, RowsNext
  <2> QED BY <2>1, <2>3, <2>4
<1>7. v < w /\ v < c /\ l = v /\ (w <= c => n = w)
  BY <1>3, <1>4, <1>6 DEF Held
<1>8. currentRows' \in Seq(Item) /\ searchQuery' \in Query /\ visibleFields' \in SUBSET Fields
  BY RowsNext DEF Changed, visibleFields
<1>9. PICK rows \in Seq(Item), query \in Query, columns \in SUBSET Fields :
        rows = currentRows' /\ query = searchQuery' /\ columns = visibleFields'
  BY <1>8
<1>10. PICK newest \in Seq(Item) : newest = SubSeq(rows, 1, new)
  <2>1. new \in Nat /\ new <= n /\ n = Len(rows)
    BY <1>3, <1>4, <1>9
  <2>2. \A i \in 1 .. new : rows[i] \in Item
    BY <2>1, ElementOfSeq
  <2>3. 1 \in Int /\ new \in Int
    BY <2>1
  <2>4. SubSeq(rows, 1, new) \in Seq(Item)
    BY <2>2, <2>3, SubSeqProperties, Zenon
  <2> QED BY <2>4
<1>11. Post("incremental", newest, query, columns)
  <2>1. ~isSnapshotMode'
    BY <1>5 DEF isSnapshotMode
  <2> QED BY <1>9, <1>10, <2>1, Zenon DEF FilterNew, requestIncrementalFilter
<1>12. PICK m \in Message :
           /\ Posted(m) /\ m.type = "incremental" /\ m.rows = newest /\ m.query = query /\ m.columns = columns
           /\ pendingRequestId' \in Nat
           /\ NumbersInv' /\ \A shown, filtered, received : Shows(requests', responses', shown, filtered, received)
           /\ \A final : Ends(worker, requests, final) => Ends(worker, requests', Answered(final, m)) /\ final \in WorkerStates
  BY <1>11, PostAsks DEF Changed
<1>13. /\ lastFiltered' = [lastFiltered EXCEPT !.version = w, !.length = n]
       /\ debounce' = undefined /\ lastSnapshotDataRef' = lastSnapshotDataRef
       /\ filteredEvents' = filteredEvents /\ hasReceivedFilterResult' = hasReceivedFilterResult
  BY <1>3, Zenon DEF FilterNew
<1>14. lastFiltered' \in Asked /\ lastFiltered'.query = query /\ lastFiltered'.version = w /\ lastFiltered'.length = n
  <2>1. lastFiltered \in Asked
    BY DEF TableInv, TableTypes
  <2> QED BY <1>9, <1>13, <2>1 DEF Asked
<1>15. filteredAll \in Int /\ filteredAll' \in Int /\ filteredAll' <= v
  <2>1. filteredAll \in Int /\ filteredAll <= v
    BY <1>2, <1>3, TypeFacts
  <2>2. filteredAll' = filteredAll \/ filteredAll' = -1
    BY DEF Changed
  <2> QED BY <2>1, <2>2
<1>16. TableTypes'
  <2>1. responses \in Seq(Answer) /\ worker \in WorkerStates /\ lastCompletedRequestId \in Nat
    BY TypeFacts
  <2> QED BY <1>12, <1>14, <1>15, <2>1, Zenon DEF Changed, Posted, TableTypes
<1>17. RowsNow'
  <2>1. eventVersion' # 0
    BY <1>3, <1>7
  <2> QED BY <2>1 DEF RowsNow, Changed
<1>18. TimerInv'
  BY <1>13 DEF TimerInv
<1>19. AskedInv'
  <2>1. filteredAll' <= w /\ w <= w
    BY <1>7, <1>15
  <2>2. lastSnapshotDataRef' \in Snapshots \ {<<>>}
    <3>1. undefined # <<>>
      <4>1. <<>> \in Seq(Item) /\ undefined \notin Seq(Item)
        BY TableAssumption, EmptySeq
      <4> QED BY <4>1
    <3> QED BY <1>2, <1>5, <1>13, <3>1
  <2>3. n = Len(RowsOf(undefined, w))
    BY <1>3, <1>6, RowsType DEF RowsOf
  <2> QED BY <1>1, <1>3, <1>5, <1>9, <1>13, <1>14, <2>1, <2>2, <2>3, Zenon DEF AskedInv
<1>20. CurrentInv'
  BY <1>3, <1>9, <1>13, <1>14, Zenon DEF CurrentInv
<1>21. ShownInv'
  BY <1>12 DEF ShownInv
<1>22. FutureInv'
  <2>1. PICK final \in WorkerStates : Ends(worker, requests, final) /\ Due(final)
    BY DEF TableInv, FutureInv
  <2>2. Ends(worker', requests', Answered(final, m))
    BY <1>12, <2>1 DEF Changed
  <2>3. Answered(final, m) \in WorkerStates
    BY AnsweredFacts
  <2>4. PICK end \in WorkerStates : end = Answered(final, m)
    BY <2>3
  <2>5. ASSUME filteredAll' # -1, w <= c
        PROVE  /\ Answered(final, m).rows = Matches(RowsAt(w), query, columns)
               /\ Answered(final, m).query = query /\ Answered(final, m).columns = columns
    <3>1. filteredAll # -1 /\ columns = visibleFields
      <4>1. filteredAll' = filteredAll /\ overrides' = overrides
        BY <2>5 DEF Changed
      <4> QED BY <1>9, <2>5, <4>1 DEF visibleFields
    <3>2. CASE v # 0
      <4>1. lastFiltered.length # 0 /\ lastFiltered.version <= capacity
        BY <1>3, <1>7, <3>2
      <4>2. /\ final.rows = Matches(RowsOf(lastSnapshotDataRef, lastFiltered.version), lastFiltered.query, visibleFields)
            /\ final.query = lastFiltered.query /\ final.columns = visibleFields
        BY <2>1, <3>1, <4>1 DEF Due
      <4>3. final.rows = Matches(RowsAt(v), query, columns) /\ final.query = query /\ final.columns = columns
        BY <1>3, <1>5, <1>9, <3>1, <4>2 DEF RowsOf
      <4>4. /\ Answered(final, m).rows = Matches(newest, query, columns) \o Matches(RowsAt(v), query, columns)
            /\ Answered(final, m).query = query /\ Answered(final, m).columns = columns
        <5>1. m.query = final.query /\ m.columns = final.columns
          BY <1>12, <4>3
        <5>2. m.type = "incremental" /\ m.rows = newest /\ m.query = query /\ m.columns = columns
          BY <1>12
        <5>3. final \in WorkerStates
          BY <2>1
        <5>4. /\ Answered(final, m).rows = Matches(m.rows, m.query, m.columns) \o final.rows
              /\ Answered(final, m).query = m.query /\ Answered(final, m).columns = m.columns
          BY <5>1, <5>2, <5>3, AnsweredFacts, Zenon
        <5> QED BY <4>3, <5>2, <5>4
      <4>5. rows = RowsAt(w) /\ new = w - v
        BY <1>3, <1>4, <1>5, <1>7, <1>9, <2>5 DEF Changed, RowsOf
      <4>6. RowsAt(w) = newest \o RowsAt(v)
        BY <1>3, <1>6, <1>10, <2>5, <4>5, RowsJoin
      <4>7. RowsAt(v) \in Seq(Item)
        BY <1>6, RowsType
      <4>8. Matches(newest \o RowsAt(v), query, columns) = Matches(newest, query, columns) \o Matches(RowsAt(v), query, columns)
        BY <4>7, MatchesOfTwo
      <4> QED BY <4>4, <4>6, <4>8
    <3> QED BY <1>3, <3>2
  <2>6. ASSUME filteredAll' # -1,
               snapshotData' # undefined \/ lastFiltered'.version <= capacity \/ filteredAll' = lastFiltered'.version
        PROVE  /\ end.rows = Matches(RowsOf(lastSnapshotDataRef', lastFiltered'.version), lastFiltered'.query, visibleFields')
               /\ end.query = lastFiltered'.query /\ end.columns = visibleFields'
    <3>1. w <= c
      <4>1. w <= c \/ filteredAll' = w
        BY <1>3, <1>5, <1>14, <2>6
      <4>2. filteredAll' # w
        BY <1>7, <1>15
      <4> QED BY <4>1, <4>2
    <3>2. RowsOf(lastSnapshotDataRef', lastFiltered'.version) = RowsAt(w)
      BY <1>5, <1>13, <1>14 DEF RowsOf
    <3> QED BY <1>9, <1>14, <2>4, <2>5, <2>6, <3>1, <3>2
  <2>7. Ends(worker', requests', end)
    BY <2>2, <2>4
  <2>8. end \in WorkerStates
    OBVIOUS
  <2> QED BY <2>6, <2>7, <2>8, FutureNext
<1> QED BY <1>12, <1>16, <1>17, <1>18, <1>19, <1>20, <1>21, <1>22 DEF TableInv

\* The effects after a change, whichever they are.
LEMMA EffectsKeep == ASSUME TableInv, Changed, FilterEffects PROVE TableInv'
<1> DEFINE new == Len(currentRows') - lastFiltered.length
           changed == \/ searchQuery' # lastFiltered.query \/ snapshotData' # lastSnapshotDataRef
                      \/ lastFiltered.version = 0
           nothing == UNCHANGED <<lastFiltered, lastSnapshotDataRef, filteredEvents, hasReceivedFilterResult>>
<1>1. IF ~needsFiltering' THEN
        /\ debounce' = undefined
        /\ IF needsFiltering THEN Reset ELSE PostNothing /\ nothing
      ELSE IF ~hasData' THEN NothingToFilter
      ELSE IF changed THEN FilterAgain
      ELSE IF eventVersion' # lastFiltered.version /\ new > 0 THEN FilterNew(new)
      ELSE NothingToFilter
  BY Zenon DEF FilterEffects
<1>2. NothingToFilter => NothingAsked /\ debounce' = undefined
  BY DEF NothingToFilter, NothingAsked, PostNothing
<1>3. PostNothing /\ nothing => NothingAsked
  BY DEF NothingAsked, PostNothing
<1> HIDE DEF nothing
<1>4. CASE ~needsFiltering' /\ needsFiltering
  BY <1>1, <1>4, ResetKeeps
<1>5. CASE ~needsFiltering' /\ ~needsFiltering
  BY <1>1, <1>3, <1>5, StillKeeps
<1>6. CASE needsFiltering' /\ ~hasData'
  BY <1>1, <1>2, <1>6, StillKeeps
<1>7. CASE needsFiltering' /\ hasData' /\ changed
  <2> HIDE DEF changed
  <2> QED BY <1>1, <1>7, AgainKeeps
<1>8. CASE needsFiltering' /\ hasData' /\ ~changed /\ eventVersion' # lastFiltered.version /\ new > 0
  <2>1. FilterNew(new)
    BY <1>1, <1>8, Zenon
  <2>2. searchQuery' = lastFiltered.query /\ snapshotData' = lastSnapshotDataRef /\ lastFiltered.version # 0
    BY <1>8
  <2> QED BY <1>8, <2>1, <2>2, NewKeeps, Zenon
<1>9. CASE needsFiltering' /\ hasData' /\ ~changed /\ ~(eventVersion' # lastFiltered.version /\ new > 0)
  <2>1. NothingAsked /\ debounce' = undefined
    BY <1>1, <1>2, <1>9, Zenon
  <2>2. searchQuery' = lastFiltered.query /\ snapshotData' = lastSnapshotDataRef
    BY <1>9
  <2>3. eventVersion' = lastFiltered.version \/ new <= 0
    <3>1. new \in Int
      BY RowsNext, TypeFacts
    <3> HIDE DEF new
    <3> QED BY <1>9, <3>1
  <2> QED BY <1>9, <2>1, <2>2, <2>3, StillKeeps, Zenon
<1> QED BY <1>4, <1>5, <1>6, <1>7, <1>8, <1>9, Zenon

-----------------------------------------------------------------------------
(* The steps *)

\* A ring left alone holds the same events.
LEMMA SameRing == ASSUME TypeOK, UNCHANGED vars PROVE TypeOK' /\ toArray' = toArray
<1>1. buffer' = buffer /\ head' = head /\ length' = length
  BY DEF vars
<1>2. TypeOK'
  BY <1>1 DEF TypeOK
<1>3. toArray' = toArray
  BY <1>1 DEF toArray, slice, get, PhysicalIndex
<1> QED BY <1>2, <1>3

\* What an action that leaves the ring alone changes.
LEMMA WithoutRing ==
  ASSUME TableInv, UNCHANGED vars, UNCHANGED answerVars,
         eventVersion' \in Nat, eventVersion <= eventVersion', eventVersion' <= Cardinality(Item),
         snapshotData' \in Snapshots, snapshotData' = undefined <=> snapshotData = undefined,
         snapshotData = undefined => eventVersion' = eventVersion,
         searchQuery' \in Query, overrides' \in SUBSET Fields,
         (filteredAll' = filteredAll /\ overrides' = overrides) \/ filteredAll' = -1
  PROVE  Changed
<1>1. TypeOK' /\ toArray' = toArray
  BY SameRing DEF TableInv, TableTypes
<1>2. currentRows' = RowsOf(snapshotData', eventVersion')
  <2>1. currentRows = RowsOf(snapshotData, eventVersion)
    BY DEF TableInv, RowsNow
  <2>2. CASE snapshotData' = undefined
    BY <1>1, <2>1, <2>2 DEF currentRows, isSnapshotMode, RowsOf
  <2>3. CASE snapshotData' # undefined
    BY <2>3 DEF currentRows, isSnapshotMode, RowsOf
  <2> QED BY <2>2, <2>3
<1>3. filteredAll' \in {filteredAll, -1} /\ (filteredAll' # -1 => overrides' = overrides)
  OBVIOUS
<1>4. worker' = worker /\ responses' = responses /\ lastCompletedRequestId' = lastCompletedRequestId
  BY DEF answerVars
<1> QED BY <1>1, <1>2, <1>3, <1>4 DEF Changed

\* The array is the list of its items, also after a step.
LEMMA ArrayNext == (TypeOK => toArray = Items(buffer, head, length))'
BY ArrayIsItems, PTL

\* The steps of the table, one by one.
LEMMA ArriveKeeps == ASSUME TableInv, Arrive PROVE TableInv'
<1>1. PICK v \in Nat : v = eventVersion /\ v < Cardinality(Item) /\ v + 1 \in Item /\ v + 1 <= Cardinality(Item)
  <2>1. eventVersion \in Nat /\ eventVersion < Cardinality(Item) /\ Cardinality(Item) \in Nat
    BY TypeFacts DEF Arrive
  <2>2. eventVersion + 1 \in 1 .. Cardinality(Item) /\ eventVersion + 1 <= Cardinality(Item)
    BY <2>1
  <2> QED BY <2>1, <2>2, EventsNumbered
<1>2. push(v + 1) /\ eventVersion' = v + 1
  BY <1>1 DEF Arrive
<1>3. TypeOK /\ TypeOK'
  <2>1. TypeOK
    BY DEF TableInv, TableTypes
  <2>2. Next
    BY <1>1, <1>2 DEF Next
  <2> QED BY <2>1, <2>2, TypeStep
<1>4. snapshotData = undefined /\ currentRows = toArray /\ toArray = RowsAt(v)
  <2>1. ~isSnapshotMode
    BY DEF Arrive
  <2> QED BY <1>1, <2>1 DEF TableInv, RowsNow, currentRows, isSnapshotMode, RowsOf
<1>5. toArray' = RowsAt(v + 1)
  <2>1. toArray = Items(buffer, head, length)
    BY <1>3, ArrayIsItems
  <2>2. toArray' = Items(buffer', head', length')
    BY <1>3, ArrayNext
  <2>3. Items(buffer', head', length') = Log!Pushed(Items(buffer, head, length), v + 1, capacity)
    BY <1>1, <1>2, <1>3, PushItems
  <2>4. RowsAt(v + 1) = Log!Pushed(RowsAt(v), v + 1, capacity)
    BY <1>1, RowsPushed
  <2> QED BY <1>4, <2>1, <2>2, <2>3, <2>4
<1>6. /\ snapshotData' = snapshotData /\ searchQuery' = searchQuery /\ overrides' = overrides /\ filteredAll' = filteredAll
      /\ worker' = worker /\ responses' = responses /\ lastCompletedRequestId' = lastCompletedRequestId /\ FilterEffects
  BY DEF Arrive, searchVars, answerVars
<1>7. currentRows' = RowsOf(snapshotData', eventVersion')
  BY <1>2, <1>4, <1>5, <1>6 DEF currentRows, isSnapshotMode, RowsOf
<1>8. snapshotData \in Snapshots /\ searchQuery \in Query /\ overrides \in SUBSET Fields
  BY DEF TableInv, TableTypes
<1>9. Changed
  BY <1>1, <1>2, <1>3, <1>6, <1>7, <1>8 DEF Changed
<1> QED BY <1>6, <1>9, EffectsKeep

\* What a step that changes one of them finds.
LEMMA OwnTypes ==
  ASSUME TableInv
  PROVE  /\ snapshotData \in Snapshots /\ searchQuery \in Query /\ overrides \in SUBSET Fields
         /\ eventVersion \in Nat /\ eventVersion <= Cardinality(Item) /\ eventVersion <= eventVersion
BY TypeFacts DEF TableInv, TableTypes

LEMMA SelectKeeps == ASSUME TableInv, SelectSnapshot PROVE TableInv'
<1>1. /\ UNCHANGED vars /\ UNCHANGED answerVars /\ FilterEffects
      /\ searchQuery' = searchQuery /\ overrides' = overrides /\ filteredAll' = filteredAll
      /\ snapshotData' \in Snapshots /\ snapshotData # undefined /\ snapshotData' # undefined
  BY DEF SelectSnapshot, searchVars, isSnapshotMode
<1>2. eventVersion' \in Nat /\ eventVersion <= eventVersion' /\ eventVersion' <= Cardinality(Item)
  <2>1. eventVersion' = eventVersion \/ (eventVersion < Cardinality(Item) /\ eventVersion' = eventVersion + 1)
    BY DEF SelectSnapshot
  <2>2. eventVersion \in Nat /\ Cardinality(Item) \in Nat /\ eventVersion <= Cardinality(Item)
    BY TypeFacts
  <2> QED BY <2>1, <2>2
<1>3. Changed
  BY <1>1, <1>2, OwnTypes, WithoutRing
<1> QED BY <1>1, <1>3, EffectsKeep

LEMMA SearchKeeps == ASSUME TableInv, Search \/ ToggleFilterMode PROVE TableInv'
<1>1. /\ UNCHANGED vars /\ UNCHANGED answerVars /\ FilterEffects /\ eventVersion' = eventVersion
      /\ overrides' = overrides /\ filteredAll' = filteredAll /\ snapshotData' = snapshotData
      /\ (searchQuery' \in Query \/ searchQuery' = searchQuery)
  BY DEF Search, ToggleFilterMode
<1>2. Changed
  <2>1. eventVersion' \in Nat /\ eventVersion <= eventVersion' /\ eventVersion' <= Cardinality(Item)
    BY <1>1, OwnTypes
  <2> QED BY <1>1, <2>1, OwnTypes, WithoutRing
<1> QED BY <1>1, <1>2, EffectsKeep

LEMMA ColumnKeeps == ASSUME TableInv, toggleColumnVisibility PROVE TableInv'
<1>1. /\ UNCHANGED vars /\ UNCHANGED answerVars /\ FilterEffects /\ eventVersion' = eventVersion
      /\ filteredAll' = -1 /\ snapshotData' = snapshotData /\ searchQuery' = searchQuery
  BY DEF toggleColumnVisibility, searchVars
<1>2. overrides' \in SUBSET Fields
  <2>1. PICK field \in Fields : overrides' = IF field \in overrides THEN overrides \ {field} ELSE overrides \cup {field}
    BY DEF toggleColumnVisibility
  <2> QED BY <2>1, OwnTypes
<1>3. Changed
  <2>1. eventVersion' \in Nat /\ eventVersion <= eventVersion' /\ eventVersion' <= Cardinality(Item)
    BY <1>1, OwnTypes
  <2> QED BY <1>1, <1>2, <2>1, OwnTypes, WithoutRing
<1> QED BY <1>1, <1>3, EffectsKeep

\* The sorting, and a gadget that starts or stops, leave the search alone.
LEMMA OthersKeep ==
  ASSUME TableInv, UNCHANGED <<vars, eventVersion, snapshotData, searchVars, overrides, filterVars, answerVars, filteredAll>>
  PROVE  TableInv'
<1>1. UNCHANGED vars /\ eventVersion' = eventVersion /\ snapshotData' = snapshotData /\ searchQuery' = searchQuery
      /\ searchModeFilter' = searchModeFilter /\ overrides' = overrides /\ filteredAll' = filteredAll /\ debounce' = debounce
      /\ UNCHANGED answerVars /\ NothingAsked
  BY DEF searchVars, filterVars, NothingAsked
<1>2. Changed
  BY <1>1, OwnTypes, WithoutRing
<1>3. needsFiltering' = needsFiltering /\ hasData' = hasData /\ (isSnapshotMode' <=> isSnapshotMode)
  BY <1>1 DEF needsFiltering, hasData, isSnapshotMode
<1>4. TableTypes' /\ RowsNow' /\ AskedInv' /\ NumbersInv' /\ ShownInv' /\ FutureInv'
  BY <1>1, <1>2, <1>3, QuietKeeps
<1>5. currentRows' = currentRows
  BY <1>1, <1>2 DEF Changed, TableInv, RowsNow
<1>6. TimerInv' /\ CurrentInv'
  BY <1>1, <1>3, <1>5 DEF TableInv, TimerInv, CurrentInv, NothingAsked
<1> QED BY <1>4, <1>6 DEF TableInv

LEMMA TimerKeeps == ASSUME TableInv, DebounceTimer PROVE TableInv'
<1>1. /\ UNCHANGED vars /\ eventVersion' = eventVersion /\ snapshotData' = snapshotData /\ searchQuery' = searchQuery
      /\ searchModeFilter' = searchModeFilter /\ overrides' = overrides /\ filteredAll' = eventVersion
      /\ worker' = worker /\ responses' = responses /\ lastCompletedRequestId' = lastCompletedRequestId
      /\ filteredEvents' = filteredEvents /\ hasReceivedFilterResult' = hasReceivedFilterResult
      /\ debounce' = undefined /\ lastFiltered' = debounce /\ lastSnapshotDataRef' = snapshotData /\ debounce # undefined
      /\ requestFullFilter(currentRows, searchQuery, visibleFields)
  BY DEF DebounceTimer, searchVars, answerVars
<1>2. needsFiltering /\ searchQuery # "" /\ hasData
      /\ debounce = [query |-> searchQuery, version |-> eventVersion, length |-> Len(currentRows)]
  BY <1>1 DEF TableInv, TimerInv, needsFiltering
<1>3. PICK s \in Snapshots, v \in Nat, q \in Query, columns \in SUBSET Fields :
        s = snapshotData /\ v = eventVersion /\ v <= Cardinality(Item) /\ q = searchQuery /\ columns = visibleFields
  BY OwnTypes DEF visibleFields
<1>4. PICK rows \in Seq(Item), n \in Nat :
        /\ rows = currentRows /\ n = Len(rows) /\ rows = RowsOf(s, v)
        /\ rows = <<>> <=> n = 0
        /\ s = undefined => (rows = <<>> <=> v = 0)
  <2>1. currentRows = RowsOf(s, v)
    BY <1>3 DEF TableInv, RowsNow
  <2>2. /\ RowsOf(s, v) \in Seq(Item) /\ Len(RowsOf(s, v)) \in Nat
        /\ RowsOf(s, v) = <<>> <=> Len(RowsOf(s, v)) = 0
        /\ s = undefined => (RowsOf(s, v) = <<>> <=> v = 0)
    BY <1>3, RowsOfType
  <2> QED BY <2>1, <2>2, Zenon
<1>5. lastFiltered' \in Asked /\ lastFiltered'.query = q /\ lastFiltered'.version = v /\ lastFiltered'.length = n
  <2>1. lastFiltered' = [query |-> q, version |-> v, length |-> n]
    BY <1>1, <1>2, <1>3, <1>4, Zenon
  <2> QED BY <2>1 DEF Asked
<1>6. s # <<>> /\ (s = undefined \/ rows # <<>>)
  <2>1. s # <<>>
    <3>1. undefined # <<>>
      <4>1. <<>> \in Seq(Item) /\ undefined \notin Seq(Item)
        BY TableAssumption, EmptySeq
      <4> QED BY <4>1
    <3>2. s # undefined => s # <<>>
      BY <1>2, <1>3 DEF hasData, isSnapshotMode
    <3> QED BY <3>1, <3>2
  <2>2. s # undefined => rows = s
    BY <1>4 DEF RowsOf
  <2> QED BY <2>1, <2>2
<1>7. TypeOK' /\ currentRows' = rows /\ visibleFields' = columns /\ needsFiltering' /\ (isSnapshotMode' <=> s # undefined)
  <2>1. TypeOK' /\ toArray' = toArray
    BY <1>1, SameRing DEF TableInv, TableTypes
  <2>2. currentRows' = currentRows
    BY <1>1, <2>1 DEF currentRows, isSnapshotMode
  <2>3. visibleFields' = visibleFields /\ needsFiltering' = needsFiltering
    BY <1>1 DEF visibleFields, needsFiltering
  <2>4. isSnapshotMode' <=> s # undefined
    BY <1>1, <1>3 DEF isSnapshotMode
  <2> QED BY <1>2, <1>3, <1>4, <2>1, <2>2, <2>3, <2>4
<1>8. TimerInv' /\ CurrentInv'
  BY <1>1, <1>3, <1>5 DEF TimerInv, CurrentInv
<1>9. AskedInv'
  <2>1. v <= v /\ q # ""
    <3>1. v <= v
      OBVIOUS
    <3>2. q # ""
      BY <1>2, <1>3, Zenon
    <3> QED BY <3>1, <3>2
  <2>2. needsFiltering'
    BY <1>7
  <2>3. lastSnapshotDataRef' \in Snapshots \ {<<>>} /\ (lastSnapshotDataRef' = undefined <=> snapshotData' = undefined)
    BY <1>1, <1>3, <1>6
  <2>4. lastFiltered'.length = Len(RowsOf(lastSnapshotDataRef', lastFiltered'.version))
    BY <1>1, <1>3, <1>4, <1>5
  <2>5. filteredAll' = v /\ eventVersion' = v
    BY <1>1, <1>3
  <2> QED BY <1>5, <2>1, <2>2, <2>3, <2>4, <2>5, Zenon DEF AskedInv
<1>10. /\ eventVersion' \in Nat /\ eventVersion' <= Cardinality(Item) /\ filteredAll' \in Int
       /\ snapshotData' \in Snapshots /\ searchQuery' \in Query /\ overrides' \in SUBSET Fields
       /\ responses' \in Seq(Answer) /\ worker' \in WorkerStates /\ lastCompletedRequestId' \in Nat
  BY <1>1, OwnTypes, TypeFacts
<1>11. PICK final \in WorkerStates : Ends(worker, requests, final) /\ Due(final)
  BY DEF TableInv, FutureInv
<1>12. CASE rows = <<>>
  <2>1. requests' = requests /\ pendingRequestId' = pendingRequestId
    BY <1>1, <1>4, <1>12 DEF requestFullFilter, PostNothing
  <2>2. TableTypes'
    <3>1. requests \in Seq(Message) /\ pendingRequestId \in Nat
      BY TypeFacts
    <3> QED BY <1>5, <1>7, <1>10, <2>1, <3>1, Zenon DEF TableTypes
  <2>3. s = undefined /\ v = 0 /\ n = 0
    BY <1>4, <1>6, <1>12
  <2>4. RowsNow'
    <3>1. filteredEvents = <<>> /\ responses = <<>> /\ \A k \in DOMAIN requests : requests[k].type = "reset"
      BY <1>3, <2>3 DEF TableInv, RowsNow, isSnapshotMode
    <3>2. currentRows' = RowsOf(snapshotData', eventVersion')
      BY <1>1, <1>3, <1>4, <1>7
    <3> QED BY <1>1, <2>1, <3>1, <3>2 DEF RowsNow
  <2>5. NumbersInv'
    BY <1>1, <2>1 DEF TableInv, NumbersInv
  <2>6. ShownInv'
    BY <1>5, <2>3 DEF ShownInv
  <2>7. FutureInv'
    <3>1. Ends(worker', requests', final)
      BY <1>1, <1>11, <2>1
    <3>2. lastFiltered'.length = 0
      BY <1>5, <2>3
    <3> QED BY <3>1, <3>2, FutureNext
  <2> QED BY <1>8, <1>9, <2>2, <2>4, <2>5, <2>6, <2>7 DEF TableInv
<1>13. CASE rows # <<>>
  <2>1. Post("filter", rows, q, columns)
    BY <1>1, <1>3, <1>4, <1>13, Zenon DEF requestFullFilter
  <2>2. PICK m \in Message :
           /\ Posted(m) /\ m.type = "filter" /\ m.rows = rows /\ m.query = q /\ m.columns = columns
           /\ pendingRequestId' \in Nat
           /\ NumbersInv' /\ \A shown, filtered, received : Shows(requests', responses', shown, filtered, received)
           /\ \A f : Ends(worker, requests, f) => Ends(worker, requests', Answered(f, m)) /\ f \in WorkerStates
    BY <1>1, <2>1, PostAsks
  <2>3. TableTypes'
    BY <1>5, <1>7, <1>10, <2>2, Zenon DEF Posted, TableTypes
  <2>4. RowsNow'
    <3>1. isSnapshotMode' \/ eventVersion' # 0
      BY <1>1, <1>3, <1>4, <1>7, <1>13
    <3>2. currentRows' = RowsOf(snapshotData', eventVersion')
      BY <1>1, <1>3, <1>4, <1>7
    <3> QED BY <3>1, <3>2 DEF RowsNow
  <2>5. ShownInv'
    BY <2>2 DEF ShownInv
  <2>6. FutureInv'
    <3>1. PICK end \in WorkerStates : end = Answered(final, m)
      BY AnsweredFacts
    <3>2. Ends(worker', requests', end)
      BY <1>1, <1>11, <2>2, <3>1
    <3>3. end.rows = Matches(rows, q, columns) /\ end.query = q /\ end.columns = columns
      BY <2>2, <3>1, AnsweredFacts
    <3>4. RowsOf(lastSnapshotDataRef', lastFiltered'.version) = rows /\ lastFiltered'.query = q /\ visibleFields' = columns
      BY <1>1, <1>3, <1>4, <1>5, <1>7
    <3> QED BY <3>2, <3>3, <3>4, FutureNext
  <2> QED BY <1>8, <1>9, <2>2, <2>3, <2>4, <2>5, <2>6 DEF TableInv
<1> QED BY <1>12, <1>13

\* Both sides take the first message: nothing of the search changes.
Delivered ==
  /\ UNCHANGED vars /\ eventVersion' = eventVersion /\ snapshotData' = snapshotData /\ searchQuery' = searchQuery
  /\ searchModeFilter' = searchModeFilter /\ overrides' = overrides /\ filteredAll' = filteredAll
  /\ debounce' = debounce /\ lastFiltered' = lastFiltered /\ lastSnapshotDataRef' = lastSnapshotDataRef
  /\ pendingRequestId' = pendingRequestId

\* A message or an answer taken changes nothing the page asked.
LEMMA DeliveryKeeps ==
  ASSUME TableInv, Delivered
  PROVE  /\ TimerInv' /\ AskedInv' /\ CurrentInv' /\ visibleFields' = visibleFields
         /\ currentRows' = RowsOf(snapshotData', eventVersion')
         /\ requests' \in Seq(Message) /\ responses' \in Seq(Answer) /\ worker' \in WorkerStates
            /\ lastCompletedRequestId' \in Nat => TableTypes'
<1>1. TypeOK' /\ toArray' = toArray
  BY SameRing DEF TableInv, TableTypes, Delivered
<1>2. currentRows' = currentRows /\ visibleFields' = visibleFields /\ (needsFiltering' <=> needsFiltering)
      /\ (hasData' <=> hasData) /\ (isSnapshotMode' <=> isSnapshotMode)
  BY <1>1 DEF Delivered, currentRows, isSnapshotMode, visibleFields, needsFiltering, hasData
<1>3. currentRows' = RowsOf(snapshotData', eventVersion')
  BY <1>2 DEF TableInv, RowsNow, Delivered
<1>4. TimerInv'
  BY <1>2 DEF TableInv, TimerInv, Delivered
<1>5. AskedInv'
  BY <1>2 DEF TableInv, AskedInv, Delivered
<1>6. CurrentInv'
  BY <1>2 DEF TableInv, CurrentInv, Delivered
<1>7. ASSUME requests' \in Seq(Message), responses' \in Seq(Answer), worker' \in WorkerStates, lastCompletedRequestId' \in Nat
      PROVE  TableTypes'
  BY <1>1, <1>7, Zenon DEF TableInv, TableTypes, Delivered
<1> QED BY <1>2, <1>3, <1>4, <1>5, <1>6, <1>7

\* The worker takes a message: what it will have in the end stays.
LEMMA WorkerKeeps == ASSUME TableInv, WorkerStep PROVE TableInv'
<1>1. /\ Delivered /\ requests # <<>> /\ requests' = Tail(requests) /\ worker' = Answered(worker, Head(requests))
      /\ responses' = IF Head(requests).type = "reset" THEN responses
                      ELSE Append(responses, [id |-> Head(requests).id, rows |-> worker'.rows])
      /\ filteredEvents' = filteredEvents /\ hasReceivedFilterResult' = hasReceivedFilterResult
      /\ lastCompletedRequestId' = lastCompletedRequestId
  BY DEF WorkerStep, Delivered, searchVars
<1>2. requests \in Seq(Message) /\ responses \in Seq(Answer) /\ worker \in WorkerStates
      /\ lastCompletedRequestId \in Nat /\ pendingRequestId \in Nat
  BY TypeFacts
<1>3. PICK n \in Nat, t \in Seq(Message), m \in Message :
        /\ t = Tail(requests) /\ m = Head(requests) /\ m = requests[1] /\ n = Len(t) /\ n + 1 = Len(requests)
        /\ DOMAIN requests = 1 .. n + 1 /\ DOMAIN t = 1 .. n
        /\ (t = <<>> <=> n = 0)
        /\ \A i \in 1 .. n : t[i] = requests[i + 1]
  BY <1>1, <1>2, TailAt
<1>4. PICK state \in WorkerStates : state = Answered(worker, m)
  BY <1>2, AnsweredFacts
<1>5. requests' = t /\ worker' = state
  BY <1>1, <1>3, <1>4
<1>6. PICK a : a = [id |-> m.id, rows |-> state.rows]
  OBVIOUS
<1>7. /\ m.type = "reset" => responses' = responses
      /\ m.type # "reset" => responses' = Append(responses, a)
  BY <1>1, <1>3, <1>5, <1>6
<1>8. m.type # "reset" => a \in Answer /\ a.id = m.id /\ a.rows = state.rows
  <2>1. state.rows \in Seq(Item)
    BY DEF WorkerStates
  <2>2. m.type # "reset" => m.id \in Nat
    BY DEF Message, FilterMessages
  <2> QED BY <1>6, <2>1, <2>2 DEF Answer
<1>9. m.type # "reset" => responses' \in Seq(Answer) /\ responses' # <<>> /\ responses'[Len(responses')] = a
  <2> SUFFICES ASSUME m.type # "reset" PROVE responses' \in Seq(Answer) /\ responses' # <<>> /\ responses'[Len(responses')] = a
    OBVIOUS
  <2>1. PICK k \in Nat, u \in Seq(Answer) : Appended(responses, a, k, u)
    BY <1>2, <1>8, AppendAt
  <2> QED BY <1>7, <2>1 DEF Appended
<1>10. responses' \in Seq(Answer)
  BY <1>2, <1>7, <1>9
<1>11. TableTypes' /\ TimerInv' /\ AskedInv' /\ CurrentInv' /\ currentRows' = RowsOf(snapshotData', eventVersion')
       /\ visibleFields' = visibleFields
  BY <1>1, <1>2, <1>5, <1>10, DeliveryKeeps
<1>12. RowsNow'
  <2>1. ASSUME snapshotData' = undefined, eventVersion' = 0
        PROVE  filteredEvents' = <<>> /\ responses' = <<>> /\ \A k \in DOMAIN requests' : requests'[k].type = "reset"
    <3>1. filteredEvents = <<>> /\ responses = <<>> /\ \A k \in DOMAIN requests : requests[k].type = "reset"
      BY <1>1, <2>1 DEF TableInv, RowsNow, isSnapshotMode, Delivered
    <3>2. 1 \in DOMAIN requests /\ \A i \in DOMAIN t : i + 1 \in DOMAIN requests /\ t[i] = requests[i + 1]
      BY <1>3
    <3>3. m.type = "reset" /\ \A i \in DOMAIN t : t[i].type = "reset"
      BY <1>3, <3>1, <3>2
    <3> QED BY <1>1, <1>5, <1>7, <3>1, <3>3
  <2> QED BY <1>11, <2>1 DEF RowsNow, isSnapshotMode
<1>13. NumbersInv'
  <2>1. Numbered(requests, responses, lastCompletedRequestId, pendingRequestId)
    BY DEF TableInv, NumbersInv
  <2>2. /\ Numbered(t, responses, lastCompletedRequestId, pendingRequestId)
        /\ m.type # "reset" => Numbered(t, Append(responses, a), lastCompletedRequestId, pendingRequestId)
    BY <1>1, <1>2, <1>3, <1>8, <2>1, NumbersTaken
  <2>3. Numbered(t, responses', lastCompletedRequestId, pendingRequestId)
    BY <1>7, <2>2
  <2> QED BY <1>1, <1>5, <2>3 DEF NumbersInv, Delivered
<1>14. ShownInv'
  <2> SUFFICES ASSUME lastFiltered.length # 0
               PROVE  Shows(t, responses', state.rows, filteredEvents', hasReceivedFilterResult')
    BY <1>1, <1>5 DEF ShownInv, Delivered
  <2>1. requests[n + 1].type # "reset"
    BY <1>1, <1>3 DEF TableInv, ShownInv, Shows
  <2>2. CASE t # <<>>
    <3>1. n \in 1 .. n /\ t[n] = requests[n + 1]
      BY <1>3, <2>2
    <3> QED BY <1>3, <2>1, <2>2, <3>1 DEF Shows
  <2>3. CASE t = <<>>
    <3>1. m.type # "reset"
      BY <1>3, <2>1, <2>3
    <3> QED BY <1>8, <1>9, <2>3, <3>1 DEF Shows
  <2> QED BY <2>2, <2>3
<1>15. FutureInv'
  <2>1. PICK final \in WorkerStates : Ends(worker, requests, final) /\ Due(final)
    BY DEF TableInv, FutureInv
  <2>2. Ends(worker', requests', final)
    BY <1>1, <1>2, <2>1, EndsFrom
  <2> QED BY <1>1, <1>11, <2>1, <2>2, FutureNext DEF Due, Delivered
<1> QED BY <1>11, <1>12, <1>13, <1>14, <1>15 DEF TableInv

\* An answer is shown, unless a newer one has been.
LEMMA ResultKeeps == ASSUME TableInv, FilterResult PROVE TableInv'
<1>1. /\ Delivered /\ responses # <<>> /\ responses' = Tail(responses) /\ requests' = requests /\ worker' = worker
      /\ Head(responses).id > lastCompletedRequestId =>
           /\ lastCompletedRequestId' = Head(responses).id
           /\ filteredEvents' = Head(responses).rows /\ hasReceivedFilterResult' = TRUE
  BY DEF FilterResult, Delivered, searchVars
<1>2. requests \in Seq(Message) /\ responses \in Seq(Answer) /\ worker \in WorkerStates
      /\ lastCompletedRequestId \in Nat /\ pendingRequestId \in Nat
  BY TypeFacts
<1>3. PICK n \in Nat, t \in Seq(Answer), a \in Answer :
        /\ t = Tail(responses) /\ a = Head(responses) /\ a = responses[1] /\ n = Len(t) /\ n + 1 = Len(responses)
        /\ DOMAIN responses = 1 .. n + 1 /\ DOMAIN t = 1 .. n
        /\ (t = <<>> <=> n = 0)
        /\ \A i \in 1 .. n : t[i] = responses[i + 1]
  BY <1>1, <1>2, TailAt
<1>4. Numbered(requests, responses, lastCompletedRequestId, pendingRequestId)
  BY DEF TableInv, NumbersInv
<1>5. Head(responses).id > lastCompletedRequestId /\ Numbered(requests, t, a.id, pendingRequestId)
  BY <1>1, <1>2, <1>3, <1>4, NumbersShown
<1>6. responses' = t /\ lastCompletedRequestId' = a.id /\ a.id \in Nat /\ filteredEvents' = a.rows /\ hasReceivedFilterResult' = TRUE
  <2>1. a.id \in Nat
    BY DEF Answer
  <2> QED BY <1>1, <1>3, <1>5, <2>1
<1>7. TableTypes' /\ TimerInv' /\ AskedInv' /\ CurrentInv' /\ currentRows' = RowsOf(snapshotData', eventVersion')
       /\ visibleFields' = visibleFields
  BY <1>1, <1>2, <1>6, DeliveryKeeps
<1>8. RowsNow'
  <2>1. isSnapshotMode \/ eventVersion # 0
    BY <1>1 DEF TableInv, RowsNow
  <2> QED BY <1>1, <1>7, <2>1 DEF RowsNow, isSnapshotMode, Delivered
<1>9. NumbersInv'
  BY <1>1, <1>5, <1>6 DEF NumbersInv, Delivered
<1>10. ShownInv'
  <2> SUFFICES ASSUME lastFiltered.length # 0
               PROVE  Shows(requests, t, worker.rows, a.rows, TRUE)
    BY <1>1, <1>6 DEF ShownInv, Delivered
  <2>1. IF requests # <<>> THEN requests[Len(requests)].type # "reset" ELSE responses[n + 1].rows = worker.rows
    BY <1>1, <1>3 DEF TableInv, ShownInv, Shows
  <2>2. CASE requests # <<>>
    BY <2>1, <2>2 DEF Shows
  <2>3. CASE requests = <<>> /\ t # <<>>
    <3>1. n \in 1 .. n /\ t[n] = responses[n + 1]
      BY <1>3, <2>3
    <3> QED BY <1>3, <2>1, <2>3, <3>1 DEF Shows
  <2>4. CASE requests = <<>> /\ t = <<>>
    BY <1>3, <2>1, <2>4 DEF Shows
  <2> QED BY <2>2, <2>3, <2>4
<1>11. FutureInv'
  <2>1. PICK final \in WorkerStates : Ends(worker, requests, final) /\ Due(final)
    BY DEF TableInv, FutureInv
  <2> QED BY <1>1, <1>7, <2>1, FutureNext DEF Due, Delivered
<1> QED BY <1>7, <1>8, <1>9, <1>10, <1>11 DEF TableInv

-----------------------------------------------------------------------------
(* The theorem *)

\* Every step keeps the invariant.
LEMMA TableStep == TableInv /\ [TableNext]_tableVars => TableInv'
<1> SUFFICES ASSUME TableInv, [TableNext]_tableVars PROVE TableInv'
  OBVIOUS
<1>1. CASE Arrive
  BY <1>1, ArriveKeeps
<1>2. CASE SelectSnapshot
  BY <1>2, SelectKeeps
<1>3. CASE Search \/ ToggleFilterMode
  BY <1>3, SearchKeeps
<1>4. CASE toggleColumnVisibility
  BY <1>4, ColumnKeeps
<1>5. CASE handleColumnSort
  BY <1>5, OthersKeep DEF handleColumnSort
<1>6. CASE ToggleRunning
  BY <1>6, OthersKeep DEF ToggleRunning
<1>7. CASE DebounceTimer
  BY <1>7, TimerKeeps
<1>8. CASE WorkerStep
  BY <1>8, WorkerKeeps
<1>9. CASE FilterResult
  BY <1>9, ResultKeeps
<1>10. CASE UNCHANGED tableVars
  BY <1>10, OthersKeep DEF tableVars
<1> QED BY <1>1, <1>2, <1>3, <1>4, <1>5, <1>6, <1>7, <1>8, <1>9, <1>10 DEF TableNext

\* When a search is over the table shows what it is for, whatever crossed on the
\* way: messages of both sides, new events, modes and queries.
THEOREM SearchAlwaysRight == TableSpec => []SettledTableIsRight
<1>1. TableInit => TableInv
  BY TableStarts
<1>2. TableInv /\ [TableNext]_tableVars => TableInv'
  BY TableStep
<1>3. TableInv => SettledTableIsRight
  BY SettledFollows
<1> QED BY <1>1, <1>2, <1>3, PTL DEF TableSpec
=============================================================================
