-------------------------- MODULE EventPipelineProofs --------------------------
(* The order and the count of events, for every set of instances, every kind   *)
(* of processors and every bound.                                              *)
(*                                                                             *)
(* The buffer is grouped by a loop over its messages (GroupByInstance).  What  *)
(* the loop makes is shown by induction over sets of naturals: Least and       *)
(* SetInduction come from the well-founded order of finite sets.               *)
EXTENDS EventPipeline, FiniteSetTheorems, SequenceTheorems, TLAPS

\* A set of naturals has a least element.
LEMMA Least ==
  ASSUME NEW T \in SUBSET Nat, T # {}
  PROVE  \E m \in T : \A n \in T : m <= n
<1> DEFINE Ranges == {0 .. n : n \in T}
           R == StrictSubsetOrdering(Nat)
<1>1. Ranges \subseteq FiniteSubsetsOf(Nat) /\ Ranges # {}
  <2>1. \A n \in T : IsFiniteSet(0 .. n) /\ 0 .. n \subseteq Nat
    BY FS_Interval
  <2> QED BY <2>1 DEF FiniteSubsetsOf
<1>2. IsWellFoundedOn(R, FiniteSubsetsOf(Nat))
  BY FS_StrictSubsetOrderingWellFounded
<1>3. PICK r \in Ranges : \A s \in Ranges : ~(<<s, r>> \in R)
  <2> HIDE DEF Ranges, R
  <2> QED BY <1>1, <1>2, WFMin
<1>4. PICK m \in T : r = 0 .. m
  BY <1>3
<1>5. ASSUME NEW n \in T, ~(m <= n) PROVE FALSE
  <2>1. 0 .. n \in Ranges
    OBVIOUS
  <2>2. 0 .. n \subseteq 0 .. m /\ 0 .. n # 0 .. m
    <3>1. m \in 0 .. m /\ m \notin 0 .. n
      BY <1>5
    <3>2. \A k \in 0 .. n : k \in 0 .. m
      BY <1>5
    <3> QED BY <3>1, <3>2
  <2>3. <<0 .. n, 0 .. m>> \in R
    BY <2>2 DEF StrictSubsetOrdering
  <2> QED BY <1>3, <1>4, <2>1, <2>3
<1> QED BY <1>5

LEMMA MinIsLeast ==
  ASSUME NEW T \in SUBSET Nat, T # {}
  PROVE  Min(T) \in T /\ \A n \in T : Min(T) <= n
BY Least DEF Min

LEMMA SetInduction ==
  ASSUME NEW S \in SUBSET Nat, 0 \in S, \A n \in S : n + 1 \in S
  PROVE  S = Nat
<1> DEFINE T == Nat \ S
<1>1. SUFFICES ASSUME T # {} PROVE FALSE
  OBVIOUS
<1>2. PICK x \in T : \A n \in T : x <= n
  <2> HIDE DEF T
  <2>1. T \in SUBSET Nat
    BY DEF T
  <2> QED BY <1>1, <2>1, Least
<1>3. x \in Nat /\ x # 0
  OBVIOUS
<1>4. x - 1 \in Nat /\ x - 1 + 1 = x /\ ~(x <= x - 1)
  BY <1>3
<1>5. x - 1 \in T
  BY <1>4
<1> QED BY <1>2, <1>4, <1>5

-----------------------------------------------------------------------------
(* The loop over the buffered messages.                                        *)
Group == [id : Ids, msgs : Seq(Numbers)]

\* what the loop has made of the first n messages
Grouped(gs, msgs, n) ==
  /\ gs \in Seq(Group) /\ OneEach(gs)
  /\ \A a \in DOMAIN gs : \A x \in DOMAIN gs[a].msgs :
       \E j \in 1 .. n : msgs[j].id = gs[a].id /\ msgs[j].n = gs[a].msgs[x]
  /\ \A j \in 1 .. n : \E a \in DOMAIN gs : gs[a].id = msgs[j].id
                                           /\ \E x \in DOMAIN gs[a].msgs : gs[a].msgs[x] = msgs[j].n

\* the values of the loop, as far as it has come
LoopTo(msgs, n) ==
  {f \in [0 .. n -> Seq(Group)] :
     /\ f[0] = <<>>
     /\ \A k \in 1 .. n : f[k] = AddToGroups(f[k - 1], msgs[k])}

LEMMA AddToGroupsAdds ==
  ASSUME NEW msgs \in Seq(Messages), InOrder(msgs), NEW n \in Nat, n + 1 <= Len(msgs),
         NEW gs, Grouped(gs, msgs, n)
  PROVE  Grouped(AddToGroups(gs, msgs[n + 1]), msgs, n + 1)
<1> DEFINE m == msgs[n + 1]
           new == AddToGroups(gs, m)
<1>1. /\ gs \in Seq(Group) /\ Len(gs) \in Nat /\ DOMAIN gs = 1 .. Len(gs)
      /\ Len(msgs) \in Nat /\ DOMAIN msgs = 1 .. Len(msgs)
      /\ n + 1 \in 1 .. Len(msgs) /\ 1 .. n \subseteq 1 .. Len(msgs)
  BY DEF Grouped
<1>2. /\ \A a \in 1 .. Len(gs) : gs[a] \in Group
      /\ m \in Messages /\ m.id \in Ids /\ m.n \in Numbers
      /\ \A j \in 1 .. Len(msgs) : msgs[j].n \in Int
  <2>1. \A j \in 1 .. Len(msgs) : msgs[j] \in Messages
    BY <1>1
  <2> QED BY <1>1, <2>1, PipelineAssumption DEF Messages, Numbers
\* the message comes after those of its instance
<1>3. \A j \in 1 .. n : msgs[j].id = m.id => msgs[j].n < m.n
  BY <1>1 DEF InOrder
<1>4. \A a \in 1 .. Len(gs) :
        /\ gs[a].msgs \in Seq(Numbers) /\ gs[a].id \in Ids
        /\ gs[a].msgs # <<>> /\ Increasing(gs[a].msgs)
        /\ gs[a].id = m.id => \A x \in DOMAIN gs[a].msgs : gs[a].msgs[x] < m.n
  <2>1. \A a \in 1 .. Len(gs) : gs[a].msgs \in Seq(Numbers) /\ gs[a].id \in Ids
    BY <1>2 DEF Group
  <2>2. \A a \in 1 .. Len(gs) : gs[a].id = m.id => \A x \in DOMAIN gs[a].msgs : gs[a].msgs[x] < m.n
    <3> SUFFICES ASSUME NEW a \in 1 .. Len(gs), gs[a].id = m.id, NEW x \in DOMAIN gs[a].msgs
                 PROVE  gs[a].msgs[x] < m.n
      OBVIOUS
    <3>1. PICK j \in 1 .. n : msgs[j].id = gs[a].id /\ msgs[j].n = gs[a].msgs[x]
      BY <1>1 DEF Grouped
    <3>2. msgs[j].n < m.n
      BY <1>3, <3>1
    <3> QED BY <3>1, <3>2
  <2> QED BY <1>1, <2>1, <2>2 DEF Grouped, OneEach
<1> HIDE DEF m
<1>5. CASE \E k \in 1 .. Len(gs) : gs[k].id = m.id
  <2> DEFINE more(a) == Append(gs[a].msgs, m.n)
  <2>1. new = [k \in 1 .. Len(gs) |-> IF gs[k].id = m.id THEN [gs[k] EXCEPT !.msgs = more(k)] ELSE gs[k]]
    BY <1>5 DEF AddToGroups
  <2>2. ASSUME NEW a \in 1 .. Len(gs), gs[a].id = m.id
        PROVE  /\ more(a) \in Seq(Numbers) /\ more(a) # <<>> /\ Increasing(more(a))
               /\ DOMAIN more(a) = 1 .. Len(gs[a].msgs) + 1 /\ Len(gs[a].msgs) \in Nat
               /\ DOMAIN gs[a].msgs = 1 .. Len(gs[a].msgs)
               /\ \A x \in 1 .. Len(gs[a].msgs) : more(a)[x] = gs[a].msgs[x]
               /\ more(a)[Len(gs[a].msgs) + 1] = m.n
    <3> DEFINE old == gs[a].msgs
    <3>1. old \in Seq(Numbers) /\ Increasing(old) /\ \A x \in DOMAIN old : old[x] < m.n
      BY <1>4, <2>2
    <3> HIDE DEF old
    <3>2. /\ Append(old, m.n) \in Seq(Numbers) /\ Len(old) \in Nat /\ Len(Append(old, m.n)) = Len(old) + 1
          /\ DOMAIN old = 1 .. Len(old) /\ DOMAIN Append(old, m.n) = 1 .. Len(old) + 1
          /\ \A x \in 1 .. Len(old) : Append(old, m.n)[x] = old[x]
          /\ Append(old, m.n)[Len(old) + 1] = m.n
      BY <1>2, <3>1
    <3>3. Increasing(Append(old, m.n))
      <4> SUFFICES ASSUME NEW j \in 1 .. Len(old) + 1, NEW k \in 1 .. Len(old) + 1, j < k
                   PROVE  Append(old, m.n)[j] < Append(old, m.n)[k]
        BY <3>2 DEF Increasing
      <4>1. j \in 1 .. Len(old)
        BY <3>2
      <4>2. CASE k \in 1 .. Len(old)
        BY <3>1, <3>2, <4>1, <4>2 DEF Increasing
      <4>3. CASE k = Len(old) + 1
        BY <3>1, <3>2, <4>1, <4>3
      <4> QED BY <3>2, <4>2, <4>3
    <3>4. Append(old, m.n) # <<>>
      BY <3>2
    <3> QED BY <3>2, <3>3, <3>4 DEF old
  <2>3. DOMAIN new = 1 .. Len(gs)
    BY <2>1
  <2>4. ASSUME NEW a \in 1 .. Len(gs)
        PROVE  /\ new[a] \in Group /\ new[a].id = gs[a].id
               /\ gs[a].id = m.id => new[a].msgs = more(a)
               /\ gs[a].id # m.id => new[a].msgs = gs[a].msgs
    <3>1. new[a] = IF gs[a].id = m.id THEN [gs[a] EXCEPT !.msgs = more(a)] ELSE gs[a]
      BY <2>1
    <3>2. gs[a] \in Group
      BY <1>2
    <3>3. CASE gs[a].id = m.id
      <4>1. more(a) \in Seq(Numbers)
        BY <2>2, <3>3
      <4> HIDE DEF more, new
      <4> QED BY <3>1, <3>2, <3>3, <4>1 DEF Group
    <3>4. CASE gs[a].id # m.id
      BY <3>1, <3>2, <3>4
    <3> QED BY <3>3, <3>4
  <2> HIDE DEF new
  <2>5. new \in Seq(Group)
    <3>1. new \in [1 .. Len(gs) -> Group]
      <4> HIDE DEF more
      <4> QED BY <2>1, <2>3, <2>4
    <3> QED BY <1>1, <3>1
  <2>6. OneEach(new)
    <3>1. \A j, k \in DOMAIN new : new[j].id = new[k].id => j = k
      BY <1>1, <2>3, <2>4 DEF Grouped, OneEach
    <3>2. ASSUME NEW a \in 1 .. Len(gs) PROVE new[a].msgs # <<>> /\ Increasing(new[a].msgs)
      <4>1. CASE gs[a].id = m.id
        <5> HIDE DEF more
        <5> QED BY <2>2, <2>4, <4>1
      <4>2. CASE gs[a].id # m.id
        BY <1>4, <2>4, <4>2
      <4> QED BY <4>1, <4>2
    <3> QED BY <2>3, <3>1, <3>2 DEF OneEach
  <2>7. ASSUME NEW a \in 1 .. Len(gs), NEW x \in DOMAIN new[a].msgs
        PROVE  \E j \in 1 .. n + 1 : msgs[j].id = new[a].id /\ msgs[j].n = new[a].msgs[x]
    <3>1. ASSUME NEW y \in DOMAIN gs[a].msgs
          PROVE  \E j \in 1 .. n + 1 : msgs[j].id = gs[a].id /\ msgs[j].n = gs[a].msgs[y]
      BY <1>1 DEF Grouped
    <3>2. CASE gs[a].id = m.id
      <4> DEFINE old == gs[a].msgs
      <4>1. /\ x \in 1 .. Len(old) + 1 /\ Len(old) \in Nat /\ DOMAIN old = 1 .. Len(old)
            /\ x \in 1 .. Len(old) => new[a].msgs[x] = old[x]
            /\ x = Len(old) + 1 => new[a].msgs[x] = m.n
        BY <2>2, <2>4, <3>2
      <4> HIDE DEF old
      <4>2. CASE x \in 1 .. Len(old)
        BY <2>4, <3>1, <4>1, <4>2 DEF old
      <4>3. CASE x = Len(old) + 1
        <5>1. n + 1 \in 1 .. n + 1 /\ msgs[n + 1].id = new[a].id /\ msgs[n + 1].n = new[a].msgs[x]
          BY <2>4, <3>2, <4>1, <4>3 DEF m
        <5> QED BY <5>1
      <4> QED BY <4>1, <4>2, <4>3
    <3>3. CASE gs[a].id # m.id
      BY <2>4, <3>1, <3>3
    <3> QED BY <3>2, <3>3
  <2>8. ASSUME NEW j \in 1 .. n + 1
        PROVE  \E a \in 1 .. Len(gs) : /\ new[a].id = msgs[j].id
                                       /\ \E x \in DOMAIN new[a].msgs : new[a].msgs[x] = msgs[j].n
    <3>1. CASE j \in 1 .. n
      <4>1. PICK a \in 1 .. Len(gs) : gs[a].id = msgs[j].id
                                      /\ \E x \in DOMAIN gs[a].msgs : gs[a].msgs[x] = msgs[j].n
        <5>1. \A i \in 1 .. n : \E a \in DOMAIN gs : gs[a].id = msgs[i].id
                                           /\ \E x \in DOMAIN gs[a].msgs : gs[a].msgs[x] = msgs[i].n
          BY DEF Grouped
        <5>2. DOMAIN gs = 1 .. Len(gs)
          BY <1>1
        <5> QED BY <3>1, <5>1, <5>2, Zenon
      <4>2. PICK x \in DOMAIN gs[a].msgs : gs[a].msgs[x] = msgs[j].n
        BY <4>1
      <4>3. x \in DOMAIN new[a].msgs /\ new[a].msgs[x] = gs[a].msgs[x]
        <5>1. CASE gs[a].id = m.id
          <6> DEFINE old == gs[a].msgs
          <6>1. /\ x \in 1 .. Len(old) /\ Len(old) \in Nat /\ DOMAIN new[a].msgs = 1 .. Len(old) + 1
                /\ new[a].msgs[x] = old[x]
            BY <2>2, <2>4, <4>2, <5>1
          <6> HIDE DEF old
          <6> QED BY <6>1 DEF old
        <5>2. CASE gs[a].id # m.id
          BY <2>4, <5>2
        <5> QED BY <5>1, <5>2
      <4> QED BY <2>4, <4>1, <4>2, <4>3
    <3>2. CASE j = n + 1
      <4>1. PICK a \in 1 .. Len(gs) : gs[a].id = m.id
        BY <1>5
      <4> DEFINE old == gs[a].msgs
      <4>2. /\ Len(old) \in Nat /\ DOMAIN new[a].msgs = 1 .. Len(old) + 1
            /\ new[a].msgs[Len(old) + 1] = m.n
        BY <2>2, <2>4, <4>1
      <4> HIDE DEF old
      <4>3. Len(old) + 1 \in DOMAIN new[a].msgs
        BY <4>2
      <4> QED BY <2>4, <3>2, <4>1, <4>2, <4>3 DEF m
    <3> QED BY <3>1, <3>2
  <2>9. Grouped(new, msgs, n + 1)
    <3>1. \A a \in DOMAIN new : \A x \in DOMAIN new[a].msgs :
            \E j \in 1 .. n + 1 : msgs[j].id = new[a].id /\ msgs[j].n = new[a].msgs[x]
      BY <2>3, <2>7
    <3>2. \A j \in 1 .. n + 1 : \E a \in DOMAIN new : new[a].id = msgs[j].id
                                /\ \E x \in DOMAIN new[a].msgs : new[a].msgs[x] = msgs[j].n
      BY <2>3, <2>8
    <3> QED BY <2>5, <2>6, <3>1, <3>2 DEF Grouped
  <2> QED BY <2>9 DEF new, m
<1>6. CASE ~\E k \in 1 .. Len(gs) : gs[k].id = m.id
  <2> DEFINE fresh == [id |-> m.id, msgs |-> <<m.n>>]
  <2>1. new = Append(gs, fresh)
    BY <1>6 DEF AddToGroups
  <2>2. fresh \in Group /\ fresh.id = m.id /\ fresh.msgs = <<m.n>>
    BY <1>2 DEF Group
  <2>3. /\ fresh.msgs # <<>> /\ DOMAIN fresh.msgs = {1} /\ fresh.msgs[1] = m.n /\ Increasing(fresh.msgs)
    BY <1>2, <2>2 DEF Increasing
  <2> HIDE DEF new, fresh
  <2>4. /\ new \in Seq(Group) /\ DOMAIN new = 1 .. Len(gs) + 1
        /\ \A a \in 1 .. Len(gs) : new[a] = gs[a]
        /\ new[Len(gs) + 1] = fresh
    BY <1>1, <2>1, <2>2
  <2>5. OneEach(new)
    <3>1. \A j, k \in 1 .. Len(gs) : gs[j].id = gs[k].id => j = k
      BY <1>1 DEF Grouped, OneEach
    <3>2. \A j, k \in DOMAIN new : new[j].id = new[k].id => j = k
      BY <1>1, <1>6, <2>2, <2>4, <3>1
    <3>3. ASSUME NEW k \in DOMAIN new PROVE new[k].msgs # <<>> /\ Increasing(new[k].msgs)
      BY <1>1, <1>4, <2>3, <2>4, <3>3
    <3> QED BY <3>2, <3>3 DEF OneEach
  <2>6. ASSUME NEW a \in DOMAIN new, NEW x \in DOMAIN new[a].msgs
        PROVE  \E j \in 1 .. n + 1 : msgs[j].id = new[a].id /\ msgs[j].n = new[a].msgs[x]
    <3>1. CASE a \in 1 .. Len(gs)
      <4>1. PICK j \in 1 .. n : msgs[j].id = gs[a].id /\ msgs[j].n = gs[a].msgs[x]
        <5>1. \A k \in DOMAIN gs : \A y \in DOMAIN gs[k].msgs :
                \E j \in 1 .. n : msgs[j].id = gs[k].id /\ msgs[j].n = gs[k].msgs[y]
          BY DEF Grouped
        <5>2. a \in DOMAIN gs /\ x \in DOMAIN gs[a].msgs
          BY <1>1, <2>4, <3>1
        <5> QED BY <5>1, <5>2, Zenon
      <4> QED BY <2>4, <3>1, <4>1
    <3>2. CASE a = Len(gs) + 1
      <4>1. n + 1 \in 1 .. n + 1 /\ new[a] = fresh /\ x = 1
        BY <2>3, <2>4, <3>2
      <4> QED BY <2>2, <2>3, <4>1 DEF m
    <3> QED BY <1>1, <2>4, <3>1, <3>2
  <2>7. ASSUME NEW j \in 1 .. n + 1
        PROVE  \E a \in DOMAIN new : /\ new[a].id = msgs[j].id
                                     /\ \E x \in DOMAIN new[a].msgs : new[a].msgs[x] = msgs[j].n
    <3>1. CASE j \in 1 .. n
      <4>1. PICK a \in 1 .. Len(gs) : gs[a].id = msgs[j].id
                                      /\ \E x \in DOMAIN gs[a].msgs : gs[a].msgs[x] = msgs[j].n
        <5>1. \A i \in 1 .. n : \E a \in DOMAIN gs : gs[a].id = msgs[i].id
                                           /\ \E x \in DOMAIN gs[a].msgs : gs[a].msgs[x] = msgs[i].n
          BY DEF Grouped
        <5>2. DOMAIN gs = 1 .. Len(gs)
          BY <1>1
        <5> QED BY <3>1, <5>1, <5>2, Zenon
      <4>2. a \in DOMAIN new /\ new[a] = gs[a]
        BY <1>1, <2>4
      <4> QED BY <4>1, <4>2
    <3>2. CASE j = n + 1
      <4>1. Len(gs) + 1 \in DOMAIN new /\ new[Len(gs) + 1] = fresh /\ 1 \in DOMAIN fresh.msgs
        BY <1>1, <2>3, <2>4
      <4> QED BY <2>2, <2>3, <3>2, <4>1 DEF m
    <3> QED BY <3>1, <3>2
  <2>8. Grouped(new, msgs, n + 1)
    BY <2>4, <2>5, <2>6, <2>7 DEF Grouped
  <2> QED BY <2>8 DEF new, m
<1> QED BY <1>5, <1>6

\* The loop reaches the end of the buffer.
LEMMA LoopRuns ==
  ASSUME NEW msgs \in Seq(Messages), InOrder(msgs)
  PROVE  \E f \in LoopTo(msgs, Len(msgs)) : \A k \in 0 .. Len(msgs) : Grouped(f[k], msgs, k)
<1> DEFINE Good(n) == \E f \in LoopTo(msgs, n) : \A k \in 0 .. n : Grouped(f[k], msgs, k)
           S == {n \in Nat : n <= Len(msgs) => Good(n)}
<1>1. 0 \in S
  <2> DEFINE f == [k \in 0 .. 0 |-> <<>>]
  <2>1. f \in LoopTo(msgs, 0)
    BY DEF LoopTo
  <2>2. Grouped(<<>>, msgs, 0)
    BY DEF Grouped, OneEach
  <2>3. \A k \in 0 .. 0 : Grouped(f[k], msgs, k)
    BY <2>2
  <2> QED BY <2>1, <2>3
<1>2. ASSUME NEW n \in S PROVE n + 1 \in S
  <2> SUFFICES ASSUME n + 1 <= Len(msgs) PROVE Good(n + 1)
    OBVIOUS
  <2>1. PICK f \in LoopTo(msgs, n) : \A k \in 0 .. n : Grouped(f[k], msgs, k)
    BY <1>2
  <2> DEFINE next == AddToGroups(f[n], msgs[n + 1])
             g == [k \in 0 .. n + 1 |-> IF k = n + 1 THEN next ELSE f[k]]
  <2>2. n \in Nat /\ Grouped(f[n], msgs, n)
    BY <2>1
  <2>3. Grouped(next, msgs, n + 1)
    BY <2>2, AddToGroupsAdds
  <2> HIDE DEF next
  <2>4. g \in LoopTo(msgs, n + 1)
    <3>1. f \in [0 .. n -> Seq(Group)] /\ f[0] = <<>> /\ \A k \in 1 .. n : f[k] = AddToGroups(f[k - 1], msgs[k])
      BY DEF LoopTo
    <3>2. g \in [0 .. n + 1 -> Seq(Group)]
      BY <2>2, <2>3, <3>1 DEF Grouped
    <3>3. g[0] = <<>>
      BY <2>2, <3>1
    <3>4. ASSUME NEW k \in 1 .. n + 1 PROVE g[k] = AddToGroups(g[k - 1], msgs[k])
      <4>1. CASE k = n + 1
        <5>1. g[k] = next /\ g[k - 1] = f[n]
          BY <2>2, <4>1
        <5> QED BY <4>1, <5>1 DEF next
      <4>2. CASE k # n + 1
        <5>1. k \in 1 .. n /\ g[k] = f[k] /\ g[k - 1] = f[k - 1]
          BY <2>2, <4>2
        <5> QED BY <3>1, <5>1
      <4> QED BY <4>1, <4>2
    <3> HIDE DEF g
    <3> QED BY <3>2, <3>3, <3>4 DEF LoopTo
  <2>5. \A k \in 0 .. n + 1 : Grouped(g[k], msgs, k)
    BY <2>1, <2>2, <2>3
  <2> QED BY <2>4, <2>5
<1>3. S = Nat
  <2> HIDE DEF S
  <2>1. S \in SUBSET Nat
    BY DEF S
  <2> QED BY <1>1, <1>2, <2>1, SetInduction
<1>4. Len(msgs) \in S
  BY <1>3
<1> QED BY <1>4

\* Every message is in the one group of its instance, in order.
LEMMA GroupByInstanceGroups ==
  ASSUME NEW msgs \in Seq(Messages), InOrder(msgs)
  PROVE  Grouped(GroupByInstance(msgs), msgs, Len(msgs))
<1> DEFINE loop == CHOOSE f : f = [k \in 0 .. Len(msgs) |->
                     IF k = 0 THEN <<>> ELSE AddToGroups(f[k - 1], msgs[k])]
<1>1. PICK f \in LoopTo(msgs, Len(msgs)) : \A k \in 0 .. Len(msgs) : Grouped(f[k], msgs, k)
  BY LoopRuns
<1>2. Len(msgs) \in Nat
  OBVIOUS
<1>3. f = [k \in 0 .. Len(msgs) |-> IF k = 0 THEN <<>> ELSE AddToGroups(f[k - 1], msgs[k])]
  BY <1>2 DEF LoopTo
<1>4. loop = [k \in 0 .. Len(msgs) |-> IF k = 0 THEN <<>> ELSE AddToGroups(loop[k - 1], msgs[k])]
  BY <1>3
<1>5. GroupByInstance(msgs) = loop[Len(msgs)]
  BY DEF GroupByInstance
<1> HIDE DEF loop
<1> DEFINE S == {n \in Nat : n <= Len(msgs) => loop[n] = f[n]}
<1>6. 0 \in S
  BY <1>2, <1>3, <1>4
<1>7. ASSUME NEW n \in S PROVE n + 1 \in S
  <2> SUFFICES ASSUME n + 1 <= Len(msgs) PROVE loop[n + 1] = f[n + 1]
    OBVIOUS
  <2>1. n + 1 \in 0 .. Len(msgs) /\ n + 1 # 0 /\ n + 1 - 1 = n /\ loop[n] = f[n]
    BY <1>2
  <2>2. loop[n + 1] = AddToGroups(loop[n], msgs[n + 1])
    BY <1>4, <2>1
  <2>3. f[n + 1] = AddToGroups(f[n], msgs[n + 1])
    BY <1>3, <2>1
  <2> QED BY <2>1, <2>2, <2>3
<1>8. S = Nat
  <2> HIDE DEF S
  <2>1. S \in SUBSET Nat
    BY DEF S
  <2> QED BY <1>6, <1>7, <2>1, SetInduction
<1>9. loop[Len(msgs)] = f[Len(msgs)]
  BY <1>2, <1>8
<1> QED BY <1>1, <1>2, <1>5, <1>9

-----------------------------------------------------------------------------
(* What the groups of a flush hold.                                            *)
GroupedIn(gs, i) == UNION {ToSet(g.msgs) : g \in {x \in ToSet(gs) : x.id = i}}

LEMMA GroupedMember ==
  ASSUME NEW gs, NEW i, NEW x
  PROVE  x \in GroupedIn(gs, i) <=>
           \E a \in DOMAIN gs : gs[a].id = i /\ \E y \in DOMAIN gs[a].msgs : gs[a].msgs[y] = x
BY DEF GroupedIn, ToSet

LEMMA GroupedOne ==
  ASSUME NEW gs, NEW i, NEW k \in DOMAIN gs, \A a \in DOMAIN gs : gs[a].id = i <=> a = k
  PROVE  GroupedIn(gs, i) = ToSet(gs[k].msgs)
<1>1. ASSUME NEW x \in GroupedIn(gs, i) PROVE x \in ToSet(gs[k].msgs)
  BY <1>1, GroupedMember DEF ToSet
<1>2. ASSUME NEW x \in ToSet(gs[k].msgs) PROVE x \in GroupedIn(gs, i)
  BY <1>2, GroupedMember DEF ToSet
<1> QED BY <1>1, <1>2

LEMMA GroupedSame ==
  ASSUME NEW gs, NEW hs, NEW i, DOMAIN hs = DOMAIN gs,
         \A k \in DOMAIN gs : (gs[k].id = i \/ hs[k].id = i) => hs[k] = gs[k]
  PROVE  GroupedIn(hs, i) = GroupedIn(gs, i)
<1>1. ASSUME NEW x \in GroupedIn(hs, i) PROVE x \in GroupedIn(gs, i)
  BY <1>1, GroupedMember
<1>2. ASSUME NEW x \in GroupedIn(gs, i) PROVE x \in GroupedIn(hs, i)
  BY <1>2, GroupedMember
<1> QED BY <1>1, <1>2

\* Groups of instances that are gone are skipped, no other, and none is touched.
LEMMA SkipClosedSkips ==
  ASSUME NEW gs \in Seq(Group), OneEach(gs)
  PROVE  /\ SkipClosed(gs) \in Seq(Group) /\ OneEach(SkipClosed(gs))
         /\ \A i : GroupedIn(SkipClosed(gs), i) \subseteq GroupedIn(gs, i)
         /\ \A i \in shown : GroupedIn(SkipClosed(gs), i) = GroupedIn(gs, i)
<1> DEFINE here == {k \in 1 .. Len(gs) : gs[k].id \in shown}
           rest == SkipClosed(gs)
<1>1. Len(gs) \in Nat /\ DOMAIN gs = 1 .. Len(gs) /\ here \subseteq Nat /\ here \subseteq 1 .. Len(gs)
  OBVIOUS
<1>2. rest = LET k == IF here # {} THEN Min(here) ELSE 0
             IN  IF k = 0 THEN <<>> ELSE SubSeq(gs, k, Len(gs))
  BY DEF SkipClosed, SelectInSeq
<1>3. CASE here = {}
  <2>1. rest = <<>>
    BY <1>2, <1>3
  <2>2. \A i \in shown : \A x : x \notin GroupedIn(gs, i)
    BY <1>1, <1>3, GroupedMember
  <2>3. \A i : GroupedIn(<<>>, i) = {}
    BY GroupedMember
  <2>4. <<>> \in Seq(Group) /\ OneEach(<<>>)
    BY DEF OneEach
  <2>5. \A i \in shown : GroupedIn(gs, i) = {}
    BY <2>2
  <2> HIDE DEF rest, here
  <2>6. /\ rest \in Seq(Group) /\ OneEach(rest)
        /\ \A i : GroupedIn(rest, i) \subseteq GroupedIn(gs, i)
        /\ \A i \in shown : GroupedIn(rest, i) = GroupedIn(gs, i)
    BY <2>1, <2>3, <2>4, <2>5
  <2> QED BY <2>6 DEF rest
<1>4. CASE here # {}
  <2> DEFINE k == Min(here)
  <2>1. k \in here /\ \A n \in here : k <= n
    <3> HIDE DEF here
    <3> QED BY <1>1, <1>4, MinIsLeast
  <2> HIDE DEF k
  <2>2. k \in 1 .. Len(gs) /\ gs[k].id \in shown /\ \A n \in 1 .. k - 1 : gs[n].id \notin shown
    <3>1. k \in 1 .. Len(gs) /\ gs[k].id \in shown
      BY <1>1, <2>1
    <3>2. ASSUME NEW n \in 1 .. k - 1, gs[n].id \in shown PROVE FALSE
      <4>1. n \in 1 .. Len(gs) /\ ~(k <= n)
        BY <1>1, <3>1
      <4> QED BY <2>1, <3>2, <4>1
    <3> QED BY <3>1, <3>2
  <2>3. rest = SubSeq(gs, k, Len(gs))
    <3> HIDE DEF rest, here
    <3>1. k # 0
      BY <2>2
    <3> QED BY <1>2, <1>4, <3>1 DEF k
  <2> HIDE DEF rest, here
  <2>4. /\ rest \in Seq(Group) /\ Len(rest) = Len(gs) - k + 1 /\ DOMAIN rest = 1 .. Len(gs) - k + 1
        /\ \A n \in 1 .. Len(gs) - k + 1 : rest[n] = gs[k + n - 1]
    <3>1. rest \in Seq(Group)
      <4>1. \A n \in k .. Len(gs) : gs[n] \in Group
        BY <1>1, <2>2
      <4> QED BY <1>1, <2>2, <2>3, <4>1, SubSeqProperties
    <3>2. Len(rest) = Len(gs) - k + 1
      BY <1>1, <2>2, <2>3
    <3>3. \A n \in 1 .. Len(gs) - k + 1 : rest[n] = gs[k + n - 1]
      BY <1>1, <2>2, <2>3
    <3> QED BY <3>1, <3>2, <3>3
  <2>5. \A n \in DOMAIN rest : k + n - 1 \in DOMAIN gs /\ rest[n] = gs[k + n - 1]
    BY <1>1, <2>2, <2>4
  <2>6. OneEach(rest)
    <3>1. \A m, n \in DOMAIN rest : rest[m].id = rest[n].id => m = n
      <4> SUFFICES ASSUME NEW m \in DOMAIN rest, NEW n \in DOMAIN rest, rest[m].id = rest[n].id PROVE m = n
        OBVIOUS
      <4>1. k + m - 1 = k + n - 1
        BY <2>5 DEF OneEach
      <4> QED BY <1>1, <2>2, <2>4, <4>1
    <3> QED BY <2>5, <3>1 DEF OneEach
  <2>7. \A i : GroupedIn(rest, i) \subseteq GroupedIn(gs, i)
    BY <2>5, GroupedMember
  <2>8. ASSUME NEW i \in shown, NEW x \in GroupedIn(gs, i) PROVE x \in GroupedIn(rest, i)
    <3>1. PICK a \in DOMAIN gs : gs[a].id = i /\ \E y \in DOMAIN gs[a].msgs : gs[a].msgs[y] = x
      BY <2>8, GroupedMember
    <3>2. a - k + 1 \in DOMAIN rest /\ k + (a - k + 1) - 1 = a
      BY <1>1, <2>2, <2>4, <3>1
    <3>3. rest[a - k + 1] = gs[a]
      BY <2>5, <3>2
    <3> QED BY <3>1, <3>2, <3>3, GroupedMember
  <2> QED BY <2>4, <2>6, <2>7, <2>8 DEF rest
<1> QED BY <1>3, <1>4

\* The groups of a flush hold what was buffered.
LEMMA GroupsOfBuffer ==
  ASSUME NEW msgs \in Seq(Messages), InOrder(msgs)
  PROVE  /\ GroupByInstance(msgs) \in Seq(Group) /\ OneEach(GroupByInstance(msgs))
         /\ \A i : GroupedIn(GroupByInstance(msgs), i) = {m.n : m \in {x \in ToSet(msgs) : x.id = i}}
<1> DEFINE gs == GroupByInstance(msgs)
<1>1. Grouped(gs, msgs, Len(msgs)) /\ Len(msgs) \in Nat /\ DOMAIN msgs = 1 .. Len(msgs)
  BY GroupByInstanceGroups
<1> HIDE DEF gs
<1>2. ASSUME NEW i, NEW x
      PROVE  x \in GroupedIn(gs, i) <=> \E j \in 1 .. Len(msgs) : msgs[j].id = i /\ msgs[j].n = x
  <2>1. ASSUME x \in GroupedIn(gs, i) PROVE \E j \in 1 .. Len(msgs) : msgs[j].id = i /\ msgs[j].n = x
    <3>1. PICK a \in DOMAIN gs : gs[a].id = i /\ \E y \in DOMAIN gs[a].msgs : gs[a].msgs[y] = x
      BY <2>1, GroupedMember
    <3>2. PICK y \in DOMAIN gs[a].msgs : gs[a].msgs[y] = x
      BY <3>1
    <3> QED BY <1>1, <3>1, <3>2 DEF Grouped
  <2>2. ASSUME NEW j \in 1 .. Len(msgs), msgs[j].id = i, msgs[j].n = x PROVE x \in GroupedIn(gs, i)
    BY <1>1, <2>2, GroupedMember DEF Grouped
  <2> QED BY <2>1, <2>2
<1>3. \A i, x : x \in {m.n : m \in {y \in ToSet(msgs) : y.id = i}} <=>
                  \E j \in 1 .. Len(msgs) : msgs[j].id = i /\ msgs[j].n = x
  BY <1>1 DEF ToSet
<1>4. gs \in Seq(Group) /\ OneEach(gs)
  BY <1>1 DEF Grouped
<1>5. ASSUME NEW i PROVE GroupedIn(gs, i) = {m.n : m \in {x \in ToSet(msgs) : x.id = i}}
  <2> DEFINE buffered == {m.n : m \in {x \in ToSet(msgs) : x.id = i}}
  <2>1. ASSUME NEW x PROVE x \in GroupedIn(gs, i) <=> x \in buffered
    <3>1. x \in GroupedIn(gs, i) <=> \E j \in 1 .. Len(msgs) : msgs[j].id = i /\ msgs[j].n = x
      BY <1>2
    <3>2. x \in buffered <=> \E j \in 1 .. Len(msgs) : msgs[j].id = i /\ msgs[j].n = x
      BY <1>3
    <3> HIDE DEF buffered
    <3> QED BY <3>1, <3>2
  <2> HIDE DEF buffered
  <2> QED BY <2>1 DEF buffered
<1> QED BY <1>4, <1>5 DEF gs

\* The event a flush is at leaves the groups, and nothing else does.
LEMMA EventLeaves ==
  ASSUME NEW left, groups \in Seq(Group), OneEach(groups), groups # <<>>,
         Len(Head(groups).msgs) = 1 => left = SkipClosed(Tail(groups)),
         Len(Head(groups).msgs) # 1 => left = [groups EXCEPT ![1].msgs = Front(@)]
  PROVE  LET i == Head(groups).id
             e == NextOf(Head(groups).msgs)
         IN /\ i \in Ids /\ e \in Numbers /\ e \in GroupedIn(groups, i)
            /\ left \in Seq(Group) /\ OneEach(left)
            /\ GroupedIn(left, i) = GroupedIn(groups, i) \ {e}
            /\ \A j : GroupedIn(left, j) \subseteq GroupedIn(groups, j)
            /\ \A j \in shown \ {i} : GroupedIn(left, j) = GroupedIn(groups, j)
            /\ Len(Head(groups).msgs) # 1 => left # <<>> /\ Head(left).id = i
<1> DEFINE g == Head(groups)
           i == g.id
           e == NextOf(g.msgs)
<1>1. /\ Len(groups) \in Nat /\ Len(groups) >= 1 /\ DOMAIN groups = 1 .. Len(groups)
      /\ g = groups[1] /\ 1 \in DOMAIN groups
  BY DEF Group
<1>2. g \in Group /\ i \in Ids /\ g.msgs \in Seq(Numbers) /\ g.msgs # <<>> /\ Increasing(g.msgs)
  <2>1. g \in Group /\ g.msgs # <<>> /\ Increasing(g.msgs)
    BY <1>1 DEF OneEach
  <2> QED BY <2>1 DEF Group
<1>3. /\ Len(g.msgs) \in Nat /\ Len(g.msgs) >= 1 /\ DOMAIN g.msgs = 1 .. Len(g.msgs)
      /\ e = g.msgs[Len(g.msgs)] /\ e \in Numbers
      /\ \A k \in 1 .. Len(g.msgs) - 1 : g.msgs[k] # e
  <2> DEFINE s == g.msgs
  <2>1. s \in Seq(Numbers) /\ s # <<>> /\ Increasing(s) /\ e = s[Len(s)]
    BY <1>2 DEF NextOf, Last
  <2> HIDE DEF s, e
  <2>2. Len(s) \in Nat /\ Len(s) >= 1 /\ DOMAIN s = 1 .. Len(s) /\ e \in Numbers
    BY <2>1
  <2>3. ASSUME NEW k \in 1 .. Len(s) - 1 PROVE s[k] # e
    <3>1. k \in DOMAIN s /\ Len(s) \in DOMAIN s /\ k < Len(s)
      BY <2>2
    <3>2. s[k] < s[Len(s)]
      BY <2>1, <3>1 DEF Increasing
    <3>3. s[k] \in Int
      BY <2>1, <3>1, PipelineAssumption DEF Numbers
    <3> QED BY <2>1, <3>2, <3>3
  <2> QED BY <2>1, <2>2, <2>3 DEF s
<1> HIDE DEF g, i, e
<1>4. \A j, k \in DOMAIN groups : groups[j].id = groups[k].id => j = k
  BY DEF OneEach
<1>7. \A x : x \in GroupedIn(groups, i) <=> \E k \in 1 .. Len(g.msgs) : g.msgs[k] = x
  BY <1>1, <1>3, <1>4, GroupedMember DEF i
<1>8. CASE Len(g.msgs) = 1
  <2> DEFINE rest == Tail(groups)
  <2>1. /\ rest \in Seq(Group) /\ Len(rest) = Len(groups) - 1 /\ DOMAIN rest = 1 .. Len(groups) - 1
        /\ \A k \in 1 .. Len(groups) - 1 : rest[k] = groups[k + 1]
    BY <1>1
  <2> HIDE DEF rest
  <2>2. \A k \in DOMAIN rest : k + 1 \in DOMAIN groups /\ k + 1 # 1 /\ rest[k] = groups[k + 1]
    BY <1>1, <2>1
  <2>3. OneEach(rest)
    <3>1. \A j, k \in DOMAIN rest : rest[j].id = rest[k].id => j = k
      <4> SUFFICES ASSUME NEW j \in DOMAIN rest, NEW k \in DOMAIN rest, rest[j].id = rest[k].id PROVE j = k
        OBVIOUS
      <4>1. j + 1 = k + 1
        BY <1>4, <2>2
      <4> QED BY <1>1, <2>1, <4>1
    <3> QED BY <2>2, <3>1 DEF OneEach
  <2>4. left = SkipClosed(rest)
    BY <1>8 DEF g, rest
  <2>5. /\ left \in Seq(Group) /\ OneEach(left)
        /\ \A j : GroupedIn(left, j) \subseteq GroupedIn(rest, j)
        /\ \A j \in shown : GroupedIn(left, j) = GroupedIn(rest, j)
    BY <2>1, <2>3, <2>4, SkipClosedSkips
  <2>6. GroupedIn(rest, i) = {}
    <3>1. \A k \in DOMAIN rest : rest[k].id # i
      BY <1>1, <1>4, <2>2 DEF i
    <3> QED BY <3>1, GroupedMember
  <2>7. GroupedIn(groups, i) = {e}
    BY <1>3, <1>7, <1>8
  <2>8. ASSUME NEW j, j # i PROVE GroupedIn(rest, j) = GroupedIn(groups, j)
    <3>1. ASSUME NEW x \in GroupedIn(groups, j) PROVE x \in GroupedIn(rest, j)
      <4>1. PICK a \in DOMAIN groups : groups[a].id = j /\ \E y \in DOMAIN groups[a].msgs : groups[a].msgs[y] = x
        BY <3>1, GroupedMember
      <4>2. a # 1
        BY <1>1, <2>8, <4>1 DEF i
      <4>3. a - 1 \in DOMAIN rest /\ a - 1 + 1 = a
        BY <1>1, <2>1, <4>1, <4>2
      <4>4. rest[a - 1] = groups[a]
        BY <2>2, <4>3
      <4> QED BY <4>1, <4>3, <4>4, GroupedMember
    <3>2. ASSUME NEW x \in GroupedIn(rest, j) PROVE x \in GroupedIn(groups, j)
      BY <2>2, <3>2, GroupedMember
    <3> QED BY <3>1, <3>2
  <2>9. GroupedIn(left, i) = GroupedIn(groups, i) \ {e} /\ e \in GroupedIn(groups, i)
    <3>1. GroupedIn(left, i) \subseteq {}
      BY <2>5, <2>6
    <3>2. GroupedIn(left, i) = {}
      BY <3>1
    <3> QED BY <2>7, <3>2
  <2>10. \A j : GroupedIn(left, j) \subseteq GroupedIn(groups, j)
    BY <2>5, <2>6, <2>8
  <2>11. \A j \in shown \ {i} : GroupedIn(left, j) = GroupedIn(groups, j)
    BY <2>5, <2>8
  <2> QED BY <1>2, <1>3, <1>8, <2>5, <2>9, <2>10, <2>11 DEF g, i, e
<1>9. CASE Len(g.msgs) # 1
  <2> DEFINE s == g.msgs
             front == Front(s)
  <2>0. s \in Seq(Numbers) /\ Len(s) \in Nat /\ Len(s) >= 2 /\ DOMAIN s = 1 .. Len(s) /\ Increasing(s)
    <3>1. Len(s) \in Nat /\ Len(s) >= 1 /\ Len(s) # 1
      BY <1>3, <1>9
    <3>2. Len(s) >= 2
      <4>1. \A n \in Nat : n >= 1 /\ n # 1 => n >= 2
        OBVIOUS
      <4> HIDE DEF s
      <4> QED BY <3>1, <4>1
    <3> QED BY <1>2, <1>3, <3>1, <3>2
  <2> HIDE DEF s
  <2>1. /\ front \in Seq(Numbers) /\ Len(front) = Len(s) - 1 /\ DOMAIN front = 1 .. Len(s) - 1
        /\ \A k \in 1 .. Len(s) - 1 : front[k] = s[k]
    <3>1. front = SubSeq(s, 1, Len(s) - 1)
      BY DEF Front
    <3> HIDE DEF front
    <3> QED BY <2>0, <3>1
  <2> HIDE DEF front
  <2>2. front # <<>> /\ Increasing(front)
    BY <2>0, <2>1 DEF Increasing
  <2>3. left = [groups EXCEPT ![1].msgs = front]
    BY <1>1, <1>9 DEF g, s, front
  <2>4. /\ DOMAIN left = DOMAIN groups /\ left[1] = [g EXCEPT !.msgs = front]
        /\ \A k \in DOMAIN groups : k # 1 => left[k] = groups[k]
    BY <1>1, <2>3
  <2>5. left[1] \in Group /\ left[1].id = i /\ left[1].msgs = front
    BY <1>2, <2>1, <2>4 DEF Group, i
  <2>6. left \in Seq(Group) /\ left # <<>> /\ Head(left).id = i
    <3>1. left \in [1 .. Len(groups) -> Group]
      <4>1. \A k \in 1 .. Len(groups) : left[k] \in Group
        BY <1>1, <2>4, <2>5
      <4>2. DOMAIN left = 1 .. Len(groups) /\ left = [k \in 1 .. Len(groups) |-> left[k]]
        BY <1>1, <2>3, <2>4
      <4> QED BY <4>1, <4>2
    <3>2. left \in Seq(Group) /\ left # <<>>
      BY <1>1, <3>1
    <3>3. Head(left) = left[1]
      BY <3>2
    <3> QED BY <2>5, <3>2, <3>3
  <2>7. OneEach(left)
    <3>1. \A k \in DOMAIN groups : left[k].id = groups[k].id
      BY <1>1, <2>4, <2>5 DEF i
    <3>2. \A k \in DOMAIN groups : left[k].msgs # <<>> /\ Increasing(left[k].msgs)
      BY <2>2, <2>4, <2>5 DEF OneEach
    <3> QED BY <1>4, <2>4, <3>1, <3>2 DEF OneEach
  <2>8. GroupedIn(left, i) = GroupedIn(groups, i) \ {e}
    <3>1. \A x : x \in GroupedIn(left, i) <=> \E k \in 1 .. Len(s) - 1 : s[k] = x
      <4>1. \A k \in DOMAIN groups : left[k].id = i <=> k = 1
        BY <1>1, <1>4, <2>4, <2>5 DEF i
      <4>2. 1 \in DOMAIN left /\ \A k \in DOMAIN left : left[k].id = i <=> k = 1
        BY <1>1, <2>4, <4>1
      <4>3. GroupedIn(left, i) = ToSet(front)
        <5>1. GroupedIn(left, i) = ToSet(left[1].msgs)
          BY <4>2, GroupedOne
        <5> QED BY <2>5, <5>1
      <4> QED BY <2>1, <4>3 DEF ToSet
    <3>2. \A x : x \in GroupedIn(groups, i) \ {e} <=> \E k \in 1 .. Len(s) - 1 : s[k] = x
      <4>1. \A x : x \in GroupedIn(groups, i) <=> \E k \in 1 .. Len(s) : s[k] = x
        BY <1>7 DEF s
      <4>2. e = s[Len(s)] /\ \A k \in 1 .. Len(s) - 1 : s[k] # e
        BY <1>3 DEF s
      <4>3. \A k \in 1 .. Len(s) : k = Len(s) \/ k \in 1 .. Len(s) - 1
        BY <2>0
      <4>4. \A k \in 1 .. Len(s) - 1 : k \in 1 .. Len(s)
        BY <2>0
      <4> QED BY <4>1, <4>2, <4>3, <4>4
    <3>3. \A x : x \in GroupedIn(left, i) <=> x \in GroupedIn(groups, i) \ {e}
      BY <3>1, <3>2
    <3>4. GroupedIn(left, i) = GroupedIn(groups, i) \ {e}
      BY <3>3
    <3> QED BY <3>4
  <2>9. e \in GroupedIn(groups, i)
    BY <1>3, <1>7
  <2>10. ASSUME NEW j, j # i PROVE GroupedIn(left, j) = GroupedIn(groups, j)
    <3>1. \A k \in DOMAIN groups : left[k].id = j => k # 1 /\ left[k] = groups[k]
      BY <2>4, <2>5, <2>10
    <3>2. \A k \in DOMAIN groups : groups[k].id = j => k # 1 /\ left[k] = groups[k]
      BY <1>1, <2>4, <2>10 DEF i
    <3>3. DOMAIN left = DOMAIN groups
      BY <2>4
    <3> QED BY <3>1, <3>2, <3>3, GroupedSame
  <2>11. ASSUME NEW j PROVE GroupedIn(left, j) \subseteq GroupedIn(groups, j)
    BY <2>8, <2>10
  <2> QED BY <1>2, <1>3, <2>6, <2>7, <2>8, <2>9, <2>10, <2>11 DEF g, i, e
<1> QED BY <1>8, <1>9

-----------------------------------------------------------------------------
(* The ring buffer takes events at its front and drops the oldest.            *)
Distinct(list) == \A j, k \in 1 .. Len(list) : j # k /\ list[j] = list[k] => list[j] = 0

LEMMA MinOfTwo ==
  ASSUME NEW m \in Nat, NEW n \in Nat
  PROVE  Min({m, n}) \in Nat /\ Min({m, n}) = (IF m < n THEN m ELSE n)
<1>1. Min({m, n}) \in {m, n} /\ \A k \in {m, n} : Min({m, n}) <= k
  BY MinIsLeast
<1> QED BY <1>1

\* Synthetic events come first; the event itself, if it passed, is the last.
LEMMA ZerosThenEvent ==
  ASSUME NEW k \in Nat, NEW e \in Numbers, NEW event \in {<<>>, <<e>>}
  PROVE  LET new == Zeros(k) \o event
         IN  /\ new \in Seq(Numbers) /\ Len(new) = k + Len(event) /\ Len(event) \in Nat
             /\ \A j \in 1 .. Len(new) : new[j] = 0 \/ (j = Len(new) /\ new[j] = e)
<1>1. Zeros(k) \in Seq(Numbers) /\ Len(Zeros(k)) = k /\ \A j \in 1 .. k : Zeros(k)[j] = 0
  BY PipelineAssumption DEF Zeros, Numbers
<1>2. event \in Seq(Numbers) /\ Len(event) \in 0 .. 1 /\ \A j \in 1 .. Len(event) : event[j] = e
  <2>1. CASE event = <<>>
    BY <2>1
  <2>2. CASE event = <<e>>
    BY <2>2
  <2> QED BY <2>1, <2>2
<1> DEFINE new == Zeros(k) \o event
<1>3. /\ new \in Seq(Numbers) /\ Len(new) = k + Len(event)
      /\ \A j \in 1 .. k + Len(event) : new[j] = IF j <= k THEN Zeros(k)[j] ELSE event[j - k]
  BY <1>1, <1>2, ConcatProperties
<1> HIDE DEF new
<1>4. ASSUME NEW j \in 1 .. Len(new) PROVE new[j] = 0 \/ (j = Len(new) /\ new[j] = e)
  <2>1. CASE j <= k
    <3>1. j \in 1 .. k /\ new[j] = Zeros(k)[j]
      BY <1>3, <2>1
    <3> QED BY <1>1, <3>1
  <2>2. CASE ~(j <= k)
    <3>1. j - k \in 1 .. Len(event) /\ new[j] = event[j - k]
      BY <1>2, <1>3, <2>2
    <3>2. j = Len(new)
      BY <1>2, <1>3, <2>2
    <3> QED BY <1>2, <3>1, <3>2
  <2> QED BY <2>1, <2>2
<1> QED BY <1>2, <1>3, <1>4 DEF new

LEMMA PushAllPushes ==
  ASSUME NEW list \in Seq(Numbers), NEW new \in Seq(Numbers), NEW e \in Numbers,
         \A j \in 1 .. Len(new) : new[j] = 0 \/ (j = Len(new) /\ new[j] = e)
  PROVE  LET all == PushAll(list, new)
         IN  /\ all \in Seq(Numbers) /\ Len(all) <= Capacity
             /\ Len(all) = (IF Len(list) + Len(new) < Capacity THEN Len(list) + Len(new) ELSE Capacity)
             /\ ToSet(all) \ {0} \subseteq (ToSet(list) \ {0}) \cup {e}
             /\ (\A j \in 1 .. Len(new) : new[j] = 0) => ToSet(all) \ {0} \subseteq ToSet(list) \ {0}
             /\ Distinct(list) /\ (e = 0 \/ e \notin ToSet(list)) => Distinct(all)
<1> DEFINE both == new \o list
           n == IF Len(both) < Capacity THEN Len(both) ELSE Capacity
           all == PushAll(list, new)
<1>1. /\ Len(list) \in Nat /\ Len(new) \in Nat /\ Capacity \in Nat
      /\ DOMAIN list = 1 .. Len(list) /\ both \in Seq(Numbers)
      /\ Len(both) = Len(new) + Len(list)
      /\ \A j \in 1 .. Len(new) + Len(list) : both[j] = IF j <= Len(new) THEN new[j] ELSE list[j - Len(new)]
  BY ConcatProperties, PipelineAssumption
<1>2. all = SubSeq(both, 1, n)
  BY DEF PushAll
<1> HIDE DEF both, all
<1>3. n \in 0 .. Len(both) /\ n <= Capacity
  BY <1>1
<1>4. n = IF Len(list) + Len(new) < Capacity THEN Len(list) + Len(new) ELSE Capacity
  BY <1>1
<1> HIDE DEF n
<1>5. /\ all \in Seq(Numbers) /\ Len(all) = n /\ DOMAIN all = 1 .. n
      /\ \A j \in 1 .. n : all[j] = both[j]
  BY <1>1, <1>2, <1>3
<1>6. ASSUME NEW j \in 1 .. n
      PROVE  \/ j \in 1 .. Len(new) /\ all[j] = new[j]
             \/ j - Len(new) \in 1 .. Len(list) /\ all[j] = list[j - Len(new)]
  <2>1. j \in 1 .. Len(new) + Len(list) /\ all[j] = both[j]
    BY <1>1, <1>3, <1>5
  <2>2. CASE j <= Len(new)
    BY <1>1, <2>1, <2>2
  <2>3. CASE ~(j <= Len(new))
    BY <1>1, <2>1, <2>3
  <2> QED BY <2>2, <2>3
<1>7. ASSUME NEW x \in ToSet(all), x # 0
      PROVE  x \in ToSet(list) \/ (x = e /\ \E j \in 1 .. Len(new) : new[j] # 0)
  <2>1. PICK j \in 1 .. n : all[j] = x
    BY <1>5, <1>7 DEF ToSet
  <2>2. CASE j \in 1 .. Len(new) /\ all[j] = new[j]
    BY <1>7, <2>1, <2>2
  <2>3. CASE j - Len(new) \in 1 .. Len(list) /\ all[j] = list[j - Len(new)]
    BY <1>1, <2>1, <2>3 DEF ToSet
  <2> QED BY <1>6, <2>2, <2>3
<1>8. /\ ToSet(all) \ {0} \subseteq (ToSet(list) \ {0}) \cup {e}
      /\ (\A j \in 1 .. Len(new) : new[j] = 0) => ToSet(all) \ {0} \subseteq ToSet(list) \ {0}
  BY <1>7
<1>9. ASSUME Distinct(list), e = 0 \/ e \notin ToSet(list) PROVE Distinct(all)
  <2> SUFFICES ASSUME NEW j \in 1 .. n, NEW k \in 1 .. n, j # k, all[j] = all[k], all[j] # 0 PROVE FALSE
    BY <1>5 DEF Distinct
  <2>1. e # 0 => \A m \in 1 .. Len(list) : list[m] # e
    BY <1>1, <1>9 DEF ToSet
  <2>2. CASE j \in 1 .. Len(new) /\ all[j] = new[j]
    <3>1. all[j] = e /\ j = Len(new)
      BY <2>2
    <3>2. ~(k \in 1 .. Len(new) /\ all[k] = new[k])
      BY <3>1
    <3>3. k - Len(new) \in 1 .. Len(list) /\ all[k] = list[k - Len(new)]
      BY <1>6, <3>2
    <3> QED BY <2>1, <3>1, <3>3
  <2>3. CASE k \in 1 .. Len(new) /\ all[k] = new[k]
    <3>1. all[k] = e /\ k = Len(new)
      BY <2>3
    <3>2. ~(j \in 1 .. Len(new) /\ all[j] = new[j])
      BY <3>1
    <3>3. j - Len(new) \in 1 .. Len(list) /\ all[j] = list[j - Len(new)]
      BY <1>6, <3>2
    <3> QED BY <2>1, <3>1, <3>3
  <2>4. CASE /\ j - Len(new) \in 1 .. Len(list) /\ all[j] = list[j - Len(new)]
             /\ k - Len(new) \in 1 .. Len(list) /\ all[k] = list[k - Len(new)]
    <3>1. j - Len(new) # k - Len(new)
      BY <1>1
    <3> QED BY <1>9, <2>4, <3>1 DEF Distinct
  <2> QED BY <1>6, <2>2, <2>3, <2>4
<1> QED BY <1>3, <1>4, <1>5, <1>8, <1>9 DEF all

\* What the ring holds of the events counted so far.
LEMMA RingCounts ==
  ASSUME NEW l \in Nat, NEW c \in Nat, NEW n \in Nat, l = Min({Capacity, c})
  PROVE  Min({Capacity, c + n}) = (IF l + n < Capacity THEN l + n ELSE Capacity)
<1>1. Capacity \in Nat /\ c + n \in Nat
  BY PipelineAssumption
<1>2. Min({Capacity, c}) = IF Capacity < c THEN Capacity ELSE c
  BY <1>1, MinOfTwo
<1>3. Min({Capacity, c + n}) = IF Capacity < c + n THEN Capacity ELSE c + n
  BY <1>1, MinOfTwo
<1> QED BY <1>1, <1>2, <1>3

\* A trimmed list of snapshots is one of their lists.
LEMMA TrimmedType ==
  ASSUME NEW S, NEW list \in Seq(S)
  PROVE  Trimmed(list) \in Seq(S)
<1> DEFINE over == {k \in 1 .. Len(list) : RowsUpTo(list, k) > Capacity}
<1>1. Len(list) \in Nat /\ over \in SUBSET Nat /\ over \subseteq 1 .. Len(list)
  OBVIOUS
<1>2. Trimmed(list) = IF over = {} THEN list ELSE SubSeq(list, 1, Min(over) - 1)
  BY DEF Trimmed
<1> HIDE DEF over
<1>3. CASE over # {}
  <2>1. Min(over) \in over
    BY <1>1, <1>3, MinIsLeast
  <2>2. Min(over) \in 1 .. Len(list)
    BY <1>1, <2>1
  <2>3. \A k \in 1 .. Min(over) - 1 : list[k] \in S
    BY <1>1, <2>2
  <2>4. Min(over) - 1 \in Int /\ 1 \in Int
    BY <2>2
  <2>5. SubSeq(list, 1, Min(over) - 1) \in Seq(S)
    BY <2>3, <2>4, SubSeqProperties
  <2> QED BY <1>2, <1>3, <2>5
<1> QED BY <1>2, <1>3

-----------------------------------------------------------------------------
(* Rows that wait for their processors.                                       *)
RowsIn(batches, i) == {row \in batches \X (1 .. MaxRows) : row[1].id = i /\ row[2] <= row[1].rows}

LEMMA RowsInFinite ==
  ASSUME NEW batches, IsFiniteSet(batches), NEW i
  PROVE  IsFiniteSet(RowsIn(batches, i)) /\ Cardinality(RowsIn(batches, i)) \in Nat
<1>1. IsFiniteSet(1 .. MaxRows)
  BY FS_Interval, PipelineAssumption
<1>2. IsFiniteSet(batches \X (1 .. MaxRows))
  BY <1>1, FS_Product
<1>3. RowsIn(batches, i) \in SUBSET (batches \X (1 .. MaxRows))
  BY DEF RowsIn
<1>4. IsFiniteSet(RowsIn(batches, i))
  BY <1>2, <1>3, FS_Subset
<1> QED BY <1>4, FS_CardinalityType

LEMMA RowsInAdded ==
  ASSUME NEW batches, IsFiniteSet(batches), NEW b, b \notin batches, b.rows \in 1 .. MaxRows, NEW i
  PROVE  Cardinality(RowsIn(batches \cup {b}, i)) =
           Cardinality(RowsIn(batches, i)) + (IF b.id = i THEN b.rows ELSE 0)
<1> DEFINE old == RowsIn(batches, i)
           new == {<<b, n>> : n \in 1 .. b.rows}
<1>1. MaxRows \in Nat
  BY PipelineAssumption
<1>2. IsFiniteSet(old) /\ Cardinality(old) \in Nat
  BY RowsInFinite
<1>3. CASE b.id = i
  <2>1. RowsIn(batches \cup {b}, i) = old \cup new
    <3>1. ASSUME NEW x \in RowsIn(batches \cup {b}, i) PROVE x \in old \cup new
      BY <1>1, <3>1 DEF RowsIn
    <3>2. ASSUME NEW x \in old \cup new PROVE x \in RowsIn(batches \cup {b}, i)
      BY <1>1, <1>3, <3>2 DEF RowsIn
    <3> QED BY <3>1, <3>2
  <2>2. old \cap new = {}
    BY DEF RowsIn
  <2>3. IsFiniteSet(new) /\ Cardinality(new) = b.rows
    <3>1. b.rows \in Nat /\ IsFiniteSet(1 .. b.rows) /\ Cardinality(1 .. b.rows) = b.rows
      BY <1>1, FS_Interval
    <3> DEFINE f == [n \in 1 .. b.rows |-> <<b, n>>]
    <3>2. f \in Bijection(1 .. b.rows, new)
      BY DEF Bijection, Injection, Surjection, IsInjective
    <3>3. ExistsBijection(1 .. b.rows, new)
      BY <3>2 DEF ExistsBijection
    <3> HIDE DEF new
    <3> QED BY <3>1, <3>3, FS_Bijection
  <2> HIDE DEF old, new
  <2>4. Cardinality(old \cup new) = Cardinality(old) + Cardinality(new) - Cardinality({})
    BY <1>2, <2>2, <2>3, FS_Union
  <2>5. Cardinality({}) = 0
    BY FS_EmptySet
  <2>6. Cardinality(old \cup new) = Cardinality(old) + b.rows
    BY <1>1, <1>2, <2>3, <2>4, <2>5
  <2> QED BY <1>2, <1>3, <2>1, <2>6 DEF old
<1>4. CASE b.id # i
  <2>1. RowsIn(batches \cup {b}, i) = old
    BY <1>4 DEF RowsIn
  <2> HIDE DEF old
  <2>2. Cardinality(RowsIn(batches \cup {b}, i)) = Cardinality(old) + 0
    BY <1>2, <2>1
  <2> QED BY <1>2, <1>4, <2>2 DEF old
<1> QED BY <1>3, <1>4

-----------------------------------------------------------------------------
(* One step of a flush.                                                        *)
LEMMA FlushStep ==
  ASSUME PipelineInv, flush
  PROVE  /\ buffer' = <<>> /\ ~flushing /\ groups = <<>> /\ pushed' = 0 /\ timer' \in BOOLEAN
         /\ groups' \in Seq(Group) /\ OneEach(groups') /\ (flushing' <=> groups' # <<>>)
         /\ flushing' \in BOOLEAN /\ processing' \in BOOLEAN
         /\ \A i \in Ids : GroupedIn(groups', i) \subseteq BufferedOf(i)
         /\ \A i \in shown : GroupedIn(groups', i) = BufferedOf(i)
         /\ UNCHANGED <<instVars, arrayVars, procVars, msgVars, made>>
<1> DEFINE gs == GroupByInstance(buffer)
<1>1. /\ timer /\ buffer' = <<>> /\ Continue(SkipClosed(gs), <<>>)
      /\ UNCHANGED <<instVars, arrayVars, procVars, msgVars, made>>
  BY DEF flush, TakesBuffer
<1>2. buffer \in Seq(Messages) /\ InOrder(buffer) /\ ~flushing /\ groups = <<>>
  <2>1. buffer \in Seq(Messages) /\ InOrder(buffer) /\ (flushing <=> groups # <<>>)
    BY DEF PipelineInv, TypeOK, GroupsInv
  <2>2. ~flushing
    BY <1>1, Zenon DEF PipelineInv, FlushScheduled
  <2> QED BY <2>1, <2>2
<1>3. /\ gs \in Seq(Group) /\ OneEach(gs)
      /\ \A i : GroupedIn(gs, i) = {m.n : m \in {x \in ToSet(buffer) : x.id = i}}
  BY <1>2, GroupsOfBuffer
<1> HIDE DEF gs
<1>4. \A i \in Ids : GroupedIn(gs, i) = BufferedOf(i)
  BY <1>3 DEF BufferedOf
<1>5. /\ SkipClosed(gs) \in Seq(Group) /\ OneEach(SkipClosed(gs))
      /\ \A i : GroupedIn(SkipClosed(gs), i) \subseteq GroupedIn(gs, i)
      /\ \A i \in shown : GroupedIn(SkipClosed(gs), i) = GroupedIn(gs, i)
  BY <1>3, SkipClosedSkips
<1>6. groups' = SkipClosed(gs) /\ flushing' = (groups' # <<>>) /\ pushed' = 0
  BY <1>1 DEF Continue
<1>7. timer' \in BOOLEAN /\ processing' \in BOOLEAN /\ flushing' \in BOOLEAN /\ (flushing' <=> groups' # <<>>)
  BY <1>1, <1>6, Zenon DEF Continue
<1>8. shown \subseteq Ids
  BY DEF PipelineInv, TypeOK
<1>9. /\ groups' \in Seq(Group) /\ OneEach(groups')
      /\ \A i \in Ids : GroupedIn(groups', i) \subseteq BufferedOf(i)
      /\ \A i \in shown : GroupedIn(groups', i) = BufferedOf(i)
  BY <1>4, <1>5, <1>6, <1>8
<1> QED BY <1>1, <1>2, <1>6, <1>7, <1>9

\* i's event e was processed: event is <<e>> or, filtered out, <<>>; drain
\* synthetic events were pushed before it.
Processes(i, e, event, drain) ==
  /\ made' = [made EXCEPT ![i] = @ + drain + Len(event) - 1]
  /\ events' = [events EXCEPT ![i] = IF i \in shown THEN PushAll(@, Zeros(drain) \o event) ELSE @]
  /\ \/ /\ pushed' = 0
        /\ eventCount' = [eventCount EXCEPT ![i] = IF i \in shown THEN @ + pushed + Len(event) + drain ELSE @]
     \/ /\ pushed' = pushed + Len(event) /\ drain = 0 /\ eventCount' = eventCount
        /\ groups' # <<>> /\ Head(groups').id = i

LEMMA EventStep ==
  ASSUME PipelineInv, EventProcessed
  PROVE  /\ flushing
         /\ groups' \in Seq(Group) /\ OneEach(groups') /\ (flushing' <=> groups' # <<>>)
         /\ flushing' \in BOOLEAN /\ processing' \in BOOLEAN /\ timer' \in BOOLEAN
         /\ states' \in SUBSET Ids /\ synthetic' \in [Ids -> Nat]
         /\ UNCHANGED <<shown, running, buffer, arrayVars, starting, stopping, msgVars>>
         /\ \E i \in Ids, e \in Numbers :
              /\ Head(groups).id = i /\ e \in GroupedIn(groups, i)
              /\ GroupedIn(groups', i) = GroupedIn(groups, i) \ {e}
              /\ \A j \in Ids : GroupedIn(groups', j) \subseteq GroupedIn(groups, j)
              /\ \A j \in shown \ {i} : GroupedIn(groups', j) = GroupedIn(groups, j)
              /\ \E event \in {<<>>, <<e>>}, drain \in Nat : Processes(i, e, event, drain)
<1>1. /\ groups \in Seq(Group) /\ OneEach(groups) /\ (flushing <=> groups # <<>>)
      /\ shown \subseteq Ids /\ synthetic \in [Ids -> Nat] /\ states \in SUBSET Ids
      /\ timer \in BOOLEAN /\ flushing \in BOOLEAN
  BY DEF PipelineInv, TypeOK, GroupsInv, Group
<1>2. /\ flushing
      /\ UNCHANGED <<shown, running, buffer, arrayVars, starting, stopping, msgVars>>
  BY DEF EventProcessed
<1>3. PICK keep \in (IF processing THEN Keeps ELSE {FALSE}),
           n \in (IF processing THEN Emits ELSE {0}),
           passes \in (IF processing /\ CanFilter THEN BOOLEAN ELSE {TRUE}) :
        LET g == Head(groups)
            i == g.id
            event == IF passes THEN <<NextOf(g.msgs)>> ELSE <<>>
            last  == Len(g.msgs) = 1
            drain == IF last THEN DrainedFor(i, n) ELSE 0
        IN  /\ states' = Kept(i, keep)
            /\ made' = [made EXCEPT ![i] = @ + drain + Len(event) - 1]
            /\ synthetic' = IF last THEN SyntheticLeft(i, n)
                            ELSE [synthetic EXCEPT ![i] = @ + n]
            /\ events' = [events EXCEPT ![i] = IF i \in shown
                             THEN PushAll(@, Zeros(drain) \o event) ELSE @]
            /\ IF last
               THEN /\ eventCount' = [eventCount EXCEPT ![i] = IF i \in shown
                             THEN @ + pushed + Len(event) + drain ELSE @]
                    /\ Continue(SkipClosed(Tail(groups)), buffer)
               ELSE /\ groups' = [groups EXCEPT ![1].msgs = Front(@)]
                    /\ pushed' = pushed + Len(event)
                    /\ processing' = (HasProcessors /\ i \in shown)
                    /\ UNCHANGED <<eventCount, flushing, timer>>
  BY DEF EventProcessed
<1> DEFINE g == Head(groups)
<1>4. PICK i : i = g.id
  OBVIOUS
<1>5. PICK e : e = NextOf(g.msgs)
  OBVIOUS
<1>6. PICK last : last = (Len(g.msgs) = 1)
  OBVIOUS
<1>7. PICK event : event = IF passes THEN <<e>> ELSE <<>>
  OBVIOUS
<1>8. PICK drain : drain = IF last THEN DrainedFor(i, n) ELSE 0
  OBVIOUS
<1>9. /\ states' = Kept(i, keep)
      /\ made' = [made EXCEPT ![i] = @ + drain + Len(event) - 1]
      /\ synthetic' = IF last THEN SyntheticLeft(i, n) ELSE [synthetic EXCEPT ![i] = @ + n]
      /\ events' = [events EXCEPT ![i] = IF i \in shown THEN PushAll(@, Zeros(drain) \o event) ELSE @]
      /\ last => /\ eventCount' = [eventCount EXCEPT ![i] = IF i \in shown
                                      THEN @ + pushed + Len(event) + drain ELSE @]
                 /\ Continue(SkipClosed(Tail(groups)), buffer)
      /\ ~last => /\ groups' = [groups EXCEPT ![1].msgs = Front(@)]
                  /\ pushed' = pushed + Len(event)
                  /\ processing' = (HasProcessors /\ i \in shown)
                  /\ UNCHANGED <<eventCount, flushing, timer>>
  BY <1>3, <1>4, <1>5, <1>6, <1>7, <1>8, Zenon
<1>10. last \in BOOLEAN /\ groups # <<>>
  BY <1>1, <1>2, <1>6
<1>11. /\ last => groups' = SkipClosed(Tail(groups)) /\ pushed' = 0 /\ (flushing' = (groups' # <<>>))
                  /\ processing' \in BOOLEAN /\ timer' \in BOOLEAN
       /\ ~last => flushing' = flushing /\ timer' = timer /\ processing' \in BOOLEAN
  BY <1>9, Zenon DEF Continue
<1>12. PICK left : left = groups'
  OBVIOUS
<1>13. /\ i \in Ids /\ e \in Numbers /\ e \in GroupedIn(groups, i)
       /\ left \in Seq(Group) /\ OneEach(left)
       /\ GroupedIn(left, i) = GroupedIn(groups, i) \ {e}
       /\ \A j : GroupedIn(left, j) \subseteq GroupedIn(groups, j)
       /\ \A j \in shown \ {i} : GroupedIn(left, j) = GroupedIn(groups, j)
       /\ ~last => left # <<>> /\ Head(left).id = i
  <2>1. Len(g.msgs) = 1 => left = SkipClosed(Tail(groups))
    BY <1>6, <1>11, <1>12
  <2>2. Len(g.msgs) # 1 => left = [groups EXCEPT ![1].msgs = Front(@)]
    BY <1>6, <1>9, <1>12
  <2> QED BY <1>1, <1>4, <1>5, <1>6, <1>10, <2>1, <2>2, EventLeaves
<1>14. flushing' \in BOOLEAN /\ processing' \in BOOLEAN /\ timer' \in BOOLEAN /\ (flushing' <=> left # <<>>)
  <2>1. CASE last
    BY <1>11, <1>12, <2>1, Zenon
  <2>2. CASE ~last
    BY <1>1, <1>2, <1>11, <1>13, <2>2, Zenon
  <2> QED BY <1>10, <2>1, <2>2
<1>15. n \in Nat /\ drain \in Nat /\ (~last => drain = 0)
  <2>1. n \in Nat
    BY PipelineAssumption DEF Emits
  <2>2. DrainedFor(i, n) \in Nat
    BY <1>1, <1>13, <2>1 DEF DrainedFor
  <2> QED BY <1>8, <1>10, <2>1, <2>2
<1>16. states' \in SUBSET Ids /\ synthetic' \in [Ids -> Nat]
  <2>1. states' \in SUBSET Ids
    BY <1>1, <1>9, <1>13 DEF Kept
  <2>2. SyntheticLeft(i, n) \in [Ids -> Nat] /\ [synthetic EXCEPT ![i] = @ + n] \in [Ids -> Nat]
    <3>1. synthetic[i] \in Nat /\ synthetic[i] + n \in Nat
      BY <1>1, <1>13, <1>15
    <3> QED BY <1>1, <1>13, <3>1 DEF SyntheticLeft
  <2> QED BY <1>9, <1>10, <2>1, <2>2
<1>17. event \in {<<>>, <<e>>}
  BY <1>7
<1>18. Processes(i, e, event, drain)
  <2>1. CASE last
    BY <1>9, <1>11, <2>1 DEF Processes
  <2>2. CASE ~last
    <3>1. pushed' = pushed + Len(event) /\ drain = 0 /\ eventCount' = eventCount
      BY <1>9, <1>15, <2>2
    <3>2. groups' # <<>> /\ Head(groups').id = i
      BY <1>12, <1>13, <2>2
    <3> QED BY <1>9, <3>1, <3>2 DEF Processes
  <2> QED BY <1>10, <2>1, <2>2
<1> HIDE DEF g
<1>19. /\ Head(groups).id = i /\ e \in GroupedIn(groups, i)
       /\ GroupedIn(groups', i) = GroupedIn(groups, i) \ {e}
       /\ \A j \in Ids : GroupedIn(groups', j) \subseteq GroupedIn(groups, j)
       /\ \A j \in shown \ {i} : GroupedIn(groups', j) = GroupedIn(groups, j)
  BY <1>4, <1>12, <1>13 DEF g
<1>20. groups' \in Seq(Group) /\ OneEach(groups') /\ (flushing' <=> groups' # <<>>)
  BY <1>12, <1>13, <1>14
<1>21. \E passed \in {<<>>, <<e>>}, added \in Nat : Processes(i, e, passed, added)
  BY <1>15, <1>17, <1>18
<1> QED BY <1>2, <1>13, <1>14, <1>16, <1>19, <1>20, <1>21

-----------------------------------------------------------------------------
(* What steps keep that do not touch the buffer or the groups.                 *)
LEMMA Sets ==
  ASSUME PipelineInv
  PROVE  /\ \A i \in Ids : GroupedOf(i) = GroupedIn(groups, i) /\ PendingRowsOf(i) = RowsIn(pending, i)
         /\ \A i \in Ids : /\ received[i] \in Nat /\ made[i] \in Int /\ eventCount[i] \in Nat
                           /\ BufferedOf(i) \cup GroupedIn(groups, i) \cup StoredOf(i) \subseteq 1 .. received[i]
                           /\ IsFiniteSet(BufferedOf(i)) /\ Cardinality(BufferedOf(i)) \in Nat
                           /\ IsFiniteSet(GroupedIn(groups, i)) /\ Cardinality(GroupedIn(groups, i)) \in Nat
<1>1. \A i \in Ids : GroupedOf(i) = GroupedIn(groups, i) /\ PendingRowsOf(i) = RowsIn(pending, i)
  BY DEF GroupedOf, GroupedIn, PendingRowsOf, RowsIn
<1>2. ASSUME NEW i \in Ids
      PROVE  /\ received[i] \in Nat /\ made[i] \in Int /\ eventCount[i] \in Nat
             /\ BufferedOf(i) \cup GroupedIn(groups, i) \cup StoredOf(i) \subseteq 1 .. received[i]
  BY <1>1 DEF PipelineInv, TypeOK, NumbersInv
<1>3. ASSUME NEW i \in Ids
      PROVE  /\ IsFiniteSet(BufferedOf(i)) /\ Cardinality(BufferedOf(i)) \in Nat
             /\ IsFiniteSet(GroupedIn(groups, i)) /\ Cardinality(GroupedIn(groups, i)) \in Nat
  <2>1. IsFiniteSet(1 .. received[i])
    BY <1>2, FS_Interval
  <2>2. BufferedOf(i) \in SUBSET (1 .. received[i]) /\ GroupedIn(groups, i) \in SUBSET (1 .. received[i])
    BY <1>2
  <2>3. IsFiniteSet(BufferedOf(i)) /\ IsFiniteSet(GroupedIn(groups, i))
    BY <2>1, <2>2, FS_Subset
  <2> QED BY <2>3, FS_CardinalityType
<1> QED BY <1>1, <1>2, <1>3

\* What waits for its processors can be counted.
LEMMA Counts ==
  ASSUME PipelineInv
  PROVE  \A i \in Ids : /\ Cardinality(BufferedOf(i)) \in Nat /\ Cardinality(GroupedOf(i)) \in Nat
                        /\ Cardinality(PendingRowsOf(i)) \in Nat /\ Waiting(i) \in Nat
<1> SUFFICES ASSUME NEW i \in Ids
             PROVE  /\ Cardinality(BufferedOf(i)) \in Nat /\ Cardinality(GroupedOf(i)) \in Nat
                    /\ Cardinality(PendingRowsOf(i)) \in Nat /\ Waiting(i) \in Nat
  OBVIOUS
<1>1. Cardinality(BufferedOf(i)) \in Nat /\ Cardinality(GroupedOf(i)) \in Nat
  BY Sets
<1>2. Cardinality(PendingRowsOf(i)) \in Nat
  <2>1. IsFiniteSet(pending)
    BY DEF PipelineInv, PendingInv
  <2>2. IsFiniteSet(RowsIn(pending, i)) /\ Cardinality(RowsIn(pending, i)) \in Nat
    BY <2>1, RowsInFinite
  <2> QED BY <2>2, Sets
<1>3. Waiting(i) \in Nat
  BY <1>1, <1>2 DEF Waiting
<1> QED BY <1>1, <1>2, <1>3

LEMMA OrderKept ==
  ASSUME PipelineInv, UNCHANGED <<buffer, groups, flushing>>,
         \A i \in Ids : received'[i] \in Nat /\ received[i] <= received'[i],
         \A i \in Ids : (ToSet(events'[i]) \ {0}) \subseteq StoredOf(i) /\ Distinct(events'[i])
  PROVE  GroupsInv' /\ InOrder(buffer)' /\ NumbersInv' /\ FlushOrder'
<1>1. GroupsInv'
  BY DEF PipelineInv, GroupsInv, OneEach, Increasing
<1>2. InOrder(buffer)'
  BY DEF PipelineInv, InOrder
<1>3. ASSUME NEW i \in Ids
      PROVE  /\ BufferedOf(i)' = BufferedOf(i) /\ GroupedOf(i)' = GroupedOf(i)
             /\ StoredOf(i)' \subseteq StoredOf(i)
  <2>1. BufferedOf(i)' = BufferedOf(i) /\ GroupedOf(i)' = GroupedOf(i)
    BY DEF BufferedOf, GroupedOf
  <2>2. StoredOf(i)' = ToSet(events'[i]) \ {0}
    BY DEF StoredOf
  <2> QED BY <2>1, <2>2
<1>4. ASSUME NEW i \in Ids PROVE (BufferedOf(i) \cup GroupedOf(i) \cup StoredOf(i) \subseteq 1 .. received[i])'
  <2>1. BufferedOf(i) \cup GroupedOf(i) \cup StoredOf(i) \subseteq 1 .. received[i]
    BY DEF PipelineInv, NumbersInv
  <2>2. 1 .. received[i] \subseteq 1 .. received'[i]
    BY DEF PipelineInv, TypeOK
  <2> QED BY <1>3, <2>1, <2>2
<1>5. ASSUME NEW i \in Ids
      PROVE  /\ \A later \in BufferedOf(i)', earlier \in GroupedOf(i)' \cup StoredOf(i)' : earlier < later
             /\ GroupedOf(i)' \cap StoredOf(i)' = {}
             /\ \A j, k \in 1 .. Len(events'[i]) : j # k /\ events'[i][j] = events'[i][k] => events'[i][j] = 0
  <2>1. /\ \A later \in BufferedOf(i), earlier \in GroupedOf(i) \cup StoredOf(i) : earlier < later
        /\ GroupedOf(i) \cap StoredOf(i) = {}
    BY DEF PipelineInv, FlushOrder
  <2> QED BY <1>3, <2>1 DEF Distinct
<1>6. NumbersInv'
  BY <1>4 DEF NumbersInv
<1>7. FlushOrder'
  BY <1>5 DEF FlushOrder
<1> QED BY <1>1, <1>2, <1>6, <1>7

LEMMA RingKept ==
  ASSUME PipelineInv
  PROVE  \A i \in Ids : (ToSet(events[i]) \ {0}) \subseteq StoredOf(i) /\ Distinct(events[i])
BY DEF PipelineInv, FlushOrder, StoredOf, Distinct

LEMMA CountKept ==
  ASSUME PipelineInv, shown' \subseteq shown,
         UNCHANGED <<buffer, groups, flushing, pushed, pending, received, made>>,
         \A i \in shown' : eventCount'[i] = eventCount[i] /\ events'[i] = events[i]
  PROVE  EverythingCounted'
<1>1. \A i : BufferedOf(i)' = BufferedOf(i) /\ GroupedOf(i)' = GroupedOf(i) /\ PendingRowsOf(i)' = PendingRowsOf(i)
  BY DEF BufferedOf, GroupedOf, PendingRowsOf
<1>2. \A i : Waiting(i)' = Waiting(i)
  BY <1>1 DEF Waiting
<1>3. \A i : Uncounted(i)' = Uncounted(i)
  BY DEF Uncounted
<1>4. \A i \in shown : /\ received[i] + made[i] = eventCount[i] + Uncounted(i) + Waiting(i)
                       /\ Len(events[i]) = Min({Capacity, eventCount[i] + Uncounted(i)})
  BY DEF PipelineInv, EverythingCounted
<1>5. \A i \in shown' : /\ received'[i] + made'[i] = eventCount'[i] + Uncounted(i)' + Waiting(i)'
                        /\ Len(events'[i]) = Min({Capacity, eventCount'[i] + Uncounted(i)'})
  BY <1>2, <1>3, <1>4
<1> QED BY <1>5 DEF EverythingCounted

-----------------------------------------------------------------------------
(* The steps.                                                                  *)
OrderAndCount ==
  /\ TypeOK
  /\ GroupsInv /\ InOrder(buffer) /\ NumbersInv /\ AnnouncedInv /\ PendingInv
  /\ FlushOrder /\ EverythingCounted

LEMMA StutterKeeps ==
  ASSUME PipelineInv, UNCHANGED vars
  PROVE  OrderAndCount'
<1> USE DEF vars, instVars, flushVars, arrayVars, procVars, msgVars
<1>1. TypeOK'
  BY DEF PipelineInv, TypeOK
<1>2. AnnouncedInv' /\ PendingInv'
  BY DEF PipelineInv, AnnouncedInv, PendingInv
<1>3. GroupsInv' /\ InOrder(buffer)' /\ NumbersInv' /\ FlushOrder'
  <2>1. \A i \in Ids : received'[i] \in Nat /\ received[i] <= received'[i]
    BY DEF PipelineInv, TypeOK
  <2>2. \A i \in Ids : (ToSet(events'[i]) \ {0}) \subseteq StoredOf(i) /\ Distinct(events'[i])
    BY RingKept
  <2> QED BY <2>1, <2>2, OrderKept
<1>4. EverythingCounted'
  BY CountKept
<1> QED BY <1>1, <1>2, <1>3, <1>4 DEF OrderAndCount

LEMMA ProcessorsKeep ==
  ASSUME PipelineInv, NEW i \in Ids, Started(i) \/ Stopped(i) \/ handleGadgetQuit(i)
  PROVE  OrderAndCount'
<1> USE DEF instVars, flushVars, arrayVars, procVars, msgVars
<1>1. /\ UNCHANGED <<shown, events, eventCount, buffer, timer, flushVars, arrayVars, announced, received, made>>
      /\ running' \subseteq running /\ states' \in SUBSET Ids /\ synthetic' \in [Ids -> Nat]
      /\ starting' \in SUBSET Ids /\ stopping' \in SUBSET Ids /\ quit' \in SUBSET Ids
  <2>1. /\ states \in SUBSET Ids /\ synthetic \in [Ids -> Nat]
        /\ starting \in SUBSET Ids /\ stopping \in SUBSET Ids /\ quit \in SUBSET Ids
    BY DEF PipelineInv, TypeOK
  <2>2. CASE Started(i)
    <3>1. PICK n \in Emits : synthetic' = [synthetic EXCEPT ![i] = @ + n]
      BY <2>2 DEF Started
    <3>2. synthetic[i] + n \in Nat
      BY <2>1, <3>1, PipelineAssumption DEF Emits
    <3>3. synthetic' \in [Ids -> Nat]
      BY <2>1, <3>1, <3>2
    <3>4. states' \in SUBSET Ids
      BY <2>1, <2>2 DEF Started, Kept
    <3> QED BY <2>1, <2>2, <3>3, <3>4 DEF Started
  <2>3. CASE Stopped(i)
    BY <2>1, <2>3 DEF Stopped, cleanupInstanceState
  <2>4. CASE handleGadgetQuit(i)
    BY <2>1, <2>4 DEF handleGadgetQuit, cleanupInstanceState
  <2> QED BY <2>2, <2>3, <2>4
<1>2. TypeOK'
  BY <1>1 DEF PipelineInv, TypeOK
<1>3. AnnouncedInv' /\ PendingInv'
  BY <1>1 DEF PipelineInv, AnnouncedInv, PendingInv
<1>4. GroupsInv' /\ InOrder(buffer)' /\ NumbersInv' /\ FlushOrder'
  <2>1. \A j \in Ids : received'[j] \in Nat /\ received[j] <= received'[j]
    BY <1>1 DEF PipelineInv, TypeOK
  <2>2. \A j \in Ids : (ToSet(events'[j]) \ {0}) \subseteq StoredOf(j) /\ Distinct(events'[j])
    BY <1>1, RingKept
  <2> QED BY <1>1, <2>1, <2>2, OrderKept
<1>5. EverythingCounted'
  BY <1>1, CountKept
<1> QED BY <1>2, <1>3, <1>4, <1>5 DEF OrderAndCount

LEMMA CloseKeeps ==
  ASSUME PipelineInv, NEW i \in Ids, closeInstance(i)
  PROVE  OrderAndCount'
<1> USE DEF instVars, flushVars, arrayVars, procVars, msgVars
<1>1. /\ UNCHANGED <<buffer, timer, flushVars, arrayVars, procVars, msgVars, made>>
      /\ shown' = shown \ {i} /\ running' = running \ {i}
      /\ events' = [events EXCEPT ![i] = <<>>] /\ eventCount' = [eventCount EXCEPT ![i] = 0]
  BY DEF closeInstance
<1>2. /\ events \in [Ids -> Seq(Numbers)] /\ eventCount \in [Ids -> Nat] /\ Capacity \in Nat
      /\ received \in [Ids -> Nat] /\ \A j \in Ids : Len(events[j]) <= Capacity
  BY PipelineAssumption DEF PipelineInv, TypeOK
<1>3. /\ events' \in [Ids -> Seq(Numbers)] /\ events'[i] = <<>> /\ eventCount' \in [Ids -> Nat]
      /\ \A j \in Ids \ {i} : events'[j] = events[j] /\ eventCount'[j] = eventCount[j]
      /\ eventCount'[i] = 0
  BY <1>1, <1>2
<1>4. ASSUME NEW j \in Ids PROVE Len(events'[j]) <= Capacity
  <2>1. CASE j = i
    BY <1>2, <1>3, <2>1
  <2>2. CASE j # i
    BY <1>2, <1>3, <2>2
  <2> QED BY <2>1, <2>2
<1>5. TypeOK'
  BY <1>1, <1>3, <1>4 DEF PipelineInv, TypeOK
<1>6. AnnouncedInv' /\ PendingInv'
  BY <1>1, <1>3 DEF PipelineInv, AnnouncedInv, PendingInv
<1>7. ASSUME NEW j \in Ids PROVE (ToSet(events'[j]) \ {0}) \subseteq StoredOf(j) /\ Distinct(events'[j])
  <2>1. CASE j = i
    <3>1. ToSet(<<>>) = {} /\ Distinct(<<>>)
      BY DEF ToSet, Distinct
    <3> QED BY <1>3, <2>1, <3>1
  <2>2. CASE j # i
    BY <1>3, <2>2, RingKept
  <2> QED BY <2>1, <2>2
<1>8. GroupsInv' /\ InOrder(buffer)' /\ NumbersInv' /\ FlushOrder'
  BY <1>1, <1>2, <1>7, OrderKept
<1>9. EverythingCounted'
  <2>1. \A j \in shown' : eventCount'[j] = eventCount[j] /\ events'[j] = events[j]
    BY <1>1, <1>3 DEF PipelineInv, TypeOK
  <2> QED BY <1>1, <2>1, CountKept
<1> QED BY <1>5, <1>6, <1>8, <1>9 DEF OrderAndCount

\* An instance that is announced has nothing yet.
LEMMA InfoKeeps ==
  ASSUME PipelineInv, NEW i \in Ids, handleGadgetInfo(i)
  PROVE  OrderAndCount'
<1> USE DEF instVars, flushVars, arrayVars, procVars, msgVars
<1>1. /\ UNCHANGED <<events, eventCount, buffer, timer, flushVars, arrayVars, synthetic, stopping, received, quit, made>>
      /\ i \notin announced /\ announced' = announced \cup {i}
      /\ shown' = shown \cup {i} /\ running' = running \cup {i}
      /\ starting' \in {starting, starting \cup {i}} /\ states' \in {states, states \cup {i}}
  BY DEF handleGadgetInfo, Kept
<1>2. TypeOK'
  BY <1>1 DEF PipelineInv, TypeOK
<1>3. AnnouncedInv' /\ PendingInv'
  BY <1>1 DEF PipelineInv, AnnouncedInv, PendingInv
<1>4. GroupsInv' /\ InOrder(buffer)' /\ NumbersInv' /\ FlushOrder'
  BY <1>1, OrderKept, RingKept DEF PipelineInv, TypeOK
<1>5. received[i] = 0 /\ made[i] = 0 /\ eventCount[i] = 0 /\ events[i] = <<>>
  BY <1>1 DEF PipelineInv, AnnouncedInv
<1>6. BufferedOf(i) = {} /\ GroupedIn(groups, i) = {} /\ GroupedOf(i) = {}
  <2>1. /\ BufferedOf(i) \cup GroupedIn(groups, i) \subseteq 1 .. received[i]
        /\ GroupedOf(i) = GroupedIn(groups, i)
    BY Sets
  <2>2. 1 .. received[i] = {}
    BY <1>5
  <2> QED BY <2>1, <2>2
<1>7. PendingRowsOf(i) = {}
  <2>1. \A b \in pending : b.id # i
    BY <1>1 DEF PipelineInv, AnnouncedInv
  <2> QED BY <2>1 DEF PendingRowsOf
<1>8. Uncounted(i) = 0
  <2>1. ASSUME flushing, Head(groups).id = i PROVE FALSE
    <3>1. groups \in Seq(Group) /\ groups # <<>> /\ OneEach(groups)
      BY <2>1 DEF PipelineInv, TypeOK, GroupsInv, Group
    <3>2. 1 \in DOMAIN groups /\ groups[1].id = i /\ groups[1].msgs # <<>> /\ groups[1].msgs \in Seq(Numbers)
      <4>1. 1 \in DOMAIN groups /\ Head(groups) = groups[1] /\ groups[1] \in Group
        BY <3>1
      <4> QED BY <2>1, <3>1, <4>1 DEF OneEach, Group
    <3>3. 1 \in DOMAIN groups[1].msgs
      BY <3>2
    <3>4. groups[1].msgs[1] \in GroupedIn(groups, i)
      BY <3>2, <3>3, GroupedMember
    <3> QED BY <1>6, <3>4
  <2> QED BY <2>1 DEF Uncounted
<1>9. EverythingCounted'
  <2>1. \A j : BufferedOf(j)' = BufferedOf(j) /\ GroupedOf(j)' = GroupedOf(j) /\ PendingRowsOf(j)' = PendingRowsOf(j)
    BY <1>1 DEF BufferedOf, GroupedOf, PendingRowsOf
  <2>2. \A j : Waiting(j)' = Waiting(j)
    BY <2>1 DEF Waiting
  <2>3. \A j : Uncounted(j)' = Uncounted(j)
    BY <1>1 DEF Uncounted
  <2>4. \A j \in shown : /\ received[j] + made[j] = eventCount[j] + Uncounted(j) + Waiting(j)
                         /\ Len(events[j]) = Min({Capacity, eventCount[j] + Uncounted(j)})
    BY DEF PipelineInv, EverythingCounted
  <2>5. /\ received[i] + made[i] = eventCount[i] + Uncounted(i) + Waiting(i)
        /\ Len(events[i]) = Min({Capacity, eventCount[i] + Uncounted(i)})
    <3>1. Waiting(i) = 0
      BY <1>6, <1>7, FS_EmptySet DEF Waiting
    <3>2. Min({Capacity, 0}) = 0
      BY MinOfTwo, PipelineAssumption
    <3> QED BY <1>5, <1>8, <3>1, <3>2
  <2>6. \A j \in shown' : /\ received'[j] + made'[j] = eventCount'[j] + Uncounted(j)' + Waiting(j)'
                          /\ Len(events'[j]) = Min({Capacity, eventCount'[j] + Uncounted(j)'})
    BY <1>1, <2>2, <2>3, <2>4, <2>5
  <2> QED BY <2>6 DEF EverythingCounted
<1> QED BY <1>2, <1>3, <1>4, <1>9 DEF OrderAndCount

\* An event gets the number after those received, and waits at the end of the
\* buffer.
LEMMA EventKeeps ==
  ASSUME PipelineInv, NEW i \in Ids, handleGadgetEvent(i)
  PROVE  OrderAndCount'
<1> USE DEF instVars, flushVars, arrayVars, procVars, msgVars
<1> DEFINE m == [id |-> i, n |-> received[i] + 1]
<1>1. /\ UNCHANGED <<instVars, flushVars, arrayVars, procVars, announced, quit, made>>
      /\ i \in announced /\ received[i] + 1 <= MaxEvents
      /\ received' = [received EXCEPT ![i] = @ + 1]
      /\ buffer' = Append(buffer, m) /\ timer' \in BOOLEAN
  BY DEF handleGadgetEvent, MaySend
<1>2. /\ received \in [Ids -> Nat] /\ buffer \in Seq(Messages) /\ MaxEvents \in Nat
      /\ received[i] \in Nat
  BY PipelineAssumption DEF PipelineInv, TypeOK
<1>3. m \in Messages /\ m.id = i /\ m.n = received[i] + 1
  BY <1>1, <1>2 DEF Messages, Numbers
<1> HIDE DEF m
<1>4. /\ received' \in [Ids -> Nat] /\ received'[i] = received[i] + 1
      /\ \A j \in Ids \ {i} : received'[j] = received[j]
  BY <1>1, <1>2
<1>5. /\ buffer' \in Seq(Messages) /\ Len(buffer) \in Nat /\ DOMAIN buffer = 1 .. Len(buffer)
      /\ DOMAIN buffer' = 1 .. Len(buffer) + 1
      /\ \A k \in 1 .. Len(buffer) : buffer'[k] = buffer[k]
      /\ buffer'[Len(buffer) + 1] = m
  BY <1>1, <1>2, <1>3
<1>6. \A j \in Ids : BufferedOf(j) \cup GroupedOf(j) \cup StoredOf(j) \subseteq 1 .. received[j]
  BY DEF PipelineInv, NumbersInv
<1>7. ASSUME NEW j \in Ids PROVE BufferedOf(j)' = BufferedOf(j) \cup (IF j = i THEN {received[i] + 1} ELSE {})
  <2>1. ToSet(buffer') = ToSet(buffer) \cup {m}
    <3>1. ASSUME NEW x \in ToSet(buffer') PROVE x \in ToSet(buffer) \cup {m}
      <4>1. PICK k \in 1 .. Len(buffer) + 1 : buffer'[k] = x
        BY <1>5, <3>1 DEF ToSet
      <4>2. CASE k = Len(buffer) + 1
        BY <1>5, <4>1, <4>2
      <4>3. CASE k # Len(buffer) + 1
        <5>1. k \in 1 .. Len(buffer)
          BY <1>5, <4>1, <4>3
        <5> QED BY <1>5, <4>1, <5>1 DEF ToSet
      <4> QED BY <4>2, <4>3
    <3>2. ASSUME NEW x \in ToSet(buffer) PROVE x \in ToSet(buffer')
      <4>1. PICK k \in 1 .. Len(buffer) : buffer[k] = x
        BY <1>5, <3>2 DEF ToSet
      <4>2. k \in DOMAIN buffer' /\ buffer'[k] = x
        BY <1>5, <4>1
      <4> QED BY <4>2 DEF ToSet
    <3>3. m \in ToSet(buffer')
      <4>1. Len(buffer) + 1 \in DOMAIN buffer'
        BY <1>5
      <4> QED BY <1>5, <4>1 DEF ToSet
    <3> QED BY <3>1, <3>2, <3>3
  <2>2. BufferedOf(j)' = {x.n : x \in {y \in ToSet(buffer') : y.id = j}}
    BY DEF BufferedOf
  <2>3. ASSUME NEW x \in BufferedOf(j)' PROVE x \in BufferedOf(j) \cup (IF j = i THEN {received[i] + 1} ELSE {})
    BY <1>3, <2>1, <2>2, <2>3 DEF BufferedOf
  <2>4. ASSUME NEW x \in BufferedOf(j) \cup (IF j = i THEN {received[i] + 1} ELSE {}) PROVE x \in BufferedOf(j)'
    <3>1. CASE x \in BufferedOf(j)
      BY <2>1, <2>2, <3>1 DEF BufferedOf
    <3>2. CASE j = i /\ x = received[i] + 1
      BY <1>3, <2>1, <2>2, <3>2
    <3> QED BY <2>4, <3>1, <3>2
  <2> QED BY <2>3, <2>4
<1>8. \A j : GroupedOf(j)' = GroupedOf(j) /\ StoredOf(j)' = StoredOf(j) /\ PendingRowsOf(j)' = PendingRowsOf(j)
  BY <1>1 DEF GroupedOf, StoredOf, PendingRowsOf
<1>9. TypeOK'
  BY <1>1, <1>4, <1>5 DEF PipelineInv, TypeOK
<1>10. AnnouncedInv' /\ PendingInv'
  <2>1. AnnouncedInv'
    BY <1>1, <1>4 DEF PipelineInv, AnnouncedInv
  <2>2. PendingInv'
    BY <1>1 DEF PipelineInv, PendingInv
  <2> QED BY <2>1, <2>2
<1>11. GroupsInv'
  BY <1>1 DEF PipelineInv, GroupsInv, OneEach, Increasing
<1>12. InOrder(buffer)'
  <2>1. ASSUME NEW j \in 1 .. Len(buffer), buffer[j].id = i PROVE buffer[j].n < received[i] + 1
    <3>1. buffer[j].n \in BufferedOf(i)
      BY <1>5, <2>1 DEF BufferedOf, ToSet
    <3>2. buffer[j].n \in 1 .. received[i]
      BY <1>6, <3>1
    <3> QED BY <1>2, <3>2
  <2>2. InOrder(buffer)
    BY DEF PipelineInv
  <2>3. ASSUME NEW j \in DOMAIN buffer', NEW k \in DOMAIN buffer', j < k, buffer'[j].id = buffer'[k].id
        PROVE  buffer'[j].n < buffer'[k].n
    <3>1. j \in 1 .. Len(buffer)
      BY <1>5, <2>3
    <3>2. CASE k \in 1 .. Len(buffer)
      BY <1>5, <2>2, <2>3, <3>1, <3>2 DEF InOrder
    <3>3. CASE k = Len(buffer) + 1
      BY <1>3, <1>5, <2>1, <2>3, <3>1, <3>3
    <3> QED BY <1>5, <3>2, <3>3
  <2> QED BY <2>3 DEF InOrder
<1>13. NumbersInv'
  <2>1. ASSUME NEW j \in Ids PROVE (BufferedOf(j) \cup GroupedOf(j) \cup StoredOf(j) \subseteq 1 .. received[j])'
    <3>1. CASE j = i
      <4>1. 1 .. received[i] \subseteq 1 .. received'[i] /\ received[i] + 1 \in 1 .. received'[i]
        BY <1>2, <1>4
      <4>2. BufferedOf(i)' = BufferedOf(i) \cup {received[i] + 1}
        BY <1>7, <3>1
      <4> QED BY <1>6, <1>8, <3>1, <4>1, <4>2
    <3>2. CASE j # i
      <4>1. BufferedOf(j)' = BufferedOf(j)
        BY <1>7, <3>2
      <4> QED BY <1>4, <1>6, <1>8, <3>2, <4>1
    <3> QED BY <3>1, <3>2
  <2> QED BY <2>1 DEF NumbersInv
<1>14. FlushOrder'
  <2>1. ASSUME NEW j \in Ids
        PROVE  /\ \A later \in BufferedOf(j)', earlier \in GroupedOf(j)' \cup StoredOf(j)' : earlier < later
               /\ GroupedOf(j)' \cap StoredOf(j)' = {}
               /\ \A k, n \in 1 .. Len(events'[j]) : k # n /\ events'[j][k] = events'[j][n] => events'[j][k] = 0
    <3>1. /\ \A later \in BufferedOf(j), earlier \in GroupedOf(j) \cup StoredOf(j) : earlier < later
          /\ GroupedOf(j) \cap StoredOf(j) = {}
          /\ \A k, n \in 1 .. Len(events'[j]) : k # n /\ events'[j][k] = events'[j][n] => events'[j][k] = 0
      BY <1>1 DEF PipelineInv, FlushOrder
    <3>2. \A earlier \in GroupedOf(j) \cup StoredOf(j) : earlier < received[j] + 1
      <4>1. \A earlier \in 1 .. received[j] : earlier < received[j] + 1
        BY <1>2
      <4> QED BY <1>6, <4>1
    <3>3. CASE j = i
      <4>1. BufferedOf(j)' = BufferedOf(j) \cup {received[j] + 1}
        BY <1>7, <3>3
      <4> QED BY <1>8, <3>1, <3>2, <4>1
    <3>4. CASE j # i
      <4>1. BufferedOf(j)' = BufferedOf(j)
        BY <1>7, <3>4
      <4> QED BY <1>8, <3>1, <4>1
    <3> QED BY <3>3, <3>4
  <2> QED BY <2>1 DEF FlushOrder
<1>15. EverythingCounted'
  <2>1. ASSUME NEW j \in shown'
        PROVE  /\ received'[j] + made'[j] = eventCount'[j] + Uncounted(j)' + Waiting(j)'
               /\ Len(events'[j]) = Min({Capacity, eventCount'[j] + Uncounted(j)'})
    <3>1. j \in shown /\ j \in Ids
      BY <1>1, <2>1 DEF PipelineInv, TypeOK
    <3>2. /\ received[j] + made[j] = eventCount[j] + Uncounted(j) + Waiting(j)
          /\ Len(events[j]) = Min({Capacity, eventCount[j] + Uncounted(j)})
      BY <3>1 DEF PipelineInv, EverythingCounted
    <3>3. Uncounted(j)' = Uncounted(j) /\ Uncounted(j) \in Nat
      BY <1>1 DEF Uncounted, PipelineInv, TypeOK
    <3>4. Waiting(j)' = Waiting(j) + (IF j = i THEN 1 ELSE 0)
      <4>1. /\ Cardinality(GroupedOf(j)') = Cardinality(GroupedOf(j))
            /\ Cardinality(PendingRowsOf(j)') = Cardinality(PendingRowsOf(j))
        BY <1>8
      <4>2. Cardinality(BufferedOf(j)') = Cardinality(BufferedOf(j)) + (IF j = i THEN 1 ELSE 0)
        <5>1. IsFiniteSet(BufferedOf(j)) /\ Cardinality(BufferedOf(j)) \in Nat
          BY <3>1, Sets
        <5>2. CASE j = i
          <6>1. received[i] + 1 \notin BufferedOf(i)
            <7>1. received[i] + 1 \notin 1 .. received[i]
              BY <1>2
            <7> QED BY <1>6, <7>1
          <6>2. BufferedOf(j)' = BufferedOf(j) \cup {received[i] + 1}
            BY <1>7, <3>1, <5>2
          <6> QED BY <5>1, <5>2, <6>1, <6>2, FS_AddElement
        <5>3. CASE j # i
          <6>1. BufferedOf(j)' = BufferedOf(j)
            BY <1>7, <3>1, <5>3
          <6> QED BY <5>1, <5>3, <6>1
        <5> QED BY <5>2, <5>3
      <4>3. /\ Cardinality(BufferedOf(j)) \in Nat /\ Cardinality(GroupedOf(j)) \in Nat
            /\ Cardinality(PendingRowsOf(j)) \in Nat
        BY <3>1, Counts
      <4>4. /\ Waiting(j) = Cardinality(BufferedOf(j)) + Cardinality(GroupedOf(j)) + Cardinality(PendingRowsOf(j))
            /\ Waiting(j)' = Cardinality(BufferedOf(j)') + Cardinality(GroupedOf(j)') + Cardinality(PendingRowsOf(j)')
        BY DEF Waiting
      <4> QED BY <4>1, <4>2, <4>3, <4>4
    <3>5. received'[j] = received[j] + (IF j = i THEN 1 ELSE 0) /\ received[j] \in Nat
      BY <1>2, <1>4, <3>1
    <3>6. made[j] \in Int /\ eventCount[j] \in Nat /\ Waiting(j) \in Nat
      BY <3>1, Counts, Sets
    <3>7. received'[j] + made[j] = eventCount[j] + Uncounted(j) + Waiting(j)'
      BY <3>2, <3>3, <3>4, <3>5, <3>6
    <3> QED BY <1>1, <3>2, <3>3, <3>7
  <2> QED BY <2>1 DEF EverythingCounted
<1> QED BY <1>9, <1>10, <1>11, <1>12, <1>13, <1>14, <1>15 DEF OrderAndCount

\* A flush moves what is buffered into its groups.
LEMMA FlushKeeps ==
  ASSUME PipelineInv, flush
  PROVE  OrderAndCount'
<1> USE DEF instVars, flushVars, arrayVars, procVars, msgVars
<1>1. /\ buffer' = <<>> /\ ~flushing /\ groups = <<>> /\ pushed' = 0 /\ timer' \in BOOLEAN
      /\ groups' \in Seq(Group) /\ OneEach(groups') /\ (flushing' <=> groups' # <<>>)
      /\ flushing' \in BOOLEAN /\ processing' \in BOOLEAN
      /\ \A i \in Ids : GroupedIn(groups', i) \subseteq BufferedOf(i)
      /\ \A i \in shown : GroupedIn(groups', i) = BufferedOf(i)
      /\ UNCHANGED <<instVars, arrayVars, procVars, msgVars, made>>
  BY FlushStep
<1>2. TypeOK'
  BY <1>1 DEF PipelineInv, TypeOK, Group
<1>3. GroupsInv'
  BY <1>1 DEF GroupsInv, OneEach, Increasing
<1>4. InOrder(buffer)'
  BY <1>1 DEF InOrder
<1>5. AnnouncedInv' /\ PendingInv'
  BY <1>1 DEF PipelineInv, AnnouncedInv, PendingInv
<1>6. ASSUME NEW i \in Ids
      PROVE  /\ BufferedOf(i)' = {} /\ GroupedOf(i)' = GroupedIn(groups', i) /\ GroupedOf(i) = {}
             /\ StoredOf(i)' = StoredOf(i) /\ PendingRowsOf(i)' = PendingRowsOf(i)
  <2>1. BufferedOf(i)' = {}
    BY <1>1 DEF BufferedOf, ToSet
  <2>2. GroupedOf(i)' = GroupedIn(groups', i)
    BY DEF GroupedOf, GroupedIn
  <2>3. GroupedOf(i) = {}
    BY <1>1 DEF GroupedOf, ToSet
  <2>4. StoredOf(i)' = StoredOf(i) /\ PendingRowsOf(i)' = PendingRowsOf(i)
    BY <1>1 DEF StoredOf, PendingRowsOf
  <2> QED BY <2>1, <2>2, <2>3, <2>4
<1>7. NumbersInv'
  <2>1. ASSUME NEW i \in Ids PROVE (BufferedOf(i) \cup GroupedOf(i) \cup StoredOf(i) \subseteq 1 .. received[i])'
    <3>1. BufferedOf(i) \cup StoredOf(i) \subseteq 1 .. received[i]
      BY DEF PipelineInv, NumbersInv
    <3>2. received' = received /\ GroupedIn(groups', i) \subseteq BufferedOf(i)
      BY <1>1
    <3> QED BY <1>6, <3>1, <3>2
  <2> QED BY <2>1 DEF NumbersInv
<1>8. FlushOrder'
  <2>1. ASSUME NEW i \in Ids
        PROVE  /\ \A later \in BufferedOf(i)', earlier \in GroupedOf(i)' \cup StoredOf(i)' : earlier < later
               /\ GroupedOf(i)' \cap StoredOf(i)' = {}
               /\ \A j, k \in 1 .. Len(events'[i]) : j # k /\ events'[i][j] = events'[i][k] => events'[i][j] = 0
    <3>1. /\ \A later \in BufferedOf(i), earlier \in StoredOf(i) : earlier < later
          /\ \A j, k \in 1 .. Len(events'[i]) : j # k /\ events'[i][j] = events'[i][k] => events'[i][j] = 0
      BY <1>1 DEF PipelineInv, FlushOrder
    <3>2. BufferedOf(i) \cap StoredOf(i) = {}
      <4>1. ASSUME NEW x \in BufferedOf(i), x \in StoredOf(i) PROVE FALSE
        <5>1. x < x /\ x \in Int
          BY <3>1, <4>1, Sets
        <5> QED BY <5>1
      <4> QED BY <4>1
    <3>3. GroupedIn(groups', i) \subseteq BufferedOf(i)
      BY <1>1
    <3> QED BY <1>6, <3>1, <3>2, <3>3
  <2> QED BY <2>1 DEF FlushOrder
<1>9. EverythingCounted'
  <2>1. ASSUME NEW i \in shown'
        PROVE  /\ received'[i] + made'[i] = eventCount'[i] + Uncounted(i)' + Waiting(i)'
               /\ Len(events'[i]) = Min({Capacity, eventCount'[i] + Uncounted(i)'})
    <3>1. i \in shown /\ i \in Ids
      BY <1>1, <2>1 DEF PipelineInv, TypeOK
    <3>2. /\ received[i] + made[i] = eventCount[i] + Uncounted(i) + Waiting(i)
          /\ Len(events[i]) = Min({Capacity, eventCount[i] + Uncounted(i)})
      BY <3>1 DEF PipelineInv, EverythingCounted
    <3>3. Uncounted(i) = 0 /\ Uncounted(i)' = 0
      BY <1>1 DEF Uncounted
    <3>4. Waiting(i)' = Waiting(i)
      <4>1. /\ BufferedOf(i)' = GroupedOf(i) /\ GroupedOf(i)' = BufferedOf(i)
            /\ PendingRowsOf(i)' = PendingRowsOf(i)
        BY <1>1, <1>6, <3>1
      <4>2. /\ Waiting(i) = Cardinality(BufferedOf(i)) + Cardinality(GroupedOf(i)) + Cardinality(PendingRowsOf(i))
            /\ Waiting(i)' = Cardinality(GroupedOf(i)) + Cardinality(BufferedOf(i)) + Cardinality(PendingRowsOf(i))
        BY <4>1 DEF Waiting
      <4> QED BY <3>1, <4>2, Counts
    <3> QED BY <1>1, <3>2, <3>3, <3>4
  <2> QED BY <2>1 DEF EverythingCounted
<1> QED BY <1>2, <1>3, <1>4, <1>5, <1>7, <1>8, <1>9 DEF OrderAndCount

\* A batch waits for its processors under a number no other batch has.
LEMMA ArrayKeeps ==
  ASSUME PipelineInv, NEW i \in Ids, NEW rows \in 1 .. MaxRows, handleGadgetArrayData(i, rows)
  PROVE  OrderAndCount'
<1> USE DEF instVars, flushVars, arrayVars, procVars, msgVars
<1> DEFINE b == [id |-> i, batch |-> batchIdCounter, rows |-> rows]
<1>1. /\ UNCHANGED <<instVars, buffer, timer, flushVars, snapshots, procVars, announced, quit, made>>
      /\ i \in announced
      /\ received' = [received EXCEPT ![i] = @ + rows]
      /\ batchIdCounter' = batchIdCounter + 1
      /\ pending' = pending \cup {b}
  BY DEF handleGadgetArrayData, MaySend
<1>2. /\ received \in [Ids -> Nat] /\ received[i] \in Nat /\ batchIdCounter \in Nat /\ rows \in Nat
      /\ pending \in SUBSET [id : Ids, batch : Nat, rows : Nat]
  BY PipelineAssumption DEF PipelineInv, TypeOK
<1>3. /\ b \in [id : Ids, batch : Nat, rows : Nat] /\ b.id = i /\ b.rows = rows /\ b.batch = batchIdCounter
      /\ b \notin pending
  <2>1. b \in [id : Ids, batch : Nat, rows : Nat] /\ b.id = i /\ b.rows = rows /\ b.batch = batchIdCounter
    BY <1>2
  <2>2. \A x \in pending : x.batch < batchIdCounter
    BY DEF PipelineInv, PendingInv
  <2> HIDE DEF b
  <2> QED BY <1>2, <2>1, <2>2
<1> HIDE DEF b
<1>4. /\ received' \in [Ids -> Nat] /\ received'[i] = received[i] + rows
      /\ \A j \in Ids \ {i} : received'[j] = received[j]
  BY <1>1, <1>2
<1>5. TypeOK'
  <2>1. pending' \in SUBSET [id : Ids, batch : Nat, rows : Nat] /\ batchIdCounter' \in Nat
    BY <1>1, <1>2, <1>3
  <2> QED BY <1>1, <1>4, <2>1 DEF PipelineInv, TypeOK
<1>6. AnnouncedInv'
  BY <1>1, <1>3, <1>4 DEF PipelineInv, AnnouncedInv
<1>7. PendingInv'
  <2>1. IsFiniteSet(pending) /\ \A x \in pending : x.batch < batchIdCounter /\ x.rows \in 1 .. MaxRows
    BY DEF PipelineInv, PendingInv
  <2>2. IsFiniteSet(pending')
    BY <1>1, <2>1, FS_AddElement
  <2>3. \A x \in pending : x.batch < batchIdCounter + 1
    <3>1. \A x \in pending : x.batch \in Nat
      BY <1>2
    <3> QED BY <1>2, <2>1, <3>1
  <2>4. batchIdCounter < batchIdCounter + 1
    BY <1>2
  <2>5. \A x \in pending' : x.batch < batchIdCounter' /\ x.rows \in 1 .. MaxRows
    BY <1>1, <1>3, <2>1, <2>3, <2>4
  <2> QED BY <2>2, <2>5 DEF PendingInv
<1>8. GroupsInv' /\ InOrder(buffer)' /\ NumbersInv' /\ FlushOrder'
  <2>1. ASSUME NEW j \in Ids PROVE received'[j] \in Nat /\ received[j] <= received'[j]
    BY <1>2, <1>4
  <2>2. \A j \in Ids : (ToSet(events'[j]) \ {0}) \subseteq StoredOf(j) /\ Distinct(events'[j])
    BY <1>1, RingKept
  <2> QED BY <1>1, <2>1, <2>2, OrderKept
<1>9. EverythingCounted'
  <2>1. ASSUME NEW j \in shown'
        PROVE  /\ received'[j] + made'[j] = eventCount'[j] + Uncounted(j)' + Waiting(j)'
               /\ Len(events'[j]) = Min({Capacity, eventCount'[j] + Uncounted(j)'})
    <3>1. j \in shown /\ j \in Ids
      BY <1>1, <2>1 DEF PipelineInv, TypeOK
    <3>2. /\ received[j] + made[j] = eventCount[j] + Uncounted(j) + Waiting(j)
          /\ Len(events[j]) = Min({Capacity, eventCount[j] + Uncounted(j)})
      BY <3>1 DEF PipelineInv, EverythingCounted
    <3>3. Uncounted(j)' = Uncounted(j) /\ Uncounted(j) \in Nat
      BY <1>1 DEF Uncounted, PipelineInv, TypeOK
    <3>4. Waiting(j)' = Waiting(j) + (IF j = i THEN rows ELSE 0)
      <4>1. BufferedOf(j)' = BufferedOf(j) /\ GroupedOf(j)' = GroupedOf(j) /\ PendingRowsOf(j)' = RowsIn(pending', j)
        BY <1>1 DEF BufferedOf, GroupedOf, PendingRowsOf, RowsIn
      <4>2. Cardinality(RowsIn(pending', j)) = Cardinality(PendingRowsOf(j)) + (IF j = i THEN rows ELSE 0)
        <5>1. IsFiniteSet(pending)
          BY DEF PipelineInv, PendingInv
        <5>2. Cardinality(RowsIn(pending \cup {b}, j)) = Cardinality(RowsIn(pending, j)) + (IF b.id = j THEN b.rows ELSE 0)
          BY <1>3, <5>1, RowsInAdded
        <5>3. PendingRowsOf(j) = RowsIn(pending, j)
          BY <3>1, Sets
        <5> QED BY <1>1, <1>3, <5>2, <5>3
      <4>3. /\ Waiting(j) = Cardinality(BufferedOf(j)) + Cardinality(GroupedOf(j)) + Cardinality(PendingRowsOf(j))
            /\ Waiting(j)' = Cardinality(BufferedOf(j)) + Cardinality(GroupedOf(j)) + Cardinality(RowsIn(pending', j))
        BY <4>1 DEF Waiting
      <4>4. /\ Cardinality(BufferedOf(j)) \in Nat /\ Cardinality(GroupedOf(j)) \in Nat
            /\ Cardinality(PendingRowsOf(j)) \in Nat
        BY <3>1, Counts
      <4> QED BY <1>2, <4>2, <4>3, <4>4
    <3>5. received'[j] = received[j] + (IF j = i THEN rows ELSE 0) /\ received[j] \in Nat
      BY <1>2, <1>4, <3>1
    <3>6. made[j] \in Int /\ eventCount[j] \in Nat /\ Waiting(j) \in Nat
      BY <3>1, Counts, Sets
    <3>7. received'[j] + made[j] = eventCount[j] + Uncounted(j) + Waiting(j)'
      <4>1. CASE j = i
        <5>1. Waiting(j)' = Waiting(j) + rows /\ received'[j] = received[j] + rows
          BY <3>4, <3>5, <4>1
        <5>2. received[j] + made[j] = eventCount[j] + Uncounted(j) + Waiting(j)
          BY <3>2
        <5>3. \A r, m, c, u, w, d \in Int : r + m = c + u + w => r + d + m = c + u + (w + d)
          OBVIOUS
        <5>4. /\ received[j] \in Int /\ made[j] \in Int /\ eventCount[j] \in Int
              /\ Uncounted(j) \in Int /\ Waiting(j) \in Int /\ rows \in Int
          BY <1>2, <3>3, <3>5, <3>6
        <5>5. received[j] + rows + made[j] = eventCount[j] + Uncounted(j) + (Waiting(j) + rows)
          BY <5>2, <5>3, <5>4
        <5> QED BY <5>1, <5>5
      <4>2. CASE j # i
        <5>1. Waiting(j)' = Waiting(j) /\ received'[j] = received[j]
          BY <3>4, <3>5, <3>6, <4>2
        <5> QED BY <3>2, <5>1
      <4> QED BY <4>1, <4>2
    <3> QED BY <1>1, <3>2, <3>3, <3>7
  <2> QED BY <2>1 DEF EverythingCounted
<1> QED BY <1>5, <1>6, <1>7, <1>8, <1>9 DEF OrderAndCount

\* Arrays go into the ring as synthetic events do; a ring keeps its numbers.
LEMMA BatchKeeps ==
  ASSUME PipelineInv, NEW b \in pending, ArrayProcessed(b)
  PROVE  OrderAndCount'
<1> USE DEF instVars, flushVars, arrayVars, procVars, msgVars
<1> DEFINE i == b.id
<1>1. /\ pending' = pending \ {b}
      /\ UNCHANGED <<shown, running, buffer, timer, flushVars, batchIdCounter, starting, stopping, msgVars>>
  BY DEF ArrayProcessed
<1>2. PICK keep \in Keeps, n \in Emits,
           rows \in (IF HasProcessors /\ CanFilter THEN 0 .. b.rows ELSE {b.rows}) :
        /\ states' = Kept(i, keep)
        /\ made' = [made EXCEPT ![i] = @ + DrainedFor(i, n) + rows - b.rows]
        /\ synthetic' = SyntheticLeft(i, n)
        /\ snapshots' = [snapshots EXCEPT ![i] = IF rows = 0 THEN @
                           ELSE AddSnapshot(@, [batch |-> b.batch, rows |-> rows])]
        /\ events' = [events EXCEPT ![i] = IF i \in shown
                           THEN PushAll(@, Zeros(DrainedFor(i, n) + rows)) ELSE @]
        /\ eventCount' = [eventCount EXCEPT ![i] = IF i \in shown
                           THEN @ + rows + DrainedFor(i, n) ELSE @]
  BY DEF ArrayProcessed
<1>3. /\ i \in Ids /\ b.batch \in Nat /\ b.rows \in Nat /\ b.rows \in 1 .. MaxRows /\ i \in announced
      /\ IsFiniteSet(pending)
  BY DEF PipelineInv, TypeOK, PendingInv, AnnouncedInv
<1>4. /\ shown \subseteq Ids /\ synthetic \in [Ids -> Nat] /\ states \in SUBSET Ids /\ made \in [Ids -> Int]
      /\ snapshots \in [Ids -> Seq([batch : Nat, rows : Nat])] /\ events \in [Ids -> Seq(Numbers)]
      /\ eventCount \in [Ids -> Nat] /\ \A j \in Ids : Len(events[j]) <= Capacity
      /\ Capacity \in Nat
  BY PipelineAssumption DEF PipelineInv, TypeOK
<1> HIDE DEF i
<1>5. PICK drain : drain = DrainedFor(i, n)
  OBVIOUS
<1>6. n \in Nat /\ rows \in Nat /\ drain \in Nat
  <2>1. n \in Nat
    BY PipelineAssumption DEF Emits
  <2>2. rows \in Nat
    BY <1>3
  <2>3. synthetic[i] + n \in Nat
    BY <1>3, <1>4, <2>1
  <2> QED BY <1>5, <2>1, <2>2, <2>3 DEF DrainedFor
<1>7. /\ Zeros(drain + rows) \in Seq(Numbers) /\ Len(Zeros(drain + rows)) = drain + rows
      /\ \A j \in 1 .. Len(Zeros(drain + rows)) : Zeros(drain + rows)[j] = 0
      /\ 0 \in Numbers
  BY <1>6, PipelineAssumption DEF Zeros, Numbers
<1> DEFINE ring == PushAll(events[i], Zeros(drain + rows))
<1>8. /\ ring \in Seq(Numbers) /\ Len(ring) <= Capacity
      /\ Len(ring) = (IF Len(events[i]) + (drain + rows) < Capacity THEN Len(events[i]) + (drain + rows) ELSE Capacity)
      /\ ToSet(ring) \ {0} \subseteq ToSet(events[i]) \ {0}
      /\ Distinct(ring)
  <2>1. events[i] \in Seq(Numbers) /\ Distinct(events[i])
    BY <1>3, <1>4, RingKept
  <2>2. \A j \in 1 .. Len(Zeros(drain + rows)) :
          Zeros(drain + rows)[j] = 0 \/ (j = Len(Zeros(drain + rows)) /\ Zeros(drain + rows)[j] = 0)
    BY <1>7
  <2> QED BY <1>7, <2>1, <2>2, PushAllPushes
<1> HIDE DEF ring
<1>9. /\ events' = [events EXCEPT ![i] = IF i \in shown THEN ring ELSE @]
      /\ eventCount' = [eventCount EXCEPT ![i] = IF i \in shown THEN @ + rows + drain ELSE @]
      /\ made' = [made EXCEPT ![i] = @ + drain + rows - b.rows]
  BY <1>2, <1>5 DEF ring
<1>10. /\ events' \in [Ids -> Seq(Numbers)] /\ events'[i] = (IF i \in shown THEN ring ELSE events[i])
       /\ \A j \in Ids \ {i} : events'[j] = events[j]
  <2>1. (IF i \in shown THEN ring ELSE events[i]) \in Seq(Numbers)
    BY <1>3, <1>4, <1>8
  <2> QED BY <1>3, <1>4, <1>9, <2>1
<1>11. /\ eventCount' \in [Ids -> Nat]
       /\ eventCount'[i] = (IF i \in shown THEN eventCount[i] + rows + drain ELSE eventCount[i])
       /\ \A j \in Ids \ {i} : eventCount'[j] = eventCount[j]
  <2>1. eventCount[i] + rows + drain \in Nat
    BY <1>3, <1>4, <1>6
  <2> QED BY <1>3, <1>4, <1>9, <2>1
<1>12. /\ made' \in [Ids -> Int] /\ made'[i] = made[i] + drain + rows - b.rows
       /\ \A j \in Ids \ {i} : made'[j] = made[j]
  <2>1. made[i] + drain + rows - b.rows \in Int
    BY <1>3, <1>4, <1>6
  <2> QED BY <1>3, <1>4, <1>9, <2>1
<1>13. TypeOK'
  <2>1. states' \in SUBSET Ids
    BY <1>2, <1>3, <1>4 DEF Kept
  <2>2. synthetic' \in [Ids -> Nat]
    <3>1. synthetic[i] \in Nat /\ synthetic[i] + n \in Nat
      BY <1>3, <1>4, <1>6
    <3> QED BY <1>2, <1>3, <1>4, <3>1 DEF SyntheticLeft
  <2>3. snapshots' \in [Ids -> Seq([batch : Nat, rows : Nat])]
    <3> DEFINE Snapshot == [batch : Nat, rows : Nat]
               front == [batch |-> b.batch, rows |-> rows]
    <3>1. front \in Snapshot
      BY <1>3, <1>6
    <3> HIDE DEF Snapshot, front
    <3>2. snapshots \in [Ids -> Seq(Snapshot)]
      BY <1>4 DEF Snapshot
    <3>3. <<front>> \o snapshots[i] \in Seq(Snapshot)
      BY <1>3, <3>1, <3>2
    <3>4. AddSnapshot(snapshots[i], front) \in Seq(Snapshot)
      BY <3>3, TrimmedType DEF AddSnapshot
    <3>5. snapshots' = [snapshots EXCEPT ![i] = IF rows = 0 THEN @ ELSE AddSnapshot(@, front)]
      BY <1>2 DEF front
    <3>6. snapshots' \in [Ids -> Seq(Snapshot)]
      BY <1>3, <3>2, <3>4, <3>5
    <3> QED BY <3>6 DEF Snapshot
  <2>4. \A j \in Ids : Len(events'[j]) <= Capacity
    BY <1>4, <1>8, <1>10
  <2>5. pending' \in SUBSET [id : Ids, batch : Nat, rows : Nat]
    BY <1>1 DEF PipelineInv, TypeOK
  <2> QED BY <1>1, <1>10, <1>11, <1>12, <2>1, <2>2, <2>3, <2>4, <2>5 DEF PipelineInv, TypeOK
<1>14. AnnouncedInv' /\ PendingInv'
  <2>1. AnnouncedInv'
    BY <1>1, <1>3, <1>10, <1>11, <1>12 DEF PipelineInv, AnnouncedInv
  <2>2. PendingInv'
    BY <1>1, <1>3, FS_RemoveElement DEF PipelineInv, PendingInv
  <2> QED BY <2>1, <2>2
<1>15. GroupsInv' /\ InOrder(buffer)' /\ NumbersInv' /\ FlushOrder'
  <2>1. \A j \in Ids : received'[j] \in Nat /\ received[j] <= received'[j]
    BY <1>1 DEF PipelineInv, TypeOK
  <2>2. ASSUME NEW j \in Ids PROVE (ToSet(events'[j]) \ {0}) \subseteq StoredOf(j) /\ Distinct(events'[j])
    <3>1. (ToSet(events[j]) \ {0}) \subseteq StoredOf(j) /\ Distinct(events[j])
      BY RingKept
    <3>2. CASE j = i /\ i \in shown
      BY <1>8, <1>10, <3>1, <3>2
    <3>3. CASE ~(j = i /\ i \in shown)
      BY <1>10, <3>1, <3>3
    <3> QED BY <3>2, <3>3
  <2> QED BY <1>1, <2>1, <2>2, OrderKept
<1>16. EverythingCounted'
  <2>1. ASSUME NEW j \in shown'
        PROVE  /\ received'[j] + made'[j] = eventCount'[j] + Uncounted(j)' + Waiting(j)'
               /\ Len(events'[j]) = Min({Capacity, eventCount'[j] + Uncounted(j)'})
    <3>1. j \in shown /\ j \in Ids
      BY <1>1, <2>1 DEF PipelineInv, TypeOK
    <3>2. /\ received[j] + made[j] = eventCount[j] + Uncounted(j) + Waiting(j)
          /\ Len(events[j]) = Min({Capacity, eventCount[j] + Uncounted(j)})
      BY <3>1 DEF PipelineInv, EverythingCounted
    <3>3. Uncounted(j)' = Uncounted(j) /\ Uncounted(j) \in Nat
      BY <1>1 DEF Uncounted, PipelineInv, TypeOK
    <3>4. Waiting(j) = Waiting(j)' + (IF j = i THEN b.rows ELSE 0) /\ Waiting(j)' \in Nat
      <4>1. BufferedOf(j)' = BufferedOf(j) /\ GroupedOf(j)' = GroupedOf(j) /\ PendingRowsOf(j)' = RowsIn(pending', j)
        BY <1>1 DEF BufferedOf, GroupedOf, PendingRowsOf, RowsIn
      <4>2. /\ Cardinality(PendingRowsOf(j)) = Cardinality(RowsIn(pending', j)) + (IF j = i THEN b.rows ELSE 0)
            /\ Cardinality(RowsIn(pending', j)) \in Nat
        <5>1. IsFiniteSet(pending \ {b}) /\ b \notin pending \ {b} /\ (pending \ {b}) \cup {b} = pending
          BY <1>3, FS_RemoveElement
        <5>2. /\ Cardinality(RowsIn((pending \ {b}) \cup {b}, j)) =
                   Cardinality(RowsIn(pending \ {b}, j)) + (IF b.id = j THEN b.rows ELSE 0)
              /\ Cardinality(RowsIn(pending \ {b}, j)) \in Nat
          BY <1>3, <5>1, RowsInAdded, RowsInFinite
        <5>3. PendingRowsOf(j) = RowsIn(pending, j)
          BY <3>1, Sets
        <5> QED BY <1>1, <5>1, <5>2, <5>3 DEF i
      <4>3. /\ Waiting(j) = Cardinality(BufferedOf(j)) + Cardinality(GroupedOf(j)) + Cardinality(PendingRowsOf(j))
            /\ Waiting(j)' = Cardinality(BufferedOf(j)) + Cardinality(GroupedOf(j)) + Cardinality(RowsIn(pending', j))
        BY <4>1 DEF Waiting
      <4>4. /\ Cardinality(BufferedOf(j)) \in Nat /\ Cardinality(GroupedOf(j)) \in Nat
            /\ Cardinality(PendingRowsOf(j)) \in Nat
        BY <3>1, Counts
      <4> QED BY <1>3, <4>2, <4>3, <4>4
    <3>5. received[j] \in Nat /\ made[j] \in Int /\ eventCount[j] \in Nat /\ Waiting(j) \in Nat
      BY <3>1, Counts, Sets
    <3>6. CASE j = i
      <4>1. received[j] + made'[j] = eventCount'[j] + Uncounted(j) + Waiting(j)'
        <5>1. eventCount'[j] = eventCount[j] + rows + drain /\ made'[j] = made[j] + drain + rows - b.rows
          BY <1>11, <1>12, <3>1, <3>6
        <5>2. Waiting(j) = Waiting(j)' + b.rows
          BY <3>4, <3>6
        <5>3. received[j] + made[j] = eventCount[j] + Uncounted(j) + (Waiting(j)' + b.rows)
          BY <3>2, <5>2
        <5>4. \A r, m, c, u, w, d, s, k \in Int :
                r + m = c + u + (w + k) => r + (m + d + s - k) = c + s + d + u + w
          OBVIOUS
        <5> QED BY <1>3, <1>6, <3>3, <3>4, <3>5, <5>1, <5>3, <5>4
      <4>2. Len(events'[j]) = Min({Capacity, eventCount'[j] + Uncounted(j)})
        <5>1. /\ Len(events'[j]) = (IF Len(events[j]) + (drain + rows) < Capacity THEN Len(events[j]) + (drain + rows) ELSE Capacity)
              /\ Len(events[j]) \in Nat /\ drain + rows \in Nat /\ eventCount[j] + Uncounted(j) \in Nat
          BY <1>4, <1>6, <1>8, <1>10, <3>1, <3>3, <3>5, <3>6
        <5>2. Min({Capacity, eventCount[j] + Uncounted(j) + (drain + rows)}) = Len(events'[j])
          BY <3>2, <5>1, RingCounts
        <5>3. eventCount'[j] + Uncounted(j) = eventCount[j] + Uncounted(j) + (drain + rows)
          BY <1>6, <1>11, <3>1, <3>3, <3>5, <3>6
        <5> QED BY <5>2, <5>3
      <4> QED BY <1>1, <3>3, <4>1, <4>2
    <3>7. CASE j # i
      <4>1. Waiting(j)' = Waiting(j)
        BY <3>4, <3>5, <3>7
      <4> QED BY <1>1, <1>10, <1>11, <1>12, <3>1, <3>2, <3>3, <3>7, <4>1
    <3> QED BY <3>6, <3>7
  <2> QED BY <2>1 DEF EverythingCounted
<1> QED BY <1>13, <1>14, <1>15, <1>16 DEF OrderAndCount

\* The event a flush is at leaves its group for the front of the ring.
LEMMA ProcessedKeeps ==
  ASSUME PipelineInv, EventProcessed
  PROVE  OrderAndCount'
<1> USE DEF instVars, flushVars, arrayVars, procVars, msgVars
<1>1. /\ flushing
      /\ groups' \in Seq(Group) /\ OneEach(groups') /\ (flushing' <=> groups' # <<>>)
      /\ flushing' \in BOOLEAN /\ processing' \in BOOLEAN /\ timer' \in BOOLEAN
      /\ states' \in SUBSET Ids /\ synthetic' \in [Ids -> Nat]
      /\ UNCHANGED <<shown, running, buffer, arrayVars, starting, stopping, msgVars>>
  BY EventStep
<1>2. PICK i \in Ids, e \in Numbers :
        /\ Head(groups).id = i /\ e \in GroupedIn(groups, i)
        /\ GroupedIn(groups', i) = GroupedIn(groups, i) \ {e}
        /\ \A j \in Ids : GroupedIn(groups', j) \subseteq GroupedIn(groups, j)
        /\ \A j \in shown \ {i} : GroupedIn(groups', j) = GroupedIn(groups, j)
        /\ \E event \in {<<>>, <<e>>}, drain \in Nat : Processes(i, e, event, drain)
  BY EventStep
<1>3. PICK event \in {<<>>, <<e>>}, drain \in Nat : Processes(i, e, event, drain)
  BY <1>2
<1>4. /\ shown \subseteq Ids /\ made \in [Ids -> Int] /\ events \in [Ids -> Seq(Numbers)]
      /\ eventCount \in [Ids -> Nat] /\ \A j \in Ids : Len(events[j]) <= Capacity
      /\ Capacity \in Nat /\ pushed \in Nat
  BY PipelineAssumption DEF PipelineInv, TypeOK
<1> DEFINE new == Zeros(drain) \o event
           ring == PushAll(events[i], new)
<1>5. /\ new \in Seq(Numbers) /\ Len(new) = drain + Len(event) /\ Len(event) \in Nat
      /\ \A j \in 1 .. Len(new) : new[j] = 0 \/ (j = Len(new) /\ new[j] = e)
  BY ZerosThenEvent
<1>6. e \notin StoredOf(i) /\ \A later \in BufferedOf(i) : e < later
  <2>1. /\ \A later \in BufferedOf(i), earlier \in GroupedOf(i) \cup StoredOf(i) : earlier < later
        /\ GroupedOf(i) \cap StoredOf(i) = {}
    BY DEF PipelineInv, FlushOrder
  <2> QED BY <1>2, <2>1, Sets
<1>7. /\ ring \in Seq(Numbers) /\ Len(ring) <= Capacity
      /\ Len(ring) = (IF Len(events[i]) + (drain + Len(event)) < Capacity
                      THEN Len(events[i]) + (drain + Len(event)) ELSE Capacity)
      /\ ToSet(ring) \ {0} \subseteq (ToSet(events[i]) \ {0}) \cup {e}
      /\ Distinct(ring)
  <2>1. events[i] \in Seq(Numbers) /\ Distinct(events[i])
    BY <1>4, RingKept
  <2>2. e = 0 \/ e \notin ToSet(events[i])
    BY <1>6 DEF StoredOf
  <2> HIDE DEF new
  <2>3. /\ ring \in Seq(Numbers) /\ Len(ring) <= Capacity
        /\ Len(ring) = (IF Len(events[i]) + Len(new) < Capacity THEN Len(events[i]) + Len(new) ELSE Capacity)
        /\ ToSet(ring) \ {0} \subseteq (ToSet(events[i]) \ {0}) \cup {e}
        /\ Distinct(ring)
    BY <1>5, <2>1, <2>2, PushAllPushes
  <2> HIDE DEF ring
  <2> QED BY <1>5, <2>3
<1> HIDE DEF new, ring
<1>8. /\ made' = [made EXCEPT ![i] = @ + drain + Len(event) - 1]
      /\ events' = [events EXCEPT ![i] = IF i \in shown THEN ring ELSE @]
  BY <1>3 DEF Processes, ring, new
<1>9. /\ events' \in [Ids -> Seq(Numbers)] /\ events'[i] = (IF i \in shown THEN ring ELSE events[i])
      /\ \A j \in Ids \ {i} : events'[j] = events[j]
  <2>1. (IF i \in shown THEN ring ELSE events[i]) \in Seq(Numbers)
    BY <1>4, <1>7
  <2> QED BY <1>4, <1>8, <2>1
<1>10. /\ made' \in [Ids -> Int] /\ made'[i] = made[i] + drain + Len(event) - 1
       /\ \A j \in Ids \ {i} : made'[j] = made[j]
  <2>1. made[i] + drain + Len(event) - 1 \in Int
    BY <1>4, <1>5
  <2> QED BY <1>4, <1>8, <2>1
\* the counter, with what is pushed and not yet counted
<1>11. /\ eventCount' \in [Ids -> Nat] /\ pushed' \in Nat
       /\ \A j \in Ids \ {i} : eventCount'[j] = eventCount[j]
       /\ \/ /\ pushed' = 0
             /\ i \in shown => eventCount'[i] = eventCount[i] + pushed + Len(event) + drain
             /\ i \notin shown => eventCount'[i] = eventCount[i]
          \/ /\ pushed' = pushed + Len(event) /\ drain = 0 /\ eventCount'[i] = eventCount[i]
             /\ groups' # <<>> /\ Head(groups').id = i
  <2>1. CASE /\ pushed' = 0
             /\ eventCount' = [eventCount EXCEPT ![i] = IF i \in shown THEN @ + pushed + Len(event) + drain ELSE @]
    <3>1. eventCount[i] + pushed + Len(event) + drain \in Nat /\ eventCount[i] \in Nat
      BY <1>4, <1>5
    <3> QED BY <1>4, <2>1, <3>1
  <2>2. CASE /\ pushed' = pushed + Len(event) /\ drain = 0 /\ eventCount' = eventCount
             /\ groups' # <<>> /\ Head(groups').id = i
    BY <1>4, <1>5, <2>2
  <2> QED BY <1>3, <2>1, <2>2 DEF Processes
<1>12. TypeOK'
  <2>1. \A j \in Ids : Len(events'[j]) <= Capacity
    BY <1>4, <1>7, <1>9
  <2> QED BY <1>1, <1>9, <1>10, <1>11, <2>1 DEF PipelineInv, TypeOK, Group
<1>13. GroupsInv'
  BY <1>1 DEF GroupsInv, OneEach, Increasing
<1>14. InOrder(buffer)' /\ PendingInv'
  BY <1>1 DEF PipelineInv, InOrder, PendingInv
<1>15. i \in announced
  <2>1. GroupedIn(groups, i) \subseteq 1 .. received[i]
    BY Sets
  <2>2. received[i] # 0
    BY <1>2, <2>1
  <2> QED BY <2>2 DEF PipelineInv, AnnouncedInv
<1>16. AnnouncedInv'
  BY <1>1, <1>9, <1>10, <1>11, <1>15 DEF PipelineInv, AnnouncedInv
<1>17. ASSUME NEW j \in Ids
       PROVE  /\ BufferedOf(j)' = BufferedOf(j) /\ GroupedOf(j)' = GroupedIn(groups', j)
              /\ PendingRowsOf(j)' = PendingRowsOf(j)
              /\ StoredOf(j)' \subseteq StoredOf(j) \cup (IF j = i THEN {e} ELSE {})
              /\ Distinct(events'[j])
  <2>1. BufferedOf(j)' = BufferedOf(j) /\ PendingRowsOf(j)' = PendingRowsOf(j)
    BY <1>1 DEF BufferedOf, PendingRowsOf
  <2>2. GroupedOf(j)' = GroupedIn(groups', j)
    BY DEF GroupedOf, GroupedIn
  <2>3. StoredOf(j)' = ToSet(events'[j]) \ {0} /\ StoredOf(j) = ToSet(events[j]) \ {0}
    BY DEF StoredOf
  <2>4. CASE j = i /\ i \in shown
    BY <1>7, <1>9, <2>1, <2>2, <2>3, <2>4
  <2>5. CASE ~(j = i /\ i \in shown)
    <3>1. events'[j] = events[j]
      BY <1>9, <2>5
    <3> QED BY <2>1, <2>2, <2>3, <3>1, RingKept
  <2> QED BY <2>4, <2>5
<1>18. NumbersInv'
  <2>1. ASSUME NEW j \in Ids PROVE (BufferedOf(j) \cup GroupedOf(j) \cup StoredOf(j) \subseteq 1 .. received[j])'
    <3>1. BufferedOf(j) \cup GroupedIn(groups, j) \cup StoredOf(j) \subseteq 1 .. received[j]
      BY Sets
    <3>2. received' = received /\ GroupedIn(groups', j) \subseteq GroupedIn(groups, j)
      BY <1>1, <1>2
    <3>3. j = i => e \in 1 .. received[j]
      BY <1>2, <3>1
    <3> QED BY <1>17, <3>1, <3>2, <3>3
  <2> QED BY <2>1 DEF NumbersInv
<1>19. FlushOrder'
  <2>1. ASSUME NEW j \in Ids
        PROVE  /\ \A later \in BufferedOf(j)', earlier \in GroupedOf(j)' \cup StoredOf(j)' : earlier < later
               /\ GroupedOf(j)' \cap StoredOf(j)' = {}
               /\ \A k, n \in 1 .. Len(events'[j]) : k # n /\ events'[j][k] = events'[j][n] => events'[j][k] = 0
    <3>1. /\ \A later \in BufferedOf(j), earlier \in GroupedIn(groups, j) \cup StoredOf(j) : earlier < later
          /\ GroupedIn(groups, j) \cap StoredOf(j) = {}
      BY Sets DEF PipelineInv, FlushOrder
    <3>2. GroupedIn(groups', j) \subseteq GroupedIn(groups, j)
      BY <1>2
    <3>3. j = i => e \in GroupedIn(groups, j) /\ e \notin GroupedIn(groups', j)
      BY <1>2
    <3>4. /\ \A later \in BufferedOf(j)', earlier \in GroupedOf(j)' \cup StoredOf(j)' : earlier < later
          /\ GroupedOf(j)' \cap StoredOf(j)' = {}
      BY <1>17, <3>1, <3>2, <3>3
    <3> QED BY <1>17, <3>4 DEF Distinct
  <2> QED BY <2>1 DEF FlushOrder
<1>20. EverythingCounted'
  <2>1. ASSUME NEW j \in shown'
        PROVE  /\ received'[j] + made'[j] = eventCount'[j] + Uncounted(j)' + Waiting(j)'
               /\ Len(events'[j]) = Min({Capacity, eventCount'[j] + Uncounted(j)'})
    <3>1. j \in shown /\ j \in Ids
      BY <1>1, <1>4, <2>1
    <3>2. /\ received[j] + made[j] = eventCount[j] + Uncounted(j) + Waiting(j)
          /\ Len(events[j]) = Min({Capacity, eventCount[j] + Uncounted(j)})
      BY <3>1 DEF PipelineInv, EverythingCounted
    <3>3. Waiting(j) = Waiting(j)' + (IF j = i THEN 1 ELSE 0) /\ Waiting(j)' \in Nat
      <4>1. /\ Waiting(j) = Cardinality(BufferedOf(j)) + Cardinality(GroupedIn(groups, j)) + Cardinality(PendingRowsOf(j))
            /\ Waiting(j)' = Cardinality(BufferedOf(j)) + Cardinality(GroupedIn(groups', j)) + Cardinality(PendingRowsOf(j))
        BY <1>17, <3>1, Sets DEF Waiting
      <4>2. /\ Cardinality(GroupedIn(groups, j)) = Cardinality(GroupedIn(groups', j)) + (IF j = i THEN 1 ELSE 0)
            /\ Cardinality(GroupedIn(groups', j)) \in Nat
        <5>1. IsFiniteSet(GroupedIn(groups, j)) /\ Cardinality(GroupedIn(groups, j)) \in Nat
          BY <3>1, Sets
        <5>2. CASE j = i
          <6>1. /\ IsFiniteSet(GroupedIn(groups, i) \ {e})
                /\ Cardinality(GroupedIn(groups, i) \ {e}) = Cardinality(GroupedIn(groups, i)) - 1
            BY <1>2, <5>1, <5>2, FS_RemoveElement
          <6>2. Cardinality(GroupedIn(groups, i) \ {e}) \in Nat
            BY <6>1, FS_CardinalityType
          <6>3. GroupedIn(groups', j) = GroupedIn(groups, i) \ {e}
            BY <1>2, <5>2
          <6>4. \A n \in Nat : n = n - 1 + 1
            OBVIOUS
          <6> QED BY <5>1, <5>2, <6>1, <6>2, <6>3, <6>4
        <5>3. CASE j # i
          BY <1>2, <3>1, <5>1, <5>3
        <5> QED BY <5>2, <5>3
      <4>3. Cardinality(BufferedOf(j)) \in Nat /\ Cardinality(PendingRowsOf(j)) \in Nat
        BY <3>1, Counts
      <4> QED BY <4>1, <4>2, <4>3
    <3>4. received[j] \in Nat /\ made[j] \in Int /\ eventCount[j] \in Nat /\ received' = received
      BY <1>1, <3>1, Sets
    <3>5. CASE j # i
      <4>1. Uncounted(j) = 0
        BY <1>2, <3>5 DEF Uncounted
      <4>2. Uncounted(j)' = 0
        <5>1. CASE pushed' = 0
          BY <5>1 DEF Uncounted
        <5>2. CASE Head(groups').id = i
          BY <3>5, <5>2 DEF Uncounted
        <5> QED BY <1>11, <5>1, <5>2
      <4>3. Waiting(j)' = Waiting(j)
        BY <3>3, <3>5
      <4> QED BY <1>9, <1>10, <1>11, <3>1, <3>2, <3>4, <3>5, <4>1, <4>2, <4>3
    <3>6. CASE j = i
      <4>1. Uncounted(j) = pushed
        BY <1>1, <1>2, <3>6 DEF Uncounted
      <4>2. /\ eventCount'[j] + Uncounted(j)' = eventCount[j] + pushed + (drain + Len(event))
            /\ eventCount'[j] \in Nat /\ Uncounted(j)' \in Nat
        <5>1. CASE pushed' = 0 /\ eventCount'[i] = eventCount[i] + pushed + Len(event) + drain
          <6>1. Uncounted(j)' = 0
            BY <5>1 DEF Uncounted
          <6>2. eventCount'[j] = eventCount[j] + pushed + Len(event) + drain /\ eventCount'[j] \in Nat
            BY <1>11, <3>1, <3>6, <5>1
          <6> QED BY <1>4, <1>5, <3>4, <6>1, <6>2
        <5>2. CASE /\ pushed' = pushed + Len(event) /\ drain = 0 /\ eventCount'[i] = eventCount[i]
                   /\ groups' # <<>> /\ Head(groups').id = i
          <6>1. Uncounted(j)' = pushed + Len(event)
            BY <1>1, <3>6, <5>2 DEF Uncounted
          <6>2. eventCount'[j] = eventCount[j]
            BY <3>6, <5>2
          <6>3. \A c, p, l \in Nat : c + (p + l) = c + p + (0 + l)
            OBVIOUS
          <6> QED BY <1>4, <1>5, <1>11, <3>4, <5>2, <6>1, <6>2, <6>3
        <5> QED BY <1>11, <3>1, <3>6, <5>1, <5>2
      <4>3. received[j] + made'[j] = eventCount'[j] + Uncounted(j)' + Waiting(j)'
        <5>1. received[j] + made[j] = eventCount[j] + pushed + (Waiting(j)' + 1)
          BY <3>2, <3>3, <3>6, <4>1
        <5>2. made'[j] = made[j] + drain + Len(event) - 1
          BY <1>10, <3>6
        <5>3. PICK l \in Int : l = Len(event)
          BY <1>5
        <5>4. received[j] + (made[j] + drain + l - 1) = eventCount[j] + pushed + (drain + l) + Waiting(j)'
          <6>1. PICK r \in Int, m \in Int, c \in Int, p \in Int, w \in Int :
                  r = received[j] /\ m = made[j] /\ c = eventCount[j] /\ p = pushed /\ w = Waiting(j)'
            BY <1>4, <3>3, <3>4
          <6>2. r + m = c + p + (w + 1)
            BY <5>1, <6>1
          <6>3. r + (m + drain + l - 1) = c + p + (drain + l) + w
            BY <6>2
          <6> QED BY <6>1, <6>3
        <5> QED BY <4>2, <5>2, <5>3, <5>4
      <4>4. Len(events'[j]) = Min({Capacity, eventCount'[j] + Uncounted(j)'})
        <5>1. /\ Len(events'[j]) = (IF Len(events[j]) + (drain + Len(event)) < Capacity
                                    THEN Len(events[j]) + (drain + Len(event)) ELSE Capacity)
              /\ Len(events[j]) \in Nat /\ drain + Len(event) \in Nat /\ eventCount[j] + pushed \in Nat
          BY <1>4, <1>5, <1>7, <1>9, <3>1, <3>4, <3>6
        <5>2. Min({Capacity, eventCount[j] + pushed + (drain + Len(event))}) = Len(events'[j])
          BY <3>2, <4>1, <5>1, RingCounts
        <5> QED BY <4>2, <5>2
      <4> QED BY <3>4, <4>3, <4>4
    <3> QED BY <3>5, <3>6
  <2> QED BY <2>1 DEF EverythingCounted
<1> QED BY <1>12, <1>13, <1>14, <1>16, <1>18, <1>19, <1>20 DEF OrderAndCount

LEMMA PipelineStep == PipelineInv /\ [Next]_vars => OrderAndCount'
<1> SUFFICES ASSUME PipelineInv, [Next]_vars PROVE OrderAndCount'
  OBVIOUS
<1>1. ASSUME NEW i \in Ids, handleGadgetInfo(i) PROVE OrderAndCount'
  BY <1>1, InfoKeeps
<1>2. ASSUME NEW i \in Ids, handleGadgetEvent(i) PROVE OrderAndCount'
  BY <1>2, EventKeeps
<1>3. ASSUME NEW i \in Ids, NEW rows \in 1 .. MaxRows, handleGadgetArrayData(i, rows) PROVE OrderAndCount'
  BY <1>3, ArrayKeeps
<1>4. ASSUME NEW i \in Ids, Started(i) \/ Stopped(i) \/ handleGadgetQuit(i) PROVE OrderAndCount'
  BY <1>4, ProcessorsKeep
<1>5. ASSUME NEW i \in Ids, closeInstance(i) PROVE OrderAndCount'
  BY <1>5, CloseKeeps
<1>6. CASE flush
  BY <1>6, FlushKeeps
<1>7. CASE EventProcessed
  BY <1>7, ProcessedKeeps
<1>8. ASSUME NEW b \in pending, ArrayProcessed(b) PROVE OrderAndCount'
  BY <1>8, BatchKeeps
<1>9. CASE UNCHANGED vars
  BY <1>9, StutterKeeps
<1> QED BY <1>1, <1>2, <1>3, <1>4, <1>5, <1>6, <1>7, <1>8, <1>9 DEF Next, Message, Processed

\* Buffered events are never left without a flush to come, and flushes never
\* overlap (gadget.handler.svelte.ts:258-265, 272-330).
THEOREM FlushIsScheduled == Spec => []FlushScheduled
  <1>1. Init => FlushScheduled
    BY DEF Init, FlushScheduled
  <1>2. FlushScheduled /\ [Next]_vars => FlushScheduled'
    <2> SUFFICES ASSUME FlushScheduled, [Next]_vars PROVE FlushScheduled'
      OBVIOUS
    <2> USE DEF instVars, flushVars, arrayVars, procVars, msgVars
    <2>1. ASSUME UNCHANGED <<buffer, timer, flushing>> PROVE FlushScheduled'
      BY <2>1, Zenon DEF FlushScheduled
    <2>2. ASSUME NEW i \in Ids, handleGadgetEvent(i) PROVE FlushScheduled'
      <3>1. timer' = (timer \/ NeedsTimer) /\ UNCHANGED flushing
        BY <2>2 DEF handleGadgetEvent
      <3>2. QED
        BY <3>1, Zenon DEF NeedsTimer, FlushScheduled
    <2>3. CASE flush
      <3>1. /\ buffer' = <<>>
            /\ timer' = (SkipClosed(GroupByInstance(buffer)) = <<>> /\ <<>> # <<>>)
        BY <2>3 DEF flush, TakesBuffer, Continue
      <3>2. QED
        BY <3>1, Zenon DEF FlushScheduled
    <2>4. CASE EventProcessed
      <3>1. flushing /\ UNCHANGED buffer
        BY <2>4 DEF EventProcessed
      <3>2. \/ UNCHANGED <<flushing, timer>>
            \/ Continue(SkipClosed(Tail(groups)), buffer)
        BY <2>4, Zenon DEF EventProcessed
      <3>3. CASE UNCHANGED <<flushing, timer>>
        BY <2>1, <3>1, <3>3
      <3>4. CASE Continue(SkipClosed(Tail(groups)), buffer)
        BY <3>1, <3>4, Zenon DEF Continue, FlushScheduled
      <3>5. QED
        BY <3>2, <3>3, <3>4
    <2>5. CASE UNCHANGED vars
      BY <2>1, <2>5 DEF vars
    <2>6. ASSUME NEW i \in Ids,
                 \/ handleGadgetInfo(i) \/ handleGadgetQuit(i)
                 \/ Started(i) \/ Stopped(i) \/ closeInstance(i)
          PROVE  FlushScheduled'
      BY <2>1, <2>6 DEF handleGadgetInfo, handleGadgetQuit, Started, Stopped, closeInstance
    <2>7. ASSUME NEW i \in Ids, NEW rows \in 1 .. MaxRows, handleGadgetArrayData(i, rows)
          PROVE  FlushScheduled'
      BY <2>1, <2>7 DEF handleGadgetArrayData
    <2>8. ASSUME NEW b \in pending, ArrayProcessed(b) PROVE FlushScheduled'
      BY <2>1, <2>8 DEF ArrayProcessed
    <2>9. QED
      BY <2>2, <2>3, <2>4, <2>5, <2>6, <2>7, <2>8 DEF Next, Message, Processed
  <1>3. QED
    BY <1>1, <1>2, PTL DEF Spec

LEMMA Initially == Init => PipelineInv
<1> SUFFICES ASSUME Init PROVE PipelineInv
  OBVIOUS
<1> USE DEF Init
<1>1. TypeOK
  <2>1. events \in [Ids -> Seq(Numbers)] /\ \A i \in Ids : Len(events[i]) <= Capacity
    <3>1. \A i \in Ids : events[i] = <<>> /\ Len(<<>>) = 0
      OBVIOUS
    <3> QED BY <3>1, PipelineAssumption
  <2>2. snapshots \in [Ids -> Seq([batch : Nat, rows : Nat])]
    OBVIOUS
  <2>3. /\ eventCount \in [Ids -> Nat] /\ synthetic \in [Ids -> Nat] /\ received \in [Ids -> Nat]
        /\ made \in [Ids -> Int] /\ pushed \in Nat /\ batchIdCounter \in Nat
    OBVIOUS
  <2>4. buffer \in Seq(Messages) /\ groups \in Seq([id : Ids, msgs : Seq(Numbers)])
    OBVIOUS
  <2>5. /\ shown \in SUBSET Ids /\ running \in SUBSET shown /\ states \in SUBSET Ids
        /\ starting \in SUBSET Ids /\ stopping \in SUBSET Ids /\ announced \in SUBSET Ids
        /\ quit \in SUBSET Ids /\ timer \in BOOLEAN /\ flushing \in BOOLEAN /\ processing \in BOOLEAN
        /\ pending \in SUBSET [id : Ids, batch : Nat, rows : Nat]
    OBVIOUS
  <2> QED BY <2>1, <2>2, <2>3, <2>4, <2>5 DEF TypeOK
<1>2. FlushScheduled
  BY DEF FlushScheduled
<1>3. GroupsInv /\ InOrder(buffer) /\ AnnouncedInv
  BY DEF GroupsInv, OneEach, InOrder, AnnouncedInv
<1>4. PendingInv
  BY FS_EmptySet DEF PendingInv
<1>5. \A i \in Ids : BufferedOf(i) = {} /\ GroupedOf(i) = {} /\ StoredOf(i) = {}
  BY DEF BufferedOf, GroupedOf, StoredOf, ToSet
<1>6. NumbersInv /\ FlushOrder
  BY <1>5 DEF NumbersInv, FlushOrder
<1>7. EverythingCounted
  BY DEF EverythingCounted
<1> QED BY <1>1, <1>2, <1>3, <1>4, <1>6, <1>7 DEF PipelineInv

\* Order and count hold of every reachable state, and with them what they need.
THEOREM PipelineInvariant == Spec => []PipelineInv
<1>1. Spec => []FlushScheduled
  BY FlushIsScheduled
<1>2. PipelineInv /\ FlushScheduled' /\ [Next]_vars => PipelineInv'
  BY PipelineStep DEF OrderAndCount, PipelineInv
<1> QED BY <1>1, <1>2, Initially, PTL DEF Spec

\* Every value of the pipeline has its type, and a ring never outgrows its
\* capacity (gadget.handler.svelte.ts:276-330).
THEOREM PipelineTypes == Spec => []TypeOK
<1>1. PipelineInv => TypeOK
  BY DEF PipelineInv
<1> QED BY <1>1, PipelineInvariant, PTL

\* No event is processed twice and none overtakes one of an earlier batch,
\* however flushes, arrays and closes interleave (gadget.handler.svelte.ts:276-290).
THEOREM EventsStayInOrder == Spec => []FlushOrder
<1>1. PipelineInv => FlushOrder
  BY DEF PipelineInv
<1> QED BY <1>1, PipelineInvariant, PTL

\* Nothing an instance received is lost or counted twice on its way to the ring
\* buffer (gadget.handler.svelte.ts:258-330, 458-525).
THEOREM EverythingAlwaysCounted == Spec => []EverythingCounted
<1>1. PipelineInv => EverythingCounted
  BY DEF PipelineInv
<1> QED BY <1>1, PipelineInvariant, PTL
=============================================================================
