------------------------------- MODULE MapProofs -------------------------------
(***************************************************************************)
(* The graph of the network map agrees with itself, and what the chart     *)
(* draws is the graph, for any connections, places and time-outs, however  *)
(* events, snapshots, options, drags and the timer interleave.             *)
(*                                                                         *)
(* A count is the size of a set of pairs (Times): one more connection adds *)
(* one pair on each side of the equations of GraphOK.  An event touches    *)
(* two handles, which may be one, and one edge; a list of events is taken  *)
(* by induction over sets of naturals.                                     *)
(*                                                                         *)
(* The chart lays out its nodes only when the topology key changes.  The   *)
(* key names every node, so a key that is unchanged means the same nodes.  *)
(*                                                                         *)
(* The DNS map keeps its layout in the same way, and refreshes the data of *)
(* its nodes.  Its namespace filter drops rows and so could change whom    *)
(* the others are of; every row a kept one borrows its identity from is    *)
(* kept as well, as a key tells its namespace (DnsAssumption).             *)
(*                                                                         *)
(* Pairing goes packet by packet: a pending request is at every step one   *)
(* open exchange of the packets so far, and the rows are those the packets *)
(* so far have closed (CorrelationInv).                                    *)
(***************************************************************************)
EXTENDS NetworkMap, DnsViews, FiniteSetTheorems, SequenceTheorems, TLAPS

\* A set of naturals has a least element.
LEMMA Least ==
  ASSUME NEW T \in SUBSET Nat, T # {}
  PROVE  \E m \in T : \A n \in T : m <= n
<1> DEFINE Ranges == {0 .. n : n \in T}
           R == StrictSubsetOrdering(Nat)
<1>1. Ranges \subseteq FiniteSubsetsOf(Nat) /\ Ranges # {}
  <2>1. \A n \in T : IsFiniteSet(0 .. n) /\ 0 .. n \subseteq Nat
    BY FS_Interval
  <2> QED BY <2>1 DEF FiniteSubsetsOf
<1>2. IsWellFoundedOn(R, FiniteSubsetsOf(Nat))
  BY FS_StrictSubsetOrderingWellFounded
<1>3. PICK r \in Ranges : \A s \in Ranges : ~(<<s, r>> \in R)
  <2> HIDE DEF Ranges, R
  <2> QED BY <1>1, <1>2, WFMin
<1>4. PICK m \in T : r = 0 .. m
  BY <1>3
<1>5. ASSUME NEW n \in T, ~(m <= n) PROVE FALSE
  <2>1. 0 .. n \in Ranges
    OBVIOUS
  <2>2. 0 .. n \subseteq 0 .. m /\ 0 .. n # 0 .. m
    <3>1. m \in 0 .. m /\ m \notin 0 .. n
      BY <1>5
    <3>2. \A k \in 0 .. n : k \in 0 .. m
      BY <1>5
    <3> QED BY <3>1, <3>2
  <2>3. <<0 .. n, 0 .. m>> \in R
    BY <2>2 DEF StrictSubsetOrdering
  <2> QED BY <1>3, <1>4, <2>1, <2>3
<1> QED BY <1>5

LEMMA SetInduction ==
  ASSUME NEW S \in SUBSET Nat, 0 \in S, \A n \in S : n + 1 \in S
  PROVE  S = Nat
<1> DEFINE T == Nat \ S
<1>1. SUFFICES ASSUME T # {} PROVE FALSE
  OBVIOUS
<1>2. PICK x \in T : \A n \in T : x <= n
  <2> HIDE DEF T
  <2>1. T \in SUBSET Nat
    BY DEF T
  <2> QED BY <1>1, <2>1, Least
<1>3. x \in Nat /\ x # 0
  OBVIOUS
<1>4. x - 1 \in Nat /\ x - 1 + 1 = x /\ ~(x <= x - 1)
  BY <1>3
<1>5. x - 1 \in T
  BY <1>4
<1> QED BY <1>2, <1>4, <1>5

-----------------------------------------------------------------------------
(* What is counted.                                                            *)
LEMMA TimesMember ==
  ASSUME NEW f, NEW some, NEW p
  PROVE  p \in Times(f, some) <=> \E x \in some : \E k \in 1 .. f[x].count : p = <<x, k>>
BY DEF Times

LEMMA TimesSame ==
  ASSUME NEW f, NEW g, NEW some, \A x \in some : f[x].count = g[x].count
  PROVE  Times(f, some) = Times(g, some)
BY DEF Times

LEMMA TimesNone ==
  ASSUME NEW f
  PROVE  Times(f, {}) = {} /\ IsFiniteSet(Times(f, {})) /\ Cardinality(Times(f, {})) = 0
BY FS_EmptySet DEF Times

\* One more of x, which may be new.
LEMMA TimesAdded ==
  ASSUME NEW f, NEW g, NEW some, NEW x, NEW c \in Nat,
         x \in some => f[x].count = c, x \notin some => c = 0,
         g[x].count = c + 1, \A y \in some \ {x} : g[y].count = f[y].count,
         IsFiniteSet(Times(f, some))
  PROVE  /\ IsFiniteSet(Times(g, some \cup {x}))
         /\ Cardinality(Times(g, some \cup {x})) = Cardinality(Times(f, some)) + 1
<1>1. Times(g, some \cup {x}) = Times(f, some) \cup {<<x, c + 1>>}
  <2>1. ASSUME NEW p \in Times(g, some \cup {x}) PROVE p \in Times(f, some) \cup {<<x, c + 1>>}
    <3>1. PICK y \in some \cup {x} : \E k \in 1 .. g[y].count : p = <<y, k>>
      BY TimesMember
    <3>2. PICK k \in 1 .. g[y].count : p = <<y, k>>
      BY <3>1
    <3>3. CASE y = x
      <4>1. k \in 1 .. c \/ k = c + 1
        BY <3>2, <3>3
      <4>2. CASE k \in 1 .. c
        <5>1. x \in some /\ k \in 1 .. f[x].count
          BY <4>2
        <5> QED BY <3>2, <3>3, <5>1, TimesMember
      <4> QED BY <3>2, <3>3, <4>1, <4>2
    <3>4. CASE y # x
      <4>1. y \in some /\ k \in 1 .. f[y].count
        BY <3>1, <3>2, <3>4
      <4> QED BY <3>2, <4>1, TimesMember
    <3> QED BY <3>3, <3>4
  <2>2. ASSUME NEW p \in Times(f, some) PROVE p \in Times(g, some \cup {x})
    <3>1. PICK y \in some : \E k \in 1 .. f[y].count : p = <<y, k>>
      BY TimesMember
    <3>2. PICK k \in 1 .. f[y].count : p = <<y, k>>
      BY <3>1
    <3>3. k \in 1 .. g[y].count
      <4>1. CASE y = x
        BY <3>1, <3>2, <4>1
      <4>2. CASE y # x
        <5>1. g[y].count = f[y].count
          BY <4>2
        <5> QED BY <3>2, <5>1
      <4> QED BY <4>1, <4>2
    <3> QED BY <3>2, <3>3, TimesMember
  <2>3. <<x, c + 1>> \in Times(g, some \cup {x})
    <3>1. c + 1 \in 1 .. g[x].count
      OBVIOUS
    <3> QED BY <3>1, TimesMember
  <2> QED BY <2>1, <2>2, <2>3
<1>2. <<x, c + 1>> \notin Times(f, some)
  <2> SUFFICES ASSUME <<x, c + 1>> \in Times(f, some) PROVE FALSE
    OBVIOUS
  <2>1. PICK y \in some : \E k \in 1 .. f[y].count : <<x, c + 1>> = <<y, k>>
    BY TimesMember
  <2>2. PICK k \in 1 .. f[y].count : <<x, c + 1>> = <<y, k>>
    BY <2>1
  <2>3. x \in some /\ c + 1 \in 1 .. f[x].count /\ f[x].count = c
    BY <2>2
  <2> QED BY <2>3
<1> DEFINE before == Times(f, some)
           after == Times(g, some \cup {x})
<1>3. IsFiniteSet(before) /\ after = before \cup {<<x, c + 1>>} /\ <<x, c + 1>> \notin before
  BY <1>1, <1>2
<1> HIDE DEF before, after
<1>4. IsFiniteSet(after) /\ Cardinality(after) = Cardinality(before) + 1
  BY <1>3, FS_AddElement
<1> QED BY <1>4 DEF before, after

-----------------------------------------------------------------------------
(* One end of an event.                                                        *)
Kinds == {"source", "target", "both"}
Handle == [type : Kinds, count : Nat, active : BOOLEAN, age : Nat]
Nodes(all) == \A id \in DOMAIN all : NodeOK(all[id])
Has(all, id, h) == id \in DOMAIN all /\ h \in DOMAIN all[id].handles
CountOf(all, id, h) == IF Has(all, id, h) THEN all[id].handles[h].count ELSE 0

\* What a handle is after it was touched.
Touched(all, end, new) ==
  /\ Has(new, end.id, end.handle)
  /\ \E type \in Kinds :
       /\ new[end.id].handles[end.handle] =
            [type |-> type, count |-> CountOf(all, end.id, end.handle) + 1, active |-> TRUE, age |-> 0]
       /\ type # "target" <=> \/ end.type = "source"
                              \/ Has(all, end.id, end.handle) /\ all[end.id].handles[end.handle].type # "target"
       /\ type # "source" <=> \/ end.type = "target"
                              \/ Has(all, end.id, end.handle) /\ all[end.id].handles[end.handle].type # "source"

\* and all others are as they were
Others(all, end, new) ==
  \A id, h : ~(id = end.id /\ h = end.handle) =>
    /\ Has(new, id, h) <=> Has(all, id, h)
    /\ Has(all, id, h) => new[id].handles[h] = all[id].handles[h]

LEMMA HandleTyped ==
  ASSUME NEW all, Nodes(all), NEW id, NEW h, Has(all, id, h)
  PROVE  all[id].handles[h] \in Handle
BY DEF Nodes, NodeOK, Has, Handle, Kinds

LEMMA TouchAdds ==
  ASSUME NEW all, Nodes(all), NEW end, end.type \in {"source", "target"}
  PROVE  /\ Nodes(Touch(all, end))
         /\ Touched(all, end, Touch(all, end))
         /\ Others(all, end, Touch(all, end))
         /\ DOMAIN all \subseteq DOMAIN Touch(all, end)
<1> DEFINE i == end.id
           h == end.handle
           node == IF i \in DOMAIN all THEN all[i] ELSE [count |-> 0, handles |-> NoMap]
           handle == IF h \in DOMAIN node.handles THEN node.handles[h] ELSE [count |-> 0, type |-> end.type]
           type == mergeHandleType(handle.type, end.type)
           seen == [type |-> type, count |-> handle.count + 1, active |-> TRUE, age |-> 0]
           handles == With(node.handles, h, seen)
           now == [count |-> node.count + 1, active |-> TRUE, age |-> 0, handles |-> handles]
           new == With(all, i, now)
<1>1. Touch(all, end) = new
  BY DEF Touch
\* the node before
<1>2. /\ IsFiniteSet(Times(node.handles, DOMAIN node.handles))
      /\ node.count = Cardinality(Times(node.handles, DOMAIN node.handles)) /\ node.count \in Nat
      /\ \A x \in DOMAIN node.handles : node.handles[x] \in Handle
      /\ \A x : x \in DOMAIN node.handles <=> Has(all, i, x)
      /\ i \in DOMAIN all => node = all[i]
  <2>1. CASE i \in DOMAIN all
    <3>1. node = all[i] /\ NodeOK(all[i])
      BY <2>1 DEF Nodes
    <3>2. Cardinality(Times(node.handles, DOMAIN node.handles)) \in Nat
      BY <3>1, FS_CardinalityType DEF NodeOK
    <3> HIDE DEF node
    <3> QED BY <2>1, <3>1, <3>2 DEF NodeOK, Handle, Kinds, Has
  <2>2. CASE i \notin DOMAIN all
    <3>1. node.count = 0 /\ node.handles = NoMap /\ DOMAIN node.handles = {}
      BY <2>2 DEF NoMap
    <3> HIDE DEF node
    <3> QED BY <2>2, <3>1, TimesNone DEF Has
  <2> QED BY <2>1, <2>2
<1> HIDE DEF node
\* the handle before
<1>3. /\ handle.type \in Kinds /\ handle.count \in Nat /\ handle.count = CountOf(all, i, h)
      /\ Has(all, i, h) => handle = all[i].handles[h]
      /\ ~Has(all, i, h) => handle.type = end.type
  <2>1. CASE h \in DOMAIN node.handles
    <3>1. handle = node.handles[h] /\ handle \in Handle /\ Has(all, i, h)
      BY <1>2, <2>1
    <3>2. node = all[i]
      BY <1>2, <3>1 DEF Has
    <3> HIDE DEF handle
    <3> QED BY <3>1, <3>2 DEF Handle, CountOf
  <2>2. CASE h \notin DOMAIN node.handles
    <3>1. handle = [count |-> 0, type |-> end.type] /\ ~Has(all, i, h)
      BY <1>2, <2>2
    <3> HIDE DEF handle
    <3> QED BY <3>1 DEF CountOf, Kinds
  <2> QED BY <2>1, <2>2
<1> HIDE DEF handle
<1>4. /\ type \in Kinds
      /\ type # "target" <=> end.type = "source" \/ (Has(all, i, h) /\ handle.type # "target")
      /\ type # "source" <=> end.type = "target" \/ (Has(all, i, h) /\ handle.type # "source")
  BY <1>3 DEF mergeHandleType, Kinds
<1> HIDE DEF type
\* what is there afterwards
<1>5. /\ DOMAIN handles = DOMAIN node.handles \cup {h} /\ handles[h] = seen
      /\ \A x \in DOMAIN node.handles \ {h} : handles[x] = node.handles[x]
  BY DEF With
<1>6. DOMAIN new = DOMAIN all \cup {i} /\ new[i] = now /\ \A x \in DOMAIN all \ {i} : new[x] = all[x]
  BY DEF With
<1>7. seen \in Handle /\ seen.count = handle.count + 1 /\ seen.active /\ seen.age = 0
  BY <1>3, <1>4 DEF Handle
<1> HIDE DEF seen, handles
<1>8. NodeOK(now)
  <2>1. now.count = node.count + 1 /\ now.active /\ now.age = 0 /\ now.handles = handles
        /\ now = [count |-> now.count, active |-> now.active, age |-> now.age, handles |-> now.handles]
    OBVIOUS
  <2> HIDE DEF now
  <2>2. /\ IsFiniteSet(Times(handles, DOMAIN node.handles \cup {h}))
        /\ Cardinality(Times(handles, DOMAIN node.handles \cup {h}))
             = Cardinality(Times(node.handles, DOMAIN node.handles)) + 1
    <3>1. /\ h \in DOMAIN node.handles => node.handles[h].count = handle.count
          /\ h \notin DOMAIN node.handles => handle.count = 0
      <4>1. h \in DOMAIN node.handles <=> Has(all, i, h)
        BY <1>2
      <4>2. Has(all, i, h) => node = all[i]
        BY <1>2 DEF Has
      <4> QED BY <1>3, <4>1, <4>2 DEF CountOf
    <3>2. handles[h].count = handle.count + 1
          /\ \A x \in DOMAIN node.handles \ {h} : handles[x].count = node.handles[x].count
      BY <1>5, <1>7
    <3> QED BY <1>2, <1>3, <3>1, <3>2, TimesAdded
  <2>3. ASSUME NEW x \in DOMAIN handles PROVE handles[x] \in Handle
    BY <1>2, <1>5, <1>7
  <2>4. \A x \in DOMAIN handles : handles[x].age \in Nat
    BY <2>3 DEF Handle
  <2>5. now.count = Cardinality(Times(handles, DOMAIN handles)) /\ IsFiniteSet(Times(handles, DOMAIN handles))
    BY <1>2, <1>5, <2>1, <2>2
  <2>6. now.active \in BOOLEAN /\ now.age \in Nat
        /\ \A x \in DOMAIN handles : now.age <= handles[x].age /\ (handles[x].active => now.active)
    BY <2>1, <2>4
  <2> QED BY <2>1, <2>3, <2>5, <2>6 DEF NodeOK, Handle, Kinds
<1>9. now.handles = handles
  OBVIOUS
<1> HIDE DEF now, new
<1>10. Nodes(new)
  BY <1>6, <1>8 DEF Nodes
<1>11. Touched(all, end, new)
  <2>1. Has(new, i, h) /\ new[i].handles[h] = seen
    BY <1>5, <1>6, <1>9 DEF Has
  <2>2. seen = [type |-> type, count |-> CountOf(all, i, h) + 1, active |-> TRUE, age |-> 0]
    BY <1>3 DEF seen
  <2>3. Has(all, i, h) => handle.type = all[i].handles[h].type
    BY <1>3
  <2> QED BY <1>4, <2>1, <2>2, <2>3 DEF Touched
<1>12. Others(all, end, new)
  <2> SUFFICES ASSUME NEW j, NEW x, ~(j = i /\ x = h)
               PROVE  /\ Has(new, j, x) <=> Has(all, j, x)
                      /\ Has(all, j, x) => new[j].handles[x] = all[j].handles[x]
    BY DEF Others
  <2>1. CASE j = i
    <3>1. Has(new, i, x) <=> x \in DOMAIN node.handles
      BY <1>5, <1>6, <1>9, <2>1 DEF Has
    <3>2. Has(new, i, x) <=> Has(all, i, x)
      BY <1>2, <3>1
    <3>3. ASSUME Has(all, i, x) PROVE new[i].handles[x] = all[i].handles[x]
      <4>1. x \in DOMAIN node.handles /\ node = all[i]
        BY <1>2, <3>3 DEF Has
      <4> QED BY <1>5, <1>6, <1>9, <2>1, <4>1
    <3> QED BY <2>1, <3>2, <3>3
  <2>2. CASE j # i
    BY <1>6, <2>2 DEF Has
  <2> QED BY <2>1, <2>2
<1> QED BY <1>1, <1>6, <1>10, <1>11, <1>12

-----------------------------------------------------------------------------
(* Both ends of an event, and its edge.                                        *)
Event(ends) == ends[1].type = "source" /\ ends[2].type = "target"

LEMMA EndsAreDirected ==
  ASSUME NEW event, NEW threshold
  PROVE  Event(Ends(event, threshold))
BY DEF Event, Ends

\* An edge where there is one more of e.
Linked(links, e) ==
  With(links, e, Seen(IF e \in DOMAIN links THEN links[e].count ELSE 0))

\* The edges at one side of a handle, found by their ends.
LEMMA SideAdded ==
  ASSUME NEW links, \A x \in DOMAIN links : links[x].count \in Nat, NEW e,
         NEW some \in SUBSET DOMAIN links, NEW more \in SUBSET DOMAIN Linked(links, e),
         more \ {e} = some \ {e}, e \in some => e \in more, e \in DOMAIN links /\ e \in more => e \in some,
         IsFiniteSet(Times(links, some))
  PROVE  /\ IsFiniteSet(Times(Linked(links, e), more))
         /\ Cardinality(Times(Linked(links, e), more))
              = Cardinality(Times(links, some)) + (IF e \in more THEN 1 ELSE 0)
<1> DEFINE new == Linked(links, e)
           c == IF e \in DOMAIN links THEN links[e].count ELSE 0
<1>1. /\ new[e].count = c + 1 /\ c \in Nat
      /\ \A x \in DOMAIN links \ {e} : new[x] = links[x]
  BY DEF Linked, With, Seen
<1>2. CASE e \in more
  <2>1. more = some \cup {e}
    BY <1>2
  <2>2. /\ e \in some => links[e].count = c
        /\ e \notin some => c = 0
        /\ \A y \in some \ {e} : new[y].count = links[y].count
    BY <1>1, <1>2
  <2> HIDE DEF new, c
  <2>3. /\ IsFiniteSet(Times(new, some \cup {e}))
        /\ Cardinality(Times(new, some \cup {e})) = Cardinality(Times(links, some)) + 1
    BY <1>1, <2>2, TimesAdded
  <2> QED BY <1>2, <2>1, <2>3 DEF new
<1>3. CASE e \notin more
  <2>1. e \notin some /\ more = some
    BY <1>3
  <2>2. \A x \in some : new[x].count = links[x].count
    BY <1>1, <2>1
  <2> HIDE DEF new, c
  <2>3. Times(new, some) = Times(links, some)
    BY <2>2, TimesSame
  <2>4. Cardinality(Times(links, some)) \in Nat
    BY FS_CardinalityType
  <2> QED BY <1>3, <2>1, <2>3, <2>4 DEF new
<1> QED BY <1>2, <1>3

\* What is at a handle that is not there yet: nothing.
LEMMA NothingAtNewHandle ==
  ASSUME NEW all, NEW links, Joined(all, links), NEW id, NEW h, ~Has(all, id, h)
  PROVE  EdgesFrom(links, id, h) = {} /\ EdgesTo(links, id, h) = {}
BY DEF Joined, Has, EdgesFrom, EdgesTo

\* What GraphOK says of any handle, there or not.
At(all, links, id, h) ==
  /\ IsFiniteSet(Times(links, EdgesFrom(links, id, h))) /\ IsFiniteSet(Times(links, EdgesTo(links, id, h)))
  /\ CountOf(all, id, h) = CountAt(links, id, h)
  /\ (Has(all, id, h) /\ all[id].handles[h].type # "target") <=> EdgesFrom(links, id, h) # {}
  /\ (Has(all, id, h) /\ all[id].handles[h].type # "source") <=> EdgesTo(links, id, h) # {}

LEMMA EveryHandle ==
  ASSUME NEW all, NEW links, GraphOK(all, links), NEW id, NEW h
  PROVE  At(all, links, id, h)
<1>1. CASE Has(all, id, h)
  BY <1>1 DEF GraphOK, Agrees, Has, At, CountOf
<1>2. CASE ~Has(all, id, h)
  <2>1. EdgesFrom(links, id, h) = {} /\ EdgesTo(links, id, h) = {}
    BY <1>2, NothingAtNewHandle DEF GraphOK
  <2>2. CountAt(links, id, h) = 0
    BY <2>1, TimesNone DEF CountAt
  <2> QED BY <1>2, <2>1, <2>2, TimesNone DEF At, CountOf
<1> QED BY <1>1, <1>2

LEMMA HandlesAgree ==
  ASSUME NEW all, NEW links,
         \A id, h : Has(all, id, h) => At(all, links, id, h)
  PROVE  Agrees(all, links)
BY DEF Agrees, At, Has, CountOf

LEMMA CountTyped ==
  ASSUME NEW all, Nodes(all), NEW id, NEW h
  PROVE  CountOf(all, id, h) \in Nat
BY HandleTyped DEF CountOf, Handle

\* Any handle, after an end was touched.
After(all, end, new, id, h) ==
  /\ CountOf(new, id, h) = CountOf(all, id, h) + (IF id = end.id /\ h = end.handle THEN 1 ELSE 0)
  /\ (Has(new, id, h) /\ new[id].handles[h].type # "target") <=>
       \/ Has(all, id, h) /\ all[id].handles[h].type # "target"
       \/ id = end.id /\ h = end.handle /\ end.type = "source"
  /\ (Has(new, id, h) /\ new[id].handles[h].type # "source") <=>
       \/ Has(all, id, h) /\ all[id].handles[h].type # "source"
       \/ id = end.id /\ h = end.handle /\ end.type = "target"

LEMMA TouchedAt ==
  ASSUME NEW all, Nodes(all), NEW end, NEW new, Touched(all, end, new), Others(all, end, new),
         NEW id, NEW h
  PROVE  After(all, end, new, id, h)
<1>1. CountOf(all, id, h) \in Nat
  BY CountTyped
<1>2. CASE id = end.id /\ h = end.handle
  <2>1. Has(new, id, h)
    BY <1>2 DEF Touched
  <2>2. PICK type \in Kinds :
       /\ new[id].handles[h] = [type |-> type, count |-> CountOf(all, id, h) + 1, active |-> TRUE, age |-> 0]
       /\ type # "target" <=> \/ end.type = "source"
                              \/ Has(all, id, h) /\ all[id].handles[h].type # "target"
       /\ type # "source" <=> \/ end.type = "target"
                              \/ Has(all, id, h) /\ all[id].handles[h].type # "source"
    BY <1>2 DEF Touched
  <2>3. new[id].handles[h].type = type /\ new[id].handles[h].count = CountOf(all, id, h) + 1
    BY <2>2
  <2>4. CountOf(new, id, h) = CountOf(all, id, h) + 1
    BY <2>1, <2>3 DEF CountOf
  <2> QED BY <1>2, <2>1, <2>2, <2>3, <2>4 DEF After
<1>3. CASE ~(id = end.id /\ h = end.handle)
  <2>1. /\ Has(new, id, h) <=> Has(all, id, h)
        /\ Has(all, id, h) => new[id].handles[h] = all[id].handles[h]
    BY <1>3 DEF Others
  <2>2. CountOf(new, id, h) = CountOf(all, id, h)
    BY <2>1 DEF CountOf
  <2> QED BY <1>1, <1>3, <2>1, <2>2 DEF After
<1> QED BY <1>2, <1>3

\* What Joined says of one end of an edge.
EndOK(all, link, id, h) ==
  /\ Has(all, id, h) /\ all[id].handles[h].age <= link.age
  /\ link.active => all[id].handles[h].active

LEMMA ProcessEventKeeps ==
  ASSUME NEW all, NEW links, GraphOK(all, links), NEW ends, Event(ends)
  PROVE  GraphOK(Touch(Touch(all, ends[1]), ends[2]), Linked(links, EdgeId(ends)))
<1> DEFINE a == ends[1]
           b == ends[2]
           one == Touch(all, a)
           new == Touch(one, b)
           e == EdgeId(ends)
           more == Linked(links, e)
<1>1. Nodes(all) /\ Joined(all, links)
  BY DEF GraphOK, Nodes
<1>2. a.type = "source" /\ b.type = "target"
  BY DEF Event
<1>3. e.source = a.id /\ e.sourceHandle = a.handle /\ e.target = b.id /\ e.targetHandle = b.handle
  BY DEF EdgeId
<1> HIDE DEF a, b, e
<1>4. Nodes(one) /\ Touched(all, a, one) /\ Others(all, a, one)
  BY <1>1, <1>2, TouchAdds
<1> HIDE DEF one
<1>5. Nodes(new) /\ Touched(one, b, new) /\ Others(one, b, new)
  BY <1>2, <1>4, TouchAdds
<1> HIDE DEF new
<1>6. DOMAIN more = DOMAIN links \cup {e} /\ \A x \in DOMAIN links \ {e} : more[x] = links[x]
  BY DEF Linked, With
\* the two ends, which may be one handle
<1>7. ASSUME NEW id, NEW h, Has(new, id, h)
      PROVE  /\ CountOf(new, id, h) = CountOf(all, id, h) + (IF id = a.id /\ h = a.handle THEN 1 ELSE 0)
                                                          + (IF id = b.id /\ h = b.handle THEN 1 ELSE 0)
             /\ new[id].handles[h].type # "target" <=>
                  \/ Has(all, id, h) /\ all[id].handles[h].type # "target"
                  \/ id = a.id /\ h = a.handle
             /\ new[id].handles[h].type # "source" <=>
                  \/ Has(all, id, h) /\ all[id].handles[h].type # "source"
                  \/ id = b.id /\ h = b.handle
  <2>1. After(all, a, one, id, h)
    BY <1>1, <1>2, <1>4, TouchedAt
  <2>2. After(one, b, new, id, h)
    BY <1>2, <1>4, <1>5, TouchedAt
  <2>3. CountOf(all, id, h) \in Nat
    BY <1>1, CountTyped
  <2> QED BY <1>2, <1>7, <2>1, <2>2, <2>3 DEF After
<1>8. Agrees(new, more)
  <2> SUFFICES ASSUME NEW id, NEW h, Has(new, id, h) PROVE At(new, more, id, h)
    BY HandlesAgree
  <2>1. At(all, links, id, h)
    BY EveryHandle
  <2>2. /\ EdgesFrom(more, id, h) \ {e} = EdgesFrom(links, id, h) \ {e}
        /\ e \in EdgesFrom(more, id, h) <=> id = a.id /\ h = a.handle
        /\ EdgesFrom(links, id, h) \in SUBSET DOMAIN links /\ EdgesFrom(more, id, h) \in SUBSET DOMAIN more
        /\ e \in EdgesFrom(links, id, h) => e \in EdgesFrom(more, id, h)
        /\ e \in DOMAIN links /\ e \in EdgesFrom(more, id, h) => e \in EdgesFrom(links, id, h)
    BY <1>3, <1>6 DEF EdgesFrom
  <2>3. /\ EdgesTo(more, id, h) \ {e} = EdgesTo(links, id, h) \ {e}
        /\ e \in EdgesTo(more, id, h) <=> id = b.id /\ h = b.handle
        /\ EdgesTo(links, id, h) \in SUBSET DOMAIN links /\ EdgesTo(more, id, h) \in SUBSET DOMAIN more
        /\ e \in EdgesTo(links, id, h) => e \in EdgesTo(more, id, h)
        /\ e \in DOMAIN links /\ e \in EdgesTo(more, id, h) => e \in EdgesTo(links, id, h)
    BY <1>3, <1>6 DEF EdgesTo
  <2>4. \A x \in DOMAIN links : links[x].count \in Nat
    BY <1>1 DEF Joined
  <2>5. /\ IsFiniteSet(Times(more, EdgesFrom(more, id, h)))
        /\ Cardinality(Times(more, EdgesFrom(more, id, h)))
             = Cardinality(Times(links, EdgesFrom(links, id, h))) + (IF id = a.id /\ h = a.handle THEN 1 ELSE 0)
    BY <2>1, <2>2, <2>4, SideAdded DEF At
  <2>6. /\ IsFiniteSet(Times(more, EdgesTo(more, id, h)))
        /\ Cardinality(Times(more, EdgesTo(more, id, h)))
             = Cardinality(Times(links, EdgesTo(links, id, h))) + (IF id = b.id /\ h = b.handle THEN 1 ELSE 0)
    BY <2>1, <2>3, <2>4, SideAdded DEF At
  <2>7. /\ Cardinality(Times(links, EdgesFrom(links, id, h))) \in Nat
        /\ Cardinality(Times(links, EdgesTo(links, id, h))) \in Nat
    BY <2>1, FS_CardinalityType DEF At
  <2>8. CountOf(new, id, h) = CountAt(more, id, h)
    <3>1. CountOf(all, id, h) = Cardinality(Times(links, EdgesFrom(links, id, h)))
                                + Cardinality(Times(links, EdgesTo(links, id, h)))
      BY <2>1 DEF At, CountAt
    <3>2. CountAt(more, id, h) = Cardinality(Times(more, EdgesFrom(more, id, h)))
                                + Cardinality(Times(more, EdgesTo(more, id, h)))
      BY DEF CountAt
    <3> QED BY <1>7, <2>5, <2>6, <2>7, <3>1, <3>2
  <2>9. new[id].handles[h].type # "target" <=> EdgesFrom(more, id, h) # {}
    <3>1. EdgesFrom(more, id, h) # {} <=> EdgesFrom(links, id, h) # {} \/ (id = a.id /\ h = a.handle)
      BY <2>2
    <3> QED BY <1>7, <2>1, <3>1 DEF At
  <2>10. new[id].handles[h].type # "source" <=> EdgesTo(more, id, h) # {}
    <3>1. EdgesTo(more, id, h) # {} <=> EdgesTo(links, id, h) # {} \/ (id = b.id /\ h = b.handle)
      BY <2>3
    <3> QED BY <1>7, <2>1, <3>1 DEF At
  <2> QED BY <2>5, <2>6, <2>8, <2>9, <2>10 DEF At
<1>9. Joined(new, more)
  <2>1. ASSUME NEW id, NEW h, Has(all, id, h) \/ (id = a.id /\ h = a.handle) \/ (id = b.id /\ h = b.handle)
        PROVE  /\ Has(new, id, h)
               /\ \/ Has(all, id, h) /\ new[id].handles[h] = all[id].handles[h]
                  \/ new[id].handles[h].active /\ new[id].handles[h].age = 0
    <3>1. CASE id = b.id /\ h = b.handle
      BY <1>5, <3>1 DEF Touched
    <3>2. CASE ~(id = b.id /\ h = b.handle)
      <4>1. Has(new, id, h) <=> Has(one, id, h)
        BY <1>5, <3>2 DEF Others
      <4>2. Has(one, id, h) => new[id].handles[h] = one[id].handles[h]
        BY <1>5, <3>2 DEF Others
      <4>3. CASE id = a.id /\ h = a.handle
        BY <1>4, <4>1, <4>2, <4>3 DEF Touched
      <4>4. CASE ~(id = a.id /\ h = a.handle)
        BY <1>4, <2>1, <3>2, <4>1, <4>2, <4>4 DEF Others
      <4> QED BY <4>3, <4>4
    <3> QED BY <3>1, <3>2
  <2>2. ASSUME NEW x \in DOMAIN more
        PROVE  /\ more[x] \in [count : Nat, active : BOOLEAN, age : Nat]
               /\ EndOK(new, more[x], x.source, x.sourceHandle)
               /\ EndOK(new, more[x], x.target, x.targetHandle)
    <3>1. CASE x # e
      <4>1. x \in DOMAIN links /\ more[x] = links[x]
        BY <1>6, <3>1
      <4>2. /\ links[x] \in [count : Nat, active : BOOLEAN, age : Nat]
            /\ EndOK(all, links[x], x.source, x.sourceHandle)
            /\ EndOK(all, links[x], x.target, x.targetHandle)
        BY <1>1, <4>1 DEF Joined, EndOK, Has
      <4>3. links[x].age \in Nat
        BY <4>2
      <4>4. ASSUME NEW id, NEW h, EndOK(all, links[x], id, h) PROVE EndOK(new, links[x], id, h)
        <5>1. /\ Has(all, id, h) /\ all[id].handles[h].age <= links[x].age
              /\ links[x].active => all[id].handles[h].active
          BY <4>4 DEF EndOK
        <5>2. /\ Has(new, id, h)
              /\ \/ new[id].handles[h] = all[id].handles[h]
                 \/ new[id].handles[h].active /\ new[id].handles[h].age = 0
          BY <2>1, <5>1
        <5> QED BY <4>3, <5>1, <5>2 DEF EndOK
      <4> QED BY <4>1, <4>2, <4>4
    <3>2. CASE x = e
      <4> DEFINE c == IF e \in DOMAIN links THEN links[e].count ELSE 0
      <4>1. more[e] = Seen(c) /\ c \in Nat
        BY <1>1 DEF Linked, With, Joined
      <4> HIDE DEF c
      <4>2. more[e] \in [count : Nat, active : BOOLEAN, age : Nat] /\ more[e].age = 0 /\ more[e].active
        BY <4>1 DEF Seen
      <4>3. Has(new, b.id, b.handle) /\ new[b.id].handles[b.handle].active /\ new[b.id].handles[b.handle].age = 0
        BY <1>5 DEF Touched
      <4>4. Has(new, a.id, a.handle) /\ new[a.id].handles[a.handle].active /\ new[a.id].handles[a.handle].age = 0
        <5>1. CASE a.id = b.id /\ a.handle = b.handle
          BY <4>3, <5>1
        <5>2. CASE ~(a.id = b.id /\ a.handle = b.handle)
          BY <1>4, <1>5, <5>2 DEF Others, Touched
        <5> QED BY <5>1, <5>2
      <4> QED BY <1>3, <3>2, <4>2, <4>3, <4>4 DEF EndOK
    <3> QED BY <3>1, <3>2
  <2> QED BY <2>2 DEF Joined, EndOK, Has
<1> QED BY <1>5, <1>8, <1>9 DEF GraphOK, Nodes, new, one, a, b, e, more

-----------------------------------------------------------------------------
(* The timer.                                                                  *)
Aged(age) == IF age > NodeTimeout THEN age ELSE age + 1

LEMMA AgedGrows ==
  ASSUME NEW a \in Nat, NEW b \in Nat, a <= b
  PROVE  Aged(a) \in Nat /\ Aged(a) <= Aged(b)
BY MapAssumption DEF Aged

LEMMA OlderIs ==
  ASSUME NEW x, NEW timeout
  PROVE  \E b \in BOOLEAN : /\ b <=> x.active /\ x.age + 1 <= timeout
                            /\ Older(x, timeout) = [x EXCEPT !.age = Aged(x.age), !.active = b]
<1> DEFINE b == x.active /\ x.age + 1 <= timeout
<1>1. Older(x, timeout) = [x EXCEPT !.age = Aged(x.age), !.active = b]
  BY Zenon DEF Older, Aged
<1>2. b \in BOOLEAN
  OBVIOUS
<1> QED BY <1>1, <1>2, Zenon

LEMMA OlderHandle ==
  ASSUME NEW x \in Handle, NEW timeout
  PROVE  /\ Older(x, timeout) \in Handle
         /\ Older(x, timeout).type = x.type /\ Older(x, timeout).count = x.count
         /\ Older(x, timeout).age = Aged(x.age)
         /\ Older(x, timeout).active <=> x.active /\ x.age + 1 <= timeout
<1>1. PICK b \in BOOLEAN : /\ b <=> x.active /\ x.age + 1 <= timeout
                           /\ Older(x, timeout) = [x EXCEPT !.age = Aged(x.age), !.active = b]
  BY OlderIs
<1>2. Aged(x.age) \in Nat
  BY AgedGrows DEF Handle
<1>3. ASSUME NEW a \in Nat, NEW y, y = [x EXCEPT !.age = a, !.active = b]
      PROVE  y \in Handle /\ y.type = x.type /\ y.count = x.count /\ y.age = a /\ y.active = b
  BY <1>3 DEF Handle
<1>4. PICK a \in Nat : a = Aged(x.age)
  BY <1>2
<1>5. PICK y : y = Older(x, timeout) /\ y = [x EXCEPT !.age = a, !.active = b]
  BY <1>1, <1>4
<1>6. y \in Handle /\ y.type = x.type /\ y.count = x.count /\ y.age = a /\ y.active = b
  BY <1>3, <1>5
<1> QED BY <1>1, <1>4, <1>5, <1>6

LEMMA OlderLink ==
  ASSUME NEW x \in [count : Nat, active : BOOLEAN, age : Nat], NEW timeout
  PROVE  /\ Older(x, timeout) \in [count : Nat, active : BOOLEAN, age : Nat]
         /\ Older(x, timeout).count = x.count /\ Older(x, timeout).age = Aged(x.age)
         /\ Older(x, timeout).active <=> x.active /\ x.age + 1 <= timeout
<1>1. PICK b \in BOOLEAN : /\ b <=> x.active /\ x.age + 1 <= timeout
                           /\ Older(x, timeout) = [x EXCEPT !.age = Aged(x.age), !.active = b]
  BY OlderIs
<1>2. Aged(x.age) \in Nat
  BY AgedGrows
<1>3. ASSUME NEW a \in Nat, NEW y, y = [x EXCEPT !.age = a, !.active = b]
      PROVE  /\ y \in [count : Nat, active : BOOLEAN, age : Nat]
             /\ y.count = x.count /\ y.age = a /\ y.active = b
  BY <1>3
<1> QED BY <1>1, <1>2, <1>3

\* A node one period later.
Faded(node) == [Older(node, NodeTimeout) EXCEPT !.handles = [h \in DOMAIN @ |-> Older(@[h], EdgeTimeout)]]

LEMMA FadedNode ==
  ASSUME NEW node, NodeOK(node)
  PROVE  /\ NodeOK(Faded(node))
         /\ Faded(node).handles = [h \in DOMAIN node.handles |-> Older(node.handles[h], EdgeTimeout)]
<1> DEFINE handles == [h \in DOMAIN node.handles |-> Older(node.handles[h], EdgeTimeout)]
           older == Older(node, NodeTimeout)
           new == Faded(node)
<1>1. /\ DOMAIN node = {"count", "active", "age", "handles"}
      /\ node.age \in Nat /\ node.active \in BOOLEAN
      /\ \A h \in DOMAIN node.handles : node.handles[h] \in Handle
  BY DEF NodeOK, Handle, Kinds
<1>2. PICK b \in BOOLEAN : /\ b <=> node.active /\ node.age + 1 <= NodeTimeout
                           /\ older = [node EXCEPT !.age = Aged(node.age), !.active = b]
  BY OlderIs
<1>3. /\ DOMAIN older = DOMAIN node /\ older.count = node.count /\ older.handles = node.handles
      /\ older.age = Aged(node.age) /\ older.active = b
  <2> HIDE DEF older
  <2> QED BY <1>1, <1>2
<1>4. new = [older EXCEPT !.handles = handles]
  <2>1. new = [older EXCEPT !.handles = [h \in DOMAIN older.handles |-> Older(older.handles[h], EdgeTimeout)]]
    BY Zenon DEF Faded
  <2> HIDE DEF new, older
  <2> QED BY <1>3, <2>1
<1> HIDE DEF new, handles, older
<1>5. /\ DOMAIN new = {"count", "active", "age", "handles"}
      /\ new.count = node.count /\ new.handles = handles /\ new.age = Aged(node.age) /\ new.active = b
  BY <1>1, <1>3, <1>4
<1>6. DOMAIN handles = DOMAIN node.handles
      /\ \A h \in DOMAIN node.handles : handles[h] = Older(node.handles[h], EdgeTimeout)
  BY DEF handles
<1>7. ASSUME NEW h \in DOMAIN node.handles
      PROVE  /\ handles[h] \in Handle /\ handles[h].count = node.handles[h].count
             /\ new.age <= handles[h].age /\ (handles[h].active => b)
  <2>1. node.handles[h] \in Handle /\ handles[h] = Older(node.handles[h], EdgeTimeout)
    BY <1>1, <1>6
  <2>2. /\ handles[h] \in Handle /\ handles[h].count = node.handles[h].count
        /\ handles[h].age = Aged(node.handles[h].age)
        /\ handles[h].active <=> node.handles[h].active /\ node.handles[h].age + 1 <= EdgeTimeout
    BY <2>1, OlderHandle
  <2>3. node.handles[h].age \in Nat /\ node.age <= node.handles[h].age
        /\ (node.handles[h].active => node.active)
    BY <2>1 DEF NodeOK, Handle
  <2>4. new.age <= handles[h].age
    BY <1>1, <1>5, <2>2, <2>3, AgedGrows
  <2>5. node.handles[h].age + 1 <= EdgeTimeout => node.age + 1 <= NodeTimeout
    BY <1>1, <2>3, MapAssumption
  <2> QED BY <1>2, <2>2, <2>3, <2>4, <2>5
<1>8. Times(handles, DOMAIN node.handles) = Times(node.handles, DOMAIN node.handles)
  BY <1>7, TimesSame
<1>9. new.age \in Nat
  BY <1>1, <1>5, AgedGrows
<1>10. /\ IsFiniteSet(Times(handles, DOMAIN handles))
       /\ new.count = Cardinality(Times(handles, DOMAIN handles))
  BY <1>5, <1>6, <1>8 DEF NodeOK
<1>11. NodeOK(new)
  BY <1>5, <1>6, <1>7, <1>9, <1>10 DEF NodeOK, Handle, Kinds
<1> QED BY <1>5, <1>11 DEF new, handles

LEMMA FadingKeeps ==
  ASSUME NEW all, NEW links, GraphOK(all, links), NEW new, NEW more,
         new = [id \in DOMAIN all |-> Faded(all[id])],
         more = [e \in DOMAIN links |-> Older(links[e], EdgeTimeout)]
  PROVE  GraphOK(new, more)
<1>1. Nodes(all) /\ Joined(all, links)
  BY DEF GraphOK, Nodes
<1>2. Nodes(new)
  BY <1>1, FadedNode DEF Nodes
<1>3. ASSUME NEW id, NEW h
      PROVE  /\ Has(new, id, h) <=> Has(all, id, h)
             /\ Has(all, id, h) => new[id].handles[h] = Older(all[id].handles[h], EdgeTimeout)
  <2>1. CASE id \in DOMAIN all
    <3>1. new[id].handles = [x \in DOMAIN all[id].handles |-> Older(all[id].handles[x], EdgeTimeout)]
      BY <1>1, <2>1, FadedNode DEF Nodes
    <3> QED BY <2>1, <3>1 DEF Has
  <2>2. CASE id \notin DOMAIN all
    BY <2>2 DEF Has
  <2> QED BY <2>1, <2>2
<1>4. ASSUME NEW id, NEW h, Has(all, id, h)
      PROVE  /\ all[id].handles[h] \in Handle
             /\ new[id].handles[h].count = all[id].handles[h].count
             /\ new[id].handles[h].type = all[id].handles[h].type
             /\ new[id].handles[h].age = Aged(all[id].handles[h].age)
             /\ new[id].handles[h].active <=>
                  all[id].handles[h].active /\ all[id].handles[h].age + 1 <= EdgeTimeout
  <2>1. all[id].handles[h] \in Handle
    BY <1>1, <1>4, HandleTyped
  <2>2. new[id].handles[h] = Older(all[id].handles[h], EdgeTimeout)
    BY <1>3, <1>4
  <2> QED BY <2>1, <2>2, OlderHandle
<1>5. DOMAIN more = DOMAIN links /\ \A e \in DOMAIN links : more[e] = Older(links[e], EdgeTimeout)
  OBVIOUS
<1>6. ASSUME NEW e \in DOMAIN links
      PROVE  /\ more[e] \in [count : Nat, active : BOOLEAN, age : Nat]
             /\ more[e].count = links[e].count /\ more[e].age = Aged(links[e].age)
             /\ more[e].active <=> links[e].active /\ links[e].age + 1 <= EdgeTimeout
             /\ links[e].age \in Nat
  <2>1. links[e] \in [count : Nat, active : BOOLEAN, age : Nat]
    BY <1>1 DEF Joined
  <2> QED BY <1>5, <2>1, OlderLink
<1>7. Joined(new, more)
  <2>1. ASSUME NEW e \in DOMAIN links, NEW id, NEW h, EndOK(all, links[e], id, h)
        PROVE  EndOK(new, more[e], id, h)
    <3>1. /\ Has(all, id, h) /\ all[id].handles[h].age <= links[e].age
          /\ links[e].active => all[id].handles[h].active
      BY <2>1 DEF EndOK
    <3>2. all[id].handles[h].age \in Nat
      BY <1>4, <3>1 DEF Handle
    <3>3. links[e].age + 1 <= EdgeTimeout => all[id].handles[h].age + 1 <= EdgeTimeout
      BY <1>6, <3>1, <3>2, MapAssumption
    <3>4. new[id].handles[h].age <= more[e].age
      <4>1. links[e].age \in Nat
        BY <1>6
      <4>2. Aged(all[id].handles[h].age) <= Aged(links[e].age)
        BY <3>1, <3>2, <4>1, AgedGrows
      <4>3. new[id].handles[h].age = Aged(all[id].handles[h].age)
        BY <1>4, <3>1
      <4>4. more[e].age = Aged(links[e].age)
        BY <1>6
      <4> QED BY <4>2, <4>3, <4>4
    <3>5. Has(new, id, h)
      BY <1>3, <3>1
    <3>6. more[e].active => new[id].handles[h].active
      BY <1>4, <1>6, <3>1, <3>3
    <3> QED BY <3>4, <3>5, <3>6 DEF EndOK
  <2>2. ASSUME NEW e \in DOMAIN more
        PROVE  /\ more[e] \in [count : Nat, active : BOOLEAN, age : Nat]
               /\ EndOK(new, more[e], e.source, e.sourceHandle)
               /\ EndOK(new, more[e], e.target, e.targetHandle)
    <3>1. /\ EndOK(all, links[e], e.source, e.sourceHandle)
          /\ EndOK(all, links[e], e.target, e.targetHandle)
      BY <1>1, <1>5 DEF Joined, EndOK, Has
    <3> QED BY <1>5, <1>6, <2>1, <3>1
  <2> QED BY <2>2 DEF Joined, EndOK, Has
<1>8. Agrees(new, more)
  <2> SUFFICES ASSUME NEW id, NEW h, Has(new, id, h) PROVE At(new, more, id, h)
    BY HandlesAgree
  <2>1. At(all, links, id, h) /\ Has(all, id, h)
    BY <1>3, EveryHandle
  <2>2. EdgesFrom(more, id, h) = EdgesFrom(links, id, h) /\ EdgesTo(more, id, h) = EdgesTo(links, id, h)
    BY <1>5 DEF EdgesFrom, EdgesTo
  <2>3. Times(more, EdgesFrom(links, id, h)) = Times(links, EdgesFrom(links, id, h))
    <3>1. \A e \in EdgesFrom(links, id, h) : more[e].count = links[e].count
      BY <1>6 DEF EdgesFrom
    <3> QED BY <3>1, TimesSame
  <2>4. Times(more, EdgesTo(links, id, h)) = Times(links, EdgesTo(links, id, h))
    <3>1. \A e \in EdgesTo(links, id, h) : more[e].count = links[e].count
      BY <1>6 DEF EdgesTo
    <3> QED BY <3>1, TimesSame
  <2>5. CountOf(new, id, h) = CountOf(all, id, h)
    BY <1>3, <1>4, <2>1 DEF CountOf
  <2> QED BY <1>4, <2>1, <2>2, <2>3, <2>4, <2>5 DEF At, CountAt
<1> QED BY <1>2, <1>7, <1>8 DEF GraphOK, Nodes

-----------------------------------------------------------------------------
(* A list of events.                                                           *)
Consistent(graph) == GraphOK(graph.nodes, graph.edges)

LEMMA EventKeeps ==
  ASSUME NEW graph, Consistent(graph), NEW event, NEW threshold
  PROVE  Consistent(processEvent(graph, event, threshold))
<1> DEFINE ends == Ends(event, threshold)
           new == processEvent(graph, event, threshold)
<1>1. new.nodes = Touch(Touch(graph.nodes, ends[1]), ends[2]) /\ new.edges = Linked(graph.edges, EdgeId(ends))
  BY DEF processEvent, Linked
<1>2. Event(ends)
  BY EndsAreDirected
<1> HIDE DEF ends, new
<1>3. GraphOK(Touch(Touch(graph.nodes, ends[1]), ends[2]), Linked(graph.edges, EdgeId(ends)))
  BY <1>2, ProcessEventKeeps DEF Consistent
<1> QED BY <1>1, <1>3 DEF Consistent, new

\* the loop over the first n events
IsLoop(f, graph, list, threshold, n) ==
  f = [k \in 0 .. n |-> IF k = 0 THEN graph ELSE processEvent(f[k - 1], list[k], threshold)]

LEMMA LoopRuns ==
  ASSUME NEW graph, NEW list, NEW threshold, NEW last \in Nat
  PROVE  \E f : IsLoop(f, graph, list, threshold, last)
<1> DEFINE S == {n \in Nat : \E f : IsLoop(f, graph, list, threshold, n)}
<1>1. 0 \in S
  <2> DEFINE f == [k \in 0 .. 0 |-> graph]
  <2>1. IsLoop(f, graph, list, threshold, 0)
    BY DEF IsLoop
  <2> QED BY <2>1
<1>2. ASSUME NEW n \in S PROVE n + 1 \in S
  <2>1. PICK f : IsLoop(f, graph, list, threshold, n)
    OBVIOUS
  <2> DEFINE next == processEvent(f[n], list[n + 1], threshold)
             g == [k \in 0 .. n + 1 |-> IF k = n + 1 THEN next ELSE f[k]]
             h == [k \in 0 .. n + 1 |-> IF k = 0 THEN graph ELSE processEvent(g[k - 1], list[k], threshold)]
  <2>2. ASSUME NEW k \in 0 .. n + 1 PROVE g[k] = h[k]
    <3>1. CASE k = n + 1
      <4>1. g[k] = next /\ k # 0 /\ k - 1 \in 0 .. n + 1 /\ k - 1 # n + 1 /\ k - 1 = n
        BY <3>1
      <4>2. g[k - 1] = f[n]
        BY <4>1
      <4> QED BY <3>1, <4>1, <4>2
    <3>2. CASE k = 0
      <4>1. f[0] = graph
        BY <2>1 DEF IsLoop
      <4> QED BY <3>2, <4>1
    <3>3. CASE k # n + 1 /\ k # 0
      <4>1. k \in 0 .. n /\ k - 1 \in 0 .. n + 1 /\ k - 1 # n + 1
        BY <3>3
      <4>2. g[k] = f[k] /\ g[k - 1] = f[k - 1]
        BY <3>3, <4>1
      <4>3. f[k] = processEvent(f[k - 1], list[k], threshold)
        BY <2>1, <3>3, <4>1 DEF IsLoop
      <4> QED BY <3>3, <4>2, <4>3
    <3> QED BY <3>1, <3>2, <3>3
  <2>3. g = h
    <3>1. g = [k \in 0 .. n + 1 |-> g[k]] /\ h = [k \in 0 .. n + 1 |-> h[k]]
      OBVIOUS
    <3> HIDE DEF g, h
    <3> QED BY <2>2, <3>1
  <2>4. IsLoop(g, graph, list, threshold, n + 1)
    <3> HIDE DEF g
    <3> QED BY <2>3 DEF IsLoop
  <2> QED BY <2>4
<1>3. S = Nat
  <2> HIDE DEF S
  <2>1. S \in SUBSET Nat
    BY DEF S
  <2> QED BY <1>1, <1>2, <2>1, SetInduction
<1> QED BY <1>3

LEMMA EventsKeep ==
  ASSUME NEW graph, Consistent(graph), NEW list \in Seq(Connections), NEW threshold
  PROVE  Consistent(processEvents(graph, list, threshold))
<1> DEFINE loop == CHOOSE f : f = [k \in 0 .. Len(list) |->
                     IF k = 0 THEN graph ELSE processEvent(f[k - 1], list[k], threshold)]
<1>1. Len(list) \in Nat
  OBVIOUS
<1>2. loop = [k \in 0 .. Len(list) |-> IF k = 0 THEN graph ELSE processEvent(loop[k - 1], list[k], threshold)]
  BY <1>1, LoopRuns DEF IsLoop
<1>3. processEvents(graph, list, threshold) = loop[Len(list)]
  BY DEF processEvents
<1> HIDE DEF loop
<1> DEFINE S == {n \in Nat : n <= Len(list) => Consistent(loop[n])}
<1>4. 0 \in S
  <2>1. loop[0] = graph
    BY <1>1, <1>2
  <2> QED BY <2>1
<1>5. ASSUME NEW n \in S PROVE n + 1 \in S
  <2> SUFFICES ASSUME n + 1 <= Len(list) PROVE Consistent(loop[n + 1])
    OBVIOUS
  <2>1. n + 1 \in 0 .. Len(list) /\ n + 1 # 0 /\ n + 1 - 1 = n /\ Consistent(loop[n])
    BY <1>1
  <2>2. loop[n + 1] = processEvent(loop[n], list[n + 1], threshold)
    BY <1>2, <2>1
  <2> QED BY <2>1, <2>2, EventKeeps
<1>6. S = Nat
  <2> HIDE DEF S
  <2>1. S \in SUBSET Nat
    BY DEF S
  <2> QED BY <1>4, <1>5, <2>1, SetInduction
<1>7. Consistent(loop[Len(list)])
  BY <1>1, <1>6
<1> QED BY <1>3, <1>7

-----------------------------------------------------------------------------
(* The map.                                                                    *)
MapInv ==
  /\ GraphInv
  /\ events \in Seq(Connections) /\ snapshotData \in Snapshots \cup {NoSnapshot}

LEMMA EmptyGraph == Consistent([nodes |-> NoMap, edges |-> NoMap])
BY DEF Consistent, GraphOK, Joined, Agrees, NoMap

\* The effects leave a graph, whatever was changed.
LEMMA EffectsKeep ==
  ASSUME MapInv, GraphEffects, events' \in Seq(Connections), snapshotData' \in Snapshots \cup {NoSnapshot}
  PROVE  MapInv'
<1> DEFINE reset == collapseEphemeral' # collapseEphemeral
           graph == IF reset THEN [nodes |-> NoMap, edges |-> NoMap] ELSE [nodes |-> nodes, edges |-> edges]
           list == IF snapshotData' # NoSnapshot THEN snapshotData' ELSE events'
           threshold == ephemeralPortThreshold(collapseEphemeral')
           new == IF reset \/ eventVersion' # lastProcessedVersion
                  THEN processEvents(graph, list, threshold) ELSE graph
<1>1. nodes' = new.nodes /\ edges' = new.edges
  BY DEF GraphEffects
<1>2. Consistent(graph)
  BY EmptyGraph DEF MapInv, GraphInv, Consistent
<1>3. list \in Seq(Connections)
  BY MapAssumption
<1> HIDE DEF graph, list, threshold
<1>4. Consistent(new)
  BY <1>2, <1>3, EventsKeep
<1> HIDE DEF new
<1>5. GraphOK(nodes', edges')
  BY <1>1, <1>4 DEF Consistent
<1> QED BY <1>5 DEF MapInv, GraphInv

LEMMA MapStep == MapInv /\ [MapNext]_mapVars => MapInv'
<1> SUFFICES ASSUME MapInv, [MapNext]_mapVars PROVE MapInv'
  OBVIOUS
<1>1. ASSUME NEW batch \in Seq(Connections), Connect(batch) PROVE MapInv'
  <2> DEFINE all == batch \o events
             n == IF Len(all) < capacity THEN Len(all) ELSE capacity
  <2>1. all \in Seq(Connections)
    BY DEF MapInv
  <2>2. n \in Nat /\ n <= Len(all)
    <3> HIDE DEF all
    <3> QED BY <2>1, MapAssumption
  <2>3. events' = SubSeq(all, 1, n)
    BY <1>1 DEF Connect
  <2> HIDE DEF all, n
  <2>4. events' \in Seq(Connections)
    BY <2>1, <2>2, <2>3
  <2> QED BY <1>1, <2>4, EffectsKeep DEF Connect, MapInv
<1>2. ASSUME NEW list \in Snapshots, NewSnapshot(list) PROVE MapInv'
  BY <1>2, EffectsKeep DEF NewSnapshot, MapInv
<1>3. ASSUME NEW list \in Snapshots, SelectSnapshot(list) PROVE MapInv'
  BY <1>3, EffectsKeep DEF SelectSnapshot, MapInv
<1>4. CASE ToggleCollapse
  BY <1>4, EffectsKeep DEF ToggleCollapse, MapInv
<1>5. ASSUME NEW id, NEW place, handleNodeDragStop(id, place) PROVE MapInv'
  BY <1>5 DEF handleNodeDragStop, MapInv, GraphInv
<1>6. CASE ActivityTimer
  <2>1. /\ nodes' = [id \in DOMAIN nodes |-> Faded(nodes[id])]
        /\ edges' = [e \in DOMAIN edges |-> Older(edges[e], EdgeTimeout)]
    BY <1>6 DEF ActivityTimer, updateActivityStates, Faded
  <2>2. GraphOK(nodes, edges)
    BY DEF MapInv, GraphInv
  <2>3. GraphOK(nodes', edges')
    BY <2>1, <2>2, FadingKeeps
  <2> QED BY <1>6, <2>3 DEF ActivityTimer, MapInv, GraphInv
<1>7. CASE UNCHANGED mapVars
  BY <1>7 DEF mapVars, MapInv, GraphInv
<1>8. \A a, b \in Connections : <<a>> \in Seq(Connections) /\ <<a, b>> \in Seq(Connections)
  OBVIOUS
<1> QED BY <1>1, <1>2, <1>3, <1>4, <1>5, <1>6, <1>7, <1>8 DEF MapNext

\* Nodes, handles and edges are one graph, whatever was counted, reset or faded,
\* in whichever order: every connection counts once at each of its ends, its
\* edge and their nodes, and nothing is active at an end that has faded
\* (networkMapConfig.ts:400-475, 485-535).
THEOREM GraphAlwaysConsistent == MapSpec => []GraphConsistent
<1>1. MapInit => MapInv
  BY EmptyGraph DEF MapInit, MapInv, GraphInv, Consistent
<1>2. MapInv => GraphConsistent
  BY DEF MapInv, GraphInv, GraphConsistent, GraphOK, NodeOK, Joined, Agrees
<1> QED BY <1>1, <1>2, MapStep, PTL DEF MapSpec

-----------------------------------------------------------------------------
(* The chart.                                                                  *)
ChartInv == ChartIsCurrent /\ topologyKey = networkMapTopologyKey(nodes)

\* Graphs with one key have the same nodes.
LEMMA KeyNamesNodes ==
  ASSUME NEW all, NEW others, networkMapTopologyKey(all) = networkMapTopologyKey(others)
  PROVE  DOMAIN all = DOMAIN others
<1>1. ASSUME NEW f, NEW g, networkMapTopologyKey(f) = networkMapTopologyKey(g), NEW id \in DOMAIN f
      PROVE  id \in DOMAIN g
  <2>1. <<networkNodeNamespace(id), id, Cardinality(DOMAIN f[id].handles)>> \in networkMapTopologyKey(g)
    BY <1>1 DEF networkMapTopologyKey
  <2>2. PICK x \in DOMAIN g :
          <<networkNodeNamespace(id), id, Cardinality(DOMAIN f[id].handles)>>
            = <<networkNodeNamespace(x), x, Cardinality(DOMAIN g[x].handles)>>
    BY <2>1 DEF networkMapTopologyKey
  <2> QED BY <2>2
<1> QED BY <1>1

\* A layout with these positions.
Layout(all, positions) ==
  [id \in DOMAIN all |->
    [parent |-> networkNodeNamespace(id), data |-> all[id],
     position |-> IF id \in DOMAIN positions THEN positions[id] ELSE "auto"]]

LEMMA NewLayout ==
  ASSUME NEW all, NEW positions
  PROVE  Placed(layoutNetworkMap(all), [id \in DOMAIN positions \cap DOMAIN all |-> positions[id]])
           = Layout(all, [id \in DOMAIN positions \cap DOMAIN all |-> positions[id]])
BY DEF Placed, layoutNetworkMap, Layout

\* Refreshing a layout with these positions is laying out anew.
LEMMA RefreshedLayout ==
  ASSUME NEW all, NEW others, NEW positions, DOMAIN all = DOMAIN others,
         NEW list, list = Layout(others, positions)
  PROVE  Placed([id \in DOMAIN list |->
                   [list[id] EXCEPT !.data = IF id \in DOMAIN all THEN all[id] ELSE @]], positions)
           = Layout(all, positions)
<1> DEFINE refreshed == [id \in DOMAIN list |->
                   [list[id] EXCEPT !.data = IF id \in DOMAIN all THEN all[id] ELSE @]]
           Where(id) == IF id \in DOMAIN positions THEN positions[id] ELSE "auto"
<1>1. DOMAIN list = DOMAIN all
  BY DEF Layout
<1>2. ASSUME NEW id \in DOMAIN all
      PROVE  [refreshed[id] EXCEPT !.position = IF id \in DOMAIN positions THEN positions[id] ELSE @]
               = [parent |-> networkNodeNamespace(id), data |-> all[id], position |-> Where(id)]
  <2>1. list[id] = [parent |-> networkNodeNamespace(id), data |-> others[id], position |-> Where(id)]
    BY DEF Layout
  <2>2. refreshed[id] = [parent |-> networkNodeNamespace(id), data |-> all[id], position |-> Where(id)]
    BY <1>1, <2>1
  <2> HIDE DEF refreshed
  <2> QED BY <2>2
<1>3. DOMAIN refreshed = DOMAIN all
  BY <1>1
<1> HIDE DEF refreshed
<1>4. Placed(refreshed, positions)
        = [id \in DOMAIN all |-> [refreshed[id] EXCEPT
             !.position = IF id \in DOMAIN positions THEN positions[id] ELSE @]]
  BY <1>3 DEF Placed
<1>5. Placed(refreshed, positions) = Layout(all, positions)
  BY <1>2, <1>4 DEF Layout
<1> QED BY <1>5 DEF refreshed

\* The effect of a change of the graph draws it, whatever the graph is now.
LEMMA EffectDraws ==
  ASSUME ChartInv, LayoutEffect
  PROVE  ChartInv'
<1> DEFINE key == networkMapTopologyKey(nodes')
           kept == [id \in DOMAIN userPositions \cap DOMAIN nodes' |-> userPositions[id]]
<1>1. topologyKey' = networkMapTopologyKey(nodes)'
  BY DEF LayoutEffect, networkMapTopologyKey, networkNodeNamespace
<1>2. layoutedNodes' = Layout(nodes', userPositions')
  <2>1. CASE DOMAIN nodes' = {}
    <3>1. layoutedNodes' = NoMap
      BY <2>1 DEF LayoutEffect
    <3> QED BY <2>1, <3>1 DEF Layout, NoMap
  <2>2. CASE DOMAIN nodes' # {} /\ key # topologyKey
    <3>1. userPositions' = kept /\ layoutedNodes' = Placed(layoutNetworkMap(nodes'), kept)
      BY <2>2 DEF LayoutEffect
    <3> QED BY <3>1, NewLayout
  <2>3. CASE DOMAIN nodes' # {} /\ key = topologyKey
    <3>1. DOMAIN nodes' = DOMAIN nodes
      BY <2>3, KeyNamesNodes DEF ChartInv
    <3>2. layoutedNodes = Layout(nodes, userPositions)
      BY DEF ChartInv, ChartIsCurrent, Layout
    <3>3. /\ userPositions' = userPositions
          /\ layoutedNodes' = Placed([id \in DOMAIN layoutedNodes |->
               [layoutedNodes[id] EXCEPT !.data = IF id \in DOMAIN nodes' THEN nodes'[id] ELSE @]], userPositions)
      BY <2>3 DEF LayoutEffect
    <3> QED BY <3>1, <3>2, <3>3, RefreshedLayout
  <2> QED BY <2>1, <2>2, <2>3
<1> QED BY <1>1, <1>2 DEF ChartInv, ChartIsCurrent, Layout, networkNodeNamespace

LEMMA DragKeeps ==
  ASSUME ChartInv, NEW id \in DOMAIN layoutedNodes, NEW place, handleNodeDragStop(id, place)
  PROVE  ChartInv'
<1>1. layoutedNodes' = [layoutedNodes EXCEPT ![id].position = place]
      /\ userPositions' = With(userPositions, id, place) /\ UNCHANGED <<nodes, topologyKey>>
  BY DEF handleNodeDragStop
<1>2. layoutedNodes = Layout(nodes, userPositions)
  BY DEF ChartInv, ChartIsCurrent, Layout
<1>3. DOMAIN layoutedNodes' = DOMAIN nodes
  BY <1>1, <1>2 DEF Layout
<1>4. ASSUME NEW x \in DOMAIN nodes PROVE layoutedNodes'[x] = Layout(nodes, userPositions')[x]
  <2>1. CASE x = id
    BY <1>1, <1>2, <2>1 DEF Layout, With
  <2>2. CASE x # id
    BY <1>1, <1>2, <2>2 DEF Layout, With
  <2> QED BY <2>1, <2>2
<1>5. layoutedNodes' = Layout(nodes, userPositions')
  BY <1>1, <1>2, <1>3, <1>4 DEF Layout
<1> QED BY <1>1, <1>5 DEF ChartInv, ChartIsCurrent, Layout, networkMapTopologyKey, networkNodeNamespace

LEMMA ChartStep == ChartInv /\ [MapNext]_mapVars => ChartInv'
<1> SUFFICES ASSUME ChartInv, [MapNext]_mapVars PROVE ChartInv'
  OBVIOUS
<1>1. ASSUME NEW a \in Connections, Connect(<<a>>) PROVE ChartInv'
  BY <1>1, EffectDraws DEF Connect, GraphEffects
<1>2. ASSUME NEW a \in Connections, NEW b \in Connections, Connect(<<a, b>>) PROVE ChartInv'
  BY <1>2, EffectDraws DEF Connect, GraphEffects
<1>3. ASSUME NEW list \in Snapshots, NewSnapshot(list) PROVE ChartInv'
  BY <1>3, EffectDraws DEF NewSnapshot, GraphEffects
<1>4. ASSUME NEW list \in Snapshots, SelectSnapshot(list) PROVE ChartInv'
  BY <1>4, EffectDraws DEF SelectSnapshot, GraphEffects
<1>5. CASE ToggleCollapse
  BY <1>5, EffectDraws DEF ToggleCollapse, GraphEffects
<1>6. ASSUME NEW id \in DOMAIN layoutedNodes, NEW place \in Places, handleNodeDragStop(id, place)
      PROVE  ChartInv'
  BY <1>6, DragKeeps
<1>7. CASE ActivityTimer
  BY <1>7, EffectDraws DEF ActivityTimer
<1>8. CASE UNCHANGED mapVars
  BY <1>8 DEF mapVars, ChartInv, ChartIsCurrent, networkMapTopologyKey, networkNodeNamespace
<1> QED BY <1>1, <1>2, <1>3, <1>4, <1>5, <1>6, <1>7, <1>8 DEF MapNext

\* The chart draws the nodes of the graph with their data, each where the user
\* dragged it, whether it is laid out again or only refreshed
\* (NetworkMapChart.svelte:44-76).
THEOREM ChartAlwaysCurrent == MapSpec => []ChartIsCurrent
<1>1. MapInit => ChartInv
  BY DEF MapInit, ChartInv, ChartIsCurrent, NoMap, networkMapTopologyKey
<1> QED BY <1>1, ChartStep, PTL DEF MapSpec, ChartInv

-----------------------------------------------------------------------------
(* The DNS map *)

\* What every model has: keys name workloads and resolvers, and an edge joins two.
Keyed(S) == \A a, b \in S : a.key = b.key => a = b
ModelOK(model) ==
  /\ Keyed(model.workloads) /\ Keyed(model.resolvers)
  /\ \A e \in model.edges :
       /\ \E w \in model.workloads : w.key = e.workload
       /\ \E r \in model.resolvers : r.key = e.resolver

\* The model of any rows is one.
LEMMA ModelsOK ==
  ASSUME NEW rows PROVE ModelOK(buildDnsMapModel(rows))
<1> DEFINE all == ToSet(rows)
           identity == [row \in all |-> resolveRequesterIdentity(rows, row)]
           workload == [row \in all |-> computeWorkloadKey(identity[row], row.requester)]
           WorkloadRows(w) == Among(rows, {row \in all : workload[row] = w})
           ResolverRows(r) == Among(rows, {row \in all : row.nameserver = r})
           References(r) == Among(rows, {row \in all : row.nameserver = r /\ row.resolverK8s # None})
           EdgeRows(e) == Among(rows, {row \in all : <<workload[row], row.nameserver>> = e})
           Workload(w) == [key |-> w, data |-> DataOf(WorkloadRows(w)),
                           namespace |-> NamespaceOf(identity[WorkloadRows(w)[1]])]
           Resolver(r) == [key |-> r, data |-> DataOf(ResolverRows(r)),
                           k8s |-> IF References(r) = <<>> THEN None ELSE References(r)[1].resolverK8s]
           Edge(e) == [workload |-> e[1], resolver |-> e[2], data |-> DataOf(EdgeRows(e))]
           model == [workloads |-> {Workload(w) : w \in {workload[row] : row \in all}},
                     resolvers |-> {Resolver(r) : r \in {row.nameserver : row \in all}},
                     edges |-> {Edge(e) : e \in {<<workload[row], row.nameserver>> : row \in all}}]
<1>1. buildDnsMapModel(rows) = model
  BY Zenon DEF buildDnsMapModel
<1>2. /\ \A w : Workload(w).key = w
      /\ \A r : Resolver(r).key = r
      /\ \A e : Edge(e).workload = e[1] /\ Edge(e).resolver = e[2]
  OBVIOUS
<1> HIDE DEF Workload, Resolver, Edge, workload, all
<1>3. Keyed(model.workloads) /\ Keyed(model.resolvers)
  BY <1>2 DEF Keyed
<1>4. ASSUME NEW e \in model.edges
      PROVE  /\ \E w \in model.workloads : w.key = e.workload
             /\ \E r \in model.resolvers : r.key = e.resolver
  <2>1. PICK row \in all : e = Edge(<<workload[row], row.nameserver>>)
    OBVIOUS
  <2>2. Workload(workload[row]) \in model.workloads /\ Resolver(row.nameserver) \in model.resolvers
    OBVIOUS
  <2>3. e.workload = workload[row] /\ e.resolver = row.nameserver
    BY <1>2, <2>1
  <2> QED BY <1>2, <2>2, <2>3
<1> QED BY <1>1, <1>3, <1>4 DEF ModelOK

\* The layout shows the model: its nodes, each with its own data, and its edges.
Lays(layout, model) ==
  /\ layout.workloads = {[group |-> w.namespace, node |-> w.key, shows |-> w] : w \in model.workloads}
  /\ \A r \in layout.resolvers : r = [place |-> r.place, node |-> r.node, shows |-> r.shows]
  /\ {[node |-> r.node, shows |-> r.shows] : r \in layout.resolvers} =
       {[node |-> r.key, shows |-> r] : r \in model.resolvers}
  /\ layout.edges = model.edges

\* Laying a model out shows it.
LEMMA LayoutLays ==
  ASSUME NEW model PROVE Lays(layoutDnsMapModel(model), model)
<1> DEFINE layout == layoutDnsMapModel(model)
           Node(r) == [place |-> PlaceOf(r, model), node |-> r.key, shows |-> r]
<1>1. /\ layout.workloads = {[group |-> w.namespace, node |-> w.key, shows |-> w] : w \in model.workloads}
      /\ layout.resolvers = {Node(r) : r \in model.resolvers}
      /\ layout.edges = model.edges
  BY DEF layoutDnsMapModel
<1> HIDE DEF layout
<1>2. \A r : /\ Node(r) = [place |-> Node(r).place, node |-> Node(r).node, shows |-> Node(r).shows]
             /\ Node(r).node = r.key /\ Node(r).shows = r
  OBVIOUS
<1> HIDE DEF Node
<1>3. {[node |-> r.node, shows |-> r.shows] : r \in layout.resolvers} =
        {[node |-> r.key, shows |-> r] : r \in model.resolvers}
  BY <1>1, <1>2
<1> QED BY <1>1, <1>2, <1>3 DEF Lays, layout

\* New data for the same topology shows the new model: its key names every node
\* and its namespace.
LEMMA RefreshLays ==
  ASSUME NEW old, NEW model, ModelOK(model), dnsMapTopologyKey(old) = dnsMapTopologyKey(model),
         NEW layout, Lays(layout, old)
  PROVE  Lays(refreshDnsMapLayoutData(layout, model), model)
<1> DEFINE new == refreshDnsMapLayoutData(layout, model)
           WorkloadAt(k) == CHOOSE m \in model.workloads : m.key = k
           ResolverAt(k) == CHOOSE m \in model.resolvers : m.key = k
<1>1. /\ {<<w.namespace, w.key>> : w \in old.workloads} = {<<w.namespace, w.key>> : w \in model.workloads}
      /\ {r.key : r \in old.resolvers} = {r.key : r \in model.resolvers}
  BY DEF dnsMapTopologyKey
<1>2. /\ new.workloads = {[w EXCEPT !.shows = WorkloadAt(w.node)] : w \in layout.workloads}
      /\ new.resolvers = {[r EXCEPT !.shows = ResolverAt(r.node)] : r \in layout.resolvers}
      /\ new.edges = model.edges
  BY DEF refreshDnsMapLayoutData
<1>3. /\ \A m \in model.workloads : WorkloadAt(m.key) = m
      /\ \A m \in model.resolvers : ResolverAt(m.key) = m
  BY DEF ModelOK, Keyed
<1> HIDE DEF new, WorkloadAt, ResolverAt
<1>4. new.workloads = {[group |-> w.namespace, node |-> w.key, shows |-> w] : w \in model.workloads}
  <2>1. new.workloads = {[group |-> w.namespace, node |-> w.key, shows |-> WorkloadAt(w.key)] : w \in old.workloads}
    <3> DEFINE Laid(w) == [group |-> w.namespace, node |-> w.key, shows |-> w]
               Refreshed(v) == [v EXCEPT !.shows = WorkloadAt(v.node)]
    <3>1. \A w : Refreshed(Laid(w)) = [group |-> w.namespace, node |-> w.key, shows |-> WorkloadAt(w.key)]
      OBVIOUS
    <3>2. layout.workloads = {Laid(w) : w \in old.workloads}
      BY DEF Lays
    <3>3. new.workloads = {Refreshed(v) : v \in layout.workloads}
      BY <1>2
    <3> HIDE DEF Laid, Refreshed
    <3> QED BY <3>1, <3>2, <3>3
  <2>2. ASSUME NEW w \in old.workloads
        PROVE  \E m \in model.workloads : m.namespace = w.namespace /\ m.key = w.key /\ WorkloadAt(w.key) = m
    <3>1. PICK m \in model.workloads : <<m.namespace, m.key>> = <<w.namespace, w.key>>
      BY <1>1
    <3> QED BY <1>3, <3>1
  <2>3. ASSUME NEW m \in model.workloads
        PROVE  \E w \in old.workloads : m.namespace = w.namespace /\ m.key = w.key /\ WorkloadAt(w.key) = m
    <3>1. PICK w \in old.workloads : <<m.namespace, m.key>> = <<w.namespace, w.key>>
      BY <1>1
    <3> QED BY <1>3, <3>1
  <2> QED BY <2>1, <2>2, <2>3
<1>5. \A r \in new.resolvers : r = [place |-> r.place, node |-> r.node, shows |-> r.shows]
  <2> SUFFICES ASSUME NEW s \in new.resolvers PROVE s = [place |-> s.place, node |-> s.node, shows |-> s.shows]
    OBVIOUS
  <2>1. PICK r \in layout.resolvers : s = [r EXCEPT !.shows = ResolverAt(r.node)]
    BY <1>2
  <2>2. r = [place |-> r.place, node |-> r.node, shows |-> r.shows]
    BY DEF Lays
  <2>3. s = [place |-> r.place, node |-> r.node, shows |-> ResolverAt(r.node)]
    BY <2>1, <2>2
  <2> QED BY <2>3
<1>6. {[node |-> r.node, shows |-> r.shows] : r \in new.resolvers} =
        {[node |-> r.key, shows |-> r] : r \in model.resolvers}
  <2> DEFINE Refreshed(r) == [r EXCEPT !.shows = ResolverAt(r.node)]
  <2>1. ASSUME NEW r \in layout.resolvers
        PROVE  Refreshed(r).node = r.node /\ Refreshed(r).shows = ResolverAt(r.node)
    <3>1. r = [place |-> r.place, node |-> r.node, shows |-> r.shows]
      BY DEF Lays
    <3> QED BY <3>1
  <2>2. {[node |-> r.node, shows |-> r.shows] : r \in new.resolvers} =
          {[node |-> r.node, shows |-> ResolverAt(r.node)] : r \in layout.resolvers}
    <3>1. new.resolvers = {Refreshed(r) : r \in layout.resolvers}
      BY <1>2
    <3> HIDE DEF Refreshed
    <3> QED BY <2>1, <3>1
  <2>3. {r.node : r \in layout.resolvers} = {r.key : r \in old.resolvers}
    <3>1. ASSUME NEW r \in layout.resolvers PROVE r.node \in {q.key : q \in old.resolvers}
      <4>1. [node |-> r.node, shows |-> r.shows] \in {[node |-> q.key, shows |-> q] : q \in old.resolvers}
        BY SMTT(30) DEF Lays
      <4>2. PICK q \in old.resolvers : [node |-> r.node, shows |-> r.shows] = [node |-> q.key, shows |-> q]
        BY <4>1
      <4> QED BY <4>2
    <3>2. ASSUME NEW q \in old.resolvers PROVE q.key \in {r.node : r \in layout.resolvers}
      <4>1. PICK r \in layout.resolvers : [node |-> r.node, shows |-> r.shows] = [node |-> q.key, shows |-> q]
        BY DEF Lays
      <4> QED BY <4>1
    <3> QED BY <3>1, <3>2
  <2>4. {r.node : r \in layout.resolvers} = {r.key : r \in model.resolvers}
    BY <1>1, <2>3
  <2>5. {[node |-> r.node, shows |-> ResolverAt(r.node)] : r \in layout.resolvers} =
          {[node |-> k, shows |-> ResolverAt(k)] : k \in {r.node : r \in layout.resolvers}}
    OBVIOUS
  <2>6. {[node |-> k, shows |-> ResolverAt(k)] : k \in {r.key : r \in model.resolvers}} =
          {[node |-> r.key, shows |-> r] : r \in model.resolvers}
    BY <1>3
  <2> QED BY <2>2, <2>4, <2>5, <2>6
<1> QED BY <1>2, <1>4, <1>5, <1>6 DEF Lays, new

-----------------------------------------------------------------------------
\* The kept layout shows the model of now, and its topology is the model's.
DnsMapInv ==
  cached # None =>
    LET model == FullModel(result.transactions, namespaceFilter)
    IN Lays(cached.layout, model) /\ cached.topology = dnsMapTopologyKey(model)

\* Whatever is shown next, drawn anew or refreshed.
LEMMA ShowKeeps ==
  ASSUME DnsMapInv, NEW shown, NEW namespace, Show(shown, namespace) PROVE DnsMapInv'
<1> DEFINE old   == FullModel(result.transactions, namespaceFilter)
           model == FullModel(shown.transactions, namespace)
<1>1. FullModel(result.transactions, namespaceFilter)' = model
  BY DEF Show, FullModel
<1>2. ModelOK(model)
  BY ModelsOK DEF FullModel
<1>3. cached' = Drawn(model)
  BY DEF Show
<1>4. DnsMapInv => (cached # None => Lays(cached.layout, old) /\ cached.topology = dnsMapTopologyKey(old))
  BY DEF DnsMapInv
<1> HIDE DEF old, model
<1>5. cached'.topology = dnsMapTopologyKey(model)
  BY <1>3 DEF Drawn
<1>6. Lays(cached'.layout, model)
  <2>1. CASE cached # None /\ cached.topology = dnsMapTopologyKey(model)
    <3>1. cached'.layout = refreshDnsMapLayoutData(cached.layout, model)
      BY <1>3, <2>1 DEF Drawn
    <3> QED BY <1>2, <1>4, <2>1, <3>1, RefreshLays
  <2>2. CASE ~(cached # None /\ cached.topology = dnsMapTopologyKey(model))
    <3>1. cached'.layout = layoutDnsMapModel(model)
      BY <1>3, <2>2 DEF Drawn
    <3> QED BY <3>1, LayoutLays
  <2> QED BY <2>1, <2>2
<1> QED BY <1>1, <1>5, <1>6 DEF DnsMapInv

LEMMA SameKeeps == ASSUME DnsMapInv, Same PROVE DnsMapInv'
BY DEF Same, DnsMapInv, FullModel

\* Every handler shows something or leaves what is shown.
LEMMA DnsMapStep == DnsMapInv /\ [DnsNext]_dnsVars => DnsMapInv'
<1> SUFFICES ASSUME DnsMapInv, [DnsNext]_dnsVars PROVE DnsMapInv'
  OBVIOUS
<1>1. ASSUME NEW ring, NEW run, NEW at, recompute(ring, run, at) PROVE DnsMapInv'
  BY <1>1, ShowKeeps DEF recompute
<1>2. ASSUME NEW ring, NEW run, NEW at, scheduleRecompute(ring, run, at) PROVE DnsMapInv'
  BY <1>1, <1>2, SameKeeps DEF scheduleRecompute
<1>3. ASSUME NEW ring, NEW run, NEW tab, Effect(ring, run, tab) PROVE DnsMapInv'
  BY <1>1, <1>2, <1>3, SameKeeps DEF Effect
<1>4. CASE Arrive
  BY <1>3, <1>4 DEF Arrive
<1>5. CASE GadgetStops
  BY <1>3, <1>5 DEF GadgetStops
<1>6. CASE SwitchTab
  BY <1>3, <1>6 DEF SwitchTab
<1>7. CASE RefreshTimer
  BY <1>1, <1>7 DEF RefreshTimer
<1>8. CASE SweepTimer
  BY <1>1, <1>8, SameKeeps DEF SweepTimer
<1>9. CASE FilterNamespace
  BY <1>9, ShowKeeps DEF FilterNamespace
<1>10. CASE Tick
  BY <1>10, SameKeeps DEF Tick, Same
<1>11. CASE UNCHANGED dnsVars
  BY <1>11, SameKeeps DEF dnsVars, Same
<1> QED BY <1>4, <1>5, <1>6, <1>7, <1>8, <1>9, <1>10, <1>11 DEF DnsNext

\* Both ends of an edge with an issue stay when the rest is filtered away.
LEMMA MapFollows == DnsMapInv => MapIsCurrent
<1> SUFFICES ASSUME DnsMapInv, cached # None PROVE MapIsCurrent
  BY DEF MapIsCurrent
<1> DEFINE model  == FullModel(result.transactions, namespaceFilter)
           layout == cached.layout
           issuesModel == filterDnsMapModelIssuesOnly(model)
           issues == filterDnsMapLayout(layout, issuesModel)
<1>1. Lays(layout, model) /\ ModelOK(model)
  BY ModelsOK DEF DnsMapInv, FullModel
<1> HIDE DEF model
<1>2. ASSUME NEW e \in model.edges, e.data.counts.severity \in {"warning", "error"}
      PROVE  /\ e \in issues.edges
             /\ \E w \in issues.workloads : w.node = e.workload
             /\ \E r \in issues.resolvers : r.node = e.resolver
  <2>1. e \in issuesModel.edges
    BY <1>2 DEF filterDnsMapModelIssuesOnly
  <2>2. PICK w \in model.workloads, r \in model.resolvers : w.key = e.workload /\ r.key = e.resolver
    BY <1>1 DEF ModelOK
  <2>3. w \in issuesModel.workloads /\ r \in issuesModel.resolvers
    BY <2>1, <2>2 DEF filterDnsMapModelIssuesOnly
  <2>4. PICK v \in layout.workloads : v.node = w.key
    <3>1. [group |-> w.namespace, node |-> w.key, shows |-> w] \in layout.workloads
      BY <1>1 DEF Lays
    <3> QED BY <3>1
  <2>5. PICK s \in layout.resolvers : s.node = r.key
    <3>1. PICK s \in layout.resolvers : [node |-> s.node, shows |-> s.shows] = [node |-> r.key, shows |-> r]
      BY <1>1 DEF Lays
    <3> QED BY <3>1
  <2>6. e \in layout.edges
    BY <1>1 DEF Lays
  <2> HIDE DEF issuesModel, layout
  <2>7. e \in issues.edges /\ v \in issues.workloads /\ s \in issues.resolvers
    BY <2>1, <2>3, <2>4, <2>5, <2>6 DEF filterDnsMapLayout
  <2> QED BY <2>2, <2>4, <2>5, <2>7
<1> QED BY <1>1, <1>2 DEF MapIsCurrent, Lays, model

\* The DNS map shows what the rows say: each node and edge with its own data,
\* however often it was refreshed instead of laid out.
THEOREM DnsMapAlwaysCurrent == DnsSpec => []MapIsCurrent
<1>1. DnsInit => DnsMapInv
  BY DEF DnsInit, DnsMapInv
<1>2. DnsMapInv /\ [DnsNext]_dnsVars => DnsMapInv'
  BY DnsMapStep
<1>3. DnsMapInv => MapIsCurrent
  BY MapFollows
<1> QED BY <1>1, <1>2, <1>3, PTL DEF DnsSpec

-----------------------------------------------------------------------------
(* Loops over lists *)

LoopOf(S, first, last, next) ==
  \E f \in [0 .. last -> S] : f[0] = first /\ \A n \in 1 .. last : f[n] = next[<<f[n - 1], n>>]

\* A loop whose steps stay in a set runs to its end.
LEMMA LoopExists ==
  ASSUME NEW S, NEW first \in S, NEW last \in Nat, NEW next \in [S \X (1 .. last) -> S]
  PROVE  LoopOf(S, first, last, next)
<1> DEFINE Runs(f, m) == f[0] = first /\ \A n \in 1 .. m : f[n] = next[<<f[n - 1], n>>]
           T == {m \in Nat : m <= last => \E f \in [0 .. m -> S] : Runs(f, m)}
<1>1. 0 \in T
  <2> DEFINE f == [n \in 0 .. 0 |-> first]
  <2>1. f \in [0 .. 0 -> S] /\ Runs(f, 0)
    OBVIOUS
  <2> QED BY <2>1
<1>2. ASSUME NEW m \in T PROVE m + 1 \in T
  <2> SUFFICES ASSUME m + 1 <= last PROVE \E g \in [0 .. m + 1 -> S] : Runs(g, m + 1)
    OBVIOUS
  <2>1. m \in Nat /\ m + 1 \in 1 .. last /\ m \in 0 .. m /\ m # m + 1 /\ (m + 1) - 1 = m
    OBVIOUS
  <2>2. PICK f \in [0 .. m -> S] : Runs(f, m)
    BY <2>1
  <2> DEFINE g == [n \in 0 .. m + 1 |-> IF n = m + 1 THEN next[<<f[m], m + 1>>] ELSE f[n]]
  <2>3. \A n \in 0 .. m : g[n] = f[n]
    OBVIOUS
  <2>4. g[m + 1] = next[<<f[m], m + 1>>] /\ f[m] \in S
    BY <2>1
  <2>5. g \in [0 .. m + 1 -> S]
    <3>1. next[<<f[m], m + 1>>] \in S
      BY <2>1, <2>4
    <3>2. \A n \in 0 .. m + 1 : n = m + 1 \/ n \in 0 .. m
      BY <2>1
    <3> QED BY <3>1, <3>2
  <2> HIDE DEF g
  <2>6. ASSUME NEW n \in 1 .. m + 1 PROVE g[n] = next[<<g[n - 1], n>>]
    <3>1. CASE n = m + 1
      BY <2>1, <2>3, <2>4, <3>1
    <3>2. CASE n # m + 1
      <4>1. n \in 1 .. m /\ n \in 0 .. m /\ n - 1 \in 0 .. m
        BY <2>1, <3>2
      <4> QED BY <2>2, <2>3, <4>1
    <3> QED BY <3>1, <3>2
  <2>7. g[0] = first
    BY <2>1, <2>2, <2>3
  <2> QED BY <2>5, <2>6, <2>7
<1>3. T = Nat
  <2> HIDE DEF T
  <2>1. T \in SUBSET Nat
    BY DEF T
  <2> QED BY <1>1, <1>2, <2>1, SetInduction
<1>4. \E f \in [0 .. last -> S] : Runs(f, last)
  <2>1. last \in T => \E f \in [0 .. last -> S] : Runs(f, last)
    OBVIOUS
  <2> HIDE DEF T
  <2> QED BY <1>3, <2>1
<1> QED BY <1>4 DEF LoopOf

LEMMA LoopStays ==
  ASSUME NEW S, NEW last \in Nat, NEW g, g[0] \in S, \A n \in 1 .. last : g[n - 1] \in S => g[n] \in S
  PROVE  g[last] \in S
<1> DEFINE T == {n \in Nat : n <= last => g[n] \in S}
<1>1. 0 \in T
  OBVIOUS
<1>2. ASSUME NEW n \in T PROVE n + 1 \in T
  <2>1. n + 1 <= last => n + 1 \in 1 .. last /\ n <= last /\ (n + 1) - 1 = n
    OBVIOUS
  <2> QED BY <2>1
<1>3. T = Nat
  <2> HIDE DEF T
  <2>1. T \in SUBSET Nat
    BY DEF T
  <2> QED BY <1>1, <1>2, <2>1, SetInduction
<1>4. last \in T => g[last] \in S
  OBVIOUS
<1> HIDE DEF T
<1> QED BY <1>3, <1>4

-----------------------------------------------------------------------------
(* The entries of a list that are in a set *)

Kept(before, x, X) == IF x \in X THEN Append(before, x) ELSE before
KeptLoop(f, list, X, last) == f[0] = <<>> /\ \A n \in 1 .. last : f[n] = Kept(f[n - 1], list[n], X)

AmongLoop(list, X, last) == \E f : KeptLoop(f, list, X, last) /\ Among(list, X) = f[last]

LEMMA AmongIsLoop ==
  ASSUME NEW R, NEW list \in Seq(R), NEW last \in Nat, last = Len(list), NEW X
  PROVE  AmongLoop(list, X, last)
<1> DEFINE Loop(f) == f = [n \in 0 .. last |-> IF n = 0 THEN <<>> ELSE Kept(f[n - 1], list[n], X)]
           loop == CHOOSE f : Loop(f)
           next == [p \in Seq(R) \X (1 .. last) |-> Kept(p[1], list[p[2]], X)]
<1>1. next \in [Seq(R) \X (1 .. last) -> Seq(R)]
  <2>1. \A b \in Seq(R), n \in 1 .. last : Kept(b, list[n], X) \in Seq(R)
    BY DEF Kept
  <2> QED BY <2>1
<1>2. PICK f \in [0 .. last -> Seq(R)] : f[0] = <<>> /\ \A n \in 1 .. last : f[n] = next[<<f[n - 1], n>>]
  <2>1. <<>> \in Seq(R)
    OBVIOUS
  <2> HIDE DEF next
  <2>2. LoopOf(Seq(R), <<>>, last, next)
    BY <1>1, <2>1, LoopExists
  <2> QED BY <2>2 DEF LoopOf
<1>3. \A n \in 1 .. last : f[n] = Kept(f[n - 1], list[n], X)
  <2>1. \A n \in 1 .. last : f[n - 1] \in Seq(R)
    OBVIOUS
  <2> QED BY <1>2, <2>1
<1>4. Loop(f)
  <2>1. \A n \in 0 .. last : n = 0 \/ n \in 1 .. last
    OBVIOUS
  <2>2. \A n \in 0 .. last : f[n] = IF n = 0 THEN <<>> ELSE Kept(f[n - 1], list[n], X)
    BY <1>2, <1>3, <2>1
  <2>3. f = [n \in 0 .. last |-> f[n]]
    OBVIOUS
  <2> QED BY <2>2, <2>3
<1>5. Loop(loop)
  <2> HIDE DEF Loop
  <2> QED BY <1>4, Zenon
<1>6. Among(list, X) = loop[last]
  BY Zenon DEF Among, Kept
<1> HIDE DEF loop
<1>7. \A n \in 0 .. last : loop[n] = IF n = 0 THEN <<>> ELSE Kept(loop[n - 1], list[n], X)
  BY <1>5
<1>8. KeptLoop(loop, list, X, last)
  <2>1. \A n \in 1 .. last : n \in 0 .. last /\ n # 0
    OBVIOUS
  <2>2. 0 \in 0 .. last
    OBVIOUS
  <2> QED BY <1>7, <2>1, <2>2 DEF KeptLoop
<1> DEFINE T == {n \in Nat : n <= last => loop[n] = f[n]}
<1>9. T = Nat
  <2>1. 0 \in T
    BY <1>2, <1>8 DEF KeptLoop
  <2>2. ASSUME NEW n \in T PROVE n + 1 \in T
    <3>1. n + 1 <= last => n + 1 \in 1 .. last /\ n <= last /\ (n + 1) - 1 = n
      OBVIOUS
    <3> QED BY <1>3, <1>8, <3>1 DEF KeptLoop
  <2> HIDE DEF T
  <2>3. T \in SUBSET Nat
    BY DEF T
  <2> QED BY <2>1, <2>2, <2>3, SetInduction
<1>10. loop[last] = f[last]
  <2>1. last \in T => loop[last] = f[last]
    OBVIOUS
  <2> HIDE DEF T
  <2> QED BY <1>9, <2>1
<1>11. KeptLoop(f, list, X, last)
  BY <1>2, <1>3 DEF KeptLoop
<1> QED BY <1>6, <1>10, <1>11, Zenon DEF AmongLoop

LEMMA AmongEmpty == ASSUME NEW X PROVE Among(<<>>, X) = <<>>
<1>1. <<>> \in Seq({}) /\ Len(<<>>) = 0 /\ 0 \in Nat
  OBVIOUS
<1>2. PICK none : none = <<>> /\ none \in Seq({}) /\ 0 = Len(none)
  BY <1>1
<1>3. AmongLoop(none, X, 0)
  BY <1>1, <1>2, AmongIsLoop
<1>4. PICK f : KeptLoop(f, none, X, 0) /\ Among(none, X) = f[0]
  BY <1>3 DEF AmongLoop
<1> QED BY <1>2, <1>4 DEF KeptLoop

\* One entry more is kept or not.
LEMMA AmongAppend ==
  ASSUME NEW R, NEW list \in Seq(R), NEW x \in R, NEW X
  PROVE  Among(Append(list, x), X) = Kept(Among(list, X), x, X)
<1>1. PICK last \in Nat : last = Len(list)
  OBVIOUS
<1>2. PICK more : more = Append(list, x)
  OBVIOUS
<1>3. /\ more \in Seq(R) /\ Len(more) = last + 1 /\ more[last + 1] = x
      /\ \A n \in 1 .. last : more[n] = list[n]
  BY <1>1, <1>2, AppendProperties
<1>4. PICK f : KeptLoop(f, list, X, last) /\ Among(list, X) = f[last]
  BY <1>1, AmongIsLoop DEF AmongLoop
<1>5. PICK g : KeptLoop(g, more, X, last + 1) /\ Among(more, X) = g[last + 1]
  <2>1. PICK end \in Nat : end = last + 1
    OBVIOUS
  <2>2. AmongLoop(more, X, end)
    BY <1>3, <2>1, AmongIsLoop
  <2> QED BY <2>1, <2>2 DEF AmongLoop
<1> DEFINE T == {n \in Nat : n <= last => g[n] = f[n]}
<1>6. T = Nat
  <2>1. 0 \in T
    BY <1>4, <1>5 DEF KeptLoop
  <2>2. ASSUME NEW n \in T PROVE n + 1 \in T
    <3> SUFFICES ASSUME n + 1 <= last PROVE g[n + 1] = f[n + 1]
      OBVIOUS
    <3>1. /\ n + 1 \in 1 .. last /\ n + 1 \in 1 .. last + 1 /\ n <= last /\ (n + 1) - 1 = n
          /\ g[n] = f[n]
      OBVIOUS
    <3>2. g[n + 1] = Kept(g[n], more[n + 1], X) /\ f[n + 1] = Kept(f[n], list[n + 1], X)
      BY <1>4, <1>5, <3>1 DEF KeptLoop
    <3> QED BY <1>3, <3>1, <3>2
  <2> HIDE DEF T
  <2>3. T \in SUBSET Nat
    BY DEF T
  <2> QED BY <2>1, <2>2, <2>3, SetInduction
<1>7. g[last] = f[last]
  <2>1. last \in T => g[last] = f[last]
    OBVIOUS
  <2> HIDE DEF T
  <2> QED BY <1>6, <2>1
<1>8. g[last + 1] = Kept(g[last], more[last + 1], X)
  <2>1. last + 1 \in 1 .. last + 1 /\ (last + 1) - 1 = last
    OBVIOUS
  <2> QED BY <1>5, <2>1 DEF KeptLoop
<1> QED BY <1>2, <1>3, <1>4, <1>5, <1>7, <1>8
-----------------------------------------------------------------------------
(* Induction over lists *)

\* A set of lists that has the empty one, and each list with one entry more,
\* has them all.
LEMMA ListInduction ==
  ASSUME NEW R, NEW P \in SUBSET Seq(R), <<>> \in P,
         \A s \in P, x \in R : Append(s, x) \in P
  PROVE  P = Seq(R)
<1> DEFINE T == {n \in Nat : \A s \in Seq(R) : Len(s) = n => s \in P}
<1>1. 0 \in T
  <2>1. \A s \in Seq(R) : Len(s) = 0 => s = <<>>
    OBVIOUS
  <2> QED BY <2>1
<1>2. ASSUME NEW n \in T PROVE n + 1 \in T
  <2> SUFFICES ASSUME NEW s \in Seq(R), Len(s) = n + 1 PROVE s \in P
    OBVIOUS
  <2>1. s # <<>>
    OBVIOUS
  <2>2. PICK t \in Seq(R), x \in R : s = Append(t, x)
    BY <2>1, SequenceEmptyOrAppend
  <2>3. Len(t) = n
    BY <2>2
  <2> QED BY <2>2, <2>3
<1>3. T = Nat
  <2> HIDE DEF T
  <2>1. T \in SUBSET Nat
    BY DEF T
  <2> QED BY <1>1, <1>2, <2>1, SetInduction
<1>4. ASSUME NEW s \in Seq(R) PROVE s \in P
  <2>1. Len(s) \in T
    <3> HIDE DEF T
    <3> QED BY <1>3
  <2> QED BY <2>1
<1> QED BY <1>4

LEMMA AppendRange ==
  ASSUME NEW R, NEW list \in Seq(R), NEW x \in R
  PROVE  ToSet(Append(list, x)) = ToSet(list) \cup {x} /\ Append(list, x) \in Seq(R)
<1>1. PICK last \in Nat : last = Len(list) /\ DOMAIN list = 1 .. last
  OBVIOUS
<1>2. PICK more : more = Append(list, x)
  OBVIOUS
<1>3. /\ more \in Seq(R) /\ DOMAIN more = 1 .. last + 1 /\ more[last + 1] = x
      /\ \A n \in 1 .. last : more[n] = list[n]
  BY <1>1, <1>2
<1>4. \A n \in 1 .. last + 1 : n = last + 1 \/ n \in 1 .. last
  OBVIOUS
<1>5. \A n \in 1 .. last : n \in 1 .. last + 1
  OBVIOUS
<1>6. last + 1 \in 1 .. last + 1
  OBVIOUS
<1>7. ToSet(more) = ToSet(list) \cup {x}
  BY <1>1, <1>3, <1>4, <1>5, <1>6 DEF ToSet
<1> QED BY <1>2, <1>3, <1>7

\* What is kept is what was there and is in the set.
LEMMA AmongType ==
  ASSUME NEW R, NEW list \in Seq(R), NEW X
  PROVE  Among(list, X) \in Seq(R \cap X) /\ ToSet(Among(list, X)) = ToSet(list) \cap X
<1> DEFINE OK(s) == Among(s, X) \in Seq(R \cap X) /\ ToSet(Among(s, X)) = ToSet(s) \cap X
           P == {s \in Seq(R) : OK(s)}
<1>1. OK(<<>>)
  <2>1. <<>> \in Seq(R \cap X) /\ ToSet(<<>>) = {}
    BY DEF ToSet
  <2> QED BY <2>1, AmongEmpty
<1>2. ASSUME NEW s \in P, NEW x \in R PROVE OK(Append(s, x))
  <2>1. PICK some \in Seq(R \cap X) : some = Among(s, X)
    OBVIOUS
  <2>2. PICK kept : kept = Among(Append(s, x), X)
    OBVIOUS
  <2>3. kept = Kept(some, x, X)
    BY <2>1, <2>2, AmongAppend
  <2>4. ToSet(some) = ToSet(s) \cap X
    BY <2>1
  <2>5. ToSet(Append(s, x)) = ToSet(s) \cup {x}
    BY AppendRange
  <2>6. CASE x \in X
    <3>1. kept = Append(some, x) /\ x \in R \cap X
      BY <2>3, <2>6 DEF Kept
    <3>2. kept \in Seq(R \cap X) /\ ToSet(kept) = ToSet(some) \cup {x}
      <4>1. PICK S : S = R \cap X /\ some \in Seq(S) /\ x \in S
        BY <3>1
      <4>2. ToSet(Append(some, x)) = ToSet(some) \cup {x} /\ Append(some, x) \in Seq(S)
        BY <4>1, AppendRange
      <4> QED BY <3>1, <4>1, <4>2
    <3> QED BY <2>2, <2>4, <2>5, <3>1, <3>2
  <2>7. CASE x \notin X
    <3>1. kept = some
      BY <2>3, <2>7 DEF Kept
    <3> QED BY <2>2, <2>4, <2>5, <2>7, <3>1
  <2> QED BY <2>6, <2>7
<1>3. P = Seq(R)
  <2>1. P \in SUBSET Seq(R) /\ <<>> \in P /\ \A s \in P, x \in R : Append(s, x) \in P
    <3>1. <<>> \in Seq(R) /\ \A s \in Seq(R), x \in R : Append(s, x) \in Seq(R)
      OBVIOUS
    <3> HIDE DEF OK
    <3> QED BY <1>1, <1>2, <3>1
  <2> HIDE DEF P
  <2> QED BY <2>1, ListInduction
<1> QED BY <1>3

LEMMA AmongOf ==
  ASSUME NEW R, NEW list \in Seq(R), NEW X
  PROVE  Among(list, X) \in Seq(R)
<1>1. PICK kept \in Seq(R \cap X) : kept = Among(list, X)
  BY AmongType
<1>2. kept \in Seq(R)
  BY SeqMonotonic
<1> QED BY <1>1, <1>2

\* Keeping twice.
LEMMA AmongTwice ==
  ASSUME NEW R, NEW list \in Seq(R), NEW X, NEW Y
  PROVE  Among(Among(list, X), Y) = Among(list, X \cap Y)
<1> DEFINE OK(s) == Among(Among(s, X), Y) = Among(s, X \cap Y)
           P == {s \in Seq(R) : OK(s)}
<1>1. OK(<<>>)
  BY AmongEmpty
<1>2. ASSUME NEW s \in P, NEW x \in R PROVE OK(Append(s, x))
  <2>1. PICK some \in Seq(R) : some = Among(s, X)
    <3>1. Among(s, X) \in Seq(R)
      BY AmongOf
    <3> QED BY <3>1
  <2>2. Among(Append(s, x), X) = Kept(some, x, X)
    BY <2>1, AmongAppend
  <2>3. Among(Append(s, x), X \cap Y) = Kept(Among(some, Y), x, X \cap Y)
    BY <2>1, AmongAppend
  <2>4. CASE x \in X
    <3>1. Among(Append(s, x), X) = Append(some, x)
      BY <2>2, <2>4 DEF Kept
    <3>2. Among(Append(some, x), Y) = Kept(Among(some, Y), x, Y)
      BY <2>1, AmongAppend
    <3> QED BY <2>3, <2>4, <3>1, <3>2 DEF Kept
  <2>5. CASE x \notin X
    <3> QED BY <2>1, <2>2, <2>3, <2>5 DEF Kept
  <2> QED BY <2>4, <2>5
<1>3. P = Seq(R)
  <2>1. P \in SUBSET Seq(R) /\ <<>> \in P /\ \A s \in P, x \in R : Append(s, x) \in P
    <3>1. <<>> \in Seq(R) /\ \A s \in Seq(R), x \in R : Append(s, x) \in Seq(R)
      OBVIOUS
    <3> HIDE DEF OK
    <3> QED BY <1>1, <1>2, <3>1
  <2> HIDE DEF P
  <2> QED BY <2>1, ListInduction
<1> QED BY <1>3

HeadKept(list, X) == list # <<>> /\ list[1] \in X => Among(list, X) # <<>> /\ Among(list, X)[1] = list[1]

\* The first entry stays the first.
LEMMA AmongHead ==
  ASSUME NEW R, NEW list \in Seq(R), NEW X
  PROVE  HeadKept(list, X)
<1> DEFINE P == {s \in Seq(R) : HeadKept(s, X)}
<1>1. HeadKept(<<>>, X)
  BY DEF HeadKept
<1>2. ASSUME NEW s \in P, NEW x \in R PROVE HeadKept(Append(s, x), X)
  <2>1. PICK some \in Seq(R) : some = Among(s, X)
    <3>1. Among(s, X) \in Seq(R)
      BY AmongOf
    <3> QED BY <3>1
  <2>2. PICK kept : kept = Among(Append(s, x), X) /\ kept = Kept(some, x, X)
    BY <2>1, AmongAppend
  <2>3. CASE s = <<>>
    <3>1. some = <<>>
      BY <2>1, <2>3, AmongEmpty
    <3>2. Append(s, x)[1] = x /\ Append(some, x)[1] = x /\ Append(some, x) # <<>>
      BY <2>3, <3>1
    <3> QED BY <2>2, <3>1, <3>2 DEF HeadKept, Kept
  <2>4. CASE s # <<>>
    <3> SUFFICES ASSUME Append(s, x)[1] \in X PROVE kept # <<>> /\ kept[1] = s[1]
      <4>1. Append(s, x)[1] = s[1]
        BY <2>4
      <4> QED BY <2>2, <4>1 DEF HeadKept
    <3>1. some # <<>> /\ some[1] = s[1]
      <4>1. Append(s, x)[1] = s[1]
        BY <2>4
      <4> QED BY <2>1, <2>4, <4>1 DEF HeadKept
    <3>2. Append(some, x) # <<>> /\ Append(some, x)[1] = s[1]
      BY <3>1
    <3> QED BY <2>2, <3>1, <3>2 DEF Kept
  <2> QED BY <2>3, <2>4
<1>3. P = Seq(R)
  <2>1. P \in SUBSET Seq(R) /\ <<>> \in P /\ \A s \in P, x \in R : Append(s, x) \in P
    <3>1. <<>> \in Seq(R) /\ \A s \in Seq(R), x \in R : Append(s, x) \in Seq(R)
      OBVIOUS
    <3> QED BY <1>1, <1>2, <3>1
  <2> HIDE DEF P
  <2> QED BY <2>1, ListInduction
<1> QED BY <1>3
-----------------------------------------------------------------------------
(* The namespace filter of the DNS map *)

IdentityOK(meta) == Full(meta) \/ NamespaceOf(meta) = None
Identified(rows) ==
  rows \in Seq(ToSet(rows)) /\ \A row \in ToSet(rows) : IdentityOK(row.requesterMeta)

KnownRows(rows, row) == {r \in ToSet(rows) : r.requester = row.requester /\ Full(r.requesterMeta)}

LEMMA ResolvedIs ==
  ASSUME NEW rows, NEW row
  PROVE  LET known == Among(rows, KnownRows(rows, row))
         IN resolveRequesterIdentity(rows, row) =
              IF Full(row.requesterMeta) \/ known = <<>> THEN row.requesterMeta ELSE known[1].requesterMeta
BY Zenon DEF resolveRequesterIdentity, KnownRows

\* The first of the rows that are kept is one of them.
LEMMA FirstKept ==
  ASSUME NEW rows, rows \in Seq(ToSet(rows)), NEW X
  PROVE  /\ Among(rows, X) # <<>> => Among(rows, X)[1] \in ToSet(rows) \cap X
         /\ ToSet(rows) \cap X # {} => Among(rows, X) # <<>>
<1>1. PICK kept : kept = Among(rows, X)
  OBVIOUS
<1>2. PICK R : R = ToSet(rows)
  OBVIOUS
<1>3. kept \in Seq(R \cap X) /\ ToSet(kept) = R \cap X
  BY <1>1, <1>2, AmongType
<1>4. kept # <<>> => kept[1] \in R \cap X
  BY <1>3
<1>5. kept = <<>> => ToSet(kept) = {}
  BY DEF ToSet
<1> QED BY <1>1, <1>2, <1>3, <1>4, <1>5

LEMMA ResolvedOK ==
  ASSUME NEW rows, Identified(rows), NEW row \in ToSet(rows)
  PROVE  IdentityOK(resolveRequesterIdentity(rows, row))
<1>1. PICK known : known = Among(rows, KnownRows(rows, row))
  OBVIOUS
<1>2. known # <<>> => known[1] \in ToSet(rows)
  BY <1>1, FirstKept DEF Identified
<1> QED BY <1>1, <1>2, ResolvedIs DEF Identified

OfNamespace(rows, namespace) ==
  {row \in ToSet(rows) : NamespaceOf(resolveRequesterIdentity(rows, row)) = namespace}

\* A row that the filter keeps is known by the rows kept as by all: the row it
\* borrows from is of the same namespace.
LEMMA KeptIdentity ==
  ASSUME NEW rows, rows \in Seq(ToSet(rows)), NEW namespace, NEW row \in OfNamespace(rows, namespace)
  PROVE  resolveRequesterIdentity(Among(rows, OfNamespace(rows, namespace)), row) =
           resolveRequesterIdentity(rows, row)
<1>0. PICK X : X = OfNamespace(rows, namespace) /\ row \in X
  OBVIOUS
<1>1. PICK R : R = ToSet(rows) /\ rows \in Seq(R) /\ X \subseteq R
  BY <1>0 DEF OfNamespace
<1>2. PICK K : K = KnownRows(rows, row)
  OBVIOUS
<1>3. PICK known \in Seq(R) : known = Among(rows, K)
  BY <1>1, AmongOf
<1>4. PICK sub : sub = Among(rows, X)
  OBVIOUS
<1>5. ToSet(sub) = X
  <2>1. ToSet(Among(rows, X)) = ToSet(rows) \cap X
    BY <1>1, AmongType
  <2> QED BY <1>1, <1>4, <2>1
<1>6. KnownRows(sub, row) = X \cap K /\ K \subseteq R
  BY <1>1, <1>2, <1>5 DEF KnownRows
<1>7. Among(sub, X \cap K) = Among(known, X)
  <2>1. Among(sub, X \cap K) = Among(rows, X \cap (X \cap K))
    BY <1>1, <1>4, AmongTwice
  <2>2. Among(known, X) = Among(rows, K \cap X)
    BY <1>1, <1>3, AmongTwice
  <2>3. X \cap (X \cap K) = K \cap X
    OBVIOUS
  <2> QED BY <2>1, <2>2, <2>3
<1>8. PICK some : some = Among(known, X)
  OBVIOUS
<1>9. resolveRequesterIdentity(rows, row) =
        IF Full(row.requesterMeta) \/ known = <<>> THEN row.requesterMeta ELSE known[1].requesterMeta
  BY <1>2, <1>3, ResolvedIs
<1>10. resolveRequesterIdentity(sub, row) =
         IF Full(row.requesterMeta) \/ some = <<>> THEN row.requesterMeta ELSE some[1].requesterMeta
  BY <1>6, <1>7, <1>8, ResolvedIs
<1>11. Full(row.requesterMeta) => resolveRequesterIdentity(sub, row) = resolveRequesterIdentity(rows, row)
  BY <1>9, <1>10
<1>12. ASSUME known = <<>> PROVE resolveRequesterIdentity(sub, row) = resolveRequesterIdentity(rows, row)
  <2>1. some = <<>>
    BY <1>8, <1>12, AmongEmpty
  <2> QED BY <1>9, <1>10, <1>12, <2>1
<1>13. ASSUME ~Full(row.requesterMeta), known # <<>>
       PROVE  resolveRequesterIdentity(sub, row) = resolveRequesterIdentity(rows, row)
  <2>1. PICK first : first = known[1]
    OBVIOUS
  <2>2. first \in R /\ first \in K
    BY <1>1, <1>3, <1>13, <2>1, FirstKept
  <2>3. Full(first.requesterMeta)
    BY <1>2, <2>2 DEF KnownRows
  <2>4. resolveRequesterIdentity(rows, first) = first.requesterMeta
    BY <2>3, ResolvedIs
  <2>5. resolveRequesterIdentity(rows, row) = first.requesterMeta
    BY <1>9, <1>13, <2>1
  <2>6. NamespaceOf(resolveRequesterIdentity(rows, row)) = namespace
    BY DEF OfNamespace
  <2>7. first \in X
    BY <1>0, <1>1, <2>2, <2>4, <2>5, <2>6 DEF OfNamespace
  <2>8. some # <<>> /\ some[1] = first
    BY <1>3, <1>8, <1>13, <2>1, <2>7, AmongHead DEF HeadKept
  <2> QED BY <1>10, <1>13, <2>5, <2>8
<1> QED BY <1>0, <1>4, <1>11, <1>12, <1>13

KeyOf(rows, row) == computeWorkloadKey(resolveRequesterIdentity(rows, row), row.requester)
RowsOf(rows, w) == {row \in ToSet(rows) : KeyOf(rows, row) = w}
WorkloadOf(rows, w) ==
  [key |-> w, data |-> DataOf(Among(rows, RowsOf(rows, w))),
   namespace |-> NamespaceOf(resolveRequesterIdentity(rows, Among(rows, RowsOf(rows, w))[1]))]
KeysOf(rows) == {KeyOf(rows, row) : row \in ToSet(rows)}

LEMMA FirstOfWorkload ==
  ASSUME NEW rows, rows \in Seq(ToSet(rows)), NEW w \in KeysOf(rows)
  PROVE  Among(rows, RowsOf(rows, w))[1] \in RowsOf(rows, w)
<1>1. PICK row \in ToSet(rows) : w = KeyOf(rows, row)
  BY DEF KeysOf
<1>2. PICK X : X = RowsOf(rows, w)
  OBVIOUS
<1>3. row \in ToSet(rows) \cap X
  BY <1>1, <1>2 DEF RowsOf
<1> QED BY <1>2, <1>3, FirstKept

LEMMA WorkloadsAre ==
  ASSUME NEW rows, rows \in Seq(ToSet(rows))
  PROVE  buildDnsMapModel(rows).workloads = {WorkloadOf(rows, w) : w \in KeysOf(rows)}
<1> DEFINE all == ToSet(rows)
           identity == [row \in all |-> resolveRequesterIdentity(rows, row)]
           workload == [row \in all |-> computeWorkloadKey(identity[row], row.requester)]
           Mine(w) == Among(rows, {row \in all : workload[row] = w})
<1>1. buildDnsMapModel(rows).workloads =
        {[key |-> w, data |-> DataOf(Mine(w)), namespace |-> NamespaceOf(identity[Mine(w)[1]])]
           : w \in {workload[row] : row \in all}}
  BY DEF buildDnsMapModel
<1>2. \A row \in all : identity[row] = resolveRequesterIdentity(rows, row) /\ workload[row] = KeyOf(rows, row)
  BY DEF KeyOf
<1> HIDE DEF identity, workload
<1>3. {workload[row] : row \in all} = KeysOf(rows)
  BY <1>2 DEF KeysOf
<1>4. ASSUME NEW w PROVE {row \in all : workload[row] = w} = RowsOf(rows, w)
  BY <1>2 DEF RowsOf
<1>5. ASSUME NEW w \in KeysOf(rows)
      PROVE  [key |-> w, data |-> DataOf(Mine(w)), namespace |-> NamespaceOf(identity[Mine(w)[1]])]
               = WorkloadOf(rows, w)
  <2>1. Mine(w) = Among(rows, RowsOf(rows, w))
    BY <1>4
  <2>2. Mine(w)[1] \in all
    BY <2>1, FirstOfWorkload DEF RowsOf
  <2> HIDE DEF Mine
  <2>3. identity[Mine(w)[1]] = resolveRequesterIdentity(rows, Mine(w)[1])
    BY <1>2, <2>2
  <2> QED BY <2>1, <2>3 DEF WorkloadOf
<1> HIDE DEF Mine, all
<1> QED BY <1>1, <1>3, <1>5

\* A workload is of one namespace: its key names it, or none of its rows has one.
LEMMA NamespaceOfKey ==
  ASSUME NEW m, NEW a, NEW n, NEW b, IdentityOK(m), IdentityOK(n),
         computeWorkloadKey(m, a) = computeWorkloadKey(n, b)
  PROVE  NamespaceOf(m) = NamespaceOf(n)
<1>1. Full(m) => computeWorkloadKey(m, a) = <<"pod", m.ns, m.pod>> /\ NamespaceOf(m) = m.ns
  BY DEF computeWorkloadKey, Full, NamespaceOf
<1>2. Full(n) => computeWorkloadKey(n, b) = <<"pod", n.ns, n.pod>> /\ NamespaceOf(n) = n.ns
  BY DEF computeWorkloadKey, Full, NamespaceOf
<1>3. ~Full(m) => computeWorkloadKey(m, a)[1] # "pod" /\ NamespaceOf(m) = None
  BY DEF computeWorkloadKey, IdentityOK
<1>4. ~Full(n) => computeWorkloadKey(n, b)[1] # "pod" /\ NamespaceOf(n) = None
  BY DEF computeWorkloadKey, IdentityOK
<1>5. \A x, y : <<"pod", x, y>>[1] = "pod" /\ <<"pod", x, y>>[2] = x
  OBVIOUS
<1> QED BY <1>1, <1>2, <1>3, <1>4, <1>5

\* Filtering rows by namespace filters the workloads.
LEMMA FilterWorkloads ==
  ASSUME NEW rows, Identified(rows), NEW namespace, namespace # None
  PROVE  FullModel(rows, namespace).workloads =
           {w \in FullModel(rows, None).workloads : w.namespace = namespace}
<1>1. PICK X : X = OfNamespace(rows, namespace)
  OBVIOUS
<1>0. X = {row \in ToSet(rows) : NamespaceOf(resolveRequesterIdentity(rows, row)) = namespace}
  BY <1>1 DEF OfNamespace
<1>2. PICK sub : sub = Among(rows, X)
  OBVIOUS
<1>3. rows \in Seq(ToSet(rows)) /\ X \subseteq ToSet(rows)
  BY <1>0 DEF Identified
<1>4. sub \in Seq(ToSet(sub)) /\ ToSet(sub) = X
  <2>1. sub \in Seq(ToSet(rows) \cap X) /\ ToSet(sub) = ToSet(rows) \cap X
    BY <1>2, <1>3, AmongType
  <2> QED BY <1>3, <2>1
<1>5. FullModel(rows, namespace) = buildDnsMapModel(sub)
  BY <1>0, <1>2 DEF FullModel, filterTransactionsByNamespace
<1>6. FullModel(rows, None) = buildDnsMapModel(rows)
  BY DEF FullModel, filterTransactionsByNamespace
<1>7. ASSUME NEW row \in X PROVE resolveRequesterIdentity(sub, row) = resolveRequesterIdentity(rows, row)
  <2>1. rows \in Seq(ToSet(rows))
    BY <1>3
  <2>2. resolveRequesterIdentity(Among(rows, X), row) = resolveRequesterIdentity(rows, row)
    BY <1>1, <2>1, KeptIdentity
  <2> QED BY <1>2, <2>2
<1>8. ASSUME NEW row \in X PROVE KeyOf(sub, row) = KeyOf(rows, row)
  BY <1>7 DEF KeyOf
<1>9. ASSUME NEW row \in ToSet(rows), NEW other \in ToSet(rows), KeyOf(rows, row) = KeyOf(rows, other)
      PROVE  row \in X <=> other \in X
  <2>1. /\ IdentityOK(resolveRequesterIdentity(rows, row))
        /\ IdentityOK(resolveRequesterIdentity(rows, other))
    BY ResolvedOK
  <2>2. NamespaceOf(resolveRequesterIdentity(rows, row)) = NamespaceOf(resolveRequesterIdentity(rows, other))
    BY <1>9, <2>1, NamespaceOfKey DEF KeyOf
  <2> QED BY <1>0, <2>2
<1>10. KeysOf(sub) = {KeyOf(rows, row) : row \in X}
  BY <1>4, <1>8 DEF KeysOf
<1>11. KeysOf(sub) \subseteq KeysOf(rows)
  BY <1>3, <1>10 DEF KeysOf
<1>12. ASSUME NEW w \in KeysOf(sub) PROVE RowsOf(sub, w) = RowsOf(rows, w) /\ RowsOf(rows, w) \subseteq X
  <2>1. PICK row \in X : w = KeyOf(rows, row)
    BY <1>10
  <2>2. \A other \in ToSet(rows) : KeyOf(rows, other) = w => other \in X
    BY <1>3, <1>9, <2>1
  <2> QED BY <1>3, <1>4, <1>8, <2>2 DEF RowsOf
<1>13. ASSUME NEW w \in KeysOf(sub) PROVE Among(sub, RowsOf(sub, w)) = Among(rows, RowsOf(rows, w))
  <2>1. PICK Y : Y = RowsOf(rows, w) /\ Y = RowsOf(sub, w) /\ X \cap Y = Y
    BY <1>12
  <2>2. Among(sub, Y) = Among(rows, X \cap Y)
    BY <1>2, <1>3, AmongTwice
  <2> QED BY <2>1, <2>2
<1>14. ASSUME NEW w \in KeysOf(sub)
       PROVE  WorkloadOf(sub, w) = WorkloadOf(rows, w) /\ WorkloadOf(sub, w).namespace = namespace
  <2>1. PICK first : first = Among(rows, RowsOf(rows, w))[1] /\ first = Among(sub, RowsOf(sub, w))[1]
    BY <1>13
  <2>2. first \in X
    BY <1>4, <1>12, <2>1, FirstOfWorkload
  <2>3. resolveRequesterIdentity(sub, first) = resolveRequesterIdentity(rows, first)
    BY <1>7, <2>2
  <2>4. NamespaceOf(resolveRequesterIdentity(rows, first)) = namespace
    BY <1>0, <2>2
  <2> QED BY <1>13, <2>1, <2>3, <2>4 DEF WorkloadOf
<1>15. ASSUME NEW w \in KeysOf(rows), WorkloadOf(rows, w).namespace = namespace PROVE w \in KeysOf(sub)
  <2>1. PICK first : first = Among(rows, RowsOf(rows, w))[1]
    OBVIOUS
  <2>2. first \in ToSet(rows) /\ KeyOf(rows, first) = w
    BY <1>3, <2>1, FirstOfWorkload DEF RowsOf
  <2>3. NamespaceOf(resolveRequesterIdentity(rows, first)) = namespace
    BY <1>15, <2>1 DEF WorkloadOf
  <2> QED BY <1>0, <1>10, <2>2, <2>3
<1>16. buildDnsMapModel(sub).workloads = {WorkloadOf(sub, w) : w \in KeysOf(sub)}
  BY <1>4, WorkloadsAre
<1>17. buildDnsMapModel(rows).workloads = {WorkloadOf(rows, w) : w \in KeysOf(rows)}
  BY <1>3, WorkloadsAre
<1>18. {WorkloadOf(sub, w) : w \in KeysOf(sub)} =
         {m \in {WorkloadOf(rows, w) : w \in KeysOf(rows)} : m.namespace = namespace}
  <2> DEFINE Left == {WorkloadOf(sub, w) : w \in KeysOf(sub)}
             Right == {m \in {WorkloadOf(rows, w) : w \in KeysOf(rows)} : m.namespace = namespace}
  <2>1. ASSUME NEW m \in Left PROVE m \in Right
    BY <1>11, <1>14
  <2>2. ASSUME NEW m \in Right PROVE m \in Left
    BY <1>14, <1>15
  <2> QED BY <2>1, <2>2
<1> QED BY <1>5, <1>6, <1>16, <1>17, <1>18

-----------------------------------------------------------------------------
(* Sorting keeps what the list is of *)

\* Putting a row into a list.
LEMMA InsertAtHas ==
  ASSUME NEW R, NEW list \in Seq(R), NEW x \in R, NEW S \in SUBSET DOMAIN list
  PROVE  LET more == InsertAt(list, 1 + Cardinality(S), x)
         IN more \in Seq(R) /\ Len(more) = Len(list) + 1 /\ ToSet(more) = ToSet(list) \cup {x}
<1>1. PICK last \in Nat : last = Len(list) /\ DOMAIN list = 1 .. last
  OBVIOUS
<1>2. PICK c \in 0 .. last : c = Cardinality(S)
  <2>1. IsFiniteSet(1 .. last) /\ Cardinality(1 .. last) = last
    BY FS_Interval
  <2>2. IsFiniteSet(S) /\ Cardinality(S) \in Nat /\ Cardinality(S) <= last
    BY <1>1, <2>1, FS_Subset, FS_CardinalityType
  <2> QED BY <2>2
<1>3. PICK before \in Seq(R) : /\ before = SubSeq(list, 1, c) /\ Len(before) = c
                               /\ \A i \in 1 .. c : before[i] = list[i]
  <2>1. 1 \in Int /\ c \in Int /\ \A i \in 1 .. c : list[i] \in R
    BY <1>1, <1>2
  <2>2. /\ SubSeq(list, 1, c) \in Seq(R) /\ Len(SubSeq(list, 1, c)) = IF 1 <= c THEN c - 1 + 1 ELSE 0
        /\ \A i \in 1 .. c - 1 + 1 : SubSeq(list, 1, c)[i] = list[1 + i - 1]
    BY <2>1, SubSeqProperties
  <2>3. PICK b : b = SubSeq(list, 1, c)
    OBVIOUS
  <2>4. b \in Seq(R) /\ Len(b) = c
    BY <2>2, <2>3
  <2>5. ASSUME NEW i \in 1 .. c PROVE b[i] = list[i]
    <3>1. i \in 1 .. c - 1 + 1 /\ 1 + i - 1 = i
      OBVIOUS
    <3> QED BY <2>2, <2>3, <3>1
  <2> QED BY <2>3, <2>4, <2>5
<1>4. PICK after \in Seq(R) : /\ after = SubSeq(list, c + 1, last) /\ Len(after) = last - c
                              /\ \A i \in 1 .. last - c : after[i] = list[c + i]
  <2>1. c + 1 \in Int /\ last \in Int /\ \A i \in c + 1 .. last : list[i] \in R
    BY <1>1, <1>2
  <2>2. PICK a : a = SubSeq(list, c + 1, last)
    OBVIOUS
  <2>3. /\ a \in Seq(R) /\ Len(a) = IF c + 1 <= last THEN last - (c + 1) + 1 ELSE 0
        /\ \A i \in 1 .. last - (c + 1) + 1 : a[i] = list[(c + 1) + i - 1]
    BY <2>1, <2>2, SubSeqProperties
  <2>4. Len(a) = last - c
    BY <2>3
  <2>5. ASSUME NEW i \in 1 .. last - c PROVE a[i] = list[c + i]
    <3>1. i \in 1 .. last - (c + 1) + 1 /\ (c + 1) + i - 1 = c + i
      OBVIOUS
    <3> QED BY <2>3, <3>1
  <2> QED BY <2>2, <2>3, <2>4, <2>5
<1>5. PICK front : /\ front = before \o <<x>> /\ front \in Seq(R) /\ Len(front) = c + 1
                   /\ \A i \in 1 .. c : front[i] = list[i]
                   /\ front[c + 1] = x
  <2>1. PICK b : b = Append(before, x)
    OBVIOUS
  <2>2. /\ b \in Seq(R) /\ Len(b) = c + 1 /\ b[c + 1] = x
        /\ \A i \in 1 .. c : b[i] = before[i]
    BY <1>3, <2>1, AppendProperties
  <2>3. b = before \o <<x>>
    BY <2>1, AppendIsConcat
  <2>4. PICK joined : joined = before \o <<x>>
    OBVIOUS
  <2> QED BY <1>3, <2>2, <2>3, <2>4
<1>6. PICK more : more = front \o after
  OBVIOUS
<1>7. /\ more \in Seq(R) /\ Len(more) = last + 1
      /\ \A i \in 1 .. c + 1 : more[i] = front[i]
      /\ \A i \in 1 .. last - c : more[(c + 1) + i] = after[i]
  <2>1. /\ front \o after \in Seq(R) /\ Len(front \o after) = Len(front) + Len(after)
        /\ \A i \in 1 .. Len(front) + Len(after) : (front \o after)[i] =
              IF i <= Len(front) THEN front[i] ELSE after[i - Len(front)]
    BY <1>4, <1>5, ConcatProperties, SMTT(30)
  <2>2. /\ more \in Seq(R) /\ Len(more) = (c + 1) + (last - c)
        /\ \A i \in 1 .. (c + 1) + (last - c) : more[i] = IF i <= c + 1 THEN front[i] ELSE after[i - (c + 1)]
    BY <1>4, <1>5, <1>6, <2>1
  <2>3. (c + 1) + (last - c) = last + 1
    OBVIOUS
  <2>4. ASSUME NEW i \in 1 .. c + 1 PROVE more[i] = front[i]
    <3>1. i \in 1 .. last + 1 /\ i <= c + 1
      OBVIOUS
    <3> QED BY <2>2, <2>3, <3>1
  <2>5. ASSUME NEW i \in 1 .. last - c PROVE more[(c + 1) + i] = after[i]
    <3>1. (c + 1) + i \in 1 .. last + 1 /\ ~((c + 1) + i <= c + 1) /\ ((c + 1) + i) - (c + 1) = i
      OBVIOUS
    <3> QED BY <2>2, <2>3, <3>1
  <2> QED BY <2>2, <2>3, <2>4, <2>5
<1>8. InsertAt(list, 1 + Cardinality(S), x) = more
  <2>1. (1 + c) - 1 = c /\ 1 + c = c + 1
    BY <1>2
  <2> QED BY <1>1, <1>2, <1>3, <1>4, <1>5, <1>6, <2>1 DEF InsertAt
<1>9. /\ \A i \in 1 .. c : more[i] = list[i]
      /\ more[c + 1] = x
      /\ \A i \in c + 2 .. last + 1 : more[i] = list[i - 1]
  <2>1. \A i \in 1 .. c : more[i] = list[i]
    BY <1>5, <1>7
  <2>2. more[c + 1] = x
    BY <1>5, <1>7
  <2>3. ASSUME NEW i \in c + 2 .. last + 1 PROVE more[i] = list[i - 1]
    <3>1. i - (c + 1) \in 1 .. last - c /\ (c + 1) + (i - (c + 1)) = i /\ c + (i - (c + 1)) = i - 1
      OBVIOUS
    <3>2. more[(c + 1) + (i - (c + 1))] = after[i - (c + 1)]
      BY <1>7, <3>1
    <3>3. after[i - (c + 1)] = list[c + (i - (c + 1))]
      BY <1>4, <3>1
    <3> QED BY <3>1, <3>2, <3>3
  <2> QED BY <2>1, <2>2, <2>3
<1>10. DOMAIN more = 1 .. last + 1
  BY <1>7
<1>11. ASSUME NEW y PROVE y \in ToSet(more) <=> y \in ToSet(list) \cup {x}
  <2>1. ASSUME y \in ToSet(more) PROVE y \in ToSet(list) \cup {x}
    <3>1. PICK i \in 1 .. last + 1 : y = more[i]
      BY <1>10, <2>1 DEF ToSet
    <3>2. i \in 1 .. c \/ i = c + 1 \/ (i \in c + 2 .. last + 1 /\ i - 1 \in 1 .. last)
      BY <1>2
    <3>3. i \in 1 .. c => i \in 1 .. last
      BY <1>2
    <3> QED BY <1>1, <1>9, <3>1, <3>2, <3>3 DEF ToSet
  <2>2. ASSUME y \in ToSet(list) PROVE y \in ToSet(more)
    <3>1. PICK i \in 1 .. last : y = list[i]
      BY <1>1, <2>2 DEF ToSet
    <3>2. (i \in 1 .. c /\ i \in 1 .. last + 1) \/ (i + 1 \in c + 2 .. last + 1 /\ (i + 1) - 1 = i /\ i + 1 \in 1 .. last + 1)
      BY <1>2
    <3> QED BY <1>9, <1>10, <3>1, <3>2 DEF ToSet
  <2>3. x \in ToSet(more)
    <3>1. c + 1 \in 1 .. last + 1
      BY <1>2
    <3> QED BY <1>9, <1>10, <3>1 DEF ToSet
  <2> QED BY <2>1, <2>2, <2>3
<1>12. ToSet(more) = ToSet(list) \cup {x}
  BY <1>11
<1> QED BY <1>1, <1>7, <1>8, <1>12

LEMMA InsertAtType ==
  ASSUME NEW R, NEW list \in Seq(R), NEW x \in R, NEW S \in SUBSET DOMAIN list
  PROVE  InsertAt(list, 1 + Cardinality(S), x) \in Seq(R)
<1>1. PICK more : more = InsertAt(list, 1 + Cardinality(S), x)
  OBVIOUS
<1>2. more \in Seq(R)
  BY <1>1, InsertAtHas
<1> QED BY <1>1, <1>2

PutByTime(list, row) ==
  InsertAt(list, 1 + Cardinality({i \in DOMAIN list : primaryTime(list[i]) >= primaryTime(row)}), row)

SortLoop(rows, last) ==
  \E f : /\ f[0] = <<>> /\ \A n \in 1 .. last : f[n] = PutByTime(f[n - 1], rows[n])
         /\ sortNewestFirst(rows) = f[last]

LEMMA SortIsLoop ==
  ASSUME NEW R, NEW rows \in Seq(R), NEW last \in Nat, last = Len(rows), DOMAIN rows = 1 .. last
  PROVE  SortLoop(rows, last)
<1> DEFINE Loop(f) == f = [n \in 0 .. last |-> IF n = 0 THEN <<>> ELSE PutByTime(f[n - 1], rows[n])]
           loop == CHOOSE f : Loop(f)
           next == [p \in Seq(R) \X (1 .. last) |-> PutByTime(p[1], rows[p[2]])]
<1>2. next \in [Seq(R) \X (1 .. last) -> Seq(R)]
  <2>1. ASSUME NEW list \in Seq(R), NEW n \in 1 .. last PROVE PutByTime(list, rows[n]) \in Seq(R)
    <3>1. rows[n] \in R
      OBVIOUS
    <3> QED BY <3>1, InsertAtType DEF PutByTime
  <2> QED BY <2>1
<1>3. PICK f \in [0 .. last -> Seq(R)] : f[0] = <<>> /\ \A n \in 1 .. last : f[n] = next[<<f[n - 1], n>>]
  <2>1. <<>> \in Seq(R)
    OBVIOUS
  <2> HIDE DEF next
  <2>2. LoopOf(Seq(R), <<>>, last, next)
    BY <1>2, <2>1, LoopExists
  <2> QED BY <2>2 DEF LoopOf
<1>4. \A n \in 1 .. last : f[n] = PutByTime(f[n - 1], rows[n])
  <2>1. \A n \in 1 .. last : f[n - 1] \in Seq(R)
    OBVIOUS
  <2> QED BY <1>3, <2>1
<1>5. Loop(f)
  <2>1. \A n \in 0 .. last : n = 0 \/ n \in 1 .. last
    OBVIOUS
  <2>2. \A n \in 0 .. last : f[n] = IF n = 0 THEN <<>> ELSE PutByTime(f[n - 1], rows[n])
    BY <1>3, <1>4, <2>1
  <2>3. f = [n \in 0 .. last |-> f[n]]
    OBVIOUS
  <2> QED BY <2>2, <2>3
<1>6. Loop(loop)
  <2> HIDE DEF Loop
  <2> QED BY <1>5, Zenon
<1>7. sortNewestFirst(rows) = loop[last]
  BY Zenon DEF sortNewestFirst, PutByTime
<1> HIDE DEF loop
<1>8. \A n \in 0 .. last : loop[n] = IF n = 0 THEN <<>> ELSE PutByTime(loop[n - 1], rows[n])
  BY <1>6
<1>9. loop[0] = <<>>
  <2>1. 0 \in 0 .. last
    OBVIOUS
  <2> QED BY <1>8, <2>1
<1>10. \A n \in 1 .. last : loop[n] = PutByTime(loop[n - 1], rows[n])
  <2>1. \A n \in 1 .. last : n \in 0 .. last /\ n # 0
    OBVIOUS
  <2> QED BY <1>8, <2>1
<1> QED BY <1>7, <1>9, <1>10, Zenon DEF SortLoop

\* Sorting keeps every row once.
Sorted(list, rows, n) == Len(list) = n /\ ToSet(list) = {rows[i] : i \in 1 .. n}
LEMMA SortHas ==
  ASSUME NEW R, NEW rows \in Seq(R)
  PROVE  /\ sortNewestFirst(rows) \in Seq(R) /\ Len(sortNewestFirst(rows)) = Len(rows)
         /\ ToSet(sortNewestFirst(rows)) = ToSet(rows)
<1>1. PICK last \in Nat : last = Len(rows) /\ DOMAIN rows = 1 .. last
  OBVIOUS
<1>2. PICK f : /\ f[0] = <<>> /\ \A n \in 1 .. last : f[n] = PutByTime(f[n - 1], rows[n])
               /\ sortNewestFirst(rows) = f[last]
  BY <1>1, SortIsLoop DEF SortLoop
<1> DEFINE T == {n \in Nat : n <= last => f[n] \in Seq(R) /\ Sorted(f[n], rows, n)}
<1>3. 0 \in T
  <2>1. <<>> \in Seq(R) /\ Len(<<>>) = 0 /\ ToSet(<<>>) = {} /\ {rows[i] : i \in 1 .. 0} = {}
    BY DEF ToSet
  <2> QED BY <1>2, <2>1 DEF Sorted
<1>4. ASSUME NEW n \in T PROVE n + 1 \in T
  <2> SUFFICES ASSUME n + 1 <= last PROVE f[n + 1] \in Seq(R) /\ Sorted(f[n + 1], rows, n + 1)
    OBVIOUS
  <2>1. n \in Nat /\ n + 1 \in 1 .. last /\ n <= last /\ (n + 1) - 1 = n
    OBVIOUS
  <2>2. PICK list \in Seq(R) : list = f[n] /\ Sorted(list, rows, n)
    BY <2>1
  <2>3. PICK row \in R : row = rows[n + 1]
    BY <1>1, <2>1
  <2>4. PICK S \in SUBSET DOMAIN list : S = {i \in DOMAIN list : primaryTime(list[i]) >= primaryTime(row)}
    OBVIOUS
  <2>5. PICK more : more = InsertAt(list, 1 + Cardinality(S), row)
    OBVIOUS
  <2>6. more \in Seq(R) /\ Len(more) = Len(list) + 1 /\ ToSet(more) = ToSet(list) \cup {row}
    BY <2>5, InsertAtHas
  <2>7. f[n + 1] = more
    BY <1>2, <2>1, <2>2, <2>3, <2>4, <2>5 DEF PutByTime
  <2>8. {rows[i] : i \in 1 .. n + 1} = {rows[i] : i \in 1 .. n} \cup {rows[n + 1]}
    <3>1. \A i : i \in 1 .. n + 1 <=> i \in 1 .. n \/ i = n + 1
      BY <2>1
    <3> QED BY <3>1
  <2>9. Sorted(more, rows, n + 1)
    <3>1. Len(more) = n + 1
      BY <2>2, <2>6 DEF Sorted
    <3>2. ToSet(more) = {rows[i] : i \in 1 .. n + 1}
      BY <2>2, <2>3, <2>6, <2>8 DEF Sorted
    <3> QED BY <3>1, <3>2 DEF Sorted
  <2> QED BY <2>6, <2>7, <2>9
<1>5. T = Nat
  <2> HIDE DEF T
  <2>1. T \in SUBSET Nat
    BY DEF T
  <2> QED BY <1>3, <1>4, <2>1, SetInduction
<1>6. f[last] \in Seq(R) /\ Sorted(f[last], rows, last)
  <2>1. last \in T => f[last] \in Seq(R) /\ Sorted(f[last], rows, last)
    OBVIOUS
  <2> HIDE DEF T
  <2> QED BY <1>5, <2>1
<1>7. ToSet(rows) = {rows[i] : i \in 1 .. last}
  BY <1>1 DEF ToSet
<1> QED BY <1>1, <1>2, <1>6, <1>7 DEF Sorted

PutByNumber(list, e) ==
  IF \E i \in DOMAIN list : list[i].msgID = e.msgID THEN list
  ELSE InsertAt(list, 1 + Cardinality({i \in DOMAIN list :
         ~(list[i].time > e.time \/ (list[i].time = e.time /\ list[i].msgID > e.msgID))}), e)

LEMMA DedupeType ==
  ASSUME NEW R, NEW raw \in Seq(R) PROVE dedupeAndSort(raw) \in Seq(R)
<1>1. PICK last \in Nat : last = Len(raw) /\ DOMAIN raw = 1 .. last
  OBVIOUS
<1> DEFINE Loop(f) == f = [n \in 0 .. last |-> IF n = 0 THEN <<>> ELSE PutByNumber(f[n - 1], raw[n])]
           loop == CHOOSE f : Loop(f)
           next == [p \in Seq(R) \X (1 .. last) |-> PutByNumber(p[1], raw[p[2]])]
<1>2. next \in [Seq(R) \X (1 .. last) -> Seq(R)]
  <2>1. ASSUME NEW list \in Seq(R), NEW n \in 1 .. last PROVE PutByNumber(list, raw[n]) \in Seq(R)
    <3>1. raw[n] \in R
      BY <1>1
    <3> QED BY <3>1, InsertAtType DEF PutByNumber
  <2> QED BY <2>1
<1>3. PICK f \in [0 .. last -> Seq(R)] : f[0] = <<>> /\ \A n \in 1 .. last : f[n] = next[<<f[n - 1], n>>]
  <2>1. <<>> \in Seq(R)
    OBVIOUS
  <2> HIDE DEF next
  <2>2. LoopOf(Seq(R), <<>>, last, next)
    BY <1>2, <2>1, LoopExists
  <2> QED BY <2>2 DEF LoopOf
<1>4. \A n \in 1 .. last : f[n] = PutByNumber(f[n - 1], raw[n])
  <2>1. \A n \in 1 .. last : f[n - 1] \in Seq(R)
    OBVIOUS
  <2> QED BY <1>3, <2>1
<1>5. Loop(f)
  <2>1. \A n \in 0 .. last : n = 0 \/ n \in 1 .. last
    OBVIOUS
  <2>2. \A n \in 0 .. last : f[n] = IF n = 0 THEN <<>> ELSE PutByNumber(f[n - 1], raw[n])
    BY <1>3, <1>4, <2>1
  <2>3. f = [n \in 0 .. last |-> f[n]]
    OBVIOUS
  <2> QED BY <2>2, <2>3
<1>6. Loop(loop)
  <2> HIDE DEF Loop
  <2> QED BY <1>5, Zenon
<1>7. dedupeAndSort(raw) = loop[last]
  BY <1>1, Zenon DEF dedupeAndSort, PutByNumber
<1> HIDE DEF loop
<1>8. \A n \in 0 .. last : loop[n] = IF n = 0 THEN <<>> ELSE PutByNumber(loop[n - 1], raw[n])
  BY <1>6
<1>9. loop[0] \in Seq(R)
  <2>1. 0 \in 0 .. last /\ <<>> \in Seq(R)
    OBVIOUS
  <2>2. loop[0] = <<>>
    BY <1>8, <2>1
  <2> QED BY <2>1, <2>2
<1>10. ASSUME NEW n \in 1 .. last, loop[n - 1] \in Seq(R) PROVE loop[n] \in Seq(R)
  <2>1. PICK list \in Seq(R) : list = loop[n - 1]
    BY <1>10
  <2>2. loop[n] = PutByNumber(list, raw[n])
    <3>1. n \in 0 .. last /\ n # 0
      OBVIOUS
    <3>2. loop[n] = PutByNumber(loop[n - 1], raw[n])
      BY <1>8, <3>1
    <3> QED BY <2>1, <3>2
  <2>3. raw[n] \in R
    BY <1>1
  <2> QED BY <2>1, <2>2, <2>3, InsertAtType DEF PutByNumber
<1>11. PICK S : S = Seq(R)
  OBVIOUS
<1>12. loop[last] \in S
  BY <1>9, <1>10, <1>11, LoopStays
<1> QED BY <1>7, <1>11, <1>12

-----------------------------------------------------------------------------
(* Rows and pending requests with an identity *)

RowOK(r) == "requesterMeta" \in DOMAIN r /\ IdentityOK(r.requesterMeta)
Sound(list) == list \in Seq(ToSet(list)) /\ \A r \in ToSet(list) : RowOK(r)

LEMMA SoundIn ==
  ASSUME NEW R, \A r \in R : RowOK(r), NEW list \in Seq(R) PROVE Sound(list)
<1>1. PICK last \in Nat : last = Len(list) /\ DOMAIN list = 1 .. last /\ list \in [1 .. last -> R]
  OBVIOUS
<1>2. ToSet(list) \subseteq R
  BY <1>1 DEF ToSet
<1>3. list \in [1 .. last -> ToSet(list)]
  BY <1>1 DEF ToSet
<1>4. PICK S : S = ToSet(list)
  OBVIOUS
<1>5. list \in Seq(S)
  <2>1. list \in [1 .. last -> S]
    BY <1>3, <1>4
  <2> QED BY <2>1
<1> QED BY <1>2, <1>4, <1>5 DEF Sound

LEMMA SoundList ==
  ASSUME NEW last \in Nat, NEW list, list = [n \in 1 .. last |-> list[n]], \A n \in 1 .. last : RowOK(list[n])
  PROVE  Sound(list)
<1>1. PICK R : R = {list[n] : n \in 1 .. last}
  OBVIOUS
<1>2. list \in [1 .. last -> R]
  BY <1>1
<1>3. list \in Seq(R)
  BY <1>2
<1>4. \A r \in R : RowOK(r)
  BY <1>1
<1> QED BY <1>3, <1>4, SoundIn

LEMMA SoundAppend ==
  ASSUME NEW list, Sound(list), NEW x, RowOK(x) PROVE Sound(Append(list, x))
<1>1. PICK S : S = ToSet(list)
  OBVIOUS
<1>2. PICK R : R = S \cup {x}
  OBVIOUS
<1>3. list \in Seq(R)
  BY <1>1, <1>2, SeqMonotonic DEF Sound
<1>4. Append(list, x) \in Seq(R)
  BY <1>2, <1>3
<1>5. \A r \in R : RowOK(r)
  BY <1>1, <1>2 DEF Sound
<1> QED BY <1>4, <1>5, SoundIn

LEMMA SoundAmong ==
  ASSUME NEW list, Sound(list), NEW X PROVE Sound(Among(list, X))
<1>1. PICK R : R = ToSet(list)
  OBVIOUS
<1>2. list \in Seq(R) /\ \A r \in R : RowOK(r)
  BY <1>1 DEF Sound
<1>3. Among(list, X) \in Seq(R)
  BY <1>2, AmongOf
<1> QED BY <1>2, <1>3, SoundIn

LEMMA SoundJoin ==
  ASSUME NEW list, Sound(list), NEW more, Sound(more) PROVE Sound(list \o more)
<1>1. PICK R : R = ToSet(list) \cup ToSet(more)
  OBVIOUS
<1>2. list \in Seq(R) /\ more \in Seq(R) /\ \A r \in R : RowOK(r)
  BY <1>1, SeqMonotonic DEF Sound
<1>3. list \o more \in Seq(R)
  BY <1>2, ConcatProperties
<1> QED BY <1>2, <1>3, SoundIn

LEMMA SoundSort ==
  ASSUME NEW list, Sound(list) PROVE Sound(sortNewestFirst(list))
<1>1. PICK R : R = ToSet(list)
  OBVIOUS
<1>2. list \in Seq(R) /\ \A r \in R : RowOK(r)
  BY <1>1 DEF Sound
<1>3. sortNewestFirst(list) \in Seq(R)
  BY <1>2, SortHas
<1> QED BY <1>2, <1>3, SoundIn

LEMMA PreferOK ==
  ASSUME NEW a, NEW b, IdentityOK(a), IdentityOK(b) PROVE IdentityOK(Prefer(a, b))
BY DEF Prefer

LEMMA NoneOK == IdentityOK(None)
BY DEF IdentityOK, NamespaceOf

LEMMA TransactionOK ==
  ASSUME NEW id, NEW state, NEW about, NEW answer, IdentityOK(about.requesterMeta), IdentityOK(answer.requesterMeta)
  PROVE  RowOK(Transaction(id, state, about, answer))
<1>1. /\ "requesterMeta" \in DOMAIN Transaction(id, state, about, answer)
      /\ Transaction(id, state, about, answer).requesterMeta = Prefer(about.requesterMeta, answer.requesterMeta)
  BY DEF Transaction
<1> QED BY <1>1, PreferOK DEF RowOK

StateOK(acc) ==
  acc = [pending |-> acc.pending, rows |-> acc.rows] /\ Sound(acc.pending) /\ Sound(acc.rows)

LEMMA AmbiguousOK ==
  ASSUME NEW acc, StateOK(acc), NEW p, IdentityOK(p.requesterMeta) PROVE StateOK(Ambiguous(acc, p))
<1>1. ASSUME NEW attempts PROVE IdentityOK(Unpaired(p, attempts).requesterMeta)
  BY DEF Unpaired
<1>2. ASSUME NEW time, NEW code
      PROVE  /\ IdentityOK([NoAnswer EXCEPT !.time = time, !.rcode = code].requesterMeta)
             /\ IdentityOK([NoAnswer EXCEPT !.rcode = code].requesterMeta)
  BY NoneOK DEF NoAnswer
<1> DEFINE about == Unpaired(p, IF p.isResponse THEN 0 ELSE 1)
           answer == IF p.isResponse THEN [NoAnswer EXCEPT !.time = p.time, !.rcode = p.rcode]
                     ELSE [NoAnswer EXCEPT !.rcode = p.rcode]
           id == <<"ambiguous", p.key, p.time, Len(acc.rows)>>
           row == Transaction(id, "ambiguous", about, answer)
<1>3. IdentityOK(about.requesterMeta) /\ IdentityOK(answer.requesterMeta)
  BY <1>1, <1>2
<1>4. Ambiguous(acc, p) = [acc EXCEPT !.rows = Append(acc.rows, row)]
  BY DEF Ambiguous
<1> HIDE DEF about, answer, id
<1>5. RowOK(row)
  BY <1>3, TransactionOK
<1> HIDE DEF row
<1>6. Sound(Append(acc.rows, row))
  BY <1>5, SoundAppend DEF StateOK
<1>7. Ambiguous(acc, p) = [pending |-> acc.pending, rows |-> Append(acc.rows, row)]
  BY <1>4 DEF StateOK
<1> QED BY <1>6, <1>7 DEF StateOK

LEMMA RequestOK ==
  ASSUME NEW acc, StateOK(acc), NEW p, IdentityOK(p.requesterMeta) PROVE StateOK(Request(acc, p))
<1> DEFINE same == {i \in DOMAIN acc.pending : acc.pending[i].key = p.key}
           new  == [requester |-> p.requester, nameserver |-> p.nameserver, key |-> p.key,
                    first |-> p.time, latest |-> p.time, attempts |-> 1,
                    deadline |-> p.time + timeoutMs,
                    requesterMeta |-> p.requesterMeta, resolverMeta |-> p.resolverMeta,
                    resolverK8s |-> p.resolverK8s]
           Retried(r) == [r EXCEPT !.attempts = @ + 1, !.latest = p.time, !.deadline = p.time + timeoutMs,
                    !.requesterMeta = Prefer(@, p.requesterMeta),
                    !.resolverMeta = Prefer(@, p.resolverMeta), !.resolverK8s = Prefer(@, p.resolverK8s)]
           retried == [i \in DOMAIN acc.pending |->
                         IF i \in same THEN Retried(acc.pending[i]) ELSE acc.pending[i]]
           pending == IF same = {} THEN Append(acc.pending, new) ELSE retried
<1>1. Request(acc, p) = [acc EXCEPT !.pending = pending]
  BY Zenon DEF Request
<1>2. RowOK(new)
  BY DEF RowOK
<1>3. ASSUME NEW r, RowOK(r) PROVE RowOK(Retried(r))
  <2>1. /\ "requesterMeta" \in DOMAIN Retried(r)
        /\ Retried(r).requesterMeta = Prefer(r.requesterMeta, p.requesterMeta)
    BY <1>3 DEF RowOK
  <2> HIDE DEF Retried
  <2> QED BY <1>3, <2>1, PreferOK DEF RowOK
<1> HIDE DEF Retried, new, same
<1>4. Sound(retried)
  <2>1. PICK last \in Nat : DOMAIN acc.pending = 1 .. last /\ \A i \in 1 .. last : RowOK(acc.pending[i])
    <3>1. PICK list : list = acc.pending /\ Sound(list)
      BY DEF StateOK
    <3>2. PICK last \in Nat : last = Len(list) /\ DOMAIN list = 1 .. last
      BY <3>1 DEF Sound
    <3>3. \A i \in 1 .. last : RowOK(list[i])
      BY <3>1, <3>2 DEF Sound, ToSet
    <3> QED BY <3>1, <3>2, <3>3
  <2>2. \A i \in 1 .. last : RowOK(retried[i])
    BY <1>3, <2>1
  <2>3. retried = [i \in 1 .. last |-> retried[i]]
    BY <2>1
  <2> HIDE DEF retried
  <2> QED BY <2>2, <2>3, SoundList
<1> HIDE DEF retried
<1>5. Sound(pending)
  BY <1>2, <1>4, SoundAppend DEF StateOK
<1> HIDE DEF pending
<1>6. Request(acc, p) = [pending |-> pending, rows |-> acc.rows]
  BY <1>1 DEF StateOK
<1> QED BY <1>5, <1>6 DEF StateOK

LEMMA ResponseOK ==
  ASSUME NEW acc, StateOK(acc), NEW p, IdentityOK(p.requesterMeta) PROVE StateOK(Response(acc, p))
<1> DEFINE same == {i \in DOMAIN acc.pending : acc.pending[i].key = p.key}
           entry == acc.pending[CHOOSE i \in same : TRUE]
           others == {r \in ToSet(acc.pending) : r.key # p.key}
           orphan == Transaction(<<"orphan", p.key, p.time>>, "orphan-response", Unpaired(p, 0), p)
           state == IF p.time > entry.deadline THEN "late-response" ELSE "answered"
           row == Transaction(<<p.key, entry.first>>, state, entry, p)
<1>1. Response(acc, p) = IF same = {} THEN [acc EXCEPT !.rows = Append(acc.rows, orphan)]
                         ELSE [pending |-> Among(acc.pending, others), rows |-> Append(acc.rows, row)]
  BY Zenon DEF Response
<1>2. RowOK(orphan)
  <2>1. Unpaired(p, 0).requesterMeta = p.requesterMeta
    BY DEF Unpaired
  <2> QED BY <2>1, TransactionOK
<1>3. same # {} => RowOK(row)
  <2>1. same # {} => entry \in ToSet(acc.pending)
    BY DEF ToSet
  <2>2. same # {} => IdentityOK(entry.requesterMeta)
    BY <2>1 DEF StateOK, Sound, RowOK
  <2> HIDE DEF entry, same, state
  <2> QED BY <2>2, TransactionOK
<1> HIDE DEF same, orphan, row, others
<1>4. CASE same = {}
  <2>1. Sound(Append(acc.rows, orphan))
    BY <1>2, SoundAppend DEF StateOK
  <2>2. Response(acc, p) = [pending |-> acc.pending, rows |-> Append(acc.rows, orphan)]
    BY <1>1, <1>4 DEF StateOK
  <2> QED BY <2>1, <2>2 DEF StateOK
<1>5. CASE same # {}
  <2>1. Sound(Append(acc.rows, row))
    BY <1>3, <1>5, SoundAppend DEF StateOK
  <2>2. Sound(Among(acc.pending, others))
    BY SoundAmong DEF StateOK
  <2>3. Response(acc, p) = [pending |-> Among(acc.pending, others), rows |-> Append(acc.rows, row)]
    BY <1>1, <1>5
  <2> QED BY <2>1, <2>2, <2>3 DEF StateOK
<1> QED BY <1>4, <1>5

LEMMA CorrelatedOK ==
  ASSUME NEW acc, StateOK(acc), NEW p, IdentityOK(p.requesterMeta) PROVE StateOK(Correlated(acc, p))
BY AmbiguousOK, ResponseOK, RequestOK DEF Correlated

CorrelationLoop(P, last) ==
  \E f : f = [n \in 0 .. last |-> IF n = 0 THEN NothingYet ELSE Correlated(f[n - 1], P[n])]

\* The loop over the packets runs to its end.
LEMMA CorrelationRuns ==
  ASSUME NEW P, NEW last \in Nat PROVE CorrelationLoop(P, last)
<1> DEFINE Runs(f, m) == f = [n \in 0 .. m |-> IF n = 0 THEN NothingYet ELSE Correlated(f[n - 1], P[n])]
           T == {m \in Nat : \E f : Runs(f, m)}
<1>1. 0 \in T
  <2> DEFINE f == [n \in 0 .. 0 |-> NothingYet]
  <2>1. f = [n \in 0 .. 0 |-> IF n = 0 THEN NothingYet ELSE Correlated(f[n - 1], P[n])]
    OBVIOUS
  <2> HIDE DEF f
  <2> QED BY <2>1
<1>2. ASSUME NEW m \in T PROVE m + 1 \in T
  <2>1. PICK f : Runs(f, m)
    OBVIOUS
  <2> DEFINE g == [n \in 0 .. m + 1 |-> IF n = m + 1 THEN Correlated(f[m], P[m + 1]) ELSE f[n]]
  <2>2. m \in Nat /\ m \in 0 .. m + 1 /\ m # m + 1 /\ (m + 1) - 1 = m /\ 0 # m + 1
    OBVIOUS
  <2>3. \A n \in 0 .. m : f[n] = IF n = 0 THEN NothingYet ELSE Correlated(f[n - 1], P[n])
    BY <2>1
  <2>4. ASSUME NEW n \in 0 .. m + 1
        PROVE  g[n] = IF n = 0 THEN NothingYet ELSE Correlated(g[n - 1], P[n])
    <3>1. CASE n = m + 1
      <4>1. g[n] = Correlated(f[m], P[m + 1])
        BY <3>1
      <4>2. g[n - 1] = f[m]
        BY <2>2, <3>1
      <4> QED BY <2>2, <3>1, <4>1, <4>2
    <3>2. CASE n # m + 1
      <4>1. n \in 0 .. m /\ (n # 0 => n - 1 \in 0 .. m + 1 /\ n - 1 # m + 1)
        BY <3>2
      <4>2. g[n] = f[n] /\ (n # 0 => g[n - 1] = f[n - 1])
        BY <3>2, <4>1
      <4> QED BY <2>3, <4>1, <4>2
    <3> QED BY <3>1, <3>2
  <2>5. g = [n \in 0 .. m + 1 |-> g[n]]
    OBVIOUS
  <2> HIDE DEF g
  <2>6. Runs(g, m + 1)
    BY <2>4, <2>5
  <2> QED BY <2>2, <2>6
<1>3. T = Nat
  <2> HIDE DEF T
  <2>1. T \in SUBSET Nat
    BY DEF T
  <2> QED BY <1>1, <1>2, <2>1, SetInduction
<1>4. last \in T => \E f : Runs(f, last)
  OBVIOUS
<1> HIDE DEF T
<1> QED BY <1>3, <1>4 DEF CorrelationLoop

PacketsOK(raw) ==
  raw \in Seq(ToSet(raw)) /\ \A e \in ToSet(raw) : IdentityOK(e.meta)
ParsedOK(P) ==
  \E last \in Nat : last = Len(P) /\ \A n \in 1 .. last : IdentityOK(P[n].requesterMeta)

LEMMA ParsedAreOK ==
  ASSUME NEW raw, PacketsOK(raw) PROVE ParsedOK(ParsedOf(raw))
<1>1. PICK E : E = ToSet(raw)
  OBVIOUS
<1>2. PICK sorted \in Seq(E) : sorted = dedupeAndSort(raw)
  BY <1>1, DedupeType DEF PacketsOK
<1>3. PICK X : X = {e \in ToSet(raw) : Usable(e)}
  OBVIOUS
<1>4. PICK usable \in Seq(E) : usable = Among(sorted, X)
  BY AmongOf
<1>5. PICK last \in Nat : last = Len(usable) /\ DOMAIN usable = 1 .. last /\ \A n \in 1 .. last : usable[n] \in E
  OBVIOUS
<1> DEFINE P == [n \in DOMAIN usable |-> parseDnsEvent(usable[n])]
<1>6. ParsedOf(raw) = P
  BY <1>2, <1>3, <1>4 DEF ParsedOf
<1>7. \A n \in 1 .. last : P[n] = parseDnsEvent(usable[n])
  BY <1>5
<1>8. Len(P) = last
  <2>1. PICK R : R = {parseDnsEvent(usable[n]) : n \in 1 .. last}
    OBVIOUS
  <2>2. P \in [1 .. last -> R]
    BY <1>5, <2>1
  <2> HIDE DEF P
  <2> QED BY <2>2
<1> HIDE DEF P
<1>9. ASSUME NEW e, IdentityOK(e.meta) PROVE IdentityOK(parseDnsEvent(e).requesterMeta)
  <2>1. parseDnsEvent(e).requesterMeta \in {e.meta, None}
    BY DEF parseDnsEvent
  <2> QED BY <1>9, <2>1, NoneOK
<1>10. \A n \in 1 .. last : IdentityOK(P[n].requesterMeta)
  BY <1>1, <1>5, <1>7, <1>9 DEF PacketsOK
<1> QED BY <1>6, <1>8, <1>10 DEF ParsedOK

\* The loop keeps to what the packets say of who asked.
LEMMA LoopOK ==
  ASSUME NEW P, NEW last \in Nat, \A n \in 1 .. last : IdentityOK(P[n].requesterMeta),
         NEW g, \A n \in 0 .. last : g[n] = IF n = 0 THEN NothingYet ELSE Correlated(g[n - 1], P[n])
  PROVE  StateOK(g[last])
<1> DEFINE T == {n \in Nat : n <= last => StateOK(g[n])}
<1>1. 0 \in T
  <2>1. g[0] = [pending |-> <<>>, rows |-> <<>>]
    BY DEF NothingYet
  <2>2. Sound(<<>>)
    <3>1. <<>> \in Seq({}) /\ \A r \in {} : RowOK(r)
      OBVIOUS
    <3> QED BY <3>1, SoundIn
  <2> QED BY <2>1, <2>2 DEF StateOK
<1>2. ASSUME NEW n \in T PROVE n + 1 \in T
  <2> SUFFICES ASSUME n + 1 <= last PROVE StateOK(g[n + 1])
    OBVIOUS
  <2>1. n + 1 \in 1 .. last /\ n + 1 \in 0 .. last /\ n + 1 # 0 /\ (n + 1) - 1 = n /\ n <= last
    OBVIOUS
  <2>2. g[n + 1] = Correlated(g[n], P[n + 1])
    BY <2>1
  <2>3. StateOK(g[n])
    BY <2>1
  <2>4. IdentityOK(P[n + 1].requesterMeta)
    BY <2>1
  <2> QED BY <2>2, <2>3, <2>4, CorrelatedOK
<1>3. T = Nat
  <2> HIDE DEF T
  <2>1. T \in SUBSET Nat
    BY DEF T
  <2> QED BY <1>1, <1>2, <2>1, SetInduction
<1>4. last \in T => StateOK(g[last])
  OBVIOUS
<1> HIDE DEF T
<1> QED BY <1>3, <1>4

LEMMA RowsOK ==
  ASSUME NEW raw, PacketsOK(raw), NEW now
  PROVE  Sound(computeDnsCorrelation(raw, now).transactions)
<1>1. PICK P : P = ParsedOf(raw)
  OBVIOUS
<1>2. PICK last \in Nat : last = Len(P) /\ \A n \in 1 .. last : IdentityOK(P[n].requesterMeta)
  BY <1>1, ParsedAreOK DEF ParsedOK
<1> DEFINE Loop(f) == f = [n \in 0 .. last |-> IF n = 0 THEN NothingYet ELSE Correlated(f[n - 1], P[n])]
           loop == CHOOSE f : Loop(f)
           pending == loop[last].pending
           waiting == Among(pending, {r \in ToSet(pending) : now < r.deadline})
           expired == Among(pending, {r \in ToSet(pending) : now >= r.deadline})
           TimedOut(r) == Transaction(<<"timeout", r.key, r.latest>>, "no-response", r, NoAnswer)
           timedOut == [i \in DOMAIN expired |-> TimedOut(expired[i])]
<1>3. computeDnsCorrelation(raw, now).transactions = sortNewestFirst(loop[last].rows \o timedOut)
  BY <1>1, <1>2 DEF computeDnsCorrelation, CorrelationOf, Outcome
<1>4. Loop(loop)
  <2>1. \E f : Loop(f)
    BY CorrelationRuns DEF CorrelationLoop
  <2> HIDE DEF Loop
  <2> QED BY <2>1, Zenon
<1> HIDE DEF loop
<1>5. StateOK(loop[last])
  <2>1. \A n \in 0 .. last : loop[n] = IF n = 0 THEN NothingYet ELSE Correlated(loop[n - 1], P[n])
    BY <1>4
  <2> QED BY <1>2, <2>1, LoopOK
<1>6. Sound(expired)
  BY <1>5, SoundAmong DEF StateOK
<1> HIDE DEF expired
<1>7. ASSUME NEW r, RowOK(r) PROVE RowOK(TimedOut(r))
  <2>1. NoAnswer.requesterMeta = None
    BY DEF NoAnswer
  <2> QED BY <1>7, <2>1, NoneOK, TransactionOK DEF RowOK
<1> HIDE DEF TimedOut
<1>8. Sound(timedOut)
  <2>1. PICK list : list = expired /\ Sound(list)
    BY <1>6
  <2>2. PICK size \in Nat : size = Len(list) /\ DOMAIN list = 1 .. size
    BY <2>1 DEF Sound
  <2>3. \A i \in 1 .. size : RowOK(list[i])
    BY <2>1, <2>2 DEF Sound, ToSet
  <2>4. timedOut = [i \in 1 .. size |-> timedOut[i]] /\ \A i \in 1 .. size : timedOut[i] = TimedOut(list[i])
    BY <2>1, <2>2
  <2> HIDE DEF timedOut
  <2>5. \A i \in 1 .. size : RowOK(timedOut[i])
    BY <1>7, <2>3, <2>4
  <2> QED BY <2>4, <2>5, SoundList
<1> HIDE DEF timedOut
<1>9. Sound(loop[last].rows \o timedOut)
  BY <1>5, <1>8, SoundJoin DEF StateOK
<1> QED BY <1>3, <1>9, SoundSort

LEMMA SoundIdentified == ASSUME NEW list, Sound(list) PROVE Identified(list)
BY DEF Sound, Identified, RowOK

\* Packets and rows tell who asked wholly, or with no namespace.
IdentityInv == PacketsOK(packets) /\ Identified(result.transactions)

LEMMA ComputedIdentified ==
  ASSUME NEW ring, PacketsOK(ring), NEW run, NEW at, recompute(ring, run, at)
  PROVE  Identified(result'.transactions)
<1>1. PICK now : result' = computeDnsCorrelation(ring, now)
  BY DEF recompute, Show
<1> QED BY <1>1, RowsOK, SoundIdentified

LEMMA StoredOK ==
  ASSUME IdentityInv, NEW p \in Packets, NEW time
  PROVE  PacketsOK(SubSeq(<<[p EXCEPT !.time = time, !.msgID = arrived]>> \o packets, 1,
                          IF Len(packets) < Retained THEN Len(packets) + 1 ELSE Retained))
<1>1. PICK event : event = [p EXCEPT !.time = time, !.msgID = arrived]
  OBVIOUS
<1>2. IdentityOK(event.meta)
  <2>1. "meta" \in DOMAIN p /\ IdentityOK(p.meta)
    BY DnsAssumption DEF IdentityOK
  <2>2. event.meta = p.meta
    BY <1>1, <2>1
  <2> QED BY <2>1, <2>2
<1>3. PICK E : E = ToSet(packets) \cup {event}
  OBVIOUS
<1>4. PICK all : all = <<event>> \o packets
  OBVIOUS
<1>10. all \in Seq(E) /\ Len(all) = Len(packets) + 1 /\ Len(packets) \in Nat
  <2>1. PICK list : list = packets /\ list \in Seq(ToSet(packets))
    BY DEF IdentityInv, PacketsOK
  <2>2. list \in Seq(E)
    BY <1>3, <2>1, SeqMonotonic
  <2>3. PICK one : one = <<event>> /\ one \in Seq(E) /\ Len(one) = 1
    <3>1. event \in E
      BY <1>3
    <3>2. <<event>> \in Seq(E) /\ Len(<<event>>) = 1
      BY <3>1
    <3> QED BY <3>2
  <2>4. one \o list \in Seq(E) /\ Len(one \o list) = 1 + Len(list) /\ Len(list) \in Nat
    BY <2>2, <2>3, ConcatProperties
  <2>5. all = one \o list
    BY <1>4, <2>1, <2>3, Zenon
  <2>6. PICK joined : joined = one \o list
    OBVIOUS
  <2> QED BY <2>1, <2>4, <2>5, <2>6
<1>5. PICK last \in Nat : last = Len(all) /\ \A n \in 1 .. last : all[n] \in E
  BY <1>10
<1>6. PICK end \in Nat : end <= last
                        /\ end = IF Len(packets) < Retained THEN Len(packets) + 1 ELSE Retained
  <2>1. Retained \in Nat
    BY DnsAssumption
  <2> QED BY <1>5, <1>10, <2>1
<1>7. PICK ring \in Seq(E) : ring = SubSeq(all, 1, end)
  <2>1. 1 \in Int /\ end \in Int /\ \A n \in 1 .. end : all[n] \in E
    BY <1>5, <1>6
  <2>2. SubSeq(all, 1, end) \in Seq(E)
    BY <2>1, SubSeqProperties
  <2> QED BY <2>2
<1>8. \A e \in E : IdentityOK(e.meta)
  BY <1>2, <1>3 DEF IdentityInv, PacketsOK
<1>9. ring \in Seq(ToSet(ring)) /\ ToSet(ring) \subseteq E
  <2>1. PICK size \in Nat : size = Len(ring) /\ DOMAIN ring = 1 .. size /\ ring \in [1 .. size -> E]
    OBVIOUS
  <2>2. ToSet(ring) \subseteq E
    BY <2>1 DEF ToSet
  <2>3. PICK S : S = ToSet(ring)
    OBVIOUS
  <2>4. ring \in [1 .. size -> S]
    BY <2>1, <2>3 DEF ToSet
  <2>5. ring \in Seq(S)
    BY <2>4
  <2> QED BY <2>2, <2>3, <2>5
<1> QED BY <1>1, <1>4, <1>6, <1>7, <1>8, <1>9 DEF PacketsOK

LEMMA IdentityStep == IdentityInv /\ [DnsNext]_dnsVars => IdentityInv'
<1> SUFFICES ASSUME IdentityInv, [DnsNext]_dnsVars PROVE PacketsOK(packets') /\ Identified(result'.transactions)
  BY DEF IdentityInv, PacketsOK, Identified
<1>0. PacketsOK(packets) /\ Identified(result.transactions)
  BY DEF IdentityInv
<1>1. ASSUME NEW ring, PacketsOK(ring), NEW run, NEW at, recompute(ring, run, at)
      PROVE  Identified(result'.transactions)
  BY <1>1, ComputedIdentified
<1>2. ASSUME Same PROVE Identified(result'.transactions)
  BY <1>0, <1>2 DEF Same
<1>3. ASSUME NEW ring, PacketsOK(ring), NEW run, NEW at, scheduleRecompute(ring, run, at)
      PROVE  Identified(result'.transactions)
  BY <1>1, <1>2, <1>3 DEF scheduleRecompute
<1>4. ASSUME NEW ring, PacketsOK(ring), NEW run, NEW tab, Effect(ring, run, tab)
      PROVE  Identified(result'.transactions)
  BY <1>1, <1>2, <1>3, <1>4 DEF Effect
<1>5. CASE Arrive
  <2>1. PICK p \in Packets :
          LET ring == SubSeq(<<[p EXCEPT !.time = clock - @, !.msgID = arrived]>> \o packets, 1,
                             IF Len(packets) < Retained THEN Len(packets) + 1 ELSE Retained)
          IN  packets' = ring /\ Effect(ring, isRunning, isActiveTab)
    BY <1>5 DEF Arrive
  <2>2. PICK time : time = clock - p.time
    OBVIOUS
  <2>3. PICK ring : ring = SubSeq(<<[p EXCEPT !.time = time, !.msgID = arrived]>> \o packets, 1,
                                  IF Len(packets) < Retained THEN Len(packets) + 1 ELSE Retained)
    OBVIOUS
  <2>4. packets' = ring /\ Effect(ring, isRunning, isActiveTab)
    BY <2>1, <2>2, <2>3
  <2>5. PacketsOK(ring)
    BY <2>3, StoredOK
  <2> QED BY <1>4, <2>4, <2>5
<1>6. CASE GadgetStops
  BY <1>0, <1>4, <1>6 DEF GadgetStops
<1>7. CASE SwitchTab
  BY <1>0, <1>4, <1>7 DEF SwitchTab
<1>8. CASE RefreshTimer
  BY <1>0, <1>1, <1>8 DEF RefreshTimer
<1>9. CASE SweepTimer
  BY <1>0, <1>1, <1>2, <1>9 DEF SweepTimer
<1>10. CASE FilterNamespace
  BY <1>0, <1>10 DEF FilterNamespace, Show
<1>11. CASE Tick
  BY <1>0, <1>11 DEF Tick
<1>12. CASE UNCHANGED dnsVars
  BY <1>0, <1>12 DEF dnsVars
<1> QED BY <1>5, <1>6, <1>7, <1>8, <1>9, <1>10, <1>11, <1>12 DEF DnsNext

LEMMA IdentityAlways == DnsSpec => []IdentityInv
<1>1. DnsInit => IdentityInv
  <2> SUFFICES ASSUME DnsInit PROVE PacketsOK(<<>>) /\ Identified(<<>>)
    BY DEF DnsInit, IdentityInv, EmptyResult
  <2>1. ToSet(<<>>) = {} /\ <<>> \in Seq({})
    BY DEF ToSet
  <2> QED BY <2>1 DEF PacketsOK, Identified
<1>2. IdentityInv /\ [DnsNext]_dnsVars => IdentityInv'
  BY IdentityStep
<1> QED BY <1>1, <1>2, PTL DEF DnsSpec

LEMMA FilterFollows == IdentityInv => FilterAgreesWithGroups
<1> SUFFICES ASSUME IdentityInv, NEW namespace \in extractDnsMapNamespaces(result.transactions)
             PROVE  FullModel(result.transactions, namespace).workloads =
                      {w \in FullModel(result.transactions, None).workloads : w.namespace = namespace}
  BY DEF FilterAgreesWithGroups
<1>1. namespace # None
  BY DEF extractDnsMapNamespaces
<1> QED BY <1>1, FilterWorkloads DEF IdentityInv

\* The namespace filter shows the groups of that namespace as the unfiltered map
\* has them, if identities have a pod when they have a namespace.
THEOREM FilterAlwaysAgrees == DnsSpec => []FilterAgreesWithGroups
BY IdentityAlways, FilterFollows, PTL

-----------------------------------------------------------------------------
(* Lists of distinct entries *)

Distinct(list) == \A i, j \in DOMAIN list : list[i].key = list[j].key => i = j

\* As many images as arguments, where no two have the same one.
LEMMA ManyImages ==
  ASSUME NEW S, IsFiniteSet(S), NEW f, DOMAIN f = S, \A x, y \in S : f[x] = f[y] => x = y
  PROVE  IsFiniteSet({f[x] : x \in S}) /\ Cardinality({f[x] : x \in S}) = Cardinality(S)
<1>1. PICK T : T = {f[x] : x \in S}
  OBVIOUS
<1>2. PICK g : g = [x \in S |-> f[x]]
  OBVIOUS
<1>3. g \in Bijection(S, T)
  BY <1>1, <1>2 DEF Bijection, Injection, Surjection, IsInjective
<1>4. ExistsBijection(S, T)
  BY <1>3 DEF ExistsBijection
<1> QED BY <1>1, <1>4, FS_Bijection

\* A list of distinct entries is as long as its set is large.
LEMMA DistinctLength ==
  ASSUME NEW R, NEW list \in Seq(R), Distinct(list)
  PROVE  IsFiniteSet(ToSet(list)) /\ Cardinality(ToSet(list)) = Len(list)
<1>1. PICK last \in Nat : last = Len(list) /\ DOMAIN list = 1 .. last
  OBVIOUS
<1>2. IsFiniteSet(1 .. last) /\ Cardinality(1 .. last) = last
  BY FS_Interval
<1>3. \A i, j \in 1 .. last : list[i] = list[j] => i = j
  BY <1>1 DEF Distinct
<1>4. PICK S : S = 1 .. last
  OBVIOUS
<1>5. IsFiniteSet({list[i] : i \in S}) /\ Cardinality({list[i] : i \in S}) = Cardinality(S)
  BY <1>1, <1>2, <1>3, <1>4, ManyImages
<1> QED BY <1>1, <1>2, <1>4, <1>5 DEF ToSet

\* Distinct entries stay distinct.
KeptDistinct(list, X) == Distinct(list) => Distinct(Among(list, X))
LEMMA AmongDistinct ==
  ASSUME NEW R, NEW list \in Seq(R), NEW X PROVE KeptDistinct(list, X)
<1> DEFINE P == {s \in Seq(R) : KeptDistinct(s, X)}
<1>1. KeptDistinct(<<>>, X)
  BY AmongEmpty DEF KeptDistinct
<1>2. ASSUME NEW s \in P, NEW x \in R PROVE KeptDistinct(Append(s, x), X)
  <2> SUFFICES ASSUME Distinct(Append(s, x)) PROVE Distinct(Among(Append(s, x), X))
    BY DEF KeptDistinct
  <2>1. PICK some \in Seq(R) : some = Among(s, X) /\ ToSet(some) = ToSet(s) \cap X
    <3>1. Among(s, X) \in Seq(R) /\ ToSet(Among(s, X)) = ToSet(s) \cap X
      BY AmongOf, AmongType
    <3> QED BY <3>1
  <2>2. PICK kept : kept = Among(Append(s, x), X) /\ kept = Kept(some, x, X)
    BY <2>1, AmongAppend
  <2>3. PICK last \in Nat : last = Len(s) /\ DOMAIN s = 1 .. last
    OBVIOUS
  <2>4. PICK more : /\ more = Append(s, x) /\ DOMAIN more = 1 .. last + 1 /\ more[last + 1] = x
                    /\ \A i \in 1 .. last : more[i] = s[i]
    <3>1. PICK m : m = Append(s, x)
      OBVIOUS
    <3>2. /\ m \in Seq(R) /\ Len(m) = last + 1 /\ m[last + 1] = x
          /\ \A i \in 1 .. last : m[i] = s[i]
      BY <2>3, <3>1, AppendProperties
    <3>3. DOMAIN m = 1 .. last + 1
      BY <3>2
    <3> QED BY <3>1, <3>2, <3>3
  <2>5. \A i, j \in 1 .. last + 1 : more[i].key = more[j].key => i = j
    BY <2>4 DEF Distinct
  <2>6. Distinct(s) /\ \A i \in 1 .. last : s[i].key # x.key
    <3>1. \A i \in 1 .. last : i \in 1 .. last + 1 /\ i # last + 1
      OBVIOUS
    <3>2. last + 1 \in 1 .. last + 1
      OBVIOUS
    <3> QED BY <2>3, <2>4, <2>5, <3>1, <3>2 DEF Distinct
  <2>7. Distinct(some)
    BY <2>1, <2>6 DEF KeptDistinct
  <2>8. CASE x \notin X
    BY <2>2, <2>7, <2>8 DEF Kept
  <2>9. CASE x \in X
    <3>1. kept = Append(some, x)
      BY <2>2, <2>9 DEF Kept
    <3>2. PICK end \in Nat : end = Len(some) /\ DOMAIN some = 1 .. end
      OBVIOUS
    <3>3. DOMAIN kept = 1 .. end + 1 /\ kept[end + 1] = x /\ \A i \in 1 .. end : kept[i] = some[i]
      BY <3>1, <3>2
    <3>4. \A i \in 1 .. end : some[i].key # x.key
      <4>1. ASSUME NEW i \in 1 .. end PROVE \E n \in 1 .. last : some[i] = s[n]
        <5>1. some[i] \in ToSet(s)
          BY <2>1, <3>2 DEF ToSet
        <5> QED BY <2>3, <5>1 DEF ToSet
      <4> QED BY <2>6, <4>1
    <3>5. \A i \in 1 .. end + 1 : i = end + 1 \/ i \in 1 .. end
      OBVIOUS
    <3>6. \A i, j \in 1 .. end : some[i].key = some[j].key => i = j
      BY <2>7, <3>2 DEF Distinct
    <3>7. Distinct(kept)
      BY <3>3, <3>4, <3>5, <3>6 DEF Distinct
    <3> QED BY <2>2, <3>7
  <2> QED BY <2>8, <2>9
<1>3. P = Seq(R)
  <2>1. P \in SUBSET Seq(R) /\ <<>> \in P /\ \A s \in P, x \in R : Append(s, x) \in P
    <3>1. <<>> \in Seq(R) /\ \A s \in Seq(R), x \in R : Append(s, x) \in Seq(R)
      OBVIOUS
    <3> QED BY <1>1, <1>2, <3>1
  <2> HIDE DEF P
  <2> QED BY <2>1, ListInduction
<1> QED BY <1>3

-----------------------------------------------------------------------------
(* The exchanges of the packets P *)

Sent(p) == ~p.ambiguous /\ ~p.isResponse
Answers(p) == ~p.ambiguous /\ p.isResponse
\* the requests with this key among the first n packets that are still open
Asked(P, n, k) ==
  {i \in 1 .. n : /\ P[i].key = k /\ Sent(P[i])
                  /\ \A r \in i + 1 .. n : ~(P[r].key = k /\ Answers(P[r]))}
\* the packets of the first n that make a row at once
Closing(P, n) == {j \in 1 .. n : P[j].ambiguous \/ P[j].isResponse}

EarliestOf(S) == CHOOSE i \in S : \A j \in S : i <= j
LatestOf(S) == CHOOSE i \in S : \A j \in S : i >= j

LEMMA AskedOthers ==
  ASSUME NEW P, NEW n \in Nat, NEW k, P[n + 1].ambiguous \/ P[n + 1].key # k
  PROVE  Asked(P, n + 1, k) = Asked(P, n, k)
<1>1. ASSUME NEW i \in Asked(P, n, k) PROVE i \in Asked(P, n + 1, k)
  <2>1. /\ i \in 1 .. n /\ P[i].key = k /\ Sent(P[i])
        /\ \A r \in i + 1 .. n : ~(P[r].key = k /\ Answers(P[r]))
    BY DEF Asked
  <2>2. \A r \in i + 1 .. n + 1 : r = n + 1 \/ r \in i + 1 .. n
    BY <2>1
  <2>3. ~(P[n + 1].key = k /\ Answers(P[n + 1]))
    BY DEF Answers
  <2>4. i \in 1 .. n + 1
    BY <2>1
  <2> QED BY <2>1, <2>2, <2>3, <2>4 DEF Asked
<1>2. ASSUME NEW i \in Asked(P, n + 1, k) PROVE i \in Asked(P, n, k)
  <2>1. /\ i \in 1 .. n + 1 /\ P[i].key = k /\ Sent(P[i])
        /\ \A r \in i + 1 .. n + 1 : ~(P[r].key = k /\ Answers(P[r]))
    BY DEF Asked
  <2>2. i # n + 1
    BY <2>1 DEF Sent
  <2>3. i \in 1 .. n /\ \A r \in i + 1 .. n : r \in i + 1 .. n + 1
    BY <2>1, <2>2
  <2> QED BY <2>1, <2>3 DEF Asked
<1> QED BY <1>1, <1>2

LEMMA AskedAnswered ==
  ASSUME NEW P, NEW n \in Nat, NEW k, Answers(P[n + 1]), P[n + 1].key = k
  PROVE  Asked(P, n + 1, k) = {}
<1> SUFFICES ASSUME NEW i \in Asked(P, n + 1, k) PROVE FALSE
  OBVIOUS
<1>1. /\ i \in 1 .. n + 1 /\ Sent(P[i])
      /\ \A r \in i + 1 .. n + 1 : ~(P[r].key = k /\ Answers(P[r]))
  BY DEF Asked
<1>2. i # n + 1
  BY <1>1 DEF Sent, Answers
<1>3. n + 1 \in i + 1 .. n + 1
  BY <1>1, <1>2
<1> QED BY <1>1, <1>3

LEMMA AskedAgain ==
  ASSUME NEW P, NEW n \in Nat, NEW k, Sent(P[n + 1]), P[n + 1].key = k
  PROVE  Asked(P, n + 1, k) = Asked(P, n, k) \cup {n + 1}
<1>1. ASSUME NEW i \in Asked(P, n, k) PROVE i \in Asked(P, n + 1, k)
  <2>1. /\ i \in 1 .. n /\ P[i].key = k /\ Sent(P[i])
        /\ \A r \in i + 1 .. n : ~(P[r].key = k /\ Answers(P[r]))
    BY DEF Asked
  <2>2. \A r \in i + 1 .. n + 1 : r = n + 1 \/ r \in i + 1 .. n
    BY <2>1
  <2>3. ~Answers(P[n + 1])
    BY DEF Answers, Sent
  <2>4. i \in 1 .. n + 1
    BY <2>1
  <2> QED BY <2>1, <2>2, <2>3, <2>4 DEF Asked
<1>2. n + 1 \in Asked(P, n + 1, k)
  <2>1. n + 1 \in 1 .. n + 1 /\ \A r \in (n + 1) + 1 .. n + 1 : FALSE
    OBVIOUS
  <2> QED BY <2>1 DEF Asked
<1>3. ASSUME NEW i \in Asked(P, n + 1, k), i # n + 1 PROVE i \in Asked(P, n, k)
  <2>1. /\ i \in 1 .. n + 1 /\ P[i].key = k /\ Sent(P[i])
        /\ \A r \in i + 1 .. n + 1 : ~(P[r].key = k /\ Answers(P[r]))
    BY DEF Asked
  <2>2. i \in 1 .. n /\ \A r \in i + 1 .. n : r \in i + 1 .. n + 1
    BY <1>3, <2>1
  <2> QED BY <2>1, <2>2 DEF Asked
<1> QED BY <1>1, <1>2, <1>3

LEMMA ClosingNext ==
  ASSUME NEW P, NEW n \in Nat
  PROVE  /\ P[n + 1].ambiguous \/ P[n + 1].isResponse => Closing(P, n + 1) = Closing(P, n) \cup {n + 1}
         /\ ~(P[n + 1].ambiguous \/ P[n + 1].isResponse) => Closing(P, n + 1) = Closing(P, n)
         /\ n + 1 \notin Closing(P, n) /\ IsFiniteSet(Closing(P, n))
<1>1. \A i : i \in 1 .. n + 1 <=> i \in 1 .. n \/ i = n + 1
  OBVIOUS
<1>2. n + 1 \notin 1 .. n
  OBVIOUS
<1>3. IsFiniteSet(1 .. n) /\ Closing(P, n) \in SUBSET (1 .. n)
  BY FS_Interval DEF Closing
<1>4. IsFiniteSet(Closing(P, n))
  BY <1>3, FS_Subset
<1> QED BY <1>1, <1>2, <1>4 DEF Closing

\* The first and the last of some numbers, and of one more that is greater.
LEMMA LatestIsNew ==
  ASSUME NEW n \in Nat, NEW S \in SUBSET (1 .. n)
  PROVE  LatestOf(S \cup {n + 1}) = n + 1
<1>1. \A i \in S : i <= n + 1 /\ (i >= n + 1 => i = n + 1)
  OBVIOUS
<1>2. PICK T : T = S \cup {n + 1}
  OBVIOUS
<1>3. PICK m : m = n + 1
  OBVIOUS
<1>4. m \in T /\ \A j \in T : m >= j
  BY <1>1, <1>2, <1>3
<1>5. \A i \in T : (\A j \in T : i >= j) => i = m
  BY <1>1, <1>2, <1>3
<1>6. LatestOf(T) = m
  BY <1>4, <1>5 DEF LatestOf
<1> QED BY <1>2, <1>3, <1>6

LEMMA EarliestIs ==
  ASSUME NEW T \in SUBSET Nat, NEW m \in T, \A j \in T : m <= j
  PROVE  EarliestOf(T) = m
<1>1. \A i \in T : (\A j \in T : i <= j) => i = m
  <2>1. ASSUME NEW i \in T, \A j \in T : i <= j PROVE i = m
    <3>1. i <= m /\ m <= i /\ i \in Nat /\ m \in Nat
      BY <2>1
    <3> QED BY <3>1
  <2> QED BY <2>1
<1> QED BY <1>1 DEF EarliestOf

LEMMA EarliestIsNew ==
  ASSUME NEW n \in Nat
  PROVE  EarliestOf({n + 1}) = n + 1
<1>1. PICK T : T = {n + 1}
  OBVIOUS
<1>2. PICK m : m = n + 1
  OBVIOUS
<1>3. T \in SUBSET Nat /\ m \in T /\ \A j \in T : m <= j
  BY <1>1, <1>2
<1> QED BY <1>1, <1>2, <1>3, EarliestIs

LEMMA EarliestStays ==
  ASSUME NEW n \in Nat, NEW S \in SUBSET (1 .. n), S # {}
  PROVE  EarliestOf(S) \in S /\ EarliestOf(S \cup {n + 1}) = EarliestOf(S)
<1>1. S \in SUBSET Nat
  OBVIOUS
<1>2. PICK m \in S : \A j \in S : m <= j
  BY <1>1, Least
<1>3. PICK T : T = S \cup {n + 1}
  OBVIOUS
<1>4. m <= n + 1
  OBVIOUS
<1>5. T \in SUBSET Nat /\ m \in T /\ \A j \in T : m <= j
  BY <1>1, <1>2, <1>3, <1>4
<1>6. EarliestOf(S) = m
  BY <1>1, <1>2, EarliestIs
<1>7. EarliestOf(T) = m
  BY <1>5, EarliestIs
<1> QED BY <1>3, <1>6, <1>7

LEMMA AskedSize ==
  ASSUME NEW P, NEW n \in Nat, NEW k
  PROVE  /\ Asked(P, n, k) \in SUBSET (1 .. n) /\ IsFiniteSet(Asked(P, n, k))
         /\ Cardinality(Asked(P, n, k)) \in Nat
         /\ Cardinality(Asked(P, n, k) \cup {n + 1}) = Cardinality(Asked(P, n, k)) + 1
<1>1. Asked(P, n, k) \in SUBSET (1 .. n) /\ IsFiniteSet(1 .. n)
  BY FS_Interval DEF Asked
<1>2. IsFiniteSet(Asked(P, n, k)) /\ Cardinality(Asked(P, n, k)) \in Nat
  BY <1>1, FS_Subset, FS_CardinalityType
<1>3. n + 1 \notin Asked(P, n, k)
  BY <1>1
<1> QED BY <1>1, <1>2, <1>3, FS_AddElement

-----------------------------------------------------------------------------
(* What the loop has made of the first n packets *)

\* a pending request is one exchange that is open
Exchange(P, n, r) ==
  /\ {"key", "first", "attempts", "deadline"} \subseteq DOMAIN r
  /\ Asked(P, n, r.key) # {}
  /\ r.attempts = Cardinality(Asked(P, n, r.key))
  /\ r.first = P[EarliestOf(Asked(P, n, r.key))].time
  /\ r.deadline = P[LatestOf(Asked(P, n, r.key))].time + timeoutMs
Listed(list) == list \in Seq(ToSet(list))
PendingInv(P, n, list) ==
  /\ Listed(list) /\ Distinct(list)
  /\ \A r \in ToSet(list) : Exchange(P, n, r)
  /\ \A k : Asked(P, n, k) # {} => \E r \in ToSet(list) : r.key = k

\* what of a row the property is about, and what it says of the packet that closed it
BriefOf(row) ==
  [state |-> row.state, attempts |-> row.attempts, first |-> row.first,
   response |-> IF row.state = "ambiguous" THEN None ELSE row.responseTime]
FirstTime(P, S) == IF S = {} THEN None ELSE P[EarliestOf(S)].time
AnswerState(P, j, S) ==
  IF S = {} THEN "orphan-response"
  ELSE IF P[j].time > P[LatestOf(S)].time + timeoutMs THEN "late-response" ELSE "answered"
BriefOfClosing(P, j, S) ==
  IF P[j].ambiguous
  THEN [state |-> "ambiguous", attempts |-> IF P[j].isResponse THEN 0 ELSE 1,
        first |-> IF P[j].isResponse THEN None ELSE P[j].time, response |-> None]
  ELSE [state |-> AnswerState(P, j, S), attempts |-> Cardinality(S),
        first |-> FirstTime(P, S), response |-> P[j].time]
BriefAt(P, j) == BriefOfClosing(P, j, Asked(P, j - 1, P[j].key))
RowsInv(P, n, rows) ==
  /\ Listed(rows) /\ Len(rows) = Cardinality(Closing(P, n))
  /\ {BriefOf(row) : row \in ToSet(rows)} = {BriefAt(P, j) : j \in Closing(P, n)}

LEMMA ListedIn ==
  ASSUME NEW R, NEW list \in Seq(R) PROVE Listed(list)
<1>1. PICK last \in Nat : last = Len(list) /\ DOMAIN list = 1 .. last /\ list \in [1 .. last -> R]
  OBVIOUS
<1>2. PICK S : S = ToSet(list)
  OBVIOUS
<1>3. list \in [1 .. last -> S]
  BY <1>1, <1>2 DEF ToSet
<1>4. list \in Seq(S)
  BY <1>3
<1> QED BY <1>2, <1>4 DEF Listed

LEMMA ListedAppend ==
  ASSUME NEW list, Listed(list), NEW x
  PROVE  Listed(Append(list, x)) /\ ToSet(Append(list, x)) = ToSet(list) \cup {x} /\ Len(Append(list, x)) = Len(list) + 1
<1>1. PICK R : R = ToSet(list) \cup {x}
  OBVIOUS
<1>2. list \in Seq(R) /\ x \in R
  BY <1>1, SeqMonotonic DEF Listed
<1>3. ToSet(Append(list, x)) = ToSet(list) \cup {x} /\ Append(list, x) \in Seq(R)
  BY <1>2, AppendRange
<1>4. Len(Append(list, x)) = Len(list) + 1
  BY <1>2
<1> QED BY <1>1, <1>3, <1>4 DEF Listed

LEMMA RowAdded ==
  ASSUME NEW P, NEW n \in Nat, NEW rows, RowsInv(P, n, rows), P[n + 1].ambiguous \/ P[n + 1].isResponse,
         NEW row, BriefOf(row) = BriefOfClosing(P, n + 1, Asked(P, n, P[n + 1].key))
  PROVE  RowsInv(P, n + 1, Append(rows, row))
<1>1. (n + 1) - 1 = n
  OBVIOUS
<1>2. BriefOf(row) = BriefAt(P, n + 1)
  BY <1>1 DEF BriefAt
<1>3. /\ Closing(P, n + 1) = Closing(P, n) \cup {n + 1}
      /\ n + 1 \notin Closing(P, n) /\ IsFiniteSet(Closing(P, n))
  BY ClosingNext
<1>4. Cardinality(Closing(P, n + 1)) = Cardinality(Closing(P, n)) + 1
  BY <1>3, FS_AddElement
<1>5. PICK more : more = Append(rows, row)
  OBVIOUS
<1>6. Listed(more) /\ ToSet(more) = ToSet(rows) \cup {row} /\ Len(more) = Len(rows) + 1
  BY <1>5, ListedAppend DEF RowsInv
<1>7. Len(more) = Cardinality(Closing(P, n + 1))
  BY <1>4, <1>6 DEF RowsInv
<1>8. {BriefOf(r) : r \in ToSet(more)} = {BriefAt(P, j) : j \in Closing(P, n + 1)}
  <2>1. PICK A : A = {BriefOf(r) : r \in ToSet(rows)} /\ A = {BriefAt(P, j) : j \in Closing(P, n)}
    BY DEF RowsInv
  <2>2. {BriefOf(r) : r \in ToSet(more)} = A \cup {BriefOf(row)}
    BY <1>6, <2>1
  <2>3. {BriefAt(P, j) : j \in Closing(P, n + 1)} = A \cup {BriefAt(P, n + 1)}
    BY <1>3, <2>1
  <2> QED BY <1>2, <2>2, <2>3
<1> QED BY <1>5, <1>6, <1>7, <1>8 DEF RowsInv

LEMMA RowsStay ==
  ASSUME NEW P, NEW n \in Nat, NEW rows, RowsInv(P, n, rows), ~(P[n + 1].ambiguous \/ P[n + 1].isResponse)
  PROVE  RowsInv(P, n + 1, rows)
<1>1. Closing(P, n + 1) = Closing(P, n)
  BY ClosingNext
<1> QED BY <1>1 DEF RowsInv

\* Whom a packet does not concern stays as it is.
LEMMA PendingStays ==
  ASSUME NEW P, NEW n, NEW m, NEW list, PendingInv(P, n, list), \A k : Asked(P, m, k) = Asked(P, n, k)
  PROVE  PendingInv(P, m, list)
BY DEF PendingInv, Exchange

\* The row of a transaction.
LEMMA BriefOfTransaction ==
  ASSUME NEW id, NEW state, NEW about, NEW answer
  PROVE  BriefOf(Transaction(id, state, about, answer)) =
           [state |-> state, attempts |-> about.attempts, first |-> about.first,
            response |-> IF state = "ambiguous" THEN None ELSE answer.time]
BY DEF BriefOf, Transaction

CorrelationInv(P, n, acc) ==
  /\ acc = [pending |-> acc.pending, rows |-> acc.rows]
  /\ PendingInv(P, n, acc.pending) /\ RowsInv(P, n, acc.rows)

LEMMA AmbiguousAgrees ==
  ASSUME NEW P, NEW n \in Nat, NEW acc, CorrelationInv(P, n, acc), P[n + 1].ambiguous
  PROVE  CorrelationInv(P, n + 1, Ambiguous(acc, P[n + 1]))
<1>1. PICK p : p = P[n + 1]
  OBVIOUS
<1> DEFINE about == Unpaired(p, IF p.isResponse THEN 0 ELSE 1)
           answer == IF p.isResponse THEN [NoAnswer EXCEPT !.time = p.time, !.rcode = p.rcode]
                     ELSE [NoAnswer EXCEPT !.rcode = p.rcode]
           id == <<"ambiguous", p.key, p.time, Len(acc.rows)>>
           row == Transaction(id, "ambiguous", about, answer)
<1>2. Ambiguous(acc, p) = [acc EXCEPT !.rows = Append(acc.rows, row)]
  BY DEF Ambiguous
<1>3. about.attempts = (IF p.isResponse THEN 0 ELSE 1) /\ about.first = IF p.isResponse THEN None ELSE p.time
  BY DEF Unpaired
<1> HIDE DEF about, answer, id
<1>4. BriefOf(row) = [state |-> "ambiguous", attempts |-> about.attempts, first |-> about.first, response |-> None]
  BY BriefOfTransaction
<1> HIDE DEF row
<1>5. BriefOf(row) = BriefOfClosing(P, n + 1, Asked(P, n, P[n + 1].key))
  BY <1>1, <1>3, <1>4 DEF BriefOfClosing
<1>6. RowsInv(P, n + 1, Append(acc.rows, row))
  BY <1>5, RowAdded DEF CorrelationInv
<1>7. \A k : Asked(P, n + 1, k) = Asked(P, n, k)
  BY AskedOthers
<1>8. PendingInv(P, n + 1, acc.pending)
  BY <1>7, PendingStays DEF CorrelationInv
<1>9. Ambiguous(acc, P[n + 1]) = [pending |-> acc.pending, rows |-> Append(acc.rows, row)]
  BY <1>1, <1>2 DEF CorrelationInv
<1> QED BY <1>6, <1>8, <1>9 DEF CorrelationInv

\* Whether a key is waited for can be seen from the pending requests.
LEMMA WaitedFor ==
  ASSUME NEW P, NEW n, NEW list, PendingInv(P, n, list), NEW k
  PROVE  {i \in DOMAIN list : list[i].key = k} = {} <=> Asked(P, n, k) = {}
<1>1. \A r \in ToSet(list) : \E i \in DOMAIN list : r = list[i]
  BY DEF ToSet
<1>2. \A i \in DOMAIN list : list[i] \in ToSet(list)
  BY DEF ToSet
<1>3. ASSUME Asked(P, n, k) # {} PROVE {i \in DOMAIN list : list[i].key = k} # {}
  <2>1. PICK r \in ToSet(list) : r.key = k
    BY <1>3 DEF PendingInv
  <2> QED BY <1>1, <2>1
<1>4. ASSUME NEW i \in DOMAIN list, list[i].key = k PROVE Asked(P, n, k) # {}
  BY <1>2, <1>4 DEF PendingInv, Exchange
<1> QED BY <1>3, <1>4

LEMMA ResponseAgrees ==
  ASSUME NEW P, NEW n \in Nat, NEW acc, CorrelationInv(P, n, acc), ~P[n + 1].ambiguous, P[n + 1].isResponse
  PROVE  CorrelationInv(P, n + 1, Response(acc, P[n + 1]))
<1>1. PICK p, k : p = P[n + 1] /\ k = p.key
  OBVIOUS
<1>2. PICK list, S : list = acc.pending /\ PendingInv(P, n, list) /\ S = Asked(P, n, k)
  BY DEF CorrelationInv
<1> DEFINE same == {i \in DOMAIN list : list[i].key = k}
           entry == list[CHOOSE i \in same : TRUE]
           others == {r \in ToSet(list) : r.key # k}
           orphan == Transaction(<<"orphan", k, p.time>>, "orphan-response", Unpaired(p, 0), p)
           state == IF p.time > entry.deadline THEN "late-response" ELSE "answered"
           row == Transaction(<<k, entry.first>>, state, entry, p)
<1>3. Response(acc, p) = IF same = {} THEN [acc EXCEPT !.rows = Append(acc.rows, orphan)]
                         ELSE [pending |-> Among(list, others), rows |-> Append(acc.rows, row)]
  BY <1>1, <1>2, Zenon DEF Response
<1>4. same = {} <=> S = {}
  BY <1>2, WaitedFor
<1>5. BriefOf(orphan) = [state |-> "orphan-response", attempts |-> 0, first |-> None, response |-> p.time]
  <2>1. Unpaired(p, 0).attempts = 0 /\ Unpaired(p, 0).first = None
    BY DEF Unpaired
  <2> QED BY <2>1, BriefOfTransaction
<1>6. same # {} => entry \in ToSet(list) /\ entry.key = k
  <2>1. \A i \in same : list[i] \in ToSet(list) /\ list[i].key = k
    BY DEF ToSet
  <2>2. same # {} => (CHOOSE i \in same : TRUE) \in same
    OBVIOUS
  <2> QED BY <2>1, <2>2
<1> HIDE DEF entry, same
<1>7. BriefOf(row) = [state |-> state, attempts |-> entry.attempts, first |-> entry.first, response |-> p.time]
  <2>1. state # "ambiguous"
    OBVIOUS
  <2> HIDE DEF state
  <2> QED BY <2>1, BriefOfTransaction
<1> HIDE DEF row, orphan
<1>8. Asked(P, n + 1, k) = {} /\ \A o : o # k => Asked(P, n + 1, o) = Asked(P, n, o)
  BY <1>1, AskedAnswered, AskedOthers DEF Answers
<1>9. CASE S = {}
  <2>1. \A o : Asked(P, n + 1, o) = Asked(P, n, o)
    BY <1>2, <1>8, <1>9
  <2>2. PendingInv(P, n + 1, list)
    BY <1>2, <2>1, PendingStays
  <2>3. BriefOf(orphan) = BriefOfClosing(P, n + 1, S)
    BY <1>1, <1>5, <1>9, FS_EmptySet DEF BriefOfClosing, AnswerState, FirstTime
  <2>4. RowsInv(P, n + 1, Append(acc.rows, orphan))
    BY <1>1, <1>2, <2>3, RowAdded DEF CorrelationInv
  <2>5. Response(acc, P[n + 1]) = [pending |-> list, rows |-> Append(acc.rows, orphan)]
    BY <1>1, <1>2, <1>3, <1>4, <1>9 DEF CorrelationInv
  <2> QED BY <2>2, <2>4, <2>5 DEF CorrelationInv
<1>10. CASE S # {}
  <2>1. entry \in ToSet(list) /\ entry.key = k /\ Exchange(P, n, entry)
    BY <1>2, <1>4, <1>6, <1>10 DEF PendingInv
  <2>2. /\ entry.attempts = Cardinality(S) /\ entry.first = P[EarliestOf(S)].time
        /\ entry.deadline = P[LatestOf(S)].time + timeoutMs
    BY <1>2, <2>1 DEF Exchange
  <2>3. state = AnswerState(P, n + 1, S)
    BY <1>1, <1>10, <2>2 DEF AnswerState
  <2>4. BriefOf(row) = BriefOfClosing(P, n + 1, S)
    BY <1>1, <1>7, <1>10, <2>2, <2>3 DEF BriefOfClosing, FirstTime
  <2>5. RowsInv(P, n + 1, Append(acc.rows, row))
    BY <1>1, <1>2, <2>4, RowAdded DEF CorrelationInv
  <2>6. PICK R : R = ToSet(list) /\ list \in Seq(R) /\ Distinct(list)
    BY <1>2 DEF PendingInv, Listed
  <2>7. PICK kept \in Seq(R) : kept = Among(list, others) /\ ToSet(kept) = R \cap others /\ Distinct(kept)
    <3>1. Among(list, others) \in Seq(R)
      BY <2>6, AmongOf
    <3>2. ToSet(Among(list, others)) = ToSet(list) \cap others
      BY <2>6, AmongType
    <3>3. Distinct(Among(list, others))
      BY <2>6, AmongDistinct DEF KeptDistinct
    <3> QED BY <2>6, <3>1, <3>2, <3>3
  <2>8. Listed(kept)
    BY ListedIn
  <2>9. \A r \in ToSet(kept) : Exchange(P, n + 1, r)
    <3>1. \A r \in ToSet(kept) : r.key # k /\ Exchange(P, n, r)
      BY <1>2, <2>6, <2>7 DEF PendingInv
    <3> QED BY <1>8, <3>1 DEF Exchange
  <2>10. ASSUME NEW o, Asked(P, n + 1, o) # {} PROVE \E r \in ToSet(kept) : r.key = o
    <3>1. o # k /\ Asked(P, n, o) # {}
      BY <1>8, <2>10
    <3>2. PICK r \in ToSet(list) : r.key = o
      BY <1>2, <3>1 DEF PendingInv
    <3>3. r \in R \cap others
      BY <2>6, <3>1, <3>2
    <3> QED BY <2>7, <3>2, <3>3
  <2>11. PendingInv(P, n + 1, kept)
    BY <2>7, <2>8, <2>9, <2>10 DEF PendingInv
  <2>12. Response(acc, P[n + 1]) = [pending |-> kept, rows |-> Append(acc.rows, row)]
    BY <1>1, <1>3, <1>4, <1>10, <2>7
  <2> QED BY <2>5, <2>11, <2>12 DEF CorrelationInv
<1> QED BY <1>9, <1>10

LEMMA ExchangeBegins ==
  ASSUME NEW P, NEW n \in Nat, Sent(P[n + 1]), Asked(P, n, P[n + 1].key) = {},
         NEW r, {"key", "first", "attempts", "deadline"} \subseteq DOMAIN r,
         r.key = P[n + 1].key, r.first = P[n + 1].time, r.attempts = 1,
         r.deadline = P[n + 1].time + timeoutMs
  PROVE  Exchange(P, n + 1, r)
<1>1. PICK m \in Nat : m = n + 1
  OBVIOUS
<1>2. Asked(P, n + 1, r.key) = {} \cup {n + 1}
  BY AskedAgain
<1>3. Cardinality({} \cup {n + 1}) = 1
  BY FS_Singleton
<1>4. EarliestOf({} \cup {n + 1}) = n + 1
  <2>1. {} \cup {n + 1} = {n + 1}
    OBVIOUS
  <2> QED BY <2>1, EarliestIsNew
<1>5. LatestOf({} \cup {n + 1}) = n + 1
  BY LatestIsNew
<1> QED BY <1>2, <1>3, <1>4, <1>5 DEF Exchange

LEMMA ExchangeRetried ==
  ASSUME NEW P, NEW n \in Nat, Sent(P[n + 1]),
         NEW old, Exchange(P, n, old), old.key = P[n + 1].key,
         NEW r, {"key", "first", "attempts", "deadline"} \subseteq DOMAIN r,
         r.key = P[n + 1].key, r.first = old.first, r.attempts = old.attempts + 1,
         r.deadline = P[n + 1].time + timeoutMs
  PROVE  Exchange(P, n + 1, r)
<1>1. PICK S : S = Asked(P, n, r.key)
  OBVIOUS
<1>2. S \in SUBSET (1 .. n) /\ Cardinality(S \cup {n + 1}) = Cardinality(S) + 1
  BY <1>1, AskedSize
<1>3. S # {} /\ old.attempts = Cardinality(S) /\ old.first = P[EarliestOf(S)].time
  BY <1>1 DEF Exchange
<1>4. PICK T : T = S \cup {n + 1} /\ T = Asked(P, n + 1, r.key)
  <2>1. PICK k : k = P[n + 1].key
    OBVIOUS
  <2>2. Asked(P, n + 1, k) = Asked(P, n, k) \cup {n + 1}
    BY ONLY Sent(P[n + 1]), n \in Nat, <2>1, AskedAgain
  <2> QED BY <1>1, <2>1, <2>2
<1>5. EarliestOf(T) = EarliestOf(S)
  BY <1>2, <1>3, <1>4, EarliestStays
<1>6. LatestOf(T) = n + 1
  BY <1>2, <1>4, LatestIsNew
<1>7. r.attempts = Cardinality(T)
  BY <1>2, <1>3, <1>4
<1>8. T # {}
  BY <1>4
<1>9. r.first = P[EarliestOf(T)].time
  BY <1>3, <1>5
<1>10. r.deadline = P[LatestOf(T)].time + timeoutMs
  BY <1>6
<1> QED BY <1>4, <1>7, <1>8, <1>9, <1>10 DEF Exchange

LEMMA ListedIs ==
  ASSUME NEW last \in Nat, NEW list, list = [i \in 1 .. last |-> list[i]]
  PROVE  Listed(list) /\ ToSet(list) = {list[i] : i \in 1 .. last}
<1>1. PICK S : S = {list[i] : i \in 1 .. last}
  OBVIOUS
<1>2. list \in [1 .. last -> S]
  BY <1>1
<1>3. list \in Seq(S) /\ DOMAIN list = 1 .. last
  BY <1>2
<1>4. ToSet(list) = S
  BY <1>1, <1>3 DEF ToSet
<1> QED BY <1>1, <1>3, <1>4, ListedIn

LEMMA RequestAgrees ==
  ASSUME NEW P, NEW n \in Nat, NEW acc, CorrelationInv(P, n, acc), ~P[n + 1].ambiguous, ~P[n + 1].isResponse
  PROVE  CorrelationInv(P, n + 1, Request(acc, P[n + 1]))
<1>1. PICK p, k : p = P[n + 1] /\ k = p.key
  OBVIOUS
<1>2. PICK list, S : list = acc.pending /\ PendingInv(P, n, list) /\ S = Asked(P, n, k)
  BY DEF CorrelationInv
<1> DEFINE same == {i \in DOMAIN list : list[i].key = k}
           new  == [requester |-> p.requester, nameserver |-> p.nameserver, key |-> k,
                    first |-> p.time, latest |-> p.time, attempts |-> 1,
                    deadline |-> p.time + timeoutMs,
                    requesterMeta |-> p.requesterMeta, resolverMeta |-> p.resolverMeta,
                    resolverK8s |-> p.resolverK8s]
           Retried(r) == [r EXCEPT !.attempts = @ + 1, !.latest = p.time, !.deadline = p.time + timeoutMs,
                    !.requesterMeta = Prefer(@, p.requesterMeta),
                    !.resolverMeta = Prefer(@, p.resolverMeta), !.resolverK8s = Prefer(@, p.resolverK8s)]
           retried == [i \in DOMAIN list |-> IF i \in same THEN Retried(list[i]) ELSE list[i]]
           pending == IF same = {} THEN Append(list, new) ELSE retried
           Fields(r) == {"key", "first", "attempts", "deadline"} \subseteq DOMAIN r
<1>3. Request(acc, p) = [acc EXCEPT !.pending = pending]
  BY <1>1, <1>2, Zenon DEF Request
<1>4. same = {} <=> S = {}
  BY <1>2, WaitedFor
<1>5. /\ Fields(new) /\ new.key = k /\ new.first = p.time /\ new.attempts = 1
      /\ new.deadline = p.time + timeoutMs
  OBVIOUS
<1>6. ASSUME NEW r, Fields(r)
      PROVE  /\ Fields(Retried(r)) /\ Retried(r).key = r.key /\ Retried(r).first = r.first
             /\ Retried(r).attempts = r.attempts + 1 /\ Retried(r).deadline = p.time + timeoutMs
  BY <1>6
<1> HIDE DEF Retried, new
<1>7. Sent(P[n + 1])
  BY DEF Sent
<1>8. /\ Asked(P, n + 1, k) = S \cup {n + 1}
      /\ \A o : o # k => Asked(P, n + 1, o) = Asked(P, n, o)
  <2>1. Asked(P, n + 1, k) = Asked(P, n, k) \cup {n + 1}
    BY <1>1, <1>7, AskedAgain
  <2>2. ASSUME NEW o, o # k PROVE Asked(P, n + 1, o) = Asked(P, n, o)
    BY <1>1, <2>2, AskedOthers
  <2> QED BY <1>2, <2>1, <2>2
<1>9. RowsInv(P, n + 1, acc.rows)
  BY RowsStay DEF CorrelationInv
<1>10. PICK R : R = ToSet(list) /\ list \in Seq(R) /\ Distinct(list)
  BY <1>2 DEF PendingInv, Listed
<1>11. PICK last \in Nat : last = Len(list) /\ DOMAIN list = 1 .. last
  BY <1>10
<1>12. \A i \in 1 .. last : list[i] \in R /\ Exchange(P, n, list[i])
  BY <1>2, <1>10, <1>11 DEF PendingInv, ToSet
<1>13. \A r : Exchange(P, n, r) /\ r.key # k => Exchange(P, n + 1, r)
  BY <1>8 DEF Exchange
<1>14. CASE S = {}
  <2>1. PICK more : more = Append(list, new)
    OBVIOUS
  <2>2. Listed(more) /\ ToSet(more) = R \cup {new}
    BY <1>2, <1>10, <2>1, ListedAppend DEF PendingInv
  <2>3. /\ DOMAIN more = 1 .. last + 1 /\ more[last + 1] = new
        /\ \A i \in 1 .. last : more[i] = list[i]
    <3>1. list \in Seq(R \cup {new}) /\ new \in R \cup {new}
      BY <1>10, SeqMonotonic
    <3> QED BY <1>11, <2>1, <3>1
  <2>4. \A i \in 1 .. last : list[i].key # k
    BY <1>4, <1>11, <1>14
  <2>5. Distinct(more)
    <3>1. \A i \in 1 .. last + 1 : i = last + 1 \/ i \in 1 .. last
      OBVIOUS
    <3>2. \A i, j \in 1 .. last : list[i].key = list[j].key => i = j
      BY <1>10, <1>11 DEF Distinct
    <3> QED BY <1>5, <2>3, <2>4, <3>1, <3>2 DEF Distinct
  <2>6. Exchange(P, n + 1, new)
    <3>1. Asked(P, n, P[n + 1].key) = {}
      BY <1>1, <1>2, <1>14
    <3> QED BY <1>1, <1>5, <1>7, <3>1, ExchangeBegins
  <2>7. \A r \in R : r.key # k /\ Exchange(P, n, r)
    <3>1. \A r \in R : \E i \in 1 .. last : r = list[i]
      BY <1>10, <1>11 DEF ToSet
    <3> QED BY <1>12, <2>4, <3>1
  <2>8. \A r \in ToSet(more) : Exchange(P, n + 1, r)
    BY <1>13, <2>2, <2>6, <2>7
  <2>9. ASSUME NEW o, Asked(P, n + 1, o) # {} PROVE \E r \in ToSet(more) : r.key = o
    <3>1. CASE o = k
      BY <1>5, <2>2, <3>1
    <3>2. CASE o # k
      <4>1. Asked(P, n, o) # {}
        BY <1>8, <2>9, <3>2
      <4>2. \E r \in R : r.key = o
        BY <1>2, <1>10, <4>1 DEF PendingInv
      <4> QED BY <2>2, <4>2
    <3> QED BY <3>1, <3>2
  <2>10. PendingInv(P, n + 1, more)
    BY <2>2, <2>5, <2>8, <2>9 DEF PendingInv
  <2>11. Request(acc, P[n + 1]) = [pending |-> more, rows |-> acc.rows]
    BY <1>1, <1>3, <1>4, <1>14, <2>1 DEF CorrelationInv
  <2> QED BY <1>9, <2>10, <2>11 DEF CorrelationInv
<1>15. CASE S # {}
  <2>1. PICK more : more = retried
    OBVIOUS
  <2>2. \A i \in 1 .. last : more[i] = IF list[i].key = k THEN Retried(list[i]) ELSE list[i]
    BY <1>11, <2>1
  <2>3. Listed(more) /\ ToSet(more) = {more[i] : i \in 1 .. last} /\ DOMAIN more = 1 .. last
    <3>1. more = [i \in 1 .. last |-> more[i]]
      BY <1>11, <2>1
    <3> QED BY <3>1, ListedIs
  <2> HIDE DEF retried
  <2>4. \A i \in 1 .. last : more[i].key = list[i].key
    <3>1. \A i \in 1 .. last : Fields(list[i])
      BY <1>12 DEF Exchange
    <3> QED BY <1>6, <2>2, <3>1
  <2>5. Distinct(more)
    BY <1>10, <1>11, <2>3, <2>4 DEF Distinct
  <2>6. ASSUME NEW i \in 1 .. last PROVE Exchange(P, n + 1, more[i])
    <3>1. Exchange(P, n, list[i]) /\ Fields(list[i])
      BY <1>12 DEF Exchange
    <3>2. CASE list[i].key # k
      BY <1>13, <2>2, <3>1, <3>2
    <3>3. CASE list[i].key = k
      <4>1. PICK old, r : old = list[i] /\ r = Retried(old)
        OBVIOUS
      <4>2. /\ Exchange(P, n, old) /\ old.key = P[n + 1].key
            /\ Fields(r) /\ r.key = P[n + 1].key /\ r.first = old.first
            /\ r.attempts = old.attempts + 1 /\ r.deadline = P[n + 1].time + timeoutMs
        BY <1>1, <1>6, <3>1, <3>3, <4>1
      <4>3. Exchange(P, n + 1, r)
        BY <1>7, <4>2, ExchangeRetried
      <4> QED BY <2>2, <3>3, <4>1, <4>3
    <3> QED BY <3>2, <3>3
  <2>7. \A r \in ToSet(more) : Exchange(P, n + 1, r)
    BY <2>3, <2>6
  <2>8. ASSUME NEW o, Asked(P, n + 1, o) # {} PROVE \E r \in ToSet(more) : r.key = o
    <3>1. Asked(P, n, o) # {}
      BY <1>2, <1>8, <1>15, <2>8
    <3>2. PICK r \in ToSet(list) : r.key = o
      BY <1>2, <3>1 DEF PendingInv
    <3>3. PICK i \in 1 .. last : r = list[i]
      BY <1>11, <3>2 DEF ToSet
    <3> QED BY <2>3, <2>4, <3>2, <3>3
  <2>9. PendingInv(P, n + 1, more)
    BY <2>3, <2>5, <2>7, <2>8 DEF PendingInv
  <2>10. Request(acc, P[n + 1]) = [pending |-> more, rows |-> acc.rows]
    BY <1>1, <1>3, <1>4, <1>15, <2>1 DEF CorrelationInv
  <2> QED BY <1>9, <2>9, <2>10 DEF CorrelationInv
<1> QED BY <1>14, <1>15

LEMMA CorrelatedAgrees ==
  ASSUME NEW P, NEW n \in Nat, NEW acc, CorrelationInv(P, n, acc)
  PROVE  CorrelationInv(P, n + 1, Correlated(acc, P[n + 1]))
BY AmbiguousAgrees, ResponseAgrees, RequestAgrees DEF Correlated

\* The loop is done: it holds of all packets.
LEMMA LoopAgrees ==
  ASSUME NEW P, NEW last \in Nat, last = Len(P)
  PROVE  CorrelationInv(P, last, CorrelationOf(P))
<1> DEFINE Loop(f) == f = [n \in 0 .. last |-> IF n = 0 THEN NothingYet ELSE Correlated(f[n - 1], P[n])]
           loop == CHOOSE f : Loop(f)
<1>1. CorrelationOf(P) = loop[last]
  BY Zenon DEF CorrelationOf
<1>2. Loop(loop)
  <2>1. \E f : Loop(f)
    BY CorrelationRuns DEF CorrelationLoop
  <2> HIDE DEF Loop
  <2> QED BY <2>1, Zenon
<1> HIDE DEF loop
<1>3. \A n \in 0 .. last : loop[n] = IF n = 0 THEN NothingYet ELSE Correlated(loop[n - 1], P[n])
  BY <1>2
<1> HIDE DEF Loop
<1> DEFINE T == {n \in Nat : n <= last => CorrelationInv(P, n, loop[n])}
<1>4. 0 \in T
  <2>1. loop[0] = [pending |-> <<>>, rows |-> <<>>]
    BY <1>3 DEF NothingYet
  <2>2. <<>> \in Seq({}) /\ ToSet(<<>>) = {} /\ DOMAIN <<>> = {} /\ Len(<<>>) = 0
    BY DEF ToSet
  <2>3. Listed(<<>>) /\ Distinct(<<>>)
    BY <2>2 DEF Listed, Distinct
  <2>4. \A k : Asked(P, 0, k) = {}
    BY DEF Asked
  <2>5. Closing(P, 0) = {}
    BY DEF Closing
  <2>6. PendingInv(P, 0, <<>>)
    BY <2>2, <2>3, <2>4 DEF PendingInv
  <2>7. RowsInv(P, 0, <<>>)
    BY <2>2, <2>3, <2>5, FS_EmptySet DEF RowsInv
  <2> QED BY <2>1, <2>6, <2>7 DEF CorrelationInv
<1>5. ASSUME NEW n \in T PROVE n + 1 \in T
  <2> SUFFICES ASSUME n + 1 <= last PROVE CorrelationInv(P, n + 1, loop[n + 1])
    OBVIOUS
  <2>1. n + 1 \in 0 .. last /\ n + 1 # 0 /\ (n + 1) - 1 = n /\ n <= last
    OBVIOUS
  <2>2. loop[n + 1] = Correlated(loop[n], P[n + 1])
    BY <1>3, <2>1
  <2>3. n \in Nat /\ CorrelationInv(P, n, loop[n])
    BY <2>1
  <2>4. PICK acc : acc = loop[n]
    OBVIOUS
  <2> QED BY <2>2, <2>3, <2>4, CorrelatedAgrees
<1>6. T = Nat
  <2> HIDE DEF T
  <2>1. T \in SUBSET Nat
    BY DEF T
  <2> QED BY <1>4, <1>5, <2>1, SetInduction
<1>7. last \in T => CorrelationInv(P, last, loop[last])
  OBVIOUS
<1> HIDE DEF T
<1> QED BY <1>1, <1>6, <1>7

-----------------------------------------------------------------------------
(* What the property expects, packet by packet *)

ExpectedRow(state, S, response) ==
  [state |-> state, attempts |-> Cardinality(S), response |-> response, asked |-> S]
ClosedRow(P, j) ==
  IF P[j].ambiguous
  THEN ExpectedRow("ambiguous", IF P[j].isResponse THEN {} ELSE {j}, j)
  ELSE ExpectedRow(AnswerState(P, j, Asked(P, j - 1, P[j].key)), Asked(P, j - 1, P[j].key), j)
OpenAt(P, n) == {i \in 1 .. n : i \in Asked(P, n, P[i].key)}
DeadlineOf(P, S) == P[LatestOf(S)].time + timeoutMs
TimedOutRow(P, n, k) == ExpectedRow("no-response", Asked(P, n, k), None)

ExpectedRows(P, n, now) ==
  {ClosedRow(P, j) : j \in Closing(P, n)}
    \cup {TimedOutRow(P, n, P[i].key)
            : i \in {i \in OpenAt(P, n) : now >= DeadlineOf(P, Asked(P, n, P[i].key))}}
ExpectedWaiting(P, n, now) ==
  {Asked(P, n, P[i].key) : i \in {i \in OpenAt(P, n) : now < DeadlineOf(P, Asked(P, n, P[i].key))}}

LEMMA ExpectedIs ==
  ASSUME NEW P, NEW n \in Nat, n = Len(P), DOMAIN P = 1 .. n, NEW now
  PROVE  /\ Expected(P, now).rows = ExpectedRows(P, n, now)
         /\ Expected(P, now).waiting = ExpectedWaiting(P, n, now)
<1> DEFINE SameKey(i, j) == P[i].key = P[j].key /\ ~P[i].ambiguous /\ ~P[j].ambiguous
           Between(i, j) == {r \in i + 1 .. j - 1 : SameKey(r, i) /\ P[r].isResponse}
           AskedFor(j) == {i \in 1 .. j - 1 : SameKey(i, j) /\ ~P[i].isResponse /\ Between(i, j) = {}}
           Open(i) == /\ ~P[i].ambiguous /\ ~P[i].isResponse
                      /\ \A j \in i + 1 .. n : SameKey(i, j) => ~P[j].isResponse
           TailOf(i) == {j \in 1 .. n : SameKey(i, j) /\ Open(j)}
           Answer(j) == ExpectedRow(AnswerState(P, j, AskedFor(j)), AskedFor(j), j)
           answers == {Answer(j) : j \in {j \in 1 .. n : P[j].isResponse /\ ~P[j].ambiguous}}
           single == {ExpectedRow("ambiguous", IF P[i].isResponse THEN {} ELSE {i}, i)
                        : i \in {i \in 1 .. n : P[i].ambiguous}}
           late == {ExpectedRow("no-response", TailOf(i), None)
                      : i \in {i \in 1 .. n : Open(i) /\ now >= DeadlineOf(P, TailOf(i))}}
           waiting == {TailOf(i) : i \in {i \in 1 .. n : Open(i) /\ now < DeadlineOf(P, TailOf(i))}}
<1>1. Expected(P, now).rows = answers \cup single \cup late /\ Expected(P, now).waiting = waiting
  BY SMTT(30) DEF Expected, ExpectedRow, AnswerState, DeadlineOf, LatestOf
<1>2. ASSUME NEW j \in 1 .. n, ~P[j].ambiguous PROVE AskedFor(j) = Asked(P, j - 1, P[j].key)
  BY <1>2 DEF Asked, Sent, Answers
<1>3. ASSUME NEW i \in 1 .. n PROVE Open(i) <=> i \in Asked(P, n, P[i].key)
  BY DEF Asked, Sent, Answers
<1>4. ASSUME NEW i \in 1 .. n, Open(i) PROVE TailOf(i) = Asked(P, n, P[i].key)
  <2>1. ASSUME NEW j \in 1 .. n PROVE SameKey(i, j) /\ Open(j) <=> j \in Asked(P, n, P[i].key)
    BY <1>3, <1>4 DEF Asked, Sent
  <2>2. Asked(P, n, P[i].key) \subseteq 1 .. n
    BY DEF Asked
  <2> HIDE DEF SameKey, Open
  <2> QED BY <2>1, <2>2
<1> HIDE DEF AskedFor, Open, TailOf
<1>5. answers \cup single = {ClosedRow(P, j) : j \in Closing(P, n)}
  <2>1. ASSUME NEW j \in 1 .. n, P[j].isResponse, ~P[j].ambiguous PROVE Answer(j) = ClosedRow(P, j)
    BY <1>2, <2>1 DEF ClosedRow
  <2>2. ASSUME NEW j \in 1 .. n, P[j].ambiguous
        PROVE  ExpectedRow("ambiguous", IF P[j].isResponse THEN {} ELSE {j}, j) = ClosedRow(P, j)
    BY <2>2 DEF ClosedRow
  <2> HIDE DEF Answer
  <2>3. answers = {ClosedRow(P, j) : j \in {j \in 1 .. n : P[j].isResponse /\ ~P[j].ambiguous}}
    BY <2>1
  <2>4. single = {ClosedRow(P, j) : j \in {j \in 1 .. n : P[j].ambiguous}}
    BY <2>2
  <2>5. Closing(P, n) = {j \in 1 .. n : P[j].isResponse /\ ~P[j].ambiguous} \cup {j \in 1 .. n : P[j].ambiguous}
    BY DEF Closing
  <2> HIDE DEF answers, single
  <2> QED BY <2>3, <2>4, <2>5
<1>6. late = {TimedOutRow(P, n, P[i].key)
                : i \in {i \in OpenAt(P, n) : now >= DeadlineOf(P, Asked(P, n, P[i].key))}}
  <2>1. {i \in 1 .. n : Open(i) /\ now >= DeadlineOf(P, TailOf(i))}
          = {i \in OpenAt(P, n) : now >= DeadlineOf(P, Asked(P, n, P[i].key))}
    BY <1>3, <1>4 DEF OpenAt
  <2>2. ASSUME NEW i \in 1 .. n, Open(i)
        PROVE  ExpectedRow("no-response", TailOf(i), None) = TimedOutRow(P, n, P[i].key)
    BY <1>4, <2>2 DEF TimedOutRow
  <2> QED BY <2>1, <2>2
<1>7. waiting = ExpectedWaiting(P, n, now)
  <2>1. {i \in 1 .. n : Open(i) /\ now < DeadlineOf(P, TailOf(i))}
          = {i \in OpenAt(P, n) : now < DeadlineOf(P, Asked(P, n, P[i].key))}
    BY <1>3, <1>4 DEF OpenAt
  <2> QED BY <1>4, <2>1 DEF ExpectedWaiting
<1> HIDE DEF answers, single, late, waiting
<1> QED BY <1>1, <1>5, <1>6, <1>7 DEF ExpectedRows

AnswerTime(P, i) == IF i = None THEN None ELSE P[i].time
BriefOfExpected(P, row) ==
  [state |-> row.state, attempts |-> row.attempts, first |-> FirstTime(P, row.asked),
   response |-> IF row.state = "ambiguous" THEN None ELSE AnswerTime(P, row.response)]

LEMMA ClosedBrief ==
  ASSUME NEW P, NEW j \in Nat PROVE BriefOfExpected(P, ClosedRow(P, j)) = BriefAt(P, j)
<1>1. j # None
  BY DnsAssumption
<1>2. CASE P[j].ambiguous
  <2>1. EarliestOf({j}) = j
    <3>1. \A i \in {j} : (\A o \in {j} : i <= o) => i = j
      OBVIOUS
    <3>2. j \in {j} /\ \A o \in {j} : j <= o
      OBVIOUS
    <3>3. PICK S : S = {j}
      OBVIOUS
    <3>4. S \in SUBSET Nat /\ j \in S /\ \A o \in S : j <= o
      BY <3>3
    <3>5. EarliestOf(S) = j
      BY <3>4, EarliestIs
    <3> QED BY <3>3, <3>5
  <2>2. Cardinality({j}) = 1 /\ Cardinality({}) = 0
    BY FS_Singleton, FS_EmptySet
  <2>3. PICK S : S = IF P[j].isResponse THEN {} ELSE {j}
    OBVIOUS
  <2>4. ClosedRow(P, j) = [state |-> "ambiguous", attempts |-> Cardinality(S), response |-> j, asked |-> S]
    BY <1>2, <2>3 DEF ClosedRow, ExpectedRow
  <2>5. BriefOfExpected(P, ClosedRow(P, j)) =
          [state |-> "ambiguous", attempts |-> Cardinality(S), first |-> FirstTime(P, S), response |-> None]
    BY <2>4 DEF BriefOfExpected
  <2>6. BriefAt(P, j) = [state |-> "ambiguous", attempts |-> IF P[j].isResponse THEN 0 ELSE 1,
                         first |-> IF P[j].isResponse THEN None ELSE P[j].time, response |-> None]
    BY <1>2 DEF BriefAt, BriefOfClosing
  <2>7. CASE P[j].isResponse
    BY <2>2, <2>3, <2>5, <2>6, <2>7 DEF FirstTime
  <2>8. CASE ~P[j].isResponse
    BY <2>1, <2>2, <2>3, <2>5, <2>6, <2>8 DEF FirstTime
  <2> QED BY <2>7, <2>8
<1>3. CASE ~P[j].ambiguous
  <2>1. PICK S, state : S = Asked(P, j - 1, P[j].key) /\ state = AnswerState(P, j, S)
    OBVIOUS
  <2>2. state # "ambiguous"
    BY <2>1 DEF AnswerState
  <2>3. ClosedRow(P, j) = [state |-> state, attempts |-> Cardinality(S), response |-> j, asked |-> S]
    BY <1>3, <2>1 DEF ClosedRow, ExpectedRow
  <2>4. BriefOfExpected(P, ClosedRow(P, j)) =
          [state |-> state, attempts |-> Cardinality(S), first |-> FirstTime(P, S), response |-> P[j].time]
    BY <1>1, <2>2, <2>3 DEF BriefOfExpected, AnswerTime
  <2>5. BriefAt(P, j) =
          [state |-> state, attempts |-> Cardinality(S), first |-> FirstTime(P, S), response |-> P[j].time]
    BY <1>3, <2>1 DEF BriefAt, BriefOfClosing
  <2> QED BY <2>4, <2>5
<1> QED BY <1>2, <1>3

\* As many rows as packets that closed one.
LEMMA ClosedRows ==
  ASSUME NEW P, NEW n \in Nat
  PROVE  /\ IsFiniteSet({ClosedRow(P, j) : j \in Closing(P, n)})
         /\ Cardinality({ClosedRow(P, j) : j \in Closing(P, n)}) = Cardinality(Closing(P, n))
<1>1. PICK S : S = Closing(P, n) /\ IsFiniteSet(S)
  BY ClosingNext
<1>2. \A j : ClosedRow(P, j).response = j
  BY DEF ClosedRow, ExpectedRow
<1>3. PICK f : f = [j \in S |-> ClosedRow(P, j)]
  OBVIOUS
<1>4. \A x, y \in S : f[x] = f[y] => x = y
  <2>1. \A x \in S : f[x].response = x
    BY <1>2, <1>3
  <2> QED BY <2>1
<1>5. IsFiniteSet({f[x] : x \in S}) /\ Cardinality({f[x] : x \in S}) = Cardinality(S)
  BY <1>1, <1>3, <1>4, ManyImages
<1>6. {f[x] : x \in S} = {ClosedRow(P, j) : j \in S}
  BY <1>3
<1> QED BY <1>1, <1>5, <1>6

PendingKeys(list) == {r.key : r \in ToSet(list)}
OpenKeys(P, n, Y) == {P[i].key : i \in {i \in OpenAt(P, n) : DeadlineOf(P, Asked(P, n, P[i].key)) \in Y}}
Exchanges(P, n, K) == {Asked(P, n, k) : k \in K}
TimedOutRows(P, n, K) == {TimedOutRow(P, n, k) : k \in K}

Passes(P, n, list, X, Y) == \A r \in ToSet(list) : r \in X <=> DeadlineOf(P, Asked(P, n, r.key)) \in Y
Passed(P, n, list, X, Y) ==
  /\ Listed(Among(list, X)) /\ Distinct(Among(list, X))
  /\ ToSet(Among(list, X)) \subseteq ToSet(list)
  /\ PendingKeys(Among(list, X)) = OpenKeys(P, n, Y)

\* The pending requests that pass a test are the open exchanges that pass it.
LEMMA SomePending ==
  ASSUME NEW P, NEW n \in Nat, NEW list, PendingInv(P, n, list), NEW X, NEW Y, Passes(P, n, list, X, Y)
  PROVE  Passed(P, n, list, X, Y)
<1>0. \A r \in ToSet(list) : r \in X <=> DeadlineOf(P, Asked(P, n, r.key)) \in Y
  BY DEF Passes
<1>1. PICK R : R = ToSet(list) /\ list \in Seq(R) /\ Distinct(list)
  BY DEF PendingInv, Listed
<1>2. PICK some \in Seq(R) : some = Among(list, X) /\ ToSet(some) = R \cap X /\ Distinct(some)
  <2>1. Among(list, X) \in Seq(R)
    BY <1>1, AmongOf
  <2>2. ToSet(Among(list, X)) = ToSet(list) \cap X
    BY <1>1, AmongType
  <2>3. Distinct(Among(list, X))
    BY <1>1, AmongDistinct DEF KeptDistinct
  <2> QED BY <1>1, <2>1, <2>2, <2>3
<1>3. Listed(some)
  BY ListedIn
<1>4. ASSUME NEW r \in R \cap X
      PROVE  \E i \in OpenAt(P, n) : P[i].key = r.key /\ DeadlineOf(P, Asked(P, n, P[i].key)) \in Y
  <2>1. Asked(P, n, r.key) # {}
    BY <1>1 DEF PendingInv, Exchange
  <2>2. PICK i : i \in Asked(P, n, r.key)
    BY <2>1
  <2>3. i \in 1 .. n /\ P[i].key = r.key
    BY <2>2 DEF Asked
  <2>4. DeadlineOf(P, Asked(P, n, r.key)) \in Y
    BY <1>0, <1>1
  <2> QED BY <2>2, <2>3, <2>4 DEF OpenAt
<1>5. ASSUME NEW i \in OpenAt(P, n), DeadlineOf(P, Asked(P, n, P[i].key)) \in Y
      PROVE  \E r \in R \cap X : r.key = P[i].key
  <2>1. Asked(P, n, P[i].key) # {}
    BY DEF OpenAt
  <2>2. PICK r \in R : r.key = P[i].key
    BY <1>1, <2>1 DEF PendingInv
  <2> QED BY <1>0, <1>1, <1>5, <2>2
<1>6. {r.key : r \in R \cap X} =
        {P[i].key : i \in {i \in OpenAt(P, n) : DeadlineOf(P, Asked(P, n, P[i].key)) \in Y}}
  BY <1>4, <1>5
<1>7. PendingKeys(some) = OpenKeys(P, n, Y)
  BY <1>2, <1>6 DEF PendingKeys, OpenKeys
<1> QED BY <1>1, <1>2, <1>3, <1>7 DEF Passed

\* As many exchanges as pending requests.
LEMMA ManyExchanges ==
  ASSUME NEW P, NEW n \in Nat, NEW list, Listed(list), Distinct(list),
         \A r \in ToSet(list) : Exchange(P, n, r)
  PROVE  /\ Cardinality(Exchanges(P, n, PendingKeys(list))) = Len(list)
         /\ IsFiniteSet(TimedOutRows(P, n, PendingKeys(list)))
         /\ Cardinality(TimedOutRows(P, n, PendingKeys(list))) = Len(list)
<1>1. PICK S : S = ToSet(list) /\ IsFiniteSet(S) /\ Cardinality(S) = Len(list)
  BY DistinctLength DEF Listed
<1>2. PICK f, g : f = [r \in S |-> Asked(P, n, r.key)] /\ g = [r \in S |-> TimedOutRow(P, n, r.key)]
  OBVIOUS
<1>3. \A k, o : Asked(P, n, k) # {} /\ Asked(P, n, k) = Asked(P, n, o) => k = o
  BY DEF Asked
<1>4. \A x, y \in S : x.key = y.key => x = y
  BY <1>1 DEF Distinct, ToSet
<1>5. \A x, y \in S : f[x] = f[y] => x = y
  BY <1>1, <1>2, <1>3, <1>4 DEF Exchange
<1>6. \A x, y \in S : g[x] = g[y] => x = y
  <2>1. \A x \in S : g[x].asked = f[x]
    BY <1>2 DEF TimedOutRow, ExpectedRow
  <2> QED BY <1>5, <2>1
<1>7. IsFiniteSet({f[x] : x \in S}) /\ Cardinality({f[x] : x \in S}) = Cardinality(S)
  BY <1>1, <1>2, <1>5, ManyImages
<1>8. IsFiniteSet({g[x] : x \in S}) /\ Cardinality({g[x] : x \in S}) = Cardinality(S)
  BY <1>1, <1>2, <1>6, ManyImages
<1>9. {f[x] : x \in S} = Exchanges(P, n, PendingKeys(list))
  BY <1>1, <1>2 DEF Exchanges, PendingKeys
<1>10. {g[x] : x \in S} = TimedOutRows(P, n, PendingKeys(list))
  BY <1>1, <1>2 DEF TimedOutRows, PendingKeys
<1> QED BY <1>1, <1>7, <1>8, <1>9, <1>10

LEMMA ParsedHas ==
  ASSUME NEW E, NEW raw \in Seq(E)
  PROVE  Len(ParsedOf(raw)) \in Nat /\ DOMAIN ParsedOf(raw) = 1 .. Len(ParsedOf(raw))
<1>1. PICK sorted \in Seq(E) : sorted = dedupeAndSort(raw)
  BY DedupeType
<1>2. PICK X : X = {e \in ToSet(raw) : Usable(e)}
  OBVIOUS
<1>3. PICK usable \in Seq(E) : usable = Among(sorted, X)
  BY AmongOf
<1>4. PICK last \in Nat : DOMAIN usable = 1 .. last
  OBVIOUS
<1>5. PICK P : P = [n \in 1 .. last |-> parseDnsEvent(usable[n])]
  OBVIOUS
<1>6. ParsedOf(raw) = P
  BY <1>1, <1>2, <1>3, <1>4, <1>5 DEF ParsedOf
<1>7. PICK R : R = {parseDnsEvent(usable[n]) : n \in 1 .. last}
  OBVIOUS
<1>8. P \in [1 .. last -> R]
  BY <1>5, <1>7
<1>9. P \in Seq(R)
  BY <1>8
<1> QED BY <1>6, <1>9

\* What has timed out is a row each.
LEMMA TimedOutBriefs ==
  ASSUME NEW P, NEW n \in Nat, NEW r, Exchange(P, n, r), NEW id
  PROVE  BriefOf(Transaction(id, "no-response", r, NoAnswer)) = BriefOfExpected(P, TimedOutRow(P, n, r.key))
<1>1. PICK S : S = Asked(P, n, r.key)
  OBVIOUS
<1>2. S # {} /\ r.attempts = Cardinality(S) /\ r.first = FirstTime(P, S)
  BY <1>1 DEF Exchange, FirstTime
<1>3. TimedOutRow(P, n, r.key) =
        [state |-> "no-response", attempts |-> Cardinality(S), response |-> None, asked |-> S]
  BY <1>1 DEF TimedOutRow, ExpectedRow
<1>4. BriefOfExpected(P, TimedOutRow(P, n, r.key)) =
        [state |-> "no-response", attempts |-> Cardinality(S), first |-> FirstTime(P, S), response |-> None]
  BY <1>3 DEF BriefOfExpected, AnswerTime
<1>5. NoAnswer.time = None
  BY DEF NoAnswer
<1>6. BriefOf(Transaction(id, "no-response", r, NoAnswer)) =
        [state |-> "no-response", attempts |-> r.attempts, first |-> r.first, response |-> None]
  BY <1>5, BriefOfTransaction
<1> QED BY <1>2, <1>4, <1>6

ExpiredOf(acc, now) == Among(acc.pending, {r \in ToSet(acc.pending) : now >= r.deadline})
WaitingOf(acc, now) == Among(acc.pending, {r \in ToSet(acc.pending) : now < r.deadline})
TimedOutOf(r) == Transaction(<<"timeout", r.key, r.latest>>, "no-response", r, NoAnswer)
AllRows(acc, now) ==
  acc.rows \o [i \in DOMAIN ExpiredOf(acc, now) |-> TimedOutOf(ExpiredOf(acc, now)[i])]

LEMMA OutcomeIs ==
  ASSUME NEW acc, NEW now
  PROVE  /\ Outcome(acc, now).transactions = sortNewestFirst(AllRows(acc, now))
         /\ Outcome(acc, now).pendingCount = Len(WaitingOf(acc, now))
BY DEF Outcome, AllRows, TimedOutOf, ExpiredOf, WaitingOf

LEMMA JoinHas ==
  ASSUME NEW list, Listed(list), NEW more, Listed(more)
  PROVE  /\ Listed(list \o more) /\ Len(list \o more) = Len(list) + Len(more)
         /\ ToSet(list \o more) = ToSet(list) \cup ToSet(more)
<1>1. PICK R : R = ToSet(list) \cup ToSet(more)
  OBVIOUS
<1>2. list \in Seq(R) /\ more \in Seq(R)
  BY <1>1, SeqMonotonic DEF Listed
<1>3. PICK a, b \in Nat : a = Len(list) /\ b = Len(more) /\ DOMAIN list = 1 .. a /\ DOMAIN more = 1 .. b
  BY <1>2
<1>4. PICK all : all = list \o more
  OBVIOUS
<1>5. /\ all \in Seq(R) /\ Len(all) = a + b
      /\ \A i \in 1 .. a + b : all[i] = IF i <= a THEN list[i] ELSE more[i - a]
  BY <1>2, <1>3, <1>4, ConcatProperties
<1>6. DOMAIN all = 1 .. a + b
  BY <1>5
<1>7. ASSUME NEW i \in 1 .. a + b PROVE all[i] \in ToSet(list) \cup ToSet(more)
  <2>1. i <= a => i \in 1 .. a
    OBVIOUS
  <2>2. ~(i <= a) => i - a \in 1 .. b
    BY <1>3
  <2> QED BY <1>3, <1>5, <2>1, <2>2 DEF ToSet
<1>8. ASSUME NEW i \in 1 .. a PROVE list[i] \in ToSet(all)
  <2>1. i \in 1 .. a + b /\ i <= a
    BY <1>3
  <2>2. all[i] = list[i]
    BY <1>5, <2>1
  <2> QED BY <1>6, <2>1, <2>2 DEF ToSet
<1>9. ASSUME NEW i \in 1 .. b PROVE more[i] \in ToSet(all)
  <2>1. a + i \in 1 .. a + b /\ ~(a + i <= a) /\ (a + i) - a = i
    BY <1>3
  <2>2. all[a + i] = more[i]
    BY <1>5, <2>1
  <2> QED BY <1>6, <2>1, <2>2 DEF ToSet
<1>10. ToSet(all) \subseteq ToSet(list) \cup ToSet(more)
  BY <1>6, <1>7 DEF ToSet
<1>11. ToSet(list) \subseteq ToSet(all)
  <2>1. \A x \in ToSet(list) : \E i \in 1 .. a : x = list[i]
    BY <1>3 DEF ToSet
  <2> QED BY <1>8, <2>1
<1>12. ToSet(more) \subseteq ToSet(all)
  <2>1. \A x \in ToSet(more) : \E i \in 1 .. b : x = more[i]
    BY <1>3 DEF ToSet
  <2> QED BY <1>9, <2>1
<1>13. Listed(all)
  BY <1>5, ListedIn
<1> QED BY <1>3, <1>4, <1>5, <1>10, <1>11, <1>12, <1>13

BriefsOf(list) == {BriefOf(row) : row \in ToSet(list)}
ExpectedBriefs(P, rows) == {BriefOfExpected(P, row) : row \in rows}

LEMMA OutcomeAgrees ==
  ASSUME NEW P, NEW n \in Nat, NEW acc, CorrelationInv(P, n, acc), NEW now
  PROVE  /\ Len(Outcome(acc, now).transactions) = Cardinality(ExpectedRows(P, n, now))
         /\ BriefsOf(Outcome(acc, now).transactions) = ExpectedBriefs(P, ExpectedRows(P, n, now))
         /\ Outcome(acc, now).pendingCount = Cardinality(ExpectedWaiting(P, n, now))
<1>1. PICK list : list = acc.pending /\ PendingInv(P, n, list)
  BY DEF CorrelationInv
<1>2. PICK rows : rows = acc.rows /\ RowsInv(P, n, rows)
  BY DEF CorrelationInv
<1>3. \A r \in ToSet(list) : r.deadline = DeadlineOf(P, Asked(P, n, r.key))
  BY <1>1 DEF PendingInv, Exchange, DeadlineOf
<1>4. PICK waiting : /\ waiting = WaitingOf(acc, now) /\ Listed(waiting) /\ Distinct(waiting)
                     /\ ToSet(waiting) \subseteq ToSet(list)
                     /\ PendingKeys(waiting) = {P[i].key : i \in {i \in OpenAt(P, n) :
                                                      now < DeadlineOf(P, Asked(P, n, P[i].key))}}
  <2>1. PICK X, Y : /\ X = {r \in ToSet(list) : now < r.deadline}
                    /\ Y = {d \in {DeadlineOf(P, Asked(P, n, r.key)) : r \in ToSet(list)}
                              \cup {DeadlineOf(P, Asked(P, n, P[i].key)) : i \in OpenAt(P, n)} : now < d}
    OBVIOUS
  <2>2. Passes(P, n, list, X, Y)
    BY <1>3, <2>1 DEF Passes
  <2>3. Passed(P, n, list, X, Y)
    BY <1>1, <2>2, SomePending
  <2>4. \A i \in OpenAt(P, n) : DeadlineOf(P, Asked(P, n, P[i].key)) \in Y
                                  <=> now < DeadlineOf(P, Asked(P, n, P[i].key))
    BY <2>1
  <2>5. WaitingOf(acc, now) = Among(list, X)
    BY <1>1, <2>1 DEF WaitingOf
  <2>6. {i \in OpenAt(P, n) : DeadlineOf(P, Asked(P, n, P[i].key)) \in Y}
          = {i \in OpenAt(P, n) : now < DeadlineOf(P, Asked(P, n, P[i].key))}
    BY <2>4
  <2> QED BY <2>3, <2>5, <2>6 DEF Passed, OpenKeys
<1>5. PICK expired : /\ expired = ExpiredOf(acc, now) /\ Listed(expired) /\ Distinct(expired)
                     /\ ToSet(expired) \subseteq ToSet(list)
                     /\ PendingKeys(expired) = {P[i].key : i \in {i \in OpenAt(P, n) :
                                                      now >= DeadlineOf(P, Asked(P, n, P[i].key))}}
  <2>1. PICK X, Y : /\ X = {r \in ToSet(list) : now >= r.deadline}
                    /\ Y = {d \in {DeadlineOf(P, Asked(P, n, r.key)) : r \in ToSet(list)}
                              \cup {DeadlineOf(P, Asked(P, n, P[i].key)) : i \in OpenAt(P, n)} : now >= d}
    OBVIOUS
  <2>2. Passes(P, n, list, X, Y)
    BY <1>3, <2>1 DEF Passes
  <2>3. Passed(P, n, list, X, Y)
    BY <1>1, <2>2, SomePending
  <2>4. \A i \in OpenAt(P, n) : DeadlineOf(P, Asked(P, n, P[i].key)) \in Y
                                  <=> now >= DeadlineOf(P, Asked(P, n, P[i].key))
    BY <2>1
  <2>5. ExpiredOf(acc, now) = Among(list, X)
    BY <1>1, <2>1 DEF ExpiredOf
  <2>6. {i \in OpenAt(P, n) : DeadlineOf(P, Asked(P, n, P[i].key)) \in Y}
          = {i \in OpenAt(P, n) : now >= DeadlineOf(P, Asked(P, n, P[i].key))}
    BY <2>4
  <2> QED BY <2>3, <2>5, <2>6 DEF Passed, OpenKeys
<1>6. \A r \in ToSet(list) : Exchange(P, n, r)
  BY <1>1 DEF PendingInv
<1>7. Outcome(acc, now).pendingCount = Cardinality(ExpectedWaiting(P, n, now))
  <2>1. ExpectedWaiting(P, n, now) = Exchanges(P, n, PendingKeys(waiting))
    BY <1>4 DEF ExpectedWaiting, Exchanges
  <2>2. Cardinality(Exchanges(P, n, PendingKeys(waiting))) = Len(waiting)
    BY <1>4, <1>6, ManyExchanges
  <2> QED BY <1>4, <2>1, <2>2, OutcomeIs
<1>8. PICK late : late = TimedOutRows(P, n, PendingKeys(expired))
  OBVIOUS
<1>9. PICK closed : closed = {ClosedRow(P, j) : j \in Closing(P, n)}
  OBVIOUS
<1>10. ExpectedRows(P, n, now) = closed \cup late
  <2>1. late = {TimedOutRow(P, n, P[i].key)
                  : i \in {i \in OpenAt(P, n) : now >= DeadlineOf(P, Asked(P, n, P[i].key))}}
    BY <1>5, <1>8 DEF TimedOutRows
  <2> QED BY <1>9, <2>1 DEF ExpectedRows
<1>11. Cardinality(closed \cup late) = Len(rows) + Len(expired)
  <2>1. IsFiniteSet(late) /\ Cardinality(late) = Len(expired)
    BY <1>5, <1>6, <1>8, ManyExchanges
  <2>2. IsFiniteSet(closed) /\ Cardinality(closed) = Len(rows)
    BY <1>2, <1>9, ClosedRows DEF RowsInv
  <2>3. closed \cap late = {}
    <3>1. \A row \in closed : row.response \in Nat
      <4>1. \A j \in Closing(P, n) : j \in Nat
        BY DEF Closing
      <4>2. \A j : ClosedRow(P, j).response = j
        BY DEF ClosedRow, ExpectedRow
      <4> QED BY <1>9, <4>1, <4>2
    <3>2. \A row \in late : row.response = None
      BY <1>8 DEF TimedOutRows, TimedOutRow, ExpectedRow
    <3>3. None \notin Nat
      BY DnsAssumption
    <3> QED BY <3>1, <3>2, <3>3
  <2>4. Cardinality(closed \cup late) = Cardinality(closed) + Cardinality(late) - Cardinality(closed \cap late)
    BY <2>1, <2>2, FS_Union
  <2>5. Cardinality(closed \cap late) = 0
    BY <2>3, FS_EmptySet
  <2>6. Cardinality(closed) \in Nat /\ Cardinality(late) \in Nat
    BY <2>1, <2>2, FS_CardinalityType
  <2> QED BY <2>1, <2>2, <2>4, <2>5, <2>6
<1>12. PICK last \in Nat : last = Len(expired) /\ DOMAIN expired = 1 .. last
  BY <1>5 DEF Listed
<1>13. PICK timedOut : /\ timedOut = [i \in DOMAIN expired |-> TimedOutOf(expired[i])]
                       /\ Listed(timedOut) /\ Len(timedOut) = last
                       /\ ToSet(timedOut) = {TimedOutOf(r) : r \in ToSet(expired)}
  <2>1. PICK t : t = [i \in 1 .. last |-> TimedOutOf(expired[i])]
    OBVIOUS
  <2>2. t = [i \in 1 .. last |-> t[i]] /\ \A i \in 1 .. last : t[i] = TimedOutOf(expired[i])
    BY <2>1
  <2>3. Listed(t) /\ ToSet(t) = {t[i] : i \in 1 .. last}
    BY <2>2, ListedIs
  <2>4. ToSet(expired) = {expired[i] : i \in 1 .. last}
    BY <1>12 DEF ToSet
  <2>5. ToSet(t) = {TimedOutOf(r) : r \in ToSet(expired)}
    BY <2>2, <2>3, <2>4
  <2>6. Len(t) = last
    <3>1. DOMAIN t = 1 .. last /\ t \in Seq(ToSet(t))
      BY <2>1, <2>3 DEF Listed
    <3> QED BY <3>1
  <2> QED BY <1>12, <2>1, <2>3, <2>5, <2>6
<1>14. PICK all : /\ all = rows \o timedOut /\ Listed(all) /\ Len(all) = Len(rows) + last
                  /\ ToSet(all) = ToSet(rows) \cup ToSet(timedOut)
  <2>1. Listed(rows)
    BY <1>2 DEF RowsInv
  <2>2. PICK a : a = rows \o timedOut
    OBVIOUS
  <2> QED BY <1>13, <2>1, <2>2, JoinHas
<1>15. AllRows(acc, now) = all
  BY <1>2, <1>5, <1>13, <1>14 DEF AllRows
<1>16. PICK sorted : /\ sorted = Outcome(acc, now).transactions
                     /\ Len(sorted) = Len(all) /\ ToSet(sorted) = ToSet(all)
  <2>1. PICK R : R = ToSet(all) /\ all \in Seq(R)
    BY <1>14 DEF Listed
  <2>2. Len(sortNewestFirst(all)) = Len(all) /\ ToSet(sortNewestFirst(all)) = ToSet(all)
    BY <2>1, SortHas
  <2> QED BY <1>15, <2>2, OutcomeIs
<1>17. Len(sorted) = Cardinality(ExpectedRows(P, n, now))
  BY <1>10, <1>11, <1>12, <1>14, <1>16
<1>18. BriefsOf(sorted) = ExpectedBriefs(P, ExpectedRows(P, n, now))
  <2>1. {BriefOf(row) : row \in ToSet(rows)} = {BriefOfExpected(P, row) : row \in closed}
    <3>1. \A j \in Closing(P, n) : BriefOfExpected(P, ClosedRow(P, j)) = BriefAt(P, j)
      BY ClosedBrief DEF Closing
    <3>2. {BriefOfExpected(P, row) : row \in closed} = {BriefAt(P, j) : j \in Closing(P, n)}
      BY <1>9, <3>1
    <3> QED BY <1>2, <3>2 DEF RowsInv
  <2>2. {BriefOf(row) : row \in ToSet(timedOut)} = {BriefOfExpected(P, row) : row \in late}
    <3>1. \A r \in ToSet(expired) : BriefOf(TimedOutOf(r)) = BriefOfExpected(P, TimedOutRow(P, n, r.key))
      BY <1>5, <1>6, TimedOutBriefs DEF TimedOutOf
    <3>2. {BriefOf(row) : row \in ToSet(timedOut)} = {BriefOf(TimedOutOf(r)) : r \in ToSet(expired)}
      BY <1>13
    <3>3. {BriefOfExpected(P, row) : row \in late} =
            {BriefOfExpected(P, TimedOutRow(P, n, r.key)) : r \in ToSet(expired)}
      BY <1>8 DEF TimedOutRows, PendingKeys
    <3> QED BY <3>1, <3>2, <3>3
  <2>3. ToSet(sorted) = ToSet(rows) \cup ToSet(timedOut)
    BY <1>14, <1>16
  <2> QED BY <1>10, <2>1, <2>2, <2>3 DEF BriefsOf, ExpectedBriefs
<1> QED BY <1>7, <1>16, <1>17, <1>18

\* The rows are what the packets say, packet by packet.
LEMMA CorrelationFollows == IdentityInv => CorrelationAgrees
<1> SUFFICES ASSUME IdentityInv PROVE CorrelationAgrees
  OBVIOUS
<1>1. PICK P : P = ParsedOf(packets)
  OBVIOUS
<1>2. PICK n \in Nat : n = Len(P) /\ DOMAIN P = 1 .. n
  BY <1>1, ParsedHas DEF IdentityInv, PacketsOK
<1>3. PICK acc : acc = CorrelationOf(P) /\ CorrelationInv(P, n, acc)
  BY <1>2, LoopAgrees
<1>4. computeDnsCorrelation(packets, clock) = Outcome(acc, clock)
  BY <1>1, <1>3 DEF computeDnsCorrelation
<1>5. /\ Expected(P, clock).rows = ExpectedRows(P, n, clock)
      /\ Expected(P, clock).waiting = ExpectedWaiting(P, n, clock)
  BY <1>2, ExpectedIs
<1>6. /\ Len(Outcome(acc, clock).transactions) = Cardinality(ExpectedRows(P, n, clock))
      /\ BriefsOf(Outcome(acc, clock).transactions) = ExpectedBriefs(P, ExpectedRows(P, n, clock))
      /\ Outcome(acc, clock).pendingCount = Cardinality(ExpectedWaiting(P, n, clock))
  BY <1>3, OutcomeAgrees
<1>7. CorrelationAgrees <=>
        LET rows == computeDnsCorrelation(packets, clock).transactions
            parsed == ParsedOf(packets)
        IN  /\ Len(rows) = Cardinality(Expected(parsed, clock).rows)
            /\ BriefsOf(rows) = ExpectedBriefs(parsed, Expected(parsed, clock).rows)
            /\ computeDnsCorrelation(packets, clock).pendingCount =
                 Cardinality(Expected(parsed, clock).waiting)
  BY DEF CorrelationAgrees, BriefsOf, ExpectedBriefs, BriefOf, BriefOfExpected, FirstTime, AnswerTime, EarliestOf
<1> QED BY <1>1, <1>4, <1>5, <1>6, <1>7

\* The rows and what is pending are what the packets retained say, packet by
\* packet, for any packets, addresses, times and time-outs.
THEOREM CorrelationAlwaysAgrees == DnsSpec => []CorrelationAgrees
BY IdentityAlways, CorrelationFollows, PTL
=============================================================================
