------------------------------- MODULE PageProofs -------------------------------
(***************************************************************************)
(* What a page loads: the code of its plugins, and the recordings it       *)
(* plays; and what is chosen on it: snapshots, and rows of a table.        *)
(*                                                                         *)
(* The cache of compiled plugins serves what was listed, for any number of *)
(* directories, edits, reloads and lost or late answers of the compiler,   *)
(* as long as no listing has three plugins of one id.  The argument is     *)
(* about late answers.  A request is answered under a key that names its   *)
(* plugin, so only an earlier plugin of the same id can leave an answer    *)
(* for this one.  It leaves at most one, since it fails when it stops      *)
(* waiting.  Were that the one for the cache, it lies before every request *)
(* of this plugin, and is gone when the first of them is answered.         *)
(*                                                                         *)
(* An instance shows a beginning of its recording.  Without haste there is *)
(* one load or player at a time, so what is emitted, buffered and shown    *)
(* belongs to one position of one run.                                     *)
(*                                                                         *)
(* What a user has pinned stays what the page shows, for every limit of    *)
(* entries, any number of snapshots and rows, and whatever is dragged or   *)
(* pressed while snapshots arrive.  Every step that can disturb it ends in *)
(* the effects of the view (Settle), so one lemma about Settle carries the *)
(* proof.                                                                  *)
(*                                                                         *)
(* Choosing indices implements choosing rows (ItemSelection), for lists of *)
(* any length.                                                             *)
(***************************************************************************)
EXTENDS TableProofs, SnapshotSelection, RowSelection, PluginRegistry, Replay, SequenceTheorems, FiniteSetTheorems, TLAPS

-----------------------------------------------------------------------------
(* The plugins *)

IsSequence(s) == s \in Seq({s[i] : i \in DOMAIN s})
Working == loader.at \in {"await", "execute"}
Queued == loader.at \in {"next", "lookup", "cached", "dropping", "await", "execute"}

\* the requests of a plugin's id
Requests(id) == {i \in DOMAIN workerRequests : workerRequests[i].code.id = id}
Single(indices) == \A i, j \in indices : i = j
Twice(id) == \E i, j \in DOMAIN loader.queue :
  i < j /\ loader.queue[i].id = id /\ loader.queue[j].id = id

Shapes ==
  /\ IsSequence(workerRequests) /\ IsSequence(loader.queue)
  /\ loader = [at |-> loader.at, phase |-> loader.phase, queue |-> loader.queue, todo |-> loader.todo,
               built |-> loader.built, code |-> loader.code]
  /\ loader.phase \in {"component", "caching"}
  /\ Queued => loader.queue # <<>>
  /\ crowded \in BOOLEAN

\* A key names its plugin.
Keyed(r) == r.label # <<>> /\ r.label[1] = r.code.id

\* A key is the plugin's id alone for the cache, longer for a component.
Keys ==
  /\ \A i \in DOMAIN workerRequests : Keyed(workerRequests[i])
  /\ ~(<<>> \in DOMAIN timers)
  /\ loader.at \in {"off", "listing"} => workerRequests = <<>>
  /\ IF loader.at # "await" THEN pending = <<>>
     ELSE /\ pending # <<>> /\ pending[1] = Current.id
          /\ loader.phase = "component" => Len(pending) = 3
          /\ loader.phase = "caching" => pending = CacheLabel(Current)

\* A late answer for the cache, of another plugin's files.
Foreign(i) ==
  /\ i \in Requests(Current.id)
  /\ workerRequests[i].label = CacheLabel(Current)
  /\ workerRequests[i].code.files # Current.files

Waiting ==
  /\ ~Crowded(loader.queue)
  /\ \A n \in DOMAIN loader.queue :
       LET id == loader.queue[n].id
       IN (Working => id # Current.id) =>
            IF Twice(id) THEN Requests(id) = {} ELSE Single(Requests(id))
  /\ Working /\ Twice(Current.id) =>
       /\ Single(Requests(Current.id))
       /\ \A i \in Requests(Current.id) : workerRequests[i].code.files = Current.files
       /\ loader.at = "execute" => Requests(Current.id) = {}
  /\ Working /\ ~Twice(Current.id) => \A i \in DOMAIN workerRequests : Foreign(i) =>
       /\ loader.at = "await" /\ loader.phase = "component"
       /\ \A j \in Requests(Current.id) : i <= j
  /\ loader.at = "execute" /\ loader.phase = "caching" =>
       loader.code.id = Current.id /\ loader.code.files = Current.files

Cached ==
  /\ \A e \in cache \cup writing : DOMAIN e = {"key", "code", "old"}
  /\ loader.at = "cached" => Entry(Current) # {}
  /\ ~crowded => \A e \in cache \cup writing : e.key = generateCacheKey(e.code)
  /\ ~crowded => \A k \in DOMAIN offered : offered[k].from = "cache" =>
       offered[k].code.files = offered[k].manifest.files

PluginInv == Shapes /\ Keys /\ (~crowded => Waiting) /\ Cached

-----------------------------------------------------------------------------
(* Sequences.                                                               *)
LEMMA SequenceFacts ==
  ASSUME NEW s, IsSequence(s)
  PROVE  Len(s) \in Nat /\ DOMAIN s = 1 .. Len(s) /\ (s = <<>> <=> Len(s) = 0)
  BY DEF IsSequence

LEMMA SequenceOfRange ==
  ASSUME NEW S, NEW s \in Seq(S) PROVE IsSequence(s)
<1>1. Len(s) \in Nat /\ s \in [1 .. Len(s) -> S] /\ DOMAIN s = 1 .. Len(s)
  OBVIOUS
<1>2. s \in [1 .. Len(s) -> {s[i] : i \in DOMAIN s}]
  BY <1>1
<1> QED BY <1>1, <1>2, SeqDef DEF IsSequence

LEMMA EmptySequence == IsSequence(<<>>) /\ DOMAIN <<>> = {}
  BY DEF IsSequence

LEMMA TailFacts ==
  ASSUME NEW s, IsSequence(s), s # <<>>
  PROVE  /\ IsSequence(Tail(s)) /\ Len(Tail(s)) = Len(s) - 1
         /\ Head(s) = s[1] /\ 1 \in DOMAIN s
         /\ \A i \in DOMAIN Tail(s) : i \in Nat /\ i >= 1 /\ i + 1 \in DOMAIN s /\ Tail(s)[i] = s[i + 1]
<1> DEFINE S == {s[i] : i \in DOMAIN s}
<1>1. s \in Seq(S)
  BY DEF IsSequence
<1>2. Len(s) \in Nat /\ Len(s) > 0 /\ DOMAIN s = 1 .. Len(s)
  BY SequenceFacts
<1> HIDE DEF S
<1>3. Tail(s) \in Seq(S) /\ Len(Tail(s)) = Len(s) - 1
      /\ \A i \in 1 .. Len(s) - 1 : Tail(s)[i] = s[i + 1]
  BY <1>1, <1>2
<1>4. DOMAIN Tail(s) = 1 .. Len(s) - 1
  BY <1>2, <1>3
<1>5. IsSequence(Tail(s))
  BY <1>3, SequenceOfRange
<1>6. Head(s) = s[1]
  BY <1>1, <1>2
<1> QED BY <1>2, <1>3, <1>4, <1>5, <1>6

LEMMA AppendFacts ==
  ASSUME NEW s, NEW e, IsSequence(s)
  PROVE  /\ IsSequence(Append(s, e)) /\ Append(s, e) # <<>>
         /\ DOMAIN Append(s, e) = DOMAIN s \cup {Len(s) + 1}
         /\ Append(s, e)[Len(s) + 1] = e
         /\ \A i \in DOMAIN s : i \in Nat /\ i <= Len(s) /\ Append(s, e)[i] = s[i]
<1> DEFINE S == {s[i] : i \in DOMAIN s} \cup {e}
           t == Append(s, e)
<1>1. Len(s) \in Nat /\ DOMAIN s = 1 .. Len(s)
  BY SequenceFacts
<1>2. s \in Seq(S) /\ e \in S
  BY DEF IsSequence
<1> HIDE DEF S
<1>3. t \in Seq(S) /\ Len(t) = Len(s) + 1 /\ t[Len(s) + 1] = e /\ \A i \in 1 .. Len(s) : t[i] = s[i]
  BY <1>1, <1>2
<1>4. DOMAIN t = 1 .. Len(s) + 1
  BY <1>1, <1>3
<1>5. IsSequence(t)
  BY <1>3, SequenceOfRange
<1> HIDE DEF t
<1>6. t # <<>>
  BY <1>1, <1>3
<1> QED BY <1>1, <1>3, <1>4, <1>5, <1>6 DEF t

-----------------------------------------------------------------------------
(* The worker answers or drops requests from the front.                     *)
OnlyPopped == \E k \in {0, 1} : \A i \in DOMAIN workerRequests' :
  i \in Nat /\ i + k \in DOMAIN workerRequests /\ workerRequests'[i] = workerRequests[i + k]

LEMMA SameIsPopped ==
  ASSUME IsSequence(workerRequests), workerRequests' = workerRequests PROVE OnlyPopped
<1>1. \A i \in DOMAIN workerRequests : i \in Nat /\ i + 0 = i
  BY SequenceFacts
<1> QED BY <1>1 DEF OnlyPopped

LEMMA TailIsPopped ==
  ASSUME IsSequence(workerRequests), workerRequests # <<>>, workerRequests' = Tail(workerRequests)
  PROVE  OnlyPopped /\ IsSequence(workerRequests')
  BY TailFacts DEF OnlyPopped

LEMMA PoppedRequests ==
  ASSUME OnlyPopped, NEW id
  PROVE  /\ Requests(id) = {} => Requests(id)' = {}
         /\ Single(Requests(id)) => Single(Requests(id)')
<1> PICK k \in {0, 1} : \A i \in DOMAIN workerRequests' :
      i \in Nat /\ i + k \in DOMAIN workerRequests /\ workerRequests'[i] = workerRequests[i + k]
  BY DEF OnlyPopped
<1>1. \A i \in Requests(id)' : i \in Nat /\ i + k \in Requests(id)
  BY DEF Requests
<1>2. \A i, j \in Nat : i + k = j + k => i = j
  OBVIOUS
<1> QED BY <1>1, <1>2 DEF Single

-----------------------------------------------------------------------------
(* Waiting, kind of step by kind of step.                                   *)

\* the loader goes on to the next plugin
LEMMA AdvanceWaits ==
  ASSUME IsSequence(loader.queue), loader.queue # <<>>, Waiting, OnlyPopped,
         loader'.queue = Tail(loader.queue), loader'.at \notin {"await", "execute"}
  PROVE  Waiting'
<1> DEFINE s == loader.queue
           t == Tail(loader.queue)
<1>1. /\ Head(s) = s[1] /\ 1 \in DOMAIN s
      /\ \A i \in DOMAIN t : i \in Nat /\ i >= 1 /\ i + 1 \in DOMAIN s /\ t[i] = s[i + 1]
  BY TailFacts
<1>2. ~Working'
  BY DEF Working
<1>3. ~Crowded(t)
  <2> SUFFICES ASSUME NEW i \in DOMAIN t, NEW j \in DOMAIN t, NEW k \in DOMAIN t,
                      i < j, j < k, t[i].id = t[j].id, t[j].id = t[k].id
               PROVE  FALSE
    BY DEF Crowded
  <2>1. i + 1 < j + 1 /\ j + 1 < k + 1
    BY <1>1
  <2> QED BY <1>1, <2>1 DEF Waiting, Crowded
<1>4. ASSUME NEW n \in DOMAIN t, NEW CONSTANT id, t[n].id = id
      PROVE  IF Twice(id)' THEN Requests(id)' = {} ELSE Single(Requests(id)')
  <2>1. n + 1 \in DOMAIN s /\ id = s[n + 1].id /\ 1 < n + 1
    BY <1>1, <1>4
  <2>2. (Working => id # Current.id) =>
          IF Twice(id) THEN Requests(id) = {} ELSE Single(Requests(id))
    BY <2>1 DEF Waiting
  <2>3. CASE Twice(id)'
    <3>1. PICK i, j \in DOMAIN t : i < j /\ t[i].id = id /\ t[j].id = id
      BY <2>3 DEF Twice
    <3>2. 1 < i + 1 /\ i + 1 < j + 1
      BY <1>1, <3>1
    <3>3. Twice(id)
      BY <1>1, <3>1, <3>2 DEF Twice
    <3>4. id # Current.id
      <4> SUFFICES ASSUME id = Current.id PROVE FALSE
        OBVIOUS
      <4>1. /\ 1 \in DOMAIN s /\ i + 1 \in DOMAIN s /\ j + 1 \in DOMAIN s
            /\ s[1].id = id /\ s[i + 1].id = id /\ s[j + 1].id = id
        BY <1>1, <3>1 DEF Current
      <4> HIDE DEF s
      <4>2. Crowded(s)
        BY <3>2, <4>1 DEF Crowded
      <4> QED BY <4>2 DEF Waiting, s
    <3>5. Requests(id) = {}
      BY <2>2, <3>3, <3>4
    <3> QED BY <2>3, <3>5, PoppedRequests
  <2>4. CASE ~Twice(id)'
    <3>1. CASE Working /\ id = Current.id
      <4>1. Twice(id)
        BY <1>1, <2>1, <3>1 DEF Twice, Current
      <4>2. Single(Requests(id))
        BY <3>1, <4>1 DEF Waiting
      <4> QED BY <2>4, <4>2, PoppedRequests
    <3>2. CASE ~(Working /\ id = Current.id)
      <4>1. Single(Requests(id))
        BY <2>2, <3>2 DEF Single
      <4> QED BY <2>4, <4>1, PoppedRequests
    <3> QED BY <3>1, <3>2
  <2> QED BY <2>3, <2>4
<1>5. loader'.at # "execute"
  OBVIOUS
<1> QED BY <1>2, <1>3, <1>4, <1>5 DEF Waiting, Twice, Requests, Single

\* the loader looks up or registers, and asks nothing
LEMMA IdleWaits ==
  ASSUME Waiting, ~Working, OnlyPopped,
         loader'.queue = loader.queue, loader'.at \notin {"await", "execute"}
  PROVE  Waiting'
<1>1. ~Working' /\ loader'.at # "execute"
  BY DEF Working
<1>2. ASSUME NEW n \in DOMAIN loader.queue, NEW CONSTANT id, loader.queue[n].id = id
      PROVE  IF Twice(id)' THEN Requests(id)' = {} ELSE Single(Requests(id)')
  <2>1. IF Twice(id) THEN Requests(id) = {} ELSE Single(Requests(id))
    BY <1>2 DEF Waiting
  <2>2. Twice(id)' <=> Twice(id)
    BY DEF Twice
  <2> QED BY <2>1, <2>2, PoppedRequests
<1>3. ~Crowded(loader.queue)'
  BY DEF Waiting, Crowded
<1> QED BY <1>1, <1>2, <1>3 DEF Waiting, Twice, Requests, Single

\* an answer to a key nobody waits for, or a request the worker drops
LEMMA DroppedWaits ==
  ASSUME Waiting, OnlyPopped, loader' = loader
  PROVE  Waiting'
<1>1. Working' <=> Working
  BY DEF Working
<1>2. \A id : Twice(id)' <=> Twice(id)
  BY DEF Twice
<1>3. /\ Current' = Current
      /\ \A n \in DOMAIN loader'.queue : n \in DOMAIN loader.queue /\ loader'.queue[n].id = loader.queue[n].id
  BY DEF Current
<1>4. ~Crowded(loader.queue)'
  BY DEF Waiting, Crowded
<1>5. ASSUME NEW n \in DOMAIN loader.queue, NEW CONSTANT id, loader.queue[n].id = id,
             Working => id # Current.id
      PROVE  IF Twice(id)' THEN Requests(id)' = {} ELSE Single(Requests(id)')
  <2>1. IF Twice(id) THEN Requests(id) = {} ELSE Single(Requests(id))
    BY <1>5 DEF Waiting
  <2> QED BY <1>2, <2>1, PoppedRequests
<1>6. PICK k \in {0, 1} : \A i \in DOMAIN workerRequests' :
      i \in Nat /\ i + k \in DOMAIN workerRequests /\ workerRequests'[i] = workerRequests[i + k]
  BY DEF OnlyPopped
<1>7. \A i \in Requests(Current.id)' :
        /\ i \in Nat /\ i + k \in Requests(Current.id)
        /\ workerRequests'[i] = workerRequests[i + k]
  BY <1>3, <1>6 DEF Requests
<1>8. ASSUME Working, Twice(Current.id)
      PROVE  /\ Single(Requests(Current.id)')
             /\ \A i \in Requests(Current.id)' : workerRequests'[i].code.files = Current.files
             /\ loader.at = "execute" => Requests(Current.id)' = {}
  <2>1. /\ Single(Requests(Current.id))
        /\ \A i \in Requests(Current.id) : workerRequests[i].code.files = Current.files
        /\ loader.at = "execute" => Requests(Current.id) = {}
    BY <1>8 DEF Waiting
  <2>2. \A i, j \in Nat : i + k = j + k => i = j
    OBVIOUS
  <2> QED BY <1>7, <2>1, <2>2 DEF Single
<1>9. ASSUME Working, ~Twice(Current.id), NEW i \in DOMAIN workerRequests', Foreign(i)'
      PROVE  /\ loader.at = "await" /\ loader.phase = "component"
             /\ \A j \in Requests(Current.id)' : i <= j
  <2>1. i \in Requests(Current.id)'
    BY <1>9 DEF Foreign
  <2>2. i \in Nat /\ i + k \in Requests(Current.id) /\ i + k \in DOMAIN workerRequests
        /\ workerRequests'[i] = workerRequests[i + k]
    BY <1>7, <2>1 DEF Requests
  <2>3. Foreign(i + k)
    <3>1. workerRequests'[i].label = CacheLabel(Current) /\ workerRequests'[i].code.files # Current.files
      BY <1>3, <1>9 DEF Foreign, CacheLabel
    <3> QED BY <2>2, <3>1 DEF Foreign
  <2>4. /\ loader.at = "await" /\ loader.phase = "component"
        /\ \A j \in Requests(Current.id) : i + k <= j
    BY <1>9, <2>2, <2>3 DEF Waiting
  <2>5. \A j \in Nat : i + k <= j + k => i <= j
    BY <2>2
  <2> QED BY <1>7, <2>4, <2>5
<1>10. loader.at = "execute" /\ loader.phase = "caching" =>
         loader.code.id = Current.id /\ loader.code.files = Current.files
  BY DEF Waiting
<1> QED BY <1>1, <1>2, <1>3, <1>4, <1>5, <1>8, <1>9, <1>10 DEF Waiting

\* the loader asks the worker: what is new in the queue is of this plugin
LEMMA AskedRequests ==
  ASSUME IsSequence(workerRequests), NEW r, workerRequests' = Append(workerRequests, r)
  PROVE  /\ \A id : r.code.id # id => Requests(id)' = Requests(id)
         /\ \A id : Requests(id)' \subseteq Requests(id) \cup {Len(workerRequests) + 1}
         /\ workerRequests'[Len(workerRequests) + 1] = r
         /\ \A i \in DOMAIN workerRequests :
              i \in Nat /\ i <= Len(workerRequests) /\ workerRequests'[i] = workerRequests[i]
<1>1. /\ DOMAIN workerRequests' = DOMAIN workerRequests \cup {Len(workerRequests) + 1}
      /\ workerRequests'[Len(workerRequests) + 1] = r
      /\ \A i \in DOMAIN workerRequests :
           i \in Nat /\ i <= Len(workerRequests) /\ workerRequests'[i] = workerRequests[i]
  BY AppendFacts
<1> QED BY <1>1 DEF Requests

\* the first request of a plugin
LEMMA FirstAskedWaits ==
  ASSUME IsSequence(workerRequests), IsSequence(loader.queue), loader.queue # <<>>,
         Waiting, ~Working,
         loader'.queue = loader.queue, loader'.at = "await", loader'.phase = "component",
         NEW r, workerRequests' = Append(workerRequests, r),
         r.code.id = Current.id, r.code.files = Current.files
  PROVE  Waiting'
<1> DEFINE last == Len(workerRequests) + 1
<1>1. /\ \A id : r.code.id # id => Requests(id)' = Requests(id)
      /\ \A id : Requests(id)' \subseteq Requests(id) \cup {last}
      /\ workerRequests'[last] = r
      /\ \A i \in DOMAIN workerRequests :
           i \in Nat /\ i <= Len(workerRequests) /\ workerRequests'[i] = workerRequests[i]
  BY AskedRequests
<1>2. Current' = Current /\ (\A id : Twice(id)' <=> Twice(id)) /\ ~Crowded(loader.queue)'
  BY DEF Current, Twice, Waiting, Crowded
<1>3. IF Twice(Current.id) THEN Requests(Current.id) = {} ELSE Single(Requests(Current.id))
  <2>1. 1 \in DOMAIN loader.queue /\ Current = loader.queue[1]
    BY TailFacts DEF Current
  <2> QED BY <2>1 DEF Waiting
<1>4. ASSUME NEW n \in DOMAIN loader.queue, NEW CONSTANT id, loader.queue[n].id = id, id # Current.id
      PROVE  IF Twice(id)' THEN Requests(id)' = {} ELSE Single(Requests(id)')
  <2>1. IF Twice(id) THEN Requests(id) = {} ELSE Single(Requests(id))
    BY <1>4 DEF Waiting
  <2> QED BY <1>1, <1>2, <1>4, <2>1
<1>5. ASSUME Twice(Current.id)
      PROVE  /\ Single(Requests(Current.id)')
             /\ \A i \in Requests(Current.id)' : workerRequests'[i].code.files = Current.files
  <2>1. Requests(Current.id)' \subseteq {last}
    <3>1. \A id : Requests(id) = {} => Requests(id)' \subseteq {last}
      BY <1>1
    <3> QED BY <1>2, <1>3, <1>5, <3>1 DEF Requests
  <2> QED BY <1>1, <2>1 DEF Single
<1>6. ASSUME ~Twice(Current.id), NEW i \in DOMAIN workerRequests', Foreign(i)',
             NEW j \in Requests(Current.id)'
      PROVE  i <= j
  <2>1. \A m \in Requests(Current.id)' : m \in Requests(Current.id) \cup {last}
    BY <1>1, <1>2 DEF Requests
  <2>2. i \in Requests(Current.id)' /\ i # last
    BY <1>1, <1>2, <1>6 DEF Foreign, Requests
  <2>3. i \in Requests(Current.id)
    BY <2>1, <2>2
  <2>4. i \in Nat /\ i <= Len(workerRequests) /\ Len(workerRequests) \in Nat
    BY <1>1, <2>3, SequenceFacts DEF Requests
  <2>5. CASE j = last
    BY <2>4, <2>5
  <2>6. CASE j \in Requests(Current.id)
    BY <1>3, <1>6, <2>3, <2>4, <2>6 DEF Single
  <2> QED BY <2>1, <2>5, <2>6
<1>7. Working' /\ loader'.at # "execute"
  BY DEF Working
<1> QED BY <1>2, <1>4, <1>5, <1>6, <1>7 DEF Waiting, Twice, Requests, Single

\* a further request of it, after the answer to the one before
LEMMA NextAskedWaits ==
  ASSUME IsSequence(workerRequests),
         Waiting, loader.at = "execute",
         loader'.queue = loader.queue, loader'.at = "await",
         NEW r, workerRequests' = Append(workerRequests, r),
         r.code.id = Current.id, r.code.files = Current.files
  PROVE  Waiting'
<1> DEFINE last == Len(workerRequests) + 1
<1>1. /\ \A id : r.code.id # id => Requests(id)' = Requests(id)
      /\ \A id : Requests(id)' \subseteq Requests(id) \cup {last}
      /\ workerRequests'[last] = r
      /\ \A i \in DOMAIN workerRequests :
           i \in Nat /\ i <= Len(workerRequests) /\ workerRequests'[i] = workerRequests[i]
  BY AskedRequests
<1>2. Current' = Current /\ (\A id : Twice(id)' <=> Twice(id)) /\ ~Crowded(loader.queue)'
  BY DEF Current, Twice, Waiting, Crowded
<1>3. Working /\ Working' /\ loader'.at # "execute"
  BY DEF Working
<1>4. ASSUME NEW n \in DOMAIN loader.queue, NEW CONSTANT id, loader.queue[n].id = id, id # Current.id
      PROVE  IF Twice(id)' THEN Requests(id)' = {} ELSE Single(Requests(id)')
  <2>1. IF Twice(id) THEN Requests(id) = {} ELSE Single(Requests(id))
    BY <1>4 DEF Waiting
  <2> QED BY <1>1, <1>2, <1>4, <2>1
<1>5. ASSUME Twice(Current.id)
      PROVE  /\ Single(Requests(Current.id)')
             /\ \A i \in Requests(Current.id)' : workerRequests'[i].code.files = Current.files
  <2>1. Requests(Current.id)' \subseteq {last}
    <3>1. \A id : Requests(id) = {} => Requests(id)' \subseteq {last}
      BY <1>1
    <3>2. Requests(Current.id) = {}
      BY <1>3, <1>5 DEF Waiting
    <3> QED BY <1>2, <3>1, <3>2 DEF Requests
  <2> QED BY <1>1, <2>1 DEF Single
<1>6. ASSUME ~Twice(Current.id), NEW i \in DOMAIN workerRequests', Foreign(i)'
      PROVE  FALSE
  <2>1. \A m \in Requests(Current.id)' : m \in Requests(Current.id) \cup {last}
    BY <1>1, <1>2 DEF Requests
  <2>2. i \in Requests(Current.id)' /\ i # last
    BY <1>1, <1>2, <1>6 DEF Foreign, Requests
  <2>3. i \in Requests(Current.id) /\ i \in DOMAIN workerRequests
    BY <2>1, <2>2 DEF Requests
  <2>4. Foreign(i)
    BY <1>1, <1>2, <1>6, <2>3 DEF Foreign, CacheLabel
  <2> QED BY <1>3, <1>6, <2>3, <2>4 DEF Waiting
<1> QED BY <1>2, <1>3, <1>4, <1>5, <1>6 DEF Waiting, Twice, Requests, Single

\* the answer it waits for, or one that passes for it
LEMMA AnsweredWaits ==
  ASSUME IsSequence(workerRequests), workerRequests # <<>>, Waiting, Keys, Shapes,
         loader.at = "await", Head(workerRequests).label = pending,
         workerRequests' = Tail(workerRequests),
         loader' = [loader EXCEPT !.at = "execute", !.code = Head(workerRequests).code]
  PROVE  Waiting'
<1> DEFINE first == workerRequests[1]
<1>1. /\ Head(workerRequests) = first /\ 1 \in DOMAIN workerRequests
      /\ \A i \in DOMAIN workerRequests' :
           i \in Nat /\ i >= 1 /\ i + 1 \in DOMAIN workerRequests /\ workerRequests'[i] = workerRequests[i + 1]
  BY TailFacts
<1>2. OnlyPopped
  BY TailIsPopped
<1>3. /\ loader'.queue = loader.queue /\ loader'.at = "execute" /\ loader'.phase = loader.phase
      /\ loader'.code = first.code
  BY <1>1 DEF Shapes
<1>4. Current' = Current /\ (\A id : Twice(id)' <=> Twice(id)) /\ ~Crowded(loader.queue)'
  BY <1>3 DEF Current, Twice, Waiting, Crowded
<1>5. Working /\ Working'
  BY <1>3 DEF Working
<1>6. 1 \in Requests(Current.id)
  BY <1>1 DEF Keys, Keyed, Requests
<1>7. ASSUME NEW n \in DOMAIN loader.queue, NEW CONSTANT id, loader.queue[n].id = id, id # Current.id
      PROVE  IF Twice(id)' THEN Requests(id)' = {} ELSE Single(Requests(id)')
  <2>1. IF Twice(id) THEN Requests(id) = {} ELSE Single(Requests(id))
    BY <1>7 DEF Waiting
  <2> QED BY <1>2, <1>4, <2>1, PoppedRequests
<1>8. ASSUME Twice(Current.id)
      PROVE  Requests(Current.id)' = {}
  <2>1. \A i \in Requests(Current.id)' : i \in Nat /\ i >= 1 /\ i + 1 \in Requests(Current.id)
    BY <1>1, <1>4 DEF Requests
  <2>2. \A i \in Requests(Current.id) : i = 1
    BY <1>5, <1>6, <1>8 DEF Waiting, Single
  <2>3. \A i \in Nat : i >= 1 => i + 1 # 1
    OBVIOUS
  <2> QED BY <2>1, <2>2, <2>3
<1>9. ASSUME ~Twice(Current.id), NEW i \in DOMAIN workerRequests, Foreign(i) PROVE FALSE
  <2>1. loader.phase = "component" /\ i <= 1
    BY <1>5, <1>6, <1>9 DEF Waiting
  <2>2. i = 1
    BY <2>1, SequenceFacts
  <2>3. first.label = CacheLabel(Current) /\ first.label = pending
    BY <1>1, <1>9, <2>2 DEF Foreign
  <2>4. Len(pending) = 3
    BY <2>1 DEF Keys
  <2>5. pending = <<Current.id>>
    BY <2>3 DEF CacheLabel
  <2>6. \A x : Len(<<x>>) = 1
    OBVIOUS
  <2> QED BY <2>4, <2>5, <2>6
<1>10. ASSUME ~Twice(Current.id), NEW i \in DOMAIN workerRequests', Foreign(i)' PROVE FALSE
  <2>1. Foreign(i + 1) /\ i + 1 \in DOMAIN workerRequests
    BY <1>1, <1>4, <1>10 DEF Foreign, Requests, CacheLabel
  <2> QED BY <1>9, <1>10, <2>1
<1>11. ASSUME loader.phase = "caching"
       PROVE  first.code.id = Current.id /\ first.code.files = Current.files
  <2>1. first.label = CacheLabel(Current) /\ first.code.id = Current.id
    BY <1>1, <1>11 DEF Keys, Keyed
  <2>2. CASE Twice(Current.id)
    BY <1>5, <1>6, <2>1, <2>2 DEF Waiting
  <2>3. CASE ~Twice(Current.id)
    <3>1. ~Foreign(1)
      BY <1>1, <1>9, <2>3
    <3> QED BY <1>6, <2>1, <3>1 DEF Foreign
  <2> QED BY <2>1, <2>2, <2>3
<1> QED BY <1>3, <1>4, <1>5, <1>7, <1>8, <1>10, <1>11 DEF Waiting, Twice, Requests, Single

-----------------------------------------------------------------------------
(* The other parts of the invariant.                                        *)

LEMMA Asks ==
  ASSUME Shapes, Keys, Queued,
         NEW label, NEW code, compileInWorker(label, code),
         label # <<>>, label[1] = code.id
  PROVE  /\ IsSequence(workerRequests)'
         /\ workerRequests' = Append(workerRequests, [label |-> label, code |-> code])
         /\ pending' = label
         /\ \A i \in DOMAIN workerRequests' : Keyed(workerRequests'[i])
         /\ ~(<<>> \in DOMAIN timers')
<1> DEFINE r == [label |-> label, code |-> code]
<1>1. workerRequests' = Append(workerRequests, r) /\ pending' = label
      /\ DOMAIN timers' = DOMAIN timers \cup {label}
  BY DEF compileInWorker
<1>2. /\ IsSequence(Append(workerRequests, r))
      /\ DOMAIN Append(workerRequests, r) = DOMAIN workerRequests \cup {Len(workerRequests) + 1}
      /\ Append(workerRequests, r)[Len(workerRequests) + 1] = r
      /\ \A i \in DOMAIN workerRequests : Append(workerRequests, r)[i] = workerRequests[i]
  BY AppendFacts DEF Shapes
<1>3. Keyed(r)
  BY DEF Keyed
<1> HIDE DEF r
<1>4. \A i \in DOMAIN workerRequests' : Keyed(workerRequests'[i])
  BY <1>1, <1>2, <1>3 DEF Keys
<1> QED BY <1>1, <1>2, <1>4 DEF Keys, r

LEMMA Advances ==
  ASSUME Shapes, Queued, Advance
  PROVE  /\ IsSequence(loader'.queue) /\ loader'.queue = Tail(loader.queue)
         /\ loader'.at \in {"next", "done"}
         /\ loader' = [at |-> loader'.at, phase |-> loader'.phase, queue |-> loader'.queue, todo |-> loader'.todo,
                        built |-> loader'.built, code |-> loader'.code]
         /\ loader'.phase = "component"
         /\ loader'.at = "next" => loader'.queue # <<>>
<1>1. /\ IsSequence(Tail(loader.queue)) /\ Len(Tail(loader.queue)) = Len(loader.queue) - 1
      /\ Len(loader.queue) \in Nat
  BY TailFacts, SequenceFacts DEF Shapes
<1>2. Len(loader.queue) # 1 => Tail(loader.queue) # <<>>
  <2>1. Len(<<>>) = 0
    OBVIOUS
  <2>2. Len(loader.queue) # 1 => Len(Tail(loader.queue)) # 0
    BY <1>1
  <2> QED BY <2>1, <2>2
<1> QED BY <1>1, <1>2 DEF Advance, NoLoader

\* what every way of leaving a plugin has in common
LEMMA LeavesPlugin ==
  ASSUME PluginInv, Queued, Advance, OnlyPopped, IsSequence(workerRequests'),
         pending' = <<>>, DOMAIN timers' = DOMAIN timers, crowded' = crowded
  PROVE  Shapes' /\ Keys' /\ (~crowded' => Waiting')
<1>1. /\ IsSequence(loader'.queue) /\ loader'.queue = Tail(loader.queue)
      /\ loader'.at \in {"next", "done"}
      /\ loader' = [at |-> loader'.at, phase |-> loader'.phase, queue |-> loader'.queue, todo |-> loader'.todo,
                     built |-> loader'.built, code |-> loader'.code]
      /\ loader'.phase = "component"
      /\ loader'.at = "next" => loader'.queue # <<>>
  BY Advances DEF PluginInv
<1>2. Shapes'
  BY <1>1 DEF Shapes, PluginInv, Queued
<1>3. Keys'
  <2>1. \A i \in DOMAIN workerRequests' : Keyed(workerRequests'[i])
    BY DEF OnlyPopped, PluginInv, Keys
  <2> QED BY <1>1, <2>1 DEF Keys, PluginInv
<1>4. ~crowded' => Waiting'
  BY <1>1, AdvanceWaits DEF PluginInv, Shapes, Queued
<1> QED BY <1>2, <1>3, <1>4

LEMMA CachedKept ==
  ASSUME Cached, UNCHANGED <<cache, writing, offered, crowded>>, loader'.at # "cached"
  PROVE  Cached'
  BY DEF Cached

-----------------------------------------------------------------------------
(* One lemma per action.                                                    *)

LEMMA PluginStarts == PluginInit => PluginInv
<1> SUFFICES ASSUME PluginInit PROVE PluginInv
  OBVIOUS
<1>1. Shapes
  BY EmptySequence DEF PluginInit, Shapes, NoLoader, Queued
<1>2. Keys
  BY EmptySequence DEF PluginInit, Keys, NoLoader
<1>3. Waiting
  BY EmptySequence DEF PluginInit, Waiting, NoLoader, Working, Crowded
<1>4. Cached
  BY EmptySequence DEF PluginInit, Cached, NoLoader
<1> QED BY <1>1, <1>2, <1>3, <1>4 DEF PluginInv

\* a step that leaves alone what the invariant is about
LEMMA PluginFrame ==
  ASSUME PluginInv, UNCHANGED <<cache, offered, writing, loader, workerRequests, pending, timers, crowded>>
  PROVE  PluginInv'
<1>1. Shapes'
  BY DEF PluginInv, Shapes, Queued
<1>2. Keys'
  BY DEF PluginInv, Keys, Current, CacheLabel
<1>3. ~crowded' => Waiting'
  BY SameIsPopped, DroppedWaits DEF PluginInv, Shapes
<1>4. Cached'
  BY DEF PluginInv, Cached, Entry, Current
<1> QED BY <1>1, <1>2, <1>3, <1>4 DEF PluginInv

LEMMA ReloadStep == ASSUME PluginInv, NEW updated, Reload(updated) PROVE PluginInv'
<1>1. /\ offered' = <<>> /\ loader' = NoLoader /\ workerRequests' = <<>> /\ pending' = <<>>
      /\ timers' = <<>> /\ writing' = {} /\ crowded' = crowded
  BY DEF Reload, FreshPage
<1>2. Shapes'
  BY <1>1, EmptySequence DEF PluginInv, Shapes, NoLoader, Queued
<1>3. Keys'
  BY <1>1, EmptySequence DEF Keys, NoLoader
<1>4. Waiting'
  BY <1>1, EmptySequence DEF Waiting, NoLoader, Working, Crowded
<1>5. Cached'
  <2>1. \A e \in cache' : \E x \in cache :
          e.key = x.key /\ e.code = x.code /\ DOMAIN e = {"key", "code", "old"}
    <3>1. \A x \in cache : LET y == [x EXCEPT !.old = TRUE]
                           IN y.key = x.key /\ y.code = x.code /\ DOMAIN y = DOMAIN x
      BY DEF PluginInv, Cached
    <3>2. CASE cache' = cache
      BY <3>2 DEF PluginInv, Cached
    <3>3. CASE cache' = {[x EXCEPT !.old = TRUE] : x \in cache}
      BY <3>1, <3>3 DEF PluginInv, Cached
    <3> QED BY <3>2, <3>3 DEF Reload
  <2>2. loader'.at = "off"
    BY <1>1 DEF NoLoader
  <2> QED BY <1>1, <2>1, <2>2, EmptySequence DEF PluginInv, Cached, generateCacheKey
<1> QED BY <1>2, <1>3, <1>4, <1>5 DEF PluginInv

LEMMA LoadStep == ASSUME PluginInv, loadLocalPlugins PROVE PluginInv'
<1>1. /\ loader.at = "off" /\ loader'.at = "listing" /\ loader'.queue = loader.queue
      /\ loader'.phase = loader.phase
      /\ loader' = [at |-> loader'.at, phase |-> loader'.phase, queue |-> loader'.queue, todo |-> loader'.todo,
                     built |-> loader'.built, code |-> loader'.code]
      /\ UNCHANGED <<cache, offered, writing, workerRequests, pending, timers, crowded>>
  BY DEF loadLocalPlugins, PluginInv, Shapes
<1>2. Shapes'
  BY <1>1 DEF PluginInv, Shapes, Queued
<1>3. Keys'
  BY <1>1 DEF PluginInv, Keys
<1>4. ~crowded' => Waiting'
  BY <1>1, SameIsPopped, IdleWaits DEF PluginInv, Shapes, Working
<1>5. Cached'
  BY <1>1, CachedKept DEF PluginInv
<1> QED BY <1>2, <1>3, <1>4, <1>5 DEF PluginInv

LEMMA ListedStep == ASSUME PluginInv, Listed PROVE PluginInv'
<1>1. /\ loader.at = "listing" /\ workerRequests' = <<>> /\ pending' = <<>> /\ IsSequence(loader.queue)
      /\ UNCHANGED <<cache, offered, writing, workerRequests, pending, timers>>
  BY DEF Listed, PluginInv, Keys, Shapes
<1>2. /\ loader'.at \in {"failed", "done", "next"} /\ loader'.phase = loader.phase
      /\ loader' = [at |-> loader'.at, phase |-> loader'.phase, queue |-> loader'.queue, todo |-> loader'.todo,
                     built |-> loader'.built, code |-> loader'.code]
      /\ loader'.at = "next" => loader'.queue # <<>>
      /\ \/ loader'.queue = DiscoverPlugins /\ crowded' = (crowded \/ Crowded(DiscoverPlugins))
         \/ loader'.queue = loader.queue /\ crowded' = crowded
  BY DEF Listed, PluginInv, Shapes
<1>3. IsSequence(DiscoverPlugins)
  <2> DEFINE dirs == {d \in 1..NumDirs : disk[d] # None}
             nth(k) == CHOOSE d \in dirs : Cardinality({x \in dirs : x <= d}) = k
             S == {disk[nth(k)] : k \in 1..Cardinality(dirs)}
  <2>1. Cardinality(dirs) \in Nat
    <3>1. IsFiniteSet(1..NumDirs)
      BY PluginAssumption, FS_Interval
    <3>2. dirs \subseteq 1..NumDirs
      OBVIOUS
    <3> HIDE DEF dirs
    <3> QED BY <3>1, <3>2, FS_Subset, FS_CardinalityType
  <2>2. DiscoverPlugins \in [1..Cardinality(dirs) -> S]
    BY DEF DiscoverPlugins
  <2> HIDE DEF S, dirs
  <2>3. DiscoverPlugins \in Seq(S)
    BY <2>1, <2>2, SeqDef
  <2> QED BY <2>3, SequenceOfRange
<1>4. IsSequence(loader'.queue)
  BY <1>1, <1>2, <1>3
<1>5. Shapes'
  BY <1>1, <1>2, <1>4 DEF PluginInv, Shapes, Queued
<1>6. Keys'
  BY <1>1, <1>2 DEF PluginInv, Keys
<1>7. ASSUME ~crowded' PROVE Waiting'
  <2>1. ~Crowded(loader'.queue)
    <3>1. CASE loader'.queue = DiscoverPlugins /\ crowded' = (crowded \/ Crowded(DiscoverPlugins))
      BY <1>7, <3>1
    <3>2. CASE loader'.queue = loader.queue /\ crowded' = crowded
      BY <1>7, <3>2 DEF PluginInv, Waiting
    <3> QED BY <1>2, <3>1, <3>2
  <2>2. \A id : Requests(id)' = {}
    BY <1>1, EmptySequence DEF Requests
  <2>3. ~Working' /\ loader'.at # "execute"
    BY <1>2 DEF Working
  <2> QED BY <2>1, <2>2, <2>3 DEF Waiting, Crowded, Requests, Single
<1>8. Cached'
  <2>1. crowded' \/ ~crowded
    BY <1>2 DEF PluginInv, Shapes
  <2>2. loader'.at # "cached"
    BY <1>2
  <2> QED BY <1>1, <2>1, <2>2 DEF PluginInv, Cached
<1> QED BY <1>5, <1>6, <1>7, <1>8 DEF PluginInv

LEMMA RegisterStep == ASSUME PluginInv, registerExternal PROVE PluginInv'
<1>1. /\ loader.at = "next" /\ Queued /\ ~Working
      /\ UNCHANGED <<cache, offered, writing, workerRequests, pending, timers, crowded>>
      /\ IsSequence(workerRequests) /\ OnlyPopped /\ pending = <<>>
  BY SameIsPopped DEF registerExternal, Queued, Working, PluginInv, Shapes, Keys
<1>2. CASE Advance
  <2>1. Shapes' /\ Keys' /\ (~crowded' => Waiting')
    BY <1>1, <1>2, LeavesPlugin
  <2>2. loader'.at # "cached"
    BY <1>1, <1>2, Advances DEF PluginInv
  <2> QED BY <1>1, <2>1, <2>2, CachedKept DEF PluginInv
<1>3. CASE loader' = [loader EXCEPT !.at = "lookup"]
  <2>1. /\ loader'.at = "lookup" /\ loader'.queue = loader.queue /\ loader'.phase = loader.phase
        /\ loader' = [at |-> loader'.at, phase |-> loader'.phase, queue |-> loader'.queue, todo |-> loader'.todo,
                       built |-> loader'.built, code |-> loader'.code]
    BY <1>3 DEF PluginInv, Shapes
  <2>2. Shapes'
    BY <1>1, <2>1 DEF PluginInv, Shapes, Queued
  <2>3. Keys'
    BY <1>1, <2>1 DEF PluginInv, Keys
  <2>4. ~crowded' => Waiting'
    BY <1>1, <2>1, IdleWaits DEF PluginInv
  <2>5. Cached'
    BY <1>1, <2>1, CachedKept DEF PluginInv
  <2> QED BY <2>2, <2>3, <2>4, <2>5 DEF PluginInv
<1> QED BY <1>2, <1>3 DEF registerExternal

LEMMA LookupStep == ASSUME PluginInv, Lookup PROVE PluginInv'
<1> DEFINE c == Current
           files == componentsToCompile(Current)
<1>1. /\ loader.at = "lookup" /\ Queued /\ ~Working
      /\ UNCHANGED <<cache, offered, writing, crowded>>
      /\ IsSequence(workerRequests) /\ pending = <<>>
      /\ IsSequence(loader.queue) /\ loader.queue # <<>>
  BY DEF Lookup, Queued, Working, PluginInv, Shapes, Keys
<1>2. CASE /\ Entry(c) # {} /\ loader' = [loader EXCEPT !.at = "cached"]
           /\ UNCHANGED <<workerRequests, pending, timers>>
  <2>1. /\ loader'.at = "cached" /\ loader'.queue = loader.queue /\ loader'.phase = loader.phase
        /\ loader' = [at |-> loader'.at, phase |-> loader'.phase, queue |-> loader'.queue, todo |-> loader'.todo,
                       built |-> loader'.built, code |-> loader'.code]
    BY <1>2 DEF PluginInv, Shapes
  <2>2. Shapes'
    BY <1>1, <1>2, <2>1 DEF PluginInv, Shapes, Queued
  <2>3. Keys'
    BY <1>1, <1>2, <2>1 DEF PluginInv, Keys
  <2>4. ~crowded' => Waiting'
    BY <1>1, <1>2, <2>1, SameIsPopped, IdleWaits DEF PluginInv
  <2>5. Cached'
    BY <1>1, <1>2, <2>1 DEF PluginInv, Cached, Entry, Current
  <2> QED BY <2>2, <2>3, <2>4, <2>5 DEF PluginInv
<1>3. CASE /\ loader' = [loader EXCEPT !.at = "await", !.phase = "component", !.todo = files, !.built = <<>>]
           /\ compileInWorker(Label(c, files[1]), Compiled(c, files[1]))
  <2> DEFINE label == Label(c, files[1])
             code == Compiled(c, files[1])
  <2>1. /\ loader'.at = "await" /\ loader'.queue = loader.queue /\ loader'.phase = "component"
        /\ loader' = [at |-> loader'.at, phase |-> loader'.phase, queue |-> loader'.queue, todo |-> loader'.todo,
                       built |-> loader'.built, code |-> loader'.code]
    BY <1>3 DEF PluginInv, Shapes
  <2>2. label # <<>> /\ label[1] = c.id /\ Len(label) = 3 /\ code.id = c.id /\ code.files = c.files
    BY DEF Label, Compiled
  <2> HIDE DEF label, code
  <2>3. /\ IsSequence(workerRequests)'
        /\ workerRequests' = Append(workerRequests, [label |-> label, code |-> code])
        /\ pending' = label
        /\ \A i \in DOMAIN workerRequests' : Keyed(workerRequests'[i])
        /\ ~(<<>> \in DOMAIN timers')
    BY <1>1, <1>3, <2>2, Asks DEF PluginInv, label, code
  <2>4. Shapes'
    BY <1>1, <2>1, <2>3 DEF PluginInv, Shapes, Queued
  <2>5. Keys'
    BY <2>1, <2>2, <2>3 DEF Keys, Current
  <2>6. ~crowded' => Waiting'
    <3> DEFINE request == [label |-> label, code |-> code]
    <3>1. request.code.id = Current.id /\ request.code.files = Current.files
      BY <2>2
    <3> HIDE DEF request
    <3>2. workerRequests' = Append(workerRequests, request)
      BY <2>3 DEF request
    <3> QED BY <1>1, <2>1, <3>1, <3>2, FirstAskedWaits DEF PluginInv
  <2>7. Cached'
    BY <1>1, <2>1, CachedKept DEF PluginInv
  <2> QED BY <2>4, <2>5, <2>6, <2>7 DEF PluginInv
<1>4. CASE Advance /\ UNCHANGED <<workerRequests, pending, timers>>
  <2>1. Shapes' /\ Keys' /\ (~crowded' => Waiting')
    BY <1>1, <1>4, SameIsPopped, LeavesPlugin
  <2>2. loader'.at # "cached"
    BY <1>1, <1>4, Advances DEF PluginInv
  <2> QED BY <1>1, <2>1, <2>2, CachedKept DEF PluginInv
<1> QED BY <1>2, <1>3, <1>4 DEF Lookup, Fail

LEMMA CacheStep == ASSUME PluginInv, loadFromCache PROVE PluginInv'
<1>1. /\ loader.at = "cached" /\ Queued /\ ~Working
      /\ UNCHANGED <<cache, writing, workerRequests, pending, timers, crowded>>
      /\ IsSequence(workerRequests) /\ OnlyPopped /\ pending = <<>>
  BY SameIsPopped DEF loadFromCache, Queued, Working, PluginInv, Shapes, Keys
<1> DEFINE c == Current
           e == CHOOSE x \in Entry(Current) : TRUE
<1>2. CASE /\ offered' = WithOffers(Offer(c, FirstVisualizer(c), LAMBDA component : e.code, "cache"))
           /\ Advance
  <2>1. Shapes' /\ Keys' /\ (~crowded' => Waiting')
    BY <1>1, <1>2, LeavesPlugin
  <2>2. loader'.at # "cached"
    BY <1>1, <1>2, Advances DEF PluginInv
  <2>3. \A k \in DOMAIN offered' :
          \/ offered'[k].manifest = c /\ offered'[k].code = e.code
          \/ k \in DOMAIN offered /\ offered'[k] = offered[k]
    <3> DEFINE f == Offer(c, FirstVisualizer(c), LAMBDA component : e.code, "cache")
    <3>1. \A k \in DOMAIN f : f[k].manifest = c /\ f[k].code = e.code
      BY DEF Offer
    <3> HIDE DEF f
    <3>2. offered' = WithOffers(f)
      BY <1>2 DEF f
    <3> QED BY <3>1, <3>2 DEF WithOffers
  <2>4. ~crowded => e.code.files = c.files
    <3>1. e \in Entry(c)
      BY <1>1 DEF PluginInv, Cached
    <3>2. e \in cache /\ e.key = <<c.id, c.files>>
      BY <3>1 DEF Entry, generateCacheKey
    <3>3. ~crowded => e.key = <<e.code.id, e.code.files>>
      BY <3>2 DEF PluginInv, Cached, generateCacheKey
    <3> QED BY <3>2, <3>3
  <2> HIDE DEF e
  <2>5. Cached'
    BY <1>1, <2>2, <2>3, <2>4 DEF PluginInv, Cached
  <2> QED BY <2>1, <2>5 DEF PluginInv
<1>3. CASE loader' = [loader EXCEPT !.at = "dropping"] /\ UNCHANGED offered
  <2>1. /\ loader'.at = "dropping" /\ loader'.queue = loader.queue /\ loader'.phase = loader.phase
        /\ loader' = [at |-> loader'.at, phase |-> loader'.phase, queue |-> loader'.queue, todo |-> loader'.todo,
                       built |-> loader'.built, code |-> loader'.code]
    BY <1>3 DEF PluginInv, Shapes
  <2>2. Shapes'
    BY <1>1, <2>1 DEF PluginInv, Shapes, Queued
  <2>3. Keys'
    BY <1>1, <2>1 DEF PluginInv, Keys
  <2>4. ~crowded' => Waiting'
    BY <1>1, <2>1, IdleWaits DEF PluginInv
  <2>5. Cached'
    BY <1>1, <1>3, <2>1, CachedKept DEF PluginInv
  <2> QED BY <2>2, <2>3, <2>4, <2>5 DEF PluginInv
<1> QED BY <1>2, <1>3 DEF loadFromCache

LEMMA DropStep == ASSUME PluginInv, DropEntry PROVE PluginInv'
<1>1. /\ loader.at = "dropping" /\ Queued
      /\ UNCHANGED <<offered, writing, workerRequests, pending, timers, crowded>>
      /\ cache' \subseteq cache /\ Advance
      /\ IsSequence(workerRequests) /\ OnlyPopped /\ pending = <<>>
  BY SameIsPopped DEF DropEntry, Fail, Queued, PluginInv, Shapes, Keys
<1>2. Shapes' /\ Keys' /\ (~crowded' => Waiting')
  BY <1>1, LeavesPlugin
<1>3. loader'.at # "cached"
  BY <1>1, Advances DEF PluginInv
<1>4. Cached'
  BY <1>1, <1>3 DEF PluginInv, Cached, generateCacheKey
<1> QED BY <1>2, <1>4 DEF PluginInv

\* an answer that settles nothing, or a request dropped
LEMMA IgnoredStep ==
  ASSUME PluginInv, workerRequests # <<>>, workerRequests' = Tail(workerRequests),
         UNCHANGED <<cache, offered, writing, loader, pending, timers, crowded>>
  PROVE  PluginInv'
<1>1. OnlyPopped /\ IsSequence(workerRequests)'
  BY TailIsPopped DEF PluginInv, Shapes
<1>2. Shapes'
  BY <1>1 DEF PluginInv, Shapes, Queued
<1>3. Keys'
  <2>1. \A i \in DOMAIN workerRequests' : Keyed(workerRequests'[i])
    BY <1>1 DEF OnlyPopped, PluginInv, Keys
  <2> QED BY <2>1 DEF PluginInv, Keys, Current, CacheLabel
<1>4. ~crowded' => Waiting'
  BY <1>1, DroppedWaits DEF PluginInv
<1>5. Cached'
  BY DEF PluginInv, Cached, Entry, Current
<1> QED BY <1>2, <1>3, <1>4, <1>5 DEF PluginInv

LEMMA AnswerStep == ASSUME PluginInv, NEW success \in BOOLEAN, WorkerAnswers(success) PROVE PluginInv'
<1>1. /\ workerRequests # <<>> /\ workerRequests' = Tail(workerRequests)
      /\ UNCHANGED <<cache, offered, writing, timers, crowded>>
      /\ IsSequence(workerRequests)
  BY DEF WorkerAnswers, PluginInv, Shapes
<1>2. OnlyPopped /\ IsSequence(workerRequests')
  BY <1>1, TailIsPopped
<1>3. CASE Head(workerRequests).label # pending
  BY <1>1, <1>3, IgnoredStep DEF WorkerAnswers
<1>4. CASE Head(workerRequests).label = pending
  <2>1. loader.at = "await" /\ Queued
    <3>1. Head(workerRequests) = workerRequests[1] /\ 1 \in DOMAIN workerRequests
      BY <1>1, TailFacts
    <3>2. pending # <<>>
      BY <1>4, <3>1 DEF PluginInv, Keys, Keyed
    <3> QED BY <3>2 DEF PluginInv, Keys, Queued
  <2>2. pending' = <<>>
    BY <1>4 DEF WorkerAnswers
  <2>3. CASE success
    <3>1. loader' = [loader EXCEPT !.at = "execute", !.code = Head(workerRequests).code]
      BY <1>4, <2>3 DEF WorkerAnswers
    <3>2. /\ loader'.at = "execute" /\ loader'.queue = loader.queue /\ loader'.phase = loader.phase
          /\ loader' = [at |-> loader'.at, phase |-> loader'.phase, queue |-> loader'.queue, todo |-> loader'.todo,
                         built |-> loader'.built, code |-> loader'.code]
      BY <3>1 DEF PluginInv, Shapes
    <3>3. Shapes'
      BY <1>1, <1>2, <2>1, <3>2 DEF PluginInv, Shapes, Queued
    <3>4. Keys'
      <4>1. \A i \in DOMAIN workerRequests' : Keyed(workerRequests'[i])
        BY <1>2 DEF OnlyPopped, PluginInv, Keys
      <4> QED BY <1>1, <2>2, <3>2, <4>1 DEF PluginInv, Keys
    <3>5. ~crowded' => Waiting'
      BY <1>1, <1>4, <2>1, <3>1, AnsweredWaits DEF PluginInv
    <3>6. Cached'
      BY <1>1, <3>2, CachedKept DEF PluginInv
    <3> QED BY <3>3, <3>4, <3>5, <3>6 DEF PluginInv
  <2>4. CASE ~success
    <3>1. Advance
      BY <1>4, <2>4 DEF WorkerAnswers, Fail
    <3>2. Shapes' /\ Keys' /\ (~crowded' => Waiting')
      BY <1>1, <1>2, <2>1, <2>2, <3>1, LeavesPlugin
    <3>3. loader'.at # "cached"
      BY <2>1, <3>1, Advances DEF PluginInv
    <3> QED BY <1>1, <3>2, <3>3, CachedKept DEF PluginInv
  <2> QED BY <2>3, <2>4
<1> QED BY <1>3, <1>4

LEMMA TimeoutStep ==
  ASSUME PluginInv, NEW label \in DOMAIN timers, CompileTimeout(label) PROVE PluginInv'
<1>1. /\ UNCHANGED <<cache, offered, writing, workerRequests, crowded>>
      /\ DOMAIN timers' = DOMAIN timers
      /\ IsSequence(workerRequests) /\ OnlyPopped /\ label # <<>>
  BY SameIsPopped DEF CompileTimeout, PluginInv, Shapes, Keys
<1>2. CASE pending = label
  <2>1. loader.at = "await" /\ Queued
    BY <1>1, <1>2 DEF PluginInv, Keys, Queued
  <2>2. pending' = <<>> /\ Advance
    BY <1>2 DEF CompileTimeout, Fail
  <2>3. Shapes' /\ Keys' /\ (~crowded' => Waiting')
    BY <1>1, <2>1, <2>2, LeavesPlugin
  <2>4. loader'.at # "cached"
    BY <2>1, <2>2, Advances DEF PluginInv
  <2> QED BY <1>1, <2>3, <2>4, CachedKept DEF PluginInv
<1>3. CASE pending # label
  <2>1. UNCHANGED <<pending, loader>>
    BY <1>3 DEF CompileTimeout
  <2>2. Shapes'
    BY <1>1, <2>1 DEF PluginInv, Shapes, Queued
  <2>3. Keys'
    BY <1>1, <2>1 DEF PluginInv, Keys, Current, CacheLabel
  <2>4. ~crowded' => Waiting'
    BY <1>1, <2>1, DroppedWaits DEF PluginInv
  <2>5. Cached'
    BY <1>1, <2>1 DEF PluginInv, Cached, Entry, Current
  <2> QED BY <2>2, <2>3, <2>4, <2>5 DEF PluginInv
<1> QED BY <1>2, <1>3

\* the next request of a plugin, for a component or for the cache
LEMMA NextAsked ==
  ASSUME PluginInv, loader.at = "execute",
         loader'.at = "await", loader'.queue = loader.queue, loader'.phase \in {"component", "caching"},
         loader' = [at |-> loader'.at, phase |-> loader'.phase, queue |-> loader'.queue, todo |-> loader'.todo,
                    built |-> loader'.built, code |-> loader'.code],
         NEW label, NEW code, compileInWorker(label, code),
         label # <<>>, label[1] = Current.id, code.id = Current.id, code.files = Current.files,
         loader'.phase = "component" => Len(label) = 3,
         loader'.phase = "caching" => label = CacheLabel(Current),
         crowded' = crowded
  PROVE  Shapes' /\ Keys' /\ (~crowded' => Waiting')
<1>1. Queued /\ IsSequence(workerRequests)
  BY DEF Queued, PluginInv, Shapes
<1>2. /\ IsSequence(workerRequests)'
      /\ workerRequests' = Append(workerRequests, [label |-> label, code |-> code])
      /\ pending' = label
      /\ \A i \in DOMAIN workerRequests' : Keyed(workerRequests'[i])
      /\ ~(<<>> \in DOMAIN timers')
  BY <1>1, Asks DEF PluginInv
<1>3. Shapes'
  BY <1>1, <1>2 DEF PluginInv, Shapes, Queued
<1>4. Keys'
  BY <1>2 DEF Keys, Current, CacheLabel
<1>5. ~crowded' => Waiting'
  <2> DEFINE request == [label |-> label, code |-> code]
  <2>1. request.code.id = Current.id /\ request.code.files = Current.files
    OBVIOUS
  <2> HIDE DEF request
  <2>2. workerRequests' = Append(workerRequests, request)
    BY <1>2 DEF request
  <2> QED BY <1>1, <2>1, <2>2, NextAskedWaits DEF PluginInv
<1> QED BY <1>3, <1>4, <1>5

LEMMA ExecuteStep == ASSUME PluginInv, ExecuteComponent PROVE PluginInv'
<1> DEFINE c == Current
           component == Head(loader.todo)
           rest == Tail(loader.todo)
           built == [f \in DOMAIN loader.built \cup {component} |->
                       IF f = component THEN loader.code ELSE loader.built[f]]
<1>1. /\ loader.at = "execute" /\ Queued /\ loader.phase = "component"
      /\ UNCHANGED <<cache, writing, crowded>>
      /\ IsSequence(workerRequests) /\ pending = <<>>
  BY DEF ExecuteComponent, Queued, PluginInv, Shapes, Keys
<1>2. ASSUME Advance, UNCHANGED <<workerRequests, pending, timers>>
      PROVE  Shapes' /\ Keys' /\ (~crowded' => Waiting') /\ loader'.at # "cached"
  <2>1. Shapes' /\ Keys' /\ (~crowded' => Waiting')
    BY <1>1, <1>2, SameIsPopped, LeavesPlugin
  <2> QED BY <1>1, <1>2, <2>1, Advances DEF PluginInv
<1>3. CASE Fail /\ UNCHANGED <<offered, workerRequests, pending, timers>>
  <2>1. Advance
    BY <1>3 DEF Fail
  <2> QED BY <1>1, <1>2, <1>3, <2>1, CachedKept DEF PluginInv
<1>4. CASE /\ loader' = [loader EXCEPT !.at = "await", !.todo = rest, !.built = built]
           /\ compileInWorker(Label(c, rest[1]), Compiled(c, rest[1]))
           /\ UNCHANGED offered
  <2> DEFINE label == Label(c, rest[1])
             code == Compiled(c, rest[1])
  <2>1. /\ loader'.at = "await" /\ loader'.queue = loader.queue /\ loader'.phase = "component"
        /\ loader' = [at |-> loader'.at, phase |-> loader'.phase, queue |-> loader'.queue, todo |-> loader'.todo,
                       built |-> loader'.built, code |-> loader'.code]
    <3> HIDE DEF built, rest
    <3> QED BY <1>1, <1>4 DEF PluginInv, Shapes
  <2>2. label # <<>> /\ label[1] = c.id /\ Len(label) = 3 /\ code.id = c.id /\ code.files = c.files
    BY DEF Label, Compiled
  <2> HIDE DEF label, code
  <2>3. compileInWorker(label, code)
    BY <1>4 DEF label, code
  <2>4. Shapes' /\ Keys' /\ (~crowded' => Waiting')
    BY <1>1, <2>1, <2>2, <2>3, NextAsked
  <2> QED BY <1>1, <1>4, <2>1, <2>4, CachedKept DEF PluginInv
<1>5. ASSUME offered' = WithOffers(Offer(c, ToSet(c.caps), LAMBDA f : built[f], "files")), loader'.at # "cached"
      PROVE  Cached'
  <2> DEFINE g == Offer(c, ToSet(c.caps), LAMBDA f : built[f], "files")
  <2> HIDE DEF built
  <2>1. \A k \in DOMAIN g : g[k].from = "files"
    BY DEF Offer
  <2> HIDE DEF g
  <2>2. offered' = WithOffers(g)
    BY <1>5 DEF g
  <2>3. \A k \in DOMAIN offered' :
          offered'[k].from = "files" \/ (k \in DOMAIN offered /\ offered'[k] = offered[k])
    BY <2>1, <2>2 DEF WithOffers
  <2> QED BY <1>1, <1>5, <2>3 DEF PluginInv, Cached
<1>6. CASE /\ offered' = WithOffers(Offer(c, ToSet(c.caps), LAMBDA f : built[f], "files"))
           /\ loader' = [loader EXCEPT !.at = "await", !.phase = "caching"]
           /\ compileInWorker(CacheLabel(c), Compiled(c, component))
  <2> DEFINE label == CacheLabel(c)
             code == Compiled(c, component)
  <2>1. /\ loader'.at = "await" /\ loader'.queue = loader.queue /\ loader'.phase = "caching"
        /\ loader' = [at |-> loader'.at, phase |-> loader'.phase, queue |-> loader'.queue, todo |-> loader'.todo,
                       built |-> loader'.built, code |-> loader'.code]
    BY <1>1, <1>6 DEF PluginInv, Shapes
  <2>2. label # <<>> /\ label[1] = c.id /\ code.id = c.id /\ code.files = c.files
    BY DEF CacheLabel, Compiled
  <2>3. label = CacheLabel(Current)
    OBVIOUS
  <2> HIDE DEF label, code
  <2>4. compileInWorker(label, code)
    BY <1>6 DEF label, code
  <2>5. Shapes' /\ Keys' /\ (~crowded' => Waiting')
    BY <1>1, <2>1, <2>2, <2>3, <2>4, NextAsked
  <2> QED BY <1>5, <1>6, <2>1, <2>5 DEF PluginInv
<1>7. CASE /\ offered' = WithOffers(Offer(c, ToSet(c.caps), LAMBDA f : built[f], "files"))
           /\ Advance /\ UNCHANGED <<workerRequests, pending, timers>>
  BY <1>2, <1>5, <1>7 DEF PluginInv
<1> QED BY <1>3, <1>4, <1>6, <1>7 DEF ExecuteComponent

LEMMA CacheWriteStep == ASSUME PluginInv, cacheCompiledPlugin PROVE PluginInv'
<1>1. /\ loader.at = "execute" /\ Queued /\ loader.phase = "caching" /\ Advance
      /\ UNCHANGED <<cache, offered, workerRequests, pending, timers, crowded>>
      /\ IsSequence(workerRequests) /\ OnlyPopped /\ pending = <<>>
  BY SameIsPopped DEF cacheCompiledPlugin, Fail, Queued, PluginInv, Shapes, Keys
<1>2. Shapes' /\ Keys' /\ (~crowded' => Waiting') /\ loader'.at # "cached"
  BY <1>1, LeavesPlugin, Advances DEF PluginInv
<1>3. CASE writing' = writing
  BY <1>1, <1>2, <1>3, CachedKept DEF PluginInv
<1>4. CASE writing' = writing \cup {[key |-> generateCacheKey(Current), code |-> loader.code, old |-> FALSE]}
  <2> DEFINE new == [key |-> generateCacheKey(Current), code |-> loader.code, old |-> FALSE]
  <2>1. ~crowded => loader.code.id = Current.id /\ loader.code.files = Current.files
    BY <1>1 DEF PluginInv, Waiting
  <2>2. DOMAIN new = {"key", "code", "old"} /\ (~crowded => new.key = generateCacheKey(new.code))
    BY <2>1 DEF generateCacheKey
  <2> HIDE DEF new
  <2>3. writing' = writing \cup {new}
    BY <1>4 DEF new
  <2>4. Cached'
    BY <1>1, <1>2, <2>2, <2>3 DEF PluginInv, Cached, generateCacheKey
  <2> QED BY <1>2, <2>4 DEF PluginInv
<1> QED BY <1>3, <1>4 DEF cacheCompiledPlugin

LEMMA WrittenStep == ASSUME PluginInv, NEW w, CacheWritten(w) PROVE PluginInv'
<1>1. /\ UNCHANGED <<offered, loader, workerRequests, pending, timers, crowded>>
      /\ writing' \subseteq writing /\ w \in writing
      /\ cache' = {e \in cache : e.key # w.key} \cup {w} \/ cache' = cache
  BY DEF CacheWritten
<1>2. Shapes'
  BY <1>1 DEF PluginInv, Shapes, Queued
<1>3. Keys'
  BY <1>1 DEF PluginInv, Keys, Current, CacheLabel
<1>4. ~crowded' => Waiting'
  BY <1>1, SameIsPopped, DroppedWaits DEF PluginInv, Shapes
<1>5. Cached'
  <2>1. cache' \subseteq cache \cup writing
    BY <1>1
  <2>2. Entry(Current) # {} => Entry(Current)' # {}
    BY <1>1 DEF Entry, Current, generateCacheKey
  <2> QED BY <1>1, <2>1, <2>2 DEF PluginInv, Cached, generateCacheKey
<1> QED BY <1>2, <1>3, <1>4, <1>5 DEF PluginInv

-----------------------------------------------------------------------------
LEMMA PluginStep == PluginInv /\ [PluginNext]_pluginVars => PluginInv'
<1> SUFFICES ASSUME PluginInv, [PluginNext]_pluginVars PROVE PluginInv'
  OBVIOUS
<1>1. ASSUME NEW d, NEW c, Edit(d, c) PROVE PluginInv'
  BY <1>1, PluginFrame DEF Edit, pageState
<1>2. CASE UNCHANGED pluginVars
  BY <1>2, PluginFrame DEF pluginVars, pageState
<1>3. CASE Load
  BY <1>3, LoadStep, ListedStep, RegisterStep, LookupStep, CacheStep, DropStep, ExecuteStep, CacheWriteStep
     DEF Load
<1>4. CASE WorkerSilent
  BY <1>4, IgnoredStep DEF WorkerSilent
<1> QED BY <1>1, <1>2, <1>3, <1>4, ReloadStep, AnswerStep, TimeoutStep, WrittenStep DEF PluginNext

\* What runs from the cache was compiled from the files that were listed, and so
\* was every entry, unless three plugins of a listing shared an id
\* (plugin-cache.service.ts:4-6).
THEOREM CacheAlwaysCurrent == PluginSafety => []CacheServesCurrentFiles
<1>1. PluginInv => CacheServesCurrentFiles
  BY DEF PluginInv, Cached, CacheServesCurrentFiles
<1> QED BY <1>1, PluginStarts, PluginStep, PTL DEF PluginSafety

-----------------------------------------------------------------------------
(* The replay *)

(***************************************************************************)
(* Every step but a hasty load keeps what a run has a position for: the    *)
(* events up to it are shown or about to be.                               *)
(***************************************************************************)
\* The instance of r shows, or is about to show, the events up to k.
UpTo(r, k) ==
  /\ \A n \in StreamEvents(r) : instances[r].shown[n] + eventBuffer[r][n] = IF n <= k THEN 1 ELSE 0
  /\ \A p \in players : p.run = r => k = p.pos
  /\ (\E load \in fetching : load.run = r) => k = 0

LEMMA ShowsUpTo ==
  ReplayShowsRecording <=> (~hasty => \A r \in DOMAIN instances : \E k \in 0 .. Len(recorded[r]) : UpTo(r, k))
BY DEF ReplayShowsRecording, UpTo

LEMMA Recordings ==
  ASSUME NEW r \in Runs
  PROVE  /\ Len(recorded[r]) \in Nat /\ Events(r) = 1 .. Len(recorded[r])
         /\ StreamEvents(r) \subseteq Events(r)
         /\ recorded[r] # <<>> <=> Len(recorded[r]) > 0
BY ReplayAssumption DEF Events, StreamEvents

-----------------------------------------------------------------------------
(* Types *)

LEMMA CountedType ==
  ASSUME NEW times, DOMAIN times = Runs, \A r \in Runs : times[r] \in [Events(r) -> Nat],
         NEW x \in Runs, NEW from, NEW to, NEW type
  PROVE  /\ DOMAIN Counted(times, x, from, to, type) = Runs
         /\ \A r \in Runs : Counted(times, x, from, to, type)[r] \in [Events(r) -> Nat]
         /\ \A r \in Runs \ {x} : Counted(times, x, from, to, type)[r] = times[r]
         /\ \A n \in Events(x) : Counted(times, x, from, to, type)[x][n] =
              IF n \in from .. to /\ recorded[x][n] = type THEN times[x][n] + 1 ELSE times[x][n]
BY DEF Counted

LEMMA CompletedType ==
  ASSUME NEW list, DOMAIN list \subseteq Runs, NEW done,
         \A r \in DOMAIN list : list[r] \in [running : BOOLEAN, shown : [Events(r) -> Nat]]
  PROVE  /\ DOMAIN Completed(list, done) = DOMAIN list
         /\ \A r \in DOMAIN list :
              /\ Completed(list, done)[r] \in [running : BOOLEAN, shown : [Events(r) -> Nat]]
              /\ Completed(list, done)[r].shown = list[r].shown
<1>1. ASSUME NEW r \in DOMAIN list
      PROVE  /\ Completed(list, done)[r] \in [running : BOOLEAN, shown : [Events(r) -> Nat]]
             /\ Completed(list, done)[r].shown = list[r].shown
  <2>1. PICK b \in BOOLEAN, s \in [Events(r) -> Nat] : list[r] = [running |-> b, shown |-> s]
    <3>1. list[r] \in [running : BOOLEAN, shown : [Events(r) -> Nat]]
      OBVIOUS
    <3> QED BY <3>1
  <2>2. Completed(list, done)[r] = [list[r] EXCEPT !.running = @ /\ r \notin {p.run : p \in done}]
    BY DEF Completed
  <2>3. Completed(list, done)[r] = [running |-> b /\ r \notin {p.run : p \in done}, shown |-> s]
    BY <2>1, <2>2
  <2>4. (b /\ r \notin {p.run : p \in done}) \in BOOLEAN
    OBVIOUS
  <2> QED BY <2>1, <2>3, <2>4
<1>2. DOMAIN Completed(list, done) = DOMAIN list
  BY DEF Completed
<1> QED BY <1>1, <1>2

LEMMA CompletedInstances ==
  ASSUME ReplayTypeOK, NEW done
  PROVE  /\ DOMAIN Completed(instances, done) = DOMAIN instances
         /\ \A r \in DOMAIN instances :
              /\ Completed(instances, done)[r] \in [running : BOOLEAN, shown : [Events(r) -> Nat]]
              /\ Completed(instances, done)[r].shown = instances[r].shown
BY CompletedType DEF ReplayTypeOK

LEMMA EmitTypes ==
  ASSUME ReplayTypeOK, NEW x \in Runs, NEW from, NEW to, Emit(x, from, to)
  PROVE  /\ DOMAIN snapshotTimes' = Runs /\ \A r \in Runs : snapshotTimes'[r] \in [Events(r) -> Nat]
         /\ DOMAIN eventBuffer' = Runs /\ \A r \in Runs : eventBuffer'[r] \in [Events(r) -> Nat]
         /\ \A r \in Runs \ {x} : eventBuffer'[r] = eventBuffer[r]
         /\ \A n \in Events(x) : eventBuffer'[x][n] =
              IF n \in from .. to /\ recorded[x][n] = "event" THEN eventBuffer[x][n] + 1 ELSE eventBuffer[x][n]
<1>1. DOMAIN eventBuffer = Runs /\ \A r \in Runs : eventBuffer[r] \in [Events(r) -> Nat]
  BY DEF ReplayTypeOK
<1>2. DOMAIN snapshotTimes = Runs /\ \A r \in Runs : snapshotTimes[r] \in [Events(r) -> Nat]
  BY DEF ReplayTypeOK
<1>3. eventBuffer' = Counted(eventBuffer, x, from, to, "event")
  BY DEF Emit
<1>4. snapshotTimes' = Counted(snapshotTimes, x, from, to, "array") \/ snapshotTimes' = snapshotTimes
  BY DEF Emit
<1>5. DOMAIN snapshotTimes' = Runs /\ \A r \in Runs : snapshotTimes'[r] \in [Events(r) -> Nat]
  BY <1>2, <1>4, CountedType
<1> QED BY <1>1, <1>3, <1>5, CountedType

\* Emitting shows the next events.
LEMMA EmitShows ==
  ASSUME ReplayTypeOK, NEW x \in Runs, NEW pos \in Nat, NEW to \in pos .. Len(recorded[x]),
         Emit(x, pos + 1, to), NEW shown \in [Events(x) -> Nat],
         \A n \in StreamEvents(x) : shown[n] + eventBuffer[x][n] = IF n <= pos THEN 1 ELSE 0
  PROVE  \A n \in StreamEvents(x) : shown[n] + eventBuffer'[x][n] = IF n <= to THEN 1 ELSE 0
<1> SUFFICES ASSUME NEW n \in StreamEvents(x)
             PROVE  shown[n] + eventBuffer'[x][n] = IF n <= to THEN 1 ELSE 0
  OBVIOUS
<1>1. n \in Events(x) /\ recorded[x][n] = "event" /\ n \in Nat /\ n >= 1
  BY Recordings DEF StreamEvents
<1>2. PICK s \in Nat, b \in Nat : s = shown[n] /\ b = eventBuffer[x][n]
  BY <1>1 DEF ReplayTypeOK
<1>3. s + b = IF n <= pos THEN 1 ELSE 0
  BY <1>2
<1>4. eventBuffer'[x][n] = IF n \in pos + 1 .. to THEN b + 1 ELSE b
  BY <1>1, <1>2, EmitTypes
<1>5. to \in Nat /\ pos <= to
  BY Recordings
<1>6. CASE n <= pos
  <2>1. n \notin pos + 1 .. to /\ n <= to
    BY <1>1, <1>5, <1>6
  <2> QED BY <1>2, <1>3, <1>4, <1>6, <2>1
<1>7. CASE ~(n <= pos) /\ n <= to
  <2>1. n \in pos + 1 .. to
    BY <1>1, <1>5, <1>7
  <2>2. s + b = 0
    BY <1>3, <1>7
  <2>3. s + (b + 1) = 1
    BY <1>2, <2>2
  <2> QED BY <1>2, <1>4, <1>7, <2>1, <2>3
<1>8. CASE ~(n <= pos) /\ ~(n <= to)
  <2>1. n \notin pos + 1 .. to
    BY <1>1, <1>5, <1>8
  <2> QED BY <1>2, <1>3, <1>4, <1>8, <2>1
<1> QED BY <1>6, <1>7, <1>8

-----------------------------------------------------------------------------
(* The steps *)

\* Fewer instances, players and loads need nothing more to be shown.
LEMMA FewerKeep ==
  ASSUME ReplayTypeOK, ReplayShowsRecording, ~hasty => OneAtATime,
         DOMAIN instances' \subseteq DOMAIN instances,
         \A r \in DOMAIN instances' : instances'[r].shown = instances[r].shown,
         UNCHANGED <<eventBuffer, hasty>>,
         players' \subseteq players, fetching' \subseteq fetching
  PROVE  (~hasty => OneAtATime)' /\ ReplayShowsRecording'
<1>1. (~hasty => OneAtATime)'
  BY DEF OneAtATime
<1>2. ASSUME ~hasty, NEW r \in DOMAIN instances' PROVE \E k \in 0 .. Len(recorded[r]) : UpTo(r, k)'
  <2>1. PICK k \in 0 .. Len(recorded[r]) : UpTo(r, k)
    BY <1>2, ShowsUpTo
  <2>2. UpTo(r, k)'
    BY <1>2, <2>1 DEF UpTo, StreamEvents, Events
  <2> QED BY <2>2
<1>3. ReplayShowsRecording'
  BY <1>2 DEF ReplayShowsRecording, UpTo
<1> QED BY <1>1, <1>3

\* The only player or load goes on: its run is shown up to its new position.
LEMMA Onward ==
  ASSUME ReplayTypeOK, ReplayShowsRecording, NEW x \in Runs, NEW pos \in Nat,
         NEW to \in pos .. Len(recorded[x]), Emit(x, pos + 1, to),
         \A k : UpTo(x, k) => k = pos,
         DOMAIN instances' = DOMAIN instances,
         \A r \in DOMAIN instances' : instances'[r].shown = instances[r].shown,
         hasty' = hasty,
         ~hasty => /\ fetching' = {}
                   /\ \A p \in players' : p.run = x /\ p.pos = to
  PROVE  ReplayShowsRecording'
<1>1. ASSUME ~hasty, NEW r \in DOMAIN instances PROVE \E k \in 0 .. Len(recorded[r]) : UpTo(r, k)'
  <2>1. PICK k \in 0 .. Len(recorded[r]) : UpTo(r, k)
    BY <1>1, ShowsUpTo
  <2>2. r \in Runs
    BY DEF ReplayTypeOK
  <2>3. CASE r = x
    <3>1. k = pos
      BY <2>1, <2>3
    <3>2. instances[x].shown \in [Events(x) -> Nat]
      BY <2>3 DEF ReplayTypeOK
    <3>3. \A n \in StreamEvents(x) : instances[x].shown[n] + eventBuffer[x][n] = IF n <= pos THEN 1 ELSE 0
      BY <2>1, <2>3, <3>1 DEF UpTo
    <3>4. \A n \in StreamEvents(x) : instances[x].shown[n] + eventBuffer'[x][n] = IF n <= to THEN 1 ELSE 0
      BY <3>2, <3>3, EmitShows
    <3>5. UpTo(x, to)'
      BY <1>1, <2>3, <3>4 DEF UpTo, StreamEvents, Events
    <3>6. to \in 0 .. Len(recorded[x])
      BY Recordings
    <3> QED BY <2>3, <3>5, <3>6
  <2>4. CASE r # x
    <3>1. eventBuffer'[r] = eventBuffer[r]
      BY <2>2, <2>4, EmitTypes
    <3>2. UpTo(r, k)'
      BY <1>1, <2>1, <2>4, <3>1 DEF UpTo, StreamEvents, Events
    <3> QED BY <3>2
  <2> QED BY <2>3, <2>4
<1> QED BY <1>1 DEF ReplayShowsRecording, UpTo

LEMMA LoadKeeps ==
  ASSUME ReplayInv, NEW r \in Runs, NEW mode \in {"instant", "realtime"}, loadRunData(r, mode)
  PROVE  ReplayInv'
<1> DEFINE some == recorded[r] # <<>>
           list == [x \in DOMAIN instances \cup {r} |->
                      IF x = r THEN Emptied(r, mode = "realtime" /\ some) ELSE instances[x]]
           new == [id |-> loads + 1, run |-> r, mode |-> mode, visit |-> visit]
<1>0. ReplayTypeOK /\ (~hasty => OneAtATime) /\ ReplayShowsRecording
  BY DEF ReplayInv
<1>1. /\ players' = players \ Aborted /\ instances' = Completed(list, Aborted)
      /\ isPlaying' = FALSE /\ loadedRuns' = loadedRuns \cup {p.run : p \in Aborted}
      /\ loads' = loads + 1 /\ activeRunId' = r
      /\ hasty' = (hasty \/ fetching # {} \/ eventBuffer # Nothing \/ players # Aborted)
      /\ UNCHANGED <<visit, mounted, snapshotTimes, controller, eventBuffer, failed>>
      /\ fetching' = IF some THEN fetching \cup {new} ELSE fetching
  BY DEF loadRunData, Abort
<1>2. Never(r) \in [Events(r) -> Nat]
  BY DEF Never
<1>3. /\ DOMAIN list \subseteq Runs
      /\ \A x \in DOMAIN list : list[x] \in [running : BOOLEAN, shown : [Events(x) -> Nat]]
  BY <1>0, <1>2 DEF ReplayTypeOK, Emptied
<1> HIDE DEF list
<1>4. /\ DOMAIN instances' = DOMAIN list
      /\ \A x \in DOMAIN instances' : /\ instances'[x] \in [running : BOOLEAN, shown : [Events(x) -> Nat]]
                                      /\ instances'[x].shown = list[x].shown
  BY <1>1, <1>3, CompletedType
<1>5. new \in RunLoad /\ loads + 1 \in Nat
  BY <1>0 DEF ReplayTypeOK, RunLoad
<1>6. Aborted \subseteq players /\ \A p \in players : p.run \in Runs
  BY <1>0 DEF Aborted, ReplayTypeOK, RunPlayer
<1>7. ReplayTypeOK'
  <2> HIDE DEF some, new
  <2>1. fetching' \subseteq RunLoad /\ players' \subseteq players
    BY <1>0, <1>1, <1>5 DEF ReplayTypeOK
  <2>2. loadedRuns' \subseteq Runs
    BY <1>0, <1>1, <1>6 DEF ReplayTypeOK
  <2>3. hasty' \in BOOLEAN
    BY <1>1
  <2>4. DOMAIN instances' \subseteq Runs
    BY <1>3, <1>4
  <2> QED BY <1>0, <1>1, <1>4, <1>5, <2>1, <2>2, <2>3, <2>4 DEF ReplayTypeOK, Events
<1>8. ~hasty' => ~hasty /\ fetching = {} /\ eventBuffer = Nothing /\ players' = {}
  BY <1>1
<1>9. (~hasty => OneAtATime)'
  BY <1>1, <1>8 DEF OneAtATime
<1>10. ASSUME ~hasty', NEW x \in DOMAIN instances' PROVE \E k \in 0 .. Len(recorded[x]) : UpTo(x, k)'
  <2>1. \A load \in fetching' : load.run = r
    BY <1>1, <1>8, <1>10
  <2>2. CASE x = r
    <3>1. instances'[r].shown = Never(r) /\ eventBuffer'[r] = Never(r)
      BY <1>1, <1>4, <1>8, <1>10 DEF Emptied, Nothing, list
    <3>2. \A n \in StreamEvents(r) : n \in Events(r) /\ n \in Nat /\ ~(n <= 0)
      BY Recordings
    <3>3. \A n \in StreamEvents(r) : Never(r)[n] + Never(r)[n] = 0
      BY <3>2 DEF Never
    <3>4. UpTo(r, 0)'
      BY <1>8, <1>10, <3>1, <3>2, <3>3 DEF UpTo, StreamEvents, Events
    <3>5. 0 \in 0 .. Len(recorded[r])
      BY Recordings
    <3> QED BY <2>2, <3>4, <3>5
  <2>3. CASE x # r
    <3>1. x \in DOMAIN instances /\ instances'[x].shown = instances[x].shown
      BY <1>4, <2>3 DEF list
    <3>2. PICK k \in 0 .. Len(recorded[x]) : UpTo(x, k)
      BY <1>0, <1>8, <1>10, <3>1, ShowsUpTo
    <3>3. UpTo(x, k)'
      BY <1>1, <1>8, <1>10, <2>1, <2>3, <3>1, <3>2 DEF UpTo, StreamEvents, Events
    <3> QED BY <3>3
  <2> QED BY <2>2, <2>3
<1> QED BY <1>7, <1>9, <1>10 DEF ReplayInv, ReplayShowsRecording, UpTo

\* What onComplete does.
LEMMA CompleteTypes ==
  ASSUME ReplayTypeOK, NEW p, p.run \in Runs, NEW playing \in BOOLEAN, Complete(p, playing)
  PROVE  /\ DOMAIN instances' = DOMAIN instances
         /\ \A r \in DOMAIN instances' :
              /\ instances'[r] \in [running : BOOLEAN, shown : [Events(r) -> Nat]]
              /\ instances'[r].shown = instances[r].shown
         /\ isPlaying' \in BOOLEAN /\ loadedRuns' \subseteq Runs
<1>1. instances' = Completed(instances, {p}) /\ isPlaying' \in BOOLEAN
  BY DEF Complete
<1>2. loadedRuns' \subseteq Runs
  BY DEF Complete, ReplayTypeOK
<1> QED BY <1>1, <1>2, CompletedInstances

\* what a player emits, and where it and the others are then
Emitted(p, others) ==
  \E to \in p.pos .. Len(recorded[p.run]) :
    /\ Emit(p.run, p.pos + 1, to)
    /\ \A q \in players' : q \in others \/ q = [p EXCEPT !.pos = to]

\* A player goes on.
LEMMA PlayOnTypes ==
  ASSUME ReplayTypeOK, NEW p \in RunPlayer, NEW others \in SUBSET players, NEW playing \in BOOLEAN,
         PlayOn(p, others, playing)
  PROVE  /\ DOMAIN instances' = DOMAIN instances
         /\ \A r \in DOMAIN instances' :
              /\ instances'[r] \in [running : BOOLEAN, shown : [Events(r) -> Nat]]
              /\ instances'[r].shown = instances[r].shown
         /\ isPlaying' \in BOOLEAN /\ loadedRuns' \subseteq Runs
         /\ players' \subseteq RunPlayer /\ \A q \in players' : q.pos < Len(recorded[q.run])
         /\ Emitted(p, others)
<1>1. PICK to \in p.pos + 1 .. Len(recorded[p.run]) :
        /\ Emit(p.run, p.pos + 1, to)
        /\ \/ to = Len(recorded[p.run]) /\ players' = others /\ Complete(p, playing)
           \/ /\ to # Len(recorded[p.run])
              /\ players' = others \cup {[p EXCEPT !.pos = to]}
              /\ isPlaying' = playing
              /\ UNCHANGED <<instances, loadedRuns>>
  BY DEF PlayOn
<1>2. p.run \in Runs /\ p.pos \in Nat
  BY DEF RunPlayer
<1>3. to \in Nat /\ to \in p.pos .. Len(recorded[p.run]) /\ to <= Len(recorded[p.run])
      /\ Len(recorded[p.run]) \in Nat
  BY <1>2, Recordings
<1>4. \A q \in others : q \in RunPlayer /\ q.pos < Len(recorded[q.run])
  BY DEF ReplayTypeOK
<1>5. CASE to = Len(recorded[p.run]) /\ players' = others /\ Complete(p, playing)
  <2>1. Emitted(p, others)
    BY <1>1, <1>3, <1>5 DEF Emitted
  <2> QED BY <1>1, <1>2, <1>3, <1>4, <1>5, <2>1, CompleteTypes
<1>6. CASE /\ to # Len(recorded[p.run])
           /\ players' = others \cup {[p EXCEPT !.pos = to]}
           /\ isPlaying' = playing
           /\ UNCHANGED <<instances, loadedRuns>>
  <2> DEFINE q == [p EXCEPT !.pos = to]
  <2>1. q \in RunPlayer /\ q.pos = to /\ q.run = p.run
    BY <1>3 DEF RunPlayer
  <2>2. q.pos < Len(recorded[q.run])
    BY <1>3, <1>6, <2>1
  <2>3. DOMAIN instances' = DOMAIN instances /\ loadedRuns' \subseteq Runs
        /\ \A r \in DOMAIN instances' :
              /\ instances'[r] \in [running : BOOLEAN, shown : [Events(r) -> Nat]]
              /\ instances'[r].shown = instances[r].shown
    BY <1>6 DEF ReplayTypeOK
  <2> HIDE DEF q
  <2>4. players' = others \cup {q}
    BY <1>6 DEF q
  <2>5. players' \subseteq RunPlayer /\ \A x \in players' : x.pos < Len(recorded[x.run])
    BY <1>4, <2>1, <2>2, <2>4
  <2>6. Emitted(p, others)
    BY <1>1, <1>3, <2>4 DEF q, Emitted
  <2> QED BY <1>6, <2>3, <2>5, <2>6
<1> QED BY <1>1, <1>5, <1>6

LEMMA PlayKeeps ==
  ASSUME ReplayInv, NEW load, play(load)
  PROVE  ReplayInv'
<1>0. ReplayTypeOK /\ (~hasty => OneAtATime) /\ ReplayShowsRecording
  BY DEF ReplayInv
<1>1. /\ load \in fetching /\ fetching' = fetching \ {load}
      /\ controller' \in {load.id, controller}
      /\ UNCHANGED <<visit, mounted, activeRunId, loads, hasty, failed>>
  BY DEF play
<1>2. load \in RunLoad /\ load.run \in Runs /\ load.id \in Nat /\ load.visit \in Nat
  BY <1>0, <1>1 DEF ReplayTypeOK, RunLoad
<1>3. ~hasty => fetching' = {} /\ players = {}
  BY <1>0, <1>1 DEF OneAtATime
<1>4. \A k : UpTo(load.run, k) => k = 0
  BY <1>1 DEF UpTo
<1>5. Len(recorded[load.run]) \in Nat
  BY <1>2, Recordings
<1>6. fetching' \subseteq RunLoad /\ controller' \in Nat
  BY <1>0, <1>1, <1>2 DEF ReplayTypeOK
<1>7. CASE playInstant(load)
  <2>1. Emit(load.run, 0 + 1, Len(recorded[load.run])) /\ Complete(load, isPlaying) /\ players' = players
    BY <1>7 DEF playInstant
  <2>2. /\ DOMAIN instances' = DOMAIN instances
        /\ \A r \in DOMAIN instances' :
              /\ instances'[r] \in [running : BOOLEAN, shown : [Events(r) -> Nat]]
              /\ instances'[r].shown = instances[r].shown
        /\ isPlaying' \in BOOLEAN /\ loadedRuns' \subseteq Runs
    BY <1>0, <1>2, <2>1, CompleteTypes DEF ReplayTypeOK
  <2>3. Len(recorded[load.run]) \in 0 .. Len(recorded[load.run])
    BY <1>5
  <2>4. ReplayShowsRecording'
    BY <1>0, <1>1, <1>2, <1>3, <1>4, <2>1, <2>2, <2>3, Onward
  <2>5. ReplayTypeOK'
    BY <1>0, <1>1, <1>2, <1>6, <2>1, <2>2, EmitTypes DEF ReplayTypeOK, Events
  <2>6. (~hasty => OneAtATime)'
    BY <1>1, <1>3, <2>1 DEF OneAtATime
  <2> QED BY <2>4, <2>5, <2>6 DEF ReplayInv
<1>8. ASSUME NEW p, p = [id |-> load.id, run |-> load.run, pos |-> 0, visit |-> load.visit],
             PlayOn(p, players, isPlaying \/ load.visit = visit)
      PROVE  ReplayInv'
  <2>1. p \in RunPlayer /\ p.run = load.run /\ p.pos = 0
    BY <1>2, <1>8 DEF RunPlayer
  <2>2. (isPlaying \/ load.visit = visit) \in BOOLEAN /\ players \in SUBSET players
    BY <1>0 DEF ReplayTypeOK
  <2>3. /\ DOMAIN instances' = DOMAIN instances
        /\ \A r \in DOMAIN instances' :
              /\ instances'[r] \in [running : BOOLEAN, shown : [Events(r) -> Nat]]
              /\ instances'[r].shown = instances[r].shown
        /\ isPlaying' \in BOOLEAN /\ loadedRuns' \subseteq Runs
        /\ players' \subseteq RunPlayer /\ \A q \in players' : q.pos < Len(recorded[q.run])
        /\ Emitted(p, players)
    BY <1>0, <1>8, <2>1, <2>2, PlayOnTypes
  <2>4. PICK to \in p.pos .. Len(recorded[p.run]) :
          /\ Emit(p.run, p.pos + 1, to)
          /\ \A q \in players' : q \in players \/ q = [p EXCEPT !.pos = to]
    BY <2>3 DEF Emitted
  <2>5. [p EXCEPT !.pos = to].run = load.run /\ [p EXCEPT !.pos = to].pos = to
    BY <1>8
  <2>6. ~hasty => \A q \in players' : q.run = load.run /\ q.pos = to /\ q = [p EXCEPT !.pos = to]
    BY <1>3, <2>4, <2>5
  <2>10. Emit(load.run, 0 + 1, to) /\ to \in 0 .. Len(recorded[load.run])
    BY <2>1, <2>4
  <2>7. ReplayShowsRecording'
    BY <1>0, <1>1, <1>2, <1>3, <1>4, <2>3, <2>6, <2>10, Onward
  <2>8. ReplayTypeOK'
    BY <1>0, <1>1, <1>2, <1>6, <2>1, <2>3, <2>4, EmitTypes DEF ReplayTypeOK, Events
  <2>9. (~hasty => OneAtATime)'
    BY <1>1, <1>3, <2>6 DEF OneAtATime
  <2> QED BY <2>7, <2>8, <2>9 DEF ReplayInv
<1> QED BY <1>7, <1>8 DEF play

LEMMA WakeKeeps ==
  ASSUME ReplayInv, NEW p, PlayerWakes(p)
  PROVE  ReplayInv'
<1>0. ReplayTypeOK /\ (~hasty => OneAtATime) /\ ReplayShowsRecording
  BY DEF ReplayInv
<1>1. /\ p \in players /\ PlayOn(p, players \ {p}, isPlaying)
      /\ UNCHANGED <<visit, mounted, activeRunId, controller, fetching, loads, hasty, failed>>
  BY DEF PlayerWakes
<1>2. p \in RunPlayer /\ p.run \in Runs /\ p.pos \in Nat /\ players \ {p} \in SUBSET players
  BY <1>0, <1>1 DEF ReplayTypeOK, RunPlayer
<1>3. ~hasty => players \ {p} = {} /\ fetching = {}
  BY <1>0, <1>1 DEF OneAtATime
<1>4. \A k : UpTo(p.run, k) => k = p.pos
  BY <1>1 DEF UpTo
<1>5. isPlaying \in BOOLEAN
  BY <1>0 DEF ReplayTypeOK
<1> DEFINE others == players \ {p}
<1>20. others \in SUBSET players /\ PlayOn(p, others, isPlaying)
  BY <1>1
<1> HIDE DEF others
<1>6. /\ DOMAIN instances' = DOMAIN instances
      /\ \A r \in DOMAIN instances' :
            /\ instances'[r] \in [running : BOOLEAN, shown : [Events(r) -> Nat]]
            /\ instances'[r].shown = instances[r].shown
      /\ isPlaying' \in BOOLEAN /\ loadedRuns' \subseteq Runs
      /\ players' \subseteq RunPlayer /\ \A q \in players' : q.pos < Len(recorded[q.run])
      /\ Emitted(p, others)
  BY <1>0, <1>2, <1>5, <1>20, PlayOnTypes
<1>7. PICK to \in p.pos .. Len(recorded[p.run]) :
        /\ Emit(p.run, p.pos + 1, to)
        /\ \A q \in players' : q \in others \/ q = [p EXCEPT !.pos = to]
  BY <1>6 DEF Emitted
<1>8. [p EXCEPT !.pos = to].run = p.run /\ [p EXCEPT !.pos = to].pos = to
  BY <1>2 DEF RunPlayer
<1>9. ~hasty => \A q \in players' : q.run = p.run /\ q.pos = to /\ q = [p EXCEPT !.pos = to]
  BY <1>3, <1>7, <1>8 DEF others
<1>10. ReplayShowsRecording'
  BY <1>0, <1>1, <1>2, <1>3, <1>4, <1>6, <1>7, <1>9, Onward
<1>11. ReplayTypeOK'
  BY <1>0, <1>1, <1>2, <1>6, <1>7, EmitTypes DEF ReplayTypeOK, Events
<1>12. (~hasty => OneAtATime)'
  BY <1>1, <1>3, <1>9 DEF OneAtATime
<1> QED BY <1>10, <1>11, <1>12 DEF ReplayInv

LEMMA FlushKeeps ==
  ASSUME ReplayInv, Flush
  PROVE  ReplayInv'
<1>0. ReplayTypeOK /\ (~hasty => OneAtATime) /\ ReplayShowsRecording
  BY DEF ReplayInv
<1>1. /\ eventBuffer' = Nothing
      /\ instances' = [r \in DOMAIN instances |->
           [instances[r] EXCEPT !.shown = [n \in Events(r) |-> @[n] + eventBuffer[r][n]]]]
      /\ UNCHANGED <<ofPage, snapshotTimes, fetching, players, loads, hasty, failed>>
  BY DEF Flush
<1>2. ASSUME NEW r \in DOMAIN instances
      PROVE  /\ instances'[r] \in [running : BOOLEAN, shown : [Events(r) -> Nat]]
             /\ \A n \in Events(r) : instances'[r].shown[n] + eventBuffer'[r][n]
                                       = instances[r].shown[n] + eventBuffer[r][n]
  <2> DEFINE sum == [n \in Events(r) |-> instances[r].shown[n] + eventBuffer[r][n]]
  <2>1. r \in Runs /\ eventBuffer[r] \in [Events(r) -> Nat]
        /\ instances[r] \in [running : BOOLEAN, shown : [Events(r) -> Nat]]
    BY <1>0 DEF ReplayTypeOK
  <2>2. sum \in [Events(r) -> Nat]
    BY <2>1
  <2>3. instances'[r] = [instances[r] EXCEPT !.shown = sum]
    BY <1>1
  <2>4. instances'[r] \in [running : BOOLEAN, shown : [Events(r) -> Nat]] /\ instances'[r].shown = sum
    <3> HIDE DEF sum
    <3> QED BY <2>1, <2>2, <2>3
  <2>5. \A n \in Events(r) : eventBuffer'[r][n] = 0
    BY <1>1, <2>1 DEF Nothing, Never
  <2>6. \A n \in Events(r) : sum[n] + 0 = instances[r].shown[n] + eventBuffer[r][n]
    <3> SUFFICES ASSUME NEW n \in Events(r)
                 PROVE  sum[n] + 0 = instances[r].shown[n] + eventBuffer[r][n]
      OBVIOUS
    <3>1. PICK a \in Nat : a = sum[n]
      BY <2>2
    <3>2. a + 0 = a
      OBVIOUS
    <3>3. sum[n] = instances[r].shown[n] + eventBuffer[r][n]
      OBVIOUS
    <3> HIDE DEF sum
    <3> QED BY <3>1, <3>2, <3>3
  <2> QED BY <2>4, <2>5, <2>6
<1>3. DOMAIN instances' = DOMAIN instances
  BY <1>1
<1>4. DOMAIN eventBuffer' = Runs /\ \A r \in Runs : eventBuffer'[r] \in [Events(r) -> Nat]
  BY <1>1 DEF Nothing, Never
<1>5. ReplayTypeOK'
  BY <1>0, <1>1, <1>2, <1>3, <1>4 DEF ReplayTypeOK, ofPage, Events
<1>6. ASSUME ~hasty, NEW r \in DOMAIN instances PROVE \E k \in 0 .. Len(recorded[r]) : UpTo(r, k)'
  <2>1. PICK k \in 0 .. Len(recorded[r]) : UpTo(r, k)
    BY <1>0, <1>6, ShowsUpTo
  <2>2. \A n \in StreamEvents(r) : n \in Events(r)
    BY DEF StreamEvents
  <2>3. \A n \in StreamEvents(r) : instances'[r].shown[n] + eventBuffer'[r][n]
                                     = instances[r].shown[n] + eventBuffer[r][n]
    BY <1>2, <2>2
  <2>4. UpTo(r, k)'
    BY <1>1, <2>1, <2>3 DEF UpTo, StreamEvents, Events
  <2> QED BY <2>4
<1>7. ReplayShowsRecording'
  BY <1>1, <1>3, <1>6 DEF ReplayShowsRecording, UpTo
<1>8. (~hasty => OneAtATime)'
  BY <1>0, <1>1 DEF OneAtATime
<1> QED BY <1>5, <1>7, <1>8 DEF ReplayInv

LEMMA StopKeeps ==
  ASSUME ReplayInv, stopPlayback
  PROVE  ReplayInv'
<1>0. ReplayTypeOK /\ (~hasty => OneAtATime) /\ ReplayShowsRecording
  BY DEF ReplayInv
<1> DEFINE list == Completed(instances, {[run |-> activeRunId]})
<1>1. /\ players' = players \ Aborted /\ instances' = Completed(list, Aborted)
      /\ isPlaying' = FALSE /\ loadedRuns' = loadedRuns \cup {p.run : p \in Aborted}
      /\ UNCHANGED <<visit, mounted, snapshotTimes, activeRunId, controller, fetching, eventBuffer, loads, hasty, failed>>
  BY DEF stopPlayback, Abort
<1>2. /\ DOMAIN list = DOMAIN instances
      /\ \A r \in DOMAIN instances : /\ list[r] \in [running : BOOLEAN, shown : [Events(r) -> Nat]]
                                     /\ list[r].shown = instances[r].shown
  BY <1>0, CompletedInstances
<1>3. DOMAIN instances \subseteq Runs
  BY <1>0 DEF ReplayTypeOK
<1> HIDE DEF list
<1>4. /\ DOMAIN instances' = DOMAIN instances
      /\ \A r \in DOMAIN instances' : /\ instances'[r] \in [running : BOOLEAN, shown : [Events(r) -> Nat]]
                                      /\ instances'[r].shown = instances[r].shown
  BY <1>1, <1>2, <1>3, CompletedType
<1>5. loadedRuns' \subseteq Runs
  BY <1>0, <1>1 DEF ReplayTypeOK, RunPlayer, Aborted
<1>6. ReplayTypeOK'
  BY <1>0, <1>1, <1>4, <1>5 DEF ReplayTypeOK, Events
<1>7. (~hasty => OneAtATime)' /\ ReplayShowsRecording'
  BY <1>0, <1>1, <1>4, FewerKeep
<1> QED BY <1>6, <1>7 DEF ReplayInv

LEMMA LeaveKeeps ==
  ASSUME ReplayInv, Unmount
  PROVE  ReplayInv'
<1>0. ReplayTypeOK /\ (~hasty => OneAtATime) /\ ReplayShowsRecording
  BY DEF ReplayInv
<1> DEFINE list == [r \in DOMAIN instances \ loadedRuns |-> instances[r]]
<1>1. /\ players' = players \ Aborted /\ instances' = Completed(list, Aborted)
      /\ mounted' = FALSE
      /\ isPlaying' = FALSE /\ loadedRuns' = loadedRuns \cup {p.run : p \in Aborted}
      /\ UNCHANGED <<visit, snapshotTimes, activeRunId, controller, fetching, eventBuffer, loads, hasty, failed>>
  BY DEF Unmount, Abort
<1>2. /\ DOMAIN list \subseteq DOMAIN instances /\ DOMAIN list \subseteq Runs
      /\ \A r \in DOMAIN list : /\ list[r] \in [running : BOOLEAN, shown : [Events(r) -> Nat]]
                                /\ list[r].shown = instances[r].shown
  BY <1>0 DEF ReplayTypeOK
<1> HIDE DEF list
<1>3. /\ DOMAIN instances' = DOMAIN list
      /\ \A r \in DOMAIN instances' : /\ instances'[r] \in [running : BOOLEAN, shown : [Events(r) -> Nat]]
                                      /\ instances'[r].shown = instances[r].shown
  BY <1>1, <1>2, CompletedType
<1>4. loadedRuns' \subseteq Runs
  BY <1>0, <1>1 DEF ReplayTypeOK, RunPlayer, Aborted
<1>5. ReplayTypeOK'
  BY <1>0, <1>1, <1>2, <1>3, <1>4 DEF ReplayTypeOK, Events
<1>6. (~hasty => OneAtATime)' /\ ReplayShowsRecording'
  BY <1>0, <1>1, <1>2, <1>3, FewerKeep
<1> QED BY <1>5, <1>6 DEF ReplayInv

LEMMA OtherStepsKeep ==
  ASSUME ReplayInv,
         (\E load \in fetching : FetchFails(load)) \/ Mount \/ UNCHANGED replayVars
  PROVE  ReplayInv'
<1>0. ReplayTypeOK /\ (~hasty => OneAtATime) /\ ReplayShowsRecording
  BY DEF ReplayInv
<1>1. /\ UNCHANGED <<instances, eventBuffer, hasty, players, snapshotTimes, loads>>
      /\ fetching' \subseteq fetching
  BY DEF FetchFails, Mount, replayVars, ofReplay, ofPage
<1>2. ReplayTypeOK'
  <2>1. ASSUME NEW load \in fetching, FetchFails(load) PROVE ReplayTypeOK'
    BY <1>0, <2>1 DEF FetchFails, ReplayTypeOK, ofPage, Events, RunLoad
  <2>2. CASE Mount
    <3>1. /\ visit' = visit + 1 /\ mounted' = TRUE
          /\ activeRunId' = "none" /\ loadedRuns' = {} /\ isPlaying' = FALSE /\ controller' = 0
          /\ UNCHANGED <<instances, snapshotTimes, fetching, players, eventBuffer, loads, hasty, failed>>
      BY <2>2 DEF Mount, ofReplay
    <3>2. visit' \in Nat
      BY <1>0, <3>1 DEF ReplayTypeOK
    <3> QED BY <1>0, <3>1, <3>2 DEF ReplayTypeOK, Events
  <2>3. CASE UNCHANGED replayVars
    BY <1>0, <2>3 DEF replayVars, ofReplay, ofPage, ReplayTypeOK, Events
  <2> QED BY <2>1, <2>2, <2>3
<1>3. (~hasty => OneAtATime)' /\ ReplayShowsRecording'
  BY <1>0, <1>1, FewerKeep
<1> QED BY <1>2, <1>3 DEF ReplayInv

LEMMA ReplayInitially == ReplayInit => ReplayInv
<1> SUFFICES ASSUME ReplayInit PROVE ReplayInv
  OBVIOUS
<1>1. ReplayTypeOK
  <2>1. DOMAIN <<>> = {}
    OBVIOUS
  <2>2. DOMAIN Nothing = Runs /\ \A r \in Runs : Nothing[r] \in [Events(r) -> Nat]
    BY DEF Nothing, Never
  <2>3. DOMAIN instances = {} /\ snapshotTimes = Nothing /\ eventBuffer = Nothing
    BY <2>1 DEF ReplayInit
  <2> QED BY <2>2, <2>3 DEF ReplayInit, ReplayTypeOK
<1>2. OneAtATime
  BY DEF ReplayInit, OneAtATime
<1>3. ReplayShowsRecording
  BY DEF ReplayInit, ReplayShowsRecording
<1> QED BY <1>1, <1>2, <1>3 DEF ReplayInv

LEMMA ReplayStep == ReplayInv /\ [ReplayNext]_replayVars => ReplayInv'
<1> SUFFICES ASSUME ReplayInv, [ReplayNext]_replayVars PROVE ReplayInv'
  OBVIOUS
<1>1. ASSUME NEW r \in Runs, NEW mode \in {"instant", "realtime"}, loadRunData(r, mode) PROVE ReplayInv'
  BY <1>1, LoadKeeps
<1>2. ASSUME NEW load \in fetching, play(load) PROVE ReplayInv'
  BY <1>2, PlayKeeps
<1>3. ASSUME NEW p \in players, PlayerWakes(p) PROVE ReplayInv'
  BY <1>3, WakeKeeps
<1> QED BY <1>1, <1>2, <1>3, FlushKeeps, StopKeeps, LeaveKeeps, OtherStepsKeep DEF ReplayNext

\* An instance shows, or is about to show, a beginning of its recording, each
\* event once and up to its player's position, however runs are viewed, played,
\* stopped and left: for any runs, recordings and visits, unless the user began
\* a load while another was under way (sessions/[id]/+page.svelte:112-123).
THEOREM RecordingAlwaysShown == ReplaySpec => []ReplayShowsRecording
BY ReplayInitially, ReplayStep, PTL DEF ReplaySpec, ReplayInv

-----------------------------------------------------------------------------
(* The choice of snapshots *)

Snapshot == [batchId : Batches, size : Sizes]
SelectionInv == SelectionTypeOK /\ PinnedBatchesSelected

-----------------------------------------------------------------------------
\* The limit keeps a prefix of the list.
LEMMA TrimIsPrefix ==
  ASSUME NEW list \in Seq(Snapshot)
  PROVE  /\ Trim(list) \in Seq(Snapshot)
         /\ Len(Trim(list)) <= Len(list)
         /\ \A i \in DOMAIN Trim(list) : Trim(list)[i] = list[i]
<1> DEFINE kept == {n \in DOMAIN list : Entries(list, n) <= maxEvents}
<1>1. IsFiniteSet(1..Len(list)) /\ Cardinality(1..Len(list)) = Len(list)
  <2>1. Len(list) \in Nat
    OBVIOUS
  <2> QED BY <2>1, FS_Interval
<1>2. kept \subseteq 1..Len(list)
  OBVIOUS
<1>3. Cardinality(kept) \in Nat /\ Cardinality(kept) <= Len(list)
  <2> HIDE DEF kept
  <2>1. IsFiniteSet(kept) /\ Cardinality(kept) <= Cardinality(1..Len(list))
    BY <1>1, <1>2, FS_Subset
  <2> QED BY <1>1, <2>1, FS_CardinalityType
<1>4. Trim(list) = SubSeq(list, 1, Cardinality(kept))
  BY DEF Trim
<1> HIDE DEF kept
<1> QED BY <1>3, <1>4

\* The batches at some indices are kept batches; indices out of bounds add none.
LEMMA BatchesAtIndices ==
  ASSUME NEW list \in Seq(Snapshot), NEW indices \in SUBSET Nat
  PROVE  /\ BatchesAt(list, indices) \subseteq Batches
         /\ indices \subseteq 0 .. Len(list) - 1 =>
              BatchesAt(list, indices) = {list[i + 1].batchId : i \in indices}
<1> DEFINE inside == {j \in indices : j < Len(list)}
<1>1. Len(list) \in Nat /\ \A j \in Nat : j < Len(list) => j + 1 \in 1 .. Len(list)
  OBVIOUS
<1>2. \A n \in 1 .. Len(list) : list[n].batchId \in Batches
  <2>1. \A n \in 1 .. Len(list) : list[n] \in Snapshot
    OBVIOUS
  <2> QED BY <2>1 DEF Snapshot
<1>3. inside \subseteq Nat /\ \A j \in inside : j + 1 \in 1 .. Len(list)
  BY <1>1
<1>4. indices \subseteq 0 .. Len(list) - 1 => inside = indices
  <2>1. \A j \in 0 .. Len(list) - 1 : j < Len(list)
    BY <1>1
  <2> QED BY <2>1
<1>5. BatchesAt(list, indices) = {list[i + 1].batchId : i \in inside}
  BY DEF BatchesAt
<1> HIDE DEF inside
<1>6. \A i \in inside : list[i + 1].batchId \in Batches
  BY <1>2, <1>3
<1> QED BY <1>4, <1>5, <1>6

\* What the effects of the view select from a list of snapshots
\* (DatasourceView.svelte:136-168).
LEMMA InBoundsSelects ==
  ASSUME NEW list \in Seq(Snapshot), NEW indices \in SUBSET Nat,
         NEW pinned \in BOOLEAN, NEW batches,
         ~pinned => indices = {0}
  PROVE  LET selected == InBounds(list, Refound(list, indices, pinned, batches))
             kept == batches \cap BatchesAt(list, 0 .. Len(list) - 1)
         IN /\ selected \subseteq Nat
            /\ list # <<>> =>
                 /\ selected # {}
                 /\ \/ selected \subseteq 0 .. Len(list) - 1
                    \/ pinned /\ kept = {} /\ Alone(selected)
            /\ ~pinned => selected = {0}
            /\ pinned /\ kept # {} => BatchesAt(list, selected) = kept
<1> DEFINE selected == InBounds(list, Refound(list, indices, pinned, batches))
           found == {i \in 0 .. Len(list) - 1 : list[i + 1].batchId \in batches}
           refound == IF pinned /\ found # {} THEN found ELSE indices
           valid == {i \in refound : i < Len(list)}
<1>1. Len(list) \in Nat /\ (list # <<>> => Len(list) > 0)
  OBVIOUS
<1>2. selected = IF list = <<>> \/ (valid = {} /\ Alone(refound)) THEN refound
                 ELSE IF valid = {} THEN {0} ELSE valid
  BY DEF InBounds, Refound
<1>3. found \subseteq 0 .. Len(list) - 1 /\ refound \subseteq Nat
  <2>1. found \subseteq 0 .. Len(list) - 1
    OBVIOUS
  <2>2. 0 .. Len(list) - 1 \subseteq Nat
    BY <1>1
  <2> HIDE DEF found
  <2> QED BY <2>1, <2>2
<1>4. selected \subseteq Nat
  BY <1>2, <1>3
<1>5. ASSUME list # <<>>
      PROVE  /\ selected # {}
             /\ \/ selected \subseteq 0 .. Len(list) - 1
                \/ pinned /\ batches \cap BatchesAt(list, 0 .. Len(list) - 1) = {} /\ Alone(selected)
  <2>1. CASE ~(valid = {} /\ Alone(refound))
    <3>1. selected = {0} \/ (selected = valid /\ valid # {})
      BY <1>2, <1>5, <2>1
    <3>2. {0} \subseteq 0 .. Len(list) - 1
      BY <1>1, <1>5
    <3>3. valid \subseteq 0 .. Len(list) - 1
      BY <1>1, <1>3
    <3> HIDE DEF selected, valid
    <3> QED BY <3>1, <3>2, <3>3
  <2>2. CASE valid = {} /\ Alone(refound)
    <3>1. selected = refound /\ selected # {}
      BY <1>2, <2>2 DEF Alone
    <3>2. found \subseteq 0 .. Len(list) - 1 /\ (pinned /\ found # {} => refound = found)
      BY <1>3
    <3>3. pinned => found = {}
      BY <1>1, <2>2, <3>2
    <3>4. ~pinned => refound = {0}
      OBVIOUS
    <3>5. pinned
      BY <1>1, <1>5, <2>2, <3>4
    <3>6. batches \cap BatchesAt(list, 0 .. Len(list) - 1) = {}
      <4>1. 0 .. Len(list) - 1 \in SUBSET Nat
        BY <1>1
      <4>2. BatchesAt(list, 0 .. Len(list) - 1) = {list[i + 1].batchId : i \in 0 .. Len(list) - 1}
        BY <4>1, BatchesAtIndices
      <4> QED BY <3>3, <3>5, <4>2
    <3> QED BY <2>2, <3>1, <3>5, <3>6
  <2> QED BY <2>1, <2>2
<1>6. ~pinned => selected = {0}
  BY <1>1, <1>2
<1>7. ASSUME pinned, batches \cap BatchesAt(list, 0 .. Len(list) - 1) # {}
      PROVE  BatchesAt(list, selected) = batches \cap BatchesAt(list, 0 .. Len(list) - 1)
  <2>1. BatchesAt(list, 0 .. Len(list) - 1) = {list[i + 1].batchId : i \in 0 .. Len(list) - 1}
    <3>1. 0 .. Len(list) - 1 \in SUBSET Nat
      BY <1>1
    <3> QED BY <3>1, BatchesAtIndices
  <2>2. found # {}
    BY <1>7, <2>1
  <2>3. list # <<>> /\ valid = found
    BY <1>1, <1>3, <1>7, <2>2
  <2>4. selected = found
    BY <1>2, <2>2, <2>3
  <2>5. BatchesAt(list, found) = {list[i + 1].batchId : i \in found}
    <3>1. found \in SUBSET Nat
      BY <1>1
    <3> QED BY <1>3, <3>1, BatchesAtIndices
  <2>6. {list[i + 1].batchId : i \in found}
          = batches \cap {list[i + 1].batchId : i \in 0 .. Len(list) - 1}
    <3> DEFINE At(i) == list[i + 1].batchId
               places == 0 .. Len(list) - 1
    <3>1. found = {i \in places : At(i) \in batches}
      OBVIOUS
    <3> HIDE DEF At, places, found
    <3>2. {At(i) : i \in found} = batches \cap {At(i) : i \in places}
      BY <3>1
    <3> QED BY <3>2 DEF At, places
  <2> HIDE DEF found, selected
  <2> QED BY <2>1, <2>4, <2>5, <2>6
<1> QED BY <1>4, <1>5, <1>6, <1>7

\* So every change that ends in these effects establishes the property.
LEMMA SettleSelects ==
  ASSUME NEW indices \in SUBSET Nat, NEW target \in Nat, NEW dragged,
         snapshots' \in Seq(Snapshot), isPinned' \in BOOLEAN,
         ~isPinned' => indices = {0},
         Settle(indices, target, dragged)
  PROVE  /\ PinnedBatchesSelected' /\ selectedSnapshotIndices' \subseteq Nat
         /\ focusIndex' \in Nat /\ drag' \in {dragged, null}
<1>1. /\ selectedSnapshotIndices' \subseteq Nat
      /\ snapshots' # <<>> =>
           /\ selectedSnapshotIndices' # {}
           /\ \/ selectedSnapshotIndices' \subseteq 0 .. Len(snapshots') - 1
              \/ /\ isPinned' /\ Alone(selectedSnapshotIndices')
                 /\ pinnedBatchIds' \cap BatchesAt(snapshots', 0 .. Len(snapshots') - 1) = {}
      /\ ~isPinned' => selectedSnapshotIndices' = {0}
      /\ isPinned' /\ pinnedBatchIds' \cap BatchesAt(snapshots', 0 .. Len(snapshots') - 1) # {} =>
           BatchesAt(snapshots', selectedSnapshotIndices')
             = pinnedBatchIds' \cap BatchesAt(snapshots', 0 .. Len(snapshots') - 1)
  <2> DEFINE selected == InBounds(snapshots', Refound(snapshots', indices, isPinned', pinnedBatchIds'))
  <2>1. selectedSnapshotIndices' = selected
    BY DEF Settle
  <2>2. /\ selected \subseteq Nat
        /\ snapshots' # <<>> =>
             /\ selected # {}
             /\ \/ selected \subseteq 0 .. Len(snapshots') - 1
                \/ /\ isPinned' /\ Alone(selected)
                   /\ pinnedBatchIds' \cap BatchesAt(snapshots', 0 .. Len(snapshots') - 1) = {}
        /\ ~isPinned' => selected = {0}
        /\ isPinned' /\ pinnedBatchIds' \cap BatchesAt(snapshots', 0 .. Len(snapshots') - 1) # {} =>
             BatchesAt(snapshots', selected)
               = pinnedBatchIds' \cap BatchesAt(snapshots', 0 .. Len(snapshots') - 1)
    BY InBoundsSelects
  <2> HIDE DEF selected
  <2> QED BY <2>1, <2>2
<1>2. PinnedBatchesSelected'
  BY <1>1 DEF PinnedBatchesSelected, LoneEvicted, Present, Indices, BatchesAt, Alone
<1>3. Len(snapshots') \in Nat /\ (TimelineShown' => Len(snapshots') > 1)
  BY DEF TimelineShown
<1>4. focusIndex' \in Nat
  BY <1>3 DEF Settle
<1>5. drag' \in {dragged, null}
  BY DEF Settle
<1> QED BY <1>1, <1>2, <1>4, <1>5

\* A choice by click, key, drag or button keeps the invariant, also with
\* indices that no longer exist.
LEMMA ChooseSelects ==
  ASSUME SelectionInv,
         NEW indices \in SUBSET Nat, NEW last \in Nat, NEW target \in Nat,
         NEW dragged \in [start : Nat, current : Nat] \cup {null},
         Choose(indices, last, target, dragged)
  PROVE  SelectionInv'
<1>1. /\ snapshots' = snapshots /\ snapshots \in Seq(Snapshot)
      /\ isPinned' = (indices # {0})
      /\ pinnedBatchIds' = IF indices = {0} THEN {} ELSE BatchesAt(snapshots, indices)
      /\ Settle(indices, target, dragged)
  BY DEF Choose, Pin, SelectionInv, SelectionTypeOK, Snapshot
<1>2. /\ PinnedBatchesSelected' /\ selectedSnapshotIndices' \subseteq Nat
      /\ focusIndex' \in Nat /\ drag' \in {dragged, null}
  BY <1>1, SettleSelects
<1>3. pinnedBatchIds' \subseteq Batches
  BY <1>1, BatchesAtIndices
<1> QED BY <1>1, <1>2, <1>3 DEF SelectionInv, SelectionTypeOK, Choose, Snapshot

LEMMA SelectSelects ==
  ASSUME SelectionInv, NEW index \in Nat, NEW modifier \in Modifiers,
         NEW dragged \in [start : Nat, current : Nat] \cup {null},
         selectSnapshot(index, modifier, dragged)
  PROVE  SelectionInv'
<1>1. selectedSnapshotIndices \subseteq Nat /\ lastSelectedIndex \in Nat
  BY DEF SelectionInv, SelectionTypeOK
<1>2. CASE modifier = "shift"
  <2>1. Choose(Between(lastSelectedIndex, index), lastSelectedIndex, index, dragged)
    BY <1>2 DEF selectSnapshot
  <2>2. Between(lastSelectedIndex, index) \in SUBSET Nat
    BY <1>1 DEF Between
  <2> QED BY <1>1, <2>1, <2>2, ChooseSelects
<1>3. CASE modifier = "ctrl"
  <2>1. Choose(Toggled(index), index, index, dragged)
    BY <1>3 DEF selectSnapshot
  <2>2. Toggled(index) \in SUBSET Nat
    BY <1>1 DEF Toggled
  <2> QED BY <2>1, <2>2, ChooseSelects
<1>4. CASE modifier = "none"
  <2>1. Choose({index}, index, index, dragged)
    BY <1>4 DEF selectSnapshot
  <2> QED BY <2>1, ChooseSelects
<1> QED BY <1>2, <1>3, <1>4 DEF Modifiers

-----------------------------------------------------------------------------
LEMMA SelectionStarts == SelectionInit => SelectionInv
<1> SUFFICES ASSUME SelectionInit PROVE SelectionInv
  OBVIOUS
<1>1. SelectionTypeOK
  <2>1. snapshots \in Seq([batchId : Batches, size : Sizes])
    BY DEF SelectionInit
  <2>2. selectedSnapshotIndices \subseteq Nat /\ lastSelectedIndex \in Nat /\ focusIndex \in Nat
    BY DEF SelectionInit
  <2> QED BY <2>1, <2>2 DEF SelectionInit, SelectionTypeOK
<1>2. PinnedBatchesSelected
  BY DEF SelectionInit, PinnedBatchesSelected, LoneEvicted
<1> QED BY <1>1, <1>2 DEF SelectionInv

LEMMA SelectionStep == SelectionInv /\ [SelectionNext]_selectionVars => SelectionInv'
<1> SUFFICES ASSUME SelectionInv, [SelectionNext]_selectionVars PROVE SelectionInv'
  OBVIOUS
<1> DEFINE Drags == [start : Nat, current : Nat] \cup {null}
<1>1. /\ snapshots \in Seq(Snapshot) /\ selectedSnapshotIndices \subseteq Nat
      /\ lastSelectedIndex \in Nat /\ focusIndex \in Nat /\ drag \in Drags
      /\ isPinned \in BOOLEAN /\ pinnedBatchIds \subseteq Batches /\ activeTab \in Tabs
      /\ (~isPinned => selectedSnapshotIndices = {0})
  BY DEF SelectionInv, SelectionTypeOK, PinnedBatchesSelected, Snapshot
<1>2. Len(snapshots) \in Nat
  BY <1>1
<1> USE <1>1, <1>2
<1>3. ASSUME NEW b \in Batches, NEW size \in Sizes, SnapshotArrives(b, size) PROVE SelectionInv'
  <2> DEFINE list == <<[batchId |-> b, size |-> size]>> \o snapshots
  <2>1. list \in Seq(Snapshot)
    BY DEF Snapshot
  <2>2. snapshots' \in Seq(Snapshot)
    <3> HIDE DEF list
    <3>1. snapshots' = Trim(list)
      BY <1>3 DEF SnapshotArrives, list
    <3> QED BY <2>1, <3>1, TrimIsPrefix
  <2>3. /\ Settle(selectedSnapshotIndices, focusIndex, drag)
        /\ isPinned' = isPinned /\ pinnedBatchIds' = pinnedBatchIds
    BY <1>3 DEF SnapshotArrives
  <2>4. /\ PinnedBatchesSelected' /\ selectedSnapshotIndices' \subseteq Nat
        /\ focusIndex' \in Nat /\ drag' \in {drag, null}
    BY <2>2, <2>3, SettleSelects
  <2> QED BY <1>3, <2>2, <2>4 DEF SnapshotArrives, SelectionInv, SelectionTypeOK, Snapshot
<1>4. ASSUME NEW tab \in Tabs, setTab(tab) PROVE SelectionInv'
  <2>1. /\ Settle(selectedSnapshotIndices, focusIndex, drag)
        /\ snapshots' = snapshots /\ isPinned' = isPinned
    BY <1>4 DEF setTab
  <2>2. /\ PinnedBatchesSelected' /\ selectedSnapshotIndices' \subseteq Nat
        /\ focusIndex' \in Nat /\ drag' \in {drag, null}
    BY <2>1, SettleSelects
  <2> QED BY <1>4, <2>2 DEF setTab, SelectionInv, SelectionTypeOK, Snapshot
<1>5. ASSUME UNCHANGED <<snapshots, batchIdCounter, chosen, activeTab, focusIndex>>, drag' \in Drags
      PROVE  SelectionInv'
  BY <1>5 DEF SelectionInv, SelectionTypeOK, PinnedBatchesSelected, LoneEvicted, Alone, Present, BatchesAt, Indices, chosen
<1>6. ASSUME NEW i \in Indices, handleMouseDown(i) \/ handleMouseMove(i) PROVE SelectionInv'
  BY <1>5, <1>6 DEF handleMouseDown, handleMouseMove, Indices
<1>7. ASSUME NEW modifier \in Modifiers, handleMouseUp(modifier) PROVE SelectionInv'
  <2>1. drag \in [start : Nat, current : Nat]
    BY <1>7 DEF handleMouseUp
  <2>2. CASE drag.start = drag.current /\ selectSnapshot(drag.start, modifier, null)
    BY <2>1, <2>2, SelectSelects
  <2>3. CASE \E range \in SUBSET Nat, end \in Nat : Choose(range, end, drag.current, null)
    BY <2>1, <2>3, ChooseSelects
  <2> QED BY <1>7, <2>1, <2>2, <2>3 DEF handleMouseUp, Between
<1>8. ASSUME NEW modifier \in Modifiers, NEW key \in {"ArrowLeft", "ArrowRight", "Home", "End"},
             handleContainerKeydown(key, modifier)
      PROVE  SelectionInv'
  <2>1. KeyTarget(key) \in Nat /\ selectSnapshot(KeyTarget(key), modifier, drag)
    BY <1>8 DEF handleContainerKeydown, KeyTarget, TimelineShown
  <2> QED BY <2>1, SelectSelects
<1>9. ASSUME handleMouseLeave PROVE SelectionInv'
  BY <1>5, <1>9 DEF handleMouseLeave
<1>10. ASSUME selectAll PROVE SelectionInv'
  <2>1. /\ Settle(Indices, focusIndex, drag) /\ snapshots' = snapshots /\ isPinned' = TRUE
        /\ pinnedBatchIds' = BatchesAt(snapshots, Indices)
    BY <1>10 DEF selectAll
  <2>2. /\ PinnedBatchesSelected' /\ selectedSnapshotIndices' \subseteq Nat
        /\ focusIndex' \in Nat /\ drag' \in {drag, null}
    <3>1. Indices \in SUBSET Nat
      BY DEF Indices
    <3> QED BY <2>1, <3>1, SettleSelects
  <2>3. pinnedBatchIds' \subseteq Batches
    BY <2>1, BatchesAtIndices DEF Indices
  <2> QED BY <1>10, <2>2, <2>3 DEF selectAll, SelectionInv, SelectionTypeOK, Snapshot
<1>11. ASSUME NEW i \in Nat, Step(i) PROVE SelectionInv'
  BY <1>11, ChooseSelects DEF Step
<1>12. ASSUME goToNewerSnapshot \/ goToOlderSnapshot PROVE SelectionInv'
  BY <1>11, <1>12 DEF goToNewerSnapshot, goToOlderSnapshot
<1>13. ASSUME goToLatest PROVE SelectionInv'
  BY <1>13, ChooseSelects DEF goToLatest
<1>14. CASE UNCHANGED selectionVars
  BY <1>5, <1>14 DEF selectionVars, timeline
<1> QED BY <1>3, <1>4, <1>6, <1>7, <1>8, <1>9, <1>10, <1>12, <1>13, <1>14 DEF SelectionNext

\* What is pinned and kept is selected, nothing else is, and a view that is not
\* pinned follows the latest snapshot; the selection is in bounds unless it is a
\* single snapshot that has been evicted (DatasourceView.svelte:131-168).
THEOREM PinnedStaysSelected == SelectionSpec => []PinnedBatchesSelected
<1>1. SelectionInv => PinnedBatchesSelected
  BY DEF SelectionInv
<1> QED BY <1>1, SelectionStarts, SelectionStep, PTL DEF SelectionSpec

-----------------------------------------------------------------------------
(* What a pinned view shows when a snapshot arrives *)

DataRows == Batches \X Nat

Join(a, b) == a \o b

\* c is a and then b, index by index
Joined(c, a, b, la, lb) ==
  /\ Len(c) = la + lb
  /\ \A k \in 1 .. la : c[k] = a[k]
  /\ \A k \in 1 .. lb : c[la + k] = b[k]
  /\ \A k \in 1 .. la + lb : k \in 1 .. la \/ \E j \in 1 .. lb : k = la + j

LEMMA JoinFacts ==
  ASSUME NEW R, NEW a \in Seq(R), NEW b \in Seq(R), NEW la \in Nat, NEW lb \in Nat, la = Len(a), lb = Len(b)
  PROVE  Join(a, b) \in Seq(R) /\ Joined(Join(a, b), a, b, la, lb)
<1>1. ASSUME NEW k \in 1 .. la + lb, ~(k \in 1 .. la) PROVE \E j \in 1 .. lb : k = la + j
  <2>1. k - la \in 1 .. lb /\ k = la + (k - la)
    BY <1>1
  <2> QED BY <2>1
<1>2. /\ Join(a, b) \in Seq(R) /\ Len(Join(a, b)) = la + lb
      /\ \A k \in 1 .. la : Join(a, b)[k] = a[k]
      /\ \A k \in 1 .. lb : Join(a, b)[la + k] = b[k]
  BY ConcatProperties DEF Join
<1> QED BY <1>1, <1>2 DEF Joined

\* Joining nothing.
LEMMA JoinNothing ==
  ASSUME NEW R, NEW a \in Seq(R) PROVE Join(a, <<>>) = a
BY ConcatEmptySeq DEF Join

\* The order of joining.
LEMMA JoinAgain ==
  ASSUME NEW R, NEW a \in Seq(R), NEW b \in Seq(R), NEW c \in Seq(R)
  PROVE  Join(Join(a, b), c) = Join(a, Join(b, c))
<1>1. (a \o b) \o c = a \o (b \o c)
  BY ConcatAssociative, SMTT(30)
<1> QED BY <1>1, Zenon DEF Join

\* The front of a joined list is left out by SubSeq.
LEMMA JoinLeaves ==
  ASSUME NEW R, NEW a \in Seq(R), NEW b \in Seq(R), NEW la \in Nat, la = Len(a)
  PROVE  b = SubSeq(Join(a, b), la + 1, Len(Join(a, b)))
BY DEF Join

\* the loop over the n oldest snapshots
IsMerged(f, list, indices, n) ==
  f = [k \in 0 .. n |-> IF k = 0 THEN <<>> ELSE Join(f[k - 1], Part(list, indices, k))]

\* The loop runs to any length.
LEMMA MergeRuns ==
  ASSUME NEW list, NEW indices, NEW last \in Nat
  PROVE  \E f : IsMerged(f, list, indices, last)
<1> DEFINE S == {n \in Nat : \E f : IsMerged(f, list, indices, n)}
<1>1. 0 \in S
  <2> DEFINE f == [k \in 0 .. 0 |-> <<>>]
  <2>1. IsMerged(f, list, indices, 0)
    BY DEF IsMerged
  <2> QED BY <2>1
<1>2. ASSUME NEW n \in S PROVE n + 1 \in S
  <2>1. PICK f : IsMerged(f, list, indices, n)
    OBVIOUS
  <2> DEFINE next == Join(f[n], Part(list, indices, n + 1))
             g == [k \in 0 .. n + 1 |-> IF k = n + 1 THEN next ELSE f[k]]
             h == [k \in 0 .. n + 1 |-> IF k = 0 THEN <<>> ELSE Join(g[k - 1], Part(list, indices, k))]
  <2>2. ASSUME NEW k \in 0 .. n + 1 PROVE g[k] = h[k]
    <3>1. CASE k = n + 1
      <4>1. g[k] = next /\ k # 0 /\ k - 1 \in 0 .. n + 1 /\ k - 1 # n + 1 /\ k - 1 = n
        BY <3>1
      <4>2. g[k - 1] = f[n]
        BY <4>1
      <4> QED BY <3>1, <4>1, <4>2
    <3>2. CASE k = 0
      <4>1. f[0] = <<>>
        BY <2>1 DEF IsMerged
      <4> QED BY <3>2, <4>1
    <3>3. CASE k # n + 1 /\ k # 0
      <4>1. k \in 0 .. n /\ k - 1 \in 0 .. n + 1 /\ k - 1 # n + 1
        BY <3>3
      <4>2. g[k] = f[k] /\ g[k - 1] = f[k - 1]
        BY <3>3, <4>1
      <4>3. f[k] = Join(f[k - 1], Part(list, indices, k))
        BY <2>1, <3>3, <4>1 DEF IsMerged
      <4> QED BY <3>3, <4>2, <4>3
    <3> QED BY <3>1, <3>2, <3>3
  <2>3. g = h
    <3>1. g = [k \in 0 .. n + 1 |-> g[k]] /\ h = [k \in 0 .. n + 1 |-> h[k]]
      OBVIOUS
    <3> HIDE DEF g, h
    <3> QED BY <2>2, <3>1
  <2>4. IsMerged(g, list, indices, n + 1)
    <3> HIDE DEF g
    <3> QED BY <2>3 DEF IsMerged
  <2> QED BY <2>4
<1>3. S = Nat
  <2> HIDE DEF S
  <2>1. S \in SUBSET Nat
    BY DEF S
  <2> QED BY <1>1, <1>2, <2>1, SetInduction
<1> QED BY <1>3

\* The rows of a snapshot are rows of its batch.
LEMMA PartRows ==
  ASSUME NEW list \in Seq(Snapshot), NEW last \in Nat, last = Len(list), NEW indices, NEW n \in 1 .. last
  PROVE  /\ Part(list, indices, n) \in Seq(DataRows)
         /\ \A k \in 1 .. Len(Part(list, indices, n)) :
              Part(list, indices, n)[k][1] = list[last - n + 1].batchId
<1> DEFINE s == list[last - n + 1]
<1>1. s \in Snapshot
  <2>1. last - n + 1 \in 1 .. last
    OBVIOUS
  <2> QED BY <2>1
<1>2. s.batchId \in Batches /\ s.size \in Nat
  BY <1>1, SelectionAssumption DEF Snapshot
<1>3. Part(list, indices, n) = IF last - n \in indices THEN Data(s) ELSE <<>>
  BY DEF Part
<1> HIDE DEF s
<1>4. PICK b \in Batches, size \in Nat : b = s.batchId /\ size = s.size
  BY <1>2
<1>5. Data(s) = [k \in 1 .. size |-> <<b, k>>]
  BY <1>4 DEF Data
<1>6. \A k \in 1 .. size : <<b, k>> \in DataRows
  BY <1>4 DEF DataRows
<1>7. Data(s) \in Seq(DataRows) /\ Len(Data(s)) = size /\ \A k \in 1 .. size : Data(s)[k][1] = b
  BY <1>5, <1>6
<1> QED BY <1>3, <1>4, <1>7 DEF s

\* the rows of the n oldest snapshots
OldestRows(rows, list, last, n) ==
  /\ rows \in Seq(DataRows)
  /\ \A k \in 1 .. Len(rows) : \E i \in 1 .. n : rows[k][1] = list[last - i + 1].batchId

\* What the loop leaves: list and each of its beginnings.
MergedBy(f, list, indices, last) ==
  /\ mergedData(list, indices) = f[last] /\ f[0] = <<>>
  /\ \A n \in 1 .. last : f[n] = Join(f[n - 1], Part(list, indices, n))
  /\ \A n \in 0 .. last : OldestRows(f[n], list, last, n)

LEMMA MergedIsLoop ==
  ASSUME NEW list \in Seq(Snapshot), NEW indices, NEW last \in Nat, last = Len(list)
  PROVE  \E f : MergedBy(f, list, indices, last)
<1> DEFINE loop == CHOOSE f : f = [n \in 0 .. Len(list) |->
                     IF n = 0 THEN <<>> ELSE Join(f[n - 1], Part(list, indices, n))]
<1>1. loop = CHOOSE f : IsMerged(f, list, indices, last)
  BY Zenon DEF IsMerged
<1>2. mergedData(list, indices) = loop[last]
  BY Zenon DEF mergedData, Join
<1> HIDE DEF loop
<1>3. IsMerged(loop, list, indices, last)
  <2>1. \E f : IsMerged(f, list, indices, last)
    BY MergeRuns
  <2> QED BY <1>1, <2>1, Zenon
<1>4. loop[0] = <<>> /\ \A n \in 1 .. last : loop[n] = Join(loop[n - 1], Part(list, indices, n))
  <2>1. \A k \in 0 .. last : loop[k] = IF k = 0 THEN <<>> ELSE Join(loop[k - 1], Part(list, indices, k))
    BY <1>3 DEF IsMerged
  <2> QED BY <2>1
<1> DEFINE T == {n \in Nat : n <= last => OldestRows(loop[n], list, last, n)}
<1>5. 0 \in T
  <2>1. loop[0] \in Seq(DataRows) /\ 1 .. Len(loop[0]) = {}
    BY <1>4
  <2> QED BY <2>1 DEF OldestRows
<1>6. ASSUME NEW n \in T PROVE n + 1 \in T
  <2> SUFFICES ASSUME n + 1 <= last PROVE OldestRows(loop[n + 1], list, last, n + 1)
    OBVIOUS
  <2>1. /\ n \in Nat /\ n + 1 \in 1 .. last /\ (n + 1) - 1 = n
        /\ OldestRows(loop[n], list, last, n)
    OBVIOUS
  <2>2. PICK a \in Seq(DataRows), p \in Seq(DataRows), la \in Nat, lp \in Nat :
          a = loop[n] /\ p = Part(list, indices, n + 1) /\ la = Len(a) /\ lp = Len(p)
    BY <2>1, PartRows DEF OldestRows
  <2>3. loop[n + 1] = Join(a, p) /\ Join(a, p) \in Seq(DataRows) /\ Joined(Join(a, p), a, p, la, lp)
    <3>1. loop[n + 1] = Join(a, p)
      BY <1>4, <2>1, <2>2
    <3>2. Join(a, p) \in Seq(DataRows) /\ Joined(Join(a, p), a, p, la, lp)
      BY <2>2, JoinFacts
    <3> QED BY <3>1, <3>2
  <2>4. \A k \in 1 .. lp : p[k][1] = list[last - (n + 1) + 1].batchId
    BY <2>1, <2>2, PartRows
  <2>5. \A k \in 1 .. la : \E i \in 1 .. n : a[k][1] = list[last - i + 1].batchId
    BY <2>1, <2>2 DEF OldestRows
  <2>6. ASSUME NEW k \in 1 .. la + lp
        PROVE  \E i \in 1 .. n + 1 : Join(a, p)[k][1] = list[last - i + 1].batchId
    <3>1. CASE k \in 1 .. la
      <4>1. PICK i \in 1 .. n : a[k][1] = list[last - i + 1].batchId
        BY <2>5, <3>1
      <4>2. i \in 1 .. n + 1
        BY <2>1
      <4> QED BY <2>3, <3>1, <4>1, <4>2 DEF Joined
    <3>2. CASE \E j \in 1 .. lp : k = la + j
      <4>1. PICK j \in 1 .. lp : k = la + j
        BY <3>2
      <4>2. n + 1 \in 1 .. n + 1
        BY <2>1
      <4> QED BY <2>3, <2>4, <4>1, <4>2 DEF Joined
    <3> QED BY <2>3, <3>1, <3>2 DEF Joined
  <2>7. Len(loop[n + 1]) = la + lp
    BY <2>3 DEF Joined
  <2> QED BY <2>3, <2>6, <2>7 DEF OldestRows
<1>7. T = Nat
  <2> HIDE DEF T
  <2>1. T \in SUBSET Nat
    BY DEF T
  <2> QED BY <1>5, <1>6, <2>1, SetInduction
<1>8. \A n \in 0 .. last : OldestRows(loop[n], list, last, n)
  <2>1. \A n \in 0 .. last : n \in Nat /\ n <= last
    OBVIOUS
  <2>2. \A n \in T : n <= last => OldestRows(loop[n], list, last, n)
    OBVIOUS
  <2> HIDE DEF T
  <2> QED BY <1>7, <2>1, <2>2
<1> QED BY <1>2, <1>4, <1>8 DEF MergedBy

\* new is old with one more snapshot at the front, and without some at the end;
\* the new one shows nothing and what is left of the others shows what it did.
LEMMA ArrivalMerges ==
  ASSUME NEW old \in Seq(Snapshot), NEW new \in Seq(Snapshot), NEW N \in Nat, NEW M \in Nat,
         N = Len(old), M = Len(new), 1 <= M, M <= N + 1,
         \A i \in 1 .. M - 1 : new[i + 1] = old[i],
         \A i, j \in 1 .. N : old[i].batchId = old[j].batchId => i = j,
         \A i \in 1 .. N : old[i].batchId # new[1].batchId,
         NEW S, NEW T, 0 \notin T,
         \A i \in 1 .. M - 1 : i \in T <=> i - 1 \in S
  PROVE  WithoutEvicted(mergedData(old, S), mergedData(new, T), {new[i].batchId : i \in 1 .. M})
<1>1. PICK e \in Nat : e = N + 1 - M /\ e + (M - 1) = N /\ M - 1 \in Nat /\ e <= N
  <2>1. N + 1 - M \in Nat /\ (N + 1 - M) + (M - 1) = N /\ M - 1 \in Nat /\ N + 1 - M <= N
    OBVIOUS
  <2> QED BY <2>1
<1>2. PICK f : MergedBy(f, old, S, N)
  BY MergedIsLoop
<1>3. PICK g : MergedBy(g, new, T, M)
  BY MergedIsLoop
<1>4. ASSUME NEW n \in 1 .. M - 1 PROVE Part(new, T, n) = Part(old, S, e + n)
  <2>1. /\ N - (e + n) = M - n - 1 /\ N - (e + n) + 1 = M - n
        /\ M - n \in 1 .. M - 1
    BY <1>1
  <2>2. new[M - n + 1] = old[M - n] /\ (M - n \in T <=> M - n - 1 \in S)
    BY <2>1
  <2>3. Part(new, T, n) = IF M - n \in T THEN Data(new[M - n + 1]) ELSE <<>>
    BY DEF Part
  <2>4. Part(old, S, e + n) = IF M - n - 1 \in S THEN Data(old[M - n]) ELSE <<>>
    BY <2>1 DEF Part
  <2> QED BY <2>2, <2>3, <2>4
<1>5. /\ \A n \in 0 .. N : f[n] \in Seq(DataRows)
      /\ \A n \in 0 .. M : g[n] \in Seq(DataRows)
  BY <1>2, <1>3 DEF MergedBy, OldestRows
<1> DEFINE X == {n \in Nat : n <= M - 1 => f[e + n] = Join(f[e], g[n])}
<1>6. 0 \in X
  <2>1. g[0] = <<>> /\ f[e] \in Seq(DataRows) /\ e + 0 = e
    BY <1>1, <1>3, <1>5 DEF MergedBy, OldestRows
  <2>2. Join(f[e], <<>>) = f[e]
    BY <2>1, JoinNothing
  <2> QED BY <2>1, <2>2
<1>7. ASSUME NEW n \in X PROVE n + 1 \in X
  <2> SUFFICES ASSUME n + 1 <= M - 1 PROVE f[e + (n + 1)] = Join(f[e], g[n + 1])
    OBVIOUS
  <2>1. /\ n \in Nat /\ n + 1 \in 1 .. M - 1 /\ n + 1 \in 1 .. M /\ n \in 0 .. M
        /\ e + (n + 1) \in 1 .. N /\ (e + (n + 1)) - 1 = e + n /\ (n + 1) - 1 = n
        /\ e \in 0 .. N
    BY <1>1
  <2>2. f[e + n] = Join(f[e], g[n])
    BY <2>1
  <2>3. f[e + (n + 1)] = Join(f[e + n], Part(old, S, e + (n + 1)))
    BY <1>2, <2>1 DEF MergedBy, OldestRows
  <2>4. g[n + 1] = Join(g[n], Part(new, T, n + 1))
    BY <1>3, <2>1 DEF MergedBy, OldestRows
  <2>5. PICK a \in Seq(DataRows), b \in Seq(DataRows), p \in Seq(DataRows) :
          a = f[e] /\ b = g[n] /\ p = Part(new, T, n + 1)
    <3>1. Part(new, T, n + 1) \in Seq(DataRows)
      BY <2>1, PartRows
    <3> QED BY <1>5, <2>1, <3>1
  <2>6. Part(old, S, e + (n + 1)) = p
    BY <1>4, <2>1, <2>5
  <2>7. Join(Join(a, b), p) = Join(a, Join(b, p))
    BY JoinAgain
  <2> QED BY <2>2, <2>3, <2>4, <2>5, <2>6, <2>7
<1>8. X = Nat
  <2> HIDE DEF X
  <2>1. X \in SUBSET Nat
    BY DEF X
  <2> QED BY <1>6, <1>7, <2>1, SetInduction
<1>9. f[N] = Join(f[e], g[M - 1])
  <2>1. M - 1 \in X /\ M - 1 <= M - 1
    <3> HIDE DEF X
    <3> QED BY <1>1, <1>8
  <2> QED BY <1>1, <2>1
<1>10. g[M] = g[M - 1]
  <2>1. M \in 1 .. M /\ M - 1 \in 0 .. M
    OBVIOUS
  <2>2. Part(new, T, M) = <<>>
    BY DEF Part
  <2>3. g[M] = Join(g[M - 1], <<>>) /\ g[M - 1] \in Seq(DataRows)
    BY <1>3, <1>5, <2>1, <2>2 DEF MergedBy, OldestRows
  <2> QED BY <2>3, JoinNothing
<1>11. PICK gone \in Seq(DataRows), left \in Seq(DataRows), n \in Nat, m \in Nat :
         gone = f[e] /\ left = g[M - 1] /\ n = Len(gone) /\ m = Len(left)
  <2>1. e \in 0 .. N /\ M - 1 \in 0 .. M
    BY <1>1
  <2>2. PICK gone \in Seq(DataRows), left \in Seq(DataRows) : gone = f[e] /\ left = g[M - 1]
    BY <1>5, <2>1
  <2> QED BY <2>2
<1>12. \A k \in 1 .. n : gone[k][1] \notin {new[i].batchId : i \in 1 .. M}
  <2> SUFFICES ASSUME NEW k \in 1 .. n, NEW i \in 1 .. M, gone[k][1] = new[i].batchId PROVE FALSE
    OBVIOUS
  <2>1. PICK j \in 1 .. e : gone[k][1] = old[N - j + 1].batchId
    <3>1. e \in 0 .. N
      BY <1>1
    <3>2. \A q \in 1 .. Len(f[e]) : \E d \in 1 .. e : f[e][q][1] = old[N - d + 1].batchId
      BY <1>2, <3>1 DEF MergedBy, OldestRows
    <3> QED BY <1>11, <3>2
  <2>2. PICK x \in 1 .. N : x = N - j + 1 /\ x > M - 1
    <3>1. N - j + 1 \in 1 .. N /\ N - j + 1 > M - 1
      BY <1>1
    <3> QED BY <3>1
  <2>3. i # 1
    BY <2>1, <2>2
  <2>4. PICK y \in 1 .. N : y = i - 1 /\ y <= M - 1 /\ new[i] = old[y]
    <3>1. i - 1 \in 1 .. M - 1 /\ (i - 1) + 1 = i /\ i - 1 \in 1 .. N
      BY <1>1, <2>3
    <3> QED BY <3>1
  <2>5. old[x].batchId = old[y].batchId
    BY <2>1, <2>2, <2>4
  <2> QED BY <2>2, <2>4, <2>5
<1>13. \A k \in 1 .. m : left[k][1] \in {new[i].batchId : i \in 1 .. M}
  <2> SUFFICES ASSUME NEW k \in 1 .. m PROVE \E i \in 1 .. M : left[k][1] = new[i].batchId
    OBVIOUS
  <2>1. PICK j \in 1 .. M - 1 : left[k][1] = new[M - j + 1].batchId
    <3>1. M - 1 \in 0 .. M
      OBVIOUS
    <3>2. \A q \in 1 .. Len(g[M - 1]) : \E d \in 1 .. M - 1 : g[M - 1][q][1] = new[M - d + 1].batchId
      BY <1>3, <3>1 DEF MergedBy, OldestRows
    <3> QED BY <1>11, <3>2
  <2>2. M - j + 1 \in 1 .. M
    OBVIOUS
  <2> QED BY <2>1, <2>2
<1>14. PICK rows \in Seq(DataRows) : rows = Join(gone, left)
  BY <1>11, JoinFacts
<1>15. Joined(rows, gone, left, n, m) /\ left = SubSeq(rows, n + 1, Len(rows))
  <2>1. Joined(rows, gone, left, n, m)
    BY <1>11, <1>14, JoinFacts
  <2>2. left = SubSeq(Join(gone, left), n + 1, Len(Join(gone, left)))
    <3>1. n = Len(gone)
      BY <1>11
    <3> QED BY <3>1, JoinLeaves
  <2> QED BY <1>14, <2>1, <2>2, Zenon
<1>16. \A k \in 1 .. n + m : rows[k][1] \in {new[i].batchId : i \in 1 .. M} <=> k > n
  <2> SUFFICES ASSUME NEW k \in 1 .. n + m
               PROVE  rows[k][1] \in {new[i].batchId : i \in 1 .. M} <=> k > n
    OBVIOUS
  <2>1. CASE k \in 1 .. n
    <3>1. ~(k > n)
      BY <2>1
    <3> QED BY <1>12, <1>15, <2>1, <3>1 DEF Joined
  <2>2. CASE \E j \in 1 .. m : k = n + j
    <3>1. PICK j \in 1 .. m : k = n + j
      BY <2>2
    <3>2. k > n
      BY <3>1
    <3> QED BY <1>13, <1>15, <3>1, <3>2 DEF Joined
  <2> QED BY <1>15, <2>1, <2>2 DEF Joined
<1>17. mergedData(old, S) = rows /\ mergedData(new, T) = left
  BY <1>2, <1>3, <1>9, <1>10, <1>11, <1>14 DEF MergedBy, OldestRows
<1>18. Len(rows) = n + m /\ n \in 0 .. Len(rows)
  BY <1>15 DEF Joined
<1> QED BY <1>15, <1>16, <1>17, <1>18 DEF WithoutEvicted

-----------------------------------------------------------------------------
\* Every snapshot has a batch number of its own, which has arrived, and so has
\* whatever is pinned.
ArrivedInv ==
  /\ \A i, j \in 1 .. Len(snapshots) : snapshots[i].batchId = snapshots[j].batchId => i = j
  /\ \A i \in 1 .. Len(snapshots) : snapshots[i].batchId \in batchIdCounter
  /\ pinnedBatchIds \subseteq batchIdCounter

\* Arrival puts one snapshot before the ones there were.
LEMMA ArrivalShifts ==
  ASSUME SelectionTypeOK, NEW b \in Batches, NEW size \in Sizes, SnapshotArrives(b, size),
         NEW N \in Nat, NEW M \in Nat, N = Len(snapshots), M = Len(snapshots')
  PROVE  /\ snapshots \in Seq(Snapshot) /\ snapshots' \in Seq(Snapshot)
         /\ M <= N + 1
         /\ 1 <= M => snapshots'[1].batchId = b
         /\ \A i \in 1 .. M - 1 : snapshots'[i + 1] = snapshots[i]
         /\ b \notin batchIdCounter /\ batchIdCounter' = batchIdCounter \cup {b}
         /\ pinnedBatchIds' = pinnedBatchIds /\ isPinned' = isPinned
<1> DEFINE s == [batchId |-> b, size |-> size]
           list == <<s>> \o snapshots
<1>1. s \in Snapshot /\ snapshots \in Seq(Snapshot) /\ s.batchId = b
  BY DEF Snapshot, SelectionTypeOK
<1>2. snapshots' = Trim(list) /\ b \notin batchIdCounter /\ batchIdCounter' = batchIdCounter \cup {b}
      /\ pinnedBatchIds' = pinnedBatchIds /\ isPinned' = isPinned
  BY DEF SnapshotArrives
<1> HIDE DEF s
<1>3. /\ list \in Seq(Snapshot) /\ Len(list) = N + 1
      /\ list[1] = s /\ \A i \in 1 .. N : list[i + 1] = snapshots[i]
  BY <1>1
<1> HIDE DEF list
<1>4. /\ snapshots' \in Seq(Snapshot) /\ M <= N + 1
      /\ \A i \in 1 .. M : snapshots'[i] = list[i]
  <2>1. /\ Trim(list) \in Seq(Snapshot) /\ Len(Trim(list)) <= Len(list)
        /\ \A i \in DOMAIN Trim(list) : Trim(list)[i] = list[i]
    BY <1>3, TrimIsPrefix
  <2>2. snapshots' \in Seq(Snapshot) /\ \A i \in DOMAIN snapshots' : snapshots'[i] = list[i]
    BY <1>2, <2>1
  <2>3. DOMAIN snapshots' = 1 .. M
    BY <2>2
  <2> QED BY <1>2, <1>3, <2>1, <2>2, <2>3
<1>5. 1 <= M => snapshots'[1].batchId = b
  <2>1. 1 <= M => 1 \in 1 .. M
    OBVIOUS
  <2> QED BY <1>1, <1>3, <1>4, <2>1
<1>6. ASSUME NEW i \in 1 .. M - 1 PROVE snapshots'[i + 1] = snapshots[i]
  <2>1. i + 1 \in 1 .. M /\ i \in 1 .. N
    BY <1>4
  <2> QED BY <1>3, <1>4, <2>1
<1> QED BY <1>1, <1>2, <1>4, <1>5, <1>6

LEMMA ArrivedAfterArrival ==
  ASSUME SelectionTypeOK, ArrivedInv, NEW b \in Batches, NEW size \in Sizes, SnapshotArrives(b, size)
  PROVE  ArrivedInv'
<1>1. PICK N \in Nat, M \in Nat : N = Len(snapshots) /\ M = Len(snapshots')
  <2>1. Len(snapshots) \in Nat /\ Len(snapshots') \in Nat
    <3>1. snapshots \in Seq(Snapshot)
      BY DEF SelectionTypeOK, Snapshot
    <3>2. <<[batchId |-> b, size |-> size]>> \o snapshots \in Seq(Snapshot)
      <4>1. [batchId |-> b, size |-> size] \in Snapshot
        BY DEF Snapshot
      <4> QED BY <3>1, <4>1
    <3>3. snapshots' = Trim(<<[batchId |-> b, size |-> size]>> \o snapshots)
      BY DEF SnapshotArrives
    <3>4. snapshots' \in Seq(Snapshot)
      BY <3>2, <3>3, TrimIsPrefix
    <3> QED BY <3>1, <3>4
  <2> QED BY <2>1
<1>2. /\ M <= N + 1
      /\ 1 <= M => snapshots'[1].batchId = b
      /\ \A i \in 1 .. M - 1 : snapshots'[i + 1] = snapshots[i]
      /\ b \notin batchIdCounter /\ batchIdCounter' = batchIdCounter \cup {b}
      /\ pinnedBatchIds' = pinnedBatchIds
  BY <1>1, ArrivalShifts
<1>3. /\ \A i, j \in 1 .. N : snapshots[i].batchId = snapshots[j].batchId => i = j
      /\ \A i \in 1 .. N : snapshots[i].batchId \in batchIdCounter
      /\ pinnedBatchIds \subseteq batchIdCounter
  BY <1>1 DEF ArrivedInv
<1>4. \A i \in 1 .. M : i = 1 \/ \E k \in 1 .. N : i = k + 1 /\ snapshots'[i] = snapshots[k]
  <2> SUFFICES ASSUME NEW i \in 1 .. M, i # 1
               PROVE  \E k \in 1 .. N : i = k + 1 /\ snapshots'[i] = snapshots[k]
    OBVIOUS
  <2>1. i - 1 \in 1 .. M - 1 /\ i - 1 \in 1 .. N /\ (i - 1) + 1 = i
    BY <1>2
  <2> QED BY <1>2, <2>1
<1>5. \A i \in 1 .. M : i = 1 => snapshots'[i].batchId = b
  BY <1>2
<1>6. \A i \in 1 .. M : snapshots'[i].batchId \in batchIdCounter'
  BY <1>2, <1>3, <1>4, <1>5
<1>7. ASSUME NEW i \in 1 .. M, NEW j \in 1 .. M, snapshots'[i].batchId = snapshots'[j].batchId PROVE i = j
  <2>1. CASE i = 1 \/ j = 1
    BY <1>2, <1>3, <1>4, <1>5, <1>7, <2>1
  <2>2. CASE i # 1 /\ j # 1
    <3>1. PICK k \in 1 .. N, l \in 1 .. N :
            i = k + 1 /\ j = l + 1 /\ snapshots'[i] = snapshots[k] /\ snapshots'[j] = snapshots[l]
      BY <1>4, <2>2
    <3>2. k = l
      BY <1>3, <1>7, <3>1
    <3> QED BY <3>1, <3>2
  <2> QED BY <2>1, <2>2
<1>8. pinnedBatchIds' \subseteq batchIdCounter'
  BY <1>2, <1>3
<1> QED BY <1>1, <1>6, <1>7, <1>8 DEF ArrivedInv

\* Whatever else happens, no snapshot comes or goes and what becomes pinned are
\* batches of snapshots that are there.
LEMMA OthersKeepSnapshots ==
  ASSUME SelectionInv, SelectionNext
  PROVE  \/ \E b \in Batches, size \in Sizes : SnapshotArrives(b, size)
         \/ /\ snapshots' = snapshots /\ batchIdCounter' = batchIdCounter
            /\ pinnedBatchIds' \in {{}, pinnedBatchIds}
               \/ \E indices \in SUBSET Nat : pinnedBatchIds' = BatchesAt(snapshots, indices)
<1> DEFINE Kept == /\ snapshots' = snapshots /\ batchIdCounter' = batchIdCounter
                   /\ pinnedBatchIds' \in {{}, pinnedBatchIds}
                      \/ \E indices \in SUBSET Nat : pinnedBatchIds' = BatchesAt(snapshots, indices)
<1>1. ASSUME NEW indices \in SUBSET Nat, NEW last, NEW target, NEW dragged, Choose(indices, last, target, dragged) PROVE Kept
  BY <1>1 DEF Choose, Pin
<1> HIDE DEF Kept
<1>2. ASSUME NEW index \in Nat, NEW modifier \in Modifiers, NEW dragged, selectSnapshot(index, modifier, dragged)
      PROVE  Kept
  <2>1. /\ Between(lastSelectedIndex, index) \in SUBSET Nat
        /\ Toggled(index) \in SUBSET Nat /\ {index} \in SUBSET Nat
    BY DEF Between, Toggled, SelectionInv, SelectionTypeOK
  <2> QED BY <1>1, <1>2, <2>1 DEF selectSnapshot, Modifiers
<1>3. ASSUME NEW index \in Nat, Step(index) PROVE Kept
  <2>1. {index} \in SUBSET Nat
    OBVIOUS
  <2> QED BY <1>1, <1>3, <2>1 DEF Step
<1>4. ASSUME UNCHANGED <<snapshots, batchIdCounter, chosen>> PROVE Kept
  BY <1>4 DEF chosen, Kept
<1>5. ASSUME NEW tab, setTab(tab) PROVE Kept
  BY <1>5 DEF setTab, Kept
<1>6. ASSUME NEW i, handleMouseDown(i) \/ handleMouseMove(i) PROVE Kept
  <2> QED BY <1>4, <1>6 DEF handleMouseDown, handleMouseMove
<1>7. ASSUME NEW modifier \in Modifiers, handleMouseUp(modifier) PROVE Kept
  <2>1. drag \in [start : Nat, current : Nat]
    BY <1>7 DEF handleMouseUp, SelectionInv, SelectionTypeOK
  <2>2. drag.start \in Nat /\ drag.current \in Nat /\ Between(drag.start, drag.current) \in SUBSET Nat
    BY <2>1 DEF Between
  <2> QED BY <1>1, <1>2, <1>7, <2>2 DEF handleMouseUp
<1>8. ASSUME NEW modifier \in Modifiers, NEW key \in {"ArrowLeft", "ArrowRight", "Home", "End"},
             handleContainerKeydown(key, modifier)
      PROVE  Kept
  <2>1. KeyTarget(key) \in Nat /\ selectSnapshot(KeyTarget(key), modifier, drag)
    BY <1>8 DEF handleContainerKeydown, KeyTarget, TimelineShown, SelectionInv, SelectionTypeOK
  <2> QED BY <1>2, <2>1
<1>9. ASSUME handleMouseLeave PROVE Kept
  BY <1>4, <1>9 DEF handleMouseLeave
<1>10. ASSUME selectAll PROVE Kept
  <2>1. Indices \in SUBSET Nat
    BY DEF Indices
  <2> QED BY <1>10, <2>1 DEF selectAll, Kept
<1>11. ASSUME goToNewerSnapshot \/ goToOlderSnapshot \/ goToLatest PROVE Kept
  <2>1. {0} \in SUBSET Nat /\ selectedSnapshotIndices \in SUBSET Nat
    BY DEF SelectionInv, SelectionTypeOK
  <2>2. \A i \in selectedSnapshotIndices : i + 1 \in Nat /\ (i > 0 => i - 1 \in Nat)
    BY <2>1
  <2> QED BY <1>1, <1>3, <1>11, <2>1, <2>2 DEF goToNewerSnapshot, goToOlderSnapshot, goToLatest
<1>12. Kept \/ \E b \in Batches, size \in Sizes : SnapshotArrives(b, size)
  BY <1>5, <1>6, <1>7, <1>8, <1>9, <1>10, <1>11 DEF SelectionNext
<1> QED BY <1>12 DEF Kept

LEMMA ArrivedStarts == SelectionInit => ArrivedInv
BY DEF SelectionInit, ArrivedInv

LEMMA ArrivedStep == SelectionInv /\ ArrivedInv /\ [SelectionNext]_selectionVars => ArrivedInv'
<1> SUFFICES ASSUME SelectionInv, ArrivedInv, [SelectionNext]_selectionVars PROVE ArrivedInv'
  OBVIOUS
<1>1. CASE \E b \in Batches, size \in Sizes : SnapshotArrives(b, size)
  BY <1>1, ArrivedAfterArrival DEF SelectionInv
<1>2. CASE /\ snapshots' = snapshots /\ batchIdCounter' = batchIdCounter
           /\ pinnedBatchIds' \in {{}, pinnedBatchIds}
              \/ \E indices \in SUBSET Nat : pinnedBatchIds' = BatchesAt(snapshots, indices)
  <2>1. snapshots \in Seq(Snapshot)
    BY DEF SelectionInv, SelectionTypeOK, Snapshot
  <2>2. ASSUME NEW indices \in SUBSET Nat, pinnedBatchIds' = BatchesAt(snapshots, indices)
        PROVE  pinnedBatchIds' \subseteq batchIdCounter
    <3> SUFFICES ASSUME NEW i \in {j \in indices : j < Len(snapshots)}
                 PROVE  snapshots[i + 1].batchId \in batchIdCounter
      BY <2>2 DEF BatchesAt
    <3>1. i + 1 \in 1 .. Len(snapshots)
      <4>1. i \in Nat
        BY <2>2
      <4> QED BY <2>1, <4>1
    <3> QED BY <3>1 DEF ArrivedInv
  <2>3. pinnedBatchIds' \subseteq batchIdCounter
    BY <1>2, <2>2 DEF ArrivedInv
  <2> QED BY <1>2, <2>3 DEF ArrivedInv
<1>3. CASE UNCHANGED selectionVars
  BY <1>3 DEF selectionVars, chosen, ArrivedInv
<1> QED BY <1>1, <1>2, <1>3, OthersKeepSnapshots

\* When the batches at some indices are the chosen ones, the indices are those
\* at which a chosen batch is.
IndicesAre(indices, list, N, batches) ==
  \A i \in 0 .. N - 1 : i \in indices <=> list[i + 1].batchId \in batches
LEMMA IndicesOfBatches ==
  ASSUME NEW list \in Seq(Snapshot), NEW N \in Nat, N = Len(list),
         \A i, j \in 1 .. N : list[i].batchId = list[j].batchId => i = j,
         NEW indices, indices \subseteq 0 .. N - 1, NEW batches,
         BatchesAt(list, indices) = batches \cap BatchesAt(list, 0 .. N - 1)
  PROVE  IndicesAre(indices, list, N, batches)
<1>1. indices \in SUBSET Nat /\ 0 .. N - 1 \in SUBSET Nat
  OBVIOUS
<1>2. /\ BatchesAt(list, indices) = {list[i + 1].batchId : i \in indices}
      /\ BatchesAt(list, 0 .. N - 1) = {list[i + 1].batchId : i \in 0 .. N - 1}
  BY <1>1, BatchesAtIndices
<1>3. ASSUME NEW i \in 0 .. N - 1, list[i + 1].batchId \in batches PROVE i \in indices
  <2>1. list[i + 1].batchId \in BatchesAt(list, indices)
    BY <1>2, <1>3
  <2>2. PICK j \in indices : list[i + 1].batchId = list[j + 1].batchId
    BY <1>2, <2>1
  <2>3. i + 1 \in 1 .. N /\ j + 1 \in 1 .. N /\ i \in Nat /\ j \in Nat
    OBVIOUS
  <2>4. i + 1 = j + 1
    BY <2>2, <2>3
  <2> QED BY <2>3, <2>4
<1>4. ASSUME NEW i \in indices PROVE list[i + 1].batchId \in batches
  BY <1>2
<1> QED BY <1>3, <1>4 DEF IndicesAre

LEMMA ArrivalKeeps ==
  ASSUME SelectionInv, SelectionInv', ArrivedInv, ArrivedInv',
         NEW b \in Batches, NEW size \in Sizes, SnapshotArrives(b, size),
         isPinned, pinnedBatchIds \cap Present' # {}, snapshotEvents # null
  PROVE  WithoutEvicted(snapshotEvents, snapshotEvents', Present')
<1>1. snapshots \in Seq(Snapshot) /\ snapshots' \in Seq(Snapshot)
  BY DEF SelectionInv, SelectionTypeOK, Snapshot
<1>2. PICK N \in Nat, M \in Nat : N = Len(snapshots) /\ M = Len(snapshots')
  BY <1>1
<1>3. /\ M <= N + 1
      /\ 1 <= M => snapshots'[1].batchId = b
      /\ \A i \in 1 .. M - 1 : snapshots'[i + 1] = snapshots[i]
      /\ b \notin batchIdCounter
      /\ pinnedBatchIds' = pinnedBatchIds /\ isPinned' = isPinned
  BY <1>2, ArrivalShifts DEF SelectionInv
<1>4. /\ \A i, j \in 1 .. N : snapshots[i].batchId = snapshots[j].batchId => i = j
      /\ \A i \in 1 .. N : snapshots[i].batchId \in batchIdCounter
      /\ pinnedBatchIds \subseteq batchIdCounter
      /\ \A i, j \in 1 .. M : snapshots'[i].batchId = snapshots'[j].batchId => i = j
  BY <1>2 DEF ArrivedInv
<1>5. /\ Present = {snapshots[i + 1].batchId : i \in 0 .. N - 1}
      /\ Present' = {snapshots'[i + 1].batchId : i \in 0 .. M - 1}
      /\ Present = BatchesAt(snapshots, 0 .. N - 1)
      /\ Present' = BatchesAt(snapshots', 0 .. M - 1)
  <2>1. 0 .. N - 1 \in SUBSET Nat /\ 0 .. M - 1 \in SUBSET Nat
    OBVIOUS
  <2>2. Present = BatchesAt(snapshots, 0 .. N - 1) /\ Present' = BatchesAt(snapshots', 0 .. M - 1)
    BY <1>2 DEF Present, Indices, BatchesAt
  <2>3. BatchesAt(snapshots, 0 .. N - 1) = {snapshots[i + 1].batchId : i \in 0 .. N - 1}
    BY <1>1, <1>2, <2>1, BatchesAtIndices
  <2>4. BatchesAt(snapshots', 0 .. M - 1) = {snapshots'[i + 1].batchId : i \in 0 .. M - 1}
    BY <1>1, <1>2, <2>1, BatchesAtIndices
  <2> QED BY <2>2, <2>3, <2>4
<1>6. PICK i \in 0 .. M - 1 : snapshots'[i + 1].batchId \in pinnedBatchIds
  BY <1>5
<1>7. 1 <= M /\ i # 0 /\ i \in 1 .. M - 1 /\ i \in 1 .. N /\ b \notin pinnedBatchIds
  <2>1. 1 <= M /\ (i # 0 => i \in 1 .. M - 1 /\ i \in 1 .. N)
    BY <1>3
  <2>2. i # 0
    BY <1>3, <1>4, <1>6, <2>1
  <2> QED BY <1>3, <1>4, <2>1, <2>2
<1>8. pinnedBatchIds \cap Present # {}
  <2>1. snapshots[i].batchId \in pinnedBatchIds
    BY <1>3, <1>6, <1>7
  <2>2. i - 1 \in 0 .. N - 1 /\ (i - 1) + 1 = i
    BY <1>7
  <2>3. snapshots[i].batchId \in Present
    BY <1>5, <2>2
  <2> QED BY <2>1, <2>3
<1> DEFINE S == selectedSnapshotIndices
           T == selectedSnapshotIndices'
<1>9. \A k \in 0 .. N - 1 : k \in S <=> snapshots[k + 1].batchId \in pinnedBatchIds
  <2>1. S \subseteq 0 .. N - 1 /\ BatchesAt(snapshots, S) = pinnedBatchIds \cap BatchesAt(snapshots, 0 .. N - 1)
    <3>1. snapshots # <<>>
      BY <1>2, <1>7
    <3> QED BY <1>2, <1>3, <1>5, <1>8, <3>1 DEF SelectionInv, PinnedBatchesSelected, LoneEvicted, Indices
  <2>2. IndicesAre(S, snapshots, N, pinnedBatchIds)
    BY <1>1, <1>2, <1>4, <2>1, IndicesOfBatches
  <2> QED BY <2>2 DEF IndicesAre
<1>10. \A k \in 0 .. M - 1 : k \in T <=> snapshots'[k + 1].batchId \in pinnedBatchIds
  <2>1. T \subseteq 0 .. M - 1 /\ BatchesAt(snapshots', T) = pinnedBatchIds \cap BatchesAt(snapshots', 0 .. M - 1)
    <3>1. snapshots' # <<>>
      BY <1>2, <1>7
    <3>2. PinnedBatchesSelected'
      BY DEF SelectionInv
    <3>3. T \subseteq 0 .. M - 1
      <4>1. T \subseteq Indices' \/ LoneEvicted'
        BY <3>1, <3>2 DEF PinnedBatchesSelected
      <4>2. ~LoneEvicted'
        BY <1>3 DEF LoneEvicted
      <4> QED BY <1>2, <4>1, <4>2 DEF Indices
    <3>4. (BatchesAt(snapshots, selectedSnapshotIndices) = pinnedBatchIds \cap Present)'
      BY <1>3, <3>2 DEF PinnedBatchesSelected
    <3>5. BatchesAt(snapshots', T) = pinnedBatchIds' \cap Present'
      BY <3>4 DEF BatchesAt
    <3> QED BY <1>3, <1>5, <3>3, <3>5
  <2>2. PICK new \in Seq(Snapshot), indices \in {T}, batches \in {pinnedBatchIds} :
          new = snapshots' /\ indices = T /\ batches = pinnedBatchIds
    BY <1>1
  <2> HIDE DEF T
  <2>3. /\ M = Len(new) /\ \A i1, j1 \in 1 .. M : new[i1].batchId = new[j1].batchId => i1 = j1
        /\ indices \subseteq 0 .. M - 1 /\ BatchesAt(new, indices) = batches \cap BatchesAt(new, 0 .. M - 1)
    BY <1>2, <1>4, <2>1, <2>2
  <2>4. IndicesAre(indices, new, M, batches)
    BY <2>3, IndicesOfBatches
  <2> QED BY <2>2, <2>4 DEF IndicesAre
<1>11. 0 \notin T
  <2>1. 0 \in 0 .. M - 1 /\ 0 + 1 = 1
    BY <1>7
  <2> QED BY <1>3, <1>7, <1>10, <2>1
<1>12. \A k \in 1 .. M - 1 : k \in T <=> k - 1 \in S
  <2> SUFFICES ASSUME NEW k \in 1 .. M - 1 PROVE k \in T <=> k - 1 \in S
    OBVIOUS
  <2>1. k \in 0 .. M - 1 /\ k - 1 \in 0 .. N - 1 /\ (k - 1) + 1 = k
    BY <1>3
  <2> QED BY <1>3, <1>9, <1>10, <2>1
<1>13. \A k \in 1 .. N : snapshots[k].batchId # snapshots'[1].batchId
  BY <1>3, <1>4, <1>7
<1>14. Present' = {snapshots'[k].batchId : k \in 1 .. M}
  <2>1. \A k \in 0 .. M - 1 : k + 1 \in 1 .. M
    OBVIOUS
  <2>2. \A k \in 1 .. M : k - 1 \in 0 .. M - 1 /\ (k - 1) + 1 = k
    OBVIOUS
  <2>3. \A k \in 1 .. M : snapshots'[k].batchId \in Present'
    BY <1>5, <2>2
  <2> QED BY <1>5, <2>1, <2>3
<1>15. WithoutEvicted(mergedData(snapshots, S), mergedData(snapshots', T), {snapshots'[k].batchId : k \in 1 .. M})
  <2> HIDE DEF S, T
  <2>1. PICK old \in Seq(Snapshot), new \in Seq(Snapshot) : old = snapshots /\ new = snapshots'
    BY <1>1
  <2>2. /\ \A k \in 1 .. M - 1 : new[k + 1] = old[k]
        /\ \A k \in 1 .. N : old[k].batchId # new[1].batchId
        /\ \A i1, j1 \in 1 .. N : old[i1].batchId = old[j1].batchId => i1 = j1
        /\ N = Len(old) /\ M = Len(new) /\ 1 <= M /\ M <= N + 1
    BY <1>2, <1>3, <1>4, <1>7, <1>13, <2>1
  <2>3. WithoutEvicted(mergedData(old, S), mergedData(new, T), {new[k].batchId : k \in 1 .. M})
    BY <1>11, <1>12, <2>2, ArrivalMerges
  <2> QED BY <2>1, <2>3
<1>16. snapshotEvents = mergedData(snapshots, S)
  BY DEF snapshotEvents
<1>17. snapshotEvents' = mergedData(snapshots', T)
  <2>1. snapshots' # <<>>
    BY <1>2, <1>7
  <2>2. (snapshotEvents = mergedData(snapshots, selectedSnapshotIndices))'
    BY <2>1 DEF snapshotEvents
  <2> QED BY <2>2 DEF mergedData, Part
<1> QED BY <1>14, <1>15, <1>16, <1>17

\* What arrives takes nothing from a pinned view but the rows of evicted
\* batches, and moves none of the others (DatasourceView.svelte:131-198).
THEOREM ArrivalsKeepRows == SelectionSpec => ArrivalKeepsRows
<1> DEFINE Inv == SelectionInv /\ ArrivedInv
           Keeps == (snapshots' # snapshots /\ isPinned /\ pinnedBatchIds \cap Present' # {}
                      /\ snapshotEvents # null) =>
                    WithoutEvicted(snapshotEvents, snapshotEvents', Present')
<1>1. SelectionInit => Inv
  BY SelectionStarts, ArrivedStarts
<1>2. Inv /\ [SelectionNext]_selectionVars => Inv'
  BY SelectionStep, ArrivedStep
<1>3. Inv /\ Inv' /\ [SelectionNext]_selectionVars => [Keeps]_selectionVars
  <2> SUFFICES ASSUME Inv, Inv', SelectionNext, snapshots' # snapshots, isPinned,
                      pinnedBatchIds \cap Present' # {}, snapshotEvents # null
               PROVE  WithoutEvicted(snapshotEvents, snapshotEvents', Present')
    OBVIOUS
  <2>1. PICK b \in Batches, size \in Sizes : SnapshotArrives(b, size)
    BY OthersKeepSnapshots
  <2> QED BY <2>1, ArrivalKeeps
<1> QED BY <1>1, <1>2, <1>3, PTL DEF SelectionSpec, ArrivalKeepsRows

-----------------------------------------------------------------------------
(***************************************************************************)
(* RowSelection implements ItemSelection.  While no row is lost track of,  *)
(* every entry is at a row (Tracked), and different indices are different  *)
(* rows; so what is computed with indices maps to the same on rows.        *)
(***************************************************************************)
selectedRows == {RowAt(i) : i \in selectedIndices}
anchorRow == RowAt(anchorIndex)
focusedRow == RowAt(focusedIndex)
originRow == IF isDragging THEN RowAt(dragStartIndex) ELSE 0

PromisedStep == [Promise!Next]_<<items, <<selectedRows, anchorRow, focusedRow>>, originRow, lost>>

EntriesHere == \A e \in selectionEntries : Moved(e) \in Rows
Here(e) == e.index = -1 \/ Moved(e) \in Rows

LEMMA RowFacts ==
  ASSUME RowTypeOK
  PROVE  /\ Len(items) \in Nat /\ DOMAIN items = 1 .. Len(items)
         /\ \A i \in Rows : i \in Nat /\ RowAt(i) = items[i + 1] /\ RowAt(i) \in Nat \ {0}
         /\ \A i, j \in Rows : RowAt(i) = RowAt(j) => i = j
         /\ Promise!Shown = {RowAt(i) : i \in Rows}
<1>1. Len(items) \in Nat /\ DOMAIN items = 1 .. Len(items)
  BY DEF RowTypeOK
<1>2. \A i \in Rows : i \in Nat /\ i + 1 \in 1 .. Len(items) /\ RowAt(i) = items[i + 1]
  BY <1>1 DEF Rows, RowAt
<1>3. \A n \in 1 .. Len(items) : items[n] \in Nat \ {0}
  BY <1>1 DEF RowTypeOK
<1>4. \A i, j \in Rows : RowAt(i) = RowAt(j) => i = j
  <2>1. \A m, n \in 1 .. Len(items) : items[m] = items[n] => m = n
    BY <1>1 DEF RowTypeOK, IsInjective
  <2> QED BY <1>2, <2>1
<1>5. Promise!Shown = {RowAt(i) : i \in Rows}
  <2>1. \A n \in 1 .. Len(items) : n - 1 \in Rows /\ RowAt(n - 1) = items[n]
    BY <1>1 DEF Rows, RowAt
  <2> QED BY <1>1, <1>2, <2>1 DEF Promise!Shown
<1> QED BY <1>1, <1>2, <1>3, <1>4, <1>5

\* A stretch of rows is a stretch of indices.
LEMMA StretchOfIndices ==
  ASSUME RowTypeOK, NEW i \in Rows, NEW j \in Rows
  PROVE  /\ LowHigh(i, j) \subseteq Rows
         /\ Promise!Stretch(RowAt(i), RowAt(j)) = {RowAt(k) : k \in LowHigh(i, j)}
<1> DEFINE between == {k \in DOMAIN items : \E a, b \in DOMAIN items :
                         {items[a], items[b]} = {RowAt(i), RowAt(j)} /\ a <= k /\ k <= b}
<1>1. Promise!Stretch(RowAt(i), RowAt(j)) = {items[k] : k \in between}
  BY DEF Promise!Stretch
<1>2. \A a, b \in DOMAIN items : {items[a], items[b]} = {RowAt(i), RowAt(j)} <=>
        \/ a = i + 1 /\ b = j + 1
        \/ a = j + 1 /\ b = i + 1
  <2>1. /\ i \in Nat /\ j \in Nat /\ i + 1 \in DOMAIN items /\ j + 1 \in DOMAIN items
        /\ RowAt(i) = items[i + 1] /\ RowAt(j) = items[j + 1]
    BY RowFacts DEF Rows
  <2>2. \A a, b \in DOMAIN items : items[a] = items[b] => a = b
    BY DEF RowTypeOK, IsInjective
  <2> QED BY <2>1, <2>2
<1>3. i \in Nat /\ j \in Nat /\ i < Len(items) /\ j < Len(items) /\ Len(items) \in Nat
      /\ DOMAIN items = 1 .. Len(items)
  BY RowFacts DEF Rows
<1>4. \A k \in Nat : k + 1 \in between <=> k \in LowHigh(i, j)
  <2> SUFFICES ASSUME NEW k \in Nat PROVE k + 1 \in between <=> k \in LowHigh(i, j)
    OBVIOUS
  <2>1. k + 1 \in between <=> \/ i + 1 <= k + 1 /\ k + 1 <= j + 1
                              \/ j + 1 <= k + 1 /\ k + 1 <= i + 1
    <3>1. i + 1 \in DOMAIN items /\ j + 1 \in DOMAIN items
      BY <1>3
    <3>2. ASSUME k + 1 \in between
          PROVE  (i + 1 <= k + 1 /\ k + 1 <= j + 1) \/ (j + 1 <= k + 1 /\ k + 1 <= i + 1)
      <4>1. PICK a \in DOMAIN items, b \in DOMAIN items :
              {items[a], items[b]} = {RowAt(i), RowAt(j)} /\ a <= k + 1 /\ k + 1 <= b
        BY <3>2
      <4>2. (a = i + 1 /\ b = j + 1) \/ (a = j + 1 /\ b = i + 1)
        BY <1>2, <4>1
      <4> QED BY <4>1, <4>2
    <3>3. ASSUME (i + 1 <= k + 1 /\ k + 1 <= j + 1) \/ (j + 1 <= k + 1 /\ k + 1 <= i + 1)
          PROVE  k + 1 \in between
      <4>1. k + 1 \in DOMAIN items
        BY <1>3, <3>3
      <4>2. PICK a \in DOMAIN items, b \in DOMAIN items :
              ((a = i + 1 /\ b = j + 1) \/ (a = j + 1 /\ b = i + 1)) /\ a <= k + 1 /\ k + 1 <= b
        BY <3>1, <3>3
      <4>3. {items[a], items[b]} = {RowAt(i), RowAt(j)}
        BY <1>2, <4>2
      <4> QED BY <4>1, <4>2, <4>3
    <3> QED BY <3>2, <3>3
  <2> HIDE DEF between
  <2> QED BY <1>3, <2>1 DEF LowHigh
<1>5. between \subseteq 1 .. Len(items) /\ LowHigh(i, j) \subseteq Rows
  BY <1>3 DEF LowHigh, Rows
<1>6. {items[k] : k \in between} = {RowAt(k) : k \in LowHigh(i, j)}
  <2>1. \A k \in between : k - 1 \in LowHigh(i, j) /\ RowAt(k - 1) = items[k]
    <3> HIDE DEF between
    <3>1. \A k \in between : k - 1 \in Nat /\ k - 1 + 1 = k
      BY <1>3, <1>5
    <3>2. \A k \in between : k - 1 \in LowHigh(i, j)
      BY <1>4, <3>1
    <3>3. \A k \in between : RowAt(k - 1) = items[k]
      BY <1>5, <3>1, <3>2, RowFacts
    <3> QED BY <3>2, <3>3
  <2>2. \A k \in LowHigh(i, j) : k + 1 \in between /\ RowAt(k) = items[k + 1]
    <3> HIDE DEF between
    <3>1. \A k \in LowHigh(i, j) : k \in Nat
      BY <1>5, RowFacts
    <3> QED BY <1>4, <1>5, <3>1, RowFacts
  <2> HIDE DEF between
  <2> QED BY <2>1, <2>2
<1> HIDE DEF between
<1> QED BY <1>1, <1>5, <1>6

\* What is taken at indices of today is at these rows.
LEMMA TakenIsHere ==
  ASSUME RowTypeOK, UNCHANGED items
  PROVE  /\ Rows' = Rows /\ \A i : RowAt(i)' = RowAt(i)
         /\ \A indices \in SUBSET Rows : SelectRows(indices) =>
              selectionEntries' \subseteq Spot /\ EntriesHere' /\ selectedRows' = {RowAt(i) : i \in indices}
         /\ \A i \in Rows : SetAnchor(i) =>
              selectionAnchor' \in Spot /\ Here(selectionAnchor)' /\ anchorRow' = RowAt(i)
         /\ \A i \in Rows : SetFocus(i) =>
              focus' \in Spot /\ Here(focus)' /\ focusedRow' = RowAt(i)
<1>1. /\ Len(items) \in Nat /\ Rows' = Rows /\ \A i \in Rows : i \in Int /\ i # -1
      /\ \A i : RowAt(i)' = RowAt(i)
  BY RowFacts DEF Rows, RowAt
<1>2. \A i \in Rows : /\ Taken(i) \in Spot /\ Taken(i).index = i
                      /\ i + Len(items') - Taken(i).itemsLength = i
  BY <1>1 DEF Taken, Spot
<1>3. ASSUME NEW indices \in SUBSET Rows, SelectRows(indices)
      PROVE  selectionEntries' \subseteq Spot /\ EntriesHere' /\ selectedRows' = {RowAt(i) : i \in indices}
  <2>1. selectionEntries' = {Taken(i) : i \in indices}
    BY <1>3 DEF SelectRows
  <2>2. \A i \in indices : Taken(i).index + Len(items') - Taken(i).itemsLength = i
    BY <1>2
  <2>3. selectionEntries' \subseteq Spot
    BY <1>2, <2>1
  <2>4. EntriesHere'
    BY <1>1, <2>1, <2>2 DEF EntriesHere, Moved
  <2>5. selectedIndices' = indices
    <3>1. selectedIndices' = {e.index + Len(items') - e.itemsLength : e \in selectionEntries'} \cap Rows
      BY <1>1 DEF selectedIndices, Moved
    <3>2. {e.index + Len(items') - e.itemsLength : e \in selectionEntries'} = indices
      BY <2>1, <2>2
    <3> QED BY <3>1, <3>2
  <2>6. selectedRows' = {RowAt(i)' : i \in selectedIndices'}
    BY DEF selectedRows
  <2> QED BY <1>1, <2>3, <2>4, <2>5, <2>6
<1>4. ASSUME NEW i \in Rows, SetAnchor(i)
      PROVE  selectionAnchor' \in Spot /\ Here(selectionAnchor)' /\ anchorRow' = RowAt(i)
  <2>1. selectionAnchor' = Taken(i)
    BY <1>4 DEF SetAnchor
  <2>2. anchorIndex' = i
    BY <1>1, <1>2, <2>1 DEF anchorIndex, Adjusted, Moved
  <2>3. anchorRow' = RowAt(i)
    BY <1>1, <2>2 DEF anchorRow, RowAt
  <2> QED BY <1>1, <1>2, <2>1, <2>3 DEF Here, Moved
<1>5. ASSUME NEW i \in Rows, SetFocus(i)
      PROVE  focus' \in Spot /\ Here(focus)' /\ focusedRow' = RowAt(i)
  <2>1. focus' = Taken(i)
    BY <1>5 DEF SetFocus
  <2>2. focusedIndex' = i
    BY <1>1, <1>2, <2>1 DEF focusedIndex, Adjusted, Moved
  <2>3. focusedRow' = RowAt(i)
    BY <1>1, <2>2 DEF focusedRow, RowAt
  <2> QED BY <1>1, <1>2, <2>1, <2>3 DEF Here, Moved
<1> QED BY <1>1, <1>3, <1>4, <1>5

\* What is left alone stays where it is.
LEMMA KeptIsHere ==
  ASSUME UNCHANGED items
  PROVE  /\ UNCHANGED selectionEntries => selectedRows' = selectedRows /\ (EntriesHere => EntriesHere')
         /\ UNCHANGED selectionAnchor => anchorRow' = anchorRow
                                         /\ (Here(selectionAnchor) => Here(selectionAnchor)')
         /\ UNCHANGED focus => focusedRow' = focusedRow /\ (Here(focus) => Here(focus)')
         /\ UNCHANGED <<isDragging, dragStartIndex>> => originRow' = originRow
         /\ (dragStartIndex \in Rows)' <=> dragStartIndex' \in Rows
<1> USE DEF Rows, RowAt, Moved
<1>1. UNCHANGED selectionEntries => selectedRows' = selectedRows /\ (EntriesHere => EntriesHere')
  BY DEF selectedRows, selectedIndices, EntriesHere
<1>2. UNCHANGED selectionAnchor => anchorRow' = anchorRow /\ (Here(selectionAnchor) => Here(selectionAnchor)')
  BY DEF anchorRow, anchorIndex, Adjusted, Here
<1>3. UNCHANGED focus => focusedRow' = focusedRow /\ (Here(focus) => Here(focus)')
  BY DEF focusedRow, focusedIndex, Adjusted, Here
<1>4. UNCHANGED <<isDragging, dragStartIndex>> => originRow' = originRow
  BY DEF originRow
<1> QED BY <1>1, <1>2, <1>3, <1>4

\* The anchor and the focus are indices of rows, or there is none.
LEMMA WhereTheyAre ==
  ASSUME RowTypeOK
  PROVE  /\ anchorIndex = -1 \/ anchorIndex \in Rows
         /\ focusedIndex = -1 \/ focusedIndex \in Rows
         /\ anchorRow # 0 <=> anchorIndex >= 0
         /\ focusedRow # 0 <=> focusedIndex >= 0
<1>1. -1 \notin Rows /\ RowAt(-1) = 0
  BY RowFacts DEF Rows, RowAt
<1>2. anchorIndex = -1 \/ anchorIndex \in Rows
  BY DEF anchorIndex, Adjusted
<1>3. focusedIndex = -1 \/ focusedIndex \in Rows
  BY DEF focusedIndex, Adjusted
<1>4. \A i \in Rows : i >= 0 /\ RowAt(i) # 0
  BY RowFacts
<1> QED BY <1>1, <1>2, <1>3, <1>4 DEF anchorRow, focusedRow

DragTypeOK ==
  /\ isDragging \in BOOLEAN /\ dragStartIndex \in Int /\ dragCurrentIndex \in Int
  /\ dragListening \in BOOLEAN /\ dragTimers \in Nat
DragHere == isDragging => dragStartIndex \in Rows

\* Indices of any kind are well-typed.
LEMMA TakenIsTyped ==
  ASSUME RowTypeOK
  PROVE  /\ \A indices \in SUBSET Int : SelectRows(indices) => selectionEntries' \subseteq Spot
         /\ \A i \in Int : SetAnchor(i) => selectionAnchor' \in Spot
         /\ \A i \in Int : SetFocus(i) => focus' \in Spot
         /\ \A i, j \in Int : LowHigh(i, j) \subseteq Int
<1>1. Len(items) \in Nat /\ focus \in Spot
  BY RowFacts DEF RowTypeOK
<1>2. \A i \in Int : Taken(i) \in Spot
  BY <1>1 DEF Taken, Spot
<1>3. \A indices \in SUBSET Int : SelectRows(indices) => selectionEntries' \subseteq Spot
  BY <1>2 DEF SelectRows
<1>4. \A i, j \in Int : LowHigh(i, j) \subseteq Int
  BY DEF LowHigh
<1> QED BY <1>1, <1>2, <1>3, <1>4 DEF SetAnchor, SetFocus

\* Nothing is promised of a step after which rows are lost track of.
LEMMA LostStep ==
  ASSUME RowTypeOK', lost'
  PROVE  RowInv' /\ PromisedStep
BY DEF RowInv, Tracked, PromisedStep, Promise!Next, Promise!LoseTrack

LEMMA InvFromParts ==
  ASSUME RowTypeOK, UNCHANGED listVars, DragTypeOK', lost' \in BOOLEAN,
         selectionEntries' \subseteq Spot, focus' \in Spot, selectionAnchor' \in Spot,
         lost' \/ (EntriesHere' /\ Here(focus)' /\ Here(selectionAnchor)' /\ DragHere')
  PROVE  RowInv'
<1>1. RowTypeOK'
  BY DEF RowTypeOK, DragTypeOK, listVars, IsInjective
<1> QED BY <1>1 DEF RowInv, Tracked, EntriesHere, Here, DragHere

\* A row chosen by itself; this is where tracking begins anew.
LEMMA SingleStep ==
  ASSUME RowInv, UNCHANGED listVars, NEW index \in Rows,
         selectSingle(index), SetFocus(index),
         DragTypeOK', lost' \in {FALSE, lost},
         ~lost' => DragHere' /\ originRow' \in {RowAt(index), originRow}
  PROVE  RowInv' /\ PromisedStep
<1>1. RowTypeOK /\ UNCHANGED items /\ lost \in BOOLEAN
  BY DEF RowInv, listVars, RowTypeOK
<1>2. SelectRows({index}) /\ SetAnchor(index)
  BY DEF selectSingle
<1>3. /\ selectionEntries' \subseteq Spot /\ EntriesHere' /\ selectedRows' = {RowAt(i) : i \in {index}}
      /\ selectionAnchor' \in Spot /\ Here(selectionAnchor)' /\ anchorRow' = RowAt(index)
      /\ focus' \in Spot /\ Here(focus)' /\ focusedRow' = RowAt(index)
  BY <1>1, <1>2, TakenIsHere
<1>4. RowInv'
  BY <1>1, <1>3, InvFromParts
<1>5. ASSUME ~lost' PROVE PromisedStep
  <2>1. RowAt(index) \in Promise!Shown
    BY <1>1, RowFacts
  <2>2. selectedRows' = {RowAt(index)}
    BY <1>3
  <2>3. Promise!Select(RowAt(index))
    BY <1>3, <1>5, <2>2 DEF Promise!Select, selectedRows, anchorRow, focusedRow, originRow
  <2> QED BY <1>1, <2>1, <2>3 DEF PromisedStep, Promise!Next
<1> QED BY <1>4, <1>5, LostStep DEF RowInv

\* A range from the anchor, the focus or some row.
LEMMA ExtendStep ==
  ASSUME RowInv, UNCHANGED listVars, NEW from \in Rows, NEW to \in Rows,
         SelectRows(LowHigh(from, to)), SetFocus(to),
         UNCHANGED selectionAnchor \/ SetAnchor(from),
         anchorIndex >= 0 => from = anchorIndex,
         anchorIndex < 0 /\ focusedIndex >= 0 => from = focusedIndex,
         DragTypeOK', lost' = lost,
         ~lost => DragHere' /\ originRow' \in {originRow, RowAt(from)}
  PROVE  RowInv' /\ PromisedStep
<1>1. RowTypeOK /\ UNCHANGED items /\ lost \in BOOLEAN /\ selectionAnchor \in Spot
  BY DEF RowInv, listVars, RowTypeOK
<1>2. LowHigh(from, to) \subseteq Rows
      /\ Promise!Stretch(RowAt(from), RowAt(to)) = {RowAt(k) : k \in LowHigh(from, to)}
  BY <1>1, StretchOfIndices
<1>3. /\ selectionEntries' \subseteq Spot /\ EntriesHere'
      /\ selectedRows' = Promise!Stretch(RowAt(from), RowAt(to))
      /\ focus' \in Spot /\ Here(focus)' /\ focusedRow' = RowAt(to)
  BY <1>1, <1>2, TakenIsHere
<1>4. /\ selectionAnchor' \in Spot /\ anchorRow' \in {anchorRow, RowAt(from)}
      /\ ~lost => Here(selectionAnchor)'
  <2>1. CASE SetAnchor(from)
    BY <1>1, <2>1, TakenIsHere
  <2>2. CASE UNCHANGED selectionAnchor
    <3>1. ~lost => Here(selectionAnchor)
      BY DEF RowInv, Tracked, Here
    <3> QED BY <1>1, <2>2, <3>1, KeptIsHere
  <2> QED BY <2>1, <2>2
<1>5. RowInv'
  BY <1>1, <1>3, <1>4, InvFromParts
<1>6. ASSUME ~lost PROVE PromisedStep
  <2>1. RowAt(from) \in Promise!Shown /\ RowAt(to) \in Promise!Shown
    BY <1>1, RowFacts
  <2>2. RowAt(from) \in IF anchorRow # 0 THEN {anchorRow} ELSE IF focusedRow # 0 THEN {focusedRow}
                        ELSE Promise!Shown
    <3>1. /\ anchorIndex = -1 \/ anchorIndex \in Rows
          /\ anchorRow # 0 <=> anchorIndex >= 0
          /\ focusedRow # 0 <=> focusedIndex >= 0
      BY <1>1, WhereTheyAre
    <3>2. CASE anchorRow # 0
      BY <3>1, <3>2 DEF anchorRow
    <3>3. CASE anchorRow = 0 /\ focusedRow # 0
      <4>1. anchorIndex = -1 /\ focusedIndex >= 0
        BY <1>1, <3>1, <3>3, RowFacts
      <4> QED BY <3>3, <4>1 DEF focusedRow
    <3>4. CASE anchorRow = 0 /\ focusedRow = 0
      BY <2>1, <3>4
    <3> QED BY <3>2, <3>3, <3>4
  <2>3. Promise!Extend(RowAt(to))
    BY <1>3, <1>4, <1>6, <2>2 DEF Promise!Extend, selectedRows, anchorRow, focusedRow, originRow
  <2> QED BY <1>1, <2>1, <2>3 DEF PromisedStep, Promise!Next
<1> QED BY <1>5, <1>6, LostStep DEF RowInv

\* From where the drag under way started.
LEMMA DragStep ==
  ASSUME RowInv, UNCHANGED listVars, NEW to \in Int, isDragging,
         ~lost => to \in Rows,
         DragSelection(dragStartIndex, to),
         DragTypeOK', UNCHANGED <<isDragging, dragStartIndex, lost>>
  PROVE  RowInv' /\ PromisedStep
<1>1. RowTypeOK /\ UNCHANGED items /\ lost \in BOOLEAN /\ dragStartIndex \in Int
  BY DEF RowInv, listVars, RowTypeOK
<1>2. SelectRows(LowHigh(dragStartIndex, to)) /\ SetAnchor(dragStartIndex) /\ SetFocus(to)
  BY DEF DragSelection
<1>3. selectionEntries' \subseteq Spot /\ selectionAnchor' \in Spot /\ focus' \in Spot
  BY <1>1, <1>2, TakenIsTyped
<1>4. CASE lost
  <2>1. RowInv'
    BY <1>1, <1>3, <1>4, InvFromParts
  <2> QED BY <1>4, <2>1, LostStep DEF RowInv
<1>5. CASE ~lost
  <2>1. dragStartIndex \in Rows /\ to \in Rows
    BY <1>5 DEF RowInv, Tracked
  <2>2. LowHigh(dragStartIndex, to) \subseteq Rows
        /\ Promise!Stretch(RowAt(dragStartIndex), RowAt(to)) = {RowAt(k) : k \in LowHigh(dragStartIndex, to)}
    BY <1>1, <2>1, StretchOfIndices
  <2>3. /\ EntriesHere' /\ selectedRows' = Promise!Stretch(RowAt(dragStartIndex), RowAt(to))
        /\ Here(focus)' /\ focusedRow' = RowAt(to)
        /\ Here(selectionAnchor)' /\ anchorRow' = RowAt(dragStartIndex)
    BY <1>1, <1>2, <2>1, <2>2, TakenIsHere
  <2>4. DragHere' /\ originRow' = originRow
    BY <1>1, <2>1, KeptIsHere DEF DragHere
  <2>5. RowInv'
    BY <1>1, <1>3, <2>3, <2>4, InvFromParts
  <2>6. /\ originRow = RowAt(dragStartIndex) /\ originRow # 0
        /\ RowAt(to) \in Promise!Shown
    BY <1>1, <2>1, RowFacts DEF originRow
  <2>7. Promise!Drag(RowAt(to))
    BY <2>3, <2>4, <2>6 DEF Promise!Drag, selectedRows, anchorRow, focusedRow, originRow
  <2> QED BY <1>1, <2>5, <2>6, <2>7 DEF PromisedStep, Promise!Next
<1> QED BY <1>1, <1>4, <1>5

\* Without a choice only the drag may end.
LEMMA QuietStep ==
  ASSUME RowInv, UNCHANGED <<listVars, chosenVars, lost>>, DragTypeOK',
         isDragging' => isDragging /\ UNCHANGED dragStartIndex
  PROVE  RowInv' /\ PromisedStep
<1>1. RowTypeOK /\ UNCHANGED <<items, lost>> /\ UNCHANGED <<selectionEntries, selectionAnchor, focus>>
  BY DEF RowInv, listVars, chosenVars
<1>2. selectionEntries' \subseteq Spot /\ selectionAnchor' \in Spot /\ focus' \in Spot /\ lost \in BOOLEAN
  BY <1>1 DEF RowTypeOK
<1>3. selectedRows' = selectedRows /\ anchorRow' = anchorRow /\ focusedRow' = focusedRow
  BY <1>1, KeptIsHere
<1>4. ~lost => EntriesHere' /\ Here(selectionAnchor)' /\ Here(focus)' /\ DragHere'
  <2>1. ~lost => EntriesHere /\ Here(selectionAnchor) /\ Here(focus) /\ DragHere
    BY DEF RowInv, Tracked, EntriesHere, Here, DragHere
  <2> QED BY <1>1, <2>1, KeptIsHere DEF DragHere
<1>5. RowInv'
  BY <1>1, <1>2, <1>4, InvFromParts
<1>6. originRow' \in {0, originRow}
  BY <1>1, KeptIsHere DEF originRow, DragTypeOK, RowTypeOK
<1>7. PromisedStep
  <2>1. CASE originRow' = originRow
    BY <1>1, <1>3, <2>1 DEF PromisedStep
  <2>2. CASE originRow' = 0
    <3>1. Promise!Release
      BY <1>1, <1>3, <2>2 DEF Promise!Release, Promise!chosen, selectedRows, anchorRow, focusedRow, originRow
    <3> QED BY <1>1, <3>1 DEF PromisedStep, Promise!Next
  <2> QED BY <1>6, <2>1, <2>2
<1> QED BY <1>5, <1>7

\* One row more or less.
LEMMA ToggleStep ==
  ASSUME RowInv, UNCHANGED listVars, NEW index \in Rows,
         toggleSelection(index), SetFocus(index), UNCHANGED <<dragVars, lost>>
  PROVE  RowInv' /\ PromisedStep
<1> DEFINE existing == {e \in selectionEntries : Moved(e) = index}
<1>1. RowTypeOK /\ UNCHANGED items /\ lost \in BOOLEAN /\ index \in Int
  BY RowFacts DEF RowInv, listVars, RowTypeOK
<1>2. /\ selectionEntries' = IF existing # {} THEN selectionEntries \ existing
                             ELSE selectionEntries \cup {Taken(index)}
      /\ SetAnchor(index)
  BY DEF toggleSelection
<1>3. /\ selectionAnchor' \in Spot /\ Here(selectionAnchor)' /\ anchorRow' = RowAt(index)
      /\ focus' \in Spot /\ Here(focus)' /\ focusedRow' = RowAt(index)
  BY <1>1, <1>2, TakenIsHere
<1>4. Taken(index) \in Spot /\ Moved(Taken(index)) = index /\ Rows' = Rows
      /\ \A e : Moved(e)' = Moved(e)
  BY <1>1, RowFacts DEF Taken, Spot, Moved, Rows
<1>5. selectionEntries' \subseteq Spot
  BY <1>1, <1>2, <1>4 DEF RowTypeOK
<1>6. ~lost => EntriesHere' /\ DragHere'
  BY <1>1, <1>2, <1>4, KeptIsHere DEF RowInv, Tracked, EntriesHere, DragHere, dragVars
<1>7. DragTypeOK' /\ originRow' = originRow
  <2>1. DragTypeOK'
    BY <1>1 DEF RowTypeOK, DragTypeOK, dragVars
  <2>2. originRow' = originRow
    BY <1>1, KeptIsHere DEF dragVars
  <2> QED BY <2>1, <2>2
<1>8. RowInv'
  BY <1>1, <1>3, <1>5, <1>6, <1>7, InvFromParts
<1>9. ASSUME ~lost PROVE PromisedStep
  <2> DEFINE x == RowAt(index)
  <2>1. EntriesHere
    BY <1>9 DEF RowInv, Tracked, EntriesHere
  <2>2. /\ selectedIndices = {Moved(e) : e \in selectionEntries}
        /\ selectedIndices' = {Moved(e) : e \in selectionEntries'}
    <3>1. selectedIndices' = {Moved(e) : e \in selectionEntries'} \cap Rows
      BY <1>4 DEF selectedIndices
    <3>2. \A e \in selectionEntries' : Moved(e) \in Rows
      BY <1>2, <1>4, <2>1 DEF EntriesHere
    <3> QED BY <2>1, <3>1, <3>2 DEF EntriesHere, selectedIndices
  <2>3. selectedIndices' = IF index \in selectedIndices THEN selectedIndices \ {index}
                           ELSE selectedIndices \cup {index}
    <3>1. CASE existing # {}
      <4>1. index \in selectedIndices /\ selectionEntries' = selectionEntries \ existing
        BY <1>2, <2>2, <3>1
      <4>2. {Moved(e) : e \in selectionEntries \ existing} = {Moved(e) : e \in selectionEntries} \ {index}
        OBVIOUS
      <4> QED BY <2>2, <4>1, <4>2
    <3>2. CASE existing = {}
      <4>1. index \notin selectedIndices /\ selectionEntries' = selectionEntries \cup {Taken(index)}
        BY <1>2, <2>2, <3>2
      <4>2. {Moved(e) : e \in selectionEntries \cup {Taken(index)}}
              = {Moved(e) : e \in selectionEntries} \cup {index}
        BY <1>4
      <4> QED BY <2>2, <4>1, <4>2
    <3> QED BY <3>1, <3>2
  <2>4. selectedRows' = IF x \in selectedRows THEN selectedRows \ {x} ELSE selectedRows \cup {x}
    <3>1. selectedIndices \subseteq Rows /\ \A i, j \in Rows : RowAt(i) = RowAt(j) => i = j
      BY <1>1, RowFacts DEF selectedIndices
    <3>2. x \in selectedRows <=> index \in selectedIndices
      BY <3>1 DEF selectedRows
    <3>3. selectedRows' = {RowAt(i) : i \in selectedIndices'}
      BY <1>1 DEF selectedRows, RowAt, Rows
    <3>4. {RowAt(i) : i \in selectedIndices \ {index}} = selectedRows \ {x}
      BY <3>1 DEF selectedRows
    <3>5. {RowAt(i) : i \in selectedIndices \cup {index}} = selectedRows \cup {x}
      BY DEF selectedRows
    <3> QED BY <2>3, <3>2, <3>3, <3>4, <3>5
  <2>5. x \in Promise!Shown
    BY <1>1, RowFacts
  <2>6. Promise!Toggle(x)
    BY <1>3, <1>7, <2>4 DEF Promise!Toggle, selectedRows, anchorRow, focusedRow, originRow
  <2> QED BY <1>1, <2>5, <2>6 DEF PromisedStep, Promise!Next
<1> QED BY <1>8, <1>9, LostStep DEF RowInv

-----------------------------------------------------------------------------
LEMMA ClickStep ==
  ASSUME RowInv, UNCHANGED listVars, NEW index \in Rows, NEW shift \in BOOLEAN, NEW ctrl \in BOOLEAN,
         handleRowClick(index, shift, ctrl),
         DragTypeOK', UNCHANGED <<isDragging, dragStartIndex>>,
         ctrl => UNCHANGED dragVars
  PROVE  RowInv' /\ PromisedStep
<1>1. RowTypeOK /\ lost \in BOOLEAN /\ isDragging \in BOOLEAN /\ UNCHANGED items
  BY DEF RowInv, RowTypeOK, listVars
<1>2. CASE isDragging
  BY <1>2, QuietStep DEF handleRowClick
<1>3. CASE ~isDragging
  <2>1. /\ IF shift THEN selectRange(index)
           ELSE IF ctrl THEN toggleSelection(index) ELSE selectSingle(index)
        /\ SetFocus(index) /\ lost' = (lost /\ (shift \/ ctrl))
    BY <1>3 DEF handleRowClick
  <2>2. DragHere' /\ originRow' = originRow
    BY <1>1, <1>3, KeptIsHere DEF DragHere
  <2>3. CASE shift
    <3> DEFINE from == IF anchorIndex >= 0 THEN anchorIndex ELSE IF focusedIndex >= 0 THEN focusedIndex ELSE 0
    <3>1. from \in Rows
      <4>1. 0 \in Rows
        BY <1>1, RowFacts DEF Rows
      <4> QED BY <1>1, <4>1, WhereTheyAre
    <3>2. SelectRows(LowHigh(from, index)) /\ UNCHANGED selectionAnchor /\ lost' = lost
      BY <1>1, <2>1, <2>3 DEF selectRange
    <3>3. (anchorIndex >= 0 => from = anchorIndex) /\ (anchorIndex < 0 /\ focusedIndex >= 0 => from = focusedIndex)
      <4>1. anchorIndex \in Int
        BY <1>1, WhereTheyAre, RowFacts
      <4> QED BY <4>1
    <3> HIDE DEF from
    <3> QED BY <2>1, <2>2, <3>1, <3>2, <3>3, ExtendStep
  <2>4. CASE ~shift /\ ctrl
    BY <1>1, <2>1, <2>4, ToggleStep
  <2>5. CASE ~shift /\ ~ctrl
    BY <1>1, <2>1, <2>2, <2>5, SingleStep
  <2> QED BY <2>3, <2>4, <2>5
<1> QED BY <1>1, <1>2, <1>3

\* Rows that come in above: every entry moves with its row.
LEMMA ArrivalStep ==
  ASSUME RowInv, NEW n \in Nat \ {0}, Arrival(n)
  PROVE  RowInv' /\ PromisedStep
<1> DEFINE new == [k \in 1 .. n |-> arrivals + n + 1 - k]
           room == IF Len(items) + n < Place THEN Len(items) + n ELSE Place
<1>1. /\ RowTypeOK /\ arrivals \in Nat /\ Len(items) \in Nat /\ items \in Seq(1 .. arrivals)
      /\ Place \in Nat /\ room \in 0 .. Len(items) + n
      /\ arrivals' = arrivals + n /\ items' = SubSeq(new \o items, 1, room)
      /\ lost' = (lost \/ Len(items) + n > Place \/ isDragging)
      /\ UNCHANGED <<chosenVars, dragVars>>
      /\ lost \in BOOLEAN /\ isDragging \in BOOLEAN
  BY RowFacts, RowAssumption DEF RowInv, RowTypeOK, Arrival
<1>2. new \in Seq(1 .. arrivals + n) /\ Len(new) = n
  <2>1. \A k \in 1 .. n : arrivals + n + 1 - k \in 1 .. arrivals + n
    BY <1>1
  <2>2. new \in [1 .. n -> 1 .. arrivals + n]
    BY <2>1
  <2> QED BY <2>2
<1>3. items \in Seq(1 .. arrivals + n)
  <2>1. \A k \in 1 .. Len(items) : items[k] \in 1 .. arrivals
    BY <1>1
  <2>2. 1 .. arrivals \subseteq 1 .. arrivals + n
    BY <1>1
  <2>3. items \in [1 .. Len(items) -> 1 .. arrivals + n]
    BY <1>1, <2>1, <2>2
  <2> QED BY <1>1, <2>3
<1>4. /\ new \o items \in Seq(1 .. arrivals + n) /\ Len(new \o items) = n + Len(items)
      /\ \A k \in 1 .. n + Len(items) : (new \o items)[k] = IF k <= n THEN arrivals + n + 1 - k ELSE items[k - n]
  <2>1. \A k \in 1 .. n : new[k] = arrivals + n + 1 - k
    OBVIOUS
  <2> HIDE DEF new
  <2>2. new \o items \in Seq(1 .. arrivals + n) /\ Len(new \o items) = n + Len(items)
    BY <1>2, <1>3, ConcatProperties
  <2>3. \A k \in 1 .. n + Len(items) : (new \o items)[k] = IF k <= n THEN new[k] ELSE items[k - n]
    BY <1>1, <1>2, <1>3, ConcatProperties, SMTT(30)
  <2> QED BY <1>1, <2>1, <2>2, <2>3
<1>5. /\ items' \in Seq(1 .. arrivals + n) /\ Len(items') = room
      /\ \A k \in 1 .. room : items'[k] = IF k <= n THEN arrivals + n + 1 - k ELSE items[k - n]
  <2> HIDE DEF new, room
  <2>1. \A k \in 1 .. room : items'[k] = (new \o items)[k]
    <3>1. PICK all \in Seq(1 .. arrivals + n), r \in Nat :
            all = new \o items /\ r = room /\ r <= Len(all) /\ items' = SubSeq(all, 1, r)
      <4>1. new \o items \in Seq(1 .. arrivals + n) /\ Len(new \o items) = n + Len(items)
        BY <1>4
      <4>2. room \in Nat /\ room <= n + Len(items)
        BY <1>1
      <4>3. items' = SubSeq(new \o items, 1, room)
        BY <1>1
      <4> QED BY <4>1, <4>2, <4>3
    <3>2. \A k \in 1 .. r : SubSeq(all, 1, r)[k] = all[k]
      BY <3>1
    <3> QED BY <3>1, <3>2
  <2>2. items' \in Seq(1 .. arrivals + n) /\ Len(items') = room
    BY <1>1, <1>4, SMTT(30)
  <2>3. \A k \in 1 .. room : k \in 1 .. n + Len(items)
    BY <1>1
  <2>4. \A k \in 1 .. room : items'[k] = IF k <= n THEN arrivals + n + 1 - k ELSE items[k - n]
    BY <1>4, <2>1, <2>3
  <2> QED BY <2>2, <2>4
<1> HIDE DEF new, room
<1>n. /\ n \in Nat /\ n >= 1 /\ arrivals \in Nat /\ Len(items) \in Nat /\ Place \in Nat
      /\ room \in Nat /\ room <= Len(items) + n
  BY <1>1
<1>6. IsInjective(items')
  <2>1. \A k \in 1 .. Len(items) : items[k] \in 1 .. arrivals
    BY <1>1
  <2>2. \A j, k \in 1 .. Len(items) : items[j] = items[k] => j = k
    BY <1>1, RowFacts DEF RowTypeOK, IsInjective
  <2>3. \A j, k \in 1 .. room : items'[j] = items'[k] => j = k
    <3> SUFFICES ASSUME NEW j \in 1 .. room, NEW k \in 1 .. room, items'[j] = items'[k] PROVE j = k
      OBVIOUS
    <3>1. /\ j \in Nat /\ k \in Nat
          /\ j <= n => items'[j] = arrivals + n + 1 - j
          /\ k <= n => items'[k] = arrivals + n + 1 - k
          /\ ~(j <= n) => items'[j] = items[j - n]
          /\ ~(k <= n) => items'[k] = items[k - n]
      BY <1>5, <1>n, SMTT(30)
    <3>2. j \in 1 .. n \/ j - n \in 1 .. Len(items)
      BY <1>n
    <3>3. k \in 1 .. n \/ k - n \in 1 .. Len(items)
      BY <1>n
    <3>4. CASE j <= n /\ k <= n
      BY <1>n, <3>1, <3>4
    <3>5. CASE j <= n /\ ~(k <= n)
      <4>1. items'[k] \in 1 .. arrivals /\ items'[j] = arrivals + n + 1 - j
        BY <1>n, <2>1, <3>1, <3>3, <3>5
      <4> QED BY <1>n, <3>5, <4>1
    <3>6. CASE ~(j <= n) /\ k <= n
      <4>1. items'[j] \in 1 .. arrivals /\ items'[k] = arrivals + n + 1 - k
        BY <1>n, <2>1, <3>1, <3>2, <3>6
      <4> QED BY <1>n, <3>6, <4>1
    <3>7. CASE ~(j <= n) /\ ~(k <= n)
      <4>1. j - n = k - n
        BY <1>n, <2>2, <3>1, <3>2, <3>3, <3>7
      <4> QED BY <1>n, <4>1
    <3> QED BY <3>4, <3>5, <3>6, <3>7
  <2>4. DOMAIN items' = 1 .. room
    BY <1>5
  <2> QED BY <2>3, <2>4 DEF IsInjective
<1>7. RowTypeOK'
  <2>1. arrivals' \in Nat /\ items' \in Seq(1 .. arrivals')
    <3>1. arrivals' = arrivals + n
      BY <1>1
    <3> QED BY <1>n, <1>5, <3>1
  <2>2. lost' \in BOOLEAN
    BY <1>1
  <2> QED BY <1>1, <1>6, <2>1, <2>2 DEF RowTypeOK, chosenVars, dragVars, IsInjective
<1>8. CASE ~lost'
  <2> DEFINE RowThen(i) == IF i \in Rows' THEN items'[i + 1] ELSE 0
  <2>1. ~lost /\ ~isDragging /\ room = Len(items) + n
    <3>1. ~lost /\ ~isDragging /\ ~(Len(items) + n > Place)
      BY <1>1, <1>8
    <3>2. room = Len(items) + n
      BY <1>n, <3>1 DEF room
    <3> QED BY <3>1, <3>2
  <2>2. EntriesHere /\ Here(focus) /\ Here(selectionAnchor)
    BY <2>1 DEF RowInv, Tracked, EntriesHere, Here
  <2>3. \A e \in Spot : Moved(e) \in Int /\ Moved(e)' = Moved(e) + n
    BY <1>1, <1>5, <2>1 DEF Moved, Spot
  <2>4. \A i \in Rows : i + n \in Rows' /\ RowThen(i + n) = RowAt(i)
    <3> SUFFICES ASSUME NEW i \in Rows PROVE i + n \in Rows' /\ RowThen(i + n) = RowAt(i)
      OBVIOUS
    <3>1. i \in 0 .. Len(items) - 1 /\ i + n + 1 \in 1 .. room /\ ~(i + n + 1 <= n) /\ i + n + 1 - n = i + 1
      BY <1>1, <2>1 DEF Rows
    <3>2. i + n \in Rows'
      BY <1>1, <1>5, <2>1, <3>1 DEF Rows
    <3>3. items'[i + n + 1] = items[i + 1]
      BY <1>5, <3>1
    <3> QED BY <3>1, <3>2, <3>3 DEF RowAt
  <2>5. /\ UNCHANGED <<selectionEntries, focus, selectionAnchor, isDragging>>
        /\ selectionEntries \subseteq Spot /\ focus \in Spot /\ selectionAnchor \in Spot
    BY <1>1 DEF chosenVars, dragVars, RowTypeOK
  <2>6. \A e \in Spot : Here(e) => /\ e.index = -1 \/ Moved(e)' \in Rows'
                                   /\ RowThen(Adjusted(e)') = RowAt(Adjusted(e))
    <3> SUFFICES ASSUME NEW e \in Spot, Here(e)
                 PROVE  /\ e.index = -1 \/ Moved(e)' \in Rows'
                        /\ RowThen(Adjusted(e)') = RowAt(Adjusted(e))
      OBVIOUS
    <3>1. CASE e.index = -1
      <4>1. -1 \notin Rows /\ -1 \notin Rows'
        BY <1>1, <1>5 DEF Rows
      <4> QED BY <3>1, <4>1 DEF Adjusted, RowAt
    <3>2. CASE e.index # -1
      <4>1. Moved(e) \in Rows /\ Moved(e)' = Moved(e) + n /\ Moved(e)' \in Rows'
        BY <2>3, <2>4, <3>2 DEF Here
      <4>2. Adjusted(e) = Moved(e) /\ Adjusted(e)' = Moved(e) + n
        BY <3>2, <4>1 DEF Adjusted
      <4> HIDE DEF RowThen
      <4> QED BY <2>4, <4>1, <4>2
    <3> QED BY <3>1, <3>2
  <2>7. \A e \in selectionEntries : Moved(e)' \in Rows' /\ RowThen(Moved(e)') = RowAt(Moved(e))
    <3> HIDE DEF RowThen
    <3> QED BY <2>2, <2>3, <2>4, <2>5 DEF EntriesHere
  <2>8. RowInv'
    <3>1. Here(focus)' /\ Here(selectionAnchor)'
      BY <2>2, <2>5, <2>6 DEF Here, Moved
    <3>2. EntriesHere' /\ DragHere'
      BY <2>1, <2>5, <2>7 DEF EntriesHere, DragHere
    <3> QED BY <1>7, <1>8, <3>1, <3>2 DEF RowInv, Tracked, EntriesHere, Here, DragHere
  <2>9. selectedRows' = selectedRows
    <3>1. selectedRows = {RowAt(Moved(e)) : e \in selectionEntries}
      BY <2>2 DEF selectedRows, selectedIndices, EntriesHere
    <3>2. selectedRows' = {RowThen(Moved(e)') : e \in selectionEntries}
      BY <2>5, <2>7 DEF selectedRows, selectedIndices, RowAt
    <3> HIDE DEF RowThen
    <3> QED BY <2>7, <3>1, <3>2
  <2>10. anchorRow' = anchorRow /\ focusedRow' = focusedRow
    <3>1. RowAt(anchorIndex)' = RowThen(Adjusted(selectionAnchor)')
      BY DEF RowAt, anchorIndex
    <3>2. RowAt(focusedIndex)' = RowThen(Adjusted(focus)')
      BY DEF RowAt, focusedIndex
    <3>3. Adjusted(selectionAnchor)' = (LET e == selectionAnchor IN
            IF e.index = -1 \/ e.index + Len(items') - e.itemsLength \notin Rows' THEN -1
            ELSE e.index + Len(items') - e.itemsLength)
      BY <2>5 DEF Adjusted, Moved
    <3>4. Adjusted(focus)' = (LET e == focus IN
            IF e.index = -1 \/ e.index + Len(items') - e.itemsLength \notin Rows' THEN -1
            ELSE e.index + Len(items') - e.itemsLength)
      BY <2>5 DEF Adjusted, Moved
    <3>5. \A e \in Spot : Here(e) => RowThen(IF e.index = -1 \/ e.index + Len(items') - e.itemsLength \notin Rows'
            THEN -1 ELSE e.index + Len(items') - e.itemsLength) = RowAt(Adjusted(e))
      <4> HIDE DEF RowThen
      <4> QED BY <2>6 DEF Adjusted, Moved
    <3> HIDE DEF RowThen
    <3> QED BY <2>2, <2>5, <3>1, <3>2, <3>3, <3>4, <3>5 DEF anchorRow, focusedRow, anchorIndex, focusedIndex
  <2>11. originRow = 0 /\ originRow' = 0
    BY <2>1, <2>5 DEF originRow
  <2>12. SubSeq(items', n + 1, Len(items')) = items /\ n \in 1 .. Len(items')
    <3>1. n \in 1 .. Len(items') /\ Len(items') = Len(items) + n
      BY <1>1, <1>5, <2>1
    <3>2. \A k \in 1 .. Len(items) : items'[n + k] = items[k]
      <4>1. \A k \in 1 .. Len(items) : n + k \in 1 .. room /\ ~(n + k <= n) /\ n + k - n = k
        BY <1>1, <2>1
      <4> QED BY <1>5, <4>1
    <3> DEFINE end == SubSeq(items', n + 1, Len(items'))
    <3>3. /\ end \in Seq(1 .. arrivals + n) /\ Len(end) = Len(items)
          /\ \A k \in 1 .. Len(items) : end[k] = items'[n + k]
      <4> DEFINE list == items'
      <4>1. list \in Seq(1 .. arrivals + n) /\ Len(list) = Len(items) + n
        BY <1>5, <3>1
      <4> HIDE DEF list
      <4>2. \A k \in n + 1 .. Len(list) : list[k] \in 1 .. arrivals + n
        BY <1>1, <4>1
      <4>3. SubSeq(list, n + 1, Len(list)) = [k \in 1 .. Len(items) |-> list[n + k]]
        BY <1>1, <4>1
      <4>4. [k \in 1 .. Len(items) |-> list[n + k]] \in [1 .. Len(items) -> 1 .. arrivals + n]
        BY <1>n, <4>1, <4>2
      <4>5. end = [k \in 1 .. Len(items) |-> list[n + k]]
        BY <4>3 DEF list
      <4>6. end \in [1 .. Len(items) -> 1 .. arrivals + n] /\ \A k \in 1 .. Len(items) : end[k] = list[n + k]
        BY <4>4, <4>5
      <4> HIDE DEF end
      <4> QED BY <1>n, <4>6 DEF list
    <3> HIDE DEF end
    <3>5. end = items
      BY <1>1, <1>3, <3>2, <3>3, SeqEqual
    <3> QED BY <3>1, <3>5 DEF end
  <2>13. Promise!Prepend
    BY <1>1, <1>8, <2>1, <2>9, <2>10, <2>11, <2>12
    DEF Promise!Prepend, Promise!chosen, selectedRows, anchorRow, focusedRow, originRow
  <2> QED BY <2>8, <2>13 DEF PromisedStep, Promise!Next
<1> QED BY <1>7, <1>8, LostStep DEF RowTypeOK

LEMMA ReplacementStep == ASSUME RowInv, Replacement PROVE RowInv' /\ PromisedStep
<1>0. PICK n \in 0 .. Len(items) : \E at \in Injection(1 .. n, DOMAIN items) :
        items' = [k \in 1 .. n |-> items[at[k]]]
  BY DEF Replacement
<1>1. PICK at \in Injection(1 .. n, DOMAIN items) : items' = [k \in 1 .. n |-> items[at[k]]]
  BY <1>0
<1>2. RowTypeOK /\ lost' /\ UNCHANGED <<arrivals, chosenVars, dragVars>>
  BY DEF RowInv, Replacement
<1>3. /\ Len(items) \in Nat /\ DOMAIN items = 1 .. Len(items) /\ n \in Nat
      /\ \A k \in 1 .. Len(items) : items[k] \in 1 .. arrivals
      /\ \A j, k \in 1 .. Len(items) : items[j] = items[k] => j = k
  <2>1. Len(items) \in Nat /\ DOMAIN items = 1 .. Len(items) /\ n \in Nat
    BY <1>2, RowFacts
  <2>2. \A j, k \in 1 .. Len(items) : items[j] = items[k] => j = k
    BY <1>2, <2>1 DEF RowTypeOK, IsInjective
  <2> QED BY <1>2, <2>1, <2>2 DEF RowTypeOK
<1>4. at \in [1 .. n -> DOMAIN items] /\ \A j, k \in 1 .. n : at[j] = at[k] => j = k
  BY DEF Injection, IsInjective
<1>5. items' \in [1 .. n -> 1 .. arrivals]
  BY <1>1, <1>3, <1>4
<1>6. items' \in Seq(1 .. arrivals) /\ \A j, k \in DOMAIN items' : items'[j] = items'[k] => j = k
  BY <1>1, <1>3, <1>4, <1>5
<1>7. RowTypeOK'
  BY <1>2, <1>6 DEF RowTypeOK, chosenVars, dragVars, IsInjective
<1> QED BY <1>2, <1>7, LostStep

LEMMA DragStartStep ==
  ASSUME RowInv, NEW index \in Rows, NEW shift \in BOOLEAN, handleDragStart(index, shift)
  PROVE  RowInv' /\ PromisedStep
<1> DEFINE from == IF shift /\ anchorIndex >= 0 THEN anchorIndex ELSE index
<1>1. /\ RowTypeOK /\ lost \in BOOLEAN /\ UNCHANGED listVars /\ UNCHANGED items
      /\ isDragging' = TRUE /\ dragStartIndex' = from /\ lost' = (lost /\ shift)
      /\ SelectRows(LowHigh(from, index)) /\ SetAnchor(from) /\ SetFocus(index)
  BY DEF RowInv, RowTypeOK, handleDragStart, Choice, listVars, DragSelection
<1>2. from \in Rows /\ from \in Nat /\ index \in Nat
  BY <1>1, WhereTheyAre, RowFacts
<1>3. DragTypeOK' /\ DragHere' /\ originRow' = RowAt(from)
  <2> HIDE DEF from
  <2>1. DragTypeOK'
    BY <1>1, <1>2 DEF DragTypeOK, RowTypeOK, handleDragStart
  <2>2. DragHere' /\ originRow' = RowAt(from)
    BY <1>1, <1>2, TakenIsHere DEF DragHere, originRow, RowAt, Rows
  <2> QED BY <2>1, <2>2
<1>4. CASE shift /\ anchorIndex >= 0
  <2>1. from = anchorIndex /\ lost' = lost /\ ~(anchorIndex < 0)
    BY <1>1, <1>2, <1>4
  <2> HIDE DEF from
  <2> QED BY <1>1, <1>2, <1>3, <2>1, ExtendStep
<1>5. CASE ~(shift /\ anchorIndex >= 0)
  <2>1. from = index /\ lost' \in {FALSE, lost}
    BY <1>1, <1>5
  <2>2. LowHigh(index, index) = {index}
    BY <1>2 DEF LowHigh
  <2>3. selectSingle(index)
    BY <1>1, <2>1, <2>2 DEF selectSingle
  <2> HIDE DEF from
  <2> QED BY <1>1, <1>3, <2>1, <2>3, SingleStep
<1> QED BY <1>4, <1>5

LEMMA KeydownStep ==
  ASSUME RowInv, NEW shift \in BOOLEAN, handleKeydown(shift)
  PROVE  RowInv' /\ PromisedStep
<1>1. /\ RowTypeOK /\ lost \in BOOLEAN /\ isDragging \in BOOLEAN
      /\ UNCHANGED listVars /\ UNCHANGED items /\ UNCHANGED dragVars /\ items # <<>>
  BY DEF RowInv, RowTypeOK, handleKeydown, Choice, listVars
<1>2. PICK new \in Targets \ {focusedIndex} :
        /\ IF shift THEN extendSelection(new)
           ELSE selectSingle(new) /\ lost' = (lost /\ isDragging)
        /\ SetFocus(new)
  BY DEF handleKeydown
<1>3. /\ Len(items) \in Nat /\ Len(items) > 0 /\ Rows = 0 .. Len(items) - 1
      /\ focusedIndex = -1 \/ focusedIndex \in Rows
      /\ anchorIndex = -1 \/ anchorIndex \in Rows
  <2>1. Len(items) \in Nat /\ Len(items) > 0
    BY <1>1, RowFacts DEF RowTypeOK
  <2> QED BY <1>1, <2>1, WhereTheyAre DEF Rows
<1>4. new \in Rows /\ new \in Nat
  <2>1. \A n \in Nat : Up(n) \in Rows /\ Down(n) \in Rows
    BY <1>3 DEF Up, Down, Bottom
  <2>2. 0 \in Rows /\ Bottom \in Rows
    BY <1>3 DEF Bottom
  <2>3. Targets \subseteq Rows
    BY <2>1, <2>2, RowAssumption DEF Targets
  <2> QED BY <1>1, <2>3, RowFacts
<1>5. DragTypeOK' /\ originRow' = originRow /\ (~lost => DragHere')
  <2>1. DragTypeOK'
    BY <1>1 DEF RowTypeOK, DragTypeOK, dragVars
  <2>2. originRow' = originRow
    BY <1>1, KeptIsHere DEF dragVars
  <2>3. ~lost => DragHere'
    BY <1>1, KeptIsHere, TakenIsHere DEF RowInv, Tracked, DragHere, dragVars
  <2> QED BY <2>1, <2>2, <2>3
<1>6. CASE ~shift
  <2>1. selectSingle(new) /\ lost' = (lost /\ isDragging)
    BY <1>2, <1>6
  <2>2. ~lost' => DragHere'
    BY <1>1, <1>5, <2>1 DEF DragHere, dragVars
  <2>3. lost' \in {FALSE, lost}
    BY <1>1, <2>1
  <2> QED BY <1>1, <1>2, <1>4, <1>5, <2>1, <2>2, <2>3, SingleStep
<1>7. CASE shift
  <2> DEFINE from == IF anchorIndex >= 0 THEN anchorIndex ELSE focusedIndex
  <2>1. /\ SelectRows(LowHigh(from, new))
        /\ IF anchorIndex = -1 /\ focusedIndex >= 0 THEN SetAnchor(focusedIndex) ELSE UNCHANGED selectionAnchor
        /\ lost' = (lost \/ from = -1)
    BY <1>2, <1>7 DEF extendSelection
  <2>2. from = -1 \/ from \in Rows
    BY <1>3
  <2>3. CASE from = -1
    <3>1. selectionEntries' \subseteq Spot /\ focus' \in Spot /\ selectionAnchor' \in Spot
      <4>1. LowHigh(from, new) \in SUBSET Int
        BY <1>1, <1>4, <2>3, TakenIsTyped
      <4>2. ~(anchorIndex = -1 /\ focusedIndex >= 0)
        BY <2>3
      <4>3. UNCHANGED selectionAnchor /\ selectionAnchor \in Spot
        BY <1>1, <2>1, <4>2 DEF RowTypeOK
      <4> QED BY <1>1, <1>2, <1>4, <2>1, <4>1, <4>3, TakenIsTyped
    <3>2. lost'
      BY <2>1, <2>3
    <3>3. RowInv'
      BY <1>1, <1>5, <3>1, <3>2, InvFromParts
    <3> QED BY <3>2, <3>3, LostStep DEF RowInv
  <2>4. CASE from # -1
    <3>1. from \in Rows /\ lost' = lost
      BY <1>1, <2>1, <2>2, <2>4
    <3>2. UNCHANGED selectionAnchor \/ SetAnchor(from)
      BY <2>1
    <3>3. (anchorIndex >= 0 => from = anchorIndex) /\ (anchorIndex < 0 /\ focusedIndex >= 0 => from = focusedIndex)
      BY <1>3
    <3> HIDE DEF from
    <3> QED BY <1>1, <1>2, <1>4, <1>5, <2>1, <3>1, <3>2, <3>3, ExtendStep
  <2> QED BY <2>3, <2>4
<1> QED BY <1>6, <1>7

LEMMA EscapeStep == ASSUME RowInv, Escape PROVE RowInv' /\ PromisedStep
<1>1. /\ RowTypeOK /\ UNCHANGED listVars /\ UNCHANGED items /\ selectionEntries' = {}
      /\ UNCHANGED <<focus, selectionAnchor, dragVars, lost>>
  BY DEF RowInv, Escape, Choice, listVars
<1>2. selectedRows' = {} /\ anchorRow' = anchorRow /\ focusedRow' = focusedRow /\ originRow' = originRow
  <2>1. selectedRows' = {}
    BY <1>1 DEF selectedRows, selectedIndices
  <2> QED BY <1>1, <2>1, KeptIsHere DEF dragVars
<1>3. RowInv'
  <2>1. DragTypeOK' /\ lost' \in BOOLEAN /\ focus' \in Spot /\ selectionAnchor' \in Spot
    BY <1>1 DEF RowTypeOK, DragTypeOK, dragVars
  <2>2. EntriesHere' /\ (~lost => Here(focus)' /\ Here(selectionAnchor)' /\ DragHere')
    <3>1. ~lost => Here(focus) /\ Here(selectionAnchor) /\ DragHere
      BY DEF RowInv, Tracked, Here, DragHere
    <3>2. ~lost => Here(focus)' /\ Here(selectionAnchor)'
      BY <1>1, <3>1, KeptIsHere
    <3>3. ~lost => DragHere'
      BY <1>1, <3>1, KeptIsHere DEF DragHere, dragVars
    <3> QED BY <1>1, <3>2, <3>3 DEF EntriesHere
  <2> QED BY <1>1, <2>1, <2>2, InvFromParts
<1>4. Promise!Clear
  BY <1>1, <1>2 DEF Promise!Clear, selectedRows, anchorRow, focusedRow, originRow
<1> QED BY <1>1, <1>3, <1>4 DEF PromisedStep, Promise!Next

LEMMA CtrlAStep == ASSUME RowInv, CtrlA PROVE RowInv' /\ PromisedStep
<1>1. /\ RowTypeOK /\ UNCHANGED listVars /\ UNCHANGED items /\ SelectRows(Rows)
      /\ UNCHANGED <<focus, selectionAnchor, dragVars, lost>>
  BY DEF RowInv, CtrlA, Choice, listVars
<1>2. /\ selectionEntries' \subseteq Spot /\ EntriesHere' /\ selectedRows' = Promise!Shown
      /\ anchorRow' = anchorRow /\ focusedRow' = focusedRow /\ originRow' = originRow
  <2>1. selectionEntries' \subseteq Spot /\ EntriesHere' /\ selectedRows' = {RowAt(i) : i \in Rows}
    BY <1>1, TakenIsHere
  <2>2. Promise!Shown = {RowAt(i) : i \in Rows}
    BY <1>1, RowFacts
  <2> QED BY <1>1, <2>1, <2>2, KeptIsHere DEF dragVars
<1>3. RowInv'
  <2>1. DragTypeOK' /\ lost' \in BOOLEAN /\ focus' \in Spot /\ selectionAnchor' \in Spot
    BY <1>1 DEF RowTypeOK, DragTypeOK, dragVars
  <2>2. ~lost => Here(focus)' /\ Here(selectionAnchor)' /\ DragHere'
    <3>1. ~lost => Here(focus) /\ Here(selectionAnchor) /\ DragHere
      BY DEF RowInv, Tracked, Here, DragHere
    <3>2. ~lost => Here(focus)' /\ Here(selectionAnchor)'
      BY <1>1, <3>1, KeptIsHere
    <3>3. ~lost => DragHere'
      BY <1>1, <3>1, KeptIsHere DEF DragHere, dragVars
    <3> QED BY <3>2, <3>3
  <2> QED BY <1>1, <1>2, <2>1, <2>2, InvFromParts
<1>4. Promise!SelectAll
  BY <1>1, <1>2 DEF Promise!SelectAll, selectedRows, anchorRow, focusedRow, originRow
<1> QED BY <1>1, <1>3, <1>4 DEF PromisedStep, Promise!Next

-----------------------------------------------------------------------------
LEMMA RowsStart == RowInit => RowInv /\ Promise!Init
<1> SUFFICES ASSUME RowInit PROVE RowInv /\ Promise!Init
  OBVIOUS
<1>1. items = <<>> /\ Len(items) = 0 /\ Rows = {} /\ focus \in Spot /\ selectionAnchor \in Spot
  BY DEF RowInit, NothingTaken, Spot, Rows
<1>2. RowInv
  <2>1. arrivals \in Nat /\ items \in Seq(1 .. arrivals) /\ dragTimers \in Nat
        /\ dragStartIndex \in Int /\ dragCurrentIndex \in Int
    BY <1>1 DEF RowInit
  <2>2. IsInjective(items)
    BY <1>1 DEF IsInjective
  <2>3. Tracked
    BY DEF RowInit, Tracked, NothingTaken
  <2> QED BY <1>1, <2>1, <2>2, <2>3 DEF RowInit, RowInv, RowTypeOK
<1>3. Promise!Init
  BY <1>1 DEF RowInit, Promise!Init, selectedIndices, anchorIndex, focusedIndex, Adjusted, RowAt, NothingTaken
<1> QED BY <1>2, <1>3

LEMMA RowsStep == RowInv /\ [RowNext]_rowVars => RowInv' /\ PromisedStep
<1> SUFFICES ASSUME RowInv, [RowNext]_rowVars PROVE RowInv' /\ PromisedStep
  OBVIOUS
<1>t. DragTypeOK
  BY DEF RowInv, RowTypeOK, DragTypeOK
<1>k. UNCHANGED dragVars => DragTypeOK' /\ UNCHANGED <<isDragging, dragStartIndex>>
  BY <1>t DEF DragTypeOK, dragVars
<1>1. ASSUME NEW n \in 1 .. 2, Arrival(n) PROVE RowInv' /\ PromisedStep
  BY <1>1, ArrivalStep
<1>2. ASSUME NEW index \in Rows, NEW shift \in BOOLEAN, CtrlClick(index, shift)
      PROVE  RowInv' /\ PromisedStep
  BY <1>2, <1>k, ClickStep DEF CtrlClick, Choice
<1>3. ASSUME NEW index \in Rows, RightClick(index) PROVE RowInv' /\ PromisedStep
  <2>1. /\ RowTypeOK /\ UNCHANGED listVars /\ UNCHANGED items /\ selectSingle(index) /\ SetFocus(index)
        /\ lost' = (lost /\ isDragging) /\ UNCHANGED dragVars /\ lost \in BOOLEAN /\ isDragging \in BOOLEAN
    BY <1>3 DEF RowInv, RowTypeOK, RightClick, Choice, listVars
  <2>2. originRow' = originRow
    BY <2>1, KeptIsHere DEF dragVars
  <2>3. ~lost' => DragHere'
    BY <2>1, KeptIsHere, TakenIsHere DEF RowInv, Tracked, DragHere, dragVars
  <2>4. lost' \in {FALSE, lost}
    BY <2>1
  <2> QED BY <1>k, <2>1, <2>2, <2>3, <2>4, SingleStep
<1>4. ASSUME NEW index \in Rows \cup {0}, handleDragMove(index) PROVE RowInv' /\ PromisedStep
  <2>1. /\ RowTypeOK /\ UNCHANGED listVars /\ isDragging /\ DragSelection(dragStartIndex, index)
        /\ UNCHANGED <<isDragging, dragStartIndex, lost, dragListening, dragTimers>>
        /\ dragCurrentIndex' = index
    BY <1>4 DEF RowInv, handleDragMove, Choice
  <2>2. index \in Int /\ (~lost => index \in Rows)
    <3>1. index \in Int
      BY <2>1, RowFacts
    <3>2. ~lost => dragStartIndex \in Rows
      BY <2>1 DEF RowInv, Tracked
    <3>3. dragStartIndex \in Rows => 0 \in Rows
      BY <2>1, RowFacts DEF Rows
    <3> QED BY <3>1, <3>2, <3>3
  <2>3. DragTypeOK'
    BY <1>t, <2>1, <2>2 DEF DragTypeOK
  <2> QED BY <2>1, <2>2, <2>3, DragStep
<1>5. ASSUME handleDragEnd PROVE RowInv' /\ PromisedStep
  <2>1. /\ UNCHANGED <<listVars, isDragging, dragStartIndex, dragCurrentIndex>>
        /\ DragTypeOK'
    <3>1. UNCHANGED <<listVars, isDragging, dragStartIndex, dragCurrentIndex>> /\ dragListening' = FALSE
      BY <1>5 DEF handleDragEnd
    <3>2. dragTimers' \in Nat
      BY <1>5, <1>t DEF handleDragEnd, DragTypeOK
    <3> QED BY <1>t, <3>1, <3>2 DEF DragTypeOK
  <2>2. CASE UNCHANGED <<chosenVars, lost>>
    BY <2>1, <2>2, QuietStep
  <2>3. ASSUME NEW index \in Rows, NEW shift \in BOOLEAN, handleRowClick(index, shift, FALSE)
        PROVE  RowInv' /\ PromisedStep
    BY <2>1, <2>3, ClickStep
  <2> QED BY <1>5, <2>2, <2>3 DEF handleDragEnd
<1>6. ASSUME DragTimer PROVE RowInv' /\ PromisedStep
  <2>1. /\ UNCHANGED <<listVars, chosenVars, lost>> /\ isDragging' = FALSE /\ DragTypeOK'
    <3>1. /\ UNCHANGED <<listVars, chosenVars, dragStartIndex, dragCurrentIndex, dragListening, lost>>
          /\ isDragging' = FALSE
      BY <1>6 DEF DragTimer
    <3>2. dragTimers' \in Nat
      BY <1>6, <1>t DEF DragTimer, DragTypeOK
    <3> QED BY <1>t, <3>1, <3>2 DEF DragTypeOK
  <2> QED BY <2>1, QuietStep
<1>7. CASE UNCHANGED rowVars
  <2>1. UNCHANGED <<listVars, chosenVars, lost>> /\ UNCHANGED dragVars
    BY <1>7 DEF rowVars
  <2> QED BY <1>k, <2>1, QuietStep
<1> QED BY <1>1, <1>2, <1>3, <1>4, <1>5, <1>6, <1>7, ReplacementStep, DragStartStep, KeydownStep,
           EscapeStep, CtrlAStep DEF RowNext

\* Indices stick to their rows: choosing indices with their lengths
\* (VirtualTableBody.svelte:134-178) implements choosing rows, for lists, pages
\* and arrivals of any length and any number of choices.
THEOREM SelectionImplementsRows == RowSpec => SelectionSticks
<1>1. RowInit => RowInv /\ Promise!Init
  BY RowsStart
<1>2. RowInv /\ [RowNext]_rowVars => RowInv' /\ PromisedStep
  BY RowsStep
<1>3. PromisedStep => [Promise!Next]_<<items, Promise!chosen, IF isDragging THEN RowAt(dragStartIndex) ELSE 0, lost>>
  BY DEF PromisedStep, Promise!chosen, selectedRows, anchorRow, focusedRow, originRow
<1> QED BY <1>1, <1>2, <1>3, PTL DEF RowSpec, SelectionSticks, Promise!SelectionOfItems
=============================================================================
