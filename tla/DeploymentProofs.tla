--------------------------- MODULE DeploymentProofs ---------------------------
(***************************************************************************)
(* Proofs about Deployment for every set of deployments, whatever each is  *)
(* asked to do and however slow it is.                                     *)
(***************************************************************************)
EXTENDS Deployment, SequenceTheorems, TLAPS

StepShape(s) ==
  /\ s.start \in 1 .. 99 /\ s.fatal \in BOOLEAN
  /\ s.done \in Seq(1 .. 99) /\ Len(s.done) <= 1
  /\ s.warned \in Seq(1 .. 99) /\ Len(s.warned) <= 1

\* A step, fatal or not, reports its start and at most one more percentage, and
\* none reports 100.
LEMMA StepTable ==
  ASSUME NEW k \in Kinds
  PROVE  /\ Len(Steps(k)) \in 1 .. 6
         /\ \A n \in 1 .. Len(Steps(k)) : StepShape(Steps(k)[n])
  <1>1. CASE k = "deploy"
    <2>1. Steps(k) = Deploy
      BY <1>1 DEF Steps
    <2>2. /\ StepShape(Fatal(10, 20)) /\ StepShape(Fatal(30, 40)) /\ StepShape(Fatal(70, 90))
          /\ StepShape(Lenient(50, <<60>>, <<60>>)) /\ StepShape(Lenient(95, <<>>, <<95>>))
      BY DEF StepShape, Fatal, Lenient
    <2>3. QED
      BY <2>1, <2>2 DEF Deploy
  <1>2. CASE k = "undeploy"
    <2>1. Steps(k) = Undeploy
      BY <1>2 DEF Steps
    <2>2. StepShape(Fatal(20, 50)) /\ StepShape(Lenient(60, <<90>>, <<90>>))
      BY DEF StepShape, Fatal, Lenient
    <2>3. QED
      BY <2>1, <2>2 DEF Undeploy
  <1>3. CASE k = "redeploy"
    <2>1. Steps(k) = Redeploy
      BY <1>3 DEF Steps
    <2>2. /\ StepShape(Fatal(10, 20)) /\ StepShape(Fatal(30, 35)) /\ StepShape(Fatal(40, 50))
          /\ StepShape(Lenient(55, <<60>>, <<60>>)) /\ StepShape(Fatal(70, 90))
          /\ StepShape(Lenient(95, <<>>, <<95>>))
      BY DEF StepShape, Fatal, Lenient
    <2>3. QED
      BY <2>1, <2>2 DEF Redeploy
  <1>4. QED
    BY <1>1, <1>2, <1>3 DEF Kinds

Report == [progress : 1 .. 100, failed : BOOLEAN]

LEMMA ShortList ==
  \A s : s \in Seq(1 .. 99) /\ Len(s) <= 1 =>
    s \in Seq(1 .. 100) /\ Len(s) \in 0 .. 1 /\ \A i \in 1 .. Len(s) : s[i] <= 99
  <1>1. SUFFICES ASSUME NEW s, s \in Seq(1 .. 99), Len(s) <= 1
                 PROVE  s \in Seq(1 .. 100) /\ Len(s) \in 0 .. 1 /\ \A i \in 1 .. Len(s) : s[i] <= 99
    OBVIOUS
  <1>2. s \in Seq(1 .. 100)
    BY <1>1, 1 .. 99 \subseteq 1 .. 100, SeqMonotonic
  <1>3. Len(s) \in Nat
    BY <1>1, LenProperties
  <1>4. ASSUME NEW i \in 1 .. Len(s) PROVE s[i] \in 1 .. 99
    BY <1>1, ElementOfSeq
  <1>5. \A i \in 1 .. Len(s) : s[i] <= 99
    <2>1. \A p \in 1 .. 99 : p <= 99
      OBVIOUS
    <2>2. QED
      BY <1>4, <2>1, Zenon
  <1>6. Len(s) \in 0 .. 1
    <2>1. \A n \in Nat : n <= 1 => n \in 0 .. 1
      OBVIOUS
    <2>2. QED
      BY <1>1, <1>3, <2>1, Zenon
  <1>7. QED
    BY <1>2, <1>5, <1>6

\* What a step sends when it is over: one or two reports, none of a failure, and
\* the completion just after the last step.
GoodReports(k, n, r) ==
  /\ r \in Seq(Report) /\ Len(r) \in 1 .. 2
  /\ n < Len(Steps(k)) => \A i \in DOMAIN r : EventType(r[i]) = "progress"
  /\ n = Len(Steps(k)) => EventType(r[Len(r)]) = "complete"

LEMMA StepReports ==
  \A k \in Kinds : \A n \in 1 .. Len(Steps(k)) :
    \A told \in {Steps(k)[n].done, Steps(k)[n].warned} :
      GoodReports(k, n, Reports(told \o Following(Steps(k), n)))
  <1> SUFFICES ASSUME NEW k \in Kinds, NEW n \in 1 .. Len(Steps(k)),
                      NEW told \in {Steps(k)[n].done, Steps(k)[n].warned},
                      NEW r, r = Reports(told \o Following(Steps(k), n))
               PROVE  GoodReports(k, n, r)
    OBVIOUS
  <1> DEFINE last == n = Len(Steps(k))
             f    == Following(Steps(k), n)
             list == told \o f
  <1>1. /\ Len(Steps(k)) \in 1 .. 6
        /\ StepShape(Steps(k)[n])
        /\ ~last => StepShape(Steps(k)[n + 1])
    BY StepTable
  <1>2. told \in Seq(1 .. 100) /\ Len(told) \in 0 .. 1 /\ \A i \in 1 .. Len(told) : told[i] <= 99
    <2>1. told \in Seq(1 .. 99) /\ Len(told) <= 1
      BY <1>1 DEF StepShape
    <2>2. QED
      BY <2>1, ShortList
  <1>3. f \in Seq(1 .. 100) /\ Len(f) = 1 /\ (last => f[1] = 100) /\ (~last => f[1] <= 99)
    <2>1. CASE last
      BY <2>1 DEF Following
    <2>2. CASE ~last
      <3>1. Steps(k)[n + 1].start \in 1 .. 99
        BY <1>1, <2>2 DEF StepShape
      <3>2. f = <<Steps(k)[n + 1].start>>
        BY <2>2 DEF Following
      <3>3. \A p \in 1 .. 99 : <<p>> \in Seq(1 .. 100) /\ Len(<<p>>) = 1 /\ <<p>>[1] <= 99
        OBVIOUS
      <3>4. f \in Seq(1 .. 100) /\ Len(f) = 1 /\ f[1] <= 99
        BY <3>1, <3>2, <3>3
      <3>5. QED
        BY <2>2, <3>4
    <2>3. QED
      BY <2>1, <2>2
  <1>4. /\ list \in Seq(1 .. 100) /\ Len(list) = Len(told) + 1
        /\ \A i \in 1 .. Len(list) : list[i] = IF i <= Len(told) THEN told[i] ELSE f[i - Len(told)]
    BY <1>2, <1>3, ConcatProperties
  <1>5. /\ DOMAIN list = 1 .. Len(list)
        /\ \A i \in 1 .. Len(list) : list[i] \in 1 .. 100
    BY <1>4, ElementOfSeq, LenProperties
  <1>6. r = [i \in 1 .. Len(list) |-> [progress |-> list[i], failed |-> FALSE]]
    BY <1>5 DEF Reports
  <1>7. r \in Seq(Report) /\ Len(r) = Len(list) /\ DOMAIN r = 1 .. Len(list)
    BY <1>5, <1>6, Len(list) \in Nat DEF Report
  <1>8. \A i \in 1 .. Len(list) : list[i] = 100 <=> EventType(r[i]) = "complete"
    BY <1>5, <1>6 DEF EventType
  <1>9. \A i \in 1 .. Len(list) : list[i] # 100 => EventType(r[i]) = "progress"
    BY <1>5, <1>6 DEF EventType
  <1>10. ASSUME ~last, NEW i \in DOMAIN r PROVE EventType(r[i]) = "progress"
    <2>1. list[i] <= 99
      BY <1>2, <1>3, <1>4, <1>7, <1>10
    <2>2. QED
      BY <2>1, <1>5, <1>7, <1>9
  <1>11. last => EventType(r[Len(r)]) = "complete"
    BY <1>2, <1>3, <1>4, <1>7, <1>8
  <1>12. QED
    BY <1>1, <1>2, <1>4, <1>7, <1>10, <1>11 DEF GoodReports

\* A queue with room takes all that is sent.
LEMMA SendFits ==
  ASSUME progressChan \in [Ids -> Seq(Report)],
         NEW d \in Ids, NEW messages \in Seq(Report),
         Len(progressChan[d]) + Len(messages) <= Capacity,
         sendProgress(d, messages)
  PROVE  /\ progressChan' \in [Ids -> Seq(Report)]
         /\ \A e \in Ids \ {d} : progressChan'[e] = progressChan[e]
         /\ Len(progressChan'[d]) = Len(progressChan[d]) + Len(messages)
         /\ \A i \in DOMAIN progressChan[d] : progressChan'[d][i] = progressChan[d][i]
         /\ \A i \in DOMAIN messages :
              progressChan'[d][Len(progressChan[d]) + i] = messages[i]
  <1> DEFINE queue == progressChan[d]
             all   == queue \o messages
  <1>1. queue \in Seq(Report)
    OBVIOUS
  <1>2. /\ all \in Seq(Report) /\ Len(all) = Len(queue) + Len(messages)
        /\ \A i \in 1 .. Len(queue) + Len(messages) :
             all[i] = IF i <= Len(queue) THEN queue[i] ELSE messages[i - Len(queue)]
    BY <1>1, ConcatProperties
  <1>3. Len(queue) \in Nat /\ Len(messages) \in Nat /\ Len(all) \in Nat
    BY <1>1, <1>2
  <1>4. (IF Len(all) < Capacity THEN Len(all) ELSE Capacity) = Len(all)
    <2>1. Len(all) <= Capacity /\ Len(all) \in Nat /\ Capacity \in Nat
      BY <1>2, <1>3, DeploymentAssumption
    <2>2. \A a, b \in Nat : a <= b => (IF a < b THEN a ELSE b) = a
      OBVIOUS
    <2>3. QED
      BY <2>1, <2>2, Zenon
  <1>5. SubSeq(all, 1, Len(all)) = all
    BY <1>2, SubSeqFull
  <1>6. progressChan' = [progressChan EXCEPT ![d] = all]
    BY <1>4, <1>5 DEF sendProgress
  <1>7. DOMAIN queue = 1 .. Len(queue) /\ DOMAIN messages = 1 .. Len(messages)
    BY <1>1
  <1>8. QED
    BY <1>1, <1>2, <1>3, <1>6, <1>7

-----------------------------------------------------------------------------

\* What a step of the worker does to its channel and to itself: it goes on, it is
\* done, or it has failed.
WorkerEffect(d) ==
  /\ progressChan' \in [Ids -> Seq(Report)]
  /\ \A e \in Ids \ {d} : progressChan'[e] = progressChan[e]
  /\ Len(progressChan'[d]) <= Len(progressChan[d]) + 2
  /\ worker' = [worker EXCEPT ![d] = worker'[d]]
  /\ worker'[d] \in [finished : 0 .. 6, ok : BOOLEAN,
                     phase : {"none", "working", "closing", "reporting", "done"}]
  /\ \/ /\ worker'[d].phase = "working" /\ worker'[d].ok
        /\ worker'[d].finished = worker[d].finished + 1
        /\ worker'[d].finished < Len(Steps(kind[d]))
        /\ ~Queued(d, "complete")'
     \/ /\ worker'[d].phase = "closing" /\ worker'[d].ok
        /\ worker'[d].finished = Len(Steps(kind[d]))
        /\ Queued(d, "complete")'
     \/ /\ worker'[d].phase = "closing" /\ ~worker'[d].ok
        /\ worker'[d].finished = worker[d].finished
        /\ Queued(d, "error")' /\ ~Queued(d, "complete")'

LEMMA WorkerStepEffect ==
  ASSUME DeploymentInv, NEW d \in Ids, WorkerStep(d)
  PROVE  WorkerEffect(d)
  <1> DEFINE k == kind[d]
             n == worker[d].finished + 1
             q == progressChan[d]
  <1>1. worker[d].phase = "working"
    BY DEF WorkerStep
  <1>2. /\ k \in Kinds /\ n \in 1 .. Len(Steps(k)) /\ worker[d].ok
        /\ worker[d].finished \in 0 .. 6
        /\ Len(q) <= 2 * worker[d].finished + 1
    <2>1. request[d] = "accepted" /\ k # "unused" /\ k \in Kinds \cup {"unused"}
      BY <1>1 DEF DeploymentInv, AskedFirst, TypeOK
    <2>2. /\ worker[d].finished \in 0 .. 6 /\ worker[d].finished < Len(Steps(k)) /\ worker[d].ok
          /\ Len(q) <= 2 * worker[d].finished + 1
      BY <1>1 DEF DeploymentInv, ReportsFit, TypeOK
    <2>3. Len(Steps(k)) \in 1 .. 6
      BY <2>1, StepTable
    <2>4. QED
      BY <2>1, <2>2, <2>3
  <1>3. Len(Steps(k)) \in 1 .. 6 /\ StepShape(Steps(k)[n])
    BY <1>2, StepTable
  <1>4. progressChan \in [Ids -> Seq(Report)] /\ q \in Seq(Report) /\ Len(q) \in Nat
    BY DEF DeploymentInv, TypeOK, Report
  <1>5. \A i \in DOMAIN q : EventType(q[i]) # "complete"
    BY <1>1 DEF DeploymentInv, CompletionIsReal, Queued, Ended
  <1>6. \A m \in 1 .. 2 : Len(q) + m <= Capacity
    <2>1. \A l \in Nat, m \in 1 .. 2, f \in 0 .. 6, s \in 1 .. 6 :
             l <= 2 * f + 1 /\ f + 1 \in 1 .. s => l + m <= Capacity
      BY RoomAssumption, DeploymentAssumption
    <2>2. QED
      BY <1>2, <1>3, <1>4, <2>1, Zenon
  <1>7. ASSUME NEW told \in {Steps(k)[n].done, Steps(k)[n].warned},
               sendProgress(d, Reports(told \o Following(Steps(k), n))),
               worker' = [worker EXCEPT
                   ![d].finished = n,
                   ![d].phase = IF n = Len(Steps(k)) THEN "closing" ELSE "working"]
        PROVE  WorkerEffect(d)
    <2> DEFINE r == Reports(told \o Following(Steps(k), n))
    <2>1. /\ r \in Seq(Report) /\ Len(r) \in 1 .. 2
          /\ n < Len(Steps(k)) => \A i \in DOMAIN r : EventType(r[i]) = "progress"
          /\ n = Len(Steps(k)) => EventType(r[Len(r)]) = "complete"
      <3>1. k \in Kinds /\ n \in 1 .. Len(Steps(k))
        BY <1>2
      <3>2. GoodReports(k, n, r)
        BY <1>7, <3>1, StepReports, Zenon
      <3>3. QED
        BY <3>2, Zenon DEF GoodReports
    <2>2. Len(q) + Len(r) <= Capacity
      BY <1>6, <2>1
    <2>3. /\ progressChan' \in [Ids -> Seq(Report)]
          /\ \A e \in Ids \ {d} : progressChan'[e] = progressChan[e]
          /\ Len(progressChan'[d]) = Len(q) + Len(r)
          /\ \A i \in DOMAIN q : progressChan'[d][i] = q[i]
          /\ \A i \in DOMAIN r : progressChan'[d][Len(q) + i] = r[i]
      BY <1>4, <1>7, <2>1, <2>2, SendFits
    <2>4. Len(progressChan'[d]) <= Len(q) + 2
      <3>1. \A a \in Nat, b \in 1 .. 2 : a + b <= a + 2
        OBVIOUS
      <3>2. QED
        BY <1>4, <2>1, <2>3, <3>1, Zenon
    <2>5. /\ worker' = [worker EXCEPT ![d] = worker'[d]]
          /\ worker'[d].finished = n /\ worker'[d].ok
          /\ worker'[d].phase = IF n = Len(Steps(k)) THEN "closing" ELSE "working"
          /\ worker'[d] \in [finished : 0 .. 6, ok : BOOLEAN,
                     phase : {"none", "working", "closing", "reporting", "done"}]
      <3>1. worker \in [Ids -> [finished : 0 .. 6, ok : BOOLEAN,
                     phase : {"none", "working", "closing", "reporting", "done"}]]
        BY DEF DeploymentInv, TypeOK
      <3>2. n \in 0 .. 6
        BY <1>2, <1>3
      <3>3. worker'[d] = [worker[d] EXCEPT !.finished = n,
                            !.phase = IF n = Len(Steps(k)) THEN "closing" ELSE "working"]
        BY <1>7, <3>1
      <3>4. worker' = [worker EXCEPT ![d] = worker'[d]]
        BY <1>7, <3>1
      <3>5. worker'[d].finished = n /\ (worker'[d].ok <=> worker[d].ok)
        BY <3>1, <3>3
      <3>6. worker'[d].phase = IF n = Len(Steps(k)) THEN "closing" ELSE "working"
        BY <3>1, <3>3
      <3>7. worker'[d] \in [finished : 0 .. 6, ok : BOOLEAN,
                     phase : {"none", "working", "closing", "reporting", "done"}]
        BY <3>1, <3>2, <3>3
      <3>8. QED
        BY <1>2, <3>4, <3>5, <3>6, <3>7
    <2>6. CASE n = Len(Steps(k))
      <3>1. Len(r) \in DOMAIN r
        <4>1. \A m \in 1 .. 2 : m \in 1 .. m
          OBVIOUS
        <4>2. DOMAIN r = 1 .. Len(r)
          BY <2>1, LenProperties
        <4>3. QED
          BY <2>1, <4>1, <4>2, Zenon
      <3>2. Len(q) + Len(r) \in DOMAIN progressChan'[d]
        <4>1. \A a \in Nat, m \in 1 .. 2 : a + m \in 1 .. a + m
          OBVIOUS
        <4>2. DOMAIN progressChan'[d] = 1 .. Len(progressChan'[d])
          BY <2>3, LenProperties
        <4>3. QED
          BY <1>4, <2>1, <2>3, <4>1, <4>2, Zenon
      <3>3. progressChan'[d][Len(q) + Len(r)] = r[Len(r)]
        BY <2>3, <3>1
      <3>4. \E i \in DOMAIN progressChan'[d] : EventType(progressChan'[d][i]) = "complete"
        BY <2>1, <2>6, <3>2, <3>3
      <3>5. Queued(d, "complete")'
        BY <3>4 DEF Queued, EventType
      <3>6. QED
        BY <2>3, <2>4, <2>5, <2>6, <3>5 DEF WorkerEffect
    <2>7. CASE n < Len(Steps(k))
      <3>1. ASSUME NEW i \in DOMAIN progressChan'[d]
            PROVE  i \in DOMAIN q \/ \E j \in DOMAIN r : i = Len(q) + j
        <4>1. \A a \in Nat, b \in 1 .. 2 : \A x \in 1 .. a + b :
                 x \in 1 .. a \/ \E y \in 1 .. b : x = a + y
          <5>1. SUFFICES ASSUME NEW a \in Nat, NEW b \in 1 .. 2, NEW x \in 1 .. a + b,
                                x \notin 1 .. a
                         PROVE  \E y \in 1 .. b : x = a + y
            OBVIOUS
          <5>2. x - a \in 1 .. b /\ x = a + (x - a)
            BY <5>1
          <5>3. QED
            BY <5>2, Zenon
        <4>2. /\ DOMAIN progressChan'[d] = 1 .. Len(progressChan'[d])
              /\ DOMAIN q = 1 .. Len(q) /\ DOMAIN r = 1 .. Len(r)
          BY <1>4, <2>1, <2>3, LenProperties
        <4>3. i \in 1 .. Len(q) + Len(r)
          BY <2>3, <4>2
        <4>4. i \in 1 .. Len(q) \/ \E j \in 1 .. Len(r) : i = Len(q) + j
          BY <1>4, <2>1, <4>1, <4>3, Zenon
        <4>5. QED
          BY <4>2, <4>4
      <3>2. \A i \in DOMAIN progressChan'[d] : EventType(progressChan'[d][i]) # "complete"
        BY <1>5, <2>1, <2>3, <2>7, <3>1
      <3>3. ~Queued(d, "complete")'
        BY <3>2 DEF Queued, EventType
      <3>4. QED
        BY <1>2, <2>3, <2>4, <2>5, <2>7, <3>3 DEF WorkerEffect
    <2>8. QED
      BY <1>2, <1>3, <2>6, <2>7
  <1>8. ASSUME sendProgress(d, Failure(Steps(k)[n].start)),
               worker' = [worker EXCEPT ![d].phase = "closing", ![d].ok = FALSE]
        PROVE  WorkerEffect(d)
    <2> DEFINE p == Steps(k)[n].start
               r == Failure(p)
    <2>1. /\ r \in Seq(Report) /\ Len(r) = 1 /\ DOMAIN r = {1}
          /\ EventType(r[1]) = "error"
      <3>1. p \in 1 .. 100
        BY <1>3, SMTT(30) DEF StepShape
      <3>2. \A x \in Report : /\ <<x>> \in Seq(Report) /\ Len(<<x>>) = 1
                             /\ DOMAIN <<x>> = {1} /\ <<x>>[1] = x
        OBVIOUS
      <3>3. [progress |-> p, failed |-> TRUE] \in Report
        BY <3>1 DEF Report
      <3>4. r = <<[progress |-> p, failed |-> TRUE]>>
        BY DEF Failure
      <3>5. r \in Seq(Report) /\ Len(r) = 1 /\ DOMAIN r = {1}
        BY <3>2, <3>3, <3>4, Zenon
      <3>6. r[1] = [progress |-> p, failed |-> TRUE]
        BY <3>2, <3>3, <3>4, Zenon
      <3>7. EventType([progress |-> p, failed |-> TRUE]) = "error"
        BY DEF EventType
      <3>8. QED
        BY <3>5, <3>6, <3>7, Zenon
    <2>2. Len(q) + Len(r) <= Capacity
      BY <1>6, <2>1
    <2>3. /\ progressChan' \in [Ids -> Seq(Report)]
          /\ \A e \in Ids \ {d} : progressChan'[e] = progressChan[e]
          /\ Len(progressChan'[d]) = Len(q) + 1
          /\ \A i \in DOMAIN q : progressChan'[d][i] = q[i]
          /\ progressChan'[d][Len(q) + 1] = r[1]
      <3>1. sendProgress(d, r)
        BY <1>8
      <3>2. /\ progressChan' \in [Ids -> Seq(Report)]
            /\ \A e \in Ids \ {d} : progressChan'[e] = progressChan[e]
            /\ Len(progressChan'[d]) = Len(q) + Len(r)
            /\ \A i \in DOMAIN q : progressChan'[d][i] = q[i]
            /\ \A i \in DOMAIN r : progressChan'[d][Len(q) + i] = r[i]
        BY <1>4, <3>1, <2>1, <2>2, SendFits
      <3>3. QED
        BY <2>1, <3>2
    <2>4. DOMAIN progressChan'[d] = (DOMAIN q) \cup {Len(q) + 1}
      <3>1. \A a \in Nat : 1 .. a + 1 = (1 .. a) \cup {a + 1}
        OBVIOUS
      <3>2. DOMAIN progressChan'[d] = 1 .. Len(progressChan'[d]) /\ DOMAIN q = 1 .. Len(q)
        BY <1>4, <2>3, LenProperties
      <3>3. QED
        BY <1>4, <2>3, <3>1, <3>2, Zenon
    <2>5. Queued(d, "error")' /\ ~Queued(d, "complete")'
      <3>1. progressChan'[d][Len(q) + 1] = r[1] /\ EventType(r[1]) = "error"
        BY <2>1, <2>3
      <3>2. \A i \in DOMAIN progressChan'[d] : EventType(progressChan'[d][i]) # "complete"
        BY <1>5, <2>3, <2>4, <3>1
      <3>3. \E i \in DOMAIN progressChan'[d] : EventType(progressChan'[d][i]) = "error"
        BY <2>4, <3>1
      <3>4. QED
        BY <3>2, <3>3 DEF Queued, EventType
    <2>6. Len(progressChan'[d]) <= Len(q) + 2
      <3>1. \A a \in Nat : a + 1 <= a + 2
        OBVIOUS
      <3>2. QED
        BY <1>4, <2>3, <3>1, Zenon
    <2>7. worker \in [Ids -> [finished : 0 .. 6, ok : BOOLEAN,
                     phase : {"none", "working", "closing", "reporting", "done"}]]
      BY DEF DeploymentInv, TypeOK
    <2>8. QED
      BY <1>8, <2>3, <2>5, <2>6, <2>7 DEF WorkerEffect
  <1>9. QED
    BY <1>7, <1>8 DEF WorkerStep

\* What is left when the first element is taken, and what is there when one is
\* added.
LEMMA TailElements ==
  ASSUME NEW S, NEW q \in Seq(S), q # <<>>
  PROVE  /\ Tail(q) \in Seq(S) /\ Head(q) = q[1] /\ Head(q) \in S /\ 1 \in DOMAIN q
         /\ Len(q) \in Nat /\ Len(Tail(q)) \in Nat /\ Len(Tail(q)) <= Len(q)
         /\ \A i \in DOMAIN Tail(q) : i + 1 \in DOMAIN q /\ Tail(q)[i] = q[i + 1]
         /\ \A j \in DOMAIN q : j = 1 \/ \E i \in DOMAIN Tail(q) : j = i + 1
  <1>1. /\ Head(q) \in S /\ Tail(q) \in Seq(S) /\ Len(Tail(q)) = Len(q) - 1
        /\ \A i \in 1 .. Len(Tail(q)) : Tail(q)[i] = q[i + 1]
    BY HeadTailProperties
  <1>2. Len(q) \in Nat \ {0} /\ Head(q) = q[1]
    BY LenProperties, EmptySeq
  <1>3. DOMAIN q = 1 .. Len(q) /\ DOMAIN Tail(q) = 1 .. Len(Tail(q))
    BY <1>1, LenProperties
  <1>4. \A n \in Nat \ {0} : /\ n - 1 \in Nat /\ n - 1 <= n /\ 1 \in 1 .. n
                             /\ \A i \in 1 .. n - 1 : i + 1 \in 1 .. n
                             /\ \A j \in 1 .. n : j = 1 \/ (j - 1 \in 1 .. n - 1 /\ j = (j - 1) + 1)
    OBVIOUS
  <1>5. /\ Len(q) - 1 \in Nat /\ Len(q) - 1 <= Len(q) /\ 1 \in 1 .. Len(q)
        /\ \A i \in 1 .. Len(q) - 1 : i + 1 \in 1 .. Len(q)
        /\ \A j \in 1 .. Len(q) : j = 1 \/ (j - 1 \in 1 .. Len(q) - 1 /\ j = (j - 1) + 1)
    BY <1>2, <1>4, Zenon
  <1>6. \A j \in DOMAIN q : j = 1 \/ \E i \in DOMAIN Tail(q) : j = i + 1
    BY <1>1, <1>3, <1>5, Zenon
  <1>7. \A i \in DOMAIN Tail(q) : i + 1 \in DOMAIN q /\ Tail(q)[i] = q[i + 1]
    BY <1>1, <1>3, <1>5, Zenon
  <1>8. QED
    BY <1>1, <1>2, <1>3, <1>5, <1>6, <1>7, Zenon

LEMMA AppendElements ==
  ASSUME NEW S, NEW q \in Seq(S), NEW x \in S
  PROVE  /\ Append(q, x) \in Seq(S)
         /\ \A i \in DOMAIN Append(q, x) :
              (i \in DOMAIN q /\ Append(q, x)[i] = q[i]) \/ Append(q, x)[i] = x
  <1>1. /\ Append(q, x) \in Seq(S) /\ Len(Append(q, x)) = Len(q) + 1
        /\ \A i \in 1 .. Len(q) : Append(q, x)[i] = q[i]
        /\ Append(q, x)[Len(q) + 1] = x
    BY AppendProperties
  <1>2. DOMAIN q = 1 .. Len(q) /\ DOMAIN Append(q, x) = 1 .. Len(Append(q, x)) /\ Len(q) \in Nat
    BY <1>1, LenProperties
  <1>3. \A n \in Nat : \A i \in 1 .. n + 1 : i \in 1 .. n \/ i = n + 1
    OBVIOUS
  <1>4. \A i \in 1 .. Len(q) + 1 : i \in 1 .. Len(q) \/ i = Len(q) + 1
    BY <1>2, <1>3, Zenon
  <1>5. QED
    BY <1>1, <1>2, <1>4, Zenon

\* What is on its way after a message was sent: what was before, and it.
OnItsWay(e, type) == \E n \in DOMAIN wire[e] : wire[e][n].type = type

LEMMA SendEffect ==
  ASSUME wire \in [Ids -> Seq(Messages)], NEW d \in Ids, NEW type, NEW p,
         [type |-> type, progress |-> p] \in Messages, send(d, type, p)
  PROVE  /\ wire' \in [Ids -> Seq(Messages)]
         /\ \A e \in Ids : OnItsWay(e, "complete")' =>
              OnItsWay(e, "complete") \/ (e = d /\ type = "complete")
  <1> DEFINE m == [type |-> type, progress |-> p]
  <1>1. CASE d \in left
    BY <1>1 DEF send, OnItsWay
  <1>2. CASE d \notin left
    <2>1. wire' = [wire EXCEPT ![d] = Append(wire[d], m)]
      BY <1>2 DEF send
    <2>2. /\ Append(wire[d], m) \in Seq(Messages)
          /\ \A i \in DOMAIN Append(wire[d], m) :
               (i \in DOMAIN wire[d] /\ Append(wire[d], m)[i] = wire[d][i])
               \/ Append(wire[d], m)[i] = m
      BY AppendElements
    <2>3. wire' \in [Ids -> Seq(Messages)]
      BY <2>1, <2>2
    <2>4. \A e \in Ids : wire'[e] = IF e = d THEN Append(wire[d], m) ELSE wire[e]
      BY <2>1
    <2>5. ASSUME NEW e \in Ids, NEW n \in DOMAIN wire'[e], wire'[e][n].type = "complete"
          PROVE  (\E i \in DOMAIN wire[e] : wire[e][i].type = "complete")
                 \/ (e = d /\ type = "complete")
      <3>1. CASE e = d
        <4>1. wire'[e] = Append(wire[d], m)
          BY <2>4, <3>1
        <4>2. n \in DOMAIN Append(wire[d], m) /\ Append(wire[d], m)[n].type = "complete"
          BY <2>5, <4>1
        <4>3. CASE Append(wire[d], m)[n] = m
          BY <3>1, <4>2, <4>3
        <4>4. CASE n \in DOMAIN wire[d] /\ Append(wire[d], m)[n] = wire[d][n]
          BY <3>1, <4>2, <4>4
        <4>5. QED
          BY <2>2, <4>2, <4>3, <4>4
      <3>2. CASE e # d
        BY <2>4, <2>5, <3>2
      <3>3. QED
        BY <3>1, <3>2
    <2>6. QED
      BY <2>3, <2>5 DEF OnItsWay
  <1>3. QED
    BY <1>1, <1>2

\* Handling a message makes success of nothing but a completion.
LEMMA ShownEffect ==
  ASSUME deployments \in [Ids -> [status : {"absent", "deploying", "success", "error"},
                                  progress : 0 .. 100]],
         deploymentId \in Ids \cup {NoId},
         NEW d \in Ids, NEW m \in Messages, Shown(d, m)
  PROVE  /\ deployments' \in [Ids -> [status : {"absent", "deploying", "success", "error"},
                                      progress : 0 .. 100]]
         /\ deploymentId' \in Ids \cup {NoId}
         /\ \A e \in Ids : deployments'[e].status = "success" =>
              deployments[e].status = "success" \/ (e = d /\ m.type = "complete")
  <1>1. m.type \in {"response", "rejection", "progress", "complete", "error"} /\ m.progress \in 0 .. 100
    BY DEF Messages
  <1>2. CASE m.type = "response"
    BY <1>2 DEF Shown
  <1>3. CASE m.type = "rejection"
    BY <1>3 DEF Shown, Updated
  <1>4. CASE m.type = "progress"
    BY <1>1, <1>4 DEF Shown, Updated
  <1>5. CASE m.type = "complete"
    BY <1>5 DEF Shown, Updated
  <1>6. CASE m.type = "error"
    BY <1>6 DEF Shown, Updated
  <1>7. QED
    BY <1>1, <1>2, <1>3, <1>4, <1>5, <1>6

-----------------------------------------------------------------------------

\* The first report of a deployment goes into an empty channel.
StartEffect(d) ==
  /\ progressChan' \in [Ids -> Seq(Report)]
  /\ \A e \in Ids \ {d} : progressChan'[e] = progressChan[e]
  /\ Len(progressChan'[d]) = 1
  /\ ~Queued(d, "complete")'

LEMMA StartStepEffect ==
  ASSUME DeploymentInv, NEW d \in Ids, request[d] = "sent",
         sendProgress(d, Reports(<<Steps(kind[d])[1].start>>))
  PROVE  StartEffect(d)
  <1> DEFINE p == Steps(kind[d])[1].start
             r == Reports(<<p>>)
             q == progressChan[d]
  <1>1. worker[d].phase = "none" /\ kind[d] \in Kinds
    BY DEF DeploymentInv, AskedFirst, TypeOK
  <1>2. q = <<>>
    BY <1>1 DEF DeploymentInv, ReportsFit
  <1>3. p \in 1 .. 99
    <2>1. Len(Steps(kind[d])) \in 1 .. 6 /\ \A n \in 1 .. Len(Steps(kind[d])) : StepShape(Steps(kind[d])[n])
      BY <1>1, StepTable
    <2>2. StepShape(Steps(kind[d])[1])
      <3>1. \A m \in 1 .. 6 : 1 \in 1 .. m
        OBVIOUS
      <3>2. QED
        BY <2>1, <3>1, Zenon
    <2>3. QED
      BY <2>2 DEF StepShape
  <1>4. /\ r \in Seq(Report) /\ Len(r) = 1 /\ DOMAIN r = {1}
        /\ EventType(r[1]) = "progress"
    BY <1>3 DEF Reports, Report, EventType
  <1>5. progressChan \in [Ids -> Seq(Report)] /\ Len(q) = 0
    BY <1>2 DEF DeploymentInv, TypeOK, Report
  <1>6. Len(q) + Len(r) <= Capacity
    <2>1. 0 + 1 <= Capacity
      BY DeploymentAssumption
    <2>2. QED
      BY <1>4, <1>5, <2>1, Zenon
  <1>7. /\ progressChan' \in [Ids -> Seq(Report)]
        /\ \A e \in Ids \ {d} : progressChan'[e] = progressChan[e]
        /\ Len(progressChan'[d]) = Len(q) + Len(r)
        /\ \A i \in DOMAIN r : progressChan'[d][Len(q) + i] = r[i]
    BY <1>4, <1>5, <1>6, SendFits
  <1>8. Len(progressChan'[d]) = 1 /\ progressChan'[d][1] = r[1]
    <2>1. 0 + 1 = 1
      OBVIOUS
    <2>2. 1 \in DOMAIN r
      BY <1>4
    <2>3. QED
      BY <1>4, <1>5, <1>7, <2>1, <2>2, Zenon
  <1>9. DOMAIN progressChan'[d] = {1}
    <2>1. progressChan'[d] \in Seq(Report)
      BY <1>7
    <2>2. \A s \in Seq(Report) : Len(s) = 1 => DOMAIN s = {1}
      OBVIOUS
    <2>3. QED
      BY <1>8, <2>1, <2>2, Zenon
  <1>10. QED
    BY <1>4, <1>7, <1>8, <1>9 DEF StartEffect, Queued, EventType

\* Taking a report from the channel: what it was is now an event, what follows
\* stays.
LEMMA TakeEffect ==
  ASSUME progressChan \in [Ids -> Seq(Report)], NEW d \in Ids, progressChan[d] # <<>>,
         progressChan' = [progressChan EXCEPT ![d] = Tail(@)],
         NEW type, type = EventType(Head(progressChan[d]))
  PROVE  /\ progressChan' \in [Ids -> Seq(Report)]
         /\ \A e \in Ids \ {d} : progressChan'[e] = progressChan[e]
         /\ Len(progressChan'[d]) \in Nat /\ Len(progressChan[d]) \in Nat
         /\ Len(progressChan'[d]) <= Len(progressChan[d])
         /\ type \in {"progress", "complete", "error"} /\ Queued(d, type)
         /\ \A t : Queued(d, t)' => Queued(d, t)
         /\ \A t : Queued(d, t) => Queued(d, t)' \/ t = type
  <1> DEFINE q == progressChan[d]
  <1>1. /\ Tail(q) \in Seq(Report) /\ Head(q) = q[1] /\ Head(q) \in Report /\ 1 \in DOMAIN q
        /\ Len(q) \in Nat /\ Len(Tail(q)) \in Nat /\ Len(Tail(q)) <= Len(q)
        /\ \A i \in DOMAIN Tail(q) : i + 1 \in DOMAIN q /\ Tail(q)[i] = q[i + 1]
        /\ \A j \in DOMAIN q : j = 1 \/ \E i \in DOMAIN Tail(q) : j = i + 1
    BY TailElements
  <1>2. progressChan'[d] = Tail(q) /\ progressChan' \in [Ids -> Seq(Report)]
        /\ \A e \in Ids \ {d} : progressChan'[e] = progressChan[e]
    BY <1>1
  <1>3. type \in {"progress", "complete", "error"} /\ Queued(d, type)
    BY <1>1 DEF Queued, EventType
  <1>4. ASSUME NEW t, \E i \in DOMAIN Tail(q) : EventType(Tail(q)[i]) = t
        PROVE  Queued(d, t)
    BY <1>1, <1>4 DEF Queued
  <1>5. ASSUME NEW t, Queued(d, t)
        PROVE  (\E i \in DOMAIN Tail(q) : EventType(Tail(q)[i]) = t) \/ t = type
    BY <1>1, <1>5 DEF Queued
  <1>6. ASSUME NEW t
        PROVE  Queued(d, t)' <=> \E i \in DOMAIN Tail(q) : EventType(Tail(q)[i]) = t
    BY <1>2 DEF Queued, EventType
  <1>7. QED
    BY <1>1, <1>2, <1>3, <1>4, <1>5, <1>6

-----------------------------------------------------------------------------
(* What each action leaves of the parts of DeploymentInv                       *)

\* LoopProgress, seen through the two lemmas about its channel and its event
LEMMA LoopProgressEffect ==
  ASSUME TypeOK, NEW d \in Ids, LoopProgress(d)
  PROVE  \E type \in {"progress", "complete", "error"} :
           /\ progressChan' \in [Ids -> Seq(Report)]
           /\ \A e \in Ids \ {d} : progressChan'[e] = progressChan[e]
           /\ Len(progressChan'[d]) \in Nat /\ Len(progressChan[d]) \in Nat
           /\ Len(progressChan'[d]) <= Len(progressChan[d])
           /\ Queued(d, type)
           /\ \A t : Queued(d, t)' => Queued(d, t)
           /\ \A t : Queued(d, t) => Queued(d, t)' \/ t = type
           /\ finals' = [finals EXCEPT ![d] = @ \cup ({type} \ {"progress"})]
           /\ wire' \in [Ids -> Seq(Messages)]
           /\ \A e \in Ids : OnItsWay(e, "complete")' =>
                OnItsWay(e, "complete") \/ (e = d /\ type = "complete")
  <1> DEFINE type == EventType(Head(progressChan[d]))
  <1>1. /\ progressChan[d] # <<>> /\ progressChan \in [Ids -> Seq(Report)]
        /\ progressChan' = [progressChan EXCEPT ![d] = Tail(@)]
        /\ send(d, type, Head(progressChan[d]).progress)
        /\ finals' = [finals EXCEPT ![d] = @ \cup ({type} \ {"progress"})]
        /\ wire \in [Ids -> Seq(Messages)]
    BY DEF LoopProgress, TypeOK, Report
  <1>2. /\ progressChan' \in [Ids -> Seq(Report)]
        /\ \A e \in Ids \ {d} : progressChan'[e] = progressChan[e]
        /\ Len(progressChan'[d]) \in Nat /\ Len(progressChan[d]) \in Nat
        /\ Len(progressChan'[d]) <= Len(progressChan[d])
        /\ type \in {"progress", "complete", "error"} /\ Queued(d, type)
        /\ \A t : Queued(d, t)' => Queued(d, t)
        /\ \A t : Queued(d, t) => Queued(d, t)' \/ t = type
    BY <1>1, TakeEffect
  <1>3. Head(progressChan[d]) \in Report
    BY <1>1, TailElements
  <1>4. [type |-> type, progress |-> Head(progressChan[d]).progress] \in Messages
    BY <1>2, <1>3 DEF Messages, Report
  <1>5. /\ wire' \in [Ids -> Seq(Messages)]
        /\ \A e \in Ids : OnItsWay(e, "complete")' =>
             OnItsWay(e, "complete") \/ (e = d /\ type = "complete")
    BY <1>1, <1>4, SendEffect
  <1>6. QED
    BY <1>1, <1>2, <1>5

\* The loop gives up: an error event.
LEMMA GiveUpEffect ==
  ASSUME TypeOK, NEW d \in Ids, GiveUp(d)
  PROVE  /\ wire' \in [Ids -> Seq(Messages)]
         /\ \A e \in Ids : OnItsWay(e, "complete")' => OnItsWay(e, "complete")
  <1>1. [type |-> "error", progress |-> 0] \in Messages
    BY DEF Messages
  <1>2. QED
    BY <1>1, SendEffect DEF GiveUp, TypeOK

LEMMA ReceiveEffect ==
  ASSUME TypeOK, NEW d \in Ids, Receive(d)
  PROVE  /\ wire' \in [Ids -> Seq(Messages)]
         /\ \A e \in Ids : OnItsWay(e, "complete")' => OnItsWay(e, "complete")
         /\ deployments' \in [Ids -> [status : {"absent", "deploying", "success", "error"},
                                      progress : 0 .. 100]]
         /\ deploymentId' \in Ids \cup {NoId}
         /\ \A e \in Ids : deployments'[e].status = "success" =>
              deployments[e].status = "success" \/ (e = d /\ OnItsWay(d, "complete"))
  <1> DEFINE w == wire[d]
  <1>1. /\ w # <<>> /\ wire \in [Ids -> Seq(Messages)] /\ w \in Seq(Messages)
        /\ wire' = [wire EXCEPT ![d] = Tail(@)]
        /\ Shown(d, Head(w))
    BY DEF Receive, TypeOK
  <1>2. /\ Tail(w) \in Seq(Messages) /\ Head(w) = w[1] /\ Head(w) \in Messages /\ 1 \in DOMAIN w
        /\ \A i \in DOMAIN Tail(w) : i + 1 \in DOMAIN w /\ Tail(w)[i] = w[i + 1]
    BY <1>1, TailElements
  <1>3. /\ wire' \in [Ids -> Seq(Messages)] /\ wire'[d] = Tail(w)
        /\ \A e \in Ids \ {d} : wire'[e] = wire[e]
    BY <1>1, <1>2
  <1>4. ASSUME NEW e \in Ids, OnItsWay(e, "complete")' PROVE OnItsWay(e, "complete")
    <2>1. CASE e = d
      BY <1>2, <1>3, <1>4, <2>1 DEF OnItsWay
    <2>2. CASE e # d
      BY <1>3, <1>4, <2>2 DEF OnItsWay
    <2>3. QED
      BY <2>1, <2>2
  <1>5. Head(w).type = "complete" => OnItsWay(d, "complete")
    BY <1>2 DEF OnItsWay
  <1>6. /\ deployments' \in [Ids -> [status : {"absent", "deploying", "success", "error"},
                                      progress : 0 .. 100]]
        /\ deploymentId' \in Ids \cup {NoId}
        /\ \A e \in Ids : deployments'[e].status = "success" =>
              deployments[e].status = "success" \/ (e = d /\ Head(w).type = "complete")
    BY <1>1, <1>2, ShownEffect DEF TypeOK
  <1>7. QED
    BY <1>3, <1>4, <1>5, <1>6

LEMMA TypeStep ==
  ASSUME DeploymentInv, [Next]_vars
  PROVE  TypeOK'
  <1>0. TypeOK
    BY DEF DeploymentInv
  <1> USE DEF requestVars, workerVars, pageVars, linkVars
  <1> DEFINE Workers == [Ids -> [finished : 0 .. 6, ok : BOOLEAN,
                                 phase : {"none", "working", "closing", "reporting", "done"}]]
  <1>a. worker \in Workers
    BY <1>0 DEF TypeOK
  <1>b. \A d \in Ids, p \in {"none", "working", "closing", "reporting", "done"} :
           [worker EXCEPT ![d].phase = p] \in Workers
    BY <1>a
  <1> HIDE DEF Workers
  <1>1. ASSUME UNCHANGED vars PROVE TypeOK'
    BY <1>0, <1>1 DEF TypeOK, vars
  <1>2. ASSUME NEW d \in Ids, StartDeployment(d) PROVE TypeOK'
    BY <1>0, <1>2 DEF TypeOK, StartDeployment
  <1>3. ASSUME NEW d \in Ids, HandleDeployIG(d) PROVE TypeOK'
    <2>1. \A t \in {"response", "rejection"} : [type |-> t, progress |-> 0] \in Messages
      BY DEF Messages
    <2>2. wire' \in [Ids -> Seq(Messages)]
      <3>1. CASE send(d, "response", 0)
        BY <1>0, <2>1, <3>1, SendEffect DEF TypeOK
      <3>2. CASE send(d, "rejection", 0)
        BY <1>0, <2>1, <3>2, SendEffect DEF TypeOK
      <3>3. QED
        BY <1>3, <3>1, <3>2 DEF HandleDeployIG
    <2>3. progressChan' \in [Ids -> Seq(Report)]
      <3>1. CASE sendProgress(d, Reports(<<Steps(kind[d])[1].start>>))
        BY <1>3, <3>1, StartStepEffect DEF HandleDeployIG, StartEffect
      <3>2. CASE UNCHANGED progressChan
        BY <1>0, <3>2 DEF TypeOK, Report
      <3>3. QED
        BY <1>3, <3>1, <3>2 DEF HandleDeployIG
    <2>4. /\ request' \in [Ids -> {"none", "sent", "accepted", "rejected"}]
          /\ loop' \in [Ids -> {"none", "running", "returned"}]
      BY <1>0, <1>3 DEF TypeOK, HandleDeployIG
    <2>5. worker' \in Workers
      BY <1>a, <1>b, <1>3 DEF HandleDeployIG
    <2>6. UNCHANGED <<kind, closed, deployErr, pageVars, linkVars, finals>>
      BY <1>3 DEF HandleDeployIG
    <2>7. QED
      BY <1>0, <2>2, <2>3, <2>4, <2>5, <2>6 DEF TypeOK, Report, Workers
  <1>4. ASSUME NEW d \in Ids, WorkerStep(d) PROVE TypeOK'
    <2>1. WorkerEffect(d)
      BY <1>4, WorkerStepEffect
    <2>2. worker' \in [Ids -> [finished : 0 .. 6, ok : BOOLEAN,
                         phase : {"none", "working", "closing", "reporting", "done"}]]
      BY <1>0, <2>1 DEF TypeOK, WorkerEffect
    <2>3. progressChan' \in [Ids -> Seq([progress : 1 .. 100, failed : BOOLEAN])]
      BY <2>1 DEF WorkerEffect, Report
    <2>4. UNCHANGED <<requestVars, closed, deployErr, loop, wire, pageVars, linkVars, finals>>
      BY <1>4 DEF WorkerStep
    <2>5. QED
      BY <1>0, <2>2, <2>3, <2>4 DEF TypeOK
  <1>5. ASSUME NEW d \in Ids, WorkerClose(d) PROVE TypeOK'
    <2>1. worker' \in Workers
      BY <1>b, <1>5 DEF WorkerClose
    <2>2. closed' \in [Ids -> BOOLEAN] /\ deployErr' \in [Ids -> {"empty", "nil", "error"}]
      BY <1>0, <1>5 DEF TypeOK, WorkerClose
    <2>3. UNCHANGED <<requestVars, progressChan, loop, wire, pageVars, linkVars, finals>>
      BY <1>5 DEF WorkerClose
    <2>4. QED
      BY <1>0, <2>1, <2>2, <2>3 DEF TypeOK, Workers
  <1>6. ASSUME NEW d \in Ids, WorkerReport(d) PROVE TypeOK'
    <2>1. worker' \in Workers
      BY <1>b, <1>6 DEF WorkerReport
    <2>2. closed' \in [Ids -> BOOLEAN] /\ deployErr' \in [Ids -> {"empty", "nil", "error"}]
      BY <1>0, <1>6 DEF TypeOK, WorkerReport
    <2>3. UNCHANGED <<requestVars, progressChan, loop, wire, pageVars, linkVars, finals>>
      BY <1>6 DEF WorkerReport
    <2>4. QED
      BY <1>0, <2>1, <2>2, <2>3 DEF TypeOK, Workers
  <1>7. ASSUME NEW d \in Ids, LoopProgress(d) PROVE TypeOK'
    <2>1. PICK type \in {"progress", "complete", "error"} :
            /\ progressChan' \in [Ids -> Seq(Report)] /\ wire' \in [Ids -> Seq(Messages)]
            /\ finals' = [finals EXCEPT ![d] = @ \cup ({type} \ {"progress"})]
      BY <1>0, <1>7, LoopProgressEffect
    <2>2. finals' \in [Ids -> SUBSET {"complete", "error"}]
      BY <1>0, <2>1 DEF TypeOK
    <2>3. UNCHANGED <<requestVars, workerVars, loop, pageVars, linkVars>>
      BY <1>7 DEF LoopProgress
    <2>4. QED
      BY <1>0, <2>1, <2>2, <2>3 DEF TypeOK, Report
  <1>8. ASSUME NEW d \in Ids, LoopClosed(d) PROVE TypeOK'
    BY <1>0, <1>8 DEF TypeOK, LoopClosed
  <1>9. ASSUME NEW d \in Ids, GiveUp(d)
        PROVE  /\ wire' \in [Ids -> Seq(Messages)]
               /\ finals' \in [Ids -> SUBSET {"complete", "error"}]
               /\ loop' \in [Ids -> {"none", "running", "returned"}]
    BY <1>0, <1>9, GiveUpEffect DEF TypeOK, GiveUp
  <1>10. ASSUME NEW d \in Ids, LoopResult(d) PROVE TypeOK'
    <2>1. deployErr' \in [Ids -> {"empty", "nil", "error"}]
      BY <1>0, <1>10 DEF TypeOK, LoopResult
    <2>2. /\ wire' \in [Ids -> Seq(Messages)]
          /\ finals' \in [Ids -> SUBSET {"complete", "error"}]
          /\ loop' \in [Ids -> {"none", "running", "returned"}]
      <3>1. CASE GiveUp(d)
        BY <1>9, <3>1
      <3>2. CASE UNCHANGED <<wire, finals, loop>>
        BY <1>0, <3>2 DEF TypeOK
      <3>3. QED
        BY <1>10, <3>1, <3>2 DEF LoopResult
    <2>3. UNCHANGED <<requestVars, worker, closed, progressChan, pageVars, linkVars>>
      BY <1>10 DEF LoopResult
    <2>4. QED
      BY <1>0, <2>1, <2>2, <2>3 DEF TypeOK
  <1>11. ASSUME NEW d \in Ids, LoopTimeout(d) PROVE TypeOK'
    <2>1. /\ wire' \in [Ids -> Seq(Messages)]
          /\ finals' \in [Ids -> SUBSET {"complete", "error"}]
          /\ loop' \in [Ids -> {"none", "running", "returned"}]
      BY <1>9, <1>11 DEF LoopTimeout
    <2>2. UNCHANGED <<requestVars, workerVars, progressChan, pageVars, linkVars>>
      BY <1>11 DEF LoopTimeout
    <2>3. QED
      BY <1>0, <2>1, <2>2 DEF TypeOK
  <1>12. ASSUME NEW d \in Ids, Receive(d) PROVE TypeOK'
    <2>1. UNCHANGED <<requestVars, workerVars, progressChan, loop, linkVars, finals>>
      BY <1>12 DEF Receive
    <2>2. QED
      BY <1>0, <1>12, <2>1, ReceiveEffect DEF TypeOK
  <1>13. ASSUME NEW d \in Ids, Dismiss(d) PROVE TypeOK'
    BY <1>0, <1>13 DEF TypeOK, Dismiss, Absent
  <1>14. ASSUME Reload \/ Disconnect PROVE TypeOK'
    <2>1. /\ left' \subseteq Ids /\ connected' \in BOOLEAN
          /\ wire' \in [Ids -> Seq(Messages)]
      <3>1. /\ left' = {d \in Ids : request[d] # "none"} /\ connected' \in BOOLEAN
            /\ wire' = [d \in Ids |-> <<>>]
        BY <1>14 DEF Reload, Disconnect, LoseConnection
      <3>2. <<>> \in Seq(Messages)
        OBVIOUS
      <3>3. left' \subseteq Ids
        BY ONLY <3>1
      <3>4. wire' \in [Ids -> Seq(Messages)]
        BY ONLY <3>1, <3>2
      <3>5. QED
        BY <3>1, <3>3, <3>4
    <2>2. \/ deployments' = [d \in Ids |-> Absent] /\ deploymentId' = NoId
          \/ UNCHANGED pageVars
      BY <1>14 DEF Reload, Disconnect
    <2>3. /\ deployments' \in [Ids -> [status : {"absent", "deploying", "success", "error"},
                                      progress : 0 .. 100]]
          /\ deploymentId' \in Ids \cup {NoId}
      BY <1>0, <2>2 DEF TypeOK, Absent
    <2>4. UNCHANGED <<requestVars, workerVars, progressChan, loop, finals>>
      BY <1>14 DEF Reload, Disconnect
    <2>5. QED
      BY <1>0, <2>1, <2>3, <2>4 DEF TypeOK
  <1>15. QED
    BY <1>1, <1>2, <1>3, <1>4, <1>5, <1>6, <1>7, <1>8, <1>10, <1>11, <1>12, <1>13, <1>14
       DEF Next, Worker, performDeployment

LEMMA AskedFirstStep ==
  ASSUME DeploymentInv, [Next]_vars
  PROVE  AskedFirst'
  <1>0. AskedFirst /\ TypeOK
    BY DEF DeploymentInv
  <1> USE DEF requestVars, workerVars, pageVars, linkVars
  <1>1. ASSUME UNCHANGED <<requestVars, worker, loop>> PROVE AskedFirst'
    BY <1>0, <1>1 DEF AskedFirst
  <1>2. ASSUME NEW d \in Ids, StartDeployment(d) PROVE AskedFirst'
    <2>1. /\ request[d] = "none" /\ kind[d] # "unused" /\ UNCHANGED <<kind, worker, loop>>
          /\ request' = [request EXCEPT ![d] = "sent"]
      BY <1>2 DEF StartDeployment
    <2>2. QED
      BY <1>0, <2>1 DEF AskedFirst, TypeOK
  <1>3. ASSUME NEW d \in Ids, HandleDeployIG(d) PROVE AskedFirst'
    <2>1. CASE /\ request' = [request EXCEPT ![d] = "accepted"]
               /\ loop' = [loop EXCEPT ![d] = "running"]
               /\ worker' = [worker EXCEPT ![d].phase = "working"]
      BY <1>0, <1>3, <2>1 DEF AskedFirst, TypeOK, HandleDeployIG
    <2>2. CASE request' = [request EXCEPT ![d] = "rejected"] /\ UNCHANGED <<loop, worker>>
      BY <1>0, <1>3, <2>2 DEF AskedFirst, TypeOK, HandleDeployIG
    <2>3. QED
      BY <1>3, <2>1, <2>2 DEF HandleDeployIG
  <1>4. ASSUME NEW d \in Ids, worker[d].phase # "none", UNCHANGED <<requestVars, loop>>,
               worker' = [worker EXCEPT ![d] = worker'[d]], worker'[d].phase # "none"
        PROVE  AskedFirst'
    BY <1>0, <1>4 DEF AskedFirst, TypeOK
  <1>5. ASSUME NEW d \in Ids, WorkerStep(d) PROVE AskedFirst'
    <2>1. worker[d].phase = "working" /\ UNCHANGED <<requestVars, loop>>
      BY <1>5 DEF WorkerStep
    <2>2. worker' = [worker EXCEPT ![d] = worker'[d]] /\ worker'[d].phase # "none"
      BY <1>5, WorkerStepEffect DEF WorkerEffect
    <2>3. QED
      BY <1>4, <2>1, <2>2
  <1>6. ASSUME NEW d \in Ids, WorkerClose(d) PROVE AskedFirst'
    <2>1. worker' = [worker EXCEPT ![d] = worker'[d]] /\ worker'[d].phase = "reporting"
      BY <1>0, <1>6 DEF WorkerClose, TypeOK
    <2>2. QED
      BY <1>4, <1>6, <2>1 DEF WorkerClose
  <1>7. ASSUME NEW d \in Ids, WorkerReport(d) PROVE AskedFirst'
    <2>1. worker' = [worker EXCEPT ![d] = worker'[d]] /\ worker'[d].phase = "done"
      BY <1>0, <1>7 DEF WorkerReport, TypeOK
    <2>2. QED
      BY <1>4, <1>7, <2>1 DEF WorkerReport
  <1>8. ASSUME NEW d \in Ids, loop[d] # "none", UNCHANGED <<requestVars, worker>>,
               loop' = [loop EXCEPT ![d] = "returned"]
        PROVE  AskedFirst'
    BY <1>0, <1>8 DEF AskedFirst, TypeOK
  <1>9. ASSUME NEW d \in Ids, performDeployment(d) PROVE AskedFirst'
    <2>1. CASE UNCHANGED <<requestVars, worker, loop>>
      BY <1>1, <2>1
    <2>2. CASE loop[d] = "running" /\ loop' = [loop EXCEPT ![d] = "returned"]
               /\ UNCHANGED <<requestVars, worker>>
      BY <1>8, <2>2
    <2>3. QED
      BY <1>9, <2>1, <2>2
         DEF performDeployment, LoopProgress, LoopClosed, LoopResult, LoopTimeout, GiveUp
  <1>10. ASSUME NEW d \in Ids, Receive(d) \/ Dismiss(d) PROVE AskedFirst'
    BY <1>1, <1>10 DEF Receive, Dismiss
  <1>11. ASSUME Reload \/ Disconnect PROVE AskedFirst'
    BY <1>1, <1>11 DEF Reload, Disconnect, LoseConnection
  <1>12. ASSUME UNCHANGED vars PROVE AskedFirst'
    BY <1>1, <1>12 DEF vars
  <1>13. QED
    BY <1>2, <1>3, <1>5, <1>6, <1>7, <1>9, <1>10, <1>11, <1>12 DEF Next, Worker

LEMMA ReportsFitStep ==
  ASSUME DeploymentInv, [Next]_vars
  PROVE  ReportsFit'
  <1>0. AskedFirst /\ TypeOK /\ ReportsFit
    BY DEF DeploymentInv
  <1> USE DEF requestVars, workerVars, pageVars, linkVars
  <1>1. ASSUME UNCHANGED <<kind, worker, progressChan>> PROVE ReportsFit'
    BY <1>0, <1>1 DEF ReportsFit, Ended
  <1>2. ASSUME NEW d \in Ids, UNCHANGED kind,
               worker' = [worker EXCEPT ![d] = worker'[d]],
               \A e \in Ids \ {d} : progressChan'[e] = progressChan[e],
               /\ worker'[d].phase = "none" =>
                    worker'[d].finished = 0 /\ worker'[d].ok /\ progressChan'[d] = <<>>
               /\ worker'[d].phase = "working" =>
                    /\ worker'[d].finished < Len(Steps(kind[d])) /\ worker'[d].ok
                    /\ Len(progressChan'[d]) <= 2 * worker'[d].finished + 1
               /\ worker'[d].phase \in {"closing", "reporting", "done"} =>
                    /\ worker'[d].finished <= Len(Steps(kind[d]))
                    /\ Len(progressChan'[d]) <= 14
        PROVE  ReportsFit'
    <2>1. \A e \in Ids \ {d} : worker'[e] = worker[e]
      BY <1>0, <1>2 DEF TypeOK
    <2>2. QED
      BY <1>0, <1>2, <2>1 DEF ReportsFit, Ended
  <1>3. ASSUME NEW d \in Ids, HandleDeployIG(d) PROVE ReportsFit'
    <2>1. CASE UNCHANGED <<worker, progressChan>>
      BY <1>1, <1>3, <2>1 DEF HandleDeployIG
    <2>2. CASE /\ worker' = [worker EXCEPT ![d].phase = "working"]
               /\ sendProgress(d, Reports(<<Steps(kind[d])[1].start>>))
      <3>1. request[d] = "sent" /\ UNCHANGED kind
        BY <1>3 DEF HandleDeployIG
      <3>2. StartEffect(d)
        BY <2>2, <3>1, StartStepEffect
      <3>3. worker[d].phase = "none" /\ kind[d] \in Kinds
        BY <1>0, <3>1 DEF AskedFirst, TypeOK
      <3>4. worker[d].finished = 0 /\ worker[d].ok
        BY <1>0, <3>3 DEF ReportsFit
      <3>5. /\ worker' = [worker EXCEPT ![d] = worker'[d]]
            /\ worker'[d].phase = "working" /\ worker'[d].finished = 0 /\ worker'[d].ok
        BY <1>0, <2>2, <3>4 DEF TypeOK
      <3>6. 0 < Len(Steps(kind[d]))
        <4>1. \A m \in 1 .. 6 : 0 < m
          OBVIOUS
        <4>2. QED
          BY <3>3, <4>1, StepTable, Zenon
      <3>7. Len(progressChan'[d]) <= 2 * 0 + 1
        BY <3>2, 1 <= 2 * 0 + 1 DEF StartEffect
      <3>8. \A e \in Ids \ {d} : progressChan'[e] = progressChan[e]
        BY <3>2 DEF StartEffect
      <3>9. QED
        BY <1>2, <3>1, <3>5, <3>6, <3>7, <3>8
    <2>3. QED
      BY <1>3, <2>1, <2>2 DEF HandleDeployIG
  <1>4. ASSUME NEW d \in Ids, WorkerStep(d) PROVE ReportsFit'
    <2> DEFINE f == worker[d].finished
               l == Len(progressChan[d])
    <2>1. worker[d].phase = "working" /\ UNCHANGED kind
      BY <1>4 DEF WorkerStep
    <2>2. WorkerEffect(d)
      BY <1>4, WorkerStepEffect
    <2>3. /\ f < Len(Steps(kind[d])) /\ f \in 0 .. 6 /\ l <= 2 * f + 1
      BY <1>0, <2>1 DEF ReportsFit, TypeOK
    <2>4. kind[d] \in Kinds /\ Len(Steps(kind[d])) \in 1 .. 6
      BY <1>0, <2>1, StepTable DEF AskedFirst, TypeOK
    <2>5. l \in Nat /\ Len(progressChan'[d]) \in Nat /\ Len(progressChan'[d]) <= l + 2
      <3>1. progressChan \in [Ids -> Seq(Report)] /\ progressChan' \in [Ids -> Seq(Report)]
        BY <1>0, <2>2 DEF TypeOK, WorkerEffect, Report
      <3>2. progressChan[d] \in Seq(Report) /\ progressChan'[d] \in Seq(Report)
        BY <3>1
      <3>3. QED
        BY <2>2, <3>2, LenProperties DEF WorkerEffect
    <2>6. Len(progressChan'[d]) <= 2 * (f + 1) + 1 /\ Len(progressChan'[d]) <= 14 /\ f <= Len(Steps(kind[d]))
      <3>1. \A a, b \in Nat, g \in 0 .. 6, s \in 1 .. 6 :
               a <= 2 * g + 1 /\ b <= a + 2 /\ g < s => b <= 2 * (g + 1) + 1 /\ b <= 14 /\ g <= s
        OBVIOUS
      <3>2. QED
        BY <2>3, <2>4, <2>5, <3>1, Zenon
    <2>7. worker'[d].finished \in 0 .. 6 /\ worker' = [worker EXCEPT ![d] = worker'[d]]
          /\ \A e \in Ids \ {d} : progressChan'[e] = progressChan[e]
      BY <2>2 DEF WorkerEffect
    <2>8. CASE /\ worker'[d].phase = "working" /\ worker'[d].ok
               /\ worker'[d].finished = f + 1
               /\ worker'[d].finished < Len(Steps(kind[d]))
      BY <1>2, <2>1, <2>6, <2>7, <2>8
    <2>9. CASE worker'[d].phase = "closing" /\ worker'[d].finished = Len(Steps(kind[d]))
      <3>1. worker'[d].finished <= Len(Steps(kind[d]))
        BY <2>7, <2>9
      <3>2. QED
        BY <1>2, <2>1, <2>6, <2>7, <2>9, <3>1
    <2>10. CASE worker'[d].phase = "closing" /\ worker'[d].finished = f
      BY <1>2, <2>1, <2>6, <2>7, <2>10
    <2>11. QED
      BY <2>2, <2>8, <2>9, <2>10 DEF WorkerEffect
  <1>5. ASSUME NEW d \in Ids, WorkerClose(d) \/ WorkerReport(d) PROVE ReportsFit'
    <2>1. /\ UNCHANGED <<kind, progressChan>>
          /\ worker[d].phase \in {"closing", "reporting"}
      BY <1>5 DEF WorkerClose, WorkerReport
    <2>2. /\ worker' = [worker EXCEPT ![d] = worker'[d]]
          /\ worker'[d].phase \in {"closing", "reporting", "done"}
          /\ worker'[d].phase \notin {"none", "working"}
          /\ worker'[d].finished = worker[d].finished
      BY <1>0, <1>5 DEF TypeOK, WorkerClose, WorkerReport
    <2>3. worker[d].finished <= Len(Steps(kind[d])) /\ Len(progressChan[d]) <= 14
      BY <1>0, <2>1 DEF ReportsFit, Ended
    <2>4. QED
      BY <1>2, <2>1, <2>2, <2>3
  <1>6. ASSUME NEW d \in Ids, LoopProgress(d) PROVE ReportsFit'
    <2>1. /\ UNCHANGED <<kind, worker>> /\ progressChan[d] # <<>>
      BY <1>6 DEF LoopProgress
    <2>2. /\ \A e \in Ids \ {d} : progressChan'[e] = progressChan[e]
          /\ Len(progressChan'[d]) \in Nat /\ Len(progressChan[d]) \in Nat
          /\ Len(progressChan'[d]) <= Len(progressChan[d])
      BY <1>0, <1>6, LoopProgressEffect
    <2>3. \A a, b \in Nat, g \in 0 .. 6 :
             a <= b => (b <= 14 => a <= 14) /\ (b <= 2 * g + 1 => a <= 2 * g + 1)
      OBVIOUS
    <2>4. worker[d].finished \in 0 .. 6
      BY <1>0 DEF TypeOK
    <2>5. /\ Len(progressChan[d]) <= 14 => Len(progressChan'[d]) <= 14
          /\ Len(progressChan[d]) <= 2 * worker[d].finished + 1
               => Len(progressChan'[d]) <= 2 * worker[d].finished + 1
      BY <2>2, <2>3, <2>4, Zenon
    <2>6. worker' = [worker EXCEPT ![d] = worker'[d]]
      BY <1>0, <2>1 DEF TypeOK
    <2>7. worker[d].phase # "none"
      BY <1>0, <2>1 DEF ReportsFit
    <2>8. /\ worker[d].phase = "working" =>
               /\ worker[d].finished < Len(Steps(kind[d])) /\ worker[d].ok
               /\ Len(progressChan'[d]) <= 2 * worker[d].finished + 1
          /\ worker[d].phase \in {"closing", "reporting", "done"} =>
               /\ worker[d].finished <= Len(Steps(kind[d]))
               /\ Len(progressChan'[d]) <= 14
      BY <1>0, <2>5 DEF ReportsFit, Ended
    <2>9. QED
      BY <1>2, <2>1, <2>2, <2>6, <2>7, <2>8
  <1>7. ASSUME NEW d \in Ids, LoopClosed(d) \/ LoopResult(d) \/ LoopTimeout(d) PROVE ReportsFit'
    BY <1>1, <1>7 DEF LoopClosed, LoopResult, LoopTimeout
  <1>8. ASSUME NEW d \in Ids, StartDeployment(d) \/ Receive(d) \/ Dismiss(d) PROVE ReportsFit'
    BY <1>1, <1>8 DEF StartDeployment, Receive, Dismiss
  <1>9. ASSUME Reload \/ Disconnect PROVE ReportsFit'
    BY <1>1, <1>9 DEF Reload, Disconnect, LoseConnection
  <1>10. ASSUME UNCHANGED vars PROVE ReportsFit'
    BY <1>1, <1>10 DEF vars
  <1>11. QED
    BY <1>3, <1>4, <1>5, <1>6, <1>7, <1>8, <1>9, <1>10 DEF Next, Worker, performDeployment

LEMMA OutcomeKnownStep ==
  ASSUME DeploymentInv, [Next]_vars
  PROVE  OutcomeKnown'
  <1>0. AskedFirst /\ TypeOK /\ OutcomeKnown
    BY DEF DeploymentInv
  <1> USE DEF requestVars, workerVars, pageVars, linkVars
  <1>1. ASSUME UNCHANGED <<worker, progressChan, finals, closed>> PROVE OutcomeKnown'
    BY <1>0, <1>1 DEF OutcomeKnown, Ended, Queued, EventType
  <1>2. ASSUME NEW d \in Ids,
               \A e \in Ids \ {d} : /\ progressChan'[e] = progressChan[e] /\ finals'[e] = finals[e]
                                    /\ worker'[e] = worker[e] /\ closed'[e] = closed[e],
               worker'[d].phase \in {"closing", "reporting", "done"} =>
                 finals'[d] # {} \/ Queued(d, "complete")' \/ Queued(d, "error")',
               closed'[d] => worker'[d].phase \in {"reporting", "done"}
        PROVE  OutcomeKnown'
    BY <1>0, <1>2 DEF OutcomeKnown, Ended, Queued, EventType
  <1>3. ASSUME NEW d \in Ids, HandleDeployIG(d) PROVE OutcomeKnown'
    <2>1. CASE UNCHANGED <<worker, progressChan>>
      BY <1>1, <1>3, <2>1 DEF HandleDeployIG
    <2>2. CASE /\ worker' = [worker EXCEPT ![d].phase = "working"]
               /\ sendProgress(d, Reports(<<Steps(kind[d])[1].start>>))
      <3>1. request[d] = "sent" /\ UNCHANGED <<finals, closed>>
        BY <1>3 DEF HandleDeployIG
      <3>2. \A e \in Ids \ {d} : progressChan'[e] = progressChan[e]
        BY <2>2, <3>1, StartStepEffect DEF StartEffect
      <3>3. worker[d].phase = "none"
        BY <1>0, <3>1 DEF AskedFirst, TypeOK
      <3>4. worker'[d].phase = "working" /\ \A e \in Ids \ {d} : worker'[e] = worker[e]
        BY <1>0, <2>2 DEF TypeOK
      <3>5. ~closed'[d]
        BY <1>0, <3>1, <3>3 DEF OutcomeKnown
      <3>6. QED
        BY <1>2, <3>1, <3>2, <3>4, <3>5
    <2>3. QED
      BY <1>3, <2>1, <2>2 DEF HandleDeployIG
  <1>4. ASSUME NEW d \in Ids, WorkerStep(d) PROVE OutcomeKnown'
    <2>1. worker[d].phase = "working" /\ UNCHANGED <<finals, closed>>
      BY <1>4 DEF WorkerStep
    <2>2. WorkerEffect(d)
      BY <1>4, WorkerStepEffect
    <2>3. \A e \in Ids \ {d} : progressChan'[e] = progressChan[e] /\ worker'[e] = worker[e]
      BY <1>0, <2>2 DEF WorkerEffect, TypeOK
    <2>4. ~closed'[d]
      BY <1>0, <2>1 DEF OutcomeKnown
    <2>5. worker'[d].phase \in {"closing", "reporting", "done"} =>
            Queued(d, "complete")' \/ Queued(d, "error")'
      BY <2>2 DEF WorkerEffect
    <2>6. QED
      BY <1>2, <2>1, <2>3, <2>4, <2>5
  <1>5. ASSUME NEW d \in Ids, WorkerClose(d) \/ WorkerReport(d) PROVE OutcomeKnown'
    <2>1. worker[d].phase \in {"closing", "reporting"} /\ UNCHANGED <<progressChan, finals>>
      BY <1>5 DEF WorkerClose, WorkerReport
    <2>2. finals[d] # {} \/ Queued(d, "complete") \/ Queued(d, "error")
      BY <1>0, <2>1 DEF OutcomeKnown, Ended
    <2>3. finals'[d] # {} \/ Queued(d, "complete")' \/ Queued(d, "error")'
      BY <2>1, <2>2 DEF Queued, EventType
    <2>4. worker'[d].phase \in {"reporting", "done"}
          /\ \A e \in Ids \ {d} : worker'[e] = worker[e] /\ closed'[e] = closed[e]
      BY <1>0, <1>5 DEF TypeOK, WorkerClose, WorkerReport
    <2>5. QED
      BY <1>2, <2>1, <2>3, <2>4
  <1>6. ASSUME NEW d \in Ids, LoopProgress(d) PROVE OutcomeKnown'
    <2>1. UNCHANGED <<worker, closed>>
      BY <1>6 DEF LoopProgress
    <2>2. PICK type \in {"progress", "complete", "error"} :
            /\ \A e \in Ids \ {d} : progressChan'[e] = progressChan[e]
            /\ \A t : Queued(d, t) => Queued(d, t)' \/ t = type
            /\ finals' = [finals EXCEPT ![d] = @ \cup ({type} \ {"progress"})]
      BY <1>0, <1>6, LoopProgressEffect
    <2>3. /\ \A e \in Ids \ {d} : finals'[e] = finals[e]
          /\ finals'[d] = finals[d] \cup ({type} \ {"progress"})
      BY <1>0, <2>2 DEF TypeOK
    <2>4. ASSUME finals[d] # {} \/ Queued(d, "complete") \/ Queued(d, "error")
          PROVE  finals'[d] # {} \/ Queued(d, "complete")' \/ Queued(d, "error")'
      <3>1. CASE finals[d] # {}
        BY <2>3, <3>1
      <3>2. CASE type \in {"complete", "error"}
        BY <2>3, <3>2
      <3>3. CASE type = "progress" /\ (Queued(d, "complete") \/ Queued(d, "error"))
        <4>1. "complete" # type /\ "error" # type
          BY <3>3
        <4>2. QED
          BY <2>2, <3>3, <4>1, Zenon
      <3>4. QED
        BY <2>4, <3>1, <3>2, <3>3
    <2>5. /\ worker[d].phase \in {"closing", "reporting", "done"} =>
               finals'[d] # {} \/ Queued(d, "complete")' \/ Queued(d, "error")'
          /\ closed[d] => worker[d].phase \in {"reporting", "done"}
      BY <1>0, <2>4 DEF OutcomeKnown, Ended
    <2>6. QED
      BY <1>2, <2>1, <2>2, <2>3, <2>5
  <1>7. ASSUME NEW d \in Ids, UNCHANGED <<worker, progressChan, closed>>,
               finals' = [finals EXCEPT ![d] = @ \cup {"error"}]
        PROVE  OutcomeKnown'
    <2>1. finals'[d] # {} /\ \A e \in Ids \ {d} : finals'[e] = finals[e]
      BY <1>0, <1>7 DEF TypeOK
    <2>2. QED
      BY <1>0, <1>2, <1>7, <2>1 DEF OutcomeKnown
  <1>8. ASSUME NEW d \in Ids, LoopClosed(d) \/ LoopResult(d) \/ LoopTimeout(d) PROVE OutcomeKnown'
    <2>1. UNCHANGED <<worker, progressChan, closed>>
      BY <1>8 DEF LoopClosed, LoopResult, LoopTimeout
    <2>2. UNCHANGED finals \/ finals' = [finals EXCEPT ![d] = @ \cup {"error"}]
      BY <1>8 DEF LoopClosed, LoopResult, LoopTimeout, GiveUp
    <2>3. QED
      BY <1>1, <1>7, <2>1, <2>2
  <1>9. ASSUME NEW d \in Ids, StartDeployment(d) \/ Receive(d) \/ Dismiss(d) PROVE OutcomeKnown'
    BY <1>1, <1>9 DEF StartDeployment, Receive, Dismiss
  <1>10. ASSUME Reload \/ Disconnect PROVE OutcomeKnown'
    BY <1>1, <1>10 DEF Reload, Disconnect, LoseConnection
  <1>11. ASSUME UNCHANGED vars PROVE OutcomeKnown'
    BY <1>1, <1>11 DEF vars
  <1>12. QED
    BY <1>3, <1>4, <1>5, <1>6, <1>8, <1>9, <1>10, <1>11 DEF Next, Worker, performDeployment

LEMMA FinalEventSentStep ==
  ASSUME DeploymentInv, [Next]_vars
  PROVE  FinalEventSent'
  <1>0. AskedFirst /\ TypeOK /\ OutcomeKnown /\ FinalEventSent
    BY DEF DeploymentInv
  <1> USE DEF requestVars, workerVars, pageVars, linkVars
  <1>1. ASSUME UNCHANGED <<loop, finals>> PROVE FinalEventSent'
    BY <1>0, <1>1 DEF FinalEventSent
  <1>2. ASSUME NEW d \in Ids, HandleDeployIG(d) PROVE FinalEventSent'
    BY <1>0, <1>2 DEF HandleDeployIG, FinalEventSent, TypeOK
  <1>3. ASSUME NEW d \in Ids, LoopProgress(d) PROVE FinalEventSent'
    <2>1. UNCHANGED loop /\ \A e \in Ids : finals[e] \subseteq finals'[e]
      BY <1>0, <1>3 DEF LoopProgress, TypeOK
    <2>2. QED
      BY <1>0, <2>1 DEF FinalEventSent
  <1>4. ASSUME NEW d \in Ids, LoopClosed(d) PROVE FinalEventSent'
    <2>1. /\ closed[d] /\ progressChan[d] = <<>> /\ UNCHANGED finals
          /\ loop' = [loop EXCEPT ![d] = "returned"]
      BY <1>4 DEF LoopClosed
    <2>2. Ended(d)
      BY <1>0, <2>1 DEF OutcomeKnown, Ended
    <2>3. ~Queued(d, "complete") /\ ~Queued(d, "error")
      BY <2>1 DEF Queued
    <2>4. finals[d] # {}
      BY <1>0, <2>2, <2>3 DEF OutcomeKnown
    <2>5. QED
      BY <1>0, <2>1, <2>4 DEF FinalEventSent, TypeOK
  <1>5. ASSUME NEW d \in Ids, GiveUp(d) PROVE FinalEventSent'
    BY <1>0, <1>5 DEF GiveUp, FinalEventSent, TypeOK
  <1>6. ASSUME NEW d \in Ids, LoopResult(d) \/ LoopTimeout(d) PROVE FinalEventSent'
    <2>1. GiveUp(d) \/ UNCHANGED <<loop, finals>>
      BY <1>6 DEF LoopResult, LoopTimeout
    <2>2. QED
      BY <1>1, <1>5, <2>1
  <1>7. ASSUME NEW d \in Ids,
               \/ StartDeployment(d) \/ Receive(d) \/ Dismiss(d)
               \/ WorkerStep(d) \/ WorkerClose(d) \/ WorkerReport(d)
        PROVE  FinalEventSent'
    BY <1>1, <1>7 DEF StartDeployment, Receive, Dismiss, WorkerStep, WorkerClose, WorkerReport
  <1>8. ASSUME Reload \/ Disconnect PROVE FinalEventSent'
    BY <1>1, <1>8 DEF Reload, Disconnect, LoseConnection
  <1>9. ASSUME UNCHANGED vars PROVE FinalEventSent'
    BY <1>1, <1>9 DEF vars
  <1>10. QED
    BY <1>2, <1>3, <1>4, <1>6, <1>7, <1>8, <1>9 DEF Next, Worker, performDeployment

\* The two halves of CompletionIsReal, and each of them under a step.
ReportIsReal(d) ==
  "complete" \in finals[d] \/ Queued(d, "complete") =>
    Ended(d) /\ worker[d].ok /\ worker[d].finished = Len(Steps(kind[d]))
ShownWasSent(d) ==
  deployments[d].status = "success" \/ OnItsWay(d, "complete") => "complete" \in finals[d]

LEMMA Halves ==
  CompletionIsReal <=> \A d \in Ids : ReportIsReal(d) /\ ShownWasSent(d)
  BY DEF CompletionIsReal, ReportIsReal, ShownWasSent, OnItsWay

LEMMA ReportIsRealStep ==
  ASSUME DeploymentInv, [Next]_vars
  PROVE  \A d \in Ids : ReportIsReal(d)'
  <1>0. AskedFirst /\ TypeOK /\ \A d \in Ids : ReportIsReal(d)
    BY Halves DEF DeploymentInv
  <1> USE DEF requestVars, workerVars, pageVars, linkVars
  <1>1. ASSUME UNCHANGED <<kind, worker, progressChan, finals>>
        PROVE  \A d \in Ids : ReportIsReal(d)'
    BY <1>0, <1>1 DEF ReportIsReal, Ended, Queued, EventType
  <1>2. ASSUME NEW d \in Ids, UNCHANGED kind,
               \A e \in Ids \ {d} : /\ progressChan'[e] = progressChan[e] /\ finals'[e] = finals[e]
                                    /\ worker'[e] = worker[e],
               ReportIsReal(d)'
        PROVE  \A e \in Ids : ReportIsReal(e)'
    BY <1>0, <1>2 DEF ReportIsReal, Ended, Queued, EventType
  <1>3. ASSUME NEW d \in Ids, HandleDeployIG(d) PROVE \A e \in Ids : ReportIsReal(e)'
    <2>1. CASE UNCHANGED <<worker, progressChan>>
      BY <1>1, <1>3, <2>1 DEF HandleDeployIG
    <2>2. CASE /\ worker' = [worker EXCEPT ![d].phase = "working"]
               /\ sendProgress(d, Reports(<<Steps(kind[d])[1].start>>))
      <3>1. request[d] = "sent" /\ UNCHANGED <<kind, finals>>
        BY <1>3 DEF HandleDeployIG
      <3>2. /\ \A e \in Ids \ {d} : progressChan'[e] = progressChan[e]
            /\ ~Queued(d, "complete")'
        BY <2>2, <3>1, StartStepEffect DEF StartEffect
      <3>3. worker[d].phase = "none"
        BY <1>0, <3>1 DEF AskedFirst, TypeOK
      <3>4. \A e \in Ids \ {d} : worker'[e] = worker[e]
        BY <1>0, <2>2 DEF TypeOK
      <3>5. "complete" \notin finals'[d]
        BY <1>0, <3>1, <3>3 DEF ReportIsReal, Ended
      <3>6. ReportIsReal(d)'
        BY <3>2, <3>5 DEF ReportIsReal
      <3>7. QED
        BY <1>2, <3>1, <3>2, <3>4, <3>6
    <2>3. QED
      BY <1>3, <2>1, <2>2 DEF HandleDeployIG
  <1>4. ASSUME NEW d \in Ids, WorkerStep(d) PROVE \A e \in Ids : ReportIsReal(e)'
    <2>1. worker[d].phase = "working" /\ UNCHANGED <<kind, finals>>
      BY <1>4 DEF WorkerStep
    <2>2. WorkerEffect(d)
      BY <1>4, WorkerStepEffect
    <2>3. \A e \in Ids \ {d} : progressChan'[e] = progressChan[e] /\ worker'[e] = worker[e]
      BY <1>0, <2>2 DEF WorkerEffect, TypeOK
    <2>4. "complete" \notin finals'[d]
      BY <1>0, <2>1 DEF ReportIsReal, Ended
    <2>5. CASE ~Queued(d, "complete")'
      <3>1. ReportIsReal(d)'
        BY <2>4, <2>5 DEF ReportIsReal
      <3>2. QED
        BY <1>2, <2>1, <2>3, <3>1
    <2>6. CASE /\ worker'[d].phase = "closing" /\ worker'[d].ok
               /\ worker'[d].finished = Len(Steps(kind[d]))
      <3>1. ReportIsReal(d)'
        BY <2>1, <2>6 DEF ReportIsReal, Ended
      <3>2. QED
        BY <1>2, <2>1, <2>3, <3>1
    <2>7. QED
      BY <2>2, <2>5, <2>6 DEF WorkerEffect
  <1>5. ASSUME NEW d \in Ids, WorkerClose(d) \/ WorkerReport(d)
        PROVE  \A e \in Ids : ReportIsReal(e)'
    <2>1. UNCHANGED <<kind, progressChan, finals>>
      BY <1>5 DEF WorkerClose, WorkerReport
    <2>2. /\ worker'[d].phase \in {"reporting", "done"}
          /\ worker'[d].ok = worker[d].ok /\ worker'[d].finished = worker[d].finished
          /\ \A e \in Ids \ {d} : worker'[e] = worker[e]
      BY <1>0, <1>5 DEF TypeOK, WorkerClose, WorkerReport
    <2>3. ReportIsReal(d)'
      BY <1>0, <2>1, <2>2 DEF ReportIsReal, Ended, Queued, EventType
    <2>4. QED
      BY <1>2, <2>1, <2>2, <2>3
  <1>6. ASSUME NEW d \in Ids, LoopProgress(d) PROVE \A e \in Ids : ReportIsReal(e)'
    <2>1. UNCHANGED <<kind, worker>>
      BY <1>6 DEF LoopProgress
    <2>2. PICK type \in {"progress", "complete", "error"} :
            /\ \A e \in Ids \ {d} : progressChan'[e] = progressChan[e]
            /\ Queued(d, type)
            /\ \A t : Queued(d, t)' => Queued(d, t)
            /\ finals' = [finals EXCEPT ![d] = @ \cup ({type} \ {"progress"})]
      BY <1>0, <1>6, LoopProgressEffect
    <2>3. /\ \A e \in Ids \ {d} : finals'[e] = finals[e]
          /\ finals'[d] = finals[d] \cup ({type} \ {"progress"})
      BY <1>0, <2>2 DEF TypeOK
    <2>4. "complete" \in finals'[d] \/ Queued(d, "complete")'
            => "complete" \in finals[d] \/ Queued(d, "complete")
      <3>1. "complete" \in finals'[d] => "complete" \in finals[d] \/ type = "complete"
        BY <2>3
      <3>2. QED
        BY <2>2, <3>1, Zenon
    <2>5. ReportIsReal(d)'
      BY <1>0, <2>1, <2>4 DEF ReportIsReal, Ended
    <2>6. QED
      BY <1>2, <2>1, <2>2, <2>3, <2>5
  <1>7. ASSUME NEW d \in Ids, UNCHANGED <<kind, worker, progressChan>>,
               finals' = [finals EXCEPT ![d] = @ \cup {"error"}]
        PROVE  \A e \in Ids : ReportIsReal(e)'
    <2>1. \A e \in Ids : "complete" \in finals'[e] <=> "complete" \in finals[e]
      BY <1>0, <1>7 DEF TypeOK
    <2>2. QED
      BY <1>0, <1>7, <2>1 DEF ReportIsReal, Ended, Queued, EventType
  <1>8. ASSUME NEW d \in Ids, LoopClosed(d) \/ LoopResult(d) \/ LoopTimeout(d)
        PROVE  \A e \in Ids : ReportIsReal(e)'
    <2>1. UNCHANGED <<kind, worker, progressChan>>
      BY <1>8 DEF LoopClosed, LoopResult, LoopTimeout
    <2>2. UNCHANGED finals \/ finals' = [finals EXCEPT ![d] = @ \cup {"error"}]
      BY <1>8 DEF LoopClosed, LoopResult, LoopTimeout, GiveUp
    <2>3. QED
      BY <1>1, <1>7, <2>1, <2>2
  <1>9. ASSUME NEW d \in Ids, StartDeployment(d) \/ Receive(d) \/ Dismiss(d)
        PROVE  \A e \in Ids : ReportIsReal(e)'
    BY <1>1, <1>9 DEF StartDeployment, Receive, Dismiss
  <1>10. ASSUME Reload \/ Disconnect PROVE \A e \in Ids : ReportIsReal(e)'
    BY <1>1, <1>10 DEF Reload, Disconnect, LoseConnection
  <1>11. ASSUME UNCHANGED vars PROVE \A e \in Ids : ReportIsReal(e)'
    BY <1>1, <1>11 DEF vars
  <1>12. QED
    BY <1>3, <1>4, <1>5, <1>6, <1>8, <1>9, <1>10, <1>11 DEF Next, Worker, performDeployment

LEMMA ShownWasSentStep ==
  ASSUME DeploymentInv, [Next]_vars
  PROVE  \A d \in Ids : ShownWasSent(d)'
  <1>0. TypeOK /\ \A d \in Ids : ShownWasSent(d)
    BY Halves DEF DeploymentInv
  <1> USE DEF requestVars, workerVars, pageVars, linkVars
  <1>1. ASSUME \A e \in Ids : deployments'[e].status = "success" =>
                 deployments[e].status = "success" \/ OnItsWay(e, "complete"),
               \A e \in Ids : OnItsWay(e, "complete")' =>
                 OnItsWay(e, "complete") \/ "complete" \in finals'[e],
               \A e \in Ids : "complete" \in finals[e] => "complete" \in finals'[e]
        PROVE  \A e \in Ids : ShownWasSent(e)'
    BY <1>0, <1>1 DEF ShownWasSent
  <1>2. ASSUME UNCHANGED <<wire, deployments>>,
               \A e \in Ids : "complete" \in finals[e] => "complete" \in finals'[e]
        PROVE  \A e \in Ids : ShownWasSent(e)'
    BY <1>1, <1>2 DEF OnItsWay
  <1>3. ASSUME NEW d \in Ids, HandleDeployIG(d) PROVE \A e \in Ids : ShownWasSent(e)'
    <2>1. \A t \in {"response", "rejection"} : [type |-> t, progress |-> 0] \in Messages
      BY DEF Messages
    <2>2. ASSUME NEW t \in {"response", "rejection"}, send(d, t, 0)
          PROVE  \A e \in Ids : OnItsWay(e, "complete")' => OnItsWay(e, "complete")
      BY <1>0, <2>1, <2>2, SendEffect DEF TypeOK
    <2>3. \A e \in Ids : OnItsWay(e, "complete")' => OnItsWay(e, "complete")
      BY <1>3, <2>2 DEF HandleDeployIG
    <2>4. UNCHANGED <<deployments, finals>>
      BY <1>3 DEF HandleDeployIG
    <2>5. QED
      BY <1>1, <2>3, <2>4
  <1>4. ASSUME NEW d \in Ids, LoopProgress(d) PROVE \A e \in Ids : ShownWasSent(e)'
    <2>1. PICK type \in {"progress", "complete", "error"} :
            /\ finals' = [finals EXCEPT ![d] = @ \cup ({type} \ {"progress"})]
            /\ \A e \in Ids : OnItsWay(e, "complete")' =>
                 OnItsWay(e, "complete") \/ (e = d /\ type = "complete")
      BY <1>0, <1>4, LoopProgressEffect
    <2>2. /\ \A e \in Ids : "complete" \in finals[e] => "complete" \in finals'[e]
          /\ type = "complete" => "complete" \in finals'[d]
      BY <1>0, <2>1 DEF TypeOK
    <2>3. UNCHANGED deployments
      BY <1>4 DEF LoopProgress
    <2>4. QED
      BY <1>1, <2>1, <2>2, <2>3
  <1>5. ASSUME NEW d \in Ids, GiveUp(d), UNCHANGED deployments
        PROVE  \A e \in Ids : ShownWasSent(e)'
    <2>1. \A e \in Ids : "complete" \in finals[e] => "complete" \in finals'[e]
      BY <1>0, <1>5 DEF TypeOK, GiveUp
    <2>2. QED
      BY <1>0, <1>1, <1>5, <2>1, GiveUpEffect
  <1>6. ASSUME NEW d \in Ids, LoopClosed(d) \/ LoopResult(d) \/ LoopTimeout(d)
        PROVE  \A e \in Ids : ShownWasSent(e)'
    <2>1. UNCHANGED deployments /\ (GiveUp(d) \/ UNCHANGED <<wire, finals>>)
      BY <1>6 DEF LoopClosed, LoopResult, LoopTimeout
    <2>2. QED
      BY <1>2, <1>5, <2>1
  <1>7. ASSUME NEW d \in Ids, Receive(d) PROVE \A e \in Ids : ShownWasSent(e)'
    <2>1. UNCHANGED finals
      BY <1>7 DEF Receive
    <2>2. QED
      BY <1>0, <1>1, <1>7, <2>1, ReceiveEffect
  <1>8. ASSUME NEW d \in Ids, Dismiss(d) PROVE \A e \in Ids : ShownWasSent(e)'
    <2>1. UNCHANGED <<wire, finals>>
      BY <1>8 DEF Dismiss
    <2>2. \A e \in Ids : deployments'[e].status = "success" => deployments[e].status = "success"
      BY <1>0, <1>8 DEF Dismiss, Absent, TypeOK
    <2>3. QED
      BY <1>1, <2>1, <2>2 DEF OnItsWay
  <1>9. ASSUME NEW d \in Ids,
               StartDeployment(d) \/ WorkerStep(d) \/ WorkerClose(d) \/ WorkerReport(d)
        PROVE  \A e \in Ids : ShownWasSent(e)'
    BY <1>2, <1>9 DEF StartDeployment, WorkerStep, WorkerClose, WorkerReport
  <1>10. ASSUME Reload \/ Disconnect PROVE \A e \in Ids : ShownWasSent(e)'
    <2>1. \A e \in Ids : wire'[e] = <<>>
      BY <1>10 DEF Reload, Disconnect, LoseConnection
    <2>2. \/ \A e \in Ids : deployments'[e].status = "absent"
          \/ UNCHANGED deployments
      BY <1>10 DEF Reload, Disconnect, Absent
    <2>3. UNCHANGED finals
      BY <1>10 DEF Reload, Disconnect
    <2>4. QED
      BY <1>0, <2>1, <2>2, <2>3 DEF ShownWasSent, OnItsWay
  <1>11. ASSUME UNCHANGED vars PROVE \A e \in Ids : ShownWasSent(e)'
    BY <1>2, <1>11 DEF vars
  <1>12. QED
    BY <1>3, <1>4, <1>6, <1>7, <1>8, <1>9, <1>10, <1>11 DEF Next, Worker, performDeployment

-----------------------------------------------------------------------------

LEMMA InitInv == Init => DeploymentInv
  <1> SUFFICES ASSUME Init PROVE DeploymentInv
    OBVIOUS
  <1>1. TypeOK
    BY DeploymentAssumption DEF Init, TypeOK, Absent
  <1>2. AskedFirst
    BY DEF Init, AskedFirst
  <1>3. ASSUME NEW d \in Ids PROVE ~Ended(d) /\ ~Queued(d, "complete")
    <2>1. worker[d].phase = "none" /\ progressChan[d] = <<>>
      BY DEF Init
    <2>2. QED
      BY <2>1 DEF Ended, Queued
  <1>4. ReportsFit /\ OutcomeKnown /\ CompletionIsReal /\ FinalEventSent
    BY <1>3 DEF Init, ReportsFit, OutcomeKnown, CompletionIsReal, FinalEventSent, Absent
  <1>5. QED
    BY <1>1, <1>2, <1>4 DEF DeploymentInv

\* The inductive invariant holds of every behaviour.
THEOREM Invariance == Spec => []DeploymentInv
  <1>1. ASSUME DeploymentInv, [Next]_vars PROVE DeploymentInv'
    <2>1. CompletionIsReal'
      <3>1. \A d \in Ids : ReportIsReal(d)' /\ ShownWasSent(d)'
        BY <1>1, ReportIsRealStep, ShownWasSentStep
      <3>2. CompletionIsReal' <=> \A d \in Ids : ReportIsReal(d)' /\ ShownWasSent(d)'
        BY DEF CompletionIsReal, ReportIsReal, ShownWasSent, OnItsWay
      <3>3. QED
        BY <3>1, <3>2
    <2>2. QED
      BY <1>1, <2>1, TypeStep, AskedFirstStep, ReportsFitStep, OutcomeKnownStep,
         FinalEventSentStep DEF DeploymentInv
  <1>2. QED
    BY <1>1, InitInv, PTL DEF Spec

\* The variables of a deployment have their types, and no report lacks a progress.
THEOREM TypeCorrect == Spec => []TypeOK
  <1>1. DeploymentInv => TypeOK
    BY DEF DeploymentInv
  <1>2. QED
    BY <1>1, Invariance, PTL

\* performDeployment never returns without having sent a final event.
THEOREM NoSilentEnd == Spec => []FinalEventSent
  <1>1. DeploymentInv => FinalEventSent
    BY DEF DeploymentInv
  <1>2. QED
    BY <1>1, Invariance, PTL

\* No completion is sent and no success shown for an operation that failed or
\* is not over.
THEOREM NoFalseSuccess == Spec => []SuccessIsReal
  <1>1. DeploymentInv => SuccessIsReal
    BY DEF DeploymentInv, CompletionIsReal, SuccessIsReal
  <1>2. QED
    BY <1>1, Invariance, PTL

\* A late event revives no entry that was dismissed or belongs to an earlier page.
THEOREM NoRevival == Spec => DismissedStaysGone
  <1> DEFINE Stays(d) ==
        /\ request[d] \in {"accepted", "rejected"}
        /\ deployments[d].status = "absent"
        /\ \A n \in DOMAIN wire[d] : wire[d][n].type # "response"
        => deployments'[d].status = "absent"
  <1>1. ASSUME TypeOK, [Next]_vars, NEW d \in Ids, deployments[d].status = "absent",
               \A n \in DOMAIN wire[d] : wire[d][n].type # "response"
        PROVE  deployments'[d].status = "absent"
    <2> USE DEF requestVars, workerVars, pageVars, linkVars
    <2>1. ASSUME NEW e \in Ids, Receive(e) PROVE deployments'[d].status = "absent"
      <3> DEFINE m == Head(wire[e])
      <3>1. /\ m \in Messages /\ m = wire[e][1] /\ 1 \in DOMAIN wire[e]
        <4>1. wire[e] # <<>> /\ wire[e] \in Seq(Messages)
          BY <1>1, <2>1 DEF Receive, TypeOK
        <4>2. QED
          BY <4>1, TailElements
      <3>2. Shown(e, m)
        BY <2>1 DEF Receive
      <3>3. m.type \in {"response", "rejection", "progress", "complete", "error"}
        BY <3>1 DEF Messages
      <3>4. deployments \in [Ids -> [status : {"absent", "deploying", "success", "error"},
                                     progress : 0 .. 100]]
        BY <1>1 DEF TypeOK
      <3>5. CASE m.type = "response"
        <4>1. e # d
          BY <1>1, <3>1, <3>5
        <4>2. QED
          BY <1>1, <3>2, <3>4, <3>5, <4>1 DEF Shown
      <3>6. CASE m.type = "rejection"
        BY <1>1, <3>2, <3>4, <3>6 DEF Shown, Updated
      <3>7. CASE m.type = "progress"
        BY <1>1, <3>2, <3>4, <3>7 DEF Shown, Updated
      <3>8. CASE m.type = "complete"
        BY <1>1, <3>2, <3>4, <3>8 DEF Shown, Updated
      <3>9. CASE m.type = "error"
        BY <1>1, <3>2, <3>4, <3>9 DEF Shown, Updated
      <3>10. QED
        BY <3>3, <3>5, <3>6, <3>7, <3>8, <3>9
    <2>2. ASSUME NEW e \in Ids, Dismiss(e) PROVE deployments'[d].status = "absent"
      BY <1>1, <2>2 DEF Dismiss, Absent, TypeOK
    <2>3. ASSUME Reload \/ Disconnect PROVE deployments'[d].status = "absent"
      BY <1>1, <2>3 DEF Reload, Disconnect, LoseConnection, Absent
    <2>4. ASSUME UNCHANGED deployments PROVE deployments'[d].status = "absent"
      BY <1>1, <2>4
    <2>5. ASSUME NEW e \in Ids,
                 StartDeployment(e) \/ HandleDeployIG(e) \/ Worker(e) \/ performDeployment(e)
          PROVE  UNCHANGED deployments
      BY <2>5 DEF StartDeployment, HandleDeployIG, Worker, WorkerStep, WorkerClose, WorkerReport,
                  performDeployment, LoopProgress, LoopClosed, LoopResult, LoopTimeout
    <2>6. UNCHANGED vars => UNCHANGED deployments
      BY DEF vars
    <2>7. QED
      BY <1>1, <2>1, <2>2, <2>3, <2>4, <2>5, <2>6 DEF Next
  <1>2. TypeOK /\ [Next]_vars => [\A d \in Ids : Stays(d)]_vars
    BY <1>1
  <1>3. QED
    BY <1>2, TypeCorrect, PTL DEF Spec, DismissedStaysGone

=============================================================================
