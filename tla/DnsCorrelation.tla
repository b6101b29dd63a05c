---------------------------- MODULE DnsCorrelation ----------------------------
(* What the DNS views make of the packets of trace_dns                        *)
(* (frontend/src/lib/utils/dns/dnsCorrelator.ts, dnsSeverity.ts): requests and *)
(* responses are normalised, deduplicated, sorted by their time and paired     *)
(* into transactions; what stays unanswered past its deadline is a timeout.    *)
(* Addresses stand for address and port, `q' for DNS id, name and type.        *)
EXTENDS Integers, Sequences, FiniteSets, SequencesExt

CONSTANTS Multicast,  \* the multicast and broadcast addresses
          Timeout,    \* response timeout; 0 stands for one that is not positive
          DefaultTimeout,
          None        \* an absent field

-----------------------------------------------------------------------------
(* One raw event *)

\* A packet whose direction, id, name or addresses are missing is ignored.
Usable(e) == e.qr \in {"Q", "R"} /\ e.q # None /\ e.src # None /\ e.dst # None

\* Multicast traffic has no one response to a request.  An outgoing multicast
\* packet has packet type 4, so the addresses decide.
isAmbiguousEvent(e) == e.pkt \in {1, 2} \/ {e.src, e.dst} \cap Multicast # {}

\* whose identity the capture's fields tell: of the host that captured
resolveCaptureOwner(e) ==
  IF e.pkt = None \/ e.pkt = (IF e.qr = "R" THEN 0 ELSE 4)
  THEN "requester" ELSE "resolver"

\* Requests and responses of one exchange have the same key, if one host
\* captured both: the capture's identity is part of it.
parseDnsEvent(e) ==
  LET response  == e.qr = "R"
      requester == IF response THEN e.dst ELSE e.src
      server    == IF response THEN e.src ELSE e.dst
      MetaOf(owner) == IF resolveCaptureOwner(e) = owner THEN e.meta ELSE None
  IN [isResponse |-> response, ambiguous |-> isAmbiguousEvent(e),
      key |-> <<e.meta, requester, server, e.q>>,
      requester |-> requester, nameserver |-> server,
      time |-> e.time, rcode |-> e.rcode,
      requesterMeta |-> MetaOf("requester"), resolverMeta |-> MetaOf("resolver"),
      resolverK8s |-> IF response THEN e.srcK8s ELSE e.dstK8s]

Prefer(primary, secondary) == IF primary # None THEN primary ELSE secondary

\* the entries of a list that are in a set, in their order
Among(list, X) ==
  LET kept[n \in 0 .. Len(list)] ==
        IF n = 0 THEN <<>>
        ELSE IF list[n] \in X THEN Append(kept[n - 1], list[n]) ELSE kept[n - 1]
  IN  kept[Len(list)]

-----------------------------------------------------------------------------
(* All retained events, newest first as the ring buffer has them *)

\* one event per msgID, in the order of their times, then of their numbers
dedupeAndSort(events) ==
  LET After(e, f) == e.time > f.time \/ (e.time = f.time /\ e.msgID > f.msgID)
      Put(list, e) ==
        IF \E i \in DOMAIN list : list[i].msgID = e.msgID THEN list
        ELSE InsertAt(list, 1 + Cardinality({i \in DOMAIN list : ~After(list[i], e)}), e)
      sorted[n \in 0 .. Len(events)] ==
        IF n = 0 THEN <<>> ELSE Put(sorted[n - 1], events[n])
  IN  sorted[Len(events)]

timeoutMs == IF Timeout > 0 THEN Timeout ELSE DefaultTimeout

ParsedOf(events) ==
  LET usable == Among(dedupeAndSort(events), {e \in ToSet(events) : Usable(e)})
  IN [n \in DOMAIN usable |-> parseDnsEvent(usable[n])]

\* a row of the views; `about' is the pending request or the packet it tells of
Transaction(id, state, about, answer) ==
  [id |-> id, state |-> state, requester |-> about.requester,
   nameserver |-> about.nameserver, key |-> about.key,
   first |-> about.first, attempts |-> about.attempts,
   responseTime |-> answer.time, rcode |-> answer.rcode,
   latency |-> IF about.first # None /\ answer.time # None THEN answer.time - about.first
               ELSE None,
   requesterMeta |-> Prefer(about.requesterMeta, answer.requesterMeta),
   resolverMeta |-> Prefer(about.resolverMeta, answer.resolverMeta),
   resolverK8s |-> Prefer(about.resolverK8s, answer.resolverK8s)]

NoAnswer == [time |-> None, rcode |-> None, requesterMeta |-> None,
             resolverMeta |-> None, resolverK8s |-> None]

Unpaired(p, attempts) ==
  [requester |-> p.requester, nameserver |-> p.nameserver, key |-> p.key,
   first |-> IF attempts = 0 THEN None ELSE p.time, attempts |-> attempts,
   requesterMeta |-> p.requesterMeta, resolverMeta |-> p.resolverMeta,
   resolverK8s |-> p.resolverK8s]

\* the state of the loop over the ordered packets: rows, and the pending
\* requests in the order their keys were put into the map
NothingYet == [pending |-> <<>>, rows |-> <<>>]

Ambiguous(acc, p) ==
  [acc EXCEPT !.rows = Append(@, Transaction(<<"ambiguous", p.key, p.time, Len(@)>>, "ambiguous",
     Unpaired(p, IF p.isResponse THEN 0 ELSE 1),
     IF p.isResponse THEN [NoAnswer EXCEPT !.time = p.time, !.rcode = p.rcode]
     ELSE [NoAnswer EXCEPT !.rcode = p.rcode]))]

\* a repeated request moves the deadline of the pending one and counts as retry
Request(acc, p) ==
  LET same == {i \in DOMAIN acc.pending : acc.pending[i].key = p.key}
      new  == [requester |-> p.requester, nameserver |-> p.nameserver, key |-> p.key,
               first |-> p.time, latest |-> p.time, attempts |-> 1,
               deadline |-> p.time + timeoutMs,
               requesterMeta |-> p.requesterMeta, resolverMeta |-> p.resolverMeta,
               resolverK8s |-> p.resolverK8s]
      Retried(r) == [r EXCEPT !.attempts = @ + 1, !.latest = p.time, !.deadline = p.time + timeoutMs,
               !.requesterMeta = Prefer(@, p.requesterMeta),
               !.resolverMeta = Prefer(@, p.resolverMeta), !.resolverK8s = Prefer(@, p.resolverK8s)]
  IN [acc EXCEPT !.pending =
        IF same = {} THEN Append(@, new)
        ELSE [i \in DOMAIN @ |-> IF i \in same THEN Retried(@[i]) ELSE @[i]]]

Response(acc, p) ==
  LET same == {i \in DOMAIN acc.pending : acc.pending[i].key = p.key}
      entry == acc.pending[CHOOSE i \in same : TRUE]
      others == {r \in ToSet(acc.pending) : r.key # p.key}
  IN IF same = {}
     THEN [acc EXCEPT !.rows = Append(@,
             Transaction(<<"orphan", p.key, p.time>>, "orphan-response", Unpaired(p, 0), p))]
     ELSE [pending |-> Among(acc.pending, others),
           rows |-> Append(acc.rows, Transaction(<<p.key, entry.first>>,
             IF p.time > entry.deadline THEN "late-response" ELSE "answered", entry, p))]

\* a retry that replaces the pending request instead of joining it
CorrelatedForgetful(acc, p) ==
  IF p.ambiguous THEN Ambiguous(acc, p)
  ELSE IF p.isResponse THEN Response(acc, p)
  ELSE Request([acc EXCEPT !.pending = Among(@, {r \in ToSet(@) : r.key # p.key})], p)
Correlated(acc, p) ==
  IF p.ambiguous THEN Ambiguous(acc, p)
  ELSE IF p.isResponse THEN Response(acc, p) ELSE Request(acc, p)

primaryTime(row) == Prefer(row.first, row.responseTime)

\* stable: rows of one time keep the order they were found in
sortNewestFirst(rows) ==
  LET Put(list, row) ==
        InsertAt(list, 1 + Cardinality({i \in DOMAIN list : primaryTime(list[i]) >= primaryTime(row)}), row)
      sorted[n \in 0 .. Len(rows)] ==
        IF n = 0 THEN <<>> ELSE Put(sorted[n - 1], rows[n])
  IN  sorted[Len(rows)]

\* the loop over the ordered packets
CorrelationOf(P) ==
  LET done[n \in 0 .. Len(P)] ==
        IF n = 0 THEN NothingYet ELSE Correlated(done[n - 1], P[n])
  IN  done[Len(P)]

\* What still waits for its answer is pending, the rest timed out.
Outcome(acc, now) ==
  LET waiting == Among(acc.pending, {r \in ToSet(acc.pending) : now < r.deadline})
      expired == Among(acc.pending, {r \in ToSet(acc.pending) : now >= r.deadline})
      TimedOut(r) == Transaction(<<"timeout", r.key, r.latest>>, "no-response", r, NoAnswer)
      deadlines == {waiting[i].deadline : i \in DOMAIN waiting}
  IN [transactions |-> sortNewestFirst(acc.rows \o [i \in DOMAIN expired |-> TimedOut(expired[i])]),
      pendingCount |-> Len(waiting),
      nextDeadline |-> IF deadlines = {} THEN None
                       ELSE CHOOSE d \in deadlines : \A o \in deadlines : d <= o]

computeDnsCorrelation(events, now) == Outcome(CorrelationOf(ParsedOf(events)), now)

-----------------------------------------------------------------------------
(* What is wrong with a transaction *)

\* `servfail' stands for the codes 1, 2, 4 and 5, `nxdomain' for 3.  A response
\* is slow from a tenth of the timeout on; a tick is more than that.
Slow(row) == row.latency # None /\ row.latency >= 1
transactionSeverity(row) ==
  IF row.state = "no-response" \/ row.rcode = "servfail" THEN "error"
  ELSE IF row.state = "late-response" \/ row.attempts > 1 \/ Slow(row) THEN "warning"
  ELSE IF row.rcode = "nxdomain" \/ row.state \in {"orphan-response", "ambiguous"} THEN "info"
  ELSE "healthy"

Severities == <<"healthy", "info", "warning", "error">>
Rank(severity) == CHOOSE n \in DOMAIN Severities : Severities[n] = severity
worseSeverity(a, b) == IF Rank(a) >= Rank(b) THEN a ELSE b

\* The buckets of a set of rows, newest first, and the reasons shown for them.
summarizeDnsSeverity(rows) ==
  LET Count(Test(_)) == Cardinality({i \in DOMAIN rows : Test(rows[i])})
      known == {i \in DOMAIN rows : rows[i].latency # None}
  IN [severity |-> FoldLeft(LAMBDA worst, row : worseSeverity(worst, transactionSeverity(row)),
                            "healthy", rows),
      count |-> [s \in ToSet(Severities) |-> Count(LAMBDA row : transactionSeverity(row) = s)],
      timeoutCount |-> Count(LAMBDA row : row.state = "no-response"),
      lateCount |-> Count(LAMBDA row : row.state = "late-response"),
      retryingCount |-> Count(LAMBDA row : row.attempts > 1),
      slowCount |-> Count(Slow),
      serverErrorCount |-> Count(LAMBDA row : row.rcode = "servfail"),
      nxdomainCount |-> Count(LAMBDA row : row.rcode = "nxdomain"),
      recentLatency |-> IF known = {} THEN None
                        ELSE rows[CHOOSE i \in known : \A j \in known : i <= j].latency]

primarySeverityReason(counts) ==
  LET reasons == SelectSeq(<<counts.serverErrorCount, counts.timeoutCount, counts.nxdomainCount,
                   counts.retryingCount, counts.lateCount, counts.slowCount>>, LAMBDA n : n > 0)
  IN IF reasons = <<>> THEN None ELSE Head(reasons)

-----------------------------------------------------------------------------
(* The same, said without a loop *)

\* Requests of one key between two responses are one exchange: the second
\* response answers them, and the last exchange of a key may have none.
Expected(P, now) ==
  LET SameKey(i, j) == P[i].key = P[j].key /\ ~P[i].ambiguous /\ ~P[j].ambiguous
      Between(i, j) == {r \in i + 1 .. j - 1 : SameKey(r, i) /\ P[r].isResponse}
      AskedFor(j) == {i \in 1 .. j - 1 : SameKey(i, j) /\ ~P[i].isResponse /\ Between(i, j) = {}}
      Earliest(S) == CHOOSE i \in S : \A j \in S : i <= j
      Latest(S)  == CHOOSE i \in S : \A j \in S : i >= j
      Deadline(S) == P[Latest(S)].time + timeoutMs
      Open(i) == ~P[i].ambiguous /\ ~P[i].isResponse
                   /\ \A j \in i + 1 .. Len(P) : SameKey(i, j) => ~P[j].isResponse
      Row(state, S, response) ==
        [state |-> state, attempts |-> Cardinality(S), response |-> response, asked |-> S]
      Answer(j) == Row(IF AskedFor(j) = {} THEN "orphan-response"
                       ELSE IF P[j].time > Deadline(AskedFor(j)) THEN "late-response"
                       ELSE "answered", AskedFor(j), j)
      TailOf(i) == {j \in DOMAIN P : SameKey(i, j) /\ Open(j)}
  IN [rows |-> {Answer(j) : j \in {j \in DOMAIN P : P[j].isResponse /\ ~P[j].ambiguous}}
        \cup {Row("ambiguous", IF P[i].isResponse THEN {} ELSE {i}, i)
                : i \in {i \in DOMAIN P : P[i].ambiguous}}
        \cup {Row("no-response", TailOf(i), None)
                : i \in {i \in DOMAIN P : Open(i) /\ now >= Deadline(TailOf(i))}},
      waiting |-> {TailOf(i) : i \in {i \in DOMAIN P : Open(i) /\ now < Deadline(TailOf(i))}}]
=============================================================================
