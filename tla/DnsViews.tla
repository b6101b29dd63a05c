------------------------------- MODULE DnsViews -------------------------------
(* The DNS map on a live gadget: the correlation is computed again when events *)
(* come, when a deadline passes and when the tab returns                       *)
(* (utils/dns/useDnsCorrelation.svelte.ts), its rows are grouped into          *)
(* workloads and resolvers (dnsMapGraph.ts) and the layout of the map is kept  *)
(* while its topology is the same (visualizers/dns/DnsNetwork.svelte).         *)
(* A tick of the clock is the refresh interval of 100 ms.                      *)
EXTENDS DnsCorrelation

CONSTANTS Packets,    \* raw events; `time' says how long ago they were captured
          Retained,   \* capacity of the ring buffer
          MaxPackets, \* bound: packets that come
          MaxTime     \* bound: the last tick at which packets come

VARIABLES packets,    \* the ring buffer, newest first
          arrived,    \* number of packets so far, the next msgID
          clock,      \* Date.now()
          isRunning, isActiveTab,
          result,     \* what the views show
          lastRefresh,            \* None: never, or the tab was hidden
          refreshAt, sweepAt,     \* when the timers are due, None: not set
          namespaceFilter,        \* None: all namespaces
          cached      \* the layout kept, with its topology

dnsVars == <<packets, arrived, clock, isRunning, isActiveTab, result, lastRefresh,
             refreshAt, sweepAt, namespaceFilter, cached>>

LastTick == MaxTime + timeoutMs + 1   \* every deadline is before it
Infinity == LastTick + timeoutMs      \* later than any deadline
EmptyResult == [transactions |-> <<>>, pendingCount |-> 0, nextDeadline |-> None]

-----------------------------------------------------------------------------
(* dnsMapGraph.ts: who asked whom *)

Full(meta) == meta # None /\ meta.ns # None /\ meta.pod # None

\* The newest full identity of the rows with this address: rows whose own
\* capture did not tell the requester borrow it.
resolveRequesterIdentity(rows, row) ==
  LET known == Among(rows, {r \in ToSet(rows) : r.requester = row.requester /\ Full(r.requesterMeta)})
  IN IF Full(row.requesterMeta) \/ known = <<>> THEN row.requesterMeta ELSE known[1].requesterMeta

computeWorkloadKey(meta, address) ==
  IF Full(meta) THEN <<"pod", meta.ns, meta.pod>>
  ELSE IF meta # None /\ meta.netns # None THEN <<"netns", meta.netns>>
  ELSE <<"address", address>>

NamespaceOf(meta) == IF meta = None THEN None ELSE meta.ns

\* The enrichment of the capture sets namespace and pod together.
ASSUME DnsAssumption ==
  /\ Retained \in Nat /\ None \notin Nat
  /\ \A p \in Packets : "meta" \in DOMAIN p /\ (Full(p.meta) \/ NamespaceOf(p.meta) = None)

\* the ids of these rows, newest first, and their severities
DataOf(rows) ==
  LET own == sortNewestFirst(rows)
  IN [ids |-> [n \in DOMAIN own |-> own[n].id], counts |-> summarizeDnsSeverity(own)]

\* The workloads, resolvers and edges of these rows, each with its rows' data;
\* a resolver has the first reference a row knows.
buildDnsMapModel(rows) ==
  LET all == ToSet(rows)
      identity == [row \in all |-> resolveRequesterIdentity(rows, row)]
      workload == [row \in all |-> computeWorkloadKey(identity[row], row.requester)]
      WorkloadRows(w) == Among(rows, {row \in all : workload[row] = w})
      ResolverRows(r) == Among(rows, {row \in all : row.nameserver = r})
      References(r) == Among(rows, {row \in all : row.nameserver = r /\ row.resolverK8s # None})
      EdgeRows(e) == Among(rows, {row \in all : <<workload[row], row.nameserver>> = e})
  IN [workloads |-> {[key |-> w, data |-> DataOf(WorkloadRows(w)),
                      namespace |-> NamespaceOf(identity[WorkloadRows(w)[1]])]
                       : w \in {workload[row] : row \in all}},
      resolvers |-> {[key |-> r, data |-> DataOf(ResolverRows(r)),
                      k8s |-> IF References(r) = <<>> THEN None ELSE References(r)[1].resolverK8s]
                       : r \in {row.nameserver : row \in all}},
      edges |-> {[workload |-> e[1], resolver |-> e[2], data |-> DataOf(EdgeRows(e))]
                   : e \in {<<workload[row], row.nameserver>> : row \in all}}]

\* The place of a resolver in the list: by its reference, then by its address.
PlaceOf(resolver, model) ==
  LET Unnamed(r) == IF r.k8s = None THEN 1 ELSE 0
      Before(a, b) == Unnamed(a) < Unnamed(b) \/ (Unnamed(a) = Unnamed(b) /\ a.key < b.key)
  IN Cardinality({r \in model.resolvers : Before(r, resolver)})

\* the namespaces to choose from: that of each workload's first row
extractDnsMapNamespaces(rows) ==
  LET all == ToSet(rows)
      identity == [row \in all |-> resolveRequesterIdentity(rows, row)]
      workload == [row \in all |-> computeWorkloadKey(identity[row], row.requester)]
      FirstWith(w) == Among(rows, {row \in all : workload[row] = w})[1]
  IN {NamespaceOf(identity[FirstWith(workload[row])]) : row \in all} \ {None}

filterByOwnNamespace(rows, namespace) ==
  IF namespace = None THEN rows
  ELSE Among(rows, {row \in ToSet(rows) : NamespaceOf(row.requesterMeta) = namespace})
filterTransactionsByNamespace(rows, namespace) ==
  IF namespace = None THEN rows
  ELSE Among(rows, {row \in ToSet(rows) : NamespaceOf(resolveRequesterIdentity(rows, row)) = namespace})

filterDnsMapModelIssuesOnly(model) ==
  LET edges == {e \in model.edges : e.data.counts.severity \in {"warning", "error"}}
  IN [edges |-> edges,
      workloads |-> {w \in model.workloads : \E e \in edges : e.workload = w.key},
      resolvers |-> {r \in model.resolvers : \E e \in edges : e.resolver = r.key}]

-----------------------------------------------------------------------------
(* The layout: a workload in the group of its namespace, a resolver at its    *)
(* place in the list.                                                         *)

dnsMapTopologyKey(model) ==
  [workloads |-> {<<w.namespace, w.key>> : w \in model.workloads},
   resolvers |-> {r.key : r \in model.resolvers},
   edges |-> {<<e.workload, e.resolver>> : e \in model.edges}]

layoutDnsMapModel(model) ==
  [workloads |-> {[group |-> w.namespace, node |-> w.key, shows |-> w] : w \in model.workloads},
   resolvers |-> {[place |-> PlaceOf(r, model), node |-> r.key, shows |-> r] : r \in model.resolvers},
   edges |-> model.edges]

\* new data for the nodes that are there, found by their key
refreshByIndex(layout, model) ==
  [workloads |-> {[w EXCEPT !.shows = CHOOSE m \in model.workloads : m.key = w.node] : w \in layout.workloads},
   resolvers |-> {[r EXCEPT !.shows = CHOOSE m \in model.resolvers : PlaceOf(m, model) = r.place]
                    : r \in layout.resolvers},
   edges |-> model.edges]
refreshDnsMapLayoutData(layout, model) ==
  [workloads |-> {[w EXCEPT !.shows = CHOOSE m \in model.workloads : m.key = w.node] : w \in layout.workloads},
   resolvers |-> {[r EXCEPT !.shows = CHOOSE m \in model.resolvers : m.key = r.node] : r \in layout.resolvers},
   edges |-> model.edges]

filterDnsMapLayout(layout, model) ==
  [workloads |-> {w \in layout.workloads : \E m \in model.workloads : m.key = w.node},
   resolvers |-> {r \in layout.resolvers : \E m \in model.resolvers : m.key = r.node},
   edges |-> {e \in layout.edges : \E m \in model.edges : m.workload = e.workload /\ m.resolver = e.resolver}]

\* the map of these rows, drawn again only when its topology is another
FullModel(rows, namespace) == buildDnsMapModel(filterTransactionsByNamespace(rows, namespace))
Drawn(model) ==
  [topology |-> dnsMapTopologyKey(model),
   layout |-> IF cached # None /\ cached.topology = dnsMapTopologyKey(model)
              THEN refreshDnsMapLayoutData(cached.layout, model) ELSE layoutDnsMapModel(model)]

Show(shown, namespace) ==
  /\ result' = shown
  /\ namespaceFilter' = namespace
  /\ cached' = Drawn(FullModel(shown.transactions, namespace))
Same == UNCHANGED <<result, namespaceFilter, cached>>

-----------------------------------------------------------------------------
(* useDnsCorrelation.svelte.ts.  `ring', `run' and `at' are the new events, run *)
(* state and time an effect sees.                                              *)

\* After the gadget stopped nothing is waited for: now is infinite.
recompute(ring, run, at) ==
  LET new == computeDnsCorrelation(ring, IF run THEN at ELSE Infinity)
  IN /\ Show(new, namespaceFilter)
     /\ refreshAt' = None
     /\ lastRefresh' = at
     /\ sweepAt' = IF run THEN new.nextDeadline ELSE None

clearTimers == refreshAt' = None /\ sweepAt' = None

\* at most one refresh per interval
scheduleLeadingOnly(ring, run, at) ==
  IF lastRefresh = None \/ at > lastRefresh THEN recompute(ring, run, at)
  ELSE UNCHANGED <<lastRefresh, refreshAt, sweepAt>> /\ Same
scheduleRecompute(ring, run, at) ==
  IF lastRefresh = None \/ at > lastRefresh THEN recompute(ring, run, at)
  ELSE /\ refreshAt' = IF refreshAt = None THEN lastRefresh + 1 ELSE refreshAt
       /\ UNCHANGED <<lastRefresh, sweepAt>>
       /\ Same

\* the effect on the number of events, the run state and the tab
Effect(ring, run, tab) ==
  IF ~tab THEN clearTimers /\ lastRefresh' = None /\ Same
  ELSE IF ~run \/ lastRefresh = None THEN recompute(ring, run, clock)
  ELSE scheduleRecompute(ring, run, clock)

DnsInit ==
  /\ packets = <<>> /\ arrived = 0 /\ clock = 0
  /\ isRunning = TRUE /\ isActiveTab = TRUE
  /\ result = EmptyResult /\ lastRefresh = 0
  /\ refreshAt = None /\ sweepAt = None
  /\ namespaceFilter = None /\ cached = None

\* a packet, captured now or a while ago, is stored; the oldest may go
Arrive ==
  /\ arrived < MaxPackets /\ clock <= MaxTime
  /\ \E p \in Packets :
       LET event == [p EXCEPT !.time = clock - @, !.msgID = arrived]
           ring  == SubSeq(<<event>> \o packets, 1, IF Len(packets) < Retained THEN Len(packets) + 1 ELSE Retained)
       IN packets' = ring /\ Effect(ring, isRunning, isActiveTab)
  /\ arrived' = arrived + 1
  /\ UNCHANGED <<clock, isRunning, isActiveTab>>

GadgetStops ==
  /\ isRunning
  /\ isRunning' = FALSE
  /\ Effect(packets, FALSE, isActiveTab)
  /\ UNCHANGED <<packets, arrived, clock, isActiveTab>>

SwitchTab ==
  /\ isActiveTab' = ~isActiveTab
  /\ Effect(packets, isRunning, ~isActiveTab)
  /\ UNCHANGED <<packets, arrived, clock, isRunning>>

Due(timer) == timer # None /\ clock >= timer

RefreshTimer ==
  /\ Due(refreshAt)
  /\ recompute(packets, isRunning, clock)
  /\ UNCHANGED <<packets, arrived, clock, isRunning, isActiveTab>>

\* The sweep's callback looks at the tab first; its own handle stays behind.
SweepTimer ==
  /\ Due(sweepAt)
  /\ IF clock > lastRefresh THEN recompute(packets, isRunning, clock)
     ELSE /\ refreshAt' = IF refreshAt = None THEN lastRefresh + 1 ELSE refreshAt
          /\ sweepAt' = None
          /\ UNCHANGED lastRefresh /\ Same
  /\ UNCHANGED <<packets, arrived, clock, isRunning, isActiveTab>>

\* The select offers the namespaces of all rows.
FilterNamespace ==
  /\ \E namespace \in extractDnsMapNamespaces(result.transactions) \cup {None} :
       namespace # namespaceFilter /\ Show(result, namespace)
  /\ UNCHANGED <<packets, arrived, clock, isRunning, isActiveTab, lastRefresh, refreshAt, sweepAt>>

Tick ==
  /\ clock < LastTick /\ clock' = clock + 1
  /\ UNCHANGED <<packets, arrived, isRunning, isActiveTab, result, lastRefresh, refreshAt, sweepAt,
                 namespaceFilter, cached>>

DnsNext == Arrive \/ GadgetStops \/ SwitchTab \/ RefreshTimer \/ SweepTimer \/ FilterNamespace \/ Tick
\* The browser calls a timer that is due.  Its step leaves it not due, so this is
\* weak fairness of the two timers, said without ENABLED.
DnsFairness == []<>~Due(refreshAt) /\ []<>~Due(sweepAt) /\ WF_dnsVars(Tick)
DnsSpec == DnsInit /\ [][DnsNext]_dnsVars /\ DnsFairness

-----------------------------------------------------------------------------
\* The rows are what the packets retained say, packet by packet: requests of one
\* exchange are one row with all its attempts, a response answers the exchange
\* before it and no other, what is past its deadline is a timeout and the rest
\* is pending (dnsCorrelator.ts:500-721).
CorrelationAgrees ==
  LET computed == computeDnsCorrelation(packets, clock)
      P == ParsedOf(packets)
      expected == Expected(P, clock)
      TimeOf(i) == IF i = None THEN None ELSE P[i].time
      FirstOf(S) == IF S = {} THEN None ELSE P[CHOOSE i \in S : \A j \in S : i <= j].time
      Brief(row) == [state |-> row.state, attempts |-> row.attempts, first |-> row.first,
                     response |-> IF row.state = "ambiguous" THEN None ELSE row.responseTime]
  IN /\ Len(computed.transactions) = Cardinality(expected.rows)
     /\ {Brief(row) : row \in ToSet(computed.transactions)} =
          {[state |-> row.state, attempts |-> row.attempts, first |-> FirstOf(row.asked),
            response |-> IF row.state = "ambiguous" THEN None ELSE TimeOf(row.response)]
             : row \in expected.rows}
     /\ computed.pendingCount = Cardinality(expected.waiting)

\* The namespace filter, applied to the rows before they are grouped, shows the
\* groups of that namespace as the unfiltered map has them, with the same counts:
\* both decide the same way whose a row is that was captured elsewhere
\* (dnsMapGraph.ts:365-382).
FilterAgreesWithGroups ==
  LET rows == result.transactions
      groups == FullModel(rows, None).workloads
  IN \A namespace \in extractDnsMapNamespaces(rows) :
       FullModel(rows, namespace).workloads = {w \in groups : w.namespace = namespace}

\* A layout that is kept shows what the rows say now: every node and edge of the
\* model and no other, with that node's own counts, in the group of its
\* namespace; filtered for issues it still shows all of them
\* (dnsMapGraph.ts:349-363, 555-651, DnsNetwork.svelte:105-117).
MapIsCurrent ==
  cached # None =>
    LET model  == FullModel(result.transactions, namespaceFilter)
        issues == filterDnsMapLayout(cached.layout, filterDnsMapModelIssuesOnly(model))
    IN /\ cached.layout.workloads =
            {[group |-> w.namespace, node |-> w.key, shows |-> w] : w \in model.workloads}
       /\ {[node |-> r.node, shows |-> r.shows] : r \in cached.layout.resolvers} =
            {[node |-> r.key, shows |-> r] : r \in model.resolvers}
       /\ cached.layout.edges = model.edges
       /\ \A e \in model.edges : e.data.counts.severity \in {"warning", "error"} =>
            /\ e \in issues.edges
            /\ \E w \in issues.workloads : w.node = e.workload
            /\ \E r \in issues.resolvers : r.node = e.resolver

\* Whatever order events, timers and the tab come in, a view that is looked at
\* comes to show what the packets and the clock say; in particular a timeout
\* appears without another packet (useDnsCorrelation.svelte.ts:79-150).
ViewCatchesUp ==
  []<>(~isActiveTab \/ result = computeDnsCorrelation(packets, IF isRunning THEN clock ELSE Infinity))
=============================================================================
