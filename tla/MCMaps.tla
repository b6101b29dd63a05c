-------------------------------- MODULE MCMaps --------------------------------
(* The two maps of a gadget, which share no state.  The run explores each by  *)
(* itself; the other keeps its initial state.                                 *)
EXTENDS DnsViews, NetworkMap

VARIABLE part  \* the map that is explored

mapsVars == <<dnsVars, mapVars, part>>

MapsInit ==
  /\ part \in {"dns", "network"}
  /\ DnsInit /\ MapInit

MapsNext ==
  \/ part = "dns" /\ UNCHANGED <<mapVars, part>> /\ DnsNext
  \/ part = "network" /\ UNCHANGED <<dnsVars, part>> /\ MapNext

\* The fairness of DnsViews, when it is explored.
MapsSpec ==
  /\ MapsInit /\ [][MapsNext]_mapsVars
  /\ []<>~Due(refreshAt) /\ []<>~Due(sweepAt)
  /\ WF_dnsVars(part = "dns" /\ Tick)

-----------------------------------------------------------------------------
\* DNS: two pods of two namespaces at addresses 1 and 2, resolvers 8 and 9, and
\* multicast at 5.  Pod 1's traffic with 8 is captured at the pod, with 9
\* without an identity; resolver 9 tells its name in a response only,
\* which is delivered late.
PodOf(n) == [ns |-> n, pod |-> n, netns |-> None]
From(qr, src, dst, pkt, meta) ==
  [qr |-> qr, q |-> 1, src |-> src, dst |-> dst, pkt |-> pkt, meta |-> meta, time |-> 0, msgID |-> 0,
   rcode |-> None, srcK8s |-> None, dstK8s |-> None]
SomePackets ==
  {From("Q", 1, 9, 4, PodOf(1)),
   From("Q", 1, 8, None, None),
   [From("R", 8, 1, None, None) EXCEPT !.rcode = "nxdomain"],
   From("Q", 2, 9, 4, PodOf(2)),
   [From("R", 9, 1, 0, PodOf(1)) EXCEPT !.time = 1, !.srcK8s = 9, !.rcode = "servfail"],
   From("Q", 1, 5, 4, None)}

\* The network map: a client of a service in another namespace, its answer, a
\* second client port that differs only when ephemeral ports are kept apart, and
\* local traffic of one pod in the client's namespace that talks to itself.
Event(src, dst, srcPort, dstPort) ==
  [src |-> src, dst |-> dst, shared |-> "a", srcPort |-> srcPort, dstPort |-> dstPort, proto |-> "TCP"]
At(key, addr) == [key |-> key, addr |-> addr]
Client == At("a", "client")
Server == At("b", "server")
Self == At("", "localhost")
SomeConnections == {Event(Client, Server, 8, 1), Event(Server, Client, 1, 8),
                    Event(Client, Server, 9, -1), Event(Self, Self, 9, 2)}
SomeSnapshots == {<<Event(Client, Server, 8, 1)>>, <<Event(Self, Self, 9, 2), Event(Server, Client, 1, 8)>>}
=============================================================================
