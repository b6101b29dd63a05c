------------------------------ MODULE NetworkMap ------------------------------
(***************************************************************************)
(* The network map of a gadget: connection events become nodes with        *)
(* handles (a protocol and a port) and edges with counts; a timer lets     *)
(* what is idle fade; the chart lays the nodes out by namespace and keeps  *)
(* what the user dragged (plugins/builtin/visualizers/networkmap,          *)
(* utils/networkMapConfig.ts, utils/networkMapLayout.ts).                  *)
(*                                                                         *)
(* Coordinates are "auto" or where the user put a node.  Time is counted   *)
(* in periods of the activity timer, as the age of what was last seen.     *)
(* Svelte runs effects before the next task, so they belong to the action  *)
(* that changes what they depend on.                                       *)
(***************************************************************************)
EXTENDS Integers, Sequences, FiniteSets

CONSTANTS
  Connections,  \* events: [src, dst, shared, srcPort, dstPort, proto]; src and dst are
                \* [key, addr]; key and shared: the values of the keying fields, namespace first
  capacity,     \* of the ring buffer
  Local,        \* localhost addresses
  Threshold,    \* of ephemeral ports
  EdgeTimeout, NodeTimeout,  \* EDGE_ANIMATION_DURATION, NODE_ACTIVITY_TIMEOUT
  Places,       \* where a node may be dragged
  Snapshots, NoSnapshot,     \* lists of events of a selected snapshot; none: the ring is shown
  MaxEvents, MaxInputs       \* bound the events and what the user does

\* The code's time-outs are 1500 and 5000 ms (types/networkmap.ts:137-142).
ASSUME MapAssumption ==
  /\ EdgeTimeout \in Nat /\ NodeTimeout \in Nat /\ EdgeTimeout <= NodeTimeout
  /\ capacity \in Nat /\ Snapshots \subseteq Seq(Connections)

VARIABLES
  events, eventVersion,      \* the ring, newest first; the events counted
  snapshotData,
  collapseEphemeral, lastProcessedVersion,
  nodes,   \* id -> [count, active, age, handles: id -> [type, count, active, age]]
  edges,   \* [source, sourceHandle, target, targetHandle] -> [count, active, age]
  userPositions, topologyKey, layoutedNodes,   \* of the chart
  mapInputs

mapVars == <<events, eventVersion, snapshotData, collapseEphemeral, lastProcessedVersion, nodes, edges,
             userPositions, topologyKey, layoutedNodes, mapInputs>>

NoMap == [x \in {} |-> {}]

MapInit ==
  /\ events = <<>> /\ eventVersion = 0 /\ snapshotData = NoSnapshot
  /\ collapseEphemeral = TRUE /\ lastProcessedVersion = 0
  /\ nodes = NoMap /\ edges = NoMap
  /\ userPositions = NoMap /\ topologyKey = {} /\ layoutedNodes = NoMap
  /\ mapInputs = 0

With(f, x, value) == [y \in DOMAIN f \cup {x} |-> IF y = x THEN value ELSE f[y]]

(***************************************************************************)
(* processEvents.                                                          *)
(***************************************************************************)
ephemeralPortThreshold(collapse) == IF collapse THEN Threshold ELSE 0

\* Ephemeral ports share one handle, named by the threshold.
getHandleId(proto, port, threshold) ==
  IF threshold > 0 /\ port >= threshold THEN <<proto, threshold>> ELSE <<proto, port>>

\* A port is -1 when the event has none; then it counts as 0.
shouldReverseByPort(srcPort, dstPort, threshold) ==
  /\ threshold > 0 /\ srcPort # -1 /\ dstPort # -1
  /\ srcPort < threshold /\ dstPort >= threshold

mergeHandleType(current, next) == IF current = next THEN current ELSE "both"

\* Both ends of an event, the one that opened the connection first.
Ends(event, threshold) ==
  LET isLocal == event.src.addr \in Local /\ event.dst.addr \in Local
      end(side, port, type) ==
        [id |-> <<IF isLocal THEN event.shared ELSE side.key, side.addr>>,
         handle |-> getHandleId(event.proto, IF port = -1 THEN 0 ELSE port, threshold),
         type |-> type]
  IN IF shouldReverseByPort(event.srcPort, event.dstPort, threshold)
     THEN <<end(event.dst, event.dstPort, "source"), end(event.src, event.srcPort, "target")>>
     ELSE <<end(event.src, event.srcPort, "source"), end(event.dst, event.dstPort, "target")>>

Seen(count) == [count |-> count + 1, active |-> TRUE, age |-> 0]

\* getOrCreateNode, getOrCreateHandle and the counting of both.
Touch(all, end) ==
  LET node == IF end.id \in DOMAIN all THEN all[end.id] ELSE [count |-> 0, handles |-> NoMap]
      handle == IF end.handle \in DOMAIN node.handles THEN node.handles[end.handle]
                ELSE [count |-> 0, type |-> end.type]
      seen == [type |-> mergeHandleType(handle.type, end.type),
               count |-> handle.count + 1, active |-> TRUE, age |-> 0]
  IN With(all, end.id, [count |-> node.count + 1, active |-> TRUE, age |-> 0,
                        handles |-> With(node.handles, end.handle, seen)])

EdgeId(ends) == [source |-> ends[1].id, sourceHandle |-> ends[1].handle,
                 target |-> ends[2].id, targetHandle |-> ends[2].handle]

processEvent(graph, event, threshold) ==
  LET ends == Ends(event, threshold)
      id == EdgeId(ends)
  IN [nodes |-> Touch(Touch(graph.nodes, ends[1]), ends[2]),
      edges |-> With(graph.edges, id, Seen(IF id \in DOMAIN graph.edges THEN graph.edges[id].count ELSE 0))]

processEvents(graph, list, threshold) ==
  LET after[n \in 0 .. Len(list)] ==
        IF n = 0 THEN graph ELSE processEvent(after[n - 1], list[n], threshold)
  IN  after[Len(list)]

(***************************************************************************)
(* updateActivityStates, one period later.                                 *)
(***************************************************************************)
Older(x, timeout) == [x EXCEPT !.age = IF @ > NodeTimeout THEN @ ELSE @ + 1,
                               !.active = @ /\ x.age + 1 <= timeout]
\* A plausible slip: the time-outs are swapped.
updateSwapped ==
  /\ nodes' = [id \in DOMAIN nodes |->
                 [Older(nodes[id], EdgeTimeout) EXCEPT !.handles = [h \in DOMAIN @ |-> Older(@[h], NodeTimeout)]]]
  /\ edges' = [id \in DOMAIN edges |-> Older(edges[id], NodeTimeout)]
updateActivityStates ==
  /\ nodes' = [id \in DOMAIN nodes |->
                 [Older(nodes[id], NodeTimeout) EXCEPT !.handles = [h \in DOMAIN @ |-> Older(@[h], EdgeTimeout)]]]
  /\ edges' = [id \in DOMAIN edges |-> Older(edges[id], EdgeTimeout)]

(***************************************************************************)
(* The chart.  Nodes are laid out again when the topology has changed,     *)
(* else only their data is refreshed.                                      *)
(***************************************************************************)
networkNodeNamespace(id) == id[1]
\* A plausible slip: only the lanes.
TopologyOfLanes(all) == {networkNodeNamespace(id) : id \in DOMAIN all}
networkMapTopologyKey(all) ==
  {<<networkNodeNamespace(id), id, Cardinality(DOMAIN all[id].handles)>> : id \in DOMAIN all}

\* One lane for each namespace; nodes without one are below the lanes.
layoutNetworkMap(all) ==
  [id \in DOMAIN all |-> [parent |-> networkNodeNamespace(id), data |-> all[id], position |-> "auto"]]

Placed(layout, positions) ==
  [id \in DOMAIN layout |-> [layout[id] EXCEPT !.position = IF id \in DOMAIN positions THEN positions[id] ELSE @]]

LayoutEffect ==
  LET key == networkMapTopologyKey(nodes')
      kept == [id \in DOMAIN userPositions \cap DOMAIN nodes' |-> userPositions[id]]
  IN /\ topologyKey' = key
     /\ IF DOMAIN nodes' = {} THEN layoutedNodes' = NoMap /\ userPositions' = NoMap
        ELSE IF key # topologyKey
        THEN userPositions' = kept /\ layoutedNodes' = Placed(layoutNetworkMap(nodes'), kept)
        ELSE /\ UNCHANGED userPositions
             /\ layoutedNodes' = Placed([id \in DOMAIN layoutedNodes |->
                  [layoutedNodes[id] EXCEPT !.data = IF id \in DOMAIN nodes' THEN nodes'[id] ELSE @]],
                                        userPositions)

(***************************************************************************)
(* The effects of NetworkMap.svelte, with the values after a change: other *)
(* options empty the graph; a new version has all events of the ring, or   *)
(* of the snapshot, processed, those that were processed before included.  *)
(***************************************************************************)
GraphEffects ==
  LET reset == collapseEphemeral' # collapseEphemeral
      graph == IF reset THEN [nodes |-> NoMap, edges |-> NoMap] ELSE [nodes |-> nodes, edges |-> edges]
      list == IF snapshotData' # NoSnapshot THEN snapshotData' ELSE events'
      new == IF reset \/ eventVersion' # lastProcessedVersion
             THEN processEvents(graph, list, ephemeralPortThreshold(collapseEphemeral')) ELSE graph
  IN /\ nodes' = new.nodes /\ edges' = new.edges
     /\ lastProcessedVersion' = eventVersion'
     /\ LayoutEffect

MayInput == mapInputs < MaxInputs /\ mapInputs' = mapInputs + 1

\* A flush stores some events.
Connect(batch) ==
  /\ snapshotData = NoSnapshot
  /\ eventVersion + Len(batch) <= MaxEvents
  /\ eventVersion' = eventVersion + Len(batch)
  /\ events' = LET all == batch \o events IN SubSeq(all, 1, IF Len(all) < capacity THEN Len(all) ELSE capacity)
  /\ UNCHANGED <<snapshotData, collapseEphemeral, userPositions, mapInputs>>
  /\ GraphEffects

\* A snapshot arrives and is shown, or the user selects another one.
NewSnapshot(list) ==
  /\ eventVersion + Len(list) <= MaxEvents /\ eventVersion' = eventVersion + Len(list)
  /\ snapshotData' = list
  /\ UNCHANGED <<events, collapseEphemeral, userPositions, mapInputs>>
  /\ GraphEffects
SelectSnapshot(list) ==
  /\ MayInput /\ snapshotData # NoSnapshot /\ snapshotData' = list
  /\ UNCHANGED <<events, eventVersion, collapseEphemeral, userPositions>>
  /\ GraphEffects

ToggleCollapse ==
  /\ MayInput /\ collapseEphemeral' = ~collapseEphemeral
  /\ UNCHANGED <<events, eventVersion, snapshotData, userPositions>>
  /\ GraphEffects

handleNodeDragStop(id, place) ==
  /\ MayInput
  /\ userPositions' = With(userPositions, id, place)
  /\ layoutedNodes' = [layoutedNodes EXCEPT ![id].position = place]
  /\ UNCHANGED <<events, eventVersion, snapshotData, collapseEphemeral, lastProcessedVersion, nodes, edges, topologyKey>>

ActivityTimer ==
  /\ updateActivityStates
  /\ LayoutEffect
  /\ UNCHANGED <<events, eventVersion, snapshotData, collapseEphemeral, lastProcessedVersion, mapInputs>>

MapNext ==
  \/ \E a \in Connections : Connect(<<a>>)
  \/ \E a, b \in Connections : Connect(<<a, b>>)
  \/ \E list \in Snapshots : NewSnapshot(list) \/ SelectSnapshot(list)
  \/ ToggleCollapse
  \/ \E id \in DOMAIN layoutedNodes, place \in Places : handleNodeDragStop(id, place)
  \/ ActivityTimer

MapSpec == MapInit /\ [][MapNext]_mapVars

(***************************************************************************)
(* Properties.                                                             *)
(***************************************************************************)
\* each time one of these was counted
Times(counted, some) == UNION {{x} \X (1 .. counted[x].count) : x \in some}

\* the edges that begin, or end, at a handle
EdgesFrom(links, id, handle) == {e \in DOMAIN links : e.source = id /\ e.sourceHandle = handle}
EdgesTo(links, id, handle)   == {e \in DOMAIN links : e.target = id /\ e.targetHandle = handle}
CountAt(links, id, handle) ==
  Cardinality(Times(links, EdgesFrom(links, id, handle))) + Cardinality(Times(links, EdgesTo(links, id, handle)))

\* Nodes, handles and edges are one graph however events, resets and the timer
\* interleave: what is counted at a node is counted at its handles and at their
\* edges; a handle has the directions of its edges; what is active at an edge
\* is active at both ends, although edges and nodes fade on their own
\* (networkMapConfig.ts:400-475, 485-535).
GraphConsistent ==
  /\ \A id \in DOMAIN nodes :
       LET handles == nodes[id].handles
       IN /\ nodes[id].count = Cardinality(Times(handles, DOMAIN handles))
          /\ \A h \in DOMAIN handles :
               /\ handles[h].count = CountAt(edges, id, h)
               /\ handles[h].active => nodes[id].active
               /\ handles[h].type # "target" <=> EdgesFrom(edges, id, h) # {}
               /\ handles[h].type # "source" <=> EdgesTo(edges, id, h) # {}
  /\ \A e \in DOMAIN edges : edges[e].active =>
       nodes[e.source].handles[e.sourceHandle].active /\ nodes[e.target].handles[e.targetHandle].active

\* What makes it inductive, of any graph: the types; ends of edges are there;
\* nothing was seen later than the node, or the handle, it belongs to.
Joined(all, links) ==
  \A e \in DOMAIN links :
    /\ e.source \in DOMAIN all /\ e.sourceHandle \in DOMAIN all[e.source].handles
    /\ e.target \in DOMAIN all /\ e.targetHandle \in DOMAIN all[e.target].handles
    /\ links[e] \in [count : Nat, active : BOOLEAN, age : Nat]
    /\ \A handle \in {all[e.source].handles[e.sourceHandle], all[e.target].handles[e.targetHandle]} :
         handle.age <= links[e].age /\ (links[e].active => handle.active)

NodeOK(node) ==
  /\ DOMAIN node = {"count", "active", "age", "handles"}
  /\ node.active \in BOOLEAN /\ node.age \in Nat
  /\ IsFiniteSet(Times(node.handles, DOMAIN node.handles))
  /\ node.count = Cardinality(Times(node.handles, DOMAIN node.handles))
  /\ \A h \in DOMAIN node.handles :
       /\ node.handles[h] \in [type : {"source", "target", "both"}, count : Nat, active : BOOLEAN, age : Nat]
       /\ node.age <= node.handles[h].age /\ (node.handles[h].active => node.active)

Agrees(all, links) ==
  \A id \in DOMAIN all : \A h \in DOMAIN all[id].handles :
    LET handle == all[id].handles[h]
    IN /\ handle.count = CountAt(links, id, h)
       /\ IsFiniteSet(Times(links, EdgesFrom(links, id, h))) /\ IsFiniteSet(Times(links, EdgesTo(links, id, h)))
       /\ handle.type # "target" <=> EdgesFrom(links, id, h) # {}
       /\ handle.type # "source" <=> EdgesTo(links, id, h) # {}

GraphOK(all, links) ==
  (\A id \in DOMAIN all : NodeOK(all[id])) /\ Joined(all, links) /\ Agrees(all, links)
GraphInv == GraphOK(nodes, edges)

\* The chart draws the nodes of the graph with their data, each where the user
\* dragged it, even when it draws without a new layout
\* (NetworkMapChart.svelte:44-76).
ChartIsCurrent ==
  layoutedNodes = [id \in DOMAIN nodes |->
    [parent |-> networkNodeNamespace(id), data |-> nodes[id],
     position |-> IF id \in DOMAIN userPositions THEN userPositions[id] ELSE "auto"]]
=============================================================================
