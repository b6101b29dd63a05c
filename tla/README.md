# ig-desktop in TLA+

ig-desktop is a desktop and web user interface for Inspektor Gadget: a Go
backend (`cmd/igd`, or the Wails shell in `main.go`) talks to gadget servers
over gRPC, records runs into SQLite, installs Inspektor Gadget with Helm, and
streams everything over one WebSocket to a Svelte frontend, which processes and
shows it.  This directory models the parts of it in which goroutines, callbacks,
transactions and failures meet, checks them with TLC and proves what matters
most with TLAPS.

Contents: the system and its parts; the modules; the runs; the proofs; what is
not covered; the plan.

## 1. The system

### 1.1 Who talks to whom

    browser page                          igd                            outside
    ------------                          ---                            -------
    api.service  --request(reqID)-->  transport -> Handler  --------->  gadget.Service
         ^                               |  (read loop)                    |  one goroutine per run
         |<--response / events-----------+                                 v
    message-router                                                  grpc-runtime.runGadget  <-->  gadget server
      gadget.handler -> processors -> ring buffer                     |  receiver goroutine per node
      deployment.handler -> deployments store                         v
                                       session.Service (index.db, <session>.db)
                                       helm.Deployer  (worker + performDeployment)  -->  cluster

* A page sends JSON commands; the handlers run one after the other inside the
  read loop of the connection, and start goroutines for what takes long.
* A gadget run has a goroutine (`pkg/gadget/service.go`), one goroutine and one
  receiver per node (`pkg/grpc-runtime/oci.go`), and callbacks from the gadget
  context that send messages to the page and rows to the session store.
* The session store is shared by all connections and protected by one RWMutex,
  which it gives up around every event insert.
* On the page everything is one JavaScript thread that gives up control at each
  `await` and in timers.

### 1.2 Inventory

For each part: its state (S), its operations (O), what is hard about it (H) and
what makes it correct (C).

**Session recording store** (`internal/session`).
S: one SQLite file per session, `index.db`, the map `activeRuns`, open
connections and prepared statements, `Service.mu`.
O: CreateSession, StartGadgetRun, WriteEvent, StopGadgetRun, reads,
DeleteSession, VerifyIndex.
H: event inserts outside the lock; two databases that one operation changes in
turn; early returns; the end of the process anywhere.
C: an event is recorded only into an active run and counted; active runs keep
their file, row and connection; a deleted session stays deleted; locks and
connections are given back.

**Gadget runs** (`pkg/gadget`, `pkg/grpc-runtime/oci.go`).
S: the cancel functions of the InstanceManager, the goroutine of each run, per
node the two selects of `runGadget`, its receiver, `doneChan`, `expectedSeq`.
O: Run, RunDetached, Attach, Stop; connect, receive, hand over, time out.
H: a stop that must not lose the server's last data, servers that never answer,
receivers that outlive `runGadget`, several nodes feeding one recording.
C: data first announced, then sent, then stopped; recording complete and closed;
no goroutine left behind; cancelled runs end; lost messages are reported.

**Event pipeline of the page** (`gadget.handler.svelte.ts`,
`processor-state.service.ts`, `ring-buffer.ts`).
S: the event buffer and its 25 ms timer, the flush in progress, processor state
and synthetic events, ring buffer, counter and array snapshots per instance.
O: the info, event, array and quit handlers, flush, closing an instance.
H: messages arrive while a flush awaits a processor; two writers of the counter;
quit overtakes what is buffered; wrap-around and overwriting in the ring.
C: nothing lost, counted twice or out of order; a flush is always scheduled;
the ring is the list of the newest items.

**Deployment** (`k8s-deploy.go`, `pkg/helm/deploy.go`, `deployment.handler.ts`,
`deployments.svelte.ts`, `K8sDeployModal.svelte`).
S: per deployment the worker, `progressChan` and `deployErr`, the select loop,
the store entry; the modal's `deploymentId`.
O: deploy, undeploy, redeploy; progress, completion, error, timeout; dismiss,
reload.
H: the select reads its channels in any order, channels overflow or lose their
reader, the ten-minute timer fires at any time, events arrive late.
C: the page always learns the outcome; success is never false; progress does not
go back; a dismissed entry stays gone; the worker ends.

**Requests and responses** (`api.service.svelte.ts`, `handlers/handler.go`).
S: `reqID`, the map of pending requests; the handler's mutex around `send`.
H: answers in any order, commands nobody handles, a closed socket, a counter
that starts again with the page while the Wails handler lives on.
C: each answer settles the request it answers, and each request is settled.

**Connection and server** (`internal/server`, `websocket.service.svelte.ts`).
S: the set of clients, a mutex, cancel function and socket per transport.
H: a `Send` that blocks on a browser that does not read holds the mutex `Close`
needs; `Shutdown` closes clients one by one under `clientsMu`.
C: messages in order; Close and Shutdown return.

**Session replay** (`replay.service.ts`, `routes/sessions/[id]`).
S: the page's run, player and abort controller, the replay instances, the
gadget handler's event buffer.
O: load a run instantly or in real time, stop, reload, leave, come back.
H: a user who asks again while events are fetched or a player sleeps; a player
that outlives its page.
C: what is shown is what was recorded, once; every load and player ends.

**Tables and snapshots** (`Table.svelte`, `filter.worker.ts`,
`VirtualTableBody.svelte`, `DatasourceView.svelte`, `SnapshotTimeline.svelte`).
S: search, columns and sorting, the rows a web worker has filtered, requests and
answers under way; chosen rows; selected indices and pinned batches.
O: events, searches, toggles, the debounce timer; arrivals, drags, keys.
H: answers to old questions, rows that move while they are filtered, indices
into a list that every arrival shifts.
C: a table at rest shows the rows that match; what is
chosen or pinned stays selected.

**Plugins** (`internal/plugins`, `plugin*.service.ts`, the compiler worker).
S: the directories, plugins and capabilities, the pending compilation and its
timer, the cache in IndexedDB, which outlives the page.
O: discover, register, look up, compile, time out, cache, reload.
H: late answers of the worker, timers of other requests, a cache keyed by a part
of what it stores.
C: code served is compiled from the files that are there; loading ends.

**DNS views and network map** (`utils/dns`, `utils/networkMap*.ts`,
`utils/networkmap`, the visualizers).
S: correlated transactions and timers of their recomputation; nodes and edges
with counts and ages; layouts that are kept while the topology stays the same.
O: packets and connections arrive, filters, clocks, drags.
H: queries and answers captured at several places and in any order; recomputation
that is rate-limited; layouts that are refreshed in place.
C: the correlation agrees with its definition; maps show their data; views
catch up.

**Environments** (`internal/environment`, `environments.svelte.ts`): one JSON
file per environment, written in place; each page learns of its own changes only.

**Connections to gadget servers** (`grpc-runtime.go`, `k8s-portfwd-dialer.go`,
`instances.go`): target selection, dialling, port forwarding, remote calls.

**Pure functions**: the JSON formatter (`pkg/json`), the version comparison of
the update check, charts, histograms and flame graphs, virtual scrolling.

**Everything else**: the Wails shell and wiring, Artifact Hub and Kubernetes
queries, settings, toasts, translations, routes and components.  `PROJECT.json`
lists each with its status and reason, and every hazard with its line and the
properties that watch it.

## 2. The modules

| Module | What it models | Lines of code it stands for |
|---|---|---|
| `SessionStore` | `internal/session`: service, session file, index | service.go, session_db.go, index.go |
| `SessionArchive` | abstract: what a recording promises to a replay | implemented by SessionStore |
| `GadgetRun` | `pkg/gadget` and `runGadget` with its receivers | service.go, instance.go, oci.go, instances.go |
| `RunProtocol` | abstract: announce, deliver, stop | implemented by GadgetRun |
| `RingBuffer` | `ring-buffer.ts` | ring-buffer.ts |
| `NewestFirst` | abstract: the list of the last `capacity` items | implemented by RingBuffer |
| `EventPipeline` | the gadget handlers of the page | gadget.handler.svelte.ts, processor-state.service.ts |
| `Deployment` | deployments from request to dismissal | k8s-deploy.go, deploy.go, deployment.handler.ts, the modal |
| `Connection` | requests, sockets, the server and its shutdown | api.service.svelte.ts, handler.go and the handlers, transport.go, server.go, cmd/igd |
| `EventTable` | the table over the ring or a snapshot, and its filter worker | Table.svelte, filter.worker.ts |
| `RowSelection` | focus and selection of rows | VirtualTableBody.svelte |
| `ItemSelection` | abstract: rows are chosen, not places | implemented by RowSelection |
| `SnapshotSelection` | which snapshots are shown | DatasourceView.svelte, SnapshotTimeline.svelte |
| `PluginRegistry` | local plugins from the directories to the page | discovery.go, plugin-loader, plugin-registry, plugin and plugin-cache services |
| `Replay` | playing recorded runs | replay.service.ts, sessions/[id]/+page.svelte |
| `DnsCorrelation` | packets to transactions and severities (operators) | dnsCorrelator.ts, dnsSeverity.ts |
| `DnsViews` | the DNS map over a live gadget | useDnsCorrelation, dnsMapGraph.ts, DnsNetwork.svelte |
| `NetworkMap` | the network map and its chart | networkMapConfig.ts, networkMapLayout.ts, portDirection.ts, NetworkMap*.svelte |
| `MC...` | the constants of the runs | |
| `...Proofs` | theorems about the module of the same name | |

`PROJECT.json` maps every definition to its lines.

### 2.1 SessionStore

An instance ID is a fresh UUID and names a run and the connection opened for it.
`mu` is `Service.mu`: a record of the step its holder makes next, so whatever
does not need the mutex interleaves with every statement made under it:

* `CreateSessionFile`, `CreateSessionIndex`: CreateSession, which takes no lock;
* `StartOpen`, `StartInsert`, `StartActivate`, `StartIndex`: StartGadgetRun with
  its four early returns;
* `WriteLookup`, `WriteExec`, `WriteCount`: WriteEvent; the insert in the middle
  runs outside the lock on a statement that may be closed by then;
* `StopRequest`, `StopFinalize`, `StopStmt`, `StopIndex`: StopGadgetRun;
* `DeleteIndex`, `DeleteFile`: DeleteSession; `ReadLookup`, `ReadUse`: reads,
  which create an empty file when theirs is gone, as SQLite does;
* `VerifyReadDir` ... `VerifyDone`: VerifyIndex, which nothing calls today
  (`Repair` switches it on);
* `Crash`: the process ends; memory goes, the files stay.

`Faults` is the set of statements that may fail (a busy or full database).
Timestamps, names and payloads are abstracted; the files are atomic per SQL
statement, which SQLite promises.  Service.Close has no caller and no action.

`SessionArchive` has sessions, runs (begun, finished, deleted), the live ones and
their events.  `ArchiveSpec` says the store implements it.

### 2.2 GadgetRun

A run has the goroutine of Service.Run or Attach (`goro`), a gadget context
(`gctx`) and one stream per target with two goroutines: `stream` is the select
`runGadget` is in, `receiver` what the receiver does.  `Start`, `StopInstance`,
`ResolveTargets`, `CreateInstance`, `FinishStreams`, `StopRecording`,
`Unregister` and `SendStop` follow `pkg/gadget`; `Dial`, `SeeCancel`, `HandOver`,
`ResultTimeout` and the `Receive...` actions follow `oci.go`.  The first node's
info starts the gadget and OnPreStart: set up the recording, send the info,
subscribe; infos of other nodes are accepted or refused.  A data event is sent to
the client and recorded after that (`SendEvent`, `WriteEvent`).  Where statements of
the session store may fail (`CanFail`), `WriteEvent` may lose an event and
`StopRecording` may leave the run active; the code logs both and goes on, and
`writeErrors` and `stopErrors` are what its log says.  Server and gadget
context are external: a server answers with an info, then payloads and a result
in sequence, may drop payloads (`CanDrop`), may end at any time or never, and a
connection may break.  That a server ends when asked to is not assumed, hence
the stop request has no effect of its own in the model.

`RunProtocol`: a run is announced once, delivers, stops once; afterwards only a
run with an abandoned receiver (attached, or after a result timeout) delivers.

### 2.3 RingBuffer and EventPipeline

`RingBuffer` is the array with `head` and `length`; `push`, `clear`, `get`,
`slice`, `toArray`, index arithmetic as written.  `NewestFirst` is the list.

`EventPipeline` uses that list for the ring of each instance (`PushAll`), which
the proof of `RingIsNewestFirst` justifies.  JavaScript tasks are atomic up to
an await; `Task` says when a new task may start: always while processors are
"async" (they really wait), else only when no handler is suspended.  Handlers
keep their names; `Started`, `EventProcessed`, `ArrayProcessed` and `Stopped` are
the continuations after an await.  The chain of plugin processors is external
and modelled as one: it may keep state, drop an event, emit some.  Events are
numbered as they arrive, so order and duplication are visible; rows and
synthetic events are 0.  A receiver may outlive the quit message exactly for the
instances of `Attached`, the abandoned runs of GadgetRun: the two modules meet
there.

### 2.4 Deployment

Per deployment three processes: the worker (`WorkerStep`, `WorkerClose`,
`WorkerReport`), `performDeployment` (`LoopProgress`, `LoopClosed`, `LoopResult`,
`LoopTimeout`; a Go select takes any ready case, so each is an action of its
own) and the page (`StartDeployment`, `Receive`, `Dismiss`, `Reload`).  The
operations are tables of steps (`Deploy`, `Undeploy`, `Redeploy`) with the
percentages they report and whether a failure is fatal.  `progressChan` drops
what does not fit, `deployErr` holds one result, the deferred `close` comes
before the result.  Messages of one deployment arrive in order; those of
different ones in any order, which allows more than one socket does.
`Disconnect` is a socket that breaks: what is on its way or sent later is
dropped, the worker goes on (its context is Background), the page keeps what it
shows and asks for nothing more, since websocket.adapter.ts does not connect again.
`Reload` is a new page on a new connection; `left` are the deployments asked for
over a connection that is gone.  `Slow` are the deployments whose Helm calls may
take longer than ten minutes or never return.

### 2.5 Connection

A connection is one page with one socket and one Handler; a page that is loaded
again is another connection.  The page makes requests (`Request`), settles them
(`Receive`), may be halted (`Pause`, `Resume`) and may go away (`Break`).  On the
server a connection has

* its loop, the goroutine of handleWebSocket (`Track`, `Handle`, `LoopGoesOn`,
  `Leave`, `Untrack`, `End`): it reads a command only after the handler of the
  one before has returned, and a handler returns only after its sends have;
* goroutines that answer slow commands (`CallReturns`) or send data of gadgets
  (`GadgetSends`) and outlive the connection;
* senders (`LockHandler`, `LockTransport`, `Write`, `WriteFails`): every message
  waits for `h.mu`, its sender then holds `t.mu` inside `conn.Write` until the
  socket has taken it.

Twenty-nine handlers differ in what they compute, which is left out, and in what
they send before the loop goes on, which is kept: `Scripts` has the sequences for
each kind of command (plain, announced, detached, slow, unknown) and for the
handshake.  `Signal`, `PickClient`, `CloseClient`, `ReleaseClients` and `Exit` are
the signal handler and Server.Shutdown, which holds `clientsMu` while it closes
one client after the other; `Track` and `Untrack` need that mutex.

Left out: a request on a socket that is not open, which is refused or dropped by
the page; the Wails shell, where one Handler serves every page in turn.

### 2.6 Tables, snapshots, plugins, replay

Svelte runs the effects of a change in microtasks, before the next timer or
message.  Hence every action of these modules contains the effects it causes
(`FilterEffects`, `Refound`, `Settle`, `Effect`, `LayoutEffect`).

`EventTable` extends `RingBuffer`: `Arrive` pushes into the ring of 2.3, and the
table reads it by `toArray`.  `requests` and `responses` are the two directions of
the worker's port, `worker` its own copy of the rows, `DebounceTimer` the 150 ms
after the last change.  The rows are filtered all at once (`requestFullFilter`) or
only the new ones (`requestIncrementalFilter`); answers to other requests than
the last are dropped.

`RowSelection` keeps the entries of the component, an index with the length of
the list when it was taken.  `Arrival` puts rows above and drops those beyond the
ring's capacity, `Replacement` is a search, an order or a snapshot.  The other actions are the
handlers of mouse and keyboard, and `DragTimer`, by which a drag ends a task later
than the button is released.  `ItemSelection` says what the user may expect: a set
of rows, an anchor and a focus, which arrivals leave alone.  Its `lost` admits the
cases of 3.3 in which the code cannot keep that.

`SnapshotSelection` keeps indices (`selectedSnapshotIndices`), which an arrival
shifts, and the numbers of pinned batches, by which they are found again.
Batches are numbered as they arrive and stored as their processors answer, in
any order.  `Trim` drops the oldest beyond the limit of entries.  `InBounds` compares
sizes as the code does, so a lone index out of bounds stays where it is (`Alone`).

`PluginRegistry` follows the loader through the plugins of a listing, one after
the other: `loadLocalPlugins`, `Listed` (`DiscoverPlugins`), `registerExternal`,
`Lookup`, `loadFromCache`, `compileInWorker`, `ExecuteComponent`, and the second compilation,
for the cache (`cacheCompiledPlugin`, `CacheWritten`).  The worker answers in order, late or never
(`WorkerAnswers`, `WorkerSilent`), and the cache may reject a `Lookup`; a timer rejects whatever is pending under its
key, which may be a later request.  `Reload` makes a new page; the cache and
writes under way stay.  Enabling and settings are left out.

`Replay` has one load per request (`fetching`), players that sleep between two
events, the buffer of the gadget handler and its `Flush`.  It meets EventPipeline
in that buffer; processors are left out here.  A player belongs to the visit that began it and outlives it.

### 2.7 Maps

`DnsCorrelation` is an operator module: `computeDnsCorrelation` parses packets into
identities, removes duplicates, sorts by time and pairs queries with answers by
folding `Correlated` over them.  `DnsViews` adds the packet ring, the
clock (one tick is the refresh interval of 100 ms) and the timers; its map is a
function of rows (`buildDnsMapModel`), its layout is kept or refreshed
(`refreshDnsMapLayoutData`).  `NetworkMap` turns events into nodes with handles and
edges (`processEvents`), ages them (`updateActivityStates`) and places them
(`layoutNetworkMap`).  Coordinates are "auto" or where the user put a node.

## 3. The runs

Every run named "pass" was finished by TLC without an error.

| Run | Question | Instance | Distinct states |
|---|---|---|---|
| `store_faulty` | Does recording keep its promises under faults and crashes? | 1 session, 2 runs, 2 writers, 1 reader, 2 events; every statement may fail but the finalizing one; crash | 761,644 |
| `store_repair` | And if VerifyIndex were called; does the lock come free, does Stop return? | 2 sessions, 1 run, 1 writer, 1 reader; every statement may fail; crash; fairness | 242,505 |
| `store_failed_start` | Violation: a failed start records all the same | 1 session, 1 run; no faults, a crash | about 50 |
| `run_faulty` | Do runs on two nodes keep the protocol and their recording? | 1 run, 2 nodes, 1 payload each; timeout, broken connections, failing statements of the session store | 797,843 |
| `run_gaps` | Are lost messages reported; do cancelled runs end? | 1 run, 1 node, 4 payloads; drops, timeout, broken connection; fairness | 62,437 |
| `run_late_recording` | Violation: a recording stays active after the stop | 1 run, 1 node | about 1,470 |
| `events_async` | Do counter, ring, flushes and snapshots stay consistent while processors wait? | 1 instance, capacity 2, 4 events or rows, processors that wait, filter and emit; fairness | 208,737 |
| `deploy_all` | Is the page told the truth about every deployment? | one of each kind, slow or not, or two removals at once, one slow; broken sockets, reloads; fairness | 383,703 |
| `conn_responsive` | Are requests answered, broken connections forgotten, and does Shutdown end the process? | 2 connections, one with a handshake, 1 request of any kind and 1 gadget message, halted now and then; a socket with room for 1 message; both may break; a signal; fairness | 188,199 |
| `conn_halted` | Violation: a page that never reads again stops the shutdown | 2 connections, 1 gadget message; no faults but the halt; fairness | 5,045 |
| `page_parts` | Do the table, the snapshots, the plugins and the replay show what is there once they rest; do chosen rows stay chosen? | see below; fairness | 809,511 |
| `page_maps` | Is the correlation right; do the maps show their data, and in time? | see below; fairness | 284,963 |

`page_parts` and `page_maps` explore several components that share no state, each by
itself: `part` says which, and the others keep their initial states.  They need
`CHECK_DEADLOCK FALSE`, as a page without input rests; what must still happen is
said by their liveness properties.

* `page_parts`: table: ring of 3, 4 events, 2 columns, 2 searches, snapshots of 2
  and 3 rows, 3 inputs; rows: a list of 3, 4 arrivals one or two at a time, 4
  actions of the user, pages of 2; snapshots: 4 batches of 1 or 2 rows, at most 3 entries, 2
  tabs; plugins: 2 directories with any of 5 contents, 1 edit, 1 reload; replay: 2
  recordings of 2 events, one with an array, 3 loads, 2 visits.
* `page_maps`: DNS: a ring of 3 of 6 kinds of packets, which come in the first 2
  ticks, deadline after 1 tick; network: a ring of 2, 3 events of 4 kinds, 2
  snapshots, 2 inputs of the user.

Why the bounds are enough.  *Store*: two runs of one session are what sharing and
closing a connection needs; two writers what an event count can lose; a second
session only matters to VerifyIndex and DeleteSession, which have their own run.
*Runs*: nothing in the code relates two runs but the recording of one session
(in SessionStore), so one run with two nodes shows the interactions of nodes;
gaps are a matter of one stream, where four payloads allow a gap before, between
and after handled ones.  *Pipeline*: capacity 2 makes the ring overflow and
snapshots be trimmed; four events fill two flushes with one in progress.
*Deployment*: deployments share only the modal's `deploymentId` and the store,
so two of the shortest kind show what they do to each other and one of each kind
the rest.
*Connection*: connections share only the set of clients and its mutex, so a
second one that opens, breaks and closes is all the first can notice.  Room for
one message makes the loop block behind a gadget's message with its own answer
waiting for `h.mu`; more room only delays that.
*Table*: four events wrap a ring of three, and three inputs make a search, its
change and a change of columns or mode while a request is under way.
*Snapshots*: four batches exceed the limit with some pinned and some not.
*Plugins*: two directories of one id share key, timer and cache entry; the third
that would be needed to store wrong code (3.3) is the case theorem
`CacheAlwaysCurrent` excludes by `~crowded`, for any number of directories.
*Replay*: three loads overlap in every way two players and a fetch can.
*DNS*: three packets are a query, its repetition and an answer, at one or two
places, in any order; a ring of two lets *the network map* lose an event.

`MaxPayloads` bounds GadgetRun, whose `CanTimeout`, `CanBreak`, `CanDrop` and `CanFail`
switch its faults on; `MaxRequests`, `MaxData` and `Room` bound Connection, `MaxEvents`, `MaxRows` and
`MaxEmits` EventPipeline, `MaxInputs` and `Item` EventTable, `NumRows` and `MaxChoices` RowSelection, `Batches`
SnapshotSelection, `MaxEdits` and `MaxReloads` PluginRegistry, `MaxLoads` and
`MaxVisits` Replay, `MaxPackets` and `MaxTime` DnsViews, `MaxEvents` and `MaxInputs`
NetworkMap; the others are bounded by their sets of instances,
writers, nodes or deployments and the number of events or payloads.

### 3.1 The properties

*Store.* `ConnectionsMatchActiveRuns`, `CountAccounting` (every stored event of
an active run is counted or its writer is on the way to the lock),
`IndexedHasFile` (a row of the index has its file, and counts no more runs than
it has), `ArchiveSpec`, `DeletedStaysDeleted`, `StopReturns`.

*Runs.* `StopKeepsResults` (a stop does not lose what the server still sends),
`RecordingClosed` (the recording of a run that was watched to its end stays active
only if StopGadgetRun failed and was logged), `RecordingComplete` (once such a run is over, every
event the client was sent is recorded or its failed insert is in the log), `ReceiverReturns`, `RunsFollowProtocol`,
`GapsReported`, `CancelledRunsEnd`.

*Pipeline.* `EverythingCounted` (counter, ring and what is still under way agree
with what was received), `FlushOrder`, `EventsSettle`.  That buffered events always
have one flush to come, `FlushScheduled`, is proved and not run.

*Deployment.* `FinalEventSent`, `SuccessIsReal`, `DismissedStaysGone`,
`DeploymentSettles`, `WorkerFinishes`.

*Connection.* `AnswerUnderWay` (no request waits for an answer that nobody is
going to send), `ShutdownClosesAll` (no connection slips in behind the iteration),
`RequestsSettle`, `SignalEndsProcess`.

*Page.* `SettledTableIsRight` (a table at rest shows the rows that match, sorted;
its exceptions are the disagreements of 3.3), `SearchIsAnswered`,
`PinnedBatchesSelected` (what was pinned and is still kept is what is selected, and
no index is out of bounds but that of a single snapshot that was evicted), `ArrivalKeepsRows` (an arrival does not change the rows
a pinned view shows), `SelectionSticks` (the rows chosen implement ItemSelection),
`CacheServesCurrentFiles`, `LoaderFinishes`,
`ReplayShowsRecording` (an instance shows a beginning of its recording, each
event once, unless loads overlapped), `ReplaysSettle`.

*Maps.* `CorrelationAgrees` (for every set and order of captures the fold gives
what the declarative `Expected` says), `FilterAgreesWithGroups`, `MapIsCurrent`
and `ChartIsCurrent` (a kept layout shows the current data), `GraphConsistent`
(nodes, handles and edges agree on counts and activity), `ViewCatchesUp`.

Each is stated in words above its definition, with the lines it is about.  For
each, `PROJECT.json` names a plausible change of the code (an early close, a
forgotten reset, a swapped order) under which TLC finds it violated.

### 3.2 Fairness

* Store: weak fairness for each step of the holder of the mutex (a goroutine
  that runs keeps running) and strong fairness for `StopFinalize`, because Go's
  RWMutex lets no waiter starve.  None for callers.
* Runs: weak fairness for the goroutines, including the timer of the result
  timeout; none for servers, users or broken connections.  `CancelledRunsEnd`
  therefore holds against a silent server.
* Pipeline: weak fairness for the timer and the answers of processors; nothing
  makes a gadget send.  A processor that never answers blocks its flush for
  ever; that is left to plugins.
* Connection: weak fairness for the loop, the senders and Shutdown (goroutines
  that can run do; which waiter gets `h.mu` is left open, and since each gadget sends
  at most `MaxData` messages every waiter gets it, as Go's mutexes promise).  Strong fairness for
  `Receive`: a page that is not halted for good reads on.  Weak fairness for
  `Resume`, that every halted page goes on some time, only in `ResponsiveSpec`;
  `conn_halted` shows what happens without it.  None for requests, calls, gadgets,
  signals, or pages that go away.
* Page: weak fairness for timers, the filter worker (it always answers), the
  fetches of events, the players and the flush; for the loader weak fairness for each
  step that is its own, and for the timer of a compilation, but none for the
  compiler worker or for writes of the cache.
* DNS views: a timer that is due fires before it is due for ever
  (`[]<>~Due`), and the clock goes on.  None for packets.
* Deployment: weak fairness for `performDeployment`, its timer included, for the
  page's event loop, and for a worker that closes its channel and reports.  For
  its Helm calls only where the deployment is not `Slow` (installation, removal and the
  waits for the DaemonSet carry timeouts): a slow call may never return, and
  `DeploymentSettles` then rests on the timer alone, as its mutant without the timer
  shows.  None for the user or for sockets that break.

### 3.3 Disagreements found

Three runs end in a counterexample to what a comment says (PROJECT.json,
findings): a start that fails at the index leaves the run recording
(service.go:211-229); OnPreStart after a result timeout starts a recording that
nothing stops (pkg/gadget/service.go:237); the five seconds of cmd/igd/main.go:91
never begin, because Shutdown waits for a mutex that a sender to a halted page
holds (server.go:195).

Others were met while modelling and need no run:

* A flush pushes its events in reverse, so the oldest of a batch has index 0
  although ring-buffer.ts:10 says "Index 0 always returns the newest item"
  (gadget.handler.svelte.ts:302).
* The quit message cleans the state of processors up (gadget.handler:427), events
  that wait in the 25 ms buffer make it again, and nothing cleans that up.
* The page asks for "getRun" (api.service.svelte.ts:125), the handler registered is
  "getGadgetRun" (handler.go): an unknown command is only logged, so the promise
  never settles.  `AnswerUnderWay` excludes unknown commands for that reason.
* A connection that is accepted while Shutdown holds `clientsMu` is added after the
  iteration and closed by nobody until the process ends, which is soon.
* An early return of StopGadgetRun (service.go:284) leaves the run in
  `activeRuns`, although service.go:36 calls an entry an "in-progress gadget
  run"; DeleteSession then refuses its session until the process ends.  Service.Run
  only logs the error (pkg/gadget/service.go:239-241), as it does for an event whose
  insert fails after it was sent (126, 142): the client learns of neither.
* A refused info keeps a stream open and silent, though oci.go:242-243 says the
  session is terminated.
* Arrays whose processors answer out of order are stored out of order, though
  gadget.handler.svelte.ts:347 says newest first; an array with more rows than
  `maxEvents` drops its own snapshot (498-510).
* A socket that breaks leaves a running deployment "deploying" on the page until it
  is loaded again: nothing connects again (websocket.adapter.ts:34-37) and no timer of
  the page settles the entry.
* A deployment that times out after its completion turns the page from success
  to error; a fatal step sends two error events, though k8s-deploy.go:255 says
  "Send final error if not already sent".
* A rejected request marks the deployment shown as failed, be it another one
  (K8sDeployModal.svelte:352); the layout's modal forgets the kind and context
  of what it retries (+layout.svelte:574).
* A processor that emits null would make `pushSyntheticEvents` throw, and flush has
  no `finally` (gadget.handler:237), so later flushes would never start.  At this
  commit nothing assigns `plugin.processor` (types/plugin-system.ts:115), so the chain
  is empty; `Processors` covers the empty chain and those the interface allows.
* `ensureRepoExists` reads and rewrites repositories.yaml without a lock
  (deploy.go:337); a DaemonSet list that fails counts as removed (deploy.go:548).

Met in the parts modelled last; the properties exclude these cases by name:

* *Table.*  Once the ring is full, its length no longer grows and no event is
  filtered incrementally, though Table.svelte:437-440 means to; an empty snapshot
  leaves the old result (401); after a change of columns the old rows stay until
  the next event, whose answer drops those that matched by the column hidden
  (filter.worker.ts:94-100).  Each new event starts the 150 ms again
  (Table.svelte:416-429), so a busy gadget keeps a search waiting, as nothing
  bounds it; `SearchIsAnswered` has a last event.
* *Rows.*  The comment of VirtualTableBody.svelte:134-136 lets focus "stick" to
  its row when items are prepended.  A full ring does not grow, so every arrival
  moves focus and selection to the row above; so does a search or a new order, after which
  entries may come back that were out of range.  The start of a drag (544) is not
  moved by an arrival.  Shift and an arrow key without focus select index -1, which
  is the next row to arrive (455-472).
* *Gadget page* (not modelled, read).  Its effect shows the answer of
  getGadgetInfo for an environment that is no longer the chosen one.
* *Snapshots.*  An arrival in the middle of a drag shifts the range that is being
  dragged; the anchors of shift and of the arrow keys are not moved either.
  When several pinned batches are all evicted the view moves on, still marked as pinned.
  A single one leaves the view empty, though DatasourceView.svelte:151 says "Ensure selected
  indices stay in bounds" and :160 "If all indices were out of bounds, select the latest":
  :164 compares the sizes of two sets of one index and keeps the one out of bounds.  With a
  limit of three rows: three snapshots of one row arrive, the user chooses the oldest
  (index 2), one of two rows arrives and two snapshots are left.  `PinnedBatchesSelected`
  without its `LoneEvicted` is violated by such steps.
* *Plugins.*  The cache key hashes the sources but not the manifest
  (plugin-cache.service.ts:78-87), so a manifest that names another component of the
  same files is served the old one.  With three plugins of one id and answers
  that come after their time-outs, the third is cached with code of the second (17
  steps, found with `NumDirs = 3`).  The timer of one request rejects a later one of
  the same key (plugin.service.ts:120-125); a compilation that fails for the cache turns
  a plugin that is ready into one in error; the Go struct in discovery.go drops the
  capability lists the registry reads; a database that cannot be opened rejects
  for as long as the page lives.
* *Replay.*  Loads of which two wait for events: the first player's controller is
  replaced (replay.service.ts:30), so nothing stops it.  A load within 25 ms of an event
  finds it again after clearing the instance; arrays stay, though +page.svelte:111
  says "Clear previous events if reloading"; a fetch that fails leaves its instance
  running; starting a run again while it plays marks the new playback as ended,
  and leaving the page leaks the instance of a run that plays.
* *DNS.*  The chosen namespace stays chosen when its last transaction is evicted
  (DnsNetwork.svelte:84-85 says otherwise); another snapshot of the same length is not
  computed; an identity with a namespace and no pod may be grouped in another
  namespace than the filter puts it, though dnsMapGraph.ts:365-370 says they agree.
* *Network map.*  Every new event processes the whole ring again, so counts grow
  with each (NetworkMap.svelte:59 says "the graph state handles deduplication"), and
  idle nodes do not fade while any event arrives.  A snapshot selected without a
  new event is not shown; nodes of events that were overwritten stay.
* *Charts* (not modelled, read).  aggregateHistogramsByGroup adds into the shared
  `config.buckets`; a group that is gone shows the sum of all; counters that restart
  give negative rates; filling gaps drops points of equal time.

## 4. The proofs

TLAPS checks every theorem to the last leaf, for every value of the constants
that the named assumptions allow.

| Module | Theorems | Assumptions |
|---|---|---|
| `SessionStoreProofs` | `StoreInvariant`, `TypeCorrect`, `ActiveSessionPresentAlways`, `ConnectionsAlwaysMatch`, `CountsAlwaysAccounted`, `NoLateEvents`, `ImplementsArchive`, `IndexAlwaysTruthful`, `DeletionIsFinal` | `StoreAssumption` |
| `GadgetRunProofs` | the invariant, types, `ReceiverReturns`, `RecordingClosed`, `StopKeepsResults`, `GapsReported`, `RecordingComplete`, the refinement of `RunProtocol` | `RunAssumption` |
| `EventPipelineProofs` | `FlushIsScheduled`, `PipelineInvariant`, `PipelineTypes`, `EventsStayInOrder`, `EverythingAlwaysCounted` | `PipelineAssumption` |
| `DeploymentProofs` | `TypeCorrect`, `NoSilentEnd`, `NoFalseSuccess`, `NoRevival` | `DeploymentAssumption`, `RoomAssumption` |
| `ConnectionProofs` | `TypeCorrect`, `AnswersCome`, `ShutdownClosesEveryone`, `NoLateWrite` | `ConnectionAssumption` |
| `TableProofs` | of the ring: types, `NoHolesEver`, the refinement of `NewestFirst`; of the table: `SearchAlwaysRight` | `CapacityAssumption`, `TableAssumption` |
| `PageProofs` | `PinnedStaysSelected`, `ArrivalsKeepRows`; `SelectionImplementsRows`; `CacheAlwaysCurrent`; `RecordingAlwaysShown` | `SelectionAssumption`, `RowAssumption`, `PluginAssumption`, `ReplayAssumption` |
| `MapProofs` | `GraphAlwaysConsistent`, `ChartAlwaysCurrent`; `DnsMapAlwaysCurrent`, `FilterAlwaysAgrees`, `CorrelationAlwaysAgrees` | `MapAssumption` for the first two, `DnsAssumption` for the last two |

**Store.**  The invariant `StoreInv` says what the holder of `mu` has established
(`HolderInv`), that an instance is untouched before its start (`FreshInv`), that
active runs have rows in session files (`RowInv`), who can still execute an
insert (`StmtInv`) and which run uses which connection (`ConnInv`).  The
connection property alone is not inductive: between `StartOpen` and
`StartActivate` a connection is open for a run that is not active yet, and the
run that is about to be active must find the connection its session shares;
`ConnInv` has both.  `ImplementsArchive` maps every step to a step of the
archive: the only hard case is `WriteExec`, where an open statement implies an
active run.  `IndexInv` is what the index needs: without VerifyIndex an ID goes from
`creating` to `known` once, so a session that is deleted (its row first, its file
after) cannot be listed again in between; and the run_count is one less than the rows
while a start has yet to count its own.  `DeletionIsFinal` follows, since a file is
only ever created for an ID in `creating`.

**Runs.**  `RunInv`: a stream has a receiver exactly between the dial and the
hand-over (`StageInv`); one receiver at most is inside OnPreStart (`LoaderInv`);
EOF is the last message of a server and a receiver that returned left nothing
behind it (`WireInv`); no orderly run has an active recording after its
StopGadgetRun unless that failed (`RecordingInv`).  `StopKeepsResults` follows from `WireInv` and
`StageInv`, since GadgetStop comes after every stream has ended.  `SeqInv` keeps the
numbers on a wire growing and above what its receiver expects, which makes
`GapsReported` inductive.  `RecordingComplete` is about a run that is over;
`EventInv` counts while it goes on: what a client was sent is recorded, logged as not
recorded, or with a receiver between its send and its WriteEvent (`Writing`), and once
the streams have ended there is no such receiver.

**Ring.**  `Items(buffer, head, length)` is the list the physical array stands for;
a push moves `head` down by one modulo the capacity, and the lemma about
`PhysicalIndex` says this shifts the list by one and drops the last exactly when
the ring is full.

**Table.**  `SettledTableIsRight` is about a page at rest, and says nothing while messages
are under way; the page itself never looks at what the worker has.  So `TableInv` is about
what the worker will have when it has taken the messages before it (`Ends`): that is what
matches in the rows last asked about (`Due`), and what will be shown (`ShownInv`), since
questions, answers and what was shown are in the order of their numbers (`NumbersInv`).  A
timer that runs is about the rows of now (`TimerInv`); without one the last question is
about the search of now (`CurrentInv`).  The page asks about new events alone and the worker
puts what matches in front of what it had.  That this is what matches in all the rows is
`MatchesOfTwo`, proved by induction over the loop of the filter (`SetInduction` below); that
the new rows are the front of the list, with the old rows behind them, is `RowsJoin`, and
true until the ring wraps.  Hence the theorem has the exceptions of the property
(`NotWrapped`, `filteredAll`), which are the disagreements of 3.3, and no others.
`TableAssumption` numbers the events as they come and keeps `undefined` apart from lists
and records.

**Pipeline.**  `FlushOrder` and `EverythingCounted` are about three places an event can
be: the buffer, the groups of a flush and the ring.  `PipelineInv` adds that the buffer
is in order, that a flush has one group per instance, none of them empty, each in order
(`GroupsInv`), that all numbers are numbers of received events (`NumbersInv`), that
nothing of an instance exists before its announcement (`AnnouncedInv`) and that pending
batches differ (`PendingInv`).  Most lemmas say how an action moves numbers between the
places (`Sets`) and that the sum stays (`Counts`, `OrderKept`, `CountKept`).  The hard
one is `GroupsOfBuffer`: the loop that groups the buffer keeps every message, once and in
order.  The loop is a recursive function, and what it computes is proved by induction
in the form of a set (`SetInduction`: a set of numbers that has 0, and n + 1 with n, has
them all), which follows from the well-founded order of finite sets in the library and
needs no operator for a parameter.

**Rows.**  The refinement maps an index to the row it is at.  That needs every index to be
at a row while track is kept (`Tracked`), which is what shifting by the rows that came,
and by the rows that were forgotten, preserves; where the component loses track the
abstract specification may too (`LoseTrack`).

**Deployment.**  `ReportsFit` bounds the queue: a worker that has finished n steps
has sent at most 2n + 1 reports, so fourteen places are enough for any operation
and none is dropped (`RoomAssumption`; the code has a hundred).  Hence a worker
that has ended has its outcome in the queue or already sent (`OutcomeKnown`), and
a loop that finds the channel closed and empty has sent it: `FinalEventSent`.
`CompletionIsReal` follows completions from the worker to the queue, the wire
and the page.

**Connection.**  `ServerInv` says that while Shutdown iterates, every client is
closed or still to be closed (`IterationKept`), that a closed transport has no
socket and no writer (`ClosedIsDown`), and that who writes holds a message
(`HolderWrites`).  `ClosedIsDown` is inductive because `Close` waits for the sender
and later senders look at the mark under the same mutex; `NoLateWrite` is its half.
`AnswerUnderWay` is not inductive: it counts the head of `outbox`, which may already
be sent and gone.  `AnswerComing` counts only what comes after the head, and the
head where it is: waiting for the mutex, with its holder, or on the wire.  The hard
step is `Handle`, where the lemma `ScriptTable` says that every script of a command
with a handler has an answer, or is empty and leaves the answer to a call.

**Snapshots.**  `PinnedBatchesSelected` is inductive with the types.  Every step that
can disturb it ends in the effects of the view, so the lemma about `Settle` carries the
proof: with any of the pinned batches left, looking them up again selects exactly
their indices, and without any the bounds leave a selection that is not empty, and in bounds unless it
is a single index (`Alone`).  It
does not matter whether the indices it starts from were stale, which is what a drag
across an arrival makes them.  `ArrivalKeepsRows` needs more of the batches: that they
have different numbers, that all of them have arrived and that a new one is none of those
pinned (`ArrivedInv`).  Then looking the pinned batches up again chooses the same batches,
each one further on, less those that were evicted (`ArrivalShifts`), and what is shown
before is the rows of the evicted ones joined with what is shown after.  The loop that
merges the chosen batches builds a list part by part; that dropping its oldest parts drops
a part of the list and nothing else is `ArrivalMerges`, by `SetInduction`.

**Plugins.**  `PluginInv` is about late answers (`Waiting`).  A request is answered under
a key that names its plugin, so only an earlier plugin of the same id can leave an
answer for the one being loaded, and leaves at most one, since it fails when it stops
waiting.  If that is the one for the cache, it lies before every request of the plugin
being loaded and is gone when the first of them is answered.  With a third plugin of
that id the argument breaks, and so does the code (3.3).  The theorem is about
`PluginSafety`, the specification without fairness.

**Replay.**  `ReplayInv` adds to the types that without haste there is one load or one
player at a time (`OneAtATime`).  So whatever is emitted belongs to one run and continues
at its position (`Onward`); a load finds the buffer empty and begins at 0; and stopping,
leaving and failing only take away (`FewerKeep`).

**Network map.**  `GraphInv` says of any nodes and edges, as operators of both, that each
node counts what its handles count (`NodeOK`), that each handle counts what its edges
count and has their directions (`Agrees`), and that the ends of an edge are there and were
seen no earlier than it (`Joined`).  The last is what fading needs: handles and edges fade
after one time-out, nodes after another that is no shorter (`MapAssumption`; the code has
1.5 and 5 seconds), so what is active has younger owners.  A count is the size of a set of
pairs (`Times`), so one more connection is one more pair (`TimesAdded`), on both sides of
each equation, also when both ends are one handle; a handle that is new has no edges
because of `Joined`.  `EventsKeep` takes this through a list of any length by
`SetInduction`.  For the chart, `ChartInv` adds that the topology key is that of the graph.
The key names every node (`KeyNamesNodes`), so a chart that is only refreshed has the nodes
of the graph, and refreshing is laying out anew (`RefreshedLayout`).

**DNS map.**  `MapIsCurrent` says that what is drawn is what laying out the current data
would draw, once no update waits.  The hard step is the update that keeps the places of
the nodes and exchanges their data: it is right because the topology key, which decides
whether to do that, names every workload with its namespace and every resolver, so that
equal keys have the same nodes at the same places, whatever the packets are.

**Namespace filter.**  A workload's identity is the first row's that has one, and rows
that have none borrow it from rows of the same address.  So filtering rows could change
the identity of a row that is kept, and with it the group it is drawn in.  It does not,
because the row it borrows from is of the same namespace and hence kept
(`KeptIdentity`), and because the key of a workload tells its namespace
(`NamespaceOfKey`).  The second needs that an identity with a namespace has a pod
(`DnsAssumption`; so do the capture's fields in dnsCaptureMeta.test.ts:28 and 213, and 3.3
tells of the case without).  `IdentityInv` carries this from the packets to the rows on
show: sorting, deduplicating and pairing only pass identities on.  Loops over lists are
recursive functions of their length; that one exists and what it is at each length is
`LoopExists` and `LoopStays`, and what holds of every list is `ListInduction`.

**Correlation.**  The code pairs packets in one pass with a map of pending requests;
`Expected` says of each packet, by looking at all the others, which row it belongs to.
They agree because of what holds after every packet (`CorrelationInv`): the pending
requests are exactly the exchanges that are open among the packets so far (`Exchange`:
as many attempts as requests since the last answer, since the first of them, until a
time-out after the last), one for each key, and the rows are those that the packets so
far have closed.  A request adds to the exchange of its key (`AskedAgain`), an answer
ends it (`AskedAnswered`), and neither touches those of other keys (`AskedOthers`).  In
the end what is left is split by its deadline, and as many rows come out as the set of
`Expected` has, since no two packets close one row and no two pending requests have one
key (`ManyImages`).  The parsed packets are taken as they come out of `ParsedOf`, so the
theorem does not speak of the order `dedupeAndSort` puts them in.

Only model-checked: all liveness (`StopReturns`, `CancelledRunsEnd`,
`EventsSettle`, `DeploymentSettles`, `WorkerFinishes`, `RequestsSettle`,
`SignalEndsProcess`, `SearchIsAnswered`, `LoaderFinishes`, `ReplaysSettle`,
`ViewCatchesUp`), which this prover does not reach.  Every invariant and every action property of the
runs is a theorem.

## 5. Not covered

* What SQLite, Helm, gRPC, Kubernetes, the gadget context and plugins do inside.
  They are external: they succeed or fail, answer or do not.
* Payloads, formatting, wording, logging, layout.
* In the pipeline: log lines, the bookkeeping of the current session, and a
  processor whose event makes a flush throw (3.3).
* In DnsCorrelation: packets without a timestamp, which have no deadline
  (dnsCorrelator.ts:211-212), and the runtime's container as an identity.  In Replay: that a
  run without events is not recorded as loaded.
* In Deployment: chart values, the shared repositories.yaml, log lists.
* The parts marked not_modelled in PROJECT.json; of these the plan takes up
  those with behaviour of their own.

## 6. The plan

Done, in this order because recordings and runs are what a user cannot get back:
SessionStore with SessionArchive; GadgetRun with RunProtocol; RingBuffer with
NewestFirst, EventPipeline on top of it; Deployment; Connection, which all of them
send through; then the page: EventTable on the ring, RowSelection with ItemSelection, SnapshotSelection,
PluginRegistry, Replay, the DNS views and the network map.

Next:

1. **A flush that throws**, in EventPipeline, and processors that never answer.
2. **Environments**: files written in place, lists of several pages.
3. **Pure functions** in one module: version comparison against a reference
   order, histogram buckets, virtual scrolling.

Proofs: what is left is liveness, which this prover does not reach.
