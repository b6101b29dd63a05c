------------------------------ MODULE GadgetRun -------------------------------
(***************************************************************************)
(* A gadget run seen from the backend: Service.Run and Service.Attach of   *)
(* pkg/gadget, the InstanceManager that cancels runs, and the stream to    *)
(* each node in runGadget of pkg/grpc-runtime.                             *)
(*                                                                         *)
(* A run is named by its instance ID, a fresh UUID. Its goroutine opens    *)
(* one stream per target; a stream has the goroutine of runGadget (field   *)
(* stream: which select it is in) and the receiver goroutine it starts     *)
(* (receiver), which hands its last error over the unbuffered doneChan.    *)
(* The server at the other end and the gadget context are external.        *)
(***************************************************************************)
EXTENDS Integers, Sequences, FiniteSets

CONSTANTS
  Runs,         \* the instance UUIDs that may be generated
  Targets,      \* the nodes (gadget pods or remote addresses)
  MaxPayloads,  \* bound: payloads a server produces on one stream
  CanTimeout,   \* whether ResultTimeout may pass before the server has ended
  CanBreak,     \* whether a connection may fail
  CanDrop,      \* whether a server may drop payloads (its buffer is full)
  CanFail       \* whether statements on the databases of a session may fail

ASSUME RunAssumption ==
  /\ MaxPayloads \in Nat
  /\ CanTimeout \in BOOLEAN
  /\ CanBreak \in BOOLEAN
  /\ CanDrop \in BOOLEAN
  /\ CanFail \in BOOLEAN

Streams == Runs \X Targets

VARIABLES
  kind,         \* what was asked for: none, run, detached, attach
  recording,    \* the runs asked for with Record
  cancellers,   \* InstanceManager.cancellers
  cancelled,    \* the runs whose context is done
  goro,         \* the next step of the goroutine of Run or Attach
  gctx,         \* the gadget context: empty, starting, subscribed or failed
  announced,    \* the runs whose GadgetInfo was sent to the client
  sent,         \* the number of data events of a run sent to the client
  stopped,      \* the runs whose GadgetStop was sent to the client
  session,      \* the recorded run: none, active, closed
  recorded,     \* the number of data events of a run in the recording
  writeErrors,  \* the number of "failed to write event" logged for a run
  stopErrors,   \* the runs with "failed to stop gadget run" in the log
  stream,       \* runGadget: none, dialing, open, stopping, ended
  receiver,     \* its receiver goroutine
  initialized,  \* no, yes, or refused (LoadGadgetInfo returned an error)
  expected,     \* expectedSeq
  reported,     \* the sum of the "messages dropped" it warned of
  handled,      \* the payloads it took after it was initialized
  timedOut,     \* the streams that gave up waiting for the result
  wire,         \* the messages on their way from the server
  server,       \* the server: idle, fresh, running, closed, broken
  produced      \* the sequence number of its last payload

clientVars == <<announced, sent, stopped>>
recVars    == <<session, recorded, writeErrors, stopErrors>>
runVars    == <<kind, recording, cancellers, cancelled, goro>>
seqVars    == <<expected, reported, handled>>
srvVars    == <<wire, server, produced>>
vars == <<runVars, gctx, clientVars, recVars, stream, receiver, initialized,
          seqVars, timedOut, srvVars>>

Info       == [type |-> "info",   seq |-> 0]
Result     == [type |-> "result", seq |-> 0]
End        == [type |-> "end",    seq |-> 0]
Payload(n) == [type |-> "payload", seq |-> n]
Message    == [type : {"info", "result", "end", "payload"}, seq : Nat]

Init ==
  /\ kind = [r \in Runs |-> "none"]
  /\ recording = {}
  /\ cancellers = {}
  /\ cancelled = {}
  /\ goro = [r \in Runs |-> "none"]
  /\ gctx = [r \in Runs |-> "empty"]
  /\ announced = {}
  /\ sent = [r \in Runs |-> 0]
  /\ stopped = {}
  /\ session = [r \in Runs |-> "none"]
  /\ recorded = [r \in Runs |-> 0]
  /\ writeErrors = [r \in Runs |-> 0]
  /\ stopErrors = {}
  /\ stream = [x \in Streams |-> "none"]
  /\ receiver = [x \in Streams |-> "none"]
  /\ initialized = [x \in Streams |-> "no"]
  /\ expected = [x \in Streams |-> 1]
  /\ reported = [x \in Streams |-> 0]
  /\ handled = [x \in Streams |-> 0]
  /\ timedOut = {}
  /\ wire = [x \in Streams |-> <<>>]
  /\ server = [x \in Streams |-> "idle"]
  /\ produced = [x \in Streams |-> 0]

-----------------------------------------------------------------------------
(* Requests of the client *)

\* a run may ask for a recording; a detached one never reaches OnPreStart and
\* an attached one is not recorded
MayRecord(k) == IF k = "run" THEN BOOLEAN ELSE {FALSE}

\* Service.Run and Service.Attach: register, then start the goroutine
Start(r, k) ==
  /\ kind[r] = "none"
  /\ kind' = [kind EXCEPT ![r] = k]
  /\ \E rec \in MayRecord(k) :
       recording' = IF rec THEN recording \cup {r} ELSE recording
  /\ cancellers' = cancellers \cup {r}
  /\ goro' = [goro EXCEPT ![r] = "targets"]
  /\ UNCHANGED <<cancelled, gctx, clientVars, recVars, stream, receiver,
                 initialized, seqVars, timedOut, srvVars>>

\* InstanceManager.Stop; an error for an instance that is not registered
StopInstance(r) ==
  /\ r \in cancellers
  /\ cancelled' = cancelled \cup {r}
  /\ UNCHANGED <<kind, recording, cancellers, goro, gctx, clientVars, recVars,
                 stream, receiver, initialized, seqVars, timedOut, srvVars>>

-----------------------------------------------------------------------------
(* The goroutine of Run and Attach: RunGadget, and what follows it *)

\* getTargets, and one goroutine per target; an error leaves no target
ResolveTargets(r) ==
  /\ goro[r] = "targets"
  /\ kind[r] # "detached"
  /\ \E T \in SUBSET Targets :
       stream' = [x \in Streams |->
                    IF x[1] = r /\ x[2] \in T THEN "dialing" ELSE stream[x]]
  /\ goro' = [goro EXCEPT ![r] = "streams"]
  /\ UNCHANGED <<kind, recording, cancellers, cancelled, gctx, clientVars,
                 recVars, receiver, initialized, seqVars, timedOut, srvVars>>

\* createGadgetInstance: the run ends once the instance is installed
CreateInstance(r) ==
  /\ goro[r] = "targets"
  /\ kind[r] = "detached"
  /\ goro' = [goro EXCEPT ![r] = "finish"]
  /\ UNCHANGED <<kind, recording, cancellers, cancelled, gctx, clientVars,
                 recVars, stream, receiver, initialized, seqVars, timedOut,
                 srvVars>>

\* wg.Wait of runGadgetOnTargets; without it one finished target is enough
AnyStreamEnded(r) == \E t \in Targets : stream[<<r, t>>] = "ended"
StreamsEnded(r) == \A t \in Targets : stream[<<r, t>>] \in {"none", "ended"}

FinishStreams(r) ==
  /\ goro[r] = "streams"
  /\ StreamsEnded(r)
  /\ goro' = [goro EXCEPT ![r] = "finish"]
  /\ UNCHANGED <<kind, recording, cancellers, cancelled, gctx, clientVars,
                 recVars, stream, receiver, initialized, seqVars, timedOut,
                 srvVars>>

\* StopGadgetRun, which Attach does not call
StopRecordingForgotten(r) ==
  /\ goro[r] = "finish"
  /\ goro' = [goro EXCEPT ![r] = "unregister"]
  /\ UNCHANGED <<kind, recording, cancellers, cancelled, gctx, clientVars,
                 recVars, stream, receiver, initialized, seqVars, timedOut,
                 srvVars>>

\* an early return of StopGadgetRun leaves the run active and is only logged
StopRecording(r) ==
  /\ goro[r] = "finish"
  /\ LET active == kind[r] # "attach" /\ session[r] = "active"
     IN \/ /\ session' = IF active THEN [session EXCEPT ![r] = "closed"] ELSE session
           /\ UNCHANGED stopErrors
        \/ /\ CanFail /\ active
           /\ stopErrors' = stopErrors \cup {r}
           /\ UNCHANGED session
  /\ goro' = [goro EXCEPT ![r] = "unregister"]
  /\ UNCHANGED <<kind, recording, cancellers, cancelled, gctx, clientVars,
                 recorded, writeErrors, stream, receiver, initialized, seqVars,
                 timedOut, srvVars>>

Unregister(r) ==
  /\ goro[r] = "unregister"
  /\ cancellers' = cancellers \ {r}
  /\ cancelled' = cancelled \cup {r}
  /\ goro' = [goro EXCEPT ![r] = "sendStop"]
  /\ UNCHANGED <<kind, recording, gctx, clientVars, recVars, stream, receiver,
                 initialized, seqVars, timedOut, srvVars>>

SendStop(r) ==
  /\ goro[r] = "sendStop"
  /\ stopped' = stopped \cup {r}
  /\ goro' = [goro EXCEPT ![r] = "done"]
  /\ UNCHANGED <<kind, recording, cancellers, cancelled, gctx, announced, sent,
                 recVars, stream, receiver, initialized, seqVars, timedOut,
                 srvVars>>

-----------------------------------------------------------------------------
(* runGadget for one target *)

\* dials, opens the stream, sends the request and starts the receiver; any of
\* these may fail
Dial(x) ==
  /\ stream[x] = "dialing"
  /\ \/ /\ stream' = [stream EXCEPT ![x] = "open"]
        /\ receiver' = [receiver EXCEPT ![x] = "reading"]
        /\ server' = [server EXCEPT ![x] = "fresh"]
     \/ /\ stream' = [stream EXCEPT ![x] = "ended"]
        /\ UNCHANGED <<receiver, server>>
  /\ UNCHANGED <<runVars, gctx, clientVars, recVars, initialized, seqVars,
                 timedOut, wire, produced>>

InteractiveNever(r) == FALSE
Interactive(r) == kind[r] # "attach"

\* the select on the user's context: a stop request and the second select (the
\* server may end at any time, asked to or not), or an immediate return
SeeCancel(x) ==
  /\ stream[x] = "open"
  /\ x[1] \in cancelled
  /\ stream' = [stream EXCEPT ![x] =
                  IF Interactive(x[1]) THEN "stopping" ELSE "ended"]
  /\ UNCHANGED <<runVars, gctx, clientVars, recVars, receiver, initialized,
                 seqVars, timedOut, srvVars>>

\* the select on doneChan: the receiver returns after the hand-over
HandOver(x) ==
  /\ receiver[x] = "handing"
  /\ stream[x] \in {"open", "stopping"}
  /\ stream' = [stream EXCEPT ![x] = "ended"]
  /\ receiver' = [receiver EXCEPT ![x] = "gone"]
  /\ UNCHANGED <<runVars, gctx, clientVars, recVars, initialized, seqVars,
                 timedOut, srvVars>>

\* time.After(ResultTimeout), or a wait without it
NoResultTimeout(x) == FALSE /\ UNCHANGED vars
ResultTimeout(x) ==
  /\ CanTimeout
  /\ stream[x] = "stopping"
  /\ stream' = [stream EXCEPT ![x] = "ended"]
  /\ timedOut' = timedOut \cup {x}
  /\ UNCHANGED <<runVars, gctx, clientVars, recVars, receiver, initialized,
                 seqVars, srvVars>>

-----------------------------------------------------------------------------
(* The receiver goroutine *)

Receiving(x) == receiver[x] = "reading" /\ wire[x] # <<>>
Take(x) == wire' = [wire EXCEPT ![x] = Tail(@)]
Receiver(x, pc) == receiver' = [receiver EXCEPT ![x] = pc]

\* LoadGadgetInfo: the first one starts the gadget context and its operators,
\* a later one is compared with it
ReceiveInfo(x) ==
  /\ Receiving(x)
  /\ Head(wire[x]).type = "info"
  /\ Take(x)
  /\ \/ /\ gctx[x[1]] = "empty"
        /\ gctx' = [gctx EXCEPT ![x[1]] = "starting"]
        /\ Receiver(x, "preStart")
        /\ UNCHANGED initialized
     \/ /\ gctx' = [gctx EXCEPT ![x[1]] = IF @ = "empty" THEN "failed" ELSE @]
        /\ initialized' = [initialized EXCEPT ![x] = "refused"]
        /\ UNCHANGED receiver
     \/ /\ gctx[x[1]] # "empty"
        /\ initialized' = [initialized EXCEPT ![x] = "yes"]
        /\ UNCHANGED <<gctx, receiver>>
  /\ UNCHANGED <<runVars, clientVars, recVars, stream, seqVars, timedOut,
                 server, produced>>

\* OnPreStart: setupSessionRecording, which may fail
SetupRecording(x) ==
  /\ receiver[x] = "preStart"
  /\ Receiver(x, "announce")
  /\ \/ /\ x[1] \in recording
        /\ session' = [session EXCEPT ![x[1]] = "active"]
     \/ UNCHANGED session
  /\ UNCHANGED <<runVars, gctx, clientVars, recorded, writeErrors, stopErrors,
                 stream, initialized, seqVars, timedOut, srvVars>>

SendInfo(x) ==
  /\ receiver[x] = "announce"
  /\ Receiver(x, "subscribe")
  /\ announced' = announced \cup {x[1]}
  /\ UNCHANGED <<runVars, gctx, sent, stopped, recVars, stream, initialized,
                 seqVars, timedOut, srvVars>>

\* subscribeToDataSources; it, or what LoadGadgetInfo still has to do, may fail
Subscribe(x) ==
  /\ receiver[x] = "subscribe"
  /\ Receiver(x, "reading")
  /\ \/ /\ gctx' = [gctx EXCEPT ![x[1]] = "subscribed"]
        /\ \E res \in {"yes", "refused"} :
             initialized' = [initialized EXCEPT ![x] = res]
     \/ /\ gctx' = [gctx EXCEPT ![x[1]] = "failed"]
        /\ initialized' = [initialized EXCEPT ![x] = "refused"]
  /\ UNCHANGED <<runVars, clientVars, recVars, stream, seqVars, timedOut,
                 srvVars>>

DropUninitialized(x) ==
  /\ Receiving(x)
  /\ Head(wire[x]).type = "payload"
  /\ initialized[x] # "yes"
  /\ Take(x)
  /\ UNCHANGED <<runVars, gctx, clientVars, recVars, stream, receiver,
                 initialized, seqVars, timedOut, server, produced>>

\* the sequence number expected after n
ExpectedKept(x, n) == expected[x] + 1
NextExpected(x, n) == n + 1

\* warns of a gap; emits unless the data source is unknown or the payload
\* cannot be decoded; only subscribers see what is emitted
ReceivePayload(x) ==
  /\ Receiving(x)
  /\ Head(wire[x]).type = "payload"
  /\ initialized[x] = "yes"
  /\ Take(x)
  /\ LET n == Head(wire[x]).seq
     IN /\ reported' = [reported EXCEPT ![x] = @ + (n - expected[x])]
        /\ expected' = [expected EXCEPT ![x] = NextExpected(x, n)]
  /\ handled' = [handled EXCEPT ![x] = @ + 1]
  /\ \/ gctx[x[1]] = "subscribed" /\ Receiver(x, "sending")
     \/ UNCHANGED receiver
  /\ UNCHANGED <<runVars, gctx, clientVars, recVars, stream, initialized,
                 timedOut, server, produced>>

\* the subscriber: send to the client, then WriteEvent when recording
SendEvent(x) ==
  /\ receiver[x] = "sending"
  /\ sent' = [sent EXCEPT ![x[1]] = @ + 1]
  /\ Receiver(x, IF x[1] \in recording THEN "writing" ELSE "reading")
  /\ UNCHANGED <<runVars, gctx, announced, stopped, recVars, stream,
                 initialized, seqVars, timedOut, srvVars>>

\* a no-op when the run is not active in the session store; an insert that
\* fails is only logged, and the receiver goes on
WriteEvent(x) ==
  /\ receiver[x] = "writing"
  /\ Receiver(x, "reading")
  /\ \/ /\ recorded' = IF session[x[1]] = "active"
                         THEN [recorded EXCEPT ![x[1]] = @ + 1] ELSE recorded
        /\ UNCHANGED writeErrors
     \/ /\ CanFail /\ session[x[1]] = "active"
        /\ writeErrors' = [writeErrors EXCEPT ![x[1]] = @ + 1]
        /\ UNCHANGED recorded
  /\ UNCHANGED <<runVars, gctx, clientVars, session, stopErrors, stream,
                 initialized, seqVars, timedOut, srvVars>>

\* job IDs and results, which no caller of RunGadget in this program reads
ReceiveResult(x) ==
  /\ Receiving(x)
  /\ Head(wire[x]).type = "result"
  /\ Take(x)
  /\ UNCHANGED <<runVars, gctx, clientVars, recVars, stream, receiver,
                 initialized, seqVars, timedOut, server, produced>>

\* connCtx is not derived from the user's context: only the return of
\* runGadget ends the connection
ConnectionFollowsUser(x) == stream[x] = "ended" \/ x[1] \in cancelled
ConnectionGone(x) == stream[x] = "ended"

\* Recv returns an error or EOF: the receiver blocks on doneChan
ReceiveEnd(x) ==
  /\ receiver[x] = "reading"
  /\ Receiver(x, "handing")
  /\ \/ /\ Receiving(x)
        /\ Head(wire[x]).type = "end"
        /\ Take(x)
     \/ /\ ConnectionGone(x)
        /\ UNCHANGED wire
  /\ UNCHANGED <<runVars, gctx, clientVars, recVars, stream, initialized,
                 seqVars, timedOut, server, produced>>

-----------------------------------------------------------------------------
(* The server (external): the info first, then payloads, the result, EOF *)

Connected(x) == stream[x] \in {"open", "stopping"}

ServerInfo(x) ==
  /\ Connected(x)
  /\ server[x] = "fresh"
  /\ server' = [server EXCEPT ![x] = "running"]
  /\ wire' = [wire EXCEPT ![x] = Append(@, Info)]
  /\ UNCHANGED <<runVars, gctx, clientVars, recVars, stream, receiver,
                 initialized, seqVars, timedOut, produced>>

\* a payload, put on the wire or dropped
ServerPayload(x) ==
  /\ Connected(x)
  /\ server[x] = "running"
  /\ produced[x] < MaxPayloads
  /\ produced' = [produced EXCEPT ![x] = @ + 1]
  /\ \/ wire' = [wire EXCEPT ![x] = Append(@, Payload(produced[x] + 1))]
     \/ CanDrop /\ UNCHANGED wire
  /\ UNCHANGED <<runVars, gctx, clientVars, recVars, stream, receiver,
                 initialized, seqVars, timedOut, server>>

\* the gadget ends by itself or after the stop request
ServerEnd(x) ==
  /\ Connected(x)
  /\ server[x] \in {"fresh", "running"}
  /\ server' = [server EXCEPT ![x] = "closed"]
  /\ wire' = [wire EXCEPT ![x] = @ \o <<Result, End>>]
  /\ UNCHANGED <<runVars, gctx, clientVars, recVars, stream, receiver,
                 initialized, seqVars, timedOut, produced>>

\* the connection fails and what was under way is lost
Break(x) ==
  /\ CanBreak
  /\ Connected(x)
  /\ server[x] # "broken"
  /\ server' = [server EXCEPT ![x] = "broken"]
  /\ wire' = [wire EXCEPT ![x] = <<End>>]
  /\ receiver[x] \notin {"handing", "gone"}
  /\ UNCHANGED <<runVars, gctx, clientVars, recVars, stream, receiver,
                 initialized, seqVars, timedOut, produced>>

-----------------------------------------------------------------------------

GoRun(r) ==
  \/ ResolveTargets(r) \/ CreateInstance(r) \/ FinishStreams(r)
  \/ StopRecording(r) \/ Unregister(r) \/ SendStop(r)

GoStream(x) == Dial(x) \/ SeeCancel(x) \/ HandOver(x) \/ ResultTimeout(x)

GoReceiver(x) ==
  \/ ReceiveInfo(x) \/ SetupRecording(x) \/ SendInfo(x) \/ Subscribe(x)
  \/ DropUninitialized(x) \/ ReceivePayload(x) \/ SendEvent(x) \/ WriteEvent(x)
  \/ ReceiveResult(x) \/ ReceiveEnd(x)

Server(x) == ServerInfo(x) \/ ServerPayload(x) \/ ServerEnd(x) \/ Break(x)

Next ==
  \/ \E r \in Runs : \/ \E k \in {"run", "detached", "attach"} : Start(r, k)
                     \/ StopInstance(r)
                     \/ GoRun(r)
  \/ \E x \in Streams : GoStream(x) \/ GoReceiver(x) \/ Server(x)

Spec == Init /\ [][Next]_vars

\* the Go scheduler runs every goroutine that can go on, and timers fire; the
\* server may stay silent for ever
Fairness ==
  /\ \A r \in Runs : WF_vars(GoRun(r))
  /\ \A x \in Streams : WF_vars(GoStream(x)) /\ WF_vars(GoReceiver(x))

FairSpec == Spec /\ Fairness

-----------------------------------------------------------------------------
(* Properties *)

\* Types, and how far the goroutines of a run can be apart.
TypeOK ==
  /\ kind \in [Runs -> {"none", "run", "detached", "attach"}]
  /\ recording \in SUBSET Runs
  /\ cancellers \in SUBSET Runs
  /\ cancelled \in SUBSET Runs
  /\ goro \in [Runs -> {"none", "targets", "streams", "finish", "unregister",
                        "sendStop", "done"}]
  /\ gctx \in [Runs -> {"empty", "starting", "subscribed", "failed"}]
  /\ announced \in SUBSET Runs
  /\ sent \in [Runs -> Nat]
  /\ stopped \in SUBSET Runs
  /\ session \in [Runs -> {"none", "active", "closed"}]
  /\ recorded \in [Runs -> Nat]
  /\ writeErrors \in [Runs -> Nat]
  /\ stopErrors \in SUBSET Runs
  /\ stream \in [Streams -> {"none", "dialing", "open", "stopping", "ended"}]
  /\ receiver \in [Streams -> {"none", "reading", "preStart", "announce",
                     "subscribe", "sending", "writing", "handing", "gone"}]
  /\ initialized \in [Streams -> {"no", "yes", "refused"}]
  /\ expected \in [Streams -> Nat]
  /\ reported \in [Streams -> Int]
  /\ handled \in [Streams -> Nat]
  /\ timedOut \in SUBSET Streams
  /\ wire \in [Streams -> Seq(Message)]
  /\ server \in [Streams -> {"idle", "fresh", "running", "closed", "broken"}]
  /\ produced \in [Streams -> Nat]

StreamsOf(r) == {x \in Streams : x[1] = r}

\* a receiver that is left behind when runGadget returns
AbandonedStream(x) ==
  stream[x] = "ended" /\ receiver[x] \notin {"none", "gone"}
AbandonedRuns == {r \in Runs : \E x \in StreamsOf(r) : AbandonedStream(x)}

\* a run somebody watched to its end: not attached, and no result timeout
Orderly(r) == kind[r] # "attach" /\ StreamsOf(r) \cap timedOut = {}

\* runGadget waits for its receiver: when the stream of a run that is not
\* attached ends within the result timeout, its receiver goroutine has
\* returned (oci.go:180-290: no goroutine is left blocked on doneChan).
ReceiverReturns ==
  \A x \in Streams : AbandonedStream(x) => kind[x[1]] = "attach" \/ x \in timedOut

\* A stop does not cut off the data: when an orderly run reports its end,
\* everything its servers sent has been received, unless the connection
\* itself failed (oci.go:124-126).
StopKeepsResults ==
  \A r \in stopped : Orderly(r) =>
    \A x \in StreamsOf(r) : server[x] = "broken" \/ wire[x] = <<>>

\* No event misses the recording in silence: once an orderly run that was
\* recorded is over, closed or not, every data event the client was sent is in
\* the recording or its failed insert is in the log (service.go:106-150, 237-242).
RecordingOver(r) == session[r] = "closed" \/ (session[r] = "active" /\ r \in stopped)
RecordingComplete ==
  \A r \in Runs : Orderly(r) /\ RecordingOver(r) =>
    recorded[r] + writeErrors[r] = sent[r]

\* The recording of a run that was watched to its end stays active only if
\* StopGadgetRun failed and the log says so (service.go:237-242).
RecordingClosed ==
  \A r \in stopped : Orderly(r) /\ session[r] = "active" => r \in stopErrors

\* The warnings account for every sequence number up to the last payload:
\* it was handled or reported as dropped (oci.go:206-209).
GapsReported ==
  \A x \in Streams :
    handled[x] + reported[x] = expected[x] - 1 /\ reported[x] >= 0

\* What reaches the client follows the protocol of a run: announced first,
\* nothing after the stop unless a receiver was abandoned.
Protocol == INSTANCE RunProtocol WITH abandoned <- AbandonedRuns
RunsFollowProtocol == Protocol!PSpec

\* A run that is cancelled ends: the goroutine gets to GadgetStop although the
\* server never answers the stop request (oci.go:276-289).
CancelledRunsEnd == \A r \in Runs : r \in cancelled ~> r \in stopped

\* What the comment at service.go:237 says, whatever happened before the end.
NoRecordingLeftActive == \A r \in stopped : session[r] # "active"

-----------------------------------------------------------------------------
(* The inductive invariant of the proofs *)

\* A stream has a receiver exactly between the dial and the hand-over, a run
\* has live streams only while its goroutine waits for them, and stopped names
\* the goroutines that are done.
StageInv ==
  /\ \A x \in Streams :
       /\ stream[x] \in {"none", "dialing"} => receiver[x] = "none"
       /\ Connected(x) => receiver[x] \notin {"none", "gone"}
       /\ goro[x[1]] \in {"none", "targets"} => stream[x] = "none"
       /\ goro[x[1]] \in {"finish", "unregister", "sendStop", "done"} =>
            stream[x] \in {"none", "ended"}
  /\ \A r \in Runs : r \in stopped <=> goro[r] = "done"
  /\ \A r \in Runs : kind[r] = "none" <=> goro[r] = "none"

Loading(x) == receiver[x] \in {"preStart", "announce", "subscribe"}

\* One receiver at most is in OnPreStart for a run, and data events are on
\* their way only for a run that was announced.
LoaderInv ==
  /\ \A x, y \in Streams : Loading(x) /\ Loading(y) /\ x[1] = y[1] => x = y
  /\ \A x \in Streams :
       /\ Loading(x) => gctx[x[1]] = "starting"
       /\ receiver[x] \in {"preStart", "announce"} => x[1] \notin announced
       /\ receiver[x] \in {"subscribe", "sending", "writing"} => x[1] \in announced
  /\ \A r \in Runs : /\ gctx[r] = "empty" => r \notin announced
                     /\ gctx[r] = "subscribed" => r \in announced

\* EOF is the last message of a server; the receiver that took it left nothing
\* behind.
EndIsLast(x) ==
  \A i \in 1 .. Len(wire[x]) : wire[x][i].type = "end" =>
    i = Len(wire[x]) /\ server[x] \in {"closed", "broken"}
WireOK(x) ==
  /\ EndIsLast(x)
  /\ receiver[x] = "none" => wire[x] = <<>> /\ server[x] = "idle"
  /\ receiver[x] \in {"handing", "gone"} /\ ~AbandonedStream(x) =>
       wire[x] = <<>> /\ server[x] \in {"closed", "broken"}
WireInv == \A x \in Streams : WireOK(x)

\* After StopGadgetRun a recording is active only if that failed or a receiver
\* that nobody waited for started it.
RecordingInv ==
  \A r \in Runs :
    Orderly(r) /\ goro[r] \in {"unregister", "sendStop", "done"} /\ session[r] = "active"
      => r \in stopErrors

\* The payloads under way are numbered upwards, from what the receiver expects to
\* what the server has produced, and those before are accounted for.
SeqOK(x) ==
  /\ \A i \in 1 .. Len(wire[x]) : wire[x][i].type = "payload" =>
       expected[x] <= wire[x][i].seq /\ wire[x][i].seq <= produced[x]
  /\ \A i, j \in 1 .. Len(wire[x]) :
       i < j /\ wire[x][i].type = "payload" /\ wire[x][j].type = "payload" =>
         wire[x][i].seq < wire[x][j].seq
  /\ expected[x] <= produced[x] + 1
SeqInv == \A x \in Streams : SeqOK(x)

\* The receivers between the send to the client and WriteEvent.
Writing(r) == {x \in StreamsOf(r) : receiver[x] = "writing"}

\* A recording starts before the first event of its run, and what a client was
\* sent is recorded, logged as lost, or with a receiver on its way to WriteEvent.
EventInv ==
  \A r \in Runs :
    /\ IsFiniteSet(Writing(r))
    /\ Writing(r) # {} => r \in recording
    /\ r \notin announced => sent[r] = 0 /\ recorded[r] = 0 /\ writeErrors[r] = 0
    /\ session[r] # "none" => r \in recording
    /\ r \in recording => kind[r] = "run"
    /\ session[r] = "closed" => goro[r] \in {"unregister", "sendStop", "done"}
    /\ Orderly(r) /\ session[r] # "none" =>
         sent[r] = recorded[r] + writeErrors[r] + Cardinality(Writing(r))

RunInv == /\ TypeOK /\ StageInv /\ LoaderInv /\ WireInv /\ RecordingInv
          /\ ReceiverReturns /\ SeqInv /\ GapsReported /\ EventInv
=============================================================================
