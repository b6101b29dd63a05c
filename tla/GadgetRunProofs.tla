-------------------------- MODULE GadgetRunProofs ---------------------------
(***************************************************************************)
(* Proofs about GadgetRun for every set of runs and targets, every bound,  *)
(* and every choice of timeouts, broken connections, dropped payloads and      *)
(* failing statements of the session store.                                *)
(***************************************************************************)
EXTENDS GadgetRun, FiniteSetTheorems, TLAPS

\* A stream belongs to a run.
LEMMA StreamRun == \A x \in Streams : x[1] \in Runs
  BY DEF Streams

\* runGadgetOnTargets waits for every stream of the run.
LEMMA AllStreamsEnded ==
  ASSUME NEW r \in Runs, StreamsEnded(r), NEW x \in Streams, x[1] = r
  PROVE  stream[x] \in {"none", "ended"}
  <1>1. x = <<r, x[2]>> /\ x[2] \in Targets
    BY DEF Streams
  <1>2. QED
    BY <1>1 DEF StreamsEnded

\* Every step keeps the shape of every variable.
LEMMA TypeStep == RunInv /\ [Next]_vars => TypeOK'
  <1> SUFFICES ASSUME TypeOK, [Next]_vars PROVE TypeOK'
    BY DEF RunInv
  <1> USE StreamRun DEF TypeOK, clientVars, recVars, runVars, seqVars, srvVars
  <1>1. ASSUME NEW r \in Runs, NEW k \in {"run", "detached", "attach"},
                Start(r, k) PROVE TypeOK'
    BY <1>1 DEF Start, MayRecord
  <1>2. ASSUME NEW r \in Runs, StopInstance(r) PROVE TypeOK'
    BY <1>2 DEF StopInstance
  <1>3. ASSUME NEW r \in Runs, ResolveTargets(r) PROVE TypeOK'
    BY <1>3 DEF ResolveTargets
  <1>4. ASSUME NEW r \in Runs, CreateInstance(r) PROVE TypeOK'
    BY <1>4 DEF CreateInstance
  <1>5. ASSUME NEW r \in Runs, FinishStreams(r) PROVE TypeOK'
    BY <1>5 DEF FinishStreams, StreamsEnded
  <1>6. ASSUME NEW r \in Runs, StopRecording(r) PROVE TypeOK'
    BY <1>6 DEF StopRecording
  <1>7. ASSUME NEW r \in Runs, Unregister(r) PROVE TypeOK'
    BY <1>7 DEF Unregister
  <1>8. ASSUME NEW r \in Runs, SendStop(r) PROVE TypeOK'
    BY <1>8 DEF SendStop
  <1>9. ASSUME NEW x \in Streams, Dial(x) PROVE TypeOK'
    <2>1. stream' \in [Streams -> {"none", "dialing", "open", "stopping", "ended"}]
      <3>1. ASSUME NEW v \in {"open", "ended"}, stream' = [stream EXCEPT ![x] = v]
            PROVE  stream' \in [Streams -> {"none", "dialing", "open", "stopping", "ended"}]
        BY <3>1
      <3>2. \E v \in {"open", "ended"} : stream' = [stream EXCEPT ![x] = v]
        BY <1>9 DEF Dial
      <3>3. QED
        BY <3>1, <3>2
    <2>2. receiver' \in [Streams -> {"none", "reading", "preStart", "announce",
            "subscribe", "sending", "writing", "handing", "gone"}]
      <3>1. \/ receiver' = [receiver EXCEPT ![x] = "reading"]
            \/ receiver' = receiver
        BY <1>9 DEF Dial
      <3>2. QED
        <4>1. CASE receiver' = [receiver EXCEPT ![x] = "reading"]
          BY <4>1
        <4>2. CASE receiver' = receiver
          BY <4>2
        <4>3. QED
          BY <3>1, <4>1, <4>2
    <2>3. server' \in [Streams -> {"idle", "fresh", "running", "closed", "broken"}]
      <3>1. \/ server' = [server EXCEPT ![x] = "fresh"]
            \/ server' = server
        BY <1>9 DEF Dial
      <3>2. QED
        BY <3>1
    <2>4. QED
      BY <1>9, <2>1, <2>2, <2>3 DEF Dial
  <1>10. ASSUME NEW x \in Streams, SeeCancel(x) PROVE TypeOK'
    BY <1>10 DEF SeeCancel, Interactive
  <1>11. ASSUME NEW x \in Streams, HandOver(x) PROVE TypeOK'
    BY <1>11 DEF HandOver
  <1>12. ASSUME NEW x \in Streams, ResultTimeout(x) PROVE TypeOK'
    BY <1>12 DEF ResultTimeout
  <1>13. ASSUME NEW x \in Streams, ReceiveInfo(x) PROVE TypeOK'
    <2>1. wire' \in [Streams -> Seq(Message)]
      BY <1>13 DEF ReceiveInfo, Receiving, Take, Receiver
    <2>2. receiver' \in [Streams -> {"none", "reading", "preStart", "announce",
            "subscribe", "sending", "writing", "handing", "gone"}]
      BY <1>13 DEF ReceiveInfo, Receiving, Take, Receiver
    <2>3. initialized' \in [Streams -> {"no", "yes", "refused"}]
      <3>1. CASE \E v \in {"yes", "refused"} : initialized' = [initialized EXCEPT ![x] = v]
        BY <3>1
      <3>2. CASE UNCHANGED initialized
        BY <3>2
      <3>3. QED
        BY <1>13, <3>1, <3>2 DEF ReceiveInfo
    <2>4. gctx' \in [Runs -> {"empty", "starting", "subscribed", "failed"}]
      <3>1. CASE gctx' = [gctx EXCEPT ![x[1]] = "starting"]
        BY <3>1
      <3>2. CASE gctx' = [gctx EXCEPT ![x[1]] = IF @ = "empty" THEN "failed" ELSE @]
        BY <3>2
      <3>3. CASE UNCHANGED gctx
        BY <3>3
      <3>4. QED
        BY <1>13, <3>1, <3>2, <3>3 DEF ReceiveInfo
    <2>5. QED
      BY <1>13, <2>1, <2>2, <2>3, <2>4 DEF ReceiveInfo
  <1>14. ASSUME NEW x \in Streams, SetupRecording(x) PROVE TypeOK'
    <2>1. receiver' \in [Streams -> {"none", "reading", "preStart", "announce",
            "subscribe", "sending", "writing", "handing", "gone"}]
      BY <1>14 DEF SetupRecording, Receiver
    <2>2. session' \in [Runs -> {"none", "active", "closed"}]
      <3>1. \/ session' = [session EXCEPT ![x[1]] = "active"]
            \/ session' = session
        BY <1>14 DEF SetupRecording
      <3>2. CASE session' = [session EXCEPT ![x[1]] = "active"]
        BY <3>2
      <3>3. CASE session' = session
        BY <3>3
      <3>4. QED
        BY <3>1, <3>2, <3>3
    <2>3. QED
      BY <1>14, <2>1, <2>2 DEF SetupRecording
  <1>15. ASSUME NEW x \in Streams, SendInfo(x) PROVE TypeOK'
    BY <1>15 DEF SendInfo, Receiver
  <1>16. ASSUME NEW x \in Streams, Subscribe(x) PROVE TypeOK'
    <2>1. receiver' \in [Streams -> {"none", "reading", "preStart", "announce",
            "subscribe", "sending", "writing", "handing", "gone"}]
      BY <1>16 DEF Subscribe, Receiver
    <2>2. initialized' \in [Streams -> {"no", "yes", "refused"}]
      <3>1. ASSUME NEW v \in {"yes", "refused"}, initialized' = [initialized EXCEPT ![x] = v]
            PROVE  initialized' \in [Streams -> {"no", "yes", "refused"}]
        BY <3>1
      <3>2. \E v \in {"yes", "refused"} : initialized' = [initialized EXCEPT ![x] = v]
        BY <1>16 DEF Subscribe
      <3>3. QED
        BY <3>1, <3>2
    <2>3. gctx' \in [Runs -> {"empty", "starting", "subscribed", "failed"}]
      <3>1. ASSUME NEW v \in {"subscribed", "failed"}, gctx' = [gctx EXCEPT ![x[1]] = v]
            PROVE  gctx' \in [Runs -> {"empty", "starting", "subscribed", "failed"}]
        BY <3>1
      <3>2. \E v \in {"subscribed", "failed"} : gctx' = [gctx EXCEPT ![x[1]] = v]
        BY <1>16 DEF Subscribe
      <3>3. QED
        BY <3>1, <3>2
    <2>4. QED
      BY <1>16, <2>1, <2>2, <2>3 DEF Subscribe
  <1>17. ASSUME NEW x \in Streams, DropUninitialized(x) PROVE TypeOK'
    BY <1>17, SMTT(30) DEF DropUninitialized, Receiving, Take
  <1>18. ASSUME NEW x \in Streams, ReceivePayload(x) PROVE TypeOK'
    <2>1. /\ wire[x] \in Seq(Message)
          /\ wire[x] # <<>>
          /\ Head(wire[x]) \in Message
      BY <1>18 DEF ReceivePayload, Receiving
    <2>2. wire' \in [Streams -> Seq(Message)]
      BY <1>18, <2>1 DEF ReceivePayload, Take
    <2>3. receiver' \in [Streams -> {"none", "reading", "preStart", "announce",
            "subscribe", "sending", "writing", "handing", "gone"}]
      <3>1. CASE receiver' = [receiver EXCEPT ![x] = "sending"]
        BY <3>1
      <3>2. CASE UNCHANGED receiver
        BY <3>2
      <3>3. QED
        BY <1>18, <3>1, <3>2 DEF ReceivePayload, Receiver
    <2>4. Head(wire[x]).seq \in Nat
      BY <2>1 DEF Message
    <2>5. expected' \in [Streams -> Nat]
      BY <1>18, <2>4, SMTT(30) DEF ReceivePayload, NextExpected
    <2>6. reported' \in [Streams -> Int]
      <3>1. reported[x] + (Head(wire[x]).seq - expected[x]) \in Int
        BY <2>4
      <3>2. QED
        BY <1>18, <3>1 DEF ReceivePayload
    <2>7. handled' \in [Streams -> Nat]
      BY <1>18 DEF ReceivePayload
    <2>8. QED
      BY <1>18, <2>2, <2>3, <2>5, <2>6, <2>7 DEF ReceivePayload
  <1>19. ASSUME NEW x \in Streams, SendEvent(x) PROVE TypeOK'
    BY <1>19, SMTT(30) DEF SendEvent, Receiver
  <1>20. ASSUME NEW x \in Streams, WriteEvent(x) PROVE TypeOK'
    <2>1. receiver' \in [Streams -> {"none", "reading", "preStart", "announce",
            "subscribe", "sending", "writing", "handing", "gone"}]
      BY <1>20 DEF WriteEvent, Receiver
    <2>2. recorded' \in [Runs -> Nat]
      <3>1. CASE UNCHANGED recorded
        BY <3>1
      <3>2. CASE recorded' = [recorded EXCEPT ![x[1]] = @ + 1]
        BY <3>2
      <3>3. QED
        BY <1>20, <3>1, <3>2 DEF WriteEvent
    <2>3. writeErrors' \in [Runs -> Nat]
      <3>1. CASE UNCHANGED writeErrors
        BY <3>1
      <3>2. CASE writeErrors' = [writeErrors EXCEPT ![x[1]] = @ + 1]
        BY <3>2
      <3>3. QED
        BY <1>20, <3>1, <3>2 DEF WriteEvent
    <2>4. QED
      BY <1>20, <2>1, <2>2, <2>3 DEF WriteEvent
  <1>21. ASSUME NEW x \in Streams, ReceiveResult(x) PROVE TypeOK'
    BY <1>21 DEF ReceiveResult, Receiving, Take
  <1>22. ASSUME NEW x \in Streams, ReceiveEnd(x) PROVE TypeOK'
    <2>1. wire' \in [Streams -> Seq(Message)]
      <3>1. CASE wire[x] # <<>> /\ wire' = [wire EXCEPT ![x] = Tail(@)]
        BY <3>1
      <3>2. CASE UNCHANGED wire
        BY <3>2
      <3>3. QED
        BY <1>22, <3>1, <3>2 DEF ReceiveEnd, Receiving, Take
    <2>2. receiver' \in [Streams -> {"none", "reading", "preStart", "announce",
            "subscribe", "sending", "writing", "handing", "gone"}]
      BY <1>22 DEF ReceiveEnd, Receiver
    <2>3. QED
      BY <1>22, <2>1, <2>2 DEF ReceiveEnd
  <1>23. ASSUME NEW x \in Streams, ServerInfo(x) PROVE TypeOK'
    BY <1>23 DEF ServerInfo, Connected, Info, Message
  <1>24. ASSUME NEW x \in Streams, ServerPayload(x) PROVE TypeOK'
    <2>1. Payload(produced[x] + 1) \in Message
      BY DEF Payload, Message
    <2>2. wire' \in [Streams -> Seq(Message)]
      <3>1. CASE wire' = [wire EXCEPT ![x] = Append(@, Payload(produced[x] + 1))]
        BY <2>1, <3>1
      <3>2. CASE UNCHANGED wire
        BY <3>2
      <3>3. QED
        BY <1>24, <3>1, <3>2 DEF ServerPayload
    <2>3. produced' \in [Streams -> Nat]
      BY <1>24 DEF ServerPayload
    <2>4. QED
      BY <1>24, <2>2, <2>3 DEF ServerPayload
  <1>25. ASSUME NEW x \in Streams, ServerEnd(x) PROVE TypeOK'
    BY <1>25 DEF ServerEnd, Connected, Result, End, Message
  <1>26. ASSUME NEW x \in Streams, Break(x) PROVE TypeOK'
    BY <1>26 DEF Break, Connected, End, Message
  <1>27. CASE UNCHANGED vars
    BY <1>27 DEF vars
  <1>28. QED
    BY <1>1, <1>2, <1>3, <1>4, <1>5, <1>6, <1>7, <1>8, <1>9, <1>10, <1>11, <1>12, <1>13, <1>14, <1>15, <1>16, <1>17, <1>18, <1>19, <1>20, <1>21, <1>22, <1>23, <1>24, <1>25, <1>26, <1>27
       DEF Next, GoRun, GoStream, GoReceiver, Server

\* Streams, receivers and the goroutine of the run stay in step.
LEMMA StageStep == RunInv /\ [Next]_vars => StageInv'
  <1> SUFFICES ASSUME TypeOK, StageInv, [Next]_vars PROVE StageInv'
    BY DEF RunInv
  <1> USE StreamRun DEF TypeOK, StageInv, Connected, clientVars, recVars, runVars, seqVars, srvVars
  <1>1. ASSUME NEW r \in Runs, NEW k \in {"run", "detached", "attach"},
                Start(r, k) PROVE StageInv'
    BY <1>1 DEF Start
  <1>2. ASSUME NEW r \in Runs, StopInstance(r) PROVE StageInv'
    BY <1>2 DEF StopInstance
  <1>3. ASSUME NEW r \in Runs, ResolveTargets(r) PROVE StageInv'
    BY <1>3 DEF ResolveTargets
  <1>4. ASSUME NEW r \in Runs, CreateInstance(r) PROVE StageInv'
    BY <1>4 DEF CreateInstance
  <1>5. ASSUME NEW r \in Runs, FinishStreams(r) PROVE StageInv'
    <2>1. \A x \in Streams : x[1] = r => stream[x] \in {"none", "ended"}
      BY <1>5, AllStreamsEnded DEF FinishStreams
    <2>2. QED
      BY <1>5, <2>1 DEF FinishStreams
  <1>6. ASSUME NEW r \in Runs, StopRecording(r) PROVE StageInv'
    BY <1>6 DEF StopRecording
  <1>7. ASSUME NEW r \in Runs, Unregister(r) PROVE StageInv'
    BY <1>7 DEF Unregister
  <1>8. ASSUME NEW r \in Runs, SendStop(r) PROVE StageInv'
    BY <1>8 DEF SendStop
  <1>9. ASSUME NEW x \in Streams, Dial(x) PROVE StageInv'
    BY <1>9 DEF Dial
  <1>10. ASSUME NEW x \in Streams, SeeCancel(x) PROVE StageInv'
    BY <1>10 DEF SeeCancel, Interactive
  <1>11. ASSUME NEW x \in Streams, HandOver(x) PROVE StageInv'
    BY <1>11 DEF HandOver
  <1>12. ASSUME NEW x \in Streams, ResultTimeout(x) PROVE StageInv'
    BY <1>12 DEF ResultTimeout
  <1>13. ASSUME NEW x \in Streams, ReceiveInfo(x) PROVE StageInv'
    <2>1. receiver[x] = "reading" /\ UNCHANGED <<stream, goro, kind, stopped>>
      BY <1>13 DEF ReceiveInfo, Receiving
    <2>2. receiver'[x] \in {"reading", "preStart"}
      BY <1>13, <2>1 DEF ReceiveInfo, Receiver
    <2>3. \A y \in Streams : y # x => receiver'[y] = receiver[y]
      BY <1>13 DEF ReceiveInfo, Receiver
    <2>4. QED
      BY <2>1, <2>2, <2>3
  <1>14. ASSUME NEW x \in Streams, SetupRecording(x) PROVE StageInv'
    BY <1>14 DEF SetupRecording, Receiver
  <1>15. ASSUME NEW x \in Streams, SendInfo(x) PROVE StageInv'
    BY <1>15 DEF SendInfo, Receiver
  <1>16. ASSUME NEW x \in Streams, Subscribe(x) PROVE StageInv'
    BY <1>16 DEF Subscribe, Receiver
  <1>17. ASSUME NEW x \in Streams, DropUninitialized(x) PROVE StageInv'
    BY <1>17 DEF DropUninitialized, Receiving, Take
  <1>18. ASSUME NEW x \in Streams, ReceivePayload(x) PROVE StageInv'
    <2>1. receiver[x] = "reading" /\ UNCHANGED <<stream, goro, kind, stopped>>
      BY <1>18 DEF ReceivePayload, Receiving
    <2>2. receiver'[x] \in {"reading", "sending"}
      BY <1>18, <2>1 DEF ReceivePayload, Receiver
    <2>3. \A y \in Streams : y # x => receiver'[y] = receiver[y]
      BY <1>18 DEF ReceivePayload, Receiver
    <2>4. QED
      BY <2>1, <2>2, <2>3
  <1>19. ASSUME NEW x \in Streams, SendEvent(x) PROVE StageInv'
    BY <1>19 DEF SendEvent, Receiver
  <1>20. ASSUME NEW x \in Streams, WriteEvent(x) PROVE StageInv'
    BY <1>20 DEF WriteEvent, Receiver
  <1>21. ASSUME NEW x \in Streams, ReceiveResult(x) PROVE StageInv'
    BY <1>21 DEF ReceiveResult, Receiving, Take
  <1>22. ASSUME NEW x \in Streams, ReceiveEnd(x) PROVE StageInv'
    BY <1>22 DEF ReceiveEnd, Receiving, Take, Receiver, ConnectionGone
  <1>23. ASSUME NEW x \in Streams, ServerInfo(x) PROVE StageInv'
    BY <1>23 DEF ServerInfo, Connected, Info, Message
  <1>24. ASSUME NEW x \in Streams, ServerPayload(x) PROVE StageInv'
    BY <1>24 DEF ServerPayload, Connected, Payload, Message
  <1>25. ASSUME NEW x \in Streams, ServerEnd(x) PROVE StageInv'
    BY <1>25 DEF ServerEnd, Connected, Result, End, Message
  <1>26. ASSUME NEW x \in Streams, Break(x) PROVE StageInv'
    BY <1>26 DEF Break, Connected, End, Message
  <1>27. CASE UNCHANGED vars
    BY <1>27 DEF vars
  <1>28. QED
    BY <1>1, <1>2, <1>3, <1>4, <1>5, <1>6, <1>7, <1>8, <1>9, <1>10, <1>11, <1>12, <1>13, <1>14, <1>15, <1>16, <1>17, <1>18, <1>19, <1>20, <1>21, <1>22, <1>23, <1>24, <1>25, <1>26, <1>27
       DEF Next, GoRun, GoStream, GoReceiver, Server

\* Only one receiver at a time announces a run.
LEMMA LoaderStep == RunInv /\ [Next]_vars => LoaderInv'
  <1> SUFFICES ASSUME TypeOK, LoaderInv, StageInv, [Next]_vars PROVE LoaderInv'
    BY DEF RunInv
  <1> USE StreamRun DEF TypeOK, LoaderInv, Loading, clientVars, recVars, runVars, seqVars, srvVars
  <1>1. ASSUME NEW r \in Runs, NEW k \in {"run", "detached", "attach"},
                Start(r, k) PROVE LoaderInv'
    BY <1>1 DEF Start
  <1>2. ASSUME NEW r \in Runs, StopInstance(r) PROVE LoaderInv'
    BY <1>2 DEF StopInstance
  <1>3. ASSUME NEW r \in Runs, ResolveTargets(r) PROVE LoaderInv'
    BY <1>3 DEF ResolveTargets
  <1>4. ASSUME NEW r \in Runs, CreateInstance(r) PROVE LoaderInv'
    BY <1>4 DEF CreateInstance
  <1>5. ASSUME NEW r \in Runs, FinishStreams(r) PROVE LoaderInv'
    BY <1>5 DEF FinishStreams, StreamsEnded
  <1>6. ASSUME NEW r \in Runs, StopRecording(r) PROVE LoaderInv'
    BY <1>6 DEF StopRecording
  <1>7. ASSUME NEW r \in Runs, Unregister(r) PROVE LoaderInv'
    BY <1>7 DEF Unregister
  <1>8. ASSUME NEW r \in Runs, SendStop(r) PROVE LoaderInv'
    BY <1>8 DEF SendStop
  <1>9. ASSUME NEW x \in Streams, Dial(x) PROVE LoaderInv'
    <2>1. UNCHANGED <<gctx, announced>>
      BY <1>9 DEF Dial
    <2>2. CASE receiver' = [receiver EXCEPT ![x] = "reading"]
      BY <2>1, <2>2
    <2>3. CASE UNCHANGED receiver
      BY <2>1, <2>3
    <2>4. QED
      BY <1>9, <2>2, <2>3 DEF Dial
  <1>10. ASSUME NEW x \in Streams, SeeCancel(x) PROVE LoaderInv'
    BY <1>10 DEF SeeCancel, Interactive
  <1>11. ASSUME NEW x \in Streams, HandOver(x) PROVE LoaderInv'
    BY <1>11 DEF HandOver
  <1>12. ASSUME NEW x \in Streams, ResultTimeout(x) PROVE LoaderInv'
    BY <1>12 DEF ResultTimeout
  <1>13. ASSUME NEW x \in Streams, ReceiveInfo(x) PROVE LoaderInv'
    <2>1. /\ receiver[x] = "reading"
          /\ UNCHANGED announced
      BY <1>13 DEF ReceiveInfo, Receiving
    <2>2. CASE /\ gctx[x[1]] = "empty"
               /\ gctx' = [gctx EXCEPT ![x[1]] = "starting"]
               /\ receiver' = [receiver EXCEPT ![x] = "preStart"]
      <3>1. \A y \in Streams : y[1] = x[1] => ~Loading(y)
        BY <2>2 DEF Loading
      <3>2. x[1] \notin announced
        BY <2>2
      <3>3. \A y \in Streams : y # x => receiver'[y] = receiver[y]
        BY <2>2
      <3>4. \A y, z \in Streams :
               Loading(y)' /\ Loading(z)' /\ y[1] = z[1] => y = z
        <4>1. \A y \in Streams : Loading(y)' => y = x \/ (Loading(y) /\ y[1] # x[1])
          BY <3>1, <3>3
        <4>2. QED
          BY <4>1, ZenonT(40)
      <3>5. \A y \in Streams :
              /\ Loading(y)' => gctx'[y[1]] = "starting"
              /\ receiver'[y] \in {"preStart", "announce"} => y[1] \notin announced'
              /\ receiver'[y] \in {"subscribe", "sending", "writing"} => y[1] \in announced'
        BY <2>1, <2>2, <3>1, <3>2, <3>3
      <3>6. QED
        BY <2>1, <2>2, <3>2, <3>4, <3>5
    <2>3. CASE /\ gctx' = [gctx EXCEPT ![x[1]] = IF @ = "empty" THEN "failed" ELSE @]
               /\ UNCHANGED receiver
      BY <2>1, <2>3
    <2>4. CASE UNCHANGED <<gctx, receiver>>
      BY <2>1, <2>4
    <2>5. QED
      BY <1>13, <2>2, <2>3, <2>4 DEF ReceiveInfo, Receiver
  <1>14. ASSUME NEW x \in Streams, SetupRecording(x) PROVE LoaderInv'
    BY <1>14, SMTT(30) DEF SetupRecording, Receiver
  <1>15. ASSUME NEW x \in Streams, SendInfo(x) PROVE LoaderInv'
    BY <1>15, SMTT(30) DEF SendInfo, Receiver
  <1>16. ASSUME NEW x \in Streams, Subscribe(x) PROVE LoaderInv'
    <2>1. receiver[x] = "subscribe" /\ x[1] \in announced /\ UNCHANGED announced
      BY <1>16 DEF Subscribe
    <2>2. \A y \in Streams : y[1] = x[1] /\ y # x => ~Loading(y)
      BY <2>1 DEF Loading
    <2>3. receiver' = [receiver EXCEPT ![x] = "reading"]
      BY <1>16 DEF Subscribe, Receiver
    <2>4. /\ gctx'[x[1]] \in {"subscribed", "failed"}
          /\ \A r \in Runs : r # x[1] => gctx'[r] = gctx[r]
      BY <1>16 DEF Subscribe
    <2>5. \A y \in Streams : Loading(y)' => Loading(y) /\ y # x
      BY <2>3 DEF Loading
    <2>6. QED
      BY <2>1, <2>2, <2>3, <2>4, <2>5, SMTT(30)
  <1>17. ASSUME NEW x \in Streams, DropUninitialized(x) PROVE LoaderInv'
    BY <1>17 DEF DropUninitialized, Receiving, Take
  <1>18. ASSUME NEW x \in Streams, ReceivePayload(x) PROVE LoaderInv'
    <2>1. /\ receiver[x] = "reading"
          /\ UNCHANGED <<announced, gctx>>
      BY <1>18 DEF ReceivePayload, Receiving
    <2>2. CASE /\ gctx[x[1]] = "subscribed"
               /\ receiver' = [receiver EXCEPT ![x] = "sending"]
      BY <2>1, <2>2, SMTT(30)
    <2>3. CASE UNCHANGED receiver
      BY <2>1, <2>3
    <2>4. QED
      BY <1>18, <2>2, <2>3 DEF ReceivePayload, Receiver
  <1>19. ASSUME NEW x \in Streams, SendEvent(x) PROVE LoaderInv'
    BY <1>19, SMTT(30) DEF SendEvent, Receiver
  <1>20. ASSUME NEW x \in Streams, WriteEvent(x) PROVE LoaderInv'
    BY <1>20 DEF WriteEvent, Receiver
  <1>21. ASSUME NEW x \in Streams, ReceiveResult(x) PROVE LoaderInv'
    BY <1>21 DEF ReceiveResult, Receiving, Take
  <1>22. ASSUME NEW x \in Streams, ReceiveEnd(x) PROVE LoaderInv'
    BY <1>22 DEF ReceiveEnd, Receiving, Take, Receiver, ConnectionGone
  <1>23. ASSUME NEW x \in Streams, ServerInfo(x) PROVE LoaderInv'
    BY <1>23 DEF ServerInfo, Connected, Info, Message
  <1>24. ASSUME NEW x \in Streams, ServerPayload(x) PROVE LoaderInv'
    BY <1>24 DEF ServerPayload, Connected, Payload, Message
  <1>25. ASSUME NEW x \in Streams, ServerEnd(x) PROVE LoaderInv'
    BY <1>25 DEF ServerEnd, Connected, Result, End, Message
  <1>26. ASSUME NEW x \in Streams, Break(x) PROVE LoaderInv'
    BY <1>26 DEF Break, Connected, End, Message
  <1>27. CASE UNCHANGED vars
    BY <1>27 DEF vars
  <1>28. QED
    BY <1>1, <1>2, <1>3, <1>4, <1>5, <1>6, <1>7, <1>8, <1>9, <1>10, <1>11, <1>12, <1>13, <1>14, <1>15, <1>16, <1>17, <1>18, <1>19, <1>20, <1>21, <1>22, <1>23, <1>24, <1>25, <1>26, <1>27
       DEF Next, GoRun, GoStream, GoReceiver, Server

\* Only attached runs and result timeouts leave a receiver behind.
LEMMA ReceiverStep == RunInv /\ [Next]_vars => ReceiverReturns'
  <1> SUFFICES ASSUME TypeOK, StageInv, ReceiverReturns, [Next]_vars PROVE ReceiverReturns'
    BY DEF RunInv
  <1> USE StreamRun DEF TypeOK, ReceiverReturns, AbandonedStream, clientVars, recVars, runVars, seqVars, srvVars
  <1>1. ASSUME NEW r \in Runs, NEW k \in {"run", "detached", "attach"},
                Start(r, k) PROVE ReceiverReturns'
    BY <1>1 DEF Start
  <1>2. ASSUME NEW r \in Runs, StopInstance(r) PROVE ReceiverReturns'
    BY <1>2 DEF StopInstance
  <1>3. ASSUME NEW r \in Runs, ResolveTargets(r) PROVE ReceiverReturns'
    BY <1>3 DEF ResolveTargets
  <1>4. ASSUME NEW r \in Runs, CreateInstance(r) PROVE ReceiverReturns'
    BY <1>4 DEF CreateInstance
  <1>5. ASSUME NEW r \in Runs, FinishStreams(r) PROVE ReceiverReturns'
    BY <1>5 DEF FinishStreams, StreamsEnded
  <1>6. ASSUME NEW r \in Runs, StopRecording(r) PROVE ReceiverReturns'
    BY <1>6 DEF StopRecording
  <1>7. ASSUME NEW r \in Runs, Unregister(r) PROVE ReceiverReturns'
    BY <1>7 DEF Unregister
  <1>8. ASSUME NEW r \in Runs, SendStop(r) PROVE ReceiverReturns'
    BY <1>8 DEF SendStop
  <1>9. ASSUME NEW x \in Streams, Dial(x) PROVE ReceiverReturns'
    <2>1. CASE /\ stream' = [stream EXCEPT ![x] = "open"]
               /\ receiver' = [receiver EXCEPT ![x] = "reading"]
      BY <1>9, <2>1 DEF Dial
    <2>2. CASE /\ stream' = [stream EXCEPT ![x] = "ended"]
               /\ UNCHANGED receiver
      BY <1>9, <2>2 DEF Dial, StageInv
    <2>3. QED
      BY <1>9, <2>1, <2>2 DEF Dial
  <1>10. ASSUME NEW x \in Streams, SeeCancel(x) PROVE ReceiverReturns'
    BY <1>10 DEF SeeCancel, Interactive
  <1>11. ASSUME NEW x \in Streams, HandOver(x) PROVE ReceiverReturns'
    BY <1>11 DEF HandOver
  <1>12. ASSUME NEW x \in Streams, ResultTimeout(x) PROVE ReceiverReturns'
    BY <1>12 DEF ResultTimeout
  <1>13. ASSUME NEW x \in Streams, ReceiveInfo(x) PROVE ReceiverReturns'
    <2>1. receiver[x] = "reading"
      BY <1>13 DEF ReceiveInfo, Receiving
    <2>2. UNCHANGED <<stream, kind, timedOut>>
      BY <1>13 DEF ReceiveInfo
    <2>3. receiver' = receiver \/ receiver' = [receiver EXCEPT ![x] = "preStart"]
      BY <1>13 DEF ReceiveInfo, Receiver
    <2>4. QED
      BY <2>1, <2>2, <2>3, ZenonT(40)
  <1>14. ASSUME NEW x \in Streams, SetupRecording(x) PROVE ReceiverReturns'
    BY <1>14 DEF SetupRecording, Receiver
  <1>15. ASSUME NEW x \in Streams, SendInfo(x) PROVE ReceiverReturns'
    BY <1>15 DEF SendInfo, Receiver
  <1>16. ASSUME NEW x \in Streams, Subscribe(x) PROVE ReceiverReturns'
    BY <1>16 DEF Subscribe, Receiver
  <1>17. ASSUME NEW x \in Streams, DropUninitialized(x) PROVE ReceiverReturns'
    BY <1>17 DEF DropUninitialized, Receiving, Take
  <1>18. ASSUME NEW x \in Streams, ReceivePayload(x) PROVE ReceiverReturns'
    BY <1>18, ZenonT(40) DEF ReceivePayload, Receiving, Take, Receiver, NextExpected, Message
  <1>19. ASSUME NEW x \in Streams, SendEvent(x) PROVE ReceiverReturns'
    BY <1>19 DEF SendEvent, Receiver
  <1>20. ASSUME NEW x \in Streams, WriteEvent(x) PROVE ReceiverReturns'
    BY <1>20 DEF WriteEvent, Receiver
  <1>21. ASSUME NEW x \in Streams, ReceiveResult(x) PROVE ReceiverReturns'
    BY <1>21 DEF ReceiveResult, Receiving, Take
  <1>22. ASSUME NEW x \in Streams, ReceiveEnd(x) PROVE ReceiverReturns'
    BY <1>22 DEF ReceiveEnd, Receiving, Take, Receiver, ConnectionGone
  <1>23. ASSUME NEW x \in Streams, ServerInfo(x) PROVE ReceiverReturns'
    BY <1>23 DEF ServerInfo, Connected, Info, Message
  <1>24. ASSUME NEW x \in Streams, ServerPayload(x) PROVE ReceiverReturns'
    BY <1>24 DEF ServerPayload, Connected, Payload, Message
  <1>25. ASSUME NEW x \in Streams, ServerEnd(x) PROVE ReceiverReturns'
    BY <1>25 DEF ServerEnd, Connected, Result, End, Message
  <1>26. ASSUME NEW x \in Streams, Break(x) PROVE ReceiverReturns'
    BY <1>26 DEF Break, Connected, End, Message
  <1>27. CASE UNCHANGED vars
    BY <1>27 DEF vars
  <1>28. QED
    BY <1>1, <1>2, <1>3, <1>4, <1>5, <1>6, <1>7, <1>8, <1>9, <1>10, <1>11, <1>12, <1>13, <1>14, <1>15, <1>16, <1>17, <1>18, <1>19, <1>20, <1>21, <1>22, <1>23, <1>24, <1>25, <1>26, <1>27
       DEF Next, GoRun, GoStream, GoReceiver, Server

\* A run that was watched to its end leaves its recording active only if closing
\* it failed.
LEMMA RecordingStep == RunInv /\ [Next]_vars => RecordingInv'
  <1> SUFFICES ASSUME TypeOK, StageInv, RecordingInv, ReceiverReturns, [Next]_vars PROVE RecordingInv'
    BY DEF RunInv
  <1> USE StreamRun DEF TypeOK, RecordingInv, Orderly, StreamsOf, clientVars, recVars, runVars, seqVars, srvVars
  <1>1. ASSUME NEW r \in Runs, NEW k \in {"run", "detached", "attach"},
                Start(r, k) PROVE RecordingInv'
    BY <1>1 DEF Start
  <1>2. ASSUME NEW r \in Runs, StopInstance(r) PROVE RecordingInv'
    BY <1>2 DEF StopInstance
  <1>3. ASSUME NEW r \in Runs, ResolveTargets(r) PROVE RecordingInv'
    BY <1>3 DEF ResolveTargets
  <1>4. ASSUME NEW r \in Runs, CreateInstance(r) PROVE RecordingInv'
    BY <1>4 DEF CreateInstance
  <1>5. ASSUME NEW r \in Runs, FinishStreams(r) PROVE RecordingInv'
    BY <1>5 DEF FinishStreams, StreamsEnded
  <1>6. ASSUME NEW r \in Runs, StopRecording(r) PROVE RecordingInv'
    BY <1>6 DEF StopRecording
  <1>7. ASSUME NEW r \in Runs, Unregister(r) PROVE RecordingInv'
    BY <1>7 DEF Unregister
  <1>8. ASSUME NEW r \in Runs, SendStop(r) PROVE RecordingInv'
    BY <1>8 DEF SendStop
  <1>9. ASSUME NEW x \in Streams, Dial(x) PROVE RecordingInv'
    BY <1>9 DEF Dial
  <1>10. ASSUME NEW x \in Streams, SeeCancel(x) PROVE RecordingInv'
    BY <1>10 DEF SeeCancel, Interactive
  <1>11. ASSUME NEW x \in Streams, HandOver(x) PROVE RecordingInv'
    BY <1>11 DEF HandOver
  <1>12. ASSUME NEW x \in Streams, ResultTimeout(x) PROVE RecordingInv'
    BY <1>12 DEF ResultTimeout
  <1>13. ASSUME NEW x \in Streams, ReceiveInfo(x) PROVE RecordingInv'
    BY <1>13 DEF ReceiveInfo, Receiving, Take, Receiver
  <1>14. ASSUME NEW x \in Streams, SetupRecording(x) PROVE RecordingInv'
    <2>1. receiver[x] = "preStart"
      BY <1>14 DEF SetupRecording
    <2>2. UNCHANGED <<goro, kind, timedOut, stopErrors>>
      BY <1>14 DEF SetupRecording
    <2>3. session' = session \/ session' = [session EXCEPT ![x[1]] = "active"]
      BY <1>14 DEF SetupRecording
    <2>4. ~(Orderly(x[1]) /\ goro[x[1]] \in {"unregister", "sendStop", "done"})
      <3>1. goro[x[1]] \in {"unregister", "sendStop", "done"} => stream[x] = "ended"
        BY <2>1 DEF StageInv
      <3>2. QED
        BY <2>1, <3>1 DEF ReceiverReturns, AbandonedStream
    <2>5. QED
      BY <2>2, <2>3, <2>4, SMTT(30)
  <1>15. ASSUME NEW x \in Streams, SendInfo(x) PROVE RecordingInv'
    BY <1>15 DEF SendInfo, Receiver
  <1>16. ASSUME NEW x \in Streams, Subscribe(x) PROVE RecordingInv'
    BY <1>16 DEF Subscribe, Receiver
  <1>17. ASSUME NEW x \in Streams, DropUninitialized(x) PROVE RecordingInv'
    BY <1>17 DEF DropUninitialized, Receiving, Take
  <1>18. ASSUME NEW x \in Streams, ReceivePayload(x) PROVE RecordingInv'
    BY <1>18 DEF ReceivePayload, Receiving, Take, Receiver, NextExpected, Message
  <1>19. ASSUME NEW x \in Streams, SendEvent(x) PROVE RecordingInv'
    BY <1>19 DEF SendEvent, Receiver
  <1>20. ASSUME NEW x \in Streams, WriteEvent(x) PROVE RecordingInv'
    BY <1>20 DEF WriteEvent, Receiver
  <1>21. ASSUME NEW x \in Streams, ReceiveResult(x) PROVE RecordingInv'
    BY <1>21 DEF ReceiveResult, Receiving, Take
  <1>22. ASSUME NEW x \in Streams, ReceiveEnd(x) PROVE RecordingInv'
    BY <1>22 DEF ReceiveEnd, Receiving, Take, Receiver, ConnectionGone
  <1>23. ASSUME NEW x \in Streams, ServerInfo(x) PROVE RecordingInv'
    BY <1>23 DEF ServerInfo, Connected, Info, Message
  <1>24. ASSUME NEW x \in Streams, ServerPayload(x) PROVE RecordingInv'
    BY <1>24 DEF ServerPayload, Connected, Payload, Message
  <1>25. ASSUME NEW x \in Streams, ServerEnd(x) PROVE RecordingInv'
    BY <1>25 DEF ServerEnd, Connected, Result, End, Message
  <1>26. ASSUME NEW x \in Streams, Break(x) PROVE RecordingInv'
    BY <1>26 DEF Break, Connected, End, Message
  <1>27. CASE UNCHANGED vars
    BY <1>27 DEF vars
  <1>28. QED
    BY <1>1, <1>2, <1>3, <1>4, <1>5, <1>6, <1>7, <1>8, <1>9, <1>10, <1>11, <1>12, <1>13, <1>14, <1>15, <1>16, <1>17, <1>18, <1>19, <1>20, <1>21, <1>22, <1>23, <1>24, <1>25, <1>26, <1>27, SMTT(30)
       DEF Next, GoRun, GoStream, GoReceiver, Server

\* What one stream of WireInv is about.
SameStream(y) ==
  UNCHANGED <<wire[y], server[y], receiver[y], stream[y]>>

LEMMA OtherWire ==
  ASSUME WireInv, NEW y \in Streams, SameStream(y)
  PROVE  WireOK(y)'
  BY DEF WireInv, WireOK, EndIsLast, SameStream, AbandonedStream

\* Taking a message keeps EOF at the end.
LEMMA TailEnd ==
  ASSUME NEW x \in Streams, EndIsLast(x), wire[x] \in Seq(Message),
         wire[x] # <<>>, wire'[x] = Tail(wire[x]), server' = server
  PROVE  EndIsLast(x)'
  <1>1. /\ Len(wire'[x]) = Len(wire[x]) - 1 /\ Len(wire[x]) \in Nat
        /\ \A i \in 1 .. Len(wire'[x]) : wire'[x][i] = wire[x][i + 1]
    OBVIOUS
  <1>2. SUFFICES ASSUME NEW i \in 1 .. Len(wire'[x]), wire'[x][i].type = "end"
                 PROVE  i = Len(wire'[x]) /\ server'[x] \in {"closed", "broken"}
    BY DEF EndIsLast
  <1>3. i + 1 \in 1 .. Len(wire[x]) /\ wire[x][i + 1].type = "end"
    BY <1>1, <1>2
  <1>4. i + 1 = Len(wire[x]) /\ server[x] \in {"closed", "broken"}
    BY <1>3 DEF EndIsLast
  <1>5. i = Len(wire'[x])
    BY <1>1, <1>4
  <1>6. QED
    BY <1>4, <1>5

\* What a receiver that has read EOF leaves behind.
LEMMA HandingOver ==
  ASSUME NEW x \in Streams, EndIsLast(x)', receiver'[x] = "handing",
         \/ wire'[x] = <<>> /\ server'[x] \in {"closed", "broken"}
         \/ stream'[x] = "ended"
  PROVE  WireOK(x)'
  BY DEF WireOK, AbandonedStream

\* Sending something that is not EOF.
LEMMA AppendEnd ==
  ASSUME NEW x \in Streams, NEW m \in Message, m.type # "end",
         wire[x] \in Seq(Message), wire'[x] = Append(wire[x], m),
         \A i \in 1 .. Len(wire[x]) : wire[x][i].type # "end"
  PROVE  EndIsLast(x)'
  <1>1. /\ Len(wire[x]) \in Nat /\ Len(wire'[x]) = Len(wire[x]) + 1
        /\ wire'[x][Len(wire[x]) + 1] = m
        /\ \A i \in 1 .. Len(wire[x]) : wire'[x][i] = wire[x][i]
    OBVIOUS
  <1>2. SUFFICES ASSUME NEW i \in 1 .. Len(wire'[x]) PROVE wire'[x][i].type # "end"
    BY DEF EndIsLast
  <1>3. CASE i = Len(wire[x]) + 1
    BY <1>1, <1>3
  <1>4. CASE i # Len(wire[x]) + 1
    BY <1>1, <1>2, <1>4
  <1>5. QED
    BY <1>3, <1>4

\* Nothing follows EOF, and nothing is left before it.
LEMMA WireStep == RunInv /\ [Next]_vars => WireInv'
  <1> SUFFICES ASSUME TypeOK, StageInv, WireInv, [Next]_vars PROVE WireInv'
    BY DEF RunInv
  <1> USE StreamRun DEF AbandonedStream, Connected, clientVars, recVars, runVars, seqVars, srvVars
  <1>1. ASSUME NEW r \in Runs, NEW k \in {"run", "detached", "attach"},
                Start(r, k) PROVE WireInv'
    BY <1>1 DEF TypeOK, Start, WireInv, WireOK, EndIsLast
  <1>2. ASSUME NEW r \in Runs, StopInstance(r) PROVE WireInv'
    BY <1>2 DEF TypeOK, StopInstance, WireInv, WireOK, EndIsLast
  <1>3. ASSUME NEW r \in Runs, ResolveTargets(r) PROVE WireInv'
    <2>1. \A y \in Streams : stream'[y] = stream[y] \/ stream'[y] = "dialing"
      BY <1>3 DEF TypeOK, ResolveTargets
    <2>2. \A y \in Streams : stream[y] = "ended" => stream'[y] = "ended"
      <3> SUFFICES ASSUME NEW y \in Streams, stream[y] = "ended" PROVE stream'[y] = "ended"
        OBVIOUS
      <3>1. goro[y[1]] # "targets"
        BY DEF StageInv
      <3>2. y[1] # r
        BY <1>3, <3>1 DEF ResolveTargets
      <3>3. QED
        BY <1>3, <3>2 DEF ResolveTargets
    <2>3. UNCHANGED <<wire, server, receiver>>
      BY <1>3 DEF TypeOK, ResolveTargets
    <2>4. QED
      BY <2>1, <2>2, <2>3 DEF WireInv, WireOK, EndIsLast
  <1>4. ASSUME NEW r \in Runs, CreateInstance(r) PROVE WireInv'
    BY <1>4 DEF TypeOK, CreateInstance, WireInv, WireOK, EndIsLast
  <1>5. ASSUME NEW r \in Runs, FinishStreams(r) PROVE WireInv'
    BY <1>5 DEF TypeOK, FinishStreams, StreamsEnded, WireInv, WireOK, EndIsLast
  <1>6. ASSUME NEW r \in Runs, StopRecording(r) PROVE WireInv'
    BY <1>6 DEF TypeOK, StopRecording, WireInv, WireOK, EndIsLast
  <1>7. ASSUME NEW r \in Runs, Unregister(r) PROVE WireInv'
    BY <1>7 DEF TypeOK, Unregister, WireInv, WireOK, EndIsLast
  <1>8. ASSUME NEW r \in Runs, SendStop(r) PROVE WireInv'
    BY <1>8 DEF TypeOK, SendStop, WireInv, WireOK, EndIsLast
  <1>9. ASSUME NEW x \in Streams, Dial(x) PROVE WireInv'
    <2>1. \A y \in Streams : y # x => SameStream(y)
      BY <1>9 DEF TypeOK, Dial, SameStream
    <2>2. /\ receiver[x] = "none" /\ stream[x] = "dialing"
          /\ UNCHANGED wire
      BY <1>9 DEF TypeOK, Dial, StageInv
    <2>3. wire[x] = <<>> /\ wire'[x] = <<>>
      BY <2>2 DEF WireInv, WireOK
    <2>4. EndIsLast(x)'
      BY <2>3 DEF EndIsLast
    <2>5. \/ receiver'[x] = "reading"
          \/ receiver'[x] = "none" /\ server'[x] = server[x]
      BY <1>9, <2>2 DEF TypeOK, Dial
    <2>6. WireOK(x)'
      BY <2>2, <2>3, <2>4, <2>5 DEF WireInv, WireOK
    <2>9. \A y \in Streams : y # x => WireOK(y)'
      BY <2>1, OtherWire DEF WireInv
    <2>10. QED
      BY <2>6, <2>9 DEF WireInv
  <1>10. ASSUME NEW x \in Streams, SeeCancel(x) PROVE WireInv'
    BY <1>10 DEF TypeOK, SeeCancel, Interactive, WireInv, WireOK, EndIsLast
  <1>11. ASSUME NEW x \in Streams, HandOver(x) PROVE WireInv'
    BY <1>11 DEF TypeOK, HandOver, WireInv, WireOK, EndIsLast
  <1>12. ASSUME NEW x \in Streams, ResultTimeout(x) PROVE WireInv'
    BY <1>12 DEF TypeOK, ResultTimeout, WireInv, WireOK, EndIsLast
  <1>13. ASSUME NEW x \in Streams, ReceiveInfo(x) PROVE WireInv'
    <2>1. \A y \in Streams : y # x => SameStream(y)
      BY <1>13 DEF TypeOK, ReceiveInfo, Receiving, Take, Receiver, SameStream
    <2>2. /\ receiver[x] = "reading" /\ wire[x] # <<>>
          /\ UNCHANGED <<stream, server>>
          /\ wire'[x] = Tail(wire[x])
      BY <1>13 DEF TypeOK, ReceiveInfo, Receiving, Take, Receiver
    <2>3. receiver'[x] \in {"reading", "preStart"}
      BY <1>13, <2>2 DEF TypeOK, ReceiveInfo, Receiving, Take, Receiver
    <2>4. EndIsLast(x)'
      BY <2>2, TailEnd DEF WireInv, WireOK, TypeOK
    <2>5. WireOK(x)'
      BY <2>3, <2>4 DEF WireOK
    <2>9. \A y \in Streams : y # x => WireOK(y)'
      BY <2>1, OtherWire DEF WireInv
    <2>10. QED
      BY <2>5, <2>9 DEF WireInv
  <1>14. ASSUME NEW x \in Streams, SetupRecording(x) PROVE WireInv'
    BY <1>14 DEF TypeOK, SetupRecording, Receiver, WireInv, WireOK, EndIsLast
  <1>15. ASSUME NEW x \in Streams, SendInfo(x) PROVE WireInv'
    BY <1>15 DEF TypeOK, SendInfo, Receiver, WireInv, WireOK, EndIsLast
  <1>16. ASSUME NEW x \in Streams, Subscribe(x) PROVE WireInv'
    BY <1>16 DEF TypeOK, Subscribe, Receiver, WireInv, WireOK, EndIsLast
  <1>17. ASSUME NEW x \in Streams, DropUninitialized(x) PROVE WireInv'
    <2>1. \A y \in Streams : y # x => SameStream(y)
      BY <1>17 DEF TypeOK, DropUninitialized, Receiving, Take, SameStream
    <2>2. /\ receiver[x] = "reading" /\ wire[x] # <<>>
          /\ UNCHANGED <<stream, server>>
          /\ wire'[x] = Tail(wire[x])
      BY <1>17 DEF TypeOK, DropUninitialized, Receiving, Take
    <2>3. receiver'[x] \in {"reading"}
      BY <1>17, <2>2 DEF TypeOK, DropUninitialized, Receiving, Take
    <2>4. EndIsLast(x)'
      BY <2>2, TailEnd DEF WireInv, WireOK, TypeOK
    <2>5. WireOK(x)'
      BY <2>3, <2>4 DEF WireOK
    <2>9. \A y \in Streams : y # x => WireOK(y)'
      BY <2>1, OtherWire DEF WireInv
    <2>10. QED
      BY <2>5, <2>9 DEF WireInv
  <1>18. ASSUME NEW x \in Streams, ReceivePayload(x) PROVE WireInv'
    <2>1. \A y \in Streams : y # x => SameStream(y)
      BY <1>18 DEF TypeOK, ReceivePayload, Receiving, Take, Receiver, SameStream
    <2>2. /\ receiver[x] = "reading" /\ wire[x] # <<>>
          /\ UNCHANGED <<stream, server>>
          /\ wire'[x] = Tail(wire[x])
      BY <1>18 DEF TypeOK, ReceivePayload, Receiving, Take, Receiver
    <2>3. receiver'[x] \in {"reading", "sending"}
      BY <1>18, <2>2 DEF TypeOK, ReceivePayload, Receiving, Take, Receiver
    <2>4. EndIsLast(x)'
      BY <2>2, TailEnd DEF WireInv, WireOK, TypeOK
    <2>5. WireOK(x)'
      BY <2>3, <2>4 DEF WireOK
    <2>9. \A y \in Streams : y # x => WireOK(y)'
      BY <2>1, OtherWire DEF WireInv
    <2>10. QED
      BY <2>5, <2>9 DEF WireInv
  <1>19. ASSUME NEW x \in Streams, SendEvent(x) PROVE WireInv'
    BY <1>19 DEF TypeOK, SendEvent, Receiver, WireInv, WireOK, EndIsLast
  <1>20. ASSUME NEW x \in Streams, WriteEvent(x) PROVE WireInv'
    BY <1>20 DEF TypeOK, WriteEvent, Receiver, WireInv, WireOK, EndIsLast
  <1>21. ASSUME NEW x \in Streams, ReceiveResult(x) PROVE WireInv'
    <2>1. \A y \in Streams : y # x => SameStream(y)
      BY <1>21 DEF TypeOK, ReceiveResult, Receiving, Take, SameStream
    <2>2. /\ receiver[x] = "reading" /\ wire[x] # <<>>
          /\ UNCHANGED <<stream, server>>
          /\ wire'[x] = Tail(wire[x])
      BY <1>21 DEF TypeOK, ReceiveResult, Receiving, Take
    <2>3. receiver'[x] \in {"reading"}
      BY <1>21, <2>2 DEF TypeOK, ReceiveResult, Receiving, Take
    <2>4. EndIsLast(x)'
      BY <2>2, TailEnd DEF WireInv, WireOK, TypeOK
    <2>5. WireOK(x)'
      BY <2>3, <2>4 DEF WireOK
    <2>9. \A y \in Streams : y # x => WireOK(y)'
      BY <2>1, OtherWire DEF WireInv
    <2>10. QED
      BY <2>5, <2>9 DEF WireInv
  <1>22. ASSUME NEW x \in Streams, ReceiveEnd(x) PROVE WireInv'
    <2>1. \A y \in Streams : y # x => SameStream(y)
      BY <1>22 DEF TypeOK, ReceiveEnd, Receiving, Take, Receiver, SameStream
    <2>2. /\ receiver[x] = "reading" /\ receiver'[x] = "handing"
          /\ stream'[x] = stream[x] /\ server'[x] = server[x]
          /\ wire[x] \in Seq(Message)
      BY <1>22 DEF TypeOK, ReceiveEnd, Receiver
    <2>3. ASSUME wire[x] # <<>> /\ Head(wire[x]).type = "end" /\ wire'[x] = Tail(wire[x])
             PROVE  WireOK(x)'
      <3>1. wire[x][1].type = "end" /\ 1 \in 1 .. Len(wire[x])
        BY <2>2, <2>3
      <3>2. Len(wire[x]) = 1 /\ server[x] \in {"closed", "broken"}
        BY <3>1 DEF WireInv, WireOK, EndIsLast
      <3>3. Len(wire'[x]) = 0 /\ wire'[x] \in Seq(Message)
        BY <2>2, <2>3, <3>2
      <3>4. wire'[x] = <<>>
        BY <3>3
      <3>5. EndIsLast(x)'
        BY <3>3 DEF EndIsLast
      <3>6. QED
        BY <2>2, <3>2, <3>4, <3>5, HandingOver
    <2>4. ASSUME stream[x] = "ended" /\ UNCHANGED wire
             PROVE  WireOK(x)'
      <3>1. EndIsLast(x) /\ wire'[x] = wire[x]
        BY <2>4 DEF WireInv, WireOK
      <3>2. EndIsLast(x)'
        BY <2>2, <3>1 DEF EndIsLast
      <3>3. stream'[x] = "ended"
        BY <2>2, <2>4
      <3>4. QED
        BY <2>2, <3>2, <3>3, HandingOver
    <2>5. \/ wire[x] # <<>> /\ Head(wire[x]).type = "end" /\ wire'[x] = Tail(wire[x])
          \/ stream[x] = "ended" /\ UNCHANGED wire
      BY <1>22 DEF TypeOK, ReceiveEnd, Receiving, Take, ConnectionGone
    <2>6. WireOK(x)'
      BY <2>3, <2>4, <2>5
    <2>9. \A y \in Streams : y # x => WireOK(y)'
      BY <2>1, OtherWire DEF WireInv
    <2>10. QED
      BY <2>6, <2>9 DEF WireInv
  <1>23. ASSUME NEW x \in Streams, ServerInfo(x) PROVE WireInv'
    <2>1. \A y \in Streams : y # x => SameStream(y)
      BY <1>23 DEF TypeOK, ServerInfo, SameStream
    <2>2. /\ server[x] \in {"fresh"} /\ receiver[x] \notin {"none", "gone"}
          /\ UNCHANGED <<stream, receiver>>
      BY <1>23 DEF TypeOK, ServerInfo, StageInv
    <2>3. receiver[x] # "handing"
      BY <2>2, <1>23 DEF ServerInfo, Connected, WireInv, WireOK, AbandonedStream
    <2>4. \A i \in 1 .. Len(wire[x]) : wire[x][i].type # "end"
      BY <2>2 DEF WireInv, WireOK, EndIsLast
    <2>5. wire'[x] = Append(wire[x], Info)
      BY <1>23 DEF TypeOK, ServerInfo
    <2>6. wire[x] \in Seq(Message) /\ Info \in Message /\ Info.type # "end"
      BY DEF TypeOK, Info, Message
    <2>7. EndIsLast(x)'
      BY <2>4, <2>5, <2>6, AppendEnd
    <2>8. WireOK(x)'
      BY <2>2, <2>3, <2>7 DEF WireOK
    <2>9. \A y \in Streams : y # x => WireOK(y)'
      BY <2>1, OtherWire DEF WireInv
    <2>10. QED
      BY <2>8, <2>9 DEF WireInv
  <1>24. ASSUME NEW x \in Streams, ServerPayload(x) PROVE WireInv'
    <2>1. \A y \in Streams : y # x => SameStream(y)
      BY <1>24 DEF TypeOK, ServerPayload, SameStream
    <2>2. /\ server[x] \in {"running"} /\ receiver[x] \notin {"none", "gone"}
          /\ UNCHANGED <<stream, receiver>>
      BY <1>24 DEF TypeOK, ServerPayload, StageInv
    <2>3. receiver[x] # "handing"
      BY <2>2, <1>24 DEF ServerPayload, Connected, WireInv, WireOK, AbandonedStream
    <2>4. \A i \in 1 .. Len(wire[x]) : wire[x][i].type # "end"
      BY <2>2 DEF WireInv, WireOK, EndIsLast
    <2>5. ASSUME wire'[x] = wire[x]
             PROVE  EndIsLast(x)'
      BY <2>4, <2>5 DEF EndIsLast
    <2>6. ASSUME wire'[x] = Append(wire[x], Payload(produced[x] + 1))
             PROVE  EndIsLast(x)'
      <3>1. wire[x] \in Seq(Message) /\ produced[x] + 1 \in Nat
        BY DEF TypeOK
      <3>2. /\ Payload(produced[x] + 1) \in Message
            /\ Payload(produced[x] + 1).type # "end"
        BY <3>1 DEF Payload, Message
      <3>3. QED
        BY <2>4, <2>6, <3>1, <3>2, AppendEnd
    <2>7. EndIsLast(x)'
      <3>1. \/ wire'[x] = wire[x]
            \/ wire'[x] = Append(wire[x], Payload(produced[x] + 1))
        BY <1>24 DEF TypeOK, ServerPayload
      <3>2. QED
        BY <2>5, <2>6, <3>1
    <2>8. WireOK(x)'
      BY <2>2, <2>3, <2>7 DEF WireOK
    <2>9. \A y \in Streams : y # x => WireOK(y)'
      BY <2>1, OtherWire DEF WireInv
    <2>10. QED
      BY <2>8, <2>9 DEF WireInv
  <1>25. ASSUME NEW x \in Streams, ServerEnd(x) PROVE WireInv'
    <2>1. \A y \in Streams : y # x => SameStream(y)
      BY <1>25 DEF TypeOK, ServerEnd, SameStream
    <2>2. /\ server[x] \in {"fresh", "running"} /\ receiver[x] \notin {"none", "gone"}
          /\ UNCHANGED <<stream, receiver>>
      BY <1>25 DEF TypeOK, ServerEnd, StageInv
    <2>3. receiver[x] # "handing"
      BY <2>2, <1>25 DEF ServerEnd, Connected, WireInv, WireOK, AbandonedStream
    <2>4. \A i \in 1 .. Len(wire[x]) : wire[x][i].type # "end"
      BY <2>2 DEF WireInv, WireOK, EndIsLast
    <2>5. /\ wire'[x] = wire[x] \o <<Result, End>>
          /\ server'[x] = "closed"
      BY <1>25 DEF TypeOK, ServerEnd
    <2>6. /\ Len(wire'[x]) = Len(wire[x]) + 2
          /\ \A i \in 1 .. Len(wire[x]) : wire'[x][i] = wire[x][i]
          /\ wire'[x][Len(wire[x]) + 1] = Result
      BY <2>5 DEF TypeOK
    <2>7. EndIsLast(x)'
      BY <2>4, <2>5, <2>6 DEF TypeOK, EndIsLast, Result
    <2>8. WireOK(x)'
      BY <2>2, <2>3, <2>7 DEF WireOK
    <2>9. \A y \in Streams : y # x => WireOK(y)'
      BY <2>1, OtherWire DEF WireInv
    <2>10. QED
      BY <2>8, <2>9 DEF WireInv
  <1>26. ASSUME NEW x \in Streams, Break(x) PROVE WireInv'
    <2>1. \A y \in Streams : y # x => SameStream(y)
      BY <1>26 DEF TypeOK, Break, SameStream
    <2>2. /\ receiver[x] \notin {"none", "handing", "gone"}
          /\ UNCHANGED <<stream, receiver>>
          /\ wire'[x] = <<End>>
          /\ server'[x] = "broken"
      BY <1>26 DEF TypeOK, Break, StageInv
    <2>3. EndIsLast(x)'
      BY <2>2 DEF EndIsLast
    <2>4. WireOK(x)'
      BY <2>2, <2>3 DEF WireOK
    <2>9. \A y \in Streams : y # x => WireOK(y)'
      BY <2>1, OtherWire DEF WireInv
    <2>10. QED
      BY <2>4, <2>9 DEF WireInv
  <1>27. CASE UNCHANGED vars
    BY <1>27 DEF TypeOK, vars, WireInv, WireOK, EndIsLast
  <1>28. QED
    BY <1>1, <1>2, <1>3, <1>4, <1>5, <1>6, <1>7, <1>8, <1>9, <1>10, <1>11, <1>12, <1>13, <1>14, <1>15, <1>16, <1>17, <1>18, <1>19, <1>20, <1>21, <1>22, <1>23, <1>24, <1>25, <1>26, <1>27
       DEF Next, GoRun, GoStream, GoReceiver, Server

-----------------------------------------------------------------------------
(* Sequence numbers *)

\* A stream of which wire, expectedSeq and the server's counter do not change.
LEMMA SeqSame ==
  ASSUME NEW x \in Streams, SeqOK(x),
         UNCHANGED <<wire[x], expected[x], produced[x]>>
  PROVE  SeqOK(x)'
  BY DEF SeqOK

\* Taking a message leaves payloads that are numbered upwards.
LEMMA TailSeq ==
  ASSUME NEW x \in Streams, SeqOK(x), wire[x] \in Seq(Message), wire[x] # <<>>,
         wire'[x] = Tail(wire[x]), UNCHANGED <<expected[x], produced[x]>>
  PROVE  SeqOK(x)'
  <1>1. /\ Len(wire'[x]) = Len(wire[x]) - 1 /\ Len(wire[x]) \in Nat
        /\ \A i \in 1 .. Len(wire'[x]) : wire'[x][i] = wire[x][i + 1]
    OBVIOUS
  <1>2. \A i \in 1 .. Len(wire'[x]) : i + 1 \in 1 .. Len(wire[x])
    BY <1>1
  <1>3. ASSUME NEW i \in 1 .. Len(wire'[x]), wire'[x][i].type = "payload"
        PROVE  expected'[x] <= wire'[x][i].seq /\ wire'[x][i].seq <= produced'[x]
    BY <1>1, <1>2, <1>3 DEF SeqOK
  <1>4. ASSUME NEW i \in 1 .. Len(wire'[x]), NEW j \in 1 .. Len(wire'[x]), i < j,
               wire'[x][i].type = "payload", wire'[x][j].type = "payload"
        PROVE  wire'[x][i].seq < wire'[x][j].seq
    <2>1. i + 1 < j + 1
      BY <1>4
    <2>2. QED
      BY <1>1, <1>2, <1>4, <2>1 DEF SeqOK
  <1>5. QED
    BY <1>3, <1>4 DEF SeqOK

\* The payload that is handled is below all that follow it.
LEMMA HandledSeq ==
  ASSUME NEW x \in Streams, SeqOK(x), wire[x] \in Seq(Message), wire[x] # <<>>,
         Head(wire[x]).type = "payload", wire'[x] = Tail(wire[x]),
         expected'[x] = Head(wire[x]).seq + 1, produced'[x] = produced[x],
         produced[x] \in Nat
  PROVE  SeqOK(x)'
  <1>1. /\ Len(wire'[x]) = Len(wire[x]) - 1 /\ Len(wire[x]) \in Nat
        /\ \A i \in 1 .. Len(wire'[x]) : wire'[x][i] = wire[x][i + 1]
        /\ Head(wire[x]) = wire[x][1] /\ 1 \in 1 .. Len(wire[x])
    OBVIOUS
  <1>2. \A i \in 1 .. Len(wire'[x]) : i + 1 \in 1 .. Len(wire[x])
    BY <1>1
  <1>3. \A i \in 1 .. Len(wire[x]) : wire[x][i].seq \in Nat
    <2>1. \A i \in 1 .. Len(wire[x]) : wire[x][i] \in Message
      OBVIOUS
    <2>2. QED
      BY <2>1 DEF Message
  <1>4. ASSUME NEW i \in 1 .. Len(wire'[x]), wire'[x][i].type = "payload"
        PROVE  expected'[x] <= wire'[x][i].seq /\ wire'[x][i].seq <= produced'[x]
    <2>1. wire[x][1].seq < wire[x][i + 1].seq /\ wire[x][i + 1].seq <= produced[x]
      <3>1. 1 < i + 1
        OBVIOUS
      <3>2. QED
        BY <1>1, <1>2, <1>4, <3>1 DEF SeqOK
    <2>2. QED
      BY <1>1, <1>2, <1>3, <2>1
  <1>5. ASSUME NEW i \in 1 .. Len(wire'[x]), NEW j \in 1 .. Len(wire'[x]), i < j,
               wire'[x][i].type = "payload", wire'[x][j].type = "payload"
        PROVE  wire'[x][i].seq < wire'[x][j].seq
    <2>1. i + 1 < j + 1
      BY <1>5
    <2>2. QED
      BY <1>1, <1>2, <1>5, <2>1 DEF SeqOK
  <1>6. expected'[x] <= produced'[x] + 1
    <2>1. wire[x][1].seq <= produced[x]
      BY <1>1 DEF SeqOK
    <2>2. QED
      BY <1>1, <1>3, <2>1
  <1>7. QED
    BY <1>4, <1>5, <1>6 DEF SeqOK

\* A message that is no payload, or the next payload, at the end of the wire.
LEMMA AppendSeq ==
  ASSUME NEW x \in Streams, SeqOK(x), wire[x] \in Seq(Message), NEW m \in Message,
         wire'[x] = Append(wire[x], m), expected'[x] = expected[x],
         expected[x] \in Nat, produced[x] \in Nat, produced'[x] \in Nat,
         produced[x] <= produced'[x],
         m.type = "payload" => m.seq = produced'[x] /\ produced[x] < produced'[x]
  PROVE  SeqOK(x)'
  <1>1. /\ Len(wire[x]) \in Nat /\ Len(wire'[x]) = Len(wire[x]) + 1
        /\ wire'[x][Len(wire[x]) + 1] = m
        /\ \A i \in 1 .. Len(wire[x]) : wire'[x][i] = wire[x][i]
    OBVIOUS
  <1>2. \A i \in 1 .. Len(wire[x]) : wire[x][i].seq \in Nat
    <2>1. \A i \in 1 .. Len(wire[x]) : wire[x][i] \in Message
      OBVIOUS
    <2>2. QED
      BY <2>1 DEF Message
  <1>3. ASSUME NEW i \in 1 .. Len(wire'[x]), wire'[x][i].type = "payload"
        PROVE  expected'[x] <= wire'[x][i].seq /\ wire'[x][i].seq <= produced'[x]
    <2>1. CASE i = Len(wire[x]) + 1
      BY <1>1, <1>3, <2>1 DEF SeqOK
    <2>2. CASE i # Len(wire[x]) + 1
      <3>1. i \in 1 .. Len(wire[x]) /\ wire'[x][i] = wire[x][i]
        BY <1>1, <2>2
      <3>2. expected[x] <= wire[x][i].seq /\ wire[x][i].seq <= produced[x]
        BY <1>3, <3>1 DEF SeqOK
      <3>3. QED
        BY <1>2, <3>1, <3>2
    <2>3. QED
      BY <2>1, <2>2
  <1>4. ASSUME NEW i \in 1 .. Len(wire'[x]), NEW j \in 1 .. Len(wire'[x]), i < j,
               wire'[x][i].type = "payload", wire'[x][j].type = "payload"
        PROVE  wire'[x][i].seq < wire'[x][j].seq
    <2>1. i \in 1 .. Len(wire[x]) /\ wire'[x][i] = wire[x][i]
      BY <1>1, <1>4
    <2>2. CASE j = Len(wire[x]) + 1
      <3>1. wire[x][i].seq <= produced[x] /\ wire'[x][j].seq = produced'[x]
        BY <1>1, <1>4, <2>1, <2>2 DEF SeqOK
      <3>2. produced[x] < produced'[x]
        BY <1>1, <1>4, <2>2
      <3>3. QED
        BY <1>2, <2>1, <3>1, <3>2
    <2>3. CASE j # Len(wire[x]) + 1
      <3>1. j \in 1 .. Len(wire[x]) /\ wire'[x][j] = wire[x][j]
        BY <1>1, <2>3
      <3>2. QED
        BY <1>4, <2>1, <3>1 DEF SeqOK
    <2>4. QED
      BY <2>2, <2>3
  <1>5. expected'[x] <= produced'[x] + 1
    BY DEF SeqOK
  <1>6. QED
    BY <1>3, <1>4, <1>5 DEF SeqOK

\* What a step does to the messages of the streams.
TakesOnly(x) ==
  Receiving(x) /\ Take(x) /\ UNCHANGED <<expected, produced>>
Touches(x) ==
  \/ TakesOnly(x) \/ ReceivePayload(x) \/ ServerInfo(x) \/ ServerPayload(x)
  \/ ServerEnd(x) \/ Break(x)

LEMMA WireActions ==
  ASSUME [Next]_vars
  PROVE  UNCHANGED <<wire, expected, produced>> \/ \E x \in Streams : Touches(x)
  <1> USE DEF seqVars, srvVars, Touches, TakesOnly
  <1>1. ASSUME NEW r \in Runs, NEW k \in {"run", "detached", "attach"},
               Start(r, k) \/ StopInstance(r) \/ GoRun(r)
        PROVE  UNCHANGED <<wire, expected, produced>>
    BY <1>1 DEF Start, StopInstance, GoRun, ResolveTargets, CreateInstance,
       FinishStreams, StopRecording, Unregister, SendStop
  <1>2. ASSUME NEW x \in Streams, GoStream(x)
        PROVE  UNCHANGED <<wire, expected, produced>>
    BY <1>2 DEF GoStream, Dial, SeeCancel, HandOver, ResultTimeout
  <1>3. ASSUME NEW x \in Streams, GoReceiver(x)
        PROVE  UNCHANGED <<wire, expected, produced>> \/ Touches(x)
    BY <1>3 DEF GoReceiver, ReceiveInfo, SetupRecording, SendInfo, Subscribe,
       DropUninitialized, SendEvent, WriteEvent, ReceiveResult, ReceiveEnd
  <1>4. ASSUME NEW x \in Streams, Server(x) PROVE Touches(x)
    BY <1>4 DEF Server
  <1>5. CASE UNCHANGED vars
    BY <1>5 DEF vars
  <1>6. QED
    BY <1>1, <1>2, <1>3, <1>4, <1>5 DEF Next

\* The numbers on the wire stay between what is expected and what was produced.
LEMMA SeqStep == RunInv /\ [Next]_vars => SeqInv'
  <1> SUFFICES ASSUME TypeOK, SeqInv, [Next]_vars PROVE SeqInv'
    BY DEF RunInv
  <1> USE DEF seqVars, srvVars
  <1>0. \A x \in Streams : /\ wire[x] \in Seq(Message)
                           /\ expected[x] \in Nat /\ produced[x] \in Nat
                           /\ SeqOK(x)
    BY DEF TypeOK, SeqInv
  <1>1. CASE UNCHANGED <<wire, expected, produced>>
    BY <1>0, <1>1, SeqSame DEF SeqInv
  <1>2. ASSUME NEW x \in Streams, Touches(x) PROVE SeqInv'
    <2>1. \A y \in Streams : y # x => UNCHANGED <<wire[y], expected[y], produced[y]>>
      BY <1>2 DEF TypeOK, Touches, TakesOnly, Take, ReceivePayload, ServerInfo,
         ServerPayload, ServerEnd, Break
    <2>2. ASSUME TakesOnly(x) PROVE SeqOK(x)'
      <3>1. /\ wire[x] # <<>> /\ wire'[x] = Tail(wire[x])
            /\ UNCHANGED <<expected, produced>>
        BY <2>2 DEF TypeOK, TakesOnly, Receiving, Take
      <3>2. QED
        BY <1>0, <3>1, TailSeq
    <2>3. ASSUME ReceivePayload(x) PROVE SeqOK(x)'
      <3>1. /\ wire[x] # <<>> /\ Head(wire[x]).type = "payload"
            /\ wire'[x] = Tail(wire[x]) /\ expected'[x] = Head(wire[x]).seq + 1
            /\ produced' = produced
        BY <2>3 DEF TypeOK, ReceivePayload, Receiving, Take, NextExpected
      <3>2. QED
        BY <1>0, <3>1, HandledSeq
    <2>4. ASSUME ServerInfo(x) PROVE SeqOK(x)'
      <3>1. wire'[x] = Append(wire[x], Info) /\ UNCHANGED <<expected, produced>>
        BY <2>4 DEF TypeOK, ServerInfo
      <3>2. Info \in Message /\ Info.type # "payload"
        BY DEF Info, Message
      <3>3. QED
        BY <1>0, <3>1, <3>2, AppendSeq
    <2>5. ASSUME ServerPayload(x) PROVE SeqOK(x)'
      <3>1. produced'[x] = produced[x] + 1 /\ expected' = expected
        BY <2>5 DEF TypeOK, ServerPayload
      <3>2. CASE wire'[x] = wire[x]
        <4>1. \A i \in 1 .. Len(wire[x]) : wire[x][i] \in Message
          BY <1>0
        <4>2. \A i \in 1 .. Len(wire[x]) : wire[x][i].seq \in Nat
          BY <4>1 DEF Message
        <4>3. QED
          BY <1>0, <3>1, <3>2, <4>2 DEF SeqOK
      <3>3. CASE wire'[x] = Append(wire[x], Payload(produced[x] + 1))
        <4>1. /\ Payload(produced[x] + 1) \in Message
              /\ Payload(produced[x] + 1).seq = produced'[x]
          BY <1>0, <3>1 DEF Payload, Message
        <4>2. QED
          BY <1>0, <3>1, <3>3, <4>1, AppendSeq
      <3>4. QED
        BY <2>5, <3>2, <3>3 DEF TypeOK, ServerPayload
    <2>6. ASSUME ServerEnd(x) PROVE SeqOK(x)'
      <3>1. /\ wire'[x] = wire[x] \o <<Result, End>>
            /\ UNCHANGED <<expected, produced>>
        BY <2>6 DEF TypeOK, ServerEnd
      <3>2. /\ Len(wire'[x]) = Len(wire[x]) + 2
            /\ \A i \in 1 .. Len(wire[x]) : wire'[x][i] = wire[x][i]
            /\ wire'[x][Len(wire[x]) + 1] = Result
            /\ wire'[x][Len(wire[x]) + 2] = End
        BY <1>0, <3>1
      <3>3. \A i \in 1 .. Len(wire'[x]) : wire'[x][i].type = "payload" =>
              i \in 1 .. Len(wire[x]) /\ wire'[x][i] = wire[x][i]
        BY <1>0, <3>2 DEF Result, End
      <3>4. QED
        BY <1>0, <3>1, <3>3 DEF SeqOK
    <2>7. ASSUME Break(x) PROVE SeqOK(x)'
      <3>1. wire'[x] = <<End>> /\ UNCHANGED <<expected, produced>>
        BY <2>7 DEF TypeOK, Break
      <3>2. QED
        BY <1>0, <3>1 DEF SeqOK, End
    <2>8. SeqOK(x)'
      BY <1>2, <2>2, <2>3, <2>4, <2>5, <2>6, <2>7 DEF Touches
    <2>9. \A y \in Streams : y # x => SeqOK(y)'
      BY <1>0, <2>1, SeqSame
    <2>10. QED
      BY <2>8, <2>9 DEF SeqInv
  <1>3. QED
    BY <1>1, <1>2, WireActions

\* A handled payload moves the account by as much as expectedSeq.
LEMMA GapsStep == RunInv /\ [Next]_vars => GapsReported'
  <1> SUFFICES ASSUME TypeOK, SeqInv, GapsReported, [Next]_vars PROVE GapsReported'
    BY DEF RunInv
  <1> USE DEF seqVars, srvVars
  <1>1. CASE UNCHANGED seqVars
    BY <1>1 DEF GapsReported
  <1>2. ASSUME NEW x \in Streams, ReceivePayload(x) PROVE GapsReported'
    <2> DEFINE n == Head(wire[x]).seq
    <2>1. /\ wire[x] # <<>> /\ wire[x] \in Seq(Message)
          /\ Head(wire[x]).type = "payload"
      BY <1>2 DEF TypeOK, ReceivePayload, Receiving
    <2>2. n \in Nat /\ expected[x] <= n
      <3>1. Head(wire[x]) = wire[x][1] /\ 1 \in 1 .. Len(wire[x])
        BY <2>1
      <3>2. QED
        <4>1. wire[x][1] \in Message
          BY <2>1, <3>1
        <4>2. QED
          BY <2>1, <3>1, <4>1 DEF SeqInv, SeqOK, Message
    <2>3. /\ reported' = [reported EXCEPT ![x] = @ + (n - expected[x])]
          /\ expected' = [expected EXCEPT ![x] = n + 1]
          /\ handled' = [handled EXCEPT ![x] = @ + 1]
      BY <1>2 DEF ReceivePayload, NextExpected
    <2>4. /\ reported[x] \in Int /\ expected[x] \in Nat /\ handled[x] \in Nat
          /\ handled[x] + reported[x] = expected[x] - 1 /\ reported[x] >= 0
      BY DEF TypeOK, GapsReported
    <2>5. /\ reported'[x] = reported[x] + (n - expected[x])
          /\ expected'[x] = n + 1 /\ handled'[x] = handled[x] + 1
      BY <2>3 DEF TypeOK
    <2> HIDE DEF n
    <2>6. handled'[x] + reported'[x] = expected'[x] - 1 /\ reported'[x] >= 0
      BY <2>2, <2>4, <2>5
    <2>7. \A y \in Streams : y # x => UNCHANGED <<reported[y], expected[y], handled[y]>>
      BY <2>3 DEF TypeOK
    <2>8. QED
      BY <2>6, <2>7 DEF GapsReported
  <1>3. UNCHANGED seqVars \/ \E x \in Streams : ReceivePayload(x)
    BY DEF Next, vars, Start, StopInstance, GoRun, ResolveTargets, CreateInstance,
       FinishStreams, StopRecording, Unregister, SendStop, GoStream, Dial, SeeCancel,
       HandOver, ResultTimeout, GoReceiver, ReceiveInfo, SetupRecording, SendInfo,
       Subscribe, DropUninitialized, SendEvent, WriteEvent, ReceiveResult,
       ReceiveEnd, Server, ServerInfo, ServerPayload, ServerEnd, Break
  <1>4. QED
    BY <1>1, <1>2, <1>3

-----------------------------------------------------------------------------
(* What is sent and what is recorded *)

\* The actions that touch the events of a run or its recording.
EventActions ==
  \/ \E r \in Runs : \/ \E k \in {"run", "detached", "attach"} : Start(r, k)
                     \/ StopRecording(r)
  \/ \E x \in Streams : SetupRecording(x) \/ SendInfo(x) \/ SendEvent(x) \/ WriteEvent(x)

\* The others leave them alone, do not move goro back, and only make a run less
\* orderly.
OtherActions ==
  /\ UNCHANGED <<kind, recording, announced, sent, session, recorded, writeErrors>>
  /\ \A r \in Runs : goro[r] \in {"unregister", "sendStop", "done"} =>
                     goro'[r] \in {"unregister", "sendStop", "done"}
  /\ timedOut \subseteq timedOut'
  /\ \A x \in Streams : receiver'[x] = "writing" <=> receiver[x] = "writing"

LEMMA EventOrOther ==
  ASSUME TypeOK, StageInv, [Next]_vars
  PROVE  EventActions \/ OtherActions
  <1> USE StreamRun DEF TypeOK, runVars, clientVars, recVars, seqVars, srvVars
  <1>1. ASSUME NEW r \in Runs, StopInstance(r) PROVE OtherActions
    BY <1>1 DEF StopInstance, OtherActions
  <1>2. ASSUME NEW r \in Runs, ResolveTargets(r) \/ CreateInstance(r) PROVE OtherActions
    BY <1>2 DEF ResolveTargets, CreateInstance, OtherActions
  <1>3. ASSUME NEW r \in Runs, FinishStreams(r) \/ Unregister(r) \/ SendStop(r)
        PROVE  OtherActions
    BY <1>3 DEF FinishStreams, Unregister, SendStop, OtherActions
  <1>4. ASSUME NEW x \in Streams, Dial(x) PROVE OtherActions
    <2>1. receiver[x] = "none"
      BY <1>4 DEF Dial, StageInv
    <2>2. receiver' = receiver \/ receiver' = [receiver EXCEPT ![x] = "reading"]
      BY <1>4 DEF Dial
    <2>3. QED
      BY <1>4, <2>1, <2>2 DEF Dial, OtherActions
  <1>5. ASSUME NEW x \in Streams, SeeCancel(x) \/ HandOver(x) \/ ResultTimeout(x)
        PROVE  OtherActions
    BY <1>5 DEF SeeCancel, HandOver, ResultTimeout, OtherActions
  <1>6. ASSUME NEW x \in Streams, ReceiveInfo(x) PROVE OtherActions
    <2>1. receiver[x] = "reading"
      BY <1>6 DEF ReceiveInfo, Receiving
    <2>2. receiver' = receiver \/ receiver' = [receiver EXCEPT ![x] = "preStart"]
      BY <1>6 DEF ReceiveInfo, Receiver
    <2>3. UNCHANGED <<kind, recording, goro, timedOut, announced, sent, session, recorded,
                      writeErrors>>
      BY <1>6 DEF ReceiveInfo
    <2>4. QED
      BY <2>1, <2>2, <2>3 DEF OtherActions
  <1>7. ASSUME NEW x \in Streams, ReceivePayload(x) PROVE OtherActions
    <2>1. receiver[x] = "reading"
      BY <1>7 DEF ReceivePayload, Receiving
    <2>2. receiver' = receiver \/ receiver' = [receiver EXCEPT ![x] = "sending"]
      BY <1>7 DEF ReceivePayload, Receiver
    <2>3. UNCHANGED <<kind, recording, goro, timedOut, announced, sent, session, recorded,
                      writeErrors>>
      BY <1>7 DEF ReceivePayload
    <2>4. QED
      BY <2>1, <2>2, <2>3 DEF OtherActions
  <1>8. ASSUME NEW x \in Streams, Subscribe(x) \/ DropUninitialized(x) \/ ReceiveResult(x)
                                   \/ ReceiveEnd(x)
        PROVE  OtherActions
    <2>1. receiver[x] \in {"subscribe", "reading"}
      BY <1>8 DEF Subscribe, DropUninitialized, ReceiveResult, ReceiveEnd, Receiving
    <2>2. \/ receiver' = receiver
          \/ receiver' = [receiver EXCEPT ![x] = "reading"]
          \/ receiver' = [receiver EXCEPT ![x] = "handing"]
      BY <1>8 DEF Subscribe, DropUninitialized, ReceiveResult, ReceiveEnd, Receiver
    <2>3. UNCHANGED <<kind, recording, goro, timedOut, announced, sent, session, recorded,
                      writeErrors>>
      BY <1>8 DEF Subscribe, DropUninitialized, ReceiveResult, ReceiveEnd
    <2>4. QED
      BY <2>1, <2>2, <2>3 DEF OtherActions
  <1>9. ASSUME NEW x \in Streams, Server(x) PROVE OtherActions
    BY <1>9 DEF Server, ServerInfo, ServerPayload, ServerEnd, Break, OtherActions
  <1>10. CASE UNCHANGED vars
    BY <1>10 DEF vars, OtherActions
  <1>11. QED
    BY <1>1, <1>2, <1>3, <1>4, <1>5, <1>6, <1>7, <1>8, <1>9, <1>10
       DEF Next, GoRun, GoStream, GoReceiver, EventActions

\* Receivers that do not enter or leave WriteEvent.
LEMMA WritingSame ==
  ASSUME \A x \in Streams : receiver'[x] = "writing" <=> receiver[x] = "writing"
  PROVE  \A r : Writing(r)' = Writing(r)
  BY DEF Writing, StreamsOf

\* An orderly run has no receiver at work once its goroutine is past StopGadgetRun.
LEMMA OrderlyQuiet ==
  ASSUME StageInv, ReceiverReturns, NEW x \in Streams, Orderly(x[1]),
         goro[x[1]] \in {"unregister", "sendStop", "done"}
  PROVE  receiver[x] \in {"none", "gone"}
  <1>1. stream[x] \in {"none", "ended"}
    BY DEF StageInv
  <1>2. x \notin timedOut /\ kind[x[1]] # "attach"
    BY DEF Orderly, StreamsOf
  <1>3. QED
    BY <1>1, <1>2 DEF StageInv, ReceiverReturns, AbandonedStream

\* What EventInv says of one run.
EventOK(r) ==
  /\ IsFiniteSet(Writing(r))
  /\ Writing(r) # {} => r \in recording
  /\ r \notin announced => sent[r] = 0 /\ recorded[r] = 0 /\ writeErrors[r] = 0
  /\ session[r] # "none" => r \in recording
  /\ r \in recording => kind[r] = "run"
  /\ session[r] = "closed" => goro[r] \in {"unregister", "sendStop", "done"}
  /\ Orderly(r) /\ session[r] # "none" =>
       sent[r] = recorded[r] + writeErrors[r] + Cardinality(Writing(r))

\* Runs that a step does not touch, apart from making them less orderly.
LEMMA EventSame ==
  ASSUME NEW r \in Runs, EventOK(r), Writing(r)' = Writing(r),
         UNCHANGED <<sent[r], recorded[r], writeErrors[r], session[r], kind[r]>>,
         r \in announced' <=> r \in announced,
         r \in recording' <=> r \in recording,
         timedOut \subseteq timedOut',
         goro[r] \in {"unregister", "sendStop", "done"} =>
           goro'[r] \in {"unregister", "sendStop", "done"}
  PROVE  EventOK(r)'
  <1>1. Orderly(r)' => Orderly(r)
    BY DEF Orderly, StreamsOf
  <1>2. QED
    BY <1>1 DEF EventOK

\* Taking a receiver out of the writers.
LEMMA OneWriterLess ==
  ASSUME NEW S, NEW x \in S, IsFiniteSet(S)
  PROVE  IsFiniteSet(S \ {x}) /\ Cardinality(S \ {x}) = Cardinality(S) - 1
  BY FS_RemoveElement

\* An event that was under way is recorded or logged.
LEMMA OneMoreCounted ==
  ASSUME NEW s \in Nat, NEW c \in Nat, NEW a \in Nat, NEW b \in Nat,
         NEW n \in Nat, NEW m, s = a + b + n, m = n - 1,
         c = a + b + 1
  PROVE  s = c + m
  OBVIOUS

\* One of two counters goes up.
LEMMA OneCounterUp ==
  ASSUME NEW a \in Nat, NEW b \in Nat, NEW c, NEW d,
         \/ c = a + 1 /\ d = b
         \/ d = b + 1 /\ c = a
  PROVE  c \in Nat /\ d \in Nat /\ c + d = a + b + 1
  OBVIOUS

\* Every event of a recorded run is recorded, logged as lost, or about to be
\* recorded.
LEMMA EventStep == RunInv /\ [Next]_vars => EventInv'
  <1> SUFFICES ASSUME TypeOK, StageInv, LoaderInv, ReceiverReturns, EventInv, [Next]_vars
               PROVE  \A q \in Runs : EventOK(q)'
    BY DEF RunInv, EventInv, EventOK
  <1>0. \A q \in Runs : EventOK(q)
    BY DEF EventInv, EventOK
  <1> USE StreamRun DEF TypeOK, runVars, clientVars, recVars, seqVars, srvVars
  <1>1. ASSUME NEW r \in Runs, NEW k \in {"run", "detached", "attach"}, Start(r, k)
        PROVE  \A q \in Runs : EventOK(q)'
    <2>1. \A q \in Runs : Writing(q)' = Writing(q)
      BY <1>1, WritingSame DEF Start
    <2>2. ASSUME NEW q \in Runs, q # r PROVE EventOK(q)'
      BY <1>0, <1>1, <2>1, <2>2, EventSame DEF Start
    <2>3. EventOK(r)'
      <3>1. session[r] = "none" /\ r \notin recording
        BY <1>0, <1>1 DEF Start, EventOK
      <3>2. UNCHANGED <<announced, sent, recorded, writeErrors, session>>
        BY <1>1 DEF Start
      <3>3. r \in recording' => kind'[r] = "run"
        BY <1>1, <3>1 DEF Start, MayRecord
      <3>4. Writing(r) = {}
        BY <1>0, <3>1 DEF EventOK
      <3>5. QED
        BY <1>0, <2>1, <3>1, <3>2, <3>3, <3>4 DEF EventOK
    <2>4. QED
      BY <2>2, <2>3
  <1>2. ASSUME NEW r \in Runs, StopRecording(r) PROVE \A q \in Runs : EventOK(q)'
    <2>1. \A q \in Runs : Writing(q)' = Writing(q)
      BY <1>2, WritingSame DEF StopRecording
    <2>2. ASSUME NEW q \in Runs, q # r PROVE EventOK(q)'
      BY <1>0, <1>2, <2>1, <2>2, EventSame DEF StopRecording
    <2>3. EventOK(r)'
      <3>1. UNCHANGED <<announced, sent, recorded, writeErrors, recording, kind, timedOut>>
        BY <1>2 DEF StopRecording
      <3>2. goro'[r] = "unregister" /\ session'[r] \in {session[r], "closed"}
        BY <1>2 DEF StopRecording
      <3>3. session'[r] # "none" => session[r] # "none"
        BY <1>2 DEF StopRecording
      <3>4. Orderly(r)' <=> Orderly(r)
        BY <3>1 DEF Orderly, StreamsOf
      <3>5. QED
        BY <1>0, <2>1, <3>1, <3>2, <3>3, <3>4 DEF EventOK
    <2>4. QED
      BY <2>2, <2>3
  <1>3. ASSUME NEW x \in Streams, SetupRecording(x) PROVE \A q \in Runs : EventOK(q)'
    <2>1. \A q \in Runs : Writing(q)' = Writing(q)
      BY <1>3, WritingSame DEF SetupRecording, Receiver
    <2>2. ASSUME NEW q \in Runs, q # x[1] PROVE EventOK(q)'
      BY <1>0, <1>3, <2>1, <2>2, EventSame DEF SetupRecording
    <2>3. EventOK(x[1])'
      <3>1. UNCHANGED <<announced, sent, recorded, writeErrors, recording, kind, goro,
                        timedOut>>
        BY <1>3 DEF SetupRecording
      <3>2. x[1] \notin announced
        BY <1>3 DEF SetupRecording, LoaderInv
      <3>3. \A y \in Streams : y[1] = x[1] => receiver[y] # "writing"
        BY <3>2 DEF LoaderInv
      <3>4. Writing(x[1]) = {}
        BY <3>3 DEF Writing, StreamsOf
      <3>5. Cardinality(Writing(x[1])) = 0
        BY <3>4, FS_EmptySet
      <3>6. session'[x[1]] = session[x[1]] \/ (session'[x[1]] = "active" /\ x[1] \in recording)
        BY <1>3 DEF SetupRecording
      <3>7. QED
        <4>1. /\ sent'[x[1]] = 0 /\ recorded'[x[1]] = 0 /\ writeErrors'[x[1]] = 0
              /\ x[1] \notin announced'
          BY <1>0, <3>1, <3>2 DEF EventOK
        <4>2. Writing(x[1])' = Writing(x[1]) /\ Cardinality(Writing(x[1]))' = 0
          BY <2>1, <3>5
        <4>3. session'[x[1]] # "none" => x[1] \in recording'
          BY <1>0, <3>1, <3>6 DEF EventOK
        <4>4. session'[x[1]] = "closed" => goro'[x[1]] \in {"unregister", "sendStop", "done"}
          BY <1>0, <3>1, <3>6 DEF EventOK
        <4>5. x[1] \in recording' => kind'[x[1]] = "run"
          BY <1>0, <3>1 DEF EventOK
        <4>6. IsFiniteSet(Writing(x[1]))' /\ Writing(x[1])' = {}
          BY <3>4, <4>2, FS_EmptySet
        <4>7. QED
          BY <4>1, <4>2, <4>3, <4>4, <4>5, <4>6 DEF EventOK
    <2>4. QED
      BY <2>2, <2>3
  <1>4. ASSUME NEW x \in Streams, SendInfo(x) PROVE \A q \in Runs : EventOK(q)'
    <2>1. \A q \in Runs : Writing(q)' = Writing(q)
      BY <1>4, WritingSame DEF SendInfo, Receiver
    <2>2. announced' = announced \cup {x[1]}
      BY <1>4 DEF SendInfo
    <2>3. UNCHANGED <<sent, recorded, writeErrors, recording, session, kind, goro, timedOut>>
      BY <1>4 DEF SendInfo
    <2>4. \A q \in Runs : Orderly(q)' <=> Orderly(q)
      BY <2>3 DEF Orderly, StreamsOf
    <2>5. QED
      BY <1>0, <2>1, <2>2, <2>3, <2>4 DEF EventOK
  <1>5. ASSUME NEW x \in Streams, SendEvent(x) PROVE \A q \in Runs : EventOK(q)'
    <2>1. /\ receiver[x] = "sending" /\ x[1] \in announced
          /\ UNCHANGED <<announced, recorded, writeErrors, recording, session, kind, goro,
                         timedOut, stream>>
      BY <1>5 DEF SendEvent, LoaderInv
    <2>2. \A q \in Runs : q # x[1] => Writing(q)' = Writing(q)
      BY <1>5 DEF SendEvent, Receiver, Writing, StreamsOf
    <2>3. ASSUME NEW q \in Runs, q # x[1] PROVE EventOK(q)'
      BY <1>0, <1>5, <2>1, <2>2, <2>3, EventSame DEF SendEvent
    <2>4. EventOK(x[1])'
      <3>1. CASE x[1] \in recording
        <4>1. Writing(x[1])' = Writing(x[1]) \cup {x} /\ x \notin Writing(x[1])
          BY <1>5, <2>1, <3>1 DEF SendEvent, Receiver, Writing, StreamsOf
        <4>2. IsFiniteSet(Writing(x[1]))
          BY <1>0 DEF EventOK
        <4>3. /\ IsFiniteSet(Writing(x[1]) \cup {x})
              /\ Cardinality(Writing(x[1]) \cup {x}) = Cardinality(Writing(x[1])) + 1
          BY <4>1, <4>2, FS_AddElement, Zenon
        <4>4. /\ sent'[x[1]] = sent[x[1]] + 1 /\ sent[x[1]] \in Nat
              /\ recorded[x[1]] \in Nat /\ writeErrors[x[1]] \in Nat
          BY <1>5 DEF SendEvent
        <4>5. Cardinality(Writing(x[1])) \in Nat
          BY <4>2, FS_CardinalityType
        <4>6. Orderly(x[1])' <=> Orderly(x[1])
          BY <2>1 DEF Orderly, StreamsOf
        <4>7. Orderly(x[1])' /\ session'[x[1]] # "none" =>
                sent'[x[1]] = recorded'[x[1]] + writeErrors'[x[1]] + Cardinality(Writing(x[1]))'
          <5> SUFFICES ASSUME Orderly(x[1])', session'[x[1]] # "none"
                       PROVE  sent'[x[1]] = recorded'[x[1]] + writeErrors'[x[1]] + Cardinality(Writing(x[1]))'
            OBVIOUS
          <5>1. sent[x[1]] = recorded[x[1]] + writeErrors[x[1]] + Cardinality(Writing(x[1]))
            BY <1>0, <2>1, <4>6 DEF EventOK
          <5>2. Cardinality(Writing(x[1]))' = Cardinality(Writing(x[1])) + 1
            BY <4>1, <4>3
          <5>3. recorded' = recorded /\ writeErrors' = writeErrors
            BY <2>1
          <5>4. QED
            BY <4>4, <4>5, <5>1, <5>2, <5>3
        <4>8. QED
          BY <1>0, <2>1, <3>1, <4>1, <4>3, <4>7 DEF EventOK
      <3>2. CASE x[1] \notin recording
        <4>1. Writing(x[1])' = Writing(x[1])
          BY <1>5, <2>1, <3>2 DEF SendEvent, Receiver, Writing, StreamsOf
        <4>2. session[x[1]] = "none"
          BY <1>0, <3>2 DEF EventOK
        <4>3. QED
          BY <1>0, <2>1, <4>1, <4>2 DEF EventOK
      <3>3. QED
        BY <3>1, <3>2
    <2>5. QED
      BY <2>3, <2>4
  <1>6. ASSUME NEW x \in Streams, WriteEvent(x) PROVE \A q \in Runs : EventOK(q)'
    <2>1. /\ receiver[x] = "writing" /\ x[1] \in announced
          /\ UNCHANGED <<announced, sent, recording, session, kind, goro, timedOut, stream>>
      BY <1>6 DEF WriteEvent, LoaderInv
    <2>2. \A q \in Runs : q # x[1] => Writing(q)' = Writing(q)
      BY <1>6 DEF WriteEvent, Receiver, Writing, StreamsOf
    <2>3. ASSUME NEW q \in Runs, q # x[1] PROVE EventOK(q)'
      BY <1>0, <1>6, <2>1, <2>2, <2>3, EventSame DEF WriteEvent
    <2>4. EventOK(x[1])'
      <3>1. Writing(x[1])' = Writing(x[1]) \ {x} /\ x \in Writing(x[1])
        BY <1>6, <2>1 DEF WriteEvent, Receiver, Writing, StreamsOf
      <3>2. IsFiniteSet(Writing(x[1])) /\ x[1] \in recording
        BY <1>0, <3>1 DEF EventOK
      <3>3. /\ IsFiniteSet(Writing(x[1]) \ {x})
            /\ Cardinality(Writing(x[1]) \ {x}) = Cardinality(Writing(x[1])) - 1
        <4>1. x \in Writing(x[1]) /\ IsFiniteSet(Writing(x[1]))
          BY <3>1, <3>2
        <4>2. QED
          BY <4>1, OneWriterLess, Zenon
      <3>4. Cardinality(Writing(x[1])) \in Nat
        BY <3>2, FS_CardinalityType
      <3>5. Orderly(x[1])' <=> Orderly(x[1])
        BY <2>1 DEF Orderly, StreamsOf
      <3>6. Orderly(x[1]) => session[x[1]] # "closed"
        BY <1>0, <2>1, OrderlyQuiet DEF EventOK
      <3>7. Orderly(x[1])' /\ session'[x[1]] # "none" =>
              sent'[x[1]] = recorded'[x[1]] + writeErrors'[x[1]] + Cardinality(Writing(x[1]))'
        <4> SUFFICES ASSUME Orderly(x[1])', session'[x[1]] # "none"
                     PROVE  sent'[x[1]] = recorded'[x[1]] + writeErrors'[x[1]] + Cardinality(Writing(x[1]))'
          OBVIOUS
        <4>1. sent[x[1]] = recorded[x[1]] + writeErrors[x[1]] + Cardinality(Writing(x[1]))
          BY <1>0, <2>1, <3>5 DEF EventOK
        <4>2. Cardinality(Writing(x[1]))' = Cardinality(Writing(x[1])) - 1
          BY <3>1, <3>3
        <4>3. session[x[1]] = "active"
          BY <2>1, <3>5, <3>6
        <4>4. /\ recorded'[x[1]] \in Nat /\ writeErrors'[x[1]] \in Nat /\ sent' = sent
              /\ recorded'[x[1]] + writeErrors'[x[1]] = recorded[x[1]] + writeErrors[x[1]] + 1
          <5>1. recorded[x[1]] \in Nat /\ writeErrors[x[1]] \in Nat /\ x[1] \in Runs
            OBVIOUS
          <5>2. \/ recorded'[x[1]] = recorded[x[1]] + 1 /\ writeErrors'[x[1]] = writeErrors[x[1]]
                \/ writeErrors'[x[1]] = writeErrors[x[1]] + 1 /\ recorded'[x[1]] = recorded[x[1]]
            BY <1>6, <4>3 DEF WriteEvent
          <5>3. QED
            BY ONLY <2>1, <5>1, <5>2, OneCounterUp
        <4>5. sent[x[1]] \in Nat /\ recorded[x[1]] \in Nat /\ writeErrors[x[1]] \in Nat
          OBVIOUS
        <4>6. recorded'[x[1]] + writeErrors'[x[1]] \in Nat
          BY <4>4
        <4>7. sent[x[1]] = (recorded'[x[1]] + writeErrors'[x[1]])
                             + (Cardinality(Writing(x[1]))')
          BY ONLY <3>4, <4>1, <4>2, <4>4, <4>5, <4>6, OneMoreCounted
        <4>8. QED
          BY ONLY <4>4, <4>7
      <3>8. QED
        BY <1>0, <2>1, <3>1, <3>2, <3>3, <3>7 DEF EventOK
    <2>5. QED
      BY <2>3, <2>4
  <1>7. CASE OtherActions
    <2>1. \A q \in Runs : Writing(q)' = Writing(q)
      BY <1>7, WritingSame DEF OtherActions
    <2>2. QED
      BY <1>0, <1>7, <2>1, EventSame DEF OtherActions
  <1>8. QED
    BY <1>1, <1>2, <1>3, <1>4, <1>5, <1>6, <1>7, EventOrOther DEF EventActions

-----------------------------------------------------------------------------

\* Every step preserves the inductive invariant.
LEMMA RunInvStep == RunInv /\ [Next]_vars => RunInv'
  BY TypeStep, StageStep, LoaderStep, ReceiverStep, RecordingStep, WireStep, SeqStep,
     GapsStep, EventStep DEF RunInv

LEMMA RunInvInit == Init => RunInv
  <1> SUFFICES ASSUME Init PROVE RunInv
    OBVIOUS
  <1> USE StreamRun DEF Init
  <1>1. TypeOK
    BY DEF TypeOK
  <1>2. StageInv
    BY DEF StageInv, Connected
  <1>3. LoaderInv
    BY DEF LoaderInv, Loading
  <1>4. WireInv
    BY DEF WireInv, WireOK, EndIsLast, AbandonedStream
  <1>5. RecordingInv
    BY DEF RecordingInv
  <1>6. ReceiverReturns
    BY DEF ReceiverReturns, AbandonedStream
  <1>7. SeqInv /\ GapsReported
    BY DEF SeqInv, SeqOK, GapsReported
  <1>8. EventInv
    <2>1. \A r \in Runs : Writing(r) = {}
      BY DEF Writing, StreamsOf
    <2>2. QED
      BY <2>1, FS_EmptySet DEF EventInv
  <1>9. QED
    BY <1>1, <1>2, <1>3, <1>4, <1>5, <1>6, <1>7, <1>8 DEF RunInv

\* The inductive invariant of the run, its streams and its receivers.
THEOREM RunInvariant == Spec => []RunInv
  <1>1. Init => RunInv
    BY RunInvInit
  <1>2. RunInv /\ [Next]_vars => RunInv'
    BY RunInvStep
  <1>3. QED
    BY <1>1, <1>2, PTL DEF Spec

\* Type correctness.
THEOREM RunTypeCorrect == Spec => []TypeOK
  <1>1. RunInv => TypeOK
    BY DEF RunInv
  <1>2. QED
    BY <1>1, RunInvariant, PTL

\* No goroutine is left on doneChan except by an attached run or a timeout.
THEOREM ReceiverAlwaysReturns == Spec => []ReceiverReturns
  <1>1. RunInv => ReceiverReturns
    BY DEF RunInv
  <1>2. QED
    BY <1>1, RunInvariant, PTL

\* When an orderly run reports its end its recording is closed, unless the log has
\* the failure of StopGadgetRun.
THEOREM RecordingAlwaysClosed == Spec => []RecordingClosed
  <1>1. RunInv => RecordingClosed
    BY DEF RunInv, RecordingInv, StageInv, RecordingClosed, TypeOK
  <1>2. QED
    BY <1>1, RunInvariant, PTL

\* Stopping a run does not lose what its servers had sent.
THEOREM StopAlwaysKeepsResults == Spec => []StopKeepsResults
  <1>1. RunInv => StopKeepsResults
    <2> SUFFICES ASSUME RunInv, NEW r \in stopped, Orderly(r), NEW x \in StreamsOf(r)
                 PROVE server[x] = "broken" \/ wire[x] = <<>>
      BY DEF StopKeepsResults
    <2>1. x \in Streams /\ x[1] = r /\ r \in Runs
      BY StreamRun DEF StreamsOf
    <2>2. goro[r] = "done"
      BY <2>1 DEF RunInv, StageInv
    <2>3. stream[x] \in {"none", "ended"}
      BY <2>1, <2>2 DEF RunInv, StageInv
    <2>4. ~AbandonedStream(x)
      BY <2>1 DEF RunInv, ReceiverReturns, Orderly
    <2>5. receiver[x] \in {"none", "gone"}
      BY <2>1, <2>3, <2>4 DEF RunInv, StageInv, AbandonedStream
    <2>6. QED
      BY <2>1, <2>4, <2>5 DEF RunInv, WireInv, WireOK
  <1>2. QED
    BY <1>1, RunInvariant, PTL

\* Every sequence number up to the last payload was handled or warned about
\* (oci.go:206-209), on every stream and however many the server drops.
THEOREM GapsAlwaysReported == Spec => []GapsReported
  <1>1. RunInv => GapsReported
    BY DEF RunInv
  <1>2. QED
    BY <1>1, RunInvariant, PTL

\* A closed recording of an orderly run lacks nothing the client was sent
\* (service.go:106-150, 237-242).
THEOREM RecordingAlwaysComplete == Spec => []RecordingComplete
  <1>1. RunInv => RecordingComplete
    <2> SUFFICES ASSUME RunInv, NEW r \in Runs, Orderly(r), RecordingOver(r)
                 PROVE  recorded[r] + writeErrors[r] = sent[r]
      BY DEF RecordingComplete
    <2>1. goro[r] \in {"unregister", "sendStop", "done"}
      BY DEF RunInv, EventInv, StageInv, RecordingOver
    <2>2. \A x \in Streams : x[1] = r => receiver[x] # "writing"
      BY <2>1, OrderlyQuiet DEF RunInv
    <2>3. Writing(r) = {}
      BY <2>2 DEF Writing, StreamsOf
    <2>4. Cardinality(Writing(r)) = 0
      BY <2>3, FS_EmptySet
    <2>5. /\ sent[r] = recorded[r] + writeErrors[r] + Cardinality(Writing(r))
          /\ recorded[r] \in Nat /\ writeErrors[r] \in Nat
      BY DEF RunInv, EventInv, TypeOK, RecordingOver
    <2>6. QED
      BY <2>4, <2>5
  <1>2. QED
    BY <1>1, RunInvariant, PTL

-----------------------------------------------------------------------------
(* GadgetRun implements RunProtocol *)

\* A step that abandons no stream abandons no run.
LEMMA SameAbandoned ==
  ASSUME \A x \in Streams : AbandonedStream(x)' <=> AbandonedStream(x)
  PROVE  AbandonedRuns' = AbandonedRuns
  BY DEF AbandonedRuns, StreamsOf

\* The receiver of a stopped run is one that was abandoned.
LEMMA LateReceiverAbandoned ==
  ASSUME RunInv, NEW x \in Streams, receiver[x] \in {"announce", "sending"}
  PROVE  x[1] \in stopped => x[1] \in AbandonedRuns
  <1> SUFFICES ASSUME x[1] \in stopped PROVE AbandonedStream(x)
    BY StreamRun DEF AbandonedRuns, StreamsOf
  <1>1. goro[x[1]] = "done"
    BY StreamRun DEF RunInv, StageInv
  <1>2. stream[x] = "ended"
    BY <1>1 DEF RunInv, StageInv
  <1>3. QED
    BY <1>2 DEF AbandonedStream

\* A stream that is abandoned while its run goes on is a step of the protocol.
LEMMA AbandonStep ==
  ASSUME RunInv, NEW x \in Streams, Connected(x), x[1] \in Runs,
         stream' = [stream EXCEPT ![x] = "ended"],
         UNCHANGED <<receiver, announced, sent, stopped>>
  PROVE  Protocol!PNext
  <1>1. x[1] \notin stopped
    BY DEF RunInv, StageInv, Connected
  <1>2. \A y \in Streams : AbandonedStream(y)' <=> AbandonedStream(y) \/ y = x
    BY DEF RunInv, StageInv, TypeOK, Connected, AbandonedStream
  <1>3. AbandonedRuns' = AbandonedRuns \cup {x[1]}
    BY <1>2 DEF AbandonedRuns, StreamsOf
  <1>4. Protocol!Abandon(x[1])
    BY <1>1, <1>3 DEF Protocol!Abandon
  <1>5. QED
    BY <1>4 DEF Protocol!PNext

\* Every step of a run is a step of the protocol or invisible in it.
LEMMA ProtocolStep == RunInv /\ [Next]_vars => [Protocol!PNext]_Protocol!pvars
  <1> SUFFICES ASSUME RunInv, [Next]_vars PROVE [Protocol!PNext]_Protocol!pvars
    OBVIOUS
  <1>0. ASSUME UNCHANGED <<announced, sent, stopped>>,
               \A y \in Streams : AbandonedStream(y)' <=> AbandonedStream(y)
        PROVE  [Protocol!PNext]_Protocol!pvars
    BY <1>0, SameAbandoned DEF Protocol!pvars
  <1> USE StreamRun DEF RunInv, TypeOK, StageInv, AbandonedStream, clientVars, recVars, runVars, seqVars, srvVars
  <1>1. ASSUME NEW r \in Runs, NEW k \in {"run", "detached", "attach"},
                Start(r, k) PROVE [Protocol!PNext]_Protocol!pvars
    BY <1>1, <1>0 DEF Start
  <1>2. ASSUME NEW r \in Runs, StopInstance(r) PROVE [Protocol!PNext]_Protocol!pvars
    BY <1>2, <1>0 DEF StopInstance
  <1>3. ASSUME NEW r \in Runs, ResolveTargets(r) PROVE [Protocol!PNext]_Protocol!pvars
    BY <1>3, <1>0 DEF ResolveTargets
  <1>4. ASSUME NEW r \in Runs, CreateInstance(r) PROVE [Protocol!PNext]_Protocol!pvars
    BY <1>4, <1>0 DEF CreateInstance
  <1>5. ASSUME NEW r \in Runs, FinishStreams(r) PROVE [Protocol!PNext]_Protocol!pvars
    BY <1>5, <1>0 DEF FinishStreams, StreamsEnded
  <1>6. ASSUME NEW r \in Runs, StopRecording(r) PROVE [Protocol!PNext]_Protocol!pvars
    BY <1>6, <1>0 DEF StopRecording
  <1>7. ASSUME NEW r \in Runs, Unregister(r) PROVE [Protocol!PNext]_Protocol!pvars
    BY <1>7, <1>0 DEF Unregister
  <1>8. ASSUME NEW r \in Runs, SendStop(r) PROVE [Protocol!PNext]_Protocol!pvars
    <2>1. AbandonedRuns' = AbandonedRuns
      BY <1>8, SameAbandoned DEF SendStop
    <2>2. r \notin stopped
      BY <1>8 DEF SendStop
    <2>3. Protocol!Stop(r)
      BY <1>8, <2>1, <2>2 DEF SendStop, Protocol!Stop
    <2>4. QED
      BY <2>3 DEF Protocol!PNext
  <1>9. ASSUME NEW x \in Streams, Dial(x) PROVE [Protocol!PNext]_Protocol!pvars
    BY <1>9, <1>0 DEF Dial
  <1>10. ASSUME NEW x \in Streams, SeeCancel(x) PROVE [Protocol!PNext]_Protocol!pvars
    <2>1. CASE Interactive(x[1])
      <3>1. /\ stream' = [stream EXCEPT ![x] = "stopping"]
            /\ stream[x] = "open"
            /\ UNCHANGED <<receiver, announced, sent, stopped>>
        BY <1>10, <2>1 DEF SeeCancel
      <3>2. QED
        BY <1>0, <3>1
    <2>2. CASE ~Interactive(x[1])
      <3>1. Connected(x) /\ stream' = [stream EXCEPT ![x] = "ended"]
        BY <1>10, <2>2 DEF SeeCancel, Connected
      <3>2. UNCHANGED <<receiver, announced, sent, stopped>>
        BY <1>10 DEF SeeCancel
      <3>3. QED
        BY <3>1, <3>2, AbandonStep
    <2>3. QED
      BY <2>1, <2>2
  <1>11. ASSUME NEW x \in Streams, HandOver(x) PROVE [Protocol!PNext]_Protocol!pvars
    BY <1>11, <1>0 DEF HandOver
  <1>12. ASSUME NEW x \in Streams, ResultTimeout(x) PROVE [Protocol!PNext]_Protocol!pvars
    <2>1. Connected(x) /\ stream' = [stream EXCEPT ![x] = "ended"]
      BY <1>12 DEF ResultTimeout, Connected
    <2>2. UNCHANGED <<receiver, announced, sent, stopped>>
      BY <1>12 DEF ResultTimeout
    <2>3. QED
      BY <2>1, <2>2, AbandonStep
  <1>13. ASSUME NEW x \in Streams, ReceiveInfo(x) PROVE [Protocol!PNext]_Protocol!pvars
    BY <1>13, <1>0 DEF ReceiveInfo, Receiving, Take, Receiver
  <1>14. ASSUME NEW x \in Streams, SetupRecording(x) PROVE [Protocol!PNext]_Protocol!pvars
    BY <1>14, <1>0 DEF SetupRecording, Receiver
  <1>15. ASSUME NEW x \in Streams, SendInfo(x) PROVE [Protocol!PNext]_Protocol!pvars
    <2>1. receiver[x] = "announce" /\ receiver' = [receiver EXCEPT ![x] = "subscribe"]
      BY <1>15 DEF SendInfo, Receiver
    <2>2. AbandonedRuns' = AbandonedRuns
      BY <1>15, <2>1, SameAbandoned DEF SendInfo
    <2>3. x[1] \notin announced
      BY <2>1 DEF LoaderInv
    <2>4. Protocol!Alive(x[1])
      BY <2>1, LateReceiverAbandoned DEF Protocol!Alive
    <2>5. Protocol!Announce(x[1])
      BY <1>15, <2>2, <2>3, <2>4 DEF SendInfo, Protocol!Announce
    <2>6. QED
      BY <2>5 DEF Protocol!PNext
  <1>16. ASSUME NEW x \in Streams, Subscribe(x) PROVE [Protocol!PNext]_Protocol!pvars
    BY <1>16, <1>0 DEF Subscribe, Receiver
  <1>17. ASSUME NEW x \in Streams, DropUninitialized(x) PROVE [Protocol!PNext]_Protocol!pvars
    BY <1>17, <1>0 DEF DropUninitialized, Receiving, Take
  <1>18. ASSUME NEW x \in Streams, ReceivePayload(x) PROVE [Protocol!PNext]_Protocol!pvars
    BY <1>18, <1>0, SMTT(30) DEF ReceivePayload, Receiving, Take, Receiver, NextExpected, Message
  <1>19. ASSUME NEW x \in Streams, SendEvent(x) PROVE [Protocol!PNext]_Protocol!pvars
    <2>1. /\ receiver[x] = "sending"
          /\ receiver' = [receiver EXCEPT ![x] = IF x[1] \in recording THEN "writing"
                                                                    ELSE "reading"]
      BY <1>19 DEF SendEvent, Receiver
    <2>2. AbandonedRuns' = AbandonedRuns
      BY <1>19, <2>1, SameAbandoned DEF SendEvent
    <2>3. x[1] \in announced
      BY <2>1 DEF LoaderInv
    <2>4. Protocol!Alive(x[1])
      BY <2>1, LateReceiverAbandoned DEF Protocol!Alive
    <2>5. Protocol!Deliver(x[1])
      BY <1>19, <2>2, <2>3, <2>4 DEF SendEvent, Protocol!Deliver
    <2>6. QED
      BY <2>5 DEF Protocol!PNext
  <1>20. ASSUME NEW x \in Streams, WriteEvent(x) PROVE [Protocol!PNext]_Protocol!pvars
    BY <1>20, <1>0 DEF WriteEvent, Receiver
  <1>21. ASSUME NEW x \in Streams, ReceiveResult(x) PROVE [Protocol!PNext]_Protocol!pvars
    BY <1>21, <1>0 DEF ReceiveResult, Receiving, Take
  <1>22. ASSUME NEW x \in Streams, ReceiveEnd(x) PROVE [Protocol!PNext]_Protocol!pvars
    BY <1>22, <1>0 DEF ReceiveEnd, Receiving, Take, Receiver, ConnectionGone
  <1>23. ASSUME NEW x \in Streams, ServerInfo(x) PROVE [Protocol!PNext]_Protocol!pvars
    BY <1>23, <1>0 DEF ServerInfo, Connected, Info, Message
  <1>24. ASSUME NEW x \in Streams, ServerPayload(x) PROVE [Protocol!PNext]_Protocol!pvars
    BY <1>24, <1>0 DEF ServerPayload, Connected, Payload, Message
  <1>25. ASSUME NEW x \in Streams, ServerEnd(x) PROVE [Protocol!PNext]_Protocol!pvars
    BY <1>25, <1>0 DEF ServerEnd, Connected, Result, End, Message
  <1>26. ASSUME NEW x \in Streams, Break(x) PROVE [Protocol!PNext]_Protocol!pvars
    BY <1>26, <1>0 DEF Break, Connected, End, Message
  <1>27. CASE UNCHANGED vars
    BY <1>27, <1>0 DEF vars
  <1>28. QED
    BY <1>1, <1>2, <1>3, <1>4, <1>5, <1>6, <1>7, <1>8, <1>9, <1>10, <1>11, <1>12, <1>13, <1>14, <1>15, <1>16, <1>17, <1>18, <1>19, <1>20, <1>21, <1>22, <1>23, <1>24, <1>25, <1>26, <1>27
       DEF Next, GoRun, GoStream, GoReceiver, Server

LEMMA ProtocolInit == Init => Protocol!PInit
  <1> SUFFICES ASSUME Init PROVE Protocol!PInit
    OBVIOUS
  <1>1. AbandonedRuns = {}
    BY DEF Init, AbandonedRuns, AbandonedStream, StreamsOf
  <1>2. QED
    BY <1>1 DEF Init, Protocol!PInit

\* Clients and recorder see the protocol of a run, whatever the targets do.
THEOREM RunsAlwaysFollowProtocol == Spec => RunsFollowProtocol
  <1>1. Init => Protocol!PInit
    BY ProtocolInit
  <1>2. RunInv /\ [Next]_vars => [Protocol!PNext]_Protocol!pvars
    BY ProtocolStep
  <1>3. QED
    BY <1>1, <1>2, RunInvariant, PTL DEF Spec, RunsFollowProtocol, Protocol!PSpec
=============================================================================
