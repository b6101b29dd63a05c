------------------------------ MODULE Deployment ------------------------------
(* Installing and removing Inspektor Gadget in a cluster with Helm:            *)
(* internal/api/handlers/k8s-deploy.go, pkg/helm/deploy.go and, in the         *)
(* frontend, handlers/deployment.handler.ts, shared/deployments.svelte.ts and  *)
(* K8sDeployModal.svelte.                                                      *)
(*                                                                             *)
(* Per deployment, three things run side by side: the worker that calls Helm,  *)
(* performDeployment that selects over its progress, its result and a timer,   *)
(* and the page that shows what arrives.  What Helm and the cluster answer is  *)
(* arbitrary.  newIsolatedSettings never fails, so neither does NewDeployer.   *)
EXTENDS Naturals, Sequences

CONSTANTS Ids,       \* deployment IDs the backend generates
          NoId,      \* the modal has no deployment ID
          Plans,     \* what may be asked for: a kind per deployment, or "unused"
          Slow,      \* deployments whose Helm calls may take more than ten
                     \* minutes, or never return
          Capacity   \* of progressChan

Kinds == {"deploy", "undeploy", "redeploy"}

ASSUME DeploymentAssumption ==
  /\ NoId \notin Ids
  /\ Plans \subseteq [Ids -> Kinds \cup {"unused"}]
  /\ Slow \subseteq Ids
  /\ Capacity \in Nat \ {0}

\* The longest operation sends fourteen reports; the code has room for a hundred.
ASSUME RoomAssumption == Capacity >= 14

VARIABLES
  \* HandleDeployIG: what became of the request, and the operation it asked for
  request, kind,
  \* the worker goroutine: operations finished, phase, whether all is well
  worker,
  \* progressChan, whether it is closed, and deployErr
  progressChan, closed, deployErr,
  \* performDeployment
  loop,
  \* messages of a deployment on their way to the page
  wire,
  \* the page: the deployments store and the modal's deploymentId
  deployments, deploymentId,
  \* the page's socket, and the deployments asked for over one that is gone
  connected, left,
  \* history: the final events sent
  finals

requestVars == <<request, kind>>
workerVars  == <<worker, closed, deployErr>>
pageVars    == <<deployments, deploymentId>>
linkVars    == <<connected, left>>
vars == <<requestVars, workerVars, progressChan, loop, wire, pageVars, linkVars, finals>>

Absent == [status |-> "absent", progress |-> 0]

-----------------------------------------------------------------------------
(* The steps of an operation.  Each reports that it starts and what it made    *)
(* of it; only a fatal one ends the operation when it fails, the others go on  *)
(* with a warning.                                                             *)

Fatal(start, done) ==
  [start |-> start, done |-> <<done>>, warned |-> <<>>, fatal |-> TRUE]
Lenient(start, done, warned) ==
  [start |-> start, done |-> done, warned |-> warned, fatal |-> FALSE]

Deploy == <<Fatal(10, 20), Fatal(30, 40), Lenient(50, <<60>>, <<60>>),
            Fatal(70, 90), Lenient(95, <<>>, <<95>>)>>
Undeploy == <<Fatal(20, 50), Lenient(60, <<90>>, <<90>>)>>
Redeploy == <<Fatal(10, 20), Fatal(30, 35), Fatal(40, 50),
              Lenient(55, <<60>>, <<60>>), Fatal(70, 90), Lenient(95, <<>>, <<95>>)>>

Steps(k) == CASE k = "deploy"   -> Deploy
              [] k = "undeploy" -> Undeploy
              [] k = "redeploy" -> Redeploy

\* what is reported after step n: the start of the next one, or the end
Following(steps, n) == IF n = Len(steps) THEN <<100>> ELSE <<steps[n + 1].start>>

Reports(list) == [r \in DOMAIN list |-> [progress |-> list[r], failed |-> FALSE]]
Failure(p) == <<[progress |-> p, failed |-> TRUE]>>

sendProgressUnbuffered(d, messages) ==
  progressChan' = [progressChan EXCEPT ![d] = SubSeq(@ \o messages, 1, 1)]
\* a channel that is full drops what is sent
sendProgress(d, messages) ==
  LET all == progressChan[d] \o messages
  IN  progressChan' = [progressChan EXCEPT ![d] =
        SubSeq(all, 1, IF Len(all) < Capacity THEN Len(all) ELSE Capacity)]

Init ==
  /\ request = [d \in Ids |-> "none"]
  /\ kind \in Plans
  /\ worker = [d \in Ids |-> [finished |-> 0, phase |-> "none", ok |-> TRUE]]
  /\ progressChan = [d \in Ids |-> <<>>]
  /\ closed = [d \in Ids |-> FALSE]
  /\ deployErr = [d \in Ids |-> "empty"]
  /\ loop = [d \in Ids |-> "none"]
  /\ wire = [d \in Ids |-> <<>>]
  /\ deployments = [d \in Ids |-> Absent]
  /\ deploymentId = NoId
  /\ connected = TRUE
  /\ left = {}
  /\ finals = [d \in Ids |-> {}]

\* Handler.send: a message to a socket that is gone is dropped
send(d, type, progress) ==
  wire' = IF d \in left THEN wire
          ELSE [wire EXCEPT ![d] = Append(@, [type |-> type, progress |-> progress])]

-----------------------------------------------------------------------------
(* The backend                                                                 *)

\* The response is sent before the goroutines start.
HandleDeployIG(d) ==
  /\ request[d] = "sent"
  /\ \/ /\ request' = [request EXCEPT ![d] = "accepted"]
        /\ send(d, "response", 0)
        /\ loop' = [loop EXCEPT ![d] = "running"]
        /\ worker' = [worker EXCEPT ![d].phase = "working"]
        /\ sendProgress(d, Reports(<<Steps(kind[d])[1].start>>))
     \/ \* a missing field or values that are no YAML
        /\ request' = [request EXCEPT ![d] = "rejected"]
        /\ send(d, "rejection", 0)
        /\ UNCHANGED <<loop, worker, progressChan>>
  /\ UNCHANGED <<kind, closed, deployErr, pageVars, linkVars, finals>>

\* One Helm or cluster call of Deploy, Undeploy or Redeploy, what is reported
\* about it, and the report that the next one starts.
WorkerStep(d) ==
  LET steps == Steps(kind[d])
      n     == worker[d].finished + 1
  IN  /\ worker[d].phase = "working"
      /\ \/ \E told \in {steps[n].done} \cup (IF steps[n].fatal THEN {} ELSE {steps[n].warned}) :
              /\ sendProgress(d, Reports(told \o Following(steps, n)))
              /\ worker' = [worker EXCEPT
                   ![d].finished = n,
                   ![d].phase = IF n = Len(steps) THEN "closing" ELSE "working"]
         \/ /\ steps[n].fatal
            /\ sendProgress(d, Failure(steps[n].start))
            /\ worker' = [worker EXCEPT ![d].phase = "closing", ![d].ok = FALSE]
      /\ UNCHANGED <<requestVars, closed, deployErr, loop, wire, pageVars, linkVars, finals>>

\* the deferred close of progressChan
WorkerClose(d) ==
  /\ worker[d].phase = "closing"
  /\ closed' = [closed EXCEPT ![d] = TRUE]
  /\ worker' = [worker EXCEPT ![d].phase = "reporting"]
  /\ UNCHANGED <<requestVars, progressChan, deployErr, loop, wire, pageVars, linkVars, finals>>

WorkerReportBlocks(d) ==
  /\ worker[d].phase = "reporting" /\ loop[d] = "running"
  /\ deployErr' = [deployErr EXCEPT ![d] = IF worker[d].ok THEN "nil" ELSE "error"]
  /\ worker' = [worker EXCEPT ![d].phase = "done"]
  /\ UNCHANGED <<requestVars, progressChan, closed, loop, wire, pageVars, linkVars, finals>>
\* deployErr has room for one result, so nobody has to be waiting for it
WorkerReport(d) ==
  /\ worker[d].phase = "reporting"
  /\ deployErr' = [deployErr EXCEPT ![d] = IF worker[d].ok THEN "nil" ELSE "error"]
  /\ worker' = [worker EXCEPT ![d].phase = "done"]
  /\ UNCHANGED <<requestVars, progressChan, closed, loop, wire, pageVars, linkVars, finals>>

EventTypeEarly(message) ==
  IF message.failed THEN "error"
  ELSE IF message.progress >= 95 THEN "complete" ELSE "progress"
\* the type of the event a progress message becomes
EventType(message) ==
  IF message.failed THEN "error"
  ELSE IF message.progress = 100 THEN "complete" ELSE "progress"

LoopProgress(d) ==
  LET message == Head(progressChan[d])
      type    == EventType(message)
  IN  /\ loop[d] = "running"
      /\ progressChan[d] # <<>>
      /\ progressChan' = [progressChan EXCEPT ![d] = Tail(@)]
      /\ send(d, type, message.progress)
      /\ finals' = [finals EXCEPT ![d] = @ \cup ({type} \ {"progress"})]
      /\ UNCHANGED <<requestVars, workerVars, loop, pageVars, linkVars>>

LoopClosed(d) ==
  /\ loop[d] = "running"
  /\ closed[d] /\ progressChan[d] = <<>>
  /\ loop' = [loop EXCEPT ![d] = "returned"]
  /\ UNCHANGED <<requestVars, workerVars, progressChan, wire, pageVars, linkVars, finals>>

\* an error event for the whole deployment, and performDeployment returns
GiveUp(d) ==
  /\ send(d, "error", 0)
  /\ finals' = [finals EXCEPT ![d] = @ \cup {"error"}]
  /\ loop' = [loop EXCEPT ![d] = "returned"]

LoopResult(d) ==
  /\ loop[d] = "running"
  /\ deployErr[d] \in {"nil", "error"}
  /\ deployErr' = [deployErr EXCEPT ![d] = "empty"]
  /\ IF deployErr[d] = "error" THEN GiveUp(d) ELSE UNCHANGED <<wire, finals, loop>>
  /\ UNCHANGED <<requestVars, worker, closed, progressChan, pageVars, linkVars>>

NoTimer(d) == FALSE /\ UNCHANGED vars
\* ten minutes are over: the loop gives up, the worker goes on
LoopTimeout(d) ==
  /\ d \in Slow
  /\ loop[d] = "running"
  /\ GiveUp(d)
  /\ UNCHANGED <<requestVars, workerVars, progressChan, pageVars, linkVars>>

-----------------------------------------------------------------------------
(* The page                                                                    *)

\* the modal shows its form: it has no deployment, and adopts no active one
IsConfiguring ==
  IF deploymentId # NoId THEN deployments[deploymentId].status = "absent"
  ELSE \A d \in Ids : deployments[d].status # "deploying"

\* startDeployment up to its await; the form stays and can be sent again.  What is
\* written to a broken socket goes nowhere.
StartDeployment(d) ==
  /\ connected
  /\ request[d] = "none" /\ kind[d] # "unused"
  /\ IsConfiguring
  /\ request' = [request EXCEPT ![d] = "sent"]
  /\ UNCHANGED <<kind, workerVars, progressChan, loop, wire, pageVars, linkVars, finals>>

UpdatedAlways(d, status, progress) ==
  [deployments EXCEPT ![d] = [status |-> status, progress |-> progress]]
\* DeploymentsStore.update: an entry that is gone stays gone
Updated(d, status, progress) ==
  IF deployments[d].status = "absent" THEN deployments
  ELSE [deployments EXCEPT ![d] = [status |-> status, progress |-> progress]]

\* the rest of startDeployment, or the handler of the event
Shown(d, message) ==
  CASE message.type = "response" ->
         /\ deployments' = [deployments EXCEPT ![d] = [status |-> "deploying", progress |-> 0]]
         /\ deploymentId' = d
    [] message.type = "rejection" ->
         \* what is shown fails, be it another deployment
         /\ deployments' = IF deploymentId = NoId THEN deployments
                           ELSE Updated(deploymentId, "error", deployments[deploymentId].progress)
         /\ UNCHANGED deploymentId
    [] message.type = "progress" ->
         /\ deployments' = Updated(d, deployments[d].status, message.progress)
         /\ UNCHANGED deploymentId
    [] message.type = "complete" ->
         /\ deployments' = Updated(d, "success", 100)
         /\ UNCHANGED deploymentId
    [] message.type = "error" ->
         /\ deployments' = Updated(d, "error", deployments[d].progress)
         /\ UNCHANGED deploymentId

Receive(d) ==
  /\ wire[d] # <<>>
  /\ wire' = [wire EXCEPT ![d] = Tail(@)]
  /\ Shown(d, Head(wire[d]))
  /\ UNCHANGED <<requestVars, workerVars, progressChan, loop, linkVars, finals>>

\* "Continue" after a success, "Try Again" after an error: the entry goes.  The
\* global modal of the layout can do it for a deployment the page's modal shows.
Dismiss(d) ==
  /\ deployments[d].status \in {"success", "error"}
  /\ deployments' = [deployments EXCEPT ![d] = Absent]
  /\ \/ UNCHANGED deploymentId
     \/ /\ deployments[d].status = "error" /\ deploymentId = d
        /\ deploymentId' = NoId
  /\ UNCHANGED <<requestVars, workerVars, progressChan, loop, wire, linkVars, finals>>

\* The socket is gone, with what was on its way.
LoseConnection ==
  /\ left' = {d \in Ids : request[d] # "none"}
  /\ wire' = [d \in Ids |-> <<>>]

\* The page is loaded again: a new connection, an empty store.
Reload ==
  /\ LoseConnection
  /\ connected' = TRUE
  /\ deployments' = [d \in Ids |-> Absent]
  /\ deploymentId' = NoId
  /\ UNCHANGED <<requestVars, workerVars, progressChan, loop, finals>>

\* The socket breaks.  The page does not connect again by itself, its promises
\* stay pending and its store stays as it is.
Disconnect ==
  /\ connected
  /\ LoseConnection
  /\ connected' = FALSE
  /\ UNCHANGED <<requestVars, workerVars, progressChan, loop, pageVars, finals>>

-----------------------------------------------------------------------------

Worker(d) == WorkerStep(d) \/ WorkerClose(d) \/ WorkerReport(d)
performDeployment(d) ==
  LoopProgress(d) \/ LoopClosed(d) \/ LoopResult(d) \/ LoopTimeout(d)

Next ==
  \/ \E d \in Ids :
       \/ StartDeployment(d) \/ HandleDeployIG(d)
       \/ Worker(d) \/ performDeployment(d)
       \/ Receive(d) \/ Dismiss(d)
  \/ Reload \/ Disconnect

Spec == Init /\ [][Next]_vars

\* Goroutines and the page's event loop are scheduled and the timer fires.  Helm
\* calls and the waits for the DaemonSet have timeouts, but those of a slow
\* deployment may never return.
FairSpec ==
  /\ Spec
  /\ \A d \in Ids :
       /\ WF_vars(WorkerClose(d) \/ WorkerReport(d))
       /\ WF_vars(performDeployment(d))
       /\ WF_vars(Receive(d))
  /\ \A d \in Ids \ Slow : WF_vars(WorkerStep(d))

-----------------------------------------------------------------------------
(* Properties                                                                  *)

Messages == [type : {"response", "rejection", "progress", "complete", "error"},
             progress : 0 .. 100]

\* Every variable has its type; reports carry a progress, which Go's zero value
\* would not be.
TypeOK ==
  /\ request \in [Ids -> {"none", "sent", "accepted", "rejected"}]
  /\ kind \in [Ids -> Kinds \cup {"unused"}]
  /\ worker \in [Ids -> [finished : 0 .. 6, ok : BOOLEAN,
                         phase : {"none", "working", "closing", "reporting", "done"}]]
  /\ progressChan \in [Ids -> Seq([progress : 1 .. 100, failed : BOOLEAN])]
  /\ closed \in [Ids -> BOOLEAN]
  /\ deployErr \in [Ids -> {"empty", "nil", "error"}]
  /\ loop \in [Ids -> {"none", "running", "returned"}]
  /\ wire \in [Ids -> Seq(Messages)]
  /\ deployments \in [Ids -> [status : {"absent", "deploying", "success", "error"},
                              progress : 0 .. 100]]
  /\ deploymentId \in Ids \cup {NoId}
  /\ connected \in BOOLEAN /\ left \subseteq Ids
  /\ finals \in [Ids -> SUBSET {"complete", "error"}]

\* performDeployment returns only after it has told the page how the deployment
\* ended, whichever of its channels it happened to read first: an error whose
\* report is still in progressChan arrives through deployErr, and closed is not
\* seen before the last report.
FinalEventSent ==
  \A d \in Ids : loop[d] = "returned" => finals[d] # {}

\* A completion is sent, and the page shows success, only for an operation all
\* of whose fatal steps have succeeded; a failed one is never hidden.
SuccessIsReal ==
  \A d \in Ids :
    "complete" \in finals[d] \/ deployments[d].status = "success"
      => /\ worker[d].ok
         /\ worker[d].finished = Len(Steps(kind[d]))

\* A deployment that has been dismissed, or that an earlier page started, never
\* shows up again, however late its events are: once its response has been
\* handled, handlers only update an entry that exists.
DismissedStaysGone ==
  [][\A d \in Ids :
       /\ request[d] \in {"accepted", "rejected"}
       /\ deployments[d].status = "absent"
       /\ \A n \in DOMAIN wire[d] : wire[d][n].type # "response"
       => deployments'[d].status = "absent"]_vars

\* A deployment the page shows as running is settled in the end, even if a Helm
\* call never comes back: the timer sees to it (k8s-deploy.go:186-204).  Only when
\* the socket it was asked over has broken it may be shown as running for ever.
DeploymentSettles ==
  \A d \in Ids :
    deployments[d].status = "deploying" ~> deployments[d].status # "deploying" \/ d \in left

\* A worker whose Helm calls return ends, though nobody reads its progress or its
\* result any more once performDeployment has given up.
WorkerFinishes ==
  \A d \in Ids :
    worker[d].phase = "closing" \/ (worker[d].phase = "working" /\ d \notin Slow)
      ~> worker[d].phase = "done"

-----------------------------------------------------------------------------
(* The inductive invariant behind FinalEventSent and SuccessIsReal             *)

Queued(d, type) ==
  \E n \in DOMAIN progressChan[d] : EventType(progressChan[d][n]) = type
Ended(d) == worker[d].phase \in {"closing", "reporting", "done"}

\* A deployment runs only if its request was accepted.
AskedFirst ==
  \A d \in Ids :
    /\ request[d] # "none" => kind[d] # "unused"
    /\ worker[d].phase # "none" => request[d] = "accepted"
    /\ loop[d] # "none" <=> worker[d].phase # "none"

\* Each step sends two reports at most, so none is dropped.
ReportsFit ==
  \A d \in Ids :
    /\ worker[d].phase = "none" =>
         worker[d].finished = 0 /\ worker[d].ok /\ progressChan[d] = <<>>
    /\ worker[d].phase = "working" =>
         /\ worker[d].finished < Len(Steps(kind[d])) /\ worker[d].ok
         /\ Len(progressChan[d]) <= 2 * worker[d].finished + 1
    /\ Ended(d) => /\ worker[d].finished <= Len(Steps(kind[d]))
                   /\ Len(progressChan[d]) <= 14

\* The outcome of a worker that has ended is in its channel or has been sent.
OutcomeKnown ==
  \A d \in Ids :
    /\ Ended(d) => finals[d] # {} \/ Queued(d, "complete") \/ Queued(d, "error")
    /\ closed[d] => worker[d].phase \in {"reporting", "done"}

\* Only a worker that did everything reports completion, and only that report
\* makes the page show success.
CompletionIsReal ==
  \A d \in Ids :
    /\ "complete" \in finals[d] \/ Queued(d, "complete") =>
         Ended(d) /\ worker[d].ok /\ worker[d].finished = Len(Steps(kind[d]))
    /\ \/ deployments[d].status = "success"
       \/ \E n \in DOMAIN wire[d] : wire[d][n].type = "complete"
       => "complete" \in finals[d]

DeploymentInv ==
  TypeOK /\ AskedFirst /\ ReportsFit /\ OutcomeKnown /\ CompletionIsReal /\ FinalEventSent

=============================================================================
