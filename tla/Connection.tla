------------------------------ MODULE Connection ------------------------------
(* Pages, their requests and the server behind them: api.service.svelte.ts and *)
(* websocket.adapter.ts on the page; handlers/handler.go, the transport and    *)
(* the server of internal/server, and the signal handler of cmd/igd.           *)
(*                                                                             *)
(* A connection is one page with one socket and one Handler; a reloaded page   *)
(* is another connection.  On the server each has a goroutine that reads and   *)
(* handles commands one by one (its loop), and goroutines that answer slow     *)
(* commands or send the data of gadgets; all of them send through h.mu and     *)
(* t.mu.  What a handler computes is left out; it sends what its script says.  *)
EXTENDS Naturals, Sequences

CONSTANTS Conns,        \* connections
          NoConn, NoMessage,
          MaxRequests,  \* bound: requests of each connection
          MaxData,      \* bound: messages of gadgets on each connection
          Room,         \* messages the socket takes before Write blocks
          Greeting,     \* connections whose page lives to greet the server
          Pausing,      \* connections whose page may stop reading
          Breaking      \* connections whose page may go away or network fail

Kinds == {"plain", "announced", "detached", "slow", "unknown"}

\* a message is what it is and the request it belongs to, 0 for none
Tags == {"answer", "again", "event", "data"}
Message == Tags \X Nat

ASSUME ConnectionAssumption ==
  /\ NoConn \notin Conns /\ NoMessage \notin Message
  /\ MaxRequests \in [Conns -> Nat] /\ MaxData \in [Conns -> Nat]
  /\ Room \in Nat \ {0}
  /\ Pausing \subseteq Conns /\ Breaking \subseteq Conns /\ Greeting \subseteq Conns

VARIABLES
  \* the page: its socket, whether it reads, the commands it sent by reqID, the
  \* requests that wait for an answer
  link, reading, asked, pending,
  \* the two directions of the socket
  toServer, wire,
  \* the goroutine of handleWebSocket, and the messages its handler has to send
  serve, outbox,
  \* slow commands whose goroutine waits for an answer, messages sent by gadgets
  calls, data,
  \* h.send: messages that wait for h.mu, the one whose sender holds it, and
  \* whether that sender is inside Write with t.mu
  want, hmu, writing,
  \* Transport.closed
  closed,
  \* Server.clients, and Shutdown: its phase, the clients it has yet to close,
  \* the one whose Close it has called.  It holds clientsMu while it closes.
  clients, stop, toClose, victim

pageVars   == <<link, reading, asked, pending>>
loopVars   == <<serve, outbox, calls>>
sendVars   == <<want, hmu, writing>>
serverVars == <<clients, stop, toClose, victim>>
vars == <<pageVars, toServer, wire, loopVars, data, sendVars, closed, serverVars>>

Settles(m) == m[1] \in {"answer", "again"}

(* What the loop may send for a command before it reads the next one.          *)

\* the environments, unless they cannot be listed
Handshake == {<<>>, <<"event">>}
\* data or an error: nearly every handler
Plain == {<<"answer">>}
\* A new or deleted environment is announced first, then acknowledged.
Announced == {<<"event", "answer">>, <<"answer">>}
DetachedWithoutErrors == {<<"answer", "again">>, <<>>}
\* A detached run is acknowledged twice.
Detached == {<<"answer", "again">>, <<"answer">>}
\* A well-formed request is left to a goroutine.
Slow == {<<>>, <<"answer">>}
\* A command without a handler is only logged.
Unknown == {<<>>}

\* Request 0 is the handshake, which has no reqID.
KindOf(c, i) == IF i = 0 THEN "handshake" ELSE asked[c][i]
Scripts(k) ==
  CASE k = "handshake" -> Handshake
    [] k = "plain"     -> Plain
    [] k = "announced" -> Announced
    [] k = "detached"  -> Detached
    [] k = "slow"      -> Slow
    [] k = "unknown"   -> Unknown

-----------------------------------------------------------------------------
(* The page *)

\* The socket opens, the page greets, and handleWebSocket begins.
Connect(c) ==
  /\ stop \in {"running", "closing"}
  /\ link[c] = "none"
  /\ link' = [link EXCEPT ![c] = "up"]
  /\ toServer' = [toServer EXCEPT ![c] = IF c \in Greeting THEN <<0>> ELSE <<>>]
  /\ serve' = [serve EXCEPT ![c] = "accepted"]
  /\ UNCHANGED <<reading, asked, pending, wire, outbox, calls, data, sendVars,
                 closed, serverVars>>

\* On a closed socket a request is dropped and stays pending, and nothing else
\* happens; that is left out.
Request(c, k) ==
  /\ link[c] = "up"
  /\ Len(asked[c]) < MaxRequests[c]
  /\ asked' = [asked EXCEPT ![c] = Append(@, k)]
  /\ pending' = [pending EXCEPT ![c] = @ \cup {Len(asked[c]) + 1}]
  /\ toServer' = [toServer EXCEPT ![c] = Append(@, Len(asked[c]) + 1)]
  /\ UNCHANGED <<link, reading, wire, loopVars, data, sendVars, closed,
                 serverVars>>

\* A second answer finds its request settled.
Receive(c) ==
  /\ reading[c] /\ wire[c] # <<>>
  /\ wire' = [wire EXCEPT ![c] = Tail(@)]
  /\ pending' = IF Settles(Head(wire[c]))
                THEN [pending EXCEPT ![c] = @ \ {Head(wire[c])[2]}]
                ELSE pending
  /\ UNCHANGED <<link, reading, asked, toServer, loopVars, data, sendVars, closed,
                 serverVars>>

\* The script of the page is halted and goes on: the browser stops reading.
Pause(c) ==
  /\ c \in Pausing /\ link[c] = "up" /\ reading[c]
  /\ reading' = [reading EXCEPT ![c] = FALSE]
  /\ UNCHANGED <<link, asked, pending, toServer, wire, loopVars, data, sendVars,
                 closed, serverVars>>
Resume(c) ==
  /\ ~reading[c]
  /\ reading' = [reading EXCEPT ![c] = TRUE]
  /\ UNCHANGED <<link, asked, pending, toServer, wire, loopVars, data, sendVars,
                 closed, serverVars>>

\* The page goes away or the network fails; what was under way to it is lost.
Break(c) ==
  /\ c \in Breaking /\ link[c] = "up"
  /\ link' = [link EXCEPT ![c] = "down"]
  /\ wire' = [wire EXCEPT ![c] = <<>>]
  /\ UNCHANGED <<reading, asked, pending, toServer, loopVars, data, sendVars,
                 closed, serverVars>>

-----------------------------------------------------------------------------
(* The goroutine of a connection *)

TrackUnlocked(c) ==
  /\ serve[c] = "accepted"
  /\ clients' = clients \cup {c}
  /\ serve' = [serve EXCEPT ![c] = "reading"]
  /\ UNCHANGED <<pageVars, toServer, wire, outbox, calls, data, sendVars, closed, stop,
                 toClose, victim>>

\* clients[wsTransport] = struct{}{}
Track(c) ==
  /\ serve[c] = "accepted" /\ stop # "closing"
  /\ clients' = clients \cup {c}
  /\ serve' = [serve EXCEPT ![c] = "reading"]
  /\ UNCHANGED <<pageVars, toServer, wire, outbox, calls, data, sendVars, closed, stop,
                 toClose, victim>>

\* the next message of the loop asks for h.mu
Hand(c, messages) ==
  /\ outbox' = [outbox EXCEPT ![c] = messages]
  /\ want' = IF messages = <<>> THEN want
             ELSE [want EXCEPT ![c] = @ \cup {Head(messages)}]

\* Read returns a command and its handler runs.
Handle(c) ==
  /\ serve[c] = "reading" /\ outbox[c] = <<>> /\ toServer[c] # <<>> /\ ~closed[c]
  /\ toServer' = [toServer EXCEPT ![c] = Tail(@)]
  /\ \E script \in Scripts(KindOf(c, Head(toServer[c]))) :
       /\ Hand(c, [n \in DOMAIN script |-> <<script[n], Head(toServer[c])>>])
       /\ calls' = IF script = <<>> /\ KindOf(c, Head(toServer[c])) = "slow"
                   THEN [calls EXCEPT ![c] = @ \cup {Head(toServer[c])}]
                   ELSE calls
  /\ UNCHANGED <<pageVars, wire, serve, data, hmu, writing, closed, serverVars>>

\* A send of the loop has returned: it has the next message to send, or reads on.
LoopGoesOn(c) ==
  /\ outbox[c] # <<>>
  /\ Head(outbox[c]) \notin want[c] /\ Head(outbox[c]) # hmu[c]
  /\ Hand(c, Tail(outbox[c]))
  /\ UNCHANGED <<pageVars, toServer, wire, serve, calls, data, hmu, writing, closed,
                 serverVars>>

\* Read fails, in Register's Start and at once in the one of handleWebSocket.
Leave(c) ==
  /\ serve[c] = "reading" /\ outbox[c] = <<>> /\ link[c] = "down"
  /\ serve' = [serve EXCEPT ![c] = "leaving"]
  /\ UNCHANGED <<pageVars, toServer, wire, outbox, calls, data, sendVars, closed,
                 serverVars>>


\* the deferred delete(s.clients, wsTransport), then Close
Untrack(c) ==
  /\ serve[c] = "leaving" /\ stop # "closing"
  /\ clients' = clients \ {c}
  /\ serve' = [serve EXCEPT ![c] = "untracked"]
  /\ UNCHANGED <<pageVars, toServer, wire, outbox, calls, data, sendVars, closed, stop,
                 toClose, victim>>

\* Transport.Close: it waits for t.mu behind a sender inside Write.
Close(c) ==
  /\ ~writing[c]
  /\ closed' = [closed EXCEPT ![c] = TRUE]
  /\ link' = [link EXCEPT ![c] = "down"]

End(c) ==
  /\ serve[c] = "untracked"
  /\ Close(c)
  /\ serve' = [serve EXCEPT ![c] = "ended"]
  /\ UNCHANGED <<reading, asked, pending, toServer, wire, outbox, calls, data,
                 sendVars, serverVars>>

-----------------------------------------------------------------------------
(* The goroutines that send.  They outlive the connection. *)

CallReturns(c, i) ==
  /\ i \in calls[c]
  /\ calls' = [calls EXCEPT ![c] = @ \ {i}]
  /\ want' = [want EXCEPT ![c] = @ \cup {<<"answer", i>>}]
  /\ UNCHANGED <<pageVars, toServer, wire, serve, outbox, data, hmu, writing, closed,
                 serverVars>>

GadgetSends(c) ==
  /\ serve[c] \notin {"none", "accepted"} /\ data[c] < MaxData[c]
  /\ data' = [data EXCEPT ![c] = @ + 1]
  /\ want' = [want EXCEPT ![c] = @ \cup {<<"data", data[c] + 1>>}]
  /\ UNCHANGED <<pageVars, toServer, wire, loopVars, hmu, writing, closed, serverVars>>

LockHandler(c) ==
  /\ hmu[c] = NoMessage
  /\ \E m \in want[c] :
       /\ hmu' = [hmu EXCEPT ![c] = m]
       /\ want' = [want EXCEPT ![c] = @ \ {m}]
  /\ UNCHANGED <<pageVars, toServer, wire, loopVars, data, writing, closed, serverVars>>

\* A closed transport takes the message and drops it.
LockTransport(c) ==
  /\ hmu[c] # NoMessage /\ ~writing[c]
  /\ \/ closed[c] /\ hmu' = [hmu EXCEPT ![c] = NoMessage] /\ UNCHANGED writing
     \/ ~closed[c] /\ writing' = [writing EXCEPT ![c] = TRUE] /\ UNCHANGED hmu
  /\ UNCHANGED <<pageVars, toServer, wire, loopVars, data, want, closed, serverVars>>

Unlock(c) ==
  /\ hmu' = [hmu EXCEPT ![c] = NoMessage]
  /\ writing' = [writing EXCEPT ![c] = FALSE]

WriteOrDrop(c) ==
  /\ writing[c] /\ link[c] = "up"
  /\ wire' = IF Len(wire[c]) < Room THEN [wire EXCEPT ![c] = Append(@, hmu[c])] ELSE wire
  /\ Unlock(c)
  /\ UNCHANGED <<pageVars, toServer, loopVars, data, want, closed, serverVars>>

\* Write returns once the socket has taken the message.
Write(c) ==
  /\ writing[c] /\ link[c] = "up" /\ Len(wire[c]) < Room
  /\ wire' = [wire EXCEPT ![c] = Append(@, hmu[c])]
  /\ Unlock(c)
  /\ UNCHANGED <<pageVars, toServer, loopVars, data, want, closed, serverVars>>

\* The error is logged.
WriteFails(c) ==
  /\ writing[c] /\ link[c] = "down"
  /\ Unlock(c)
  /\ UNCHANGED <<pageVars, toServer, wire, loopVars, data, want, closed, serverVars>>

-----------------------------------------------------------------------------
(* Shutdown *)

\* SIGINT or SIGTERM.  The other holders of clientsMu give it back at once.
Signal ==
  /\ stop = "running"
  /\ stop' = "closing"
  /\ toClose' = clients
  /\ UNCHANGED <<pageVars, toServer, wire, loopVars, data, sendVars, closed, clients,
                 victim>>

PickClient ==
  /\ stop = "closing" /\ victim = NoConn
  /\ victim' \in toClose
  /\ UNCHANGED <<pageVars, toServer, wire, loopVars, data, sendVars, closed, clients,
                 stop, toClose>>

CloseClient ==
  /\ victim # NoConn
  /\ Close(victim)
  /\ toClose' = toClose \ {victim}
  /\ victim' = NoConn
  /\ UNCHANGED <<reading, asked, pending, toServer, wire, loopVars, data,
                 sendVars, clients, stop>>

ReleaseClientsWhenGone ==
  /\ stop = "closing" /\ toClose = {} /\ clients = {}
  /\ stop' = "http"
  /\ UNCHANGED <<pageVars, toServer, wire, loopVars, data, sendVars, closed, clients,
                 toClose, victim>>

\* clientsMu is given back and httpServer.Shutdown called: no new connections.
ReleaseClients ==
  /\ stop = "closing" /\ toClose = {}
  /\ stop' = "http"
  /\ UNCHANGED <<pageVars, toServer, wire, loopVars, data, sendVars, closed, clients,
                 toClose, victim>>

\* ListenAndServe has returned, or Shutdown has: the process ends.
Exit ==
  /\ stop = "http"
  /\ stop' = "exited"
  /\ link' = [c \in Conns |-> IF link[c] = "none" THEN "none" ELSE "down"]
  /\ UNCHANGED <<reading, asked, pending, toServer, wire, loopVars, data,
                 sendVars, closed, clients, toClose, victim>>

-----------------------------------------------------------------------------
\* After Exit only the pages are left.
LoopStep(c) ==
  /\ stop # "exited"
  /\ Track(c) \/ Handle(c) \/ LoopGoesOn(c) \/ Leave(c) \/ Untrack(c) \/ End(c)

SenderStep(c) ==
  /\ stop # "exited"
  /\ LockHandler(c) \/ LockTransport(c) \/ Write(c) \/ WriteFails(c)

ShutdownStep == PickClient \/ CloseClient \/ ReleaseClients \/ Exit

PageStep(c) ==
  \/ Connect(c) \/ (\E k \in Kinds : Request(c, k))
  \/ Receive(c) \/ Pause(c) \/ Resume(c) \/ Break(c)

ServerStep(c) ==
  \/ LoopStep(c) \/ SenderStep(c)
  \/ stop # "exited" /\ (GadgetSends(c) \/ \E i \in calls[c] : CallReturns(c, i))

Init ==
  /\ link = [c \in Conns |-> "none"]
  /\ reading = [c \in Conns |-> TRUE]
  /\ asked = [c \in Conns |-> <<>>]
  /\ pending = [c \in Conns |-> {}]
  /\ toServer = [c \in Conns |-> <<>>]
  /\ wire = [c \in Conns |-> <<>>]
  /\ serve = [c \in Conns |-> "none"]
  /\ outbox = [c \in Conns |-> <<>>]
  /\ calls = [c \in Conns |-> {}]
  /\ data = [c \in Conns |-> 0]
  /\ want = [c \in Conns |-> {}]
  /\ hmu = [c \in Conns |-> NoMessage]
  /\ writing = [c \in Conns |-> FALSE]
  /\ closed = [c \in Conns |-> FALSE]
  /\ clients = {} /\ stop = "running" /\ toClose = {} /\ victim = NoConn

Next ==
  \/ \E c \in Conns : PageStep(c) \/ ServerStep(c)
  \/ Signal \/ ShutdownStep

Spec == Init /\ [][Next]_vars

\* Goroutines that can run do run, and no mutex starves a waiter for ever.
Goroutines ==
  /\ \A c \in Conns : WF_vars(LoopStep(c))
  /\ \A c \in Conns : WF_vars(SenderStep(c))
  /\ WF_vars(ShutdownStep)

\* A page reads as long as nothing halts it.
FairSpec == Spec /\ Goroutines /\ \A c \in Conns : SF_vars(Receive(c))

\* Every page goes on reading sooner or later.
ResponsiveSpec == FairSpec /\ \A c \in Conns : WF_vars(Resume(c))

-----------------------------------------------------------------------------
(* Properties *)

RequestIDs(c) == 0..Len(asked[c])
Messages(c) ==
  (Tags \X RequestIDs(c)) \cup ({"data"} \X (1..data[c]))

\* Every variable has its type, and messages belong to requests that were made.
TypeOK ==
  /\ link \in [Conns -> {"none", "up", "down"}]
  /\ reading \in [Conns -> BOOLEAN]
  /\ DOMAIN asked = Conns /\ \A c \in Conns : asked[c] \in Seq(Kinds)
  /\ \A c \in Conns : Len(asked[c]) <= MaxRequests[c]
  /\ DOMAIN pending = Conns /\ \A c \in Conns : pending[c] \subseteq 1..Len(asked[c])
  /\ DOMAIN toServer = Conns /\ \A c \in Conns : toServer[c] \in Seq(RequestIDs(c))
  /\ serve \in [Conns -> {"none", "accepted", "reading", "leaving", "untracked", "ended"}]
  /\ data \in [Conns -> Nat]
  /\ DOMAIN calls = Conns /\ \A c \in Conns : calls[c] \subseteq 1..Len(asked[c])
  /\ DOMAIN want = Conns /\ \A c \in Conns : want[c] \subseteq Messages(c)
  /\ DOMAIN wire = Conns /\ \A c \in Conns : wire[c] \in Seq(Messages(c))
  /\ DOMAIN outbox = Conns /\ \A c \in Conns : outbox[c] \in Seq(Messages(c))
  /\ DOMAIN hmu = Conns /\ \A c \in Conns : hmu[c] \in Messages(c) \cup {NoMessage}
  /\ writing \in [Conns -> BOOLEAN]
  /\ closed \in [Conns -> BOOLEAN]
  /\ clients \subseteq Conns /\ toClose \subseteq clients
  /\ victim \in toClose \cup {NoConn}
  /\ stop \in {"running", "closing", "http", "exited"}

\* A request waits for nothing in vain: while the socket is up, a request that
\* waits is on its way to the server, in a call, or has an answer that is still
\* to be sent, being sent or on its way (api.service.svelte.ts:63-89,
\* handler.go:125-172).  Only a command no handler is registered for is lost.
SettlesRequest(m, i) == Settles(m) /\ m[2] = i
Unanswered(c) == {i \in pending[c] : asked[c][i] # "unknown"}
OnItsWay(c, i) ==
  \/ i \in calls[c]
  \/ \E n \in DOMAIN toServer[c] : toServer[c][n] = i
  \/ \E m \in want[c] : SettlesRequest(m, i)
  \/ hmu[c] # NoMessage /\ SettlesRequest(hmu[c], i)
  \/ \E n \in DOMAIN outbox[c] : SettlesRequest(outbox[c][n], i)
  \/ \E n \in DOMAIN wire[c] : SettlesRequest(wire[c][n], i)
AnswerUnderWay ==
  \A c \in Conns : link[c] = "up" => \A i \in Unanswered(c) : OnItsWay(c, i)

\* Nothing is written to a transport that Close has marked closed: Close waits
\* for the sender inside Write, later senders see the mark (transport.go:54-68,
\* 105-116).
NoWriteAfterClose == \A c \in Conns : closed[c] => ~writing[c]

\* When Shutdown gives clientsMu back, every connection of the server is closed:
\* none was added behind the iteration (server.go:150-158, 193-197).
ShutdownClosesAll ==
  [][stop = "closing" /\ stop' # "closing" => \A c \in clients' : closed'[c]]_vars

\* A request that needs no call is answered while its socket stays up, however
\* much other goroutines send and although the page pauses now and then.
RequestsSettle ==
  \A c \in Conns : \A i \in 1..MaxRequests[c] :
    i \in pending[c] /\ asked[c][i] \in {"plain", "announced", "detached"}
      ~> i \notin pending[c] \/ link[c] = "down"

\* A signal ends the process.  True when all pages read.  cmd/igd/main.go:91 says
\* "Give connections 5 seconds to close gracefully", but a page that does not
\* read keeps a sender inside Write, its Close waits for that sender before it
\* cancels it, and Shutdown has not looked at its context yet.
SignalEndsProcess == stop = "closing" ~> stop = "exited"
=============================================================================
