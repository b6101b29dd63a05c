--------------------------- MODULE ConnectionProofs ---------------------------
(***************************************************************************)
(* Proofs about Connection for every set of connections, every number of   *)
(* requests and gadget messages, and every size of the sockets.            *)
(***************************************************************************)
EXTENDS Connection, SequenceTheorems, TLAPS

USE ConnectionAssumption DEF pageVars, loopVars, sendVars, serverVars

\* the variables of the server and of its locks
ServerType ==
  /\ link \in [Conns -> {"none", "up", "down"}]
  /\ serve \in [Conns -> {"none", "accepted", "reading", "leaving", "untracked", "ended"}]
  /\ writing \in [Conns -> BOOLEAN]
  /\ closed \in [Conns -> BOOLEAN]
  /\ clients \subseteq Conns /\ toClose \subseteq clients
  /\ victim \in toClose \cup {NoConn}
  /\ stop \in {"running", "closing", "http", "exited"}

\* A closed transport has no socket and nobody writes to it.
ClosedIsDown == \A c \in Conns : closed[c] => link[c] = "down" /\ ~writing[c]

\* While Shutdown iterates it has closed every client it has not yet to close,
\* and at other times it has none to close.
IterationKept ==
  /\ stop = "closing" => \A c \in clients \ toClose : closed[c]
  /\ stop # "closing" => toClose = {}

\* Who writes holds h.mu with a message.
HolderWrites == DOMAIN hmu = Conns /\ \A c \in Conns : writing[c] => hmu[c] # NoMessage

\* A page without a socket has made no request.
NobodyWaitsYet ==
  DOMAIN pending = Conns /\ \A c \in Conns : link[c] = "none" => pending[c] = {}

ServerInv == ServerType /\ ClosedIsDown /\ IterationKept /\ HolderWrites /\ NobodyWaitsYet

LEMMA ServerInit == Init => ServerInv
  BY DEF Init, ServerInv, ServerType, ClosedIsDown, IterationKept, HolderWrites, NobodyWaitsYet

LEMMA ServerPreserved == ServerInv /\ [Next]_vars => ServerInv'
  <1> SUFFICES ASSUME ServerInv, [Next]_vars PROVE ServerInv'
    OBVIOUS
  <1> USE DEF ServerInv, ServerType, ClosedIsDown, IterationKept, HolderWrites, NobodyWaitsYet
  <1>1. ASSUME NEW c \in Conns, PageStep(c) PROVE ServerInv'
    <2>1. CASE Connect(c)
      BY <2>1 DEF Connect
    <2>2. ASSUME NEW k \in Kinds, Request(c, k) PROVE ServerInv'
      BY <2>2 DEF Request
    <2>3. CASE Receive(c)
      BY <2>3 DEF Receive
    <2>4. CASE Pause(c)
      BY <2>4 DEF Pause
    <2>5. CASE Resume(c)
      BY <2>5 DEF Resume
    <2>6. CASE Break(c)
      BY <2>6 DEF Break
    <2>7. QED
      BY <1>1, <2>1, <2>2, <2>3, <2>4, <2>5, <2>6 DEF PageStep
  <1>2. ASSUME NEW c \in Conns, LoopStep(c) PROVE ServerInv'
    <2>1. CASE Track(c)
      BY <2>1 DEF Track
    <2>2. CASE Handle(c)
      BY <2>2 DEF Handle
    <2>3. CASE LoopGoesOn(c)
      BY <2>3 DEF LoopGoesOn
    <2>4. CASE Leave(c)
      BY <2>4 DEF Leave
    <2>5. CASE Untrack(c)
      BY <2>5 DEF Untrack
    <2>6. CASE End(c)
      BY <2>6 DEF End, Close
    <2>7. QED
      BY <1>2, <2>1, <2>2, <2>3, <2>4, <2>5, <2>6 DEF LoopStep
  <1>3. ASSUME NEW c \in Conns, SenderStep(c) PROVE ServerInv'
    <2>1. CASE LockHandler(c)
      BY <2>1 DEF LockHandler
    <2>2. CASE LockTransport(c)
      <3>1. hmu[c] # NoMessage /\ ~writing[c]
            /\ UNCHANGED <<link, serve, closed, clients, toClose, victim, stop, pending>>
        BY <2>2 DEF LockTransport
      <3>2. CASE closed[c] /\ hmu' = [hmu EXCEPT ![c] = NoMessage] /\ UNCHANGED writing
        BY <3>1, <3>2
      <3>3. CASE ~closed[c] /\ writing' = [writing EXCEPT ![c] = TRUE] /\ UNCHANGED hmu
        BY <3>1, <3>3
      <3>4. QED
        BY <2>2, <3>2, <3>3 DEF LockTransport
    <2>3. CASE Write(c)
      BY <2>3 DEF Write, Unlock
    <2>4. CASE WriteFails(c)
      BY <2>4 DEF WriteFails, Unlock
    <2>5. QED
      BY <1>3, <2>1, <2>2, <2>3, <2>4 DEF SenderStep
  <1>4. ASSUME NEW c \in Conns, GadgetSends(c) PROVE ServerInv'
    BY <1>4 DEF GadgetSends
  <1>5. ASSUME NEW c \in Conns, NEW i \in calls[c], CallReturns(c, i) PROVE ServerInv'
    BY <1>5 DEF CallReturns
  <1>6. CASE Signal
    BY <1>6 DEF Signal
  <1>7. CASE PickClient
    BY <1>7 DEF PickClient
  <1>8. CASE CloseClient
    BY <1>8 DEF CloseClient, Close
  <1>9. CASE ReleaseClients
    BY <1>9 DEF ReleaseClients
  <1>10. CASE Exit
    BY <1>10 DEF Exit
  <1>11. CASE UNCHANGED vars
    BY <1>11 DEF vars
  <1>12. QED
    BY <1>1, <1>2, <1>3, <1>4, <1>5, <1>6, <1>7, <1>8, <1>9, <1>10, <1>11
    DEF Next, ServerStep, ShutdownStep

LEMMA ServerCorrect == Spec => []ServerInv
  BY ServerInit, ServerPreserved, PTL DEF Spec

\* Close waits for the sender inside Write and later senders see the mark: no
\* message is written to a transport that is closed (transport.go:54-68, 105-116).
THEOREM NoLateWrite == Spec => []NoWriteAfterClose
  <1>1. ServerInv => NoWriteAfterClose
    BY DEF ServerInv, ClosedIsDown, NoWriteAfterClose
  <1>2. QED
    BY <1>1, ServerCorrect, PTL

\* However many connections come and go while Shutdown iterates, all that the
\* server knows are closed when it gives the mutex back (server.go:193-197).
THEOREM ShutdownClosesEveryone == Spec => ShutdownClosesAll
  <1> DEFINE Closes == stop = "closing" /\ stop' # "closing" => \A c \in clients' : closed'[c]
  <1>1. ServerInv /\ [Next]_vars => [Closes]_vars
    <2> SUFFICES ASSUME ServerInv, Next, stop = "closing", stop' # "closing"
                 PROVE  \A c \in clients' : closed'[c]
      BY DEF vars
    <2>1. CASE ReleaseClients
      BY <2>1 DEF ReleaseClients, ServerInv, IterationKept
    <2>2. CASE Exit
      BY <2>2 DEF Exit
    <2>3. CASE Signal
      BY <2>3 DEF Signal
    <2>4. CASE PickClient
      BY <2>4 DEF PickClient
    <2>5. CASE CloseClient
      BY <2>5 DEF CloseClient
    <2>6. ASSUME NEW c \in Conns, PageStep(c) PROVE FALSE
      BY <2>6 DEF PageStep, Connect, Request, Receive, Pause, Resume, Break
    <2>7. ASSUME NEW c \in Conns, LoopStep(c) PROVE FALSE
      BY <2>7 DEF LoopStep, Track, Handle, LoopGoesOn, Leave, Untrack, End
    <2>8. ASSUME NEW c \in Conns, SenderStep(c) PROVE FALSE
      BY <2>8 DEF SenderStep, LockHandler, LockTransport, Write, WriteFails
    <2>9. ASSUME NEW c \in Conns, GadgetSends(c) PROVE FALSE
      BY <2>9 DEF GadgetSends
    <2>10. ASSUME NEW c \in Conns, NEW i \in calls[c], CallReturns(c, i) PROVE FALSE
      BY <2>10 DEF CallReturns
    <2>11. QED
      BY <2>1, <2>2, <2>3, <2>4, <2>5, <2>6, <2>7, <2>8, <2>9, <2>10
      DEF Next, ServerStep, ShutdownStep
  <1>2. Spec => [][Closes]_vars
    BY <1>1, ServerCorrect, PTL DEF Spec
  <1>3. QED
    BY <1>2 DEF ShutdownClosesAll

-----------------------------------------------------------------------------
(* Types                                                                       *)

\* the requests of the pages, on their way to the server and in calls
RequestType ==
  /\ reading \in [Conns -> BOOLEAN]
  /\ data \in [Conns -> Nat]
  /\ DOMAIN asked = Conns /\ DOMAIN pending = Conns
  /\ DOMAIN toServer = Conns /\ DOMAIN calls = Conns
  /\ \A c \in Conns :
       /\ asked[c] \in Seq(Kinds) /\ Len(asked[c]) <= MaxRequests[c]
       /\ pending[c] \subseteq 1..Len(asked[c])
       /\ calls[c] \subseteq 1..Len(asked[c])
       /\ toServer[c] \in Seq(RequestIDs(c))

\* the messages of the server
MessageType ==
  /\ DOMAIN want = Conns /\ DOMAIN wire = Conns
  /\ DOMAIN outbox = Conns /\ DOMAIN hmu = Conns
  /\ \A c \in Conns :
       /\ want[c] \subseteq Messages(c)
       /\ wire[c] \in Seq(Messages(c))
       /\ outbox[c] \in Seq(Messages(c))
       /\ hmu[c] \in Messages(c) \cup {NoMessage}

LEMMA TypeParts == TypeOK <=> ServerType /\ RequestType /\ MessageType
  BY DEF TypeOK, ServerType, RequestType, MessageType

requestVars == <<reading, data, asked, pending, toServer, calls>>

\* The actions that change requestVars; every other step leaves them alone.
LEMMA RequestsChange ==
  ASSUME [Next]_vars
  PROVE  \/ UNCHANGED requestVars
         \/ \E c \in Conns :
              \/ Connect(c) \/ (\E k \in Kinds : Request(c, k)) \/ Receive(c)
              \/ Pause(c) \/ Resume(c) \/ Handle(c) \/ GadgetSends(c)
              \/ \E i \in calls[c] : CallReturns(c, i)
  <1> USE DEF requestVars
  <1>1. ASSUME NEW c \in Conns, PageStep(c), ~Connect(c), \A k \in Kinds : ~Request(c, k),
               ~Receive(c), ~Pause(c), ~Resume(c)
        PROVE  UNCHANGED requestVars
    BY <1>1 DEF PageStep, Break
  <1>2. ASSUME NEW c \in Conns, LoopStep(c), ~Handle(c) PROVE UNCHANGED requestVars
    BY <1>2 DEF LoopStep, Track, LoopGoesOn, Leave, Untrack, End
  <1>3. ASSUME NEW c \in Conns, SenderStep(c) PROVE UNCHANGED requestVars
    BY <1>3 DEF SenderStep, LockHandler, LockTransport, Write, WriteFails
  <1>4. ASSUME Signal \/ ShutdownStep PROVE UNCHANGED requestVars
    BY <1>4 DEF Signal, ShutdownStep, PickClient, CloseClient, ReleaseClients, Exit
  <1>5. CASE UNCHANGED vars
    BY <1>5 DEF vars
  <1>6. QED
    BY <1>1, <1>2, <1>3, <1>4, <1>5 DEF Next, ServerStep

\* The first element of a queue goes, the others stay.
LEMMA TailElements ==
  ASSUME NEW S, NEW q \in Seq(S), q # <<>>
  PROVE  /\ Head(q) = q[1] /\ Head(q) \in S /\ Tail(q) \in Seq(S)
         /\ \A n \in DOMAIN q \ {1} : \E m \in DOMAIN Tail(q) : Tail(q)[m] = q[n]
  <1>1. /\ Head(q) \in S /\ Tail(q) \in Seq(S) /\ Len(Tail(q)) = Len(q) - 1
        /\ \A n \in 1..Len(Tail(q)) : Tail(q)[n] = q[n + 1]
    BY HeadTailProperties
  <1>2. /\ Len(q) \in Nat \ {0} /\ Head(q) = q[1] /\ DOMAIN q = 1..Len(q)
        /\ DOMAIN Tail(q) = 1..Len(Tail(q))
    BY <1>1, LenProperties, EmptySeq
  <1>3. \A l \in Nat \ {0} : \A n \in 1..l : n = 1 \/ (n - 1 \in 1..(l - 1) /\ n = (n - 1) + 1)
    OBVIOUS
  <1>4. ASSUME NEW n \in DOMAIN q, n # 1
        PROVE  \E m \in DOMAIN Tail(q) : Tail(q)[m] = q[n]
    <2>1. n - 1 \in 1..(Len(q) - 1) /\ n = (n - 1) + 1
      BY <1>2, <1>3, <1>4, Zenon
    <2>2. QED
      BY <1>1, <1>2, <2>1, Zenon
  <1>5. QED
    BY <1>1, <1>2, <1>4

\* r is q with y besides.
Grown(q, y, r) ==
  /\ \A n \in DOMAIN q : n \in DOMAIN r /\ r[n] = q[n]
  /\ \E n \in DOMAIN r : r[n] = y

LEMMA AppendGrows == \A S : \A q \in Seq(S), y \in S : Grown(q, y, Append(q, y))
  <1> SUFFICES ASSUME NEW S, NEW q \in Seq(S), NEW y \in S PROVE Grown(q, y, Append(q, y))
    OBVIOUS
  <1>1. /\ Append(q, y) \in Seq(S) /\ Len(Append(q, y)) = Len(q) + 1
        /\ \A n \in 1..Len(q) : Append(q, y)[n] = q[n]
        /\ Append(q, y)[Len(q) + 1] = y
    BY AppendProperties
  <1>2. DOMAIN q = 1..Len(q) /\ DOMAIN Append(q, y) = 1..(Len(q) + 1) /\ Len(q) \in Nat
    BY <1>1, LenProperties
  <1>3. \A l \in Nat : l + 1 \in 1..(l + 1) /\ \A n \in 1..l : n \in 1..(l + 1)
    OBVIOUS
  <1>4. Len(q) + 1 \in 1..(Len(q) + 1) /\ \A n \in 1..Len(q) : n \in 1..(Len(q) + 1)
    BY <1>2, <1>3, Zenon
  <1>5. QED
    BY <1>1, <1>2, <1>4, Zenon DEF Grown

\* The requests and messages of a connection only become more.
LEMMA MoreMessages ==
  ASSUME RequestType, [Next]_vars, NEW c \in Conns
  PROVE  /\ asked'[c] \in Seq(Kinds) /\ Len(asked'[c]) \in Nat
         /\ \A i \in 1..Len(asked[c]) : i \in 1..Len(asked'[c]) /\ asked'[c][i] = asked[c][i]
         /\ RequestIDs(c) \subseteq RequestIDs(c)'
         /\ Messages(c) \subseteq Messages(c)'
  <1> USE DEF RequestType
  <1>1. Len(asked[c]) \in Nat /\ data[c] \in Nat
    BY LenProperties
  <1>2. \/ asked'[c] = asked[c]
        \/ \E k \in Kinds : asked'[c] = Append(asked[c], k)
    <2>1. \/ asked' = asked
          \/ \E d \in Conns : \E k \in Kinds : asked' = [asked EXCEPT ![d] = Append(asked[d], k)]
      BY RequestsChange DEF requestVars, pageVars, loopVars, Connect, Request, Receive, Pause,
         Resume, Handle, GadgetSends, CallReturns
    <2>2. QED
      BY <2>1
  <1>3. /\ asked'[c] \in Seq(Kinds)
        /\ Len(asked'[c]) = Len(asked[c]) \/ Len(asked'[c]) = Len(asked[c]) + 1
        /\ \A i \in 1..Len(asked[c]) : asked'[c][i] = asked[c][i]
    <2>1. CASE asked'[c] = asked[c]
      BY <2>1
    <2>2. ASSUME NEW k \in Kinds, asked'[c] = Append(asked[c], k)
          PROVE  /\ asked'[c] \in Seq(Kinds) /\ Len(asked'[c]) = Len(asked[c]) + 1
                 /\ \A i \in 1..Len(asked[c]) : asked'[c][i] = asked[c][i]
      <3>1. asked[c] \in Seq(Kinds)
        OBVIOUS
      <3>2. /\ Append(asked[c], k) \in Seq(Kinds) /\ Len(Append(asked[c], k)) = Len(asked[c]) + 1
            /\ \A i \in 1..Len(asked[c]) : Append(asked[c], k)[i] = asked[c][i]
        BY <3>1, AppendProperties
      <3>3. QED
        BY <2>2, <3>2
    <2>3. QED
      BY <1>2, <2>1, <2>2
  <1>4. data'[c] = data[c] \/ data'[c] = data[c] + 1
    <2>1. data' = data \/ \E d \in Conns : data' = [data EXCEPT ![d] = data[d] + 1]
      BY RequestsChange DEF requestVars, pageVars, loopVars, Connect, Request, Receive, Pause,
         Resume, Handle, GadgetSends, CallReturns
    <2>2. QED
      BY <2>1
  <1>5. \A l, m \in Nat : m = l \/ m = l + 1 => 1..l \subseteq 1..m /\ 0..l \subseteq 0..m
    OBVIOUS
  <1>6. Len(asked'[c]) \in Nat /\ data'[c] \in Nat
    BY <1>1, <1>3, <1>4
  <1>7. /\ 1..Len(asked[c]) \subseteq 1..Len(asked'[c]) /\ 0..Len(asked[c]) \subseteq 0..Len(asked'[c])
        /\ 1..data[c] \subseteq 1..data'[c]
    BY <1>1, <1>3, <1>4, <1>5, <1>6
  <1>8. RequestIDs(c) \subseteq RequestIDs(c)'
    BY <1>7 DEF RequestIDs
  <1>9. QED
    BY <1>3, <1>6, <1>7, <1>8 DEF Messages

LEMMA RequestInit == Init => RequestType
  <1> SUFFICES ASSUME Init PROVE RequestType
    OBVIOUS
  <1>1. \A S : <<>> \in Seq(S)
    BY EmptySeq
  <1>2. Len(<<>>) = 0 /\ \A n \in Nat : 0 <= n
    OBVIOUS
  <1>3. \A c \in Conns : asked[c] = <<>> /\ toServer[c] = <<>> /\ pending[c] = {} /\ calls[c] = {}
    BY DEF Init
  <1>4. QED
    BY <1>1, <1>2, <1>3 DEF Init, RequestType

LEMMA RequestPreserved ==
  ASSUME RequestType, [Next]_vars
  PROVE  RequestType'
  <1> USE DEF RequestType
  <1>1. ASSUME NEW c \in Conns
        PROVE  /\ asked'[c] \in Seq(Kinds) /\ Len(asked'[c]) \in Nat
               /\ 1..Len(asked[c]) \subseteq 1..Len(asked'[c])
               /\ RequestIDs(c) \subseteq RequestIDs(c)'
               /\ toServer[c] \in Seq(RequestIDs(c)')
    BY MoreMessages, SeqMonotonic
  <1>2. CASE UNCHANGED requestVars
    BY <1>2 DEF requestVars, RequestIDs
  <1>3. ASSUME NEW c \in Conns, Connect(c) PROVE RequestType'
    <2>1. \A d \in Conns : toServer'[d] \in Seq(RequestIDs(d))
      <3>1. 0 \in RequestIDs(c)
        BY <1>1, LenProperties DEF RequestIDs
      <3>2. \A S : <<>> \in Seq(S) /\ \A x \in S : <<x>> \in Seq(S)
        OBVIOUS
      <3> DEFINE greeting == IF c \in Greeting THEN <<0>> ELSE <<>>
      <3>3. greeting \in Seq(RequestIDs(c))
        BY <3>1, <3>2, Zenon
      <3> HIDE DEF greeting
      <3>4. toServer' = [toServer EXCEPT ![c] = greeting]
        BY <1>3 DEF Connect, greeting
      <3>5. QED
        BY <3>3, <3>4
    <2>2. QED
      BY <1>3, <2>1 DEF Connect, loopVars, RequestIDs
  <1>4. ASSUME NEW c \in Conns, NEW k \in Kinds, Request(c, k) PROVE RequestType'
    <2> DEFINE i == Len(asked[c]) + 1
    <2>1. \A d \in Conns : asked'[d] = IF d = c THEN Append(asked[c], k) ELSE asked[d]
      BY <1>4 DEF Request
    <2>2. Len(asked'[c]) = i /\ i <= MaxRequests[c] /\ i \in 1..i /\ i \in 0..i
      <3>1. asked[c] \in Seq(Kinds) /\ Len(asked[c]) \in Nat /\ MaxRequests[c] \in Nat
        BY LenProperties
      <3>2. Len(asked'[c]) = i
        <4>1. Len(Append(asked[c], k)) = i
          BY <3>1, AppendProperties
        <4>2. QED
          BY <2>1, <4>1
      <3>3. \A l, m \in Nat : l < m => l + 1 <= m /\ l + 1 \in 1..(l + 1) /\ l + 1 \in 0..(l + 1)
        OBVIOUS
      <3>4. QED
        BY <1>4, <3>1, <3>2, <3>3 DEF Request
    <2>3. \A d \in Conns : Len(asked'[d]) <= MaxRequests[d]
      BY <2>1, <2>2
    <2>4. \A d \in Conns : toServer'[d] \in Seq(RequestIDs(d)')
      <3>1. i \in RequestIDs(c)'
        BY <2>2 DEF RequestIDs
      <3>2. Append(toServer[c], i) \in Seq(RequestIDs(c)')
        BY <1>1, <3>1, AppendProperties
      <3>3. \A d \in Conns : toServer'[d] = IF d = c THEN Append(toServer[c], i) ELSE toServer[d]
        BY <1>4 DEF Request
      <3>4. QED
        BY <1>1, <3>2, <3>3
    <2>5. \A d \in Conns : pending'[d] \subseteq 1..Len(asked'[d])
      <3>1. \A d \in Conns : pending'[d] = IF d = c THEN pending[c] \cup {i} ELSE pending[d]
        BY <1>4 DEF Request
      <3>2. QED
        BY <1>1, <2>2, <3>1
    <2>6. QED
      BY <1>1, <1>4, <2>3, <2>4, <2>5 DEF Request, loopVars
  <1>5. ASSUME NEW c \in Conns, Receive(c) PROVE RequestType'
    <2>1. DOMAIN pending' = Conns /\ \A d \in Conns : pending'[d] \subseteq pending[d]
      BY <1>5 DEF Receive
    <2>2. QED
      BY <1>5, <2>1 DEF Receive, loopVars, RequestIDs
  <1>6. ASSUME NEW c \in Conns, Pause(c) \/ Resume(c) PROVE RequestType'
    BY <1>6 DEF Pause, Resume, loopVars, RequestIDs
  <1>7. ASSUME NEW c \in Conns, Handle(c) PROVE RequestType'
    <2> DEFINE i == Head(toServer[c])
    <2>1. Tail(toServer[c]) \in Seq(RequestIDs(c)) /\ i \in RequestIDs(c)
      BY <1>7, HeadTailProperties DEF Handle
    <2>2. \A d \in Conns : toServer'[d] \in Seq(RequestIDs(d))
      BY <1>7, <2>1 DEF Handle
    <2>3. calls' = calls \/ (KindOf(c, i) = "slow" /\ calls' = [calls EXCEPT ![c] = @ \cup {i}])
      BY <1>7 DEF Handle
    <2>4. KindOf(c, i) = "slow" => i \in 1..Len(asked[c])
      <3>1. Len(asked[c]) \in Nat /\ \A l \in Nat : \A n \in 0..l : n = 0 \/ n \in 1..l
        BY LenProperties
      <3>2. QED
        BY <2>1, <3>1 DEF KindOf, RequestIDs
    <2>5. DOMAIN calls' = Conns /\ \A d \in Conns : calls'[d] \subseteq 1..Len(asked[d])
      <3>1. CASE calls' = calls
        BY <3>1
      <3>2. CASE KindOf(c, i) = "slow" /\ calls' = [calls EXCEPT ![c] = @ \cup {i}]
        <4>1. \A d \in Conns : calls'[d] = IF d = c THEN calls[c] \cup {i} ELSE calls[d]
          BY <3>2
        <4>2. QED
          BY <2>4, <3>2, <4>1
      <3>3. QED
        BY <2>3, <3>1, <3>2
    <2>6. QED
      BY <1>7, <2>2, <2>5 DEF Handle, pageVars, RequestIDs
  <1>8. ASSUME NEW c \in Conns, GadgetSends(c) PROVE RequestType'
    BY <1>8 DEF GadgetSends, pageVars, loopVars, RequestIDs
  <1>9. ASSUME NEW c \in Conns, NEW i \in calls[c], CallReturns(c, i) PROVE RequestType'
    BY <1>9 DEF CallReturns, pageVars, RequestIDs
  <1>10. QED
    BY <1>2, <1>3, <1>4, <1>5, <1>6, <1>7, <1>8, <1>9, RequestsChange

messageVars == <<want, wire, outbox, hmu>>

\* The actions that change messageVars; every other step leaves them alone.
LEMMA MessagesChange ==
  ASSUME [Next]_vars
  PROVE  \/ UNCHANGED messageVars
         \/ \E c \in Conns :
              \/ Receive(c) \/ Break(c) \/ Handle(c) \/ LoopGoesOn(c) \/ GadgetSends(c)
              \/ LockHandler(c) \/ LockTransport(c) \/ Write(c) \/ WriteFails(c)
              \/ \E i \in calls[c] : CallReturns(c, i)
  <1> USE DEF messageVars
  <1>1. ASSUME NEW c \in Conns, PageStep(c), ~Receive(c), ~Break(c) PROVE UNCHANGED messageVars
    BY <1>1 DEF PageStep, Connect, Request, Pause, Resume
  <1>2. ASSUME NEW c \in Conns, LoopStep(c), ~Handle(c), ~LoopGoesOn(c)
        PROVE  UNCHANGED messageVars
    BY <1>2 DEF LoopStep, Track, Leave, Untrack, End
  <1>3. ASSUME Signal \/ ShutdownStep PROVE UNCHANGED messageVars
    BY <1>3 DEF Signal, ShutdownStep, PickClient, CloseClient, ReleaseClients, Exit
  <1>4. CASE UNCHANGED vars
    BY <1>4 DEF vars
  <1>5. QED
    BY <1>1, <1>2, <1>3, <1>4 DEF Next, ServerStep, SenderStep

\* Every request the server reads has a kind, or is the handshake.
LEMMA KindsKnown ==
  ASSUME RequestType, NEW c \in Conns, NEW i \in RequestIDs(c)
  PROVE  KindOf(c, i) \in Kinds \cup {"handshake"}
  <1>1. i = 0 \/ i \in 1..Len(asked[c])
    <2>1. Len(asked[c]) \in Nat /\ \A l \in Nat : \A n \in 0..l : n = 0 \/ n \in 1..l
      BY LenProperties DEF RequestType
    <2>2. QED
      BY <2>1 DEF RequestIDs
  <1>2. i \in 1..Len(asked[c]) => asked[c][i] \in Kinds
    BY ElementOfSeq DEF RequestType
  <1>3. QED
    BY <1>1, <1>2 DEF KindOf

\* What the loop sends for request i.
ToSend(script, i) == [n \in DOMAIN script |-> <<script[n], i>>]

LEMMA ScriptTable ==
  ASSUME NEW k \in Kinds \cup {"handshake"}, NEW script \in Scripts(k)
  PROVE  /\ script \in {<<>>, <<"event">>, <<"answer">>, <<"event", "answer">>, <<"answer", "again">>}
         /\ k \in Kinds /\ k # "unknown" =>
              (script = <<>> /\ k = "slow") \/ \E n \in DOMAIN script : script[n] = "answer"
  BY DEF Scripts, Kinds, Handshake, Plain, Announced, Detached, Slow, Unknown

LEMMA ToSendType ==
  ASSUME NEW S, NEW i, \A tag \in Tags : <<tag, i>> \in S,
         NEW script \in {<<>>, <<"event">>, <<"answer">>, <<"event", "answer">>, <<"answer", "again">>}
  PROVE  /\ ToSend(script, i) \in Seq(S)
         /\ DOMAIN ToSend(script, i) = DOMAIN script
         /\ \A n \in DOMAIN script : ToSend(script, i)[n] = <<script[n], i>>
  <1>1. script \in Seq(Tags)
    <2>1. \A s, u \in Tags : <<>> \in Seq(Tags) /\ <<s>> \in Seq(Tags) /\ <<s, u>> \in Seq(Tags)
      OBVIOUS
    <2>2. "event" \in Tags /\ "answer" \in Tags /\ "again" \in Tags
      BY DEF Tags
    <2>3. QED
      BY <2>1, <2>2, ZenonT(40)
  <1>2. DOMAIN script = 1..Len(script) /\ Len(script) \in Nat
        /\ \A n \in 1..Len(script) : script[n] \in Tags
    BY <1>1, LenProperties, ElementOfSeq
  <1>3. QED
    BY <1>2 DEF ToSend

\* The messages of the loop are queued, the first of them for the mutex.
LEMMA HandType ==
  ASSUME MessageType, NEW c \in Conns, NEW S, NEW messages \in Seq(S), Hand(c, messages)
  PROVE  /\ DOMAIN outbox' = Conns /\ DOMAIN want' = Conns
         /\ outbox'[c] = messages
         /\ messages # <<>> => Head(messages) \in S /\ want'[c] = want[c] \cup {Head(messages)}
         /\ messages = <<>> => want'[c] = want[c]
         /\ \A d \in Conns \ {c} : outbox'[d] = outbox[d] /\ want'[d] = want[d]
  <1>1. messages # <<>> => Head(messages) \in S
    BY HeadTailProperties
  <1>2. QED
    BY <1>1 DEF Hand, MessageType

LEMMA MessageInit == Init => MessageType
  <1> SUFFICES ASSUME Init PROVE MessageType
    OBVIOUS
  <1>1. \A S : <<>> \in Seq(S)
    BY EmptySeq
  <1>2. \A c \in Conns : wire[c] = <<>> /\ outbox[c] = <<>> /\ want[c] = {} /\ hmu[c] = NoMessage
    BY DEF Init
  <1>3. QED
    BY <1>1, <1>2 DEF Init, MessageType

LEMMA MessagePreserved ==
  ASSUME RequestType, MessageType, HolderWrites, [Next]_vars
  PROVE  MessageType'
  <1> DEFINE More(c) == Messages(c)'
  <1>1. ASSUME NEW c \in Conns
        PROVE  /\ want[c] \subseteq More(c) /\ wire[c] \in Seq(More(c))
               /\ outbox[c] \in Seq(More(c)) /\ hmu[c] \in More(c) \cup {NoMessage}
    <2>1. Messages(c) \subseteq More(c)
      BY MoreMessages
    <2>2. QED
      BY <2>1, SeqMonotonic DEF MessageType
  <1>2. DOMAIN want = Conns /\ DOMAIN wire = Conns /\ DOMAIN outbox = Conns /\ DOMAIN hmu = Conns
    BY DEF MessageType
  <1>3. ASSUME NEW c \in Conns, NEW tag \in Tags, NEW i \in RequestIDs(c)
        PROVE  <<tag, i>> \in More(c)
    <2>1. <<tag, i>> \in Messages(c)
      BY DEF Messages
    <2>2. QED
      BY <2>1, MoreMessages
  <1>4. ASSUME NEW c \in Conns, NEW i \in 1..Len(asked[c]) PROVE i \in RequestIDs(c)
    <2>1. \A l \in Nat : 1..l \subseteq 0..l
      OBVIOUS
    <2>2. Len(asked[c]) \in Nat
      BY LenProperties DEF RequestType
    <2>3. QED
      BY <2>1, <2>2 DEF RequestIDs
  <1> HIDE DEF More
  <1>5. ASSUME NEW c \in Conns, NEW messages \in Seq(More(c)), Hand(c, messages),
               UNCHANGED <<wire, hmu>>
        PROVE  MessageType'
    <2>1. /\ DOMAIN outbox' = Conns /\ DOMAIN want' = Conns /\ outbox'[c] = messages
          /\ want'[c] \subseteq More(c)
          /\ \A d \in Conns \ {c} : outbox'[d] = outbox[d] /\ want'[d] = want[d]
      <3>1. /\ DOMAIN outbox' = Conns /\ DOMAIN want' = Conns /\ outbox'[c] = messages
            /\ messages # <<>> => Head(messages) \in More(c) /\ want'[c] = want[c] \cup {Head(messages)}
            /\ messages = <<>> => want'[c] = want[c]
            /\ \A d \in Conns \ {c} : outbox'[d] = outbox[d] /\ want'[d] = want[d]
        BY <1>5, HandType
      <3>2. want[c] \subseteq More(c)
        BY <1>1
      <3>3. QED
        BY <3>1, <3>2
    <2>2. QED
      BY <1>1, <1>2, <1>5, <2>1 DEF MessageType, More
  <1>6. CASE UNCHANGED messageVars
    BY <1>1, <1>2, <1>6 DEF messageVars, MessageType, More
  <1>7. ASSUME NEW c \in Conns, Receive(c) PROVE MessageType'
    <2>1. wire[c] # <<>> /\ \A d \in Conns : wire'[d] = IF d = c THEN Tail(wire[c]) ELSE wire[d]
      BY <1>2, <1>7 DEF Receive
    <2>2. \A d \in Conns : wire'[d] \in Seq(More(d))
      <3>1. Tail(wire[c]) \in Seq(More(c))
        BY <1>1, <2>1, HeadTailProperties
      <3>2. QED
        BY <1>1, <2>1, <3>1
    <2>3. QED
      BY <1>1, <1>2, <1>7, <2>2 DEF Receive, loopVars, sendVars, MessageType, More
  <1>8. ASSUME NEW c \in Conns, Break(c) PROVE MessageType'
    <2>1. \A d \in Conns : wire'[d] = wire[d] \/ wire'[d] = <<>>
      BY <1>2, <1>8 DEF Break
    <2>2. \A d \in Conns : wire'[d] \in Seq(More(d))
      BY <1>1, <2>1, EmptySeq
    <2>3. QED
      BY <1>1, <1>2, <1>8, <2>2 DEF Break, loopVars, sendVars, MessageType, More
  <1>9. ASSUME NEW c \in Conns, Handle(c) PROVE MessageType'
    <2> DEFINE i == Head(toServer[c])
    <2>1. i \in RequestIDs(c) /\ KindOf(c, i) \in Kinds \cup {"handshake"}
      <3>1. i \in RequestIDs(c)
        BY <1>9, HeadTailProperties DEF Handle, RequestType
      <3>2. QED
        BY <3>1, KindsKnown
    <2>2. PICK script \in Scripts(KindOf(c, i)) : Hand(c, ToSend(script, i))
      BY <1>9 DEF Handle, ToSend
    <2>3. ToSend(script, i) \in Seq(More(c))
      BY <1>3, <2>1, ScriptTable, ToSendType
    <2>4. QED
      BY <1>5, <1>9, <2>2, <2>3 DEF Handle
  <1>10. ASSUME NEW c \in Conns, LoopGoesOn(c) PROVE MessageType'
    <2>1. Tail(outbox[c]) \in Seq(More(c)) /\ Hand(c, Tail(outbox[c]))
      BY <1>1, <1>10, HeadTailProperties DEF LoopGoesOn
    <2>2. QED
      BY <1>5, <1>10, <2>1 DEF LoopGoesOn
  <1>11. ASSUME NEW c \in Conns, GadgetSends(c) PROVE MessageType'
    <2>1. data'[c] = data[c] + 1 /\ data[c] \in Nat
      BY <1>11 DEF GadgetSends, RequestType
    <2>2. <<"data", data[c] + 1>> \in More(c)
      BY <2>1 DEF More, Messages
    <2>3. \A d \in Conns : want'[d] = IF d = c THEN want[c] \cup {<<"data", data[c] + 1>>} ELSE want[d]
      BY <1>2, <1>11 DEF GadgetSends
    <2>4. QED
      BY <1>1, <1>2, <1>11, <2>2, <2>3 DEF GadgetSends, loopVars, MessageType, More
  <1>12. ASSUME NEW c \in Conns, LockHandler(c) PROVE MessageType'
    BY <1>1, <1>2, <1>12 DEF LockHandler, loopVars, MessageType, More
  <1>13. ASSUME NEW c \in Conns, LockTransport(c) PROVE MessageType'
    BY <1>1, <1>2, <1>13 DEF LockTransport, loopVars, MessageType, More
  <1>14. ASSUME NEW c \in Conns, Write(c) PROVE MessageType'
    <2>1. hmu[c] \in More(c)
      BY <1>1, <1>14 DEF Write, HolderWrites
    <2>2. Append(wire[c], hmu[c]) \in Seq(More(c))
      BY <1>1, <2>1, AppendProperties
    <2>3. \A d \in Conns : wire'[d] = IF d = c THEN Append(wire[c], hmu[c]) ELSE wire[d]
      BY <1>2, <1>14 DEF Write
    <2>4. QED
      BY <1>1, <1>2, <1>14, <2>2, <2>3 DEF Write, Unlock, loopVars, MessageType, More
  <1>15. ASSUME NEW c \in Conns, WriteFails(c) PROVE MessageType'
    BY <1>1, <1>2, <1>15 DEF WriteFails, Unlock, loopVars, MessageType, More
  <1>16. ASSUME NEW c \in Conns, NEW i \in calls[c], CallReturns(c, i) PROVE MessageType'
    <2>1. <<"answer", i>> \in More(c)
      BY <1>3, <1>4 DEF RequestType, Tags
    <2>2. \A d \in Conns : want'[d] = IF d = c THEN want[c] \cup {<<"answer", i>>} ELSE want[d]
      BY <1>2, <1>16 DEF CallReturns
    <2>3. QED
      BY <1>1, <1>2, <1>16, <2>1, <2>2 DEF CallReturns, MessageType, More
  <1>17. QED
    BY <1>6, <1>7, <1>8, <1>9, <1>10, <1>11, <1>12, <1>13, <1>14, <1>15, <1>16, MessagesChange

TypeInv == ServerInv /\ RequestType /\ MessageType

LEMMA TypesCorrect == Spec => []TypeInv
  <1>1. Init => TypeInv
    BY ServerInit, RequestInit, MessageInit DEF TypeInv
  <1>2. TypeInv /\ [Next]_vars => TypeInv'
    BY ServerPreserved, RequestPreserved, MessagePreserved DEF TypeInv, ServerInv
  <1>3. QED
    BY <1>1, <1>2, PTL DEF Spec

\* Every message of a connection belongs to a request its page made, and what the
\* server knows of connections is in step with what Shutdown has yet to close.
THEOREM TypeCorrect == Spec => []TypeOK
  <1>1. TypeInv => TypeOK
    BY TypeParts DEF TypeInv, ServerInv
  <1>2. QED
    BY <1>1, TypesCorrect, PTL

-----------------------------------------------------------------------------
(* Answers                                                                     *)

\* The head of outbox is with a sender or was sent: only the messages after it
\* count as still to come.
Coming(c, i) ==
  \/ i \in calls[c]
  \/ \E n \in DOMAIN toServer[c] : toServer[c][n] = i
  \/ \E m \in want[c] : SettlesRequest(m, i)
  \/ hmu[c] # NoMessage /\ SettlesRequest(hmu[c], i)
  \/ \E n \in DOMAIN outbox[c] : n # 1 /\ SettlesRequest(outbox[c][n], i)
  \/ \E n \in DOMAIN wire[c] : SettlesRequest(wire[c][n], i)

AnswerComing == \A c \in Conns : link[c] = "up" => \A i \in Unanswered(c) : Coming(c, i)

\* Waiting requests stay what they are, and none is added but by Request.
LEMMA StillWaiting ==
  ASSUME TypeInv, NEW c \in Conns, asked'[c] = asked[c], pending'[c] \subseteq pending[c]
  PROVE  Unanswered(c)' \subseteq Unanswered(c)
  BY DEF Unanswered

LEMMA AnswerFramed ==
  ASSUME TypeInv, AnswerComing, NEW c \in Conns,
         asked'[c] = asked[c], pending'[c] \subseteq pending[c],
         link'[c] = "up" => link[c] = "up" /\ \A i \in Unanswered(c)' : Coming(c, i) => Coming(c, i)'
  PROVE  link'[c] = "up" => \A i \in Unanswered(c)' : Coming(c, i)'
  BY StillWaiting DEF AnswerComing

\* Every one of the messages is with the mutex or still to come.
Handed(c, messages) ==
  \A n \in DOMAIN messages :
    \/ messages[n] \in want'[c]
    \/ \E l \in DOMAIN outbox'[c] : l # 1 /\ outbox'[c][l] = messages[n]

LEMMA HandKeeps ==
  ASSUME MessageType, NEW c \in Conns, NEW S, NEW messages \in Seq(S), Hand(c, messages)
  PROVE  Handed(c, messages)
  <1> SUFFICES ASSUME NEW n \in DOMAIN messages
               PROVE  \/ messages[n] \in want'[c]
                      \/ \E l \in DOMAIN outbox'[c] : l # 1 /\ outbox'[c][l] = messages[n]
    BY DEF Handed
  <1>1. outbox'[c] = messages /\ (messages # <<>> => want'[c] = want[c] \cup {Head(messages)})
    BY HandType
  <1>2. messages # <<>> /\ Head(messages) = messages[1]
    BY EmptySeq, LenProperties
  <1>3. QED
    BY <1>1, <1>2

LEMMA AnswerInit == Init => AnswerComing
  BY DEF Init, AnswerComing

LEMMA AnswerPreserved ==
  ASSUME TypeInv, AnswerComing, [Next]_vars
  PROVE  AnswerComing'
  <1> DEFINE Holds(c) == link'[c] = "up" => \A i \in Unanswered(c)' : Coming(c, i)'
  <1> SUFFICES ASSUME NEW c \in Conns PROVE Holds(c)
    BY DEF AnswerComing
  <1>0. /\ DOMAIN calls = Conns /\ DOMAIN toServer = Conns /\ DOMAIN want = Conns
        /\ DOMAIN hmu = Conns /\ DOMAIN outbox = Conns /\ DOMAIN wire = Conns
        /\ DOMAIN asked = Conns /\ DOMAIN pending = Conns /\ link \in [Conns -> {"none", "up", "down"}]
    BY DEF TypeInv, ServerInv, ServerType, RequestType, MessageType
  <1>1. ASSUME asked'[c] = asked[c], pending'[c] \subseteq pending[c],
               link'[c] = "up" => link[c] = "up" /\ \A i \in Unanswered(c)' : Coming(c, i) => Coming(c, i)'
        PROVE  Holds(c)
    BY <1>1, AnswerFramed
  <1>2. ASSUME asked'[c] = asked[c], pending'[c] = pending[c], link'[c] = link[c],
               calls'[c] = calls[c], toServer'[c] = toServer[c], want'[c] = want[c],
               hmu'[c] = hmu[c], outbox'[c] = outbox[c], wire'[c] = wire[c]
        PROVE  Holds(c)
    <2>1. \A i : Coming(c, i) <=> Coming(c, i)'
      BY <1>2 DEF Coming, SettlesRequest, Settles
    <2>2. QED
      BY <1>1, <1>2, <2>1
  <1> HIDE DEF Holds
  <1>3. ASSUME NEW d \in Conns, PageStep(d) PROVE Holds(c)
    <2>1. CASE d # c
      <3>1. /\ link'[c] = link[c] /\ asked'[c] = asked[c] /\ pending'[c] = pending[c]
            /\ toServer'[c] = toServer[c] /\ wire'[c] = wire[c]
            /\ UNCHANGED <<calls, want, hmu, outbox>>
        BY <1>0, <1>3, <2>1 DEF PageStep, Connect, Request, Receive, Pause, Resume, Break
      <3>2. QED
        BY <1>2, <3>1
    <2>2. CASE d = c /\ Connect(c)
      <3>1. pending'[c] = {}
        BY <2>2 DEF Connect, TypeInv, ServerInv, NobodyWaitsYet
      <3>2. QED
        BY <3>1 DEF Holds, Unanswered
    <2>3. ASSUME d = c, NEW k \in Kinds, Request(c, k) PROVE Holds(c)
      <3> DEFINE new == Len(asked[c]) + 1
                 ids == RequestIDs(c) \cup {new}
      <3>1. /\ link'[c] = link[c] /\ link[c] = "up" /\ pending'[c] = pending[c] \cup {new}
            /\ toServer'[c] = Append(toServer[c], new)
            /\ UNCHANGED <<calls, want, hmu, outbox, wire>>
        BY <1>0, <2>3 DEF Request, loopVars
      <3>2. toServer[c] \in Seq(ids) /\ new \in ids
        BY SeqMonotonic DEF TypeInv, RequestType
      <3>3. Grown(toServer[c], new, toServer'[c])
        <4>1. Grown(toServer[c], new, Append(toServer[c], new))
          BY <3>2, AppendGrows, Zenon
        <4>2. QED
          BY <3>1, <4>1
      <3>4. \A i : Coming(c, i) \/ i = new => Coming(c, i)'
        BY <3>1, <3>3 DEF Coming, Grown, SettlesRequest, Settles
      <3>5. ASSUME NEW i \in Unanswered(c)', i # new PROVE i \in Unanswered(c)
        <4>1. i \in pending[c] /\ i \in 1..Len(asked[c])
          BY <3>1, <3>5 DEF Unanswered, TypeInv, RequestType
        <4>2. asked'[c][i] = asked[c][i]
          BY <4>1, MoreMessages DEF TypeInv
        <4>3. QED
          BY <3>5, <4>1, <4>2 DEF Unanswered
      <3>6. \A i \in Unanswered(c)' : Coming(c, i)'
        BY <3>1, <3>4, <3>5 DEF AnswerComing
      <3>7. QED
        BY <3>6 DEF Holds
    <2>4. CASE d = c /\ Receive(c)
      <3>1. /\ link'[c] = link[c] /\ asked'[c] = asked[c] /\ wire'[c] = Tail(wire[c]) /\ wire[c] # <<>>
            /\ pending'[c] = IF Settles(Head(wire[c])) THEN pending[c] \ {Head(wire[c])[2]} ELSE pending[c]
            /\ UNCHANGED <<calls, toServer, want, hmu, outbox>>
        BY <1>0, <2>4 DEF Receive, loopVars, sendVars
      <3>2. /\ Head(wire[c]) = wire[c][1]
            /\ \A n \in DOMAIN wire[c] \ {1} : \E m \in DOMAIN wire'[c] : wire'[c][m] = wire[c][n]
        BY <3>1, TailElements DEF TypeInv, MessageType
      <3>3. ASSUME NEW i \in Unanswered(c)', Coming(c, i) PROVE Coming(c, i)'
        <4>1. ~SettlesRequest(wire[c][1], i)
          BY <3>1, <3>2, <3>3 DEF Unanswered, SettlesRequest
        <4>2. QED
          BY <3>1, <3>2, <3>3, <4>1, ZenonT(60) DEF Coming, SettlesRequest, Settles
      <3>4. QED
        BY <1>1, <3>1, <3>3
    <2>5. CASE d = c /\ (Pause(c) \/ Resume(c))
      BY <1>2, <2>5 DEF Pause, Resume, loopVars, sendVars
    <2>6. CASE d = c /\ Break(c)
      BY <1>0, <2>6 DEF Break, Holds
    <2>7. QED
      BY <1>3, <2>1, <2>2, <2>3, <2>4, <2>5, <2>6 DEF PageStep
  <1>4. ASSUME NEW d \in Conns, LoopStep(d) PROVE Holds(c)
    <2>1. CASE d # c
      <3>1. CASE Handle(d) \/ LoopGoesOn(d)
        <4>1. /\ UNCHANGED <<link, asked, pending, hmu, wire>>
              /\ calls'[c] = calls[c] /\ toServer'[c] = toServer[c]
              /\ want'[c] = want[c] /\ outbox'[c] = outbox[c]
          BY <1>0, <2>1, <3>1 DEF Handle, LoopGoesOn, Hand, pageVars
        <4>2. QED
          BY <1>2, <4>1
      <3>2. CASE Track(d) \/ Leave(d) \/ Untrack(d)
        BY <1>2, <3>2 DEF Track, Leave, Untrack, pageVars, sendVars
      <3>3. CASE End(d)
        <4>1. link'[c] = link[c]
          BY <1>0, <2>1, <3>3 DEF End, Close
        <4>2. QED
          BY <1>2, <3>3, <4>1 DEF End, sendVars
      <3>4. QED
        BY <1>4, <3>1, <3>2, <3>3 DEF LoopStep
    <2>2. CASE d = c /\ (Track(c) \/ Leave(c) \/ Untrack(c))
      BY <1>2, <2>2 DEF Track, Leave, Untrack, pageVars, sendVars
    <2>3. CASE d = c /\ End(c)
      BY <1>0, <2>3 DEF End, Close, Holds
    <2>4. CASE d = c /\ LoopGoesOn(c)
      <3>1. /\ outbox[c] # <<>> /\ Hand(c, Tail(outbox[c]))
            /\ UNCHANGED <<link, asked, pending, calls, toServer, hmu, wire>>
        BY <2>4 DEF LoopGoesOn, pageVars
      <3>2. /\ Tail(outbox[c]) \in Seq(Messages(c))
            /\ \A n \in DOMAIN outbox[c] \ {1} :
                 \E m \in DOMAIN Tail(outbox[c]) : Tail(outbox[c])[m] = outbox[c][n]
        BY <3>1, TailElements DEF TypeInv, MessageType
      <3>3. \A n \in DOMAIN outbox[c] \ {1} :
               \/ outbox[c][n] \in want'[c]
               \/ \E l \in DOMAIN outbox'[c] : l # 1 /\ outbox'[c][l] = outbox[c][n]
        <4>0. MessageType /\ Hand(c, Tail(outbox[c])) /\ Tail(outbox[c]) \in Seq(Messages(c))
          BY <3>1, <3>2 DEF TypeInv
        <4>1. Handed(c, Tail(outbox[c]))
          BY <4>0, HandKeeps
        <4>2. QED
          BY <3>2, <4>1, ZenonT(40) DEF Handed
      <3>4. want[c] \subseteq want'[c]
        BY <3>1, <3>2, HandType, ZenonT(40) DEF TypeInv
      <3>5. \A i : Coming(c, i) => Coming(c, i)'
        BY <3>1, <3>3, <3>4 DEF Coming, SettlesRequest, Settles
      <3>6. QED
        BY <1>1, <3>1, <3>5
    <2>5. CASE d = c /\ Handle(c)
      <3>0. PICK j, k : j = Head(toServer[c]) /\ k = KindOf(c, j)
        OBVIOUS
      <3>1. /\ toServer[c] # <<>> /\ outbox[c] = <<>> /\ toServer'[c] = Tail(toServer[c])
            /\ UNCHANGED <<link, asked, pending, hmu, wire>>
        BY <1>0, <2>5 DEF Handle, pageVars
      <3>2. PICK script \in Scripts(k) :
              /\ Hand(c, ToSend(script, j))
              /\ calls' = IF script = <<>> /\ k = "slow"
                          THEN [calls EXCEPT ![c] = @ \cup {j}] ELSE calls
        BY <2>5, <3>0 DEF Handle, ToSend
      <3>3. /\ j = toServer[c][1] /\ j \in RequestIDs(c)
            /\ \A n \in DOMAIN toServer[c] \ {1} :
                 \E m \in DOMAIN toServer'[c] : toServer'[c][m] = toServer[c][n]
        BY <3>0, <3>1, TailElements DEF TypeInv, RequestType
      <3>4. k \in Kinds \cup {"handshake"}
        BY <3>0, <3>3, KindsKnown DEF TypeInv
      <3>5. /\ script \in {<<>>, <<"event">>, <<"answer">>, <<"event", "answer">>, <<"answer", "again">>}
            /\ k \in Kinds /\ k # "unknown" =>
                 (script = <<>> /\ k = "slow") \/ \E n \in DOMAIN script : script[n] = "answer"
        BY <3>2, <3>4, ScriptTable
      <3>6. /\ ToSend(script, j) \in Seq(Messages(c))
            /\ DOMAIN ToSend(script, j) = DOMAIN script
            /\ \A n \in DOMAIN script : ToSend(script, j)[n] = <<script[n], j>>
        <4>1. \A tag \in Tags : <<tag, j>> \in Messages(c)
          BY <3>3 DEF Messages
        <4>2. QED
          BY <3>5, <4>1, ToSendType, ZenonT(40)
      <3>7. /\ want[c] \subseteq want'[c]
            /\ Handed(c, ToSend(script, j))
        BY <3>2, <3>6, HandType, HandKeeps DEF TypeInv
      <3>8. calls[c] \subseteq calls'[c] /\ (script = <<>> /\ k = "slow" => j \in calls'[c])
        BY <1>0, <3>2
      <3>9. ASSUME j \in Unanswered(c) PROVE Coming(c, j)'
        <4>1. k \in Kinds /\ k # "unknown"
          <5>1. j \in 1..Len(asked[c]) /\ asked[c][j] # "unknown" /\ Len(asked[c]) \in Nat
            BY <3>9, LenProperties DEF Unanswered, TypeInv, RequestType
          <5>2. \A l \in Nat : \A n \in 1..l : n # 0
            OBVIOUS
          <5>3. j # 0
            BY <5>1, <5>2
          <5>4. asked[c][j] \in Kinds
            BY <5>1, ElementOfSeq DEF TypeInv, RequestType
          <5>5. QED
            BY <3>0, <5>1, <5>3, <5>4 DEF KindOf
        <4>2. CASE script = <<>> /\ k = "slow"
          BY <3>8, <4>2 DEF Coming
        <4>3. ASSUME NEW n \in DOMAIN script, script[n] = "answer" PROVE Coming(c, j)'
          <5>1. \/ <<"answer", j>> \in want'[c]
                \/ \E m \in DOMAIN outbox'[c] : m # 1 /\ outbox'[c][m] = <<"answer", j>>
            BY <3>6, <3>7, <4>3 DEF Handed
          <5>2. SettlesRequest(<<"answer", j>>, j)
            BY DEF SettlesRequest, Settles
          <5>3. QED
            BY <5>1, <5>2 DEF Coming, SettlesRequest, Settles
        <4>4. QED
          BY <3>5, <4>1, <4>2, <4>3
      <3>10. ASSUME NEW i \in Unanswered(c)', Coming(c, i) PROVE Coming(c, i)'
        <4>1. CASE i = j
          BY <3>1, <3>9, <3>10, <4>1 DEF Unanswered
        <4>2. CASE i # j
          <5>1. \A n \in DOMAIN outbox[c] : n \notin DOMAIN <<>>
            BY <3>1
          <5>2. QED
            <6>1. CASE \E n \in DOMAIN toServer[c] : toServer[c][n] = i
              <7>1. PICK n \in DOMAIN toServer[c] : toServer[c][n] = i
                BY <6>1
              <7>2. n # 1
                BY <3>3, <4>2, <7>1
              <7>3. QED
                BY <3>3, <7>1, <7>2 DEF Coming
            <6>2. CASE i \in calls[c] \/ \E m \in want[c] : SettlesRequest(m, i)
              BY <3>7, <3>8, <6>2 DEF Coming, SettlesRequest, Settles
            <6>3. CASE hmu[c] # NoMessage /\ SettlesRequest(hmu[c], i)
              BY <3>1, <6>3 DEF Coming, SettlesRequest, Settles
            <6>4. CASE \E n \in DOMAIN wire[c] : SettlesRequest(wire[c][n], i)
              BY <3>1, <6>4 DEF Coming, SettlesRequest, Settles
            <6>5. QED
              BY <3>1, <3>10, <5>1, <6>1, <6>2, <6>3, <6>4 DEF Coming
        <4>3. QED
          BY <4>1, <4>2
      <3>11. QED
        BY <1>1, <3>1, <3>10
    <2>6. QED
      BY <1>4, <2>1, <2>2, <2>3, <2>4, <2>5 DEF LoopStep
  <1>5. ASSUME NEW d \in Conns, SenderStep(d) PROVE Holds(c)
    <2>0. UNCHANGED <<link, asked, pending, calls, toServer, outbox>>
      BY <1>5 DEF SenderStep, LockHandler, LockTransport, Write, WriteFails, pageVars, loopVars
    <2>1. CASE d # c
      <3>1. want'[c] = want[c] /\ hmu'[c] = hmu[c] /\ wire'[c] = wire[c]
        BY <1>0, <1>5, <2>1 DEF SenderStep, LockHandler, LockTransport, Write, WriteFails, Unlock
      <3>2. QED
        BY <1>2, <2>0, <3>1
    <2>2. CASE d = c /\ LockHandler(c)
      <3>1. PICK m \in want[c] : hmu'[c] = m /\ want'[c] = want[c] \ {m}
        BY <1>0, <2>2 DEF LockHandler
      <3>2. hmu[c] = NoMessage /\ wire' = wire /\ m # NoMessage
        <4>1. m \in Messages(c) /\ data[c] \in Nat /\ Len(asked[c]) \in Nat
          BY LenProperties DEF TypeInv, RequestType, MessageType
        <4>2. Messages(c) \subseteq Message
          BY <4>1 DEF Messages, Message, RequestIDs, Tags
        <4>3. QED
          BY <2>2, <4>1, <4>2 DEF LockHandler
      <3>3. \A i : Coming(c, i) => Coming(c, i)'
        BY <2>0, <3>1, <3>2 DEF Coming, SettlesRequest, Settles
      <3>4. QED
        BY <1>1, <2>0, <3>3
    <2>3. CASE d = c /\ LockTransport(c)
      <3>1. CASE closed[c]
        BY <2>0, <3>1 DEF Holds, TypeInv, ServerInv, ClosedIsDown
      <3>2. CASE ~closed[c]
        BY <1>2, <2>0, <2>3, <3>2 DEF LockTransport
      <3>3. QED
        BY <3>1, <3>2
    <2>4. CASE d = c /\ Write(c)
      <3>1. /\ hmu[c] # NoMessage /\ hmu'[c] = NoMessage /\ want' = want
            /\ wire'[c] = Append(wire[c], hmu[c])
        BY <1>0, <2>4 DEF Write, Unlock, TypeInv, ServerInv, HolderWrites
      <3>2. wire[c] \in Seq(Messages(c)) /\ hmu[c] \in Messages(c)
        BY <3>1 DEF TypeInv, MessageType
      <3>3. Grown(wire[c], hmu[c], wire'[c])
        <4>1. Grown(wire[c], hmu[c], Append(wire[c], hmu[c]))
          BY <3>2, AppendGrows, Zenon
        <4>2. QED
          BY <3>1, <4>1
      <3>4. \A i : Coming(c, i) => Coming(c, i)'
        BY <2>0, <3>1, <3>3 DEF Coming, Grown, SettlesRequest, Settles
      <3>5. QED
        BY <1>1, <2>0, <3>4
    <2>5. CASE d = c /\ WriteFails(c)
      BY <2>0, <2>5 DEF WriteFails, Holds
    <2>6. QED
      BY <1>5, <2>1, <2>2, <2>3, <2>4, <2>5 DEF SenderStep
  <1>6. ASSUME NEW d \in Conns, GadgetSends(d) PROVE Holds(c)
    <2>1. /\ UNCHANGED <<link, asked, pending, calls, toServer, hmu, outbox, wire>>
          /\ want[c] \subseteq want'[c]
      BY <1>0, <1>6 DEF GadgetSends, pageVars, loopVars
    <2>2. \A i : Coming(c, i) => Coming(c, i)'
      BY <2>1 DEF Coming, SettlesRequest, Settles
    <2>3. QED
      BY <1>1, <2>1, <2>2
  <1>7. ASSUME NEW d \in Conns, NEW j \in calls[d], CallReturns(d, j) PROVE Holds(c)
    <2>1. /\ UNCHANGED <<link, asked, pending, toServer, hmu, outbox, wire>>
          /\ want[c] \subseteq want'[c]
          /\ calls'[c] = calls[c] \/ (calls'[c] = calls[c] \ {j} /\ <<"answer", j>> \in want'[c])
      <3>1. CASE d = c
        BY <1>0, <1>7, <3>1 DEF CallReturns, pageVars
      <3>2. CASE d # c
        BY <1>0, <1>7, <3>2 DEF CallReturns, pageVars
      <3>3. QED
        BY <3>1, <3>2
    <2>2. \A i : Coming(c, i) => Coming(c, i)'
      BY <2>1 DEF Coming, SettlesRequest, Settles
    <2>3. QED
      BY <1>1, <2>1, <2>2
  <1>8. CASE Signal \/ ShutdownStep
    <2>1. /\ UNCHANGED <<asked, pending, calls, toServer, want, hmu, outbox, wire>>
          /\ link'[c] = link[c] \/ link'[c] # "up"
      BY <1>0, <1>8 DEF Signal, ShutdownStep, PickClient, CloseClient, Close, ReleaseClients, Exit,
         pageVars, loopVars, sendVars
    <2>2. CASE link'[c] = link[c]
      BY <1>2, <2>1, <2>2
    <2>3. CASE link'[c] # "up"
      BY <2>3 DEF Holds
    <2>4. QED
      BY <2>1, <2>2, <2>3
  <1>9. CASE UNCHANGED vars
    BY <1>2, <1>9 DEF vars, pageVars, loopVars, sendVars
  <1>10. QED
    BY <1>3, <1>4, <1>5, <1>6, <1>7, <1>8, <1>9 DEF Next, ServerStep

\* A request waits for nothing in vain: while its socket is up, a request that has
\* a handler is on its way, in a call, or its answer is to come, whatever other
\* goroutines send meanwhile and wherever the socket blocks
\* (api.service.svelte.ts:63-89, handler.go:125-172).
THEOREM AnswersCome == Spec => []AnswerUnderWay
  <1>1. AnswerComing => AnswerUnderWay
    BY DEF AnswerComing, AnswerUnderWay, Coming, OnItsWay
  <1>2. TypeInv /\ AnswerComing /\ [Next]_vars => AnswerComing'
    BY AnswerPreserved
  <1>3. QED
    BY <1>1, <1>2, AnswerInit, TypesCorrect, PTL DEF Spec
=============================================================================
