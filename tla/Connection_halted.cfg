SPECIFICATION FairSpec
CONSTANTS
  c1 = c1
  c2 = c2
  Conns = {c1, c2}
  NoConn = NoConn
  NoMessage = NoMessage
  MaxRequests <- NobodyAsks
  MaxData <- OneSends
  Room = 1
  Greeting = {c1}
  Pausing = {c1}
  Breaking = {}
CHECK_DEADLOCK FALSE
PROPERTY SignalEndsProcess
