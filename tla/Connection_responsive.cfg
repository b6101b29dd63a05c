SPECIFICATION ResponsiveSpec
CONSTANTS
  c1 = c1
  c2 = c2
  Conns = {c1, c2}
  NoConn = NoConn
  NoMessage = NoMessage
  MaxRequests <- OneAsks
  MaxData <- OneSends
  Room = 1
  Greeting = {c1}
  Pausing = {c1}
  Breaking = {c1, c2}
CHECK_DEADLOCK FALSE
INVARIANT AnswerUnderWay
PROPERTY ShutdownClosesAll RequestsSettle SignalEndsProcess
