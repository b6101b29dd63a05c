SPECIFICATION MapsSpec
CONSTANTS
  None = None
  Multicast = {5}
  Timeout = 1
  DefaultTimeout = 3
  Packets <- SomePackets
  Retained = 3
  MaxPackets = 3
  MaxTime = 2
  Connections <- SomeConnections
  Snapshots <- SomeSnapshots
  NoSnapshot = NoSnapshot
  capacity = 2
  Local = {"localhost"}
  Threshold = 5
  EdgeTimeout = 1
  NodeTimeout = 3
  Places = {"left"}
  MaxEvents = 3
  MaxInputs = 2
CHECK_DEADLOCK FALSE
INVARIANTS CorrelationAgrees FilterAgreesWithGroups MapIsCurrent GraphConsistent ChartIsCurrent
PROPERTY ViewCatchesUp
