SPECIFICATION Spec
CONSTANTS
  Runs = {r1}
  Targets = {t1, t2}
  MaxPayloads = 1
  CanTimeout = TRUE
  CanBreak = TRUE
  CanDrop = FALSE
  CanFail = TRUE
CHECK_DEADLOCK FALSE
INVARIANTS StopKeepsResults RecordingClosed RecordingComplete ReceiverReturns
PROPERTY RunsFollowProtocol
