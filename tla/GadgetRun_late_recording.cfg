SPECIFICATION Spec
CONSTANTS
  Runs = {r1}
  Targets = {t1}
  MaxPayloads = 1
  CanTimeout = TRUE
  CanBreak = FALSE
  CanDrop = FALSE
  CanFail = FALSE
CHECK_DEADLOCK FALSE
INVARIANT NoRecordingLeftActive
