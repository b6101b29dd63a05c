SPECIFICATION FairSpec
CONSTANTS
  Runs = {r1}
  Targets = {t1}
  MaxPayloads = 4
  CanTimeout = TRUE
  CanBreak = TRUE
  CanDrop = TRUE
  CanFail = FALSE
CHECK_DEADLOCK FALSE
INVARIANT GapsReported
PROPERTY CancelledRunsEnd
