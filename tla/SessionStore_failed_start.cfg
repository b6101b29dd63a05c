SPECIFICATION Spec
CONSTANTS
  Sessions = {s1}
  Instances = {i1}
  Writers = {w1}
  Readers = {}
  NoSession = NoSession
  NoInstance = NoInstance
  MaxEvents = 1
  Faults <- NoFaults
  CanCrash = TRUE
  Repair = FALSE
CHECK_DEADLOCK FALSE
INVARIANT NoRecordingAfterFailedStart
