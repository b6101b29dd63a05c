SPECIFICATION FairSpec
CONSTANTS
  Sessions = {s1, s2}
  Instances = {i1}
  Writers = {w1}
  Readers = {r1}
  NoSession = NoSession
  NoInstance = NoInstance
  MaxEvents = 1
  Faults <- AllFaults
  CanCrash = TRUE
  Repair = TRUE
CHECK_DEADLOCK FALSE
PROPERTIES DeletedStaysDeleted StopReturns
