SPECIFICATION Spec
CONSTANTS
  Sessions = {s1}
  Instances = {i1, i2}
  Writers = {w1, w2}
  Readers = {r1}
  NoSession = NoSession
  NoInstance = NoInstance
  MaxEvents = 2
  Faults <- FaultsButFinalize
  CanCrash = TRUE
  Repair = FALSE
CHECK_DEADLOCK FALSE
INVARIANTS ConnectionsMatchActiveRuns CountAccounting IndexedHasFile
PROPERTIES ArchiveSpec
