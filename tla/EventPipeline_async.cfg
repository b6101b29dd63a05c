SPECIFICATION FairSpec
CONSTANTS
  Ids = {a}
  Attached = {a}
  Capacity = 2
  Processors = "async"
  CanFilter = TRUE
  MaxEmits = 1
  MaxRows = 2
  MaxEvents = 4
INVARIANTS FlushOrder EverythingCounted
PROPERTY EventsSettle
CHECK_DEADLOCK FALSE
