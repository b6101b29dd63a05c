SPECIFICATION FairSpec
CONSTANTS
  d1 = d1
  d2 = d2
  Ids = {d1, d2}
  NoId = NoId
  Plans <- OneOrTwo
  Slow = {d1}
  Capacity = 100
CHECK_DEADLOCK FALSE
INVARIANT FinalEventSent SuccessIsReal
PROPERTY DismissedStaysGone DeploymentSettles WorkerFinishes
