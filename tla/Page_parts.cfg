SPECIFICATION PartSpec
CONSTANTS
  Item = {1, 2, 3, 4}
  undefined = undefined
  capacity = 3
  Query = {"", "a", "b"}
  Fields = {1, 2}
  Hits <- TextIn
  Snapshots <- TwoSnapshots
  MaxInputs = 3
  maxEvents = 3
  Sizes = {1, 2}
  Batches = {1, 2, 3, 4}
  Tabs = {"table", "chart"}
  null = null
  NumDirs = 2
  Contents <- SomeContents
  None = None
  MaxEdits = 1
  MaxReloads = 1
  Runs <- TwoRuns
  recorded <- Recordings
  MaxLoads = 3
  MaxVisits = 2
  Place = 3
  NumRows = 4
  MaxChoices = 4
  PageSize = 2
CHECK_DEADLOCK FALSE
INVARIANTS SettledTableIsRight PinnedBatchesSelected CacheServesCurrentFiles ReplayShowsRecording
PROPERTIES SearchIsAnswered ArrivalKeepsRows LoaderFinishes ReplaysSettle SelectionSticks
