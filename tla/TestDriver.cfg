CONSTANTS
  Threads = 3
  Contexts = 1
  SamplesPerThread = 3
  Times <- Latencies
  WaitObjects = 2
SPECIFICATION FairSpec
INVARIANTS
  TypeOK
  NothingRunsWhenUnloaded
  WorkersHaveTheirTest
  CorruptionIsReported
  SuccessMeansSuccess
  SortStaysInRange
  SortSplitsInOrder
  SortStackIsSmall
PROPERTIES
  SamplesAreComplete
  DriverComesToRest
CHECK_DEADLOCK FALSE
