CONSTANTS
  Builds = {"um", "km"}
  ShardsPerProc <- SmallShardsPerProc
  MaxShards <- SmallMaxShards
  LeastPerShard <- SmallLeastPerShard
  SlotsPerSet = 2
  Line = 4
  ShardSize = 5
  HotSize = 4
  ColdSize = 8
  HighestNode = 2
  Procs = {0, 1, 3}
  Totals = {0, 11, 16, 23}
  Doublings = 6
  HashBits = 8
  Seed = 45
  Prime = 201
SPECIFICATION RSpec
INVARIANTS
  TypeOK
  HeapIsOwned
  UsableMeansWhole
  UsageIsExact
  ContentsFitTheirBlock
  NodesShareEvenly
  CapacityIsClose
  HasherFormsAgree
  EveryBucketIsReached
