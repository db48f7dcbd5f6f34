CONSTANTS
  Builds = {"um"}
  ShardsPerProc <- TrueShardsPerProc
  MaxShards <- TrueMaxShards
  LeastPerShard <- TrueLeastPerShard
  SlotsPerSet = 8
  Line = 64
  ShardSize = 64
  HotSize = 128
  ColdSize = 128
  HighestNode = 0
  Procs = {1}
  Totals = {8199}
  Doublings = 15
SPECIFICATION Spec
INVARIANTS
  RequestIsRoundedUp
