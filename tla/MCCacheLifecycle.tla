-------------------------- MODULE MCCacheLifecycle --------------------------
(* The code's own constants, for the runs of CacheLifecycle alone. *)
EXTENDS CacheLifecycle

ByBuild(um, km) == [b \in {"um", "km"} |-> IF b = "um" THEN um ELSE km]

TrueShardsPerProc == ByBuild(32, 8)
TrueMaxShards == ByBuild(4096, 1024)
TrueLeastPerShard == ByBuild(256, 0)
=============================================================================
