--------------------------- MODULE MCCacheRouting ---------------------------
(* Scaled-down constants for the run of CacheLifecycle and CacheRouting. *)
EXTENDS CacheRouting, MCCacheLifecycle

Bits == INSTANCE Bitwise

SmallShardsPerProc == ByBuild(2, 1)
SmallMaxShards == ByBuild(4, 4)
SmallLeastPerShard == ByBuild(4, 0)

(* The recursive functions of the model are the operators of the library. *)
ASSUME OperatorsAreBitwise ==
  \A a, b \in Words : Xor(a, b) = Bits!^^(a, b) /\ And(a, b) = Bits!&(a, b)
=============================================================================
