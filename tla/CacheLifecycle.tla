--------------------------- MODULE CacheLifecycle ---------------------------
(***************************************************************************)
(* Initialize, GetMemoryUsage and Cleanup of both caches: how the number of *)
(* shards and of sets follows from a request, how the memory blocks come,   *)
(* on which NUMA node, and how they go when any allocation fails.           *)
(*                                                                          *)
(* The two classes differ in their constants and in a few steps; build says *)
(* which one this is.  Calls do not overlap: the caller must see to that.   *)
(***************************************************************************)
EXTENDS Integers, FiniteSets, Functions

CONSTANTS
  Builds,        \* "um", um/optimistic_cache.h; "km", km/OptimisticCache.h
  ShardsPerProc, \* by build: 32 and 8
  MaxShards,     \* by build: 4096 and 1024
  LeastPerShard, \* by build: 256 and 0 entries
  SlotsPerSet,   \* 8
  Line,          \* 64: blocks are allocated at any address, used from a
                 \*   multiple of Line on
  ShardSize, HotSize, ColdSize,    \* sizes of Shard and of the sets
  HighestNode,   \* of the NUMA nodes
  Procs,         \* numbers of processors the system may report
  Totals,        \* capacities callers ask for
  Doublings      \* bound: requests and shard counts are 2^Doublings at most

(* 1 shifted left by k bits, within a word of 64. *)
TwoTo[k \in 0 .. 64] == IF k = 0 THEN 1 ELSE 2 * TwoTo[k - 1]

(* The powers of two that rounding reaches, up to the largest. *)
Scale == TwoTo[Doublings]
PowersOfTwo == {TwoTo[k] : k \in 0 .. Doublings}

(* A word has no larger power of two.  Sizes in bytes are not cut to a word: *)
(* requests for more memory than it can count are not modelled.            *)
ASSUME DoublingsAssumption == Doublings \in 0 .. 63
ASSUME BuildsAssumption == Builds \subseteq {"um", "km"}
ASSUME LineAssumption == Line \in Nat \ {0}
ASSUME SizesAssumption == ShardSize \in Nat /\ HotSize \in Nat /\ ColdSize \in Nat
ASSUME SlotsAssumption == SlotsPerSet \in Nat \ {0}
ASSUME NodesAssumption == HighestNode \in Nat
ASSUME CallsAssumption == Procs \subseteq Nat /\ Totals \subseteq 0 .. Scale
ASSUME ScaleAssumption ==
  \A b \in Builds :
    /\ ShardsPerProc[b] \in Nat \ {0} /\ MaxShards[b] \in Nat \ {0}
    /\ LeastPerShard[b] \in 0 .. Scale
    /\ \A p \in Procs \cup {4} : p * ShardsPerProc[b] <= Scale

(* 256 entries are 32 sets: the lower limit is no reason to round. *)
ASSUME LeastAssumption ==
  \A b \in Builds :
    LeastPerShard[b] = 0 \/ \E p \in PowersOfTwo : LeastPerShard[b] = p * SlotsPerSet

VARIABLES
  build,
  online,      \* the NUMA nodes with memory (um) or processors (km)
  skew,        \* where the allocator's blocks lie relative to lines
  heap,        \* the live blocks: their sizes, by their names
  base,        \* m_shardsBase
  baseSize,    \* m_shardsBaseSize; 0 in km, which has no such field
  usable,      \* m_shards is not null
  shardCount,  \* m_shardCount
  shards,      \* the Shard array
  nodes,       \* km: the array of active nodes, pusActiveNodes
  total,       \* the capacity asked for last
  pc           \* "idle", "base", "nodes", "shard", "finish"

vars == <<build, online, skew, heap, base, baseSize, usable, shardCount,
          shards, nodes, total, pc>>
-----------------------------------------------------------------------------
LeastOf(S) == CHOOSE n \in S : \A m \in S : n <= m
AtLeast(m, n) == IF n < m THEN m ELSE n

Null == 0
Fresh == LeastOf((1 .. Cardinality(DOMAIN heap) + 1) \ DOMAIN heap)

Shard(block, size, sets, node) ==
  [block |-> block, size |-> size, sets |-> sets, node |-> node]
NoShard == Shard(Null, 0, 0, 0)
Indices == 0 .. shardCount - 1

(* std::bit_ceil, and the loops that shift left until they reach n. *)
BitCeil(n) == LeastOf({p \in PowersOfTwo : p >= n})

(* Mutant of CountShards: the cap is left out. *)
CountUncapped(procs) ==
  BitCeil((IF procs = 0 THEN 4 ELSE procs) * ShardsPerProc[build])

(* Mutant of CountShards: the product is not rounded. *)
CountUnrounded(procs) ==
  LET p == IF procs = 0 THEN 4 ELSE procs
      count == p * ShardsPerProc[build]
  IN  IF count > MaxShards[build] THEN MaxShards[build] ELSE count

CountShards(procs) ==
  LET p == IF procs = 0 THEN 4 ELSE procs
      count == BitCeil(p * ShardsPerProc[build])
  IN  IF count > MaxShards[build] THEN MaxShards[build] ELSE count

Share == AtLeast(LeastPerShard[build], total \div shardCount)

(* Mutant of NumSets: km stops one doubling short. *)
NumSetsShort ==
  IF build = "um" THEN BitCeil(Share \div SlotsPerSet)
  ELSE LeastOf({s \in PowersOfTwo : 2 * s * SlotsPerSet >= Share})

(* um divides twice, rounding down, before it rounds up to a power of two; *)
(* km doubles the sets until their slots reach the shard's share.          *)
NumSets ==
  IF build = "um" THEN BitCeil(Share \div SlotsPerSet)
  ELSE LeastOf({s \in PowersOfTwo : s * SlotsPerSet >= Share})

(* Mutant of Padded: no room to align. *)
Unpadded(size) == size
Padded(size) == size + Line - 1

(* From the start of a block to the line its contents start at. *)
Offset == ((skew + Line - 1) \div Line) * Line - skew

SetsSize(sets) == sets * (HotSize + ColdSize)

(* The i-th, from 0, of the nodes online, around and around. *)
NthOnline(i) ==
  CHOOSE n \in online :
    Cardinality({m \in online : m < n}) = i % Cardinality(online)

(* Mutant of TargetNode: the index is taken modulo the highest node. *)
TargetByHighest(i) ==
  IF online = {} THEN 0 ELSE NthOnline(i % (HighestNode + 1))

(* In km the list of the active nodes may be missing, which leaves all      *)
(* nodes, or empty, which leaves the zeroes it was allocated with.          *)
TargetNode(i) ==
  CASE build = "km" /\ nodes = Null -> i % (HighestNode + 1)
    [] build = "km" /\ nodes # Null /\ online = {} -> 0
    [] OTHER -> NthOnline(i)
-----------------------------------------------------------------------------
Machine == <<build, online, skew>>

With(size) ==
  [b \in DOMAIN heap \cup {Fresh} |-> IF b = Fresh THEN size ELSE heap[b]]
Without(names) == [b \in DOMAIN heap \ names |-> heap[b]]

(* The list of GetValidNodes, in um, has node 0 if it has no other. *)
Init ==
  /\ build \in Builds
  /\ online \in SUBSET (0 .. HighestNode)
  /\ build = "um" => online # {}
  /\ skew \in 0 .. Line - 1
  /\ heap = [b \in {} |-> 0]
  /\ base = Null
  /\ baseSize = 0
  /\ usable = FALSE
  /\ shardCount = 0
  /\ shards = [i \in {} |-> NoShard]
  /\ nodes = Null
  /\ total = 0
  /\ pc = "idle"

(* The blocks of the shards allocated so far: what a null check lets by. *)
ShardBlocks ==
  {shards[i].block : i \in {j \in Indices : usable}} \ {Null}

(* Mutant of Release: the array of shards goes, the shards stay. *)
ReleaseBase ==
  /\ heap' = Without({base, nodes})
  /\ base' = Null
  /\ usable' = FALSE
  /\ shards' = [i \in {} |-> NoShard]
  /\ nodes' = Null

(* The memory side of Cleanup; km frees its list of nodes before it. *)
Release ==
  /\ heap' = Without(ShardBlocks \cup {base, nodes})
  /\ base' = Null
  /\ usable' = FALSE
  /\ shards' = [i \in {} |-> NoShard]
  /\ nodes' = Null

(* Only um clears the number of shards and the size of their array. *)
Cleanup ==
  /\ Release
  /\ IF build = "um"
       THEN shardCount' = 0 /\ baseSize' = 0
       ELSE UNCHANGED <<shardCount, baseSize>>
  /\ pc' = "idle"
  /\ UNCHANGED <<Machine, total>>

(* The caller's Cleanup, or the destructor. *)
CallCleanup == pc = "idle" /\ Cleanup

BaseBytes(count) == Padded(count * ShardSize)

Initialize(entries, procs) ==
  /\ pc = "idle"
  /\ Release
  /\ total' = entries
  /\ shardCount' = CountShards(procs)
  /\ baseSize' = IF build = "um" THEN BaseBytes(CountShards(procs)) ELSE 0
  /\ pc' = "base"
  /\ UNCHANGED Machine

AllocateBase ==
  /\ pc = "base"
  /\ heap' = With(BaseBytes(shardCount))
  /\ base' = Fresh
  /\ usable' = TRUE
  /\ shards' = [i \in Indices |-> NoShard]
  /\ pc' = IF build = "km" THEN "nodes" ELSE "shard"
  /\ UNCHANGED <<Machine, baseSize, shardCount, nodes, total>>

(* No memory for the array: FALSE at once, without Cleanup. *)
BaseFails ==
  /\ pc = "base"
  /\ pc' = "idle"
  /\ UNCHANGED <<Machine, heap, base, baseSize, usable, shardCount, shards,
                 nodes, total>>

(* An allocator policy of the caller's own may throw instead. *)
BaseThrows == pc = "base" /\ build = "um" /\ Cleanup

(* The list of nodes is temporary, and Initialize does without if it must. *)
AllocateNodes ==
  /\ pc = "nodes"
  /\ \/ UNCHANGED <<heap, nodes>>
     \/ heap' = With((HighestNode + 1) * 2) /\ nodes' = Fresh
  /\ pc' = "shard"
  /\ UNCHANGED <<Machine, base, baseSize, usable, shardCount, shards, total>>

(* The shards that have their block come first. *)
NextShard == LeastOf({i \in Indices : shards[i].block = Null})
AllAllocated == \A i \in Indices : shards[i].block # Null

AllocateShard ==
  /\ pc = "shard"
  /\ ~AllAllocated
  /\ LET size == Padded(SetsSize(NumSets))
     IN  /\ heap' = With(size)
         /\ shards' = [shards EXCEPT ![NextShard] =
              Shard(Fresh, size, NumSets, TargetNode(NextShard))]
  /\ UNCHANGED <<Machine, base, baseSize, usable, shardCount, nodes, total, pc>>

(* Mutant of ShardFails: FALSE is returned as for the array, unwinding nothing. *)
GiveUp ==
  /\ pc = "shard"
  /\ ~AllAllocated
  /\ heap' = Without({nodes})
  /\ nodes' = Null
  /\ pc' = "idle"
  /\ UNCHANGED <<Machine, base, baseSize, usable, shardCount, shards, total>>

(* No memory for one shard, or an exception: what there is is given back. *)
ShardFails == pc = "shard" /\ ~AllAllocated /\ Cleanup

Finish ==
  /\ pc = "shard"
  /\ AllAllocated
  /\ heap' = Without({nodes})
  /\ nodes' = Null
  /\ pc' = "idle"
  /\ UNCHANGED <<Machine, base, baseSize, usable, shardCount, shards, total>>

Next ==
  \/ \E entries \in Totals, procs \in Procs : Initialize(entries, procs)
  \/ CallCleanup
  \/ AllocateBase \/ BaseFails \/ BaseThrows \/ AllocateNodes
  \/ AllocateShard \/ ShardFails \/ Finish

Spec == Init /\ [][Next]_vars
-----------------------------------------------------------------------------
SumOf(f) == FoldFunction(LAMBDA x, y : x + y, 0, f)

(* Mutant of GetMemoryUsage: the padding of the array is left out. *)
UsageUnpadded ==
  (IF build = "um" THEN baseSize
   ELSE IF base # Null THEN shardCount * ShardSize ELSE 0)
    + (IF usable THEN SumOf([i \in Indices |-> shards[i].size]) ELSE 0)

GetMemoryUsage ==
  (IF build = "um" THEN baseSize
   ELSE IF base # Null THEN BaseBytes(shardCount) ELSE 0)
    + (IF usable THEN SumOf([i \in Indices |-> shards[i].size]) ELSE 0)
-----------------------------------------------------------------------------
(***************************************************************************)
(* Properties.                                                              *)
(***************************************************************************)
(* The type invariant. *)
TypeOK ==
  /\ build \in Builds /\ online \subseteq 0 .. HighestNode /\ skew \in 0 .. Line - 1
  /\ DOMAIN heap \subseteq Nat \ {Null} /\ \A b \in DOMAIN heap : heap[b] \in Nat
  /\ base \in Nat /\ nodes \in Nat /\ baseSize \in Nat /\ usable \in BOOLEAN
  /\ shardCount \in 0 .. MaxShards[build]
  /\ usable => DOMAIN shards = Indices
  /\ pc \in {"idle", "base", "nodes", "shard"}

(* At every moment, failed calls included, each live block is held by one   *)
(* pointer of the cache and each such pointer holds a live block, with the  *)
(* size it will be freed with: nothing leaks, nothing is freed twice.       *)
HeapIsOwned ==
  /\ DOMAIN heap = (ShardBlocks \cup {base, nodes}) \ {Null}
  /\ Cardinality(DOMAIN heap) =
       Cardinality({p \in {base, nodes} : p # Null}) +
       Cardinality({i \in Indices : usable /\ shards[i].block # Null})
  /\ usable => heap[base] = BaseBytes(shardCount)
               /\ (build = "um" => heap[base] = baseSize)
  /\ usable => \A i \in Indices :
       shards[i].block # Null => heap[shards[i].block] = shards[i].size

(* Operations check m_shards only: when a call has ended and it is not null, *)
(* all shards are there, with as many sets as their masks say.              *)
UsableMeansWhole ==
  pc = "idle" /\ usable =>
    \A i \in Indices : shards[i].block # Null /\ shards[i].sets = NumSets

(* GetMemoryUsage tells the bytes allocated.  The one exception is um after *)
(* the array could not be allocated: the size it would have had is told.    *)
UsageIsExact ==
  pc = "idle" /\ (build = "km" \/ usable \/ shardCount = 0)
    => GetMemoryUsage = SumOf(heap)

(* The aligned sets of a shard, and the aligned array of shards, lie within *)
(* their block wherever the allocator puts it.                              *)
ContentsFitTheirBlock ==
  usable =>
    /\ (skew + Offset) % Line = 0
    /\ Offset + shardCount * ShardSize <= heap[base]
    /\ \A i \in Indices : shards[i].block # Null =>
         Offset + SetsSize(shards[i].sets) <= heap[shards[i].block]

(* The shards of a finished cache are spread evenly over the nodes online, *)
(* when the cache knows them.                                              *)
ShardsOn(n) == Cardinality({i \in Indices : shards[i].node = n})
NodesShareEvenly ==
  /\ pc = "shard" /\ AllAllocated
  /\ online # {} /\ (build = "km" => nodes # Null)
  => /\ \A i \in Indices : shards[i].node \in online
     /\ \A m, n \in online : ShardsOn(m) <= ShardsOn(n) + 1

(* What is left of the rounding that Initialize's comment promises: the     *)
(* slots fall short of the request by the entries lost in its divisions at  *)
(* most, less than a set per shard in um and less than an entry per shard   *)
(* in km, and where no lower limit applies they are twice the request at    *)
(* most.                                                                    *)
Capacity == SumOf([i \in Indices |-> shards[i].sets * SlotsPerSet])
CapacityIsClose ==
  pc = "idle" /\ usable =>
    /\ total - Capacity < shardCount * (IF build = "um" THEN SlotsPerSet ELSE 1)
    /\ Capacity <= AtLeast(2 * total,
         shardCount * AtLeast(SlotsPerSet, LeastPerShard[build]))

(* The comment itself: the request is rounded up, so that a cache holds as  *)
(* many entries as were asked for.  It does not hold, in either build; run   *)
(* UmCapacity shows why.                                                    *)
RequestIsRoundedUp == pc = "idle" /\ usable => Capacity >= total
=============================================================================
