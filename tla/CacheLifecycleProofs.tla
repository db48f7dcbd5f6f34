----------------------- MODULE CacheLifecycleProofs -----------------------
(***************************************************************************)
(* What holds of the memory of a cache for every number of processors and   *)
(* nodes, every capacity, all sizes, and wherever the allocator puts a      *)
(* block or fails to give one.                                              *)
(***************************************************************************)
EXTENDS CacheLifecycle, FiniteSetTheorems, WellFoundedInduction, TLAPS

(* A set of naturals has a least one, and LeastOf names it. *)
LEMMA LeastIsThere ==
  ASSUME NEW S \in SUBSET Nat, S # {}
  PROVE  LeastOf(S) \in S /\ \A m \in S : LeastOf(S) <= m
<1> DEFINE Less == {r \in Nat \X Nat : r[1] < r[2]}
<1>1. IsWellFoundedOn(Less, Nat)
  BY NatLessThanWellFounded DEF OpToRel
<1>2. PICK n \in S : \A m \in S : <<m, n>> \notin Less
  <2> HIDE DEF Less
  <2> QED
    BY <1>1, WFMin
<1>3. \A x, y \in Nat : <<x, y>> \notin Less => y <= x
  OBVIOUS
<1>4. \A m \in S : n <= m
  <2> HIDE DEF Less
  <2> QED
    BY <1>2, <1>3
<1> QED
  BY <1>4 DEF LeastOf

(* The allocator's next block is no live one, and not the null pointer. *)
LEMMA FreshIsFree ==
  ASSUME IsFiniteSet(DOMAIN heap), DOMAIN heap \subseteq Nat \ {Null}
  PROVE  Fresh \in Nat \ {Null} /\ Fresh \notin DOMAIN heap
<1> DEFINE n == Cardinality(DOMAIN heap)
           Names == (1 .. n + 1) \ DOMAIN heap
<1>1. n \in Nat
  BY FS_CardinalityType
<1>2. Names # {}
  <2> SUFFICES ASSUME 1 .. n + 1 \subseteq DOMAIN heap PROVE FALSE
    OBVIOUS
  <2>1. Cardinality(1 .. n + 1) <= n
    BY FS_Subset
  <2>2. Cardinality(1 .. n + 1) = n + 1
    BY <1>1, FS_Interval
  <2> QED
    BY <1>1, <2>1, <2>2
<1>3. Names \in SUBSET Nat
  BY <1>1
<1>4. LeastOf(Names) \in Names
  BY <1>2, <1>3, LeastIsThere
<1> QED
  BY <1>1, <1>4 DEF Fresh, Null

(* Induction, for a property of naturals written as a set.                  *)
LEMMA AllNaturals ==
  ASSUME NEW S \in SUBSET Nat, 0 \in S, \A n \in S : n + 1 \in S
  PROVE  S = Nat
<1> SUFFICES ASSUME Nat \ S # {} PROVE FALSE
  OBVIOUS
<1> DEFINE n == LeastOf(Nat \ S)
<1>1. n \in Nat \ S /\ \A m \in Nat \ S : n <= m
  BY LeastIsThere
<1> HIDE DEF n
<1>2. n - 1 \in Nat /\ n - 1 \notin Nat \ S
  BY <1>1
<1>3. n - 1 + 1 \in S
  BY <1>2
<1> QED
  BY <1>1, <1>3

(* TwoTo is defined: a function that doubles from step to step exists. *)
LEMMA DoublingExists ==
  \E f : f = [k \in 0 .. 64 |-> IF k = 0 THEN 1 ELSE 2 * f[k - 1]]
<1> DEFINE D == 0 .. 64
           Body(f, k) == IF k = 0 THEN 1 ELSE 2 * f[k - 1]
           Done(n) == \E f \in [D -> Nat] : \A k \in D : k <= n => f[k] = Body(f, k)
           S == {n \in Nat : Done(n)}
<1>1. 0 \in S
  <2>1. [k \in D |-> 1] \in [D -> Nat]
    OBVIOUS
  <2>2. \A k \in D : k <= 0 => k = 0
    OBVIOUS
  <2>3. \A k \in D : k <= 0 => [i \in D |-> 1][k] = Body([i \in D |-> 1], k)
    BY <2>2
  <2> HIDE DEF D, Body
  <2> QED
    BY <2>1, <2>3
<1>2. ASSUME NEW n \in S PROVE n + 1 \in S
  <2>1. PICK h \in [D -> Nat] : \A k \in D : k <= n => h[k] = Body(h, k)
    OBVIOUS
  <2> DEFINE f == [k \in D |-> Body(h, k)]
  <2>2. \A k \in D : Body(h, k) \in Nat
    <3>1. \A k \in D : k # 0 => k - 1 \in D
      OBVIOUS
    <3> HIDE DEF D
    <3> QED
      BY <3>1
  <2>3. f \in [D -> Nat]
    <3> HIDE DEF D, Body
    <3> QED
      BY <2>2
  <2>4. ASSUME NEW k \in D, k <= n + 1 PROVE f[k] = Body(f, k)
    <3>1. CASE k = 0
      BY <3>1
    <3>2. CASE k # 0
      <4>1. k - 1 \in D /\ k - 1 <= n
        BY <2>4, <3>2
      <4>2. f[k - 1] = h[k - 1]
        <5> HIDE DEF D, Body
        <5> QED
          BY <2>1, <4>1
      <4>3. f[k] = Body(h, k)
        OBVIOUS
      <4> HIDE DEF f, D
      <4> QED
        BY <3>2, <4>2, <4>3
    <3> QED
      BY <3>1, <3>2
  <2>5. Done(n + 1)
    <3> HIDE DEF f, Body, D
    <3> QED
      BY <2>3, <2>4
  <2> HIDE DEF Done
  <2> QED
    BY <2>5
<1>3. S = Nat
  <2> HIDE DEF S
  <2>1. S \in SUBSET Nat
    BY DEF S
  <2> QED
    BY <1>1, <1>2, <2>1, AllNaturals
<1>4. PICK f \in [D -> Nat] : \A k \in D : k <= 64 => f[k] = Body(f, k)
  <2>1. Done(64)
    BY <1>3
  <2> HIDE DEF D, Body
  <2> QED
    BY <2>1
<1>5. \A k \in D : f[k] = Body(f, k)
  <2>1. \A k \in D : k <= 64
    OBVIOUS
  <2> HIDE DEF D, Body
  <2> QED
    BY <1>4, <2>1
<1>6. f = [k \in D |-> Body(f, k)]
  <2> HIDE DEF D, Body
  <2> QED
    BY <1>5
<1> QED
  BY <1>6

(* Each power of two is twice the one before. *)
LEMMA Doubled ==
  /\ TwoTo[0] = 1
  /\ \A k \in 1 .. 64 : TwoTo[k] = 2 * TwoTo[k - 1]
  /\ \A k \in 0 .. 64 : TwoTo[k] \in Nat \ {0}
<1> DEFINE F(f) == f = [k \in 0 .. 64 |-> IF k = 0 THEN 1 ELSE 2 * f[k - 1]]
<1>1. F(TwoTo)
  <2>1. TwoTo = CHOOSE f : F(f)
    BY DEF TwoTo
  <2>2. \E f : F(f)
    BY DoublingExists
  <2> HIDE DEF F
  <2> QED
    BY <2>1, <2>2
<1>2. \A k \in 0 .. 64 : TwoTo[k] = IF k = 0 THEN 1 ELSE 2 * TwoTo[k - 1]
  BY <1>1
<1> HIDE DEF F
<1>3. TwoTo[0] = 1
  BY <1>2
<1>4. \A k \in 1 .. 64 : TwoTo[k] = 2 * TwoTo[k - 1]
  BY <1>2
<1> DEFINE S == {k \in Nat : k <= 64 => TwoTo[k] \in Nat \ {0}}
<1>5. S = Nat
  <2>1. 0 \in S
    BY <1>3
  <2>2. ASSUME NEW k \in S PROVE k + 1 \in S
    <3> SUFFICES ASSUME k + 1 <= 64 PROVE TwoTo[k + 1] \in Nat \ {0}
      OBVIOUS
    <3>1. k + 1 \in 1 .. 64 /\ k + 1 - 1 = k /\ TwoTo[k] \in Nat \ {0}
      OBVIOUS
    <3>2. TwoTo[k + 1] = 2 * TwoTo[k]
      BY <1>4, <3>1
    <3> QED
      BY <3>1, <3>2
  <2> HIDE DEF S
  <2>3. S \in SUBSET Nat
    BY DEF S
  <2> QED
    BY <2>1, <2>2, <2>3, AllNaturals
<1>6. \A k \in 0 .. 64 : TwoTo[k] \in Nat \ {0}
  BY <1>5
<1> QED
  BY <1>3, <1>4, <1>6

(* The bound of the rounding is a number. *)
LEMMA ScaleIsNatural == Scale \in Nat
BY Doubled, DoublingsAssumption DEF Scale

(* The powers rounding chooses from: each is 1 or twice another. *)
LEMMA Powers ==
  /\ PowersOfTwo \subseteq Nat \ {0}
  /\ 1 \in PowersOfTwo /\ Scale \in PowersOfTwo
  /\ \A p \in PowersOfTwo : p # 1 => \E q \in PowersOfTwo : p = 2 * q
<1>1. /\ TwoTo[0] = 1
      /\ \A k \in 0 .. Doublings : TwoTo[k] \in Nat \ {0}
      /\ \A k \in 1 .. Doublings : TwoTo[k] = 2 * TwoTo[k - 1]
  <2>1. 0 .. Doublings \subseteq 0 .. 64 /\ 1 .. Doublings \subseteq 1 .. 64
    BY DoublingsAssumption
  <2> QED
    BY <2>1, Doubled
<1>2. PowersOfTwo = {TwoTo[k] : k \in 0 .. Doublings} /\ Scale = TwoTo[Doublings]
  BY DEF PowersOfTwo, Scale
<1>3. /\ 0 \in 0 .. Doublings /\ Doublings \in 0 .. Doublings
      /\ \A k \in 0 .. Doublings : k # 0 => k \in 1 .. Doublings /\ k - 1 \in 0 .. Doublings
  BY DoublingsAssumption
<1>4. ASSUME NEW p \in PowersOfTwo, p # 1 PROVE \E q \in PowersOfTwo : p = 2 * q
  <2>1. PICK k \in 0 .. Doublings : p = TwoTo[k]
    BY <1>2
  <2>2. k \in 1 .. Doublings /\ k - 1 \in 0 .. Doublings
    BY <1>1, <1>3, <1>4, <2>1
  <2> QED
    BY <1>1, <1>2, <2>1, <2>2
<1>5. PowersOfTwo \subseteq Nat \ {0}
  BY <1>1, <1>2
<1> QED
  BY <1>1, <1>2, <1>3, <1>4, <1>5

(* bit_ceil, where the scale of the model reaches. *)
LEMMA CeilIsAbove ==
  ASSUME NEW n \in 0 .. Scale
  PROVE  BitCeil(n) \in Nat /\ BitCeil(n) >= n
<1> DEFINE S == {p \in PowersOfTwo : p >= n}
<1>2. S \in SUBSET Nat
  BY Powers
<1>3. Scale \in S
  BY Powers, ScaleIsNatural
<1>4. LeastOf(S) \in S
  BY <1>2, <1>3, LeastIsThere
<1> QED
  BY <1>2, <1>4 DEF BitCeil

(* A cache has at least one shard, and no more than the cap. *)
LEMMA CountIsPositive ==
  ASSUME build \in Builds, NEW procs \in Procs
  PROVE  CountShards(procs) \in 1 .. MaxShards[build]
<1> DEFINE p == IF procs = 0 THEN 4 ELSE procs
           n == p * ShardsPerProc[build]
<1>1. p \in Nat \ {0} /\ p \in Procs \cup {4}
  <2>1. procs \in Nat
    BY CallsAssumption
  <2> QED
    BY <2>1
<1>2. ShardsPerProc[build] \in Nat \ {0} /\ MaxShards[build] \in Nat \ {0} /\ n <= Scale
  BY <1>1, ScaleAssumption
<1>3. n \in Nat \ {0}
  BY <1>1, <1>2
<1>4. BitCeil(n) \in Nat /\ BitCeil(n) >= n
  BY <1>2, <1>3, CeilIsAbove
<1> QED
  BY <1>2, <1>3, <1>4 DEF CountShards

(* A shard gets a number of sets. *)
LEMMA SetsAreCounted ==
  ASSUME build \in Builds, total \in 0 .. Scale, shardCount \in Nat \ {0}
  PROVE  NumSets \in Nat
<1>1. total \div shardCount \in Nat /\ total \div shardCount <= total
  BY ScaleIsNatural
<1>2. Share \in 0 .. Scale
  BY <1>1, ScaleAssumption, ScaleIsNatural DEF Share, AtLeast
<1>3. CASE build = "um"
  <2>1. Share \div SlotsPerSet \in Nat /\ Share \div SlotsPerSet <= Share
    BY <1>2, SlotsAssumption
  <2>2. Share \div SlotsPerSet \in 0 .. Scale
    BY <1>2, <2>1, ScaleIsNatural
  <2> QED
    BY <1>3, <2>2, CeilIsAbove DEF NumSets
<1>4. CASE build # "um"
  <2> DEFINE S == {s \in PowersOfTwo : s * SlotsPerSet >= Share}
  <2>3. Scale * SlotsPerSet >= Share
    BY <1>2, ScaleIsNatural, SlotsAssumption
  <2>4. S \in SUBSET Nat /\ Scale \in S
    BY <2>3, Powers
  <2>5. LeastOf(S) \in S
    BY <2>4, LeastIsThere
  <2> QED
    BY <1>4, <2>4, <2>5 DEF NumSets
<1> QED
  BY <1>3, <1>4
-----------------------------------------------------------------------------
(***************************************************************************)
(* The inductive invariant.  That the heap is owned is not inductive: that  *)
(* a new block adds one owner needs the pointers to be different, and that  *)
(* Initialize loses no block needs the phases to say which pointers are     *)
(* set.                                                                     *)
(***************************************************************************)
(* Where Initialize is says which pointers are set. *)
Phased ==
  /\ usable <=> base # Null
  /\ pc \in {"nodes", "shard"} => usable
  /\ pc = "base" => ~usable
  /\ pc # "shard" => nodes = Null
  /\ pc = "idle" /\ usable => AllAllocated

(* The numbers a shard's size is computed from. *)
Scaled ==
  /\ total \in 0 .. Scale
  /\ pc # "idle" => shardCount # 0
  /\ build = "um" /\ (usable \/ pc = "base") => baseSize = BaseBytes(shardCount)

(* Different pointers hold different blocks. *)
Distinct ==
  /\ nodes # Null => nodes # base
  /\ usable => \A i \in Indices :
       /\ shards[i].block \in Nat
       /\ shards[i].block # Null =>
            /\ shards[i].block \notin {base, nodes}
            /\ \A j \in Indices : shards[j].block = shards[i].block => j = i

(* A shard is as large as all the others. *)
Even ==
  usable => \A i \in Indices : shards[i].block # Null =>
    shards[i].sets = NumSets /\ shards[i].size = Padded(SetsSize(NumSets))

Owned ==
  TypeOK /\ IsFiniteSet(DOMAIN heap) /\ Phased /\ Scaled /\ Distinct /\ Even /\ HeapIsOwned

Held == {i \in Indices : usable /\ shards[i].block # Null}
Bases == {p \in {base, nodes} : p # Null}

(* HeapIsOwned, with its sets by their names, and in one list. *)
HeapByName ==
  /\ DOMAIN heap = {shards[i].block : i \in Held} \cup Bases
  /\ Cardinality(DOMAIN heap) = Cardinality(Bases) + Cardinality(Held)
  /\ usable => heap[base] = BaseBytes(shardCount)
               /\ (build = "um" => heap[base] = baseSize)
  /\ usable => \A i \in Indices :
       shards[i].block # Null => heap[shards[i].block] = shards[i].size

(* HeapByName is HeapIsOwned. *)
LEMMA OwnedHeap == (HeapIsOwned <=> HeapByName) /\ (HeapIsOwned' <=> HeapByName')
<1>1. (ShardBlocks \cup {base, nodes}) \ {Null} = {shards[i].block : i \in Held} \cup Bases
  BY DEF ShardBlocks, Held, Bases
<1>2. ((ShardBlocks \cup {base, nodes}) \ {Null} = {shards[i].block : i \in Held} \cup Bases)'
  BY DEF ShardBlocks, Held, Bases
<1> QED
  BY <1>1, <1>2 DEF HeapIsOwned, HeapByName, Held, Bases

(* The sets a counting needs are finite. *)
LEMMA HeldIsFinite ==
  ASSUME TypeOK
  PROVE  IsFiniteSet(Held) /\ IsFiniteSet(Bases)
<1>1. shardCount \in Int /\ IsFiniteSet(Indices)
  BY FS_Interval DEF TypeOK, Indices
<1>2. IsFiniteSet({base, nodes})
  <2>1. IsFiniteSet({base}) /\ {base, nodes} = {base} \cup {nodes}
    BY FS_Singleton
  <2> QED
    BY <2>1, FS_AddElement
<1>3. Held \in SUBSET Indices /\ Bases \in SUBSET {base, nodes}
  BY DEF Held, Bases
<1> QED
  BY <1>1, <1>2, <1>3, FS_Subset

(* The number of sets depends on what was asked for alone. *)
LEMMA SetsStay ==
  ASSUME UNCHANGED <<build, total, shardCount>>
  PROVE  NumSets' = NumSets
BY DEF NumSets, Share, AtLeast, BitCeil, LeastOf

(* The sizes of what is allocated. *)
LEMMA SizesAreNatural ==
  /\ \A n \in Nat : Padded(n) \in Nat /\ Padded(n) = n + Line - 1
  /\ \A n \in Nat : n * ShardSize \in Nat /\ BaseBytes(n) \in Nat
  /\ \A n \in Nat : SetsSize(n) \in Nat
<1>1. \A n \in Nat : Padded(n) \in Nat /\ Padded(n) = n + Line - 1
  BY LineAssumption DEF Padded
<1>2. \A n \in Nat, s \in Nat : n * s \in Nat
  OBVIOUS
<1>3. ShardSize \in Nat /\ HotSize + ColdSize \in Nat
  BY SizesAssumption
<1> QED
  BY <1>1, <1>2, <1>3 DEF BaseBytes, SetsSize

(* A cache without memory owns its heap. *)
LEMMA NothingIsOwned ==
  ASSUME DOMAIN heap' = {}, base' = Null, nodes' = Null, ~usable', pc' \in {"idle", "base"}
  PROVE  IsFiniteSet(DOMAIN heap') /\ Phased' /\ Distinct' /\ Even' /\ HeapIsOwned'
<1>1. Held' = {} /\ Bases' = {}
  BY DEF Held, Bases
<1>2. IsFiniteSet({}) /\ Cardinality({}) = 0
  BY FS_EmptySet
<1>3. HeapByName'
  BY <1>1, <1>2 DEF HeapByName
<1> QED
  BY <1>2, <1>3, OwnedHeap DEF Phased, Distinct, Even

(* Release leaves nothing. *)
LEMMA ReleaseEmpties ==
  ASSUME Owned, Release
  PROVE  DOMAIN heap' = {} /\ base' = Null /\ nodes' = Null /\ usable' = FALSE
BY DEF Owned, HeapIsOwned, Release, Without
-----------------------------------------------------------------------------
(***************************************************************************)
(* Each step keeps the heap owned.                                          *)
(***************************************************************************)
(* Initialize frees what an earlier one left. *)
LEMMA InitializeOwns ==
  ASSUME Owned, NEW entries \in Totals, NEW procs \in Procs, Initialize(entries, procs)
  PROVE  Owned'
<1>1. /\ DOMAIN heap' = {} /\ base' = Null /\ nodes' = Null /\ usable' = FALSE /\ pc' = "base"
  BY ReleaseEmpties DEF Initialize
<1>2. CountShards(procs) \in 1 .. MaxShards[build] /\ MaxShards[build] \in Nat
  BY CountIsPositive, ScaleAssumption DEF Owned, TypeOK
<1>3. BaseBytes(CountShards(procs)) \in Nat
  BY <1>2, SizesAreNatural
<1>4. TypeOK'
  <2>1. build' \in Builds /\ online' \subseteq 0 .. HighestNode /\ skew' \in 0 .. Line - 1
    BY DEF Owned, TypeOK, Initialize, Machine
  <2>2. DOMAIN heap' \subseteq Nat \ {Null} /\ \A b \in DOMAIN heap' : heap'[b] \in Nat
    BY <1>1
  <2>3. baseSize' \in Nat /\ base' \in Nat /\ nodes' \in Nat /\ usable' \in BOOLEAN
    BY <1>1, <1>3 DEF Initialize, Null
  <2>4. shardCount' \in 0 .. MaxShards[build']
    BY <1>2 DEF Initialize, Machine
  <2> QED
    BY <1>1, <2>1, <2>2, <2>3, <2>4 DEF TypeOK
<1>5. Scaled'
  BY <1>1, <1>2, CallsAssumption DEF Scaled, Initialize, Machine, BaseBytes, Padded
<1> QED
  BY <1>1, <1>4, <1>5, NothingIsOwned DEF Owned

(* The caller's Cleanup, and those after a failure. *)
LEMMA CleanupOwns ==
  ASSUME Owned, Cleanup
  PROVE  Owned'
<1>1. /\ DOMAIN heap' = {} /\ base' = Null /\ nodes' = Null /\ usable' = FALSE /\ pc' = "idle"
  BY ReleaseEmpties DEF Cleanup
<1>2. MaxShards[build] \in Nat
  BY ScaleAssumption DEF Owned, TypeOK
<1>3. TypeOK'
  <2>1. build' \in Builds /\ online' \subseteq 0 .. HighestNode /\ skew' \in 0 .. Line - 1
    BY DEF Owned, TypeOK, Cleanup, Machine
  <2>2. DOMAIN heap' \subseteq Nat \ {Null} /\ \A b \in DOMAIN heap' : heap'[b] \in Nat
    BY <1>1
  <2>3. baseSize' \in Nat /\ base' \in Nat /\ nodes' \in Nat /\ usable' \in BOOLEAN
    <3>1. baseSize' \in {0, baseSize} /\ baseSize \in Nat
      BY DEF Cleanup, Owned, TypeOK
    <3>2. baseSize' \in Nat
      BY <3>1
    <3>3. base' \in Nat /\ nodes' \in Nat /\ usable' \in BOOLEAN
      BY <1>1 DEF Null
    <3> QED
      BY <3>2, <3>3
  <2>4. shardCount' \in 0 .. MaxShards[build']
    BY <1>2 DEF Cleanup, Machine, Owned, TypeOK
  <2> QED
    BY <1>1, <2>1, <2>2, <2>3, <2>4 DEF TypeOK
<1>4. Scaled'
  BY <1>1 DEF Owned, Scaled, Cleanup, Machine
<1> QED
  BY <1>1, <1>3, <1>4, NothingIsOwned DEF Owned

(* Initialize without an array of shards. *)
LEMMA BaseFailsOwns ==
  ASSUME Owned, BaseFails
  PROVE  Owned'
<1>1. ~usable /\ base = Null /\ nodes = Null
  BY DEF Owned, Phased, BaseFails
<1>2. Held = {} /\ Bases = {}
  BY <1>1 DEF Held, Bases
<1>3. DOMAIN heap = {}
  BY <1>2, OwnedHeap DEF Owned, HeapByName
<1>4. TypeOK' /\ Scaled'
  BY <1>1 DEF Owned, TypeOK, Scaled, BaseFails, Machine, Indices, BaseBytes, Padded
<1> QED
  BY <1>1, <1>3, <1>4, NothingIsOwned DEF Owned, BaseFails

(* A new block, and one pointer more that holds one. *)
LEMMA HeapGrows ==
  ASSUME Owned, NEW size \in Nat, heap' = With(size)
  PROVE  /\ Fresh \in Nat \ {Null} /\ Fresh \notin DOMAIN heap
         /\ DOMAIN heap' = DOMAIN heap \cup {Fresh}
         /\ DOMAIN heap' \subseteq Nat \ {Null}
         /\ \A b \in DOMAIN heap : heap'[b] = heap[b]
         /\ \A b \in DOMAIN heap' : heap'[b] \in Nat
         /\ heap'[Fresh] = size
         /\ IsFiniteSet(DOMAIN heap')
         /\ Cardinality(DOMAIN heap') = Cardinality(DOMAIN heap) + 1
<1>1. Fresh \in Nat \ {Null} /\ Fresh \notin DOMAIN heap
  BY FreshIsFree DEF Owned, TypeOK
<1>2. DOMAIN heap' = DOMAIN heap \cup {Fresh}
  BY DEF With
<1>3. \A b \in DOMAIN heap' : heap'[b] = IF b = Fresh THEN size ELSE heap[b]
  BY DEF With
<1>4. /\ IsFiniteSet(DOMAIN heap')
      /\ Cardinality(DOMAIN heap') = Cardinality(DOMAIN heap) + 1
  BY <1>1, <1>2, FS_AddElement DEF Owned
<1> QED
  BY <1>1, <1>2, <1>3, <1>4 DEF Owned, TypeOK

(* The array comes, with no shard in it. *)
LEMMA AllocateBaseOwns ==
  ASSUME Owned, AllocateBase
  PROVE  Owned'
<1>1. ~usable /\ base = Null /\ nodes = Null /\ usable' /\ nodes' = Null
  BY DEF Owned, Phased, AllocateBase
<1>2. shardCount \in Nat /\ shardCount # 0 /\ BaseBytes(shardCount) \in Nat
  BY SizesAreNatural DEF Owned, TypeOK, Scaled, AllocateBase
<1>3. Held = {} /\ Bases = {}
  BY <1>1 DEF Held, Bases
<1>4. DOMAIN heap = {} /\ Cardinality(DOMAIN heap) = 0
  BY <1>3, OwnedHeap, FS_EmptySet DEF Owned, HeapByName
<1>5. heap' = With(BaseBytes(shardCount)) /\ base' = Fresh
  BY DEF AllocateBase
<1>6. /\ Fresh \in Nat \ {Null} /\ DOMAIN heap' = {Fresh} /\ IsFiniteSet(DOMAIN heap')
      /\ Cardinality(DOMAIN heap') = 1 /\ heap'[Fresh] = BaseBytes(shardCount)
  <2>1. /\ Fresh \in Nat \ {Null} /\ DOMAIN heap' = DOMAIN heap \cup {Fresh}
        /\ IsFiniteSet(DOMAIN heap') /\ heap'[Fresh] = BaseBytes(shardCount)
        /\ Cardinality(DOMAIN heap') = Cardinality(DOMAIN heap) + 1
    BY <1>2, <1>5, HeapGrows
  <2> QED
    BY <1>4, <2>1
<1>7. Indices' = Indices /\ DOMAIN shards' = Indices /\ \A i \in Indices : shards'[i].block = Null
  BY DEF AllocateBase, Indices, NoShard, Shard
<1>8. Held' = {} /\ Bases' = {Fresh} /\ Cardinality(Bases') = 1 /\ Cardinality({}) = 0
  BY <1>1, <1>5, <1>6, <1>7, FS_Singleton, FS_EmptySet DEF Held, Bases
<1>9. TypeOK'
  BY <1>1, <1>2, <1>5, <1>6, <1>7 DEF Owned, TypeOK, AllocateBase, Machine
<1>10. Scaled' /\ BaseBytes(shardCount)' = BaseBytes(shardCount)
  BY <1>1, <1>2 DEF Owned, Scaled, AllocateBase, Machine, BaseBytes, Padded
<1>11. Phased'
  BY <1>1, <1>5, <1>6 DEF Phased, AllocateBase
<1>12. Distinct' /\ Even'
  BY <1>1, <1>7 DEF Distinct, Even, Null
<1>13. build' = "um" => baseSize' = BaseBytes(shardCount)
  BY DEF Owned, Scaled, AllocateBase, Machine
<1>14. HeapByName'
  BY <1>5, <1>6, <1>7, <1>8, <1>10, <1>13 DEF HeapByName
<1> QED
  BY <1>6, <1>9, <1>10, <1>11, <1>12, <1>14, OwnedHeap DEF Owned
(* The list of nodes comes, or does not. *)
LEMMA AllocateNodesOwns ==
  ASSUME Owned, AllocateNodes
  PROVE  Owned'
<1> DEFINE Bytes == (HighestNode + 1) * 2
<1>1. usable /\ nodes = Null /\ base # Null /\ base \in DOMAIN heap
  <2>1. usable /\ nodes = Null /\ base # Null
    BY DEF Owned, Phased, AllocateNodes
  <2> QED
    BY <2>1 DEF Owned, HeapIsOwned
<1>2. /\ UNCHANGED <<build, online, skew, base, baseSize, usable, shardCount, shards, total>>
      /\ pc = "nodes" /\ pc' = "shard" /\ NumSets' = NumSets
  BY SetsStay DEF AllocateNodes, Machine
<1>3. Indices' = Indices /\ Held' = Held
  BY <1>2 DEF Indices, Held
<1>4. Phased' /\ Scaled' /\ Even'
  BY <1>1, <1>2, <1>3 DEF Owned, Phased, Scaled, Even, BaseBytes, Padded, SetsSize
<1>5. CASE UNCHANGED <<heap, nodes>>
  BY <1>2, <1>3, <1>4, <1>5
  DEF Owned, TypeOK, Distinct, HeapIsOwned, ShardBlocks, BaseBytes, Padded
<1>6. CASE heap' = With(Bytes) /\ nodes' = Fresh
  <2>1. Bytes \in Nat
    BY NodesAssumption
  <2>2. /\ Fresh \in Nat \ {Null} /\ Fresh \notin DOMAIN heap
        /\ DOMAIN heap' = DOMAIN heap \cup {Fresh} /\ DOMAIN heap' \subseteq Nat \ {Null}
        /\ \A b \in DOMAIN heap : heap'[b] = heap[b]
        /\ \A b \in DOMAIN heap' : heap'[b] \in Nat
        /\ IsFiniteSet(DOMAIN heap')
        /\ Cardinality(DOMAIN heap') = Cardinality(DOMAIN heap) + 1
    BY <1>6, <2>1, HeapGrows
  <2>3. TypeOK'
    BY <1>2, <1>3, <1>6, <2>2 DEF Owned, TypeOK
  <2>4. \A i \in Indices : shards[i].block # Null => shards[i].block \in DOMAIN heap
    BY <1>1, OwnedHeap DEF Owned, HeapByName, Held
  <2>5. Distinct'
    BY <1>1, <1>2, <1>3, <1>6, <2>2, <2>4 DEF Owned, Distinct
  <2>6. Bases = {base} /\ Bases' = {base} \cup {Fresh} /\ Fresh # base
    BY <1>1, <1>2, <1>6, <2>2 DEF Bases
  <2>7. Cardinality(Bases') = Cardinality(Bases) + 1
    BY <2>6, FS_Singleton, FS_AddElement
  <2>8. Cardinality(Bases) \in Nat /\ Cardinality(Held) \in Nat
    BY HeldIsFinite, FS_CardinalityType DEF Owned
  <2>9. DOMAIN heap' = {shards[i].block : i \in Held}' \cup Bases'
    BY <1>2, <1>3, <2>2, <2>6, OwnedHeap DEF Owned, HeapByName
  <2>10. Cardinality(DOMAIN heap') = Cardinality(Bases') + Cardinality(Held')
    BY <1>3, <2>2, <2>7, <2>8, OwnedHeap DEF Owned, HeapByName
  <2>11. /\ heap'[base] = heap[base]
         /\ \A i \in Indices : shards[i].block # Null =>
              heap'[shards[i].block] = heap[shards[i].block]
    BY <1>1, <2>2, <2>4
  <2>12. HeapByName'
    BY <1>2, <1>3, <2>9, <2>10, <2>11, OwnedHeap
    DEF Owned, HeapByName, BaseBytes, Padded
  <2> QED
    BY <1>4, <2>2, <2>3, <2>5, <2>12, OwnedHeap DEF Owned
<1> QED
  BY <1>5, <1>6 DEF AllocateNodes

(* The next shard gets its block. *)
LEMMA AllocateShardOwns ==
  ASSUME Owned, AllocateShard
  PROVE  Owned'
<1> DEFINE n == NextShard
           Size == Padded(SetsSize(NumSets))
<1>1. /\ usable /\ base # Null /\ pc = "shard" /\ pc' = "shard"
      /\ UNCHANGED <<build, online, skew, base, baseSize, usable, shardCount, nodes, total>>
      /\ NumSets' = NumSets
  BY SetsStay DEF Owned, Phased, AllocateShard, Machine
<1>2. shardCount \in Nat \ {0} /\ Indices' = Indices /\ DOMAIN shards = Indices
  BY <1>1 DEF Owned, TypeOK, Scaled, Indices
<1>3. n \in Indices /\ shards[n].block = Null
  <2> DEFINE S == {i \in Indices : shards[i].block = Null}
  <2>1. S \in SUBSET Nat /\ S # {}
    BY <1>2 DEF Indices, AllocateShard, AllAllocated
  <2>2. LeastOf(S) \in S
    BY <2>1, LeastIsThere
  <2> QED
    BY <2>2 DEF NextShard
<1>4. NumSets \in Nat /\ Size \in Nat
  BY <1>2, SetsAreCounted, SizesAreNatural DEF Owned, TypeOK, Scaled
<1>5. heap' = With(Size)
      /\ shards' = [shards EXCEPT ![n] = Shard(Fresh, Size, NumSets, TargetNode(n))]
  BY DEF AllocateShard
<1>6. /\ Fresh \in Nat \ {Null} /\ Fresh \notin DOMAIN heap
      /\ DOMAIN heap' = DOMAIN heap \cup {Fresh} /\ DOMAIN heap' \subseteq Nat \ {Null}
      /\ \A b \in DOMAIN heap : heap'[b] = heap[b]
      /\ \A b \in DOMAIN heap' : heap'[b] \in Nat
      /\ heap'[Fresh] = Size
      /\ IsFiniteSet(DOMAIN heap')
      /\ Cardinality(DOMAIN heap') = Cardinality(DOMAIN heap) + 1
  <2> HIDE DEF Size
  <2> QED
    BY <1>4, <1>5, HeapGrows
<1>7. /\ DOMAIN shards' = Indices
      /\ shards'[n].block = Fresh /\ shards'[n].sets = NumSets /\ shards'[n].size = Size
      /\ \A i \in Indices \ {n} : shards'[i] = shards[i]
  BY <1>2, <1>3, <1>5 DEF Shard
<1> HIDE DEF n, Size
<1>8. \A i \in Indices : shards[i].block # Null => shards[i].block \in DOMAIN heap
  BY <1>1, OwnedHeap DEF Owned, HeapByName, Held
<1>9. Fresh \notin {base, nodes}
  BY <1>1, <1>6, OwnedHeap DEF Owned, HeapByName, Bases
<1>10. TypeOK'
  BY <1>1, <1>2, <1>6, <1>7 DEF Owned, TypeOK
<1>11. Phased' /\ Scaled'
  BY <1>1, <1>2 DEF Owned, Phased, Scaled, BaseBytes, Padded
<1>12. Distinct'
  <2> SUFFICES ASSUME NEW i \in Indices
               PROVE  /\ shards'[i].block \in Nat
                      /\ shards'[i].block # Null =>
                           /\ shards'[i].block \notin {base, nodes}
                           /\ \A j \in Indices : shards'[j].block = shards'[i].block => j = i
    BY <1>1, <1>2 DEF Owned, Distinct
  <2>1. CASE i = n
    BY <1>6, <1>7, <1>8, <1>9, <2>1
  <2>2. CASE i # n
    BY <1>1, <1>6, <1>7, <1>8, <2>2 DEF Owned, Distinct
  <2> QED
    BY <2>1, <2>2
<1>13. Even'
  <2>1. Padded(SetsSize(NumSets))' = Size
    BY <1>1 DEF Size, Padded, SetsSize
  <2> QED
    BY <1>1, <1>2, <1>7, <2>1 DEF Owned, Even, Size
<1>14. Held' = Held \cup {n} /\ n \notin Held /\ Bases' = Bases
  BY <1>1, <1>2, <1>3, <1>6, <1>7 DEF Held, Bases
<1>15. /\ Cardinality(Held') = Cardinality(Held) + 1
       /\ Cardinality(Bases) \in Nat /\ Cardinality(Held) \in Nat
  BY <1>14, HeldIsFinite, FS_CardinalityType, FS_AddElement DEF Owned
<1>16. Cardinality(DOMAIN heap') = Cardinality(Bases') + Cardinality(Held')
  BY <1>6, <1>14, <1>15, OwnedHeap DEF Owned, HeapByName
<1>17. {shards[i].block : i \in Held}' = {shards[i].block : i \in Held} \cup {Fresh}
  <2>1. \A i \in Held : i \in Indices \ {n}
    BY <1>14 DEF Held
  <2> QED
    BY <1>7, <1>14, <2>1
<1>18. /\ heap'[base] = heap[base]
       /\ \A i \in Indices : shards'[i].block # Null =>
            heap'[shards'[i].block] = shards'[i].size
  <2>1. base \in DOMAIN heap
    BY <1>1, OwnedHeap DEF Owned, HeapByName, Bases
  <2>2. ASSUME NEW i \in Indices, shards'[i].block # Null
        PROVE  heap'[shards'[i].block] = shards'[i].size
    <3>1. CASE i = n
      BY <1>6, <1>7, <3>1
    <3>2. CASE i # n
      BY <1>1, <1>6, <1>7, <1>8, <2>2, <3>2, OwnedHeap DEF Owned, HeapByName
    <3> QED
      BY <3>1, <3>2
  <2> QED
    BY <1>6, <2>1, <2>2
<1>19. HeapByName'
  BY <1>1, <1>2, <1>6, <1>14, <1>16, <1>17, <1>18, OwnedHeap
  DEF Owned, HeapByName, BaseBytes, Padded
<1> QED
  BY <1>6, <1>10, <1>11, <1>12, <1>13, <1>19, OwnedHeap DEF Owned

(* The list of nodes goes, and the cache is complete. *)
LEMMA FinishOwns ==
  ASSUME Owned, Finish
  PROVE  Owned'
<1>1. /\ usable /\ base # Null /\ pc = "shard" /\ pc' = "idle" /\ AllAllocated
      /\ UNCHANGED <<build, online, skew, base, baseSize, usable, shardCount, shards, total>>
      /\ NumSets' = NumSets /\ nodes' = Null
  BY SetsStay DEF Owned, Phased, Finish, Machine
<1>2. /\ DOMAIN heap' = DOMAIN heap \ {nodes}
      /\ \A b \in DOMAIN heap' : heap'[b] = heap[b]
  BY DEF Finish, Without
<1>3. Indices' = Indices /\ Held' = Held
  BY <1>1 DEF Indices, Held
<1>4. TypeOK'
  BY <1>1, <1>2, <1>3 DEF Owned, TypeOK, Null
<1>5. Phased' /\ Scaled' /\ Even' /\ Distinct'
  BY <1>1, <1>3
  DEF Owned, Phased, Scaled, Even, Distinct, AllAllocated, BaseBytes, Padded, SetsSize
<1>6. /\ IsFiniteSet(DOMAIN heap')
      /\ Cardinality(DOMAIN heap') =
           IF nodes \in DOMAIN heap THEN Cardinality(DOMAIN heap) - 1 ELSE Cardinality(DOMAIN heap)
  BY <1>2, FS_RemoveElement DEF Owned
<1>7. Bases' = Bases \ {nodes} /\ IsFiniteSet(Bases) /\ (nodes # Null <=> nodes \in Bases)
  BY <1>1, HeldIsFinite DEF Owned, Distinct, Bases
<1>8. Cardinality(Bases') =
        IF nodes \in Bases THEN Cardinality(Bases) - 1 ELSE Cardinality(Bases)
  BY <1>7, FS_RemoveElement
<1>9. Cardinality(Bases) \in Nat /\ Cardinality(Held) \in Nat
  BY HeldIsFinite, FS_CardinalityType DEF Owned
<1>10. nodes \in DOMAIN heap <=> nodes \in Bases
  BY <1>7, OwnedHeap DEF Owned, HeapByName, TypeOK
<1>11. Cardinality(DOMAIN heap') = Cardinality(Bases') + Cardinality(Held')
  BY <1>3, <1>6, <1>8, <1>9, <1>10, OwnedHeap DEF Owned, HeapByName
<1>12. \A i \in Held : shards[i].block # nodes /\ shards[i].block \in DOMAIN heap
  BY OwnedHeap DEF Owned, HeapByName, Distinct, Held
<1>13. DOMAIN heap' = {shards[i].block : i \in Held}' \cup Bases'
  BY <1>1, <1>2, <1>3, <1>7, <1>12, OwnedHeap DEF Owned, HeapByName
<1>14. base \in DOMAIN heap'
  BY <1>1, <1>13 DEF Bases
<1>15. \A i \in Indices : shards[i].block # Null =>
         heap'[shards[i].block] = heap[shards[i].block]
  BY <1>1, <1>2, <1>12 DEF Held
<1>16. HeapByName'
  BY <1>1, <1>2, <1>3, <1>11, <1>13, <1>14, <1>15, OwnedHeap
  DEF Owned, HeapByName, BaseBytes, Padded
<1> QED
  BY <1>4, <1>5, <1>6, <1>16, OwnedHeap DEF Owned

(* A cache that does nothing keeps what it has. *)
LEMMA StutterOwns ==
  ASSUME Owned, UNCHANGED vars
  PROVE  Owned'
<1>1. NumSets' = NumSets /\ Indices' = Indices
  BY SetsStay DEF vars, Indices
<1>2. BaseBytes(shardCount)' = BaseBytes(shardCount) /\ Padded(SetsSize(NumSets))' = Padded(SetsSize(NumSets))
  BY <1>1 DEF vars, BaseBytes, Padded, SetsSize
<1>3. TypeOK' /\ Phased' /\ Scaled' /\ Distinct' /\ Even'
  BY <1>1, <1>2 DEF vars, Owned, TypeOK, Phased, Scaled, Distinct, Even, AllAllocated
<1>4. HeapIsOwned'
  BY <1>1, <1>2 DEF vars, Owned, HeapIsOwned, ShardBlocks
<1> QED
  BY <1>3, <1>4 DEF vars, Owned
-----------------------------------------------------------------------------
(* Owned is inductive. *)
LEMMA OwnedInvariant ==
  /\ Init => Owned
  /\ Owned /\ [Next]_vars => Owned'
<1>1. ASSUME Init PROVE Owned
  <2>1. build \in Builds /\ MaxShards[build] \in Nat
    BY <1>1, ScaleAssumption DEF Init
  <2>2. DOMAIN heap = {} /\ Held = {} /\ Bases = {} /\ ~usable
    BY <1>1 DEF Init, Held, Bases
  <2>3. IsFiniteSet({}) /\ Cardinality({}) = 0
    BY FS_EmptySet
  <2>4. HeapByName
    BY <2>2, <2>3 DEF HeapByName
  <2>5. TypeOK
    <3>1. DOMAIN heap \subseteq Nat \ {Null} /\ \A b \in DOMAIN heap : heap[b] \in Nat
      BY <2>2
    <3>2. /\ base \in Nat /\ nodes \in Nat /\ baseSize \in Nat /\ usable \in BOOLEAN
          /\ shardCount \in 0 .. MaxShards[build]
      <4>1. base = 0 /\ nodes = 0 /\ baseSize = 0 /\ shardCount = 0
        BY <1>1 DEF Init, Null
      <4>2. usable \in BOOLEAN
        BY <1>1 DEF Init
      <4>3. shardCount \in 0 .. MaxShards[build]
        BY <2>1, <4>1
      <4> QED
        BY <4>1, <4>2, <4>3
    <3> QED
      BY <1>1, <2>2, <3>1, <3>2 DEF Init, TypeOK
  <2>6. Phased /\ Scaled /\ Distinct /\ Even
    BY <1>1, ScaleIsNatural DEF Init, Phased, Scaled, Distinct, Even, Null
  <2> QED
    BY <2>2, <2>3, <2>4, <2>5, <2>6, OwnedHeap DEF Owned
<1>2. ASSUME Owned, Next PROVE Owned'
  BY <1>2, InitializeOwns, CleanupOwns, BaseFailsOwns, AllocateBaseOwns, AllocateNodesOwns,
     AllocateShardOwns, FinishOwns
  DEF Next, CallCleanup, BaseThrows, ShardFails
<1> QED
  BY <1>1, <1>2, StutterOwns

(* Counts, sizes and pointers have their types: rounding ends, a number of  *)
(* shards is positive and below the cap, a block is no null pointer.        *)
THEOREM LifecycleTyping == Spec => []TypeOK
BY OwnedInvariant, PTL DEF Spec, Owned

(* Initialize, whichever allocation fails, and Cleanup neither leak a block *)
(* nor free one twice: each live block has one pointer, each pointer a live *)
(* block, and the sizes agree.                                              *)
THEOREM NoBlockIsLost == Spec => []HeapIsOwned
BY OwnedInvariant, PTL DEF Spec, Owned

(* m_shards is not null, which is all the operations check, only when every *)
(* shard is there with its sets.                                            *)
THEOREM UsableIsWhole == Spec => []UsableMeansWhole
<1>1. Owned => UsableMeansWhole
  BY DEF Owned, Phased, Even, AllAllocated, UsableMeansWhole
<1> QED
  BY <1>1, OwnedInvariant, PTL DEF Spec

(* A block has room for what is used of it, wherever the allocator puts it  *)
(* relative to a line.                                                      *)
THEOREM BlocksHaveRoom == Spec => []ContentsFitTheirBlock
<1>1. ASSUME Owned PROVE ContentsFitTheirBlock
  <2> SUFFICES ASSUME usable PROVE
        /\ (skew + Offset) % Line = 0
        /\ Offset + shardCount * ShardSize <= heap[base]
        /\ \A i \in Indices : shards[i].block # Null =>
             Offset + SetsSize(shards[i].sets) <= heap[shards[i].block]
    BY DEF ContentsFitTheirBlock
  <2>1. skew \in 0 .. Line - 1 /\ Line \in Nat \ {0}
    BY <1>1, LineAssumption DEF Owned, TypeOK
  <2>2. (skew + Line - 1) \div Line = IF skew = 0 THEN 0 ELSE 1
    BY <2>1
  <2>3. Offset = IF skew = 0 THEN 0 ELSE Line - skew
    BY <2>1, <2>2 DEF Offset
  <2>4. 0 % Line = 0 /\ Line % Line = 0
    BY <2>1
  <2>5. (skew + Offset) % Line = 0
    BY <2>1, <2>3, <2>4
  <2>6. Offset \in 0 .. Line - 1
    BY <2>1, <2>3
  <2>7. shardCount \in Nat /\ shardCount * ShardSize \in Nat
        /\ heap[base] = Padded(shardCount * ShardSize)
    BY <1>1, SizesAreNatural DEF Owned, TypeOK, HeapIsOwned, BaseBytes
  <2>8. Offset + shardCount * ShardSize <= heap[base]
    <3> DEFINE bytes == shardCount * ShardSize
    <3>1. bytes \in Nat /\ heap[base] = bytes + Line - 1
      BY <2>7, SizesAreNatural
    <3> HIDE DEF bytes
    <3>2. Offset + bytes <= heap[base]
      BY <2>1, <2>6, <3>1
    <3> QED
      BY <3>2 DEF bytes
  <2>9. ASSUME NEW i \in Indices, shards[i].block # Null
        PROVE  Offset + SetsSize(shards[i].sets) <= heap[shards[i].block]
    <3>1. shards[i].sets = NumSets /\ heap[shards[i].block] = Padded(SetsSize(NumSets))
      BY <1>1, <2>9 DEF Owned, Even, HeapIsOwned
    <3>2. NumSets \in Nat
      <4>1. shardCount \in Nat \ {0}
        BY <1>1, <2>9 DEF Owned, TypeOK, Indices
      <4> QED
        BY <1>1, <4>1, SetsAreCounted DEF Owned, Scaled, TypeOK
    <3>3. SetsSize(NumSets) \in Nat
      BY <3>2, SizesAreNatural
    <3>4. heap[shards[i].block] = SetsSize(NumSets) + Line - 1
      BY <3>1, <3>3, SizesAreNatural
    <3> QED
      BY <2>1, <2>6, <3>1, <3>3, <3>4
  <2> QED
    BY <2>5, <2>8, <2>9
<1> QED
  BY <1>1, OwnedInvariant, PTL DEF Spec
-----------------------------------------------------------------------------
(***************************************************************************)
(* Sums.  SumOf folds in an order the library leaves open; these lemmas say *)
(* that the order does not matter, by what a sum is of each subset.         *)
(***************************************************************************)
Some(s) == CHOOSE x \in s : TRUE

(* What the library's fold computes, of each subset of the domain. *)
Folds(g, f) ==
  g = [s \in SUBSET DOMAIN f |->
        IF s = {} THEN 0 ELSE f[Some(s)] + g[s \ {Some(s)}]]

(* The sum of no values is 0, that of more is any of them and the sum of the *)
(* others.                                                                  *)
Adds(g, f) ==
  /\ g \in [SUBSET DOMAIN f -> Nat]
  /\ g[{}] = 0
  /\ \A s \in SUBSET DOMAIN f : \A x \in s : g[s] = f[x] + g[s \ {x}]

Summable(f) == IsFiniteSet(DOMAIN f) /\ \A x \in DOMAIN f : f[x] \in Nat

(* A subset, and one element less. *)
LEMMA OneLess ==
  ASSUME NEW D, IsFiniteSet(D), NEW s \in SUBSET D
  PROVE  /\ IsFiniteSet(s) /\ Cardinality(s) \in Nat /\ (Cardinality(s) = 0 <=> s = {})
         /\ s # {} => Some(s) \in s
         /\ \A x \in s : s \ {x} \in SUBSET D /\ Cardinality(s \ {x}) = Cardinality(s) - 1
<1>1. IsFiniteSet(s)
  BY FS_Subset
<1>2. \A x \in s : s \ {x} \in SUBSET D
  OBVIOUS
<1>3. s # {} => Some(s) \in s
  BY DEF Some
<1> QED
  BY <1>1, <1>2, <1>3, FS_CardinalityType, FS_EmptySet, FS_RemoveElement

(* The fold is defined: the recursion goes down to the empty set. *)
LEMMA FoldsExist ==
  ASSUME NEW f, Summable(f)
  PROVE  \E g : Folds(g, f)
<1> DEFINE D == DOMAIN f
           Next1(g, s) == IF s = {} THEN 0 ELSE f[Some(s)] + g[s \ {Some(s)}]
           Upto(n) == {s \in SUBSET D : Cardinality(s) <= n}
           Done(n) == \E g \in [SUBSET D -> Nat] : \A s \in Upto(n) : g[s] = Next1(g, s)
           S == {n \in Nat : Done(n)}
<1>1. \A s \in SUBSET D :
         /\ Cardinality(s) \in Nat /\ (Cardinality(s) = 0 <=> s = {})
         /\ s # {} => Some(s) \in s /\ f[Some(s)] \in Nat
         /\ \A x \in s : s \ {x} \in SUBSET D /\ Cardinality(s \ {x}) = Cardinality(s) - 1
  BY OneLess DEF Summable
<1>2. 0 \in S
  <2> DEFINE g == [s \in SUBSET D |-> 0]
  <2>1. g \in [SUBSET D -> Nat] /\ \A s \in Upto(0) : g[s] = Next1(g, s)
    BY <1>1
  <2> QED
    BY <2>1
<1>3. ASSUME NEW n \in S PROVE n + 1 \in S
  <2>1. PICK h \in [SUBSET D -> Nat] : \A s \in Upto(n) : h[s] = Next1(h, s)
    OBVIOUS
  <2> DEFINE g == [s \in SUBSET D |-> Next1(h, s)]
  <2>2. g \in [SUBSET D -> Nat]
    <3>1. \A s \in SUBSET D : Next1(h, s) \in Nat
      BY <1>1
    <3> HIDE DEF Next1
    <3> QED
      BY <3>1
  <2>3. ASSUME NEW s \in Upto(n + 1) PROVE g[s] = Next1(g, s)
    <3>1. CASE s = {}
      BY <3>1
    <3>2. CASE s # {}
      <4> DEFINE t == s \ {Some(s)}
      <4>1. t \in Upto(n)
        BY <1>1, <3>2
      <4>2. h[t] = g[t]
        BY <2>1, <4>1
      <4> QED
        BY <3>2, <4>2
    <3> QED
      BY <3>1, <3>2
  <2> HIDE DEF g, Next1
  <2>4. Done(n + 1)
    BY <2>2, <2>3
  <2> QED
    BY <2>4
<1>4. S = Nat
  <2> HIDE DEF S
  <2>1. S \in SUBSET Nat
    BY DEF S
  <2> QED
    BY <1>2, <1>3, <2>1, AllNaturals
<1>5. Cardinality(D) \in Nat /\ \A s \in SUBSET D : Cardinality(s) <= Cardinality(D)
  BY FS_CardinalityType, FS_Subset DEF Summable
<1>6. Done(Cardinality(D))
  BY <1>4, <1>5
<1>7. PICK g \in [SUBSET D -> Nat] : \A s \in SUBSET D : g[s] = Next1(g, s)
  BY <1>5, <1>6
<1>8. g = [s \in SUBSET D |-> Next1(g, s)]
  <2> HIDE DEF Next1
  <2> QED
    BY <1>7
<1> QED
  BY <1>8 DEF Folds
(* The fold is a sum whatever the order. *)
LEMMA FoldsAdd ==
  ASSUME NEW f, Summable(f), NEW g, Folds(g, f)
  PROVE  Adds(g, f)
<1> DEFINE D == DOMAIN f
           Any(s) == \A x \in s : g[s] = f[x] + g[s \ {x}]
           N == {n \in Nat : \A s \in SUBSET D : Cardinality(s) = n => g[s] \in Nat}
           S == {n \in Nat : \A s \in SUBSET D : Cardinality(s) = n => Any(s)}
<1>1. \A s \in SUBSET D :
         /\ Cardinality(s) \in Nat /\ (Cardinality(s) = 0 <=> s = {})
         /\ s # {} => Some(s) \in s
         /\ \A x \in s : s \ {x} \in SUBSET D /\ Cardinality(s \ {x}) = Cardinality(s) - 1
  BY OneLess DEF Summable
<1>2. \A s \in SUBSET D : g[s] = IF s = {} THEN 0 ELSE f[Some(s)] + g[s \ {Some(s)}]
  BY DEF Folds
<1>natural. \A s \in SUBSET D : g[s] \in Nat
  <2>1. 0 \in N
    BY <1>1, <1>2
  <2>2. ASSUME NEW n \in N PROVE n + 1 \in N
    <3> SUFFICES ASSUME NEW s \in SUBSET D, Cardinality(s) = n + 1 PROVE g[s] \in Nat
      OBVIOUS
    <3>1. s # {} /\ Some(s) \in s /\ f[Some(s)] \in Nat
      BY <1>1 DEF Summable
    <3>2. g[s \ {Some(s)}] \in Nat
      BY <1>1, <3>1
    <3>3. g[s] = f[Some(s)] + g[s \ {Some(s)}]
      BY <1>2, <3>1
    <3> HIDE DEF N
    <3> QED
      BY <3>1, <3>2, <3>3
  <2>3. N = Nat
    <3> HIDE DEF N
    <3>1. N \in SUBSET Nat
      BY DEF N
    <3> QED
      BY <2>1, <2>2, <3>1, AllNaturals
  <2> QED
    BY <1>1, <2>3
<1>3. 0 \in S
  BY <1>1
<1>4. ASSUME NEW n \in S PROVE n + 1 \in S
  <2> SUFFICES ASSUME NEW s \in SUBSET D, Cardinality(s) = n + 1, NEW x \in s
               PROVE  g[s] = f[x] + g[s \ {x}]
    OBVIOUS
  <2> DEFINE y == Some(s)
  <2>1. y \in s /\ g[s] = f[y] + g[s \ {y}]
    BY <1>1, <1>2
  <2>2. CASE x = y
    BY <2>1, <2>2
  <2>3. CASE x # y
    <3> DEFINE sx == s \ {x}
               sy == s \ {y}
    <3>1. /\ sx \in SUBSET D /\ Cardinality(sx) = n /\ y \in sx
          /\ sy \in SUBSET D /\ Cardinality(sy) = n /\ x \in sy
      BY <1>1, <2>1, <2>3
    <3>2. g[sy] = f[x] + g[sy \ {x}] /\ g[sx] = f[y] + g[sx \ {y}]
      BY <3>1
    <3>3. sx \ {y} = sy \ {x} /\ sx \ {y} \in SUBSET D
      OBVIOUS
    <3>4. f[x] \in Nat /\ f[y] \in Nat /\ g[sx \ {y}] \in Nat
      BY <1>natural, <2>1, <3>3 DEF Summable
    <3> HIDE DEF sx, sy
    <3>5. g[s] = f[y] + (f[x] + g[sx \ {y}]) /\ g[sx] = f[y] + g[sx \ {y}]
      BY <2>1, <3>2, <3>3 DEF sy
    <3>6. g[s] = f[x] + g[sx]
      <4> DEFINE r == g[sx \ {y}]
      <4> HIDE DEF r, y
      <4> QED
        BY <3>4, <3>5 DEF r
    <3> QED
      BY <3>6 DEF sx
  <2> QED
    BY <2>2, <2>3
<1>5. S = Nat
  <2> HIDE DEF S
  <2>1. S \in SUBSET Nat
    BY DEF S
  <2> QED
    BY <1>3, <1>4, <2>1, AllNaturals
<1>6. \A s \in SUBSET D : g[s] \in Nat /\ Any(s)
  BY <1>1, <1>natural, <1>5
<1>7. g[{}] = 0 /\ g \in [SUBSET D -> Nat]
  BY <1>2, <1>6 DEF Folds
<1> QED
  BY <1>6, <1>7 DEF Adds

(* What a sum is of a subset depends on the values there alone. *)
LEMMA AddsAgree ==
  ASSUME NEW f, Summable(f), NEW g, Adds(g, f), NEW f2, NEW g2, Adds(g2, f2),
         NEW A \in SUBSET DOMAIN f, A \subseteq DOMAIN f2, \A x \in A : f[x] = f2[x]
  PROVE  g[A] = g2[A]
<1> DEFINE Same(s) == g[s] = g2[s]
           S == {n \in Nat : \A s \in SUBSET A : Cardinality(s) = n => Same(s)}
<1>1. IsFiniteSet(A)
  BY FS_Subset DEF Summable
<1>2. \A s \in SUBSET A :
         /\ Cardinality(s) \in Nat /\ (Cardinality(s) = 0 <=> s = {})
         /\ \A x \in s : s \ {x} \in SUBSET A /\ Cardinality(s \ {x}) = Cardinality(s) - 1
  BY <1>1, OneLess
<1>3. 0 \in S
  BY <1>2 DEF Adds
<1>4. ASSUME NEW n \in S PROVE n + 1 \in S
  <2> SUFFICES ASSUME NEW s \in SUBSET A, Cardinality(s) = n + 1 PROVE g[s] = g2[s]
    OBVIOUS
  <2>1. PICK x \in s : TRUE
    BY <1>2
  <2>2. g[s \ {x}] = g2[s \ {x}]
    BY <1>2
  <2>3. g[s] = f[x] + g[s \ {x}] /\ g2[s] = f2[x] + g2[s \ {x}]
    BY DEF Adds
  <2> QED
    BY <2>2, <2>3
<1>5. S = Nat
  <2> HIDE DEF S
  <2>1. S \in SUBSET Nat
    BY DEF S
  <2> QED
    BY <1>3, <1>4, <2>1, AllNaturals
<1> QED
  BY <1>2, <1>5

(* SumOf is such a sum, of the whole domain. *)
LEMMA SumOfAdds ==
  ASSUME NEW f, Summable(f)
  PROVE  \E g : Adds(g, f) /\ SumOf(f) = g[DOMAIN f]
<1> DEFINE g == CHOOSE h : Folds(h, f)
<1>1. SumOf(f) = g[DOMAIN f]
  BY DEF SumOf, FoldFunction, FoldFunctionOnSet, MapThenFoldSet, Folds, Some
<1>2. \E h : Folds(h, f)
  BY FoldsExist
<1>3. Folds(g, f)
  BY <1>2
<1> HIDE DEF g
<1> QED
  BY <1>1, <1>3, FoldsAdd
(* The sum of nothing. *)
LEMMA EmptySum ==
  ASSUME NEW f, DOMAIN f = {}
  PROVE  SumOf(f) = 0
<1>1. Summable(f)
  BY FS_EmptySet DEF Summable
<1> QED
  BY <1>1, SumOfAdds DEF Adds

(* One value apart: what is left is the sum of the others. *)
LEMMA SumApart ==
  ASSUME NEW f, Summable(f), NEW x \in DOMAIN f,
         NEW h, DOMAIN h = DOMAIN f \ {x}, \A y \in DOMAIN h : h[y] = f[y]
  PROVE  SumOf(h) \in Nat /\ SumOf(f) = f[x] + SumOf(h)
<1>1. Summable(h)
  BY FS_RemoveElement DEF Summable
<1>2. PICK g : Adds(g, f) /\ SumOf(f) = g[DOMAIN f]
  BY SumOfAdds
<1>3. PICK k : Adds(k, h) /\ SumOf(h) = k[DOMAIN h]
  BY <1>1, SumOfAdds
<1>4. k[DOMAIN h] = g[DOMAIN h]
  BY <1>1, <1>2, <1>3, AddsAgree
<1>5. g[DOMAIN f] = f[x] + g[DOMAIN f \ {x}]
  BY <1>2 DEF Adds
<1>6. k[DOMAIN h] \in Nat
  BY <1>3 DEF Adds
<1> QED
  BY <1>2, <1>3, <1>4, <1>5, <1>6

(* A product, and one factor more. *)
LEMMA OneMore ==
  ASSUME NEW n \in Nat, NEW c \in Nat
  PROVE  n * c \in Nat /\ (n + 1) * c = c + n * c /\ 0 * c = 0
OBVIOUS

(* Equal values: as many times the value as there are. *)
LEMMA EqualSum ==
  ASSUME NEW f, IsFiniteSet(DOMAIN f), NEW c \in Nat, \A x \in DOMAIN f : f[x] = c
  PROVE  SumOf(f) = Cardinality(DOMAIN f) * c
<1>1. Summable(f)
  BY DEF Summable
<1>2. PICK g : Adds(g, f) /\ SumOf(f) = g[DOMAIN f]
  BY <1>1, SumOfAdds
<1> DEFINE D == DOMAIN f
           Times(s) == g[s] = Cardinality(s) * c
           S == {n \in Nat : \A s \in SUBSET D : Cardinality(s) = n => Times(s)}
<1>3. \A s \in SUBSET D :
         /\ Cardinality(s) \in Nat /\ (Cardinality(s) = 0 <=> s = {})
         /\ \A x \in s : s \ {x} \in SUBSET D /\ Cardinality(s \ {x}) = Cardinality(s) - 1
  BY OneLess
<1>4. 0 \in S
  <2> SUFFICES ASSUME NEW s \in SUBSET D, Cardinality(s) = 0 PROVE g[s] = Cardinality(s) * c
    OBVIOUS
  <2> QED
    BY <1>2, <1>3, OneMore DEF Adds
<1>5. ASSUME NEW n \in S PROVE n + 1 \in S
  <2> SUFFICES ASSUME NEW s \in SUBSET D, Cardinality(s) = n + 1 PROVE g[s] = (n + 1) * c
    OBVIOUS
  <2>1. PICK x \in s : TRUE
    BY <1>3
  <2>2. g[s] = c + g[s \ {x}]
    BY <1>2 DEF Adds
  <2>3. g[s \ {x}] = n * c
    BY <1>3
  <2> QED
    BY <2>2, <2>3, OneMore
<1>6. S = Nat
  <2> HIDE DEF S
  <2>1. S \in SUBSET Nat
    BY DEF S
  <2> QED
    BY <1>4, <1>5, <2>1, AllNaturals
<1> QED
  BY <1>2, <1>3, <1>6
-----------------------------------------------------------------------------
(* A cache with memory has shards, and um without shards counts no bytes. *)
Counted ==
  /\ usable => shardCount # 0
  /\ build = "um" /\ shardCount = 0 => baseSize = 0

(* Counted is inductive, beside Owned. *)
LEMMA CountedInvariant ==
  /\ Init => Counted
  /\ Owned /\ Counted /\ [Next]_vars => Counted'
<1>1. Init => Counted
  BY DEF Init, Counted
<1>2. ASSUME Owned, NEW entries \in Totals, NEW procs \in Procs, Initialize(entries, procs)
      PROVE  Counted'
  <2>1. shardCount' # 0
    BY <1>2, CountIsPositive DEF Owned, TypeOK, Initialize
  <2> QED
    BY <2>1 DEF Counted
<1>3. Cleanup => Counted'
  BY DEF Cleanup, Release, Counted, Machine
<1>4. Owned /\ AllocateBase => Counted'
  BY DEF Owned, Scaled, AllocateBase, Counted
<1>5. Counted /\ UNCHANGED <<build, usable, shardCount, baseSize>> => Counted'
  BY DEF Counted
<1>6. BaseFails \/ AllocateNodes \/ AllocateShard \/ Finish \/ UNCHANGED vars
        => UNCHANGED <<build, usable, shardCount, baseSize>>
  BY DEF BaseFails, AllocateNodes, AllocateShard, Finish, vars, Machine
<1>7. ASSUME Owned, Counted, Next PROVE Counted'
  BY <1>2, <1>3, <1>4, <1>5, <1>6, <1>7 DEF Next, CallCleanup, BaseThrows, ShardFails
<1> QED
  BY <1>1, <1>5, <1>6, <1>7

(* What a complete cache holds: the array, and shards of equal sizes. *)
LEMMA WholeHeap ==
  ASSUME Owned, Counted, pc = "idle", usable
  PROVE  LET c == Padded(SetsSize(NumSets))
         IN  /\ shardCount \in Nat \ {0} /\ NumSets \in Nat /\ c \in Nat
             /\ IsFiniteSet(Indices) /\ Cardinality(Indices) = shardCount
             /\ \A i \in Indices : shards[i].size = c /\ shards[i].sets = NumSets
             /\ base \in DOMAIN heap /\ heap[base] = BaseBytes(shardCount)
             /\ \A b \in DOMAIN heap \ {base} : heap[b] = c
             /\ Cardinality(DOMAIN heap \ {base}) = shardCount
<1> DEFINE c == Padded(SetsSize(NumSets))
<1>1. shardCount \in Nat \ {0}
  BY DEF Owned, TypeOK, Counted
<1>2. NumSets \in Nat /\ c \in Nat
  BY <1>1, SetsAreCounted, SizesAreNatural DEF Owned, Scaled, TypeOK
<1>3. IsFiniteSet(Indices) /\ Cardinality(Indices) = shardCount
  BY <1>1, FS_Interval DEF Indices
<1>4. \A i \in Indices : shards[i].block # Null /\ shards[i].size = c /\ shards[i].sets = NumSets
  BY DEF Owned, Phased, AllAllocated, Even
<1>5. Held = Indices
  BY <1>4 DEF Held
<1>6. Bases = {base} /\ base # Null
  BY DEF Bases, Owned, Phased
<1>7. DOMAIN heap = {shards[i].block : i \in Indices} \cup {base}
      /\ Cardinality(DOMAIN heap) = 1 + shardCount
  BY <1>3, <1>5, <1>6, OwnedHeap, FS_Singleton DEF Owned, HeapByName
<1>8. Cardinality(DOMAIN heap \ {base}) = shardCount
  <2>1. base \in DOMAIN heap /\ IsFiniteSet(DOMAIN heap)
    BY <1>7 DEF Owned
  <2>2. Cardinality(DOMAIN heap \ {base}) = Cardinality(DOMAIN heap) - 1
    BY <2>1, FS_RemoveElement
  <2> QED
    BY <1>1, <1>7, <2>2
<1>9. /\ heap[base] = BaseBytes(shardCount)
      /\ \A i \in Indices : heap[shards[i].block] = c
  BY <1>4, OwnedHeap DEF Owned, HeapByName
<1> QED
  BY <1>1, <1>2, <1>3, <1>4, <1>7, <1>8, <1>9

(* GetMemoryUsage tells the bytes allocated. *)
THEOREM UsageIsTold == Spec => []UsageIsExact
<1>1. ASSUME Owned, Counted PROVE UsageIsExact
  <2> SUFFICES ASSUME pc = "idle", build = "km" \/ usable \/ shardCount = 0
               PROVE  GetMemoryUsage = SumOf(heap)
    BY DEF UsageIsExact
  <2>1. CASE usable
    <3> DEFINE c == Padded(SetsSize(NumSets))
               f == [i \in Indices |-> shards[i].size]
               h == [b \in DOMAIN heap \ {base} |-> heap[b]]
    <3>1. /\ shardCount \in Nat \ {0} /\ c \in Nat
          /\ IsFiniteSet(Indices) /\ Cardinality(Indices) = shardCount
          /\ \A i \in Indices : shards[i].size = c
          /\ base \in DOMAIN heap /\ heap[base] = BaseBytes(shardCount)
          /\ \A b \in DOMAIN heap \ {base} : heap[b] = c
          /\ Cardinality(DOMAIN heap \ {base}) = shardCount
      BY <1>1, <2>1, WholeHeap
    <3>2. SumOf(f) = shardCount * c
      <4>1. DOMAIN f = Indices /\ \A i \in DOMAIN f : f[i] = c
        BY <3>1
      <4> HIDE DEF f, c
      <4> QED
        BY <3>1, <4>1, EqualSum
    <3>3. SumOf(h) = shardCount * c
      <4>1. DOMAIN h = DOMAIN heap \ {base} /\ \A b \in DOMAIN h : h[b] = c
        BY <3>1
      <4>2. IsFiniteSet(DOMAIN heap \ {base})
        BY <1>1, FS_RemoveElement DEF Owned
      <4> HIDE DEF h, c
      <4> QED
        BY <3>1, <4>1, <4>2, EqualSum
    <3>4. SumOf(heap) = heap[base] + SumOf(h)
      <4>1. Summable(heap)
        BY <1>1 DEF Owned, TypeOK, Summable
      <4>2. DOMAIN h = DOMAIN heap \ {base} /\ \A b \in DOMAIN h : h[b] = heap[b]
        OBVIOUS
      <4> HIDE DEF h
      <4> QED
        BY <3>1, <4>1, <4>2, SumApart
    <3>5. (IF build = "um" THEN baseSize ELSE IF base # Null THEN BaseBytes(shardCount) ELSE 0)
            = BaseBytes(shardCount)
      BY <1>1, <2>1 DEF Owned, Phased, Scaled
    <3>6. GetMemoryUsage = BaseBytes(shardCount) + SumOf(f)
      BY <2>1, <3>5 DEF GetMemoryUsage
    <3> QED
      BY <3>1, <3>2, <3>3, <3>4, <3>6
  <2>2. CASE ~usable
    <3>1. base = Null /\ nodes = Null /\ Held = {} /\ Bases = {}
      BY <1>1, <2>2 DEF Owned, Phased, Held, Bases
    <3>2. DOMAIN heap = {}
      BY <1>1, <3>1, OwnedHeap DEF Owned, HeapByName
    <3>3. build = "um" => baseSize = 0
      BY <1>1, <2>2 DEF Counted
    <3>4. GetMemoryUsage = 0
      BY <2>2, <3>1, <3>3 DEF GetMemoryUsage
    <3> QED
      BY <3>2, <3>4, EmptySum
  <2> QED
    BY <2>1, <2>2
<1> QED
  BY <1>1, OwnedInvariant, CountedInvariant, PTL DEF Spec
-----------------------------------------------------------------------------
(* The least power of two p with p * c >= n: rounding up doubles at most. *)
LEMMA RoundedUp ==
  ASSUME NEW c \in Nat \ {0}, NEW n \in 0 .. Scale
  PROVE  LET S == {p \in PowersOfTwo : p * c >= n}
         IN  /\ LeastOf(S) \in PowersOfTwo /\ LeastOf(S) * c >= n
             /\ \A p \in PowersOfTwo : p * c >= n => LeastOf(S) <= p
             /\ LeastOf(S) = 1 \/ LeastOf(S) * c < 2 * n
<1> DEFINE S == {p \in PowersOfTwo : p * c >= n}
           least == LeastOf(S)
<1>1. Scale \in S
  <2>1. Scale \in Nat /\ Scale * c >= Scale
    BY ScaleIsNatural
  <2> QED
    BY <2>1, Powers
<1>2. least \in S /\ \A p \in S : least <= p
  <2>1. S \in SUBSET Nat
    BY Powers
  <2> HIDE DEF S
  <2> QED
    BY <1>1, <2>1, LeastIsThere
<1> HIDE DEF least
<1>3. least = 1 \/ least * c < 2 * n
  <2> SUFFICES ASSUME least # 1 PROVE least * c < 2 * n
    OBVIOUS
  <2>1. PICK q \in PowersOfTwo : least = 2 * q
    BY <1>2, Powers
  <2>2. q \in Nat /\ q < least
    BY <2>1, Powers
  <2>3. ~(q * c >= n)
    BY <1>2, <2>1, <2>2
  <2>4. least * c = 2 * (q * c) /\ q * c \in Nat
    BY <2>1, <2>2
  <2> QED
    BY <2>3, <2>4
<1> QED
  BY <1>2, <1>3 DEF least

(* Dividing rounds down by less than the divisor. *)
LEMMA RoundedDown ==
  ASSUME NEW n \in Nat, NEW c \in Nat \ {0}
  PROVE  n \div c \in Nat /\ (n \div c) * c <= n /\ n < (n \div c) * c + c
OBVIOUS

(* Factors keep the order. *)
LEMMA Ordered ==
  ASSUME NEW m \in Nat, NEW n \in Nat, m <= n, NEW c \in Nat
  PROVE  m * c \in Nat /\ n * c \in Nat /\ m * c <= n * c
         /\ c * m \in Nat /\ c * n \in Nat /\ c * m <= c * n
OBVIOUS

(* The slots of a shard: little less than its share, and no more than the  *)
(* double of it, or one set, or the lower limit.                           *)
LEMMA SlotsOfAShard ==
  ASSUME build \in Builds, total \in 0 .. Scale, shardCount \in Nat \ {0}
  PROVE  LET slots == NumSets * SlotsPerSet
             share == total \div shardCount
         IN  /\ NumSets \in Nat /\ slots \in Nat
             /\ share < slots + (IF build = "um" THEN SlotsPerSet ELSE 1)
             /\ slots <= 2 * share \/ slots <= AtLeast(SlotsPerSet, LeastPerShard[build])
<1> DEFINE slots == NumSets * SlotsPerSet
           share == total \div shardCount
           least == LeastPerShard[build]
<1>1. /\ share \in Nat /\ least \in 0 .. Scale /\ SlotsPerSet \in Nat \ {0} /\ Scale \in Nat
      /\ Share \in 0 .. Scale /\ Share >= share /\ Share >= least /\ Share \in {share, least}
  <2>1. share \in Nat /\ share <= total
    BY ScaleIsNatural
  <2>2. least \in 0 .. Scale
    BY ScaleAssumption
  <2> QED
    BY <2>1, <2>2, ScaleIsNatural, SlotsAssumption DEF Share, AtLeast
<1>powers. \A p \in PowersOfTwo : p \in Nat \ {0} /\ p * 1 = p
  <2>1. \A p \in Nat : p * 1 = p
    OBVIOUS
  <2> QED
    BY <2>1, Powers
<1>2. least = 0 \/ \E p \in PowersOfTwo : least = p * SlotsPerSet
  BY LeastAssumption
<1>3. /\ NumSets \in PowersOfTwo
      /\ Share < slots + (IF build = "um" THEN SlotsPerSet ELSE 1)
      /\ NumSets = 1 \/ slots < 2 * Share
      /\ \A p \in PowersOfTwo : Share = p * SlotsPerSet => NumSets <= p
  <2>1. CASE build = "um"
    <3> DEFINE n == Share \div SlotsPerSet
    <3>1. n \in Nat /\ n * SlotsPerSet <= Share /\ Share < n * SlotsPerSet + SlotsPerSet
      BY <1>1, RoundedDown
    <3>2. n \in 0 .. Scale
      <4>1. n <= n * SlotsPerSet
        BY <1>1, <3>1
      <4> QED
        BY <1>1, <3>1, <4>1
    <3>3. /\ NumSets \in PowersOfTwo /\ NumSets >= n
          /\ NumSets = 1 \/ NumSets < 2 * n
          /\ \A p \in PowersOfTwo : p >= n => NumSets <= p
      <4> DEFINE S == {p \in PowersOfTwo : p * 1 >= n}
      <4>1. NumSets = LeastOf(S)
        <5>1. NumSets = BitCeil(n)
          BY <2>1 DEF NumSets
        <5>2. S = {p \in PowersOfTwo : p >= n}
          BY <1>powers
        <5> HIDE DEF S
        <5> QED
          BY <5>1, <5>2 DEF BitCeil
      <4>3. 1 \in Nat \ {0}
        OBVIOUS
      <4>4. /\ LeastOf(S) \in PowersOfTwo /\ LeastOf(S) * 1 >= n
            /\ \A p \in PowersOfTwo : p * 1 >= n => LeastOf(S) <= p
            /\ LeastOf(S) = 1 \/ LeastOf(S) * 1 < 2 * n
        BY <3>2, <4>3, RoundedUp
      <4> HIDE DEF S, n
      <4> QED
        BY <1>powers, <4>1, <4>4
    <3>4. NumSets \in Nat /\ n * SlotsPerSet <= slots
      <4> HIDE DEF n
      <4>1. NumSets \in Nat /\ n <= NumSets
        BY <1>powers, <3>1, <3>3
      <4> QED
        BY <1>1, <3>1, <4>1, Ordered
    <3>5. Share < slots + SlotsPerSet
      <4> HIDE DEF n, slots
      <4>1. n * SlotsPerSet \in Nat /\ slots \in Nat
        BY <1>1, <3>1, <3>4 DEF slots
      <4> QED
        BY <1>1, <3>1, <3>4, <4>1
    <3>6. NumSets = 1 \/ slots < 2 * Share
      <4> SUFFICES ASSUME NumSets < 2 * n PROVE slots < 2 * Share
        BY <3>3
      <4>1. NumSets + 1 <= 2 * n /\ NumSets + 1 \in Nat /\ 2 * n \in Nat
        BY <3>1, <3>4
      <4>2. (NumSets + 1) * SlotsPerSet <= (2 * n) * SlotsPerSet
        BY <1>1, <4>1, Ordered
      <4>3. (NumSets + 1) * SlotsPerSet = slots + SlotsPerSet
        BY <1>1, <3>4
      <4>4. (2 * n) * SlotsPerSet = 2 * (n * SlotsPerSet) /\ n * SlotsPerSet \in Nat /\ slots \in Nat
        BY <1>1, <3>1, <3>4
      <4> HIDE DEF n, slots
      <4> QED
        BY <1>1, <3>1, <4>2, <4>3, <4>4
    <3>7. ASSUME NEW p \in PowersOfTwo, Share = p * SlotsPerSet PROVE NumSets <= p
      <4>1. p \in Nat
        BY Powers
      <4>2. n = p
        BY <1>1, <3>7, <4>1
      <4> QED
        BY <3>3, <4>1, <4>2
    <3> HIDE DEF n, slots
    <3> QED
      BY <2>1, <3>3, <3>5, <3>6, <3>7
  <2>2. CASE build # "um"
    <3>1. NumSets = LeastOf({p \in PowersOfTwo : p * SlotsPerSet >= Share})
      BY <2>2 DEF NumSets
    <3>2. /\ NumSets \in PowersOfTwo /\ slots >= Share
          /\ \A p \in PowersOfTwo : p * SlotsPerSet >= Share => NumSets <= p
          /\ NumSets = 1 \/ slots < 2 * Share
      BY <1>1, <3>1, RoundedUp
    <3>3. NumSets \in Nat /\ slots \in Nat
      BY <1>1, <3>2, Powers
    <3>4. Share < slots + 1
      <4> HIDE DEF slots
      <4> QED
        BY <1>1, <3>2, <3>3
    <3>5. \A p \in PowersOfTwo : Share = p * SlotsPerSet => NumSets <= p
      BY <1>1, <3>2
    <3> QED
      BY <2>2, <3>2, <3>4, <3>5
  <2> QED
    BY <2>1, <2>2
<1>4. NumSets \in Nat /\ slots \in Nat
  BY <1>1, <1>3, Powers
<1>5. NumSets = 1 => slots = SlotsPerSet
  BY <1>1
<1>6. Share = least => slots = SlotsPerSet \/ slots <= least
  <2> SUFFICES ASSUME Share = least, NumSets # 1 PROVE slots <= least
    BY <1>5
  <2>1. least # 0
    <3> HIDE DEF slots, least
    <3> QED
      BY <1>1, <1>3, <1>4
  <2>2. PICK p \in PowersOfTwo : least = p * SlotsPerSet
    BY <1>2, <2>1
  <2>3. NumSets <= p /\ p \in Nat
    BY <1>3, <2>2, Powers
  <2> QED
    BY <1>1, <1>4, <2>2, <2>3, Ordered
<1>7. share < slots + (IF build = "um" THEN SlotsPerSet ELSE 1)
  <2> HIDE DEF slots, share
  <2> QED
    BY <1>1, <1>3, <1>4
<1>8. slots <= 2 * share \/ slots <= AtLeast(SlotsPerSet, least)
  <2> HIDE DEF slots, share, least
  <2> QED
    BY <1>1, <1>3, <1>4, <1>5, <1>6 DEF AtLeast
<1> QED
  BY <1>4, <1>7, <1>8

(* A cache has the capacity asked for, up to rounding. *)
THEOREM CapacityKept == Spec => []CapacityIsClose
<1>1. ASSUME Owned, Counted PROVE CapacityIsClose
  <2> SUFFICES ASSUME pc = "idle", usable
               PROVE  /\ total - Capacity < shardCount * (IF build = "um" THEN SlotsPerSet ELSE 1)
                      /\ Capacity <= AtLeast(2 * total,
                           shardCount * AtLeast(SlotsPerSet, LeastPerShard[build]))
    BY DEF CapacityIsClose
  <2> DEFINE slots == NumSets * SlotsPerSet
             share == total \div shardCount
             f == [i \in Indices |-> shards[i].sets * SlotsPerSet]
             lost == IF build = "um" THEN SlotsPerSet ELSE 1
             limit == AtLeast(SlotsPerSet, LeastPerShard[build])
  <2>1. /\ shardCount \in Nat \ {0} /\ build \in Builds /\ total \in 0 .. Scale /\ total \in Nat
        /\ IsFiniteSet(Indices) /\ Cardinality(Indices) = shardCount
        /\ \A i \in Indices : shards[i].sets = NumSets
    BY <1>1, WholeHeap, ScaleIsNatural DEF Owned, TypeOK, Scaled
  <2>2. /\ slots \in Nat /\ share < slots + lost
        /\ slots <= 2 * share \/ slots <= limit
    BY <2>1, SlotsOfAShard
  <2>3. Capacity = shardCount * slots
    <3>1. DOMAIN f = Indices /\ \A i \in DOMAIN f : f[i] = slots
      BY <2>1
    <3>2. Capacity = SumOf(f)
      BY DEF Capacity
    <3> HIDE DEF f, slots
    <3> QED
      BY <2>1, <2>2, <3>1, <3>2, EqualSum
  <2>4. share \in Nat /\ share * shardCount <= total /\ total < share * shardCount + shardCount
    BY <2>1, RoundedDown
  <2>5. lost \in Nat /\ limit \in Nat
    BY <2>1, SlotsAssumption, ScaleAssumption, ScaleIsNatural DEF AtLeast
  <2> HIDE DEF slots, share, lost, limit
  <2>6. total - Capacity < shardCount * lost
    <3>1. share + 1 <= slots + lost /\ share + 1 \in Nat /\ slots + lost \in Nat
      BY <2>2, <2>4, <2>5
    <3>2. shardCount * (share + 1) <= shardCount * (slots + lost)
      BY <2>1, <3>1, Ordered
    <3>3. /\ shardCount * (share + 1) = share * shardCount + shardCount
          /\ shardCount * (slots + lost) = shardCount * slots + shardCount * lost
          /\ share * shardCount \in Nat /\ shardCount * slots \in Nat /\ shardCount * lost \in Nat
      BY <2>1, <2>2, <2>4, <2>5
    <3> QED
      BY <2>1, <2>3, <2>4, <3>2, <3>3
  <2>7. Capacity <= 2 * total \/ Capacity <= shardCount * limit
    <3>1. CASE slots <= 2 * share
      <4>1. shardCount * slots <= shardCount * (2 * share)
        BY <2>1, <2>2, <2>4, <3>1, Ordered
      <4>2. /\ shardCount * (2 * share) = 2 * (share * shardCount)
            /\ share * shardCount \in Nat /\ shardCount * slots \in Nat
        BY <2>1, <2>2, <2>4
      <4> QED
        BY <2>1, <2>3, <2>4, <4>1, <4>2
    <3>2. CASE slots <= limit
      BY <2>1, <2>2, <2>3, <2>5, <3>2, Ordered
    <3> QED
      BY <2>2, <3>1, <3>2
  <2>8. Capacity <= AtLeast(2 * total, shardCount * limit)
    <3>1. Capacity \in Nat /\ shardCount * limit \in Nat
      BY <2>1, <2>2, <2>3, <2>5
    <3> QED
      BY <2>1, <2>7, <3>1 DEF AtLeast
  <2> QED
    BY <2>6, <2>8 DEF lost, limit
<1> QED
  BY <1>1, OwnedInvariant, CountedInvariant, PTL DEF Spec
-----------------------------------------------------------------------------
(* A number is its quotient and its remainder, and no other pair is.        *)
LEMMA Remainders ==
  ASSUME NEW n \in Nat \ {0}
  PROVE  /\ \A a \in Int : a % n \in 0 .. n - 1 /\ a \div n \in Int /\ a = (a \div n) * n + (a % n)
         /\ \A q \in Int, r \in 0 .. n - 1 : (q * n + r) % n = r
OBVIOUS

(* A shift from one remainder to another. *)
LEMMA Shifted ==
  ASSUME NEW n \in Nat \ {0}, NEW i \in Int, NEW s \in 0 .. n - 1
  PROVE  /\ (i - ((i % n) - s)) % n = s
         /\ (i - (n + (i % n) - s)) % n = s
<1> DEFINE q == i \div n
           r == i % n
<1>1. q \in Int /\ r \in 0 .. n - 1 /\ i = q * n + r
  BY Remainders
<1>2. (q * n + s) % n = s /\ ((q - 1) * n + s) % n = s
  <2>1. q - 1 \in Int
    BY <1>1
  <2> HIDE DEF q, r
  <2> QED
    BY <1>1, <2>1, Remainders
<1>3. (q - 1) * n = q * n - n /\ q * n \in Int
  BY <1>1
<1> HIDE DEF q, r
<1>4. i - (r - s) = q * n + s /\ i - (n + r - s) = (q - 1) * n + s
  BY <1>1, <1>3
<1> QED
  BY <1>2, <1>4 DEF r

(* How many nodes online come before one. *)
Rank(n) == Cardinality({m \in online : m < n})

(* The nodes online are numbered from 0. *)
LEMMA Ranks ==
  ASSUME TypeOK, online # {}
  PROVE  LET N == Cardinality(online)
         IN  /\ N \in Nat \ {0}
             /\ \A n \in online : Rank(n) \in 0 .. N - 1
             /\ \A m, n \in online : Rank(m) = Rank(n) => m = n
             /\ \A r \in 0 .. N - 1 : \E n \in online : Rank(n) = r
<1> DEFINE N == Cardinality(online)
           Below(n) == {m \in online : m < n}
<1>1. IsFiniteSet(online) /\ online \subseteq Nat
  <2>1. IsFiniteSet(0 .. HighestNode) /\ online \in SUBSET (0 .. HighestNode)
    BY NodesAssumption, FS_Interval DEF TypeOK
  <2>2. IsFiniteSet(online)
    BY <2>1, FS_Subset
  <2> QED
    BY <2>1, <2>2
<1>2. N \in Nat \ {0}
  BY <1>1, FS_CardinalityType, FS_EmptySet
<1>3. \A n \in online : IsFiniteSet(Below(n))
  <2>1. \A n \in online : Below(n) \in SUBSET online
    OBVIOUS
  <2> QED
    BY <1>1, <2>1, FS_Subset
<1>natural. \A n \in online : Rank(n) \in Nat
  BY <1>3, FS_CardinalityType DEF Rank
<1>4. \A n \in online : Cardinality(Below(n) \cup {n}) = Rank(n) + 1
  <2>1. \A n \in online : n \notin Below(n)
    BY <1>1
  <2> HIDE DEF Below
  <2>2. \A n \in online : Cardinality(Below(n) \cup {n}) = Cardinality(Below(n)) + 1
    BY <1>3, <2>1, FS_AddElement
  <2> QED
    BY <2>2 DEF Rank, Below
<1>5. \A n \in online : Rank(n) \in 0 .. N - 1
  <2> TAKE n \in online
  <2>1. Below(n) \cup {n} \in SUBSET online
    OBVIOUS
  <2>2. Cardinality(Below(n) \cup {n}) <= N
    BY <1>1, <2>1, FS_Subset
  <2>3. Rank(n) + 1 <= N /\ Rank(n) \in Nat
    BY <1>natural, <1>4, <2>2
  <2> HIDE DEF N
  <2> QED
    BY <1>2, <2>3
<1>6. \A m, n \in online : m < n => Rank(m) < Rank(n)
  <2> SUFFICES ASSUME NEW m \in online, NEW n \in online, m < n PROVE Rank(m) < Rank(n)
    OBVIOUS
  <2>0. \A k \in online : k < m => k < n
    BY <1>1
  <2>1. Below(m) \cup {m} \in SUBSET Below(n)
    BY <2>0
  <2>2. Cardinality(Below(m) \cup {m}) <= Cardinality(Below(n))
    BY <1>3, <2>1, FS_Subset
  <2>3. Rank(m) + 1 <= Rank(n)
    BY <1>4, <2>2 DEF Rank
  <2> QED
    BY <1>natural, <2>3
<1>7. \A m, n \in online : Rank(m) = Rank(n) => m = n
  <2> SUFFICES ASSUME NEW m \in online, NEW n \in online, Rank(m) = Rank(n), m # n PROVE FALSE
    OBVIOUS
  <2>1. m < n \/ n < m
    BY <1>1
  <2>2. Rank(m) < Rank(n) \/ Rank(n) < Rank(m)
    BY <1>6, <2>1
  <2> QED
    BY <1>natural, <2>2
<1>8. \A r \in 0 .. N - 1 : \E n \in online : Rank(n) = r
  <2> DEFINE f == [n \in online |-> Rank(n)]
  <2>1. f \in Injection(online, 0 .. N - 1)
    <3> HIDE DEF N
    <3>1. f \in [online -> 0 .. N - 1]
      BY <1>5
    <3> QED
      BY <1>7, <3>1 DEF Injection, IsInjective
  <2>2. IsFiniteSet(0 .. N - 1) /\ Cardinality(0 .. N - 1) = N
    BY <1>2, FS_Interval
  <2>3. f \in Surjection(online, 0 .. N - 1)
    BY <2>1, <2>2, FS_Injection
  <2> QED
    BY <2>3 DEF Surjection
<1> QED
  BY <1>2, <1>5, <1>7, <1>8

(* NthOnline goes around the nodes online in their order. *)
LEMMA NthIsOnline ==
  ASSUME TypeOK, online # {}, NEW i \in Nat
  PROVE  NthOnline(i) \in online /\ Rank(NthOnline(i)) = i % Cardinality(online)
<1>1. Cardinality(online) \in Nat \ {0}
  BY Ranks
<1>2. i % Cardinality(online) \in 0 .. Cardinality(online) - 1
  BY <1>1, Remainders
<1>3. \E n \in online : Rank(n) = i % Cardinality(online)
  BY <1>2, Ranks
<1> QED
  BY <1>3 DEF NthOnline, Rank

(* Going around hands each node as many as any other, or one more. *)
LEMMA DealtEvenly ==
  ASSUME NEW count \in Nat, NEW n \in Nat \ {0}, NEW r \in 0 .. n - 1, NEW s \in 0 .. n - 1
  PROVE  Cardinality({i \in 0 .. count - 1 : i % n = r})
           <= Cardinality({i \in 0 .. count - 1 : i % n = s}) + 1
<1> DEFINE Of(k) == {i \in 0 .. count - 1 : i % n = k}
           d == IF r < s THEN n + r - s ELSE r - s
           Rest == Of(r) \ {r}
           f == [i \in (IF r < s THEN Rest ELSE Of(r)) |-> i - d]
<1>1. \A k \in 0 .. n - 1 : IsFiniteSet(Of(k)) /\ Cardinality(Of(k)) \in Nat
  <2>1. IsFiniteSet(0 .. count - 1) /\ \A k \in 0 .. n - 1 : Of(k) \in SUBSET (0 .. count - 1)
    BY FS_Interval
  <2> HIDE DEF Of
  <2> QED
    BY <2>1, FS_Subset, FS_CardinalityType
<1>2. \A i \in Of(r) : i \in Nat /\ r <= i /\ (i # r => n + r <= i)
  <2> TAKE i \in Of(r)
  <2> DEFINE q == i \div n
  <2>1. i \in Nat /\ q \in Int /\ i = q * n + r
    BY Remainders
  <2> HIDE DEF q
  <2>2. q < 0 => q * n + n <= 0
    BY <2>1
  <2>3. q \in Nat
    BY <2>1, <2>2
  <2>4. q = 0 \/ q * n >= n
    BY <2>3
  <2> QED
    BY <2>1, <2>3, <2>4
<1>3. \A i \in Of(r) : (i - d) % n = s
  <2>1. \A i \in Of(r) : i \in Int /\ i % n = r
    BY <1>2
  <2>2. \A i \in Int :
          i % n = r => (i - (r - s)) % n = s /\ (i - (n + r - s)) % n = s
    BY Shifted
  <2> HIDE DEF Of
  <2> QED
    BY <2>1, <2>2
<1>4. ASSUME NEW i \in DOMAIN f PROVE i - d \in Of(s)
  <2>1. i \in Of(r) /\ i - d \in 0 .. count - 1
    BY <1>2
  <2> QED
    BY <1>3, <2>1
<1>5. f \in Injection(DOMAIN f, Of(s))
  <2>1. \A i \in DOMAIN f : i \in Int
    OBVIOUS
  <2>2. d \in Int
    OBVIOUS
  <2>3. \A i, j \in DOMAIN f : f[i] = f[j] => i = j
    BY <2>1, <2>2
  <2> HIDE DEF d, Of
  <2>4. f \in [DOMAIN f -> Of(s)]
    BY <1>4
  <2> QED
    BY <2>3, <2>4 DEF Injection, IsInjective
<1>6. Cardinality(DOMAIN f) <= Cardinality(Of(s))
  <2> HIDE DEF f
  <2> QED
    BY <1>1, <1>5, FS_Injection
<1>7. Cardinality(Rest) \in Nat /\ Cardinality(Of(r)) <= Cardinality(Rest) + 1
  <2>1. IsFiniteSet(Of(r)) /\ Cardinality(Of(r)) \in Nat
    BY <1>1
  <2> DEFINE A == Of(r)
  <2> HIDE DEF A
  <2>2. IsFiniteSet(A \ {r}) /\ Cardinality(A \ {r}) \in Nat
        /\ Cardinality(A \ {r}) = IF r \in A THEN Cardinality(A) - 1 ELSE Cardinality(A)
    BY <2>1, FS_RemoveElement, FS_CardinalityType DEF A
  <2>3. Cardinality(A \ {r}) \in Nat /\ Cardinality(A) <= Cardinality(A \ {r}) + 1
    BY <2>1, <2>2 DEF A
  <2> QED
    BY <2>3 DEF A
<1> QED
  <2> HIDE DEF Rest, d, Of
  <2>1. DOMAIN f = IF r < s THEN Rest ELSE Of(r)
    OBVIOUS
  <2>2. Cardinality(Of(r)) <= Cardinality(Of(s)) + 1
    BY <1>1, <1>6, <1>7, <2>1
  <2> QED
    BY <2>2 DEF Of

(* The node of a shard is the one GetValidNodes gave its index: the nodes do *)
(* not change while the shards are allocated.                               *)
Placed ==
  /\ pc = "nodes" => \A i \in Indices : shards[i].block = Null
  /\ pc = "shard" => \A i \in Indices :
       shards[i].block # Null => shards[i].node = TargetNode(i)

(* The node of an index depends on the machine and the list of nodes alone. *)
LEMMA TargetsStay ==
  ASSUME UNCHANGED <<Machine, nodes>>, NEW i
  PROVE  TargetNode(i)' = TargetNode(i)
BY DEF TargetNode, NthOnline, Machine

(* Placed is inductive, beside Owned. *)
LEMMA PlacedInvariant ==
  /\ Init => Placed
  /\ Owned /\ Placed /\ [Next]_vars => Placed'
<1>1. Init => Placed
  BY DEF Init, Placed
<1>2. pc' \in {"idle", "base"} => Placed'
  BY DEF Placed
<1>3. ASSUME AllocateBase PROVE Placed'
  <2>1. Indices' = Indices /\ \A i \in Indices : shards'[i].block = Null
    BY <1>3 DEF AllocateBase, Indices, NoShard, Shard
  <2> QED
    BY <2>1 DEF Placed, Null
<1>4. ASSUME Placed, AllocateNodes PROVE Placed'
  <2>1. Indices' = Indices /\ \A i \in Indices : shards'[i].block = Null
    BY <1>4 DEF AllocateNodes, Placed, Indices
  <2> QED
    BY <2>1 DEF Placed, Null
<1>5. ASSUME Owned, Placed, AllocateShard PROVE Placed'
  <2> DEFINE k == NextShard
             new == Shard(Fresh, Padded(SetsSize(NumSets)), NumSets, TargetNode(k))
  <2>1. /\ pc = "shard" /\ pc' = "shard" /\ Indices' = Indices /\ DOMAIN shards = Indices
        /\ shards' = [shards EXCEPT ![k] = new]
    BY <1>5 DEF AllocateShard, Owned, Phased, TypeOK, Indices
  <2>2. new.node = TargetNode(k)
    BY DEF Shard
  <2>3. \A i : TargetNode(i)' = TargetNode(i)
    BY <1>5, TargetsStay DEF AllocateShard
  <2> HIDE DEF k, new
  <2>4. ASSUME NEW i \in Indices, shards'[i].block # Null
        PROVE  shards'[i].node = TargetNode(i)
    <3>1. CASE i = k
      BY <2>1, <2>2, <3>1
    <3>2. CASE i # k
      BY <1>5, <2>1, <2>4, <3>2 DEF Placed
    <3> QED
      BY <3>1, <3>2
  <2> QED
    BY <2>1, <2>3, <2>4 DEF Placed, Null
<1>6. ASSUME Placed, UNCHANGED vars PROVE Placed'
  <2>1. \A i : TargetNode(i)' = TargetNode(i)
    BY <1>6, TargetsStay DEF vars, Machine
  <2>2. UNCHANGED <<pc, shards>> /\ Indices' = Indices
    BY <1>6 DEF vars, Indices
  <2> QED
    BY <1>6, <2>1, <2>2 DEF Placed, Null
<1>7. ASSUME \/ \E entries \in Totals, procs \in Procs : Initialize(entries, procs)
             \/ Cleanup \/ BaseFails \/ Finish
      PROVE  pc' \in {"idle", "base"}
  BY <1>7 DEF Initialize, Cleanup, BaseFails, Finish
<1>8. ASSUME Owned, Placed, Next PROVE Placed'
  <2>1. CASE \/ \E entries \in Totals, procs \in Procs : Initialize(entries, procs)
             \/ Cleanup \/ BaseFails \/ Finish
    BY <1>2, <1>7, <2>1
  <2>2. CASE AllocateBase \/ AllocateNodes \/ AllocateShard
    BY <1>3, <1>4, <1>5, <1>8, <2>2
  <2> QED
    BY <1>8, <2>1, <2>2 DEF Next, CallCleanup, BaseThrows, ShardFails
<1> QED
  BY <1>1, <1>6, <1>8

(* The shards of a cache are spread evenly over the nodes online, each on a *)
(* node that is online, however many nodes and shards there are.            *)
THEOREM NodesShare == Spec => []NodesShareEvenly
<1>1. ASSUME Owned, Placed PROVE NodesShareEvenly
  <2> SUFFICES ASSUME pc = "shard", AllAllocated, online # {}, build = "km" => nodes # Null
               PROVE  /\ \A i \in Indices : shards[i].node \in online
                      /\ \A m, n \in online : ShardsOn(m) <= ShardsOn(n) + 1
    BY DEF NodesShareEvenly
  <2> DEFINE N == Cardinality(online)
  <2>1. /\ TypeOK /\ shardCount \in Nat /\ Indices = 0 .. shardCount - 1
    BY <1>1 DEF Owned, TypeOK, Indices
  <2>2. /\ N \in Nat \ {0}
        /\ \A n \in online : Rank(n) \in 0 .. N - 1
        /\ \A m, n \in online : Rank(m) = Rank(n) => m = n
    BY <2>1, Ranks
  <2>3. \A i \in Indices : shards[i].node = NthOnline(i)
    BY <1>1 DEF Placed, TargetNode, AllAllocated
  <2>4. \A i \in Indices : shards[i].node \in online /\ Rank(shards[i].node) = i % N
    BY <2>1, <2>3, NthIsOnline
  <2> HIDE DEF N
  <2>5. \A n \in online : {i \in Indices : shards[i].node = n} = {i \in Indices : i % N = Rank(n)}
    BY <2>2, <2>4
  <2>6. ASSUME NEW m \in online, NEW n \in online
        PROVE  ShardsOn(m) <= ShardsOn(n) + 1
    <3>1. /\ Rank(m) \in 0 .. N - 1 /\ Rank(n) \in 0 .. N - 1
          /\ shardCount \in Nat /\ N \in Nat \ {0}
      BY <2>1, <2>2
    <3> DEFINE Dealt(k) == {i \in 0 .. shardCount - 1 : i % N = Rank(k)}
    <3>2. Cardinality(Dealt(m)) <= Cardinality(Dealt(n)) + 1
      BY <3>1, DealtEvenly
    <3>3. ShardsOn(m) = Cardinality(Dealt(m)) /\ ShardsOn(n) = Cardinality(Dealt(n))
      BY <2>5 DEF ShardsOn, Indices
    <3> HIDE DEF Dealt
    <3> QED
      BY <3>2, <3>3
  <2> QED
    BY <2>4, <2>6
<1> QED
  BY <1>1, OwnedInvariant, PlacedInvariant, PTL DEF Spec
=============================================================================
