---------------------------- MODULE CacheRouting ----------------------------
(***************************************************************************)
(* How an operation finds the bucket of its key: Hasher, the index of the   *)
(* shard and that of the set in it, on the cache CacheLifecycle has built.  *)
(* A word has HashBits bits; the shifts by 32, 48 and 56 are by a half,     *)
(* three quarters and seven eighths of a word.                              *)
(***************************************************************************)
EXTENDS CacheLifecycle

CONSTANTS
  HashBits,       \* 64
  Seed, Prime     \* kSeed, kPrime

ASSUME HashBitsAssumption == HashBits \in {8, 16, 32, 64}

VARIABLE
  route           \* the key asked for last, its hash and its bucket, or NoRoute

rvars == <<vars, route>>

Eighth == TwoTo[HashBits \div 8]
Quarter == TwoTo[HashBits \div 4]
Half == TwoTo[HashBits \div 2]
Word == Half * Half
Words == 0 .. Word - 1
RouteKeys == 1 .. Word - 1
NoRoute == [key |-> 0, hash |-> 0, shard |-> 0, set |-> 0]

ASSUME HasherAssumption == Seed \in Words /\ Prime \in Words
(* A quarter of a word numbers the shards, half a word the sets of each. *)
ASSUME MasksAssumption ==
  \A b \in Builds :
    /\ MaxShards[b] \in PowersOfTwo /\ MaxShards[b] <= Quarter
    /\ \A n \in Totals \cup {LeastPerShard[b]} : n <= Half * SlotsPerSet

(* The operators ^ and &, from the lowest bit on. *)
XorBits[w \in Words \X Words] ==
  IF w = <<0, 0>> THEN 0
  ELSE ((w[1] + w[2]) % 2) + 2 * XorBits[<<w[1] \div 2, w[2] \div 2>>]
AndBits[w \in Words \X Words] ==
  IF w = <<0, 0>> THEN 0
  ELSE (w[1] % 2) * (w[2] % 2) + 2 * AndBits[<<w[1] \div 2, w[2] \div 2>>]
Xor(a, b) == XorBits[<<a, b>>]
And(a, b) == AndBits[<<a, b>>]

(* The compilers that multiply words to two words. *)
Fold(key) ==
  LET p == Xor(key, Seed) * Prime
  IN  Xor(p % Word, p \div Word)

(* Mutant of FoldByHalves: the sum of the middle loses its carry. *)
FoldNoCarry(key) ==
  LET z == Xor(key, Seed)
      al == z % Half        ah == z \div Half
      bl == Prime % Half    bh == Prime \div Half
      cross == (((al * bl) \div Half) + ((ah * bl) % Half) + ((al * bh) % Half)) % Half
      upper == ((ah * bl) \div Half) + ((al * bh) \div Half) + (ah * bh)
      lower == (cross * Half) + ((al * bl) % Half)
  IN  Xor(lower, upper)

(* The others: four products of half words, and the carries between them. *)
FoldByHalves(key) ==
  LET z == Xor(key, Seed)
      al == z % Half        ah == z \div Half
      bl == Prime % Half    bh == Prime \div Half
      ll == al * bl         hl == ah * bl
      lh == al * bh         hh == ah * bh
      cross == (ll \div Half) + (hl % Half) + (lh % Half)
      upper == ((hl \div Half) + (lh \div Half) + (cross \div Half) + hh) % Word
      lower == ((cross * Half) % Word) + (ll % Half)
  IN  Xor(lower, upper)

(* Only um is built for 32-bit processors. *)
Hashers(key) ==
  {Fold(key)} \cup {FoldByHalves(key) : b \in {build} \cap {"um"}}

ShardIndex(hash) ==
  And(Xor(hash \div (Half * Quarter), hash \div (Half * Quarter * Eighth)),
      shardCount - 1)

SetIndex(hash, sets) ==
  And(IF build = "um" THEN Xor(hash, hash \div Half) ELSE hash, sets - 1)

Bucket(hash) ==
  LET i == ShardIndex(hash) IN <<i, SetIndex(hash, shards[i].sets)>>

RInit == Init /\ route = NoRoute

Route(key) ==
  /\ pc = "idle" /\ usable /\ route = NoRoute
  /\ \E hash \in Hashers(key) :
       route' = [key |-> key, hash |-> hash,
                 shard |-> Bucket(hash)[1], set |-> Bucket(hash)[2]]
  /\ UNCHANGED vars

RNext ==
  \/ \E key \in RouteKeys : Route(key)
  \/ route # NoRoute /\ route' = NoRoute /\ UNCHANGED vars
  \/ route = NoRoute /\ Next /\ UNCHANGED route

RSpec == RInit /\ [][RNext]_rvars
-----------------------------------------------------------------------------
(* The build for 32-bit processors and the one for 64 send a key to the same *)
(* bucket: the multiplication by halves is exact.                           *)
HasherFormsAgree == route # NoRoute => route.hash = Fold(route.key)

(* The buckets that hashes lead to are exactly those the cache has. *)
EveryBucketIsReached ==
  pc = "idle" /\ usable /\ route = NoRoute =>
    {Bucket(hash) : hash \in 0 .. Word - 1}
      = {<<i, s>> : i \in Indices, s \in 0 .. shards[0].sets - 1}
=============================================================================
