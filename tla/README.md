# OptimisticCache in TLA+

Models, model checking and proofs for the optimistic set-associative cache of
this repository - the user-mode header `um/optimistic_cache.h` and the
kernel-mode header `km/OptimisticCache.h` - and of the kernel test driver
`test_drv/TestOptCacheDrv.cpp`. Line numbers below are lines of those three
files (`um:`, `km:` and `drv:`).

## 1. The system

A cache is an array of shards, each an array of buckets ("sets") of eight
slots. A slot is a key (0 when empty), a 64-bit sequence word, and a payload of
0, 64 or 128 bits. A key hashes to one bucket and never leaves it, so buckets
are independent and one bucket is the whole of the concurrency.

| Component | State | Operations |
|---|---|---|
| User-mode bucket (um:398-412, 509-538, 793-1338) | `Keys`, `Seqs`, `Contexts` of the slots | `CheckAndInsert`, `LookupContext`, `Contains`, `Delete`, `Enumerate` |
| Kernel-mode bucket (km:206-220, 545-1078) | the same, and the caller's IRQL | the same five, written differently |
| Lifecycle (um:570-772, km:309-528) | shard array, shards, sizes | `Initialize`, `Cleanup`, `GetMemoryUsage` |
| Geometry and routing (um:601-651, 818-823; km:342-383, 704-706) | `m_shardCount`, `Mask` | rounding of the capacity, shard and set index |
| Hasher (um:451-503, km:251-273) | none | 64x64 multiply and fold, and its 32-bit form |
| Backoff and victims (um:97-125, 546-560; km:279-306, 752-760) | a thread-local generator | pause, yield, sleep; a slot number |
| NUMA allocator (um:132-252) | none of its own | valid nodes, allocate, free |
| Test driver (drv:102-1921) | the log buffer, the master and worker threads, abort and stop flags, rundown protection, latency samples | load, unload, the suite, start and stop of threads, a sort |
| StdCache (`test_common/std_cache.h`) | a map under one reader-writer lock | the benchmark's reference cache |
| User-mode test suites, kernel mock | none of their own | drive the caches |

**How they meet.** Any number of threads (and, in the kernel, DPCs) run the five
operations on shared slots, with no common lock. Writers lock one slot by a
compare-and-swap on its sequence word and publish it by storing the next even
word. Readers take no lock: they load the word, copy key and payload, and load
the word again. `Initialize` and `Cleanup` run alone, by the clients' contract.

**What is hard.** The user-mode insert overwrites the victim's key *before* it
knows that it may keep the slot, so that two inserts of one key can see one
another; who gives way is decided by slot index and by a bit of the other's
word, read before the other's key. A scan for a key is eight separate loads. A
lock is released on many exits (success, kept entry, lost key, duplicate), each
of which must publish a version. In the kernel the lock is a plain +1, a DPC may
run over the thread it interrupts, and an owner that could be interrupted would
hang it.

Initialization may fail at any of some thousand allocations. The driver may be
unloaded at any moment of a suite that runs for minutes in hundreds of threads,
all of which use the master's stack frame.

**What makes each part correct.**

- Bucket: exclusive slot locks; slots change only under their lock; no torn and
  no foreign payload is published or returned; hits are true when given; misses
  were true at some moment of the call; no key twice; every lock is released;
  readers finish when writers pause.
- Kernel bucket: the same, and no DPC ever runs over the owner of a slot of its
  processor.
- Lifecycle: every allocation freed exactly once, also half way through a
  failure; the size reported is the size held.
- Geometry: every bucket is reached and no other, and the capacity is what was
  asked for: rounded up, say the comments; up to what rounding loses, says the code. Hasher: both forms compute the same function.
- Driver: no thread outlives the image, the buffer or the frame it uses; what the
  tests found is what the log says; the driver comes to rest.

## 2. Modules

| Module | Models |
|---|---|
| `UmCacheSet` | one user-mode bucket under `Threads`, and its properties |
| `UmCacheSetHistory` | the same with a history variable, for the misses of `Contains` |
| `UmCacheSetProofs` | theorems about `UmCacheSet`, for all constants |
| `KmCacheSet` | one kernel-mode bucket under threads and DPCs |
| `KmCacheSetProofs` | theorems about `KmCacheSet`, for all constants |
| `CacheContract` | the abstract bucket: what either cache promises |
| `UmCacheSetContract`, `KmCacheSetContract` | how the two buckets implement it |
| `UmCacheSetContractProofs`, `KmCacheSetContractProofs` | that they do, for all constants; the first also has the theorem about `UmCacheSetHistory` |
| `UmWeakOrder` | one slot under the C++ memory orders of the user-mode code |
| `CacheLifecycle` | `Initialize`, `Cleanup`, `GetMemoryUsage` of both caches |
| `CacheLifecycleProofs` | theorems about `CacheLifecycle`, for all constants |
| `CacheRouting` | extends it: hash, shard index, set index |
| `CacheRoutingProofs` | theorems about `CacheRouting`, for words of up to 64 bits |
| `TestDriver` | the test driver's threads |
| `TestDriverProofs` | theorems about `TestDriver`, for all constants |
| `SampleSort` | extended by it: the driver's `QuickSort` |
| `SampleSortProofs` | theorems about the sort, for all numbers of samples |
| `MC...` | model values, symmetry sets, small constants for TLC; `MCCacheLifecycle` has the code's own constants |

### UmCacheSet

`keys`, `seqs`, `cold` are the three arrays of the bucket; `pc`, `call`, `reg`,
`ret` give each thread its place in the operation, the arguments, the C++
locals and the result. Every load, store and compare-and-swap of the shared
atomics is one action. The only joins are reads an owner makes of its own locked
slot (the old key, the old payload), which nobody else may write.

A sequence word is a version and the two low bits: 0, 1 (locked) or 3 (locked by
an insert), so `seq | 1`, `seq | 3` and `(seq + 4) & ~3` are
`LockForUpdate`, `LockForInsert` and `NextVersion`.

A payload is the pair of the key it was inserted under and a tag, carried by
each of its words; so a torn payload or one under the wrong key is visible, and
nothing else about the data is kept. Key 0 is `NoKey`, all-zero words are
`Zero`. `CheckAndInsert(key)` without a payload (um:793-797) is an insert of one
more payload and is not distinguished.

| Operation | Actions |
|---|---|
| refused key 0 | `Reject` |
| `FindHitIndex` (four callers) | `FindHit`, `FindNext`, `FindMiss` |
| update of a key found, and `Delete` | `LoadSeq`, `TryLock`, `TryFails`, `Backoff`, `CheckKey`, `WriteWord`, `WriteDone`, `Unlock`, `Abort` |
| insert of a key not found | `FindEmptySlot`, `InsertLoad`, `InsertLock`, `InsertLockFails`, `PublishIntent`, `VerifySeq`, `VerifyKey`, `VerifySkip`, `VerifyDone`, `RestoreKey`, then as above |
| `LookupContext`, `Enumerate` | `ReadSeq`, `ReadWord`, `ReadKey`, `ReadAgain`, `LookupValidated`, `EnumerateValidated` |
| `Contains` | `Snapshot`, `FindHit` .. `FindMiss`, `ConfirmHit`, `ConfirmMiss` |

`compare_exchange_weak` may fail spuriously (`TryFails`, `InsertLockFails` have
no condition on the word). The eviction victim is any slot. Spinning on a locked
slot is the reading action being disabled; a pause is nothing.

### UmCacheSetHistory

Adds `quiet`, which no action reads: whether, since a running `Contains` began,
there was a moment with no slot locked and the key in none. That is more than
the contract asks of a miss, and holds without any discipline of the clients.

### KmCacheSet

The kernel operations differ enough for a module of their own: the lock is
`seq` to `seq + 1` and `+ 1` again; `CheckAndInsert` compares and swaps without
looking at the parity (`MayTry`), `Delete` looks; the duplicate check aborts on
any locked slot; the scan remembers the first empty slot it passes (`Passing`);
`KeepExisting` without an out parameter returns from the scan; a reader leaves a
slot with another key without a second look at the word (`ReadKey`);
`LookupContext` takes an all-zero payload for no entry (`IsEmpty`); the two
halves of a 128-bit payload are copied by a plain assignment, so in either order
(`reg.todo`).

`raised` holds the callers at DISPATCH_LEVEL. `Dpcs` and `CoreOf` say who is a
DPC and who shares a processor: a DPC begins only when nobody on its processor is
at DISPATCH_LEVEL, and runs to completion over the thread it interrupts
(`MayBegin`, `MayRun`). That part models the kernel, not the header, and is
marked external.

### CacheContract and the two mappings

The abstract bucket is a map `entries` of at most `Capacity` keys. Every call
takes effect at one moment between `Begin` and its return, but for an insert of
a new key that evicts: the old entry goes at one moment (`Take`) and the new one
comes at a later one (`Add`). A query may say no if its key was missing at some
moment of the call (`missed`, kept by `Observe`, which both mappings use as it
is). `Blanks` are payloads that `LookupContext` takes for no entry: none in user
mode, the zero payload in the kernel.

The mappings say what the bucket holds while writers are half way through:

- user mode: a slot whose key an insert has covered holds nothing
  (`Covered`) - the old entry is taken by the store of the intent (um:912) and
  comes back if the insert aborts, which under one insert per key never happens;
  an entry under update holds the old payload until the unlock;
- kernel: an insert takes the old entry when it stores its key (km:881) and shows
  the new one when it unlocks; `Delete` takes its entry when it clears the key.

What the contract does not promise: that an insert evicts only when the bucket is
full. A victim is chosen from a scan, and a slot may have become free since.

### UmWeakOrder

One slot, updates of a payload of two words, and lookups, in the usual
view-based memory: a location is the list of its stores; a thread reads any that
is not older than what it has to know of; a release store carries the thread's
knowledge, an acquire load takes it; a fence takes what relaxed loads have seen.
There are no speculative writes, so every execution found is allowed by C++, and
not every execution allowed is found. The key stays, so its loads are left out.

### CacheLifecycle and CacheRouting

One module for both classes, `build` says which: they differ in constants and in
few steps. `heap` is the set of live blocks with their sizes, `base`, `nodes` and
`shards[i].block` the pointers the cache keeps. Each allocation is a step that
succeeds or fails (`BaseFails`, `ShardFails`, `BaseThrows` for a user's allocator
policy that throws); `Cleanup` is part of the step that calls it, as its order of
frees is not observable. A block held by two pointers, or by
none, would show in `HeapIsOwned`. The allocator puts blocks anywhere relative to cache lines
(`skew`), and the set of online nodes is any set, in user mode any but the empty
one: the list of the default allocator always has a node (um:172-175, 183). An
allocator of the user's own with an empty list is not modelled; um:617 expects it,
um:667 divides by its length.

`TwoTo` is 1 shifted left. `Doublings` bounds what is rounded: requests and shard counts
are at most 2^`Doublings`, which may be up to 2^63, the largest power of two in a
word. Sizes in bytes are not cut to a word: a request for more memory than a
word can count, whose `hotSize` (um:655) would wrap around, is not modelled.

| Code | Definitions |
|---|---|
| shard count um:600-614, km:343-360 | `CountShards` |
| sets of a shard um:641-651, km:378-383 | `Share`, `NumSets` |
| blocks um:621, 663, 680, km:367, 428-436 | `BaseBytes`, `Padded`, `Offset`, `SetsSize` |
| nodes um:136-188, 667, km:385-421 | `NthOnline`, `TargetNode`, `AllocateNodes` |
| shard loop and unwinding um:665-722, km:410-475 | `AllocateShard`, `ShardFails`, `BaseThrows`, `Finish` |
| `Cleanup` um:748-772, km:506-528 | `Release`, `Cleanup`, `CallCleanup` |

`CacheRouting` adds the hash of a key in both forms (um:457-502) and the bucket
it leads to (um:818-823, km:704-707). A word has `HashBits` bits and the shifts
are fractions of it, so the arithmetic is that of the code at another width, and
with 64 at its own. `Xor` and `And` are recursive functions on the bits, which the
provers can unfold; the library's `Bitwise` has RECURSIVE operators, which they
cannot. `MCCacheRouting` has TLC compare the two on all words of the run
(`OperatorsAreBitwise`).

### TestDriver and SampleSort

`sys` is the system's thread in `DriverEntry` and `DriverUnload`, `master` the
thread of `RunBenchmarks`, `threads` the workers. The suite is the list of tests
of `RunTestsForContext` (drv:1725-1779) with one sweep for the four; a test is a
record of which worker it starts, whether it sweeps over thread counts, and
whether its result counts. The steps a test is made of are shared by all:
`InitializeCache`, `AllocateManager`, `StartThread` (created; not created; created
and not referenced), `SetEvent`, `Go`, `Stop`, `AwaitThreads` (in chunks, or one
by one when the array could not be allocated), `CleanUp`, `Verify`. `Return` is
the `TEST_REQUIRE` and the caller's `if`. Each worker function is an action, with
what it heeds: all stop at the stop flag but the tail latency worker, which stops
when its samples are full or the tests are aborted. What a lookup returned is any
answer: a checking worker may find wrong data at any turn.

`samples` get their values when they are first read, at the start of the sort:
before, each thread writes its own part of the array, which nobody reads, so only
how many it has stored (`taken`) matters.

`SampleSort` is the sort as it is, one step per turn of the inner loop, with the
indices and the stack of ranges.

Operators called "Mutant of ..." are wrong variants of the definition that
follows them: a bug each property is known to notice. No specification uses them.

## 3. Runs

All bounds but one (`FewLocks`) are constants. Two slots and two keys make the situations of a scan
possible: another key before or after, an empty slot or none, a victim that is
the key's own slot, a duplicate on either side of the tie-break; where an
eviction has to happen under a discipline there are three keys. Two words make a
payload that can tear; where only the presence of entries matters there is one.
`MaxVersion` / `MaxSeq` bound how often one slot can be locked: twice per slot
lets an entry be inserted and then replaced, evicted, deleted or masked and
restored. `FewLocks` of `KmContract` bounds the two slots together: three locks
fill both and evict an entry.

| Run | Instance | Shows |
|---|---|---|
| `UmBucket` | 2 threads, 2 keys, 2 tags, 2 slots, 2 words, 2 versions | eight safety properties under any calls (1.1M states) |
| `UmOneInserter` | 2 threads, 2 keys, 1 tag, 2 slots, 1 word, 3 versions, no two inserts of one key at once | `NoDuplicateKeys`, and `ImplementsContract` (0.6M states) |
| `UmLive` | 2 threads, 1 key, 2 slots, 1 word, 2 versions | `LockedSlotIsReleased`, `ReadersFinish` |
| `UmDuplicates` | `Spec`, 1 word | violated: one key in two slots |
| `UmWeakOrder` | 1 updater, 1 reader, 2 updates | violated: a mixed payload is returned |
| `KmBucket` | 2 threads, 2 keys, 2 slots, 1 word, 3 locks | `TypeOK`, `WordCountsOwners` under any calls (1.5M states) |
| `KmContract` | 2 threads, 3 keys, 2 slots, 2 words, 2 locks of a slot and 3 in all (`FewLocks`), no insert beside another writer | exclusive locks, whole payloads, `ImplementsContract` (0.6M states) |
| `KmDpc` | 2 threads and a DPC, 1 slot, no payload, 2 locks | DPC safety, locks released, DPC readers finish |
| `KmTorn` | 2 threads, 1 slot, 2 words | violated: a mixed payload is returned |
| `CacheLifecycle` | both builds, nodes 0..2, up to 4 shards, 4 capacities, 4 alignments, words of 8 bits | nine properties of allocation, geometry and routing (0.2M states) |
| `UmCapacity` | user mode with the code's own constants, 1 processor, a request of 8199 | violated: 8192 slots |
| `TestDriver` | 3 workers, 1 context size, 3 samples each, waits for 2 at a time | ten properties, two of them temporal (0.35M states) |

Threads, keys and tags are symmetric in the safety runs, as the code compares
keys only with one another and with 0; liveness runs use no symmetry. In `KmDpc`
without a payload `LookupContext` does not exist, and `Contains` and `Enumerate`
are the readers. Runs with a single tag: two payloads of one key are then the
same, which matters only where payloads are compared (`UmBucket` has two).

`ImplementsContract` contains more than it says at first sight: an `Add` finds its key
missing, so no key is published twice; a `Take` of an insert takes another key,
so no insert evicts its own entry; reports, hits, replaced, evicted and deleted payloads
are those of the map; a miss of `LookupContext` and `Delete` was one. It holds under
a discipline of the clients, and says nothing of what needs two inserts of one key
at once: the tie-break (um:932), which only `UmDuplicates` reaches; an abort
that restores a covered key (um:951), which `PublishedEntriesAreWhole` covers in
`UmBucket`; a slot that has received the key itself (um:903, km:817), below.

In `CacheLifecycle` the scale is small and the shape is kept: the shard cap, the
fallback for an unknown number of processors, the lower limit of a shard (user
mode), capacities that divide and that do not, and an odd `ShardSize` so that
contents really need their padding. `Seed` and `Prime` make half products that
carry. In `TestDriver` three workers make two waits of the threads (2 and 1), and
a sweep of 1, 2 and 3 threads; nine samples give the sort a range that waits.
Latencies are 0 or 1: ties and descents are what the scans depend on, and with three
values the state space exceeds what can be explored. Deadlock is not checked
there, as an unloaded driver does nothing any more, nor in `UmWeakOrder`, which stops
at its bound.

### What the violated runs show

- **UmDuplicates.** Readme.md:187 promises no duplicate keys. Thread A locks
  slot 0, publishes its intent, checks slot 1 and decides; thread B then locks
  slot 1, finds the key in slot 0 with word `seq|3`, and goes on because its
  index is higher and A "will abort". A has already passed its check.
- **UmWeakOrder.** um:330-332 says that the sequence loop detects every tear. The
  update path locks with an acquire compare-and-swap and then stores the halves
  relaxed: nothing orders the store of the odd word before those of the halves for
  an observer. A reader that loads the even word, one new and one old half, and
  the even word again, returns the mixture. With a release fence after the
  compare-and-swap the lookup's acquire fence would make the odd word known to
  a reader of any new half; TLC then finds no violation. `Delete` (um:1223-1238)
  has the same shape. x86 keeps stores in order, so it does not show there.
- **KmTorn.** `CheckAndInsert` accepts an odd word (km:762-793; the bounded spin
  at km:774 may end with one): the second writer makes the word even inside the
  first one's critical section, and readers validate what both are writing.
- **UmCapacity.** um:588-590 and km:327-330 say that a request is rounded
  up. It is divided by the shard count, and in user mode by 8, rounding down
  (um:641-647, km:380), before it is rounded up to a power of two: on one processor
  8199 entries become 8192 slots, in either build. `CapacityIsClose` says what is left of the promise: the
  shortfall is less than a set per shard in user mode and less than an entry per
  shard in the kernel.

### Found without a run of their own

- um:790 and km:688 say that an insert answers `Inserted` if a new key was added; an
  evicted key is one that made room. With two inserts of one key, thread B chooses
  an empty slot from its scan; thread A inserts the key there and is done; B locks
  the slot, checks every slot but this one (um:919, km:817), evicts the key it
  inserts, even under `KeepExisting`, and says `Inserted`. In the kernel this
  needs no two writers in one slot: it is a gap besides that of `KmTorn`. The models
  have these behaviours in the runs under any calls.
- An insert covers its victim's key (um:912), finds a duplicate, and restores the
  key (um:951). A `LookupContext`, a `Delete` or another insert that scans in
  between misses the covered key, though its entry never left. `Contains` is
  immune (`ContainsMissWasAbsent` holds under any calls). It takes two inserts of one
  key, so `UmOneInserter` excludes it.
- A kernel entry with an all-zero payload is there for `Contains`, `Delete`,
  `Enumerate` and inserts, and not for `LookupContext` (km:597 against
  km:542-543). The contract has it as `Blanks`.
- After the shard array could not be allocated, user-mode `GetMemoryUsage`
  reports the size it would have had (um:621-627), until `Cleanup`; `UsageIsExact`
  excepts that state.
- If no node has an active processor, the kernel takes node 0 for all shards, from
  the zeroes of the list (km:405-421).
- A worker that `StartThreads` cannot reference is waited for (drv:465) while it
  spins for `lStartFlag`, which is set after `StartThreads` returns: the driver hangs
  (`Stuck`, the exception of `DriverComesToRest`). Setting the stop flag, as the code
  does, does not help, as the spin does not look at it.
- The sweeps' results are dropped (drv:1762-1771), and a tail latency test that is
  aborted returns TRUE (drv:1539, 1693): if it is the last test, an aborted suite says that all
  tests finished successfully. `SuccessMeansSuccess` names both.
- `QuickSort` drops uJ's sample from both parts though it need not be in its
  place: 1, 2, 0 becomes 1, 0, 2. The percentiles are approximate.
- A `DriverEntry` that fails leaves the log buffer allocated (drv:1910, 1918).

`UmOneInserter` and `KmContract` say what clients can rely on all
the same: one insert per key at a time is enough in user mode; in the kernel an
insert must not overlap an insert or a delete of the bucket.

### Fairness

`FairSpec` of the buckets asks weak fairness of each thread's running operation,
and nothing of clients, who need not call. This is a scheduler that runs each
runnable thread now and then; an owner never waits (its steps are always
enabled), so no more is needed. `ReadersFinish` and `DpcReadersFinish` hold because
slots are locked only finitely often within the bounds: the Readme says that
readers may starve under permanent writes, and so they may. In the kernel the
fairness of an interrupted thread applies only when no DPC has its processor.

`FairSpec` of the driver asks it of the system's thread, of the master and of
each worker: the kernel runs every thread that can run, and the waits are for
conditions that stay true. Nobody has to request an unload (`RequestUnload` is
not among the fair steps).

## 4. Proofs

`UmCacheSetProofs` proves, for every set of threads, keys and tags and every
number of slots, words and versions:

| Theorem | Statement |
|---|---|
| `Typing` | `Spec => []TypeOK` |
| `Ownership` | `Spec => []SlotOwnership` |
| `Stability` | `Spec => StableUnlessLocked` |
| `OneVersionPerRead` | `Spec => []ReadersSeeOneVersion` |
| `WholeEntries` | `Spec => []PublishedEntriesAreWhole` |
| `WholeAnswers` | `Spec => []ReturnedContextsAreWhole` |
| `CurrentHits` | `Spec => HitsAreCurrent` |

Assumptions are those of `UmCacheSet`: `NumSlots` positive, `NumWords` and
`MaxVersion` natural, `NoKey` no key and `Zero` no payload.

The argument has four layers, each inductive relative to the ones before.

1. **Frame.** A step of a thread changes only its own entry of `pc`, `call`,
   `reg`, `ret` (`Frame`), and a list of steps is all that touches the bucket
   (`BucketFrame`). `Phases` classifies a step by what it does to a lock: takes
   one, gives one up, or neither.
2. **Locking** = `TypeOK`, `SlotOwnership` and `LocalSeqs`. Ownership alone is
   not inductive: that a compare-and-swap takes a free slot needs the local
   copies to be even when they are compared, and that the unlock stores the
   successor needs the owner's copy to be the word in memory.
3. **One version.** With locking, words and keys move only in owned slots
   (`WordsMove`, `NothingMoves`), so versions grow whenever contents change, and
   a word that is still there means that the contents are.
4. **Contents** = `PublishedEntriesAreWhole`, and for each owner what it has
   done so far (`Doing`), how much of the payload it has filled in (`Filled`) and
   what it has captured (`Captured`). An unlocked slot being whole is not
   inductive: the abort of an insert is whole because the old key is kept in a
   local and the old payload has not been touched. `WholeAnswers` and
   `CurrentHits` follow from this and from the version of a validated read.

`UmCacheSetContractProofs` stands on `Locking`, `Contents` and
`ReadersSeeOneVersion` and proves, for the same constants:

| Theorem | Statement |
|---|---|
| `AbsentMisses` | `HSpec => ContainsMissWasAbsent` |
| `OneSlotPerKey` | `CDisciplinedSpec => []NoDuplicateKeys` |
| `BucketImplementsContract` | `CDisciplinedSpec => ImplementsContract` |

- **A miss of `Contains`** needs `WillFind`: from the end of its first pass on, a
  `Contains` that has not met the key's absence has a slot still ahead of it that
  holds the key, or whose word has moved. Words move away from an even value
  for good (`SlotSince`), so a key that goes from a slot ahead to one behind
  leaves a moved word, and the second pass meets it.
- **One slot per key** needs `Unique`: what an insert's scan has found out stays
  true, because only its own thread can bring its key into the bucket. So the
  key is in no slot the scan has passed, then in none at all, and the duplicate
  check never meets it: `restore` is out of reach under the discipline.
  `NoDuplicateKeys` alone is not inductive, and speaks of unlocked slots only;
  `Distinct` speaks of all.
- **The refinement** has the invariant `Refinable`: `Unique`, the facts the
  mapping needs (`PayloadFacts`, `HeldFacts`, `Views`: what a slot shows does not
  depend on which `CHOOSE` picks it once keys are distinct), one version per
  read, and `Faithful`. `Faithful` has `Written`, what a writer is about to publish, and
  `Noted`: while no moment without the key has been noted for a query, some slot
  not behind its scan shows the key. That is what makes each miss a miss of the
  contract. `StepAct` maps every step: outside the locks (`OutsideAct`), the ones
  that take one (`TakesAct`), those of an owner that hide an entry (`TakeAct`,
  `HiddenAct`) or change nothing (`KeepsAct`), and the two that give up a lock
  (`UnlockAct`, `AbortAct`). `RoomForOne` counts: a slot that shows nothing leaves
  room for one more key.

`KmCacheSetProofs` proves, for every finite set of callers, every assignment of
processors, all keys and tags, every number of slots and words and every `MaxSeq`:

| Theorem | Statement |
|---|---|
| `KmTyping` | `Spec => []TypeOK` |
| `KmParity` | `Spec => []WordCountsOwners` |
| `KmPreemption` | `Spec => []PreemptedOwnsNothing` |
| `KmOwnership` | `DisciplinedSpec => []SlotOwnership` |
| `KmWholeEntries` | `DisciplinedSpec => []PublishedEntriesAreWhole` |
| `KmWholeAnswers` | `DisciplinedSpec => []ReturnedContextsAreWhole` |

Assumptions are those of `KmCacheSet`; finiteness of `Threads` is needed where
owners are counted. The first three hold under any calls.

1. **Placed** = `TypeOK` and `Shape`: which operations are at which label, and that
   an owner is at DISPATCH_LEVEL. `Phases` again sorts steps into `Takes`, `GivesUp`
   and `Keeps`.
2. **Parity.** A step that takes or gives up moves the word by one and the number
   of owners by one (`OwnersMove`). Nothing is said of exclusion, which the kernel does
   not have: two inserts may own one slot.
3. **Preemption.** `PreemptedOwnsNothing` is inductive relative to `Placed`: a DPC begins
   over no raised caller, and an interrupted thread does not run.
4. **Locking**, under the discipline: `TakesFree` says that the word a writer takes is
   even - `Delete` has looked, and an insert is alone - and exclusion follows.
5. **Contents** = entries and answers whole, and for each caller what it has
   written (`Doing`), captured (`Captured`) and read (`Agreeing`: where the word is still
   the one read, so are key and words). `OwnAgrees` is about the caller that steps,
   `OthersAgree` about the others.

`KmCacheSetContractProofs` stands on `Sound` = `Locking` and `Contents`, and proves
for the same constants:

| Theorem | Statement |
|---|---|
| `KmBucketImplementsContract` | `CDisciplinedSpec => ImplementsContract` |

- **One slot per key**, here of all slots at any time (`Distinct`), is not inductive. It
  needs `Searched`: the keys move by owners only, and while an insert runs nobody else
  owns a slot (`OthersOwnNothing`), so an insert that has scanned past a key's absence
  can rely on it, the duplicate check finds no locked slot and no key, and an insert
  never reaches `Abort`. `Located` and `Copied` say what locals hold at each label.
- **The map.** `Views` says what a slot shows by itself and in the hands of its owner;
  `OneSlotMoves` that a step shows in one slot at most, `EntriesMove` what that does to
  the map.
- **Misses.** A reader leaves a slot with another key without looking at its word
  again, and `Delete` its whole scan. `Noted`: until a moment without the key has been
  noted, one slot shows the key; it is not behind the scan (`ScanMoves`), because
  between two slots an entry is in none (`EntriesDoNotWander`), and it is the slot a
  `Delete` has chosen (`ChoiceMoves`), so that one that aborts has missed its key.
  An entry whose payload is all zeroes is missed by `LookupContext` alone
  (`NoMatchIsElsewhere`).
- **Steps.** `StepAct` maps each: outside the locks (`OutsideAct`; `SightAct` is
  `KeepExisting` without somewhere to put the payload, which returns at the sight of an
  unlocked key), `TakesAct`, `KeepsAct`, `UnlockAct`, `AbortAct`.

`CacheLifecycleProofs` proves, for every number of nodes and processors, every
capacity and all sizes, limits and lines:

| Theorem | Statement |
|---|---|
| `LifecycleTyping` | `Spec => []TypeOK` |
| `NoBlockIsLost` | `Spec => []HeapIsOwned` |
| `UsableIsWhole` | `Spec => []UsableMeansWhole` |
| `BlocksHaveRoom` | `Spec => []ContentsFitTheirBlock` |
| `UsageIsTold` | `Spec => []UsageIsExact` |
| `CapacityKept` | `Spec => []CapacityIsClose` |
| `NodesShare` | `Spec => []NodesShareEvenly` |

The assumptions (`ScaleAssumption` and its neighbours) say that limits are
positive and that requests and shard counts are at most `Scale`, which is any power
of two up to 2^63: beyond it the rounding of the model names no number, and
`std::bit_ceil` no `size_t`. So `CapacityKept` is about every request up to 2^63, and
about every division: with `Scale` that large a share is not held at the lower limit.
`DoublingExists` and `Doubled` show that `TwoTo` is defined and doubles. `LeastAssumption` says that the lower limit of a shard is nothing, or a
power of two of sets: 256 entries are 32 of them. Without it `CapacityIsClose` is
false, as a shard of the lower limit would be rounded up. The inductive invariant is `Owned`: `HeapIsOwned` and what it needs.
`Phased` ties the phase of `Initialize` to the pointers that are set - a new
array loses no old one because there is none. `Distinct` says that different
pointers hold different blocks; without it a block that comes or goes need not
change the number of owners by one. `Scaled` and `Even` tie the sizes in the
heap to those kept for the frees. `FreshIsFree` shows that an unused name
exists, `LeastIsThere` that the choices of the model are defined.

The last three theorems go on from `Owned`:

- **Usage** is a sum over shards, equal to a sum over blocks. `SumOf` is a fold, which
  the library defines by recursion over sets and by a choice in each. `FoldsExist`
  shows that such a function exists on the subsets of a finite set, `AddsAgree`
  that the order of the choices does not matter, `OneMore` and `EqualSum` what
  follows: a sum of equal terms is a product. That is induction, which the
  library states with an operator as a parameter; `AllNaturals` states it with a set, and
  proves it from the least member. `WholeHeap` says what a complete cache holds: the
  array, and shards of one size. `Counted` adds to `Owned` that a cache in use has
  shards and one without them reports nothing.
- **Capacity.** `SlotsOfAShard` bounds one shard on both sides: `RoundedUp` (each power
  but 1 is twice another, so the least one that suffices is less than twice what
  is needed) and `RoundedDown`, which loses less than the divisor.
- **Nodes.** `Placed`, inductive: the i-th shard is on the node of rank i modulo the
  number of nodes online (`Ranks`: the ranks are 0 to N - 1, by induction over the nodes'
  numbers). `DealtEvenly`: a shift of indices takes the shards of one node into
  those of another, but for one.

`CacheRoutingProofs` proves, for the same constants, words of 8, 16, 32 and 64 bits,
every seed and every factor:

| Theorem | Statement |
|---|---|
| `HashersAgree` | `RSpec => []HasherFormsAgree` |
| `BucketsAreReached` | `RSpec => []EveryBucketIsReached` |

`MasksAssumption` says that the cap on shards is a power of two that a quarter of a word
numbers, and that half a word numbers the sets of a shard. The code's caps (4096 and
1024) satisfy it for words of 64 bits, and so do requests of up to 2^35 entries, which is
what `BucketsAreReached` is about; beyond them the masks would reach into the bits that
the shard index is made of. `ShiftedTwice` relates the parts of a word.

- **Bits.** `BitsExist` and `BitsFollow` show that the recursive functions are defined and
  obey their equations. From these, by doubling (`EveryPart`) and by halving
  (`EveryPair`): the upper bits of `Xor` come from the upper bits and the lower from the
  lower (`UpperBits`, `LowerBits`), a word comes of words (`XorIsAWord`), doing
  it twice undoes it (`Undone`), and `And` with a mask of ones is the remainder (`Masked`).
- **Hasher.** `ProductOfHalves`: the four products and their carries are the quotient and
  the remainder of the whole product by a word; the sum `upper` does not overflow.
- **Buckets.** `Masking`, inductive: the count of shards is a power of two within the
  quarter. `SetsAreMasked` bounds the sets. With that, indices are remainders, so no hash
  leads out, and `SomeHashLeads` gives a hash for each bucket: the shard's number
  mixed with its own upper half, which the second shift undoes, and below it the
  set's number mixed with what the shift by 32 brings down on it.

`TestDriverProofs` proves, for every positive number of threads, contexts and
samples and every size of a wait:

| Theorem | Statement |
|---|---|
| `DriverTyping` | `Spec => []TypeOK` |
| `SafeUnload` | `Spec => []NothingRunsWhenUnloaded` |
| `TestsOutliveTheirWorkers` | `Spec => []WorkersHaveTheirTest` |
| `NoFindingIsLost` | `Spec => []CorruptionIsReported` |
| `SuccessIsTrue` | `Spec => []SuccessMeansSuccess` |
| `CompleteSamples` | `Spec => SamplesAreComplete` |

All six follow from one inductive invariant, `Driving`, of five parts; none of the
properties is inductive alone. `Typed` adds the fields of the team to `TypeOK`.
`Lifecycle` ties the system's thread to the master: that nothing runs when the log
is freed needs `AwaitMaster`, and `Crew` below for the rest. `Crew` ties the master to
the workers: a running worker is held, so it will be waited for, or it is the one
that could not be referenced, for which the master waits right then; a worker that
has been waited for has ended; outside the phases of a team there is none. `Noted`
follows wrong data from the worker that saw it to the verdict, `Counted` a failed
test. The frames (`SystemFrame`, `MasterFrame`, `WorkerFrame`) say what each party
leaves alone, and `MasterSteps` sorts the master's steps into those that return from a
test and those that go on.

`SampleSortProofs` goes on from `Driving` and proves of the sort, for every number of
samples and whatever they are:

| Theorem | Statement |
|---|---|
| `SortInRange` | `Spec => []SortStaysInRange` |
| `SortSplits` | `Spec => []SortSplitsInOrder` |
| `SortStackBounded` | `Spec => []SortStackIsSmall`, with fewer than 2^31 samples |

- **The scans** look at no bound but 0; what stops them is a sample. `Scanning`, the
  inductive invariant, has what `SortStaysInRange` lacks: below `i` and above `j` every
  sample is on its side of the pivot, and ahead of each scan, in the range, is a
  sample that stops it. At first that is the pivot itself, after a swap the sample that
  went to the other side (`SwapSorts`); the pivot's index follows its sample, so its
  value stays. `ScansStop` draws both properties from it, with `LeastMember` and
  `GreatestMember` for the choices of `Up` and `Down`.
- **The stack.** `Halved`: what waits at place m, and what is being sorted on top of it,
  has been halved m - 1 times, as the larger part waits (`TwoParts`); and no two of them
  overlap. A range being sorted has at least two samples, hence the bound. The
  provers know a power of two only when its exponent is a number, so `Powers` lists
  the 31 that 2^31 samples allow (`FewSamples`, an assumption of this theorem only:
  the driver takes 50000 per thread, which would be 42949 threads).
- `TimesAssumption` says that latencies are naturals. Outside its phase the driver
  leaves the sort alone (`MasterLeavesSort`).

Every invariant and every action property that a run checks is stated by one of
these theorems. Model-checked only is liveness (`LockedSlotIsReleased`,
`ReadersFinish`, `DpcReadersFinish`, `DriverComesToRest`), which is out of the
prover's reach, like `ENABLED`.

## 5. Not modelled

- **Weak memory** beyond one slot of the user-mode update and lookup: the models
  of the buckets interleave sequentially consistently. The insert path has its
  fence (um:913) and is not in `UmWeakOrder`; neither are the volatile accesses of
  the kernel on ARM64, whose meaning is the compiler's.
- Wrap-around of the 62-bit version, and of 32-bit products of a processor count.
- `CacheSetHot` is `alignas(128)` at an address aligned to 64 (um:395, 669):
  undefined by the language, without effect in the models.
- The policy that chose a block's node when memory was short
  (um:191-228), the pauses, and the distribution of victims.
- The driver: what tests insert and look up, the text and the offset of the log,
  the fallback of the sort for a full stack (`SortStackIsSmall` shows it is never
  reached), thread affinity and priority.
- `StdCache`: a map behind one lock, for comparisons of speed. It reads
  `m_maxCapacity` outside the lock, which matters only if `Initialize` or `Cleanup`
  overlap other calls; no caller does that.
- User-mode test suites, the kernel API mock, build files: no state worth a model.

## 6. Plan

Done: the two buckets and the proofs about them, the contract and the proofs of its
two refinements, the weak order of one slot, lifecycle and routing, the driver with
its sort, and the proofs about them.
Left:

1. The insert path under the weak order, with its fence.
