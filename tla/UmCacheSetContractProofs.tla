---------------------- MODULE UmCacheSetContractProofs ----------------------
(***************************************************************************)
(* The bucket of the user-mode cache for callers that never insert one key  *)
(* by two calls at the same time: no key is in two slots, and the calls do  *)
(* what CacheContract promises, for every number of threads, keys, slots    *)
(* and payload words.  And for all callers, that a negative answer of       *)
(* Contains is a snapshot of the whole bucket.                              *)
(***************************************************************************)
EXTENDS UmCacheSetContract, UmCacheSetHistory, UmCacheSetProofs, FiniteSetTheorems

(***************************************************************************)
(* One slot per key.  No slot, locked or not, holds the key of another.     *)
(***************************************************************************)
Distinct ==
  \A s, u \in Slots : s # u /\ keys[s] # NoKey => keys[s] # keys[u]

Missing(t) == \A s \in Slots : keys[s] # call[t].key

(* An insert whose scan has found nothing, until its key is in the bucket. *)
Searching == {"empty", "insertLoad", "insertTry", "intent"}

(* What an insert has found out stays true: only its own thread may bring *)
(* its key into the bucket.  So it never meets a duplicate, and "restore" *)
(* is out of reach.                                                       *)
Searched(t) ==
  /\ pc[t] = "find" /\ call[t].op = "Insert" =>
       \A s \in Slots : s < reg[t].i => keys[s] # call[t].key
  /\ pc[t] \in Searching => Missing(t)
  /\ pc[t] = "verifyKey" => reg[t].i # reg[t].hit
  /\ pc[t] # "restore"

Unique == OneInserterPerKey /\ Distinct /\ \A t \in Threads : Searched(t)

(* Keys change in two ways once nothing is restored: an insert publishes  *)
(* its intent (um:912), a delete clears the key of its slot (um:1238).    *)
LEMMA KeysMove ==
  ASSUME Locking, Contents, NEW t \in Threads, Step(t), pc[t] # "restore"
  PROVE  \/ keys' = keys
         \/ /\ PublishIntent(t) /\ reg[t].hit \in Slots
            /\ keys'[reg[t].hit] = call[t].key
            /\ \A s \in Slots \ {reg[t].hit} : keys'[s] = keys[s]
         \/ /\ WriteDone(t) /\ call[t].op = "Delete" /\ reg[t].hit \in Slots
            /\ keys'[reg[t].hit] = NoKey
            /\ \A s \in Slots \ {reg[t].hit} : keys'[s] = keys[s]
<1>1. keys \in [Slots -> Keys \cup {NoKey}] /\ reg[t].hit \in Slots
  BY DEF Locking, TypeOK, Regs
<1>2. CASE Takes(t) \/ GivesUp(t)
  BY <1>2, WordsMove
<1>3. CASE WriteWord(t)
  BY <1>3 DEF WriteWord
<1>4. CASE WriteDone(t)
  BY <1>1, <1>4 DEF WriteDone
<1>5. CASE PublishIntent(t)
  BY <1>1, <1>5 DEF PublishIntent
<1>6. CASE RestoreKey(t)
  BY <1>6 DEF RestoreKey
<1>7. CASE ~Takes(t) /\ ~GivesUp(t) /\ ~Fills(t)
  BY <1>7, NothingMoves
<1> QED
  BY <1>2, <1>3, <1>4, <1>5, <1>6, <1>7 DEF Fills

(* An insert finds its key in no slot that another thread has written. *)
LEMMA SearchedByOthers ==
  ASSUME Locking, Contents, Unique, NEW t \in Threads, Step(t),
         NEW u \in Threads \ {t}
  PROVE  Searched(u)'
<1>1. pc'[u] = pc[u] /\ reg'[u] = reg[u] /\ call'[u] = call[u] /\ u \in Threads /\ u # t
  BY Frame DEF Framed, Locking
<1>2. Searched(u) /\ pc[t] # "restore" /\ Doing(u) /\ Doing(t)
  BY DEF Unique, Searched, Contents
<1>3. pc[u] # "idle" => call[u] \in Calls
  BY DEF Locking, TypeOK, IndexOK
<1>4. ASSUME pc[u] # "idle", call[u].op = "Insert", NEW s \in Slots, keys[s] # call[u].key
      PROVE  keys'[s] # call[u].key
  <2>1. call[u].key \in Keys
    BY <1>3, <1>4, CallFacts
  <2>2. CASE keys' = keys
    BY <1>4, <2>2
  <2>3. CASE /\ PublishIntent(t) /\ keys'[reg[t].hit] = call[t].key
             /\ \A v \in Slots \ {reg[t].hit} : keys'[v] = keys[v]
    <3>1. pc[t] # "idle" /\ call[t].op = "Insert"
      BY <1>2, <2>3 DEF PublishIntent, Doing, Inserting
    <3>2. call[t].key # call[u].key
      BY <1>1, <1>4, <3>1 DEF Unique, OneInserterPerKey
    <3> QED
      BY <1>4, <2>3, <3>2
  <2>4. CASE /\ keys'[reg[t].hit] = NoKey
             /\ \A v \in Slots \ {reg[t].hit} : keys'[v] = keys[v]
    BY <1>4, <2>1, <2>4, NoKeyAssumption
  <2> QED
    BY <1>2, <2>2, <2>3, <2>4, KeysMove
<1>5. CASE pc[u] = "find" /\ call[u].op = "Insert"
  BY <1>1, <1>2, <1>4, <1>5 DEF Searched, Searching
<1>6. CASE pc[u] \in Searching
  <2>1. call[u].op = "Insert" /\ pc[u] # "idle"
    BY <1>2, <1>6 DEF Doing, Searching, Inserting
  <2> QED
    BY <1>1, <1>2, <1>4, <1>6, <2>1 DEF Searched, Missing, Searching
<1>7. CASE ~(pc[u] = "find" /\ call[u].op = "Insert") /\ pc[u] \notin Searching
  BY <1>1, <1>2, <1>7 DEF Searched
<1> QED
  BY <1>5, <1>6, <1>7

(* The scan and the duplicate check of the insert itself (um:509-521,      *)
(* um:917-945): the key it looks for is only in the slot it has overwritten.*)
LEMMA SearchedStep ==
  ASSUME Locking, Contents, Unique, NEW t \in Threads, Step(t)
  PROVE  Searched(t)'
<1>1. /\ t \in DOMAIN pc /\ t \in DOMAIN call /\ t \in DOMAIN reg
      /\ reg[t] \in Regs /\ Doing(t) /\ Filled(t) /\ IndexOK(t) /\ Searched(t)
      /\ \A s \in Slots : s \in Nat /\ s <= Last /\ ~(s < 0)
  BY IndexFacts DEF Locking, TypeOK, Contents, Unique, Slots, Last
<1> USE <1>1 DEF Goto, Set, Return, Rescan, Shared, Searched, Searching
<1>2. CASE Begin(t)
  BY <1>2, ValueFacts DEF Begin, IndexOK
<1>3. CASE FindNext(t)
  <2>1. /\ UNCHANGED <<keys, pc, call>> /\ pc[t] = "find"
        /\ reg'[t].i = reg[t].i + 1 /\ reg[t].i \in Nat
        /\ keys[reg[t].i] # call[t].key
    BY <1>3 DEF FindNext, Regs
  <2> QED
    BY <2>1
<1>4. CASE FindMiss(t)
  <2>1. /\ UNCHANGED <<keys, call>> /\ pc[t] = "find"
        /\ reg[t].i = Last /\ keys[reg[t].i] # call[t].key
        /\ pc'[t] \in {"idle", "empty", "confirmMiss"}
        /\ pc'[t] = "empty" => call[t].op = "Insert"
    BY <1>4 DEF FindMiss
  <2>2. pc'[t] = "empty" => Missing(t)
    BY <2>1, IndexFacts DEF Missing, Slots, Last
  <2> QED
    BY <2>1, <2>2 DEF Missing
<1>5. CASE FindEmptySlot(t)
  <2>1. pc[t] = "empty" /\ pc'[t] \in {"empty", "insertLoad"} /\ UNCHANGED <<keys, call>>
    BY <1>5 DEF FindEmptySlot
  <2> QED
    BY <2>1 DEF Missing
<1>6. CASE InsertLoad(t) \/ InsertLock(t)
  <2>1. /\ pc[t] \in {"insertLoad", "insertTry"} /\ UNCHANGED <<keys, call>>
        /\ \/ pc'[t] \in {"insertTry", "intent"}
           \/ pc'[t] = "find" /\ reg'[t].i = 0
    BY <1>6, ValueFacts DEF InsertLoad, InsertLock
  <2> QED
    BY <2>1 DEF Missing
<1>7. CASE InsertLockFails(t) \/ Abort(t)
  <2>1. pc'[t] = "find" /\ reg'[t].i = 0
    BY <1>7, ValueFacts DEF InsertLockFails, Abort
  <2> QED
    BY <2>1
<1>8. CASE LookupValidated(t)
  <2>1. pc'[t] \in {"find", "idle"} /\ call'[t].op = "Lookup"
    BY <1>8 DEF LookupValidated
  <2> QED
    BY <2>1
<1>9. CASE Snapshot(t)
  <2>1. pc'[t] \in {"find", "snap"} /\ call'[t].op = "Contains"
    BY <1>9 DEF Snapshot, Doing
  <2> QED
    BY <2>1
<1>10. CASE VerifyKey(t)
  <2>1. /\ pc[t] = "verifyKey" /\ reg[t].hit \in Slots /\ reg[t].i \in Slots
        /\ reg[t].i # reg[t].hit /\ keys[reg[t].hit] = call[t].key
    BY <1>10 DEF VerifyKey, Regs, IndexOK, Scanning, Filled
  <2>2. call[t].key # NoKey
    BY <2>1, CallFacts, NoKeyAssumption DEF IndexOK, Doing, Inserting
  <2>3. ~IsDuplicate(t)
    BY <2>1, <2>2 DEF IsDuplicate, Unique, Distinct
  <2> QED
    BY <1>10, <2>3 DEF VerifyKey
<1>11. CASE VerifySeq(t)
  <2>1. pc'[t] = "verifyKey" /\ reg[t].i # reg[t].hit
        /\ reg'[t].i = reg[t].i /\ reg'[t].hit = reg[t].hit
    BY <1>11 DEF VerifySeq, Regs
  <2> QED
    BY <2>1
<1>12. CASE Reject(t)
  BY <1>12 DEF Reject, IndexOK
<1>13. CASE pc'[t] \notin {"find", "verifyKey", "restore"} \cup Searching
  BY <1>13
<1> QED
  <2>3. CASE FindHit(t)
    BY <1>13, <2>3 DEF FindHit
  <2>6. CASE LoadSeq(t)
    BY <1>13, <2>6 DEF LoadSeq
  <2>7. CASE TryLock(t)
    BY <1>13, <2>7 DEF TryLock
  <2>8. CASE TryFails(t)
    BY <1>13, <2>8 DEF TryFails
  <2>9. CASE Backoff(t)
    BY <1>13, <2>9 DEF Backoff
  <2>10. CASE CheckKey(t)
    BY <1>13, <2>10 DEF CheckKey
  <2>11. CASE WriteWord(t)
    BY <1>13, <2>11 DEF WriteWord
  <2>12. CASE WriteDone(t)
    BY <1>13, <2>12 DEF WriteDone
  <2>13. CASE Unlock(t)
    BY <1>13, <2>13 DEF Unlock
  <2>19. CASE PublishIntent(t)
    BY <1>13, <2>19 DEF PublishIntent
  <2>22. CASE VerifySkip(t)
    BY <1>13, <2>22 DEF VerifySkip
  <2>23. CASE VerifyDone(t)
    BY <1>13, <2>23 DEF VerifyDone
  <2>24. CASE RestoreKey(t)
    BY <2>24 DEF RestoreKey
  <2>25. CASE ReadSeq(t)
    BY <1>13, <2>25 DEF ReadSeq
  <2>26. CASE ReadWord(t)
    BY <1>13, <2>26 DEF ReadWord
  <2>27. CASE ReadKey(t)
    BY <1>13, <2>27 DEF ReadKey
  <2>28. CASE ReadAgain(t)
    BY <1>13, <2>28 DEF ReadAgain
  <2>31. CASE EnumerateValidated(t)
    BY <1>13, <2>31 DEF EnumerateValidated
  <2>32. CASE ConfirmHit(t)
    BY <1>13, <2>32 DEF ConfirmHit
  <2>33. CASE ConfirmMiss(t)
    BY <1>13, <2>33 DEF ConfirmMiss
  <2> QED
    BY <1>2, <1>3, <1>4, <1>5, <1>6, <1>7, <1>8, <1>9, <1>10, <1>11, <1>12,
      <2>3, <2>6, <2>7, <2>8, <2>9, <2>10, <2>11, <2>12, <2>13, <2>19, <2>22,
      <2>23, <2>24, <2>25, <2>26, <2>27, <2>28, <2>31, <2>32, <2>33
      DEF Step, Run, Find, Lock, Insert, Verify, Owned, Read, Contains

(* A step keeps the keys of the slots apart: an insert writes one that no *)
(* slot holds.                                                            *)
LEMMA DistinctStep ==
  ASSUME Locking, Contents, Unique, NEW t \in Threads, Step(t)
  PROVE  Distinct'
<1>1. Distinct /\ Searched(t) /\ Doing(t) /\ pc[t] # "restore"
  BY DEF Unique, Searched, Contents
<1>2. CASE keys' = keys
  BY <1>1, <1>2 DEF Distinct
<1>3. CASE /\ PublishIntent(t) /\ reg[t].hit \in Slots
           /\ keys'[reg[t].hit] = call[t].key
           /\ \A s \in Slots \ {reg[t].hit} : keys'[s] = keys[s]
  <2>1. Missing(t)
    BY <1>1, <1>3 DEF PublishIntent, Searched, Searching
  <2> QED
    BY <1>1, <1>3, <2>1 DEF Distinct, Missing
<1>4. CASE /\ reg[t].hit \in Slots /\ keys'[reg[t].hit] = NoKey
           /\ \A s \in Slots \ {reg[t].hit} : keys'[s] = keys[s]
  BY <1>1, <1>4 DEF Distinct
<1> QED
  BY <1>1, <1>2, <1>3, <1>4, KeysMove

(* The discipline only leaves behaviours out: what is proved of the bucket *)
(* holds of it.                                                            *)
LEMMA DisciplineIsSpec == CDisciplinedSpec => Spec
<1>1. CInit => Init
  BY DEF CInit
<1>2. [CNext /\ OneInserterPerKey']_cvars => [Next]_vars
  BY DEF CNext, cvars
<1> QED
  BY <1>1, <1>2, PTL DEF CDisciplinedSpec, Spec

(* The three facts are invariant together, under the discipline. *)
LEMMA UniqueInvariant == CDisciplinedSpec => [](Locking /\ Contents /\ Unique)
<1>1. CInit => Unique
  BY DEF CInit, Init, Unique, OneInserterPerKey, Distinct, Searched, Searching
<1>2. Locking /\ Contents /\ Unique /\ [CNext /\ OneInserterPerKey']_cvars => Unique'
  <2> SUFFICES ASSUME Locking, Contents, Unique, [CNext /\ OneInserterPerKey']_cvars
               PROVE  Unique'
    OBVIOUS
  <2>1. CASE UNCHANGED cvars
    BY <2>1 DEF cvars, vars, Unique, OneInserterPerKey, Distinct, Searched, Missing
  <2>2. ASSUME NEW t \in Threads, Step(t), OneInserterPerKey' PROVE Unique'
    <3>1. Distinct' /\ Searched(t)'
      BY <2>2, DistinctStep, SearchedStep
    <3>2. \A u \in Threads \ {t} : Searched(u)'
      BY <2>2, SearchedByOthers
    <3> QED
      BY <2>2, <3>1, <3>2 DEF Unique
  <2> QED
    BY <2>1, <2>2 DEF CNext, Next
<1> QED
  BY <1>1, <1>2, DisciplineIsSpec, LockingInvariant, ContentsInvariant, PTL
  DEF CDisciplinedSpec

(* Callers that never insert one key by two calls at a time never find it *)
(* in two slots.                                                          *)
THEOREM OneSlotPerKey == CDisciplinedSpec => []NoDuplicateKeys
<1>1. Unique => NoDuplicateKeys
  BY DEF Unique, Distinct, NoDuplicateKeys
<1> QED
  BY <1>1, UniqueInvariant, PTL
-----------------------------------------------------------------------------
(***************************************************************************)
(* The refinement.                                                          *)
(***************************************************************************)
Asked(t) == pc[t] # "idle" /\ call[t].op \in {"Lookup", "Contains", "Delete"}

Holds(s, k) == Shown(s) /\ keys[s] = k

(* What a writer is about to publish. *)
Written(t) ==
  LET h == reg[t].hit IN
  /\ pc[t] = "write" /\ call[t].op = "Insert" /\ seqs[h].bits = 1 => ~call[t].keep
  /\ pc[t] = "unlock" /\ call[t].op = "Delete" => keys[h] = NoKey
  /\ pc[t] = "unlock" /\ call[t].op = "Insert" =>
       /\ keys[h] = call[t].key
       /\ cold[h] = IF seqs[h].bits = 1 /\ call[t].keep THEN reg[t].ctx
                    ELSE Payload(call[t].val)

(* While no moment without the key has been noted, some slot shows it, and *)
(* the scan still has that slot before it.                                 *)
Noted(t) ==
  /\ missed[t] => Asked(t)
  /\ Asked(t) /\ ~missed[t] =>
       /\ pc[t] # "confirmMiss"
       /\ \E s \in Slots : /\ Holds(s, call[t].key)
                           /\ pc[t] = "find" => s >= reg[t].i

Faithful ==
  /\ missed \in [Threads -> BOOLEAN]
  /\ \A t \in Threads : Written(t) /\ Noted(t)
-----------------------------------------------------------------------------
(***************************************************************************)
(* The mapping.  Nobody else's step changes what a slot shows.              *)
(***************************************************************************)
PayloadFacts ==
  \A s \in Slots :
    /\ \A t \in Threads : Replacing(t, s) => HeldPayload(s) = reg[t].ctx
    /\ (\A t \in Threads : ~Replacing(t, s)) => HeldPayload(s) = cold[s]

HeldFacts ==
  /\ HeldEntries = [k \in DOMAIN HeldEntries |-> HeldEntries[k]]
  /\ \A s \in Slots : Shown(s) => /\ keys[s] # NoKey
                                  /\ keys[s] \in DOMAIN HeldEntries
                                  /\ HeldEntries[keys[s]] = HeldPayload(s)
  /\ \A k \in DOMAIN HeldEntries : \E s \in Slots : Holds(s, k)

(* The payload a slot counts for is that of its one owner, or its own. *)
LEMMA PayloadOfOwner == SlotOwnership => PayloadFacts
<1> SUFFICES ASSUME SlotOwnership, NEW s \in Slots
             PROVE  /\ \A t \in Threads : Replacing(t, s) => HeldPayload(s) = reg[t].ctx
                    /\ (\A t \in Threads : ~Replacing(t, s)) => HeldPayload(s) = cold[s]
  BY DEF PayloadFacts
<1>1. ASSUME NEW t \in Threads, Replacing(t, s)
      PROVE  HeldPayload(s) = reg[t].ctx
  <2> DEFINE c == CHOOSE u \in Threads : Replacing(u, s)
  <2>1. c \in Threads /\ Replacing(c, s)
    BY <1>1
  <2>2. c = t /\ Odd(seqs[s])
    BY <1>1, <2>1 DEF Replacing, SlotOwnership, Owns
  <2> QED
    BY <1>1, <2>2 DEF HeldPayload
<1> QED
  BY <1>1 DEF HeldPayload

(* Distinct keys make the entries a map: each key shown in one slot. *)
LEMMA EntriesOfSlots == Distinct => HeldFacts
<1> SUFFICES ASSUME Distinct PROVE HeldFacts
  OBVIOUS
<1> DEFINE D == {keys[s] : s \in {u \in Slots : Shown(u)}}
           At(k) == CHOOSE s \in Slots : Shown(s) /\ keys[s] = k
<1>1. HeldEntries = [k \in D |-> HeldPayload(At(k))]
  BY DEF HeldEntries
<1>2. ASSUME NEW s \in Slots, Shown(s)
      PROVE  keys[s] # NoKey /\ keys[s] \in D /\ At(keys[s]) = s
  <2>1. keys[s] # NoKey /\ keys[s] \in D
    BY <1>2 DEF Shown
  <2>2. At(keys[s]) \in Slots /\ keys[At(keys[s])] = keys[s]
    BY <1>2
  <2>3. At(keys[s]) = s
    BY <2>1, <2>2 DEF Distinct
  <2> QED
    BY <2>1, <2>3
<1>3. \A k \in D : \E s \in Slots : Holds(s, k)
  BY DEF Holds
<1> HIDE DEF D, At
<1>4. DOMAIN HeldEntries = D
  BY <1>1
<1>5. \A s \in Slots : Shown(s) => HeldEntries[keys[s]] = HeldPayload(s)
  BY <1>1, <1>2
<1>6. HeldEntries = [k \in DOMAIN HeldEntries |-> HeldEntries[k]]
  BY <1>1
<1> QED
  BY <1>2, <1>3, <1>4, <1>5, <1>6 DEF HeldFacts

Same(s) ==
  /\ keys'[s] = keys[s]
  /\ Shown(s)' <=> Shown(s)
  /\ HeldPayload(s)' = HeldPayload(s)

(* When one slot changes, the map changes at its key at most. *)
LEMMA EntriesMove ==
  ASSUME Distinct, Distinct', HeldFacts, HeldFacts',
         NEW h \in Slots, \A s \in Slots \ {h} : Same(s)
  PROVE  /\ Same(h) \/ (~Shown(h) /\ ~Shown(h)') => HeldEntries' = HeldEntries
         /\ Shown(h) /\ ~Shown(h)' => HeldEntries' = Contract!Without(keys[h])
         /\ Shown(h)' /\ (Shown(h) => keys'[h] = keys[h])
              => HeldEntries' = Contract!With(keys'[h], HeldPayload(h)')
<1> DEFINE E == HeldEntries
           F == HeldEntries'
<1>1. /\ E = [k \in DOMAIN E |-> E[k]] /\ F = [k \in DOMAIN F |-> F[k]]
      /\ \A s \in Slots : Shown(s) => /\ keys[s] # NoKey /\ keys[s] \in DOMAIN E
                                      /\ E[keys[s]] = HeldPayload(s)
      /\ \A s \in Slots : Shown(s)' => /\ keys'[s] # NoKey /\ keys'[s] \in DOMAIN F
                                       /\ F[keys'[s]] = HeldPayload(s)'
  BY DEF HeldFacts
<1>2. \A k : k \in DOMAIN E <=> \E s \in Slots : Shown(s) /\ keys[s] = k
  BY DEF HeldFacts, Holds
<1>3. \A k : k \in DOMAIN F <=> \E s \in Slots : Shown(s)' /\ keys'[s] = k
  BY DEF HeldFacts, Holds
<1>4. \A s \in Slots \ {h} : Same(s)
  OBVIOUS
<1>5. /\ \A s, u \in Slots : s # u /\ keys[s] # NoKey => keys[s] # keys[u]
      /\ \A s, u \in Slots : s # u /\ keys'[s] # NoKey => keys'[s] # keys'[u]
  BY DEF Distinct
<1> HIDE DEF E, F
<1>6. ASSUME Same(h) \/ (~Shown(h) /\ ~Shown(h)') PROVE F = E
  <2>1. \A s \in Slots : \/ Same(s)
                         \/ ~Shown(s) /\ ~Shown(s)'
    BY <1>4, <1>6
  <2>2. DOMAIN F = DOMAIN E
    BY <1>2, <1>3, <2>1 DEF Same
  <2>3. ASSUME NEW k \in DOMAIN E PROVE F[k] = E[k]
    <3>1. PICK s \in Slots : Shown(s) /\ keys[s] = k
      BY <1>2, <2>3
    <3> QED
      BY <1>1, <2>1, <3>1 DEF Same
  <2> QED
    BY <1>1, <2>2, <2>3
<1>7. ASSUME Shown(h), ~Shown(h)'
      PROVE  F = [q \in DOMAIN E \ {keys[h]} |-> E[q]]
  <2>1. DOMAIN F = DOMAIN E \ {keys[h]}
    <3>1. ASSUME NEW k \in DOMAIN F PROVE k \in DOMAIN E \ {keys[h]}
      <4>1. PICK s \in Slots : Shown(s)' /\ keys'[s] = k
        BY <1>3, <3>1
      <4>2. s # h /\ Same(s)
        BY <1>4, <1>7, <4>1
      <4> QED
        BY <1>1, <1>2, <1>5, <4>1, <4>2 DEF Same
    <3>2. ASSUME NEW k \in DOMAIN E \ {keys[h]} PROVE k \in DOMAIN F
      <4>1. PICK s \in Slots : Shown(s) /\ keys[s] = k
        BY <1>2, <3>2
      <4>2. s # h /\ Same(s)
        BY <1>4, <3>2, <4>1
      <4> QED
        BY <1>3, <4>1, <4>2 DEF Same
    <3> QED
      BY <3>1, <3>2
  <2>2. ASSUME NEW k \in DOMAIN F PROVE F[k] = E[k]
    <3>1. PICK s \in Slots : Shown(s)' /\ keys'[s] = k
      BY <1>3, <2>2
    <3>2. Same(s)
      BY <1>4, <1>7, <3>1
    <3> QED
      BY <1>1, <3>1, <3>2 DEF Same
  <2> QED
    BY <1>1, <2>1, <2>2
<1>8. ASSUME Shown(h)', Shown(h) => keys'[h] = keys[h]
      PROVE  F = [q \in DOMAIN E \cup {keys'[h]} |->
                    IF q = keys'[h] THEN HeldPayload(h)' ELSE E[q]]
  <2>1. DOMAIN F = DOMAIN E \cup {keys'[h]}
    <3>1. ASSUME NEW k \in DOMAIN F, k # keys'[h] PROVE k \in DOMAIN E
      <4>1. PICK s \in Slots : Shown(s)' /\ keys'[s] = k
        BY <1>3, <3>1
      <4> QED
        BY <1>2, <1>4, <3>1, <4>1 DEF Same
    <3>2. ASSUME NEW k \in DOMAIN E PROVE k \in DOMAIN F
      <4>1. PICK s \in Slots : Shown(s) /\ keys[s] = k
        BY <1>2, <3>2
      <4> QED
        BY <1>3, <1>4, <1>8, <4>1 DEF Same
    <3>3. keys'[h] \in DOMAIN F
      BY <1>1, <1>8
    <3> QED
      BY <3>1, <3>2, <3>3
  <2>2. ASSUME NEW k \in DOMAIN F
        PROVE  F[k] = IF k = keys'[h] THEN HeldPayload(h)' ELSE E[k]
    <3>1. PICK s \in Slots : Shown(s)' /\ keys'[s] = k
      BY <1>3, <2>2
    <3>2. CASE k = keys'[h]
      BY <1>1, <1>8, <3>2
    <3>3. CASE k # keys'[h]
      <4>1. s # h /\ Same(s)
        BY <1>4, <3>1, <3>3
      <4>2. F[k] = HeldPayload(s)' /\ E[k] = HeldPayload(s)
        BY <1>1, <3>1, <4>1 DEF Same
      <4> QED
        BY <3>3, <4>1, <4>2 DEF Same
    <3> QED
      BY <3>2, <3>3
  <2> QED
    BY <1>1, <2>1, <2>2
<1> QED
  BY <1>6, <1>7, <1>8 DEF Contract!Without, Contract!With, E, F

(* A slot is shown as before unless its owner steps. *)
LEMMA Elsewhere ==
  ASSUME Locking, Locking', PayloadFacts, PayloadFacts', NEW t \in Threads, Step(t),
         NEW s \in Slots, ~Owns(t, s), ~Owns(t, s)'
  PROVE  Same(s)
<1>1. \A u \in Threads \ {t} : /\ pc'[u] = pc[u] /\ reg'[u] = reg[u]
                               /\ Owns(u, s)' <=> Owns(u, s)
  BY Frame DEF Framed, Locking, Owns
<1>2. keys'[s] = keys[s] /\ seqs'[s] = seqs[s] /\ cold'[s] = cold[s]
  <2>1. CASE Takes(t)
    <3>1. pc'[t] \in Owning /\ reg'[t] = reg[t]
      BY <2>1 DEF Takes, TryLock, InsertLock, Goto, Owning, Updating, Inserting,
        Locking, TypeOK
    <3>2. s # reg[t].hit
      BY <3>1 DEF Owns
    <3> QED
      BY <2>1, <3>2, WordsMove
  <2>2. CASE GivesUp(t)
    <3>1. s # reg[t].hit
      BY <2>2 DEF GivesUp, Unlock, Abort, Owns, Owning
    <3> QED
      BY <2>2, <3>1, WordsMove
  <2>3. CASE Fills(t)
    BY <2>3, FillsOwned
  <2>4. CASE ~Takes(t) /\ ~GivesUp(t) /\ ~Fills(t)
    BY <2>4, NothingMoves
  <2> QED
    BY <2>1, <2>2, <2>3, <2>4
<1>3. Shown(s)' <=> Shown(s)
  BY <1>1, <1>2 DEF Shown, Covered
<1>4. \A u \in Threads : Replacing(u, s)' <=> Replacing(u, s)
  BY <1>1, <1>2 DEF Replacing
<1>5. CASE \E u \in Threads : Replacing(u, s)
  <2>1. PICK u \in Threads : Replacing(u, s)
    BY <1>5
  <2>2. u # t
    BY <2>1 DEF Replacing
  <2>3. HeldPayload(s) = reg[u].ctx
    BY <2>1 DEF PayloadFacts
  <2>4. HeldPayload(s)' = reg'[u].ctx
    BY <1>4, <2>1 DEF PayloadFacts
  <2> QED
    BY <1>1, <1>2, <1>3, <2>2, <2>3, <2>4 DEF Same
<1>6. CASE \A u \in Threads : ~Replacing(u, s)
  <2>1. HeldPayload(s) = cold[s]
    BY <1>6 DEF PayloadFacts
  <2>2. HeldPayload(s)' = cold'[s]
    BY <1>4, <1>6 DEF PayloadFacts
  <2> QED
    BY <1>2, <1>3, <2>1, <2>2 DEF Same
<1> QED
  BY <1>5, <1>6

(* Nor does a step change the call of another thread, or what it took. *)
LEMMA Bystanders ==
  ASSUME Locking, NEW t \in Threads, Step(t), NEW u \in Threads \ {t}
  PROVE  /\ AbstractCall(u)' = AbstractCall(u)
         /\ TakenEntry(u)' = TakenEntry(u)
         /\ ret'[u] = ret[u]
<1>1. /\ pc'[u] = pc[u] /\ reg'[u] = reg[u] /\ call'[u] = call[u] /\ ret'[u] = ret[u]
  BY Frame DEF Framed, Locking
<1>2. AbstractCall(u)' = AbstractCall(u)
  BY <1>1 DEF AbstractCall
<1>3. CASE pc[u] \in Owning
  <2>1. seqs'[reg[u].hit] = seqs[reg[u].hit] /\ cold'[reg[u].hit] = cold[reg[u].hit]
    BY <1>3, OwnedUntouched
  <2> QED
    BY <1>1, <1>2, <2>1 DEF TakenEntry
<1>4. CASE pc[u] \notin Owning
  <2>1. pc[u] \notin Covering /\ pc[u] # "unlock"
    BY <1>4 DEF Covering, Owning, Inserting
  <2> QED
    BY <1>1, <1>2, <2>1 DEF TakenEntry
<1> QED
  BY <1>3, <1>4
-----------------------------------------------------------------------------
(***************************************************************************)
(* What is invariant of a state and its image.                              *)
(***************************************************************************)

(* A step of a thread shows in the slot it works on, and nowhere else. *)
LEMMA OneSlotMoves ==
  ASSUME Locking, Locking', PayloadFacts, PayloadFacts', NEW t \in Threads, Step(t)
  PROVE  /\ reg[t].hit \in Slots
         /\ \A s \in Slots \ {reg[t].hit} : Same(s)
         /\ pc[t] \notin Owning /\ pc'[t] \notin Owning => \A s \in Slots : Same(s)
<1>1. reg[t].hit \in Slots
  BY DEF Locking, TypeOK, Regs
<1>2. pc'[t] \in Owning => reg'[t].hit = reg[t].hit
  <2>1. CASE Takes(t)
    BY <2>1 DEF Takes, TryLock, InsertLock
  <2>2. CASE GivesUp(t)
    BY <2>2 DEF GivesUp, Unlock, Abort, Return, Rescan, Goto, Owning, Updating,
      Inserting, Locking, TypeOK
  <2> QED
    BY <2>1, <2>2, Phases DEF Keeps, Outside, Locking
<1>3. \A s \in Slots : ~Owns(t, s) /\ ~Owns(t, s)' => Same(s)
  BY Elsewhere
<1>4. \A s \in Slots : s # reg[t].hit => ~Owns(t, s) /\ ~Owns(t, s)'
  BY <1>2 DEF Owns
<1>5. pc[t] \notin Owning /\ pc'[t] \notin Owning
        => \A s \in Slots : ~Owns(t, s) /\ ~Owns(t, s)'
  BY DEF Owns
<1> QED
  BY <1>1, <1>3, <1>4, <1>5

(* What others do leaves what a writer has written alone. *)
LEMMA WrittenByOthers ==
  ASSUME Locking, NEW t \in Threads, Step(t), NEW u \in Threads \ {t}, Written(u)
  PROVE  Written(u)'
<1>1. pc'[u] = pc[u] /\ reg'[u] = reg[u] /\ call'[u] = call[u]
  BY Frame DEF Framed, Locking
<1>2. CASE pc[u] \in {"write", "unlock"}
  <2>1. /\ seqs'[reg[u].hit] = seqs[reg[u].hit] /\ cold'[reg[u].hit] = cold[reg[u].hit]
        /\ keys'[reg[u].hit] = keys[reg[u].hit]
    BY <1>2, OwnedUntouched DEF Owning
  <2> QED
    BY <1>1, <2>1 DEF Written
<1>3. CASE pc[u] \notin {"write", "unlock"}
  BY <1>1, <1>3 DEF Written
<1> QED
  BY <1>2, <1>3

(* When a writer is about to unlock, the slot holds what it was to write *)
(* (um:861-863, um:975-978).                                             *)
LEMMA WrittenStep ==
  ASSUME Locking, Contents, NEW t \in Threads, Step(t), Written(t)
  PROVE  Written(t)'
<1>1. /\ t \in DOMAIN pc /\ t \in DOMAIN call /\ t \in DOMAIN reg
      /\ reg[t] \in Regs /\ reg[t].hit \in Slots
      /\ Doing(t) /\ Filled(t) /\ IndexOK(t)
      /\ keys \in [Slots -> Keys \cup {NoKey}]
      /\ cold \in [Slots -> Payloads]
      /\ pc[t] \in Inserting => seqs[reg[t].hit].bits = 3
      /\ pc[t] \in Updating => seqs[reg[t].hit].bits = 1
  BY DEF Locking, TypeOK, Contents, Regs, SlotOwnership, Owning
<1> USE <1>1 DEF Goto, Set, Return, Rescan, Shared
<1>2. CASE CheckKey(t)
  <2>1. CASE keys[reg[t].hit] # call[t].key
    <3>1. pc'[t] = "abort"
      BY <1>2, <2>1 DEF CheckKey
    <3> QED
      BY <3>1 DEF Written
  <2>2. CASE keys[reg[t].hit] = call[t].key
    <3>1. /\ UNCHANGED <<keys, seqs, cold, call>>
          /\ pc[t] = "check"
          /\ pc'[t] = IF call[t].op = "Insert" /\ call[t].keep THEN "unlock" ELSE "write"
      BY <1>2, <2>2 DEF CheckKey
    <3>2. reg'[t].hit = reg[t].hit /\ reg'[t].ctx = cold[reg[t].hit]
      <4>1. reg'[t] = [reg[t] EXCEPT !.i = 1, !.key = call[t].key,
                                     !.ctx = cold[reg[t].hit]]
        BY <1>2, <2>2 DEF CheckKey
      <4> HIDE <1>1 DEF Goto, Set, Return, Rescan, Shared
      <4>2. reg[t] \in Regs
        BY <1>1
      <4> QED
        BY <4>1, <4>2 DEF Regs
    <3>3. seqs[reg[t].hit].bits = 1
      BY <3>1 DEF Updating
    <3> QED
      BY <2>2, <3>1, <3>2, <3>3 DEF Written
  <2> QED
    BY <2>1, <2>2
<1>3. CASE VerifyDone(t)
  <2>1. /\ UNCHANGED <<keys, seqs, cold, call>> /\ pc'[t] = "write"
        /\ seqs[reg[t].hit].bits = 3
    BY <1>3 DEF VerifyDone, Inserting
  <2>2. reg'[t].hit = reg[t].hit
    BY <1>3 DEF VerifyDone, Regs
  <2> QED
    BY <2>1, <2>2 DEF Written
<1>4. CASE WriteWord(t)
  <2>1. UNCHANGED <<keys, seqs, pc, call>> /\ pc[t] = "write"
    BY <1>4 DEF WriteWord
  <2>2. reg'[t].hit = reg[t].hit
    BY <1>4 DEF WriteWord, Regs
  <2> QED
    BY <2>1, <2>2 DEF Written
<1>5. CASE WriteDone(t)
  <2>1. /\ UNCHANGED <<seqs, cold, call, reg>> /\ pc[t] = "write" /\ pc'[t] = "unlock"
        /\ call[t].op = "Delete" => keys'[reg[t].hit] = NoKey
        /\ call[t].op # "Delete" => keys' = keys
    BY <1>5 DEF WriteDone
  <2>2. \A w \in Words : w < reg[t].i
    BY <1>5, IndexFacts DEF WriteDone, IndexOK, Words
  <2>3. cold[reg[t].hit] = Payload(call[t].val) /\ keys[reg[t].hit] = call[t].key
    <3>1. /\ \A w \in Words : cold[reg[t].hit][w] = call[t].val
          /\ keys[reg[t].hit] = call[t].key
      BY <2>1, <2>2 DEF Filled
    <3> QED
      BY <3>1 DEF Payloads, Payload
  <2> QED
    BY <2>1, <2>3 DEF Written
<1>6. CASE pc'[t] \notin {"write", "unlock"}
  BY <1>6 DEF Written
<1>7. CASE pc[t] \in Owning /\ pc'[t] \in {"write", "unlock"}
  <2>1. CheckKey(t) \/ Verify(t) \/ WriteWord(t) \/ WriteDone(t)
    BY <1>7 DEF Step, Run, Find, Lock, Insert, Owned, Read, Contains,
      Begin, Reject, FindHit, FindNext, FindMiss, LoadSeq, TryLock, TryFails,
      Backoff, FindEmptySlot, InsertLoad, InsertLock, InsertLockFails, ReadSeq,
      ReadWord, ReadKey, ReadAgain, LookupValidated, EnumerateValidated, Snapshot,
      ConfirmHit, ConfirmMiss, Owning, Updating, Inserting, PublishIntent,
      RestoreKey, Unlock, Abort
  <2>2. CASE Verify(t) /\ ~VerifyDone(t)
    BY <1>7, <2>2 DEF Verify, VerifySeq, VerifyKey, VerifySkip
  <2> QED
    BY <1>2, <1>3, <1>4, <1>5, <2>1, <2>2
<1>8. CASE pc[t] \notin Owning /\ pc'[t] \in {"write", "unlock"}
  <2>1. Takes(t) \/ GivesUp(t)
    BY <1>8, Phases DEF Keeps, Outside, Owning, Locking
  <2> QED
    BY <1>8, <2>1 DEF Takes, GivesUp, TryLock, InsertLock, Unlock, Abort, Owning
<1> QED
  BY <1>6, <1>7, <1>8

(* Every step notes of each query whether its key is there afterwards. *)
LEMMA NotedAfter ==
  ASSUME Contract!Observe, HeldFacts', NEW u \in Threads, missed[u] \in BOOLEAN
  PROVE  /\ missed'[u] \in BOOLEAN
         /\ missed'[u] => Asked(u)'
         /\ Asked(u)' /\ ~missed'[u] =>
              ~missed[u] /\ \E s \in Slots : Holds(s, call[u].key)'
<1> DEFINE c == AbstractCall(u)'
<1>1. missed'[u] = (/\ c.op \in {"Lookup", "Contains", "Delete"}
                    /\ missed[u] \/ ~Contract!There(AbstractCall(u).op, AbstractCall(u).key)')
  BY DEF Contract!Observe, Contract!Queries, Contract!There
<1>2. c.op \in {"Lookup", "Contains", "Delete"} <=> Asked(u)'
  BY DEF AbstractCall, Asked
<1>3. Asked(u)' => c.key = call'[u].key
  BY DEF AbstractCall, Asked
<1>4. Contract!There(AbstractCall(u).op, AbstractCall(u).key)' => c.key \in DOMAIN HeldEntries'
  BY DEF Contract!There
<1>5. \A k \in DOMAIN HeldEntries' : \E s \in Slots : Holds(s, k)'
  BY DEF HeldFacts
<1> QED
  BY <1>1, <1>2, <1>3, <1>4, <1>5 DEF Holds

(* The scan starts from slot 0, wherever it starts from. *)
LEMMA ScanStarts ==
  ASSUME Locking, Contents, NEW t \in Threads, Step(t)
  PROVE  /\ pc'[t] = "find" => FindNext(t) \/ reg'[t].i = 0
         /\ pc'[t] = "confirmMiss" => FindMiss(t) \/ ConfirmMiss(t)
<1>1. t \in DOMAIN pc /\ t \in DOMAIN reg /\ reg[t] \in Regs /\ IndexOK(t)
      /\ FreshReg.i = 0
  BY ValueFacts DEF Locking, TypeOK
<1> USE <1>1 DEF Goto, Set, Return, Rescan, Shared
<1>2. CASE Begin(t)
  BY <1>2 DEF Begin, IndexOK
<1>3. CASE Reject(t)
  BY <1>3 DEF Reject, IndexOK
<1>4. CASE Find(t)
  <2>1. CASE FindHit(t)
    BY <2>1 DEF FindHit
  <2>2. CASE FindMiss(t)
    BY <2>2 DEF FindMiss
  <2>3. CASE FindNext(t)
    BY <2>3 DEF FindNext
  <2> QED
    BY <1>4, <2>1, <2>2, <2>3 DEF Find
<1>5. CASE Lock(t)
  BY <1>5 DEF Lock, LoadSeq, TryLock, TryFails, Backoff
<1>6. CASE Insert(t)
  BY <1>6 DEF Insert, FindEmptySlot, InsertLoad, InsertLock, InsertLockFails
<1>7. CASE CheckKey(t) \/ PublishIntent(t) \/ RestoreKey(t) \/ WriteWord(t)
             \/ WriteDone(t)
  BY <1>7 DEF CheckKey, PublishIntent, RestoreKey, WriteWord, WriteDone
<1>8. CASE Verify(t)
  BY <1>8 DEF Verify, VerifySeq, VerifyKey, VerifySkip, VerifyDone
<1>9. CASE Unlock(t) \/ Abort(t)
  BY <1>9 DEF Unlock, Abort
<1>10. CASE Read(t)
  BY <1>10 DEF Read, ReadSeq, ReadWord, ReadKey, ReadAgain, LookupValidated,
    EnumerateValidated
<1>11. CASE Snapshot(t)
  <2>1. pc'[t] = "find" => reg'[t].i = 0
    BY <1>11 DEF Snapshot, Regs
  <2> QED
    BY <1>11, <2>1 DEF Snapshot
<1>12. CASE ConfirmHit(t) \/ ConfirmMiss(t)
  BY <1>12 DEF ConfirmHit, ConfirmMiss
<1> QED
  BY <1>2, <1>3, <1>4, <1>5, <1>6, <1>7, <1>8, <1>9, <1>10, <1>11, <1>12
  DEF Step, Run, Owned, Contains

(* The relaxed scans miss only what was missing (um:509-521): an entry *)
(* does not move from a slot ahead of the scan to one behind it, as    *)
(* between the two it is in none, and that is noted.                   *)
LEMMA NotedStep ==
  ASSUME Locking, Locking', Contents, PayloadFacts, PayloadFacts', Distinct, Distinct',
         HeldFacts', NEW t \in Threads, Step(t), Contract!Observe,
         NEW u \in Threads, missed[u] \in BOOLEAN, Noted(u)
  PROVE  missed'[u] \in BOOLEAN /\ Noted(u)'
<1>1. /\ missed'[u] \in BOOLEAN
      /\ missed'[u] => Asked(u)'
      /\ Asked(u)' /\ ~missed'[u] =>
              ~missed[u] /\ \E s \in Slots : Holds(s, call[u].key)'
  BY NotedAfter
<1> SUFFICES ASSUME Asked(u)', ~missed'[u]
             PROVE  /\ pc'[u] # "confirmMiss"
                    /\ \E s \in Slots : /\ Holds(s, call[u].key)'
                                        /\ pc'[u] = "find" => s >= reg'[u].i
  BY <1>1 DEF Noted
<1>2. PICK v \in Slots : Holds(v, call[u].key)'
  BY <1>1
<1>3. ~missed[u] /\ v \in Nat /\ v >= 0
  BY <1>1 DEF Slots
<1>4. ASSUME call'[u] = call[u], Asked(u)
      PROVE  \E s \in Slots : /\ Holds(s, call[u].key) /\ Holds(s, call[u].key)'
                              /\ pc[u] = "find" => s >= reg[u].i
  <2>1. PICK s \in Slots : /\ Holds(s, call[u].key)
                           /\ pc[u] = "find" => s >= reg[u].i
    BY <1>3, <1>4 DEF Noted
  <2>2. s = v
    <3>1. \A w \in Slots \ {reg[t].hit} : Same(w)
      BY OneSlotMoves
    <3> QED
      BY <1>2, <1>4, <2>1, <3>1 DEF Same, Holds, Shown, Distinct
  <2> QED
    BY <1>2, <2>1, <2>2
<1>5. CASE u # t
  <2>1. pc'[u] = pc[u] /\ reg'[u] = reg[u] /\ call'[u] = call[u]
    BY <1>5, Frame DEF Framed, Locking
  <2>2. Asked(u)
    BY <2>1 DEF Asked
  <2> QED
    BY <1>3, <1>4, <2>1, <2>2 DEF Noted
<1>6. CASE u = t
  <2>1. pc'[t] # "confirmMiss"
    <3>1. CASE FindMiss(t) /\ pc'[t] = "confirmMiss"
      <4>1. /\ pc[t] = "find" /\ reg[t].i = Last /\ keys[reg[t].i] # call[t].key
            /\ call' = call
        BY <3>1 DEF FindMiss
      <4>2. Asked(t)
        BY <1>6, <4>1 DEF Asked
      <4>3. PICK s \in Slots : Holds(s, call[t].key) /\ s >= Last
        BY <1>4, <1>6, <4>1, <4>2
      <4>4. s = Last
        BY <4>3, IndexFacts DEF Slots, Last
      <4> QED
        BY <4>1, <4>3, <4>4 DEF Holds
    <3>2. CASE ConfirmMiss(t) /\ pc'[t] = "confirmMiss"
      <4>1. pc[t] = "confirmMiss" /\ call' = call
        BY <3>2 DEF ConfirmMiss
      <4>2. Asked(t)
        BY <1>6, <4>1 DEF Asked
      <4> QED
        BY <1>3, <1>6, <4>1, <4>2 DEF Noted
    <3> QED
      BY <3>1, <3>2, ScanStarts
  <2>2. CASE FindNext(t)
    <3>1. /\ UNCHANGED <<keys, pc, call>> /\ pc[t] = "find"
          /\ reg'[t].i = reg[t].i + 1 /\ reg[t].i \in Nat
          /\ keys[reg[t].i] # call[t].key
      BY <2>2 DEF FindNext, Set, Shared, Locking, TypeOK, Regs
    <3>2. Asked(t)
      BY <1>6, <3>1 DEF Asked
    <3>3. PICK s \in Slots : /\ Holds(s, call[t].key) /\ Holds(s, call[t].key)'
                             /\ s >= reg[t].i
      BY <1>4, <1>6, <3>1, <3>2
    <3>4. s >= reg[t].i + 1 /\ s \in Nat
      BY <3>1, <3>3 DEF Holds, Slots
    <3> QED
      BY <1>6, <2>1, <3>1, <3>3, <3>4
  <2>3. CASE ~FindNext(t)
    <3>1. pc'[t] = "find" => reg'[t].i = 0
      BY <2>3, ScanStarts
    <3> QED
      BY <1>2, <1>3, <1>6, <2>1, <3>1
  <2> QED
    BY <2>2, <2>3
<1> QED
  BY <1>5, <1>6
-----------------------------------------------------------------------------
(***************************************************************************)
(* The steps and their images.                                              *)
(***************************************************************************)
Calling == [t \in Threads |-> AbstractCall(t)]
Taking == [t \in Threads |-> TakenEntry(t)]

Stutters == UNCHANGED <<HeldEntries, Calling, Taking, ret>>

(* What a slot shows by itself, and in the hands of its owner. *)
Views ==
  /\ \A s \in Slots : (\A t \in Threads : ~Owns(t, s)) =>
       /\ Shown(s) <=> keys[s] # NoKey
       /\ HeldPayload(s) = cold[s]
  /\ \A t \in Threads : \A s \in Slots : Owns(t, s) =>
       /\ Shown(s) <=> keys[s] # NoKey /\ ~(seqs[s].bits = 3 /\ pc[t] \in Covering)
       /\ HeldPayload(s) = IF pc[t] \in {"write", "unlock"} /\ seqs[s].bits = 1
                             THEN reg[t].ctx ELSE cold[s]

Image == Locking /\ Contents /\ Distinct /\ PayloadFacts /\ HeldFacts /\ Views

(* The three facts about the mapping hold of every state whose slots have *)
(* one owner each and different keys.                                     *)
LEMMA ImageFacts == Locking /\ Contents /\ Distinct => Image
<1> SUFFICES ASSUME Locking, Contents, Distinct PROVE Image
  OBVIOUS
<1>1. PayloadFacts /\ HeldFacts /\ SlotOwnership
  BY PayloadOfOwner, EntriesOfSlots DEF Locking
<1>2. ASSUME NEW s \in Slots, \A t \in Threads : ~Owns(t, s)
      PROVE  (Shown(s) <=> keys[s] # NoKey) /\ HeldPayload(s) = cold[s]
  BY <1>1, <1>2 DEF PayloadFacts, Shown, Covered, Replacing
<1>3. ASSUME NEW t \in Threads, NEW s \in Slots, Owns(t, s)
      PROVE  /\ Shown(s) <=> keys[s] # NoKey /\ ~(seqs[s].bits = 3 /\ pc[t] \in Covering)
             /\ HeldPayload(s) = IF pc[t] \in {"write", "unlock"} /\ seqs[s].bits = 1
                                   THEN reg[t].ctx ELSE cold[s]
  <2>1. \A u \in Threads : Owns(u, s) <=> u = t
    BY <1>1, <1>3 DEF SlotOwnership
  <2>2. Shown(s) <=> keys[s] # NoKey /\ ~(seqs[s].bits = 3 /\ pc[t] \in Covering)
    BY <2>1 DEF Shown, Covered
  <2>3. CASE Replacing(t, s)
    BY <1>1, <2>2, <2>3 DEF PayloadFacts, Replacing
  <2>4. CASE ~Replacing(t, s)
    <3>1. \A u \in Threads : ~Replacing(u, s)
      BY <2>1, <2>4 DEF Replacing
    <3> QED
      BY <1>1, <1>3, <2>2, <2>4, <3>1 DEF PayloadFacts, Replacing
  <2> QED
    BY <2>3, <2>4
<1> QED
  BY <1>1, <1>2, <1>3 DEF Image, Views

(* The image of a step is one of the call that steps. *)
LEMMA CallsMove ==
  ASSUME Locking, NEW t \in Threads, Step(t)
  PROVE  /\ Calling' = [Calling EXCEPT ![t] = AbstractCall(t)']
         /\ Taking' = [Taking EXCEPT ![t] = TakenEntry(t)']
         /\ ret' = [ret EXCEPT ![t] = ret'[t]]
         /\ AbstractCall(t)' = AbstractCall(t) => Calling' = Calling
         /\ TakenEntry(t)' = TakenEntry(t) => Taking' = Taking
<1>1. \A u \in Threads \ {t} : /\ AbstractCall(u)' = AbstractCall(u)
                               /\ TakenEntry(u)' = TakenEntry(u)
                               /\ ret'[u] = ret[u]
  BY Bystanders
<1>2. ret = [u \in Threads |-> ret[u]] /\ ret' = [u \in Threads |-> ret'[u]]
  BY Frame DEF Locking, TypeOK, Framed
<1> QED
  BY <1>1, <1>2 DEF Calling, Taking

(* A call that owns no slot has taken no entry. *)
Unowning == \A t \in Threads : pc[t] \notin Owning => TakenEntry(t) = Contract!Nothing

LEMMA NothingTaken == Unowning
BY DEF Unowning, TakenEntry, Contract!Nothing, Contract!Entry, Contract!Empty, Covering, Owning,
  Inserting

(* Steps outside a critical section change neither map nor takings. *)
LEMMA OutsideView ==
  ASSUME Image, Image', NEW t \in Threads, Step(t), pc[t] \notin Owning, ~Takes(t)
  PROVE  /\ pc'[t] \notin Owning
         /\ HeldEntries' = HeldEntries /\ Taking' = Taking
         /\ TakenEntry(t) = Contract!Nothing
<1>1. pc'[t] \notin Owning
  <2>1. ~GivesUp(t) /\ ~Keeps(t)
    BY DEF GivesUp, Unlock, Abort, Keeps, Owning
  <2> QED
    BY <2>1, Phases DEF Outside, Image, Locking
<1>2. /\ reg[t].hit \in Slots
      /\ \A s \in Slots : Same(s)
  BY <1>1, OneSlotMoves DEF Image
<1>3. HeldEntries' = HeldEntries
  BY <1>2, EntriesMove DEF Image
<1>4. Unowning /\ Unowning'
  BY NothingTaken, PTL
<1>5. TakenEntry(t)' = TakenEntry(t)
  BY <1>1, <1>4 DEF Unowning, Contract!Nothing, Contract!Entry, Contract!Empty
<1> QED
  BY <1>1, <1>3, <1>4, <1>5, CallsMove DEF Image, Unowning

(* A call starts as the contract lets it start. *)
LEMMA BeginAct ==
  ASSUME Image, Image', NEW t \in Threads, Step(t), Begin(t) \/ Reject(t)
  PROVE  Contract!Act(t)
<1>1. pc[t] = "idle" /\ ~Takes(t) /\ pc[t] \notin Owning
      /\ t \in DOMAIN pc /\ t \in DOMAIN call /\ t \in DOMAIN ret
  BY DEF Begin, Reject, Takes, TryLock, InsertLock, Owning, Updating, Inserting,
    Image, Locking, TypeOK
<1>2. HeldEntries' = HeldEntries /\ Taking' = Taking /\ Locking
  BY <1>1, OutsideView DEF Image
<1>3. Calling[t] = AbstractCall(t) /\ AbstractCall(t).op = "none"
  BY <1>1 DEF Calling, AbstractCall
<1>4. CASE Begin(t)
  <2>1. PICK c \in Calls : /\ call'[t] = c
                           /\ pc'[t] \in {"snap", "readSeq", "find"}
                           /\ ret' = [ret EXCEPT ![t] = NoResult]
    BY <1>1, <1>4 DEF Begin, Goto
  <2>2. AbstractCall(t)' = [op |-> c.op, key |-> c.key, val |-> c.val,
                            policy |-> IF c.keep THEN "KeepAndRead" ELSE "Overwrite"]
    BY <2>1 DEF AbstractCall
  <2>3. \/ c.op = "Insert" /\ c.key \in Keys /\ c.val \in Stamps
        \/ c.op \in Contract!Queries /\ c.key \in Keys /\ c.val = Zero
        \/ c.op = "Enumerate" /\ c.key = NoKey /\ c.val = Zero
    BY DEF Calls, Call, Stamps, Contract!Queries
  <2>4. AbstractCall(t)' \in Contract!Calls
    BY <2>2, <2>3 DEF Contract!Calls, Contract!Request, Contract!Policies, Contract!Queries
  <2>5. Calling'[t] = AbstractCall(t)' /\ Calling' = [Calling EXCEPT ![t] = AbstractCall(t)']
    BY <1>2, CallsMove DEF Calling
  <2>6. Contract!Begin(t)
    BY <1>2, <2>1, <2>4, <2>5 DEF Contract!Begin, Calling, Taking, Contract!NoResult,
      Contract!Result, Contract!Empty, NoResult, Result
  <2> QED
    BY <1>3, <2>6 DEF Contract!Act, Calling
<1>5. CASE Reject(t)
  <2>1. AbstractCall(t)' = AbstractCall(t)
    BY <1>1, <1>5 DEF Reject, AbstractCall
  <2>2. Calling' = Calling
    BY <1>2, <2>1, CallsMove
  <2>3. \/ ret' = [ret EXCEPT ![t] = Result("Failed", NoKey, Payload(Zero))]
        \/ ret' = [ret EXCEPT ![t] = Result("false", NoKey, Payload(Zero))]
    BY <1>5 DEF Reject
  <2>4. Contract!Reject(t)
    BY <1>2, <2>2, <2>3 DEF Contract!Reject, Calling, Taking, Contract!NotFound,
      Contract!Result, Contract!Empty, Result
  <2> QED
    BY <1>3, <2>4 DEF Contract!Act, Calling
<1> QED
  BY <1>4, <1>5
(* A call that ends: what the contract sees of it. *)
LEMMA Ending ==
  ASSUME Image, NEW t \in Threads, Step(t), pc[t] # "idle", pc'[t] = "idle"
  PROVE  /\ Calling' = [Calling EXCEPT ![t] = Contract!NoCall]
         /\ Calling[t] = AbstractCall(t)
         /\ AbstractCall(t).op = call[t].op
         /\ AbstractCall(t).key = call[t].key
         /\ AbstractCall(t).val = call[t].val
         /\ AbstractCall(t).policy = IF call[t].keep THEN "KeepAndRead" ELSE "Overwrite"
         /\ call[t].op \in Ops
<1>1. AbstractCall(t)' = Contract!NoCall
  BY DEF AbstractCall, Contract!NoCall
<1>2. call[t].op \in Ops
  BY CallFacts DEF Image, Locking, TypeOK, IndexOK
<1> QED
  BY <1>1, <1>2, CallsMove DEF Image, Calling, AbstractCall

(* A query that ends without having found its key. *)
LEMMA MissAct ==
  ASSUME Image, NEW t \in Threads, Step(t), Asked(t), missed[t], pc'[t] = "idle",
         ret'[t] = Result("false", NoKey, Payload(Zero)),
         HeldEntries' = HeldEntries, Taking' = Taking, TakenEntry(t) = Contract!Nothing
  PROVE  Contract!Act(t)
<1>1. /\ Calling' = [Calling EXCEPT ![t] = Contract!NoCall]
      /\ Calling[t] = AbstractCall(t) /\ AbstractCall(t).op = call[t].op
      /\ call[t].op \in {"Lookup", "Contains", "Delete"}
  BY Ending DEF Asked
<1>2. ret' = [ret EXCEPT ![t] = Contract!NotFound]
  BY CallsMove DEF Image, Contract!NotFound, Contract!Result, Contract!Empty, Result
<1>3. Taking[t] = Contract!Nothing /\ Taking' = [Taking EXCEPT ![t] = Contract!Nothing]
  BY DEF Taking
<1>4. Contract!Ends(t) /\ Contract!Miss(t)
  BY <1>1, <1>2, <1>3 DEF Contract!Ends, Contract!Miss, Contract!Return, Calling, Taking
<1> QED
  BY <1>1, <1>4 DEF Contract!Act, Calling

(* A query that has found its key in a slot that shows it. *)
LEMMA HitAct ==
  ASSUME Image, NEW t \in Threads, Step(t), pc[t] # "idle", pc'[t] = "idle",
         call[t].op \in {"Lookup", "Contains"},
         NEW s \in Slots, ~Odd(seqs[s]), keys[s] = call[t].key, keys[s] # NoKey,
         ret'[t] = Result("true", call[t].key,
                     IF call[t].op = "Lookup" THEN cold[s] ELSE Payload(Zero)),
         HeldEntries' = HeldEntries, Taking' = Taking, TakenEntry(t) = Contract!Nothing
  PROVE  Contract!Act(t)
<1>1. /\ Calling' = [Calling EXCEPT ![t] = Contract!NoCall]
      /\ Calling[t] = AbstractCall(t) /\ AbstractCall(t).op = call[t].op
      /\ AbstractCall(t).key = call[t].key
  BY Ending
<1>2. \A u \in Threads : ~Owns(u, s)
  BY DEF Image, Locking, SlotOwnership, Owns
<1>3. call[t].key \in DOMAIN HeldEntries /\ HeldEntries[call[t].key] = cold[s]
  BY <1>2 DEF Image, Views, HeldFacts
<1>4. ret' = [ret EXCEPT ![t] = Result("true", call[t].key,
                   IF call[t].op = "Lookup" THEN HeldEntries[call[t].key] ELSE Payload(Zero))]
  BY <1>3, CallsMove DEF Image
<1>5. Taking' = [Taking EXCEPT ![t] = Contract!Nothing]
  BY DEF Taking
<1>6. Contract!There(Calling[t].op, Calling[t].key)
  BY <1>1, <1>3 DEF Contract!There
<1>7. Contract!Ends(t)
  BY <1>1 DEF Contract!Ends, Calling
<1>8. Contract!Hit(t)
  BY <1>1, <1>4, <1>5, <1>6 DEF Contract!Hit, Contract!Return, Contract!Result,
    Contract!Empty, Result, Calling, Taking
<1> QED
  BY <1>1, <1>7, <1>8 DEF Contract!Act, Calling

(* One slot of an enumeration. *)
LEMMA ReportAct ==
  ASSUME Image, ReadersSeeOneVersion, NEW t \in Threads, Step(t), EnumerateValidated(t),
         HeldEntries' = HeldEntries, Taking' = Taking
  PROVE  Contract!Act(t)
<1>1. /\ pc[t] = "validate" /\ call[t].op = "Enumerate" /\ call' = call
      /\ seqs[reg[t].hit] = reg[t].seq /\ reg[t].i > NumWords
      /\ t \in DOMAIN pc /\ t \in DOMAIN ret
  BY IndexFacts DEF EnumerateValidated, Shared, Image, Locking, TypeOK, IndexOK
<1>2. /\ ~Odd(seqs[reg[t].hit]) /\ reg[t].hit \in Slots
      /\ reg[t].key = keys[reg[t].hit] /\ reg[t].ctx = cold[reg[t].hit]
  BY <1>1, ValidatedIsWhole DEF Image
<1>3. Calling[t] = AbstractCall(t) /\ AbstractCall(t).op = "Enumerate"
  BY <1>1 DEF Calling, AbstractCall
<1>4. Calling' = Calling \/ Contract!Ends(t)
  <2>1. CASE pc'[t] = "idle"
    BY <1>1, <2>1, Ending DEF Contract!Ends, Calling
  <2>2. CASE pc'[t] # "idle"
    <3>1. AbstractCall(t)' = AbstractCall(t)
      BY <1>1, <2>2 DEF AbstractCall
    <3> QED
      BY <3>1, CallsMove DEF Image
  <2> QED
    BY <2>1, <2>2
<1>5. \/ ret' = [ret EXCEPT ![t] = Contract!NoResult]
      \/ \E k \in DOMAIN HeldEntries :
           ret' = [ret EXCEPT ![t] = Contract!Result("reported", k, HeldEntries[k])]
  <2>1. CASE reg[t].key = NoKey
    BY <1>1, <2>1 DEF EnumerateValidated, NoResult, Result, Contract!NoResult,
      Contract!Result, Contract!Empty
  <2>2. CASE reg[t].key # NoKey
    <3>1. \A u \in Threads : ~Owns(u, reg[t].hit)
      BY <1>2 DEF Image, Locking, SlotOwnership, Owns
    <3>2. /\ reg[t].key \in DOMAIN HeldEntries
          /\ HeldEntries[reg[t].key] = reg[t].ctx
      BY <1>2, <2>2, <3>1 DEF Image, Views, HeldFacts
    <3>3. ret' = [ret EXCEPT ![t] = Result("reported", reg[t].key, reg[t].ctx)]
      BY <1>1, <2>2 DEF EnumerateValidated
    <3> QED
      BY <3>2, <3>3 DEF Result, Contract!Result
  <2> QED
    BY <2>1, <2>2
<1>6. Contract!Report(t)
  BY <1>4, <1>5 DEF Contract!Report, Calling, Taking
<1> QED
  BY <1>3, <1>6 DEF Contract!Act, Calling

(* The key is nowhere in the bucket when the last slot of a scan has     *)
(* another one and no moment without it has been noted.                  *)
LEMMA ScanEnds ==
  ASSUME NEW t \in Threads, Noted(t), Asked(t), pc[t] = "find",
         reg[t].i = Last, keys[Last] # call[t].key
  PROVE  missed[t]
<1> SUFFICES ASSUME ~missed[t] PROVE FALSE
  OBVIOUS
<1>1. PICK s \in Slots : Holds(s, call[t].key) /\ s >= Last
  BY DEF Noted
<1>2. s = Last
  BY <1>1, IndexFacts DEF Slots, Last
<1> QED
  BY <1>1, <1>2 DEF Holds

(* Every step of a call that owns nothing. *)
LEMMA OutsideAct ==
  ASSUME Image, Image', ReadersSeeOneVersion, NEW t \in Threads, Step(t),
         SnapOK(t), Noted(t), pc[t] \notin Owning, ~Takes(t)
  PROVE  Contract!Act(t) \/ Stutters
<1>1. /\ HeldEntries' = HeldEntries /\ Taking' = Taking
      /\ TakenEntry(t) = Contract!Nothing
  BY OutsideView
<1>2. /\ t \in DOMAIN pc /\ t \in DOMAIN ret /\ Doing(t) /\ Locking /\ IndexOK(t)
      /\ reg[t].hit \in Slots
  BY DEF Image, Locking, TypeOK, Contents, Regs
<1>3. ASSUME call' = call, pc[t] # "idle", pc'[t] # "idle", ret' = ret
      PROVE  Stutters
  <2>1. AbstractCall(t)' = AbstractCall(t)
    BY <1>3 DEF AbstractCall
  <2> QED
    BY <1>1, <1>2, <1>3, <2>1, CallsMove DEF Stutters
<1> USE <1>2 DEF Goto, Set, Return, Rescan, Shared
<1>4. CASE Begin(t) \/ Reject(t)
  BY <1>4, BeginAct
<1>5. CASE FindMiss(t)
  <2>1. /\ pc[t] = "find" /\ reg[t].i = Last /\ keys[Last] # call[t].key
        /\ call' = call
    BY <1>5 DEF FindMiss
  <2>2. CASE pc'[t] # "idle"
    BY <1>3, <1>5, <2>1, <2>2 DEF FindMiss
  <2>3. CASE pc'[t] = "idle"
    <3>1. /\ call[t].op \in {"Lookup", "Delete"}
          /\ ret'[t] = Result("false", NoKey, Payload(Zero))
      BY <1>5, <2>3 DEF FindMiss
    <3>2. Asked(t) /\ missed[t]
      BY <2>1, <3>1, ScanEnds DEF Asked
    <3> QED
      BY <1>1, <2>3, <3>1, <3>2, MissAct
  <2> QED
    BY <2>2, <2>3
<1>6. CASE LookupValidated(t)
  <2>1. /\ pc[t] = "validate" /\ call[t].op = "Lookup" /\ call' = call
        /\ seqs[reg[t].hit] = reg[t].seq /\ reg[t].i > NumWords
    BY <1>6, IndexFacts DEF LookupValidated, IndexOK
  <2>2. CASE reg[t].key # call[t].key
    BY <1>3, <1>6, <2>1, <2>2 DEF LookupValidated
  <2>3. CASE reg[t].key = call[t].key
    <3>1. /\ ~Odd(seqs[reg[t].hit]) /\ keys[reg[t].hit] = call[t].key
          /\ reg[t].ctx = cold[reg[t].hit]
      BY <2>1, <2>3, ValidatedIsWhole DEF Image
    <3>2. call[t].key # NoKey
      BY <2>1, CallFacts, NoKeyAssumption DEF IndexOK
    <3>3. pc'[t] = "idle" /\ ret'[t] = Result("true", call[t].key, cold[reg[t].hit])
      BY <1>6, <2>1, <2>3, <3>1 DEF LookupValidated
    <3> QED
      BY <1>1, <2>1, <3>1, <3>2, <3>3, HitAct
  <2> QED
    BY <2>2, <2>3
<1>7. CASE ConfirmHit(t)
  <2>1. pc[t] = "confirmHit" /\ call[t].op = "Contains" /\ call' = call
    BY <1>7 DEF ConfirmHit, Doing
  <2>2. CASE reg[t].snap[reg[t].hit] # seqs[reg[t].hit]
    BY <1>3, <1>7, <2>1, <2>2 DEF ConfirmHit
  <2>3. CASE reg[t].snap[reg[t].hit] = seqs[reg[t].hit]
    <3>1. ~Odd(seqs[reg[t].hit]) /\ keys[reg[t].hit] = call[t].key
      BY <2>1, <2>3 DEF SnapOK
    <3>2. call[t].key # NoKey
      BY <2>1, CallFacts, NoKeyAssumption DEF IndexOK
    <3>3. pc'[t] = "idle" /\ ret'[t] = Result("true", call[t].key, Payload(Zero))
      BY <1>7, <2>3 DEF ConfirmHit
    <3> QED
      BY <1>1, <2>1, <3>1, <3>2, <3>3, HitAct
  <2> QED
    BY <2>2, <2>3
<1>8. CASE ConfirmMiss(t)
  <2>1. pc[t] = "confirmMiss" /\ call[t].op = "Contains" /\ call' = call
    BY <1>8 DEF ConfirmMiss, Doing
  <2>2. CASE pc'[t] # "idle"
    BY <1>3, <1>8, <2>1, <2>2 DEF ConfirmMiss
  <2>3. CASE pc'[t] = "idle"
    <3>1. ret'[t] = Result("false", NoKey, Payload(Zero))
      BY <1>8, <2>1, <2>3 DEF ConfirmMiss
    <3>2. Asked(t) /\ missed[t]
      BY <2>1 DEF Asked, Noted
    <3> QED
      BY <1>1, <2>3, <3>1, <3>2, MissAct
  <2> QED
    BY <2>2, <2>3
<1>9. CASE EnumerateValidated(t)
  BY <1>1, <1>9, ReportAct
<1>10. CASE FindHit(t) \/ FindNext(t)
  BY <1>3, <1>10 DEF FindHit, FindNext
<1>11. CASE LoadSeq(t) \/ TryFails(t) \/ Backoff(t)
  BY <1>3, <1>11 DEF LoadSeq, TryFails, Backoff
<1>12. CASE FindEmptySlot(t) \/ InsertLoad(t) \/ InsertLockFails(t)
  BY <1>3, <1>12 DEF FindEmptySlot, InsertLoad, InsertLockFails
<1>13. CASE ReadSeq(t) \/ ReadWord(t) \/ ReadKey(t) \/ ReadAgain(t)
  BY <1>3, <1>13 DEF ReadSeq, ReadWord, ReadKey, ReadAgain
<1>14. CASE Snapshot(t)
  BY <1>3, <1>14 DEF Snapshot
<1> QED
  <2>1. ~Owned(t)
    BY DEF Owned, CheckKey, PublishIntent, Verify, VerifySeq, VerifyKey, VerifySkip,
      VerifyDone, RestoreKey, WriteWord, WriteDone, Unlock, Abort, Owning, Updating,
      Inserting
  <2> QED
    BY <1>4, <1>5, <1>6, <1>7, <1>8, <1>9, <1>10, <1>11, <1>12, <1>13, <1>14, <2>1
    DEF Step, Run, Find, Lock, Insert, Read, Contains, Takes
(***************************************************************************)
(* The steps under a lock.                                                  *)
(***************************************************************************)

(* Taking a lock shows nothing. *)
LEMMA TakesAct ==
  ASSUME Image, Image', NEW t \in Threads, Step(t), Takes(t)
  PROVE  Stutters
<1> DEFINE h == reg[t].hit
<1>1. /\ UNCHANGED <<keys, cold, call, reg, ret>> /\ pc[t] \in {"try", "insertTry"}
      /\ pc'[t] \in {"check", "intent"} /\ h \in Slots /\ ~Odd(seqs[h])
  BY WordsMove DEF Takes, TryLock, InsertLock, Goto, Image, Locking, TypeOK, LocalSeqs
<1>2. Owns(t, h)' /\ pc'[t] \notin Covering \cup {"write", "unlock"}
  BY <1>1 DEF Owns, Owning, Updating, Inserting, Covering
<1>3. (Shown(h)' <=> keys[h] # NoKey) /\ HeldPayload(h)' = cold[h]
  <2>1. /\ Shown(h)' <=> keys'[h] # NoKey /\ ~(seqs'[h].bits = 3 /\ pc'[t] \in Covering)
        /\ HeldPayload(h)' = IF pc'[t] \in {"write", "unlock"} /\ seqs'[h].bits = 1
                               THEN reg'[t].ctx ELSE cold'[h]
    BY <1>1, <1>2 DEF Image, Views
  <2> QED
    BY <1>1, <1>2, <2>1
<1>4. (Shown(h) <=> keys[h] # NoKey) /\ HeldPayload(h) = cold[h]
  <2>1. \A u \in Threads : ~Owns(u, h)
    BY <1>1 DEF Image, Locking, SlotOwnership, Owns
  <2> QED
    BY <1>1, <2>1 DEF Image, Views
<1>5. Same(h)
  BY <1>1, <1>3, <1>4 DEF Same
<1>6. HeldEntries' = HeldEntries
  BY <1>5, OneSlotMoves, EntriesMove DEF Image
<1>7. AbstractCall(t)' = AbstractCall(t) /\ TakenEntry(t)' = TakenEntry(t)
  BY <1>1 DEF AbstractCall, TakenEntry, Covering
<1> QED
  BY <1>1, <1>6, <1>7, CallsMove DEF Stutters, Image

(* What a call that keeps its lock shows before and after a step of its own. *)
LEMMA OwnView ==
  ASSUME Image, Image', NEW t \in Threads, Step(t), pc[t] \in Owning, pc'[t] \in Owning,
         call' = call, ret' = ret, NEW h \in Slots, h = reg[t].hit
  PROVE  /\ Odd(seqs[h]) /\ reg'[t].hit = h /\ seqs' = seqs
         /\ \A s \in Slots \ {h} : Same(s)
         /\ Shown(h) <=> keys[h] # NoKey /\ ~(seqs[h].bits = 3 /\ pc[t] \in Covering)
         /\ HeldPayload(h) = IF pc[t] \in {"write", "unlock"} /\ seqs[h].bits = 1
                               THEN reg[t].ctx ELSE cold[h]
         /\ Shown(h)' <=> keys'[h] # NoKey /\ ~(seqs[h].bits = 3 /\ pc'[t] \in Covering)
         /\ HeldPayload(h)' = IF pc'[t] \in {"write", "unlock"} /\ seqs[h].bits = 1
                                THEN reg'[t].ctx ELSE cold'[h]
         /\ Calling' = Calling
<1>1. reg'[t].hit = h /\ seqs' = seqs
  <2>1. ~Takes(t) /\ ~Outside(t)
    BY DEF Takes, TryLock, InsertLock, Outside, Owning, Updating, Inserting
  <2>2. ~GivesUp(t)
    BY DEF GivesUp, Unlock, Abort, Return, Rescan, Goto, Owning, Updating, Inserting,
      Image, Locking, TypeOK
  <2> QED
    BY <2>1, <2>2, Phases DEF Keeps, Image, Locking
<1>2. Owns(t, h) /\ Owns(t, h)' /\ Odd(seqs[h])
  BY <1>1 DEF Image, Locking, TypeOK, Regs, Owns, SlotOwnership
<1>3. /\ Shown(h) <=> keys[h] # NoKey /\ ~(seqs[h].bits = 3 /\ pc[t] \in Covering)
      /\ HeldPayload(h) = IF pc[t] \in {"write", "unlock"} /\ seqs[h].bits = 1
                            THEN reg[t].ctx ELSE cold[h]
  BY <1>2 DEF Image, Views
<1>4. /\ Shown(h)' <=> keys'[h] # NoKey /\ ~(seqs'[h].bits = 3 /\ pc'[t] \in Covering)
      /\ HeldPayload(h)' = IF pc'[t] \in {"write", "unlock"} /\ seqs'[h].bits = 1
                             THEN reg'[t].ctx ELSE cold'[h]
  BY <1>2 DEF Image, Views
<1>5. AbstractCall(t)' = AbstractCall(t)
  BY DEF AbstractCall, Owning, Updating, Inserting
<1>6. Calling' = Calling
  BY <1>5, CallsMove DEF Image
<1>7. \A s \in Slots \ {h} : Same(s)
  BY OneSlotMoves DEF Image
<1> QED
  BY <1>1, <1>2, <1>3, <1>4, <1>6, <1>7

(* The moment an entry is taken out of the map: an insert covers the entry *)
(* it evicts, a delete clears the key of its own.                          *)
LEMMA TakeAct ==
  ASSUME Image, Image', NEW t \in Threads, Step(t), pc[t] \in Owning, pc'[t] \in Owning,
         call' = call, ret' = ret, NEW h \in Slots, h = reg[t].hit,
         NEW k, k # NoKey, Shown(h), ~Shown(h)', keys[h] = k,
         call[t].op \in {"Insert", "Delete"}, call[t].op = "Insert" <=> k # call[t].key,
         TakenEntry(t) = Contract!Nothing,
         TakenEntry(t)' = [key |-> k, ctx |-> HeldPayload(h)]
  PROVE  Contract!Act(t)
<1>1. Calling' = Calling /\ \A s \in Slots \ {h} : Same(s)
  BY OwnView
<1>2. HeldEntries' = Contract!Without(k)
  BY <1>1, EntriesMove DEF Image
<1>3. k \in DOMAIN HeldEntries /\ HeldEntries[k] = HeldPayload(h)
  BY <1>1 DEF Image, HeldFacts
<1>4. Calling[t] = AbstractCall(t) /\ Taking[t] = TakenEntry(t)
      /\ Taking'[t] = TakenEntry(t)' /\ Taking' = [Taking EXCEPT ![t] = TakenEntry(t)']
  BY CallsMove DEF Calling, Taking, Image
<1>5. AbstractCall(t).op = call[t].op /\ AbstractCall(t).key = call[t].key
  BY DEF AbstractCall, Owning, Updating, Inserting
<1>6. TakenEntry(t)' = Contract!Entry(k, HeldEntries[k])
      /\ TakenEntry(t)' # Contract!Nothing
  BY <1>3 DEF Contract!Entry, Contract!Nothing
<1>7. Contract!Take(t)
  BY <1>1, <1>2, <1>3, <1>4, <1>5, <1>6 DEF Contract!Take, Calling, Taking
<1> QED
  BY <1>4, <1>5, <1>7 DEF Contract!Act, Calling

(* A step under the lock that shows nothing. *)
LEMMA HiddenAct ==
  ASSUME Image, Image', NEW t \in Threads, Step(t), pc[t] \in Owning, pc'[t] \in Owning,
         call' = call, ret' = ret, NEW h \in Slots, h = reg[t].hit,
         Same(h) \/ (~Shown(h) /\ ~Shown(h)'),
         TakenEntry(t)' = TakenEntry(t)
  PROVE  Stutters
<1>1. Calling' = Calling /\ \A s \in Slots \ {h} : Same(s)
  BY OwnView
<1>2. HeldEntries' = HeldEntries
  BY <1>1, EntriesMove DEF Image
<1> QED
  BY <1>1, <1>2, CallsMove DEF Stutters, Image

(* Every step of a call that holds on to its slot. *)
LEMMA KeepsAct ==
  ASSUME Image, Image', NEW t \in Threads, Step(t), Searched(t),
         pc[t] \in Owning, ~GivesUp(t), NEW h \in Slots, h = reg[t].hit
  PROVE  Contract!Act(t) \/ Stutters
<1>1. /\ t \in DOMAIN pc /\ t \in DOMAIN call /\ t \in DOMAIN reg
      /\ reg[t] \in Regs /\ Odd(seqs[h])
      /\ Doing(t) /\ Filled(t) /\ Captured(t) /\ IndexOK(t)
      /\ pc[t] \in Inserting => seqs[h].bits = 3
      /\ pc[t] \in Updating => seqs[h].bits = 1
      /\ keys \in [Slots -> Keys \cup {NoKey}]
      /\ cold \in [Slots -> Payloads]
  BY DEF Image, Locking, TypeOK, Contents, Regs, SlotOwnership
<1>2. call[t].op \in {"Insert", "Delete"} /\ call[t].key \in Keys /\ call[t].key # NoKey
  BY <1>1, CallFacts, NoKeyAssumption DEF Doing, IndexOK, Owning, Updating, Inserting
<1> USE <1>1 DEF Goto, Set, Return, Rescan, Shared
<1>3. CASE CheckKey(t)
  <2>1. /\ UNCHANGED <<keys, seqs, cold, call, ret>> /\ pc[t] = "check"
        /\ pc'[t] \in {"abort", "unlock", "write"} /\ seqs[h].bits = 1
    BY <1>3 DEF CheckKey, Updating
  <2>2. pc'[t] # "abort" => reg'[t].ctx = cold[h]
    BY <1>3 DEF CheckKey, Regs
  <2>3. pc'[t] \in Owning
    BY <2>1 DEF Owning
  <2>4. Same(h)
    BY <2>1, <2>2, <2>3, OwnView DEF Same
  <2>5. reg'[t].hit = h
    BY <2>1, <2>3, OwnView
  <2>6. pc'[t] = "unlock" => call[t].op = "Insert"
    BY <1>3, <2>1 DEF CheckKey
  <2>7. TakenEntry(t)' = TakenEntry(t)
    BY <2>1, <2>5, <2>6 DEF TakenEntry, Covering
  <2> QED
    BY <2>1, <2>3, <2>4, <2>7, HiddenAct
<1>4. CASE WriteWord(t)
  <2>1. /\ UNCHANGED <<keys, seqs, pc, call, ret>> /\ pc[t] = "write"
        /\ reg'[t].ctx = reg[t].ctx /\ reg'[t].key = reg[t].key
    BY <1>4 DEF WriteWord, Regs
  <2>2. pc'[t] \in Owning
    BY <2>1
  <2>3. reg'[t].hit = h
    BY <2>1, <2>2, OwnView
  <2>4. seqs[h].bits \in {1, 3}
    BY DEF Odd, Image, Locking, TypeOK, Seqs
  <2>5. Same(h) \/ (~Shown(h) /\ ~Shown(h)')
    BY <2>1, <2>2, <2>4, OwnView DEF Same, Covering
  <2>6. TakenEntry(t)' = TakenEntry(t)
    BY <2>1, <2>3 DEF TakenEntry, Covering
  <2> QED
    BY <2>1, <2>2, <2>5, <2>6, HiddenAct
<1>5. CASE WriteDone(t)
  <2>1. /\ UNCHANGED <<seqs, cold, call, reg, ret>> /\ pc[t] = "write" /\ pc'[t] = "unlock"
        /\ call[t].op = "Delete" => keys'[h] = NoKey
        /\ call[t].op # "Delete" => keys' = keys
        /\ keys[h] = call[t].key
    BY <1>5 DEF WriteDone, Filled
  <2>2. pc'[t] \in Owning
    BY <2>1 DEF Owning
  <2>3. CASE call[t].op = "Insert"
    <3>1. seqs[h].bits \in {1, 3}
      BY DEF Odd, Image, Locking, TypeOK, Seqs
    <3>2. Same(h) \/ (~Shown(h) /\ ~Shown(h)')
      BY <2>1, <2>2, <2>3, <3>1, OwnView DEF Same, Covering
    <3>3. TakenEntry(t)' = TakenEntry(t)
      BY <2>1, <2>3 DEF TakenEntry, Covering
    <3> QED
      BY <2>1, <2>2, <3>2, <3>3, HiddenAct
  <2>4. CASE call[t].op = "Delete"
    <3>1. seqs[h].bits = 1 /\ reg[t].key = call[t].key
      BY <2>1, <2>4 DEF Doing, Captured
    <3>2. /\ Shown(h) /\ ~Shown(h)' /\ HeldPayload(h) = reg[t].ctx
      BY <1>2, <2>1, <2>2, <2>4, <3>1, OwnView
    <3>3. TakenEntry(t) = Contract!Nothing
      BY <2>1, <2>4 DEF TakenEntry, Contract!Nothing, Contract!Entry, Contract!Empty
    <3>4. TakenEntry(t)' = [key |-> call[t].key, ctx |-> HeldPayload(h)]
      BY <2>1, <2>4, <3>1, <3>2 DEF TakenEntry
    <3> QED
      BY <1>2, <2>1, <2>2, <2>4, <3>2, <3>3, <3>4, TakeAct
  <2> QED
    BY <1>2, <2>3, <2>4
<1>6. CASE PublishIntent(t)
  <2>1. /\ UNCHANGED <<seqs, cold, call, ret>> /\ pc[t] = "intent" /\ pc'[t] = "verifySeq"
        /\ keys'[h] = call[t].key /\ reg'[t].key = keys[h]
        /\ seqs[h].bits = 3 /\ call[t].op = "Insert"
    BY <1>6 DEF PublishIntent, Regs, Inserting, Doing
  <2>2. pc'[t] \in Owning
    BY <2>1 DEF Owning, Inserting
  <2>3. reg'[t].hit = h /\ keys[h] # call[t].key
    BY <2>1, <2>2, OwnView DEF Searched, Searching, Missing
  <2>4. /\ Shown(h) <=> keys[h] # NoKey
        /\ HeldPayload(h) = cold[h]
        /\ ~Shown(h)'
    BY <2>1, <2>2, OwnView DEF Covering
  <2>5. TakenEntry(t) = Contract!Nothing
    BY <2>1 DEF TakenEntry, Covering, Contract!Nothing, Contract!Entry, Contract!Empty
  <2>6. CASE keys[h] = NoKey
    <3>1. TakenEntry(t)' = TakenEntry(t)
      BY <2>1, <2>3, <2>6 DEF TakenEntry, Covering
    <3> QED
      BY <2>1, <2>2, <2>4, <2>6, <3>1, HiddenAct
  <2>7. CASE keys[h] # NoKey
    <3>1. TakenEntry(t)' = [key |-> keys[h], ctx |-> HeldPayload(h)]
      BY <2>1, <2>3, <2>4, <2>7 DEF TakenEntry, Covering
    <3> QED
      BY <2>1, <2>2, <2>3, <2>4, <2>5, <2>7, <3>1, TakeAct
  <2> QED
    BY <2>6, <2>7
<1>7. CASE Verify(t)
  <2>1. /\ UNCHANGED <<keys, seqs, cold, call, ret>>
        /\ pc[t] \in {"verifySeq", "verifyKey"} /\ seqs[h].bits = 3
        /\ pc'[t] \in {"verifySeq", "verifyKey", "restore", "write"}
        /\ reg'[t].key = reg[t].key
        /\ pc'[t] = "write" /\ reg[t].key # NoKey => reg'[t].ctx = cold[h]
    <3> USE DEF Regs, Inserting
    <3>1. CASE VerifySeq(t)
      BY <3>1 DEF VerifySeq
    <3>2. CASE VerifyKey(t)
      BY <3>2 DEF VerifyKey
    <3>3. CASE VerifySkip(t)
      BY <3>3 DEF VerifySkip
    <3>4. CASE VerifyDone(t)
      BY <3>4 DEF VerifyDone
    <3> QED
      BY <1>7, <3>1, <3>2, <3>3, <3>4 DEF Verify
  <2>2. pc'[t] \in Owning
    BY <2>1 DEF Owning, Inserting
  <2>3. reg'[t].hit = h /\ ~Shown(h) /\ ~Shown(h)'
    BY <2>1, <2>2, OwnView DEF Covering
  <2>4. TakenEntry(t)' = TakenEntry(t)
    BY <2>1, <2>3 DEF TakenEntry, Covering
  <2> QED
    BY <2>1, <2>2, <2>3, <2>4, HiddenAct
<1> QED
  <2>1. ~RestoreKey(t)
    BY DEF RestoreKey, Searched
  <2>2. \/ CheckKey(t) \/ WriteWord(t) \/ WriteDone(t) \/ PublishIntent(t)
        \/ Verify(t) \/ RestoreKey(t)
    BY DEF Step, Run, Find, Lock, Insert, Owned, Read, Contains, GivesUp,
      Begin, Reject, FindHit, FindNext, FindMiss, LoadSeq, TryLock, TryFails, Backoff,
      FindEmptySlot, InsertLoad, InsertLock, InsertLockFails, ReadSeq, ReadWord,
      ReadKey, ReadAgain, LookupValidated, EnumerateValidated, Snapshot,
      ConfirmHit, ConfirmMiss, Owning, Updating, Inserting
  <2> QED
    BY <1>3, <1>4, <1>5, <1>6, <1>7, <2>1, <2>2
-----------------------------------------------------------------------------
(* A slot that shows no entry leaves room for one. *)
LEMMA RoomForOne ==
  ASSUME HeldFacts, NEW h \in Slots, ~Shown(h)
  PROVE  Cardinality(DOMAIN HeldEntries) < NumSlots
<1> DEFINE D == DOMAIN HeldEntries
           f == [k \in D |-> CHOOSE s \in Slots : Holds(s, k)]
<1>1. IsFiniteSet(Slots) /\ Cardinality(Slots) = NumSlots
  BY NumSlotsAssumption, FS_Interval DEF Slots
<1>2. /\ IsFiniteSet(Slots \ {h})
      /\ Cardinality(Slots \ {h}) = NumSlots - 1
  BY <1>1, FS_RemoveElement
<1>3. \A k \in D : f[k] \in Slots /\ Holds(f[k], k)
  BY DEF HeldFacts
<1>4. f \in Injection(D, Slots \ {h})
  <2>1. f \in [D -> Slots \ {h}]
    BY <1>3 DEF Holds
  <2>2. \A a, b \in DOMAIN f : f[a] = f[b] => a = b
    BY <1>3 DEF Holds
  <2> QED
    BY <2>1, <2>2 DEF Injection, IsInjective
<1>5. IsFiniteSet(D) /\ Cardinality(D) <= NumSlots - 1
  BY <1>2, <1>4, FS_Injection
<1>6. Cardinality(D) \in Nat
  BY <1>5, FS_CardinalityType
<1> QED
  BY <1>5, <1>6, NumSlotsAssumption

(* The contract counts entries as this module does. *)
LEMMA SameCount ==
  ASSUME NEW S
  PROVE  Contract!Cardinality(S) = Cardinality(S)
BY DEF Contract!Cardinality, Cardinality

(* What a slot shows just before it is given up, and just after. *)
LEMMA LastView ==
  ASSUME Image, Image', NEW t \in Threads, Step(t), GivesUp(t),
         NEW h \in Slots, h = reg[t].hit
  PROVE  /\ pc[t] \in {"unlock", "abort"} /\ pc'[t] \notin Owning
         /\ UNCHANGED <<keys, cold, call>>
         /\ seqs[h].bits \in {1, 3}
         /\ \A s \in Slots \ {h} : Same(s)
         /\ Shown(h) <=> keys[h] # NoKey /\ ~(seqs[h].bits = 3 /\ pc[t] = "unlock")
         /\ HeldPayload(h) = IF pc[t] = "unlock" /\ seqs[h].bits = 1
                               THEN reg[t].ctx ELSE cold[h]
         /\ Shown(h)' <=> keys[h] # NoKey
         /\ HeldPayload(h)' = cold[h]
<1>1. /\ pc[t] \in {"unlock", "abort"} /\ pc'[t] \notin Owning
      /\ UNCHANGED <<keys, cold, call>>
  BY DEF GivesUp, Unlock, Abort, Return, Rescan, Goto, Owning, Updating, Inserting,
    Image, Locking, TypeOK
<1>2. Owns(t, h)
  BY <1>1 DEF Owns, Owning
<1>3. seqs[h].bits \in {1, 3}
  BY <1>2 DEF Image, Locking, TypeOK, SlotOwnership, Owns, Odd, Seqs
<1>4. \A s \in Slots \ {h} : Same(s)
  BY OneSlotMoves DEF Image
<1>5. /\ Shown(h) <=> keys[h] # NoKey /\ ~(seqs[h].bits = 3 /\ pc[t] \in Covering)
      /\ HeldPayload(h) = IF pc[t] \in {"write", "unlock"} /\ seqs[h].bits = 1
                            THEN reg[t].ctx ELSE cold[h]
  BY <1>2 DEF Image, Views
<1>6. \A u \in Threads : ~Owns(u, h)'
  <2>1. ASSUME NEW u \in Threads, u # t PROVE ~Owns(u, h)'
    <3>1. ~Owns(u, h)
      BY <1>2, <2>1 DEF Image, Locking, SlotOwnership
    <3>2. pc'[u] = pc[u] /\ reg'[u] = reg[u]
      BY <2>1, Frame DEF Framed, Image, Locking
    <3> QED
      BY <3>1, <3>2 DEF Owns
  <2> QED
    BY <1>1, <2>1 DEF Owns
<1>7. (Shown(h)' <=> keys'[h] # NoKey) /\ HeldPayload(h)' = cold'[h]
  BY <1>6 DEF Image, Views
<1> QED
  BY <1>1, <1>3, <1>4, <1>5, <1>7 DEF Covering

(* An aborted writer goes back to its scan and leaves no trace. *)
LEMMA AbortAct ==
  ASSUME Image, Image', NEW t \in Threads, Step(t), Abort(t)
  PROVE  Stutters
<1>1. /\ reg[t].hit \in Slots /\ pc[t] = "abort" /\ pc'[t] = "find"
      /\ UNCHANGED <<call, ret>>
  BY DEF Abort, Rescan, Goto, Image, Locking, TypeOK, Regs
<1>2. PICK h \in Slots : h = reg[t].hit
  BY <1>1
<1>3. /\ \A s \in Slots \ {h} : Same(s)
      /\ Same(h)
  BY <1>1, <1>2, LastView DEF GivesUp, Same
<1>4. HeldEntries' = HeldEntries
  BY <1>3, EntriesMove DEF Image
<1>5. TakenEntry(t)' = TakenEntry(t) /\ AbstractCall(t)' = AbstractCall(t)
  BY <1>1 DEF TakenEntry, AbstractCall, Covering
<1> QED
  BY <1>1, <1>4, <1>5, CallsMove DEF Stutters, Image

(* The unlock is the moment an insert takes effect, and the return of a *)
(* delete.                                                              *)
LEMMA UnlockAct ==
  ASSUME Image, Image', NEW t \in Threads, Step(t), Unlock(t), Written(t)
  PROVE  Contract!Act(t)
<1>1. /\ reg[t].hit \in Slots /\ pc[t] = "unlock" /\ pc'[t] = "idle"
      /\ t \in DOMAIN ret /\ ret'[t] = WriterResult(t)
      /\ Doing(t) /\ Captured(t) /\ IndexOK(t)
      /\ call[t].op \in {"Insert", "Delete"}
  BY DEF Unlock, Return, Goto, Image, Locking, TypeOK, Regs, Contents, Doing, Owning
<1>2. PICK h \in Slots : h = reg[t].hit
  BY <1>1
<1>3. /\ call' = call /\ seqs[h].bits \in {1, 3}
      /\ \A s \in Slots \ {h} : Same(s)
      /\ keys' = keys
      /\ Shown(h) <=> keys[h] # NoKey /\ seqs[h].bits # 3
      /\ HeldPayload(h) = IF seqs[h].bits = 1 THEN reg[t].ctx ELSE cold[h]
      /\ Shown(h)' <=> keys[h] # NoKey
      /\ HeldPayload(h)' = cold[h]
  BY <1>1, <1>2, LastView DEF GivesUp
<1>4. /\ Calling' = [Calling EXCEPT ![t] = Contract!NoCall]
      /\ Calling[t] = AbstractCall(t)
      /\ AbstractCall(t).op = call[t].op
      /\ AbstractCall(t).key = call[t].key
      /\ AbstractCall(t).val = call[t].val
      /\ AbstractCall(t).policy = IF call[t].keep THEN "KeepAndRead" ELSE "Overwrite"
  BY <1>1, Ending
<1>5. Unowning'
  BY NothingTaken, PTL
<1>6. TakenEntry(t)' = Contract!Nothing'
  BY <1>1, <1>5 DEF Unowning, Owning, Updating, Inserting
<1>7. Taking[t] = TakenEntry(t) /\ Taking' = [Taking EXCEPT ![t] = Contract!Nothing]
  BY <1>6, CallsMove DEF Taking, Image, Contract!Nothing, Contract!Entry, Contract!Empty
<1>8. ret' = [ret EXCEPT ![t] = WriterResult(t)]
  BY <1>1, CallsMove DEF Image
<1>9. call[t].key \in Keys /\ call[t].key # NoKey
  BY <1>1, CallFacts, NoKeyAssumption DEF IndexOK
<1>10. CASE call[t].op = "Delete"
  <2>1. /\ keys[h] = NoKey /\ reg[t].key = call[t].key /\ seqs[h].bits = 1
        /\ TakenEntry(t) = [key |-> reg[t].key, ctx |-> reg[t].ctx]
    BY <1>1, <1>2, <1>10 DEF Written, Captured, TakenEntry, Doing
  <2>2. HeldEntries' = HeldEntries
    BY <1>3, <2>1, EntriesMove DEF Image
  <2>3. TakenEntry(t) # Contract!Nothing
    BY <1>9, <2>1 DEF Contract!Nothing, Contract!Entry
  <2>4. WriterResult(t) = Contract!Result("true", TakenEntry(t).key, TakenEntry(t).ctx)
    BY <1>2, <1>10, <2>1 DEF WriterResult, Result, Contract!Result
  <2>5. Contract!Deleted(t) /\ Contract!Ends(t)
    BY <1>4, <1>7, <1>8, <2>2, <2>3, <2>4
    DEF Contract!Deleted, Contract!Ends, Contract!Return, Calling, Taking
  <2> QED
    BY <1>4, <1>10, <2>5 DEF Contract!Act, Calling
<1>11. CASE call[t].op = "Insert" /\ seqs[h].bits = 3
  <2>1. /\ keys[h] = call[t].key /\ cold[h] = Payload(call[t].val)
        /\ Shown(h)' /\ ~Shown(h)
    BY <1>1, <1>2, <1>3, <1>9, <1>11 DEF Written
  <2>2. HeldEntries' = Contract!With(call[t].key, Payload(call[t].val))
    BY <1>3, <2>1, EntriesMove DEF Image
  <2>3. call[t].key \notin DOMAIN HeldEntries
    <3>1. ASSUME NEW s \in Slots, Holds(s, call[t].key) PROVE FALSE
      BY <1>9, <2>1, <3>1 DEF Holds, Image, Distinct
    <3> QED
      BY <3>1 DEF Image, HeldFacts
  <2>4. Cardinality(DOMAIN HeldEntries) < NumSlots
    BY <2>1, RoomForOne DEF Image
  <2>5. /\ TakenEntry(t).key = reg[t].key
        /\ TakenEntry(t).ctx = reg[t].ctx
    <3>1. CASE reg[t].key # NoKey
      BY <1>1, <1>2, <1>11, <3>1 DEF TakenEntry, Covering
    <3>2. CASE reg[t].key = NoKey
      <4>1. reg[t].ctx = Payload(Zero)
        BY <1>1, <3>2, NoKeyAssumption DEF Captured, Whole, Stamps
      <4>2. TakenEntry(t) = [key |-> NoKey, ctx |-> Payload(Zero)]
        BY <1>11, <3>2 DEF TakenEntry
      <4> QED
        BY <3>2, <4>1, <4>2
    <3> QED
      BY <3>1, <3>2
  <2>6. WriterResult(t) = Contract!Result("Inserted", TakenEntry(t).key, TakenEntry(t).ctx)
    BY <1>2, <1>11, <2>5 DEF WriterResult, Result, Contract!Result
  <2>7. Contract!Return(t, Contract!Result("Inserted", Taking[t].key, Taking[t].ctx))
    BY <1>7, <1>8, <2>6 DEF Contract!Return, Taking
  <2>8. /\ Calling[t].key \notin DOMAIN HeldEntries
        /\ HeldEntries' = Contract!With(Calling[t].key, Payload(Calling[t].val))
    BY <1>4, <2>2, <2>3
  <2>9. Contract!Add(t) /\ Contract!Ends(t)
    BY <1>4, <2>4, <2>7, <2>8, SameCount DEF Contract!Add, Contract!Ends, Calling, Taking
  <2> QED
    BY <1>4, <1>11, <2>9 DEF Contract!Act, Calling
<1>12. CASE call[t].op = "Insert" /\ seqs[h].bits = 1
  <2>1. /\ keys[h] = call[t].key /\ reg[t].key = call[t].key
        /\ cold[h] = IF call[t].keep THEN reg[t].ctx ELSE Payload(call[t].val)
        /\ Shown(h)' /\ Shown(h) /\ HeldPayload(h) = reg[t].ctx
    BY <1>1, <1>2, <1>3, <1>9, <1>12 DEF Written, Captured
  <2>2. /\ call[t].key \in DOMAIN HeldEntries
        /\ HeldEntries[call[t].key] = reg[t].ctx
    BY <2>1 DEF Image, HeldFacts
  <2>3. CASE call[t].keep
    <3>1. HeldEntries' = HeldEntries
      BY <1>3, <2>1, <2>3, EntriesMove DEF Image, Same
    <3> QED
      <4>1. WriterResult(t) = Contract!Result("Updated", call[t].key, reg[t].ctx)
        BY <1>2, <1>12, <2>1 DEF WriterResult, Result, Contract!Result
      <4>2. TakenEntry(t) = Contract!Nothing
        BY <1>2, <1>12 DEF TakenEntry, Contract!Nothing, Contract!Entry, Contract!Empty
      <4>3. Contract!Update(t) /\ Contract!Ends(t)
        BY <1>4, <1>7, <1>8, <2>2, <2>3, <3>1, <4>1, <4>2
        DEF Contract!Update, Contract!Ends, Contract!Return, Calling, Taking
      <4> QED
        BY <1>4, <1>12, <4>3 DEF Contract!Act, Calling
  <2>4. CASE ~call[t].keep
    <3>1. HeldEntries' = Contract!With(call[t].key, Payload(call[t].val))
      BY <1>3, <2>1, <2>4, EntriesMove DEF Image
    <3>2. WriterResult(t) = Contract!Result("Updated", call[t].key, reg[t].ctx)
      BY <1>2, <1>12, <2>1 DEF WriterResult, Result, Contract!Result
    <3>3. TakenEntry(t) = Contract!Nothing
      BY <1>2, <1>12 DEF TakenEntry, Contract!Nothing, Contract!Entry, Contract!Empty
    <3>4. Contract!Update(t) /\ Contract!Ends(t)
      BY <1>4, <1>7, <1>8, <2>2, <2>4, <3>1, <3>2, <3>3
      DEF Contract!Update, Contract!Ends, Contract!Return, Calling, Taking
    <3> QED
      BY <1>4, <1>12, <3>4 DEF Contract!Act, Calling
  <2> QED
    BY <2>3, <2>4
<1> QED
  BY <1>1, <1>3, <1>10, <1>11, <1>12
-----------------------------------------------------------------------------
(***************************************************************************)
(* All steps.                                                               *)
(***************************************************************************)

(* A step of a call is a step of the contract's call, or shows nothing. *)
LEMMA StepAct ==
  ASSUME Image, Image', ReadersSeeOneVersion, NEW t \in Threads, Step(t),
         SnapOK(t), Noted(t), Written(t), Searched(t)
  PROVE  Contract!Act(t) \/ Stutters
<1>1. reg[t].hit \in Slots
  BY DEF Image, Locking, TypeOK, Regs
<1>2. PICK h \in Slots : h = reg[t].hit
  BY <1>1
<1>3. CASE Takes(t)
  BY <1>3, TakesAct
<1>4. CASE GivesUp(t)
  BY <1>4, AbortAct, UnlockAct DEF GivesUp
<1>5. CASE pc[t] \in Owning /\ ~GivesUp(t)
  BY <1>2, <1>5, KeepsAct
<1>6. CASE pc[t] \notin Owning /\ ~Takes(t)
  BY <1>6, OutsideAct
<1> QED
  BY <1>3, <1>4, <1>5, <1>6

(* A step that shows nothing is no new moment for a query. *)
LEMMA NothingNoted ==
  ASSUME HeldFacts, Faithful, Contract!Observe, Stutters
  PROVE  missed' = missed
<1>1. missed \in [Threads -> BOOLEAN]
  BY DEF Faithful
<1>2. ASSUME NEW u \in Threads PROVE missed'[u] = missed[u]
  <2>1. /\ Noted(u) /\ missed[u] \in BOOLEAN
        /\ HeldEntries' = HeldEntries
    BY <1>1 DEF Faithful, Stutters
  <2>2. AbstractCall(u)' = AbstractCall(u)
    <3>1. Calling'[u] = Calling[u]
      BY DEF Stutters
    <3> QED
      BY <3>1 DEF Calling
  <2>3. missed'[u] = (/\ AbstractCall(u).op \in {"Lookup", "Contains", "Delete"}
                      /\ missed[u] \/ AbstractCall(u).key \notin DOMAIN HeldEntries)
    BY <2>1, <2>2 DEF Contract!Observe, Contract!Queries, Contract!There
  <2>4. /\ AbstractCall(u).op \in {"Lookup", "Contains", "Delete"} <=> Asked(u)
        /\ Asked(u) => AbstractCall(u).key = call[u].key
    BY DEF AbstractCall, Asked
  <2>5. Asked(u) /\ ~missed[u] => call[u].key \in DOMAIN HeldEntries
    BY <2>1 DEF Noted, Holds, HeldFacts
  <2> QED
    BY <2>1, <2>3, <2>4, <2>5 DEF Noted
<1>3. missed' = [u \in Threads |-> missed'[u]]
  BY DEF Contract!Observe
<1> QED
  BY <1>1, <1>2, <1>3

(* What is known of every thread stays known. *)
LEMMA FaithfulStep ==
  ASSUME Image, Image', Faithful, NEW t \in Threads, Step(t), Contract!Observe
  PROVE  Faithful'
<1>1. missed \in [Threads -> BOOLEAN] /\ \A u \in Threads : Written(u) /\ Noted(u)
  BY DEF Faithful
<1>2. ASSUME NEW u \in Threads PROVE missed'[u] \in BOOLEAN /\ Noted(u)'
  BY <1>1, NotedStep DEF Image
<1>3. ASSUME NEW u \in Threads PROVE Written(u)'
  BY <1>1, WrittenStep, WrittenByOthers DEF Image
<1>4. missed' = [u \in Threads |-> missed'[u]]
  BY DEF Contract!Observe
<1> QED
  BY <1>2, <1>3, <1>4 DEF Faithful

Snapped == \A t \in Threads : SnapOK(t)

(* The inductive invariant of the refinement. *)
Refinable == Image /\ Unique /\ ReadersSeeOneVersion /\ Snapped /\ Faithful

(* All that the mapping of a step relies on holds in every reachable state. *)
LEMMA RefinableInvariant == CDisciplinedSpec => []Refinable
<1>1. CDisciplinedSpec => [](Image /\ Unique)
  <2>1. Locking /\ Contents /\ Unique => Image /\ Unique
    BY ImageFacts DEF Unique
  <2> QED
    BY <2>1, UniqueInvariant, PTL
<1>2. CDisciplinedSpec => [](ReadersSeeOneVersion /\ Snapped)
  <2>1. (\A u \in Threads : SnapOK(u)) => Snapped
    BY DEF Snapped
  <2> QED
    BY <2>1, SnapInvariant, OneVersionPerRead, DisciplineIsSpec, PTL
<1>3. CInit => Faithful
  BY DEF CInit, Init, Faithful, Written, Noted, Asked
<1>4. /\ Image /\ Image' /\ Faithful
      /\ [CNext /\ OneInserterPerKey']_cvars
      => Faithful'
  <2> SUFFICES ASSUME Image, Image', Faithful, [CNext /\ OneInserterPerKey']_cvars
               PROVE  Faithful'
    OBVIOUS
  <2>1. CASE UNCHANGED cvars
    BY <2>1 DEF cvars, vars, Faithful, Written, Noted, Asked, Holds, Shown, Covered, Owns
  <2>2. CASE CNext
    BY <2>2, FaithfulStep DEF CNext, Next
  <2> QED
    BY <2>1, <2>2
<1> QED
  BY <1>1, <1>2, <1>3, <1>4, PTL DEF CDisciplinedSpec, Refinable

(* The first state shows the empty map. *)
LEMMA InitRefines == CInit => Contract!Init
<1> SUFFICES ASSUME CInit PROVE Contract!Init
  OBVIOUS
<1>1. /\ keys = [s \in Slots |-> NoKey] /\ pc = [t \in Threads |-> "idle"]
      /\ ret = [t \in Threads |-> NoResult]
      /\ missed = [t \in Threads |-> FALSE]
  BY DEF CInit, Init
<1>2. {keys[s] : s \in {u \in Slots : Shown(u)}} = {}
  BY <1>1 DEF Shown
<1>3. HeldEntries = [k \in {} |-> Contract!Empty]
  BY <1>2 DEF HeldEntries
<1>4. [t \in Threads |-> AbstractCall(t)] = [t \in Threads |-> Contract!NoCall]
  BY <1>1 DEF AbstractCall, Contract!NoCall
<1>5. [t \in Threads |-> TakenEntry(t)] = [t \in Threads |-> Contract!Nothing]
  BY <1>1 DEF TakenEntry, Covering, Contract!Nothing, Contract!Entry, Contract!Empty
<1>6. ret = [t \in Threads |-> Contract!NoResult]
  BY <1>1 DEF NoResult, Result, Contract!NoResult, Contract!Result, Contract!Empty
<1> QED
  BY <1>1, <1>3, <1>4, <1>5, <1>6 DEF Contract!Init

(* The bucket does what CacheContract promises, for callers that never    *)
(* insert one key by two calls at a time: every call takes effect at one  *)
(* moment between its start and its return.                               *)
THEOREM BucketImplementsContract == CDisciplinedSpec => ImplementsContract
<1>1. CInit => Contract!Init
  BY InitRefines
<1>2. /\ Refinable /\ Refinable' /\ [CNext /\ OneInserterPerKey']_cvars
      => [Contract!Next]_(Contract!vars)
  <2> SUFFICES ASSUME Refinable, Refinable', [CNext /\ OneInserterPerKey']_cvars
               PROVE  Contract!Next \/ UNCHANGED Contract!vars
    OBVIOUS
  <2>1. CASE UNCHANGED cvars
    <3>1. HeldEntries' = HeldEntries
      BY <2>1 DEF cvars, vars, HeldEntries, HeldPayload, Replacing, Shown, Covered, Owns
    <3>2. Calling' = Calling /\ Taking' = Taking
      BY <2>1 DEF cvars, vars, Calling, Taking, AbstractCall, TakenEntry
    <3> QED
      BY <2>1, <3>1, <3>2 DEF cvars, vars, Contract!vars, Calling, Taking
  <2>2. ASSUME NEW t \in Threads, Step(t), Contract!Observe
        PROVE  Contract!Next \/ UNCHANGED Contract!vars
    <3>1. Contract!Act(t) \/ Stutters
      BY <2>2, StepAct DEF Refinable, Unique, Snapped, Faithful
    <3>2. CASE Contract!Act(t)
      BY <2>2, <3>2 DEF Contract!Next
    <3>3. CASE Stutters
      <4>1. missed' = missed
        BY <2>2, <3>3, NothingNoted DEF Refinable, Image
      <4> QED
        BY <3>3, <4>1 DEF Stutters, Contract!vars, Calling, Taking
    <3> QED
      BY <3>1, <3>2, <3>3
  <2> QED
    BY <2>1, <2>2 DEF CNext, Next
<1> QED
  BY <1>1, <1>2, RefinableInvariant, PTL DEF CDisciplinedSpec, ImplementsContract, Contract!Spec
-----------------------------------------------------------------------------
(***************************************************************************)
(* The negative answers of Contains, of whatever callers: the history of    *)
(* UmCacheSetHistory.                                                       *)
(***************************************************************************)
(* The slot has been locked since Contains took its word. *)
Moved(t, s) == seqs[s] # reg[t].snap[s]

(* From the end of its first pass on, a Contains that has not met a bucket *)
(* at rest without the key will not say FALSE: there is a slot still ahead *)
(* of it that holds the key, or one whose word has moved.                  *)
WillFind(t) ==
  /\ pc[t] = "confirmMiss" =>
       \A s \in Slots : /\ ~Odd(reg[t].snap[s])
                        /\ reg[t].snap[s].ver <= seqs[s].ver
  /\ pc[t] = "find" /\ call[t].op = "Contains" /\ ~quiet[t] =>
       \E s \in Slots : Moved(t, s) \/ (s >= reg[t].i /\ keys[s] = call[t].key)
  /\ pc[t] = "confirmMiss" /\ ~quiet[t] =>
       \E s \in Slots : Moved(t, s) /\ s >= reg[t].i

Finding == \A u \in Threads : WillFind(u)

(* What an observer that is asking has seen stays seen. *)
LEMMA QuietStays ==
  ASSUME NEW t \in Threads, Observe, ~quiet'[t], Asking(t)'
  PROVE  ~quiet[t] /\ ~QuietlyMissing(call[t].key)'
BY DEF Observe

(* A word that has moved away from an even one never comes back, and until *)
(* it moves the slot keeps its key.                                        *)
LEMMA SlotSince ==
  ASSUME Locking, NEW t \in Threads, Step(t), NEW s \in Slots,
         NEW old \in Seqs, ~Odd(old), old.ver <= seqs[s].ver
  PROVE  /\ old.ver <= seqs'[s].ver
         /\ seqs[s] # old => seqs'[s] # old
         /\ seqs'[s] = old => keys'[s] = keys[s]
<1>1. old.ver \in Nat /\ seqs[s].ver \in Nat /\ seqs[s] \in Seqs
  BY DEF Locking, TypeOK, Seqs
<1>2. /\ seqs'[s].ver >= seqs[s].ver
      /\ seqs'[s].ver = seqs[s].ver /\ ~Odd(seqs'[s])
           => seqs'[s] = seqs[s] /\ keys'[s] = keys[s]
  BY SlotMoves
<1>3. seqs'[s].ver \in Nat
  <2>1. BucketOK'
    BY BucketTyping DEF Locking
  <2> QED
    BY <2>1 DEF BucketOK, Seqs
<1> QED
  BY <1>1, <1>2, <1>3

(* The steps of the others do not let a Contains miss what it would find. *)
LEMMA WillFindDespiteOthers ==
  ASSUME Locking, NEW t \in Threads, Step(t), Observe,
         NEW u \in Threads \ {t}, SnapOK(u), WillFind(u), Doing(u)
  PROVE  WillFind(u)'
<1>1. pc'[u] = pc[u] /\ reg'[u] = reg[u] /\ call'[u] = call[u] /\ u \in Threads
      /\ reg[u] \in Regs
  BY Frame DEF Framed, Locking, TypeOK
<1>2. \A s \in Slots : reg[u].snap[s] \in Seqs
  BY <1>1 DEF Regs
<1>3. ASSUME pc[u] \in {"find", "confirmMiss"}, call[u].op = "Contains"
      PROVE  \A s \in Slots :
               /\ ~Odd(reg[u].snap[s]) /\ reg[u].snap[s].ver <= seqs[s].ver
               /\ reg'[u].snap[s].ver <= seqs'[s].ver
               /\ Moved(u, s) => Moved(u, s)'
               /\ ~Moved(u, s)' => keys'[s] = keys[s]
  <2> TAKE s \in Slots
  <2>1. ~Odd(reg[u].snap[s]) /\ reg[u].snap[s].ver <= seqs[s].ver
    BY <1>3 DEF SnapOK, WillFind
  <2> QED
    BY <1>1, <1>2, <2>1, SlotSince DEF Moved
<1>4. CASE pc[u] = "find" /\ call[u].op = "Contains"
  <2>1. ~quiet'[u] => ~quiet[u]
    BY <1>1, <1>4 DEF Observe, Asking
  <2> QED
    BY <1>1, <1>3, <1>4, <2>1 DEF WillFind
<1>5. CASE pc[u] = "confirmMiss"
  <2>1. call[u].op = "Contains"
    BY <1>5 DEF Doing
  <2>2. ~quiet'[u] => ~quiet[u]
    BY <1>1, <1>5, <2>1 DEF Observe, Asking
  <2> QED
    BY <1>1, <1>3, <1>5, <2>1, <2>2 DEF WillFind
<1>6. CASE ~(pc[u] = "find" /\ call[u].op = "Contains") /\ pc[u] # "confirmMiss"
  BY <1>1, <1>6 DEF WillFind
<1> QED
  BY <1>4, <1>5, <1>6

(* The passes of Contains itself (um:1109-1164). *)
LEMMA WillFindStep ==
  ASSUME Locking, Contents, NEW t \in Threads, Step(t), Observe,
         SnapOK(t), SnapOK(t)', WillFind(t), Doing(t)'
  PROVE  WillFind(t)'
<1>1. /\ t \in DOMAIN pc /\ t \in DOMAIN call /\ t \in DOMAIN reg
      /\ reg[t] \in Regs /\ Doing(t) /\ IndexOK(t)
      /\ \A s \in Slots : s \in Nat /\ s >= 0 /\ s <= Last
  BY IndexFacts DEF Locking, TypeOK, Contents, Slots, Last
<1> USE <1>1 DEF Goto, Set, Return, Rescan, Shared
<1>2. CASE Snapshot(t)
  <2>1. CASE pc'[t] = "find"
    <3>1. reg'[t].i = 0 /\ call'[t].op = "Contains" /\ call' = call
      <4>1. pc[t] = "snap" /\ call' = call
        BY <1>2 DEF Snapshot
      <4>2. call[t].op = "Contains"
        BY <4>1 DEF Doing
      <4>3. PICK snap :
              reg' = [reg EXCEPT ![t] = [reg[t] EXCEPT !.snap = snap, !.i = 0]]
        BY <1>2, <2>1, <4>1 DEF Snapshot
      <4>4. reg'[t].i = 0
        BY <4>3 DEF Regs
      <4> QED
        BY <4>1, <4>2, <4>4
    <3>2. \A s \in Slots : ~Odd(reg'[t].snap[s])
      BY <2>1, <3>1 DEF SnapOK
    <3>3. ASSUME ~quiet'[t]
          PROVE  \E s \in Slots : Moved(t, s)' \/ (s >= reg'[t].i /\ keys'[s] = call'[t].key)
      <4>1. ~QuietlyMissing(call[t].key)'
        BY <2>1, <3>1, <3>3, QuietStays DEF Asking
      <4>2. PICK s \in Slots : Odd(seqs'[s]) \/ keys'[s] = call'[t].key
        BY <4>1 DEF QuietlyMissing
      <4> QED
        BY <3>1, <3>2, <4>2 DEF Moved
    <3> QED
      BY <2>1, <3>1, <3>3 DEF WillFind
  <2>2. CASE pc'[t] # "find"
    BY <1>2, <2>2 DEF Snapshot, WillFind
  <2> QED
    BY <2>1, <2>2
<1>3. CASE FindNext(t)
  <2>1. /\ UNCHANGED <<keys, seqs, pc, call>> /\ pc[t] = "find"
        /\ reg'[t].i = reg[t].i + 1 /\ reg'[t].snap = reg[t].snap
        /\ reg[t].i \in Nat /\ keys[reg[t].i] # call[t].key
    BY <1>3 DEF FindNext, Regs
  <2>2. call[t].op = "Contains" /\ ~quiet'[t] => ~quiet[t]
    BY <2>1 DEF Observe, Asking
  <2>3. \A s \in Slots : s >= reg[t].i /\ keys[s] = call[t].key => s >= reg[t].i + 1
    BY <2>1
  <2> QED
    BY <2>1, <2>2, <2>3 DEF WillFind, Moved
<1>4. CASE FindMiss(t)
  <2>1. CASE pc'[t] = "confirmMiss"
    <3>1. /\ UNCHANGED <<keys, seqs, call>> /\ pc[t] = "find"
          /\ reg'[t].i = 0 /\ reg'[t].snap = reg[t].snap
          /\ reg[t].i = Last /\ keys[reg[t].i] # call[t].key
          /\ call[t].op = "Contains"
      BY <1>4, <2>1 DEF FindMiss, Regs
    <3>2. ~quiet'[t] => ~quiet[t]
      BY <2>1, <3>1 DEF Observe, Asking
    <3>3. \A s \in Slots : s >= reg[t].i => keys[s] # call[t].key
      BY <3>1, IndexFacts DEF Slots, Last
    <3>4. \A s \in Slots : ~Odd(reg[t].snap[s]) /\ reg[t].snap[s].ver <= seqs[s].ver
      BY <3>1 DEF SnapOK
    <3> QED
      BY <2>1, <3>1, <3>2, <3>3, <3>4 DEF WillFind, Moved
  <2>2. CASE pc'[t] # "confirmMiss"
    BY <1>4, <2>2 DEF FindMiss, WillFind
  <2> QED
    BY <2>1, <2>2
<1>5. CASE ConfirmMiss(t)
  <2>1. CASE pc'[t] = "confirmMiss"
    <3>1. /\ UNCHANGED <<seqs, call>> /\ pc[t] = "confirmMiss"
          /\ reg'[t].i = reg[t].i + 1 /\ reg'[t].snap = reg[t].snap
          /\ reg[t].i \in Nat /\ ~Moved(t, reg[t].i) /\ call[t].op = "Contains"
      BY <1>5, <2>1 DEF ConfirmMiss, Regs, Doing, Moved
    <3>2. ~quiet'[t] => ~quiet[t]
      BY <2>1, <3>1 DEF Observe, Asking
    <3>3. \A s \in Slots : s >= reg[t].i /\ Moved(t, s) => s >= reg[t].i + 1
      BY <3>1
    <3> QED
      BY <2>1, <3>1, <3>2, <3>3 DEF WillFind, Moved
  <2>2. CASE pc'[t] # "confirmMiss"
    BY <1>5, <2>2 DEF ConfirmMiss, WillFind
  <2> QED
    BY <2>1, <2>2
<1>6. CASE /\ pc'[t] = "find" => call'[t].op # "Contains"
           /\ pc'[t] # "confirmMiss"
  BY <1>6 DEF WillFind
<1> QED
  <2> USE DEF Doing, Owning, Updating, Inserting
  <2>1. CASE Begin(t)
    BY <1>6, <2>1 DEF Begin
  <2>2. CASE Reject(t)
    BY <1>6, <2>2 DEF Reject, IndexOK
  <2>3. CASE FindHit(t)
    BY <1>6, <2>3 DEF FindHit
  <2>6. CASE LoadSeq(t)
    BY <1>6, <2>6 DEF LoadSeq
  <2>7. CASE TryLock(t)
    BY <1>6, <2>7 DEF TryLock
  <2>8. CASE TryFails(t)
    BY <1>6, <2>8 DEF TryFails
  <2>9. CASE Backoff(t)
    BY <1>6, <2>9 DEF Backoff
  <2>10. CASE CheckKey(t)
    BY <1>6, <2>10 DEF CheckKey
  <2>11. CASE WriteWord(t)
    BY <1>6, <2>11 DEF WriteWord
  <2>12. CASE WriteDone(t)
    BY <1>6, <2>12 DEF WriteDone
  <2>13. CASE Unlock(t)
    BY <1>6, <2>13 DEF Unlock
  <2>14. CASE Abort(t)
    BY <1>6, <2>14 DEF Abort
  <2>15. CASE FindEmptySlot(t)
    BY <1>6, <2>15 DEF FindEmptySlot
  <2>16. CASE InsertLoad(t)
    BY <1>6, <2>16 DEF InsertLoad
  <2>17. CASE InsertLock(t)
    BY <1>6, <2>17 DEF InsertLock
  <2>18. CASE InsertLockFails(t)
    BY <1>6, <2>18 DEF InsertLockFails
  <2>19. CASE PublishIntent(t)
    BY <1>6, <2>19 DEF PublishIntent
  <2>20. CASE VerifySeq(t)
    BY <1>6, <2>20 DEF VerifySeq
  <2>21. CASE VerifyKey(t)
    BY <1>6, <2>21 DEF VerifyKey
  <2>22. CASE VerifySkip(t)
    BY <1>6, <2>22 DEF VerifySkip
  <2>23. CASE VerifyDone(t)
    BY <1>6, <2>23 DEF VerifyDone
  <2>24. CASE RestoreKey(t)
    BY <1>6, <2>24 DEF RestoreKey
  <2>25. CASE ReadSeq(t)
    BY <1>6, <2>25 DEF ReadSeq
  <2>26. CASE ReadWord(t)
    BY <1>6, <2>26 DEF ReadWord
  <2>27. CASE ReadKey(t)
    BY <1>6, <2>27 DEF ReadKey
  <2>28. CASE ReadAgain(t)
    BY <1>6, <2>28 DEF ReadAgain
  <2>29. CASE LookupValidated(t)
    BY <1>6, <2>29 DEF LookupValidated
  <2>31. CASE EnumerateValidated(t)
    BY <1>6, <2>31 DEF EnumerateValidated
  <2>32. CASE ConfirmHit(t)
    BY <1>6, <2>32 DEF ConfirmHit
  <2> QED
    BY <1>2, <1>3, <1>4, <1>5, <2>1, <2>2, <2>3, <2>6, <2>7, <2>8, <2>9, <2>10,
      <2>11, <2>12, <2>13, <2>14, <2>15, <2>16, <2>17, <2>18, <2>19, <2>20,
      <2>21, <2>22, <2>23, <2>24, <2>25, <2>26, <2>27, <2>28, <2>29, <2>31, <2>32
      DEF Step, Run, Find, Lock, Insert, Verify, Owned, Read, Contains

(* The history variable adds no behaviour. *)
LEMMA HistoryRefines == HSpec => Spec
<1>1. HInit => Init
  BY DEF HInit
<1>2. [HNext]_hvars => [Next]_vars
  BY DEF HNext, hvars
<1> QED
  BY <1>1, <1>2, PTL DEF HSpec, Spec

(* What a Contains in its second half will meet is invariant. *)
LEMMA FindingInvariant == HSpec => [](Locking /\ Contents /\ Snapped /\ Finding)
<1>1. HInit => Finding
  BY DEF HInit, Init, Finding, WillFind
<1>2. /\ Locking /\ Contents /\ Contents' /\ Snapped /\ Snapped' /\ Finding
      /\ [HNext]_hvars
      => Finding'
  <2> SUFFICES ASSUME Locking, Contents, Contents', Snapped, Snapped', Finding,
                      [HNext]_hvars
               PROVE  Finding'
    OBVIOUS
  <2>1. CASE UNCHANGED hvars
    BY <2>1 DEF hvars, vars, Finding, WillFind, Moved
  <2>2. ASSUME NEW t \in Threads, Step(t), Observe PROVE Finding'
    <3>1. WillFind(t)'
      BY <2>2, WillFindStep DEF Contents, Snapped, Finding
    <3>2. \A u \in Threads \ {t} : WillFind(u)'
      BY <2>2, WillFindDespiteOthers DEF Contents, Snapped, Finding
    <3> QED
      BY <3>1, <3>2 DEF Finding
  <2> QED
    BY <2>1, <2>2 DEF HNext, Next
<1>3. HSpec => []Snapped
  <2>1. (\A u \in Threads : SnapOK(u)) => Snapped
    BY DEF Snapped
  <2> QED
    BY <2>1, HistoryRefines, SnapInvariant, PTL
<1> QED
  BY <1>1, <1>2, <1>3, HistoryRefines, LockingInvariant, ContentsInvariant, PTL DEF HSpec

(* A key that Contains does not find was in no slot, with no writer under *)
(* way, at one moment of the call.                                        *)
THEOREM AbsentMisses == HSpec => ContainsMissWasAbsent
<1> DEFINE Denied(t) == Asking(t) /\ ret'[t].res = "false"
<1>1. Locking /\ Contents /\ Snapped /\ Finding /\ [HNext]_hvars
      => [\A t \in Threads : Denied(t) => quiet[t]]_hvars
  <2> SUFFICES ASSUME Locking, Contents, \A u \in Threads : SnapOK(u),
                      \A u \in Threads : WillFind(u), NEW t \in Threads, Step(t), NEW u \in Threads, Denied(u)
               PROVE  quiet[u]
    BY DEF HNext, Next, Snapped, Finding
  <2>1. ret[u].res # "false" /\ pc[u] # "idle" /\ call[u].op = "Contains"
    BY DEF SnapOK, Asking
  <2>2. u = t
    BY <2>1, Frame DEF Framed, Locking
  <2>3. t \in DOMAIN ret /\ Doing(t) /\ IndexOK(t)
    BY DEF Locking, TypeOK, Contents
  <2>4. CASE ConfirmMiss(t)
    <3>1. pc[t] = "confirmMiss" /\ reg[t].i = Last /\ ~Moved(t, Last)
      BY <2>1, <2>2, <2>3, <2>4 DEF ConfirmMiss, Return, Moved
    <3>2. \A s \in Slots : s >= Last => s = Last
      BY IndexFacts DEF Slots, Last
    <3> QED
      BY <2>2, <3>1, <3>2 DEF WillFind
  <2>5. CASE ConfirmHit(t)
    BY <2>1, <2>2, <2>3, <2>5 DEF ConfirmHit, Return, Result
  <2>6. CASE Unlock(t) \/ LookupValidated(t) \/ EnumerateValidated(t) \/ FindMiss(t)
    BY <2>1, <2>2, <2>3, <2>6 DEF Unlock, LookupValidated, EnumerateValidated,
      FindMiss, Doing, Owning
  <2>7. \/ LookupValidated(t) \/ ConfirmHit(t) \/ Unlock(t)
        \/ FindMiss(t) \/ ConfirmMiss(t) \/ EnumerateValidated(t) \/ ret' = ret
    BY <2>1, <2>2 DEF Step, Run, Find, Lock, Insert, Verify, Owned, Read, Contains,
      Begin, Reject,
      FindHit, FindNext, LoadSeq, TryLock, TryFails, Backoff, CheckKey,
      WriteWord, WriteDone, Abort, Rescan, FindEmptySlot, InsertLoad, InsertLock,
      InsertLockFails, PublishIntent, VerifySeq, VerifyKey, VerifySkip,
      VerifyDone, RestoreKey, ReadSeq, ReadWord, ReadKey, ReadAgain, Snapshot
  <2> QED
    BY <2>1, <2>2, <2>4, <2>5, <2>6, <2>7
<1> QED
  BY <1>1, FindingInvariant, PTL DEF HSpec, ContainsMissWasAbsent
=============================================================================
