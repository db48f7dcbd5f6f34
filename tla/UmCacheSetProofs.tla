-------------------------- MODULE UmCacheSetProofs --------------------------
(***************************************************************************)
(* What holds of one bucket for every number of threads, keys, slots and    *)
(* payload words, and every bound on the versions.                          *)
(***************************************************************************)
EXTENDS UmCacheSet, TLAPS

(* The arithmetic of the loops over slots and payload words: an index that *)
(* is not past the end names a slot or a word, and its successor is an     *)
(* index.                                                                  *)
LEMMA IndexFacts ==
  /\ NumSlots \in Nat /\ NumWords \in Nat
  /\ 0 \in Slots /\ Last \in Slots /\ Slots \subseteq Nat
  /\ 0 \in 0 .. NumSlots /\ 1 \in 1 .. NumWords + 1
  /\ \A i \in Slots : /\ i + 1 \in 0 .. NumSlots
                      /\ i < Last => i + 1 \in Slots
  /\ \A i \in 0 .. NumSlots : i \in Nat /\ (i <= Last => i \in Slots)
  /\ \A i \in 1 .. NumWords + 1 :
       i \in Nat /\ (i <= NumWords => i \in Words /\ i + 1 \in 1 .. NumWords + 1)
BY NumSlotsAssumption, NumWordsAssumption DEF Slots, Words, Last

(* The words, payloads and locals the operations start from or compute stay *)
(* in their sets: what the lock and the unlock store in a sequence word     *)
(* (um:847-868) is a sequence word.                                         *)
LEMMA ValueFacts ==
  /\ Payload(Zero) \in Payloads
  /\ FreshReg \in Regs
  /\ FreshReg.i = 0 /\ FreshReg.hit = 0
  /\ Seq0 \in Seqs
  /\ \A s \in Seqs : /\ LockForUpdate(s) \in Seqs
                     /\ LockForInsert(s) \in Seqs
                     /\ NextVersion(s) \in Seqs
  /\ \A c \in Calls : c.key \in Keys \cup {NoKey} /\ c.val \in Stamps \cup {Zero}
<1>1. Payload(Zero) \in Payloads
  BY DEF Payload, Payloads
<1>2. Seq0 \in Seqs
  BY DEF Seq0, Seqs
<1>3. FreshReg \in Regs /\ FreshReg.i = 0 /\ FreshReg.hit = 0
  BY <1>1, <1>2, IndexFacts DEF FreshReg, Regs
<1>4. \A s \in Seqs : /\ LockForUpdate(s) \in Seqs
                      /\ LockForInsert(s) \in Seqs
                      /\ NextVersion(s) \in Seqs
  BY DEF Seqs, LockForUpdate, LockForInsert, NextVersion
<1>5. \A c \in Calls : c.key \in Keys \cup {NoKey} /\ c.val \in Stamps \cup {Zero}
  BY DEF Calls, Call, Stamps
<1> QED
  BY <1>1, <1>2, <1>3, <1>4, <1>5

(***************************************************************************)
(* A step of one thread leaves the locals of the others alone.              *)
(***************************************************************************)
Framed(t) ==
  /\ pc' = [u \in Threads |-> pc'[u]]
  /\ call' = [u \in Threads |-> call'[u]]
  /\ reg' = [u \in Threads |-> reg'[u]]
  /\ ret' = [u \in Threads |-> ret'[u]]
  /\ \A u \in Threads \ {t} : /\ pc'[u] = pc[u]
                              /\ call'[u] = call[u]
                              /\ reg'[u] = reg[u]
                              /\ ret'[u] = ret[u]

(* A call runs on the locals of its own thread. *)
LEMMA Frame ==
  ASSUME TypeOK, NEW t \in Threads, Step(t)
  PROVE  Framed(t)
<1>1. /\ pc = [u \in Threads |-> pc[u]]
      /\ call = [u \in Threads |-> call[u]]
      /\ reg = [u \in Threads |-> reg[u]]
      /\ ret = [u \in Threads |-> ret[u]]
  BY DEF TypeOK
<1> USE <1>1 DEF Framed, Goto, Set, Return, Rescan, Shared
<1>2. CASE Begin(t)
  BY <1>2 DEF Begin
<1>3. CASE Reject(t)
  BY <1>3 DEF Reject
<1>4. CASE FindHit(t)
  BY <1>4 DEF FindHit
<1>5. CASE FindNext(t)
  BY <1>5 DEF FindNext
<1>6. CASE FindMiss(t)
  BY <1>6 DEF FindMiss
<1>7. CASE LoadSeq(t)
  BY <1>7 DEF LoadSeq
<1>8. CASE TryLock(t)
  BY <1>8 DEF TryLock
<1>9. CASE TryFails(t)
  BY <1>9 DEF TryFails
<1>10. CASE Backoff(t)
  BY <1>10 DEF Backoff
<1>11. CASE CheckKey(t)
  BY <1>11 DEF CheckKey
<1>12. CASE WriteWord(t)
  BY <1>12 DEF WriteWord
<1>13. CASE WriteDone(t)
  BY <1>13 DEF WriteDone
<1>14. CASE Unlock(t)
  BY <1>14 DEF Unlock
<1>15. CASE Abort(t)
  BY <1>15 DEF Abort
<1>16. CASE FindEmptySlot(t)
  BY <1>16 DEF FindEmptySlot
<1>17. CASE InsertLoad(t)
  BY <1>17 DEF InsertLoad
<1>18. CASE InsertLock(t)
  BY <1>18 DEF InsertLock
<1>19. CASE InsertLockFails(t)
  BY <1>19 DEF InsertLockFails
<1>20. CASE PublishIntent(t)
  BY <1>20 DEF PublishIntent
<1>21. CASE VerifySeq(t)
  BY <1>21 DEF VerifySeq
<1>22. CASE VerifyKey(t)
  BY <1>22 DEF VerifyKey
<1>23. CASE VerifySkip(t)
  BY <1>23 DEF VerifySkip
<1>24. CASE VerifyDone(t)
  BY <1>24 DEF VerifyDone
<1>25. CASE RestoreKey(t)
  BY <1>25 DEF RestoreKey
<1>26. CASE ReadSeq(t)
  BY <1>26 DEF ReadSeq
<1>27. CASE ReadWord(t)
  BY <1>27 DEF ReadWord
<1>28. CASE ReadKey(t)
  BY <1>28 DEF ReadKey
<1>29. CASE ReadAgain(t)
  BY <1>29 DEF ReadAgain
<1>30. CASE LookupValidated(t)
  BY <1>30 DEF LookupValidated
<1>31. CASE EnumerateValidated(t)
  BY <1>31 DEF EnumerateValidated
<1>32. CASE Snapshot(t)
  BY <1>32 DEF Snapshot
<1>33. CASE ConfirmHit(t)
  BY <1>33 DEF ConfirmHit
<1>34. CASE ConfirmMiss(t)
  BY <1>34 DEF ConfirmMiss
<1> QED
    BY <1>2, <1>3, <1>4, <1>5, <1>6, <1>7, <1>8, <1>9, <1>10, <1>11, <1>12,
     <1>13, <1>14, <1>15, <1>16, <1>17, <1>18, <1>19, <1>20, <1>21, <1>22,
     <1>23, <1>24, <1>25, <1>26, <1>27, <1>28, <1>29, <1>30, <1>31, <1>32,
     <1>33, <1>34 DEF Step, Run, Find, Lock, Insert, Verify, Owned, Read,
     Contains

(***************************************************************************)
(* The part of TypeOK about one thread, and the part about the bucket.      *)
(***************************************************************************)
ThreadOK(t) ==
  /\ pc[t] \in Labels
  /\ call[t] \in Calls \cup BadCalls
  /\ reg[t] \in Regs
  /\ ret[t] \in Rets
  /\ IndexOK(t)

BucketOK ==
  /\ keys \in [Slots -> Keys \cup {NoKey}]
  /\ seqs \in [Slots -> Seqs]
  /\ cold \in [Slots -> Payloads]

(* A step keeps the locals of its thread well typed, its loop indices in *)
(* range included.                                                       *)
LEMMA ThreadTyping ==
  ASSUME TypeOK, NEW t \in Threads, Step(t)
  PROVE  ThreadOK(t)'
<1>1. BucketOK /\ ThreadOK(t) /\ t \in DOMAIN pc /\ t \in DOMAIN call
        /\ t \in DOMAIN reg /\ t \in DOMAIN ret
  BY DEF TypeOK, BucketOK, ThreadOK
<1> USE <1>1, IndexFacts, ValueFacts DEF Goto, Set, Return, Rescan, Shared, Labels,
      Owning, Updating, Inserting, Reading, Scanning, BucketOK, ThreadOK, IndexOK
<1>2. CASE Begin(t)
  BY <1>2 DEF Begin, Regs, FreshReg, Rets, NoResult, Result, Results
<1>3. CASE Reject(t)
  BY <1>3 DEF Reject, Regs, FreshReg, Rets, Result, Results, BadCalls, Call
<1>4. CASE FindHit(t)
  BY <1>4 DEF FindHit, Regs, FreshReg
<1>5. CASE FindNext(t)
  BY <1>5 DEF FindNext, Regs, FreshReg
<1>6. CASE FindMiss(t)
  BY <1>6 DEF FindMiss, Regs, FreshReg, Rets, Result, Results
<1>7. CASE LoadSeq(t)
  BY <1>7 DEF LoadSeq, Regs, FreshReg
<1>8. CASE TryLock(t)
  BY <1>8 DEF TryLock, Regs, FreshReg
<1>9. CASE TryFails(t)
  BY <1>9 DEF TryFails, Regs, FreshReg
<1>10. CASE Backoff(t)
  BY <1>10 DEF Backoff, Regs, FreshReg
<1>11. CASE CheckKey(t)
  <2>1. call[t].key \in Keys \cup {NoKey} /\ cold[reg[t].hit] \in Payloads
    BY <1>11 DEF CheckKey, Regs
  <2>2. CASE keys[reg[t].hit] # call[t].key
    BY <1>11, <2>2 DEF CheckKey
  <2>3. CASE keys[reg[t].hit] = call[t].key
    <3>1. reg'[t] = [reg[t] EXCEPT !.i = 1, !.key = call[t].key,
                                   !.ctx = cold[reg[t].hit]]
      BY <1>11, <2>3 DEF CheckKey
    <3>2. reg'[t] \in Regs /\ reg'[t].i = 1
      BY <2>1, <3>1 DEF Regs
    <3> QED
      BY <1>11, <2>3, <3>2 DEF CheckKey
  <2> QED
    BY <2>2, <2>3
<1>12. CASE WriteWord(t)
  <2>1. reg'[t] \in Regs
    BY <1>12 DEF WriteWord, Regs, Payloads
  <2>2. reg'[t].i = reg[t].i + 1 /\ pc'[t] = pc[t]
    BY <1>12 DEF WriteWord, Regs
  <2> QED
    BY <1>12, <2>1, <2>2 DEF WriteWord
<1>13. CASE WriteDone(t)
  BY <1>13 DEF WriteDone, Regs, FreshReg
<1>14. CASE Unlock(t)
  BY <1>14 DEF Unlock, Regs, FreshReg, Rets, Result, Results, WriterResult
<1>15. CASE Abort(t)
  BY <1>15 DEF Abort, Regs, FreshReg
<1>16. CASE FindEmptySlot(t)
    <2>1. CASE reg' = [reg EXCEPT ![t] = [reg[t] EXCEPT !.hit = reg[t].i, !.i
     = 0]]
             /\ pc'[t] = "insertLoad"
    <3>1. reg'[t] \in Regs
      BY <1>16, <2>1 DEF FindEmptySlot, Regs
    <3> QED
      BY <1>16, <2>1, <3>1 DEF FindEmptySlot
  <2>2. CASE reg' = [reg EXCEPT ![t] = [reg[t] EXCEPT !.i = reg[t].i + 1]]
             /\ reg[t].i < Last /\ pc' = pc
    <3>1. reg[t].i + 1 \in Slots
      BY <1>16, <2>2 DEF FindEmptySlot
    <3>2. reg'[t] \in Regs /\ reg'[t].i = reg[t].i + 1
      BY <2>2, <3>1 DEF Regs
    <3> QED
      BY <1>16, <2>2, <3>1, <3>2 DEF FindEmptySlot
  <2>3. ASSUME NEW victim \in Slots, pc'[t] = "insertLoad",
                 reg' = [reg EXCEPT ![t] = [reg[t] EXCEPT !.hit = victim, !.i
     = 0]]
        PROVE  ThreadOK(t)'
    <3>1. reg'[t] \in Regs
      BY <2>3 DEF Regs
    <3> QED
      BY <1>16, <2>3, <3>1 DEF FindEmptySlot
  <2> QED
    BY <1>16, <2>1, <2>2, <2>3 DEF FindEmptySlot
<1>17. CASE InsertLoad(t)
  BY <1>17 DEF InsertLoad, Regs, FreshReg
<1>18. CASE InsertLock(t)
  BY <1>18 DEF InsertLock, Regs, FreshReg
<1>19. CASE InsertLockFails(t)
  BY <1>19 DEF InsertLockFails, Regs, FreshReg
<1>20. CASE PublishIntent(t)
  <2>1. reg'[t] \in Regs
    BY <1>20 DEF PublishIntent, Regs, Payloads
  <2>2. reg'[t].i = 0 /\ pc'[t] = "verifySeq"
    BY <1>20 DEF PublishIntent, Regs
  <2> QED
    BY <1>20, <2>1, <2>2 DEF PublishIntent
<1>21. CASE VerifySeq(t)
  <2>1. reg'[t] \in Regs
    BY <1>21 DEF VerifySeq, Regs, Payloads
  <2>2. reg'[t].i = reg[t].i /\ pc'[t] = "verifyKey"
    BY <1>21 DEF VerifySeq, Regs
  <2> QED
    BY <1>21, <2>1, <2>2 DEF VerifySeq
<1>22. CASE VerifyKey(t)
  BY <1>22 DEF VerifyKey, Regs, FreshReg, IsDuplicate
<1>23. CASE VerifySkip(t)
  <2>1. reg'[t] \in Regs
    BY <1>23 DEF VerifySkip, Regs, Payloads
  <2>2. reg'[t].i = reg[t].i + 1 /\ pc'[t] = pc[t] /\ reg[t].hit \in Slots
    BY <1>23 DEF VerifySkip, Regs
  <2> QED
    BY <1>23, <2>1, <2>2 DEF VerifySkip
<1>24. CASE VerifyDone(t)
  <2>1. reg'[t] \in Regs
    BY <1>24 DEF VerifyDone, Regs, Payloads
  <2>2. reg'[t].i = 1 /\ pc'[t] = "write"
    BY <1>24 DEF VerifyDone, Regs
  <2> QED
    BY <1>24, <2>1, <2>2 DEF VerifyDone
<1>25. CASE RestoreKey(t)
  BY <1>25 DEF RestoreKey, Regs, FreshReg
<1>26. CASE ReadSeq(t)
  <2>1. reg'[t] \in Regs
    BY <1>26 DEF ReadSeq, Regs, Payloads
  <2>2. reg'[t].i = 1 /\ pc'[t] = "readWord"
    BY <1>26 DEF ReadSeq, Regs
  <2> QED
    BY <1>26, <2>1, <2>2 DEF ReadSeq
<1>27. CASE ReadWord(t)
  <2>1. reg[t].i \in Words /\ cold[reg[t].hit] \in Payloads
    BY <1>27 DEF ReadWord, Regs
    <2>2. [reg[t].ctx EXCEPT ![reg[t].i] = cold[reg[t].hit][reg[t].i]] \in
     Payloads
    BY <2>1 DEF Payloads, Regs
  <2>3. reg'[t] \in Regs /\ reg'[t].i = reg[t].i + 1
    BY <1>27, <2>2 DEF ReadWord, Regs
  <2> QED
    BY <1>27, <2>3 DEF ReadWord
<1>28. CASE ReadKey(t)
  BY <1>28 DEF ReadKey, Regs, FreshReg
<1>29. CASE ReadAgain(t)
  BY <1>29 DEF ReadAgain, Regs, FreshReg
<1>30. CASE LookupValidated(t)
  BY <1>30 DEF LookupValidated, Regs, FreshReg, Rets, Result, Results
<1>31. CASE EnumerateValidated(t)
    BY <1>31 DEF EnumerateValidated, Regs, FreshReg, Rets, Result, NoResult,
     Results
<1>32. CASE Snapshot(t)
  <2> DEFINE snap == [reg[t].snap EXCEPT ![reg[t].i] = seqs[reg[t].i]]
  <2>1. snap \in [Slots -> Seqs]
    BY <1>32 DEF Snapshot, Regs
  <2>2. CASE reg[t].i < Last /\ reg' = [reg EXCEPT ![t] =
               [reg[t] EXCEPT !.snap = snap, !.i = @ + 1]] /\ pc' = pc
    <3>1. reg[t].i + 1 \in Slots
      BY <1>32, <2>2 DEF Snapshot
    <3>2. reg'[t] \in Regs /\ reg'[t].i = reg[t].i + 1
      BY <2>1, <2>2, <3>1 DEF Regs
    <3> QED
      BY <1>32, <2>2, <3>1, <3>2 DEF Snapshot
  <2>3. CASE pc'[t] = "find" /\ reg' = [reg EXCEPT ![t] =
               [reg[t] EXCEPT !.snap = snap, !.i = 0]]
    <3>1. reg'[t] \in Regs /\ reg'[t].i = 0
      BY <2>1, <2>3 DEF Regs
    <3> QED
      BY <1>32, <2>3, <3>1 DEF Snapshot
  <2>4. CASE pc' = pc /\ reg' = [reg EXCEPT ![t] = FreshReg]
    BY <1>32, <2>4 DEF Snapshot
  <2> QED
    BY <1>32, <2>2, <2>3, <2>4 DEF Snapshot
<1>33. CASE ConfirmHit(t)
  BY <1>33 DEF ConfirmHit, Regs, FreshReg, Rets, Result, Results
<1>34. CASE ConfirmMiss(t)
  BY <1>34 DEF ConfirmMiss, Regs, FreshReg, Rets, Result, Results
<1> QED
    BY <1>2, <1>3, <1>4, <1>5, <1>6, <1>7, <1>8, <1>9, <1>10, <1>11, <1>12,
     <1>13, <1>14, <1>15, <1>16, <1>17, <1>18, <1>19, <1>20, <1>21, <1>22,
     <1>23, <1>24, <1>25, <1>26, <1>27, <1>28, <1>29, <1>30, <1>31, <1>32,
     <1>33, <1>34 DEF Step, Run, Find, Lock, Insert, Verify, Owned, Read,
     Contains

(***************************************************************************)
(* Eight actions change the bucket; the others leave it alone.              *)
(***************************************************************************)
Writes(t) ==
  \/ TryLock(t) \/ InsertLock(t) \/ Unlock(t) \/ Abort(t)
  \/ WriteWord(t) \/ WriteDone(t) \/ PublishIntent(t) \/ RestoreKey(t)

(* Outside the eight writing actions the code only reads the bucket. *)
LEMMA BucketFrame ==
  ASSUME NEW t \in Threads, Step(t), ~Writes(t)
  PROVE  UNCHANGED Shared
BY DEF Writes, Shared, Step, Run, Find, Lock, Insert, Verify, Owned, Read, Contains,
  Begin, Reject, FindHit, FindNext, FindMiss, LoadSeq, TryFails, Backoff,
  CheckKey, FindEmptySlot, InsertLoad, InsertLockFails, VerifySeq, VerifyKey,
  VerifySkip, VerifyDone, ReadSeq, ReadWord, ReadKey, ReadAgain,
  LookupValidated, EnumerateValidated, Snapshot, ConfirmHit, ConfirmMiss

(* A step keeps the words, keys and payloads of the bucket well typed. *)
LEMMA BucketTyping ==
  ASSUME TypeOK, NEW t \in Threads, Step(t)
  PROVE  BucketOK'
<1>1. BucketOK /\ reg[t] \in Regs
  BY DEF TypeOK, BucketOK
<1>2. reg[t].hit \in Slots /\ reg[t].seq \in Seqs /\ reg[t].key \in Keys \cup {NoKey}
  BY <1>1 DEF Regs
<1>3. pc[t] # "idle" => call[t] \in Calls
  BY DEF TypeOK, IndexOK
<1> USE <1>1, <1>2, <1>3, ValueFacts DEF BucketOK
<1>4. CASE TryLock(t)
  BY <1>4 DEF TryLock
<1>5. CASE InsertLock(t)
  BY <1>5 DEF InsertLock
<1>6. CASE Unlock(t)
  BY <1>6 DEF Unlock
<1>7. CASE Abort(t)
  BY <1>7 DEF Abort
<1>8. CASE WriteWord(t)
  <2>1. reg[t].i \in Words
    BY <1>8, IndexFacts DEF WriteWord, TypeOK, IndexOK
  <2>2. [cold[reg[t].hit] EXCEPT ![reg[t].i] = call[t].val] \in Payloads
    BY <1>8, <2>1 DEF WriteWord, Payloads
  <2> QED
    BY <1>8, <2>2 DEF WriteWord
<1>9. CASE WriteDone(t)
  BY <1>9 DEF WriteDone
<1>10. CASE PublishIntent(t)
  BY <1>10 DEF PublishIntent
<1>11. CASE RestoreKey(t)
  BY <1>11 DEF RestoreKey
<1>12. CASE ~Writes(t)
  BY <1>12, BucketFrame DEF Shared
<1> QED
  BY <1>4, <1>5, <1>6, <1>7, <1>8, <1>9, <1>10, <1>11, <1>12 DEF Writes

(* Every variable keeps its type, and every loop index its range. *)
THEOREM Typing == Spec => []TypeOK
<1>1. Init => TypeOK
  BY IndexFacts, ValueFacts
  DEF Init, TypeOK, IndexOK, Labels, Owning, Updating, Inserting, Reading,
      Scanning, NoResult, Result, Results, Rets, Call, Calls
<1>2. TypeOK /\ [Next]_vars => TypeOK'
  <2> SUFFICES ASSUME TypeOK, [Next]_vars PROVE TypeOK'
    OBVIOUS
  <2>1. CASE UNCHANGED vars
    BY <2>1 DEF vars, TypeOK, IndexOK
  <2>2. ASSUME NEW t \in Threads, Step(t) PROVE TypeOK'
    <3>1. BucketOK' /\ ThreadOK(t)' /\ Framed(t)
      BY <2>2, BucketTyping, ThreadTyping, Frame
    <3>2. ASSUME NEW u \in Threads, u # t PROVE ThreadOK(u)'
      <4>1. ThreadOK(u)
        BY DEF TypeOK, ThreadOK
      <4> QED
        BY <3>1, <3>2, <4>1 DEF Framed, ThreadOK, IndexOK
    <3>3. \A u \in Threads : ThreadOK(u)'
      BY <3>1, <3>2
    <3> QED
      BY <3>1, <3>3 DEF Framed, TypeOK, BucketOK, ThreadOK
  <2> QED
    BY <2>1, <2>2 DEF Next
<1> QED
  BY <1>1, <1>2, PTL DEF Spec
-----------------------------------------------------------------------------
(***************************************************************************)
(* Ownership.  Every step takes a lock, gives one up, works under one, or   *)
(* is made by a thread that holds none.                                     *)
(***************************************************************************)
Takes(t)  == TryLock(t) \/ InsertLock(t)
GivesUp(t) == Unlock(t) \/ Abort(t)

Keeps(t) ==
  /\ pc[t] \in Owning /\ pc'[t] \in Owning \ Updating
  /\ pc'[t] \in Inserting => pc[t] \in Inserting
  /\ reg'[t].hit = reg[t].hit /\ reg'[t].seq = reg[t].seq
  /\ seqs' = seqs

Outside(t) ==
  /\ pc[t] \notin Owning /\ pc'[t] \notin Owning
  /\ seqs' = seqs
  /\ pc'[t] \in Reading \cup {"insertTry"} =>
       \/ reg'[t].seq = seqs[reg'[t].hit] /\ ~Odd(reg'[t].seq)
       \/ /\ pc[t] \in Reading /\ pc'[t] \in Reading
          /\ reg'[t].hit = reg[t].hit /\ reg'[t].seq = reg[t].seq

(* The form every step has for the lock protocol; the invariants of the *)
(* lock are proved from it, and no longer action by action.             *)
LEMMA Phases ==
  ASSUME TypeOK, NEW t \in Threads, Step(t)
  PROVE  Takes(t) \/ GivesUp(t) \/ Keeps(t) \/ Outside(t)
<1>1. reg[t] \in Regs /\ t \in DOMAIN pc /\ t \in DOMAIN reg
  BY DEF TypeOK
<1> USE <1>1 DEF Goto, Set, Return, Rescan, Shared, Owning, Updating, Inserting,
      Reading, Keeps, Outside, Takes, GivesUp, Regs
<1>2. CASE Begin(t)
  BY <1>2 DEF Begin
<1>3. CASE Reject(t)
  BY <1>3 DEF Reject
<1>4. CASE FindHit(t)
  BY <1>4 DEF FindHit
<1>5. CASE FindNext(t)
  BY <1>5 DEF FindNext
<1>6. CASE FindMiss(t)
  BY <1>6 DEF FindMiss
<1>7. CASE LoadSeq(t)
  BY <1>7 DEF LoadSeq
<1>8. CASE TryLock(t)
  BY <1>8 DEF TryLock
<1>9. CASE TryFails(t)
  BY <1>9 DEF TryFails
<1>10. CASE Backoff(t)
  BY <1>10 DEF Backoff
<1>11. CASE CheckKey(t)
  <2>1. pc[t] = "check" /\ pc'[t] \in {"abort", "unlock", "write"}
        /\ seqs' = seqs
    BY <1>11, SMTT(60) DEF CheckKey
  <2>2. CASE keys[reg[t].hit] # call[t].key
    BY <1>11, <2>1, <2>2 DEF CheckKey
  <2>3. CASE keys[reg[t].hit] = call[t].key
    <3>1. reg'[t] = [reg[t] EXCEPT !.i = 1, !.key = call[t].key,
                                   !.ctx = cold[reg[t].hit]]
      BY <1>11, <2>3 DEF CheckKey
    <3>2. reg'[t].hit = reg[t].hit /\ reg'[t].seq = reg[t].seq
      BY <3>1
    <3> QED
      BY <2>1, <3>2
  <2> QED
    BY <2>2, <2>3
<1>12. CASE WriteWord(t)
  BY <1>12 DEF WriteWord
<1>13. CASE WriteDone(t)
  BY <1>13 DEF WriteDone
<1>14. CASE Unlock(t)
  BY <1>14 DEF Unlock
<1>15. CASE Abort(t)
  BY <1>15 DEF Abort
<1>16. CASE FindEmptySlot(t)
  BY <1>16 DEF FindEmptySlot
<1>17. CASE InsertLoad(t)
  BY <1>17 DEF InsertLoad
<1>18. CASE InsertLock(t)
  BY <1>18 DEF InsertLock
<1>19. CASE InsertLockFails(t)
  BY <1>19 DEF InsertLockFails
<1>20. CASE PublishIntent(t)
  BY <1>20 DEF PublishIntent
<1>21. CASE VerifySeq(t)
  BY <1>21 DEF VerifySeq
<1>22. CASE VerifyKey(t)
  BY <1>22 DEF VerifyKey, IsDuplicate
<1>23. CASE VerifySkip(t)
  BY <1>23 DEF VerifySkip
<1>24. CASE VerifyDone(t)
  BY <1>24 DEF VerifyDone
<1>25. CASE RestoreKey(t)
  BY <1>25 DEF RestoreKey
<1>26. CASE ReadSeq(t)
  BY <1>26 DEF ReadSeq
<1>27. CASE ReadWord(t)
  BY <1>27 DEF ReadWord
<1>28. CASE ReadKey(t)
  BY <1>28 DEF ReadKey
<1>29. CASE ReadAgain(t)
  BY <1>29 DEF ReadAgain, FreshReg
<1>30. CASE LookupValidated(t)
  BY <1>30 DEF LookupValidated
<1>31. CASE EnumerateValidated(t)
  BY <1>31 DEF EnumerateValidated, FreshReg
<1>32. CASE Snapshot(t)
  BY <1>32 DEF Snapshot
<1>33. CASE ConfirmHit(t)
  BY <1>33 DEF ConfirmHit
<1>34. CASE ConfirmMiss(t)
  BY <1>34 DEF ConfirmMiss
<1> QED
    BY <1>2, <1>3, <1>4, <1>5, <1>6, <1>7, <1>8, <1>9, <1>10, <1>11, <1>12,
     <1>13, <1>14, <1>15, <1>16, <1>17, <1>18, <1>19, <1>20, <1>21, <1>22,
     <1>23, <1>24, <1>25, <1>26, <1>27, <1>28, <1>29, <1>30, <1>31, <1>32,
     <1>33, <1>34 DEF Step, Run, Find, Lock, Insert, Verify, Owned, Read,
     Contains

(* What the locals of a writer about to lock, an owner and a reader say of *)
(* the words in memory.                                                    *)
LocalSeqs ==
  \A t \in Threads :
    /\ pc[t] \in Owning \cup Reading \cup {"insertTry"} => ~Odd(reg[t].seq)
    /\ pc[t] \in Reading => reg[t].seq.ver <= seqs[reg[t].hit].ver

Locking == TypeOK /\ SlotOwnership /\ LocalSeqs

(* No step lets a second writer into a slot or lets a local word run ahead *)
(* of memory: a lock is a compare-and-swap from an even word (um:847-853), *)
(* so nobody owned the slot before.                                        *)
LEMMA LockingStep ==
  ASSUME Locking, TypeOK', NEW t \in Threads, Step(t)
  PROVE  SlotOwnership' /\ LocalSeqs'
<1>1. TypeOK /\ SlotOwnership /\ LocalSeqs /\ Framed(t)
  BY Frame DEF Locking
<1>2. /\ \A u \in Threads : reg[u].hit \in Slots /\ reg'[u].hit \in Slots
      /\ \A u \in Threads : reg[u].seq \in Seqs /\ reg'[u].seq \in Seqs
      /\ \A s \in Slots : seqs[s] \in Seqs /\ seqs'[s] \in Seqs
      /\ seqs = [s \in Slots |-> seqs[s]]
  BY DEF TypeOK, Locking, Regs
<1>3. \A u \in Threads \ {t} : /\ pc'[u] = pc[u]
                             /\ reg'[u] = reg[u]
  BY <1>1 DEF Framed
<1> DEFINE s == reg[t].hit
<1>4. CASE Takes(t)
  <2>1. /\ ~Odd(reg[t].seq) /\ seqs[s] = reg[t].seq
        /\ pc[t] \notin Owning /\ reg'[t] = reg[t]
        /\ \/ pc'[t] = "check" /\ seqs' = [seqs EXCEPT ![s] = LockForUpdate(@)]
           \/ pc'[t] = "intent" /\ seqs' = [seqs EXCEPT ![s] = LockForInsert(@)]
    BY <1>1, <1>4 DEF Takes, TryLock, InsertLock, LocalSeqs, Owning, Updating,
      Inserting, Goto, TypeOK
  <2>2. /\ pc'[t] \in Owning /\ Odd(seqs'[s]) /\ seqs'[s].ver = seqs[s].ver
        /\ pc'[t] \in Updating => seqs'[s].bits = 1
        /\ pc'[t] \in Inserting => seqs'[s].bits = 3
        /\ pc'[t] \notin Reading
        /\ \A v \in Slots \ {s} : seqs'[v] = seqs[v]
    <3>1. s \in Slots /\ s \in DOMAIN seqs
      BY <1>2
    <3>2. CASE pc'[t] = "check" /\ seqs' = [seqs EXCEPT ![s] = LockForUpdate(@)]
      <4>1. seqs'[s] = [seqs[s] EXCEPT !.bits = 1]
        BY <3>1, <3>2 DEF LockForUpdate
      <4> QED
        BY <1>2, <3>1, <3>2, <4>1 DEF Odd, Seqs, Owning, Updating, Inserting, Reading
    <3>3. CASE pc'[t] = "intent" /\ seqs' = [seqs EXCEPT ![s] = LockForInsert(@)]
      <4>1. seqs'[s] = [seqs[s] EXCEPT !.bits = 3]
        BY <3>1, <3>3 DEF LockForInsert
      <4> QED
        BY <1>2, <3>1, <3>3, <4>1 DEF Odd, Seqs, Owning, Updating, Inserting, Reading
    <3> QED
      BY <2>1, <3>2, <3>3
  <2>3. \A u \in Threads : ~Owns(u, s)
    BY <1>1, <2>1 DEF SlotOwnership, Owns
  <2>4. SlotOwnership'
    BY <1>1, <1>2, <1>3, <2>1, <2>2, <2>3 DEF SlotOwnership, Owns
  <2>5. LocalSeqs'
    BY <1>1, <1>2, <1>3, <2>1, <2>2 DEF LocalSeqs
  <2> QED
    BY <2>4, <2>5
<1>5. CASE GivesUp(t)
  <2>1. /\ seqs' = [seqs EXCEPT ![s] = NextVersion(reg[t].seq)]
        /\ pc[t] \in Owning
        /\ pc'[t] \notin Owning \cup Reading \cup {"insertTry"}
    BY <1>5 DEF GivesUp, Unlock, Abort, Return, Rescan, Goto, Owning, Updating,
      Inserting, Reading, Locking, TypeOK
  <2>2. seqs[s].ver = reg[t].seq.ver
    BY <1>1, <2>1 DEF SlotOwnership
  <2>3. /\ ~Odd(seqs'[s]) /\ seqs'[s].ver = seqs[s].ver + 1
        /\ \A v \in Slots \ {s} : seqs'[v] = seqs[v]
    BY <1>2, <2>1, <2>2 DEF NextVersion, Odd
  <2>4. \A u \in Threads \ {t} : ~Owns(u, s)
    BY <1>1, <1>2, <2>1 DEF SlotOwnership, Owns
  <2>5. SlotOwnership'
    BY <1>1, <1>2, <1>3, <2>1, <2>3, <2>4 DEF SlotOwnership, Owns
  <2>6. LocalSeqs'
    BY <1>1, <1>2, <1>3, <2>1, <2>3 DEF LocalSeqs, Seqs
  <2> QED
    BY <2>5, <2>6
<1>6. CASE Keeps(t)
  <2>1. SlotOwnership'
    BY <1>1, <1>2, <1>3, <1>6 DEF SlotOwnership, Owns, Keeps
  <2>2. LocalSeqs'
    BY <1>1, <1>2, <1>3, <1>6 DEF LocalSeqs, Keeps, Owning, Updating, Inserting,
      Reading
  <2> QED
    BY <2>1, <2>2
<1>7. CASE Outside(t)
  <2>1. SlotOwnership'
    BY <1>1, <1>2, <1>3, <1>7 DEF SlotOwnership, Owns, Outside
  <2>2. LocalSeqs'
    BY <1>1, <1>2, <1>3, <1>7 DEF LocalSeqs, Outside, Seqs
  <2> QED
    BY <2>1, <2>2
<1> QED
  BY <1>1, <1>4, <1>5, <1>6, <1>7, Phases

(* Typing, ownership and the facts on local words together are invariant. *)
LEMMA LockingInvariant == Spec => []Locking
<1>1. Init => SlotOwnership /\ LocalSeqs
  BY DEF Init, SlotOwnership, LocalSeqs, Owns, Owning, Updating, Inserting,
    Reading, Odd, Seq0
<1>2. Locking /\ TypeOK' /\ [Next]_vars => SlotOwnership' /\ LocalSeqs'
  <2> SUFFICES ASSUME Locking, TypeOK', [Next]_vars
               PROVE  SlotOwnership' /\ LocalSeqs'
    OBVIOUS
  <2>1. CASE UNCHANGED vars
    BY <2>1 DEF vars, Locking, SlotOwnership, LocalSeqs, Owns
  <2>2. CASE Next
    BY <2>2, LockingStep DEF Next
  <2> QED
    BY <2>1, <2>2
<1> QED
  BY <1>1, <1>2, Typing, PTL DEF Spec, Locking

(* A slot is locked exactly while one thread is inside its critical section *)
(* there, and that thread's copy of the word is the one in memory.          *)
THEOREM Ownership == Spec => []SlotOwnership
BY LockingInvariant, PTL DEF Locking
-----------------------------------------------------------------------------
(***************************************************************************)
(* The sequence lock.  A step that changes a key or a payload is made by    *)
(* the owner of the slot; a step that changes a word takes or gives up the  *)
(* lock.                                                                    *)
(***************************************************************************)
Fills(t) == WriteWord(t) \/ WriteDone(t) \/ PublishIntent(t) \/ RestoreKey(t)

(* A key or payload is stored only in a slot its writer owns, whose word is *)
(* odd.                                                                     *)
LEMMA FillsOwned ==
  ASSUME Locking, NEW t \in Threads, Fills(t)
  PROVE  /\ seqs' = seqs
         /\ Owns(t, reg[t].hit) /\ Odd(seqs[reg[t].hit])
         /\ reg[t].hit \in Slots
         /\ \A s \in Slots \ {reg[t].hit} : keys'[s] = keys[s] /\ cold'[s] = cold[s]
<1>1. reg[t].hit \in Slots
  BY DEF Locking, TypeOK, Regs
<1>2. seqs' = seqs /\ pc[t] \in Owning
  BY DEF Fills, WriteWord, WriteDone, PublishIntent, RestoreKey, Owning, Inserting
<1>3. Owns(t, reg[t].hit) /\ Odd(seqs[reg[t].hit])
  BY <1>2 DEF Locking, SlotOwnership, Owns
<1>4. \A s \in Slots \ {reg[t].hit} : keys'[s] = keys[s] /\ cold'[s] = cold[s]
  BY DEF Fills, WriteWord, WriteDone, PublishIntent, RestoreKey, Locking, TypeOK
<1> QED
  BY <1>1, <1>2, <1>3, <1>4

(* Locking makes an even word odd at the same version; both exits, success *)
(* and abort, make it even at the next version (um:862-875).               *)
LEMMA WordsMove ==
  ASSUME Locking, NEW t \in Threads, Takes(t) \/ GivesUp(t)
  PROVE  /\ reg[t].hit \in Slots
         /\ UNCHANGED <<keys, cold>>
         /\ \A s \in Slots \ {reg[t].hit} : seqs'[s] = seqs[s]
         /\ \/ /\ ~Odd(seqs[reg[t].hit]) /\ Odd(seqs'[reg[t].hit])
               /\ seqs'[reg[t].hit].ver = seqs[reg[t].hit].ver
            \/ /\ Odd(seqs[reg[t].hit]) /\ ~Odd(seqs'[reg[t].hit])
               /\ seqs'[reg[t].hit].ver = seqs[reg[t].hit].ver + 1
<1>1. /\ reg[t].hit \in Slots /\ reg[t].seq \in Seqs
      /\ reg[t].hit \in DOMAIN seqs /\ seqs[reg[t].hit] \in Seqs
  BY DEF Locking, TypeOK, Regs
<1>2. CASE Takes(t)
  <2>1. /\ UNCHANGED <<keys, cold>>
        /\ ~Odd(seqs[reg[t].hit])
        /\ \/ seqs' = [seqs EXCEPT ![reg[t].hit] = LockForUpdate(@)]
           \/ seqs' = [seqs EXCEPT ![reg[t].hit] = LockForInsert(@)]
    BY <1>2 DEF Takes, TryLock, InsertLock, Locking, LocalSeqs
  <2>2. \A q \in Seqs : /\ Odd(LockForUpdate(q)) /\ LockForUpdate(q).ver = q.ver
                       /\ Odd(LockForInsert(q)) /\ LockForInsert(q).ver = q.ver
    BY DEF Odd, LockForUpdate, LockForInsert, Seqs
  <2>3. CASE seqs' = [seqs EXCEPT ![reg[t].hit] = LockForUpdate(@)]
    <3>1. seqs'[reg[t].hit] = LockForUpdate(seqs[reg[t].hit])
      BY <1>1, <2>3
    <3> QED
      BY <1>1, <2>1, <2>2, <2>3, <3>1
  <2>4. CASE seqs' = [seqs EXCEPT ![reg[t].hit] = LockForInsert(@)]
    <3>1. seqs'[reg[t].hit] = LockForInsert(seqs[reg[t].hit])
      BY <1>1, <2>4
    <3> QED
      BY <1>1, <2>1, <2>2, <2>4, <3>1
  <2> QED
    BY <2>1, <2>3, <2>4
<1>3. CASE GivesUp(t)
  <2>1. /\ UNCHANGED <<keys, cold>> /\ pc[t] \in Owning
        /\ seqs' = [seqs EXCEPT ![reg[t].hit] = NextVersion(reg[t].seq)]
    BY <1>3 DEF GivesUp, Unlock, Abort, Owning
  <2>2. Odd(seqs[reg[t].hit]) /\ seqs[reg[t].hit].ver = reg[t].seq.ver
    BY <2>1 DEF Locking, SlotOwnership
  <2> QED
    BY <1>1, <2>1, <2>2 DEF NextVersion, Odd
<1> QED
  BY <1>2, <1>3

(* All other steps leave the whole bucket alone. *)
LEMMA NothingMoves ==
  ASSUME NEW t \in Threads, Step(t), ~Takes(t), ~GivesUp(t), ~Fills(t)
  PROVE  UNCHANGED <<keys, seqs, cold>>
BY BucketFrame DEF Writes, Takes, GivesUp, Fills, Shared

(* A slot changes only under its lock, and its version only grows. *)
THEOREM Stability == Spec => StableUnlessLocked
<1> DEFINE Stable(s) ==
      /\ keys'[s] # keys[s] \/ cold'[s] # cold[s]
           => Odd(seqs[s]) /\ seqs'[s] = seqs[s]
      /\ seqs'[s].ver >= seqs[s].ver
      /\ Odd(seqs[s]) /\ ~Odd(seqs'[s]) => seqs'[s].ver = seqs[s].ver + 1
<1>1. Locking /\ [Next]_vars => [\A s \in Slots : Stable(s)]_vars
  <2> SUFFICES ASSUME Locking, NEW t \in Threads, Step(t), NEW s \in Slots
               PROVE  Stable(s)
    BY DEF Next
  <2>1. seqs[s] \in Seqs /\ seqs[s].ver \in Nat
    BY DEF Locking, TypeOK, Seqs
  <2>2. CASE Takes(t) \/ GivesUp(t)
    BY <2>1, <2>2, WordsMove
  <2>3. CASE Fills(t)
    BY <2>1, <2>3, FillsOwned
  <2>4. CASE ~Takes(t) /\ ~GivesUp(t) /\ ~Fills(t)
    BY <2>1, <2>4, NothingMoves
  <2> QED
    BY <2>2, <2>3, <2>4
<1> QED
  BY <1>1, LockingInvariant, PTL DEF Spec, StableUnlessLocked

(* Reader u's copies so far are what its slot holds, if its word is. *)
OneVersion(u) ==
  pc[u] \in Reading /\ seqs[reg[u].hit] = reg[u].seq =>
    /\ \A w \in Words : w < reg[u].i => reg[u].ctx[w] = cold[reg[u].hit][w]
    /\ pc[u] = "validate" => reg[u].key = keys[reg[u].hit]

(* The copies of a reader stay true of one version while another thread *)
(* steps: a writer that changes the slot has changed its word.          *)
LEMMA OneVersionOfOthers ==
  ASSUME Locking, NEW t \in Threads, Step(t), NEW u \in Threads \ {t},
         OneVersion(u)
  PROVE  OneVersion(u)'
<1>1. /\ pc'[u] = pc[u] /\ reg'[u] = reg[u]
      /\ reg[u].hit \in Slots
      /\ pc[u] \in Reading => /\ ~Odd(reg[u].seq)
                             /\ reg[u].seq.ver <= seqs[reg[u].hit].ver
  BY Frame DEF Framed, Locking, TypeOK, Regs, LocalSeqs
<1>2. /\ \A s \in Slots : seqs[s].ver \in Nat
      /\ reg[u].seq.ver \in Nat
  BY DEF Locking, TypeOK, Regs, Seqs
<1>3. CASE Takes(t) \/ GivesUp(t)
  BY <1>1, <1>2, <1>3, WordsMove DEF OneVersion
<1>4. CASE Fills(t)
  BY <1>1, <1>4, FillsOwned DEF OneVersion
<1>5. CASE ~Takes(t) /\ ~GivesUp(t) /\ ~Fills(t)
  BY <1>1, <1>5, NothingMoves DEF OneVersion
<1> QED
  BY <1>3, <1>4, <1>5

(* The reader's own loads extend its copies by what the slot holds. *)
LEMMA OneVersionOfReader ==
  ASSUME Locking, TypeOK', NEW t \in Threads, Step(t), OneVersion(t)
  PROVE  OneVersion(t)'
<1>1. /\ reg[t] \in Regs /\ t \in DOMAIN pc /\ t \in DOMAIN reg
      /\ pc[t] \in Labels /\ IndexOK(t)
  BY DEF Locking, TypeOK
<1>2. CASE ReadSeq(t)
  <2>1. reg'[t].i = 1 /\ pc'[t] = "readWord"
    BY <1>1, <1>2 DEF ReadSeq, Goto, Set, Regs
  <2>2. \A w \in Words : ~(w < 1)
    BY DEF Words
  <2> QED
    BY <2>1, <2>2 DEF OneVersion
<1>3. CASE ReadWord(t)
  <2>1. /\ reg'[t].hit = reg[t].hit /\ reg'[t].seq = reg[t].seq
        /\ reg'[t].i = reg[t].i + 1 /\ pc'[t] = "readWord" /\ pc[t] = "readWord"
        /\ reg'[t].ctx = [reg[t].ctx EXCEPT ![reg[t].i] = cold[reg[t].hit][reg[t].i]]
        /\ UNCHANGED <<keys, seqs, cold>>
    BY <1>1, <1>3 DEF ReadWord, Set, Shared, Regs
  <2>2. reg[t].i \in Nat /\ \A w \in Words : w \in Nat
    BY <1>1 DEF Regs, Words
  <2>3. \A w \in Words : /\ w # reg[t].i => reg'[t].ctx[w] = reg[t].ctx[w]
                        /\ w = reg[t].i => reg'[t].ctx[w] = cold[reg[t].hit][w]
    BY <1>1, <2>1 DEF Regs, Payloads
  <2> QED
    BY <2>1, <2>2, <2>3 DEF OneVersion, Reading
<1>4. CASE ReadKey(t)
  BY <1>1, <1>4 DEF ReadKey, Goto, Set, Shared, Regs, OneVersion, Reading
<1>5. CASE ~ReadSeq(t) /\ ~ReadWord(t) /\ ~ReadKey(t)
  <2>1. pc'[t] \notin Reading
    BY <1>1, <1>5 DEF Step, Run, Find, Lock, Insert, Verify, Owned, Read, Contains,
      Begin, Reject, FindHit, FindNext, FindMiss, LoadSeq, TryLock, TryFails,
      Backoff, CheckKey, WriteWord, WriteDone, Unlock, Abort, FindEmptySlot,
      InsertLoad, InsertLock, InsertLockFails, PublishIntent, VerifySeq, VerifyKey,
      VerifySkip, VerifyDone, RestoreKey, ReadAgain, LookupValidated,
      EnumerateValidated, Snapshot, ConfirmHit, ConfirmMiss,
      Goto, Set, Return, Rescan, Reading
  <2> QED
    BY <2>1 DEF OneVersion
<1> QED
  BY <1>2, <1>3, <1>4, <1>5

(* No reader combines two versions of a slot and then validates them. *)
THEOREM OneVersionPerRead == Spec => []ReadersSeeOneVersion
<1>1. ReadersSeeOneVersion <=> \A u \in Threads : OneVersion(u)
  BY DEF ReadersSeeOneVersion, OneVersion
<1>2. Init => \A u \in Threads : OneVersion(u)
  BY DEF Init, OneVersion, Reading
<1>3. /\ Locking /\ Locking' /\ [Next]_vars
      /\ \A u \in Threads : OneVersion(u)
      => (\A u \in Threads : OneVersion(u))'
  <2> SUFFICES ASSUME Locking, Locking', [Next]_vars,
                      \A u \in Threads : OneVersion(u)
               PROVE  \A u \in Threads : OneVersion(u)'
    OBVIOUS
  <2>1. CASE UNCHANGED vars
    BY <2>1 DEF vars, OneVersion
  <2>2. ASSUME NEW t \in Threads, Step(t) PROVE \A u \in Threads : OneVersion(u)'
    BY <2>2, OneVersionOfOthers, OneVersionOfReader DEF Locking
  <2> QED
    BY <2>1, <2>2 DEF Next
<1>4. Spec => [](\A u \in Threads : OneVersion(u))
  BY <1>2, <1>3, LockingInvariant, PTL DEF Spec
<1> QED
  BY <1>1, <1>4, PTL
-----------------------------------------------------------------------------
(***************************************************************************)
(* Whole entries.  What each label says of the operation being run, of the  *)
(* slot the thread owns, and of what it has captured for its caller.        *)
(***************************************************************************)
Doing(t) ==
  /\ pc[t] \in {"load", "try"} \cup Owning => call[t].op \in {"Insert", "Delete"}
  /\ pc[t] \in {"empty", "insertLoad", "insertTry"} \cup Inserting
       => call[t].op = "Insert"
  /\ pc[t] \in {"write", "unlock"} /\ call[t].op = "Delete"
       => seqs[reg[t].hit].bits = 1
  /\ pc[t] \in {"snap", "confirmHit", "confirmMiss"} => call[t].op = "Contains"
  /\ pc[t] = "find" => call[t].op # "Enumerate"

Filled(t) ==
  LET s == reg[t].hit IN
  /\ pc[t] \in {"check", "intent", "abort", "unlock"} => Whole(keys[s], cold[s])
  /\ pc[t] \in {"verifySeq", "verifyKey", "restore"} =>
       Whole(reg[t].key, cold[s]) /\ keys[s] = call[t].key
  /\ pc[t] = "write" =>
       /\ keys[s] = call[t].key
       /\ \A w \in Words : w < reg[t].i => cold[s][w] = call[t].val

Captured(t) ==
  /\ pc[t] \in {"find", "empty", "insertLoad", "insertTry", "intent", "verifySeq",
                "verifyKey", "snap"} => reg[t].ctx = Payload(Zero)
  /\ pc[t] \in {"write", "unlock"} =>
       /\ Whole(reg[t].key, reg[t].ctx)
       /\ seqs[reg[t].hit].bits = 1 => reg[t].key = call[t].key

Contents ==
  /\ PublishedEntriesAreWhole
  /\ \A t \in Threads : Doing(t) /\ Filled(t) /\ Captured(t)

(* The arguments of a call that passed the checks at the entry: an insert *)
(* brings a payload stamped with its key, a delete the all-zero payload.  *)
LEMMA CallFacts ==
  ASSUME NEW c \in Calls
  PROVE  /\ c.op = "Insert" => c.val \in Stamps /\ c.val[1] = c.key
         /\ c.op = "Delete" => c.val = Zero
         /\ c.op # "Enumerate" => c.key \in Keys
         /\ c.op \in Ops
BY DEF Calls, Call, Stamps, Ops

(* A payload filled word by word with one value is a whole payload. *)
LEMMA WholeFacts ==
  ASSUME NEW c \in Payloads
  PROVE  /\ (\A w \in Words : c[w] = Zero) => Whole(NoKey, c)
         /\ \A v \in Stamps : (\A w \in Words : c[w] = v) => Whole(v[1], c)
         /\ Whole(NoKey, Payload(Zero))
<1>1. \A v : (\A w \in Words : c[w] = v) => c = Payload(v)
  BY DEF Payloads, Payload
<1> QED
  BY <1>1 DEF Whole

(* No other thread changes a slot that is owned. *)
LEMMA OwnedUntouched ==
  ASSUME Locking, NEW t \in Threads, Step(t),
         NEW u \in Threads \ {t}, pc[u] \in Owning
  PROVE  /\ keys'[reg[u].hit] = keys[reg[u].hit]
         /\ seqs'[reg[u].hit] = seqs[reg[u].hit]
         /\ cold'[reg[u].hit] = cold[reg[u].hit]
<1> DEFINE s == reg[u].hit
<1>1. /\ s \in Slots /\ Odd(seqs[s]) /\ Owns(u, s)
      /\ reg[t].hit \in Slots
      /\ \A v \in Slots : Owns(t, v) => v # s
  BY DEF Locking, TypeOK, Regs, SlotOwnership, Owns
<1>2. CASE Takes(t)
  BY <1>1, <1>2, WordsMove DEF Takes, TryLock, InsertLock, Locking, LocalSeqs
<1>3. CASE GivesUp(t)
  <2>1. Owns(t, reg[t].hit)
    BY <1>3 DEF GivesUp, Unlock, Abort, Owns, Owning
  <2> QED
    BY <1>1, <1>3, <2>1, WordsMove
<1>4. CASE Fills(t)
  BY <1>1, <1>4, FillsOwned
<1>5. CASE ~Takes(t) /\ ~GivesUp(t) /\ ~Fills(t)
  BY <1>5, NothingMoves
<1> QED
  BY <1>2, <1>3, <1>4, <1>5

(* So what an owner knows of its slot survives the steps of others. *)
LEMMA ContentsOfOthers ==
  ASSUME Locking, NEW t \in Threads, Step(t), NEW u \in Threads \ {t},
         Doing(u) /\ Filled(u) /\ Captured(u)
  PROVE  (Doing(u) /\ Filled(u) /\ Captured(u))'
<1>1. pc'[u] = pc[u] /\ reg'[u] = reg[u] /\ call'[u] = call[u]
  BY Frame DEF Framed, Locking
<1>2. CASE pc[u] \in Owning
  BY <1>1, <1>2, OwnedUntouched DEF Doing, Filled, Captured
<1>3. CASE pc[u] \notin Owning
  BY <1>1, <1>3 DEF Doing, Filled, Captured, Owning, Updating, Inserting
<1> QED
  BY <1>2, <1>3

(* A step leaves every published slot whole: one given up is whole by what *)
(* its owner knew of it, the others are not written.                       *)
LEMMA PublishedStep ==
  ASSUME Locking, Contents, NEW t \in Threads, Step(t)
  PROVE  PublishedEntriesAreWhole'
<1> SUFFICES ASSUME NEW s \in Slots, ~Odd(seqs'[s])
             PROVE  Whole(keys'[s], cold'[s])
  BY DEF PublishedEntriesAreWhole
<1>1. ~Odd(seqs[s]) => Whole(keys[s], cold[s])
  BY DEF Contents, PublishedEntriesAreWhole
<1>2. CASE Takes(t)
  BY <1>1, <1>2, WordsMove DEF Takes, TryLock, InsertLock, Locking, LocalSeqs
<1>3. CASE GivesUp(t)
  <2>1. Whole(keys[reg[t].hit], cold[reg[t].hit])
    BY <1>3 DEF GivesUp, Unlock, Abort, Contents, Filled
  <2> QED
    BY <1>1, <1>3, <2>1, WordsMove
<1>4. CASE Fills(t)
  BY <1>1, <1>4, FillsOwned
<1>5. CASE ~Takes(t) /\ ~GivesUp(t) /\ ~Fills(t)
  BY <1>1, <1>5, NothingMoves
<1> QED
  BY <1>2, <1>3, <1>4, <1>5

(* The labels of an operation lead only to labels of that operation. *)
LEMMA DoingStep ==
  ASSUME Locking, NEW t \in Threads, Step(t), Doing(t)
  PROVE  Doing(t)'
<1>1. /\ t \in DOMAIN pc /\ t \in DOMAIN call /\ t \in DOMAIN reg
      /\ reg[t] \in Regs
  BY DEF Locking, TypeOK
<1>2. pc[t] \in Owning => /\ pc[t] \in Updating => seqs[reg[t].hit].bits = 1
                          /\ reg[t].hit \in Slots
  BY DEF Locking, SlotOwnership, TypeOK, Regs
<1>0. pc[t] # "idle" => call[t].op \in Ops
  BY CallFacts DEF Locking, TypeOK, IndexOK
<1> USE <1>0, <1>1, <1>2 DEF Goto, Set, Return, Rescan, Shared, Owning, Updating, Inserting,
      Doing, Regs, FreshReg
<1>3. CASE Begin(t)
  BY <1>3 DEF Begin, Calls, Call
<1>4. CASE Reject(t)
  BY <1>4 DEF Reject
<1>5. CASE FindHit(t)
  BY <1>5 DEF FindHit, Ops
<1>6. CASE FindNext(t)
  BY <1>6 DEF FindNext
<1>7. CASE FindMiss(t)
  BY <1>7 DEF FindMiss
<1>8. CASE LoadSeq(t)
  BY <1>8 DEF LoadSeq
<1>9. CASE TryLock(t)
  BY <1>9 DEF TryLock
<1>10. CASE TryFails(t)
  BY <1>10 DEF TryFails
<1>11. CASE Backoff(t)
  BY <1>11 DEF Backoff
<1>12. CASE CheckKey(t)
  BY <1>12 DEF CheckKey
<1>13. CASE WriteWord(t)
  BY <1>13 DEF WriteWord
<1>14. CASE WriteDone(t)
  BY <1>14 DEF WriteDone
<1>15. CASE Unlock(t)
  BY <1>15 DEF Unlock
<1>16. CASE Abort(t)
  BY <1>16 DEF Abort
<1>17. CASE FindEmptySlot(t)
  BY <1>17 DEF FindEmptySlot
<1>18. CASE InsertLoad(t)
  BY <1>18 DEF InsertLoad
<1>19. CASE InsertLock(t)
  BY <1>19 DEF InsertLock
<1>20. CASE InsertLockFails(t)
  BY <1>20 DEF InsertLockFails
<1>21. CASE PublishIntent(t)
  BY <1>21 DEF PublishIntent
<1>22. CASE VerifySeq(t)
  BY <1>22 DEF VerifySeq
<1>23. CASE VerifyKey(t)
  BY <1>23 DEF VerifyKey
<1>24. CASE VerifySkip(t)
  BY <1>24 DEF VerifySkip
<1>25. CASE VerifyDone(t)
  BY <1>25 DEF VerifyDone
<1>26. CASE RestoreKey(t)
  BY <1>26 DEF RestoreKey
<1>27. CASE ReadSeq(t)
  BY <1>27 DEF ReadSeq
<1>28. CASE ReadWord(t)
  BY <1>28 DEF ReadWord
<1>29. CASE ReadKey(t)
  BY <1>29 DEF ReadKey
<1>30. CASE ReadAgain(t)
  BY <1>30 DEF ReadAgain
<1>31. CASE LookupValidated(t)
  BY <1>31 DEF LookupValidated
<1>32. CASE EnumerateValidated(t)
  BY <1>32 DEF EnumerateValidated
<1>33. CASE Snapshot(t)
  BY <1>33 DEF Snapshot
<1>34. CASE ConfirmHit(t)
  BY <1>34 DEF ConfirmHit
<1>35. CASE ConfirmMiss(t)
  BY <1>35 DEF ConfirmMiss
<1> QED
    BY <1>3, <1>4, <1>5, <1>6, <1>7, <1>8, <1>9, <1>10, <1>11, <1>12, <1>13,
     <1>14, <1>15, <1>16, <1>17, <1>18, <1>19, <1>20, <1>21, <1>22, <1>23,
     <1>24, <1>25, <1>26, <1>27, <1>28, <1>29, <1>30, <1>31, <1>32, <1>33,
     <1>34, <1>35 DEF Step, Run, Find, Lock, Insert, Verify, Owned, Read,
     Contains

(* A step keeps what the owner of a slot knows of its contents, in        *)
(* particular that an insert which changed the key still holds the one to *)
(* restore (um:912-952).                                                  *)
LEMMA FilledStep ==
  ASSUME Locking, Contents, NEW t \in Threads, Step(t)
  PROVE  Filled(t)'
<1> DEFINE s == reg[t].hit
<1>1. /\ pc \in [Threads -> Labels] /\ reg[t] \in Regs /\ s \in Slots
      /\ keys \in [Slots -> Keys \cup {NoKey}] /\ cold \in [Slots -> Payloads]
      /\ t \in DOMAIN reg /\ t \in DOMAIN call
      /\ Doing(t) /\ Filled(t) /\ IndexOK(t)
  BY DEF Locking, TypeOK, Regs, Contents
<1>2. pc[t] # "idle" => call[t] \in Calls
  BY <1>1 DEF IndexOK
<1>3. CASE Takes(t)
  <2>1. Whole(keys[s], cold[s]) /\ UNCHANGED <<keys, cold, reg>>
        /\ pc'[t] \in {"check", "intent"}
    BY <1>1, <1>3 DEF Takes, TryLock, InsertLock, Locking, LocalSeqs, Contents,
      PublishedEntriesAreWhole, Goto
  <2> QED
    BY <2>1 DEF Filled
<1>4. CASE GivesUp(t)
  BY <1>1, <1>4 DEF GivesUp, Unlock, Abort, Return, Rescan, Goto, Filled
<1>5. CASE CheckKey(t)
  <2>1. /\ reg'[t].hit = s /\ UNCHANGED <<keys, cold, call>>
        /\ Whole(keys[s], cold[s])
        /\ pc'[t] \in {"abort", "unlock", "write"}
        /\ pc'[t] = "write" => reg'[t].i = 1 /\ keys[s] = call[t].key
    <3>1. /\ pc[t] = "check" /\ pc'[t] \in {"abort", "unlock", "write"}
          /\ UNCHANGED <<keys, cold, call>>
          /\ Whole(keys[s], cold[s])
      BY <1>1, <1>5 DEF CheckKey, Goto, Shared, Filled
    <3>2. reg'[t].hit = s
      BY <1>1, <1>5 DEF CheckKey, Set, Regs
    <3>3. pc'[t] = "write" => reg'[t].i = 1 /\ keys[s] = call[t].key
      <4>1. CASE keys[s] # call[t].key
        BY <1>1, <1>5, <4>1 DEF CheckKey, Goto
      <4>2. CASE keys[s] = call[t].key
        BY <1>1, <1>5, <4>2 DEF CheckKey, Set, Regs
      <4> QED
        BY <4>1, <4>2
    <3> QED
      BY <3>1, <3>2, <3>3
  <2> QED
    BY <2>1 DEF Filled, Words
<1>6. CASE WriteWord(t)
  <2>1. /\ pc[t] = "write" /\ pc'[t] = "write"
        /\ reg'[t].hit = s /\ reg'[t].i = reg[t].i + 1 /\ reg[t].i \in Nat
        /\ keys' = keys /\ call' = call
        /\ cold'[s] = [cold[s] EXCEPT ![reg[t].i] = call[t].val]
    BY <1>1, <1>6 DEF WriteWord, Set, Regs
  <2>2. \A w \in Words : /\ w \in Nat
                         /\ w # reg[t].i => cold'[s][w] = cold[s][w]
                         /\ w = reg[t].i => cold'[s][w] = call[t].val
    <3>1. DOMAIN cold[s] = Words /\ \A w \in Words : w \in Nat
      BY <1>1 DEF Payloads, Words
    <3> QED
      BY <2>1, <3>1
  <2> QED
    BY <1>1, <2>1, <2>2 DEF Filled
<1>7. CASE WriteDone(t)
  <2>1. \A w \in Words : w < reg[t].i
    BY <1>1, <1>7, IndexFacts DEF WriteDone, IndexOK, Words
  <2>2. /\ \A w \in Words : cold[s][w] = call[t].val
        /\ keys[s] = call[t].key
        /\ call[t].op \in {"Insert", "Delete"}
        /\ cold[s] \in Payloads
    BY <1>1, <1>7, <2>1 DEF WriteDone, Filled, Doing, Owning
  <2>3. /\ pc'[t] = "unlock" /\ reg' = reg /\ cold' = cold
        /\ call[t].op = "Delete" => keys'[s] = NoKey
        /\ call[t].op = "Insert" => keys'[s] = keys[s]
        /\ pc[t] # "idle"
    BY <1>1, <1>7 DEF WriteDone, Goto
  <2>4. Whole(keys'[s], cold[s])
    BY <1>2, <2>2, <2>3, CallFacts, WholeFacts
  <2> QED
    BY <2>3, <2>4 DEF Filled
<1>8. CASE PublishIntent(t)
  <2>1. /\ reg'[t].hit = s /\ reg'[t].key = keys[s] /\ pc'[t] = "verifySeq"
        /\ keys'[s] = call[t].key /\ UNCHANGED <<cold, call>>
        /\ Whole(keys[s], cold[s])
    BY <1>1, <1>8 DEF PublishIntent, Goto, Set, Regs, Filled
  <2> QED
    BY <2>1 DEF Filled
<1>9. CASE Verify(t)
  <2>1. /\ reg'[t].hit = s /\ reg'[t].key = reg[t].key
        /\ pc[t] \in {"verifySeq", "verifyKey"}
        /\ pc'[t] \in {"verifySeq", "verifyKey", "restore", "write"}
        /\ pc'[t] = "write" => reg'[t].i = 1
        /\ UNCHANGED <<keys, cold, call>>
    <3> USE <1>1 DEF Goto, Set, Shared, Regs
    <3>1. CASE VerifySeq(t)
      BY <3>1 DEF VerifySeq
    <3>2. CASE VerifyKey(t)
      BY <3>2 DEF VerifyKey
    <3>3. CASE VerifySkip(t)
      BY <3>3 DEF VerifySkip
    <3>4. CASE VerifyDone(t)
      BY <3>4 DEF VerifyDone
    <3> QED
      BY <1>9, <3>1, <3>2, <3>3, <3>4 DEF Verify
  <2> QED
    BY <1>1, <2>1 DEF Filled, Words
<1>10. CASE RestoreKey(t)
  <2>1. /\ reg' = reg /\ pc'[t] = "abort" /\ cold' = cold
        /\ keys'[s] = reg[t].key /\ Whole(reg[t].key, cold[s])
    BY <1>1, <1>10 DEF RestoreKey, Goto, Filled
  <2> QED
    BY <2>1 DEF Filled
<1>11. CASE pc'[t] \notin Owning
  BY <1>11 DEF Filled, Owning, Updating, Inserting
<1> QED
  <2>1. pc[t] \in Owning /\ ~GivesUp(t) =>
          \/ CheckKey(t) \/ WriteWord(t) \/ WriteDone(t) \/ PublishIntent(t)
          \/ Verify(t) \/ RestoreKey(t)
    BY DEF Step, Run, Find, Lock, Insert, Owned, Read, Contains, GivesUp,
      Begin, Reject, FindHit, FindNext, FindMiss, LoadSeq, TryLock, TryFails, Backoff,
      FindEmptySlot, InsertLoad, InsertLock, InsertLockFails, ReadSeq, ReadWord,
      ReadKey, ReadAgain, LookupValidated, EnumerateValidated, Snapshot,
      ConfirmHit, ConfirmMiss, Owning, Updating, Inserting
  <2> QED
    BY <1>3, <1>4, <1>5, <1>6, <1>7, <1>8, <1>9, <1>10, <1>11, <2>1, Phases
    DEF Locking, Outside, Keeps

(* A step keeps what a call has captured for its caller: the previous *)
(* entry, read under the lock, or nothing yet.                        *)
LEMMA CapturedStep ==
  ASSUME Locking, Contents, NEW t \in Threads, Step(t)
  PROVE  Captured(t)'
<1>1. /\ t \in DOMAIN pc /\ t \in DOMAIN call /\ t \in DOMAIN reg
      /\ reg[t] \in Regs /\ reg[t].hit \in Slots
      /\ Captured(t) /\ Filled(t)
  BY DEF Locking, TypeOK, Contents, Regs
<1>2. /\ pc[t] = "idle" => reg[t] = FreshReg
      /\ FreshReg.ctx = Payload(Zero)
      /\ pc[t] \in Inserting => seqs[reg[t].hit].bits = 3
  BY DEF Locking, TypeOK, IndexOK, FreshReg, SlotOwnership, Owning
<1>3. CASE CheckKey(t)
  <2>1. /\ UNCHANGED <<seqs, call>> /\ reg'[t].hit = reg[t].hit
        /\ pc'[t] \in {"abort", "unlock", "write"}
        /\ pc'[t] # "abort" => /\ reg'[t].key = call[t].key
                               /\ reg'[t].ctx = cold[reg[t].hit]
                               /\ Whole(call[t].key, cold[reg[t].hit])
    BY <1>1, <1>3 DEF CheckKey, Goto, Set, Shared, Regs, Filled
  <2> QED
    BY <2>1 DEF Captured
<1>4. CASE VerifyDone(t)
  <2>1. /\ UNCHANGED <<seqs, call>> /\ reg'[t].hit = reg[t].hit
        /\ pc'[t] = "write" /\ reg'[t].key = reg[t].key
        /\ Whole(reg[t].key, cold[reg[t].hit])
        /\ seqs[reg[t].hit].bits = 3
        /\ reg'[t].ctx = IF reg[t].key # NoKey THEN cold[reg[t].hit] ELSE reg[t].ctx
        /\ reg[t].ctx = Payload(Zero)
    BY <1>1, <1>2, <1>4 DEF VerifyDone, Goto, Set, Shared, Regs, Filled, Captured,
      Inserting
  <2>2. Whole(NoKey, Payload(Zero))
    BY DEF Whole
  <2> QED
    BY <2>1, <2>2 DEF Captured
<1>5. CASE ~CheckKey(t) /\ ~VerifyDone(t)
  <2> USE <1>1, <1>2, <1>5 DEF Goto, Set, Return, Rescan, Shared, Captured, Regs
  <2>1. CASE Begin(t)
    BY <2>1 DEF Begin
  <2>2. CASE Reject(t)
    BY <2>2 DEF Reject
  <2>3. CASE FindHit(t)
    BY <2>3 DEF FindHit
  <2>4. CASE FindNext(t)
    BY <2>4 DEF FindNext
  <2>5. CASE FindMiss(t)
    BY <2>5 DEF FindMiss
  <2>6. CASE LoadSeq(t)
    BY <2>6 DEF LoadSeq
  <2>7. CASE TryLock(t)
    BY <2>7 DEF TryLock
  <2>8. CASE TryFails(t)
    BY <2>8 DEF TryFails
  <2>9. CASE Backoff(t)
    BY <2>9 DEF Backoff
  <2>11. CASE WriteWord(t)
    BY <2>11 DEF WriteWord
  <2>12. CASE WriteDone(t)
    BY <2>12 DEF WriteDone
  <2>13. CASE Unlock(t)
    BY <2>13 DEF Unlock
  <2>14. CASE Abort(t)
    BY <2>14 DEF Abort
  <2>15. CASE FindEmptySlot(t)
    BY <2>15 DEF FindEmptySlot
  <2>16. CASE InsertLoad(t)
    BY <2>16 DEF InsertLoad
  <2>17. CASE InsertLock(t)
    BY <2>17 DEF InsertLock
  <2>18. CASE InsertLockFails(t)
    BY <2>18 DEF InsertLockFails
  <2>19. CASE PublishIntent(t)
    BY <2>19 DEF PublishIntent
  <2>20. CASE VerifySeq(t)
    BY <2>20 DEF VerifySeq
  <2>21. CASE VerifyKey(t)
    BY <2>21 DEF VerifyKey
  <2>22. CASE VerifySkip(t)
    BY <2>22 DEF VerifySkip
  <2>24. CASE RestoreKey(t)
    BY <2>24 DEF RestoreKey
  <2>25. CASE ReadSeq(t)
    BY <2>25 DEF ReadSeq
  <2>26. CASE ReadWord(t)
    BY <2>26 DEF ReadWord
  <2>27. CASE ReadKey(t)
    BY <2>27 DEF ReadKey
  <2>28. CASE ReadAgain(t)
    BY <2>28 DEF ReadAgain
  <2>29. CASE LookupValidated(t)
    BY <2>29 DEF LookupValidated
  <2>30. CASE EnumerateValidated(t)
    BY <2>30 DEF EnumerateValidated
  <2>31. CASE Snapshot(t)
    BY <2>31 DEF Snapshot
  <2>32. CASE ConfirmHit(t)
    BY <2>32 DEF ConfirmHit
  <2>33. CASE ConfirmMiss(t)
    BY <2>33 DEF ConfirmMiss
  <2> QED
    BY <2>1, <2>2, <2>3, <2>4, <2>5, <2>6, <2>7, <2>8, <2>9, <2>11, <2>12,
      <2>13, <2>14, <2>15, <2>16, <2>17, <2>18, <2>19, <2>20, <2>21, <2>22,
      <2>24, <2>25, <2>26, <2>27, <2>28, <2>29, <2>30, <2>31, <2>32, <2>33
      DEF Step, Run, Find, Lock, Insert, Verify, Owned, Read, Contains
<1> QED
  BY <1>3, <1>4, <1>5

(* Published slots, owned slots and captured copies are whole together; *)
(* none of the three is inductive alone.                                *)
LEMMA ContentsInvariant == Spec => []Contents
<1>1. Init => Contents
  BY DEF Init, Contents, PublishedEntriesAreWhole, Doing, Filled, Captured, Whole,
    Owning, Updating, Inserting
<1>2. Locking /\ Contents /\ [Next]_vars => Contents'
  <2> SUFFICES ASSUME Locking, Contents, [Next]_vars PROVE Contents'
    OBVIOUS
  <2>1. CASE UNCHANGED vars
    BY <2>1 DEF vars, Contents, PublishedEntriesAreWhole, Doing, Filled, Captured
  <2>2. ASSUME NEW t \in Threads, Step(t) PROVE Contents'
    <3>1. \A u \in Threads : Doing(u) /\ Filled(u) /\ Captured(u)
      BY DEF Contents
    <3>2. Doing(t)' /\ Filled(t)' /\ Captured(t)'
      BY <2>2, <3>1, DoingStep, FilledStep, CapturedStep
    <3>3. \A u \in Threads \ {t} : Doing(u)' /\ Filled(u)' /\ Captured(u)'
      BY <2>2, <3>1, ContentsOfOthers
    <3>4. PublishedEntriesAreWhole'
      BY <2>2, PublishedStep
    <3> QED
      BY <3>2, <3>3, <3>4 DEF Contents
  <2> QED
    BY <2>1, <2>2 DEF Next
<1> QED
  BY <1>1, <1>2, LockingInvariant, PTL DEF Spec

(* A slot no writer is in shows one whole entry, or none. *)
THEOREM WholeEntries == Spec => []PublishedEntriesAreWhole
BY ContentsInvariant, PTL DEF Contents

-----------------------------------------------------------------------------
(***************************************************************************)
(* What calls return.                                                       *)
(***************************************************************************)
Answer(t) ==
  /\ \/ ret[t].res \in {"Inserted", "Updated", "reported"}
     \/ ret[t].res = "true" /\ call[t].op # "Contains"
  => /\ Whole(ret[t].key, ret[t].ctx)
     /\ ret[t].res # "Inserted" => ret[t].key # NoKey
     /\ call[t].op # "Enumerate" /\ ret[t].res # "Inserted"
          => ret[t].key = call[t].key

(* A reader whose second load of the word equals the first holds the key *)
(* and payload of a published slot (um:1066-1100).                       *)
LEMMA ValidatedIsWhole ==
  ASSUME Locking, Contents, ReadersSeeOneVersion, NEW t \in Threads,
         pc[t] = "validate", seqs[reg[t].hit] = reg[t].seq
  PROVE  /\ Whole(reg[t].key, reg[t].ctx)
         /\ ~Odd(seqs[reg[t].hit]) /\ reg[t].hit \in Slots
         /\ reg[t].key = keys[reg[t].hit]
         /\ reg[t].i > NumWords => reg[t].ctx = cold[reg[t].hit]
<1>1. /\ ~Odd(reg[t].seq) /\ reg[t].hit \in Slots
      /\ reg[t].i = NumWords + 1 /\ reg[t].ctx \in Payloads
      /\ cold[reg[t].hit] \in Payloads
  BY DEF Locking, LocalSeqs, TypeOK, IndexOK, Regs, Reading
<1>2. /\ \A w \in Words : w < reg[t].i => reg[t].ctx[w] = cold[reg[t].hit][w]
      /\ reg[t].key = keys[reg[t].hit]
  BY DEF ReadersSeeOneVersion, Reading
<1>3. \A w \in Words : w < NumWords + 1
  BY IndexFacts DEF Words
<1>4. reg[t].ctx = cold[reg[t].hit]
  BY <1>1, <1>2, <1>3 DEF Payloads
<1> QED
  BY <1>1, <1>2, <1>4 DEF Contents, PublishedEntriesAreWhole

(* A step keeps the answer of its thread whole: it comes from a validated *)
(* read or from a capture under the lock.                                 *)
LEMMA AnswerStep ==
  ASSUME Locking, Locking', Contents, ReadersSeeOneVersion,
         NEW t \in Threads, Step(t), Answer(t)
  PROVE  Answer(t)'
<1>1. /\ t \in DOMAIN pc /\ t \in DOMAIN call /\ t \in DOMAIN reg /\ t \in DOMAIN ret
      /\ Doing(t) /\ Captured(t) /\ Filled(t)
      /\ pc[t] # "idle" => call[t] \in Calls
      /\ reg[t].hit \in Slots /\ seqs[reg[t].hit].bits \in {0, 1, 3}
  BY DEF Locking, TypeOK, IndexOK, Contents, Regs, Seqs
<1>2. CASE Begin(t) \/ Reject(t)
  BY <1>1, <1>2 DEF Begin, Reject, Answer, NoResult, Result
<1>3. CASE Unlock(t)
  <2>1. /\ ret'[t] = WriterResult(t) /\ call' = call
        /\ pc[t] = "unlock" /\ call[t].op \in {"Insert", "Delete"}
        /\ Whole(reg[t].key, reg[t].ctx)
        /\ seqs[reg[t].hit].bits = 1 => reg[t].key = call[t].key
        /\ call[t].op = "Delete" => seqs[reg[t].hit].bits = 1
        /\ call[t].key \in Keys
        /\ Odd(seqs[reg[t].hit])
    BY <1>1, <1>3, CallFacts DEF Unlock, Return, Doing, Captured, Owning, Locking,
      SlotOwnership
  <2>2. /\ ret'[t].key = reg[t].key /\ ret'[t].ctx = reg[t].ctx
        /\ ret'[t].res # "Inserted" => seqs[reg[t].hit].bits = 1
    BY <1>1, <2>1 DEF WriterResult, Result, Odd
  <2> QED
    BY <2>1, <2>2, NoKeyAssumption DEF Answer
<1>4. CASE LookupValidated(t)
  <2>1. pc[t] = "validate" /\ seqs[reg[t].hit] = reg[t].seq
        /\ call[t].key \in Keys /\ call' = call
    BY <1>1, <1>4, CallFacts DEF LookupValidated
  <2>2. Whole(reg[t].key, reg[t].ctx)
    BY <2>1, ValidatedIsWhole
  <2>3. CASE reg[t].key = call[t].key
    BY <1>1, <1>4, <2>1, <2>2, <2>3, NoKeyAssumption
    DEF LookupValidated, Return, Answer, Result
  <2>4. CASE reg[t].key # call[t].key
    BY <1>4, <2>1, <2>4 DEF LookupValidated, Rescan, Answer
  <2> QED
    BY <2>3, <2>4
<1>5. CASE EnumerateValidated(t)
  <2>1. pc[t] = "validate" /\ seqs[reg[t].hit] = reg[t].seq /\ call' = call
        /\ call[t].op = "Enumerate"
    BY <1>1, <1>5 DEF EnumerateValidated, Shared
  <2>2. Whole(reg[t].key, reg[t].ctx)
    BY <2>1, ValidatedIsWhole
  <2> QED
    BY <1>1, <1>5, <2>1, <2>2 DEF EnumerateValidated, Answer, Result, NoResult
<1>6. CASE FindMiss(t)
  BY <1>1, <1>6 DEF FindMiss, Return, Answer, Result
<1>7. CASE ConfirmHit(t)
  BY <1>1, <1>7 DEF ConfirmHit, Return, Answer, Result, Doing
<1>8. CASE ConfirmMiss(t)
  BY <1>1, <1>8 DEF ConfirmMiss, Return, Answer, Result
<1>9. CASE call'[t] = call[t] /\ ret'[t] = ret[t]
  BY <1>9 DEF Answer
<1>10. QED
  <2>1. ~Begin(t) /\ ~Reject(t) => call' = call
    BY DEF Step, Run, Find, Lock, Insert, Verify, Owned, Read, Contains,
      FindHit, FindNext, FindMiss, LoadSeq, TryLock, TryFails, Backoff,
      CheckKey, WriteWord, WriteDone, Unlock, Abort, FindEmptySlot, InsertLoad,
      InsertLock, InsertLockFails, PublishIntent, VerifySeq, VerifyKey,
      VerifySkip, VerifyDone, RestoreKey, ReadSeq, ReadWord, ReadKey, ReadAgain,
      LookupValidated, EnumerateValidated, Snapshot, ConfirmHit, ConfirmMiss
  <2>2. \/ Begin(t) \/ Reject(t) \/ Unlock(t) \/ LookupValidated(t)
        \/ EnumerateValidated(t) \/ FindMiss(t) \/ ConfirmHit(t)
        \/ ConfirmMiss(t) \/ ret' = ret
    BY DEF Step, Run, Find, Lock, Insert, Verify, Owned, Read, Contains,
      FindHit, FindNext, LoadSeq, TryLock, TryFails, Backoff, CheckKey,
      WriteWord, WriteDone, Abort, Rescan, FindEmptySlot, InsertLoad, InsertLock,
      InsertLockFails, PublishIntent, VerifySeq, VerifyKey, VerifySkip,
      VerifyDone, RestoreKey, ReadSeq, ReadWord, ReadKey, ReadAgain, Snapshot
  <2> QED
    BY <1>2, <1>3, <1>4, <1>5, <1>6, <1>7, <1>8, <1>9, <2>1, <2>2

(* No call ever hands out a torn payload, or one of another key. *)
THEOREM WholeAnswers == Spec => []ReturnedContextsAreWhole
<1>1. ReturnedContextsAreWhole <=> \A t \in Threads : Answer(t)
  BY DEF ReturnedContextsAreWhole, Answer
<1>2. Init => \A t \in Threads : Answer(t)
  <2>1. NoResult.res = "none"
    BY DEF NoResult, Result
  <2> QED
    BY <2>1 DEF Init, Answer
<1>3. /\ Locking /\ Locking' /\ Contents /\ ReadersSeeOneVersion
      /\ [Next]_vars /\ \A t \in Threads : Answer(t)
      => (\A t \in Threads : Answer(t))'
  <2> SUFFICES ASSUME Locking, Locking', Contents, ReadersSeeOneVersion,
                      [Next]_vars, \A t \in Threads : Answer(t)
               PROVE  \A t \in Threads : Answer(t)'
    OBVIOUS
  <2>1. CASE UNCHANGED vars
    BY <2>1 DEF vars, Answer
  <2>2. ASSUME NEW t \in Threads, Step(t) PROVE \A u \in Threads : Answer(u)'
    <3>1. Answer(t)'
      BY <2>2, AnswerStep
    <3>2. \A u \in Threads \ {t} : Answer(u)'
      BY <2>2, Frame DEF Framed, Locking, Answer
    <3> QED
      BY <3>1, <3>2
  <2> QED
    BY <2>1, <2>2 DEF Next
<1>4. Spec => [](\A t \in Threads : Answer(t))
  BY <1>2, <1>3, LockingInvariant, ContentsInvariant, OneVersionPerRead, PTL DEF Spec
<1> QED
  BY <1>1, <1>4, PTL
-----------------------------------------------------------------------------
(***************************************************************************)
(* Positive answers.  The snapshot of Contains is never ahead of memory.    *)
(***************************************************************************)
SnapOK(t) ==
  /\ pc[t] = "snap" =>
       \A s \in Slots : s < reg[t].i => reg[t].snap[s].ver <= seqs[s].ver
  /\ pc[t] \in {"find", "confirmHit"} /\ call[t].op = "Contains" =>
       \A s \in Slots : /\ ~Odd(reg[t].snap[s])
                        /\ reg[t].snap[s].ver <= seqs[s].ver
  /\ pc[t] = "confirmHit" /\ reg[t].snap[reg[t].hit] = seqs[reg[t].hit]
       => keys[reg[t].hit] = call[t].key
  /\ pc[t] # "idle" => ret[t].res \in {"none", "reported"}

(* A version never goes back, and a slot that is published under the *)
(* version it had before is the same entry.                          *)
LEMMA SlotMoves ==
  ASSUME Locking, NEW t \in Threads, Step(t), NEW s \in Slots
  PROVE  /\ seqs[s].ver \in Nat /\ seqs'[s].ver >= seqs[s].ver
         /\ seqs'[s].ver = seqs[s].ver /\ ~Odd(seqs'[s])
              => seqs'[s] = seqs[s] /\ keys'[s] = keys[s] /\ ~Odd(seqs[s])
<1>1. seqs[s] \in Seqs /\ seqs[s].ver \in Nat
  BY DEF Locking, TypeOK, Seqs
<1>2. CASE Takes(t) \/ GivesUp(t)
  BY <1>1, <1>2, WordsMove
<1>3. CASE Fills(t)
  BY <1>1, <1>3, FillsOwned
<1>4. CASE ~Takes(t) /\ ~GivesUp(t) /\ ~Fills(t)
  BY <1>1, <1>4, NothingMoves
<1> QED
  BY <1>2, <1>3, <1>4

(* The snapshot taken by Contains never gets ahead of memory, whatever the *)
(* other threads do.                                                       *)
LEMMA SnapOfOthers ==
  ASSUME Locking, Locking', NEW t \in Threads, Step(t),
         NEW u \in Threads \ {t}, Doing(u), SnapOK(u)
  PROVE  SnapOK(u)'
<1>1. /\ pc'[u] = pc[u] /\ reg'[u] = reg[u] /\ call'[u] = call[u] /\ ret'[u] = ret[u]
      /\ reg[u].hit \in Slots
      /\ \A s \in Slots : reg[u].snap[s] \in Seqs /\ reg[u].snap[s].ver \in Nat
      /\ \A s \in Slots : seqs[s].ver \in Nat /\ seqs'[s].ver \in Nat
  BY Frame DEF Framed, Locking, TypeOK, Regs, Seqs
<1>2. \A s \in Slots : reg[u].snap[s].ver <= seqs[s].ver
        => reg[u].snap[s].ver <= seqs'[s].ver
  BY <1>1, SlotMoves
<1>3. CASE pc[u] = "snap"
  BY <1>1, <1>2, <1>3 DEF SnapOK
<1>4. CASE pc[u] = "find"
  BY <1>1, <1>2, <1>4 DEF SnapOK
<1>5. CASE pc[u] = "confirmHit" /\ call[u].op = "Contains"
  <2> DEFINE h == reg[u].hit
  <2>1. /\ ~Odd(reg[u].snap[h]) /\ reg[u].snap[h].ver <= seqs[h].ver
        /\ reg[u].snap[h] = seqs[h] => keys[h] = call[u].key
    BY <1>1, <1>5 DEF SnapOK
  <2>2. reg[u].snap[h] = seqs'[h] => seqs'[h] = seqs[h] /\ keys'[h] = keys[h]
    BY <1>1, <2>1, SlotMoves
  <2> QED
    BY <1>1, <1>2, <1>5, <2>1, <2>2 DEF SnapOK
<1>6. CASE pc[u] \notin {"snap", "find", "confirmHit"}
  BY <1>1, <1>6 DEF SnapOK
<1>7. QED
  BY <1>3, <1>4, <1>5, <1>6 DEF Doing

(* The steps of Contains itself: an even snapshot word, and a key it has *)
(* compared equal, hold of the slot as long as its word does not change. *)
LEMMA SnapOfReader ==
  ASSUME Locking, Locking', Contents, NEW t \in Threads, Step(t), SnapOK(t)
  PROVE  SnapOK(t)'
<1>1. /\ t \in DOMAIN pc /\ t \in DOMAIN call /\ t \in DOMAIN reg /\ t \in DOMAIN ret
      /\ reg[t] \in Regs /\ Doing(t) /\ IndexOK(t)
      /\ seqs \in [Slots -> Seqs]
  BY DEF Locking, TypeOK, Contents
<1>2. CASE Begin(t)
  <2>1. \A s \in Slots : ~(s < 0)
    BY DEF Slots
  <2>2. reg'[t] = FreshReg /\ FreshReg.i = 0 /\ ret'[t].res = "none"
    BY <1>1, <1>2, ValueFacts DEF Begin, IndexOK, NoResult, Result
  <2>3. pc'[t] = "find" => call'[t].op # "Contains"
    BY <1>1, <1>2 DEF Begin, Goto
  <2>4. pc'[t] # "confirmHit"
    BY <1>1, <1>2 DEF Begin, Goto
  <2> QED
    BY <2>1, <2>2, <2>3, <2>4 DEF SnapOK
<1>3. CASE FindHit(t)
  <2>1. /\ UNCHANGED <<keys, seqs, call, ret>> /\ pc[t] = "find"
        /\ reg'[t].snap = reg[t].snap /\ reg'[t].hit = reg[t].i
        /\ keys[reg[t].i] = call[t].key
        /\ pc'[t] \in {"readSeq", "confirmHit", "load"}
        /\ pc'[t] = "confirmHit" => call[t].op = "Contains"
    BY <1>1, <1>3 DEF FindHit, Goto, Set, Shared, Regs
  <2> QED
    BY <2>1 DEF SnapOK
<1>4. CASE FindNext(t)
  BY <1>1, <1>4 DEF FindNext, Set, Shared, Regs, SnapOK
<1>5. CASE Snapshot(t)
  <2> DEFINE snap == [reg[t].snap EXCEPT ![reg[t].i] = seqs[reg[t].i]]
  <2>1. /\ reg[t].i \in Slots /\ \A s \in Slots : s \in Nat
        /\ reg[t].snap \in [Slots -> Seqs]
        /\ \A s \in Slots : s < reg[t].i => reg[t].snap[s].ver <= seqs[s].ver
        /\ UNCHANGED <<keys, seqs, call, ret>> /\ pc[t] = "snap"
        /\ ret[t].res \in {"none", "reported"}
    BY <1>1, <1>5, IndexFacts DEF Snapshot, Shared, IndexOK, Scanning, SnapOK, Regs
  <2>2. /\ \A s \in Slots : s < reg[t].i + 1 => snap[s].ver <= seqs[s].ver
        /\ reg[t].i = Last => \A s \in Slots : snap[s].ver <= seqs[s].ver
    <3>1. \A s \in Slots : snap[s] = IF s = reg[t].i THEN seqs[s] ELSE reg[t].snap[s]
      BY <2>1
    <3>2. \A s \in Slots : seqs[s].ver \in Nat /\ s <= Last
      BY <1>1, IndexFacts DEF Seqs, Slots, Last
    <3> QED
      BY <2>1, <3>1, <3>2
  <2>3. CASE /\ reg[t].i < Last /\ pc' = pc
             /\ reg' = [reg EXCEPT ![t] = [reg[t] EXCEPT !.snap = snap, !.i = @ + 1]]
    <3>1. reg'[t].snap = snap /\ reg'[t].i = reg[t].i + 1
      BY <1>1, <2>3 DEF Regs
    <3> QED
      BY <2>1, <2>2, <2>3, <3>1 DEF SnapOK
  <2>4. CASE /\ reg[t].i = Last /\ pc'[t] = "find"
             /\ \A s \in Slots : ~Odd(snap[s])
             /\ reg' = [reg EXCEPT ![t] = [reg[t] EXCEPT !.snap = snap, !.i = 0]]
    <3>1. reg'[t].snap = snap
      BY <1>1, <2>4 DEF Regs
    <3> QED
      BY <2>1, <2>2, <2>4, <3>1 DEF SnapOK
  <2>5. CASE pc' = pc /\ reg' = [reg EXCEPT ![t] = FreshReg]
    BY <1>1, <2>1, <2>5, ValueFacts DEF SnapOK, Slots
  <2> QED
    BY <1>1, <1>5, <2>3, <2>4, <2>5 DEF Snapshot, Goto, Set
<1>6. CASE ConfirmHit(t) \/ ConfirmMiss(t)
  <2>1. \A s \in Slots : ~(s < 0)
    BY DEF Slots
  <2>2. pc[t] \in {"confirmHit", "confirmMiss"} /\ ret[t].res \in {"none", "reported"}
    BY <1>6 DEF ConfirmHit, ConfirmMiss, SnapOK
  <2>3. \/ pc'[t] = "idle"
        \/ /\ pc'[t] = "snap" /\ reg'[t].i = 0 /\ ret' = ret
        \/ /\ pc'[t] = "confirmMiss" /\ ret' = ret
    BY <1>1, <1>6, <2>2, ValueFacts DEF ConfirmHit, ConfirmMiss, Goto, Set, Return
  <2> QED
    BY <2>1, <2>2, <2>3 DEF SnapOK
<1>7. CASE EnumerateValidated(t)
  <2>1. ret'[t].res \in {"none", "reported"} /\ pc'[t] \in {"readSeq", "idle"}
    BY <1>1, <1>7 DEF EnumerateValidated, Goto, Result, NoResult
  <2> QED
    BY <2>1 DEF SnapOK
<1>8. CASE pc'[t] = "idle"
  BY <1>8 DEF SnapOK
<1>9. CASE /\ pc'[t] \notin {"snap", "confirmHit", "idle"} /\ ret' = ret
           /\ pc'[t] = "find" => call'[t].op # "Contains"
           /\ pc[t] # "idle"
  BY <1>9 DEF SnapOK
<1> QED
  <2> USE <1>1 DEF Goto, Set, Return, Rescan, Doing, Owning, Updating, Inserting
  <2>2. CASE Reject(t)
    BY <1>8, <1>9, <2>2 DEF Reject
  <2>5. CASE FindMiss(t)
    BY <1>8, <1>9, <2>5 DEF FindMiss
  <2>6. CASE LoadSeq(t)
    BY <1>8, <1>9, <2>6 DEF LoadSeq
  <2>7. CASE TryLock(t)
    BY <1>8, <1>9, <2>7 DEF TryLock
  <2>8. CASE TryFails(t)
    BY <1>8, <1>9, <2>8 DEF TryFails
  <2>9. CASE Backoff(t)
    BY <1>8, <1>9, <2>9 DEF Backoff
  <2>10. CASE CheckKey(t)
    BY <1>8, <1>9, <2>10 DEF CheckKey
  <2>11. CASE WriteWord(t)
    BY <1>8, <1>9, <2>11 DEF WriteWord
  <2>12. CASE WriteDone(t)
    BY <1>8, <1>9, <2>12 DEF WriteDone
  <2>13. CASE Unlock(t)
    BY <1>8, <1>9, <2>13 DEF Unlock
  <2>14. CASE Abort(t)
    BY <1>8, <1>9, <2>14 DEF Abort
  <2>15. CASE FindEmptySlot(t)
    BY <1>8, <1>9, <2>15 DEF FindEmptySlot
  <2>16. CASE InsertLoad(t)
    BY <1>8, <1>9, <2>16 DEF InsertLoad
  <2>17. CASE InsertLock(t)
    BY <1>8, <1>9, <2>17 DEF InsertLock
  <2>18. CASE InsertLockFails(t)
    BY <1>8, <1>9, <2>18 DEF InsertLockFails
  <2>19. CASE PublishIntent(t)
    BY <1>8, <1>9, <2>19 DEF PublishIntent
  <2>20. CASE VerifySeq(t)
    BY <1>8, <1>9, <2>20 DEF VerifySeq
  <2>21. CASE VerifyKey(t)
    BY <1>8, <1>9, <2>21 DEF VerifyKey
  <2>22. CASE VerifySkip(t)
    BY <1>8, <1>9, <2>22 DEF VerifySkip
  <2>23. CASE VerifyDone(t)
    BY <1>8, <1>9, <2>23 DEF VerifyDone
  <2>24. CASE RestoreKey(t)
    BY <1>8, <1>9, <2>24 DEF RestoreKey
  <2>25. CASE ReadSeq(t)
    BY <1>8, <1>9, <2>25 DEF ReadSeq
  <2>26. CASE ReadWord(t)
    BY <1>8, <1>9, <2>26 DEF ReadWord
  <2>27. CASE ReadKey(t)
    BY <1>8, <1>9, <2>27 DEF ReadKey
  <2>28. CASE ReadAgain(t)
    BY <1>8, <1>9, <2>28 DEF ReadAgain
  <2>29. CASE LookupValidated(t)
    BY <1>8, <1>9, <2>29 DEF LookupValidated
  <2> QED
    BY <1>2, <1>3, <1>4, <1>5, <1>6, <1>7, <2>2, <2>5, <2>6, <2>7, <2>8,
      <2>9, <2>10, <2>11, <2>12, <2>13, <2>14, <2>15, <2>16, <2>17, <2>18,
      <2>19, <2>20, <2>21, <2>22, <2>23, <2>24, <2>25, <2>26, <2>27, <2>28,
      <2>29 DEF Step, Run, Find, Lock, Insert, Verify, Owned, Read, Contains

(* The snapshot facts are invariant for every thread. *)
LEMMA SnapInvariant == Spec => [](\A u \in Threads : SnapOK(u))
<1>1. Init => \A u \in Threads : SnapOK(u)
  BY DEF Init, SnapOK
<1>2. /\ Locking /\ Locking' /\ Contents /\ [Next]_vars
      /\ \A u \in Threads : SnapOK(u)
      => (\A u \in Threads : SnapOK(u))'
  <2> SUFFICES ASSUME Locking, Locking', Contents, [Next]_vars,
                      \A u \in Threads : SnapOK(u)
               PROVE  \A u \in Threads : SnapOK(u)'
    OBVIOUS
  <2>1. CASE UNCHANGED vars
    BY <2>1 DEF vars, SnapOK
  <2>2. ASSUME NEW t \in Threads, Step(t) PROVE \A u \in Threads : SnapOK(u)'
    BY <2>2, SnapOfReader, SnapOfOthers DEF Contents
  <2> QED
    BY <2>1, <2>2 DEF Next
<1> QED
  BY <1>1, <1>2, LockingInvariant, ContentsInvariant, PTL DEF Spec

(* A key reported as found is in the bucket at the moment of the answer. *)
THEOREM CurrentHits == Spec => HitsAreCurrent
<1> DEFINE Hit(t) == /\ call[t].op \in {"Lookup", "Contains"}
                     /\ pc[t] # "idle" /\ ret'[t].res = "true"
           Seen(t) == \E s \in Slots :
                        /\ ~Odd(seqs[s]) /\ keys[s] = call[t].key
                        /\ call[t].op = "Lookup" => cold[s] = ret'[t].ctx
<1>1. /\ Locking /\ Contents /\ ReadersSeeOneVersion
      /\ \A u \in Threads : SnapOK(u)
      /\ [Next]_vars
      => [\A t \in Threads : Hit(t) => Seen(t)]_vars
  <2> SUFFICES ASSUME Locking, Contents, ReadersSeeOneVersion,
                      \A u \in Threads : SnapOK(u),
                      NEW t \in Threads, Step(t), NEW u \in Threads, Hit(u)
               PROVE  Seen(u)
    BY DEF Next
  <2>1. ret[u].res # "true"
    BY DEF SnapOK
  <2>2. u = t
    BY <2>1, Frame DEF Framed, Locking
  <2>3. /\ t \in DOMAIN ret /\ Doing(t) /\ reg[t].hit \in Slots /\ IndexOK(t)
        /\ call[t] \in Calls
    BY <2>2 DEF Locking, TypeOK, Contents, Regs, IndexOK
  <2>4. CASE LookupValidated(t)
    <3>1. /\ pc[t] = "validate" /\ seqs[reg[t].hit] = reg[t].seq
          /\ call[t].op = "Lookup"
      BY <2>4 DEF LookupValidated
    <3>2. reg[t].key = call[t].key /\ ret'[t].ctx = reg[t].ctx
      BY <2>1, <2>2, <2>3, <2>4 DEF LookupValidated, Return, Rescan, Result
    <3>3. reg[t].i > NumWords
      BY <2>3, <3>1, IndexFacts DEF IndexOK
    <3> QED
      BY <2>2, <3>1, <3>2, <3>3, ValidatedIsWhole
  <2>5. CASE ConfirmHit(t)
    <3>1. /\ pc[t] = "confirmHit" /\ call[t].op = "Contains"
          /\ reg[t].snap[reg[t].hit] = seqs[reg[t].hit]
      BY <2>1, <2>2, <2>3, <2>5 DEF ConfirmHit, Doing
    <3>2. ~Odd(seqs[reg[t].hit]) /\ keys[reg[t].hit] = call[t].key
      BY <2>3, <3>1 DEF SnapOK
    <3> QED
      BY <2>2, <2>3, <3>1, <3>2
  <2>6. CASE Unlock(t)
    BY <2>2, <2>3, <2>6 DEF Unlock, Doing, Owning
  <2>7. CASE FindMiss(t) \/ ConfirmMiss(t) \/ EnumerateValidated(t)
    BY <2>1, <2>2, <2>3, <2>7 DEF FindMiss, ConfirmMiss, EnumerateValidated, Return,
      Result, NoResult
  <2>8. \/ LookupValidated(t) \/ ConfirmHit(t) \/ Unlock(t)
        \/ FindMiss(t) \/ ConfirmMiss(t) \/ EnumerateValidated(t) \/ ret' = ret
    BY <2>2 DEF Step, Run, Find, Lock, Insert, Verify, Owned, Read, Contains,
      Begin, Reject,
      FindHit, FindNext, LoadSeq, TryLock, TryFails, Backoff, CheckKey,
      WriteWord, WriteDone, Abort, Rescan, FindEmptySlot, InsertLoad, InsertLock,
      InsertLockFails, PublishIntent, VerifySeq, VerifyKey, VerifySkip,
      VerifyDone, RestoreKey, ReadSeq, ReadWord, ReadKey, ReadAgain, Snapshot
  <2> QED
    BY <2>1, <2>2, <2>4, <2>5, <2>6, <2>7, <2>8
<1> QED
  BY <1>1, LockingInvariant, ContentsInvariant, OneVersionPerRead, SnapInvariant, PTL
  DEF Spec, HitsAreCurrent
=============================================================================
