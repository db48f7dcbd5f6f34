-------------------------- MODULE KmCacheSetProofs --------------------------
(***************************************************************************)
(* What holds of one bucket of the kernel-mode cache for every set of       *)
(* callers, however they share processors, all keys and tags, every number  *)
(* of slots and payload words, and every bound on the sequence numbers.     *)
(***************************************************************************)
EXTENDS KmCacheSet, FiniteSetTheorems, TLAPS

(* The arithmetic of the loops over slots. *)
LEMMA IndexFacts ==
  /\ 0 \in Slots /\ Last \in Slots /\ Slots \subseteq Int /\ Slots \subseteq 0 .. NumSlots
  /\ 0 \in 0 .. NumSlots /\ None \notin Slots
  /\ \A i \in Slots : i + 1 \in 0 .. NumSlots /\ (i < Last => i + 1 \in Slots)
  /\ \A i \in 0 .. NumSlots : i \in Int /\ (i <= Last => i \in Slots)
BY NumSlotsAssumption DEF Slots, Last, None

(* A sequence word changes its parity with each one that is added. *)
LEMMA Parity ==
  \A n \in Nat : /\ n + 1 \in Nat
                 /\ Odd(n + 1) <=> ~Odd(n)
                 /\ \A m \in Nat :
                      /\ n % 2 = m % 2 => (n + 1) % 2 = (m + 1) % 2
                      /\ n % 2 = (m + 1) % 2 => (n + 1) % 2 = m % 2
BY DEF Odd

(* What a call asks for: a payload goes with its key, and Delete has none. *)
LEMMA CallFacts ==
  \A c \in Calls \cup {NoCall} :
    /\ c.key \in Keys \cup {NoKey}
    /\ c.val \in Stamps \cup {Zero}
    /\ c.val = Zero \/ (c.val \in Stamps /\ c.val[1] = c.key)
    /\ c.op = "Delete" => c.val = Zero
BY DEF Calls, NoCall, Call, Stamps

(* What the calls of readers and writers are. *)
LEMMA OpFacts ==
  \A c \in Calls : c.op \notin {"Insert", "Delete"}
                     => c.op \in {"Lookup", "Contains", "Enumerate"}
BY DEF Calls, Call

(* What the locals of a call start with, and what payloads are, is typed. *)
LEMMA ValueFacts ==
  /\ Payload(Zero) \in Payloads
  /\ FreshReg \in Regs
  /\ FreshReg.i = 0 /\ FreshReg.key = NoKey /\ FreshReg.ctx = Payload(Zero)
<1>1. Payload(Zero) \in Payloads
  BY DEF Payload, Payloads
<1>2. /\ 0 \in 0 .. NumSlots /\ None \in Slots \cup {None} /\ FALSE \in BOOLEAN
      /\ 0 \in Nat /\ NoKey \in Keys \cup {NoKey} /\ {} \in SUBSET Words
  BY IndexFacts
<1>3. FreshReg \in Regs
  BY <1>1, <1>2, Zenon DEF FreshReg, Regs
<1> QED
  BY <1>1, <1>3 DEF FreshReg
-----------------------------------------------------------------------------
(***************************************************************************)
(* A step of one caller: what it leaves alone.                              *)
(***************************************************************************)
Step(t) == Begin(t) \/ Reject(t) \/ Run(t)

Framed(t) ==
  /\ pc' = [u \in Threads |-> pc'[u]]
  /\ call' = [u \in Threads |-> call'[u]]
  /\ reg' = [u \in Threads |-> reg'[u]]
  /\ ret' = [u \in Threads |-> ret'[u]]
  /\ \A u \in Threads \ {t} : /\ pc'[u] = pc[u] /\ call'[u] = call[u]
                              /\ reg'[u] = reg[u] /\ ret'[u] = ret[u]
                              /\ u \in raised' <=> u \in raised

(* A call runs on its own locals. *)
LEMMA Frame ==
  ASSUME TypeOK, NEW t \in Threads, Step(t)
  PROVE  Framed(t)
<1>1. /\ pc = [u \in Threads |-> pc[u]] /\ call = [u \in Threads |-> call[u]]
      /\ reg = [u \in Threads |-> reg[u]] /\ ret = [u \in Threads |-> ret[u]]
  BY DEF TypeOK
<1> USE <1>1 DEF Framed, Goto, Set, Leave, Return, RaiseIrql, LowerIrql, Release,
        NextSlot, NotHere, Slot
<1>2. CASE Begin(t)
  BY <1>2 DEF Begin
<1>3. CASE Reject(t)
  BY <1>3 DEF Reject
<1>4. CASE FindHit(t)
  BY <1>4 DEF FindHit
<1>5. CASE FindNext(t)
  BY <1>5 DEF FindNext
<1>6. CASE FindMiss(t)
  BY <1>6 DEF FindMiss
<1>7. CASE LoadSeq(t)
  BY <1>7 DEF LoadSeq
<1>8. CASE TryLock(t)
  BY <1>8 DEF TryLock
<1>9. CASE TryFails(t)
  BY <1>9 DEF TryFails
<1>10. CASE CheckKey(t)
  BY <1>10 DEF CheckKey
<1>11. CASE VerifySeq(t)
  BY <1>11 DEF VerifySeq
<1>12. CASE VerifyKey(t)
  BY <1>12 DEF VerifyKey
<1>13. CASE VerifySkip(t)
  BY <1>13 DEF VerifySkip
<1>14. CASE VerifyDone(t)
  BY <1>14 DEF VerifyDone
<1>15. CASE WriteKey(t)
  BY <1>15 DEF WriteKey
<1>16. CASE WriteWord(t)
  BY <1>16 DEF WriteWord
<1>17. CASE Unlock(t)
  BY <1>17 DEF Unlock
<1>18. CASE Abort(t)
  BY <1>18 DEF Abort
<1>19. CASE ReadSeq(t)
  BY <1>19 DEF ReadSeq
<1>20. CASE ReadKey(t)
  BY <1>20 DEF ReadKey
<1>21. CASE ReadWord(t)
  BY <1>21 DEF ReadWord
<1>22. CASE ReadAgain(t)
  BY <1>22 DEF ReadAgain
<1>23. CASE LookupValidated(t)
  BY <1>23 DEF LookupValidated
<1>24. CASE ContainsValidated(t)
  BY <1>24 DEF ContainsValidated
<1>25. CASE EnumerateValidated(t)
  BY <1>25 DEF EnumerateValidated
<1> QED
  BY <1>2, <1>3, <1>4, <1>5, <1>6, <1>7, <1>8, <1>9, <1>10, <1>11, <1>12, <1>13,
     <1>14, <1>15, <1>16, <1>17, <1>18, <1>19, <1>20, <1>21, <1>22, <1>23, <1>24,
     <1>25
  DEF Step, Run, Find, Owned, Read
-----------------------------------------------------------------------------
(***************************************************************************)
(* Types, and what a caller's place in its operation says of its locals.    *)
(***************************************************************************)
Rets == [res : Results, key : Keys \cup {NoKey}, ctx : Payloads]

ThreadOK(t) ==
  /\ pc[t] \in Labels
  /\ call[t] \in Calls \cup {NoCall}
  /\ reg[t] \in Regs
  /\ ret[t] \in Rets
  /\ pc[t] \in {"find", "verifyKey", "readSeq", "readKey", "readWords"}
       => reg[t].i \in Slots
  /\ pc[t] \in Owning \cup {"load", "try"} => reg[t].hit \in Slots

BucketOK ==
  /\ keys \in [Slots -> Keys \cup {NoKey}]
  /\ seqs \in [Slots -> Nat]
  /\ cold \in [Slots -> Payloads]
  /\ raised \in SUBSET Threads

Finding == {"find", "load", "try"}
Reading == {"readSeq", "readKey", "readWords"}

(* A writer's place: Delete locks only slots it has found the key in, the   *)
(* duplicate check is CheckAndInsert's, and whoever owns a slot runs at     *)
(* DISPATCH_LEVEL.                                                          *)
Shape(t) ==
  /\ pc[t] = "idle" => reg[t] = FreshReg
  /\ pc[t] \in Finding \cup Owning => call[t].op \in {"Insert", "Delete"}
  /\ pc[t] \in Reading => call[t].op \in {"Lookup", "Contains", "Enumerate"}
  /\ pc[t] \in {"load", "try"} /\ call[t].op = "Delete" => reg[t].exists
  /\ pc[t] \in {"verifySeq", "verifyKey", "writeKey"} => call[t].op = "Insert"
  /\ pc[t] \in Owning => t \in raised

Placed == TypeOK /\ \A t \in Threads : Shape(t)

(* The locals a slot's read starts with. *)
LEMMA ReadFresh ==
  \A i \in Slots : \A r : r = [FreshReg EXCEPT !.i = i] =>
    r \in Regs /\ r.i = i /\ r.key = NoKey /\ r.ctx = Payload(Zero)
<1>1. FreshReg \in Regs /\ FreshReg.key = NoKey /\ FreshReg.ctx = Payload(Zero)
  BY ValueFacts
<1>2. \A i \in Slots : i \in 0 .. NumSlots
  BY IndexFacts
<1> QED
  BY <1>1, <1>2 DEF Regs

(* What calls return is typed. *)
LEMMA ResultTypes ==
  /\ NoResult \in Rets
  /\ \A res \in Results, k \in Keys \cup {NoKey}, c \in Payloads : Result(res, k, c) \in Rets
  /\ \A res \in Results : Result(res, NoKey, Payload(Zero)) \in Rets
BY ValueFacts DEF NoResult, Result, Rets, Results

(* A step leaves its own caller well placed. *)
LEMMA Places ==
  ASSUME Placed, NEW t \in Threads, Step(t)
  PROVE  ThreadOK(t)' /\ Shape(t)'
<1>1. /\ BucketOK /\ ThreadOK(t) /\ Shape(t) /\ t \in DOMAIN pc /\ t \in DOMAIN call
      /\ t \in DOMAIN reg /\ t \in DOMAIN ret
  BY DEF Placed, TypeOK, BucketOK, ThreadOK, Rets
<1>2. call[t].key \in Keys \cup {NoKey}
  BY <1>1, CallFacts DEF ThreadOK
<1> USE <1>1, IndexFacts DEF ThreadOK, Shape, BucketOK, Labels, Owning, Finding,
        Reading, Goto, Set, Leave, Return, RaiseIrql, LowerIrql, Release, Slot
<1>3. CASE pc'[t] = "idle" /\ reg'[t] = FreshReg /\ call'[t] \in Calls \cup {NoCall}
           /\ ret'[t] \in Rets
  BY <1>3, ValueFacts
<1>4. CASE Begin(t)
  BY <1>4, ValueFacts, ResultTypes, OpFacts DEF Begin
<1>5. CASE Reject(t)
  BY <1>5, ResultTypes DEF Reject, Results
<1>6. CASE FindHit(t)
  <2>1. CASE call[t].op = "Insert" /\ call[t].policy = "Keep"
    BY <1>3, <1>6, <2>1, ResultTypes DEF FindHit, Results
  <2>2. CASE ~(call[t].op = "Insert" /\ call[t].policy = "Keep")
    <3>1. /\ reg'[t] = [reg[t] EXCEPT !.hit = reg[t].i, !.exists = TRUE]
          /\ pc[t] = "find" /\ pc'[t] = "load" /\ UNCHANGED <<call, ret, raised>>
      BY <1>6, <2>2 DEF FindHit
    <3>2. reg'[t] \in Regs /\ reg'[t].hit \in Slots /\ reg'[t].exists
      BY <3>1 DEF Regs
    <3> QED
      BY <3>1, <3>2
  <2> QED
    BY <2>1, <2>2
<1>7. CASE FindNext(t)
  BY <1>7 DEF FindNext, Regs, Passing
<1>8. CASE FindMiss(t)
  BY <1>3, <1>8, ResultTypes DEF FindMiss, Regs, Results, Passing
<1>9. CASE LoadSeq(t)
  BY <1>9 DEF LoadSeq, Regs
<1>10. CASE TryLock(t)
  BY <1>10 DEF TryLock, MayTry, Regs
<1>11. CASE TryFails(t)
  BY <1>11, ValueFacts DEF TryFails, MayTry
<1>12. CASE CheckKey(t)
  <2>1. /\ pc[t] = "check" /\ UNCHANGED <<seqs, cold, raised, call, ret>>
        /\ pc'[t] \in {"abort", "writeKey", "unlock", "write"}
        /\ pc'[t] = "writeKey" => call[t].op = "Insert"
    BY <1>12 DEF CheckKey
  <2>2. reg[t].hit \in Slots /\ cold[reg[t].hit] \in Payloads
    BY <2>1
  <2>3. reg'[t] \in Regs /\ reg'[t].hit = reg[t].hit
    <3>1. CASE UNCHANGED reg
      BY <3>1
    <3>2. CASE reg'[t] = [reg[t] EXCEPT !.key = call[t].key, !.ctx = cold[reg[t].hit]]
      BY <1>2, <2>2, <3>2 DEF Regs
    <3>3. CASE reg'[t] = [reg[t] EXCEPT !.key = call[t].key, !.ctx = cold[reg[t].hit],
                                        !.todo = Words]
      BY <1>2, <2>2, <3>3 DEF Regs
    <3> QED
      BY <1>12, <3>1, <3>2, <3>3 DEF CheckKey
  <2> QED
    BY <2>1, <2>2, <2>3
<1>13. CASE VerifySeq(t)
  BY <1>13 DEF VerifySeq, Regs
<1>14. CASE VerifyKey(t)
  BY <1>14 DEF VerifyKey, Regs
<1>15. CASE VerifySkip(t)
  BY <1>15 DEF VerifySkip, Regs
<1>16. CASE VerifyDone(t)
  BY <1>16 DEF VerifyDone, Regs
<1>17. CASE WriteKey(t)
  BY <1>17 DEF WriteKey, Regs
<1>18. CASE WriteWord(t)
  BY <1>18 DEF WriteWord, Regs
<1>19. CASE Unlock(t)
  BY <1>3, <1>19, ResultTypes DEF Unlock, Regs, Results
<1>20. CASE Abort(t)
  BY <1>3, <1>20, ResultTypes, ValueFacts DEF Abort, Results
<1>21. CASE ReadSeq(t)
  BY <1>21 DEF ReadSeq, Regs
<1>22. ASSUME NEW r \in Rets, NEW atEnd \in Rets, NextSlot(t, r, atEnd), reg[t].i \in Slots,
              pc[t] \in Reading
       PROVE  ThreadOK(t)' /\ Shape(t)'
  <2>1. ret'[t] \in Rets
    BY <1>22 DEF NextSlot
  <2>2. CASE reg[t].i < Last
    <3>1. reg[t].i + 1 \in Slots
      BY <1>22, <2>2
    <3>2. /\ reg'[t] = [FreshReg EXCEPT !.i = reg[t].i + 1]
          /\ pc'[t] = "readSeq" /\ UNCHANGED call
      BY <1>22, <2>2 DEF NextSlot
    <3>3. reg'[t] \in Regs /\ reg'[t].i \in Slots
      BY <3>1, <3>2, ReadFresh
    <3> QED
      BY <1>22, <2>1, <3>2, <3>3
  <2>3. CASE ~(reg[t].i < Last)
    BY <1>3, <1>22, <2>1, <2>3 DEF NextSlot
  <2> QED
    BY <2>2, <2>3
<1>23. NotHere(t) /\ reg[t].i \in Slots /\ pc[t] \in Reading => ThreadOK(t)' /\ Shape(t)'
  BY <1>22, ResultTypes DEF NotHere, Results
<1>24. CASE ReadKey(t)
  <2>1. CASE NotHere(t)
    BY <1>23, <1>24, <2>1 DEF ReadKey
  <2>2. CASE ~NotHere(t)
    <3>1. /\ reg'[t] = [reg[t] EXCEPT !.key = keys[reg[t].i],
                           !.todo = IF call[t].op = "Contains" THEN {} ELSE Words]
          /\ pc[t] = "readKey" /\ pc'[t] = "readWords"
          /\ UNCHANGED <<call, ret, raised>>
      BY <1>24, <2>2 DEF ReadKey
    <3>2. /\ keys[reg[t].i] \in Keys \cup {NoKey}
          /\ (IF call[t].op = "Contains" THEN {} ELSE Words) \in SUBSET Words
      BY <3>1
    <3>3. reg'[t] \in Regs /\ reg'[t].i = reg[t].i
      BY <3>1, <3>2 DEF Regs
    <3> QED
      BY <3>1, <3>3
  <2> QED
    BY <2>1, <2>2
<1>25. CASE ReadWord(t)
  <2>1. PICK w \in reg[t].todo :
          reg'[t] = [reg[t] EXCEPT !.ctx[w] = cold[reg[t].i][w], !.todo = @ \ {w}]
    BY <1>25 DEF ReadWord
  <2>2. w \in Words /\ reg[t].i \in Slots
    BY <1>25 DEF ReadWord, Regs
  <2>3. [reg[t].ctx EXCEPT ![w] = cold[reg[t].i][w]] \in Payloads
    BY <2>2 DEF Regs, Payloads
  <2>4. reg'[t] \in Regs /\ reg'[t].i = reg[t].i
    BY <2>1, <2>3 DEF Regs
  <2> QED
    BY <1>25, <2>2, <2>4 DEF ReadWord
<1>26. CASE ReadAgain(t)
  BY <1>26, ReadFresh DEF ReadAgain, Validating
<1>27. CASE LookupValidated(t)
  <2>1. CASE IsEmpty(reg[t].ctx)
    BY <1>23, <1>27, <2>1 DEF LookupValidated, Validating
  <2>2. CASE ~IsEmpty(reg[t].ctx)
    <3>1. Result("true", reg[t].key, reg[t].ctx) \in Rets
      BY ResultTypes DEF Regs, Results
    <3> QED
      BY <1>3, <1>27, <2>2, <3>1 DEF LookupValidated, Validating
  <2> QED
    BY <2>1, <2>2
<1>28. CASE ContainsValidated(t)
  BY <1>3, <1>28, ResultTypes, ValueFacts DEF ContainsValidated, Validating, Regs, Results
<1>29. CASE EnumerateValidated(t)
  BY <1>22, <1>29, ResultTypes DEF EnumerateValidated, Validating, Regs, Results
<1> QED
  BY <1>4, <1>5, <1>6, <1>7, <1>8, <1>9, <1>10, <1>11, <1>12, <1>13, <1>14, <1>15,
     <1>16, <1>17, <1>18, <1>19, <1>20, <1>21, <1>24, <1>25, <1>26, <1>27, <1>28, <1>29
  DEF Step, Run, Find, Owned, Read

(* A step leaves the bucket well typed. *)
LEMMA BucketTyping ==
  ASSUME Placed, NEW t \in Threads, Step(t)
  PROVE  BucketOK'
<1>1. BucketOK /\ ThreadOK(t)
  BY DEF Placed, TypeOK, BucketOK, ThreadOK, Rets
<1>2. call[t].key \in Keys \cup {NoKey} /\ call[t].val \in Stamps \cup {Zero}
  BY <1>1, CallFacts DEF ThreadOK
<1> USE <1>1 DEF BucketOK, ThreadOK, Owning, RaiseIrql, LowerIrql, Release, Slot
<1>3. CASE UNCHANGED <<Slot, raised>>
  BY <1>3
<1>4. CASE TryLock(t)
  BY <1>4 DEF TryLock, MayTry, Regs
<1>5. CASE TryFails(t)
  BY <1>5 DEF TryFails
<1>6. CASE CheckKey(t)
  BY <1>6 DEF CheckKey
<1>7. CASE WriteKey(t)
  BY <1>2, <1>7 DEF WriteKey
<1>8. CASE WriteWord(t)
  <2>1. PICK w \in reg[t].todo : cold' = [cold EXCEPT ![reg[t].hit][w] = call[t].val]
    BY <1>8 DEF WriteWord
  <2>2. w \in Words /\ reg[t].hit \in Slots
    BY <1>8 DEF WriteWord, Regs
  <2>3. [cold[reg[t].hit] EXCEPT ![w] = call[t].val] \in Payloads
    BY <1>2, <2>2 DEF Payloads
  <2> QED
    BY <1>8, <2>1, <2>2, <2>3 DEF WriteWord
<1>9. CASE Unlock(t)
  BY <1>9 DEF Unlock
<1>10. CASE Abort(t)
  BY <1>10 DEF Abort
<1>11. ASSUME Begin(t) \/ Reject(t) \/ FindHit(t) \/ FindNext(t) \/ FindMiss(t)
                \/ LoadSeq(t) \/ VerifySeq(t) \/ VerifyKey(t) \/ VerifySkip(t)
                \/ VerifyDone(t) \/ Read(t)
       PROVE  UNCHANGED <<Slot, raised>>
  BY <1>11 DEF Begin, Reject, FindHit, FindNext, FindMiss, LoadSeq, VerifySeq,
     VerifyKey, VerifySkip, VerifyDone, Read, ReadSeq, ReadKey, ReadWord, ReadAgain,
     LookupValidated, ContainsValidated, EnumerateValidated
<1> QED
  BY <1>3, <1>4, <1>5, <1>6, <1>7, <1>8, <1>9, <1>10, <1>11
  DEF Step, Run, Find, Owned

(* Placed is inductive. *)
LEMMA PlacedInvariant ==
  /\ Init => Placed
  /\ Placed /\ [Next]_vars => Placed'
<1>1. ASSUME Init PROVE Placed
  <2>1. NoResult \in Rets /\ NoCall \in Calls \cup {NoCall}
    BY ResultTypes
  <2> QED
    BY <1>1, <2>1, ValueFacts DEF Init, Placed, TypeOK, Rets, Shape, Labels, Owning,
       Finding, Reading
<1>2. ASSUME Placed, NEW t \in Threads, Step(t) PROVE Placed'
  <2>1. BucketOK' /\ ThreadOK(t)' /\ Shape(t)'
    BY <1>2, Places, BucketTyping
  <2>2. Framed(t)
    BY <1>2, Frame DEF Placed
  <2>3. ASSUME NEW u \in Threads, u # t PROVE ThreadOK(u)' /\ Shape(u)'
    <3>1. ThreadOK(u) /\ Shape(u)
      BY <1>2 DEF Placed, TypeOK, ThreadOK, Rets
    <3> QED
      BY <2>2, <2>3, <3>1 DEF Framed, ThreadOK, Shape
  <2>4. \A u \in Threads : ThreadOK(u)' /\ Shape(u)'
    BY <2>1, <2>3
  <2> QED
    BY <2>1, <2>2, <2>4 DEF Framed, Placed, TypeOK, BucketOK, ThreadOK, Rets
<1>3. ASSUME Placed, UNCHANGED vars PROVE Placed'
  BY <1>3 DEF vars, Placed, TypeOK, Shape
<1> QED
  BY <1>1, <1>2, <1>3 DEF Next, Step

(* Every variable of the bucket and every local of the calls on it keeps    *)
(* its type: the scans of CheckAndInsert, Delete and the readers stay in    *)
(* the bucket.                                                              *)
THEOREM KmTyping == Spec => []TypeOK
<1>1. Placed => TypeOK
  BY DEF Placed
<1> QED
  BY <1>1, PlacedInvariant, PTL DEF Spec
-----------------------------------------------------------------------------
(***************************************************************************)
(* Locks: every step takes one, gives one up, or does neither.              *)
(***************************************************************************)
Takes(t) ==
  /\ pc[t] = "try" /\ pc'[t] \in Owning
  /\ reg[t].hit \in Slots /\ reg'[t].hit = reg[t].hit
  /\ seqs[reg[t].hit] = reg[t].seq
  /\ call[t].op = "Delete" => ~Odd(reg[t].seq)
  /\ seqs' = [seqs EXCEPT ![reg[t].hit] = @ + 1]

GivesUp(t) ==
  /\ pc[t] \in Owning /\ pc'[t] \notin Owning
  /\ seqs' = [seqs EXCEPT ![reg[t].hit] = @ + 1]

Keeps(t) ==
  /\ pc[t] \in Owning <=> pc'[t] \in Owning
  /\ pc[t] \in Owning => reg'[t].hit = reg[t].hit
  /\ seqs' = seqs

(* What the steps of an operation do to locks. *)
LEMMA Phases ==
  ASSUME Placed, NEW t \in Threads, Step(t)
  PROVE  Takes(t) \/ GivesUp(t) \/ Keeps(t)
<1>1. /\ reg[t] \in Regs /\ t \in DOMAIN pc /\ t \in DOMAIN reg
      /\ pc[t] \in Owning \cup {"load", "try"} => reg[t].hit \in Slots
  BY DEF Placed, TypeOK
<1> USE <1>1 DEF Owning, Goto, Set, Leave, Return, Release, Slot, Takes, GivesUp, Keeps
<1>2. CASE Begin(t) \/ Reject(t)
  BY <1>2 DEF Begin, Reject
<1>3. CASE FindHit(t) \/ FindNext(t) \/ FindMiss(t) \/ LoadSeq(t)
  BY <1>3 DEF FindHit, FindNext, FindMiss, LoadSeq
<1>4. CASE TryLock(t)
  <2>1. reg'[t].hit = reg[t].hit
    BY <1>4 DEF TryLock, Regs
  <2> QED
    BY <1>4, <2>1 DEF TryLock, MayTry
<1>5. CASE TryFails(t)
  BY <1>5 DEF TryFails, MayTry
<1>6. CASE CheckKey(t)
  <2>1. reg'[t].hit = reg[t].hit
    <3>1. CASE UNCHANGED reg
      BY <3>1
    <3>2. CASE reg'[t] = [reg[t] EXCEPT !.key = call[t].key, !.ctx = cold[reg[t].hit]]
      BY <3>2 DEF Regs
    <3>3. CASE reg'[t] = [reg[t] EXCEPT !.key = call[t].key, !.ctx = cold[reg[t].hit],
                                        !.todo = Words]
      BY <3>3 DEF Regs
    <3> QED
      BY <1>6, <3>1, <3>2, <3>3 DEF CheckKey
  <2>2. pc[t] = "check" /\ pc'[t] \in {"abort", "writeKey", "unlock", "write"}
        /\ UNCHANGED seqs
    BY <1>6 DEF CheckKey
  <2> QED
    BY <2>1, <2>2
<1>7. CASE VerifySeq(t)
  BY <1>7 DEF VerifySeq
<1>8. CASE VerifyKey(t)
  BY <1>8 DEF VerifyKey, Regs
<1>9. CASE VerifySkip(t)
  BY <1>9 DEF VerifySkip, Regs
<1>10. CASE VerifyDone(t)
  BY <1>10 DEF VerifyDone, Regs
<1>11. CASE WriteKey(t)
  BY <1>11 DEF WriteKey, Regs
<1>12. CASE WriteWord(t)
  BY <1>12 DEF WriteWord, Regs
<1>13. CASE Unlock(t)
  BY <1>13 DEF Unlock
<1>14. CASE Abort(t)
  BY <1>14 DEF Abort
<1>15. CASE Read(t)
  BY <1>15 DEF Read, ReadSeq, ReadKey, ReadWord, ReadAgain, LookupValidated,
     ContainsValidated, EnumerateValidated, Validating, NotHere, NextSlot
<1> QED
  BY <1>2, <1>3, <1>4, <1>5, <1>6, <1>7, <1>8, <1>9, <1>10, <1>11, <1>12, <1>13,
     <1>14, <1>15
  DEF Step, Run, Find, Owned

-----------------------------------------------------------------------------
(***************************************************************************)
(* The parity of the words.                                                 *)
(***************************************************************************)
Owners(s) == {t \in Threads : Owns(t, s)}

(* A caller that comes or goes changes the number of owners by one. *)
LEMMA OwnersCount ==
  ASSUME NEW S \in SUBSET Threads, NEW t \in Threads, t \notin S
  PROVE  /\ Cardinality(S) \in Nat
         /\ Cardinality(S \cup {t}) = Cardinality(S) + 1
<1>1. IsFiniteSet(S)
  BY ThreadsAssumption, FS_Subset
<1> QED
  BY <1>1, FS_CardinalityType, FS_AddElement

(* The owners of a slot after a step, by what the step does to locks. *)
LEMMA OwnersMove ==
  ASSUME Placed, NEW t \in Threads, Step(t), NEW s \in Slots
  PROVE  /\ Takes(t) => Owners(s)' = IF s = reg[t].hit THEN Owners(s) \cup {t} ELSE Owners(s)
         /\ GivesUp(t) => Owners(s)' = IF s = reg[t].hit THEN Owners(s) \ {t} ELSE Owners(s)
         /\ Keeps(t) => Owners(s)' = Owners(s)
<1>1. \A u \in Threads \ {t} : Owns(u, s)' <=> Owns(u, s)
  BY Frame DEF Placed, Framed, Owns
<1>2. /\ Takes(t) => ~Owns(t, s) /\ (Owns(t, s)' <=> s = reg[t].hit)
      /\ GivesUp(t) => ~Owns(t, s)' /\ (Owns(t, s) <=> s = reg[t].hit)
      /\ Keeps(t) => (Owns(t, s)' <=> Owns(t, s))
  BY DEF Takes, GivesUp, Keeps, Owns, Owning
<1> QED
  BY <1>1, <1>2 DEF Owners

Counting == Placed /\ WordCountsOwners

(* Counting is inductive. *)
LEMMA CountingInvariant ==
  /\ Init => Counting
  /\ Counting /\ [Next]_vars => Counting'
<1> USE DEF Counting
<1>1. ASSUME Init PROVE WordCountsOwners
  <2> SUFFICES ASSUME NEW s \in Slots
               PROVE  seqs[s] % 2 = Cardinality(Owners(s)) % 2
    BY DEF WordCountsOwners, Owners
  <2>1. Owners(s) = {} /\ seqs[s] = 0
    BY <1>1 DEF Init, Owners, Owns, Owning
  <2> QED
    BY <2>1, FS_EmptySet
<1>2. ASSUME Counting, NEW t \in Threads, Step(t) PROVE WordCountsOwners'
  <2> SUFFICES ASSUME NEW s \in Slots
               PROVE  seqs'[s] % 2 = Cardinality(Owners(s)') % 2
    BY DEF WordCountsOwners, Owners
  <2>1. /\ seqs[s] % 2 = Cardinality(Owners(s)) % 2
        /\ seqs \in [Slots -> Nat]
    BY <1>2 DEF WordCountsOwners, Owners, Placed, TypeOK
  <2>2. CASE seqs'[s] = seqs[s] /\ Owners(s)' = Owners(s)
    BY <2>1, <2>2
  <2>3. ASSUME NEW S \in SUBSET Threads, t \notin S, seqs'[s] = seqs[s] + 1,
               \/ Owners(s) = S /\ Owners(s)' = S \cup {t}
               \/ Owners(s) = S \cup {t} /\ Owners(s)' = S
        PROVE  seqs'[s] % 2 = Cardinality(Owners(s)') % 2
    <3>1. Cardinality(S) \in Nat /\ Cardinality(S \cup {t}) = Cardinality(S) + 1
      BY <2>3, OwnersCount
    <3>2. seqs[s] \in Nat
      BY <2>1
    <3>3. CASE Owners(s) = S /\ Owners(s)' = S \cup {t}
      <4>1. (seqs[s] + 1) % 2 = (Cardinality(S) + 1) % 2
        BY <2>1, <3>1, <3>2, <3>3, Parity
      <4> QED
        BY <2>3, <3>1, <3>3, <4>1
    <3>4. CASE Owners(s) = S \cup {t} /\ Owners(s)' = S
      <4>1. (seqs[s] + 1) % 2 = Cardinality(S) % 2
        BY <2>1, <3>1, <3>2, <3>4, Parity
      <4> QED
        BY <2>3, <3>4, <4>1
    <3> QED
      BY <2>3, <3>3, <3>4
  <2>4. CASE Takes(t)
    <3>1. CASE s = reg[t].hit
      <4>1. t \notin Owners(s) /\ Owners(s) \in SUBSET Threads
        BY <2>4 DEF Takes, Owners, Owns, Owning
      <4>2. seqs'[s] = seqs[s] + 1 /\ Owners(s)' = Owners(s) \cup {t}
        BY <1>2, <2>1, <2>4, <3>1, OwnersMove DEF Takes
      <4> QED
        BY <2>3, <4>1, <4>2
    <3>2. CASE s # reg[t].hit
      BY <1>2, <2>1, <2>2, <2>4, <3>2, OwnersMove DEF Takes
    <3> QED
      BY <3>1, <3>2
  <2>5. CASE GivesUp(t)
    <3>1. CASE s = reg[t].hit
      <4>1. t \in Owners(s) /\ Owners(s) \in SUBSET Threads
        BY <2>5, <3>1 DEF GivesUp, Owners, Owns
      <4>2. seqs'[s] = seqs[s] + 1 /\ Owners(s)' = Owners(s) \ {t}
        BY <1>2, <2>1, <2>5, <3>1, OwnersMove DEF GivesUp
      <4>3. Owners(s) = (Owners(s) \ {t}) \cup {t} /\ Owners(s) \ {t} \in SUBSET Threads
        BY <4>1
      <4> QED
        BY <2>3, <4>2, <4>3
    <3>2. CASE s # reg[t].hit
      BY <1>2, <2>1, <2>2, <2>5, <3>2, OwnersMove DEF GivesUp
    <3> QED
      BY <3>1, <3>2
  <2>6. CASE Keeps(t)
    BY <1>2, <2>2, <2>6, OwnersMove DEF Keeps
  <2> QED
    BY <1>2, <2>4, <2>5, <2>6, Phases
<1>3. ASSUME Counting, UNCHANGED vars PROVE WordCountsOwners'
  BY <1>3 DEF vars, WordCountsOwners, Owns
<1> QED
  BY <1>1, <1>2, <1>3, PlacedInvariant DEF Next, Step

(* However many writers were let in, and whichever way each of them leaves, *)
(* the word of a slot is even when the last is gone.                        *)
THEOREM KmParity == Spec => []WordCountsOwners
BY CountingInvariant, PTL DEF Spec, Counting
-----------------------------------------------------------------------------
(***************************************************************************)
(* DPCs.                                                                    *)
(***************************************************************************)
Preempting == Placed /\ PreemptedOwnsNothing

(* Preempting is inductive. *)
LEMMA PreemptingInvariant ==
  /\ Init => Preempting
  /\ Preempting /\ [Next]_vars => Preempting'
<1> USE DEF Preempting
<1>1. ASSUME Init PROVE PreemptedOwnsNothing
  BY <1>1, DpcsAssumption DEF Init, PreemptedOwnsNothing
<1>2. ASSUME Preempting, NEW t \in Threads, Step(t) PROVE PreemptedOwnsNothing'
  <2> SUFFICES ASSUME NEW d \in Dpcs, pc'[d] # "idle", NEW u \in SameCore(d)
               PROVE  pc'[u] \notin Owning
    BY DEF PreemptedOwnsNothing, SameCore
  <2>1. d \in Threads /\ u \in Threads /\ u # d /\ d \in SameCore(u)
    BY DpcsAssumption DEF SameCore
  <2>2. \A v \in Threads \ {t} : pc'[v] = pc[v]
    BY <1>2, Frame DEF Placed, Framed
  <2>3. pc[d] # "idle" => pc[u] \notin Owning
    BY <1>2 DEF PreemptedOwnsNothing
  <2>4. MayRun(t)
    BY <1>2 DEF Step, Begin, Reject, MayBegin, Run
  <2>5. CASE u = t
    BY <2>1, <2>2, <2>4, <2>5 DEF MayRun
  <2>6. CASE u # t /\ d # t
    BY <2>1, <2>2, <2>3, <2>6
  <2>7. CASE d = t /\ pc[d] # "idle"
    BY <2>1, <2>2, <2>3, <2>7
  <2>8. CASE d = t /\ pc[d] = "idle"
    <3>1. Begin(t) \/ Reject(t)
      BY <1>2, <2>8 DEF Step, Run, Find, Owned, Read, FindHit, FindNext, FindMiss,
         LoadSeq, TryLock, TryFails, MayTry, CheckKey, VerifySeq, VerifyKey, VerifySkip,
         VerifyDone, WriteKey, WriteWord, Unlock, Abort, ReadSeq, ReadKey, ReadWord,
         ReadAgain, LookupValidated, ContainsValidated, EnumerateValidated, Validating
    <3>2. u \notin raised
      BY <2>8, <3>1 DEF Begin, Reject, MayBegin
    <3> QED
      BY <1>2, <2>1, <2>2, <2>8, <3>2 DEF Placed, Shape
  <2> QED
    BY <2>5, <2>6, <2>7, <2>8
<1>3. ASSUME Preempting, UNCHANGED vars PROVE PreemptedOwnsNothing'
  BY <1>3 DEF vars, PreemptedOwnsNothing, SameCore
<1> QED
  BY <1>1, <1>2, <1>3, PlacedInvariant DEF Next, Step

(* A DPC that runs does so over no owner of a slot: KeRaiseIrql comes       *)
(* before every lock and KeLowerIrql after, on each path.                   *)
THEOREM KmPreemption == Spec => []PreemptedOwnsNothing
BY PreemptingInvariant, PTL DEF Spec, Preempting
-----------------------------------------------------------------------------
(***************************************************************************)
(* The lock, when no other writer runs beside a CheckAndInsert.             *)
(***************************************************************************)
Locking == Placed /\ InsertsAlone /\ SlotOwnership

(* The word a writer takes is even: Delete has looked, and CheckAndInsert   *)
(* is alone.                                                                *)
LEMMA TakesFree ==
  ASSUME Locking, NEW t \in Threads, Takes(t)
  PROVE  ~Odd(seqs[reg[t].hit])
<1>1. call[t].op \in {"Insert", "Delete"} /\ Writing(t)
  BY DEF Locking, Placed, Shape, Takes, Finding, Writing
<1>2. CASE call[t].op = "Delete"
  BY <1>2 DEF Takes
<1>3. CASE call[t].op = "Insert"
  <2>1. ASSUME NEW u \in Threads PROVE ~Owns(u, reg[t].hit)
    <3>1. CASE u = t
      BY <3>1 DEF Takes, Owns, Owning
    <3>2. CASE u # t
      <4>1. ~Writing(u)
        BY <1>1, <1>3, <3>2 DEF Locking, InsertsAlone
      <4> QED
        BY <4>1 DEF Locking, Placed, Shape, Writing, Owns, Owning
    <3> QED
      BY <3>1, <3>2
  <2>2. reg[t].hit \in Slots
    BY DEF Takes
  <2> QED
    BY <2>1, <2>2 DEF Locking, SlotOwnership
<1> QED
  BY <1>1, <1>2, <1>3

(* Locking is inductive while inserts are alone. *)
LEMMA LockingInvariant ==
  /\ Init => Locking
  /\ Locking /\ [Next /\ InsertsAlone']_vars => Locking'
<1>1. ASSUME Init PROVE InsertsAlone /\ SlotOwnership
  BY <1>1 DEF Init, InsertsAlone, Writing, SlotOwnership, Owns, Owning, Odd
<1>2. ASSUME Locking, NEW t \in Threads, Step(t) PROVE SlotOwnership'
  <2> SUFFICES ASSUME NEW s \in Slots
               PROVE  /\ Odd(seqs'[s]) <=> \E u \in Threads : Owns(u, s)'
                      /\ \A u, v \in Threads : Owns(u, s)' /\ Owns(v, s)' => u = v
    BY DEF SlotOwnership
  <2>1. /\ Odd(seqs[s]) <=> \E u \in Threads : Owns(u, s)
        /\ \A u, v \in Threads : Owns(u, s) /\ Owns(v, s) => u = v
        /\ seqs \in [Slots -> Nat] /\ seqs[s] \in Nat
    BY <1>2 DEF Locking, SlotOwnership, Placed, TypeOK
  <2>2. \A u \in Threads \ {t} : Owns(u, s)' <=> Owns(u, s)
    BY <1>2, Frame DEF Locking, Placed, Framed, Owns
  <2>3. CASE Takes(t)
    <3>1. Owns(t, s)' <=> s = reg[t].hit
      BY <2>3 DEF Takes, Owns
    <3>2. CASE s = reg[t].hit
      <4>1. ~Odd(seqs[s]) /\ seqs'[s] = seqs[s] + 1
        BY <1>2, <2>1, <2>3, <3>2, TakesFree DEF Takes
      <4>2. Odd(seqs'[s])
        BY <2>1, <4>1, Parity
      <4> QED
        BY <2>1, <2>2, <3>1, <3>2, <4>1, <4>2
    <3>3. CASE s # reg[t].hit
      <4>1. seqs'[s] = seqs[s] /\ ~Owns(t, s)
        BY <2>1, <2>3, <3>3 DEF Takes, Owns, Owning
      <4> QED
        BY <2>1, <2>2, <3>1, <3>3, <4>1
    <3> QED
      BY <3>2, <3>3
  <2>4. CASE GivesUp(t)
    <3>1. ~Owns(t, s)' /\ (Owns(t, s) <=> s = reg[t].hit)
      BY <2>4 DEF GivesUp, Owns
    <3>2. CASE s = reg[t].hit
      <4>1. Odd(seqs[s]) /\ seqs'[s] = seqs[s] + 1
        BY <2>1, <2>4, <3>1, <3>2 DEF GivesUp
      <4>2. ~Odd(seqs'[s])
        BY <2>1, <4>1, Parity
      <4> QED
        BY <2>1, <2>2, <3>1, <3>2, <4>2
    <3>3. CASE s # reg[t].hit
      <4>1. seqs'[s] = seqs[s]
        BY <2>1, <2>4, <3>3 DEF GivesUp
      <4> QED
        BY <2>1, <2>2, <3>1, <3>3, <4>1
    <3> QED
      BY <3>2, <3>3
  <2>5. CASE Keeps(t)
    <3>1. (Owns(t, s)' <=> Owns(t, s)) /\ seqs' = seqs
      BY <2>5 DEF Keeps, Owns
    <3> QED
      BY <2>1, <2>2, <3>1
  <2> QED
    BY <1>2, <2>3, <2>4, <2>5, Phases DEF Locking
<1>3. ASSUME Locking, UNCHANGED vars PROVE SlotOwnership' /\ InsertsAlone'
  BY <1>3 DEF vars, Locking, SlotOwnership, InsertsAlone, Writing, Owns
<1> QED
  BY <1>1, <1>2, <1>3, PlacedInvariant DEF Next, Step, Locking

(* With CheckAndInsert called alone, the words lock: a slot has one writer  *)
(* at a time, and looks locked exactly while it has.                        *)
THEOREM KmOwnership == DisciplinedSpec => []SlotOwnership
BY LockingInvariant, PTL DEF DisciplinedSpec, Locking
-----------------------------------------------------------------------------
(***************************************************************************)
(* Contents.                                                                *)
(***************************************************************************)
(* What the owner of a slot has done to it: nothing, or the new key is      *)
(* there and the words not left to do are.                                  *)
Doing(t) ==
  pc[t] \in Owning =>
    IF pc[t] = "write"
      THEN /\ keys[reg[t].hit] = IF call[t].op = "Insert" THEN call[t].key ELSE NoKey
           /\ \A w \in Words \ reg[t].todo : cold[reg[t].hit][w] = call[t].val
      ELSE Whole(keys[reg[t].hit], cold[reg[t].hit])

(* What a writer has captured is whole. *)
Captured(t) == pc[t] # "readWords" => Whole(reg[t].key, reg[t].ctx)

(* A reader whose word is still there has read what is still there. *)
Agreeing(t) ==
  pc[t] \in {"readKey", "readWords"} =>
    /\ ~Odd(reg[t].seq) /\ reg[t].seq <= seqs[reg[t].i]
    /\ pc[t] = "readWords" /\ seqs[reg[t].i] = reg[t].seq =>
         /\ keys[reg[t].i] = reg[t].key
         /\ call[t].op # "Contains" =>
              \A w \in Words \ reg[t].todo : reg[t].ctx[w] = cold[reg[t].i][w]

Contents ==
  /\ PublishedEntriesAreWhole
  /\ ReturnedContextsAreWhole
  /\ \A t \in Threads : Doing(t) /\ Captured(t) /\ Agreeing(t)

(* A payload with all its words copied is the payload. *)
LEMMA SamePayload ==
  ASSUME NEW c \in Payloads, NEW d \in Payloads, \A w \in Words : c[w] = d[w]
  PROVE  c = d
BY DEF Payloads

(* What a writer has written out is whole. *)
LEMMA WrittenIsWhole ==
  ASSUME Placed, NEW t \in Threads, Doing(t), pc[t] = "write", reg[t].todo = {}
  PROVE  Whole(keys[reg[t].hit], cold[reg[t].hit])
<1>1. /\ reg[t].hit \in Slots /\ cold[reg[t].hit] \in Payloads
      /\ call[t] \in Calls \cup {NoCall} /\ call[t].op \in {"Insert", "Delete"}
  BY DEF Placed, TypeOK, Shape, Owning, Finding
<1>2. /\ call[t].val \in Stamps \cup {Zero}
      /\ call[t].val = Zero \/ (call[t].val \in Stamps /\ call[t].val[1] = call[t].key)
      /\ call[t].op = "Delete" => call[t].val = Zero
  BY <1>1, CallFacts
<1>3. Payload(call[t].val) \in Payloads
  BY <1>2 DEF Payload, Payloads
<1>4. \A w \in Words : cold[reg[t].hit][w] = Payload(call[t].val)[w]
  BY DEF Doing, Owning, Payload
<1>5. cold[reg[t].hit] = Payload(call[t].val)
  BY <1>1, <1>3, <1>4, SamePayload
<1>6. keys[reg[t].hit] = IF call[t].op = "Insert" THEN call[t].key ELSE NoKey
  BY DEF Doing, Owning
<1> QED
  BY <1>1, <1>2, <1>5, <1>6 DEF Whole

(* An empty answer, and what a call starts with, are whole. *)
LEMMA NothingIsWhole ==
  /\ \A k : Whole(k, Payload(Zero))
  /\ Whole(FreshReg.key, FreshReg.ctx)
BY ValueFacts DEF Whole

Answered(t) ==
  ret[t].res \in {"true", "Inserted", "Updated", "reported"}
    => Whole(ret[t].key, ret[t].ctx)

Sound == Locking /\ Contents

(* Only its owner changes what a slot holds, and a word never decreases. *)
LEMMA OnlyOwners ==
  ASSUME Placed, NEW t \in Threads, Step(t), NEW s \in Slots
  PROVE  /\ ~Owns(t, s) => keys'[s] = keys[s] /\ cold'[s] = cold[s]
         /\ seqs[s] \in Nat /\ (seqs'[s] = seqs[s] \/ seqs'[s] = seqs[s] + 1)
         /\ GivesUp(t) => keys'[s] = keys[s] /\ cold'[s] = cold[s]
<1>1. /\ keys \in [Slots -> Keys \cup {NoKey}] /\ cold \in [Slots -> Payloads]
      /\ seqs \in [Slots -> Nat] /\ pc \in [Threads -> Labels]
  BY DEF Placed, TypeOK
<1>2. seqs'[s] = seqs[s] \/ seqs'[s] = seqs[s] + 1
  BY <1>1, Phases DEF Takes, GivesUp, Keeps
<1>3. CASE CheckKey(t) \/ WriteKey(t) \/ WriteWord(t)
  <2>1. pc[t] \in Owning /\ pc'[t] \in Owning
    BY <1>1, <1>3 DEF CheckKey, WriteKey, WriteWord, Owning, Goto
  <2>2. ~Owns(t, s) => keys'[s] = keys[s] /\ cold'[s] = cold[s]
    BY <1>1, <1>3, <2>1 DEF CheckKey, WriteKey, WriteWord, Owns
  <2> QED
    BY <1>1, <1>2, <2>1, <2>2 DEF GivesUp
<1>4. CASE UNCHANGED <<keys, cold>>
  BY <1>1, <1>2, <1>4
<1>5. \/ CheckKey(t) \/ WriteKey(t) \/ WriteWord(t)
      \/ UNCHANGED <<keys, cold>>
  BY DEF Step, Begin, Reject, Run, Find, Owned, Read, FindHit, FindNext, FindMiss, LoadSeq,
     TryLock, TryFails, VerifySeq, VerifyKey, VerifySkip, VerifyDone, Unlock, Abort,
     Release, ReadSeq, ReadKey, ReadWord, ReadAgain, LookupValidated, ContainsValidated,
     EnumerateValidated, Slot
<1> QED
  BY <1>3, <1>4, <1>5

(* What the others know of a slot stays true. *)
LEMMA OthersAgree ==
  ASSUME Sound, NEW t \in Threads, Step(t), NEW u \in Threads, u # t
  PROVE  Doing(u)' /\ Captured(u)' /\ Agreeing(u)' /\ Answered(u)'
<1>1. /\ Placed /\ Doing(u) /\ Captured(u) /\ Agreeing(u) /\ Answered(u)
      /\ pc'[u] = pc[u] /\ call'[u] = call[u] /\ reg'[u] = reg[u] /\ ret'[u] = ret[u]
  BY Frame DEF Sound, Locking, Contents, ReturnedContextsAreWhole, Answered, Placed, Framed
<1>2. /\ reg[u] \in Regs
      /\ pc[u] \in Owning => reg[u].hit \in Slots
      /\ pc[u] \in {"readKey", "readWords"} => reg[u].i \in Slots
  BY <1>1 DEF Placed, TypeOK
<1>3. Doing(u)'
  <2>1. CASE pc[u] \in Owning
    <3>1. ~Owns(t, reg[u].hit)
      BY <1>2, <2>1 DEF Sound, Locking, SlotOwnership, Owns
    <3>2. keys'[reg[u].hit] = keys[reg[u].hit] /\ cold'[reg[u].hit] = cold[reg[u].hit]
      BY <1>1, <1>2, <2>1, <3>1, OnlyOwners
    <3> QED
      BY <1>1, <3>2 DEF Doing
  <2>2. CASE pc[u] \notin Owning
    BY <1>1, <2>2 DEF Doing
  <2> QED
    BY <2>1, <2>2
<1>4. Captured(u)' /\ Answered(u)'
  BY <1>1 DEF Captured, Answered
<1>5. Agreeing(u)'
  <2>1. CASE pc[u] \in {"readKey", "readWords"}
    <3> DEFINE s == reg[u].i
    <3>1. /\ seqs[s] \in Nat /\ reg[u].seq \in Nat
          /\ seqs'[s] = seqs[s] \/ seqs'[s] = seqs[s] + 1
          /\ ~Odd(reg[u].seq) /\ reg[u].seq <= seqs[s]
      BY <1>1, <1>2, <2>1, OnlyOwners DEF Agreeing, Regs
    <3>2. ~Odd(reg[u].seq) /\ reg[u].seq <= seqs'[s]
      BY <3>1
    <3>3. seqs'[s] = reg[u].seq => /\ seqs[s] = reg[u].seq
                                   /\ keys'[s] = keys[s] /\ cold'[s] = cold[s]
      <4> SUFFICES ASSUME seqs'[s] = reg[u].seq
                   PROVE  /\ seqs[s] = reg[u].seq
                          /\ keys'[s] = keys[s] /\ cold'[s] = cold[s]
        OBVIOUS
      <4>1. seqs[s] = reg[u].seq
        BY <3>1
      <4>2. ~Owns(t, s)
        BY <1>2, <2>1, <3>1, <4>1 DEF Sound, Locking, SlotOwnership
      <4> QED
        BY <1>1, <1>2, <2>1, <4>1, <4>2, OnlyOwners
    <3> QED
      BY <1>1, <3>2, <3>3 DEF Agreeing
  <2>2. CASE pc[u] \notin {"readKey", "readWords"}
    BY <1>1, <2>2 DEF Agreeing
  <2> QED
    BY <2>1, <2>2
<1> QED
  BY <1>3, <1>4, <1>5

(* A slot that no writer is in shows a whole entry again when it is given   *)
(* up, and is not changed before.                                           *)
LEMMA EntriesStayWhole ==
  ASSUME Sound, NEW t \in Threads, Step(t)
  PROVE  PublishedEntriesAreWhole'
<1> SUFFICES ASSUME NEW s \in Slots, \A u \in Threads : ~Owns(u, s)'
             PROVE  Whole(keys'[s], cold'[s])
  BY DEF PublishedEntriesAreWhole
<1>1. Placed
  BY DEF Sound, Locking
<1>2. \A u \in Threads \ {t} : ~Owns(u, s)
  BY <1>1, Frame DEF Placed, Framed, Owns
<1>3. CASE Owns(t, s)
  <2>1. GivesUp(t) /\ s = reg[t].hit
    BY <1>1, <1>3, Phases DEF Takes, Keeps, Owns, Owning
  <2>2. Unlock(t) \/ Abort(t)
    <3>1. pc[t] \in Owning /\ pc'[t] \notin Owning /\ pc \in [Threads -> Labels]
      BY <1>1, <2>1 DEF GivesUp, Placed, TypeOK
    <3> QED
      BY <3>1 DEF Step, Begin, Reject, Run, Find, Owned, Read, FindHit, FindNext, FindMiss,
         LoadSeq, TryLock, TryFails, MayTry, CheckKey, VerifySeq, VerifyKey, VerifySkip,
         VerifyDone, WriteKey, WriteWord, ReadSeq, ReadKey, ReadWord, ReadAgain,
         LookupValidated, ContainsValidated, EnumerateValidated, Validating, Owning, Goto
  <2>3. Doing(t)
    BY DEF Sound, Contents
  <2>4. Whole(keys[s], cold[s])
    <3>1. CASE pc[t] = "write"
      BY <1>1, <2>1, <2>2, <2>3, <3>1, WrittenIsWhole DEF Unlock, Abort
    <3>2. CASE pc[t] # "write"
      BY <1>3, <2>1, <2>3, <3>2 DEF Doing, Owns
    <3> QED
      BY <3>1, <3>2
  <2> QED
    BY <1>1, <2>1, <2>4, OnlyOwners
<1>4. CASE ~Owns(t, s)
  <2>1. Whole(keys[s], cold[s])
    BY <1>2, <1>4 DEF Sound, Contents, PublishedEntriesAreWhole
  <2> QED
    BY <1>1, <1>4, <2>1, OnlyOwners
<1> QED
  BY <1>3, <1>4

(* A free slot that a reader or a new owner looks at is whole. *)
LEMMA FreeIsWhole ==
  ASSUME Sound, NEW s \in Slots, ~Odd(seqs[s])
  PROVE  Whole(keys[s], cold[s])
BY DEF Sound, Locking, SlotOwnership, Contents, PublishedEntriesAreWhole

(* Where a slot has been read and its word is still there, what was read is *)
(* in the slot.                                                             *)
LEMMA ReadIsCurrent ==
  ASSUME Sound, NEW t \in Threads, Validating(t), seqs[reg[t].i] = reg[t].seq,
         call[t].op # "Contains"
  PROVE  Whole(reg[t].key, reg[t].ctx)
<1>1. /\ reg[t].i \in Slots /\ reg[t].ctx \in Payloads
      /\ cold[reg[t].i] \in Payloads
  BY DEF Sound, Locking, Placed, TypeOK, Validating, Regs
<1>2. /\ ~Odd(seqs[reg[t].i]) /\ keys[reg[t].i] = reg[t].key
      /\ \A w \in Words : reg[t].ctx[w] = cold[reg[t].i][w]
  BY DEF Sound, Contents, Agreeing, Validating
<1>3. reg[t].ctx = cold[reg[t].i]
  BY <1>1, <1>2, SamePayload
<1> QED
  BY <1>1, <1>2, <1>3, FreeIsWhole

(* A step leaves the contents sound for its own caller. *)
LEMMA OwnAgrees ==
  ASSUME Sound, NEW t \in Threads, Step(t)
  PROVE  Doing(t)' /\ Captured(t)' /\ Agreeing(t)' /\ Answered(t)'
<1>1. /\ Placed /\ Doing(t) /\ Captured(t) /\ Agreeing(t) /\ Answered(t)
      /\ t \in DOMAIN pc /\ t \in DOMAIN call /\ t \in DOMAIN reg /\ t \in DOMAIN ret
      /\ reg[t] \in Regs /\ call[t] \in Calls \cup {NoCall}
      /\ pc[t] \in Owning \cup {"load", "try"} => reg[t].hit \in Slots
      /\ pc[t] \in {"find", "verifyKey", "readSeq", "readKey", "readWords"}
           => reg[t].i \in Slots
      /\ keys \in [Slots -> Keys \cup {NoKey}] /\ seqs \in [Slots -> Nat]
      /\ cold \in [Slots -> Payloads]
  BY DEF Sound, Locking, Contents, ReturnedContextsAreWhole, Answered, Placed, TypeOK
<1>2. \A k, c : Result("none", k, c).res = "none" /\ NoResult.res = "none"
  BY DEF Result, NoResult
<1>3. \A res, k, c : Whole(k, c) \/ res \in {"none", "false", "Failed"} =>
        (Result(res, k, c).res \in {"true", "Inserted", "Updated", "reported"}
          => Whole(Result(res, k, c).key, Result(res, k, c).ctx))
  BY DEF Result
<1> DEFINE Fresh == pc'[t] \notin Owning \cup {"readKey", "readWords"}
                    /\ Whole(reg'[t].key, reg'[t].ctx)
           Told == Answered(t)'
<1>4. Fresh => Doing(t)' /\ Captured(t)' /\ Agreeing(t)'
  BY DEF Doing, Captured, Agreeing
<1>5. UNCHANGED ret => Told
  BY <1>1 DEF Answered
<1>6. ASSUME NEW res, NEW k, NEW c, Whole(k, c) \/ res \in {"none", "false", "Failed"},
             ret' = [ret EXCEPT ![t] = Result(res, k, c)]
      PROVE  Told
  BY <1>1, <1>3, <1>6 DEF Answered
<1>7. ret' = [ret EXCEPT ![t] = NoResult] => Told
  BY <1>1, <1>2 DEF Answered
<1>8. ASSUME NEW r, Leave(t) \/ Return(t, r)
      PROVE  Fresh
  BY <1>1, <1>8, NothingIsWhole DEF Leave, Return, Goto, Set, Owning
<1>9. CASE Begin(t)
  <2>1. Fresh
    BY <1>1, <1>9 DEF Begin, Goto, Owning, Captured
  <2> QED
    BY <1>4, <1>7, <1>9, <2>1 DEF Begin
<1>10. CASE Reject(t)
  <2>1. Fresh
    BY <1>1, <1>10 DEF Reject, Owning, Captured
  <2>2. PICK c \in BadCalls : ret' = [ret EXCEPT ![t] =
          Result(IF c.op = "Insert" THEN "Failed" ELSE "false", NoKey, Payload(Zero))]
    BY <1>10 DEF Reject
  <2>3. Told
    BY <1>6, <2>2, NothingIsWhole
  <2> QED
    BY <1>4, <2>1, <2>3
<1>11. CASE FindHit(t)
  <2>1. CASE Return(t, Result("Updated", NoKey, Payload(Zero)))
    BY <1>4, <1>6, <1>8, <2>1, NothingIsWhole DEF Return
  <2>2. CASE ~Return(t, Result("Updated", NoKey, Payload(Zero)))
    <3>1. /\ reg'[t] = [reg[t] EXCEPT !.hit = reg[t].i, !.exists = TRUE]
          /\ pc[t] = "find" /\ pc'[t] = "load" /\ UNCHANGED ret
      BY <1>1, <1>11, <2>2 DEF FindHit, Goto, Set
    <3>2. reg'[t].key = reg[t].key /\ reg'[t].ctx = reg[t].ctx
      BY <1>1, <3>1 DEF Regs
    <3> QED
      BY <1>1, <1>4, <1>5, <3>1, <3>2 DEF Owning, Captured
  <2> QED
    BY <2>1, <2>2
<1>12. CASE FindNext(t)
  <2>1. pc[t] = "find" /\ pc'[t] = "find" /\ UNCHANGED ret
        /\ reg'[t].key = reg[t].key /\ reg'[t].ctx = reg[t].ctx
    BY <1>1, <1>12 DEF FindNext, Set, Regs
  <2> QED
    BY <1>1, <1>4, <1>5, <2>1 DEF Owning, Captured
<1>13. CASE FindMiss(t)
  <2>1. CASE Return(t, Result("false", NoKey, Payload(Zero)))
    BY <1>4, <1>6, <1>8, <2>1, NothingIsWhole DEF Return
  <2>2. CASE ~Return(t, Result("false", NoKey, Payload(Zero)))
    <3>1. pc[t] = "find" /\ pc'[t] = "load" /\ UNCHANGED ret
          /\ reg'[t].key = reg[t].key /\ reg'[t].ctx = reg[t].ctx
      BY <1>1, <1>13, <2>2 DEF FindMiss, Set, Goto, Regs
    <3> QED
      BY <1>1, <1>4, <1>5, <3>1 DEF Owning, Captured
  <2> QED
    BY <2>1, <2>2
<1>14. CASE LoadSeq(t)
  <2>1. pc[t] \in {"load", "try"} /\ pc'[t] = "try" /\ UNCHANGED ret
        /\ reg'[t].key = reg[t].key /\ reg'[t].ctx = reg[t].ctx
    BY <1>1, <1>14 DEF LoadSeq, Set, Goto, Regs
  <2> QED
    BY <1>1, <1>4, <1>5, <2>1 DEF Owning, Captured
<1>15. CASE TryLock(t)
  <2>1. /\ pc[t] = "try" /\ pc'[t] \in {"check", "verifySeq"}
        /\ reg'[t].hit = reg[t].hit /\ reg'[t].key = reg[t].key /\ reg'[t].ctx = reg[t].ctx
        /\ UNCHANGED <<keys, cold, ret>>
    BY <1>1, <1>15 DEF TryLock, MayTry, Set, Goto, Regs
  <2>2. Takes(t)
    BY <1>1, <2>1, Phases DEF GivesUp, Keeps, Owning
  <2>3. Whole(keys[reg[t].hit], cold[reg[t].hit])
    BY <1>1, <2>1, <2>2, TakesFree, FreeIsWhole DEF Sound
  <2> QED
    BY <1>1, <1>5, <2>1, <2>3 DEF Doing, Captured, Agreeing
<1>16. CASE TryFails(t)
  <2>1. Fresh /\ UNCHANGED ret
    BY <1>1, <1>16, NothingIsWhole DEF TryFails, MayTry, Set, Goto, Owning, Captured
  <2> QED
    BY <1>4, <1>5, <2>1
<1>17. CASE CheckKey(t)
  <2>1. pc[t] = "check" /\ reg[t].hit \in Slots /\ UNCHANGED <<cold, call, ret>>
        /\ Whole(keys[reg[t].hit], cold[reg[t].hit])
    BY <1>1, <1>17 DEF CheckKey, Doing, Owning
  <2>2. CASE pc'[t] = "abort" /\ UNCHANGED <<keys, reg>>
    BY <1>1, <1>5, <2>1, <2>2 DEF Doing, Captured, Agreeing
  <2>3. CASE /\ keys[reg[t].hit] = call[t].key /\ UNCHANGED keys
             /\ reg'[t] = [reg[t] EXCEPT !.key = call[t].key, !.ctx = cold[reg[t].hit]]
             /\ pc'[t] \in {"writeKey", "unlock"}
    <3>1. /\ reg'[t].hit = reg[t].hit /\ reg'[t].key = keys[reg[t].hit]
          /\ reg'[t].ctx = cold[reg[t].hit]
      BY <1>1, <2>3 DEF Regs
    <3> QED
      BY <1>5, <2>1, <2>3, <3>1 DEF Doing, Captured, Agreeing
  <2>4. CASE /\ keys[reg[t].hit] = call[t].key /\ call[t].op = "Delete"
             /\ keys' = [keys EXCEPT ![reg[t].hit] = NoKey]
             /\ reg'[t] = [reg[t] EXCEPT !.key = call[t].key, !.ctx = cold[reg[t].hit],
                                         !.todo = Words]
             /\ pc'[t] = "write"
    <3>1. /\ reg'[t].hit = reg[t].hit /\ reg'[t].key = keys[reg[t].hit]
          /\ reg'[t].ctx = cold[reg[t].hit] /\ reg'[t].todo = Words
      BY <1>1, <2>4 DEF Regs
    <3>2. keys'[reg[t].hit] = NoKey
      BY <1>1, <2>1, <2>4
    <3> QED
      BY <1>5, <2>1, <2>4, <3>1, <3>2 DEF Doing, Captured, Agreeing
  <2> QED
    BY <1>1, <1>17, <2>2, <2>3, <2>4 DEF CheckKey, Set, Goto
<1>18. CASE VerifySeq(t) \/ VerifyKey(t) \/ VerifySkip(t)
  <2>1. /\ pc[t] \in {"verifySeq", "verifyKey"} /\ pc'[t] \in {"verifySeq", "verifyKey", "abort"}
        /\ reg'[t].hit = reg[t].hit /\ reg'[t].key = reg[t].key /\ reg'[t].ctx = reg[t].ctx
        /\ UNCHANGED <<keys, cold, ret>>
    BY <1>1, <1>18 DEF VerifySeq, VerifyKey, VerifySkip, Set, Goto, Regs, Slot
  <2> QED
    BY <1>1, <1>5, <2>1 DEF Doing, Captured, Agreeing, Owning
<1>19. CASE VerifyDone(t)
  <2>1. /\ pc[t] = "verifySeq" /\ pc'[t] = "writeKey" /\ reg'[t].hit = reg[t].hit
        /\ UNCHANGED <<keys, cold, ret>>
    BY <1>1, <1>19 DEF VerifyDone, Set, Goto, Regs, Slot
  <2>2. Whole(keys[reg[t].hit], cold[reg[t].hit])
    BY <1>1, <2>1 DEF Doing, Owning
  <2>3. Whole(reg'[t].key, reg'[t].ctx)
    <3>1. CASE keys[reg[t].hit] = NoKey
      BY <1>1, <1>19, <2>1, <3>1 DEF VerifyDone, Set, Captured
    <3>2. CASE keys[reg[t].hit] # NoKey
      <4>1. reg'[t].key = keys[reg[t].hit] /\ reg'[t].ctx = cold[reg[t].hit]
        BY <1>1, <1>19, <3>2 DEF VerifyDone, Set, Regs
      <4> QED
        BY <2>2, <4>1
    <3> QED
      BY <3>1, <3>2
  <2> QED
    BY <1>5, <2>1, <2>2, <2>3 DEF Doing, Captured, Agreeing
<1>20. CASE WriteKey(t)
  <2>1. /\ pc[t] = "writeKey" /\ pc'[t] = "write" /\ reg[t].hit \in Slots
        /\ reg'[t].hit = reg[t].hit /\ reg'[t].key = reg[t].key /\ reg'[t].ctx = reg[t].ctx
        /\ reg'[t].todo = Words /\ UNCHANGED <<call, ret>>
        /\ keys' = [keys EXCEPT ![reg[t].hit] = call[t].key]
    BY <1>1, <1>20 DEF WriteKey, Set, Goto, Regs, Owning
  <2>2. call[t].op = "Insert"
    BY <1>1, <2>1 DEF Placed, Shape
  <2> QED
    BY <1>1, <1>5, <2>1, <2>2 DEF Doing, Captured, Agreeing
<1>21. CASE WriteWord(t)
  <2>1. PICK w \in reg[t].todo :
          /\ cold' = [cold EXCEPT ![reg[t].hit][w] = call[t].val]
          /\ reg'[t] = [reg[t] EXCEPT !.todo = @ \ {w}]
    BY <1>1, <1>21 DEF WriteWord, Set
  <2>2. /\ pc[t] = "write" /\ pc'[t] = "write" /\ UNCHANGED <<keys, call, ret>>
        /\ reg[t].hit \in Slots /\ w \in Words
        /\ reg'[t].hit = reg[t].hit /\ reg'[t].key = reg[t].key /\ reg'[t].ctx = reg[t].ctx
        /\ reg'[t].todo = reg[t].todo \ {w}
    BY <1>1, <1>21, <2>1 DEF WriteWord, Regs, Owning
  <2>3. \A x \in Words \ reg'[t].todo : cold'[reg'[t].hit][x] = call'[t].val
    <3>1. /\ cold[reg[t].hit] \in Payloads
          /\ cold'[reg[t].hit] = [cold[reg[t].hit] EXCEPT ![w] = call[t].val]
      BY <1>1, <2>1, <2>2
    <3>2. \A x \in Words : cold'[reg[t].hit][x] =
            IF x = w THEN call[t].val ELSE cold[reg[t].hit][x]
      BY <3>1 DEF Payloads
    <3>3. \A x \in Words \ reg[t].todo : cold[reg[t].hit][x] = call[t].val
      BY <1>1, <2>2 DEF Doing, Owning
    <3> QED
      BY <2>2, <3>2, <3>3
  <2> QED
    BY <1>1, <1>5, <2>2, <2>3 DEF Doing, Captured, Agreeing, Owning
<1>22. CASE Unlock(t)
  <2>1. PICK res : Return(t, Result(res, reg[t].key, reg[t].ctx))
    BY <1>22 DEF Unlock
  <2>2. Whole(reg[t].key, reg[t].ctx)
    BY <1>1, <1>22 DEF Unlock, Captured
  <2> QED
    BY <1>4, <1>6, <1>8, <2>1, <2>2 DEF Return
<1>23. CASE Abort(t)
  <2>1. CASE Return(t, Result("false", NoKey, Payload(Zero)))
    BY <1>4, <1>6, <1>8, <2>1, NothingIsWhole DEF Return
  <2>2. CASE ~Return(t, Result("false", NoKey, Payload(Zero)))
    <3>1. pc'[t] = "find" /\ reg'[t] = FreshReg /\ UNCHANGED ret
      BY <1>1, <1>23, <2>2 DEF Abort, Goto, Set
    <3> QED
      BY <1>4, <1>5, <3>1, NothingIsWhole DEF Owning
  <2> QED
    BY <2>1, <2>2
<1>24. CASE ReadSeq(t)
  <2>1. /\ pc[t] = "readSeq" /\ pc'[t] = "readKey" /\ reg[t].i \in Slots
        /\ reg'[t].i = reg[t].i /\ reg'[t].key = reg[t].key /\ reg'[t].ctx = reg[t].ctx
        /\ reg'[t].seq = seqs[reg[t].i] /\ ~Odd(seqs[reg[t].i])
        /\ UNCHANGED <<seqs, ret>> /\ seqs[reg[t].i] \in Nat
    BY <1>1, <1>24 DEF ReadSeq, Set, Goto, Regs, Slot
  <2> QED
    BY <1>1, <1>5, <2>1 DEF Doing, Captured, Agreeing, Owning
<1>25. ASSUME NEW r, NEW atEnd, NextSlot(t, r, atEnd), reg[t].i \in Slots
       PROVE  Fresh
  <2>1. CASE reg[t].i < Last
    <3>1. reg[t].i + 1 \in Slots
      BY <1>25, <2>1, IndexFacts
    <3>2. pc'[t] = "readSeq" /\ reg'[t] = [FreshReg EXCEPT !.i = reg[t].i + 1]
      BY <1>1, <1>25, <2>1 DEF NextSlot, Goto, Set
    <3>3. reg'[t].key = NoKey /\ reg'[t].ctx = Payload(Zero)
      BY <3>1, <3>2, ValueFacts DEF Regs
    <3> QED
      BY <3>2, <3>3, NothingIsWhole DEF Owning
  <2>2. CASE ~(reg[t].i < Last)
    BY <1>8, <1>25, <2>2 DEF NextSlot
  <2> QED
    BY <2>1, <2>2
<1>26. NotHere(t) /\ reg[t].i \in Slots => Fresh /\ Told
  <2> SUFFICES ASSUME NotHere(t), reg[t].i \in Slots PROVE Fresh /\ Told
    OBVIOUS
  <2>1. Fresh
    BY <1>25 DEF NotHere
  <2>2. \/ ret' = [ret EXCEPT ![t] = NoResult]
        \/ ret' = [ret EXCEPT ![t] = Result("false", NoKey, Payload(Zero))]
    BY DEF NotHere, NextSlot
  <2> QED
    BY <1>6, <1>7, <2>1, <2>2
<1>27. CASE ReadKey(t)
  <2>1. CASE NotHere(t)
    BY <1>1, <1>4, <1>26, <1>27, <2>1 DEF ReadKey
  <2>2. CASE ~NotHere(t)
    <3>1. /\ pc[t] = "readKey" /\ pc'[t] = "readWords" /\ reg[t].i \in Slots
          /\ reg'[t] = [reg[t] EXCEPT !.key = keys[reg[t].i],
                          !.todo = IF call[t].op = "Contains" THEN {} ELSE Words]
          /\ UNCHANGED <<keys, seqs, cold, call, ret>>
      BY <1>1, <1>27, <2>2 DEF ReadKey, Set, Goto, Slot
    <3>2. /\ reg'[t].i = reg[t].i /\ reg'[t].key = keys[reg[t].i] /\ reg'[t].seq = reg[t].seq
          /\ call[t].op # "Contains" => reg'[t].todo = Words
      BY <1>1, <3>1 DEF Regs
    <3>3. Agreeing(t)'
      BY <1>1, <3>1, <3>2 DEF Agreeing
    <3> QED
      BY <1>5, <3>1, <3>3 DEF Doing, Captured, Owning
  <2> QED
    BY <2>1, <2>2
<1>28. CASE ReadWord(t)
  <2>1. PICK w \in reg[t].todo :
          reg'[t] = [reg[t] EXCEPT !.ctx[w] = cold[reg[t].i][w], !.todo = @ \ {w}]
    BY <1>1, <1>28 DEF ReadWord, Set
  <2>2. /\ pc[t] = "readWords" /\ pc'[t] = "readWords" /\ reg[t].i \in Slots /\ w \in Words
        /\ UNCHANGED <<keys, seqs, cold, call, ret>>
    BY <1>1, <1>28 DEF ReadWord, Slot, Regs
  <2>3. /\ reg'[t].i = reg[t].i /\ reg'[t].key = reg[t].key /\ reg'[t].seq = reg[t].seq
        /\ reg'[t].todo = reg[t].todo \ {w}
        /\ reg'[t].ctx = [reg[t].ctx EXCEPT ![w] = cold[reg[t].i][w]]
    BY <1>1, <2>1 DEF Regs
  <2>4. \A x \in Words : reg'[t].ctx[x] =
          IF x = w THEN cold[reg[t].i][w] ELSE reg[t].ctx[x]
    BY <1>1, <2>2, <2>3 DEF Regs, Payloads
  <2>5. Agreeing(t)'
    BY <1>1, <2>2, <2>3, <2>4 DEF Agreeing
  <2> QED
    BY <1>5, <2>2, <2>5 DEF Doing, Captured, Owning
<1>29. CASE ReadAgain(t)
  <2>1. reg[t].i \in Slots /\ pc'[t] = "readSeq" /\ UNCHANGED ret
        /\ reg'[t] = [FreshReg EXCEPT !.i = reg[t].i]
    BY <1>1, <1>29 DEF ReadAgain, Validating, Goto, Set
  <2>2. reg'[t].key = NoKey /\ reg'[t].ctx = Payload(Zero)
    BY <2>1, ValueFacts DEF Regs
  <2> QED
    BY <1>4, <1>5, <2>1, <2>2, NothingIsWhole DEF Owning
<1>30. CASE LookupValidated(t)
  <2>1. reg[t].i \in Slots
    BY <1>1, <1>30 DEF LookupValidated, Validating
  <2>2. CASE NotHere(t)
    BY <1>4, <1>26, <2>1, <2>2
  <2>3. CASE Return(t, Result("true", reg[t].key, reg[t].ctx))
    <3>1. Whole(reg[t].key, reg[t].ctx)
      BY <1>30, ReadIsCurrent DEF LookupValidated
    <3> QED
      BY <1>4, <1>6, <1>8, <2>3, <3>1 DEF Return
  <2> QED
    BY <1>30, <2>2, <2>3 DEF LookupValidated
<1>31. CASE ContainsValidated(t)
  BY <1>4, <1>6, <1>8, <1>31, NothingIsWhole DEF ContainsValidated, Return
<1>32. CASE EnumerateValidated(t)
  <2>1. reg[t].i \in Slots /\ Whole(reg[t].key, reg[t].ctx)
    BY <1>1, <1>32, ReadIsCurrent DEF EnumerateValidated, Validating
  <2>2. PICK r \in {NoResult, Result("reported", reg[t].key, reg[t].ctx)} : NextSlot(t, r, r)
    BY <1>32 DEF EnumerateValidated
  <2>3. Fresh
    BY <1>25, <2>1, <2>2
  <2>4. \/ ret' = [ret EXCEPT ![t] = NoResult]
        \/ ret' = [ret EXCEPT ![t] = Result("reported", reg[t].key, reg[t].ctx)]
    BY <2>2 DEF NextSlot
  <2>5. Told
    BY <1>6, <1>7, <2>1, <2>4
  <2> QED
    BY <1>4, <2>3, <2>5
<1> QED
  BY <1>9, <1>10, <1>11, <1>12, <1>13, <1>14, <1>15, <1>16, <1>17, <1>18, <1>19, <1>20,
     <1>21, <1>22, <1>23, <1>24, <1>27, <1>28, <1>29, <1>30, <1>31, <1>32
  DEF Step, Run, Find, Owned, Read
-----------------------------------------------------------------------------
(* Sound is inductive. *)
LEMMA SoundInvariant ==
  /\ Init => Sound
  /\ Sound /\ [Next /\ InsertsAlone']_vars => Sound'
<1>1. ASSUME Init PROVE Contents
  <2> USE <1>1 DEF Init
  <2>1. PublishedEntriesAreWhole
    BY NothingIsWhole DEF PublishedEntriesAreWhole
  <2>2. ReturnedContextsAreWhole
    BY DEF ReturnedContextsAreWhole, NoResult, Result
  <2>3. \A t \in Threads : Doing(t) /\ Captured(t) /\ Agreeing(t)
    BY NothingIsWhole DEF Doing, Captured, Agreeing, Owning
  <2> QED
    BY <2>1, <2>2, <2>3 DEF Contents
<1>2. ASSUME Sound, NEW t \in Threads, Step(t) PROVE Contents'
  <2>1. \A u \in Threads : Doing(u)' /\ Captured(u)' /\ Agreeing(u)' /\ Answered(u)'
    BY <1>2, OwnAgrees, OthersAgree
  <2> QED
    BY <1>2, <2>1, EntriesStayWhole DEF Contents, ReturnedContextsAreWhole, Answered
<1>3. ASSUME Sound, UNCHANGED vars PROVE Contents'
  BY <1>3 DEF vars, Sound, Contents, PublishedEntriesAreWhole, ReturnedContextsAreWhole,
     Doing, Captured, Agreeing, Owns
<1> QED
  BY <1>1, <1>2, <1>3, LockingInvariant DEF Next, Step, Sound

(* With CheckAndInsert called alone, a slot that no writer is in has its    *)
(* key and one payload inserted under it, or no payload.                    *)
THEOREM KmWholeEntries == DisciplinedSpec => []PublishedEntriesAreWhole
BY SoundInvariant, PTL DEF DisciplinedSpec, Sound, Contents

(* With CheckAndInsert called alone, what a lookup, an enumeration or an    *)
(* eviction hands out is whole, however its words were copied.              *)
THEOREM KmWholeAnswers == DisciplinedSpec => []ReturnedContextsAreWhole
BY SoundInvariant, PTL DEF DisciplinedSpec, Sound, Contents
=============================================================================
