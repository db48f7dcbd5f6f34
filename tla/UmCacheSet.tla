----------------------------- MODULE UmCacheSet -----------------------------
(***************************************************************************)
(* One bucket (set) of the user-mode OptimisticCache, um/optimistic_cache.h *)
(* under any number of threads.  A bucket is NumSlots slots, each a key, a  *)
(* sequence word and a payload.  Writers lock one slot by a compare-and-    *)
(* swap on its sequence word; readers take no lock and validate the word    *)
(* instead.  Keys of different buckets never meet, so one bucket is the     *)
(* whole of the concurrency.                                                *)
(*                                                                          *)
(* Every access to the shared atomics is a step of its own, except the      *)
(* reads an owner makes of the slot it has locked, which are joined to its  *)
(* next step.  Steps interleave sequentially consistently.                  *)
(***************************************************************************)
EXTENDS Integers

CONSTANTS
  Threads,      \* the threads that call the cache
  Keys,         \* the keys that hash to this bucket; key 0 is NoKey
  NoKey,
  Tags,         \* a payload is the pair of the key it was inserted under
                \*   and a tag; its words all carry that pair
  Zero,         \* the word of an empty payload
  NumSlots,     \* 8 in the code
  NumWords,     \* 64-bit words of a payload: 0, 1 or 2 (TContextSize)
  MaxVersion    \* bound: no slot is locked again from this version on

ASSUME NumSlotsAssumption == NumSlots \in Nat \ {0}
ASSUME NumWordsAssumption == NumWords \in Nat
ASSUME MaxVersionAssumption == MaxVersion \in Nat
ASSUME NoKeyAssumption == NoKey \notin Keys
ASSUME ZeroAssumption == Zero \notin Keys \X Tags

VARIABLES
  keys,   \* CacheSetHot::Keys
  seqs,   \* CacheSetHot::Seqs
  cold,   \* CacheSetCold::Contexts, word by word
  pc,     \* where each thread is in its operation
  call,   \* the operation each thread runs, or ran last, and its arguments
  reg,    \* the locals of that operation
  ret     \* what it returned, or reported last

vars == <<keys, seqs, cold, pc, call, reg, ret>>
-----------------------------------------------------------------------------
Slots == 0 .. NumSlots - 1
Words == 1 .. NumWords

(* Mutant of Last: loops that stop one slot short. *)
ShortLast == NumSlots - 2
Last == NumSlots - 1

Stamps == Keys \X Tags
Payload(v) == [w \in Words |-> v]
Payloads == [Words -> Stamps \cup {Zero}]

(***************************************************************************)
(* A sequence word: bit 0 is "locked", bit 1 "by an insert", the rest is    *)
(* the version.  seq | 1, seq | 3 and (seq + 4) & ~3 on such words.         *)
(***************************************************************************)
Seq0 == [ver |-> 0, bits |-> 0]
Seqs == [ver : Nat, bits : {0, 1, 3}]
Odd(s) == s.bits # 0
LockForUpdate(s) == [s EXCEPT !.bits = 1]
LockForInsert(s) == [s EXCEPT !.bits = 3]
NextVersion(s) == [ver |-> s.ver + 1, bits |-> 0]

Ops == {"Insert", "Lookup", "Contains", "Delete", "Enumerate"}
Call(op, k, v, keep) == [op |-> op, key |-> k, val |-> v, keep |-> keep]

(* What clients ask for; keep is InsertPolicy::KeepExisting.  LookupContext *)
(* exists for a payload only.                                               *)
Calls ==
  {Call("Insert", s[1], s, keep) : s \in Stamps, keep \in BOOLEAN}
    \cup {Call(op, k, Zero, FALSE) : op \in {"Contains", "Delete"}, k \in Keys}
    \cup {Call("Lookup", k, Zero, FALSE) : k \in {q \in Keys : NumWords > 0}}
    \cup {Call("Enumerate", NoKey, Zero, FALSE)}

(* Requests that name key 0. *)
BadCalls == {Call(op, NoKey, Zero, FALSE) : op \in Ops \ {"Enumerate"}}

FreshReg ==
  [i    |-> 0,                          \* loop index over slots or words
   hit  |-> 0,                          \* hitIndex, victimIndex, slot
   seq  |-> Seq0,                       \* seq, seq1
   snap |-> [s \in Slots |-> Seq0],     \* snapshotSeqs, seqVerify
   key  |-> NoKey,                      \* oldKey, verifyKey
   ctx  |-> Payload(Zero)]              \* tempContext, an out parameter

Result(res, k, ctx) == [res |-> res, key |-> k, ctx |-> ctx]
NoResult == Result("none", NoKey, Payload(Zero))

Init ==
  /\ keys = [s \in Slots |-> NoKey]
  /\ seqs = [s \in Slots |-> Seq0]
  /\ cold = [s \in Slots |-> Payload(Zero)]
  /\ pc   = [t \in Threads |-> "idle"]
  /\ call = [t \in Threads |-> Call("Enumerate", NoKey, Zero, FALSE)]
  /\ reg  = [t \in Threads |-> FreshReg]
  /\ ret  = [t \in Threads |-> NoResult]
-----------------------------------------------------------------------------
Goto(t, label) == pc' = [pc EXCEPT ![t] = label]
Set(t, r) == reg' = [reg EXCEPT ![t] = r]
Shared == <<keys, seqs, cold>>

Return(t, r) ==
  /\ Goto(t, "idle")
  /\ Set(t, FreshReg)
  /\ ret' = [ret EXCEPT ![t] = r]

(* Start the outer while (true) of the operation over. *)
Rescan(t) ==
  /\ Goto(t, "find")
  /\ Set(t, FreshReg)
  /\ UNCHANGED ret

Begin(t) ==
  /\ pc[t] = "idle"
  /\ \E c \in Calls :
       /\ call' = [call EXCEPT ![t] = c]
       /\ Goto(t, CASE c.op = "Contains"  -> "snap"
                    [] c.op = "Enumerate" -> "readSeq"
                    [] OTHER -> "find")
  /\ ret' = [ret EXCEPT ![t] = NoResult]
  /\ UNCHANGED <<Shared, reg>>

(* Key 0 is refused before the bucket is touched. *)
Reject(t) ==
  /\ pc[t] = "idle"
  /\ \E c \in BadCalls :
       /\ call' = [call EXCEPT ![t] = c]
       /\ ret' = [ret EXCEPT ![t] =
            Result(IF c.op = "Insert" THEN "Failed" ELSE "false",
                   NoKey, Payload(Zero))]
  /\ UNCHANGED <<Shared, pc, reg>>
-----------------------------------------------------------------------------
(***************************************************************************)
(* FindHitIndex: a relaxed scan, one key per step, shared by four           *)
(* operations.                                                              *)
(***************************************************************************)
FindHit(t) ==
  /\ pc[t] = "find"
  /\ keys[reg[t].i] = call[t].key
  /\ Goto(t, CASE call[t].op = "Lookup"   -> "readSeq"
               [] call[t].op = "Contains" -> "confirmHit"
               [] OTHER -> "load")
  /\ Set(t, [reg[t] EXCEPT !.hit = reg[t].i, !.i = 0])
  /\ UNCHANGED <<Shared, call, ret>>

(* Mutant of FindNext: the scan runs past the last slot. *)
FindPastEnd(t) ==
  /\ pc[t] = "find"
  /\ keys[reg[t].i] # call[t].key
  /\ Set(t, [reg[t] EXCEPT !.i = @ + 1])
  /\ UNCHANGED <<Shared, pc, call, ret>>

FindNext(t) ==
  /\ pc[t] = "find"
  /\ keys[reg[t].i] # call[t].key
  /\ reg[t].i < Last
  /\ Set(t, [reg[t] EXCEPT !.i = @ + 1])
  /\ UNCHANGED <<Shared, pc, call, ret>>

FindMiss(t) ==
  /\ pc[t] = "find"
  /\ keys[reg[t].i] # call[t].key
  /\ reg[t].i = Last
  /\ \/ /\ call[t].op \in {"Lookup", "Delete"}
        /\ Return(t, Result("false", NoKey, Payload(Zero)))
     \/ /\ call[t].op \in {"Insert", "Contains"}
        /\ Goto(t, IF call[t].op = "Insert" THEN "empty" ELSE "confirmMiss")
        /\ Set(t, [reg[t] EXCEPT !.i = 0])
        /\ UNCHANGED ret
  /\ UNCHANGED <<Shared, call>>

(***************************************************************************)
(* CheckAndInsert of a key found, and Delete: lock the slot for an update.  *)
(* compare_exchange_weak may fail spuriously; either way it leaves the      *)
(* current word in seq.                                                     *)
(***************************************************************************)
LoadSeq(t) ==
  /\ pc[t] = "load"
  /\ Set(t, [reg[t] EXCEPT !.seq = seqs[reg[t].hit]])
  /\ Goto(t, "try")
  /\ UNCHANGED <<Shared, call, ret>>

(* Mutant of TryLock: a store instead of the compare-and-swap. *)
LockBlindly(t) ==
  /\ pc[t] = "try"
  /\ ~Odd(reg[t].seq)
  /\ reg[t].seq.ver < MaxVersion
  /\ seqs' = [seqs EXCEPT ![reg[t].hit] = LockForUpdate(reg[t].seq)]
  /\ Goto(t, "check")
  /\ UNCHANGED <<keys, cold, call, reg, ret>>

TryLock(t) ==
  /\ pc[t] = "try"
  /\ ~Odd(reg[t].seq)
  /\ seqs[reg[t].hit] = reg[t].seq
  /\ reg[t].seq.ver < MaxVersion
  /\ seqs' = [seqs EXCEPT ![reg[t].hit] = LockForUpdate(@)]
  /\ Goto(t, "check")
  /\ UNCHANGED <<keys, cold, call, reg, ret>>

TryFails(t) ==
  /\ pc[t] = "try"
  /\ ~Odd(reg[t].seq)
  /\ Set(t, [reg[t] EXCEPT !.seq = seqs[reg[t].hit]])
  /\ UNCHANGED <<Shared, pc, call, ret>>

(* The slot is locked: back off and load its word again. *)
Backoff(t) ==
  /\ pc[t] = "try"
  /\ Odd(reg[t].seq)
  /\ Goto(t, "load")
  /\ UNCHANGED <<Shared, call, reg, ret>>

(* Mutant of CheckKey: the scan is believed, as no slot loses its key. *)
BelieveScan(t) ==
  /\ pc[t] = "check"
  /\ Set(t, [reg[t] EXCEPT !.i = 1, !.key = call[t].key,
                           !.ctx = cold[reg[t].hit]])
  /\ Goto(t, IF call[t].op = "Insert" /\ call[t].keep THEN "unlock" ELSE "write")
  /\ UNCHANGED <<Shared, call, ret>>

(* The key must still be there; the old payload goes to the out parameter. *)
CheckKey(t) ==
  /\ pc[t] = "check"
  /\ \/ /\ keys[reg[t].hit] # call[t].key
        /\ Goto(t, "abort")
        /\ UNCHANGED reg
     \/ /\ keys[reg[t].hit] = call[t].key
        /\ Set(t, [reg[t] EXCEPT !.i = 1, !.key = call[t].key,
                                 !.ctx = cold[reg[t].hit]])
        /\ Goto(t, IF call[t].op = "Insert" /\ call[t].keep
                     THEN "unlock" ELSE "write")
  /\ UNCHANGED <<Shared, call, ret>>

(* CacheContextTraits::Write, Low before High: the new payload, or zeroes. *)
WriteWord(t) ==
  /\ pc[t] = "write"
  /\ reg[t].i <= NumWords
  /\ cold' = [cold EXCEPT ![reg[t].hit][reg[t].i] = call[t].val]
  /\ Set(t, [reg[t] EXCEPT !.i = @ + 1])
  /\ UNCHANGED <<keys, seqs, pc, call, ret>>

WriteDone(t) ==
  /\ pc[t] = "write"
  /\ reg[t].i > NumWords
  /\ IF call[t].op = "Delete"
       THEN keys' = [keys EXCEPT ![reg[t].hit] = NoKey]
       ELSE UNCHANGED keys
  /\ Goto(t, "unlock")
  /\ UNCHANGED <<seqs, cold, call, reg, ret>>

(***************************************************************************)
(* The release store that publishes the slot and ends a writer.             *)
(***************************************************************************)
WriterResult(t) ==
  Result(CASE call[t].op = "Delete" -> "true"
           [] seqs[reg[t].hit].bits = 3 -> "Inserted"
           [] OTHER -> "Updated",
         reg[t].key, reg[t].ctx)

Unlock(t) ==
  /\ pc[t] = "unlock"
  /\ seqs' = [seqs EXCEPT ![reg[t].hit] = NextVersion(reg[t].seq)]
  /\ Return(t, WriterResult(t))
  /\ UNCHANGED <<keys, cold, call>>

(* Mutants of Abort: the old word is put back; the word is left locked. *)
AbortWithOldWord(t) ==
  /\ pc[t] = "abort"
  /\ seqs' = [seqs EXCEPT ![reg[t].hit] = reg[t].seq]
  /\ Rescan(t)
  /\ UNCHANGED <<keys, cold, call>>

AbortLocked(t) ==
  /\ pc[t] = "abort"
  /\ Rescan(t)
  /\ UNCHANGED <<Shared, call>>

(* The release store that gives a slot up, and the scan that follows it. *)
Abort(t) ==
  /\ pc[t] = "abort"
  /\ seqs' = [seqs EXCEPT ![reg[t].hit] = NextVersion(reg[t].seq)]
  /\ Rescan(t)
  /\ UNCHANGED <<keys, cold, call>>
-----------------------------------------------------------------------------
(***************************************************************************)
(* CheckAndInsert of a key not found.  FindEmptySlotIndex, then a victim of *)
(* the generator's choice when no slot is empty.                            *)
(***************************************************************************)
FindEmptySlot(t) ==
  /\ pc[t] = "empty"
  /\ \/ /\ keys[reg[t].i] = NoKey
        /\ Set(t, [reg[t] EXCEPT !.hit = reg[t].i, !.i = 0])
        /\ Goto(t, "insertLoad")
     \/ /\ keys[reg[t].i] # NoKey
        /\ reg[t].i < Last
        /\ Set(t, [reg[t] EXCEPT !.i = @ + 1])
        /\ UNCHANGED pc
     \/ /\ keys[reg[t].i] # NoKey
        /\ reg[t].i = Last
        /\ \E victim \in Slots :
             Set(t, [reg[t] EXCEPT !.hit = victim, !.i = 0])
        /\ Goto(t, "insertLoad")
  /\ UNCHANGED <<Shared, call, ret>>

InsertLoad(t) ==
  /\ pc[t] = "insertLoad"
  /\ IF Odd(seqs[reg[t].hit])
       THEN Rescan(t)
       ELSE /\ Set(t, [reg[t] EXCEPT !.seq = seqs[reg[t].hit]])
            /\ Goto(t, "insertTry")
            /\ UNCHANGED ret
  /\ UNCHANGED <<Shared, call>>

InsertLock(t) ==
  /\ pc[t] = "insertTry"
  /\ seqs[reg[t].hit] = reg[t].seq
  /\ reg[t].seq.ver < MaxVersion
  /\ seqs' = [seqs EXCEPT ![reg[t].hit] = LockForInsert(@)]
  /\ Goto(t, "intent")
  /\ UNCHANGED <<keys, cold, call, reg, ret>>

InsertLockFails(t) ==
  /\ pc[t] = "insertTry"
  /\ Rescan(t)
  /\ UNCHANGED <<Shared, call>>

(* Publish the intent: the new key overwrites the old one, which is kept. *)
PublishIntent(t) ==
  /\ pc[t] = "intent"
  /\ keys' = [keys EXCEPT ![reg[t].hit] = call[t].key]
  /\ Set(t, [reg[t] EXCEPT !.key = keys[reg[t].hit], !.i = 0])
  /\ Goto(t, "verifySeq")
  /\ UNCHANGED <<seqs, cold, call, ret>>

(***************************************************************************)
(* The duplicate check over the other slots: the word first, then the key.  *)
(***************************************************************************)
VerifySeq(t) ==
  /\ pc[t] = "verifySeq"
  /\ reg[t].i <= Last
  /\ reg[t].i # reg[t].hit
  /\ Set(t, [reg[t] EXCEPT !.snap[reg[t].i] = seqs[reg[t].i]])
  /\ Goto(t, "verifyKey")
  /\ UNCHANGED <<Shared, call, ret>>

(* The same key in a rival's in-flight insert loses to the higher index. *)
IsDuplicate(t) ==
  /\ keys[reg[t].i] = call[t].key
  /\ \/ reg[t].snap[reg[t].i].bits # 3
     \/ reg[t].hit < reg[t].i

VerifyKey(t) ==
  /\ pc[t] = "verifyKey"
  /\ IF IsDuplicate(t)
       THEN Goto(t, "restore") /\ UNCHANGED reg
       ELSE /\ Set(t, [reg[t] EXCEPT !.i = @ + 1])
            /\ Goto(t, "verifySeq")
  /\ UNCHANGED <<Shared, call, ret>>

VerifySkip(t) ==
  /\ pc[t] = "verifySeq"
  /\ reg[t].i = reg[t].hit
  /\ Set(t, [reg[t] EXCEPT !.i = @ + 1])
  /\ UNCHANGED <<Shared, pc, call, ret>>

(* No duplicate: an evicted payload goes to outEvictedContext, then write. *)
VerifyDone(t) ==
  /\ pc[t] = "verifySeq"
  /\ reg[t].i > Last
  /\ Set(t, [reg[t] EXCEPT !.i = 1, !.snap = FreshReg.snap,
              !.ctx = IF reg[t].key # NoKey THEN cold[reg[t].hit] ELSE @])
  /\ Goto(t, "write")
  /\ UNCHANGED <<Shared, call, ret>>

(* Mutant of RestoreKey: the intent stays. *)
RestoreNothing(t) ==
  /\ pc[t] = "restore"
  /\ Goto(t, "abort")
  /\ UNCHANGED <<Shared, call, reg, ret>>

(* A duplicate: put the old key back, then give the slot up. *)
RestoreKey(t) ==
  /\ pc[t] = "restore"
  /\ keys' = [keys EXCEPT ![reg[t].hit] = reg[t].key]
  /\ Goto(t, "abort")
  /\ UNCHANGED <<seqs, cold, call, reg, ret>>
-----------------------------------------------------------------------------
(* Mutant of ReadSeq: a locked slot is read as well. *)
ReadSeqLocked(t) ==
  /\ pc[t] = "readSeq"
  /\ Set(t, [reg[t] EXCEPT !.seq = seqs[reg[t].hit], !.i = 1])
  /\ Goto(t, "readWord")
  /\ UNCHANGED <<Shared, call, ret>>

(***************************************************************************)
(* The sequence-lock read of LookupContext and of Enumerate, slot reg.hit.  *)
(***************************************************************************)
ReadSeq(t) ==
  /\ pc[t] = "readSeq"
  /\ ~Odd(seqs[reg[t].hit])
  /\ Set(t, [reg[t] EXCEPT !.seq = seqs[reg[t].hit], !.i = 1])
  /\ Goto(t, "readWord")
  /\ UNCHANGED <<Shared, call, ret>>

ReadWord(t) ==
  /\ pc[t] = "readWord"
  /\ reg[t].i <= NumWords
  /\ Set(t, [reg[t] EXCEPT !.ctx[reg[t].i] = cold[reg[t].hit][reg[t].i],
                           !.i = @ + 1])
  /\ UNCHANGED <<Shared, pc, call, ret>>

ReadKey(t) ==
  /\ pc[t] = "readWord"
  /\ reg[t].i > NumWords
  /\ Set(t, [reg[t] EXCEPT !.key = keys[reg[t].hit]])
  /\ Goto(t, "validate")
  /\ UNCHANGED <<Shared, call, ret>>

(* Mutant of ReadAgain: seq1 is not loaded again. *)
ReadAgainStale(t) ==
  /\ pc[t] = "validate"
  /\ seqs[reg[t].hit] # reg[t].seq
  /\ Goto(t, "readWord")
  /\ Set(t, [reg[t] EXCEPT !.i = 1])
  /\ UNCHANGED <<Shared, call, ret>>

(* seq1 # seq2: a writer came by, read the slot again. *)
ReadAgain(t) ==
  /\ pc[t] = "validate"
  /\ seqs[reg[t].hit] # reg[t].seq
  /\ Goto(t, "readSeq")
  /\ Set(t, [FreshReg EXCEPT !.hit = reg[t].hit])
  /\ UNCHANGED <<Shared, call, ret>>

LookupValidated(t) ==
  /\ pc[t] = "validate"
  /\ call[t].op = "Lookup"
  /\ seqs[reg[t].hit] = reg[t].seq
  /\ IF reg[t].key = call[t].key
       THEN Return(t, Result("true", reg[t].key, reg[t].ctx))
       ELSE Rescan(t)
  /\ UNCHANGED <<Shared, call>>

(* Mutant of EnumerateValidated: the second load of the word is left out. *)
EnumerateUnvalidated(t) ==
  /\ pc[t] = "validate"
  /\ call[t].op = "Enumerate"
  /\ ret' = [ret EXCEPT ![t] =
       IF reg[t].key = NoKey THEN NoResult
       ELSE Result("reported", reg[t].key, reg[t].ctx)]
  /\ IF reg[t].hit < Last
       THEN /\ Goto(t, "readSeq")
            /\ Set(t, [FreshReg EXCEPT !.hit = reg[t].hit + 1])
       ELSE /\ Goto(t, "idle")
            /\ Set(t, FreshReg)
  /\ UNCHANGED <<Shared, call>>

(* The callback gets each non-zero key; then the next slot, or the end. *)
EnumerateValidated(t) ==
  /\ pc[t] = "validate"
  /\ call[t].op = "Enumerate"
  /\ seqs[reg[t].hit] = reg[t].seq
  /\ ret' = [ret EXCEPT ![t] =
       IF reg[t].key = NoKey THEN NoResult
       ELSE Result("reported", reg[t].key, reg[t].ctx)]
  /\ IF reg[t].hit < Last
       THEN /\ Goto(t, "readSeq")
            /\ Set(t, [FreshReg EXCEPT !.hit = reg[t].hit + 1])
       ELSE /\ Goto(t, "idle")
            /\ Set(t, FreshReg)
  /\ UNCHANGED <<Shared, call>>
-----------------------------------------------------------------------------
(***************************************************************************)
(* Contains: snapshot all sequence words, scan the keys, validate.          *)
(***************************************************************************)
Snapshot(t) ==
  /\ pc[t] = "snap"
  /\ LET snap == [reg[t].snap EXCEPT ![reg[t].i] = seqs[reg[t].i]]
     IN  \/ /\ reg[t].i < Last
            /\ Set(t, [reg[t] EXCEPT !.snap = snap, !.i = @ + 1])
            /\ UNCHANGED pc
         \/ /\ reg[t].i = Last
            /\ \A s \in Slots : ~Odd(snap[s])
            /\ Set(t, [reg[t] EXCEPT !.snap = snap, !.i = 0])
            /\ Goto(t, "find")
         \/ /\ reg[t].i = Last
            /\ \E s \in Slots : Odd(snap[s])
            /\ Set(t, FreshReg)
            /\ UNCHANGED pc
  /\ UNCHANGED <<Shared, call, ret>>

(* Mutants of ConfirmHit and ConfirmMiss: the scan is believed as it is. *)
BelieveHit(t) ==
  /\ pc[t] = "confirmHit"
  /\ Return(t, Result("true", call[t].key, Payload(Zero)))
  /\ UNCHANGED <<Shared, call>>

BelieveMiss(t) ==
  /\ pc[t] = "confirmMiss"
  /\ Return(t, Result("false", NoKey, Payload(Zero)))
  /\ UNCHANGED <<Shared, call>>

ConfirmHit(t) ==
  /\ pc[t] = "confirmHit"
  /\ IF reg[t].snap[reg[t].hit] = seqs[reg[t].hit]
       THEN Return(t, Result("true", call[t].key, Payload(Zero)))
       ELSE Goto(t, "snap") /\ Set(t, FreshReg) /\ UNCHANGED ret
  /\ UNCHANGED <<Shared, call>>

ConfirmMiss(t) ==
  /\ pc[t] = "confirmMiss"
  /\ \/ /\ reg[t].snap[reg[t].i] # seqs[reg[t].i]
        /\ Goto(t, "snap")
        /\ Set(t, FreshReg)
        /\ UNCHANGED ret
     \/ /\ reg[t].snap[reg[t].i] = seqs[reg[t].i]
        /\ reg[t].i < Last
        /\ Set(t, [reg[t] EXCEPT !.i = @ + 1])
        /\ UNCHANGED <<pc, ret>>
     \/ /\ reg[t].snap[reg[t].i] = seqs[reg[t].i]
        /\ reg[t].i = Last
        /\ Return(t, Result("false", NoKey, Payload(Zero)))
  /\ UNCHANGED <<Shared, call>>
-----------------------------------------------------------------------------
Find(t)   == FindHit(t) \/ FindNext(t) \/ FindMiss(t)
Lock(t)   == LoadSeq(t) \/ TryLock(t) \/ TryFails(t) \/ Backoff(t)
Insert(t) == \/ FindEmptySlot(t) \/ InsertLoad(t) \/ InsertLock(t)
             \/ InsertLockFails(t)
Verify(t) == VerifySeq(t) \/ VerifyKey(t) \/ VerifySkip(t) \/ VerifyDone(t)

(* The steps of a thread that has a slot locked: none of them waits. *)
Owned(t)  == \/ CheckKey(t) \/ PublishIntent(t) \/ Verify(t) \/ RestoreKey(t)
             \/ WriteWord(t) \/ WriteDone(t) \/ Unlock(t) \/ Abort(t)
Read(t)   == \/ ReadSeq(t) \/ ReadWord(t) \/ ReadKey(t) \/ ReadAgain(t)
             \/ LookupValidated(t) \/ EnumerateValidated(t)
Contains(t) == Snapshot(t) \/ ConfirmHit(t) \/ ConfirmMiss(t)

Run(t) == Find(t) \/ Lock(t) \/ Insert(t) \/ Owned(t) \/ Read(t) \/ Contains(t)

Step(t) == Begin(t) \/ Reject(t) \/ Run(t)

Next == \E t \in Threads : Step(t)

Spec == Init /\ [][Next]_vars
-----------------------------------------------------------------------------
(***************************************************************************)
(* Properties.                                                              *)
(***************************************************************************)
Regs == [i : Nat, hit : Slots, seq : Seqs, snap : [Slots -> Seqs],
         key : Keys \cup {NoKey}, ctx : Payloads]

Results == {"none", "false", "true", "Failed", "Inserted", "Updated", "reported"}

Updating  == {"check"}
Inserting == {"intent", "verifySeq", "verifyKey", "restore"}
Owning    == Updating \cup Inserting \cup {"write", "unlock", "abort"}
Reading   == {"readWord", "validate"}
Scanning  == {"find", "empty", "confirmMiss", "snap", "verifyKey"}

Labels == Owning \cup Reading \cup Scanning \cup
  {"idle", "load", "try", "insertLoad", "insertTry", "readSeq", "confirmHit"}

Rets == [res : Results, key : Keys \cup {NoKey}, ctx : Payloads]

(* The ranges of the loop index, and what the labels imply. *)
IndexOK(t) ==
  /\ pc[t] \in Scanning => reg[t].i \in Slots
  /\ pc[t] = "verifySeq" => reg[t].i \in 0 .. NumSlots
  /\ pc[t] \in {"write", "readWord"} => reg[t].i \in 1 .. NumWords + 1
  /\ pc[t] = "validate" => reg[t].i = NumWords + 1
  /\ IF pc[t] = "idle" THEN reg[t] = FreshReg ELSE call[t] \in Calls

(* The type invariant. *)
TypeOK ==
  /\ keys \in [Slots -> Keys \cup {NoKey}]
  /\ seqs \in [Slots -> Seqs]
  /\ cold \in [Slots -> Payloads]
  /\ pc \in [Threads -> Labels]
  /\ call \in [Threads -> Calls \cup BadCalls]
  /\ reg \in [Threads -> Regs]
  /\ ret \in [Threads -> Rets]
  /\ \A t \in Threads : IndexOK(t)

(***************************************************************************)
(* A slot is locked exactly while one thread is inside its critical         *)
(* section; its word is then the one the owner saw with the lock bits set,  *)
(* so the unlock computed from the owner's local copy is the successor of   *)
(* what is in memory, and no writer undoes another's version.               *)
(***************************************************************************)
Owns(t, s) == pc[t] \in Owning /\ reg[t].hit = s

SlotOwnership ==
  /\ \A s \in Slots : Odd(seqs[s]) => \E t \in Threads : Owns(t, s)
  /\ \A t \in Threads : pc[t] \in Owning =>
       /\ Odd(seqs[reg[t].hit])
       /\ seqs[reg[t].hit].ver = reg[t].seq.ver
       /\ pc[t] \in Updating => seqs[reg[t].hit].bits = 1
       /\ pc[t] \in Inserting => seqs[reg[t].hit].bits = 3
  /\ \A t, u \in Threads : \A s \in Slots : Owns(t, s) /\ Owns(u, s) => t = u

(***************************************************************************)
(* The sequence-lock promise to readers: while the word a reader loaded is  *)
(* still in the slot, all it has copied so far is what the slot holds now,  *)
(* so a validation that succeeds never hands out parts of two payloads, nor *)
(* a payload with another entry's key.                                      *)
(***************************************************************************)
ReadersSeeOneVersion ==
  \A t \in Threads :
    LET r == reg[t] IN
    pc[t] \in Reading /\ seqs[r.hit] = r.seq =>
      /\ \A w \in Words : w < r.i => r.ctx[w] = cold[r.hit][w]
      /\ pc[t] = "validate" => r.key = keys[r.hit]

(* An entry that belongs together: no key and zeroes, or a key and one *)
(* payload that was inserted under it, whole.                          *)
Whole(k, c) ==
  \/ k = NoKey /\ c = Payload(Zero)
  \/ \E v \in Stamps : v[1] = k /\ c = Payload(v)

(* What a slot shows when no writer is in it is always such an entry, *)
(* whatever the aborted, failed and finished writers did to it.       *)
PublishedEntriesAreWhole ==
  \A s \in Slots : ~Odd(seqs[s]) => Whole(keys[s], cold[s])

(* Every payload a call hands out - found, replaced, evicted, deleted or *)
(* enumerated - is whole and is reported under its own key.              *)
ReturnedContextsAreWhole ==
  \A t \in Threads :
    /\ \/ ret[t].res \in {"Inserted", "Updated", "reported"}
       \/ ret[t].res = "true" /\ call[t].op # "Contains"
    => /\ Whole(ret[t].key, ret[t].ctx)
       /\ ret[t].res # "Inserted" => ret[t].key # NoKey
       /\ call[t].op # "Enumerate" /\ ret[t].res # "Inserted"
            => ret[t].key = call[t].key

(* No two published slots hold the same key. *)
NoDuplicateKeys ==
  \A s, u \in Slots :
    s # u /\ ~Odd(seqs[s]) /\ ~Odd(seqs[u]) /\ keys[s] # NoKey
      => keys[s] # keys[u]

(***************************************************************************)
(* A client discipline: no two calls insert the same key at the same time.  *)
(***************************************************************************)
OneInserterPerKey ==
  \A t, u \in Threads :
    /\ t # u
    /\ pc[t] # "idle" /\ call[t].op = "Insert"
    /\ pc[u] # "idle" /\ call[u].op = "Insert"
    => call[t].key # call[u].key

(* A slot's key and payload change only while it is locked before and after *)
(* the step, and its version never goes back: what a reader's two loads of  *)
(* the word rely on.                                                        *)
StableUnlessLocked ==
  [][\A s \in Slots :
       /\ keys'[s] # keys[s] \/ cold'[s] # cold[s]
            => Odd(seqs[s]) /\ seqs'[s] = seqs[s]
       /\ seqs'[s].ver >= seqs[s].ver
       /\ Odd(seqs[s]) /\ ~Odd(seqs'[s]) => seqs'[s].ver = seqs[s].ver + 1]_vars

(* A positive answer of LookupContext or Contains is true at the moment it *)
(* is given: a published slot holds the key, and the payload returned.     *)
HitsAreCurrent ==
  [][\A t \in Threads :
       /\ call[t].op \in {"Lookup", "Contains"}
       /\ pc[t] # "idle" /\ ret'[t].res = "true"
       => \E s \in Slots :
            /\ ~Odd(seqs[s]) /\ keys[s] = call[t].key
            /\ call[t].op = "Lookup" => cold[s] = ret'[t].ctx]_vars
-----------------------------------------------------------------------------
(***************************************************************************)
(* Fairness.  A thread that runs keeps running: none of the steps of an     *)
(* operation blocks.  Clients need not call.                                *)
(***************************************************************************)
FairSpec == Spec /\ \A t \in Threads : WF_vars(Run(t))

(* Every slot that is locked is unlocked again. *)
LockedSlotIsReleased ==
  \A s \in Slots : Odd(seqs[s]) ~> ~Odd(seqs[s])

(* While slots are locked only finitely often, no reader retries for ever. *)
ReadersFinish ==
  \A t \in Threads :
    pc[t] # "idle" /\ call[t].op \in {"Lookup", "Contains", "Enumerate"}
      ~> pc[t] = "idle"
=============================================================================
