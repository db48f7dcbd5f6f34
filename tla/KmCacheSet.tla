----------------------------- MODULE KmCacheSet -----------------------------
(***************************************************************************)
(* One bucket of the kernel-mode COptimisticCache, km/OptimisticCache.h,    *)
(* under threads and deferred procedure calls (DPCs) that share processors. *)
(* A writer raises its processor to DISPATCH_LEVEL, where no DPC preempts   *)
(* it, before it takes the lock of a slot by adding one to the sequence     *)
(* word, and adds one again to give it up.                                  *)
(*                                                                          *)
(* Every access to the shared slot is a step of its own, except the reads   *)
(* by which a writer captures an old entry.  The words of a payload are     *)
(* copied by plain 128-bit assignments, whose halves the compiler may move  *)
(* in either order.  Steps interleave sequentially consistently.            *)
(***************************************************************************)
EXTENDS Integers, FiniteSets

CONSTANTS
  Threads,    \* the callers: threads at PASSIVE_LEVEL, and DPCs
  Dpcs,       \* those that are DPCs
  CoreOf,     \* the processor each of them runs on
  Keys,       \* the keys that hash to this bucket; key 0 is NoKey
  NoKey,
  Tags,       \* a payload is a pair of the key it was inserted under and
              \*   a tag; its words all carry that pair
  Zero,       \* the word of an all-zero payload
  NumSlots,   \* 8 in the code
  NumWords,   \* 64-bit words of a payload: 0, 1 or 2 (TContextSize)
  MaxSeq      \* bound: a slot is not locked from this sequence number on

ASSUME ThreadsAssumption == IsFiniteSet(Threads)
ASSUME NumSlotsAssumption == NumSlots \in Nat \ {0}
ASSUME NumWordsAssumption == NumWords \in Nat
ASSUME MaxSeqAssumption == MaxSeq \in Nat
ASSUME DpcsAssumption == Dpcs \subseteq Threads /\ Threads \subseteq DOMAIN CoreOf
ASSUME NoKeyAssumption == NoKey \notin Keys
ASSUME ZeroAssumption == Zero \notin Keys \X Tags

VARIABLES
  keys,     \* CacheSetHot::Keys
  seqs,     \* CacheSetHot::Seqs
  cold,     \* CacheSetCold::Contexts, word by word
  raised,   \* the callers inside KeRaiseIrql .. KeLowerIrql
  pc,       \* where each caller is in its operation
  call,     \* the operation each caller runs, or NoCall
  reg,      \* the locals of that operation
  ret       \* what it returned, or reported last

vars == <<keys, seqs, cold, raised, pc, call, reg, ret>>
-----------------------------------------------------------------------------
Slots == 0 .. NumSlots - 1
Words == 1 .. NumWords

Last == NumSlots - 1
None  == -1   \* iTargetIdx before a slot is chosen

Stamps == Keys \X Tags
Payload(v) == [w \in Words |-> v]
Payloads == [Words -> Stamps \cup {Zero}]
IsEmpty(c) == NumWords > 0 /\ c = Payload(Zero)

Odd(seq) == seq % 2 = 1

Ops == {"Insert", "Lookup", "Contains", "Delete", "Enumerate"}
Policies == {"Overwrite", "Keep", "KeepAndRead"}
Call(op, k, v, policy) == [op |-> op, key |-> k, val |-> v, policy |-> policy]
NoCall == Call("none", NoKey, Zero, "Keep")

(* What clients ask for; KeepAndRead is KeepExisting with somewhere to put *)
(* the existing payload.  LookupContext exists for a payload only.         *)
Calls ==
  {Call("Insert", k, Zero, p) : k \in Keys, p \in Policies}
    \cup {Call("Insert", s[1], s, p) : s \in Stamps, p \in Policies}
    \cup {Call(op, k, Zero, "Keep") : op \in {"Contains", "Delete"}, k \in Keys}
    \cup {Call("Lookup", k, Zero, "Keep") : k \in {q \in Keys : NumWords > 0}}
    \cup {Call("Enumerate", NoKey, Zero, "Keep")}

(* Requests that name key 0. *)
BadCalls == {Call(op, NoKey, Zero, "Keep") : op \in Ops \ {"Enumerate"}}

FreshReg ==
  [i      |-> 0,                 \* loop index over slots
   hit    |-> None,              \* iTargetIdx
   exists |-> FALSE,             \* bExists
   seq    |-> 0,                 \* seq, seq1
   key    |-> NoKey,             \* verifyKey, oldKey
   ctx    |-> Payload(Zero),     \* ctx, an out parameter
   todo   |-> {}]                \* words of a copy not moved yet

Result(res, k, c) == [res |-> res, key |-> k, ctx |-> c]
NoResult == Result("none", NoKey, Payload(Zero))

Init ==
  /\ keys = [s \in Slots |-> NoKey]
  /\ seqs = [s \in Slots |-> 0]
  /\ cold = [s \in Slots |-> Payload(Zero)]
  /\ raised = {}
  /\ pc   = [t \in Threads |-> "idle"]
  /\ call = [t \in Threads |-> NoCall]
  /\ reg  = [t \in Threads |-> FreshReg]
  /\ ret  = [t \in Threads |-> NoResult]
-----------------------------------------------------------------------------
Goto(t, label) == pc' = [pc EXCEPT ![t] = label]
Set(t, r) == reg' = [reg EXCEPT ![t] = r]
Slot == <<keys, seqs, cold>>

Leave(t) ==
  /\ Goto(t, "idle")
  /\ Set(t, FreshReg)
  /\ call' = [call EXCEPT ![t] = NoCall]

Return(t, r) ==
  /\ Leave(t)
  /\ ret' = [ret EXCEPT ![t] = r]

(* Mutant of RaiseIrql: the lock is taken at the caller's level. *)
RaiseNothing(t) == UNCHANGED raised

(* KeRaiseIrql(DISPATCH_LEVEL) and KeLowerIrql. *)
RaiseIrql(t) == raised' = raised \cup {t}
LowerIrql(t) == raised' = raised \ {t}

(* A DPC runs to completion on its processor: the thread it has interrupted *)
(* waits, and it does not interrupt a caller at DISPATCH_LEVEL.             *)
SameCore(t) == {u \in Threads \ {t} : CoreOf[u] = CoreOf[t]}
MayRun(t)  == \A u \in SameCore(t) : u \in Dpcs => pc[u] = "idle"
MayBegin(t) == MayRun(t) /\ (t \in Dpcs => SameCore(t) \cap raised = {})

Begin(t) ==
  /\ pc[t] = "idle"
  /\ MayBegin(t)
  /\ \E c \in Calls :
       /\ call' = [call EXCEPT ![t] = c]
       /\ Goto(t, IF c.op \in {"Insert", "Delete"} THEN "find" ELSE "readSeq")
  /\ ret' = [ret EXCEPT ![t] = NoResult]
  /\ UNCHANGED <<Slot, raised, reg>>

(* Key 0 is refused before the bucket is touched. *)
Reject(t) ==
  /\ pc[t] = "idle"
  /\ MayBegin(t)
  /\ \E c \in BadCalls :
       ret' = [ret EXCEPT ![t] =
         Result(IF c.op = "Insert" THEN "Failed" ELSE "false",
                NoKey, Payload(Zero))]
  /\ UNCHANGED <<Slot, raised, pc, call, reg>>
-----------------------------------------------------------------------------
(***************************************************************************)
(* The scan of CheckAndInsert and of Delete, one key per step.              *)
(***************************************************************************)
FindHit(t) ==
  /\ pc[t] = "find"
  /\ keys[reg[t].i] = call[t].key
  /\ IF call[t].op = "Insert" /\ call[t].policy = "Keep"
       THEN Return(t, Result("Updated", NoKey, Payload(Zero)))
       ELSE /\ Set(t, [reg[t] EXCEPT !.hit = reg[t].i, !.exists = TRUE])
            /\ Goto(t, "load")
            /\ UNCHANGED <<call, ret>>
  /\ UNCHANGED <<Slot, raised>>

(* CheckAndInsert remembers the first empty slot it passes. *)
Passing(t) ==
  IF keys[reg[t].i] = NoKey /\ reg[t].hit = None THEN reg[t].i ELSE reg[t].hit

(* Mutant of FindNext: the scan runs past the last slot. *)
FindPastEnd(t) ==
  /\ pc[t] = "find"
  /\ keys[reg[t].i] # call[t].key
  /\ Set(t, [reg[t] EXCEPT !.hit = Passing(t), !.i = @ + 1])
  /\ UNCHANGED <<Slot, raised, pc, call, ret>>

FindNext(t) ==
  /\ pc[t] = "find"
  /\ keys[reg[t].i] # call[t].key
  /\ reg[t].i < Last
  /\ Set(t, [reg[t] EXCEPT !.hit = Passing(t), !.i = @ + 1])
  /\ UNCHANGED <<Slot, raised, pc, call, ret>>

(* An insert takes the empty slot, or a victim the hash of the time picks. *)
FindMiss(t) ==
  /\ pc[t] = "find"
  /\ keys[reg[t].i] # call[t].key
  /\ reg[t].i = Last
  /\ \/ /\ call[t].op = "Delete"
        /\ Return(t, Result("false", NoKey, Payload(Zero)))
     \/ /\ call[t].op = "Insert"
        /\ \E s \in IF Passing(t) = None THEN Slots ELSE {Passing(t)} :
             Set(t, [reg[t] EXCEPT !.hit = s])
        /\ Goto(t, "load")
        /\ UNCHANGED <<call, ret>>
  /\ UNCHANGED <<Slot, raised>>

(* Delete does nothing with an odd word but load it again; CheckAndInsert *)
(* does so, for a 128-bit payload, a bounded number of times.             *)
LoadSeq(t) ==
  /\ \/ pc[t] = "load"
     \/ /\ pc[t] = "try"
        /\ Odd(reg[t].seq)
        /\ call[t].op = "Delete" \/ NumWords > 1
  /\ Set(t, [reg[t] EXCEPT !.seq = seqs[reg[t].hit]])
  /\ Goto(t, "try")
  /\ UNCHANGED <<Slot, raised, call, ret>>

(* Mutant of MayTry: Delete does not look at the parity either. *)
MayTryLocked(t) == pc[t] = "try"

(***************************************************************************)
(* The compare-and-swap of seq to seq + 1 at DISPATCH_LEVEL.  Only Delete   *)
(* looks at the parity of seq first.                                        *)
(***************************************************************************)
MayTry(t) == pc[t] = "try" /\ (call[t].op = "Delete" => ~Odd(reg[t].seq))

TryLock(t) ==
  /\ MayTry(t)
  /\ seqs[reg[t].hit] = reg[t].seq
  /\ reg[t].seq < MaxSeq
  /\ RaiseIrql(t)
  /\ seqs' = [seqs EXCEPT ![reg[t].hit] = reg[t].seq + 1]
  /\ Set(t, [reg[t] EXCEPT !.i = 0])
  /\ Goto(t, IF reg[t].exists THEN "check" ELSE "verifySeq")
  /\ UNCHANGED <<keys, cold, call, ret>>

(* The word moved, or has reached the bound: lower, back off, start over. *)
TryFails(t) ==
  /\ MayTry(t)
  /\ seqs[reg[t].hit] # reg[t].seq \/ reg[t].seq >= MaxSeq
  /\ LowerIrql(t)
  /\ IF call[t].op = "Delete"
       THEN Goto(t, "load") /\ UNCHANGED reg
       ELSE Goto(t, "find") /\ Set(t, FreshReg)
  /\ UNCHANGED <<Slot, call, ret>>

(* A slot found by its key must still hold it. *)
CheckKey(t) ==
  /\ pc[t] = "check"
  /\ \/ /\ keys[reg[t].hit] # call[t].key
        /\ Goto(t, "abort")
        /\ UNCHANGED <<keys, reg>>
     \/ /\ keys[reg[t].hit] = call[t].key
        /\ call[t].op = "Insert"
        /\ Set(t, [reg[t] EXCEPT !.key = call[t].key, !.ctx = cold[reg[t].hit]])
        /\ Goto(t, IF call[t].policy = "Overwrite" THEN "writeKey" ELSE "unlock")
        /\ UNCHANGED keys
     \/ /\ keys[reg[t].hit] = call[t].key
        /\ call[t].op = "Delete"
        /\ keys' = [keys EXCEPT ![reg[t].hit] = NoKey]
        /\ Set(t, [reg[t] EXCEPT !.key = call[t].key, !.ctx = cold[reg[t].hit],
                                 !.todo = Words])
        /\ Goto(t, "write")
  /\ UNCHANGED <<seqs, cold, raised, call, ret>>

(***************************************************************************)
(* The duplicate check of a key not found, over the other slots: a locked   *)
(* slot, or the key, and the insert gives up its own.                       *)
(***************************************************************************)
VerifySeq(t) ==
  /\ pc[t] = "verifySeq"
  /\ reg[t].i <= Last
  /\ reg[t].i # reg[t].hit
  /\ Goto(t, IF Odd(seqs[reg[t].i]) THEN "abort" ELSE "verifyKey")
  /\ UNCHANGED <<Slot, raised, call, reg, ret>>

VerifyKey(t) ==
  /\ pc[t] = "verifyKey"
  /\ IF keys[reg[t].i] = call[t].key
       THEN Goto(t, "abort") /\ UNCHANGED reg
       ELSE Goto(t, "verifySeq") /\ Set(t, [reg[t] EXCEPT !.i = @ + 1])
  /\ UNCHANGED <<Slot, raised, call, ret>>

(* Mutant of VerifySkip: the loop continues without its increment. *)
VerifyStays(t) ==
  /\ pc[t] = "verifySeq"
  /\ reg[t].i = reg[t].hit
  /\ UNCHANGED vars

VerifySkip(t) ==
  /\ pc[t] = "verifySeq"
  /\ reg[t].i = reg[t].hit
  /\ Set(t, [reg[t] EXCEPT !.i = @ + 1])
  /\ UNCHANGED <<Slot, raised, pc, call, ret>>

(* Mutant of VerifyDone: the payload of the evicted entry is not captured. *)
VerifyDoneKeyOnly(t) ==
  /\ pc[t] = "verifySeq"
  /\ reg[t].i > Last
  /\ Set(t, [reg[t] EXCEPT !.key = keys[reg[t].hit]])
  /\ Goto(t, "writeKey")
  /\ UNCHANGED <<Slot, raised, call, ret>>

(* The entry being evicted, if there is one, goes to the out parameters. *)
VerifyDone(t) ==
  /\ pc[t] = "verifySeq"
  /\ reg[t].i > Last
  /\ Set(t, IF keys[reg[t].hit] = NoKey THEN reg[t]
            ELSE [reg[t] EXCEPT !.key = keys[reg[t].hit], !.ctx = cold[reg[t].hit]])
  /\ Goto(t, "writeKey")
  /\ UNCHANGED <<Slot, raised, call, ret>>

(* Mutant of WriteKey: the last word of the payload is not written. *)
WriteKeyShort(t) ==
  /\ pc[t] = "writeKey"
  /\ keys' = [keys EXCEPT ![reg[t].hit] = call[t].key]
  /\ Set(t, [reg[t] EXCEPT !.todo = Words \ {NumWords}])
  /\ Goto(t, "write")
  /\ UNCHANGED <<seqs, cold, raised, call, ret>>

WriteKey(t) ==
  /\ pc[t] = "writeKey"
  /\ keys' = [keys EXCEPT ![reg[t].hit] = call[t].key]
  /\ Set(t, [reg[t] EXCEPT !.todo = Words])
  /\ Goto(t, "write")
  /\ UNCHANGED <<seqs, cold, raised, call, ret>>

WriteWord(t) ==
  /\ pc[t] = "write"
  /\ \E w \in reg[t].todo :
       /\ cold' = [cold EXCEPT ![reg[t].hit][w] = call[t].val]
       /\ Set(t, [reg[t] EXCEPT !.todo = @ \ {w}])
  /\ UNCHANGED <<keys, seqs, raised, pc, call, ret>>

(* Mutant of Release: the word is left alone. *)
ReleaseIrqlOnly(t) == LowerIrql(t) /\ UNCHANGED Slot

(* Add one to the word, and lower. *)
Release(t) ==
  /\ seqs' = [seqs EXCEPT ![reg[t].hit] = @ + 1]
  /\ LowerIrql(t)
  /\ UNCHANGED <<keys, cold>>

Unlock(t) ==
  /\ \/ pc[t] = "unlock"
     \/ pc[t] = "write" /\ reg[t].todo = {}
  /\ Release(t)
  /\ Return(t, Result(IF call[t].op = "Delete" THEN "true"
                      ELSE IF reg[t].exists THEN "Updated" ELSE "Inserted",
                      reg[t].key, reg[t].ctx))

(* Delete gives up on a slot that lost its key; CheckAndInsert starts over. *)
Abort(t) ==
  /\ pc[t] = "abort"
  /\ Release(t)
  /\ \/ /\ call[t].op = "Delete"
        /\ Return(t, Result("false", NoKey, Payload(Zero)))
     \/ /\ call[t].op = "Insert"
        /\ Goto(t, "find")
        /\ Set(t, FreshReg)
        /\ UNCHANGED <<call, ret>>
-----------------------------------------------------------------------------
(***************************************************************************)
(* LookupContext, Contains and Enumerate: a sequence-lock read of slot i,   *)
(* then of the next one.                                                    *)
(***************************************************************************)
NextSlot(t, r, atEnd) ==
  /\ ret' = [ret EXCEPT ![t] = IF reg[t].i < Last THEN r ELSE atEnd]
  /\ IF reg[t].i < Last
       THEN /\ Goto(t, "readSeq")
            /\ Set(t, [FreshReg EXCEPT !.i = reg[t].i + 1])
            /\ UNCHANGED call
       ELSE Leave(t)

NotHere(t) == NextSlot(t, NoResult, Result("false", NoKey, Payload(Zero)))

ReadSeq(t) ==
  /\ pc[t] = "readSeq"
  /\ ~Odd(seqs[reg[t].i])
  /\ Set(t, [reg[t] EXCEPT !.seq = seqs[reg[t].i]])
  /\ Goto(t, "readKey")
  /\ UNCHANGED <<Slot, raised, call, ret>>

(* Another key ends the read of the slot without a second look at the word. *)
ReadKey(t) ==
  /\ pc[t] = "readKey"
  /\ \/ /\ call[t].op # "Enumerate"
        /\ keys[reg[t].i] # call[t].key
        /\ NotHere(t)
     \/ /\ call[t].op = "Enumerate" \/ keys[reg[t].i] = call[t].key
        /\ Set(t, [reg[t] EXCEPT !.key = keys[reg[t].i],
                     !.todo = IF call[t].op = "Contains" THEN {} ELSE Words])
        /\ Goto(t, "readWords")
        /\ UNCHANGED <<call, ret>>
  /\ UNCHANGED <<Slot, raised>>

ReadWord(t) ==
  /\ pc[t] = "readWords"
  /\ \E w \in reg[t].todo :
       Set(t, [reg[t] EXCEPT !.ctx[w] = cold[reg[t].i][w], !.todo = @ \ {w}])
  /\ UNCHANGED <<Slot, raised, pc, call, ret>>

Validating(t) == pc[t] = "readWords" /\ reg[t].todo = {}

(* Mutant of ReadAgain: seq1 is not loaded again. *)
ReadAgainStale(t) ==
  /\ Validating(t)
  /\ seqs[reg[t].i] # reg[t].seq
  /\ Goto(t, "readKey")
  /\ UNCHANGED <<Slot, raised, call, reg, ret>>

ReadAgain(t) ==
  /\ Validating(t)
  /\ seqs[reg[t].i] # reg[t].seq
  /\ Goto(t, "readSeq")
  /\ Set(t, [FreshReg EXCEPT !.i = reg[t].i])
  /\ UNCHANGED <<Slot, raised, call, ret>>

(* Mutant of LookupValidated: the second load of the word is left out. *)
LookupUnvalidated(t) ==
  /\ Validating(t)
  /\ call[t].op = "Lookup"
  /\ IF IsEmpty(reg[t].ctx)
       THEN NotHere(t)
       ELSE Return(t, Result("true", reg[t].key, reg[t].ctx))
  /\ UNCHANGED <<Slot, raised>>

(* An all-zero payload counts as no entry. *)
LookupValidated(t) ==
  /\ Validating(t)
  /\ call[t].op = "Lookup"
  /\ seqs[reg[t].i] = reg[t].seq
  /\ IF IsEmpty(reg[t].ctx)
       THEN NotHere(t)
       ELSE Return(t, Result("true", reg[t].key, reg[t].ctx))
  /\ UNCHANGED <<Slot, raised>>

ContainsValidated(t) ==
  /\ Validating(t)
  /\ call[t].op = "Contains"
  /\ seqs[reg[t].i] = reg[t].seq
  /\ Return(t, Result("true", reg[t].key, Payload(Zero)))
  /\ UNCHANGED <<Slot, raised>>

EnumerateValidated(t) ==
  /\ Validating(t)
  /\ call[t].op = "Enumerate"
  /\ seqs[reg[t].i] = reg[t].seq
  /\ LET r == IF reg[t].key = NoKey THEN NoResult
              ELSE Result("reported", reg[t].key, reg[t].ctx)
     IN  NextSlot(t, r, r)
  /\ UNCHANGED <<Slot, raised>>
-----------------------------------------------------------------------------
Find(t)  == FindHit(t) \/ FindNext(t) \/ FindMiss(t) \/ LoadSeq(t)
Owned(t) == \/ CheckKey(t) \/ VerifySeq(t) \/ VerifyKey(t) \/ VerifySkip(t)
            \/ VerifyDone(t) \/ WriteKey(t) \/ WriteWord(t) \/ Unlock(t) \/ Abort(t)
Read(t)  == \/ ReadSeq(t) \/ ReadKey(t) \/ ReadWord(t) \/ ReadAgain(t)
            \/ LookupValidated(t) \/ ContainsValidated(t) \/ EnumerateValidated(t)

Run(t) == /\ MayRun(t)
          /\ Find(t) \/ TryLock(t) \/ TryFails(t) \/ Owned(t) \/ Read(t)

Next == \E t \in Threads : Begin(t) \/ Reject(t) \/ Run(t)

Spec == Init /\ [][Next]_vars

(* A client discipline: while a call to CheckAndInsert runs, no other call *)
(* to it or to Delete does.                                                *)
Writing(t) == pc[t] # "idle" /\ call[t].op \in {"Insert", "Delete"}
InsertsAlone ==
  \A t, u \in Threads :
    t # u /\ Writing(t) /\ Writing(u) => "Insert" \notin {call[t].op, call[u].op}

DisciplinedSpec == Init /\ [][Next /\ InsertsAlone']_vars

(* A caller that runs keeps running, unless a DPC has its processor; and *)
(* DPCs come to an end, so it gets it back.  Clients need not call.      *)
FairSpec == Spec /\ \A t \in Threads : WF_vars(Run(t))
-----------------------------------------------------------------------------
(***************************************************************************)
(* Properties.                                                              *)
(***************************************************************************)
Owning == {"check", "verifySeq", "verifyKey", "writeKey", "write", "unlock", "abort"}
Labels == Owning \cup {"idle", "find", "load", "try", "readSeq", "readKey", "readWords"}

Regs == [i : 0 .. NumSlots, hit : Slots \cup {None}, exists : BOOLEAN, seq : Nat,
         key : Keys \cup {NoKey}, ctx : Payloads, todo : SUBSET Words]

Results == {"none", "false", "true", "Failed", "Inserted", "Updated", "reported"}

(* The type invariant. *)
TypeOK ==
  /\ keys \in [Slots -> Keys \cup {NoKey}]
  /\ seqs \in [Slots -> Nat]
  /\ cold \in [Slots -> Payloads]
  /\ raised \in SUBSET Threads
  /\ pc \in [Threads -> Labels]
  /\ call \in [Threads -> Calls \cup {NoCall}]
  /\ reg \in [Threads -> Regs]
  /\ ret \in [Threads -> [res : Results, key : Keys \cup {NoKey}, ctx : Payloads]]
  /\ \A t \in Threads :
       /\ pc[t] \in {"find", "verifyKey", "readSeq", "readKey", "readWords"}
            => reg[t].i \in Slots
       /\ pc[t] \in Owning \cup {"load", "try"} => reg[t].hit \in Slots

Owns(t, s) == pc[t] \in Owning /\ reg[t].hit = s

(* A word's parity is that of the number of callers inside the slot, so a  *)
(* slot that everyone has left is never left looking locked: each way out  *)
(* of the critical section adds its one, whatever the others did meanwhile.*)
WordCountsOwners ==
  \A s \in Slots : seqs[s] % 2 = Cardinality({t \in Threads : Owns(t, s)}) % 2

(* A DPC never runs over a thread of its processor that has a slot locked, *)
(* so it never spins for a lock that only its own return can free.         *)
PreemptedOwnsNothing ==
  \A d \in Dpcs : pc[d] # "idle" => \A t \in SameCore(d) : pc[t] \notin Owning

(* One writer at a time is inside a slot, and the word is odd all the while. *)
SlotOwnership ==
  \A s \in Slots :
    /\ Odd(seqs[s]) <=> \E t \in Threads : Owns(t, s)
    /\ \A t, u \in Threads : Owns(t, s) /\ Owns(u, s) => t = u

(* No key and zeroes; or a key and zeroes, or one payload inserted under it. *)
Whole(k, c) ==
  \/ c = Payload(Zero)
  \/ \E v \in Stamps : v[1] = k /\ c = Payload(v)

(* A slot no writer is in shows an entry that belongs together. *)
PublishedEntriesAreWhole ==
  \A s \in Slots : (\A t \in Threads : ~Owns(t, s)) => Whole(keys[s], cold[s])

(* Every payload a call hands out is whole and goes with the key it is  *)
(* reported under: no torn read is ever returned.                       *)
ReturnedContextsAreWhole ==
  \A t \in Threads :
    ret[t].res \in {"true", "Inserted", "Updated", "reported"}
      => Whole(ret[t].key, ret[t].ctx)

(* A slot that looks locked, and so makes readers spin, comes to look free *)
(* again: no owner is suspended for ever, even if two were let in.         *)
LockedSlotIsReleased ==
  \A s \in Slots : Odd(seqs[s]) ~> ~Odd(seqs[s])

(* A DPC that only reads comes to an end, as DPCs must: it waits for no *)
(* writer that waits for it.  Slots are locked finitely often.          *)
DpcReadersFinish ==
  \A d \in Dpcs :
    pc[d] # "idle" /\ call[d].op \in {"Lookup", "Contains", "Enumerate"}
      ~> pc[d] = "idle"
=============================================================================
