----------------------- MODULE KmCacheSetContractProofs -----------------------
(***************************************************************************)
(* The bucket of the kernel-mode cache does what CacheContract promises,    *)
(* while no other writer runs beside a CheckAndInsert: for every number of  *)
(* callers, keys, slots and payload words, and however the halves of a      *)
(* payload are copied.                                                      *)
(***************************************************************************)
EXTENDS KmCacheSetContract, KmCacheSetProofs

(***************************************************************************)
(* One slot per key.                                                        *)
(***************************************************************************)
Distinct ==
  \A s, u \in Slots : s # u /\ keys[s] # NoKey => keys[s] # keys[u]

Missing(t) == \A s \in Slots : keys[s] # call[t].key

(* An insert before it writes its key. *)
Seeking == {"load", "try", "verifySeq", "verifyKey", "writeKey"}

(* What an insert has found out stays true as long as it is alone, so that *)
(* it never gives up a slot it has locked.                                 *)
Searched(t) ==
  call[t].op = "Insert" =>
    /\ pc[t] # "abort"
    /\ pc[t] = "find" => \A s \in Slots : s < reg[t].i => keys[s] # call[t].key
    /\ pc[t] \in Seeking /\ ~reg[t].exists => Missing(t)
    /\ reg[t].exists => keys[reg[t].hit] = call[t].key /\ call[t].policy # "Keep"

(* What the place of a call says of its locals. *)
Located(t) ==
  /\ pc[t] = "idle" => call[t] = NoCall
  /\ pc[t] \in {"find", "verifySeq", "verifyKey"} => ~reg[t].exists
  /\ pc[t] = "check" \/ (pc[t] = "write" /\ call[t].op = "Delete") => reg[t].exists
  /\ pc[t] = "unlock" => /\ call[t].op = "Insert" /\ reg[t].exists
                         /\ call[t].policy # "Overwrite"
  /\ pc[t] \in {"writeKey", "write"} /\ call[t].op = "Insert" /\ reg[t].exists =>
       call[t].policy = "Overwrite"
  /\ call[t].op \in {"Lookup", "Contains"} => ret[t] = NoResult

(* What it has copied, and from where. *)
Copied(t) ==
  LET h == reg[t].hit IN
  /\ pc[t] \in {"find", "load", "try", "check", "verifySeq", "verifyKey"} =>
       reg[t].key = NoKey
  /\ pc[t] \in {"writeKey", "write", "unlock"} /\ reg[t].exists =>
       reg[t].key = call[t].key
  /\ pc[t] = "writeKey" /\ ~reg[t].exists =>
       reg[t].key = keys[h] /\ (keys[h] # NoKey => reg[t].ctx = cold[h])
  /\ pc[t] = "unlock" => cold[h] = reg[t].ctx
  /\ pc[t] = "readWords" /\ call[t].op # "Enumerate" => reg[t].key = call[t].key

Unique == Distinct /\ \A t \in Threads : Searched(t) /\ Located(t) /\ Copied(t)

(* A call that has started is one of those clients make. *)
LEMMA RunningCalls ==
  ASSUME Placed, NEW t \in Threads, pc[t] # "idle"
  PROVE  /\ call[t] \in Calls /\ call[t].op \in Ops
         /\ call[t].op # "Enumerate" => call[t].key \in Keys /\ call[t].key # NoKey
         /\ call[t].op = "Insert" => call[t].policy \in Policies
<1>1. call[t] \in Calls
  BY DEF Placed, TypeOK, Shape, Labels, Finding, Reading, Owning, NoCall, Call
<1> QED
  BY <1>1, NoKeyAssumption DEF Calls, Call, Stamps, Ops

(* Keys change in two ways: an insert writes its own, a delete clears it. *)
LEMMA KeysMove ==
  ASSUME Placed, NEW t \in Threads, Step(t)
  PROVE  \/ keys' = keys
         \/ /\ reg[t].hit \in Slots /\ pc[t] \in Owning
            /\ \/ WriteKey(t) /\ keys'[reg[t].hit] = call[t].key
               \/ /\ CheckKey(t) /\ call[t].op = "Delete" /\ pc'[t] = "write"
                  /\ keys[reg[t].hit] = call[t].key /\ keys'[reg[t].hit] = NoKey
            /\ \A s \in Slots : s # reg[t].hit => keys'[s] = keys[s]
<1>1. /\ keys \in [Slots -> Keys \cup {NoKey}] /\ t \in DOMAIN pc
      /\ pc[t] \in Owning => reg[t].hit \in Slots
  BY DEF Placed, TypeOK
<1>2. CASE CheckKey(t)
  BY <1>1, <1>2 DEF CheckKey, Owning, Goto
<1>3. CASE WriteKey(t)
  BY <1>1, <1>3 DEF WriteKey, Owning
<1>4. CheckKey(t) \/ WriteKey(t) \/ keys' = keys
  BY DEF Step, Begin, Reject, Run, Find, Owned, Read, FindHit, FindNext, FindMiss, LoadSeq,
     TryLock, TryFails, VerifySeq, VerifyKey, VerifySkip, VerifyDone, WriteWord, Unlock,
     Abort, Release, ReadSeq, ReadKey, ReadWord, ReadAgain, LookupValidated,
     ContainsValidated, EnumerateValidated, Slot
<1> QED
  BY <1>2, <1>3, <1>4

(* While an insert runs, nobody else has a slot locked. *)
LEMMA OthersOwnNothing ==
  ASSUME Locking, NEW t \in Threads, pc[t] # "idle", call[t].op = "Insert",
         NEW u \in Threads \ {t}
  PROVE  pc[u] \notin Owning
<1>1. ~Writing(u)
  BY DEF Locking, InsertsAlone, Writing
<1> QED
  BY <1>1 DEF Locking, Placed, Shape, Writing, Owning

(* So nobody else moves a key either. *)
LEMMA SearchedByOthers ==
  ASSUME Locking, NEW t \in Threads, Step(t), NEW u \in Threads \ {t}, Searched(u),
         Located(u)
  PROVE  Searched(u)'
<1>1. pc'[u] = pc[u] /\ reg'[u] = reg[u] /\ call'[u] = call[u] /\ u \in Threads /\ u # t
  BY Frame DEF Framed, Locking, Placed
<1>2. CASE call[u].op = "Insert"
  <2>1. pc[u] # "idle"
    BY <1>2 DEF Located, NoCall, Call
  <2>2. pc[t] \notin Owning
    BY <1>1, <1>2, <2>1, OthersOwnNothing
  <2>3. keys' = keys
    BY <2>2, KeysMove DEF Locking
  <2> QED
    BY <1>1, <2>3 DEF Searched, Missing
<1>3. CASE call[u].op # "Insert"
  BY <1>1, <1>3 DEF Searched
<1> QED
  BY <1>2, <1>3

(* The scan, the lock and the duplicate check of the insert itself: it finds *)
(* its slot as it has left it, and no other slot locked or with its key.     *)
LEMMA SearchedStep ==
  ASSUME Locking, NEW t \in Threads, Step(t), Searched(t), Located(t)
  PROVE  Searched(t)'
<1>1. /\ t \in DOMAIN pc /\ t \in DOMAIN call /\ t \in DOMAIN reg
      /\ reg[t] \in Regs /\ Shape(t) /\ Placed
      /\ pc[t] \in {"find", "verifyKey"} => reg[t].i \in Slots
      /\ pc[t] \in Owning \cup {"load", "try"} => reg[t].hit \in Slots
      /\ \A s \in Slots : s \in Nat /\ s <= Last /\ ~(s < 0)
      /\ FreshReg.i = 0 /\ FreshReg.exists = FALSE
      /\ keys \in [Slots -> Keys \cup {NoKey}]
  BY DEF Locking, Placed, TypeOK, Slots, Last, FreshReg
<1> SUFFICES ASSUME call'[t].op = "Insert" PROVE Searched(t)'
  BY DEF Searched
<1> USE <1>1 DEF Goto, Set, Leave, Return, Slot, Searched, Seeking
<1>2. CASE Begin(t)
  BY <1>2 DEF Begin, Shape
<1>3. CASE Reject(t)
  BY <1>3 DEF Reject, Located, NoCall, Call
<1>4. CASE FindHit(t)
  <2>1. CASE call[t].policy = "Keep" /\ call[t].op = "Insert"
    BY <1>4, <2>1 DEF FindHit, NoCall, Call
  <2>2. CASE ~(call[t].policy = "Keep" /\ call[t].op = "Insert")
    <3>1. /\ call' = call /\ keys' = keys /\ pc'[t] = "load"
          /\ keys[reg[t].i] = call[t].key
          /\ reg'[t].exists /\ reg'[t].hit = reg[t].i
      BY <1>4, <2>2 DEF FindHit, Regs
    <3> QED
      BY <2>2, <3>1
  <2> QED
    BY <2>1, <2>2
<1>5. CASE FindNext(t)
  <2>1. /\ UNCHANGED <<keys, pc, call>> /\ pc[t] = "find"
        /\ reg'[t].i = reg[t].i + 1 /\ reg'[t].exists = reg[t].exists
        /\ keys[reg[t].i] # call[t].key
    BY <1>5 DEF FindNext, Regs
  <2> QED
    BY <2>1 DEF Located
<1>6. CASE FindMiss(t)
  <2>1. CASE call'[t] = NoCall
    BY <2>1 DEF NoCall, Call
  <2>2. CASE call'[t] # NoCall
    <3>1. /\ UNCHANGED <<keys, call>> /\ pc[t] = "find" /\ pc'[t] = "load"
          /\ reg[t].i = Last /\ keys[reg[t].i] # call[t].key
          /\ reg'[t].exists = reg[t].exists
      BY <1>6, <2>2 DEF FindMiss, Regs
    <3>2. Missing(t)
      BY <3>1 DEF Missing
    <3> QED
      BY <3>1, <3>2 DEF Located, Missing
  <2> QED
    BY <2>1, <2>2
<1>7. CASE LoadSeq(t) \/ TryLock(t)
  <2>1. /\ UNCHANGED <<keys, call>> /\ pc[t] \in {"load", "try"}
        /\ pc'[t] \in {"try", "check", "verifySeq"}
        /\ reg'[t].exists = reg[t].exists /\ reg'[t].hit = reg[t].hit
    BY <1>7 DEF LoadSeq, TryLock, MayTry, Regs
  <2> QED
    BY <2>1 DEF Missing
<1>8. CASE TryFails(t)
  BY <1>8 DEF TryFails
<1>9. CASE CheckKey(t)
  <2>1. /\ UNCHANGED call /\ pc[t] = "check" /\ keys[reg[t].hit] = call[t].key
    BY <1>9 DEF CheckKey, Located
  <2>2. /\ UNCHANGED keys /\ pc'[t] \in {"writeKey", "unlock"}
        /\ reg'[t].exists = reg[t].exists /\ reg'[t].hit = reg[t].hit
    BY <1>9, <2>1 DEF CheckKey, Regs
  <2> QED
    BY <2>1, <2>2 DEF Located
<1>10. CASE VerifySeq(t)
  <2>1. /\ UNCHANGED <<keys, call, reg>> /\ pc[t] = "verifySeq" /\ reg[t].i # reg[t].hit
        /\ reg[t].i \in Slots /\ ~reg[t].exists
        /\ pc'[t] = IF Odd(seqs[reg[t].i]) THEN "abort" ELSE "verifyKey"
    BY <1>10, IndexFacts DEF VerifySeq, Regs, Located
  <2>2. ~Odd(seqs[reg[t].i])
    <3>1. \A u \in Threads \ {t} : pc[u] \notin Owning
      BY <2>1, OthersOwnNothing
    <3>2. \A u \in Threads : ~Owns(u, reg[t].i)
      BY <2>1, <3>1 DEF Owns
    <3> QED
      BY <2>1, <3>2 DEF Locking, SlotOwnership
  <2> QED
    BY <2>1, <2>2 DEF Missing
<1>11. CASE VerifyKey(t) \/ VerifySkip(t) \/ VerifyDone(t)
  <2>1. /\ UNCHANGED <<keys, call>> /\ pc[t] \in {"verifySeq", "verifyKey"}
        /\ ~reg[t].exists /\ Missing(t)
    BY <1>11 DEF VerifyKey, VerifySkip, VerifyDone, Located
  <2>2. /\ pc'[t] \in {"verifySeq", "writeKey"}
        /\ reg'[t].exists = reg[t].exists /\ reg'[t].hit = reg[t].hit
    <3>1. CASE VerifyKey(t)
      BY <2>1, <3>1 DEF VerifyKey, Regs, Missing
    <3>2. CASE VerifySkip(t)
      BY <3>2 DEF VerifySkip, Regs
    <3>3. CASE VerifyDone(t)
      BY <3>3 DEF VerifyDone, Regs
    <3> QED
      BY <1>11, <3>1, <3>2, <3>3
  <2> QED
    BY <2>1, <2>2 DEF Missing
<1>12. CASE WriteKey(t)
  <2>1. /\ UNCHANGED call /\ pc'[t] = "write" /\ reg'[t].hit = reg[t].hit
        /\ reg'[t].exists = reg[t].exists /\ keys'[reg[t].hit] = call[t].key
    BY <1>12 DEF WriteKey, Regs, Owning
  <2> QED
    BY <2>1
<1>13. CASE WriteWord(t)
  <2>1. /\ UNCHANGED <<keys, call, pc>> /\ pc[t] = "write"
        /\ reg'[t].hit = reg[t].hit /\ reg'[t].exists = reg[t].exists
    BY <1>13 DEF WriteWord, Regs
  <2> QED
    BY <2>1
<1>14. CASE Unlock(t)
  BY <1>14 DEF Unlock, NoCall, Call
<1>15. CASE Abort(t)
  BY <1>15 DEF Abort
<1>16. CASE Read(t)
  <2>1. call'[t] = call[t] \/ call'[t] = NoCall
    BY <1>16 DEF Read, ReadSeq, ReadKey, ReadWord, ReadAgain, LookupValidated,
      ContainsValidated, EnumerateValidated, NotHere, NextSlot
  <2>2. pc[t] \in Reading
    BY <1>16 DEF Read, ReadSeq, ReadKey, ReadWord, ReadAgain, LookupValidated,
      ContainsValidated, EnumerateValidated, Validating, Reading
  <2> QED
    BY <2>1, <2>2 DEF Shape, NoCall, Call
<1> QED
  BY <1>2, <1>3, <1>4, <1>5, <1>6, <1>7, <1>8, <1>9, <1>10, <1>11, <1>12, <1>13,
     <1>14, <1>15, <1>16
  DEF Step, Run, Find, Owned

(* The check of the key copies the entry, and touches no other local of use. *)
LEMMA CheckedRegs ==
  ASSUME Placed, NEW t \in Threads, CheckKey(t)
  PROVE  /\ reg'[t].exists = reg[t].exists /\ reg'[t].hit = reg[t].hit
         /\ reg'[t].i = reg[t].i
         /\ pc'[t] # "abort" =>
              /\ keys[reg[t].hit] = call[t].key
              /\ reg'[t].key = call[t].key /\ reg'[t].ctx = cold[reg[t].hit]
         /\ pc'[t] = "abort" => reg' = reg
<1>1. reg[t] \in Regs /\ t \in DOMAIN reg /\ t \in DOMAIN pc
  BY DEF Placed, TypeOK
<1>2. CASE pc'[t] = "abort" /\ UNCHANGED reg
  BY <1>2
<1>3. CASE /\ keys[reg[t].hit] = call[t].key /\ pc'[t] # "abort"
           /\ reg'[t] = [reg[t] EXCEPT !.key = call[t].key, !.ctx = cold[reg[t].hit]]
  BY <1>1, <1>3 DEF Regs
<1>4. CASE /\ keys[reg[t].hit] = call[t].key /\ pc'[t] # "abort"
           /\ reg'[t] = [reg[t] EXCEPT !.key = call[t].key, !.ctx = cold[reg[t].hit],
                                       !.todo = Words]
  BY <1>1, <1>4 DEF Regs
<1> QED
  BY <1>1, <1>2, <1>3, <1>4 DEF CheckKey, Goto, Set

(* A step keeps the keys of the slots apart: an insert writes one that no *)
(* slot holds, or that its own slot has.                                  *)
LEMMA DistinctStep ==
  ASSUME Locking, Distinct, NEW t \in Threads, Step(t), Searched(t), Located(t)
  PROVE  Distinct'
<1>1. CASE keys' = keys
  BY <1>1 DEF Distinct
<1>2. CASE /\ reg[t].hit \in Slots /\ WriteKey(t) /\ keys'[reg[t].hit] = call[t].key
           /\ \A s \in Slots : s # reg[t].hit => keys'[s] = keys[s]
  <2>1. pc[t] = "writeKey" /\ call[t].op = "Insert"
    BY <1>2 DEF WriteKey, Locking, Placed, Shape
  <2>2. Missing(t) \/ keys[reg[t].hit] = call[t].key
    BY <2>1 DEF Searched, Seeking
  <2> QED
    BY <1>2, <2>2 DEF Distinct, Missing
<1>3. CASE /\ reg[t].hit \in Slots /\ keys'[reg[t].hit] = NoKey
           /\ \A s \in Slots : s # reg[t].hit => keys'[s] = keys[s]
  BY <1>3 DEF Distinct
<1> QED
  BY <1>1, <1>2, <1>3, KeysMove DEF Locking

(* What the place of a call says of its locals is true of the next place. *)
LEMMA LocatedStep ==
  ASSUME Locking, NEW t \in Threads, Step(t), Searched(t), Located(t)
  PROVE  Located(t)'
<1>1. /\ t \in DOMAIN pc /\ t \in DOMAIN call /\ t \in DOMAIN reg /\ t \in DOMAIN ret
      /\ reg[t] \in Regs /\ Shape(t) /\ Placed
      /\ FreshReg.exists = FALSE /\ FreshReg \in Regs
  BY ValueFacts DEF Locking, Placed, TypeOK, FreshReg
<1> DEFINE Over == pc'[t] = "idle" /\ call'[t] = NoCall
           Going == /\ call' = call /\ ret' = ret /\ pc[t] # "idle" /\ pc'[t] # "idle"
                    /\ reg'[t].exists = reg[t].exists
<1> USE DEF Goto, Set, Leave, Return
<1>2. Over => Located(t)'
  BY DEF Located, NoCall, Call
<1>3. CASE Begin(t)
  <2>1. /\ pc[t] = "idle" /\ pc'[t] \in {"find", "readSeq"} /\ ret'[t] = NoResult
        /\ reg' = reg
    BY <1>1, <1>3 DEF Begin
  <2> QED
    BY <1>1, <2>1 DEF Located, Shape
<1>4. CASE Reject(t)
  BY <1>2, <1>4 DEF Reject, Located
<1>5. CASE FindHit(t)
  <2>1. CASE Over
    BY <1>2, <2>1
  <2>2. CASE ~Over
    <3>1. call' = call /\ ret' = ret /\ pc'[t] = "load" /\ pc[t] = "find"
      BY <1>1, <1>5, <2>2 DEF FindHit
    <3> QED
      BY <1>1, <3>1 DEF Located, Shape, Finding
  <2> QED
    BY <2>1, <2>2
<1>6. CASE FindNext(t)
  <2>1. Going /\ pc'[t] = "find" /\ pc[t] = "find"
    BY <1>1, <1>6 DEF FindNext, Regs
  <2> QED
    BY <2>1 DEF Located
<1>7. CASE FindMiss(t)
  <2>1. CASE Over
    BY <1>2, <2>1
  <2>2. CASE ~Over
    <3>1. call' = call /\ ret' = ret /\ pc'[t] = "load" /\ pc[t] = "find"
      BY <1>1, <1>7, <2>2 DEF FindMiss
    <3> QED
      BY <1>1, <3>1 DEF Located, Shape, Finding
  <2> QED
    BY <2>1, <2>2
<1>8. CASE LoadSeq(t)
  <2>1. Going /\ pc'[t] = "try"
    BY <1>1, <1>8 DEF LoadSeq, Regs
  <2> QED
    BY <2>1 DEF Located
<1>9. CASE TryLock(t)
  <2>1. Going /\ pc'[t] = IF reg[t].exists THEN "check" ELSE "verifySeq"
    BY <1>1, <1>9 DEF TryLock, MayTry, Regs
  <2> QED
    BY <1>1, <2>1 DEF Located, Regs
<1>10. CASE TryFails(t)
  <2>1. /\ call' = call /\ ret' = ret /\ pc[t] = "try"
        /\ pc'[t] = "load" \/ (pc'[t] = "find" /\ reg'[t] = FreshReg)
    BY <1>1, <1>10 DEF TryFails, MayTry
  <2> QED
    BY <1>1, <2>1 DEF Located
<1>11. CASE CheckKey(t)
  <2>1. /\ call' = call /\ ret' = ret /\ pc[t] = "check"
        /\ \/ pc'[t] = "abort"
           \/ /\ call[t].op = "Insert"
              /\ pc'[t] = IF call[t].policy = "Overwrite" THEN "writeKey" ELSE "unlock"
           \/ call[t].op = "Delete" /\ pc'[t] = "write"
    BY <1>1, <1>11 DEF CheckKey
  <2>2. reg'[t].exists = reg[t].exists
    BY <1>11, CheckedRegs DEF Locking
  <2> QED
    BY <1>1, <2>1, <2>2 DEF Located
<1>12. CASE VerifySeq(t) \/ VerifyKey(t) \/ VerifySkip(t)
  <2>1. /\ Going /\ pc[t] \in {"verifySeq", "verifyKey"}
        /\ pc'[t] \in {"verifySeq", "verifyKey", "abort"}
    BY <1>1, <1>12 DEF VerifySeq, VerifyKey, VerifySkip, Regs
  <2> QED
    BY <2>1 DEF Located
<1>13. CASE VerifyDone(t)
  <2>1. Going /\ pc[t] = "verifySeq" /\ pc'[t] = "writeKey"
    BY <1>1, <1>13 DEF VerifyDone, Regs
  <2> QED
    BY <2>1 DEF Located
<1>14. CASE WriteKey(t) \/ WriteWord(t)
  <2>1. Going /\ pc[t] \in {"writeKey", "write"} /\ pc'[t] = "write"
    BY <1>1, <1>14 DEF WriteKey, WriteWord, Regs
  <2> QED
    BY <1>1, <2>1 DEF Located, Shape
<1>15. CASE Unlock(t)
  BY <1>1, <1>2, <1>15 DEF Unlock
<1>16. CASE Abort(t)
  BY <1>1, <1>2, <1>16 DEF Abort, Searched
<1>17. CASE Read(t)
  <2>1. CASE Over
    BY <1>2, <2>1
  <2>2. CASE ~Over
    <3>1. /\ call' = call /\ pc[t] \in Reading /\ pc'[t] \in Reading
          /\ ret' = ret \/ call[t].op = "Enumerate" \/ ret'[t] = NoResult
      BY <1>1, <1>17, <2>2 DEF Read, ReadSeq, ReadKey, ReadWord, ReadAgain, LookupValidated,
        ContainsValidated, EnumerateValidated, NotHere, NextSlot, Validating, Reading
    <3> QED
      BY <3>1 DEF Located, Reading
  <2> QED
    BY <2>1, <2>2
<1> QED
  BY <1>3, <1>4, <1>5, <1>6, <1>7, <1>8, <1>9, <1>10, <1>11, <1>12, <1>13, <1>14,
     <1>15, <1>16, <1>17
  DEF Step, Run, Find, Owned

(* What a call has copied it keeps, whatever the others do. *)
LEMMA CopiedByOthers ==
  ASSUME Sound, NEW t \in Threads, Step(t), NEW u \in Threads \ {t}, Copied(u)
  PROVE  Copied(u)'
<1>1. pc'[u] = pc[u] /\ reg'[u] = reg[u] /\ call'[u] = call[u]
  BY Frame DEF Framed, Sound, Locking, Placed
<1>2. CASE pc[u] \in {"writeKey", "unlock"}
  <2>1. reg[u].hit \in Slots /\ Owns(u, reg[u].hit)
    BY <1>2 DEF Sound, Locking, Placed, TypeOK, Owns, Owning
  <2>2. ~Owns(t, reg[u].hit)
    BY <2>1 DEF Sound, Locking, SlotOwnership
  <2>3. keys'[reg[u].hit] = keys[reg[u].hit] /\ cold'[reg[u].hit] = cold[reg[u].hit]
    BY <2>1, <2>2, OnlyOwners DEF Sound, Locking
  <2> QED
    BY <1>1, <1>2, <2>3 DEF Copied
<1>3. CASE pc[u] \notin {"writeKey", "unlock"}
  BY <1>1, <1>3 DEF Copied
<1> QED
  BY <1>2, <1>3

(* What a call copies, and when. *)
LEMMA CopiedStep ==
  ASSUME Sound, NEW t \in Threads, Step(t), Searched(t), Located(t), Copied(t)
  PROVE  Copied(t)'
<1>1. /\ t \in DOMAIN pc /\ t \in DOMAIN call /\ t \in DOMAIN reg /\ t \in DOMAIN ret
      /\ reg[t] \in Regs /\ Shape(t) /\ Placed /\ Captured(t)
      /\ FreshReg.exists = FALSE /\ FreshReg \in Regs /\ FreshReg.key = NoKey
      /\ pc[t] \in Owning \cup {"load", "try"} => reg[t].hit \in Slots
  BY ValueFacts DEF Sound, Contents, Locking, Placed, TypeOK, FreshReg
<1> DEFINE Unwritten == {"find", "load", "try", "check", "verifySeq", "verifyKey"}
           Listed == Unwritten \cup {"writeKey", "write", "unlock", "readWords"}
<1> USE DEF Goto, Set, Leave, Return, Slot
<1>2. pc'[t] \notin Listed => Copied(t)'
  BY DEF Copied
<1>3. pc'[t] \in Unwritten /\ reg'[t].key = NoKey => Copied(t)'
  BY DEF Copied
<1>4. CASE Begin(t)
  <2>1. pc[t] = "idle" /\ pc'[t] \in {"find", "readSeq"} /\ reg' = reg
    BY <1>1, <1>4 DEF Begin
  <2> QED
    BY <1>1, <1>2, <1>3, <2>1 DEF Shape
<1>5. CASE Reject(t)
  BY <1>2, <1>5 DEF Reject
<1>6. CASE Find(t)
  <2>1. CASE pc'[t] = "idle"
    BY <1>2, <2>1
  <2>2. CASE pc'[t] # "idle"
    <3>1. pc[t] \in Unwritten /\ pc'[t] \in Unwritten
      BY <1>1, <1>6, <2>2 DEF Find, FindHit, FindNext, FindMiss, LoadSeq
    <3>2. reg'[t].key = reg[t].key
      <4>1. CASE FindHit(t)
        BY <1>1, <2>2, <4>1 DEF FindHit, Regs
      <4>2. CASE FindNext(t)
        BY <1>1, <4>2 DEF FindNext, Regs
      <4>3. CASE FindMiss(t)
        BY <1>1, <2>2, <4>3 DEF FindMiss, Regs
      <4>4. CASE LoadSeq(t)
        BY <1>1, <4>4 DEF LoadSeq, Regs
      <4> QED
        BY <1>6, <4>1, <4>2, <4>3, <4>4 DEF Find
    <3> QED
      BY <1>3, <3>1, <3>2 DEF Copied
  <2> QED
    BY <2>1, <2>2
<1>7. CASE TryLock(t)
  <2>1. pc[t] = "try" /\ pc'[t] \in Unwritten /\ reg'[t].key = reg[t].key
    BY <1>1, <1>7 DEF TryLock, MayTry, Regs
  <2> QED
    BY <1>3, <2>1 DEF Copied
<1>8. CASE TryFails(t)
  <2>1. pc[t] = "try" /\ pc'[t] \in Unwritten /\ (reg' = reg \/ reg'[t] = FreshReg)
    BY <1>1, <1>8 DEF TryFails, MayTry
  <2> QED
    BY <1>1, <1>3, <2>1 DEF Copied
<1>9. CASE CheckKey(t)
  <2>1. /\ pc[t] = "check" /\ pc'[t] \in {"abort", "writeKey", "unlock", "write"}
        /\ UNCHANGED <<cold, call>> /\ reg[t].hit \in Slots /\ reg[t].exists
    BY <1>1, <1>9 DEF CheckKey, Owning, Located
  <2>2. pc'[t] # "abort" => /\ reg'[t].key = call[t].key /\ reg'[t].ctx = cold[reg[t].hit]
                            /\ reg'[t].hit = reg[t].hit /\ reg'[t].exists
    BY <1>1, <1>9, <2>1, CheckedRegs
  <2> QED
    BY <2>1, <2>2 DEF Copied
<1>10. CASE VerifySeq(t) \/ VerifyKey(t) \/ VerifySkip(t)
  <2>1. /\ pc[t] \in Unwritten /\ pc'[t] \in Unwritten \cup {"abort"}
        /\ reg'[t].key = reg[t].key
    BY <1>1, <1>10 DEF VerifySeq, VerifyKey, VerifySkip, Regs
  <2> QED
    BY <1>2, <1>3, <2>1 DEF Copied
<1>11. CASE VerifyDone(t)
  <2>1. /\ pc[t] = "verifySeq" /\ pc'[t] = "writeKey" /\ UNCHANGED <<keys, cold, call>>
        /\ ~reg[t].exists /\ reg[t].key = NoKey
    BY <1>1, <1>11 DEF VerifyDone, Located, Copied
  <2>2. /\ reg'[t].hit = reg[t].hit /\ reg'[t].exists = reg[t].exists
        /\ reg'[t].key = keys[reg[t].hit]
        /\ keys[reg[t].hit] # NoKey => reg'[t].ctx = cold[reg[t].hit]
    <3>1. CASE keys[reg[t].hit] = NoKey
      BY <1>1, <1>11, <2>1, <3>1 DEF VerifyDone
    <3>2. CASE keys[reg[t].hit] # NoKey
      BY <1>1, <1>11, <3>2 DEF VerifyDone, Regs
    <3> QED
      BY <3>1, <3>2
  <2> QED
    BY <2>1, <2>2 DEF Copied
<1>12. CASE WriteKey(t) \/ WriteWord(t)
  <2>1. /\ pc[t] \in {"writeKey", "write"} /\ pc'[t] = "write" /\ UNCHANGED call
        /\ reg'[t].key = reg[t].key /\ reg'[t].exists = reg[t].exists
    BY <1>1, <1>12 DEF WriteKey, WriteWord, Regs
  <2> QED
    BY <2>1 DEF Copied
<1>13. CASE Unlock(t) \/ Abort(t)
  <2>1. pc'[t] = "idle" \/ (pc'[t] = "find" /\ reg'[t] = FreshReg)
    BY <1>1, <1>13 DEF Unlock, Abort
  <2> QED
    BY <1>1, <1>2, <1>3, <2>1
<1>14. CASE Read(t)
  <2>1. /\ pc'[t] = "readWords" => /\ pc[t] \in {"readKey", "readWords"} /\ call' = call
                                   /\ ReadKey(t) \/ ReadWord(t)
        /\ pc'[t] \in Reading \cup {"idle"}
    BY <1>1, <1>14 DEF Read, ReadSeq, ReadKey, ReadWord, ReadAgain, LookupValidated,
        ContainsValidated, EnumerateValidated, NotHere, NextSlot, Validating, Reading
  <2>2. CASE pc'[t] = "readWords"
    <3>1. CASE ReadKey(t)
      <4>1. call[t].op = "Enumerate" \/ keys[reg[t].i] = call[t].key
        BY <1>1, <2>2, <3>1 DEF ReadKey, NotHere, NextSlot
      <4>2. pc[t] = "readKey" /\ (call[t].op # "Enumerate" => reg'[t].key = keys[reg[t].i])
        BY <1>1, <2>2, <3>1 DEF ReadKey, NotHere, NextSlot, Regs
      <4> QED
        BY <2>1, <2>2, <4>1, <4>2 DEF Copied
    <3>2. CASE ReadWord(t)
      <4>1. PICK w \in reg[t].todo :
              reg'[t] = [reg[t] EXCEPT !.ctx[w] = cold[reg[t].i][w], !.todo = @ \ {w}]
        BY <1>1, <3>2 DEF ReadWord
      <4>2. reg'[t].key = reg[t].key
        BY <1>1, <4>1 DEF Regs
      <4>3. pc[t] = "readWords"
        BY <3>2 DEF ReadWord
      <4> QED
        BY <2>1, <2>2, <4>2, <4>3 DEF Copied
    <3> QED
      BY <2>1, <2>2, <3>1, <3>2
  <2>3. CASE pc'[t] # "readWords"
    BY <1>2, <2>1, <2>3 DEF Reading
  <2> QED
    BY <2>2, <2>3
<1> QED
  BY <1>4, <1>5, <1>6, <1>7, <1>8, <1>9, <1>10, <1>11, <1>12, <1>13, <1>14
  DEF Step, Run, Owned

(* The discipline only leaves behaviours out: what is proved of the bucket *)
(* holds of it.                                                            *)
LEMMA ContractIsDisciplined == CDisciplinedSpec => DisciplinedSpec
<1>1. CInit => Init
  BY DEF CInit
<1>2. [CNext /\ InsertsAlone']_cvars => [Next /\ InsertsAlone']_vars
  BY DEF CNext, cvars
<1> QED
  BY <1>1, <1>2, PTL DEF CDisciplinedSpec, DisciplinedSpec

(* Everything above is invariant together, under the discipline. *)
LEMMA UniqueInvariant == CDisciplinedSpec => [](Sound /\ Unique)
<1>1. CInit => Sound /\ Unique
  <2>1. CInit => Unique
    BY DEF CInit, Init, Unique, Distinct, Searched, Seeking, Located, Copied, NoCall, Call,
      FreshReg
  <2> QED
    BY <2>1, SoundInvariant DEF CInit
<1>2. Sound /\ Unique /\ [CNext /\ InsertsAlone']_cvars => Unique'
  <2> SUFFICES ASSUME Sound, Unique, [CNext /\ InsertsAlone']_cvars
               PROVE  Unique'
    OBVIOUS
  <2>1. CASE UNCHANGED cvars
    BY <2>1 DEF cvars, vars, Unique, Distinct, Searched, Missing, Located, Copied
  <2>2. ASSUME NEW t \in Threads, Step(t) PROVE Unique'
    <3>1. Distinct' /\ Searched(t)' /\ Located(t)' /\ Copied(t)'
      BY <2>2, DistinctStep, SearchedStep, LocatedStep, CopiedStep DEF Sound, Unique
    <3>2. ASSUME NEW u \in Threads \ {t} PROVE Searched(u)' /\ Located(u)' /\ Copied(u)'
      <4>1. Searched(u)' /\ Copied(u)'
        BY <2>2, SearchedByOthers, CopiedByOthers DEF Sound, Unique
      <4>2. Located(u)'
        <5>1. /\ pc'[u] = pc[u] /\ reg'[u] = reg[u] /\ call'[u] = call[u]
              /\ ret'[u] = ret[u]
          BY <2>2, Frame DEF Framed, Sound, Locking, Placed
        <5> QED
          BY <5>1 DEF Unique, Located
      <4> QED
        BY <4>1, <4>2
    <3> QED
      BY <3>1, <3>2 DEF Unique
  <2> QED
    BY <2>1, <2>2 DEF CNext, Next, Step
<1>3. Sound /\ [CNext /\ InsertsAlone']_cvars => Sound'
  <2>1. [CNext /\ InsertsAlone']_cvars => [Next /\ InsertsAlone']_vars
    BY DEF CNext, cvars
  <2> QED
    BY <2>1, SoundInvariant
<1> QED
  BY <1>1, <1>2, <1>3, PTL DEF CDisciplinedSpec
-----------------------------------------------------------------------------
(***************************************************************************)
(* The mapping.                                                             *)
(***************************************************************************)
Asked(t) == call[t].op \in {"Lookup", "Contains", "Delete"}

Holds(s, k) == Shown(s) /\ keys[s] = k

(* While no moment without the key has been noted, some slot shows it; the *)
(* scan still has that slot before it, or has chosen it.                   *)
Noted(t) ==
  /\ missed[t] => Asked(t)
  /\ Asked(t) /\ ~missed[t] =>
       /\ Contract!There(call[t].op, call[t].key)
       /\ pc[t] # "abort"
       /\ \E s \in Slots :
            /\ Holds(s, call[t].key)
            /\ pc[t] \in Reading \cup {"find"} => s >= reg[t].i
            /\ pc[t] \in {"load", "try", "check"} => s = reg[t].hit

Faithful == missed \in [Threads -> BOOLEAN] /\ \A t \in Threads : Noted(t)

(* The owner of a slot hides a new entry until it unlocks, and shows the   *)
(* old payload of an entry it updates.                                     *)
Hiding(t) == call[t].op = "Insert" /\ ~reg[t].exists /\ pc[t] = "write"
Keeping(t) ==
  call[t].op = "Insert" /\ reg[t].exists /\ pc[t] \in {"writeKey", "write", "unlock"}

(* What a slot shows by itself, and in the hands of its owner. *)
Views ==
  /\ \A s \in Slots : (\A t \in Threads : ~Owns(t, s)) =>
       /\ Shown(s) <=> keys[s] # NoKey
       /\ HeldPayload(s) = cold[s]
  /\ \A t \in Threads : \A s \in Slots : Owns(t, s) =>
       /\ Shown(s) <=> keys[s] # NoKey /\ ~Hiding(t)
       /\ HeldPayload(s) = IF Keeping(t) THEN reg[t].ctx ELSE cold[s]

HeldFacts ==
  /\ HeldEntries = [k \in DOMAIN HeldEntries |-> HeldEntries[k]]
  /\ \A s \in Slots : Shown(s) => /\ keys[s] # NoKey
                                  /\ keys[s] \in DOMAIN HeldEntries
                                  /\ HeldEntries[keys[s]] = HeldPayload(s)
  /\ \A k \in DOMAIN HeldEntries : \E s \in Slots : Holds(s, k)

(* A slot has one owner, so that is who says what it shows. *)
LEMMA ViewOfOwner == SlotOwnership => Views
<1> SUFFICES ASSUME SlotOwnership PROVE Views
  OBVIOUS
<1>1. ASSUME NEW s \in Slots, \A t \in Threads : ~Owns(t, s)
      PROVE  (Shown(s) <=> keys[s] # NoKey) /\ HeldPayload(s) = cold[s]
  BY <1>1 DEF Shown, Filling, Replacing, HeldPayload
<1>2. ASSUME NEW t \in Threads, NEW s \in Slots, Owns(t, s)
      PROVE  /\ Shown(s) <=> keys[s] # NoKey /\ ~Hiding(t)
             /\ HeldPayload(s) = IF Keeping(t) THEN reg[t].ctx ELSE cold[s]
  <2>1. Odd(seqs[s]) /\ \A u \in Threads : Owns(u, s) <=> u = t
    BY <1>2 DEF SlotOwnership
  <2>2. Shown(s) <=> keys[s] # NoKey /\ ~Hiding(t)
    BY <2>1 DEF Shown, Filling, Hiding
  <2>3. \A u \in Threads : Replacing(u, s) <=> u = t /\ Keeping(t)
    BY <2>1 DEF Replacing, Keeping
  <2>4. CASE Keeping(t)
    <3> DEFINE c == CHOOSE u \in Threads : Replacing(u, s)
    <3>1. c \in Threads /\ Replacing(c, s)
      BY <2>3, <2>4
    <3>2. c = t
      BY <2>3, <3>1
    <3> QED
      BY <2>1, <2>2, <2>4, <3>1, <3>2 DEF HeldPayload
  <2>5. CASE ~Keeping(t)
    BY <2>2, <2>3, <2>5 DEF HeldPayload
  <2> QED
    BY <2>4, <2>5
<1> QED
  BY <1>1, <1>2 DEF Views

(* Distinct keys make the entries a map: each key shown in one slot. *)
LEMMA EntriesOfSlots == Distinct => HeldFacts
<1> SUFFICES ASSUME Distinct PROVE HeldFacts
  OBVIOUS
<1> DEFINE D == {keys[s] : s \in {u \in Slots : Shown(u)}}
           At(k) == CHOOSE s \in Slots : Shown(s) /\ keys[s] = k
<1>1. HeldEntries = [k \in D |-> HeldPayload(At(k))]
  BY DEF HeldEntries
<1>2. ASSUME NEW s \in Slots, Shown(s)
      PROVE  keys[s] # NoKey /\ keys[s] \in D /\ At(keys[s]) = s
  <2>1. keys[s] # NoKey /\ keys[s] \in D
    BY <1>2 DEF Shown
  <2>2. At(keys[s]) \in Slots /\ keys[At(keys[s])] = keys[s]
    BY <1>2
  <2>3. At(keys[s]) = s
    BY <2>1, <2>2 DEF Distinct
  <2> QED
    BY <2>1, <2>3
<1>3. \A k \in D : \E s \in Slots : Holds(s, k)
  BY DEF Holds
<1> HIDE DEF D, At
<1>4. DOMAIN HeldEntries = D
  BY <1>1
<1>5. \A s \in Slots : Shown(s) => HeldEntries[keys[s]] = HeldPayload(s)
  BY <1>1, <1>2
<1>6. HeldEntries = [k \in DOMAIN HeldEntries |-> HeldEntries[k]]
  BY <1>1
<1> QED
  BY <1>2, <1>3, <1>4, <1>5, <1>6 DEF HeldFacts

Same(s) ==
  /\ keys'[s] = keys[s]
  /\ Shown(s)' <=> Shown(s)
  /\ HeldPayload(s)' = HeldPayload(s)

(* When one slot changes, the map changes at its key at most. *)
LEMMA EntriesMove ==
  ASSUME Distinct, Distinct', HeldFacts, HeldFacts',
         NEW h \in Slots, \A s \in Slots \ {h} : Same(s)
  PROVE  /\ Same(h) \/ (~Shown(h) /\ ~Shown(h)') => HeldEntries' = HeldEntries
         /\ Shown(h) /\ ~Shown(h)' => HeldEntries' = Contract!Without(keys[h])
         /\ Shown(h)' /\ (Shown(h) => keys'[h] = keys[h])
              => HeldEntries' = Contract!With(keys'[h], HeldPayload(h)')
<1> DEFINE E == HeldEntries
           F == HeldEntries'
<1>1. /\ E = [k \in DOMAIN E |-> E[k]] /\ F = [k \in DOMAIN F |-> F[k]]
      /\ \A s \in Slots : Shown(s) => /\ keys[s] # NoKey /\ keys[s] \in DOMAIN E
                                      /\ E[keys[s]] = HeldPayload(s)
      /\ \A s \in Slots : Shown(s)' => /\ keys'[s] # NoKey /\ keys'[s] \in DOMAIN F
                                       /\ F[keys'[s]] = HeldPayload(s)'
  BY DEF HeldFacts
<1>2. \A k : k \in DOMAIN E <=> \E s \in Slots : Shown(s) /\ keys[s] = k
  BY DEF HeldFacts, Holds
<1>3. \A k : k \in DOMAIN F <=> \E s \in Slots : Shown(s)' /\ keys'[s] = k
  BY DEF HeldFacts, Holds
<1>4. \A s \in Slots \ {h} : Same(s)
  OBVIOUS
<1>5. /\ \A s, u \in Slots : s # u /\ keys[s] # NoKey => keys[s] # keys[u]
      /\ \A s, u \in Slots : s # u /\ keys'[s] # NoKey => keys'[s] # keys'[u]
  BY DEF Distinct
<1> HIDE DEF E, F
<1>6. ASSUME Same(h) \/ (~Shown(h) /\ ~Shown(h)') PROVE F = E
  <2>1. \A s \in Slots : \/ Same(s)
                         \/ ~Shown(s) /\ ~Shown(s)'
    BY <1>4, <1>6
  <2>2. DOMAIN F = DOMAIN E
    BY <1>2, <1>3, <2>1 DEF Same
  <2>3. ASSUME NEW k \in DOMAIN E PROVE F[k] = E[k]
    <3>1. PICK s \in Slots : Shown(s) /\ keys[s] = k
      BY <1>2, <2>3
    <3> QED
      BY <1>1, <2>1, <3>1 DEF Same
  <2> QED
    BY <1>1, <2>2, <2>3
<1>7. ASSUME Shown(h), ~Shown(h)'
      PROVE  F = [q \in DOMAIN E \ {keys[h]} |-> E[q]]
  <2>1. DOMAIN F = DOMAIN E \ {keys[h]}
    <3>1. ASSUME NEW k \in DOMAIN F PROVE k \in DOMAIN E \ {keys[h]}
      <4>1. PICK s \in Slots : Shown(s)' /\ keys'[s] = k
        BY <1>3, <3>1
      <4>2. s # h /\ Same(s)
        BY <1>4, <1>7, <4>1
      <4> QED
        BY <1>1, <1>2, <1>5, <4>1, <4>2 DEF Same
    <3>2. ASSUME NEW k \in DOMAIN E \ {keys[h]} PROVE k \in DOMAIN F
      <4>1. PICK s \in Slots : Shown(s) /\ keys[s] = k
        BY <1>2, <3>2
      <4>2. s # h /\ Same(s)
        BY <1>4, <3>2, <4>1
      <4> QED
        BY <1>3, <4>1, <4>2 DEF Same
    <3> QED
      BY <3>1, <3>2
  <2>2. ASSUME NEW k \in DOMAIN F PROVE F[k] = E[k]
    <3>1. PICK s \in Slots : Shown(s)' /\ keys'[s] = k
      BY <1>3, <2>2
    <3>2. Same(s)
      BY <1>4, <1>7, <3>1
    <3> QED
      BY <1>1, <3>1, <3>2 DEF Same
  <2> QED
    BY <1>1, <2>1, <2>2
<1>8. ASSUME Shown(h)', Shown(h) => keys'[h] = keys[h]
      PROVE  F = [q \in DOMAIN E \cup {keys'[h]} |->
                    IF q = keys'[h] THEN HeldPayload(h)' ELSE E[q]]
  <2>1. DOMAIN F = DOMAIN E \cup {keys'[h]}
    <3>1. ASSUME NEW k \in DOMAIN F, k # keys'[h] PROVE k \in DOMAIN E
      <4>1. PICK s \in Slots : Shown(s)' /\ keys'[s] = k
        BY <1>3, <3>1
      <4> QED
        BY <1>2, <1>4, <3>1, <4>1 DEF Same
    <3>2. ASSUME NEW k \in DOMAIN E PROVE k \in DOMAIN F
      <4>1. PICK s \in Slots : Shown(s) /\ keys[s] = k
        BY <1>2, <3>2
      <4> QED
        BY <1>3, <1>4, <1>8, <4>1 DEF Same
    <3>3. keys'[h] \in DOMAIN F
      BY <1>1, <1>8
    <3> QED
      BY <3>1, <3>2, <3>3
  <2>2. ASSUME NEW k \in DOMAIN F
        PROVE  F[k] = IF k = keys'[h] THEN HeldPayload(h)' ELSE E[k]
    <3>1. PICK s \in Slots : Shown(s)' /\ keys'[s] = k
      BY <1>3, <2>2
    <3>2. CASE k = keys'[h]
      BY <1>1, <1>8, <3>2
    <3>3. CASE k # keys'[h]
      <4>1. s # h /\ Same(s)
        BY <1>4, <3>1, <3>3
      <4>2. F[k] = HeldPayload(s)' /\ E[k] = HeldPayload(s)
        BY <1>1, <3>1, <4>1 DEF Same
      <4> QED
        BY <3>3, <4>1, <4>2 DEF Same
    <3> QED
      BY <3>2, <3>3
  <2> QED
    BY <1>1, <2>1, <2>2
<1> QED
  BY <1>6, <1>7, <1>8 DEF Contract!Without, Contract!With, E, F

Image == Sound /\ Unique /\ Views /\ HeldFacts

(* The facts about the mapping hold of every state whose slots have one *)
(* owner each and different keys.                                       *)
LEMMA ImageFacts == Sound /\ Unique => Image
BY ViewOfOwner, EntriesOfSlots DEF Image, Sound, Locking, Unique

(* A slot is shown as before unless its owner steps. *)
LEMMA Elsewhere ==
  ASSUME Image, Image', NEW t \in Threads, Step(t), NEW s \in Slots,
         ~Owns(t, s), ~Owns(t, s)'
  PROVE  Same(s)
<1>1. \A u \in Threads \ {t} : /\ pc'[u] = pc[u] /\ reg'[u] = reg[u] /\ call'[u] = call[u]
                               /\ Owns(u, s)' <=> Owns(u, s)
  BY Frame DEF Framed, Image, Sound, Locking, Placed, Owns
<1>2. keys'[s] = keys[s] /\ cold'[s] = cold[s]
  BY OnlyOwners DEF Image, Sound, Locking
<1>3. CASE \A u \in Threads : ~Owns(u, s)
  <2>1. \A u \in Threads : ~Owns(u, s)'
    BY <1>1, <1>3
  <2>2. /\ Shown(s) <=> keys[s] # NoKey
        /\ HeldPayload(s) = cold[s]
    BY <1>3 DEF Image, Views
  <2>3. /\ Shown(s)' <=> keys'[s] # NoKey
        /\ HeldPayload(s)' = cold'[s]
    BY <2>1 DEF Image, Views
  <2> QED
    BY <1>2, <2>2, <2>3 DEF Same
<1>4. ASSUME NEW u \in Threads, Owns(u, s) PROVE Same(s)
  <2>1. u \in Threads \ {t} /\ Owns(u, s)'
    BY <1>1, <1>4
  <2>2. /\ Shown(s) <=> keys[s] # NoKey /\ ~Hiding(u)
        /\ HeldPayload(s) = IF Keeping(u) THEN reg[u].ctx ELSE cold[s]
    BY <1>4 DEF Image, Views
  <2>3. /\ Shown(s)' <=> keys'[s] # NoKey /\ ~Hiding(u)'
        /\ HeldPayload(s)' = IF Keeping(u)' THEN reg'[u].ctx ELSE cold'[s]
    BY <2>1 DEF Image, Views
  <2>4. (Hiding(u)' <=> Hiding(u)) /\ (Keeping(u)' <=> Keeping(u)) /\ reg'[u].ctx = reg[u].ctx
    BY <1>1, <2>1 DEF Hiding, Keeping
  <2> QED
    BY <1>2, <2>2, <2>3, <2>4 DEF Same
<1> QED
  BY <1>3, <1>4

(* A step of a thread shows in the slot it works on, and nowhere else. *)
LEMMA OneSlotMoves ==
  ASSUME Image, Image', NEW t \in Threads, Step(t)
  PROVE  /\ \A s \in Slots : s # reg[t].hit => Same(s)
         /\ pc[t] \notin Owning /\ pc'[t] \notin Owning => \A s \in Slots : Same(s)
         /\ pc[t] \in Owning \/ pc'[t] \in Owning => reg[t].hit \in Slots
         /\ pc'[t] \in Owning => reg'[t].hit = reg[t].hit
<1>1. /\ pc'[t] \in Owning => reg'[t].hit = reg[t].hit
      /\ pc[t] \in Owning \/ pc'[t] \in Owning => reg[t].hit \in Slots
  BY Phases DEF Takes, GivesUp, Keeps, Image, Sound, Locking, Placed, TypeOK
<1>2. \A s \in Slots : ~Owns(t, s) /\ ~Owns(t, s)' => Same(s)
  BY Elsewhere
<1>3. \A s \in Slots : s # reg[t].hit => ~Owns(t, s) /\ ~Owns(t, s)'
  BY <1>1 DEF Owns
<1>4. pc[t] \notin Owning /\ pc'[t] \notin Owning
        => \A s \in Slots : ~Owns(t, s) /\ ~Owns(t, s)'
  BY DEF Owns
<1> QED
  BY <1>1, <1>2, <1>3, <1>4

(* A step that changes no slot's show changes no entry. *)
LEMMA EntriesStay ==
  ASSUME Image, Image', \A s \in Slots : Same(s)
  PROVE  HeldEntries' = HeldEntries
<1>1. 0 \in Slots
  BY IndexFacts
<1> QED
  BY <1>1, EntriesMove DEF Image, Unique
-----------------------------------------------------------------------------
(***************************************************************************)
(* What a query has noted.                                                  *)
(***************************************************************************)

(* Every step notes of each query whether its key is there afterwards. *)
LEMMA NotedAfter ==
  ASSUME Contract!Observe, HeldFacts', NEW u \in Threads, missed[u] \in BOOLEAN
  PROVE  /\ missed'[u] \in BOOLEAN
         /\ missed'[u] => Asked(u)'
         /\ Asked(u)' /\ ~missed'[u] =>
              /\ ~missed[u] /\ Contract!There(call[u].op, call[u].key)'
              /\ \E s \in Slots : Holds(s, call[u].key)'
<1>1. missed'[u] = (/\ call'[u].op \in {"Lookup", "Contains", "Delete"}
                    /\ missed[u] \/ ~Contract!There(call[u].op, call[u].key)')
  BY DEF Contract!Observe, Contract!Queries, Contract!There
<1>2. call'[u].op \in {"Lookup", "Contains", "Delete"} <=> Asked(u)'
  BY DEF Asked
<1>3. Contract!There(call[u].op, call[u].key)' => call'[u].key \in DOMAIN HeldEntries'
  BY DEF Contract!There
<1>4. \A k \in DOMAIN HeldEntries' : \E s \in Slots : Holds(s, k)'
  BY DEF HeldFacts
<1> QED
  BY <1>1, <1>2, <1>3, <1>4 DEF Holds

(* The slot that shows an entry before and after a step is the same one: *)
(* between two slots an entry is in none.                                *)
LEMMA EntriesDoNotWander ==
  ASSUME Image, Image', NEW t \in Threads, Step(t), NEW k,
         NEW s \in Slots, Holds(s, k), NEW v \in Slots, Holds(v, k)'
  PROVE  s = v
<1>1. \A w \in Slots : w # reg[t].hit => Same(w)
  BY OneSlotMoves
<1>2. Distinct /\ Distinct'
  BY DEF Image, Unique
<1> QED
  BY <1>1, <1>2 DEF Same, Holds, Shown, Distinct

(* An all-zero payload is what LookupContext takes for no entry. *)
LEMMA EmptyIsBlank ==
  ASSUME NEW c
  PROVE  IsEmpty(c) <=> c \in Blanks
<1>1. \A m \in {NumWords} : m = NumWords
  OBVIOUS
<1> QED
  BY <1>1 DEF IsEmpty, Blanks

(* What a reader has validated is an entry of the moment. *)
LEMMA ValidatedIsCurrent ==
  ASSUME Image, NEW t \in Threads, Validating(t), seqs[reg[t].i] = reg[t].seq
  PROVE  /\ reg[t].i \in Slots /\ reg[t].key = keys[reg[t].i]
         /\ Shown(reg[t].i) <=> reg[t].key # NoKey
         /\ call[t].op # "Contains" => reg[t].ctx = cold[reg[t].i]
         /\ reg[t].key # NoKey =>
              /\ reg[t].key \in DOMAIN HeldEntries
              /\ HeldEntries[reg[t].key] = cold[reg[t].i]
<1>1. PICK i \in Slots : i = reg[t].i
  BY DEF Image, Sound, Locking, Placed, TypeOK, Validating
<1>2. /\ ~Odd(seqs[i]) /\ keys[i] = reg[t].key
      /\ call[t].op # "Contains" => \A w \in Words : reg[t].ctx[w] = cold[i][w]
  BY <1>1 DEF Image, Sound, Contents, Agreeing, Validating
<1>3. reg[t].ctx \in Payloads /\ cold[i] \in Payloads
  BY <1>1 DEF Image, Sound, Locking, Placed, TypeOK, Regs
<1>4. call[t].op # "Contains" => reg[t].ctx = cold[i]
  BY <1>2, <1>3, SamePayload
<1>5. \A u \in Threads : ~Owns(u, i)
  BY <1>1, <1>2 DEF Image, Sound, Locking, SlotOwnership
<1>6. (Shown(i) <=> keys[i] # NoKey) /\ HeldPayload(i) = cold[i]
  BY <1>1, <1>5 DEF Image, Views
<1>7. keys[i] # NoKey => keys[i] \in DOMAIN HeldEntries /\ HeldEntries[keys[i]] = cold[i]
  BY <1>1, <1>6 DEF Image, HeldFacts
<1> QED
  BY <1>1, <1>2, <1>4, <1>6, <1>7

Scanning == Reading \cup {"find"}

(* The slot a scan is at has another key, or no entry for LookupContext. *)
NoMatch(t) ==
  \/ keys[reg[t].i] # call[t].key
  \/ /\ Validating(t) /\ seqs[reg[t].i] = reg[t].seq
     /\ call[t].op = "Lookup" /\ IsEmpty(reg[t].ctx)

(* So it is not the slot that shows what is asked for. *)
LEMMA NoMatchIsElsewhere ==
  ASSUME Image, NEW t \in Threads, Contract!There(call[t].op, call[t].key), NoMatch(t),
         NEW v \in Slots, Holds(v, call[t].key)
  PROVE  v # reg[t].i
<1> SUFFICES ASSUME v = reg[t].i PROVE FALSE
  OBVIOUS
<1>1. /\ keys[reg[t].i] = call[t].key /\ call[t].key # NoKey
  BY DEF Holds, Shown
<1>2. /\ Validating(t) /\ seqs[reg[t].i] = reg[t].seq
      /\ call[t].op = "Lookup" /\ IsEmpty(reg[t].ctx)
  BY <1>1 DEF NoMatch
<1>3. reg[t].key = call[t].key /\ HeldEntries[call[t].key] = reg[t].ctx
  BY <1>1, <1>2, ValidatedIsCurrent
<1>4. reg[t].ctx \in Blanks
  BY <1>2, EmptyIsBlank
<1> QED
  BY <1>2, <1>3, <1>4 DEF Contract!There

(* How a scan moves: it begins, stays, or leaves a slot that does not match. *)
LEMMA ScanMoves ==
  ASSUME Placed, NEW t \in Threads, Step(t), Asked(t)', pc'[t] \in Scanning
  PROVE  \/ reg'[t].i = 0
         \/ /\ Asked(t) /\ pc[t] \in Scanning /\ call' = call /\ reg[t].i \in Slots
            /\ \/ reg'[t].i = reg[t].i
               \/ reg'[t].i = reg[t].i + 1 /\ NoMatch(t)
<1>1. /\ t \in DOMAIN pc /\ t \in DOMAIN call /\ t \in DOMAIN reg
      /\ reg[t] \in Regs /\ Shape(t)
      /\ pc[t] \in Scanning => reg[t].i \in Slots
      /\ FreshReg.i = 0 /\ FreshReg \in Regs
  BY ValueFacts DEF Placed, TypeOK, Scanning, Reading
<1>2. /\ call'[t] # NoCall
      /\ call' = call => Asked(t)
  BY DEF Asked, NoCall, Call
<1> USE DEF Goto, Set, Leave, Return, Slot, NoMatch
<1>3. CASE Begin(t)
  BY <1>1, <1>3 DEF Begin, Shape
<1>4. CASE Reject(t)
  BY <1>1, <1>4 DEF Reject, Shape
<1>5. CASE FindNext(t)
  <2>1. /\ pc[t] = "find" /\ call' = call /\ reg'[t].i = reg[t].i + 1
        /\ keys[reg[t].i] # call[t].key
    BY <1>1, <1>5 DEF FindNext, Regs
  <2> QED
    BY <1>1, <1>2, <2>1 DEF Scanning
<1>6. CASE FindHit(t) \/ FindMiss(t) \/ LoadSeq(t)
  BY <1>1, <1>2, <1>6 DEF FindHit, FindMiss, LoadSeq, Scanning, Reading
<1>7. CASE TryLock(t)
  BY <1>1, <1>7 DEF TryLock, MayTry, Scanning, Reading
<1>8. CASE TryFails(t)
  BY <1>1, <1>8 DEF TryFails, MayTry, Scanning, Reading
<1>9. CASE CheckKey(t)
  <2>1. pc'[t] \in {"abort", "writeKey", "unlock", "write"}
    BY <1>1, <1>9 DEF CheckKey
  <2> QED
    BY <2>1 DEF Scanning, Reading
<1>10. CASE VerifySeq(t) \/ VerifyKey(t) \/ VerifySkip(t) \/ VerifyDone(t)
  BY <1>1, <1>10 DEF VerifySeq, VerifyKey, VerifySkip, VerifyDone, Scanning, Reading
<1>11. CASE WriteKey(t) \/ WriteWord(t)
  BY <1>1, <1>11 DEF WriteKey, WriteWord, Scanning, Reading
<1>12. CASE Unlock(t) \/ Abort(t)
  BY <1>1, <1>12 DEF Unlock, Abort, Scanning, Reading
<1>13. CASE Read(t)
  <2>1. pc[t] \in Scanning
    BY <1>13 DEF Read, ReadSeq, ReadKey, ReadWord, ReadAgain, LookupValidated,
      ContainsValidated, EnumerateValidated, Validating, Scanning, Reading
  <2>2. call' = call
    BY <1>1, <1>2, <1>13 DEF Read, ReadSeq, ReadKey, ReadWord, ReadAgain, LookupValidated,
      ContainsValidated, EnumerateValidated, NotHere, NextSlot
  <2>3. NotHere(t) => reg'[t].i = reg[t].i + 1
    <3> SUFFICES ASSUME NotHere(t) PROVE reg'[t].i = reg[t].i + 1
      OBVIOUS
    <3>1. reg[t].i < Last /\ reg'[t] = [FreshReg EXCEPT !.i = reg[t].i + 1]
      BY <1>1, <1>2 DEF NotHere, NextSlot
    <3>2. reg[t].i + 1 \in Slots
      BY <1>1, <2>1, <3>1, IndexFacts
    <3> QED
      BY <3>1, <3>2, ReadFresh
  <2>4. CASE ReadSeq(t)
    BY <1>1, <1>2, <2>1, <2>2, <2>4 DEF ReadSeq, Regs
  <2>5. CASE ReadKey(t)
    <3>1. CASE NotHere(t)
      <4>1. keys[reg[t].i] # call[t].key
        <5>1. pc'[t] # "readWords"
          BY <1>1, <1>2, <3>1 DEF NotHere, NextSlot
        <5> QED
          BY <1>1, <2>5, <5>1 DEF ReadKey
      <4> QED
        BY <1>1, <1>2, <2>1, <2>2, <2>3, <3>1, <4>1
    <3>2. CASE ~NotHere(t)
      <4>1. PICK todo \in SUBSET Words :
              reg'[t] = [reg[t] EXCEPT !.key = keys[reg[t].i], !.todo = todo]
        BY <1>1, <2>5, <3>2 DEF ReadKey
      <4>2. reg'[t].i = reg[t].i
        BY <1>1, <4>1 DEF Regs
      <4> QED
        BY <1>1, <1>2, <2>1, <2>2, <4>2
    <3> QED
      BY <3>1, <3>2
  <2>6. CASE ReadWord(t)
    <3>1. PICK w \in reg[t].todo :
            reg'[t] = [reg[t] EXCEPT !.ctx[w] = cold[reg[t].i][w], !.todo = @ \ {w}]
      BY <1>1, <2>6 DEF ReadWord
    <3>2. reg'[t].i = reg[t].i
      BY <1>1, <3>1 DEF Regs
    <3> QED
      BY <1>1, <1>2, <2>1, <2>2, <3>2
  <2>7. CASE ReadAgain(t)
    <3>1. reg'[t].i = reg[t].i
      BY <1>1, <2>1, <2>7, ReadFresh DEF ReadAgain
    <3> QED
      BY <1>1, <1>2, <2>1, <2>2, <3>1
  <2>8. CASE LookupValidated(t)
    <3>1. /\ Validating(t) /\ seqs[reg[t].i] = reg[t].seq /\ call[t].op = "Lookup"
          /\ IsEmpty(reg[t].ctx) /\ NotHere(t)
      BY <1>1, <1>2, <2>8 DEF LookupValidated
    <3> QED
      BY <1>1, <1>2, <2>1, <2>2, <2>3, <3>1
  <2>9. CASE ContainsValidated(t)
    BY <1>1, <1>2, <2>9 DEF ContainsValidated
  <2>10. CASE EnumerateValidated(t)
    BY <1>2, <2>2, <2>10 DEF EnumerateValidated, Asked
  <2> QED
    BY <1>13, <2>4, <2>5, <2>6, <2>7, <2>8, <2>9, <2>10 DEF Read
<1> QED
  BY <1>3, <1>4, <1>5, <1>6, <1>7, <1>8, <1>9, <1>10, <1>11, <1>12, <1>13
  DEF Step, Run, Find, Owned

(* How a query comes to a slot, and how it gives it up. *)
LEMMA ChoiceMoves ==
  ASSUME Placed, NEW t \in Threads, Step(t), Asked(t)',
         pc'[t] \in {"load", "try", "check", "abort"}
  PROVE  /\ Asked(t) /\ call' = call /\ keys' = keys
         /\ \/ /\ pc[t] = "find" /\ pc'[t] = "load" /\ reg[t].i \in Slots
               /\ reg'[t].hit = reg[t].i /\ keys[reg[t].i] = call[t].key
            \/ /\ pc[t] \in {"load", "try"} /\ pc'[t] # "abort"
               /\ reg'[t].hit = reg[t].hit
            \/ pc[t] = "check" /\ keys[reg[t].hit] # call[t].key
<1>1. /\ t \in DOMAIN pc /\ t \in DOMAIN call /\ t \in DOMAIN reg
      /\ reg[t] \in Regs /\ Shape(t)
      /\ pc[t] = "find" => reg[t].i \in Slots
  BY DEF Placed, TypeOK
<1>2. call' = call => Asked(t) /\ call[t].op # "Insert"
  BY DEF Asked
<1> USE DEF Goto, Set, Leave, Return, Slot, Shape, Owning
<1>3. CASE Begin(t) \/ Reject(t)
  BY <1>1, <1>3 DEF Begin, Reject
<1>4. CASE FindHit(t)
  <2>1. /\ pc[t] = "find" /\ pc'[t] = "load" /\ UNCHANGED <<call, keys>>
        /\ keys[reg[t].i] = call[t].key
        /\ reg'[t] = [reg[t] EXCEPT !.hit = reg[t].i, !.exists = TRUE]
    BY <1>1, <1>4 DEF FindHit
  <2>2. reg'[t].hit = reg[t].i
    BY <1>1, <2>1 DEF Regs
  <2> QED
    BY <1>1, <1>2, <2>1, <2>2
<1>5. CASE FindNext(t) \/ FindMiss(t)
  BY <1>1, <1>2, <1>5 DEF FindNext, FindMiss
<1>6. CASE LoadSeq(t)
  BY <1>1, <1>2, <1>6 DEF LoadSeq, Regs
<1>7. CASE TryLock(t)
  <2>1. /\ pc[t] = "try" /\ pc'[t] # "abort" /\ UNCHANGED <<call, keys>>
        /\ reg'[t] = [reg[t] EXCEPT !.i = 0]
    BY <1>1, <1>7 DEF TryLock, MayTry
  <2>2. reg'[t].hit = reg[t].hit
    BY <1>1, <2>1 DEF Regs
  <2> QED
    BY <1>2, <2>1, <2>2
<1>8. CASE TryFails(t)
  BY <1>1, <1>2, <1>8 DEF TryFails, MayTry
<1>9. CASE CheckKey(t)
  BY <1>1, <1>2, <1>9 DEF CheckKey
<1>10. CASE VerifySeq(t) \/ VerifyKey(t) \/ VerifySkip(t) \/ VerifyDone(t)
  BY <1>1, <1>2, <1>10 DEF VerifySeq, VerifyKey, VerifySkip, VerifyDone
<1>11. CASE WriteKey(t) \/ WriteWord(t) \/ Unlock(t) \/ Abort(t)
  BY <1>1, <1>11 DEF WriteKey, WriteWord, Unlock, Abort
<1>12. CASE Read(t)
  BY <1>1, <1>12 DEF Read, ReadSeq, ReadKey, ReadWord, ReadAgain, LookupValidated,
    ContainsValidated, EnumerateValidated, NotHere, NextSlot, Validating
<1> QED
  BY <1>3, <1>4, <1>5, <1>6, <1>7, <1>8, <1>9, <1>10, <1>11, <1>12
  DEF Step, Run, Find, Owned

(* The scans miss only what was missing: an entry does not move from a slot *)
(* ahead of the scan to one behind it, and the slot Delete has chosen loses *)
(* its key only with the entry.                                             *)
LEMMA NotedStep ==
  ASSUME Image, Image', NEW t \in Threads, Step(t), Contract!Observe,
         NEW u \in Threads, missed[u] \in BOOLEAN, Noted(u)
  PROVE  missed'[u] \in BOOLEAN /\ Noted(u)'
<1>1. /\ missed'[u] \in BOOLEAN
      /\ missed'[u] => Asked(u)'
      /\ Asked(u)' /\ ~missed'[u] =>
           /\ ~missed[u] /\ Contract!There(call[u].op, call[u].key)'
           /\ \E s \in Slots : Holds(s, call[u].key)'
  BY NotedAfter DEF Image
<1> SUFFICES ASSUME Asked(u)', ~missed'[u]
             PROVE  /\ pc'[u] # "abort"
                    /\ \E s \in Slots :
                         /\ Holds(s, call[u].key)'
                         /\ pc'[u] \in Scanning => s >= reg'[u].i
                         /\ pc'[u] \in {"load", "try", "check"} => s = reg'[u].hit
  BY <1>1 DEF Noted, Scanning
<1>2. PICK v \in Slots : Holds(v, call[u].key)'
  BY <1>1
<1>3. ~missed[u] /\ v \in Int /\ v >= 0 /\ Placed /\ Distinct'
  BY <1>1 DEF Slots, Image, Sound, Locking, Unique
<1>4. ASSUME call'[u] = call[u], Asked(u)
      PROVE  /\ Contract!There(call[u].op, call[u].key) /\ pc[u] # "abort"
             /\ Holds(v, call[u].key)
             /\ pc[u] \in Scanning => v >= reg[u].i
             /\ pc[u] \in {"load", "try", "check"} => v = reg[u].hit
  <2>1. /\ Contract!There(call[u].op, call[u].key) /\ pc[u] # "abort"
        /\ \E s \in Slots : /\ Holds(s, call[u].key)
                            /\ pc[u] \in Scanning => s >= reg[u].i
                            /\ pc[u] \in {"load", "try", "check"} => s = reg[u].hit
    BY <1>3, <1>4 DEF Noted, Scanning
  <2>2. PICK s \in Slots : /\ Holds(s, call[u].key)
                           /\ pc[u] \in Scanning => s >= reg[u].i
                           /\ pc[u] \in {"load", "try", "check"} => s = reg[u].hit
    BY <2>1
  <2>3. PICK k : k = call[u].key
    OBVIOUS
  <2>4. Holds(s, k) /\ Holds(v, k)'
    BY <1>2, <1>4, <2>2, <2>3 DEF Holds
  <2>5. s = v
    BY <2>4, EntriesDoNotWander
  <2> QED
    BY <2>1, <2>2, <2>5
<1>5. CASE u # t
  <2>1. pc'[u] = pc[u] /\ reg'[u] = reg[u] /\ call'[u] = call[u]
    BY <1>3, <1>5, Frame DEF Framed, Placed
  <2>2. Asked(u)
    BY <2>1 DEF Asked
  <2> QED
    BY <1>2, <1>4, <2>1, <2>2
<1>6. CASE u = t /\ pc'[t] \in Scanning
  <2>1. pc'[t] # "abort" /\ pc'[t] \notin {"load", "try", "check"}
    BY <1>6 DEF Scanning, Reading
  <2>2. v >= reg'[t].i
    <3>1. CASE reg'[t].i = 0
      BY <1>3, <3>1
    <3>2. CASE /\ Asked(t) /\ pc[t] \in Scanning /\ call' = call /\ reg[t].i \in Slots
               /\ \/ reg'[t].i = reg[t].i
                  \/ reg'[t].i = reg[t].i + 1 /\ NoMatch(t)
      <4>1. /\ Contract!There(call[t].op, call[t].key) /\ Holds(v, call[t].key)
            /\ v >= reg[t].i /\ reg[t].i \in Int
        BY <1>4, <1>6, <3>2 DEF Slots
      <4>2. NoMatch(t) => v # reg[t].i
        BY <4>1, NoMatchIsElsewhere
      <4> QED
        BY <1>3, <3>2, <4>1, <4>2
    <3> QED
      BY <1>3, <1>6, <3>1, <3>2, ScanMoves
  <2> QED
    BY <1>2, <1>6, <2>1, <2>2
<1>7. CASE u = t /\ pc'[t] \in {"load", "try", "check", "abort"}
  <2>1. /\ Asked(t) /\ call' = call /\ keys' = keys
        /\ \/ /\ pc[t] = "find" /\ pc'[t] = "load" /\ reg[t].i \in Slots
              /\ reg'[t].hit = reg[t].i /\ keys[reg[t].i] = call[t].key
           \/ /\ pc[t] \in {"load", "try"} /\ pc'[t] # "abort"
              /\ reg'[t].hit = reg[t].hit
           \/ pc[t] = "check" /\ keys[reg[t].hit] # call[t].key
    BY <1>3, <1>7, ChoiceMoves
  <2>2. /\ Holds(v, call[t].key)
        /\ pc[t] \in {"load", "try", "check"} => v = reg[t].hit
    BY <1>4, <1>7, <2>1
  <2>3. keys[v] = call[t].key /\ keys[v] # NoKey /\ Distinct
    BY <2>2 DEF Holds, Shown, Image, Unique
  <2>4. pc'[t] # "abort" /\ v = reg'[t].hit
    BY <2>1, <2>2, <2>3 DEF Distinct
  <2>5. pc'[t] \notin Scanning
    BY <1>7 DEF Scanning, Reading
  <2> QED
    BY <1>2, <1>7, <2>4, <2>5
<1>8. CASE u = t /\ pc'[t] \notin Scanning \cup {"load", "try", "check", "abort"}
  BY <1>2, <1>8
<1> QED
  BY <1>5, <1>6, <1>7, <1>8
-----------------------------------------------------------------------------
(***************************************************************************)
(* The steps and their images.                                              *)
(***************************************************************************)
Taking == [t \in Threads |-> TakenEntry(t)]

Stutters == UNCHANGED <<HeldEntries, call, Taking, ret>>

(* The image of a step is one of the call that steps. *)
LEMMA CallsMove ==
  ASSUME Placed, NEW t \in Threads, Step(t)
  PROVE  /\ call' = [call EXCEPT ![t] = call'[t]]
         /\ ret' = [ret EXCEPT ![t] = ret'[t]]
         /\ Taking' = [Taking EXCEPT ![t] = TakenEntry(t)']
         /\ call'[t] = call[t] => call' = call
         /\ TakenEntry(t)' = TakenEntry(t) => Taking' = Taking
<1>1. /\ call = [u \in Threads |-> call[u]] /\ call' = [u \in Threads |-> call'[u]]
      /\ ret = [u \in Threads |-> ret[u]] /\ ret' = [u \in Threads |-> ret'[u]]
      /\ \A u \in Threads \ {t} : /\ pc'[u] = pc[u] /\ reg'[u] = reg[u]
                                  /\ call'[u] = call[u] /\ ret'[u] = ret[u]
  BY Frame DEF Placed, TypeOK, Framed
<1>2. \A u \in Threads \ {t} : TakenEntry(u)' = TakenEntry(u)
  BY <1>1 DEF TakenEntry
<1> QED
  BY <1>1, <1>2 DEF Taking

(* The contract names requests and answers as this module does. *)
LEMMA SameWords ==
  /\ Contract!NoCall = NoCall /\ Contract!NoResult = NoResult
  /\ Contract!NotFound = Result("false", NoKey, Payload(Zero))
  /\ \A r, k, c : Contract!Result(r, k, c) = Result(r, k, c)
BY DEF Contract!NoCall, NoCall, Call, Contract!NoResult, NoResult, Contract!NotFound,
  Contract!Result, Result, Contract!Empty

(* A call that is not writing has taken no entry. *)
Unowning == \A t \in Threads : pc[t] # "write" => TakenEntry(t) = Contract!Nothing

LEMMA NothingTaken == Unowning
BY DEF Unowning, TakenEntry, Contract!Nothing, Contract!Entry, Contract!Empty

(* Steps outside a critical section change neither map nor takings. *)
LEMMA OutsideView ==
  ASSUME Image, Image', NEW t \in Threads, Step(t),
         pc[t] \notin Owning, pc'[t] \notin Owning
  PROVE  /\ HeldEntries' = HeldEntries /\ Taking' = Taking
         /\ TakenEntry(t) = Contract!Nothing
<1>1. HeldEntries' = HeldEntries
  BY OneSlotMoves, EntriesStay
<1>2. Unowning /\ Unowning'
  BY NothingTaken, PTL
<1>3. TakenEntry(t)' = TakenEntry(t) /\ TakenEntry(t) = Contract!Nothing
  BY <1>2 DEF Unowning, Contract!Nothing, Contract!Entry, Contract!Empty, Owning
<1> QED
  BY <1>1, <1>3, CallsMove DEF Image, Sound, Locking

(* A call starts as the contract lets it start. *)
LEMMA BeginAct ==
  ASSUME Image, NEW t \in Threads, Step(t), Begin(t) \/ Reject(t),
         HeldEntries' = HeldEntries, Taking' = Taking
  PROVE  Contract!Act(t)
<1>1. /\ t \in DOMAIN pc /\ t \in DOMAIN call /\ Placed /\ call[t] = NoCall
      /\ call[t].op = "none"
  BY DEF Begin, Reject, Image, Sound, Locking, Placed, TypeOK, Unique, Located, NoCall, Call
<1>2. CASE Begin(t)
  <2>1. call'[t] \in Calls /\ ret' = [ret EXCEPT ![t] = NoResult]
    BY <1>1, <1>2 DEF Begin
  <2>2. \A c \in Calls : c \in Contract!Calls
    BY DEF Calls, Call, Stamps, Policies, Contract!Calls, Contract!Request,
      Contract!Policies, Contract!Queries
  <2>3. call' = [call EXCEPT ![t] = call'[t]]
    BY <1>1, CallsMove
  <2>4. Contract!Begin(t)
    BY <2>1, <2>2, <2>3, SameWords DEF Contract!Begin, Taking
  <2> QED
    BY <1>1, <2>4 DEF Contract!Act
<1>3. CASE Reject(t)
  <2>1. /\ call' = call
        /\ \/ ret' = [ret EXCEPT ![t] = Result("Failed", NoKey, Payload(Zero))]
           \/ ret' = [ret EXCEPT ![t] = Result("false", NoKey, Payload(Zero))]
    BY <1>3 DEF Reject
  <2>2. Contract!Reject(t)
    BY <2>1 DEF Contract!Reject, Taking, Contract!NotFound, Contract!Result,
      Contract!Empty, Result
  <2> QED
    BY <1>1, <2>2 DEF Contract!Act
<1> QED
  BY <1>2, <1>3

(* A query that ends without having found its key. *)
LEMMA MissAct ==
  ASSUME Image, NEW t \in Threads, Step(t), Asked(t), missed[t], call'[t] = NoCall,
         ret'[t] = Result("false", NoKey, Payload(Zero)),
         HeldEntries' = HeldEntries, Taking' = Taking, TakenEntry(t) = Contract!Nothing
  PROVE  Contract!Act(t)
<1>1. /\ call' = [call EXCEPT ![t] = Contract!NoCall]
      /\ ret' = [ret EXCEPT ![t] = Contract!NotFound]
  BY CallsMove, SameWords DEF Image, Sound, Locking
<1>2. Taking[t] = Contract!Nothing /\ Taking' = [Taking EXCEPT ![t] = Contract!Nothing]
  BY DEF Taking
<1>3. Contract!Ends(t) /\ Contract!Miss(t)
  BY <1>1, <1>2 DEF Contract!Ends, Contract!Miss, Contract!Return, Taking
<1> QED
  BY <1>3 DEF Contract!Act, Asked

(* A query that has found its key in the map. *)
LEMMA HitAct ==
  ASSUME Image, NEW t \in Threads, Step(t), call[t].op \in {"Lookup", "Contains"},
         call'[t] = NoCall, Contract!There(call[t].op, call[t].key),
         ret'[t] = Result("true", call[t].key,
                     IF call[t].op = "Lookup" THEN HeldEntries[call[t].key]
                                              ELSE Payload(Zero)),
         HeldEntries' = HeldEntries, Taking' = Taking, TakenEntry(t) = Contract!Nothing
  PROVE  Contract!Act(t)
<1>1. /\ call' = [call EXCEPT ![t] = Contract!NoCall]
      /\ ret' = [ret EXCEPT ![t] = ret'[t]]
  BY CallsMove, SameWords DEF Image, Sound, Locking
<1>2. Taking' = [Taking EXCEPT ![t] = Contract!Nothing]
  BY DEF Taking
<1>3. Contract!Ends(t)
  BY <1>1 DEF Contract!Ends
<1>4. Contract!Hit(t)
  BY <1>1, <1>2 DEF Contract!Hit, Contract!Return, Contract!Result, Contract!Empty,
    Result, Taking
<1> QED
  BY <1>3, <1>4 DEF Contract!Act

(* One slot of an enumeration. *)
LEMMA ReportAct ==
  ASSUME Image, NEW t \in Threads, Step(t), EnumerateValidated(t),
         HeldEntries' = HeldEntries, Taking' = Taking
  PROVE  Contract!Act(t)
<1>1. /\ Validating(t) /\ call[t].op = "Enumerate" /\ seqs[reg[t].i] = reg[t].seq
      /\ ret' = [ret EXCEPT ![t] = IF reg[t].key = NoKey THEN NoResult
                                   ELSE Result("reported", reg[t].key, reg[t].ctx)]
      /\ call' = call \/ call' = [call EXCEPT ![t] = NoCall]
  BY DEF EnumerateValidated, NextSlot, Leave
<1>2. \/ ret' = [ret EXCEPT ![t] = Contract!NoResult]
      \/ \E k \in DOMAIN HeldEntries :
           ret' = [ret EXCEPT ![t] = Contract!Result("reported", k, HeldEntries[k])]
  <2>1. CASE reg[t].key = NoKey
    BY <1>1, <2>1, SameWords
  <2>2. CASE reg[t].key # NoKey
    <3>1. /\ reg[t].key \in DOMAIN HeldEntries
          /\ HeldEntries[reg[t].key] = reg[t].ctx
      BY <1>1, <2>2, ValidatedIsCurrent
    <3> QED
      BY <1>1, <2>2, <3>1, SameWords
  <2> QED
    BY <2>1, <2>2
<1>3. Contract!Report(t)
  BY <1>1, <1>2, SameWords DEF Contract!Report, Contract!Ends, Taking
<1> QED
  BY <1>1, <1>3 DEF Contract!Act

(* No slot shows the key when the last slot of a scan does not match and no *)
(* moment without the key has been noted before.                            *)
LEMMA ScanEnds ==
  ASSUME Image, NEW t \in Threads, Noted(t), Asked(t), pc[t] \in Scanning,
         reg[t].i \in Slots, ~(reg[t].i < Last), NoMatch(t)
  PROVE  missed[t]
<1> SUFFICES ASSUME ~missed[t] PROVE FALSE
  OBVIOUS
<1>1. /\ Contract!There(call[t].op, call[t].key)
      /\ \E s \in Slots : Holds(s, call[t].key) /\ s >= reg[t].i
  BY DEF Noted, Scanning
<1>2. PICK s \in Slots : Holds(s, call[t].key) /\ s >= reg[t].i
  BY <1>1
<1>3. s = reg[t].i
  BY <1>2, NumSlotsAssumption DEF Slots, Last
<1> QED
  BY <1>1, <1>2, <1>3, NoMatchIsElsewhere

(* A reader that leaves a slot goes to the next, or reports that the key is *)
(* not there.                                                               *)
LEMMA NotHereAct ==
  ASSUME Image, NEW t \in Threads, Step(t), Noted(t), NotHere(t), NoMatch(t),
         pc[t] \in Reading, call[t].op \in {"Lookup", "Contains"},
         HeldEntries' = HeldEntries, Taking' = Taking, TakenEntry(t) = Contract!Nothing
  PROVE  Contract!Act(t) \/ Stutters
<1>1. /\ t \in DOMAIN ret /\ t \in DOMAIN call /\ ret[t] = NoResult /\ reg[t].i \in Slots
      /\ ret = [u \in Threads |-> ret[u]]
      /\ Asked(t) /\ pc[t] \in Scanning
  BY DEF Image, Sound, Locking, Placed, TypeOK, Unique, Located, Reading, Scanning, Asked
<1>2. CASE reg[t].i < Last
  <2>1. call' = call /\ ret' = [ret EXCEPT ![t] = NoResult]
    BY <1>2 DEF NotHere, NextSlot
  <2>2. ret' = ret
    BY <1>1, <2>1
  <2> QED
    BY <2>1, <2>2 DEF Stutters
<1>3. CASE ~(reg[t].i < Last)
  <2>1. /\ call'[t] = NoCall
        /\ ret'[t] = Result("false", NoKey, Payload(Zero))
    BY <1>1, <1>3 DEF NotHere, NextSlot, Leave
  <2>2. missed[t]
    BY <1>1, <1>3, ScanEnds
  <2> QED
    BY <1>1, <2>1, <2>2, MissAct
<1> QED
  BY <1>2, <1>3

(* KeepExisting with nowhere to put the payload returns at the first sight *)
(* of the key: nobody else can have the slot locked.                       *)
LEMMA SightAct ==
  ASSUME Image, NEW t \in Threads, Step(t), FindHit(t),
         call[t].op = "Insert", call[t].policy = "Keep",
         HeldEntries' = HeldEntries, Taking' = Taking, TakenEntry(t) = Contract!Nothing
  PROVE  Contract!Act(t)
<1>1. /\ Placed /\ Locking /\ pc[t] = "find" /\ reg[t].i \in Slots
      /\ keys[reg[t].i] = call[t].key /\ t \in DOMAIN call
      /\ call'[t] = NoCall
      /\ ret' = [ret EXCEPT ![t] = Result("Updated", NoKey, Payload(Zero))]
  BY DEF FindHit, Return, Leave, Image, Sound, Locking, Placed, TypeOK
<1>2. call[t].key # NoKey
  BY <1>1, RunningCalls
<1>3. ASSUME NEW u \in Threads PROVE ~Owns(u, reg[t].i)
  <2>1. CASE u = t
    BY <1>1, <2>1 DEF Owns, Owning
  <2>2. CASE u # t
    BY <1>1, <2>2, OthersOwnNothing DEF Owns
  <2> QED
    BY <2>1, <2>2
<1>4. call[t].key \in DOMAIN HeldEntries
  BY <1>1, <1>2, <1>3 DEF Image, Views, HeldFacts
<1>5. Contract!Ends(t)
  BY <1>1, CallsMove, SameWords DEF Contract!Ends
<1>6. Contract!Return(t, Contract!Result("Updated", NoKey, Contract!Empty))
  BY <1>1 DEF Contract!Return, Contract!Result, Contract!Empty, Result, Taking
<1>7. Contract!Update(t)
  BY <1>4, <1>6 DEF Contract!Update, Taking
<1> QED
  BY <1>5, <1>7 DEF Contract!Act

(* Every step of a call that owns no slot and takes none. *)
LEMMA OutsideAct ==
  ASSUME Image, Image', NEW t \in Threads, Step(t), Noted(t),
         pc[t] \notin Owning, pc'[t] \notin Owning
  PROVE  Contract!Act(t) \/ Stutters
<1>1. /\ HeldEntries' = HeldEntries /\ Taking' = Taking
      /\ TakenEntry(t) = Contract!Nothing
  BY OutsideView
<1>2. /\ t \in DOMAIN pc /\ t \in DOMAIN ret /\ t \in DOMAIN call /\ Placed /\ Shape(t)
      /\ Copied(t)
  BY DEF Image, Sound, Locking, Placed, TypeOK, Unique
<1>3. ASSUME call' = call, ret' = ret
      PROVE  Stutters
  BY <1>1, <1>3 DEF Stutters
<1>4. CASE Begin(t) \/ Reject(t)
  BY <1>1, <1>4, BeginAct
<1>5. CASE FindHit(t)
  BY <1>1, <1>3, <1>5, SightAct DEF FindHit
<1>6. CASE FindMiss(t)
  <2>1. /\ pc[t] = "find" /\ reg[t].i = Last /\ keys[reg[t].i] # call[t].key
    BY <1>6 DEF FindMiss
  <2>2. CASE call[t].op = "Insert"
    BY <1>3, <1>6, <2>2 DEF FindMiss
  <2>3. CASE call[t].op = "Delete"
    <3>1. /\ call'[t] = NoCall
          /\ ret'[t] = Result("false", NoKey, Payload(Zero))
      BY <1>2, <1>6, <2>3 DEF FindMiss, Return, Leave
    <3>2. Asked(t) /\ missed[t]
      BY <2>1, <2>3, ScanEnds, IndexFacts DEF Asked, Scanning, NoMatch
    <3> QED
      BY <1>1, <3>1, <3>2, MissAct
  <2> QED
    BY <1>6, <2>2, <2>3 DEF FindMiss
<1>7. CASE FindNext(t) \/ LoadSeq(t) \/ TryFails(t)
  BY <1>3, <1>7 DEF FindNext, LoadSeq, TryFails
<1>8. CASE ReadSeq(t) \/ ReadWord(t) \/ ReadAgain(t)
  BY <1>3, <1>8 DEF ReadSeq, ReadWord, ReadAgain
<1>9. CASE ReadKey(t)
  <2>1. pc[t] \in Reading
    BY <1>9 DEF ReadKey, Reading
  <2>2. CASE call[t].op # "Enumerate" /\ keys[reg[t].i] # call[t].key /\ NotHere(t)
    BY <1>1, <1>2, <2>1, <2>2, NotHereAct DEF NoMatch, Shape
  <2> QED
    BY <1>3, <1>9, <2>2 DEF ReadKey
<1>10. ASSUME Validating(t), seqs[reg[t].i] = reg[t].seq,
              call[t].op \in {"Lookup", "Contains"}
       PROVE  /\ reg[t].key = call[t].key
              /\ call[t].key \in DOMAIN HeldEntries
              /\ call[t].op = "Lookup" => HeldEntries[call[t].key] = reg[t].ctx
  <2>1. reg[t].key = call[t].key /\ call[t].key # NoKey
    BY <1>2, <1>10, RunningCalls DEF Copied, Validating
  <2> QED
    BY <1>10, <2>1, ValidatedIsCurrent
<1>11. CASE LookupValidated(t)
  <2>1. /\ Validating(t) /\ call[t].op = "Lookup" /\ seqs[reg[t].i] = reg[t].seq
        /\ pc[t] \in Reading
    BY <1>11 DEF LookupValidated, Validating, Reading
  <2>2. CASE IsEmpty(reg[t].ctx)
    <3>1. NotHere(t)
      BY <1>11, <2>2 DEF LookupValidated
    <3> QED
      BY <1>1, <2>1, <2>2, <3>1, NotHereAct DEF NoMatch
  <2>3. CASE ~IsEmpty(reg[t].ctx)
    <3>1. /\ call'[t] = NoCall
          /\ ret'[t] = Result("true", reg[t].key, reg[t].ctx)
      BY <1>2, <1>11, <2>3 DEF LookupValidated, Return, Leave
    <3>2. Contract!There(call[t].op, call[t].key)
      BY <1>10, <2>1, <2>3, EmptyIsBlank DEF Contract!There
    <3> QED
      BY <1>1, <1>10, <2>1, <3>1, <3>2, HitAct
  <2> QED
    BY <2>2, <2>3
<1>12. CASE ContainsValidated(t)
  <2>1. /\ Validating(t) /\ call[t].op = "Contains" /\ seqs[reg[t].i] = reg[t].seq
        /\ call'[t] = NoCall
        /\ ret'[t] = Result("true", reg[t].key, Payload(Zero))
    BY <1>2, <1>12 DEF ContainsValidated, Return, Leave
  <2>2. Contract!There(call[t].op, call[t].key)
    BY <1>10, <2>1 DEF Contract!There
  <2> QED
    BY <1>1, <1>10, <2>1, <2>2, HitAct
<1>13. CASE EnumerateValidated(t)
  BY <1>1, <1>13, ReportAct
<1>14. CASE TryLock(t) \/ Owned(t)
  <2>1. ~TryLock(t)
    BY <1>2 DEF TryLock, Goto, Owning
  <2>2. ~Owned(t)
    BY DEF Owned, CheckKey, VerifySeq, VerifyKey, VerifySkip, VerifyDone, WriteKey,
      WriteWord, Unlock, Abort, Owning
  <2> QED
    BY <1>14, <2>1, <2>2
<1> QED
  BY <1>4, <1>5, <1>6, <1>7, <1>8, <1>9, <1>11, <1>12, <1>13, <1>14
  DEF Step, Run, Find, Read
-----------------------------------------------------------------------------
(***************************************************************************)
(* The steps under a lock.                                                  *)
(***************************************************************************)

(* Taking a lock shows nothing: the slot was free. *)
LEMMA TakesAct ==
  ASSUME Image, Image', NEW t \in Threads, Step(t), Takes(t),
         NEW h \in Slots, h = reg[t].hit
  PROVE  Stutters
<1>1. /\ pc[t] = "try" /\ pc'[t] \in {"check", "verifySeq"}
      /\ UNCHANGED <<keys, cold, call, ret>> /\ reg'[t].hit = h
  <2>1. t \in DOMAIN pc /\ pc[t] = "try" /\ pc'[t] \in Owning /\ reg'[t].hit = h
    BY DEF Takes, Image, Sound, Locking, Placed, TypeOK
  <2>2. TryLock(t)
    BY <2>1 DEF Step, Begin, Reject, Run, Find, Owned, Read, FindHit, FindNext, FindMiss,
      LoadSeq, TryFails, CheckKey, VerifySeq, VerifyKey, VerifySkip, VerifyDone, WriteKey,
      WriteWord, Unlock, Abort, ReadSeq, ReadKey, ReadWord, ReadAgain, LookupValidated,
      ContainsValidated, EnumerateValidated, Validating, Owning, Goto
  <2> QED
    BY <2>1, <2>2 DEF TryLock, MayTry, Goto
<1>2. Owns(t, h)' /\ ~Hiding(t)' /\ ~Keeping(t)'
  BY <1>1 DEF Owns, Owning, Hiding, Keeping
<1>3. (Shown(h)' <=> keys'[h] # NoKey) /\ HeldPayload(h)' = cold'[h]
  BY <1>2 DEF Image, Views
<1>4. \A u \in Threads : ~Owns(u, h)
  BY TakesFree DEF Image, Sound, Locking, SlotOwnership
<1>5. (Shown(h) <=> keys[h] # NoKey) /\ HeldPayload(h) = cold[h]
  BY <1>4 DEF Image, Views
<1>6. HeldEntries' = HeldEntries
  BY <1>1, <1>3, <1>5, OneSlotMoves, EntriesStay DEF Same
<1>7. TakenEntry(t)' = TakenEntry(t)
  BY <1>1 DEF TakenEntry
<1> QED
  BY <1>1, <1>6, <1>7, CallsMove DEF Stutters, Image, Sound, Locking

(* What a call that keeps its lock shows before and after a step of its own. *)
LEMMA OwnView ==
  ASSUME Image, Image', NEW t \in Threads, Step(t), pc[t] \in Owning, pc'[t] \in Owning,
         NEW h \in Slots, h = reg[t].hit
  PROVE  /\ \A s \in Slots \ {h} : Same(s)
         /\ Shown(h) <=> keys[h] # NoKey /\ ~Hiding(t)
         /\ HeldPayload(h) = IF Keeping(t) THEN reg[t].ctx ELSE cold[h]
         /\ Shown(h)' <=> keys'[h] # NoKey /\ ~Hiding(t)'
         /\ HeldPayload(h)' = IF Keeping(t)' THEN reg'[t].ctx ELSE cold'[h]
<1>1. (\A s \in Slots \ {h} : Same(s)) /\ reg'[t].hit = h
  BY OneSlotMoves
<1>2. Owns(t, h) /\ Owns(t, h)'
  BY <1>1 DEF Owns
<1> QED
  BY <1>1, <1>2 DEF Image, Views

(* The moment an entry is taken out of the map: an insert overwrites the key *)
(* of the one it evicts, a delete clears its own.                            *)
LEMMA TakeAct ==
  ASSUME Image, Image', NEW t \in Threads, Step(t), pc[t] \in Owning, pc'[t] \in Owning,
         call' = call, ret' = ret, NEW h \in Slots, h = reg[t].hit,
         NEW k, k # NoKey, Shown(h), ~Shown(h)', keys[h] = k,
         call[t].op \in {"Insert", "Delete"}, call[t].op = "Insert" <=> k # call[t].key,
         TakenEntry(t) = Contract!Nothing,
         TakenEntry(t)' = [key |-> k, ctx |-> HeldPayload(h)]
  PROVE  Contract!Act(t)
<1>1. \A s \in Slots \ {h} : Same(s)
  BY OwnView
<1>2. HeldEntries' = Contract!Without(k)
  BY <1>1, EntriesMove DEF Image, Unique
<1>3. k \in DOMAIN HeldEntries /\ HeldEntries[k] = HeldPayload(h)
  BY DEF Image, HeldFacts
<1>4. /\ Taking[t] = TakenEntry(t) /\ Taking'[t] = TakenEntry(t)'
      /\ Taking' = [Taking EXCEPT ![t] = TakenEntry(t)']
  BY CallsMove DEF Taking, Image, Sound, Locking
<1>5. TakenEntry(t)' = Contract!Entry(k, HeldEntries[k])
      /\ TakenEntry(t)' # Contract!Nothing
  BY <1>3 DEF Contract!Entry, Contract!Nothing
<1>6. Contract!Take(t)
  BY <1>2, <1>3, <1>4, <1>5 DEF Contract!Take, Taking
<1> QED
  BY <1>6 DEF Contract!Act

(* A step under the lock that shows nothing. *)
LEMMA HiddenAct ==
  ASSUME Image, Image', NEW t \in Threads, Step(t), pc[t] \in Owning, pc'[t] \in Owning,
         call' = call, ret' = ret, NEW h \in Slots, h = reg[t].hit,
         Same(h) \/ (~Shown(h) /\ ~Shown(h)'),
         TakenEntry(t)' = TakenEntry(t)
  PROVE  Stutters
<1>1. \A s \in Slots \ {h} : Same(s)
  BY OwnView
<1>2. HeldEntries' = HeldEntries
  BY <1>1, EntriesMove DEF Image, Unique
<1> QED
  BY <1>2, CallsMove DEF Stutters, Image, Sound, Locking

(* Every step of a call that holds on to its slot. *)
LEMMA KeepsAct ==
  ASSUME Image, Image', NEW t \in Threads, Step(t), pc[t] \in Owning, pc'[t] \in Owning,
         NEW h \in Slots, h = reg[t].hit
  PROVE  Contract!Act(t) \/ Stutters
<1>1. /\ t \in DOMAIN pc /\ t \in DOMAIN call /\ t \in DOMAIN reg
      /\ reg[t] \in Regs /\ Placed /\ Shape(t)
      /\ Doing(t) /\ Captured(t) /\ Searched(t) /\ Located(t) /\ Copied(t)
      /\ keys \in [Slots -> Keys \cup {NoKey}]
      /\ cold \in [Slots -> Payloads]
  BY DEF Image, Sound, Locking, Contents, Placed, TypeOK, Unique
<1>2. call[t].op \in {"Insert", "Delete"} /\ call[t].key # NoKey
  <2>1. pc[t] # "idle" /\ call[t].op \in {"Insert", "Delete"}
    BY <1>1 DEF Shape, Owning
  <2> QED
    BY <1>1, <2>1, RunningCalls
<1> USE <1>1 DEF Goto, Set, Slot
<1>3. CASE CheckKey(t)
  <2>1. /\ UNCHANGED <<seqs, cold, call, ret>> /\ pc[t] = "check" /\ reg[t].exists
        /\ ~Hiding(t) /\ ~Keeping(t) /\ TakenEntry(t) = Contract!Nothing
    BY <1>3 DEF CheckKey, Hiding, Keeping, Located, TakenEntry, Contract!Nothing,
      Contract!Entry, Contract!Empty
  <2>2. CASE pc'[t] = "abort"
    <3>1. ~Hiding(t)' /\ ~Keeping(t)' /\ keys' = keys /\ TakenEntry(t)' = TakenEntry(t)
      BY <1>3, <2>1, <2>2 DEF CheckKey, Hiding, Keeping, TakenEntry
    <3>2. Same(h)
      BY <2>1, <3>1, OwnView DEF Same
    <3> QED
      BY <2>1, <3>1, <3>2, HiddenAct
  <2>3. CASE call[t].op = "Insert" /\ pc'[t] # "abort"
    <3>1. keys' = keys /\ pc'[t] \in {"writeKey", "unlock"}
      BY <1>3, <2>3 DEF CheckKey
    <3>2. Keeping(t)' /\ ~Hiding(t)' /\ reg'[t].ctx = cold[h]
      BY <1>3, <2>1, <2>3, <3>1, CheckedRegs DEF Keeping, Hiding
    <3>3. TakenEntry(t)' = TakenEntry(t)
      BY <2>1, <3>1 DEF TakenEntry
    <3>4. Same(h)
      BY <2>1, <3>1, <3>2, OwnView DEF Same
    <3> QED
      BY <2>1, <3>3, <3>4, HiddenAct
  <2>4. CASE call[t].op = "Delete" /\ pc'[t] # "abort"
    <3>1. /\ keys[h] = call[t].key /\ keys'[h] = NoKey /\ pc'[t] = "write"
      BY <1>3, <2>4 DEF CheckKey
    <3>2. reg'[t].key = call[t].key /\ reg'[t].ctx = cold[h]
      BY <1>3, <2>4, CheckedRegs
    <3>3. Shown(h) /\ ~Shown(h)' /\ HeldPayload(h) = cold[h]
      BY <1>2, <2>1, <3>1, OwnView
    <3>4. TakenEntry(t)' = [key |-> call[t].key, ctx |-> HeldPayload(h)]
      BY <2>1, <2>4, <3>1, <3>2, <3>3 DEF TakenEntry
    <3> QED
      BY <1>2, <2>1, <2>4, <3>1, <3>3, <3>4, TakeAct
  <2> QED
    BY <1>2, <2>2, <2>3, <2>4
<1>4. CASE VerifySeq(t) \/ VerifyKey(t) \/ VerifySkip(t) \/ VerifyDone(t)
  <2>1. /\ UNCHANGED <<keys, cold, call, ret>>
        /\ pc[t] \in {"verifySeq", "verifyKey"} /\ ~reg[t].exists
        /\ pc'[t] \in {"verifySeq", "verifyKey", "abort", "writeKey"}
    BY <1>4 DEF VerifySeq, VerifyKey, VerifySkip, VerifyDone, Located
  <2>2. reg'[t].exists = reg[t].exists
    BY <1>4 DEF VerifySeq, VerifyKey, VerifySkip, VerifyDone, Regs
  <2>3. ~Hiding(t) /\ ~Keeping(t) /\ ~Hiding(t)' /\ ~Keeping(t)'
    BY <2>1, <2>2 DEF Hiding, Keeping
  <2>4. Same(h)
    BY <2>1, <2>3, OwnView DEF Same
  <2>5. TakenEntry(t)' = TakenEntry(t)
    BY <2>1 DEF TakenEntry
  <2> QED
    BY <2>1, <2>4, <2>5, HiddenAct
<1>5. CASE WriteKey(t)
  <2>1. /\ UNCHANGED <<seqs, cold, call, ret>> /\ pc[t] = "writeKey" /\ pc'[t] = "write"
        /\ keys'[h] = call[t].key /\ call[t].op = "Insert"
        /\ reg'[t] = [reg[t] EXCEPT !.todo = Words]
    BY <1>5 DEF WriteKey, Shape
  <2>2. /\ reg'[t].exists = reg[t].exists
        /\ reg'[t].key = reg[t].key /\ reg'[t].ctx = reg[t].ctx
    BY <2>1 DEF Regs
  <2>3. TakenEntry(t) = Contract!Nothing
    BY <2>1 DEF TakenEntry, Contract!Nothing, Contract!Entry, Contract!Empty
  <2>4. CASE reg[t].exists
    <3>1. Keeping(t) /\ Keeping(t)' /\ ~Hiding(t) /\ ~Hiding(t)' /\ keys[h] = call[t].key
      BY <2>1, <2>2, <2>4 DEF Keeping, Hiding, Searched
    <3>2. /\ (Shown(h) <=> keys[h] # NoKey) /\ HeldPayload(h) = reg[t].ctx
          /\ (Shown(h)' <=> keys'[h] # NoKey) /\ HeldPayload(h)' = reg'[t].ctx
      BY <2>1, <3>1, OwnView
    <3>3. Same(h)
      BY <2>1, <2>2, <3>1, <3>2 DEF Same
    <3>4. TakenEntry(t)' = TakenEntry(t)
      BY <2>1, <2>2, <2>4 DEF TakenEntry
    <3> QED
      BY <2>1, <3>3, <3>4, HiddenAct
  <2>5. CASE ~reg[t].exists
    <3>1. /\ ~Keeping(t) /\ ~Hiding(t) /\ Hiding(t)' /\ keys[h] # call[t].key
          /\ reg[t].key = keys[h] /\ (keys[h] # NoKey => reg[t].ctx = cold[h])
      BY <2>1, <2>2, <2>5 DEF Keeping, Hiding, Searched, Seeking, Missing, Copied
    <3>2. /\ Shown(h) <=> keys[h] # NoKey
          /\ HeldPayload(h) = cold[h]
          /\ ~Shown(h)'
      BY <3>1, OwnView
    <3>3. TakenEntry(t)' = [key |-> keys[h], ctx |-> reg[t].ctx]
      BY <2>1, <2>2, <2>5, <3>1 DEF TakenEntry
    <3>4. CASE keys[h] = NoKey
      <4>1. reg[t].ctx = Payload(Zero)
        BY <2>1, <3>1, <3>4, NoKeyAssumption DEF Captured, Whole, Stamps
      <4>2. TakenEntry(t)' = TakenEntry(t)
        BY <2>3, <3>3, <3>4, <4>1 DEF Contract!Nothing, Contract!Entry, Contract!Empty
      <4> QED
        BY <2>1, <3>2, <3>4, <4>2, HiddenAct
    <3>5. CASE keys[h] # NoKey
      <4>1. TakenEntry(t)' = [key |-> keys[h], ctx |-> HeldPayload(h)]
        BY <3>1, <3>2, <3>3, <3>5
      <4> QED
        BY <2>1, <2>3, <3>1, <3>2, <3>5, <4>1, TakeAct
    <3> QED
      BY <3>4, <3>5
  <2> QED
    BY <2>4, <2>5
<1>6. CASE WriteWord(t)
  <2>1. /\ UNCHANGED <<keys, pc, call, ret>> /\ pc[t] = "write"
        /\ keys[h] = IF call[t].op = "Insert" THEN call[t].key ELSE NoKey
    BY <1>6 DEF WriteWord, Doing
  <2>2. PICK todo \in SUBSET Words : reg'[t] = [reg[t] EXCEPT !.todo = todo]
    BY <1>6 DEF WriteWord, Regs
  <2>3. /\ reg'[t].exists = reg[t].exists
        /\ reg'[t].key = reg[t].key /\ reg'[t].ctx = reg[t].ctx
    BY <2>2 DEF Regs
  <2>4. /\ Keeping(t)' <=> Keeping(t)
        /\ Hiding(t)' <=> Hiding(t)
        /\ TakenEntry(t)' = TakenEntry(t)
    BY <2>1, <2>3 DEF Keeping, Hiding, TakenEntry
  <2>5. Keeping(t) \/ Hiding(t) \/ keys[h] = NoKey
    BY <1>2, <2>1 DEF Keeping, Hiding
  <2>6. Same(h) \/ (~Shown(h) /\ ~Shown(h)')
    BY <2>1, <2>3, <2>4, <2>5, OwnView DEF Same
  <2> QED
    BY <2>1, <2>4, <2>6, HiddenAct
<1> QED
  <2>1. ~Unlock(t) /\ ~Abort(t)
    BY DEF Unlock, Abort, Return, Leave, Owning
  <2>2. /\ ~Begin(t) /\ ~Reject(t) /\ ~Find(t) /\ ~TryLock(t) /\ ~TryFails(t)
        /\ ~Read(t)
    BY DEF Begin, Reject, Find, FindHit, FindNext, FindMiss, LoadSeq, TryLock, TryFails,
      MayTry, Read, ReadSeq, ReadKey, ReadWord, ReadAgain, LookupValidated,
      ContainsValidated, EnumerateValidated, Validating, Owning
  <2> QED
    BY <1>3, <1>4, <1>5, <1>6, <2>1, <2>2 DEF Step, Run, Owned
-----------------------------------------------------------------------------
(* A slot that shows no entry leaves room for one. *)
LEMMA RoomForOne ==
  ASSUME HeldFacts, NEW h \in Slots, ~Shown(h)
  PROVE  Cardinality(DOMAIN HeldEntries) < NumSlots
<1> DEFINE D == DOMAIN HeldEntries
           slotOf == [k \in D |-> CHOOSE s \in Slots : Holds(s, k)]
<1>1. IsFiniteSet(Slots) /\ Cardinality(Slots) = NumSlots
  BY NumSlotsAssumption, FS_Interval DEF Slots
<1>2. /\ IsFiniteSet(Slots \ {h})
      /\ Cardinality(Slots \ {h}) = NumSlots - 1
  BY <1>1, FS_RemoveElement
<1>3. \A k \in D : slotOf[k] \in Slots /\ Holds(slotOf[k], k)
  BY DEF HeldFacts
<1>4. slotOf \in Injection(D, Slots \ {h})
  <2>1. slotOf \in [D -> Slots \ {h}]
    BY <1>3 DEF Holds
  <2>2. \A a, b \in DOMAIN slotOf : slotOf[a] = slotOf[b] => a = b
    BY <1>3 DEF Holds
  <2> QED
    BY <2>1, <2>2 DEF Injection, IsInjective
<1>5. IsFiniteSet(D) /\ Cardinality(D) <= NumSlots - 1
  BY <1>2, <1>4, FS_Injection
<1>6. Cardinality(D) \in Nat
  BY <1>5, FS_CardinalityType
<1> QED
  BY <1>5, <1>6, NumSlotsAssumption

(* The contract counts entries as this module does. *)
LEMMA SameCount ==
  ASSUME NEW S
  PROVE  Contract!Cardinality(S) = Cardinality(S)
BY DEF Contract!Cardinality, Cardinality

(* What a slot shows just before it is given up, and just after. *)
LEMMA LastView ==
  ASSUME Image, Image', NEW t \in Threads, Step(t), GivesUp(t),
         NEW h \in Slots, h = reg[t].hit
  PROVE  /\ keys'[h] = keys[h] /\ cold'[h] = cold[h]
         /\ \A s \in Slots \ {h} : Same(s)
         /\ Shown(h) <=> keys[h] # NoKey /\ ~Hiding(t)
         /\ HeldPayload(h) = IF Keeping(t) THEN reg[t].ctx ELSE cold[h]
         /\ Shown(h)' <=> keys[h] # NoKey
         /\ HeldPayload(h)' = cold[h]
         /\ TakenEntry(t)' = Contract!Nothing
<1>1. pc[t] \in Owning /\ pc'[t] \notin Owning /\ Placed
  BY DEF GivesUp, Image, Sound, Locking
<1>2. /\ \A s \in Slots \ {h} : Same(s)
      /\ keys'[h] = keys[h] /\ cold'[h] = cold[h]
  BY <1>1, OneSlotMoves, OnlyOwners
<1>3. Owns(t, h)
  BY <1>1 DEF Owns
<1>4. \A u \in Threads : ~Owns(u, h)'
  <2>1. ASSUME NEW u \in Threads, u # t PROVE ~Owns(u, h)'
    <3>1. ~Owns(u, h)
      BY <1>3, <2>1 DEF Image, Sound, Locking, SlotOwnership
    <3>2. pc'[u] = pc[u] /\ reg'[u] = reg[u]
      BY <1>1, <2>1, Frame DEF Framed, Placed
    <3> QED
      BY <3>1, <3>2 DEF Owns
  <2> QED
    BY <1>1, <2>1 DEF Owns
<1>5. /\ Shown(h) <=> keys[h] # NoKey /\ ~Hiding(t)
      /\ HeldPayload(h) = IF Keeping(t) THEN reg[t].ctx ELSE cold[h]
  BY <1>3 DEF Image, Views
<1>6. (Shown(h)' <=> keys'[h] # NoKey) /\ HeldPayload(h)' = cold'[h]
  BY <1>4 DEF Image, Views
<1>7. TakenEntry(t)' = Contract!Nothing
  BY <1>1 DEF TakenEntry, Contract!Nothing, Contract!Entry, Contract!Empty, Owning
<1> QED
  BY <1>2, <1>5, <1>6, <1>7

(* Only a delete gives up a slot it has locked, as the key has gone. *)
LEMMA AbortAct ==
  ASSUME Image, Image', NEW t \in Threads, Step(t), Abort(t), Noted(t),
         NEW h \in Slots, h = reg[t].hit, GivesUp(t)
  PROVE  Contract!Act(t)
<1>1. /\ pc[t] = "abort" /\ t \in DOMAIN call /\ t \in DOMAIN ret
      /\ call[t].op = "Delete" /\ Placed
  BY DEF Abort, Image, Unique, Searched, Sound, Locking, Placed, TypeOK
<1>2. /\ call'[t] = NoCall
      /\ ret'[t] = Result("false", NoKey, Payload(Zero))
  BY <1>1 DEF Abort, Return, Leave
<1>3. Asked(t) /\ missed[t]
  BY <1>1 DEF Asked, Noted
<1>4. ~Hiding(t) /\ ~Keeping(t) /\ TakenEntry(t) = Contract!Nothing
  BY <1>1 DEF Hiding, Keeping, TakenEntry, Contract!Nothing, Contract!Entry, Contract!Empty
<1>5. /\ \A s \in Slots \ {h} : Same(s)
      /\ Same(h) /\ TakenEntry(t)' = TakenEntry(t)
  BY <1>4, LastView DEF Same
<1>6. HeldEntries' = HeldEntries /\ Taking' = Taking
  BY <1>1, <1>5, EntriesStay, CallsMove
<1> QED
  BY <1>2, <1>3, <1>4, <1>6, MissAct

(* The unlock is the moment an insert takes effect, and the return of a *)
(* delete.                                                              *)
LEMMA UnlockAct ==
  ASSUME Image, Image', NEW t \in Threads, Step(t), Unlock(t),
         NEW h \in Slots, h = reg[t].hit, GivesUp(t)
  PROVE  Contract!Act(t)
<1>1. /\ t \in DOMAIN pc /\ t \in DOMAIN call /\ t \in DOMAIN reg /\ t \in DOMAIN ret
      /\ reg[t] \in Regs /\ Placed /\ Shape(t) /\ pc[t] \in Owning
      /\ Doing(t) /\ Captured(t) /\ Searched(t) /\ Located(t) /\ Copied(t)
      /\ cold \in [Slots -> Payloads]
  BY DEF GivesUp, Image, Sound, Locking, Contents, Placed, TypeOK, Unique
<1>2. /\ call[t].op \in {"Insert", "Delete"} /\ call[t] \in Calls
      /\ call[t].key # NoKey /\ (call[t].op = "Insert" => call[t].policy \in Policies)
  <2>1. pc[t] # "idle" /\ call[t].op \in {"Insert", "Delete"}
    BY <1>1 DEF Shape, Owning
  <2> QED
    BY <1>1, <2>1, RunningCalls
<1>3. /\ pc[t] = "unlock" \/ (pc[t] = "write" /\ reg[t].todo = {})
      /\ call'[t] = NoCall
      /\ ret' = [ret EXCEPT ![t] =
           Result(IF call[t].op = "Delete" THEN "true"
                  ELSE IF reg[t].exists THEN "Updated" ELSE "Inserted",
                  reg[t].key, reg[t].ctx)]
  BY <1>1 DEF Unlock, Return, Leave
<1>4. /\ \A s \in Slots \ {h} : Same(s)
      /\ keys'[h] = keys[h]
      /\ Shown(h) <=> keys[h] # NoKey /\ ~Hiding(t)
      /\ HeldPayload(h) = IF Keeping(t) THEN reg[t].ctx ELSE cold[h]
      /\ Shown(h)' <=> keys[h] # NoKey
      /\ HeldPayload(h)' = cold[h]
      /\ TakenEntry(t)' = Contract!Nothing
  BY LastView
<1>5. Contract!Ends(t)
  BY <1>1, <1>3, CallsMove, SameWords DEF Contract!Ends
<1>6. Taking[t] = TakenEntry(t) /\ Taking' = [Taking EXCEPT ![t] = Contract!Nothing]
  BY <1>1, <1>4, CallsMove DEF Taking
<1>7. pc[t] = "write" =>
        /\ keys[h] = IF call[t].op = "Insert" THEN call[t].key ELSE NoKey
        /\ cold[h] = Payload(call[t].val)
  <2> SUFFICES ASSUME pc[t] = "write"
               PROVE  /\ keys[h] = IF call[t].op = "Insert" THEN call[t].key ELSE NoKey
                      /\ cold[h] = Payload(call[t].val)
    OBVIOUS
  <2>1. /\ keys[h] = IF call[t].op = "Insert" THEN call[t].key ELSE NoKey
        /\ \A w \in Words : cold[h][w] = call[t].val
    BY <1>1, <1>3 DEF Doing
  <2>2. Payload(call[t].val) \in Payloads
    BY <1>2, CallFacts DEF Payload, Payloads
  <2>3. \A w \in Words : cold[h][w] = Payload(call[t].val)[w]
    BY <2>1 DEF Payload
  <2> QED
    BY <1>1, <2>1, <2>2, <2>3, SamePayload
<1>8. CASE call[t].op = "Delete"
  <2>1. /\ pc[t] = "write" /\ keys[h] = NoKey /\ reg[t].key = call[t].key
        /\ TakenEntry(t) = [key |-> reg[t].key, ctx |-> reg[t].ctx]
    BY <1>1, <1>3, <1>7, <1>8 DEF Located, Copied, Shape, TakenEntry
  <2>2. HeldEntries' = HeldEntries
    BY <1>4, <2>1, EntriesMove DEF Image, Unique
  <2>3. TakenEntry(t) # Contract!Nothing
    BY <1>2, <2>1 DEF Contract!Nothing, Contract!Entry
  <2>4. Contract!Return(t, Contract!Result("true", Taking[t].key, Taking[t].ctx))
    <3>1. Taking[t].key = reg[t].key /\ Taking[t].ctx = reg[t].ctx
      BY <1>6, <2>1
    <3>2. ret' = [ret EXCEPT ![t] = Contract!Result("true", Taking[t].key, Taking[t].ctx)]
      BY <1>3, <1>8, <3>1, SameWords
    <3> QED
      BY <1>6, <3>2 DEF Contract!Return, Taking
  <2>5. Contract!Deleted(t)
    BY <1>6, <2>2, <2>3, <2>4 DEF Contract!Deleted, Taking
  <2> QED
    BY <1>5, <1>8, <2>5 DEF Contract!Act
<1>9. CASE call[t].op = "Insert" /\ ~reg[t].exists
  <2>1. /\ pc[t] = "write" /\ keys[h] = call[t].key /\ Hiding(t)
        /\ cold[h] = Payload(call[t].val)
        /\ TakenEntry(t) = [key |-> reg[t].key, ctx |-> reg[t].ctx]
    BY <1>1, <1>3, <1>7, <1>9 DEF Located, Hiding, TakenEntry
  <2>2. /\ ~Shown(h) /\ Shown(h)' /\ keys'[h] = call[t].key
        /\ HeldPayload(h)' = Payload(call[t].val)
    BY <1>2, <1>4, <2>1
  <2>3. HeldEntries' = Contract!With(call[t].key, Payload(call[t].val))
    BY <1>4, <2>2, EntriesMove DEF Image, Unique
  <2>4. call[t].key \notin DOMAIN HeldEntries
    <3>1. ASSUME NEW s \in Slots, Holds(s, call[t].key) PROVE FALSE
      BY <1>2, <2>1, <2>2, <3>1 DEF Holds, Image, Unique, Distinct
    <3> QED
      BY <3>1 DEF Image, HeldFacts
  <2>5. Contract!Cardinality(DOMAIN HeldEntries) < NumSlots
    BY <2>2, RoomForOne, SameCount DEF Image
  <2>6. Contract!Return(t, Contract!Result("Inserted", Taking[t].key, Taking[t].ctx))
    <3>1. Taking[t].key = reg[t].key /\ Taking[t].ctx = reg[t].ctx
      BY <1>6, <2>1
    <3>2. ret' = [ret EXCEPT ![t] =
                    Contract!Result("Inserted", Taking[t].key, Taking[t].ctx)]
      BY <1>3, <1>9, <3>1, SameWords
    <3> QED
      BY <1>6, <3>2 DEF Contract!Return, Taking
  <2>7. Contract!Add(t)
    BY <2>3, <2>4, <2>5, <2>6 DEF Contract!Add, Taking
  <2> QED
    BY <1>5, <1>9, <2>7 DEF Contract!Act
<1>10. CASE call[t].op = "Insert" /\ reg[t].exists
  <2>1. /\ Keeping(t) /\ ~Hiding(t) /\ keys[h] = call[t].key /\ reg[t].key = call[t].key
        /\ call[t].policy # "Keep"
        /\ TakenEntry(t) = Contract!Nothing
    BY <1>1, <1>3, <1>10 DEF Keeping, Hiding, Searched, Copied, TakenEntry,
      Contract!Nothing, Contract!Entry, Contract!Empty
  <2>2. /\ Shown(h) /\ Shown(h)' /\ keys'[h] = call[t].key
        /\ HeldPayload(h) = reg[t].ctx /\ HeldPayload(h)' = cold[h]
    BY <1>2, <1>4, <2>1
  <2>3. /\ call[t].key \in DOMAIN HeldEntries
        /\ HeldEntries[call[t].key] = reg[t].ctx
    BY <2>1, <2>2 DEF Image, HeldFacts
  <2>4. Contract!Return(t,
          Contract!Result("Updated", call[t].key, HeldEntries[call[t].key]))
    BY <1>3, <1>6, <1>10, <2>1, <2>3, SameWords DEF Contract!Return, Taking
  <2>5. HeldEntries' = IF call[t].policy = "Overwrite"
                         THEN Contract!With(call[t].key, Payload(call[t].val))
                         ELSE HeldEntries
    <3>1. CASE call[t].policy = "Overwrite"
      <4>1. cold[h] = Payload(call[t].val)
        BY <1>1, <1>3, <1>7, <3>1 DEF Located
      <4>2. HeldEntries' = Contract!With(call[t].key, Payload(call[t].val))
        BY <1>4, <2>1, <2>2, <4>1, EntriesMove DEF Image, Unique
      <4> QED
        BY <3>1, <4>2
    <3>2. CASE call[t].policy # "Overwrite"
      <4>1. cold[h] = reg[t].ctx
        BY <1>1, <1>3, <1>10, <3>2 DEF Located, Copied
      <4>2. HeldEntries' = HeldEntries
        BY <1>4, <2>2, <4>1, EntriesMove DEF Image, Unique, Same
      <4> QED
        BY <3>2, <4>2
    <3> QED
      BY <3>1, <3>2
  <2>6. Contract!Update(t)
    BY <1>6, <2>1, <2>3, <2>4, <2>5 DEF Contract!Update, Taking
  <2> QED
    BY <1>5, <1>10, <2>6 DEF Contract!Act
<1> QED
  BY <1>2, <1>8, <1>9, <1>10
-----------------------------------------------------------------------------
(***************************************************************************)
(* All steps.                                                               *)
(***************************************************************************)

(* A step of a call is a step of the contract's call, or shows nothing. *)
LEMMA StepAct ==
  ASSUME Image, Image', NEW t \in Threads, Step(t), Noted(t)
  PROVE  Contract!Act(t) \/ Stutters
<1>1. /\ pc[t] \in Owning \/ pc'[t] \in Owning => reg[t].hit \in Slots
      /\ Takes(t) \/ GivesUp(t) \/ Keeps(t)
  BY OneSlotMoves, Phases DEF Image, Sound, Locking
<1>2. CASE pc[t] \notin Owning /\ pc'[t] \notin Owning
  BY <1>2, OutsideAct
<1>3. CASE pc[t] \in Owning \/ pc'[t] \in Owning
  <2>1. PICK h \in Slots : h = reg[t].hit
    BY <1>1, <1>3
  <2>2. CASE Takes(t)
    BY <2>1, <2>2, TakesAct
  <2>3. CASE Keeps(t)
    BY <1>3, <2>1, <2>3, KeepsAct DEF Keeps
  <2>4. CASE GivesUp(t)
    <3>1. Unlock(t) \/ Abort(t)
      <4>1. pc[t] \in Owning /\ pc'[t] \notin Owning /\ pc \in [Threads -> Labels]
        BY <2>4 DEF GivesUp, Image, Sound, Locking, Placed, TypeOK
      <4> QED
        BY <4>1 DEF Step, Begin, Reject, Run, Find, Owned, Read, FindHit, FindNext, FindMiss,
           LoadSeq, TryLock, TryFails, MayTry, CheckKey, VerifySeq, VerifyKey, VerifySkip,
           VerifyDone, WriteKey, WriteWord, ReadSeq, ReadKey, ReadWord, ReadAgain,
           LookupValidated, ContainsValidated, EnumerateValidated, Validating, Owning, Goto
    <3> QED
      BY <2>1, <2>4, <3>1, UnlockAct, AbortAct
  <2> QED
    BY <1>1, <2>2, <2>3, <2>4
<1> QED
  BY <1>2, <1>3

(* A step that shows nothing is no new moment for a query. *)
LEMMA NothingNoted ==
  ASSUME Faithful, Contract!Observe, Stutters
  PROVE  missed' = missed
<1>1. missed \in [Threads -> BOOLEAN] /\ HeldEntries' = HeldEntries /\ call' = call
  BY DEF Faithful, Stutters
<1>2. ASSUME NEW u \in Threads PROVE missed'[u] = missed[u]
  <2>1. Noted(u) /\ missed[u] \in BOOLEAN
    BY <1>1 DEF Faithful
  <2>2. missed'[u] = (/\ call[u].op \in {"Lookup", "Contains", "Delete"}
                      /\ missed[u] \/ ~Contract!There(call[u].op, call[u].key))
    BY <1>1 DEF Contract!Observe, Contract!Queries, Contract!There
  <2> QED
    BY <2>1, <2>2 DEF Noted, Asked
<1>3. missed' = [u \in Threads |-> missed'[u]]
  BY DEF Contract!Observe
<1> QED
  BY <1>1, <1>2, <1>3

(* What is known of every thread stays known. *)
LEMMA FaithfulStep ==
  ASSUME Image, Image', Faithful, NEW t \in Threads, Step(t), Contract!Observe
  PROVE  Faithful'
<1>1. missed \in [Threads -> BOOLEAN] /\ \A u \in Threads : Noted(u)
  BY DEF Faithful
<1>2. ASSUME NEW u \in Threads PROVE missed'[u] \in BOOLEAN /\ Noted(u)'
  BY <1>1, NotedStep
<1>3. missed' = [u \in Threads |-> missed'[u]]
  BY DEF Contract!Observe
<1> QED
  BY <1>2, <1>3 DEF Faithful

(* The inductive invariant of the refinement. *)
Refinable == Image /\ Faithful

(* All that the mapping of a step relies on holds in every reachable state. *)
LEMMA RefinableInvariant == CDisciplinedSpec => []Refinable
<1>1. CDisciplinedSpec => []Image
  BY ImageFacts, UniqueInvariant, PTL
<1>2. CInit => Faithful
  BY DEF CInit, Init, Faithful, Noted, Asked, NoCall, Call
<1>3. Image /\ Image' /\ Faithful /\ [CNext /\ InsertsAlone']_cvars => Faithful'
  <2> SUFFICES ASSUME Image, Image', Faithful, [CNext /\ InsertsAlone']_cvars
               PROVE  Faithful'
    OBVIOUS
  <2>1. CASE UNCHANGED cvars
    <3>1. HeldEntries' = HeldEntries /\ \A s \in Slots : Shown(s)' <=> Shown(s)
      BY <2>1 DEF cvars, vars, HeldEntries, HeldPayload, Replacing, Shown, Filling, Owns
    <3> QED
      BY <2>1, <3>1 DEF cvars, vars, Faithful, Noted, Asked, Holds, Contract!There
  <2>2. CASE CNext
    BY <2>2, FaithfulStep DEF CNext, Next, Step
  <2> QED
    BY <2>1, <2>2
<1> QED
  BY <1>1, <1>2, <1>3, PTL DEF CDisciplinedSpec, Refinable

(* The first state shows the empty map. *)
LEMMA InitRefines == CInit => Contract!Init
<1> SUFFICES ASSUME CInit PROVE Contract!Init
  OBVIOUS
<1>1. /\ keys = [s \in Slots |-> NoKey] /\ pc = [t \in Threads |-> "idle"]
      /\ call = [t \in Threads |-> NoCall] /\ ret = [t \in Threads |-> NoResult]
      /\ missed = [t \in Threads |-> FALSE]
  BY DEF CInit, Init
<1>2. {keys[s] : s \in {u \in Slots : Shown(u)}} = {}
  BY <1>1 DEF Shown
<1>3. HeldEntries = [k \in {} |-> Contract!Empty]
  BY <1>2 DEF HeldEntries
<1>4. [t \in Threads |-> TakenEntry(t)] = [t \in Threads |-> Contract!Nothing]
  BY <1>1 DEF TakenEntry, Contract!Nothing, Contract!Entry, Contract!Empty
<1> QED
  BY <1>1, <1>3, <1>4, SameWords DEF Contract!Init

(* The bucket of the kernel-mode cache does what CacheContract promises, for *)
(* callers that run no other writer beside a CheckAndInsert: every call      *)
(* takes effect at one moment between its start and its return, and a reader *)
(* that leaves a slot without a second look at its word misses no entry that *)
(* was there throughout.                                                     *)
THEOREM KmBucketImplementsContract == CDisciplinedSpec => ImplementsContract
<1>1. CInit => Contract!Init
  BY InitRefines
<1>2. /\ Refinable /\ Refinable' /\ [CNext /\ InsertsAlone']_cvars
      => [Contract!Next]_(Contract!vars)
  <2> SUFFICES ASSUME Refinable, Refinable', [CNext /\ InsertsAlone']_cvars
               PROVE  Contract!Next \/ UNCHANGED Contract!vars
    OBVIOUS
  <2>1. CASE UNCHANGED cvars
    <3>1. HeldEntries' = HeldEntries
      BY <2>1 DEF cvars, vars, HeldEntries, HeldPayload, Replacing, Shown, Filling, Owns
    <3>2. Taking' = Taking
      BY <2>1 DEF cvars, vars, Taking, TakenEntry
    <3> QED
      BY <2>1, <3>1, <3>2 DEF cvars, vars, Contract!vars, Taking
  <2>2. ASSUME NEW t \in Threads, Step(t), Contract!Observe
        PROVE  Contract!Next \/ UNCHANGED Contract!vars
    <3>1. Contract!Act(t) \/ Stutters
      BY <2>2, StepAct DEF Refinable, Faithful
    <3>2. CASE Contract!Act(t)
      BY <2>2, <3>2 DEF Contract!Next
    <3>3. CASE Stutters
      <4>1. missed' = missed
        BY <2>2, <3>3, NothingNoted DEF Refinable
      <4> QED
        BY <3>3, <4>1 DEF Stutters, Contract!vars, Taking
    <3> QED
      BY <3>1, <3>2, <3>3
  <2> QED
    BY <2>1, <2>2 DEF CNext, Next, Step
<1> QED
  BY <1>1, <1>2, RefinableInvariant, PTL DEF CDisciplinedSpec, ImplementsContract, Contract!Spec
=============================================================================
