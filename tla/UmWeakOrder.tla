---------------------------- MODULE UmWeakOrder ----------------------------
(***************************************************************************)
(* One slot of um/optimistic_cache.h under the memory order the code asks   *)
(* for: updates that overwrite a payload of two words, and lookups.  The    *)
(* slot's key stays, so its loads always succeed and are left out.          *)
(*                                                                          *)
(* The memory is that of C++20 without promises: a location holds all the   *)
(* messages stored to it, in their modification order; a thread may read    *)
(* any that is not older than what it has to know of.  Every execution here *)
(* is one that C++ allows; those it allows beyond are not here.             *)
(***************************************************************************)
EXTENDS Integers, Sequences

CONSTANTS
  Updaters, Readers,
  MaxUpdates  \* bound: versions ever written

Threads == Updaters \cup Readers
Words == {"low", "high"}
Locations == Words \cup {"seq"}

VARIABLES
  memory,  \* by location, the messages: value, and the view that comes with it
  view,    \* by thread and location, the oldest message it may still read
  heard,   \* by thread, the views of messages read with relaxed loads
  pc,
  local    \* by thread: seq (seq1 in a reader) and what it read, low and high

vars == <<memory, view, heard, pc, local>>
-----------------------------------------------------------------------------
(* A view knows one message of every location. *)
Nothing == [l \in Locations |-> 1]
Join(v, w) == [l \in Locations |-> IF v[l] < w[l] THEN w[l] ELSE v[l]]
Knowing(v, l, n) == [v EXCEPT ![l] = IF @ < n THEN n ELSE @]

Message(value, v) == [value |-> value, view |-> v]
Last(l) == Len(memory[l])
Readable(t, l) == view[t][l] .. Last(l)

(* Reading: only an acquire load takes the message's view at once. *)
Acquired(t, l, n) == Join(Knowing(view[t], l, n), memory[l][n].view)

LoadAcquire(t, l, n) ==
  view' = [view EXCEPT ![t] = Acquired(t, l, n)] /\ UNCHANGED heard
LoadRelaxed(t, l, n) ==
  /\ view' = [view EXCEPT ![t] = Knowing(@, l, n)]
  /\ heard' = [heard EXCEPT ![t] = Join(@, memory[l][n].view)]
AcquireFence(t, v) == Join(v, heard[t])

(* A relaxed store takes no view along, a release store the thread's. *)
StoreRelaxed(t, l, value) ==
  /\ memory' = [memory EXCEPT ![l] = Append(@, Message(value, Nothing))]
  /\ view' = [view EXCEPT ![t] = Knowing(@, l, Last(l) + 1)]
StoreRelease(t, l, value) ==
  LET v == Knowing(view[t], l, Last(l) + 1)
  IN  /\ memory' = [memory EXCEPT ![l] = Append(@, Message(value, v))]
      /\ view' = [view EXCEPT ![t] = v]

(* An acquire compare-and-swap reads the last message and passes its view  *)
(* on, and nothing of the thread's.                                        *)
CasAcquire(t, l, value) ==
  LET v == Acquired(t, l, Last(l))
  IN  /\ memory' = [memory EXCEPT
           ![l] = Append(@, Message(value, memory[l][Last(l)].view))]
      /\ view' = [view EXCEPT ![t] = Knowing(v, l, Last(l) + 1)]
-----------------------------------------------------------------------------
Idle == [seq |-> 0, low |-> 0, high |-> 0]
IsLocked(seq) == seq % 2 = 1
Version(seq) == (seq \div 4) + 1

Init ==
  /\ memory = [l \in Locations |-> <<Message(0, Nothing)>>]
  /\ view = [t \in Threads |-> Nothing]
  /\ heard = [t \in Threads |-> Nothing]
  /\ pc = [t \in Threads |-> "start"]
  /\ local = [t \in Threads |-> Idle]

Goto(t, label) == pc' = [pc EXCEPT ![t] = label]
Keep(t, field, value) == local' = [local EXCEPT ![t][field] = value]

(* Update: the sequence is loaded; an odd one is loaded again. *)
UpdateLoad(t) ==
  /\ pc[t] = "start"
  /\ \E n \in Readable(t, "seq") :
       LET seq == memory["seq"][n].value
       IN  /\ LoadRelaxed(t, "seq", n)
           /\ Version(seq) <= MaxUpdates
           /\ IF IsLocked(seq) THEN UNCHANGED <<pc, local>>
              ELSE Keep(t, "seq", seq) /\ Goto(t, "cas")
  /\ UNCHANGED memory

UpdateLock(t) ==
  /\ pc[t] = "cas"
  /\ IF memory["seq"][Last("seq")].value = local[t].seq
       THEN CasAcquire(t, "seq", local[t].seq + 1) /\ Goto(t, "low")
       ELSE Goto(t, "start") /\ UNCHANGED <<memory, view>>
  /\ UNCHANGED <<heard, local>>

(* The two halves of the payload. *)
UpdateWrite(t, word, then) ==
  /\ pc[t] = word
  /\ StoreRelaxed(t, word, Version(local[t].seq))
  /\ Goto(t, then)
  /\ UNCHANGED <<heard, local>>

UpdateUnlock(t) ==
  /\ pc[t] = "unlock"
  /\ StoreRelease(t, "seq", local[t].seq + 4)
  /\ Goto(t, "start")
  /\ UNCHANGED <<heard, local>>

(* LookupContext: seq1, the payload, the fence, seq2. *)
LookupBegin(t) ==
  /\ pc[t] \in {"start", "returned"}
  /\ \E n \in Readable(t, "seq") :
       /\ LoadAcquire(t, "seq", n)
       /\ ~IsLocked(memory["seq"][n].value)
       /\ Keep(t, "seq", memory["seq"][n].value)
  /\ Goto(t, "read low")
  /\ UNCHANGED memory

LookupRead(t, word, at, then) ==
  /\ pc[t] = at
  /\ \E n \in Readable(t, word) :
       LoadRelaxed(t, word, n) /\ Keep(t, word, memory[word][n].value)
  /\ Goto(t, then)
  /\ UNCHANGED memory

LookupEnd(t) ==
  /\ pc[t] = "validate"
  /\ LET known == AcquireFence(t, view[t])
     IN  \E n \in known["seq"] .. Last("seq") :
           /\ view' = [view EXCEPT ![t] = Knowing(known, "seq", n)]
           /\ Goto(t, IF memory["seq"][n].value = local[t].seq
                        THEN "returned" ELSE "start")
  /\ UNCHANGED <<memory, heard, local>>

Update(t) ==
  \/ UpdateLoad(t) \/ UpdateLock(t)
  \/ UpdateWrite(t, "low", "high") \/ UpdateWrite(t, "high", "unlock")
  \/ UpdateUnlock(t)

LookupContext(t) ==
  \/ LookupBegin(t)
  \/ LookupRead(t, "low", "read low", "read high")
  \/ LookupRead(t, "high", "read high", "validate")
  \/ LookupEnd(t)

Next ==
  \/ \E t \in Updaters : Update(t)
  \/ \E t \in Readers : LookupContext(t)

Spec == Init /\ [][Next]_vars
-----------------------------------------------------------------------------
(* A lookup returns the two halves of one version: "the overarching SeqLock *)
(* loop will detect the tear" (optimistic_cache.h:331).  The weak order does *)
(* not promise it: a store of a half may be seen before the store of the    *)
(* odd sequence that precedes it.                                           *)
TearsAreDetected ==
  \A t \in Readers : pc[t] = "returned" => local[t].low = local[t].high
=============================================================================
