-------------------------- MODULE KmCacheSetContract --------------------------
(***************************************************************************)
(* The bucket of the kernel-mode cache implements CacheContract, with one   *)
(* reservation the contract has a parameter for: an entry whose payload is  *)
(* all zeroes is there for every operation but LookupContext.               *)
(***************************************************************************)
EXTENDS KmCacheSet

VARIABLE
  missed   \* the running query's key was missing at some moment of the call

cvars == <<vars, missed>>

(* An insert of a new key shows its entry when it unlocks the slot, and hides *)
(* the one it evicts when it overwrites the key; Delete clears the key first. *)
Filling(t, s) ==
  Owns(t, s) /\ call[t].op = "Insert" /\ ~reg[t].exists /\ pc[t] = "write"

Replacing(t, s) ==
  /\ Owns(t, s) /\ call[t].op = "Insert" /\ reg[t].exists
  /\ pc[t] \in {"writeKey", "write", "unlock"}

Shown(s) ==
  keys[s] # NoKey /\ (Odd(seqs[s]) => \A t \in Threads : ~Filling(t, s))

HeldPayload(s) ==
  IF Odd(seqs[s]) /\ \E t \in Threads : Replacing(t, s)
    THEN reg[CHOOSE t \in Threads : Replacing(t, s)].ctx
    ELSE cold[s]

HeldEntries ==
  [k \in {keys[s] : s \in {u \in Slots : Shown(u)}} |->
     HeldPayload(CHOOSE s \in Slots : Shown(s) /\ keys[s] = k)]

TakenEntry(t) ==
  IF pc[t] = "write" /\ ~(call[t].op = "Insert" /\ reg[t].exists)
    THEN [key |-> reg[t].key, ctx |-> reg[t].ctx]
    ELSE [key |-> NoKey, ctx |-> Payload(Zero)]

Blanks == {Payload(Zero) : n \in {m \in {NumWords} : m > 0}}

Contract == INSTANCE CacheContract WITH
  Values   <- Stamps \cup {Zero},
  NoValue  <- Zero,
  Capacity <- NumSlots,
  entries  <- HeldEntries,
  took     <- [t \in Threads |-> TakenEntry(t)]

CInit == Init /\ missed = [t \in Threads |-> FALSE]

CNext == Next /\ Contract!Observe

CDisciplinedSpec == CInit /\ [][CNext /\ InsertsAlone']_cvars

(* While inserts run alone, every call behaves as if it took effect at one  *)
(* moment.  The reader that leaves a slot with another key without a second *)
(* look at its word misses nothing that was there throughout.               *)
ImplementsContract == Contract!Spec
=============================================================================
