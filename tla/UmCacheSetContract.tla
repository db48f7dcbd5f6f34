-------------------------- MODULE UmCacheSetContract --------------------------
(***************************************************************************)
(* The bucket of the user-mode cache implements CacheContract.  The mapping *)
(* says which entries the bucket holds in every state, those in which       *)
(* writers are half way through their slots included.                       *)
(***************************************************************************)
EXTENDS UmCacheSet

VARIABLE
  missed   \* the running query's key was missing at some moment of the call

cvars == <<vars, missed>>

(* The steps of an insert of a new key from the moment its key covers the *)
(* old one in slot s: neither is there until the slot is unlocked.        *)
Covering == {"verifySeq", "verifyKey", "restore", "write", "unlock"}
Covered(s) ==
  seqs[s].bits = 3 /\ \E t \in Threads : Owns(t, s) /\ pc[t] \in Covering

Shown(s) == keys[s] # NoKey /\ ~Covered(s)

(* An entry that is being updated or deleted keeps its payload, which the *)
(* writer has in its locals, until it is unlocked or its key is cleared.  *)
Replacing(t, s) ==
  Owns(t, s) /\ pc[t] \in {"write", "unlock"} /\ seqs[s].bits = 1

HeldPayload(s) ==
  IF Odd(seqs[s]) /\ \E t \in Threads : Replacing(t, s)
    THEN reg[CHOOSE t \in Threads : Replacing(t, s)].ctx
    ELSE cold[s]

HeldEntries ==
  [k \in {keys[s] : s \in {u \in Slots : Shown(u)}} |->
     HeldPayload(CHOOSE s \in Slots : Shown(s) /\ keys[s] = k)]

TakenEntry(t) ==
  LET r == reg[t] IN
  CASE /\ call[t].op = "Insert" /\ pc[t] \in Covering
       /\ seqs[r.hit].bits = 3 /\ r.key # NoKey ->
         [key |-> r.key,
          ctx |-> IF pc[t] \in {"write", "unlock"} THEN r.ctx ELSE cold[r.hit]]
    [] call[t].op = "Delete" /\ pc[t] = "unlock" -> [key |-> r.key, ctx |-> r.ctx]
    [] OTHER -> [key |-> NoKey, ctx |-> Payload(Zero)]

AbstractCall(t) ==
  IF pc[t] = "idle"
    THEN [op |-> "none", key |-> NoKey, val |-> Zero, policy |-> "Keep"]
    ELSE [op |-> call[t].op, key |-> call[t].key, val |-> call[t].val,
          policy |-> IF call[t].keep THEN "KeepAndRead" ELSE "Overwrite"]

Contract == INSTANCE CacheContract WITH
  Values   <- Stamps,
  NoValue  <- Zero,
  Blanks   <- {},
  Capacity <- NumSlots,
  entries  <- HeldEntries,
  call     <- [t \in Threads |-> AbstractCall(t)],
  took     <- [t \in Threads |-> TakenEntry(t)]

CInit == Init /\ missed = [t \in Threads |-> FALSE]

CNext == Next /\ Contract!Observe

CDisciplinedSpec == CInit /\ [][CNext /\ OneInserterPerKey']_cvars

(* While no key is inserted by two calls at once, every call behaves as if *)
(* it took effect at one moment: an update reports the very payload it     *)
(* replaces, an insert the one it evicts, a hit and a report what is there,*)
(* and a miss was a miss at some moment of the call.                       *)
ImplementsContract == Contract!Spec
=============================================================================
