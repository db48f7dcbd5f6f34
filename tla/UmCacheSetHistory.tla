-------------------------- MODULE UmCacheSetHistory --------------------------
(***************************************************************************)
(* UmCacheSet with a history variable: whether the bucket has been without  *)
(* the key asked for, and at rest, since a running Contains began.  No step *)
(* of UmCacheSet reads it.                                                  *)
(***************************************************************************)
EXTENDS UmCacheSet

VARIABLE
  quiet   \* the key was missing at some moment when no slot was locked

hvars == <<vars, quiet>>

QuietlyMissing(k) == \A s \in Slots : ~Odd(seqs[s]) /\ keys[s] # k

Asking(t) == pc[t] # "idle" /\ call[t].op = "Contains"

HInit == Init /\ quiet = [t \in Threads |-> FALSE]

(* Each running Contains takes note of the bucket it finds after the step. *)
Observe ==
  quiet' = [t \in Threads |->
    Asking(t)' /\ (quiet[t] \/ QuietlyMissing(call[t].key)')]

HNext == Next /\ Observe

HSpec == HInit /\ [][HNext]_hvars
-----------------------------------------------------------------------------
(* Contains says FALSE only if, at some moment of the call, no slot of the  *)
(* bucket was locked and none held the key, whatever the other threads did: *)
(* its two passes over the sequence words make the scan a snapshot.         *)
ContainsMissWasAbsent ==
  [][\A t \in Threads : Asking(t) /\ ret'[t].res = "false" => quiet[t]]_hvars
=============================================================================
