---------------------------- MODULE MCKmCacheSet ----------------------------
(* Model values for the runs of KmCacheSet. *)
EXTENDS KmCacheSet, TLC

CONSTANTS t1, t2, d1

(* Every thread on a processor of its own. *)
OwnCores == [t \in Threads |-> t]

(* The DPC d1 interrupts thread t1; t2 is on another processor. *)
SharedCore == [t \in Threads |-> IF t = d1 THEN t1 ELSE t]

(* Used by the safety runs. *)
Symmetry == Permutations(Keys) \cup Permutations(Tags)
ThreadSymmetry == Symmetry \cup Permutations(Threads)
=============================================================================
