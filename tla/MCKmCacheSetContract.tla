------------------------- MODULE MCKmCacheSetContract -------------------------
(* Model values for the run of KmCacheSetContract. *)
EXTENDS KmCacheSetContract, TLC

(* Every thread on a processor of its own. *)
OwnCores == [t \in Threads |-> t]

(* Three locks in all, as many as it takes to fill two slots and to evict: *)
(* an even word is twice the number of times its slot has been locked.     *)
FewLocks == \A s, u \in Slots : s # u => seqs[s] + seqs[u] <= 6

Symmetry ==
  Permutations(Keys) \cup Permutations(Tags) \cup Permutations(Threads)
=============================================================================
