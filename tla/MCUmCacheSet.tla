---------------------------- MODULE MCUmCacheSet ----------------------------
(* Model values for the runs of UmCacheSet. *)
EXTENDS UmCacheSet, TLC

(* Threads, keys and tags are interchangeable: the code compares keys with *)
(* one another and with 0 only.  Used by the safety runs.                  *)
Symmetry ==
  Permutations(Threads) \cup Permutations(Keys) \cup Permutations(Tags)
=============================================================================
