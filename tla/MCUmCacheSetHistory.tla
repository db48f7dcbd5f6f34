---------------------------- MODULE MCUmCacheSetHistory ----------------------------
(* Model values for the runs of UmCacheSetHistory. *)
EXTENDS UmCacheSetHistory, TLC

(* Threads, keys and tags are interchangeable: the code compares keys with *)
(* one another and with 0 only.  Used by the safety runs.                  *)
Symmetry ==
  Permutations(Threads) \cup Permutations(Keys) \cup Permutations(Tags)
=============================================================================
