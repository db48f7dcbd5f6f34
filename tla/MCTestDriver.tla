---------------------------- MODULE MCTestDriver ----------------------------
(* A driver with three workers, for TLC. *)
EXTENDS TestDriver

Latencies == 0 .. 1
=============================================================================
