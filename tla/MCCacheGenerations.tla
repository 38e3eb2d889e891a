------------------------- MODULE MCCacheGenerations -------------------------
(* Two processes: one with two worker threads, as the worker pool has by       *)
(* default, and one with a single thread.                                      *)
EXTENDS CacheGenerations, TLC

CONSTANTS p1, p2, r1, w1, w2, w3

Home == (w1 :> p1) @@ (w2 :> p1) @@ (w3 :> p2)
Symmetry == Permutations({w1, w2})
=============================================================================
