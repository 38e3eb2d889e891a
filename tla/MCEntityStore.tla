---- MODULE MCEntityStore ----
(* Instance: three workers, three codes, six calls. *)
EXTENDS EntityStore, TLC
CONSTANTS w1, w2, w3, c1, c2, c3
MCWorkers == {w1, w2, w3}
MCCodes == {c1, c2, c3}
Symmetry == Permutations(MCWorkers) \cup Permutations(MCCodes)
====
