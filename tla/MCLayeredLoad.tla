---------------------------- MODULE MCLayeredLoad ----------------------------
(***************************************************************************)
(* Two processes, one with two threads.                                    *)
(***************************************************************************)
EXTENDS LayeredLoad, TLC

CONSTANTS t1, t2, t3, p1, p2

Home == (t1 :> p1) @@ (t2 :> p1) @@ (t3 :> p2)
=============================================================================
