---------------------------- MODULE MCSourceCalls ----------------------------
(***************************************************************************)
(* Two threads; a burst of one and a half calls, so that a thread may find *)
(* part of a token.                                                        *)
(***************************************************************************)
EXTENDS SourceCalls, TLC

CONSTANTS t1, t2

AllKinds == {"plain", "fuyao", "mcp", "baostock"}
TwoDays == {1, 2}
Budget == ("calls" :> 2) @@ ("cost" :> 4)
Calls == [k \in AllKinds |-> IF k = "baostock" THEN 3 ELSE 2]
=============================================================================
