---------------------------- MODULE MCSqlJobRuns ----------------------------
(* SqlJobRuns on a small instance: one process with two threads, a dispatcher *)
(* and a REST client that submit two windows of one (dataset, scope).         *)
EXTENDS SqlJobRuns, TLC

CONSTANTS bar1, bar2, dailyBar, p1, w1, w2

BarIntents == {bar1, bar2}
BarScopeOf == bar1 :> dailyBar @@ bar2 :> dailyBar
BarPriority == bar1 :> 2 @@ bar2 :> 1
BarDependencies == bar1 :> {} @@ bar2 :> {}
OnePool == w1 :> p1 @@ w2 :> p1
OneLabel == p1 :> {w1, w2}
=============================================================================
