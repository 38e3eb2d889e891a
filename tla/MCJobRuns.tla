------------------------------ MODULE MCJobRuns ------------------------------
(* JobRuns on small instances.                                               *)
EXTENDS JobRuns, TLC

CONSTANTS bar1, bar2,   \* sync of daily_bar for two windows
          check1,       \* quality check of the first window, gated on bar1
          other1,       \* sync of another dataset
          dailyBar, otherSet,
          p1, p2, w1, w2

\* Two processes with a thread each: two windows of a sync, one of which the API
\* submits too, and a dependent of that one, all competing for one scope.  The
\* name of the first is a prefix of the other's label, as worker-1 is of worker-12-0.
GatedIntents == {bar1, bar2, check1}
GatedScopeOf == [i \in GatedIntents |-> dailyBar]
GatedPriority == bar1 :> 2 @@ bar2 :> 2 @@ check1 :> 1
GatedDependencies ==
  [i \in GatedIntents |->
     IF i = check1 THEN {[matches |-> {bar1}, condition |-> "on_success"]} ELSE {}]
TwoPools == w1 :> p1 @@ w2 :> p2
TwoLabels == p1 :> {w1, w2} @@ p2 :> {w2}

\* One process with one thread and ungated intents in two scopes: more rows than
\* the backlog bound allows.
FreeIntents == {bar1, bar2, other1}
FreeScopeOf == bar1 :> dailyBar @@ bar2 :> dailyBar @@ other1 :> otherSet
FreePriority == bar1 :> 2 @@ bar2 :> 1 @@ other1 :> 1
FreeDependencies == [i \in FreeIntents |-> {}]
OnePool == w1 :> p1
OneLabel == p1 :> {w1}
=============================================================================
