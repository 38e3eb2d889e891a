---------------------------- MODULE UsageLedger -----------------------------
(***************************************************************************)
(* The ledger of calls and costs per day, and its budget alerts: one alert *)
(* for each metric and level of a day, when the value first reaches it.    *)
(* One source, whose calls cost the same.                                  *)
(***************************************************************************)
EXTENDS Naturals, Sequences

CONSTANTS
  Days,
  UnitCost,
  Limits,      \* Limits[m]: the budget of a day in metric m; 0 if there is none
  WarnRatio    \* of ten

Metrics == {"calls", "cost"}

ASSUME LedgerAssumption ==
  /\ UnitCost \in Nat /\ Limits \in [Metrics -> Nat] /\ WarnRatio \in 0..10

NoUsage == [calls |-> [d \in Days |-> 0], fired |-> {}, alerts |-> << >>]

Counted(u, day) == [u EXCEPT !.calls[day] = @ + 1]

Value(u, day, metric) == IF metric = "calls" THEN u.calls[day] ELSE UnitCost * u.calls[day]

\* The level a value has reached.
Levels(u, day, metric) ==
  CASE Limits[metric] = 0 -> {}
    [] Limits[metric] > 0 /\ Value(u, day, metric) >= Limits[metric] -> {"exceeded"}
    [] Limits[metric] > 0 /\ Value(u, day, metric) < Limits[metric] ->
         IF 10 * Value(u, day, metric) >= WarnRatio * Limits[metric] THEN {"warn"} ELSE {}

\* The alert that counting a call of the day makes due.
Due(u, day, metric) ==
  {[day |-> day, metric |-> metric, level |-> l] : l \in Levels(u, day, metric)} \ u.fired

Fired(u, alert) == [u EXCEPT !.fired = @ \cup {alert}, !.alerts = Append(@, alert)]
=============================================================================
