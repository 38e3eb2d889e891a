----------------------------- MODULE RateLimits -----------------------------
(***************************************************************************)
(* The token bucket of a source.  Tokens are counted in units of which a   *)
(* call costs Cost and a tick of the clock brings Rate.  A bucket is       *)
(* refilled when a thread looks at it, so it keeps the ticks since the     *)
(* last look; within[n] is what it granted since n - 1 ticks ago, which    *)
(* only the properties read.                                               *)
(***************************************************************************)
EXTENDS Naturals

CONSTANTS Capacity, Rate, Cost,
          Span        \* bound: the ticks over which the model remembers grants

ASSUME RateAssumption ==
  /\ {Rate, Cost, Span} \subseteq Nat \ {0}
  /\ Capacity \in Nat /\ Capacity >= Cost

AtMost(n, limit) == IF n <= limit THEN n ELSE limit

\* The ticks after which n units have come in.
TicksFor(n) == (n + Rate - 1) \div Rate

\* A new bucket is full.
NewBucket == [tokens |-> Capacity, idle |-> 0, within |-> [n \in 1..Span |-> 0]]

\* Variant of Refilled: what came in before stays to be counted again.
Refilled_Again(b) == [b EXCEPT !.tokens = AtMost(b.tokens + b.idle * Rate, Capacity)]

Refilled(b) == [b EXCEPT !.tokens = AtMost(b.tokens + b.idle * Rate, Capacity), !.idle = 0]

HasTokens(b) == b.tokens >= Cost

Granted(b) ==
  [b EXCEPT !.tokens = @ - Cost, !.within = [n \in 1..Span |-> b.within[n] + 1]]

\* The ticks a thread sleeps that has left ticks to its deadline.
Wait(b, left) == AtMost(TicksFor(Cost - b.tokens), left)

\* A tick passes.  More than fills the bucket need not be counted.
Aged(b) ==
  [b EXCEPT !.idle = AtMost(@ + 1, TicksFor(Capacity)),
            !.within = [n \in 1..Span |-> IF n = 1 THEN 0 ELSE b.within[n - 1]]]

\* Over any number of ticks the bucket grants its capacity and what came in.
WithinRate(b) == \A n \in 1..Span : Cost * b.within[n] <= Capacity + Rate * (n - 1)
=============================================================================
