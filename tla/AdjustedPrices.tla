--------------------------- MODULE AdjustedPrices ---------------------------
(***************************************************************************)
(* Adjusting prices with cumulative factors.  Bars and factors are         *)
(* sequences of rows of a code and a date; the value of a factor row is    *)
(* the factor.  Only the ratio by which a price is multiplied is kept,     *)
(* as a pair <<numerator, denominator>>.                                   *)
(***************************************************************************)
EXTENDS Naturals, Sequences, SequencesExt, FiniteSetsExt, Functions

\* Factors are positive: what is not a number is a factor that is missing.
Missing == 0

Raw == <<1, 1>>
SameRatio(p, q) == p[1] * q[2] = q[1] * p[2]

\* The rows of a code, as positions.
Of(rows, code) == {i \in DOMAIN rows : rows[i].code = code}

\* qfq relates prices to the factor of the code's last row, hfq to none.
Ratio(adjust, factor, last) == IF adjust = "qfq" THEN <<factor, last>> ELSE <<factor, 1>>

\* Every bar with its factor, by Factor(row): the last row of a code is the last
\* in the order of the rows.  An empty result is an error: a factor is missing.
Adjusted(bars, adjust, Factor(_)) ==
  IF \E i \in DOMAIN bars : Factor(bars[i]) = Missing THEN {}
  ELSE {[i \in DOMAIN bars |->
           [bars[i] EXCEPT !.ratio =
              Ratio(adjust, Factor(bars[i]), Factor(bars[Max(Of(bars, bars[i].code))]))]]}

\* Tushare: the factor of the very day; rows stay in the provider's order.
ApplyOnDay(bars, factors, adjust) ==
  LET On(b) == {i \in Of(factors, b.code) : factors[i].date = b.date}
  IN  Adjusted(bars, adjust, LAMBDA b : IF On(b) = {} THEN Missing ELSE factors[Min(On(b))].value)

ByCodeAndDate(rows) == SortSeq(rows, LAMBDA a, b : a.code < b.code \/ (a.code = b.code /\ a.date < b.date))
ByDate(rows) == SortSeq(rows, LAMBDA a, b : a.date < b.date)

\* Variant of ApplyAdjustment: a factor begins the day after its row.
ApplyAdjustment_NextDay(bars, factors, adjust) ==
  LET known == SelectSeq(factors, LAMBDA f : f.value # Missing)
      Until(b) == {i \in Of(known, b.code) : known[i].date < b.date}
      Latest(b) == CHOOSE i \in Until(b) : \A j \in Until(b) : known[j].date <= known[i].date
  IN  IF bars = << >> THEN {bars} ELSE IF known = << >> THEN {}
      ELSE {ByCodeAndDate(rows) : rows \in
              Adjusted(ByDate(bars), adjust, LAMBDA b : IF Until(b) = {} THEN Missing ELSE known[Latest(b)].value)}

\* The router: a factor holds from its day until the next one (merge_asof,
\* backward), over the bars in the order of their days.
ApplyAdjustment(bars, factors, adjust) ==
  LET known == SelectSeq(factors, LAMBDA f : f.value # Missing)
      Until(b) == {i \in Of(known, b.code) : known[i].date <= b.date}
      Latest(b) == CHOOSE i \in Until(b) : \A j \in Until(b) : known[j].date <= known[i].date
  IN  IF bars = << >> THEN {bars} ELSE IF known = << >> THEN {}
      ELSE {ByCodeAndDate(rows) : rows \in
              Adjusted(ByDate(bars), adjust, LAMBDA b : IF Until(b) = {} THEN Missing ELSE known[Latest(b)].value)}

\* BaoStock has a row for each event: those of the window, and one for its start
\* with the factor of the last event before it, 1 if there is none.
FactorsFrame(events, blank, start, end) ==
  LET sorted == ByDate(SelectSeq(events, LAMBDA f : f.value # Missing))
      before == SelectSeq(sorted, LAMBDA f : f.date < start)
      window == SelectSeq(sorted, LAMBDA f : f.date >= start /\ f.date <= end)
      base == [blank EXCEPT !.date = start, !.value = IF before = << >> THEN 1 ELSE Last(before).value]
  IN  IF window # << >> /\ window[1].date = start THEN window ELSE <<base>> \o window
=============================================================================
