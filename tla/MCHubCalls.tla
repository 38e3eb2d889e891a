----------------------------- MODULE MCHubCalls -----------------------------
(***************************************************************************)
(* BaoStock as primary with Tushare behind it: its adjusted prices need    *)
(* factors, Tushare adjusts natively.  Each behaviour is about two         *)
(* requests of one endpoint that differ in one argument, or about two      *)
(* endpoints that share the cache.                                         *)
(***************************************************************************)
EXTENDS HubCalls, TLC

CONSTANTS t1, t2, tushare, baostock, c1, c2

All == {"bars", "snapshot", "fund_nav", "reference", "security_info", "index_weights", "financials",
        "market_events", "trade_calendar", "adjust_factors", "adjustment_events"}
Adapters == (tushare :> All) @@ (baostock :> All \ {"snapshot"})
Backup == <<tushare>>
BarColumns == {"amount", "currency"}
Columned == (tushare :> {"amount"}) @@ (baostock :> {})
Bytes == [e \in DOMAIN Endpoint |-> IF e = "get_reference" THEN 4 ELSE IF e = "get_snapshot" THEN 1 ELSE 2]

Stock(c) == [code |-> c, type |-> "stock"]
Index(c) == [code |-> c, type |-> "index"]
Base(e) == [endpoint |-> e, source |-> baostock, codes |-> {Stock(c1)}, start |-> 1, end |-> 2,
            freq |-> "1d", adjust |-> None, fields |-> << >>, kind |-> "st"]
Bars == Base("get_bars")
Variants(r) ==
  {[r EXCEPT !.codes = {Stock(c1), Stock(c2)}], [r EXCEPT !.codes = {Index(c1)}],
   [r EXCEPT !.start = 0], [r EXCEPT !.freq = "1w"], [r EXCEPT !.adjust = "qfq"], [r EXCEPT !.fields = <<"close">>], [r EXCEPT !.kind = "ipo"]}

\* Every endpoint with every argument changed in turn, two calls each; and three
\* calls of two endpoints whose frames do not fit in the cache together.
Changed == UNION {{{Base(e), v} : v \in {v \in Variants(Base(e)) : ArgsOf(v) # ArgsOf(Base(e))}} :
                  e \in DOMAIN Endpoint \ {"get_snapshot"}}
           \cup {{Bars, [Bars EXCEPT !.source = tushare]}}
Contended == {{[Base("get_fund_nav") EXCEPT !.source = None], [Base("get_snapshot") EXCEPT !.source = tushare]}}
AllOffers == Changed \cup Contended
Adjusted == {Bars, [Bars EXCEPT !.adjust = "qfq"]}
Drops == [o \in AllOffers |-> IF o = Adjusted THEN 1 ELSE 0]
Calls == [o \in AllOffers |-> IF o \in Contended THEN 3 ELSE 2]
=============================================================================
