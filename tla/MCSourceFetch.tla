--------------------------- MODULE MCSourceFetch ----------------------------
(* Instance: two codes of each type that matter, days 1 to 4, one late row. *)
EXTENDS SourceFetch

Days == 1..4

Stock == [code |-> 1, type |-> "stock", venue |-> "SH"]
Fund  == [code |-> 2, type |-> "etf", venue |-> "SH"]
Index == [code |-> 3, type |-> "index", venue |-> "SH"]
Open  == [code |-> 4, type |-> "fund", venue |-> "OF"]
Other == [code |-> 5, type |-> "stock", venue |-> "SZ"]
Open2 == [code |-> 6, type |-> "fund", venue |-> "OF"]

Row(code, date, item) == [code |-> code, date |-> date, item |-> item, copy |-> 0, value |-> Missing, ratio |-> Raw]
Copy(row) == [row EXCEPT !.copy = 1]

Req(endpoint, source, codes, window) ==
  [endpoint |-> endpoint, source |-> source, kind |-> None, codes |-> codes,
   start |-> window[1], end |-> window[2], adjust |-> None, native |-> None, factor |-> None]

Case(r, tabs) ==
  [req |-> r, tables |-> tabs, data |-> DOMAIN tabs, events |-> {}, open |-> {}, late |-> << >>, newest |-> FALSE]

Span == {<<1, 4>>, <<2, 3>>}
NoSpan == <<None, None>>
HalfOpen == {<<3, None>>, <<None, 3>>}

\* Tables with any of the rows a code may have, each code's in the table of its type.
TablesOf(codes, table, dates) ==
  {[t \in {table[c.type] : c \in Range(codes)} |->
      {Row(p[1].code, p[2], 0) : p \in {p \in chosen : table[p[1].type] = t}}] :
     chosen \in SUBSET (Range(codes) \X dates)}

BarsCases ==
  {[Case(Req("get_bars", "tushare", cs, w), tabs) EXCEPT !.newest = n] :
     cs \in {<<Fund, Stock>>, <<Stock, Stock>>}, w \in Span, n \in BOOLEAN,
     tabs \in TablesOf(<<Fund, Stock>>, TushareBarsTable, Days)}
  \cup {Case(Req("get_bars", "akshare", <<Index, Stock>>, w), tabs) :
     w \in Span, tabs \in TablesOf(<<Index, Stock>>, AkShareBarsTable, 1..3)}
  \cup {Case(Req("get_bars", "wind", <<Fund, Index>>, w), tabs) :
     w \in Span, tabs \in TablesOf(<<Fund, Index>>, WindKlineTool, 1..3)}
  \cup {Case(Req("get_bars", "ifind", <<Index>>, w), tabs) :
     w \in Span, tabs \in TablesOf(<<Index>>, [index |-> "index_data"], Days)}
  \cup {Case(Req("get_bars", "fuyao", <<Stock, Other>>, w), tabs) :
     w \in Span, tabs \in TablesOf(<<Stock, Other>>, [stock |-> "prices_historical"], Days)}
  \cup {Case(Req("get_bars", "baostock", <<Stock, Other>>, w), tabs) :
     w \in Span, tabs \in TablesOf(<<Stock, Other>>, [stock |-> "query_history_k_data_plus"], 2..4)}
  \cup {Case(Req("get_bars", s, <<Open>>, <<1, 2>>), [none |-> {}]) : s \in {"tushare", "akshare", "baostock", "wind", "ifind"}}

\* One list for each kind; paged lists are longer than a page.
Lists == [
  stock_list |-> {"stock_basic"}, fund_list |-> {"fund_basic"}, etf_list |-> {"etf_basic"},
  delist_list |-> {"stock_basic_D"}, index_list |-> {"index_basic"},
  industry_classify |-> {"index_classify_L1", "index_classify_L2", "index_classify_L3"},
  industry_member |-> {"index_member_Y", "index_member_N"}]

ListRows == {Row(c, 0, 0) : c \in 1..3}

ReferenceCases ==
  UNION {{[Case([Req("get_reference", "tushare", << >>, NoSpan) EXCEPT !.kind = k], tabs)
             EXCEPT !.late = [t \in {CHOOSE t \in Lists[k] : TRUE} |-> {Row(4, 0, 0)}], !.newest = TRUE] :
           tabs \in [Lists[k] -> {{}, ListRows}]} : k \in DOMAIN Lists}
  \cup {[Case([Req("get_reference", "fuyao", << >>, NoSpan) EXCEPT !.kind = l[1]], [t \in {l[2]} |-> rows])
           EXCEPT !.late = [t \in {l[2]} |-> {Row(0, 0, 0), Row(9, 0, 0)}]] :
         l \in {<<"stock_list", "tickers_stock">>, <<"fund_list", "tickers_fund">>, <<"index_list", "tickers_index">>},
         rows \in SUBSET {Row(c, 0, 0) : c \in 1..5}}
  \cup {Case([Req("get_reference", "baostock", << >>, NoSpan) EXCEPT !.kind = k], [query_stock_basic |-> ListRows]) :
         k \in {"stock_list", "fund_list"}}
  \cup {Case([Req("get_reference", s, << >>, NoSpan) EXCEPT !.kind = "no_kind"], [none |-> {}]) : s \in {"tushare", "fuyao"}}

InfoCases ==
  {Case(Req("get_security_info", "tushare", cs, NoSpan), tabs) :
     cs \in {<<Stock, Open, Other, Fund>>, <<Index, Open, Stock>>},
     tabs \in TablesOf(<<Stock, Open, Other, Fund, Index>>, TushareInfoTable, {0})}
  \cup {Case(Req("get_snapshot", "wind", cs, NoSpan), tabs) :
     cs \in {<<Stock, Fund, Other, Index>>, <<Other>>},
     tabs \in TablesOf(<<Stock, Fund, Other, Index>>, WindSnapshotTool, {1})}
  \cup {Case(Req("get_snapshot", "wind", <<Open>>, NoSpan), [none |-> {}])}
  \cup {Case(Req("get_snapshot", "fuyao", cs, NoSpan), tabs) :
     cs \in {<<Stock, Other>>, <<Other, Fund, Stock>>},
     tabs \in TablesOf(<<Stock, Other, Fund>>, [stock |-> "prices_snapshot", etf |-> "prices_snapshot"], {1})}

NavTable == [tushare |-> "fund_nav", akshare |-> "fund_open_fund_info_em", ifind |-> "get_fund_market_performance"]

NavCases ==
  UNION {{[Case(Req("get_fund_nav", s, <<Open2, Open>>, w), tabs) EXCEPT !.newest = n] :
            w \in Span \cup HalfOpen, n \in BOOLEAN, tabs \in TablesOf(<<Open, Open2>>, [fund |-> NavTable[s]], 2..4)} :
          s \in DOMAIN NavTable}
  \cup {Case(Req("get_fund_nav", s, <<Stock>>, <<1, 2>>), [none |-> {}]) : s \in {"akshare", "ifind"}}

\* Constituents, and reports of which the provider may hold a second copy.
ItemRows(codes, dates) == {Row(c, d, i) : c \in codes, d \in dates, i \in 1..2}

DetailCases ==
  {Case(Req("get_index_weights", "tushare", <<Index, [Index EXCEPT !.code = 7]>>, <<2, 3>>), [index_weight |-> rows]) :
     rows \in SUBSET ItemRows({3, 7}, 2..3)}
  \cup {Case(Req("get_index_weights", "tushare", <<Stock>>, <<2, 3>>), [none |-> {}])}
  \cup {Case([Req("get_financials", "tushare", <<Other, Stock>>, <<2, 3>>) EXCEPT !.kind = l[1]],
             [t \in {l[2]} |-> rows \cup {Copy(row) : row \in copies}]) :
     l \in {<<"balance_sheet", "balancesheet">>, <<"financial_indicator", "fina_indicator">>},
     rows \in SUBSET ItemRows({1, 5}, {2}) , copies \in SUBSET ItemRows({1}, {2})}
  \cup {Case([Req("get_financials", "tushare", <<Stock>>, <<2, 3>>) EXCEPT !.kind = "no_kind"], [none |-> {}])}

EventTable == [ipo |-> "new_share", st |-> "stock_st", suspension |-> "suspend_d", namechange |-> "namechange"]

EventCases ==
  UNION {{[Case([Req("get_market_events", "tushare", cs, <<1, 3>>) EXCEPT !.kind = k], [t \in {EventTable[k]} |-> rows])
             EXCEPT !.newest = n, !.late = [t \in {EventTable[k]} |-> {Row(5, 2, 1)}]] :
           cs \in {<< >>, <<Stock>>, <<Other, Stock>>}, n \in BOOLEAN,
           rows \in SUBSET {Row(c, d, 1) : c \in {1, 5}, d \in {1, 3, 4}}} : k \in DOMAIN EventTable}
  \cup {Case(Req("get_adjustment_events", "fuyao", <<Other, Stock>>, w), [adjustment_factors |-> rows]) :
     w \in Span \cup {NoSpan}, rows \in SUBSET {Row(c, d, 1) : c \in {1, 5}, d \in 2..4}}
  \cup {Case([Req("get_market_events", "tushare", << >>, <<1, 3>>) EXCEPT !.kind = "no_kind"], [none |-> {}])}

CalendarTable == [tushare |-> "trade_cal", baostock |-> "query_trade_dates",
                  akshare |-> "tool_trade_date_hist_sina", fuyao |-> "trading_days"]

\* A calendar is asked for as it was: Fuyao's begins on day 2.
CalendarCases ==
  {[Case(Req("get_trade_calendar", s, << >>, w),
         [t \in {CalendarTable[s]} |->
            CASE s \in {"tushare", "baostock"} -> {Row(0, d, IF d \in open THEN 1 ELSE 0) : d \in Days}
              [] s = "akshare" -> {Row(0, d, 1) : d \in open}
              [] s = "fuyao" -> {Row(0, d, 1) : d \in open \ {1}}])
      EXCEPT !.open = open] :
     s \in DOMAIN CalendarTable, w \in Span \cup {<<2, 4>>}, open \in SUBSET Days}

\* Events with the factor from then on; Tushare has a factor for every day.
EventSets == {{[code |-> 1, date |-> d, value |-> d + 1] : d \in days} \cup {[code |-> 5, date |-> 3, value |-> 2]} :
                days \in SUBSET (1..4)}

FactorAt(events, code, day) ==
  LET before == {e \in events : e.code = code /\ e.date <= day}
  IN  IF before = {} THEN 1 ELSE (CHOOSE e \in before : \A f \in before : f.date <= e.date).value

Dense(events) == {[Row(c, d, 0) EXCEPT !.value = FactorAt(events, c, d)] : c \in {1, 5}, d \in Days}
Sparse(events) == {[Row(e.code, e.date, 0) EXCEPT !.value = e.value] : e \in events}

AdjustedCases ==
  {[Case([Req("get_bars", s.source, <<Other, Stock>>, w) EXCEPT !.adjust = a, !.native = IF s.own THEN a ELSE None,
                                                         !.factor = s.factor],
         (s.table :> ({Row(1, d, 0) : d \in days} \cup {Row(5, d, 0) : d \in others}))
           @@ (s.factors :> IF s.factors = "query_adjust_factor" THEN Sparse(ev) ELSE Dense(ev)))
      EXCEPT !.events = ev, !.data = {s.table}] :
     s \in {[source |-> "tushare", own |-> TRUE, factor |-> None, table |-> "daily", factors |-> "adj_factor"],
            [source |-> "wind", own |-> FALSE, factor |-> "tushare", table |-> "get_stock_kline", factors |-> "adj_factor"],
            [source |-> "tushare", own |-> FALSE, factor |-> "baostock", table |-> "daily", factors |-> "query_adjust_factor"],
            [source |-> "tushare", own |-> FALSE, factor |-> "tushare", table |-> "daily", factors |-> "none"]},
     w \in {<<1, 4>>, <<2, 4>>, <<2, 3>>}, a \in {"qfq", "hfq"}, ev \in EventSets, days \in SUBSET Days, others \in {1..4, 3..4}}
  \cup {Case([Req("get_bars", s, <<Index>>, <<1, 2>>) EXCEPT !.adjust = "qfq", !.native = "qfq"],
             [index_daily |-> {Row(3, 1, 0)}]) : s \in {"tushare", "akshare"}}

FactorCases ==
  {[Case(Req("get_adjust_factors", "tushare", <<Fund, Stock>>, w), tabs) EXCEPT !.newest = TRUE] :
     w \in Span, tabs \in TablesOf(<<Fund, Stock>>, TushareFactorTable, 2..4)}

DirectCases ==
  {Case(Req("bond_market_data", "wind", <<Stock, Other>>, w), [get_bond_market_data |-> {Row(p[1], p[2], 0) : p \in rows}]) :
     w \in {<<1, 4>>, <<1, 3>>}, rows \in SUBSET ({1, 5} \X Days)}
  \cup {Case(Req(l[1], l[2], <<Stock, Other>>, w), [t \in {l[3]} |-> {Row(p[1], p[2], 0) : p \in rows}]) :
     l \in {<<"economic_indicators", "wind", "get_economic_data">>, <<"edb_series", "ifind", "get_edb_data">>},
     w \in Span, rows \in SUBSET ({1, 5} \X (2..3))}

MCCases == BarsCases \cup ReferenceCases \cup InfoCases \cup NavCases \cup DetailCases \cup EventCases
             \cup CalendarCases \cup AdjustedCases \cup FactorCases \cup DirectCases
=============================================================================
