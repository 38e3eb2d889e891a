--------------------------- MODULE AdapterQueries ---------------------------
(***************************************************************************)
(* What the adapters ask their providers: for each source and capability,  *)
(* the queries one call of the adapter makes, in their order.  A query     *)
(* names the provider's table (its endpoint or tool), the codes and the    *)
(* days asked for, and the size and number of its pages if it is paged.    *)
(*                                                                         *)
(* A request r carries, besides what the caller stated (endpoint, source,  *)
(* kind, codes, start, end, adjust), how prices are adjusted: native is    *)
(* what the adapter is asked to do itself, factor the source of factors.   *)
(* Days are numbers, a code is a [code, type, venue].                      *)
(***************************************************************************)
EXTENDS HubEndpoints, SequencesExt, Functions, FiniteSets

CONSTANTS
  All,                    \* every code
  WindowDays, BondDays,   \* the longest window of Fuyao's bars, of Wind's bond data
  BatchCodes,             \* the codes of one call, where a source takes several
  PageSize, MaxPages      \* of the paged queries

ASSUME QueryAssumption == {WindowDays, BondDays, BatchCodes, PageSize, MaxPages} \subseteq Nat \ {0}

Ask(table, codes, from, to) ==
  [table |-> table, codes |-> IF codes = All THEN All ELSE Canonical(Range(codes)),
   from |-> from, to |-> to, latest |-> FALSE, limit |-> 0, pages |-> 0, part |-> "rows"]

\* A question for the last values.
AskLatest(table, codes) == [Ask(table, codes, None, None) EXCEPT !.latest = TRUE]

\* The adapter raises instead of asking.
Refusal == <<Ask(None, << >>, None, None)>>

\* limit and offset; pages = 0: until a page is short.
Paged(query, pages) == [query EXCEPT !.limit = PageSize, !.pages = pages]

Least(m, n) == IF m <= n THEN m ELSE n

\* split_codes, and the batches of Wind's snapshots.
Batches(codes, n) ==
  [i \in 1..((Len(codes) + n - 1) \div n) |-> SubSeq(codes, (i - 1) * n + 1, Least(i * n, Len(codes)))]

\* Variant of Windows: both ends of a window are taken for exclusive.
Windows_Exclusive(from, to, days) ==
  [i \in 1..((to - from) \div days + 1) |->
     [from |-> from + (i - 1) * days, to |-> Least(from + i * days - 2, to)]]

\* Consecutive windows of so many days, the last one shorter.
Windows(from, to, days) ==
  [i \in 1..((to - from) \div days + 1) |->
     [from |-> from + (i - 1) * days, to |-> Least(from + i * days - 1, to)]]

\* One query for each table, with the codes of its types.
ByTable(codes, table, from, to) ==
  LET tables == FoldLeft(LAMBDA ts, c : IF Contains(ts, table[c.type]) THEN ts ELSE Append(ts, table[c.type]),
                         << >>, codes)
      Of(t) == SelectSeq(codes, LAMBDA c : table[c.type] = t)
  IN  [i \in DOMAIN tables |-> Ask(tables[i], Of(tables[i]), from, to)]

ByCode(codes, table, from, to) == [i \in DOMAIN codes |-> Ask(table, <<codes[i]>>, from, to)]

Types(codes) == {codes[i].type : i \in DOMAIN codes}
Venues(codes) == {codes[i].venue : i \in DOMAIN codes}
-----------------------------------------------------------------------------
(* Tushare *)

TushareBarsTable == [stock |-> "daily", etf |-> "fund_daily", lof |-> "fund_daily", index |-> "index_daily"]
TushareFactorTable == [stock |-> "adj_factor", etf |-> "fund_adj", lof |-> "fund_adj"]
TushareInfoTable == [stock |-> "stock_basic", etf |-> "fund_basic", lof |-> "fund_basic",
                     fund |-> "fund_basic", index |-> "index_basic"]

TushareFactors(r, codes) ==
  IF Types(codes) \subseteq DOMAIN TushareFactorTable
  THEN ByTable(codes, TushareFactorTable, r.start, r.end) ELSE Refusal

\* An adjusted request asks for the factors after the prices, if there are any.
TushareBars(r, codes) ==
  LET factors == TushareFactors(r, codes) IN
  IF ~(Types(codes) \subseteq DOMAIN TushareBarsTable) THEN Refusal
  ELSE ByTable(codes, TushareBarsTable, r.start, r.end)
       \o (IF r.native = None THEN << >> ELSE [i \in DOMAIN factors |-> [factors[i] EXCEPT !.part = "native"]])

TushareNav(r, codes) == <<Ask("fund_nav", codes, r.start, r.end)>>

\* Lists in one answer each, but for the index members, paged without a limit.
TushareReference(r) ==
  CASE r.kind = "stock_list" -> <<Ask("stock_basic", All, None, None)>>
    [] r.kind = "fund_list" -> <<Ask("fund_basic", All, None, None)>>
    [] r.kind = "etf_list" -> <<Ask("etf_basic", All, None, None)>>
    [] r.kind = "delist_list" -> <<Ask("stock_basic_D", All, None, None)>>
    [] r.kind = "index_list" -> <<Ask("index_basic", All, None, None)>>
    [] r.kind = "industry_classify" ->
         [i \in 1..3 |-> Ask(<<"index_classify_L1", "index_classify_L2", "index_classify_L3">>[i], All, None, None)]
    [] r.kind = "industry_member" ->
         [i \in 1..2 |-> Paged(Ask(<<"index_member_Y", "index_member_N">>[i], All, None, None), 0)]
    [] OTHER -> Refusal

\* stock_basic takes several codes, the other two take one.
TushareSecurityInfo(r, codes) ==
  LET queries == ByTable(codes, TushareInfoTable, None, None)
      Of(t) == SelectSeq(codes, LAMBDA c : TushareInfoTable[c.type] = t)
  IN  IF ~(Types(codes) \subseteq DOMAIN TushareInfoTable) THEN Refusal
      ELSE FlattenSeq([i \in DOMAIN queries |->
             IF queries[i].table = "stock_basic" THEN <<queries[i]>>
             ELSE ByCode(Of(queries[i].table), queries[i].table, None, None)])

TushareIndexWeights(r, codes) ==
  IF Types(codes) \subseteq {"index"} THEN ByCode(codes, "index_weight", r.start, r.end) ELSE Refusal

\* The days are those of the announcements.
TushareFinancials(r, codes) ==
  CASE r.kind = "balance_sheet" -> ByCode(codes, "balancesheet", r.start, r.end)
    [] r.kind = "financial_indicator" -> <<Ask("fina_indicator", codes, r.start, r.end)>>
    [] OTHER -> Refusal

\* new_share and stock_st give the whole market, which the adapter filters.
TushareMarketEvents(r, codes) ==
  LET of == IF codes = << >> THEN All ELSE codes IN
  CASE r.kind = "ipo" -> <<Paged(Ask("new_share", All, r.start, r.end), MaxPages)>>
    [] r.kind = "st" -> <<Paged(Ask("stock_st", All, r.start, r.end), MaxPages)>>
    [] r.kind = "suspension" -> <<Paged(Ask("suspend_d", of, r.start, r.end), MaxPages)>>
    [] r.kind = "namechange" ->
         (IF of = All THEN <<Paged(Ask("namechange", All, r.start, r.end), MaxPages)>>
          ELSE [i \in DOMAIN codes |-> Paged(Ask("namechange", <<codes[i]>>, r.start, r.end), MaxPages)])
    [] OTHER -> Refusal

TushareCalendar(r) == <<Ask("trade_cal", All, r.start, r.end)>>
-----------------------------------------------------------------------------
(* AkShare *)

AkShareBarsTable == [stock |-> "stock_zh_a_hist", etf |-> "fund_etf_hist_em",
                     lof |-> "fund_lof_hist_em", index |-> "index_zh_a_hist"]

\* One code at a time, at the venues its mapper knows; no adjusted indexes.
AkShareBars(r, codes) ==
  IF ~(Types(codes) \subseteq DOMAIN AkShareBarsTable) \/ ~(Venues(codes) \subseteq {"SH", "SZ", "BJ", "OF"})
     \/ ("index" \in Types(codes) /\ r.native # None)
  THEN Refusal
  ELSE FlattenSeq([i \in DOMAIN codes |-> ByTable(<<codes[i]>>, AkShareBarsTable, r.start, r.end)])

\* All values since the fund began: the adapter cuts the window out.
AkShareNav(r, codes) ==
  IF Types(codes) \subseteq {"fund"} THEN ByCode(codes, "fund_open_fund_info_em", None, None) ELSE Refusal

AkShareCalendar(r) == <<Ask("tool_trade_date_hist_sina", All, None, None)>>
-----------------------------------------------------------------------------
(* BaoStock: one code of Shanghai or Shenzhen at a time *)

BaoStockBars(r, codes) ==
  IF Len(codes) = 1 /\ Venues(codes) \subseteq {"SH", "SZ"}
  THEN <<Ask("query_history_k_data_plus", codes, r.start, r.end)>> ELSE Refusal

\* The events since 1990, of which the window's base factor is made.
BaoStockFactors(r, codes) ==
  IF Len(codes) = 1 /\ Types(codes) \subseteq {"stock"} /\ Venues(codes) \subseteq {"SH", "SZ"}
  THEN <<Ask("query_adjust_factor", codes, None, r.end)>> ELSE Refusal

BaoStockReference(r) ==
  IF r.kind = "stock_list" THEN <<Ask("query_stock_basic", All, None, None)>> ELSE Refusal

BaoStockCalendar(r) == <<Ask("query_trade_dates", All, r.start, r.end)>>
-----------------------------------------------------------------------------
(* Fuyao *)

\* One code, in windows of at most WindowDays.
FuyaoBars(r, codes) ==
  LET windows == Windows(r.start, r.end, WindowDays) IN
  IF Len(codes) # 1 \/ r.native # None THEN Refusal
  ELSE [i \in DOMAIN windows |-> Ask("prices_historical", codes, windows[i].from, windows[i].to)]

FuyaoSnapshot(r, codes) == <<Ask("prices_snapshot", codes, None, None)>>

FuyaoReference(r) ==
  CASE r.kind = "stock_list" -> <<Paged(Ask("tickers_stock", All, None, None), MaxPages)>>
    [] r.kind = "fund_list" -> <<Paged(Ask("tickers_fund", All, None, None), MaxPages)>>
    [] r.kind = "index_list" -> <<Paged(Ask("tickers_index", All, None, None), MaxPages)>>
    [] OTHER -> Refusal

FuyaoAdjustmentEvents(r, codes) == ByCode(codes, "adjustment_factors", r.start, r.end)

FuyaoCalendar(r) == <<Ask("trading_days", All, None, None)>>
-----------------------------------------------------------------------------
(* Wind *)

WindKlineTool == [stock |-> "get_stock_kline", etf |-> "get_fund_kline", lof |-> "get_fund_kline", index |-> "get_index_kline"]
WindSnapshotTool == [stock |-> "stock_price_indicators", etf |-> "fund_price_indicators",
                     lof |-> "fund_price_indicators", index |-> "index_price_indicators"]

WindBars(r, codes) ==
  IF Types(codes) \subseteq DOMAIN WindKlineTool
  THEN FlattenSeq([i \in DOMAIN codes |-> ByTable(<<codes[i]>>, WindKlineTool, r.start, r.end)]) ELSE Refusal

\* The codes of a tool in batches.
WindSnapshot(r, codes) ==
  LET tools == ByTable(codes, WindSnapshotTool, None, None)
      Of(t) == Batches(SelectSeq(codes, LAMBDA c : WindSnapshotTool[c.type] = t), BatchCodes)
  IN  IF ~(Types(codes) \subseteq DOMAIN WindSnapshotTool) THEN Refusal
      ELSE FlattenSeq([i \in DOMAIN tools |->
             LET batches == Of(tools[i].table)
             IN  [j \in DOMAIN batches |-> Ask(tools[i].table, batches[j], None, None)]])

WindEconomic(r, codes) == <<Ask("get_economic_data", codes, r.start, r.end)>>

\* A question for each window: a longer answer would be cut off.
WindBonds(r, codes) ==
  LET windows == Windows(r.start, r.end, BondDays)
  IN  [i \in DOMAIN windows |-> Ask("get_bond_market_data", codes, windows[i].from, windows[i].to)]
-----------------------------------------------------------------------------
(* iFinD: one question in natural language *)

IfindBars(r, codes) ==
  IF Types(codes) \subseteq {"index"} /\ r.native = None
  THEN <<Ask("index_data", codes, r.start, r.end)>> ELSE Refusal

\* Whether the question names no days, which it does only for both ends of a window.
OnlyLatest(r) == r.source = "ifind" /\ r.endpoint = "get_fund_nav" /\ None \in {r.start, r.end}

IfindNav(r, codes) ==
  IF ~(Types(codes) \subseteq {"fund"}) THEN Refusal
  ELSE IF OnlyLatest(r) THEN <<AskLatest("get_fund_market_performance", codes)>>
  ELSE <<Ask("get_fund_market_performance", codes, r.start, r.end)>>

IfindEdb(r, codes) == <<Ask("get_edb_data", codes, r.start, r.end)>>
-----------------------------------------------------------------------------
\* The codes of one call of an adapter; 0: any number.
CodesPerCall(source, capability) ==
  CASE source = "tushare" /\ capability = "index_weights" -> 1
    [] source = "akshare" /\ capability \in {"bars", "fund_nav"} -> 1
    [] source = "ifind" /\ capability \in {"bars", "fund_nav"} -> BatchCodes
    [] source = "fuyao" /\ capability = "bars" -> 1
    [] source = "fuyao" /\ capability = "snapshot" -> BatchCodes
    [] source = "baostock" /\ capability \in {"bars", "adjust_factors"} -> 1
    [] source = "wind" /\ capability = "bars" -> 1
    [] source = "wind" /\ capability = "snapshot" -> BatchCodes
    [] OTHER -> 0

SplitCodes(source, capability, codes) ==
  LET n == CodesPerCall(source, capability)
  IN  IF n = 0 \/ Len(codes) <= n THEN <<codes>> ELSE Batches(codes, n)

\* The queries of one call of an adapter, for some of the request's codes.
AdapterQueries(source, capability, r, codes) ==
  CASE source = "tushare" ->
         (CASE capability = "bars" -> TushareBars(r, codes)
            [] capability = "adjust_factors" -> TushareFactors(r, codes)
            [] capability = "fund_nav" -> TushareNav(r, codes)
            [] capability = "reference" -> TushareReference(r)
            [] capability = "security_info" -> TushareSecurityInfo(r, codes)
            [] capability = "index_weights" -> TushareIndexWeights(r, codes)
            [] capability = "financials" -> TushareFinancials(r, codes)
            [] capability = "market_events" -> TushareMarketEvents(r, codes)
            [] capability = "trade_calendar" -> TushareCalendar(r))
    [] source = "akshare" ->
         (CASE capability = "bars" -> AkShareBars(r, codes)
            [] capability = "fund_nav" -> AkShareNav(r, codes)
            [] capability = "trade_calendar" -> AkShareCalendar(r))
    [] source = "baostock" ->
         (CASE capability = "bars" -> BaoStockBars(r, codes)
            [] capability = "adjust_factors" -> BaoStockFactors(r, codes)
            [] capability = "reference" -> BaoStockReference(r)
            [] capability = "trade_calendar" -> BaoStockCalendar(r))
    [] source = "fuyao" ->
         (CASE capability = "bars" -> FuyaoBars(r, codes)
            [] capability = "snapshot" -> FuyaoSnapshot(r, codes)
            [] capability = "reference" -> FuyaoReference(r)
            [] capability = "adjustment_events" -> FuyaoAdjustmentEvents(r, codes)
            [] capability = "trade_calendar" -> FuyaoCalendar(r))
    [] source = "wind" ->
         (CASE capability = "bars" -> WindBars(r, codes)
            [] capability = "snapshot" -> WindSnapshot(r, codes)
            [] capability = "economic_indicators" -> WindEconomic(r, codes)
            [] capability = "bond_market_data" -> WindBonds(r, codes))
    [] source = "ifind" ->
         (CASE capability = "bars" -> IfindBars(r, codes)
            [] capability = "fund_nav" -> IfindNav(r, codes)
            [] capability = "edb_series" -> IfindEdb(r, codes))
=============================================================================
