---------------------------- MODULE HubEndpoints ----------------------------
(***************************************************************************)
(* The data methods of the hub's facade, as a table: the capability an     *)
(* adapter needs, the arguments that make up the cache key, the arguments  *)
(* that reach the adapter, and the columns that identify a row when the    *)
(* answers to the chunks of a request are merged.                          *)
(*                                                                         *)
(* A request is a record of an endpoint, a source and the arguments the    *)
(* endpoint takes.  Its codes are a set of [code, type]: parse_codes gives *)
(* every code a security type, inferred or stated by the caller.           *)
(***************************************************************************)
EXTENDS Naturals, Sequences

CONSTANT None

Window == {"start", "end"}

\* Variant of GetBars: the cache key leaves the kind of adjustment out.
GetBars_KeyWithoutAdjust ==
  [capability |-> "bars", key |-> {"codes", "freq", "fields"} \cup Window,
   passed |-> {"codes", "freq", "adjust", "fields"} \cup Window, identity |-> {"code", "date"}]

GetBars ==
  [capability |-> "bars", key |-> {"codes", "freq", "adjust", "fields"} \cup Window,
   passed |-> {"codes", "freq", "adjust", "fields"} \cup Window, identity |-> {"code", "date"}]

GetSnapshot ==
  [capability |-> "snapshot", key |-> {"codes", "fields"},
   passed |-> {"codes", "fields"}, identity |-> {"code"}]

GetFundNav ==
  [capability |-> "fund_nav", key |-> {"codes"} \cup Window,
   passed |-> {"codes"} \cup Window, identity |-> {"code", "date"}]

\* One call of the adapter, without codes: nothing to merge.
GetReference ==
  [capability |-> "reference", key |-> {"kind"}, passed |-> {"kind"}, identity |-> {}]

GetSecurityInfo ==
  [capability |-> "security_info", key |-> {"codes"}, passed |-> {"codes"}, identity |-> {"code"}]

GetIndexWeights ==
  [capability |-> "index_weights", key |-> {"codes"} \cup Window,
   passed |-> {"codes"} \cup Window, identity |-> {"code", "date", "con_code"}]

GetFinancials ==
  [capability |-> "financials", key |-> {"kind", "codes"} \cup Window,
   passed |-> {"kind", "codes"} \cup Window,
   identity |-> {"code", "ann_date", "end_date", "report_type"}]

\* Without codes the request is for the whole market.
GetMarketEvents ==
  [capability |-> "market_events", key |-> {"kind", "codes"} \cup Window,
   passed |-> {"kind", "codes"} \cup Window, identity |-> {"code", "date"}]

GetTradeCalendar ==
  [capability |-> "trade_calendar", key |-> Window, passed |-> Window, identity |-> {}]

GetAdjustFactors ==
  [capability |-> "adjust_factors", key |-> {"codes"} \cup Window,
   passed |-> {"codes"} \cup Window, identity |-> {"code", "date"}]

GetAdjustmentEvents ==
  [capability |-> "adjustment_events", key |-> {"codes"} \cup Window,
   passed |-> {"codes"} \cup Window, identity |-> {"code", "ex_date"}]

Endpoint ==
  [get_bars |-> GetBars, get_snapshot |-> GetSnapshot, get_fund_nav |-> GetFundNav,
   get_reference |-> GetReference, get_security_info |-> GetSecurityInfo,
   get_index_weights |-> GetIndexWeights, get_financials |-> GetFinancials,
   get_market_events |-> GetMarketEvents, get_trade_calendar |-> GetTradeCalendar,
   get_adjust_factors |-> GetAdjustFactors, get_adjustment_events |-> GetAdjustmentEvents]

\* The columns that identify an event depend on its kind.
EventIdentity(kind) ==
  CASE kind = "ipo" -> {"code", "ipo_date"}
    [] kind = "namechange" -> {"code", "start_date"}
    [] OTHER -> {"code", "date"}

\* symbol.VENUE: the security type is not part of it.
Canonical(codes) == {c.code : c \in codes}

KeyOf(r) ==
  <<r.endpoint, r.source,
    [f \in Endpoint[r.endpoint].key |-> IF f = "codes" THEN Canonical(r.codes) ELSE r[f]]>>

\* What the adapter is asked for.
ArgsOf(r) == [f \in Endpoint[r.endpoint].passed |-> r[f]]
=============================================================================
