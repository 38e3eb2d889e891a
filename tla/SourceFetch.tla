----------------------------- MODULE SourceFetch -----------------------------
(***************************************************************************)
(* One load of the hub, from the request to its frame: the codes are split *)
(* into the calls the source allows, each call asks its queries, page by   *)
(* page where the provider pages, and the answers are filtered, merged,    *)
(* sorted and adjusted.  Meanwhile rows may appear at the provider, and    *)
(* any query may end in an error.                                          *)
(***************************************************************************)
EXTENDS AdapterQueries, AdjustedPrices

CONSTANT
  Cases     \* requests, each with what the providers have

VARIABLES
  case,      \* the request, and what does not change at the providers
  plan,      \* the queries of the load, in their order
  tables,    \* tables[t]: the rows of a provider's table
  arrived,   \* the rows that appeared since the request
  answers,   \* the answers to the first queries, in order
  got,       \* the pages of the query under way
  page,      \* the page it asks for next
  capped,    \* a query ended at its last page, and that one was full
  step, frame

vars == <<case, plan, tables, arrived, answers, got, page, capped, step, frame>>

req == case.req
-----------------------------------------------------------------------------
(* The queries *)

\* A method of the facade, or of an adapter that the facade does not offer.
Capability(r) == IF r.endpoint \in DOMAIN Endpoint THEN Endpoint[r.endpoint].capability ELSE r.endpoint

\* Without codes there is one call.
Calls(source, capability, r) ==
  LET batches == IF r.codes = << >> THEN <<r.codes>> ELSE SplitCodes(source, capability, r.codes)
  IN  FlattenSeq([i \in DOMAIN batches |-> AdapterQueries(source, capability, r, batches[i])])

\* The factors of the factor source come after everything else.
Plan(r) ==
  LET factors == Calls(r.factor, "adjust_factors", r) IN
  Calls(r.source, Capability(r), r)
    \o (IF r.factor = None THEN << >> ELSE [i \in DOMAIN factors |-> [factors[i] EXCEPT !.part = "factors"]])

Init ==
  /\ case \in Cases /\ tables = case.tables /\ plan = Plan(req)
  /\ arrived = {} /\ answers = << >> /\ got = << >> /\ page = 1 /\ capped = FALSE
  /\ step = "fetching" /\ frame = << >>

Before(a, b) ==
  \/ a.date < b.date
  \/ a.date = b.date /\ a.code < b.code
  \/ a.date = b.date /\ a.code = b.code /\ a.item < b.item
  \/ a.date = b.date /\ a.code = b.code /\ a.item = b.item /\ a.copy < b.copy

InDays(row, from, to) == (from = None \/ row.date >= from) /\ (to = None \/ row.date <= to)

\* The last row of each code.
Latest(rows) == {row \in rows : \A other \in rows : other.code = row.code => other.date <= row.date}

\* The provider's answer, by date, the newest or the oldest row first.
Answer(q) ==
  LET asked == {row \in IF q.table \in DOMAIN tables THEN tables[q.table] ELSE {} :
                  (q.codes = All \/ row.code \in q.codes) /\ InDays(row, q.from, q.to)}
      rows == IF q.latest THEN Latest(asked) ELSE asked
  IN  SortSeq(FoldSet(LAMBDA row, sofar : Append(sofar, row), << >>, rows),
              LAMBDA a, b : IF case.newest THEN Before(b, a) ELSE Before(a, b))

AnswersTo(part) ==
  FlattenSeq([i \in DOMAIN answers |-> IF plan[i].part = part THEN answers[i] ELSE << >>])

\* An adapter that adjusts asks for no factors when there are no prices.
Answered ==
  \/ Len(answers) = Len(plan)
  \/ Len(answers) < Len(plan) /\ plan[Len(answers) + 1].part = "native" /\ AnswersTo("rows") = << >>

\* _paged_query asks until a page is short, or for as many pages as it may; the
\* offset is the number of rows it has.
Query ==
  LET q == plan[Len(answers) + 1]
      all == Answer(q)
      rows == IF q.limit = 0 THEN all ELSE SubSeq(all, Len(got) + 1, Least(Len(got) + q.limit, Len(all)))
      full == q.limit > 0 /\ Len(rows) = q.limit
      more == full /\ (q.pages = 0 \/ page < q.pages)
  IN
  /\ step = "fetching" /\ ~Answered /\ q.table # None
  /\ got' = IF more THEN got \o rows ELSE << >>
  /\ page' = IF more THEN page + 1 ELSE 1
  /\ answers' = IF more THEN answers ELSE Append(answers, got \o rows)
  /\ capped' = (capped \/ (full /\ ~more))
  /\ UNCHANGED <<case, plan, tables, arrived, step, frame>>

\* The adapter refuses what it is asked, or the provider does not answer.
Fail ==
  /\ step = "fetching" /\ ~Answered
  /\ step' = "failed"
  /\ UNCHANGED <<case, plan, tables, arrived, answers, got, page, capped, frame>>

Arrive ==
  /\ step = "fetching" /\ ~Answered
  /\ \E t \in DOMAIN case.late : \E row \in case.late[t] \ arrived :
       /\ tables' = [tables EXCEPT ![t] = @ \cup {row}]
       /\ arrived' = arrived \cup {row}
  /\ UNCHANGED <<case, plan, answers, got, page, capped, step, frame>>
-----------------------------------------------------------------------------
(* The frame *)

Wanted(row) ==
  /\ req.codes = << >> \/ row.code \in Canonical(Range(req.codes))
  /\ InDays(row, req.start, req.end)

\* What the adapter itself cuts out of an answer that holds more.
Local(rows) ==
  IF \/ req.source = "tushare" /\ req.endpoint = "get_market_events" /\ req.kind \in {"ipo", "st"}
     \/ req.source \in {"akshare", "ifind"} /\ req.endpoint = "get_fund_nav"
  THEN SelectSeq(rows, Wanted) ELSE rows

\* Answers without which there is nothing to parse or to compute with.
EmptyIsError ==
  \/ req.source = "ifind"
  \/ req.source = "wind" /\ req.endpoint = "economic_indicators"
  \/ req.source \in {"akshare", "fuyao"} /\ req.endpoint = "get_trade_calendar"

Identity(r) ==
  CASE r.endpoint = "get_market_events" -> EventIdentity(r.kind)
    [] r.endpoint \in DOMAIN Endpoint \ {"get_market_events"} -> Endpoint[r.endpoint].identity
    [] OTHER -> {}

\* An event or a value is identified by its code, its day, and one more column.
SameRow(identity, a, b) ==
  /\ a.code = b.code
  /\ Cardinality(identity) # 1 => a.date = b.date
  /\ Cardinality(identity) \notin {1, 2} => a.item = b.item

\* _merge_frames: the first row of each identity, by code and day.
Merged(identity, rows) ==
  LET first == SelectSeq([i \in DOMAIN rows |-> [row |-> rows[i], at |-> i]],
                         LAMBDA e : \A j \in 1..(e.at - 1) : ~SameRow(identity, rows[j], e.row))
  IN  IF identity = {} THEN rows
      ELSE SortSeq([i \in DOMAIN first |-> first[i].row],
                   LAMBDA a, b : a.code < b.code \/ (a.code = b.code /\ Before(a, b)))

\* BaoStock's events become factors call by call; others are merged as they are.
FactorRows ==
  LET blank(i) == [code |-> ChooseUnique(plan[i].codes, LAMBDA c : TRUE), date |-> 0, item |-> 0, copy |-> 0,
                   value |-> Missing, ratio |-> Raw]
      frames == [i \in DOMAIN answers |->
                   CASE plan[i].part # "factors" -> << >>
                     [] plan[i].part = "factors" /\ req.factor = "baostock" ->
                          FactorsFrame(answers[i], blank(i), req.start, req.end)
                     [] OTHER -> answers[i]]
  IN  Merged({"code", "date"}, FlattenSeq(frames))

\* Fuyao knows the trading days of the last year, AkShare all of them; both
\* answer with the open days.  The others answer with every day.
Calendar(rows) ==
  LET open == {rows[i].date : i \in {i \in DOMAIN rows : rows[i].item = 1}}
      Days == [i \in 1..(req.end - req.start + 1) |-> req.start + i - 1]
      All2 == [i \in DOMAIN Days |-> [date |-> Days[i], open |-> Days[i] \in open]]
  IN  CASE req.source = "fuyao" -> IF req.start < Min(open) \/ req.end > Max(open) THEN {} ELSE {All2}
        [] req.source = "akshare" -> {All2}
        [] OTHER -> {[i \in DOMAIN rows |-> [date |-> rows[i].date, open |-> rows[i].item = 1]]}

\* The frames a request may end with; none: an error.
Frames ==
  LET rows == Local(AnswersTo("rows"))
      own == IF req.native = None \/ rows = << >> THEN {rows}
             ELSE ApplyOnDay(rows, AnswersTo("native"), req.native)
      merged == {Merged(Identity(req), f) : f \in own}
  IN  IF EmptyIsError /\ AnswersTo("rows") = << >> THEN {}
      ELSE IF req.endpoint = "get_trade_calendar" THEN Calendar(rows)
      ELSE IF req.factor = None THEN merged
      ELSE UNION {ApplyAdjustment(f, FactorRows, req.adjust) : f \in merged}

Finish ==
  /\ step = "fetching" /\ Answered
  /\ IF Frames = {} THEN step' = "failed" /\ UNCHANGED frame
     ELSE step' = "done" /\ frame' \in Frames
  /\ UNCHANGED <<case, plan, tables, arrived, answers, got, page, capped>>

Next == Query \/ Fail \/ Arrive \/ Finish

Spec == Init /\ [][Next]_vars
-----------------------------------------------------------------------------
\* A frame has every row asked for that was there all the time, no other row,
\* and none twice, however its codes were split, its days cut into windows and
\* its rows paged while new ones appeared; merged rows are sorted.  More rows
\* than _MAX_PAGES hold are cut off (tushare.py: _paged_query), and iFinD is asked
\* for the last value of a fund unless both ends of the window are given (ifind.py:
\* fetch_fund_nav).  A calendar has every day once, open if it is.
FrameAsAsked ==
  LET there == UNION {tables[t] : t \in case.data}
      asked == IF OnlyLatest(req) THEN Latest(there) ELSE there
      identity == Identity(req)
  IN
  step = "done" =>
    IF req.endpoint = "get_trade_calendar"
    THEN {frame[i] : i \in DOMAIN frame} = {[date |-> d, open |-> d \in case.open] : d \in req.start..req.end}
         /\ Len(frame) = req.end - req.start + 1
    ELSE /\ capped \/ \A row \in asked \ arrived :
              Wanted(row) => \E i \in DOMAIN frame : SameRow(identity, frame[i], row)
         /\ \A i \in DOMAIN frame : \E row \in asked : Wanted(row) /\ SameRow(identity, frame[i], row)
         /\ identity # {} =>
              \A i, j \in DOMAIN frame : i < j =>
                /\ ~SameRow(identity, frame[i], frame[j])
                /\ frame[i].code < frame[j].code \/ (frame[i].code = frame[j].code /\ frame[i].date <= frame[j].date)

\* The factor in force on a day, whoever reports it and however.
TrueFactor(code, day) ==
  LET before == {e \in case.events : e.code = code /\ e.date <= day}
  IN  IF before = {} THEN 1 ELSE (CHOOSE e \in before : \A f \in before : f.date <= e.date).value

\* Adjusted prices are the raw prices times the factor in force on their day,
\* over that of the code's last day for qfq: from factors for every day or for
\* the days of events only (routing.py: apply_adjustment, baostock.py:
\* _factors_frame), and from Tushare itself when it answers with the oldest row
\* first.
PricesAdjusted ==
  step = "done" /\ req.adjust # None =>
    \A i \in DOMAIN frame :
      LET b == frame[i]
          last == Max({frame[j].date : j \in Of(frame, b.code)})
      IN  SameRatio(b.ratio, Ratio(req.adjust, TrueFactor(b.code, b.date), TrueFactor(b.code, last)))
=============================================================================
