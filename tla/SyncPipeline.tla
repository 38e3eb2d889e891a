---------------------------- MODULE SyncPipeline ----------------------------
(***************************************************************************)
(* The daily-bar sync of one instrument, from the watermark to the         *)
(* watermark:                                                              *)
(*                                                                         *)
(*   WatermarkWindowProvider  window = (mark + 1, last closed trading day) *)
(*   POST /v1/jobs/sync       a window of the caller's, or its defaults    *)
(*   executor                 fetch the window from the hub, take the      *)
(*                            knowledge time, and in a transaction read    *)
(*                            the latest versions and append to them       *)
(*   mark_watermark           on_success: advance the watermark            *)
(*                                                                         *)
(* The job queue is SqlJobRuns seen from one (dataset, scope): create_run  *)
(* is idempotent per window; claim_next looks for an idle scope in one     *)
(* statement and takes the row in another, so two windows may come to run  *)
(* at once; a stop reclaims the row of an executor that goes on working;   *)
(* and on_success runs after succeed(), whatever that found.               *)
(*                                                                         *)
(* Time passes in thirds of a day: before the close (15:00 CST), from the  *)
(* close to the cutoff (16:30 CST), after the cutoff.                      *)
(***************************************************************************)
EXTENDS Naturals, FiniteSets, FiniteSetsExt

CONSTANTS
  LastDay,        \* bound: calendar days
  TradingDays,    \* days on which the market is open
  StartDay,       \* FDP_SYNC_START
  Revisable,      \* bound: days the source revises, once each
  LateDays,       \* bound: days the source may publish after their cutoff
  Asking,         \* bound: moments at which requests come
  ApiStarts,      \* "start" of a sync request; None is the default
  ApiEnds,        \* "end" of a sync request; None is the default
  Threads,        \* worker threads
  MaxFailures,    \* bound: failed, stopped or killed executions
  None

Days == 1..LastDay
Windows == {s \in Days \X Days : s[1] <= s[2]}

ASSUME SyncAssumption ==
  /\ LastDay \in Nat \ {0}
  /\ TradingDays \subseteq Days /\ Revisable \subseteq TradingDays
  /\ StartDay \in Days
  /\ ApiStarts \cup ApiEnds \subseteq Days \cup {None}
  /\ MaxFailures \in Nat
  /\ None \notin Nat \cup Windows

VARIABLES
  now,       \* the moment, in thirds of a day
  source,    \* source[d]: what the provider answers for day d, NoBar if nothing
  bars,      \* bars[d]: the versions of d in cn_equity.daily_bar
  mark,      \* meta.watermarks, None without a row
  run,       \* run[s]: status of the newest job run of window s
  planned,   \* the window the scheduler is about to submit
  thread,    \* what each worker thread is doing
  failures,
  \* History variables: no action reads them.
  excused,    \* days a caller skipped or asked for too early, or the source was late with
  overlapped, \* two executions have been between knowledge time and commit at once
  orphaned    \* a process was killed under a row it was running

history == <<excused, overlapped, orphaned>>
vars == <<now, source, bars, mark, run, planned, thread, failures, history>>

NoBar == 0
Values == 1..2
Moments == 0..(3 * LastDay - 1)

Today == now \div 3 + 1
Close(d) == 3 * (d - 1) + 1
Cutoff(d) == 3 * (d - 1) + 2

NoRows == [d \in Days |-> {}]

Idle == [step |-> "idle", window |-> None, lost |-> FALSE, got |-> <<>>, stamp |-> 0,
         rows |-> NoRows, wrote |-> FALSE, target |-> 0, seen |-> None]
-----------------------------------------------------------------------------
(* The clock and the source *)

Tick ==
  /\ now + 1 \in Moments
  /\ Today \in TradingDays \ LateDays /\ now + 1 = Cutoff(Today) => source[Today] # NoBar
  /\ now' = now + 1
  /\ UNCHANGED <<source, bars, mark, run, planned, thread, failures, history>>

Publish(d) ==
  /\ d \in TradingDays
  /\ source[d] = NoBar /\ now >= Close(d)
  /\ source' = [source EXCEPT ![d] = 1]
  /\ UNCHANGED <<now, bars, mark, run, planned, thread, failures, history>>

Revise(d) ==
  /\ d \in Revisable
  /\ source[d] = 1
  /\ source' = [source EXCEPT ![d] = 2]
  /\ UNCHANGED <<now, bars, mark, run, planned, thread, failures, history>>
-----------------------------------------------------------------------------
(* Windows *)

PastCutoff(d) == now >= Cutoff(d)

\* Variant of ClosedDays: today counts as closed from the morning on.
ClosedDays_NoCutoff == {d \in TradingDays : d <= Today}

ClosedDays == {d \in TradingDays : PastCutoff(d)}

FirstUncovered == IF mark = None THEN StartDay ELSE mark + 1

\* The window provider: nothing to do when the mark has caught up.
Plan ==
  /\ planned = None
  /\ ClosedDays # {}
  /\ FirstUncovered <= Max(ClosedDays)
  /\ planned' = <<FirstUncovered, Max(ClosedDays)>>
  /\ UNCHANGED <<now, source, bars, mark, run, thread, failures, history>>

\* create_run: a window queued, running or succeeded is not created again.
Known(s) == run[s] \in {"queued", "running", "succeeded"}

CreateRun(s) == run' = IF Known(s) THEN run ELSE [run EXCEPT ![s] = "queued"]

Submit ==
  /\ planned # None
  /\ CreateRun(planned)
  /\ planned' = None
  /\ UNCHANGED <<now, source, bars, mark, thread, failures, history>>

\* The days that a request leaves out, and those it asks for before their cutoff.
Skipped(s) == {d \in TradingDays : FirstUncovered <= d /\ d < s[1]}
TooEarly(s) == {d \in TradingDays : s[1] <= d /\ d <= s[2] /\ ~PastCutoff(d)}

\* trigger_sync: "end" defaults to today, "start" to the day after the watermark.
TriggerSync(start, end) ==
  LET e == IF end = None THEN Today ELSE end
      s == IF start # None THEN start ELSE IF mark = None THEN e ELSE mark + 1
  IN  /\ now \in Asking /\ s <= e
      /\ CreateRun(<<s, e>>)
      /\ excused' = IF Known(<<s, e>>) THEN excused
                    ELSE excused \cup Skipped(<<s, e>>) \cup TooEarly(<<s, e>>)
      /\ UNCHANGED <<now, source, bars, mark, planned, thread, failures, overlapped, orphaned>>
-----------------------------------------------------------------------------
(* The executor *)

Does(w, step) == thread[w].step = step
Goes(w, step) == thread' = [thread EXCEPT ![w].step = step]

\* claim_next, its select: a queued window of a scope in which nothing runs, whose
\* row no other claim has locked.
Select(w, s) ==
  /\ Does(w, "idle")
  /\ run[s] = "queued"
  /\ \A q \in Windows : run[q] # "running"
  /\ \A u \in Threads : ~(Does(u, "selected") /\ thread[u].window = s)
  /\ thread' = [thread EXCEPT ![w] = [Idle EXCEPT !.step = "selected", !.window = s]]
  /\ UNCHANGED <<now, source, bars, mark, run, planned, failures, history>>

\* Its update and commit.  What runs in the scope by now is not looked at again.
Claim(w) ==
  /\ Does(w, "selected")
  /\ run' = [run EXCEPT ![thread[w].window] = "running"]
  /\ Goes(w, "claimed")
  /\ UNCHANGED <<now, source, bars, mark, planned, failures, history>>

\* hub.get_bars for the window
Fetch(w) ==
  LET s == thread[w].window IN
  /\ Does(w, "claimed")
  /\ thread' = [thread EXCEPT ![w].step = "fetched",
                              ![w].got = [d \in s[1]..s[2] |-> source[d]]]
  /\ excused' = excused \cup
       {d \in TradingDays : s[1] <= d /\ d <= s[2] /\ PastCutoff(d) /\ source[d] = NoBar}
  /\ UNCHANGED <<now, source, bars, mark, run, planned, failures, overlapped, orphaned>>

\* Between knowledge time and commit.
Writing(w) == thread[w].step \in {"stamped", "read"}

\* now = utcnow(), the knowledge time of every revision to come.
Stamp(w) ==
  /\ Does(w, "fetched")
  /\ thread' = [thread EXCEPT ![w].step = "stamped", ![w].stamp = now]
  /\ overlapped' = (overlapped \/ \E u \in Threads : Writing(u))
  /\ UNCHANGED <<now, source, bars, mark, run, planned, failures, excused, orphaned>>

\* The latest of a day's versions, by (knowledge_time, version).
Latest(S) ==
  CHOOSE v \in S : \A u \in S :
    \/ u.known < v.known
    \/ u.known = v.known /\ u.version <= v.version

\* Variants of NewVersion: a version for every fetch; a revision backdated to the close.
NewVersion_Always(d, value, stamp) ==
  {[version |-> IF bars[d] = {} THEN 1 ELSE 2, value |-> value,
    known |-> IF bars[d] = {} THEN Close(d) ELSE stamp]}

NewVersion_Backdated(d, value, stamp) ==
  IF bars[d] = {}
  THEN {[version |-> 1, value |-> value, known |-> Close(d)]}
  ELSE IF Latest(bars[d]).value = value THEN {}
  ELSE {[version |-> Latest(bars[d]).version + 1, value |-> value, known |-> Close(d)]}

\* The version to append for a fetched value: the first is known from the close of
\* its day, a revision from the stamp, and an unchanged value is not written.
NewVersion(d, value, stamp) ==
  IF bars[d] = {}
  THEN {[version |-> 1, value |-> value, known |-> Close(d)]}
  ELSE IF Latest(bars[d]).value = value THEN {}
  ELSE {[version |-> Latest(bars[d]).version + 1, value |-> value, known |-> stamp]}

\* The transaction: what it reads decides what it will append.
ReadLatest(w) ==
  LET got == thread[w].got
      Fetched(d) == d \in DOMAIN got /\ got[d] # NoBar
  IN  /\ Does(w, "stamped")
      /\ thread' = [thread EXCEPT
           ![w].step = "read", ![w].got = <<>>,
           ![w].rows = [d \in Days |->
                          IF Fetched(d) THEN NewVersion(d, got[d], thread[w].stamp) ELSE {}]]
      /\ UNCHANGED <<now, source, bars, mark, run, planned, failures, history>>

\* ON CONFLICT DO NOTHING on (trade_date, knowledge_time, version)
Inserted(d, rows) ==
  {v \in rows : \A u \in bars[d] : u.known # v.known \/ u.version # v.version}

Append(w) ==
  LET rows == [d \in Days |-> Inserted(d, thread[w].rows[d])]
  IN  /\ Does(w, "read")
      /\ bars' = [d \in Days |-> bars[d] \cup rows[d]]
      /\ thread' = [thread EXCEPT ![w].step = "written", ![w].rows = NoRows,
                                  ![w].stamp = 0, ![w].wrote = rows # NoRows]
      /\ UNCHANGED <<now, source, mark, run, planned, failures, history>>

\* succeed() finds the row still running, or taken from it; on_success follows.
Succeed(w) ==
  /\ Does(w, "written")
  /\ run' = IF thread[w].lost THEN run ELSE [run EXCEPT ![thread[w].window] = "succeeded"]
  /\ thread' = [thread EXCEPT ![w].step = "callback", ![w].lost = FALSE]
  /\ UNCHANGED <<now, source, bars, mark, planned, failures, history>>

Executes(w) == thread[w].step \in {"claimed", "fetched", "stamped", "read", "written"}
OwnRow(w) == Executes(w) /\ ~thread[w].lost

Breaks == failures < MaxFailures /\ failures' = failures + 1

\* Variant of Fail: the failed run is left as it was.
Fail_LeavesRunning(w) ==
  /\ Executes(w) /\ Breaks
  /\ thread' = [thread EXCEPT ![w] = Idle]
  /\ UNCHANGED <<now, source, bars, mark, run, planned, history>>

\* The executor, or succeed() itself, raised: a row still its own waits for a retry,
\* or is dead after the last.
Fail(w) ==
  /\ Executes(w) /\ Breaks
  /\ IF thread[w].lost THEN run' = run
     ELSE \E s \in {"queued", "ended"} : run' = [run EXCEPT ![thread[w].window] = s]
  /\ thread' = [thread EXCEPT ![w] = Idle]
  /\ UNCHANGED <<now, source, bars, mark, planned, history>>

\* WorkerPool.stop after the join timed out: the row is interrupted, and its
\* executor goes on.
Stop(w) ==
  /\ OwnRow(w) /\ Breaks
  /\ run' = [run EXCEPT ![thread[w].window] = "ended"]
  /\ thread' = [thread EXCEPT ![w].lost = TRUE]
  /\ UNCHANGED <<now, source, bars, mark, planned, history>>

\* The process ends under the thread, also after a stop: a transaction is rolled
\* back, and a running row stays as it is.
Die(w) ==
  /\ ~Does(w, "idle") /\ Breaks
  /\ orphaned' = (orphaned \/ OwnRow(w))
  /\ thread' = [thread EXCEPT ![w] = Idle]
  /\ UNCHANGED <<now, source, bars, mark, run, planned, excused, overlapped>>
-----------------------------------------------------------------------------
(* on_success: mark_watermark, and advance_watermark in its two statements *)

\* A window that ends today and brought no row leaves today for later.
Target(w) ==
  LET end == thread[w].window[2]
  IN  IF end >= Today /\ ~thread[w].wrote THEN end - 1 ELSE end

ReadMark(w) ==
  /\ Does(w, "callback")
  /\ IF mark # None /\ mark >= Target(w)
     THEN thread' = [thread EXCEPT ![w] = Idle]
     ELSE thread' = [thread EXCEPT ![w].step = "marking", ![w].target = Target(w),
                                   ![w].seen = mark]
  /\ UNCHANGED <<now, source, bars, mark, run, planned, failures, history>>

\* An update of the row that was read; or an insert, refused if there is one by now.
WriteMark(w) ==
  /\ Does(w, "marking")
  /\ mark' = IF thread[w].seen = None /\ mark # None THEN mark ELSE thread[w].target
  /\ thread' = [thread EXCEPT ![w] = Idle]
  /\ UNCHANGED <<now, source, bars, run, planned, failures, history>>
-----------------------------------------------------------------------------
Init ==
  /\ now = 0
  /\ source = [d \in Days |-> NoBar]
  /\ bars = [d \in Days |-> {}]
  /\ mark = None
  /\ run = [s \in Windows |-> "none"]
  /\ planned = None
  /\ thread = [w \in Threads |-> Idle]
  /\ failures = 0
  /\ excused = {} /\ overlapped = FALSE /\ orphaned = FALSE

Work(w) ==
  \/ \E s \in Windows : Select(w, s)
  \/ Claim(w) \/ Fetch(w) \/ Stamp(w) \/ ReadLatest(w) \/ Append(w) \/ Succeed(w)
  \/ ReadMark(w) \/ WriteMark(w)

Next ==
  \/ Tick
  \/ \E d \in Days : Publish(d) \/ Revise(d)
  \/ Plan \/ Submit
  \/ \E s \in ApiStarts, e \in ApiEnds : TriggerSync(s, e)
  \/ \E w \in Threads : Work(w) \/ Fail(w) \/ Stop(w) \/ Die(w)

Spec == Init /\ [][Next]_vars

(***************************************************************************)
(* Fairness: time passes, the source publishes, the scheduler ticks and    *)
(* the worker threads run.  Requests, revisions and failures may happen.   *)
(***************************************************************************)
Fairness ==
  /\ WF_vars(Tick) /\ WF_vars(Plan) /\ WF_vars(Submit)
  /\ \A d \in Days : WF_vars(Publish(d))
  /\ \A w \in Threads : WF_vars(Work(w))

FairSpec == Spec /\ Fairness
-----------------------------------------------------------------------------
(* Properties *)

\* What the watermark means to every later window: a trading day between the start
\* and the mark has a bar, or a caller skipped it or asked for it before its cutoff,
\* or the source had nothing for it after its cutoff.  No failure, no stop and no
\* order of callbacks adds a gap, for no scheduled window goes back to it.
WatermarkCovers ==
  mark # None =>
    \A d \in TradingDays : StartDay <= d /\ d <= mark => bars[d] # {} \/ d \in excused

\* Versions of a day are numbered without gaps or repeats in the order they
\* became known, and each differs in value from the one before.
Chained(S) ==
  /\ {v.version : v \in S} = 1..Cardinality(S)
  /\ \A u, v \in S : u.version + 1 = v.version => u.known <= v.known /\ u.value # v.value

\* As long as no two executions have been between knowledge time and commit at
\* once, whatever was retried, stopped or killed, a day's versions are a chain.
VersionsChain == ~overlapped => \A d \in Days : Chained(bars[d])

\* as_of_query: the newest version of a day known at a moment.
AsOf(S, moment) ==
  LET visible == {v \in S : v.known <= moment}
  IN  IF visible = {} THEN NoBar ELSE Latest(visible).value

\* A moment that no version still to be committed can carry.
Settled(t) == t < now /\ \A w \in Threads : Writing(w) => t < thread[w].stamp

\* Restatement never rewrites history: what a day's bar is seen to be as of a
\* settled moment, it is as of that moment for ever.
HistoryKept ==
  [][\A d \in Days, t \in Moments :
       Settled(t) /\ AsOf(bars[d], t) # NoBar => AsOf(bars'[d], t) = AsOf(bars[d], t)]_vars

\* Whatever failed, stopped or lost its callback, a trading day that is not the
\* last one is eventually in the table or excused, unless a killed process has
\* left its row running, which blocks the scope for good.
CatchUp ==
  \A d \in TradingDays :
    d >= StartDay /\ (\E e \in TradingDays : e > d) =>
      <>(bars[d] # {} \/ d \in excused \/ orphaned)
-----------------------------------------------------------------------------
(* The inductive strengthening of the safety properties *)

Version == [version: Nat, value: Values, known: Moments]
Versions == {S \in SUBSET Version : IsFiniteSet(S)}
Answer == Values \cup {NoBar}
Mark == 0..LastDay \cup {None}
Statuses == {"none", "queued", "running", "succeeded", "ended"}

ThreadState ==
  [step: {"idle", "selected", "claimed", "fetched", "stamped", "read", "written",
          "callback", "marking"},
   window: Windows \cup {None}, lost: BOOLEAN,
   got: {<<>>} \cup UNION {[s[1]..s[2] -> Answer] : s \in Windows},
   stamp: Moments, rows: [Days -> Versions],
   wrote: BOOLEAN, target: 0..LastDay, seen: Mark]

TypeOK ==
  /\ now \in Moments
  /\ source \in [Days -> Answer]
  /\ bars \in [Days -> Versions]
  /\ mark \in Mark
  /\ run \in [Windows -> Statuses]
  /\ planned \in Windows \cup {None}
  /\ thread \in [Threads -> ThreadState]
  /\ failures \in 0..MaxFailures
  /\ excused \in SUBSET TradingDays
  /\ {overlapped, orphaned} \subseteq BOOLEAN

Interval(s) == s[1]..s[2]
Answered(w) == thread[w].step \in {"fetched", "stamped"}

\* A thread that works has a window, and an answer for each of its days, none of
\* which is earlier than the close of its day.
ThreadsPlaced ==
  /\ \A d \in Days : source[d] # NoBar => now >= Close(d)
  /\ \A w \in Threads :
       /\ ~Does(w, "idle") => thread[w].window \in Windows
       /\ Writing(w) => thread[w].stamp <= now
       /\ Answered(w) =>
            /\ thread[w].got \in [Interval(thread[w].window) -> Answer]
            /\ \A d \in Interval(thread[w].window) : thread[w].got[d] # NoBar => now >= Close(d)

\* A first version is one known from the close of its day.
IsFirst(v, d) == v.version = 1 /\ v.known = Close(d)

\* A day with versions has its first; an executor adds that one again, which the key
\* refuses, or a revision of a day that has versions, known from its stamp.
RevisionsStamped ==
  /\ \A d \in Days : bars[d] # {} => \E v \in bars[d] : IsFirst(v, d)
  /\ \A w \in Threads : Does(w, "read") =>
       \A d \in Days : \A v \in thread[w].rows[d] :
         IsFirst(v, d) \/ (bars[d] # {} /\ v.known = thread[w].stamp)

\* The versions of a day stand in one order, by number and by moment.
Ordered(S) ==
  \A u, v \in S :
    /\ u.version = v.version => u = v
    /\ u.version < v.version => u.known <= v.known

\* v comes next after S: known from the close of d if it is the first, else from t.
IsNext(v, S, d, t) ==
  /\ v.version = Cardinality(S) + 1
  /\ v.known = IF S = {} THEN Close(d) ELSE t
  /\ \A u \in S : u.version = Cardinality(S) => u.value # v.value

\* While nobody has overlapped, one execution at most is writing, its stamp is later
\* than every version, and what it has read is still the latest.
OneWriter ==
  /\ \A d \in Days : Ordered(bars[d]) /\ Chained(bars[d]) /\ \A v \in bars[d] : v.known <= now
  /\ \A w \in Threads : Writing(w) =>
       /\ \A u \in Threads : Writing(u) => u = w
       /\ \A d \in Days : \A v \in bars[d] : v.known <= thread[w].stamp
  /\ \A w \in Threads : Does(w, "read") =>
       \A d \in Days : \/ thread[w].rows[d] = {}
                       \/ \E v \in Version : /\ thread[w].rows[d] = {v}
                                             /\ v.known <= now
                                             /\ IsNext(v, bars[d], d, thread[w].stamp)

ChainInv == TypeOK /\ ThreadsPlaced /\ RevisionsStamped /\ (~overlapped => OneWriter)

\* Every trading day from the start to day k has a bar or is excused.  Bars are never
\* deleted, so this stays true, also when the mark falls back.
CoveredTo(k) ==
  \A d \in TradingDays : StartDay <= d /\ d <= k => bars[d] # {} \/ d \in excused

\* A window that leaves no day out before it, and whose days are past their cutoff.
Sound(s) ==
  /\ CoveredTo(s[1] - 1)
  /\ \A d \in TradingDays \cap Interval(s) : PastCutoff(d) \/ d \in excused

WindowsSound ==
  /\ planned # None => Sound(planned)
  /\ \A s \in Windows : run[s] \in {"queued", "running"} => Sound(s)
  /\ \A w \in Threads : ~Does(w, "idle") => Sound(thread[w].window)

\* What a thread has fetched or will append leaves no day of its window out; from
\* the write to the mark, the window is covered, and the target is within it.
ThreadsCover ==
  \A w \in Threads :
    /\ Answered(w) => \A d \in TradingDays \cap Interval(thread[w].window) :
                        thread[w].got[d] # NoBar \/ d \in excused
    /\ Does(w, "read") => \A d \in TradingDays \cap Interval(thread[w].window) :
                            thread[w].rows[d] # {} \/ bars[d] # {} \/ d \in excused
    /\ thread[w].step \in {"written", "callback", "marking"} => CoveredTo(thread[w].window[2])
    /\ Does(w, "marking") => thread[w].target <= thread[w].window[2]

CoverInv == WindowsSound /\ ThreadsCover /\ WatermarkCovers
=============================================================================
