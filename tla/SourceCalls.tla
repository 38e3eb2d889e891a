----------------------------- MODULE SourceCalls -----------------------------
(***************************************************************************)
(* Calls of the adapters to their sources by the threads of one process:   *)
(* the rate limiter, retries, the ledger, and the two kinds of session     *)
(* that threads share, that of an MCP client and BaoStock's.               *)
(*                                                                         *)
(* A behaviour is about one kind of adapter:                               *)
(*   "plain"     Tushare and AkShare: one try                              *)
(*   "fuyao"     each try acquires a token and is recorded                 *)
(*   "mcp"       Wind and iFinD: one token for all that a tool call sends  *)
(*   "baostock"  one token for all tries; the adapters of a process share  *)
(*               the session of the baostock module                        *)
(* What a source answers is free.  A tick of the clock may pass at any     *)
(* time.                                                                   *)
(***************************************************************************)
EXTENDS RateLimits, UsageLedger, FiniteSets

CONSTANTS
  Threads,
  Hubs,         \* each hub has one adapter; the hubs of a process share the baostock module
  Kinds,
  Timeout,      \* ticks a thread waits for a token
  MaxTries,     \* max_attempts of the configurations
  SessionTtl,   \* ticks an MCP session is used
  Callbacks,    \* what on_alert may do: "returns", "raises", "asks" (for the summary)
  None,
  Limited,      \* bound: the kinds whose limiter can run out; that of the others has tokens enough
  Metered,      \* the kinds whose adapters a hub gave its ledger; others are used alone
  MaxCalls      \* bound: calls, for each kind

ASSUME CallAssumption ==
  /\ {Hubs, Timeout, MaxTries, SessionTtl} \subseteq Nat \ {0}
  /\ Callbacks \subseteq {"returns", "raises", "asks"}
  /\ Kinds \subseteq {"plain", "fuyao", "mcp", "baostock"}
  /\ Days = {1, 2}
  /\ IsFiniteSet(Threads) /\ None \notin Threads

VARIABLES
  kind,
  limiters,    \* the limiters made so far
  registered,  \* registered[a]: the limiter the facade keeps for the source of adapter a
  bound,       \* bound[a]: the limiter the adapter was given last
  call,        \* where each thread is
  usage, holder,  \* the ledger, and the thread that holds its lock
  mcp,         \* the client's session: its number, its age; sessions opened; those notified of
  bs,          \* baostock: _LOGIN_COUNT, whether the module is logged in, what each adapter has
  today,
  granted,     \* tokens granted
  raised,      \* days on which a callback raised
  calls

vars == <<kind, limiters, registered, bound, call, usage, holder, mcp, bs, today, granted, raised, calls>>
limits == <<limiters, registered, bound, granted>>
ledger == <<usage, holder, raised>>
sessions == <<mcp, bs>>
-----------------------------------------------------------------------------
Adapters == IF kind = "baostock" THEN 1..Hubs ELSE {1}

Idle == [step |-> "idle", adapter |-> None, limiter |-> 0, wake |-> 0, left |-> 0,
         tries |-> 0, session |-> None, got |-> None, day |-> 0, checks |-> {}]

\* "plain" starts before its limiter is made, the others after.
Init ==
  /\ kind \in Kinds
  /\ limiters = IF kind = "plain" THEN << >> ELSE [n \in Adapters |-> NewBucket]
  /\ registered = [a \in Adapters |-> IF kind = "plain" THEN 0 ELSE a]
  /\ bound = registered
  /\ call = [t \in Threads |-> Idle]
  /\ usage = NoUsage /\ holder = None /\ raised = {}
  /\ mcp = [session |-> None, age |-> 0, opened |-> 0, notified |-> {}]
  /\ bs = [count |-> 0, loggedIn |-> FALSE,
           of |-> [a \in Adapters |-> [acquired |-> FALSE, session |-> "none", closed |-> FALSE]]]
  /\ today = 1 /\ granted = 0 /\ calls = 0

\* _acquire reads the limiter the adapter is bound to, and goes on waiting on that one.
Limiter(t) == IF call[t].limiter = 0 THEN bound[call[t].adapter] ELSE call[t].limiter

\* The call ends without having reached the ledger, or after it.
Ended(t, got) == [call[t] EXCEPT !.step = "done", !.got = got]

\* Variant of Sent: only an answer is recorded.
Sent_OnlyAnswers(t, got) ==
  IF got = "ok" THEN [call[t] EXCEPT !.step = "record", !.got = got, !.day = today] ELSE Ended(t, got)

\* What was sent is recorded, whatever came back (finally: _record), under the
\* day the clock shows then.
Sent(t, got) ==
  IF kind \in Metered THEN [call[t] EXCEPT !.step = "record", !.got = got, !.day = today] ELSE Ended(t, got)
-----------------------------------------------------------------------------
(* From the facade to the token *)

\* _adapter, up to the look for the limiter of the source.
Begin(t, a) ==
  /\ call[t].step = "idle" /\ calls < MaxCalls[kind]
  /\ calls' = calls + 1
  /\ call' = [call EXCEPT ![t] =
       [Idle EXCEPT !.step = "bind", !.adapter = a, !.limiter = registered[a], !.tries = 1]]
  /\ UNCHANGED <<kind, limits, ledger, sessions, today>>

\* A limiter that was not there is made and kept, and the adapter bound to it.
Bind(t) ==
  LET a == call[t].adapter
      missing == call[t].limiter = 0
      limiter == IF missing THEN Len(limiters) + 1 ELSE call[t].limiter
  IN
  /\ call[t].step = "bind"
  /\ limiters' = IF missing THEN Append(limiters, NewBucket) ELSE limiters
  /\ registered' = [registered EXCEPT ![a] = IF missing THEN limiter ELSE @]
  /\ bound' = [bound EXCEPT ![a] = limiter]
  /\ call' = [call EXCEPT ![t].step = "acquire", ![t].limiter = 0, ![t].left = Timeout]
  /\ UNCHANGED <<kind, granted, ledger, sessions, today, calls>>

\* What a thread does with its token.
AfterGrant == CASE kind \in {"plain", "fuyao"} -> "wire" [] kind = "mcp" -> "ensure" [] kind = "baostock" -> "query"

\* One round of acquire under the bucket's lock: a token, the timeout, or a sleep.
Acquire(t) ==
  LET b == Refilled(limiters[Limiter(t)]) IN
  /\ call[t].step = "acquire" /\ call[t].wake = 0 /\ kind \in Limited
  /\ limiters' = [limiters EXCEPT ![Limiter(t)] = IF HasTokens(b) THEN Granted(b) ELSE b]
  /\ granted' = IF HasTokens(b) THEN granted + 1 ELSE granted
  /\ call' = [call EXCEPT ![t] =
       IF HasTokens(b) THEN [@ EXCEPT !.step = AfterGrant, !.limiter = 0, !.left = 0]
       ELSE IF @.left = 0 THEN Ended(t, "timeout")
       ELSE [@ EXCEPT !.limiter = Limiter(t), !.wake = Wait(b, call[t].left)]]
  /\ UNCHANGED <<kind, registered, bound, ledger, sessions, today, calls>>

AcquireAtOnce(t) ==
  /\ call[t].step = "acquire" /\ kind \notin Limited
  /\ call' = [call EXCEPT ![t].step = AfterGrant, ![t].left = 0]
  /\ UNCHANGED <<kind, limits, ledger, sessions, today, calls>>
-----------------------------------------------------------------------------
(* Requests *)

\* Tushare, AkShare, Fuyao: the request and its answer.
Request(t) ==
  /\ call[t].step = "wire"
  /\ \E got \in {"ok", "source"} \cup (IF kind = "fuyao" THEN {"network", "limit"} ELSE {}) :
       call' = [call EXCEPT ![t] = Sent(t, got)]
  /\ UNCHANGED <<kind, limits, ledger, sessions, today, calls>>

\* _ensure_session: a session younger than its TTL is used, an older one dropped.
EnsureSession(t) ==
  LET fresh == mcp.session # None /\ mcp.age < SessionTtl IN
  /\ call[t].step = "ensure"
  /\ mcp' = IF fresh THEN mcp ELSE [mcp EXCEPT !.session = None, !.age = 0]
  /\ call' = [call EXCEPT ![t].step = IF fresh THEN "tool" ELSE "initialize",
                          ![t].session = mcp'.session]
  /\ UNCHANGED <<kind, limits, ledger, bs, today, calls>>

Again(t) == [call[t] EXCEPT !.tries = @ + 1]

\* One try of _call: a network error is tried again, another error is not.
Retried(t, got) == IF got = "network" /\ call[t].tries < MaxTries THEN Again(t) ELSE Sent(t, got)

\* Variant of Initialize: the client keeps the session before it notifies the server.
Initialize_KeepsSession(t) ==
  /\ call[t].step = "initialize"
  /\ \/ /\ mcp' = [mcp EXCEPT !.opened = @ + 1, !.session = mcp.opened + 1, !.age = 0]
        /\ call' = [call EXCEPT ![t].step = "notify", ![t].session = mcp.opened + 1]
     \/ /\ \E got \in {"network", "source"} : call' = [call EXCEPT ![t] = Retried(t, got)]
        /\ UNCHANGED mcp
  /\ UNCHANGED <<kind, limits, ledger, bs, today, calls>>

\* A stateless server answers without a session.
Initialize(t) ==
  /\ call[t].step = "initialize"
  /\ \/ /\ mcp' = [mcp EXCEPT !.opened = @ + 1]
        /\ call' = [call EXCEPT ![t].step = "notify", ![t].session = mcp.opened + 1]
     \/ /\ call' = [call EXCEPT ![t].step = "tool", ![t].tries = 1]
        /\ UNCHANGED mcp
     \/ /\ \E got \in {"network", "source"} : call' = [call EXCEPT ![t] = Retried(t, got)]
        /\ UNCHANGED mcp
  /\ UNCHANGED <<kind, limits, ledger, bs, today, calls>>

\* notifications/initialized is sent.  Whether it arrives, and what status it is
\* answered with, makes no difference to the client.
Notify(t) ==
  /\ call[t].step = "notify"
  /\ mcp' = [mcp EXCEPT !.notified = @ \cup {call[t].session}]
  /\ call' = [call EXCEPT ![t].step = "keep"]
  /\ UNCHANGED <<kind, limits, ledger, bs, today, calls>>

\* The client keeps the session for the calls that follow.
KeepSession(t) ==
  /\ call[t].step = "keep"
  /\ mcp' = [mcp EXCEPT !.session = call[t].session, !.age = 0]
  /\ call' = [call EXCEPT ![t].step = "tool", ![t].tries = 1]
  /\ UNCHANGED <<kind, limits, ledger, bs, today, calls>>

\* tools/call.  The session stays, also when the server no longer knows it.
CallTool(t) ==
  /\ call[t].step = "tool"
  /\ \E got \in {"ok", "network", "source"} : call' = [call EXCEPT ![t] = Retried(t, got)]
  /\ UNCHANGED <<kind, limits, ledger, sessions, today, calls>>
-----------------------------------------------------------------------------
(* BaoStock: the state of one module for all adapters, under one lock *)

InSession(a) == bs.of[a].acquired /\ bs.of[a].session = "current"

\* _invalidate_session, by adapter a: a new generation begins.
Invalidated(s, a) ==
  [s EXCEPT !.count = 0,
            !.of = [b \in Adapters |->
              [s.of[b] EXCEPT !.session = CASE b = a -> "none"
                                            [] b # a /\ @ = "current" -> "old"
                                            [] OTHER -> @]]]

\* _ensure_login, when the login succeeds or none is needed.
Joined(s, a) ==
  IF InSession(a) THEN s
  ELSE [s EXCEPT !.count = @ + 1, !.loggedIn = TRUE, !.of[a].acquired = TRUE, !.of[a].session = "current"]

\* One attempt: login, query, and what the answer does to the session.  The
\* connection may be lost, or the login refused, at any time.
Query(t) ==
  LET a == call[t].adapter IN
  /\ call[t].step = "query"
  /\ \/ /\ ~InSession(a) /\ bs.count = 0
        /\ bs' = Invalidated(bs, a)
        /\ call' = [call EXCEPT ![t] = IF @.tries < MaxTries THEN Again(t) ELSE Sent(t, "source")]
     \/ /\ bs' = Joined(bs, a)
        /\ \E got \in {"ok", "source"} : call' = [call EXCEPT ![t] = Sent(t, got)]
     \/ /\ bs' = Invalidated(Joined(bs, a), a)
        /\ call' = [call EXCEPT ![t] = IF @.tries < MaxTries THEN Again(t) ELSE Sent(t, "source")]
  /\ UNCHANGED <<kind, limits, ledger, mcp, today, calls>>

\* Variant of Close: an adapter of an earlier session counts as well.
Close_AnySession(a) ==
  LET last == bs.of[a].acquired /\ bs.count <= 1 IN
  /\ kind = "baostock" /\ ~bs.of[a].closed
  /\ bs' = [bs EXCEPT !.of[a] = [acquired |-> FALSE, session |-> "none", closed |-> TRUE],
                      !.count = IF bs.of[a].acquired /\ @ > 0 THEN @ - 1 ELSE @,
                      !.loggedIn = IF last THEN FALSE ELSE @]
  /\ UNCHANGED <<kind, limits, call, ledger, mcp, today, calls>>

\* The last adapter of the current session logs out.
Close(a) ==
  LET last == InSession(a) /\ bs.count <= 1 IN
  /\ kind = "baostock" /\ ~bs.of[a].closed
  /\ bs' = [bs EXCEPT !.of[a] = [acquired |-> @.acquired /\ ~InSession(a), session |-> "none", closed |-> TRUE],
                      !.count = IF InSession(a) /\ @ > 0 THEN @ - 1 ELSE @,
                      !.loggedIn = IF last THEN FALSE ELSE @]
  /\ UNCHANGED <<kind, limits, call, ledger, mcp, today, calls>>
-----------------------------------------------------------------------------
(* The ledger *)

\* The result of a try that is recorded: fuyao may try again, with a new token.
AfterRecord(t) ==
  IF kind = "fuyao" /\ call[t].got \in {"network", "limit"} /\ call[t].tries < MaxTries
  THEN [call[t] EXCEPT !.step = "acquire", !.tries = @ + 1, !.left = Timeout, !.got = None, !.day = 0]
  ELSE Ended(t, call[t].got)

\* record, or a callback's summary, takes the lock.
TakeLedger(t) ==
  /\ call[t].step \in {"record", "ask"} /\ holder = None
  /\ holder' = t
  /\ usage' = IF call[t].step = "record" THEN Counted(usage, call[t].day) ELSE usage
  /\ call' = [call EXCEPT ![t].step = "check",
                          ![t].checks = IF call[t].step = "record" THEN Metrics ELSE @]
  /\ UNCHANGED <<kind, limits, sessions, raised, today, calls>>

DueChecks(t) == {m \in call[t].checks : Due(usage, call[t].day, m) # {}}

\* Calls are checked before costs.
FirstOf(metrics) == IF "calls" \in metrics THEN "calls" ELSE "cost"

\* _check_budget finds nothing more to alert of.
Recorded(t) ==
  /\ call[t].step = "check" /\ DueChecks(t) = {}
  /\ holder' = None
  /\ call' = [call EXCEPT ![t] = [AfterRecord(t) EXCEPT !.checks = {}]]
  /\ UNCHANGED <<kind, limits, sessions, usage, raised, today, calls>>

\* Variant of Alert: a callback that raises leaves the lock taken.
Alert_KeepsLock(t) ==
  /\ call[t].step = "check" /\ DueChecks(t) # {}
  /\ LET m == FirstOf(DueChecks(t))
         left == call[t].checks \ {m}
     IN
       \E alert \in Due(usage, call[t].day, m), does \in Callbacks :
         /\ usage' = Fired(usage, alert)
         /\ raised' = IF does = "raises" THEN raised \cup {call[t].day} ELSE raised
         /\ call' = [call EXCEPT ![t] =
              CASE does = "returns" -> [@ EXCEPT !.checks = left]
                [] does = "raises" -> [Ended(t, "other") EXCEPT !.checks = {}]
                [] does = "asks" -> [@ EXCEPT !.step = "ask", !.checks = left]]
  /\ UNCHANGED <<kind, limits, sessions, holder, today, calls>>

\* An alert fires and the callback is called, under the lock.  If it raises, the
\* lock is released, the metrics left are not checked, and the call fails
\* whatever the source answered.
Alert(t) ==
  /\ call[t].step = "check" /\ DueChecks(t) # {}
  /\ LET m == FirstOf(DueChecks(t))
         left == call[t].checks \ {m}
     IN
       \E alert \in Due(usage, call[t].day, m), does \in Callbacks :
         /\ usage' = Fired(usage, alert)
         /\ raised' = IF does = "raises" THEN raised \cup {call[t].day} ELSE raised
         /\ holder' = IF does = "raises" THEN None ELSE holder
         /\ call' = [call EXCEPT ![t] =
              CASE does = "returns" -> [@ EXCEPT !.checks = left]
                [] does = "raises" -> [Ended(t, "other") EXCEPT !.checks = {}]
                [] does = "asks" -> [@ EXCEPT !.step = "ask", !.checks = left]]
  /\ UNCHANGED <<kind, limits, sessions, today, calls>>

Return(t) ==
  /\ call[t].step = "done"
  /\ call' = [call EXCEPT ![t] = Idle]
  /\ UNCHANGED <<kind, limits, ledger, sessions, today, calls>>
-----------------------------------------------------------------------------
Earlier(n) == IF n = 0 THEN 0 ELSE n - 1

Tick ==
  /\ limiters' = [l \in DOMAIN limiters |-> Aged(limiters[l])]
  /\ call' = [t \in Threads |-> [call[t] EXCEPT !.wake = Earlier(@), !.left = Earlier(@)]]
  /\ mcp' = [mcp EXCEPT !.age = IF mcp.session = None THEN 0 ELSE AtMost(@ + 1, SessionTtl)]
  /\ UNCHANGED <<kind, registered, bound, granted, ledger, bs, today, calls>>

Midnight ==
  /\ today = 1 /\ today' = 2 /\ kind \in Metered
  /\ UNCHANGED <<kind, limits, call, ledger, sessions, calls>>

Step(t) ==
  \/ Bind(t) \/ Acquire(t) \/ AcquireAtOnce(t) \/ Request(t)
  \/ EnsureSession(t) \/ Initialize(t) \/ Notify(t) \/ KeepSession(t) \/ CallTool(t)
  \/ Query(t)
  \/ TakeLedger(t) \/ Alert(t) \/ Recorded(t)

Next ==
  \/ \E t \in Threads, a \in Adapters : Begin(t, a)
  \/ \E t \in Threads : Step(t) \/ Return(t)
  \/ \E a \in Adapters : Close(a)
  \/ Tick \/ Midnight

\* A thread that can go on does, each request has a timeout, and time passes.
Spec == Init /\ [][Next]_vars /\ WF_vars(Tick) /\ \A t \in Threads : WF_vars(Step(t))
-----------------------------------------------------------------------------
\* Over any stretch of time a limiter grants its burst and what its rate brings,
\* however its threads refill, sleep and wake (ratelimit.py: RateLimiter).  Two
\* first calls at once may make two limiters, each of which keeps this bound.
RateBound == \A l \in DOMAIN limiters : WithinRate(limiters[l])

Unrecorded == {t \in Threads : call[t].step \in {"wire", "ensure", "initialize", "notify", "keep", "tool", "query", "record"}}

\* Every token granted is counted once, failures included, or is in the hands of
\* a thread that has yet to count it; and every budget alert fired once, when its
\* level was reached.  A callback that raises leaves the checks after it undone
\* until the next call of the day.
LedgerAgrees ==
  /\ kind \in Limited \cap Metered =>
     granted = usage.calls[1] + usage.calls[2] + Cardinality(Unrecorded)
  /\ Cardinality(usage.fired) = Len(usage.alerts)
  /\ holder = None =>
       \A d \in Days \ raised, m \in Metrics :
         [day |-> d, metric |-> m, level |-> "exceeded"] \in usage.fired
           <=> Limits[m] > 0 /\ Value(usage, d, m) >= Limits[m]

\* A tool is called only in a session whose handshake the client has gone through
\* to its notification, although threads open sessions at the same time and use
\* each other's.  (The server may have missed it: client.py suppresses a failure.)
HandshakeFirst ==
  \A t \in Threads : call[t].step = "tool" => call[t].session \in mcp.notified \cup {None}

\* The count of logins is that of the adapters in the current session, through
\* lost connections and adapters of earlier sessions that close late, and the
\* module stays logged in while there is one.
SessionCounted ==
  /\ bs.count = Cardinality({a \in Adapters : InSession(a)})
  /\ bs.count > 0 => bs.loggedIn

\* Every call ends, with an answer, an error or the limiter's timeout.
CallsEnd == \A t \in Threads : call[t].step # "idle" ~> call[t].step = "done"
=============================================================================
