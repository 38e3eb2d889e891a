-------------------------- MODULE SourceCallsProofs --------------------------
(***************************************************************************)
(* What threads share, for any number of threads, adapters and calls: an   *)
(* MCP client's session, which is used only after its handshake,           *)
(* BaoStock's, whose logins are counted, the limiters, which grant no more *)
(* than their rate, and the ledger, which misses nothing.                  *)
(***************************************************************************)
EXTENDS SourceCalls, FiniteSetTheorems, TLAPS

Fields == {"step", "adapter", "limiter", "wake", "left", "tries", "session", "got", "day", "checks"}
HasFields(c) == c = [f \in Fields |-> c[f]]

\* The record of a thread has its fields, and an adapter while it calls.
Shape(c) == HasFields(c) /\ (c.step # "idle" => c.adapter \in Adapters)

\* What a thread knows of the session it has.
Reported(c, notified) ==
  /\ c.step = "initialize" => c.session = None
  /\ c.step = "keep" => c.session \in notified
  /\ c.step = "tool" => c.session \in notified \cup {None}

McpShape == mcp = [f \in {"session", "age", "opened", "notified"} |-> mcp[f]]

SInv ==
  /\ kind \in Kinds /\ call = [t \in Threads |-> call[t]]
  /\ McpShape /\ mcp.session \in mcp.notified \cup {None}
  /\ \A t \in Threads : Shape(call[t]) /\ Reported(call[t], mcp.notified)

\* The adapters in the current session of BaoStock's module.
Members(s) == {a \in Adapters : s.of[a].acquired /\ s.of[a].session = "current"}

\* What each adapter has of that module, and the module's state.
Has == [acquired : BOOLEAN, session : {"none", "current", "old"}, closed : BOOLEAN]
Sessions == [count : Nat, loggedIn : BOOLEAN, of : [Adapters -> Has]]

\* The count is that of the members, and the module is logged in for them.
Good(s) == s \in Sessions /\ s.count = Cardinality(Members(s)) /\ (s.count > 0 => s.loggedIn)

CallInv == SInv /\ Good(bs)
-----------------------------------------------------------------------------
\* At first nobody calls, and nobody is logged in.
LEMMA InitHolds == Init => CallInv
<1> SUFFICES ASSUME Init PROVE CallInv
  OBVIOUS
<1>1. HasFields(Idle) /\ Idle.step = "idle"
  BY DEF Idle, Fields, HasFields
<1>2. Shape(Idle) /\ Reported(Idle, mcp.notified)
  BY <1>1 DEF Shape, Reported
<1>3. SInv
  BY <1>2 DEF Init, SInv, McpShape
<1>4. bs = [count |-> 0, loggedIn |-> FALSE,
            of |-> [a \in Adapters |-> [acquired |-> FALSE, session |-> "none", closed |-> FALSE]]]
  BY DEF Init
<1>5. bs \in Sessions /\ bs.count = 0
  BY <1>4 DEF Sessions, Has
<1>6. Members(bs) = {}
  BY <1>4 DEF Members
<1> QED
  BY <1>3, <1>5, <1>6, FS_EmptySet DEF CallInv, Good

\* A step of one thread.
LEMMA ThreadHolds ==
  ASSUME SInv, NEW t \in Threads, NEW c, call' = [call EXCEPT ![t] = c],
         UNCHANGED kind, McpShape', mcp'.session \in mcp'.notified \cup {None}, mcp.notified \subseteq mcp'.notified,
         Shape(c), Reported(c, mcp'.notified)
  PROVE  SInv'
<1>1. \A u \in Threads : call'[u] = IF u = t THEN c ELSE call[u]
  BY DEF SInv
<1>2. call' = [u \in Threads |-> call'[u]]
  BY DEF SInv
<1>3. ASSUME NEW u \in Threads PROVE Shape(call[u])' /\ Reported(call[u], mcp.notified)'
  BY <1>1 DEF SInv, Shape, Reported, Adapters
<1> QED
  BY <1>2, <1>3 DEF SInv

\* A step that has nothing to do with MCP sessions.
LEMMA PlainHolds ==
  ASSUME SInv, NEW t \in Threads, NEW c, call' = [call EXCEPT ![t] = c], UNCHANGED <<kind, mcp>>,
         HasFields(c), c.adapter = call[t].adapter, call[t].step # "idle",
         c.step \notin {"initialize", "keep", "tool"}
  PROVE  SInv'
<1>1. Shape(c) /\ Reported(c, mcp'.notified)
  BY DEF SInv, Shape, Reported
<1> QED
  BY <1>1, ThreadHolds DEF SInv, McpShape

\* What was sent is recorded, or the call ends.
LEMMA SentShape ==
  ASSUME NEW t \in Threads, NEW got, HasFields(call[t])
  PROVE  /\ HasFields(Sent(t, got)) /\ HasFields(Ended(t, got))
         /\ Sent(t, got).adapter = call[t].adapter /\ Ended(t, got).adapter = call[t].adapter
         /\ Sent(t, got).step \in {"record", "done"} /\ Ended(t, got).step = "done"
BY DEF Sent, Ended, HasFields, Fields

\* A try that failed is repeated at the same step, or is over.
LEMMA RetriedShape ==
  ASSUME NEW t \in Threads, NEW got, HasFields(call[t])
  PROVE  /\ HasFields(Retried(t, got)) /\ Retried(t, got).adapter = call[t].adapter
         /\ \/ Retried(t, got).step \in {"record", "done"}
            \/ Retried(t, got).step = call[t].step /\ Retried(t, got).session = call[t].session
<1>1. CASE got = "network" /\ call[t].tries < MaxTries
  BY <1>1 DEF Retried, Again, HasFields, Fields
<1>2. CASE ~(got = "network" /\ call[t].tries < MaxTries)
  BY <1>2, SentShape DEF Retried
<1> QED
  BY <1>1, <1>2

\* A call begins, returns, gets its limiter and its token.
LEMMA TokenSteps ==
  ASSUME SInv, NEW t \in Threads,
         \/ \E a \in Adapters : Begin(t, a)
         \/ Return(t) \/ Bind(t) \/ Acquire(t) \/ AcquireAtOnce(t)
  PROVE  SInv'
<1>1. HasFields(call[t])
  BY DEF SInv, Shape
<1>2. AfterGrant \in {"wire", "ensure", "query"}
  BY CallAssumption DEF SInv, AfterGrant
<1>3. ASSUME NEW a \in Adapters, Begin(t, a) PROVE SInv'
  <2> DEFINE c == [Idle EXCEPT !.step = "bind", !.adapter = a, !.limiter = registered[a], !.tries = 1]
  <2>1. HasFields(c) /\ c.step = "bind" /\ c.adapter = a
    BY DEF Idle, HasFields, Fields
  <2>2. call' = [call EXCEPT ![t] = c] /\ UNCHANGED <<kind, mcp>>
    BY <1>3 DEF Begin, sessions
  <2> HIDE DEF c
  <2>3. Shape(c) /\ Reported(c, mcp'.notified)
    BY <2>1 DEF Shape, Reported
  <2> QED
    BY <2>2, <2>3, ThreadHolds DEF SInv, McpShape
<1>4. CASE Return(t)
  <2>1. HasFields(Idle) /\ Idle.step = "idle"
    BY DEF Idle, HasFields, Fields
  <2>2. call' = [call EXCEPT ![t] = Idle] /\ UNCHANGED <<kind, mcp>>
    BY <1>4 DEF Return, sessions
  <2>3. Shape(Idle) /\ Reported(Idle, mcp'.notified)
    BY <2>1 DEF Shape, Reported
  <2> QED
    BY <2>2, <2>3, ThreadHolds DEF SInv, McpShape
<1>5. CASE Bind(t)
  <2> DEFINE c == [call[t] EXCEPT !.step = "acquire", !.limiter = 0, !.left = Timeout]
  <2>1. HasFields(c) /\ c.step = "acquire" /\ c.adapter = call[t].adapter
    BY <1>1 DEF HasFields, Fields
  <2>2. call' = [call EXCEPT ![t] = c] /\ UNCHANGED <<kind, mcp>> /\ call[t].step # "idle"
    BY <1>5 DEF Bind, sessions
  <2> HIDE DEF c
  <2> QED
    BY <2>1, <2>2, PlainHolds
<1>6. CASE Acquire(t)
  <2> DEFINE b == Refilled(limiters[Limiter(t)])
             c == IF HasTokens(b) THEN [call[t] EXCEPT !.step = AfterGrant, !.limiter = 0, !.left = 0]
                  ELSE IF call[t].left = 0 THEN Ended(t, "timeout")
                  ELSE [call[t] EXCEPT !.limiter = Limiter(t), !.wake = Wait(b, call[t].left)]
  <2>1. call' = [call EXCEPT ![t] = c] /\ UNCHANGED <<kind, mcp>> /\ call[t].step = "acquire"
    BY <1>6 DEF Acquire, sessions
  <2> HIDE DEF b
  <2>2. HasFields(c) /\ c.step \in {"wire", "ensure", "query", "done", "acquire"} /\ c.adapter = call[t].adapter
    BY <1>1, <1>2, <2>1, SentShape DEF HasFields, Fields
  <2> HIDE DEF c
  <2> QED
    BY <2>1, <2>2, PlainHolds
<1>7. CASE AcquireAtOnce(t)
  <2> DEFINE c == [call[t] EXCEPT !.step = AfterGrant, !.left = 0]
  <2>1. call' = [call EXCEPT ![t] = c] /\ UNCHANGED <<kind, mcp>> /\ call[t].step = "acquire"
    BY <1>7 DEF AcquireAtOnce, sessions
  <2>2. HasFields(c) /\ c.step \in {"wire", "ensure", "query"} /\ c.adapter = call[t].adapter
    BY <1>1, <1>2 DEF HasFields, Fields
  <2> HIDE DEF c
  <2> QED
    BY <2>1, <2>2, PlainHolds
<1> QED
  BY <1>3, <1>4, <1>5, <1>6, <1>7

\* A request is answered, of which BaoStock's are made in its session.
LEMMA RequestSteps ==
  ASSUME SInv, NEW t \in Threads, Request(t) \/ Query(t)
  PROVE  SInv'
<1>1. HasFields(call[t])
  BY DEF SInv, Shape
<1>2. CASE Request(t)
  <2>1. PICK got : call' = [call EXCEPT ![t] = Sent(t, got)]
    BY <1>2 DEF Request
  <2>2. UNCHANGED <<kind, mcp>> /\ call[t].step # "idle"
    BY <1>2 DEF Request, sessions
  <2> QED
    BY <1>1, <2>1, <2>2, SentShape, PlainHolds
<1>3. CASE Query(t)
  <2>1. UNCHANGED <<kind, mcp>> /\ call[t].step = "query"
    BY <1>3 DEF Query
  <2>2. HasFields(Again(t)) /\ Again(t).step = "query" /\ Again(t).adapter = call[t].adapter
    BY <1>1, <2>1 DEF Again, HasFields, Fields
  <2>3. \/ call' = [call EXCEPT ![t] = Again(t)]
        \/ \E got \in {"ok", "source"} : call' = [call EXCEPT ![t] = Sent(t, got)]
    BY <1>3 DEF Query
  <2> QED
    BY <1>1, <2>1, <2>2, <2>3, SentShape, PlainHolds
<1> QED
  BY <1>2, <1>3

\* The ledger counts a call and sends its alerts.
LEMMA LedgerSteps ==
  ASSUME SInv, NEW t \in Threads, TakeLedger(t) \/ Alert(t) \/ Recorded(t)
  PROVE  SInv'
<1>1. HasFields(call[t])
  BY DEF SInv, Shape
<1>2. CASE TakeLedger(t)
  <2> DEFINE c == [call[t] EXCEPT !.step = "check",
                                  !.checks = IF call[t].step = "record" THEN Metrics ELSE @]
  <2>1. call' = [call EXCEPT ![t] = c] /\ UNCHANGED <<kind, mcp>> /\ call[t].step # "idle"
    BY <1>2 DEF TakeLedger, sessions
  <2>2. HasFields(c) /\ c.step = "check" /\ c.adapter = call[t].adapter
    BY <1>1 DEF HasFields, Fields
  <2> HIDE DEF c
  <2> QED
    BY <2>1, <2>2, PlainHolds
<1>3. CASE Alert(t)
  <2> DEFINE m == FirstOf(DueChecks(t))
             left == call[t].checks \ {m}
             returns == [call[t] EXCEPT !.checks = left]
             raises == [Ended(t, "other") EXCEPT !.checks = {}]
             asks == [call[t] EXCEPT !.step = "ask", !.checks = left]
  <2>1. UNCHANGED <<kind, mcp>> /\ call[t].step = "check"
    BY <1>3 DEF Alert, sessions
  <2>2. \/ call' = [call EXCEPT ![t] = returns]
        \/ call' = [call EXCEPT ![t] = raises]
        \/ call' = [call EXCEPT ![t] = asks]
    <3> HIDE DEF m
    <3>1. PICK does \in Callbacks :
            call' = [call EXCEPT ![t] = CASE does = "returns" -> returns
                                          [] does = "raises" -> raises
                                          [] does = "asks" -> asks]
      BY <1>3 DEF Alert, m
    <3>2. does \in {"returns", "raises", "asks"}
      BY CallAssumption
    <3> HIDE DEF returns, raises, asks
    <3> QED
      BY <3>1, <3>2
  <2> HIDE DEF left
  <2>3. /\ HasFields(returns) /\ returns.step = "check" /\ returns.adapter = call[t].adapter
        /\ HasFields(asks) /\ asks.step = "ask" /\ asks.adapter = call[t].adapter
    BY <1>1, <2>1 DEF HasFields, Fields
  <2>4. HasFields(raises) /\ raises.step = "done" /\ raises.adapter = call[t].adapter
    BY <1>1, SentShape DEF HasFields, Fields
  <2> HIDE DEF returns, raises, asks
  <2> QED
    BY <2>1, <2>2, <2>3, <2>4, PlainHolds
<1>4. CASE Recorded(t)
  <2> DEFINE c == [AfterRecord(t) EXCEPT !.checks = {}]
  <2>1. call' = [call EXCEPT ![t] = c] /\ UNCHANGED <<kind, mcp>> /\ call[t].step = "check"
    BY <1>4 DEF Recorded, sessions
  <2>2. HasFields(AfterRecord(t)) /\ AfterRecord(t).step \in {"acquire", "done"}
        /\ AfterRecord(t).adapter = call[t].adapter
    <3> DEFINE again == [call[t] EXCEPT !.step = "acquire", !.tries = @ + 1, !.left = Timeout, !.got = None, !.day = 0]
    <3>1. HasFields(again) /\ again.step = "acquire" /\ again.adapter = call[t].adapter
      BY <1>1 DEF HasFields, Fields
    <3>2. AfterRecord(t) = again \/ AfterRecord(t) = Ended(t, call[t].got)
      BY DEF AfterRecord
    <3> HIDE DEF again
    <3> QED
      BY <1>1, <3>1, <3>2, SentShape
  <2>3. HasFields(c) /\ c.step \in {"acquire", "done"} /\ c.adapter = call[t].adapter
    BY <2>2 DEF HasFields, Fields
  <2> HIDE DEF c
  <2> QED
    BY <2>1, <2>3, PlainHolds
<1> QED
  BY <1>2, <1>3, <1>4

\* An MCP client's session: looked at, opened, notified of, kept and used.
LEMMA McpSteps ==
  ASSUME SInv, NEW t \in Threads,
         EnsureSession(t) \/ Initialize(t) \/ Notify(t) \/ KeepSession(t) \/ CallTool(t)
  PROVE  SInv'
<1>1. HasFields(call[t]) /\ Reported(call[t], mcp.notified)
  BY DEF SInv, Shape
<1>2. McpShape /\ mcp.session \in mcp.notified \cup {None}
  BY DEF SInv
<1>3. call[t].step # "idle" => call[t].adapter \in Adapters
  BY DEF SInv, Shape
<1>4. CASE EnsureSession(t)
  <2> DEFINE fresh == mcp.session # None /\ mcp.age < SessionTtl
             c == [call[t] EXCEPT !.step = IF fresh THEN "tool" ELSE "initialize", !.session = mcp'.session]
  <2>1. mcp' = (IF fresh THEN mcp ELSE [mcp EXCEPT !.session = None, !.age = 0]) /\ kind' = kind
    BY <1>4 DEF EnsureSession
  <2>0. call' = [call EXCEPT ![t] = c] /\ call[t].step = "ensure"
    <3>1. call' = [call EXCEPT ![t].step = IF fresh THEN "tool" ELSE "initialize", ![t].session = mcp'.session]
      BY <1>4, Zenon DEF EnsureSession
    <3> QED
      BY <1>4, <3>1 DEF EnsureSession
  <2> HIDE DEF fresh
  <2>2. /\ McpShape' /\ mcp'.notified = mcp.notified
        /\ mcp'.session = IF fresh THEN mcp.session ELSE None
    BY <1>2, <2>1 DEF McpShape
  <2>3. /\ HasFields(c) /\ c.adapter = call[t].adapter /\ c.session = mcp'.session
        /\ c.step = IF fresh THEN "tool" ELSE "initialize"
    BY <1>1 DEF HasFields, Fields
  <2> HIDE DEF c
  <2>4. Shape(c) /\ Reported(c, mcp'.notified)
    BY <1>2, <1>3, <2>0, <2>1, <2>2, <2>3 DEF Shape, Reported
  <2> QED
    BY <1>2, <2>0, <2>1, <2>2, <2>4, ThreadHolds
<1>5. CASE Initialize(t)
  <2>1. kind' = kind /\ call[t].step = "initialize" /\ call[t].session = None
    BY <1>1, <1>5 DEF Initialize, Reported
  <2>2. ASSUME mcp' = [mcp EXCEPT !.opened = @ + 1],
               call' = [call EXCEPT ![t].step = "notify", ![t].session = mcp.opened + 1]
        PROVE  SInv'
    <3> DEFINE c == [call[t] EXCEPT !.step = "notify", !.session = mcp.opened + 1]
    <3>1. HasFields(c) /\ c.adapter = call[t].adapter /\ c.step = "notify"
      BY <1>1 DEF HasFields, Fields
    <3>2. call' = [call EXCEPT ![t] = c]
      BY <2>2
    <3> HIDE DEF c
    <3>3. McpShape' /\ mcp'.notified = mcp.notified /\ mcp'.session = mcp.session
      BY <1>2, <2>2 DEF McpShape
    <3>4. Shape(c) /\ Reported(c, mcp'.notified)
      BY <1>3, <2>1, <3>1 DEF Shape, Reported
    <3> QED
      BY <1>2, <2>1, <3>2, <3>3, <3>4, ThreadHolds
  <2>3. ASSUME mcp' = mcp, call' = [call EXCEPT ![t].step = "tool", ![t].tries = 1]
        PROVE  SInv'
    <3> DEFINE c == [call[t] EXCEPT !.step = "tool", !.tries = 1]
    <3>1. HasFields(c) /\ c.adapter = call[t].adapter /\ c.step = "tool" /\ c.session = call[t].session
      BY <1>1 DEF HasFields, Fields
    <3>2. call' = [call EXCEPT ![t] = c]
      BY <2>3
    <3> HIDE DEF c
    <3>3. Shape(c) /\ Reported(c, mcp'.notified)
      BY <1>3, <2>1, <3>1 DEF Shape, Reported
    <3> QED
      BY <1>2, <2>1, <2>3, <3>2, <3>3, ThreadHolds DEF McpShape
  <2>4. ASSUME mcp' = mcp, NEW got, call' = [call EXCEPT ![t] = Retried(t, got)]
        PROVE  SInv'
    <3>1. Shape(Retried(t, got)) /\ Reported(Retried(t, got), mcp'.notified)
      BY <1>1, <1>3, <2>1, RetriedShape DEF Shape, Reported
    <3> QED
      BY <1>2, <2>1, <2>4, <3>1, ThreadHolds DEF McpShape
  <2> QED
    BY <1>5, <2>2, <2>3, <2>4 DEF Initialize
<1>6. CASE Notify(t)
  <2> DEFINE c == [call[t] EXCEPT !.step = "keep"]
  <2>1. /\ mcp' = [mcp EXCEPT !.notified = @ \cup {call[t].session}] /\ kind' = kind
        /\ call' = [call EXCEPT ![t] = c] /\ call[t].step = "notify"
    BY <1>6 DEF Notify, limits
  <2>2. HasFields(c) /\ c.adapter = call[t].adapter /\ c.step = "keep" /\ c.session = call[t].session
    BY <1>1 DEF HasFields, Fields
  <2> HIDE DEF c
  <2>3. McpShape' /\ mcp'.notified = mcp.notified \cup {call[t].session} /\ mcp'.session = mcp.session
    BY <1>2, <2>1 DEF McpShape
  <2>4. Shape(c) /\ Reported(c, mcp'.notified)
    BY <1>3, <2>1, <2>2, <2>3 DEF Shape, Reported
  <2> QED
    BY <1>2, <2>1, <2>3, <2>4, ThreadHolds
<1>7. CASE KeepSession(t)
  <2> DEFINE c == [call[t] EXCEPT !.step = "tool", !.tries = 1]
  <2>1. /\ mcp' = [mcp EXCEPT !.session = call[t].session, !.age = 0] /\ kind' = kind
        /\ call' = [call EXCEPT ![t] = c] /\ call[t].step = "keep" /\ call[t].session \in mcp.notified
    BY <1>1, <1>7 DEF KeepSession, limits, Reported
  <2>2. HasFields(c) /\ c.adapter = call[t].adapter /\ c.step = "tool" /\ c.session = call[t].session
    BY <1>1 DEF HasFields, Fields
  <2> HIDE DEF c
  <2>3. McpShape' /\ mcp'.notified = mcp.notified /\ mcp'.session = call[t].session
    BY <1>2, <2>1 DEF McpShape
  <2>4. Shape(c) /\ Reported(c, mcp'.notified)
    BY <1>3, <2>1, <2>2, <2>3 DEF Shape, Reported
  <2> QED
    BY <2>1, <2>3, <2>4, ThreadHolds
<1>8. CASE CallTool(t)
  <2>1. PICK got : call' = [call EXCEPT ![t] = Retried(t, got)]
    BY <1>8 DEF CallTool
  <2>2. UNCHANGED <<kind, mcp>> /\ call[t].step = "tool"
    BY <1>8 DEF CallTool, sessions
  <2>3. Shape(Retried(t, got)) /\ Reported(Retried(t, got), mcp'.notified)
    BY <1>1, <1>3, <2>2, RetriedShape DEF Shape, Reported
  <2> QED
    BY <1>2, <2>1, <2>2, <2>3, ThreadHolds DEF McpShape
<1> QED
  BY <1>4, <1>5, <1>6, <1>7, <1>8

\* Time passes for every thread.
LEMMA TickHolds == SInv /\ Tick => SInv'
<1> SUFFICES ASSUME SInv, Tick PROVE SInv'
  OBVIOUS
<1>1. ASSUME NEW t \in Threads PROVE Shape(call[t])' /\ Reported(call[t], mcp.notified)'
  <2> DEFINE c == [call[t] EXCEPT !.wake = Earlier(@), !.left = Earlier(@)]
  <2>1. HasFields(call[t]) /\ Reported(call[t], mcp.notified) /\ (call[t].step # "idle" => call[t].adapter \in Adapters)
    BY DEF SInv, Shape
  <2>2. call'[t] = c
    BY DEF Tick
  <2>3. HasFields(c) /\ c.step = call[t].step /\ c.adapter = call[t].adapter /\ c.session = call[t].session
    BY <2>1 DEF HasFields, Fields
  <2> HIDE DEF c
  <2>4. mcp'.notified = mcp.notified /\ kind' = kind
    BY DEF Tick, SInv, McpShape
  <2> QED
    BY <2>1, <2>2, <2>3, <2>4 DEF Shape, Reported, HasFields, Adapters
<1>2. call' = [t \in Threads |-> call'[t]]
  BY DEF Tick
<1>3. McpShape' /\ mcp'.session = mcp.session /\ mcp'.notified = mcp.notified /\ kind' = kind
  BY DEF Tick, SInv, McpShape
<1> QED
  BY <1>1, <1>2, <1>3 DEF SInv
-----------------------------------------------------------------------------
\* Only existing adapters are in the session.
LEMMA MembersFinite ==
  ASSUME NEW s
  PROVE  IsFiniteSet(Members(s))
<1>1. IsFiniteSet(Adapters)
  <2>1. 1 \in Nat /\ Hubs \in Nat
    BY CallAssumption
  <2>2. IsFiniteSet(1..Hubs)
    BY <2>1, FS_Interval
  <2>3. IsFiniteSet({1})
    BY FS_Singleton
  <2> QED
    BY <2>2, <2>3 DEF Adapters
<1>2. Members(s) \subseteq Adapters
  BY DEF Members
<1> QED
  BY <1>1, <1>2, FS_Subset

\* An adapter that logs in is counted once.
LEMMA JoinedGood ==
  ASSUME Good(bs), NEW a \in Adapters
  PROVE  Good(Joined(bs, a))
<1>1. CASE InSession(a)
  BY <1>1 DEF Joined
<1>2. CASE ~InSession(a)
  <2> DEFINE one == [bs.of[a] EXCEPT !.acquired = TRUE, !.session = "current"]
             of == [bs.of EXCEPT ![a] = one]
             s == [count |-> bs.count + 1, loggedIn |-> TRUE, of |-> of]
  <2>1. one \in Has /\ one.acquired /\ one.session = "current"
    BY DEF Good, Sessions, Has
  <2>2. Joined(bs, a) = s
    BY <1>2 DEF Joined, Good, Sessions, Has
  <2> HIDE DEF one
  <2>3. of \in [Adapters -> Has] /\ \A b \in Adapters : of[b] = IF b = a THEN one ELSE bs.of[b]
    BY <2>1 DEF Good, Sessions
  <2> HIDE DEF of
  <2>4. s \in Sessions /\ s.count = bs.count + 1 /\ s.loggedIn /\ s.of = of
    BY <2>3 DEF Good, Sessions
  <2> HIDE DEF s
  <2>5. Members(s) = Members(bs) \cup {a} /\ a \notin Members(bs)
    BY <1>2, <2>1, <2>3, <2>4 DEF Members, InSession
  <2>6. Cardinality(Members(s)) = Cardinality(Members(bs)) + 1
    BY <2>5, MembersFinite, FS_AddElement
  <2> QED
    BY <2>2, <2>4, <2>6 DEF Good
<1> QED
  BY <1>1, <1>2

\* An invalidated session has no members.
LEMMA InvalidatedGood ==
  ASSUME NEW s \in Sessions, NEW a \in Adapters
  PROVE  Good(Invalidated(s, a))
<1> DEFINE u == Invalidated(s, a)
           now(b) == CASE b = a -> "none"
                       [] b # a /\ s.of[b].session = "current" -> "old"
                       [] OTHER -> s.of[b].session
           one(b) == [s.of[b] EXCEPT !.session = now(b)]
<1>1. ASSUME NEW b \in Adapters PROVE one(b) \in Has /\ one(b).session # "current"
  <2>1. s.of[b] \in Has /\ now(b) \in {"none", "old", s.of[b].session} /\ now(b) # "current"
    BY DEF Sessions, Has
  <2> HIDE DEF now
  <2> QED
    BY <2>1 DEF Has
<1>2. u = [s EXCEPT !.count = 0, !.of = [b \in Adapters |-> one(b)]]
  BY DEF Invalidated
<1> HIDE DEF one, u
<1>3. u \in Sessions /\ u.count = 0 /\ \A b \in Adapters : u.of[b] = one(b)
  BY <1>1, <1>2 DEF Sessions
<1>4. Members(u) = {}
  BY <1>1, <1>3 DEF Members
<1>5. Good(u)
  BY <1>3, <1>4, FS_EmptySet DEF Good
<1> QED
  BY <1>5 DEF u

\* An adapter that closes is counted off if it is in the session.
LEMMA CloseGood ==
  ASSUME Good(bs), NEW a \in Adapters, Close(a)
  PROVE  Good(bs')
<1> DEFINE one == [acquired |-> bs.of[a].acquired /\ ~InSession(a), session |-> "none", closed |-> TRUE]
           of == [bs.of EXCEPT ![a] = one]
           n == IF InSession(a) /\ bs.count > 0 THEN bs.count - 1 ELSE bs.count
           on == IF InSession(a) /\ bs.count <= 1 THEN FALSE ELSE bs.loggedIn
<1>1. bs \in Sessions /\ bs.count = Cardinality(Members(bs)) /\ (bs.count > 0 => bs.loggedIn)
  BY DEF Good
<1>2. bs' = [bs EXCEPT !.of = of, !.count = n, !.loggedIn = on]
  BY DEF Close
<1>3. one \in Has /\ one.session = "none"
  BY DEF Has
<1>4. n \in Nat /\ on \in BOOLEAN
  <2>1. bs.count \in Nat /\ bs.loggedIn \in BOOLEAN
    BY <1>1 DEF Sessions
  <2>2. n \in Nat
    BY <2>1
  <2>3. on \in BOOLEAN
    BY <2>1, Zenon
  <2> QED
    BY <2>2, <2>3
<1> HIDE DEF one, n, on
<1>5. of \in [Adapters -> Has] /\ \A b \in Adapters : of[b] = IF b = a THEN one ELSE bs.of[b]
  BY <1>1, <1>3 DEF Sessions
<1> HIDE DEF of
<1>6. bs' \in Sessions /\ bs'.count = n /\ bs'.loggedIn = on /\ bs'.of = of
  BY <1>1, <1>2, <1>4, <1>5 DEF Sessions
<1>7. Members(bs') = Members(bs) \ {a} /\ (InSession(a) <=> a \in Members(bs))
  BY <1>3, <1>5, <1>6 DEF Members, InSession
<1>8. CASE InSession(a)
  <2>1. Cardinality(Members(bs) \ {a}) = Cardinality(Members(bs)) - 1
    BY <1>7, <1>8, MembersFinite, FS_RemoveElement
  <2>2. bs.count \in Nat /\ bs.count # 0
    BY <1>1, <1>7, <1>8, MembersFinite, FS_EmptySet DEF Sessions
  <2>3. n = bs.count - 1
    BY <1>8, <2>2 DEF n
  <2>4. n > 0 => ~(bs.count <= 1)
    BY <2>2, <2>3
  <2>5. ~(bs.count <= 1) => on = bs.loggedIn
    BY Zenon DEF on
  <2> QED
    BY <1>1, <1>6, <1>7, <2>1, <2>2, <2>3, <2>4, <2>5 DEF Good
<1>9. CASE ~InSession(a)
  <2>1. Members(bs) \ {a} = Members(bs)
    BY <1>7, <1>9
  <2>2. n = bs.count /\ on = bs.loggedIn
    BY <1>9 DEF n, on
  <2> QED
    BY <1>1, <1>6, <1>7, <2>1, <2>2 DEF Good
<1> QED
  BY <1>8, <1>9

\* A query joins the session, or finds it lost.
LEMMA QueryGood ==
  ASSUME SInv, Good(bs), NEW t \in Threads, Query(t)
  PROVE  Good(bs')
<1> DEFINE a == call[t].adapter
<1>1. a \in Adapters
  BY DEF SInv, Shape, Query
<1>2. \/ bs' = Invalidated(bs, a) \/ bs' = Joined(bs, a) \/ bs' = Invalidated(Joined(bs, a), a)
  BY DEF Query
<1> HIDE DEF a
<1>3. bs \in Sessions /\ Joined(bs, a) \in Sessions
  BY <1>1, JoinedGood DEF Good
<1> QED
  BY <1>1, <1>2, <1>3, JoinedGood, InvalidatedGood

\* No other step touches BaoStock's module.
LEMMA OthersKeepBs ==
  ASSUME [Next]_vars, \A t \in Threads : ~Query(t), \A a \in Adapters : ~Close(a)
  PROVE  bs' = bs
BY DEF Next, Step, vars, sessions, Begin, Return, Bind, Acquire, AcquireAtOnce, Request, EnsureSession, Initialize,
       Notify, KeepSession, CallTool, TakeLedger, Alert, Recorded, Tick, Midnight

\* Every step keeps the invariant.
LEMMA StepHolds == CallInv /\ [Next]_vars => CallInv'
<1> SUFFICES ASSUME CallInv, [Next]_vars PROVE CallInv'
  OBVIOUS
<1>1. SInv /\ Good(bs)
  BY DEF CallInv
<1>2. SInv'
  <2>1. CASE \E t \in Threads, a \in Adapters : Begin(t, a)
    BY <1>1, <2>1, TokenSteps
  <2>2. CASE \E t \in Threads : Step(t) \/ Return(t)
    BY <1>1, <2>2, TokenSteps, RequestSteps, LedgerSteps, McpSteps DEF Step
  <2>3. CASE \E a \in Adapters : Close(a)
    BY <1>1, <2>3 DEF Close, SInv, McpShape, Shape, Reported, HasFields, Adapters
  <2>4. CASE Tick
    BY <1>1, <2>4, TickHolds
  <2>5. CASE Midnight \/ UNCHANGED vars
    BY <1>1, <2>5 DEF Midnight, vars, sessions, SInv, McpShape, Shape, Reported, HasFields, Adapters
  <2> QED
    BY <2>1, <2>2, <2>3, <2>4, <2>5 DEF Next
<1>3. Good(bs)'
  <2>1. kind' = kind
    BY DEF Next, Step, vars, Begin, Return, Bind, Acquire, AcquireAtOnce, Request, EnsureSession, Initialize, Query,
           Notify, KeepSession, CallTool, TakeLedger, Alert, Recorded, Tick, Midnight, Close
  <2>2. Good(bs')
    BY <1>1, QueryGood, CloseGood, OthersKeepBs
  <2> QED
    BY <2>1, <2>2 DEF Good, Sessions, Members, Adapters
<1> QED
  BY <1>2, <1>3 DEF CallInv
-----------------------------------------------------------------------------
\* Every reachable state satisfies the inductive invariant.
THEOREM SessionsHeld == Spec => []CallInv
BY InitHolds, StepHolds, PTL DEF Spec

\* No thread calls a tool in a session whose handshake the client has not gone
\* through to its notification, whoever opened it, and whether or not the server
\* got it (client.py: _ensure_session, call_tool).
THEOREM HandshakesFirst == Spec => []HandshakeFirst
<1>1. CallInv => HandshakeFirst
  BY DEF CallInv, SInv, Reported, HandshakeFirst
<1> QED
  BY <1>1, SessionsHeld, PTL

\* The count of BaoStock's logins is that of the adapters in its session, and
\* the module is logged in while there is one, for any number of adapters
\* (baostock.py: _ensure_login, _invalidate_session, close).
THEOREM LoginsCounted == Spec => []SessionCounted
<1>1. CallInv => SessionCounted
  <2> SUFFICES ASSUME CallInv PROVE SessionCounted
    OBVIOUS
  <2>1. Members(bs) = {a \in Adapters : InSession(a)}
    BY DEF Members, InSession
  <2> QED
    BY <2>1 DEF CallInv, Good, SessionCounted
<1> QED
  BY <1>1, SessionsHeld, PTL
-----------------------------------------------------------------------------
(* The limiters *)

Bucket == [tokens : 0..Capacity, idle : Nat, within : [1..Span -> Nat]]

\* What a look at a bucket would find in it.
Inside(b) == AtMost(b.tokens + b.idle * Rate, Capacity)

\* What a bucket granted, with what it has, is no more than came in.
Balanced(b) ==
  b \in Bucket /\ \A n \in 1..Span : Cost * b.within[n] + Inside(b) <= Capacity + Rate * (n - 1)

BucketsInv == limiters \in Seq({b \in Bucket : Balanced(b)})

\* A new bucket has its burst and granted nothing.
LEMMA NewBalanced == Balanced(NewBucket)
<1>1. /\ Capacity \in Nat /\ Cost \in Nat /\ Rate \in Nat /\ Span \in Nat
  BY RateAssumption
<1>2. NewBucket \in Bucket /\ NewBucket.tokens = Capacity /\ NewBucket.idle = 0
  BY <1>1 DEF NewBucket, Bucket
<1>3. Inside(NewBucket) = Capacity
  <2>1. 0 * Rate = 0
    BY <1>1
  <2> QED
    BY <1>1, <1>2, <2>1 DEF Inside, AtMost
<1>4. ASSUME NEW n \in 1..Span
      PROVE  Cost * NewBucket.within[n] + Inside(NewBucket) <= Capacity + Rate * (n - 1)
  <2>1. NewBucket.within[n] = 0 /\ Cost * 0 = 0
    BY <1>1 DEF NewBucket
  <2>2. Rate * (n - 1) \in Nat
    BY <1>1
  <2> QED
    BY <1>1, <1>3, <2>1, <2>2
<1> QED
  BY <1>2, <1>4 DEF Balanced

\* A look at a bucket leaves what it finds.
LEMMA RefilledBalanced ==
  ASSUME NEW b, Balanced(b)
  PROVE  Balanced(Refilled(b)) /\ Refilled(b).idle = 0
<1>1. /\ Capacity \in Nat /\ Rate \in Nat
  BY RateAssumption
<1>2. b \in Bucket /\ b.tokens \in 0..Capacity /\ b.idle \in Nat /\ b.idle * Rate \in Nat
  BY <1>1 DEF Balanced, Bucket
<1> DEFINE r == Refilled(b)
<1>3. Inside(b) \in Nat /\ Inside(b) <= Capacity
  BY <1>1, <1>2 DEF Inside, AtMost
<1>4. r = [b EXCEPT !.tokens = Inside(b), !.idle = 0]
  BY DEF Refilled, Inside
<1>5. r \in Bucket /\ r.tokens = Inside(b) /\ r.idle = 0 /\ r.within = b.within
  <2> DEFINE x == Inside(b)
  <2>1. x \in 0..Capacity
    BY <1>1, <1>3
  <2>2. r = [b EXCEPT !.tokens = x, !.idle = 0]
    BY <1>4
  <2> HIDE DEF x, r
  <2>3. r \in Bucket /\ r.tokens = x /\ r.idle = 0 /\ r.within = b.within
    BY <1>2, <2>1, <2>2 DEF Bucket
  <2> QED
    BY <2>3 DEF x
<1> HIDE DEF r
<1>6. Inside(r) = Inside(b)
  <2>1. 0 * Rate = 0
    BY <1>1
  <2>2. Inside(r) = AtMost(Inside(b) + 0, Capacity)
    BY <1>5, <2>1 DEF Inside
  <2> HIDE DEF Inside
  <2> QED
    BY <1>1, <1>3, <2>2 DEF AtMost
<1>7. Balanced(r)
  BY <1>5, <1>6 DEF Balanced
<1> QED
  BY <1>5, <1>7 DEF r

\* A grant takes what it counts.
LEMMA GrantedBalanced ==
  ASSUME NEW b, Balanced(b), b.idle = 0, HasTokens(b)
  PROVE  Balanced(Granted(b))
<1>1. /\ Capacity \in Nat /\ Cost \in Nat /\ Rate \in Nat /\ Span \in Nat
  BY RateAssumption
<1>2. b \in Bucket /\ b.tokens \in 0..Capacity /\ b.tokens >= Cost
  BY DEF Balanced, Bucket, HasTokens
<1> DEFINE g == Granted(b)
           within == [n \in 1..Span |-> b.within[n] + 1]
<1>3. within \in [1..Span -> Nat] /\ \A n \in 1..Span : within[n] = b.within[n] + 1
  <2>1. b.within \in [1..Span -> Nat]
    BY <1>2 DEF Bucket
  <2>2. \A n \in 1..Span : b.within[n] + 1 \in Nat
    <3>1. \A k \in Nat : k + 1 \in Nat
      OBVIOUS
    <3> QED
      BY <2>1, <3>1
  <2> QED
    BY <2>2
<1>4. g = [b EXCEPT !.tokens = b.tokens - Cost, !.within = within]
  BY DEF Granted
<1> HIDE DEF within
<1>5. g \in Bucket /\ g.tokens = b.tokens - Cost /\ g.idle = 0 /\ g.within = within
  <2> DEFINE x == b.tokens - Cost
  <2>1. x \in 0..Capacity /\ g = [b EXCEPT !.tokens = x, !.within = within]
    BY <1>1, <1>2, <1>4
  <2> HIDE DEF x, g
  <2>2. g \in Bucket /\ g.tokens = x /\ g.idle = b.idle /\ g.within = within
    BY <1>2, <1>3, <2>1 DEF Bucket
  <2> QED
    BY <2>2 DEF x
<1> HIDE DEF g
<1>6. Inside(b) = AtMost(b.tokens, Capacity) /\ Inside(g) = AtMost(b.tokens - Cost, Capacity)
  <2>1. 0 * Rate = 0
    BY <1>1
  <2> QED
    BY <1>1, <1>2, <1>5, <2>1 DEF Inside
<1>7. ASSUME NEW n \in 1..Span
      PROVE  Cost * g.within[n] + Inside(g) <= Capacity + Rate * (n - 1)
  <2>1. b.within[n] \in Nat /\ g.within[n] = b.within[n] + 1
    BY <1>2, <1>3, <1>5 DEF Bucket
  <2>2. Cost * g.within[n] = Cost * b.within[n] + Cost
    BY <1>1, <2>1
  <2>3. Cost * b.within[n] \in Nat /\ Rate * (n - 1) \in Nat
    BY <1>1, <2>1
  <2>4. Cost * b.within[n] + Inside(b) <= Capacity + Rate * (n - 1)
    BY DEF Balanced
  <2>5. Inside(b) = b.tokens /\ Inside(g) = b.tokens - Cost
    BY <1>1, <1>2, <1>6 DEF AtMost
  <2> QED
    BY <1>1, <1>2, <2>2, <2>3, <2>4, <2>5
<1>8. Balanced(g)
  BY <1>5, <1>7 DEF Balanced
<1> QED
  BY <1>8 DEF g

\* A tick brings no more than the rate.
LEMMA AgedBalanced ==
  ASSUME NEW b, Balanced(b)
  PROVE  Balanced(Aged(b))
<1>1. /\ Capacity \in Nat /\ Cost \in Nat /\ Rate \in Nat \ {0} /\ Span \in Nat
  BY RateAssumption
<1>2. b \in Bucket /\ b.tokens \in 0..Capacity /\ b.idle \in Nat
  BY DEF Balanced, Bucket
<1> DEFINE a == Aged(b)
           within == [n \in 1..Span |-> IF n = 1 THEN 0 ELSE b.within[n - 1]]
           idle == AtMost(b.idle + 1, TicksFor(Capacity))
<1>3. within \in [1..Span -> Nat]
  BY <1>1, <1>2 DEF Bucket
<1>4. idle \in Nat /\ idle <= b.idle + 1
  <2>1. Capacity + Rate - 1 \in Nat
    BY <1>1
  <2>2. TicksFor(Capacity) \in Nat
    BY <1>1, <2>1 DEF TicksFor
  <2> QED
    BY <1>2, <2>2 DEF AtMost
<1>5. a = [b EXCEPT !.idle = idle, !.within = within]
  BY DEF Aged
<1>6. \A n \in 1..Span : within[n] = IF n = 1 THEN 0 ELSE b.within[n - 1]
  OBVIOUS
<1> HIDE DEF within, idle
<1>7. a \in Bucket /\ a.tokens = b.tokens /\ a.idle = idle /\ a.within = within
  BY <1>2, <1>3, <1>4, <1>5 DEF Bucket
<1> HIDE DEF a
<1>8. Inside(a) \in Nat /\ Inside(a) <= Capacity /\ Inside(a) <= Inside(b) + Rate /\ Inside(b) \in Nat
  <2>1. b.idle * Rate \in Nat /\ idle * Rate \in Nat
    BY <1>1, <1>2, <1>4
  <2>2. idle * Rate <= b.idle * Rate + Rate
    <3>1. (b.idle + 1) * Rate = b.idle * Rate + Rate
      BY <1>1, <1>2
    <3>2. idle * Rate <= (b.idle + 1) * Rate
      <4>1. PICK k \in Nat : b.idle + 1 = idle + k
        <5> DEFINE k == (b.idle + 1) - idle
        <5>1. k \in Nat /\ b.idle + 1 = idle + k
          BY <1>2, <1>4
        <5> QED
          BY <5>1
      <4>2. (idle + k) * Rate = idle * Rate + k * Rate /\ k * Rate \in Nat
        BY <1>1, <1>4
      <4> QED
        BY <2>1, <4>1, <4>2
    <3> QED
      BY <3>1, <3>2
  <2>3. Inside(a) = AtMost(b.tokens + idle * Rate, Capacity)
    BY <1>7 DEF Inside
  <2> QED
    BY <1>1, <1>2, <2>1, <2>2, <2>3 DEF Inside, AtMost
<1>9. ASSUME NEW n \in 1..Span
      PROVE  Cost * a.within[n] + Inside(a) <= Capacity + Rate * (n - 1)
  <2>1. CASE n = 1
    <3>1. a.within[n] = 0 /\ Cost * 0 = 0 /\ Rate * (n - 1) = 0
      BY <1>1, <1>6, <1>7, <2>1
    <3> QED
      BY <1>1, <1>8, <3>1
  <2>2. CASE n # 1
    <3> DEFINE k == n - 1
    <3>1. k \in 1..Span /\ a.within[n] = b.within[k] /\ b.within[k] \in Nat
      BY <1>1, <1>2, <1>6, <1>7, <2>2 DEF Bucket
    <3>2. Cost * b.within[k] + Inside(b) <= Capacity + Rate * (k - 1)
      BY <3>1 DEF Balanced
    <3>3. Rate * k = Rate * (k - 1) + Rate
      BY <1>1, <3>1
    <3>4. Cost * b.within[k] \in Nat /\ Rate * (k - 1) \in Nat
      BY <1>1, <3>1
    <3> HIDE DEF k
    <3>5. Cost * b.within[k] + Inside(a) <= Capacity + Rate * k
      BY <1>1, <1>8, <3>2, <3>3, <3>4
    <3> QED
      BY <3>1, <3>5 DEF k
  <2> QED
    BY <2>1, <2>2
<1>10. Balanced(a)
  BY <1>7, <1>9 DEF Balanced
<1> QED
  BY <1>10 DEF a

\* Every step keeps the limiters balanced.
LEMMA BucketsHold == BucketsInv /\ [Next]_vars => BucketsInv'
<1> SUFFICES ASSUME BucketsInv, [Next]_vars PROVE BucketsInv'
  OBVIOUS
<1> DEFINE B == {b \in Bucket : Balanced(b)}
<1>0. limiters \in Seq(B)
  BY DEF BucketsInv
<1>1. \A b : b \in B <=> Balanced(b)
  BY DEF Balanced
<1> HIDE DEF B
<1>2. ASSUME NEW t \in Threads, Bind(t) PROVE limiters' \in Seq(B)
  <2>1. NewBucket \in B
    BY <1>1, NewBalanced
  <2> QED
    BY <1>0, <1>2, <2>1 DEF Bind
<1>3. ASSUME NEW t \in Threads, Acquire(t) PROVE limiters' \in Seq(B)
  <2> DEFINE l == Limiter(t)
             b == Refilled(limiters[l])
             c == IF HasTokens(b) THEN Granted(b) ELSE b
  <2>1. limiters' = [limiters EXCEPT ![l] = c]
    BY <1>3 DEF Acquire
  <2>2. CASE l \in DOMAIN limiters
    <3>1. Balanced(limiters[l])
      BY <1>0, <1>1, <2>2
    <3>2. c \in B
      BY <1>1, <3>1, RefilledBalanced, GrantedBalanced
    <3> HIDE DEF c, l
    <3> QED
      BY <1>0, <2>1, <2>2, <3>2
  <2>3. CASE l \notin DOMAIN limiters
    <3> HIDE DEF c, l
    <3>1. limiters' = limiters
      BY <1>0, <2>1, <2>3
    <3> QED
      BY <1>0, <3>1
  <2> QED
    BY <2>2, <2>3
<1>4. ASSUME Tick PROVE limiters' \in Seq(B)
  <2>1. \A l \in DOMAIN limiters : Aged(limiters[l]) \in B
    BY <1>0, <1>1, AgedBalanced
  <2>2. limiters' = [l \in 1..Len(limiters) |-> Aged(limiters[l])]
    <3>1. DOMAIN limiters = 1..Len(limiters)
      BY <1>0
    <3> QED
      BY <1>4, <3>1 DEF Tick
  <2> QED
    BY <1>0, <2>1, <2>2
<1>5. ASSUME \A t \in Threads : ~Bind(t) /\ ~Acquire(t), ~Tick PROVE limiters' = limiters
  BY <1>5 DEF Next, Step, vars, limits, Begin, Return, AcquireAtOnce, Request, EnsureSession, Initialize, Query,
              Notify, KeepSession, CallTool, TakeLedger, Alert, Recorded, Midnight, Close
<1>6. limiters' \in Seq(B)
  BY <1>0, <1>2, <1>3, <1>4, <1>5
<1> QED
  BY <1>6 DEF BucketsInv, B

\* Whatever its threads do, a limiter grants over any stretch of time no more than
\* its burst and what its rate brings (ratelimit.py: RateLimiter).
THEOREM GrantsWithinRate == Spec => []RateBound
<1>1. Init => BucketsInv
  <2> DEFINE B == {b \in Bucket : Balanced(b)}
  <2> SUFFICES ASSUME Init PROVE limiters \in Seq(B)
    BY DEF BucketsInv
  <2>1. NewBucket \in B
    BY NewBalanced DEF Balanced
  <2> HIDE DEF B
  <2>2. PICK n \in Nat : Adapters = 1..n
    <3>1. Hubs \in Nat /\ 1 \in Nat /\ {1} = 1..1
      BY CallAssumption
    <3> QED
      BY <3>1 DEF Adapters
  <2> QED
    BY <2>1, <2>2 DEF Init
<1>2. BucketsInv => RateBound
  <2> SUFFICES ASSUME BucketsInv, NEW l \in DOMAIN limiters PROVE WithinRate(limiters[l])
    BY DEF RateBound
  <2> DEFINE b == limiters[l]
  <2>1. Balanced(b)
    BY DEF BucketsInv, Balanced
  <2>2. /\ Capacity \in Nat /\ Cost \in Nat /\ Rate \in Nat
    BY RateAssumption
  <2> HIDE DEF b
  <2>3. b.tokens \in Nat /\ b.idle \in Nat /\ b.idle * Rate \in Nat
    BY <2>1, <2>2 DEF Balanced, Bucket
  <2>4. Inside(b) \in Nat
    BY <2>2, <2>3 DEF Inside, AtMost, Balanced, Bucket
  <2>5. ASSUME NEW n \in 1..Span PROVE Cost * b.within[n] <= Capacity + Rate * (n - 1)
    <3>1. b.within[n] \in Nat /\ Cost * b.within[n] + Inside(b) <= Capacity + Rate * (n - 1)
      BY <2>1 DEF Balanced, Bucket
    <3>2. Cost * b.within[n] \in Nat /\ Rate * (n - 1) \in Nat
      BY <2>2, <3>1
    <3> QED
      BY <2>2, <2>4, <3>1, <3>2
  <2> QED
    BY <2>5 DEF WithinRate, b
<1> QED
  BY <1>1, <1>2, BucketsHold, PTL DEF Spec
-----------------------------------------------------------------------------
(* The ledger *)

Alerts == [day : Days, metric : Metrics, level : {"warn", "exceeded"}]
Usage == [calls : [Days -> Nat], fired : SUBSET Alerts, alerts : Seq(Alerts)]

Exceeded(d, m) == [day |-> d, metric |-> m, level |-> "exceeded"]
Reached(u, d, m) == Limits[m] > 0 /\ Value(u, d, m) >= Limits[m]

\* The steps of a thread that holds the ledger's lock, and those between a
\* token and its record.
Locked == {"check", "ask"}
Pending == {"wire", "ensure", "initialize", "notify", "keep", "tool", "query", "record"}

\* A thread counts under a day, and it is the one with the lock that checks.
Booking(t, c) ==
  /\ c.step \in Locked \cup {"record"} => c.day \in Days
  /\ c.step \in Locked <=> holder = t
  /\ c.checks \subseteq Metrics

\* The thread with the lock has metric m of day d still to check.
ToCheck(d, m) == \E t \in Threads : holder = t /\ call[t].day = d /\ m \in call[t].checks

TokensAccounted ==
  kind \in Limited \cap Metered => granted = usage.calls[1] + usage.calls[2] + Cardinality(Unrecorded)

AlertsOnce == IsFiniteSet(usage.fired) /\ Cardinality(usage.fired) = Len(usage.alerts)

AlertsDue ==
  \A d \in Days, m \in Metrics :
    /\ Exceeded(d, m) \in usage.fired => Reached(usage, d, m)
    /\ Reached(usage, d, m) => Exceeded(d, m) \in usage.fired \/ d \in raised \/ ToCheck(d, m)

LedgerInv ==
  /\ today \in Days /\ granted \in Nat /\ holder \in Threads \cup {None} /\ usage \in Usage
  /\ \A t \in Threads : Booking(t, call[t])
  /\ TokensAccounted /\ AlertsOnce /\ AlertsDue

\* What counting a call does to the value of a metric.
LEMMA CountedFacts ==
  ASSUME NEW u \in Usage, NEW day \in Days
  PROVE  /\ Counted(u, day) \in Usage
         /\ Counted(u, day).fired = u.fired /\ Counted(u, day).alerts = u.alerts
         /\ \A d \in Days : Counted(u, day).calls[d] = IF d = day THEN u.calls[d] + 1 ELSE u.calls[d]
<1> DEFINE counts == [u.calls EXCEPT ![day] = @ + 1]
<1>1. u.calls \in [Days -> Nat]
  BY DEF Usage
<1>2. counts \in [Days -> Nat] /\ \A d \in Days : counts[d] = IF d = day THEN u.calls[d] + 1 ELSE u.calls[d]
  BY <1>1
<1>3. Counted(u, day) = [u EXCEPT !.calls = counts]
  BY DEF Counted
<1> HIDE DEF counts
<1> QED
  BY <1>2, <1>3 DEF Usage

\* A level once reached stays reached.
LEMMA ReachedStays ==
  ASSUME NEW u \in Usage, NEW day \in Days, NEW d \in Days, NEW m \in Metrics, Reached(u, d, m)
  PROVE  Reached(Counted(u, day), d, m)
<1> DEFINE n == u.calls[d]
           k == Counted(u, day).calls[d]
<1>1. n \in Nat /\ k \in {n, n + 1}
  BY CountedFacts DEF Usage
<1>2. Value(u, d, m) = (IF m = "calls" THEN n ELSE UnitCost * n)
  BY DEF Value
<1>3. Value(Counted(u, day), d, m) = (IF m = "calls" THEN k ELSE UnitCost * k)
  BY DEF Value
<1> HIDE DEF n, k
<1>4. UnitCost \in Nat /\ Limits[m] \in Nat
  BY LedgerAssumption
<1>5. UnitCost * (n + 1) = UnitCost * n + UnitCost /\ UnitCost * n \in Nat
  BY <1>1, <1>4
<1>6. Value(Counted(u, day), d, m) >= Value(u, d, m)
  BY <1>1, <1>2, <1>3, <1>4, <1>5
<1>7. Value(u, d, m) \in Nat /\ Value(Counted(u, day), d, m) \in Nat
  BY <1>1, <1>2, <1>3, <1>4, <1>5
<1> QED
  BY <1>4, <1>6, <1>7 DEF Reached

\* What is due in a metric of a day.
LEMMA DueFacts ==
  ASSUME NEW u \in Usage, NEW d \in Days, NEW m \in Metrics
  PROVE  /\ Due(u, d, m) \subseteq Alerts \ u.fired
         /\ Reached(u, d, m) => Due(u, d, m) = {Exceeded(d, m)} \ u.fired
         /\ \A day \in Days, n \in Metrics :
              Exceeded(day, n) \in Due(u, d, m) => day = d /\ n = m /\ Reached(u, d, m)
<1>1. Value(u, d, m) \in Nat /\ Limits[m] \in Nat
  <2>1. u.calls[d] \in Nat /\ UnitCost \in Nat
    BY LedgerAssumption DEF Usage
  <2>2. UnitCost * u.calls[d] \in Nat
    BY <2>1
  <2> QED
    BY <2>1, <2>2, LedgerAssumption DEF Value
<1>2. Levels(u, d, m) =
        IF Reached(u, d, m) THEN {"exceeded"}
        ELSE IF Limits[m] > 0 /\ 10 * Value(u, d, m) >= WarnRatio * Limits[m] THEN {"warn"} ELSE {}
  <2>1. CASE Limits[m] = 0
    BY <1>1, <2>1 DEF Levels, Reached
  <2>2. CASE Limits[m] > 0 /\ Value(u, d, m) >= Limits[m]
    BY <1>1, <2>2 DEF Levels, Reached
  <2>3. CASE Limits[m] > 0 /\ Value(u, d, m) < Limits[m]
    BY <1>1, <2>3 DEF Levels, Reached
  <2> QED
    BY <1>1, <2>1, <2>2, <2>3
<1> DEFINE levels == Levels(u, d, m)
<1>3. levels \subseteq {"warn", "exceeded"} /\ ("exceeded" \in levels <=> Reached(u, d, m))
      /\ (Reached(u, d, m) => levels = {"exceeded"})
  BY <1>2
<1>4. Due(u, d, m) = {[day |-> d, metric |-> m, level |-> l] : l \in levels} \ u.fired
  BY DEF Due
<1> HIDE DEF levels
<1>5. Due(u, d, m) \subseteq Alerts \ u.fired
  BY <1>3, <1>4 DEF Alerts
<1>6. ASSUME Reached(u, d, m) PROVE Due(u, d, m) = {Exceeded(d, m)} \ u.fired
  BY <1>3, <1>4, <1>6 DEF Exceeded
<1>7. ASSUME NEW day \in Days, NEW n \in Metrics, Exceeded(day, n) \in Due(u, d, m)
      PROVE  day = d /\ n = m /\ Reached(u, d, m)
  <2>1. PICK l \in levels : Exceeded(day, n) = [day |-> d, metric |-> m, level |-> l]
    BY <1>4, <1>7
  <2>2. day = d /\ n = m /\ l = "exceeded"
    BY <2>1 DEF Exceeded
  <2> QED
    BY <1>3, <2>1, <2>2
<1> QED
  BY <1>5, <1>6, <1>7

\* The threads that have yet to record a call are finitely many.
LEMMA UnrecordedFinite == IsFiniteSet(Unrecorded)
<1>1. Unrecorded \subseteq Threads
  BY DEF Unrecorded
<1> QED
  BY <1>1, CallAssumption, FS_Subset

\* At first nothing was counted, and nobody has the lock.
LEMMA InitBooks == Init => LedgerInv
<1> SUFFICES ASSUME Init PROVE LedgerInv
  OBVIOUS
<1>1. /\ usage = NoUsage /\ holder = None /\ raised = {} /\ today = 1 /\ granted = 0
      /\ call = [t \in Threads |-> Idle] /\ Days = {1, 2}
  BY CallAssumption DEF Init
<1>2. usage \in Usage /\ usage.fired = {} /\ usage.alerts = << >> /\ usage.calls[1] = 0 /\ usage.calls[2] = 0
  BY <1>1 DEF NoUsage, Usage
<1>3. Idle.step = "idle" /\ Idle.checks = {}
  BY DEF Idle
<1>4. \A t \in Threads : Booking(t, call[t])
  BY <1>1, <1>3, CallAssumption DEF Booking, Locked
<1>5. Unrecorded = {}
  BY <1>1, <1>3 DEF Unrecorded
<1>6. TokensAccounted
  BY <1>1, <1>2, <1>5, FS_EmptySet DEF TokensAccounted
<1>7. AlertsOnce
  BY <1>2, FS_EmptySet DEF AlertsOnce
<1>8. AlertsDue
  <2> SUFFICES ASSUME NEW d \in Days, NEW m \in Metrics
               PROVE  Exceeded(d, m) \notin usage.fired /\ ~Reached(usage, d, m)
    BY DEF AlertsDue
  <2>1. usage.calls[d] = 0 /\ Limits[m] \in Nat /\ UnitCost \in Nat
    BY <1>1, <1>2, LedgerAssumption
  <2>2. UnitCost * 0 = 0
    BY <2>1
  <2>3. Value(usage, d, m) = 0
    BY <2>1, <2>2 DEF Value
  <2> QED
    BY <1>2, <2>1, <2>3 DEF Reached
<1> QED
  BY <1>1, <1>2, <1>4, <1>6, <1>7, <1>8 DEF LedgerInv

\* A step of one thread leaves the others where they are.
LEMMA OneThread ==
  ASSUME SInv, NEW t \in Threads, NEW c, call' = [call EXCEPT ![t] = c]
  PROVE  call'[t] = c /\ \A u \in Threads \ {t} : call'[u] = call[u]
BY DEF SInv

\* A step that has nothing to do with the ledger, nor with a token.
LEMMA QuietHolds ==
  ASSUME SInv, LedgerInv, NEW t \in Threads, NEW c, call' = [call EXCEPT ![t] = c],
         UNCHANGED <<kind, granted, usage, holder, raised, today>>,
         call[t].step \notin Locked, c.step \notin Locked, c.step = "record" => c.day \in Days,
         c.checks \in {call[t].checks, {}},
         kind \in Limited \cap Metered => (call[t].step \in Pending <=> c.step \in Pending)
  PROVE  LedgerInv'
<1>1. call'[t] = c /\ \A u \in Threads \ {t} : call'[u] = call[u]
  BY OneThread
<1>2. holder # t
  BY DEF LedgerInv, Booking
<1>3. \A u \in Threads : Booking(u, call[u])'
  BY <1>1, <1>2 DEF LedgerInv, Booking
<1>4. TokensAccounted'
  <2>1. kind \in Limited \cap Metered => Unrecorded' = Unrecorded
    BY <1>1 DEF Unrecorded, Pending
  <2> QED
    BY <2>1 DEF LedgerInv, TokensAccounted
<1>5. AlertsDue'
  <2>1. \A d \in Days, m \in Metrics : ToCheck(d, m) => ToCheck(d, m)'
    BY <1>1, <1>2 DEF ToCheck
  <2> QED
    BY <2>1 DEF LedgerInv, AlertsDue, Reached, Value
<1> QED
  BY <1>3, <1>4, <1>5 DEF LedgerInv, AlertsOnce

\* A token granted is in the hands of its thread.
LEMMA GrantHolds ==
  ASSUME SInv, LedgerInv, NEW t \in Threads, NEW c, call' = [call EXCEPT ![t] = c],
         UNCHANGED <<kind, usage, holder, raised, today>>, granted' = granted + 1,
         call[t].step = "acquire", c.step \in {"wire", "ensure", "query"}, c.checks = call[t].checks
  PROVE  LedgerInv'
<1>1. call'[t] = c /\ \A u \in Threads \ {t} : call'[u] = call[u]
  BY OneThread
<1>2. holder # t
  BY DEF LedgerInv, Booking, Locked
<1>3. \A u \in Threads : Booking(u, call[u])'
  BY <1>1, <1>2 DEF LedgerInv, Booking, Locked
<1>4. TokensAccounted' /\ granted' \in Nat
  <2>1. Unrecorded' = Unrecorded \cup {t} /\ t \notin Unrecorded
    BY <1>1 DEF Unrecorded
  <2>2. Cardinality(Unrecorded') = Cardinality(Unrecorded) + 1 /\ Cardinality(Unrecorded) \in Nat
    BY <2>1, UnrecordedFinite, FS_AddElement, FS_CardinalityType
  <2>3. usage.calls[1] \in Nat /\ usage.calls[2] \in Nat /\ granted \in Nat
    BY CallAssumption DEF LedgerInv, Usage
  <2> QED
    BY <2>2, <2>3 DEF LedgerInv, TokensAccounted
<1>5. AlertsDue'
  <2>1. \A d \in Days, m \in Metrics : ToCheck(d, m) => ToCheck(d, m)'
    BY <1>1, <1>2 DEF ToCheck
  <2> QED
    BY <2>1 DEF LedgerInv, AlertsDue, Reached, Value
<1> QED
  BY <1>3, <1>4, <1>5 DEF LedgerInv, AlertsOnce

\* A thread with the lock counts its call, and has everything of the day to check.
LEMMA TakeHolds ==
  ASSUME SInv, LedgerInv, NEW t \in Threads, TakeLedger(t)
  PROVE  LedgerInv'
<1> DEFINE c == [call[t] EXCEPT !.step = "check", !.checks = Metrics]
           d0 == call[t].day
<1>1. holder = None /\ holder' = t /\ t # None /\ call[t].step = "record"
  BY CallAssumption DEF TakeLedger, LedgerInv, Booking, Locked
<1>2. /\ call' = [call EXCEPT ![t] = c] /\ usage' = Counted(usage, d0)
      /\ UNCHANGED <<kind, granted, raised, today>>
  BY <1>1 DEF TakeLedger, limits
<1>3. d0 \in Days /\ usage \in Usage
  BY <1>1 DEF LedgerInv, Booking
<1>4. c.step = "check" /\ c.checks = Metrics /\ c.day = d0
  BY DEF SInv, Shape, HasFields, Fields
<1> HIDE DEF c
<1>5. call'[t] = c /\ \A u \in Threads \ {t} : call'[u] = call[u]
  BY <1>2, OneThread
<1> HIDE DEF d0
<1>6. \A u \in Threads : Booking(u, call[u])'
  <2>1. \A u \in Threads : call[u].step \notin Locked
    BY <1>1, CallAssumption DEF LedgerInv, Booking
  <2> QED
    BY <1>1, <1>3, <1>4, <1>5, <2>1 DEF LedgerInv, Booking, Locked
<1>7. TokensAccounted'
  <2>1. Unrecorded' = Unrecorded \ {t} /\ t \in Unrecorded
    BY <1>1, <1>4, <1>5 DEF Unrecorded
  <2>2. Cardinality(Unrecorded') = Cardinality(Unrecorded) - 1 /\ Cardinality(Unrecorded) \in Nat
    BY <2>1, UnrecordedFinite, FS_RemoveElement, FS_CardinalityType
  <2>3. /\ usage.calls[1] \in Nat /\ usage.calls[2] \in Nat /\ granted \in Nat /\ d0 \in {1, 2}
        /\ \A d \in {1, 2} : usage'.calls[d] = IF d = d0 THEN usage.calls[d] + 1 ELSE usage.calls[d]
    BY <1>2, <1>3, CallAssumption, CountedFacts DEF LedgerInv, Usage
  <2>4. usage'.calls[1] + usage'.calls[2] = usage.calls[1] + usage.calls[2] + 1
    BY <2>3
  <2>5. usage'.calls[1] \in Nat /\ usage'.calls[2] \in Nat
    BY <2>3
  <2> QED
    BY <1>2, <2>2, <2>3, <2>4, <2>5 DEF LedgerInv, TokensAccounted
<1>8. AlertsDue'
  <2> SUFFICES ASSUME NEW d \in Days, NEW m \in Metrics
               PROVE  /\ Exceeded(d, m) \in usage'.fired => Reached(usage', d, m)
                      /\ Reached(usage', d, m) =>
                           Exceeded(d, m) \in usage'.fired \/ d \in raised' \/ ToCheck(d, m)'
    BY DEF AlertsDue, Reached, Value
  <2>1. /\ Exceeded(d, m) \in usage.fired => Reached(usage, d, m)
        /\ Reached(usage, d, m) => Exceeded(d, m) \in usage.fired \/ d \in raised \/ ToCheck(d, m)
    BY DEF LedgerInv, AlertsDue
  <2>2. usage'.fired = usage.fired
    BY <1>2, <1>3, CountedFacts
  <2>3. Reached(usage, d, m) => Reached(usage', d, m)
    BY <1>2, <1>3, ReachedStays
  <2>4. ~ToCheck(d, m)
    BY <1>1, CallAssumption DEF ToCheck
  <2>5. CASE d = d0
    <3>1. ToCheck(d, m)'
      BY <1>1, <1>4, <1>5, <2>5 DEF ToCheck
    <3> QED
      BY <2>1, <2>2, <2>3, <3>1
  <2>6. CASE d # d0
    <3>1. usage'.calls[d] = usage.calls[d]
      BY <1>2, <1>3, <2>6, CountedFacts
    <3>2. Reached(usage', d, m) <=> Reached(usage, d, m)
      BY <3>1 DEF Reached, Value
    <3> QED
      BY <1>2, <2>1, <2>2, <2>4, <3>2
  <2> QED
    BY <2>5, <2>6
<1>9. AlertsOnce' /\ usage' \in Usage
  BY <1>2, <1>3, CountedFacts DEF LedgerInv, AlertsOnce
<1> QED
  BY <1>1, <1>2, <1>6, <1>7, <1>8, <1>9 DEF LedgerInv

\* An alert fires once, when its level is reached.
LEMMA AlertHolds ==
  ASSUME SInv, LedgerInv, NEW t \in Threads, Alert(t)
  PROVE  LedgerInv'
<1> DEFINE d0 == call[t].day
           m0 == FirstOf(DueChecks(t))
           left == call[t].checks \ {m0}
           returns == [call[t] EXCEPT !.checks = left]
           raises == [Ended(t, "other") EXCEPT !.checks = {}]
           asks == [call[t] EXCEPT !.step = "ask", !.checks = left]
<1>1. call[t].step = "check" /\ holder = t /\ t # None /\ d0 \in Days /\ call[t].checks \subseteq Metrics
  BY CallAssumption DEF Alert, LedgerInv, Booking, Locked
<1>2. PICK alert \in Due(usage, d0, m0), does \in Callbacks :
        /\ usage' = Fired(usage, alert)
        /\ raised' = IF does = "raises" THEN raised \cup {d0} ELSE raised
        /\ holder' = IF does = "raises" THEN None ELSE holder
        /\ call' = [call EXCEPT ![t] = CASE does = "returns" -> returns
                                         [] does = "raises" -> raises
                                         [] does = "asks" -> asks]
  BY DEF Alert
<1>3. UNCHANGED <<kind, granted, today>>
  BY DEF Alert, limits
<1>4. m0 \in Metrics
  BY DEF FirstOf, Metrics
<1> HIDE DEF m0
<1>5. HasFields(call[t])
  BY DEF SInv, Shape
<1>6. /\ returns.step = "check" /\ returns.checks = left /\ returns.day = d0
      /\ asks.step = "ask" /\ asks.checks = left /\ asks.day = d0
  BY <1>1, <1>5 DEF HasFields, Fields
<1>7. raises.step = "done" /\ raises.checks = {}
  BY <1>5, SentShape DEF HasFields, Fields
<1> HIDE DEF returns, raises, asks
<1> DEFINE c == IF does = "raises" THEN raises ELSE IF does = "returns" THEN returns ELSE asks
<1>8. call' = [call EXCEPT ![t] = c]
  <2>1. does \in {"returns", "raises", "asks"}
    BY CallAssumption
  <2> QED
    BY <1>2, <2>1
<1>9. IF does = "raises" THEN c.step = "done" /\ c.checks = {}
      ELSE c.step \in Locked /\ c.checks = left /\ c.day = d0
  BY <1>6, <1>7 DEF Locked
<1> HIDE DEF c
<1>10. call'[t] = c /\ \A u \in Threads \ {t} : call'[u] = call[u]
  BY <1>8, OneThread
<1> HIDE DEF d0
<1>11. /\ alert \in Alerts /\ alert \notin usage.fired
       /\ Reached(usage, d0, m0) => alert = Exceeded(d0, m0)
       /\ \A d \in Days, m \in Metrics : alert = Exceeded(d, m) => d = d0 /\ m = m0 /\ Reached(usage, d, m)
  <2>1. usage \in Usage
    BY DEF LedgerInv
  <2> QED
    BY <1>1, <1>4, <2>1, DueFacts
<1>12. /\ usage' \in Usage /\ usage'.calls = usage.calls /\ usage'.fired = usage.fired \cup {alert}
       /\ usage'.alerts = Append(usage.alerts, alert)
  <2>1. usage \in Usage /\ usage' = [usage EXCEPT !.fired = @ \cup {alert}, !.alerts = Append(@, alert)]
    BY <1>2 DEF LedgerInv, Fired
  <2>2. /\ usage'.calls = usage.calls /\ usage'.fired = usage.fired \cup {alert}
        /\ usage'.alerts = Append(usage.alerts, alert)
    BY <2>1 DEF Usage
  <2>3. usage.fired \cup {alert} \in SUBSET Alerts /\ Append(usage.alerts, alert) \in Seq(Alerts)
    BY <1>11, <2>1 DEF Usage
  <2> QED
    BY <2>1, <2>2, <2>3 DEF Usage
<1>13. \A u \in Threads : Booking(u, call[u])'
  <2>1. Booking(t, call[t])'
    BY <1>1, <1>2, <1>9, <1>10 DEF Booking, Locked
  <2>2. ASSUME NEW u \in Threads \ {t} PROVE Booking(u, call[u])'
    BY <1>1, <1>2, <1>10, CallAssumption DEF LedgerInv, Booking, Locked
  <2> QED
    BY <2>1, <2>2
<1>14. TokensAccounted'
  <2>1. Unrecorded' = Unrecorded
    BY <1>1, <1>9, <1>10 DEF Unrecorded, Locked
  <2> QED
    BY <1>3, <1>12, <2>1 DEF LedgerInv, TokensAccounted
<1>15. AlertsOnce'
  <2>1. IsFiniteSet(usage.fired) /\ Cardinality(usage.fired) = Len(usage.alerts) /\ usage.alerts \in Seq(Alerts)
    BY DEF LedgerInv, AlertsOnce, Usage
  <2>2. IsFiniteSet(usage'.fired) /\ Cardinality(usage'.fired) = Cardinality(usage.fired) + 1
    BY <1>11, <1>12, <2>1, FS_AddElement
  <2>3. Len(usage'.alerts) = Len(usage.alerts) + 1
    BY <1>12, <2>1
  <2> QED
    BY <2>1, <2>2, <2>3 DEF AlertsOnce
<1>16. AlertsDue'
  <2> SUFFICES ASSUME NEW d \in Days, NEW m \in Metrics
               PROVE  /\ Exceeded(d, m) \in usage'.fired => Reached(usage', d, m)
                      /\ Reached(usage', d, m) =>
                           Exceeded(d, m) \in usage'.fired \/ d \in raised' \/ ToCheck(d, m)'
    BY DEF AlertsDue, Reached, Value
  <2>1. /\ Exceeded(d, m) \in usage.fired => Reached(usage, d, m)
        /\ Reached(usage, d, m) => Exceeded(d, m) \in usage.fired \/ d \in raised \/ ToCheck(d, m)
    BY DEF LedgerInv, AlertsDue
  <2>2. Reached(usage', d, m) <=> Reached(usage, d, m)
    BY <1>12 DEF Reached, Value
  <2>3. Exceeded(d, m) \in usage'.fired => Reached(usage, d, m)
    BY <1>11, <1>12, <2>1
  <2>4. ASSUME ToCheck(d, m), Reached(usage, d, m)
        PROVE  Exceeded(d, m) \in usage'.fired \/ d \in raised' \/ ToCheck(d, m)'
    <3>1. d = d0 /\ m \in call[t].checks
      BY <1>1, <2>4 DEF ToCheck, d0
    <3>2. CASE does = "raises"
      BY <1>2, <3>1, <3>2
    <3>3. CASE m = m0
      BY <1>11, <1>12, <2>4, <3>1, <3>3
    <3>4. CASE does # "raises" /\ m # m0
      <4>1. holder' = t /\ call'[t].day = d /\ m \in call'[t].checks
        BY <1>1, <1>2, <1>9, <1>10, <3>1, <3>4
      <4> QED
        BY <4>1 DEF ToCheck
    <3> QED
      BY <3>2, <3>3, <3>4
  <2>5. usage.fired \subseteq usage'.fired /\ raised \subseteq raised'
    BY <1>2, <1>12
  <2> QED
    BY <2>1, <2>2, <2>3, <2>4, <2>5
<1>17. holder' \in Threads \cup {None} /\ granted' \in Nat /\ today' \in Days
  BY <1>1, <1>2, <1>3 DEF LedgerInv
<1> QED
  BY <1>12, <1>13, <1>14, <1>15, <1>16, <1>17 DEF LedgerInv

\* The lock is released when nothing is due.
LEMMA RecordedHolds ==
  ASSUME SInv, LedgerInv, NEW t \in Threads, Recorded(t)
  PROVE  LedgerInv'
<1> DEFINE c == [AfterRecord(t) EXCEPT !.checks = {}]
<1>1. call[t].step = "check" /\ holder = t /\ t # None /\ call[t].day \in Days /\ call[t].checks \subseteq Metrics
  BY CallAssumption DEF Recorded, LedgerInv, Booking, Locked
<1>2. /\ holder' = None /\ DueChecks(t) = {} /\ call' = [call EXCEPT ![t] = c]
      /\ UNCHANGED <<kind, granted, usage, raised, today>>
  BY DEF Recorded, limits
<1>3. c.step \in {"acquire", "done"} /\ c.checks = {}
  <2>1. HasFields(call[t])
    BY DEF SInv, Shape
  <2> DEFINE again == [call[t] EXCEPT !.step = "acquire", !.tries = @ + 1, !.left = Timeout, !.got = None, !.day = 0]
  <2>2. HasFields(again) /\ again.step = "acquire"
    BY <2>1 DEF HasFields, Fields
  <2>3. AfterRecord(t) = again \/ AfterRecord(t) = Ended(t, call[t].got)
    BY DEF AfterRecord
  <2> HIDE DEF again
  <2>4. HasFields(AfterRecord(t)) /\ AfterRecord(t).step \in {"acquire", "done"}
    BY <2>1, <2>2, <2>3, SentShape
  <2> QED
    BY <2>4 DEF HasFields, Fields
<1> HIDE DEF c
<1>4. call'[t] = c /\ \A u \in Threads \ {t} : call'[u] = call[u]
  BY <1>2, OneThread
<1>5. \A u \in Threads : Booking(u, call[u])'
  <2>1. Booking(t, call[t])'
    BY <1>1, <1>2, <1>3, <1>4 DEF Booking, Locked
  <2>2. ASSUME NEW u \in Threads \ {t} PROVE Booking(u, call[u])'
    BY <1>1, <1>2, <1>4, CallAssumption DEF LedgerInv, Booking, Locked
  <2> QED
    BY <2>1, <2>2
<1>6. TokensAccounted'
  <2>1. Unrecorded' = Unrecorded
    BY <1>1, <1>3, <1>4 DEF Unrecorded
  <2> QED
    BY <1>2, <2>1 DEF LedgerInv, TokensAccounted
<1>7. AlertsDue'
  <2> SUFFICES ASSUME NEW d \in Days, NEW m \in Metrics, Reached(usage, d, m), ToCheck(d, m)
               PROVE  Exceeded(d, m) \in usage.fired
    BY <1>2 DEF LedgerInv, AlertsDue, Reached, Value
  <2>1. d = call[t].day /\ m \in call[t].checks
    BY <1>1 DEF ToCheck
  <2>2. Due(usage, d, m) = {}
    BY <1>2, <2>1 DEF DueChecks
  <2>3. Due(usage, d, m) = {Exceeded(d, m)} \ usage.fired
    BY DueFacts DEF LedgerInv
  <2> QED
    BY <2>2, <2>3
<1> QED
  BY <1>2, <1>5, <1>6, <1>7 DEF LedgerInv, AlertsOnce

\* A call begins, returns, gets its limiter and its token.
LEMMA TokenBooks ==
  ASSUME SInv, LedgerInv, NEW t \in Threads,
         \/ \E a \in Adapters : Begin(t, a)
         \/ Return(t) \/ Bind(t) \/ Acquire(t) \/ AcquireAtOnce(t)
  PROVE  LedgerInv'
<1>1. HasFields(call[t])
  BY DEF SInv, Shape
<1>2. AfterGrant \in {"wire", "ensure", "query"}
  BY CallAssumption DEF SInv, AfterGrant
<1>3. ASSUME NEW a \in Adapters, Begin(t, a) PROVE LedgerInv'
  <2> DEFINE c == [Idle EXCEPT !.step = "bind", !.adapter = a, !.limiter = registered[a], !.tries = 1]
  <2>1. c.step = "bind" /\ c.checks = {}
    BY DEF Idle
  <2>2. /\ call' = [call EXCEPT ![t] = c] /\ call[t].step = "idle"
        /\ UNCHANGED <<kind, granted, usage, holder, raised, today>>
    BY <1>3 DEF Begin, limits, ledger
  <2> HIDE DEF c
  <2> QED
    BY <2>1, <2>2, QuietHolds DEF Locked, Pending
<1>4. CASE Return(t)
  <2>1. Idle.step = "idle" /\ Idle.checks = {}
    BY DEF Idle
  <2>2. /\ call' = [call EXCEPT ![t] = Idle] /\ call[t].step = "done"
        /\ UNCHANGED <<kind, granted, usage, holder, raised, today>>
    BY <1>4 DEF Return, limits, ledger
  <2> QED
    BY <2>1, <2>2, QuietHolds DEF Locked, Pending
<1>5. CASE Bind(t)
  <2> DEFINE c == [call[t] EXCEPT !.step = "acquire", !.limiter = 0, !.left = Timeout]
  <2>1. c.step = "acquire" /\ c.checks = call[t].checks
    BY <1>1 DEF HasFields, Fields
  <2>2. /\ call' = [call EXCEPT ![t] = c] /\ call[t].step = "bind"
        /\ UNCHANGED <<kind, granted, usage, holder, raised, today>>
    BY <1>5 DEF Bind, ledger
  <2> HIDE DEF c
  <2> QED
    BY <2>1, <2>2, QuietHolds DEF Locked, Pending
<1>6. CASE Acquire(t)
  <2> DEFINE b == Refilled(limiters[Limiter(t)])
             grant == [call[t] EXCEPT !.step = AfterGrant, !.limiter = 0, !.left = 0]
             sleep == [call[t] EXCEPT !.limiter = Limiter(t), !.wake = Wait(b, call[t].left)]
             timeout == Ended(t, "timeout")
  <2>1. call[t].step = "acquire" /\ UNCHANGED <<kind, usage, holder, raised, today>>
    BY <1>6 DEF Acquire, ledger
  <2>2. /\ granted' = IF HasTokens(b) THEN granted + 1 ELSE granted
        /\ call' = [call EXCEPT ![t] = IF HasTokens(b) THEN grant ELSE IF call[t].left = 0 THEN timeout ELSE sleep]
    BY <1>6 DEF Acquire
  <2>3. grant.step = AfterGrant /\ grant.checks = call[t].checks
    BY <1>1 DEF HasFields, Fields
  <2>4. sleep.step = "acquire" /\ sleep.checks = call[t].checks
    BY <1>1, <2>1 DEF HasFields, Fields
  <2>5. timeout.step = "done" /\ timeout.checks = call[t].checks
    BY <1>1 DEF Ended, HasFields, Fields
  <2> HIDE DEF b, grant, sleep, timeout
  <2>6. CASE HasTokens(b)
    BY <1>2, <2>1, <2>2, <2>3, <2>6, GrantHolds
  <2>7. CASE ~HasTokens(b)
    BY <2>1, <2>2, <2>4, <2>5, <2>7, QuietHolds DEF Locked, Pending
  <2> QED
    BY <2>6, <2>7
<1>7. CASE AcquireAtOnce(t)
  <2> DEFINE c == [call[t] EXCEPT !.step = AfterGrant, !.left = 0]
  <2>1. /\ call' = [call EXCEPT ![t] = c] /\ call[t].step = "acquire" /\ kind \notin Limited
        /\ UNCHANGED <<kind, granted, usage, holder, raised, today>>
    BY <1>7 DEF AcquireAtOnce, limits, ledger
  <2>2. c.step \in {"wire", "ensure", "query"} /\ c.checks = call[t].checks
    BY <1>1, <1>2 DEF HasFields, Fields
  <2> HIDE DEF c
  <2> QED
    BY <2>1, <2>2, QuietHolds DEF Locked
<1> QED
  BY <1>3, <1>4, <1>5, <1>6, <1>7

\* What was sent is recorded by an adapter with a ledger, under today.
LEMMA SentBooks ==
  ASSUME NEW t \in Threads, NEW got, HasFields(call[t])
  PROVE  /\ Sent(t, got).checks = call[t].checks
         /\ Sent(t, got).step = IF kind \in Metered THEN "record" ELSE "done"
         /\ Sent(t, got).step = "record" => Sent(t, got).day = today
BY DEF Sent, Ended, HasFields, Fields

\* A thread at a step after its token stays there, or was answered.
LEMMA PendingHolds ==
  ASSUME SInv, LedgerInv, NEW t \in Threads, NEW c, call' = [call EXCEPT ![t] = c],
         UNCHANGED <<kind, granted, usage, holder, raised, today>>,
         call[t].step \in Pending,
         \/ \E got : c = Sent(t, got)
         \/ c.step \in Pending \ {"record"} /\ c.checks = call[t].checks
  PROVE  LedgerInv'
<1>1. HasFields(call[t]) /\ today \in Days
  BY DEF SInv, Shape, LedgerInv
<1>2. CASE \E got : c = Sent(t, got)
  <2>1. /\ c.checks = call[t].checks /\ c.step = IF kind \in Metered THEN "record" ELSE "done"
        /\ c.step = "record" => c.day = today
    BY <1>1, <1>2, SentBooks
  <2> QED
    BY <1>1, <2>1, QuietHolds DEF Locked, Pending
<1>3. CASE c.step \in Pending \ {"record"} /\ c.checks = call[t].checks
  BY <1>3, QuietHolds DEF Locked, Pending
<1> QED
  BY <1>2, <1>3

\* Requests, and what an MCP client does before them.
LEMMA SourceBooks ==
  ASSUME SInv, LedgerInv, NEW t \in Threads,
         \/ Request(t) \/ Query(t) \/ CallTool(t)
         \/ EnsureSession(t) \/ Initialize(t) \/ Notify(t) \/ KeepSession(t)
  PROVE  LedgerInv'
<1>1. HasFields(call[t])
  BY DEF SInv, Shape
<1>2. UNCHANGED <<kind, granted, usage, holder, raised, today>> /\ call[t].step \in Pending
  BY DEF Request, Query, CallTool, EnsureSession, Initialize, Notify, KeepSession, limits, ledger, Pending
<1>3. ASSUME call[t].step # "record"
      PROVE  Again(t).step \in Pending \ {"record"} /\ Again(t).checks = call[t].checks
  BY <1>1, <1>2, <1>3 DEF Again, HasFields, Fields
<1>4. ASSUME call[t].step # "record", NEW got, call' = [call EXCEPT ![t] = Retried(t, got)]
      PROVE  LedgerInv'
  <2>1. Retried(t, got) = Again(t) \/ Retried(t, got) = Sent(t, got)
    BY DEF Retried
  <2> QED
    BY <1>2, <1>3, <1>4, <2>1, PendingHolds
<1>5. CASE Request(t)
  <2>1. PICK got : call' = [call EXCEPT ![t] = Sent(t, got)]
    BY <1>5 DEF Request
  <2> QED
    BY <1>2, <2>1, PendingHolds
<1>6. CASE Query(t)
  <2>1. call[t].step # "record"
    BY <1>6 DEF Query
  <2>2. call' = [call EXCEPT ![t] = Again(t)] \/ \E got : call' = [call EXCEPT ![t] = Sent(t, got)]
    BY <1>6 DEF Query
  <2> QED
    BY <1>2, <1>3, <2>1, <2>2, PendingHolds
<1>7. CASE CallTool(t)
  <2>1. PICK got : call' = [call EXCEPT ![t] = Retried(t, got)]
    BY <1>7 DEF CallTool
  <2> QED
    BY <1>4, <1>7, <2>1 DEF CallTool
<1>8. CASE EnsureSession(t)
  <2> DEFINE step == IF mcp.session # None /\ mcp.age < SessionTtl THEN "tool" ELSE "initialize"
             session == mcp'.session
             c == [call[t] EXCEPT !.step = step, !.session = session]
  <2>1. step \in {"tool", "initialize"} /\ call' = [call EXCEPT ![t].step = step, ![t].session = session]
    BY <1>8, Zenon DEF EnsureSession
  <2> HIDE DEF step, session
  <2>2. call' = [call EXCEPT ![t] = c]
    BY <2>1
  <2>3. c.step = step /\ c.checks = call[t].checks
    BY <1>1 DEF HasFields, Fields
  <2> HIDE DEF c
  <2>4. c.step \in Pending \ {"record"}
    BY <2>1, <2>3 DEF Pending
  <2> QED
    BY <1>2, <2>2, <2>3, <2>4, PendingHolds
<1>9. CASE Initialize(t)
  <2> DEFINE reported == [call[t] EXCEPT !.step = "notify", !.session = mcp.opened + 1]
             stateless == [call[t] EXCEPT !.step = "tool", !.tries = 1]
  <2>1. call[t].step # "record"
    BY <1>9 DEF Initialize
  <2>2. \/ call' = [call EXCEPT ![t] = reported]
        \/ call' = [call EXCEPT ![t] = stateless]
        \/ \E got : call' = [call EXCEPT ![t] = Retried(t, got)]
    BY <1>9 DEF Initialize
  <2>3. /\ reported.step = "notify" /\ reported.checks = call[t].checks
        /\ stateless.step = "tool" /\ stateless.checks = call[t].checks
    BY <1>1 DEF HasFields, Fields
  <2> HIDE DEF reported, stateless
  <2>4. reported.step \in Pending \ {"record"} /\ stateless.step \in Pending \ {"record"}
    BY <2>3 DEF Pending
  <2> QED
    BY <1>2, <1>4, <2>1, <2>2, <2>3, <2>4, PendingHolds
<1>10. CASE Notify(t)
  <2> DEFINE c == [call[t] EXCEPT !.step = "keep"]
  <2>1. call' = [call EXCEPT ![t] = c]
    BY <1>10 DEF Notify
  <2>2. c.step \in Pending \ {"record"} /\ c.checks = call[t].checks
    BY <1>1 DEF HasFields, Fields, Pending
  <2> HIDE DEF c
  <2> QED
    BY <1>2, <2>1, <2>2, PendingHolds
<1>11. CASE KeepSession(t)
  <2> DEFINE c == [call[t] EXCEPT !.step = "tool", !.tries = 1]
  <2>1. call' = [call EXCEPT ![t] = c]
    BY <1>11 DEF KeepSession
  <2>2. c.step \in Pending \ {"record"} /\ c.checks = call[t].checks
    BY <1>1 DEF HasFields, Fields, Pending
  <2> HIDE DEF c
  <2> QED
    BY <1>2, <2>1, <2>2, PendingHolds
<1> QED
  BY <1>5, <1>6, <1>7, <1>8, <1>9, <1>10, <1>11

\* No step of the clock or of an adapter that closes touches the books.
LEMMA ClockBooks ==
  ASSUME SInv, LedgerInv, Tick \/ Midnight \/ (\E a \in Adapters : Close(a)) \/ UNCHANGED vars
  PROVE  LedgerInv'
<1>1. /\ UNCHANGED <<kind, granted, usage, holder, raised>> /\ today' \in Days
  BY CallAssumption DEF Tick, Midnight, Close, vars, limits, ledger, LedgerInv
<1>2. \A t \in Threads : /\ call'[t].step = call[t].step /\ call'[t].day = call[t].day
                         /\ call'[t].checks = call[t].checks
  <2>1. CASE Tick
    <3> SUFFICES ASSUME NEW t \in Threads
                 PROVE  /\ call'[t].step = call[t].step /\ call'[t].day = call[t].day
                        /\ call'[t].checks = call[t].checks
      OBVIOUS
    <3>1. HasFields(call[t]) /\ call'[t] = [call[t] EXCEPT !.wake = Earlier(@), !.left = Earlier(@)]
      BY <2>1 DEF SInv, Shape, Tick
    <3> QED
      BY <3>1 DEF HasFields, Fields
  <2>2. CASE ~Tick
    BY <2>2 DEF Midnight, Close, vars
  <2> QED
    BY <2>1, <2>2
<1>3. \A t \in Threads : Booking(t, call[t])'
  BY <1>1, <1>2 DEF LedgerInv, Booking
<1>4. TokensAccounted'
  <2>1. Unrecorded' = Unrecorded
    BY <1>2 DEF Unrecorded
  <2> QED
    BY <1>1, <2>1 DEF LedgerInv, TokensAccounted
<1>5. AlertsDue'
  <2>1. \A d \in Days, m \in Metrics : ToCheck(d, m) <=> ToCheck(d, m)'
    BY <1>1, <1>2 DEF ToCheck
  <2> QED
    BY <1>1, <2>1 DEF LedgerInv, AlertsDue, Reached, Value
<1> QED
  BY <1>1, <1>3, <1>4, <1>5 DEF LedgerInv, AlertsOnce

\* Every step keeps the books.
LEMMA BooksHold == SInv /\ LedgerInv /\ [Next]_vars => LedgerInv'
<1> SUFFICES ASSUME SInv, LedgerInv, [Next]_vars PROVE LedgerInv'
  OBVIOUS
<1>1. CASE \E t \in Threads, a \in Adapters : Begin(t, a)
  BY <1>1, TokenBooks
<1>2. CASE \E t \in Threads : Step(t) \/ Return(t)
  BY <1>2, TokenBooks, SourceBooks, TakeHolds, AlertHolds, RecordedHolds DEF Step
<1>3. CASE (\E a \in Adapters : Close(a)) \/ Tick \/ Midnight \/ UNCHANGED vars
  BY <1>3, ClockBooks
<1> QED
  BY <1>1, <1>2, <1>3 DEF Next

\* Every reachable state satisfies the invariant of the ledger.
THEOREM BooksKept == Spec => []LedgerInv
<1>1. CallInv => SInv
  BY DEF CallInv
<1>2. SInv /\ SInv' /\ LedgerInv /\ [Next]_vars => LedgerInv'
  BY BooksHold
<1> QED
  BY <1>1, <1>2, InitBooks, SessionsHeld, PTL DEF Spec

\* Every token granted is counted once or in the hands of a thread that has yet
\* to count it, alerts fire once, and whenever the lock is free every level
\* reached has its alert, except on days on which a callback raised
\* (usage.py: UsageLedger, base.py: _record).
THEOREM LedgerAlwaysAgrees == Spec => []LedgerAgrees
<1>1. LedgerInv => LedgerAgrees
  <2> SUFFICES ASSUME LedgerInv PROVE LedgerAgrees
    OBVIOUS
  <2>1. ASSUME holder = None, NEW d \in Days \ raised, NEW m \in Metrics
        PROVE  [day |-> d, metric |-> m, level |-> "exceeded"] \in usage.fired
                 <=> Limits[m] > 0 /\ Value(usage, d, m) >= Limits[m]
    <3>1. ~ToCheck(d, m)
      BY <2>1, CallAssumption DEF ToCheck
    <3> QED
      BY <3>1 DEF LedgerInv, AlertsDue, Exceeded, Reached
  <2> QED
    BY <2>1 DEF LedgerInv, TokensAccounted, AlertsOnce, LedgerAgrees
<1> QED
  BY <1>1, BooksKept, PTL
=============================================================================
