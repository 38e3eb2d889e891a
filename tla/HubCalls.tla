------------------------------ MODULE HubCalls ------------------------------
(***************************************************************************)
(* Calls of the hub's data methods by the threads of one process, through  *)
(* the memory cache they share: TTL, LRU order, a budget of bytes and      *)
(* entries, and single-flight loading.                                     *)
(*                                                                         *)
(* A step of a call is one section under the cache's lock, or a load from  *)
(* the adapters.  What the adapters answer is free; a frame is known by    *)
(* the arguments it was fetched for, how it was adjusted, where it came    *)
(* from, and the number of its load.  Loads number in the order in which   *)
(* they begin: a later one sees the source's data of a later time.  The    *)
(* TTL of an entry may run out at any time.                                *)
(***************************************************************************)
EXTENDS HubEndpoints, SequencesExt, FiniteSetsExt, Functions

CONSTANTS
  Threads,
  Offers,          \* sets of requests: one behaviour is about one of them
  Capabilities,    \* of the adapter of each registered source
  DefaultSource, FactorSource, Trusted, Fallbacks, FieldFill,   \* HubConfig
  Columns,         \* the columns of bars that may be missing
  Supplies,        \* Supplies[s]: those the adapter of s fills
  Size,            \* Size[e]: bytes of a frame of endpoint e
  MaxBytes, MaxEntries, MaxEntryBytes, SweepEvery,
  MaxCalls,        \* bound: calls, for each set of requests
  MaxDrops         \* bound: entries whose TTL runs out, invalidations

ASSUME HubAssumption ==
  /\ {MaxBytes, MaxEntries, MaxEntryBytes, SweepEvery} \subseteq Nat \ {0}
  /\ {MaxCalls, MaxDrops} \subseteq [Offers -> Nat]
  /\ Fallbacks \in Seq(DOMAIN Capabilities)
  /\ Size \in [DOMAIN Endpoint -> Nat]
  /\ None \notin Threads /\ None \notin DOMAIN Capabilities
  /\ \A r \in UNION Offers :
       /\ r.endpoint \in DOMAIN Endpoint
       /\ DOMAIN r = {"endpoint", "source", "codes", "start", "end", "freq", "adjust", "fields", "kind"}

VARIABLES
  offers,     \* the requests of this behaviour
  mem,        \* the cache: entries, their keys least recently used first, total bytes, stores
  flights,    \* flights[k]: the thread that leads the flight of k
  call,       \* where each thread is
  loads,      \* loads begun
  refreshed,  \* refreshed[k]: the last forced load that no older load could undo
  usurped,    \* the keys whose flight ended while its leader was still loading
  calls, drops

vars == <<offers, mem, flights, call, loads, refreshed, usurped, calls, drops>>
-----------------------------------------------------------------------------
(* Resolving a request *)

\* get_adjust_factors falls back on the configured factor source, the others on
\* the default source.  None: the call ends with an error.
Resolve(r) ==
  LET default == IF r.endpoint = "get_adjust_factors" THEN FactorSource ELSE DefaultSource
  IN  [r EXCEPT !.source = IF @ # None THEN @ ELSE default]

HasAdapter(s, capability) == s \in DOMAIN Capabilities /\ capability \in Capabilities[s]

\* Prices are adjusted by a trusted adapter itself, else with the factors of
\* the factor source.
BarsPlan(r) ==
  IF r.adjust = None \/ r.source \in Trusted
  THEN [native |-> r.adjust, factor |-> None]
  ELSE [native |-> None, factor |-> FactorSource]

Backups(r) == SelectSeq(Fallbacks, LAMBDA s : s # r.source)

\* Every adapter a request may need is looked up before anything is fetched.
Supported(r) ==
  /\ r.source # None
  /\ HasAdapter(r.source, Endpoint[r.endpoint].capability)
  /\ r.endpoint = "get_bars" =>
       /\ \A s \in Range(Backups(r)) : HasAdapter(s, "bars")
       /\ r.adjust # None /\ r.source \notin Trusted => HasAdapter(FactorSource, "adjust_factors")
-----------------------------------------------------------------------------
(* What a load returns, given what the adapters answer *)

Outcome == {"frame", "source_error", "other_error"}

\* SourceError and MissingCredentialError are caught; a rate limit, an
\* unsupported capability and a bad argument are not.
Caught == {"source_error"}

\* The load is numbered when it ends.
Frame(r, used, plan, filled) ==
  [args |-> ArgsOf(r), asked |-> r.source, used |-> used, load |-> 0,
   native |-> plan.native, factor |-> plan.factor, filled |-> filled]

Failed(error) == [error |-> error]

\* Columns no row of the frame has a value in: any adapter leaves some out.
MissingColumns(s) == Columns \ Supplies[s]

\* fill_missing_fields: for each missing column, the first fallback that has it.
FilledFrom(used, answered) ==
  LET Having(c) == SelectSeq(answered, LAMBDA s : c \in Supplies[s])
  IN  [c \in {c \in MissingColumns(used) : Having(c) # << >>} |-> Having(c)[1]]

\* The fallbacks that answer with a frame.
Answered(r, fill) == SelectSeq(Backups(r), LAMBDA s : fill[s] = "frame")

\* The primary and its fallbacks in turn, the missing columns from the
\* fallbacks, then the factors.  fetch, fill and factors are what the adapters
\* answer at each of the three.
BarsLoad(r, fetch, fill, factors) ==
  LET chain == <<r.source>> \o Backups(r)
      answering == {i \in DOMAIN chain : fetch[chain[i]] \notin Caught}
      first == chain[Min(answering)]
      filling == FieldFill /\ Backups(r) # << >> /\ MissingColumns(first) # {}
      plan == BarsPlan(r)
  IN  CASE answering = {} -> Failed("source_error")
        [] answering # {} /\ fetch[first] # "frame" -> Failed(fetch[first])
        [] OTHER ->
             IF filling /\ \E s \in Range(Backups(r)) : fill[s] \notin Caught \cup {"frame"}
             THEN Failed("other_error")
             ELSE IF plan.factor # None /\ factors # "frame" THEN Failed(factors)
             ELSE Frame(r, first, plan, IF filling THEN FilledFrom(first, Answered(r, fill)) ELSE << >>)

\* Every other endpoint asks one adapter, chunk by chunk: one error ends it.
PlainLoad(r, fetch) ==
  IF fetch[r.source] = "frame" THEN Frame(r, r.source, [native |-> None, factor |-> None], << >>)
  ELSE Failed(fetch[r.source])

LoadOutcomes(r) ==
  LET sources == {r.source} \cup Range(Fallbacks) IN
  IF r.endpoint # "get_bars" THEN {PlainLoad(r, fetch) : fetch \in [{r.source} -> Outcome]}
  ELSE {BarsLoad(r, fetch, fill, factors) :
          fetch \in [sources -> Outcome], fill \in [Range(Fallbacks) -> Outcome], factors \in Outcome}

\* A function, so that TLC computes each set once.
Loaded == [r \in {Resolve(q) : q \in UNION Offers} |-> IF Supported(r) THEN LoadOutcomes(r) ELSE {}]
-----------------------------------------------------------------------------
(* MemoryCache: entries[k] is a frame, its size and whether its TTL has run out *)

Empty == [entries |-> << >>, lru |-> << >>, total |-> 0, stores |-> 0]

SizeSum(entries, ks) == MapThenSumSet(LAMBDA k : entries[k].size, ks \cap DOMAIN entries)

\* The order of use without some keys.
Skip(lru, ks) == FoldLeft(LAMBDA kept, k : IF k \in ks THEN kept ELSE Append(kept, k), << >>, lru)

\* _remove, of several keys.
Without(m, ks) ==
  [m EXCEPT !.entries = Restrict(@, DOMAIN @ \ ks),
            !.lru = Skip(@, ks),
            !.total = @ - SizeSum(m.entries, ks)]

Expired(m) == {k \in DOMAIN m.entries : m.entries[k].expired}

Touched(m, k) == [m EXCEPT !.lru = Append(Skip(@, {k}), k)]

\* The least recently used entries go until the rest is within the limits.
Evicted(m) ==
  LET Oldest(n) == Range(SubSeq(m.lru, 1, n))
      enough == {n \in 0..Len(m.lru) : /\ m.total - SizeSum(m.entries, Oldest(n)) <= MaxBytes
                                       /\ Len(m.lru) - n <= MaxEntries}
  IN  Without(m, Oldest(Min(enough)))

Swept(m) ==
  LET n == (m.stores + 1) % SweepEvery
  IN  [(IF n = 0 THEN Without(m, Expired(m)) ELSE m) EXCEPT !.stores = n]

With(m, k, frame, size) ==
  LET entry == [frame |-> frame, size |-> size, expired |-> FALSE]
  IN  [m EXCEPT !.entries = [j \in DOMAIN @ \cup {k} |-> IF j = k THEN entry ELSE m.entries[j]],
                !.lru = Append(Skip(@, {k}), k), !.total = @ + size]

\* Variant of Put: an entry that is there stays.
Put_KeepsEntry(m, k, frame, size) ==
  IF k \in DOMAIN m.entries THEN {m} ELSE {Swept(w) : w \in {Evicted(n) : n \in {With(m, k, frame, size)}}}

\* Variant of Put: the size of the entry it replaces stays in the total.
Put_CountsTwice(m, k, frame, size) ==
  {Swept(w) : w \in {Evicted(n) : n \in {With(m, k, frame, size)}}}

\* What the cache is after a put: the entry there is replaced, the limits are
\* enforced, and now and then the expired entries are swept.  (One-element sets,
\* so that TLC evaluates each step once.)
Put(m, k, frame, size) ==
  {Swept(w) : w \in {Evicted(n) : n \in {With(o, k, frame, size) : o \in {Without(m, {k})}}}}
-----------------------------------------------------------------------------
Idle == [step |-> "idle", req |-> None, force |-> FALSE, cached |-> FALSE,
         no |-> 0, got |-> None, floor |-> 0]

Init ==
  /\ offers \in Offers
  /\ mem = Empty
  /\ flights = [k \in {KeyOf(Resolve(r)) : r \in offers} |-> None]
  /\ call = [t \in Threads |-> Idle]
  /\ refreshed = [k \in {KeyOf(Resolve(r)) : r \in offers} |-> 0]
  /\ usurped = {} /\ loads = 0 /\ calls = 0 /\ drops = 0

Key(t) == KeyOf(call[t].req)

\* The call has its answer: a frame of a load, or an error.
Done(t, got) == [call[t] EXCEPT !.step = "done", !.got = got]

\* A facade method up to its look at the cache; contains drops an expired entry.
Begin(t, r, force) ==
  LET req == Resolve(r)
      k == KeyOf(req)
      rest == Without(mem, Expired(mem) \cap {k})
  IN
  /\ call[t].step = "idle" /\ calls < MaxCalls[offers]
  /\ calls' = calls + 1
  /\ IF Supported(req)
     THEN /\ call' = [call EXCEPT ![t] =
               [Idle EXCEPT !.step = IF force THEN "begin_load" ELSE "get", !.req = req, !.force = force,
                            !.cached = ~force /\ k \in DOMAIN rest.entries, !.floor = refreshed[k]]]
          /\ mem' = IF force THEN mem ELSE rest
     ELSE /\ call' = [call EXCEPT ![t] =
               [Idle EXCEPT !.step = "done", !.req = req, !.got = Failed("unsupported")]]
          /\ UNCHANGED mem
  /\ UNCHANGED <<offers, flights, loads, refreshed, usurped, drops>>

\* get_or_load, before and after the thread has joined a flight.
Get(t) ==
  LET k == Key(t)
      hit == k \in DOMAIN mem.entries /\ ~mem.entries[k].expired
  IN
  /\ call[t].step \in {"get", "recheck"}
  /\ mem' = IF hit THEN Touched(mem, k) ELSE Without(mem, {k})
  /\ call' = [call EXCEPT ![t] =
       IF ~hit THEN [@ EXCEPT !.step = IF call[t].step = "get" THEN "join" ELSE "begin_load"]
       ELSE IF @.step = "get" THEN Done(t, mem.entries[k].frame)
       ELSE [@ EXCEPT !.step = "finish", !.got = mem.entries[k].frame]]
  /\ UNCHANGED <<offers, flights, loads, refreshed, usurped, calls, drops>>

\* Variant of JoinFlight: the thread that finds a flight loads as well.
JoinFlight_LoadsToo(t) ==
  LET k == Key(t) IN
  /\ call[t].step = "join"
  /\ flights' = [flights EXCEPT ![k] = t]
  /\ call' = [call EXCEPT ![t].step = "recheck"]
  /\ UNCHANGED <<offers, mem, loads, refreshed, usurped, calls, drops>>

\* The leader loads; the others wait for its flight, without a timeout.
JoinFlight(t) ==
  LET k == Key(t) IN
  /\ call[t].step = "join"
  /\ IF flights[k] = None
     THEN /\ flights' = [flights EXCEPT ![k] = t]
          /\ call' = [call EXCEPT ![t].step = "recheck"]
     ELSE /\ call' = [call EXCEPT ![t].step = "wait", ![t].got = flights[k]]
          /\ UNCHANGED flights
  /\ UNCHANGED <<offers, mem, loads, refreshed, usurped, calls, drops>>

BeginLoad(t) ==
  /\ call[t].step = "begin_load"
  /\ loads' = loads + 1
  /\ call' = [call EXCEPT ![t].step = "load", ![t].no = loads + 1]
  /\ UNCHANGED <<offers, mem, flights, refreshed, usurped, calls, drops>>

\* The adapters answer.  After an error nothing is stored.
EndLoad(t) ==
  /\ call[t].step = "load"
  /\ \E got \in Loaded[call[t].req] :
       call' = [call EXCEPT ![t].step = IF "error" \in DOMAIN got THEN "finish" ELSE "put",
                            ![t].got = IF "error" \in DOMAIN got THEN got
                                       ELSE [got EXCEPT !.load = call[t].no]]
  /\ UNCHANGED <<offers, mem, flights, loads, refreshed, usurped, calls, drops>>

\* A load of the key that began earlier and has not ended yet may still store
\* its frame, or hand it to its waiters.
OlderUnderWay(t) ==
  \E u \in Threads \ {t} :
    /\ call[u].step \in {"load", "put", "finish"} /\ Key(u) = Key(t) /\ call[u].no < call[t].no

Store(t) ==
  LET k == Key(t)
      size == Size[call[t].req.endpoint]
  IN
  /\ call[t].step = "put"
  /\ IF size > MaxEntryBytes THEN UNCHANGED mem ELSE mem' \in Put(mem, k, call[t].got, size)
  /\ refreshed' = IF call[t].force /\ size <= MaxEntryBytes /\ ~OlderUnderWay(t)
                  THEN [refreshed EXCEPT ![k] = call[t].no] ELSE refreshed
  /\ call' = [call EXCEPT ![t].step = "finish"]
  /\ UNCHANGED <<offers, flights, loads, usurped, calls, drops>>

\* Variant of FinishFlight: after an error the flight stays.
FinishFlight_OnlyFrames(t) ==
  LET k == Key(t)
      failed == "error" \in DOMAIN call[t].got
  IN
  /\ call[t].step = "finish"
  /\ flights' = IF failed THEN flights ELSE [flights EXCEPT ![k] = None]
  /\ call' = [u \in Threads |->
       IF u = t THEN Done(t, call[t].got)
       ELSE IF ~failed /\ call[u].step = "wait" /\ Key(u) = k /\ call[u].got = flights[k]
            THEN Done(u, call[t].got) ELSE call[u]]
  /\ usurped' = IF flights[k] \in {None, t} THEN usurped ELSE usurped \cup {k}
  /\ UNCHANGED <<offers, mem, loads, refreshed, calls, drops>>

\* The flight of the key ends, whoever leads it, and its waiters have the value
\* or the error.  (The event is set just after the lock is released: a waiter
\* only wakes a little later than here.)
FinishFlight(t) ==
  LET k == Key(t) IN
  /\ call[t].step = "finish"
  /\ flights' = [flights EXCEPT ![k] = None]
  /\ call' = [u \in Threads |->
       IF u = t THEN Done(t, call[t].got)
       ELSE IF call[u].step = "wait" /\ Key(u) = k /\ call[u].got = flights[k]
            THEN Done(u, call[t].got) ELSE call[u]]
  /\ usurped' = IF flights[k] \in {None, t} THEN usurped ELSE usurped \cup {k}
  /\ UNCHANGED <<offers, mem, loads, refreshed, calls, drops>>

Return(t) ==
  /\ call[t].step = "done"
  /\ call' = [call EXCEPT ![t] = Idle]
  /\ UNCHANGED <<offers, mem, flights, loads, refreshed, usurped, calls, drops>>

Drop == drops < MaxDrops[offers] /\ drops' = drops + 1

\* The TTL of an entry runs out.
Expire(k) ==
  /\ Drop
  /\ k \in DOMAIN mem.entries /\ ~mem.entries[k].expired
  /\ mem' = [mem EXCEPT !.entries[k].expired = TRUE]
  /\ UNCHANGED <<offers, flights, call, loads, refreshed, usurped, calls>>

Invalidate(k) ==
  /\ Drop
  /\ mem' = Without(mem, {k})
  /\ UNCHANGED <<offers, flights, call, loads, refreshed, usurped, calls>>

Clear ==
  /\ Drop
  /\ mem' = [Empty EXCEPT !.stores = mem.stores]
  /\ UNCHANGED <<offers, flights, call, loads, refreshed, usurped, calls>>

Step(t) == Get(t) \/ JoinFlight(t) \/ BeginLoad(t) \/ EndLoad(t) \/ Store(t) \/ FinishFlight(t)

Next ==
  \/ \E t \in Threads, r \in offers, force \in BOOLEAN : Begin(t, r, force)
  \/ \E t \in Threads : Step(t) \/ Return(t)
  \/ \E k \in DOMAIN mem.entries : Expire(k) \/ Invalidate(k)
  \/ Clear

\* A thread that has something to do goes on, and the adapters answer: each of
\* their calls has a timeout of its own.
Spec == Init /\ [][Next]_vars /\ \A t \in Threads : WF_vars(Step(t))
-----------------------------------------------------------------------------
\* Arguments with their codes as the cache key has them: without the type, which a
\* caller may state (codes.py: SecCode.parse).
AsRead(args) == [f \in DOMAIN args |-> IF f = "codes" THEN Canonical(args[f]) ELSE args[f]]

\* The frame a call returns was fetched for the call's own arguments, but for the
\* types of its codes, and its prices are adjusted once, by the adapter or with
\* factors, if the call asks for adjusted prices, and not at all if it does not:
\* whichever thread's load it comes from, through the cache or a flight.
OwnFrame ==
  \A t \in Threads :
    LET r == call[t].req
        got == call[t].got
    IN  (call[t].step = "done" /\ "error" \notin DOMAIN got) =>
          /\ AsRead(got.args) = AsRead(ArgsOf(r)) /\ got.asked = r.source
          /\ r.endpoint = "get_bars" =>
               IF r.adjust = None THEN got.native = None /\ got.factor = None
               ELSE got.native = r.adjust <=> got.factor = None

\* After a forced load that no older load of its key is left to undo, a call
\* that begins later has no older frame (cache.py: force overwrites).
ForceSticks ==
  \A t \in Threads :
    (call[t].step = "done" /\ "error" \notin DOMAIN call[t].got) => call[t].got.load >= call[t].floor

\* Of the calls that are not forced, one at a time loads a key (cache.py:8), but
\* for a key whose flight another thread's forced call has ended early: then the
\* next call leads a flight of its own beside the leader that is still loading.
SingleFlight ==
  \A t, u \in Threads :
    /\ t # u /\ call[t].step = "load" /\ call[u].step = "load"
    /\ ~call[t].force /\ ~call[u].force /\ Key(t) = Key(u)
    => Key(t) \in usurped

\* Bytes and entries are counted right and within the limits between any two
\* sections under the lock.
WithinLimits ==
  /\ mem.total = SizeSum(mem.entries, DOMAIN mem.entries) /\ mem.total <= MaxBytes
  /\ Range(mem.lru) = DOMAIN mem.entries /\ Len(mem.lru) = Cardinality(DOMAIN mem.entries)
  /\ Len(mem.lru) <= MaxEntries

\* Every call ends, those that wait for another thread's flight included.
EveryCallEnds == \A t \in Threads : call[t].step # "idle" ~> call[t].step = "done"
=============================================================================
