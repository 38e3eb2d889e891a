---------------------------- MODULE HubCallsProofs ----------------------------
(***************************************************************************)
(* The calls of the hub over one memory cache, for any requests, adapters, *)
(* threads, sizes and limits: who loads a key, how old a frame a caller    *)
(* may get, that it is a frame of its own request, and that the cache      *)
(* stays within its limits.                                                *)
(***************************************************************************)
EXTENDS HubCalls, FiniteSetTheorems, TLAPS

\* The requests of the behaviour and the keys of their entries.
Requests == {Resolve(q) : q \in offers}
Keys == {KeyOf(r) : r \in Requests}

IsFrame(got) == "error" \notin DOMAIN got

\* The frame a call expects.
Matches(got, r) ==
  /\ AsRead(got.args) = AsRead(ArgsOf(r)) /\ got.asked = r.source
  /\ r.endpoint = "get_bars" =>
       IF r.adjust = None THEN got.native = None /\ got.factor = None
       ELSE got.native = r.adjust <=> got.factor = None

Fields == {"step", "req", "force", "cached", "no", "got", "floor"}
HasFields(c) == c = [f \in Fields |-> c[f]]

\* The steps of a thread that leads the flight of its key, or whose call is forced.
Leading == {"recheck", "begin_load", "load", "put", "finish"}

\* Where a thread is, with the number of its load and of its frame's.
Placed(c) ==
  /\ HasFields(c) /\ c.no \in Nat /\ c.no <= loads /\ c.floor \in Nat
  /\ c.step # "idle" => c.req \in Requests
  /\ c.step = "put" => IsFrame(c.got) /\ c.got.load = c.no /\ c.no > 0
  /\ c.step = "load" => c.no > 0
  /\ c.step \in {"get", "join", "recheck"} => c.no = 0
  /\ c.step = "finish" /\ IsFrame(c.got) => c.got.load \in Nat /\ c.no \in {0, c.got.load}

\* It leads the flight of its key, unless a forced call ended that flight.
Leads(t, c) ==
  c.step \in Leading /\ ~c.force => flights[KeyOf(c.req)] = t \/ KeyOf(c.req) \in usurped

\* What it has, or will have, is no older than the last refresh of its key when
\* its call began.
UpToDate(c) ==
  /\ c.step \in {"load", "put"} => c.no >= refreshed[KeyOf(c.req)]
  /\ c.step = "finish" /\ IsFrame(c.got) => c.got.load >= refreshed[KeyOf(c.req)]
  /\ c.step \notin {"idle", "done"} => c.floor <= refreshed[KeyOf(c.req)]
  /\ c.step = "done" /\ IsFrame(c.got) => c.got.load >= c.floor

\* A frame it has is one of its own request.
Own(c) ==
  c.step \in {"put", "finish", "done"} /\ IsFrame(c.got) => Matches(c.got, c.req)

Good(t, c) == Placed(c) /\ Leads(t, c) /\ UpToDate(c) /\ Own(c)

MemFields == {"entries", "lru", "total", "stores"}
EntryFields == {"frame", "size", "expired"}
MemShape(m) ==
  /\ m = [f \in MemFields |-> m[f]]
  /\ \A k \in DOMAIN m.entries : m.entries[k] = [f \in EntryFields |-> m.entries[k][f]]

\* No entry is older than the last refresh of its key, and every request with
\* that key expects it.
EntryGood(k, got) ==
  /\ k \in Keys /\ IsFrame(got) /\ got.load \in Nat /\ refreshed[k] <= got.load /\ got.load <= loads
  /\ \A r \in Requests : KeyOf(r) = k => Matches(got, r)

MemGood(m) == MemShape(m) /\ \A k \in DOMAIN m.entries : EntryGood(k, m.entries[k].frame)

Shared ==
  /\ offers \in Offers /\ loads \in Nat /\ call = [t \in Threads |-> call[t]]
  /\ flights \in [Keys -> Threads \cup {None}]
  /\ refreshed \in [Keys -> Nat] /\ \A k \in Keys : refreshed[k] <= loads

HubInv == Shared /\ MemGood(mem) /\ \A t \in Threads : Good(t, call[t])
-----------------------------------------------------------------------------
(* The cache's operations keep frames where they are, or drop them *)

\* n has entries of m, with their frames.
Subcache(n, m) ==
  /\ MemShape(n) /\ DOMAIN n.entries \subseteq DOMAIN m.entries
  /\ \A k \in DOMAIN n.entries : n.entries[k].frame = m.entries[k].frame

\* Entries are dropped.
LEMMA WithoutSubcache ==
  ASSUME NEW m, MemShape(m), NEW ks
  PROVE  Subcache(Without(m, ks), m) /\ DOMAIN Without(m, ks).entries = DOMAIN m.entries \ ks
<1> DEFINE entries == [k \in DOMAIN m.entries \ ks |-> m.entries[k]]
           lru == Skip(m.lru, ks)
           total == m.total - SizeSum(m.entries, ks)
           n == [m EXCEPT !.entries = entries, !.lru = lru, !.total = total]
<1>1. Without(m, ks) = n
  BY DEF Without, Restrict
<1>2. DOMAIN entries = DOMAIN m.entries \ ks /\ \A k \in DOMAIN entries : entries[k] = m.entries[k]
  OBVIOUS
<1> HIDE DEF entries, lru, total
<1>3. n = [f \in MemFields |-> n[f]] /\ n.entries = entries
  BY DEF MemShape, MemFields
<1> HIDE DEF n
<1> QED
  BY <1>1, <1>2, <1>3 DEF Subcache, MemShape

\* A use moves a key to the end of the order.
LEMMA TouchedSubcache ==
  ASSUME NEW m, MemShape(m), NEW k
  PROVE  Subcache(Touched(m, k), m)
<1> DEFINE lru == Append(Skip(m.lru, {k}), k)
           n == [m EXCEPT !.lru = lru]
<1>1. Touched(m, k) = n
  BY DEF Touched
<1> HIDE DEF lru
<1>2. n = [f \in MemFields |-> n[f]] /\ n.entries = m.entries
  BY DEF MemShape, MemFields
<1> HIDE DEF n
<1> QED
  BY <1>1, <1>2 DEF Subcache, MemShape

\* The oldest entries go.
LEMMA EvictedSubcache ==
  ASSUME NEW m, MemShape(m)
  PROVE  Subcache(Evicted(m), m)
<1>1. PICK ks : Evicted(m) = Without(m, ks)
  BY DEF Evicted
<1> QED
  BY <1>1, WithoutSubcache

\* The expired entries go, now and then.
LEMMA SweptSubcache ==
  ASSUME NEW m, MemShape(m)
  PROVE  Subcache(Swept(m), m)
<1> DEFINE stores == (m.stores + 1) % SweepEvery
           base == IF stores = 0 THEN Without(m, Expired(m)) ELSE m
           n == [base EXCEPT !.stores = stores]
<1>1. Swept(m) = n
  BY DEF Swept
<1>2. Subcache(base, m)
  <2>1. Subcache(m, m)
    BY DEF Subcache
  <2> QED
    BY <2>1, WithoutSubcache
<1> HIDE DEF stores, base
<1>3. n = [f \in MemFields |-> n[f]] /\ n.entries = base.entries
  BY <1>2 DEF Subcache, MemShape, MemFields
<1> HIDE DEF n
<1>4. MemShape(n)
  BY <1>2, <1>3 DEF Subcache, MemShape
<1> QED
  BY <1>1, <1>2, <1>3, <1>4 DEF Subcache

\* After a put the entry of its key, if any, is the new one.
LEMMA PutFrames ==
  ASSUME NEW m, MemShape(m), NEW k, NEW frame, NEW size, NEW n \in Put(m, k, frame, size)
  PROVE  /\ MemShape(n) /\ DOMAIN n.entries \subseteq DOMAIN m.entries \cup {k}
         /\ \A j \in DOMAIN n.entries : n.entries[j].frame = IF j = k THEN frame ELSE m.entries[j].frame
<1> DEFINE o == Without(m, {k})
           w == With(o, k, frame, size)
           entry == [frame |-> frame, size |-> size, expired |-> FALSE]
           entries == [j \in DOMAIN o.entries \cup {k} |-> IF j = k THEN entry ELSE o.entries[j]]
           lru == Append(Skip(o.lru, {k}), k)
           total == o.total + size
<1>1. n = Swept(Evicted(w))
  BY DEF Put
<1>2. Subcache(o, m)
  BY WithoutSubcache
<1>3. w = [o EXCEPT !.entries = entries, !.lru = lru, !.total = total]
  BY DEF With
<1> HIDE DEF o, w
<1>4. entry = [f \in EntryFields |-> entry[f]] /\ entry.frame = frame
  BY DEF EntryFields
<1> HIDE DEF entry
<1>5. /\ DOMAIN entries = DOMAIN o.entries \cup {k}
      /\ \A j \in DOMAIN entries : entries[j] = IF j = k THEN entry ELSE o.entries[j]
  OBVIOUS
<1> HIDE DEF entries, lru, total
<1>6. w = [f \in MemFields |-> w[f]] /\ w.entries = entries
  BY <1>2, <1>3 DEF Subcache, MemShape, MemFields
<1>7. MemShape(w)
  BY <1>2, <1>4, <1>5, <1>6 DEF Subcache, MemShape
<1>8. Subcache(Evicted(w), w) /\ Subcache(n, Evicted(w))
  BY <1>1, <1>7, EvictedSubcache, SweptSubcache DEF Subcache
<1>9. Subcache(n, w)
  BY <1>8 DEF Subcache
<1> QED
  BY <1>2, <1>4, <1>5, <1>6, <1>9 DEF Subcache
-----------------------------------------------------------------------------
(* What a load returns *)

\* A request is for an endpoint of the table.
LEMMA RequestShape ==
  ASSUME offers \in Offers, NEW r \in Requests
  PROVE  /\ r.endpoint \in DOMAIN Endpoint
         /\ r = [f \in {"endpoint", "source", "codes", "start", "end", "freq", "adjust", "fields", "kind"} |-> r[f]]
<1>1. PICK q \in offers : r = Resolve(q)
  BY DEF Requests
<1>2. /\ q.endpoint \in DOMAIN Endpoint
      /\ DOMAIN q = {"endpoint", "source", "codes", "start", "end", "freq", "adjust", "fields", "kind"}
  BY HubAssumption
<1> QED
  BY <1>1, <1>2 DEF Resolve

\* Every argument that reaches an adapter is in the key, and so is the kind of
\* adjustment of bars.
LEMMA KeyHoldsArguments ==
  ASSUME NEW e \in DOMAIN Endpoint
  PROVE  Endpoint[e].passed \subseteq Endpoint[e].key /\ (e = "get_bars" => "adjust" \in Endpoint[e].key)
BY DEF Endpoint, GetBars, GetSnapshot, GetFundNav, GetReference, GetSecurityInfo, GetIndexWeights, GetFinancials,
       GetMarketEvents, GetTradeCalendar, GetAdjustFactors, GetAdjustmentEvents

\* Requests with one key expect the same frames.
LEMMA KeyDecides ==
  ASSUME offers \in Offers, NEW q \in Requests, NEW r \in Requests, KeyOf(q) = KeyOf(r),
         NEW got, Matches(got, q)
  PROVE  Matches(got, r)
<1>1. q.endpoint = r.endpoint /\ q.source = r.source /\ q.endpoint \in DOMAIN Endpoint
  BY RequestShape DEF KeyOf
<1> DEFINE key == Endpoint[q.endpoint].key
           Of(x) == [f \in key |-> IF f = "codes" THEN Canonical(x.codes) ELSE x[f]]
<1>2. Of(q) = Of(r)
  BY <1>1 DEF KeyOf
<1> HIDE DEF key
<1>3. \A f \in key : IF f = "codes" THEN Canonical(q.codes) = Canonical(r.codes) ELSE q[f] = r[f]
  <2>1. \A f \in key : Of(q)[f] = Of(r)[f]
    BY <1>2
  <2> QED
    BY <2>1
<1>4. AsRead(ArgsOf(q)) = AsRead(ArgsOf(r))
  <2> DEFINE passed == Endpoint[q.endpoint].passed
  <2>1. ArgsOf(q) = [f \in passed |-> q[f]] /\ ArgsOf(r) = [f \in passed |-> r[f]]
    BY <1>1 DEF ArgsOf
  <2>2. passed \subseteq key
    BY <1>1, KeyHoldsArguments DEF key
  <2> HIDE DEF passed
  <2> QED
    BY <1>3, <2>1, <2>2 DEF AsRead
<1>5. q.endpoint = "get_bars" => q.adjust = r.adjust
  BY <1>1, <1>3, KeyHoldsArguments DEF key
<1> QED
  BY <1>1, <1>4, <1>5 DEF Matches

FrameFields == {"args", "asked", "used", "load", "native", "factor", "filled"}
FrameShape(got) == got = [f \in FrameFields |-> got[f]]

\* A frame with a plan is a frame, and has that plan.
LEMMA FrameFacts ==
  ASSUME NEW r, NEW used, NEW plan, NEW filled
  PROVE  LET got == Frame(r, used, plan, filled)
         IN  /\ FrameShape(got) /\ IsFrame(got) /\ got.args = ArgsOf(r) /\ got.asked = r.source
             /\ got.native = plan.native /\ got.factor = plan.factor
BY DEF Frame, FrameShape, FrameFields, IsFrame

\* An error is no frame.
LEMMA FailedFacts == ASSUME NEW error PROVE ~IsFrame(Failed(error))
BY DEF Failed, IsFrame

\* The route of bars ends with an error or with a frame made after the plan.
LEMMA BarsLoadFacts ==
  ASSUME NEW r, NEW fetch, NEW fill, NEW factors
  PROVE  LET got == BarsLoad(r, fetch, fill, factors)
         IN  (\E error : got = Failed(error)) \/ (\E used, filled : got = Frame(r, used, BarsPlan(r), filled))
BY DEF BarsLoad

\* What a load returns is an error, or what the request asks for.
LEMMA LoadedMatches ==
  ASSUME offers \in Offers, NEW r \in Requests, NEW got \in Loaded[r], IsFrame(got)
  PROVE  FrameShape(got) /\ Matches(got, r)
<1>1. Supported(r) /\ got \in LoadOutcomes(r)
  BY DEF Loaded, Requests
<1>2. CASE r.endpoint # "get_bars"
  <2>1. PICK fetch : got = PlainLoad(r, fetch)
    BY <1>1, <1>2 DEF LoadOutcomes
  <2>2. got = Frame(r, r.source, [native |-> None, factor |-> None], << >>)
    BY <2>1, FailedFacts DEF PlainLoad
  <2> QED
    BY <1>2, <2>2, FrameFacts DEF Matches
<1>3. CASE r.endpoint = "get_bars"
  <2>1. PICK fetch, fill, factors : got = BarsLoad(r, fetch, fill, factors)
    BY <1>1, <1>3 DEF LoadOutcomes
  <2>2. PICK used, filled : got = Frame(r, used, BarsPlan(r), filled)
    BY <2>1, BarsLoadFacts, FailedFacts
  <2>3. FrameShape(got) /\ got.args = ArgsOf(r) /\ got.asked = r.source
        /\ got.native = BarsPlan(r).native /\ got.factor = BarsPlan(r).factor
    BY <2>2, FrameFacts
  <2>4. r.adjust # None /\ r.source \notin Trusted => FactorSource # None
    BY <1>1, <1>3, HubAssumption DEF Supported, HasAdapter
  <2>5. CASE r.adjust = None \/ r.source \in Trusted
    <3>1. got.native = r.adjust /\ got.factor = None
      BY <2>3, <2>5 DEF BarsPlan
    <3> QED
      BY <2>3, <3>1 DEF Matches
  <2>6. CASE ~(r.adjust = None \/ r.source \in Trusted)
    <3>1. got.native = None /\ got.factor = FactorSource
      BY <2>3, <2>6 DEF BarsPlan
    <3> QED
      BY <2>3, <2>4, <2>6, <3>1 DEF Matches
  <2> QED
    BY <2>5, <2>6
<1> QED
  BY <1>2, <1>3
-----------------------------------------------------------------------------
(* One step of one thread *)

\* The record of a thread with its answer.
LEMMA DoneFacts ==
  ASSUME NEW t \in Threads, NEW got, HasFields(call[t])
  PROVE  LET c == Done(t, got)
         IN  /\ HasFields(c) /\ c.step = "done" /\ c.got = got /\ c.req = call[t].req /\ c.no = call[t].no
             /\ c.floor = call[t].floor /\ c.force = call[t].force
BY DEF Done, HasFields, Fields

\* At first nobody calls, and nothing is kept.
LEMMA InitHolds == Init => HubInv
<1> SUFFICES ASSUME Init PROVE HubInv
  OBVIOUS
<1>1. HasFields(Idle) /\ Idle.step = "idle" /\ Idle.no = 0 /\ Idle.floor = 0
  BY DEF Idle, HasFields, Fields
<1>2. Keys = {KeyOf(Resolve(r)) : r \in offers}
  BY DEF Keys, Requests
<1>3. Shared
  BY <1>2 DEF Init, Shared
<1>4. mem = Empty /\ DOMAIN mem.entries = {} /\ MemShape(mem)
  BY DEF Init, Empty, MemShape, MemFields
<1>5. \A t \in Threads : Good(t, call[t])
  BY <1>1 DEF Init, Good, Placed, Leads, Leading, UpToDate, Own
<1> QED
  BY <1>3, <1>4, <1>5 DEF HubInv, MemGood

\* A step that changes no flight and refreshes nothing.
LEMMA LocalHolds ==
  ASSUME HubInv, NEW t \in Threads, NEW c, call' = [call EXCEPT ![t] = c],
         UNCHANGED <<offers, flights, refreshed, usurped>>, loads' \in {loads, loads + 1},
         MemGood(mem)', Good(t, c)'
  PROVE  HubInv'
<1>1. call' = [u \in Threads |-> call'[u]] /\ call'[t] = c /\ \A u \in Threads \ {t} : call'[u] = call[u]
  BY DEF HubInv, Shared
<1>2. Keys' = Keys /\ Requests' = Requests
  BY DEF Keys, Requests
<1>3. Shared'
  BY <1>1, <1>2 DEF HubInv, Shared
<1>4. ASSUME NEW u \in Threads \ {t} PROVE Good(u, call[u])'
  <2>1. Good(u, call[u]) /\ call'[u] = call[u] /\ loads \in Nat
    BY <1>1 DEF HubInv, Shared
  <2>2. Placed(call[u])'
    BY <1>2, <2>1 DEF Good, Placed
  <2>3. Leads(u, call[u])' /\ UpToDate(call[u])' /\ Own(call[u])'
    BY <2>1 DEF Good, Leads, UpToDate, Own
  <2> QED
    BY <2>2, <2>3 DEF Good
<1>5. Good(t, call[t])'
  BY <1>1
<1> QED
  BY <1>3, <1>4, <1>5 DEF HubInv

\* Fewer entries are as good.
LEMMA SubcacheGood ==
  ASSUME HubInv, NEW n, Subcache(n, mem), mem' = n, UNCHANGED <<offers, refreshed>>,
         loads' \in {loads, loads + 1}
  PROVE  MemGood(mem)'
<1>1. Keys' = Keys /\ Requests' = Requests
  BY DEF Keys, Requests
<1>2. ASSUME NEW k \in DOMAIN n.entries PROVE EntryGood(k, n.entries[k].frame)'
  <2>1. EntryGood(k, n.entries[k].frame) /\ refreshed[k] \in Nat
    BY DEF HubInv, Shared, MemGood, Subcache, EntryGood
  <2> QED
    BY <1>1, <2>1 DEF HubInv, Shared, EntryGood
<1>3. MemShape(n)
  BY DEF Subcache
<1>4. MemGood(n)'
  BY <1>2, <1>3 DEF MemGood, MemShape
<1> QED
  BY <1>4

\* The memory as it is.
LEMMA SameCache ==
  ASSUME HubInv
  PROVE  MemShape(mem) /\ Subcache(mem, mem)
BY DEF HubInv, MemGood, Subcache

\* A call begins: it can expect what was refreshed up to now.
LEMMA BeginHolds ==
  ASSUME HubInv, NEW t \in Threads, NEW r \in offers, NEW force \in BOOLEAN, Begin(t, r, force)
  PROVE  HubInv'
<1> DEFINE req == Resolve(r)
           k == KeyOf(req)
           rest == Without(mem, Expired(mem) \cap {k})
           step == IF force THEN "begin_load" ELSE "get"
           cached == ~force /\ k \in DOMAIN rest.entries
           floor == refreshed[k]
           begun == [Idle EXCEPT !.step = step, !.req = req, !.force = force, !.cached = cached, !.floor = floor]
           ended == [Idle EXCEPT !.step = "done", !.req = req, !.got = Failed("unsupported")]
<1>1. UNCHANGED <<offers, flights, loads, refreshed, usurped>>
  BY DEF Begin
<1>2. req \in Requests /\ k \in Keys
  BY DEF Requests, Keys
<1>3. IF Supported(req) THEN call' = [call EXCEPT ![t] = begun] /\ mem' = (IF force THEN mem ELSE rest)
      ELSE call' = [call EXCEPT ![t] = ended] /\ mem' = mem
  BY DEF Begin
<1>4. Subcache(rest, mem)
  BY SameCache, WithoutSubcache
<1>5. floor \in Nat /\ loads \in Nat
  BY <1>2 DEF HubInv, Shared
<1> HIDE DEF rest, cached
<1>6. PICK c : /\ c = begun /\ HasFields(c) /\ c.step = step /\ c.req = req /\ c.force = force
               /\ c.floor = floor /\ c.no = 0
  <2>1. /\ HasFields(begun) /\ begun.step = step /\ begun.req = req /\ begun.force = force
        /\ begun.floor = floor /\ begun.no = 0
    BY DEF Idle, HasFields, Fields
  <2> HIDE DEF begun
  <2> QED
    BY <2>1
<1>7. PICK d : /\ d = ended /\ HasFields(d) /\ d.step = "done" /\ d.req = req /\ d.got = Failed("unsupported")
               /\ d.floor = 0 /\ d.no = 0
  <2>1. /\ HasFields(ended) /\ ended.step = "done" /\ ended.req = req /\ ended.got = Failed("unsupported")
        /\ ended.floor = 0 /\ ended.no = 0
    BY DEF Idle, HasFields, Fields
  <2> HIDE DEF ended
  <2> QED
    BY <2>1
<1> HIDE DEF begun, ended, req
<1>8. MemGood(mem)'
  BY <1>1, <1>3, <1>4, <1>5, SameCache, SubcacheGood
<1>9. Requests' = Requests
  BY <1>1 DEF Requests
<1>10. Good(t, c)'
  <2>1. Placed(c)'
    BY <1>1, <1>2, <1>5, <1>6, <1>9 DEF Placed
  <2>2. Leads(t, c)'
    BY <1>6 DEF Leads, Leading
  <2>3. UpToDate(c)'
    BY <1>1, <1>2, <1>5, <1>6 DEF UpToDate
  <2> QED
    BY <1>6, <2>1, <2>2, <2>3 DEF Good, Own
<1>11. Good(t, d)'
  BY <1>1, <1>2, <1>5, <1>7, <1>9, FailedFacts DEF Good, Placed, Leads, Leading, UpToDate, Own
<1> QED
  BY <1>1, <1>3, <1>5, <1>6, <1>7, <1>8, <1>10, <1>11, LocalHolds

\* A call returns.
LEMMA ReturnHolds ==
  ASSUME HubInv, NEW t \in Threads, Return(t)
  PROVE  HubInv'
<1>1. UNCHANGED <<offers, mem, flights, loads, refreshed, usurped>> /\ call' = [call EXCEPT ![t] = Idle]
  BY DEF Return
<1>2. PICK c : c = Idle /\ HasFields(c) /\ c.step = "idle" /\ c.no = 0 /\ c.floor = 0
  <2>1. HasFields(Idle) /\ Idle.step = "idle" /\ Idle.no = 0 /\ Idle.floor = 0
    BY DEF Idle, HasFields, Fields
  <2> QED
    BY <2>1
<1>3. loads \in Nat
  BY DEF HubInv, Shared
<1>4. Good(t, c)'
  BY <1>1, <1>2, <1>3 DEF Good, Placed, Leads, Leading, UpToDate, Own
<1>5. MemGood(mem)'
  BY <1>1, <1>3, SameCache, SubcacheGood
<1> QED
  <2>1. call' = [call EXCEPT ![t] = c] /\ UNCHANGED <<offers, flights, refreshed, usurped>> /\ loads' = loads
    BY <1>1, <1>2
  <2> QED
    BY <1>4, <1>5, <2>1, LocalHolds

\* A look at the cache.
LEMMA GetHolds ==
  ASSUME HubInv, NEW t \in Threads, Get(t)
  PROVE  HubInv'
<1> DEFINE k == Key(t)
           hit == k \in DOMAIN mem.entries /\ ~mem.entries[k].expired
           frame == mem.entries[k].frame
           next == IF call[t].step = "get" THEN "join" ELSE "begin_load"
           e1 == [call[t] EXCEPT !.step = next]
           e2 == [call[t] EXCEPT !.step = "finish", !.got = frame]
           e3 == Done(t, frame)
<1>1. UNCHANGED <<offers, flights, loads, refreshed, usurped>> /\ call[t].step \in {"get", "recheck"}
  BY DEF Get
<1>2. /\ mem' = IF hit THEN Touched(mem, k) ELSE Without(mem, {k})
      /\ call' = [call EXCEPT ![t] = IF ~hit THEN e1 ELSE IF call[t].step = "get" THEN e3 ELSE e2]
  BY DEF Get
<1>3. Good(t, call[t]) /\ loads \in Nat
  BY DEF HubInv, Shared
<1>4. HasFields(call[t]) /\ call[t].req \in Requests /\ k = KeyOf(call[t].req) /\ k \in Keys
  BY <1>1, <1>3 DEF Good, Placed, Key, Keys
<1>5. hit => EntryGood(k, frame)
  BY DEF HubInv, MemGood
<1> HIDE DEF hit, frame
<1>6. PICK missed :
        /\ missed = e1 /\ HasFields(missed) /\ missed.step = next /\ missed.req = call[t].req /\ missed.no = call[t].no
        /\ missed.floor = call[t].floor /\ missed.force = call[t].force /\ missed.got = call[t].got
  <2>1. /\ HasFields(e1) /\ e1.step = next /\ e1.req = call[t].req /\ e1.no = call[t].no
        /\ e1.floor = call[t].floor /\ e1.force = call[t].force /\ e1.got = call[t].got
    BY <1>4 DEF HasFields, Fields
  <2> HIDE DEF e1
  <2> QED
    BY <2>1
<1>7. PICK found :
        /\ found = e2 /\ HasFields(found) /\ found.step = "finish" /\ found.req = call[t].req /\ found.no = call[t].no
        /\ found.floor = call[t].floor /\ found.force = call[t].force /\ found.got = frame
  <2>1. /\ HasFields(e2) /\ e2.step = "finish" /\ e2.req = call[t].req /\ e2.no = call[t].no
        /\ e2.floor = call[t].floor /\ e2.force = call[t].force /\ e2.got = frame
    BY <1>4 DEF HasFields, Fields
  <2> HIDE DEF e2
  <2> QED
    BY <2>1
<1>8. PICK answered :
        /\ answered = e3 /\ HasFields(answered) /\ answered.step = "done" /\ answered.req = call[t].req
        /\ answered.no = call[t].no /\ answered.floor = call[t].floor /\ answered.got = frame
  BY <1>4, DoneFacts
<1> HIDE DEF e1, e2, e3, k
<1>9. MemGood(mem)'
  <2>1. Subcache(mem', mem)
    BY <1>2, SameCache, TouchedSubcache, WithoutSubcache
  <2> QED
    BY <1>1, <1>3, <2>1, SubcacheGood
<1>10. Requests' = Requests
  BY <1>1 DEF Requests
<1>11. refreshed[k] \in Nat /\ call[t].floor \in Nat /\ call[t].floor <= refreshed[k]
  BY <1>1, <1>3, <1>4 DEF HubInv, Shared, Good, Placed, UpToDate
<1>12. Good(t, missed)'
  BY <1>1, <1>3, <1>4, <1>6, <1>10, <1>11 DEF Good, Placed, Leads, Leading, UpToDate, Own
<1>13. ASSUME hit, call[t].step = "get" PROVE Good(t, answered)'
  BY <1>1, <1>3, <1>4, <1>5, <1>8, <1>10, <1>11, <1>13 DEF Good, Placed, Leads, Leading, UpToDate, Own, EntryGood
<1>14. ASSUME hit, call[t].step = "recheck" PROVE Good(t, found)'
  BY <1>1, <1>3, <1>4, <1>5, <1>7, <1>10, <1>11, <1>14 DEF Good, Placed, Leads, Leading, UpToDate, Own, EntryGood
<1> QED
  <2>1. PICK c : call' = [call EXCEPT ![t] = c] /\ Good(t, c)'
    BY <1>1, <1>2, <1>6, <1>7, <1>8, <1>12, <1>13, <1>14
  <2> QED
    BY <1>1, <1>3, <1>9, <2>1, LocalHolds

\* A thread joins the flight of its key, or leads one if there is none.
LEMMA JoinHolds ==
  ASSUME HubInv, NEW t \in Threads, JoinFlight(t)
  PROVE  HubInv'
<1> DEFINE k == Key(t)
           leader == flights[k]
           e1 == [call[t] EXCEPT !.step = "recheck"]
           e2 == [call[t] EXCEPT !.step = "wait", !.got = leader]
<1>1. UNCHANGED <<offers, mem, loads, refreshed, usurped>> /\ call[t].step = "join"
  BY DEF JoinFlight
<1>2. IF leader = None THEN flights' = [flights EXCEPT ![k] = t] /\ call' = [call EXCEPT ![t] = e1]
      ELSE flights' = flights /\ call' = [call EXCEPT ![t] = e2]
  BY DEF JoinFlight
<1>3. Good(t, call[t]) /\ Shared
  BY DEF HubInv
<1>4. HasFields(call[t]) /\ call[t].req \in Requests /\ k = KeyOf(call[t].req) /\ k \in Keys
  BY <1>1, <1>3 DEF Good, Placed, Key, Keys
<1>5. PICK c : /\ c = e1 /\ HasFields(c) /\ c.step = "recheck" /\ c.req = call[t].req /\ c.no = call[t].no
               /\ c.floor = call[t].floor /\ c.force = call[t].force
  <2>1. /\ HasFields(e1) /\ e1.step = "recheck" /\ e1.req = call[t].req /\ e1.no = call[t].no
        /\ e1.floor = call[t].floor /\ e1.force = call[t].force
    BY <1>4 DEF HasFields, Fields
  <2> HIDE DEF e1
  <2> QED
    BY <2>1
<1>6. PICK d : /\ d = e2 /\ HasFields(d) /\ d.step = "wait" /\ d.req = call[t].req /\ d.no = call[t].no
               /\ d.floor = call[t].floor /\ d.force = call[t].force
  <2> HIDE DEF leader
  <2>1. /\ HasFields(e2) /\ e2.step = "wait" /\ e2.req = call[t].req /\ e2.no = call[t].no
        /\ e2.floor = call[t].floor /\ e2.force = call[t].force
    BY <1>4 DEF HasFields, Fields
  <2> HIDE DEF e2
  <2> QED
    BY <2>1
<1> HIDE DEF e1, e2
<1>7. MemGood(mem)'
  BY <1>1, SameCache, SubcacheGood
<1>8. Requests' = Requests /\ Keys' = Keys
  BY <1>1 DEF Requests, Keys
<1>9. CASE leader # None
  <2>1. Good(t, d)'
    BY <1>1, <1>3, <1>4, <1>6, <1>8 DEF Good, Placed, Leads, Leading, UpToDate, Own
  <2> QED
    BY <1>1, <1>2, <1>6, <1>7, <1>9, <2>1, LocalHolds
<1>10. CASE leader = None
  <2>1. call' = [call EXCEPT ![t] = c] /\ flights' = [flights EXCEPT ![k] = t]
    BY <1>2, <1>5, <1>10
  <2>2. /\ call' = [u \in Threads |-> call'[u]] /\ call'[t] = c /\ \A u \in Threads \ {t} : call'[u] = call[u]
        /\ flights' \in [Keys -> Threads \cup {None}] /\ flights'[k] = t
        /\ \A j \in Keys \ {k} : flights'[j] = flights[j]
    BY <1>3, <1>4, <2>1 DEF Shared
  <2>3. Shared'
    BY <1>1, <1>3, <1>8, <2>2 DEF Shared
  <2>4. Good(t, c)'
    <3>1. Placed(c)'
      BY <1>1, <1>3, <1>5, <1>8 DEF Good, Placed
    <3>2. Leads(t, c)'
      BY <1>4, <1>5, <2>2 DEF Leads
    <3>3. UpToDate(c)'
      BY <1>1, <1>3, <1>5 DEF Good, UpToDate
    <3> QED
      BY <1>5, <3>1, <3>2, <3>3 DEF Good, Own
  <2>5. ASSUME NEW u \in Threads \ {t} PROVE Good(u, call[u])'
    <3>1. Good(u, call[u]) /\ call'[u] = call[u]
      BY <2>2 DEF HubInv
    <3>2. Placed(call[u])'
      BY <1>1, <1>8, <3>1 DEF Good, Placed
    <3>3. UpToDate(call[u])' /\ Own(call[u])'
      BY <1>1, <3>1 DEF Good, UpToDate, Own
    <3>4. Leads(u, call[u])'
      <4> SUFFICES ASSUME call[u].step \in Leading, ~call[u].force
                   PROVE  flights'[KeyOf(call[u].req)] = u \/ KeyOf(call[u].req) \in usurped
        BY <1>1, <3>1 DEF Leads
      <4>1. call[u].req \in Requests /\ KeyOf(call[u].req) \in Keys
        BY <3>1 DEF Good, Placed, Leading, Keys
      <4>2. flights[KeyOf(call[u].req)] = u \/ KeyOf(call[u].req) \in usurped
        BY <3>1 DEF Good, Leads
      <4> QED
        BY <1>10, <2>2, <4>1, <4>2, HubAssumption
    <3> QED
      BY <3>2, <3>3, <3>4 DEF Good
  <2> QED
    BY <1>7, <2>2, <2>3, <2>4, <2>5 DEF HubInv
<1> QED
  BY <1>9, <1>10

\* A load begins with the next number.
LEMMA BeginLoadHolds ==
  ASSUME HubInv, NEW t \in Threads, BeginLoad(t)
  PROVE  HubInv'
<1> DEFINE n == loads + 1
           e == [call[t] EXCEPT !.step = "load", !.no = n]
<1>1. UNCHANGED <<offers, mem, flights, refreshed, usurped>> /\ loads' = n /\ call[t].step = "begin_load"
  BY DEF BeginLoad
<1>2. call' = [call EXCEPT ![t] = e]
  BY DEF BeginLoad
<1>3. Good(t, call[t]) /\ Shared
  BY DEF HubInv
<1>4. HasFields(call[t]) /\ call[t].req \in Requests /\ KeyOf(call[t].req) \in Keys
  BY <1>1, <1>3 DEF Good, Placed, Keys
<1>5. PICK c : /\ c = e /\ HasFields(c) /\ c.step = "load" /\ c.req = call[t].req /\ c.no = n
               /\ c.floor = call[t].floor /\ c.force = call[t].force
  <2> HIDE DEF n
  <2>1. /\ HasFields(e) /\ e.step = "load" /\ e.req = call[t].req /\ e.no = n
        /\ e.floor = call[t].floor /\ e.force = call[t].force
    BY <1>4 DEF HasFields, Fields
  <2> HIDE DEF e
  <2> QED
    BY <2>1
<1> HIDE DEF e
<1>6. Requests' = Requests
  BY <1>1 DEF Requests
<1>7. Good(t, c)'
  <2>1. refreshed[KeyOf(call[t].req)] \in Nat /\ refreshed[KeyOf(call[t].req)] <= loads /\ loads \in Nat
    BY <1>3, <1>4 DEF Shared
  <2>2. Placed(c)'
    BY <1>1, <1>3, <1>4, <1>5, <1>6, <2>1 DEF Good, Placed
  <2>3. Leads(t, c)'
    BY <1>1, <1>3, <1>5 DEF Good, Leads, Leading
  <2>4. UpToDate(c)'
    BY <1>1, <1>3, <1>5, <2>1 DEF Good, UpToDate
  <2> QED
    BY <1>5, <2>2, <2>3, <2>4 DEF Good, Own
<1>8. MemGood(mem)'
  BY <1>1, SameCache, SubcacheGood
<1> QED
  BY <1>1, <1>2, <1>5, <1>7, <1>8, LocalHolds

\* A load ends with an error, or with a frame of its number.
LEMMA EndLoadHolds ==
  ASSUME HubInv, NEW t \in Threads, EndLoad(t)
  PROVE  HubInv'
<1>1. UNCHANGED <<offers, mem, flights, loads, refreshed, usurped>> /\ call[t].step = "load"
  BY DEF EndLoad
<1>2. Good(t, call[t]) /\ Shared
  BY DEF HubInv
<1>3. HasFields(call[t]) /\ call[t].req \in Requests /\ call[t].no \in Nat /\ call[t].no > 0
  BY <1>1, <1>2 DEF Good, Placed
<1>4. PICK c : /\ call' = [call EXCEPT ![t] = c] /\ HasFields(c) /\ c.req = call[t].req /\ c.no = call[t].no
               /\ c.floor = call[t].floor /\ c.force = call[t].force
               /\ \/ c.step = "finish" /\ ~IsFrame(c.got)
                  \/ c.step = "put" /\ IsFrame(c.got) /\ c.got.load = call[t].no /\ Matches(c.got, c.req)
  <2>1. PICK got \in Loaded[call[t].req] :
          call' = [call EXCEPT ![t].step = IF "error" \in DOMAIN got THEN "finish" ELSE "put",
                               ![t].got = IF "error" \in DOMAIN got THEN got ELSE [got EXCEPT !.load = call[t].no]]
    BY DEF EndLoad
  <2> DEFINE numbered == [got EXCEPT !.load = call[t].no]
             answer == IF IsFrame(got) THEN numbered ELSE got
             step == IF IsFrame(got) THEN "put" ELSE "finish"
             e == [call[t] EXCEPT !.step = step, !.got = answer]
  <2>2. call' = [call EXCEPT ![t] = e]
    BY <2>1 DEF IsFrame
  <2>3. IsFrame(got) => IsFrame(numbered) /\ numbered.load = call[t].no /\ Matches(numbered, call[t].req)
    <3> SUFFICES ASSUME IsFrame(got) PROVE IsFrame(numbered) /\ numbered.load = call[t].no /\ Matches(numbered, call[t].req)
      OBVIOUS
    <3>1. FrameShape(got) /\ Matches(got, call[t].req)
      BY <1>2, <1>3, LoadedMatches DEF Shared
    <3> QED
      BY <3>1 DEF FrameShape, FrameFields, IsFrame, Matches
  <2> HIDE DEF numbered
  <2>4. \/ step = "finish" /\ ~IsFrame(answer)
        \/ step = "put" /\ IsFrame(answer) /\ answer.load = call[t].no /\ Matches(answer, call[t].req)
    BY <2>3
  <2> HIDE DEF answer, step
  <2>5. /\ HasFields(e) /\ e.req = call[t].req /\ e.no = call[t].no
        /\ e.floor = call[t].floor /\ e.force = call[t].force /\ e.step = step /\ e.got = answer
    BY <1>3 DEF HasFields, Fields
  <2> HIDE DEF e
  <2> QED
    BY <2>2, <2>4, <2>5
<1>5. Requests' = Requests
  BY <1>1 DEF Requests
<1>6. Good(t, c)'
  BY <1>1, <1>2, <1>3, <1>4, <1>5 DEF Good, Placed, Leads, Leading, UpToDate, Own
<1>7. MemGood(mem)'
  BY <1>1, SameCache, SubcacheGood
<1> QED
  BY <1>1, <1>4, <1>6, <1>7, LocalHolds

\* A store puts a frame where no newer one is, and a forced one is a refresh if
\* no older load of its key is under way.
LEMMA StoreHolds ==
  ASSUME HubInv, NEW t \in Threads, Store(t)
  PROVE  HubInv'
<1> DEFINE k == Key(t)
           size == Size[call[t].req.endpoint]
           n == call[t].no
           e == [call[t] EXCEPT !.step = "finish"]
<1>1. UNCHANGED <<offers, flights, loads, usurped>> /\ call[t].step = "put"
  BY DEF Store
<1>2. /\ call' = [call EXCEPT ![t] = e]
      /\ IF size > MaxEntryBytes THEN mem' = mem ELSE mem' \in Put(mem, k, call[t].got, size)
      /\ refreshed' = IF call[t].force /\ size <= MaxEntryBytes /\ ~OlderUnderWay(t)
                      THEN [refreshed EXCEPT ![k] = n] ELSE refreshed
  BY DEF Store
<1>3. Good(t, call[t]) /\ Shared /\ MemGood(mem)
  BY DEF HubInv
<1>4. HasFields(call[t]) /\ call[t].req \in Requests /\ k = KeyOf(call[t].req) /\ k \in Keys
  BY <1>1, <1>3 DEF Good, Placed, Key, Keys
<1>5. /\ n \in Nat /\ n > 0 /\ n <= loads /\ refreshed[k] <= n /\ IsFrame(call[t].got) /\ call[t].got.load = n
      /\ refreshed[k] \in Nat /\ loads \in Nat
  BY <1>1, <1>3, <1>4 DEF Good, Placed, UpToDate, Shared
<1>6. PICK c : /\ c = e /\ HasFields(c) /\ c.step = "finish" /\ c.req = call[t].req /\ c.no = call[t].no
               /\ c.floor = call[t].floor /\ c.force = call[t].force /\ c.got = call[t].got
  <2>1. /\ HasFields(e) /\ e.step = "finish" /\ e.req = call[t].req /\ e.no = call[t].no
        /\ e.floor = call[t].floor /\ e.force = call[t].force /\ e.got = call[t].got
    BY <1>4 DEF HasFields, Fields
  <2> HIDE DEF e
  <2> QED
    BY <2>1
<1> HIDE DEF e, size
<1>7. /\ call' = [u \in Threads |-> call'[u]] /\ call'[t] = c /\ \A u \in Threads \ {t} : call'[u] = call[u]
  BY <1>2, <1>3, <1>6 DEF Shared
<1>8. Requests' = Requests /\ Keys' = Keys
  BY <1>1 DEF Requests, Keys
<1> HIDE DEF k
<1>9. /\ refreshed' \in [Keys -> Nat] /\ \A j \in Keys \ {k} : refreshed'[j] = refreshed[j]
      /\ \/ refreshed'[k] = refreshed[k]
         \/ refreshed'[k] = n /\ ~OlderUnderWay(t)
  <2>1. refreshed \in [Keys -> Nat]
    BY <1>3 DEF Shared
  <2> HIDE DEF n
  <2> QED
    BY <1>2, <1>4, <1>5, <2>1
<1>10. refreshed[k] <= refreshed'[k] /\ refreshed'[k] <= n /\ refreshed'[k] \in Nat
  BY <1>4, <1>5, <1>9
<1>11. Shared'
  <2>1. \A j \in Keys : refreshed'[j] <= loads
    BY <1>3, <1>5, <1>9, <1>10 DEF Shared
  <2> QED
    BY <1>1, <1>3, <1>7, <1>8, <1>9, <2>1 DEF Shared
<1>12. (mem' = mem /\ refreshed' = refreshed) \/ mem' \in Put(mem, k, call[t].got, size)
  <2>1. size \in Nat /\ MaxEntryBytes \in Nat
    BY <1>3, <1>4, RequestShape, HubAssumption DEF size, Shared
  <2> QED
    BY <1>2, <2>1
<1>13. \A r \in Requests : KeyOf(r) = k => Matches(call[t].got, r)
  <2>1. Matches(call[t].got, call[t].req)
    BY <1>1, <1>3, <1>5 DEF Good, Own
  <2> QED
    BY <1>3, <1>4, <2>1, KeyDecides DEF Shared
<1>14. MemGood(mem)'
  <2>1. CASE mem' = mem /\ refreshed' = refreshed
    BY <1>1, <1>3, <1>8, <2>1 DEF MemGood, MemShape, EntryGood
  <2>2. CASE mem' \in Put(mem, k, call[t].got, size)
    <3>1. /\ MemShape(mem') /\ DOMAIN mem'.entries \subseteq DOMAIN mem.entries \cup {k}
          /\ \A j \in DOMAIN mem'.entries :
               mem'.entries[j].frame = IF j = k THEN call[t].got ELSE mem.entries[j].frame
      BY <1>3, <2>2, PutFrames DEF MemGood
    <3>3. ASSUME NEW j \in DOMAIN mem'.entries PROVE EntryGood(j, mem.entries[j].frame)'
      <4>1. PICK got : got = mem'.entries[j].frame
        OBVIOUS
      <4>2. CASE j = k
        <5>1. got = call[t].got
          BY <3>1, <4>1, <4>2
        <5> QED
          BY <1>1, <1>13, <1>4, <1>5, <1>8, <1>10, <4>1, <4>2, <5>1 DEF EntryGood, IsFrame
      <4>3. CASE j # k
        <5>1. EntryGood(j, got)
          BY <1>3, <3>1, <4>1, <4>3 DEF MemGood
        <5>2. refreshed'[j] = refreshed[j]
          BY <1>9, <4>3, <5>1 DEF EntryGood
        <5> QED
          BY <1>1, <1>8, <4>1, <5>1, <5>2 DEF EntryGood, IsFrame
      <4> QED
        BY <4>2, <4>3
    <3> QED
      BY <3>1, <3>3 DEF MemGood, MemShape
  <2> QED
    BY <1>12, <2>1, <2>2
<1>15. Good(t, c)'
  <2>1. Placed(c)'
    BY <1>1, <1>3, <1>5, <1>6, <1>8 DEF Good, Placed
  <2>2. Leads(t, c)'
    BY <1>1, <1>3, <1>6 DEF Good, Leads, Leading
  <2>3. UpToDate(c)'
    BY <1>1, <1>3, <1>4, <1>5, <1>6, <1>10 DEF Good, Placed, UpToDate
  <2> QED
    BY <1>1, <1>3, <1>6, <2>1, <2>2, <2>3 DEF Good, Own
<1>16. ASSUME NEW u \in Threads \ {t} PROVE Good(u, call[u])'
  <2>1. Good(u, call[u]) /\ call'[u] = call[u]
    BY <1>7 DEF HubInv
  <2>2. Placed(call[u])' /\ Leads(u, call[u])' /\ Own(call[u])'
    BY <1>1, <1>8, <2>1 DEF Good, Placed, Leads, Own
  <2>3. UpToDate(call[u])'
    <3>1. CASE call[u].step \in {"idle", "done"}
      BY <2>1, <3>1 DEF Good, UpToDate
    <3>2. CASE call[u].step \notin {"idle", "done"}
      <4> DEFINE j == KeyOf(call[u].req)
      <4>1. j \in Keys /\ j = Key(u) /\ call[u].floor \in Nat /\ call[u].no \in Nat
        BY <2>1, <3>2 DEF Good, Placed, Keys, Key
      <4>2. CASE refreshed'[j] = refreshed[j]
        BY <2>1, <4>2 DEF Good, UpToDate
      <4>3. CASE refreshed'[j] # refreshed[j]
        <5>1. j = k /\ refreshed'[j] = n /\ ~OlderUnderWay(t)
          BY <1>9, <4>1, <4>3
        <5>2. call[u].step \in {"load", "put", "finish"} => ~(call[u].no < n)
          BY <4>1, <5>1 DEF OlderUnderWay, n, k
        <5>3. call[u].floor <= refreshed'[j]
          <6>1. call[u].floor <= refreshed[k]
            BY <2>1, <3>2, <5>1 DEF Good, UpToDate
          <6> HIDE DEF j
          <6> QED
            BY <1>5, <1>10, <4>1, <5>1, <6>1
        <5>4. ASSUME call[u].step = "finish", IsFrame(call[u].got) PROVE call[u].got.load >= n
          <6>1. call[u].got.load \in Nat /\ call[u].no \in {0, call[u].got.load}
            BY <2>1, <5>4 DEF Good, Placed
          <6> HIDE DEF n
          <6> QED
            BY <1>5, <4>1, <5>2, <5>4, <6>1
        <5>5. ASSUME call[u].step \in {"load", "put"} PROVE call[u].no >= n
          <6> HIDE DEF n
          <6> QED
            BY <1>5, <4>1, <5>2, <5>5
        <5> HIDE DEF n
        <5> QED
          BY <2>1, <3>2, <5>1, <5>3, <5>4, <5>5 DEF UpToDate, IsFrame
      <4> QED
        BY <4>2, <4>3
    <3> QED
      BY <3>1, <3>2
  <2> QED
    BY <2>2, <2>3 DEF Good
<1> QED
  BY <1>7, <1>11, <1>14, <1>15, <1>16 DEF HubInv

\* A flight ends, and its waiters have its value: no older than when they began.
LEMMA FinishHolds ==
  ASSUME HubInv, NEW t \in Threads, FinishFlight(t)
  PROVE  HubInv'
<1> DEFINE k == Key(t)
           waits(u) == u # t /\ call[u].step = "wait" /\ Key(u) = k /\ call[u].got = flights[k]
<1>1. UNCHANGED <<offers, mem, loads, refreshed>> /\ call[t].step = "finish"
  BY DEF FinishFlight
<1>2. /\ flights' = [flights EXCEPT ![k] = None]
      /\ usurped' = IF flights[k] \in {None, t} THEN usurped ELSE usurped \cup {k}
      /\ call' = [u \in Threads |-> IF u = t \/ waits(u) THEN Done(u, call[t].got) ELSE call[u]]
  <2>1. call' = [u \in Threads |->
           IF u = t THEN Done(t, call[t].got)
           ELSE IF call[u].step = "wait" /\ Key(u) = k /\ call[u].got = flights[k]
                THEN Done(u, call[t].got) ELSE call[u]]
    BY DEF FinishFlight
  <2>2. call' = [u \in Threads |-> IF u = t \/ waits(u) THEN Done(u, call[t].got) ELSE call[u]]
    BY <2>1
  <2> QED
    BY <2>2 DEF FinishFlight
<1>3. Good(t, call[t]) /\ Shared
  BY DEF HubInv
<1>4. call[t].req \in Requests /\ k = KeyOf(call[t].req) /\ k \in Keys
  BY <1>1, <1>3 DEF Good, Placed, Key, Keys
<1>5. PICK got : got = call[t].got
  OBVIOUS
<1>6. /\ IsFrame(got) => got.load \in Nat /\ got.load >= refreshed[k]
      /\ refreshed[k] \in Nat
  BY <1>1, <1>3, <1>4, <1>5 DEF Good, Placed, UpToDate, Shared
<1>7. Requests' = Requests /\ Keys' = Keys
  BY <1>1 DEF Requests, Keys
<1>8. Shared' /\ (\A j \in Keys : flights'[j] = IF j = k THEN None ELSE flights[j])
  BY <1>1, <1>2, <1>3, <1>4, <1>7 DEF Shared
<1>9. MemGood(mem)'
  BY <1>1, SameCache, SubcacheGood
<1>10. ASSUME NEW u \in Threads, u = t \/ waits(u) PROVE Good(u, call[u])'
  <2>1. Good(u, call[u]) /\ HasFields(call[u]) /\ call[u].step # "idle" /\ call[u].step # "done"
    BY <1>1, <1>10 DEF HubInv, Good, Placed
  <2>2. call'[u] = Done(u, got)
    BY <1>2, <1>5, <1>10
  <2>3. PICK c : /\ c = call'[u] /\ HasFields(c) /\ c.step = "done" /\ c.got = got /\ c.req = call[u].req
                 /\ c.no = call[u].no /\ c.floor = call[u].floor
    BY <2>1, <2>2, DoneFacts
  <2>4. c.floor \in Nat /\ c.floor <= refreshed[k]
    <3>1. KeyOf(call[u].req) = k
      BY <1>4, <1>10 DEF Key
    <3> QED
      BY <2>1, <2>3, <3>1 DEF Good, Placed, UpToDate
  <2>5. IsFrame(c.got) => c.got.load >= c.floor
    BY <1>6, <2>3, <2>4 DEF IsFrame
  <2>6. Placed(c)' /\ Leads(u, c)'
    BY <1>1, <1>7, <2>1, <2>3 DEF Good, Placed, Leads, Leading
  <2>7. UpToDate(c)'
    BY <2>3, <2>5 DEF UpToDate
  <2>8. IsFrame(got) => Matches(got, c.req)
    <3> SUFFICES ASSUME IsFrame(got) PROVE Matches(got, c.req)
      OBVIOUS
    <3>1. Matches(got, call[t].req)
      BY <1>1, <1>3, <1>5 DEF Good, Own
    <3>2. c.req \in Requests /\ KeyOf(c.req) = KeyOf(call[t].req)
      BY <1>4, <1>10, <2>1, <2>3 DEF Good, Placed, Key
    <3> QED
      BY <1>3, <1>4, <3>1, <3>2, KeyDecides DEF Shared
  <2> QED
    BY <2>3, <2>6, <2>7, <2>8 DEF Good, Own
<1>11. ASSUME NEW u \in Threads, u # t, ~waits(u) PROVE Good(u, call[u])'
  <2>1. Good(u, call[u]) /\ call'[u] = call[u]
    BY <1>2, <1>11 DEF HubInv
  <2>2. Placed(call[u])' /\ UpToDate(call[u])' /\ Own(call[u])'
    BY <1>1, <1>7, <2>1 DEF Good, Placed, UpToDate, Own
  <2>3. Leads(u, call[u])'
    <3> SUFFICES ASSUME call[u].step \in Leading, ~call[u].force
                 PROVE  flights'[KeyOf(call[u].req)] = u \/ KeyOf(call[u].req) \in usurped'
      BY <2>1 DEF Leads
    <3>1. KeyOf(call[u].req) \in Keys
      BY <2>1 DEF Good, Placed, Leading, Keys
    <3>2. flights[KeyOf(call[u].req)] = u \/ KeyOf(call[u].req) \in usurped
      BY <2>1 DEF Good, Leads
    <3>3. u # None
      BY HubAssumption
    <3> HIDE DEF k
    <3> QED
      BY <1>2, <1>8, <1>11, <3>1, <3>2, <3>3
  <2> QED
    BY <2>2, <2>3 DEF Good
<1> HIDE DEF waits
<1> QED
  BY <1>8, <1>9, <1>10, <1>11 DEF HubInv

\* Entries run out, are invalidated or cleared.
LEMMA DropHolds ==
  ASSUME HubInv, (\E k \in DOMAIN mem.entries : Expire(k) \/ Invalidate(k)) \/ Clear \/ UNCHANGED vars
  PROVE  HubInv'
<1>1. UNCHANGED <<offers, flights, call, loads, refreshed, usurped>>
  BY DEF Expire, Invalidate, Clear, vars
<1>2. MemShape(mem)
  BY SameCache
<1>3. Subcache(mem', mem)
  <2>1. ASSUME NEW k \in DOMAIN mem.entries, Expire(k) PROVE Subcache(mem', mem)
    <3> DEFINE entry == [mem.entries[k] EXCEPT !.expired = TRUE]
               entries == [mem.entries EXCEPT ![k] = entry]
    <3>1. mem' = [mem EXCEPT !.entries = entries]
      BY <1>2, <2>1 DEF Expire
    <3>2. entry = [f \in EntryFields |-> entry[f]] /\ entry.frame = mem.entries[k].frame
      BY <1>2 DEF MemShape, EntryFields
    <3> HIDE DEF entry
    <3>3. DOMAIN entries = DOMAIN mem.entries
          /\ \A j \in DOMAIN entries : entries[j] = IF j = k THEN entry ELSE mem.entries[j]
      OBVIOUS
    <3> HIDE DEF entries
    <3>4. mem' = [f \in MemFields |-> mem'[f]] /\ mem'.entries = entries
      BY <1>2, <3>1 DEF MemShape, MemFields
    <3> QED
      BY <1>2, <3>2, <3>3, <3>4 DEF Subcache, MemShape
  <2>2. ASSUME NEW k \in DOMAIN mem.entries, Invalidate(k) PROVE Subcache(mem', mem)
    BY <1>2, <2>2, WithoutSubcache DEF Invalidate
  <2>3. CASE Clear
    <3>1. mem' = [Empty EXCEPT !.stores = mem.stores]
      BY <2>3 DEF Clear
    <3>2. mem' = [f \in MemFields |-> mem'[f]] /\ DOMAIN mem'.entries = {}
      BY <3>1 DEF Empty, MemFields
    <3> QED
      BY <3>2 DEF Subcache, MemShape
  <2>4. CASE UNCHANGED vars
    BY <2>4, SameCache DEF vars
  <2> QED
    BY <2>1, <2>2, <2>3, <2>4
<1>4. MemGood(mem)'
  BY <1>1, <1>3, SubcacheGood
<1>5. Requests' = Requests /\ Keys' = Keys
  BY <1>1 DEF Requests, Keys
<1>6. \A t \in Threads : Good(t, call[t])'
  BY <1>1, <1>5 DEF HubInv, Good, Placed, Leads, UpToDate, Own
<1>7. Shared'
  BY <1>1, <1>5 DEF HubInv, Shared
<1> QED
  BY <1>4, <1>6, <1>7 DEF HubInv

\* Every step keeps the invariant.
LEMMA StepHolds == HubInv /\ [Next]_vars => HubInv'
<1> SUFFICES ASSUME HubInv, [Next]_vars PROVE HubInv'
  OBVIOUS
<1>1. CASE \E t \in Threads, r \in offers, force \in BOOLEAN : Begin(t, r, force)
  BY <1>1, BeginHolds
<1>2. CASE \E t \in Threads : Step(t) \/ Return(t)
  BY <1>2, GetHolds, JoinHolds, BeginLoadHolds, EndLoadHolds, StoreHolds, FinishHolds, ReturnHolds DEF Step
<1>3. CASE (\E k \in DOMAIN mem.entries : Expire(k) \/ Invalidate(k)) \/ Clear \/ UNCHANGED vars
  BY <1>3, DropHolds
<1> QED
  BY <1>1, <1>2, <1>3 DEF Next
-----------------------------------------------------------------------------
(* Minimal sets, and recursion over the subsets of a finite set *)

\* No other member of B is a part of s.
IsMinimal(s, B) == \A r \in B : ~(r \subseteq s /\ r # s)

\* Of a set of subsets of a finite set that is not empty, one is minimal.
LEMMA MinimalSet ==
  ASSUME NEW S, IsFiniteSet(S), NEW B \in SUBSET SUBSET S, B # {}
  PROVE  \E s \in B : IsMinimal(s, B)
<1> DEFINE R == StrictSubsetOrdering(S)
           F == FiniteSubsetsOf(S)
<1>1. IsWellFoundedOn(R, F)
  BY FS_StrictSubsetOrderingWellFounded
<1>2. B \subseteq F
  BY FS_Subset DEF FiniteSubsetsOf
<1>3. PICK s \in B : \A r \in B : <<r, s>> \notin R
  <2> HIDE DEF R, F
  <2> QED
    BY <1>1, <1>2, WFMin
<1>4. ASSUME NEW r \in B, r \subseteq s, r # s PROVE FALSE
  <2>1. <<r, s>> \in R
    BY <1>4 DEF StrictSubsetOrdering
  <2> QED
    BY <1>3, <2>1
<1> QED
  BY <1>3, <1>4 DEF IsMinimal

\* Recursion over the subsets of S: base for the empty set, else a step from the set
\* without the member pick chooses.
Recurses(S, V, base, pick, step) ==
  /\ IsFiniteSet(S) /\ base \in V
  /\ \A s \in SUBSET S : s # {} => pick[s] \in s
  /\ \A x \in S, v \in V : step[<<x, v>>] \in V

Solution(f, S, base, pick, step) ==
  \A s \in SUBSET S : f[s] = IF s = {} THEN base ELSE step[<<pick[s], f[s \ {pick[s]}]>>]

\* It has a solution: f holds it for the sets of at most n members, for every n,
\* since there is no least set of whose size none does.
LEMMA SubsetRecursion ==
  ASSUME NEW S, NEW V, NEW base, NEW pick, NEW step, Recurses(S, V, base, pick, step)
  PROVE  \E f \in [SUBSET S -> V] : Solution(f, S, base, pick, step)
<1> USE DEF Recurses, Solution
<1>1. PICK size \in [SUBSET S -> Nat] : \A s \in SUBSET S : size[s] = Cardinality(s)
  <2>1. \A s \in SUBSET S : Cardinality(s) \in Nat
    BY FS_Subset, FS_CardinalityType
  <2>2. [s \in SUBSET S |-> Cardinality(s)] \in [SUBSET S -> Nat]
    BY <2>1
  <2> QED
    BY <2>2
<1>2. \A s \in SUBSET S : /\ size[s] = 0 <=> s = {}
                          /\ size[s] <= size[S]
                          /\ \A x \in s : size[s \ {x}] = size[s] - 1
  <2> TAKE s \in SUBSET S
  <2>1. IsFiniteSet(s) /\ Cardinality(s) <= Cardinality(S)
    BY FS_Subset
  <2>2. Cardinality(s) = 0 <=> s = {}
    BY <2>1, FS_EmptySet
  <2>3. ASSUME NEW x \in s PROVE size[s \ {x}] = size[s] - 1
    <3>1. Cardinality(s \ {x}) = Cardinality(s) - 1
      BY <2>1, FS_RemoveElement
    <3> QED
      BY <1>1, <3>1
  <2> QED
    BY <1>1, <2>1, <2>2, <2>3
<1> DEFINE Small(n) == {s \in SUBSET S : size[s] <= n}
           Solves(f, n) == \A s \in Small(n) : f[s] = IF s = {} THEN base ELSE step[<<pick[s], f[s \ {pick[s]}]>>]
           Solved(n) == \E f \in [Small(n) -> V] : Solves(f, n)
<1>4. Solved(0)
  <2> DEFINE f == [s \in Small(0) |-> base]
  <2>1. f \in [Small(0) -> V]
    OBVIOUS
  <2>2. \A s \in Small(0) : s = {}
    BY <1>1, <1>2
  <2>3. Solves(f, 0)
    BY <2>2
  <2> HIDE DEF Solves, Small, f
  <2> QED
    BY <2>1, <2>3
<1>5. ASSUME NEW n \in Nat, Solved(n) PROVE Solved(n + 1)
  <2>1. PICK f \in [Small(n) -> V] : Solves(f, n)
    BY <1>5
  <2> DEFINE g == [s \in Small(n + 1) |-> IF s = {} THEN base ELSE step[<<pick[s], f[s \ {pick[s]}]>>]]
  <2>2. ASSUME NEW s \in Small(n + 1), s # {} PROVE s \ {pick[s]} \in Small(n) /\ pick[s] \in S
    <3>1. pick[s] \in s /\ size[s \ {pick[s]}] = size[s] - 1
      BY <1>2, <2>2
    <3> QED
      BY <1>1, <3>1
  <2>3. g \in [Small(n + 1) -> V]
    <3> HIDE DEF Small, Solves
    <3> QED
      BY <2>2
  <2>4. \A s \in Small(n) : g[s] = f[s]
    <3>1. Small(n) \subseteq Small(n + 1)
      BY <1>1
    <3> HIDE DEF Small
    <3> QED
      BY <2>1, <3>1
  <2>5. Solves(g, n + 1)
    <3> HIDE DEF Small
    <3> QED
      BY <2>2, <2>4
  <2> HIDE DEF Solves, Small, g
  <2> QED
    BY <2>3, <2>5
<1>6. \A s \in SUBSET S : Solved(size[s])
  <2> DEFINE B == {s \in SUBSET S : ~Solved(size[s])}
  <2> HIDE DEF Solved
  <2>1. SUFFICES ASSUME B # {} PROVE FALSE
    OBVIOUS
  <2>2. PICK s \in B : IsMinimal(s, B)
    <3> HIDE DEF B
    <3>1. B \in SUBSET SUBSET S
      BY DEF B
    <3> QED
      BY <2>1, <3>1, MinimalSet
  <2>3. s # {}
    BY <1>2, <1>4
  <2>4. PICK x \in s : TRUE
    BY <2>3
  <2>5. s \ {x} \notin B /\ s \ {x} \in SUBSET S
    BY <2>2 DEF IsMinimal
  <2>6. Solved(size[s] - 1)
    BY <1>2, <2>4, <2>5
  <2>7. size[s] - 1 \in Nat /\ (size[s] - 1) + 1 = size[s]
    BY <1>1, <1>2, <2>3
  <2> QED
    BY <1>5, <2>6, <2>7
<1>7. Small(size[S]) = SUBSET S
  BY <1>2
<1>8. PICK f \in [Small(size[S]) -> V] : Solves(f, size[S])
  BY <1>6
<1> QED
  BY <1>7, <1>8
-----------------------------------------------------------------------------
(* Sums of sizes *)

\* The entries are finitely many, with sizes.
Sizes(entries) == IsFiniteSet(DOMAIN entries) /\ \A k \in DOMAIN entries : entries[k].size \in Nat

\* f has the sums of the sizes of sets of entries, whichever entry comes first.
IsSums(f, entries, ks) ==
  /\ SizeSum(entries, ks) = f[ks] /\ f[{}] = 0
  /\ \A s \in SUBSET ks : \A k \in s : f[s] = entries[k].size + f[s \ {k}]

\* There are such sums: SizeSum takes the entries in one order, and any other order
\* gives the same.
LEMMA SizeSums ==
  ASSUME NEW entries, Sizes(entries), NEW ks, ks \subseteq DOMAIN entries
  PROVE  \E f \in [SUBSET ks -> Nat] : IsSums(f, entries, ks)
<1> DEFINE pick == [s \in SUBSET ks |-> CHOOSE k \in s : TRUE]
           step == [p \in ks \X Nat |-> entries[p[1]].size + p[2]]
           Is(f) == f = [s \in SUBSET ks |-> IF s = {} THEN 0
                                             ELSE entries[CHOOSE k \in s : TRUE].size + f[s \ {CHOOSE k \in s : TRUE}]]
           sum == CHOOSE f : Is(f)
<1>1. ks \cap DOMAIN entries = ks
  OBVIOUS
<1>2. SizeSum(entries, ks) = sum[ks]
  BY <1>1 DEF SizeSum, MapThenSumSet, MapThenFoldSet
<1>3. IsFiniteSet(ks) /\ \A k \in ks : entries[k].size \in Nat
  BY FS_Subset DEF Sizes
<1>4. \A s \in SUBSET ks : s # {} => pick[s] \in s
  OBVIOUS
<1>5. \A k \in ks, v \in Nat : step[<<k, v>>] = entries[k].size + v /\ step[<<k, v>>] \in Nat
  BY <1>3
<1>6. PICK f \in [SUBSET ks -> Nat] : Solution(f, ks, 0, pick, step)
  <2>1. Recurses(ks, Nat, 0, pick, step)
    BY <1>3, <1>4, <1>5 DEF Recurses
  <2> HIDE DEF pick, step
  <2> QED
    BY <2>1, SubsetRecursion
<1>7. ASSUME NEW s \in SUBSET ks, s # {} PROVE f[s] = entries[pick[s]].size + f[s \ {pick[s]}]
  <2>1. pick[s] \in ks /\ s \ {pick[s]} \in SUBSET ks
    BY <1>4, <1>7
  <2>2. f[s \ {pick[s]}] \in Nat
    BY <2>1
  <2> HIDE DEF pick, step
  <2> QED
    BY <1>5, <1>6, <1>7, <2>1, <2>2 DEF Solution
<1>8. f[{}] = 0
  BY <1>6 DEF Solution
<1>9. Is(f)
  <2>1. \A s \in SUBSET ks : f[s] = IF s = {} THEN 0 ELSE entries[CHOOSE k \in s : TRUE].size + f[s \ {CHOOSE k \in s : TRUE}]
    BY <1>7, <1>8
  <2>2. f = [s \in SUBSET ks |-> f[s]]
    OBVIOUS
  <2> QED
    BY <2>1, <2>2
<1>10. Is(sum)
  <2> HIDE DEF Is
  <2> QED
    BY <1>9
<1> HIDE DEF sum
<1>11. \A s \in SUBSET ks : sum[s] = IF s = {} THEN 0 ELSE entries[CHOOSE k \in s : TRUE].size + sum[s \ {CHOOSE k \in s : TRUE}]
  BY <1>10
<1> HIDE DEF step
<1>12. \A s \in SUBSET ks : sum[s] = f[s]
  <2> DEFINE B == {s \in SUBSET ks : sum[s] # f[s]}
  <2>1. SUFFICES ASSUME B # {} PROVE FALSE
    OBVIOUS
  <2>2. PICK s \in B : IsMinimal(s, B)
    <3>1. B \in SUBSET SUBSET ks
      OBVIOUS
    <3> HIDE DEF B
    <3> QED
      BY <1>3, <2>1, <3>1, MinimalSet
  <2>3. s # {} /\ pick[s] \in s
    BY <1>4, <1>8, <1>11
  <2>4. s \ {pick[s]} \notin B /\ s \ {pick[s]} \in SUBSET ks
    BY <2>2, <2>3 DEF IsMinimal
  <2>5. sum[s] = entries[pick[s]].size + sum[s \ {pick[s]}]
    BY <1>11, <2>3
  <2> QED
    BY <1>7, <2>3, <2>4, <2>5
<1>13. \A s \in SUBSET ks : \A k \in s : f[s] = entries[k].size + f[s \ {k}]
  <2> DEFINE B == {s \in SUBSET ks : \E k \in s : f[s] # entries[k].size + f[s \ {k}]}
  <2>1. SUFFICES ASSUME B # {} PROVE FALSE
    OBVIOUS
  <2>2. PICK s \in B : IsMinimal(s, B)
    <3>1. B \in SUBSET SUBSET ks
      OBVIOUS
    <3> HIDE DEF B
    <3> QED
      BY <1>3, <2>1, <3>1, MinimalSet
  <2>3. PICK k \in s : f[s] # entries[k].size + f[s \ {k}]
    OBVIOUS
  <2>4. PICK c \in s : f[s] = entries[c].size + f[s \ {c}]
    BY <1>4, <1>7, <2>3
  <2>5. k # c
    BY <2>3, <2>4
  <2>6. s \ {c} \notin B /\ s \ {k} \notin B /\ s \ {c} \in SUBSET ks /\ s \ {k} \in SUBSET ks
    BY <2>2 DEF IsMinimal
  <2>7. f[s \ {c}] = entries[k].size + f[(s \ {c}) \ {k}]
    BY <2>5, <2>6
  <2>8. f[s \ {k}] = entries[c].size + f[(s \ {k}) \ {c}]
    BY <2>5, <2>6
  <2>9. (s \ {c}) \ {k} = (s \ {k}) \ {c} /\ (s \ {c}) \ {k} \in SUBSET ks
    OBVIOUS
  <2>10. PICK a \in Nat, b \in Nat, z \in Nat :
           a = entries[c].size /\ b = entries[k].size /\ z = f[(s \ {c}) \ {k}]
    BY <1>3, <2>9
  <2>11. f[s] = a + (b + z)
    BY <2>4, <2>7, <2>10
  <2>12. entries[k].size + f[s \ {k}] = b + (a + z)
    BY <2>8, <2>9, <2>10
  <2> QED
    BY <2>3, <2>10, <2>11, <2>12
<1> QED
  BY <1>2, <1>8, <1>12, <1>13 DEF IsSums

\* Sums of equal sizes are equal.
LEMMA SumSame ==
  ASSUME NEW d, Sizes(d), NEW e, Sizes(e), NEW ks, ks \subseteq DOMAIN d, ks \subseteq DOMAIN e,
         \A k \in ks : d[k].size = e[k].size
  PROVE  SizeSum(d, ks) = SizeSum(e, ks)
<1>1. PICK f \in [SUBSET ks -> Nat] : IsSums(f, d, ks)
  BY SizeSums
<1>2. PICK g \in [SUBSET ks -> Nat] : IsSums(g, e, ks)
  BY SizeSums
<1> DEFINE B == {s \in SUBSET ks : f[s] # g[s]}
<1>3. SUFFICES ASSUME B # {} PROVE FALSE
  BY <1>1, <1>2 DEF IsSums
<1>4. PICK s \in B : IsMinimal(s, B)
  <2>1. B \in SUBSET SUBSET ks /\ IsFiniteSet(ks)
    BY FS_Subset DEF Sizes
  <2> HIDE DEF B
  <2> QED
    BY <1>3, <2>1, MinimalSet
<1>5. PICK k \in s : TRUE
  BY <1>1, <1>2 DEF IsSums
<1>6. s \ {k} \notin B /\ s \ {k} \in SUBSET ks
  BY <1>4 DEF IsMinimal
<1>7. f[s] = d[k].size + f[s \ {k}] /\ g[s] = e[k].size + g[s \ {k}]
  BY <1>1, <1>2 DEF IsSums
<1> QED
  BY <1>6, <1>7

\* The sum of a set is that of the set without a member, and the member's size.
LEMMA SumMore ==
  ASSUME NEW e, Sizes(e), NEW ks, ks \subseteq DOMAIN e, NEW k \in ks
  PROVE  SizeSum(e, ks) = e[k].size + SizeSum(e, ks \ {k})
<1> DEFINE rest == ks \ {k}
<1>1. PICK f \in [SUBSET ks -> Nat] : IsSums(f, e, ks)
  BY SizeSums
<1>2. PICK g \in [SUBSET rest -> Nat] : IsSums(g, e, rest)
  <2>1. rest \subseteq DOMAIN e
    OBVIOUS
  <2> HIDE DEF rest
  <2> QED
    BY <2>1, SizeSums
<1> DEFINE B == {s \in SUBSET rest : f[s] # g[s]}
<1>3. B = {}
  <2>1. SUFFICES ASSUME B # {} PROVE FALSE
    OBVIOUS
  <2>2. PICK s \in B : IsMinimal(s, B)
    <3>1. B \in SUBSET SUBSET rest /\ IsFiniteSet(rest)
      BY FS_Subset DEF Sizes
    <3> HIDE DEF B, rest
    <3> QED
      BY <2>1, <3>1, MinimalSet
  <2>3. PICK j \in s : TRUE
    BY <1>1, <1>2 DEF IsSums
  <2>4. s \ {j} \notin B /\ s \ {j} \in SUBSET rest
    BY <2>2 DEF IsMinimal
  <2>5. f[s] = e[j].size + f[s \ {j}] /\ g[s] = e[j].size + g[s \ {j}]
    BY <1>1, <1>2 DEF IsSums
  <2> QED
    BY <2>4, <2>5
<1>4. f[ks] = e[k].size + f[rest] /\ rest \in SUBSET rest
  BY <1>1 DEF IsSums
<1>5. f[rest] = g[rest]
  BY <1>3, <1>4
<1> QED
  BY <1>1, <1>2, <1>4, <1>5 DEF IsSums

\* A sum is a number, and that of no entries is 0.
LEMMA SumType ==
  ASSUME NEW e, Sizes(e), NEW ks, ks \subseteq DOMAIN e
  PROVE  SizeSum(e, ks) \in Nat /\ SizeSum(e, {}) = 0
<1>1. SizeSum(e, ks) \in Nat
  <2>1. PICK f \in [SUBSET ks -> Nat] : IsSums(f, e, ks)
    BY SizeSums
  <2> QED
    BY <2>1 DEF IsSums
<1>2. SizeSum(e, {}) = 0
  <2>1. PICK none : none = {}
    OBVIOUS
  <2>2. none \subseteq DOMAIN e
    BY <2>1
  <2>3. PICK f \in [SUBSET none -> Nat] : IsSums(f, e, none)
    BY <2>2, SizeSums
  <2> QED
    BY <2>1, <2>3 DEF IsSums
<1> QED
  BY <1>1, <1>2

\* The sum of the entries is that of some and that of the others.
LEMMA SumSplit ==
  ASSUME NEW e, Sizes(e), NEW ks, ks \subseteq DOMAIN e, NEW js, js \subseteq DOMAIN e, ks \cap js = {}
  PROVE  SizeSum(e, ks \cup js) = SizeSum(e, ks) + SizeSum(e, js)
<1> DEFINE B == {s \in SUBSET ks : SizeSum(e, s \cup js) # SizeSum(e, s) + SizeSum(e, js)}
<1>1. SUFFICES ASSUME B # {} PROVE FALSE
  OBVIOUS
<1>2. PICK s \in B : IsMinimal(s, B)
  <2>1. B \in SUBSET SUBSET ks /\ IsFiniteSet(ks)
    BY FS_Subset DEF Sizes
  <2> HIDE DEF B
  <2> QED
    BY <1>1, <2>1, MinimalSet
<1>3. s # {}
  <2>1. SizeSum(e, {}) = 0 /\ SizeSum(e, js) \in Nat
    BY SumType
  <2>2. {} \cup js = js
    OBVIOUS
  <2> QED
    BY <2>1, <2>2
<1>4. PICK k \in s : TRUE
  BY <1>3
<1>5. SizeSum(e, (s \ {k}) \cup js) = SizeSum(e, s \ {k}) + SizeSum(e, js)
  BY <1>2, <1>4 DEF IsMinimal
<1>6. SizeSum(e, s) = e[k].size + SizeSum(e, s \ {k})
  BY SumMore
<1>7. SizeSum(e, s \cup js) = e[k].size + SizeSum(e, (s \ {k}) \cup js)
  <2>1. PICK all : all = s \cup js
    OBVIOUS
  <2>2. all \subseteq DOMAIN e /\ k \in all /\ all \ {k} = (s \ {k}) \cup js
    BY <2>1
  <2> QED
    BY <2>1, <2>2, SumMore
<1>8. e[k].size \in Nat /\ SizeSum(e, s \ {k}) \in Nat /\ SizeSum(e, js) \in Nat
  <2>1. s \ {k} \subseteq DOMAIN e
    OBVIOUS
  <2> QED
    BY <2>1, SumType DEF Sizes
<1> QED
  BY <1>5, <1>6, <1>7, <1>8
-----------------------------------------------------------------------------
(* The order of use *)

\* Of a set of sets of positions, one is minimal.
LEMMA MinimalPositions ==
  ASSUME NEW n \in Nat, NEW B \in SUBSET SUBSET (1..n), B # {}
  PROVE  \E s \in B : IsMinimal(s, B)
<1> DEFINE P == 1..n
<1>1. IsFiniteSet(P)
  BY FS_Interval
<1>2. B \in SUBSET SUBSET P
  OBVIOUS
<1> HIDE DEF P
<1> QED
  BY <1>1, <1>2, MinimalSet

\* A set of positions has a greatest one.
LEMMA LastPosition ==
  ASSUME NEW n \in Nat, NEW s \in SUBSET (1..n), s # {}
  PROVE  Max(s) \in s /\ \A i \in s : i <= Max(s)
<1> DEFINE B == {(i + 1)..n : i \in s}
<1>1. PICK r \in B : IsMinimal(r, B)
  <2>1. \A i \in s : (i + 1)..n \in SUBSET (1..n)
    OBVIOUS
  <2>2. B \in SUBSET SUBSET (1..n)
    BY <2>1
  <2>3. B # {}
    OBVIOUS
  <2> HIDE DEF B
  <2> QED
    BY <2>2, <2>3, MinimalPositions
<1>2. PICK i \in s : r = (i + 1)..n
  OBVIOUS
<1>3. ASSUME NEW j \in s PROVE i >= j
  <2>1. SUFFICES ASSUME i < j PROVE FALSE
    OBVIOUS
  <2>2. (j + 1)..n \in B
    OBVIOUS
  <2>3. (j + 1)..n \subseteq r /\ j \in r /\ j \notin (j + 1)..n
    BY <1>2, <2>1
  <2> QED
    BY <1>1, <2>2, <2>3 DEF IsMinimal
<1>4. \E x \in s : \A y \in s : x >= y
  BY <1>3
<1>5. Max(s) = CHOOSE x \in s : \A y \in s : x >= y
  BY DEF Max
<1>6. Max(s) \in s /\ \A y \in s : Max(s) >= y
  BY <1>4, <1>5
<1> QED
  BY <1>6

\* The order of use without some keys, from the oldest on.
LEMMA SkipSteps ==
  ASSUME NEW X, NEW s \in Seq(X), NEW ks
  PROVE  \E f : /\ Skip(s, ks) = f[Len(s)] /\ f[0] = << >>
                /\ \A i \in 1..Len(s) : f[i - 1] \in Seq(X) /\ f[i] \in Seq(X)
                                        /\ f[i] = IF s[i] \in ks THEN f[i - 1] ELSE Append(f[i - 1], s[i])
<1> DEFINE n == Len(s)
           Add(q, x) == IF x \in ks THEN q ELSE Append(q, x)
           pick == [r \in SUBSET (1..n) |-> Max(r)]
           step == [p \in (1..n) \X Seq(X) |-> Add(p[2], s[p[1]])]
           Is(g) == g = [r \in SUBSET DOMAIN s |-> IF r = {} THEN << >> ELSE Add(g[r \ {Max(r)}], s[Max(r)])]
           fold == CHOOSE g : Is(g)
<1>1. n \in Nat /\ DOMAIN s = 1..n /\ \A i \in 1..n : s[i] \in X
  OBVIOUS
<1>2. Skip(s, ks) = fold[1..n]
  BY <1>1 DEF Skip, FoldLeft, MapThenFoldSet
<1>3. \A q \in Seq(X), x \in X : Add(q, x) \in Seq(X)
  OBVIOUS
<1>4. << >> \in Seq(X)
  OBVIOUS
<1> HIDE DEF n, Add
<1>5. \A r \in SUBSET (1..n) : r # {} => pick[r] = Max(r) /\ pick[r] \in r
  BY <1>1, LastPosition
<1>6. \A i \in 1..n, q \in Seq(X) : step[<<i, q>>] = Add(q, s[i]) /\ step[<<i, q>>] \in Seq(X)
  BY <1>1, <1>3
<1>7. PICK g \in [SUBSET (1..n) -> Seq(X)] : Solution(g, 1..n, << >>, pick, step)
  <2>1. Recurses(1..n, Seq(X), << >>, pick, step)
    <3>1. IsFiniteSet(1..n)
      BY <1>1, FS_Interval
    <3> HIDE DEF pick, step
    <3> QED
      BY <1>4, <1>5, <1>6, <3>1 DEF Recurses
  <2> HIDE DEF pick, step
  <2> QED
    BY <2>1, SubsetRecursion
<1> HIDE DEF step
<1>8. \A r \in SUBSET (1..n) : g[r] = IF r = {} THEN << >> ELSE Add(g[r \ {Max(r)}], s[Max(r)])
  <2> TAKE r \in SUBSET (1..n)
  <2>1. CASE r = {}
    BY <1>7, <2>1 DEF Solution
  <2>2. CASE r # {}
    <3>1. pick[r] = Max(r) /\ pick[r] \in 1..n /\ r \ {pick[r]} \in SUBSET (1..n)
      BY <1>5, <2>2
    <3>2. g[r \ {pick[r]}] \in Seq(X)
      BY <3>1
    <3> HIDE DEF pick
    <3> QED
      BY <1>6, <1>7, <2>2, <3>1, <3>2 DEF Solution
  <2> QED
    BY <2>1, <2>2
<1>9. Is(g)
  <2>1. g = [r \in SUBSET (1..n) |-> g[r]]
    OBVIOUS
  <2> QED
    BY <1>1, <1>8, <2>1
<1>10. Is(fold)
  <2> HIDE DEF Is
  <2> QED
    BY <1>9
<1> HIDE DEF fold
<1>11. \A r \in SUBSET (1..n) : fold[r] = IF r = {} THEN << >> ELSE Add(fold[r \ {Max(r)}], s[Max(r)])
  BY <1>1, <1>10
<1>12. \A r \in SUBSET (1..n) : fold[r] = g[r]
  <2> DEFINE B == {r \in SUBSET (1..n) : fold[r] # g[r]}
  <2>1. SUFFICES ASSUME B # {} PROVE FALSE
    OBVIOUS
  <2>2. PICK r \in B : IsMinimal(r, B)
    <3>1. B \in SUBSET SUBSET (1..n)
      OBVIOUS
    <3> HIDE DEF B
    <3> QED
      BY <1>1, <2>1, <3>1, MinimalPositions
  <2>3. r # {}
    BY <1>8, <1>11
  <2>4. Max(r) \in r
    BY <1>1, <2>3, LastPosition
  <2>5. r \ {Max(r)} \notin B /\ r \ {Max(r)} \in SUBSET (1..n)
    BY <2>2, <2>4 DEF IsMinimal
  <2> QED
    BY <1>8, <1>11, <2>3, <2>5
<1> DEFINE f == [i \in 0..n |-> g[1..i]]
<1>13. ASSUME NEW i \in 1..n PROVE f[i - 1] \in Seq(X) /\ f[i] \in Seq(X) /\ f[i] = Add(f[i - 1], s[i])
  <2>1. 1..i \in SUBSET (1..n) /\ 1..(i - 1) \in SUBSET (1..n) /\ (1..i) \ {i} = 1..(i - 1) /\ i \in 1..i
    BY <1>1
  <2>2. Max(1..i) = i
    <3>1. Max(1..i) \in 1..i /\ i <= Max(1..i)
      BY <1>1, <2>1, LastPosition
    <3> QED
      BY <1>1, <3>1
  <2>3. g[1..i] = Add(g[1..(i - 1)], s[i])
    BY <1>8, <2>1, <2>2
  <2>4. f[i] = g[1..i] /\ f[i - 1] = g[1..(i - 1)]
    BY <1>1
  <2> QED
    BY <2>1, <2>3, <2>4
<1>14. f[0] = << >> /\ f[n] = g[1..n]
  <2>1. 1..0 = {} /\ 0 \in 0..n /\ n \in 0..n
    BY <1>1
  <2> QED
    BY <1>8, <2>1
<1>15. Skip(s, ks) = f[n]
  BY <1>2, <1>12, <1>14
<1> HIDE DEF f
<1> QED
  BY <1>13, <1>14, <1>15 DEF n, Add

\* A key more at the end.
LEMMA AppendKeeps ==
  ASSUME NEW X, NEW q \in Seq(X), NEW x \in X
  PROVE  /\ Append(q, x) \in Seq(X) /\ Range(Append(q, x)) = Range(q) \cup {x}
         /\ IsInjective(q) /\ x \notin Range(q) => IsInjective(Append(q, x))
<1> DEFINE n == Len(q)
           r == Append(q, x)
<1>1. n \in Nat /\ DOMAIN q = 1..n
  OBVIOUS
<1>2. r \in Seq(X) /\ DOMAIN r = 1..(n + 1) /\ r[n + 1] = x /\ \A i \in 1..n : r[i] = q[i]
  OBVIOUS
<1> HIDE DEF r, n
<1>3. Range(r) = Range(q) \cup {x}
  BY <1>1, <1>2 DEF Range
<1>4. ASSUME IsInjective(q), x \notin Range(q) PROVE IsInjective(r)
  <2>1. \A i \in 1..n : q[i] # x
    BY <1>1, <1>4 DEF Range
  <2> QED
    BY <1>1, <1>2, <1>4, <2>1 DEF IsInjective
<1> QED
  BY <1>2, <1>3, <1>4 DEF r

\* Without some keys, the others are there once each.
LEMMA SkipIs ==
  ASSUME NEW X, NEW s \in Seq(X), IsInjective(s), NEW ks
  PROVE  Skip(s, ks) \in Seq(X) /\ Range(Skip(s, ks)) = Range(s) \ ks /\ IsInjective(Skip(s, ks))
<1> DEFINE n == Len(s)
           Upto(i) == {s[j] : j \in 1..i}
<1>1. n \in Nat /\ DOMAIN s = 1..n /\ \A i \in 1..n : s[i] \in X
  OBVIOUS
<1>2. PICK f : /\ Skip(s, ks) = f[n] /\ f[0] = << >>
               /\ \A i \in 1..n : f[i - 1] \in Seq(X) /\ f[i] \in Seq(X)
                                  /\ f[i] = IF s[i] \in ks THEN f[i - 1] ELSE Append(f[i - 1], s[i])
  BY SkipSteps
<1> HIDE DEF n
<1> DEFINE Right(i) == f[i] \in Seq(X) /\ Range(f[i]) = Upto(i) \ ks /\ IsInjective(f[i])
<1>3. Right(0)
  <2>1. << >> \in Seq(X) /\ Range(<< >>) = {} /\ IsInjective(<< >>)
    BY DEF Range, IsInjective
  <2> QED
    BY <1>2, <2>1
<1>4. ASSUME NEW i \in 1..n, Right(i - 1) PROVE Right(i)
  <2>1. Upto(i) = Upto(i - 1) \cup {s[i]}
    BY <1>1
  <2>2. s[i] \notin Upto(i - 1)
    BY <1>1 DEF IsInjective
  <2> HIDE DEF Upto
  <2>3. CASE s[i] \in ks
    BY <1>2, <1>4, <2>1, <2>3
  <2>4. CASE s[i] \notin ks
    <3>1. PICK q : q = f[i - 1]
      OBVIOUS
    <3>2. f[i] = Append(q, s[i]) /\ q \in Seq(X) /\ s[i] \in X
      BY <1>1, <1>2, <2>4, <3>1
    <3>3. Range(q) = Upto(i - 1) \ ks /\ IsInjective(q)
      BY <1>4, <3>1
    <3>4. s[i] \notin Range(q)
      BY <2>2, <3>3
    <3>5. Append(q, s[i]) \in Seq(X) /\ Range(Append(q, s[i])) = Range(q) \cup {s[i]} /\ IsInjective(Append(q, s[i]))
      BY <3>2, <3>3, <3>4, AppendKeeps
    <3> QED
      BY <2>1, <2>4, <3>2, <3>3, <3>5
  <2> QED
    BY <2>3, <2>4
<1>5. Right(n)
  <2> DEFINE B == {1..i : i \in {j \in 0..n : ~Right(j)}}
  <2> HIDE DEF Right
  <2>1. SUFFICES ASSUME ~Right(n) PROVE FALSE
    OBVIOUS
  <2>2. PICK r \in B : IsMinimal(r, B)
    <3>1. B \in SUBSET SUBSET (1..n)
      BY <1>1
    <3>2. 1..n \in B
      BY <1>1, <2>1
    <3> HIDE DEF B
    <3> QED
      BY <1>1, <3>1, <3>2, MinimalPositions
  <2>3. PICK i \in 0..n : r = 1..i /\ ~Right(i)
    OBVIOUS
  <2>4. i \in 1..n
    BY <1>1, <1>3, <2>3
  <2>5. 1..(i - 1) \subseteq r /\ 1..(i - 1) # r
    BY <1>1, <2>3, <2>4
  <2>6. Right(i - 1)
    <3>1. 1..(i - 1) \notin B
      BY <2>2, <2>5 DEF IsMinimal
    <3>2. i - 1 \in 0..n
      BY <1>1, <2>4
    <3> QED
      BY <3>1, <3>2
  <2> QED
    BY <1>4, <2>3, <2>4, <2>6
<1>6. Upto(n) = Range(s)
  BY <1>1 DEF Range
<1> QED
  BY <1>2, <1>5, <1>6
-----------------------------------------------------------------------------
(* What the cache's operations do to bytes and entries *)

\* A sequence is one over its range.
LEMMA RangeSeq ==
  ASSUME NEW X, NEW s \in Seq(X), NEW Y, Range(s) \subseteq Y
  PROVE  s \in Seq(Y)
<1>1. Len(s) \in Nat /\ DOMAIN s = 1..Len(s) /\ s = [i \in 1..Len(s) |-> s[i]]
  OBVIOUS
<1>2. \A i \in 1..Len(s) : s[i] \in Y
  BY <1>1 DEF Range
<1> QED
  BY <1>1, <1>2

\* The order of use has every entry once, and the total is theirs.
Counted(m) ==
  /\ MemShape(m) /\ Sizes(m.entries)
  /\ m.lru \in Seq(DOMAIN m.entries) /\ IsInjective(m.lru) /\ Range(m.lru) = DOMAIN m.entries
  /\ m.total = SizeSum(m.entries, DOMAIN m.entries)

Within(m) == m.total <= MaxBytes /\ Len(m.lru) <= MaxEntries

\* A sequence that has every member of a set once is as long as there are members.
LEMMA OnceEach ==
  ASSUME NEW T, NEW s \in Seq(T), IsInjective(s), Range(s) = T
  PROVE  Len(s) \in Nat /\ IsFiniteSet(T) /\ Len(s) = Cardinality(T)
<1> DEFINE n == Len(s)
<1>1. n \in Nat /\ DOMAIN s = 1..n /\ s \in [1..n -> T]
  OBVIOUS
<1> HIDE DEF n
<1>2. IsFiniteSet(1..n) /\ Cardinality(1..n) = n
  BY <1>1, FS_Interval
<1>3. s \in Bijection(1..n, T)
  BY <1>1 DEF Bijection, Injection, Surjection, IsInjective, Range
<1>4. ExistsBijection(1..n, T)
  BY <1>3 DEF ExistsBijection
<1> DEFINE P == 1..n
<1> HIDE DEF P
<1>5. IsFiniteSet(T) /\ Cardinality(T) = Cardinality(P)
  BY <1>2, <1>4, FS_Bijection DEF P
<1> QED
  BY <1>1, <1>2, <1>5 DEF P, n

\* Without some keys what is left is counted right, and no more.
LEMMA WithoutCounted ==
  ASSUME NEW m, Counted(m), NEW ks
  PROVE  LET n == Without(m, ks)
         IN  /\ Counted(n) /\ DOMAIN n.entries = DOMAIN m.entries \ ks
             /\ n.total = m.total - SizeSum(m.entries, ks \cap DOMAIN m.entries)
             /\ n.total <= m.total /\ Len(n.lru) <= Len(m.lru)
<1> DEFINE D == DOMAIN m.entries
           entries == [k \in D \ ks |-> m.entries[k]]
           lru == Skip(m.lru, ks)
           sum == SizeSum(m.entries, ks)
           total == m.total - sum
           n == [m EXCEPT !.entries = entries, !.lru = lru, !.total = total]
<1>1. Without(m, ks) = n
  BY DEF Without, Restrict
<1>2. DOMAIN entries = D \ ks /\ \A k \in D \ ks : entries[k] = m.entries[k]
  OBVIOUS
<1>3. sum = SizeSum(m.entries, ks \cap D)
  <2>1. (ks \cap D) \cap D = ks \cap D
    OBVIOUS
  <2> QED
    BY <2>1 DEF SizeSum
<1> HIDE DEF entries, lru, sum
<1>4. lru \in Seq(D) /\ IsInjective(lru) /\ Range(lru) = D \ ks
  BY SkipIs DEF lru, Counted
<1>5. lru \in Seq(D \ ks)
  BY <1>4, RangeSeq
<1>6. IsFiniteSet(D \ ks) /\ Sizes(entries) /\ Sizes(m.entries)
  BY <1>2, FS_Subset DEF Sizes, Counted
<1>7. SizeSum(entries, D \ ks) = SizeSum(m.entries, D \ ks)
  BY <1>2, <1>6, SumSame
<1>8. m.total = sum + SizeSum(m.entries, D \ ks)
  <2>1. PICK out, rest, all : out = ks \cap D /\ rest = D \ ks /\ all = D
    OBVIOUS
  <2>2. out \cap rest = {} /\ out \cup rest = all /\ out \subseteq D /\ rest \subseteq D
    BY <2>1
  <2>3. SizeSum(m.entries, all) = SizeSum(m.entries, out) + SizeSum(m.entries, rest)
    BY <1>6, <2>2, SumSplit
  <2> QED
    BY <1>3, <2>1, <2>3 DEF Counted
<1>9. sum \in Nat /\ SizeSum(m.entries, D \ ks) \in Nat
  BY <1>3, <1>6, SumType
<1>10. total = SizeSum(entries, D \ ks) /\ total <= m.total
  BY <1>7, <1>8, <1>9
<1> HIDE DEF total
<1>11. n.entries = entries /\ n.lru = lru /\ n.total = total
  BY DEF Counted, MemShape, MemFields
<1>12. MemShape(n)
  BY <1>1, WithoutSubcache DEF Counted, Subcache
<1> HIDE DEF n
<1>13. Counted(n)
  BY <1>2, <1>4, <1>5, <1>6, <1>10, <1>11, <1>12 DEF Counted
<1>14. Len(lru) <= Len(m.lru)
  <2>1. Len(lru) = Cardinality(D \ ks) /\ Len(m.lru) = Cardinality(D)
    BY <1>4, <1>5, OnceEach DEF Counted
  <2>2. Cardinality(D \ ks) <= Cardinality(D)
    BY <1>6, FS_Subset DEF Sizes
  <2> QED
    BY <2>1, <2>2
<1>15. n.total = m.total - SizeSum(m.entries, ks \cap DOMAIN m.entries)
  BY <1>3, <1>11 DEF total
<1> QED
  BY <1>1, <1>2, <1>10, <1>11, <1>13, <1>14, <1>15

\* A use changes the order only.
LEMMA TouchedCounted ==
  ASSUME NEW m, Counted(m), NEW k \in DOMAIN m.entries
  PROVE  LET n == Touched(m, k)
         IN  Counted(n) /\ n.total = m.total /\ Len(n.lru) = Len(m.lru)
<1> DEFINE D == DOMAIN m.entries
           rest == Skip(m.lru, {k})
           lru == Append(rest, k)
           n == [m EXCEPT !.lru = lru]
<1>1. Touched(m, k) = n
  BY DEF Touched
<1>2. rest \in Seq(D) /\ IsInjective(rest) /\ Range(rest) = D \ {k}
  BY SkipIs DEF Counted
<1> HIDE DEF rest
<1>3. lru \in Seq(D) /\ IsInjective(lru) /\ Range(lru) = D
  <2>1. (D \ {k}) \cup {k} = D
    OBVIOUS
  <2>2. k \in D /\ k \notin Range(rest)
    BY <1>2
  <2> HIDE DEF D
  <2>3. /\ Append(rest, k) \in Seq(D) /\ Range(Append(rest, k)) = Range(rest) \cup {k}
        /\ IsInjective(Append(rest, k))
    BY <1>2, <2>2, AppendKeeps
  <2> QED
    BY <1>2, <2>1, <2>3
<1> HIDE DEF lru
<1>4. n.entries = m.entries /\ n.lru = lru /\ n.total = m.total
  BY DEF Counted, MemShape, MemFields
<1>5. MemShape(n)
  BY <1>1, TouchedSubcache DEF Counted, Subcache
<1> HIDE DEF n
<1>6. Counted(n)
  BY <1>3, <1>4, <1>5 DEF Counted
<1>7. Len(lru) = Len(m.lru)
  BY <1>3, OnceEach DEF Counted
<1> QED
  BY <1>1, <1>4, <1>6, <1>7

\* A new entry comes last, with its size.
LEMMA WithCounted ==
  ASSUME NEW m, Counted(m), NEW k, k \notin DOMAIN m.entries, NEW frame, NEW size \in Nat
  PROVE  Counted(With(m, k, frame, size))
<1> DEFINE D == DOMAIN m.entries
           E == D \cup {k}
           entry == [frame |-> frame, size |-> size, expired |-> FALSE]
           entries == [j \in E |-> IF j = k THEN entry ELSE m.entries[j]]
           rest == Skip(m.lru, {k})
           lru == Append(rest, k)
           total == m.total + size
           n == [m EXCEPT !.entries = entries, !.lru = lru, !.total = total]
<1>1. With(m, k, frame, size) = n
  BY DEF With
<1>2. rest \in Seq(D) /\ IsInjective(rest) /\ Range(rest) = D
  <2>1. Range(rest) = D \ {k}
    BY SkipIs DEF Counted
  <2> QED
    BY <2>1, SkipIs DEF Counted
<1> HIDE DEF rest
<1>3. entry = [f \in EntryFields |-> entry[f]] /\ entry.size = size
  BY DEF EntryFields
<1> HIDE DEF entry
<1>4. /\ DOMAIN entries = E
      /\ \A j \in E : entries[j] = IF j = k THEN entry ELSE m.entries[j]
  OBVIOUS
<1> HIDE DEF entries
<1>5. rest \in Seq(E) /\ k \in E
  <2>1. Range(rest) \subseteq E
    BY <1>2
  <2> HIDE DEF D, E
  <2>2. rest \in Seq(E)
    BY <1>2, <2>1, RangeSeq
  <2> QED
    BY <2>2 DEF E
<1>6. lru \in Seq(E) /\ IsInjective(lru) /\ Range(lru) = E
  <2>1. k \notin Range(rest)
    BY <1>2
  <2> HIDE DEF E
  <2>2. /\ Append(rest, k) \in Seq(E) /\ Range(Append(rest, k)) = Range(rest) \cup {k}
        /\ IsInjective(Append(rest, k))
    BY <1>2, <1>5, <2>1, AppendKeeps
  <2> QED
    BY <1>2, <2>2 DEF E
<1> HIDE DEF lru
<1>7. IsFiniteSet(E) /\ Sizes(entries) /\ Sizes(m.entries)
  <2>1. IsFiniteSet(E)
    BY FS_AddElement DEF Counted, Sizes
  <2> QED
    BY <1>3, <1>4, <2>1 DEF Sizes, Counted
<1>8. SizeSum(entries, E) = size + m.total
  <2>1. E \ {k} = D /\ D \subseteq E /\ k \in E
    OBVIOUS
  <2>2. \A j \in D : entries[j].size = m.entries[j].size
    BY <1>4
  <2>3. entries[k].size = size
    BY <1>3, <1>4
  <2> HIDE DEF D, E
  <2>4. SizeSum(entries, E) = entries[k].size + SizeSum(entries, E \ {k})
    BY <1>4, <1>7, <2>1, SumMore
  <2>5. SizeSum(entries, D) = SizeSum(m.entries, D)
    BY <1>4, <1>7, <2>1, <2>2, SumSame DEF D
  <2> QED
    BY <2>1, <2>3, <2>4, <2>5 DEF Counted, D
<1>9. m.total \in Nat
  BY SumType DEF Counted
<1>10. n.entries = entries /\ n.lru = lru /\ n.total = total
  <2> HIDE DEF total
  <2> QED
    BY DEF Counted, MemShape, MemFields
<1>11. MemShape(n)
  <2> HIDE DEF total
  <2>1. n = [f \in MemFields |-> n[f]] /\ MemShape(m)
    BY DEF Counted, MemShape, MemFields
  <2> HIDE DEF n
  <2> QED
    BY <1>3, <1>4, <1>10, <2>1 DEF MemShape
<1> HIDE DEF n
<1>12. Counted(n)
  BY <1>4, <1>6, <1>7, <1>8, <1>9, <1>10, <1>11 DEF Counted
<1> QED
  BY <1>1, <1>12

\* A set of numbers that is not empty, up to a bound, has a least one.
LEMMA LeastPosition ==
  ASSUME NEW n \in Nat, NEW s \in SUBSET (0..n), s # {}
  PROVE  Min(s) \in s /\ \A i \in s : Min(s) <= i
<1> DEFINE B == {1..i : i \in s}
<1>1. PICK r \in B : IsMinimal(r, B)
  <2>1. \A i \in s : 1..i \in SUBSET (1..n)
    OBVIOUS
  <2>2. B \in SUBSET SUBSET (1..n)
    BY <2>1
  <2>3. B # {}
    OBVIOUS
  <2> HIDE DEF B
  <2> QED
    BY <2>2, <2>3, MinimalPositions
<1>2. PICK i \in s : r = 1..i
  OBVIOUS
<1>3. ASSUME NEW j \in s PROVE i <= j
  <2>1. SUFFICES ASSUME j < i PROVE FALSE
    OBVIOUS
  <2>2. 1..j \in B
    OBVIOUS
  <2>3. 1..j \subseteq r /\ i \in r /\ i \notin 1..j
    BY <1>2, <2>1
  <2> QED
    BY <1>1, <2>2, <2>3 DEF IsMinimal
<1>4. \E x \in s : \A y \in s : x <= y
  BY <1>3
<1>5. Min(s) = CHOOSE x \in s : \A y \in s : x =< y
  BY DEF Min
<1>6. Min(s) \in s /\ \A y \in s : Min(s) =< y
  BY <1>4, <1>5
<1> QED
  BY <1>6

\* After the oldest went, what is left is within the limits: all of them would be enough.
LEMMA EvictedWithin ==
  ASSUME NEW m, Counted(m)
  PROVE  Counted(Evicted(m)) /\ Within(Evicted(m)) /\ DOMAIN Evicted(m).entries \subseteq DOMAIN m.entries
<1> DEFINE L == Len(m.lru)
           Oldest(n) == Range(SubSeq(m.lru, 1, n))
           enough == {n \in 0..L : m.total - SizeSum(m.entries, Oldest(n)) <= MaxBytes /\ L - n <= MaxEntries}
           D == DOMAIN m.entries
<1>1. Evicted(m) = Without(m, Oldest(Min(enough)))
  BY DEF Evicted
<1>2. /\ L \in Nat /\ DOMAIN m.lru = 1..L /\ m.lru \in Seq(D) /\ IsInjective(m.lru) /\ Range(m.lru) = D
      /\ MaxBytes \in Nat /\ MaxEntries \in Nat /\ m.total \in Nat /\ m.total = SizeSum(m.entries, D)
  <2>1. m.total \in Nat
    BY SumType DEF Counted
  <2> QED
    BY <2>1, HubAssumption DEF Counted
<1>3. ASSUME NEW n \in 0..L
      PROVE  Oldest(n) = {m.lru[i] : i \in 1..n} /\ Oldest(n) \subseteq D
  <2>1. PICK q : q = m.lru
    OBVIOUS
  <2>2. Len(SubSeq(q, 1, n)) = n /\ \A i \in 1..n : SubSeq(q, 1, n)[i] = q[i]
    BY <1>2, <2>1
  <2>3. DOMAIN SubSeq(q, 1, n) = 1..n
    BY <1>2, <2>1
  <2>4. Range(SubSeq(q, 1, n)) = {q[i] : i \in 1..n}
    BY <2>2, <2>3 DEF Range
  <2>5. Oldest(n) = {m.lru[i] : i \in 1..n}
    BY <2>1, <2>4
  <2> HIDE DEF Oldest
  <2>6. {m.lru[i] : i \in 1..n} \subseteq D
    BY <1>2 DEF Range
  <2> QED
    BY <2>5, <2>6
<1> HIDE DEF Oldest
<1>4. Oldest(L) = D
  <2>1. L \in 0..L
    BY <1>2
  <2>2. Oldest(L) = {m.lru[i] : i \in 1..L}
    BY <1>3, <2>1
  <2> QED
    BY <1>2, <2>2 DEF Range
<1>5. L \in enough
  BY <1>2, <1>4
<1> DEFINE n == Min(enough)
<1>6. n \in enough
  <2>1. enough \in SUBSET (0..L)
    OBVIOUS
  <2> HIDE DEF enough, L
  <2> QED
    BY <1>2, <1>5, <2>1, LeastPosition
<1>7. n \in 0..L /\ m.total - SizeSum(m.entries, Oldest(n)) <= MaxBytes /\ L - n <= MaxEntries
  <2> HIDE DEF n
  <2> QED
    BY <1>6
<1> HIDE DEF n, enough
<1> DEFINE w == Without(m, Oldest(n))
<1>8. /\ Counted(w) /\ DOMAIN w.entries = D \ Oldest(n)
      /\ w.total = m.total - SizeSum(m.entries, Oldest(n) \cap D)
  BY WithoutCounted
<1> HIDE DEF w
<1>9. Oldest(n) \cap D = Oldest(n)
  BY <1>3, <1>7
<1>10. Len(w.lru) = L - n
  <2>1. PICK k \in 0..L : k = n
    BY <1>7
  <2>2. D \ Oldest(k) = {m.lru[i] : i \in (k + 1)..L}
    <3>1. \A i, j \in 1..L : m.lru[i] = m.lru[j] => i = j
      BY <1>2 DEF IsInjective
    <3>2. D = {m.lru[i] : i \in 1..L}
      BY <1>2 DEF Range
    <3>3. Oldest(k) = {m.lru[i] : i \in 1..k}
      BY <1>3
    <3>4. ASSUME NEW x \in D, x \notin Oldest(k) PROVE \E i \in (k + 1)..L : x = m.lru[i]
      <4>1. PICK i \in 1..L : x = m.lru[i]
        BY <3>2
      <4>2. i \notin 1..k
        BY <3>3, <3>4, <4>1
      <4>3. i \in (k + 1)..L
        BY <1>2, <4>2
      <4> QED
        BY <4>1, <4>3
    <3>5. ASSUME NEW i \in (k + 1)..L PROVE m.lru[i] \in D /\ m.lru[i] \notin Oldest(k)
      <4>1. i \in 1..L /\ \A j \in 1..k : j \in 1..L /\ j # i
        BY <1>2
      <4>2. \A j \in 1..k : m.lru[j] # m.lru[i]
        BY <3>1, <4>1
      <4> QED
        BY <3>2, <3>3, <4>1, <4>2
    <3> QED
      BY <3>4, <3>5
  <2> DEFINE f == [i \in 1..(L - k) |-> m.lru[i + k]]
             R == D \ Oldest(k)
  <2>3. L - k \in Nat /\ f \in [1..(L - k) -> R] /\ DOMAIN f = 1..(L - k)
    BY <1>2, <2>2
  <2>4. \A i, j \in 1..(L - k) : f[i] = f[j] => i = j
    <3>1. \A i, j \in 1..L : m.lru[i] = m.lru[j] => i = j
      BY <1>2 DEF IsInjective
    <3> QED
      BY <1>2, <3>1
  <2>5. \A x \in R : \E i \in 1..(L - k) : f[i] = x
    <3> TAKE x \in R
    <3>1. PICK i \in (k + 1)..L : x = m.lru[i]
      BY <2>2
    <3>2. i - k \in 1..(L - k) /\ f[i - k] = x
      BY <1>2, <3>1
    <3> QED
      BY <3>2
  <2> HIDE DEF f, R
  <2>6. f \in Seq(R) /\ Len(f) = L - k
    BY <2>3
  <2>7. IsInjective(f) /\ Range(f) = R
    BY <2>3, <2>4, <2>5 DEF IsInjective, Range
  <2>8. L - k = Cardinality(R)
    BY <2>6, <2>7, OnceEach
  <2>9. Len(w.lru) = Cardinality(DOMAIN w.entries)
    BY <1>8, OnceEach DEF Counted
  <2> QED
    BY <1>8, <2>1, <2>8, <2>9 DEF R
<1> QED
  BY <1>1, <1>7, <1>8, <1>9, <1>10 DEF Within, w, n

\* Now and then the expired entries go.
LEMMA SweptWithin ==
  ASSUME NEW m, Counted(m), Within(m)
  PROVE  Counted(Swept(m)) /\ Within(Swept(m))
<1> DEFINE stores == (m.stores + 1) % SweepEvery
           base == IF stores = 0 THEN Without(m, Expired(m)) ELSE m
           n == [base EXCEPT !.stores = stores]
<1>1. Swept(m) = n
  BY DEF Swept
<1>2. Counted(base) /\ Within(base)
  <2>1. LET r == Without(m, Expired(m))
        IN  Counted(r) /\ r.total <= m.total /\ Len(r.lru) <= Len(m.lru)
    BY WithoutCounted
  <2>2. PICK r : r = Without(m, Expired(m))
    OBVIOUS
  <2>3. Counted(r) /\ r.total <= m.total /\ Len(r.lru) <= Len(m.lru)
    BY <2>1, <2>2
  <2>4. r.total \in Nat /\ m.total \in Nat /\ Len(r.lru) \in Nat /\ Len(m.lru) \in Nat
    BY <2>3, SumType, OnceEach DEF Counted
  <2>5. Within(r)
    BY <2>3, <2>4, HubAssumption DEF Within
  <2> QED
    BY <2>2, <2>3, <2>5
<1> HIDE DEF stores, base
<1>3. /\ n = [f \in MemFields |-> n[f]]
      /\ n.entries = base.entries /\ n.lru = base.lru /\ n.total = base.total
  BY <1>2 DEF Counted, MemShape, MemFields
<1> HIDE DEF n
<1> QED
  BY <1>1, <1>2, <1>3 DEF Counted, MemShape, Within

\* A put keeps the cache within the limits, whatever it held before.
LEMMA PutWithin ==
  ASSUME NEW m, Counted(m), NEW k, NEW frame, NEW size \in Nat, NEW n \in Put(m, k, frame, size)
  PROVE  Counted(n) /\ Within(n)
<1> DEFINE o == Without(m, {k})
           w == With(o, k, frame, size)
<1>1. n = Swept(Evicted(w))
  BY DEF Put
<1>2. Counted(o) /\ k \notin DOMAIN o.entries
  <2>1. Counted(o) /\ DOMAIN o.entries = DOMAIN m.entries \ {k}
    BY WithoutCounted
  <2> HIDE DEF o
  <2> QED
    BY <2>1
<1> HIDE DEF o
<1>3. Counted(w)
  BY <1>2, WithCounted
<1> HIDE DEF w
<1>4. Counted(Evicted(w)) /\ Within(Evicted(w))
  BY <1>3, EvictedWithin
<1> QED
  BY <1>1, <1>4, SweptWithin
-----------------------------------------------------------------------------
(* The invariant of the limits *)

LimitsInv == Counted(mem) /\ Within(mem)

\* The cache begins empty.
LEMMA EmptyWithin ==
  ASSUME NEW m, DOMAIN m.entries = {}, m.lru = << >>, m.total = 0, m = [f \in MemFields |-> m[f]]
  PROVE  Counted(m) /\ Within(m)
<1>1. MemShape(m) /\ Sizes(m.entries)
  BY FS_EmptySet DEF MemShape, Sizes
<1>2. m.lru \in Seq(DOMAIN m.entries) /\ IsInjective(m.lru) /\ Range(m.lru) = DOMAIN m.entries /\ Len(m.lru) = 0
  BY DEF IsInjective, Range
<1>3. SizeSum(m.entries, DOMAIN m.entries) = 0
  BY <1>1, SumType
<1> QED
  BY <1>1, <1>2, <1>3, HubAssumption DEF Counted, Within

LEMMA InitWithin == Init => LimitsInv
<1> SUFFICES ASSUME Init PROVE LimitsInv
  OBVIOUS
<1>1. DOMAIN mem.entries = {} /\ mem.lru = << >> /\ mem.total = 0 /\ mem = [f \in MemFields |-> mem[f]]
  BY DEF Init, Empty, MemFields
<1> QED
  BY <1>1, EmptyWithin DEF LimitsInv

\* Fewer entries are within the limits.
LEMMA FewerWithin ==
  ASSUME NEW m, Counted(m), Within(m), NEW ks
  PROVE  Counted(Without(m, ks)) /\ Within(Without(m, ks))
<1>1. PICK r : r = Without(m, ks)
  OBVIOUS
<1>2. Counted(r) /\ r.total <= m.total /\ Len(r.lru) <= Len(m.lru)
  BY <1>1, WithoutCounted
<1>3. r.total \in Nat /\ m.total \in Nat /\ Len(r.lru) \in Nat /\ Len(m.lru) \in Nat
  BY <1>2, SumType, OnceEach DEF Counted
<1> QED
  BY <1>1, <1>2, <1>3, HubAssumption DEF Within

\* Every step keeps the cache counted right and within the limits.
LEMMA StepWithin == HubInv /\ LimitsInv /\ [Next]_vars => LimitsInv'
<1> SUFFICES ASSUME HubInv, LimitsInv, [Next]_vars PROVE LimitsInv'
  OBVIOUS
<1>1. ASSUME mem' = mem PROVE LimitsInv'
  BY <1>1 DEF LimitsInv, Counted, Within, MemShape
<1>2. ASSUME NEW ks, mem' = Without(mem, ks) PROVE LimitsInv'
  BY <1>2, FewerWithin DEF LimitsInv
<1>3. ASSUME NEW t \in Threads, NEW r \in offers, NEW force \in BOOLEAN, Begin(t, r, force) PROVE LimitsInv'
  BY <1>1, <1>2, <1>3 DEF Begin
<1>4. ASSUME NEW t \in Threads, Get(t) PROVE LimitsInv'
  <2> DEFINE k == Key(t)
  <2>1. mem' = Without(mem, {k}) \/ (k \in DOMAIN mem.entries /\ mem' = Touched(mem, k))
    BY <1>4 DEF Get
  <2>2. CASE k \in DOMAIN mem.entries /\ mem' = Touched(mem, k)
    <3>1. Counted(mem') /\ mem'.total = mem.total /\ Len(mem'.lru) = Len(mem.lru)
      BY <2>2, TouchedCounted DEF LimitsInv
    <3> QED
      BY <3>1 DEF LimitsInv, Within
  <2> QED
    BY <1>2, <2>1, <2>2
<1>5. ASSUME NEW t \in Threads, Store(t) PROVE LimitsInv'
  <2>1. PICK size : size = Size[call[t].req.endpoint]
    OBVIOUS
  <2>2. size \in Nat
    <3>1. call[t].req \in Requests /\ offers \in Offers
      BY <1>5 DEF HubInv, Good, Placed, Shared, Store
    <3> QED
      BY <2>1, <3>1, RequestShape, HubAssumption
  <2>3. mem' = mem \/ mem' \in Put(mem, Key(t), call[t].got, size)
    BY <1>5, <2>1 DEF Store
  <2>4. CASE mem' \in Put(mem, Key(t), call[t].got, size)
    BY <2>2, <2>4, PutWithin DEF LimitsInv
  <2> QED
    BY <1>1, <2>3, <2>4
<1>6. ASSUME NEW k \in DOMAIN mem.entries, Expire(k) PROVE LimitsInv'
  <2> DEFINE entry == [mem.entries[k] EXCEPT !.expired = TRUE]
             entries == [mem.entries EXCEPT ![k] = entry]
  <2>1. mem' = [mem EXCEPT !.entries = entries] /\ MemShape(mem)
    BY <1>6 DEF Expire, LimitsInv, Counted
  <2>2. entry = [f \in EntryFields |-> entry[f]] /\ entry.size = mem.entries[k].size
    BY <2>1 DEF MemShape, EntryFields
  <2> HIDE DEF entry
  <2>3. DOMAIN entries = DOMAIN mem.entries
        /\ \A j \in DOMAIN entries : entries[j] = IF j = k THEN entry ELSE mem.entries[j]
    OBVIOUS
  <2> HIDE DEF entries
  <2>4. /\ mem' = [f \in MemFields |-> mem'[f]] /\ mem'.entries = entries
        /\ mem'.lru = mem.lru /\ mem'.total = mem.total
    BY <2>1 DEF MemShape, MemFields
  <2>5. MemShape(mem')
    <3>1. \A j \in DOMAIN entries : entries[j] = [f \in EntryFields |-> entries[j][f]]
      BY <2>1, <2>2, <2>3 DEF MemShape
    <3> QED
      BY <2>4, <3>1 DEF MemShape
  <2>6. Sizes(entries) /\ \A j \in DOMAIN entries : entries[j].size = mem.entries[j].size
    BY <2>2, <2>3 DEF LimitsInv, Counted, Sizes
  <2>7. SizeSum(entries, DOMAIN entries) = SizeSum(mem.entries, DOMAIN mem.entries)
    BY <2>3, <2>6, SumSame DEF LimitsInv, Counted
  <2> QED
    BY <2>3, <2>4, <2>5, <2>6, <2>7 DEF LimitsInv, Counted, Within
<1>7. ASSUME NEW k, Invalidate(k) PROVE LimitsInv'
  BY <1>2, <1>7 DEF Invalidate
<1>8. ASSUME Clear PROVE LimitsInv'
  <2>1. DOMAIN mem'.entries = {} /\ mem'.lru = << >> /\ mem'.total = 0 /\ mem' = [f \in MemFields |-> mem'[f]]
    BY <1>8 DEF Clear, Empty, MemFields
  <2> QED
    BY <2>1, EmptyWithin DEF LimitsInv
<1>9. ASSUME NEW t \in Threads, Step(t) \/ Return(t) PROVE LimitsInv'
  BY <1>1, <1>4, <1>5, <1>9 DEF Step, JoinFlight, BeginLoad, EndLoad, FinishFlight, Return
<1>10. CASE UNCHANGED vars
  BY <1>1, <1>10 DEF vars
<1> QED
  BY <1>3, <1>6, <1>7, <1>8, <1>9, <1>10 DEF Next
-----------------------------------------------------------------------------
\* Every reachable state satisfies the inductive invariant.
THEOREM CallsHeld == Spec => []HubInv
BY InitHolds, StepHolds, PTL DEF Spec

\* Of the calls that are not forced one at a time loads a key, but for a key whose
\* flight a forced call ended (cache.py: get_or_load).
THEOREM OneLoads == Spec => []SingleFlight
<1>1. HubInv => SingleFlight
  BY DEF HubInv, Good, Leads, Leading, Key, SingleFlight
<1> QED
  BY <1>1, CallsHeld, PTL

\* A forced load that no older load of its key is left to undo stays: no call that
\* begins after it has an older frame (cache.py: get_or_load, put).
THEOREM RefreshSticks == Spec => []ForceSticks
<1>1. HubInv => ForceSticks
  BY DEF HubInv, Good, UpToDate, IsFrame, ForceSticks
<1> QED
  BY <1>1, CallsHeld, PTL

\* The frame a call returns is one of its own request, but for the types of its
\* codes, whichever thread loaded it (facade.py, cache.py: get_or_load).
THEOREM OwnFrames == Spec => []OwnFrame
<1>1. HubInv => OwnFrame
  BY DEF HubInv, Good, Own, Matches, IsFrame, OwnFrame
<1> QED
  BY <1>1, CallsHeld, PTL

\* The cache counts its bytes and entries right and stays within its limits, for any
\* sizes, limits and threads (cache.py: _remove, _evict, put).
THEOREM LimitsKept == Spec => []WithinLimits
<1>1. LimitsInv => WithinLimits
  BY OnceEach DEF LimitsInv, Counted, Within, WithinLimits
<1>2. Spec => []LimitsInv
  BY InitWithin, StepWithin, CallsHeld, PTL DEF Spec
<1> QED
  BY <1>1, <1>2, PTL
=============================================================================
