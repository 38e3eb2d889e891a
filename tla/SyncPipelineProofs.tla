------------------------- MODULE SyncPipelineProofs -------------------------
(***************************************************************************)
(* Theorems about SyncPipeline for any days, threads, windows and bounds,  *)
(* any source and any requests: what the watermark covers, that history is *)
(* kept, and that versions form a chain until two executions overlap.      *)
(***************************************************************************)
EXTENDS SyncPipeline, FiniteSetTheorems, WellFoundedInduction, TLAPS

USE SyncAssumption DEF SyncAssumption, NoBar

-----------------------------------------------------------------------------
(* Days, moments and windows *)

LEMMA WindowTyped ==
  ASSUME NEW s \in Windows
  PROVE  /\ s = <<s[1], s[2]>> /\ s[1] \in Days /\ s[2] \in Days /\ s[1] <= s[2]
         /\ Interval(s) \subseteq Days /\ s[2] \in Interval(s)
BY DEF Windows, Days, Interval

LEMMA DaysClose ==
  ASSUME NEW d \in Days
  PROVE  d \in Nat /\ d >= 1 /\ Close(d) \in Moments /\ Cutoff(d) \in Moments /\ Cutoff(d) = Close(d) + 1
BY DEF Days, Close, Cutoff, Moments

LEMMA TodayIs ==
  ASSUME now \in Moments
  PROVE  /\ now \in Nat /\ Today \in Days
         /\ \A d \in Days : now + 1 = Cutoff(d) => Today = d
<1>1. now \in Nat /\ now < 3 * LastDay /\ LastDay \in Nat
  BY DEF Moments
<1> DEFINE q == now \div 3
           r == now % 3
<1>2. q \in Nat /\ r \in 0..2 /\ now = 3 * q + r
  BY <1>1
<1>3. Today = q + 1
  BY DEF Today
<1> HIDE DEF q, r
<1>4. q < LastDay
  BY <1>1, <1>2
<1>5. Today \in Days
  BY <1>2, <1>3, <1>4 DEF Days
<1>6. ASSUME NEW d \in Days, now + 1 = Cutoff(d)
      PROVE  Today = d
  <2>1. 3 * q + r + 1 = 3 * (d - 1) + 2 /\ d \in Nat /\ d >= 1
    BY <1>2, <1>6, DaysClose DEF Cutoff
  <2>2. q = d - 1
    BY <1>2, <2>1
  <2> QED
    BY <1>2, <1>3, <2>1, <2>2
<1> QED
  BY <1>1, <1>5, <1>6

\* A set of numbers that is not empty has a least one: of the intervals 0..n that
\* its members span, one is minimal.
LEMMA LeastNumber ==
  ASSUME NEW T \in SUBSET Nat, T # {}
  PROVE  \E x \in T : \A y \in T : x <= y
<1> DEFINE R == StrictSubsetOrdering(Nat)
           F == FiniteSubsetsOf(Nat)
           U == {0..n : n \in T}
<1>1. IsWellFoundedOn(R, F)
  BY FS_StrictSubsetOrderingWellFounded
<1>2. U \subseteq F /\ U # {}
  <2>1. \A n \in Nat : 0..n \in SUBSET Nat /\ IsFiniteSet(0..n)
    BY FS_Interval
  <2>2. \A n \in Nat : 0..n \in F
    BY <2>1 DEF FiniteSubsetsOf
  <2>3. PICK t \in T : TRUE
    OBVIOUS
  <2>4. 0..t \in U
    BY <2>3
  <2>5. \A v \in U : \E n \in Nat : v = 0..n
    OBVIOUS
  <2> HIDE DEF F, U
  <2> QED
    BY <2>2, <2>4, <2>5
<1>3. PICK u \in U : \A v \in U : <<v, u>> \notin R
  <2> HIDE DEF R, F, U
  <2> QED
    BY <1>1, <1>2, WFMin
<1>4. PICK x \in T : u = 0..x
  OBVIOUS
<1>5. ASSUME NEW y \in T, ~(x <= y)
      PROVE  FALSE
  <2>1. 0..y \subseteq 0..x /\ x \in 0..x /\ x \notin 0..y
    BY <1>5
  <2>2. <<0..y, 0..x>> \in R
    BY <2>1 DEF StrictSubsetOrdering
  <2> QED
    BY <1>3, <1>4, <2>2
<1> QED
  BY <1>5

\* A set of days that is not empty has a last one.
LEMMA LastOf ==
  ASSUME NEW S \in SUBSET Days, S # {}
  PROVE  Max(S) \in S /\ \A d \in S : d <= Max(S)
<1> DEFINE T == {LastDay - d : d \in S}
<1>a. LastDay \in Nat /\ \A d \in S : d \in Nat /\ d <= LastDay /\ LastDay - d \in Nat
  BY DEF Days
<1>1. T \subseteq Nat /\ T # {}
  BY <1>a
<1>2. PICK x \in T : \A y \in T : x <= y
  <2> HIDE DEF T
  <2> QED
    BY <1>1, LeastNumber
<1>3. PICK m \in S : x = LastDay - m
  OBVIOUS
<1>4. \A d \in S : d <= m
  <2> SUFFICES ASSUME NEW d \in S
               PROVE  d <= m
    OBVIOUS
  <2>1. x <= LastDay - d
    BY <1>2
  <2> QED
    BY <1>3, <1>a, <2>1
<1>5. \E e \in S : \A d \in S : e >= d
  BY <1>4 DEF Days
<1>6. Max(S) \in S /\ \A d \in S : Max(S) >= d
  BY <1>5 DEF Max
<1> QED
  BY <1>6 DEF Days
-----------------------------------------------------------------------------
(* Versions *)

\* Of the versions of a day one is the latest: few are later than it, and any of
\* those would have fewer.
LEMMA LatestIn ==
  ASSUME NEW S \in Versions, S # {}
  PROVE  /\ Latest(S) \in S
         /\ \A u \in S : \/ u.known < Latest(S).known
                         \/ u.known = Latest(S).known /\ u.version <= Latest(S).version
<1> DEFINE Later(u, v) == u.known > v.known \/ (u.known = v.known /\ u.version > v.version)
           After(v) == {u \in S : Later(u, v)}
           Last(v) == \A u \in S : u.known < v.known \/ (u.known = v.known /\ u.version <= v.version)
           R == StrictSubsetOrdering(S)
           F == FiniteSubsetsOf(S)
           U == {After(v) : v \in S}
<1>1. \A v \in S : v.known \in Nat /\ v.version \in Nat
  BY DEF Versions, Version, Moments
<1>2. IsWellFoundedOn(R, F)
  BY FS_StrictSubsetOrderingWellFounded
<1>3. U \subseteq F /\ U # {}
  <2>1. \A v \in S : After(v) \in F
    BY FS_Subset DEF Versions, FiniteSubsetsOf
  <2> HIDE DEF F, After
  <2> QED
    BY <2>1
<1>4. PICK least \in U : \A x \in U : <<x, least>> \notin R
  <2> HIDE DEF R, F, U
  <2> QED
    BY <1>2, <1>3, WFMin
<1>5. PICK v \in S : least = After(v)
  OBVIOUS
<1>6. After(v) = {}
  <2> SUFFICES ASSUME NEW u \in After(v)
               PROVE  FALSE
    OBVIOUS
  <2>1. \A x \in After(u) : x \in After(v)
    BY <1>1
  <2>2. u \notin After(u) /\ u \in S
    BY <1>1
  <2> HIDE DEF After
  <2>3. <<After(u), After(v)>> \in R
    <3>1. After(u) \in SUBSET S /\ After(v) \in SUBSET S
      BY DEF After
    <3> QED
      BY <2>1, <2>2, <3>1 DEF StrictSubsetOrdering
  <2> QED
    BY <1>4, <1>5, <2>2, <2>3
<1>7. Last(v)
  BY <1>1, <1>6
<1>8. Latest(S) = CHOOSE x \in S : Last(x)
  BY DEF Latest
<1>9. Latest(S) \in S /\ Last(Latest(S))
  <2> HIDE DEF Last
  <2> QED
    BY <1>7, <1>8
<1> QED
  BY <1>9

\* The latest of a chain is the one with the highest number.
LEMMA LatestIs ==
  ASSUME NEW S \in Versions, Ordered(S), Chained(S), S # {}
  PROVE  Latest(S).version = Cardinality(S)
<1> DEFINE n == Cardinality(S)
           last == Latest(S)
<1>1. n \in Nat /\ n # 0
  BY FS_CardinalityType, FS_EmptySet DEF Versions
<1>2. {v.version : v \in S} = 1..n
  BY DEF Chained
<1>3. \A v \in S : v.version \in 1..n /\ v.known \in Nat
  BY <1>2 DEF Versions, Version, Moments
<1>4. PICK top \in S : top.version = n
  <2>1. n \in {v.version : v \in S}
    BY <1>1, <1>2
  <2> QED
    BY <2>1
<1>5. last \in S /\ (top.known < last.known \/ (top.known = last.known /\ top.version <= last.version))
  BY LatestIn
<1>6. last.version < top.version => last.known <= top.known
  BY <1>5 DEF Ordered
<1> HIDE DEF n, last
<1>7. last.version = n
  BY <1>1, <1>3, <1>4, <1>5, <1>6
<1> QED
  BY <1>7 DEF n, last

\* What an executor will append for one day: nothing, or the first version, or a
\* revision that carries its stamp.
LEMMA NewVersionIs ==
  ASSUME TypeOK, NEW d \in Days, NEW value \in Values, NEW t \in Moments
  PROVE  /\ \A v \in NewVersion(d, value, t) :
              IsFirst(v, d) \/ (bars[d] # {} /\ v.known = t)
         /\ bars[d] = {} => NewVersion(d, value, t) # {}
<1> DEFINE top == Latest(bars[d])
<1>1. CASE bars[d] = {}
  <2>1. NewVersion(d, value, t) = {[version |-> 1, value |-> value, known |-> Close(d)]}
    BY <1>1 DEF NewVersion
  <2> QED
    BY <2>1 DEF IsFirst
<1>2. CASE bars[d] # {} /\ top.value = value
  BY <1>2 DEF NewVersion
<1>3. CASE bars[d] # {} /\ top.value # value
  <2>1. NewVersion(d, value, t) = {[version |-> top.version + 1, value |-> value, known |-> t]}
    BY <1>3 DEF NewVersion
  <2> HIDE DEF top
  <2> QED
    BY <1>3, <2>1
<1> QED
  BY <1>1, <1>2, <1>3

\* Of a chain, it is the version that comes next.
LEMMA NewVersionNext ==
  ASSUME TypeOK, NEW d \in Days, NEW value \in Values, NEW t \in Moments,
         Ordered(bars[d]), Chained(bars[d])
  PROVE  \/ NewVersion(d, value, t) = {}
         \/ \E x \in Version : NewVersion(d, value, t) = {x} /\ IsNext(x, bars[d], d, t)
<1> DEFINE S == bars[d]
           n == Cardinality(S)
<1>0. S \in Versions
  BY DEF TypeOK
<1>1. n \in Nat /\ (S = {} => n = 0)
  BY <1>0, FS_CardinalityType, FS_EmptySet DEF Versions
<1>2. Close(d) \in Moments
  BY DaysClose
<1>3. CASE S = {}
  <2> DEFINE x == [version |-> 1, value |-> value, known |-> Close(d)]
  <2>1. NewVersion(d, value, t) = {x}
    BY <1>3 DEF NewVersion
  <2>2. x \in Version /\ x.version = n + 1 /\ x.known = Close(d)
    BY <1>1, <1>2, <1>3 DEF Version
  <2> QED
    BY <1>3, <2>1, <2>2 DEF IsNext
<1>4. CASE S # {} /\ Latest(S).value = value
  BY <1>4 DEF NewVersion
<1>5. CASE S # {} /\ Latest(S).value # value
  <2> DEFINE top == Latest(S)
             x == [version |-> top.version + 1, value |-> value, known |-> t]
  <2>1. top \in S /\ top.version = n
    BY <1>0, <1>5, LatestIn, LatestIs
  <2>2. \A v \in S : v.version = n => v = top
    BY <2>1 DEF Ordered
  <2>3. NewVersion(d, value, t) = {x}
    BY <1>5 DEF NewVersion
  <2>4. x.version = n + 1 /\ x \in Version /\ x.known = t /\ x.value = value
    BY <1>0, <1>1, <2>1 DEF Versions, Version
  <2>5. \A v \in S : v.version = n => v.value # x.value
    BY <1>5, <2>2, <2>4
  <2> HIDE DEF x
  <2> QED
    BY <1>5, <2>3, <2>4, <2>5 DEF IsNext
<1> QED
  BY <1>3, <1>4, <1>5

\* A chain with its next version is a chain.
LEMMA NextChained ==
  ASSUME NEW S \in Versions, Ordered(S), Chained(S), NEW d \in Days, NEW t \in Nat,
         \A v \in S : v.known <= t, NEW x \in Version, IsNext(x, S, d, t)
  PROVE  S \cup {x} \in Versions /\ Ordered(S \cup {x}) /\ Chained(S \cup {x})
<1> DEFINE n == Cardinality(S)
           T == S \cup {x}
<1>1. IsFiniteSet(S) /\ n \in Nat
  BY FS_CardinalityType DEF Versions
<1>2. {v.version : v \in S} = 1..n
  BY DEF Chained
<1>3. \A v \in S : v.version \in 1..n /\ v.known \in Nat /\ v.known <= t
  BY <1>2 DEF Versions, Version, Moments
<1>4. \A u, v \in S : /\ u.version = v.version => u = v
                      /\ u.version < v.version => u.known <= v.known
                      /\ u.version + 1 = v.version => u.value # v.value
  BY DEF Ordered, Chained
<1>5. x.known \in Nat /\ x.version = n + 1 /\ (S # {} => x.known = t)
  BY DEF Version, Moments, IsNext
<1>7. \A v \in S : v.value # x.value \/ v.version # n
  BY DEF IsNext
<1> HIDE DEF n
<1>8. x \notin S
  BY <1>1, <1>3, <1>5
<1>9. T \in Versions /\ IsFiniteSet(T) /\ Cardinality(T) = n + 1
  BY <1>1, <1>8, FS_AddElement DEF n, Versions
<1>10. {v.version : v \in T} = 1..(n + 1)
  <2>1. {v.version : v \in T} = {v.version : v \in S} \cup {x.version}
    OBVIOUS
  <2>2. 1..(n + 1) = (1..n) \cup {n + 1}
    BY <1>1
  <2> QED
    BY <1>2, <1>5, <2>1, <2>2
<1>12. \A u, v \in T : /\ u.version = v.version => u = v
                       /\ u.version < v.version => u.known <= v.known
  <2> SUFFICES ASSUME NEW u \in T, NEW v \in T
               PROVE  /\ u.version = v.version => u = v
                      /\ u.version < v.version => u.known <= v.known
    OBVIOUS
  <2>1. CASE u \in S /\ v \in S
    BY <1>4, <2>1
  <2>2. CASE u = x /\ v \in S
    BY <1>1, <1>3, <1>5, <2>2
  <2>3. CASE u \in S /\ v = x
    BY <1>1, <1>3, <1>5, <2>3
  <2>4. CASE u = x /\ v = x
    BY <1>1, <1>5, <2>4
  <2> QED
    BY <2>1, <2>2, <2>3, <2>4
<1>13. \A u, v \in T : u.version + 1 = v.version => u.known <= v.known /\ u.value # v.value
  <2> SUFFICES ASSUME NEW u \in T, NEW v \in T, u.version + 1 = v.version
               PROVE  u.known <= v.known /\ u.value # v.value
    OBVIOUS
  <2>1. u.version \in Nat /\ v.version \in Nat /\ u.version <= n + 1 /\ v.version <= n + 1
    BY <1>1, <1>3, <1>5
  <2>2. u \in S
    BY <1>1, <1>5, <2>1
  <2>3. u.known <= v.known
    BY <1>12, <2>1
  <2>4. CASE v \in S
    BY <1>4, <2>2, <2>3, <2>4
  <2>5. CASE v = x
    BY <1>1, <1>5, <1>7, <2>1, <2>2, <2>3, <2>5
  <2> QED
    BY <2>4, <2>5
<1> HIDE DEF T
<1>14. Ordered(T)
  BY <1>9, <1>12 DEF Ordered
<1>15. Chained(T)
  BY <1>9, <1>10, <1>13 DEF Chained
<1> QED
  BY <1>9, <1>14, <1>15 DEF T
-----------------------------------------------------------------------------
(* Types, and where threads are *)

\* ThreadsPlaced, of one thread at a moment.
Placed(c, m) ==
  /\ c.step # "idle" => c.window \in Windows
  /\ c.step \in {"stamped", "read"} => c.stamp <= m
  /\ c.step \in {"fetched", "stamped"} =>
       /\ c.got \in [Interval(c.window) -> Answer]
       /\ \A d \in Interval(c.window) : c.got[d] # NoBar => m >= Close(d)

LEMMA AllPlaced ==
  ThreadsPlaced <=> /\ \A d \in Days : source[d] # NoBar => now >= Close(d)
                    /\ \A w \in Threads : Placed(thread[w], now)
BY DEF ThreadsPlaced, Placed, Does, Writing, Answered

LEMMA StillPlaced ==
  ASSUME NEW c, NEW m \in Nat, NEW n \in Nat, m <= n, Placed(c, m), c.stamp \in Nat
  PROVE  Placed(c, n)
<1>1. ASSUME c.step \in {"fetched", "stamped"}
      PROVE  \A d \in Interval(c.window) : Close(d) \in Nat /\ (c.got[d] # NoBar => n >= Close(d))
  <2>1. c.window \in Windows
    BY <1>1 DEF Placed
  <2>2. \A d \in Interval(c.window) : Close(d) \in Nat
    BY <2>1, WindowTyped, DaysClose DEF Moments
  <2> QED
    BY <1>1, <2>2 DEF Placed
<1>2. c.step \in {"stamped", "read"} => c.stamp <= n
  BY DEF Placed
<1> QED
  BY <1>1, <1>2 DEF Placed

LEMMA IdleTyped == Idle \in ThreadState /\ Idle.step = "idle" /\ Placed(Idle, now)
<1>1. 0 \in Moments
  BY DEF Moments
<1> QED
  BY <1>1, FS_EmptySet DEF Idle, ThreadState, Mark, NoRows, Placed, Versions

LEMMA ThreadRecord ==
  ASSUME TypeOK, NEW w \in Threads
  PROVE  /\ thread[w] \in ThreadState
         /\ thread[w].window \in Windows \cup {None}
         /\ thread[w].lost \in BOOLEAN
         /\ thread[w].stamp \in Moments /\ thread[w].stamp \in Nat
         /\ thread[w].rows \in [Days -> Versions]
         /\ thread[w].seen \in Mark
         /\ thread[w].target \in 0..LastDay
         /\ thread[w].wrote \in BOOLEAN
         /\ thread[w].got \in {<<>>} \cup UNION {[s[1]..s[2] -> Answer] : s \in Windows}
BY DEF TypeOK, ThreadState, Moments

LEMMA CreateTyped ==
  ASSUME TypeOK, NEW s \in Windows, CreateRun(s)
  PROVE  /\ run' \in [Windows -> Statuses]
         /\ \A q \in Windows : run'[q] = run[q] \/ (q = s /\ ~Known(s))
BY DEF TypeOK, CreateRun, Known, Statuses

LEMMA PlanTyped ==
  ASSUME TypeOK, Plan
  PROVE  /\ planned' \in Windows
         /\ planned'[1] = FirstUncovered
         /\ planned'[2] \in ClosedDays
<1>1. ClosedDays \in SUBSET Days /\ ClosedDays # {} /\ FirstUncovered <= Max(ClosedDays)
  BY DEF ClosedDays, Plan
<1>2. Max(ClosedDays) \in ClosedDays /\ Max(ClosedDays) \in Days
  BY <1>1, LastOf
<1>3. FirstUncovered \in Nat /\ FirstUncovered >= 1
  BY DEF FirstUncovered, TypeOK, Mark, Days
<1>4. FirstUncovered \in Days
  BY <1>1, <1>2, <1>3 DEF Days
<1>5. planned' = <<FirstUncovered, Max(ClosedDays)>>
  BY DEF Plan
<1> HIDE SyncAssumption DEF FirstUncovered
<1> QED
  BY <1>1, <1>2, <1>4, <1>5 DEF Windows

LEMMA RequestTyped ==
  ASSUME TypeOK, NEW start \in ApiStarts, NEW end \in ApiEnds, TriggerSync(start, end)
  PROVE  \E s \in Windows :
           /\ CreateRun(s)
           /\ excused' = IF Known(s) THEN excused ELSE excused \cup Skipped(s) \cup TooEarly(s)
<1> DEFINE e == IF end = None THEN Today ELSE end
           s == IF start # None THEN start ELSE IF mark = None THEN e ELSE mark + 1
<1>1. Today \in Days
  BY TodayIs DEF TypeOK
<1>2. e \in Days
  BY <1>1
<1>3. s <= e /\ CreateRun(<<s, e>>)
      /\ excused' = IF Known(<<s, e>>) THEN excused
                    ELSE excused \cup Skipped(<<s, e>>) \cup TooEarly(<<s, e>>)
  BY DEF TriggerSync
<1>4. s \in Days
  <2>1. CASE start # None
    BY <2>1
  <2>2. CASE start = None /\ mark = None
    BY <1>2, <2>2
  <2>3. CASE start = None /\ mark # None
    <3>1. s = mark + 1 /\ mark \in 0..LastDay
      BY <2>3 DEF TypeOK, Mark
    <3> QED
      BY <1>2, <1>3, <3>1 DEF Days
  <2> QED
    BY <2>1, <2>2, <2>3
<1> HIDE DEF e, s
<1>5. <<s, e>> \in Windows
  BY <1>2, <1>3, <1>4 DEF Windows
<1> QED
  BY <1>3, <1>5

LEMMA TargetTyped ==
  ASSUME TypeOK, NEW w \in Threads, thread[w].window \in Windows
  PROVE  Target(w) \in 0..LastDay /\ Target(w) <= thread[w].window[2]
BY WindowTyped, TodayIs DEF Target, Days, TypeOK

LEMMA NewVersionTyped ==
  ASSUME TypeOK, NEW d \in Days, NEW value \in Values, NEW t \in Moments
  PROVE  NewVersion(d, value, t) \in Versions
<1> DEFINE top == Latest(bars[d])
<1>0. Close(d) \in Moments
  BY DaysClose
<1>1. ASSUME NEW x \in Version
      PROVE  {x} \in Versions
  BY FS_Singleton DEF Versions
<1>2. {} \in Versions
  BY FS_EmptySet DEF Versions
<1>3. CASE bars[d] = {}
  <2>1. NewVersion(d, value, t) = {[version |-> 1, value |-> value, known |-> Close(d)]}
    BY <1>3 DEF NewVersion
  <2> QED
    BY <1>0, <1>1, <2>1 DEF Version
<1>4. CASE bars[d] # {} /\ top.value = value
  BY <1>2, <1>4 DEF NewVersion
<1>5. CASE bars[d] # {} /\ top.value # value
  <2>1. NewVersion(d, value, t) = {[version |-> top.version + 1, value |-> value, known |-> t]}
    BY <1>5 DEF NewVersion
  <2>2. top \in Version
    BY <1>5, LatestIn DEF TypeOK, Versions
  <2> HIDE DEF top
  <2>3. top.version + 1 \in Nat
    BY <2>2 DEF Version
  <2> QED
    BY <1>1, <2>1, <2>3 DEF Version
<1> QED
  BY <1>3, <1>4, <1>5
-----------------------------------------------------------------------------
(* Every variable keeps its type *)

\* A step that moves one thread.
LEMMA ThreadStep ==
  ASSUME TypeOK, ThreadsPlaced, NEW w \in Threads, NEW c \in ThreadState, Placed(c, now),
         thread' = [thread EXCEPT ![w] = c], UNCHANGED <<now, source>>
  PROVE  thread' \in [Threads -> ThreadState] /\ ThreadsPlaced'
<1>1. thread' \in [Threads -> ThreadState]
  BY DEF TypeOK
<1>2. \A v \in Threads : thread'[v] = IF v = w THEN c ELSE thread[v]
  BY DEF TypeOK
<1>3. \A d \in Days : source'[d] # NoBar => now' >= Close(d)
  BY AllPlaced
<1>4. \A v \in Threads : Placed(thread'[v], now')
  BY <1>2, AllPlaced
<1>5. ThreadsPlaced'
  BY <1>3, <1>4 DEF ThreadsPlaced, Placed, Does, Writing, Answered
<1> QED
  BY <1>1, <1>5

LEMMA TypeStep ==
  ASSUME TypeOK, ThreadsPlaced, [Next]_vars
  PROVE  TypeOK' /\ ThreadsPlaced'
<1>b. now \in Nat /\ now \in Moments
  BY TodayIs DEF TypeOK
<1>r. /\ run \in [Windows -> Statuses]
      /\ mark \in Mark /\ planned \in Windows \cup {None} /\ failures \in 0..MaxFailures
      /\ source \in [Days -> Answer] /\ bars \in [Days -> Versions]
      /\ excused \in SUBSET TradingDays /\ {overlapped, orphaned} \subseteq BOOLEAN
  BY DEF TypeOK
<1>i. Idle \in ThreadState /\ Placed(Idle, now)
  BY IdleTyped
<1>w. \A w \in Threads : Placed(thread[w], now) /\ thread[w].stamp \in Nat
  BY AllPlaced, ThreadRecord
\* A step of a thread that leaves clock, source and plan alone.
<1>t. ASSUME NEW w \in Threads, NEW c \in ThreadState, thread' = [thread EXCEPT ![w] = c],
             UNCHANGED <<now, source, planned>>, Placed(c, now),
             bars' \in [Days -> Versions], run' \in [Windows -> Statuses],
             mark' \in Mark, failures' \in 0..MaxFailures,
             excused' \in SUBSET TradingDays, {overlapped', orphaned'} \subseteq BOOLEAN
      PROVE  TypeOK' /\ ThreadsPlaced'
  <2>1. thread' \in [Threads -> ThreadState] /\ ThreadsPlaced'
    BY <1>t, ThreadStep
  <2> QED
    BY <1>t, <1>b, <1>r, <2>1 DEF TypeOK
\* A step that leaves the threads alone.
<1>q. ASSUME UNCHANGED <<bars, mark, thread, failures, overlapped, orphaned>>,
             now' \in Moments, now' >= now, source' \in [Days -> Answer],
             \A d \in Days : source'[d] # NoBar => source[d] # NoBar \/ now' >= Close(d),
             run' \in [Windows -> Statuses], planned' \in Windows \cup {None},
             excused' \in SUBSET TradingDays
      PROVE  TypeOK' /\ ThreadsPlaced'
  <2>1. TypeOK'
    BY <1>q DEF TypeOK
  <2>2. \A d \in Days : Close(d) \in Nat /\ now' \in Nat /\ (now >= Close(d) => now' >= Close(d))
    BY <1>b, <1>q, DaysClose DEF Moments
  <2>3. \A d \in Days : source'[d] # NoBar => now' >= Close(d)
    BY <1>q, <2>2, AllPlaced
  <2>4. \A w \in Threads : Placed(thread'[w], now')
    <3>1. now' \in Nat
      BY <1>q DEF Moments
    <3>2. \A w \in Threads : Placed(thread[w], now')
      BY <1>b, <1>q, <1>w, <3>1, StillPlaced
    <3> QED
      BY <1>q, <3>2
  <2>5. ThreadsPlaced'
    BY <2>3, <2>4 DEF ThreadsPlaced, Placed, Does, Writing, Answered
  <2> QED
    BY <2>1, <2>5
<1> USE DEF Does
<1>1. CASE Tick
  <2>1. now' = now + 1 /\ now' \in Moments
        /\ UNCHANGED <<source, bars, mark, run, planned, thread, failures, excused, overlapped, orphaned>>
    BY <1>1 DEF Tick, history
  <2> QED
    BY <1>b, <1>q, <1>r, <2>1
<1>2. ASSUME NEW d \in Days, Publish(d) \/ Revise(d)
      PROVE  TypeOK' /\ ThreadsPlaced'
  <2>1. UNCHANGED <<now, bars, mark, run, planned, thread, failures, excused, overlapped, orphaned>>
    BY <1>2 DEF Publish, Revise, history
  <2>2. \E x \in Values : source' = [source EXCEPT ![d] = x]
    BY <1>2 DEF Publish, Revise, Values
  <2>3. source[d] # NoBar \/ now >= Close(d)
    BY <1>2 DEF Publish, Revise
  <2>4. source' \in [Days -> Answer] /\ \A e \in Days : e # d => source'[e] = source[e]
    BY <1>r, <2>2 DEF Answer
  <2> QED
    BY <1>b, <1>q, <1>r, <2>1, <2>3, <2>4
<1>3. CASE Plan
  <2>1. UNCHANGED <<now, source, bars, mark, run, thread, failures, excused, overlapped, orphaned>>
    BY <1>3 DEF Plan, history
  <2>2. planned' \in Windows
    BY <1>3, PlanTyped
  <2> QED
    BY <1>b, <1>q, <1>r, <2>1, <2>2
<1>4. CASE Submit
  <2>1. planned' = None /\ planned \in Windows /\ CreateRun(planned)
        /\ UNCHANGED <<now, source, bars, mark, thread, failures, excused, overlapped, orphaned>>
    BY <1>4, <1>r DEF Submit, history
  <2>2. run' \in [Windows -> Statuses]
    BY <2>1, CreateTyped
  <2> QED
    BY <1>b, <1>q, <1>r, <2>1, <2>2
<1>5. ASSUME NEW s \in ApiStarts, NEW e \in ApiEnds, TriggerSync(s, e)
      PROVE  TypeOK' /\ ThreadsPlaced'
  <2>1. UNCHANGED <<now, source, bars, mark, planned, thread, failures, overlapped, orphaned>>
    BY <1>5 DEF TriggerSync
  <2>2. run' \in [Windows -> Statuses] /\ excused' \in SUBSET TradingDays
    BY <1>5, <1>r, RequestTyped, CreateTyped DEF Skipped, TooEarly
  <2> QED
    BY <1>b, <1>q, <1>r, <2>1, <2>2
<1>6. ASSUME NEW w \in Threads, NEW s \in Windows, Select(w, s)
      PROVE  TypeOK' /\ ThreadsPlaced'
  <2> DEFINE c == [Idle EXCEPT !.step = "selected", !.window = s]
  <2>1. c \in ThreadState /\ Placed(c, now)
    BY <1>i DEF Idle, ThreadState, Placed
  <2>2. thread' = [thread EXCEPT ![w] = c]
        /\ UNCHANGED <<now, source, bars, mark, run, planned, failures, excused, overlapped, orphaned>>
    BY <1>6 DEF Select, history
  <2> HIDE DEF c
  <2> QED
    BY <1>r, <1>t, <2>1, <2>2
<1>7. ASSUME NEW w \in Threads, Claim(w)
      PROVE  TypeOK' /\ ThreadsPlaced'
  <2> DEFINE c == [thread[w] EXCEPT !.step = "claimed"]
  <2>1. thread[w].window \in Windows
    BY <1>7, <1>w DEF Claim, Placed
  <2>2. c \in ThreadState /\ Placed(c, now)
    BY <2>1, ThreadRecord DEF ThreadState, Placed
  <2>3. thread' = [thread EXCEPT ![w] = c] /\ run' \in [Windows -> Statuses]
        /\ UNCHANGED <<now, source, bars, mark, planned, failures, excused, overlapped, orphaned>>
    BY <1>7, <1>r, <2>1 DEF Claim, history, Goes, Statuses
  <2> HIDE DEF c
  <2> QED
    BY <1>r, <1>t, <2>2, <2>3
<1>8. ASSUME NEW w \in Threads, Fetch(w)
      PROVE  TypeOK' /\ ThreadsPlaced'
  <2> DEFINE s == thread[w].window
             g == [d \in s[1]..s[2] |-> source[d]]
             c == [thread[w] EXCEPT !.step = "fetched", !.got = g]
  <2>1. s \in Windows
    BY <1>8, <1>w DEF Fetch, Placed
  <2>2. Interval(s) \subseteq Days
    BY <2>1, WindowTyped
  <2>3. g \in [Interval(s) -> Answer] /\ \A d \in Interval(s) : g[d] = source[d]
    BY <1>r, <2>2 DEF Interval
  <2>4. \A d \in Interval(s) : g[d] # NoBar => now >= Close(d)
    BY <2>2, <2>3 DEF ThreadsPlaced
  <2>5. thread' = [thread EXCEPT ![w] = c] /\ excused' \in SUBSET TradingDays
        /\ UNCHANGED <<now, source, bars, mark, run, planned, failures, overlapped, orphaned>>
    BY <1>8, <1>r DEF Fetch
  <2>6. g \in {<<>>} \cup UNION {[q[1]..q[2] -> Answer] : q \in Windows}
    BY <2>1, <2>3 DEF Interval
  <2> HIDE DEF g
  <2>7. c \in ThreadState /\ c.step = "fetched" /\ c.window = s /\ c.got = g
    BY <2>6, ThreadRecord DEF ThreadState
  <2> HIDE DEF c, s
  <2>8. Placed(c, now)
    BY <2>1, <2>3, <2>4, <2>7 DEF Placed
  <2> QED
    BY <1>r, <1>t, <2>5, <2>7, <2>8
<1>9. ASSUME NEW w \in Threads, Stamp(w)
      PROVE  TypeOK' /\ ThreadsPlaced'
  <2> DEFINE c == [thread[w] EXCEPT !.step = "stamped", !.stamp = now]
  <2>1. c \in ThreadState /\ c.step = "stamped" /\ c.window = thread[w].window
        /\ c.got = thread[w].got /\ c.stamp = now
    BY <1>b, ThreadRecord DEF ThreadState
  <2>2. thread' = [thread EXCEPT ![w] = c] /\ overlapped' \in BOOLEAN
        /\ UNCHANGED <<now, source, bars, mark, run, planned, failures, excused, orphaned>>
    BY <1>9 DEF Stamp
  <2>3. thread[w].step = "fetched"
    BY <1>9 DEF Stamp
  <2> HIDE DEF c
  <2>4. Placed(c, now)
    BY <1>b, <1>w, <2>1, <2>3 DEF Placed
  <2> QED
    BY <1>r, <1>t, <2>1, <2>2, <2>4
<1>10. ASSUME NEW w \in Threads, ReadLatest(w)
       PROVE  TypeOK' /\ ThreadsPlaced'
  <2> DEFINE got == thread[w].got
             rows == [d \in Days |->
                        IF d \in DOMAIN got /\ got[d] # NoBar
                        THEN NewVersion(d, got[d], thread[w].stamp) ELSE {}]
             c == [thread[w] EXCEPT !.step = "read", !.got = <<>>, !.rows = rows]
  <2>0. thread[w].step = "stamped"
    BY <1>10 DEF ReadLatest
  <2>1. thread[w].window \in Windows /\ got \in [Interval(thread[w].window) -> Answer]
    BY <1>w, <2>0 DEF Placed
  <2>2. rows \in [Days -> Versions]
    <3>1. {} \in Versions
      BY FS_EmptySet DEF Versions
    <3>2. ASSUME NEW d \in Days, d \in DOMAIN got, got[d] # NoBar
          PROVE  NewVersion(d, got[d], thread[w].stamp) \in Versions
      <4>1. got[d] \in Values /\ thread[w].stamp \in Moments
        BY <2>1, <3>2, ThreadRecord DEF Answer
      <4> QED
        BY <4>1, NewVersionTyped
    <3> HIDE DEF got
    <3> QED
      BY <3>1, <3>2
  <2>3. thread' = [thread EXCEPT ![w] = c]
        /\ UNCHANGED <<now, source, bars, mark, run, planned, failures, excused, overlapped, orphaned>>
    BY <1>10 DEF ReadLatest, history
  <2> HIDE DEF rows
  <2>4. c \in ThreadState /\ c.step = "read" /\ c.window = thread[w].window /\ c.stamp = thread[w].stamp
    BY <2>2, ThreadRecord DEF ThreadState
  <2> HIDE DEF c, got
  <2>5. Placed(c, now)
    BY <1>w, <2>0, <2>1, <2>4 DEF Placed
  <2> QED
    BY <1>r, <1>t, <2>3, <2>4, <2>5
<1>11. ASSUME NEW w \in Threads, Append(w)
       PROVE  TypeOK' /\ ThreadsPlaced'
  <2>1. PICK b \in BOOLEAN : thread' = [thread EXCEPT ![w].step = "written", ![w].rows = NoRows,
                                                      ![w].stamp = 0, ![w].wrote = b]
    BY <1>11 DEF Append
  <2> DEFINE c == [thread[w] EXCEPT !.step = "written", !.rows = NoRows, !.stamp = 0, !.wrote = b]
  <2>2. thread' = [thread EXCEPT ![w] = c]
        /\ UNCHANGED <<now, source, mark, run, planned, failures, excused, overlapped, orphaned>>
    BY <1>11, <2>1 DEF Append, history
  <2>3. c \in ThreadState /\ c.step = "written" /\ c.window = thread[w].window
    BY ThreadRecord, IdleTyped DEF ThreadState, Idle
  <2>4. thread[w].window \in Windows
    BY <1>11, <1>w DEF Append, Placed
  <2> HIDE DEF c
  <2>5. Placed(c, now)
    BY <2>3, <2>4 DEF Placed
  <2>6. bars' \in [Days -> Versions]
    <3>1. ASSUME NEW d \in Days
          PROVE  bars[d] \cup Inserted(d, thread[w].rows[d]) \in Versions
      <4>1. bars[d] \in Versions /\ thread[w].rows[d] \in Versions
        BY <1>r, ThreadRecord
      <4>2. Inserted(d, thread[w].rows[d]) \subseteq thread[w].rows[d]
        BY DEF Inserted
      <4> QED
        BY <4>1, <4>2, FS_Subset, FS_Union DEF Versions
    <3>2. bars' = [d \in Days |-> bars[d] \cup Inserted(d, thread[w].rows[d])]
      BY <1>11 DEF Append
    <3> QED
      BY <3>1, <3>2
  <2> QED
    BY <1>r, <1>t, <2>2, <2>3, <2>5, <2>6
<1>12. ASSUME NEW w \in Threads, Succeed(w)
       PROVE  TypeOK' /\ ThreadsPlaced'
  <2> DEFINE c == [thread[w] EXCEPT !.step = "callback", !.lost = FALSE]
  <2>1. thread[w].window \in Windows
    BY <1>12, <1>w DEF Succeed, Placed
  <2>2. thread' = [thread EXCEPT ![w] = c] /\ run' \in [Windows -> Statuses]
        /\ UNCHANGED <<now, source, bars, mark, planned, failures, excused, overlapped, orphaned>>
    BY <1>12, <1>r, <2>1 DEF Succeed, history, Statuses
  <2>3. c \in ThreadState /\ Placed(c, now)
    BY <2>1, ThreadRecord DEF ThreadState, Placed
  <2> HIDE DEF c
  <2> QED
    BY <1>r, <1>t, <2>2, <2>3
<1>13. ASSUME NEW w \in Threads, Fail(w) \/ Die(w)
       PROVE  TypeOK' /\ ThreadsPlaced'
  <2>1. thread' = [thread EXCEPT ![w] = Idle]
        /\ UNCHANGED <<now, source, bars, mark, planned, excused, overlapped>>
    BY <1>13 DEF Fail, Die, history
  <2>2. failures' \in 0..MaxFailures /\ orphaned' \in BOOLEAN
    <3>1. Breaks /\ (orphaned' = orphaned \/ orphaned' = (orphaned \/ OwnRow(w)))
      BY <1>13 DEF Fail, Die, history
    <3>2. failures' \in 0..MaxFailures
      BY <1>r, <3>1 DEF Breaks
    <3> QED
      BY <1>r, <3>1, <3>2
  <2>3. run' \in [Windows -> Statuses]
    BY <1>13, <1>r DEF Fail, Die, Statuses
  <2> QED
    BY <1>i, <1>r, <1>t, <2>1, <2>2, <2>3
<1>14. ASSUME NEW w \in Threads, Stop(w)
       PROVE  TypeOK' /\ ThreadsPlaced'
  <2> DEFINE c == [thread[w] EXCEPT !.lost = TRUE]
  <2>1. thread' = [thread EXCEPT ![w] = c]
        /\ UNCHANGED <<now, source, bars, mark, planned, excused, overlapped, orphaned>>
    BY <1>14 DEF Stop, history
  <2>2. failures' \in 0..MaxFailures /\ run' \in [Windows -> Statuses]
    <3>1. Breaks /\ run' = [run EXCEPT ![thread[w].window] = "ended"]
      BY <1>14 DEF Stop
    <3>2. failures' \in 0..MaxFailures
      BY <1>r, <3>1 DEF Breaks
    <3> QED
      BY <1>r, <3>1, <3>2 DEF Statuses
  <2>3. c \in ThreadState
    BY ThreadRecord DEF ThreadState
  <2>4. Placed(c, now)
    BY <1>w DEF Placed, TypeOK, ThreadState
  <2> HIDE DEF c
  <2> QED
    BY <1>r, <1>t, <2>1, <2>2, <2>3, <2>4
<1>15. ASSUME NEW w \in Threads, ReadMark(w)
       PROVE  TypeOK' /\ ThreadsPlaced'
  <2>1. UNCHANGED <<now, source, bars, mark, run, planned, failures, excused, overlapped, orphaned>>
    BY <1>15 DEF ReadMark, history
  <2>2. thread[w].window \in Windows
    BY <1>15, <1>w DEF ReadMark, Placed
  <2>3. CASE thread' = [thread EXCEPT ![w] = Idle]
    BY <1>i, <1>r, <1>t, <2>1, <2>3
  <2>4. CASE thread' # [thread EXCEPT ![w] = Idle]
    <3> DEFINE c == [thread[w] EXCEPT !.step = "marking", !.target = Target(w), !.seen = mark]
    <3>1. thread' = [thread EXCEPT ![w] = c]
      BY <1>15, <2>4 DEF ReadMark
    <3>2. c \in ThreadState /\ Placed(c, now)
      BY <1>r, <2>2, ThreadRecord, TargetTyped DEF ThreadState, Placed
    <3> HIDE DEF c
    <3> QED
      BY <1>r, <1>t, <2>1, <2>2, <3>1, <3>2
  <2> QED
    BY <2>3, <2>4
<1>16. ASSUME NEW w \in Threads, WriteMark(w)
       PROVE  TypeOK' /\ ThreadsPlaced'
  <2>1. thread' = [thread EXCEPT ![w] = Idle]
        /\ UNCHANGED <<now, source, bars, run, planned, failures, excused, overlapped, orphaned>>
    BY <1>16 DEF WriteMark, history
  <2>2. mark' \in Mark
    BY <1>16, <1>r, ThreadRecord DEF WriteMark, Mark
  <2> QED
    BY <1>i, <1>r, <1>t, <2>1, <2>2
<1>17. CASE UNCHANGED vars
  BY <1>17, <1>b, <1>q, <1>r DEF vars, history, ThreadsPlaced
<1> QED
  BY <1>1, <1>2, <1>3, <1>4, <1>5, <1>6, <1>7, <1>8, <1>9, <1>10, <1>11, <1>12, <1>13, <1>14,
     <1>15, <1>16, <1>17 DEF Next, Work
-----------------------------------------------------------------------------
(* The versions *)

Quiet ==
  /\ now' \in Nat /\ now' >= now
  /\ bars' = bars /\ overlapped' = overlapped
  /\ \A w \in Threads : Writing(w)' =>
       /\ Does(w, "read")' <=> Does(w, "read")
       /\ Writing(w)
       /\ thread'[w].stamp = thread[w].stamp /\ thread'[w].rows = thread[w].rows

\* Only three actions matter to the versions.
LEMMA QuietStep ==
  ASSUME TypeOK, TypeOK', [Next]_vars
  PROVE  \/ Quiet
         \/ \E w \in Threads : Stamp(w) \/ ReadLatest(w) \/ Append(w)
<1>0. now \in Nat /\ now' \in Nat /\ \A w \in Threads : thread[w] \in ThreadState
  BY DEF TypeOK, Moments
<1>i. Idle.step = "idle"
  BY IdleTyped
<1> USE DEF Does, Writing
<1>q. ASSUME UNCHANGED <<bars, overlapped, thread>>, now' >= now
      PROVE  Quiet
  BY <1>0, <1>q DEF Quiet
<1>t. ASSUME NEW w \in Threads, UNCHANGED <<now, bars, overlapped>>,
             NEW c, thread' = [thread EXCEPT ![w] = c],
             \/ c.step \notin {"stamped", "read"}
             \/ c.step = thread[w].step /\ c.stamp = thread[w].stamp /\ c.rows = thread[w].rows
      PROVE  Quiet
  <2>1. \A v \in Threads : thread'[v] = IF v = w THEN c ELSE thread[v]
    BY <1>t DEF TypeOK
  <2> QED
    BY <1>0, <1>t, <2>1 DEF Quiet
<1>1. CASE Tick
  BY <1>0, <1>1, <1>q DEF Tick, history
<1>2. ASSUME NEW d \in Days, Publish(d) \/ Revise(d)
      PROVE  Quiet
  BY <1>0, <1>2, <1>q DEF Publish, Revise, history
<1>3. CASE Plan \/ Submit
  BY <1>0, <1>3, <1>q DEF Plan, Submit, history
<1>4. ASSUME NEW s \in ApiStarts, NEW e \in ApiEnds, TriggerSync(s, e)
      PROVE  Quiet
  BY <1>0, <1>4, <1>q DEF TriggerSync
<1>5. ASSUME NEW w \in Threads, NEW s \in Windows, Select(w, s)
      PROVE  Quiet
  <2>1. [Idle EXCEPT !.step = "selected", !.window = s].step = "selected"
    BY DEF Idle
  <2> QED
    BY <1>5, <1>t, <2>1 DEF Select, history
<1>6. ASSUME NEW w \in Threads, Claim(w)
      PROVE  Quiet
  <2>1. [thread[w] EXCEPT !.step = "claimed"].step = "claimed"
    BY <1>0 DEF ThreadState
  <2> QED
    BY <1>6, <1>t, <2>1 DEF Claim, Goes, history
<1>7. ASSUME NEW w \in Threads, Fetch(w)
      PROVE  Quiet
  <2> DEFINE g == [d \in thread[w].window[1]..thread[w].window[2] |-> source[d]]
             c == [thread[w] EXCEPT !.step = "fetched", !.got = g]
  <2>1. c.step = "fetched"
    BY <1>0 DEF ThreadState
  <2>2. thread' = [thread EXCEPT ![w] = c] /\ UNCHANGED <<now, bars, overlapped>>
    BY <1>7 DEF Fetch
  <2> HIDE DEF c
  <2> QED
    BY <1>t, <2>1, <2>2
<1>8. ASSUME NEW w \in Threads, Succeed(w)
      PROVE  Quiet
  <2> DEFINE c == [thread[w] EXCEPT !.step = "callback", !.lost = FALSE]
  <2>1. c.step = "callback"
    BY <1>0 DEF ThreadState
  <2>2. thread' = [thread EXCEPT ![w] = c] /\ UNCHANGED <<now, bars, overlapped>>
    BY <1>8 DEF Succeed, history
  <2> HIDE DEF c
  <2> QED
    BY <1>t, <2>1, <2>2
<1>9. ASSUME NEW w \in Threads, Fail(w) \/ Die(w) \/ WriteMark(w)
      PROVE  Quiet
  <2>1. thread' = [thread EXCEPT ![w] = Idle] /\ UNCHANGED <<now, bars, overlapped>>
    BY <1>9 DEF Fail, Die, WriteMark, history
  <2> QED
    BY <1>i, <1>t, <2>1
<1>10. ASSUME NEW w \in Threads, Stop(w)
       PROVE  Quiet
  <2> DEFINE c == [thread[w] EXCEPT !.lost = TRUE]
  <2>1. c.step = thread[w].step /\ c.stamp = thread[w].stamp /\ c.rows = thread[w].rows
    BY <1>0 DEF ThreadState
  <2>2. thread' = [thread EXCEPT ![w] = c] /\ UNCHANGED <<now, bars, overlapped>>
    BY <1>10 DEF Stop, history
  <2> HIDE DEF c
  <2> QED
    BY <1>t, <2>1, <2>2
<1>11. ASSUME NEW w \in Threads, ReadMark(w)
       PROVE  Quiet
  <2> DEFINE c == [thread[w] EXCEPT !.step = "marking", !.target = Target(w), !.seen = mark]
  <2>1. c.step = "marking"
    BY <1>0 DEF ThreadState
  <2>2. UNCHANGED <<now, bars, overlapped>>
        /\ (thread' = [thread EXCEPT ![w] = Idle] \/ thread' = [thread EXCEPT ![w] = c])
    BY <1>11 DEF ReadMark, history
  <2> HIDE DEF c
  <2> QED
    BY <1>i, <1>t, <2>1, <2>2
<1>12. CASE UNCHANGED vars
  BY <1>0, <1>12, <1>q DEF vars, history
<1> QED
  BY <1>1, <1>2, <1>3, <1>4, <1>5, <1>6, <1>7, <1>8, <1>9, <1>10, <1>11, <1>12 DEF Next, Work

\* The three, by the thread they move.
LEMMA StampIs ==
  ASSUME TypeOK, NEW w \in Threads, Stamp(w)
  PROVE  /\ now' = now /\ bars' = bars
         /\ overlapped' = (overlapped \/ \E u \in Threads : Writing(u))
         /\ thread'[w].step = "stamped" /\ thread'[w].stamp = now
         /\ \A v \in Threads : v # w => thread'[v] = thread[v]
BY DEF Stamp, TypeOK, ThreadState

LEMMA ReadIs ==
  ASSUME TypeOK, ThreadsPlaced, NEW w \in Threads, ReadLatest(w)
  PROVE  /\ now' = now /\ bars' = bars /\ overlapped' = overlapped
         /\ Writing(w)
         /\ thread'[w].step = "read" /\ thread'[w].stamp = thread[w].stamp
         /\ \A v \in Threads : v # w => thread'[v] = thread[v]
         /\ \A d \in Days :
              \/ thread'[w].rows[d] = {}
              \/ \E x \in Values : /\ now >= Close(d)
                                   /\ thread'[w].rows[d] = NewVersion(d, x, thread[w].stamp)
         /\ \A d \in Interval(thread[w].window) : thread[w].got[d] # NoBar =>
              \E x \in Values : thread'[w].rows[d] = NewVersion(d, x, thread[w].stamp)
<1> DEFINE got == thread[w].got
           rows == [d \in Days |->
                      IF d \in DOMAIN got /\ got[d] # NoBar
                      THEN NewVersion(d, got[d], thread[w].stamp) ELSE {}]
           c == [thread[w] EXCEPT !.step = "read", !.got = <<>>, !.rows = rows]
<1>1. thread' = [thread EXCEPT ![w] = c] /\ Does(w, "stamped")
      /\ UNCHANGED <<now, source, bars, mark, run, planned, failures, excused, overlapped, orphaned>>
  BY DEF ReadLatest, history
<1>2. thread[w].window \in Windows /\ got \in [Interval(thread[w].window) -> Answer]
      /\ \A d \in Interval(thread[w].window) : got[d] # NoBar => now >= Close(d)
  BY <1>1 DEF ThreadsPlaced, Does, Answered
<1>3. Interval(thread[w].window) \subseteq Days
  BY <1>2, WindowTyped
<1>4. \A d \in Days : \/ rows[d] = {}
                      \/ \E x \in Values : now >= Close(d) /\ rows[d] = NewVersion(d, x, thread[w].stamp)
  BY <1>2 DEF Answer
<1>5. \A d \in Interval(thread[w].window) : got[d] # NoBar =>
        \E x \in Values : rows[d] = NewVersion(d, x, thread[w].stamp)
  BY <1>2, <1>3 DEF Answer
<1> HIDE DEF rows
<1>6. c.step = "read" /\ c.stamp = thread[w].stamp /\ c.rows = rows
  BY DEF TypeOK, ThreadState
<1>7. \A v \in Threads : thread'[v] = IF v = w THEN c ELSE thread[v]
  BY <1>1 DEF TypeOK
<1> HIDE DEF c, got
<1> QED
  BY <1>1, <1>4, <1>5, <1>6, <1>7 DEF Does, Writing, got

LEMMA AppendIs ==
  ASSUME TypeOK, NEW w \in Threads, Append(w)
  PROVE  /\ now' = now /\ overlapped' = overlapped
         /\ Does(w, "read") /\ Writing(w)
         /\ thread'[w].step = "written"
         /\ \A v \in Threads : v # w => thread'[v] = thread[v]
         /\ \A d \in Days : bars'[d] = bars[d] \cup Inserted(d, thread[w].rows[d])
BY DEF Append, TypeOK, ThreadState, Does, Writing, history

LEMMA RevisionsStep ==
  ASSUME TypeOK, TypeOK', ThreadsPlaced, RevisionsStamped, [Next]_vars
  PROVE  RevisionsStamped'
<1> USE DEF Does
<1>1. CASE Quiet
  BY <1>1 DEF Quiet, RevisionsStamped, Writing
<1>2. ASSUME NEW w \in Threads, Stamp(w)
      PROVE  RevisionsStamped'
  BY <1>2, StampIs DEF RevisionsStamped
<1>3. ASSUME NEW w \in Threads, ReadLatest(w)
      PROVE  RevisionsStamped'
  <2>1. \A d \in Days : \A v \in thread'[w].rows[d] :
          IsFirst(v, d) \/ (bars[d] # {} /\ v.known = thread[w].stamp)
    <3> SUFFICES ASSUME NEW d \in Days, NEW v \in thread'[w].rows[d]
                 PROVE  IsFirst(v, d) \/ (bars[d] # {} /\ v.known = thread[w].stamp)
      OBVIOUS
    <3>1. PICK x \in Values : thread'[w].rows[d] = NewVersion(d, x, thread[w].stamp)
      BY <1>3, ReadIs
    <3> QED
      BY <3>1, NewVersionIs, ThreadRecord
  <2> QED
    BY <1>3, <2>1, ReadIs DEF RevisionsStamped
<1>4. ASSUME NEW w \in Threads, Append(w)
      PROVE  RevisionsStamped'
  <2>1. \A d \in Days : bars'[d] = bars[d] \cup Inserted(d, thread[w].rows[d])
    BY <1>4, AppendIs
  <2>2. \A d \in Days : Inserted(d, thread[w].rows[d]) \subseteq thread[w].rows[d]
    BY DEF Inserted
  <2>3. \A d \in Days : \A v \in thread[w].rows[d] : IsFirst(v, d) \/ bars[d] # {}
    BY <1>4, AppendIs DEF RevisionsStamped
  <2>4. \A d \in Days : bars'[d] # {} => \E v \in bars'[d] : IsFirst(v, d)
    BY <2>1, <2>2, <2>3 DEF RevisionsStamped
  <2>5. \A v \in Threads : Does(v, "read")' => v # w /\ thread'[v] = thread[v]
    BY <1>4, AppendIs
  <2> QED
    BY <2>1, <2>4, <2>5 DEF RevisionsStamped
<1> QED
  BY <1>1, <1>2, <1>3, <1>4, QuietStep

LEMMA OneWriterStep ==
  ASSUME TypeOK, TypeOK', ThreadsPlaced, ~overlapped', ~overlapped => OneWriter, [Next]_vars
  PROVE  OneWriter'
<1> USE DEF Does
<1>0. now \in Nat /\ \A d \in Days : \A v \in bars[d] : v.known \in Nat
  BY DEF TypeOK, Versions, Version, Moments
<1>1. CASE Quiet
  <2>1. OneWriter
    BY <1>1 DEF Quiet
  <2>2. \A d \in Days : Ordered(bars'[d]) /\ Chained(bars'[d]) /\ \A v \in bars'[d] : v.known <= now'
    BY <1>0, <1>1, <2>1 DEF Quiet, OneWriter
  <2>3. \A w \in Threads : Writing(w)' =>
          /\ \A u \in Threads : Writing(u)' => u = w
          /\ \A d \in Days : \A v \in bars'[d] : v.known <= thread'[w].stamp
    BY <1>1, <2>1 DEF Quiet, OneWriter
  <2>4. ASSUME NEW w \in Threads, Does(w, "read")', NEW d \in Days, thread'[w].rows[d] # {}
        PROVE  \E v \in Version : /\ thread'[w].rows[d] = {v}
                                  /\ v.known <= now'
                                  /\ IsNext(v, bars'[d], d, thread'[w].stamp)
    <3>1. Does(w, "read") /\ bars' = bars
          /\ thread'[w].rows = thread[w].rows /\ thread'[w].stamp = thread[w].stamp
      BY <1>1, <2>4 DEF Quiet, Writing
    <3>2. PICK v \in Version : /\ thread[w].rows[d] = {v}
                               /\ v.known <= now
                               /\ IsNext(v, bars[d], d, thread[w].stamp)
      BY <2>1, <2>4, <3>1 DEF OneWriter
    <3>3. v.known <= now'
      BY <1>0, <1>1, <3>2 DEF Quiet, Version, Moments
    <3> QED
      BY <3>1, <3>2, <3>3
  <2> QED
    BY <2>2, <2>3, <2>4 DEF OneWriter
<1>2. ASSUME NEW w \in Threads, Stamp(w)
      PROVE  OneWriter'
  <2>1. OneWriter /\ \A u \in Threads : ~Writing(u)
    BY <1>2, StampIs
  <2>2. \A u \in Threads : Writing(u)' => u = w
    BY <1>2, <2>1, StampIs DEF Writing
  <2>3. \A u \in Threads : ~Does(u, "read")'
    BY <1>2, <2>1, StampIs DEF Writing
  <2>4. \A d \in Days : Ordered(bars'[d]) /\ Chained(bars'[d])
                        /\ \A v \in bars'[d] : v.known <= now' /\ v.known <= thread'[w].stamp
    BY <1>2, <2>1, StampIs DEF OneWriter
  <2> QED
    BY <2>2, <2>3, <2>4 DEF OneWriter
<1>3. ASSUME NEW w \in Threads, ReadLatest(w)
      PROVE  OneWriter'
  <2>1. OneWriter /\ Writing(w) /\ bars' = bars /\ now' = now
    BY <1>3, ReadIs
  <2>2. \A u \in Threads : Writing(u)' => u = w
    BY <1>3, <2>1, ReadIs DEF OneWriter, Writing
  <2>3. \A d \in Days : Ordered(bars[d]) /\ Chained(bars[d])
                        /\ \A v \in bars[d] : v.known <= now /\ v.known <= thread'[w].stamp
    BY <1>3, <2>1, ReadIs DEF OneWriter
  <2>4. ASSUME NEW d \in Days, thread'[w].rows[d] # {}
        PROVE  \E v \in Version : /\ thread'[w].rows[d] = {v}
                                  /\ v.known <= now
                                  /\ IsNext(v, bars[d], d, thread'[w].stamp)
    <3>1. PICK x \in Values : now >= Close(d) /\ thread'[w].rows[d] = NewVersion(d, x, thread[w].stamp)
      BY <1>3, <2>4, ReadIs
    <3>2. PICK v \in Version : thread'[w].rows[d] = {v} /\ IsNext(v, bars[d], d, thread[w].stamp)
      BY <2>3, <2>4, <3>1, NewVersionNext, ThreadRecord
    <3>3. thread[w].stamp <= now /\ thread'[w].stamp = thread[w].stamp
      BY <1>3, <2>1, ReadIs DEF ThreadsPlaced
    <3>4. v.known <= now
      <4>1. v.known = Close(d) \/ v.known = thread[w].stamp
        BY <3>2 DEF IsNext
      <4> QED
        BY <3>1, <3>3, <4>1
    <3> QED
      BY <3>2, <3>3, <3>4
  <2>5. \A u \in Threads : Does(u, "read")' => u = w
    BY <2>2 DEF Writing
  <2> QED
    BY <2>1, <2>2, <2>3, <2>4, <2>5 DEF OneWriter
<1>4. ASSUME NEW w \in Threads, Append(w)
      PROVE  OneWriter'
  <2>1. OneWriter /\ Does(w, "read") /\ Writing(w) /\ now' = now
    BY <1>4, AppendIs
  <2>2. \A u \in Threads : ~Writing(u)'
    BY <1>4, <2>1, AppendIs DEF OneWriter, Writing
  <2>3. ASSUME NEW d \in Days
        PROVE  Ordered(bars'[d]) /\ Chained(bars'[d]) /\ \A v \in bars'[d] : v.known <= now
    <3>1. bars'[d] = bars[d] \cup Inserted(d, thread[w].rows[d])
      BY <1>4, AppendIs
    <3>2. Ordered(bars[d]) /\ Chained(bars[d]) /\ bars[d] \in Versions
          /\ \A v \in bars[d] : v.known <= now /\ v.known <= thread[w].stamp
      BY <2>1 DEF OneWriter, TypeOK
    <3>3. CASE bars'[d] = bars[d]
      BY <3>2, <3>3
    <3>4. CASE bars'[d] # bars[d]
      <4>1. PICK x \in Version : /\ thread[w].rows[d] = {x}
                                 /\ x.known <= now
                                 /\ IsNext(x, bars[d], d, thread[w].stamp)
        BY <2>1, <3>1, <3>4 DEF OneWriter, Inserted
      <4>2. bars'[d] = bars[d] \cup {x}
        BY <3>1, <3>4, <4>1 DEF Inserted
      <4>3. thread[w].stamp \in Nat
        BY ThreadRecord
      <4> QED
        BY <3>2, <4>1, <4>2, <4>3, NextChained
    <3> QED
      BY <3>3, <3>4
  <2> QED
    BY <2>1, <2>2, <2>3 DEF OneWriter, Writing
<1> QED
  BY <1>1, <1>2, <1>3, <1>4, QuietStep

LEMMA ChainStep ==
  ASSUME ChainInv, [Next]_vars
  PROVE  ChainInv'
<1>1. TypeOK /\ ThreadsPlaced /\ RevisionsStamped /\ (~overlapped => OneWriter)
  BY DEF ChainInv
<1>2. TypeOK' /\ ThreadsPlaced'
  BY <1>1, TypeStep
<1>3. RevisionsStamped'
  BY <1>1, <1>2, RevisionsStep
<1>4. ~overlapped' => OneWriter'
  BY <1>1, <1>2, OneWriterStep
<1> QED
  BY <1>2, <1>3, <1>4 DEF ChainInv

LEMMA ChainInit == Init => ChainInv
<1> SUFFICES ASSUME Init PROVE ChainInv
  OBVIOUS
<1>0. \A d \in Days : bars[d] = {}
  BY DEF Init
<1>1. TypeOK
  <2>1. {} \in Versions
    BY FS_EmptySet DEF Versions
  <2>2. bars \in [Days -> Versions] /\ thread \in [Threads -> ThreadState]
    BY <2>1, IdleTyped DEF Init
  <2>3. now \in Moments /\ source \in [Days -> Answer] /\ run \in [Windows -> Statuses]
    BY DEF Init, Moments, Answer, Statuses
  <2>4. mark \in Mark /\ planned \in Windows \cup {None} /\ failures \in 0..MaxFailures
    BY DEF Init, Mark
  <2>5. excused \in SUBSET TradingDays
    BY DEF Init
  <2>6. {overlapped, orphaned} \subseteq BOOLEAN
    BY DEF Init
  <2> QED
    BY <2>2, <2>3, <2>4, <2>5, <2>6 DEF TypeOK
<1>2. ThreadsPlaced
  BY IdleTyped DEF Init, ThreadsPlaced, Does, Writing, Answered
<1>3. RevisionsStamped
  BY <1>0, IdleTyped DEF Init, RevisionsStamped, Does
<1>4. OneWriter
  <2>1. Cardinality({}) = 0 /\ 1..0 = {}
    BY FS_EmptySet
  <2>2. Ordered({}) /\ Chained({})
    BY <2>1 DEF Ordered, Chained
  <2> QED
    BY <1>0, <2>2, IdleTyped DEF Init, OneWriter, Writing, Does
<1> QED
  BY <1>1, <1>2, <1>3, <1>4 DEF ChainInv

\* The inductive invariant of the versions.
THEOREM ChainInvariance == Spec => []ChainInv
BY ChainInit, ChainStep, PTL DEF Spec

\* Every variable keeps its type.
THEOREM SyncTyped == Spec => []TypeOK
<1>1. ChainInv => TypeOK
  BY DEF ChainInv
<1> QED
  BY <1>1, ChainInvariance, PTL

\* VersionsChain of sync_daily_bar: until two executions have been between their
\* knowledge time and their commit at once, versions of a day are numbered without
\* gaps or repeats in the order they became known, whatever the source, the
\* callers, the failures, the stops and the kills.
THEOREM VersionsChained == Spec => []VersionsChain
<1>1. ChainInv => VersionsChain
  BY DEF ChainInv, OneWriter, VersionsChain
<1> QED
  BY <1>1, ChainInvariance, PTL

\* What comes after the first version of a day is known from a stamp on only, so
\* what is seen of a day as of a moment before all stamps is what was seen before.
LEMMA HistoryStep ==
  ASSUME ChainInv, [Next]_vars, NEW d \in Days, NEW t \in Moments, Settled(t),
         AsOf(bars[d], t) # NoBar
  PROVE  AsOf(bars'[d], t) = AsOf(bars[d], t)
<1>0. TypeOK /\ TypeOK' /\ ThreadsPlaced /\ RevisionsStamped
  BY ChainStep DEF ChainInv
<1>1. CASE bars'[d] = bars[d]
  BY <1>1
<1>2. CASE bars'[d] # bars[d]
  <2>1. PICK w \in Threads : Append(w)
    BY <1>0, <1>2, QuietStep, StampIs, ReadIs DEF Quiet
  <2>2. bars[d] # {}
    BY DEF AsOf
  <2>3. PICK u \in bars[d] : IsFirst(u, d)
    BY <1>0, <2>2 DEF RevisionsStamped
  <2>4. \A v \in Inserted(d, thread[w].rows[d]) : v.known = thread[w].stamp
    <3>1. \A v \in thread[w].rows[d] : IsFirst(v, d) \/ v.known = thread[w].stamp
      BY <1>0, <2>1, AppendIs DEF RevisionsStamped
    <3> QED
      BY <2>3, <3>1 DEF Inserted, IsFirst
  <2>5. t < thread[w].stamp /\ t \in Nat /\ thread[w].stamp \in Nat
    BY <1>0, <2>1, AppendIs, ThreadRecord DEF Settled, Moments
  <2>6. bars'[d] = bars[d] \cup Inserted(d, thread[w].rows[d])
    BY <1>0, <2>1, AppendIs
  <2>7. {v \in bars'[d] : v.known <= t} = {v \in bars[d] : v.known <= t}
    BY <2>4, <2>5, <2>6
  <2> QED
    BY <2>7 DEF AsOf
<1> QED
  BY <1>1, <1>2

\* HistoryKept: no step changes what a day's bar is seen to be as of a moment that
\* is past and earlier than the knowledge time of every write under way.
THEOREM HistoryIsKept == Spec => HistoryKept
<1>1. ASSUME ChainInv, [Next]_vars
      PROVE  [\A d \in Days, t \in Moments :
                Settled(t) /\ AsOf(bars[d], t) # NoBar => AsOf(bars'[d], t) = AsOf(bars[d], t)]_vars
  BY <1>1, HistoryStep
<1> QED
  BY <1>1, ChainInvariance, PTL DEF Spec, HistoryKept
-----------------------------------------------------------------------------
(* The watermark *)

\* ThreadsCover, of one thread.
Covers(c) ==
  /\ c.step \in {"fetched", "stamped"} =>
       \A d \in TradingDays \cap Interval(c.window) : c.got[d] # NoBar \/ d \in excused
  /\ c.step = "read" =>
       \A d \in TradingDays \cap Interval(c.window) :
         c.rows[d] # {} \/ bars[d] # {} \/ d \in excused
  /\ c.step \in {"written", "callback", "marking"} => CoveredTo(c.window[2])
  /\ c.step = "marking" => c.target <= c.window[2]

LEMMA AllCover ==
  ThreadsCover <=> \A w \in Threads : Covers(thread[w])
BY DEF ThreadsCover, Covers, Answered, Does

\* Time, bars and excuses only grow.
LEMMA Grows ==
  ASSUME ChainInv, [Next]_vars
  PROVE  /\ now \in Nat /\ now' \in Nat /\ now' >= now
         /\ \A d \in Days : bars[d] \subseteq bars'[d]
         /\ excused \subseteq excused'
<1>1. TypeOK /\ TypeOK' /\ ThreadsPlaced
  BY ChainStep DEF ChainInv
<1>2. now \in Nat /\ now' \in Nat
  BY <1>1 DEF TypeOK, Moments
<1>3. now' >= now /\ \A d \in Days : bars[d] \subseteq bars'[d]
  BY <1>1, <1>2, QuietStep, StampIs, ReadIs, AppendIs DEF Quiet
<1>4. excused \subseteq excused'
  <2>1. ASSUME NEW s \in ApiStarts, NEW e \in ApiEnds, TriggerSync(s, e)
        PROVE  excused \subseteq excused'
    BY <1>1, <2>1, RequestTyped
  <2>2. ASSUME NEW w \in Threads, Fetch(w)
        PROVE  excused \subseteq excused'
    BY <2>2 DEF Fetch
  <2>3. \/ \E s \in ApiStarts, e \in ApiEnds : TriggerSync(s, e)
        \/ \E w \in Threads : Fetch(w)
        \/ excused' = excused
    BY DEF Next, Work, Tick, Publish, Revise, Plan, Submit, Select, Claim, Stamp, ReadLatest,
           Append, Succeed, ReadMark, WriteMark, Fail, Stop, Die, vars, history
  <2> QED
    BY <2>1, <2>2, <2>3
<1> QED
  BY <1>2, <1>3, <1>4

\* Days that are covered stay covered, windows that are sound stay sound, and what a
\* thread brings still covers.
LEMMA CoverKept ==
  ASSUME ChainInv, [Next]_vars
  PROVE  /\ \A k : CoveredTo(k) => CoveredTo(k)'
         /\ \A s \in Windows : Sound(s) => Sound(s)'
         /\ \A c : Covers(c) => Covers(c)'
<1>1. TradingDays \subseteq Days
  OBVIOUS
<1>2. ASSUME NEW k, CoveredTo(k)
      PROVE  CoveredTo(k)'
  BY <1>1, <1>2, Grows DEF CoveredTo
<1>3. ASSUME NEW s \in Windows, Sound(s)
      PROVE  Sound(s)'
  <2>1. CoveredTo(s[1] - 1)'
    BY <1>2, <1>3 DEF Sound
  <2>2. \A d \in TradingDays : PastCutoff(d) => PastCutoff(d)'
    <3>1. \A d \in TradingDays : Cutoff(d) \in Nat
      BY <1>1, DaysClose DEF Moments
    <3> QED
      BY <3>1, Grows DEF PastCutoff, Cutoff
  <2>3. \A d \in TradingDays \cap Interval(s) : PastCutoff(d)' \/ d \in excused'
    BY <1>3, <2>2, Grows DEF Sound
  <2> QED
    BY <2>1, <2>3 DEF Sound
<1>4. ASSUME NEW c, Covers(c)
      PROVE  Covers(c)'
  <2>1. CoveredTo(c.window[2]) => CoveredTo(c.window[2])'
    BY <1>2
  <2> QED
    BY <1>1, <1>4, <2>1, Grows DEF Covers
<1> QED
  BY <1>2, <1>3, <1>4

\* A window that begins at the first uncovered day leaves no day out; nor does a
\* request, of whose days before and in it the others are excused.
LEMMA FirstCovered ==
  ASSUME TypeOK, WatermarkCovers, NEW s \in Windows, NEW d \in TradingDays,
         StartDay <= d, d < FirstUncovered
  PROVE  bars[d] # {} \/ d \in excused
<1>1. d \in Nat /\ StartDay \in Nat
  BY DEF Days
<1>2. mark = None \/ mark \in Nat
  BY DEF TypeOK, Mark
<1> HIDE SyncAssumption
<1>3. CASE mark = None
  BY <1>1, <1>3 DEF FirstUncovered
<1>4. CASE mark # None
  <2>1. d <= mark
    BY <1>1, <1>2, <1>4 DEF FirstUncovered
  <2> QED
    BY <1>4, <2>1 DEF WatermarkCovers
<1> QED
  BY <1>3, <1>4

LEMMA PlanSound ==
  ASSUME TypeOK, WatermarkCovers, Plan
  PROVE  planned' \in Windows /\ Sound(planned')
<1>1. PICK s \in Windows : planned' = s /\ s[1] = FirstUncovered /\ s[2] \in ClosedDays
  BY PlanTyped
<1>2. s[1] \in Nat /\ s[2] \in Days /\ Interval(s) \subseteq Days /\ now \in Nat
  BY WindowTyped DEF Days, TypeOK, Moments
<1>3. CoveredTo(s[1] - 1)
  <2> SUFFICES ASSUME NEW d \in TradingDays, StartDay <= d, d <= s[1] - 1
               PROVE  bars[d] # {} \/ d \in excused
    BY DEF CoveredTo
  <2>1. d \in Nat
    <3>1. d \in Days
      OBVIOUS
    <3> QED
      BY <3>1, DaysClose
  <2>2. d < FirstUncovered
    <3> HIDE SyncAssumption
    <3> QED
      BY <1>1, <1>2, <2>1
  <2> QED
    BY <2>2, FirstCovered
<1>4. ASSUME NEW d \in TradingDays \cap Interval(s)
      PROVE  PastCutoff(d)
  <2>1. d \in Nat /\ s[2] \in Nat /\ d <= s[2] /\ now >= Cutoff(s[2])
    BY <1>1, <1>2 DEF Interval, Days, ClosedDays, PastCutoff
  <2> HIDE SyncAssumption
  <2> QED
    BY <1>2, <2>1 DEF PastCutoff, Cutoff
<1> QED
  BY <1>1, <1>3, <1>4 DEF Sound

LEMMA RequestSound ==
  ASSUME ChainInv, WatermarkCovers, [Next]_vars, NEW s \in Windows, now' = now, bars' = bars,
         excused' = excused \cup Skipped(s) \cup TooEarly(s)
  PROVE  Sound(s)'
<1>1. s[1] \in Nat /\ s[2] \in Nat /\ TypeOK
  BY WindowTyped DEF Days, ChainInv
<1>2. CoveredTo(s[1] - 1)'
  <2> SUFFICES ASSUME NEW d \in TradingDays, StartDay <= d, d <= s[1] - 1
               PROVE  bars'[d] # {} \/ d \in excused'
    BY DEF CoveredTo
  <2>1. d \in Nat /\ FirstUncovered \in Nat /\ d < s[1]
    <3>1. d \in Nat /\ FirstUncovered \in Nat
      BY <1>1 DEF Days, FirstUncovered, TypeOK, Mark
    <3> HIDE SyncAssumption
    <3> QED
      BY <1>1, <3>1
  <2>2. CASE d < FirstUncovered
    BY <1>1, <2>2, FirstCovered
  <2>3. CASE FirstUncovered <= d
    BY <2>1, <2>3 DEF Skipped
  <2> QED
    BY <2>1, <2>2, <2>3
<1>3. \A d \in TradingDays \cap Interval(s) : PastCutoff(d)' \/ d \in excused'
  <2>1. \A d \in TradingDays \cap Interval(s) : s[1] <= d /\ d <= s[2]
    <3> HIDE SyncAssumption
    <3> QED
      BY <1>1 DEF Interval
  <2> QED
    BY <2>1 DEF TooEarly, PastCutoff
<1> QED
  BY <1>2, <1>3 DEF Sound

\* Where a thread's window comes from, and a running or queued one.
LEMMA WindowsMove ==
  ASSUME TypeOK, ThreadsPlaced, [Next]_vars
  PROVE  \A w \in Threads : ~Does(w, "idle")' =>
           \/ ~Does(w, "idle") /\ thread'[w].window = thread[w].window
           \/ \E s \in Windows : run[s] = "queued" /\ thread'[w].window = s
<1>0. \A w \in Threads : thread[w] \in ThreadState
  BY DEF TypeOK
<1>i. Idle.step = "idle"
  BY IdleTyped
<1> USE DEF Does
<1>q. CASE thread' = thread
  BY <1>q
<1>t. ASSUME NEW w \in Threads, NEW c, thread' = [thread EXCEPT ![w] = c],
             \/ c.step = "idle"
             \/ ~Does(w, "idle") /\ c.window = thread[w].window
             \/ \E s \in Windows : run[s] = "queued" /\ c.window = s
      PROVE  \A v \in Threads : ~Does(v, "idle")' =>
               \/ ~Does(v, "idle") /\ thread'[v].window = thread[v].window
               \/ \E s \in Windows : run[s] = "queued" /\ thread'[v].window = s
  <2>1. \A v \in Threads : thread'[v] = IF v = w THEN c ELSE thread[v]
    BY <1>t DEF TypeOK
  <2> QED
    BY <1>t, <2>1
<1>1. ASSUME NEW w \in Threads, NEW s \in Windows, Select(w, s)
      PROVE  \E c : /\ thread' = [thread EXCEPT ![w] = c]
                    /\ \E q \in Windows : run[q] = "queued" /\ c.window = q
  <2>1. [Idle EXCEPT !.step = "selected", !.window = s].window = s
    BY DEF Idle
  <2> QED
    BY <1>1, <2>1 DEF Select
<1>2. ASSUME NEW w \in Threads,
             Claim(w) \/ Fetch(w) \/ Stamp(w) \/ ReadLatest(w) \/ Append(w) \/ Succeed(w) \/ Stop(w)
      PROVE  \E c : /\ thread' = [thread EXCEPT ![w] = c]
                    /\ ~Does(w, "idle") /\ c.window = thread[w].window
  <2>1. ~Does(w, "idle")
    BY <1>2 DEF Claim, Fetch, Stamp, ReadLatest, Append, Succeed, Stop, OwnRow, Executes
  <2>2. \E c : /\ thread' = [thread EXCEPT ![w] = c]
               /\ c.window = thread[w].window
    <3>1. CASE Claim(w)
      <4>1. [thread[w] EXCEPT !.step = "claimed"].window = thread[w].window
        BY <1>0 DEF ThreadState
      <4> QED
        BY <3>1, <4>1 DEF Claim, Goes
    <3>2. CASE Fetch(w)
      <4> DEFINE g == [d \in thread[w].window[1]..thread[w].window[2] |-> source[d]]
                 c == [thread[w] EXCEPT !.step = "fetched", !.got = g]
      <4>1. thread' = [thread EXCEPT ![w] = c]
        BY <3>2 DEF Fetch
      <4> HIDE DEF g
      <4>2. c.window = thread[w].window
        BY <1>0 DEF ThreadState
      <4> QED
        BY <4>1, <4>2
    <3>3. CASE Stamp(w)
      <4>1. [thread[w] EXCEPT !.step = "stamped", !.stamp = now].window = thread[w].window
        BY <1>0 DEF ThreadState
      <4> QED
        BY <3>3, <4>1 DEF Stamp
    <3>4. CASE ReadLatest(w)
      <4>1. PICK rows : thread' = [thread EXCEPT ![w].step = "read", ![w].got = <<>>, ![w].rows = rows]
        BY <3>4 DEF ReadLatest
      <4>2. [thread[w] EXCEPT !.step = "read", !.got = <<>>, !.rows = rows].window = thread[w].window
        BY <1>0 DEF ThreadState
      <4> QED
        BY <4>1, <4>2
    <3>5. CASE Append(w)
      <4>1. PICK b : thread' = [thread EXCEPT ![w].step = "written", ![w].rows = NoRows,
                                              ![w].stamp = 0, ![w].wrote = b]
        BY <3>5 DEF Append
      <4>2. [thread[w] EXCEPT !.step = "written", !.rows = NoRows, !.stamp = 0, !.wrote = b].window
              = thread[w].window
        BY <1>0 DEF ThreadState
      <4> QED
        BY <4>1, <4>2
    <3>6. CASE Succeed(w)
      <4>1. [thread[w] EXCEPT !.step = "callback", !.lost = FALSE].window = thread[w].window
        BY <1>0 DEF ThreadState
      <4> QED
        BY <3>6, <4>1 DEF Succeed
    <3>7. CASE Stop(w)
      <4>1. [thread[w] EXCEPT !.lost = TRUE].window = thread[w].window
        BY <1>0 DEF ThreadState
      <4> QED
        BY <3>7, <4>1 DEF Stop
    <3> QED
      BY <1>2, <3>1, <3>2, <3>3, <3>4, <3>5, <3>6, <3>7
  <2> QED
    BY <2>1, <2>2
<1>3. ASSUME NEW w \in Threads, Fail(w) \/ Die(w) \/ WriteMark(w) \/ ReadMark(w)
      PROVE  \E c : /\ thread' = [thread EXCEPT ![w] = c]
                    /\ c.step = "idle" \/ (~Does(w, "idle") /\ c.window = thread[w].window)
  <2>1. CASE thread' = [thread EXCEPT ![w] = Idle]
    BY <1>i, <2>1
  <2>2. CASE thread' # [thread EXCEPT ![w] = Idle]
    <3> DEFINE c == [thread[w] EXCEPT !.step = "marking", !.target = Target(w), !.seen = mark]
    <3>1. Does(w, "callback") /\ thread' = [thread EXCEPT ![w] = c]
      BY <1>3, <2>2 DEF Fail, Die, WriteMark, ReadMark
    <3>2. c.window = thread[w].window
      BY <1>0 DEF ThreadState
    <3> HIDE DEF c
    <3> QED
      BY <3>1, <3>2
  <2> QED
    BY <2>1, <2>2
<1>4. \/ thread' = thread
      \/ \E w \in Threads, s \in Windows : Select(w, s)
      \/ \E w \in Threads : Claim(w) \/ Fetch(w) \/ Stamp(w) \/ ReadLatest(w) \/ Append(w)
                            \/ Succeed(w) \/ Stop(w)
      \/ \E w \in Threads : Fail(w) \/ Die(w) \/ WriteMark(w) \/ ReadMark(w)
  BY DEF Next, Work, Tick, Publish, Revise, Plan, Submit, TriggerSync, vars
<1> QED
  BY <1>q, <1>t, <1>1, <1>2, <1>3, <1>4

\* A window is sound also by the name it has after the step.
LEMMA SoundNext ==
  ASSUME NEW s, Sound(s)'
  PROVE  /\ planned' = s => Sound(planned)'
         /\ \A w \in Threads : thread'[w].window = s => Sound(thread[w].window)'
BY DEF Sound, CoveredTo, PastCutoff

\* Where a queued or running window comes from.
LEMMA RunsMove ==
  ASSUME ChainInv, WatermarkCovers, [Next]_vars, NEW s \in Windows,
         run'[s] \in {"queued", "running"}
  PROVE  \/ run[s] \in {"queued", "running"}
         \/ planned = s
         \/ \E w \in Threads : ~Does(w, "idle") /\ thread[w].window = s
         \/ Sound(s)'
<1>1. TypeOK /\ ThreadsPlaced /\ run \in [Windows -> Statuses]
  BY DEF ChainInv, TypeOK
<1>2. CASE Submit
  <2>1. planned \in Windows /\ CreateRun(planned)
    BY <1>1, <1>2 DEF Submit, TypeOK
  <2> QED
    BY <1>1, <2>1, CreateTyped
<1>3. ASSUME NEW start \in ApiStarts, NEW end \in ApiEnds, TriggerSync(start, end)
      PROVE  run[s] \in {"queued", "running"} \/ Sound(s)'
  <2>1. PICK q \in Windows :
          /\ CreateRun(q)
          /\ excused' = IF Known(q) THEN excused ELSE excused \cup Skipped(q) \cup TooEarly(q)
    BY <1>1, <1>3, RequestTyped
  <2>2. now' = now /\ bars' = bars
    BY <1>3 DEF TriggerSync
  <2>3. run'[s] = run[s] \/ (s = q /\ ~Known(q))
    BY <1>1, <2>1, CreateTyped
  <2>4. ~Known(q) => Sound(q)'
    BY <2>1, <2>2, RequestSound
  <2> QED
    BY <2>3, <2>4
<1>4. ASSUME NEW w \in Threads, Claim(w) \/ Succeed(w) \/ Fail(w) \/ Stop(w)
      PROVE  run'[s] = run[s] \/ (~Does(w, "idle") /\ thread[w].window = s)
  <2>1. ~Does(w, "idle")
    BY <1>4 DEF Claim, Succeed, Fail, Stop, OwnRow, Executes, Does
  <2>2. run' = run \/ \E x : run' = [run EXCEPT ![thread[w].window] = x]
    BY <1>4 DEF Claim, Succeed, Fail, Stop
  <2> QED
    BY <1>1, <2>1, <2>2
<1>5. \/ Submit
      \/ \E start \in ApiStarts, end \in ApiEnds : TriggerSync(start, end)
      \/ \E w \in Threads : Claim(w) \/ Succeed(w) \/ Fail(w) \/ Stop(w)
      \/ run' = run
  BY DEF Next, Work, Tick, Publish, Revise, Plan, Select, Fetch, Stamp, ReadLatest, Append,
         ReadMark, WriteMark, Die, vars
<1> QED
  BY <1>2, <1>3, <1>4, <1>5

LEMMA WindowsStep ==
  ASSUME ChainInv, CoverInv, [Next]_vars
  PROVE  WindowsSound'
<1>0. TypeOK /\ ThreadsPlaced /\ WatermarkCovers /\ WindowsSound
  BY DEF ChainInv, CoverInv
<1>1. \A s \in Windows : Sound(s) => Sound(s)'
  BY CoverKept
<1>2. ASSUME planned' # None
      PROVE  Sound(planned)'
  <2>1. CASE Plan
    <3>1. PICK s \in Windows : planned' = s /\ Sound(s)
      BY <1>0, <2>1, PlanSound
    <3> QED
      BY <1>1, <3>1, SoundNext
  <2>2. CASE planned' = planned
    <3>1. PICK s \in Windows : planned = s
      BY <1>0, <1>2, <2>2 DEF TypeOK
    <3>2. Sound(s)
      BY <1>0, <1>2, <2>2, <3>1 DEF WindowsSound
    <3> QED
      BY <1>1, <2>2, <3>1, <3>2, SoundNext
  <2>3. Plan \/ planned' = planned \/ planned' = None
    BY DEF Next, Work, Tick, Publish, Revise, Submit, TriggerSync, Select, Claim, Fetch, Stamp,
           ReadLatest, Append, Succeed, ReadMark, WriteMark, Fail, Stop, Die, vars
  <2> QED
    BY <1>2, <2>1, <2>2, <2>3
<1>3. ASSUME NEW w \in Threads, ~Does(w, "idle")
      PROVE  \E s \in Windows : thread[w].window = s /\ Sound(s)
  <2>1. thread[w].window \in Windows
    BY <1>0, <1>3 DEF ThreadsPlaced
  <2> QED
    BY <1>0, <1>3, <2>1 DEF WindowsSound
<1>4. ASSUME NEW s \in Windows, run'[s] \in {"queued", "running"}
      PROVE  Sound(s)'
  <2>1. CASE run[s] \in {"queued", "running"}
    BY <1>0, <1>1, <2>1 DEF WindowsSound
  <2>2. CASE planned = s
    <3>1. s # None
      OBVIOUS
    <3>2. Sound(s)
      BY <1>0, <2>2, <3>1 DEF WindowsSound
    <3> QED
      BY <1>1, <3>2
  <2>3. ASSUME NEW w \in Threads, ~Does(w, "idle"), thread[w].window = s
        PROVE  Sound(s)'
    <3>1. Sound(s)
      BY <1>3, <2>3
    <3> QED
      BY <1>1, <3>1
  <2> QED
    BY <1>0, <1>4, <2>1, <2>2, <2>3, RunsMove
<1>5. ASSUME NEW w \in Threads, ~Does(w, "idle")'
      PROVE  Sound(thread[w].window)'
  <2>1. CASE ~Does(w, "idle") /\ thread'[w].window = thread[w].window
    <3>1. PICK s \in Windows : thread[w].window = s /\ Sound(s)
      BY <1>3, <2>1
    <3> QED
      BY <1>1, <2>1, <3>1, SoundNext
  <2>2. ASSUME NEW s \in Windows, run[s] = "queued", thread'[w].window = s
        PROVE  Sound(thread[w].window)'
    <3>1. Sound(s)
      BY <1>0, <2>2 DEF WindowsSound
    <3> QED
      BY <1>1, <2>2, <3>1, SoundNext
  <2> QED
    BY <1>0, <1>5, <2>1, <2>2, WindowsMove
<1> QED
  BY <1>2, <1>4, <1>5 DEF WindowsSound

\* What a thread has fetched covers its window; so does what it is about to append.
LEMMA FetchCovers ==
  ASSUME ChainInv, CoverInv, [Next]_vars, NEW w \in Threads, Fetch(w)
  PROVE  Covers(thread[w])'
<1> DEFINE s == thread[w].window
           g == [d \in s[1]..s[2] |-> source[d]]
<1>1. TypeOK /\ s \in Windows /\ Sound(s)
  BY DEF ChainInv, CoverInv, WindowsSound, ThreadsPlaced, Fetch, Does
<1>2. thread'[w].step = "fetched" /\ thread'[w].window = s /\ thread'[w].got = g
  BY <1>1 DEF Fetch, TypeOK, ThreadState
<1>3. \A d \in TradingDays \cap Interval(s) : s[1] <= d /\ d <= s[2]
  <2>1. \A d \in TradingDays : d \in Nat
    BY DEF Days
  <2> QED
    BY <1>1, <2>1, WindowTyped DEF Interval, Days
<1>4. \A d \in TradingDays \cap Interval(s) : g[d] # NoBar \/ d \in excused'
  <2>1. excused' = excused \cup
          {d \in TradingDays : s[1] <= d /\ d <= s[2] /\ PastCutoff(d) /\ source[d] = NoBar}
    BY DEF Fetch
  <2>2. \A d \in TradingDays \cap Interval(s) : g[d] = source[d]
    BY DEF Interval
  <2>3. \A d \in TradingDays \cap Interval(s) : PastCutoff(d) \/ d \in excused
    BY <1>1 DEF Sound
  <2> HIDE DEF g, s
  <2> QED
    BY <1>3, <2>1, <2>2, <2>3
<1> HIDE DEF g, s
<1> QED
  BY <1>2, <1>4 DEF Covers

LEMMA ReadCovers ==
  ASSUME ChainInv, CoverInv, [Next]_vars, NEW w \in Threads, ReadLatest(w)
  PROVE  Covers(thread[w])'
<1>1. TypeOK /\ ThreadsPlaced /\ Covers(thread[w])
  BY AllCover DEF ChainInv, CoverInv
<1>2. thread[w].step = "stamped" /\ thread[w].window \in Windows
  BY <1>1 DEF ReadLatest, Does, ThreadsPlaced
<1>3. thread'[w].step = "read" /\ thread'[w].window = thread[w].window /\ bars' = bars
  <2>1. thread'[w].window = thread[w].window
    <3>1. PICK rows : thread' = [thread EXCEPT ![w].step = "read", ![w].got = <<>>, ![w].rows = rows]
      BY DEF ReadLatest
    <3> QED
      BY <1>1, <3>1 DEF TypeOK, ThreadState
  <2> QED
    BY <1>1, <2>1, ReadIs
<1>4. ASSUME NEW d \in TradingDays \cap Interval(thread[w].window)
      PROVE  thread'[w].rows[d] # {} \/ bars'[d] # {} \/ d \in excused'
  <2>1. thread[w].got[d] # NoBar \/ d \in excused
    BY <1>1, <1>2, <1>4 DEF Covers
  <2>2. CASE d \in excused
    BY <2>2, Grows
  <2>3. CASE thread[w].got[d] # NoBar
    <3>1. PICK x \in Values : thread'[w].rows[d] = NewVersion(d, x, thread[w].stamp)
      BY <1>1, <1>4, <2>3, ReadIs
    <3>2. d \in Days
      OBVIOUS
    <3> QED
      BY <1>1, <1>3, <3>1, <3>2, NewVersionIs, ThreadRecord
  <2> QED
    BY <2>1, <2>2, <2>3
<1> QED
  BY <1>3, <1>4 DEF Covers

LEMMA AppendCovers ==
  ASSUME ChainInv, CoverInv, [Next]_vars, NEW w \in Threads, Append(w)
  PROVE  Covers(thread[w])'
<1> DEFINE s == thread[w].window
<1>1. TypeOK /\ ThreadsPlaced /\ Covers(thread[w]) /\ WindowsSound
  BY AllCover DEF ChainInv, CoverInv
<1>2. thread[w].step = "read" /\ s \in Windows /\ Sound(s)
  BY <1>1 DEF Append, Does, ThreadsPlaced, WindowsSound
<1>3. thread'[w].step = "written" /\ thread'[w].window = s
  BY <1>1 DEF Append, TypeOK, ThreadState
<1>4. \A d \in Days : bars'[d] = bars[d] \cup Inserted(d, thread[w].rows[d])
  BY <1>1, AppendIs
<1>5. ASSUME NEW d \in Days, thread[w].rows[d] # {} \/ bars[d] # {}
      PROVE  bars'[d] # {}
  <2>1. bars[d] = {} => Inserted(d, thread[w].rows[d]) = thread[w].rows[d]
    BY DEF Inserted
  <2> QED
    BY <1>4, <1>5, <2>1
<1>6. CoveredTo(s[2])'
  <2> SUFFICES ASSUME NEW d \in TradingDays, StartDay <= d, d <= s[2]
               PROVE  bars'[d] # {} \/ d \in excused'
    BY <1>3 DEF CoveredTo
  <2>1. d \in Days
    OBVIOUS
  <2>2. d \in Nat /\ s[1] \in Nat /\ s[2] \in Nat
    BY <1>2, <2>1, WindowTyped, DaysClose
  <2>3. CASE d < s[1]
    <3>1. d <= s[1] - 1
      <4> HIDE SyncAssumption DEF s
      <4> QED
        BY <2>2, <2>3
    <3>2. bars[d] # {} \/ d \in excused
      BY <1>2, <3>1 DEF Sound, CoveredTo
    <3> QED
      BY <1>5, <2>1, <3>2, Grows
  <2>4. CASE s[1] <= d
    <3>1. d \in Interval(s)
      <4> HIDE SyncAssumption DEF s
      <4> QED
        BY <2>2, <2>4 DEF Interval
    <3>2. thread[w].rows[d] # {} \/ bars[d] # {} \/ d \in excused
      BY <1>1, <1>2, <3>1 DEF Covers
    <3> QED
      BY <1>5, <2>1, <3>2, Grows
  <2> QED
    BY <2>2, <2>3, <2>4
<1> QED
  BY <1>3, <1>6 DEF Covers

\* A step of a thread that brings nothing new keeps what it covers.
LEMMA ThreadsCoverStep ==
  ASSUME ChainInv, CoverInv, [Next]_vars
  PROVE  ThreadsCover'
<1>0. TypeOK /\ ThreadsPlaced /\ \A w \in Threads : thread[w] \in ThreadState /\ Covers(thread[w])
  BY AllCover DEF ChainInv, CoverInv, TypeOK
<1>1. ASSUME NEW w \in Threads, NEW c, Covers(c), thread'[w] = c
      PROVE  Covers(thread[w])'
  <2>1. Covers(c)'
    BY <1>1, CoverKept
  <2> QED
    BY <1>1, <2>1 DEF Covers, CoveredTo
<1>2. ASSUME NEW w \in Threads, thread'[w] = thread[w]
      PROVE  Covers(thread[w])'
  <2>1. PICK c : c = thread[w]
    OBVIOUS
  <2>2. Covers(c)
    BY <1>0, <2>1
  <2> QED
    BY <1>1, <1>2, <2>1, <2>2
\* The step of thread w.
<1>3. ASSUME NEW w \in Threads, NEW c, thread' = [thread EXCEPT ![w] = c],
             Covers(thread[w])'
      PROVE  \A v \in Threads : Covers(thread[v])'
  <2>1. \A v \in Threads : v # w => thread'[v] = thread[v]
    BY <1>0, <1>3 DEF TypeOK
  <2> QED
    BY <1>2, <1>3, <2>1
<1>4. ASSUME NEW w \in Threads, NEW c, thread' = [thread EXCEPT ![w] = c], Covers(c)
      PROVE  \A v \in Threads : Covers(thread[v])'
  <2>1. thread'[w] = c
    BY <1>0, <1>4 DEF TypeOK
  <2> QED
    BY <1>1, <1>3, <1>4, <2>1
<1>5. ASSUME NEW w \in Threads, NEW s \in Windows, Select(w, s)
      PROVE  \A v \in Threads : Covers(thread[v])'
  <2> DEFINE c == [Idle EXCEPT !.step = "selected", !.window = s]
  <2>1. c.step = "selected"
    BY DEF Idle
  <2>2. thread' = [thread EXCEPT ![w] = c]
    BY <1>5 DEF Select
  <2> HIDE DEF c
  <2>3. Covers(c)
    BY <2>1 DEF Covers
  <2> QED
    BY <1>4, <2>2, <2>3
<1>6. ASSUME NEW w \in Threads, Claim(w)
      PROVE  \A v \in Threads : Covers(thread[v])'
  <2> DEFINE c == [thread[w] EXCEPT !.step = "claimed"]
  <2>1. c.step = "claimed"
    BY <1>0 DEF ThreadState
  <2>2. thread' = [thread EXCEPT ![w] = c]
    BY <1>6 DEF Claim, Goes
  <2> HIDE DEF c
  <2>3. Covers(c)
    BY <2>1 DEF Covers
  <2> QED
    BY <1>4, <2>2, <2>3
<1>7. ASSUME NEW w \in Threads, Fetch(w) \/ ReadLatest(w) \/ Append(w)
      PROVE  \A v \in Threads : Covers(thread[v])'
  <2>1. \E c : thread' = [thread EXCEPT ![w] = c]
    BY <1>7 DEF Fetch, ReadLatest, Append
  <2> QED
    BY <1>3, <1>7, <2>1, FetchCovers, ReadCovers, AppendCovers
<1>8. ASSUME NEW w \in Threads, Stamp(w)
      PROVE  \A v \in Threads : Covers(thread[v])'
  <2> DEFINE c == [thread[w] EXCEPT !.step = "stamped", !.stamp = now]
  <2>1. c.step = "stamped" /\ c.window = thread[w].window /\ c.got = thread[w].got
    BY <1>0 DEF ThreadState
  <2>2. thread' = [thread EXCEPT ![w] = c] /\ thread[w].step = "fetched"
    BY <1>8 DEF Stamp, Does
  <2> HIDE DEF c
  <2>3. Covers(c)
    BY <1>0, <2>1, <2>2 DEF Covers
  <2> QED
    BY <1>4, <2>2, <2>3
<1>9. ASSUME NEW w \in Threads, Succeed(w)
      PROVE  \A v \in Threads : Covers(thread[v])'
  <2> DEFINE c == [thread[w] EXCEPT !.step = "callback", !.lost = FALSE]
  <2>1. c.step = "callback" /\ c.window = thread[w].window
    BY <1>0 DEF ThreadState
  <2>2. thread' = [thread EXCEPT ![w] = c] /\ thread[w].step = "written"
    BY <1>9 DEF Succeed, Does
  <2> HIDE DEF c
  <2>3. Covers(c)
    BY <1>0, <2>1, <2>2 DEF Covers
  <2> QED
    BY <1>4, <2>2, <2>3
<1>10. ASSUME NEW w \in Threads, thread' = [thread EXCEPT ![w] = Idle]
       PROVE  \A v \in Threads : Covers(thread[v])'
  <2>1. Covers(Idle)
    BY IdleTyped DEF Covers
  <2> QED
    BY <1>4, <1>10, <2>1
<1>11. ASSUME NEW w \in Threads, Stop(w)
       PROVE  \A v \in Threads : Covers(thread[v])'
  <2> DEFINE c == [thread[w] EXCEPT !.lost = TRUE]
  <2>1. c.step = thread[w].step /\ c.window = thread[w].window /\ c.got = thread[w].got
        /\ c.rows = thread[w].rows /\ c.target = thread[w].target
    BY <1>0 DEF ThreadState
  <2>2. thread' = [thread EXCEPT ![w] = c]
    BY <1>11 DEF Stop
  <2> HIDE DEF c
  <2>3. Covers(c)
    BY <1>0, <2>1 DEF Covers
  <2> QED
    BY <1>4, <2>2, <2>3
<1>12. ASSUME NEW w \in Threads, ReadMark(w), thread' # [thread EXCEPT ![w] = Idle]
       PROVE  \A v \in Threads : Covers(thread[v])'
  <2> DEFINE c == [thread[w] EXCEPT !.step = "marking", !.target = Target(w), !.seen = mark]
  <2>1. c.step = "marking" /\ c.window = thread[w].window /\ c.target = Target(w)
    BY <1>0 DEF ThreadState
  <2>2. thread' = [thread EXCEPT ![w] = c] /\ thread[w].step = "callback"
    BY <1>12 DEF ReadMark, Does
  <2>3. Target(w) <= thread[w].window[2]
    BY <1>0, <2>2, TargetTyped DEF ThreadsPlaced, Does
  <2> HIDE DEF c
  <2>4. Covers(c)
    BY <1>0, <2>1, <2>2, <2>3 DEF Covers
  <2> QED
    BY <1>4, <2>2, <2>4
<1>13. ASSUME thread' = thread
       PROVE  \A v \in Threads : Covers(thread[v])'
  <2>1. \A v \in Threads : thread'[v] = thread[v]
    BY <1>13
  <2> QED
    BY <1>2, <2>1
<1>14. \/ thread' = thread
       \/ \E w \in Threads, s \in Windows : Select(w, s)
       \/ \E w \in Threads : Claim(w) \/ Fetch(w) \/ Stamp(w) \/ ReadLatest(w) \/ Append(w)
                             \/ Succeed(w) \/ Stop(w) \/ ReadMark(w)
       \/ \E w \in Threads : thread' = [thread EXCEPT ![w] = Idle]
  BY DEF Next, Work, Tick, Publish, Revise, Plan, Submit, TriggerSync, WriteMark, Fail, Die, vars
<1>15. \A w \in Threads : Covers(thread[w])'
  <2>1. ASSUME NEW w \in Threads, ReadMark(w)
        PROVE  \A v \in Threads : Covers(thread[v])'
    BY <1>10, <1>12, <2>1
  <2> QED
    BY <1>5, <1>6, <1>7, <1>8, <1>9, <1>10, <1>11, <1>13, <1>14, <2>1
<1> QED
  BY <1>15 DEF ThreadsCover, Covers, Answered, Does

LEMMA MarkStep ==
  ASSUME ChainInv, CoverInv, [Next]_vars
  PROVE  WatermarkCovers'
<1>0. TypeOK /\ ThreadsPlaced /\ \A w \in Threads : Covers(thread[w])
  BY AllCover DEF ChainInv, CoverInv
<1>1. ASSUME NEW k, CoveredTo(k), mark' = k
      PROVE  WatermarkCovers'
  <2>1. CoveredTo(k)'
    BY <1>1, CoverKept
  <2> QED
    BY <1>1, <2>1 DEF WatermarkCovers, CoveredTo
<1>2. CASE mark' = mark
  <2>1. mark = None \/ CoveredTo(mark)
    BY DEF CoverInv, WatermarkCovers, CoveredTo
  <2>2. PICK k : k = mark
    OBVIOUS
  <2>3. mark' = None => WatermarkCovers'
    BY DEF WatermarkCovers
  <2>4. CoveredTo(mark) => CoveredTo(k)
    BY <2>2
  <2> QED
    BY <1>1, <1>2, <2>1, <2>2, <2>3, <2>4
<1>3. ASSUME NEW w \in Threads, WriteMark(w), mark' # mark
      PROVE  WatermarkCovers'
  <2> DEFINE s == thread[w].window
  <2>1. thread[w].step = "marking" /\ mark' = thread[w].target /\ s \in Windows
    BY <1>0, <1>3 DEF WriteMark, Does, ThreadsPlaced
  <2>2. CoveredTo(s[2]) /\ thread[w].target <= s[2]
    BY <1>0, <2>1 DEF Covers
  <2>3. s[2] \in Nat /\ thread[w].target \in Nat /\ \A d \in TradingDays : d \in Nat
    BY <1>0, <2>1, WindowTyped, ThreadRecord DEF Days
  <2> HIDE DEF s
  <2>4. PICK k : k = thread[w].target
    OBVIOUS
  <2>5. \A d \in TradingDays : d <= k => d <= s[2]
    <3> HIDE SyncAssumption
    <3> QED
      BY <2>2, <2>3, <2>4
  <2>6. CoveredTo(k)
    BY <2>2, <2>5 DEF CoveredTo
  <2> QED
    BY <1>1, <2>1, <2>4, <2>6
<1>4. mark' = mark \/ \E w \in Threads : WriteMark(w)
  BY DEF Next, Work, Tick, Publish, Revise, Plan, Submit, TriggerSync, Select, Claim, Fetch, Stamp,
         ReadLatest, Append, Succeed, ReadMark, Fail, Stop, Die, vars
<1> QED
  BY <1>2, <1>3, <1>4

LEMMA CoverInit == Init => CoverInv
<1> SUFFICES ASSUME Init PROVE CoverInv
  OBVIOUS
<1>1. WindowsSound
  BY IdleTyped DEF Init, WindowsSound, Does
<1>2. ThreadsCover
  BY IdleTyped DEF Init, ThreadsCover, Does, Answered
<1>3. WatermarkCovers
  BY DEF Init, WatermarkCovers
<1> QED
  BY <1>1, <1>2, <1>3 DEF CoverInv

LEMMA CoverStep == ChainInv /\ CoverInv /\ [Next]_vars => CoverInv'
BY WindowsStep, ThreadsCoverStep, MarkStep DEF CoverInv

\* Every window that is planned, asked for, queued, running or in the hands of a
\* thread leaves out no day before it that is not excused, and what the executor
\* has answered, read and appended covers it, up to the mark.
THEOREM CoverInvariance == Spec => []CoverInv
BY ChainInvariance, CoverInit, CoverStep, PTL DEF Spec

\* The watermark never passes a trading day that has no bar and is not excused,
\* with any number of executors, requests, failures, stops and kills, in any order.
THEOREM MarkCovers == Spec => []WatermarkCovers
BY CoverInvariance, PTL DEF CoverInv
=============================================================================
