------------------------ MODULE EntityRegistryProofs ------------------------
(***************************************************************************)
(* Theorems about EntityRegistry for any instruments, names, codes, days   *)
(* and bounds: to whom a code leads on a day, and that the current row of  *)
(* an entity has the code its source lists; that a build which came to its *)
(* end has replayed the names, and that all readers then read the same.    *)
(***************************************************************************)
EXTENDS EntityRegistry, FiniteSetTheorems, TLAPS

\* A set of numbers that is not empty has a least one: of the intervals 0..n that
\* its members span, one is minimal.
LEMMA LeastNumber ==
  ASSUME NEW T \in SUBSET Nat, T # {}
  PROVE  \E x \in T : \A y \in T : x <= y
<1> DEFINE R == StrictSubsetOrdering(Nat)
           F == FiniteSubsetsOf(Nat)
           U == {0..n : n \in T}
<1>1. IsWellFoundedOn(R, F)
  BY FS_StrictSubsetOrderingWellFounded
<1>2. U \subseteq F /\ U # {}
  <2>1. \A n \in Nat : 0..n \in SUBSET Nat /\ IsFiniteSet(0..n)
    BY FS_Interval
  <2>2. \A n \in Nat : 0..n \in F
    BY <2>1 DEF FiniteSubsetsOf
  <2>3. PICK t \in T : TRUE
    OBVIOUS
  <2>4. 0..t \in U
    BY <2>3
  <2>5. \A v \in U : \E n \in Nat : v = 0..n
    OBVIOUS
  <2> HIDE DEF F, U
  <2> QED
    BY <2>2, <2>4, <2>5
<1>3. PICK u \in U : \A v \in U : <<v, u>> \notin R
  <2> HIDE DEF R, F, U
  <2> QED
    BY <1>1, <1>2, WFMin
<1>4. PICK x \in T : u = 0..x
  OBVIOUS
<1>5. ASSUME NEW y \in T, ~(x <= y)
      PROVE  FALSE
  <2>1. 0..y \subseteq 0..x /\ x \in 0..x /\ x \notin 0..y
    BY <1>5
  <2>2. <<0..y, 0..x>> \in R
    BY <2>1 DEF StrictSubsetOrdering
  <2> QED
    BY <1>3, <1>4, <2>2
<1> QED
  BY <1>5

\* A set of numbers with a bound has a greatest one.
LEMMA GreatestNumber ==
  ASSUME NEW B \in Nat, NEW T, T # {}, \A x \in T : x \in Nat /\ x <= B
  PROVE  \E x \in T : \A y \in T : y <= x
<1> DEFINE D == {B - x : x \in T}
<1>1. D \in SUBSET Nat /\ D # {}
  <2>1. \A x \in T : B - x \in Nat
    OBVIOUS
  <2> QED
    BY <2>1
<1>2. PICK z \in D : \A y \in D : z <= y
  <2> HIDE DEF D
  <2> QED
    BY <1>1, LeastNumber
<1>3. PICK x \in T : z = B - x
  OBVIOUS
<1>4. ASSUME NEW y \in T PROVE y <= x
  <2>1. z <= B - y
    BY <1>2
  <2> QED
    BY <1>3, <2>1
<1> QED
  BY <1>4
-----------------------------------------------------------------------------
(* The codes of an instrument *)

\* The n-th code of instrument i is in force on day d.
InForce(i, n, d) ==
  /\ n \in DOMAIN coded[i] /\ coded[i][n].from <= d
  /\ n < Len(coded[i]) => d < coded[i][n + 1].from

\* A history of codes is a sequence that begins on day 0 and goes forward.
LEMMA History ==
  ASSUME TypeOK, CodesApart, NEW i \in Instruments
  PROVE  /\ coded[i] \in Seq([code : Codes, from : Days]) /\ Len(coded[i]) \in Nat \ {0}
         /\ DOMAIN coded[i] = 1..Len(coded[i])
         /\ \A n \in DOMAIN coded[i] : coded[i][n].from \in Days /\ coded[i][n].from \in Nat
         /\ coded[i][1].from = 0 /\ coded[i][1].code = FirstCode[i]
         /\ \A m, n \in DOMAIN coded[i] : m < n => coded[i][m].from < coded[i][n].from
<1> DEFINE Code == [code : Codes, from : Days]
<1>1. coded[i] \in Seq(Code) /\ coded[i] # << >>
  BY DEF TypeOK, CodesApart
<1>2. \A n \in DOMAIN coded[i] : coded[i][n] \in Code
  <2> HIDE DEF Code
  <2> QED
    BY <1>1
<1>3. Len(coded[i]) \in Nat \ {0} /\ DOMAIN coded[i] = 1..Len(coded[i])
  <2> HIDE DEF Code
  <2> QED
    BY <1>1
<1>4. \A n \in DOMAIN coded[i] : coded[i][n].from \in Days /\ coded[i][n].from \in Nat
  BY <1>2, RegistryAssumption DEF Days
<1>5. coded[i][1].from = 0 /\ coded[i][1].code = FirstCode[i]
  <2>1. coded[i][1] = [code |-> FirstCode[i], from |-> 0]
    BY DEF CodesApart
  <2> QED
    BY <2>1
<1>6. \A m, n \in DOMAIN coded[i] : m < n => coded[i][m].from < coded[i][n].from
  BY DEF CodesApart
<1> QED
  BY <1>1, <1>3, <1>4, <1>5, <1>6

\* On every day one code is in force, and CodeOn is that one.
LEMMA CodeOnIs ==
  ASSUME TypeOK, CodesApart, NEW i \in Instruments, NEW d \in Days
  PROVE  \E n : InForce(i, n, d) /\ CodeOn(i, d) = coded[i][n].code
<1> DEFINE h == coded[i]
           begun == {n \in DOMAIN h : h[n].from <= d}
<1>1. /\ Len(h) \in Nat \ {0} /\ DOMAIN h = 1..Len(h) /\ d \in Nat
      /\ \A n \in DOMAIN h : h[n].from \in Nat
      /\ h[1].from = 0
  BY History, RegistryAssumption DEF Days
<1>2. begun # {} /\ \A n \in begun : n \in Nat /\ n <= Len(h)
  BY <1>1
<1>3. \E n \in begun : \A m \in begun : m <= n
  <2> HIDE DEF begun
  <2> QED
    BY <1>1, <1>2, GreatestNumber
<1>4. PICK n \in begun : (\A m \in begun : m <= n) /\ OnDay(h, d) = h[n]
  <2> DEFINE last == CHOOSE n \in begun : \A m \in begun : m <= n
  <2>1. last \in begun /\ \A m \in begun : m <= last
    <3> HIDE DEF begun
    <3> QED
      BY <1>3
  <2>2. OnDay(h, d) = h[last]
    BY DEF OnDay
  <2> HIDE DEF last
  <2> QED
    BY <2>1, <2>2
<1>5. ASSUME n < Len(h) PROVE d < h[n + 1].from
  <2>1. n + 1 \in DOMAIN h /\ h[n + 1].from \in Nat
    BY <1>1, <1>2, <1>5
  <2>2. n + 1 \notin begun
    BY <1>1, <1>2, <1>4
  <2> QED
    BY <1>1, <2>1, <2>2
<1> QED
  BY <1>4, <1>5 DEF InForce, CodeOn

\* One code at a time.
LEMMA InForceOnce ==
  ASSUME TypeOK, CodesApart, NEW i \in Instruments, NEW d \in Days, NEW m, NEW n,
         InForce(i, m, d), InForce(i, n, d)
  PROVE  m = n
<1>1. /\ Len(coded[i]) \in Nat \ {0} /\ DOMAIN coded[i] = 1..Len(coded[i]) /\ d \in Nat
      /\ \A k \in DOMAIN coded[i] : coded[i][k].from \in Nat
      /\ \A k, l \in DOMAIN coded[i] : k < l => coded[i][k].from < coded[i][l].from
  BY History, RegistryAssumption DEF Days
<1>2. ASSUME NEW k \in DOMAIN coded[i], NEW l \in DOMAIN coded[i], InForce(i, k, d), InForce(i, l, d), k < l
      PROVE  FALSE
  <2>1. k + 1 \in DOMAIN coded[i] /\ d < coded[i][k + 1].from /\ coded[i][l].from <= d
    BY <1>1, <1>2 DEF InForce
  <2>2. coded[i][k + 1].from <= coded[i][l].from
    <3>1. CASE k + 1 = l
      BY <1>1, <2>1, <3>1
    <3>2. CASE k + 1 < l
      BY <1>1, <2>1, <3>2
    <3> QED
      BY <1>1, <1>2, <3>1, <3>2
  <2> QED
    BY <1>1, <2>1, <2>2
<1> QED
  BY <1>1, <1>2 DEF InForce

\* A code is in force on the day it begins, and CodeOn is the code in force.
LEMMA InForceFacts ==
  ASSUME TypeOK, CodesApart, NEW i \in Instruments
  PROVE  /\ \A n, d : d \in Days /\ InForce(i, n, d) => CodeOn(i, d) = coded[i][n].code
         /\ \A n \in DOMAIN coded[i] : InForce(i, n, coded[i][n].from)
         /\ \A d \in Days : coded[i][Len(coded[i])].from <= d => InForce(i, Len(coded[i]), d)
         /\ CodeOn(i, 0) = FirstCode[i] /\ 0 \in Days
<1>1. \A n, d : d \in Days /\ InForce(i, n, d) => CodeOn(i, d) = coded[i][n].code
  BY CodeOnIs, InForceOnce
<1>2. /\ Len(coded[i]) \in Nat \ {0} /\ DOMAIN coded[i] = 1..Len(coded[i])
      /\ \A k \in DOMAIN coded[i] : coded[i][k].from \in Nat
      /\ \A k, l \in DOMAIN coded[i] : k < l => coded[i][k].from < coded[i][l].from
      /\ coded[i][1].from = 0 /\ coded[i][1].code = FirstCode[i]
  BY History
<1>3. \A n \in DOMAIN coded[i] : InForce(i, n, coded[i][n].from)
  BY <1>2 DEF InForce
<1>4. 0 \in Days /\ InForce(i, 1, 0)
  BY <1>2, <1>3, RegistryAssumption DEF Days
<1>5. \A d \in Days : coded[i][Len(coded[i])].from <= d => InForce(i, Len(coded[i]), d)
  BY <1>2 DEF InForce
<1> QED
  BY <1>1, <1>2, <1>3, <1>4, <1>5
-----------------------------------------------------------------------------
(* The entries of the code history *)

LEMMA EntryFacts ==
  ASSUME TypeOK, EntriesKnown, NEW k \in DOMAIN codes
  PROVE  /\ codes[k] \in Entry /\ k \in Nat
         /\ codes[k].entity \in DOMAIN rows /\ codes[k].entity \in Nat /\ codes[k].code \in Codes
         /\ codes[k].from \in Days /\ codes[k].from \in Nat /\ codes[k].version \in {1, 2}
         /\ codes[k].to \in Days \cup {None}
<1>1. codes[k] \in Entry /\ k \in Nat
  BY DEF TypeOK
<1> QED
  BY <1>1, RegistryAssumption DEF Entry, EntriesKnown, Days

\* Entries of codes that are known belong to an entity of the registry.
LEMMA OwnsKnown ==
  ASSUME EntriesKnown, NEW i, NEW e, Owns(i, e)
  PROVE  e \in DOMAIN rows
BY DEF EntriesKnown, Owns

\* Every code an instrument with an entity has had is among the latest entries.
LEMMA LatestThere ==
  ASSUME TypeOK, EntriesKnown, EntriesEnded, NEW i \in Instruments, NEW e, Owns(i, e), NEW n \in DOMAIN coded[i],
         Len(coded[i]) \in Nat, DOMAIN coded[i] = 1..Len(coded[i])
  PROVE  \E k \in Latest(coded[i][n].code) : k \in Entries(e, coded[i][n])
<1> DEFINE h == coded[i][n]
           K == Entries(e, h)
           ended == {k \in K : codes[k].version = 2}
<1>1. e \in DOMAIN rows
  BY OwnsKnown
<1>2. /\ K # {} /\ (n = Len(coded[i]) => ended = {})
      /\ n < Len(coded[i]) => \E k \in ended : \A j \in ended : k <= j
  BY <1>1 DEF EntriesEnded, EndedAt
<1>3. K \subseteq DOMAIN codes /\ \A k \in K : k \in Nat /\ codes[k].version \in {1, 2}
  BY EntryFacts DEF Entries
<1>4. \E k \in K : \A j \in K : \/ codes[j].version < codes[k].version
                                \/ codes[j].version = codes[k].version /\ k <= j
  <2>1. CASE n < Len(coded[i])
    <3>1. PICK k \in ended : \A j \in ended : k <= j
      BY <1>2, <2>1
    <3>2. k \in K /\ codes[k].version = 2
      OBVIOUS
    <3>3. ASSUME NEW j \in K PROVE codes[j].version < 2 \/ (codes[j].version = 2 /\ k <= j)
      <4>1. codes[j].version = 2 => j \in ended
        OBVIOUS
      <4> HIDE DEF ended, K
      <4> QED
        BY <1>3, <3>1, <4>1
    <3> HIDE DEF ended, K
    <3> QED
      BY <3>2, <3>3
  <2>2. CASE n = Len(coded[i])
    <3>1. \A k \in K : codes[k].version = 1
      BY <1>2, <1>3, <2>2
    <3>2. K \in SUBSET Nat
      BY <1>3
    <3>3. \E k \in K : \A j \in K : k <= j
      <4> HIDE DEF K
      <4> QED
        BY <1>2, <3>2, LeastNumber
    <3> QED
      BY <3>1, <3>3
  <2> QED
    BY <2>1, <2>2
<1>5. PICK k \in K : \A j \in K : \/ codes[j].version < codes[k].version
                                  \/ codes[j].version = codes[k].version /\ k <= j
  BY <1>4
<1>6. codes[k].code = h.code /\ k \in DOMAIN codes
  BY DEF Entries
<1>7. \A j \in DOMAIN codes : SameKey(codes[j], codes[k]) => j \in K
  BY DEF Entries, SameKey
<1>8. k \in Latest(h.code)
  BY <1>5, <1>6, <1>7 DEF Latest
<1> QED
  BY <1>8

\* A latest entry is about a code of the instrument of its entity, and ends when the
\* next one begins.
LEMMA LatestSays ==
  ASSUME TypeOK, CodesApart, EntriesKnown, EntriesEnded, NEW c, NEW k \in Latest(c)
  PROVE  \E i \in Instruments : \E n \in DOMAIN coded[i] :
           /\ Owns(i, codes[k].entity) /\ codes[k].entity \in DOMAIN rows
           /\ coded[i][n].code = c /\ codes[k].from = coded[i][n].from /\ codes[k].code = c
           /\ codes[k].to = IF n = Len(coded[i]) THEN None ELSE coded[i][n + 1].from - 1
<1>1. k \in DOMAIN codes /\ codes[k].code = c
  BY DEF Latest
<1> DEFINE e == codes[k].entity
<1>a. PICK i \in Instruments : Owns(i, e) /\ \E n \in DOMAIN coded[i] : k \in Entries(e, coded[i][n])
  BY <1>1 DEF EntriesKnown
<1>2. PICK n \in DOMAIN coded[i] : Owns(i, e) /\ k \in Entries(e, coded[i][n])
  BY <1>a
<1> DEFINE h == coded[i][n]
           K == Entries(e, h)
           ended == {j \in K : codes[j].version = 2}
<1>3. e \in DOMAIN rows /\ k \in Nat /\ codes[k].version \in {1, 2} /\ (codes[k].version = 1 => codes[k].to = None)
  BY <1>1, EntryFacts DEF EntriesKnown
<1>4. h.code = c /\ codes[k].from = h.from
  BY <1>1, <1>2 DEF Entries
<1>5. Len(coded[i]) \in Nat /\ n \in 1..Len(coded[i])
  BY History
<1>6. CASE n = Len(coded[i])
  <2>1. ended = {}
    BY <1>2, <1>3, <1>6 DEF EntriesEnded, EndedAt
  <2>2. codes[k].to = None
    BY <1>2, <1>3, <2>1
  <2> QED
    BY <1>1, <1>2, <1>3, <1>4, <1>6, <2>2
<1>7. CASE n < Len(coded[i])
  <2>1. PICK l \in ended : codes[l].to = coded[i][n + 1].from - 1 /\ \A j \in ended : l <= j
    BY <1>2, <1>3, <1>7 DEF EntriesEnded, EndedAt
  <2>2. l \in DOMAIN codes /\ l \in Nat /\ SameKey(codes[l], codes[k]) /\ codes[l].version = 2
    <3>1. l \in K /\ l \in DOMAIN codes
      BY DEF Entries
    <3> QED
      BY <1>2, <3>1, EntryFacts DEF Entries, SameKey
  <2>3. codes[k].version = 2 /\ k <= l
    BY <1>3, <2>2 DEF Latest
  <2>4. k \in ended
    BY <1>2, <2>3
  <2>5. k = l
    BY <1>3, <2>1, <2>2, <2>3, <2>4
  <2> QED
    BY <1>1, <1>2, <1>3, <1>4, <1>5, <1>7, <2>1, <2>5
<1> QED
  BY <1>5, <1>6, <1>7
-----------------------------------------------------------------------------
(* Whom a code leads to *)

\* One of some entries is the most recent.
LEMMA MostRecent ==
  ASSUME TypeOK, EntriesKnown, NEW T \in SUBSET DOMAIN codes, T # {}
  PROVE  \E k \in T : \A j \in T : \/ codes[j].from < codes[k].from
                                   \/ codes[j].from = codes[k].from /\ codes[j].version <= codes[k].version
<1>1. \A k \in T : codes[k].from \in Nat /\ codes[k].from <= LastDay /\ codes[k].version \in {1, 2}
  BY EntryFacts DEF Days
<1> DEFINE D == {codes[k].from : k \in T}
<1>2. D # {} /\ \A d \in D : d \in Nat /\ d <= LastDay
  BY <1>1
<1>3. PICK d \in D : \A x \in D : x <= d
  <2> HIDE DEF D
  <2> QED
    BY <1>2, GreatestNumber, RegistryAssumption
<1>4. PICK k \in T : codes[k].from = d
  OBVIOUS
<1>5. \A j \in T : codes[j].from <= d
  BY <1>3
<1> HIDE DEF D
<1>6. CASE \E l \in T : codes[l].from = d /\ codes[l].version = 2
  BY <1>1, <1>4, <1>5, <1>6
<1>7. CASE ~\E l \in T : codes[l].from = d /\ codes[l].version = 2
  BY <1>1, <1>4, <1>5, <1>7
<1> QED
  BY <1>6, <1>7

Held(c, day) == {k \in Latest(c) : day = None \/ Covers(codes[k], day)}

\* Resolve finds the entity of a most recent entry, if there is one.
LEMMA ResolveIs ==
  ASSUME TypeOK, EntriesKnown, NEW c, NEW day
  PROVE  /\ Held(c, day) = {} => Resolve(c, day) = None
         /\ Held(c, day) # {} =>
              \E k \in Held(c, day) :
                /\ Resolve(c, day) = codes[k].entity
                /\ \A j \in Held(c, day) :
                     \/ codes[j].from < codes[k].from
                     \/ codes[j].from = codes[k].from /\ codes[j].version <= codes[k].version
<1> DEFINE H == Held(c, day)
           IsLast(k) == \A j \in H : \/ codes[j].from < codes[k].from
                                     \/ codes[j].from = codes[k].from /\ codes[j].version <= codes[k].version
           last == CHOOSE k \in H : IsLast(k)
<1>1. Resolve(c, day) = IF H = {} THEN None ELSE codes[last].entity
  BY DEF Resolve, Held
<1>2. H # {} => \E k \in H : IsLast(k)
  <2>1. H \in SUBSET DOMAIN codes
    BY DEF Held, Latest
  <2> HIDE DEF H
  <2> QED
    BY <2>1, MostRecent
<1>3. H # {} => last \in H /\ IsLast(last)
  <2> HIDE DEF H, IsLast
  <2> QED
    BY <1>2
<1> HIDE DEF last
<1> QED
  BY <1>1, <1>3

\* A code held on a day is that of the entity's instrument on that day.
LEMMA HeldSays ==
  ASSUME TypeOK, CodesApart, EntriesKnown, EntriesEnded, NEW c, NEW d \in Days, NEW k \in Held(c, d)
  PROVE  \E i \in Instruments : Owns(i, codes[k].entity) /\ CodeOn(i, d) = c
<1>1. k \in Latest(c) /\ Covers(codes[k], d)
  <2>1. d # None
    BY RegistryAssumption DEF Days
  <2> QED
    BY <2>1 DEF Held
<1>2. PICK i \in Instruments :
        \E n \in DOMAIN coded[i] :
          /\ Owns(i, codes[k].entity) /\ coded[i][n].code = c /\ codes[k].from = coded[i][n].from
          /\ codes[k].to = IF n = Len(coded[i]) THEN None ELSE coded[i][n + 1].from - 1
  BY <1>1, LatestSays
<1>3. PICK n \in DOMAIN coded[i] :
        /\ Owns(i, codes[k].entity) /\ coded[i][n].code = c /\ codes[k].from = coded[i][n].from
        /\ codes[k].to = IF n = Len(coded[i]) THEN None ELSE coded[i][n + 1].from - 1
  BY <1>2
<1>4. /\ Len(coded[i]) \in Nat /\ n \in 1..Len(coded[i]) /\ d \in Nat
      /\ n < Len(coded[i]) => n + 1 \in DOMAIN coded[i] /\ coded[i][n + 1].from \in Nat
  <2>1. DOMAIN coded[i] = 1..Len(coded[i]) /\ Len(coded[i]) \in Nat
        /\ \A m \in DOMAIN coded[i] : coded[i][m].from \in Nat
    BY History
  <2> QED
    BY <2>1, RegistryAssumption DEF Days
<1>5. ASSUME n < Len(coded[i]) PROVE d < coded[i][n + 1].from
  <2> DEFINE next == coded[i][n + 1].from
  <2>1. codes[k].to = next - 1 /\ next \in Nat
    BY <1>3, <1>4, <1>5
  <2>2. next - 1 # None => d <= next - 1
    BY <1>1, <2>1 DEF Covers
  <2>3. next > 0
    <3>1. coded[i][1].from < next
      BY <1>4, <1>5, History
    <3>2. coded[i][1].from = 0
      BY History
    <3> QED
      BY <3>1, <3>2
  <2>4. next - 1 \in Nat
    BY <2>1, <2>3
  <2>5. next - 1 # None
    BY <2>4, RegistryAssumption
  <2> HIDE DEF next
  <2>6. d < next
    BY <1>4, <2>1, <2>2, <2>5
  <2> QED
    BY <2>6 DEF next
<1>6. InForce(i, n, d)
  BY <1>1, <1>3, <1>5 DEF InForce, Covers
<1> QED
  BY <1>3, <1>6, InForceFacts

\* And it is held by whoever has it.
LEMMA HeldThere ==
  ASSUME TypeOK, CodesApart, EntriesKnown, EntriesEnded, NEW d \in Days,
         NEW i \in Instruments, NEW e, Owns(i, e)
  PROVE  \E k \in Held(CodeOn(i, d), d) : TRUE
<1>1. PICK n : InForce(i, n, d) /\ CodeOn(i, d) = coded[i][n].code
  BY CodeOnIs
<1> DEFINE c == coded[i][n].code
<1>2. Len(coded[i]) \in Nat /\ DOMAIN coded[i] = 1..Len(coded[i]) /\ n \in DOMAIN coded[i]
      /\ \A m \in DOMAIN coded[i] : coded[i][m].from \in Nat
  BY <1>1, History DEF InForce
<1>3. PICK k \in Latest(c) : k \in Entries(e, coded[i][n])
  BY <1>2, LatestThere
<1>4. codes[k].entity = e /\ codes[k].from = coded[i][n].from /\ k \in DOMAIN codes
  BY <1>3 DEF Entries
<1>5. PICK j \in Instruments :
        \E m \in DOMAIN coded[j] :
          /\ Owns(j, codes[k].entity) /\ codes[k].from = coded[j][m].from /\ codes[k].code = c
          /\ coded[j][m].code = c
          /\ codes[k].to = IF m = Len(coded[j]) THEN None ELSE coded[j][m + 1].from - 1
  BY <1>3, LatestSays
<1>6. PICK m \in DOMAIN coded[j] :
        /\ Owns(j, codes[k].entity) /\ codes[k].from = coded[j][m].from /\ coded[j][m].code = c
        /\ codes[k].to = IF m = Len(coded[j]) THEN None ELSE coded[j][m + 1].from - 1
  BY <1>5
<1>7. InForce(j, m, codes[k].from) /\ InForce(i, n, codes[k].from) /\ codes[k].from \in Days
  BY <1>2, <1>4, <1>6, InForceFacts, EntryFacts
<1>8. j = i
  <2>1. CodeOn(j, codes[k].from) = c /\ CodeOn(i, codes[k].from) = c
    BY <1>6, <1>7, InForceFacts
  <2> QED
    BY <1>7, <2>1 DEF CodesApart
<1>9. m = n
  BY <1>7, <1>8, InForceOnce
<1>10. Covers(codes[k], d)
  <2>1. d \in Nat /\ codes[k].from <= d
    BY <1>1, <1>4, RegistryAssumption DEF InForce, Days
  <2>2. CASE n = Len(coded[i])
    BY <1>6, <1>8, <1>9, <2>1, <2>2 DEF Covers
  <2>3. CASE n < Len(coded[i])
    <3>1. d < coded[i][n + 1].from /\ coded[i][n + 1].from \in Nat /\ codes[k].to = coded[i][n + 1].from - 1
      BY <1>1, <1>2, <1>6, <1>8, <1>9, <2>3 DEF InForce
    <3>2. d <= codes[k].to
      BY <2>1, <3>1
    <3> QED
      BY <2>1, <3>2 DEF Covers
  <2> QED
    BY <1>2, <2>2, <2>3
<1> QED
  BY <1>1, <1>3, <1>10 DEF Held

\* On a day a code leads to the entity of the instrument that has it.
LEMMA ResolveOnDay ==
  ASSUME TypeOK, CodesApart, OwnersOne, EntriesKnown, EntriesEnded, NEW c, NEW d \in Days
  PROVE  /\ \A i \in Instruments : \A e : Owns(i, e) /\ CodeOn(i, d) = c => Resolve(c, d) = e
         /\ (\A i \in Instruments : \A e : ~(Owns(i, e) /\ CodeOn(i, d) = c)) => Resolve(c, d) = None
<1>1. ASSUME NEW i \in Instruments, NEW e, Owns(i, e), CodeOn(i, d) = c
      PROVE  Resolve(c, d) = e
  <2>1. Held(c, d) # {}
    BY <1>1, HeldThere
  <2>2. PICK k \in Held(c, d) : Resolve(c, d) = codes[k].entity
    BY <2>1, ResolveIs
  <2>3. PICK j \in Instruments : Owns(j, codes[k].entity) /\ CodeOn(j, d) = c
    BY HeldSays
  <2>4. i = j
    BY <1>1, <2>3 DEF CodesApart
  <2> QED
    BY <1>1, <2>2, <2>3, <2>4, OwnsKnown DEF OwnersOne
<1>2. ASSUME \A i \in Instruments : \A e : ~(Owns(i, e) /\ CodeOn(i, d) = c)
      PROVE  Resolve(c, d) = None
  <2>1. Held(c, d) = {}
    BY <1>2, HeldSays
  <2> QED
    BY <2>1, ResolveIs
<1> QED
  BY <1>1, <1>2

\* The present code of an instrument leads to its entity, without a day too.
LEMMA ResolveNow ==
  ASSUME TypeOK, CodesApart, OwnersOne, EntriesKnown, EntriesEnded, NEW i \in Instruments
  PROVE  /\ \A e : Owns(i, e) => Resolve(LastOf(coded[i]).code, None) = e
         /\ (\A e : ~Owns(i, e)) => Resolve(LastOf(coded[i]).code, None) = None
<1> DEFINE n == Len(coded[i])
           h == coded[i][n]
           c == h.code
<1>1. /\ n \in Nat \ {0} /\ DOMAIN coded[i] = 1..n /\ h.from \in Days /\ h.from \in Nat
      /\ coded[i][1].from = 0
  BY History
<1>2. LastOf(coded[i]) = h
  BY DEF LastOf
<1>3. Held(c, None) = Latest(c)
  BY DEF Held
<1>4. ASSUME NEW k \in Latest(c), h.from <= codes[k].from
      PROVE  Owns(i, codes[k].entity)
  <2>1. PICK j \in Instruments :
          \E m \in DOMAIN coded[j] :
            Owns(j, codes[k].entity) /\ coded[j][m].code = c /\ codes[k].from = coded[j][m].from
    BY LatestSays
  <2>2. PICK m \in DOMAIN coded[j] :
          Owns(j, codes[k].entity) /\ coded[j][m].code = c /\ codes[k].from = coded[j][m].from
    BY <2>1
  <2>3. codes[k].from \in Days
    BY <2>2, History
  <2>4. InForce(j, m, codes[k].from) /\ InForce(i, n, codes[k].from)
    BY <1>4, <2>2, <2>3, InForceFacts
  <2>5. CodeOn(j, codes[k].from) = c /\ CodeOn(i, codes[k].from) = c
    BY <2>2, <2>3, <2>4, InForceFacts
  <2> QED
    BY <2>2, <2>3, <2>5 DEF CodesApart
<1>5. ASSUME NEW e, Owns(i, e) PROVE Resolve(c, None) = e
  <2>1. PICK l \in Latest(c) : l \in Entries(e, h)
    BY <1>1, <1>5, LatestThere
  <2>2. codes[l].from = h.from
    BY <2>1 DEF Entries
  <2>3. PICK k \in Latest(c) :
          /\ Resolve(c, None) = codes[k].entity
          /\ codes[l].from < codes[k].from \/ codes[l].from = codes[k].from
    BY <1>3, <2>1, ResolveIs
  <2>4. codes[k].from \in Nat
    BY EntryFacts DEF Latest
  <2>5. Owns(i, codes[k].entity)
    BY <1>1, <1>4, <2>2, <2>3, <2>4
  <2> QED
    BY <1>5, <2>3, <2>5, OwnsKnown DEF OwnersOne
<1>6. ASSUME \A e : ~Owns(i, e) PROVE Resolve(c, None) = None
  <2>1. n = 1
    BY <1>6 DEF OwnersOne
  <2>2. \A k \in Latest(c) : codes[k].from \in Nat
    BY EntryFacts DEF Latest
  <2>3. Held(c, None) = {}
    BY <1>1, <1>3, <1>4, <1>6, <2>1, <2>2
  <2> QED
    BY <2>3, ResolveIs
<1> QED
  BY <1>2, <1>5, <1>6

\* An instrument is registered if an entity was created for it.
LEMMA RegisteredIs ==
  ASSUME TypeOK, CodesApart, OwnersOne, EntriesKnown, EntriesEnded, NEW i \in Instruments
  PROVE  /\ \A e : Owns(i, e) => Registered(i) /\ EntityOf(i) = e
         /\ Registered(i) => Owns(i, EntityOf(i))
<1>1. CodeOn(i, 0) = FirstCode[i] /\ 0 \in Days
  BY InForceFacts
<1>2. ASSUME NEW e, Owns(i, e) PROVE Registered(i) /\ EntityOf(i) = e
  <2>1. Resolve(FirstCode[i], 0) = e
    BY <1>1, <1>2, ResolveOnDay
  <2>2. e \in Nat
    BY <1>2, EntryFacts DEF Owns
  <2> QED
    BY <2>1, <2>2, RegistryAssumption DEF Registered, EntityOf
<1>3. ASSUME Registered(i) PROVE Owns(i, EntityOf(i))
  <2>1. PICK j \in Instruments : \E e : Owns(j, e) /\ CodeOn(j, 0) = FirstCode[i]
    BY <1>1, <1>3, ResolveOnDay DEF Registered
  <2>2. j = i
    BY <1>1, <2>1 DEF CodesApart
  <2> QED
    BY <1>2, <2>1, <2>2
<1> QED
  BY <1>2, <1>3

\* The two properties hold wherever the invariant does.
LEMMA CodesFollow == RegistryInv => CodesInForce
<1> SUFFICES ASSUME RegistryInv, NEW c \in Codes, NEW d \in Days
             PROVE  LET holders == {i \in Instruments : Registered(i) /\ CodeOn(i, d) = c}
                    IN  Resolve(c, d) = IF holders = {} THEN None ELSE EntityOf(CHOOSE i \in holders : TRUE)
  BY DEF CodesInForce
<1> USE DEF RegistryInv
<1> DEFINE holders == {i \in Instruments : Registered(i) /\ CodeOn(i, d) = c}
<1>1. CASE holders = {}
  <2>1. \A i \in Instruments : \A e : ~(Owns(i, e) /\ CodeOn(i, d) = c)
    BY <1>1, RegisteredIs
  <2> QED
    BY <1>1, <2>1, ResolveOnDay
<1>2. CASE holders # {}
  <2> DEFINE i == CHOOSE i \in holders : TRUE
  <2>1. i \in holders
    BY <1>2
  <2>2. i \in Instruments /\ Owns(i, EntityOf(i)) /\ CodeOn(i, d) = c
    <3> HIDE DEF i
    <3> QED
      BY <2>1, RegisteredIs
  <2>3. Resolve(c, d) = EntityOf(i)
    <3> HIDE DEF i
    <3> QED
      BY <2>2, ResolveOnDay
  <2> QED
    BY <1>2, <2>3
<1> QED
  BY <1>1, <1>2

LEMMA CurrentFollows == RegistryInv => CurrentCode
<1> SUFFICES ASSUME RegistryInv, NEW i \in Instruments, Registered(i)
             PROVE  /\ Current(EntityOf(i)).code = LastOf(coded[i]).code
                    /\ Resolve(LastOf(coded[i]).code, None) = EntityOf(i)
  BY DEF CurrentCode
<1>1. Owns(i, EntityOf(i))
  BY RegisteredIs DEF RegistryInv
<1>2. EntityOf(i) \in DOMAIN rows
  BY <1>1, OwnsKnown DEF RegistryInv
<1> QED
  BY <1>1, <1>2, ResolveNow DEF RegistryInv, RowsCurrent
-----------------------------------------------------------------------------
(* The rows of an entity *)

LEMMA RowFacts ==
  ASSUME NEW S, Numbered(S), NEW r \in S
  PROVE  /\ r \in Row /\ r.from \in Nat /\ r.from <= LastDay
         /\ r.version \in Nat /\ r.version \in 1..Cardinality(S) /\ Cardinality(S) \in Nat
         /\ r.name \in Names /\ r.code \in Codes /\ r.from \in Days /\ r.to \in Days \cup {None}
<1>1. Cardinality(S) \in Nat
  BY FS_CardinalityType DEF Numbered
<1>2. r \in Row /\ r.version \in 1..Cardinality(S)
  BY DEF Numbered
<1> QED
  BY <1>1, <1>2, RegistryAssumption DEF Row, Days

\* No row of T comes after r.
IsNewest(T, r) ==
  r \in T /\ \A q \in T : q.from < r.from \/ (q.from = r.from /\ q.version <= r.version)

\* Some of the rows of an entity, if any, have one newest, which is Newest.
LEMMA NewestIs ==
  ASSUME NEW S, Numbered(S), NEW T \in SUBSET S, T # {}
  PROVE  IsNewest(T, Newest(T)) /\ \A r : IsNewest(T, r) => r = Newest(T)
<1>1. \A r \in T : /\ r.from \in Nat /\ r.from <= LastDay
                   /\ r.version \in Nat /\ r.version <= Cardinality(S) /\ Cardinality(S) \in Nat
  BY RowFacts
<1> DEFINE D == {r.from : r \in T}
<1>2. D # {} /\ \A d \in D : d \in Nat /\ d <= LastDay
  BY <1>1
<1>3. PICK d \in D : \A x \in D : x <= d
  <2> HIDE DEF D
  <2> QED
    BY <1>2, GreatestNumber, RegistryAssumption
<1> DEFINE L == {r \in T : r.from = d}
           V == {r.version : r \in L}
<1>4. V # {} /\ \A v \in V : v \in Nat /\ v <= Cardinality(S)
  BY <1>1
<1>5. PICK v \in V : \A x \in V : x <= v
  <2>1. Cardinality(S) \in Nat
    BY <1>1
  <2> HIDE DEF V
  <2> QED
    BY <1>4, <2>1, GreatestNumber
<1>6. PICK r \in L : r.version = v
  OBVIOUS
<1>7. IsNewest(T, r)
  <2>1. ASSUME NEW q \in T PROVE q.from < r.from \/ (q.from = r.from /\ q.version <= r.version)
    <3>1. q.from <= d /\ r.from = d
      BY <1>3
    <3>2. CASE q.from = d
      <4>1. q.version <= v
        BY <1>5, <3>2
      <4> QED
        BY <1>6, <3>1, <3>2, <4>1
    <3>3. q.from \in Nat /\ d \in Nat
      BY <1>1, <1>2
    <3> QED
      BY <3>1, <3>2, <3>3
  <2> QED
    BY <2>1 DEF IsNewest
<1>8. IsNewest(T, Newest(T))
  <2> DEFINE N == CHOOSE x \in T : IsNewest(T, x)
  <2>1. N = Newest(T)
    BY DEF Newest, IsNewest
  <2>2. r \in T
    BY <1>7 DEF IsNewest
  <2>3. IsNewest(T, N)
    BY <1>7, <2>2
  <2> QED
    BY <2>1, <2>3
<1>9. ASSUME NEW p, NEW q, IsNewest(T, p), IsNewest(T, q) PROVE p = q
  <2>1. p \in T /\ q \in T /\ p \in S /\ q \in S
    BY <1>9 DEF IsNewest
  <2>2. p.from \in Nat /\ q.from \in Nat /\ p.version \in Nat /\ q.version \in Nat
    BY <1>1, <2>1
  <2>3. p.from = q.from /\ p.version <= q.version /\ q.version <= p.version
    BY <1>9, <2>1, <2>2 DEF IsNewest
  <2>4. p.version = q.version
    BY <2>2, <2>3
  <2> QED
    BY <2>1, <2>4 DEF Numbered
<1> QED
  BY <1>8, <1>9

\* The newest open row is one of the rows.
LEMMA NewestOpen ==
  ASSUME NEW S, Numbered(S)
  PROVE  /\ Newest(Opened(S)) \in S /\ Newest(Opened(S)) \in Row /\ Newest(Opened(S)).to = None
         /\ IsNewest(Opened(S), Newest(Opened(S)))
         /\ \A r : IsNewest(Opened(S), r) => r = Newest(Opened(S))
<1>1. Opened(S) \in SUBSET S /\ Opened(S) # {}
  BY DEF Numbered, Opened
<1>2. IsNewest(Opened(S), Newest(Opened(S))) /\ \A r : IsNewest(Opened(S), r) => r = Newest(Opened(S))
  BY <1>1, NewestIs
<1>3. Newest(Opened(S)) \in Opened(S)
  BY <1>2 DEF IsNewest
<1>4. Newest(Opened(S)) \in S /\ Newest(Opened(S)).to = None
  BY <1>3 DEF Opened
<1> QED
  BY <1>2, <1>4, RowFacts

\* Appending a row numbers it behind the others.
LEMMA AppendedIs ==
  ASSUME NEW S, Numbered(S), NEW r \in Row
  PROVE  \E a : /\ Appended(S, r) = S \cup {a} /\ a \in Row
                /\ a.name = r.name /\ a.code = r.code /\ a.from = r.from /\ a.to = r.to
                /\ a.version = Cardinality(S) + 1
                /\ Numbered(Appended(S, r))
                /\ r.to = None => Opened(Appended(S, r)) = Opened(S) \cup {a}
                /\ r.to # None => Opened(Appended(S, r)) = Opened(S)
<1> DEFINE b == [r EXCEPT !.version = Cardinality(S) + 1]
<1>1. Cardinality(S) \in Nat /\ IsFiniteSet(S) /\ S \in SUBSET Row
  BY FS_CardinalityType DEF Numbered
<1>2. /\ b \in Row /\ b.name = r.name /\ b.code = r.code /\ b.from = r.from /\ b.to = r.to
      /\ b.version = Cardinality(S) + 1
  BY <1>1 DEF Row
<1>3. Appended(S, r) = S \cup {b}
  BY DEF Appended
<1>4. PICK a : /\ Appended(S, r) = S \cup {a} /\ a \in Row
               /\ a.name = r.name /\ a.code = r.code /\ a.from = r.from /\ a.to = r.to
               /\ a.version = Cardinality(S) + 1
  BY <1>2, <1>3
<1>5. /\ r.to = None => Opened(S \cup {a}) = Opened(S) \cup {a}
      /\ r.to # None => Opened(S \cup {a}) = Opened(S)
  BY <1>4 DEF Opened
<1>6. \A q \in S : q.version \in 1..Cardinality(S)
  BY DEF Numbered
<1>7. a \notin S
  BY <1>1, <1>4, <1>6
<1>8. IsFiniteSet(S \cup {a}) /\ Cardinality(S \cup {a}) = Cardinality(S) + 1
  BY <1>1, <1>7, FS_AddElement
<1>9. Numbered(S \cup {a})
  <2>1. S \cup {a} \in SUBSET Row /\ Opened(S \cup {a}) # {}
    BY <1>1, <1>4, <1>5 DEF Numbered
  <2>2. \A q \in S \cup {a} : q.version \in 1..(Cardinality(S) + 1)
    BY <1>1, <1>4, <1>6
  <2>3. ASSUME NEW p \in S \cup {a}, NEW q \in S \cup {a}, p.version = q.version PROVE p = q
    <3>1. CASE p \in S /\ q \in S
      BY <2>3, <3>1 DEF Numbered
    <3>2. CASE p = a \/ q = a
      BY <1>1, <1>4, <1>6, <2>3, <3>2
    <3> QED
      BY <3>1, <3>2
  <2> QED
    BY <1>8, <2>1, <2>2, <2>3 DEF Numbered
<1> QED
  BY <1>4, <1>5, <1>9

\* A row that is closed, or has the code of the current row, leaves that code.
LEMMA CodeKept ==
  ASSUME NEW S, Numbered(S), NEW r \in Row, r.to = None => r.code = Newest(Opened(S)).code
  PROVE  Numbered(Appended(S, r)) /\ Newest(Opened(Appended(S, r))).code = Newest(Opened(S)).code
<1>1. PICK a : /\ a.code = r.code /\ Numbered(Appended(S, r))
               /\ Opened(Appended(S, r)) = IF r.to = None THEN Opened(S) \cup {a} ELSE Opened(S)
  BY AppendedIs
<1> DEFINE m == Newest(Opened(Appended(S, r)))
           o == Newest(Opened(S))
<1>2. CASE r.to # None
  BY <1>1, <1>2
<1>3. CASE r.to = None
  <2>1. Opened(Appended(S, r)) = Opened(S) \cup {a}
    BY <1>1, <1>3
  <2>2. IsNewest(Opened(S) \cup {a}, m)
    BY <1>1, <2>1, NewestOpen
  <2>3. CASE m = a
    BY <1>1, <1>3, <2>3
  <2>4. CASE m # a
    <3>1. IsNewest(Opened(S), m)
      <4> HIDE DEF m
      <4> QED
        BY <2>2, <2>4 DEF IsNewest
    <3>2. m = o
      BY <3>1, NewestOpen
    <3> QED
      BY <1>1, <3>2
  <2> QED
    BY <2>3, <2>4
<1> QED
  BY <1>1, <1>2, <1>3

\* A row of a day, if any, is one of the rows.
LEMMA NewestCovering ==
  ASSUME NEW S, Numbered(S), NEW day, Covering(S, day) # {}
  PROVE  Newest(Covering(S, day)) \in S /\ Newest(Covering(S, day)) \in Row
<1>1. Covering(S, day) \in SUBSET S
  BY DEF Covering
<1>2. Newest(Covering(S, day)) \in Covering(S, day)
  BY <1>1, NewestIs DEF IsNewest
<1> QED
  BY <1>1, <1>2 DEF Numbered

\* Closing a row leaves the open ones.
LEMMA ClosedKeeps ==
  ASSUME NEW S, Numbered(S), NEW day \in Days
  PROVE  /\ Numbered(Closed(S, day))
         /\ Newest(Opened(Closed(S, day))).code = Newest(Opened(S)).code
<1> DEFINE previous == Newest(Covering(S, day))
           r == [previous EXCEPT !.to = day]
<1>1. day # None
  BY RegistryAssumption DEF Days
<1>2. CASE Covering(S, day) # {} /\ (previous.to = None \/ previous.to > day)
  <2>1. Closed(S, day) = Appended(S, r)
    BY <1>2 DEF Closed
  <2>2. r \in Row /\ r.to # None
    <3>1. previous \in Row
      BY <1>2, NewestCovering
    <3> HIDE DEF previous
    <3> QED
      BY <1>1, <3>1 DEF Row
  <2> HIDE DEF r
  <2> QED
    BY <2>1, <2>2, CodeKept
<1>3. CASE ~(Covering(S, day) # {} /\ (previous.to = None \/ previous.to > day))
  BY <1>3 DEF Closed
<1> QED
  BY <1>2, <1>3

\* A name with its interval leaves the code of the current row.
LEMMA NameKeepsCode ==
  ASSUME NEW S, Numbered(S), NEW ev \in Event
  PROVE  /\ Numbered(WithName(S, ev.name, ev.start, ev.end))
         /\ Newest(Opened(WithName(S, ev.name, ev.start, ev.end))).code = Newest(Opened(S)).code
<1> DEFINE day == ev.start - 1
           before == Covering(S, day)
           current == Newest(Opened(S))
           resumed == IF before = {} THEN current.name ELSE Newest(before).name
           first == [current EXCEPT !.name = ev.name, !.from = ev.start, !.to = ev.end]
           changed == Appended(Closed(S, day), first)
           second == [current EXCEPT !.name = resumed, !.from = ev.end + 1, !.to = None]
           all == WithName(S, ev.name, ev.start, ev.end)
<1>1. /\ ev.name \in Names /\ ev.start \in Days /\ day \in Days /\ ev.end \in Days \cup {None}
      /\ ev.end # None => ev.end + 1 \in Days
  BY RegistryAssumption DEF Event, Days
<1>2. all = IF ev.end = None THEN changed ELSE Appended(changed, second)
  BY DEF WithName
<1>3. current \in Row
  BY NewestOpen
<1>4. resumed \in Names
  <2>1. before # {} => Newest(before) \in Row
    BY NewestCovering
  <2> HIDE DEF before, current
  <2> QED
    BY <1>3, <2>1 DEF Row
<1>5. first \in Row /\ first.code = current.code
  <2> HIDE DEF current
  <2> QED
    BY <1>1, <1>3 DEF Row
<1>6. ev.end # None => second \in Row /\ second.code = current.code
  <2> HIDE DEF current, resumed
  <2> QED
    BY <1>1, <1>3, <1>4 DEF Row
<1>7. Numbered(Closed(S, day)) /\ Newest(Opened(Closed(S, day))).code = current.code
  <2> HIDE DEF day
  <2> QED
    BY <1>1, ClosedKeeps
<1>8. Numbered(changed) /\ Newest(Opened(changed)).code = current.code
  <2> HIDE DEF first, current, day
  <2> QED
    BY <1>5, <1>7, CodeKept
<1>9. ev.end # None =>
        /\ Numbered(Appended(changed, second))
        /\ Newest(Opened(Appended(changed, second))).code = current.code
  <2> HIDE DEF second, changed, current
  <2> QED
    BY <1>6, <1>8, CodeKept
<1> HIDE DEF changed, second, all, current
<1> QED
  BY <1>2, <1>8, <1>9 DEF all, current
-----------------------------------------------------------------------------
(* Sequences *)

\* The members of a finite set, one after the other, each once.
LEMMA SetToSeqIs ==
  ASSUME NEW S, IsFiniteSet(S)
  PROVE  /\ SetToSeq(S) \in Seq(S)
         /\ \A x \in S : \E k \in DOMAIN SetToSeq(S) : SetToSeq(S)[k] = x
         /\ \A j, k \in DOMAIN SetToSeq(S) : SetToSeq(S)[j] = SetToSeq(S)[k] => j = k
<1> DEFINE n == Cardinality(S)
           f == SetToSeq(S)
<1>1. n \in Nat /\ ExistsBijection(1..n, S)
  BY FS_CardinalityType
<1>2. \E g \in [1..n -> S] : IsInjective(g)
  BY <1>1 DEF ExistsBijection, Bijection, Injection
<1>3. f = CHOOSE g \in [1..n -> S] : IsInjective(g)
  BY DEF SetToSeq
<1>4. f \in [1..n -> S] /\ IsInjective(f)
  <2> HIDE DEF f, n
  <2> QED
    BY <1>2, <1>3
<1>5. f \in Injection(1..n, S) /\ IsFiniteSet(1..n) /\ Cardinality(1..n) = n
  <2>1. IsFiniteSet(1..n) /\ Cardinality(1..n) = n
    <3> HIDE DEF n
    <3> QED
      BY <1>1, FS_Interval
  <2> HIDE DEF f, n
  <2> QED
    BY <1>4, <2>1 DEF Injection
<1>6. f \in Surjection(1..n, S)
  <2> HIDE DEF f
  <2> QED
    BY <1>5, FS_Injection
<1> HIDE DEF f, n
<1>7. \A x \in S : \E k \in 1..n : f[k] = x
  BY <1>6 DEF Surjection
<1>8. f \in Seq(S) /\ DOMAIN f = 1..n
  BY <1>1, <1>4
<1>9. \A j, k \in DOMAIN f : f[j] = f[k] => j = k
  BY <1>4 DEF IsInjective
<1> QED
  BY <1>7, <1>8, <1>9 DEF f

\* The range of a sequence is finite.
LEMMA FiniteRange ==
  ASSUME NEW T, NEW s \in Seq(T)
  PROVE  IsFiniteSet(Range(s))
<1>1. Len(s) \in Nat /\ DOMAIN s = 1..Len(s) /\ s = [k \in 1..Len(s) |-> s[k]]
  OBVIOUS
<1>2. s \in Surjection(1..Len(s), Range(s))
  BY <1>1 DEF Surjection, Range
<1>3. IsFiniteSet(1..Len(s))
  <2>1. \A n \in Nat : IsFiniteSet(1..n)
    BY FS_Interval
  <2> QED
    BY <1>1, <2>1
<1> QED
  BY <1>2, <1>3, FS_Surjection

\* Sequences of members of T, one behind the other, are a sequence of members of T:
\* f holds the first n of them joined, for every n, since there is no least n without.
LEMMA FlattenSteps ==
  ASSUME NEW T, NEW s \in Seq(Seq(T)), s # << >>
  PROVE  \E f : /\ f[Len(s)] = FlattenSeq(s)
               /\ \A i \in 1..Len(s) : f[i] \in Seq(T) /\ f[i] = IF i = 1 THEN s[i] ELSE f[i - 1] \o s[i]
<1> DEFINE L == Len(s)
           Join(x, y) == x \o y
           Joins(f, n) == \A i \in 1..n : f[i] = IF i = 1 THEN s[i] ELSE Join(f[i - 1], s[i])
           Joined(n) == \E f \in [1..n -> Seq(T)] : Joins(f, n)
           Is(f) == f = [i \in 1..L |-> IF i = 1 THEN s[i] ELSE Join(f[i - 1], s[i])]
           flatten == CHOOSE f : Is(f)
<1>1. L \in Nat /\ DOMAIN s = 1..L /\ \A i \in 1..L : s[i] \in Seq(T)
  OBVIOUS
<1>2. \A x, y \in Seq(T) : Join(x, y) \in Seq(T)
  OBVIOUS
<1>3. L # 0 => FlattenSeq(s) = flatten[L]
  BY DEF FlattenSeq
<1>4. L # 0
  OBVIOUS
<1> HIDE DEF Join, L
<1>5. ASSUME NEW n \in Nat, n < L, Joined(n) PROVE Joined(n + 1)
  <2>1. PICK f \in [1..n -> Seq(T)] : Joins(f, n)
    BY <1>5
  <2> DEFINE last == IF n = 0 THEN s[1] ELSE Join(f[n], s[n + 1])
             g == [i \in 1..(n + 1) |-> IF i = n + 1 THEN last ELSE f[i]]
  <2>2. last \in Seq(T)
    BY <1>1, <1>2, <1>5
  <2>3. g \in [1..(n + 1) -> Seq(T)]
    <3> HIDE DEF last
    <3> QED
      BY <2>2
  <2>4. ASSUME NEW i \in 1..(n + 1) PROVE g[i] = IF i = 1 THEN s[i] ELSE Join(g[i - 1], s[i])
    <3>1. CASE i = n + 1 /\ n = 0
      BY <3>1
    <3>2. CASE i = n + 1 /\ n # 0
      BY <3>2
    <3>3. CASE i \in 1..n
      <4>1. g[i] = f[i] /\ (i # 1 => g[i - 1] = f[i - 1])
        BY <3>3
      <4>2. f[i] = IF i = 1 THEN s[i] ELSE Join(f[i - 1], s[i])
        BY <2>1, <3>3
      <4> QED
        BY <4>1, <4>2
    <3> QED
      BY <3>1, <3>2, <3>3
  <2> HIDE DEF g
  <2> QED
    BY <2>3, <2>4
<1>6. Joined(0)
  <2> DEFINE f == [i \in 1..0 |-> << >>]
  <2>1. f \in [1..0 -> Seq(T)]
    OBVIOUS
  <2>2. Joins(f, 0)
    OBVIOUS
  <2> HIDE DEF Joins, f
  <2> QED
    BY <2>1, <2>2
<1>7. Joined(L)
  <2> DEFINE U == {n \in 0..L : ~Joined(n)}
  <2> HIDE DEF Joined
  <2>1. SUFFICES ASSUME U # {} PROVE FALSE
    BY <1>1
  <2>2. U \in SUBSET Nat
    BY <1>1
  <2>3. PICK n \in U : \A m \in U : n <= m
    <3> HIDE DEF U
    <3> QED
      BY <2>1, <2>2, LeastNumber
  <2>4. n # 0 /\ n \in Nat /\ n <= L
    BY <1>1, <1>6
  <2>5. n - 1 \in Nat /\ n - 1 < L /\ n - 1 \notin U
    BY <1>1, <2>3, <2>4
  <2>6. Joined(n - 1)
    BY <1>1, <2>4, <2>5
  <2>7. Joined((n - 1) + 1)
    BY <1>5, <2>5, <2>6
  <2> QED
    BY <2>4, <2>7
<1>8. Is(flatten)
  <2>1. PICK f \in [1..L -> Seq(T)] : Joins(f, L)
    BY <1>7
  <2>2. f = [i \in 1..L |-> f[i]]
    OBVIOUS
  <2>3. Is(f)
    BY <2>1, <2>2
  <2> HIDE DEF Is
  <2> QED
    BY <2>3
<1> HIDE DEF flatten
<1>9. \A i \in 1..L : flatten[i] = IF i = 1 THEN s[i] ELSE Join(flatten[i - 1], s[i])
  BY <1>8
<1>10. \A n \in 1..L : flatten[n] \in Seq(T)
  <2> DEFINE U == {n \in 1..L : flatten[n] \notin Seq(T)}
  <2>1. SUFFICES ASSUME U # {} PROVE FALSE
    OBVIOUS
  <2>2. PICK n \in U : \A m \in U : n <= m
    <3>1. U \in SUBSET Nat
      BY <1>1
    <3> HIDE DEF U
    <3> QED
      BY <2>1, <3>1, LeastNumber
  <2>3. n \in 1..L /\ s[n] \in Seq(T)
    BY <1>1
  <2>4. n # 1
    BY <1>9, <2>3
  <2>5. n - 1 \in 1..L /\ n - 1 \notin U
    BY <1>1, <2>2, <2>3, <2>4
  <2>6. flatten[n - 1] \in Seq(T)
    BY <2>5
  <2>7. flatten[n] = Join(flatten[n - 1], s[n])
    BY <1>9, <2>3, <2>4
  <2>8. flatten[n] \in Seq(T)
    BY <1>2, <2>3, <2>6, <2>7
  <2> QED
    BY <2>8
<1> QED
  BY <1>1, <1>3, <1>4, <1>9, <1>10 DEF Join, L

LEMMA FlattenIs ==
  ASSUME NEW T, NEW s \in Seq(Seq(T))
  PROVE  FlattenSeq(s) \in Seq(T)
<1>1. CASE s = << >>
  BY <1>1 DEF FlattenSeq
<1>2. CASE s # << >>
  <2>1. Len(s) \in 1..Len(s)
    BY <1>2
  <2> QED
    BY <1>2, <2>1, FlattenSteps
<1> QED
  BY <1>1, <1>2
-----------------------------------------------------------------------------
(* The invariant: steps that leave the codes *)

\* The source's codes, the owners and the entries depend on coded, codes and on
\* which entities there are.
LEMMA CodesFrame ==
  ASSUME CodesApart, OwnersOne, EntriesKnown, EntriesEnded,
         UNCHANGED <<coded, codes>>, DOMAIN rows' = DOMAIN rows
  PROVE  (CodesApart /\ OwnersOne /\ EntriesKnown /\ EntriesEnded)'
<1>1. \A i, e : Owns(i, e)' <=> Owns(i, e)
  BY DEF Owns
<1>2. \A e, h : Entries(e, h)' = Entries(e, h)
  BY DEF Entries
<1>3. CodesApart'
  <2>1. coded' = coded /\ \A i, d : CodeOn(i, d)' = CodeOn(i, d)
    BY DEF CodeOn
  <2> QED
    BY <2>1 DEF CodesApart
<1>4. OwnersOne'
  BY <1>1 DEF OwnersOne
<1>5. EntriesKnown'
  BY <1>1, <1>2 DEF EntriesKnown
<1>6. EntriesEnded'
  <2>1. \A i, e, n : EndedAt(i, e, n)' <=> EndedAt(i, e, n)
    BY <1>2 DEF EndedAt
  <2> QED
    BY <1>1, <2>1 DEF EntriesEnded
<1> QED
  BY <1>3, <1>4, <1>5, <1>6

\* Rows may be appended if they leave the code of every current row.
LEMMA RowsFrame ==
  ASSUME RowsNumbered, RowsCurrent, UNCHANGED <<coded, codes>>, DOMAIN rows' = DOMAIN rows,
         \A e \in DOMAIN rows : /\ Numbered(rows'[e])
                                /\ Newest(Opened(rows'[e])).code = Newest(Opened(rows[e])).code
  PROVE  (RowsNumbered /\ RowsCurrent)'
<1>1. \A i, e : Owns(i, e)' <=> Owns(i, e)
  BY DEF Owns
<1>2. \A e \in DOMAIN rows : Current(e)'.code = Current(e).code
  BY DEF Current
<1>3. RowsNumbered'
  BY DEF RowsNumbered
<1>4. RowsCurrent'
  BY <1>1, <1>2 DEF RowsCurrent, LastOf
<1> QED
  BY <1>3, <1>4

\* Steps of the source and of the build that leave the registry.
LEMMA RegistryFrame ==
  ASSUME RegistryInv, UNCHANGED <<coded, codes, rows>>
  PROVE  (CodesApart /\ OwnersOne /\ EntriesKnown /\ EntriesEnded /\ RowsNumbered /\ RowsCurrent)'
BY CodesFrame, RowsFrame DEF RegistryInv, RowsNumbered

LEMMA RenameKeeps ==
  ASSUME RegistryInv, NEW i \in Instruments, NEW n \in Names, NEW day \in Days, Rename(i, n, day)
  PROVE  RegistryInv'
<1> DEFINE Named == [name : Names, from : 1..LastDay]
           r == [name |-> n, from |-> day]
<1>1. /\ named \in [Instruments -> Seq(Named)] /\ (\A j \in Instruments : named[j] # << >>)
      /\ day > LastOf(named[i]).from
      /\ named' = [named EXCEPT ![i] = Append(@, r)]
  BY DEF RegistryInv, TypeOK, Rename
<1>2. LastOf(named[i]) \in Named
  <2> HIDE DEF Named
  <2> QED
    BY <1>1 DEF LastOf
<1>3. r \in Named
  BY <1>1, <1>2, RegistryAssumption DEF Days
<1>4. named' \in [Instruments -> Seq(Named)] /\ \A j \in Instruments : named'[j] # << >>
  <2> HIDE DEF Named, r
  <2>1. Append(named[i], r) \in Seq(Named) /\ Append(named[i], r) # << >>
    BY <1>1, <1>3
  <2> QED
    BY <1>1, <2>1
<1>5. TypeOK'
  BY <1>4 DEF RegistryInv, TypeOK, Rename
<1>6. UNCHANGED <<coded, codes, rows>>
  BY DEF Rename
<1> QED
  BY <1>5, <1>6, RegistryFrame DEF RegistryInv

\* The listing names every instrument.
LEMMA BeginBuildKeeps ==
  ASSUME RegistryInv, BeginBuild
  PROVE  RegistryInv'
<1>1. Order \in Seq(Instruments)
  BY SetToSeqIs, RegistryAssumption DEF Order
<1>2. TypeOK'
  BY <1>1 DEF RegistryInv, TypeOK, BeginBuild
<1>3. UNCHANGED <<coded, codes, rows>>
  BY DEF BeginBuild
<1> QED
  BY <1>2, <1>3, RegistryFrame DEF RegistryInv

\* What no build holds is what a build may hold.
LEMMA NoBuildIs ==
  /\ DOMAIN NoBuild = {"listing", "events", "listed", "reported"}
  /\ NoBuild.listing \in Seq(Instruments) /\ NoBuild.events \in Seq(Event)
<1>1. /\ DOMAIN NoBuild = {"listing", "events", "listed", "reported"}
      /\ NoBuild.listing = << >> /\ NoBuild.events = << >>
  BY DEF NoBuild
<1>2. \A T : << >> \in Seq(T)
  OBVIOUS
<1> QED
  BY <1>1, <1>2

LEMMA AbortKeeps ==
  ASSUME RegistryInv, Abort
  PROVE  RegistryInv'
<1>1. TypeOK'
  BY NoBuildIs DEF RegistryInv, TypeOK, Abort
<1>2. UNCHANGED <<coded, codes, rows>>
  BY DEF Abort
<1> QED
  BY <1>1, <1>2, RegistryFrame DEF RegistryInv

\* What the source reports of an instrument are events.
LEMMA ReportedIs ==
  ASSUME TypeOK, CodesApart, NEW i \in Instruments
  PROVE  Reported(i) \in Seq(Event)
<1> DEFINE Named == [name : Names, from : 1..LastDay]
           Code == [code : Codes, from : Days]
           h == named[i]
           begun == {k \in DOMAIN h : h[k].from <= EventsUntil}
           m == Cardinality(begun)
           c == LastOf(coded[i]).code
           ends(k) == IF k = Len(h) THEN None ELSE h[k + 1].from - 1
           event(k) == [code |-> c, name |-> h[k].name, start |-> h[k].from, end |-> ends(k)]
<1>1. h \in Seq(Named) /\ LastDay \in Nat
  BY RegistryAssumption DEF TypeOK
<1>2. c \in Codes
  <2>1. coded[i] \in Seq(Code) /\ Len(coded[i]) \in DOMAIN coded[i]
    <3>1. coded[i] \in Seq(Code) /\ Len(coded[i]) \in Nat \ {0} /\ DOMAIN coded[i] = 1..Len(coded[i])
      BY History
    <3> HIDE DEF Code
    <3> QED
      BY <3>1
  <2>2. LastOf(coded[i]) \in Code
    <3> HIDE DEF Code
    <3> QED
      BY <2>1 DEF LastOf
  <2> QED
    BY <2>2
<1>3. Len(h) \in Nat /\ DOMAIN h = 1..Len(h) /\ \A k \in 1..Len(h) : h[k] \in Named
  <2> HIDE DEF Named, h
  <2> QED
    BY <1>1
<1>4. \A k \in 1..Len(h) : /\ h[k].name \in Names /\ h[k].from \in 1..LastDay
                           /\ ends(k) \in {None} \cup 0..(LastDay - 1)
  <2>1. \A k \in 1..Len(h) : h[k].name \in Names /\ h[k].from \in 1..LastDay
    BY <1>3
  <2>2. ASSUME NEW k \in 1..Len(h), k # Len(h) PROVE h[k + 1].from - 1 \in 0..(LastDay - 1)
    <3>1. k + 1 \in 1..Len(h)
      BY <1>3, <2>2
    <3>2. h[k + 1].from \in 1..LastDay
      BY <2>1, <3>1
    <3>3. \A v \in 1..LastDay : v - 1 \in 0..(LastDay - 1)
      BY <1>1
    <3> HIDE DEF h
    <3> QED
      BY <3>2, <3>3
  <2> QED
    BY <2>1, <2>2
<1>5. \A k \in 1..Len(h) : event(k) \in Event
  <2> HIDE DEF c, h, ends
  <2> QED
    BY <1>2, <1>4 DEF Event
<1>6. Intervals(i) = [k \in 1..Len(h) |-> event(k)]
  BY <1>3 DEF Intervals, IntervalOf
<1>7. Intervals(i) \in Seq(Event) /\ Len(Intervals(i)) = Len(h)
  <2> HIDE DEF event
  <2>1. [k \in 1..Len(h) |-> event(k)] \in [1..Len(h) -> Event]
    BY <1>5
  <2> QED
    BY <1>3, <1>6, <2>1
<1>8. m \in Nat /\ m <= Len(h)
  <2>1. IsFiniteSet(1..Len(h)) /\ Cardinality(1..Len(h)) = Len(h)
    <3>1. \A n \in Nat : IsFiniteSet(1..n) /\ Cardinality(1..n) = n
      BY FS_Interval
    <3> QED
      BY <1>3, <3>1
  <2>2. begun \in SUBSET (1..Len(h))
    BY <1>3
  <2> HIDE DEF begun
  <2>3. IsFiniteSet(begun) /\ Cardinality(begun) <= Cardinality(1..Len(h))
    BY <2>1, <2>2, FS_Subset
  <2> QED
    BY <2>1, <2>3, FS_CardinalityType
<1>9. Reported(i) = SubSeq(Intervals(i), 1, m)
  BY DEF Reported
<1> HIDE DEF m, h
<1> QED
  BY <1>3, <1>7, <1>8, <1>9

LEMMA FetchEventsKeeps ==
  ASSUME RegistryInv, FetchEvents
  PROVE  RegistryInv'
<1> DEFINE parts == [k \in DOMAIN Order |-> Reported(Order[k])]
           all == FlattenSeq(parts)
<1>1. Order \in Seq(Instruments) /\ DOMAIN Order = 1..Len(Order) /\ Len(Order) \in Nat
  BY SetToSeqIs, RegistryAssumption DEF Order
<1>2. \A k \in DOMAIN Order : Reported(Order[k]) \in Seq(Event)
  <2>1. \A k \in DOMAIN Order : Order[k] \in Instruments
    BY <1>1
  <2> QED
    BY <2>1, ReportedIs DEF RegistryInv
<1>3. parts \in Seq(Seq(Event))
  <2>1. parts \in [1..Len(Order) -> Seq(Event)]
    BY <1>1, <1>2
  <2> HIDE DEF parts
  <2> QED
    BY <1>1, <2>1
<1>4. all \in Seq(Event)
  <2> HIDE DEF parts
  <2> QED
    BY <1>3, FlattenIs
<1>5. build' = [build EXCEPT !.events = all, !.reported = named]
  BY DEF FetchEvents
<1>6. UNCHANGED <<named, coded, codes, rows>>
  BY DEF FetchEvents
<1>7. TypeOK'
  <2> HIDE DEF all
  <2> QED
    BY <1>4, <1>5, <1>6 DEF RegistryInv, TypeOK
<1> QED
  BY <1>6, <1>7, RegistryFrame DEF RegistryInv

\* An entity that Resolve finds is one of the registry's.
LEMMA ResolveKnown ==
  ASSUME TypeOK, EntriesKnown, NEW c, NEW day, Resolve(c, day) # None
  PROVE  Resolve(c, day) \in DOMAIN rows
<1>1. PICK k \in Held(c, day) : Resolve(c, day) = codes[k].entity
  BY ResolveIs
<1>2. k \in DOMAIN codes
  BY DEF Held, Latest
<1> QED
  BY <1>1, <1>2 DEF EntriesKnown

LEMMA NameChangeKeeps ==
  ASSUME RegistryInv, NameChange
  PROVE  RegistryInv'
<1> DEFINE next == Head(build.events)
           e == Resolve(next.code, None)
           S == WithName(rows[e], next.name, next.start, next.end)
<1>1. /\ build.events \in Seq(Event) /\ build.events # << >>
      /\ rows' = IF e = None THEN rows ELSE [rows EXCEPT ![e] = S]
      /\ build' = NoBuild \/ build' = [build EXCEPT !.events = Tail(@)]
      /\ UNCHANGED <<named, coded, codes>>
  <2>1. build.events # << >> /\ build.events # None /\ build.events \in Seq(Event) \cup {None}
    BY DEF NameChange, RegistryInv, TypeOK
  <2> QED
    BY <2>1 DEF NameChange
<1>2. next \in Event
  BY <1>1
<1>3. rows \in Seq(SUBSET Row) /\ RowsNumbered
  BY DEF RegistryInv, TypeOK
<1>4. e # None => e \in DOMAIN rows
  BY ResolveKnown DEF RegistryInv
<1>5. e # None => Numbered(S) /\ Newest(Opened(S)).code = Newest(Opened(rows[e])).code
  <2> HIDE DEF next, e
  <2> QED
    BY <1>2, <1>3, <1>4, NameKeepsCode DEF RowsNumbered
<1> HIDE DEF next, e, S
<1>6. /\ rows' \in Seq(SUBSET Row) /\ DOMAIN rows' = DOMAIN rows
      /\ \A f \in DOMAIN rows : /\ Numbered(rows'[f])
                                /\ Newest(Opened(rows'[f])).code = Newest(Opened(rows[f])).code
  <2>1. CASE e = None
    BY <1>1, <1>3, <2>1 DEF RowsNumbered
  <2>2. CASE e # None
    <3>1. S \in SUBSET Row
      BY <1>5, <2>2 DEF Numbered
    <3>2. rows' = [rows EXCEPT ![e] = S] /\ e \in DOMAIN rows
      BY <1>1, <1>4, <2>2
    <3>3. rows' \in Seq(SUBSET Row) /\ DOMAIN rows' = DOMAIN rows
      BY <1>3, <3>1, <3>2
    <3>4. rows'[e] = S /\ \A f \in DOMAIN rows : f # e => rows'[f] = rows[f]
      BY <3>2
    <3> QED
      BY <1>3, <1>5, <2>2, <3>3, <3>4 DEF RowsNumbered
  <2> QED
    BY <2>1, <2>2
<1>7. /\ DOMAIN build' = {"listing", "events", "listed", "reported"}
      /\ build'.listing \in Seq(Instruments) /\ build'.events \in Seq(Event)
  <2>1. Tail(build.events) \in Seq(Event)
    BY <1>1
  <2>2. DOMAIN build = {"listing", "events", "listed", "reported"} /\ build.listing \in Seq(Instruments)
    BY DEF RegistryInv, TypeOK
  <2>3. CASE build' = NoBuild
    BY <2>3, NoBuildIs
  <2>4. CASE build' = [build EXCEPT !.events = Tail(@)]
    BY <2>1, <2>2, <2>4
  <2> QED
    BY <1>1, <2>3, <2>4
<1>8. TypeOK'
  BY <1>1, <1>6, <1>7 DEF RegistryInv, TypeOK
<1>9. (CodesApart /\ OwnersOne /\ EntriesKnown /\ EntriesEnded)'
  BY <1>1, <1>6, CodesFrame DEF RegistryInv
<1>10. (RowsNumbered /\ RowsCurrent)'
  BY <1>1, <1>6, RowsFrame DEF RegistryInv
<1> QED
  BY <1>8, <1>9, <1>10 DEF RegistryInv
-----------------------------------------------------------------------------
(* The invariant: registering an instrument *)

\* An instrument has an entity, which its code leads to, or it has its first code.
LEMMA FoundOrNew ==
  ASSUME TypeOK, CodesApart, OwnersOne, EntriesKnown, EntriesEnded, NEW i \in Instruments
  PROVE  LET e == Resolve(LastOf(coded[i]).code, None) IN
         /\ e # None => Owns(i, e) /\ e \in DOMAIN rows
         /\ e = None => /\ \A f : ~Owns(i, f)
                        /\ Len(coded[i]) = 1 /\ LastOf(coded[i]).code = FirstCode[i]
<1> DEFINE e == Resolve(LastOf(coded[i]).code, None)
<1>1. \A f : Owns(i, f) => e = f /\ f \in DOMAIN rows
  BY ResolveNow, OwnsKnown
<1>2. (\A f : ~Owns(i, f)) => e = None
  BY ResolveNow
<1>3. (\A f : ~Owns(i, f)) => Len(coded[i]) = 1 /\ LastOf(coded[i]).code = FirstCode[i]
  BY History DEF OwnersOne, LastOf
<1>4. \A f \in DOMAIN rows : f # None
  <2>1. \A f \in DOMAIN rows : f \in Nat
    BY DEF TypeOK
  <2> QED
    BY <2>1, RegistryAssumption
<1> HIDE DEF e
<1>5. (e # None => Owns(i, e) /\ e \in DOMAIN rows) /\ (e = None => \A f : ~Owns(i, f))
  BY <1>1, <1>2, <1>4
<1> QED
  BY <1>3, <1>5 DEF e

\* What the listing gives, and what of it is left.
LEMMA ListingIs ==
  ASSUME RegistryInv, Register
  PROVE  /\ Head(build.listing) \in Instruments
         /\ DOMAIN build' = {"listing", "events", "listed", "reported"}
         /\ build'.listing \in Seq(Instruments) /\ build'.events \in Seq(Event) \cup {None}
         /\ LastOf(named[Head(build.listing)]).name \in Names
         /\ LastOf(coded[Head(build.listing)]).code \in Codes
<1> DEFINE i == Head(build.listing)
           Named == [name : Names, from : 1..LastDay]
           Code == [code : Codes, from : Days]
<1>1. /\ build.listing \in Seq(Instruments) /\ build.listing # << >>
      /\ build.events \in Seq(Event) \cup {None}
      /\ DOMAIN build = {"listing", "events", "listed", "reported"}
      /\ build' = [build EXCEPT !.listing = Tail(@), !.listed[i] = named[i]]
  BY DEF RegistryInv, TypeOK, Register
<1>2. i \in Instruments /\ Tail(build.listing) \in Seq(Instruments)
  BY <1>1
<1>3. /\ DOMAIN build' = DOMAIN build /\ build'.listing = Tail(build.listing)
      /\ build'.events = build.events
  BY <1>1
<1>4. named[i] \in Seq(Named) /\ named[i] # << >>
  BY <1>2 DEF RegistryInv, TypeOK
<1>5. coded[i] \in Seq(Code) /\ coded[i] # << >>
  BY <1>2 DEF RegistryInv, TypeOK, CodesApart
<1>6. LastOf(named[i]) \in Named
  <2> HIDE DEF Named, i
  <2> QED
    BY <1>4 DEF LastOf
<1>7. LastOf(coded[i]) \in Code
  <2> HIDE DEF Code, i
  <2> QED
    BY <1>5 DEF LastOf
<1> QED
  BY <1>1, <1>2, <1>3, <1>6, <1>7

\* A known instrument may get another row, with the code of its current one.
LEMMA RefreshKeeps ==
  ASSUME RegistryInv, Register, Resolve(LastOf(coded[Head(build.listing)]).code, None) # None
  PROVE  RegistryInv'
<1> DEFINE i == Head(build.listing)
           e == Resolve(LastOf(coded[i]).code, None)
           S == rows[e]
           r == [Current(e) EXCEPT !.name = LastOf(named[i]).name]
<1>1. rows' = rows \/ rows' = [rows EXCEPT ![e] = Appended(S, r)]
  BY DEF Register, Refresh
<1>2. UNCHANGED <<named, coded, codes>>
  BY DEF Register, Refresh
<1>3. e \in DOMAIN rows
  BY ListingIs, FoundOrNew DEF RegistryInv
<1>4. rows \in Seq(SUBSET Row) /\ \A f \in DOMAIN rows : Numbered(rows[f])
  BY DEF RegistryInv, TypeOK, RowsNumbered
<1>5. r \in Row /\ r.code = Newest(Opened(S)).code
  <2>1. Current(e) \in Row /\ Current(e) = Newest(Opened(S))
    BY <1>3, <1>4, NewestOpen DEF Current
  <2>2. LastOf(named[i]).name \in Names
    BY ListingIs
  <2> HIDE DEF e
  <2> QED
    BY <2>1, <2>2 DEF Row
<1>6. /\ Numbered(Appended(S, r)) /\ Newest(Opened(Appended(S, r))).code = Newest(Opened(S)).code
      /\ Appended(S, r) \in SUBSET Row
  <2> HIDE DEF r, e
  <2> QED
    BY <1>3, <1>4, <1>5, CodeKept DEF Numbered
<1>7. /\ rows' \in Seq(SUBSET Row) /\ DOMAIN rows' = DOMAIN rows
      /\ \A f \in DOMAIN rows : /\ Numbered(rows'[f])
                                /\ Newest(Opened(rows'[f])).code = Newest(Opened(rows[f])).code
  <2> DEFINE A == Appended(S, r)
  <2>1. CASE rows' = rows
    BY <1>4, <2>1
  <2>2. CASE rows' = [rows EXCEPT ![e] = A]
    <3> HIDE DEF A, e
    <3>1. rows' \in Seq(SUBSET Row) /\ DOMAIN rows' = DOMAIN rows
      BY <1>3, <1>4, <1>6, <2>2 DEF A
    <3>2. rows'[e] = A /\ \A f \in DOMAIN rows : f # e => rows'[f] = rows[f]
      BY <1>3, <2>2
    <3> QED
      BY <1>4, <1>6, <3>1, <3>2 DEF A
  <2> QED
    BY <1>1, <2>1, <2>2
<1>8. TypeOK'
  BY <1>2, <1>7, ListingIs DEF RegistryInv, TypeOK
<1>9. (CodesApart /\ OwnersOne /\ EntriesKnown /\ EntriesEnded)'
  BY <1>2, <1>7, CodesFrame DEF RegistryInv
<1>10. (RowsNumbered /\ RowsCurrent)'
  BY <1>2, <1>7, RowsFrame DEF RegistryInv
<1> QED
  BY <1>8, <1>9, <1>10 DEF RegistryInv

\* A new instrument gets an entity with one row and one entry, under its first code.
LEMMA CreateKeeps ==
  ASSUME RegistryInv, Register, Resolve(LastOf(coded[Head(build.listing)]).code, None) = None
  PROVE  RegistryInv'
<1>0. PICK i, E, N : i = Head(build.listing) /\ E = Len(rows) + 1 /\ N = Len(codes) + 1
  OBVIOUS
<1> DEFINE c == FirstCode[i]
           x == [entity |-> E, code |-> c, from |-> 0, to |-> None, version |-> 1]
           r == [name |-> LastOf(named[i]).name, code |-> c, from |-> 0, to |-> None, version |-> 1]
<1>1. /\ i \in Instruments /\ (\A f : ~Owns(i, f)) /\ Len(coded[i]) = 1
      /\ LastOf(coded[i]).code = c /\ c \in Codes /\ LastOf(named[i]).name \in Names
  BY <1>0, ListingIs, FoundOrNew DEF RegistryInv
<1>2. rows \in Seq(SUBSET Row) /\ codes \in Seq(Entry) /\ E \in Nat /\ N \in Nat /\ 0 \in Days
  <2>1. rows \in Seq(SUBSET Row) /\ codes \in Seq(Entry)
    BY DEF RegistryInv, TypeOK
  <2> QED
    BY <1>0, <2>1, RegistryAssumption DEF Days
<1>3. /\ codes' = Append(codes, x) /\ rows' = Append(rows, {r})
      /\ UNCHANGED <<named, coded>>
  BY <1>0, <1>1 DEF Register, Create
<1>4. x \in Entry /\ r \in Row
  BY <1>1, <1>2 DEF Entry, Row
<1>5. /\ x.entity = E /\ x.code = c /\ x.from = 0 /\ x.to = None /\ x.version = 1
      /\ r.code = c /\ r.to = None /\ r.version = 1
  OBVIOUS
<1> HIDE DEF x, r
<1>6. /\ codes' \in Seq(Entry) /\ DOMAIN codes' = DOMAIN codes \cup {N} /\ N \notin DOMAIN codes
      /\ codes'[N] = x /\ \A k \in DOMAIN codes : codes'[k] = codes[k] /\ k \in Nat
  BY <1>0, <1>2, <1>3, <1>4
<1>7. /\ rows' \in Seq(SUBSET Row) /\ DOMAIN rows' = DOMAIN rows \cup {E} /\ E \notin DOMAIN rows
      /\ rows'[E] = {r} /\ \A e \in DOMAIN rows : rows'[e] = rows[e]
  <2>1. {r} \in SUBSET Row
    BY <1>4
  <2> DEFINE T == SUBSET Row
             R == {r}
  <2>2. R \in T /\ rows \in Seq(T) /\ rows' = Append(rows, R)
    BY <1>2, <1>3, <2>1
  <2> HIDE DEF T, R
  <2>3. /\ rows' \in Seq(T) /\ DOMAIN rows' = DOMAIN rows \cup {E} /\ E \notin DOMAIN rows
        /\ rows'[E] = R /\ \A e \in DOMAIN rows : rows'[e] = rows[e]
    BY <1>0, <2>2
  <2> QED
    BY <2>3 DEF T, R
<1>8. \A k \in DOMAIN codes : codes[k].entity \in DOMAIN rows /\ codes[k].entity # E
  BY <1>7 DEF RegistryInv, EntriesKnown
<1>9. \A j \in Instruments : \A f : Owns(j, f)' <=> Owns(j, f) \/ (j = i /\ f = E)
  <2> SUFFICES ASSUME NEW j \in Instruments, NEW f
               PROVE  Owns(j, f)' <=> Owns(j, f) \/ (j = i /\ f = E)
    OBVIOUS
  <2>1. FirstCode[j] = c => j = i
    BY <1>1, RegistryAssumption DEF IsInjective
  <2> QED
    BY <1>5, <1>6, <2>1 DEF Owns
<1>10. \A j, f : Owns(j, f) => f \in DOMAIN rows /\ f # E
  BY <1>7, OwnsKnown DEF RegistryInv
<1>11. /\ \A e, h : Entries(e, h) \subseteq Entries(e, h)'
       /\ \A h : \A e \in DOMAIN rows : Entries(e, h)' = Entries(e, h)
       /\ \A h : h.code = c /\ h.from = 0 => Entries(E, h)' = {N}
  <2>1. \A e, h : Entries(e, h) \subseteq Entries(e, h)'
    BY <1>6 DEF Entries
  <2>2. ASSUME NEW h, NEW e \in DOMAIN rows PROVE Entries(e, h)' = Entries(e, h)
    <3>1. codes'[N].entity # e
      BY <1>5, <1>6, <1>7
    <3> QED
      BY <1>6, <3>1 DEF Entries
  <2>3. ASSUME NEW h, h.code = c, h.from = 0 PROVE Entries(E, h)' = {N}
    BY <1>5, <1>6, <1>8, <2>3 DEF Entries
  <2> QED
    BY <2>1, <2>2, <2>3
<1>12. TypeOK'
  BY <1>3, <1>6, <1>7, ListingIs DEF RegistryInv, TypeOK
<1>13. CodesApart'
  <2>1. coded' = coded /\ \A j, d : CodeOn(j, d)' = CodeOn(j, d)
    BY <1>3 DEF CodeOn
  <2> QED
    BY <2>1 DEF RegistryInv, CodesApart
<1>14. OwnersOne'
  <2>1. ASSUME NEW j \in Instruments, NEW k \in Instruments, NEW e, NEW f, Owns(j, e)', Owns(k, f)'
        PROVE  j = k <=> e = f
    <3>1. CASE Owns(j, e) /\ Owns(k, f)
      BY <1>10, <3>1 DEF RegistryInv, OwnersOne
    <3>2. CASE ~Owns(j, e)
      BY <1>1, <1>9, <1>10, <2>1, <3>2
    <3>3. CASE ~Owns(k, f)
      BY <1>1, <1>9, <1>10, <2>1, <3>3
    <3> QED
      BY <3>1, <3>2, <3>3
  <2>2. ASSUME NEW j \in Instruments, \A e \in DOMAIN rows' : ~Owns(j, e)' PROVE Len(coded[j]) = 1
    <3>1. \A e \in DOMAIN rows : ~Owns(j, e)
      BY <1>7, <1>9, <2>2
    <3> QED
      BY <3>1 DEF RegistryInv, OwnersOne
  <2> QED
    BY <1>3, <2>1, <2>2 DEF OwnersOne
<1>15. coded[i] # << >> /\ DOMAIN coded[i] = {1} /\ coded[i][1].code = c /\ coded[i][1].from = 0
  <2>1. DOMAIN coded[i] = 1..Len(coded[i]) /\ coded[i][1].code = c /\ coded[i][1].from = 0
    BY <1>1, History DEF RegistryInv
  <2> QED
    BY <1>1, <2>1
<1>16. EntriesKnown'
  <2>1. ASSUME NEW k \in DOMAIN codes'
        PROVE  /\ codes'[k].version = 1 <=> codes'[k].to = None
               /\ \E e \in DOMAIN rows' : \E j \in Instruments :
                    /\ e = codes'[k].entity /\ Owns(j, e)'
                    /\ \E n \in DOMAIN coded[j] : k \in Entries(e, coded[j][n])'
    <3>1. CASE k \in DOMAIN codes
      <4>1. PICK e : e = codes[k].entity
        OBVIOUS
      <4>2. PICK j \in Instruments :
              Owns(j, e) /\ \E n \in DOMAIN coded[j] : k \in Entries(e, coded[j][n])
        BY <3>1, <4>1 DEF RegistryInv, EntriesKnown
      <4>3. PICK n \in DOMAIN coded[j] : k \in Entries(e, coded[j][n])
        BY <4>2
      <4>4. k \in Entries(e, coded[j][n])'
        BY <1>3, <1>11, <4>3
      <4>5. (codes[k].version = 1 <=> codes[k].to = None) /\ e \in DOMAIN rows
        BY <3>1, <4>1 DEF RegistryInv, EntriesKnown
      <4>6. Owns(j, e)' /\ codes'[k] = codes[k] /\ e \in DOMAIN rows'
        BY <1>6, <1>7, <1>9, <3>1, <4>2, <4>5
      <4> QED
        BY <4>1, <4>4, <4>5, <4>6
    <3>2. CASE k = N
      <4>1. codes'[k] = x /\ E \in DOMAIN rows' /\ Owns(i, E)'
        BY <1>1, <1>6, <1>7, <1>9, <3>2
      <4>2. k \in Entries(E, coded[i][1])'
        <5>1. Entries(E, coded[i][1])' = {N}
          BY <1>3, <1>11, <1>15
        <5> QED
          BY <3>2, <5>1
      <4> QED
        BY <1>1, <1>5, <1>15, <4>1, <4>2
    <3> QED
      BY <1>6, <3>1, <3>2
  <2> QED
    BY <1>3, <2>1 DEF EntriesKnown
<1>17. EntriesEnded'
  <2>1. ASSUME NEW j \in Instruments, NEW e, Owns(j, e), NEW n \in DOMAIN coded[j]
        PROVE  EndedAt(j, e, n)'
    <3>1. e \in DOMAIN rows
      BY <1>10, <2>1
    <3>2. PICK K : K = Entries(e, coded[j][n])
      OBVIOUS
    <3>3. Entries(e, coded[j][n])' = K /\ \A k \in K : codes'[k] = codes[k]
      BY <1>3, <1>6, <1>11, <3>1, <3>2 DEF Entries
    <3>4. {k \in K : codes'[k].version = 2} = {k \in K : codes[k].version = 2}
      BY <3>3
    <3>5. EndedAt(j, e, n)
      BY <2>1, <3>1 DEF RegistryInv, EntriesEnded
    <3> QED
      BY <1>3, <3>2, <3>3, <3>4, <3>5 DEF EndedAt
  <2>2. EndedAt(i, E, 1)'
    <3>1. Entries(E, coded[i][1])' = {N}
      BY <1>3, <1>11, <1>15
    <3>2. {k \in {N} : codes'[k].version = 2} = {} /\ {N} # {}
      BY <1>5, <1>6
    <3>3. Len(coded'[i]) = 1 /\ ~(1 < 1)
      BY <1>1, <1>3
    <3> QED
      BY <3>1, <3>2, <3>3 DEF EndedAt
  <2>3. ASSUME NEW j \in Instruments, NEW e \in DOMAIN rows', Owns(j, e)', NEW n \in DOMAIN coded'[j]
        PROVE  EndedAt(j, e, n)'
    BY <1>3, <1>9, <1>15, <2>1, <2>2, <2>3
  <2> QED
    BY <2>3 DEF EntriesEnded
<1>18. Numbered({r}) /\ Newest(Opened({r})) = r
  <2>1. IsFiniteSet({r}) /\ Cardinality({r}) = 1 /\ Opened({r}) = {r}
    BY <1>5, FS_Singleton DEF Opened
  <2>2. Numbered({r})
    BY <1>4, <1>5, <2>1 DEF Numbered
  <2>3. Newest(Opened({r})) \in Opened({r})
    BY <2>2, NewestOpen DEF IsNewest
  <2> QED
    BY <2>1, <2>2, <2>3
<1>19. RowsNumbered'
  BY <1>7, <1>18 DEF RegistryInv, RowsNumbered
<1>20. RowsCurrent'
  <2>1. ASSUME NEW j \in Instruments, NEW e \in DOMAIN rows', Owns(j, e)'
        PROVE  Newest(Opened(rows'[e])).code = LastOf(coded[j]).code
    <3>1. CASE Owns(j, e)
      <4>1. e \in DOMAIN rows /\ rows'[e] = rows[e]
        BY <1>7, <1>10, <3>1
      <4>2. Current(e).code = LastOf(coded[j]).code
        BY <3>1, <4>1 DEF RegistryInv, RowsCurrent
      <4> QED
        BY <4>1, <4>2 DEF Current
    <3>2. CASE ~Owns(j, e)
      BY <1>1, <1>5, <1>7, <1>9, <1>18, <2>1, <3>2
    <3> QED
      BY <3>1, <3>2
  <2> QED
    BY <1>3, <2>1 DEF RowsCurrent, Current, LastOf
<1> QED
  BY <1>12, <1>13, <1>14, <1>16, <1>17, <1>19, <1>20 DEF RegistryInv
-----------------------------------------------------------------------------
(* The invariant: another code *)

\* One more code, from a day on.
LEMMA OnDayAppended ==
  ASSUME NEW h \in Seq([code : Codes, from : Days]), Len(h) # 0, h[1].from = 0,
         NEW x \in [code : Codes, from : Days], NEW d \in Days
  PROVE  /\ x.from <= d => OnDay(Append(h, x), d) = x
         /\ ~(x.from <= d) => OnDay(Append(h, x), d) = OnDay(h, d)
<1> DEFINE Code == [code : Codes, from : Days]
           g == Append(h, x)
           old == {n \in DOMAIN h : h[n].from <= d}
           new == {n \in DOMAIN g : g[n].from <= d}
           IsLast(n, T) == n \in T /\ \A m \in T : m <= n
<1>1. /\ Len(h) \in Nat /\ DOMAIN h = 1..Len(h) /\ DOMAIN g = 1..(Len(h) + 1)
      /\ g[Len(h) + 1] = x /\ \A n \in 1..Len(h) : g[n] = h[n]
  <2>1. h \in Seq(Code) /\ x \in Code
    OBVIOUS
  <2> HIDE DEF Code
  <2> QED
    BY <2>1
<1> HIDE DEF g
<1>2. OnDay(g, d) = g[CHOOSE n \in new : IsLast(n, new)] /\ OnDay(h, d) = h[CHOOSE n \in old : IsLast(n, old)]
  BY DEF OnDay
<1>3. \A T : \A n \in T : T \in SUBSET Nat /\ IsLast(n, T) => (CHOOSE m \in T : IsLast(m, T)) = n
  <2> SUFFICES ASSUME NEW T \in SUBSET Nat, NEW n \in T, IsLast(n, T)
               PROVE  (CHOOSE m \in T : IsLast(m, T)) = n
    OBVIOUS
  <2> DEFINE o == CHOOSE m \in T : IsLast(m, T)
  <2>1. o \in T /\ IsLast(o, T)
    <3> HIDE DEF IsLast
    <3> QED
      OBVIOUS
  <2>2. o <= n /\ n <= o /\ o \in Nat /\ n \in Nat
    BY <2>1
  <2> HIDE DEF o
  <2>3. o = n
    BY <2>2
  <2> QED
    BY <2>3 DEF o
<1>4. CASE x.from <= d
  <2>1. new \in SUBSET Nat /\ Len(h) + 1 \in new /\ IsLast(Len(h) + 1, new)
    BY <1>1, <1>4
  <2>2. (CHOOSE n \in new : IsLast(n, new)) = Len(h) + 1
    <3> HIDE DEF new, IsLast
    <3> QED
      BY <1>3, <2>1
  <2> QED
    BY <1>1, <1>2, <1>4, <2>2 DEF g
<1>5. CASE ~(x.from <= d)
  <2>1. new = old
    BY <1>1, <1>5
  <2>2. d \in Nat /\ 0 <= d
    BY RegistryAssumption DEF Days
  <2>3. old # {} /\ \A n \in old : n \in Nat /\ n <= Len(h)
    <3>1. 1 \in old
      BY <1>1, <2>2
    <3> QED
      BY <1>1, <3>1
  <2>4. PICK n \in old : \A m \in old : m <= n
    <3> HIDE DEF old
    <3> QED
      BY <1>1, <2>3, GreatestNumber
  <2>5. IsLast(n, old) /\ old \in SUBSET Nat
    BY <1>1, <2>4
  <2>6. (CHOOSE m \in old : IsLast(m, old)) = n
    <3> HIDE DEF old, IsLast
    <3> QED
      BY <1>3, <2>4, <2>5
  <2>7. g[n] = h[n]
    BY <1>1
  <2> QED
    BY <1>2, <1>5, <2>1, <2>6, <2>7 DEF g
<1> QED
  BY <1>4, <1>5

\* The entries that a change to code c on a day adds for entity e: N for the new
\* code, and closed copies of the open entries of e.
CodesGrow(e, c, day, N) ==
  LET added == DOMAIN codes' \ DOMAIN codes IN
  /\ DOMAIN codes \subseteq DOMAIN codes' /\ N \in added
  /\ codes'[N] = [entity |-> e, code |-> c, from |-> day, to |-> None, version |-> 1]
  /\ \A k \in DOMAIN codes : codes'[k] = codes[k] /\ \A l \in added : k < l
  /\ \A k \in added \ {N} :
       /\ codes'[k].to = day - 1 /\ codes'[k].version = 2
       /\ \E l \in DOMAIN codes : codes[l].entity = e /\ SameKey(codes'[k], codes[l])
  /\ \A l \in DOMAIN codes : codes[l].entity = e /\ codes[l].to = None =>
       \E k \in added \ {N} : SameKey(codes'[k], codes[l])

\* What a change of code does to the code history.
LEMMA ChangeGrows ==
  ASSUME RegistryInv, NEW i \in Instruments, NEW c \in Codes, NEW day \in Days,
         CodeChange(i, c, day)
  PROVE  \E e \in DOMAIN rows : \E N :
           /\ e = Resolve(LastOf(coded[i]).code, None) /\ Owns(i, e)
           /\ codes' \in Seq(Entry) /\ CodesGrow(e, c, day, N)
<1>0. PICK e, N : /\ e = Resolve(LastOf(coded[i]).code, None)
                  /\ N = Len(codes') /\ e # None
  BY DEF CodeChange
<1>1. e \in DOMAIN rows /\ Owns(i, e) /\ e \in Nat
  <2>1. e \in DOMAIN rows /\ Owns(i, e)
    BY <1>0, FoundOrNew DEF RegistryInv
  <2> QED
    BY <2>1 DEF RegistryInv, TypeOK
<1> DEFINE O == {h \in Range(codes) : h.entity = e /\ h.to = None}
           open == SetToSeq(O)
           copy(h) == [h EXCEPT !.to = day - 1, !.version = @ + 1]
           Z == [k \in DOMAIN open |-> copy(open[k])]
           x == [entity |-> e, code |-> c, from |-> day, to |-> None, version |-> 1]
<1>2. codes \in Seq(Entry) /\ codes' = codes \o Z \o <<x>>
  BY <1>0 DEF RegistryInv, TypeOK, CodeChange
<1>3. day \in Nat /\ day - 1 \in Days
  <2>1. LastOf(coded[i]).from \in Nat
    BY History DEF RegistryInv, LastOf
  <2> QED
    <3>1. day > LastOf(coded[i]).from
      BY DEF CodeChange
    <3> QED
      BY <2>1, <3>1, RegistryAssumption DEF Days
<1>4. open \in Seq(O) /\ \A h \in O : \E k \in DOMAIN open : open[k] = h
  <2>1. IsFiniteSet(Range(codes))
    BY <1>2, FiniteRange
  <2>2. O \in SUBSET Range(codes)
    OBVIOUS
  <2>3. IsFiniteSet(O)
    <3> HIDE DEF O
    <3> QED
      BY <2>1, <2>2, FS_Subset
  <2> HIDE DEF O
  <2> QED
    BY <2>3, SetToSeqIs
<1>5. \A h \in O : \E l \in DOMAIN codes : h = codes[l] /\ codes[l].entity = e /\ codes[l].to = None
  BY DEF Range
<1>6. \A l \in DOMAIN codes : codes[l].entity = e /\ codes[l].to = None => codes[l] \in O
  BY DEF Range
<1>7. ASSUME NEW h \in O
      PROVE  /\ copy(h) \in Entry /\ copy(h).to = day - 1 /\ copy(h).version = 2
             /\ SameKey(copy(h), h)
  <2>1. h \in Entry /\ h.version = 1
    <3>1. PICK l \in DOMAIN codes : h = codes[l] /\ codes[l].to = None
      BY <1>5
    <3> QED
      BY <3>1, EntryFacts DEF RegistryInv, EntriesKnown
  <2> HIDE DEF O
  <2> QED
    <3>1. h \in [entity : Nat, code : Codes, from : Days, to : Days \cup {None}, version : {1, 2}]
      BY <2>1 DEF Entry
    <3>2. copy(h) \in [entity : Nat, code : Codes, from : Days, to : Days \cup {None}, version : {1, 2}]
      <4>1. PICK u \in Days, v \in {1, 2} : u = day - 1 /\ v = h.version + 1
        BY <1>3, <2>1
      <4>2. copy(h) = [h EXCEPT !.to = u, !.version = v]
        BY <4>1
      <4> HIDE DEF copy
      <4> QED
        BY <3>1, <4>2
    <3>3. /\ copy(h).to = day - 1 /\ copy(h).version = 2
          /\ copy(h).entity = h.entity /\ copy(h).code = h.code /\ copy(h).from = h.from
      BY <1>3, <2>1, <3>1
    <3> HIDE DEF copy
    <3> QED
      BY <3>2, <3>3 DEF Entry, SameKey
<1>8. x \in Entry
  BY <1>1 DEF Entry
<1> HIDE DEF O, copy, x
<1>9. /\ Z \in Seq(Entry) /\ DOMAIN Z = DOMAIN open
      /\ \A k \in DOMAIN Z : Z[k] = copy(open[k]) /\ open[k] \in O
  <2>1. DOMAIN open = 1..Len(open) /\ Len(open) \in Nat /\ \A k \in DOMAIN open : open[k] \in O
    BY <1>4
  <2> HIDE DEF open
  <2> QED
    BY <1>7, <2>1
<1> HIDE DEF Z, open
<1>10. /\ codes' \in Seq(Entry) /\ DOMAIN codes' = 1..(Len(codes) + Len(Z) + 1)
       /\ Len(codes) \in Nat /\ Len(Z) \in Nat
       /\ DOMAIN codes = 1..Len(codes) /\ DOMAIN Z = 1..Len(Z) /\ N = Len(codes) + Len(Z) + 1
       /\ codes'[N] = x
       /\ \A k \in DOMAIN codes : codes'[k] = codes[k]
       /\ \A k \in DOMAIN Z : codes'[Len(codes) + k] = Z[k]
  BY <1>0, <1>2, <1>8, <1>9
<1>11. ASSUME NEW k \in (DOMAIN codes' \ DOMAIN codes) \ {N}
       PROVE  /\ codes'[k].to = day - 1 /\ codes'[k].version = 2
              /\ \E l \in DOMAIN codes : codes[l].entity = e /\ SameKey(codes'[k], codes[l])
  <2>1. PICK m \in DOMAIN Z : k = Len(codes) + m
    <3>1. k - Len(codes) \in DOMAIN Z /\ k = Len(codes) + (k - Len(codes))
      BY <1>10
    <3> QED
      BY <3>1
  <2>2. codes'[k] = copy(open[m]) /\ open[m] \in O
    BY <1>9, <1>10, <2>1
  <2> QED
    BY <1>5, <1>7, <2>2
<1>12. ASSUME NEW l \in DOMAIN codes, codes[l].entity = e, codes[l].to = None
       PROVE  \E k \in (DOMAIN codes' \ DOMAIN codes) \ {N} : SameKey(codes'[k], codes[l])
  <2>1. codes[l] \in O
    BY <1>6, <1>12
  <2>2. PICK m \in DOMAIN Z : open[m] = codes[l]
    BY <1>4, <1>9, <2>1
  <2>3. codes'[Len(codes) + m] = copy(codes[l])
    BY <1>9, <1>10, <2>2
  <2>4. Len(codes) + m \in (DOMAIN codes' \ DOMAIN codes) \ {N}
    BY <1>10
  <2> QED
    BY <1>7, <2>1, <2>3, <2>4
<1>13. CodesGrow(e, c, day, N)
  <2>1. DOMAIN codes \subseteq DOMAIN codes' /\ N \in DOMAIN codes' \ DOMAIN codes
    BY <1>10
  <2>2. \A k \in DOMAIN codes : \A l \in DOMAIN codes' \ DOMAIN codes : k < l
    BY <1>10
  <2> QED
    BY <1>10, <1>11, <1>12, <2>1, <2>2 DEF CodesGrow, x
<1> QED
  BY <1>0, <1>1, <1>10, <1>13

\* What the steps below need of a change: instrument i, which owns e, has code c
\* from a day on, after all its other codes, and nobody else has it then.
Change(i, c, day, e, N) ==
  /\ i \in Instruments /\ c \in Codes /\ day \in Days
  /\ e \in DOMAIN rows /\ Owns(i, e) /\ CodesGrow(e, c, day, N) /\ codes' \in Seq(Entry)
  /\ coded' = [coded EXCEPT ![i] = Append(@, [code |-> c, from |-> day])]
  /\ day > LastOf(coded[i]).from
  /\ \A j \in Instruments : \A d \in day..LastDay : CodeOn(j, d) # c
  /\ DOMAIN rows' = DOMAIN rows

\* The codes of instrument i, one longer.
CodedGrows(i, c, day) ==
  /\ Len(coded[i]) \in Nat \ {0} /\ DOMAIN coded[i] = 1..Len(coded[i])
  /\ coded' \in [Instruments -> Seq([code : Codes, from : Days])]
  /\ \A j \in Instruments : j # i => coded'[j] = coded[j]
  /\ Len(coded'[i]) = Len(coded[i]) + 1 /\ DOMAIN coded'[i] = 1..(Len(coded[i]) + 1)
  /\ coded'[i][Len(coded[i]) + 1] = [code |-> c, from |-> day]
  /\ \A n \in DOMAIN coded[i] : coded'[i][n] = coded[i][n] /\ coded[i][n].from < day
  /\ day \in Nat /\ day > 0

LEMMA ChangedCodes ==
  ASSUME RegistryInv, NEW i, NEW c, NEW day, NEW e, NEW N, Change(i, c, day, e, N)
  PROVE  CodedGrows(i, c, day)
<1> DEFINE Code == [code : Codes, from : Days]
           x == [code |-> c, from |-> day]
           h == coded[i]
<1>1. /\ i \in Instruments /\ c \in Codes /\ day \in Days
      /\ coded' = [coded EXCEPT ![i] = Append(@, x)] /\ day > LastOf(h).from
  BY DEF Change
<1>2. coded \in [Instruments -> Seq(Code)] /\ x \in Code /\ h \in Seq(Code)
  BY <1>1 DEF RegistryInv, TypeOK
<1>3. /\ Len(h) \in Nat \ {0} /\ DOMAIN h = 1..Len(h)
      /\ \A n \in DOMAIN h : h[n].from \in Nat
      /\ \A m, n \in DOMAIN h : m < n => h[m].from < h[n].from
  BY <1>1, History DEF RegistryInv
<1>4. day \in Nat /\ \A n \in DOMAIN h : h[n].from < day
  <2>1. day \in Nat /\ h[Len(h)].from < day /\ Len(h) \in DOMAIN h /\ h[Len(h)].from \in Nat
    BY <1>1, <1>3, RegistryAssumption DEF LastOf, Days
  <2>2. ASSUME NEW n \in DOMAIN h PROVE h[n].from < day
    <3>1. n = Len(h) \/ n < Len(h)
      BY <1>3
    <3>2. n < Len(h) => h[n].from < h[Len(h)].from
      BY <1>3, <2>1
    <3>3. h[n].from \in Nat
      BY <1>3
    <3> HIDE DEF h
    <3> QED
      BY <2>1, <3>1, <3>2, <3>3
  <2> QED
    BY <2>1, <2>2
<1>5. day > 0
  <2>1. 1 \in DOMAIN h /\ h[1].from \in Nat /\ h[1].from < day
    BY <1>3, <1>4
  <2> QED
    BY <1>4, <2>1
<1> HIDE DEF Code, x
<1>6. /\ coded' \in [Instruments -> Seq(Code)]
      /\ \A j \in Instruments : j # i => coded'[j] = coded[j]
      /\ coded'[i] = Append(h, x)
  BY <1>1, <1>2
<1>7. /\ Len(Append(h, x)) = Len(h) + 1 /\ DOMAIN Append(h, x) = 1..(Len(h) + 1)
      /\ Append(h, x)[Len(h) + 1] = x
      /\ \A n \in DOMAIN h : Append(h, x)[n] = h[n]
  <2> HIDE DEF h
  <2> QED
    BY <1>2, <1>3
<1> QED
  BY <1>3, <1>4, <1>5, <1>6, <1>7 DEF Code, x, CodedGrows

\* The entity of an instrument stays its entity.
LEMMA ChangeOwns ==
  ASSUME RegistryInv, NEW i, NEW c, NEW day, NEW e, NEW N, Change(i, c, day, e, N), NEW j, NEW f
  PROVE  Owns(j, f)' <=> Owns(j, f)
<1>1. CodesGrow(e, c, day, N) /\ day # 0
  <2>1. CodedGrows(i, c, day)
    BY ChangedCodes
  <2> QED
    BY <2>1 DEF Change, CodedGrows
<1>2. ASSUME Owns(j, f) PROVE Owns(j, f)'
  BY <1>1, <1>2 DEF Owns, CodesGrow
<1>3. ASSUME Owns(j, f)' PROVE Owns(j, f)
  <2>1. PICK k \in DOMAIN codes' :
          codes'[k].entity = f /\ codes'[k].from = 0 /\ codes'[k].code = FirstCode[j]
    BY <1>3 DEF Owns
  <2>2. CASE k \in DOMAIN codes
    BY <1>1, <2>1, <2>2 DEF Owns, CodesGrow
  <2>3. CASE k \notin DOMAIN codes
    <3>1. k # N
      BY <1>1, <2>1 DEF CodesGrow
    <3>2. PICK l \in DOMAIN codes : SameKey(codes'[k], codes[l])
      BY <1>1, <2>3, <3>1 DEF CodesGrow
    <3> QED
      BY <2>1, <3>2 DEF Owns, SameKey
  <2> QED
    BY <2>2, <2>3
<1> QED
  BY <1>2, <1>3

LEMMA ChangeApart ==
  ASSUME RegistryInv, NEW i, NEW c, NEW day, NEW e, NEW N, Change(i, c, day, e, N)
  PROVE  CodesApart'
<1>1. /\ Len(coded[i]) \in Nat \ {0} /\ DOMAIN coded[i] = 1..Len(coded[i])
      /\ \A j \in Instruments : j # i => coded'[j] = coded[j]
      /\ Len(coded'[i]) = Len(coded[i]) + 1 /\ DOMAIN coded'[i] = 1..(Len(coded[i]) + 1)
      /\ coded'[i][Len(coded[i]) + 1] = [code |-> c, from |-> day]
      /\ \A n \in DOMAIN coded[i] : coded'[i][n] = coded[i][n] /\ coded[i][n].from < day
  <2>1. CodedGrows(i, c, day)
    BY ChangedCodes
  <2> QED
    BY <2>1 DEF CodedGrows
<1>2. i \in Instruments /\ c \in Codes /\ day \in Days
      /\ \A j \in Instruments : \A d \in day..LastDay : CodeOn(j, d) # c
  BY DEF Change
<1>3. ASSUME NEW j \in Instruments
      PROVE  /\ coded'[j] # << >> /\ coded'[j][1] = [code |-> FirstCode[j], from |-> 0]
             /\ \A m, n \in DOMAIN coded'[j] : m < n => coded'[j][m].from < coded'[j][n].from
  <2>1. /\ coded[j] # << >> /\ coded[j][1] = [code |-> FirstCode[j], from |-> 0]
        /\ \A m, n \in DOMAIN coded[j] : m < n => coded[j][m].from < coded[j][n].from
    BY DEF RegistryInv, CodesApart
  <2>2. CASE j # i
    BY <1>1, <2>1, <2>2
  <2>3. CASE j = i
    <3>1. DOMAIN coded'[i] # {} /\ coded'[i][1] = coded[i][1]
      BY <1>1
    <3>2. coded'[i] # << >>
      BY <3>1
    <3>3. ASSUME NEW m \in DOMAIN coded'[i], NEW n \in DOMAIN coded'[i], m < n
          PROVE  coded'[i][m].from < coded'[i][n].from
      <4>1. m \in DOMAIN coded[i]
        BY <1>1, <3>3
      <4>2. CASE n \in DOMAIN coded[i]
        BY <1>1, <2>1, <2>3, <3>3, <4>1, <4>2
      <4>3. CASE n = Len(coded[i]) + 1
        BY <1>1, <4>1, <4>3
      <4> QED
        BY <1>1, <4>2, <4>3
    <3> QED
      BY <2>1, <2>3, <3>1, <3>2, <3>3
  <2> QED
    BY <2>2, <2>3
<1>4. ASSUME NEW j \in Instruments, NEW d \in Days
      PROVE  CodeOn(j, d)' = IF j = i /\ day <= d THEN c ELSE CodeOn(j, d)
  <2>1. CASE j # i
    BY <1>1, <2>1 DEF CodeOn
  <2>2. CASE j = i
    <3> DEFINE h == coded[i]
               x == [code |-> c, from |-> day]
    <3>1. /\ h \in Seq([code : Codes, from : Days]) /\ Len(h) # 0 /\ h[1].from = 0
          /\ x \in [code : Codes, from : Days]
      BY <1>1, <1>2, History DEF RegistryInv
    <3>2. coded'[i] = Append(h, x)
      BY <1>2 DEF Change, RegistryInv, TypeOK
    <3>3. /\ day <= d => OnDay(Append(h, x), d) = x
          /\ ~(day <= d) => OnDay(Append(h, x), d) = OnDay(h, d)
      <4>1. x.from = day
        OBVIOUS
      <4> HIDE DEF h, x
      <4> QED
        BY <3>1, <4>1, OnDayAppended
    <3>4. CodeOn(i, d)' = OnDay(Append(h, x), d).code
      BY <3>2 DEF CodeOn
    <3> QED
      BY <2>2, <3>3, <3>4 DEF CodeOn
  <2> QED
    BY <2>1, <2>2
<1>5. ASSUME NEW j \in Instruments, NEW k \in Instruments, NEW d \in Days,
             CodeOn(j, d)' = CodeOn(k, d)'
      PROVE  j = k
  <2>1. day <= d => d \in day..LastDay
    BY <1>2, RegistryAssumption DEF Days
  <2>2. CodeOn(j, d) = CodeOn(k, d) => j = k
    BY DEF RegistryInv, CodesApart
  <2> QED
    BY <1>2, <1>4, <1>5, <2>1, <2>2
<1> QED
  BY <1>3, <1>5 DEF CodesApart

LEMMA ChangeOwners ==
  ASSUME RegistryInv, NEW i, NEW c, NEW day, NEW e, NEW N, Change(i, c, day, e, N)
  PROVE  OwnersOne'
<1>1. \A j, f : Owns(j, f)' <=> Owns(j, f)
  BY ChangeOwns
<1>2. DOMAIN rows' = DOMAIN rows /\ e \in DOMAIN rows /\ Owns(i, e) /\ OwnersOne
  BY DEF Change, RegistryInv
<1>3. \A j \in Instruments : j # i => coded'[j] = coded[j]
  <2>1. CodedGrows(i, c, day)
    BY ChangedCodes
  <2> QED
    BY <2>1 DEF CodedGrows
<1>4. ASSUME NEW j \in Instruments, \A f \in DOMAIN rows : ~Owns(j, f) PROVE Len(coded'[j]) = 1
  BY <1>2, <1>3, <1>4 DEF OwnersOne
<1> QED
  BY <1>1, <1>2, <1>4 DEF OwnersOne

LEMMA ChangeKnown ==
  ASSUME RegistryInv, NEW i, NEW c, NEW day, NEW e, NEW N, Change(i, c, day, e, N)
  PROVE  EntriesKnown'
<1>1. \A j, f : Owns(j, f)' <=> Owns(j, f)
  BY ChangeOwns
<1>2. /\ DOMAIN rows' = DOMAIN rows /\ e \in DOMAIN rows /\ Owns(i, e) /\ i \in Instruments
      /\ CodesGrow(e, c, day, N) /\ EntriesKnown
  BY DEF Change, RegistryInv
<1>3. CodedGrows(i, c, day)
  BY ChangedCodes
<1>4. day - 1 # None
  BY <1>3, RegistryAssumption DEF CodedGrows
<1>5. \A j \in Instruments : \A n \in DOMAIN coded[j] : n \in DOMAIN coded'[j] /\ coded'[j][n] = coded[j][n]
  <2> SUFFICES ASSUME NEW j \in Instruments, NEW n \in DOMAIN coded[j]
               PROVE  n \in DOMAIN coded'[j] /\ coded'[j][n] = coded[j][n]
    OBVIOUS
  <2>1. CASE j = i
    BY <1>3, <2>1 DEF CodedGrows
  <2>2. CASE j # i
    BY <1>3, <2>2 DEF CodedGrows
  <2> QED
    BY <2>1, <2>2
<1>6. ASSUME NEW l \in DOMAIN codes, NEW k \in DOMAIN codes', SameKey(codes'[k], codes[l])
      PROVE  \E f \in DOMAIN rows' : \E j \in Instruments :
               /\ f = codes'[k].entity /\ Owns(j, f)'
               /\ \E n \in DOMAIN coded'[j] : k \in Entries(f, coded[j][n])'
  <2>1. PICK f : f = codes[l].entity
    OBVIOUS
  <2>2. PICK j \in Instruments : Owns(j, f) /\ \E n \in DOMAIN coded[j] : l \in Entries(f, coded[j][n])
    BY <1>2, <2>1 DEF EntriesKnown
  <2>3. PICK n \in DOMAIN coded[j] : l \in Entries(f, coded[j][n])
    BY <2>2
  <2>4. n \in DOMAIN coded'[j] /\ coded'[j][n] = coded[j][n]
    BY <1>5
  <2>5. k \in Entries(f, coded[j][n])'
    BY <1>6, <2>3, <2>4 DEF Entries, SameKey
  <2>6. f \in DOMAIN rows' /\ f = codes'[k].entity /\ Owns(j, f)'
    BY <1>1, <1>2, <1>6, <2>1, <2>2 DEF EntriesKnown, SameKey
  <2> QED
    BY <2>4, <2>5, <2>6
<1>7. ASSUME NEW k \in DOMAIN codes'
      PROVE  /\ codes'[k].version = 1 <=> codes'[k].to = None
             /\ \E f \in DOMAIN rows' : \E j \in Instruments :
                  /\ f = codes'[k].entity /\ Owns(j, f)'
                  /\ \E n \in DOMAIN coded'[j] : k \in Entries(f, coded[j][n])'
  <2>1. CASE k \in DOMAIN codes
    <3>1. codes'[k] = codes[k]
      BY <1>2, <2>1 DEF CodesGrow
    <3>2. SameKey(codes'[k], codes[k]) /\ (codes[k].version = 1 <=> codes[k].to = None)
      BY <1>2, <2>1, <3>1 DEF SameKey, EntriesKnown
    <3> QED
      BY <1>6, <2>1, <3>1, <3>2
  <2>2. CASE k \notin DOMAIN codes /\ k # N
    <3>1. /\ codes'[k].version = 2 /\ codes'[k].to = day - 1
          /\ \E l \in DOMAIN codes : SameKey(codes'[k], codes[l])
      BY <1>2, <2>2 DEF CodesGrow
    <3> QED
      BY <1>4, <1>6, <3>1
  <2>3. CASE k = N
    <3>1. /\ codes'[k].entity = e /\ codes'[k].code = c /\ codes'[k].from = day
          /\ codes'[k].to = None /\ codes'[k].version = 1
      BY <1>2, <2>3 DEF CodesGrow
    <3>2. PICK n : n = Len(coded[i]) + 1
      OBVIOUS
    <3>3. n \in DOMAIN coded'[i] /\ coded'[i][n].code = c /\ coded'[i][n].from = day
      BY <1>3, <3>2 DEF CodedGrows
    <3>4. k \in Entries(e, coded[i][n])'
      BY <3>1, <3>3 DEF Entries
    <3> QED
      BY <1>1, <1>2, <3>1, <3>3, <3>4
  <2> QED
    BY <2>1, <2>2, <2>3
<1> QED
  BY <1>7 DEF EntriesKnown

\* The entries of the codes that the entity had are those and closed ones.
LEMMA ChangeEntries ==
  ASSUME RegistryInv, NEW i, NEW c, NEW day, NEW e, NEW N, Change(i, c, day, e, N),
         NEW f, NEW h, f # e \/ h.from # day
  PROVE  /\ Entries(f, h) \subseteq Entries(f, h)'
         /\ \A k \in Entries(f, h)' \ Entries(f, h) :
              /\ f = e /\ codes'[k].version = 2 /\ codes'[k].to = day - 1
              /\ k \in DOMAIN codes' \ DOMAIN codes
         /\ \A k \in Entries(f, h) : k \in DOMAIN codes /\ codes'[k] = codes[k]
<1>1. CodesGrow(e, c, day, N)
  BY DEF Change
<1>2. /\ DOMAIN codes \subseteq DOMAIN codes'
      /\ \A k \in DOMAIN codes : codes'[k] = codes[k]
      /\ codes'[N].entity = e /\ codes'[N].from = day
  BY <1>1 DEF CodesGrow
<1>3. \A k \in Entries(f, h) : k \in DOMAIN codes /\ codes'[k] = codes[k]
  BY <1>2 DEF Entries
<1>4. Entries(f, h) \subseteq Entries(f, h)'
  BY <1>2 DEF Entries
<1>5. ASSUME NEW k \in Entries(f, h)', k \notin Entries(f, h)
      PROVE  /\ f = e /\ codes'[k].version = 2 /\ codes'[k].to = day - 1
             /\ k \in DOMAIN codes' \ DOMAIN codes
  <2>1. k \in DOMAIN codes' /\ codes'[k].entity = f /\ codes'[k].from = h.from
    BY DEF Entries
  <2>2. k \notin DOMAIN codes
    BY <1>2, <1>5 DEF Entries
  <2>3. k # N
    BY <1>2, <2>1
  <2>4. /\ codes'[k].version = 2 /\ codes'[k].to = day - 1
        /\ \E l \in DOMAIN codes : codes[l].entity = e /\ SameKey(codes'[k], codes[l])
    BY <1>1, <2>1, <2>2, <2>3 DEF CodesGrow
  <2> QED
    BY <2>1, <2>2, <2>4 DEF SameKey
<1> QED
  BY <1>3, <1>4, <1>5

\* The first closed copy of the code that was in force ends it on the day before.
LEMMA ChangeEnded ==
  ASSUME RegistryInv, NEW i, NEW c, NEW day, NEW e, NEW N, Change(i, c, day, e, N)
  PROVE  EntriesEnded'
<1>1. \A j, f : Owns(j, f)' <=> Owns(j, f)
  BY ChangeOwns
<1>2. /\ DOMAIN rows' = DOMAIN rows /\ e \in DOMAIN rows /\ Owns(i, e) /\ i \in Instruments
      /\ CodesGrow(e, c, day, N)
      /\ TypeOK /\ EntriesKnown /\ EntriesEnded /\ OwnersOne
  BY DEF Change, RegistryInv
<1>3. CodedGrows(i, c, day)
  BY ChangedCodes
<1>4. \A k \in DOMAIN codes' : k \in Nat
  <2>1. codes' \in Seq(Entry)
    BY DEF Change
  <2> QED
    BY <2>1
<1>5. ASSUME NEW j \in Instruments, NEW f \in DOMAIN rows, Owns(j, f), f # e, NEW n \in DOMAIN coded'[j]
      PROVE  EndedAt(j, f, n)'
  <2>1. j # i
    BY <1>2, <1>5 DEF OwnersOne
  <2>2. coded'[j] = coded[j]
    BY <1>3, <2>1 DEF CodedGrows
  <2> DEFINE K == Entries(f, coded[j][n])
             ended == {k \in K : codes[k].version = 2}
  <2>3. PICK h : h = coded[j][n]
    OBVIOUS
  <2>4. /\ Entries(f, h) \subseteq Entries(f, h)'
        /\ \A k \in Entries(f, h)' \ Entries(f, h) : f = e
        /\ \A k \in Entries(f, h) : codes'[k] = codes[k]
    BY <1>5, ChangeEntries
  <2>5. Entries(f, coded[j][n])' = K /\ \A k \in K : codes'[k] = codes[k]
    <3>1. Entries(f, coded[j][n])' = Entries(f, h)'
      BY <2>2, <2>3 DEF Entries
    <3> QED
      BY <1>5, <2>3, <2>4, <3>1
  <2>6. /\ K # {} /\ (n = Len(coded[j]) => ended = {})
        /\ n < Len(coded[j]) =>
             \E k \in ended : codes[k].to = coded[j][n + 1].from - 1 /\ \A l \in ended : k <= l
    BY <1>2, <1>5, <2>2 DEF EntriesEnded, EndedAt
  <2>7. {k \in K : codes'[k].version = 2} = ended /\ \A k \in ended : codes'[k] = codes[k]
    BY <2>5
  <2> HIDE DEF K, ended
  <2> QED
    BY <2>2, <2>5, <2>6, <2>7 DEF EndedAt
<1>6. ASSUME NEW n, n = Len(coded[i]) + 1
      PROVE  EndedAt(i, e, n)'
  <2>1. coded'[i][n].code = c /\ coded'[i][n].from = day /\ n = Len(coded'[i])
    BY <1>3, <1>6 DEF CodedGrows
  <2>2. ASSUME NEW l \in DOMAIN codes, codes[l].entity = e PROVE codes[l].from # day
    <3>1. PICK j \in Instruments :
            Owns(j, codes[l].entity) /\ \E m \in DOMAIN coded[j] : l \in Entries(codes[l].entity, coded[j][m])
      BY <1>2 DEF EntriesKnown
    <3>2. PICK m \in DOMAIN coded[j] : l \in Entries(e, coded[j][m])
      BY <2>2, <3>1
    <3>3. j = i
      BY <1>2, <2>2, <3>1 DEF OwnersOne
    <3>4. codes[l].from = coded[i][m].from
      BY <3>2, <3>3 DEF Entries
    <3>5. coded[i][m].from < day /\ coded[i][m].from \in Nat /\ day \in Nat
      BY <1>2, <1>3, <3>3, History DEF CodedGrows, RegistryInv
    <3> QED
      BY <3>4, <3>5
  <2>3. /\ codes'[N].entity = e /\ codes'[N].code = c /\ codes'[N].from = day /\ codes'[N].version = 1
        /\ N \in DOMAIN codes'
    BY <1>2 DEF CodesGrow
  <2>4. ASSUME NEW k \in DOMAIN codes', codes'[k].entity = e, codes'[k].from = day PROVE k = N
    <3>1. k \notin DOMAIN codes
      BY <1>2, <2>2, <2>4 DEF CodesGrow
    <3>2. k # N => \E l \in DOMAIN codes : codes[l].entity = e /\ SameKey(codes'[k], codes[l])
      BY <1>2, <3>1 DEF CodesGrow
    <3> QED
      BY <2>2, <2>4, <3>2 DEF SameKey
  <2>5. Entries(e, coded[i][n])' = {N}
    <3>1. Entries(e, coded[i][n])' = {k \in DOMAIN codes' :
            codes'[k].entity = e /\ codes'[k].code = c /\ codes'[k].from = day}
      BY <2>1 DEF Entries
    <3> QED
      BY <2>3, <2>4, <3>1
  <2>6. {k \in {N} : codes'[k].version = 2} = {}
    BY <2>3
  <2>7. ~(n < Len(coded'[i]))
    BY <1>3, <1>6, <2>1 DEF CodedGrows
  <2> QED
    BY <2>5, <2>6, <2>7 DEF EndedAt
<1>7. ASSUME NEW n \in DOMAIN coded[i]
      PROVE  EndedAt(i, e, n)'
  <2> DEFINE K == Entries(e, coded[i][n])
             ended == {k \in K : codes[k].version = 2}
  <2>1. PICK h, L, M : h = coded[i][n] /\ L = Entries(e, h)' /\ M = {k \in L : codes'[k].version = 2}
    OBVIOUS
  <2>2. h = coded'[i][n] /\ h.from # day /\ n \in 1..Len(coded[i]) /\ Len(coded[i]) \in Nat
        /\ Len(coded'[i]) = Len(coded[i]) + 1 /\ n < Len(coded'[i])
    <3>1. coded[i][n].from \in Nat
      BY <1>2, History DEF RegistryInv
    <3> QED
      BY <1>3, <2>1, <3>1 DEF CodedGrows
  <2>3. K = Entries(e, h) /\ Entries(e, coded[i][n])' = L
    BY <2>1, <2>2 DEF Entries
  <2>4. /\ Entries(e, h) \subseteq Entries(e, h)'
        /\ \A k \in Entries(e, h)' \ Entries(e, h) :
             codes'[k].version = 2 /\ codes'[k].to = day - 1 /\ k \in DOMAIN codes' \ DOMAIN codes
        /\ \A k \in Entries(e, h) : k \in DOMAIN codes /\ codes'[k] = codes[k]
    BY <2>2, ChangeEntries
  <2>5. /\ K \subseteq L
        /\ \A k \in L \ K :
             codes'[k].version = 2 /\ codes'[k].to = day - 1 /\ k \in DOMAIN codes' \ DOMAIN codes
        /\ \A k \in K : k \in DOMAIN codes /\ codes'[k] = codes[k]
    BY <2>1, <2>3, <2>4
  <2>6. /\ K # {} /\ (n = Len(coded[i]) => ended = {})
        /\ n < Len(coded[i]) =>
             \E k \in ended : codes[k].to = coded[i][n + 1].from - 1 /\ \A l \in ended : k <= l
    BY <1>2 DEF EntriesEnded, EndedAt
  <2>7. M = ended \cup (L \ K) /\ M \subseteq L /\ L \subseteq DOMAIN codes'
    <3>1. L \subseteq DOMAIN codes'
      BY <2>1 DEF Entries
    <3> HIDE DEF K
    <3> QED
      BY <2>1, <2>5, <3>1
  <2>8. \E k \in M : codes'[k].to = coded'[i][n + 1].from - 1 /\ \A l \in M : k <= l
    <3>1. CASE n < Len(coded[i])
      <4>1. PICK k \in ended : codes[k].to = coded[i][n + 1].from - 1 /\ \A l \in ended : k <= l
        BY <2>6, <3>1
      <4>2. k \in M /\ codes'[k] = codes[k] /\ k \in DOMAIN codes /\ k \in Nat
        <5>1. k \in K
          OBVIOUS
        <5> HIDE DEF K, ended
        <5> QED
          BY <1>4, <2>5, <2>7, <5>1
      <4>3. n + 1 \in DOMAIN coded[i] /\ coded'[i][n + 1] = coded[i][n + 1]
        BY <1>3, <2>2, <3>1 DEF CodedGrows
      <4>4. \A l \in DOMAIN codes' \ DOMAIN codes : k < l
        BY <1>2, <4>2 DEF CodesGrow
      <4>5. ASSUME NEW l \in M PROVE k <= l
        <5>1. l \in Nat
          BY <1>4, <2>7
        <5>2. l \in ended \/ l \in DOMAIN codes' \ DOMAIN codes
          <6> HIDE DEF ended, K
          <6> QED
            BY <2>5, <2>7
        <5> HIDE DEF ended
        <5> QED
          BY <4>1, <4>2, <4>4, <5>1, <5>2
      <4> QED
        BY <4>1, <4>2, <4>3, <4>5
    <3>2. CASE n = Len(coded[i])
      <4>1. ended = {}
        BY <2>6, <3>2
      <4>2. M = L \ K
        <5> HIDE DEF ended, K
        <5> QED
          BY <2>7, <4>1
      <4>3. M # {}
        <5>1. PICK l \in K : l \in DOMAIN codes
          BY <2>5, <2>6
        <5>2. codes[l].entity = e /\ codes[l].version # 2 /\ codes[l].version \in {1, 2}
          BY <1>2, <4>1, <5>1, EntryFacts DEF Entries
        <5>3. codes[l].to = None
          BY <1>2, <5>1, <5>2 DEF EntriesKnown
        <5>4. PICK k \in DOMAIN codes' \ DOMAIN codes : SameKey(codes'[k], codes[l])
          BY <1>2, <5>1, <5>2, <5>3 DEF CodesGrow
        <5>5. k \in Entries(e, h)' /\ k \notin K
          BY <2>1, <5>1, <5>4 DEF Entries, SameKey
        <5> HIDE DEF K
        <5> QED
          BY <2>1, <4>2, <5>5
      <4>4. M \in SUBSET Nat
        BY <1>4, <2>7
      <4>5. PICK k \in M : \A l \in M : k <= l
        BY <4>3, <4>4, LeastNumber
      <4>6. codes'[k].to = day - 1
        <5> HIDE DEF K
        <5> QED
          BY <2>5, <4>2
      <4>7. coded'[i][n + 1].from = day
        BY <1>3, <3>2 DEF CodedGrows
      <4> QED
        BY <4>5, <4>6, <4>7
    <3> QED
      BY <2>2, <3>1, <3>2
  <2>9. L # {} /\ n # Len(coded'[i])
    BY <2>2, <2>5, <2>6
  <2> HIDE DEF K, ended
  <2> QED
    BY <2>1, <2>3, <2>8, <2>9 DEF EndedAt
<1>8. DOMAIN coded'[i] = DOMAIN coded[i] \cup {Len(coded[i]) + 1}
  BY <1>3 DEF CodedGrows
<1>9. ASSUME NEW j \in Instruments, NEW f \in DOMAIN rows, Owns(j, f), NEW n \in DOMAIN coded'[j]
      PROVE  EndedAt(j, f, n)'
  <2>1. f = e => j = i
    BY <1>2, <1>9 DEF OwnersOne
  <2> QED
    BY <1>5, <1>6, <1>7, <1>8, <1>9, <2>1
<1> QED
  <2>1. \A j \in Instruments, f \in DOMAIN rows : Owns(j, f) =>
          \A n \in DOMAIN coded'[j] : EndedAt(j, f, n)'
    BY <1>9
  <2> QED
    BY <1>1, <1>2, <2>1 DEF EntriesEnded

\* The rows with another code from a day on.
Recoded(S, c, day) ==
  LET current == Newest(Opened(S))
      ended == Appended(S, [current EXCEPT !.to = day - 1])
  IN  Appended(ended, [current EXCEPT !.code = c, !.from = day])

\* The row for the new code is the newest of the open ones.
LEMMA ChangeRows ==
  ASSUME NEW S, Numbered(S), NEW c \in Codes, NEW day \in Days, day > Newest(Opened(S)).from
  PROVE  Numbered(Recoded(S, c, day)) /\ Newest(Opened(Recoded(S, c, day))).code = c
<1> DEFINE current == Newest(Opened(S))
           closed == [current EXCEPT !.to = day - 1]
           new == [current EXCEPT !.code = c, !.from = day]
           E == Appended(S, closed)
           R == Recoded(S, c, day)
<1>1. current \in Row /\ current.to = None /\ current.from \in Nat /\ day \in Nat
      /\ \A q \in Opened(S) : q.from \in Nat /\ q.from <= current.from
  <2>1. /\ current \in S /\ current \in Row /\ current.to = None
        /\ \A q \in Opened(S) : q.from < current.from \/ q.from = current.from
    BY NewestOpen DEF IsNewest
  <2>2. \A q \in S : q.from \in Nat
    BY RowFacts
  <2>3. \A q \in Opened(S) : q \in S
    BY DEF Opened
  <2> HIDE DEF current
  <2>4. day \in Nat
    BY RegistryAssumption DEF Days
  <2> QED
    BY <2>1, <2>2, <2>3, <2>4
<1>2. day - 1 \in Days /\ day - 1 # None /\ current.from < day
  <2>1. current.from < day
    BY <1>1
  <2> QED
    BY <1>1, <2>1, RegistryAssumption DEF Days
<1>3. R = Appended(E, new)
  BY DEF Recoded
<1>4. closed \in Row /\ closed.to # None
  <2> HIDE DEF current
  <2> QED
    BY <1>1, <1>2 DEF Row
<1>5. new \in Row /\ new.to = None /\ new.code = c /\ new.from = day
  <2> HIDE DEF current
  <2> QED
    BY <1>1 DEF Row
<1> HIDE DEF current, closed, new
<1>6. Numbered(E) /\ Opened(E) = Opened(S)
  BY <1>4, AppendedIs
<1>7. PICK a : /\ a.code = c /\ a.from = day /\ Numbered(R) /\ Opened(R) = Opened(E) \cup {a}
  <2> HIDE DEF E
  <2>1. PICK a : /\ a.code = new.code /\ a.from = new.from /\ Numbered(Appended(E, new))
                 /\ new.to = None => Opened(Appended(E, new)) = Opened(E) \cup {a}
    BY <1>5, <1>6, AppendedIs
  <2> HIDE DEF R
  <2> QED
    BY <1>3, <1>5, <2>1
<1> HIDE DEF R
<1>8. IsNewest(Opened(R), a)
  <2> SUFFICES ASSUME NEW q \in Opened(R), q # a PROVE q.from < a.from
    <3>1. a \in Opened(R)
      BY <1>7
    <3>2. a.version <= a.version
      <4>1. Opened(R) \subseteq R
        BY DEF Opened
      <4>2. a.version \in Nat
        BY <1>7, <3>1, <4>1, RowFacts
      <4> QED
        BY <4>2
    <3> QED
      BY <3>1, <3>2 DEF IsNewest
  <2>1. q \in Opened(S)
    BY <1>6, <1>7
  <2> QED
    BY <1>1, <1>2, <1>7, <2>1
<1>9. Newest(Opened(R)) = a
  BY <1>7, <1>8, NewestOpen
<1> QED
  BY <1>7, <1>9 DEF R

\* Another code: the instrument's entity goes on under it.
LEMMA CodeChangeKeeps ==
  ASSUME RegistryInv, NEW i \in Instruments, NEW c \in Codes, NEW day \in Days,
         CodeChange(i, c, day)
  PROVE  RegistryInv'
<1>1. PICK e, N : /\ e = Resolve(LastOf(coded[i]).code, None) /\ e \in DOMAIN rows /\ Owns(i, e)
                  /\ codes' \in Seq(Entry) /\ CodesGrow(e, c, day, N)
  BY ChangeGrows
<1> DEFINE S == rows[e]
           ended == Appended(S, [Current(e) EXCEPT !.to = day - 1])
           R == Appended(ended, [Current(e) EXCEPT !.code = c, !.from = day])
<1>2. /\ rows' = [rows EXCEPT ![e] = R]
      /\ day > LastOf(coded[i]).from /\ day > Current(e).from
      /\ \A j \in Instruments : \A d \in day..LastDay : CodeOn(j, d) # c
      /\ coded' = [coded EXCEPT ![i] = Append(@, [code |-> c, from |-> day])]
      /\ UNCHANGED <<named, build>>
  BY <1>1 DEF CodeChange
<1>3. rows \in Seq(SUBSET Row) /\ \A f \in DOMAIN rows : Numbered(rows[f])
  BY DEF RegistryInv, TypeOK, RowsNumbered
<1>4. Numbered(R) /\ Newest(Opened(R)).code = c
  <2>1. Numbered(S) /\ day > Newest(Opened(S)).from
    BY <1>1, <1>2, <1>3 DEF Current
  <2>2. R = Recoded(S, c, day)
    BY DEF Recoded, Current
  <2> HIDE DEF S, R
  <2> QED
    BY <2>1, <2>2, ChangeRows
<1> HIDE DEF R
<1>5. /\ rows' \in Seq(SUBSET Row) /\ DOMAIN rows' = DOMAIN rows /\ rows'[e] = R
      /\ \A f \in DOMAIN rows : f # e => rows'[f] = rows[f]
  <2>1. R \in SUBSET Row
    BY <1>4 DEF Numbered
  <2> QED
    BY <1>1, <1>2, <1>3, <2>1
<1>6. Change(i, c, day, e, N)
  BY <1>1, <1>2, <1>5 DEF Change
<1>7. CodesApart' /\ OwnersOne' /\ EntriesKnown' /\ EntriesEnded'
  BY <1>6, ChangeApart, ChangeOwners, ChangeKnown, ChangeEnded
<1>8. CodedGrows(i, c, day)
  BY <1>6, ChangedCodes
<1>9. TypeOK'
  BY <1>1, <1>2, <1>5, <1>8 DEF RegistryInv, TypeOK, CodedGrows
<1>10. RowsNumbered'
  BY <1>3, <1>4, <1>5 DEF RowsNumbered
<1>11. RowsCurrent'
  <2> SUFFICES ASSUME NEW j \in Instruments, NEW f \in DOMAIN rows, Owns(j, f)
               PROVE  Newest(Opened(rows'[f])).code = LastOf(coded'[j]).code
    <3>1. \A j, f : Owns(j, f)' <=> Owns(j, f)
      BY <1>6, ChangeOwns
    <3> QED
      BY <1>5, <3>1 DEF RowsCurrent, Current, LastOf
  <2>1. i = j <=> e = f
    BY <1>1 DEF RegistryInv, OwnersOne
  <2>2. CASE f = e
    <3>1. LastOf(coded'[i]).code = c
      BY <1>8 DEF CodedGrows, LastOf
    <3> QED
      BY <1>4, <1>5, <2>1, <2>2, <3>1
  <2>3. CASE f # e
    <3>1. coded'[j] = coded[j] /\ rows'[f] = rows[f]
      BY <1>5, <1>8, <2>1, <2>3 DEF CodedGrows
    <3>2. Newest(Opened(rows[f])).code = LastOf(coded[j]).code
      BY DEF RegistryInv, RowsCurrent, Current
    <3> QED
      BY <3>1, <3>2
  <2> QED
    BY <2>2, <2>3
<1> QED
  BY <1>7, <1>9, <1>10, <1>11 DEF RegistryInv
-----------------------------------------------------------------------------
(* The theorems *)

LEMMA InitHolds == Init => RegistryInv
<1> SUFFICES ASSUME Init PROVE RegistryInv
  OBVIOUS
<1>1. /\ rows = << >> /\ codes = << >> /\ build = NoBuild
      /\ named = [i \in Instruments |-> <<[name |-> FirstName[i], from |-> FirstDay]>>]
      /\ coded = [i \in Instruments |-> <<[code |-> FirstCode[i], from |-> 0]>>]
  BY DEF Init
<1>2. LastDay \in Nat /\ 0 \in Days /\ FirstDay \in 1..LastDay
  BY RegistryAssumption DEF Days
<1>3. \A i, e : ~Owns(i, e)
  BY <1>1 DEF Owns
<1>4. DOMAIN rows = {} /\ DOMAIN codes = {}
  BY <1>1
<1>5. ASSUME NEW i \in Instruments
      PROVE  /\ coded[i] \in Seq([code : Codes, from : Days]) /\ Len(coded[i]) = 1 /\ coded[i] # << >>
             /\ coded[i][1] = [code |-> FirstCode[i], from |-> 0] /\ DOMAIN coded[i] = {1}
             /\ \A d \in Days : CodeOn(i, d) = FirstCode[i]
  <2> DEFINE x == [code |-> FirstCode[i], from |-> 0]
             Code == [code : Codes, from : Days]
  <2>1. coded[i] = <<x>> /\ x \in Code /\ x.from = 0 /\ x.code = FirstCode[i]
    BY <1>1, <1>2, RegistryAssumption
  <2> HIDE DEF x, Code
  <2>2. /\ <<x>> \in Seq(Code) /\ Len(<<x>>) = 1 /\ <<x>> # << >> /\ <<x>>[1] = x /\ DOMAIN <<x>> = {1}
    BY <2>1
  <2>3. ASSUME NEW d \in Days PROVE CodeOn(i, d) = FirstCode[i]
    <3> DEFINE begun == {n \in DOMAIN coded[i] : coded[i][n].from <= d}
               last == CHOOSE n \in begun : \A m \in begun : m <= n
    <3>1. begun = {1}
      BY <2>1, <2>2, RegistryAssumption DEF Days
    <3>2. last = 1
      <4> HIDE DEF begun
      <4> QED
        BY <3>1
    <3>3. CodeOn(i, d) = coded[i][last].code
      BY DEF CodeOn, OnDay
    <3> HIDE DEF last
    <3> QED
      BY <2>1, <2>2, <3>2, <3>3
  <2> QED
    BY <2>1, <2>2, <2>3 DEF x, Code
<1>6. ASSUME NEW i \in Instruments
      PROVE  named[i] \in Seq([name : Names, from : 1..LastDay]) /\ named[i] # << >>
  <2> DEFINE x == [name |-> FirstName[i], from |-> FirstDay]
             Named == [name : Names, from : 1..LastDay]
  <2>1. named[i] = <<x>> /\ x \in Named
    BY <1>1, <1>2, RegistryAssumption
  <2> HIDE DEF x, Named
  <2>2. named[i] \in Seq(Named) /\ named[i] # << >>
    BY <2>1
  <2> QED
    BY <2>2 DEF Named
<1>7. TypeOK
  <2> DEFINE Code == [code : Codes, from : Days]
             Named == [name : Names, from : 1..LastDay]
  <2>1. coded \in [Instruments -> Seq(Code)] /\ named \in [Instruments -> Seq(Named)]
    BY <1>1, <1>5, <1>6
  <2>2. \A T : << >> \in Seq(T)
    OBVIOUS
  <2> QED
    BY <1>1, <1>6, <2>1, <2>2, NoBuildIs DEF TypeOK
<1>8. CodesApart
  <2>1. \A i, j \in Instruments : FirstCode[i] = FirstCode[j] => i = j
    BY RegistryAssumption DEF IsInjective
  <2>2. ASSUME NEW i \in Instruments
        PROVE  /\ coded[i] # << >> /\ coded[i][1] = [code |-> FirstCode[i], from |-> 0]
               /\ \A m, n \in DOMAIN coded[i] : m < n => coded[i][m].from < coded[i][n].from
    <3>1. \A m, n \in DOMAIN coded[i] : m = 1 /\ n = 1
      BY <1>5
    <3>2. \A m, n \in DOMAIN coded[i] : ~(m < n)
      BY <3>1
    <3> QED
      BY <1>5, <3>2
  <2>3. ASSUME NEW i \in Instruments, NEW j \in Instruments, NEW d \in Days, CodeOn(i, d) = CodeOn(j, d)
        PROVE  i = j
    <3>1. CodeOn(i, d) = FirstCode[i] /\ CodeOn(j, d) = FirstCode[j]
      BY <1>5
    <3> QED
      BY <2>1, <2>3, <3>1
  <2> QED
    BY <2>2, <2>3 DEF CodesApart
<1>9. OwnersOne /\ EntriesKnown /\ EntriesEnded
  BY <1>3, <1>4, <1>5 DEF OwnersOne, EntriesKnown, EntriesEnded, EndedAt
<1>10. RowsNumbered /\ RowsCurrent
  BY <1>4 DEF RowsNumbered, RowsCurrent
<1> QED
  BY <1>7, <1>8, <1>9, <1>10 DEF RegistryInv

LEMMA StepKeeps == RegistryInv /\ [Next]_vars => RegistryInv'
<1> SUFFICES ASSUME RegistryInv, [Next]_vars PROVE RegistryInv'
  OBVIOUS
<1>1. CASE \E i \in Instruments, n \in Names, d \in Days : Rename(i, n, d)
  BY <1>1, RenameKeeps
<1>2. CASE \E i \in Instruments, c \in Codes, d \in Days : CodeChange(i, c, d)
  BY <1>2, CodeChangeKeeps
<1>3. CASE BeginBuild
  BY <1>3, BeginBuildKeeps
<1>4. CASE Register
  BY <1>4, RefreshKeeps, CreateKeeps
<1>5. CASE FetchEvents
  BY <1>5, FetchEventsKeeps
<1>6. CASE NameChange
  BY <1>6, NameChangeKeeps
<1>7. CASE Abort
  BY <1>7, AbortKeeps
<1>8. CASE UNCHANGED vars
  <2>1. UNCHANGED <<named, coded, codes, rows, build>>
    BY <1>8 DEF vars
  <2>2. TypeOK'
    BY <2>1 DEF RegistryInv, TypeOK
  <2> QED
    BY <2>1, <2>2, RegistryFrame DEF RegistryInv
<1> QED
  BY <1>1, <1>2, <1>3, <1>4, <1>5, <1>6, <1>7, <1>8 DEF Next

\* Types; codes that are one instrument's at a time; an entity for an instrument,
\* made once; a code history that holds every code of an entity's instrument, each
\* ended when the next one begins; rows numbered in their order, the newest open one
\* of which has the present code.
THEOREM RegistryInvariance == Spec => []RegistryInv
<1> QED
  BY InitHolds, StepKeeps, PTL DEF Spec

\* RegistryService.resolve: a code leads on a day to the entity of the instrument that
\* had it on that day, through any number of code changes and takeovers, although an
\* entry is never changed and an older one is closed again by every later change.
THEOREM CodesLead == Spec => []CodesInForce
<1> QED
  BY RegistryInvariance, CodesFollow, PTL

\* _current_row: the open row that counts has the code the source lists, whatever
\* names were recorded before, after or for the past, and that code leads to its entity.
THEOREM CodesCurrent == Spec => []CurrentCode
<1> QED
  BY RegistryInvariance, CurrentFollows, PTL
-----------------------------------------------------------------------------
(* The names of an instrument *)

Named == [name : Names, from : 1..LastDay]

\* A history of names goes forward from the first day.
Goes(h) ==
  /\ h \in Seq(Named) /\ h # << >> /\ h[1].from = FirstDay
  /\ \A m, n \in DOMAIN h : m < n => h[m].from < h[n].from

LEMMA GoesFacts ==
  ASSUME NEW h, Goes(h)
  PROVE  /\ Len(h) \in Nat \ {0} /\ DOMAIN h = 1..Len(h)
         /\ \A n \in DOMAIN h : h[n].from \in Nat /\ FirstDay <= h[n].from /\ h[n].from <= LastDay
         /\ \A m, n \in DOMAIN h : m < n <=> h[m].from < h[n].from
         /\ FirstDay \in Nat \ {0} /\ FirstDay <= EventsUntil /\ EventsUntil \in Nat /\ EventsUntil <= LastDay
         /\ LastDay \in Nat
<1>1. Len(h) \in Nat \ {0} /\ DOMAIN h = 1..Len(h) /\ \A n \in DOMAIN h : h[n] \in Named
  <2> HIDE DEF Named
  <2> QED
    BY DEF Goes
<1>2. \A n \in DOMAIN h : h[n].from \in 1..LastDay
  BY <1>1 DEF Named
<1>3. /\ FirstDay \in Nat \ {0} /\ FirstDay <= EventsUntil /\ EventsUntil \in Nat /\ EventsUntil <= LastDay
      /\ LastDay \in Nat
  BY RegistryAssumption DEF Days
<1>4. \A n \in DOMAIN h : h[n].from \in Nat /\ h[n].from <= LastDay
  BY <1>2, <1>3
<1>5. \A m, n \in DOMAIN h : m < n => h[m].from < h[n].from
  BY DEF Goes
<1>6. \A n \in DOMAIN h : FirstDay <= h[n].from
  <2>1. 1 \in DOMAIN h /\ h[1].from = FirstDay
    BY <1>1 DEF Goes
  <2> QED
    BY <1>1, <1>3, <1>4, <1>5, <2>1
<1>7. \A m, n \in DOMAIN h : h[m].from < h[n].from => m < n
  <2> SUFFICES ASSUME NEW m \in DOMAIN h, NEW n \in DOMAIN h, h[m].from < h[n].from, ~(m < n) PROVE FALSE
    OBVIOUS
  <2>1. CASE m = n
    BY <1>4, <2>1
  <2>2. CASE n < m
    BY <1>4, <1>5, <2>2
  <2> QED
    BY <1>1, <2>1, <2>2
<1> QED
  BY <1>1, <1>3, <1>4, <1>5, <1>6, <1>7

\* An interval of a history lasts until the next name begins.
LEMMA IntervalIs ==
  ASSUME NEW h, Goes(h), NEW n \in DOMAIN h, NEW i \in Instruments, LastOf(coded[i]).code \in Codes
  PROVE  LET ev == IntervalOf(i, h, n) IN
         /\ ev \in Event /\ ev.code = LastOf(coded[i]).code /\ ev.name = h[n].name /\ ev.start = h[n].from
         /\ n = Len(h) => ev.end = None
         /\ n # Len(h) => /\ n + 1 \in DOMAIN h /\ ev.end \in Nat /\ ev.end # None
                          /\ ev.end + 1 = h[n + 1].from /\ ev.start <= ev.end
<1> DEFINE ends == IF n = Len(h) THEN None ELSE h[n + 1].from - 1
           ev == IntervalOf(i, h, n)
<1>1. /\ Len(h) \in Nat \ {0} /\ DOMAIN h = 1..Len(h) /\ LastDay \in Nat /\ FirstDay \in Nat \ {0}
      /\ \A m \in DOMAIN h : h[m].from \in Nat /\ FirstDay <= h[m].from /\ h[m].from <= LastDay
      /\ \A l, m \in DOMAIN h : l < m => h[l].from < h[m].from
  BY GoesFacts
<1>2. ev = [code |-> LastOf(coded[i]).code, name |-> h[n].name, start |-> h[n].from, end |-> ends]
  BY DEF IntervalOf
<1>3. h[n].name \in Names /\ h[n].from \in 1..LastDay
  <2>1. h[n] \in Named
    <3> HIDE DEF Named
    <3> QED
      BY DEF Goes
  <2> QED
    BY <2>1 DEF Named
<1>4. ASSUME n # Len(h)
      PROVE  /\ n + 1 \in DOMAIN h /\ ends \in Nat /\ ends # None /\ ends \in 0..(LastDay - 1)
             /\ ends + 1 = h[n + 1].from /\ h[n].from <= ends
  <2>1. n + 1 \in DOMAIN h /\ n < n + 1 /\ ends = h[n + 1].from - 1
    BY <1>1, <1>4
  <2>2. h[n].from < h[n + 1].from /\ h[n + 1].from \in Nat /\ h[n].from \in Nat /\ h[n + 1].from <= LastDay
    BY <1>1, <2>1
  <2> HIDE DEF ends
  <2>3. ends \in Nat
    BY <2>1, <2>2
  <2>4. ends # None
    BY <2>3, RegistryAssumption
  <2>5. ends + 1 = h[n + 1].from /\ h[n].from <= ends /\ ends <= LastDay - 1
    BY <1>1, <2>1, <2>2
  <2>6. ends \in 0..(LastDay - 1)
    BY <1>1, <2>3, <2>5
  <2> QED
    BY <2>1, <2>3, <2>4, <2>5, <2>6
<1>5. n = Len(h) => ends = None
  OBVIOUS
<1>6. ends \in {None} \cup 0..(LastDay - 1)
  BY <1>4, <1>5
<1> HIDE DEF ends
<1>7. ev \in Event
  BY <1>2, <1>3, <1>6 DEF Event
<1> HIDE DEF ev
<1>8. ev.code = LastOf(coded[i]).code /\ ev.name = h[n].name /\ ev.start = h[n].from /\ ev.end = ends
  BY <1>2
<1> QED
  BY <1>4, <1>5, <1>7, <1>8 DEF ev
-----------------------------------------------------------------------------
(* What a name interval adds to the rows *)

\* Rows that were appended: none of S has as high a version.
Adds(S, T) ==
  S \subseteq T /\ \A r \in T \ S : \A q \in S : q.version < r.version

\* Closing a row adds at most a copy of it that ends there.
LEMMA ClosedIs ==
  ASSUME NEW S, Numbered(S), NEW day \in Days
  PROVE  LET C == Closed(S, day)
             previous == Newest(Covering(S, day)) IN
         /\ Numbered(C) /\ Adds(S, C)
         /\ \A a \in C \ S : /\ a.to = day /\ a.from = previous.from /\ Covering(S, day) # {}
                             /\ previous.to = None \/ previous.to > day
<1> DEFINE previous == Newest(Covering(S, day))
           r == [previous EXCEPT !.to = day]
           C == Closed(S, day)
           must == Covering(S, day) # {} /\ (previous.to = None \/ previous.to > day)
<1>1. CASE must
  <2>1. C = Appended(S, r)
    BY <1>1 DEF Closed
  <2>2. r \in Row /\ r.from = previous.from /\ r.to = day
    <3>1. previous \in Row
      BY <1>1, NewestCovering
    <3> HIDE DEF previous
    <3> QED
      BY <3>1 DEF Row
  <2> HIDE DEF r, C, previous
  <2>3. PICK a : /\ Appended(S, r) = S \cup {a} /\ a.from = r.from /\ a.to = r.to
                 /\ a.version = Cardinality(S) + 1 /\ Numbered(Appended(S, r))
    BY <2>2, AppendedIs
  <2>4. \A q \in S : q.version < a.version
    BY <2>3, RowFacts
  <2>5. Adds(S, C) /\ Numbered(C) /\ \A x \in C \ S : x.to = day /\ x.from = previous.from
    BY <2>1, <2>2, <2>3, <2>4 DEF Adds
  <2> QED
    BY <1>1, <2>5 DEF C, previous
<1>2. CASE ~must
  <2>1. C = S
    BY <1>2 DEF Closed
  <2> QED
    BY <2>1 DEF Adds
<1> QED
  BY <1>1, <1>2

\* A name adds the row of its interval and, if it ends, one that resumes after it.
LEMMA WithNameIs ==
  ASSUME NEW S, Numbered(S), NEW ev \in Event
  PROVE  LET C == Closed(S, ev.start - 1)
             T == WithName(S, ev.name, ev.start, ev.end) IN
         \E b : /\ b.name = ev.name /\ b.from = ev.start /\ b.to = ev.end
                /\ \A q \in C : q.version < b.version
                /\ ev.end = None => T = C \cup {b}
                /\ ev.end # None => \E c : /\ T = C \cup {b, c} /\ c.to = None /\ c.from = ev.end + 1
                                           /\ \A q \in C \cup {b} : q.version < c.version
<1> DEFINE day == ev.start - 1
           before == Covering(S, day)
           current == Newest(Opened(S))
           resumed == IF before = {} THEN current.name ELSE Newest(before).name
           first == [current EXCEPT !.name = ev.name, !.from = ev.start, !.to = ev.end]
           C == Closed(S, day)
           changed == Appended(C, first)
           second == [current EXCEPT !.name = resumed, !.from = ev.end + 1, !.to = None]
           T == WithName(S, ev.name, ev.start, ev.end)
<1>1. /\ ev.name \in Names /\ ev.start \in Days /\ day \in Days /\ ev.end \in Days \cup {None}
      /\ ev.end # None => ev.end + 1 \in Days
  BY RegistryAssumption DEF Event, Days
<1>2. T = IF ev.end = None THEN changed ELSE Appended(changed, second)
  BY DEF WithName
<1>3. current \in Row
  BY NewestOpen
<1>4. resumed \in Names
  <2>1. before # {} => Newest(before) \in Row
    BY NewestCovering
  <2> HIDE DEF before, current
  <2> QED
    BY <1>3, <2>1 DEF Row
<1>5. first \in Row /\ first.name = ev.name /\ first.from = ev.start /\ first.to = ev.end
  <2> HIDE DEF current
  <2> QED
    BY <1>1, <1>3 DEF Row
<1>6. ev.end # None => second \in Row /\ second.from = ev.end + 1 /\ second.to = None
  <2> HIDE DEF current, resumed
  <2> QED
    BY <1>1, <1>3, <1>4 DEF Row
<1>7. Numbered(C)
  <2> HIDE DEF day
  <2> QED
    BY <1>1, ClosedKeeps
<1> HIDE DEF first, second, C, T
<1>8. PICK b : /\ changed = C \cup {b} /\ b.name = ev.name /\ b.from = ev.start /\ b.to = ev.end
               /\ b.version = Cardinality(C) + 1 /\ Numbered(changed)
  BY <1>5, <1>7, AppendedIs
<1>9. \A q \in C : q.version < b.version
  BY <1>7, <1>8, RowFacts
<1>10. ev.end # None => \E c : /\ T = C \cup {b, c} /\ c.to = None /\ c.from = ev.end + 1
                               /\ \A q \in C \cup {b} : q.version < c.version
  <2> SUFFICES ASSUME ev.end # None
               PROVE  \E c : /\ T = C \cup {b, c} /\ c.to = None /\ c.from = ev.end + 1
                             /\ \A q \in C \cup {b} : q.version < c.version
    OBVIOUS
  <2> HIDE DEF changed
  <2>1. PICK c : /\ Appended(changed, second) = changed \cup {c} /\ c.from = second.from /\ c.to = second.to
                 /\ c.version = Cardinality(changed) + 1
    BY <1>6, <1>8, AppendedIs
  <2>2. \A q \in changed : q.version < c.version
    BY <1>8, <2>1, RowFacts
  <2> QED
    BY <1>2, <1>6, <1>8, <2>1, <2>2
<1> QED
  BY <1>2, <1>8, <1>9, <1>10 DEF C, T

\* An interval that is written stays so while rows are added beside it.
LEMMA WrittenKept ==
  ASSUME NEW S, NEW T, NEW ev, Written(S, ev), S \subseteq T, \A q \in T \ S : Beside(q, ev)
  PROVE  Written(T, ev)
<1>1. PICK r \in S : /\ r.name = ev.name /\ r.from = ev.start /\ r.to = ev.end
                     /\ \A q \in S : q.version > r.version => Beside(q, ev)
  BY DEF Written
<1>2. \A q \in T : q.version > r.version => Beside(q, ev)
  BY <1>1
<1> QED
  BY <1>1, <1>2 DEF Written

\* A row that covers a day begins no later than the last name that began by then.
LEMMA BeginsBy ==
  ASSUME NEW S, NEW h, Goes(h), Begins(S, h), NEW n \in DOMAIN h, NEW d \in Nat,
         n = Len(h) \/ d < h[n + 1].from, NEW q \in S, q.from <= d
  PROVE  q.from \in Nat /\ q.from <= h[n].from
<1>1. /\ Len(h) \in Nat \ {0} /\ DOMAIN h = 1..Len(h) /\ \A m \in DOMAIN h : h[m].from \in Nat
      /\ \A l, m \in DOMAIN h : l < m <=> h[l].from < h[m].from
  BY GoesFacts
<1>2. CASE q.from = 0
  BY <1>1, <1>2
<1>3. ASSUME NEW m \in DOMAIN h, q.from = h[m].from PROVE q.from \in Nat /\ q.from <= h[n].from
  <2>1. m <= n
    <3>1. CASE n = Len(h)
      BY <1>1, <3>1
    <3>2. CASE n # Len(h)
      <4>1. n + 1 \in DOMAIN h /\ h[m].from < h[n + 1].from
        BY <1>1, <1>3, <3>2
      <4>2. m < n + 1
        BY <1>1, <4>1
      <4> QED
        BY <1>1, <4>2
    <3> QED
      BY <3>1, <3>2
  <2>2. CASE m = n
    BY <1>1, <1>3, <2>2
  <2>3. CASE m # n
    <3>1. m < n
      BY <1>1, <2>1, <2>3
    <3>2. h[m].from < h[n].from
      BY <1>1, <3>1
    <3> QED
      BY <1>1, <1>3, <3>2
  <2> QED
    BY <2>2, <2>3
<1> QED
  BY <1>2, <1>3 DEF Begins

\* On the days of an interval that is written its row is the newest and the last.
LEMMA WrittenLeads ==
  ASSUME NEW S, Numbered(S), NEW h, Goes(h), Begins(S, h),
         NEW i \in Instruments, LastOf(coded[i]).code \in Codes,
         NEW n \in DOMAIN h, Written(S, IntervalOf(i, h, n)),
         NEW d \in Days, h[n].from <= d, n = Len(h) \/ d < h[n + 1].from
  PROVE  \E r : /\ r \in Covering(S, d) /\ r.name = h[n].name /\ r.from = h[n].from
                /\ r.to = IntervalOf(i, h, n).end
                /\ IsNewest(Covering(S, d), r) /\ \A q \in Covering(S, d) : q.version <= r.version
<1> DEFINE ev == IntervalOf(i, h, n)
<1>1. /\ ev.name = h[n].name /\ ev.start = h[n].from
      /\ n = Len(h) => ev.end = None
      /\ n # Len(h) => ev.end \in Nat /\ ev.end # None /\ ev.end + 1 = h[n + 1].from
  BY IntervalIs
<1>2. /\ d \in Nat /\ h[n].from \in Nat /\ Len(h) \in Nat /\ n \in 1..Len(h)
      /\ n # Len(h) => h[n + 1].from \in Nat
  <2>1. /\ Len(h) \in Nat /\ DOMAIN h = 1..Len(h) /\ \A m \in DOMAIN h : h[m].from \in Nat
    BY GoesFacts
  <2>2. n # Len(h) => n + 1 \in DOMAIN h
    BY <2>1
  <2> QED
    BY <2>1, <2>2, RegistryAssumption DEF Days
<1>3. PICK r \in S : /\ r.name = ev.name /\ r.from = ev.start /\ r.to = ev.end
                     /\ \A q \in S : q.version > r.version => Beside(q, ev)
  BY DEF Written
<1> HIDE DEF ev
<1>4. r \in Covering(S, d)
  <2>1. ev.end = None \/ d <= ev.end
    BY <1>1, <1>2
  <2> QED
    BY <1>1, <1>3, <2>1 DEF Covering, Covers
<1>5. ASSUME NEW q \in Covering(S, d)
      PROVE  q.version <= r.version /\ q.from \in Nat /\ q.from <= r.from
  <2>1. q \in S /\ q.from <= d /\ (q.to = None \/ d <= q.to)
    BY DEF Covering, Covers
  <2>2. q.version \in Nat /\ r.version \in Nat /\ q.from \in Nat /\ q.to \in Days \cup {None}
    BY <1>3, <2>1, RowFacts
  <2>3. q.from <= h[n].from
    BY <1>2, <2>1, BeginsBy
  <2>4. ~Beside(q, ev)
    <3>1. ~(q.to # None /\ q.to < ev.start)
      <4>1. q.to # None => q.to \in Nat
        BY <2>2, RegistryAssumption DEF Days
      <4> QED
        BY <1>1, <1>2, <2>1, <4>1
    <3>2. ~(ev.end # None /\ q.from > ev.end)
      BY <1>1, <1>2, <2>1, <2>2
    <3> QED
      BY <3>1, <3>2 DEF Beside
  <2> QED
    BY <1>1, <1>3, <2>1, <2>2, <2>3, <2>4
<1>6. IsNewest(Covering(S, d), r)
  <2>1. r.from \in Nat
    BY <1>1, <1>2, <1>3
  <2>2. ASSUME NEW q \in Covering(S, d) PROVE q.from < r.from \/ (q.from = r.from /\ q.version <= r.version)
    BY <1>5, <2>1
  <2> QED
    BY <1>4, <2>2 DEF IsNewest
<1> QED
  BY <1>1, <1>3, <1>4, <1>5, <1>6 DEF ev

\* Before the n-th name is written at most the first rows are closed, on the day
\* before the first name.
LEMMA ClosedBefore ==
  ASSUME NEW S, Numbered(S), NEW h, Goes(h), Begins(S, h),
         NEW i \in Instruments, LastOf(coded[i]).code \in Codes,
         NEW n \in DOMAIN h, \A m \in 1..(n - 1) : Written(S, IntervalOf(i, h, m))
  PROVE  LET C == Closed(S, h[n].from - 1) IN
         /\ Numbered(C) /\ S \subseteq C
         /\ \A q \in C \ S : q.from = 0 /\ q.to # None /\ \A m \in DOMAIN h : Beside(q, IntervalOf(i, h, m))
<1> DEFINE day == h[n].from - 1
           C == Closed(S, day)
           previous == Newest(Covering(S, day))
<1>1. /\ Len(h) \in Nat \ {0} /\ DOMAIN h = 1..Len(h) /\ FirstDay \in Nat \ {0} /\ LastDay \in Nat
      /\ \A m \in DOMAIN h : h[m].from \in Nat /\ FirstDay <= h[m].from /\ h[m].from <= LastDay
      /\ \A l, m \in DOMAIN h : l < m => h[l].from < h[m].from
  BY GoesFacts
<1>2. day \in Days /\ day \in Nat /\ day # None /\ h[n].from = day + 1
  <2>1. h[n].from \in Nat /\ FirstDay <= h[n].from /\ h[n].from <= LastDay
    BY <1>1
  <2> QED
    BY <1>1, <2>1, RegistryAssumption DEF Days
<1> HIDE DEF day
<1>3. /\ Numbered(C) /\ S \subseteq C
      /\ \A a \in C \ S : /\ a.to = day /\ a.from = previous.from /\ Covering(S, day) # {}
                          /\ previous.to = None \/ previous.to > day
  BY <1>2, ClosedIs DEF Adds
<1>4. ASSUME NEW q \in C \ S
      PROVE  q.from = 0 /\ q.to # None /\ \A m \in DOMAIN h : Beside(q, IntervalOf(i, h, m))
  <2>1. n = 1
    <3> SUFFICES ASSUME n # 1 PROVE FALSE
      OBVIOUS
    <3>1. n - 1 \in DOMAIN h /\ n - 1 \in 1..(n - 1) /\ (n - 1) + 1 = n /\ n - 1 # Len(h) /\ n - 1 < n
      BY <1>1
    <3>2. h[n - 1].from <= day /\ day < h[n].from
      BY <1>1, <1>2, <3>1
    <3>3. IntervalOf(i, h, n - 1).end = day
      <4>1. IntervalOf(i, h, n - 1).end \in Nat /\ IntervalOf(i, h, n - 1).end + 1 = h[(n - 1) + 1].from
        BY <3>1, IntervalIs
      <4> QED
        BY <1>2, <3>1, <4>1
    <3>4. Written(S, IntervalOf(i, h, n - 1)) /\ day < h[(n - 1) + 1].from
      BY <3>1, <3>2
    <3>5. PICK r : r.to = IntervalOf(i, h, n - 1).end /\ IsNewest(Covering(S, day), r)
      BY <1>2, <3>1, <3>2, <3>4, WrittenLeads
    <3>6. Covering(S, day) \in SUBSET S
      BY DEF Covering
    <3>7. r = previous
      BY <1>3, <3>5, <3>6, NewestIs
    <3> QED
      BY <1>2, <1>3, <3>3, <3>5, <3>7
  <2>2. q.to = day /\ q.from = previous.from /\ Covering(S, day) # {}
    BY <1>3
  <2>3. previous \in S /\ previous.from <= day
    <3>1. Covering(S, day) \in SUBSET S
      BY DEF Covering
    <3>2. previous \in Covering(S, day)
      BY <2>2, <3>1, NewestIs DEF IsNewest
    <3> QED
      BY <3>2 DEF Covering, Covers
  <2>4. q.from = 0
    <3>1. ASSUME NEW m \in DOMAIN h, previous.from = h[m].from PROVE FALSE
      <4>1. h[n].from <= h[m].from
        BY <1>1, <2>1
      <4> QED
        BY <1>1, <1>2, <2>3, <3>1, <4>1
    <3> QED
      BY <2>2, <2>3, <3>1 DEF Begins
  <2>5. ASSUME NEW m \in DOMAIN h PROVE Beside(q, IntervalOf(i, h, m))
    <3>1. IntervalOf(i, h, m).start = h[m].from
      BY IntervalIs
    <3>2. h[n].from <= h[m].from
      BY <1>1, <2>1
    <3>3. q.to # None /\ q.to < h[m].from
      BY <1>1, <1>2, <2>2, <3>2
    <3> QED
      BY <3>1, <3>3 DEF Beside
  <2> QED
    BY <1>2, <2>2, <2>4, <2>5
<1> QED
  BY <1>3, <1>4 DEF C, day

\* Writing the n-th name after the earlier ones.
LEMMA WriteName ==
  ASSUME NEW S, Numbered(S), NEW h, Goes(h), Begins(S, h),
         NEW i \in Instruments, LastOf(coded[i]).code \in Codes,
         NEW n \in DOMAIN h, h[n].from <= EventsUntil,
         \A m \in 1..(n - 1) : Written(S, IntervalOf(i, h, m))
  PROVE  LET ev == IntervalOf(i, h, n)
             T == WithName(S, ev.name, ev.start, ev.end) IN
         /\ Begins(T, h)
         /\ \A m \in 1..n : Written(T, IntervalOf(i, h, m))
         /\ n < Len(h) => ResumedLast(T, ev)
<1> DEFINE ev == IntervalOf(i, h, n)
           T == WithName(S, ev.name, ev.start, ev.end)
           C == Closed(S, ev.start - 1)
<1>1. /\ Len(h) \in Nat \ {0} /\ DOMAIN h = 1..Len(h) /\ FirstDay \in Nat \ {0} /\ LastDay \in Nat
      /\ \A m \in DOMAIN h : h[m].from \in Nat
      /\ \A l, m \in DOMAIN h : l < m => h[l].from < h[m].from
  BY GoesFacts
<1>2. /\ ev \in Event /\ ev.name = h[n].name /\ ev.start = h[n].from
      /\ n = Len(h) => ev.end = None
      /\ n # Len(h) => /\ n + 1 \in DOMAIN h /\ ev.end \in Nat /\ ev.end # None
                       /\ ev.end + 1 = h[n + 1].from /\ ev.start <= ev.end
  BY IntervalIs
<1> HIDE DEF ev
<1>3. /\ Numbered(C) /\ S \subseteq C
      /\ \A q \in C \ S : q.from = 0 /\ q.to # None /\ \A m \in DOMAIN h : Beside(q, IntervalOf(i, h, m))
  BY <1>2, ClosedBefore
<1>4. PICK b : /\ b.name = ev.name /\ b.from = ev.start /\ b.to = ev.end
               /\ \A q \in C : q.version < b.version
               /\ ev.end = None => T = C \cup {b}
               /\ ev.end # None => \E c : /\ T = C \cup {b, c} /\ c.to = None /\ c.from = ev.end + 1
                                          /\ \A q \in C \cup {b} : q.version < c.version
  BY <1>2, WithNameIs
<1>5. Numbered(T)
  BY <1>2, NameKeepsCode
<1> HIDE DEF C, T
<1>6. C \subseteq T /\ b \in T
  BY <1>4
\* the resumed row
<1>7. ASSUME NEW q \in T, q \notin C, q # b
      PROVE  /\ ev.end # None /\ n # Len(h) /\ n + 1 \in DOMAIN h /\ q.to = None /\ q.from = h[n + 1].from
             /\ \A r \in T : r.version <= q.version
  <2>1. ev.end # None
    BY <1>4, <1>7
  <2>2. PICK c : /\ T = C \cup {b, c} /\ c.to = None /\ c.from = ev.end + 1
                 /\ \A r \in C \cup {b} : r.version < c.version
    BY <1>4, <2>1
  <2>3. q = c
    BY <1>7, <2>2
  <2>4. \A r \in T : r.version \in Nat
    BY <1>5, RowFacts
  <2>5. \A r \in T : r.version <= q.version
    BY <2>2, <2>3, <2>4
  <2> QED
    BY <1>2, <2>1, <2>2, <2>3, <2>5
<1>8. Begins(T, h)
  <2>1. \E r \in T : r.from = 0 /\ r.to = None
    BY <1>3, <1>6 DEF Begins
  <2>2. ASSUME NEW q \in T
        PROVE  \/ q.from = 0
               \/ \E m \in DOMAIN h : q.from = h[m].from /\ (m = 1 \/ h[m - 1].from <= EventsUntil)
    <3>1. CASE q \in S
      BY <3>1 DEF Begins
    <3>2. CASE q \in C \ S
      BY <1>3, <3>2
    <3>3. CASE q = b
      <4>1. n = 1 \/ h[n - 1].from <= EventsUntil
        <5>1. CASE n # 1
          <6>1. n - 1 \in DOMAIN h /\ n - 1 < n
            BY <1>1, <5>1
          <6>2. h[n - 1].from < h[n].from
            BY <1>1, <6>1
          <6>3. EventsUntil \in Nat /\ h[n - 1].from \in Nat /\ h[n].from \in Nat
            BY <1>1, <6>1, GoesFacts
          <6> QED
            BY <6>2, <6>3
        <5> QED
          BY <5>1
      <4> QED
        BY <1>2, <1>4, <3>3, <4>1
    <3>4. CASE q \notin C /\ q # b
      <4>1. q.from = h[n + 1].from /\ n + 1 \in DOMAIN h /\ (n + 1) - 1 = n
        BY <1>1, <1>7, <3>4
      <4> QED
        BY <4>1
    <3> QED
      BY <3>1, <3>2, <3>3, <3>4
  <2> QED
    BY <2>1, <2>2 DEF Begins
<1>9. ASSUME NEW m \in 1..(n - 1) PROVE Written(T, IntervalOf(i, h, m))
  <2>1. m \in DOMAIN h /\ m < n /\ m # Len(h) /\ m + 1 \in DOMAIN h /\ m + 1 <= n
    <3>1. m \in Nat /\ 1 <= m /\ m <= n - 1 /\ n \in Nat /\ n <= Len(h)
      BY <1>1
    <3>2. Len(h) \in Nat /\ DOMAIN h = 1..Len(h)
      BY <1>1
    <3>3. m < n
      BY <3>1
    <3>4. m + 1 <= n
      BY <3>1
    <3>5. m \in 1..Len(h)
      BY <3>1, <3>2, <3>3
    <3>6. m # Len(h)
      <4>1. m < Len(h)
        BY <3>1, <3>2, <3>3
      <4>2. ASSUME m = Len(h) PROVE FALSE
        BY <3>2, <4>1, <4>2
      <4> QED
        BY <4>2
    <3>7. m + 1 \in 1..Len(h)
      BY <3>1, <3>2, <3>3, <3>4
    <3> QED
      BY <3>2, <3>3, <3>4, <3>5, <3>6, <3>7
  <2>2. /\ IntervalOf(i, h, m).end # None /\ IntervalOf(i, h, m).end \in Nat
        /\ IntervalOf(i, h, m).end + 1 = h[m + 1].from
    BY <2>1, IntervalIs
  <2>3. h[m + 1].from <= h[n].from
    BY <1>1, <2>1
  <2>4. IntervalOf(i, h, m).end < h[n].from
    BY <1>1, <2>1, <2>2, <2>3
  <2>5. ASSUME NEW q \in T \ S PROVE Beside(q, IntervalOf(i, h, m))
    <3>1. CASE q \in C
      BY <1>3, <2>1, <3>1
    <3>2. CASE q = b
      BY <1>2, <1>4, <2>2, <2>4, <3>2 DEF Beside
    <3>3. CASE q \notin C /\ q # b
      <4>1. q.from = h[n + 1].from /\ n + 1 \in DOMAIN h
        BY <1>7, <3>3
      <4>2. h[n].from < h[n + 1].from
        BY <1>1, <4>1
      <4>3. q.from > IntervalOf(i, h, m).end
        BY <1>1, <2>2, <2>4, <4>1, <4>2
      <4> QED
        BY <2>2, <4>3 DEF Beside
    <3> QED
      BY <3>1, <3>2, <3>3
  <2>6. S \subseteq T
    BY <1>3, <1>6
  <2> QED
    BY <2>5, <2>6, WrittenKept
<1>10. Written(T, ev)
  <2>1. ASSUME NEW q \in T, q.version > b.version PROVE Beside(q, ev)
    <3>1. q \notin C /\ q # b
      <4>1. q.version \in Nat /\ b.version \in Nat
        BY <1>5, <1>6, RowFacts
      <4> QED
        BY <1>4, <2>1, <4>1
    <3>2. ev.end # None /\ q.from = ev.end + 1 /\ ev.end \in Nat
      BY <1>2, <1>7, <3>1
    <3> QED
      BY <3>2 DEF Beside
  <2> QED
    BY <1>4, <1>6, <2>1 DEF Written
<1>11. ASSUME n < Len(h) PROVE ResumedLast(T, ev)
  <2>1. ev.end # None
    BY <1>2, <1>11
  <2>2. PICK c : /\ T = C \cup {b, c} /\ c.to = None /\ c.from = ev.end + 1
                 /\ \A r \in C \cup {b} : r.version < c.version
    BY <1>4, <2>1
  <2>3. \A r \in T : r.version \in Nat
    BY <1>5, RowFacts
  <2>4. \A r \in T : r.version <= c.version
    BY <2>2, <2>3
  <2> QED
    BY <2>2, <2>4 DEF ResumedLast
<1>12. \A m \in 1..n : m = n \/ m \in 1..(n - 1)
  BY <1>1
<1> QED
  BY <1>8, <1>9, <1>10, <1>11, <1>12 DEF ev, T
-----------------------------------------------------------------------------
(* What is read after a complete build *)

\* Versions are different, so that the highest is one row's.
LEMMA HighestIs ==
  ASSUME NEW S, Numbered(S), NEW T \in SUBSET S, NEW r \in T,
         IsNewest(T, r), \A q \in T : q.version <= r.version
  PROVE  HighestVersion(T) = r /\ Newest(T) = r
<1>1. Newest(T) = r
  BY NewestIs
<1> DEFINE H(x) == \A q \in T : q.version <= x.version
           x == CHOOSE x \in T : H(x)
<1>2. x \in T /\ H(x)
  OBVIOUS
<1>3. x = r
  <2>1. \A q \in T : q \in S /\ q.version \in Nat
    BY RowFacts
  <2> HIDE DEF x
  <2>2. x.version = r.version
    BY <1>2, <2>1
  <2> QED
    BY <1>2, <2>1, <2>2 DEF Numbered
<1>4. HighestVersion(T) = x
  BY DEF HighestVersion
<1> QED
  BY <1>1, <1>3, <1>4

\* No row begins later than the first name that was not asked for.
LEMMA BeginsByNext ==
  ASSUME NEW S, NEW h, Goes(h), Begins(S, h), NEW n \in DOMAIN h, n + 1 \in DOMAIN h,
         h[n + 1].from > EventsUntil, NEW q \in S
  PROVE  q.from \in Nat /\ q.from <= h[n + 1].from
<1>1. /\ Len(h) \in Nat \ {0} /\ DOMAIN h = 1..Len(h) /\ EventsUntil \in Nat
      /\ \A m \in DOMAIN h : h[m].from \in Nat
      /\ \A l, m \in DOMAIN h : l < m <=> h[l].from < h[m].from
  BY GoesFacts
<1>2. CASE q.from = 0
  BY <1>1, <1>2
<1>3. ASSUME NEW m \in DOMAIN h, q.from = h[m].from, m = 1 \/ h[m - 1].from <= EventsUntil,
             ~(q.from <= h[n + 1].from)
      PROVE  FALSE
  <2>1. n + 1 < m
    BY <1>1, <1>3
  <2>2. m # 1 /\ m - 1 \in DOMAIN h /\ n + 1 <= m - 1
    BY <1>1, <2>1
  <2>3. h[n + 1].from <= h[m - 1].from
    BY <1>1, <2>2
  <2> QED
    BY <1>1, <1>3, <2>2, <2>3
<1> QED
  BY <1>1, <1>2, <1>3 DEF Begins

\* Every interval that was asked for is written, and the last one resumed.
Complete(S, i, h) ==
  \A n \in DOMAIN h : h[n].from <= EventsUntil =>
    /\ Written(S, IntervalOf(i, h, n))
    /\ n < Len(h) /\ h[n + 1].from > EventsUntil => ResumedLast(S, IntervalOf(i, h, n))

\* The last name that began by a day, and was asked for.
LEMMA LastBegun ==
  ASSUME NEW h, Goes(h), NEW d \in Nat, FirstDay <= d
  PROVE  \E n \in DOMAIN h : /\ h[n].from <= d /\ \A m \in DOMAIN h : h[m].from <= d => m <= n
<1>1. /\ Len(h) \in Nat \ {0} /\ DOMAIN h = 1..Len(h) /\ \A m \in DOMAIN h : h[m].from \in Nat
  BY GoesFacts
<1> DEFINE begun == {m \in DOMAIN h : h[m].from <= d}
<1>2. begun # {} /\ \A m \in begun : m \in Nat /\ m <= Len(h)
  <2>1. 1 \in DOMAIN h /\ h[1].from = FirstDay
    BY <1>1 DEF Goes
  <2> QED
    BY <1>1, <2>1
<1>3. \E n \in begun : \A m \in begun : m <= n
  <2> HIDE DEF begun
  <2> QED
    BY <1>1, <1>2, GreatestNumber
<1> QED
  BY <1>3

\* The row that counts on a day is the last one, and has the name in force if the
\* day was asked for.
LEMMA DayRead ==
  ASSUME NEW S, Numbered(S), NEW h, Goes(h), Begins(S, h),
         NEW i \in Instruments, LastOf(coded[i]).code \in Codes, Complete(S, i, h), NEW d \in Days
  PROVE  /\ HighestVersion(Covering(S, d)) = Newest(Covering(S, d))
         /\ FirstDay <= d /\ d <= EventsUntil => Newest(Covering(S, d)).name = OnDay(h, d).name
<1>1. /\ Len(h) \in Nat \ {0} /\ DOMAIN h = 1..Len(h) /\ EventsUntil \in Nat /\ d \in Nat
      /\ FirstDay \in Nat \ {0} /\ FirstDay <= EventsUntil
      /\ \A m \in DOMAIN h : h[m].from \in Nat /\ FirstDay <= h[m].from
      /\ \A l, m \in DOMAIN h : l < m <=> h[l].from < h[m].from
  BY GoesFacts, RegistryAssumption DEF Days
<1>2. Covering(S, d) \in SUBSET S
  BY DEF Covering
<1>3. CASE d < FirstDay
  <2>1. \A q \in Covering(S, d) : q.from = 0
    <3>1. \A q \in Covering(S, d) : q \in S /\ q.from <= d
      BY DEF Covering, Covers
    <3> QED
      BY <1>1, <1>3, <3>1 DEF Begins
  <2>2. Covering(S, d) # {}
    <3>1. PICK r \in S : r.from = 0 /\ r.to = None
      BY DEF Begins
    <3>2. r \in Covering(S, d)
      BY <1>1, <3>1 DEF Covering, Covers
    <3> QED
      BY <3>2
  <2>3. IsNewest(Covering(S, d), Newest(Covering(S, d)))
    BY <1>2, <2>2, NewestIs
  <2>4. \A q \in Covering(S, d) : q.version <= Newest(Covering(S, d)).version
    BY <2>1, <2>3 DEF IsNewest
  <2>5. Newest(Covering(S, d)) \in Covering(S, d)
    BY <2>3 DEF IsNewest
  <2> QED
    BY <1>1, <1>2, <1>3, <2>3, <2>4, <2>5, HighestIs
<1>4. CASE FirstDay <= d
  <2> DEFINE day == IF d <= EventsUntil THEN d ELSE EventsUntil
  <2>1. day \in Nat /\ FirstDay <= day /\ day <= d /\ day <= EventsUntil /\ (d <= EventsUntil => day = d)
    BY <1>1, <1>4
  <2> HIDE DEF day
  <2>2. PICK n \in DOMAIN h : h[n].from <= day /\ \A m \in DOMAIN h : h[m].from <= day => m <= n
    BY <2>1, LastBegun
  <2>3. h[n].from <= d /\ h[n].from <= EventsUntil /\ h[n].from \in Nat /\ n \in Nat
    BY <1>1, <2>1, <2>2
  <2>4. Written(S, IntervalOf(i, h, n))
    BY <2>3 DEF Complete
  <2>5. n # Len(h) => n + 1 \in DOMAIN h /\ h[n + 1].from \in Nat /\ h[n + 1].from > day
    <3> SUFFICES ASSUME n # Len(h)
                 PROVE  n + 1 \in DOMAIN h /\ h[n + 1].from \in Nat /\ h[n + 1].from > day
      OBVIOUS
    <3>1. n + 1 \in DOMAIN h /\ n \in Nat
      BY <1>1
    <3>2. ~(n + 1 <= n)
      BY <3>1
    <3>3. h[n + 1].from \in Nat
      BY <1>1, <3>1
    <3> QED
      BY <2>1, <2>2, <3>1, <3>2, <3>3
  <2>6. CASE n = Len(h) \/ d < h[n + 1].from
    <3>1. PICK r : /\ r \in Covering(S, d) /\ r.name = h[n].name
                   /\ IsNewest(Covering(S, d), r) /\ \A q \in Covering(S, d) : q.version <= r.version
      BY <2>3, <2>4, <2>6, WrittenLeads
    <3>2. HighestVersion(Covering(S, d)) = r /\ Newest(Covering(S, d)) = r
      BY <1>2, <3>1, HighestIs
    <3>3. ASSUME d <= EventsUntil PROVE OnDay(h, d) = h[n]
      <4> DEFINE begun == {m \in DOMAIN h : h[m].from <= d}
                 last == CHOOSE k \in begun : \A m \in begun : m <= k
      <4>1. n \in begun /\ \A m \in begun : m <= n
        BY <2>1, <2>2, <3>3
      <4>2. last \in begun /\ \A m \in begun : m <= last
        <5> HIDE DEF begun
        <5> QED
          BY <4>1
      <4>3. last = n
        <5>1. last \in Nat /\ n \in Nat
          BY <1>1, <4>2
        <5> HIDE DEF last, begun
        <5> QED
          BY <4>1, <4>2, <5>1
      <4>4. OnDay(h, d) = h[last]
        BY DEF OnDay
      <4> QED
        BY <4>3, <4>4
    <3> QED
      BY <3>1, <3>2, <3>3
  <2>7. CASE ~(n = Len(h) \/ d < h[n + 1].from)
    <3>1. n # Len(h) /\ n + 1 \in DOMAIN h /\ h[n + 1].from <= d /\ h[n + 1].from > day /\ n < Len(h)
      BY <1>1, <2>5, <2>7
    <3>2. d > EventsUntil /\ day = EventsUntil
      BY <1>1, <2>1, <3>1 DEF day
    <3>3. ResumedLast(S, IntervalOf(i, h, n))
      BY <2>3, <3>1, <3>2 DEF Complete
    <3>4. IntervalOf(i, h, n).end + 1 = h[n + 1].from
      BY <3>1, IntervalIs
    <3>5. PICK r \in S : r.to = None /\ r.from = h[n + 1].from /\ \A q \in S : q.version <= r.version
      BY <3>3, <3>4 DEF ResumedLast
    <3>6. r \in Covering(S, d)
      BY <3>1, <3>5 DEF Covering, Covers
    <3>7. \A q \in S : q.from \in Nat /\ q.from <= h[n + 1].from
      BY <2>3, <3>1, <3>2, BeginsByNext
    <3>8. IsNewest(Covering(S, d), r)
      <4>1. r.from \in Nat
        BY <1>1, <3>1, <3>5
      <4>2. ASSUME NEW q \in Covering(S, d) PROVE q.from < r.from \/ (q.from = r.from /\ q.version <= r.version)
        BY <1>2, <3>5, <3>7, <4>1
      <4> QED
        BY <3>6, <4>2 DEF IsNewest
    <3>9. \A q \in Covering(S, d) : q.version <= r.version
      BY <1>2, <3>5
    <3>10. HighestVersion(Covering(S, d)) = Newest(Covering(S, d))
      BY <1>2, <3>6, <3>8, <3>9, HighestIs
    <3> QED
      BY <1>1, <3>2, <3>10
  <2> QED
    BY <2>6, <2>7
<1> QED
  BY <1>1, <1>3, <1>4

\* The open row that counts is the last one.
LEMMA OpenRead ==
  ASSUME NEW S, Numbered(S), NEW h, Goes(h), Begins(S, h),
         NEW i \in Instruments, LastOf(coded[i]).code \in Codes, Complete(S, i, h)
  PROVE  HighestVersion(Opened(S)) = Newest(Opened(S))
<1>1. /\ Len(h) \in Nat \ {0} /\ DOMAIN h = 1..Len(h) /\ EventsUntil \in Nat /\ LastDay \in Nat
      /\ FirstDay <= EventsUntil /\ \A m \in DOMAIN h : h[m].from \in Nat
  BY GoesFacts
<1>2. PICK n \in DOMAIN h : /\ h[n].from <= EventsUntil
                            /\ \A m \in DOMAIN h : h[m].from <= EventsUntil => m <= n
  BY <1>1, LastBegun
<1>3. Written(S, IntervalOf(i, h, n))
  BY <1>2 DEF Complete
<1>4. SUFFICES ASSUME NEW r \in S, r.to = None, \A q \in Opened(S) : q.version <= r.version,
                      \A q \in S : q.from \in Nat /\ q.from <= r.from
               PROVE  HighestVersion(Opened(S)) = Newest(Opened(S))
  <2>1. CASE n = Len(h)
    <3>1. IntervalOf(i, h, n).end = None /\ IntervalOf(i, h, n).start = h[n].from
      BY <2>1, IntervalIs
    <3>2. PICK r \in S : /\ r.from = h[n].from /\ r.to = None
                         /\ \A q \in S : q.version > r.version => Beside(q, IntervalOf(i, h, n))
      BY <1>3, <3>1 DEF Written
    <3>3. \A q \in S : q.from \in Nat /\ q.from <= r.from
      <4>1. \A q \in S : q.from <= LastDay
        BY RowFacts
      <4> QED
        BY <1>1, <2>1, <3>2, <4>1, BeginsBy
    <3>4. ASSUME NEW q \in Opened(S) PROVE q.version <= r.version
      <4>1. q \in S /\ q.to = None
        BY DEF Opened
      <4>2. ~Beside(q, IntervalOf(i, h, n))
        BY <3>1, <4>1 DEF Beside
      <4>3. q.version \in Nat /\ r.version \in Nat
        BY <4>1, RowFacts
      <4> QED
        BY <3>2, <4>1, <4>2, <4>3
    <3> QED
      BY <1>4, <3>2, <3>3, <3>4
  <2>2. CASE n # Len(h)
    <3>1. n + 1 \in DOMAIN h /\ n < Len(h) /\ n \in Nat
      BY <1>1, <2>2
    <3>2. h[n + 1].from > EventsUntil
      <4>1. ~(n + 1 <= n)
        BY <3>1
      <4>2. h[n + 1].from \in Nat
        BY <1>1, <3>1
      <4> QED
        BY <1>1, <1>2, <3>1, <4>1, <4>2
    <3>3. ResumedLast(S, IntervalOf(i, h, n)) /\ IntervalOf(i, h, n).end + 1 = h[n + 1].from
      BY <1>2, <2>2, <3>1, <3>2, IntervalIs DEF Complete
    <3>4. PICK r \in S : r.to = None /\ r.from = h[n + 1].from /\ \A q \in S : q.version <= r.version
      BY <3>3 DEF ResumedLast
    <3>5. \A q \in S : q.from \in Nat /\ q.from <= r.from
      BY <3>1, <3>2, <3>4, BeginsByNext
    <3>6. \A q \in Opened(S) : q.version <= r.version
      BY <3>4 DEF Opened
    <3> QED
      BY <1>4, <3>4, <3>5, <3>6
  <2> QED
    BY <2>1, <2>2
<1>5. Opened(S) \in SUBSET S /\ r \in Opened(S)
  BY <1>4 DEF Opened
<1>6. IsNewest(Opened(S), r)
  <2>1. ASSUME NEW q \in Opened(S) PROVE q.from < r.from \/ (q.from = r.from /\ q.version <= r.version)
    BY <1>4, <1>5
  <2> QED
    BY <1>5, <2>1 DEF IsNewest
<1> QED
  BY <1>4, <1>5, <1>6, HighestIs
-----------------------------------------------------------------------------
(* Sequences one behind the other *)

\* f has the members of the first n sequences in s, in their order.
InOrder(f, s, n) ==
  /\ \A a \in DOMAIN f : \E k \in 1..n : \E j \in DOMAIN s[k] : f[a] = s[k][j]
  /\ \A k \in 1..n : \A j \in DOMAIN s[k] : \E a \in DOMAIN f : f[a] = s[k][j]
  /\ \A a, b \in DOMAIN f : a < b =>
       \E k, l \in 1..n : \E i \in DOMAIN s[k], j \in DOMAIN s[l] :
         f[a] = s[k][i] /\ f[b] = s[l][j] /\ (k < l \/ (k = l /\ i < j))

LEMMA InOrderMore ==
  ASSUME NEW T, NEW s \in Seq(Seq(T)), NEW n \in Nat, n + 1 \in DOMAIN s,
         NEW f \in Seq(T), InOrder(f, s, n)
  PROVE  InOrder(f \o s[n + 1], s, n + 1)
<1> DEFINE t == s[n + 1]
           g == f \o t
           L == Len(f)
<1>1. /\ t \in Seq(T) /\ Len(t) \in Nat /\ DOMAIN t = 1..Len(t) /\ L \in Nat /\ DOMAIN f = 1..L
      /\ DOMAIN g = 1..(L + Len(t)) /\ (\A a \in 1..L : g[a] = f[a])
      /\ \A a \in 1..Len(t) : g[L + a] = t[a]
  <2>1. t \in Seq(T)
    OBVIOUS
  <2> HIDE DEF t
  <2> QED
    BY <2>1
<1>2. \A a \in DOMAIN g : a \in DOMAIN f \/ (a > L /\ a - L \in DOMAIN t /\ g[a] = t[a - L])
  <2> SUFFICES ASSUME NEW a \in DOMAIN g, a \notin DOMAIN f
               PROVE  a > L /\ a - L \in DOMAIN t /\ g[a] = t[a - L]
    OBVIOUS
  <2> HIDE DEF g, t, L
  <2>1. a \in Nat /\ a > L /\ a - L \in 1..Len(t) /\ L + (a - L) = a
    BY <1>1
  <2> QED
    BY <1>1, <2>1
<1>3. \A k \in 1..(n + 1) : k \in 1..n \/ k = n + 1
  OBVIOUS
<1>4. \A k \in 1..n : k \in 1..(n + 1) /\ k < n + 1
  OBVIOUS
<1>5. n + 1 \in 1..(n + 1)
  OBVIOUS
<1> HIDE DEF g, L
<1>6. ASSUME NEW a \in DOMAIN g
      PROVE  \E k \in 1..(n + 1) : \E j \in DOMAIN s[k] : g[a] = s[k][j]
  <2>1. CASE a \in DOMAIN f
    <3>1. PICK k \in 1..n : \E j \in DOMAIN s[k] : f[a] = s[k][j]
      BY <2>1 DEF InOrder
    <3>2. g[a] = f[a]
      BY <1>1, <2>1
    <3> QED
      BY <1>4, <3>1, <3>2
  <2>2. CASE a \notin DOMAIN f
    BY <1>2, <1>5, <2>2
  <2> QED
    BY <2>1, <2>2
<1>7. ASSUME NEW k \in 1..(n + 1), NEW j \in DOMAIN s[k]
      PROVE  \E a \in DOMAIN g : g[a] = s[k][j]
  <2>1. CASE k \in 1..n
    <3>1. PICK a \in DOMAIN f : f[a] = s[k][j]
      BY <2>1 DEF InOrder
    <3>2. a \in DOMAIN g /\ g[a] = f[a]
      BY <1>1
    <3> QED
      BY <3>1, <3>2
  <2>2. CASE k = n + 1
    <3>1. s[k] = t /\ j \in DOMAIN t
      BY <2>2
    <3>2. L + j \in DOMAIN g /\ g[L + j] = t[j]
      <4> HIDE DEF t
      <4> QED
        BY <1>1, <3>1
    <3> QED
      BY <3>1, <3>2
  <2> QED
    BY <1>3, <2>1, <2>2
<1>8. ASSUME NEW a \in DOMAIN g, NEW b \in DOMAIN g, a < b
      PROVE  \E k, l \in 1..(n + 1) : \E i \in DOMAIN s[k], j \in DOMAIN s[l] :
               g[a] = s[k][i] /\ g[b] = s[l][j] /\ (k < l \/ (k = l /\ i < j))
  <2>1. CASE a \in DOMAIN f /\ b \in DOMAIN f
    <3>1. g[a] = f[a] /\ g[b] = f[b]
      BY <1>1, <2>1
    <3>a. \E k, l \in 1..n : \E i \in DOMAIN s[k], j \in DOMAIN s[l] :
            f[a] = s[k][i] /\ f[b] = s[l][j] /\ (k < l \/ (k = l /\ i < j))
      <4>1. \A x, y \in DOMAIN f : x < y =>
              \E k, l \in 1..n : \E i \in DOMAIN s[k], j \in DOMAIN s[l] :
                f[x] = s[k][i] /\ f[y] = s[l][j] /\ (k < l \/ (k = l /\ i < j))
        BY DEF InOrder
      <4> QED
        BY <1>8, <2>1, <4>1
    <3>2. PICK k \in 1..n, l \in 1..n : \E i \in DOMAIN s[k], j \in DOMAIN s[l] :
            f[a] = s[k][i] /\ f[b] = s[l][j] /\ (k < l \/ (k = l /\ i < j))
      BY <3>a
    <3>3. k \in 1..(n + 1) /\ l \in 1..(n + 1)
      BY <1>4
    <3> QED
      BY <3>1, <3>2, <3>3
  <2>2. CASE a \in DOMAIN f /\ b \notin DOMAIN f
    <3>1. PICK k \in 1..n : \E i \in DOMAIN s[k] : g[a] = s[k][i]
      <4>1. PICK k \in 1..n : \E i \in DOMAIN s[k] : f[a] = s[k][i]
        BY <2>2 DEF InOrder
      <4>2. g[a] = f[a]
        BY <1>1, <2>2
      <4> QED
        BY <4>1, <4>2
    <3>2. b - L \in DOMAIN t /\ g[b] = t[b - L]
      BY <1>2, <2>2
    <3> QED
      BY <1>4, <1>5, <3>1, <3>2
  <2>3. CASE a \notin DOMAIN f
    <3>1. a > L /\ a - L \in DOMAIN t /\ g[a] = t[a - L]
      BY <1>2, <2>3
    <3>2. b \notin DOMAIN f
      BY <1>1, <1>8, <3>1
    <3>3. b - L \in DOMAIN t /\ g[b] = t[b - L]
      BY <1>2, <3>2
    <3>4. a - L < b - L
      BY <1>1, <1>8
    <3> QED
      BY <1>5, <3>1, <3>3, <3>4
  <2> QED
    BY <2>1, <2>2, <2>3
<1> QED
  BY <1>6, <1>7, <1>8 DEF InOrder, g

LEMMA FlattenOrder ==
  ASSUME NEW T, NEW s \in Seq(Seq(T))
  PROVE  InOrder(FlattenSeq(s), s, Len(s))
<1>1. Len(s) \in Nat /\ DOMAIN s = 1..Len(s) /\ \A k \in DOMAIN s : s[k] \in Seq(T)
  OBVIOUS
<1>2. CASE s = << >>
  <2>1. FlattenSeq(s) = << >> /\ Len(s) = 0
    BY <1>2 DEF FlattenSeq
  <2> QED
    BY <1>1, <2>1 DEF InOrder
<1>3. CASE s # << >>
  <2>1. PICK f : /\ f[Len(s)] = FlattenSeq(s)
                 /\ \A i \in 1..Len(s) : f[i] \in Seq(T) /\ f[i] = IF i = 1 THEN s[i] ELSE f[i - 1] \o s[i]
    BY <1>3, FlattenSteps
  <2> DEFINE U == {n \in 1..Len(s) : ~InOrder(f[n], s, n)}
  <2>2. U = {}
    <3> SUFFICES ASSUME U # {} PROVE FALSE
      OBVIOUS
    <3>1. PICK n \in U : \A m \in U : n <= m
      <4>1. U \in SUBSET Nat
        BY <1>1
      <4> HIDE DEF U
      <4> QED
        BY <4>1, LeastNumber
    <3>2. n \in 1..Len(s) /\ ~InOrder(f[n], s, n) /\ n \in Nat
      BY <1>1
    <3>3. CASE n = 1
      <4>0. 1 \in 1..1 /\ (\A k \in 1..1 : k = 1)
        OBVIOUS
      <4>1. f[n] = s[1]
        BY <2>1, <3>2, <3>3
      <4>2. InOrder(s[1], s, 1)
        <5>1. \A a \in DOMAIN s[1] : \E k \in 1..1 : \E j \in DOMAIN s[k] : s[1][a] = s[k][j]
          BY <4>0
        <5>2. \A k \in 1..1 : \A j \in DOMAIN s[k] : \E a \in DOMAIN s[1] : s[1][a] = s[k][j]
          BY <4>0
        <5>3. \A a, b \in DOMAIN s[1] : a < b =>
                \E k, l \in 1..1 : \E i \in DOMAIN s[k], j \in DOMAIN s[l] :
                  s[1][a] = s[k][i] /\ s[1][b] = s[l][j] /\ (k < l \/ (k = l /\ i < j))
          BY <4>0
        <5> QED
          BY <5>1, <5>2, <5>3 DEF InOrder
      <4> QED
        BY <3>2, <3>3, <4>1, <4>2
    <3>4. CASE n # 1
      <4>1. PICK m \in Nat : n = m + 1 /\ m \in 1..Len(s) /\ m + 1 \in 1..Len(s)
        BY <1>1, <3>2, <3>4
      <4>2. InOrder(f[m], s, m)
        BY <1>1, <3>1, <4>1
      <4>3. f[m] \in Seq(T) /\ f[m + 1] = f[m] \o s[m + 1]
        <5>1. m + 1 # 1 /\ (m + 1) - 1 = m
          BY <4>1
        <5>2. f[m + 1] = IF m + 1 = 1 THEN s[m + 1] ELSE f[(m + 1) - 1] \o s[m + 1]
          BY <2>1, <4>1
        <5>3. f[m] \in Seq(T)
          BY <2>1, <4>1
        <5> QED
          BY <5>1, <5>2, <5>3
      <4>4. InOrder(f[m] \o s[m + 1], s, m + 1)
        BY <1>1, <4>1, <4>2, <4>3, InOrderMore
      <4> QED
        BY <3>2, <4>1, <4>3, <4>4
    <3> QED
      BY <3>3, <3>4
  <2>3. Len(s) \in 1..Len(s)
    BY <1>1, <1>3
  <2> QED
    BY <2>1, <2>2, <2>3
<1> QED
  BY <1>2, <1>3
-----------------------------------------------------------------------------
(* The names a build gets *)

LEMMA NamedGoes ==
  ASSUME TypeOK, NamesForward, NEW i \in Instruments
  PROVE  Goes(named[i])
<1>1. named[i] \in Seq([name : Names, from : 1..LastDay]) /\ named[i] # << >>
  BY DEF TypeOK
<1> QED
  BY <1>1 DEF Goes, Named, NamesForward

\* How the names began is a history too.
LEMMA PrefixGoes ==
  ASSUME NEW h, Goes(h), NEW n \in DOMAIN h
  PROVE  /\ Goes(SubSeq(h, 1, n)) /\ Len(SubSeq(h, 1, n)) = n /\ DOMAIN SubSeq(h, 1, n) = 1..n
         /\ \A k \in 1..n : k \in DOMAIN h /\ SubSeq(h, 1, n)[k] = h[k]
<1> DEFINE g == SubSeq(h, 1, n)
<1>1. Len(h) \in Nat \ {0} /\ DOMAIN h = 1..Len(h) /\ h \in Seq(Named)
  BY GoesFacts DEF Goes
<1>2. /\ g \in Seq(Named) /\ Len(g) = n /\ DOMAIN g = 1..n
      /\ \A k \in 1..n : k \in DOMAIN h /\ g[k] = h[k]
  <2> HIDE DEF Named
  <2> QED
    BY <1>1
<1> HIDE DEF g
<1>3. g # << >> /\ 1 \in 1..n
  BY <1>1, <1>2
<1> QED
  BY <1>2, <1>3 DEF Goes, g

\* An instrument has a code, and no other one has it.
LEMMA CodeIs ==
  ASSUME TypeOK, CodesApart, NEW i \in Instruments
  PROVE  /\ LastOf(coded[i]).code \in Codes
         /\ \A j \in Instruments : LastOf(coded[j]).code = LastOf(coded[i]).code => j = i
<1>1. \A j \in Instruments : LastOf(coded[j]) \in [code : Codes, from : Days]
  <2> SUFFICES ASSUME NEW j \in Instruments PROVE LastOf(coded[j]) \in [code : Codes, from : Days]
    OBVIOUS
  <2> DEFINE Code == [code : Codes, from : Days]
  <2>1. coded[j] \in Seq(Code) /\ Len(coded[j]) \in Nat \ {0}
    BY History
  <2> HIDE DEF Code
  <2>2. LastOf(coded[j]) \in Code
    BY <2>1 DEF LastOf
  <2> QED
    BY <2>2 DEF Code
<1>2. LastDay \in Days
  BY RegistryAssumption DEF Days
<1>3. \A j \in Instruments : CodeOn(j, LastDay) = LastOf(coded[j]).code
  <2> SUFFICES ASSUME NEW j \in Instruments PROVE CodeOn(j, LastDay) = LastOf(coded[j]).code
    OBVIOUS
  <2>1. coded[j][Len(coded[j])].from <= LastDay
    BY <1>1, RegistryAssumption DEF LastOf, Days
  <2>2. InForce(j, Len(coded[j]), LastDay)
    BY <1>2, <2>1, InForceFacts
  <2> QED
    BY <1>2, <2>2, InForceFacts DEF LastOf
<1> QED
  BY <1>1, <1>2, <1>3 DEF CodesApart

\* What is reported of an instrument: the intervals of the names that begin by the
\* last day asked for, in their order.
LEMMA ReportedAre ==
  ASSUME TypeOK, CodesApart, NamesForward, NEW i \in Instruments
  PROVE  /\ \A k \in DOMAIN Reported(i) : /\ k \in DOMAIN named[i] /\ named[i][k].from <= EventsUntil
                                          /\ Reported(i)[k] = IntervalOf(i, named[i], k)
         /\ \A k \in DOMAIN named[i] : named[i][k].from <= EventsUntil => k \in DOMAIN Reported(i)
<1> DEFINE h == named[i]
           begun == {k \in DOMAIN h : h[k].from <= EventsUntil}
           all == Intervals(i)
<1>1. Goes(h)
  BY NamedGoes
<1>2. /\ Len(h) \in Nat \ {0} /\ DOMAIN h = 1..Len(h) /\ EventsUntil \in Nat /\ FirstDay <= EventsUntil
      /\ \A k \in DOMAIN h : h[k].from \in Nat
      /\ \A m, k \in DOMAIN h : m < k <=> h[m].from < h[k].from
  BY <1>1, GoesFacts
<1>3. PICK n \in DOMAIN h : h[n].from <= EventsUntil /\ \A k \in DOMAIN h : h[k].from <= EventsUntil => k <= n
  BY <1>1, <1>2, LastBegun
<1>4. begun = 1..n
  <2>1. \A k \in begun : k \in 1..n
    BY <1>2, <1>3
  <2>2. ASSUME NEW k \in 1..n PROVE k \in begun
    <3>1. k \in DOMAIN h /\ (k = n \/ k < n)
      BY <1>2
    <3>2. h[k].from <= h[n].from
      BY <1>2, <3>1
    <3> QED
      BY <1>2, <1>3, <3>1, <3>2
  <2> HIDE DEF begun
  <2> QED
    BY <2>1, <2>2
<1>5. Cardinality(begun) = n /\ n \in Nat
  <2>1. n \in Nat /\ Cardinality(1..n) = n
    <3>1. n \in Nat
      BY <1>2
    <3>2. \A m \in Nat : Cardinality(1..m) = m
      BY FS_Interval
    <3> QED
      BY <3>1, <3>2
  <2> QED
    BY <1>4, <2>1
<1>6. Reported(i) = SubSeq(all, 1, n)
  BY <1>5 DEF Reported
<1>7. /\ all \in Seq({all[k] : k \in 1..Len(h)}) /\ Len(all) = Len(h)
      /\ \A k \in DOMAIN h : all[k] = IntervalOf(i, h, k)
  <2>1. all = [k \in 1..Len(h) |-> IntervalOf(i, h, k)]
    BY <1>2 DEF Intervals
  <2> HIDE DEF all
  <2> QED
    BY <1>2, <2>1
<1>8. n \in 1..Len(h)
  BY <1>2
<1> HIDE DEF all, h, begun
<1>9. DOMAIN SubSeq(all, 1, n) = 1..n /\ \A k \in 1..n : SubSeq(all, 1, n)[k] = all[k]
  <2>1. PICK T : all \in Seq(T)
    BY <1>7
  <2> QED
    BY <1>2, <1>5, <1>7, <1>8, <2>1
<1>10. \A k \in DOMAIN h : h[k].from <= EventsUntil <=> k \in 1..n
  BY <1>4 DEF begun
<1>11. \A k \in 1..n : k \in DOMAIN h
  BY <1>2, <1>8
<1> QED
  BY <1>6, <1>7, <1>9, <1>10, <1>11 DEF h

\* The events of a build: every interval that was asked for, those of an instrument
\* in their order.
LEMMA EventsAre ==
  ASSUME TypeOK, CodesApart, NamesForward
  PROVE  LET all == FlattenSeq([k \in DOMAIN Order |-> Reported(Order[k])]) IN
         /\ \A a \in DOMAIN all : \E i \in Instruments : \E n \in DOMAIN named[i] :
              named[i][n].from <= EventsUntil /\ all[a] = IntervalOf(i, named[i], n)
         /\ \A a, b \in DOMAIN all : a < b /\ all[a].code = all[b].code => all[a].start < all[b].start
         /\ \A i \in Instruments : \A n \in DOMAIN named[i] : named[i][n].from <= EventsUntil =>
              \E a \in DOMAIN all : all[a] = IntervalOf(i, named[i], n)
<1> DEFINE parts == [k \in DOMAIN Order |-> Reported(Order[k])]
           all == FlattenSeq(parts)
<1>1. /\ Order \in Seq(Instruments) /\ DOMAIN Order = 1..Len(Order) /\ Len(Order) \in Nat
      /\ (\A k \in DOMAIN Order : Order[k] \in Instruments)
      /\ (\A i \in Instruments : \E k \in DOMAIN Order : Order[k] = i)
      /\ \A j, k \in DOMAIN Order : Order[j] = Order[k] => j = k
  BY SetToSeqIs, RegistryAssumption DEF Order
<1>2. parts \in Seq(Seq(Event)) /\ Len(parts) = Len(Order) /\ \A k \in 1..Len(Order) : parts[k] = Reported(Order[k])
  <2>1. \A k \in DOMAIN Order : Reported(Order[k]) \in Seq(Event)
    BY <1>1, ReportedIs
  <2>2. parts \in [1..Len(Order) -> Seq(Event)]
    BY <1>1, <2>1
  <2>3. \A k \in 1..Len(Order) : parts[k] = Reported(Order[k])
    BY <1>1
  <2> DEFINE T == Seq(Event)
  <2> HIDE DEF parts, T
  <2>4. parts \in Seq(T) /\ Len(parts) = Len(Order)
    <3>1. parts \in [1..Len(Order) -> T]
      BY <2>2 DEF T
    <3> QED
      BY <1>1, <3>1
  <2> QED
    BY <2>3, <2>4 DEF T
<1> HIDE DEF parts
<1>3. InOrder(all, parts, Len(Order))
  BY <1>2, FlattenOrder
<1> HIDE DEF all
<1>4. ASSUME NEW k \in 1..Len(Order), NEW j \in DOMAIN parts[k]
      PROVE  /\ Order[k] \in Instruments /\ j \in DOMAIN named[Order[k]] /\ named[Order[k]][j].from <= EventsUntil
             /\ parts[k][j] = IntervalOf(Order[k], named[Order[k]], j)
             /\ parts[k][j].code = LastOf(coded[Order[k]]).code /\ parts[k][j].start = named[Order[k]][j].from
  <2>1. Order[k] \in Instruments /\ parts[k] = Reported(Order[k])
    BY <1>1, <1>2
  <2>2. /\ j \in DOMAIN named[Order[k]] /\ named[Order[k]][j].from <= EventsUntil
        /\ parts[k][j] = IntervalOf(Order[k], named[Order[k]], j)
    BY <2>1, ReportedAre
  <2> QED
    BY <2>1, <2>2 DEF IntervalOf
<1>5. ASSUME NEW a \in DOMAIN all
      PROVE  \E i \in Instruments : \E n \in DOMAIN named[i] :
               named[i][n].from <= EventsUntil /\ all[a] = IntervalOf(i, named[i], n)
  <2>1. PICK k \in 1..Len(Order) : \E j \in DOMAIN parts[k] : all[a] = parts[k][j]
    BY <1>3 DEF InOrder
  <2> QED
    BY <1>4, <2>1
<1>6. ASSUME NEW a \in DOMAIN all, NEW b \in DOMAIN all, a < b, all[a].code = all[b].code
      PROVE  all[a].start < all[b].start
  <2>a. \A x, y \in DOMAIN all : x < y =>
          \E k, l \in 1..Len(Order) : \E i \in DOMAIN parts[k], j \in DOMAIN parts[l] :
            all[x] = parts[k][i] /\ all[y] = parts[l][j] /\ (k < l \/ (k = l /\ i < j))
    BY <1>3 DEF InOrder
  <2>b. \E k, l \in 1..Len(Order) : \E i \in DOMAIN parts[k], j \in DOMAIN parts[l] :
          all[a] = parts[k][i] /\ all[b] = parts[l][j] /\ (k < l \/ (k = l /\ i < j))
    BY <1>6, <2>a
  <2>1. PICK k \in 1..Len(Order), l \in 1..Len(Order) : \E i \in DOMAIN parts[k], j \in DOMAIN parts[l] :
          all[a] = parts[k][i] /\ all[b] = parts[l][j] /\ (k < l \/ (k = l /\ i < j))
    BY <2>b
  <2>2. PICK i \in DOMAIN parts[k], j \in DOMAIN parts[l] :
          all[a] = parts[k][i] /\ all[b] = parts[l][j] /\ (k < l \/ (k = l /\ i < j))
    BY <2>1
  <2>3. /\ Order[k] \in Instruments /\ i \in DOMAIN named[Order[k]]
        /\ all[a].code = LastOf(coded[Order[k]]).code /\ all[a].start = named[Order[k]][i].from
    BY <1>4, <2>2
  <2>4. /\ Order[l] \in Instruments /\ j \in DOMAIN named[Order[l]]
        /\ all[b].code = LastOf(coded[Order[l]]).code /\ all[b].start = named[Order[l]][j].from
    BY <1>4, <2>2
  <2>5. Order[k] = Order[l]
    BY <1>6, <2>3, <2>4, CodeIs
  <2>6. k = l /\ i < j
    BY <1>1, <2>2, <2>5
  <2>7. Goes(named[Order[k]])
    BY <2>3, NamedGoes
  <2>8. named[Order[k]][i].from < named[Order[k]][j].from
    BY <2>3, <2>4, <2>5, <2>6, <2>7 DEF Goes
  <2> QED
    BY <2>3, <2>4, <2>5, <2>8
<1>7. ASSUME NEW i \in Instruments, NEW n \in DOMAIN named[i], named[i][n].from <= EventsUntil
      PROVE  \E a \in DOMAIN all : all[a] = IntervalOf(i, named[i], n)
  <2>1. PICK k \in 1..Len(Order) : Order[k] = i
    BY <1>1
  <2>2. n \in DOMAIN parts[k]
    BY <1>2, <1>7, <2>1, ReportedAre
  <2>3. parts[k][n] = IntervalOf(i, named[i], n)
    BY <1>4, <2>1, <2>2
  <2> QED
    BY <1>3, <2>2, <2>3 DEF InOrder
<1> QED
  BY <1>5, <1>6, <1>7 DEF all, parts
-----------------------------------------------------------------------------
(* The invariant of a replay *)

\* What no build has.
LEMMA NoBuildHas == NoBuild.listing = << >> /\ NoBuild.events = << >> /\ None # << >>
BY RegistryAssumption DEF NoBuild

\* More names may have begun since.
LEMMA BeginsLonger ==
  ASSUME NEW S, NEW g, NEW h, Begins(S, h), DOMAIN h \subseteq DOMAIN g, DOMAIN h \subseteq Nat,
         \A n \in DOMAIN h : h[n] = g[n] /\ (n # 1 => n - 1 \in DOMAIN h)
  PROVE  Begins(S, g)
<1>1. ASSUME NEW r \in S, r.from # 0
      PROVE  \E n \in DOMAIN g : r.from = g[n].from /\ (n = 1 \/ g[n - 1].from <= EventsUntil)
  <2>1. PICK n \in DOMAIN h : r.from = h[n].from /\ (n = 1 \/ h[n - 1].from <= EventsUntil)
    BY <1>1 DEF Begins
  <2> QED
    BY <2>1
<1> QED
  BY <1>1 DEF Begins

\* A step that leaves the registry and the build leaves what the rows say of names.
LEMMA ReplayFrame ==
  ASSUME EventsOrdered, NamesWritten, UNCHANGED <<coded, codes, rows, build>>
  PROVE  (EventsOrdered /\ NamesWritten)'
<1>1. /\ (Replaying' <=> Replaying) /\ \A i, e : Owns(i, e)' <=> Owns(i, e)
      /\ \A i, h, n : IntervalOf(i, h, n)' = IntervalOf(i, h, n)
      /\ \A i : KeptItsCode(i)' <=> KeptItsCode(i)
  BY DEF Replaying, Building, Owns, IntervalOf, KeptItsCode
<1>2. EventsOrdered'
  BY <1>1 DEF EventsOrdered
<1>3. NamesWritten'
  BY <1>1 DEF NamesWritten
<1> QED
  BY <1>2, <1>3

\* Without events there is nothing to say of them.
LEMMA NothingReplayed ==
  ASSUME ~Replaying'
  PROVE  (EventsOrdered /\ NamesWritten)'
BY DEF EventsOrdered, NamesWritten

\* Nor is there of a build that has no result.
LEMMA NoResult ==
  ASSUME ingested' = None
  PROVE  (NamesReplayed /\ ReadModelsAgree)'
BY DEF NamesReplayed, ReadModelsAgree

LEMMA ResultFrame ==
  ASSUME NamesReplayed, ReadModelsAgree, UNCHANGED <<coded, codes, rows, ingested>>
  PROVE  (NamesReplayed /\ ReadModelsAgree)'
<1>1. \A i : EntityOf(i)' = EntityOf(i)
  BY DEF EntityOf, Resolve, Latest
<1>2. \A i : KeptItsCode(i)' <=> KeptItsCode(i)
  BY DEF KeptItsCode
<1>3. \A e, d : NameAt(e, d)' = NameAt(e, d)
  BY DEF NameAt
<1> QED
  BY <1>1, <1>2, <1>3 DEF NamesReplayed, ReadModelsAgree

\* What is written begins where the names of now began.
LEMMA BeginsNow ==
  ASSUME ReplayInv, NEW i \in Instruments, NEW S, Begins(S, Known(i))
  PROVE  Begins(S, named[i])
<1>1. CASE Replaying
  <2>1. PICK n \in DOMAIN named[i] : Known(i) = SubSeq(named[i], 1, n)
    BY <1>1 DEF ReplayInv, BuildGoesOn, Known
  <2>2. Goes(named[i])
    BY NamedGoes DEF ReplayInv, RegistryInv
  <2>3. /\ DOMAIN Known(i) = 1..n /\ DOMAIN named[i] = 1..Len(named[i]) /\ Len(named[i]) \in Nat
        /\ \A k \in 1..n : k \in DOMAIN named[i] /\ Known(i)[k] = named[i][k]
    BY <2>1, <2>2, PrefixGoes, GoesFacts
  <2>4. n \in Nat /\ \A k \in 1..n : k # 1 => k - 1 \in 1..n
    BY <2>3
  <2> QED
    BY <2>3, <2>4, BeginsLonger
<1>2. CASE ~Replaying
  BY <1>2 DEF Known
<1> QED
  BY <1>1, <1>2

LEMMA RenameReplays ==
  ASSUME ReplayInv, RegistryInv', NEW i \in Instruments, NEW n \in Names, NEW day \in Days, Rename(i, n, day)
  PROVE  ReplayInv'
<1> DEFINE r == [name |-> n, from |-> day]
           h == named[i]
           g == Append(h, r)
<1>1. /\ named' = [named EXCEPT ![i] = g] /\ named \in [Instruments -> Seq(Named)] /\ day > LastOf(h).from
      /\ UNCHANGED <<coded, rows, codes, build, ingested>>
  BY DEF Rename, ReplayInv, RegistryInv, TypeOK, Named
<1>2. /\ Goes(h) /\ Len(h) \in Nat \ {0} /\ DOMAIN h = 1..Len(h) /\ day \in Nat
      /\ \A k \in DOMAIN h : h[k].from \in Nat
      /\ \A k, l \in DOMAIN h : k < l <=> h[k].from < h[l].from
      /\ h \in Seq(Named)
  <2>1. Goes(h)
    BY NamedGoes DEF ReplayInv, RegistryInv
  <2> QED
    BY <2>1, GoesFacts, RegistryAssumption DEF Days, Goes
<1>0. r \in Named
  <2>1. day \in 1..LastDay
    BY <1>2, <1>1, RegistryAssumption DEF Days, LastOf
  <2> QED
    BY <2>1 DEF Named
<1>3. r.from = day
  OBVIOUS
<1>4. /\ DOMAIN g = 1..(Len(h) + 1) /\ g[Len(h) + 1] = r /\ \A k \in 1..Len(h) : g[k] = h[k]
      /\ \A k \in 1..Len(h) : SubSeq(g, 1, k) = SubSeq(h, 1, k)
  <2> HIDE DEF r, h
  <2>1. DOMAIN g = 1..(Len(h) + 1) /\ g[Len(h) + 1] = r /\ \A k \in 1..Len(h) : g[k] = h[k]
    BY <1>2
  <2>2. ASSUME NEW k \in 1..Len(h) PROVE SubSeq(g, 1, k) = SubSeq(h, 1, k)
    <3>1. \A l \in 1..k : l \in 1..Len(h)
      BY <1>2
    <3>2. \A l \in 1..k : g[l] = h[l]
      BY <2>1, <3>1
    <3>3. g \in Seq(Named) /\ h \in Seq(Named) /\ k \in Nat /\ k <= Len(h) /\ Len(g) = Len(h) + 1
      <4>1. r \in Named
        BY <1>0
      <4> HIDE DEF Named
      <4> QED
        BY <1>2, <4>1
    <3>4. /\ DOMAIN SubSeq(g, 1, k) = 1..k /\ \A l \in 1..k : SubSeq(g, 1, k)[l] = g[l]
          /\ DOMAIN SubSeq(h, 1, k) = 1..k /\ \A l \in 1..k : SubSeq(h, 1, k)[l] = h[l]
          /\ SubSeq(g, 1, k) \in Seq(Named) /\ SubSeq(h, 1, k) \in Seq(Named)
      <4> HIDE DEF Named, g
      <4> QED
        BY <1>2, <3>3
    <3>5. \A s \in Seq(Named) : s = [l \in DOMAIN s |-> s[l]]
      OBVIOUS
    <3> QED
      BY <3>2, <3>4, <3>5
  <2> QED
    BY <2>1, <2>2
<1>5. /\ named'[i] = g /\ \A j \in Instruments : j # i => named'[j] = named[j]
  BY <1>1
<1> HIDE DEF g, r, h
<1>6. NamesForward'
  <2>1. g[1].from = FirstDay
    BY <1>2, <1>4 DEF Goes
  <2>2. ASSUME NEW k \in DOMAIN g, NEW l \in DOMAIN g, k < l PROVE g[k].from < g[l].from
    <3>1. k \in DOMAIN h /\ (l \in DOMAIN h \/ l = Len(h) + 1)
      BY <1>2, <1>4, <2>2
    <3>2. CASE l \in DOMAIN h
      BY <1>2, <1>4, <2>2, <3>1, <3>2
    <3>3. CASE l = Len(h) + 1
      <4>1. h[k].from <= h[Len(h)].from
        <5>1. k = Len(h) \/ k < Len(h)
          BY <1>2, <3>1
        <5> QED
          BY <1>2, <3>1, <5>1
      <4>2. h[Len(h)].from < day
        BY <1>1, <1>2 DEF LastOf
      <4> QED
        BY <1>2, <1>3, <1>4, <3>1, <3>3, <4>1, <4>2
    <3> QED
      BY <3>1, <3>2, <3>3
  <2> QED
    BY <1>5, <2>1, <2>2 DEF ReplayInv, NamesForward
<1>7. BuildGoesOn'
  <2>1. ASSUME Replaying, NEW j \in Instruments
        PROVE  \E k \in DOMAIN named'[j] : build.reported[j] = SubSeq(named'[j], 1, k)
    <3>1. PICK k \in DOMAIN named[j] : build.reported[j] = SubSeq(named[j], 1, k)
      BY <2>1 DEF ReplayInv, BuildGoesOn
    <3>2. CASE j = i
      <4>1. k \in 1..Len(h) /\ k \in DOMAIN g
        BY <1>2, <1>4, <3>1, <3>2 DEF h
      <4> QED
        BY <1>4, <1>5, <3>1, <3>2, <4>1 DEF h
    <3>3. CASE j # i
      BY <1>5, <3>1, <3>3
    <3> QED
      BY <3>2, <3>3
  <2>2. (Replaying' <=> Replaying) /\ (Building' <=> Building) /\ \A j, e : Owns(j, e)' <=> Owns(j, e)
    BY <1>1 DEF Replaying, Building, Owns
  <2> QED
    BY <1>1, <2>1, <2>2 DEF ReplayInv, BuildGoesOn
<1>8. RowsBegin'
  <2>1. (Replaying' <=> Replaying) /\ \A j, e : (Owns(j, e)' <=> Owns(j, e)) /\ (KeptItsCode(j)' <=> KeptItsCode(j))
    BY <1>1 DEF Replaying, Building, Owns, KeptItsCode
  <2>2. ASSUME NEW j \in Instruments, NEW S, Begins(S, Known(j)) PROVE Begins(S, Known(j)')
    <3>1. CASE Replaying \/ j # i
      BY <1>1, <1>5, <2>1, <2>2, <3>1 DEF Known
    <3>2. CASE ~Replaying /\ j = i
      <4>1. Known(j) = h /\ Known(j)' = g
        BY <1>5, <2>1, <3>2 DEF Known, h
      <4>2. DOMAIN h \subseteq DOMAIN g /\ DOMAIN h \subseteq Nat
            /\ \A k \in DOMAIN h : h[k] = g[k] /\ (k # 1 => k - 1 \in DOMAIN h)
        BY <1>2, <1>4
      <4> QED
        BY <2>2, <4>1, <4>2, BeginsLonger
    <3> QED
      BY <3>1, <3>2
  <2> QED
    BY <1>1, <2>1, <2>2 DEF ReplayInv, RowsBegin
<1> QED
  BY <1>1, <1>6, <1>7, <1>8, ReplayFrame, ResultFrame DEF ReplayInv

\* An instrument that gets another code is no longer one that kept its code.
LEMMA CodeChangeReplays ==
  ASSUME ReplayInv, RegistryInv', NEW i \in Instruments, NEW c \in Codes, NEW day \in Days, CodeChange(i, c, day)
  PROVE  ReplayInv'
<1>1. PICK e, N : /\ e = Resolve(LastOf(coded[i]).code, None) /\ e \in DOMAIN rows /\ Owns(i, e)
                  /\ codes' \in Seq(Entry) /\ CodesGrow(e, c, day, N)
  BY ChangeGrows DEF ReplayInv
<1>2. PICK T : rows' = [rows EXCEPT ![e] = T]
  BY <1>1 DEF CodeChange
<1>3. /\ ~Building /\ ingested' = None /\ UNCHANGED <<named, build>>
      /\ day > LastOf(coded[i]).from /\ \A j \in Instruments : \A d \in day..LastDay : CodeOn(j, d) # c
      /\ coded' = [coded EXCEPT ![i] = Append(@, [code |-> c, from |-> day])]
  BY DEF CodeChange
<1>4. DOMAIN rows' = DOMAIN rows
  BY <1>2
<1>5. Change(i, c, day, e, N)
  BY <1>1, <1>3, <1>4 DEF Change
<1>6. CodedGrows(i, c, day) /\ \A j, f : Owns(j, f)' <=> Owns(j, f)
  BY <1>5, ChangedCodes, ChangeOwns DEF ReplayInv
<1>7. ~Building' /\ ~Replaying /\ ~Replaying'
  BY <1>3 DEF Building, Replaying
<1>8. RowsBegin'
  <2> SUFFICES ASSUME NEW j \in Instruments, NEW f \in DOMAIN rows, Owns(j, f), KeptItsCode(j)'
               PROVE  Begins(rows'[f], named[j])
    BY <1>3, <1>4, <1>6, <1>7 DEF RowsBegin, Known
  <2>1. j # i
    <3>1. Len(coded'[i]) # 1
      BY <1>6 DEF CodedGrows
    <3>2. Len(coded'[j]) = 1
      BY DEF KeptItsCode
    <3> QED
      BY <3>1, <3>2
  <2>2. KeptItsCode(j) /\ f # e
    BY <1>1, <1>6, <2>1 DEF ReplayInv, RegistryInv, OwnersOne, KeptItsCode, CodedGrows
  <2> QED
    BY <1>2, <1>7, <2>2 DEF ReplayInv, RowsBegin, Known
<1>9. NamesForward' /\ BuildGoesOn'
  BY <1>3, <1>7 DEF ReplayInv, NamesForward, BuildGoesOn
<1> QED
  BY <1>3, <1>7, <1>8, <1>9, NothingReplayed, NoResult DEF ReplayInv

\* A build has all instruments before it.
LEMMA BeginBuildReplays ==
  ASSUME ReplayInv, RegistryInv', BeginBuild
  PROVE  ReplayInv'
<1>1. /\ ~Building /\ ingested' = None /\ UNCHANGED <<named, coded, codes, rows>>
      /\ build' = [listing |-> Order, events |-> None, listed |-> named, reported |-> None]
  BY DEF BeginBuild
<1>2. ~Replaying /\ ~Replaying' /\ build'.listing = Order
  BY <1>1 DEF Replaying
<1>3. \A i \in Instruments : i \in Range(Order)
  BY SetToSeqIs, RegistryAssumption DEF Order, Range
<1>4. \A j, e : (Owns(j, e)' <=> Owns(j, e)) /\ (KeptItsCode(j)' <=> KeptItsCode(j)) /\ Known(j)' = Known(j)
  BY <1>1, <1>2 DEF Owns, KeptItsCode, Known
<1>5. BuildGoesOn'
  BY <1>1, <1>2, <1>3 DEF BuildGoesOn
<1>6. RowsBegin' /\ NamesForward'
  BY <1>1, <1>4 DEF ReplayInv, RowsBegin, NamesForward
<1> QED
  BY <1>1, <1>2, <1>5, <1>6, NothingReplayed, NoResult DEF ReplayInv

\* A build that raises leaves what it wrote.
LEMMA AbortReplays ==
  ASSUME ReplayInv, RegistryInv', Abort
  PROVE  ReplayInv'
<1>1. Building /\ build' = NoBuild /\ UNCHANGED <<named, coded, codes, rows, ingested>>
  BY DEF Abort
<1>2. ~Building' /\ ~Replaying' /\ ingested' = None
  BY <1>1 DEF Building, Replaying, ReplayInv, BuildGoesOn
<1>3. \A j, e : (Owns(j, e)' <=> Owns(j, e)) /\ (KeptItsCode(j)' <=> KeptItsCode(j))
  BY <1>1 DEF Owns, KeptItsCode
<1>4. RowsBegin'
  BY <1>1, <1>2, <1>3, BeginsNow DEF ReplayInv, RowsBegin, Known
<1>5. NamesForward' /\ BuildGoesOn'
  BY <1>1, <1>2 DEF ReplayInv, NamesForward, BuildGoesOn
<1> QED
  BY <1>2, <1>4, <1>5, NothingReplayed, NoResult DEF ReplayInv

\* The events are the intervals of the names of the moment.
LEMMA FetchEventsReplays ==
  ASSUME ReplayInv, RegistryInv', FetchEvents
  PROVE  ReplayInv'
<1> DEFINE all == FlattenSeq([k \in DOMAIN Order |-> Reported(Order[k])])
<1>1. /\ build.listing = << >> /\ build.events = None
      /\ build' = [build EXCEPT !.events = all, !.reported = named]
      /\ UNCHANGED <<named, coded, codes, rows, ingested>>
  BY DEF FetchEvents
<1> HIDE DEF all
<1>2. DOMAIN build = {"listing", "events", "listed", "reported"}
  BY DEF ReplayInv, RegistryInv, TypeOK
<1>3. build'.listing = << >> /\ build'.events = all /\ build'.reported = named
  BY <1>1, <1>2
<1>4. Building /\ ~Replaying /\ ingested' = None
  <2>1. build # NoBuild
    BY <1>1, NoBuildHas
  <2> QED
    BY <1>1, <2>1 DEF Building, Replaying, ReplayInv, BuildGoesOn
<1>5. \A j, e : /\ (Owns(j, e)' <=> Owns(j, e)) /\ (KeptItsCode(j)' <=> KeptItsCode(j)) /\ Known(j)' = named[j]
                /\ Known(j) = named[j] /\ \A h, n : IntervalOf(j, h, n)' = IntervalOf(j, h, n)
  BY <1>1, <1>3, <1>4 DEF Owns, KeptItsCode, Known, IntervalOf
<1>6. RowsBegin' /\ NamesForward'
  BY <1>1, <1>5 DEF ReplayInv, RowsBegin, NamesForward
<1>7. BuildGoesOn'
  <2>1. \A i \in Instruments : \E e \in DOMAIN rows : Owns(i, e)
    BY <1>1, <1>4 DEF ReplayInv, BuildGoesOn, Range
  <2>2. ASSUME NEW i \in Instruments PROVE \E n \in DOMAIN named[i] : named[i] = SubSeq(named[i], 1, n)
    <3>1. named[i] \in Seq(Named) /\ named[i] # << >>
      BY NamedGoes DEF ReplayInv, RegistryInv, Goes
    <3> HIDE DEF Named
    <3>2. Len(named[i]) \in DOMAIN named[i] /\ named[i] = SubSeq(named[i], 1, Len(named[i]))
      BY <3>1
    <3> QED
      BY <3>2
  <2> QED
    BY <1>1, <1>3, <1>4, <1>5, <2>1, <2>2 DEF BuildGoesOn
<1>8. /\ \A a \in DOMAIN all : \E i \in Instruments : \E n \in DOMAIN named[i] :
              named[i][n].from <= EventsUntil /\ all[a] = IntervalOf(i, named[i], n)
      /\ \A a, b \in DOMAIN all : a < b /\ all[a].code = all[b].code => all[a].start < all[b].start
      /\ \A i \in Instruments : \A n \in DOMAIN named[i] : named[i][n].from <= EventsUntil =>
           \E a \in DOMAIN all : all[a] = IntervalOf(i, named[i], n)
  BY EventsAre DEF ReplayInv, RegistryInv, all
<1>9. EventsOrdered'
  BY <1>3, <1>5, <1>8 DEF EventsOrdered
<1>10. NamesWritten'
  <2>1. \A i \in Instruments : \A n \in DOMAIN named[i] : named[i][n].from <= EventsUntil =>
          IntervalOf(i, named[i], n) \in Range(all)
    BY <1>8 DEF Range
  <2> QED
    BY <1>3, <1>5, <2>1 DEF NamesWritten
<1> QED
  BY <1>4, <1>6, <1>7, <1>9, <1>10, NoResult DEF ReplayInv
\* Whoever is listed is registered, and its rows begin on day 0 or stay.
LEMMA RegisterReplays ==
  ASSUME ReplayInv, RegistryInv', Register
  PROVE  ReplayInv'
<1>0. PICK i, e : i = Head(build.listing) /\ e = Resolve(LastOf(coded[i]).code, None)
  OBVIOUS
<1>1. /\ build.listing # << >> /\ UNCHANGED <<named, coded, ingested>>
      /\ build' = [build EXCEPT !.listing = Tail(@), !.listed[i] = named[i]]
      /\ IF e = None THEN Create(LastOf(coded[i]).code, LastOf(named[i]).name)
         ELSE Refresh(e, LastOf(named[i]).name)
  BY <1>0 DEF Register
<1>2. /\ DOMAIN build = {"listing", "events", "listed", "reported"} /\ build.listing \in Seq(Instruments)
      /\ rows \in Seq(SUBSET Row) /\ codes \in Seq(Entry) /\ \A f \in DOMAIN rows : Numbered(rows[f])
  BY DEF ReplayInv, RegistryInv, TypeOK, RowsNumbered
<1>3. build'.listing = Tail(build.listing) /\ build'.events = build.events
  BY <1>1, <1>2
<1>4. Building /\ ~Replaying /\ build.events = None /\ ingested = None
  <2>1. build # NoBuild
    BY <1>1, NoBuildHas
  <2> QED
    BY <1>1, <2>1 DEF Building, Replaying, ReplayInv, BuildGoesOn
<1>5. ~Replaying' /\ ingested' = None /\ \A j : Known(j) = named[j] /\ Known(j)' = named[j]
  BY <1>1, <1>3, <1>4 DEF Replaying, Known
<1>6. i \in Instruments
  BY <1>0, <1>1, <1>2
<1>7. /\ DOMAIN rows \subseteq DOMAIN rows'
      /\ \E f \in DOMAIN rows' : Owns(i, f)'
      /\ \A j \in Instruments, f \in DOMAIN rows : Owns(j, f)' <=> Owns(j, f)
      /\ \A f \in DOMAIN rows : Begins(rows'[f], << >>) \/ \A r \in rows'[f] : \E q \in rows[f] : r.from = q.from
      /\ \A f \in DOMAIN rows : rows[f] \subseteq rows'[f]
      /\ \A f \in DOMAIN rows' \ DOMAIN rows : Begins(rows'[f], << >>)
  <2>1. CASE e # None
    <3>1. Owns(i, e) /\ e \in DOMAIN rows
      BY <1>0, <1>6, <2>1, FoundOrNew DEF ReplayInv, RegistryInv
    <3>2. /\ codes' = codes
          /\ \/ rows' = rows
             \/ rows' = [rows EXCEPT ![e] = Appended(@, [Current(e) EXCEPT !.name = LastOf(named[i]).name])]
      BY <1>1, <2>1 DEF Refresh
    <3>3. \A j, f : Owns(j, f)' <=> Owns(j, f)
      BY <3>2 DEF Owns
    <3> DEFINE r == [Current(e) EXCEPT !.name = LastOf(named[i]).name]
    <3>4. Current(e) \in rows[e] /\ Current(e) \in Row
      BY <1>2, <3>1, NewestOpen DEF Current
    <3>5. r.from = Current(e).from
      BY <3>4 DEF Row
    <3>6. Appended(rows[e], r) = rows[e] \cup {[r EXCEPT !.version = Cardinality(rows[e]) + 1]}
      BY DEF Appended
    <3>7. [r EXCEPT !.version = Cardinality(rows[e]) + 1].from = Current(e).from
      BY <3>4 DEF Row
    <3>8. /\ rows[e] \subseteq Appended(rows[e], r)
          /\ \A a \in Appended(rows[e], r) : \E q \in rows[e] : a.from = q.from
      <4> HIDE DEF r
      <4> QED
        BY <3>4, <3>6, <3>7
    <3>9. CASE rows' = rows
      BY <3>1, <3>3, <3>9
    <3>10. CASE rows' = [rows EXCEPT ![e] = Appended(@, r)]
      <4>1. DOMAIN rows' = DOMAIN rows /\ rows'[e] = Appended(rows[e], r) /\ \A f \in DOMAIN rows : f # e => rows'[f] = rows[f]
        BY <1>2, <3>1, <3>10
      <4> HIDE DEF r
      <4> QED
        BY <3>1, <3>3, <3>8, <4>1
    <3> QED
      BY <3>2, <3>9, <3>10
  <2>2. CASE e = None
    <3>0. PICK E, N : E = Len(rows) + 1 /\ N = Len(codes) + 1
      OBVIOUS
    <3> DEFINE c == LastOf(coded[i]).code
               r == [name |-> LastOf(named[i]).name, code |-> c, from |-> 0, to |-> None, version |-> 1]
               x == [entity |-> E, code |-> c, from |-> 0, to |-> None, version |-> 1]
               R == {r}
    <3>1. codes' = Append(codes, x) /\ rows' = Append(rows, R) /\ c = FirstCode[i]
      BY <3>0, <1>0, <1>1, <1>6, <2>2, FoundOrNew DEF Create, ReplayInv, RegistryInv
    <3>2. Begins(R, << >>)
      BY DEF Begins
    <3>3. x.entity = E /\ x.code = c /\ x.from = 0
      OBVIOUS
    <3> HIDE DEF x, R, c
    <3>4. /\ DOMAIN codes' = DOMAIN codes \cup {N} /\ N \notin DOMAIN codes /\ codes'[N] = x
          /\ \A k \in DOMAIN codes : codes'[k] = codes[k]
      BY <1>2, <3>0, <3>1
    <3>5. /\ DOMAIN rows' = DOMAIN rows \cup {E} /\ E \notin DOMAIN rows /\ rows'[E] = R
          /\ \A f \in DOMAIN rows : rows'[f] = rows[f]
      <4> DEFINE T == SUBSET Row
      <4> HIDE DEF T
      <4>1. rows \in Seq(T)
        BY <1>2 DEF T
      <4> QED
        BY <3>0, <3>1, <4>1
    <3>6. Owns(i, E)'
      <4>1. N \in DOMAIN codes' /\ codes'[N].entity = E /\ codes'[N].from = 0 /\ codes'[N].code = FirstCode[i]
        BY <3>1, <3>3, <3>4
      <4> QED
        BY <4>1 DEF Owns
    <3>7. ASSUME NEW j, NEW f \in DOMAIN rows PROVE Owns(j, f)' <=> Owns(j, f)
      <4>1. f # E
        BY <3>5
      <4> QED
        BY <3>3, <3>4, <4>1 DEF Owns
    <3>8. \A f \in DOMAIN rows : \A a \in rows'[f] : \E q \in rows[f] : a.from = q.from
      BY <3>5
    <3> QED
      <4>1. DOMAIN rows \subseteq DOMAIN rows' /\ E \in DOMAIN rows' /\ \A f \in DOMAIN rows' \ DOMAIN rows : f = E
        BY <3>5
      <4>2. \A f \in DOMAIN rows' \ DOMAIN rows : Begins(rows'[f], << >>)
        BY <3>2, <3>5, <4>1
      <4>3. \A f \in DOMAIN rows : rows[f] \subseteq rows'[f]
        BY <3>5
      <4>4. \E f \in DOMAIN rows' : Owns(i, f)'
        BY <3>6, <4>1
      <4> QED
        BY <3>7, <3>8, <4>1, <4>2, <4>3, <4>4
  <2> QED
    BY <2>1, <2>2
<1>8. BuildGoesOn'
  <2>1. ASSUME NEW j \in Instruments, ~\E f \in DOMAIN rows' : Owns(j, f)'
        PROVE  j \in Range(Tail(build.listing))
    <3>1. j # i
      BY <1>7, <2>1
    <3>2. j \in Range(build.listing)
      BY <1>4, <1>7, <2>1 DEF ReplayInv, BuildGoesOn
    <3>3. PICK k \in DOMAIN build.listing : build.listing[k] = j
      BY <3>2 DEF Range
    <3>4. k # 1
      BY <1>0, <1>1, <1>2, <3>1, <3>3
    <3>5. k - 1 \in DOMAIN Tail(build.listing) /\ Tail(build.listing)[k - 1] = j
      BY <1>1, <1>2, <3>3, <3>4
    <3> QED
      BY <3>5 DEF Range
  <2> QED
    BY <1>3, <1>5, <2>1 DEF BuildGoesOn
<1>9. RowsBegin'
  <2> SUFFICES ASSUME NEW j \in Instruments, NEW f \in DOMAIN rows', Owns(j, f)', KeptItsCode(j)
               PROVE  Begins(rows'[f], named[j])
    BY <1>1, <1>5 DEF RowsBegin, KeptItsCode
  <2>1. \A S : Begins(S, << >>) => Begins(S, named[j])
    BY DEF Begins
  <2>2. CASE f \in DOMAIN rows
    <3>1. Begins(rows[f], named[j])
      BY <1>5, <1>7, <2>2 DEF ReplayInv, RowsBegin
    <3>2. CASE \A r \in rows'[f] : \E q \in rows[f] : r.from = q.from
      <4>1. \E r \in rows'[f] : r.from = 0 /\ r.to = None
        BY <1>7, <2>2, <3>1 DEF Begins
      <4>2. ASSUME NEW r \in rows'[f]
            PROVE  \/ r.from = 0
                   \/ \E n \in DOMAIN named[j] : r.from = named[j][n].from /\ (n = 1 \/ named[j][n - 1].from <= EventsUntil)
        <5>1. PICK q \in rows[f] : r.from = q.from
          BY <3>2
        <5> QED
          BY <3>1, <5>1 DEF Begins
      <4> QED
        BY <4>1, <4>2 DEF Begins
    <3> QED
      BY <1>7, <2>1, <2>2, <3>2
  <2>3. CASE f \notin DOMAIN rows
    BY <1>7, <2>1, <2>3
  <2> QED
    BY <2>2, <2>3
<1>10. NamesForward'
  BY <1>1 DEF ReplayInv, NamesForward
<1> QED
  BY <1>5, <1>8, <1>9, <1>10, NothingReplayed, NoResult DEF ReplayInv

\* What is reported of an instrument is a history, and it has a code of its own.
LEMMA ReportedGoes ==
  ASSUME ReplayInv, Replaying, NEW i \in Instruments
  PROVE  /\ Goes(build.reported[i]) /\ LastOf(coded[i]).code \in Codes
         /\ \A j \in Instruments : LastOf(coded[j]).code = LastOf(coded[i]).code => j = i
<1>1. PICK n \in DOMAIN named[i] : build.reported[i] = SubSeq(named[i], 1, n)
  BY DEF ReplayInv, BuildGoesOn
<1>2. Goes(named[i])
  BY NamedGoes DEF ReplayInv, RegistryInv
<1> QED
  BY <1>1, <1>2, PrefixGoes, CodeIs DEF ReplayInv, RegistryInv

\* The next event is an interval of an instrument whose entity gets it.
LEMMA NextIs ==
  ASSUME ReplayInv, NameChange
  PROVE  LET next == Head(build.events) IN
         /\ Replaying /\ ingested = None /\ build.events \in Seq(Event) /\ build.events # << >>
         /\ \E i \in Instruments : \E n \in DOMAIN build.reported[i] : \E e \in DOMAIN rows :
              /\ build.reported[i][n].from <= EventsUntil /\ next = IntervalOf(i, build.reported[i], n)
              /\ Owns(i, e) /\ rows' = [rows EXCEPT ![e] = WithName(@, next.name, next.start, next.end)]
<1> DEFINE next == Head(build.events)
           T(e) == WithName(rows[e], next.name, next.start, next.end)
<1>1. build.events # << >> /\ build.events # None
  BY DEF NameChange
<1>2. build.events \in Seq(Event)
  BY <1>1 DEF ReplayInv, RegistryInv, TypeOK
<1>3. Replaying /\ ingested = None
  <2>1. build # NoBuild
    BY <1>1, NoBuildHas
  <2> QED
    BY <1>1, <2>1 DEF Replaying, Building, ReplayInv, BuildGoesOn
<1>4. 1 \in DOMAIN build.events /\ next = build.events[1]
  BY <1>1, <1>2
<1>5. PICK i \in Instruments : \E n \in DOMAIN build.reported[i] :
        build.reported[i][n].from <= EventsUntil /\ next = IntervalOf(i, build.reported[i], n)
  BY <1>3, <1>4 DEF ReplayInv, EventsOrdered
<1>6. PICK n \in DOMAIN build.reported[i] :
        build.reported[i][n].from <= EventsUntil /\ next = IntervalOf(i, build.reported[i], n)
  BY <1>5
<1>7. PICK e \in DOMAIN rows : Owns(i, e)
  BY <1>3 DEF ReplayInv, BuildGoesOn, Replaying, Range
<1>8. next.code = LastOf(coded[i]).code
  BY <1>6 DEF IntervalOf
<1>9. Resolve(next.code, None) = e
  BY <1>7, <1>8, ResolveNow DEF ReplayInv, RegistryInv
<1>10. e # None
  <2>1. e \in Nat
    BY <1>7 DEF ReplayInv, RegistryInv, TypeOK
  <2> QED
    BY <2>1, RegistryAssumption
<1>11. rows' = [rows EXCEPT ![e] = WithName(@, next.name, next.start, next.end)]
  <2> HIDE DEF next
  <2>1. Resolve(Head(build.events).code, None) = e
    BY <1>9 DEF next
  <2> QED
    BY <1>10, <2>1 DEF NameChange, next
<1> HIDE DEF next
<1> QED
  BY <1>1, <1>2, <1>3, <1>6, <1>7, <1>11 DEF next

\* What is still to be replayed after the next event.
Left(ev) == ev \in Range(Tail(build.events))

LEMMA LeftIs ==
  ASSUME build.events \in Seq(Event), build.events # << >>
  PROVE  /\ \A ev : Left(ev) => ev \in Range(build.events)
         /\ \A ev : ev \in Range(build.events) => Left(ev) \/ ev = Head(build.events)
         /\ \A a \in DOMAIN Tail(build.events) :
              a \in Nat \ {0} /\ a + 1 \in DOMAIN build.events /\ Tail(build.events)[a] = build.events[a + 1]
         /\ Head(build.events) = build.events[1] /\ 1 \in DOMAIN build.events
<1> DEFINE s == build.events
<1>1. /\ \A a \in DOMAIN Tail(s) : a \in Nat \ {0} /\ a + 1 \in DOMAIN s /\ Tail(s)[a] = s[a + 1]
      /\ \A a \in DOMAIN s : a # 1 => a - 1 \in DOMAIN Tail(s) /\ (a - 1) + 1 = a
      /\ 1 \in DOMAIN s /\ Head(s) = s[1]
  <2> HIDE DEF s
  <2>1. s \in Seq(Event) /\ s # << >>
    BY DEF s
  <2> QED
    BY <2>1
<1> HIDE DEF s
<1>2. \A ev : ev \in Range(Tail(s)) => ev \in Range(s)
  BY <1>1 DEF Range
<1>3. ASSUME NEW ev \in Range(s), ev # Head(s) PROVE ev \in Range(Tail(s))
  <2>1. PICK a \in DOMAIN s : s[a] = ev
    BY DEF Range
  <2>2. a # 1
    BY <1>1, <1>3, <2>1
  <2>3. a - 1 \in DOMAIN Tail(s) /\ Tail(s)[a - 1] = ev
    BY <1>1, <2>1, <2>2
  <2> QED
    BY <2>3 DEF Range
<1> QED
  BY <1>1, <1>2, <1>3 DEF Left, s

\* The next event is the first one that is left of its instrument.
LEMMA NextFirst ==
  ASSUME ReplayInv, NameChange, NEW i \in Instruments, NEW n \in DOMAIN build.reported[i],
         Head(build.events) = IntervalOf(i, build.reported[i], n)
  PROVE  \A m \in DOMAIN build.reported[i] :
           /\ m < n => IntervalOf(i, build.reported[i], m) \notin Range(build.events)
           /\ m # n => IntervalOf(i, build.reported[i], m) # Head(build.events)
<1> DEFINE h == build.reported[i]
           s == build.events
<1>1. Replaying /\ s \in Seq(Event) /\ s # << >>
  BY NextIs
<1>2. Goes(h)
  BY <1>1, ReportedGoes
<1>3. /\ \A m \in DOMAIN h : h[m].from \in Nat /\ m \in Nat
      /\ \A m, k \in DOMAIN h : m < k <=> h[m].from < h[k].from
  BY <1>2, GoesFacts
<1>4. \A m \in DOMAIN h : IntervalOf(i, h, m).start = h[m].from /\ IntervalOf(i, h, m).code = LastOf(coded[i]).code
  BY DEF IntervalOf
<1>5. s[1] = IntervalOf(i, h, n) /\ 1 \in DOMAIN s /\ \A a \in DOMAIN s : a = 1 \/ 1 < a
  <2> HIDE DEF s
  <2>1. 1 \in DOMAIN s /\ \A a \in DOMAIN s : a = 1 \/ 1 < a
    BY <1>1
  <2> QED
    BY <1>1, <2>1, LeftIs DEF s
<1>6. \A a, b \in DOMAIN s : a < b /\ s[a].code = s[b].code => s[a].start < s[b].start
  BY <1>1 DEF ReplayInv, EventsOrdered
<1> HIDE DEF h, s
<1>7. ASSUME NEW m \in DOMAIN h, m < n, IntervalOf(i, h, m) \in Range(s) PROVE FALSE
  <2>1. PICK a \in DOMAIN s : s[a] = IntervalOf(i, h, m)
    BY <1>7 DEF Range
  <2>2. n \in DOMAIN h /\ h[m].from < h[n].from /\ h[n].from \in Nat /\ h[m].from \in Nat
    BY <1>3, <1>7 DEF h
  <2>3. a # 1
    BY <1>4, <1>5, <2>1, <2>2
  <2>4. s[1].start < s[a].start
    BY <1>4, <1>5, <1>6, <2>1, <2>2, <2>3
  <2> QED
    BY <1>4, <1>5, <2>1, <2>2, <2>4
<1>8. ASSUME NEW m \in DOMAIN h, m # n, IntervalOf(i, h, m) = Head(s) PROVE FALSE
  <2>1. h[m].from = h[n].from /\ n \in DOMAIN h
    BY <1>4, <1>8 DEF h, s
  <2>2. m < n \/ n < m
    BY <1>3, <1>8, <2>1
  <2> QED
    BY <1>3, <2>1, <2>2
<1> QED
  BY <1>7, <1>8 DEF h, s

\* After the next event its interval is written, as those before it are, and nothing
\* else has changed.
LEMMA NameChangeWrites ==
  ASSUME ReplayInv, NameChange, NEW j \in Instruments, NEW f \in DOMAIN rows, Owns(j, f), KeptItsCode(j)
  PROVE  LET h == build.reported[j] IN
         /\ Begins(rows'[f], h)
         /\ \A n \in DOMAIN h : h[n].from <= EventsUntil =>
              \/ Left(IntervalOf(j, h, n))
              \/ /\ Written(rows'[f], IntervalOf(j, h, n))
                 /\ \A m \in 1..(n - 1) : ~Left(IntervalOf(j, h, m))
                 /\ n < Len(h) /\ h[n + 1].from > EventsUntil => ResumedLast(rows'[f], IntervalOf(j, h, n))
<1> DEFINE h == build.reported[j]
           next == Head(build.events)
           S == rows[f]
           Done(T, n) == /\ Written(T, IntervalOf(j, h, n))
                         /\ n < Len(h) /\ h[n + 1].from > EventsUntil => ResumedLast(T, IntervalOf(j, h, n))
<1>1. Replaying /\ build.events \in Seq(Event) /\ build.events # << >>
  BY NextIs
<1>2. PICK i \in Instruments : \E n \in DOMAIN build.reported[i] : \E e \in DOMAIN rows :
        /\ build.reported[i][n].from <= EventsUntil /\ next = IntervalOf(i, build.reported[i], n)
        /\ Owns(i, e) /\ rows' = [rows EXCEPT ![e] = WithName(@, next.name, next.start, next.end)]
  BY NextIs
<1>3. PICK n \in DOMAIN build.reported[i], e \in DOMAIN rows :
        /\ build.reported[i][n].from <= EventsUntil /\ next = IntervalOf(i, build.reported[i], n)
        /\ Owns(i, e) /\ rows' = [rows EXCEPT ![e] = WithName(@, next.name, next.start, next.end)]
  BY <1>2
<1>4. i = j <=> e = f
  BY <1>3 DEF ReplayInv, RegistryInv, OwnersOne
<1>5. Goes(h) /\ LastOf(coded[j]).code \in Codes
  BY <1>1, ReportedGoes
<1>6. /\ Len(h) \in Nat \ {0} /\ DOMAIN h = 1..Len(h) /\ EventsUntil \in Nat
      /\ \A m \in DOMAIN h : h[m].from \in Nat
      /\ \A k, m \in DOMAIN h : k < m <=> h[k].from < h[m].from
  BY <1>5, GoesFacts
<1>7. Numbered(S) /\ Begins(S, h)
  BY <1>1 DEF ReplayInv, RegistryInv, RowsNumbered, RowsBegin, Known
<1>8. /\ \A ev : Left(ev) => ev \in Range(build.events)
      /\ \A ev : ev \in Range(build.events) => Left(ev) \/ ev = next
      /\ next \in Range(build.events)
  BY <1>1, LeftIs DEF Range
<1>9. \A m \in DOMAIN h : h[m].from <= EventsUntil =>
        \/ IntervalOf(j, h, m) \in Range(build.events)
        \/ Done(S, m) /\ \A k \in 1..(m - 1) : IntervalOf(j, h, k) \notin Range(build.events)
  BY <1>1 DEF ReplayInv, NamesWritten
<1> HIDE DEF Done
<1>10. CASE i # j
  <2>1. rows'[f] = S
    BY <1>3, <1>4, <1>10
  <2>2. \A m \in DOMAIN h : IntervalOf(j, h, m) # next
    <3>1. \A m \in DOMAIN h : IntervalOf(j, h, m).code = LastOf(coded[j]).code
      BY DEF IntervalOf
    <3>2. next.code = LastOf(coded[i]).code
      BY <1>3 DEF IntervalOf
    <3>3. LastOf(coded[i]).code # LastOf(coded[j]).code
      BY <1>1, <1>10, ReportedGoes
    <3> QED
      BY <3>1, <3>2, <3>3
  <2>3. \A m \in DOMAIN h : h[m].from <= EventsUntil =>
          Left(IntervalOf(j, h, m)) \/ (Done(S, m) /\ \A k \in 1..(m - 1) : ~Left(IntervalOf(j, h, k)))
    BY <1>8, <1>9, <2>2
  <2> QED
    BY <1>7, <2>1, <2>3 DEF Done
<1>11. CASE i = j
  <2> DEFINE T == WithName(S, next.name, next.start, next.end)
  <2>1. rows'[f] = T /\ n \in DOMAIN h /\ h[n].from <= EventsUntil /\ next = IntervalOf(j, h, n)
    BY <1>3, <1>4, <1>11
  <2>2. \A m \in DOMAIN h : /\ m < n => IntervalOf(j, h, m) \notin Range(build.events)
                            /\ m # n => IntervalOf(j, h, m) # next
    BY <2>1, NextFirst
  <2>3. \A m \in DOMAIN h : m <= n => h[m].from <= EventsUntil
    <3> SUFFICES ASSUME NEW m \in DOMAIN h, m <= n PROVE h[m].from <= EventsUntil
      OBVIOUS
    <3>1. m = n \/ m < n
      BY <1>6, <2>1
    <3> QED
      BY <1>6, <2>1, <3>1
  <2>4. \A m \in 1..(n - 1) : m \in DOMAIN h /\ m < n
    BY <1>6, <2>1
  <2>5. \A m \in 1..(n - 1) : Written(S, IntervalOf(j, h, m))
    BY <1>9, <2>2, <2>3, <2>4, <1>6, <2>1 DEF Done
  <2>6. /\ Begins(T, h) /\ \A m \in 1..n : Written(T, IntervalOf(j, h, m))
        /\ n < Len(h) => ResumedLast(T, next)
    <3> HIDE DEF h, next, S
    <3> QED
      BY <1>5, <1>7, <2>1, <2>5, WriteName
  <2> HIDE DEF T, next
  <2>7. ASSUME NEW m \in DOMAIN h, h[m].from <= EventsUntil, ~Left(IntervalOf(j, h, m))
        PROVE  Done(T, m) /\ \A k \in 1..(m - 1) : ~Left(IntervalOf(j, h, k))
    <3>1. m <= n
      <4> SUFFICES ASSUME n < m PROVE FALSE
        BY <1>6, <2>1
      <4>1. IntervalOf(j, h, m) # next
        BY <1>6, <2>1, <2>2
      <4>2. IntervalOf(j, h, m) \notin Range(build.events)
        BY <1>8, <2>7, <4>1
      <4>3. n \in 1..(m - 1)
        BY <1>6, <2>1
      <4> QED
        BY <1>8, <1>9, <2>1, <2>7, <4>2, <4>3
    <3>2. m \in 1..n /\ \A k \in 1..(m - 1) : k \in DOMAIN h /\ k < n
      BY <1>6, <2>1, <3>1
    <3>3. \A k \in 1..(m - 1) : ~Left(IntervalOf(j, h, k))
      BY <1>8, <2>2, <3>2
    <3>4. CASE m = n
      BY <2>1, <2>6, <3>2, <3>3, <3>4 DEF Done
    <3>5. CASE m # n
      <4>1. m + 1 \in DOMAIN h /\ m + 1 <= n
        BY <1>6, <2>1, <3>1, <3>5
      <4>2. h[m + 1].from <= EventsUntil /\ h[m + 1].from \in Nat
        BY <1>6, <2>3, <4>1
      <4>3. ~(h[m + 1].from > EventsUntil)
        BY <1>6, <4>2
      <4> QED
        BY <2>6, <3>2, <3>3, <4>3 DEF Done
    <3> QED
      BY <3>4, <3>5
  <2> QED
    BY <2>1, <2>6, <2>7 DEF Done
<1> QED
  BY <1>10, <1>11

\* What a build has written once all its events were replayed is read as it was
\* reported.
LEMMA ReplayReads ==
  ASSUME ReplayInv, RegistryInv', NameChange, Len(build.events) = 1
  PROVE  (NamesReplayed /\ ReadModelsAgree)'
<1>1. /\ Replaying /\ build.events \in Seq(Event) /\ build.events # << >>
      /\ UNCHANGED <<named, coded, codes>>
      /\ ingested' = [listed |-> build.listed, reported |-> build.reported]
  BY NextIs DEF NameChange
<1>2. \A ev : ~Left(ev)
  <2>1. DOMAIN build.events = {1}
    <3> DEFINE s == build.events
    <3> HIDE DEF s
    <3>1. s \in Seq(Event) /\ Len(s) = 1
      BY <1>1 DEF s
    <3>2. DOMAIN s = 1..1
      BY <3>1
    <3> QED
      BY <3>2 DEF s
  <2>2. \A a \in DOMAIN Tail(build.events) : a \in Nat \ {0} /\ a + 1 \in DOMAIN build.events
    BY <1>1, LeftIs
  <2>3. DOMAIN Tail(build.events) = {}
    BY <2>1, <2>2
  <2> QED
    BY <2>3 DEF Left, Range
<1>3. DOMAIN rows' = DOMAIN rows
  BY NextIs
<1>4. ASSUME NEW i \in Instruments, KeptItsCode(i)
      PROVE  LET S == rows'[EntityOf(i)]
                 h == build.reported[i] IN
             /\ Numbered(S) /\ Goes(h) /\ Begins(S, h) /\ LastOf(coded[i]).code \in Codes /\ Complete(S, i, h)
  <2> DEFINE h == build.reported[i]
  <2>1. PICK f \in DOMAIN rows : Owns(i, f)
    BY <1>1 DEF ReplayInv, BuildGoesOn, Replaying, Range
  <2>2. EntityOf(i) = f
    BY <2>1, RegisteredIs DEF ReplayInv, RegistryInv
  <2>3. Goes(h) /\ LastOf(coded[i]).code \in Codes
    BY <1>1, ReportedGoes
  <2>4. Begins(rows'[f], h) /\ Complete(rows'[f], i, h)
    BY <1>2, <1>4, <2>1, NameChangeWrites DEF Complete
  <2>5. Numbered(rows'[f])
    BY <1>3, <2>1 DEF RegistryInv, RowsNumbered
  <2> QED
    BY <2>2, <2>3, <2>4, <2>5
<1>5. \A i : (EntityOf(i)' = EntityOf(i)) /\ (KeptItsCode(i)' <=> KeptItsCode(i))
  BY <1>1 DEF EntityOf, Resolve, Latest, KeptItsCode
<1>6. NamesReplayed'
  <2> SUFFICES ASSUME NEW i \in Instruments, KeptItsCode(i), NEW d \in FirstDay..EventsUntil
               PROVE  Newest(Covering(rows'[EntityOf(i)], d)).name = OnDay(build.reported[i], d).name
    BY <1>1, <1>5 DEF NamesReplayed, NameAt
  <2>1. d \in Days /\ FirstDay <= d /\ d <= EventsUntil
    BY RegistryAssumption DEF Days
  <2> QED
    BY <1>4, <2>1, DayRead
<1>7. ReadModelsAgree'
  <2> SUFFICES ASSUME NEW i \in Instruments, KeptItsCode(i)
               PROVE  LET S == rows'[EntityOf(i)] IN
                      /\ \A d \in Days : HighestVersion(Covering(S, d)) = Newest(Covering(S, d))
                      /\ HighestVersion(Opened(S)) = Newest(Opened(S))
    BY <1>5 DEF ReadModelsAgree
  <2> QED
    BY <1>4, DayRead, OpenRead
<1> QED
  BY <1>6, <1>7

\* The name of an interval is written, or all of them are.
LEMMA NameChangeReplays ==
  ASSUME ReplayInv, RegistryInv', NameChange
  PROVE  ReplayInv'
<1>1. /\ Replaying /\ ingested = None /\ build.events \in Seq(Event) /\ build.events # << >>
      /\ UNCHANGED <<named, coded, codes>>
  BY NextIs DEF NameChange
<1>2. DOMAIN rows' = DOMAIN rows
  BY NextIs
<1>3. \A j, e : /\ (Owns(j, e)' <=> Owns(j, e)) /\ (KeptItsCode(j)' <=> KeptItsCode(j))
                /\ \A h, n : IntervalOf(j, h, n)' = IntervalOf(j, h, n)
  BY <1>1 DEF Owns, KeptItsCode, IntervalOf
<1>4. NamesForward'
  BY <1>1 DEF ReplayInv, NamesForward
<1>5. ASSUME NEW j \in Instruments, NEW f \in DOMAIN rows, Owns(j, f), KeptItsCode(j)
      PROVE  Begins(rows'[f], build.reported[j]) /\ Begins(rows'[f], named[j])
  <2>1. Begins(rows'[f], build.reported[j])
    BY <1>5, NameChangeWrites
  <2> QED
    BY <1>1, <2>1, BeginsNow DEF Known
<1>6. CASE Len(build.events) = 1
  <2>1. build' = NoBuild
    BY <1>6 DEF NameChange
  <2>2. ~Building' /\ ~Replaying'
    BY <2>1 DEF Building, Replaying
  <2>3. RowsBegin'
    BY <1>1, <1>2, <1>3, <1>5, <2>2 DEF RowsBegin, Known
  <2>4. BuildGoesOn'
    BY <2>2 DEF BuildGoesOn
  <2> QED
    BY <1>4, <1>6, <2>2, <2>3, <2>4, NothingReplayed, ReplayReads DEF ReplayInv
<1>7. CASE Len(build.events) # 1
  <2>1. build' = [build EXCEPT !.events = Tail(@)] /\ ingested' = None
    BY <1>1, <1>7 DEF NameChange
  <2>2. DOMAIN build = {"listing", "events", "listed", "reported"}
    BY DEF ReplayInv, RegistryInv, TypeOK
  <2>3. build'.events = Tail(build.events) /\ build'.listing = build.listing /\ build'.reported = build.reported
    BY <2>1, <2>2
  <2>4. RowsBegin'
    <3>1. \A j : Known(j)' = build.reported[j] \/ Known(j)' = named[j]
      BY <1>1, <2>3 DEF Known
    <3> QED
      BY <1>2, <1>3, <1>5, <3>1 DEF RowsBegin
  <2>5. BuildGoesOn'
    BY <1>1, <1>2, <1>3, <2>1, <2>3 DEF ReplayInv, BuildGoesOn, Replaying
  <2>6. /\ \A a \in DOMAIN Tail(build.events) :
             a \in Nat /\ a + 1 \in DOMAIN build.events /\ Tail(build.events)[a] = build.events[a + 1]
    BY <1>1, LeftIs
  <2>7. EventsOrdered'
    <3> DEFINE s == build.events
               t == Tail(build.events)
    <3>1. /\ \A a \in DOMAIN s : \E i \in Instruments : \E n \in DOMAIN build.reported[i] :
               build.reported[i][n].from <= EventsUntil /\ s[a] = IntervalOf(i, build.reported[i], n)
          /\ \A a, b \in DOMAIN s : a < b /\ s[a].code = s[b].code => s[a].start < s[b].start
      BY <1>1 DEF ReplayInv, EventsOrdered
    <3>2. \A a \in DOMAIN t : a \in Nat /\ a + 1 \in DOMAIN s /\ t[a] = s[a + 1]
      BY <2>6
    <3> HIDE DEF s, t
    <3>3. \A a \in DOMAIN t : \E i \in Instruments : \E n \in DOMAIN build.reported[i] :
            build.reported[i][n].from <= EventsUntil /\ t[a] = IntervalOf(i, build.reported[i], n)
      BY <3>1, <3>2
    <3>4. ASSUME NEW a \in DOMAIN t, NEW b \in DOMAIN t, a < b, t[a].code = t[b].code
          PROVE  t[a].start < t[b].start
      <4>1. /\ a + 1 \in DOMAIN s /\ b + 1 \in DOMAIN s /\ t[a] = s[a + 1] /\ t[b] = s[b + 1]
            /\ a + 1 < b + 1
        BY <3>2, <3>4
      <4> QED
        BY <3>1, <3>4, <4>1
    <3> QED
      BY <1>3, <2>3, <3>3, <3>4 DEF EventsOrdered, t
  <2>8. NamesWritten'
    BY <1>2, <1>3, <2>3, NameChangeWrites DEF NamesWritten, Left
  <2> QED
    BY <1>4, <2>1, <2>4, <2>5, <2>7, <2>8, NoResult DEF ReplayInv
<1> QED
  BY <1>6, <1>7
-----------------------------------------------------------------------------
(* The theorems of the replay *)

LEMMA ReplayInit == Init => ReplayInv
<1> SUFFICES ASSUME Init PROVE ReplayInv
  OBVIOUS
<1>1. RegistryInv
  BY InitHolds
<1>2. /\ named = [i \in Instruments |-> <<[name |-> FirstName[i], from |-> FirstDay]>>]
      /\ build = NoBuild /\ ingested = None /\ rows = << >>
  BY DEF Init
<1>3. ~Building /\ ~Replaying
  BY <1>2 DEF Building, Replaying
<1>4. NamesForward
  <2> SUFFICES ASSUME NEW i \in Instruments
               PROVE  /\ named[i][1].from = FirstDay
                      /\ \A m, n \in DOMAIN named[i] : m < n => named[i][m].from < named[i][n].from
    BY DEF NamesForward
  <2>1. named[i] = <<[name |-> FirstName[i], from |-> FirstDay]>>
    BY <1>2
  <2>2. DOMAIN named[i] = {1} /\ named[i][1].from = FirstDay
    BY <2>1
  <2>3. \A m, n \in DOMAIN named[i] : ~(m < n)
    BY <2>2
  <2> QED
    BY <2>2, <2>3
<1>5. RowsBegin
  <2>1. DOMAIN rows = {}
    BY <1>2
  <2> QED
    BY <2>1 DEF RowsBegin
<1>6. BuildGoesOn /\ EventsOrdered /\ NamesWritten /\ NamesReplayed /\ ReadModelsAgree
  BY <1>2, <1>3 DEF BuildGoesOn, EventsOrdered, NamesWritten, NamesReplayed, ReadModelsAgree
<1> QED
  BY <1>1, <1>4, <1>5, <1>6 DEF ReplayInv

LEMMA ReplayStep == ReplayInv /\ [Next]_vars => ReplayInv'
<1> SUFFICES ASSUME ReplayInv, [Next]_vars PROVE ReplayInv'
  OBVIOUS
<1>0. RegistryInv'
  BY StepKeeps DEF ReplayInv
<1>1. CASE \E i \in Instruments, n \in Names, d \in Days : Rename(i, n, d)
  BY <1>0, <1>1, RenameReplays
<1>2. CASE \E i \in Instruments, c \in Codes, d \in Days : CodeChange(i, c, d)
  BY <1>0, <1>2, CodeChangeReplays
<1>3. CASE BeginBuild
  BY <1>0, <1>3, BeginBuildReplays
<1>4. CASE Register
  BY <1>0, <1>4, RegisterReplays
<1>5. CASE FetchEvents
  BY <1>0, <1>5, FetchEventsReplays
<1>6. CASE NameChange
  BY <1>0, <1>6, NameChangeReplays
<1>7. CASE Abort
  BY <1>0, <1>7, AbortReplays
<1>8. CASE UNCHANGED vars
  <2>1. UNCHANGED <<named, coded, codes, rows, build, ingested>>
    BY <1>8 DEF vars
  <2>2. \A j, e : /\ (Owns(j, e)' <=> Owns(j, e)) /\ (KeptItsCode(j)' <=> KeptItsCode(j)) /\ Known(j)' = Known(j)
                  /\ (Building' <=> Building) /\ (Replaying' <=> Replaying)
    BY <2>1 DEF Owns, KeptItsCode, Known, Building, Replaying
  <2>3. NamesForward' /\ BuildGoesOn' /\ RowsBegin'
    BY <2>1, <2>2 DEF ReplayInv, NamesForward, BuildGoesOn, RowsBegin
  <2> QED
    BY <1>0, <2>1, <2>3, ReplayFrame, ResultFrame DEF ReplayInv
<1> QED
  BY <1>1, <1>2, <1>3, <1>4, <1>5, <1>6, <1>7, <1>8 DEF Next

\* How far a build has come: the names go forward from the first day; what was reported
\* to it is how they began; every interval of it is still to be replayed, in order, or
\* written with every later row beside it; and rows begin where names began.
THEOREM ReplayInvariance == Spec => []ReplayInv
<1> QED
  BY ReplayInit, ReplayStep, PTL DEF Spec

\* build_from_hub: when a build comes to its end, every instrument that kept its code has
\* on every day that was asked for the name the source reported, although earlier builds,
\* finished or aborted, wrote the same intervals and open rows that are never withdrawn.
THEOREM NamesAreReplayed == Spec => []NamesReplayed
<1>1. ReplayInv => NamesReplayed
  BY DEF ReplayInv
<1> QED
  BY <1>1, ReplayInvariance, PTL

\* mart.entity_asof and mart.entity_latest_v1 rank rows by version, the registry by
\* validity: after such a build both read the same row, of every day and as the current one.
THEOREM ReadersAgree == Spec => []ReadModelsAgree
<1>1. ReplayInv => ReadModelsAgree
  BY DEF ReplayInv
<1> QED
  BY <1>1, ReplayInvariance, PTL
=============================================================================
