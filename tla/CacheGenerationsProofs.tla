----------------------- MODULE CacheGenerationsProofs -----------------------
(***************************************************************************)
(* Theorems about CacheGenerations for any processes, worker threads,      *)
(* readers and bounds.                                                     *)
(***************************************************************************)
EXTENDS CacheGenerations, FiniteSetTheorems, TLAPS

USE CacheAssumption DEF CacheAssumption, Value, Generation

LEMMA BoundsTyped == MaxEvents \in Nat
OBVIOUS

LEMMA LargerOf ==
  ASSUME NEW a \in Nat, NEW b \in Nat
  PROVE  Max({a, b}) = IF a >= b THEN a ELSE b
<1> DEFINE m == IF a >= b THEN a ELSE b
<1>1. m \in {a, b} /\ \A y \in {a, b} : m >= y
  OBVIOUS
<1>2. \A x \in {a, b} : (\A y \in {a, b} : x >= y) => x = m
  OBVIOUS
<1> HIDE DEF m
<1>3. Max({a, b}) = m
  BY <1>1, <1>2 DEF Max
<1> QED
  BY <1>3 DEF m

LEMMA GenerationAtTyped ==
  ASSUME TypeOK, NEW p \in Processes
  PROVE  /\ GenerationAt(p) \in Generation
         /\ up => GenerationAt(p) = IF gen1[p] >= gen2 THEN gen1[p] ELSE gen2
BY LargerOf DEF TypeOK, GenerationAt

\* A step that writes no more than one writer, or one reader, writes it well.
LEMMA WriterTyped ==
  ASSUME TypeOK, NEW w \in Writers, NEW c \in WriterState, writer' = [writer EXCEPT ![w] = c],
         data' \in Value, data' >= data, c.commit <= data', CommitsKnown
  PROVE  writer' \in [Writers -> WriterState] /\ \A v \in Writers : writer'[v].commit <= data'
<1>1. \A v \in Writers : writer[v].commit \in Value /\ writer[v].commit <= data
  BY DEF TypeOK, WriterState, CommitsKnown
<1>2. data \in Value
  BY DEF TypeOK
<1> QED
  BY <1>1, <1>2 DEF TypeOK

LEMMA ReaderTyped ==
  ASSUME TypeOK, ReadersPlaced, NEW r \in Readers, NEW c \in ReaderState,
         c.step # "idle" => c.process \in Processes, reader' = [reader EXCEPT ![r] = c]
  PROVE  reader' \in [Readers -> ReaderState] /\ ReadersPlaced'
BY DEF TypeOK, ReadersPlaced

\* Every step keeps every variable in its type, and readers in a process.
LEMMA TypeStep ==
  ASSUME TypeOK, ReadersPlaced, CommitsKnown, [Next]_vars
  PROVE  TypeOK' /\ ReadersPlaced' /\ CommitsKnown'
<1> USE DEF levels, bounds, history
<1> DEFINE Kept == TypeOK' /\ ReadersPlaced' /\ CommitsKnown'
<1>a. NotWriting \in WriterState /\ NotWriting.commit = 0
  BY DEF NotWriting, WriterState
<1>b. NotReading \in ReaderState /\ NotReading.step = "idle"
  BY DEF NotReading, ReaderState
<1>c. \A w \in Writers : /\ writer[w] \in WriterState /\ writer[w].commit \in Value
                         /\ writer[w].commit <= data
                         /\ writer[w].local \in Generation /\ writer[w].remote \in Generation
  BY DEF TypeOK, WriterState, CommitsKnown
<1>d. \A r \in Readers : /\ reader[r] \in ReaderState /\ reader[r].key \in Generation
                         /\ reader[r].got \in Value \cup {None}
                         /\ reader[r].step # "idle" => reader[r].process \in Processes
  BY DEF TypeOK, ReaderState, ReadersPlaced
<1>e. /\ data \in Nat /\ settled \in Nat /\ settled <= data
      /\ faults \in Nat /\ outages \in Nat /\ data + faults + outages <= MaxEvents
  BY DEF TypeOK, CommitsKnown
\* A step of a writer, which may also write the tables and the generations.
<1>w. ASSUME NEW w \in Writers, NEW c \in WriterState, writer' = [writer EXCEPT ![w] = c],
             data' \in Value, data' >= data, c.commit <= data',
             data' + faults + outages <= MaxEvents, crossed' \in BOOLEAN, setBack' \in BOOLEAN,
             settled' \in {settled, writer[w].commit},
             gen1' \in [Processes -> Generation], gen2' \in Generation,
             UNCHANGED <<level1, level2, up, reader, faults, outages>>
      PROVE  Kept
  <2>1. writer' \in [Writers -> WriterState] /\ \A v \in Writers : writer'[v].commit <= data'
    BY <1>w, WriterTyped
  <2>2. settled' \in Value /\ settled' <= data'
    BY <1>w, <1>c, <1>e DEF TypeOK
  <2>3. TypeOK'
    BY <1>w, <2>1, <2>2 DEF TypeOK
  <2>4. ReadersPlaced'
    BY <1>w DEF ReadersPlaced
  <2>5. CommitsKnown'
    BY <2>1, <2>2 DEF CommitsKnown
  <2> QED
    BY <2>3, <2>4, <2>5
\* A step of a reader, which may also store what it has.
<1>r. ASSUME NEW r \in Readers, NEW c \in ReaderState, reader' = [reader EXCEPT ![r] = c],
             c.step # "idle" => c.process \in Processes,
             level1' \in [Processes -> [Generation -> Value \cup {None}]],
             level2' \in [Generation -> Value \cup {None}],
             UNCHANGED <<data, gen1, gen2, up, writer, settled, crossed, setBack, faults, outages>>
      PROVE  Kept
  <2>1. reader' \in [Readers -> ReaderState] /\ ReadersPlaced'
    BY <1>r, ReaderTyped
  <2>2. TypeOK'
    BY <1>r, <2>1 DEF TypeOK
  <2>3. CommitsKnown'
    BY <1>r DEF CommitsKnown
  <2> QED
    BY <2>1, <2>2, <2>3
\* What happens to the levels, and to both when a process starts again.
<1>f. ASSUME UNCHANGED <<data, gen2, settled, crossed, setBack>>,
             gen1' \in [Processes -> Generation],
             level1' \in [Processes -> [Generation -> Value \cup {None}]],
             level2' \in [Generation -> Value \cup {None}],
             up' \in BOOLEAN, faults' \in Nat, outages' \in Nat,
             data + faults' + outages' <= MaxEvents,
             \A r \in Readers : reader'[r] \in {reader[r], NotReading},
             \A w \in Writers : writer'[w] \in {writer[w], NotWriting},
             reader' \in [Readers -> ReaderState], writer' \in [Writers -> WriterState]
      PROVE  Kept
  <2>1. TypeOK'
    BY <1>f DEF TypeOK
  <2>2. ReadersPlaced'
    BY <1>b, <1>d, <1>f DEF ReadersPlaced
  <2>3. data' = data /\ settled' = settled
    BY <1>f
  <2>4. \A w \in Writers : writer'[w].commit <= data
    <3> SUFFICES ASSUME NEW w \in Writers
                 PROVE  writer'[w].commit <= data
      OBVIOUS
    <3>1. writer'[w] = writer[w] \/ writer'[w] = NotWriting
      BY <1>f
    <3> QED
      BY <1>a, <1>c, <1>e, <3>1
  <2>5. CommitsKnown'
    BY <1>e, <2>3, <2>4 DEF CommitsKnown
  <2> QED
    BY <2>1, <2>2, <2>5
<1>k. data' = data => data' \in Value /\ data' >= data /\ data' + faults + outages <= MaxEvents
  BY <1>e DEF TypeOK
<1>g. /\ \A r \in Readers : reader[r] \in {reader[r], NotReading}
      /\ \A w \in Writers : writer[w] \in {writer[w], NotWriting}
      /\ reader \in [Readers -> ReaderState] /\ writer \in [Writers -> WriterState]
      /\ gen1 \in [Processes -> Generation] /\ gen2 \in Generation
      /\ level1 \in [Processes -> [Generation -> Value \cup {None}]]
      /\ level2 \in [Generation -> Value \cup {None}]
      /\ up \in BOOLEAN /\ crossed \in BOOLEAN /\ setBack \in BOOLEAN
  BY DEF TypeOK
<1> HIDE DEF Kept
<1>1. ASSUME NEW w \in Writers, Commit(w)
      PROVE  Kept
  <2> DEFINE c == [writer[w] EXCEPT !.step = "local", !.commit = data + 1]
  <2>1. data + 1 \in Value /\ data' = data + 1
    BY <1>1, <1>e DEF Commit, InBounds
  <2>2. c \in WriterState /\ c.commit = data + 1
    BY <1>c, <2>1 DEF WriterState
  <2>3. writer' = [writer EXCEPT ![w] = c]
    BY <1>1, <1>g DEF Commit
  <2> HIDE DEF c
  <2>4. UNCHANGED <<gen1, gen2, level1, level2, up, reader, settled, crossed, setBack, faults, outages>>
    BY <1>1 DEF Commit
  <2>5. /\ data' \in Value /\ data' >= data /\ c.commit <= data'
        /\ data' + faults + outages <= MaxEvents
    BY <1>1, <1>e, <2>1, <2>2 DEF Commit, InBounds
  <2> QED
    BY <1>g, <1>w, <2>2, <2>3, <2>4, <2>5
<1>2. ASSUME NEW w \in Writers, BumpLocal(w)
      PROVE  Kept
  <2> DEFINE c == [writer[w] EXCEPT !.step = "remote", !.local = gen1[ProcessOf[w]] + 1]
  <2>1. c \in WriterState /\ c.commit <= data
    BY <1>2, <1>c DEF WriterState, BumpLocal
  <2>2. writer' = [writer EXCEPT ![w] = c]
    BY <1>2, <1>g DEF BumpLocal
  <2>3. gen1' \in [Processes -> Generation]
    BY <1>2, <1>g DEF BumpLocal
  <2> HIDE DEF c
  <2>4. /\ UNCHANGED <<data, gen2, level1, level2, up, reader, settled, setBack, faults, outages>>
        /\ crossed' \in BOOLEAN
    BY <1>2 DEF BumpLocal
  <2> QED
    BY <1>g, <1>k, <1>w, <2>1, <2>2, <2>3, <2>4
<1>3. ASSUME NEW w \in Writers, BumpRemote(w)
      PROVE  Kept
  <2>1. CASE gen2' = gen2 + 1 /\ gen2 + 1 \in Generation
             /\ writer' = [writer EXCEPT ![w].step = "level", ![w].remote = gen2 + 1]
    <3> DEFINE c == [writer[w] EXCEPT !.step = "level", !.remote = gen2 + 1]
    <3>1. c \in WriterState /\ c.commit <= data
      BY <1>c, <2>1 DEF WriterState
    <3>2. writer' = [writer EXCEPT ![w] = c]
      BY <1>g, <2>1
    <3> HIDE DEF c
    <3>3. UNCHANGED <<data, gen1, level1, level2, up, reader, settled, crossed, setBack, faults, outages>>
      BY <1>3 DEF BumpRemote
    <3>4. gen2' \in Generation
      BY <2>1
    <3> QED
      BY <1>g, <1>k, <1>w, <3>1, <3>2, <3>3, <3>4
  <2>2. CASE UNCHANGED gen2 /\ writer' = [writer EXCEPT ![w] = NotWriting]
    <3>1. UNCHANGED <<data, gen1, level1, level2, up, reader, settled, crossed, setBack, faults, outages>>
      BY <1>3 DEF BumpRemote
    <3>2. NotWriting.commit <= data
      BY <1>a, <1>e
    <3> QED
      BY <1>a, <1>g, <1>k, <1>w, <2>2, <3>1, <3>2
  <2> QED
    BY <1>3, <2>1, <2>2 DEF BumpRemote
<1>4. ASSUME NEW w \in Writers, LevelGenerations(w)
      PROVE  Kept
  <2>1. settled' \in {settled, writer[w].commit}
    BY <1>4, <1>c, <1>e, LargerOf DEF LevelGenerations
  <2>2. gen2' \in Generation /\ gen1' \in [Processes -> Generation]
    BY <1>4, <1>c, <1>g DEF LevelGenerations
  <2>3. UNCHANGED <<data, level1, level2, up, reader, crossed, faults, outages>> /\ setBack' \in BOOLEAN
    BY <1>4 DEF LevelGenerations
  <2>4. NotWriting.commit <= data /\ writer' = [writer EXCEPT ![w] = NotWriting]
    BY <1>4, <1>a, <1>e DEF LevelGenerations
  <2> QED
    BY <1>a, <1>g, <1>k, <1>w, <2>1, <2>2, <2>3, <2>4
<1>5. ASSUME NEW r \in Readers, NEW p \in Processes, BuildKey(r, p)
      PROVE  Kept
  <2> DEFINE c == [step |-> "lookup", process |-> p, key |-> GenerationAt(p), got |-> None]
  <2>1. c \in ReaderState /\ c.process \in Processes
    BY GenerationAtTyped DEF ReaderState
  <2>2. reader' = [reader EXCEPT ![r] = c]
    BY <1>5 DEF BuildKey
  <2> HIDE DEF c
  <2> QED
    BY <1>5, <1>g, <1>r, <2>1, <2>2 DEF BuildKey
<1>6. ASSUME NEW r \in Readers, Lookup(r)
      PROVE  Kept
  <2> DEFINE c == IF Found(r) # None THEN NotReading ELSE [reader[r] EXCEPT !.step = "load"]
  <2>1. [reader[r] EXCEPT !.step = "load"] \in ReaderState
    BY <1>d DEF ReaderState
  <2>2. c \in ReaderState /\ (c.step # "idle" => c.process \in Processes)
    BY <1>6, <1>b, <1>d, <2>1 DEF Lookup, ReaderState
  <2>3. reader' = [reader EXCEPT ![r] = c]
    BY <1>6, <1>g DEF Lookup
  <2> HIDE DEF c
  <2> QED
    BY <1>6, <1>g, <1>r, <2>2, <2>3 DEF Lookup
<1>7. ASSUME NEW r \in Readers, Load(r)
      PROVE  Kept
  <2> DEFINE c == [reader[r] EXCEPT !.step = "store", !.got = data]
  <2>1. c \in ReaderState /\ c.process \in Processes
    BY <1>7, <1>d DEF ReaderState, Load, TypeOK
  <2>2. reader' = [reader EXCEPT ![r] = c]
    BY <1>7, <1>g DEF Load
  <2> HIDE DEF c
  <2> QED
    BY <1>7, <1>g, <1>r, <2>1, <2>2 DEF Load
<1>8. ASSUME NEW r \in Readers, LoadFails(r)
      PROVE  Kept
  BY <1>8, <1>b, <1>g, <1>r DEF LoadFails
<1>9. ASSUME NEW r \in Readers, Store(r)
      PROVE  Kept
  <2>1. level1' \in [Processes -> [Generation -> Value \cup {None}]]
    BY <1>9, <1>d, <1>g DEF Store
  <2>2. level2' \in [Generation -> Value \cup {None}]
    BY <1>9, <1>d, <1>g DEF Store
  <2> QED
    BY <1>9, <1>b, <1>g, <1>r, <2>1, <2>2 DEF Store
<1>10. ASSUME NEW g \in Generation, Drop(g)
       PROVE  Kept
  <2>1. faults' \in Nat /\ outages' \in Nat /\ data + faults' + outages' <= MaxEvents
    BY <1>10, <1>e DEF Drop, Fault, InBounds
  <2>2. /\ level1' \in [Processes -> [Generation -> Value \cup {None}]]
        /\ level2' \in [Generation -> Value \cup {None}]
    <3>1. CASE level2' = [level2 EXCEPT ![g] = None] /\ UNCHANGED level1
      BY <1>g, <3>1
    <3>2. ASSUME NEW p \in Processes, level1' = [level1 EXCEPT ![p][g] = None], UNCHANGED level2
          PROVE  /\ level1' \in [Processes -> [Generation -> Value \cup {None}]]
                 /\ level2' \in [Generation -> Value \cup {None}]
      BY <1>g, <3>2
    <3> QED
      BY <1>10, <3>1, <3>2 DEF Drop
  <2>3. UNCHANGED <<data, gen1, gen2, up, reader, writer, settled, crossed, setBack>>
    BY <1>10 DEF Drop
  <2> QED
    BY <1>f, <1>g, <2>1, <2>2, <2>3
<1>11. ASSUME NEW p \in Processes, DropGeneration(p)
       PROVE  Kept
  <2>1. /\ faults' \in Nat /\ outages' \in Nat /\ data + faults' + outages' <= MaxEvents
        /\ gen1' \in [Processes -> Generation]
    BY <1>11, <1>e, <1>g DEF DropGeneration, Fault, InBounds
  <2> QED
    BY <1>11, <1>f, <1>g, <2>1 DEF DropGeneration, Fault
<1>12. ASSUME NEW p \in Processes, Restart(p) \/ Kill(p)
       PROVE  Kept
  <2>1. faults' \in Nat /\ outages' \in Nat /\ data + faults' + outages' <= MaxEvents
    BY <1>12, <1>e DEF Restart, Kill, Fault, Broken, InBounds
  <2>2. Emptied(p)
    BY <1>12 DEF Restart, Kill
  <2>3. /\ gen1' \in [Processes -> Generation]
        /\ level1' \in [Processes -> [Generation -> Value \cup {None}]]
    BY <1>g, <2>2 DEF Emptied
  <2>4. /\ \A r \in Readers : reader'[r] \in {reader[r], NotReading}
        /\ \A w \in Writers : writer'[w] \in {writer[w], NotWriting}
        /\ reader' \in [Readers -> ReaderState] /\ writer' \in [Writers -> WriterState]
    BY <1>a, <1>b, <1>g, <2>2 DEF Emptied
  <2> QED
    BY <1>f, <1>g, <2>1, <2>2, <2>3, <2>4 DEF Emptied
<1>h. ASSUME UNCHANGED <<data, gen1, gen2, level1, level2, reader, writer, settled, crossed, setBack>>,
             up' \in BOOLEAN, faults' \in Nat, outages' \in Nat,
             data + faults' + outages' <= MaxEvents
      PROVE  Kept
  <2>1. /\ \A r \in Readers : reader'[r] \in {reader[r], NotReading}
        /\ \A w \in Writers : writer'[w] \in {writer[w], NotWriting}
        /\ reader' \in [Readers -> ReaderState] /\ writer' \in [Writers -> WriterState]
    BY <1>g, <1>h
  <2>2. /\ gen1' \in [Processes -> Generation]
        /\ level1' \in [Processes -> [Generation -> Value \cup {None}]]
        /\ level2' \in [Generation -> Value \cup {None}]
        /\ UNCHANGED <<data, gen2, settled, crossed, setBack>>
    BY <1>g, <1>h
  <2> QED
    BY <1>f, <1>h, <2>1, <2>2
<1>13. ASSUME Outage
       PROVE  Kept
  <2>1. faults' \in Nat /\ outages' \in Nat /\ data + faults' + outages' <= MaxEvents
    BY <1>13, <1>e DEF Outage, Broken, InBounds
  <2>2. up' \in BOOLEAN
    BY <1>13 DEF Outage
  <2>3. UNCHANGED <<data, gen1, gen2, level1, level2, reader, writer, settled, crossed, setBack>>
    BY <1>13 DEF Outage
  <2> QED
    BY <1>h, <2>1, <2>2, <2>3
<1>14. ASSUME Recover
       PROVE  Kept
  <2>1. UNCHANGED <<data, gen1, gen2, level1, level2, reader, writer, settled, crossed, setBack, faults, outages>>
    BY <1>14 DEF Recover
  <2>2. up' \in BOOLEAN
    BY <1>14 DEF Recover
  <2>3. faults' \in Nat /\ outages' \in Nat /\ data + faults' + outages' <= MaxEvents
    BY <1>e, <2>1
  <2> QED
    BY <1>h, <2>1, <2>2, <2>3
<1>15. ASSUME UNCHANGED vars
       PROVE  Kept
  <2>1. UNCHANGED <<data, gen1, gen2, level1, level2, up, reader, writer, settled, crossed, setBack, faults, outages>>
    BY <1>15 DEF vars
  <2>2. up' \in BOOLEAN /\ faults' \in Nat /\ outages' \in Nat /\ data + faults' + outages' <= MaxEvents
    BY <1>e, <1>g, <2>1
  <2> QED
    BY <1>h, <2>1, <2>2
<1> QED
  BY <1>1, <1>2, <1>3, <1>4, <1>5, <1>6, <1>7, <1>8, <1>9, <1>10, <1>11, <1>12, <1>13, <1>14, <1>15
  DEF Next, Kept
-----------------------------------------------------------------------------
(* What a step may cache, and under which keys *)

\* Entries and readers' loads only go, unless a reader fetches what is in the
\* tables under a key it holds already; new keys are of a generation read now.
LEMMA CarriesStep ==
  ASSUME TypeOK, ReadersPlaced, [Next]_vars, NEW g \in Generation
  PROVE  /\ \A v \in Value : Carries(g, v)' => Carries(g, v) \/ (v = data /\ Uses(g))
         /\ Uses(g)' => Uses(g) \/ \E p \in Processes : g = GenerationAt(p)
<1> DEFINE Old == \A v \in Value : Carries(g, v)' => Carries(g, v) \/ (v = data /\ Uses(g))
           Known == Uses(g)' => Uses(g) \/ \E p \in Processes : g = GenerationAt(p)
<1>a. NotReading.step = "idle"
  BY DEF NotReading
<1>b. None \notin Value
  OBVIOUS
<1>c. data \in Value
  BY DEF TypeOK
\* A key carries a value that is used.
<1>d. ASSUME Old,
             \A r \in Readers : reader'[r].step # "idle" /\ reader'[r].key = g =>
               Uses(g) \/ \E p \in Processes : g = GenerationAt(p)
      PROVE  Known
  BY <1>c, <1>d DEF Uses
<1>e. ASSUME level2'[g] \in {level2[g], None},
             \A p \in Processes : level1'[p][g] \in {level1[p][g], None},
             \A r \in Readers : reader'[r] \in {reader[r], NotReading}
      PROVE  Old /\ Known
  <2>1. Old
    BY <1>a, <1>b, <1>e DEF Carries
  <2> HIDE DEF Old
  <2>2. \A r \in Readers : reader'[r].step # "idle" /\ reader'[r].key = g => Uses(g)
    BY <1>a, <1>e DEF Uses
  <2> QED
    BY <1>d, <2>1, <2>2
\* A step of one reader that stores nothing.
<1>f. ASSUME NEW r \in Readers, NEW c, reader' = [reader EXCEPT ![r] = c], UNCHANGED <<level1, level2>>,
             c.step = "store" /\ c.key = g => c.got = data /\ Uses(g),
             c.step # "idle" /\ c.key = g => Uses(g) \/ \E p \in Processes : g = GenerationAt(p)
      PROVE  Old /\ Known
  <2>1. \A q \in Readers : reader'[q] = IF q = r THEN c ELSE reader[q]
    BY <1>f DEF TypeOK
  <2>2. Old
    <3> SUFFICES ASSUME NEW v \in Value, Carries(g, v)'
                 PROVE  Carries(g, v) \/ (v = data /\ Uses(g))
      OBVIOUS
    <3> QED
      BY <1>f, <2>1 DEF Carries
  <2> HIDE DEF Old
  <2>3. \A q \in Readers : reader'[q].step # "idle" /\ reader'[q].key = g =>
          Uses(g) \/ \E p \in Processes : g = GenerationAt(p)
    BY <1>f, <2>1 DEF Uses
  <2> QED
    BY <1>d, <2>2, <2>3
<1> HIDE DEF Old, Known
<1> USE DEF levels
<1>1. ASSUME NEW w \in Writers, Commit(w) \/ BumpLocal(w) \/ BumpRemote(w) \/ LevelGenerations(w)
      PROVE  Old /\ Known
  <2>1. UNCHANGED <<level1, level2, reader>>
    BY <1>1 DEF Commit, BumpLocal, BumpRemote, LevelGenerations
  <2> QED
    BY <1>e, <2>1
<1>2. ASSUME NEW r \in Readers, NEW p \in Processes, BuildKey(r, p)
      PROVE  Old /\ Known
  <2> DEFINE c == [step |-> "lookup", process |-> p, key |-> GenerationAt(p), got |-> None]
  <2>1. reader' = [reader EXCEPT ![r] = c] /\ UNCHANGED <<level1, level2>>
    BY <1>2 DEF BuildKey
  <2>2. c.step = "lookup" /\ c.key = GenerationAt(p)
    OBVIOUS
  <2> HIDE DEF c
  <2> QED
    BY <1>f, <2>1, <2>2
<1>3. ASSUME NEW r \in Readers, Lookup(r)
      PROVE  Old /\ Known
  <2> DEFINE c == IF Found(r) # None THEN NotReading ELSE [reader[r] EXCEPT !.step = "load"]
  <2>1. reader' = [reader EXCEPT ![r] = c] /\ UNCHANGED <<level1, level2>>
    BY <1>3 DEF Lookup, TypeOK
  <2>2. c.step \in {"idle", "load"} /\ (c.step # "idle" => c.key = reader[r].key)
    BY <1>a DEF TypeOK, ReaderState
  <2>3. reader[r].key = g => Uses(g)
    BY <1>3 DEF Lookup, Uses
  <2> HIDE DEF c
  <2> QED
    BY <1>f, <2>1, <2>2, <2>3
<1>4. ASSUME NEW r \in Readers, Load(r)
      PROVE  Old /\ Known
  <2> DEFINE c == [reader[r] EXCEPT !.step = "store", !.got = data]
  <2>1. reader' = [reader EXCEPT ![r] = c] /\ UNCHANGED <<level1, level2>>
    BY <1>4 DEF Load, TypeOK
  <2>2. c.key = reader[r].key /\ c.got = data
    BY DEF TypeOK, ReaderState
  <2>3. reader[r].key = g => Uses(g)
    BY <1>4 DEF Load, Uses
  <2> HIDE DEF c
  <2> QED
    BY <1>f, <2>1, <2>2, <2>3
<1>5. ASSUME NEW r \in Readers, LoadFails(r)
      PROVE  Old /\ Known
  <2>1. reader' = [reader EXCEPT ![r] = NotReading] /\ UNCHANGED <<level1, level2>>
    BY <1>5 DEF LoadFails
  <2> QED
    BY <1>a, <1>f, <2>1
<1>6. ASSUME NEW r \in Readers, Store(r)
      PROVE  Old /\ Known
  <2> DEFINE k == reader[r].key
             got == reader[r].got
  <2>1. \A q \in Readers : reader'[q] \in {reader[q], NotReading}
    BY <1>6 DEF Store, TypeOK
  <2>2. level2'[g] = level2[g] \/ (k = g /\ level2'[g] = got)
    BY <1>6 DEF Store, TypeOK
  <2>3. \A p \in Processes : level1'[p][g] = level1[p][g] \/ (k = g /\ level1'[p][g] = got)
    BY <1>6 DEF Store, TypeOK
  <2>4. reader[r].step = "store"
    BY <1>6 DEF Store
  <2>5. Old
    <3> SUFFICES ASSUME NEW v \in Value, Carries(g, v)'
                 PROVE  Carries(g, v)
      BY DEF Old
    <3> QED
      BY <1>a, <2>1, <2>2, <2>3, <2>4 DEF Carries
  <2>6. \A q \in Readers : reader'[q].step # "idle" /\ reader'[q].key = g => Uses(g)
    BY <1>a, <2>1 DEF Uses
  <2> QED
    BY <1>d, <2>5, <2>6
<1>7. ASSUME NEW h \in Generation, Drop(h)
      PROVE  Old /\ Known
  <2>1. level2'[g] \in {level2[g], None} /\ UNCHANGED reader
    BY <1>7 DEF Drop, TypeOK
  <2>2. \A p \in Processes : level1'[p][g] \in {level1[p][g], None}
    <3>1. CASE UNCHANGED level1
      BY <3>1
    <3>2. ASSUME NEW q \in Processes, level1' = [level1 EXCEPT ![q][h] = None]
          PROVE  \A p \in Processes : level1'[p][g] \in {level1[p][g], None}
      BY <3>2 DEF TypeOK
    <3> QED
      BY <1>7, <3>1, <3>2 DEF Drop
  <2> QED
    BY <1>e, <2>1, <2>2
<1>8. ASSUME NEW p \in Processes, DropGeneration(p) \/ Restart(p) \/ Kill(p)
      PROVE  Old /\ Known
  <2>1. CASE DropGeneration(p)
    BY <1>e, <2>1 DEF DropGeneration
  <2>2. CASE Emptied(p)
    <3>1. level2' = level2 /\ \A r \in Readers : reader'[r] \in {reader[r], NotReading}
      BY <2>2 DEF Emptied
    <3>2. \A q \in Processes : level1'[q][g] \in {level1[q][g], None}
      BY <2>2 DEF Emptied, TypeOK
    <3> QED
      BY <1>e, <3>1, <3>2
  <2> QED
    BY <1>8, <2>1, <2>2 DEF Restart, Kill
<1>9. ASSUME Outage \/ Recover \/ UNCHANGED vars
      PROVE  Old /\ Known
  <2>1. UNCHANGED <<level1, level2, reader>>
    BY <1>9 DEF Outage, Recover, vars
  <2> QED
    BY <1>e, <2>1
<1> QED
  BY <1>1, <1>2, <1>3, <1>4, <1>5, <1>6, <1>7, <1>8, <1>9 DEF Next, Old, Known
-----------------------------------------------------------------------------
(* Counting writers *)

LEMMA CountTyped ==
  ASSUME NEW S \in SUBSET Writers
  PROVE  IsFiniteSet(S) /\ Cardinality(S) \in Nat
BY FS_Subset, FS_CardinalityType

LEMMA CountMonotone ==
  ASSUME NEW S \in SUBSET Writers, NEW T \in SUBSET S
  PROVE  Cardinality(T) <= Cardinality(S)
BY CountTyped, FS_Subset

LEMMA CountWithout ==
  ASSUME NEW S \in SUBSET Writers, NEW w \in S
  PROVE  Cardinality(S \ {w}) + 1 = Cardinality(S)
<1>1. Cardinality(S \ {w}) = Cardinality(S) - 1
  BY CountTyped, FS_RemoveElement
<1> QED
  BY <1>1, CountTyped

LEMMA CountsTyped ==
  /\ Bumping \in SUBSET Writers /\ Cardinality(Bumping) \in Nat
  /\ \A v \in Value : /\ SeenBumping(v) \in SUBSET Bumping
                      /\ Cardinality(SeenBumping(v)) \in Nat
<1>1. Bumping \in SUBSET Writers /\ \A v \in Value : SeenBumping(v) \in SUBSET Bumping
  BY DEF Bumping, SeenBumping
<1> QED
  BY <1>1, CountTyped

\* As long as L2 answers, no process reads a generation further ahead of L2's than
\* there are increments of L2 to come.
LEMMA GenerationRead ==
  ASSUME TypeOK, up, NoneAhead, NEW p \in Processes
  PROVE  GenerationAt(p) <= gen2 + Cardinality(Bumping)
<1>1. gen1[p] \in Nat /\ gen2 \in Nat /\ Cardinality(Bumping) \in Nat
  BY CountsTyped DEF TypeOK
<1>2. gen1[p] <= gen2 + Cardinality(Bumping)
  BY DEF NoneAhead
<1> QED
  BY <1>1, <1>2, GenerationAtTyped
-----------------------------------------------------------------------------
(* One lemma for each kind of step, while L2 answers and nobody is killed *)

\* A step that no writer in the middle of an invalidation takes.
LEMMA OtherStep ==
  ASSUME CacheInv, [Next]_vars, outages = 0, UNCHANGED <<gen2, settled, data, crossed, setBack>>,
         \A p \in Processes : gen1'[p] \in {gen1[p], 0},
         \A w \in Writers : \/ writer'[w] = writer[w]
                            \/ writer[w].step = "idle" /\ writer'[w].step = "idle"
  PROVE  Traced' /\ Forward'
<1>a. TypeOK /\ ReadersPlaced /\ CommitsKnown /\ up /\ Traced /\ Forward
  BY DEF CacheInv
<1>b. Bumping' = Bumping
  BY DEF Bumping
<1>c. /\ gen2 \in Nat /\ data \in Value /\ settled \in Value /\ settled <= data
      /\ \A p \in Processes : gen1[p] \in Nat
      /\ \A w \in Writers : writer[w].commit <= data /\ writer[w].commit \in Value
  BY <1>a DEF TypeOK, CommitsKnown, WriterState
<1>d. \A v \in Value : SeenBumping(v)' = SeenBumping(v) /\ (Outdated(v)' => Outdated(v))
  BY DEF SeenBumping, Bumping, Outdated
<1>1. Traced'
  BY <1>a, <1>b, <1>c DEF Traced, LocalBehind, LevelledUp
<1>2. ASSUME ~setBack
      PROVE  (NoneAhead /\ KeysReached /\ NoneRevived)'
  <2>a. NoneAhead /\ KeysReached /\ NoneRevived
    BY <1>2, <1>a DEF Forward
  <2>1. NoneAhead'
    BY <2>a, <1>b, <1>c, CountsTyped DEF NoneAhead
  <2>2. KeysReached'
    <3> SUFFICES ASSUME NEW g \in Generation, Uses(g)'
                 PROVE  g <= gen2 + Cardinality(Bumping)
      BY <1>b DEF KeysReached
    <3>1. Uses(g) \/ \E p \in Processes : g = GenerationAt(p)
      BY <1>a, CarriesStep
    <3> QED
      BY <1>a, <2>a, <3>1, GenerationRead DEF KeysReached
  <2>3. NoneRevived'
    <3> SUFFICES ASSUME NEW g \in Generation, NEW v \in Value, Carries(g, v)'
                 PROVE  /\ g <= gen2 + Cardinality(SeenBumping(v))
                        /\ Outdated(v) => g < gen2 + Cardinality(SeenBumping(v))
      BY <1>d DEF NoneRevived
    <3>1. CASE Carries(g, v)
      BY <2>a, <3>1 DEF NoneRevived
    <3>2. CASE v = data /\ Uses(g)
      <4>1. SeenBumping(data) = Bumping
        BY <1>c DEF SeenBumping, Bumping
      <4>2. ~Outdated(data)
        BY <1>c DEF Outdated
      <4> QED
        BY <2>a, <3>2, <4>1, <4>2 DEF KeysReached
    <3> QED
      BY <1>a, <3>1, <3>2, CarriesStep
  <2> QED
    BY <2>1, <2>2, <2>3
<1>3. Forward'
  BY <1>2 DEF Forward
<1> QED
  BY <1>1, <1>3

LEMMA CommitStep ==
  ASSUME CacheInv, outages = 0, NEW w \in Writers, Commit(w)
  PROVE  Traced' /\ Forward'
<1>a. TypeOK /\ Traced /\ Forward
  BY DEF CacheInv
<1>b. UNCHANGED <<gen1, gen2, level1, level2, reader, settled, crossed, setBack>>
  BY DEF Commit, levels, history
<1>c. /\ writer[w].step = "idle" /\ writer'[w].step = "local"
      /\ \A v \in Writers \ {w} : writer'[v] = writer[v]
  BY <1>a DEF Commit, TypeOK
<1>d. Bumping' = Bumping
  BY <1>c DEF Bumping
<1>e. \A v \in Value : SeenBumping(v)' = SeenBumping(v) /\ (Outdated(v)' => Outdated(v))
  BY <1>b, <1>c, <1>d DEF SeenBumping, Bumping, Outdated
<1>f. \A g, v : Carries(g, v)' <=> Carries(g, v)
  BY <1>b DEF Carries
<1>g. \A g : Uses(g)' <=> Uses(g)
  BY <1>b, <1>f DEF Uses
<1>1. LocalBehind => LocalBehind'
  BY <1>b, <1>d DEF LocalBehind
<1>2. LevelledUp => LevelledUp'
  BY <1>b, <1>c DEF LevelledUp
<1>3. NoneAhead => NoneAhead'
  BY <1>b, <1>c, <1>d DEF NoneAhead
<1>4. KeysReached => KeysReached'
  BY <1>b, <1>d, <1>g DEF KeysReached
<1>5. NoneRevived => NoneRevived'
  BY <1>b, <1>e, <1>f DEF NoneRevived
<1> QED
  BY <1>a, <1>b, <1>1, <1>2, <1>3, <1>4, <1>5 DEF Traced, Forward

\* The L1 gets one further ahead of L2, and L2 has one increment more to come.
LEMMA BumpLocalStep ==
  ASSUME CacheInv, outages = 0, NEW w \in Writers, BumpLocal(w)
  PROVE  Traced' /\ Forward'
<1>a. TypeOK /\ Traced /\ Forward
  BY DEF CacheInv
<1> DEFINE p == ProcessOf[w]
<1>b. UNCHANGED <<gen2, level1, level2, reader, settled, setBack>> /\ p \in Processes
  BY DEF BumpLocal
<1>c. /\ writer[w].step = "local" /\ writer'[w].step = "remote"
      /\ writer'[w].local = gen1[p] + 1
      /\ \A v \in Writers \ {w} : writer'[v] = writer[v]
  BY <1>a DEF BumpLocal, TypeOK, WriterState
<1>d. Bumping' = Bumping \cup {w} /\ w \notin Bumping
  BY <1>c DEF Bumping
<1>e. gen2 \in Nat /\ \A q \in Processes : gen1[q] \in Nat
  BY <1>a DEF TypeOK
<1>f. \A q \in Processes : gen1'[q] = IF q = p THEN gen1[p] + 1 ELSE gen1[q]
  BY <1>a DEF BumpLocal, TypeOK
<1>g. /\ Cardinality(Bumping)' = Cardinality(Bumping) + 1
      /\ Cardinality(Bumping) \in Nat
  <2>1. Bumping' \in SUBSET Writers /\ w \in Bumping' /\ Bumping' \ {w} = Bumping
    BY <1>d, CountsTyped
  <2> HIDE <1>d
  <2>2. Cardinality(Bumping' \ {w}) + 1 = Cardinality(Bumping')
    BY <2>1, CountWithout
  <2> QED
    BY <2>1, <2>2, CountsTyped
<1>h. \A v \in Value : /\ Cardinality(SeenBumping(v)) <= Cardinality(SeenBumping(v)')
                       /\ Cardinality(SeenBumping(v)) \in Nat
                       /\ Cardinality(SeenBumping(v)') \in Nat
                       /\ Outdated(v)' => Outdated(v)
  <2> SUFFICES ASSUME NEW v \in Value
               PROVE  /\ Cardinality(SeenBumping(v)) <= Cardinality(SeenBumping(v)')
                      /\ Cardinality(SeenBumping(v)) \in Nat
                      /\ Cardinality(SeenBumping(v)') \in Nat
                      /\ Outdated(v)' => Outdated(v)
    OBVIOUS
  <2>1. SeenBumping(v)' \in SUBSET Writers /\ SeenBumping(v) \in SUBSET (SeenBumping(v)')
    BY <1>c, <1>d DEF SeenBumping, Bumping
  <2>2. Outdated(v)' => Outdated(v)
    BY <1>b, <1>c DEF Outdated
  <2>3. Cardinality(SeenBumping(v)) <= Cardinality(SeenBumping(v)')
    BY <2>1, CountMonotone
  <2>4. Cardinality(SeenBumping(v)) \in Nat /\ Cardinality(SeenBumping(v)') \in Nat
    BY <2>1, CountTyped, CountsTyped
  <2> QED
    BY <2>2, <2>3, <2>4
<1>i. \A g, v : Carries(g, v)' <=> Carries(g, v)
  BY <1>b DEF Carries
<1>j. \A g : Uses(g)' <=> Uses(g)
  BY <1>b, <1>i DEF Uses
<1>1. ASSUME ~crossed'
      PROVE  (LocalBehind /\ LevelledUp /\ ~setBack)'
  <2>1. ~crossed /\ \A v \in Bumping : ProcessOf[v] # p
    BY <1>1 DEF BumpLocal
  <2>2. LocalBehind /\ LevelledUp /\ ~setBack
    BY <1>a, <2>1 DEF Traced
  <2>3. gen1[p] <= gen2
    BY <1>b, <2>1, <2>2 DEF LocalBehind
  <2>4. LocalBehind'
    <3> SUFFICES ASSUME NEW q \in Processes
                 PROVE  \/ gen1'[q] <= gen2
                        \/ gen1'[q] = gen2 + 1 /\ \E v \in Bumping' : ProcessOf[v] = q
      BY <1>b DEF LocalBehind
    <3>1. CASE q = p
      BY <1>d, <1>e, <1>f, <2>3, <3>1
    <3>2. CASE q # p
      BY <1>d, <1>f, <2>2, <3>2 DEF LocalBehind
    <3> QED
      BY <3>1, <3>2
  <2>5. LevelledUp'
    BY <1>b, <1>c, <1>e, <2>2, <2>3 DEF LevelledUp
  <2> QED
    BY <1>b, <2>2, <2>4, <2>5
<1>2. NoneAhead => NoneAhead'
  <2> SUFFICES ASSUME NoneAhead, NEW q \in Processes
               PROVE  gen1'[q] <= gen2 + (Cardinality(Bumping) + 1)
    BY <1>b, <1>c, <1>g DEF NoneAhead
  <2>1. gen1[q] <= gen2 + Cardinality(Bumping)
    BY DEF NoneAhead
  <2> QED
    BY <1>e, <1>f, <1>g, <2>1
<1>3. KeysReached => KeysReached'
  BY <1>b, <1>e, <1>g, <1>j DEF KeysReached
<1>4. NoneRevived => NoneRevived'
  <2> SUFFICES ASSUME NoneRevived, NEW g \in Generation, NEW v \in Value, Carries(g, v)
               PROVE  /\ g <= gen2 + Cardinality(SeenBumping(v)')
                      /\ Outdated(v)' => g < gen2 + Cardinality(SeenBumping(v)')
    BY <1>b, <1>i DEF NoneRevived
  <2>1. /\ g <= gen2 + Cardinality(SeenBumping(v))
        /\ Outdated(v) => g < gen2 + Cardinality(SeenBumping(v))
    BY DEF NoneRevived
  <2> QED
    BY <1>e, <1>h, <2>1
<1> QED
  BY <1>a, <1>b, <1>1, <1>2, <1>3, <1>4 DEF Traced, Forward

\* L2 makes one of the increments that were to come.
LEMMA BumpRemoteStep ==
  ASSUME CacheInv, outages = 0, NEW w \in Writers, BumpRemote(w)
  PROVE  Traced' /\ Forward'
<1>a. TypeOK /\ up /\ Traced /\ Forward
  BY DEF CacheInv
<1>b. /\ gen2' = gen2 + 1 /\ gen2 \in Nat
      /\ UNCHANGED <<gen1, level1, level2, reader, settled, crossed, setBack>>
      /\ \A p \in Processes : gen1[p] \in Nat
  BY <1>a DEF BumpRemote, TypeOK, history
<1>c. /\ writer[w].step = "remote" /\ writer'[w].step = "level"
      /\ writer'[w].remote = gen2 + 1 /\ writer'[w].local = writer[w].local
      /\ writer'[w].commit = writer[w].commit
      /\ \A v \in Writers \ {w} : writer'[v] = writer[v]
  BY <1>a DEF BumpRemote, TypeOK, WriterState
<1>d. Bumping' = Bumping \ {w} /\ w \in Bumping
  BY <1>c DEF Bumping
<1>e. /\ Cardinality(Bumping)' + 1 = Cardinality(Bumping)
      /\ Cardinality(Bumping)' \in Nat /\ Cardinality(Bumping) \in Nat
  <2>1. Cardinality(Bumping \ {w}) + 1 = Cardinality(Bumping)
    BY <1>d, CountWithout, CountsTyped
  <2>2. Cardinality(Bumping \ {w}) \in Nat
    BY CountTyped, CountsTyped
  <2> QED
    BY <1>d, <2>1, <2>2, CountsTyped
<1>f. \A v \in Writers : /\ writer[v].local \in Nat /\ writer[v].remote \in Nat
                         /\ writer[v].commit \in Nat
  BY <1>a DEF TypeOK, WriterState
<1>g. \A g, v : Carries(g, v)' <=> Carries(g, v)
  BY <1>b DEF Carries
<1>h. \A g : Uses(g)' <=> Uses(g)
  BY <1>b, <1>g DEF Uses
<1>1. LocalBehind => LocalBehind'
  BY <1>b, <1>e DEF LocalBehind
<1>2. LevelledUp => LevelledUp'
  <2> SUFFICES ASSUME LevelledUp, NEW v \in Writers
               PROVE  /\ writer'[v].step = "remote" => writer'[v].local <= gen2 + 2
                      /\ writer'[v].step = "level" => writer'[v].local <= writer'[v].remote
    BY <1>b DEF LevelledUp
  <2>1. CASE v = w
    BY <1>c, <2>1 DEF LevelledUp
  <2>2. CASE v # w
    BY <1>b, <1>c, <1>f, <2>2 DEF LevelledUp
  <2> QED
    BY <2>1, <2>2
<1>3. NoneAhead => NoneAhead'
  <2> SUFFICES ASSUME NoneAhead
               PROVE  NoneAhead'
    OBVIOUS
  <2>1. \A p \in Processes : gen1'[p] <= gen2' + Cardinality(Bumping)'
    BY <1>b, <1>e DEF NoneAhead
  <2>2. \A v \in Writers : writer'[v].step = "level" => writer'[v].remote <= gen2'
    BY <1>b, <1>c, <1>f DEF NoneAhead
  <2> QED
    BY <2>1, <2>2 DEF NoneAhead
<1>4. KeysReached => KeysReached'
  BY <1>b, <1>e, <1>h DEF KeysReached
<1>5. NoneRevived => NoneRevived'
  <2> SUFFICES ASSUME NoneRevived, NEW g \in Generation, NEW v \in Value, Carries(g, v)
               PROVE  /\ g <= gen2 + 1 + Cardinality(SeenBumping(v)')
                      /\ Outdated(v)' => g < gen2 + 1 + Cardinality(SeenBumping(v)')
    BY <1>b, <1>g DEF NoneRevived
  <2>a. /\ g <= gen2 + Cardinality(SeenBumping(v))
        /\ Outdated(v) => g < gen2 + Cardinality(SeenBumping(v))
    BY DEF NoneRevived
  <2>b. v \in Nat /\ g \in Nat /\ Cardinality(SeenBumping(v)) \in Nat
    BY CountsTyped
  \* A load that found v had seen the commit: one such increment less to come.
  <2>1. CASE writer[w].commit <= v
    <3>1. SeenBumping(v)' = SeenBumping(v) \ {w} /\ w \in SeenBumping(v)
      BY <1>c, <1>d, <2>1 DEF SeenBumping, Bumping
    <3>2. Cardinality(SeenBumping(v) \ {w}) + 1 = Cardinality(SeenBumping(v))
      BY <3>1, CountWithout, CountsTyped
    <3>3. Cardinality(SeenBumping(v) \ {w}) \in Nat
      BY CountTyped, CountsTyped
    <3>4. Outdated(v)' => Outdated(v)
      <4>1. ~(writer'[w].commit > v)
        BY <1>c, <1>f, <2>1, <2>b
      <4> QED
        BY <1>b, <1>c, <4>1 DEF Outdated
    <3> QED
      BY <1>b, <2>a, <2>b, <3>1, <3>2, <3>3, <3>4
  \* It had not: v is outdated from now on, and L2 past the generation that holds it.
  <2>2. CASE ~(writer[w].commit <= v)
    <3>1. SeenBumping(v)' = SeenBumping(v)
      BY <1>c, <1>d, <2>2 DEF SeenBumping, Bumping
    <3> QED
      BY <1>b, <2>a, <2>b, <3>1
  <2> QED
    BY <2>1, <2>2
<1> QED
  BY <1>a, <1>b, <1>1, <1>2, <1>3, <1>4, <1>5 DEF Traced, Forward

\* Levelling sets L1 to what L2 has reached, and L2 forward unless threads crossed.
LEMMA LevelStep ==
  ASSUME CacheInv, outages = 0, NEW w \in Writers, LevelGenerations(w)
  PROVE  Traced' /\ Forward'
<1>a. TypeOK /\ CommitsKnown /\ up /\ Traced /\ Forward
  BY DEF CacheInv
<1>b. /\ writer[w].step = "level" /\ writer[w].local \in Nat /\ writer[w].remote \in Nat
      /\ gen2 \in Nat /\ gen2' \in Nat
      /\ \A p \in Processes : gen1[p] \in Nat
  BY <1>a DEF LevelGenerations, TypeOK, WriterState
<1>c. /\ UNCHANGED <<level1, level2, reader, crossed>>
      /\ setBack' <=> setBack \/ gen2' < gen2
      /\ gen2' = IF writer[w].local > writer[w].remote THEN writer[w].local ELSE gen2
      /\ \A p \in Processes : gen1'[p] = gen1[p] \/ gen1'[p] = writer[w].remote
  BY <1>a DEF LevelGenerations, TypeOK
<1>d. /\ writer'[w].step = "idle"
      /\ \A v \in Writers \ {w} : writer'[v] = writer[v]
  BY <1>a DEF LevelGenerations, TypeOK, NotWriting
<1>e. Bumping' = Bumping /\ w \notin Bumping
  BY <1>b, <1>d DEF Bumping
<1>f. settled' \in {settled, writer[w].commit}
  <2>1. settled' = Max({settled, writer[w].commit})
    BY DEF LevelGenerations
  <2>2. settled \in Nat /\ writer[w].commit \in Nat
    BY <1>a DEF TypeOK, WriterState
  <2> QED
    BY <2>1, <2>2, LargerOf
<1>g. \A v \in Value : SeenBumping(v)' = SeenBumping(v) /\ (Outdated(v)' => Outdated(v))
  BY <1>b, <1>d, <1>e, <1>f DEF SeenBumping, Bumping, Outdated
<1>h. \A g, v : Carries(g, v)' <=> Carries(g, v)
  BY <1>c DEF Carries
<1>i. \A g : Uses(g)' <=> Uses(g)
  BY <1>c, <1>h DEF Uses
<1>1. ASSUME ~crossed
      PROVE  (LocalBehind /\ LevelledUp /\ ~setBack)'
  <2>1. LocalBehind /\ LevelledUp /\ ~setBack /\ NoneAhead
    BY <1>1, <1>a DEF Traced, Forward
  <2>2. gen2' = gen2 /\ writer[w].remote <= gen2
    BY <1>b, <1>c, <2>1 DEF LevelledUp, NoneAhead
  <2>3. ~setBack'
    BY <1>b, <1>c, <2>1, <2>2
  <2>4. LocalBehind'
    BY <1>b, <1>c, <1>e, <2>1, <2>2 DEF LocalBehind
  <2>5. LevelledUp'
    BY <1>d, <2>1, <2>2 DEF LevelledUp
  <2> QED
    BY <2>3, <2>4, <2>5
<1>2. ASSUME ~setBack'
      PROVE  (NoneAhead /\ KeysReached /\ NoneRevived)'
  <2>a. ~setBack /\ gen2 <= gen2'
    BY <1>2, <1>b, <1>c
  <2>b. NoneAhead /\ KeysReached /\ NoneRevived
    BY <2>a, <1>a DEF Forward
  <2>1. NoneAhead'
    <3>1. writer[w].remote <= gen2
      BY <1>b, <2>b DEF NoneAhead
    <3>2. \A p \in Processes : gen1'[p] <= gen2' + Cardinality(Bumping)
      BY <1>b, <1>c, <2>a, <2>b, <3>1, CountsTyped DEF NoneAhead
    <3>3. \A v \in Writers : writer'[v].step = "level" => writer'[v].remote <= gen2'
      <4> SUFFICES ASSUME NEW v \in Writers, writer'[v].step = "level"
                   PROVE  writer'[v].remote <= gen2'
        OBVIOUS
      <4>1. v # w /\ writer'[v] = writer[v] /\ writer[v].remote \in Nat
        BY <1>a, <1>d DEF TypeOK, WriterState
      <4> QED
        BY <1>b, <2>a, <2>b, <4>1 DEF NoneAhead
    <3> QED
      BY <1>e, <3>2, <3>3 DEF NoneAhead
  <2>2. KeysReached'
    <3> SUFFICES ASSUME NEW g \in Generation, Uses(g)
                 PROVE  g <= gen2' + Cardinality(Bumping)
      BY <1>e, <1>i DEF KeysReached
    <3>1. g <= gen2 + Cardinality(Bumping)
      BY <2>b DEF KeysReached
    <3> QED
      BY <1>b, <2>a, <3>1, CountsTyped
  <2>3. NoneRevived'
    <3> SUFFICES ASSUME NEW g \in Generation, NEW v \in Value, Carries(g, v)
                 PROVE  /\ g <= gen2' + Cardinality(SeenBumping(v))
                        /\ Outdated(v) => g < gen2' + Cardinality(SeenBumping(v))
      BY <1>g, <1>h DEF NoneRevived
    <3>1. /\ g <= gen2 + Cardinality(SeenBumping(v))
          /\ Outdated(v) => g < gen2 + Cardinality(SeenBumping(v))
      BY <2>b DEF NoneRevived
    <3> QED
      BY <1>b, <2>a, <3>1, CountsTyped
  <2> QED
    BY <2>1, <2>2, <2>3
<1>3. Traced'
  BY <1>1, <1>c DEF Traced
<1>4. Forward'
  BY <1>2 DEF Forward
<1> QED
  BY <1>3, <1>4
-----------------------------------------------------------------------------
(* The theorems *)

LEMMA CacheInit ==
  ASSUME Init
  PROVE  CacheInv
<1>a. NotWriting \in WriterState /\ NotReading \in ReaderState
  BY DEF NotWriting, NotReading, WriterState, ReaderState
<1>b. NotWriting.step = "idle" /\ NotWriting.commit = 0 /\ NotReading.step = "idle"
  BY DEF NotWriting, NotReading
<1>c. Bumping = {}
  BY <1>b DEF Init, Bumping
<1>d. \A g \in Generation : ~Uses(g)
  <2>1. \A g \in Generation, v \in Value : ~Carries(g, v)
    BY <1>b DEF Init, Carries
  <2> QED
    BY <1>b, <2>1 DEF Init, Uses
<1>1. TypeOK
  <2>1. /\ data = 0 /\ faults = 0 /\ outages = 0 /\ settled = 0 /\ gen2 = 0
        /\ 0 \in Value /\ 0 \in Generation
    BY DEF Init
  <2>2. faults \in Nat /\ outages \in Nat /\ data + faults + outages <= MaxEvents
    BY <2>1
  <2>3. /\ gen1 \in [Processes -> Generation]
        /\ level1 \in [Processes -> [Generation -> Value \cup {None}]]
        /\ level2 \in [Generation -> Value \cup {None}]
        /\ reader \in [Readers -> ReaderState] /\ writer \in [Writers -> WriterState]
    BY <1>a, <2>1 DEF Init
  <2>4. up \in BOOLEAN /\ crossed \in BOOLEAN /\ setBack \in BOOLEAN
    BY DEF Init
  <2> HIDE DEF Value, Generation
  <2> QED
    BY <2>1, <2>2, <2>3, <2>4 DEF TypeOK
<1>2. ReadersPlaced /\ CommitsKnown
  BY <1>b DEF Init, ReadersPlaced, CommitsKnown
<1>3. up /\ Traced
  BY <1>b DEF Init, Traced, LocalBehind, LevelledUp
<1>4. Forward
  <2>1. NoneAhead
    BY <1>b, CountsTyped DEF Init, NoneAhead
  <2>2. KeysReached /\ NoneRevived
    BY <1>d DEF KeysReached, NoneRevived, Uses
  <2> QED
    BY <2>1, <2>2 DEF Forward
<1> QED
  BY <1>1, <1>2, <1>3, <1>4 DEF CacheInv

\* Outages and kills are counted, and L2 goes down in an outage only.
LEMMA OutagesCount ==
  ASSUME TypeOK, [Next]_vars
  PROVE  outages' >= outages /\ (outages' = outages /\ up => up')
<1> DEFINE Counted == outages' >= outages /\ (outages' = outages /\ up => up')
<1>a. outages \in Nat
  BY DEF TypeOK
<1>b. ASSUME UNCHANGED <<up, outages>>
      PROVE  Counted
  BY <1>a, <1>b
<1>c. ASSUME outages' = outages + 1
      PROVE  Counted
  BY <1>a, <1>c
<1>d. ASSUME up'
      PROVE  outages' = outages => Counted
  BY <1>a, <1>d
<1> HIDE DEF Counted
<1>1. ASSUME NEW w \in Writers, Commit(w) \/ BumpLocal(w) \/ BumpRemote(w) \/ LevelGenerations(w)
      PROVE  Counted
  BY <1>1, <1>b DEF Commit, BumpLocal, BumpRemote, LevelGenerations, bounds
<1>2. ASSUME NEW r \in Readers, NEW p \in Processes, BuildKey(r, p)
      PROVE  Counted
  BY <1>2, <1>b DEF BuildKey, bounds
<1>3. ASSUME NEW r \in Readers, Lookup(r) \/ Load(r) \/ LoadFails(r) \/ Store(r)
      PROVE  Counted
  BY <1>3, <1>b DEF Lookup, Load, LoadFails, Store, bounds
<1>4. ASSUME NEW g \in Generation, Drop(g)
      PROVE  Counted
  BY <1>4, <1>b DEF Drop, Fault
<1>5. ASSUME NEW p \in Processes, DropGeneration(p) \/ Restart(p)
      PROVE  Counted
  BY <1>5, <1>b DEF DropGeneration, Restart, Emptied, Fault
<1>6. ASSUME NEW p \in Processes, Kill(p)
      PROVE  Counted
  BY <1>6, <1>c DEF Kill, Broken
<1>7. ASSUME Outage
      PROVE  Counted
  BY <1>7, <1>c DEF Outage, Broken
<1>8. ASSUME Recover
      PROVE  Counted
  BY <1>8, <1>d DEF Recover, bounds
<1>9. ASSUME UNCHANGED vars
      PROVE  Counted
  BY <1>9, <1>b DEF vars, bounds
<1> QED
  BY <1>1, <1>2, <1>3, <1>4, <1>5, <1>6, <1>7, <1>8, <1>9 DEF Next, Counted

LEMMA NeverBroken ==
  ASSUME TypeOK, [Next]_vars, outages' = 0
  PROVE  outages = 0
<1>1. outages' >= outages
  BY OutagesCount
<1>2. outages \in Nat
  BY DEF TypeOK
<1> QED
  BY <1>1, <1>2

LEMMA CacheStep ==
  ASSUME CacheInv, [Next]_vars
  PROVE  CacheInv'
<1> DEFINE Levelled == Traced /\ Forward
<1>a. TypeOK /\ ReadersPlaced /\ CommitsKnown
  BY DEF CacheInv
<1>b. TypeOK' /\ ReadersPlaced' /\ CommitsKnown'
  BY <1>a, TypeStep
<1>1. ASSUME outages' = 0
      PROVE  up' /\ Levelled'
  <2>1. outages = 0 /\ up' /\ up
    <3>2. outages = 0
      BY <1>1, <1>a, NeverBroken
    <3>3. up
      BY <3>2 DEF CacheInv
    <3> QED
      BY <1>1, <1>a, <3>2, <3>3, OutagesCount
  <2>2. ASSUME NEW w \in Writers, Commit(w) \/ BumpLocal(w) \/ BumpRemote(w) \/ LevelGenerations(w)
        PROVE  Levelled'
    BY <2>1, <2>2, CommitStep, BumpLocalStep, BumpRemoteStep, LevelStep
  \* A reader's step, a dropped entry, an L1 that starts again.
  <2>3. ASSUME UNCHANGED <<gen2, settled, data, crossed, setBack>>,
               \A p \in Processes : gen1'[p] \in {gen1[p], 0},
               \A w \in Writers : \/ writer'[w] = writer[w]
                                  \/ writer[w].step = "idle" /\ writer'[w].step = "idle"
        PROVE  Levelled'
    BY <2>1, <2>3, OtherStep
  <2>4. ASSUME UNCHANGED <<gen1, gen2, settled, data, crossed, setBack, writer>>
        PROVE  Levelled'
    BY <2>3, <2>4
  <2> HIDE DEF Levelled
  <2>5. ASSUME NEW r \in Readers, NEW p \in Processes, BuildKey(r, p)
        PROVE  Levelled'
    BY <2>4, <2>5 DEF BuildKey, levels, history
  <2>6. ASSUME NEW r \in Readers, Lookup(r) \/ Load(r) \/ LoadFails(r) \/ Store(r)
        PROVE  Levelled'
    BY <2>4, <2>6 DEF Lookup, Load, LoadFails, Store, levels, history
  <2>7. ASSUME NEW g \in Generation, Drop(g)
        PROVE  Levelled'
    BY <2>4, <2>7 DEF Drop, history
  <2>8. ASSUME NEW p \in Processes, DropGeneration(p)
        PROVE  Levelled'
    BY <1>a, <2>3, <2>8 DEF DropGeneration, TypeOK, history
  <2>9. ASSUME NEW p \in Processes, Restart(p)
        PROVE  Levelled'
    <3>1. Emptied(p) /\ \A w \in Writers : ProcessOf[w] = p => writer[w].step = "idle"
      BY <2>9 DEF Restart, MidBump
    <3>2. /\ UNCHANGED <<gen2, settled, data, crossed, setBack>>
          /\ \A q \in Processes : gen1'[q] \in {gen1[q], 0}
      BY <1>a, <3>1 DEF Emptied, TypeOK, history
    <3>3. \A w \in Writers : \/ writer'[w] = writer[w]
                             \/ writer[w].step = "idle" /\ writer'[w].step = "idle"
      BY <3>1 DEF Emptied, NotWriting
    <3> QED
      BY <2>3, <3>2, <3>3
  <2>10. ASSUME NEW p \in Processes, Kill(p)
         PROVE  Levelled'
    BY <1>1, <2>1, <2>10 DEF Kill, Broken
  <2>11. ASSUME Outage \/ Recover \/ UNCHANGED vars
         PROVE  Levelled'
    BY <1>1, <2>1, <2>4, <2>11 DEF Outage, Broken, Recover, vars, levels, history
  <2>12. Levelled'
    BY <2>2, <2>5, <2>6, <2>7, <2>8, <2>9, <2>10, <2>11 DEF Next
  <2> QED
    BY <2>1, <2>12
<1> QED
  BY <1>b, <1>1 DEF CacheInv

\* In every reachable state, for any threads in any processes: the strengthening of
\* the safety properties.
THEOREM CacheInvariance == Spec => []CacheInv
<1>1. Init => CacheInv
  BY CacheInit
<1>2. CacheInv /\ [Next]_vars => CacheInv'
  BY CacheStep
<1> QED
  BY <1>1, <1>2, PTL DEF Spec

\* Every variable keeps its type.
THEOREM CacheTyped == Spec => []TypeOK
<1>1. CacheInv => TypeOK
  BY DEF CacheInv
<1> QED
  BY <1>1, CacheInvariance, PTL

\* bump_generation and get_or_load: while no invalidation is under way, what a key
\* built now leads to was loaded after the last commit whose invalidation completed.
LEMMA StaleNever ==
  ASSUME CacheInv
  PROVE  InvalidationWins
<1>a. TypeOK /\ ReadersPlaced
  BY DEF CacheInv
<1> SUFFICES ASSUME outages = 0, ~setBack, Quiet, NEW p \in Processes,
                    NEW v \in Served(p, GenerationAt(p)) \ {None}
             PROVE  v >= settled
  BY DEF InvalidationWins, NoStaleKeys
<1>b. up /\ NoneAhead /\ NoneRevived
  BY DEF CacheInv, Forward
<1>c. gen2 \in Nat /\ settled \in Nat /\ \A q \in Processes : gen1[q] \in Nat
  BY <1>a DEF TypeOK
<1>1. Cardinality(Bumping) = 0
  <2>1. Bumping = {}
    BY DEF Bumping, Quiet
  <2> QED
    BY <2>1, FS_EmptySet
<1>2. GenerationAt(p) = gen2 /\ gen2 \in Generation
  <2>1. gen1[p] <= gen2
    BY <1>b, <1>c, <1>1 DEF NoneAhead
  <2>2. GenerationAt(p) = gen2
    BY <1>a, <1>b, <1>c, <2>1, GenerationAtTyped
  <2> QED
    BY <1>a, <2>2 DEF TypeOK
<1>3. v \in Value
  BY <1>a, <1>2 DEF Served, TypeOK, ReaderState
<1>4. Carries(gen2, v)
  BY <1>2 DEF Served, Carries
<1>5. Cardinality(SeenBumping(v)) = 0
  <2>1. SeenBumping(v) = {}
    BY DEF SeenBumping, Bumping, Quiet
  <2> QED
    BY <2>1, FS_EmptySet
<1>6. ~Outdated(v)
  BY <1>b, <1>c, <1>2, <1>3, <1>4, <1>5 DEF NoneRevived
<1> QED
  BY <1>c, <1>3, <1>6 DEF Outdated

\* The invalidation of a domain holds, for any number of worker threads in a process,
\* until a levelling sets L2 back.
THEOREM InvalidationAlwaysWins == Spec => []InvalidationWins
<1>1. CacheInv => InvalidationWins
  BY StaleNever
<1> QED
  BY <1>1, CacheInvariance, PTL

\* Two threads of one process whose increments cross are what it takes to set L2 back.
THEOREM SetBackIsTraced == Spec => []SetBackTraced
<1>1. CacheInv => SetBackTraced
  BY DEF CacheInv, Traced, SetBackTraced
<1> QED
  BY <1>1, CacheInvariance, PTL
=============================================================================
