-------------------------- MODULE CacheGenerations --------------------------
(***************************************************************************)
(* Invalidation by generation in the layered cache of the platform, for    *)
(* one domain and one panel: an L1 in every process, an L2 (Redis) they    *)
(* share, and the tables behind them.                                      *)
(*                                                                         *)
(*   writer  (on_success of a sync, in any worker thread)  commit, then    *)
(*           invalidate_domain: increment the generation in L1, in L2, and *)
(*           level the two, each a step of its own                         *)
(*   reader  build_key, whose key holds the generation; then get_or_load:  *)
(*           look up, load from the tables, store                          *)
(*                                                                         *)
(* A call on L2 raises while L2 is down and the cache carries on without   *)
(* it (fail open).  The locks of get_or_load only make readers of one key  *)
(* wait for each other, until a deadline: readers interleave freely here.  *)
(* A value is the number of commits it was loaded after.                   *)
(***************************************************************************)
EXTENDS Naturals, FiniteSets, FiniteSetsExt

CONSTANTS
  Processes,   \* each with an L1 of its own
  Readers,     \* reads under way at once, in any process
  Writers,     \* worker threads, which commit and invalidate
  ProcessOf,   \* the process of a worker thread
  MaxEvents,   \* bound: commits, faults and outages together
  None

ASSUME CacheAssumption ==
  /\ IsFiniteSet(Writers)
  /\ ProcessOf \in [Writers -> Processes]
  /\ MaxEvents \in Nat
  /\ None \notin Nat \cup Processes

VARIABLES
  data,      \* commits to the tables of the domain so far
  gen1,      \* gen1[p]: the generation in p's L1
  gen2,      \* the generation in L2
  level1,    \* level1[p][g]: the entry of p's L1 under generation g
  level2,    \* level2[g]: the entry of L2 under generation g
  up,        \* L2 answers
  reader,    \* where each reader is, with its key and what it has loaded
  writer,    \* where each writer is in bump_generation
  settled,   \* the newest commit whose invalidation has completed
  crossed,   \* history: a thread has incremented its L1 while another of its
             \* process was between its two increments
  setBack,   \* history: L2 has been set to a lower generation
  faults,    \* entries dropped and restarts so far
  outages    \* outages of L2 and kills in the middle of an invalidation so far

levels == <<gen1, gen2, level1, level2>>
history == <<crossed, setBack>>
bounds == <<faults, outages>>
vars == <<data, levels, up, reader, writer, settled, history, bounds>>

\* Bound: an invalidation increments two generations.
Generation == 0..(2 * MaxEvents)
Value == 0..MaxEvents

NotReading == [step |-> "idle", process |-> None, key |-> 0, got |-> None]
NotWriting == [step |-> "idle", commit |-> 0, local |-> 0, remote |-> 0]

Quiet == \A w \in Writers : writer[w].step = "idle"

\* Writers that have incremented the generation of their own L1 only.
Bumping == {w \in Writers : writer[w].step = "remote"}

InBounds == data + faults + outages < MaxEvents
Fault == InBounds /\ faults' = faults + 1 /\ UNCHANGED outages
Broken == InBounds /\ outages' = outages + 1 /\ UNCHANGED faults
-----------------------------------------------------------------------------
(* invalidate_domain, after the commit of a sync *)

Commit(w) ==
  /\ writer[w].step = "idle" /\ InBounds
  /\ data' = data + 1
  /\ writer' = [writer EXCEPT ![w].step = "local", ![w].commit = data + 1]
  /\ UNCHANGED <<levels, up, reader, settled, history, bounds>>

BumpLocal(w) ==
  LET p == ProcessOf[w] IN
  /\ writer[w].step = "local" /\ gen1[p] + 1 \in Generation
  /\ gen1' = [gen1 EXCEPT ![p] = @ + 1]
  /\ writer' = [writer EXCEPT ![w].step = "remote", ![w].local = gen1[p] + 1]
  /\ crossed' = (crossed \/ \E v \in Bumping : ProcessOf[v] = p)
  /\ UNCHANGED <<data, gen2, level1, level2, up, reader, settled, setBack, bounds>>

\* With L2 down the increment is a local one only.
BumpRemote(w) ==
  /\ writer[w].step = "remote"
  /\ \/ /\ up /\ gen2 + 1 \in Generation
        /\ gen2' = gen2 + 1
        /\ writer' = [writer EXCEPT ![w].step = "level", ![w].remote = gen2 + 1]
     \/ /\ ~up
        /\ writer' = [writer EXCEPT ![w] = NotWriting]
        /\ UNCHANGED gen2
  /\ UNCHANGED <<data, gen1, level1, level2, up, reader, settled, history, bounds>>

\* Variant of LevelGenerations: each level is set to the other's value, without
\* the comparison.
LevelGenerations_Swaps(w) ==
  /\ writer[w].step = "level"
  /\ gen2' = IF up THEN writer[w].local ELSE gen2
  /\ gen1' = [gen1 EXCEPT ![ProcessOf[w]] = writer[w].remote]
  /\ setBack' = (setBack \/ gen2' < gen2)
  /\ settled' = Max({settled, writer[w].commit})
  /\ writer' = [writer EXCEPT ![w] = NotWriting]
  /\ UNCHANGED <<data, level1, level2, up, reader, crossed, bounds>>

\* The level that was behind is set to the other's value: what the two increments
\* returned is compared, not what the levels hold by now.
LevelGenerations(w) ==
  LET l == writer[w].local
      r == writer[w].remote
  IN  /\ writer[w].step = "level"
      /\ gen2' = IF l > r /\ up THEN l ELSE gen2
      /\ gen1' = IF r > l THEN [gen1 EXCEPT ![ProcessOf[w]] = r] ELSE gen1
      /\ setBack' = (setBack \/ gen2' < gen2)
      /\ settled' = Max({settled, writer[w].commit})
      /\ writer' = [writer EXCEPT ![w] = NotWriting]
      /\ UNCHANGED <<data, level1, level2, up, reader, crossed, bounds>>
-----------------------------------------------------------------------------
(* build_key and get_or_load *)

\* Variant of GenerationAt: L2 is asked only when L1 knows no generation.
GenerationAt_LocalFirst(p) ==
  IF gen1[p] > 0 THEN gen1[p] ELSE IF up THEN gen2 ELSE 0

\* generation(): the larger of the two levels, of those that answer.
GenerationAt(p) == IF up THEN Max({gen1[p], gen2}) ELSE gen1[p]

BuildKey(r, p) ==
  /\ reader[r].step = "idle"
  /\ reader' = [reader EXCEPT ![r] =
       [step |-> "lookup", process |-> p, key |-> GenerationAt(p), got |-> None]]
  /\ UNCHANGED <<data, levels, up, writer, settled, history, bounds>>

\* _lookup: L1, then L2, None for a miss.
Found(r) ==
  LET key == reader[r].key
      local == level1[reader[r].process][key]
  IN  IF local # None THEN local ELSE IF up THEN level2[key] ELSE None

\* A hit is the reader's answer.
Lookup(r) ==
  /\ reader[r].step = "lookup"
  /\ reader' = [reader EXCEPT ![r] = IF Found(r) # None THEN NotReading
                                     ELSE [@ EXCEPT !.step = "load"]]
  /\ UNCHANGED <<data, levels, up, writer, settled, history, bounds>>

Load(r) ==
  /\ reader[r].step = "load"
  /\ reader' = [reader EXCEPT ![r].step = "store", ![r].got = data]
  /\ UNCHANGED <<data, levels, up, writer, settled, history, bounds>>

LoadFails(r) ==
  /\ reader[r].step = "load"
  /\ reader' = [reader EXCEPT ![r] = NotReading]
  /\ UNCHANGED <<data, levels, up, writer, settled, history, bounds>>

Store(r) ==
  LET k == reader[r].key IN
  /\ reader[r].step = "store"
  /\ level1' = [level1 EXCEPT ![reader[r].process][k] = reader[r].got]
  /\ level2' = IF up THEN [level2 EXCEPT ![k] = reader[r].got] ELSE level2
  /\ reader' = [reader EXCEPT ![r] = NotReading]
  /\ UNCHANGED <<data, gen1, gen2, up, writer, settled, history, bounds>>
-----------------------------------------------------------------------------
(* What happens to the levels *)

\* An entry is evicted or its TTL passes.  The generation of an L1 is one of its
\* entries; Redis keeps its own, which has no TTL (volatile-lru).
Drop(g) ==
  /\ Fault
  /\ \/ /\ level2[g] # None
        /\ level2' = [level2 EXCEPT ![g] = None]
        /\ UNCHANGED level1
     \/ \E p \in Processes :
          /\ level1[p][g] # None
          /\ level1' = [level1 EXCEPT ![p][g] = None]
          /\ UNCHANGED level2
  /\ UNCHANGED <<data, gen1, gen2, up, reader, writer, settled, history>>

DropGeneration(p) ==
  /\ Fault
  /\ gen1[p] > 0
  /\ gen1' = [gen1 EXCEPT ![p] = 0]
  /\ UNCHANGED <<data, gen2, level1, level2, up, reader, writer, settled, history>>

\* A process starts again with an empty L1, and its readers are gone.
Emptied(p) ==
  /\ gen1' = [gen1 EXCEPT ![p] = 0]
  /\ level1' = [level1 EXCEPT ![p] = [g \in Generation |-> None]]
  /\ reader' = [r \in Readers |-> IF reader[r].process = p THEN NotReading ELSE reader[r]]
  /\ writer' = [w \in Writers |-> IF ProcessOf[w] = p THEN NotWriting ELSE writer[w]]
  /\ UNCHANGED <<data, gen2, level2, up, settled, history>>

MidBump(p) == \E w \in Writers : ProcessOf[w] = p /\ writer[w].step # "idle"

\* An orderly stop lets the worker threads end their callbacks.
Restart(p) ==
  /\ ~MidBump(p)
  /\ Fault
  /\ Emptied(p)

\* A kill leaves an invalidation half done.
Kill(p) ==
  /\ MidBump(p)
  /\ Broken
  /\ Emptied(p)

Outage ==
  /\ up
  /\ Broken
  /\ up' = FALSE
  /\ UNCHANGED <<data, levels, reader, writer, settled, history>>

Recover ==
  /\ ~up
  /\ up' = TRUE
  /\ UNCHANGED <<data, levels, reader, writer, settled, history, bounds>>
-----------------------------------------------------------------------------
Init ==
  /\ data = 0 /\ settled = 0
  /\ gen1 = [p \in Processes |-> 0] /\ gen2 = 0
  /\ level1 = [p \in Processes |-> [g \in Generation |-> None]]
  /\ level2 = [g \in Generation |-> None]
  /\ up = TRUE
  /\ reader = [r \in Readers |-> NotReading]
  /\ writer = [w \in Writers |-> NotWriting]
  /\ crossed = FALSE /\ setBack = FALSE
  /\ faults = 0 /\ outages = 0

Next ==
  \/ \E w \in Writers : Commit(w) \/ BumpLocal(w) \/ BumpRemote(w) \/ LevelGenerations(w)
  \/ \E r \in Readers, p \in Processes : BuildKey(r, p)
  \/ \E r \in Readers : Lookup(r) \/ Load(r) \/ LoadFails(r) \/ Store(r)
  \/ \E g \in Generation : Drop(g)
  \/ \E p \in Processes : DropGeneration(p) \/ Restart(p) \/ Kill(p)
  \/ Outage \/ Recover

Spec == Init /\ [][Next]_vars
-----------------------------------------------------------------------------
(* Properties *)

\* What process p finds under generation g, or is about to.
Served(p, g) ==
  {level1[p][g], level2[g]} \cup
  {reader[r].got : r \in {q \in Readers : reader[q].key = g /\ reader[q].step = "store"}}

\* While no invalidation is under way, a key built now leads to no value from
\* before the last one that completed: not cached, and not on its way.
NoStaleKeys ==
  Quiet => \A p \in Processes : \A v \in Served(p, GenerationAt(p)) \ {None} : v >= settled

\* Invalidation by generation holds as long as L2 answers, no process is killed in
\* the middle of an invalidation and L2 is not set back, whatever was loaded or
\* stored late, dropped, or lost with an L1, and whichever invalidations of threads
\* of one process overlap.
InvalidationWins == outages = 0 /\ ~setBack => NoStaleKeys

\* set_generation_of: "never decreases".  bump_generation sets L2 back all the same,
\* but as long as L2 answers and nobody is killed only after a thread has incremented
\* L1 between the two increments of another thread of its process: levelling alone,
\* an L1 that lost its generation, or other processes' invalidations never do.
SetBackTraced == outages = 0 /\ setBack => crossed
-----------------------------------------------------------------------------
(* The inductive strengthening of the safety properties *)

ReaderState ==
  [step: {"idle", "lookup", "load", "store"}, process: Processes \cup {None},
   key: Generation, got: Value \cup {None}]

WriterState ==
  [step: {"idle", "local", "remote", "level"},
   commit: Value, local: Generation, remote: Generation]

TypeOK ==
  /\ data \in Value /\ settled \in Value
  /\ gen1 \in [Processes -> Generation] /\ gen2 \in Generation
  /\ level1 \in [Processes -> [Generation -> Value \cup {None}]]
  /\ level2 \in [Generation -> Value \cup {None}]
  /\ up \in BOOLEAN
  /\ reader \in [Readers -> ReaderState]
  /\ writer \in [Writers -> WriterState]
  /\ crossed \in BOOLEAN /\ setBack \in BOOLEAN
  /\ faults \in Nat /\ outages \in Nat /\ data + faults + outages <= MaxEvents

ReadersPlaced ==
  \A r \in Readers : reader[r].step # "idle" => reader[r].process \in Processes

\* Nothing is settled or announced that was not committed.
CommitsKnown == settled <= data /\ \A w \in Writers : writer[w].commit <= data

\* A level, or a reader on its way to one, has the value v for generation g.
Carries(g, v) ==
  \/ level2[g] = v
  \/ \E p \in Processes : level1[p][g] = v
  \/ \E r \in Readers : reader[r].step = "store" /\ reader[r].key = g /\ reader[r].got = v

Uses(g) ==
  \/ \E v \in Value : Carries(g, v)
  \/ \E r \in Readers : reader[r].step # "idle" /\ reader[r].key = g

\* Until threads cross, an L1 is ahead of L2 by one at most, and only while its
\* process is between two increments; so no level is ever set to a lower value.
LocalBehind ==
  \A p \in Processes :
    \/ gen1[p] <= gen2
    \/ gen1[p] = gen2 + 1 /\ \E w \in Bumping : ProcessOf[w] = p

LevelledUp ==
  \A w \in Writers :
    /\ writer[w].step = "remote" => writer[w].local <= gen2 + 1
    /\ writer[w].step = "level" => writer[w].local <= writer[w].remote

Traced == ~crossed => LocalBehind /\ LevelledUp /\ ~setBack

\* Until L2 is set back, no generation is further ahead of L2's than there are
\* increments of L2 to come.
NoneAhead ==
  /\ \A p \in Processes : gen1[p] <= gen2 + Cardinality(Bumping)
  /\ \A w \in Writers : writer[w].step = "level" => writer[w].remote <= gen2

KeysReached == \A g \in Generation : Uses(g) => g <= gen2 + Cardinality(Bumping)

\* The writers about to increment L2 whose commit a load that found v had seen, and
\* whether L2 was incremented for a commit it had not seen.
SeenBumping(v) == {w \in Bumping : writer[w].commit <= v}
Outdated(v) ==
  settled > v \/ \E w \in Writers : writer[w].step = "level" /\ writer[w].commit > v

\* So a generation that holds v is no further ahead than the increments for commits
\* v has seen will reach, and an outdated v is below that: those increments cannot
\* make its generation current again.
NoneRevived ==
  \A g \in Generation, v \in Value : Carries(g, v) =>
    /\ g <= gen2 + Cardinality(SeenBumping(v))
    /\ Outdated(v) => g < gen2 + Cardinality(SeenBumping(v))

Forward == ~setBack => NoneAhead /\ KeysReached /\ NoneRevived

CacheInv ==
  /\ TypeOK
  /\ ReadersPlaced
  /\ CommitsKnown
  /\ outages = 0 => up /\ Traced /\ Forward
=============================================================================
