--------------------------- MODULE EntityRegistry ---------------------------
(***************************************************************************)
(* The entity registry: identities with the history of their names and of  *)
(* their codes, as rows that are only ever appended (SCD2).                *)
(*                                                                         *)
(*   build_from_hub   register every instrument the source lists, then     *)
(*                    record the name intervals the source reports; it may *)
(*                    raise on the way and is run again from time to time  *)
(*   add_code_change  an instrument gets another code                      *)
(*   entity, resolve  what the rows say of a day                           *)
(*                                                                         *)
(* A row of an entity is superseded, never changed: the closed copy of an  *)
(* open row has a higher version and the open one stays.  Days are         *)
(* numbers; 0 is EPOCH.  The attributes of a row other than its name and   *)
(* its code are left out.                                                  *)
(***************************************************************************)
EXTENDS Naturals, Sequences, FiniteSets, FiniteSetsExt, SequencesExt

CONSTANTS
  Instruments,     \* what the source knows, whatever its code is
  FirstCode,       \* the code an instrument is first listed under
  FirstName,       \* the name an instrument is first listed under
  FirstDay,        \* the day from which the source reports names
  Names, Codes,
  LastDay,         \* bound: days
  EventsUntil,     \* namechange_end: the last day of the reported events
  MaxRenames,      \* bound: name changes
  MaxCodeChanges,  \* bound: code changes
  MaxBuilds,       \* bound: builds
  None

Days == 0..LastDay

ASSUME RegistryAssumption ==
  /\ IsFiniteSet(Instruments)
  /\ FirstCode \in [Instruments -> Codes] /\ IsInjective(FirstCode)
  /\ FirstName \in [Instruments -> Names]
  /\ LastDay \in Nat /\ EventsUntil \in Days /\ FirstDay \in 1..EventsUntil
  /\ {MaxRenames, MaxCodeChanges, MaxBuilds} \subseteq Nat
  /\ None \notin Nat \cup Names \cup Codes /\ None # << >>

VARIABLES
  named,     \* named[i]: the source's names of i, each with its first day
  coded,     \* coded[i]: the codes of i, each with its first day
  rows,      \* rows[e]: ref.entity, by entity_id
  codes,     \* ref.entity_code_history, in the order of insertion
  build,     \* where build_from_hub is
  builds,    \* builds begun
  ingested   \* what the last build was listed and reported, once it came to its end

vars == <<named, coded, rows, codes, build, builds, ingested>>

NoBuild == [listing |-> <<>>, events |-> <<>>, listed |-> None, reported |-> None]
Order == SetToSeq(Instruments)
-----------------------------------------------------------------------------
(* The rows of an entity *)

Covers(r, d) == r.from <= d /\ (r.to = None \/ d <= r.to)
Opened(S) == {r \in S : r.to = None}
Covering(S, d) == {r \in S : Covers(r, d)}

\* The order of _current_row and _covering_row, and of RegistryReader.
Newest(S) ==
  CHOOSE r \in S : \A q \in S : q.from < r.from \/ (q.from = r.from /\ q.version <= r.version)

\* The order of mart.entity_latest_v1 and mart.entity_asof.
HighestVersion(S) == CHOOSE r \in S : \A q \in S : q.version <= r.version

Current(e) == Newest(Opened(rows[e]))
NameAt(e, d) == Newest(Covering(rows[e], d)).name

Appended(S, r) == S \cup {[r EXCEPT !.version = Cardinality(S) + 1]}

\* The row that covers a day ends there from now on.
Closed(S, day) ==
  LET previous == Newest(Covering(S, day))
  IN  IF Covering(S, day) # {} /\ (previous.to = None \/ previous.to > day)
      THEN Appended(S, [previous EXCEPT !.to = day]) ELSE S

\* Variants of WithName: the resumed name begins on the last day of the interval;
\* and the rows are made from the row that covers the interval's start.
WithName_Overlaps(S, name, start, end) ==
  LET current == Newest(Opened(S))
      resumed == Newest(Covering(S, start - 1)).name
      changed == Appended(Closed(S, start - 1),
                          [current EXCEPT !.name = name, !.from = start, !.to = end])
  IN  IF end = None THEN changed
      ELSE Appended(changed, [current EXCEPT !.name = resumed, !.from = end, !.to = None])
WithName_FromCovering(S, name, start, end) ==
  LET base == Newest(Covering(S, start - 1))
      changed == Appended(Closed(S, start - 1),
                          [base EXCEPT !.name = name, !.from = start, !.to = end])
  IN  IF end = None THEN changed
      ELSE Appended(changed, [base EXCEPT !.from = end + 1, !.to = None])

\* add_name_change: a row for the interval and, if it ends, a row that resumes
\* the name from before it.
WithName(S, name, start, end) ==
  LET before == Covering(S, start - 1)
      current == Newest(Opened(S))
      resumed == IF before = {} THEN current.name ELSE Newest(before).name
      changed == Appended(Closed(S, start - 1),
                          [current EXCEPT !.name = name, !.from = start, !.to = end])
  IN  IF end = None THEN changed
      ELSE Appended(changed, [current EXCEPT !.name = resumed, !.from = end + 1, !.to = None])
-----------------------------------------------------------------------------
(* The code history *)

SameKey(a, b) == a.entity = b.entity /\ a.code = b.code /\ a.from = b.from

\* Variant of Latest: of two entries of one key and version the later one counts.
Latest_LastOfVersion(code) ==
  {k \in DOMAIN codes :
     /\ codes[k].code = code
     /\ \A j \in DOMAIN codes : SameKey(codes[j], codes[k]) =>
          \/ codes[j].version < codes[k].version
          \/ codes[j].version = codes[k].version /\ j <= k}

\* The highest version of each key, the first inserted of equal ones.
Latest(code) ==
  {k \in DOMAIN codes :
     /\ codes[k].code = code
     /\ \A j \in DOMAIN codes : SameKey(codes[j], codes[k]) =>
          \/ codes[j].version < codes[k].version
          \/ codes[j].version = codes[k].version /\ k <= j}

\* resolve: the entity that had the code most recently, on the day or at all.
Resolve(code, day) ==
  LET held == {k \in Latest(code) : day = None \/ Covers(codes[k], day)}
      Before(j, k) == \/ codes[j].from < codes[k].from
                      \/ codes[j].from = codes[k].from /\ codes[j].version <= codes[k].version
  IN  IF held = {} THEN None
      ELSE codes[CHOOSE k \in held : \A j \in held : Before(j, k)].entity
-----------------------------------------------------------------------------
(* The source *)

LastOf(s) == s[Len(s)]
Total(h) == MapThenSumSet(LAMBDA i : Len(h[i]), Instruments) - Cardinality(Instruments)

\* The last entry that began by day d.
OnDay(history, d) ==
  LET begun == {n \in DOMAIN history : history[n].from <= d}
  IN  history[CHOOSE n \in begun : \A m \in begun : m <= n]
CodeOn(i, d) == OnDay(coded[i], d).code

Rename(i, n, day) ==
  /\ Total(named) < MaxRenames
  /\ day > LastOf(named[i]).from /\ n # LastOf(named[i]).name
  /\ named' = [named EXCEPT ![i] = Append(@, [name |-> n, from |-> day])]
  /\ UNCHANGED <<coded, rows, codes, build, builds, ingested>>

\* The n-th name of a history, until the next one begins; the last one is open.
IntervalOf(i, history, n) ==
  [code |-> LastOf(coded[i]).code, name |-> history[n].name, start |-> history[n].from,
   end |-> IF n = Len(history) THEN None ELSE history[n + 1].from - 1]

Intervals(i) == [k \in DOMAIN named[i] |-> IntervalOf(i, named[i], k)]

\* Variant of Reported: the newest interval first.
Reported_Unsorted(i) == Reverse(Intervals(i))

\* fetch_market_events: the intervals that begin in the window asked for, sorted.
Reported(i) ==
  LET begun == {k \in DOMAIN named[i] : named[i][k].from <= EventsUntil}
  IN  SubSeq(Intervals(i), 1, Cardinality(begun))
-----------------------------------------------------------------------------
(* build_from_hub *)

Building == build # NoBuild

BeginBuild ==
  /\ ~Building
  /\ builds < MaxBuilds
  /\ builds' = builds + 1
  /\ build' = [listing |-> Order, events |-> None, listed |-> named, reported |-> None]
  /\ ingested' = None
  /\ UNCHANGED <<named, coded, rows, codes>>

\* _create: the code history and the first row of a new entity.
Create(code, name) ==
  /\ codes' = Append(codes, [entity |-> Len(rows) + 1, code |-> code, from |-> 0, to |-> None,
                             version |-> 1])
  /\ rows' = Append(rows, {[name |-> name, code |-> code, from |-> 0, to |-> None, version |-> 1]})

\* _refresh: another row with the validity of the current one.
Refresh(e, name) ==
  /\ rows' = IF name = Current(e).name THEN rows
             ELSE [rows EXCEPT ![e] = Appended(@, [Current(e) EXCEPT !.name = name])]
  /\ UNCHANGED codes

\* One kind of instrument is listed, under the names and codes of the moment, and
\* registered (_register_frame).
Register ==
  LET i == Head(build.listing)
      code == LastOf(coded[i]).code
      name == LastOf(named[i]).name
      e == Resolve(code, None)
  IN  /\ build.listing # <<>>
      /\ IF e = None THEN Create(code, name) ELSE Refresh(e, name)
      /\ build' = [build EXCEPT !.listing = Tail(@), !.listed[i] = named[i]]
      /\ UNCHANGED <<named, coded, builds, ingested>>

\* The events come from the hub after every instrument is registered.
FetchEvents ==
  /\ build.listing = <<>> /\ build.events = None
  /\ build' = [build EXCEPT
       !.events = FlattenSeq([k \in DOMAIN Order |-> Reported(Order[k])]),
       !.reported = named]
  /\ UNCHANGED <<named, coded, rows, codes, builds, ingested>>

\* One event; an unknown code is skipped.
NameChange ==
  LET next == Head(build.events)
      e == Resolve(next.code, None)
  IN  /\ build.events \notin {<<>>, None}
      /\ rows' = IF e = None THEN rows
                 ELSE [rows EXCEPT ![e] = WithName(@, next.name, next.start, next.end)]
      /\ IF Len(build.events) = 1
         THEN build' = NoBuild /\ ingested' = [listed |-> build.listed, reported |-> build.reported]
         ELSE build' = [build EXCEPT !.events = Tail(@)] /\ UNCHANGED ingested
      /\ UNCHANGED <<named, coded, codes, builds>>

\* The hub or a malformed event raises, or the source reports no names: what was
\* written stays.
Abort ==
  /\ Building
  /\ build' = NoBuild
  /\ UNCHANGED <<named, coded, rows, codes, builds, ingested>>
-----------------------------------------------------------------------------
(* add_code_change, recorded before the source is asked again *)

\* Every open entry of the entity is closed: each has a key of its own.
CodeChange(i, c, day) ==
  LET e == Resolve(LastOf(coded[i]).code, None)
      open == SetToSeq({h \in Range(codes) : h.entity = e /\ h.to = None})
      closed == [k \in DOMAIN open |->
                   [open[k] EXCEPT !.to = day - 1, !.version = @ + 1]]
      current == Current(e)
      ended == Appended(rows[e], [current EXCEPT !.to = day - 1])
  IN  /\ ~Building /\ e # None
      /\ Total(coded) < MaxCodeChanges
      /\ day > LastOf(coded[i]).from /\ day > current.from
      /\ \A j \in Instruments : \A d \in day..LastDay : CodeOn(j, d) # c
      /\ coded' = [coded EXCEPT ![i] = Append(@, [code |-> c, from |-> day])]
      /\ codes' = codes \o closed \o
                  <<[entity |-> e, code |-> c, from |-> day, to |-> None, version |-> 1]>>
      /\ rows' = [rows EXCEPT ![e] = Appended(ended, [current EXCEPT !.code = c, !.from = day])]
      /\ ingested' = None
      /\ UNCHANGED <<named, build, builds>>
-----------------------------------------------------------------------------
Init ==
  /\ named = [i \in Instruments |-> <<[name |-> FirstName[i], from |-> FirstDay]>>]
  /\ coded = [i \in Instruments |-> <<[code |-> FirstCode[i], from |-> 0]>>]
  /\ rows = <<>> /\ codes = <<>>
  /\ build = NoBuild /\ builds = 0
  /\ ingested = None

Next ==
  \/ \E i \in Instruments, n \in Names, d \in Days : Rename(i, n, d)
  \/ \E i \in Instruments, c \in Codes, d \in Days : CodeChange(i, c, d)
  \/ BeginBuild \/ Register \/ FetchEvents \/ NameChange \/ Abort

Spec == Init /\ [][Next]_vars
-----------------------------------------------------------------------------
(* Properties *)

Registered(i) == Resolve(FirstCode[i], 0) # None
EntityOf(i) == Resolve(FirstCode[i], 0)
KeptItsCode(i) == Len(coded[i]) = 1

\* A build that came to its end has replayed the names: whatever earlier builds
\* left, finished or aborted, an entity has on every day that was asked for the
\* name the source reported for it.
NamesReplayed ==
  ingested # None =>
    \A i \in {j \in Instruments : KeptItsCode(j)} : \A d \in FirstDay..EventsUntil :
      NameAt(EntityOf(i), d) = OnDay(ingested.reported[i], d).name

\* Then the views of mart, which rank by version, and the registry, which ranks
\* by validity, read the same row of a day, and the same current row.
ReadModelsAgree ==
  ingested # None =>
    \A i \in {j \in Instruments : KeptItsCode(j)} :
      LET S == rows[EntityOf(i)] IN
      /\ \A d \in Days : HighestVersion(Covering(S, d)) = Newest(Covering(S, d))
      /\ HighestVersion(Opened(S)) = Newest(Opened(S))

\* A code resolves on a day to the instrument that had it on that day, through
\* any number of code changes and takeovers, and to nothing if none had it.
CodesInForce ==
  \A c \in Codes, d \in Days :
    LET holders == {i \in Instruments : Registered(i) /\ CodeOn(i, d) = c}
    IN  Resolve(c, d) = IF holders = {} THEN None ELSE EntityOf(CHOOSE i \in holders : TRUE)

\* The code in the current row is the code the source lists, under which the next
\* build will look the entity up; names recorded meanwhile do not bring a former
\* one back.
CurrentCode ==
  \A i \in Instruments : Registered(i) =>
    /\ Current(EntityOf(i)).code = LastOf(coded[i]).code
    /\ Resolve(LastOf(coded[i]).code, None) = EntityOf(i)
-----------------------------------------------------------------------------
(* The inductive strengthening of CodesInForce and CurrentCode *)

Row == [name : Names, code : Codes, from : Days, to : Days \cup {None}, version : Nat]
Entry == [entity : Nat, code : Codes, from : Days, to : Days \cup {None}, version : {1, 2}]
Event == [code : Codes, name : Names, start : 1..LastDay, end : {None} \cup 0..(LastDay - 1)]

TypeOK ==
  /\ named \in [Instruments -> Seq([name : Names, from : 1..LastDay])]
  /\ coded \in [Instruments -> Seq([code : Codes, from : Days])]
  /\ \A i \in Instruments : named[i] # << >>
  /\ rows \in Seq(SUBSET Row) /\ codes \in Seq(Entry)
  /\ DOMAIN build = {"listing", "events", "listed", "reported"}
  /\ build.listing \in Seq(Instruments) /\ build.events \in Seq(Event) \cup {None}

\* Entity e was created for instrument i.
Owns(i, e) ==
  \E k \in DOMAIN codes : codes[k].entity = e /\ codes[k].from = 0 /\ codes[k].code = FirstCode[i]

\* The entries of one key.
Entries(e, h) ==
  {k \in DOMAIN codes : codes[k].entity = e /\ codes[k].code = h.code /\ codes[k].from = h.from}

\* What the source says of codes: an instrument has one at a time, and a code has
\* one instrument at a time.
CodesApart ==
  /\ \A i \in Instruments :
       /\ coded[i] # << >> /\ coded[i][1] = [code |-> FirstCode[i], from |-> 0]
       /\ \A m, n \in DOMAIN coded[i] : m < n => coded[i][m].from < coded[i][n].from
  /\ \A i, j \in Instruments, d \in Days : CodeOn(i, d) = CodeOn(j, d) => i = j

\* An entity is created once for an instrument, and only an instrument that has
\* one changes its code.
OwnersOne ==
  \A i \in Instruments :
    /\ \A j \in Instruments, e, f \in DOMAIN rows : Owns(i, e) /\ Owns(j, f) => (i = j <=> e = f)
    /\ (\A e \in DOMAIN rows : ~Owns(i, e)) => Len(coded[i]) = 1

\* Every entry is one of the codes of its entity's instrument.
EntriesKnown ==
  \A k \in DOMAIN codes :
    /\ codes[k].entity \in DOMAIN rows
    /\ codes[k].version = 1 <=> codes[k].to = None
    /\ \E i \in Instruments :
         /\ Owns(i, codes[k].entity)
         /\ \E n \in DOMAIN coded[i] : k \in Entries(codes[k].entity, coded[i][n])

\* The entries of the n-th code of instrument i: open if it is the present one, else
\* the first that says the code was given up ends it when the next one begins.
EndedAt(i, e, n) ==
  LET K == Entries(e, coded[i][n])
      ended == {k \in K : codes[k].version = 2}
  IN  /\ K # {}
      /\ n = Len(coded[i]) => ended = {}
      /\ n < Len(coded[i]) =>
           \E k \in ended : /\ codes[k].to = coded[i][n + 1].from - 1
                            /\ \A j \in ended : k <= j

\* Every code of an instrument is in the history, and ends there as it did.
EntriesEnded ==
  \A i \in Instruments, e \in DOMAIN rows : Owns(i, e) =>
    \A n \in DOMAIN coded[i] : EndedAt(i, e, n)

\* Rows are numbered in the order in which they were appended, and one is open.
Numbered(S) ==
  /\ S \in SUBSET Row /\ IsFiniteSet(S) /\ Opened(S) # {}
  /\ \A r \in S : r.version \in 1..Cardinality(S)
  /\ \A q, r \in S : q.version = r.version => q = r

RowsNumbered == \A e \in DOMAIN rows : Numbered(rows[e])

\* The current row of an entity has its instrument's present code.
RowsCurrent ==
  \A i \in Instruments, e \in DOMAIN rows : Owns(i, e) => Current(e).code = LastOf(coded[i]).code

RegistryInv ==
  /\ TypeOK /\ CodesApart /\ OwnersOne /\ EntriesKnown /\ EntriesEnded
  /\ RowsNumbered /\ RowsCurrent
-----------------------------------------------------------------------------
(* The inductive strengthening of NamesReplayed and ReadModelsAgree *)

\* The build has its events, and replays them.
Replaying == Building /\ build.events # None

\* The names a build may have written.
Known(i) == IF Replaying THEN build.reported[i] ELSE named[i]

NamesForward ==
  \A i \in Instruments :
    /\ named[i][1].from = FirstDay
    /\ \A m, n \in DOMAIN named[i] : m < n => named[i][m].from < named[i][n].from

\* A build that is under way has no result, and has registered whom it has not
\* still to list; what was reported to it is how the source's names began.
BuildGoesOn ==
  /\ Building => /\ ingested = None
                 /\ \A i \in Instruments : (\E e \in DOMAIN rows : Owns(i, e)) \/ i \in Range(build.listing)
  /\ Replaying => /\ build.listing = << >>
                  /\ \A i \in Instruments : \E n \in DOMAIN named[i] :
                       build.reported[i] = SubSeq(named[i], 1, n)

\* Rows begin on day 0, one of them for good, or where a name began; at most one
\* such name is later than what is asked for.
Begins(S, history) ==
  /\ \E r \in S : r.from = 0 /\ r.to = None
  /\ \A r \in S :
       \/ r.from = 0
       \/ \E n \in DOMAIN history : /\ r.from = history[n].from
                                   /\ (n = 1 \/ history[n - 1].from <= EventsUntil)

RowsBegin ==
  \A i \in Instruments, e \in DOMAIN rows : Owns(i, e) /\ KeptItsCode(i) => Begins(rows[e], Known(i))

\* The events are intervals of the names, those of an instrument in their order.
EventsOrdered ==
  Replaying =>
    /\ \A a \in DOMAIN build.events : \E i \in Instruments : \E n \in DOMAIN build.reported[i] :
         build.reported[i][n].from <= EventsUntil /\ build.events[a] = IntervalOf(i, build.reported[i], n)
    /\ \A a, b \in DOMAIN build.events :
         a < b /\ build.events[a].code = build.events[b].code => build.events[a].start < build.events[b].start

\* The row ends before the interval or begins after it.
Beside(r, ev) == (r.to # None /\ r.to < ev.start) \/ (ev.end # None /\ r.from > ev.end)

\* The rows have the name of an interval, and later rows are beside it; if no other
\* name follows in what is asked for, the last row resumes after it.
Written(S, ev) ==
  \E r \in S : /\ r.name = ev.name /\ r.from = ev.start /\ r.to = ev.end
              /\ \A q \in S : q.version > r.version => Beside(q, ev)
ResumedLast(S, ev) ==
  \E r \in S : r.to = None /\ r.from = ev.end + 1 /\ \A q \in S : q.version <= r.version

\* Every interval is still to be replayed or written, in this order.
NamesWritten ==
  Replaying => \A i \in Instruments, e \in DOMAIN rows : Owns(i, e) /\ KeptItsCode(i) =>
    \A n \in DOMAIN build.reported[i] : build.reported[i][n].from <= EventsUntil =>
      LET h == build.reported[i] IN
      \/ IntervalOf(i, h, n) \in Range(build.events)
      \/ /\ Written(rows[e], IntervalOf(i, h, n))
         /\ \A m \in 1..(n - 1) : IntervalOf(i, h, m) \notin Range(build.events)
         /\ n < Len(h) /\ h[n + 1].from > EventsUntil => ResumedLast(rows[e], IntervalOf(i, h, n))

ReplayInv ==
  /\ RegistryInv /\ NamesForward /\ BuildGoesOn /\ RowsBegin /\ EventsOrdered /\ NamesWritten
  /\ NamesReplayed /\ ReadModelsAgree
=============================================================================
