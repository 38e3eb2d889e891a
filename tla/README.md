# Formal models of FinDataHub

TLA+ specifications of the parts of this repository whose correctness depends on
order, concurrency or failure, with the TLC runs that check them and the TLAPS
proofs of the core. Source paths below are relative to `src/`; the code is
`fin_data_platform` (the platform) and `fin_data_hub` (the library that fetches).

    tlc -config MCJobRuns.cfg MCJobRuns.tla      # any run: module and .cfg of PROJECT.json
    tlapm JobRunsProofs.tla                      # and every other *Proofs.tla

## 1. The system

The platform keeps a database of market data up to date and serves it. A *Runtime*
process (`runtime/`) schedules sync jobs, queues them in `meta.job_runs`, and runs
them in worker threads; several Runtime and API processes share one PostgreSQL
database. A job fetches a window of days from a provider through the *hub*
(`fin_data_hub/`), writes versioned rows (`ingestion/`, `storage/`), advances a
watermark and invalidates a two-level cache (`cache/`). An *entity registry*
(`registry/`) maps instrument codes to entities. A REST API reads the tables and may
request a sync.

| Component | State | Operations | What makes it correct |
|---|---|---|---|
| Job queue, `runtime/repository.py` | `meta.job_runs`, `meta.watermarks` | `create_run`, `claim_next`, `succeed`, `fail`, `interrupt_running`, `parents_ready`, `advance_watermark` | a key has one live row; a scope has one running row; settled rows are final; attempts are bounded |
| Roles and life cycle, `runtime/roles.py`, `app.py`, `__main__.py` | threads, stop events, a pool name per process | `Dispatcher.submit`, the worker loop, `start`, `stop` | no run is executed twice at once, whoever reclaims its row; a late result changes nothing; waiting runs are settled in the end |
| Daily-bar sync, `runtime/windows.py`, `calendar.py`, `ingestion/`, `storage/` | watermark, versioned bars | plan a window, fetch, append versions, advance the watermark | no failure and no order of callbacks leaves out a day below the watermark; history is never rewritten; missed days are caught up |
| REST jobs API, `api/routers/jobs.py` | none of its own | `POST /v1/jobs/sync` | a request creates no second run of a window; the days it leaves out are its caller's |
| Layered cache, `cache/` | entries and generations in L1 (per process) and L2 (Redis), locks | `build_key`, `get_or_load`, `invalidate_domain` | after an invalidation no older value is served; one loader per key; no wait without end |
| Memory cache of the hub, `fin_data_hub/cache.py` | LRU entries, flights | `get_or_load`, `put`, `clear` | one flight per key; a refresh is not undone; bytes and entries within their limits; every waiter is answered |
| Limits and usage, `ratelimit.py`, `usage.py` | token buckets, the day's counters | `acquire`, `record` | never more than burst plus rate; what is granted is recorded; an alert once a day; no call hangs |
| Hub facade and routing, `facade.py`, `routing.py` | adapters, limiters, the memory cache | `get_bars` and ten others, fallback along a route, filling of columns, adjustment | a caller gets a frame of its own request; prices are adjusted once, with the right factors |
| Source adapters, `sources/` | tokens, retries; BaoStock's login, one per process | `fetch_*`: windows, batches, pages, filters | every row asked for, once; the login is counted right |
| MCP client, `mcp/client.py` | a session shared by threads | `initialize`, `call_tool` | no call in a session whose handshake is not finished |
| Entity ids, `registry/store.py` | `ref.entity`, `ref.entity_code_history` | `ensure_entity` | codes and ids one to one |
| Entity registry, `registry/` | SCD2 rows of entities, identifiers, relations | register, refresh, rename, change of code | a day reads as the source reports it, whatever builds ran before; a code leads to whoever had it |
| REST read API, schemas, dictionary, DDL, settings | none, or data loaded once | translation | outside the models |

How they interact: the scheduler and the API meet in `create_run`; the workers of
all processes meet in `claim_next`; a worker's `on_success` calls the watermark and
the cache after the run is committed, outside any transaction of the run; the
scheduler reads the watermark to plan the next window. The cache has no transaction
with the database at all. Before a worker stores bars it asks `ensure_entity` for the
id of the code, and the hub for the bars; the hub answers from its memory cache or
asks adapters along a route, each through the limiter and the ledger of its source.

What is hard: interleavings of several processes over statements of READ COMMITTED
transactions, a thread whose process has given up on its run, kills between two
commits, callbacks that run after their run is already settled, a source that
publishes late or restates, a cache whose second level may be down, a lease that
expires under its owner, a session that several threads open at once, and a result
that arrives in pages while the source changes. PROJECT.json
lists each as a hazard with its line and the properties aimed at it.

## 2. The modules

| Module | Models |
|---|---|
| `JobLedger` | what `meta.job_runs` promises of every row: the status machine, the retry budget, the idempotent insert. The abstract specification. |
| `JobRuns` | the repository contract as `InMemoryMetaRepository` gives it (each call atomic), with Dispatcher, API, worker threads and the life of several processes. EXTENDS nothing of the project; INSTANCEs `JobLedger` with its own `intent`, `status`, `attempt`, `nextRunId`. |
| `SqlJobRuns` | EXTENDS `JobRuns`: `create_run` and `claim_next` as the statements of `SqlMetaRepository`'s transactions on PostgreSQL. |
| `SyncPipeline` | one instrument's sync: window provider, sync requests, executor, `mark_watermark`, `advance_watermark` in its two statements. |
| `CacheGenerations` | invalidation by generation over one L1 per process and a shared L2. |
| `EntityRegistry` | the histories of names and codes in the registry: builds, renames, changes of code, and what is read back. |
| `LayeredLoad` | `get_or_load` of the layered cache: the process lock and the lease in L2. |
| `HubEndpoints` | the hub's data methods as a table: capability, cache key, arguments, identity of rows. |
| `HubCalls` | EXTENDS `HubEndpoints`: calls of several threads through the memory cache, single flight and the route of sources. |
| `RateLimits`, `UsageLedger` | a token bucket; the ledger and its budget alerts. Operators, no behaviour of their own. |
| `SourceCalls` | EXTENDS both: calls of adapters by several threads, with retries, MCP sessions and BaoStock's login. |
| `AdapterQueries` | EXTENDS `HubEndpoints`: what each adapter asks for a request. Operators. |
| `AdjustedPrices` | adjustment by factors: the router's, Tushare's, and BaoStock's events as factors. Operators. |
| `SourceFetch` | EXTENDS both: one load, from a request to its frame, while the source changes. |
| `EntityStore` | `ensure_entity` as statements of its transaction, and the bars stored under the id. |
| `JobRunsProofs` | theorems about `JobRuns` and `SqlJobRuns`. |
| `SyncPipelineProofs`, `CacheGenerationsProofs`, `LayeredLoadProofs`, `HubCallsProofs`, `SourceCallsProofs`, `EntityStoreProofs`, `EntityRegistryProofs` | theorems about the module each is named after. |
| `MC...` | instances for TLC. |

Operators ending in a suffix (`FailRow_OffByOne`) are faulty variants of the operator
they stand beside. No specification uses them; each replaces its operator in a
mutation of PROJECT.json, under which a property must fail.

### JobRuns

A row is a number in `1..MaxRuns`; `status`, `attempt`, `worker`, `intent` are the
columns, and `due` stands for `scheduled_at <= now`. `Intents` are the argument tuples
of `job_key`, which is injective on them. `submit[d]` is the point in
`Dispatcher.submit` between its three repository calls (`CheckBacklog`,
`CheckParents`, `SubmitRun`), which are separate transactions; the lock that `submit`
holds makes one Dispatcher per process enough. `pc[w]` and `holds[w]` are the point of
a worker thread in `WorkerPool.start` and `execute_once`: `Poll`, `ClaimNext`, then
`Succeed` and `OnSuccess`, or `Fail`, or `FinishLost` when the repository itself
raises. `Pools` are process incarnations: `StartPool`, `RequestStop`, `StopPool` (whose
join may have timed out, in which case it interrupts the rows under its name), `Die`.
`LabelledBy[p]` is the set of labels that start with p's name, as `LIKE 'name%'`
matches them; the code does not keep these sets apart, and neither do the instances.

### SqlJobRuns

`creating[d]` and `selected[w]` are the progress of a transaction; `lockedBy[s]` is
the advisory lock of a scope, held to the end of its transaction. `claim_next` selects
a candidate `FOR UPDATE SKIP LOCKED`, then takes the advisory lock, then updates and
commits; `create_run` takes the lock first. A lost connection aborts the transaction,
and a commit may succeed without its answer. `succeed`, `fail`, `interrupt_running` are
single guarded UPDATEs and stay atomic.

### SyncPipeline

Time is counted in thirds of a day: before the close, between the close and the
calendar's cutoff, after the cutoff. A bar's numbers are one value of two; a revision
changes it. The queue is `SqlJobRuns` seen from one scope: `Select` and `Claim` are the
two statements of `claim_next`, of which the second does not look at the scope again, so
that two windows may run at once. `Stop` reclaims the row of an executor that goes on
working and writes later; `Die` is a kill, which leaves a running row as it is; `Fail`
is an error. `Stamp` takes the knowledge time before the transaction begins; `ReadLatest`
reads the latest versions in it and decides what to append; `Append` is the insert with
its commit. `on_success` runs after `succeed`, whatever that found: `ReadMark` and
`WriteMark` are the two statements of `advance_watermark`.

Three history variables say what the code leaves to others. `excused` collects the days
that a request skipped or asked for before their cutoff, and those the source did not
have after it; `overlapped` that two executions were between knowledge time and commit
at once; `orphaned` that a kill left a row running. No action reads them.

### CacheGenerations

A value is the number of commits it was loaded after, so "older" can be said of it. A
writer is a worker thread; a process may have any number. It commits and then takes the three steps of `bump_generation`; a reader builds a
key (with the generation it reads) and takes the steps of `get_or_load`. An entry may
disappear at any time (LRU, TTL), and so may the generation counter of an L1, which is
an entry like the others. L2 may go down, a process may restart in order, or be killed
in the middle of an invalidation. Two history variables: `crossed`, a thread incremented
its L1 while another of its process was between its two increments; `setBack`, L2 was set
to a lower generation. The locks of `get_or_load` are absent here: they make
readers wait, with a deadline after which they load anyway, so every interleaving they
allow is a behaviour of this model. `LayeredLoad` has them.

### LayeredLoad

One key, so an entry is there or not. `call[t].step` is the point of thread t in
`get_or_load`: `Lookup`, `Lock` (`_process_lock`), `Recheck`, `Acquire` (`_acquire`,
with its three answers: granted, another's, L2 did not answer), `Poll` and `GiveUp`
for the loop until `lock_wait`, `Load`, `StoreLocal` and `StoreRemote` (`_store`), and
`Release`, the two `finally` blocks. A lease is its owner and the ticks left; it
expires under a thread that is still loading. `beside` marks the threads the code lets
load beside the owner of the lease: those that could not ask for it, gave up waiting,
or kept it too long. L2 goes down and comes back, an answer is lost after the lease was
granted, an entry expires, a process is killed.

### HubEndpoints and HubCalls

`Endpoint[e]` holds of each data method what its key tuple is made of and what it
passes on; the module is a table because that is what the eleven methods differ in.
A call resolves its source (`Resolve`), looks its adapters up (`Supported`), and goes
through `MemoryCache.get_or_load`: `Get`, `JoinFlight`, `BeginLoad`, `EndLoad`,
`Store`, `FinishFlight`, each one section under the lock of the cache, or a load. What
a load returns is any of `LoadOutcomes`: for `get_bars` the primary, the fallbacks,
the columns they fill and the factors, for every combination of answers of the
sources (`BarsLoad`). A frame is known by what it was fetched for, not by its rows;
`SourceFetch` has those. `Put`, `Evicted`, `Swept` and `Without` are the cache's own
bookkeeping. Loads are numbered in the order in which they begin, and a frame carries
the number of its load: that is how old it is.

### RateLimits, UsageLedger and SourceCalls

`Acquire` is one round of the loop in `RateLimiter.acquire`: refill, take a token, or
compute the sleep. Tokens are counted in units, so that a thread may find part of one;
a bucket also remembers what it granted in the last n ticks (`within`), which only
`RateBound` reads.
`Begin` and `Bind` are `_adapter` and `_limiter_for`, with the look and the write apart
as they are without a lock. A behaviour is about one `kind` of adapter, since kinds
share nothing but the ledger: "plain" has no retry, "fuyao" acquires and records each
try, "mcp" opens a session (`EnsureSession`, `Initialize`, `Notify`, `KeepSession`)
and calls a tool, "baostock" logs in and queries under one lock (`Query`) and is closed
(`Close`). `TakeLedger`, `Alert` and `Recorded` are `record` and `_check_budget`, with
the callback called under the lock.

### AdapterQueries, AdjustedPrices and SourceFetch

`AdapterQueries(source, capability, r, codes)` is the sequence of queries an adapter
makes for one call, written down per adapter: tables by type of security, windows,
batches, pages. `Plan` is that of a whole load, with the chunks of `split_codes`.
`Query` asks the next page of the next query of a source whose rows may grow meanwhile
(`Arrive`); `Finish` cuts out, merges, sorts and adjusts. Days are numbers, rows have
a code, a day and one more column, prices are a pair of factors, compared as a ratio.

### EntityStore

`Lock`, `Lookup`, `Allocate`, `InsertEntity`, `InsertCode`, `Commit` are the statements
of `ensure_entity`'s transaction; `entities` and `history` are what is committed, and a
worker's own rows are beside them until it commits. `Write` is `append` of the bars,
in a transaction of its own. `Fail` is an error or a kill at any step.

### EntityRegistry

`rows[e]` are the rows of an entity in `ref.entity`, of which the model keeps name,
code, validity and version; `codes` is `ref.entity_code_history` in the order of
insertion, which decides between two entries of one key and version. Days are numbers
and 0 stands for `EPOCH`. The source has the histories `named` and `coded`, which
change at any time. `build_from_hub` is `BeginBuild`, a `Register` per instrument
(`Create` or `Refresh`), `FetchEvents` and a `NameChange` per interval, sorted by code
and first day as `sources/tushare.py` returns them; the hub or a malformed row may
raise at any point (`Abort`). `Reported` and `listed` hold what the source said at the
two moments the build asked it, since a name may change between them. `WithName` and
`Closed` are `add_name_change` and `_close_row`; `CodeChange` is `add_code_change`.
`Newest` is the order in which the registry and the reader rank rows, `HighestVersion`
the one of the views in `storage/read_models.py`.

## 3. The runs

| Run | Shows |
|---|---|
| `jobruns` | safety of the queue with two processes, a gated child, an intent the API submits past the gate; `LedgerSpec`: `JobRuns` implements `JobLedger`; `IInv`, the invariant of the proofs. |
| `jobruns_live` | `BacklogBound`: the backlog passes `max_queued` by at most one row per dispatcher and per thread. `Progress`: a waiting row is settled, unless no process is up or a row that nobody executes blocks its scope. |
| `sql_jobruns` | with the transactions split, keys stay unique, no row is executed twice, the rows still follow `JobLedger`, and every transaction that waits for a lock ends. |
| `sync_pipeline` | every trading day below the watermark is stored or excused; versions form a chain until two executions overlap; as-of reads of a settled moment never change; every trading day but the last is eventually stored, excused, or behind an orphaned row. |
| `cache_generations` | while L2 is up and not set back, and nobody is killed in an invalidation, no key built after an invalidation leads to an older value; L2 is set back only after two threads of one process crossed. |
| `layered_load` | one thread of a process loads a key, and one of all but for those marked `beside`; nobody drops another's lease; every call is answered, whatever is killed or down. |
| `hub_calls` | a caller gets a frame of its own request, adjusted once; a forced load that no older one can undo is seen by later calls; one unforced load of a key at a time but for flights that a forced call ended; cache limits; every call ends. |
| `source_calls` | no bucket grants more than burst plus rate over any stretch; tokens = recorded calls + calls under way; each alert once, when its level is reached; no tool call before the client has gone through the handshake; BaoStock's login count; every call ends. |
| `source_fetch` | for each adapter and capability and every small source: a frame has every row asked for, none twice, none else, while rows appear during paging; adjusted prices are those of the factor in force. |
| `entity_store` | one id for each code and one code for each id, and bars under the id of their code, over races and kills. |
| `entity_registry` | a complete build gives every day the name the source reports, after any earlier builds and interruptions; registry and mart views then read the same rows; a code leads on every day to the instrument that had it; the current row keeps the code the source lists. |

One run, `sql_scope`, shows a statement of the repository that the code does not
keep: `runtime/repository.py:6` says that a scope has one running row, but two claims
select before either commits, and the advisory lock only orders the commits
(PROJECT.json, `findings`). Section 6 lists other places where code and words part.

### Bounds, and why they are enough

* `jobruns`: three intents in one scope, two rows, two attempts, two processes with a
  thread each. Two rows are enough for a duplicate key, for two runs of a scope, and
  for a parent with its child; two attempts give a retry and a last attempt.
  `MaxQueued = 1` makes back pressure refuse. A third row adds no new pair of rows,
  and every property relates at most two. The name of one process is a prefix of the
  other's label, so its stop reclaims the other's rows too.
* `jobruns_live`: three rows, because the backlog bound with one dispatcher and one
  thread is `MaxQueued + 1`, and it has to be reached by retries.
* `sql_jobruns`: two threads and two submitters, so each kind of transaction meets
  itself and the other on one lock, with three waiting.
* `sync_pipeline`: two trading days, one of them revised, two threads, one failure, stop
  or kill; requests come on the first morning, for the second day and with the default
  start, so that they skip a day and ask too early. That gives windows of one day and of
  two which overlap in time and in days, a callback that overlaps the next run, a retry
  after the write, an executor that outlives a stop, and two executors of one day.
* `cache_generations`: two processes, one with two worker threads, one reader (in either),
  and three events in all: commits, evictions, restarts, outages, kills. A stale read
  needs one old value, one reader holding it and two counters that disagree; a set-back
  needs three commits, two of them by threads of one process that cross.
* `entity_registry`: two instruments, three days, two renames, two changes of code,
  two builds: intervals before, between and after each other, a code that passes from
  one instrument to the other, a build over the rows of an earlier or interrupted one.
  The two names an instrument does not start with are symmetric.
* `layered_load`: two threads in one process and one in another, three calls, two
  faults. `LeaseTtl = 3` and `LockWait = 1`, so that a waiter gives up before the lease
  ends and a lease ends under a slow loader.
* `hub_calls`: two threads and two calls of requests that differ in one argument, for
  every argument of every endpoint; three calls of two endpoints whose frames do not
  fit together, one of which is too large to keep. A flight needs a leader and a
  waiter; a third thread would wait as the second does.
* `source_calls`: two threads, two calls (three of BaoStock over two hubs), a burst of
  one and a half calls, two tries, two days. Only "plain" and "fuyao" adapters run
  out of tokens, and only they have a ledger with budgets: the code that acquires and
  records is the same for all.
* `source_fetch`: four days, one or two codes of each type that takes another path, a
  page of two rows, two pages, windows of two days: so a page and a window end before,
  on and after a boundary; windows of net values also with one end only. About 20,000
  initial states, one for each request and source.
* `entity_store`: three workers and three codes, six calls: one who allocates, one who
  waits and one who comes later. Workers and codes are symmetric.

Deadlock is not checked in the job, sync, registry, hub, fetch and store runs, since
they stop when the rows, the days, the builds or the calls are used up. It is checked
in `cache_generations`, `layered_load` and `source_calls`, where a reader can always
begin or time passes.

### Fairness

Worker threads take their next step and retry delays elapse (`Fairness` in `JobRuns`):
the loop of `WorkerPool.start` has no other way out than the stop event, and executors
return because every source call has a timeout. Nobody is obliged to start, stop or
kill a process or to submit. In `SqlJobRuns` waiting for an advisory lock is strongly
fair, as PostgreSQL serves the waiters of a lock in order. In `SyncPipeline` time
passes, the source publishes, and the scheduler ticks; requests, revisions and
failures are free. In `HubCalls`, `SourceCalls` and `LayeredLoad` a thread that can go
on does, since every request to a source has a timeout, and time passes where a thread
sleeps; faults, and the return of L2, are free.

### Assumptions a run makes

* `WatermarkCovers` accounts for the days in `excused`. A request on an instrument with no
  watermark does move it past all the history, and one that ends today past a day without
  a bar; the property says that nothing else does. In the run the source is never late
  (`LateDays`) and requests come at one moment (`Asking`); the theorem has any.
* `VersionsChain` speaks of behaviours in which no two executions have overlapped. The
  queue does not prevent that, and then a version may repeat: see section 6. `HistoryKept`
  has no such condition, but speaks of moments before the knowledge time of every
  execution that has yet to commit.
* `CatchUp` leaves out behaviours in which a kill left a row running, `Progress` the scopes
  of such rows: nothing reclaims them.
* `InvalidationWins` speaks of behaviours with no outage of L2, no kill in the middle of
  an invalidation, and no set-back of L2 so far. The run reaches the set-back.
* `OwnFrame` compares the codes of a request and of its frame as the cache reads them; a
  security type that the caller states beside the code is not in the key: see section 6.
* `HandshakeFirst` is about the client: that it went through the handshake before it calls
  a tool. Whether the notification reached the server it does not check.
* In `source_calls` an `acquire` has a timeout, as by default; a configuration may have
  none, and then a thread waits as long as tokens are short.
* `entity_registry`: a change of code is recorded before the next build, in the order
  of the dates, as the code has no other way to learn of it. `NamesReplayed` and
  `ReadModelsAgree` speak of instruments that kept their code. `NamesReplayed` speaks of
  the days up to `EventsUntil` (`namechange_end`), the last one names are asked for, which
  in this run is the last day; on a later one the rows have the name from before the last
  interval, since `add_name_change` resumes that.
* `ForceSticks` and `SingleFlight` name what the code leaves open: an older load still
  under way when the forced one began, and a key whose flight a forced call ended.
* `source_calls` has no callback that asks the ledger for its summary: it would wait
  for itself.
* `FrameAsAsked` excepts answers of more rows than the last page holds, which are cut
  off, and speaks of rows that appear, not of rows that the source deletes. Of iFinD's net
  values it expects the latest only, unless both ends of the window are given, as the code
  asks for no more. `PricesAdjusted` has Tushare's own adjustment with the oldest row first.

## 4. What is proved

### The job queue

`JobRunsProofs` proves of `JobRuns`, for any intents, scopes, dependencies, processes,
threads and bounds that satisfy the named assumptions of the module:

| Theorem | Statement |
|---|---|
| `Invariance` | `Spec => []IInv` |
| `TypeCorrect` | `Spec => []TypeOK` |
| `Idempotency` | `Spec => []OneLivePerKey` |
| `ScopeExclusion` | `Spec => []OneRunningPerScope` |
| `ThreadsExclude` | `Spec => []ExecutionExclusion` |
| `GateHolds` | `Spec => []DependentsWait` |
| `RefinesLedger` | `Spec => LedgerSpec` |
| `SettledIsFinal` | `Spec => SettledNeverRewritten` |

None of the safety properties is inductive. `IInv` adds to them:

* `RowsInOrder`: rows are used in the order of their ids, so `create_run` never
  overwrites one;
* `IntentsKnown`: the intent of a used row and of a pending submission is an intent;
* `HoldersOwn`: an executing thread holds a row that is running under its own label
  or has been interrupted. This is what makes a late `succeed` or `fail` harmless, and
  two executing threads disjoint;
* `GateHeld`: what the gate saw when it let a submission through still holds when the
  row is created, because a succeeded row stays succeeded.

The proof has one lemma per part of the invariant, each with a step per action. The
refinement lemma (`LedgerStep`) says that a step of `Next` is a step of the ledger or
leaves its variables alone; the lemmas on keys and on settled rows are then proved of
the ledger's few actions and carried over.

Labels may overlap in all of this: `interrupt_running` matches `LIKE 'worker-<pid>%'`, so
the process `worker-1` also reclaims what `worker-12-0` is executing, and so does a process
of another container with the same pid. That a stop reclaims its own rows only is not
among the theorems, because it is false.

`BackPressure`, `Spec => []BacklogBound`, needs an invariant of its own,
`BacklogAccounted`: the backlog, the Dispatchers past `CheckBacklog` and the threads
whose failure would put a row back sum up to `MaxQueued - 1` and one for each Dispatcher
and thread. A submission moves a unit from the second to the first, a claim from the
first to the third, a retry back; only `CheckBacklog` adds one, and it has seen fewer
than `MaxQueued` rows.

### The job queue on PostgreSQL

`JobRunsProofs` proves of `SqlJobRuns`, under the same assumptions:

| Theorem | Statement |
|---|---|
| `SqlInvariance` | `SqlSpec => []SqlInv` |
| `SqlIdempotency` | `SqlSpec => []OneLivePerKey` |
| `SqlNoDoubleExecution` | `SqlSpec => []NoDoubleExecution` |
| `SqlGateHolds` | `SqlSpec => []DependentsWait` |
| `SqlBackPressure` | `SqlSpec => []BacklogBound` |
| `SqlRefinesLedger` | `SqlSpec => LedgerSpec` |
| `SqlSettledIsFinal` | `SqlSpec => SettledNeverRewritten` |

`SqlInv` says of the locks what the split transactions rely on. `CreationsSerial`: a
creation holds its scope's advisory lock from its check to its insert, so the live row
it did not find is still not there. `SelectionsOwn`: a row selected `FOR UPDATE` still
waits, and one polling thread has it. `LocksOwned`: no lock outlives its transaction.
`CommittedStep` then shows that a statement is a step of `JobRuns`, or leaves the
committed rows alone, or is the commit of a claim, and the lemmas about `JobRuns`
carry over. `OneRunningPerScope` is not among the theorems, because it is false here:
that is the finding of `sql_scope`.

### The sync pipeline

`SyncPipelineProofs` proves of `SyncPipeline`, for any calendar, requests, threads and
number of failures with `SyncAssumption`:

| Theorem | Statement |
|---|---|
| `SyncTyped` | `Spec => []TypeOK` |
| `ChainInvariance` | `Spec => []ChainInv` |
| `VersionsChained` | `Spec => []VersionsChain` |
| `HistoryIsKept` | `Spec => HistoryKept` |
| `CoverInvariance` | `Spec => []CoverInv` |
| `MarkCovers` | `Spec => []WatermarkCovers` |

None has a hypothesis on callers, source or queue. `RevisionsStamped`, which holds always,
is what keeps history: a day with versions has its first, known from the close of its
day, so whatever an executor adds is that one again, which the key refuses, or a version
known from the executor's own stamp, which is later than every settled moment. The chain
needs more: as long as nobody has overlapped, at most one execution is writing, its stamp
is later than every version and what it has read is still the latest (`OneWriter`); the
step at which a second one would begin to write is the one that sets `overlapped`.

For the watermark, `CoveredTo(k)` says that every trading day from the start to day k has
a bar or is excused. Bars are never deleted and days never unexcused, so it stays true
though the mark falls back when one callback overtakes another. A window is `Sound` if it
is covered up to the day before it and its days are past their cutoff or excused:
`WindowsSound` has that of every window that is planned, queued, running or with a thread,
also one that a stop has taken from it. `ThreadsCover` follows the days of a window through
an execution: fetched, about to be appended, stored, marked.

### Generations

`CacheGenerationsProofs` proves of `CacheGenerations`, for any processes, readers, values
and bounds, and any finite number of worker threads in each process:

| Theorem | Statement |
|---|---|
| `CacheInvariance` | `Spec => []CacheInv` |
| `CacheTyped` | `Spec => []TypeOK` |
| `InvalidationAlwaysWins` | `Spec => []InvalidationWins` |
| `SetBackIsTraced` | `Spec => []SetBackTraced` |

`CacheInv` has two parts, both for behaviours without outages and kills. `Traced` explains
a set-back: while no two threads of a process have crossed, an L1 is ahead of L2 by one at
most, and only while its own process is between the two increments (`LocalBehind`), so a
level is never set to a value below its own (`LevelledUp`). `Forward` holds until a
set-back, however many threads of a process cross. An L1 is then ahead of L2 by no more
than the number of threads that are about to increment L2 (`NoneAhead`), and so is the key
of every entry and reader (`KeysReached`). `NoneRevived` is the counting argument that
makes this harmless: of those threads, only the ones whose commits a value has seen can
have led a reader to the generation it is stored under, so that generation is no further
ahead of L2's than their number; and once L2 was incremented for a commit the value has not
seen, it is behind that. When nobody is about to increment, an outdated value is below the
generation of L2, and no key built from then on leads to it, which is `NoStaleKeys`.

### Loads under a lease

`LayeredLoadProofs` proves of `LayeredLoad`, for any processes, threads, times and
bounds with `LoadAssumption` (each thread has a process; times are positive):

| Theorem | Statement |
|---|---|
| `LocksHeld` | `Spec => []LInv` |
| `LoadersExclude` | `Spec => []OneLoader` |
| `LeasesKept` | `Spec => LeaseKept` |

`OneLoader` speaks of threads that load; it is not inductive, because nothing in it
says why a thread that is about to load may. `LInv` adds who holds the process lock
(`HasLock`: everyone from the recheck to the release), that a granted lease is owned
until its release unless it expired and marked its thread (`HasLease`), and that a
taken lease has time left (`Runs`), without which a tick could take it unmarked. One
lemma, `ThreadHolds`, covers every step of a single thread; the others show that an
action is such a step.

### Identities

`EntityStoreProofs` proves of `EntityStore`, for any workers, codes, days and calls:

| Theorem | Statement |
|---|---|
| `Invariance` | `Spec => []IInv` |
| `IdentitiesKept` | `Spec => []IdentityKept` |

`IInv` says what a worker knows at each step between its lookup and its commit
(`Knows`), that the allocation lock makes it the only one there (`LockHeld`, `Alone`),
and that the committed ids are `1..n` (`Dense`), so that `max + 1` is new. Nobody else
commits while a worker is inside (`OthersKnow`), so what it read is still true when its
rows become visible.

### Sessions, tokens and the ledger

`SourceCallsProofs` proves of `SourceCalls`, for any threads, hubs, calls, tries, rates,
prices, budgets and callbacks with the assumptions of the three modules:

| Theorem | Statement |
|---|---|
| `SessionsHeld` | `Spec => []CallInv` |
| `HandshakesFirst` | `Spec => []HandshakeFirst` |
| `LoginsCounted` | `Spec => []SessionCounted` |
| `GrantsWithinRate` | `Spec => []RateBound` |
| `BooksKept` | `Spec => []LedgerInv` |
| `LedgerAlwaysAgrees` | `Spec => []LedgerAgrees` |

`HandshakeFirst` speaks of the moment of a tool call. `CallInv` adds how a thread got
its session: the client only ever keeps one whose handshake went as far as the
notification, a thread that is about to keep one has gone through that step (`Reported`),
and no step is ever taken back. `SessionCounted` is
inductive once the state of BaoStock's module has its type (`Good`): a login adds one
member and counts one, a close takes away both or neither, an invalidation leaves no
member and counts zero.

A bucket's grants are bounded because it is `Balanced`: what it granted in the last n
ticks and what a look at it would find now are together no more than its capacity and
what n - 1 ticks bring. A grant moves from one to the other; a tick adds its rate to
both sides and moves every stretch on by one; a look at the bucket changes nothing. The
order of the threads and the lengths of their sleeps do not matter.

`LedgerInv` says who holds the ledger's lock (`Booking`), that a granted token is in the
books or with a thread that has yet to write it there (`TokensAccounted`), and, while the
checks go on, that a level that is reached has been alerted of, or will be by the thread
with the lock, or belongs to a day on which a callback raised (`AlertsDue`).
`LedgerAgrees` says the last of a free lock only.

### Calls of the hub

`HubCallsProofs` proves of `HubCalls`, for any requests, adapters, routes, threads, sizes
and limits with `HubAssumption`:

| Theorem | Statement |
|---|---|
| `CallsHeld` | `Spec => []HubInv` |
| `OneLoads` | `Spec => []SingleFlight` |
| `RefreshSticks` | `Spec => []ForceSticks` |
| `OwnFrames` | `Spec => []OwnFrame` |
| `LimitsKept` | `Spec => []WithinLimits` |

`HubInv` says of a thread, at every step: it leads the flight of its key unless a forced
call ended that (`Leads`); its load, and the frame it will hand on, are no older than the
last refresh of its key, and no call expects more than that refresh (`UpToDate`); a frame
it holds is of its own request (`Own`). Of an entry of the cache (`EntryGood`) it says that it is no older than the last
refresh of its key and is what every request with that key asks for. The lemmas behind
it: whatever eviction, sweep and order of use do, an entry that stays keeps its frame
(`PutFrames` and the `...Subcache` lemmas); a load returns a frame of its request, with
prices adjusted once (`LoadedMatches`); and every argument that reaches an adapter is in
the key of its endpoint (`KeyHoldsArguments`), so that requests with one key expect the
same frames (`KeyDecides`). `RefreshSticks` holds because a forced store counts as a
refresh only if no older load of its key is still under way.

`LimitsKept` rests on an invariant of its own, `LimitsInv`: the order of use is a sequence
that has every entry once, the total is the sum of their sizes (`Counted`), and both are
within the limits (`Within`). That no entry is in the order twice is what makes its length
the number of entries, and what makes dropping its first n drop n of them
(`EvictedWithin`; dropping all is always enough, so the least sufficient n exists). A put
first takes the entry it replaces out of entries, order and total (`WithoutCounted`), then
adds the new one at the end (`WithCounted`): with the first left out, as in the mutation
`Put_CountsTwice`, the total no longer is the sum. The sum and the order without some keys
are folds. What they return is proved without induction: a recursion over the subsets of a
finite set has a solution, since there is no minimal set for whose size it has none
(`MinimalSet`, `SubsetRecursion`), and that the sum does not depend on the order in which
the fold takes the entries, or splits in two, follows from a minimal set for which it would
fail (`SizeSums`, `SumSplit`). `SkipIs` says the same of the order of use.

### The registry

`EntityRegistryProofs` proves of `EntityRegistry`, for any finite set of instruments, any
names, codes, days and number of builds, with `RegistryAssumption` (no two instruments
are first listed under one code; names are asked for from a day after `EPOCH`):

| Theorem | Statement |
|---|---|
| `RegistryInvariance` | `Spec => []RegistryInv` |
| `CodesLead` | `Spec => []CodesInForce` |
| `CodesCurrent` | `Spec => []CurrentCode` |
| `ReplayInvariance` | `Spec => []ReplayInv` |
| `NamesAreReplayed` | `Spec => []NamesReplayed` |
| `ReadersAgree` | `Spec => []ReadModelsAgree` |

`RegistryInv` stands in `EntityRegistry`. `CodesApart` is what the source guarantees: an
instrument has one code at a time and a code one instrument at a time. `OwnersOne`: an
entity is created once for an instrument, and only an instrument that has one changes its
code. `EntriesKnown` and `EntriesEnded` say of `ref.entity_code_history` that each entry
is a code of its entity's instrument and each such code is there, ended on the day before
the next one. An entry is never changed: a closed copy of it is appended and the open one
stays, so that every later change of code finds it open and closes it once more, with
another day but the same version. What saves `resolve` is that of equal versions the first
one counts, which is `EndedAt`, and the mutation `Latest_LastOfVersion` shows that it is
needed. `RowsNumbered` and `RowsCurrent` speak of the rows: versions are the order of
insertion, and the newest open row has the present code.

The lemmas behind it: `ResolveOnDay` and `ResolveNow` (what `resolve` answers, with a day
and without one, in every state of the invariant); `NameKeepsCode` (recording a name
interval leaves the newest open row with its code, wherever the interval lies); one lemma
for each action. The reported events are a flattened sequence of sequences, defined by a
recursive function of the community modules: that each of them is a well-formed event
follows without induction from the least prefix for which it would fail (`LeastNumber`,
`FlattenIs`). On the instance of `entity_registry` TLC finds `RegistryInv` in every
reachable state.

`ReplayInv` adds what the rows say of names while a build is under way. A build replays
every interval from the first one on, over rows that earlier builds left, and nothing is
ever withdrawn: neither an interval whose name has changed since, nor the open rows that
each closed interval and each refresh put behind it. Three facts make that harmless.
`RowsBegin`: a row begins on day 0 or where a name began, so that no row, however old, can
begin inside an interval and hide its name. `NamesWritten`: an interval is still to come
or *written*, that is, one row has its name and its bounds, and every row with a higher
version lies beside it. `EventsOrdered`: the intervals of an instrument come in their
order, so that the open row that resumes after one of them is the last one only until the
next is written; the last interval asked for is either open or followed by such a row
(`ResumedLast`). On a day of a written interval its row is then both the one that begins
last and the one with the highest version (`WrittenLeads`), which is why `NamesReplayed`
and `ReadModelsAgree` follow from the same invariant (`DayRead`, `OpenRead`). The step
that counts is `WriteName`: writing the n-th interval keeps those before it, because the
row that `add_name_change` closes already ends on the day before (`ClosedBefore`). The
mutations show what each depends on: a resumed row that begins one day early breaks
`RowsBegin`, intervals in another order break `EventsOrdered`. `FlattenOrder` shows that
the flattened events keep the order of each instrument's. On the instance of
`entity_registry`, and with `EventsUntil` one day earlier, TLC finds `ReplayInv` in every
reachable state.

### Only model-checked

* Liveness (`Progress`, `TransactionsEnd`, `CatchUp`, `EveryCallEnds`, `CallsEnd`,
  `Answered`): the provers do not reach it.
* `FrameAsAsked` and `PricesAdjusted` of `SourceFetch`: they are about rows selected and
  sorted (`SelectSeq`, `SortSeq`), of which the provers know no facts, and depend on what
  the provider of each query holds, which `MCSourceFetch` lists case by case.
* That the bounds of TLC's instances are reached. A theorem holds whatever the bounds;
  the runs and their mutations show that its hypotheses are met and its cases occur.

## 5. What is not modelled

* The REST read API: its handlers read rows and format them.
* Schemas, endpoint specs, the data dictionary, settings and bootstrap: tables and
  objects made once. DDL, migrations and grants: they run once, from one process.
* Renaming of columns, units, number formats and the parsing of bodies in adapters and
  the MCP client. A row is its code, its day and one more column.
* Health checks, metrics, statistics, logging.
* `request_id` of a sync request; a calendar answer cached for the life of a process
  (`runtime/calendar.py:62`); SQLite as the runtime's database, whose locks are no-ops
  and which the documentation keeps for tests.
* Relations, external identifiers and classification of entities; `universe`, which
  nothing calls.
* Limits of single endpoints, `try_acquire`, `set_credentials`, the close of a hub.
* The numbers in a bar, where it is stored: there it is one of two values.

## 6. Where the code and its words part

Met while modelling. The properties above are stated so that they hold beside them; a
change of the code should revisit each.

The queue and the sync:

* `docs/troubleshooting.md:77`: interrupted runs are reclaimed after a restart. Nothing
  but a pool's own stop calls `interrupt_running`; a killed process leaves its row
  running for ever, and the row blocks its key and its scope.
* `runtime/app.py:72`: a stop reclaims the rows of its own process only. It matches them
  by `LIKE 'worker-<pid>%'` (`repository.py:669`): `worker-1` also matches `worker-12-0`,
  and two containers may have processes of one pid. The foreign row is interrupted and
  its result, when it comes, is dropped.
* `ingestion/daily_bar.py:13`: a changed value gets a new version. Two executors of one
  scope may run at once, by the finding of `sql_scope` or because a stop reclaimed the row
  of one that goes on (`roles.py:266`). Both may read the same latest version: then the
  number of a version repeats, or one is known before another with a lower number. The
  knowledge time is also taken before the transaction (`daily_bar.py:151`), so an as-of
  read of a moment between the two changes its answer at the commit.
* `ingestion/tasks.py:64`: today is kept for later if the source has nothing yet. The
  test is on the whole window: any earlier row counts, and the watermark passes today.
* `runtime/repository.py:842`: the watermark only goes forward. Two callbacks that both
  read before either writes may write the smaller value last.
* `cache/layered.py:94`: a generation is made good when L2 recovers. One that was
  incremented in one L1 only is reached a second time by another process.
* `cache/keys.py:58`: setting a generation never lowers it. Two worker threads of one
  process (two are the default, `runtime/roles.py:173`) may both invalidate: one that
  stalls before `layered.py:109`, while others raise L2, sets L2 back, and older values are
  found again. `cache_generations` reaches this in eleven steps.
* `registry/service.py:353`, against `tests/test_platform_registry.py:139`: the row
  after a name interval takes the name from before it, not that of the row that
  follows, so an old name becomes current if the newest is outside the window.
* `registry/reader.py:4`: `search_entities` filters before it ranks, so an entity found
  under an old name shows its old row as the current one.

The hub:

* `cache.py:8`: concurrent misses load once. A forced call ends the flight of its key,
  and the next miss loads beside the leader.
* The cache key has the canonical code and drops the security type, so a request that
  states another type gets the frame of the first.
* `mcp/client.py:149`: a failed `notifications/initialized` is suppressed, and the status of
  its answer is not checked; the session is kept and used all the same.
* `facade.py:701` makes a limiter without a lock: two first calls may make two.
* `sources/base.py:32`: acquire before real calls. Retries of BaoStock and MCP, and
  MCP's initialize, neither acquire nor are recorded.
* `usage.py:167`: an `on_alert` that raises replaces the result of the call and skips
  the metrics left; one that asks for the summary waits for itself.
* A fallback that adjusts with factors is called with the native adjustment of a trusted
  primary (`doc-5`, line 22, says otherwise), and `attrs["source"]` becomes the
  fallback's (`docs/components.md:24`).
* `BARS_COLUMNS` has `currency`, which no adapter fills: with filling on, every fallback
  is asked every time.
* `sources/tushare.py:8` anchors qfq on the latest factor; the code takes the last row,
  and the API answers with the newest first. `_MAX_PAGES` cuts off without a word, and
  lists read in pages repeat a row if one is inserted meanwhile, or lose one if one is
  deleted.
* iFinD asks for "the latest" net values if only one end of the window is given, and an
  empty answer is an error of parsing; Fuyao's calendar raises for a window that ends on
  a closed day after the last open one. `sources/factory.py` ignores `config.baostock`.
* `LayeredCache.get_or_load` does not look the key up again once it has the lease of
  another process that has just stored it: one load too many.

## 7. What could follow

The composition of `SyncPipeline` with `CacheGenerations` through the callback of a
sync, and with `EntityStore` through the key of a bar; relations and external
identifiers in the registry; `request_id` and the calendar's cached answers. A
theorem that `LayeredLoad` refines a load without locks, which is what lets
`CacheGenerations` leave them out.
