------------------------------- MODULE JobRuns -------------------------------
(***************************************************************************)
(* The job queue of FinDataRuntime: the MetaRepository contract over       *)
(* meta.job_runs, with the roles that drive it.                            *)
(*                                                                         *)
(*   Dispatcher  (roles.py)  count_queued; parents_ready; create_run,      *)
(*                           three transactions under an in-process lock   *)
(*   REST API    (jobs.py)   create_run directly                           *)
(*   WorkerPool  (roles.py)  threads that poll claim_next, run the         *)
(*                           executor, succeed or fail, call on_success    *)
(*   RuntimeApp  (app.py)    start and stop of a process; kill             *)
(*                                                                         *)
(* Every repository call is one atomic step, as InMemoryMetaRepository     *)
(* makes it under its lock; SqlJobRuns splits the calls into PostgreSQL    *)
(* statements.  A pool is one incarnation of a Runtime process: a restart  *)
(* is another pool starting.                                               *)
(***************************************************************************)
EXTENDS Naturals, FiniteSets

CONSTANTS
  Intents,       \* (kind, job_id, scope, window, version): what job_key hashes
  ScopeOf,       \* the (dataset, scope) of an intent
  Priority,      \* JobIntent.priority; smaller is claimed first
  Dependencies,  \* Dependencies[i]: one record per registered parent of i's job:
                 \*   matches: intents of the parent with i's scope and window
                 \*   condition: when the parent releases i
  ApiIntents,    \* intents the REST API may create, past the Dispatcher
  MaxAttempts,   \* JobIntent.max_attempts
  MaxQueued,     \* RuntimeConfig.max_queued
  MaxRuns,       \* bound: rows a behaviour may add to job_runs
  Pools,         \* Runtime process incarnations
  Threads,       \* worker threads, named by their label "worker-<pid>-<index>"
  PoolOf,        \* the pool a thread belongs to
  LabelledBy,    \* LabelledBy[p]: labels that start with p's name
  Dispatchers,   \* one per process that submits intents
  None           \* no intent, no worker

Conditions == {"on_success", "on_complete", "always"}

ASSUME IntentsAssumption ==
  /\ None \notin Intents \cup Threads
  /\ ApiIntents \subseteq Intents
  /\ ScopeOf \in [Intents -> {ScopeOf[i] : i \in Intents}]
  /\ Priority \in [Intents -> Nat]
  /\ \A i \in Intents : \A d \in Dependencies[i] :
       d.matches \subseteq Intents /\ d.condition \in Conditions

ASSUME BoundsAssumption ==
  /\ MaxAttempts \in Nat \ {0}
  /\ MaxQueued \in Nat
  /\ MaxRuns \in Nat

ASSUME PoolsAssumption ==
  /\ PoolOf \in [Threads -> Pools]
  /\ LabelledBy \in [Pools -> SUBSET Threads]
  /\ \A w \in Threads : w \in LabelledBy[PoolOf[w]]
  /\ IsFiniteSet(Threads) /\ IsFiniteSet(Dispatchers)

VARIABLES
  intent,     \* intent[r]: what row r was created from
  status,     \* job_runs.status, "unused" before the insert
  attempt,    \* job_runs.attempt
  due,        \* job_runs.scheduled_at <= now
  worker,     \* job_runs.worker: label of the last claimer
  nextRunId,  \* the next run_id
  pool,       \* life cycle of each process
  pc,         \* where each worker thread is in its loop
  holds,      \* the run a thread is executing, NoRun between runs
  submit      \* where each Dispatcher is in submit(), and with which intent

rows == <<intent, status, attempt, due, worker, nextRunId>>
vars == <<intent, status, attempt, due, worker, nextRunId, pool, pc, holds, submit>>

Run == 1..MaxRuns
NoRun == 0

Claimable == {"queued", "retrying"}
Terminal == {"succeeded", "dead"}
Settled == Terminal \cup {"interrupted"}
Live == Claimable \cup {"running", "succeeded"}
Status == {"unused", "running"} \cup Claimable \cup Settled

PoolState == {"new", "up", "stopping", "stopped", "gone"}
ThreadStep == {"idle", "polling", "executing", "callback"}
SubmitStep == {"free", "gate", "create"}

TypeOK ==
  /\ intent \in [Run -> Intents \cup {None}]
  /\ status \in [Run -> Status]
  /\ attempt \in [Run -> 0..MaxAttempts]
  /\ due \in [Run -> BOOLEAN]
  /\ worker \in [Run -> Threads \cup {None}]
  /\ nextRunId \in 1..(MaxRuns + 1)
  /\ pool \in [Pools -> PoolState]
  /\ pc \in [Threads -> ThreadStep]
  /\ holds \in [Threads -> Run \cup {NoRun}]
  /\ submit \in [Dispatchers -> [step: SubmitStep, intent: Intents \cup {None}]]
-----------------------------------------------------------------------------
(* The rows of meta.job_runs *)

Rows(S) == {r \in Run : status[r] \in S}
RunningScopes == {ScopeOf[intent[r]] : r \in Rows({"running"})}

\* Variant of HasLiveRow: a row waiting for its retry does not block a duplicate.
HasLiveRow_ForgetsRetrying(i) ==
  \E r \in Rows({"queued", "running", "succeeded"}) : intent[r] = i

HasLiveRow(i) == \E r \in Rows(Live) : intent[r] = i

\* create_run: no row for a duplicate key, else a fresh row that is due at once.
CreateRun(i) ==
  \/ /\ HasLiveRow(i)
     /\ UNCHANGED rows
  \/ /\ ~HasLiveRow(i)
     /\ nextRunId \in Run
     /\ intent' = [intent EXCEPT ![nextRunId] = i]
     /\ status' = [status EXCEPT ![nextRunId] = "queued"]
     /\ attempt' = [attempt EXCEPT ![nextRunId] = 1]
     /\ due' = [due EXCEPT ![nextRunId] = TRUE]
     /\ nextRunId' = nextRunId + 1
     /\ UNCHANGED worker

\* Variants of Candidates: without the scope test; and blind to retrying rows.
Candidates_AnyScope == {r \in Rows(Claimable) : due[r]}
Candidates_OnlyQueued ==
  {r \in Rows({"queued"}) : ScopeOf[intent[r]] \notin RunningScopes}

Candidates ==
  {r \in Rows(Claimable) : due[r] /\ ScopeOf[intent[r]] \notin RunningScopes}

Precedes(r, q) ==
  \/ Priority[intent[r]] < Priority[intent[q]]
  \/ Priority[intent[r]] = Priority[intent[q]] /\ r <= q

\* Variant of Finished: the status is written whatever the row became meanwhile.
Finished_Unguarded(r, s) == [status EXCEPT ![r] = s]

\* _finish: only a running row is rewritten, so a late result changes nothing.
Finished(r, s) == IF status[r] = "running" THEN [status EXCEPT ![r] = s] ELSE status

\* Variant of FailRow: a retry that is not counted.
FailRow_NotCounted(r) ==
  /\ status' = Finished(r, "retrying")
  /\ due' = [due EXCEPT ![r] = FALSE]
  /\ UNCHANGED <<intent, attempt, worker, nextRunId>>

FailRow(r) ==
  \/ /\ status[r] # "running"
     /\ UNCHANGED rows
  \/ /\ attempt[r] < MaxAttempts
     /\ status[r] = "running"
     /\ status' = Finished(r, "retrying")
     /\ attempt' = [attempt EXCEPT ![r] = @ + 1]
     /\ due' = [due EXCEPT ![r] = FALSE]
     /\ UNCHANGED <<intent, worker, nextRunId>>
  \/ /\ attempt[r] >= MaxAttempts
     /\ status[r] = "running"
     /\ status' = Finished(r, "dead")
     /\ UNCHANGED <<intent, attempt, due, worker, nextRunId>>

\* Variant of InterruptRunning: the rows are put back in the queue.
InterruptRunning_Requeues(p) ==
  status' = [r \in Run |-> IF status[r] = "running" /\ worker[r] \in LabelledBy[p]
                           THEN "queued" ELSE status[r]]

\* interrupt_running(worker_prefix=name of p): "worker-1" is a prefix of "worker-12-0",
\* and two containers may have one pid, so the rows of another process may be among them.
InterruptRunning(p) ==
  status' = [r \in Run |-> IF status[r] = "running" /\ worker[r] \in LabelledBy[p]
                           THEN "interrupted" ELSE status[r]]

\* The retry delay of r is over: scheduled_at <= now.
BackoffElapses(r) ==
  /\ status[r] = "retrying" /\ ~due[r]
  /\ due' = [due EXCEPT ![r] = TRUE]
  /\ UNCHANGED <<intent, status, attempt, worker, nextRunId, pool, pc, holds, submit>>
-----------------------------------------------------------------------------
(* Dispatcher.submit and the REST API *)

\* Variant of CheckBacklog: waiting retries are not counted.
CheckBacklog_OnlyQueued(d, i) ==
  /\ submit[d].step = "free"
  /\ Cardinality(Rows({"queued"})) < MaxQueued
  /\ submit' = [submit EXCEPT ![d] = [step |-> "gate", intent |-> i]]
  /\ UNCHANGED <<rows, pool, pc, holds>>

\* Back pressure: submit() goes on only below the limit.
CheckBacklog(d, i) ==
  /\ submit[d].step = "free"
  /\ Cardinality(Rows(Claimable)) < MaxQueued
  /\ submit' = [submit EXCEPT ![d] = [step |-> "gate", intent |-> i]]
  /\ UNCHANGED <<rows, pool, pc, holds>>

Released(dep) ==
  LET Matched(S) == \E r \in Rows(S) : intent[r] \in dep.matches
  IN  CASE dep.condition = "always"      -> Matched(Status \ {"unused"})
        [] dep.condition = "on_complete" -> Matched(Terminal)
        [] dep.condition = "on_success"  -> Matched({"succeeded"})

ParentsReady(i) == \A dep \in Dependencies[i] : Released(dep)

\* Variant of CheckParents: the gate is read and its answer ignored.
CheckParents_Open(d) ==
  /\ submit[d].step = "gate"
  /\ submit' = [submit EXCEPT ![d].step = "create"]
  /\ UNCHANGED <<rows, pool, pc, holds>>

CheckParents(d) ==
  /\ submit[d].step = "gate"
  /\ submit' = [submit EXCEPT ![d] = IF ParentsReady(@.intent)
                                     THEN [@ EXCEPT !.step = "create"]
                                     ELSE [step |-> "free", intent |-> None]]
  /\ UNCHANGED <<rows, pool, pc, holds>>

SubmitRun(d) ==
  /\ submit[d].step = "create"
  /\ CreateRun(submit[d].intent)
  /\ submit' = [submit EXCEPT ![d] = [step |-> "free", intent |-> None]]
  /\ UNCHANGED <<pool, pc, holds>>

\* A repository call of submit() raises: _run_spec records it and goes on.
SubmitFails(d) ==
  /\ submit[d].step # "free"
  /\ submit' = [submit EXCEPT ![d] = [step |-> "free", intent |-> None]]
  /\ UNCHANGED <<rows, pool, pc, holds>>

\* trigger_sync: create_run without back pressure and without the gate.
ApiCreate(i) ==
  /\ i \in ApiIntents
  /\ CreateRun(i)
  /\ UNCHANGED <<pool, pc, holds, submit>>
-----------------------------------------------------------------------------
(* WorkerPool: the loop of one thread *)

Release(w) ==
  /\ pc' = [pc EXCEPT ![w] = "idle"]
  /\ holds' = [holds EXCEPT ![w] = NoRun]

\* The loop test "not stop.is_set()".
Poll(w) ==
  /\ pc[w] = "idle" /\ pool[PoolOf[w]] = "up"
  /\ pc' = [pc EXCEPT ![w] = "polling"]
  /\ UNCHANGED <<rows, pool, holds, submit>>

ClaimNext(w) ==
  /\ pc[w] = "polling"
  /\ \/ /\ Candidates = {}
        /\ Release(w)
        /\ UNCHANGED rows
     \/ \E r \in Candidates :
          /\ \A q \in Candidates : Precedes(r, q)
          /\ status' = [status EXCEPT ![r] = "running"]
          /\ worker' = [worker EXCEPT ![r] = w]
          /\ pc' = [pc EXCEPT ![w] = "executing"]
          /\ holds' = [holds EXCEPT ![w] = r]
          /\ UNCHANGED <<intent, attempt, due, nextRunId>>
  /\ UNCHANGED <<pool, submit>>

\* The executor returned; succeed() is recorded, on_success comes next.
Succeed(w) ==
  /\ pc[w] = "executing"
  /\ status' = Finished(holds[w], "succeeded")
  /\ pc' = [pc EXCEPT ![w] = "callback"]
  /\ UNCHANGED <<intent, attempt, due, worker, nextRunId, pool, holds, submit>>

\* on_success runs, and whether it raises or not the run stays as it is.
OnSuccess(w) ==
  /\ pc[w] = "callback"
  /\ Release(w)
  /\ UNCHANGED <<rows, pool, submit>>

\* The executor (or succeed() before its commit) raised, or the job is unknown.
Fail(w) ==
  /\ pc[w] = "executing"
  /\ FailRow(holds[w])
  /\ Release(w)
  /\ UNCHANGED <<pool, submit>>

\* The repository fails while the run is being finished: succeed() and then
\* fail() raise, with the success recorded or not.  The thread polls again.
FinishLost(w) ==
  /\ pc[w] = "executing"
  /\ status' \in {status, Finished(holds[w], "succeeded")}
  /\ Release(w)
  /\ UNCHANGED <<intent, attempt, due, worker, nextRunId, pool, submit>>
-----------------------------------------------------------------------------
(* RuntimeApp: the life of a process *)

StartPool(p) ==
  /\ pool[p] = "new"
  /\ pool' = [pool EXCEPT ![p] = "up"]
  /\ UNCHANGED <<rows, pc, holds, submit>>

RequestStop(p) ==
  /\ pool[p] = "up"
  /\ pool' = [pool EXCEPT ![p] = "stopping"]
  /\ UNCHANGED <<rows, pc, holds, submit>>

\* WorkerPool.stop: an idle thread has left its loop; if the join of any other
\* thread timed out, the running rows under this pool's name are reclaimed.
StopPool(p) ==
  /\ pool[p] = "stopping"
  /\ pool' = [pool EXCEPT ![p] = "stopped"]
  /\ \/ /\ \E w \in Threads : PoolOf[w] = p /\ pc[w] # "idle"
        /\ InterruptRunning(p)
     \/ /\ \A w \in Threads : PoolOf[w] = p => pc[w] = "idle"
        /\ UNCHANGED status
  /\ UNCHANGED <<intent, attempt, due, worker, nextRunId, pc, holds, submit>>

\* The process is killed, or exits after stop(): its daemon threads end with it.
Die(p) ==
  /\ pool[p] \in {"up", "stopping", "stopped"}
  /\ pool' = [pool EXCEPT ![p] = "gone"]
  /\ pc' = [w \in Threads |-> IF PoolOf[w] = p THEN "idle" ELSE pc[w]]
  /\ holds' = [w \in Threads |-> IF PoolOf[w] = p THEN NoRun ELSE holds[w]]
  /\ UNCHANGED <<rows, submit>>
-----------------------------------------------------------------------------
Init ==
  /\ intent = [r \in Run |-> None]
  /\ status = [r \in Run |-> "unused"]
  /\ attempt = [r \in Run |-> 0]
  /\ due = [r \in Run |-> FALSE]
  /\ worker = [r \in Run |-> None]
  /\ nextRunId = 1
  /\ pool = [p \in Pools |-> "new"]
  /\ pc = [w \in Threads |-> "idle"]
  /\ holds = [w \in Threads |-> NoRun]
  /\ submit = [d \in Dispatchers |-> [step |-> "free", intent |-> None]]

Submission ==
  \/ \E d \in Dispatchers, i \in Intents : CheckBacklog(d, i)
  \/ \E d \in Dispatchers : CheckParents(d) \/ SubmitRun(d) \/ SubmitFails(d)
  \/ \E i \in Intents : ApiCreate(i)

Finish(w) == Succeed(w) \/ Fail(w) \/ FinishLost(w)
Work(w) == Poll(w) \/ ClaimNext(w) \/ Finish(w) \/ OnSuccess(w)

Lifecycle == \E p \in Pools : StartPool(p) \/ RequestStop(p) \/ StopPool(p) \/ Die(p)

Next ==
  \/ Submission
  \/ \E w \in Threads : Work(w)
  \/ \E r \in Run : BackoffElapses(r)
  \/ Lifecycle

Spec == Init /\ [][Next]_vars

(***************************************************************************)
(* Fairness: a worker thread runs until its process ends, executors        *)
(* return, and delays pass.  Nothing makes a user, an operator or a crash  *)
(* happen, and no process is obliged to start or stop.                     *)
(***************************************************************************)
Fairness ==
  /\ \A w \in Threads : WF_vars(Work(w))
  /\ \A r \in Run : WF_vars(BackoffElapses(r))

FairSpec == Spec /\ Fairness
-----------------------------------------------------------------------------
(* Safety *)

\* Idempotency of job_key (keys.py, create_run): whoever submits, at most one row
\* of an intent is queued, waiting for its retry, running or succeeded.
OneLivePerKey ==
  \A r, q \in Rows(Live) : intent[r] = intent[q] => r = q

\* Mutual exclusion of claim_next: one running row per (dataset, scope).
OneRunningPerScope ==
  \A r, q \in Rows({"running"}) : ScopeOf[intent[r]] = ScopeOf[intent[q]] => r = q

\* What that is for: two threads, of any processes, never both execute a scope
\* for a row that is still theirs to finish.  The other thread's row can only
\* have been reclaimed by a stop, of its own process or of one with a like name.
ExecutionExclusion ==
  \A v, w \in Threads :
    /\ v # w
    /\ pc[v] = "executing" /\ status[holds[v]] = "running"
    /\ pc[w] = "executing" /\ status[holds[w]] = "running"
    => ScopeOf[intent[holds[v]]] # ScopeOf[intent[holds[w]]]

ParentsSucceeded(i) ==
  \A dep \in Dependencies[i] :
    dep.condition = "on_success" =>
      \E q \in Rows({"succeeded"}) : intent[q] \in dep.matches

\* The dependency gate (parents_ready) holds of the row it let through: a row
\* with an on_success parent exists only if a run of that parent, for the same
\* scope and window, has succeeded.
DependentsWait ==
  \A r \in Run \ Rows({"unused"}) :
    intent[r] \notin ApiIntents => ParentsSucceeded(intent[r])

\* How far the backlog can overshoot max_queued: each Dispatcher has checked it
\* at most once before it creates, each executing thread may turn its row back
\* into a retry, and the API does not check at all.
Backlog == {r \in Rows(Claimable) : intent[r] \notin ApiIntents}
BacklogBound ==
  MaxQueued > 0 =>
    Cardinality(Backlog) <= MaxQueued - 1 + Cardinality(Dispatchers) + Cardinality(Threads)

\* A settled row is never rewritten: not by the late result of a thread whose
\* process gave up on it, not by a second stop, not by another claim.
SettledNeverRewritten ==
  [][\A r \in Run : status[r] \in Settled =>
       /\ status'[r] = status[r]
       /\ attempt'[r] = attempt[r]
       /\ worker'[r] = worker[r]]_vars

\* Every step of the roles is a step of the row's status machine, or no step of
\* it: of a row the ledger sees what it was created from, its status and the
\* attempts, and neither who runs it nor when.
Ledger == INSTANCE JobLedger WITH
            Intents <- Intents, MaxAttempts <- MaxAttempts, MaxRuns <- MaxRuns,
            intent <- intent, status <- status, attempt <- attempt, nextRunId <- nextRunId
LedgerSpec == Ledger!Spec
-----------------------------------------------------------------------------
(* The inductive strengthening of the safety properties *)

\* Rows are inserted in the order of their ids.
RowsInOrder == \A r \in Run : status[r] = "unused" <=> r >= nextRunId

IntentsKnown ==
  /\ \A r \in Run : status[r] # "unused" => intent[r] \in Intents
  /\ \A d \in Dispatchers : submit[d].step # "free" => submit[d].intent \in Intents

\* An executing thread holds a row it has claimed and nobody has finished: the
\* row is running under its label, or a stopping pool has reclaimed it.
HoldersOwn ==
  \A w \in Threads : pc[w] = "executing" =>
    /\ holds[w] \in Run
    /\ \/ status[holds[w]] = "running" /\ worker[holds[w]] = w
       \/ status[holds[w]] = "interrupted"

\* What the gate has seen still holds when the row is created.
GateHeld ==
  \A d \in Dispatchers :
    submit[d].step = "create" => ParentsSucceeded(submit[d].intent)

\* Who may still add a row to the backlog: a Dispatcher past its check, and a
\* thread whose row may be put back for a retry.
Passed == {d \in Dispatchers : submit[d].step # "free" /\ submit[d].intent \notin ApiIntents}
Retriable ==
  {w \in Threads : /\ pc[w] = "executing" /\ status[holds[w]] = "running"
                   /\ intent[holds[w]] \notin ApiIntents}

BacklogAccounted ==
  MaxQueued > 0 =>
    Cardinality(Backlog) + Cardinality(Passed) + Cardinality(Retriable)
      <= MaxQueued - 1 + Cardinality(Dispatchers) + Cardinality(Threads)

IInv ==
  /\ TypeOK
  /\ RowsInOrder
  /\ IntentsKnown
  /\ HoldersOwn
  /\ OneLivePerKey
  /\ OneRunningPerScope
  /\ GateHeld
  /\ DependentsWait
-----------------------------------------------------------------------------
(* Liveness *)

Up == {p \in Pools : pool[p] = "up"}

\* A running row nobody executes: its thread died, or lost the result.
Orphaned(r) ==
  /\ status[r] = "running"
  /\ \A w \in Threads : pc[w] = "executing" => holds[w] # r

Blocked(r) ==
  /\ status[r] # "unused"
  /\ \E q \in Rows({"running"}) : Orphaned(q) /\ ScopeOf[intent[q]] = ScopeOf[intent[r]]

\* A row that waits is eventually claimed, retried to its end and settled, as
\* long as some process with a worker keeps running and no orphan blocks its scope.
Progress ==
  \A r \in Run :
    status[r] \in Claimable ~>
      \/ status[r] \in Settled
      \/ \A w \in Threads : PoolOf[w] \notin Up
      \/ Blocked(r)
=============================================================================
