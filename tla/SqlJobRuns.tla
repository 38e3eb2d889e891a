----------------------------- MODULE SqlJobRuns -----------------------------
(***************************************************************************)
(* SqlMetaRepository on PostgreSQL: JobRuns with create_run and claim_next *)
(* split into the statements of their READ COMMITTED transactions.         *)
(*                                                                         *)
(*   create_run   pg_advisory_xact_lock(dataset:scope); select the rows of *)
(*                the key; insert; commit                                  *)
(*   claim_next   select the first claimable row of an idle scope FOR      *)
(*                UPDATE SKIP LOCKED; pg_advisory_xact_lock(dataset:scope);*)
(*                update; commit                                           *)
(*                                                                         *)
(* The other calls are one UPDATE guarded by status = 'running' and stay   *)
(* the atomic steps they are in JobRuns.  The variables of JobRuns hold    *)
(* what is committed.  A REST request thread is a member of Dispatchers    *)
(* that goes straight to create_run.                                       *)
(***************************************************************************)
EXTENDS JobRuns

CONSTANT ApiClients   \* REST request threads, a part of Dispatchers

ASSUME ApiClientsAssumption == ApiClients \subseteq Dispatchers

\* Lock owners are transactions, and none of them both creates a row and claims one.
ASSUME OwnersAssumption == Dispatchers \cap Threads = {} /\ None \notin Dispatchers

VARIABLES
  selected,   \* selected[w]: row a claiming transaction holds FOR UPDATE
  lockedBy,   \* lockedBy[s]: who holds the advisory lock of scope s
  creating    \* creating[d]: how far d's create_run transaction is

sqlVars == <<selected, lockedBy, creating>>
allVars == <<vars, sqlVars>>

Scopes == {ScopeOf[i] : i \in Intents}
Unlocked(s) == lockedBy[s] = None
Lock(s, c) == lockedBy' = [lockedBy EXCEPT ![s] = c]

\* A transaction of one of C ends: its advisory locks are released with it.
EndTransactions(C) ==
  lockedBy' = [s \in Scopes |-> IF lockedBy[s] \in C THEN None ELSE lockedBy[s]]
-----------------------------------------------------------------------------
(* create_run *)

Wants(d) == submit[d].intent
CreateScope(d) == ScopeOf[Wants(d)]
LeaveSubmit(d) == submit' = [submit EXCEPT ![d] = [step |-> "free", intent |-> None]]

\* trigger_sync calls create_run with nothing before it.
ApiRequest(d, i) ==
  /\ d \in ApiClients /\ i \in ApiIntents
  /\ submit[d].step = "free"
  /\ submit' = [submit EXCEPT ![d] = [step |-> "create", intent |-> i]]
  /\ UNCHANGED <<rows, pool, pc, holds, sqlVars>>

Creators == {d \in Dispatchers : creating[d] # "none"}

\* Bound: a transaction starts only if it will find a row left in Run.
RoomToCreate == nextRunId + Cardinality(Creators) \in Run

\* Variant of LockForCreate: create_run without the advisory lock.
LockForCreate_NoLock(d) ==
  /\ submit[d].step = "create" /\ creating[d] = "none"
  /\ RoomToCreate
  /\ creating' = [creating EXCEPT ![d] = "locked"]
  /\ UNCHANGED <<vars, selected, lockedBy>>

LockForCreate(d) ==
  /\ submit[d].step = "create" /\ creating[d] = "none"
  /\ RoomToCreate
  /\ Unlocked(CreateScope(d))
  /\ Lock(CreateScope(d), d)
  /\ creating' = [creating EXCEPT ![d] = "locked"]
  /\ UNCHANGED <<vars, selected>>

\* Variant of CheckKey: the lock outlives the transaction of a duplicate.
CheckKey_KeepsLock(d) ==
  /\ creating[d] = "locked"
  /\ IF HasLiveRow(Wants(d))
     THEN creating' = [creating EXCEPT ![d] = "none"] /\ LeaveSubmit(d)
     ELSE creating' = [creating EXCEPT ![d] = "absent"] /\ UNCHANGED submit
  /\ UNCHANGED <<rows, pool, pc, holds, selected, lockedBy>>

\* The select of the key's rows: a live one ends the call, and the transaction.
CheckKey(d) ==
  /\ creating[d] = "locked"
  /\ \/ /\ HasLiveRow(Wants(d))
        /\ creating' = [creating EXCEPT ![d] = "none"]
        /\ EndTransactions({d})
        /\ LeaveSubmit(d)
     \/ /\ ~HasLiveRow(Wants(d))
        /\ creating' = [creating EXCEPT ![d] = "absent"]
        /\ UNCHANGED <<lockedBy, submit>>
  /\ UNCHANGED <<rows, pool, pc, holds, selected>>

\* The insert and its commit.
InsertRow(d) ==
  /\ creating[d] = "absent"
  /\ intent' = [intent EXCEPT ![nextRunId] = Wants(d)]
  /\ status' = [status EXCEPT ![nextRunId] = "queued"]
  /\ attempt' = [attempt EXCEPT ![nextRunId] = 1]
  /\ due' = [due EXCEPT ![nextRunId] = TRUE]
  /\ nextRunId' = nextRunId + 1
  /\ creating' = [creating EXCEPT ![d] = "none"]
  /\ EndTransactions({d})
  /\ LeaveSubmit(d)
  /\ UNCHANGED <<worker, pool, pc, holds, selected>>

\* The connection fails before the commit: the transaction is rolled back.
AbortCreate(d) ==
  /\ submit[d].step = "create"
  /\ creating' = [creating EXCEPT ![d] = "none"]
  /\ EndTransactions({d})
  /\ LeaveSubmit(d)
  /\ UNCHANGED <<rows, pool, pc, holds, selected>>
-----------------------------------------------------------------------------
(* claim_next *)

RowLocked(r) == \E w \in Threads : selected[w] = r

\* Variant of Selectable: the row is selected without FOR UPDATE.
Selectable_NoRowLock == Candidates

Selectable == {r \in Candidates : ~RowLocked(r)}

SelectCandidate(w) ==
  /\ pc[w] = "polling" /\ selected[w] = NoRun
  /\ \/ /\ Selectable = {}
        /\ Release(w)
        /\ UNCHANGED selected
     \/ \E r \in Selectable :
          /\ \A q \in Selectable : Precedes(r, q)
          /\ selected' = [selected EXCEPT ![w] = r]
          /\ UNCHANGED <<pc, holds>>
  /\ UNCHANGED <<rows, pool, submit, lockedBy, creating>>

ClaimScope(w) == ScopeOf[intent[selected[w]]]

LockForClaim(w) ==
  /\ selected[w] # NoRun
  /\ Unlocked(ClaimScope(w))
  /\ Lock(ClaimScope(w), w)
  /\ UNCHANGED <<vars, selected, creating>>

\* The update (of a row that is still claimable) and its commit.  If the commit is
\* not acknowledged, claim_next raises in the thread, which polls again and leaves
\* the row running.
CommitClaim(w) ==
  LET r == selected[w] IN
  /\ r # NoRun
  /\ lockedBy[ClaimScope(w)] = w
  /\ IF status[r] \in Claimable
     THEN /\ status' = [status EXCEPT ![r] = "running"]
          /\ worker' = [worker EXCEPT ![r] = w]
     ELSE UNCHANGED <<status, worker>>
  /\ selected' = [selected EXCEPT ![w] = NoRun]
  /\ EndTransactions({w})
  /\ \/ /\ pc' = [pc EXCEPT ![w] = "executing"]
        /\ holds' = [holds EXCEPT ![w] = r]
     \/ Release(w)
  /\ UNCHANGED <<intent, attempt, due, nextRunId, pool, submit, creating>>

\* The connection fails before the commit: the transaction is rolled back.
AbortClaim(w) ==
  /\ selected[w] # NoRun
  /\ selected' = [selected EXCEPT ![w] = NoRun]
  /\ EndTransactions({w})
  /\ Release(w)
  /\ UNCHANGED <<rows, pool, submit, creating>>

\* The transactions of a process that ends are rolled back.
DieWithTransactions(p) ==
  /\ Die(p)
  /\ selected' = [w \in Threads |-> IF PoolOf[w] = p THEN NoRun ELSE selected[w]]
  /\ EndTransactions({w \in Threads : PoolOf[w] = p})
  /\ UNCHANGED creating
-----------------------------------------------------------------------------
SqlInit ==
  /\ Init
  /\ selected = [w \in Threads |-> NoRun]
  /\ lockedBy = [s \in Scopes |-> None]
  /\ creating = [d \in Dispatchers |-> "none"]

SqlSubmission ==
  \/ \E d \in Dispatchers \ ApiClients, i \in Intents :
       CheckBacklog(d, i) /\ UNCHANGED sqlVars
  \/ \E d \in Dispatchers \ ApiClients : CheckParents(d) /\ UNCHANGED sqlVars
  \/ \E d \in Dispatchers \ ApiClients :
       submit[d].step = "gate" /\ SubmitFails(d) /\ UNCHANGED sqlVars
  \/ \E d \in Dispatchers, i \in Intents : ApiRequest(d, i)
  \/ \E d \in Dispatchers : LockForCreate(d) \/ CheckKey(d) \/ InsertRow(d) \/ AbortCreate(d)

SqlClaim(w) == SelectCandidate(w) \/ LockForClaim(w) \/ CommitClaim(w) \/ AbortClaim(w)

SqlWork ==
  \/ \E w \in Threads : SqlClaim(w)
  \/ \E w \in Threads :
       (Poll(w) \/ Finish(w) \/ OnSuccess(w)) /\ UNCHANGED sqlVars
  \/ \E r \in Run : BackoffElapses(r) /\ UNCHANGED sqlVars

SqlLifecycle ==
  \/ \E p \in Pools :
       (StartPool(p) \/ RequestStop(p) \/ StopPool(p)) /\ UNCHANGED sqlVars
  \/ \E p \in Pools : DieWithTransactions(p)

SqlNext == SqlSubmission \/ SqlWork \/ SqlLifecycle

SqlSpec == SqlInit /\ [][SqlNext]_allVars

(***************************************************************************)
(* Fairness: statements are executed and transactions committed, and the   *)
(* queue of waiters of an advisory lock is served in order, so a waiter    *)
(* that finds it free again and again gets it.                             *)
(***************************************************************************)
SqlFairness ==
  /\ \A d \in Dispatchers :
       SF_allVars(LockForCreate(d)) /\ WF_allVars(CheckKey(d) \/ InsertRow(d))
  /\ \A w \in Threads :
       SF_allVars(LockForClaim(w)) /\ WF_allVars(CommitClaim(w))

SqlFairSpec == SqlSpec /\ SqlFairness
-----------------------------------------------------------------------------
(* Properties, with OneLivePerKey, OneRunningPerScope and LedgerSpec of JobRuns *)

\* SKIP LOCKED and the guarded update: no two threads ever execute one row.
NoDoubleExecution ==
  \A v, w \in Threads : v # w /\ holds[v] # NoRun => holds[v] # holds[w]

\* The two kinds of lock are taken in opposite orders by no pair of
\* transactions: every claim and every creation that has begun comes to an end.
TransactionsEnd ==
  /\ \A w \in Threads : selected[w] # NoRun ~> selected[w] = NoRun
  /\ \A d \in Dispatchers : creating[d] # "none" ~> creating[d] = "none"
-----------------------------------------------------------------------------
(* The inductive strengthening of the safety properties *)

SqlTypeOK ==
  /\ TypeOK
  /\ selected \in [Threads -> Run \cup {NoRun}]
  /\ lockedBy \in [Scopes -> Threads \cup Dispatchers \cup {None}]
  /\ creating \in [Dispatchers -> {"none", "locked", "absent"}]

\* Every creation under way finds its row.
RoomReserved ==
  IsFiniteSet(Creators) /\ nextRunId + Cardinality(Creators) <= MaxRuns + 1

\* A creation has its scope to itself from the lock to the insert, so that the
\* row it has not found is still not there when it inserts one.
CreationsSerial ==
  \A d \in Creators :
    /\ submit[d].step = "create"
    /\ lockedBy[CreateScope(d)] = d
    /\ creating[d] = "absent" => ~HasLiveRow(Wants(d))

\* No advisory lock outlives its transaction: whoever holds one is creating a row,
\* or has selected one, in the scope it has locked.
LocksOwned ==
  \A s \in Scopes :
    \/ Unlocked(s)
    \/ \E d \in Creators : lockedBy[s] = d /\ CreateScope(d) = s
    \/ \E w \in Threads : lockedBy[s] = w /\ selected[w] # NoRun /\ ClaimScope(w) = s

\* A row held FOR UPDATE waits, and one polling thread holds it.
SelectionsOwn ==
  \A w \in Threads : selected[w] # NoRun =>
    /\ pc[w] = "polling"
    /\ status[selected[w]] \in Claimable
    /\ \A v \in Threads \ {w} : selected[v] # selected[w]

\* With HoldersOwn: a thread has a run only while it works on it, and what it has
\* finished is final.
ThreadsHold ==
  \A w \in Threads :
    /\ pc[w] \in {"idle", "polling"} => holds[w] = NoRun
    /\ pc[w] = "callback" => holds[w] \in Run /\ status[holds[w]] \in Settled

\* GateHeld of JobRuns, with the requests of the REST API in submit.
ScheduleGated ==
  \A d \in Dispatchers :
    submit[d].step = "create" =>
      Wants(d) \in ApiIntents \/ ParentsSucceeded(Wants(d))

SqlInv ==
  /\ SqlTypeOK
  /\ RowsInOrder /\ IntentsKnown /\ OneLivePerKey
  /\ HoldersOwn /\ ThreadsHold /\ NoDoubleExecution
  /\ RoomReserved /\ CreationsSerial /\ SelectionsOwn /\ LocksOwned
  /\ ScheduleGated /\ DependentsWait
=============================================================================
