------------------------------ MODULE JobLedger ------------------------------
(***************************************************************************)
(* What meta.job_runs promises of every row, whoever writes it: the status *)
(* machine of doc-20 section 4.4 as the code implements it (the statuses   *)
(* "failed" and "cancelled" are declared in models.py and written by no    *)
(* code path), the retry budget, and the idempotency of job_key: a row is  *)
(* only added for an intent that has no live row.                          *)
(*                                                                         *)
(* Nothing is said here of workers, locks, scopes or time: those belong to *)
(* the specifications that implement this one, JobRuns (the repository     *)
(* contract) and SqlJobRuns (its PostgreSQL transactions).                 *)
(***************************************************************************)
EXTENDS Naturals

CONSTANTS
  Intents,      \* the job intents; job_key() is injective on them
  MaxAttempts,  \* JobIntent.max_attempts
  MaxRuns       \* bound: rows a behaviour may add

VARIABLES
  intent,       \* intent[r]: what row r was created from
  status,       \* status[r]: job_runs.status, "unused" before the insert
  attempt,      \* attempt[r]: job_runs.attempt
  nextRunId     \* the next run_id

vars == <<intent, status, attempt, nextRunId>>

Run == 1..MaxRuns
Claimable == {"queued", "retrying"}
Settled == {"succeeded", "dead", "interrupted"}
Live == Claimable \cup {"running", "succeeded"}
-----------------------------------------------------------------------------
Init ==
  /\ status = [r \in Run |-> "unused"]
  /\ attempt = [r \in Run |-> 0]
  /\ nextRunId = 1

Create(i) ==
  /\ nextRunId \in Run
  /\ \A r \in Run : status[r] \in Live => intent[r] # i
  /\ intent' = [intent EXCEPT ![nextRunId] = i]
  /\ status' = [status EXCEPT ![nextRunId] = "queued"]
  /\ attempt' = [attempt EXCEPT ![nextRunId] = 1]
  /\ nextRunId' = nextRunId + 1

Start(r) ==
  /\ status[r] \in Claimable
  /\ status' = [status EXCEPT ![r] = "running"]
  /\ UNCHANGED <<intent, attempt, nextRunId>>

Succeed(r) ==
  /\ status[r] = "running"
  /\ status' = [status EXCEPT ![r] = "succeeded"]
  /\ UNCHANGED <<intent, attempt, nextRunId>>

Retry(r) ==
  /\ status[r] = "running"
  /\ attempt[r] < MaxAttempts
  /\ status' = [status EXCEPT ![r] = "retrying"]
  /\ attempt' = [attempt EXCEPT ![r] = attempt[r] + 1]
  /\ UNCHANGED <<intent, nextRunId>>

GiveUp(r) ==
  /\ status[r] = "running"
  /\ attempt[r] = MaxAttempts
  /\ status' = [status EXCEPT ![r] = "dead"]
  /\ UNCHANGED <<intent, attempt, nextRunId>>

\* A stopping process reclaims any set of running rows at once.
Interrupt(S) ==
  /\ \A r \in S : status[r] = "running"
  /\ status' = [r \in Run |-> IF r \in S THEN "interrupted" ELSE status[r]]
  /\ UNCHANGED <<intent, attempt, nextRunId>>

Next ==
  \/ \E i \in Intents : Create(i)
  \/ \E r \in Run : Start(r) \/ Succeed(r) \/ Retry(r) \/ GiveUp(r)
  \/ \E S \in SUBSET Run : Interrupt(S)

Spec == Init /\ [][Next]_vars
=============================================================================
