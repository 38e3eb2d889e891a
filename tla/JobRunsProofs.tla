---------------------------- MODULE JobRunsProofs ----------------------------
(***************************************************************************)
(* Theorems about JobRuns for any intents, processes, threads and bounds,  *)
(* and about SqlJobRuns, which splits its transactions into statements.    *)
(* A statement of a transaction either is a step of JobRuns, or leaves the *)
(* committed rows alone, or is the commit of a claim; what the status      *)
(* machine of a row guarantees then follows from the lemmas about JobRuns, *)
(* and what is left to prove is about locks.                               *)
(***************************************************************************)
EXTENDS SqlJobRuns, FiniteSetTheorems, TLAPS

USE BoundsAssumption DEF BoundsAssumption

\* A row's status is only written where a thread executes or a pool stops, so
\* what those steps write is typed.
LEMMA FinishedTyped ==
  ASSUME TypeOK, NEW r \in Run, NEW s \in Status
  PROVE  Finished(r, s) \in [Run -> Status]
BY DEF TypeOK, Finished

\* The rows written by create_run are typed.
LEMMA CreateRunTyped ==
  ASSUME TypeOK, NEW i \in Intents, CreateRun(i)
  PROVE  /\ intent' \in [Run -> Intents \cup {None}]
         /\ status' \in [Run -> Status]
         /\ attempt' \in [Run -> 0..MaxAttempts]
         /\ due' \in [Run -> BOOLEAN]
         /\ worker' \in [Run -> Threads \cup {None}]
         /\ nextRunId' \in 1..(MaxRuns + 1)
<1>1. CASE HasLiveRow(i) /\ UNCHANGED rows
  BY <1>1 DEF TypeOK, rows
<1>2. CASE ~HasLiveRow(i)
  <2>1. nextRunId + 1 \in 1..(MaxRuns + 1)
    BY <1>2 DEF CreateRun, Run
  <2>2. "queued" \in Status
    BY DEF Status, Claimable
  <2>3. 1 \in 0..MaxAttempts
    OBVIOUS
  <2>4. intent' \in [Run -> Intents \cup {None}] /\ status' \in [Run -> Status]
    BY <1>2, <2>2 DEF TypeOK, CreateRun
  <2>5. attempt' \in [Run -> 0..MaxAttempts] /\ due' \in [Run -> BOOLEAN]
    BY <1>2, <2>3 DEF TypeOK, CreateRun
  <2> QED
    BY <1>2, <2>1, <2>4, <2>5 DEF TypeOK, CreateRun
<1> QED
  BY <1>1, <1>2 DEF CreateRun

\* Likewise the row written by fail, whose attempt stays within the budget.
LEMMA FailRowTyped ==
  ASSUME TypeOK, NEW r \in Run, FailRow(r)
  PROVE  /\ intent' \in [Run -> Intents \cup {None}]
         /\ status' \in [Run -> Status]
         /\ attempt' \in [Run -> 0..MaxAttempts]
         /\ due' \in [Run -> BOOLEAN]
         /\ worker' \in [Run -> Threads \cup {None}]
         /\ nextRunId' \in 1..(MaxRuns + 1)
<1>1. CASE UNCHANGED rows
  BY <1>1 DEF TypeOK, rows
<1>2. CASE attempt[r] < MaxAttempts /\ status[r] = "running"
  <2>1. attempt[r] + 1 \in 0..MaxAttempts
    BY <1>2 DEF TypeOK
  <2>2. Finished(r, "retrying") \in [Run -> Status]
    BY FinishedTyped DEF Status, Claimable
  <2>3. /\ status' = Finished(r, "retrying")
        /\ attempt' = [attempt EXCEPT ![r] = @ + 1]
        /\ due' = [due EXCEPT ![r] = FALSE]
        /\ UNCHANGED <<intent, worker, nextRunId>>
    BY <1>2 DEF TypeOK, FailRow
  <2>4. attempt' \in [Run -> 0..MaxAttempts] /\ due' \in [Run -> BOOLEAN]
    BY <2>1, <2>3 DEF TypeOK
  <2> QED
    BY <2>2, <2>3, <2>4 DEF TypeOK
<1>3. CASE attempt[r] >= MaxAttempts /\ status[r] = "running"
  <2>1. Finished(r, "dead") \in [Run -> Status]
    BY FinishedTyped DEF Status, Settled, Terminal
  <2>2. ~(attempt[r] < MaxAttempts)
    BY <1>3 DEF TypeOK
  <2> QED
    BY <1>3, <2>1, <2>2 DEF TypeOK, FailRow, rows
<1> QED
  BY <1>1, <1>2, <1>3 DEF FailRow

\* An idle thread holds no run, and is typed.
LEMMA ReleaseTyped ==
  ASSUME TypeOK, NEW w \in Threads, Release(w)
  PROVE  /\ pc' \in [Threads -> ThreadStep]
         /\ holds' \in [Threads -> Run \cup {NoRun}]
BY DEF TypeOK, Release, ThreadStep

\* Every step of Next from a state of the invariant keeps every variable in its
\* type: a thread finishes runs only, and no retry exceeds max_attempts.
LEMMA TypeStep ==
  ASSUME TypeOK, HoldersOwn, IntentsKnown, [Next]_vars
  PROVE  TypeOK'
<1>1. ASSUME NEW d \in Dispatchers, NEW i \in Intents, CheckBacklog(d, i)
      PROVE  TypeOK'
  BY <1>1 DEF TypeOK, CheckBacklog, rows, SubmitStep
<1>2. ASSUME NEW d \in Dispatchers, CheckParents(d)
      PROVE  TypeOK'
  BY <1>2 DEF TypeOK, CheckParents, rows, SubmitStep
<1>3. ASSUME NEW d \in Dispatchers, SubmitRun(d)
      PROVE  TypeOK'
  <2>1. submit[d].intent \in Intents
    BY <1>3 DEF SubmitRun, IntentsKnown
  <2> QED
    BY <1>3, <2>1, CreateRunTyped DEF TypeOK, SubmitRun, SubmitStep
<1>4. ASSUME NEW d \in Dispatchers, SubmitFails(d)
      PROVE  TypeOK'
  BY <1>4 DEF TypeOK, SubmitFails, rows, SubmitStep
<1>5. ASSUME NEW i \in Intents, ApiCreate(i)
      PROVE  TypeOK'
  BY <1>5, CreateRunTyped DEF TypeOK, ApiCreate
<1>6. ASSUME NEW w \in Threads, Poll(w)
      PROVE  TypeOK'
  BY <1>6 DEF TypeOK, Poll, rows, ThreadStep
<1>7. ASSUME NEW w \in Threads, ClaimNext(w)
      PROVE  TypeOK'
  <2>1. CASE Candidates = {} /\ Release(w) /\ UNCHANGED rows
    BY <1>7, <2>1, ReleaseTyped DEF TypeOK, ClaimNext, rows
  <2>2. ASSUME NEW r \in Candidates,
               status' = [status EXCEPT ![r] = "running"],
               worker' = [worker EXCEPT ![r] = w],
               pc' = [pc EXCEPT ![w] = "executing"],
               holds' = [holds EXCEPT ![w] = r],
               UNCHANGED <<intent, attempt, due, nextRunId>>
        PROVE  TypeOK'
    <3>1. r \in Run
      BY DEF Candidates, Rows
    <3> QED
      BY <1>7, <2>2, <3>1 DEF TypeOK, ClaimNext, Status, ThreadStep
  <2> QED
    BY <1>7, <2>1, <2>2 DEF ClaimNext
<1>8. ASSUME NEW w \in Threads, Succeed(w)
      PROVE  TypeOK'
  <2>1. holds[w] \in Run
    BY <1>8 DEF Succeed, HoldersOwn
  <2>2. status' \in [Run -> Status]
    BY <1>8, <2>1, FinishedTyped DEF Succeed, Status, Settled, Terminal
  <2> QED
    BY <1>8, <2>2 DEF TypeOK, Succeed, ThreadStep
<1>9. ASSUME NEW w \in Threads, Fail(w)
      PROVE  TypeOK'
  <2>1. holds[w] \in Run
    BY <1>9 DEF Fail, HoldersOwn
  <2> QED
    BY <1>9, <2>1, FailRowTyped, ReleaseTyped DEF TypeOK, Fail
<1>10. ASSUME NEW w \in Threads, FinishLost(w)
       PROVE  TypeOK'
  <2>1. holds[w] \in Run
    BY <1>10 DEF FinishLost, HoldersOwn
  <2>2. status' \in [Run -> Status]
    BY <1>10, <2>1, FinishedTyped DEF TypeOK, FinishLost, Status, Settled, Terminal
  <2> QED
    BY <1>10, <2>2, ReleaseTyped DEF TypeOK, FinishLost
<1>11. ASSUME NEW w \in Threads, OnSuccess(w)
       PROVE  TypeOK'
  BY <1>11, ReleaseTyped DEF TypeOK, OnSuccess, rows
<1>12. ASSUME NEW r \in Run, BackoffElapses(r)
       PROVE  TypeOK'
  BY <1>12 DEF TypeOK, BackoffElapses
<1>13. ASSUME NEW p \in Pools, StartPool(p) \/ RequestStop(p)
       PROVE  TypeOK'
  BY <1>13 DEF TypeOK, StartPool, RequestStop, rows, PoolState
<1>14. ASSUME NEW p \in Pools, StopPool(p)
       PROVE  TypeOK'
  <2>1. status' \in [Run -> Status]
    BY <1>14 DEF TypeOK, StopPool, InterruptRunning, Status, Settled
  <2> QED
    BY <1>14, <2>1 DEF TypeOK, StopPool, PoolState
<1>15. ASSUME NEW p \in Pools, Die(p)
       PROVE  TypeOK'
  BY <1>15 DEF TypeOK, Die, rows, PoolState, ThreadStep
<1>16. CASE UNCHANGED vars
  BY <1>16 DEF TypeOK, vars
<1> QED
  BY <1>1, <1>2, <1>3, <1>4, <1>5, <1>6, <1>7, <1>8, <1>9, <1>10, <1>11,
     <1>12, <1>13, <1>14, <1>15, <1>16
  DEF Next, Submission, Work, Finish, Lifecycle
-----------------------------------------------------------------------------
(* Refinement: every step is a step of JobLedger, or leaves its variables as they are. *)

\* create_run adds a row for an intent without a live row, or does nothing.
LEMMA CreateRunRefines ==
  ASSUME TypeOK, NEW i \in Intents, CreateRun(i)
  PROVE  Ledger!Create(i) \/ UNCHANGED Ledger!vars
<1>1. CASE HasLiveRow(i) /\ UNCHANGED rows
  BY <1>1 DEF rows, Ledger!vars
<1>2. CASE ~HasLiveRow(i)
  <2>1. \A r \in Run : status[r] \in Live => intent[r] # i
    BY <1>2 DEF HasLiveRow, Rows
  <2> QED
    BY <1>2, <2>1 DEF CreateRun, Ledger!Create, Run, Ledger!Run, Live, Claimable,
       Ledger!Live, Ledger!Claimable
<1> QED
  BY <1>1, <1>2 DEF CreateRun

\* fail() retries within the budget and gives up at its end.
LEMMA FailRowRefines ==
  ASSUME TypeOK, NEW r \in Run, FailRow(r)
  PROVE  Ledger!Retry(r) \/ Ledger!GiveUp(r) \/ UNCHANGED Ledger!vars
<1>1. CASE UNCHANGED rows
  BY <1>1 DEF rows, Ledger!vars
<1>2. CASE /\ attempt[r] < MaxAttempts
           /\ status[r] = "running"
           /\ status' = Finished(r, "retrying")
           /\ attempt' = [attempt EXCEPT ![r] = @ + 1]
           /\ UNCHANGED <<intent, worker, nextRunId>>
  BY <1>2 DEF Finished, Ledger!Retry
<1>3. CASE /\ attempt[r] >= MaxAttempts
           /\ status[r] = "running"
           /\ status' = Finished(r, "dead")
           /\ UNCHANGED <<intent, attempt, due, worker, nextRunId>>
  <2>1. attempt[r] \in 0..MaxAttempts
    BY DEF TypeOK
  <2>2. attempt[r] = MaxAttempts
    BY <1>3, <2>1
  <2> QED
    BY <1>3, <2>2 DEF Finished, Ledger!GiveUp
<1> QED
  BY <1>1, <1>2, <1>3 DEF FailRow

\* Every role's step is a step of the row's status machine, or none.
LEMMA LedgerStep ==
  ASSUME TypeOK, HoldersOwn, IntentsKnown, [Next]_vars
  PROVE  [Ledger!Next]_(Ledger!vars)
<1>1. ASSUME NEW d \in Dispatchers, SubmitRun(d)
      PROVE  [Ledger!Next]_(Ledger!vars)
  <2>1. submit[d].intent \in Intents
    BY <1>1 DEF SubmitRun, IntentsKnown
  <2> QED
    BY <1>1, <2>1, CreateRunRefines DEF SubmitRun, Ledger!Next
<1>2. ASSUME NEW i \in Intents, ApiCreate(i)
      PROVE  [Ledger!Next]_(Ledger!vars)
  BY <1>2, CreateRunRefines DEF ApiCreate, Ledger!Next
<1>3. ASSUME NEW w \in Threads, ClaimNext(w)
      PROVE  [Ledger!Next]_(Ledger!vars)
  <2>1. CASE UNCHANGED rows
    BY <2>1 DEF rows, Ledger!vars
  <2>2. ASSUME NEW r \in Candidates,
               status' = [status EXCEPT ![r] = "running"],
               UNCHANGED <<intent, attempt, due, nextRunId>>
        PROVE  [Ledger!Next]_(Ledger!vars)
    <3>1. r \in Run /\ status[r] \in Claimable
      BY DEF Candidates, Rows
    <3>2. r \in Ledger!Run /\ Ledger!Start(r)
      BY <2>2, <3>1 DEF Run, Ledger!Run, Claimable, Ledger!Claimable, Ledger!Start
    <3> QED
      BY <3>2 DEF Ledger!Next
  <2> QED
    BY <1>3, <2>1, <2>2 DEF ClaimNext
<1>4. ASSUME NEW w \in Threads, pc[w] = "executing",
             status' = Finished(holds[w], "succeeded"),
             UNCHANGED <<intent, attempt, nextRunId>>
      PROVE  [Ledger!Next]_(Ledger!vars)
  <2>1. holds[w] \in Run
    BY <1>4 DEF HoldersOwn
  <2>2. CASE status[holds[w]] = "running"
    <3>1. Ledger!Succeed(holds[w])
      BY <1>4, <2>2 DEF Finished, Ledger!Succeed
    <3> QED
      BY <2>1, <3>1 DEF Ledger!Next, Run, Ledger!Run
  <2>3. CASE status[holds[w]] # "running"
    BY <1>4, <2>3 DEF Finished, Ledger!vars
  <2> QED
    BY <2>2, <2>3
<1>5. ASSUME NEW w \in Threads, Succeed(w)
      PROVE  [Ledger!Next]_(Ledger!vars)
  BY <1>4, <1>5 DEF Succeed
<1>6. ASSUME NEW w \in Threads, FinishLost(w)
      PROVE  [Ledger!Next]_(Ledger!vars)
  BY <1>4, <1>6 DEF FinishLost, Ledger!vars
<1>7. ASSUME NEW w \in Threads, Fail(w)
      PROVE  [Ledger!Next]_(Ledger!vars)
  <2>1. holds[w] \in Run /\ FailRow(holds[w])
    BY <1>7 DEF Fail, HoldersOwn
  <2>2. \/ Ledger!Retry(holds[w])
        \/ Ledger!GiveUp(holds[w])
        \/ UNCHANGED Ledger!vars
    BY <2>1, FailRowRefines
  <2> QED
    BY <2>1, <2>2 DEF Ledger!Next, Run, Ledger!Run
<1>8. ASSUME NEW p \in Pools, StopPool(p)
      PROVE  [Ledger!Next]_(Ledger!vars)
  <2>1. CASE InterruptRunning(p)
    <3> DEFINE S == {r \in Run : status[r] = "running" /\ worker[r] \in LabelledBy[p]}
    <3>1. status' = [r \in Run |-> IF r \in S THEN "interrupted" ELSE status[r]]
      BY <2>1 DEF InterruptRunning
    <3>2. S \in SUBSET Ledger!Run /\ Ledger!Interrupt(S)
      BY <1>8, <3>1 DEF StopPool, Ledger!Interrupt, Run, Ledger!Run
    <3> HIDE DEF S
    <3> QED
      BY <3>2 DEF Ledger!Next
  <2>2. CASE UNCHANGED status
    BY <1>8, <2>2 DEF StopPool, Ledger!vars
  <2> QED
    BY <1>8, <2>1, <2>2 DEF StopPool
<1>9. ASSUME UNCHANGED <<intent, status, attempt, nextRunId>>
      PROVE  [Ledger!Next]_(Ledger!vars)
  BY <1>9 DEF Ledger!vars
<1>10. ASSUME NEW d \in Dispatchers, NEW i \in Intents,
              CheckBacklog(d, i)
       PROVE  [Ledger!Next]_(Ledger!vars)
  BY <1>9, <1>10 DEF CheckBacklog, rows
<1>11. ASSUME NEW w \in Threads, Poll(w) \/ OnSuccess(w)
       PROVE  [Ledger!Next]_(Ledger!vars)
  BY <1>9, <1>11 DEF Poll, OnSuccess, rows
<1>12. ASSUME NEW r \in Run, BackoffElapses(r)
       PROVE  [Ledger!Next]_(Ledger!vars)
  BY <1>9, <1>12 DEF BackoffElapses
<1>13. ASSUME NEW p \in Pools, StartPool(p) \/ RequestStop(p) \/ Die(p)
       PROVE  [Ledger!Next]_(Ledger!vars)
  BY <1>9, <1>13 DEF StartPool, RequestStop, Die, rows
<1>14. CASE UNCHANGED vars
  BY <1>9, <1>14 DEF vars
<1>15. ASSUME NEW d \in Dispatchers, CheckParents(d) \/ SubmitFails(d)
       PROVE  [Ledger!Next]_(Ledger!vars)
  BY <1>9, <1>15 DEF CheckParents, SubmitFails, rows
<1> QED
  BY <1>1, <1>2, <1>3, <1>5, <1>6, <1>7, <1>8, <1>10, <1>11, <1>12, <1>13,
     <1>14, <1>15
  DEF Next, Submission, Work, Finish, Lifecycle
-----------------------------------------------------------------------------
(* What follows from the status machine alone. *)

USE DEF Run, Ledger!Run, Rows

RowsKnown == \A r \in Run : status[r] # "unused" => intent[r] \in Intents

\* A row, once inserted, is what it was inserted for, and once settled it is final.
LEMMA RowsStable ==
  ASSUME TypeOK, RowsInOrder, [Ledger!Next]_(Ledger!vars), NEW r \in Run, status[r] # "unused"
  PROVE  /\ status'[r] # "unused" /\ intent'[r] = intent[r]
         /\ status[r] \in Settled => status'[r] = status[r] /\ attempt'[r] = attempt[r]
<1>1. ASSUME NEW i \in Intents, Ledger!Create(i)
      PROVE  /\ intent'[r] = intent[r] /\ status'[r] = status[r]
             /\ attempt'[r] = attempt[r]
  <2>1. r # nextRunId
    BY DEF TypeOK, RowsInOrder
  <2> QED
    BY <1>1, <2>1 DEF TypeOK, Ledger!Create
<1>2. ASSUME NEW q \in Run, Ledger!Start(q) \/ Ledger!Succeed(q) \/ Ledger!Retry(q) \/ Ledger!GiveUp(q)
      PROVE  /\ intent'[r] = intent[r]
             /\ status'[r] # "unused"
             /\ status[r] \in Settled => status'[r] = status[r] /\ attempt'[r] = attempt[r]
  BY <1>2 DEF TypeOK, Ledger!Start, Ledger!Succeed, Ledger!Retry, Ledger!GiveUp,
     Ledger!Claimable, Settled, Terminal
<1>3. ASSUME NEW S \in SUBSET Run, Ledger!Interrupt(S)
      PROVE  /\ intent'[r] = intent[r]
             /\ status'[r] # "unused"
             /\ status[r] \in Settled => status'[r] = status[r] /\ attempt'[r] = attempt[r]
  BY <1>3 DEF TypeOK, Ledger!Interrupt, Settled, Terminal
<1>4. CASE UNCHANGED Ledger!vars
  BY <1>4 DEF Ledger!vars
<1> QED
  BY <1>1, <1>2, <1>3, <1>4 DEF Ledger!Next

\* Rows are inserted at nextRunId, and only for an intent with no live row.
LEMMA LedgerKeepsKeys ==
  ASSUME TypeOK, RowsInOrder, RowsKnown, OneLivePerKey, [Ledger!Next]_(Ledger!vars)
  PROVE  RowsInOrder' /\ RowsKnown' /\ OneLivePerKey'
<1> USE DEF RowsInOrder, RowsKnown, OneLivePerKey
<1>1. ASSUME NEW i \in Intents, Ledger!Create(i)
      PROVE  RowsInOrder' /\ RowsKnown' /\ OneLivePerKey'
  <2>1. /\ nextRunId \in Run /\ nextRunId' = nextRunId + 1
        /\ \A r \in Run : status[r] \in Live => intent[r] # i
        /\ \A r \in Run : status'[r] = IF r = nextRunId THEN "queued" ELSE status[r]
        /\ \A r \in Run : intent'[r] = IF r = nextRunId THEN i ELSE intent[r]
    BY <1>1 DEF Ledger!Create, TypeOK, Live, Ledger!Live, Claimable, Ledger!Claimable
  <2>2. RowsInOrder'
    BY <2>1
  <2>3. RowsKnown'
    BY <2>1
  <2>4. OneLivePerKey'
    BY <2>1
  <2> QED
    BY <2>2, <2>3, <2>4
<1>2. ASSUME UNCHANGED <<intent, nextRunId>>,
             \A r \in Run : status[r] = "unused" <=> status'[r] = "unused",
             \A r \in Run : status'[r] \in Live => status[r] \in Live
      PROVE  RowsInOrder' /\ RowsKnown' /\ OneLivePerKey'
  BY <1>2
<1>3. ASSUME NEW q \in Run, Ledger!Start(q) \/ Ledger!Succeed(q) \/ Ledger!Retry(q) \/ Ledger!GiveUp(q)
      PROVE  RowsInOrder' /\ RowsKnown' /\ OneLivePerKey'
  <2>1. /\ UNCHANGED <<intent, nextRunId>>
        /\ \A r \in Run : status[r] = "unused" <=> status'[r] = "unused"
        /\ \A r \in Run : status'[r] \in Live => status[r] \in Live
    BY <1>3 DEF TypeOK, Ledger!Start, Ledger!Succeed, Ledger!Retry, Ledger!GiveUp,
       Ledger!Claimable, Live, Claimable
  <2> QED
    BY <1>2, <2>1
<1>4. ASSUME NEW S \in SUBSET Run, Ledger!Interrupt(S)
      PROVE  RowsInOrder' /\ RowsKnown' /\ OneLivePerKey'
  <2>1. /\ UNCHANGED <<intent, nextRunId>>
        /\ \A r \in Run : status[r] = "unused" <=> status'[r] = "unused"
        /\ \A r \in Run : status'[r] \in Live => status[r] \in Live
    BY <1>4 DEF TypeOK, Ledger!Interrupt, Live, Claimable
  <2> QED
    BY <1>2, <2>1
<1>5. CASE UNCHANGED Ledger!vars
  BY <1>2, <1>5 DEF Ledger!vars
<1> QED
  BY <1>1, <1>3, <1>4, <1>5 DEF Ledger!Next
-----------------------------------------------------------------------------
(* Threads and the rows they execute. *)

\* A thread that finishes its run touches nobody else's: no other thread holds a
\* row that is still running under its label.
LEMMA FinishKeepsHolders ==
  ASSUME TypeOK, HoldersOwn, NEW w \in Threads, pc[w] = "executing",
         pc'[w] # "executing",
         \A v \in Threads \ {w} : pc'[v] = pc[v] /\ holds'[v] = holds[v],
         \A r \in Run : r # holds[w] \/ status[r] # "running" => status'[r] = status[r],
         worker' = worker
  PROVE  HoldersOwn'
BY DEF HoldersOwn

\* What a thread executes stays its own through every step of anyone.
LEMMA HoldersStep ==
  ASSUME TypeOK, HoldersOwn, RowsInOrder, [Next]_vars
  PROVE  HoldersOwn'
<1> USE DEF HoldersOwn
<1>1. ASSUME NEW i, CreateRun(i), UNCHANGED <<pc, holds>>
      PROVE  HoldersOwn'
  <2>1. CASE UNCHANGED rows
    BY <1>1, <2>1 DEF rows
  <2>2. CASE /\ nextRunId \in Run
             /\ status' = [status EXCEPT ![nextRunId] = "queued"]
             /\ UNCHANGED worker
    <3>1. status[nextRunId] = "unused"
      BY <2>2 DEF TypeOK, RowsInOrder
    <3>2. \A r \in Run : status[r] # "unused" => status'[r] = status[r]
      BY <2>2, <3>1 DEF TypeOK
    <3> QED
      BY <1>1, <2>2, <3>2
  <2> QED
    BY <1>1, <2>1, <2>2 DEF CreateRun
<1>2. ASSUME NEW w \in Threads, ClaimNext(w)
      PROVE  HoldersOwn'
  <2>1. CASE UNCHANGED rows /\ Release(w)
    BY <2>1 DEF rows, Release, TypeOK
  <2>2. ASSUME NEW r \in Candidates,
               status' = [status EXCEPT ![r] = "running"],
               worker' = [worker EXCEPT ![r] = w],
               pc' = [pc EXCEPT ![w] = "executing"],
               holds' = [holds EXCEPT ![w] = r]
        PROVE  HoldersOwn'
    <3>1. r \in Run /\ status[r] \in Claimable
      BY DEF Candidates
    <3> QED
      BY <2>2, <3>1 DEF TypeOK, Claimable
  <2> QED
    BY <1>2, <2>1, <2>2 DEF ClaimNext
<1>3. ASSUME NEW w \in Threads, Succeed(w) \/ FinishLost(w)
      PROVE  HoldersOwn'
  <2>1. holds[w] \in Run /\ pc[w] = "executing" /\ worker' = worker
    BY <1>3 DEF Succeed, FinishLost
  <2>2. status' \in {status, Finished(holds[w], "succeeded")}
    BY <1>3 DEF Succeed, FinishLost
  <2>3. \A r \in Run : r # holds[w] \/ status[r] # "running" => status'[r] = status[r]
    BY <2>1, <2>2 DEF TypeOK, Finished
  <2>4. pc'[w] # "executing" /\ \A v \in Threads \ {w} : pc'[v] = pc[v] /\ holds'[v] = holds[v]
    BY <1>3 DEF TypeOK, Succeed, FinishLost, Release
  <2> QED
    BY <2>1, <2>3, <2>4, FinishKeepsHolders
<1>4. ASSUME NEW w \in Threads, Fail(w)
      PROVE  HoldersOwn'
  <2>1. holds[w] \in Run /\ pc[w] = "executing" /\ worker' = worker
    BY <1>4 DEF Fail, FailRow, rows
  <2>2. status' = status \/ \E s \in Status : status' = Finished(holds[w], s)
    BY <1>4 DEF Fail, FailRow, rows, Status, Claimable, Settled, Terminal
  <2>3. \A r \in Run : r # holds[w] \/ status[r] # "running" => status'[r] = status[r]
    BY <2>1, <2>2 DEF TypeOK, Finished
  <2>4. pc'[w] # "executing" /\ \A v \in Threads \ {w} : pc'[v] = pc[v] /\ holds'[v] = holds[v]
    BY <1>4 DEF TypeOK, Fail, Release
  <2> QED
    BY <2>1, <2>3, <2>4, FinishKeepsHolders
<1>5. ASSUME NEW w \in Threads, Poll(w) \/ OnSuccess(w)
      PROVE  HoldersOwn'
  BY <1>5 DEF TypeOK, Poll, OnSuccess, Release, rows
<1>6. ASSUME NEW p \in Pools, StopPool(p)
      PROVE  HoldersOwn'
  BY <1>6 DEF TypeOK, StopPool, InterruptRunning
<1>7. ASSUME NEW p \in Pools, Die(p)
      PROVE  HoldersOwn'
  BY <1>7 DEF TypeOK, Die, rows
<1>8. ASSUME UNCHANGED <<status, worker, pc, holds>>
      PROVE  HoldersOwn'
  BY <1>8
<1>9. ASSUME NEW p \in Pools, StartPool(p) \/ RequestStop(p)
      PROVE  HoldersOwn'
  BY <1>8, <1>9 DEF StartPool, RequestStop, rows
<1>10. ASSUME NEW d \in Dispatchers, CheckParents(d) \/ SubmitFails(d)
       PROVE  HoldersOwn'
  BY <1>8, <1>10 DEF CheckParents, SubmitFails, rows
<1>11. ASSUME NEW d \in Dispatchers, NEW i \in Intents, CheckBacklog(d, i)
       PROVE  HoldersOwn'
  BY <1>8, <1>11 DEF CheckBacklog, rows
<1>12. ASSUME NEW d \in Dispatchers, SubmitRun(d)
       PROVE  HoldersOwn'
  BY <1>1, <1>12 DEF SubmitRun
<1>13. ASSUME NEW i \in Intents, ApiCreate(i)
       PROVE  HoldersOwn'
  BY <1>1, <1>13 DEF ApiCreate
<1>14. ASSUME NEW r \in Run, BackoffElapses(r)
       PROVE  HoldersOwn'
  BY <1>8, <1>14 DEF BackoffElapses
<1>15. CASE UNCHANGED vars
  BY <1>8, <1>15 DEF vars
<1> QED
  BY <1>2, <1>3, <1>4, <1>5, <1>6, <1>7, <1>9, <1>10, <1>11, <1>12, <1>13,
     <1>14, <1>15
  DEF Next, Submission, Work, Finish, Lifecycle

\* Only claim_next makes a row running, and only in a scope where none is.
LEMMA ScopeStep ==
  ASSUME TypeOK, HoldersOwn, RowsInOrder, IntentsKnown, OneRunningPerScope, [Next]_vars
  PROVE  OneRunningPerScope'
<1>1. ASSUME \A r \in Run : status'[r] = "running" => status[r] = "running"
      PROVE  OneRunningPerScope'
  <2>1. \A r \in Run : status'[r] = "running" => intent'[r] = intent[r]
    BY <1>1, LedgerStep, RowsStable
  <2> QED
    BY <1>1, <2>1 DEF OneRunningPerScope
<1>2. ASSUME NEW w \in Threads, ClaimNext(w)
      PROVE  OneRunningPerScope'
  <2>1. CASE UNCHANGED rows
    BY <1>1, <2>1 DEF rows
  <2>2. ASSUME NEW r \in Candidates,
               status' = [status EXCEPT ![r] = "running"],
               intent' = intent
        PROVE  OneRunningPerScope'
    <3>1. r \in Run /\ ScopeOf[intent[r]] \notin RunningScopes
      BY DEF Candidates
    <3>2. \A q \in Run : status'[q] = "running" => q = r \/ status[q] = "running"
      BY <2>2 DEF TypeOK
    <3>3. \A q \in Run : status[q] = "running" => ScopeOf[intent[q]] # ScopeOf[intent[r]]
      BY <3>1 DEF RunningScopes
    <3> QED
      BY <2>2, <3>1, <3>2, <3>3 DEF OneRunningPerScope
  <2> QED
    BY <1>2, <2>1, <2>2 DEF ClaimNext
<1>3. ASSUME NEW i, CreateRun(i)
      PROVE  \A r \in Run : status'[r] = "running" => status[r] = "running"
  BY <1>3 DEF TypeOK, CreateRun, rows
<1>4. ASSUME NEW w \in Threads, Succeed(w) \/ FinishLost(w)
      PROVE  \A r \in Run : status'[r] = "running" => status[r] = "running"
  <2>1. holds[w] \in Run
    BY <1>4 DEF Succeed, FinishLost, HoldersOwn
  <2> QED
    BY <1>4, <2>1 DEF TypeOK, Succeed, FinishLost, Finished
<1>5. ASSUME NEW w \in Threads, Fail(w)
      PROVE  \A r \in Run : status'[r] = "running" => status[r] = "running"
  <2>1. holds[w] \in Run
    BY <1>5 DEF Fail, HoldersOwn
  <2> QED
    BY <1>5, <2>1 DEF TypeOK, Fail, FailRow, Finished, rows
<1>6. ASSUME NEW p \in Pools, StopPool(p)
      PROVE  \A r \in Run : status'[r] = "running" => status[r] = "running"
  BY <1>6 DEF TypeOK, StopPool, InterruptRunning
<1>7. ASSUME UNCHANGED status
      PROVE  \A r \in Run : status'[r] = "running" => status[r] = "running"
  BY <1>7
<1>8. ASSUME NEW p \in Pools, StartPool(p) \/ RequestStop(p) \/ Die(p)
      PROVE  UNCHANGED status
  BY <1>8 DEF StartPool, RequestStop, Die, rows
<1>9. ASSUME NEW d \in Dispatchers, CheckParents(d) \/ SubmitFails(d)
      PROVE  UNCHANGED status
  BY <1>9 DEF CheckParents, SubmitFails, rows
<1>10. ASSUME NEW d \in Dispatchers, NEW i \in Intents, CheckBacklog(d, i)
       PROVE  UNCHANGED status
  BY <1>10 DEF CheckBacklog, rows
<1>11. ASSUME NEW w \in Threads, Poll(w) \/ OnSuccess(w)
       PROVE  UNCHANGED status
  BY <1>11 DEF Poll, OnSuccess, rows
<1>12. ASSUME NEW r \in Run, BackoffElapses(r)
       PROVE  UNCHANGED status
  BY <1>12 DEF BackoffElapses
<1>13. CASE UNCHANGED vars
  BY <1>1, <1>13 DEF vars
<1>14. ASSUME NEW d \in Dispatchers, SubmitRun(d)
       PROVE  \A r \in Run : status'[r] = "running" => status[r] = "running"
  BY <1>3, <1>14 DEF SubmitRun
<1> QED
  BY <1>1, <1>2, <1>3, <1>4, <1>5, <1>6, <1>7, <1>8, <1>9, <1>10, <1>11,
     <1>12, <1>13, <1>14
  DEF Next, Submission, ApiCreate, Work, Finish, Lifecycle
-----------------------------------------------------------------------------
(* The dependency gate. *)

\* A parent's success is final, so what the gate has let through stays let through.
LEMMA ParentsStaySucceeded ==
  ASSUME TypeOK, HoldersOwn, RowsInOrder, IntentsKnown, [Next]_vars,
         NEW i, ParentsSucceeded(i)
  PROVE  ParentsSucceeded(i)'
<1>1. \A q \in Run : status[q] = "succeeded" => status'[q] = "succeeded" /\ intent'[q] = intent[q]
  BY LedgerStep, RowsStable DEF Settled, Terminal
<1> QED
  BY <1>1 DEF ParentsSucceeded

\* parents_ready answers yes only if every on_success parent has succeeded.
LEMMA ReadyMeansSucceeded ==
  ASSUME NEW i, ParentsReady(i)
  PROVE  ParentsSucceeded(i)
<1>1. ASSUME NEW dep \in Dependencies[i], dep.condition = "on_success"
      PROVE  \E q \in Rows({"succeeded"}) : intent[q] \in dep.matches
  <2>1. Released(dep)
    BY DEF ParentsReady
  <2> QED
    BY <1>1, <2>1 DEF Released
<1> QED
  BY <1>1 DEF ParentsSucceeded

\* A Dispatcher that goes on to create has an open gate behind it.
LEMMA GateStep ==
  ASSUME TypeOK, HoldersOwn, RowsInOrder, IntentsKnown, GateHeld, [Next]_vars
  PROVE  GateHeld' /\ (\A d \in Dispatchers : submit'[d].step # "free" => submit'[d].intent \in Intents)
<1> DEFINE Sound == GateHeld' /\ (\A d \in Dispatchers : submit'[d].step # "free" => submit'[d].intent \in Intents)
<1>1. ASSUME \A d \in Dispatchers : submit'[d].step # "free" =>
               /\ submit'[d].intent = submit[d].intent
               /\ submit[d].step # "free"
               /\ submit'[d].step = "create" =>
                    submit[d].step = "create" \/ ParentsReady(submit[d].intent)
      PROVE  Sound
  <2>1. \A d \in Dispatchers : submit'[d].step # "free" => submit'[d].intent \in Intents
    BY <1>1 DEF IntentsKnown
  <2>2. ASSUME NEW d \in Dispatchers, submit'[d].step = "create"
        PROVE  ParentsSucceeded(submit[d].intent)
    BY <1>1, <2>2, ReadyMeansSucceeded DEF GateHeld
  <2>3. ASSUME NEW d \in Dispatchers, NEW i \in Intents,
               submit'[d].step = "create", i = submit'[d].intent
        PROVE  ParentsSucceeded(i)'
    <3>1. ParentsSucceeded(i)
      BY <1>1, <2>2, <2>3
    <3> QED
      BY <3>1, ParentsStaySucceeded
  <2>4. ASSUME NEW d \in Dispatchers, submit'[d].step = "create"
        PROVE  ParentsSucceeded(submit[d].intent)'
    <3>1. submit'[d].intent \in Intents
      BY <2>1, <2>4
    <3> QED
      BY <2>3, <2>4, <3>1 DEF ParentsSucceeded
  <2> QED
    BY <2>1, <2>4 DEF GateHeld
<1>2. ASSUME NEW d \in Dispatchers, NEW i \in Intents, CheckBacklog(d, i)
      PROVE  Sound
  <2>1. /\ submit'[d] = [step |-> "gate", intent |-> i]
        /\ \A e \in Dispatchers \ {d} : submit'[e] = submit[e]
        /\ UNCHANGED <<intent, status>>
    BY <1>2 DEF TypeOK, CheckBacklog, rows
  <2>2. \A e \in Dispatchers : submit'[e].step = "create" => submit[e].step = "create" /\ submit'[e] = submit[e]
    BY <2>1
  <2> QED
    BY <2>1, <2>2 DEF GateHeld, IntentsKnown, ParentsSucceeded
<1>3. ASSUME NEW d \in Dispatchers, CheckParents(d)
      PROVE  Sound
  <2>1. \A e \in Dispatchers \ {d} : submit'[e] = submit[e]
    BY <1>3 DEF TypeOK, CheckParents
  <2>2. CASE ParentsReady(submit[d].intent)
    <3>1. submit'[d].intent = submit[d].intent /\ submit[d].step = "gate"
      BY <1>3, <2>2 DEF TypeOK, CheckParents
    <3> QED
      BY <1>1, <2>1, <2>2, <3>1
  <2>3. CASE ~ParentsReady(submit[d].intent)
    <3>1. submit'[d].step = "free"
      BY <1>3, <2>3 DEF TypeOK, CheckParents
    <3> QED
      BY <1>1, <2>1, <3>1
  <2> QED
    BY <2>2, <2>3
<1>4. ASSUME NEW d \in Dispatchers, SubmitRun(d) \/ SubmitFails(d)
      PROVE  Sound
  <2>1. submit'[d].step = "free" /\ \A e \in Dispatchers \ {d} : submit'[e] = submit[e]
    BY <1>4 DEF TypeOK, SubmitRun, SubmitFails
  <2> QED
    BY <1>1, <2>1
<1>5. ASSUME UNCHANGED submit
      PROVE  Sound
  BY <1>1, <1>5
<1> QED
  BY <1>2, <1>3, <1>4, <1>5
  DEF Next, Submission, ApiCreate, Work, Finish, Lifecycle, Poll, ClaimNext, Succeed,
      OnSuccess, Fail, FinishLost, BackoffElapses, StartPool, RequestStop, StopPool, Die, vars

\* Rows are created for intents the gate let through, or by the API.
LEMMA DependentsStep ==
  ASSUME TypeOK, HoldersOwn, RowsInOrder, IntentsKnown, GateHeld, DependentsWait, [Next]_vars
  PROVE  DependentsWait'
<1>1. ASSUME \A r \in Run : status'[r] # "unused" => status[r] # "unused"
      PROVE  DependentsWait'
  <2>1. ASSUME NEW r \in Run, status'[r] # "unused", intent'[r] \notin ApiIntents
        PROVE  ParentsSucceeded(intent[r]) /\ intent'[r] = intent[r]
    BY <1>1, <2>1, LedgerStep, RowsStable DEF DependentsWait
  <2>2. ASSUME NEW r \in Run, status'[r] # "unused", intent'[r] \notin ApiIntents,
               NEW i, i = intent[r]
        PROVE  ParentsSucceeded(i)'
    BY <2>1, <2>2, ParentsStaySucceeded
  <2> QED
    BY <2>1, <2>2 DEF DependentsWait, ParentsSucceeded
<1>2. ASSUME NEW j \in Intents, CreateRun(j), j \in ApiIntents \/ ParentsSucceeded(j)
      PROVE  DependentsWait'
  <2>1. CASE UNCHANGED rows
    BY <1>1, <2>1 DEF rows
  <2>2. CASE /\ nextRunId \in Run
             /\ intent' = [intent EXCEPT ![nextRunId] = j]
             /\ status' = [status EXCEPT ![nextRunId] = "queued"]
    <3>1. \A r \in Run : IF r = nextRunId THEN intent'[r] = j
                         ELSE status'[r] = status[r] /\ intent'[r] = intent[r]
      BY <2>2 DEF TypeOK
    <3>2. ASSUME NEW r \in Run, status'[r] # "unused", intent'[r] \notin ApiIntents
          PROVE  ParentsSucceeded(intent'[r])
      BY <1>2, <3>1, <3>2 DEF DependentsWait
    <3>3. ASSUME NEW r \in Run, status'[r] # "unused", intent'[r] \notin ApiIntents,
                 NEW i, i = intent'[r]
          PROVE  ParentsSucceeded(i)'
      BY <3>2, <3>3, ParentsStaySucceeded
    <3> QED
      BY <3>3 DEF DependentsWait, ParentsSucceeded
  <2> QED
    BY <1>2, <2>1, <2>2 DEF CreateRun
<1>3. ASSUME NEW d \in Dispatchers, SubmitRun(d)
      PROVE  DependentsWait'
  <2>1. submit[d].intent \in Intents /\ ParentsSucceeded(submit[d].intent)
    BY <1>3 DEF SubmitRun, IntentsKnown, GateHeld
  <2>2. CreateRun(submit[d].intent)
    BY <1>3 DEF SubmitRun
  <2> QED
    BY <1>2, <2>1, <2>2
<1>4. ASSUME NEW i \in Intents, ApiCreate(i)
      PROVE  DependentsWait'
  BY <1>2, <1>4 DEF ApiCreate
<1>5. CASE ~(\E d \in Dispatchers : SubmitRun(d)) /\ ~(\E i \in Intents : ApiCreate(i))
  <2>1. nextRunId' = nextRunId
    BY <1>5 DEF Next, Submission, Work, Finish, Lifecycle, CheckBacklog, CheckParents,
       SubmitFails, Poll, ClaimNext, Succeed, OnSuccess, Fail, FailRow, FinishLost,
       BackoffElapses, StartPool, RequestStop, StopPool, Die, rows, vars
  <2>2. RowsInOrder'
    <3>1. \A r \in Run : status[r] # "unused" => status'[r] # "unused"
      BY LedgerStep, RowsStable
    <3>2. [Ledger!Next]_(Ledger!vars)
      BY LedgerStep
    <3>3. \A r \in Run : status[r] = "unused" => status'[r] = "unused"
      BY <2>1, <3>2 DEF TypeOK, Ledger!Next, Ledger!Create, Ledger!Start, Ledger!Succeed,
         Ledger!Retry, Ledger!GiveUp, Ledger!Interrupt, Ledger!Claimable, Ledger!vars
    <3> QED
      BY <2>1, <3>1, <3>3 DEF RowsInOrder
  <2> QED
    BY <1>1, <2>1, <2>2 DEF RowsInOrder
<1> QED
  BY <1>3, <1>4, <1>5
-----------------------------------------------------------------------------
(* How far the backlog grows. *)

LEMMA OneMore ==
  ASSUME NEW S, IsFiniteSet(S), NEW x, NEW T, T \subseteq S \cup {x}
  PROVE  IsFiniteSet(T) /\ Cardinality(T) \in Nat /\ Cardinality(T) <= Cardinality(S) + 1
<1>1. IsFiniteSet(S \cup {x}) /\ Cardinality(S \cup {x}) \in {Cardinality(S), Cardinality(S) + 1}
  BY FS_AddElement
<1>2. IsFiniteSet(T) /\ Cardinality(T) <= Cardinality(S \cup {x})
  BY <1>1, FS_Subset
<1>3. Cardinality(S) \in Nat /\ Cardinality(T) \in Nat
  BY <1>2, FS_CardinalityType
<1> QED
  BY <1>1, <1>2, <1>3

LEMMA OneLess ==
  ASSUME NEW S, IsFiniteSet(S), NEW x \in S, NEW T, T \subseteq S \ {x}
  PROVE  IsFiniteSet(T) /\ Cardinality(T) \in Nat /\ Cardinality(T) <= Cardinality(S) - 1
<1>1. IsFiniteSet(S \ {x}) /\ Cardinality(S \ {x}) = Cardinality(S) - 1
  BY FS_RemoveElement
<1>2. IsFiniteSet(T) /\ Cardinality(T) <= Cardinality(S \ {x})
  BY <1>1, FS_Subset
<1>3. Cardinality(T) \in Nat
  BY <1>2, FS_CardinalityType
<1> QED
  BY <1>1, <1>2, <1>3

LEMMA NoMore ==
  ASSUME NEW S, IsFiniteSet(S), NEW T, T \subseteq S
  PROVE  IsFiniteSet(T) /\ Cardinality(T) \in Nat /\ Cardinality(T) <= Cardinality(S)
BY FS_Subset, FS_CardinalityType

\* The rows, Dispatchers and threads that BacklogAccounted counts are finitely many.
LEMMA CountsTyped ==
  /\ IsFiniteSet(Backlog) /\ Cardinality(Backlog) \in Nat
  /\ IsFiniteSet(Rows(Claimable)) /\ Cardinality(Backlog) <= Cardinality(Rows(Claimable))
  /\ IsFiniteSet(Passed) /\ Cardinality(Passed) \in Nat
  /\ IsFiniteSet(Retriable) /\ Cardinality(Retriable) \in Nat
  /\ Cardinality(Retriable) <= Cardinality(Threads)
  /\ Cardinality(Dispatchers) \in Nat /\ Cardinality(Threads) \in Nat
<1>1. IsFiniteSet(1..MaxRuns)
  BY FS_Interval
<1>2. IsFiniteSet(Rows(Claimable)) /\ Backlog \subseteq Rows(Claimable)
  BY <1>1, NoMore DEF Backlog
<1>3. IsFiniteSet(Dispatchers) /\ Passed \subseteq Dispatchers
  BY PoolsAssumption DEF PoolsAssumption, Passed
<1>4. IsFiniteSet(Threads) /\ Retriable \subseteq Threads
  BY PoolsAssumption DEF PoolsAssumption, Retriable
<1> QED
  BY <1>2, <1>3, <1>4, NoMore, FS_CardinalityType

\* Nobody can add to the backlog who could not before; or a Dispatcher past its check
\* adds a row and is done; or a thread takes a row out of the backlog, and may put it
\* back; or it puts it back, and lets go of it.
LEMMA BacklogKept ==
  ASSUME BacklogAccounted,
         NEW b, b \subseteq Run, NEW p, p \subseteq Dispatchers, NEW x, x \subseteq Threads,
         \/ b \subseteq Backlog /\ p \subseteq Passed /\ x \subseteq Retriable
         \/ \E d \in Passed, n \in Run :
              b \subseteq Backlog \cup {n} /\ p \subseteq Passed \ {d} /\ x \subseteq Retriable
         \/ \E w \in Threads, r \in Backlog :
              b \subseteq Backlog \ {r} /\ p \subseteq Passed /\ x \subseteq Retriable \cup {w}
         \/ \E w \in Retriable, r \in Run :
              b \subseteq Backlog \cup {r} /\ p \subseteq Passed /\ x \subseteq Retriable \ {w}
  PROVE  MaxQueued > 0 =>
           Cardinality(b) + Cardinality(p) + Cardinality(x)
             <= MaxQueued - 1 + Cardinality(Dispatchers) + Cardinality(Threads)
<1> DEFINE Bounded == MaxQueued > 0 =>
             Cardinality(b) + Cardinality(p) + Cardinality(x)
               <= MaxQueued - 1 + Cardinality(Dispatchers) + Cardinality(Threads)
<1>1. /\ Cardinality(Backlog) \in Nat /\ Cardinality(Passed) \in Nat /\ Cardinality(Retriable) \in Nat
      /\ Cardinality(Dispatchers) \in Nat /\ Cardinality(Threads) \in Nat
      /\ MaxQueued > 0 =>
           Cardinality(Backlog) + Cardinality(Passed) + Cardinality(Retriable)
             <= MaxQueued - 1 + Cardinality(Dispatchers) + Cardinality(Threads)
  BY CountsTyped DEF BacklogAccounted
<1> HIDE DEF Bounded
<1>2. CASE b \subseteq Backlog /\ p \subseteq Passed /\ x \subseteq Retriable
  <2>1. /\ Cardinality(b) \in Nat /\ Cardinality(b) <= Cardinality(Backlog)
        /\ Cardinality(p) \in Nat /\ Cardinality(p) <= Cardinality(Passed)
        /\ Cardinality(x) \in Nat /\ Cardinality(x) <= Cardinality(Retriable)
    BY <1>2, NoMore, CountsTyped
  <2> QED
    BY <1>1, <2>1 DEF Bounded
<1>3. ASSUME NEW d \in Passed, NEW n \in Run,
             b \subseteq Backlog \cup {n}, p \subseteq Passed \ {d}, x \subseteq Retriable
      PROVE  Bounded
  <2>1. Cardinality(b) \in Nat /\ Cardinality(b) <= Cardinality(Backlog) + 1
    BY <1>3, OneMore, CountsTyped
  <2>2. Cardinality(p) \in Nat /\ Cardinality(p) <= Cardinality(Passed) - 1
    BY <1>3, OneLess, CountsTyped
  <2>3. Cardinality(x) \in Nat /\ Cardinality(x) <= Cardinality(Retriable)
    BY <1>3, NoMore, CountsTyped
  <2> QED
    BY <1>1, <2>1, <2>2, <2>3 DEF Bounded
<1>4. ASSUME NEW w \in Threads, NEW r \in Backlog,
             b \subseteq Backlog \ {r}, p \subseteq Passed, x \subseteq Retriable \cup {w}
      PROVE  Bounded
  <2>1. Cardinality(b) \in Nat /\ Cardinality(b) <= Cardinality(Backlog) - 1
    BY <1>4, OneLess, CountsTyped
  <2>2. Cardinality(p) \in Nat /\ Cardinality(p) <= Cardinality(Passed)
    BY <1>4, NoMore, CountsTyped
  <2>3. Cardinality(x) \in Nat /\ Cardinality(x) <= Cardinality(Retriable) + 1
    BY <1>4, OneMore, CountsTyped
  <2> QED
    BY <1>1, <2>1, <2>2, <2>3 DEF Bounded
<1>5. ASSUME NEW w \in Retriable, NEW r \in Run,
             b \subseteq Backlog \cup {r}, p \subseteq Passed, x \subseteq Retriable \ {w}
      PROVE  Bounded
  <2>1. Cardinality(b) \in Nat /\ Cardinality(b) <= Cardinality(Backlog) + 1
    BY <1>5, OneMore, CountsTyped
  <2>2. Cardinality(p) \in Nat /\ Cardinality(p) <= Cardinality(Passed)
    BY <1>5, NoMore, CountsTyped
  <2>3. Cardinality(x) \in Nat /\ Cardinality(x) <= Cardinality(Retriable) - 1
    BY <1>5, OneLess, CountsTyped
  <2> QED
    BY <1>1, <2>1, <2>2, <2>3 DEF Bounded
<1> QED
  BY <1>2, <1>3, <1>4, <1>5 DEF Bounded

\* A Dispatcher that checks does so below the limit.
LEMMA BacklogChecked ==
  ASSUME Cardinality(Rows(Claimable)) < MaxQueued, NEW p, p \subseteq Dispatchers
  PROVE  Cardinality(Backlog) + Cardinality(p) + Cardinality(Retriable)
           <= MaxQueued - 1 + Cardinality(Dispatchers) + Cardinality(Threads)
<1>1. Cardinality(p) <= Cardinality(Dispatchers) /\ Cardinality(p) \in Nat
  BY NoMore, PoolsAssumption DEF PoolsAssumption
<1>2. Cardinality(Rows(Claimable)) \in Nat
  BY CountsTyped, FS_CardinalityType
<1> QED
  BY <1>1, <1>2, CountsTyped

LEMMA BacklogTraded ==
  ASSUME BacklogAccounted,
         \/ Backlog' \subseteq Backlog /\ Passed' \subseteq Passed /\ Retriable' \subseteq Retriable
         \/ \E d \in Passed, n \in Run :
              /\ Backlog' \subseteq Backlog \cup {n} /\ Passed' \subseteq Passed \ {d}
              /\ Retriable' \subseteq Retriable
         \/ \E w \in Threads, r \in Backlog :
              /\ Backlog' \subseteq Backlog \ {r} /\ Passed' \subseteq Passed
              /\ Retriable' \subseteq Retriable \cup {w}
         \/ \E w \in Retriable, r \in Run :
              /\ Backlog' \subseteq Backlog \cup {r} /\ Passed' \subseteq Passed
              /\ Retriable' \subseteq Retriable \ {w}
  PROVE  BacklogAccounted'
<1> DEFINE b == Backlog'
           p == Passed'
           x == Retriable'
<1>1. b \subseteq Run /\ p \subseteq Dispatchers /\ x \subseteq Threads
  BY DEF Backlog, Passed, Retriable
<1>2. \/ b \subseteq Backlog /\ p \subseteq Passed /\ x \subseteq Retriable
      \/ \E d \in Passed, n \in Run :
           b \subseteq Backlog \cup {n} /\ p \subseteq Passed \ {d} /\ x \subseteq Retriable
      \/ \E w \in Threads, r \in Backlog :
           b \subseteq Backlog \ {r} /\ p \subseteq Passed /\ x \subseteq Retriable \cup {w}
      \/ \E w \in Retriable, r \in Run :
           b \subseteq Backlog \cup {r} /\ p \subseteq Passed /\ x \subseteq Retriable \ {w}
  OBVIOUS
<1> HIDE DEF b, p, x
<1>3. MaxQueued > 0 =>
        Cardinality(b) + Cardinality(p) + Cardinality(x)
          <= MaxQueued - 1 + Cardinality(Dispatchers) + Cardinality(Threads)
  BY <1>1, <1>2, BacklogKept
<1> QED
  BY <1>3 DEF BacklogAccounted, b, p, x

\* What is in the sets, before a step and after it.
LEMMA BacklogMembers ==
  /\ \A r \in Run : r \in Backlog <=> status[r] \in Claimable /\ intent[r] \notin ApiIntents
  /\ \A r \in Run : r \in Backlog' <=> status'[r] \in Claimable /\ intent'[r] \notin ApiIntents
  /\ Backlog \subseteq Run /\ Backlog' \subseteq Run
  /\ \A w \in Threads : w \in Retriable <=>
       pc[w] = "executing" /\ status[holds[w]] = "running" /\ intent[holds[w]] \notin ApiIntents
  /\ \A w \in Threads : w \in Retriable' <=>
       pc'[w] = "executing" /\ status'[holds'[w]] = "running" /\ intent'[holds'[w]] \notin ApiIntents
  /\ Retriable \subseteq Threads /\ Retriable' \subseteq Threads
  /\ submit' = submit => Passed' = Passed
BY DEF Backlog, Retriable, Passed

LEMMA HeldRows ==
  ASSUME HoldersOwn, NEW w \in Threads, pc[w] = "executing"
  PROVE  /\ holds[w] \in Run /\ status[holds[w]] \in {"running", "interrupted"}
         /\ status[holds[w]] = "running" => worker[holds[w]] = w
BY DEF HoldersOwn

\* A step in which waiting rows only go, and threads only let go of rows.
LEMMA BacklogLeft ==
  ASSUME BacklogAccounted, HoldersOwn, Passed' \subseteq Passed,
         \A r \in Run : status'[r] \in Claimable => status[r] = status'[r] /\ intent'[r] = intent[r],
         \A w \in Threads : pc'[w] = "executing" =>
           /\ pc[w] = "executing" /\ holds'[w] = holds[w]
           /\ status'[holds[w]] = "running" => status[holds[w]] = "running"
           /\ intent'[holds[w]] = intent[holds[w]]
  PROVE  BacklogAccounted'
<1>1. Backlog' \subseteq Backlog
  BY BacklogMembers
<1>2. Retriable' \subseteq Retriable
  BY BacklogMembers, HeldRows
<1> QED
  BY <1>1, <1>2, BacklogTraded

\* A thread claims row r, whether it learns of it or not.
LEMMA BacklogClaim ==
  ASSUME BacklogAccounted, TypeOK, HoldersOwn, NEW w \in Threads, NEW r \in Run, status[r] \in Claimable,
         status' = [status EXCEPT ![r] = "running"], UNCHANGED <<intent, submit>>,
         \/ pc' = [pc EXCEPT ![w] = "executing"] /\ holds' = [holds EXCEPT ![w] = r]
         \/ Release(w)
  PROVE  BacklogAccounted'
<1>1. Passed' = Passed
  BY BacklogMembers
<1>2. /\ status'[r] = "running" /\ \A q \in Run \ {r} : status'[q] = status[q]
      /\ \A v \in Threads \ {w} : pc'[v] = pc[v] /\ holds'[v] = holds[v]
      /\ pc'[w] = "executing" => holds'[w] = r
  BY DEF TypeOK, Release
<1>3. Backlog' \subseteq Backlog \ {r}
  BY <1>2, BacklogMembers DEF Claimable
<1>4. \A v \in Threads \ {w} : pc[v] = "executing" => holds[v] # r
  BY HeldRows DEF Claimable
<1>5. \A v \in Threads \ {w} : v \in Retriable' => v \in Retriable
  BY <1>2, <1>4, BacklogMembers, HeldRows
<1>6. CASE r \in Backlog
  BY <1>1, <1>3, <1>5, <1>6, BacklogMembers, BacklogTraded
<1>7. CASE r \notin Backlog
  <2>1. w \notin Retriable'
    BY <1>2, <1>7, BacklogMembers
  <2> QED
    BY <1>1, <1>3, <1>5, <2>1, BacklogMembers, BacklogTraded
<1> QED
  BY <1>6, <1>7

\* Who may add to the backlog, through every step of anyone.
LEMMA BacklogStep ==
  ASSUME TypeOK, RowsInOrder, IntentsKnown, HoldersOwn, BacklogAccounted, [Next]_vars
  PROVE  BacklogAccounted'
<1>g. ASSUME Passed' \subseteq Passed, UNCHANGED <<intent, status, pc, holds>>
      PROVE  BacklogAccounted'
  BY <1>g, BacklogLeft
\* A row created.
<1>h. ASSUME NEW i \in Intents, CreateRun(i), UNCHANGED <<pc, holds>>
      PROVE  /\ Retriable' \subseteq Retriable
             /\ \/ Backlog' \subseteq Backlog
                \/ i \notin ApiIntents /\ \E n \in Run : Backlog' \subseteq Backlog \cup {n}
  <2>1. CASE UNCHANGED rows
    BY <1>h, <2>1, BacklogMembers DEF rows
  <2>2. CASE ~HasLiveRow(i)
    <3>1. /\ nextRunId \in Run
          /\ \A r \in Run \ {nextRunId} : status'[r] = status[r] /\ intent'[r] = intent[r]
          /\ intent'[nextRunId] = i
      BY <1>h, <2>2 DEF CreateRun, TypeOK
    <3>2. status[nextRunId] = "unused"
      BY <3>1 DEF RowsInOrder
    <3>3. \A w \in Threads : pc[w] = "executing" => holds[w] # nextRunId
      BY <3>2, HeldRows
    <3>4. Retriable' \subseteq Retriable
      BY <1>h, <3>1, <3>3, BacklogMembers, HeldRows
    <3>5. Backlog' \subseteq Backlog \cup {nextRunId} /\ (i \in ApiIntents => Backlog' \subseteq Backlog)
      BY <3>1, BacklogMembers
    <3> QED
      BY <3>1, <3>4, <3>5
  <2> QED
    BY <1>h, <2>1, <2>2 DEF CreateRun
<1>1. ASSUME NEW d \in Dispatchers, NEW i \in Intents, CheckBacklog(d, i)
      PROVE  BacklogAccounted'
  <2>1. Backlog' = Backlog /\ Retriable' = Retriable
    BY <1>1 DEF CheckBacklog, rows, Backlog, Retriable
  <2> DEFINE p == Passed'
  <2>2. p \subseteq Dispatchers /\ Cardinality(Rows(Claimable)) < MaxQueued
    BY <1>1 DEF CheckBacklog, Passed
  <2> HIDE DEF p
  <2>3. Cardinality(Backlog) + Cardinality(p) + Cardinality(Retriable)
          <= MaxQueued - 1 + Cardinality(Dispatchers) + Cardinality(Threads)
    BY <2>2, BacklogChecked
  <2> QED
    BY <2>1, <2>3 DEF BacklogAccounted, p
<1>2. ASSUME NEW d \in Dispatchers, CheckParents(d) \/ SubmitFails(d)
      PROVE  BacklogAccounted'
  <2>1. \A c \in Dispatchers : c # d => submit'[c] = submit[c]
    BY <1>2 DEF CheckParents, SubmitFails, TypeOK
  <2>2. submit[d].step # "free" /\ (submit'[d].step # "free" => submit'[d].intent = submit[d].intent)
    BY <1>2 DEF CheckParents, SubmitFails, TypeOK
  <2>3. Passed' \subseteq Passed
    BY <2>1, <2>2 DEF Passed
  <2> QED
    BY <1>2, <1>g, <2>3 DEF CheckParents, SubmitFails, rows
<1>3. ASSUME NEW d \in Dispatchers, SubmitRun(d)
      PROVE  BacklogAccounted'
  <2> DEFINE i == submit[d].intent
  <2>1. i \in Intents /\ (i \notin ApiIntents => d \in Passed)
    BY <1>3 DEF SubmitRun, Passed, IntentsKnown
  <2>2. Passed' \subseteq Passed \ {d}
    BY <1>3 DEF SubmitRun, Passed, TypeOK
  <2>3. /\ Retriable' \subseteq Retriable
        /\ \/ Backlog' \subseteq Backlog
           \/ i \notin ApiIntents /\ \E n \in Run : Backlog' \subseteq Backlog \cup {n}
    BY <1>3, <1>h, <2>1 DEF SubmitRun
  <2> QED
    BY <2>1, <2>2, <2>3, BacklogTraded
<1>4. ASSUME NEW i \in Intents, ApiCreate(i)
      PROVE  BacklogAccounted'
  <2>1. Retriable' \subseteq Retriable /\ Backlog' \subseteq Backlog /\ Passed' = Passed
    BY <1>4, <1>h, BacklogMembers DEF ApiCreate
  <2> QED
    BY <2>1, BacklogTraded
<1>5. ASSUME NEW w \in Threads, ClaimNext(w)
      PROVE  BacklogAccounted'
  <2>1. CASE Release(w) /\ UNCHANGED rows
    <3>1. \A v \in Threads : pc'[v] = "executing" => pc[v] = "executing" /\ holds'[v] = holds[v]
      BY <2>1 DEF Release, TypeOK
    <3> QED
      BY <1>5, <2>1, <3>1, BacklogLeft, BacklogMembers DEF ClaimNext, rows
  <2>2. CASE \E r \in Candidates :
               /\ status' = [status EXCEPT ![r] = "running"]
               /\ pc' = [pc EXCEPT ![w] = "executing"] /\ holds' = [holds EXCEPT ![w] = r]
               /\ UNCHANGED intent
    BY <1>5, <2>2, BacklogClaim DEF Candidates, ClaimNext
  <2> QED
    BY <1>5, <2>1, <2>2 DEF ClaimNext
<1>6. ASSUME NEW w \in Threads, Fail(w)
      PROVE  BacklogAccounted'
  <2>1. /\ \A v \in Threads \ {w} : pc'[v] = pc[v] /\ holds'[v] = holds[v]
        /\ pc'[w] = "idle" /\ pc[w] = "executing" /\ Passed' = Passed
    BY <1>6, BacklogMembers DEF Fail, Release, TypeOK
  <2>2. CASE status[holds[w]] # "running"
    BY <1>6, <2>1, <2>2, BacklogLeft DEF Fail, FailRow, rows
  <2>3. CASE status[holds[w]] = "running"
    <3> DEFINE r == holds[w]
    <3>1. /\ r \in Run /\ intent' = intent /\ status'[r] \in {"retrying", "dead"}
          /\ \A q \in Run \ {r} : status'[q] = status[q]
      BY <1>6, <2>1, <2>3, HeldRows DEF Fail, FailRow, Finished, rows, TypeOK
    <3>2. Backlog' \subseteq Backlog \cup {r}
      BY <3>1, BacklogMembers
    <3>3. \A v \in Threads : v \in Retriable' => v \in Retriable /\ v # w
      BY <2>1, <3>1, BacklogMembers, HeldRows
    <3>4. CASE intent[r] \in ApiIntents
      <4>1. Backlog' \subseteq Backlog
        BY <3>1, <3>4, BacklogMembers
      <4> QED
        BY <2>1, <3>3, <4>1, BacklogMembers, BacklogTraded
    <3>5. CASE intent[r] \notin ApiIntents
      <4>1. w \in Retriable
        BY <2>1, <2>3, <3>5, BacklogMembers
      <4> QED
        BY <2>1, <3>1, <3>2, <3>3, <4>1, BacklogMembers, BacklogTraded
    <3> QED
      BY <3>4, <3>5
  <2> QED
    BY <2>2, <2>3
<1>7. ASSUME NEW w \in Threads, Succeed(w) \/ FinishLost(w)
      PROVE  BacklogAccounted'
  <2>1. \A v \in Threads : pc'[v] = "executing" => pc[v] = "executing" /\ holds'[v] = holds[v]
    BY <1>7 DEF Succeed, FinishLost, Release, TypeOK
  <2>2. pc[w] = "executing" /\ holds[w] \in Run /\ intent' = intent /\ Passed' = Passed
    BY <1>7, BacklogMembers, HeldRows DEF Succeed, FinishLost
  <2>3. \A r \in Run : status'[r] = status[r] \/ status'[r] = "succeeded"
    BY <1>7, <2>2 DEF Succeed, FinishLost, Finished, TypeOK
  <2> QED
    BY <2>1, <2>2, <2>3, BacklogLeft, HeldRows DEF Claimable
<1>8. ASSUME NEW w \in Threads, Poll(w) \/ OnSuccess(w)
      PROVE  BacklogAccounted'
  <2>1. \A v \in Threads : pc'[v] = "executing" => pc[v] = "executing" /\ holds'[v] = holds[v]
    BY <1>8 DEF Poll, OnSuccess, Release, TypeOK
  <2>2. UNCHANGED <<intent, status, submit>>
    BY <1>8 DEF Poll, OnSuccess, rows
  <2> QED
    BY <2>1, <2>2, BacklogLeft, BacklogMembers
<1>9. ASSUME NEW r \in Run, BackoffElapses(r)
      PROVE  BacklogAccounted'
  BY <1>9, <1>g, BacklogMembers DEF BackoffElapses
<1>10. ASSUME NEW p \in Pools, StartPool(p) \/ RequestStop(p)
       PROVE  BacklogAccounted'
  BY <1>10, <1>g, BacklogMembers DEF StartPool, RequestStop, rows
<1>11. ASSUME NEW p \in Pools, StopPool(p)
       PROVE  BacklogAccounted'
  <2>1. \A r \in Run : status'[r] = status[r] \/ status'[r] = "interrupted"
    BY <1>11 DEF StopPool, InterruptRunning
  <2>2. UNCHANGED <<intent, pc, holds, submit>>
    BY <1>11 DEF StopPool
  <2> QED
    BY <2>1, <2>2, BacklogLeft, BacklogMembers, HeldRows DEF Claimable
<1>12. ASSUME NEW p \in Pools, Die(p)
       PROVE  BacklogAccounted'
  <2>1. \A v \in Threads : pc'[v] = "executing" => pc[v] = "executing" /\ holds'[v] = holds[v]
    BY <1>12 DEF Die
  <2>2. UNCHANGED <<intent, status, submit>>
    BY <1>12 DEF Die, rows
  <2> QED
    BY <2>1, <2>2, BacklogLeft, BacklogMembers
<1>13. ASSUME UNCHANGED vars
       PROVE  BacklogAccounted'
  BY <1>13, <1>g, BacklogMembers DEF vars
<1> QED
  BY <1>1, <1>2, <1>3, <1>4, <1>5, <1>6, <1>7, <1>8, <1>9, <1>10, <1>11, <1>12, <1>13
  DEF Next, Submission, Work, Finish, Lifecycle
LEMMA BacklogInit == Init => BacklogAccounted
<1> SUFFICES ASSUME Init
             PROVE  BacklogAccounted
  OBVIOUS
<1>1. Backlog = {} /\ Passed = {} /\ Retriable = {}
  BY DEF Init, Backlog, Passed, Retriable, Claimable
<1>2. Cardinality(Backlog) = 0 /\ Cardinality(Passed) = 0 /\ Cardinality(Retriable) = 0
  BY <1>1, FS_EmptySet
<1> QED
  BY <1>2, CountsTyped DEF BacklogAccounted
-----------------------------------------------------------------------------
(* The theorems *)

\* The strengthened invariant is inductive.
LEMMA InductiveStep == IInv /\ [Next]_vars => IInv'
<1> SUFFICES ASSUME IInv, [Next]_vars
             PROVE  IInv'
  OBVIOUS
<1>1. TypeOK'
  BY TypeStep DEF IInv
<1>2. RowsInOrder' /\ RowsKnown' /\ OneLivePerKey'
  BY LedgerStep, LedgerKeepsKeys DEF IInv, IntentsKnown, RowsKnown
<1>3. HoldersOwn'
  BY HoldersStep DEF IInv
<1>4. OneRunningPerScope'
  BY ScopeStep DEF IInv
<1>5. GateHeld' /\ IntentsKnown'
  BY <1>2, GateStep DEF IInv, IntentsKnown, RowsKnown
<1>6. DependentsWait'
  BY DependentsStep DEF IInv
<1> QED
  BY <1>1, <1>2, <1>3, <1>4, <1>5, <1>6 DEF IInv

\* It holds of an empty job_runs.
LEMMA InitiallyHolds == Init => IInv
<1> SUFFICES ASSUME Init
             PROVE  IInv
  OBVIOUS
<1>1. TypeOK
  BY DEF Init, TypeOK, Status, PoolState, ThreadStep, SubmitStep
<1>2. RowsInOrder /\ IntentsKnown /\ HoldersOwn
  BY DEF Init, RowsInOrder, IntentsKnown, HoldersOwn
<1>3. OneLivePerKey /\ OneRunningPerScope
  BY DEF Init, OneLivePerKey, OneRunningPerScope, Live, Claimable
<1>4. GateHeld /\ DependentsWait
  BY DEF Init, GateHeld, DependentsWait
<1> QED
  BY <1>1, <1>2, <1>3, <1>4 DEF IInv

\* The strengthened invariant holds in every reachable state of the job queue.
THEOREM Invariance == Spec => []IInv
BY InitiallyHolds, InductiveStep, PTL DEF Spec

\* Type correctness: in particular no row is attempted more than max_attempts times.
THEOREM TypeCorrect == Spec => []TypeOK
<1>1. IInv => TypeOK
  BY DEF IInv
<1> QED
  BY <1>1, Invariance, PTL

\* create_run is idempotent per job_key, whoever submits and whatever is retried.
THEOREM Idempotency == Spec => []OneLivePerKey
<1>1. IInv => OneLivePerKey
  BY DEF IInv
<1> QED
  BY <1>1, Invariance, PTL

\* The atomic contract of claim_next: one running row per (dataset, scope).
THEOREM ScopeExclusion == Spec => []OneRunningPerScope
<1>1. IInv => OneRunningPerScope
  BY DEF IInv
<1> QED
  BY <1>1, Invariance, PTL

\* Two threads never both execute a scope for a row that is theirs to finish.
THEOREM ThreadsExclude == Spec => []ExecutionExclusion
<1>1. IInv => ExecutionExclusion
  BY DEF IInv, HoldersOwn, OneRunningPerScope, ExecutionExclusion
<1> QED
  BY <1>1, Invariance, PTL

\* No row of a gated job exists before its on_success parents have succeeded.
THEOREM GateHolds == Spec => []DependentsWait
<1>1. IInv => DependentsWait
  BY DEF IInv
<1> QED
  BY <1>1, Invariance, PTL

\* Back pressure: however many Dispatchers check at once and however much is retried,
\* the backlog passes max_queued by one row for each of them at most.
THEOREM BackPressure == Spec => []BacklogBound
<1>1. Init => BacklogAccounted
  BY BacklogInit
<1>2. IInv /\ BacklogAccounted /\ [Next]_vars => BacklogAccounted'
  BY BacklogStep DEF IInv
<1>3. BacklogAccounted => BacklogBound
  BY CountsTyped DEF BacklogAccounted, BacklogBound
<1> QED
  BY <1>1, <1>2, <1>3, Invariance, PTL DEF Spec

\* The roles implement the status machine of job_runs.
THEOREM RefinesLedger == Spec => LedgerSpec
<1>1. Init => Ledger!Init
  BY DEF Init, Ledger!Init
<1>2. IInv /\ [Next]_vars => [Ledger!Next]_(Ledger!vars)
  BY LedgerStep DEF IInv
<1> QED
  BY <1>1, <1>2, Invariance, PTL DEF Spec, LedgerSpec, Ledger!Spec

\* claim_next is the only call that writes the worker of a row, and it leaves
\* settled rows alone.
LEMMA WorkerStep ==
  ASSUME TypeOK, [Next]_vars, NEW r \in Run, status[r] \in Settled
  PROVE  worker'[r] = worker[r]
<1>1. ASSUME NEW w \in Threads, ClaimNext(w)
      PROVE  worker'[r] = worker[r]
  <2>1. CASE UNCHANGED rows
    BY <2>1 DEF rows
  <2>2. ASSUME NEW q \in Candidates, worker' = [worker EXCEPT ![q] = w]
        PROVE  worker'[r] = worker[r]
    <3>1. q # r
      BY DEF Candidates, Claimable, Settled, Terminal
    <3> QED
      BY <2>2, <3>1 DEF TypeOK
  <2> QED
    BY <1>1, <2>1, <2>2 DEF ClaimNext
<1>2. CASE ~(\E w \in Threads : ClaimNext(w))
  BY <1>2 DEF Next, Submission, CheckBacklog, CheckParents, SubmitRun, SubmitFails,
     ApiCreate, CreateRun, Work, Finish, Poll, Succeed, OnSuccess, Fail, FailRow, FinishLost,
     BackoffElapses, Lifecycle, StartPool, RequestStop, StopPool, Die, rows, vars
<1> QED
  BY <1>1, <1>2

\* A settled row is final: no late result, second stop or claim rewrites it.
THEOREM SettledIsFinal == Spec => SettledNeverRewritten
<1>1. IInv /\ [Next]_vars =>
        \A r \in Run : status[r] \in Settled =>
          /\ status'[r] = status[r]
          /\ attempt'[r] = attempt[r]
          /\ worker'[r] = worker[r]
  <2> SUFFICES ASSUME IInv, [Next]_vars, NEW r \in Run, status[r] \in Settled
               PROVE  status'[r] = status[r] /\ attempt'[r] = attempt[r] /\ worker'[r] = worker[r]
    OBVIOUS
  <2>1. status[r] # "unused"
    BY DEF Settled, Terminal
  <2> QED
    BY <2>1, LedgerStep, RowsStable, WorkerStep DEF IInv
<1> QED
  BY <1>1, Invariance, PTL DEF Spec, SettledNeverRewritten
-----------------------------------------------------------------------------
(* The transactions of SqlJobRuns *)

USE OwnersAssumption DEF OwnersAssumption

IdleSubmit == [step |-> "free", intent |-> None]
-----------------------------------------------------------------------------
(* The committed rows. *)

\* A statement that leaves the rows alone and at most ends the poll of a thread.
GivesUp(w) == Release(w) /\ UNCHANGED <<rows, pool, submit>>

\* The update of a claim, committed: acknowledged, or the thread polls again.
Commits(w) ==
  /\ status[selected[w]] \in Claimable
  /\ status' = [status EXCEPT ![selected[w]] = "running"]
  /\ worker' = [worker EXCEPT ![selected[w]] = w]
  /\ \/ /\ pc' = [pc EXCEPT ![w] = "executing"]
        /\ holds' = [holds EXCEPT ![w] = selected[w]]
     \/ Release(w)
  /\ UNCHANGED <<intent, attempt, due, nextRunId, pool, submit>>

\* A step of JobRuns that is not its claim_next.
Unsplit ==
  \/ Submission
  \/ \E w \in Threads : Poll(w) \/ Finish(w) \/ OnSuccess(w)
  \/ \E r \in Run : BackoffElapses(r)
  \/ Lifecycle
  \/ UNCHANGED vars

LEMMA UnsplitIsNext == Unsplit => [Next]_vars
BY DEF Unsplit, Next, Work

\* What a step of SqlNext does to the variables of JobRuns.
LEMMA CommittedStep ==
  ASSUME SqlInv, [SqlNext]_allVars
  PROVE  \/ Unsplit
         \/ \E d \in ApiClients, i \in ApiIntents : ApiRequest(d, i)
         \/ \E w \in Threads : pc[w] = "polling" /\ GivesUp(w)
         \/ \E w \in Threads : selected[w] # NoRun /\ Commits(w)
<1>1. ASSUME NEW d \in Dispatchers, CheckKey(d)
      PROVE  Unsplit
  <2>1. submit[d].step = "create"
    BY <1>1 DEF CheckKey, SqlInv, CreationsSerial, Creators
  <2>2. CASE HasLiveRow(Wants(d)) /\ LeaveSubmit(d)
    <3>1. SubmitRun(d)
      BY <1>1, <2>1, <2>2 DEF CheckKey, SubmitRun, CreateRun, LeaveSubmit, Wants
    <3> QED
      BY <3>1 DEF Unsplit, Submission
  <2>3. CASE UNCHANGED submit
    BY <1>1, <2>3 DEF CheckKey, vars, rows, Unsplit
  <2> QED
    BY <1>1, <2>2, <2>3 DEF CheckKey
<1>2. ASSUME NEW d \in Dispatchers, InsertRow(d)
      PROVE  Unsplit
  <2>1. d \in Creators /\ creating[d] = "absent"
    BY <1>2 DEF InsertRow, Creators
  <2>2. submit[d].step = "create" /\ ~HasLiveRow(Wants(d))
    BY <2>1 DEF SqlInv, CreationsSerial
  <2>3. nextRunId \in Run
    <3>1. Cardinality(Creators) \in Nat /\ Cardinality(Creators) # 0
      BY <2>1, FS_CardinalityType, FS_EmptySet DEF SqlInv, RoomReserved
    <3> QED
      BY <3>1 DEF SqlInv, RoomReserved, SqlTypeOK, TypeOK, Run
  <2>4. SubmitRun(d)
    BY <1>2, <2>2, <2>3 DEF InsertRow, SubmitRun, CreateRun, LeaveSubmit, Wants
  <2> QED
    BY <2>4 DEF Unsplit, Submission
<1>3. ASSUME NEW d \in Dispatchers, AbortCreate(d)
      PROVE  Unsplit
  <2>1. SubmitFails(d)
    BY <1>3 DEF AbortCreate, SubmitFails, LeaveSubmit
  <2> QED
    BY <2>1 DEF Unsplit, Submission
<1>4. ASSUME NEW d \in Dispatchers, LockForCreate(d)
      PROVE  Unsplit
  BY <1>4 DEF LockForCreate, Unsplit
<1>5. ASSUME NEW d \in Dispatchers, NEW i \in Intents, ApiRequest(d, i)
      PROVE  \E c \in ApiClients, j \in ApiIntents : ApiRequest(c, j)
  BY <1>5 DEF ApiRequest
<1>6. ASSUME NEW w \in Threads, SelectCandidate(w)
      PROVE  \/ Unsplit
             \/ pc[w] = "polling" /\ GivesUp(w)
  BY <1>6 DEF SelectCandidate, GivesUp, vars, rows, Unsplit
<1>7. ASSUME NEW w \in Threads, LockForClaim(w)
      PROVE  Unsplit
  BY <1>7 DEF LockForClaim, Unsplit
<1>8. ASSUME NEW w \in Threads, CommitClaim(w)
      PROVE  selected[w] # NoRun /\ Commits(w)
  BY <1>8 DEF CommitClaim, Commits, SqlInv, SelectionsOwn
<1>9. ASSUME NEW w \in Threads, AbortClaim(w)
      PROVE  pc[w] = "polling" /\ GivesUp(w)
  BY <1>9 DEF AbortClaim, GivesUp, SqlInv, SelectionsOwn
<1>10. ASSUME NEW p \in Pools, DieWithTransactions(p)
       PROVE  Unsplit
  BY <1>10 DEF DieWithTransactions, Unsplit, Lifecycle
<1>11. CASE UNCHANGED allVars
  BY <1>11 DEF allVars, Unsplit
<1>12. CASE SqlSubmission
  BY <1>1, <1>2, <1>3, <1>4, <1>5, <1>12 DEF SqlSubmission, Unsplit, Submission
<1>13. CASE SqlWork
  <2>1. ASSUME NEW w \in Threads, Poll(w) \/ Finish(w) \/ OnSuccess(w)
        PROVE  Unsplit
    BY <2>1 DEF Unsplit
  <2>2. ASSUME NEW r \in Run, BackoffElapses(r)
        PROVE  Unsplit
    BY <2>2 DEF Unsplit
  <2> QED
    BY <1>6, <1>7, <1>8, <1>9, <1>13, <2>1, <2>2 DEF SqlWork, SqlClaim
<1>14. CASE SqlLifecycle
  BY <1>10, <1>14 DEF SqlLifecycle, Unsplit, Lifecycle
<1> QED
  BY <1>11, <1>12, <1>13, <1>14 DEF SqlNext

\* The transactions implement the status machine of a row: a claim's commit starts
\* the row its select found, and everything else is a step of JobRuns or no step.
LEMMA SqlLedgerStep ==
  ASSUME SqlInv, [SqlNext]_allVars
  PROVE  [Ledger!Next]_(Ledger!vars)
<1>1. CASE Unsplit
  BY <1>1, UnsplitIsNext, LedgerStep DEF SqlInv, SqlTypeOK
<1>2. ASSUME NEW w \in Threads, selected[w] # NoRun, Commits(w)
      PROVE  [Ledger!Next]_(Ledger!vars)
  <2>1. selected[w] \in Run
    BY <1>2 DEF SqlInv, SqlTypeOK
  <2>2. Ledger!Start(selected[w])
    BY <1>2 DEF Commits, Ledger!Start, Claimable, Ledger!Claimable
  <2> QED
    BY <2>1, <2>2 DEF Ledger!Next, Run, Ledger!Run
<1>3. CASE UNCHANGED rows
  BY <1>3 DEF rows, Ledger!vars
<1> QED
  BY <1>1, <1>2, <1>3, CommittedStep DEF GivesUp, ApiRequest

\* What is not an insert gives no intent a live row it did not have.
LEMMA NoNewLiveRow ==
  ASSUME SqlInv, [SqlNext]_allVars, nextRunId' = nextRunId, NEW i
  PROVE  HasLiveRow(i)' => HasLiveRow(i)
<1> USE DEF Run, Ledger!Run
<1>1. \A r \in Run : status'[r] \in Live => status[r] \in Live
  <2>1. nextRunId \in Nat
    BY DEF SqlInv, SqlTypeOK, TypeOK
  <2>2. ASSUME NEW j \in Intents, Ledger!Create(j)
        PROVE  FALSE
    BY <2>1, <2>2 DEF Ledger!Create
  <2>3. ASSUME NEW q \in Run, Ledger!Start(q) \/ Ledger!Succeed(q) \/ Ledger!Retry(q) \/ Ledger!GiveUp(q)
        PROVE  \A r \in Run : status'[r] \in Live => status[r] \in Live
    BY <2>3 DEF SqlInv, SqlTypeOK, TypeOK, Ledger!Start, Ledger!Succeed, Ledger!Retry, Ledger!GiveUp,
       Ledger!Claimable, Live, Claimable
  <2>4. ASSUME NEW S \in SUBSET Run, Ledger!Interrupt(S)
        PROVE  \A r \in Run : status'[r] \in Live => status[r] \in Live
    BY <2>4 DEF Ledger!Interrupt, Live, Claimable
  <2>5. CASE UNCHANGED Ledger!vars
    BY <2>5 DEF Ledger!vars
  <2> QED
    BY <2>2, <2>3, <2>4, <2>5, SqlLedgerStep DEF Ledger!Next
<1>2. \A r \in Run : status'[r] \in Live => intent'[r] = intent[r]
  BY <1>1, SqlLedgerStep, RowsStable DEF SqlInv, SqlTypeOK, Live, Claimable
<1> QED
  BY <1>1, <1>2 DEF HasLiveRow, Rows

\* A row that waits is left waiting by everyone but the claim that has selected it.
LEMMA WaitingKept ==
  ASSUME SqlInv, Unsplit, NEW r \in Run, status[r] \in Claimable
  PROVE  status'[r] = status[r]
<1> USE DEF SqlInv, SqlTypeOK, TypeOK, Claimable
<1>1. ASSUME NEW i, CreateRun(i)
      PROVE  status'[r] = status[r]
  <2>1. r # nextRunId
    BY DEF RowsInOrder
  <2> QED
    BY <1>1, <2>1 DEF CreateRun, rows
<1>2. ASSUME NEW w \in Threads, Finish(w)
      PROVE  status'[r] = status[r]
  <2>1. holds[w] \in Run /\ holds[w] # r
    BY <1>2 DEF Finish, Succeed, Fail, FinishLost, HoldersOwn
  <2> QED
    BY <1>2, <2>1 DEF Finish, Succeed, Fail, FailRow, FinishLost, Finished, rows
<1>3. ASSUME NEW p \in Pools, StopPool(p)
      PROVE  status'[r] = status[r]
  BY <1>3 DEF StopPool, InterruptRunning
<1>4. CASE UNCHANGED status
  BY <1>4
<1> QED
  BY <1>1, <1>2, <1>3, <1>4
  DEF Unsplit, Submission, CheckBacklog, CheckParents, SubmitRun, SubmitFails, ApiCreate,
      Poll, OnSuccess, BackoffElapses, Lifecycle, StartPool, RequestStop, Die, rows, vars
-----------------------------------------------------------------------------
(* Threads and what they hold. *)

LEMMA EndTransactionsTyped ==
  ASSUME SqlTypeOK, NEW C, EndTransactions(C)
  PROVE  lockedBy' \in [Scopes -> Threads \cup Dispatchers \cup {None}]
BY DEF SqlTypeOK, EndTransactions

\* Every step keeps every variable in its type.
LEMMA SqlTypeStep ==
  ASSUME SqlInv, [SqlNext]_allVars
  PROVE  SqlTypeOK'
<1>1. TypeOK'
  <2>1. CASE Unsplit
    BY <2>1, UnsplitIsNext, TypeStep DEF SqlInv, SqlTypeOK
  <2>2. ASSUME NEW w \in Threads, GivesUp(w)
        PROVE  TypeOK'
    BY <2>2, ReleaseTyped DEF GivesUp, SqlInv, SqlTypeOK, TypeOK, rows
  <2>3. ASSUME NEW w \in Threads, selected[w] # NoRun, Commits(w)
        PROVE  TypeOK'
    <3>1. selected[w] \in Run
      BY <2>3 DEF SqlInv, SqlTypeOK
    <3>2. pc' \in [Threads -> ThreadStep] /\ holds' \in [Threads -> Run \cup {NoRun}]
      BY <2>3, <3>1, ReleaseTyped DEF Commits, SqlInv, SqlTypeOK, TypeOK, ThreadStep
    <3> QED
      BY <2>3, <3>1, <3>2 DEF Commits, SqlInv, SqlTypeOK, TypeOK, Status
  <2>4. ASSUME NEW d \in ApiClients, NEW i \in ApiIntents, ApiRequest(d, i)
        PROVE  TypeOK'
    <3>1. i \in Intents
      BY IntentsAssumption DEF IntentsAssumption
    <3> QED
      BY <2>4, <3>1 DEF ApiRequest, SqlInv, SqlTypeOK, TypeOK, rows, SubmitStep
  <2> QED
    BY <2>1, <2>2, <2>3, <2>4, CommittedStep
<1>2. selected' \in [Threads -> Run \cup {NoRun}]
  BY DEF SqlInv, SqlTypeOK, SqlNext, SqlSubmission, ApiRequest, LockForCreate, CheckKey,
     InsertRow, AbortCreate, SqlWork, SqlClaim, SelectCandidate, Selectable, Candidates, Rows,
     LockForClaim, CommitClaim, AbortClaim, SqlLifecycle, DieWithTransactions,
     allVars, sqlVars, NoRun
<1>3. creating' \in [Dispatchers -> {"none", "locked", "absent"}]
  BY DEF SqlInv, SqlTypeOK, SqlNext, SqlSubmission, ApiRequest, LockForCreate, CheckKey,
     InsertRow, AbortCreate, SqlWork, SqlClaim, SelectCandidate,
     LockForClaim, CommitClaim, AbortClaim, SqlLifecycle, DieWithTransactions, allVars, sqlVars
<1>4. lockedBy' \in [Scopes -> Threads \cup Dispatchers \cup {None}]
  <2>1. ASSUME NEW C, EndTransactions(C)
        PROVE  lockedBy' \in [Scopes -> Threads \cup Dispatchers \cup {None}]
    BY <2>1, EndTransactionsTyped DEF SqlInv
  <2>2. ASSUME NEW s, NEW c \in Threads \cup Dispatchers, Lock(s, c)
        PROVE  lockedBy' \in [Scopes -> Threads \cup Dispatchers \cup {None}]
    BY <2>2 DEF Lock, SqlInv, SqlTypeOK
  <2>3. CASE UNCHANGED lockedBy
    BY <2>3 DEF SqlInv, SqlTypeOK
  <2> QED
    BY <2>1, <2>2, <2>3
    DEF SqlNext, SqlSubmission, ApiRequest, LockForCreate, CheckKey,
        InsertRow, AbortCreate, SqlWork, SqlClaim, SelectCandidate,
        LockForClaim, CommitClaim, AbortClaim, SqlLifecycle, DieWithTransactions,
        allVars, sqlVars
<1> QED
  BY <1>1, <1>2, <1>3, <1>4 DEF SqlTypeOK

\* What is settled stays settled: no thread finds its finished run changed.
LEMMA SettledKept ==
  ASSUME SqlInv, [SqlNext]_allVars, NEW r \in Run, status[r] \in Settled
  PROVE  status'[r] = status[r]
BY SqlLedgerStep, RowsStable DEF SqlInv, SqlTypeOK, Settled, Terminal

\* A step that moves one thread, to a run nobody holds, to the callback of the run
\* it has finished, or to no run.
LEMMA OneThreadMoves ==
  ASSUME SqlInv, [SqlNext]_allVars, NEW w \in Threads,
         \A v \in Threads \ {w} : pc'[v] = pc[v] /\ holds'[v] = holds[v],
         \/ holds'[w] = NoRun /\ pc'[w] \in {"idle", "polling"}
         \/ /\ holds'[w] \in Run /\ pc'[w] = "callback"
            /\ holds'[w] = holds[w] /\ status'[holds[w]] \in Settled
         \/ /\ holds'[w] \in Run /\ pc'[w] = "executing"
            /\ \A v \in Threads : holds[v] # holds'[w]
  PROVE  ThreadsHold' /\ NoDoubleExecution'
<1>1. ThreadsHold'
  <2>1. ASSUME NEW v \in Threads \ {w}, pc[v] = "callback"
        PROVE  holds[v] \in Run /\ status'[holds[v]] \in Settled
    BY <2>1, SettledKept DEF SqlInv, ThreadsHold
  <2> QED
    BY <2>1 DEF ThreadsHold, SqlInv
<1>2. NoDoubleExecution'
  BY DEF NoDoubleExecution, SqlInv
<1> QED
  BY <1>1, <1>2

\* Nobody moves.
LEMMA NoThreadMoves ==
  ASSUME SqlInv, [SqlNext]_allVars, UNCHANGED <<pc, holds>>
  PROVE  ThreadsHold' /\ NoDoubleExecution'
<1>1. ThreadsHold'
  BY SettledKept DEF SqlInv, ThreadsHold
<1>2. NoDoubleExecution'
  BY DEF NoDoubleExecution, SqlInv
<1> QED
  BY <1>1, <1>2

\* A selected row is held by no thread: it waits, and what is held has run.
LEMMA SelectedIsNotHeld ==
  ASSUME SqlInv, NEW w \in Threads, selected[w] # NoRun, NEW v \in Threads
  PROVE  selected[w] \in Run /\ holds[v] # selected[w]
<1>1. selected[w] \in Run /\ status[selected[w]] \in Claimable
  BY DEF SqlInv, SqlTypeOK, SelectionsOwn
<1>2. holds[v] # NoRun => status[holds[v]] \notin Claimable
  <2>1. pc[v] \in ThreadStep
    BY DEF SqlInv, SqlTypeOK, TypeOK
  <2> QED
    BY <2>1 DEF SqlInv, HoldersOwn, ThreadsHold, ThreadStep, Settled, Terminal, Claimable
<1> QED
  BY <1>1, <1>2 DEF Run, NoRun

\* What a thread executes is its own, and no other thread's.
LEMMA SqlHoldersStep ==
  ASSUME SqlInv, [SqlNext]_allVars
  PROVE  HoldersOwn' /\ ThreadsHold' /\ NoDoubleExecution'
<1> USE DEF SqlInv, SqlTypeOK
<1>1. HoldersOwn'
  <2>1. CASE Unsplit
    BY <2>1, UnsplitIsNext, HoldersStep
  <2>2. ASSUME NEW w \in Threads, GivesUp(w)
        PROVE  HoldersOwn'
    BY <2>2 DEF GivesUp, Release, rows, HoldersOwn, TypeOK
  <2>3. ASSUME NEW w \in Threads, selected[w] # NoRun, Commits(w)
        PROVE  HoldersOwn'
    <3>1. /\ selected[w] \in Run
          /\ \A v \in Threads : holds[v] # selected[w]
      BY <2>3, SelectedIsNotHeld
    <3>2. \A r \in Run \ {selected[w]} : status'[r] = status[r] /\ worker'[r] = worker[r]
      BY <2>3, <3>1 DEF Commits, TypeOK
    <3>3. status'[selected[w]] = "running" /\ worker'[selected[w]] = w
      BY <2>3, <3>1 DEF Commits, TypeOK
    <3>4. \A v \in Threads \ {w} : pc'[v] = pc[v] /\ holds'[v] = holds[v]
      BY <2>3 DEF Commits, Release, TypeOK
    <3>5. pc'[w] = "executing" => holds'[w] = selected[w]
      BY <2>3 DEF Commits, Release, TypeOK
    <3> QED
      BY <3>1, <3>2, <3>3, <3>4, <3>5 DEF HoldersOwn
  <2>4. CASE UNCHANGED <<pc, holds, rows>>
    BY <2>4 DEF rows, HoldersOwn
  <2> QED
    BY <2>1, <2>2, <2>3, <2>4, CommittedStep DEF ApiRequest
<1>2. ThreadsHold' /\ NoDoubleExecution'
  <2>1. ASSUME NEW w \in Threads, Release(w)
        PROVE  ThreadsHold' /\ NoDoubleExecution'
    <3>1. holds'[w] = NoRun /\ pc'[w] = "idle"
      BY <2>1 DEF Release, TypeOK
    <3>2. \A v \in Threads \ {w} : pc'[v] = pc[v] /\ holds'[v] = holds[v]
      BY <2>1 DEF Release, TypeOK
    <3> QED
      BY <3>1, <3>2, OneThreadMoves
  <2>2. ASSUME NEW w \in Threads, selected[w] # NoRun, Commits(w), ~Release(w)
        PROVE  ThreadsHold' /\ NoDoubleExecution'
    <3>1. /\ selected[w] \in Run
          /\ \A v \in Threads : holds[v] # selected[w]
      BY <2>2, SelectedIsNotHeld
    <3>2. holds'[w] = selected[w] /\ pc'[w] = "executing"
      BY <2>2 DEF Commits, TypeOK
    <3>3. \A v \in Threads \ {w} : pc'[v] = pc[v] /\ holds'[v] = holds[v]
      BY <2>2 DEF Commits, TypeOK
    <3> QED
      BY <3>1, <3>2, <3>3, OneThreadMoves
  <2>3. ASSUME NEW w \in Threads, Poll(w)
        PROVE  ThreadsHold' /\ NoDoubleExecution'
    <3>1. holds'[w] = NoRun /\ pc'[w] = "polling"
      BY <2>3 DEF Poll, TypeOK, ThreadsHold
    <3>2. \A v \in Threads \ {w} : pc'[v] = pc[v] /\ holds'[v] = holds[v]
      BY <2>3 DEF Poll, TypeOK
    <3> QED
      BY <3>1, <3>2, OneThreadMoves
  <2>4. ASSUME NEW w \in Threads, Succeed(w)
        PROVE  ThreadsHold' /\ NoDoubleExecution'
    <3>1. holds'[w] = holds[w] /\ holds[w] \in Run /\ pc'[w] = "callback"
      BY <2>4 DEF Succeed, TypeOK, HoldersOwn
    <3>2. status'[holds[w]] \in Settled
      BY <2>4, <3>1 DEF Succeed, Finished, TypeOK, HoldersOwn, Settled, Terminal
    <3>3. \A v \in Threads \ {w} : pc'[v] = pc[v] /\ holds'[v] = holds[v]
      BY <2>4 DEF Succeed, TypeOK
    <3> QED
      BY <3>1, <3>2, <3>3, OneThreadMoves
  <2>5. ASSUME NEW p \in Pools, Die(p)
        PROVE  ThreadsHold' /\ NoDoubleExecution'
    BY <2>5 DEF Die, rows, ThreadsHold, NoDoubleExecution
  <2>6. CASE UNCHANGED <<pc, holds>>
    BY <2>6, NoThreadMoves
  <2>7. CASE Unsplit
    BY <2>1, <2>3, <2>4, <2>5, <2>6, <2>7
    DEF Unsplit, Submission, CheckBacklog, CheckParents, SubmitRun, SubmitFails, ApiCreate,
        Finish, Fail, FinishLost, OnSuccess, BackoffElapses, Lifecycle, StartPool,
        RequestStop, StopPool, vars
  <2> QED
    BY <2>1, <2>2, <2>6, <2>7, CommittedStep DEF GivesUp, ApiRequest
<1> QED
  BY <1>1, <1>2

\* Rows held FOR UPDATE are skipped by the other selects, and end with the
\* transaction that holds them.
LEMMA SelectionsStep ==
  ASSUME SqlInv, [SqlNext]_allVars
  PROVE  SelectionsOwn'
<1> USE DEF SqlInv, SqlTypeOK
<1>1. ASSUME NEW w \in Threads, SelectCandidate(w)
      PROVE  SelectionsOwn'
  <2>1. CASE UNCHANGED selected /\ Release(w)
    BY <1>1, <2>1 DEF SelectCandidate, Release, TypeOK, SelectionsOwn, rows
  <2>2. ASSUME NEW r \in Selectable, selected' = [selected EXCEPT ![w] = r], UNCHANGED <<pc, holds>>
        PROVE  SelectionsOwn'
    <3>1. status[r] \in Claimable /\ \A v \in Threads : selected[v] # r
      BY DEF Selectable, Candidates, Rows, RowLocked
    <3> QED
      BY <1>1, <2>2, <3>1 DEF SelectCandidate, SelectionsOwn, rows
  <2> QED
    BY <1>1, <2>1, <2>2 DEF SelectCandidate
<1>2. ASSUME NEW w \in Threads, selected[w] # NoRun, selected' = [selected EXCEPT ![w] = NoRun],
             \A v \in Threads \ {w} : pc'[v] = pc[v],
             \A r \in Run \ {selected[w]} : status'[r] = status[r]
      PROVE  SelectionsOwn'
  <2>1. ASSUME NEW v \in Threads \ {w}, selected[v] # NoRun
        PROVE  status'[selected[v]] \in Claimable
    BY <1>2, <2>1 DEF SelectionsOwn
  <2> QED
    BY <1>2, <2>1 DEF SelectionsOwn
<1>3. ASSUME NEW w \in Threads, CommitClaim(w)
      PROVE  SelectionsOwn'
  <2>1. \A r \in Run \ {selected[w]} : status'[r] = status[r]
    BY <1>3 DEF CommitClaim, TypeOK
  <2>2. \A v \in Threads \ {w} : pc'[v] = pc[v]
    BY <1>3 DEF CommitClaim, Release, TypeOK
  <2>3. selected[w] # NoRun /\ selected' = [selected EXCEPT ![w] = NoRun]
    BY <1>3 DEF CommitClaim
  <2> QED
    BY <1>2, <2>1, <2>2, <2>3
<1>4. ASSUME NEW w \in Threads, AbortClaim(w)
      PROVE  SelectionsOwn'
  <2>1. \A r \in Run \ {selected[w]} : status'[r] = status[r]
    BY <1>4 DEF AbortClaim, rows
  <2>2. \A v \in Threads \ {w} : pc'[v] = pc[v]
    BY <1>4 DEF AbortClaim, Release, TypeOK
  <2>3. selected[w] # NoRun /\ selected' = [selected EXCEPT ![w] = NoRun]
    BY <1>4 DEF AbortClaim
  <2> QED
    BY <1>2, <2>1, <2>2, <2>3
<1>5. ASSUME NEW p \in Pools, DieWithTransactions(p)
      PROVE  SelectionsOwn'
  BY <1>5 DEF DieWithTransactions, Die, rows, SelectionsOwn
<1>6. ASSUME Unsplit, UNCHANGED selected, \A w \in Threads : pc[w] = "polling" => pc'[w] = "polling"
      PROVE  SelectionsOwn'
  <2>1. ASSUME NEW w \in Threads, selected[w] # NoRun
        PROVE  status'[selected[w]] \in Claimable
    BY <1>6, <2>1, WaitingKept DEF SelectionsOwn
  <2> QED
    BY <1>6, <2>1 DEF SelectionsOwn
<1>7. ASSUME NEW w \in Threads, Poll(w) \/ Finish(w) \/ OnSuccess(w), UNCHANGED sqlVars
      PROVE  SelectionsOwn'
  <2>1. \A v \in Threads : pc[v] = "polling" => pc'[v] = "polling"
    BY <1>7 DEF Poll, Finish, Succeed, Fail, FinishLost, OnSuccess, Release, TypeOK
  <2> QED
    BY <1>6, <1>7, <2>1 DEF Unsplit, sqlVars
<1>8. ASSUME UNCHANGED <<selected, pc, status>>
      PROVE  SelectionsOwn'
  BY <1>8 DEF SelectionsOwn
<1>9. ASSUME NEW d \in Dispatchers, InsertRow(d)
      PROVE  SelectionsOwn'
  <2>1. Unsplit
    <3>1. nextRunId' # nextRunId
      BY <1>9 DEF InsertRow, TypeOK
    <3> QED
      BY <3>1, CommittedStep DEF GivesUp, ApiRequest, Commits, rows
  <2> QED
    BY <1>6, <1>9, <2>1 DEF InsertRow
<1>10. ASSUME NEW p \in Pools, StopPool(p), UNCHANGED sqlVars
       PROVE  SelectionsOwn'
  BY <1>6, <1>10 DEF StopPool, Unsplit, Lifecycle, sqlVars
<1> QED
  BY <1>1, <1>3, <1>4, <1>5, <1>7, <1>8, <1>9, <1>10
  DEF SqlNext, SqlSubmission, CheckBacklog, CheckParents, SubmitFails, ApiRequest,
      LockForCreate, CheckKey, AbortCreate, SqlWork, SqlClaim, LockForClaim, BackoffElapses,
      SqlLifecycle, StartPool, RequestStop, rows, vars, sqlVars, allVars
-----------------------------------------------------------------------------
(* The advisory locks. *)

\* The locks of C and no others are given back.
LEMMA LocksEnd ==
  ASSUME SqlTypeOK, NEW C, EndTransactions(C), NEW s \in Scopes
  PROVE  lockedBy'[s] = IF lockedBy[s] \in C THEN None ELSE lockedBy[s]
BY DEF EndTransactions

\* What a lock protects is in a known scope.
LEMMA ScopesKnown ==
  ASSUME SqlInv
  PROVE  /\ \A d \in Dispatchers : submit[d].step = "create" => CreateScope(d) \in Scopes
         /\ \A w \in Threads : selected[w] # NoRun => ClaimScope(w) \in Scopes
BY DEF SqlInv, SqlTypeOK, SelectionsOwn, IntentsKnown, CreateScope, Wants, ClaimScope, Scopes,
   Claimable

\* A creation that goes on undisturbed: nobody takes its lock or inserts its row.
LEMMA CreationKept ==
  ASSUME SqlInv, [SqlNext]_allVars, NEW e \in Creators,
         creating'[e] = creating[e], submit'[e] = submit[e],
         lockedBy'[CreateScope(e)] = e,
         \/ nextRunId' = nextRunId
         \/ \E d \in Dispatchers \ {e} : InsertRow(d)
  PROVE  /\ submit'[e].step = "create"
         /\ lockedBy'[CreateScope(e)'] = e
         /\ creating'[e] = "absent" => ~HasLiveRow(Wants(e))'
<1> USE DEF SqlInv, SqlTypeOK
<1>1. Wants(e)' = Wants(e) /\ CreateScope(e)' = CreateScope(e)
  BY DEF Wants, CreateScope
<1>2. ASSUME creating[e] = "absent"
      PROVE  ~HasLiveRow(Wants(e))'
  <2>1. ~HasLiveRow(Wants(e))
    BY <1>2 DEF CreationsSerial
  <2>2. CASE nextRunId' = nextRunId
    <3>1. ASSUME NEW i, i = Wants(e)
          PROVE  ~HasLiveRow(i)'
      BY <2>1, <2>2, <3>1, NoNewLiveRow
    <3> QED
      BY <1>1, <3>1 DEF HasLiveRow
  <2>3. ASSUME NEW d \in Dispatchers \ {e}, InsertRow(d)
        PROVE  ~HasLiveRow(Wants(e))'
    <3>1. Wants(d) # Wants(e)
      <4>1. d \in Creators
        BY <2>3 DEF InsertRow, Creators
      <4> QED
        BY <4>1 DEF CreationsSerial, CreateScope
    <3>2. /\ intent' = [intent EXCEPT ![nextRunId] = Wants(d)]
          /\ status' = [status EXCEPT ![nextRunId] = "queued"]
      BY <2>3 DEF InsertRow
    <3>3. \A r \in Run : status'[r] \in Live /\ intent'[r] # Wants(d)
                           => status[r] \in Live /\ intent'[r] = intent[r]
      BY <3>2 DEF TypeOK
    <3>4. \A r \in Run : status[r] \in Live => intent[r] # Wants(e)
      BY <2>1 DEF HasLiveRow, Rows
    <3> QED
      BY <1>1, <3>1, <3>3, <3>4 DEF HasLiveRow, Rows
  <2> QED
    BY <2>2, <2>3
<1> QED
  BY <1>1, <1>2 DEF CreationsSerial

\* The creations of a scope follow one another.
LEMMA CreationsStep ==
  ASSUME SqlInv, [SqlNext]_allVars
  PROVE  CreationsSerial'
<1> USE DEF SqlInv, SqlTypeOK
<1>0. \A e \in Creators : e \in Dispatchers /\ submit[e].step = "create" /\ lockedBy[CreateScope(e)] = e
                          /\ CreateScope(e) \in Scopes
  BY ScopesKnown DEF CreationsSerial, Creators
<1>1. ASSUME NEW d \in Dispatchers,
             \A e \in Dispatchers \ {d} : submit'[e] = submit[e] /\ creating'[e] = creating[e],
             \A e \in Creators \ {d} : lockedBy'[CreateScope(e)] = e,
             nextRunId' = nextRunId \/ InsertRow(d),
             creating'[d] = "none"
      PROVE  CreationsSerial'
  BY <1>1, CreationKept DEF CreationsSerial, Creators
<1>2. ASSUME NEW d \in Dispatchers, EndTransactions({d}), NEW e \in Creators \ {d}
      PROVE  lockedBy'[CreateScope(e)] = e
  BY <1>0, <1>2, LocksEnd
<1>3. ASSUME NEW d \in Dispatchers, CheckKey(d), ~HasLiveRow(Wants(d)),
             creating' = [creating EXCEPT ![d] = "absent"], UNCHANGED <<lockedBy, submit>>
      PROVE  CreationsSerial'
  <2>1. d \in Creators
    BY <1>3 DEF CheckKey, Creators
  <2>2. UNCHANGED rows
    BY <1>3 DEF CheckKey
  <2>3. ~HasLiveRow(Wants(d))' /\ CreateScope(d)' = CreateScope(d)
    BY <1>3, <2>2 DEF HasLiveRow, Rows, rows, Wants, CreateScope
  <2>4. ASSUME NEW e \in Creators \ {d}
        PROVE  /\ submit'[e].step = "create"
               /\ lockedBy'[CreateScope(e)'] = e
               /\ creating'[e] = "absent" => ~HasLiveRow(Wants(e))'
    <3>1. creating'[e] = creating[e] /\ nextRunId' = nextRunId
      BY <1>3, <2>2 DEF rows
    <3> QED
      BY <1>0, <1>3, <3>1, CreationKept
  <2> QED
    BY <1>0, <1>3, <2>1, <2>3, <2>4 DEF CreationsSerial, Creators
<1>4. ASSUME NEW d \in Dispatchers, LockForCreate(d)
      PROVE  CreationsSerial'
  <2>1. /\ lockedBy[CreateScope(d)] = None /\ CreateScope(d) \in Scopes
        /\ lockedBy' = [lockedBy EXCEPT ![CreateScope(d)] = d]
        /\ submit[d].step = "create" /\ UNCHANGED vars
    BY <1>4, ScopesKnown DEF LockForCreate, Unlocked, Lock
  <2>2. ASSUME NEW e \in Creators
        PROVE  /\ e # d /\ lockedBy'[CreateScope(e)] = e
               /\ submit'[e] = submit[e] /\ creating'[e] = creating[e]
    BY <1>0, <1>4, <2>1 DEF LockForCreate, Creators, vars
  <2>3. ASSUME NEW e \in Creators
        PROVE  /\ submit'[e].step = "create"
               /\ lockedBy'[CreateScope(e)'] = e
               /\ creating'[e] = "absent" => ~HasLiveRow(Wants(e))'
    <3>1. nextRunId' = nextRunId
      BY <2>1 DEF vars
    <3> QED
      BY <2>2, <3>1, CreationKept
  <2>4. /\ creating'[d] = "locked" /\ submit'[d] = submit[d]
        /\ lockedBy'[CreateScope(d)'] = d
    BY <1>4, <2>1 DEF LockForCreate, vars, CreateScope, Wants
  <2>5. \A e \in Creators' : e = d \/ e \in Creators
    BY <1>4 DEF LockForCreate, Creators
  <2> QED
    BY <2>1, <2>3, <2>4, <2>5 DEF CreationsSerial
<1>5. ASSUME nextRunId' = nextRunId, UNCHANGED creating,
             \A e \in Creators : submit'[e] = submit[e] /\ lockedBy'[CreateScope(e)] = e
      PROVE  CreationsSerial'
  BY <1>5, CreationKept DEF CreationsSerial, Creators
<1>6. ASSUME NEW C \in SUBSET Threads, EndTransactions(C)
      PROVE  \A e \in Creators : lockedBy'[CreateScope(e)] = e
  BY <1>0, <1>6, LocksEnd
<1>7. ASSUME NEW d \in Dispatchers, CheckKey(d), HasLiveRow(Wants(d)), LeaveSubmit(d),
             EndTransactions({d}), creating' = [creating EXCEPT ![d] = "none"]
      PROVE  CreationsSerial'
  BY <1>1, <1>2, <1>7 DEF CheckKey, LeaveSubmit, rows, TypeOK
<1>8. ASSUME NEW d \in Dispatchers, InsertRow(d) \/ AbortCreate(d)
      PROVE  CreationsSerial'
  BY <1>1, <1>2, <1>8 DEF InsertRow, AbortCreate, LeaveSubmit, rows, TypeOK
<1>9. ASSUME NEW w \in Threads, LockForClaim(w)
      PROVE  CreationsSerial'
  <2>1. ASSUME NEW e \in Creators
        PROVE  lockedBy'[CreateScope(e)] = e
    BY <1>0, <1>9, ScopesKnown DEF LockForClaim, Unlocked, Lock
  <2> QED
    BY <1>5, <1>9, <2>1 DEF LockForClaim, vars
<1>10. ASSUME NEW w \in Threads, CommitClaim(w) \/ AbortClaim(w)
       PROVE  CreationsSerial'
  BY <1>5, <1>6, <1>10 DEF CommitClaim, AbortClaim, rows
<1>11. ASSUME NEW p \in Pools, DieWithTransactions(p)
       PROVE  CreationsSerial'
  BY <1>5, <1>6, <1>11 DEF DieWithTransactions, Die, rows
<1>12. ASSUME UNCHANGED <<nextRunId, creating, lockedBy, submit>>
       PROVE  CreationsSerial'
  BY <1>0, <1>5, <1>12
<1>13. ASSUME NEW d \in Dispatchers, submit[d].step # "create", UNCHANGED <<nextRunId, creating, lockedBy>>,
              \A e \in Dispatchers \ {d} : submit'[e] = submit[e]
       PROVE  CreationsSerial'
  BY <1>0, <1>5, <1>13
<1>14. CASE SqlSubmission
  <2>1. ASSUME NEW d \in Dispatchers, NEW i \in Intents, CheckBacklog(d, i), UNCHANGED sqlVars
        PROVE  CreationsSerial'
    BY <1>13, <2>1 DEF CheckBacklog, sqlVars, rows, TypeOK
  <2>2. ASSUME NEW d \in Dispatchers, CheckParents(d), UNCHANGED sqlVars
        PROVE  CreationsSerial'
    BY <1>13, <2>2 DEF CheckParents, sqlVars, rows, TypeOK
  <2>3. ASSUME NEW d \in Dispatchers, submit[d].step = "gate", SubmitFails(d), UNCHANGED sqlVars
        PROVE  CreationsSerial'
    BY <1>13, <2>3 DEF SubmitFails, sqlVars, rows, TypeOK
  <2>4. ASSUME NEW d \in Dispatchers, NEW i \in Intents, ApiRequest(d, i)
        PROVE  CreationsSerial'
    BY <1>13, <2>4 DEF ApiRequest, sqlVars, rows, TypeOK
  <2>5. ASSUME NEW d \in Dispatchers, CheckKey(d)
        PROVE  CreationsSerial'
    BY <1>3, <1>7, <2>5 DEF CheckKey
  <2> QED
    BY <1>4, <1>8, <1>14, <2>1, <2>2, <2>3, <2>4, <2>5 DEF SqlSubmission
<1> QED
  BY <1>9, <1>10, <1>11, <1>12, <1>14
  DEF SqlNext, SqlWork, SqlClaim, SelectCandidate, Poll, Finish, Succeed, Fail, FailRow,
      FinishLost, OnSuccess, BackoffElapses, SqlLifecycle, StartPool, RequestStop, StopPool,
      rows, vars, sqlVars, allVars

\* Who owns the lock of a scope, in a state.
Owner(s, c) ==
  \/ c \in Creators /\ CreateScope(c) = s
  \/ c \in Threads /\ selected[c] # NoRun /\ ClaimScope(c) = s

\* A lock is given back by the transaction that took it, and taken by one that has
\* something to do in its scope.
LEMMA LocksStep ==
  ASSUME SqlInv, [SqlNext]_allVars
  PROVE  LocksOwned'
<1> USE DEF SqlInv, SqlTypeOK
<1> DEFINE Client == Dispatchers \cup Threads
<1>0. None \notin Client
  BY IntentsAssumption DEF IntentsAssumption
<1>1. ASSUME NEW s \in Scopes, NEW c \in Client, lockedBy[s] = c
      PROVE  Owner(s, c)
  BY <1>0, <1>1 DEF LocksOwned, Unlocked, Owner
<1>2. ASSUME \A s \in Scopes, c \in Client : lockedBy'[s] = c => Owner(s, c)'
      PROVE  LocksOwned'
  <2>1. ASSUME NEW s \in Scopes
        PROVE  lockedBy'[s] \in Client \cup {None}
    BY SqlTypeStep
  <2> QED
    BY <1>2, <2>1 DEF LocksOwned, Unlocked, Owner, Creators, Scopes
<1>3. ASSUME NEW d \in Dispatchers, creating'[d] # "none", submit'[d] = submit[d], NEW s, Owner(s, d)
      PROVE  Owner(s, d)'
  BY <1>3 DEF Owner, Creators, CreateScope, Wants
<1>4. ASSUME NEW w \in Threads, selected'[w] = selected[w], NEW s, Owner(s, w)
      PROVE  Owner(s, w)'
  <2>1. selected[w] # NoRun /\ ClaimScope(w) = s
    BY <1>4 DEF Owner, Creators
  <2>2. status[selected[w]] # "unused" /\ selected[w] \in Run
    BY <2>1 DEF SelectionsOwn, Claimable
  <2>3. intent'[selected[w]] = intent[selected[w]]
    BY <2>2, SqlLedgerStep, RowsStable
  <2> QED
    BY <1>4, <2>1, <2>3 DEF Owner, ClaimScope
<1>5. ASSUME NEW c \in Client, NEW s, Owner(s, c),
             c \in Dispatchers => creating'[c] # "none" /\ submit'[c] = submit[c],
             c \in Threads => selected'[c] = selected[c]
      PROVE  Owner(s, c)'
  BY <1>3, <1>4, <1>5
<1>6. ASSUME NEW d \in Dispatchers, EndTransactions({d}), UNCHANGED selected,
             \A e \in Creators \ {d} : submit'[e] = submit[e] /\ creating'[e] = creating[e]
      PROVE  LocksOwned'
  <2>1. ASSUME NEW s \in Scopes, NEW c \in Client, lockedBy'[s] = c
        PROVE  Owner(s, c)'
    <3>1. lockedBy[s] = c /\ c # d
      BY <1>0, <1>6, <2>1, LocksEnd
    <3>2. Owner(s, c) /\ (c \in Dispatchers => c \in Creators)
      BY <1>1, <3>1 DEF Owner, Creators
    <3> QED
      BY <1>5, <1>6, <3>1, <3>2 DEF Creators
  <2> QED
    BY <1>2, <2>1
<1>7. ASSUME NEW C \in SUBSET Threads, EndTransactions(C), UNCHANGED <<creating, submit>>,
             \A w \in Threads \ C : selected'[w] = selected[w]
      PROVE  LocksOwned'
  <2>1. ASSUME NEW s \in Scopes, NEW c \in Client, lockedBy'[s] = c
        PROVE  Owner(s, c)'
    <3>1. lockedBy[s] = c /\ c \notin C
      BY <1>0, <1>7, <2>1, LocksEnd
    <3>2. Owner(s, c) /\ (c \in Dispatchers => c \in Creators)
      BY <1>1, <3>1 DEF Owner, Creators
    <3> QED
      BY <1>5, <1>7, <3>1, <3>2 DEF Creators
  <2> QED
    BY <1>2, <2>1
<1>8. ASSUME NEW t, NEW k \in Client, lockedBy' = [lockedBy EXCEPT ![t] = k], Owner(t, k)',
             UNCHANGED <<selected, submit>>, \A e \in Creators : creating'[e] # "none"
      PROVE  LocksOwned'
  <2>1. ASSUME NEW s \in Scopes, NEW c \in Client, lockedBy'[s] = c, s # t
        PROVE  Owner(s, c)'
    <3>1. lockedBy[s] = c
      BY <1>8, <2>1
    <3>2. Owner(s, c) /\ (c \in Dispatchers => c \in Creators)
      BY <1>1, <3>1 DEF Owner, Creators
    <3> QED
      BY <1>5, <1>8, <3>2
  <2>2. ASSUME NEW s \in Scopes, NEW c \in Client, lockedBy'[s] = c, s = t
        PROVE  Owner(s, c)'
    <3>1. c = k
      BY <1>8, <2>2
    <3> QED
      BY <1>8, <2>2, <3>1
  <2> QED
    BY <1>2, <2>1, <2>2
<1>9. ASSUME NEW d \in Dispatchers, LockForCreate(d)
      PROVE  LocksOwned'
  <2>1. CreateScope(d)' = CreateScope(d) /\ d \in Creators'
    BY <1>9 DEF LockForCreate, vars, CreateScope, Wants, Creators
  <2>2. ASSUME NEW t, t = CreateScope(d)
        PROVE  Owner(t, d)'
    BY <2>1, <2>2 DEF Owner
  <2>3. lockedBy' = [lockedBy EXCEPT ![CreateScope(d)] = d]
    BY <1>9 DEF LockForCreate, Lock
  <2>4. UNCHANGED <<selected, submit>> /\ \A e \in Creators : creating'[e] # "none"
    BY <1>9 DEF LockForCreate, vars, Creators
  <2> QED
    BY <1>8, <2>2, <2>3, <2>4
<1>10. ASSUME NEW w \in Threads, LockForClaim(w)
       PROVE  LocksOwned'
  <2>1. ClaimScope(w)' = ClaimScope(w) /\ selected'[w] # NoRun
    BY <1>10 DEF LockForClaim, vars, ClaimScope
  <2>2. ASSUME NEW t, t = ClaimScope(w)
        PROVE  Owner(t, w)'
    BY <2>1, <2>2 DEF Owner
  <2>3. lockedBy' = [lockedBy EXCEPT ![ClaimScope(w)] = w]
    BY <1>10 DEF LockForClaim, Lock
  <2>4. UNCHANGED <<selected, submit>> /\ \A e \in Creators : creating'[e] # "none"
    BY <1>10 DEF LockForClaim, vars, Creators
  <2> QED
    BY <1>8, <2>2, <2>3, <2>4
<1>11. ASSUME UNCHANGED lockedBy,
              \A e \in Creators : submit'[e] = submit[e] /\ creating'[e] # "none",
              \A w \in Threads : selected[w] # NoRun => selected'[w] = selected[w]
       PROVE  LocksOwned'
  <2>1. ASSUME NEW s \in Scopes, NEW c \in Client, lockedBy'[s] = c
        PROVE  Owner(s, c)'
    <3>1. lockedBy[s] = c
      BY <1>11, <2>1
    <3>2. Owner(s, c) /\ (c \in Dispatchers => c \in Creators)
                     /\ (c \in Threads => selected[c] # NoRun)
      BY <1>1, <3>1 DEF Owner, Creators
    <3> QED
      BY <1>5, <1>11, <3>2
  <2> QED
    BY <1>2, <2>1
<1> HIDE DEF Client
<1>12. ASSUME NEW w \in Threads, SelectCandidate(w)
       PROVE  LocksOwned'
  <2>1. \A v \in Threads : selected[v] # NoRun => selected'[v] = selected[v]
    BY <1>12 DEF SelectCandidate
  <2> QED
    BY <1>11, <1>12, <2>1 DEF SelectCandidate, Creators
<1>13. ASSUME NEW d \in Dispatchers, CheckKey(d) \/ InsertRow(d) \/ AbortCreate(d)
       PROVE  LocksOwned'
  <2>1. CASE /\ EndTransactions({d}) /\ LeaveSubmit(d)
             /\ creating' = [creating EXCEPT ![d] = "none"] /\ UNCHANGED selected
    BY <1>6, <2>1 DEF LeaveSubmit, Creators, TypeOK
  <2>2. CASE UNCHANGED <<lockedBy, submit, selected>> /\ creating' = [creating EXCEPT ![d] = "absent"]
    BY <1>11, <2>2 DEF Creators
  <2> QED
    BY <1>13, <2>1, <2>2 DEF CheckKey, InsertRow, AbortCreate
<1>14. ASSUME NEW w \in Threads, CommitClaim(w) \/ AbortClaim(w)
       PROVE  LocksOwned'
  <2>1. /\ EndTransactions({w}) /\ UNCHANGED <<creating, submit>>
        /\ \A v \in Threads \ {w} : selected'[v] = selected[v]
    BY <1>14 DEF CommitClaim, AbortClaim
  <2> QED
    BY <1>7, <2>1
<1>15. ASSUME UNCHANGED sqlVars, NEW d \in Dispatchers, submit[d].step # "create",
              \A e \in Dispatchers \ {d} : submit'[e] = submit[e]
       PROVE  LocksOwned'
  BY <1>11, <1>15 DEF sqlVars, CreationsSerial, Creators
<1>16. ASSUME UNCHANGED sqlVars, UNCHANGED submit
       PROVE  LocksOwned'
  BY <1>11, <1>16 DEF sqlVars, Creators
<1>17. ASSUME NEW p \in Pools, DieWithTransactions(p)
       PROVE  LocksOwned'
  <2> DEFINE C == {w \in Threads : PoolOf[w] = p}
  <2>1. /\ EndTransactions(C) /\ UNCHANGED <<creating, submit>>
        /\ \A v \in Threads \ C : selected'[v] = selected[v]
    BY <1>17 DEF DieWithTransactions, Die
  <2> HIDE DEF C
  <2>2. C \in SUBSET Threads
    BY DEF C
  <2> QED
    BY <1>7, <2>1, <2>2
<1>18. CASE SqlSubmission
  <2>1. ASSUME NEW d \in Dispatchers, NEW i \in Intents, CheckBacklog(d, i), UNCHANGED sqlVars
        PROVE  LocksOwned'
    BY <1>15, <2>1 DEF CheckBacklog, TypeOK
  <2>2. ASSUME NEW d \in Dispatchers, CheckParents(d), UNCHANGED sqlVars
        PROVE  LocksOwned'
    BY <1>15, <2>2 DEF CheckParents, TypeOK
  <2>3. ASSUME NEW d \in Dispatchers, submit[d].step = "gate", SubmitFails(d), UNCHANGED sqlVars
        PROVE  LocksOwned'
    BY <1>15, <2>3 DEF SubmitFails, TypeOK
  <2>4. ASSUME NEW d \in Dispatchers, NEW i \in Intents, ApiRequest(d, i)
        PROVE  LocksOwned'
    BY <1>15, <2>4 DEF ApiRequest, TypeOK
  <2> QED
    BY <1>9, <1>13, <1>18, <2>1, <2>2, <2>3, <2>4 DEF SqlSubmission
<1> QED
  BY <1>10, <1>12, <1>14, <1>16, <1>17, <1>18
  DEF SqlNext, SqlWork, SqlClaim, Poll, Finish, Succeed, Fail,
      FinishLost, OnSuccess, BackoffElapses, SqlLifecycle, StartPool, RequestStop, StopPool,
      vars, sqlVars, allVars

\* The rows promised to the creations under way are there for them.
LEMMA RoomStep ==
  ASSUME SqlInv, [SqlNext]_allVars
  PROVE  RoomReserved'
<1> USE DEF SqlInv, SqlTypeOK, RoomReserved
<1>1. nextRunId \in Nat /\ Cardinality(Creators) \in Nat
  BY FS_CardinalityType DEF TypeOK
<1>2. ASSUME NEW d \in Dispatchers, LockForCreate(d)
      PROVE  RoomReserved'
  <2>1. Creators' = Creators \cup {d} /\ d \notin Creators
    BY <1>2 DEF LockForCreate, Creators
  <2>2. IsFiniteSet(Creators') /\ Cardinality(Creators') = Cardinality(Creators) + 1
    BY <2>1, FS_AddElement
  <2>3. nextRunId + Cardinality(Creators) \in Run /\ nextRunId' = nextRunId
    BY <1>2 DEF LockForCreate, RoomToCreate, vars
  <2> QED
    BY <1>1, <2>2, <2>3 DEF Run
<1>3. ASSUME NEW d \in Dispatchers, creating' = [creating EXCEPT ![d] = "none"],
             \/ nextRunId' = nextRunId
             \/ d \in Creators /\ nextRunId' = nextRunId + 1
      PROVE  RoomReserved'
  <2>1. Creators' = Creators \ {d}
    BY <1>3 DEF Creators
  <2>2. /\ IsFiniteSet(Creators')
        /\ Cardinality(Creators') = IF d \in Creators THEN Cardinality(Creators) - 1
                                                      ELSE Cardinality(Creators)
    BY <2>1, FS_RemoveElement
  <2> QED
    BY <1>1, <1>3, <2>2
<1>4. ASSUME Creators' = Creators, nextRunId' = nextRunId
      PROVE  RoomReserved'
  BY <1>4
<1>5. ASSUME NEW d \in Dispatchers, CheckKey(d)
      PROVE  RoomReserved'
  <2>1. CASE creating' = [creating EXCEPT ![d] = "none"]
    BY <1>3, <1>5, <2>1 DEF CheckKey, rows
  <2>2. CASE creating' = [creating EXCEPT ![d] = "absent"]
    BY <1>4, <1>5, <2>2 DEF CheckKey, rows, Creators
  <2> QED
    BY <1>5, <2>1, <2>2 DEF CheckKey
<1>6. ASSUME NEW d \in Dispatchers, InsertRow(d)
      PROVE  RoomReserved'
  BY <1>3, <1>6 DEF InsertRow, Creators
<1>7. ASSUME NEW d \in Dispatchers, AbortCreate(d)
      PROVE  RoomReserved'
  BY <1>3, <1>7 DEF AbortCreate, rows
<1>8. CASE UNCHANGED <<creating, nextRunId>>
  BY <1>4, <1>8 DEF Creators
<1> QED
  BY <1>2, <1>5, <1>6, <1>7, <1>8
  DEF SqlNext, SqlSubmission, CheckBacklog, CheckParents, SubmitFails, ApiRequest, SqlWork,
      SqlClaim, SelectCandidate, LockForClaim, CommitClaim, AbortClaim, Poll, Finish, Succeed,
      Fail, FailRow, FinishLost, OnSuccess, BackoffElapses, SqlLifecycle, StartPool, RequestStop,
      StopPool, DieWithTransactions, Die, rows, vars, sqlVars, allVars
-----------------------------------------------------------------------------
(* The dependency gate. *)

\* A parent's success is final.
LEMMA SuccessIsFinal ==
  ASSUME SqlInv, [SqlNext]_allVars, NEW i, ParentsSucceeded(i)
  PROVE  ParentsSucceeded(i)'
<1>1. \A q \in Run : status[q] = "succeeded" => status'[q] = "succeeded" /\ intent'[q] = intent[q]
  BY SqlLedgerStep, RowsStable DEF SqlInv, SqlTypeOK, Settled, Terminal
<1> QED
  BY <1>1 DEF ParentsSucceeded, Rows

\* Whoever goes on to create a row has the gate, or the API's privilege, behind it.
LEMMA SubmitStepsGated ==
  ASSUME SqlInv, [SqlNext]_allVars
  PROVE  /\ ScheduleGated'
         /\ \A d \in Dispatchers : submit'[d].step # "free" => submit'[d].intent \in Intents
<1> USE DEF SqlInv, SqlTypeOK
<1> DEFINE Sound == /\ ScheduleGated'
                    /\ \A d \in Dispatchers : submit'[d].step # "free" => submit'[d].intent \in Intents
<1>1. ASSUME NEW d \in Dispatchers,
             \A e \in Dispatchers \ {d} : submit'[e] = submit[e],
             submit'[d].step # "free" => submit'[d].intent \in Intents,
             submit'[d].step = "create" =>
               submit'[d].intent \in ApiIntents \/ ParentsSucceeded(submit'[d].intent)
      PROVE  Sound
  <2>1. ASSUME NEW e \in Dispatchers, submit'[e].step = "create", submit'[e].intent \notin ApiIntents,
               NEW i, i = submit'[e].intent
        PROVE  ParentsSucceeded(i)
    BY <1>1, <2>1 DEF ScheduleGated, Wants
  <2>2. ASSUME NEW e \in Dispatchers, submit'[e].step = "create", submit'[e].intent \notin ApiIntents
        PROVE  ParentsSucceeded(Wants(e))'
    <3>1. ASSUME NEW i, i = submit'[e].intent
          PROVE  ParentsSucceeded(i)'
      BY <2>1, <2>2, <3>1, SuccessIsFinal
    <3> QED
      BY <3>1 DEF ParentsSucceeded, Wants, Rows
  <2>3. ScheduleGated'
    BY <2>2 DEF ScheduleGated, Wants
  <2>4. \A e \in Dispatchers : submit'[e].step # "free" => submit'[e].intent \in Intents
    BY <1>1 DEF IntentsKnown
  <2> QED
    BY <2>3, <2>4
<1>2. ASSUME NEW d \in Dispatchers, submit' = [submit EXCEPT ![d] = IdleSubmit]
      PROVE  Sound
  BY <1>1, <1>2 DEF TypeOK, IdleSubmit
<1>3. ASSUME UNCHANGED submit
      PROVE  Sound
  <2>1. ASSUME NEW e \in Dispatchers, submit'[e].step = "create", submit'[e].intent \notin ApiIntents
        PROVE  ParentsSucceeded(Wants(e))'
    <3>1. ASSUME NEW i, i = Wants(e)
          PROVE  ParentsSucceeded(i)'
      BY <1>3, <2>1, <3>1, SuccessIsFinal DEF ScheduleGated, Wants
    <3> QED
      BY <1>3, <3>1 DEF ParentsSucceeded, Wants, Rows
  <2>2. ScheduleGated'
    BY <2>1 DEF ScheduleGated, Wants
  <2> QED
    BY <1>3, <2>2 DEF IntentsKnown
<1>4. ASSUME NEW d \in Dispatchers, NEW i \in Intents, CheckBacklog(d, i)
      PROVE  Sound
  BY <1>1, <1>4 DEF CheckBacklog, TypeOK
<1>5. ASSUME NEW d \in Dispatchers, CheckParents(d)
      PROVE  Sound
  <2>1. CASE ParentsReady(submit[d].intent)
    <3>1. submit'[d].intent = submit[d].intent /\ submit[d].step = "gate"
      BY <1>5, <2>1 DEF TypeOK, CheckParents
    <3>2. ParentsSucceeded(submit'[d].intent)
      BY <2>1, <3>1, ReadyMeansSucceeded
    <3>3. submit'[d].intent \in Intents
      BY <3>1 DEF IntentsKnown
    <3> QED
      BY <1>1, <1>5, <3>2, <3>3 DEF TypeOK, CheckParents
  <2>2. CASE ~ParentsReady(submit[d].intent)
    BY <1>1, <1>5, <2>2 DEF TypeOK, CheckParents
  <2> QED
    BY <2>1, <2>2
<1>6. ASSUME NEW d \in Dispatchers, NEW i \in Intents, ApiRequest(d, i)
      PROVE  Sound
  BY <1>1, <1>6 DEF ApiRequest, TypeOK
<1> HIDE DEF Sound
<1>7. ASSUME SqlSubmission
      PROVE  Sound
  BY <1>2, <1>3, <1>4, <1>5, <1>6, <1>7
  DEF SqlSubmission, SubmitFails, LockForCreate, CheckKey, InsertRow, AbortCreate, LeaveSubmit,
      IdleSubmit, vars
<1> QED
  BY <1>3, <1>7
  DEF SqlNext, SqlWork, SqlClaim, SelectCandidate, LockForClaim, CommitClaim, AbortClaim, Poll,
      Finish, Succeed, Fail, FinishLost, OnSuccess, BackoffElapses, SqlLifecycle, StartPool,
      RequestStop, StopPool, DieWithTransactions, Die, vars, allVars, Sound

\* The row a transaction inserts is one the gate or the API let through.
LEMMA SqlDependentsStep ==
  ASSUME SqlInv, [SqlNext]_allVars
  PROVE  DependentsWait'
<1> USE DEF SqlInv, SqlTypeOK
<1>1. ASSUME NEW r \in Run, status[r] # "unused", intent'[r] \notin ApiIntents
      PROVE  ParentsSucceeded(intent[r]) /\ intent'[r] = intent[r]
  BY <1>1, SqlLedgerStep, RowsStable DEF DependentsWait, Rows
<1>2. ASSUME NEW r \in Run, status[r] = "unused", status'[r] # "unused", intent'[r] \notin ApiIntents
      PROVE  ParentsSucceeded(intent'[r])
  <2>1. nextRunId' # nextRunId
    <3>1. RowsInOrder'
      BY SqlLedgerStep, LedgerKeepsKeys DEF IntentsKnown, RowsKnown
    <3> QED
      BY <1>2, <3>1 DEF RowsInOrder
  <2>2. PICK d \in Dispatchers : InsertRow(d)
    BY <2>1
    DEF SqlNext, SqlSubmission, CheckBacklog, CheckParents, SubmitFails, ApiRequest, LockForCreate,
        CheckKey, AbortCreate, SqlWork, SqlClaim, SelectCandidate, LockForClaim, CommitClaim,
        AbortClaim, Poll, Finish, Succeed, Fail, FailRow, FinishLost, OnSuccess, BackoffElapses,
        SqlLifecycle, StartPool, RequestStop, StopPool, DieWithTransactions, Die, rows, vars, allVars
  <2>3. intent'[r] = Wants(d)
    <3>1. r = nextRunId
      BY <1>2, <2>2 DEF InsertRow, TypeOK
    <3> QED
      BY <2>2, <3>1 DEF InsertRow, TypeOK
  <2>4. submit[d].step = "create"
    BY <2>2 DEF InsertRow, Creators, CreationsSerial
  <2> QED
    BY <1>2, <2>3, <2>4 DEF ScheduleGated
<1>3. ASSUME NEW r \in Run, status'[r] # "unused", intent'[r] \notin ApiIntents, NEW i, i = intent'[r]
      PROVE  ParentsSucceeded(i)'
  BY <1>1, <1>2, <1>3, SuccessIsFinal
<1> QED
  BY <1>3 DEF DependentsWait, ParentsSucceeded, Rows
-----------------------------------------------------------------------------
(* The theorems *)

\* The strengthened invariant is inductive.
LEMMA SqlInductiveStep == SqlInv /\ [SqlNext]_allVars => SqlInv'
<1> SUFFICES ASSUME SqlInv, [SqlNext]_allVars
             PROVE  SqlInv'
  OBVIOUS
<1>1. SqlTypeOK'
  BY SqlTypeStep
<1>2. RowsInOrder' /\ RowsKnown' /\ OneLivePerKey'
  BY SqlLedgerStep, LedgerKeepsKeys DEF SqlInv, SqlTypeOK, IntentsKnown, RowsKnown
<1>3. HoldersOwn' /\ ThreadsHold' /\ NoDoubleExecution'
  BY SqlHoldersStep
<1>4. RoomReserved' /\ CreationsSerial' /\ SelectionsOwn' /\ LocksOwned'
  BY RoomStep, CreationsStep, SelectionsStep, LocksStep
<1>5. ScheduleGated' /\ IntentsKnown'
  BY <1>2, SubmitStepsGated DEF IntentsKnown, RowsKnown
<1>6. DependentsWait'
  BY SqlDependentsStep
<1> QED
  BY <1>1, <1>2, <1>3, <1>4, <1>5, <1>6 DEF SqlInv

\* It holds of an empty job_runs and no transaction.
LEMMA SqlInitiallyHolds == SqlInit => SqlInv
<1> SUFFICES ASSUME SqlInit
             PROVE  SqlInv
  OBVIOUS
<1>1. IInv
  BY InitiallyHolds DEF SqlInit
<1>2. SqlTypeOK
  BY <1>1 DEF SqlInit, SqlTypeOK, IInv
<1>3. Creators = {}
  BY DEF SqlInit, Creators
<1>4. RoomReserved
  BY <1>3, FS_EmptySet DEF SqlInit, Init, RoomReserved
<1>5. CreationsSerial /\ SelectionsOwn /\ LocksOwned
  BY <1>3 DEF SqlInit, CreationsSerial, SelectionsOwn, LocksOwned, Unlocked
<1>6. ThreadsHold /\ NoDoubleExecution /\ ScheduleGated
  BY DEF SqlInit, Init, ThreadsHold, NoDoubleExecution, ScheduleGated
<1> QED
  BY <1>1, <1>2, <1>4, <1>5, <1>6 DEF SqlInv, IInv

\* The strengthened invariant holds in every reachable state of the repository.
THEOREM SqlInvariance == SqlSpec => []SqlInv
BY SqlInitiallyHolds, SqlInductiveStep, PTL DEF SqlSpec

\* create_run is idempotent per job_key, although its select and its insert are two
\* statements of a READ COMMITTED transaction.
THEOREM SqlIdempotency == SqlSpec => []OneLivePerKey
<1>1. SqlInv => OneLivePerKey
  BY DEF SqlInv
<1> QED
  BY <1>1, SqlInvariance, PTL

\* FOR UPDATE SKIP LOCKED and the guarded update give a row to one thread at a time.
THEOREM SqlNoDoubleExecution == SqlSpec => []NoDoubleExecution
<1>1. SqlInv => NoDoubleExecution
  BY DEF SqlInv
<1> QED
  BY <1>1, SqlInvariance, PTL

\* An advisory lock is held by a transaction under way in its scope, or by nobody.
THEOREM SqlLocksOwned == SqlSpec => []LocksOwned
<1>1. SqlInv => LocksOwned
  BY DEF SqlInv
<1> QED
  BY <1>1, SqlInvariance, PTL

\* The gate of the Dispatcher holds of the rows its transactions insert.
THEOREM SqlGateHolds == SqlSpec => []DependentsWait
<1>1. SqlInv => DependentsWait
  BY DEF SqlInv
<1> QED
  BY <1>1, SqlInvariance, PTL

\* Back pressure holds for the transactions too: requests of the REST API go past it,
\* and add rows it does not count.
THEOREM SqlBackPressure == SqlSpec => []BacklogBound
<1>1. SqlInit => BacklogAccounted
  BY BacklogInit DEF SqlInit
<1>2. SqlInv /\ BacklogAccounted /\ [SqlNext]_allVars => BacklogAccounted'
  <2> SUFFICES ASSUME SqlInv, BacklogAccounted, [SqlNext]_allVars
               PROVE  BacklogAccounted'
    OBVIOUS
  <2>a. TypeOK /\ RowsInOrder /\ IntentsKnown /\ HoldersOwn
    BY DEF SqlInv, SqlTypeOK
  <2>1. CASE Unsplit
    BY <2>a, <2>1, UnsplitIsNext, BacklogStep
  <2>2. ASSUME NEW d \in ApiClients, NEW i \in ApiIntents, ApiRequest(d, i)
        PROVE  BacklogAccounted'
    <3>1. Passed' \subseteq Passed
      BY <2>a, <2>2 DEF ApiRequest, Passed, TypeOK
    <3> QED
      BY <2>a, <2>2, <3>1, BacklogLeft DEF ApiRequest, rows
  <2>3. ASSUME NEW w \in Threads, GivesUp(w)
        PROVE  BacklogAccounted'
    <3>1. \A v \in Threads : pc'[v] = "executing" => pc[v] = "executing" /\ holds'[v] = holds[v]
      BY <2>a, <2>3 DEF GivesUp, Release, TypeOK
    <3> QED
      BY <2>a, <2>3, <3>1, BacklogLeft, BacklogMembers DEF GivesUp, rows
  <2>4. ASSUME NEW w \in Threads, selected[w] # NoRun, Commits(w)
        PROVE  BacklogAccounted'
    <3>1. selected[w] \in Run
      BY <2>4 DEF SqlInv, SqlTypeOK
    <3> QED
      BY <2>a, <2>4, <3>1, BacklogClaim DEF Commits
  <2> QED
    BY <2>1, <2>2, <2>3, <2>4, CommittedStep
<1>3. BacklogAccounted => BacklogBound
  BY CountsTyped DEF BacklogAccounted, BacklogBound
<1> QED
  BY <1>1, <1>2, <1>3, SqlInvariance, PTL DEF SqlSpec

\* The transactions of SqlMetaRepository implement the status machine of job_runs.
THEOREM SqlRefinesLedger == SqlSpec => LedgerSpec
<1>1. SqlInit => Ledger!Init
  BY DEF SqlInit, Init, Ledger!Init, Run, Ledger!Run
<1>2. SqlInv /\ [SqlNext]_allVars => [Ledger!Next]_(Ledger!vars)
  BY SqlLedgerStep
<1> QED
  BY <1>1, <1>2, SqlInvariance, PTL DEF SqlSpec, LedgerSpec, Ledger!Spec

\* A settled row is final: no late result, second stop or claim rewrites it.
THEOREM SqlSettledIsFinal == SqlSpec => SettledNeverRewritten
<1>1. SqlInv /\ [SqlNext]_allVars =>
        [\A r \in Run : status[r] \in Settled =>
           /\ status'[r] = status[r]
           /\ attempt'[r] = attempt[r]
           /\ worker'[r] = worker[r]]_vars
  <2> SUFFICES ASSUME SqlInv, [SqlNext]_allVars, NEW r \in Run, status[r] \in Settled
               PROVE  status'[r] = status[r] /\ attempt'[r] = attempt[r] /\ worker'[r] = worker[r]
    OBVIOUS
  <2>1. status[r] # "unused"
    BY DEF Settled, Terminal
  <2>2. status'[r] = status[r] /\ attempt'[r] = attempt[r]
    BY <2>1, SqlLedgerStep, RowsStable DEF SqlInv, SqlTypeOK
  <2>3. worker'[r] = worker[r]
    <3>1. CASE Unsplit
      BY <3>1, UnsplitIsNext, WorkerStep DEF SqlInv, SqlTypeOK
    <3>2. ASSUME NEW w \in Threads, Commits(w)
          PROVE  worker'[r] = worker[r]
      <4>1. selected[w] # r
        BY <3>2 DEF Commits, Claimable, Settled, Terminal
      <4> QED
        BY <3>2, <4>1 DEF Commits, SqlInv, SqlTypeOK, TypeOK
    <3>3. CASE UNCHANGED rows
      BY <3>3 DEF rows
    <3> QED
      BY <3>1, <3>2, <3>3, CommittedStep DEF GivesUp, ApiRequest
  <2> QED
    BY <2>2, <2>3
<1> QED
  BY <1>1, SqlInvariance, PTL DEF SqlSpec, SettledNeverRewritten
=============================================================================
