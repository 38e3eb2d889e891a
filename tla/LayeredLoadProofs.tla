-------------------------- MODULE LayeredLoadProofs --------------------------
(***************************************************************************)
(* The locks of get_or_load, for any number of processes and threads.      *)
(* Whoever is between its recheck and its release holds the lock of its    *)
(* process; whoever was granted the lease owns it until it releases it, or *)
(* until it expires, which marks the thread as one that may load beside    *)
(* another.                                                                *)
(***************************************************************************)
EXTENDS LayeredLoad, TLAPS

\* The steps of a thread that has loaded, or is about to.
Leased == {"load", "store", "store2", "release"}
Locked == Leased \cup {"recheck", "acquire", "poll"}
Steps == Locked \cup {"idle", "lookup", "lock", "done"}

Doing == [step : Steps, acquired : {None, "yes", "no", "error"}, left : Nat,
          got : {None, "value", "error"}, beside : BOOLEAN]

TypeOK ==
  /\ lock \in [Processes -> Threads \cup {None}]
  /\ lease \in [owner : Threads \cup {None}, left : Nat]
  /\ call \in [Threads -> Doing]

HasLock == \A t \in Threads : call[t].step \in Locked => lock[ProcessOf[t]] = t

\* A lease that is taken has time left.
Runs == lease.owner # None => lease.left > 0

\* A thread loads because it has the lease, or beside whoever has it.
HasLease ==
  \A t \in Threads :
    /\ call[t].step \in Leased /\ call[t].acquired = "yes" /\ ~call[t].beside => lease.owner = t
    /\ call[t].step = "load" => call[t].beside \/ call[t].acquired = "yes"

LInv == TypeOK /\ HasLock /\ Runs /\ HasLease
-----------------------------------------------------------------------------
\* At first nobody holds a lock.
LEMMA InitHolds == Init => LInv
BY LoadAssumption DEF Init, LInv, TypeOK, HasLock, Runs, HasLease, Idle, Free, Doing, Steps, Locked, Leased

\* A step of one thread keeps the invariant if it takes or gives back only its
\* own locks, and enters Leased with the lease or beside its owner.
LEMMA ThreadHolds ==
  ASSUME LInv, NEW t \in Threads, NEW c \in Doing,
         call' = [call EXCEPT ![t] = c],
         \/ lease' = lease
         \/ lease.owner \in {None, t} /\ lease' \in {Free, [owner |-> t, left |-> LeaseTtl]},
         \/ lock' = lock /\ (c.step \in Locked => lock[ProcessOf[t]] = t)
         \/ lock' = [lock EXCEPT ![ProcessOf[t]] = t] /\ lock[ProcessOf[t]] = None
         \/ lock' = [lock EXCEPT ![ProcessOf[t]] = None] /\ lock[ProcessOf[t]] = t /\ c.step \notin Locked,
         c.step \in Leased /\ c.acquired = "yes" /\ ~c.beside => lease'.owner = t,
         c.step = "load" => c.beside \/ c.acquired = "yes"
  PROVE  LInv'
<1>1. ProcessOf[t] \in Processes /\ \A u \in Threads : ProcessOf[u] \in Processes
  BY LoadAssumption
<1>2. call'[t] = c /\ \A u \in Threads : u # t => call'[u] = call[u]
  BY DEF LInv, TypeOK
<1>3. TypeOK'
  BY <1>1, LoadAssumption DEF LInv, TypeOK, Free
<1>4. HasLock'
  <2> SUFFICES ASSUME NEW u \in Threads, call'[u].step \in Locked PROVE lock'[ProcessOf[u]] = u
    BY DEF HasLock
  <2>1. CASE u = t
    BY <1>1, <1>2, <2>1 DEF LInv, TypeOK
  <2>2. CASE u # t
    <3>1. lock[ProcessOf[u]] = u
      BY <1>2, <2>2 DEF LInv, HasLock
    <3> QED
      BY <1>1, <2>2, <3>1, LoadAssumption DEF LInv, TypeOK
  <2> QED
    BY <2>1, <2>2
<1>5. Runs'
  BY LoadAssumption DEF LInv, Runs, Free
<1>6. HasLease'
  <2> SUFFICES ASSUME NEW u \in Threads
      PROVE  /\ call'[u].step \in Leased /\ call'[u].acquired = "yes" /\ ~call'[u].beside => lease'.owner = u
             /\ call'[u].step = "load" => call'[u].beside \/ call'[u].acquired = "yes"
    BY DEF HasLease
  <2>1. CASE u = t
    BY <1>2, <2>1
  <2>2. CASE u # t
    BY <1>2, <2>2, LoadAssumption DEF LInv, HasLease
  <2> QED
    BY <2>1, <2>2
<1> QED
  BY <1>3, <1>4, <1>5, <1>6 DEF LInv

\* A thread looks the key up and takes the lock of its process.
LEMMA LockSteps ==
  ASSUME LInv, NEW t \in Threads, Begin(t) \/ Lookup(t) \/ Lock(t) \/ Return(t)
  PROVE  LInv'
<1>1. call[t] \in Doing
  BY DEF LInv, TypeOK
<1>2. CASE Begin(t)
  <2> DEFINE c == [call[t] EXCEPT !.step = "lookup"]
  <2>1. c \in Doing /\ c.step = "lookup"
    BY <1>1 DEF Doing, Steps
  <2>2. call' = [call EXCEPT ![t] = c] /\ lease' = lease /\ lock' = lock
    BY <1>2 DEF Begin
  <2> QED
    BY <2>1, <2>2, ThreadHolds DEF Locked, Leased
<1>3. CASE Lookup(t)
  <2> DEFINE c == IF Hit(ProcessOf[t]) THEN [call[t] EXCEPT !.step = "done", !.got = "value"]
                  ELSE [call[t] EXCEPT !.step = "lock"]
  <2>1. c \in Doing /\ c.step \in {"done", "lock"}
    BY <1>1 DEF Doing, Steps
  <2>2. call' = [call EXCEPT ![t] = c] /\ lease' = lease /\ lock' = lock
    BY <1>3 DEF Lookup
  <2> QED
    BY <2>1, <2>2, ThreadHolds DEF Locked, Leased
<1>4. CASE Lock(t)
  <2> DEFINE c == [call[t] EXCEPT !.step = "recheck"]
  <2>1. c \in Doing /\ c.step = "recheck"
    BY <1>1 DEF Doing, Steps, Locked
  <2>2. /\ call' = [call EXCEPT ![t] = c] /\ lease' = lease
        /\ lock' = [lock EXCEPT ![ProcessOf[t]] = t] /\ lock[ProcessOf[t]] = None
    BY <1>4 DEF Lock
  <2> QED
    BY <2>1, <2>2, ThreadHolds DEF Leased
<1>5. CASE Return(t)
  <2>1. Idle \in Doing /\ Idle.step = "idle"
    BY DEF Idle, Doing, Steps
  <2>2. call' = [call EXCEPT ![t] = Idle] /\ lease' = lease /\ lock' = lock
    BY <1>5 DEF Return
  <2> QED
    BY <2>1, <2>2, ThreadHolds DEF Locked, Leased
<1> QED
  BY <1>2, <1>3, <1>4, <1>5

\* A call that ends gives the lock of its process back.
LEMMA EndHolds ==
  ASSUME LInv, NEW t \in Threads, NEW got \in {None, "value", "error"},
         call[t].step \in Locked, Ended(t, got),
         lease' = lease \/ (lease.owner = t /\ lease' = Free)
  PROVE  LInv'
<1> DEFINE c == [Idle EXCEPT !.step = "done", !.got = got]
<1>1. c \in Doing /\ c.step = "done"
  BY DEF Idle, Doing, Steps
<1>2. call' = [call EXCEPT ![t] = c] /\ lock' = [lock EXCEPT ![ProcessOf[t]] = None]
  BY DEF Ended
<1>3. lock[ProcessOf[t]] = t
  BY DEF LInv, HasLock
<1>4. c.step \notin Locked /\ c.step \notin Leased /\ c.step # "load"
  BY <1>1 DEF Locked, Leased
<1> HIDE DEF c
<1> QED
  BY <1>1, <1>2, <1>3, <1>4, ThreadHolds

\* A thread that has the lock asks for the lease, waits for it, loads and stores.
LEMMA LeaseSteps ==
  ASSUME LInv, NEW t \in Threads,
         \/ Recheck(t) \/ Acquire(t) \/ AcquireFails(t) \/ AcquireLost(t)
         \/ Poll(t) \/ GiveUp(t) \/ Load(t) \/ StoreLocal(t) \/ StoreRemote(t) \/ Release(t)
  PROVE  LInv'
<1>1. call[t] \in Doing
  BY DEF LInv, TypeOK
<1>2. call[t].step \in Locked
  BY DEF Recheck, Acquire, AcquireFails, AcquireLost, Poll, GiveUp, Load, StoreLocal, StoreRemote, Release,
         Locked, Leased
<1>3. lock[ProcessOf[t]] = t
  BY <1>2 DEF LInv, HasLock
<1>4. /\ call[t].step \in Leased /\ call[t].acquired = "yes" /\ ~call[t].beside => lease.owner = t
      /\ call[t].step = "load" => call[t].beside \/ call[t].acquired = "yes"
  BY DEF LInv, HasLease
<1>5. CASE Recheck(t)
  <2>1. lease' = lease
    BY <1>5 DEF Recheck
  <2>2. CASE Hit(ProcessOf[t])
    BY <1>2, <1>5, <2>1, <2>2, EndHolds DEF Recheck
  <2>3. CASE ~Hit(ProcessOf[t])
    <3> DEFINE c == [call[t] EXCEPT !.step = "acquire"]
    <3>1. c \in Doing /\ c.step = "acquire"
      BY <1>1 DEF Doing, Steps, Locked
    <3>2. call' = [call EXCEPT ![t] = c] /\ lock' = lock
      BY <1>5, <2>3 DEF Recheck
    <3> QED
      BY <1>3, <2>1, <3>1, <3>2, ThreadHolds DEF Leased
  <2> QED
    BY <2>2, <2>3
<1>6. CASE Acquire(t)
  <2>1. CASE lease.owner = None
    <3> DEFINE c == [call[t] EXCEPT !.step = "load", !.acquired = "yes"]
    <3>1. c \in Doing /\ c.step = "load" /\ c.acquired = "yes"
      BY <1>1 DEF Doing, Steps, Locked, Leased
    <3>2. call' = [call EXCEPT ![t] = c] /\ lock' = lock /\ lease' = [owner |-> t, left |-> LeaseTtl]
      BY <1>6, <2>1 DEF Acquire
    <3> HIDE DEF c
    <3> QED
      BY <1>3, <2>1, <3>1, <3>2, ThreadHolds
  <2>2. CASE lease.owner # None
    <3> DEFINE c == [call[t] EXCEPT !.step = "poll", !.acquired = "no", !.left = LockWait]
    <3>1. c \in Doing /\ c.step = "poll"
      BY <1>1, LoadAssumption DEF Doing, Steps, Locked
    <3>2. call' = [call EXCEPT ![t] = c] /\ lock' = lock /\ lease' = lease
      BY <1>6, <2>2 DEF Acquire
    <3> QED
      BY <1>3, <3>1, <3>2, ThreadHolds DEF Leased
  <2> QED
    BY <2>1, <2>2
<1>7. CASE AcquireFails(t) \/ AcquireLost(t)
  <2> DEFINE c == [call[t] EXCEPT !.step = "load", !.acquired = "error", !.beside = TRUE]
  <2>1. c \in Doing /\ c.step = "load" /\ c.beside
    BY <1>1 DEF Doing, Steps, Locked, Leased
  <2>2. /\ call' = [call EXCEPT ![t] = c] /\ lock' = lock
        /\ lease' = lease \/ (lease.owner = None /\ lease' = [owner |-> t, left |-> LeaseTtl])
    BY <1>7 DEF AcquireFails, AcquireLost
  <2> HIDE DEF c
  <2> QED
    BY <1>3, <2>1, <2>2, ThreadHolds
<1>8. CASE Poll(t)
  BY <1>2, <1>8, EndHolds DEF Poll
<1>9. CASE GiveUp(t)
  <2> DEFINE c == [call[t] EXCEPT !.step = "load", !.beside = TRUE]
  <2>1. c \in Doing /\ c.step = "load" /\ c.beside
    BY <1>1 DEF Doing, Steps, Locked, Leased
  <2>2. call' = [call EXCEPT ![t] = c] /\ lock' = lock /\ lease' = lease
    BY <1>9 DEF GiveUp
  <2> HIDE DEF c
  <2> QED
    BY <1>3, <2>1, <2>2, ThreadHolds
<1>10. CASE Load(t)
  <2>1. PICK got \in {"value", "error"} :
          call' = [call EXCEPT ![t].step = IF got = "value" THEN "store" ELSE "release", ![t].got = got]
    BY <1>10 DEF Load
  <2> DEFINE c == [call[t] EXCEPT !.step = IF got = "value" THEN "store" ELSE "release", !.got = got]
  <2>2. /\ c \in Doing /\ c.step \in {"store", "release"}
        /\ c.acquired = call[t].acquired /\ c.beside = call[t].beside
    BY <1>1 DEF Doing, Steps, Locked, Leased
  <2>3. call' = [call EXCEPT ![t] = c] /\ lock' = lock /\ lease' = lease /\ call[t].step = "load"
    BY <1>10, <2>1 DEF Load
  <2> HIDE DEF c
  <2> QED
    BY <1>3, <1>4, <2>2, <2>3, ThreadHolds DEF Leased
<1>11. CASE StoreLocal(t)
  <2> DEFINE c == [call[t] EXCEPT !.step = "store2"]
  <2>1. /\ c \in Doing /\ c.step = "store2"
        /\ c.acquired = call[t].acquired /\ c.beside = call[t].beside
    BY <1>1 DEF Doing, Steps, Locked, Leased
  <2>2. call' = [call EXCEPT ![t] = c] /\ lock' = lock /\ lease' = lease /\ call[t].step = "store"
    BY <1>11 DEF StoreLocal
  <2> HIDE DEF c
  <2> QED
    BY <1>3, <1>4, <2>1, <2>2, ThreadHolds DEF Leased
<1>12. CASE StoreRemote(t)
  <2> DEFINE c == [call[t] EXCEPT !.step = "release"]
  <2>1. /\ c \in Doing /\ c.step = "release"
        /\ c.acquired = call[t].acquired /\ c.beside = call[t].beside
    BY <1>1 DEF Doing, Steps, Locked, Leased
  <2>2. call' = [call EXCEPT ![t] = c] /\ lock' = lock /\ lease' = lease /\ call[t].step = "store2"
    BY <1>12 DEF StoreRemote
  <2> HIDE DEF c
  <2> QED
    BY <1>3, <1>4, <2>1, <2>2, ThreadHolds DEF Leased
<1>13. CASE Release(t)
  <2>1. call[t].got \in {None, "value", "error"}
    BY <1>1 DEF Doing
  <2>2. Ended(t, call[t].got) /\ (lease' = lease \/ (lease.owner = t /\ lease' = Free))
    BY <1>13 DEF Release
  <2> QED
    BY <1>2, <2>1, <2>2, EndHolds
<1> QED
  BY <1>5, <1>6, <1>7, <1>8, <1>9, <1>10, <1>11, <1>12, <1>13

\* Time passes: a lease that expires leaves its owner marked.
LEMMA TickHolds == LInv /\ Tick => LInv'
<1> SUFFICES ASSUME LInv, Tick PROVE LInv'
  OBVIOUS
<1>1. /\ lease' = (IF lease.left > 1 THEN [lease EXCEPT !.left = @ - 1] ELSE Free) /\ lock' = lock
      /\ lease \in [owner : Threads \cup {None}, left : Nat]
  BY DEF LInv, TypeOK, Tick
<1>2. ASSUME NEW t \in Threads
      PROVE  /\ call'[t] \in Doing /\ call'[t].step = call[t].step /\ call'[t].acquired = call[t].acquired
             /\ call'[t].beside =
                  (call[t].beside \/ (lease.owner = t /\ lease.left = 1 /\ call[t].acquired = "yes"))
  <2> DEFINE c == [call[t] EXCEPT !.left = Earlier(@),
                     !.beside = @ \/ (lease.owner = t /\ lease.left = 1 /\ call[t].acquired = "yes")]
  <2>1. call'[t] = c
    BY DEF Tick
  <2>2. call[t] \in Doing
    BY DEF LInv, TypeOK
  <2>3. Earlier(call[t].left) \in Nat
    BY <2>2 DEF Earlier, Doing
  <2> QED
    BY <2>1, <2>2, <2>3 DEF Doing
<1>3. call' \in [Threads -> Doing]
  BY <1>2 DEF Tick
<1>4. TypeOK'
  BY <1>1, <1>3 DEF LInv, TypeOK, Free
<1>5. HasLock'
  BY <1>1, <1>2 DEF LInv, HasLock
<1>6. Runs' /\ (lease'.owner = lease.owner \/ (lease.owner # None => lease.left = 1))
  BY <1>1 DEF LInv, Runs, Free
<1>7. HasLease'
  <2> SUFFICES ASSUME NEW t \in Threads
      PROVE  /\ call'[t].step \in Leased /\ call'[t].acquired = "yes" /\ ~call'[t].beside => lease'.owner = t
             /\ call'[t].step = "load" => call'[t].beside \/ call'[t].acquired = "yes"
    BY DEF HasLease
  <2>1. /\ call[t].step \in Leased /\ call[t].acquired = "yes" /\ ~call[t].beside => lease.owner = t
        /\ call[t].step = "load" => call[t].beside \/ call[t].acquired = "yes"
    BY DEF LInv, HasLease
  <2> QED
    BY <1>2, <1>6, <2>1, LoadAssumption
<1> QED
  BY <1>4, <1>5, <1>6, <1>7 DEF LInv

\* A killed process leaves no lock but its lease.
LEMMA KillHolds ==
  ASSUME LInv, NEW p \in Processes, Kill(p)
  PROVE  LInv'
<1>1. /\ lock' = [lock EXCEPT ![p] = None] /\ lease' = lease
      /\ call' = [t \in Threads |-> IF ProcessOf[t] = p THEN Idle ELSE call[t]]
  BY DEF Kill
<1>2. Idle \in Doing /\ Idle.step = "idle"
  BY DEF Idle, Doing, Steps
<1>3. TypeOK'
  BY <1>1, <1>2 DEF LInv, TypeOK
<1>4. HasLock' /\ Runs' /\ HasLease'
  BY <1>1, <1>2, LoadAssumption DEF LInv, TypeOK, HasLock, Runs, HasLease, Locked, Leased
<1> QED
  BY <1>3, <1>4 DEF LInv

\* Outages and lost entries touch no lock.
LEMMA OtherHolds == LInv /\ UNCHANGED <<lock, lease, call>> => LInv'
BY DEF LInv, TypeOK, HasLock, Runs, HasLease

\* Every step keeps the invariant.
LEMMA StepHolds == LInv /\ [Next]_vars => LInv'
<1> SUFFICES ASSUME LInv, [Next]_vars PROVE LInv'
  OBVIOUS
<1>1. CASE \E t \in Threads : Begin(t) \/ Step(t) \/ Return(t)
  BY <1>1, LockSteps, LeaseSteps DEF Step
<1>2. CASE \E p \in Processes : Kill(p)
  BY <1>2, KillHolds
<1>3. CASE Tick
  BY <1>3, TickHolds
<1>4. CASE Outage \/ Recover \/ Drop \/ UNCHANGED vars
  BY <1>4, OtherHolds DEF Outage, Recover, Drop, vars
<1> QED
  BY <1>1, <1>2, <1>3, <1>4 DEF Next
-----------------------------------------------------------------------------
\* Every reachable state satisfies the inductive invariant.
THEOREM LocksHeld == Spec => []LInv
BY InitHolds, StepHolds, PTL DEF Spec

\* However L2 fails and processes are killed, a process loads a key once at a
\* time; and all processes do, but for a thread that gave up waiting, that could
\* not ask for the lease, or whose lease expired (layered.py: get_or_load).
THEOREM LoadersExclude == Spec => []OneLoader
<1>1. LInv => OneLoader
  <2> SUFFICES ASSUME LInv, NEW t \in Loading, NEW u \in Loading, t # u
      PROVE  ProcessOf[t] # ProcessOf[u] /\ (call[t].beside \/ call[u].beside)
    BY DEF OneLoader
  <2>1. t \in Threads /\ u \in Threads /\ call[t].step = "load" /\ call[u].step = "load"
    BY DEF Loading
  <2>2. lock[ProcessOf[t]] = t /\ lock[ProcessOf[u]] = u
    BY <2>1 DEF LInv, HasLock, Locked, Leased
  <2>3. (call[t].beside \/ lease.owner = t) /\ (call[u].beside \/ lease.owner = u)
    BY <2>1 DEF LInv, HasLease, Leased
  <2> QED
    BY <2>2, <2>3
<1> QED
  BY <1>1, LocksHeld, PTL

\* Nobody gives up the lease of another thread: it is released by its owner, as
\* the last thing the owner does, or it expires (layered.py: get_or_load,
\* backend.py: release_lock).
THEOREM LeasesKept == Spec => LeaseKept
<1> DEFINE Taken == lease.owner # None /\ lease'.owner # lease.owner
           Given == \/ lease.left = 1 /\ lease'.owner = None
                    \/ call[lease.owner].step = "release" /\ call'[lease.owner].step = "done"
<1>1. LInv /\ [Next]_vars => [Taken => Given]_vars
  <2> SUFFICES ASSUME LInv, Next, Taken PROVE Given
    OBVIOUS
  <2>1. lease \in [owner : Threads \cup {None}, left : Nat] /\ lease.left > 0
    BY DEF LInv, TypeOK, Runs
  <2>2. CASE Tick
    <3>1. lease' = IF lease.left > 1 THEN [lease EXCEPT !.left = @ - 1] ELSE Free
      BY <2>2 DEF Tick
    <3>2. CASE lease.left > 1
      BY <2>1, <3>1, <3>2
    <3>3. CASE lease.left = 1
      BY <3>1, <3>3 DEF Free
    <3> QED
      BY <2>1, <3>2, <3>3
  <2>3. ASSUME NEW t \in Threads, Release(t) PROVE Given
    <3>1. lease.owner = t /\ call[t].step = "release"
      BY <2>3 DEF Release
    <3>2. call'[t].step = "done"
      BY <2>3 DEF Release, Ended, Idle, LInv, TypeOK
    <3> QED
      BY <3>1, <3>2
  <2>4. ASSUME NEW t \in Threads, Begin(t) \/ (Step(t) /\ ~Release(t)) \/ Return(t) PROVE FALSE
    BY <2>4 DEF Begin, Return, Step, Lookup, Lock, Recheck, Acquire, AcquireFails, AcquireLost,
                Poll, GiveUp, Load, StoreLocal, StoreRemote
  <2>5. ASSUME Outage \/ Recover \/ Drop \/ \E p \in Processes : Kill(p) PROVE FALSE
    BY <2>5 DEF Outage, Recover, Drop, Kill
  <2> QED
    BY <2>2, <2>3, <2>4, <2>5 DEF Next, Step
<1> QED
  BY <1>1, LocksHeld, PTL DEF Spec, LeaseKept
=============================================================================
