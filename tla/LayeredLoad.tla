----------------------------- MODULE LayeredLoad -----------------------------
(***************************************************************************)
(* get_or_load of the platform's layered cache, for one key, by the        *)
(* threads of several processes: a lock per process and key, and a lease   *)
(* in L2 (Redis) among the processes, which expires by itself.             *)
(*                                                                         *)
(* A call on L2 raises while L2 is down, and the cache carries on without  *)
(* it.  The answer to a request for the lease may also be lost after Redis *)
(* has granted it.  A process may be killed: its threads, its locks and    *)
(* its L1 are gone, its lease stays until it expires.  A token is known by *)
(* its thread: a thread that comes back finds its old lease taken or gone. *)
(***************************************************************************)
EXTENDS Naturals

CONSTANTS
  Processes, Threads,
  ProcessOf,    \* the process of a thread
  LeaseTtl,     \* lock_ttl, in ticks
  LockWait,     \* lock_wait, in ticks
  None,
  MaxCalls,     \* bound: calls of get_or_load
  MaxFaults     \* bound: outages, lost answers, kills, entries dropped

ASSUME LoadAssumption ==
  /\ ProcessOf \in [Threads -> Processes] /\ None \notin Threads
  /\ {LeaseTtl, LockWait} \subseteq Nat \ {0}
  /\ {MaxCalls, MaxFaults} \subseteq Nat

VARIABLES
  level1, level2,   \* whether the levels have the entry
  up,               \* L2 answers
  lock,             \* lock[p]: the thread that holds the process lock of the key
  lease,            \* the thread whose token the lease in L2 carries, the ticks it has left
  call,             \* where each thread is
  calls, faults

vars == <<level1, level2, up, lock, lease, call, calls, faults>>

Free == [owner |-> None, left |-> 0]
\* beside: the thread may load beside another, and this is why it may: it could
\* not ask for the lease, gave up waiting for it, or kept it too long.
Idle == [step |-> "idle", acquired |-> None, left |-> 0, got |-> None, beside |-> FALSE]

Init ==
  /\ level1 = [p \in Processes |-> FALSE] /\ level2 = FALSE /\ up = TRUE
  /\ lock = [p \in Processes |-> None] /\ lease = Free
  /\ call = [t \in Threads |-> Idle]
  /\ calls = 0 /\ faults = 0

Loading == {t \in Threads : call[t].step = "load"}

Fault == faults < MaxFaults /\ faults' = faults + 1
-----------------------------------------------------------------------------
(* _lookup *)

\* A level that raises is passed over.
Hit(p) == level1[p] \/ (up /\ level2)

Begin(t) ==
  /\ call[t].step = "idle" /\ calls < MaxCalls
  /\ calls' = calls + 1
  /\ call' = [call EXCEPT ![t].step = "lookup"]
  /\ UNCHANGED <<level1, level2, up, lock, lease, faults>>

Lookup(t) ==
  /\ call[t].step = "lookup"
  /\ call' = [call EXCEPT ![t] = IF Hit(ProcessOf[t]) THEN [@ EXCEPT !.step = "done", !.got = "value"]
                                 ELSE [@ EXCEPT !.step = "lock"]]
  /\ UNCHANGED <<level1, level2, up, lock, lease, calls, faults>>

\* Variant of Lock: the lock of another thread of the process does not exclude.
Lock_Shared(t) ==
  /\ call[t].step = "lock"
  /\ lock' = [lock EXCEPT ![ProcessOf[t]] = t]
  /\ call' = [call EXCEPT ![t].step = "recheck"]
  /\ UNCHANGED <<level1, level2, up, lease, calls, faults>>

Lock(t) ==
  /\ call[t].step = "lock" /\ lock[ProcessOf[t]] = None
  /\ lock' = [lock EXCEPT ![ProcessOf[t]] = t]
  /\ call' = [call EXCEPT ![t].step = "recheck"]
  /\ UNCHANGED <<level1, level2, up, lease, calls, faults>>

\* The call ends and the process lock is released.
Ended(t, got) ==
  /\ call' = [call EXCEPT ![t] = [Idle EXCEPT !.step = "done", !.got = got]]
  /\ lock' = [lock EXCEPT ![ProcessOf[t]] = None]

Recheck(t) ==
  /\ call[t].step = "recheck"
  /\ IF Hit(ProcessOf[t]) THEN Ended(t, "value")
     ELSE call' = [call EXCEPT ![t].step = "acquire"] /\ UNCHANGED lock
  /\ UNCHANGED <<level1, level2, up, lease, calls, faults>>
-----------------------------------------------------------------------------
(* The lease *)

\* The lease is free and taken, or another's: then the thread waits.
Acquire(t) ==
  /\ call[t].step = "acquire" /\ up
  /\ IF lease.owner = None
     THEN /\ lease' = [owner |-> t, left |-> LeaseTtl]
          /\ call' = [call EXCEPT ![t].step = "load", ![t].acquired = "yes"]
     ELSE /\ call' = [call EXCEPT ![t].step = "poll", ![t].acquired = "no", ![t].left = LockWait]
          /\ UNCHANGED lease
  /\ UNCHANGED <<level1, level2, up, lock, calls, faults>>

\* L2 does not answer: the thread loads without a lease.
AcquireFails(t) ==
  /\ call[t].step = "acquire" /\ ~up
  /\ call' = [call EXCEPT ![t].step = "load", ![t].acquired = "error", ![t].beside = TRUE]
  /\ UNCHANGED <<level1, level2, up, lock, lease, calls, faults>>

\* Redis grants the lease and the answer is lost: nobody will release it.
AcquireLost(t) ==
  /\ Fault
  /\ call[t].step = "acquire" /\ up
  /\ lease' = IF lease.owner = None THEN [owner |-> t, left |-> LeaseTtl] ELSE lease
  /\ call' = [call EXCEPT ![t].step = "load", ![t].acquired = "error", ![t].beside = TRUE]
  /\ UNCHANGED <<level1, level2, up, lock, calls>>

\* Variant of GiveUp: the thread waits for the entry, not for its deadline.
GiveUp_Never(t) ==
  /\ call[t].step = "poll" /\ call[t].left = 0 /\ up /\ level2
  /\ call' = [call EXCEPT ![t].step = "load"]
  /\ UNCHANGED <<level1, level2, up, lock, lease, calls, faults>>

\* One look after the deadline, and the thread loads without the lease.
GiveUp(t) ==
  /\ call[t].step = "poll" /\ call[t].left = 0 /\ ~Hit(ProcessOf[t])
  /\ call' = [call EXCEPT ![t].step = "load", ![t].beside = TRUE]
  /\ UNCHANGED <<level1, level2, up, lock, lease, calls, faults>>

Poll(t) ==
  /\ call[t].step = "poll" /\ Hit(ProcessOf[t])
  /\ Ended(t, "value")
  /\ UNCHANGED <<level1, level2, up, lease, calls, faults>>

Load(t) ==
  /\ call[t].step = "load"
  /\ \E got \in {"value", "error"} :
       call' = [call EXCEPT ![t].step = IF got = "value" THEN "store" ELSE "release", ![t].got = got]
  /\ UNCHANGED <<level1, level2, up, lock, lease, calls, faults>>

StoreLocal(t) ==
  /\ call[t].step = "store"
  /\ level1' = [level1 EXCEPT ![ProcessOf[t]] = TRUE]
  /\ call' = [call EXCEPT ![t].step = "store2"]
  /\ UNCHANGED <<level2, up, lock, lease, calls, faults>>

StoreRemote(t) ==
  /\ call[t].step = "store2"
  /\ level2' = (level2 \/ up)
  /\ call' = [call EXCEPT ![t].step = "release"]
  /\ UNCHANGED <<level1, up, lock, lease, calls, faults>>

\* Variant of Release: the lease is deleted whoever has it.
Release_AnyToken(t) ==
  /\ call[t].step = "release"
  /\ lease' = IF call[t].acquired = "yes" /\ up THEN Free ELSE lease
  /\ Ended(t, call[t].got)
  /\ UNCHANGED <<level1, level2, up, calls, faults>>

\* finally: the lease is released by a thread that was given it, if L2 answers
\* and the lease still carries its token.
Release(t) ==
  /\ call[t].step = "release"
  /\ lease' = IF call[t].acquired = "yes" /\ up /\ lease.owner = t THEN Free ELSE lease
  /\ Ended(t, call[t].got)
  /\ UNCHANGED <<level1, level2, up, calls, faults>>

Return(t) ==
  /\ call[t].step = "done"
  /\ call' = [call EXCEPT ![t] = Idle]
  /\ UNCHANGED <<level1, level2, up, lock, lease, calls, faults>>
-----------------------------------------------------------------------------
Earlier(n) == IF n = 0 THEN 0 ELSE n - 1

\* A tick passes; the lease expires at the end of its last one, also under a
\* thread that is still loading.
Tick ==
  /\ lease' = IF lease.left > 1 THEN [lease EXCEPT !.left = @ - 1] ELSE Free
  /\ call' = [t \in Threads |->
       [call[t] EXCEPT !.left = Earlier(@),
                       !.beside = @ \/ (lease.owner = t /\ lease.left = 1 /\ call[t].acquired = "yes")]]
  /\ UNCHANGED <<level1, level2, up, lock, calls, faults>>

Outage ==
  /\ Fault /\ up /\ up' = FALSE
  /\ UNCHANGED <<level1, level2, lock, lease, call, calls>>

Recover ==
  /\ ~up /\ up' = TRUE
  /\ UNCHANGED <<level1, level2, lock, lease, call, calls, faults>>

\* TTL or eviction.
Drop ==
  /\ Fault
  /\ \/ \E p \in Processes : level1[p] /\ level1' = [level1 EXCEPT ![p] = FALSE] /\ UNCHANGED level2
     \/ level2 /\ level2' = FALSE /\ UNCHANGED level1
  /\ UNCHANGED <<up, lock, lease, call, calls>>

Kill(p) ==
  /\ Fault
  /\ level1' = [level1 EXCEPT ![p] = FALSE]
  /\ lock' = [lock EXCEPT ![p] = None]
  /\ call' = [t \in Threads |-> IF ProcessOf[t] = p THEN Idle ELSE call[t]]
  /\ UNCHANGED <<level2, up, lease, calls>>

Step(t) ==
  \/ Lookup(t) \/ Lock(t) \/ Recheck(t) \/ Acquire(t) \/ AcquireFails(t) \/ AcquireLost(t)
  \/ Poll(t) \/ GiveUp(t) \/ Load(t) \/ StoreLocal(t) \/ StoreRemote(t) \/ Release(t)

Next ==
  \/ \E t \in Threads : Begin(t) \/ Step(t) \/ Return(t)
  \/ \E p \in Processes : Kill(p)
  \/ Tick \/ Outage \/ Recover \/ Drop

\* Threads go on, loaders end, and time passes.  L2 need not come back.
Spec == Init /\ [][Next]_vars /\ WF_vars(Tick) /\ \A t \in Threads : WF_vars(Step(t))
-----------------------------------------------------------------------------
\* One thread of a process loads the key at a time, whatever L2 does; and one
\* thread of all processes does, but for those that gave up waiting, that could
\* not ask for the lease, or whose lease expired while they were loading.
OneLoader ==
  /\ \A t, u \in Loading : t # u => ProcessOf[t] # ProcessOf[u]
  /\ \A t, u \in Loading : t # u => call[t].beside \/ call[u].beside

\* A lease is given up by its owner or expires: a slow loader whose lease went to
\* another process leaves that process's lease alone.
LeaseKept ==
  [][(lease.owner # None /\ lease'.owner # lease.owner) =>
       \/ lease.left = 1 /\ lease'.owner = None
       \/ call[lease.owner].step = "release" /\ call'[lease.owner].step = "done"]_vars

\* Every call ends: no lock outlives a killed process but the lease, and nobody
\* waits for that longer than lock_wait.
Answered == \A t \in Threads : call[t].step # "idle" ~> call[t].step \in {"idle", "done"}
=============================================================================
