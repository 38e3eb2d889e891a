----------------------------- MODULE EntityStore -----------------------------
(***************************************************************************)
(* Identities on PostgreSQL, and the bars kept under them.  A worker that  *)
(* syncs a code asks EntityStore.ensure_entity for the code's entity_id in *)
(* one transaction, fetches the code's bars from the hub, and appends them *)
(* under that id in another.                                               *)
(*                                                                         *)
(* A statement sees what was committed before it, and its own transaction. *)
(* The primary keys of ref.entity and ref.entity_code_history hold the     *)
(* time of insertion: two rows with one id do not collide.  A worker may   *)
(* be killed at any step; the server then rolls its transaction back and   *)
(* releases its advisory lock.                                             *)
(***************************************************************************)
EXTENDS Naturals, FiniteSets, FiniteSetsExt

CONSTANTS
  Workers, Codes,
  Days,       \* the days of a window
  MaxCalls,   \* bound: calls of sync_daily_bar
  None

ASSUME StoreAssumption == MaxCalls \in Nat /\ None \notin Nat \cup Codes \cup Workers

VARIABLES
  entities,   \* committed rows of ref.entity
  history,    \* committed rows of ref.entity_code_history
  bars,       \* committed bars, each with the code it was fetched for
  locks,      \* advisory locks, each with its key and its owner
  worker,     \* what each worker does
  told,       \* the ids ensure_entity has answered with
  calls       \* calls so far

vars == <<entities, history, bars, locks, worker, told, calls>>

Idle == [step |-> "idle", code |-> None, id |-> None, entities |-> {}, history |-> {}]

Init ==
  /\ entities = {} /\ history = {} /\ bars = {} /\ locks = {} /\ told = {} /\ calls = 0
  /\ worker = [w \in Workers |-> Idle]

At(w, step) == worker[w].step = step
Goes(w, step) == worker' = [worker EXCEPT ![w].step = step]

\* What a statement of w's transaction sees.
Seen(w) == entities \cup worker[w].entities

\* Variant of LockKey: only those that allocate an id for one code exclude each other.
LockKey_PerCode(code) == code

\* _ALLOC_LOCK_KEY: one lock for all codes.
LockKey(code) == "fdp_entity:alloc"

\* coalesce(max(entity_id), ...) + 1
NextId(rows) == Max({r.id : r \in rows} \cup {0}) + 1
-----------------------------------------------------------------------------
(* ensure_entity *)

Sync(w, code) ==
  /\ At(w, "idle") /\ calls < MaxCalls
  /\ calls' = calls + 1
  /\ worker' = [worker EXCEPT ![w] = [Idle EXCEPT !.step = "lock", !.code = code]]
  /\ UNCHANGED <<entities, history, bars, locks, told>>

\* pg_advisory_xact_lock waits for whoever has the lock.
Lock(w) ==
  LET key == LockKey(worker[w].code) IN
  /\ At(w, "lock")
  /\ \A l \in locks : l.key # key
  /\ locks' = locks \cup {[key |-> key, owner |-> w]}
  /\ Goes(w, "lookup")
  /\ UNCHANGED <<entities, history, bars, told, calls>>

Lookup(w) ==
  LET found == {r \in Seen(w) : r.code = worker[w].code} IN
  /\ At(w, "lookup")
  /\ IF found = {} THEN Goes(w, "allocate")
     ELSE \E r \in found : worker' = [worker EXCEPT ![w].step = "commit", ![w].id = r.id]
  /\ UNCHANGED <<entities, history, bars, locks, told, calls>>

Allocate(w) ==
  /\ At(w, "allocate")
  /\ worker' = [worker EXCEPT ![w].step = "insert_entity", ![w].id = NextId(Seen(w))]
  /\ UNCHANGED <<entities, history, bars, locks, told, calls>>

InsertEntity(w) ==
  /\ At(w, "insert_entity")
  /\ worker' = [worker EXCEPT ![w].step = "insert_code",
                              ![w].entities = {[id |-> worker[w].id, code |-> worker[w].code]}]
  /\ UNCHANGED <<entities, history, bars, locks, told, calls>>

InsertCode(w) ==
  /\ At(w, "insert_code")
  /\ worker' = [worker EXCEPT ![w].step = "commit",
                              ![w].history = {[id |-> worker[w].id, code |-> worker[w].code]}]
  /\ UNCHANGED <<entities, history, bars, locks, told, calls>>

\* The rows become visible and the lock is free at once; the caller gets the id.
Commit(w) ==
  /\ At(w, "commit")
  /\ entities' = entities \cup worker[w].entities
  /\ history' = history \cup worker[w].history
  /\ locks' = {l \in locks : l.owner # w}
  /\ told' = told \cup {[id |-> worker[w].id, code |-> worker[w].code]}
  /\ worker' = [worker EXCEPT ![w].step = "fetch", ![w].entities = {}, ![w].history = {}]
  /\ UNCHANGED <<bars, calls>>
-----------------------------------------------------------------------------
(* sync_daily_bar after it *)

\* The bars of some days; a day that has a bar is left as it is, or revised.
Write(w) ==
  /\ At(w, "fetch")
  /\ \E days \in SUBSET Days :
       bars' = bars \cup {[id |-> worker[w].id, day |-> d, code |-> worker[w].code] : d \in days}
  /\ worker' = [worker EXCEPT ![w] = Idle]
  /\ UNCHANGED <<entities, history, locks, told, calls>>

\* A source, a statement or the process fails: what was not committed is gone.
Fail(w) ==
  /\ ~At(w, "idle")
  /\ locks' = {l \in locks : l.owner # w}
  /\ worker' = [worker EXCEPT ![w] = Idle]
  /\ UNCHANGED <<entities, history, bars, told, calls>>

Next ==
  \E w \in Workers :
    \/ \E code \in Codes : Sync(w, code)
    \/ Lock(w) \/ Lookup(w) \/ Allocate(w) \/ InsertEntity(w) \/ InsertCode(w) \/ Commit(w)
    \/ Write(w) \/ Fail(w)

Spec == Init /\ [][Next]_vars
-----------------------------------------------------------------------------
\* A code keeps the one id it first got, no two codes share an id, and the bars
\* under an id were all fetched for its code, whichever workers met the code at
\* once and died on the way (store.py: ensure_entity, daily_bar.py:
\* sync_daily_bar).
IdentityKept ==
  /\ entities = history
  /\ \A r, s \in told \cup entities : r.code = s.code <=> r.id = s.id
  /\ \A b \in bars, r \in entities : b.id = r.id <=> b.code = r.code
=============================================================================
