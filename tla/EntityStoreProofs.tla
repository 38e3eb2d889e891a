-------------------------- MODULE EntityStoreProofs --------------------------
(***************************************************************************)
(* Identities stay one to one with codes, for any number of workers, codes *)
(* and calls.  The allocation lock makes ensure_entity a critical section  *)
(* from its lookup to its commit; inside it nobody else commits, so what   *)
(* the lookup and max(entity_id) saw still holds when the rows are         *)
(* inserted.  The committed ids are 1..n: the next one is new.             *)
(***************************************************************************)
EXTENDS EntityStore, TLAPS

Inside == {"lookup", "allocate", "insert_entity", "insert_code", "commit"}
Steps == Inside \cup {"idle", "lock", "fetch"}
Row == [id : Nat, code : Codes]

Doing == [step : Steps, code : Codes \cup {None}, id : Nat \cup {None}, entities : SUBSET Row, history : SUBSET Row]

TypeOK ==
  /\ entities \subseteq Row /\ told \subseteq Row
  /\ bars \subseteq [id : Nat, day : Days, code : Codes]
  /\ locks \subseteq [key : {"fdp_entity:alloc"}, owner : Workers]
  /\ worker \in [Workers -> Doing]

\* Whoever is inside has the lock, and is alone.
LockHeld ==
  \A w \in Workers : worker[w].step \in Inside => [key |-> "fdp_entity:alloc", owner |-> w] \in locks
Alone == \A v, w \in Workers : worker[v].step \in Inside /\ worker[w].step \in Inside => v = w

Ids == {r.id : r \in entities}
OneToOne == \A r, s \in entities : r.code = s.code <=> r.id = s.id
Dense == \E n \in Ids \cup {0} : Ids = 1..n

Mine(w) == [id |-> worker[w].id, code |-> worker[w].code]
New(w) ==
  /\ worker[w].id \in Nat \ {0} /\ Ids = 1..(worker[w].id - 1)
  /\ \A r \in entities : r.code # worker[w].code

\* What a worker knows at each step.
Knows(w) ==
  /\ worker[w].step # "idle" => worker[w].code \in Codes
  /\ worker[w].step \notin {"insert_code", "commit"} => worker[w].entities = {} /\ worker[w].history = {}
  /\ worker[w].step = "allocate" => \A r \in entities : r.code # worker[w].code
  /\ worker[w].step = "insert_entity" => New(w)
  /\ worker[w].step = "insert_code" => New(w) /\ worker[w].entities = {Mine(w)} /\ worker[w].history = {}
  /\ worker[w].step = "commit" =>
       \/ worker[w].entities = {} /\ worker[w].history = {} /\ Mine(w) \in entities
       \/ New(w) /\ worker[w].entities = {Mine(w)} /\ worker[w].history = {Mine(w)}
  /\ worker[w].step = "fetch" => Mine(w) \in entities

Recorded ==
  /\ entities = history /\ told \subseteq entities
  /\ \A b \in bars : [id |-> b.id, code |-> b.code] \in entities

IInv ==
  /\ TypeOK /\ LockHeld /\ Alone /\ OneToOne /\ Dense /\ Recorded
  /\ \A w \in Workers : Knows(w)
-----------------------------------------------------------------------------
\* The id after 1..n is n + 1.
LEMMA NextIdIsNew ==
  ASSUME Dense, entities \subseteq Row
  PROVE  NextId(entities) \in Nat \ {0} /\ Ids = 1..(NextId(entities) - 1)
<1> DEFINE S == Ids \cup {0}
<1>1. PICK n \in S : Ids = 1..n
  BY DEF Dense
<1>2. n \in Nat
  BY <1>1 DEF Ids, Row
<1>3. S = 0..n
  BY <1>1, <1>2
<1>4. Max(S) = n
  <2> HIDE DEF S
  <2>1. n \in S /\ \A y \in S : n >= y
    BY <1>2, <1>3
  <2>2. \A x \in S : (\A y \in S : x >= y) => x = n
    BY <1>2, <1>3
  <2> QED
    BY <2>1, <2>2 DEF Max
<1>5. NextId(entities) = n + 1
  BY <1>4 DEF NextId, Ids
<1> QED
  <2> HIDE DEF S
  <2> QED
    BY <1>1, <1>2, <1>5

\* What a worker knows stays true while another one moves, if that one commits
\* nothing or the worker is not inside.
LEMMA OthersKnow ==
  ASSUME NEW v \in Workers, Knows(v), worker'[v] = worker[v], entities \subseteq entities',
         entities' = entities \/ worker[v].step \notin Inside
  PROVE  Knows(v)'
<1>1. CASE entities' = entities
  BY <1>1 DEF Knows, Mine, New, Ids
<1>2. CASE worker[v].step \notin Inside
  BY <1>2 DEF Knows, Mine, Inside
<1> QED
  BY <1>1, <1>2

\* At first nothing is stored and nobody is at work.
LEMMA InitHolds == Init => IInv
<1> SUFFICES ASSUME Init PROVE IInv
  OBVIOUS
<1>1. Ids = {}
  BY DEF Init, Ids
<1>2. TypeOK
  BY DEF Init, TypeOK, Doing, Idle, Steps, Inside
<1>3. Dense
  BY <1>1 DEF Dense
<1>4. LockHeld /\ Alone /\ OneToOne /\ Recorded /\ \A w \in Workers : Knows(w)
  BY DEF Init, Idle, Inside, LockHeld, Alone, OneToOne, Recorded, Knows
<1> QED
  BY <1>2, <1>3, <1>4 DEF IInv

\* A step of a worker that commits nothing changes nothing that is committed.
LEMMA KeepsCommitted ==
  ASSUME IInv, UNCHANGED <<entities, history, bars, told>>
  PROVE  OneToOne' /\ Dense' /\ Recorded'
BY DEF IInv, OneToOne, Dense, Recorded, Ids

\* The steps outside the critical section: a call begins, and it ends.
LEMMA SyncHolds ==
  ASSUME IInv, NEW w \in Workers, NEW c \in Codes, Sync(w, c)
  PROVE  IInv'
<1>1. TypeOK'
  BY DEF IInv, TypeOK, Doing, Sync, Idle, Steps, Inside
<1>2. LockHeld' /\ Alone'
  BY DEF IInv, TypeOK, Doing, LockHeld, Alone, Sync, Idle, Inside
<1>3. OneToOne' /\ Dense' /\ Recorded'
  BY KeepsCommitted DEF Sync
<1>4. ASSUME NEW v \in Workers PROVE Knows(v)'
  <2>1. CASE v = w
    BY <2>1 DEF IInv, TypeOK, Doing, Sync, Idle, Knows
  <2>2. CASE v # w
    BY <2>2, OthersKnow DEF IInv, TypeOK, Doing, Sync
  <2> QED
    BY <2>1, <2>2
<1> QED
  BY <1>1, <1>2, <1>3, <1>4 DEF IInv

\* Bars are stored under the id their code was committed with.
LEMMA WriteHolds ==
  ASSUME IInv, NEW w \in Workers, Write(w)
  PROVE  IInv'
<1>1. PICK days \in SUBSET Days :
        bars' = bars \cup {[id |-> worker[w].id, day |-> d, code |-> worker[w].code] : d \in days}
  BY DEF Write
<1>2. Mine(w) \in entities /\ worker[w].id \in Nat /\ worker[w].code \in Codes
  BY DEF IInv, TypeOK, Doing, Write, At, Knows, Mine, Row
<1>3. bars' \subseteq [id : Nat, day : Days, code : Codes]
  BY <1>1, <1>2 DEF IInv, TypeOK, Doing
<1>4. TypeOK'
  BY <1>3 DEF IInv, TypeOK, Doing, Write, Idle, Steps, Inside
<1>5. LockHeld' /\ Alone'
  BY DEF IInv, TypeOK, Doing, LockHeld, Alone, Write, Idle, Inside
<1>6. Recorded'
  BY <1>1, <1>2 DEF IInv, Recorded, Write, Mine
<1>7. OneToOne' /\ Dense'
  BY DEF IInv, OneToOne, Dense, Ids, Write
<1>8. ASSUME NEW v \in Workers PROVE Knows(v)'
  <2>1. CASE v = w
    BY <2>1 DEF IInv, TypeOK, Doing, Write, Idle, Knows
  <2>2. CASE v # w
    BY <2>2, OthersKnow DEF IInv, TypeOK, Doing, Write
  <2> QED
    BY <2>1, <2>2
<1> QED
  BY <1>4, <1>5, <1>6, <1>7, <1>8 DEF IInv

\* A failed worker leaves the critical section and what it had not committed.
LEMMA FailHolds ==
  ASSUME IInv, NEW w \in Workers, Fail(w)
  PROVE  IInv'
<1>1. TypeOK'
  BY DEF IInv, TypeOK, Doing, Fail, Idle, Steps, Inside
<1>2. LockHeld' /\ Alone'
  BY DEF IInv, TypeOK, Doing, LockHeld, Alone, Fail, Idle, Inside
<1>3. OneToOne' /\ Dense' /\ Recorded'
  BY KeepsCommitted DEF Fail
<1>4. ASSUME NEW v \in Workers PROVE Knows(v)'
  <2>1. CASE v = w
    BY <2>1 DEF IInv, TypeOK, Doing, Fail, Idle, Knows
  <2>2. CASE v # w
    BY <2>2, OthersKnow DEF IInv, TypeOK, Doing, Fail
  <2> QED
    BY <2>1, <2>2
<1> QED
  BY <1>1, <1>2, <1>3, <1>4 DEF IInv

\* The steps of the critical section, of which all but the last commit nothing.
LEMMA LockHolds ==
  ASSUME IInv, NEW w \in Workers, Lock(w)
  PROVE  IInv'
<1>1. TypeOK'
  BY DEF IInv, TypeOK, Doing, Lock, LockKey, Goes, At, Steps, Inside
<1>2. LockHeld' /\ Alone'
  BY DEF IInv, TypeOK, Doing, LockHeld, Alone, Lock, LockKey, Goes, At, Inside
<1>3. OneToOne' /\ Dense' /\ Recorded'
  BY KeepsCommitted DEF Lock
<1>4. ASSUME NEW v \in Workers PROVE Knows(v)'
  <2>1. CASE v = w
    BY <2>1 DEF IInv, TypeOK, Doing, Lock, Goes, At, Knows
  <2>2. CASE v # w
    BY <2>2, OthersKnow DEF IInv, TypeOK, Doing, Lock, Goes
  <2> QED
    BY <2>1, <2>2
<1> QED
  BY <1>1, <1>2, <1>3, <1>4 DEF IInv

\* A worker goes on with an id.
LEMMA IdKeepsType ==
  ASSUME TypeOK, NEW w \in Workers, NEW step \in Steps, NEW id \in Nat \cup {None},
         worker' = [worker EXCEPT ![w].step = step, ![w].id = id], UNCHANGED <<entities, bars, locks, told>>
  PROVE  TypeOK'
<1> DEFINE c == [worker[w] EXCEPT !.step = step, !.id = id]
<1>1. c \in Doing
  BY DEF TypeOK, Doing
<1>2. worker' = [worker EXCEPT ![w] = c]
  OBVIOUS
<1> HIDE DEF c
<1>3. worker' \in [Workers -> Doing]
  BY <1>1, <1>2 DEF TypeOK
<1> QED
  BY <1>3 DEF TypeOK

\* Whether the code has a row is decided under the lock.
LEMMA LookupHolds ==
  ASSUME IInv, NEW w \in Workers, Lookup(w)
  PROVE  IInv'
<1>1. UNCHANGED <<entities, history, bars, locks, told, calls>> /\ worker[w].step = "lookup"
  BY DEF Lookup, At
<1>2. worker[w].code \in Codes /\ worker[w].entities = {} /\ worker[w].history = {}
  BY <1>1 DEF IInv, Knows
<1>3. \/ /\ worker' = [worker EXCEPT ![w].step = "allocate"]
         /\ \A r \in entities : r.code # worker[w].code
      \/ \E r \in entities : /\ r.code = worker[w].code
                            /\ worker' = [worker EXCEPT ![w].step = "commit", ![w].id = r.id]
  BY <1>2 DEF Lookup, Seen, Goes
<1>4. ASSUME worker' = [worker EXCEPT ![w].step = "allocate"], \A r \in entities : r.code # worker[w].code
      PROVE  IInv'
  <2>1. TypeOK'
    BY <1>1, <1>4 DEF IInv, TypeOK, Doing, Steps, Inside
  <2>2. LockHeld' /\ Alone'
    BY <1>1, <1>4 DEF IInv, TypeOK, Doing, LockHeld, Alone, Inside
  <2>3. ASSUME NEW v \in Workers PROVE Knows(v)'
    <3>1. CASE v = w
      BY <1>1, <1>2, <1>4, <3>1 DEF IInv, TypeOK, Doing, Knows
    <3>2. CASE v # w
      BY <1>1, <1>4, <3>2, OthersKnow DEF IInv, TypeOK, Doing
    <3> QED
      BY <3>1, <3>2
  <2> QED
    BY <1>1, <2>1, <2>2, <2>3, KeepsCommitted DEF IInv
<1>5. ASSUME NEW r \in entities, r.code = worker[w].code,
             worker' = [worker EXCEPT ![w].step = "commit", ![w].id = r.id]
      PROVE  IInv'
  <2>1. r.id \in Nat /\ r = [id |-> r.id, code |-> worker[w].code]
    BY <1>5 DEF IInv, TypeOK, Row
  <2>2. TypeOK'
    <3>1. "commit" \in Steps
      BY DEF Steps, Inside
    <3> QED
      BY <1>1, <1>5, <2>1, <3>1, IdKeepsType DEF IInv
  <2>3. LockHeld' /\ Alone'
    BY <1>1, <1>5 DEF IInv, TypeOK, Doing, LockHeld, Alone, Inside
  <2>4. ASSUME NEW v \in Workers PROVE Knows(v)'
    <3>1. CASE v = w
      <4>1. /\ worker'[w].step = "commit" /\ worker'[w].id = r.id
            /\ worker'[w].code = worker[w].code /\ worker'[w].entities = worker[w].entities
            /\ worker'[w].history = worker[w].history
        BY <1>5 DEF IInv, TypeOK, Doing
      <4>2. Mine(w)' \in entities'
        BY <1>1, <2>1, <4>1 DEF Mine
      <4> QED
        BY <1>2, <3>1, <4>1, <4>2 DEF Knows
    <3>2. CASE v # w
      BY <1>1, <1>5, <3>2, OthersKnow DEF IInv, TypeOK, Doing
    <3> QED
      BY <3>1, <3>2
  <2> QED
    BY <1>1, <2>2, <2>3, <2>4, KeepsCommitted DEF IInv
<1> QED
  BY <1>3, <1>4, <1>5

\* The id computed under the lock is new.
LEMMA AllocateHolds ==
  ASSUME IInv, NEW w \in Workers, Allocate(w)
  PROVE  IInv'
<1>1. TypeOK'
  <2>1. NextId(Seen(w)) \in Nat
    BY NextIdIsNew DEF IInv, TypeOK, Doing, Allocate, At, Knows, Seen
  <2>2. "insert_entity" \in Steps
    BY DEF Steps, Inside
  <2> QED
    BY <2>1, <2>2, IdKeepsType DEF IInv, Allocate
<1>2. LockHeld' /\ Alone'
  BY DEF IInv, TypeOK, Doing, LockHeld, Alone, Allocate, At, Inside
<1>3. OneToOne' /\ Dense' /\ Recorded'
  BY KeepsCommitted DEF Allocate
<1>4. ASSUME NEW v \in Workers PROVE Knows(v)'
  <2>1. CASE v = w
    <3>1. Seen(w) = entities
      BY DEF IInv, Allocate, At, Knows, Seen
    <3>2. worker'[w] = [worker[w] EXCEPT !.step = "insert_entity", !.id = NextId(entities)]
      BY <3>1 DEF IInv, TypeOK, Doing, Allocate
    <3>3. NextId(entities) \in Nat \ {0} /\ Ids = 1..(NextId(entities) - 1)
      BY NextIdIsNew DEF IInv, TypeOK, Doing
    <3>4. /\ worker'[w].step = "insert_entity" /\ worker'[w].id = NextId(entities)
          /\ worker'[w].code = worker[w].code /\ worker'[w].entities = worker[w].entities
          /\ worker'[w].history = worker[w].history
      BY <3>2 DEF IInv, TypeOK, Doing
    <3>5. /\ worker[w].code \in Codes /\ worker[w].entities = {} /\ worker[w].history = {}
          /\ \A r \in entities : r.code # worker[w].code
      BY DEF IInv, Allocate, At, Knows
    <3>6. entities' = entities
      BY DEF Allocate
    <3>7. New(w)'
      BY <3>3, <3>4, <3>5, <3>6 DEF New, Ids
    <3> QED
      BY <2>1, <3>4, <3>5, <3>7 DEF Knows
  <2>2. CASE v # w
    BY <2>2, OthersKnow DEF IInv, TypeOK, Doing, Allocate, Goes
  <2> QED
    BY <2>1, <2>2
<1> QED
  BY <1>1, <1>2, <1>3, <1>4 DEF IInv

\* The row of the entity waits for its commit.
LEMMA InsertEntityHolds ==
  ASSUME IInv, NEW w \in Workers, InsertEntity(w)
  PROVE  IInv'
<1>1. TypeOK'
  <2>1. Mine(w) \in Row
    BY DEF IInv, TypeOK, Doing, InsertEntity, At, Knows, New, Mine, Row
  <2>2. worker' = [worker EXCEPT ![w] = [worker[w] EXCEPT !.step = "insert_code", !.entities = {Mine(w)}]]
    BY DEF InsertEntity, Mine
  <2>3. [worker[w] EXCEPT !.step = "insert_code", !.entities = {Mine(w)}] \in Doing
    BY <2>1 DEF IInv, TypeOK, Doing, Steps, Inside
  <2>4. worker' \in [Workers -> Doing]
    BY <2>2, <2>3 DEF IInv, TypeOK
  <2> QED
    BY <2>4 DEF IInv, TypeOK, InsertEntity
<1>2. LockHeld' /\ Alone'
  BY DEF IInv, TypeOK, Doing, LockHeld, Alone, InsertEntity, At, Inside
<1>3. OneToOne' /\ Dense' /\ Recorded'
  BY KeepsCommitted DEF InsertEntity
<1>4. ASSUME NEW v \in Workers PROVE Knows(v)'
  <2>1. CASE v = w
    <3>1. /\ worker'[w].step = "insert_code" /\ worker'[w].id = worker[w].id
          /\ worker'[w].code = worker[w].code /\ worker'[w].entities = {Mine(w)}
          /\ worker'[w].history = worker[w].history
      BY DEF IInv, TypeOK, Doing, InsertEntity, Mine
    <3>2. New(w) /\ worker[w].code \in Codes /\ worker[w].history = {}
      BY DEF IInv, InsertEntity, At, Knows
    <3>3. entities' = entities
      BY DEF InsertEntity
    <3>4. New(w)' /\ Mine(w)' = Mine(w)
      BY <3>1, <3>2, <3>3 DEF New, Ids, Mine
    <3> QED
      BY <2>1, <3>1, <3>2, <3>4 DEF Knows
  <2>2. CASE v # w
    BY <2>2, OthersKnow DEF IInv, TypeOK, Doing, InsertEntity, Goes
  <2> QED
    BY <2>1, <2>2
<1> QED
  BY <1>1, <1>2, <1>3, <1>4 DEF IInv

\* The row of the code waits for its commit.
LEMMA InsertCodeHolds ==
  ASSUME IInv, NEW w \in Workers, InsertCode(w)
  PROVE  IInv'
<1>1. TypeOK'
  <2>1. Mine(w) \in Row
    BY DEF IInv, TypeOK, Doing, InsertCode, At, Knows, New, Mine, Row
  <2>2. worker' = [worker EXCEPT ![w] = [worker[w] EXCEPT !.step = "commit", !.history = {Mine(w)}]]
    BY DEF InsertCode, Mine
  <2>3. [worker[w] EXCEPT !.step = "commit", !.history = {Mine(w)}] \in Doing
    BY <2>1 DEF IInv, TypeOK, Doing, Steps, Inside
  <2>4. worker' \in [Workers -> Doing]
    BY <2>2, <2>3 DEF IInv, TypeOK
  <2> QED
    BY <2>4 DEF IInv, TypeOK, InsertCode
<1>2. LockHeld' /\ Alone'
  BY DEF IInv, TypeOK, Doing, LockHeld, Alone, InsertCode, At, Inside
<1>3. OneToOne' /\ Dense' /\ Recorded'
  BY KeepsCommitted DEF InsertCode
<1>4. ASSUME NEW v \in Workers PROVE Knows(v)'
  <2>1. CASE v = w
    <3>1. /\ worker'[w].step = "commit" /\ worker'[w].id = worker[w].id
          /\ worker'[w].code = worker[w].code /\ worker'[w].history = {Mine(w)}
          /\ worker'[w].entities = worker[w].entities
      BY DEF IInv, TypeOK, Doing, InsertCode, Mine
    <3>2. New(w) /\ worker[w].code \in Codes /\ worker[w].entities = {Mine(w)}
      BY DEF IInv, InsertCode, At, Knows
    <3>3. entities' = entities
      BY DEF InsertCode
    <3>4. New(w)' /\ Mine(w)' = Mine(w)
      BY <3>1, <3>2, <3>3 DEF New, Ids, Mine
    <3> QED
      BY <2>1, <3>1, <3>2, <3>4 DEF Knows
  <2>2. CASE v # w
    BY <2>2, OthersKnow DEF IInv, TypeOK, Doing, InsertCode, Goes
  <2> QED
    BY <2>1, <2>2
<1> QED
  BY <1>1, <1>2, <1>3, <1>4 DEF IInv

\* The last step of the critical section: the new row, if there is one, has the
\* next id and a code no row has.
LEMMA CommitHolds ==
  ASSUME IInv, NEW w \in Workers, Commit(w)
  PROVE  IInv'
<1>1. /\ worker[w].step = "commit" /\ worker[w].code \in Codes
      /\ entities' = entities \cup worker[w].entities /\ history' = history \cup worker[w].history
      /\ told' = told \cup {Mine(w)} /\ bars' = bars
      /\ locks' = {l \in locks : l.owner # w}
      /\ worker' = [worker EXCEPT ![w].step = "fetch", ![w].entities = {}, ![w].history = {}]
  BY DEF IInv, Knows, Commit, At, Mine
<1>2. \/ worker[w].entities = {} /\ worker[w].history = {} /\ Mine(w) \in entities
      \/ New(w) /\ worker[w].entities = {Mine(w)} /\ worker[w].history = {Mine(w)}
  BY <1>1 DEF IInv, Knows
<1>3. Mine(w) \in Row /\ Mine(w) \in entities'
  BY <1>1, <1>2 DEF IInv, TypeOK, New, Mine, Row
<1>4. TypeOK'
  <2>1. entities' \subseteq Row /\ told' \subseteq Row
    BY <1>1, <1>2, <1>3 DEF IInv, TypeOK
  <2>2. [worker[w] EXCEPT !.step = "fetch", !.entities = {}, !.history = {}] \in Doing
    BY DEF IInv, TypeOK, Doing, Steps, Inside
  <2>3. worker' \in [Workers -> Doing]
    BY <1>1, <2>2 DEF IInv, TypeOK
  <2> QED
    BY <1>1, <2>1, <2>3 DEF IInv, TypeOK
<1>5. /\ worker'[w].step = "fetch" /\ worker'[w].id = worker[w].id
      /\ worker'[w].code = worker[w].code /\ worker'[w].entities = {} /\ worker'[w].history = {}
  BY <1>1 DEF IInv, TypeOK, Doing
<1>6. \A v \in Workers : v # w => worker'[v] = worker[v]
  BY <1>1 DEF IInv, TypeOK
<1>7. \A v \in Workers : v # w => worker[v].step \notin Inside
  BY <1>1 DEF IInv, Alone, Inside
<1>8. LockHeld' /\ Alone'
  BY <1>1, <1>5, <1>6, <1>7 DEF LockHeld, Alone, Inside
<1>9. Recorded'
  <2>1. entities' = history'
    BY <1>1, <1>2 DEF IInv, Recorded
  <2>2. told' \subseteq entities'
    BY <1>1, <1>3 DEF IInv, Recorded
  <2> QED
    BY <1>1, <2>1, <2>2 DEF IInv, Recorded
<1>10. OneToOne' /\ Dense'
  <2>1. CASE worker[w].entities = {}
    BY <1>1, <2>1 DEF IInv, OneToOne, Dense, Ids
  <2>2. CASE New(w) /\ worker[w].entities = {Mine(w)}
    <3>1. /\ worker[w].id \in Nat \ {0} /\ Ids = 1..(worker[w].id - 1)
          /\ \A r \in entities : r.code # worker[w].code
      BY <2>2 DEF New
    <3>2. \A r \in entities : r.id # worker[w].id
      <4>1. \A r \in entities : r.id \in Ids
        BY DEF Ids
      <4> QED
        BY <3>1, <4>1
    <3>3. entities' = entities \cup {Mine(w)}
      BY <1>1, <2>2
    <3>4. OneToOne'
      BY <3>1, <3>2, <3>3 DEF IInv, OneToOne, Mine
    <3>5. Ids' = Ids \cup {worker[w].id}
      <4>1. Ids' = {r.id : r \in entities \cup {Mine(w)}} /\ Mine(w).id = worker[w].id
        BY <3>3 DEF Ids, Mine
      <4>2. {r.id : r \in entities \cup {Mine(w)}} = {r.id : r \in entities} \cup {Mine(w).id}
        OBVIOUS
      <4> QED
        BY <4>1, <4>2 DEF Ids
    <3>6. Ids' = 1..worker[w].id /\ worker[w].id \in Ids'
      BY <3>1, <3>5
    <3> QED
      BY <3>4, <3>6 DEF Dense
  <2> QED
    BY <1>2, <2>1, <2>2
<1>11. ASSUME NEW v \in Workers PROVE Knows(v)'
  <2>1. CASE v = w
    <3>1. Mine(w)' = Mine(w)
      BY <1>5 DEF Mine
    <3> QED
      BY <1>1, <1>3, <1>5, <2>1, <3>1 DEF Knows
  <2>2. CASE v # w
    <3>1. Knows(v) /\ worker'[v] = worker[v] /\ entities \subseteq entities' /\ worker[v].step \notin Inside
      BY <1>1, <1>6, <1>7, <2>2 DEF IInv
    <3> QED
      BY <3>1, OthersKnow
  <2> QED
    BY <2>1, <2>2
<1> QED
  BY <1>4, <1>8, <1>9, <1>10, <1>11 DEF IInv
-----------------------------------------------------------------------------
\* A step that changes nothing keeps the invariant.
LEMMA StutterHolds == IInv /\ UNCHANGED vars => IInv'
<1> SUFFICES ASSUME IInv, UNCHANGED vars PROVE IInv'
  OBVIOUS
<1>1. TypeOK' /\ LockHeld' /\ Alone'
  BY DEF IInv, vars, TypeOK, LockHeld, Alone
<1>2. OneToOne' /\ Dense' /\ Recorded'
  BY KeepsCommitted DEF vars
<1>3. \A v \in Workers : Knows(v)'
  BY OthersKnow DEF IInv, vars
<1> QED
  BY <1>1, <1>2, <1>3 DEF IInv

\* Every reachable state satisfies the inductive invariant: whoever is between
\* its lookup and its commit holds the allocation lock, and what it read still
\* holds (store.py: ensure_entity).
THEOREM Invariance == Spec => []IInv
<1>1. Init => IInv
  BY InitHolds
<1>2. IInv /\ [Next]_vars => IInv'
  <2> SUFFICES ASSUME IInv, [Next]_vars PROVE IInv'
    OBVIOUS
  <2>1. CASE Next
    <3>1. PICK w \in Workers :
            \/ \E code \in Codes : Sync(w, code)
            \/ Lock(w) \/ Lookup(w) \/ Allocate(w) \/ InsertEntity(w) \/ InsertCode(w) \/ Commit(w)
            \/ Write(w) \/ Fail(w)
      BY <2>1 DEF Next
    <3> QED
      BY <3>1, SyncHolds, LockHolds, LookupHolds, AllocateHolds, InsertEntityHolds, InsertCodeHolds,
         CommitHolds, WriteHolds, FailHolds
  <2>2. CASE UNCHANGED vars
    BY <2>2, StutterHolds
  <2> QED
    BY <2>1, <2>2
<1> QED
  BY <1>1, <1>2, PTL DEF Spec

\* A code keeps the id it first got, no two codes share one, and no bar is
\* stored under the id of another code, however many workers meet new codes at
\* once and are killed on the way (store.py: ensure_entity, daily_bar.py:
\* sync_daily_bar).
THEOREM IdentitiesKept == Spec => []IdentityKept
<1>1. IInv => IdentityKept
  <2> SUFFICES ASSUME IInv PROVE IdentityKept
    OBVIOUS
  <2>1. entities = history /\ told \cup entities = entities
    BY DEF IInv, Recorded
  <2>2. \A r, s \in entities : r.code = s.code <=> r.id = s.id
    BY DEF IInv, OneToOne
  <2>3. ASSUME NEW b \in bars, NEW r \in entities
        PROVE  b.id = r.id <=> b.code = r.code
    <3>1. [id |-> b.id, code |-> b.code] \in entities
      BY DEF IInv, Recorded
    <3> QED
      BY <2>2, <3>1
  <2> QED
    BY <2>1, <2>2, <2>3 DEF IdentityKept
<1> QED
  BY <1>1, Invariance, PTL
=============================================================================
