------------------------- MODULE RateLimiter_proofs -------------------------
(***************************************************************************)
(* Proofs about AsyncRateLimiter, for any keys and tasks, any limits and   *)
(* any durations, its slots and states and then its backoffs; and about    *)
(* request_with_retry() on top of it, for any requests, hosts and answers. *)
(***************************************************************************)
EXTENDS RequestWithRetryProperties, RateLimiterProperties, FiniteSetTheorems, SequenceTheorems, TLAPS

-----------------------------------------------------------------------------
(* The inductive invariant.  Its parts are about a limiter l and a task    *)
(* function q: an action changes the limiter method by method, and they    *)
(* speak of what is in between.                                            *)

Object == [free : Nat, waiters : Seq(Tasks), level : 0..MaxRate,
           backoff : Ticks, active : Nat, age : 0..(MaxIdle + 1)]
Limiter == [keys : [Keys -> States \cup {None}], states : [States -> Object],
            ops : 0..(CleanupEvery - 1)]

InSlot(q, i) == {t \in Tasks : q[t].slotOn = i}
InToken(q, i) == {t \in Tasks : q[t].tokenOn = i}

(* Waiters wait, once each; who is in a slot block and does not wait has   *)
(* one of the slots, so that these and the free ones are all slots.        *)
QueueOK(s, q, i) ==
  /\ \A m, n \in 1..Len(s.waiters) : s.waiters[m] = s.waiters[n] => m = n
  /\ \A n \in 1..Len(s.waiters) : /\ q[s.waiters[n]].slotOn = i
                                  /\ q[s.waiters[n]].slot = "waiting"
SlotsOK(s, q, i) ==
  /\ MaxConcurrent = 0 => s.free = 0
  /\ MaxConcurrent > 0 => /\ s.free + Cardinality(InSlot(q, i)) = MaxConcurrent + Len(s.waiters)
                          /\ s.free > 0 => s.waiters = <<>>
ObjectOK(s, q, i) ==
  /\ s.active = Cardinality(InSlot(q, i)) + Cardinality(InToken(q, i))
  /\ QueueOK(s, q, i)
  /\ SlotsOK(s, q, i)

TaskOK(r) == /\ (r.slot = "none") <=> (r.slotOn = None)
             /\ (r.token = "none") <=> (r.tokenOn = None)
             /\ (r.key = None) <=> (r = Outside)
             /\ r.slot = "waiting" => r.token = "none"

(* Blocks work on the object of their key, and no object has two keys.     *)
OnItsKey(l, r) == \A i \in States :
  i \in {r.slotOn, r.tokenOn} => r.key \in Keys /\ l.keys[r.key] = i
OneKey(l) == \A k, m \in Keys : l.keys[k] = l.keys[m] /\ l.keys[k] # None => k = m

Inv(l, q) ==
  /\ l \in Limiter /\ OneKey(l)
  /\ q \in [Tasks -> TaskRecord]
  /\ \A t \in Tasks : TaskOK(q[t]) /\ OnItsKey(l, q[t])
  /\ \A i \in States : ObjectOK(l.states[i], q, i)

LimiterInv == Inv(limiter, task) /\ signalled \in [Keys -> Ticks]

-----------------------------------------------------------------------------
(* Counting blocks                                                         *)

LEMMA NoneApart == None \notin Keys /\ None \notin States
  BY LimiterAssumption

LEMMA CountsAreNat ==
  ASSUME NEW q, NEW i
  PROVE  /\ IsFiniteSet(InSlot(q, i)) /\ IsFiniteSet(InToken(q, i))
         /\ Cardinality(InSlot(q, i)) \in Nat /\ Cardinality(InToken(q, i)) \in Nat
<1>1. InSlot(q, i) \in SUBSET Tasks /\ InToken(q, i) \in SUBSET Tasks
  BY DEF InSlot, InToken
<1>2. IsFiniteSet(InSlot(q, i)) /\ IsFiniteSet(InToken(q, i))
  BY <1>1, LimiterAssumption, FS_Subset
<1> QED
  BY <1>2, FS_CardinalityType

One(x, i) == IF x = i THEN 1 ELSE 0

LEMMA CountsChange ==
  ASSUME NEW q \in [Tasks -> TaskRecord], NEW t \in Tasks, NEW r \in TaskRecord, NEW i,
         NEW p, p = [q EXCEPT ![t] = r]
  PROVE  /\ Cardinality(InSlot(p, i)) =
              Cardinality(InSlot(q, i)) - One(q[t].slotOn, i) + One(r.slotOn, i)
         /\ Cardinality(InToken(p, i)) =
              Cardinality(InToken(q, i)) - One(q[t].tokenOn, i) + One(r.tokenOn, i)
<1>1. InSlot(p, i) = IF r.slotOn = i THEN InSlot(q, i) \cup {t} ELSE InSlot(q, i) \ {t}
  BY DEF InSlot
<1>2. InToken(p, i) = IF r.tokenOn = i THEN InToken(q, i) \cup {t} ELSE InToken(q, i) \ {t}
  BY DEF InToken
<1>3. /\ t \in InSlot(q, i) <=> q[t].slotOn = i
      /\ t \in InToken(q, i) <=> q[t].tokenOn = i
  BY DEF InSlot, InToken
<1>4. /\ Cardinality(InSlot(q, i) \cup {t}) = Cardinality(InSlot(q, i)) + 1 - One(q[t].slotOn, i)
      /\ Cardinality(InSlot(q, i) \ {t}) = Cardinality(InSlot(q, i)) - One(q[t].slotOn, i)
  <2>1. /\ Cardinality(InSlot(q, i) \cup {t}) =
             IF t \in InSlot(q, i) THEN Cardinality(InSlot(q, i)) ELSE Cardinality(InSlot(q, i)) + 1
        /\ Cardinality(InSlot(q, i) \ {t}) =
             IF t \in InSlot(q, i) THEN Cardinality(InSlot(q, i)) - 1 ELSE Cardinality(InSlot(q, i))
    BY CountsAreNat, FS_AddElement, FS_RemoveElement
  <2> QED
    BY <1>3, <2>1, CountsAreNat DEF One
<1>5. /\ Cardinality(InToken(q, i) \cup {t}) = Cardinality(InToken(q, i)) + 1 - One(q[t].tokenOn, i)
      /\ Cardinality(InToken(q, i) \ {t}) = Cardinality(InToken(q, i)) - One(q[t].tokenOn, i)
  <2>1. /\ Cardinality(InToken(q, i) \cup {t}) =
             IF t \in InToken(q, i) THEN Cardinality(InToken(q, i)) ELSE Cardinality(InToken(q, i)) + 1
        /\ Cardinality(InToken(q, i) \ {t}) =
             IF t \in InToken(q, i) THEN Cardinality(InToken(q, i)) - 1 ELSE Cardinality(InToken(q, i))
    BY CountsAreNat, FS_AddElement, FS_RemoveElement
  <2> QED
    BY <1>3, <2>1, CountsAreNat DEF One
<1>6. Cardinality(InSlot(p, i)) =
        Cardinality(InSlot(q, i)) - One(q[t].slotOn, i) + One(r.slotOn, i)
  BY <1>1, <1>4, CountsAreNat DEF One
<1>7. Cardinality(InToken(p, i)) =
        Cardinality(InToken(q, i)) - One(q[t].tokenOn, i) + One(r.tokenOn, i)
  BY <1>2, <1>5, CountsAreNat DEF One
<1> QED
  BY <1>6, <1>7

-----------------------------------------------------------------------------
(* One object and one task change                                          *)

Put(l, i, s) == [l EXCEPT !.states[i] = s]

LEMMA PutIs ==
  ASSUME NEW l \in Limiter, NEW i \in States, NEW s \in Object
  PROVE  /\ Put(l, i, s) \in Limiter
         /\ Put(l, i, s).keys = l.keys /\ Put(l, i, s).ops = l.ops
         /\ Put(l, i, s).states = [l.states EXCEPT ![i] = s]
  BY DEF Put, Limiter

LEMMA ObjectChange ==
  ASSUME NEW l, NEW q, Inv(l, q), NEW t \in Tasks, NEW r \in TaskRecord, TaskOK(r),
         NEW i \in States, NEW s \in Object,
         {q[t].slotOn, q[t].tokenOn, r.slotOn, r.tokenOn} \subseteq {i, None},
         OnItsKey(l, r), ObjectOK(s, [q EXCEPT ![t] = r], i)
  PROVE  Inv(Put(l, i, s), [q EXCEPT ![t] = r])
<1> DEFINE p == [q EXCEPT ![t] = r]
           m == Put(l, i, s)
<1>1. m \in Limiter /\ m.keys = l.keys /\ m.states = [l.states EXCEPT ![i] = s]
  BY PutIs DEF Inv
<1>2. OneKey(m)
  BY <1>1 DEF Inv, OneKey
<1>3. p \in [Tasks -> TaskRecord] /\ \A x \in Tasks : TaskOK(p[x])
  BY DEF Inv
<1>4. \A x \in Tasks : OnItsKey(m, p[x])
  BY <1>1 DEF Inv, OnItsKey
<1>5. ASSUME NEW j \in States PROVE ObjectOK(m.states[j], p, j)
  <2>1. CASE j = i
    BY <1>1, <2>1 DEF Limiter, Inv
  <2>2. CASE j # i
    <3>1. m.states[j] = l.states[j] /\ l.states[j] \in Object /\ ObjectOK(l.states[j], q, j)
      BY <1>1, <2>2 DEF Limiter, Inv
    <3>2. q[t].slotOn # j /\ q[t].tokenOn # j /\ r.slotOn # j /\ r.tokenOn # j
      BY <2>2, NoneApart
    <3>3. InSlot(p, j) = InSlot(q, j) /\ InToken(p, j) = InToken(q, j)
      BY <3>2 DEF Inv, InSlot, InToken
    <3>4. \A n \in 1..Len(l.states[j].waiters) : l.states[j].waiters[n] \in Tasks \ {t}
      <4>1. l.states[j].waiters \in Seq(Tasks)
        BY <3>1 DEF Object
      <4>2. \A n \in 1..Len(l.states[j].waiters) : q[l.states[j].waiters[n]].slotOn = j
        BY <3>1 DEF ObjectOK, QueueOK
      <4> QED
        BY <3>2, <4>1, <4>2
    <3>5. QueueOK(l.states[j], p, j)
      <4> DEFINE w == l.states[j].waiters
      <4>1. \A n \in 1..Len(w) : p[w[n]] = q[w[n]]
        BY <3>4 DEF Inv
      <4> QED
        BY <3>1, <4>1 DEF ObjectOK, QueueOK
    <3> QED
      BY <3>1, <3>3, <3>5 DEF ObjectOK, SlotsOK
  <2> QED
    BY <2>1, <2>2
<1> QED
  BY <1>1, <1>2, <1>3, <1>4, <1>5 DEF Inv

-----------------------------------------------------------------------------
(* The methods                                                             *)

LEMMA ZeroIsEmpty ==
  ASSUME NEW q, NEW i, \A t \in Tasks : i \notin {q[t].slotOn, q[t].tokenOn}
  PROVE  Cardinality(InSlot(q, i)) = 0 /\ Cardinality(InToken(q, i)) = 0
<1>1. InSlot(q, i) = {} /\ InToken(q, i) = {}
  BY DEF InSlot, InToken
<1> QED
  BY <1>1, FS_EmptySet

LEMMA NewStateOK ==
  ASSUME NEW q, NEW i, \A t \in Tasks : i \notin {q[t].slotOn, q[t].tokenOn}
  PROVE  NewState \in Object /\ ObjectOK(NewState, q, i)
<1>1. NewState \in Object
  BY LimiterAssumption DEF NewState, Object, Ticks
<1>2. ObjectOK(NewState, q, i)
  BY ZeroIsEmpty, LimiterAssumption DEF NewState, ObjectOK, QueueOK, SlotsOK
<1> QED
  BY <1>1, <1>2

LEMMA FieldChange ==
  ASSUME NEW l \in Limiter
  PROVE  /\ \A f \in [Keys -> States \cup {None}] :
              LET m == [l EXCEPT !.keys = f]
              IN  m \in Limiter /\ m.keys = f /\ m.states = l.states /\ m.ops = l.ops
         /\ \A g \in [States -> Object] :
              LET m == [l EXCEPT !.states = g]
              IN  m \in Limiter /\ m.keys = l.keys /\ m.states = g /\ m.ops = l.ops
  BY DEF Limiter

LEMMA Touched ==
  ASSUME NEW s \in Object, NEW q, NEW i, ObjectOK(s, q, i)
  PROVE  [s EXCEPT !.age = 0] \in Object /\ ObjectOK([s EXCEPT !.age = 0], q, i)
<1> DEFINE z == [s EXCEPT !.age = 0]
<1>1. z \in Object
  BY LimiterAssumption DEF Object
<1>2. z.free = s.free /\ z.waiters = s.waiters /\ z.active = s.active
  BY DEF Object
<1> QED
  BY <1>1, <1>2 DEF ObjectOK, QueueOK, SlotsOK

LEMMA LookUpIs ==
  ASSUME Inv(limiter, task), NEW k \in Keys, CanLookUp(limiter, k)
  PROVE  LET i == Address(limiter, k)
             s == IF limiter.keys[k] # None THEN limiter.states[i] ELSE NewState
             l == GetKeyState(limiter, k)
         IN  /\ i \in States
             /\ limiter.keys[k] # None => i = limiter.keys[k]
             /\ limiter.keys[k] = None => i \in Unused(limiter)
             /\ [s EXCEPT !.age = 0] \in Object /\ ObjectOK([s EXCEPT !.age = 0], task, i)
             /\ l \in Limiter
             /\ l.keys = [limiter.keys EXCEPT ![k] = i]
             /\ l.states = [limiter.states EXCEPT ![i] = [s EXCEPT !.age = 0]]
<1> DEFINE i == Address(limiter, k)
           s == IF limiter.keys[k] # None THEN limiter.states[i] ELSE NewState
           l == GetKeyState(limiter, k)
<1>1. limiter \in Limiter /\ OneKey(limiter)
  BY DEF Inv
<1>2. /\ i \in States
      /\ limiter.keys[k] # None => i = limiter.keys[k]
      /\ limiter.keys[k] = None => i \in Unused(limiter)
  BY <1>1 DEF Address, CanLookUp, Unused, Limiter
<1>3. s \in Object /\ ObjectOK(s, task, i)
  <2>1. CASE limiter.keys[k] # None
    BY <1>1, <1>2, <2>1 DEF Inv, Limiter
  <2>2. CASE limiter.keys[k] = None
    BY <1>2, <2>2, NewStateOK DEF Unused
  <2> QED
    BY <2>1, <2>2
<1>4. [s EXCEPT !.age = 0] \in Object /\ ObjectOK([s EXCEPT !.age = 0], task, i)
  <2> HIDE DEF s
  <2> QED
    BY <1>3, Touched
<1>5. /\ l.keys = [limiter.keys EXCEPT ![k] = i] /\ l.ops = limiter.ops
      /\ l.states = [limiter.states EXCEPT ![i] = [s EXCEPT !.age = 0]]
      /\ l \in Limiter
  <2> DEFINE named == [limiter EXCEPT !.keys = [@ EXCEPT ![k] = i]]
  <2>1. l = Put(named, i, [s EXCEPT !.age = 0])
    BY DEF GetKeyState, Put
  <2>2. [limiter.keys EXCEPT ![k] = i] \in [Keys -> States \cup {None}]
    BY <1>1, <1>2 DEF Limiter
  <2>3. /\ named \in Limiter /\ named.keys = [limiter.keys EXCEPT ![k] = i]
        /\ named.states = limiter.states /\ named.ops = limiter.ops
    <3> DEFINE names == [limiter.keys EXCEPT ![k] = i]
    <3>1. named = [limiter EXCEPT !.keys = names]
      OBVIOUS
    <3> HIDE DEF names, named
    <3>2. /\ named \in Limiter /\ named.keys = names
          /\ named.states = limiter.states /\ named.ops = limiter.ops
      BY <1>1, <2>2, <3>1, FieldChange DEF names
    <3> QED
      BY <3>2 DEF names
  <2> HIDE DEF named, s
  <2> QED
    BY <1>2, <1>4, <2>1, <2>3, PutIs
<1> HIDE DEF s, l, i
<1> QED
  BY <1>2, <1>4, <1>5 DEF s, l, i

(* _get_key_state() finds the object of the key, or makes one that no block*)
(* is on yet.                                                              *)
LEMMA LookUpKeeps ==
  ASSUME Inv(limiter, task), NEW k \in Keys, CanLookUp(limiter, k)
  PROVE  /\ Inv(GetKeyState(limiter, k), task)
         /\ Address(limiter, k) \in States
         /\ GetKeyState(limiter, k).keys[k] = Address(limiter, k)
<1> DEFINE i == Address(limiter, k)
           s == IF limiter.keys[k] # None THEN limiter.states[i] ELSE NewState
           l == GetKeyState(limiter, k)
<1>1. limiter \in Limiter /\ OneKey(limiter)
  BY DEF Inv
<1>2. /\ i \in States
      /\ limiter.keys[k] # None => i = limiter.keys[k]
      /\ limiter.keys[k] = None => i \in Unused(limiter)
  BY LookUpIs
<1>4. [s EXCEPT !.age = 0] \in Object /\ ObjectOK([s EXCEPT !.age = 0], task, i)
  BY LookUpIs
<1>5. /\ l.keys = [limiter.keys EXCEPT ![k] = i]
      /\ l.states = [limiter.states EXCEPT ![i] = [s EXCEPT !.age = 0]]
      /\ l \in Limiter
  BY LookUpIs
<1>6. l \in Limiter /\ l.keys[k] = i
  BY <1>1, <1>2, <1>5 DEF Limiter
<1>7. OneKey(l)
  BY <1>1, <1>2, <1>5 DEF OneKey, Unused, Limiter
<1>8. \A t \in Tasks : TaskOK(task[t]) /\ OnItsKey(l, task[t])
  BY <1>1, <1>2, <1>5, NoneApart DEF Inv, OnItsKey, Limiter
<1>9. \A j \in States : ObjectOK(l.states[j], task, j)
  BY <1>1, <1>2, <1>4, <1>5 DEF Inv, Limiter
<1> QED
  BY <1>2, <1>6, <1>7, <1>8, <1>9 DEF Inv

Evicted(l) == {k \in Keys : l.keys[k] # None /\ Idle(l.states[l.keys[k]])}

LEMMA CleanUpIs ==
  ASSUME NEW l, NEW q, Inv(l, q)
  PROVE  LET m == CleanUp(l)
             freed == {l.keys[k] : k \in Evicted(l)}
         IN  /\ m \in Limiter
             /\ \A i \in freed : \A t \in Tasks : i \notin {q[t].slotOn, q[t].tokenOn}
             /\ m.keys = [k \in Keys |-> IF k \in Evicted(l) THEN None ELSE l.keys[k]]
             /\ \A i \in States : \/ m.states[i] = l.states[i]
                                  \/ i \in freed /\ m.states[i] = NewState
<1> DEFINE evicted == {k \in Keys : l.keys[k] # None /\ Idle(l.states[l.keys[k]])}
           freed == {l.keys[k] : k \in evicted}
           used == {i \in States : \E t \in Tasks : i \in {task[t].slotOn, task[t].tokenOn}}
           m == CleanUp(l)
           names == [k \in Keys |-> IF k \in evicted THEN None ELSE l.keys[k]]
           objects == [i \in States |-> IF i \in freed \ used THEN NewState ELSE l.states[i]]
<1>1. l \in Limiter /\ OneKey(l)
  BY DEF Inv
<1>2. freed \subseteq States
  BY <1>1 DEF Limiter
<1>3. \A i \in freed : \A t \in Tasks : i \notin {q[t].slotOn, q[t].tokenOn}
  <2> SUFFICES ASSUME NEW k \in evicted, NEW t \in Tasks
               PROVE  l.keys[k] \notin {q[t].slotOn, q[t].tokenOn}
    OBVIOUS
  <2> DEFINE i == l.keys[k]
  <2>1. i \in States /\ l.states[i].active = 0
    BY <1>1 DEF Limiter, Idle
  <2>2. Cardinality(InSlot(q, i)) = 0 /\ Cardinality(InToken(q, i)) = 0
    BY <2>1, CountsAreNat DEF Inv, ObjectOK
  <2>3. InSlot(q, i) = {} /\ InToken(q, i) = {}
    BY <2>2, CountsAreNat, FS_EmptySet
  <2> QED
    BY <2>3 DEF InSlot, InToken
<1>4. names \in [Keys -> States \cup {None}] /\ objects \in [States -> Object]
  <2>1. l.keys \in [Keys -> States \cup {None}] /\ l.states \in [States -> Object]
    BY <1>1 DEF Limiter
  <2>2. \A i \in States : i \in freed \ used => NewState \in Object
    BY <1>3, NewStateOK
  <2> HIDE DEF evicted, freed, used
  <2> QED
    BY <2>1, <2>2
<1>5. m \in Limiter /\ m.keys = names /\ m.states = objects
  <2> DEFINE named == [l EXCEPT !.keys = names]
  <2>1. m = [named EXCEPT !.states = objects]
    BY DEF CleanUp
  <2>2. named \in Limiter /\ named.keys = names
    BY <1>1, <1>4, FieldChange
  <2> HIDE DEF named, names, objects
  <2> QED
    BY <1>4, <2>1, <2>2, FieldChange
<1>6. evicted = Evicted(l)
  BY DEF Evicted
<1>7. \A i \in States : \/ m.states[i] = l.states[i]
                        \/ i \in freed /\ m.states[i] = NewState
  BY <1>5
<1> HIDE DEF m, evicted, used, objects
<1> QED
  BY <1>3, <1>5, <1>6, <1>7 DEF m

(* cleanup() takes away only objects that no block is on.                  *)
LEMMA CleanUpKeeps ==
  ASSUME NEW l, NEW q, Inv(l, q)
  PROVE  Inv(CleanUp(l), q)
<1> DEFINE freed == {l.keys[k] : k \in Evicted(l)}
           m == CleanUp(l)
<1>1. l \in Limiter /\ OneKey(l)
  BY DEF Inv
<1>2. /\ m \in Limiter
      /\ m.keys = [k \in Keys |-> IF k \in Evicted(l) THEN None ELSE l.keys[k]]
  BY CleanUpIs
<1>3. \A i \in freed : \A t \in Tasks : i \notin {q[t].slotOn, q[t].tokenOn}
  BY CleanUpIs
<1>4. \A i \in States : \/ m.states[i] = l.states[i]
                        \/ i \in freed /\ m.states[i] = NewState
  BY CleanUpIs
<1> HIDE DEF m
<1>5. OneKey(m)
  BY <1>1, <1>2 DEF OneKey
<1>6. \A t \in Tasks : TaskOK(q[t]) /\ OnItsKey(m, q[t])
  BY <1>2, <1>3 DEF Inv, OnItsKey
<1>7. \A i \in States : ObjectOK(m.states[i], q, i)
  <2> SUFFICES ASSUME NEW i \in States PROVE ObjectOK(m.states[i], q, i)
    OBVIOUS
  <2>1. CASE m.states[i] = l.states[i]
    BY <2>1 DEF Inv
  <2>2. CASE i \in freed /\ m.states[i] = NewState
    BY <1>3, <2>2, NewStateOK
  <2> QED
    BY <1>4, <2>1, <2>2
<1> QED
  BY <1>2, <1>5, <1>6, <1>7 DEF Inv, m

LEMMA LeaveBlockKeeps ==
  ASSUME NEW l \in Limiter, NEW q, NEW i \in States,
         Inv(Put(l, i, [l.states[i] EXCEPT !.active = Less(@, 1)]), q)
  PROVE  Inv(LeaveBlock(l, i), q)
<1> DEFINE left == [l EXCEPT !.states[i].active = Less(@, 1)]
<1>1. left = Put(l, i, [l.states[i] EXCEPT !.active = Less(@, 1)])
  BY DEF Put, Limiter
<1>2. ASSUME NEW n \in 0..(CleanupEvery - 1) PROVE Inv([left EXCEPT !.ops = n], q)
  BY <1>1, LimiterAssumption, ZenonT(60) DEF Inv, Limiter, OneKey, OnItsKey
<1>3. CASE l.ops + 1 >= CleanupEvery
  <2>1. 0 \in 0..(CleanupEvery - 1)
    BY LimiterAssumption
  <2>2. Inv([left EXCEPT !.ops = 0], q)
    BY <1>2, <2>1
  <2> QED
    BY <1>3, <2>2, CleanUpKeeps DEF LeaveBlock
<1>4. CASE ~(l.ops + 1 >= CleanupEvery)
  <2>1. l.ops + 1 \in 0..(CleanupEvery - 1) /\ left.ops = l.ops
    BY <1>4, LimiterAssumption DEF Limiter
  <2> QED
    BY <1>2, <1>4, <2>1 DEF LeaveBlock
<1> QED
  BY <1>3, <1>4

-----------------------------------------------------------------------------
(* The queue of a semaphore                                                *)

LEMMA QueueKept ==
  ASSUME NEW q \in [Tasks -> TaskRecord], NEW t \in Tasks, NEW r \in TaskRecord,
         NEW i, NEW s \in Object, QueueOK(s, q, i), NEW z \in Object,
         z.waiters = s.waiters,
         \/ ~Contains(s.waiters, t)
         \/ r.slotOn = i /\ r.slot = "waiting"
  PROVE  QueueOK(z, [q EXCEPT ![t] = r], i)
<1>1. s.waiters \in Seq(Tasks)
  BY DEF Object
<1> QED
  BY <1>1 DEF QueueOK, Contains

LEMMA QueueJoined ==
  ASSUME NEW q \in [Tasks -> TaskRecord], NEW t \in Tasks, NEW r \in TaskRecord,
         NEW i, NEW s \in Object, QueueOK(s, q, i), q[t].slot # "waiting",
         NEW z, z.waiters = Append(s.waiters, t), r.slotOn = i, r.slot = "waiting"
  PROVE  QueueOK(z, [q EXCEPT ![t] = r], i)
<1> DEFINE w == s.waiters
           p == [q EXCEPT ![t] = r]
<1>1. w \in Seq(Tasks) /\ \A n \in 1..Len(w) : w[n] # t /\ w[n] \in Tasks
  BY DEF Object, QueueOK
<1>2. /\ Len(z.waiters) = Len(w) + 1 /\ z.waiters[Len(w) + 1] = t
      /\ \A n \in 1..Len(w) : z.waiters[n] = w[n]
  BY <1>1
<1>3. \A m, n \in 1..Len(z.waiters) : z.waiters[m] = z.waiters[n] => m = n
  BY <1>1, <1>2 DEF QueueOK
<1>4. \A n \in 1..Len(z.waiters) : p[z.waiters[n]].slotOn = i /\ p[z.waiters[n]].slot = "waiting"
  BY <1>1, <1>2 DEF QueueOK
<1> QED
  BY <1>3, <1>4 DEF QueueOK

LEMMA QueueShifted ==
  ASSUME NEW q \in [Tasks -> TaskRecord], NEW t \in Tasks, NEW r \in TaskRecord,
         NEW i, NEW s \in Object, QueueOK(s, q, i), ~Contains(s.waiters, t),
         s.waiters # <<>>, NEW z \in Object, z.waiters = Tail(s.waiters)
  PROVE  QueueOK(z, [q EXCEPT ![t] = r], i)
<1> DEFINE w == s.waiters
<1>1. w \in Seq(Tasks) /\ \A n \in 1..Len(w) : w[n] # t /\ w[n] \in Tasks
  BY DEF Object, Contains
<1>2. /\ z.waiters \in Seq(Tasks) /\ Len(z.waiters) = Len(w) - 1
      /\ \A n \in 1..Len(z.waiters) : z.waiters[n] = w[n + 1]
  BY <1>1
<1> QED
  BY <1>1, <1>2 DEF QueueOK

(* Whoever is in the queue is there once, and leaves no gap. *)
Skip(n, m) == IF m < n THEN m ELSE m + 1

LEMMA WithoutIs ==
  ASSUME NEW S, NEW w \in Seq(S), NEW n \in 1..Len(w)
  PROVE  /\ RemoveAt(w, n) \in Seq(S) /\ Len(RemoveAt(w, n)) = Len(w) - 1
         /\ \A m \in 1..(Len(w) - 1) : RemoveAt(w, n)[m] = w[Skip(n, m)]
<1> DEFINE a == SubSeq(w, 1, n - 1)
           b == SubSeq(w, n + 1, Len(w))
           v == RemoveAt(w, n)
<1>0. v = a \o b
  BY DEF RemoveAt
<1>1. /\ a \in Seq(S) /\ Len(a) = n - 1
      /\ \A m \in 1..(n - 1) : a[m] = w[m]
  OBVIOUS
<1>2. /\ b \in Seq(S) /\ Len(b) = Len(w) - n
      /\ \A m \in 1..(Len(w) - n) : b[m] = w[m + n]
  OBVIOUS
<1> HIDE DEF a, b, v
<1>3. /\ v \in Seq(S) /\ Len(v) = Len(a) + Len(b)
      /\ \A m \in 1..(Len(a) + Len(b)) :
           v[m] = IF m <= Len(a) THEN a[m] ELSE b[m - Len(a)]
  <2>1. /\ a \o b \in Seq(S) /\ Len(a \o b) = Len(a) + Len(b)
        /\ \A m \in 1..(Len(a) + Len(b)) :
             (a \o b)[m] = IF m <= Len(a) THEN a[m] ELSE b[m - Len(a)]
    BY <1>1, <1>2, ConcatProperties
  <2> QED
    BY <1>0, <2>1
<1>4. Len(v) = Len(w) - 1 /\ n \in Nat /\ Len(w) \in Nat
  BY <1>1, <1>2, <1>3
<1>5. ASSUME NEW m \in 1..Len(v)
      PROVE  v[m] = w[Skip(n, m)]
  <2>1. CASE m < n
    BY <1>1, <1>3, <1>4, <2>1 DEF Skip
  <2>2. CASE ~(m < n)
    <3>1. m - (n - 1) \in 1..(Len(w) - n) /\ m - (n - 1) + n = m + 1
      BY <1>4, <2>2
    <3>2. v[m] = b[m - (n - 1)]
      BY <1>1, <1>3, <1>4, <2>2
    <3> QED
      BY <1>2, <2>2, <3>1, <3>2 DEF Skip
  <2> QED
    BY <2>1, <2>2
<1> QED
  BY <1>3, <1>4, <1>5 DEF v

LEMMA RemovedIs ==
  ASSUME NEW w \in Seq(Tasks), NEW t \in Tasks, Contains(w, t),
         \A m, n \in 1..Len(w) : w[m] = w[n] => m = n,
         NEW v, v = RemoveFirst(w, t)
  PROVE  /\ v \in Seq(Tasks) /\ Len(v) = Len(w) - 1
         /\ \E n \in 1..Len(w) : /\ w[n] = t
              /\ \A m \in 1..Len(v) : v[m] = w[Skip(n, m)]
<1>1. PICK n \in 1..Len(w) : w[n] = t
  BY DEF Contains
<1>2. {m \in 1..Len(w) : w[m] = t} = {n}
  BY <1>1
<1>3. SelectInSeq(w, LAMBDA e : e = t) = n
  <2>1. Min({n}) = n
    BY DEF Min
  <2> QED
    BY <1>2, <2>1 DEF SelectInSeq
<1>4. v = RemoveAt(w, n)
  BY <1>1, <1>3 DEF RemoveFirst
<1>5. /\ v \in Seq(Tasks) /\ Len(v) = Len(w) - 1
      /\ \A m \in 1..Len(v) : v[m] = w[Skip(n, m)]
  <2>1. /\ RemoveAt(w, n) \in Seq(Tasks) /\ Len(RemoveAt(w, n)) = Len(w) - 1
        /\ \A m \in 1..(Len(w) - 1) : RemoveAt(w, n)[m] = w[Skip(n, m)]
    BY WithoutIs
  <2> QED
    BY <1>4, <2>1
<1> QED
  BY <1>1, <1>5

LEMMA QueueLeft ==
  ASSUME NEW q \in [Tasks -> TaskRecord], NEW t \in Tasks, NEW r \in TaskRecord,
         NEW i, NEW s \in Object, QueueOK(s, q, i), Contains(s.waiters, t),
         NEW z \in Object, z.waiters = RemoveFirst(s.waiters, t)
  PROVE  QueueOK(z, [q EXCEPT ![t] = r], i)
<1> DEFINE w == s.waiters
           v == z.waiters
<1>1. w \in Seq(Tasks) /\ \A m, n \in 1..Len(w) : w[m] = w[n] => m = n
  BY DEF Object, QueueOK
<1>0. v = RemoveFirst(w, t)
  OBVIOUS
<1>7. Contains(w, t)
  OBVIOUS
<1> HIDE DEF w, v
<1>2. Len(v) = Len(w) - 1 /\ Len(w) \in Nat
  BY <1>0, <1>1, <1>7, RemovedIs
<1>3. PICK n \in 1..Len(w) :
        /\ w[n] = t
        /\ \A m \in 1..Len(v) : v[m] = w[Skip(n, m)]
  BY <1>0, <1>1, <1>7, RemovedIs
<1>4. \A m \in 1..Len(w) : m # n => w[m] \in Tasks \ {t}
  BY <1>1, <1>3
<1>5. \A m \in 1..Len(v) : \E k \in 1..Len(w) : k # n /\ v[m] = w[k]
  BY <1>1, <1>2, <1>3 DEF Skip
<1>6. \A m, k \in 1..Len(v) : v[m] = v[k] => m = k
  BY <1>1, <1>2, <1>3 DEF Skip
<1> QED
  BY <1>4, <1>5, <1>6 DEF QueueOK, w, v

-----------------------------------------------------------------------------
(* What the methods do to one object                                       *)

LEMMA AcquireSlotIs ==
  ASSUME NEW s \in Object, NEW t \in Tasks
  PROVE  LET z == AcquireSlot(s, t) IN
         z \in Object /\ z.active = s.active /\ z.backoff = s.backoff /\ z.age = s.age
<1>1. s.free \in Nat /\ s.waiters \in Seq(Tasks)
  BY DEF Object
<1>2. CASE MaxConcurrent = 0
  BY <1>2 DEF AcquireSlot
<1>3. CASE MaxConcurrent # 0 /\ SlotFree(s)
  <2>1. s.free - 1 \in Nat
    BY <1>1, <1>3 DEF SlotFree
  <2> QED
    BY <1>3, <2>1 DEF AcquireSlot, Object
<1>4. CASE MaxConcurrent # 0 /\ ~SlotFree(s)
  <2>1. Append(s.waiters, t) \in Seq(Tasks)
    BY <1>1
  <2> QED
    BY <1>4, <2>1 DEF AcquireSlot, Object
<1> QED
  BY <1>2, <1>3, <1>4

LEMMA ReleaseSlotIs ==
  ASSUME NEW s \in Object
  PROVE  LET z == ReleaseSlot(s) IN
         z \in Object /\ z.active = s.active /\ z.backoff = s.backoff /\ z.age = s.age
<1>1. s.free \in Nat /\ s.waiters \in Seq(Tasks)
  BY DEF Object
<1>2. CASE MaxConcurrent = 0
  BY <1>2 DEF ReleaseSlot
<1>3. CASE MaxConcurrent # 0 /\ s.waiters = <<>>
  BY <1>1, <1>3 DEF ReleaseSlot, Object
<1>4. CASE MaxConcurrent # 0 /\ s.waiters # <<>>
  <2>1. Tail(s.waiters) \in Seq(Tasks)
    BY <1>1, <1>4
  <2> QED
    BY <1>1, <1>4, <2>1 DEF ReleaseSlot, Object
<1> QED
  BY <1>2, <1>3, <1>4

LEMMA WaiterGoneIs ==
  ASSUME NEW s \in Object, NEW q, NEW i, QueueOK(s, q, i),
         NEW t \in Tasks, Contains(s.waiters, t)
  PROVE  LET z == [s EXCEPT !.waiters = RemoveFirst(@, t)] IN
         /\ z \in Object /\ z.waiters = RemoveFirst(s.waiters, t)
         /\ Len(z.waiters) = Len(s.waiters) - 1
         /\ z.free = s.free /\ z.active = s.active /\ z.backoff = s.backoff /\ z.age = s.age
<1> DEFINE w == RemoveFirst(s.waiters, t)
           z == [s EXCEPT !.waiters = w]
<1>1. w \in Seq(Tasks) /\ Len(w) = Len(s.waiters) - 1
  <2>1. /\ s.waiters \in Seq(Tasks)
        /\ \A m, n \in 1..Len(s.waiters) : s.waiters[m] = s.waiters[n] => m = n
    BY DEF Object, QueueOK
  <2> QED
    BY <2>1, RemovedIs
<1> HIDE DEF w
<1>2. /\ z \in Object /\ z.waiters = w /\ z.free = s.free /\ z.active = s.active
      /\ z.backoff = s.backoff /\ z.age = s.age
  BY <1>1 DEF Object
<1> QED
  BY <1>1, <1>2 DEF w

LEMMA TakeTokenIs ==
  ASSUME NEW s \in Object, TokenFree(s)
  PROVE  LET z == TakeToken(s) IN
         /\ z \in Object /\ z.free = s.free /\ z.waiters = s.waiters
         /\ z.active = s.active /\ z.backoff = s.backoff /\ z.age = s.age
<1>1. CASE MaxRate = 0
  BY <1>1 DEF TakeToken
<1>2. CASE MaxRate # 0
  <2> DEFINE z == [s EXCEPT !.level = @ + 1]
  <2>1. TakeToken(s) = z /\ s.level < MaxRate
    BY <1>2 DEF TakeToken, TokenFree
  <2>2. s.level \in 0..MaxRate /\ MaxRate \in Nat
    BY LimiterAssumption DEF Object
  <2>3. s.level + 1 \in 0..MaxRate
    BY <2>1, <2>2
  <2>4. /\ z \in Object /\ z.free = s.free /\ z.waiters = s.waiters
        /\ z.active = s.active /\ z.backoff = s.backoff /\ z.age = s.age
    BY <2>3 DEF Object
  <2> QED
    BY <2>1, <2>4
<1> QED
  BY <1>1, <1>2

LEMMA LessActiveIs ==
  ASSUME NEW s \in Object
  PROVE  LET z == [s EXCEPT !.active = Less(@, 1)] IN
         /\ z \in Object /\ z.free = s.free /\ z.waiters = s.waiters
         /\ z.active = Less(s.active, 1) /\ z.backoff = s.backoff /\ z.age = s.age
<1>1. Less(s.active, 1) \in Nat
  BY DEF Object, Less
<1> QED
  BY <1>1 DEF Object

LEMMA MoreActiveIs ==
  ASSUME NEW s \in Object
  PROVE  LET z == [s EXCEPT !.active = @ + 1] IN
         /\ z \in Object /\ z.free = s.free /\ z.waiters = s.waiters
         /\ z.active = s.active + 1 /\ z.backoff = s.backoff /\ z.age = s.age
<1>1. s.active + 1 \in Nat
  BY DEF Object
<1> QED
  BY <1>1 DEF Object

-----------------------------------------------------------------------------
(* Small changes                                                           *)

LEMMA SameCounts ==
  ASSUME NEW l, NEW q, Inv(l, q), NEW i \in States, NEW z \in Object,
         z.free = l.states[i].free, z.waiters = l.states[i].waiters,
         z.active = l.states[i].active
  PROVE  Inv(Put(l, i, z), q)
<1>1. /\ Put(l, i, z) \in Limiter /\ Put(l, i, z).keys = l.keys
      /\ Put(l, i, z).states = [l.states EXCEPT ![i] = z]
  BY PutIs DEF Inv
<1>2. ObjectOK(z, q, i)
  BY DEF Inv, ObjectOK, QueueOK, SlotsOK
<1>3. \A j \in States : ObjectOK(Put(l, i, z).states[j], q, j)
  BY <1>1, <1>2 DEF Inv, Limiter
<1> QED
  BY <1>1, <1>3 DEF Inv, OneKey, OnItsKey

LEMMA SameBlocks ==
  ASSUME NEW l, NEW q, Inv(l, q), NEW t \in Tasks, NEW r \in TaskRecord, TaskOK(r),
         r.key = q[t].key, r.slotOn = q[t].slotOn, r.tokenOn = q[t].tokenOn,
         \/ r.slot = q[t].slot
         \/ \A i \in States : i = q[t].slotOn => ~Contains(l.states[i].waiters, t)
  PROVE  Inv(l, [q EXCEPT ![t] = r])
<1> DEFINE p == [q EXCEPT ![t] = r]
<1>1. /\ l \in Limiter /\ OneKey(l) /\ p \in [Tasks -> TaskRecord]
      /\ \A x \in Tasks : TaskOK(p[x]) /\ OnItsKey(l, p[x])
  BY DEF Inv, OnItsKey
<1>2. ASSUME NEW i \in States PROVE ObjectOK(l.states[i], p, i)
  <2>1. InSlot(p, i) = InSlot(q, i) /\ InToken(p, i) = InToken(q, i)
    BY DEF Inv, InSlot, InToken
  <2>2. l.states[i] \in Object /\ ObjectOK(l.states[i], q, i)
    BY DEF Inv, Limiter
  <2>3. QueueOK(l.states[i], p, i)
    <3>1. CASE ~Contains(l.states[i].waiters, t)
      BY <2>2, <3>1, QueueKept DEF ObjectOK, Inv
    <3>2. CASE Contains(l.states[i].waiters, t)
      <4>1. q[t].slotOn = i /\ q[t].slot = "waiting"
        BY <2>2, <3>2 DEF ObjectOK, QueueOK, Contains
      <4> QED
        BY <2>2, <3>2, <4>1, QueueKept DEF ObjectOK, Inv
    <3> QED
      BY <3>1, <3>2
  <2> QED
    BY <2>1, <2>2, <2>3 DEF ObjectOK, SlotsOK
<1> QED
  BY <1>1, <1>2 DEF Inv

(* An open block is on the object of its key, of which there is one.       *)
LEMMA BlockObject ==
  ASSUME NEW l, NEW q, Inv(l, q), NEW t \in Tasks
  PROVE  /\ q[t].slot # "none" => q[t].slotOn \in States
         /\ q[t].token # "none" => q[t].tokenOn \in States
         /\ \A i \in States : i \in {q[t].slotOn, q[t].tokenOn} =>
              /\ {q[t].slotOn, q[t].tokenOn} \subseteq {i, None}
              /\ q[t].key \in Keys /\ l.keys[q[t].key] = i
<1>1. q[t] \in TaskRecord /\ TaskOK(q[t]) /\ OnItsKey(l, q[t])
  BY DEF Inv
<1> QED
  BY <1>1 DEF TaskRecord, TaskOK, OnItsKey

LEMMA EnterBlockIs ==
  ASSUME Inv(limiter, task), NEW k \in Keys, CanLookUp(limiter, k)
  PROVE  LET g == GetKeyState(limiter, k)
             i == Address(limiter, k)
         IN  EnterBlock(limiter, k) = Put(g, i, [g.states[i] EXCEPT !.active = @ + 1])
<1> DEFINE g == GetKeyState(limiter, k)
           i == Address(limiter, k)
<1>1. g \in Limiter /\ i \in States
  BY LookUpKeeps DEF Inv
<1>2. EnterBlock(limiter, k) = [g EXCEPT !.states[i].active = @ + 1]
  BY DEF EnterBlock
<1> HIDE DEF g, i
<1>3. [g EXCEPT !.states[i].active = @ + 1] = Put(g, i, [g.states[i] EXCEPT !.active = @ + 1])
  BY <1>1 DEF Put, Limiter
<1> QED
  BY <1>2, <1>3 DEF g, i

LEMMA SameLimiter ==
  ASSUME NEW l \in Limiter, NEW m \in Limiter,
         l.keys = m.keys, l.states = m.states, l.ops = m.ops
  PROVE  l = m
  BY DEF Limiter

LEMMA PutTwice ==
  ASSUME NEW l \in Limiter, NEW i \in States, NEW s \in Object, NEW z \in Object
  PROVE  Put(l, i, s).states[i] = s /\ Put(Put(l, i, s), i, z) = Put(l, i, z)
<1> DEFINE m == Put(l, i, s)
<1>1. /\ m \in Limiter /\ m.keys = l.keys /\ m.ops = l.ops
      /\ m.states = [l.states EXCEPT ![i] = s]
  BY PutIs
<1>2. /\ Put(l, i, z) \in Limiter /\ Put(l, i, z).keys = l.keys /\ Put(l, i, z).ops = l.ops
      /\ Put(l, i, z).states = [l.states EXCEPT ![i] = z]
  BY PutIs
<1> HIDE DEF m
<1>3. /\ Put(m, i, z) \in Limiter /\ Put(m, i, z).keys = l.keys /\ Put(m, i, z).ops = l.ops
      /\ Put(m, i, z).states = [m.states EXCEPT ![i] = z]
  BY <1>1, PutIs
<1>4. [m.states EXCEPT ![i] = z] = [l.states EXCEPT ![i] = z]
  BY <1>1 DEF Limiter
<1>5. Put(m, i, z) = Put(l, i, z)
  BY <1>2, <1>3, <1>4, SameLimiter
<1>6. m.states[i] = s
  BY <1>1 DEF Limiter
<1> QED
  BY <1>5, <1>6 DEF m

(* The finally of a block whose object has become s in its body. *)
LEMMA LeaveKeeps ==
  ASSUME NEW l \in Limiter, NEW q, NEW i \in States, NEW s \in Object,
         Inv(Put(l, i, [s EXCEPT !.active = Less(@, 1)]), q)
  PROVE  Inv(LeaveBlock(Put(l, i, s), i), q)
<1> DEFINE m == Put(l, i, s)
           z == [s EXCEPT !.active = Less(@, 1)]
<1>1. z \in Object
  BY DEF Object, Less
<1>2. m \in Limiter /\ m.states[i] = s /\ Put(m, i, z) = Put(l, i, z)
  <2> HIDE DEF z
  <2> QED
    BY <1>1, PutIs, PutTwice, ZenonT(60)
<1>3. Inv(Put(m, i, [m.states[i] EXCEPT !.active = Less(@, 1)]), q)
  BY <1>2
<1> HIDE DEF m
<1> QED
  BY <1>2, <1>3, LeaveBlockKeeps DEF m

-----------------------------------------------------------------------------
(* Slots                                                                   *)

LEMMA RecordIs ==
  ASSUME LimiterInv, NEW t \in Tasks
  PROVE  task[t] \in TaskRecord /\ TaskOK(task[t])
  BY DEF LimiterInv, Inv

LEMMA EnterSlotKeeps ==
  ASSUME LimiterInv, NEW t \in Tasks, NEW k \in Keys, EnterSlot(t, k)
  PROVE  LimiterInv'
<1> DEFINE i == Address(limiter, k)
           g == GetKeyState(limiter, k)
           s == [g.states[i] EXCEPT !.active = @ + 1]
           r == [Outside EXCEPT !.key = k, !.slotOn = i,
                                !.slot = IF SlotFree(s) THEN "held" ELSE "waiting"]
           p == [task EXCEPT ![t] = r]
           z == AcquireSlot(s, t)
<1>1. /\ Inv(g, task) /\ i \in States /\ g.keys[k] = i
      /\ EnterBlock(limiter, k) = Put(g, i, s)
  BY LookUpKeeps, EnterBlockIs DEF EnterSlot, LimiterInv
<1>2. g \in Limiter /\ g.states[i] \in Object /\ ObjectOK(g.states[i], task, i)
  BY <1>1 DEF Inv, Limiter
<1>3. /\ s \in Object /\ s.free = g.states[i].free /\ s.waiters = g.states[i].waiters
      /\ s.active = g.states[i].active + 1
  BY <1>2 DEF Object
<1>4. Put(g, i, s).states[i] = s /\ \A o \in Object : Put(Put(g, i, s), i, o) = Put(g, i, o)
  <2> HIDE DEF s, g, i
  <2> QED
    BY <1>1, <1>2, <1>3, PutTwice
<1>5. limiter' = Put(Put(g, i, s), i, z) /\ task' = p
  <2>1. limiter' = [EnterBlock(limiter, k) EXCEPT !.states[i] = AcquireSlot(@, t)]
    BY DEF EnterSlot
  <2>2. task' = [task EXCEPT ![t] = [task[t] EXCEPT !.key = k, !.slotOn = i, !.slot =
                   IF SlotFree(EnterBlock(limiter, k).states[i]) THEN "held" ELSE "waiting"]]
    BY DEF EnterSlot, LimiterInv, Inv
  <2>3. task[t] = Outside
    BY DEF EnterSlot
  <2>4. p = [task EXCEPT ![t] = [Outside EXCEPT !.key = k, !.slotOn = i,
                                       !.slot = IF SlotFree(s) THEN "held" ELSE "waiting"]]
    OBVIOUS
  <2>5. z = AcquireSlot(s, t)
    OBVIOUS
  <2> HIDE DEF p, r, z, s, g, i
  <2> QED
    BY <1>1, <1>4, <2>1, <2>2, <2>3, <2>4, <2>5, ZenonT(60) DEF Put
<1>6. r \in TaskRecord /\ TaskOK(r) /\ r.key = k /\ r.slotOn = i /\ r.tokenOn = None
  BY <1>1, NoneApart DEF Outside, TaskRecord, TaskOK, Ticks
<1>7. task[t].slotOn = None /\ task[t].tokenOn = None /\ task[t].slot = "none"
  BY DEF EnterSlot, Outside
<1>8. /\ Cardinality(InSlot(p, i)) = Cardinality(InSlot(task, i)) + 1
      /\ Cardinality(InToken(p, i)) = Cardinality(InToken(task, i))
  <2> HIDE DEF r, i
  <2>1. task[t].slotOn # i /\ task[t].tokenOn # i /\ r.tokenOn # i
    BY <1>1, <1>6, <1>7, NoneApart
  <2>2. task \in [Tasks -> TaskRecord] /\ r \in TaskRecord
    BY <1>6 DEF LimiterInv, Inv
  <2>3. /\ Cardinality(InSlot(p, i)) =
             Cardinality(InSlot(task, i)) - One(task[t].slotOn, i) + One(r.slotOn, i)
        /\ Cardinality(InToken(p, i)) =
             Cardinality(InToken(task, i)) - One(task[t].tokenOn, i) + One(r.tokenOn, i)
    <3>1. p = [task EXCEPT ![t] = r]
      OBVIOUS
    <3> HIDE DEF p
    <3> QED
      BY <2>2, <3>1, CountsChange, ZenonT(60)
  <2> QED
    BY <1>6, <2>1, <2>3, CountsAreNat DEF One
<1>9. z \in Object /\ ObjectOK(z, p, i)
  <2>0. ~Contains(s.waiters, t) /\ QueueOK(s, task, i) /\ task \in [Tasks -> TaskRecord]
    <3>1. QueueOK(s, task, i)
      BY <1>2, <1>3 DEF ObjectOK, QueueOK
    <3>2. ~Contains(s.waiters, t)
      BY <1>7, <3>1 DEF QueueOK, Contains
    <3> QED
      BY <3>1, <3>2 DEF LimiterInv, Inv
  <2>9. /\ MaxConcurrent = 0 => s.free = 0
        /\ MaxConcurrent > 0 =>
             /\ s.free + Cardinality(InSlot(task, i)) = MaxConcurrent + Len(s.waiters)
             /\ s.free > 0 => s.waiters = <<>>
        /\ s.active = Cardinality(InSlot(p, i)) + Cardinality(InToken(p, i))
    BY <1>2, <1>3, <1>8, CountsAreNat DEF ObjectOK, SlotsOK
  <2>1. CASE MaxConcurrent = 0
    <3>1. z = s
      BY <2>1 DEF AcquireSlot
    <3> HIDE DEF z, s, r, g, i
    <3>2. QueueOK(z, p, i)
      BY <1>3, <1>6, <2>0, <3>1, QueueKept
    <3> QED
      BY <1>3, <2>1, <2>9, <3>1, <3>2, LimiterAssumption DEF ObjectOK, SlotsOK
  <2>2. CASE MaxConcurrent # 0 /\ SlotFree(s)
    <3>1. z = [s EXCEPT !.free = @ - 1] /\ s.free > 0 /\ s.waiters = <<>>
      BY <2>2 DEF AcquireSlot, SlotFree
    <3> HIDE DEF z, s, r, g, i
    <3>2. z \in Object /\ z.free = s.free - 1 /\ z.waiters = s.waiters /\ z.active = s.active
      BY <1>3, <3>1 DEF Object
    <3>3. QueueOK(z, p, i)
      BY <1>3, <1>6, <2>0, <3>2, QueueKept
    <3> QED
      <4>1. /\ s.free \in Nat /\ z.waiters = <<>> /\ Len(z.waiters) = 0
            /\ Cardinality(InSlot(task, i)) \in Nat
        BY <1>3, <3>1, <3>2, CountsAreNat DEF Object
      <4>2. SlotsOK(z, p, i)
        BY <1>8, <2>2, <2>9, <3>1, <3>2, <4>1, LimiterAssumption DEF SlotsOK
      <4> QED
        BY <2>9, <3>2, <3>3, <4>2 DEF ObjectOK
  <2>3. CASE MaxConcurrent # 0 /\ ~SlotFree(s)
    <3>1. z = [s EXCEPT !.waiters = Append(@, t)] /\ ~(s.free > 0 /\ s.waiters = <<>>)
      BY <2>3 DEF AcquireSlot, SlotFree
    <3>2. r.slot = "waiting"
      BY <2>3 DEF Outside
    <3> HIDE DEF z, s, r, g, i
    <3>3. /\ z \in Object /\ z.free = s.free /\ z.waiters = Append(s.waiters, t)
          /\ z.active = s.active /\ Len(z.waiters) = Len(s.waiters) + 1
      <4>1. s.waiters \in Seq(Tasks)
        BY <1>3 DEF Object
      <4>2. /\ Append(s.waiters, t) \in Seq(Tasks)
            /\ Len(Append(s.waiters, t)) = Len(s.waiters) + 1
        BY <4>1, AppendProperties
      <4> QED
        BY <1>3, <3>1, <4>2 DEF Object
    <3>4. QueueOK(z, p, i)
      BY <1>3, <1>6, <1>7, <2>0, <3>2, <3>3, QueueJoined
    <3>5. s.free \in Nat /\ MaxConcurrent > 0 /\ s.free = 0
      BY <1>3, <2>3, <2>9, <3>1, LimiterAssumption DEF Object
    <3> QED
      BY <1>3, <1>8, <2>9, <3>3, <3>4, <3>5, LimiterAssumption, CountsAreNat, SMTT(40) DEF ObjectOK, SlotsOK
  <2> QED
    BY <2>1, <2>2, <2>3
<1>10. OnItsKey(g, r)
  BY <1>1, <1>6, NoneApart DEF OnItsKey
<1>11. Inv(Put(g, i, z), p)
  <2> HIDE DEF g, i, s, r, z
  <2> QED
    BY <1>1, <1>6, <1>7, <1>9, <1>10, ObjectChange
<1>12. limiter' = Put(g, i, z)
  BY <1>4, <1>5, <1>9
<1> QED
  BY <1>5, <1>11, <1>12 DEF LimiterInv, EnterSlot

Freed(s, z) ==
  /\ MaxConcurrent = 0 => z.free = 0
  /\ MaxConcurrent > 0 => /\ z.free - Len(z.waiters) = s.free - Len(s.waiters) + 1
                          /\ z.free > 0 => z.waiters = <<>>

LEMMA SlotsFewer ==
  ASSUME NEW s \in Object, NEW z \in Object, NEW q, NEW p, NEW i, SlotsOK(s, q, i),
         Cardinality(InSlot(p, i)) = Cardinality(InSlot(q, i)) - 1, Freed(s, z)
  PROVE  SlotsOK(z, p, i)
<1>1. /\ Cardinality(InSlot(q, i)) \in Nat /\ MaxConcurrent \in Nat
      /\ s.free \in Nat /\ Len(s.waiters) \in Nat
      /\ z.free \in Nat /\ Len(z.waiters) \in Nat
  BY CountsAreNat, LimiterAssumption, SMTT(40) DEF Object
<1> DEFINE a == Cardinality(InSlot(q, i))
           b == Cardinality(InSlot(p, i))
           m == Len(s.waiters)
           n == Len(z.waiters)
           f == s.free
           g == z.free
<1>2. /\ a \in Nat /\ b \in Nat /\ b = a - 1 /\ m \in Nat /\ n \in Nat
      /\ f \in Nat /\ g \in Nat
  BY <1>1, CountsAreNat
<1>3. ASSUME MaxConcurrent > 0 PROVE g + b = MaxConcurrent + n
  <2>1. f + a = MaxConcurrent + m /\ g - n = f - m + 1
    BY <1>3 DEF SlotsOK, Freed
  <2> HIDE DEF a, b, m, n, f, g
  <2>2. g = n + (f - m + 1)
    BY <1>2, <2>1
  <2>3. f - m = MaxConcurrent - a
    BY <1>1, <1>2, <2>1
  <2>4. g = n + (MaxConcurrent - a + 1)
    BY <1>1, <1>2, <2>2, <2>3
  <2> QED
    BY <1>1, <1>2, <2>4
<1> QED
  BY <1>3 DEF SlotsOK, Freed

LEMMA CountsLess ==
  ASSUME NEW q \in [Tasks -> TaskRecord], NEW t \in Tasks, NEW r \in TaskRecord,
         NEW i, i # None, q[t].slotOn = i, q[t].tokenOn = None,
         r.slotOn = None, r.tokenOn = None
  PROVE  /\ Cardinality(InSlot([q EXCEPT ![t] = r], i)) = Cardinality(InSlot(q, i)) - 1
         /\ Cardinality(InToken([q EXCEPT ![t] = r], i)) = Cardinality(InToken(q, i))
<1> DEFINE p == [q EXCEPT ![t] = r]
<1>1. p = [q EXCEPT ![t] = r]
  OBVIOUS
<1> HIDE DEF p
<1>2. /\ Cardinality(InSlot(p, i)) =
           Cardinality(InSlot(q, i)) - One(q[t].slotOn, i) + One(r.slotOn, i)
      /\ Cardinality(InToken(p, i)) =
           Cardinality(InToken(q, i)) - One(q[t].tokenOn, i) + One(r.tokenOn, i)
  BY <1>1, CountsChange, ZenonT(60)
<1>3. One(q[t].slotOn, i) = 1 /\ One(q[t].tokenOn, i) = 0
      /\ One(r.slotOn, i) = 0 /\ One(r.tokenOn, i) = 0
  BY DEF One
<1> QED
  BY <1>2, <1>3, CountsAreNat DEF p

LEMMA TokensMore ==
  ASSUME NEW q \in [Tasks -> TaskRecord], NEW t \in Tasks, NEW r \in TaskRecord,
         NEW i, i # None, r.slotOn = q[t].slotOn, q[t].tokenOn = None, r.tokenOn = i
  PROVE  /\ Cardinality(InSlot([q EXCEPT ![t] = r], i)) = Cardinality(InSlot(q, i))
         /\ Cardinality(InToken([q EXCEPT ![t] = r], i)) = Cardinality(InToken(q, i)) + 1
<1> DEFINE p == [q EXCEPT ![t] = r]
<1>1. p = [q EXCEPT ![t] = r]
  OBVIOUS
<1> HIDE DEF p
<1>2. /\ Cardinality(InSlot(p, i)) =
           Cardinality(InSlot(q, i)) - One(q[t].slotOn, i) + One(r.slotOn, i)
      /\ Cardinality(InToken(p, i)) =
           Cardinality(InToken(q, i)) - One(q[t].tokenOn, i) + One(r.tokenOn, i)
  BY <1>1, CountsChange, ZenonT(60)
<1>3. /\ One(q[t].slotOn, i) = One(r.slotOn, i) /\ One(r.slotOn, i) \in Nat
      /\ One(q[t].tokenOn, i) = 0 /\ One(r.tokenOn, i) = 1
  BY DEF One
<1> QED
  BY <1>2, <1>3, CountsAreNat DEF p

LEMMA TokensFewer ==
  ASSUME NEW q \in [Tasks -> TaskRecord], NEW t \in Tasks, NEW r \in TaskRecord,
         NEW i, i # None, r.slotOn = q[t].slotOn, q[t].tokenOn = i, r.tokenOn = None
  PROVE  /\ Cardinality(InSlot([q EXCEPT ![t] = r], i)) = Cardinality(InSlot(q, i))
         /\ Cardinality(InToken([q EXCEPT ![t] = r], i)) = Cardinality(InToken(q, i)) - 1
<1> DEFINE p == [q EXCEPT ![t] = r]
<1>1. p = [q EXCEPT ![t] = r]
  OBVIOUS
<1> HIDE DEF p
<1>2. /\ Cardinality(InSlot(p, i)) =
           Cardinality(InSlot(q, i)) - One(q[t].slotOn, i) + One(r.slotOn, i)
      /\ Cardinality(InToken(p, i)) =
           Cardinality(InToken(q, i)) - One(q[t].tokenOn, i) + One(r.tokenOn, i)
  BY <1>1, CountsChange, ZenonT(60)
<1>3. /\ One(q[t].slotOn, i) = One(r.slotOn, i) /\ One(r.slotOn, i) \in Nat
      /\ One(q[t].tokenOn, i) = 1 /\ One(r.tokenOn, i) = 0
  BY DEF One
<1> QED
  BY <1>2, <1>3, CountsAreNat DEF p

Exited(q, t) == [q EXCEPT ![t] = Outside]

(* A hold_slot() block ends; s is what its object is before the finally.   *)
LEMMA SlotBlockEnds ==
  ASSUME NEW l, NEW q, Inv(l, q), NEW t \in Tasks, NEW i \in States,
         q[t].slotOn = i, q[t].token = "none",
         NEW s \in Object, s.active = l.states[i].active,
         QueueOK(s, Exited(q, t), i), Freed(l.states[i], s)
  PROVE  Inv(LeaveBlock(Put(l, i, s), i), Exited(q, t))
<1> USE DEF Exited
<1> DEFINE p == [q EXCEPT ![t] = Outside]
           z == [s EXCEPT !.active = Less(@, 1)]
<1>1. /\ l \in Limiter /\ q \in [Tasks -> TaskRecord] /\ TaskOK(q[t])
      /\ l.states[i] \in Object /\ ObjectOK(l.states[i], q, i)
  BY DEF Inv, Limiter
<1>2. /\ Outside \in TaskRecord /\ TaskOK(Outside) /\ OnItsKey(l, Outside)
      /\ Outside.slotOn = None /\ Outside.tokenOn = None
  BY NoneApart DEF Outside, TaskRecord, TaskOK, OnItsKey, Ticks
<1>3. q[t].tokenOn = None /\ i # None
  BY <1>1, NoneApart DEF TaskOK
<1>4. /\ Cardinality(InSlot(p, i)) = Cardinality(InSlot(q, i)) - 1
      /\ Cardinality(InToken(p, i)) = Cardinality(InToken(q, i))
  BY <1>1, <1>2, <1>3, CountsLess
<1>5. /\ z \in Object /\ z.free = s.free /\ z.waiters = s.waiters
      /\ z.active = Less(s.active, 1)
  BY DEF Object, Less
<1>6. z.active = Cardinality(InSlot(p, i)) + Cardinality(InToken(p, i))
  <2>1. s.active = Cardinality(InSlot(q, i)) + Cardinality(InToken(q, i))
    BY <1>1 DEF ObjectOK
  <2>2. /\ Cardinality(InSlot(p, i)) \in Nat /\ Cardinality(InToken(p, i)) \in Nat
        /\ Cardinality(InSlot(q, i)) \in Nat /\ Cardinality(InToken(q, i)) \in Nat
    BY CountsAreNat
  <2> HIDE DEF p, z
  <2> QED
    BY <1>4, <1>5, <2>1, <2>2 DEF Less
<1>7. SlotsOK(z, p, i)
  <2>1. SlotsOK(l.states[i], q, i)
    BY <1>1 DEF ObjectOK
  <2> HIDE DEF z, p
  <2>2. Freed(l.states[i], z)
    BY <1>5 DEF Freed
  <2> QED
    BY <1>1, <1>4, <1>5, <2>1, <2>2, SlotsFewer
<1>8. ObjectOK(z, p, i)
  BY <1>5, <1>6, <1>7 DEF ObjectOK, QueueOK
<1>9. Inv(Put(l, i, z), p)
  <2> HIDE DEF z
  <2> QED
    BY <1>2, <1>3, <1>5, <1>8, ObjectChange
<1> QED
  BY <1>1, <1>9, LeaveKeeps

(* ... and gives its slot back, to the first who waits if there is one.    *)
LEMMA SlotLeftKeeps ==
  ASSUME NEW l, NEW q, Inv(l, q), NEW t \in Tasks, NEW i \in States,
         q[t].slotOn = i, q[t].token = "none", task[t].slotOn = i,
         ~Contains(l.states[i].waiters, t)
  PROVE  Inv(SlotLeft(l, t), Exited(q, t))
<1> DEFINE s == l.states[i]
           z == ReleaseSlot(s)
           p == [q EXCEPT ![t] = Outside]
<1>1. /\ i \in States /\ s \in Object /\ ObjectOK(s, q, i)
      /\ q \in [Tasks -> TaskRecord] /\ Outside \in TaskRecord
      /\ s.free \in Nat /\ s.waiters \in Seq(Tasks) /\ Len(s.waiters) \in Nat
  <2>1. l \in Limiter /\ Outside \in TaskRecord
    BY DEF Inv, Outside, TaskRecord, Ticks
  <2> QED
    BY <2>1 DEF Inv, Limiter, Object
<1>2. SlotLeft(l, t) = LeaveBlock(Put(l, i, z), i)
  BY DEF SlotLeft, Put
<1> SUFFICES /\ z \in Object /\ z.active = s.active /\ QueueOK(z, Exited(q, t), i)
             /\ Freed(s, z)
  <2> HIDE DEF z
  <2> QED
    BY <1>1, <1>2, SlotBlockEnds
<1> USE DEF Exited
<1> HIDE DEF s
<1>3. QueueOK(s, q, i) /\ ~Contains(s.waiters, t)
  BY <1>1 DEF ObjectOK, s
<1>4. CASE MaxConcurrent = 0
  <2>1. z = s
    BY <1>4 DEF ReleaseSlot
  <2> HIDE DEF z
  <2>2. QueueOK(z, p, i)
    BY <1>1, <1>3, <2>1, QueueKept
  <2> QED
    BY <1>1, <1>4, <2>1, <2>2 DEF ObjectOK, SlotsOK, Freed
<1>5. CASE MaxConcurrent # 0 /\ s.waiters = <<>>
  <2>1. z = [s EXCEPT !.free = @ + 1]
    BY <1>5 DEF ReleaseSlot
  <2> HIDE DEF z
  <2>2. z \in Object /\ z.free = s.free + 1 /\ z.waiters = s.waiters /\ z.active = s.active
    BY <1>1, <2>1 DEF Object
  <2>3. QueueOK(z, p, i)
    BY <1>1, <1>3, <2>2, QueueKept
  <2> QED
    BY <1>1, <1>5, <2>2, <2>3 DEF Freed
<1>6. CASE MaxConcurrent # 0 /\ s.waiters # <<>>
  <2>1. z = [s EXCEPT !.waiters = Tail(@)]
    BY <1>6 DEF ReleaseSlot
  <2> HIDE DEF z
  <2>2. z.waiters = Tail(s.waiters) /\ z.free = s.free /\ z.active = s.active
    BY <1>1, <2>1 DEF Object
  <2>3. z.waiters \in Seq(Tasks) /\ Len(z.waiters) = Len(s.waiters) - 1
    BY <1>1, <1>6, <2>2, HeadTailProperties
  <2>4. z \in Object
    BY <1>1, <2>1, <2>2, <2>3 DEF Object
  <2>6. QueueOK(z, p, i)
    BY <1>1, <1>3, <1>6, <2>2, <2>4, QueueShifted
  <2>5. s.free > 0 => MaxConcurrent = 0
    BY <1>1, <1>6, LimiterAssumption DEF ObjectOK, SlotsOK
  <2> QED
    BY <1>1, <1>6, <2>2, <2>3, <2>4, <2>5, <2>6 DEF Freed
<1> QED
  BY <1>4, <1>5, <1>6

LEMMA SlotAbandonedKeeps ==
  ASSUME LimiterInv, NEW t \in Tasks, task[t].slot = "waiting"
  PROVE  Inv(SlotAbandoned(limiter, t), Exited(task, t))
<1> DEFINE i == task[t].slotOn
           s == limiter.states[i]
           z == [s EXCEPT !.waiters = RemoveFirst(@, t)]
           p == Exited(task, t)
<1>0. task[t].token = "none"
  BY RecordIs DEF TaskOK
<1>1. CASE Granted(t)
  <2>1. i \in States /\ ~Contains(s.waiters, t)
    BY <1>1, BlockObject DEF Granted, LimiterInv
  <2> HIDE DEF i
  <2> QED
    BY <1>0, <1>1, <2>1, SlotLeftKeeps DEF SlotAbandoned, LimiterInv, i
<1>2. CASE ~Granted(t)
  <2>1. /\ i \in States /\ limiter \in Limiter /\ Outside \in TaskRecord
        /\ task \in [Tasks -> TaskRecord]
    BY BlockObject DEF LimiterInv, Inv, Outside, TaskRecord, Ticks
  <2>2. s \in Object /\ ObjectOK(s, task, i) /\ s.free \in Nat /\ Len(s.waiters) \in Nat
    BY <2>1 DEF LimiterInv, Inv, Limiter, Object
  <2>3. QueueOK(s, task, i) /\ Contains(s.waiters, t)
    BY <1>2, <2>2 DEF ObjectOK, Granted
  <2>4. SlotAbandoned(limiter, t) = LeaveBlock(Put(limiter, i, z), i)
    BY <1>2 DEF SlotAbandoned, Put
  <2>5. /\ z \in Object /\ z.waiters = RemoveFirst(s.waiters, t) /\ z.free = s.free
        /\ z.active = s.active /\ Len(z.waiters) = Len(s.waiters) - 1
    <3> HIDE DEF s
    <3> QED
      BY <2>2, <2>3, WaiterGoneIs
  <2>13. QueueOK(z, p, i)
    <3> HIDE DEF z, s, i
    <3> QED
      BY <2>1, <2>2, <2>3, <2>5, QueueLeft DEF Exited
  <2>8. /\ MaxConcurrent = 0 => z.free = 0
        /\ MaxConcurrent > 0 => z.free = 0
    <3>1. s.waiters # <<>>
      BY <2>3 DEF Contains
    <3> HIDE DEF z, s, i
    <3> QED
      BY <2>2, <2>5, <3>1 DEF ObjectOK, SlotsOK
  <2> HIDE DEF z, i
  <2>9. z.free - Len(z.waiters) = s.free - Len(s.waiters) + 1
    <3> HIDE DEF s
    <3> QED
      BY <2>2, <2>5
  <2>10. Freed(s, z)
    BY <2>8, <2>9 DEF Freed
  <2>11. task[t].slotOn = i
    BY DEF i
  <2>12. Inv(LeaveBlock(Put(limiter, i, z), i), p)
    BY <1>0, <2>1, <2>5, <2>10, <2>11, <2>13, SlotBlockEnds DEF LimiterInv
  <2> QED
    BY <2>4, <2>12
<1> QED
  BY <1>1, <1>2

-----------------------------------------------------------------------------
(* Tokens                                                                  *)

MayGo(l, t, r) == \A x \in {"sleeping", "asking", "held"}, n \in Nat :
  Inv(l, [task EXCEPT ![t] = [r EXCEPT !.token = x, !.sleep = n]])

(* acquire_token() past its entry keeps the invariant, if the places that  *)
(* the task may go to do.                                                  *)
LEMMA AskKeeps ==
  ASSUME NEW l, NEW t \in Tasks, NEW r \in TaskRecord, NEW i \in States, r.tokenOn = i,
         MayGo(l, t, r),
         AskForToken(l, t, r)
  PROVE  Inv(limiter', task')
<1>1. /\ l \in Limiter /\ l.states[i] \in Object /\ r.sleep \in Nat
      /\ \A x \in {"sleeping", "asking", "held"} :
           [r EXCEPT !.token = x] = [r EXCEPT !.token = x, !.sleep = r.sleep]
  BY DEF MayGo, Inv, Limiter, TaskRecord, Ticks
<1>2. \A x \in {"sleeping", "asking", "held"} :
        Inv(l, [task EXCEPT ![t] = [r EXCEPT !.token = x]])
  BY <1>1 DEF MayGo
<1>3. CASE TokenFree(l.states[i])
  <2>1. /\ limiter' = Put(l, i, TakeToken(l.states[i]))
        /\ task' = [task EXCEPT ![t] = [r EXCEPT !.token = "held"]]
    BY <1>3 DEF AskForToken, Put
  <2>2. /\ TakeToken(l.states[i]) \in Object
        /\ TakeToken(l.states[i]).free = l.states[i].free
        /\ TakeToken(l.states[i]).waiters = l.states[i].waiters
        /\ TakeToken(l.states[i]).active = l.states[i].active
    BY <1>1, <1>3, TakeTokenIs
  <2> QED
    BY <1>2, <2>1, <2>2, SameCounts
<1>4. CASE ~TokenFree(l.states[i])
  <2>1. limiter' = l /\ task' = [task EXCEPT ![t] = [r EXCEPT !.token = "asking"]]
    BY <1>4 DEF AskForToken
  <2> QED
    BY <1>2, <2>1
<1> QED
  BY <1>3, <1>4

LEMMA LookKeeps ==
  ASSUME NEW l, NEW t \in Tasks, NEW r \in TaskRecord, NEW i \in States, r.tokenOn = i,
         MayGo(l, t, r),
         LookAtBackoff(l, t, r)
  PROVE  Inv(limiter', task')
<1>1. l.states[i].backoff \in Nat
  BY DEF MayGo, Inv, Limiter, Object, Ticks
<1>2. CASE l.states[i].backoff > 0
  <2>1. /\ limiter' = l
        /\ task' = [task EXCEPT ![t] =
                     [r EXCEPT !.token = "sleeping", !.sleep = l.states[i].backoff]]
    BY <1>2 DEF LookAtBackoff
  <2> QED
    BY <1>1, <2>1 DEF MayGo
<1>3. CASE l.states[i].backoff = 0
  <2>1. AskForToken(l, t, r)
    BY <1>3 DEF LookAtBackoff
  <2> QED
    BY <2>1, AskKeeps
<1> QED
  BY <1>1, <1>2, <1>3

(* A task that is in an acquire_token() block may go to any of its places. *)
LEMMA MovesInToken ==
  ASSUME LimiterInv, NEW t \in Tasks, task[t].token # "none",
         NEW x \in {"sleeping", "asking", "held"}, NEW n \in Nat
  PROVE  Inv(limiter, [task EXCEPT ![t] = [task[t] EXCEPT !.token = x, !.sleep = n]])
<1> DEFINE r == [task[t] EXCEPT !.token = x, !.sleep = n]
<1>1. task[t] \in TaskRecord /\ TaskOK(task[t]) /\ Inv(limiter, task)
  BY RecordIs DEF LimiterInv
<1>2. /\ r \in TaskRecord /\ r.key = task[t].key /\ r.slot = task[t].slot
      /\ r.slotOn = task[t].slotOn /\ r.tokenOn = task[t].tokenOn /\ r.token = x
  BY <1>1 DEF TaskRecord, Ticks
<1>3. TaskOK(r)
  <2>1. task[t] # Outside /\ task[t].slot # "waiting"
    BY <1>1 DEF TaskOK, Outside
  <2>2. r # Outside
    BY <1>2 DEF Outside
  <2> HIDE DEF r
  <2> QED
    BY <1>1, <1>2, <2>1, <2>2 DEF TaskOK
<1> HIDE DEF r
<1>4. Inv(limiter, [task EXCEPT ![t] = r])
  BY <1>1, <1>2, <1>3, SameBlocks
<1> QED
  BY <1>4 DEF r

LEMMA EnterTokenKeeps ==
  ASSUME LimiterInv, NEW t \in Tasks, NEW k \in Keys, EnterToken(t, k)
  PROVE  LimiterInv'
<1> DEFINE i == Address(limiter, k)
           g == GetKeyState(limiter, k)
           s == [g.states[i] EXCEPT !.active = @ + 1]
           r == [task[t] EXCEPT !.key = k, !.tokenOn = i]
<1>1. /\ Inv(g, task) /\ i \in States /\ g.keys[k] = i
      /\ EnterBlock(limiter, k) = Put(g, i, s)
  BY LookUpKeeps, EnterBlockIs DEF EnterToken, LimiterInv
<1>2. /\ g \in Limiter /\ g.states[i] \in Object /\ ObjectOK(g.states[i], task, i)
      /\ task \in [Tasks -> TaskRecord] /\ task[t] \in TaskRecord /\ TaskOK(task[t])
  BY <1>1 DEF Inv, Limiter
<1>3. /\ s \in Object /\ s.free = g.states[i].free /\ s.waiters = g.states[i].waiters
      /\ s.active = g.states[i].active + 1
  BY <1>2 DEF Object
<1>4. /\ task[t].token = "none" /\ task[t].tokenOn = None /\ task[t].slotOn \in {i, None}
      /\ task[t] = Outside \/ task[t].slot = "held"
  <2>1. CASE task[t] = Outside
    BY <2>1 DEF Outside
  <2>2. CASE task[t].slot = "held" /\ task[t].key = k
    <3>1. task[t].slotOn \in States /\ g.keys[k] = task[t].slotOn
      BY <1>1, <2>2, BlockObject
    <3> QED
      BY <1>1, <1>2, <2>2, <3>1 DEF EnterToken, TaskOK
  <2> QED
    BY <2>1, <2>2 DEF EnterToken
<1>5. /\ r \in TaskRecord /\ r.tokenOn = i /\ r.key = k /\ r.slotOn = task[t].slotOn
      /\ r.slot = task[t].slot
  BY <1>1, <1>2 DEF TaskRecord
<1>6. ASSUME NEW x \in {"sleeping", "asking", "held"}, NEW n \in Nat
      PROVE  Inv(Put(g, i, s), [task EXCEPT ![t] = [r EXCEPT !.token = x, !.sleep = n]])
  <2> DEFINE e == [r EXCEPT !.token = x, !.sleep = n]
             p == [task EXCEPT ![t] = e]
  <2>1. /\ e \in TaskRecord /\ e.tokenOn = i /\ e.key = k /\ e.slotOn = task[t].slotOn
        /\ e.slot = task[t].slot /\ e.token = x
    BY <1>5 DEF TaskRecord, Ticks
  <2> HIDE DEF e, r, i, g, s
  <2>2. i # None /\ k # None
    BY <1>1, NoneApart
  <2>3. TaskOK(e)
    BY <1>2, <1>4, <2>1, <2>2 DEF TaskOK, Outside
  <2>4. OnItsKey(g, e)
    BY <1>1, <1>4, <2>1, NoneApart DEF OnItsKey
  <2>5. /\ Cardinality(InSlot(p, i)) = Cardinality(InSlot(task, i))
        /\ Cardinality(InToken(p, i)) = Cardinality(InToken(task, i)) + 1
    BY <1>2, <1>4, <2>1, <2>2, TokensMore
  <2>6. ~Contains(s.waiters, t)
    <3>1. task[t].slot # "waiting"
      BY <1>4 DEF Outside
    <3> QED
      BY <1>2, <1>3, <3>1 DEF ObjectOK, QueueOK, Contains
  <2>7. QueueOK(s, p, i)
    BY <1>2, <1>3, <2>1, <2>6, QueueKept DEF ObjectOK
  <2>8. SlotsOK(s, p, i)
    BY <1>2, <1>3, <2>5 DEF ObjectOK, SlotsOK
  <2>9. s.active = Cardinality(InSlot(p, i)) + Cardinality(InToken(p, i))
    <3>1. g.states[i].active = Cardinality(InSlot(task, i)) + Cardinality(InToken(task, i))
      BY <1>2 DEF ObjectOK
    <3> QED
      BY <1>3, <2>5, <3>1, CountsAreNat
  <2>10. ObjectOK(s, p, i)
    BY <2>7, <2>8, <2>9 DEF ObjectOK
  <2>11. {task[t].slotOn, task[t].tokenOn, e.slotOn, e.tokenOn} \subseteq {i, None}
    BY <1>4, <2>1
  <2>12. Inv(Put(g, i, s), p)
    BY <1>1, <1>3, <2>1, <2>3, <2>4, <2>10, <2>11, ObjectChange
  <2> QED
    BY <2>12 DEF e
<1>7. LookAtBackoff(Put(g, i, s), t, r) /\ UNCHANGED signalled
  BY <1>1 DEF EnterToken
<1>8. Inv(limiter', task')
  <2>1. MayGo(Put(g, i, s), t, r)
    BY <1>6 DEF MayGo
  <2> HIDE DEF r, i, g, s
  <2> QED
    BY <1>1, <1>5, <2>1, <1>7, LookKeeps
<1> QED
  BY <1>7, <1>8 DEF LimiterInv

LEMMA TokenLeftKeeps ==
  ASSUME NEW l, Inv(l, task), NEW t \in Tasks, task[t].token # "none"
  PROVE  Inv(TokenLeft(l, t), [task EXCEPT ![t] = OutOfToken(task[t])])
<1> DEFINE i == task[t].tokenOn
           s == l.states[i]
           z == [s EXCEPT !.active = Less(@, 1)]
           r == OutOfToken(task[t])
           p == [task EXCEPT ![t] = r]
<1>1. /\ i \in States /\ l \in Limiter /\ task \in [Tasks -> TaskRecord]
      /\ task[t] \in TaskRecord /\ TaskOK(task[t]) /\ OnItsKey(l, task[t])
      /\ Inv(l, task)
  BY BlockObject DEF Inv
<1>2. s \in Object /\ ObjectOK(s, task, i)
  BY <1>1 DEF Inv, Limiter
<1>3. task[t].slot # "waiting" /\ task[t].slotOn \in {i, None}
  BY <1>1, BlockObject DEF TaskOK
<1>4. /\ r \in TaskRecord /\ TaskOK(r) /\ r.tokenOn = None /\ r.slotOn = task[t].slotOn
      /\ r.slotOn # None => r.key = task[t].key
  <2>1. CASE task[t].slot = "none"
    <3>1. r = Outside /\ task[t].slotOn = None
      BY <1>1, <2>1 DEF OutOfToken, TaskOK
    <3> QED
      BY <3>1, NoneApart DEF Outside, TaskRecord, TaskOK, Ticks
  <2>2. CASE task[t].slot # "none"
    <3>1. r = [task[t] EXCEPT !.token = "none", !.tokenOn = None, !.sleep = 0]
      BY <2>2 DEF OutOfToken
    <3> HIDE DEF r
    <3>2. /\ r \in TaskRecord /\ r.tokenOn = None /\ r.token = "none"
          /\ r.slotOn = task[t].slotOn /\ r.slot = task[t].slot /\ r.key = task[t].key
      BY <1>1, <3>1 DEF TaskRecord, Ticks
    <3>3. r # Outside /\ task[t] # Outside
      BY <2>2, <3>2 DEF Outside
    <3> QED
      BY <1>1, <3>2, <3>3 DEF TaskOK
  <2> QED
    BY <2>1, <2>2
<1>5. OnItsKey(l, r)
  <2> HIDE DEF r
  <2> QED
    BY <1>1, <1>4, NoneApart DEF OnItsKey
<1>6. z \in Object /\ z.free = s.free /\ z.waiters = s.waiters /\ z.active = Less(s.active, 1)
  BY <1>2, SMTT(40) DEF Object, Less
<1> HIDE DEF i, s, z, r
<1>7. /\ Cardinality(InSlot(p, i)) = Cardinality(InSlot(task, i))
      /\ Cardinality(InToken(p, i)) = Cardinality(InToken(task, i)) - 1
  <2>1. task[t].tokenOn = i /\ i # None
    BY <1>1, NoneApart DEF i
  <2> QED
    BY <1>1, <1>4, <2>1, TokensFewer
<1>8. QueueOK(z, p, i)
  <2>1. QueueOK(s, task, i) /\ ~Contains(s.waiters, t)
    BY <1>2, <1>3 DEF ObjectOK, QueueOK, Contains
  <2> QED
    BY <1>1, <1>2, <1>4, <1>6, <2>1, QueueKept
<1>9. SlotsOK(z, p, i)
  BY <1>2, <1>6, <1>7 DEF ObjectOK, SlotsOK
<1>10. z.active = Cardinality(InSlot(p, i)) + Cardinality(InToken(p, i))
  <2> DEFINE a == Cardinality(InSlot(task, i))
             b == Cardinality(InToken(task, i))
             c == Cardinality(InToken(p, i))
  <2>1. a \in Nat /\ b \in Nat /\ c \in Nat /\ c = b - 1 /\ s.active = a + b
    BY <1>2, <1>7, CountsAreNat DEF ObjectOK
  <2>2. Less(a + b, 1) = a + c
    <3> HIDE DEF a, b, c
    <3> QED
      BY <2>1 DEF Less
  <2> QED
    BY <1>6, <1>7, <2>1, <2>2
<1>11. ObjectOK(z, p, i)
  BY <1>8, <1>9, <1>10 DEF ObjectOK
<1>12. {task[t].slotOn, task[t].tokenOn, r.slotOn, r.tokenOn} \subseteq {i, None}
  BY <1>3, <1>4 DEF i
<1>13. Inv(Put(l, i, z), p)
  BY <1>1, <1>4, <1>5, <1>6, <1>11, <1>12, ObjectChange
<1>14. Inv(LeaveBlock(Put(l, i, s), i), p)
  BY <1>1, <1>2, <1>13, LeaveKeeps DEF z
<1>15. Put(l, i, s) = l
  <2>1. /\ Put(l, i, s) \in Limiter /\ Put(l, i, s).keys = l.keys
        /\ Put(l, i, s).ops = l.ops
        /\ Put(l, i, s).states = [l.states EXCEPT ![i] = s]
    BY <1>1, <1>2, PutIs
  <2>2. [l.states EXCEPT ![i] = s] = l.states
    BY <1>1 DEF Limiter, s
  <2> QED
    BY <1>1, <2>1, <2>2, SameLimiter
<1>16. TokenLeft(l, t) = LeaveBlock(l, i)
  BY DEF TokenLeft, i
<1> QED
  BY <1>14, <1>15, <1>16 DEF r

LEMMA LeaveTokenKeeps ==
  ASSUME LimiterInv, NEW t \in Tasks, task[t].token # "none", LeaveToken(t)
  PROVE  LimiterInv'
<1>1. Inv(TokenLeft(limiter, t), [task EXCEPT ![t] = OutOfToken(task[t])])
  BY TokenLeftKeeps DEF LimiterInv
<1> QED
  BY <1>1 DEF LeaveToken, LimiterInv

-----------------------------------------------------------------------------
(* The invariant is inductive                                              *)

LEMMA LimiterInvInit == LimiterInit => LimiterInv
<1> SUFFICES ASSUME LimiterInit PROVE LimiterInv
  OBVIOUS
<1>1. /\ limiter.keys = [k \in Keys |-> None] /\ limiter.ops = 0
      /\ limiter.states = [i \in States |-> NewState]
      /\ limiter = [keys |-> limiter.keys, states |-> limiter.states, ops |-> limiter.ops]
      /\ task = [t \in Tasks |-> Outside] /\ signalled = [k \in Keys |-> 0]
  BY DEF LimiterInit
<1>2. /\ Outside \in TaskRecord /\ TaskOK(Outside)
      /\ Outside.slotOn = None /\ Outside.tokenOn = None
  BY NoneApart DEF Outside, TaskRecord, TaskOK, Ticks
<1>3. \A i \in States : NewState \in Object /\ ObjectOK(NewState, task, i)
  <2> SUFFICES ASSUME NEW i \in States PROVE NewState \in Object /\ ObjectOK(NewState, task, i)
    OBVIOUS
  <2>1. \A t \in Tasks : i \notin {task[t].slotOn, task[t].tokenOn}
    BY <1>1, <1>2, NoneApart
  <2> QED
    BY <2>1, NewStateOK
<1>4. limiter \in Limiter
  <2>1. 0 \in 0..(CleanupEvery - 1)
    BY LimiterAssumption
  <2>2. limiter.keys \in [Keys -> States \cup {None}] /\ limiter.states \in [States -> Object]
    BY <1>1, <1>3
  <2> QED
    BY <1>1, <2>1, <2>2 DEF Limiter
<1>5. OneKey(limiter)
  BY <1>1 DEF OneKey
<1>6. \A t \in Tasks : TaskOK(task[t]) /\ OnItsKey(limiter, task[t])
  BY <1>1, <1>2, NoneApart DEF OnItsKey
<1>7. \A i \in States : ObjectOK(limiter.states[i], task, i)
  BY <1>1, <1>3
<1>8. task \in [Tasks -> TaskRecord] /\ signalled \in [Keys -> Ticks]
  BY <1>1, <1>2 DEF Ticks
<1> QED
  BY <1>4, <1>5, <1>6, <1>7, <1>8 DEF LimiterInv, Inv

LEMMA SignalKeeps ==
  ASSUME LimiterInv, NEW k \in Keys, NEW d \in Durations, Signal(k, d)
  PROVE  LimiterInv'
<1> DEFINE i == Address(limiter, k)
           g == GetKeyState(limiter, k)
           z == [g.states[i] EXCEPT !.backoff = Larger(@, d)]
<1>1. /\ Inv(g, task) /\ i \in States /\ g \in Limiter /\ g.states[i] \in Object
  BY LookUpKeeps DEF Signal, LimiterInv, Inv, Limiter
<1>2. d \in Nat
  BY LimiterAssumption
<1>3. signalled' \in [Keys -> Ticks]
  BY <1>2 DEF Signal, Signalled, Larger, LimiterInv, Ticks
<1>4. Inv(limiter', task')
  <2>1. CASE d = 0
    BY <2>1 DEF Signal, SignalBackoff, LimiterInv
  <2>2. CASE d # 0
    <3>1. limiter' = Put(g, i, z) /\ task' = task
      BY <2>2 DEF Signal, SignalBackoff, Put
    <3> HIDE DEF g, i
    <3>2. /\ z \in Object /\ z.free = g.states[i].free
          /\ z.waiters = g.states[i].waiters /\ z.active = g.states[i].active
      BY <1>1, <1>2 DEF Object, Larger, Ticks
    <3> HIDE DEF z
    <3> QED
      BY <1>1, <3>1, <3>2, SameCounts
  <2> QED
    BY <2>1, <2>2
<1> QED
  BY <1>3, <1>4 DEF LimiterInv

LEMMA OlderIs ==
  ASSUME NEW s \in Object
  PROVE  /\ Older(s) \in Object /\ Older(s).free = s.free
         /\ Older(s).waiters = s.waiters /\ Older(s).active = s.active
<1>1. /\ s.backoff \in Nat /\ s.level \in 0..MaxRate /\ s.age \in 0..(MaxIdle + 1)
      /\ MaxRate \in Nat /\ Leak \in Nat /\ MaxIdle \in Nat
  BY LimiterAssumption DEF Object, Ticks
<1> DEFINE b == Less(s.backoff, 1)
           l == Less(s.level, Leak)
           a == IF s.age > MaxIdle THEN s.age ELSE s.age + 1
<1>2. b \in Nat /\ l \in 0..MaxRate /\ a \in 0..(MaxIdle + 1)
  BY <1>1 DEF Less
<1>3. Older(s) = [s EXCEPT !.backoff = b, !.level = l, !.age = a]
  BY DEF Older
<1> HIDE DEF a, b, l
<1> QED
  BY <1>2, <1>3 DEF Object, Ticks

LEMMA TickKeeps ==
  ASSUME LimiterInv, Tick
  PROVE  LimiterInv'
<1> DEFINE objects == [i \in States |-> IF i \in Unused(limiter) THEN limiter.states[i]
                                        ELSE Older(limiter.states[i])]
           l == [limiter EXCEPT !.states = objects]
           p == [t \in Tasks |-> [task[t] EXCEPT !.sleep = Less(@, 1)]]
<1>1. /\ limiter \in Limiter /\ OneKey(limiter) /\ task \in [Tasks -> TaskRecord]
      /\ limiter.states \in [States -> Object]
      /\ \A t \in Tasks : TaskOK(task[t]) /\ OnItsKey(limiter, task[t])
      /\ \A i \in States : ObjectOK(limiter.states[i], task, i)
  BY DEF LimiterInv, Inv, Limiter
<1>2. limiter' = l /\ task' = p
  BY DEF Tick
<1>3. /\ objects \in [States -> Object]
      /\ \A i \in States : /\ objects[i].free = limiter.states[i].free
                            /\ objects[i].waiters = limiter.states[i].waiters
                            /\ objects[i].active = limiter.states[i].active
  BY <1>1, OlderIs
<1> HIDE DEF objects
<1>4. l \in Limiter /\ l.keys = limiter.keys /\ l.states = objects
  BY <1>1, <1>3, FieldChange
<1>5. ASSUME NEW t \in Tasks
      PROVE  /\ p[t] \in TaskRecord /\ TaskOK(p[t]) /\ OnItsKey(l, p[t])
             /\ p[t].slot = task[t].slot /\ p[t].slotOn = task[t].slotOn
             /\ p[t].tokenOn = task[t].tokenOn
  <2>1. task[t] \in TaskRecord /\ TaskOK(task[t]) /\ OnItsKey(limiter, task[t])
    BY <1>1
  <2>2. /\ p[t] \in TaskRecord /\ p[t].key = task[t].key
        /\ p[t].slot = task[t].slot /\ p[t].slotOn = task[t].slotOn
        /\ p[t].token = task[t].token /\ p[t].tokenOn = task[t].tokenOn
    BY <2>1 DEF TaskRecord, Ticks, Less
  <2>3. task[t] = Outside => p[t] = Outside
    BY DEF Outside, Less
  <2> HIDE DEF p, l
  <2>4. p[t] = Outside => p[t].key = None
    BY DEF Outside
  <2> QED
    BY <1>4, <2>1, <2>2, <2>3, <2>4 DEF TaskOK, OnItsKey
<1>6. p \in [Tasks -> TaskRecord]
  BY <1>5
<1> HIDE DEF l, p
<1>7. ASSUME NEW i \in States PROVE ObjectOK(l.states[i], p, i)
  <2>1. InSlot(p, i) = InSlot(task, i) /\ InToken(p, i) = InToken(task, i)
    BY <1>5 DEF InSlot, InToken
  <2>2. \A n \in 1..Len(limiter.states[i].waiters) : limiter.states[i].waiters[n] \in Tasks
    BY <1>1 DEF Object
  <2>3. ObjectOK(limiter.states[i], task, i)
    BY <1>1
  <2>4. QueueOK(l.states[i], p, i)
    BY <1>3, <1>4, <1>5, <2>2, <2>3 DEF ObjectOK, QueueOK
  <2> QED
    BY <1>3, <1>4, <2>1, <2>3, <2>4 DEF ObjectOK, SlotsOK
<1>8. OneKey(l)
  BY <1>1, <1>4 DEF OneKey
<1>9. signalled' \in [Keys -> Ticks]
  BY DEF Tick, LimiterInv, Less, Ticks
<1> QED
  BY <1>2, <1>4, <1>5, <1>6, <1>7, <1>8, <1>9 DEF LimiterInv, Inv

LEMMA TaskStepKeeps ==
  ASSUME LimiterInv, NEW t \in Tasks, TaskStep(t)
  PROVE  LimiterInv'
<1>1. CASE \E k \in Keys : EnterSlot(t, k)
  BY <1>1, EnterSlotKeeps
<1>2. CASE GetSlot(t)
  <2> DEFINE r == [task[t] EXCEPT !.slot = "held"]
  <2>1. /\ task[t] \in TaskRecord /\ TaskOK(task[t]) /\ task[t].slot = "waiting"
        /\ ~Contains(limiter.states[task[t].slotOn].waiters, t)
    BY <1>2, RecordIs DEF GetSlot, Granted
  <2>2. /\ r \in TaskRecord /\ r.key = task[t].key /\ r.slotOn = task[t].slotOn
        /\ r.tokenOn = task[t].tokenOn /\ r.token = task[t].token /\ r.slot = "held"
    BY <2>1 DEF TaskRecord
  <2>3. task[t] # Outside /\ r # Outside
    BY <2>1, <2>2 DEF Outside
  <2>4. task' = [task EXCEPT ![t] = r] /\ UNCHANGED <<limiter, signalled>>
    BY <1>2 DEF GetSlot
  <2> HIDE DEF r
  <2>5. TaskOK(r)
    BY <2>1, <2>2, <2>3 DEF TaskOK
  <2>6. Inv(limiter, [task EXCEPT ![t] = r])
    BY <2>1, <2>2, <2>5, SameBlocks DEF LimiterInv
  <2> QED
    BY <2>4, <2>6 DEF LimiterInv
<1>3. CASE ExitSlot(t)
  <2>1. task[t].slot = "held" /\ task[t].token = "none"
    BY <1>3 DEF ExitSlot
  <2>2. PICK i \in States : task[t].slotOn = i
    BY <2>1, BlockObject DEF LimiterInv
  <2>3. ~Contains(limiter.states[i].waiters, t)
    BY <2>1, <2>2 DEF LimiterInv, Inv, ObjectOK, QueueOK, Contains
  <2>4. Inv(SlotLeft(limiter, t), Exited(task, t))
    BY <2>1, <2>2, <2>3, SlotLeftKeeps DEF LimiterInv
  <2> QED
    BY <1>3, <2>4 DEF ExitSlot, LimiterInv, Exited
<1>4. CASE CancelSlot(t)
  BY <1>4, SlotAbandonedKeeps DEF CancelSlot, LimiterInv, Exited
<1>5. CASE \E k \in Keys : EnterToken(t, k)
  BY <1>5, EnterTokenKeeps
<1>6. ASSUME task[t].token # "none"
      PROVE  /\ task[t] \in TaskRecord /\ task[t].tokenOn \in States
             /\ MayGo(limiter, t, task[t])
  BY <1>6, RecordIs, MovesInToken, BlockObject DEF MayGo, LimiterInv
<1>7. CASE WakeUp(t)
  BY <1>6, <1>7, LookKeeps DEF WakeUp, LimiterInv
<1>8. CASE GetToken(t)
  BY <1>6, <1>8, AskKeeps DEF GetToken, LimiterInv
<1>9. CASE ExitToken(t)
  BY <1>9, LeaveTokenKeeps DEF ExitToken
<1>10. CASE CancelToken(t)
  BY <1>10, LeaveTokenKeeps DEF CancelToken
<1> QED
  BY <1>1, <1>2, <1>3, <1>4, <1>5, <1>7, <1>8, <1>9, <1>10 DEF TaskStep

LEMMA LimiterInvNext == LimiterInv /\ [LimiterNext]_limiterVars => LimiterInv'
<1> SUFFICES ASSUME LimiterInv, [LimiterNext]_limiterVars PROVE LimiterInv'
  OBVIOUS
<1>1. CASE \E t \in Tasks : TaskStep(t)
  BY <1>1, TaskStepKeeps
<1>2. CASE \E k \in Keys, d \in Durations : Signal(k, d)
  BY <1>2, SignalKeeps
<1>3. CASE Cleanup
  BY <1>3, CleanUpKeeps DEF Cleanup, LimiterInv
<1>4. CASE Tick
  BY <1>4, TickKeeps
<1>5. CASE UNCHANGED limiterVars
  BY <1>5 DEF limiterVars, LimiterInv
<1> QED
  BY <1>1, <1>2, <1>3, <1>4, <1>5 DEF LimiterNext

-----------------------------------------------------------------------------
(* What follows                                                            *)

LEMMA TypeByInv == LimiterInv => LimiterTypeOK
<1> SUFFICES ASSUME LimiterInv PROVE LimiterTypeOK
  OBVIOUS
<1>1. /\ limiter \in Limiter /\ limiter.states \in [States -> Object]
      /\ task \in [Tasks -> TaskRecord] /\ signalled \in [Keys -> Ticks]
      /\ \A t \in Tasks : TaskOK(task[t])
  BY DEF LimiterInv, Inv, Limiter
<1>2. ASSUME NEW i \in States PROVE limiter.states[i] \in KeyState
  <2> DEFINE s == limiter.states[i]
  <2>1. s \in Object /\ SlotsOK(s, task, i)
    BY <1>1 DEF LimiterInv, Inv, ObjectOK
  <2>2. /\ s.free \in Nat /\ s.waiters \in Seq(Tasks) /\ Cardinality(InSlot(task, i)) \in Nat
        /\ MaxConcurrent \in Nat
    BY <2>1, CountsAreNat, LimiterAssumption DEF Object
  <2> HIDE DEF s
  <2>3. s.free \in 0..MaxConcurrent
    <3>1. CASE MaxConcurrent = 0 \/ s.free = 0
      BY <2>1, <2>2, <3>1 DEF SlotsOK
    <3>2. CASE MaxConcurrent # 0 /\ s.free # 0
      <4>1. s.waiters = <<>> /\ Len(s.waiters) = 0
        BY <2>1, <2>2, <3>2 DEF SlotsOK
      <4>2. s.free + Cardinality(InSlot(task, i)) = MaxConcurrent + 0
        BY <2>1, <2>2, <3>2, <4>1 DEF SlotsOK
      <4> QED
        BY <2>2, <4>2
    <3> QED
      BY <3>1, <3>2
  <2> QED
    BY <2>1, <2>3 DEF Object, KeyState, s
<1>3. limiter \in [keys : [Keys -> States \cup {None}], states : [States -> KeyState],
                   ops : 0..(CleanupEvery - 1)]
  BY <1>1, <1>2 DEF Limiter
<1> QED
  BY <1>1, <1>3 DEF LimiterTypeOK, TaskOK

LEMMA OneStateByInv == LimiterInv => OneStatePerKey
<1> SUFFICES ASSUME LimiterInv PROVE OneStatePerKey
  OBVIOUS
<1>1. LimiterTypeOK
  BY TypeByInv
<1>2. ASSUME NEW t \in Tasks
      PROVE  {task[t].slotOn, task[t].tokenOn} \ {None}
               \subseteq {limiter.keys[k] : k \in {task[t].key} \ {None}}
  <2>1. task[t] \in TaskRecord /\ OnItsKey(limiter, task[t])
    BY DEF LimiterInv, Inv
  <2> QED
    BY <2>1, NoneApart DEF TaskRecord, OnItsKey
<1>3. ASSUME NEW k \in Keys, limiter.keys[k] # None
      PROVE  limiter.states[limiter.keys[k]].active = BlocksOn(limiter.keys[k])
  <2>1. limiter.keys[k] \in States
    BY <1>3 DEF LimiterInv, Inv, Limiter
  <2> QED
    BY <2>1 DEF LimiterInv, Inv, ObjectOK, BlocksOn, InSlot, InToken
<1> QED
  BY <1>1, <1>2, <1>3 DEF OneStatePerKey

(* Who is in a slot block and does not wait has a slot.                    *)
LEMMA HoldersCounted ==
  ASSUME LimiterInv, NEW k \in Keys, limiter.keys[k] # None
  PROVE  LET i == limiter.keys[k] IN
         Cardinality(SlotHolders(k)) =
           Cardinality(InSlot(task, i)) - Len(limiter.states[i].waiters)
<1> DEFINE i == limiter.keys[k]
           w == limiter.states[i].waiters
           W == {w[n] : n \in 1..Len(w)}
<1>1. /\ i \in States /\ OneKey(limiter) /\ limiter.states[i] \in Object
      /\ QueueOK(limiter.states[i], task, i) /\ task \in [Tasks -> TaskRecord]
      /\ \A t \in Tasks : TaskOK(task[t]) /\ OnItsKey(limiter, task[t])
  BY DEF LimiterInv, Inv, Limiter, ObjectOK
<1>2. w \in Seq(Tasks) /\ Len(w) \in Nat /\ w \in [1..Len(w) -> Tasks]
  <2>1. w \in Seq(Tasks)
    BY <1>1 DEF Object
  <2> HIDE DEF w
  <2> QED
    BY <2>1, LenProperties
<1>3. SlotHolders(k) = InSlot(task, i) \ W
  <2>1. ASSUME NEW t \in Tasks
        PROVE  t \in SlotHolders(k) <=> t \in InSlot(task, i) /\ t \notin W
    <3>0. task[t] \in TaskRecord /\ TaskOK(task[t]) /\ OnItsKey(limiter, task[t])
      BY <1>1
    <3>1. CASE task[t].slotOn = i
      <4>1. task[t].key = k
        BY <1>1, <3>0, <3>1 DEF OnItsKey, OneKey
      <4>2. task[t].slot \in {"waiting", "held"}
        BY <1>1, <3>0, <3>1, NoneApart DEF TaskOK, TaskRecord
      <4>3. Contains(limiter.states[task[t].slotOn].waiters, t) <=> t \in W
        BY <3>1 DEF Contains
      <4>4. t \in W => task[t].slot = "waiting"
        BY <1>1 DEF QueueOK
      <4> QED
        BY <3>1, <4>1, <4>2, <4>3, <4>4 DEF SlotHolders, Granted, InSlot
    <3>2. CASE task[t].slotOn # i
      <4>1. t \notin SlotHolders(k)
        <5> SUFFICES ASSUME t \in SlotHolders(k) PROVE FALSE
          OBVIOUS
        <5>1. task[t].slot # "none" /\ task[t].key = k
          BY DEF SlotHolders, Granted
        <5>2. task[t].slotOn \in States
          BY <3>0, <5>1 DEF TaskOK, TaskRecord
        <5> QED
          BY <3>0, <3>2, <5>1, <5>2 DEF OnItsKey
      <4> QED
        BY <3>2, <4>1 DEF InSlot
    <3> QED
      BY <3>1, <3>2
  <2>2. SlotHolders(k) \subseteq Tasks /\ InSlot(task, i) \subseteq Tasks
    BY DEF SlotHolders, InSlot
  <2> QED
    BY <2>1, <2>2
<1>4. W \subseteq InSlot(task, i)
  <2>1. \A n \in 1..Len(w) : w[n] \in Tasks /\ task[w[n]].slotOn = i
    BY <1>1, <1>2 DEF QueueOK
  <2> QED
    BY <2>1 DEF InSlot
<1>5. Cardinality(W) = Len(w)
  <2>1. w \in Bijection(1..Len(w), W)
    <3>1. w \in [1..Len(w) -> W] /\ DOMAIN w = 1..Len(w)
      BY <1>2
    <3>2. \A m, n \in 1..Len(w) : w[m] = w[n] => m = n
      BY <1>1 DEF QueueOK
    <3>3. \A x \in W : \E n \in 1..Len(w) : w[n] = x
      OBVIOUS
    <3> HIDE DEF w, W
    <3> QED
      BY <3>1, <3>2, <3>3 DEF Bijection, Injection, Surjection, IsInjective
  <2>2. ExistsBijection(1..Len(w), W)
    BY <2>1 DEF ExistsBijection
  <2> HIDE DEF w, W
  <2> QED
    BY <1>2, <2>2, FS_CountingElements
<1>6. Cardinality(InSlot(task, i) \ W) = Cardinality(InSlot(task, i)) - Cardinality(W)
  <2>1. InSlot(task, i) \cap W = W
    BY <1>4
  <2> HIDE DEF i, W
  <2> QED
    BY <2>1, CountsAreNat, FS_Difference
<1> QED
  BY <1>3, <1>5, <1>6

LEMMA SlotsByInv == LimiterInv => SlotsConserved
<1> SUFFICES ASSUME LimiterInv, MaxConcurrent > 0 PROVE SlotsBounded /\ NoSlotLost
  BY DEF SlotsConserved, SlotsBounded, NoSlotLost
<1>1. ASSUME NEW k \in Keys, limiter.keys[k] # None
      PROVE  LET s == limiter.states[limiter.keys[k]] IN
             /\ s.free \in Nat
             /\ s.free + Cardinality(SlotHolders(k)) = MaxConcurrent
             /\ s.free > 0 => s.waiters = <<>>
             /\ Cardinality(SlotHolders(k)) <= MaxConcurrent
  <2> DEFINE i == limiter.keys[k]
             s == limiter.states[i]
             a == Cardinality(InSlot(task, i))
             n == Len(s.waiters)
             c == Cardinality(SlotHolders(k))
  <2>1. s \in Object /\ SlotsOK(s, task, i)
    BY <1>1 DEF LimiterInv, Inv, Limiter, ObjectOK
  <2>2. s.free \in Nat /\ n \in Nat /\ a \in Nat /\ MaxConcurrent \in Nat
    BY <2>1, CountsAreNat, LimiterAssumption DEF Object
  <2>3. c = a - n
    BY <1>1, HoldersCounted
  <2>4. s.free + a = MaxConcurrent + n /\ (s.free > 0 => s.waiters = <<>>)
    BY <2>1 DEF SlotsOK
  <2>5. s.free + c = MaxConcurrent /\ c <= MaxConcurrent
    <3> HIDE DEF s, a, n, c
    <3> QED
      BY <2>2, <2>3, <2>4
  <2> QED
    BY <2>2, <2>4, <2>5
<1>2. ASSUME NEW k \in Keys, limiter.keys[k] = None
      PROVE  Cardinality(SlotHolders(k)) = 0
  <2>1. SlotHolders(k) = {}
    <3> SUFFICES ASSUME NEW t \in SlotHolders(k) PROVE FALSE
      OBVIOUS
    <3>1. t \in Tasks /\ task[t].slot # "none" /\ task[t].key = k
      BY DEF SlotHolders, Granted
    <3>2. task[t].slotOn \in States /\ limiter.keys[k] = task[t].slotOn
      BY <3>1, BlockObject DEF LimiterInv
    <3> QED
      BY <1>2, <3>2, NoneApart
  <2> QED
    BY <2>1, FS_EmptySet
<1>3. SlotsBounded
  BY <1>1, <1>2, LimiterAssumption DEF SlotsBounded
<1>4. NoSlotLost
  BY <1>1 DEF NoSlotLost
<1> QED
  BY <1>3, <1>4

-----------------------------------------------------------------------------
(* The theorems                                                            *)

LEMMA LimiterInvariant == LimiterSpec => []LimiterInv
<1>1. LimiterInit => LimiterInv
  BY LimiterInvInit
<1>2. LimiterInv /\ [LimiterNext]_limiterVars => LimiterInv'
  BY LimiterInvNext
<1> QED
  BY <1>1, <1>2, PTL DEF LimiterSpec

(* Every open block works on the object that the dictionary has for its    *)
(* key, and active_count is the number of blocks open on it, whatever      *)
(* cleanup() evicts.                                                       *)
THEOREM OneState == LimiterSpec => []OneStatePerKey
<1>1. LimiterInv => OneStatePerKey
  BY OneStateByInv
<1> QED
  BY <1>1, LimiterInvariant, PTL

(* No key has more tasks in hold_slot() than max_concurrent, no slot is    *)
(* lost to a cancelled waiter or an evicted key, and nobody waits while one*)
(* is free.                                                                *)
THEOREM Slots == LimiterSpec => []SlotsConserved
<1>1. LimiterInv => SlotsConserved
  BY SlotsByInv
<1> QED
  BY <1>1, LimiterInvariant, PTL

-----------------------------------------------------------------------------
(***************************************************************************)
(* Proof that a backoff signalled for a key holds everyone back who asks   *)
(* for a token of that key, also when its state is evicted meanwhile.      *)
(*                                                                         *)
(* An evicted state takes its backoff with it.  That is harmless as long   *)
(* as no backoff is longer than the time a state must have been idle.      *)
(***************************************************************************)

(* No backoff outlives max_idle_seconds.                                   *)
ShortBackoffs == Durations \subseteq 0..(MaxIdle + 1)

(* The inductive invariant: a key that has no state has no backoff either; *)
(* the state of a key knows its longest backoff, which ends before the     *)
(* state can be taken for idle.                                            *)
Remembers(s, h) == s.backoff >= h /\ h + s.age <= MaxIdle + 1
Fresh(l, h) == \A k \in Keys : IF l.keys[k] = None THEN h[k] = 0
                               ELSE Remembers(l.states[l.keys[k]], h[k])

BackoffInv == LimiterInv /\ Fresh(limiter, signalled)

-----------------------------------------------------------------------------
(* The methods                                                             *)

(* Nothing but the time stamps of an object counts.                        *)
LEMMA FreshPut ==
  ASSUME NEW l \in Limiter, NEW h, Fresh(l, h), NEW i \in States, NEW z \in Object,
         z.backoff = l.states[i].backoff, z.age = l.states[i].age
  PROVE  Fresh(Put(l, i, z), h)
<1>1. Put(l, i, z).keys = l.keys /\ Put(l, i, z).states = [l.states EXCEPT ![i] = z]
  BY PutIs
<1> QED
  BY <1>1 DEF Fresh, Remembers, Limiter

LEMMA FreshLookUp ==
  ASSUME BackoffInv, NEW k \in Keys, CanLookUp(limiter, k)
  PROVE  Fresh(GetKeyState(limiter, k), signalled)
<1> DEFINE i == Address(limiter, k)
           s == IF limiter.keys[k] # None THEN limiter.states[i] ELSE NewState
           z == [s EXCEPT !.age = 0]
           l == GetKeyState(limiter, k)
<1>1. /\ limiter \in Limiter /\ OneKey(limiter) /\ Inv(limiter, task)
      /\ signalled \in [Keys -> Nat] /\ Fresh(limiter, signalled)
  BY DEF BackoffInv, LimiterInv, Inv, Ticks
<1>2. /\ i \in States
      /\ limiter.keys[k] # None => i = limiter.keys[k]
      /\ limiter.keys[k] = None => i \in Unused(limiter)
      /\ l.keys = [limiter.keys EXCEPT ![k] = i]
      /\ l.states = [limiter.states EXCEPT ![i] = z]
  BY <1>1, LookUpIs
<1>3. Remembers(z, signalled[k])
  <2>1. CASE limiter.keys[k] # None
    <3>1. /\ limiter.states[i] \in Object /\ s = limiter.states[i]
          /\ Remembers(limiter.states[i], signalled[k])
      BY <1>1, <1>2, <2>1 DEF Fresh, Limiter
    <3>2. z.backoff = s.backoff /\ z.age = 0 /\ s.age \in Nat /\ s.backoff \in Nat
      BY <3>1, LimiterAssumption DEF Object, Ticks
    <3> HIDE DEF s, z, i
    <3> QED
      BY <1>1, <3>1, <3>2, LimiterAssumption DEF Remembers
  <2>2. CASE limiter.keys[k] = None
    <3>1. signalled[k] = 0 /\ z.backoff = 0 /\ z.age = 0
      BY <1>1, <2>2 DEF Fresh, NewState
    <3> HIDE DEF s, z, i
    <3> QED
      BY <3>1, LimiterAssumption DEF Remembers
  <2> QED
    BY <2>1, <2>2
<1> HIDE DEF s, z, l, i
<1>4. l.keys[k] = i /\ l.states[i] = z /\ i # None
  BY <1>1, <1>2, NoneApart DEF Limiter
<1>5. ASSUME NEW m \in Keys, m # k
      PROVE  IF l.keys[m] = None THEN signalled[m] = 0
             ELSE Remembers(l.states[l.keys[m]], signalled[m])
  <2>1. l.keys[m] = limiter.keys[m]
    BY <1>1, <1>2, <1>5 DEF Limiter
  <2>2. CASE l.keys[m] = None
    BY <1>1, <2>1, <2>2 DEF Fresh
  <2>3. CASE l.keys[m] # None
    <3>1. l.keys[m] # i
      BY <1>1, <1>2, <1>5, <2>1, <2>3 DEF OneKey, Unused
    <3>2. l.states[l.keys[m]] = limiter.states[l.keys[m]]
      BY <1>1, <1>2, <2>1, <2>3, <3>1 DEF Limiter
    <3> QED
      BY <1>1, <2>1, <2>3, <3>2 DEF Fresh
  <2> QED
    BY <2>2, <2>3
<1>6. Fresh(l, signalled)
  BY <1>3, <1>4, <1>5 DEF Fresh
<1> QED
  BY <1>6 DEF l

(* cleanup() evicts only keys whose backoff is over.                       *)
LEMMA FreshCleanUp ==
  ASSUME NEW l \in Limiter, OneKey(l), NEW h \in [Keys -> Nat], Fresh(l, h)
  PROVE  Fresh(CleanUp(l), h)
<1> DEFINE freed == {l.keys[k] : k \in Evicted(l)}
           used == {i \in States : \E t \in Tasks : i \in {task[t].slotOn, task[t].tokenOn}}
           names == [k \in Keys |-> IF k \in Evicted(l) THEN None ELSE l.keys[k]]
           objects == [i \in States |-> IF i \in freed \ used THEN NewState ELSE l.states[i]]
           m == CleanUp(l)
<1>1. m.keys = names /\ m.states = objects
  BY DEF CleanUp, Evicted, Limiter
<1> SUFFICES ASSUME NEW k \in Keys
             PROVE  IF m.keys[k] = None THEN h[k] = 0
                    ELSE Remembers(m.states[m.keys[k]], h[k])
  BY DEF Fresh
<1>2. CASE k \in Evicted(l)
  <2>1. /\ l.keys[k] \in States /\ l.states[l.keys[k]] \in Object
        /\ l.states[l.keys[k]].age > MaxIdle /\ Remembers(l.states[l.keys[k]], h[k])
    BY <1>2 DEF Evicted, Idle, Fresh, Limiter
  <2>2. l.states[l.keys[k]].age \in Nat
    BY <2>1, LimiterAssumption DEF Object
  <2>3. h[k] = 0
    BY <2>1, <2>2, LimiterAssumption DEF Remembers
  <2>4. m.keys[k] = None
    BY <1>1, <1>2
  <2> QED
    BY <2>3, <2>4
<1>3. CASE k \notin Evicted(l)
  <2>1. m.keys[k] = l.keys[k]
    BY <1>1, <1>3
  <2>2. CASE l.keys[k] = None
    BY <2>1, <2>2 DEF Fresh
  <2>3. CASE l.keys[k] # None
    <3>1. l.keys[k] \in States
      BY <2>3 DEF Limiter
    <3>2. l.keys[k] \notin freed
      BY <1>3, <2>3 DEF OneKey, Evicted
    <3>3. m.states[l.keys[k]] = l.states[l.keys[k]]
      BY <1>1, <3>1, <3>2
    <3> QED
      BY <2>1, <2>3, <3>3 DEF Fresh
  <2> QED
    BY <2>2, <2>3
<1> QED
  BY <1>2, <1>3

(* The finally of a block.                                                 *)
LEMMA FreshLeave ==
  ASSUME NEW l \in Limiter, OneKey(l), NEW h \in [Keys -> Nat], Fresh(l, h),
         NEW i \in States
  PROVE  Fresh(LeaveBlock(l, i), h)
<1> DEFINE z == [l.states[i] EXCEPT !.active = Less(@, 1)]
           left == [l EXCEPT !.states[i].active = Less(@, 1)]
<1>1. /\ z \in Object
      /\ z.backoff = l.states[i].backoff /\ z.age = l.states[i].age
  <2>1. PICK c \in Object : c = l.states[i]
    BY DEF Limiter
  <2> QED
    BY <2>1, LessActiveIs
<1>2. left = Put(l, i, z)
  BY DEF Put, Limiter
<1> HIDE DEF z, left
<1>3. left \in Limiter /\ left.keys = l.keys /\ left.ops = l.ops /\ Fresh(left, h)
  BY <1>1, <1>2, PutIs, FreshPut, ZenonT(60)
<1>4. OneKey(left)
  BY <1>3 DEF OneKey
<1>5. ASSUME NEW n \in 0..(CleanupEvery - 1)
      PROVE  LET m == [left EXCEPT !.ops = n]
             IN  m \in Limiter /\ OneKey(m) /\ Fresh(m, h)
  <2> DEFINE m == [left EXCEPT !.ops = n]
  <2>1. m \in Limiter /\ m.keys = left.keys /\ m.states = left.states
    BY <1>3 DEF Limiter
  <2> HIDE DEF m
  <2>2. OneKey(m) /\ Fresh(m, h)
    BY <1>3, <1>4, <2>1 DEF OneKey, Fresh
  <2> QED
    BY <2>1, <2>2 DEF m
<1>6. CASE l.ops + 1 >= CleanupEvery
  <2>1. 0 \in 0..(CleanupEvery - 1)
    BY LimiterAssumption
  <2>2. LeaveBlock(l, i) = CleanUp([left EXCEPT !.ops = 0])
    BY <1>6 DEF LeaveBlock, left
  <2> QED
    BY <1>5, <2>1, <2>2, FreshCleanUp
<1>7. CASE ~(l.ops + 1 >= CleanupEvery)
  <2>1. l.ops + 1 \in 0..(CleanupEvery - 1)
    BY <1>7, LimiterAssumption DEF Limiter
  <2>2. LeaveBlock(l, i) = [left EXCEPT !.ops = l.ops + 1]
    BY <1>3, <1>7 DEF LeaveBlock, left
  <2> QED
    BY <1>5, <2>1, <2>2
<1> QED
  BY <1>6, <1>7

(* Taking a token leaves the time stamps alone.                            *)
LEMMA FreshAsk ==
  ASSUME NEW l \in Limiter, NEW h, Fresh(l, h), NEW t, NEW r, r.tokenOn \in States,
         AskForToken(l, t, r) \/ LookAtBackoff(l, t, r)
  PROVE  Fresh(limiter', h)
<1> DEFINE s == l.states[r.tokenOn]
<1>1. s \in Object
  BY DEF Limiter
<1>2. CASE limiter' = l
  BY <1>2
<1>3. CASE TokenFree(s) /\ limiter' = [l EXCEPT !.states[r.tokenOn] = TakeToken(s)]
  <2>1. limiter' = Put(l, r.tokenOn, TakeToken(s))
    BY <1>3 DEF Put
  <2>2. /\ TakeToken(s) \in Object
        /\ TakeToken(s).backoff = s.backoff /\ TakeToken(s).age = s.age
    BY <1>1, <1>3, TakeTokenIs
  <2> QED
    BY <2>1, <2>2, FreshPut
<1> QED
  BY <1>2, <1>3 DEF AskForToken, LookAtBackoff

-----------------------------------------------------------------------------
(* The actions                                                             *)

LEMMA FreshEnter ==
  ASSUME BackoffInv, NEW k \in Keys, CanLookUp(limiter, k)
  PROVE  LET i == Address(limiter, k)
             l == EnterBlock(limiter, k)
         IN  /\ l \in Limiter /\ i \in States /\ l.keys[k] = i /\ i # None
             /\ Fresh(l, signalled)
<1> DEFINE i == Address(limiter, k)
           g == GetKeyState(limiter, k)
           z == [g.states[i] EXCEPT !.active = @ + 1]
           l == EnterBlock(limiter, k)
<1>1. /\ g \in Limiter /\ i \in States /\ g.keys[k] = i /\ l = Put(g, i, z)
  BY LookUpKeeps, EnterBlockIs DEF BackoffInv, LimiterInv, Inv
<1>2. Fresh(g, signalled)
  BY FreshLookUp
<1> HIDE DEF g, i, l
<1>3. z \in Object /\ z.backoff = g.states[i].backoff /\ z.age = g.states[i].age
  <2> DEFINE s == g.states[i]
  <2>1. s \in Object /\ s.active + 1 \in Nat
    BY <1>1 DEF Object, Limiter
  <2>2. z = [s EXCEPT !.active = @ + 1]
    OBVIOUS
  <2> HIDE DEF s, z
  <2>3. z \in Object /\ z.backoff = s.backoff /\ z.age = s.age
    BY <2>1, <2>2 DEF Object
  <2> QED
    BY <2>3 DEF s
<1> HIDE DEF z
<1>4. l \in Limiter /\ l.keys = g.keys /\ Fresh(l, signalled)
  BY <1>1, <1>2, <1>3, PutIs, FreshPut
<1> QED
  BY <1>1, <1>4, NoneApart DEF i, l

LEMMA FreshEnterSlot ==
  ASSUME BackoffInv, NEW t \in Tasks, NEW k \in Keys, EnterSlot(t, k)
  PROVE  Fresh(limiter', signalled')
<1> DEFINE i == Address(limiter, k)
           l == EnterBlock(limiter, k)
           z == AcquireSlot(l.states[i], t)
<1>1. l \in Limiter /\ i \in States /\ Fresh(l, signalled)
  BY FreshEnter DEF EnterSlot
<1>2. limiter' = Put(l, i, z) /\ signalled' = signalled
  BY DEF EnterSlot, Put
<1> HIDE DEF l, i
<1>3. z \in Object /\ z.backoff = l.states[i].backoff /\ z.age = l.states[i].age
  BY <1>1, AcquireSlotIs DEF Limiter
<1> HIDE DEF z
<1> QED
  BY <1>1, <1>2, <1>3, FreshPut

LEMMA FreshSlotLeft ==
  ASSUME BackoffInv, NEW t \in Tasks, task[t].slot # "none"
  PROVE  /\ Fresh(SlotLeft(limiter, t), signalled)
         /\ ~Granted(t) /\ task[t].slot = "waiting" =>
              Fresh(SlotAbandoned(limiter, t), signalled)
<1> DEFINE i == task[t].slotOn
           s == limiter.states[i]
<1>1. /\ limiter \in Limiter /\ OneKey(limiter) /\ signalled \in [Keys -> Nat]
      /\ i \in States /\ s \in Object /\ Fresh(limiter, signalled)
      /\ QueueOK(s, task, i)
  BY BlockObject DEF BackoffInv, LimiterInv, Inv, Limiter, Ticks, ObjectOK
<1>2. s.free \in Nat /\ s.waiters \in Seq(Tasks)
  BY <1>1 DEF Object
<1>3. ASSUME NEW z \in Object, z.backoff = s.backoff, z.age = s.age
      PROVE  Fresh(LeaveBlock([limiter EXCEPT !.states[i] = z], i), signalled)
  <2> DEFINE m == Put(limiter, i, z)
  <2>1. m \in Limiter /\ m.keys = limiter.keys /\ Fresh(m, signalled)
    BY <1>1, <1>3, PutIs, FreshPut, ZenonT(60)
  <2>2. OneKey(m)
    BY <1>1, <2>1 DEF OneKey
  <2>3. [limiter EXCEPT !.states[i] = z] = m
    BY DEF Put
  <2> HIDE DEF m, i
  <2> QED
    BY <1>1, <2>1, <2>2, <2>3, FreshLeave
<1>4. /\ ReleaseSlot(s) \in Object
      /\ ReleaseSlot(s).backoff = s.backoff /\ ReleaseSlot(s).age = s.age
  BY <1>1, ReleaseSlotIs
<1>5. SlotLeft(limiter, t) = LeaveBlock([limiter EXCEPT !.states[i] = ReleaseSlot(s)], i)
  BY DEF SlotLeft
<1>6. ASSUME ~Granted(t), task[t].slot = "waiting"
      PROVE  Fresh(SlotAbandoned(limiter, t), signalled)
  <2> DEFINE w == RemoveFirst(s.waiters, t)
             z == [s EXCEPT !.waiters = w]
  <2>1. SlotAbandoned(limiter, t) = LeaveBlock([limiter EXCEPT !.states[i] = z], i)
    BY <1>1, <1>6 DEF SlotAbandoned, Limiter
  <2>2. Contains(s.waiters, t)
    BY <1>6 DEF Granted
  <2>5. z \in Object /\ z.backoff = s.backoff /\ z.age = s.age
    <3> HIDE DEF s, i
    <3> QED
      BY <1>1, <2>2, WaiterGoneIs
  <2> HIDE DEF z
  <2> QED
    BY <1>3, <2>1, <2>5
<1> QED
  BY <1>3, <1>4, <1>5, <1>6

LEMMA FreshEnterToken ==
  ASSUME BackoffInv, NEW t \in Tasks, NEW k \in Keys, EnterToken(t, k)
  PROVE  Fresh(limiter', signalled')
<1> DEFINE i == Address(limiter, k)
           r == [task[t] EXCEPT !.key = k, !.tokenOn = i]
           l == EnterBlock(limiter, k)
<1>1. l \in Limiter /\ i \in States /\ Fresh(l, signalled)
  BY FreshEnter DEF EnterToken
<1>2. r.tokenOn = i
  BY RecordIs DEF BackoffInv, TaskRecord
<1>3. LookAtBackoff(l, t, r) /\ signalled' = signalled
  BY DEF EnterToken
<1> HIDE DEF l, r, i
<1> QED
  BY <1>1, <1>2, <1>3, FreshAsk

LEMMA FreshSignal ==
  ASSUME BackoffInv, ShortBackoffs, NEW k \in Keys, NEW d \in Durations, Signal(k, d)
  PROVE  Fresh(limiter', signalled')
<1> DEFINE i == Address(limiter, k)
           g == GetKeyState(limiter, k)
           s == g.states[i]
           z == [s EXCEPT !.backoff = Larger(@, d)]
           h == Signalled(signalled, k, d)
<1>1. /\ Inv(g, task) /\ g \in Limiter /\ OneKey(g) /\ i \in States /\ g.keys[k] = i
      /\ i # None /\ signalled \in [Keys -> Nat] /\ Fresh(limiter, signalled)
  BY LookUpKeeps, NoneApart DEF Signal, BackoffInv, LimiterInv, Inv, Ticks
<1>2. Fresh(g, signalled)
  BY FreshLookUp DEF Signal
<1>3. s.age = 0 /\ s \in Object
  BY <1>1, LookUpIs, ZenonT(60) DEF Signal, BackoffInv, LimiterInv, GetKeyState, Limiter, Object
<1>4. d \in Nat /\ d <= MaxIdle + 1 /\ MaxIdle \in Nat
  BY LimiterAssumption DEF ShortBackoffs
<1>5. signalled' = h /\ h = [signalled EXCEPT ![k] = Larger(@, d)]
  BY DEF Signal, Signalled
<1> HIDE DEF g, i, h
<1>6. CASE d = 0
  <2>1. limiter' = limiter
    BY <1>6 DEF Signal, SignalBackoff
  <2>2. h = signalled
    BY <1>1, <1>5, <1>6 DEF Larger
  <2> QED
    BY <1>1, <1>5, <2>1, <2>2
<1>7. CASE d # 0
  <2>1. limiter' = Put(g, i, z)
    BY <1>7 DEF Signal, SignalBackoff, Put, g, i
  <2>2. z \in Object /\ z.backoff = Larger(s.backoff, d) /\ z.age = 0
    BY <1>3, <1>4 DEF Object, Larger, Ticks
  <2>3. Remembers(z, h[k])
    <3>1. Remembers(s, signalled[k])
      BY <1>1, <1>2 DEF Fresh
    <3>2. s.backoff \in Nat /\ signalled[k] \in Nat /\ h[k] = Larger(signalled[k], d)
      BY <1>1, <1>3, <1>5 DEF Object, Ticks
    <3> HIDE DEF s, z
    <3> QED
      BY <1>3, <1>4, <2>2, <3>1, <3>2 DEF Remembers, Larger
  <2> HIDE DEF z
  <2>4. /\ limiter'.keys = g.keys /\ limiter'.states = [g.states EXCEPT ![i] = z]
    BY <1>1, <2>1, <2>2, PutIs
  <2>5. \A m \in Keys : m # k => h[m] = signalled[m] /\ (g.keys[m] # None => g.keys[m] # i)
    BY <1>1, <1>5 DEF OneKey
  <2>6. Fresh(limiter', h)
    BY <1>1, <1>2, <2>3, <2>4, <2>5 DEF Fresh, Limiter
  <2> QED
    BY <1>5, <2>6
<1> QED
  BY <1>6, <1>7

LEMMA FreshTick ==
  ASSUME BackoffInv, Tick
  PROVE  Fresh(limiter', signalled')
<1>1. /\ limiter \in Limiter /\ signalled \in [Keys -> Nat] /\ Fresh(limiter, signalled)
  BY DEF BackoffInv, LimiterInv, Inv, Ticks
<1>2. /\ limiter'.keys = limiter.keys
      /\ \A i \in States : limiter'.states[i] = IF i \in Unused(limiter) THEN limiter.states[i]
                                                ELSE Older(limiter.states[i])
      /\ \A k \in Keys : signalled'[k] = Less(signalled[k], 1)
  BY <1>1 DEF Tick, Limiter
<1>3. ASSUME NEW k \in Keys
      PROVE  IF limiter'.keys[k] = None THEN signalled'[k] = 0
             ELSE Remembers(limiter'.states[limiter'.keys[k]], signalled'[k])
  <2>1. CASE limiter.keys[k] = None
    BY <1>1, <1>2, <2>1 DEF Fresh, Less
  <2>2. CASE limiter.keys[k] # None
    <3> DEFINE s == limiter.states[limiter.keys[k]]
               a == IF s.age > MaxIdle THEN s.age ELSE s.age + 1
    <3>1. /\ limiter.keys[k] \in States /\ limiter.keys[k] \notin Unused(limiter)
          /\ s \in Object /\ Remembers(s, signalled[k])
      BY <1>1, <2>2 DEF Limiter, Unused, Fresh
    <3>2. limiter'.states[limiter'.keys[k]] = Older(s)
      BY <1>2, <3>1
    <3> HIDE DEF s
    <3>3. Older(s).backoff = Less(s.backoff, 1) /\ Older(s).age = a
      BY <3>1 DEF Older, Object
    <3>4. s.backoff \in Nat /\ s.age \in 0..(MaxIdle + 1) /\ MaxIdle \in Nat
      BY <3>1, LimiterAssumption DEF Object, Ticks
    <3>5. Remembers(Older(s), Less(signalled[k], 1))
      BY <1>1, <3>1, <3>3, <3>4 DEF Remembers, Less
    <3> QED
      BY <1>2, <2>2, <3>2, <3>5
  <2> QED
    BY <2>1, <2>2
<1> QED
  BY <1>3 DEF Fresh

LEMMA FreshNext ==
  ASSUME BackoffInv, ShortBackoffs, [LimiterNext]_limiterVars
  PROVE  Fresh(limiter', signalled')
<1>1. /\ limiter \in Limiter /\ OneKey(limiter) /\ Fresh(limiter, signalled)
      /\ signalled \in [Keys -> Nat] /\ Inv(limiter, task)
  BY DEF BackoffInv, LimiterInv, Inv, Ticks
<1>2. ASSUME NEW t \in Tasks, TaskStep(t)
      PROVE  Fresh(limiter', signalled')
  <2>1. CASE \E k \in Keys : EnterSlot(t, k)
    BY <2>1, FreshEnterSlot
  <2>2. CASE GetSlot(t)
    BY <1>1, <2>2 DEF GetSlot
  <2>3. CASE ExitSlot(t)
    BY <2>3, FreshSlotLeft DEF ExitSlot
  <2>4. CASE CancelSlot(t)
    <3>1. Granted(t) => SlotAbandoned(limiter, t) = SlotLeft(limiter, t)
      BY DEF SlotAbandoned
    <3> QED
      BY <2>4, <3>1, FreshSlotLeft DEF CancelSlot
  <2>5. CASE \E k \in Keys : EnterToken(t, k)
    BY <2>5, FreshEnterToken
  <2>6. CASE WakeUp(t)
    BY <1>1, <2>6, BlockObject, FreshAsk DEF WakeUp
  <2>7. CASE GetToken(t)
    BY <1>1, <2>7, BlockObject, FreshAsk DEF GetToken
  <2>8. CASE ExitToken(t) \/ CancelToken(t)
    <3>1. task[t].tokenOn \in States
      BY <1>1, <2>8, BlockObject DEF ExitToken, CancelToken
    <3>2. limiter' = LeaveBlock(limiter, task[t].tokenOn) /\ signalled' = signalled
      BY <2>8 DEF ExitToken, CancelToken, LeaveToken, TokenLeft
    <3> QED
      BY <1>1, <3>1, <3>2, FreshLeave
  <2> QED
    BY <1>2, <2>1, <2>2, <2>3, <2>4, <2>5, <2>6, <2>7, <2>8 DEF TaskStep
<1>3. CASE \E k \in Keys, d \in Durations : Signal(k, d)
  BY <1>3, FreshSignal
<1>4. CASE Cleanup
  BY <1>1, <1>4, FreshCleanUp DEF Cleanup
<1>5. CASE Tick
  BY <1>5, FreshTick
<1>6. CASE UNCHANGED limiterVars
  BY <1>1, <1>6 DEF limiterVars
<1> QED
  BY <1>2, <1>3, <1>4, <1>5, <1>6 DEF LimiterNext

-----------------------------------------------------------------------------
(* Who gets past the backoff                                               *)

NobodyPasses == \A t \in Tasks : ~Admitted(t) /\ Admitted(t)' => signalled[task'[t].key] = 0

(* Only a look at a backoff that is over lets a task pass.                 *)
LEMMA PassesLook ==
  ASSUME NEW l \in Limiter, Fresh(l, signalled), signalled \in [Keys -> Nat],
         task \in [Tasks -> TaskRecord], NEW t \in Tasks, NEW r \in TaskRecord,
         r.tokenOn \in States, r.key \in Keys, l.keys[r.key] = r.tokenOn,
         LookAtBackoff(l, t, r)
  PROVE  NobodyPasses
<1> SUFFICES ASSUME NEW u \in Tasks, ~Admitted(u), Admitted(u)'
             PROVE  signalled[task'[u].key] = 0
  BY DEF NobodyPasses
<1>1. \E x : task' = [task EXCEPT ![t] = x] /\ x.key = r.key
               /\ (l.states[r.tokenOn].backoff > 0 => x.token = "sleeping")
  <2> DEFINE y(a, b) == [r EXCEPT !.token = a, !.sleep = b]
             s == l.states[r.tokenOn]
  <2>1. \A a, b : y(a, b).key = r.key /\ y(a, b).token = a
    BY DEF TaskRecord
  <2>2. \A a : [r EXCEPT !.token = a] = y(a, r.sleep)
    BY DEF TaskRecord
  <2>3. \/ task' = [task EXCEPT ![t] = y("sleeping", s.backoff)]
        \/ /\ s.backoff = 0
           /\ \/ task' = [task EXCEPT ![t] = y("held", r.sleep)]
              \/ task' = [task EXCEPT ![t] = y("asking", r.sleep)]
    BY <2>2 DEF LookAtBackoff, AskForToken
  <2>4. ~(0 > 0)
    OBVIOUS
  <2> HIDE DEF y
  <2> QED
    BY <2>1, <2>3, <2>4
<1>2. u = t
  BY <1>1 DEF Admitted
<1>3. task'[u].key = r.key /\ ~(l.states[r.tokenOn].backoff > 0)
  BY <1>1, <1>2 DEF Admitted
<1>4. l.states[r.tokenOn].backoff \in Nat
  BY DEF Limiter, Object, Ticks
<1>5. l.states[r.tokenOn].backoff >= signalled[r.key] /\ signalled[r.key] \in Nat
  BY NoneApart DEF Fresh, Remembers
<1> QED
  BY <1>3, <1>4, <1>5

LEMMA PassesNext ==
  ASSUME BackoffInv, [LimiterNext]_limiterVars
  PROVE  NobodyPasses
<1>1. /\ limiter \in Limiter /\ Fresh(limiter, signalled) /\ Inv(limiter, task)
      /\ signalled \in [Keys -> Nat] /\ task \in [Tasks -> TaskRecord]
  BY DEF BackoffInv, LimiterInv, Inv, Ticks
<1>2. ASSUME NEW t \in Tasks, NEW x, task' = [task EXCEPT ![t] = x],
             Admitted(t) \/ x.token \notin {"asking", "held"}
      PROVE  NobodyPasses
  BY <1>1, <1>2 DEF NobodyPasses, Admitted
<1>3. ASSUME NEW t \in Tasks, TaskStep(t)
      PROVE  NobodyPasses
  <2>1. task[t] \in TaskRecord /\ TaskOK(task[t]) /\ Outside.token = "none"
    BY <1>1 DEF Inv, Outside
  <2>2. CASE \E k \in Keys : EnterSlot(t, k)
    <3>1. PICK k \in Keys : EnterSlot(t, k)
      BY <2>2
    <3> DEFINE i == Address(limiter, k)
               y(a) == [task[t] EXCEPT !.key = k, !.slotOn = i, !.slot = a]
    <3>2. \A a : y(a).token = "none"
      BY <2>1, <3>1 DEF EnterSlot, TaskRecord
    <3>3. \E a : task' = [task EXCEPT ![t] = y(a)]
      BY <1>1, <3>1 DEF EnterSlot
    <3> HIDE DEF y
    <3> QED
      BY <1>2, <3>2, <3>3
  <2>3. CASE GetSlot(t)
    <3> DEFINE y == [task[t] EXCEPT !.slot = "held"]
    <3>1. task' = [task EXCEPT ![t] = y] /\ y.token = task[t].token
      BY <2>1, <2>3 DEF GetSlot, TaskRecord
    <3> HIDE DEF y
    <3> QED
      BY <1>2, <3>1 DEF Admitted
  <2>4. CASE ExitSlot(t) \/ CancelSlot(t)
    <3>1. task' = [task EXCEPT ![t] = Outside]
      BY <2>4 DEF ExitSlot, CancelSlot
    <3> QED
      BY <1>2, <2>1, <3>1
  <2>5. CASE \E k \in Keys : EnterToken(t, k)
    <3>1. PICK k \in Keys : EnterToken(t, k)
      BY <2>5
    <3> DEFINE i == Address(limiter, k)
               r == [task[t] EXCEPT !.key = k, !.tokenOn = i]
               l == EnterBlock(limiter, k)
    <3>2. l \in Limiter /\ i \in States /\ l.keys[k] = i /\ Fresh(l, signalled)
      BY <3>1, FreshEnter DEF EnterToken
    <3>3. LookAtBackoff(l, t, r)
      BY <3>1 DEF EnterToken
    <3> HIDE DEF i, l
    <3>4. r \in TaskRecord /\ r.key = k /\ r.tokenOn = i
      BY <2>1, <3>2 DEF TaskRecord
    <3> HIDE DEF r
    <3> QED
      BY <1>1, <3>2, <3>3, <3>4, PassesLook
  <2>6. CASE WakeUp(t)
    <3>1. /\ task[t].tokenOn \in States /\ task[t].key \in Keys
          /\ limiter.keys[task[t].key] = task[t].tokenOn
      BY <1>1, <2>6, BlockObject DEF WakeUp
    <3> QED
      BY <1>1, <2>1, <2>6, <3>1, PassesLook DEF WakeUp
  <2>7. CASE GetToken(t)
    <3>1. Admitted(t) /\ \E x : task' = [task EXCEPT ![t] = x]
      BY <2>7 DEF GetToken, Admitted, AskForToken
    <3> QED
      BY <1>2, <3>1
  <2>8. CASE ExitToken(t) \/ CancelToken(t)
    <3>1. task' = [task EXCEPT ![t] = OutOfToken(@)]
      BY <2>8 DEF ExitToken, CancelToken, LeaveToken
    <3>2. OutOfToken(task[t]).token = "none"
      BY <2>1 DEF OutOfToken, TaskRecord
    <3> QED
      BY <1>2, <3>1, <3>2
  <2> QED
    BY <1>3, <2>2, <2>3, <2>4, <2>5, <2>6, <2>7, <2>8 DEF TaskStep
<1>4. CASE (\E k \in Keys, d \in Durations : Signal(k, d)) \/ Cleanup \/ UNCHANGED limiterVars
  BY <1>4 DEF Signal, Cleanup, limiterVars, NobodyPasses, Admitted
<1>5. CASE Tick
  <2>1. \A t \in Tasks : task'[t].token = task[t].token
    BY <1>1, <1>5 DEF Tick, TaskRecord
  <2> QED
    BY <2>1 DEF NobodyPasses, Admitted
<1> QED
  BY <1>3, <1>4, <1>5 DEF LimiterNext

-----------------------------------------------------------------------------
(* "Other tasks calling acquire_token() or acquire() for the same key will *)
(* sleep until the backoff expires", for every number of overlapping       *)
(* signals and whatever is evicted in between, if no backoff is longer     *)
(* than max_idle_seconds.                                                  *)
THEOREM Backoff == ShortBackoffs => (LimiterSpec => BackoffHonoured)
<1> SUFFICES ASSUME ShortBackoffs PROVE LimiterSpec => BackoffHonoured
  OBVIOUS
<1>1. LimiterInit => BackoffInv
  <2> SUFFICES ASSUME LimiterInit PROVE BackoffInv
    OBVIOUS
  <2>1. limiter.keys = [k \in Keys |-> None] /\ signalled = [k \in Keys |-> 0]
    BY DEF LimiterInit
  <2> QED
    BY <2>1, LimiterInvInit DEF BackoffInv, Fresh
<1>2. BackoffInv /\ [LimiterNext]_limiterVars => BackoffInv'
  BY LimiterInvNext, FreshNext DEF BackoffInv
<1>3. BackoffInv /\ [LimiterNext]_limiterVars => NobodyPasses
  BY PassesNext
<1>4. LimiterSpec => [][NobodyPasses]_limiterVars
  BY <1>1, <1>2, <1>3, PTL DEF LimiterSpec
<1> QED
  BY <1>4 DEF BackoffHonoured, NobodyPasses

-----------------------------------------------------------------------------
(***************************************************************************)
(* request_with_retry(), a user of the limiter.                            *)
(***************************************************************************)

(* The inductive invariant                                                 *)

RequestRecord == [phase : Phases, host : Keys \cup {None}, attempt : 0..MaxAttempts,
                  wait : Nat, limited : BOOLEAN, unreleased : Nat]

(* Where the task of a request r stands, as its record x in the limiter.   *)
Standing(r, x) ==
  /\ r.phase \in {"new", "open", "done", "failed"} => x = Outside
  /\ r.phase = "slot" => x.slot # "none" /\ x.token = "none"
  /\ r.phase = "attempt" => x.slot = "held" /\ x.token # "none"
  /\ r.phase = "pause" => x.slot = "held" /\ x.token = "none"
  /\ r.phase \in {"slot", "attempt", "pause"} => x.key = r.host
  /\ MaxRate = 0 => x.token # "asking"

(* An attempt is under way only below max_attempts, and has not been       *)
(* limited yet; a response is kept only for the caller.                    *)
RequestOK(r) ==
  /\ r.phase \in {"new", "slot"} => r.attempt = 0
  /\ r.phase = "pause" => r.attempt < MaxAttempts
  /\ r.phase = "attempt" => ~r.limited
  /\ r.unreleased = IF r.phase = "open" THEN 1 ELSE 0

(* A request that pauses after a rate limiting answer is covered by the    *)
(* backoff of the object that its slot is on.                              *)
Covered(r, x, l) ==
  r.phase = "pause" /\ r.limited => l.states[x.slotOn].backoff >= r.wait

RequestInv ==
  /\ LimiterInv
  /\ request \in [Tasks -> RequestRecord]
  /\ \A t \in Tasks : /\ Standing(request[t], task[t])
                      /\ RequestOK(request[t])
                      /\ Covered(request[t], task[t], limiter)

-----------------------------------------------------------------------------
(* What becomes of backoffs.  A step may put an end to no backoff of an    *)
(* object that a slot is on, and keeps what has just been signalled.       *)

Kept(l) == \A u \in Tasks : task[u].slotOn \in States =>
  l.states[task[u].slotOn].backoff >= limiter.states[task[u].slotOn].backoff

Marked(l, k) == /\ l.keys[k] # None
                /\ l.states[l.keys[k]].backoff > 0 /\ l.states[l.keys[k]].age = 0

LEMMA KeptSelf ==
  ASSUME limiter \in Limiter
  PROVE  Kept(limiter)
<1>1. \A i \in States : limiter.states[i].backoff \in Nat
  BY DEF Limiter, Object, Ticks
<1> QED
  BY <1>1 DEF Kept

LEMMA BackoffPut ==
  ASSUME limiter \in Limiter, NEW l \in Limiter, NEW i \in States, NEW z \in Object
  PROVE  /\ Kept(l) /\ z.backoff >= l.states[i].backoff => Kept(Put(l, i, z))
         /\ z.backoff = l.states[i].backoff /\ z.age = l.states[i].age =>
              \A k \in Keys : Marked(l, k) => Marked(Put(l, i, z), k)
<1>1. Put(l, i, z).keys = l.keys /\ Put(l, i, z).states = [l.states EXCEPT ![i] = z]
  BY PutIs
<1>2. \A j \in States : /\ limiter.states[j].backoff \in Nat /\ l.states[j].backoff \in Nat
                        /\ z.backoff \in Nat
                        /\ Put(l, i, z).states[j] = IF j = i THEN z ELSE l.states[j]
  BY <1>1 DEF Limiter, Object, Ticks
<1>3. ASSUME Kept(l), z.backoff >= l.states[i].backoff PROVE Kept(Put(l, i, z))
  <2> SUFFICES ASSUME NEW u \in Tasks, task[u].slotOn \in States
               PROVE  Put(l, i, z).states[task[u].slotOn].backoff
                        >= limiter.states[task[u].slotOn].backoff
    BY DEF Kept
  <2>1. l.states[task[u].slotOn].backoff >= limiter.states[task[u].slotOn].backoff
    BY <1>3 DEF Kept
  <2> QED
    BY <1>2, <1>3, <2>1
<1>4. ASSUME z.backoff = l.states[i].backoff, z.age = l.states[i].age,
             NEW k \in Keys, Marked(l, k)
      PROVE  Marked(Put(l, i, z), k)
  <2>1. l.keys[k] \in States
    BY <1>4 DEF Marked, Limiter
  <2> QED
    BY <1>1, <1>2, <1>4, <2>1 DEF Marked
<1> QED
  BY <1>3, <1>4

(* cleanup() evicts no key with a backoff that has just been signalled,    *)
(* and leaves the objects alone that blocks are on.                        *)
LEMMA BackoffCleanUp ==
  ASSUME NEW l \in Limiter
  PROVE  /\ Kept(l) => Kept(CleanUp(l))
         /\ \A k \in Keys : Marked(l, k) => Marked(CleanUp(l), k)
<1> DEFINE freed == {l.keys[k] : k \in Evicted(l)}
           used == {i \in States : \E t \in Tasks : i \in {task[t].slotOn, task[t].tokenOn}}
           names == [k \in Keys |-> IF k \in Evicted(l) THEN None ELSE l.keys[k]]
           objects == [i \in States |-> IF i \in freed \ used THEN NewState ELSE l.states[i]]
           m == CleanUp(l)
<1>1. m.keys = names /\ m.states = objects
  BY DEF CleanUp, Evicted, Limiter
<1>2. ASSUME Kept(l) PROVE Kept(m)
  <2>1. \A u \in Tasks : task[u].slotOn \in States =>
          m.states[task[u].slotOn] = l.states[task[u].slotOn]
    BY <1>1
  <2> HIDE DEF m
  <2> QED
    BY <1>2, <2>1 DEF Kept
<1>3. ASSUME NEW k \in Keys, Marked(l, k) PROVE Marked(m, k)
  <2>1. l.keys[k] \in States /\ l.states[l.keys[k]].age = 0
    BY <1>3 DEF Marked, Limiter
  <2>2. ~Idle(l.states[l.keys[k]])
    BY <2>1, LimiterAssumption DEF Idle
  <2>3. k \notin Evicted(l) /\ l.keys[k] \notin freed
    BY <2>2 DEF Evicted
  <2>4. m.keys[k] = l.keys[k] /\ m.states[l.keys[k]] = l.states[l.keys[k]]
    BY <1>1, <2>1, <2>3
  <2> HIDE DEF m
  <2> QED
    BY <1>3, <2>4 DEF Marked
<1> QED
  BY <1>2, <1>3

(* The finally of a block.                                                 *)
LEMMA BackoffLeave ==
  ASSUME limiter \in Limiter, NEW l \in Limiter, NEW i \in States
  PROVE  /\ Kept(l) => Kept(LeaveBlock(l, i))
         /\ \A k \in Keys : Marked(l, k) => Marked(LeaveBlock(l, i), k)
<1> DEFINE z == [l.states[i] EXCEPT !.active = Less(@, 1)]
           left == [l EXCEPT !.states[i].active = Less(@, 1)]
           n == IF l.ops + 1 >= CleanupEvery THEN 0 ELSE l.ops + 1
           m == [left EXCEPT !.ops = n]
<1>1. z \in Object /\ z.backoff = l.states[i].backoff /\ z.age = l.states[i].age
  <2>1. PICK c \in Object : c = l.states[i]
    BY DEF Limiter
  <2> QED
    BY <2>1, LessActiveIs
<1>2. left = Put(l, i, z)
  BY DEF Put, Limiter
<1>3. n \in 0..(CleanupEvery - 1)
  BY LimiterAssumption DEF Limiter
<1> HIDE DEF z, left, n
<1>4. left \in Limiter /\ left.ops = l.ops
  BY <1>1, <1>2, PutIs
<1>5. m \in Limiter /\ m.keys = left.keys /\ m.states = left.states
  BY <1>3, <1>4 DEF Limiter
<1>6. LeaveBlock(l, i) = IF l.ops + 1 >= CleanupEvery THEN CleanUp(m) ELSE m
  BY <1>4 DEF LeaveBlock, left, n
<1> HIDE DEF m
<1>7. /\ Kept(l) => Kept(left)
      /\ \A k \in Keys : Marked(l, k) => Marked(left, k)
  <2>1. z.backoff >= l.states[i].backoff
    BY <1>1 DEF Object, Ticks
  <2> QED
    BY <1>1, <1>2, <2>1, BackoffPut
<1>8. /\ Kept(l) => Kept(m)
      /\ \A k \in Keys : Marked(l, k) => Marked(m, k)
  BY <1>5, <1>7 DEF Kept, Marked
<1> QED
  BY <1>5, <1>6, <1>8, BackoffCleanUp

-----------------------------------------------------------------------------
(* The ends of an attempt, from a limiter l in the middle of a step        *)

LEMMA TokenLeftBackoff ==
  ASSUME limiter \in Limiter, NEW l, Inv(l, task), NEW t \in Tasks, task[t].token # "none"
  PROVE  /\ Kept(l) => Kept(TokenLeft(l, t))
         /\ \A k \in Keys : Marked(l, k) => Marked(TokenLeft(l, t), k)
<1>1. task[t].tokenOn \in States /\ l \in Limiter
  BY BlockObject DEF Inv
<1> QED
  BY <1>1, BackoffLeave DEF TokenLeft

LEMMA SlotLeftBackoff ==
  ASSUME limiter \in Limiter, NEW l \in Limiter, NEW t \in Tasks, task[t].slotOn \in States
  PROVE  /\ Kept(l) => Kept(SlotLeft(l, t))
         /\ \A k \in Keys : Marked(l, k) => Marked(SlotLeft(l, t), k)
<1> DEFINE i == task[t].slotOn
           z == ReleaseSlot(l.states[i])
           m == Put(l, i, z)
<1>1. z \in Object /\ z.backoff = l.states[i].backoff /\ z.age = l.states[i].age
  <2>1. l.states[i] \in Object
    BY DEF Limiter
  <2> HIDE DEF i
  <2> QED
    BY <2>1, ReleaseSlotIs
<1>2. z.backoff >= l.states[i].backoff
  BY <1>1 DEF Object, Ticks
<1>3. SlotLeft(l, t) = LeaveBlock(m, i)
  BY DEF SlotLeft, Put
<1> HIDE DEF i, z
<1>4. i \in States
  BY DEF i
<1>5. /\ m \in Limiter
      /\ Kept(l) => Kept(m)
      /\ \A k \in Keys : Marked(l, k) => Marked(m, k)
  BY <1>1, <1>2, <1>4, PutIs, BackoffPut
<1> HIDE DEF m
<1>6. /\ Kept(m) => Kept(LeaveBlock(m, i))
      /\ \A k \in Keys : Marked(m, k) => Marked(LeaveBlock(m, i), k)
  BY <1>4, <1>5, BackoffLeave
<1> QED
  BY <1>3, <1>5, <1>6

LEMMA OutOfTokenIs ==
  ASSUME NEW r \in TaskRecord, r.slot = "held"
  PROVE  /\ OutOfToken(r) \in TaskRecord
         /\ OutOfToken(r).token = "none" /\ OutOfToken(r).slot = "held"
         /\ OutOfToken(r).slotOn = r.slotOn /\ OutOfToken(r).key = r.key
<1> DEFINE x == OutOfToken(r)
<1>1. x = [r EXCEPT !.token = "none", !.tokenOn = None, !.sleep = 0]
  BY DEF OutOfToken
<1> HIDE DEF x
<1>2. /\ x \in TaskRecord /\ x.token = "none" /\ x.slot = "held"
      /\ x.slotOn = r.slotOn /\ x.key = r.key
  BY <1>1 DEF TaskRecord, Ticks
<1> QED
  BY <1>2 DEF x

(* The token and then the slot are given up. *)
LEMMA BothLeft ==
  ASSUME limiter \in Limiter, NEW l, Inv(l, task), NEW t \in Tasks,
         task[t].slot = "held", task[t].token # "none"
  PROVE  /\ Inv(SlotLeft(TokenLeft(l, t), t), Exited(task, t))
         /\ Kept(l) => Kept(SlotLeft(TokenLeft(l, t), t))
         /\ \A k \in Keys : Marked(l, k) => Marked(SlotLeft(TokenLeft(l, t), t), k)
<1> DEFINE m == TokenLeft(l, t)
           x == OutOfToken(task[t])
           p == [task EXCEPT ![t] = x]
<1>1. Inv(m, p)
  BY TokenLeftKeeps
<1>2. task \in [Tasks -> TaskRecord] /\ task[t].slotOn \in States
  BY BlockObject DEF Inv
<1>3. x \in TaskRecord /\ x.token = "none" /\ x.slot = "held" /\ x.slotOn = task[t].slotOn
  BY <1>2, OutOfTokenIs
<1>4. /\ Kept(l) => Kept(m)
      /\ \A k \in Keys : Marked(l, k) => Marked(m, k)
  BY TokenLeftBackoff
<1> HIDE DEF m, x
<1>5. p[t] = x /\ Exited(p, t) = Exited(task, t)
  BY <1>2 DEF Exited
<1> HIDE DEF p
<1>6. PICK i \in States : task[t].slotOn = i
  BY <1>2
<1>7. ~Contains(m.states[i].waiters, t)
  BY <1>1, <1>3, <1>5 DEF Inv, ObjectOK, QueueOK, Contains
<1>8. Inv(SlotLeft(m, t), Exited(p, t))
  BY <1>1, <1>3, <1>5, <1>6, <1>7, SlotLeftKeeps
<1>9. /\ Kept(m) => Kept(SlotLeft(m, t))
      /\ \A k \in Keys : Marked(m, k) => Marked(SlotLeft(m, t), k)
  BY <1>1, <1>2, SlotLeftBackoff DEF Inv
<1> QED
  BY <1>4, <1>5, <1>8, <1>9 DEF m

(* signal_backoff() for a key that blocks are on.                          *)
LEMMA SignalIs ==
  ASSUME limiter \in Limiter, NEW l, NEW q, Inv(l, q), NEW k \in Keys, l.keys[k] # None,
         NEW d \in Nat
  PROVE  LET m == SignalBackoff(l, k, d) IN
         /\ Inv(m, q) /\ m.keys = l.keys
         /\ m.states[l.keys[k]].backoff >= d
         /\ Kept(l) => Kept(m)
         /\ d > 0 => Marked(m, k)
         /\ Marked(l, k) => Marked(m, k)
<1> DEFINE i == l.keys[k]
           s == l.states[i]
           y == [s EXCEPT !.age = 0]
           z == [y EXCEPT !.backoff = Larger(@, d)]
           Main == LET m == SignalBackoff(l, k, d) IN
                   /\ Inv(m, q) /\ m.keys = l.keys
                   /\ m.states[i].backoff >= d
                   /\ Kept(l) => Kept(m)
                   /\ d > 0 => Marked(m, k)
<1>1. l \in Limiter /\ i \in States /\ s \in Object
  BY DEF Inv, Limiter
<1>2. ASSUME d = 0 PROVE Main
  <2>1. SignalBackoff(l, k, d) = l /\ s.backoff >= 0
    BY <1>1, <1>2 DEF SignalBackoff, Object, Ticks
  <2> QED
    BY <1>2, <2>1
<1>3. ASSUME d # 0 PROVE Main
  <2> DEFINE g == GetKeyState(l, k)
  <2>1. Address(l, k) = i
    BY DEF Address
  <2>2. y \in Object /\ y.backoff = s.backoff /\ y.age = 0 /\ y.free = s.free
        /\ y.waiters = s.waiters /\ y.active = s.active
    <3>1. 0 \in 0..(MaxIdle + 1)
      BY LimiterAssumption
    <3> HIDE DEF s
    <3> QED
      BY <1>1, <3>1 DEF Object
  <2>3. /\ z \in Object /\ z.backoff = Larger(s.backoff, d) /\ z.age = 0 /\ z.free = s.free
        /\ z.waiters = s.waiters /\ z.active = s.active
    <3> DEFINE b == Larger(s.backoff, d)
    <3>1. b \in Nat /\ z = [y EXCEPT !.backoff = b]
      BY <1>1, <2>2 DEF Larger, Object, Ticks
    <3> HIDE DEF y, z, b
    <3>2. /\ z \in Object /\ z.backoff = b /\ z.age = 0 /\ z.free = s.free
          /\ z.waiters = s.waiters /\ z.active = s.active
      BY <2>2, <3>1 DEF Object, Ticks
    <3> QED
      BY <3>2 DEF b
  <2>4. g = Put(l, i, y)
    <3> DEFINE named == [l EXCEPT !.keys = [@ EXCEPT ![k] = i]]
    <3>1. g = Put(named, i, y)
      BY <2>1 DEF GetKeyState, Put
    <3>2. [l.keys EXCEPT ![k] = i] = l.keys /\ l.keys \in [Keys -> States \cup {None}]
      BY <1>1 DEF Limiter
    <3>3. /\ named \in Limiter /\ named.keys = l.keys
          /\ named.states = l.states /\ named.ops = l.ops
      BY <1>1, <3>2, FieldChange
    <3> HIDE DEF named
    <3>4. named = l
      BY <1>1, <3>3, SameLimiter
    <3> QED
      BY <3>1, <3>4
  <2>5. SignalBackoff(l, k, d) = Put(g, i, [g.states[i] EXCEPT !.backoff = Larger(@, d)])
    BY <1>3, <2>1 DEF SignalBackoff, Put
  <2> HIDE DEF g, i, s, y
  <2>6. g.states[i] = y /\ Put(g, i, z) = Put(l, i, z)
    <3> HIDE DEF z
    <3> QED
      BY <1>1, <2>2, <2>3, <2>4, PutTwice
  <2>7. SignalBackoff(l, k, d) = Put(l, i, z)
    BY <2>5, <2>6
  <2> HIDE DEF z
  <2>8. /\ Put(l, i, z) \in Limiter /\ Put(l, i, z).keys = l.keys
        /\ Put(l, i, z).states[i] = z
    <3>1. Put(l, i, z) \in Limiter /\ Put(l, i, z).keys = l.keys
      BY <1>1, <2>3, PutIs
    <3>2. Put(l, i, z).states[i] = z
      BY <1>1, <2>3, PutTwice
    <3> QED
      BY <3>1, <3>2
  <2>9. Inv(Put(l, i, z), q)
    <3>1. z.free = l.states[i].free /\ z.waiters = l.states[i].waiters
          /\ z.active = l.states[i].active
      BY <2>3 DEF s
    <3> QED
      BY <1>1, <2>3, <3>1, SameCounts
  <2>10. s.backoff \in Nat /\ z.backoff >= s.backoff /\ z.backoff >= d
    BY <1>1, <2>3 DEF Object, Ticks, Larger
  <2>11. Kept(l) => Kept(Put(l, i, z))
    BY <1>1, <2>3, <2>10, BackoffPut DEF s
  <2>12. d > 0 => Marked(Put(l, i, z), k)
    <3>1. Put(l, i, z).keys[k] = i /\ i # None
      BY <1>1, <2>8, NoneApart DEF i
    <3>2. z.backoff \in Nat /\ (d > 0 => z.backoff > 0)
      BY <2>3, <2>10 DEF Object, Ticks
    <3> QED
      BY <2>3, <2>8, <3>1, <3>2 DEF Marked
  <2> QED
    BY <2>7, <2>8, <2>9, <2>10, <2>11, <2>12 DEF i
<1>4. Marked(l, k) => Marked(SignalBackoff(l, k, d), k)
  <2>1. d = 0 => SignalBackoff(l, k, d) = l
    BY DEF SignalBackoff
  <2>2. d # 0 => d > 0
    OBVIOUS
  <2> QED
    BY <1>3, <2>1, <2>2
<1> QED
  BY <1>2, <1>3, <1>4

-----------------------------------------------------------------------------
(* Looking at a backoff, and taking a token                                *)

LEMMA KeptEnter ==
  ASSUME LimiterInv, NEW k \in Keys, CanLookUp(limiter, k)
  PROVE  EnterBlock(limiter, k) \in Limiter /\ Kept(EnterBlock(limiter, k))
<1> DEFINE g == GetKeyState(limiter, k)
           i == Address(limiter, k)
           s == IF limiter.keys[k] # None THEN limiter.states[i] ELSE NewState
           y == [s EXCEPT !.age = 0]
           z == [g.states[i] EXCEPT !.active = @ + 1]
<1>1. /\ i \in States /\ limiter \in Limiter /\ g \in Limiter
      /\ limiter.keys[k] = None => i \in Unused(limiter)
      /\ y \in Object /\ g.states = [limiter.states EXCEPT ![i] = y]
  BY LookUpIs DEF LimiterInv, Inv
<1>2. EnterBlock(limiter, k) = Put(g, i, z)
  BY EnterBlockIs DEF LimiterInv
<1>3. Kept(g)
  <2> SUFFICES ASSUME NEW u \in Tasks, task[u].slotOn \in States
               PROVE  g.states[task[u].slotOn].backoff
                        >= limiter.states[task[u].slotOn].backoff
    BY DEF Kept
  <2>1. PICK j \in States : j = task[u].slotOn
    OBVIOUS
  <2>2. limiter.states[j] \in Object /\ limiter.states[j].backoff \in Nat
    BY <1>1 DEF Limiter, Object, Ticks
  <2>3. CASE j = i
    <3>1. y.backoff = limiter.states[j].backoff
      <4>1. s = limiter.states[j]
        BY <1>1, <2>1, <2>3 DEF Unused
      <4> HIDE DEF s
      <4> QED
        BY <2>2, <4>1 DEF Object
    <3> HIDE DEF y
    <3>2. g.states[j] = y
      BY <1>1, <2>3 DEF Limiter
    <3> QED
      BY <2>1, <2>2, <3>1, <3>2
  <2>4. CASE j # i
    <3>1. g.states[j] = limiter.states[j]
      BY <1>1, <2>4 DEF Limiter
    <3> QED
      BY <2>1, <2>2, <3>1
  <2> QED
    BY <2>3, <2>4
<1>4. z \in Object /\ z.backoff >= g.states[i].backoff
  <2> DEFINE c == g.states[i]
  <2>1. c \in Object
    BY <1>1 DEF Limiter
  <2> HIDE DEF c
  <2>2. LET n == [c EXCEPT !.active = @ + 1] IN n \in Object /\ n.backoff = c.backoff
    BY <2>1, MoreActiveIs
  <2>3. c.backoff \in Nat
    BY <2>1 DEF Object, Ticks
  <2> QED
    BY <2>2, <2>3 DEF c
<1> HIDE DEF g, i, z
<1>5. Put(g, i, z) \in Limiter /\ Kept(Put(g, i, z))
  BY <1>1, <1>3, <1>4, PutIs, BackoffPut
<1> QED
  BY <1>2, <1>5

LEMMA KeptAsk ==
  ASSUME limiter \in Limiter, NEW l \in Limiter, Kept(l), NEW t \in Tasks,
         NEW r \in TaskRecord, r.tokenOn \in States, AskForToken(l, t, r)
  PROVE  /\ Kept(limiter')
         /\ limiter'.states[r.tokenOn].backoff = l.states[r.tokenOn].backoff
         /\ \E x \in TaskRecord :
              /\ task' = [task EXCEPT ![t] = x]
              /\ x.key = r.key /\ x.slot = r.slot /\ x.slotOn = r.slotOn
              /\ x.tokenOn = r.tokenOn
              /\ x.token \in {"asking", "held"}
              /\ MaxRate = 0 => x.token # "asking"
<1> DEFINE s == l.states[r.tokenOn]
           y(a) == [r EXCEPT !.token = a]
<1>1. s \in Object
  BY DEF Limiter
<1>2. \A a \in {"asking", "held"} :
        /\ y(a) \in TaskRecord /\ y(a).key = r.key /\ y(a).slot = r.slot
        /\ y(a).slotOn = r.slotOn /\ y(a).tokenOn = r.tokenOn /\ y(a).token = a
  BY DEF TaskRecord
<1>3. CASE TokenFree(s)
  <2> DEFINE z == TakeToken(s)
  <2>1. limiter' = Put(l, r.tokenOn, z) /\ task' = [task EXCEPT ![t] = y("held")]
    BY <1>3 DEF AskForToken, Put
  <2> HIDE DEF y
  <2>2. z \in Object /\ z.backoff = s.backoff /\ s.backoff \in Nat
    <3> HIDE DEF s
    <3> QED
      BY <1>1, <1>3, TakeTokenIs DEF Object, Ticks
  <2> HIDE DEF z
  <2>3. Kept(limiter')
    BY <2>1, <2>2, BackoffPut
  <2>4. limiter'.states[r.tokenOn] = z
    BY <2>1, <2>2, PutTwice
  <2> QED
    BY <1>2, <2>1, <2>2, <2>3, <2>4
<1>4. CASE ~TokenFree(s)
  <2>1. limiter' = l /\ task' = [task EXCEPT ![t] = y("asking")] /\ MaxRate # 0
    BY <1>4 DEF AskForToken, TokenFree
  <2> HIDE DEF y
  <2> QED
    BY <1>2, <2>1
<1> QED
  BY <1>3, <1>4

LEMMA KeptLook ==
  ASSUME limiter \in Limiter, NEW l \in Limiter, Kept(l), NEW t \in Tasks,
         NEW r \in TaskRecord, r.tokenOn \in States, LookAtBackoff(l, t, r)
  PROVE  /\ Kept(limiter')
         /\ \E x \in TaskRecord :
              /\ task' = [task EXCEPT ![t] = x]
              /\ x.key = r.key /\ x.slot = r.slot /\ x.slotOn = r.slotOn
              /\ x.tokenOn = r.tokenOn
              /\ x.token \in {"sleeping", "asking", "held"}
              /\ MaxRate = 0 => x.token # "asking"
              /\ x.token = "held" => limiter'.states[x.tokenOn].backoff = 0
<1> DEFINE s == l.states[r.tokenOn]
           y == [r EXCEPT !.token = "sleeping", !.sleep = s.backoff]
<1>1. CASE s.backoff = 0
  <2>1. AskForToken(l, t, r)
    BY <1>1 DEF LookAtBackoff
  <2> QED
    BY <1>1, <2>1, KeptAsk
<1>2. CASE s.backoff # 0
  <2>1. limiter' = l /\ task' = [task EXCEPT ![t] = y]
    BY <1>2 DEF LookAtBackoff
  <2>2. s.backoff \in Ticks
    BY DEF Limiter, Object
  <2> HIDE DEF s
  <2>3. /\ y \in TaskRecord /\ y.key = r.key /\ y.slot = r.slot
        /\ y.slotOn = r.slotOn /\ y.tokenOn = r.tokenOn /\ y.token = "sleeping"
    BY <2>2 DEF TaskRecord
  <2> HIDE DEF y
  <2> QED
    BY <2>1, <2>3
<1> QED
  BY <1>1, <1>2

-----------------------------------------------------------------------------
(* One request and its task change.  What a step does besides: whoever     *)
(* starts to send has waited and, without a bucket, has seen no backoff;   *)
(* and a rate limit leaves its host marked.                                *)

Starts == \A t \in Tasks : ~Sending(t) /\ Sending(t)' =>
  /\ request[t].phase = "pause" => request[t].wait = 0
  /\ MaxRate = 0 => limiter'.states[task'[t].tokenOn].backoff = 0
  /\ \A u \in Tasks : u # t => request'[u] = request[u]
Heard == \A t \in Tasks :
  /\ Sending(t) /\ request'[t].phase \in {"pause", "failed"} /\ request'[t].limited
  /\ LimitedMinWait > 0
  => Marked(limiter', request'[t].host)
RequestStep == RequestInv' /\ Starts /\ Heard

LEMMA CoveredKept ==
  ASSUME RequestInv, limiter' \in Limiter, Kept(limiter'), NEW u \in Tasks
  PROVE  Covered(request[u], task[u], limiter')
<1>1. /\ Standing(request[u], task[u])
      /\ Covered(request[u], task[u], limiter) /\ request[u].wait \in Nat
  BY DEF RequestInv, RequestRecord
<1>2. ASSUME request[u].phase = "pause", request[u].limited
      PROVE  limiter'.states[task[u].slotOn].backoff >= request[u].wait
  <2>1. task[u].slotOn \in States
    BY <1>1, <1>2, BlockObject DEF Standing, RequestInv, LimiterInv
  <2>2. /\ limiter.states[task[u].slotOn].backoff \in Nat
        /\ limiter'.states[task[u].slotOn].backoff \in Nat
    BY <2>1 DEF RequestInv, LimiterInv, Inv, Limiter, Object, Ticks
  <2>3. limiter'.states[task[u].slotOn].backoff >= limiter.states[task[u].slotOn].backoff
    BY <2>1 DEF Kept
  <2>4. limiter.states[task[u].slotOn].backoff >= request[u].wait
    BY <1>1, <1>2 DEF Covered
  <2> QED
    BY <1>1, <2>2, <2>3, <2>4
<1> QED
  BY <1>2 DEF Covered

LEMMA RequestMoves ==
  ASSUME RequestInv, NEW t \in Tasks, NEW x, NEW y \in RequestRecord, LimiterInv',
         task' = [task EXCEPT ![t] = x], request' = [request EXCEPT ![t] = y],
         Kept(limiter'), Standing(y, x), RequestOK(y), Covered(y, x, limiter'),
         y.phase = "attempt" /\ x.token = "held" =>
           /\ request[t].phase = "pause" => request[t].wait = 0
           /\ MaxRate = 0 => limiter'.states[x.tokenOn].backoff = 0,
         Sending(t) /\ y.phase \in {"pause", "failed"} /\ y.limited
           /\ LimitedMinWait > 0 => Marked(limiter', y.host)
  PROVE  RequestStep
<1>1. /\ request' \in [Tasks -> RequestRecord] /\ request'[t] = y /\ task'[t] = x
      /\ \A u \in Tasks : u # t => request'[u] = request[u] /\ task'[u] = task[u]
  BY DEF RequestInv, LimiterInv, Inv
<1>2. ASSUME NEW u \in Tasks
      PROVE  /\ Standing(request'[u], task'[u]) /\ RequestOK(request'[u])
             /\ Covered(request'[u], task'[u], limiter')
  <2>1. CASE u = t
    BY <1>1, <2>1
  <2>2. CASE u # t
    <3>1. /\ Standing(request[u], task[u]) /\ RequestOK(request[u])
          /\ limiter' \in Limiter
      BY DEF RequestInv, LimiterInv, Inv
    <3>2. Covered(request[u], task[u], limiter')
      BY <3>1, CoveredKept
    <3> QED
      BY <1>1, <2>2, <3>1, <3>2
  <2> QED
    BY <2>1, <2>2
<1>3. RequestInv'
  BY <1>1, <1>2 DEF RequestInv
<1>4. Starts
  BY <1>1 DEF Starts, Sending
<1>5. Heard
  BY <1>1 DEF Heard, Sending
<1> QED
  BY <1>3, <1>4, <1>5 DEF RequestStep

LEMMA RequestStays ==
  ASSUME RequestInv, LimiterInv', UNCHANGED <<task, request>>, Kept(limiter')
  PROVE  RequestStep
<1>1. limiter' \in Limiter
  BY DEF LimiterInv, Inv
<1>2. \A u \in Tasks : Covered(request[u], task[u], limiter')
  BY <1>1, CoveredKept
<1>3. RequestInv'
  BY <1>2 DEF RequestInv
<1>4. \A u \in Tasks : RequestOK(request[u])
  BY DEF RequestInv
<1>5. Starts /\ Heard
  BY <1>4 DEF Starts, Heard, Sending, RequestOK
<1> QED
  BY <1>3, <1>5 DEF RequestStep

-----------------------------------------------------------------------------
(* The steps of a request                                                  *)

LEMMA RequestIs ==
  ASSUME RequestInv, NEW t \in Tasks
  PROVE  /\ LimiterInv /\ limiter \in Limiter /\ task \in [Tasks -> TaskRecord]
         /\ task[t] \in TaskRecord /\ TaskOK(task[t])
         /\ request \in [Tasks -> RequestRecord] /\ request[t] \in RequestRecord
         /\ Standing(request[t], task[t]) /\ RequestOK(request[t])
         /\ request[t].phase \in {"slot", "attempt", "pause"} =>
              /\ task[t].slotOn \in States /\ request[t].host \in Keys
              /\ limiter.keys[request[t].host] = task[t].slotOn
         /\ task[t].slot = "waiting" => request[t].phase = "slot"
         /\ task[t].token # "none" => request[t].phase = "attempt" /\ task[t].slot = "held"
<1>1. /\ LimiterInv /\ limiter \in Limiter /\ task \in [Tasks -> TaskRecord]
      /\ task[t] \in TaskRecord /\ TaskOK(task[t])
      /\ request \in [Tasks -> RequestRecord] /\ request[t] \in RequestRecord
      /\ Standing(request[t], task[t]) /\ RequestOK(request[t])
  BY DEF RequestInv, LimiterInv, Inv
<1>2. /\ Outside.slot = "none" /\ Outside.token = "none"
      /\ request[t].phase \in Phases
  BY <1>1 DEF Outside, RequestRecord
<1>3. ASSUME request[t].phase \in {"slot", "attempt", "pause"}
      PROVE  /\ task[t].slotOn \in States /\ request[t].host \in Keys
             /\ limiter.keys[request[t].host] = task[t].slotOn
  <2>1. task[t].slot # "none" /\ task[t].key = request[t].host
    BY <1>1, <1>3 DEF Standing
  <2> QED
    BY <2>1, BlockObject DEF RequestInv, LimiterInv
<1> QED
  BY <1>1, <1>2, <1>3 DEF Standing, Phases

LEMMA StartStep ==
  ASSUME RequestInv, NEW t \in Tasks, NEW k \in Keys, Start(t, k)
  PROVE  RequestStep
<1> DEFINE i == Address(limiter, k)
           l == EnterBlock(limiter, k)
           z == AcquireSlot(l.states[i], t)
           x == task'[t]
           y == [request[t] EXCEPT !.phase = "slot", !.host = k]
<1>1. LimiterInv'
  BY EnterSlotKeeps, RequestIs DEF Start
<1>2. /\ l \in Limiter /\ Kept(l) /\ i \in States
  BY KeptEnter, LookUpIs, RequestIs DEF Start, EnterSlot, LimiterInv
<1>3. limiter' = Put(l, i, z)
  BY DEF Start, EnterSlot, Put
<1> HIDE DEF l, i
<1>4. z \in Object /\ z.backoff >= l.states[i].backoff
  <2> DEFINE c == l.states[i]
  <2>1. c \in Object
    BY <1>2 DEF Limiter
  <2> HIDE DEF c
  <2>2. AcquireSlot(c, t) \in Object /\ AcquireSlot(c, t).backoff = c.backoff
    BY <2>1, AcquireSlotIs
  <2> QED
    BY <2>1, <2>2 DEF c, Object, Ticks
<1> HIDE DEF z
<1>5. Kept(limiter')
  BY <1>2, <1>3, <1>4, BackoffPut, RequestIs
<1>6. /\ task[t] = Outside /\ task[t] \in TaskRecord
      /\ request[t] \in RequestRecord /\ request[t].phase = "new" /\ RequestOK(request[t])
      /\ task \in [Tasks -> TaskRecord]
  BY RequestIs DEF Start, EnterSlot
<1>7. /\ task' = [task EXCEPT ![t] = x]
      /\ x.slot \in {"held", "waiting"} /\ x.token = "none" /\ x.key = k
  BY <1>6 DEF Start, EnterSlot, Outside
<1>8. request' = [request EXCEPT ![t] = y]
  BY RequestIs DEF Start
<1>9. /\ y \in RequestRecord /\ y.phase = "slot" /\ y.host = k
      /\ y.attempt = request[t].attempt /\ y.unreleased = request[t].unreleased
  BY <1>6 DEF RequestRecord, Phases
<1> HIDE DEF x, y
<1>10. RequestOK(y) /\ Standing(y, x) /\ Covered(y, x, limiter')
  BY <1>6, <1>7, <1>9 DEF RequestOK, Standing, Covered
<1> QED
  BY <1>1, <1>5, <1>7, <1>8, <1>9, <1>10, RequestMoves

LEMMA AttemptStep ==
  ASSUME RequestInv, NEW t \in Tasks, Attempt(t)
  PROVE  RequestStep
<1>1. PICK k \in Keys : k = Host(t)
  BY RequestIs DEF Attempt, Host
<1> DEFINE i == Address(limiter, k)
           r == [task[t] EXCEPT !.key = k, !.tokenOn = i]
           l == EnterBlock(limiter, k)
           y == [request[t] EXCEPT !.phase = "attempt", !.attempt = @ + 1, !.limited = FALSE]
<1>2. EnterToken(t, k)
  BY <1>1 DEF Attempt
<1>3. LimiterInv'
  BY <1>2, EnterTokenKeeps, RequestIs
<1>4. l \in Limiter /\ Kept(l) /\ i \in States
  BY <1>2, KeptEnter, LookUpIs, RequestIs DEF EnterToken, LimiterInv
<1>5. LookAtBackoff(l, t, r)
  BY <1>2 DEF EnterToken
<1> HIDE DEF l, i
<1>6. /\ request[t] \in RequestRecord /\ RequestOK(request[t]) /\ task[t] \in TaskRecord
      /\ task[t].slot = "held" /\ request[t].attempt < MaxAttempts
      /\ request[t].host = k /\ request \in [Tasks -> RequestRecord]
      /\ request[t].phase = "pause" => request[t].wait = 0
  <2>1. request[t].phase = "slot" => request[t].attempt < MaxAttempts
    BY RequestIs, RequestAssumption DEF RequestOK
  <2> QED
    BY <1>1, <2>1, RequestIs DEF Attempt, RequestOK, Standing, Host
<1>7. r \in TaskRecord /\ r.key = k /\ r.slot = "held" /\ r.tokenOn = i
  BY <1>4, <1>6 DEF TaskRecord
<1> HIDE DEF r
<1>8. /\ Kept(limiter')
      /\ \E x \in TaskRecord :
           /\ task' = [task EXCEPT ![t] = x]
           /\ x.key = k /\ x.slot = "held"
           /\ x.token \in {"sleeping", "asking", "held"}
           /\ MaxRate = 0 => x.token # "asking"
           /\ x.token = "held" => limiter'.states[x.tokenOn].backoff = 0
  BY <1>4, <1>5, <1>7, KeptLook, RequestIs
<1>9. request' = [request EXCEPT ![t] = y]
  BY <1>6 DEF Attempt
<1>10. /\ y \in RequestRecord /\ y.phase = "attempt" /\ y.host = k /\ ~y.limited
       /\ y.unreleased = request[t].unreleased
  <2>1. request[t].attempt + 1 \in 0..MaxAttempts
    BY <1>6, RequestAssumption DEF RequestRecord
  <2> QED
    BY <1>6, <2>1 DEF RequestRecord, Phases
<1> HIDE DEF y
<1>11. request[t].unreleased = 0
  BY <1>6 DEF Attempt, RequestOK
<1>12. RequestOK(y)
  BY <1>10, <1>11 DEF RequestOK
<1>13. PICK x \in TaskRecord :
           /\ task' = [task EXCEPT ![t] = x]
           /\ x.key = k /\ x.slot = "held"
           /\ x.token \in {"sleeping", "asking", "held"}
           /\ MaxRate = 0 => x.token # "asking"
           /\ x.token = "held" => limiter'.states[x.tokenOn].backoff = 0
  BY <1>8
<1>14. Standing(y, x) /\ Covered(y, x, limiter')
  BY <1>10, <1>13 DEF Standing, Covered
<1> QED
  BY <1>3, <1>6, <1>8, <1>9, <1>10, <1>12, <1>13, <1>14, RequestMoves

(* The limiter lets the request go on. *)
LEMMA WaitsStep ==
  ASSUME RequestInv, NEW t \in Tasks, Waits(t)
  PROVE  RequestStep
<1>1. /\ request \in [Tasks -> RequestRecord] /\ request[t] \in RequestRecord
      /\ RequestOK(request[t]) /\ task[t] \in TaskRecord /\ limiter \in Limiter
      /\ task \in [Tasks -> TaskRecord] /\ Standing(request[t], task[t])
  BY RequestIs
<1>2. LimiterInv'
  BY RequestIs, LimiterInvNext DEF Waits, LimiterNext, TaskStep
<1>3. request' = [request EXCEPT ![t] = request[t]]
  BY <1>1 DEF Waits
<1>4. CASE GetSlot(t)
  <2> DEFINE x == [task[t] EXCEPT !.slot = "held"]
  <2>1. limiter' = limiter /\ task' = [task EXCEPT ![t] = x] /\ request[t].phase = "slot"
    BY <1>4, RequestIs DEF GetSlot, Granted
  <2>2. x.slot = "held" /\ x.token = task[t].token /\ x.key = task[t].key
    BY <1>1 DEF TaskRecord
  <2> HIDE DEF x
  <2>3. Standing(request[t], x) /\ Covered(request[t], x, limiter')
    BY <1>1, <2>1, <2>2 DEF Standing, Covered
  <2>4. Kept(limiter')
    BY <1>1, <2>1, KeptSelf
  <2> QED
    BY <1>1, <1>2, <1>3, <2>1, <2>3, <2>4, RequestMoves
<1>5. ASSUME task[t].token # "none", Kept(limiter'), NEW x \in TaskRecord,
             task' = [task EXCEPT ![t] = x],
             x.key = task[t].key, x.slot = task[t].slot,
             x.token # "none", MaxRate = 0 => x.token # "asking",
             MaxRate = 0 /\ x.token = "held" => limiter'.states[x.tokenOn].backoff = 0
      PROVE  RequestStep
  <2>1. request[t].phase = "attempt" /\ task[t].slot = "held"
    BY <1>5, RequestIs
  <2>2. Standing(request[t], x) /\ Covered(request[t], x, limiter')
    BY <1>1, <1>5, <2>1 DEF Standing, Covered
  <2> QED
    BY <1>1, <1>2, <1>3, <1>5, <2>1, <2>2, RequestMoves
<1>6. CASE WakeUp(t)
  <2>1. task[t].token = "sleeping" /\ task[t].tokenOn \in States
    BY <1>6, BlockObject DEF WakeUp, RequestInv, LimiterInv
  <2>2. LookAtBackoff(limiter, t, task[t])
    BY <1>6 DEF WakeUp
  <2>3. /\ Kept(limiter')
        /\ \E x \in TaskRecord :
             /\ task' = [task EXCEPT ![t] = x]
             /\ x.key = task[t].key /\ x.slot = task[t].slot
             /\ x.token \in {"sleeping", "asking", "held"}
             /\ MaxRate = 0 => x.token # "asking"
             /\ x.token = "held" => limiter'.states[x.tokenOn].backoff = 0
    BY <1>1, <2>1, <2>2, KeptLook, KeptSelf
  <2> QED
    BY <1>5, <2>1, <2>3
<1>7. CASE GetToken(t)
  <2>1. /\ task[t].token = "asking" /\ task[t].tokenOn \in States
        /\ MaxRate # 0
    BY <1>1, <1>7, BlockObject DEF GetToken, RequestInv, LimiterInv, Standing
  <2>2. AskForToken(limiter, t, task[t])
    BY <1>7 DEF GetToken
  <2>3. /\ Kept(limiter')
        /\ \E x \in TaskRecord :
             /\ task' = [task EXCEPT ![t] = x]
             /\ x.key = task[t].key /\ x.slot = task[t].slot
             /\ x.token \in {"asking", "held"}
    BY <1>1, <2>1, <2>2, KeptAsk, KeptSelf
  <2> QED
    BY <1>5, <2>1, <2>3
<1> QED
  BY <1>4, <1>6, <1>7 DEF Waits

(* A response comes in, and is given back. *)
LEMMA ResponseIs ==
  ASSUME NEW r \in RequestRecord
  PROVE  /\ Received(r) \in RequestRecord /\ Received(r).phase = r.phase
         /\ Received(r).host = r.host /\ Received(r).attempt = r.attempt
         /\ Received(r).limited = r.limited /\ Received(r).unreleased = r.unreleased + 1
         /\ Released(r) \in RequestRecord /\ Released(r).phase = r.phase
         /\ Released(r).host = r.host /\ Released(r).attempt = r.attempt
         /\ Released(r).limited = r.limited
         /\ Released(r).unreleased = Less(r.unreleased, 1)
<1> DEFINE n == Less(r.unreleased, 1)
           z == [r EXCEPT !.unreleased = n]
<1>1. n \in Nat
  BY DEF Less, RequestRecord
<1>2. Released(r) = z
  BY DEF Released
<1> HIDE DEF n
<1>3. /\ z \in RequestRecord /\ z.phase = r.phase /\ z.host = r.host
      /\ z.attempt = r.attempt /\ z.limited = r.limited /\ z.unreleased = n
  BY <1>1 DEF RequestRecord
<1> HIDE DEF z
<1>4. /\ Received(r) \in RequestRecord /\ Received(r).phase = r.phase
      /\ Received(r).host = r.host /\ Received(r).attempt = r.attempt
      /\ Received(r).limited = r.limited /\ Received(r).unreleased = r.unreleased + 1
  BY DEF Received, RequestRecord
<1> QED
  BY <1>2, <1>3, <1>4 DEF n

LEMMA SucceedStep ==
  ASSUME RequestInv, NEW t \in Tasks, Succeed(t)
  PROVE  RequestStep
<1> DEFINE y == Received([request[t] EXCEPT !.phase = "open"])
<1>1. /\ request \in [Tasks -> RequestRecord] /\ request[t] \in RequestRecord
      /\ RequestOK(request[t]) /\ limiter \in Limiter /\ Inv(limiter, task)
      /\ signalled \in [Keys -> Ticks]
      /\ task[t].token # "none" /\ task[t].slot = "held" /\ request[t].phase = "attempt"
  BY RequestIs DEF Succeed, Sending, LimiterInv
<1>2. /\ Inv(SlotLeft(TokenLeft(limiter, t), t), Exited(task, t))
      /\ Kept(SlotLeft(TokenLeft(limiter, t), t))
  BY <1>1, BothLeft, KeptSelf
<1>3. /\ limiter' = SlotLeft(TokenLeft(limiter, t), t)
      /\ task' = Exited(task, t) /\ task' = [task EXCEPT ![t] = Outside]
      /\ signalled' = signalled /\ request' = [request EXCEPT ![t] = y]
  BY <1>1 DEF Succeed, Exited
<1>4. LimiterInv'
  BY <1>1, <1>2, <1>3 DEF LimiterInv
<1>5. y \in RequestRecord /\ y.phase = "open" /\ y.unreleased = 1
  <2> DEFINE z == [request[t] EXCEPT !.phase = "open"]
  <2>1. z \in RequestRecord /\ z.phase = "open" /\ z.unreleased = 0
    BY <1>1 DEF RequestRecord, RequestOK, Phases
  <2> HIDE DEF z
  <2>2. Received(z) \in RequestRecord /\ Received(z).phase = "open" /\ Received(z).unreleased = 1
    BY <2>1, ResponseIs
  <2> QED
    BY <2>2 DEF z
<1> HIDE DEF y
<1>6. RequestOK(y) /\ Standing(y, Outside) /\ Covered(y, Outside, limiter')
  BY <1>5 DEF RequestOK, Standing, Covered, Outside
<1>7. Outside.token # "held"
  BY DEF Outside
<1> QED
  BY <1>2, <1>3, <1>4, <1>5, <1>6, <1>7, RequestMoves

LEMMA EffectiveIs ==
  ASSUME NEW d \in EffectiveRetryAfters
  PROVE  /\ d # None => d \in Nat
         /\ BackoffDuration(d) \in Nat
         /\ LimitedMinWait > 0 => BackoffDuration(d) > 0
         /\ \A limited \in BOOLEAN : Pauses(limited, d) \subseteq Nat
<1>1. d # None => d \in Nat
  BY RequestAssumption DEF EffectiveRetryAfters, Smaller
<1> QED
  BY <1>1, RequestAssumption DEF BackoffDuration, Pauses

(* An attempt has raised: the request pauses in its slot, or gives up.     *)
LEMMA RaiseStep ==
  ASSUME RequestInv, NEW t \in Tasks, Sending(t), NEW l, Inv(l, task), Kept(l),
         NEW h \in [Keys -> Ticks], NEW r \in RequestRecord,
         r.host = request[t].host, r.attempt = request[t].attempt, r.unreleased = 0,
         r.limited /\ LimitedMinWait > 0 => Marked(l, r.host),
         NEW d \in EffectiveRetryAfters, Raise(t, l, h, r, d)
  PROVE  RequestStep
<1>1. /\ request \in [Tasks -> RequestRecord] /\ request[t] \in RequestRecord
      /\ limiter \in Limiter /\ task[t] \in TaskRecord /\ task \in [Tasks -> TaskRecord]
      /\ task[t].token # "none" /\ task[t].slot = "held" /\ request[t].phase = "attempt"
      /\ task[t].slotOn \in States /\ Standing(request[t], task[t])
      /\ request[t].host \in Keys
  BY RequestIs DEF Sending
<1>2. CASE GiveUp(t, l, h, r)
  <2> DEFINE y == [r EXCEPT !.phase = "failed"]
             m == SlotLeft(TokenLeft(l, t), t)
  <2>1. /\ Inv(m, Exited(task, t)) /\ Kept(m)
        /\ Marked(l, r.host) => Marked(m, r.host)
    BY <1>1, BothLeft
  <2>2. /\ limiter' = m /\ signalled' = h /\ request' = [request EXCEPT ![t] = y]
        /\ task' = Exited(task, t) /\ task' = [task EXCEPT ![t] = Outside]
    BY <1>1, <1>2 DEF GiveUp, Exited
  <2> HIDE DEF m
  <2>3. LimiterInv'
    BY <2>1, <2>2 DEF LimiterInv
  <2>4. /\ y \in RequestRecord /\ y.phase = "failed" /\ y.unreleased = 0
        /\ y.limited = r.limited /\ y.host = r.host
    BY DEF RequestRecord, Phases
  <2> HIDE DEF y
  <2>5. RequestOK(y) /\ Standing(y, Outside) /\ Covered(y, Outside, limiter')
    BY <2>4 DEF RequestOK, Standing, Covered, Outside
  <2>6. Outside.token # "held"
    BY DEF Outside
  <2>7. y.limited /\ LimitedMinWait > 0 => Marked(limiter', y.host)
    BY <2>1, <2>2, <2>4
  <2> QED
    BY <2>1, <2>2, <2>3, <2>4, <2>5, <2>6, <2>7, RequestMoves
<1>3. CASE Pause(t, l, h, r, d)
  <2> DEFINE x == OutOfToken(task[t])
             m == TokenLeft(l, t)
             p == [task EXCEPT ![t] = x]
  <2>1. PICK w \in Pauses(r.limited, d) :
          /\ limiter' = BeforeSleep(m, r.host, r.limited, w)
          /\ task' = [task EXCEPT ![t] = OutOfToken(@)]
          /\ signalled' = IF r.limited THEN Signalled(h, r.host, w) ELSE h
          /\ request' = [request EXCEPT ![t] = [r EXCEPT !.phase = "pause", !.wait = w]]
    BY <1>3 DEF Pause
  <2> DEFINE y == [r EXCEPT !.phase = "pause", !.wait = w]
  <2>2. w \in Nat
    BY EffectiveIs DEF RequestRecord
  <2>3. task' = p /\ request' = [request EXCEPT ![t] = y]
    BY <1>1, <2>1
  <2>4. /\ x \in TaskRecord /\ x.token = "none" /\ x.slot = "held"
        /\ x.slotOn = task[t].slotOn /\ x.key = task[t].key
    BY <1>1, OutOfTokenIs
  <2>5. /\ Inv(m, p) /\ Kept(m)
        /\ Marked(l, r.host) => Marked(m, r.host)
    BY <1>1, TokenLeftKeeps, TokenLeftBackoff
  <2> HIDE DEF x, m
  <2>6. p[t] = x
    BY <1>1
  <2>7. m.keys[r.host] = x.slotOn /\ x.slotOn \in States
    <3>1. x.key = r.host
      BY <1>1, <2>4 DEF Standing
    <3> HIDE DEF p
    <3> QED
      BY <1>1, <2>4, <2>5, <2>6, <3>1, BlockObject
  <2> HIDE DEF p
  <2>8. /\ Inv(limiter', p) /\ Kept(limiter')
        /\ Marked(m, r.host) => Marked(limiter', r.host)
        /\ r.limited => limiter'.states[x.slotOn].backoff >= w
    <3>1. CASE ~r.limited
      BY <2>1, <2>5, <3>1 DEF BeforeSleep
    <3>2. CASE r.limited
      <4>1. limiter' = SignalBackoff(m, r.host, w) /\ r.host \in Keys
        BY <1>1, <2>1, <3>2 DEF BeforeSleep
      <4>2. m.keys[r.host] # None
        BY <2>7, NoneApart
      <4>3. LET n == SignalBackoff(m, r.host, w) IN
            /\ Inv(n, p)
            /\ n.states[m.keys[r.host]].backoff >= w
            /\ Kept(m) => Kept(n)
            /\ Marked(m, r.host) => Marked(n, r.host)
        BY <1>1, <2>2, <2>5, <4>1, <4>2, SignalIs
      <4> QED
        BY <2>5, <2>7, <4>1, <4>3
    <3> QED
      BY <3>1, <3>2
  <2>9. signalled' \in [Keys -> Ticks]
    BY <2>1, <2>2 DEF Signalled, Larger, Ticks
  <2>10. LimiterInv'
    BY <2>3, <2>8, <2>9 DEF LimiterInv
  <2>11. r.attempt < MaxAttempts
    BY <1>3 DEF Pause
  <2>12. /\ y \in RequestRecord /\ y.phase = "pause" /\ y.unreleased = 0 /\ y.wait = w
         /\ y.limited = r.limited /\ y.host = r.host /\ y.attempt = r.attempt
    BY <2>2 DEF RequestRecord, Phases
  <2> HIDE DEF y
  <2>13. RequestOK(y) /\ Standing(y, x) /\ Covered(y, x, limiter')
    BY <1>1, <2>4, <2>8, <2>11, <2>12 DEF RequestOK, Standing, Covered
  <2>14. y.limited /\ LimitedMinWait > 0 => Marked(limiter', y.host)
    BY <2>5, <2>8, <2>12
  <2>15. task' = [task EXCEPT ![t] = x]
    BY <2>3 DEF p
  <2> QED
    BY <2>3, <2>4, <2>8, <2>10, <2>12, <2>13, <2>14, <2>15, RequestMoves
<1> QED
  BY <1>2, <1>3 DEF Raise

LEMMA AnswerStep ==
  ASSUME RequestInv, NEW t \in Tasks, Answer(t)
  PROVE  RequestStep
<1>1. CASE Succeed(t)
  BY <1>1, SucceedStep
<1>2. ASSUME ~Succeed(t)
      PROVE  /\ Sending(t) /\ Inv(limiter, task) /\ Kept(limiter) /\ limiter \in Limiter
             /\ signalled \in [Keys -> Ticks]
             /\ request[t] \in RequestRecord /\ RequestOK(request[t])
             /\ request[t].unreleased = 0 /\ ~request[t].limited
             /\ request[t].host \in Keys /\ limiter.keys[request[t].host] # None
  <2>1. Sending(t) /\ request[t].phase = "attempt"
    BY <1>2 DEF Answer, RateLimited, ServerError, ConnectionFails, Sending
  <2> QED
    BY <2>1, RequestIs, KeptSelf, NoneApart DEF LimiterInv, RequestOK
<1> DEFINE s == request[t]
           e == Released(Received(s))
<1>3. ASSUME ServerError(t) PROVE RequestStep
  <2>1. ~Succeed(t) \/ Succeed(t)
    OBVIOUS
  <2>2. CASE ~Succeed(t)
    <3>1. PICK d \in EffectiveRetryAfters : Raise(t, limiter, signalled, e, d)
      BY <1>3 DEF ServerError
    <3>2. /\ e \in RequestRecord /\ e.host = s.host /\ e.attempt = s.attempt
          /\ e.unreleased = 0 /\ ~e.limited
      <4> HIDE DEF s
      <4>1. s \in RequestRecord /\ s.unreleased = 0 /\ ~s.limited
        BY <1>2, <2>2 DEF s
      <4> DEFINE c == Received(s)
      <4>2. /\ c \in RequestRecord /\ c.host = s.host /\ c.attempt = s.attempt
            /\ c.unreleased = 1 /\ ~c.limited
        BY <4>1, ResponseIs
      <4> HIDE DEF c
      <4>3. /\ Released(c) \in RequestRecord /\ Released(c).host = s.host
            /\ Released(c).attempt = s.attempt
            /\ Released(c).unreleased = 0 /\ ~Released(c).limited
        BY <4>2, ResponseIs DEF Less
      <4> QED
        BY <4>3 DEF c
    <3> HIDE DEF e
    <3> QED
      BY <1>2, <2>2, <3>1, <3>2, RaiseStep
  <2> QED
    BY <1>1, <2>2
<1>4. ASSUME ConnectionFails(t), ~Succeed(t) PROVE RequestStep
  <2>1. Raise(t, limiter, signalled, request[t], None) /\ None \in EffectiveRetryAfters
    BY <1>4 DEF ConnectionFails, EffectiveRetryAfters
  <2> QED
    BY <1>2, <1>4, <2>1, RaiseStep
<1>5. ASSUME RateLimited(t), ~Succeed(t) PROVE RequestStep
  <2> DEFINE r == Released(Received([s EXCEPT !.limited = TRUE]))
  <2>1. PICK d \in EffectiveRetryAfters :
          Raise(t, SignalBackoff(limiter, r.host, BackoffDuration(d)),
                Signalled(signalled, r.host, BackoffDuration(d)), r, d)
    BY <1>5 DEF RateLimited
  <2>2. /\ r \in RequestRecord /\ r.host = s.host /\ r.attempt = s.attempt
        /\ r.unreleased = 0
    <3> HIDE DEF s
    <3>1. s \in RequestRecord /\ s.unreleased = 0
      BY <1>2, <1>5 DEF s
    <3> DEFINE b == [s EXCEPT !.limited = TRUE]
               c == Received(b)
    <3>2. /\ b \in RequestRecord /\ b.host = s.host /\ b.attempt = s.attempt
          /\ b.unreleased = 0
      BY <3>1 DEF RequestRecord
    <3> HIDE DEF b
    <3>3. /\ c \in RequestRecord /\ c.host = s.host /\ c.attempt = s.attempt
          /\ c.unreleased = 1
      BY <3>2, ResponseIs
    <3> HIDE DEF c
    <3>4. /\ Released(c) \in RequestRecord /\ Released(c).host = s.host
          /\ Released(c).attempt = s.attempt /\ Released(c).unreleased = 0
      BY <3>3, ResponseIs DEF Less
    <3> QED
      BY <3>4 DEF b, c
  <2> DEFINE w == BackoffDuration(d)
             l == SignalBackoff(limiter, r.host, w)
             h == Signalled(signalled, r.host, w)
  <2>3. Raise(t, l, h, r, d)
    BY <2>1
  <2> HIDE DEF r
  <2>4. w \in Nat /\ (LimitedMinWait > 0 => w > 0)
    BY EffectiveIs
  <2> HIDE DEF w
  <2>5. /\ Inv(l, task) /\ Kept(l)
        /\ LimitedMinWait > 0 => Marked(l, r.host)
    BY <1>2, <1>5, <2>2, <2>4, SignalIs
  <2>6. h \in [Keys -> Ticks]
    BY <1>2, <1>5, <2>4 DEF Signalled, Larger, Ticks
  <2> HIDE DEF l, h
  <2> QED
    BY <1>2, <1>5, <2>2, <2>3, <2>5, <2>6, RaiseStep
<1> QED
  BY <1>1, <1>3, <1>4, <1>5 DEF Answer

LEMMA AbandonedBackoff ==
  ASSUME LimiterInv, NEW t \in Tasks, task[t].slot = "waiting"
  PROVE  Kept(SlotAbandoned(limiter, t))
<1>1. limiter \in Limiter /\ task[t].slotOn \in States
  BY BlockObject DEF LimiterInv, Inv
<1>2. CASE Granted(t)
  BY <1>1, <1>2, SlotLeftBackoff, KeptSelf DEF SlotAbandoned
<1>3. CASE ~Granted(t)
  <2>1. PICK i \in States : i = task[t].slotOn
    BY <1>1
  <2>2. PICK s \in Object : s = limiter.states[i]
    BY <1>1 DEF Limiter
  <2> DEFINE z == [s EXCEPT !.waiters = RemoveFirst(@, t)]
             m == Put(limiter, i, z)
  <2>3. QueueOK(s, task, i) /\ Contains(s.waiters, t)
    BY <1>3, <2>1, <2>2 DEF LimiterInv, Inv, ObjectOK, Granted
  <2>4. z \in Object /\ z.backoff = s.backoff /\ s.backoff \in Nat
    BY <2>3, WaiterGoneIs DEF Object, Ticks
  <2>5. SlotAbandoned(limiter, t) = LeaveBlock(m, i)
    BY <1>1, <1>3, <2>1, <2>2 DEF SlotAbandoned, Put, Limiter
  <2> HIDE DEF z
  <2>6. m \in Limiter /\ Kept(m)
    <3>1. z.backoff >= limiter.states[i].backoff /\ Kept(limiter)
      BY <1>1, <2>2, <2>4, KeptSelf
    <3> QED
      BY <1>1, <2>4, <3>1, PutIs, BackoffPut
  <2> HIDE DEF m
  <2> QED
    BY <1>1, <2>5, <2>6, BackoffLeave
<1> QED
  BY <1>2, <1>3

LEMMA CancelStep ==
  ASSUME RequestInv, NEW t \in Tasks, Cancel(t)
  PROVE  RequestStep
<1> DEFINE y == [request[t] EXCEPT !.phase = "failed", !.wait = 0]
<1>1. /\ request \in [Tasks -> RequestRecord] /\ request[t] \in RequestRecord
      /\ RequestOK(request[t]) /\ Standing(request[t], task[t])
      /\ limiter \in Limiter /\ LimiterInv /\ Inv(limiter, task)
      /\ signalled \in [Keys -> Ticks]
      /\ request[t].phase \in {"slot", "attempt", "pause"} => task[t].slotOn \in States
  BY RequestIs DEF LimiterInv
<1>2. /\ task' = Exited(task, t) /\ task' = [task EXCEPT ![t] = Outside]
      /\ signalled' = signalled /\ request' = [request EXCEPT ![t] = y]
      /\ request[t].phase \in {"slot", "attempt", "pause"}
  BY <1>1 DEF Cancel, Exited
<1>3. Inv(limiter', Exited(task, t)) /\ Kept(limiter')
  <2>1. CASE /\ request[t].phase = "slot" /\ task[t].slot = "waiting"
             /\ limiter' = SlotAbandoned(limiter, t)
    BY <1>1, <2>1, SlotAbandonedKeeps, AbandonedBackoff
  <2>2. CASE /\ request[t].phase = "attempt"
             /\ limiter' = SlotLeft(TokenLeft(limiter, t), t)
    BY <1>1, <2>2, BothLeft, KeptSelf DEF Standing
  <2>3. CASE request[t].phase = "pause" /\ limiter' = SlotLeft(limiter, t)
    <3>1. PICK i \in States : task[t].slotOn = i
      BY <1>1, <1>2
    <3>2. task[t].slot = "held" /\ task[t].token = "none"
      BY <1>1, <2>3 DEF Standing
    <3>3. ~Contains(limiter.states[i].waiters, t)
      BY <1>1, <3>2 DEF Inv, ObjectOK, QueueOK, Contains
    <3> QED
      BY <1>1, <2>3, <3>1, <3>2, <3>3, SlotLeftKeeps, SlotLeftBackoff, KeptSelf
  <2> QED
    BY <2>1, <2>2, <2>3 DEF Cancel
<1>4. LimiterInv'
  BY <1>1, <1>2, <1>3 DEF LimiterInv
<1>5. /\ y \in RequestRecord /\ y.phase = "failed" /\ y.limited = request[t].limited
      /\ y.unreleased = request[t].unreleased
  BY <1>1 DEF RequestRecord, Phases
<1> HIDE DEF y
<1>6. request[t].unreleased = 0 /\ (Sending(t) => ~request[t].limited)
  BY <1>1, <1>2 DEF RequestOK, Sending
<1>7. RequestOK(y) /\ Standing(y, Outside) /\ Covered(y, Outside, limiter')
  BY <1>5, <1>6 DEF RequestOK, Standing, Covered, Outside
<1>8. Outside.token # "held"
  BY DEF Outside
<1> QED
  BY <1>2, <1>3, <1>4, <1>5, <1>6, <1>7, <1>8, RequestMoves

LEMMA CloseStep ==
  ASSUME RequestInv, NEW t \in Tasks, Close(t)
  PROVE  RequestStep
<1> DEFINE b == [request[t] EXCEPT !.phase = "done"]
           y == Released(b)
<1>1. /\ request \in [Tasks -> RequestRecord] /\ request[t] \in RequestRecord
      /\ RequestOK(request[t]) /\ Standing(request[t], task[t])
      /\ limiter \in Limiter /\ LimiterInv /\ task \in [Tasks -> TaskRecord]
      /\ request[t].phase = "open"
  BY RequestIs DEF Close
<1>2. /\ limiter' = limiter /\ task' = [task EXCEPT ![t] = task[t]]
      /\ request' = [request EXCEPT ![t] = y] /\ LimiterInv'
  BY <1>1, LimiterInvNext DEF Close, limiterVars
<1>3. task[t] = Outside /\ Kept(limiter')
  BY <1>1, <1>2, KeptSelf DEF Standing
<1>4. b \in RequestRecord /\ b.phase = "done" /\ b.unreleased = 1
  BY <1>1 DEF RequestRecord, RequestOK, Phases
<1> HIDE DEF b
<1>5. y \in RequestRecord /\ y.phase = "done" /\ y.unreleased = 0
  BY <1>4, ResponseIs DEF Less
<1> HIDE DEF y
<1>6. RequestOK(y) /\ Standing(y, task[t]) /\ Covered(y, task[t], limiter')
  BY <1>3, <1>5 DEF RequestOK, Standing, Covered, Outside
<1> QED
  BY <1>2, <1>3, <1>5, <1>6, RequestMoves

LEMMA TimeStep ==
  ASSUME RequestInv, Time
  PROVE  RequestStep
<1>1. /\ LimiterInv /\ limiter \in Limiter /\ task \in [Tasks -> TaskRecord]
      /\ request \in [Tasks -> RequestRecord]
  BY DEF RequestInv, LimiterInv, Inv
<1>2. LimiterInv'
  BY <1>1, LimiterInvNext DEF Time, LimiterNext
<1>3. ASSUME NEW t \in Tasks
      PROVE  /\ task'[t].key = task[t].key /\ task'[t].slot = task[t].slot
             /\ task'[t].slotOn = task[t].slotOn /\ task'[t].token = task[t].token
             /\ task[t] = Outside => task'[t] = Outside
  <2>1. task'[t] = [task[t] EXCEPT !.sleep = Less(@, 1)]
    BY DEF Time, Tick
  <2>2. [Outside EXCEPT !.sleep = Less(@, 1)] = Outside
    BY DEF Outside, Less
  <2>3. PICK x \in TaskRecord : x = task[t]
    BY <1>1
  <2>4. LET y == [x EXCEPT !.sleep = Less(@, 1)] IN
        y.key = x.key /\ y.slot = x.slot /\ y.slotOn = x.slotOn /\ y.token = x.token
    BY <2>3 DEF TaskRecord
  <2> QED
    BY <2>1, <2>2, <2>3, <2>4
<1>4. ASSUME NEW t \in Tasks
      PROVE  /\ request'[t] \in RequestRecord
             /\ request'[t].phase = request[t].phase /\ request'[t].host = request[t].host
             /\ request'[t].attempt = request[t].attempt
             /\ request'[t].limited = request[t].limited
             /\ request'[t].unreleased = request[t].unreleased
             /\ request'[t].wait = Less(request[t].wait, 1)
  <2>1. PICK r \in RequestRecord : r = request[t]
    BY <1>1
  <2> DEFINE w == Less(r.wait, 1)
             y == [r EXCEPT !.wait = w]
  <2>2. request'[t] = y /\ w \in Nat
    BY <2>1 DEF Time, Less, RequestRecord
  <2> HIDE DEF w
  <2>3. /\ y \in RequestRecord /\ y.phase = r.phase /\ y.host = r.host
        /\ y.attempt = r.attempt /\ y.limited = r.limited
        /\ y.unreleased = r.unreleased /\ y.wait = w
    BY <2>2 DEF RequestRecord
  <2> HIDE DEF y
  <2> QED
    BY <2>1, <2>2, <2>3 DEF w
<1>5. request' \in [Tasks -> RequestRecord]
  BY <1>4 DEF Time
<1>6. ASSUME NEW t \in Tasks
      PROVE  /\ Standing(request'[t], task'[t]) /\ RequestOK(request'[t])
             /\ Covered(request'[t], task'[t], limiter')
  <2>1. /\ Standing(request[t], task[t]) /\ RequestOK(request[t])
        /\ Covered(request[t], task[t], limiter) /\ request[t].wait \in Nat
    BY <1>1 DEF RequestInv, RequestRecord
  <2>2. Standing(request'[t], task'[t])
    BY <1>3, <1>4, <2>1 DEF Standing
  <2>3. RequestOK(request'[t])
    BY <1>4, <2>1 DEF RequestOK
  <2>4. ASSUME request[t].phase = "pause", request[t].limited
        PROVE  limiter'.states[task[t].slotOn].backoff >= Less(request[t].wait, 1)
    <3>1. PICK i \in States : i = task[t].slotOn
      BY <2>4, RequestIs
    <3>2. PICK s \in Object : s = limiter.states[i]
      BY <1>1 DEF Limiter
    <3>3. limiter'.states[i] = Older(s)
      BY <1>1, <3>1, <3>2 DEF Time, Tick, Limiter, Unused
    <3>4. Older(s).backoff = Less(s.backoff, 1) /\ s.backoff \in Nat
      BY DEF Older, Object, Ticks
    <3>5. s.backoff >= request[t].wait
      BY <2>1, <2>4, <3>1, <3>2 DEF Covered
    <3> QED
      BY <2>1, <3>1, <3>3, <3>4, <3>5 DEF Less
  <2>5. Covered(request'[t], task'[t], limiter')
    BY <1>3, <1>4, <2>4 DEF Covered
  <2> QED
    BY <2>2, <2>3, <2>5
<1>7. RequestInv'
  BY <1>2, <1>5, <1>6 DEF RequestInv
<1>8. Starts /\ Heard
  BY <1>3, <1>4 DEF Starts, Heard, Sending
<1> QED
  BY <1>7, <1>8 DEF RequestStep

-----------------------------------------------------------------------------
(* The invariant is inductive                                              *)

LEMMA RequestInit == Init => RequestInv
<1> SUFFICES ASSUME Init PROVE RequestInv
  OBVIOUS
<1>1. LimiterInv /\ task = [t \in Tasks |-> Outside] /\ request = [t \in Tasks |-> NotStarted]
  BY LimiterInvInit DEF Init, LimiterInit
<1>2. NotStarted \in RequestRecord /\ NotStarted.phase = "new"
  BY RequestAssumption DEF NotStarted, RequestRecord, Phases
<1>3. RequestOK(NotStarted)
  BY DEF NotStarted, RequestOK
<1>4. \A l : Standing(NotStarted, Outside) /\ Covered(NotStarted, Outside, l)
  BY <1>2 DEF Standing, Covered, Outside
<1> QED
  BY <1>1, <1>2, <1>3, <1>4 DEF RequestInv

LEMMA RequestNext ==
  ASSUME RequestInv, [Next]_vars
  PROVE  RequestStep
<1>1. LimiterInv /\ limiter \in Limiter
  BY DEF RequestInv, LimiterInv, Inv
<1>2. ASSUME NEW t \in Tasks, \/ \E k \in Keys : Start(t, k)
                              \/ Attempt(t) \/ Waits(t) \/ Answer(t) \/ Cancel(t) \/ Close(t)
      PROVE  RequestStep
  BY <1>2, StartStep, AttemptStep, WaitsStep, AnswerStep, CancelStep, CloseStep
<1>3. CASE Cleanup /\ UNCHANGED request
  <2>1. LimiterInv'
    BY <1>1, <1>3, LimiterInvNext DEF LimiterNext
  <2>2. Kept(limiter')
    BY <1>1, <1>3, KeptSelf, BackoffCleanUp DEF Cleanup
  <2> QED
    BY <1>3, <2>1, <2>2, RequestStays DEF Cleanup
<1>4. CASE Time
  BY <1>4, TimeStep
<1>5. CASE UNCHANGED vars
  <2>1. UNCHANGED limiterVars /\ UNCHANGED <<limiter, task, request>>
    BY <1>5 DEF vars, limiterVars
  <2>2. LimiterInv'
    BY <1>1, <2>1, LimiterInvNext
  <2> QED
    BY <1>1, <2>1, <2>2, KeptSelf, RequestStays
<1> QED
  BY <1>2, <1>3, <1>4, <1>5 DEF Next

LEMMA RequestInvariant == Spec => []RequestInv
<1>1. Init => RequestInv
  BY RequestInit
<1>2. RequestInv /\ [Next]_vars => RequestInv'
  BY RequestNext DEF RequestStep
<1> QED
  BY <1>1, <1>2, PTL DEF Spec

-----------------------------------------------------------------------------
(* What requests owe their hosts and their callers                         *)

LEMMA InProgressByInv == RequestInv => InProgressBounded
<1> SUFFICES ASSUME RequestInv PROVE InProgressBounded
  OBVIOUS
<1>1. ASSUME NEW t \in Tasks
      PROVE  /\ request[t].phase \in {"attempt", "pause"} => task[t].slot = "held"
             /\ request[t].phase = "attempt" <=> task[t].token # "none"
             /\ request[t].phase \in {"new", "open", "done", "failed"} => task[t] = Outside
  BY RequestIs DEF Standing
<1>2. RequestTypeOK
  BY <1>1 DEF RequestTypeOK, RequestInv, RequestRecord
<1>3. ASSUME MaxConcurrent > 0, NEW k \in Keys
      PROVE  Cardinality(InProgress(k)) <= MaxConcurrent
  <2>1. InProgress(k) \subseteq SlotHolders(k)
    BY RequestIs DEF InProgress, SlotHolders, Standing
  <2>2. SlotHolders(k) \subseteq Tasks
    BY DEF SlotHolders
  <2>3. IsFiniteSet(SlotHolders(k))
    BY <2>2, LimiterAssumption, FS_Subset
  <2>4. Cardinality(SlotHolders(k)) <= MaxConcurrent
    BY <1>3, SlotsByInv DEF RequestInv, SlotsConserved, SlotsBounded
  <2>5. /\ IsFiniteSet(InProgress(k))
        /\ Cardinality(InProgress(k)) <= Cardinality(SlotHolders(k))
    BY <2>1, <2>3, FS_Subset
  <2> QED
    BY <2>3, <2>4, <2>5, FS_CardinalityType, LimiterAssumption
<1> QED
  BY <1>2, <1>3 DEF InProgressBounded

(* "A semaphore slot is held across all retry attempts": whatever hosts    *)
(* answer and whoever is cancelled, no host has more requests between      *)
(* their first attempt and their last than max_concurrent.                 *)
THEOREM InProgressIsBounded == Spec => []InProgressBounded
<1> QED
  BY RequestInvariant, InProgressByInv, PTL

(* Every response is given back once, on every path through the retries;   *)
(* only the caller's block has one that is not.                            *)
THEOREM Responses == Spec => []ResponsesReleased
<1>1. RequestInv => ResponsesReleased
  BY DEF RequestInv, RequestOK, ResponsesReleased
<1> QED
  BY <1>1, RequestInvariant, PTL

(* Without a token bucket nobody sends to a host while a request that the  *)
(* host has told to slow down is in its pause, for any answers and waits.  *)
THEOREM SlowsDown == MaxRate = 0 => (Spec => HostSlowsDown)
<1> SUFFICES ASSUME MaxRate = 0 PROVE Spec => HostSlowsDown
  OBVIOUS
<1> DEFINE Obeyed == \A t \in Tasks : ~Sending(t) /\ Sending(t)' => ~Slowed(request'[t].host)
<1>1. ASSUME RequestInv, [Next]_vars PROVE Obeyed
  <2>1. RequestInv' /\ Starts
    BY <1>1, RequestNext DEF RequestStep
  <2> SUFFICES ASSUME NEW t \in Tasks, ~Sending(t), Sending(t)',
                      NEW u \in Tasks, request[u].host = request'[t].host,
                      request[u].phase = "pause", request[u].limited, request[u].wait > 0
               PROVE  FALSE
    BY DEF Slowed
  <2>2. /\ request[t].phase = "pause" => request[t].wait = 0
        /\ limiter'.states[task'[t].tokenOn].backoff = 0
        /\ \A v \in Tasks : v # t => request'[v] = request[v]
    BY <2>1 DEF Starts
  <2>3. request[u].wait \in Nat
    BY <1>1 DEF RequestInv, RequestRecord
  <2>4. u # t /\ request'[u] = request[u]
    BY <2>2, <2>3
  <2>5. /\ Standing(request'[u], task'[u]) /\ Covered(request'[u], task'[u], limiter')
        /\ Standing(request'[t], task'[t]) /\ Inv(limiter', task')
    BY <2>1 DEF RequestInv, LimiterInv
  <2>6. request'[t].phase = "attempt" /\ task'[t].token = "held"
    BY DEF Sending
  <2>7. /\ task'[u].slot = "held" /\ task'[u].key = request[u].host
        /\ limiter'.states[task'[u].slotOn].backoff >= request[u].wait
    BY <2>4, <2>5 DEF Standing, Covered
  <2>8. task'[t].key = request'[t].host
    BY <2>5, <2>6 DEF Standing
  <2>9. PICK i \in States : i = task'[u].slotOn
    BY <2>5, <2>7, BlockObject
  <2>10. PICK j \in States : j = task'[t].tokenOn
    BY <2>5, <2>6, BlockObject
  <2>11. limiter'.keys[request[u].host] = i
    BY <2>5, <2>7, <2>9, BlockObject
  <2>12. limiter'.keys[request'[t].host] = j
    BY <2>5, <2>8, <2>10, BlockObject
  <2>13. limiter'.states[i].backoff \in Nat
    BY <2>5 DEF Inv, Limiter, Object, Ticks
  <2> QED
    BY <2>2, <2>3, <2>7, <2>9, <2>10, <2>11, <2>12, <2>13
<1>2. Spec => [][Obeyed]_vars
  BY <1>1, RequestInvariant, PTL DEF Spec
<1> QED
  BY <1>2 DEF HostSlowsDown

(* A rate limiting answer leaves its host backed off, also when the attempt*)
(* was the last one, with which the slot is given up and idle keys may be  *)
(* evicted in the same step.                                               *)
THEOREM LimitHeard == LimitedMinWait > 0 => (Spec => RateLimitHeard)
<1> SUFFICES ASSUME LimitedMinWait > 0 PROVE Spec => RateLimitHeard
  OBVIOUS
<1> DEFINE Backed == \A t \in Tasks :
             Sending(t) /\ request'[t].phase \in {"pause", "failed"} /\ request'[t].limited
               => BackedOff(request[t].host)'
<1>1. ASSUME RequestInv, [Next]_vars PROVE Backed
  <2>1. Heard
    BY <1>1, RequestNext DEF RequestStep
  <2> QED
    BY <2>1 DEF Heard, Marked, BackedOff
<1>2. Spec => [][Backed]_vars
  BY <1>1, RequestInvariant, PTL DEF Spec
<1> QED
  BY <1>2 DEF RateLimitHeard
=============================================================================
