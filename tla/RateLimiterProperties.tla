----------------------- MODULE RateLimiterProperties -----------------------
(***************************************************************************)
(* What AsyncRateLimiter owes its callers.                                 *)
(***************************************************************************)
EXTENDS RateLimiter

Ticks == Nat
KeyState == [free : 0..MaxConcurrent, waiters : Seq(Tasks), level : 0..MaxRate,
             backoff : Ticks, active : Nat, age : 0..(MaxIdle + 1)]
TaskRecord ==
  [key : Keys \cup {None}, slot : {"none", "waiting", "held"}, slotOn : States \cup {None},
   token : {"none", "sleeping", "asking", "held"}, tokenOn : States \cup {None},
   sleep : Ticks]

(* The limiter, the tasks and the history keep their shape: a semaphore    *)
(* within its slots, a bucket within its rate, and a block refers to an    *)
(* object exactly while it is open.                                        *)
LimiterTypeOK ==
  /\ limiter \in [keys : [Keys -> States \cup {None}], states : [States -> KeyState],
                  ops : 0..(CleanupEvery - 1)]
  /\ task \in [Tasks -> TaskRecord]
  /\ signalled \in [Keys -> Ticks]
  /\ \A t \in Tasks : /\ (task[t].slot = "none") <=> (task[t].slotOn = None)
                      /\ (task[t].token = "none") <=> (task[t].tokenOn = None)
                      /\ (task[t].key = None) <=> (task[t] = Outside)

-----------------------------------------------------------------------------
SlotHolders(k) == {t \in Tasks : task[t].key = k /\ (task[t].slot = "held" \/ Granted(t))}

(* "Maximum concurrent operations (semaphore) per key": through evictions  *)
(* and new objects, no more tasks of one key are inside hold_slot() than   *)
(* max_concurrent.  It fails if a key's object is replaced under a task.   *)
SlotsBounded ==
  MaxConcurrent > 0 => \A k \in Keys : Cardinality(SlotHolders(k)) <= MaxConcurrent

(* Every open block works on the object that the dictionary has for its    *)
(* key, so all tasks of a key meet in one semaphore, one bucket and one    *)
(* backoff, and active_count is the number of blocks open on it.           *)
BlocksOn(i) == Cardinality({t \in Tasks : task[t].slotOn = i})
                 + Cardinality({t \in Tasks : task[t].tokenOn = i})
OneStatePerKey ==
  /\ LimiterTypeOK
  /\ \A t \in Tasks : {task[t].slotOn, task[t].tokenOn} \ {None}
                         \subseteq {limiter.keys[k] : k \in {task[t].key} \ {None}}
  /\ \A k \in Keys : limiter.keys[k] # None =>
       limiter.states[limiter.keys[k]].active = BlocksOn(limiter.keys[k])

(* No slot is lost: the free slots of a key's semaphore and its holders    *)
(* are max_concurrent together, and nobody waits while a slot is free.     *)
NoSlotLost ==
  MaxConcurrent > 0 =>
    \A k \in Keys : limiter.keys[k] # None =>
      LET s == limiter.states[limiter.keys[k]] IN
      /\ s.free + Cardinality(SlotHolders(k)) = MaxConcurrent
      /\ s.free > 0 => s.waiters = <<>>
SlotsConserved == SlotsBounded /\ NoSlotLost

Admitted(t) == task[t].token \in {"asking", "held"}

(* "Other tasks calling acquire_token() or acquire() for the same key will *)
(* sleep until the backoff expires": a task gets past the backoff of its   *)
(* key only when every backoff ever signalled for that key has run out,    *)
(* however they overlapped and even if the key was evicted in between.     *)
BackoffHonoured ==
  [][\A t \in Tasks : ~Admitted(t) /\ Admitted(t)' => signalled[task'[t].key] = 0]_limiterVars

(* A waiting task gets its slot, unless it is cancelled, once signals for  *)
(* new backoffs stop: no wake-up is lost and nobody is passed for ever.    *)
SlotsComeRound ==
  \A t \in Tasks : <>[](\A k \in Keys : signalled[k] = 0) =>
                     (task[t].slot = "waiting" ~> task[t].slot # "waiting")

(* A task that asks for a token in such times is let through.              *)
TokensComeRound ==
  \A t \in Tasks : <>[](\A k \in Keys : signalled[k] = 0) =>
    (task[t].token \in {"sleeping", "asking"} ~> task[t].token \notin {"sleeping", "asking"})

(* Everyone who waits is served.                                           *)
EveryoneServed == SlotsComeRound /\ TokensComeRound
=============================================================================
