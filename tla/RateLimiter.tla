---------------------------- MODULE RateLimiter ----------------------------
(***************************************************************************)
(* tmautils.core.AsyncRateLimiter and the asyncio tasks that use it, in    *)
(* any well-formed way: a hold_slot() block, an acquire_token() block, or  *)
(* tokens inside a slot, which is acquire() and the retry loop of          *)
(* request_with_retry().                                                   *)
(*                                                                         *)
(* Tasks share one event loop, so a step is what a task does from one      *)
(* await to the next.  The limiter is one record; what a method does to it *)
(* is an operator from records to records, and an action composes those of *)
(* the calls that run before the next await.                               *)
(*                                                                         *)
(* Every time is kept relative to the present: a deadline as the ticks     *)
(* left, a time stamp as the ticks passed, so that the clock needs no      *)
(* bound.  An age stops counting just above MaxIdle, where no condition    *)
(* can tell more.                                                          *)
(*                                                                         *)
(* A definition named X_Fault is X with a fault put in: it is used only to *)
(* see that a property of X would notice.                                  *)
(***************************************************************************)
EXTENDS Naturals, Sequences, FiniteSets, Functions, SequencesExt

CONSTANTS
  Keys,           \* the keys that callers pass, _DEFAULT_KEY among them
  Tasks,          \* asyncio tasks
  States,         \* addresses of _KeyState objects
  None,           \* no object, no key
  MaxConcurrent,  \* max_concurrent, 0 for None: "if self._max_concurrent"
  MaxRate,        \* max_rate, 0 for None
  Leak,           \* tokens that AsyncLimiter gives back in one tick
  MaxIdle,        \* max_idle_seconds
  CleanupEvery,   \* _CLEANUP_EVERY_OPS
  Durations       \* what signal_backoff() is called with

ASSUME LimiterAssumption ==
  /\ IsFiniteSet(Keys) /\ IsFiniteSet(Tasks) /\ IsFiniteSet(States)
  /\ None \notin Keys \cup States
  /\ {MaxConcurrent, MaxRate, Leak, MaxIdle} \subseteq Nat
  /\ CleanupEvery \in Nat \ {0}
  /\ Durations \subseteq Nat

VARIABLES
  limiter,   \* the AsyncRateLimiter
  task,      \* where each task stands in its blocks
  signalled  \* history: ticks left of the longest backoff signalled for a key

limiterVars == <<limiter, task, signalled>>

(* A _KeyState: asyncio.Semaphore as free slots and waiters in order,      *)
(* AsyncLimiter as the level of its bucket, then backoff_until,            *)
(* active_count and last_access.                                           *)
NewState == [free |-> MaxConcurrent, waiters |-> <<>>, level |-> 0,
             backoff |-> 0, active |-> 0, age |-> 0]

(* A task outside of every block.                                          *)
Outside == [key |-> None, slot |-> "none", slotOn |-> None,
            token |-> "none", tokenOn |-> None, sleep |-> 0]

LimiterInit ==
  /\ limiter = [keys   |-> [k \in Keys |-> None],
                states |-> [i \in States |-> NewState],
                ops    |-> 0]
  /\ task = [t \in Tasks |-> Outside]
  /\ signalled = [k \in Keys |-> 0]

Less(a, b) == IF a > b THEN a - b ELSE 0
Larger(a, b) == IF a > b THEN a ELSE b

-----------------------------------------------------------------------------
(* The synchronous parts of the methods.                                   *)

(* An address at which neither the dictionary nor a block has an object.   *)
Unused(l) == {i \in States : /\ \A k \in Keys : l.keys[k] # i
                             /\ \A t \in Tasks : i \notin {task[t].slotOn, task[t].tokenOn}}

(* _get_key_state(key), and the address of what it returns.                *)
Address(l, k) == IF l.keys[k] # None THEN l.keys[k] ELSE CHOOSE i \in Unused(l) : TRUE
CanLookUp(l, k) == l.keys[k] # None \/ Unused(l) # {}
GetKeyState(l, k) ==
  LET i == Address(l, k)
      s == IF l.keys[k] # None THEN l.states[i] ELSE NewState
  IN  [l EXCEPT !.keys[k] = i, !.states[i] = [s EXCEPT !.age = 0]]

SignalBackoff(l, k, d) ==
  IF d = 0 THEN l
  ELSE [GetKeyState(l, k) EXCEPT !.states[Address(l, k)].backoff = Larger(@, d)]

(* The history that goes with it.                                          *)
Signalled(h, k, d) == [h EXCEPT ![k] = Larger(@, d)]

(* state = _get_key_state(key); state.active_count += 1                    *)
EnterBlock_Uncounted(l, k) == GetKeyState(l, k)
EnterBlock(l, k) == [GetKeyState(l, k) EXCEPT !.states[Address(l, k)].active = @ + 1]

(* cleanup()                                                               *)
Idle_IfOld(s) == s.age > MaxIdle
Idle(s) == s.active = 0 /\ s.age > MaxIdle
CleanUp(l) ==
  LET evicted == {k \in Keys : l.keys[k] # None /\ Idle(l.states[l.keys[k]])}
      freed   == {l.keys[k] : k \in evicted}
      used    == {i \in States : \E t \in Tasks : i \in {task[t].slotOn, task[t].tokenOn}}
  IN  [l EXCEPT !.keys = [k \in Keys |-> IF k \in evicted THEN None ELSE @[k]],
                !.states = [i \in States |-> IF i \in freed \ used THEN NewState ELSE @[i]]]

(* The finally of both blocks: active_count -= 1; _maybe_cleanup()         *)
LeaveBlock(l, i) ==
  LET left == [l EXCEPT !.states[i].active = Less(@, 1)]
  IN  IF l.ops + 1 >= CleanupEvery THEN CleanUp([left EXCEPT !.ops = 0])
                                   ELSE [left EXCEPT !.ops = @ + 1]

(* asyncio.Semaphore: slots go to the waiters in the order they came; a    *)
(* slot that is released goes to the first of them before it runs.         *)
SlotFree(s) == MaxConcurrent = 0 \/ (s.free > 0 /\ s.waiters = <<>>)
AcquireSlot(s, t) ==
  IF MaxConcurrent = 0 THEN s
  ELSE IF SlotFree(s) THEN [s EXCEPT !.free = @ - 1]
  ELSE [s EXCEPT !.waiters = Append(@, t)]
ReleaseSlot(s) ==
  IF MaxConcurrent = 0 THEN s
  ELSE IF s.waiters = <<>> THEN [s EXCEPT !.free = @ + 1]
  ELSE [s EXCEPT !.waiters = Tail(@)]
Granted(t) == /\ task[t].slot = "waiting"
              /\ ~Contains(limiter.states[task[t].slotOn].waiters, t)

(* aiolimiter.AsyncLimiter: a token is there when the bucket has room.     *)
TokenFree(s) == MaxRate = 0 \/ s.level < MaxRate
TakeToken(s) == IF MaxRate = 0 THEN s ELSE [s EXCEPT !.level = @ + 1]

-----------------------------------------------------------------------------
(* hold_slot(key): up to the wait for the semaphore.                       *)
EnterSlot(t, k) ==
  /\ task[t] = Outside
  /\ CanLookUp(limiter, k)
  /\ LET i == Address(limiter, k)
         l == EnterBlock(limiter, k)
     IN  /\ limiter' = [l EXCEPT !.states[i] = AcquireSlot(@, t)]
         /\ task' = [task EXCEPT ![t].key = k, ![t].slotOn = i,
                       ![t].slot = IF SlotFree(l.states[i]) THEN "held" ELSE "waiting"]
  /\ UNCHANGED signalled

(* The waiter that was given a slot runs.                                  *)
GetSlot(t) ==
  /\ Granted(t)
  /\ task' = [task EXCEPT ![t].slot = "held"]
  /\ UNCHANGED <<limiter, signalled>>

(* The end of a hold_slot() block, whether its body returned or raised.    *)
SlotLeft_Kept(l, t) == LeaveBlock(l, task[t].slotOn)
SlotLeft(l, t) ==
  LeaveBlock([l EXCEPT !.states[task[t].slotOn] = ReleaseSlot(@)], task[t].slotOn)
ExitSlot(t) ==
  /\ task[t].slot = "held" /\ task[t].token = "none"
  /\ limiter' = SlotLeft(limiter, t)
  /\ task' = [task EXCEPT ![t] = Outside]
  /\ UNCHANGED signalled

(* A task is cancelled while it waits for a slot; a slot that it had been  *)
(* given already goes to the next one.                                     *)
SlotAbandoned(l, t) ==
  IF Granted(t) THEN SlotLeft(l, t)
  ELSE LeaveBlock([l EXCEPT !.states[task[t].slotOn].waiters = RemoveFirst(@, t)],
                  task[t].slotOn)
CancelSlot(t) ==
  /\ task[t].slot = "waiting"
  /\ limiter' = SlotAbandoned(limiter, t)
  /\ task' = [task EXCEPT ![t] = Outside]
  /\ UNCHANGED signalled

-----------------------------------------------------------------------------
(* acquire_token() after its loop: r is the task's record by then.  A      *)
(* token that is there is taken without an await.                          *)
AskForToken(l, t, r) ==
  LET s == l.states[r.tokenOn] IN
  \/ /\ TokenFree(s)
     /\ limiter' = [l EXCEPT !.states[r.tokenOn] = TakeToken(s)]
     /\ task' = [task EXCEPT ![t] = [r EXCEPT !.token = "held"]]
  \/ /\ ~TokenFree(s)
     /\ limiter' = l
     /\ task' = [task EXCEPT ![t] = [r EXCEPT !.token = "asking"]]

(* One round of its loop: sleep for the rest of the backoff, or go on.     *)
LookAtBackoff(l, t, r) ==
  LET s == l.states[r.tokenOn] IN
  \/ /\ s.backoff > 0
     /\ limiter' = l
     /\ task' = [task EXCEPT ![t] = [r EXCEPT !.token = "sleeping", !.sleep = s.backoff]]
  \/ /\ s.backoff = 0
     /\ AskForToken(l, t, r)

(* acquire_token(key); inside a hold_slot() block, with that block's key.  *)
EnterToken(t, k) ==
  /\ task[t].token = "none"
  /\ task[t] = Outside \/ (task[t].slot = "held" /\ task[t].key = k)
  /\ CanLookUp(limiter, k)
  /\ LookAtBackoff(EnterBlock(limiter, k), t,
                   [task[t] EXCEPT !.key = k, !.tokenOn = Address(limiter, k)])
  /\ UNCHANGED signalled

(* asyncio.sleep(remaining) is over: look again.                           *)
WakeUp_NoRecheck(t) ==
  /\ task[t].token = "sleeping" /\ task[t].sleep = 0
  /\ AskForToken(limiter, t, task[t])
  /\ UNCHANGED signalled
WakeUp(t) ==
  /\ task[t].token = "sleeping" /\ task[t].sleep = 0
  /\ LookAtBackoff(limiter, t, task[t])
  /\ UNCHANGED signalled

(* AsyncLimiter lets a waiting task through.                               *)
GetToken(t) ==
  /\ task[t].token = "asking"
  /\ TokenFree(limiter.states[task[t].tokenOn])
  /\ AskForToken(limiter, t, task[t])
  /\ UNCHANGED signalled

(* The end of an acquire_token() block: the body returned or raised, or    *)
(* the task was cancelled in one of the two waits.                         *)
TokenLeft(l, t) == LeaveBlock(l, task[t].tokenOn)
OutOfToken(r) ==
  IF r.slot = "none" THEN Outside
  ELSE [r EXCEPT !.token = "none", !.tokenOn = None, !.sleep = 0]
LeaveToken(t) ==
  /\ limiter' = TokenLeft(limiter, t)
  /\ task' = [task EXCEPT ![t] = OutOfToken(@)]
  /\ UNCHANGED signalled
ExitToken(t) == task[t].token = "held" /\ LeaveToken(t)
CancelToken(t) == task[t].token \in {"sleeping", "asking"} /\ LeaveToken(t)

-----------------------------------------------------------------------------
(* signal_backoff(key, duration), called by any task.                      *)
Signal(k, d) ==
  /\ CanLookUp(limiter, k)
  /\ limiter' = SignalBackoff(limiter, k, d)
  /\ signalled' = Signalled(signalled, k, d)
  /\ UNCHANGED task

(* cleanup(), called from outside.                                         *)
Cleanup == limiter' = CleanUp(limiter) /\ UNCHANGED <<task, signalled>>

(* Time passes.  An object that nothing refers to any more is garbage.     *)
Older_OtherClock(s) == [s EXCEPT !.level = Less(@, Leak),
                                 !.age = IF @ > MaxIdle THEN @ ELSE @ + 1]
Older(s) == [s EXCEPT !.backoff = Less(@, 1), !.level = Less(@, Leak),
                      !.age = IF @ > MaxIdle THEN @ ELSE @ + 1]
Tick ==
  /\ limiter' = [limiter EXCEPT !.states =
       [i \in States |-> IF i \in Unused(limiter) THEN @[i] ELSE Older(@[i])]]
  /\ task' = [t \in Tasks |-> [task[t] EXCEPT !.sleep = Less(@, 1)]]
  /\ signalled' = [k \in Keys |-> Less(signalled[k], 1)]

TaskStep(t) ==
  \/ \E k \in Keys : EnterSlot(t, k)
  \/ GetSlot(t)
  \/ ExitSlot(t)
  \/ CancelSlot(t)
  \/ \E k \in Keys : EnterToken(t, k)
  \/ WakeUp(t)
  \/ GetToken(t)
  \/ ExitToken(t)
  \/ CancelToken(t)

LimiterNext ==
  \/ \E t \in Tasks : TaskStep(t)
  \/ \E k \in Keys, d \in Durations : Signal(k, d)
  \/ Cleanup
  \/ Tick

LimiterSpec == LimiterInit /\ [][LimiterNext]_limiterVars

(* The event loop runs every task that can go on, time passes, and the     *)
(* bodies of the blocks end: SF because a retry loop inside a slot takes   *)
(* only finitely many tokens.  Nobody has to cancel, signal or clean up.   *)
LimiterFairness ==
  /\ WF_limiterVars(Tick)
  /\ \A t \in Tasks : /\ WF_limiterVars(GetSlot(t) \/ WakeUp(t))
                      /\ SF_limiterVars(GetToken(t))
                      /\ WF_limiterVars(ExitToken(t))
                      /\ SF_limiterVars(ExitSlot(t))
FairLimiterSpec == LimiterSpec /\ LimiterFairness
=============================================================================
