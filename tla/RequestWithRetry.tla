-------------------------- MODULE RequestWithRetry --------------------------
(***************************************************************************)
(* tmautils.core.http.request_with_retry() on top of RateLimiter: requests *)
(* to a few hosts that share one limiter.  Each task makes one request.    *)
(*                                                                         *)
(* Between the answer to session.request() and the next await the code     *)
(* releases the response, signals a backoff, leaves acquire_token(), lets  *)
(* tenacity decide, signals again in before_sleep, and may leave           *)
(* hold_slot(): one step, composed here of the operators of RateLimiter.   *)
(***************************************************************************)
EXTENDS RateLimiter

CONSTANTS
  MaxAttempts,    \* max_attempts
  RetryAfters,    \* Retry-After headers in ticks, after _parse_retry_after
  MaxRetryAfter,  \* max_retry_after
  LimitedMinWait, \* rate_limited_min_wait
  LimitedWaits,   \* what the wait strategy for a rate limited answer draws
  ErrorWaits      \* what the wait strategy for other errors draws

ASSUME RequestAssumption ==
  /\ MaxAttempts \in Nat \ {0}
  /\ RetryAfters \cup LimitedWaits \cup ErrorWaits \subseteq Nat
  /\ None \notin RetryAfters
  /\ MaxRetryAfter \in Nat /\ LimitedMinWait \in Nat
  /\ \A w \in LimitedWaits : w >= LimitedMinWait

VARIABLE request  \* the local variables of each request_with_retry()

vars == <<limiterVars, request>>

(* limited: a pause or the end follows a rate limiting answer.  unreleased *)
(* counts the responses received and not yet given back to the session.    *)
NotStarted == [phase |-> "new", host |-> None, attempt |-> 0, wait |-> 0,
               limited |-> FALSE, unreleased |-> 0]

Init == LimiterInit /\ request = [t \in Tasks |-> NotStarted]

Host(t) == request[t].host
Smaller(a, b) == IF a < b THEN a ELSE b
Received(r) == [r EXCEPT !.unreleased = @ + 1]
Released_Not(r) == r
Released(r) == [r EXCEPT !.unreleased = Less(@, 1)]

-----------------------------------------------------------------------------
(* Up to the semaphore: async with hold_slot().                            *)
Start(t, k) ==
  /\ request[t].phase = "new"
  /\ EnterSlot(t, k)
  /\ request' = [request EXCEPT ![t].phase = "slot", ![t].host = k]

(* An attempt of the retry loop, up to its rate token; once the token is   *)
(* held the request is being sent.                                         *)
Attempt(t) ==
  /\ \/ request[t].phase = "slot" /\ task[t].slot = "held"
     \/ request[t].phase = "pause" /\ request[t].wait = 0
  /\ EnterToken(t, Host(t))
  /\ request' = [request EXCEPT ![t].phase = "attempt", ![t].attempt = @ + 1,
                                  ![t].limited = FALSE]

Sending(t) == request[t].phase = "attempt" /\ task[t].token = "held"

(* "break": the token and then the slot are given up before the response   *)
(* is yielded to the caller.                                               *)
Succeed(t) ==
  /\ Sending(t)
  /\ limiter' = SlotLeft(TokenLeft(limiter, t), t)
  /\ task' = [task EXCEPT ![t] = Outside]
  /\ request' = [request EXCEPT ![t] = Received([@ EXCEPT !.phase = "open"])]
  /\ UNCHANGED signalled

(* The retry wait of _WaitRetryAfterOrRandomExp; None is no Retry-After.   *)
Pauses(limited, retryAfter) ==
  IF retryAfter # None THEN {retryAfter}
  ELSE IF limited THEN LimitedWaits ELSE ErrorWaits

(* The before_sleep callback of tenacity.                                  *)
BeforeSleep_Silent(l, k, limited, wait) == l
BeforeSleep(l, k, limited, wait) == IF limited THEN SignalBackoff(l, k, wait) ELSE l

(* The attempt has raised, with the limiter left at l and the history at   *)
(* h: the last one leaves the slot, any other pauses in it.                *)
GiveUp(t, l, h, r) ==
  /\ request[t].attempt = MaxAttempts
  /\ limiter' = SlotLeft(TokenLeft(l, t), t)
  /\ task' = [task EXCEPT ![t] = Outside]
  /\ signalled' = h
  /\ request' = [request EXCEPT ![t] = [r EXCEPT !.phase = "failed"]]

Pause_WithoutSlot(t, l, h, r, retryAfter) ==
  /\ request[t].attempt < MaxAttempts
  /\ \E w \in Pauses(r.limited, retryAfter) :
       /\ limiter' = BeforeSleep(SlotLeft(TokenLeft(l, t), t), r.host, r.limited, w)
       /\ task' = [task EXCEPT ![t] = Outside]
       /\ signalled' = IF r.limited THEN Signalled(h, r.host, w) ELSE h
       /\ request' = [request EXCEPT ![t] = [r EXCEPT !.phase = "pause", !.wait = w]]
Pause(t, l, h, r, retryAfter) ==
  /\ request[t].attempt < MaxAttempts
  /\ \E w \in Pauses(r.limited, retryAfter) :
       /\ limiter' = BeforeSleep(TokenLeft(l, t), r.host, r.limited, w)
       /\ task' = [task EXCEPT ![t] = OutOfToken(@)]
       /\ signalled' = IF r.limited THEN Signalled(h, r.host, w) ELSE h
       /\ request' = [request EXCEPT ![t] = [r EXCEPT !.phase = "pause", !.wait = w]]

Raise(t, l, h, r, retryAfter) ==
  \/ GiveUp(t, l, h, r)
  \/ Pause(t, l, h, r, retryAfter)

(* eff_retry_after; None also stands for respect_retry_after = False.      *)
EffectiveRetryAfters == {None} \cup {Smaller(d, MaxRetryAfter) : d \in RetryAfters}

(* eff_retry_after or cfg.rate_limited_min_wait: 0.0 is false.             *)
BackoffDuration(d) == IF d \in {None, 0} THEN LimitedMinWait ELSE d

(* A rate limiting status.                                                 *)
RateLimited_SignalsLater(t) ==
  /\ Sending(t)
  /\ LET r == Released(Received([request[t] EXCEPT !.limited = TRUE]))
     IN  \E d \in EffectiveRetryAfters : Raise(t, limiter, signalled, r, d)
RateLimited(t) ==
  /\ Sending(t)
  /\ LET r == Released(Received([request[t] EXCEPT !.limited = TRUE]))
     IN  \E d \in EffectiveRetryAfters :
           Raise(t, SignalBackoff(limiter, r.host, BackoffDuration(d)),
                 Signalled(signalled, r.host, BackoffDuration(d)), r, d)

(* A retryable error status.                                               *)
ServerError(t) ==
  /\ Sending(t)
  /\ LET r == Released(Received(request[t]))
     IN  \E d \in EffectiveRetryAfters : Raise(t, limiter, signalled, r, d)

(* aiohttp.ClientError, or the timeout of the attempt: no response.        *)
ConnectionFails(t) ==
  /\ Sending(t)
  /\ Raise(t, limiter, signalled, request[t], None)

(* The task is cancelled at the await where it stands.                     *)
Cancel(t) ==
  /\ \/ /\ request[t].phase = "slot" /\ task[t].slot = "waiting"
        /\ limiter' = SlotAbandoned(limiter, t)
     \/ /\ request[t].phase = "attempt"
        /\ limiter' = SlotLeft(TokenLeft(limiter, t), t)
     \/ /\ request[t].phase = "pause"
        /\ limiter' = SlotLeft(limiter, t)
  /\ task' = [task EXCEPT ![t] = Outside]
  /\ request' = [request EXCEPT ![t].phase = "failed", ![t].wait = 0]
  /\ UNCHANGED signalled

(* The caller leaves the async with block, returning or raising.           *)
Close(t) ==
  /\ request[t].phase = "open"
  /\ request' = [request EXCEPT ![t] = Released([@ EXCEPT !.phase = "done"])]
  /\ UNCHANGED limiterVars

Waits(t) == (GetSlot(t) \/ WakeUp(t) \/ GetToken(t)) /\ UNCHANGED request
Answer(t) == Succeed(t) \/ RateLimited(t) \/ ServerError(t) \/ ConnectionFails(t)

Time ==
  /\ Tick
  /\ request' = [t \in Tasks |-> [request[t] EXCEPT !.wait = Less(@, 1)]]

Next ==
  \/ \E t \in Tasks : \/ \E k \in Keys : Start(t, k)
                      \/ Attempt(t)
                      \/ Waits(t)
                      \/ Answer(t)
                      \/ Cancel(t)
                      \/ Close(t)
  \/ Cleanup /\ UNCHANGED request
  \/ Time

Spec == Init /\ [][Next]_vars

(* The event loop runs what can run, time passes, the timeout of an        *)
(* attempt sees to an answer, and callers close their responses.           *)
Fairness ==
  /\ WF_vars(Time)
  /\ \A t \in Tasks : /\ WF_vars(Attempt(t))
                      /\ WF_vars((GetSlot(t) \/ WakeUp(t)) /\ UNCHANGED request)
                      /\ SF_vars(GetToken(t) /\ UNCHANGED request)
                      /\ WF_vars(Answer(t))
                      /\ WF_vars(Close(t))
FairSpec == Spec /\ Fairness
=============================================================================
