--------------------- MODULE RequestWithRetryProperties ---------------------
(***************************************************************************)
(* What concurrent requests through one limiter owe their hosts and their  *)
(* callers.                                                                *)
(***************************************************************************)
EXTENDS RequestWithRetry

Phases == {"new", "slot", "attempt", "pause", "open", "done", "failed"}

(* A request between its slot and its end is where its task is in the      *)
(* limiter's blocks: the slot spans attempts and pauses, a token only an   *)
(* attempt, and neither outlives the retry loop.                           *)
RequestTypeOK ==
  /\ request \in [Tasks -> [phase : Phases, host : Keys \cup {None},
                            attempt : 0..MaxAttempts, wait : Nat,
                            limited : BOOLEAN, unreleased : Nat]]
  /\ \A t \in Tasks :
       /\ request[t].phase \in {"attempt", "pause"} => task[t].slot = "held"
       /\ request[t].phase = "attempt" <=> task[t].token # "none"
       /\ request[t].phase \in {"new", "open", "done", "failed"} => task[t] = Outside

(* "A semaphore slot is held across all retry attempts": requests of one   *)
(* host that are between their first attempt and their last, pauses        *)
(* included, are no more than max_concurrent, and a request is where its   *)
(* task is (RequestTypeOK).                                                *)
InProgress(k) == {t \in Tasks : request[t].host = k /\ request[t].phase \in {"attempt", "pause"}}
InProgressBounded ==
  /\ RequestTypeOK
  /\ MaxConcurrent > 0 => \A k \in Keys : Cardinality(InProgress(k)) <= MaxConcurrent

(* When one request has been told to slow down, no request to that host is *)
(* sent before its pause is over.  It is claimed without a token bucket: a *)
(* task that waits for a token has the look at the backoff behind it.      *)
Slowed(k) == \E t \in Tasks : /\ request[t].host = k /\ request[t].phase = "pause"
                              /\ request[t].limited /\ request[t].wait > 0
HostSlowsDown ==
  [][\A t \in Tasks : ~Sending(t) /\ Sending(t)' => ~Slowed(request'[t].host)]_vars

(* A rate limiting answer leaves its host backed off, also when it was the *)
(* last attempt, with which the slot is given up and idle keys may be      *)
(* evicted in the same step.                                               *)
BackedOff(k) == limiter.keys[k] # None /\ limiter.states[limiter.keys[k]].backoff > 0
RateLimitHeard ==
  [][\A t \in Tasks :
       Sending(t) /\ request'[t].phase \in {"pause", "failed"} /\ request'[t].limited
         => BackedOff(request[t].host)']_vars

(* A response is released once, on every path: only the caller's block     *)
(* has one that is not.                                                    *)
ResponsesReleased ==
  \A t \in Tasks : request[t].unreleased = IF request[t].phase = "open" THEN 1 ELSE 0

(* Every request ends, whatever the servers answer to it and to the others *)
(* and however long backoffs are extended meanwhile.                       *)
RequestEnds ==
  \A t \in Tasks : request[t].phase # "new" ~> request[t].phase \in {"done", "failed"}
=============================================================================
