SPECIFICATION FairSpec
CONSTANTS
  a = a b = b c = c k1 = k1 s1 = s1 s2 = s2
  None = None
  MaxConcurrent = 2
  MaxRate = 0
  Leak = 0
  MaxIdle = 1
  CleanupEvery = 2
  Durations = {}
  Tasks = {a, b, c}
  Keys = {k1}
  States = {s1, s2}
  MaxAttempts = 2
  RetryAfters = {0, 3}
  MaxRetryAfter = 2
  LimitedMinWait = 1
  LimitedWaits = {1, 2}
  ErrorWaits = {1}
INVARIANTS InProgressBounded ResponsesReleased
PROPERTIES HostSlowsDown RateLimitHeard RequestEnds
