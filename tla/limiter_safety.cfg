SPECIFICATION FairLimiterSpec
CONSTANTS
  a = a b = b c = c k1 = k1 s1 = s1 s2 = s2
  None = None
  MaxConcurrent = 2
  MaxRate = 1
  Leak = 1
  MaxIdle = 2
  CleanupEvery = 2
  Durations = {1, 2}
  Tasks = {a, b, c}
  Keys = {k1}
  States = {s1, s2}
INVARIANTS OneStatePerKey SlotsConserved
PROPERTIES BackoffHonoured EveryoneServed
