SPECIFICATION FairSpec
CONSTANTS
  t1 = t1 t2 = t2 r1 = r1 r2 = r2 r3 = r3 c1 = c1 c2 = c2 w1 = w1 w2 = w2
  Timer = Timer
  NoTask = NoTask
  Tables = {t1}
  Rows = {r1, r2}
  Batches <- TwoRows
  Poison = {}
  Callers = {c1, c2}
  Workers = {w1}
  RowThresholds = {2}
  TimeThresholds = {0}
  Outcomes = {"ok", "rejected"}
  Calls = {"add", "flush", "close"}
  MaxTime = 0
  MaxStored = 0
PROPERTIES EveryRowStored FlushReturns CloseAlwaysReturns
CHECK_DEADLOCK FALSE
