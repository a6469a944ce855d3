SPECIFICATION Spec
CONSTANTS
  t1 = t1 t2 = t2 r1 = r1 r2 = r2 r3 = r3 c1 = c1 c2 = c2 w1 = w1 w2 = w2
  Timer = Timer
  NoTask = NoTask
  Tables = {t1}
  Rows = {r1, r2, r3}
  Batches <- SingleRows
  Poison = {r3}
  Callers = {c1}
  Workers = {w1}
  RowThresholds = {2}
  TimeThresholds = {0, 1}
  Outcomes = {"ok", "rejected", "ambiguous"}
  Calls = {"add", "timedFlush"}
  MaxTime = 2
  MaxStored = 3
INVARIANTS RowsKeptInOrder
PROPERTIES LastFlushMonotone
CHECK_DEADLOCK FALSE
