SPECIFICATION Spec
CONSTANTS
  n1 = n1 t1 = t1 t2 = t2 k1 = k1 k2 = k2 v1 = v1 v2 = v2
  Writers = {t1, t2}
  Tables = {n1}
  Keys = {k1, k2}
  Values = {v1, v2}
  Modes = {"append", "insert_ignore", "upsert"}
  CommitOutcomes = {"committed", "rolledBack", "ambiguous"}
  MaxCalls = 2
PROPERTIES ImplementsWrites ReturnMeansStored
SYMMETRY DbSymmetry
CHECK_DEADLOCK FALSE
