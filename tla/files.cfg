SPECIFICATION Spec
CONSTANTS
  p1 = p1 p2 = p2 v1 = v1 v2 = v2
  None = None
  Procs = {p1, p2}
  Versions = {v1, v2}
  Cautions = {"apart", "sameContent", "sourceThere"}
  MaxCalls = 3
INVARIANTS PublishedFrozen
PROPERTIES ImplementsPair NothingLost FailureHarmless
SYMMETRY FileSymmetry
CHECK_DEADLOCK FALSE
