SPECIFICATION Spec
CONSTANTS
  h1 = h1 h2 = h2 d1 = d1 d2 = d2
  None = None
  Helpers = {h1, h2}
  Targets = {d1, d2}
  MaxCalls = 2
  MaxKills = 1
  MaxLosses = 1
INVARIANTS SomebodyLinks
PROPERTIES ResultIsTrue PlainNeverFails
SYMMETRY HelperSymmetry
CHECK_DEADLOCK FALSE
