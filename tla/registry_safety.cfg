SPECIFICATION FairSpec
CONSTANTS
  x = x a1 = a1 a2 = a2 d1 = d1 p1 = p1
  None = None
  Aliases = {x}
  Attachers = {a1, a2}
  Detachers = {d1}
  Closers = {p1}
  RetryAttempts = 2
  RetryOnLock = {TRUE, FALSE}
  SchemaGiven = {TRUE, FALSE}
  AttachFailures = {"transient", "permanent"}
  SchemaFailures = {"transient", "permanent"}
INVARIANTS RegistryAgrees
PROPERTIES AttachMeansAttached CallsReturn
