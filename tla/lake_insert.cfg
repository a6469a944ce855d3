SPECIFICATION WriteSpec
CONSTANTS
  x = x y = y a1 = a1 a2 = a2 d1 = d1 p1 = p1 w1 = w1 k1 = k1 v1 = v1 v2 = v2
  None = None
  Aliases = {x, y}
  Attachers = {a1}
  Detachers = {d1}
  Closers = {}
  RetryAttempts = 2
  RetryOnLock = {TRUE}
  SchemaGiven = {FALSE}
  AttachFailures = {}
  SchemaFailures = {}
  Writers = {w1}
  Keys = {k1}
  Values = {v1, v2}
  Modes = {"append", "insert_ignore", "upsert"}
  WriteFailures = {"transient", "permanent"}
  CommitOutcomes = {"committed", "rolledBack", "ambiguous"}
  OneShot = {FALSE}
  MaxCalls = 2
INVARIANTS OneRowPerStoredKey
PROPERTIES StoredOnce RepeatHarmless ImplementsWrites
SYMMETRY LakeSymmetry
