SPECIFICATION Spec
CONSTANTS
  w1 = w1 w2 = w2
  Main = Main
  Sentinel = Sentinel
  Workers = {w1, w2}
  RegisterAtexit = {TRUE, FALSE}
  MaxRecords = 2
  PipeSize = 1
INVARIANTS ShutdownDrains
PROPERTIES ImplementsRecordLog ShutdownReturns ExitReturns
CHECK_DEADLOCK FALSE
