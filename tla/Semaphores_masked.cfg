SPECIFICATION SemSpec
CONSTANTS
  MAX_THREADS = 4
  AlarmPoints <- ProgramPoints
  PastTable <- Readable
  MaxCreated = 3
  MaxCalls = 2
  ClientLabels <- SemLabels
  InitialValue = 2
  Users = {1, 2, 3}
INVARIANTS SemTypeOK UnitsBounded NoIdleValue
