SPECIFICATION SemSpec
CONSTANTS
  MAX_THREADS = 4
  AlarmPoints <- ProgramPoints
  PastTable <- Readable
  MaxCreated = 2
  MaxCalls = 2
  ClientLabels <- SemLabels
  InitialValue = 1
  Users = {1, 2}
PROPERTY WokenProceeds
