SPECIFICATION BasicFairSpec
CONSTANTS
  MAX_THREADS = 5
  AlarmPoints <- OutsideCreate
  PastTable <- Readable
  MaxCreated = 3
  MaxCalls = 3
  ClientLabels <- BasicLabels
  Creators = {0, 1, 2, 3}
  Exiters = {1, 2, 3}
INVARIANTS BasicTypeOK FreedStaysDown CountCovers WorkersAreThemselves
PROPERTY ReadyRuns
