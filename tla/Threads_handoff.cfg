SPECIFICATION FairSpec
CONSTANTS
  MAX_THREADS = 4
  AlarmPoints <- OutsideHandOff
  PastTable <- Readable
  MaxCreated = 2
  MaxCalls = 3
  ClientLabels = {}
INVARIANTS CountExact JoinGetsValue
PROPERTIES KeepsPromise ReadyRuns JoinEnds
