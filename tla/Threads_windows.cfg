SPECIFICATION Spec
CONSTANTS
  MAX_THREADS = 4
  AlarmPoints <- AnyPoint
  PastTable <- Readable
  MaxCreated = 4
  MaxCalls = 3
  ClientLabels = {}
INVARIANTS TypeOK OnlyCurrRuns RunsAsItself ContextOwner FreedStaysDown CountBounded
PROPERTIES WorkersNotReplayed
