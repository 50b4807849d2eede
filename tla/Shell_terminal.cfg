SPECIFICATION FairSpec
CONSTANTS
  Process = {1, 2, 3, 4, 5}
  First = 1
  Lines <- AllKinds
  MaxLines = 2
  MaxEofs = 2
  Pipe = {1, 2, 3, 4}
  OPEN_MAX = 16
INVARIANTS ShellTypeOK ForegroundWaited EndsInPlace
PROPERTY LineEnds
CHECK_DEADLOCK FALSE
