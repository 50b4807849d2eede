SPECIFICATION FairSpec
CONSTANTS
  Process = {1, 2, 3, 4, 5}
  First = 1
  Lines <- JobThenPipe
  MaxLines = 2
  MaxEofs = 0
  Pipe = {1, 2, 3, 4}
  OPEN_MAX = 16
PROPERTY PromptReturns
CHECK_DEADLOCK FALSE
