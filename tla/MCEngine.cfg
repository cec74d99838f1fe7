\* Two workers, two passes of two requests, every moment of a pause, stop or cancellation.
CONSTANTS
  NumWorkers = 2
  ReqCount = 2
  ChainLength = 2
  CommandLines <- MCCommandLines
  Files <- MCFiles
  Commands <- MCCommands
SPECIFICATION Spec
INVARIANTS
  TypeOK
  PauseHolds
  CancelBounds
  OutcomeExplained
  ConfigResolves
PROPERTIES
  RunEnds
\* A run that ended, or that waits for Ctrl+C, goes no further.
CHECK_DEADLOCK FALSE
