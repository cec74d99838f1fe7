\* Two workers, a channel of one result, batches of two, one write that may fail.
CONSTANTS
  NumWorkers = 2
  MaxResults = 3
  ChannelSize = 1
  BatchSize = 2
  MaxFailures = 1
SPECIFICATION Spec
INVARIANTS
  TypeOK
  Accounted
  FiguresSettle
PROPERTIES
  CloseReturns
\* A run that is over, saved or not, goes no further.
CHECK_DEADLOCK FALSE
