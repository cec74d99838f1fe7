\* Two tasks that share two results, a buffer of two, one break of the
\* connection.  The slave stops when its tasks are done.
CONSTANTS
  NumTasks = 2
  MaxResults = 2
  MaxSize = 2
  MaxAsync = 1
  ChannelSize = 1
  MaxBreaks = 1
SPECIFICATION Spec
INVARIANTS
  TypeOK
  Accounted
  OwnOrLater
  LossHasCause
PROPERTIES
  EverythingCounted
CHECK_DEADLOCK FALSE
