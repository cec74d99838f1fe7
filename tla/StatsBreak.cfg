\* Two tasks, three results, one break: how many sends fail for it?
\* The slave stops when its tasks are done.
CONSTANTS
  NumTasks = 2
  MaxResults = 3
  MaxSize = 2
  MaxAsync = 1
  ChannelSize = 1
  MaxBreaks = 1
SPECIFICATION Spec
INVARIANT SendsRecover
CHECK_DEADLOCK FALSE
