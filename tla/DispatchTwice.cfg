\* Two requests to start one task on one slave.
CONSTANTS
  Tasks = {t1}
  Starts = {r1, r2}
  Slaves = {s1}
  NoTask = NoTask
  NoStart = NoStart
  MaxFaults = 0
SPECIFICATION Spec
PROPERTIES
  FailedMeansNoneRuns
\* When all requests are served nothing is left to do.
CHECK_DEADLOCK FALSE
