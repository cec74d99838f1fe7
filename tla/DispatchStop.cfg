\* One start of one task on one slave, and a request to stop it.
CONSTANTS
  Tasks = {t1}
  Starts = {r1}
  Slaves = {s1}
  NoTask = NoTask
  NoStart = NoStart
  MaxFaults = 0
SPECIFICATION Spec
PROPERTIES
  StopIsEffective
\* When all requests are served nothing is left to do.
CHECK_DEADLOCK FALSE
