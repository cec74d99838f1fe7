\* Two requests to start the same or different tasks on one slave, one fault.
CONSTANTS
  t1 = t1
  t2 = t2
  r1 = r1
  r2 = r2
  Tasks = {t1, t2}
  Starts = {r1, r2}
  Slaves = {s1}
  NoTask = NoTask
  NoStart = NoStart
  MaxFaults = 1
SPECIFICATION FairSpec
ACTION_CONSTRAINT InOrder
INVARIANTS
  TypeOK
  NoEarlyRun
  OutcomeHasCause
  NoWedge
PROPERTIES
  RunningEnds
\* When all requests are served nothing is left to do.
CHECK_DEADLOCK FALSE
