\* Two idle slaves, a worker for each.
CONSTANTS
  Pool <- MCPool
  WorkersPerSlave = 1
  MinSlaveCount = 1
SPECIFICATION Spec
INVARIANT EachRunsItsPart
\* Once every part runs nothing is left to do.
CHECK_DEADLOCK FALSE
