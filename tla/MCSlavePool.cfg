\* One slave, one restart of the master, two late rounds to be unhealthy.
CONSTANTS
  Slaves = {s1}
  Timeout = 1
  MaxFailures = 2
  MaxRestarts = 1
  Lists <- MCLists
  Counts <- MCCounts
  Weights <- MCWeights
  IDs <- MCIDs
  SlaveFilters <- MCSlaveFilters
SPECIFICATION Spec
INVARIANTS
  TypeOK
  ErrorHasCause
  SelectsSlaves
PROPERTIES
  DeadIsDropped
  PoolLearns
