\* Two tasks and three callers: two completion reports race a Cancel.
CONSTANTS
  Tasks = {t1, t2}
  Workers = {w1, w2, w3}
  NoTask = NoTask
  NoWorker = NoWorker
SPECIFICATION Spec
SYMMETRY Symmetry
INVARIANTS
  TypeOK
  OneOutcome
  SettledAgreement
  AlwaysFindable
  CountersSettle
PROPERTIES
  OutcomeFinal
  ImplementsLifecycle
\* Every task ends stopped or forgotten: nothing is left to do then.
CHECK_DEADLOCK FALSE
