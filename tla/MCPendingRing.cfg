\* Five tasks over an initial capacity of two: two doublings and every wrap.
CONSTANTS
  Tasks = {t1, t2, t3, t4, t5}
  NoTask = NoTask
  InitialCap = 2
SPECIFICATION Spec
SYMMETRY Symmetry
INVARIANTS
  TailIsFree
PROPERTIES
  ImplementsList
