CONSTANTS
  t1 = t1
  t2 = t2
  t3 = t3
  Turns = {t1, t2}
  Host = Host
  None = None
  MaxDirect = 2
  MaxBatch = 2
  MaxReflections = 2
  MaxRecords = 3
  MaxErasures = 1
SYMMETRY Symmetry
SPECIFICATION Spec
PROPERTIES RemovesTheDependents FrozenPrefixesSurvive NothingDangles
CHECK_DEADLOCK FALSE
