SPECIFICATION MCSpec
CONSTANTS
  r1 = r1
  r2 = r2
  host = host
  none = none
  nobody = nobody
  Host = host
  NoEvent = none
  NoRun = nobody
  Runs <- MCRuns
  Normal <- MCNormal
  Planned <- MCPlanned
  Batches <- MCBatches
  DirectEvents <- MCDirect
  Interpretations = {"i1"}
  Keys <- MCKeys
  PivotalKeys = {"b"}
  Occurrences <- MCOccurrences
INVARIANTS BatchDecidedWhole FrozenForGood ReflectionsComplete

