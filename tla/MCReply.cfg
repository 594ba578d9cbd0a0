CONSTANTS
  h1 = h1
  h2 = h2
  Hosts <- TwoHosts
  Modes <- AllModes
  Worlds <- SomeWorlds
  Answers <- SomeAnswers
  Judgements <- SomeJudgements
  Inferences <- SomeInferences
  Deltas <- SomeDeltas
  Firsts <- OneFirst
  MaxCalls = 2
  MaxRivals = 2
  None = None
SPECIFICATION Spec
SYMMETRY Symmetry
CHECK_DEADLOCK FALSE
INVARIANTS FallbackIsRecorded RefusedOnlyStale CompletionIsEarned SingleFlight
PROPERTIES AfterTheEnd
