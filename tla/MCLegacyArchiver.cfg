CONSTANTS
  MaxTasks = 1
  MaxNodes = 2
  Loops = {l1}
  Hosts = {h1}
  Callers = {c1}
  MaxAttempts = 2
SPECIFICATION MCSpec
INVARIANTS ClaimIsHonoured
PROPERTIES Served ArchivedSurvives
