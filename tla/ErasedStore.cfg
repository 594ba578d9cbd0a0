CONSTANTS
  p1 = p1
  p2 = p2
  Processes = {p1, p2}
  Reviewers = {p1}
  Mortal = {p1}
  Files <- Documents
  Plans <- AllPlans
  Packs <- SomePacks
  Absent = Absent
  Free = Free
  Nothing = Nothing
  TurnIds = {"t1"}
  Texts = {"x", "y"}
  MaxCalls = 2
  MaxCrashes = 1
  MaxFaults = 1
  MaxRevisions = 2
  EraseInterrupted = TRUE
SPECIFICATION Spec
INVARIANTS ErasedIsGone
