CONSTANTS
  Scenarios <- SomeScenarios
  None = None
SPECIFICATION Spec
INVARIANTS DeliveryIsWhole TiersAreRespected BudgetIsExact
