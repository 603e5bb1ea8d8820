SPECIFICATION Spec
CONSTANTS
  Runners <- BothRunners
  MaxFrames = 2
  MaxWrites = 1
  Outcomes <- SomeFail
INVARIANTS
  NoRecycleWhileRead
