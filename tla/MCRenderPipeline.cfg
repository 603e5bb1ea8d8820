SPECIFICATION FairSpec
CONSTANTS
  Runners <- BothRunners
  MaxFrames = 3
  MaxWrites = 2
  Outcomes <- EveryOutcome
INVARIANTS
  WritesConserved
  NoWriteBeforeItsFrame
  NoRecycleUnlessTroubled
PROPERTIES
  EveryFrameRetires
  EveryWriteIsStoredUnlessTroubled
