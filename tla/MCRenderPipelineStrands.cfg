SPECIFICATION FairSpec
CONSTANTS
  Runners <- BothRunners
  MaxFrames = 2
  MaxWrites = 1
  Outcomes <- SomeFail
PROPERTIES
  EveryWriteIsStored
