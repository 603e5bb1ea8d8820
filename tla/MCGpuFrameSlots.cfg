SPECIFICATION FairSpec
CONSTANTS
  Capacity = 2
  MaxFrames = 4
  Outcomes <- EveryOutcome
INVARIANTS
  GpuReadsOnlyOwnedSlots
  DrainMeansDelivered
PROPERTIES
  ImplementsDelivery
  EveryFrameDeliversUnlessOverslept
  ReleaseReturns
