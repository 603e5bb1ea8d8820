SPECIFICATION FairSpec
CONSTANTS
  Capacity = 2
  MaxFrames = 3
  Outcomes <- SubmitsOrPromotes
PROPERTY EveryFrameDelivers
