SPECIFICATION Spec
CONSTANTS
  Capacity = 2
  MaxFrames = 3
  Outcomes <- EveryOutcome
INVARIANT DeliveredInSubmissionOrder
