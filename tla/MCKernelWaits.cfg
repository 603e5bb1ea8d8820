SPECIFICATION WaitsSpec
CONSTANTS
  Threads = {"t1", "t2"}
  Objects <- Mutants
  Kind <- EachMutant
  Limit <- NoLimit
  Waits <- OppositeOrders
  MaxCount = 1
INVARIANT AllWaitersCannotDeadlock
