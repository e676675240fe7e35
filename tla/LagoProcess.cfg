CONSTANTS
  Proc <- Alone
  Commands <- AnyCommand
  MAX_ALLOC = 5
  N = 4
  MAX_RUN = 4
  HALF = 4
  MAX_BEAT = 26
  MAX_CLIENT = 2
SPECIFICATION MCSpec
INVARIANTS
  DaqKeepsBuffer DmaIntoLiveBuffer DaqRuns DaqStartsClean
   HalvesInOrder
CHECK_DEADLOCK FALSE
