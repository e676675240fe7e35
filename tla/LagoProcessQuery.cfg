CONSTANTS
  Proc <- Pair
  Commands <- DaqAndQuery
  MAX_ALLOC = 3
SPECIFICATION Spec
INVARIANTS DaqKeepsBuffer
CHECK_DEADLOCK FALSE
