\* Bursts of 3 beats, 3 bursts per turn of the address counter.
CONSTANTS
  BURST = 3
  BLOCKS = 3
  IDS = 2
  DEPTH = 6
  AE = 3
  CMA_BLOCKS = 3
SPECIFICATION FairSpec
INVARIANTS NoUnderflow OneAddressPerBurst BeatLandsAtPosition
PROPERTY WriterProgress
