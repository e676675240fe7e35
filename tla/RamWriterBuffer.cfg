\* As adc.tcl and zynq_io.c size them: the address counter spans twice the
\* buffer (2^20 beats of 8 bytes against 1024 pages of 4096 bytes).
CONSTANTS
  BURST = 2
  BLOCKS = 4
  IDS = 2
  DEPTH = 4
  AE = 2
  CMA_BLOCKS = 2
SPECIFICATION Spec
INVARIANT WritesInsideBuffer
