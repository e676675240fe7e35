CONSTANTS
  Chan <- One
  Sample <- Bits
  lvl <- At1
  sublvl <- At1
  scaler <- Scaler1
  L = 5
  TRIG = 3
  M = 2
  SUB = 3
  SCALER_MAX = 3
  MAX_TRIG = 3
SPECIFICATION Spec
INVARIANTS PpsHonoured
