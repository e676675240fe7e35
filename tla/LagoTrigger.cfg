CONSTANTS
  Chan <- One
  Sample <- Thirds
  lvl <- At2
  sublvl <- At1
  scaler <- Scaler1
  L = 5
  TRIG = 3
  M = 2
  SUB = 3
  SCALER_MAX = 3
  MAX_TRIG = 2
SPECIFICATION Spec
INVARIANTS Framing PacketNotShort PulseInPacket StatusNotOlder
