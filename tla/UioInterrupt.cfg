CONSTANTS
  CLK_FREQ = 10
  CNT_MOD = 16
  AWIDTH = 2
  Data = {0, 1}
SPECIFICATION MCSpec
INVARIANTS SomeoneAwake PositionFresh PulseInSecond
PROPERTIES PpsServed StopsWithPps FalsePpsForever FifoIsQueue
