CONSTANTS
  LIMIT = 8
  SECONDS = 2
  MINUTES = 2
  HOURS = 3
  BYTE = 4
  Word <- Words
  MAX_SECOND = 14
  CNT_MAX = 5
  MAX_EVENT = 3
  User = {"t", "daq"}
  Oss = {0, 1}
  MAX_FAULT = 1
  MAX_CONV = 2
  MAX_LOSS = 3
  MAX_BUF = 6
  MAX_SENTENCE = 2
  MAX_DROP = 1
SPECIFICATION MCSpec
INVARIANTS
  NoPhantomWord SecondInItsFile ClockKept LostPulses
  OwnConversion InitSound Located FixAsSent
PROPERTIES Completes FilesInOrder
CHECK_DEADLOCK FALSE
