SPECIFICATION MCSpec
CONSTANTS
  User = {"u", "v"}
  Setter = {"s"}
  Attr <- MCAttr
  DapValue <- MCDap
  EP107 = FALSE
  MAX_XFER = 2
  MAX_SET = 2
  HEADER = 3
  LENGTH = 16
  MAX_PIECE = 9
  MAX_WRITE = 3
  NUMFCLKS = 2
  Writer = {"w", "x"}
  MAX_OP = 4
INVARIANTS
  ModeRestored
  DmaFromLiveBuffer
  ReportedWhenDone
  ShowsWhatWasSet
  StreamWhole
  ReleasedWhenUnbound
PROPERTY MutexReleased
\* Threads may stop using the device, and the bounds end every view.
CHECK_DEADLOCK FALSE
