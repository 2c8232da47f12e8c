SPECIFICATION FairSpec
CONSTANTS
  r1 = r1
  r2 = r2
  z1 = z1
  z2 = z2
  Reads = {r1}
  Resizes = {}
  Loads <- OneRead
  NoReq = NoReq
  Lens = {2}
  MaxLen = 2
  InitSize = 1
  Sizes = {2}
  MaxSize = 2
  MaxChars = 3
  Timeouts <- WithIntervalOnly
  ErrorAbort = TRUE
  ErrorChar = FALSE
  LineHolds = {}
PROPERTIES CancelledReadEnds TimedReadEnds IntervalReadEnds ErrorEndsRead
