SPECIFICATION FairSpec
CONSTANTS
  w1 = w1
  w2 = w2
  x1 = x1
  x2 = x2
  i1 = i1
  Writes = {}
  XoffReqs = {x1}
  Immediates = {i1}
  Loads <- OneLoad
  NoReq = NoReq
  Lens = {1}
  MaxLen = 1
  Counters = {1}
  MaxCounter = 1
  XoffTimeouts = {FALSE}
  TotalTimeouts = {FALSE, TRUE}
  Flushes = FALSE
CHECK_DEADLOCK FALSE
PROPERTIES CancelledEnds TimedEnds
