SPECIFICATION Spec
CONSTANTS
  w1 = w1
  w2 = w2
  x1 = x1
  x2 = x2
  i1 = i1
  Writes = {w1, w2}
  XoffReqs = {x1, x2}
  Immediates = {}
  Loads <- LoadsOfThree
  NoReq = NoReq
  Lens = {2}
  MaxLen = 2
  Counters = {1}
  MaxCounter = 1
  XoffTimeouts = {TRUE}
  TotalTimeouts = {FALSE, TRUE}
  Flushes = TRUE
CHECK_DEADLOCK FALSE
INVARIANTS TypeOK RefsMatchOwners CharsAccounted ReportCoversRest
PROPERTIES CompletedIsFinal ImplementsStream
