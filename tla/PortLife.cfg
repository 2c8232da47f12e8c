SPECIFICATION LifeSpec
CONSTANTS
  HandFlows <- LifeModes
  MaxLen = 1
  BufferSize = 1
  XoffLimit = 0
  XonLimit = 0
  Depth = 1
  TxTrigger = 0
  LineErrors = {FALSE}
  LinesCleared = {TRUE, FALSE}
  MaxCycles = 1
INVARIANTS
  IsrHasBuffer
  OpenPortWorks
  ClosedIsQuiet
  PeerMayGoOn
  CloseWaitsForSomebody
