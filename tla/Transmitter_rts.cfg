SPECIFICATION FairSpec
CONSTANTS
  HandFlows <- ToggleModes
  MaxLen = 1
  BufferSize = 1
  XoffLimit = 0
  XonLimit = 0
  Depth = 2
  TxTrigger = 1
  LineErrors = {TRUE, FALSE}
PROPERTIES
  RtsPathLowers
