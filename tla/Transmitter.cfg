SPECIFICATION Spec
CONSTANTS
  HandFlows <- FlowModes
  MaxLen = 2
  BufferSize = 2
  XoffLimit = 0
  XonLimit = 1
  Depth = 2
  TxTrigger = 1
  LineErrors = {FALSE}
INVARIANTS
  TypeOK
  WakeupNotLost
  NoOverrun
  PeerAgrees
  LowerRTSCount
  RtsUpWhileSending
  HandshakeLine

