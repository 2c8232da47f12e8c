--------------------------- MODULE PortLife_proofs ---------------------------
(***************************************************************************)
(* Proofs about PortLife, for any flow control settings, sizes and any     *)
(* number of cycles through D0.  What the routines of the transmitter keep *)
(* is that of Transmitter_proofs; its invariant IInv is part of the        *)
(* invariant here.                                                         *)
(***************************************************************************)
EXTENDS PortLife, Transmitter_proofs

\* The stages in which no part of a session is left: from the one in which the close
\* has lowered RTS to the SerialMarkOpen of the next open.
AtRest == port.stage \in {"none", "creating", "free", "timers", "dpcs"}

\* How far the close has got: what each step has put down stays down.
BufferKept == port.stage \notin {"none", "timers", "dpcs"} => port.buffer
ShutUnlessOpen == port.stage # "open" => ~port.deviceIsOpened /\ ~port.reopen
IsrEnded == port.stage \notin {"open", "break"} => isr = "off"
Out2Down == port.stage \notin {"open", "break", "drain"} => ~port.out2
PathsEnded == AtRest => ~dev.rts /\ dev.countOfTryingToLowerRTS = 0

StageInv == BufferKept /\ ShutUnlessOpen /\ IsrEnded /\ Out2Down /\ PathsEnded

\* The inductive invariant.  IsrHasBuffer needs ShutUnlessOpen and IsrEnded in every
\* stage of the close and every power state; CloseWaitsForSomebody is a part of IInv,
\* and PathsEnded says that the timer and the DPC, which the close then stops without
\* a look at the count, are not in their queues.
LifeIInv == port \in Port /\ (NeverClosedOff => IInv /\ StageInv)

\* An "off close" is never forgotten.
Remembers == NeverClosedOff' => NeverClosedOff

\* A step in which the port itself does not change, and the stage is one of a session.
LEMMA SessionStep ==
  ASSUME LifeIInv, UNCHANGED port, IInv => IInv', ~AtRest,
         isr' = isr \/ port.stage \in {"open", "break"}
  PROVE  LifeIInv'
<1>1. NeverClosedOff' => IInv'
  BY DEF LifeIInv, NeverClosedOff
<1>2. NeverClosedOff' => StageInv'
  BY DEF LifeIInv, NeverClosedOff, StageInv, BufferKept, ShutUnlessOpen, IsrEnded,
         Out2Down, PathsEnded, AtRest
<1>3. QED
  BY <1>1, <1>2 DEF LifeIInv, Port

\* A step of the port alone.
LEMMA PortStep ==
  ASSUME LifeIInv, UNCHANGED <<dev, lowerRTSTimer, isr>>, port' \in Port, Remembers,
         NeverClosedOff' /\ IInv /\ StageInv => StageInv'
  PROVE  LifeIInv'
<1>1. IInv => IInv'
  BY DEF IInv, TypeOK, NoOverrun, ThrAtTrigger, LowerRTSCount
<1>2. QED
  BY <1>1 DEF LifeIInv, Remembers

\* A step of the port and of the device, which keeps what the routines keep.
LEMMA DeviceStep ==
  ASSUME LifeIInv, UNCHANGED <<lowerRTSTimer, isr>>, port' \in Port, Remembers,
         NeverClosedOff' /\ IInv /\ StageInv => Keeps(dev, dev') /\ StageInv'
  PROVE  LifeIInv'
<1>1. NeverClosedOff' => IInv /\ StageInv
  BY DEF LifeIInv, Remembers
<1>2. NeverClosedOff' => isr' \in {"off", "loop", "end"}
  BY <1>1 DEF IInv, TypeOK
<1>3. NeverClosedOff' => IInv'
  BY <1>1, <1>2, KeepsIInv
<1>4. QED
  BY <1>1, <1>3 DEF LifeIInv

\* With nothing in the count, nothing is in a queue.
LEMMA NothingUnderWay ==
  ASSUME IInv, dev.countOfTryingToLowerRTS = 0
  PROVE  ~dev.startTimerLowerRTSDpc /\ ~lowerRTSTimer.set /\ ~lowerRTSTimer.due
  BY DEF IInv, TypeOK, LowerRTSCount, Device

\* The device that was never opened.
LEMMA LifeInitIInv == LifeInit => LifeIInv
<1> SUFFICES ASSUME LifeInit PROVE LifeIInv
  OBVIOUS
<1>1. PICK h \in HandFlows :
       dev = [handFlow |-> h, txHolding |-> {}, rxHolding |-> {},
              sendXonChar |-> FALSE, sendXoffChar |-> FALSE,
              transmitImmediate |-> FALSE, writeLength |-> 0,
              currentImmediate |-> FALSE, currentWrite |-> FALSE,
              writesQueued |-> FALSE, holdingEmpty |-> TRUE,
              charsInInterruptBuffer |-> 0,
              startTimerLowerRTSDpc |-> FALSE, countOfTryingToLowerRTS |-> 0,
              fifo |-> 0, shifting |-> FALSE, thr |-> FALSE, cts |-> TRUE,
              ctsChanged |-> FALSE, rts |-> FALSE, told |-> "Xon"]
  BY DEF LifeInit
<1>2. /\ h \in HandFlow /\ 0 \in 0 .. MaxLen /\ 0 \in 0 .. BufferSize /\ 0 \in Nat
      /\ {} \in SUBSET {"XOFF", "CTS", "BREAK"} /\ {} \in SUBSET {"XOFF", "RTS"}
      /\ TRUE \in BOOLEAN /\ FALSE \in BOOLEAN /\ "Xon" \in {"Xon", "Xoff"}
  BY HandFlowAssumption, SizeAssumption
<1>3. dev \in Device
  BY <1>1, <1>2, Zenon DEF Device
<1>4. /\ dev.fifo = 0 /\ dev.thr = FALSE /\ dev.countOfTryingToLowerRTS = 0
      /\ dev.startTimerLowerRTSDpc = FALSE /\ dev.rts = FALSE
  BY <1>1
<1>5. /\ lowerRTSTimer = [set |-> FALSE, due |-> FALSE]
      /\ lowerRTSTimer.set = FALSE /\ lowerRTSTimer.due = FALSE /\ isr = "off"
  BY DEF LifeInit
<1>6. IInv
  <2>1. TypeOK
    BY <1>3, <1>5 DEF TypeOK
  <2>2. QED
    BY <1>4, <1>5, <2>1, SizeAssumption DEF IInv, NoOverrun, ThrAtTrigger, LowerRTSCount
<1>7. port \in Port /\ port.stage = "none" /\ ~port.deviceIsOpened /\ ~port.reopen /\ ~port.out2
  BY LifeAssumption DEF LifeInit, Port, Stages
<1>8. StageInv
  BY <1>4, <1>5, <1>7
     DEF StageInv, BufferKept, ShutUnlessOpen, IsrEnded, Out2Down, PathsEnded, AtRest
<1>9. QED
  BY <1>6, <1>7, <1>8 DEF LifeIInv

-----------------------------------------------------------------------------
\* SerialISR, of an open port and of one that is not.
LEMMA LifeISRPreserves == LifeIInv /\ (OpenISR \/ ClosedISR) => LifeIInv'
<1> SUFFICES ASSUME LifeIInv, OpenISR \/ ClosedISR PROVE LifeIInv'
  OBVIOUS
<1>1. CASE OpenISR /\ ~NeverClosedOff
  BY <1>1 DEF OpenISR, LifeIInv, NeverClosedOff
<1>2. CASE OpenISR /\ NeverClosedOff
  <2>1. port.stage \in {"open", "break"}
    BY <1>2 DEF OpenISR, LifeIInv, StageInv, ShutUnlessOpen, IsrEnded
  <2>2. IInv => IInv'
    BY <1>2, ISRPreserves DEF OpenISR
  <2>3. QED
    BY <1>2, <2>1, <2>2, SessionStep DEF OpenISR, AtRest
<1>3. CASE ClosedISR
  <2> DEFINE line == dev.holdingEmpty \/ dev.thr
             e == [dev EXCEPT !.thr = FALSE, !.ctsChanged = FALSE, !.holdingEmpty = line]
  <2>1. dev' = e /\ UNCHANGED <<lowerRTSTimer, isr, port>>
    BY <1>3 DEF ClosedISR
  <2>2. NeverClosedOff => Keeps(dev, e) /\ e.rts = dev.rts
                          /\ e.countOfTryingToLowerRTS = dev.countOfTryingToLowerRTS
    <3> SUFFICES ASSUME IInv
                 PROVE  Keeps(dev, e) /\ e.rts = dev.rts
                        /\ e.countOfTryingToLowerRTS = dev.countOfTryingToLowerRTS
      BY DEF LifeIInv
    <3>1. Good(dev) /\ line \in BOOLEAN
      BY IInvGood
    <3> HIDE DEF line
    <3>2. e \in Device
      BY <3>1, Zenon DEF Good, Device
    <3>3. /\ e.fifo = dev.fifo /\ e.thr = FALSE /\ e.rts = dev.rts
          /\ e.startTimerLowerRTSDpc = dev.startTimerLowerRTSDpc
          /\ e.countOfTryingToLowerRTS = dev.countOfTryingToLowerRTS
      BY <3>1 DEF Good, Device
    <3>4. QED
      BY <3>1, <3>2, <3>3 DEF Good, Keeps, OtherPaths
  <2> HIDE DEF e
  <2>3. NeverClosedOff => IInv'
    BY <2>1, <2>2, KeepsIInv DEF LifeIInv, IInv, TypeOK
  <2>4. NeverClosedOff => StageInv'
    BY <2>1, <2>2 DEF LifeIInv, StageInv, BufferKept, ShutUnlessOpen, IsrEnded, Out2Down,
                      PathsEnded, AtRest
  <2>5. QED
    BY <2>1, <2>3, <2>4 DEF LifeIInv, NeverClosedOff
<1>4. QED
  BY <1>1, <1>2, <1>3

\* The UART goes on, and the lines change, at any stage.
LEMMA LifeUARTPreserves == LifeIInv /\ (UART \/ ChangeCTSAsleep) => LifeIInv'
<1> SUFFICES ASSUME LifeIInv, UART \/ ChangeCTSAsleep PROVE LifeIInv'
  OBVIOUS
<1>1. UNCHANGED <<isr, port>>
  BY DEF UART, ChangeCTSAsleep, Shift, ChangeCTS
<1>2. IInv => dev'.rts = dev.rts
              /\ dev'.countOfTryingToLowerRTS = dev.countOfTryingToLowerRTS
  BY DEF UART, ChangeCTSAsleep, Shift, ChangeCTS, IInv, TypeOK, Device
<1>3. IInv /\ StageInv => StageInv'
  BY <1>1, <1>2
     DEF StageInv, BufferKept, ShutUnlessOpen, IsrEnded, Out2Down, PathsEnded, AtRest
<1>4. IInv => IInv'
  <2>1. CASE UART
    BY <2>1, UARTPreserves DEF UART
  <2>2. CASE ChangeCTSAsleep
    <3> SUFFICES ASSUME IInv PROVE IInv'
      OBVIOUS
    <3> DEFINE line == ~dev.cts
               e == [dev EXCEPT !.cts = line]
    <3>1. Good(dev) /\ line \in BOOLEAN
      BY IInvGood
    <3>2. dev' = e /\ UNCHANGED lowerRTSTimer /\ isr' \in {"off", "loop", "end"}
      BY <2>2 DEF ChangeCTSAsleep, IInv, TypeOK
    <3> HIDE DEF line
    <3>3. e \in Device
      BY <3>1, Zenon DEF Good, Device
    <3>4. SameFifoAndCount(dev, e)
      BY <3>1 DEF Good, Device, SameFifoAndCount
    <3>5. Keeps(dev, e)
      BY <3>1, <3>3, <3>4, SameKeeps
    <3>6. QED
      BY <3>2, <3>5, KeepsIInv
  <2>3. QED
    BY <2>1, <2>2
<1>5. QED
  BY <1>1, <1>3, <1>4 DEF LifeIInv, NeverClosedOff

\* The requests of an open port.
LEMMA RequestsPreserve == LifeIInv /\ (Requests \/ Completions) => LifeIInv'
<1> SUFFICES ASSUME LifeIInv, Requests \/ Completions PROVE LifeIInv'
  OBVIOUS
<1>1. port.stage = "open" /\ UNCHANGED port
  BY DEF Requests, Completions
<1>2. IInv => IInv'
  BY WritesPreserve, EndWritePreserves, QueuePreserves, ControlsPreserve
     DEF Requests, Completions
<1>3. QED
  BY <1>1, <1>2, SessionStep DEF AtRest

\* The path of execution that lowers RTS goes on until the close has waited for it,
\* and is over then.
LEMMA LowerRTSPathPreserves == LifeIInv /\ LowerRTSPath => LifeIInv'
<1> SUFFICES ASSUME LifeIInv, LowerRTSPath PROVE LifeIInv'
  OBVIOUS
<1>1. UNCHANGED <<isr, port>>
  BY DEF LowerRTSPath, StartTimerLowerRTS, LowerRTSTimerFires, InvokePerhapsLowerRTS
<1>2. NeverClosedOff => ~AtRest
  <2> SUFFICES ASSUME IInv, dev.countOfTryingToLowerRTS = 0 PROVE FALSE
    BY DEF LifeIInv, StageInv, PathsEnded
  <2>1. QED
    BY NothingUnderWay
       DEF LowerRTSPath, StartTimerLowerRTS, LowerRTSTimerFires, InvokePerhapsLowerRTS
<1>3. IInv => IInv'
  BY PathsPreserve DEF LowerRTSPath
<1>4. CASE NeverClosedOff
  BY <1>1, <1>2, <1>3, <1>4, SessionStep
<1>5. CASE ~NeverClosedOff
  BY <1>1, <1>5 DEF LifeIInv, NeverClosedOff
<1>6. QED
  BY <1>4, <1>5

-----------------------------------------------------------------------------
\* What the create sets in the device: no path that lowers RTS is among it.
LEMMA FreshKeeps ==
  ASSUME NEW d, Good(d)
  PROVE  /\ Keeps(d, Fresh(d)) /\ Fresh(d).rts = d.rts
         /\ Fresh(d).countOfTryingToLowerRTS = d.countOfTryingToLowerRTS
<1>1. 0 \in 0 .. BufferSize
  BY SizeAssumption
<1>2. Fresh(d) \in Device
  BY <1>1, Zenon DEF Good, Fresh, Device
<1>3. SameFifoAndCount(d, Fresh(d)) /\ Fresh(d).rts = d.rts
  BY DEF Good, Fresh, Device, SameFifoAndCount
<1>4. QED
  BY <1>2, <1>3, SameKeeps DEF SameFifoAndCount

\* The create, whether it succeeds or not.
LEMMA CreatePreserves == LifeIInv /\ (Create \/ CreateFails) => LifeIInv'
<1> SUFFICES ASSUME LifeIInv, Create \/ CreateFails PROVE LifeIInv'
  OBVIOUS
<1>1. /\ port.stage = "none" /\ port'.stage \in {"none", "creating"} /\ port'.buffer
      /\ port'.deviceIsOpened = port.deviceIsOpened /\ port'.reopen = port.reopen
      /\ port'.out2 = port.out2 /\ port'.history = port.history
      /\ UNCHANGED <<lowerRTSTimer, isr>> /\ dev' \in {dev, Fresh(dev)}
  BY DEF LifeIInv, Port, Create, CreateFails
<1>2. port' \in Port
  BY DEF LifeIInv, Port, Stages, Create, CreateFails
<1>3. IInv => /\ Keeps(dev, dev') /\ dev'.rts = dev.rts
              /\ dev'.countOfTryingToLowerRTS = dev.countOfTryingToLowerRTS
  BY <1>1, IInvGood, KeepsItself, FreshKeeps
<1>4. IInv /\ StageInv => StageInv'
  BY <1>1, <1>3
     DEF StageInv, BufferKept, ShutUnlessOpen, IsrEnded, Out2Down, PathsEnded, AtRest
<1>5. Remembers
  BY <1>1 DEF Remembers, NeverClosedOff
<1>6. QED
  BY <1>1, <1>2, <1>3, <1>4, <1>5, DeviceStep

\* SerialReset, in which every part of the flow control is set up anew.
LEMMA ResetKeeps ==
  ASSUME NEW d, Good(d), OtherPaths(d) >= 0, NEW error
  PROVE  Keeps(d, Reset(d, error))
<1> DEFINE cleared == [d EXCEPT !.fifo = 0, !.ctsChanged = FALSE]
           other == [cleared EXCEPT !.handFlow = Different(@)]
           new == SetupNewHandFlow(other, cleared.handFlow, error)
           set == HandleModemUpdate(new, FALSE)
           e == [set EXCEPT !.thr = FALSE, !.holdingEmpty = TRUE]
<1>1. Keeps(d, cleared)
  <2>1. 0 \in Nat /\ 0 <= Depth /\ 0 <= TxTrigger
    BY SizeAssumption
  <2>2. cleared \in Device
    BY <2>1, Zenon DEF Good, Device
  <2>3. /\ cleared.fifo = 0 /\ cleared.startTimerLowerRTSDpc = d.startTimerLowerRTSDpc
        /\ cleared.countOfTryingToLowerRTS = d.countOfTryingToLowerRTS
    BY DEF Good, Device
  <2>4. QED
    BY <2>1, <2>2, <2>3 DEF Good, Keeps, OtherPaths
<1> HIDE DEF cleared
<1>2. cleared.handFlow \in HandFlow /\ Different(cleared.handFlow) \in HandFlow
  <2>1. cleared.handFlow \in HandFlow
    BY <1>1 DEF Keeps, Good, Device
  <2>2. QED
    BY <2>1 DEF Different, HandFlow
<1>3. Keeps(cleared, other)
  BY <1>1, <1>2, HandFlowKeeps DEF Keeps
<1> HIDE DEF other
<1>4. OtherPaths(other) >= 0
  BY <1>1, <1>3 DEF Keeps
<1>5. Keeps(other, new)
  BY <1>2, <1>3, <1>4, SetupNewHandFlowKeeps DEF Keeps
<1> HIDE DEF new
<1>6. Keeps(new, set)
  BY <1>5, HandleModemUpdateKeeps DEF Keeps
<1> HIDE DEF set
<1>7. Keeps(set, e)
  <2>1. Good(set)
    BY <1>6 DEF Keeps
  <2>2. e \in Device
    BY <2>1, Zenon DEF Good, Device
  <2>3. /\ e.fifo = set.fifo /\ e.thr = FALSE
        /\ e.startTimerLowerRTSDpc = set.startTimerLowerRTSDpc
        /\ e.countOfTryingToLowerRTS = set.countOfTryingToLowerRTS
    BY <2>1 DEF Good, Device
  <2>4. QED
    BY <2>1, <2>2, <2>3 DEF Good, Keeps, OtherPaths
<1> HIDE DEF e
<1>8. Keeps(d, e)
  BY <1>1, <1>3, <1>5, <1>6, <1>7, KeepsIsTransitive
<1>9. Reset(d, error) = e
  BY DEF Reset, SetupHandFlowOfClosed, cleared, other, new, set, e
<1>10. QED
  BY <1>8, <1>9

\* SerialMarkOpen: the session begins, and its paths of execution with it.
LEMMA LifeMarkOpenPreserves == LifeIInv /\ MarkOpen => LifeIInv'
<1> SUFFICES ASSUME LifeIInv, MarkOpen PROVE LifeIInv'
  OBVIOUS
<1>1. PICK error \in LineErrors :
        dev' = [Reset(dev, error) EXCEPT !.rts = @ /\ Powered]
  BY DEF MarkOpen
<1> DEFINE d == Reset(dev, error)
           line == d.rts /\ Powered
<1>2. IInv => Keeps(dev, dev')
  <2> SUFFICES ASSUME IInv PROVE Keeps(dev, dev')
    OBVIOUS
  <2>1. Keeps(dev, d)
    BY IInvGood, ResetKeeps
  <2>2. line \in BOOLEAN /\ {} \in SUBSET {"XOFF", "RTS"}
    OBVIOUS
  <2>3. dev' = [d EXCEPT !.rts = line]
    BY <1>1
  <2> HIDE DEF d, line
  <2>4. Keeps(d, [d EXCEPT !.rts = line])
    BY <2>1, <2>2, RxHoldingKeeps DEF Keeps
  <2>5. QED
    BY <2>1, <2>3, <2>4, KeepsIsTransitive
<1>3. /\ port.stage = "creating" /\ isr = "off" /\ UNCHANGED <<lowerRTSTimer, isr>>
      /\ port'.stage = "open" /\ port'.buffer = port.buffer
      /\ port.history \subseteq port'.history
  BY DEF LifeIInv, Port, MarkOpen, Note
<1>4. port' \in Port
  BY DEF LifeIInv, Port, Stages, MarkOpen, Note, Powered
<1>5. StageInv => StageInv'
  BY <1>3
     DEF StageInv, BufferKept, ShutUnlessOpen, IsrEnded, Out2Down, PathsEnded, AtRest
<1>6. Remembers
  BY <1>3 DEF Remembers, NeverClosedOff
<1>7. QED
  BY <1>2, <1>3, <1>4, <1>5, <1>6, DeviceStep

-----------------------------------------------------------------------------
\* The steps of the close that change the port alone.
LEMMA CloseOfPortPreserves ==
  LifeIInv /\ (CloseBegin \/ CloseTurnOffBreak \/ CloseEmpty \/ CloseFreeBuffer) => LifeIInv'
<1> SUFFICES ASSUME LifeIInv,
                    CloseBegin \/ CloseTurnOffBreak \/ CloseEmpty \/ CloseFreeBuffer
             PROVE LifeIInv'
  OBVIOUS
<1>1. UNCHANGED <<dev, lowerRTSTimer, isr>>
  BY DEF CloseBegin, CloseTurnOffBreak, CloseEmpty, CloseFreeBuffer
<1>2. port' \in Port /\ Remembers
  <2>1. CASE CloseBegin
    BY <2>1 DEF LifeIInv, Port, Stages, CloseBegin, Remembers, NeverClosedOff
  <2>2. CASE CloseTurnOffBreak
    BY <2>2 DEF LifeIInv, Port, Stages, CloseTurnOffBreak, Remembers, NeverClosedOff
  <2>3. CASE CloseEmpty
    BY <2>3 DEF LifeIInv, Port, Stages, CloseEmpty, Remembers, NeverClosedOff
  <2>4. CASE CloseFreeBuffer
    BY <2>4 DEF LifeIInv, Port, Stages, CloseFreeBuffer, Remembers, NeverClosedOff
  <2>5. QED
    BY <2>1, <2>2, <2>3, <2>4
<1>3. CASE CloseBegin
  <2>1. NeverClosedOff' => /\ port'.stage = "break" /\ ~port'.deviceIsOpened /\ ~port'.reopen
                           /\ port'.buffer = port.buffer /\ port.stage = "open"
    BY <1>3 DEF LifeIInv, Port, CloseBegin, NeverClosedOff
  <2>2. NeverClosedOff' /\ StageInv => StageInv'
    BY <2>1
       DEF StageInv, BufferKept, ShutUnlessOpen, IsrEnded, Out2Down, PathsEnded, AtRest
  <2>3. QED
    BY <1>1, <1>2, <2>2, PortStep
<1>4. CASE CloseTurnOffBreak \/ CloseEmpty \/ CloseFreeBuffer
  <2>1. /\ port'.deviceIsOpened = port.deviceIsOpened /\ port'.reopen = port.reopen
        /\ port'.out2 = port.out2
        /\ \/ port.stage = "break" /\ port'.stage = "drain" /\ isr = "off"
              /\ port'.buffer = port.buffer
           \/ port.stage = "empty" /\ port'.stage = "toggle" /\ port'.buffer = port.buffer
           \/ port.stage = "free" /\ port'.stage = "timers"
    BY <1>4 DEF LifeIInv, Port, CloseTurnOffBreak, CloseEmpty, CloseFreeBuffer
  <2>2. StageInv => StageInv'
    BY <1>1, <2>1
       DEF StageInv, BufferKept, ShutUnlessOpen, IsrEnded, Out2Down, PathsEnded, AtRest
  <2>3. QED
    BY <1>1, <1>2, <2>2, PortStep
<1>5. QED
  BY <1>3, <1>4

\* SerialMarkClose, the Xon, and the lowering of RTS.
LEMMA CloseOfUARTPreserves ==
  LifeIInv /\ (MarkClose \/ CloseSendXon \/ CloseLowerRTS) => LifeIInv'
<1> SUFFICES ASSUME LifeIInv, MarkClose \/ CloseSendXon \/ CloseLowerRTS PROVE LifeIInv'
  OBVIOUS
<1>1. UNCHANGED <<lowerRTSTimer, isr>>
  BY DEF MarkClose, CloseSendXon, CloseLowerRTS
<1>2. /\ port' \in Port /\ port'.buffer = port.buffer
      /\ port.history \subseteq port'.history
  <2>1. CASE MarkClose
    BY <2>1 DEF LifeIInv, Port, Stages, MarkClose, Note
  <2>2. CASE CloseSendXon
    BY <2>2 DEF LifeIInv, Port, Stages, CloseSendXon
  <2>3. CASE CloseLowerRTS
    BY <2>3 DEF LifeIInv, Port, Stages, CloseLowerRTS
  <2>4. QED
    BY <2>1, <2>2, <2>3
<1>3. Remembers
  BY <1>2 DEF Remembers, NeverClosedOff
<1>4. CASE MarkClose
  <2> DEFINE e == [dev EXCEPT !.fifo = 0]
  <2>1. dev' = e /\ dev.fifo = 0 /\ port.stage = "drain" /\ port'.stage = "xon"
        /\ ~port'.deviceIsOpened /\ ~port'.reopen /\ ~port'.out2
    BY <1>4 DEF LifeIInv, Port, MarkClose, HardwareEmpty
  <2>2. Good(dev) => Keeps(dev, e)
    <3> SUFFICES ASSUME Good(dev) PROVE Keeps(dev, e)
      OBVIOUS
    <3>1. 0 \in Nat
      OBVIOUS
    <3>2. e \in Device
      BY <3>1, Zenon DEF Good, Device
    <3>3. SameFifoAndCount(dev, e)
      BY <2>1 DEF Good, Device, SameFifoAndCount
    <3>4. QED
      BY <3>2, <3>3, SameKeeps
  <2> HIDE DEF e
  <2>3. IInv => Keeps(dev, dev')
    BY <2>1, <2>2, IInvGood
  <2>4. StageInv => StageInv'
    BY <1>1, <1>2, <2>1
       DEF StageInv, BufferKept, ShutUnlessOpen, IsrEnded, Out2Down, PathsEnded, AtRest
  <2>5. QED
    BY <1>1, <1>2, <1>3, <2>3, <2>4, DeviceStep
<1>5. CASE CloseSendXon
  <2> DEFINE e == [dev EXCEPT !.fifo = 1, !.thr = FALSE, !.told = "Xon"]
  <2>1. dev' \in {dev, e}
    BY <1>5 DEF CloseSendXon
  <2>2. Good(dev) => Keeps(dev, e)
    <3> SUFFICES ASSUME Good(dev) PROVE Keeps(dev, e)
      OBVIOUS
    <3>1. 1 \in Nat /\ 1 <= Depth
      BY SizeAssumption
    <3>2. e \in Device
      BY <3>1, Zenon DEF Good, Device
    <3>3. /\ e.fifo = 1 /\ e.thr = FALSE
          /\ e.startTimerLowerRTSDpc = dev.startTimerLowerRTSDpc
          /\ e.countOfTryingToLowerRTS = dev.countOfTryingToLowerRTS
      BY DEF Good, Device
    <3>4. QED
      BY <3>1, <3>2, <3>3 DEF Good, Keeps, OtherPaths
  <2> HIDE DEF e
  <2>3. IInv => Keeps(dev, dev')
    BY <2>1, <2>2, IInvGood, KeepsItself
  <2>4. /\ port.stage = "xon" /\ port'.stage = "empty" /\ port'.out2 = port.out2
        /\ port'.deviceIsOpened = port.deviceIsOpened /\ port'.reopen = port.reopen
    BY <1>5 DEF LifeIInv, Port, CloseSendXon
  <2>5. StageInv => StageInv'
    BY <1>1, <1>2, <2>4
       DEF StageInv, BufferKept, ShutUnlessOpen, IsrEnded, Out2Down, PathsEnded, AtRest
  <2>6. QED
    BY <1>1, <1>2, <1>3, <2>3, <2>5, DeviceStep
<1>6. CASE CloseLowerRTS
  <2> DEFINE down == [dev EXCEPT !.rts = FALSE]
             e == [down EXCEPT !.rxHolding = {}]
             f == [e EXCEPT !.txHolding = {}]
  <2>1. dev' = f /\ dev.countOfTryingToLowerRTS = 0
    BY <1>6 DEF CloseLowerRTS
  <2>2. Good(dev) => /\ Keeps(dev, f) /\ ~f.rts
                     /\ f.countOfTryingToLowerRTS = dev.countOfTryingToLowerRTS
    <3> SUFFICES ASSUME Good(dev)
                 PROVE  /\ Keeps(dev, f) /\ ~f.rts
                        /\ f.countOfTryingToLowerRTS = dev.countOfTryingToLowerRTS
      OBVIOUS
    <3>1. /\ FALSE \in BOOLEAN /\ {} \in SUBSET {"XOFF", "RTS"}
          /\ {} \in SUBSET {"XOFF", "CTS", "BREAK"}
      OBVIOUS
    <3>2. ~f.rts /\ f.countOfTryingToLowerRTS = dev.countOfTryingToLowerRTS
      BY DEF Good, Device
    <3>3. Keeps(dev, down)
      BY <3>1, RxHoldingKeeps
    <3> HIDE DEF down
    <3>4. Keeps(down, e)
      BY <3>1, <3>3, RxHoldingKeeps DEF Keeps
    <3> HIDE DEF e
    <3>5. Keeps(e, f)
      BY <3>1, <3>4, TxHoldingKeeps DEF Keeps
    <3> HIDE DEF f
    <3>6. QED
      BY <3>2, <3>3, <3>4, <3>5, KeepsIsTransitive
  <2> HIDE DEF f
  <2>3. /\ port.stage = "toggle" /\ port'.stage = "free" /\ port'.out2 = port.out2
        /\ port'.deviceIsOpened = port.deviceIsOpened /\ port'.reopen = port.reopen
    BY <1>6 DEF LifeIInv, Port, CloseLowerRTS
  <2>4. IInv /\ StageInv => StageInv'
    BY <1>1, <1>2, <2>1, <2>2, <2>3, IInvGood
       DEF StageInv, BufferKept, ShutUnlessOpen, IsrEnded, Out2Down, PathsEnded, AtRest
  <2>5. QED
    BY <1>1, <1>2, <1>3, <2>1, <2>2, <2>4, IInvGood, DeviceStep
<1>7. QED
  BY <1>4, <1>5, <1>6

\* The stop of the timers and of the DPCs finds nothing to stop.
LEMMA CloseDrainsPreserve == LifeIInv /\ (CloseStopTimers \/ CloseCancelDpcs) => LifeIInv'
<1> SUFFICES ASSUME LifeIInv, CloseStopTimers \/ CloseCancelDpcs PROVE LifeIInv'
  OBVIOUS
<1>1. /\ port' \in Port /\ port'.history = port.history /\ UNCHANGED isr
      /\ port.stage \in {"timers", "dpcs"} /\ port'.stage \in {"dpcs", "none"}
      /\ port'.out2 = port.out2
      /\ port'.deviceIsOpened = port.deviceIsOpened /\ port'.reopen = port.reopen
  BY DEF LifeIInv, Port, Stages, CloseStopTimers, CloseCancelDpcs
<1>2. CASE NeverClosedOff
  <2>1. IInv /\ StageInv /\ dev.countOfTryingToLowerRTS = 0
    BY <1>1, <1>2 DEF LifeIInv, StageInv, PathsEnded, AtRest
  <2>2. /\ dev.startTimerLowerRTSDpc = FALSE /\ lowerRTSTimer.set = FALSE
        /\ dev \in Device /\ lowerRTSTimer \in [set : BOOLEAN, due : BOOLEAN]
    BY <2>1, NothingUnderWay DEF IInv, TypeOK, Device
  <2>3. [dev EXCEPT !.startTimerLowerRTSDpc = FALSE] = dev
    BY <2>2, Zenon DEF Device
  <2>4. [lowerRTSTimer EXCEPT !.set = FALSE] = lowerRTSTimer
    BY <2>2
  <2>5. UNCHANGED <<dev, lowerRTSTimer, isr>>
    BY <1>1, <2>3, <2>4 DEF CloseStopTimers, CloseCancelDpcs
  <2>6. StageInv'
    BY <1>1, <2>1, <2>5
       DEF StageInv, BufferKept, ShutUnlessOpen, IsrEnded, Out2Down, PathsEnded, AtRest
  <2>7. Remembers
    BY <1>2 DEF Remembers
  <2>8. QED
    BY <1>1, <2>5, <2>6, <2>7, PortStep
<1>3. CASE ~NeverClosedOff
  BY <1>1, <1>3 DEF LifeIInv, NeverClosedOff
<1>4. QED
  BY <1>2, <1>3

-----------------------------------------------------------------------------
\* The cycle through D0 puts nothing up that the close has put down: only a port that
\* was open is opened anew.
LEMMA PowerPreserves ==
  LifeIInv /\ (PreInterruptsDisabled \/ D0Exit \/ D0Entry \/ PostInterruptsEnabled)
    => LifeIInv'
<1> SUFFICES ASSUME LifeIInv,
                    PreInterruptsDisabled \/ D0Exit \/ D0Entry \/ PostInterruptsEnabled
             PROVE LifeIInv'
  OBVIOUS
<1>1. /\ UNCHANGED <<lowerRTSTimer, isr>>
      /\ port'.stage = port.stage /\ port'.buffer = port.buffer
      /\ port.history \subseteq port'.history
  <2>1. CASE PreInterruptsDisabled \/ PostInterruptsEnabled
    BY <2>1 DEF LifeIInv, Port, PreInterruptsDisabled, PostInterruptsEnabled
  <2>2. CASE D0Exit
    BY <2>2 DEF LifeIInv, Port, D0Exit, Note
  <2>3. CASE D0Entry
    BY <2>3 DEF LifeIInv, Port, D0Entry
  <2>4. QED
    BY <2>1, <2>2, <2>3
<1>2. Remembers
  BY <1>1 DEF Remembers, NeverClosedOff
<1>3. CASE PreInterruptsDisabled \/ PostInterruptsEnabled
  <2>1. port' \in Port /\ UNCHANGED dev
        /\ port'.out2 = port.out2
        /\ port'.deviceIsOpened = port.deviceIsOpened /\ port'.reopen = port.reopen
    <3>1. CASE PreInterruptsDisabled
      <4>1. port.cycles \in 0 .. MaxCycles /\ port.cycles < MaxCycles
        BY <3>1 DEF LifeIInv, Port, PreInterruptsDisabled
      <4>2. port.cycles + 1 \in 0 .. MaxCycles
        BY <4>1, LifeAssumption
      <4>3. QED
        BY <3>1, <4>2 DEF LifeIInv, Port, PreInterruptsDisabled
    <3>2. CASE PostInterruptsEnabled
      BY <3>2 DEF LifeIInv, Port, PostInterruptsEnabled
    <3>3. QED
      BY <1>3, <3>1, <3>2
  <2>2. StageInv => StageInv'
    BY <1>1, <2>1
       DEF StageInv, BufferKept, ShutUnlessOpen, IsrEnded, Out2Down, PathsEnded, AtRest
  <2>3. QED
    BY <1>1, <1>2, <2>1, <2>2, PortStep
<1>4. CASE D0Exit
  <2>1. port' \in Port /\ ~port'.deviceIsOpened /\ ~port'.out2
        /\ port'.reopen = port.deviceIsOpened /\ dev' = Dark(dev)
    BY <1>4 DEF LifeIInv, Port, D0Exit, Note
  <2>2. Good(dev) => /\ Keeps(dev, Dark(dev)) /\ ~Dark(dev).rts
                     /\ Dark(dev).countOfTryingToLowerRTS = dev.countOfTryingToLowerRTS
    <3> SUFFICES ASSUME Good(dev)
                 PROVE  /\ Keeps(dev, Dark(dev)) /\ ~Dark(dev).rts
                        /\ Dark(dev).countOfTryingToLowerRTS = dev.countOfTryingToLowerRTS
      OBVIOUS
    <3>1. 0 \in Nat /\ 0 <= Depth
      BY SizeAssumption
    <3>2. Dark(dev) \in Device
      BY <3>1, Zenon DEF Good, Dark, Device
    <3>3. /\ Dark(dev).fifo = 0 /\ Dark(dev).thr = FALSE /\ Dark(dev).rts = FALSE
          /\ Dark(dev).startTimerLowerRTSDpc = dev.startTimerLowerRTSDpc
          /\ Dark(dev).countOfTryingToLowerRTS = dev.countOfTryingToLowerRTS
      BY DEF Good, Dark, Device
    <3>4. QED
      BY <3>1, <3>2, <3>3 DEF Good, Keeps, OtherPaths
  <2>3. IInv /\ StageInv => StageInv'
    BY <1>1, <2>1, <2>2, IInvGood
       DEF StageInv, BufferKept, ShutUnlessOpen, IsrEnded, Out2Down, PathsEnded, AtRest
  <2>4. QED
    BY <1>1, <1>2, <2>1, <2>2, <2>3, IInvGood, DeviceStep
<1>5. CASE D0Entry
  <2>1. PICK cleared \in LinesCleared :
          /\ dev' = [IF port.reopen THEN Poke(dev) ELSE dev
                       EXCEPT !.rts = port.reopen /\ port.savedRTS /\ ~cleared]
          /\ port' = [port EXCEPT !.power = "entering", !.deviceIsOpened = @ \/ port.reopen,
                                  !.reopen = FALSE, !.out2 = port.reopen]
    BY <1>5 DEF D0Entry
  <2>2. port' \in Port /\ ~port'.reopen /\ port'.out2 = port.reopen
        /\ (port'.deviceIsOpened <=> port.deviceIsOpened \/ port.reopen)
    BY <2>1 DEF LifeIInv, Port
  <2> DEFINE line == port.reopen /\ port.savedRTS /\ ~cleared
             d == IF port.reopen THEN Poke(dev) ELSE dev
             e == [d EXCEPT !.rts = line]
  <2>3. Good(dev) => Keeps(dev, d)
    BY PokeKeeps, KeepsItself
  <2>4. Good(dev) => d.countOfTryingToLowerRTS = dev.countOfTryingToLowerRTS
    BY DEF Good, Device, Poke
  <2>5. dev' = e /\ line \in BOOLEAN /\ (line => port.reopen)
    BY <2>1
  <2> HIDE DEF d, line
  <2>6. Good(dev) => Keeps(d, e) /\ e.rts = line
                     /\ e.countOfTryingToLowerRTS = d.countOfTryingToLowerRTS
    <3> SUFFICES ASSUME Good(dev)
                 PROVE  Keeps(d, e) /\ e.rts = line
                        /\ e.countOfTryingToLowerRTS = d.countOfTryingToLowerRTS
      OBVIOUS
    <3>1. Good(d)
      BY <2>3 DEF Keeps
    <3>2. {} \in SUBSET {"XOFF", "RTS"}
      OBVIOUS
    <3>3. Keeps(d, e)
      BY <2>5, <3>1, <3>2, RxHoldingKeeps
    <3>4. e.rts = line /\ e.countOfTryingToLowerRTS = d.countOfTryingToLowerRTS
      BY <3>1 DEF Good, Device
    <3>5. QED
      BY <3>3, <3>4
  <2> HIDE DEF e
  <2>7. IInv => Keeps(dev, dev')
    BY <2>3, <2>5, <2>6, IInvGood, KeepsIsTransitive
  <2>8. IInv => (dev'.rts => port.reopen)
                /\ dev'.countOfTryingToLowerRTS = dev.countOfTryingToLowerRTS
    BY <2>4, <2>5, <2>6, IInvGood
  <2>9. IInv /\ StageInv => StageInv'
    BY <1>1, <2>2, <2>8
       DEF StageInv, BufferKept, ShutUnlessOpen, IsrEnded, Out2Down, PathsEnded, AtRest
  <2>10. QED
    BY <1>1, <1>2, <2>2, <2>7, <2>9, DeviceStep
<1>6. QED
  BY <1>3, <1>4, <1>5

-----------------------------------------------------------------------------
\* The inductive invariant of the life of a port.
THEOREM LifeSpecIInv == LifeSpec => []LifeIInv
<1>1. LifeIInv /\ [LifeNext]_lifeVars => LifeIInv'
  <2> SUFFICES ASSUME LifeIInv, [LifeNext]_lifeVars PROVE LifeIInv'
    OBVIOUS
  <2>1. CASE LifeNext
    BY <2>1, LifeISRPreserves, LifeUARTPreserves, RequestsPreserve, LowerRTSPathPreserves,
       CreatePreserves, LifeMarkOpenPreserves, CloseOfPortPreserves, CloseOfUARTPreserves,
       CloseDrainsPreserve, PowerPreserves, Zenon DEF LifeNext, Close
  <2>2. CASE UNCHANGED lifeVars
    <3>1. UNCHANGED <<dev, lowerRTSTimer, isr>> /\ UNCHANGED port
      BY <2>2 DEF lifeVars
    <3>2. port' \in Port /\ Remembers
      BY <3>1 DEF LifeIInv, Remembers, NeverClosedOff
    <3>3. StageInv => StageInv'
      BY <3>1
         DEF StageInv, BufferKept, ShutUnlessOpen, IsrEnded, Out2Down, PathsEnded, AtRest
    <3>4. QED
      BY <3>1, <3>2, <3>3, PortStep
  <2>3. QED
    BY <2>1, <2>2
<1>2. QED
  BY <1>1, LifeInitIInv, PTL DEF LifeSpec

\* SerialISR takes a port for open only while it has its interrupt buffer, whatever
\* close and cycles through D0 have interleaved (SerialFileCloseWorker frees the buffer,
\* SerialEvtDeviceD0Entry may open the port anew).
THEOREM LifeIsrHasBuffer == LifeSpec => []IsrHasBuffer
<1>1. LifeIInv => IsrHasBuffer
  BY DEF LifeIInv, IsrHasBuffer, StageInv, BufferKept, ShutUnlessOpen, IsrEnded
<1>2. QED
  BY <1>1, LifeSpecIInv, PTL

\* After a close nothing of the session is left: no line is up, no interrupt comes, and
\* no path of execution that lowers RTS is in a queue or due.
THEOREM LifeClosedIsQuiet == LifeSpec => []ClosedIsQuiet
<1>1. LifeIInv => ClosedIsQuiet
  <2> SUFFICES ASSUME LifeIInv, port.stage = "none", NeverClosedOff
               PROVE  /\ ~port.deviceIsOpened /\ ~port.reopen /\ ~port.out2 /\ ~dev.rts
                      /\ isr = "off" /\ dev.countOfTryingToLowerRTS = 0
                      /\ ~dev.startTimerLowerRTSDpc
                      /\ ~lowerRTSTimer.set /\ ~lowerRTSTimer.due
    BY DEF ClosedIsQuiet
  <2>1. IInv /\ StageInv
    BY DEF LifeIInv
  <2>2. /\ ~port.deviceIsOpened /\ ~port.reopen /\ ~port.out2 /\ ~dev.rts
        /\ isr = "off" /\ dev.countOfTryingToLowerRTS = 0
    BY <2>1 DEF StageInv, ShutUnlessOpen, IsrEnded, Out2Down, PathsEnded, AtRest
  <2>3. QED
    BY <2>1, <2>2, NothingUnderWay
<1>2. QED
  BY <1>1, LifeSpecIInv, PTL

\* What the close waits for is always under way: the count of SerialFileCloseWorker's
\* last wait is that of the DPC, the timer and the callback, at every stage.
THEOREM LifeCloseWaitsForSomebody == LifeSpec => []CloseWaitsForSomebody
<1>1. LifeIInv => CloseWaitsForSomebody
  BY DEF LifeIInv, CloseWaitsForSomebody, IInv
<1>2. QED
  BY <1>1, LifeSpecIInv, PTL
-----------------------------------------------------------------------------
(* What the routines of the transmitter leave to be sent.                  *)

\* The write and the immediate character that the ISR has to send stay what they are.
SameSend(d, e) ==
  e.writeLength = d.writeLength /\ e.transmitImmediate = d.transmitImmediate

LEMMA CalmSends ==
  ASSUME NEW d, NEW e, Calm(d, e)
  PROVE  SameSend(d, e)
  BY DEF Calm, SameFlow, SameSend

LEMMA ProdXonXoffSends ==
  ASSUME NEW d, Good(d), NEW sendXon \in BOOLEAN
  PROVE  SameSend(d, ProdXonXoff(d, sendXon))
<1> DEFINE poked == PokeIf(~d.sendXonChar /\ ~d.sendXoffChar, d)
           opposite == ~sendXon
           e == [poked EXCEPT !.sendXonChar = sendXon, !.sendXoffChar = opposite]
<1>1. SameSend(d, poked) /\ Good(poked)
  BY PokeIfIsCalm, PokeIfKeeps, CalmSends DEF Keeps
<1>2. e = ProdXonXoff(d, sendXon)
  BY DEF ProdXonXoff
<1> HIDE DEF poked, opposite
<1>3. SameSend(poked, e)
  BY <1>1 DEF Good, Device, SameSend
<1>4. QED
  BY <1>1, <1>2, <1>3 DEF SameSend

LEMMA NewRTSSends ==
  ASSUME NEW d, Good(d), OtherPaths(d) >= 0, NEW new \in HandFlow, NEW error
  PROVE  SameSend(d, NewRTS(d, new, error))
<1> DEFINE free == [d EXCEPT !.rxHolding = @ \ {"RTS"}]
           toggling == [free EXCEPT !.handFlow.rts = "TOGGLE"]
           checked == ProcessLSR(toggling, error)
           read == IF "BREAK" \in d.txHolding THEN toggling ELSE checked
<1>1. Keeps(d, free) /\ SameSend(d, free)
  <2>1. d.rxHolding \ {"RTS"} \in SUBSET {"XOFF", "RTS"}
    BY DEF Good, Device
  <2>2. QED
    BY <2>1, RxHoldingKeeps DEF Good, Device, SameSend
<1> HIDE DEF free
<1>2. Keeps(free, toggling) /\ SameSend(free, toggling)
  <2> DEFINE mode == [free.handFlow EXCEPT !.rts = "TOGGLE"]
  <2>1. free.handFlow \in HandFlow
    BY <1>1 DEF Keeps, Good, Device
  <2>2. mode \in HandFlow
    BY <2>1, Zenon DEF HandFlow
  <2>3. toggling = [free EXCEPT !.handFlow = mode]
    OBVIOUS
  <2> HIDE DEF mode, toggling
  <2>4. QED
    BY <1>1, <2>2, <2>3, HandFlowKeeps DEF Keeps, Good, Device, SameSend
<1> HIDE DEF toggling
<1>3. Keeps(toggling, checked) /\ SameSend(toggling, checked)
  BY <1>2, ProcessLSRKeeps, ProcessLSRIsCalm, CalmSends DEF Keeps
<1>4. Good(read) /\ OtherPaths(read) >= 0 /\ SameSend(d, read)
  BY <1>1, <1>2, <1>3 DEF Keeps, SameSend
<1> HIDE DEF read
<1>5. /\ SameSend(d, [read EXCEPT !.rts = TRUE])
      /\ SameSend(d, [d EXCEPT !.rts = TRUE])
      /\ SameSend(d, [d EXCEPT !.rts = FALSE, !.rxHolding = @ \cup {"RTS"}])
  BY <1>4 DEF Good, Device, SameSend
<1>6. SameSend(d, [free EXCEPT !.rts = (new.rts = "CONTROL")])
  BY <1>1 DEF Keeps, Good, Device, SameSend
<1>7. SameSend(d, TryToLowerRTS(read, error))
  BY <1>4, TryToLowerRTSIsCalm, CalmSends DEF SameSend
<1>8. new.rts \in {"DISABLE", "CONTROL", "HANDSHAKE", "TOGGLE"}
  BY DEF HandFlow
<1>9. CASE d.handFlow.rts = new.rts
  BY <1>9 DEF NewRTS, SameSend
<1>10. CASE d.handFlow.rts # new.rts /\ new.rts = "HANDSHAKE"
  BY <1>5, <1>10 DEF NewRTS
<1>11. CASE d.handFlow.rts # new.rts /\ new.rts = "TOGGLE"
  BY <1>5, <1>7, <1>11 DEF NewRTS, read, checked, toggling, free
<1>12. CASE d.handFlow.rts # new.rts /\ new.rts \in {"CONTROL", "DISABLE"}
  BY <1>6, <1>12 DEF NewRTS, free
<1>13. QED
  BY <1>8, <1>9, <1>10, <1>11, <1>12

\* The other parts of a new setting ask for an Xon or an Xoff at most.
LEMMA NewAutoSends ==
  ASSUME NEW d, Good(d), NEW new
  PROVE  SameSend(d, NewAutoReceive(d, new)) /\ SameSend(d, NewAutoTransmit(d, new))
<1> DEFINE on == [d EXCEPT !.rxHolding = @ \cup {"XOFF"}]
           off == [d EXCEPT !.rxHolding = @ \ {"XOFF"}]
           free == [d EXCEPT !.txHolding = @ \ {"XOFF"}]
<1>1. /\ d.rxHolding \cup {"XOFF"} \in SUBSET {"XOFF", "RTS"}
      /\ d.rxHolding \ {"XOFF"} \in SUBSET {"XOFF", "RTS"}
      /\ d.txHolding \ {"XOFF"} \in SUBSET {"XOFF", "CTS", "BREAK"}
  BY DEF Good, Device
<1>2. Good(on) /\ Good(off) /\ Good(free)
  BY <1>1, RxHoldingKeeps, TxHoldingKeeps DEF Keeps
<1>3. SameSend(d, on) /\ SameSend(d, off) /\ SameSend(d, free)
  BY DEF Good, Device, SameSend
<1>4. /\ NewAutoReceive(d, new) \in {d, ProdXonXoff(on, FALSE), ProdXonXoff(off, TRUE)}
      /\ NewAutoTransmit(d, new) \in {d, ProdXonXoff(free, TRUE)}
  BY DEF NewAutoReceive, NewAutoTransmit
<1> HIDE DEF on, off, free
<1>5. /\ SameSend(on, ProdXonXoff(on, FALSE)) /\ SameSend(off, ProdXonXoff(off, TRUE))
      /\ SameSend(free, ProdXonXoff(free, TRUE))
  BY <1>2, ProdXonXoffSends
<1>6. QED
  BY <1>3, <1>4, <1>5 DEF SameSend

LEMMA SetupNewHandFlowSends ==
  ASSUME NEW d, Good(d), OtherPaths(d) >= 0, NEW new \in HandFlow, NEW error
  PROVE  SameSend(d, SetupNewHandFlow(d, new, error))
<1> DEFINE a == NewRTS(d, new, error)
           b == NewAutoReceive(a, new)
           c == NewAutoTransmit(b, new)
<1>1. SameSend(d, a) /\ Good(a)
  BY NewRTSSends, NewRTSKeeps DEF Keeps
<1> HIDE DEF a
<1>2. SameSend(a, b) /\ Good(b)
  BY <1>1, NewAutoSends, NewAutoReceiveKeeps DEF Keeps
<1> HIDE DEF b
<1>3. SameSend(b, c) /\ Good(c)
  BY <1>2, NewAutoSends, NewAutoTransmitKeeps DEF Keeps
<1> HIDE DEF c
<1>4. SameSend(c, [c EXCEPT !.handFlow = new])
  BY <1>3 DEF Good, Device, SameSend
<1>5. SetupNewHandFlow(d, new, error) = [c EXCEPT !.handFlow = new]
  BY DEF SetupNewHandFlow, a, b, c
<1>6. QED
  BY <1>1, <1>2, <1>3, <1>4, <1>5 DEF SameSend

\* SerialReset leaves no reason to hold that the CTS line does not justify, and gives the
\* ISR nothing to send.
LEMMA ResetSound ==
  ASSUME NEW d, Good(d), OtherPaths(d) >= 0, NEW error
  PROVE  LET e == Reset(d, error) IN
         /\ SameSend(d, e) /\ e.holdingEmpty = TRUE /\ CtsHeld(e)
         /\ Told(d) => Told(e)
<1> DEFINE cleared == [d EXCEPT !.fifo = 0, !.ctsChanged = FALSE]
           other == [cleared EXCEPT !.handFlow = Different(@)]
           new == SetupNewHandFlow(other, cleared.handFlow, error)
           set == HandleModemUpdate(new, FALSE)
           e == [set EXCEPT !.thr = FALSE, !.holdingEmpty = TRUE]
           Before(f, g) == SameSend(f, g) /\ (Told(f) => Told(g))
<1>1. Keeps(d, cleared) /\ Before(d, cleared)
  <2>1. 0 \in Nat /\ 0 <= Depth /\ 0 <= TxTrigger
    BY SizeAssumption
  <2>2. cleared \in Device
    BY <2>1, Zenon DEF Good, Device
  <2>3. /\ cleared.fifo = 0 /\ cleared.startTimerLowerRTSDpc = d.startTimerLowerRTSDpc
        /\ cleared.countOfTryingToLowerRTS = d.countOfTryingToLowerRTS
    BY DEF Good, Device
  <2>4. Before(d, cleared)
    BY DEF Good, Device, SameSend, Told
  <2> HIDE DEF cleared
  <2>5. QED
    BY <2>1, <2>2, <2>3, <2>4 DEF Good, Keeps, OtherPaths
<1> HIDE DEF cleared
<1>2. cleared.handFlow \in HandFlow /\ Different(cleared.handFlow) \in HandFlow
  <2>1. cleared.handFlow \in HandFlow
    BY <1>1 DEF Keeps, Good, Device
  <2>2. QED
    BY <2>1 DEF Different, HandFlow
<1>3. Keeps(cleared, other) /\ Before(cleared, other)
  BY <1>1, <1>2, HandFlowKeeps DEF Keeps, Good, Device, SameSend, Told
<1> HIDE DEF other
<1>4. OtherPaths(other) >= 0 /\ Good(other)
  BY <1>1, <1>3 DEF Keeps
<1>5. Keeps(other, new) /\ Before(other, new)
  BY <1>2, <1>4, SetupNewHandFlowKeeps, SetupNewHandFlowSends, SetupNewHandFlowSound
     DEF KeepsSound
<1> HIDE DEF new
<1>6. Good(set) /\ Before(new, set) /\ CtsHeld(set)
  BY <1>5, HandleModemUpdateKeeps, HandleModemUpdateSound
     DEF Keeps, KeepsSound, SameWork, SameSend
<1> HIDE DEF set
<1>7. Before(set, e) /\ e.holdingEmpty = TRUE /\ (CtsHeld(set) => CtsHeld(e))
  BY <1>6 DEF Good, Device, SameSend, Told, CtsHeld
<1> HIDE DEF e
<1>8. Reset(d, error) = e
  BY DEF Reset, SetupHandFlowOfClosed, cleared, other, new, set, e
<1>9. Before(d, e)
  BY <1>1, <1>3, <1>5, <1>6, <1>7 DEF SameSend
<1>10. QED
  BY <1>6, <1>7, <1>8, <1>9

LEMMA PutCharSends ==
  ASSUME NEW d, Good(d)
  PROVE  SameSend(d, PutChar(d))
<1> DEFINE full == d.handFlow.rts = "HANDSHAKE" /\ AlmostFull(d)
           stops == d.handFlow.autoReceive /\ "XOFF" \notin d.rxHolding /\ AlmostFull(d)
           line == d.rts /\ "RTS" \in d.rxHolding
           withRTS == [d EXCEPT !.rxHolding = @ \cup {"RTS"}, !.rts = line]
           lines == IF full THEN withRTS ELSE d
           withXoff == [lines EXCEPT !.rxHolding = @ \cup {"XOFF"}]
           held == IF stops THEN ProdXonXoff(withXoff, FALSE) ELSE lines
           n == IF held.charsInInterruptBuffer < BufferSize
                  THEN held.charsInInterruptBuffer + 1 ELSE held.charsInInterruptBuffer
<1>1. d.rxHolding \cup {"RTS"} \in SUBSET {"XOFF", "RTS"} /\ line \in BOOLEAN
  BY DEF Good, Device
<1>2. PutChar(d) = [held EXCEPT !.charsInInterruptBuffer = n]
  BY DEF PutChar
<1> HIDE DEF line
<1>3. Good(withRTS) /\ SameSend(d, withRTS)
  <2>1. Good(withRTS)
    BY <1>1, RxHoldingKeeps DEF Keeps
  <2>2. SameSend(d, withRTS)
    BY DEF Good, Device, SameSend
  <2>3. QED
    BY <2>1, <2>2
<1> HIDE DEF withRTS
<1>4. Good(lines) /\ SameSend(d, lines)
  BY <1>3 DEF SameSend
<1> HIDE DEF lines
<1>5. lines.rxHolding \cup {"XOFF"} \in SUBSET {"XOFF", "RTS"}
  BY <1>4 DEF Good, Device
<1>6. Good(withXoff) /\ SameSend(lines, withXoff)
  <2>1. Good(withXoff)
    BY <1>4, <1>5, RxHoldingKeeps DEF Keeps
  <2>2. SameSend(lines, withXoff)
    BY <1>4 DEF Good, Device, SameSend
  <2>3. QED
    BY <2>1, <2>2
<1> HIDE DEF withXoff
<1>7. /\ Good(ProdXonXoff(withXoff, FALSE))
      /\ SameSend(withXoff, ProdXonXoff(withXoff, FALSE))
  BY <1>6, ProdXonXoffKeeps, ProdXonXoffSends DEF Keeps
<1>8. Good(held) /\ SameSend(d, held)
  BY <1>4, <1>6, <1>7 DEF SameSend
<1> HIDE DEF held, n
<1>9. SameSend(held, PutChar(d))
  BY <1>2, <1>8 DEF Good, Device, SameSend
<1>10. QED
  BY <1>8, <1>9 DEF SameSend

LEMMA ReceivedSends ==
  ASSUME NEW d, Good(d), NEW e \in Received(d)
  PROVE  SameSend(d, e)
<1>1. SameSend(d, ReceiveXon(d))
  BY DEF ReceiveXon, Good, Device, SameSend
<1>2. SameSend(d, ReceiveXoff(d))
  <2> DEFINE f == [d EXCEPT !.txHolding = @ \cup {"XOFF"}]
  <2>1. d.txHolding \cup {"XOFF"} \in SUBSET {"XOFF", "CTS", "BREAK"}
    BY DEF Good, Device
  <2>2. Good(f) /\ SameSend(d, f)
    BY <2>1, TxHoldingKeeps DEF Keeps, Good, Device, SameSend
  <2> HIDE DEF f
  <2>3. SameSend(f, ReceiveXoff(d))
    BY <2>2, StartLoweringIfIsCalm, CalmSends DEF ReceiveXoff, f
  <2>4. QED
    BY <2>2, <2>3 DEF SameSend
<1>3. QED
  BY <1>1, <1>2, PutCharSends DEF Received, Receive, SameSend

\* With nothing to send the transmit interrupt sends an Xon or an Xoff, or nothing.
LEMMA TransmitStuffSends ==
  ASSUME NEW d, Good(d), d.fifo <= TxTrigger, ~Work(d)
  PROVE  ~Work(TransmitStuff(d))
<1> DEFINE empty == [d EXCEPT !.holdingEmpty = TRUE]
           e == IF d.handFlow.cts THEN HandleModemUpdate(empty, TRUE) ELSE empty
           t == Transmit(e, 1)
<1>1. Good(empty) /\ SameWork(d, empty)
  <2>1. empty \in Device
    BY Zenon DEF Good, Device
  <2>2. SameFifoAndCount(d, empty) /\ SameWork(d, empty)
    BY DEF Good, Device, SameFifoAndCount, SameWork
  <2> HIDE DEF empty
  <2>3. QED
    BY <2>1, <2>2, SameKeeps DEF Keeps
<1> HIDE DEF empty
<1>2. Good(e) /\ SameWork(d, e)
  BY <1>1, HandleModemUpdateKeeps, HandleModemUpdateSound DEF Keeps, SameWork
<1>3. e.fifo + 1 <= Depth
  <2>1. e.fifo = d.fifo
    BY <1>2 DEF SameWork
  <2> HIDE DEF e
  <2>2. QED
    BY <2>1, SizeAssumption DEF Good, Device
<1>4. TransmitStuff(d) \in {empty, e, SendXon(e), SendXoff(e)}
  <2>1. ~e.transmitImmediate
    BY <1>2 DEF SameWork, Work
  <2>2. CASE ~d.sendXonChar /\ ~d.sendXoffChar
    BY <2>2 DEF TransmitStuff, empty
  <2>3. CASE d.sendXonChar \/ d.sendXoffChar
    <3>1. TransmitStuff(d) =
            IF e.sendXonChar /\ e.txHolding \subseteq {"XOFF"} THEN SendXon(e)
            ELSE IF e.sendXoffChar /\ e.txHolding = {} THEN SendXoff(e)
            ELSE IF e.transmitImmediate /\ e.txHolding \subseteq {"XOFF"} THEN SendImmediate(e)
            ELSE IF e.txHolding = {} THEN SendWrite(e)
            ELSE e
      BY <2>3 DEF TransmitStuff, e, empty
    <3>2. e.txHolding = {} => e.sendXonChar \/ e.sendXoffChar
      BY <1>2, <2>3 DEF SameWork
    <3>3. e.txHolding = {} => e.txHolding \subseteq {"XOFF"}
      OBVIOUS
    <3> HIDE DEF e, empty
    <3>4. QED
      BY <2>1, <3>1, <3>2, <3>3
  <2>4. QED
    BY <2>2, <2>3
<1> HIDE DEF e
<1>5. SameSend(e, t) /\ Good(t)
  <2>1. Good(t)
    BY <1>2, <1>3, TransmitSends
  <2> DEFINE line == e.rts \/ Toggling(e)
             f == [e EXCEPT !.fifo = @ + 1, !.thr = FALSE, !.holdingEmpty = FALSE,
                            !.rts = line]
  <2>2. SameSend(e, f) /\ f.startTimerLowerRTSDpc = e.startTimerLowerRTSDpc
    BY <1>2 DEF Good, Device, SameSend
  <2>3. t = StartLoweringIf(TRUE, f)
    BY DEF Transmit
  <2>4. f \in Device
    <3>1. e.fifo + 1 \in Nat /\ line \in BOOLEAN
      BY <1>2 DEF Good, Device
    <3> HIDE DEF line
    <3>2. QED
      BY <1>2, <3>1, Zenon DEF Good, Device
  <2> HIDE DEF f, t
  <2>5. SameSend(f, t)
    BY <2>3, <2>4 DEF StartLoweringIf, StartLowering, Device, SameSend
  <2>6. QED
    BY <2>1, <2>2, <2>5 DEF SameSend, t
<1>6. SameSend(e, SendXon(e)) /\ SameSend(e, SendXoff(e))
  <2> DEFINE held == IF e.handFlow.xoffContinue THEN t.txHolding ELSE t.txHolding \cup {"XOFF"}
             xon == [t EXCEPT !.sendXonChar = FALSE, !.told = "Xon",
                              !.txHolding = @ \ {"XOFF"}, !.rxHolding = @ \ {"XOFF"}]
             xoff == [t EXCEPT !.sendXoffChar = FALSE, !.told = "Xoff", !.txHolding = held]
  <2>1. SendXon(e) = xon /\ SendXoff(e) = xoff
    BY DEF SendXon, SendXoff
  <2> HIDE DEF t, held
  <2>2. SameSend(t, xon) /\ SameSend(t, xoff)
    BY <1>5 DEF Good, Device, SameSend, t
  <2> HIDE DEF xon, xoff
  <2>3. QED
    BY <1>5, <2>1, <2>2 DEF SameSend, t
<1>7. ~Work(empty) /\ ~Work(e)
  BY <1>1, <1>2 DEF SameWork, Work
<1> HIDE DEF t
<1>8. QED
  BY <1>4, <1>6, <1>7 DEF SameSend, Work

\* So does every pass of SerialISR.
LEMMA ISRMakesNoWork ==
  ASSUME IInv, ISR, ~Work(dev)
  PROVE  ~Work(dev')
<1>1. Good(dev)
  BY IInvGood
<1>2. ASSUME NEW d, SameSend(dev, d) PROVE ~Work(d)
  BY <1>2 DEF SameSend, Work
<1>3. CASE LineStatusInterrupt
  BY <1>1, <1>2, <1>3, ProcessLSRIsCalm, CalmSends DEF LineStatusInterrupt
<1>4. CASE ReceiveInterrupt
  <2>1. PICK d \in Received(dev), error \in LineErrors : dev' = ProcessLSR(d, error)
    BY <1>4 DEF ReceiveInterrupt
  <2>2. Good(d) /\ SameSend(dev, d)
    BY <1>1, <2>1, ReceivedKeeps, ReceivedSends DEF Keeps
  <2>3. SameSend(d, dev')
    BY <2>1, <2>2, ProcessLSRIsCalm, CalmSends
  <2>4. QED
    BY <1>2, <2>2, <2>3 DEF SameSend
<1>5. CASE TransmitInterrupt
  <2> DEFINE d == [dev EXCEPT !.thr = FALSE]
  <2>1. d \in Device
    BY <1>1, Zenon DEF Good, Device
  <2>2. d.fifo = dev.fifo /\ d.thr = FALSE /\ SameSend(dev, d)
    BY <1>1 DEF Good, Device, SameSend
  <2>3. dev' = TransmitStuff(d) /\ dev.thr
    BY <1>5 DEF TransmitInterrupt
  <2> HIDE DEF d
  <2>4. Good(d) /\ d.fifo <= TxTrigger
    BY <1>1, <2>1, <2>2, <2>3 DEF Good
  <2>5. QED
    BY <1>2, <2>2, <2>3, <2>4, TransmitStuffSends
<1>6. CASE ModemInterrupt
  BY <1>1, <1>2, <1>6, HandleModemUpdateSound DEF ModemInterrupt, SameWork, SameSend
<1>7. CASE NoInterruptPending
  BY <1>7 DEF NoInterruptPending
<1>8. CASE EndOfISR
  <2>1. PICK error \in LineErrors :
          LET d == ProcessLSR(dev, error)
          IN IF d.fifo = 0 /\ d.txHolding = {} /\ Work(d)
               THEN dev' = TransmitStuff(d) /\ isr' = "loop"
               ELSE dev' = d /\ isr' = "off"
    BY <1>8 DEF EndOfISR
  <2>2. ~Work(ProcessLSR(dev, error))
    BY <1>1, <1>2, ProcessLSRIsCalm, CalmSends
  <2>3. QED
    BY <2>1, <2>2
<1>9. QED
  BY <1>3, <1>4, <1>5, <1>6, <1>7, <1>8 DEF ISR
-----------------------------------------------------------------------------
(* An open port works.                                                      *)

\* The closes and opens that found no device are left out.
NeverOff == port.history \subseteq {"dropped", "Xon due"}

\* An open port without power is to be opened again; with power its interrupts reach
\* the driver, and no wakeup of the transmitter is lost.  CTS may hold it only where
\* the setting says so, and not beyond the next interrupt.
OpenSound ==
  port.stage = "open" =>
    /\ CtsHeld(dev)
    /\ port.power = "Dx" => port.reopen
    /\ port.power # "Dx" =>
         /\ port.deviceIsOpened /\ port.out2
         /\ Restarts(dev) /\ StaleWoken(dev)
         /\ isr = "off" => Awake(dev)

\* A port that is not open has nothing to send: the next one starts without a wakeup.
IdleUnlessOpen == port.stage # "open" => ~Work(dev)

\* Inductive together with LifeIInv.
OpenInv == NeverOff => OpenSound /\ IdleUnlessOpen

\* What a step may rely on.
OpenPort == port \in Port /\ IInv /\ StageInv /\ OpenSound /\ IdleUnlessOpen

\* A step in which the port does not change.
LEMMA OpenStays ==
  ASSUME OpenPort, UNCHANGED port, ~Work(dev) => ~Work(dev'),
         port.stage = "open" => KeepsFlow(dev, dev') \/ (port.power = "Dx" /\ CtsHeld(dev')),
         port.stage = "open" /\ port.power # "Dx" /\ isr' = "off" =>
           Awake(dev') \/ (isr = "off" /\ KeepsAwake(dev, dev'))
  PROVE  OpenSound' /\ IdleUnlessOpen'
<1>1. IdleUnlessOpen'
  BY DEF OpenPort, IdleUnlessOpen
<1>2. port.stage = "open" => CtsHeld(dev')
  BY DEF OpenPort, OpenSound, KeepsFlow, KeepsHold
<1>3. port.stage = "open" /\ port.power # "Dx" => Restarts(dev') /\ StaleWoken(dev')
  BY DEF OpenPort, OpenSound, KeepsFlow, KeepsHold, KeepsSound
<1>4. port.stage = "open" /\ port.power # "Dx" /\ isr' = "off" => Awake(dev')
  BY DEF OpenPort, OpenSound, KeepsAwake
<1>5. QED
  BY <1>1, <1>2, <1>3, <1>4 DEF OpenPort, OpenSound

\* The interrupts: of an open port SerialISR, of others the branch that finds none.
LEMMA ISROpen ==
  ASSUME OpenPort, OpenISR \/ ClosedISR
  PROVE  OpenSound' /\ IdleUnlessOpen'
<1>1. Good(dev)
  BY IInvGood DEF OpenPort
<1>2. CASE OpenISR
  <2>1. IInv /\ ISR /\ UNCHANGED port
    BY <1>2 DEF OpenPort, OpenISR
  <2>2. QED
    BY <2>1, ISRFlow, ISRMakesNoWork, OpenStays
<1>3. CASE ClosedISR
  <2> DEFINE line == dev.holdingEmpty \/ dev.thr
             e == [dev EXCEPT !.thr = FALSE, !.ctsChanged = FALSE, !.holdingEmpty = line]
  <2>1. dev' = e /\ UNCHANGED <<isr, port>> /\ port.stage # "open"
    BY <1>3 DEF ClosedISR, Powered, OpenPort, OpenSound
  <2>2. SameSend(dev, e)
    BY <1>1 DEF Good, Device, SameSend
  <2> HIDE DEF e
  <2>3. QED
    BY <2>1, <2>2, OpenStays DEF SameSend, Work
<1>4. QED
  BY <1>2, <1>3

\* The UART, the lines, and the path of execution that lowers RTS.
LEMMA UARTOpen ==
  ASSUME OpenPort, UART \/ ChangeCTSAsleep \/ LowerRTSPath
  PROVE  OpenSound' /\ IdleUnlessOpen'
<1>1. Good(dev) /\ IInv
  BY IInvGood DEF OpenPort
<1>2. CASE UART
  <2>1. KeepsAll(dev, dev') /\ isr' = isr /\ UNCHANGED port
    BY <1>1, <1>2, UARTFlow DEF UART
  <2>2. SameSend(dev, dev')
    BY <1>1, <1>2 DEF UART, Shift, ChangeCTS, Good, Device, SameSend
  <2>3. QED
    BY <2>1, <2>2, OpenStays DEF KeepsAll, SameSend, Work
<1>3. CASE ChangeCTSAsleep
  <2> DEFINE line == ~dev.cts
             e == [dev EXCEPT !.cts = line]
  <2>1. dev' = e /\ UNCHANGED port /\ port.power = "Dx"
    BY <1>3 DEF ChangeCTSAsleep, Powered
  <2>2. SameSend(dev, e) /\ (CtsHeld(dev) => CtsHeld(e))
    BY <1>1 DEF Good, Device, SameSend, CtsHeld
  <2> HIDE DEF e
  <2>3. port.stage = "open" => CtsHeld(e)
    BY <2>2 DEF OpenPort, OpenSound
  <2>4. QED
    BY <2>1, <2>2, <2>3, OpenStays DEF SameSend, Work
<1>4. CASE LowerRTSPath
  <2>1. Calm(dev, dev') /\ isr' = isr /\ UNCHANGED port
    BY <1>1, <1>4, PathsFlow DEF LowerRTSPath
  <2>2. KeepsAll(dev, dev') /\ SameSend(dev, dev')
    BY <2>1, CalmSound, CalmSends
  <2>3. QED
    BY <2>1, <2>2, OpenStays DEF KeepsAll, SameSend, Work
<1>5. QED
  BY <1>2, <1>3, <1>4

\* The requests of an open port, and the completion of its writes in any power state.
LEMMA RequestsOpen ==
  ASSUME OpenPort, Requests \/ Completions
  PROVE  OpenSound' /\ IdleUnlessOpen'
<1>1. port.stage = "open" /\ UNCHANGED port /\ IInv
  BY DEF Requests, Completions, OpenPort
<1>2. KeepsAll(dev, dev') /\ isr' = isr
  BY <1>1, WritesFlow, EndWriteFlow, QueueFlow, ControlsFlow DEF Requests, Completions
<1>3. IdleUnlessOpen'
  BY <1>1 DEF IdleUnlessOpen
<1>4. CtsHeld(dev) /\ CtsHeld(dev')
  BY <1>1, <1>2 DEF OpenPort, OpenSound, KeepsAll, KeepsFlow, KeepsHold
<1>5. port.power # "Dx" =>
        /\ Restarts(dev') /\ StaleWoken(dev')
        /\ isr' = "off" => Awake(dev')
  BY <1>1, <1>2, <1>4 DEF OpenPort, OpenSound, KeepsAll, KeepsFlow, KeepsSound, KeepsHold,
                          KeepsAwake
<1>6. QED
  BY <1>1, <1>3, <1>4, <1>5 DEF OpenPort, OpenSound

\* The open, and what precedes it.
LEMMA CreateOpen ==
  ASSUME OpenPort, NeverOff', Create \/ CreateFails \/ MarkOpen
  PROVE  OpenSound' /\ IdleUnlessOpen'
<1>1. Good(dev) /\ OtherPaths(dev) >= 0
  BY IInvGood DEF OpenPort
<1>2. CASE Create \/ CreateFails
  <2>1. SameSend(dev, Fresh(dev))
    BY <1>1 DEF Good, Device, Fresh, SameSend
  <2>2. dev' \in {dev, Fresh(dev)} /\ port.stage # "open" /\ port'.stage # "open"
    BY <1>2 DEF OpenPort, Port, Create, CreateFails
  <2>3. QED
    BY <2>1, <2>2 DEF OpenPort, OpenSound, IdleUnlessOpen, SameSend, Work
<1>3. CASE MarkOpen
  <2>1. PICK error \in LineErrors : dev' = [Reset(dev, error) EXCEPT !.rts = @ /\ Powered]
    BY <1>3 DEF MarkOpen
  <2> DEFINE d == Reset(dev, error)
             line == d.rts /\ Powered
             e == [d EXCEPT !.rts = line]
  <2>2. Good(d) /\ SameSend(dev, d) /\ d.holdingEmpty = TRUE /\ CtsHeld(d)
    BY <1>1, ResetKeeps, ResetSound DEF Keeps
  <2>3. dev' = e
    BY <2>1
  <2> HIDE DEF d, line
  <2>4. SameSend(dev, e) /\ Restarts(e) /\ CtsHeld(e)
    BY <2>2 DEF Good, Device, SameSend, Restarts, CtsHeld
  <2> HIDE DEF e
  <2>5. ~Work(e)
    BY <1>3, <2>4 DEF MarkOpen, OpenPort, IdleUnlessOpen, SameSend, Work
  <2>6. StaleWoken(e) /\ Awake(e)
    BY <2>5 DEF StaleWoken, Awake
  <2>7. /\ port'.stage = "open" /\ port'.power = port.power
        /\ port'.deviceIsOpened /\ port'.out2 = Powered
        /\ port'.history = Note("off open", ~Powered)
    BY <1>3 DEF MarkOpen, OpenPort, Port
  <2>8. Powered
    BY <2>7 DEF NeverOff, Note
  <2>9. QED
    BY <2>3, <2>4, <2>6, <2>7, <2>8 DEF OpenSound, IdleUnlessOpen, Powered
<1>4. QED
  BY <1>2, <1>3

\* The close: its start finds no request, and no step of it makes one.
LEMMA CloseOpen ==
  ASSUME OpenPort, CloseBegin \/ Close
  PROVE  OpenSound' /\ IdleUnlessOpen'
<1>1. Good(dev)
  BY IInvGood DEF OpenPort
<1>2. port'.stage # "open"
  BY DEF OpenPort, Port, CloseBegin, Close, CloseTurnOffBreak, MarkClose, CloseSendXon,
         CloseEmpty, CloseLowerRTS, CloseFreeBuffer, CloseStopTimers, CloseCancelDpcs
<1>3. CASE CloseBegin
  BY <1>2, <1>3 DEF CloseBegin, NoRequests, Work, OpenSound, IdleUnlessOpen
<1>4. CASE Close
  <2>1. port.stage # "open"
    BY <1>4 DEF Close, CloseTurnOffBreak, MarkClose, CloseSendXon, CloseEmpty,
                CloseLowerRTS, CloseFreeBuffer, CloseStopTimers, CloseCancelDpcs
  <2>2. SameSend(dev, dev')
    BY <1>1, <1>4 DEF Good, Device, SameSend, Close, CloseTurnOffBreak, MarkClose,
                      CloseSendXon, CloseEmpty, CloseLowerRTS, CloseFreeBuffer,
                      CloseStopTimers, CloseCancelDpcs
  <2>3. QED
    BY <1>2, <2>1, <2>2 DEF OpenPort, OpenSound, IdleUnlessOpen, SameSend, Work
<1>5. QED
  BY <1>3, <1>4

\* The cycles through D0: the state machine is refired.
LEMMA PowerOpen ==
  ASSUME OpenPort, PreInterruptsDisabled \/ D0Exit \/ D0Entry \/ PostInterruptsEnabled
  PROVE  OpenSound' /\ IdleUnlessOpen'
<1>1. Good(dev)
  BY IInvGood DEF OpenPort
<1>2. CASE PreInterruptsDisabled \/ PostInterruptsEnabled
  <2>1. /\ UNCHANGED <<dev, isr>> /\ port'.stage = port.stage /\ port'.out2 = port.out2
        /\ port'.deviceIsOpened = port.deviceIsOpened
        /\ port.power # "Dx" /\ port'.power # "Dx"
    BY <1>2 DEF OpenPort, Port, PreInterruptsDisabled, PostInterruptsEnabled
  <2>2. QED
    BY <2>1 DEF OpenPort, OpenSound, IdleUnlessOpen
<1>3. CASE D0Exit
  <2>1. /\ dev' = Dark(dev) /\ port'.stage = port.stage /\ port'.power = "Dx"
        /\ port'.reopen = port.deviceIsOpened /\ port.power # "Dx"
    BY <1>3 DEF OpenPort, Port, D0Exit
  <2>2. SameSend(dev, Dark(dev)) /\ (CtsHeld(dev) => CtsHeld(Dark(dev)))
    BY <1>1 DEF Good, Device, Dark, SameSend, CtsHeld
  <2>3. QED
    BY <2>1, <2>2 DEF OpenPort, OpenSound, IdleUnlessOpen, SameSend, Work
<1>4. CASE D0Entry
  <2>1. PICK cleared \in LinesCleared :
          /\ dev' = [IF port.reopen THEN Poke(dev) ELSE dev
                       EXCEPT !.rts = port.reopen /\ port.savedRTS /\ ~cleared]
          /\ port' = [port EXCEPT !.power = "entering", !.deviceIsOpened = @ \/ port.reopen,
                                  !.reopen = FALSE, !.out2 = port.reopen]
          /\ port.power = "Dx"
    BY <1>4 DEF D0Entry
  <2> DEFINE line == port.reopen /\ port.savedRTS /\ ~cleared
             d == IF port.reopen THEN Poke(dev) ELSE dev
             e == [d EXCEPT !.rts = line]
  <2>2. Good(d) /\ SameSend(dev, d) /\ (CtsHeld(dev) => CtsHeld(d))
        /\ (port.reopen => Woken(d))
    BY <1>1, PokeKeeps, PokeIsCalm, CalmSends, CalmSound
       DEF Keeps, SameSend, KeepsFlow, KeepsHold
  <2>3. dev' = e
    BY <2>1
  <2> HIDE DEF d, line
  <2>4. SameSend(d, e) /\ (CtsHeld(d) => CtsHeld(e)) /\ (Woken(d) => Woken(e))
    BY <2>2 DEF Good, Device, SameSend, CtsHeld, Woken
  <2> HIDE DEF e
  <2>5. Woken(e) => Restarts(e) /\ StaleWoken(e) /\ Awake(e)
    BY DEF Restarts, StaleWoken, Awake
  <2>6. /\ port'.stage = port.stage /\ port'.power = "entering"
        /\ (port'.deviceIsOpened <=> port.deviceIsOpened \/ port.reopen)
        /\ port'.out2 = port.reopen
    BY <2>1 DEF OpenPort, Port
  <2>7. port.stage = "open" => port.reopen /\ CtsHeld(dev)
    BY <2>1 DEF OpenPort, OpenSound
  <2>8. OpenSound'
    BY <2>2, <2>3, <2>4, <2>5, <2>6, <2>7 DEF OpenSound
  <2>9. IdleUnlessOpen'
    BY <2>2, <2>3, <2>4, <2>6 DEF OpenPort, IdleUnlessOpen, SameSend, Work
  <2>10. QED
    BY <2>8, <2>9
<1>5. QED
  BY <1>2, <1>3, <1>4

\* The history only grows.
LEMMA HistoryGrows ==
  ASSUME port \in Port, LifeNext
  PROVE  port.history \subseteq port'.history
<1>1. CASE OpenISR \/ ClosedISR \/ UART \/ ChangeCTSAsleep \/ Requests \/ Completions
             \/ LowerRTSPath
  BY <1>1 DEF OpenISR, ClosedISR, UART, ChangeCTSAsleep, Requests, Completions, LowerRTSPath
<1>2. CASE Create \/ CreateFails \/ CloseBegin
  BY <1>2 DEF Port, Create, CreateFails, CloseBegin
<1>3. CASE MarkOpen \/ MarkClose \/ D0Exit
  <2>1. ASSUME NEW what, NEW happened PROVE port.history \subseteq Note(what, happened)
    BY DEF Note
  <2>2. \E what, happened : port'.history = Note(what, happened)
    <3>1. CASE MarkOpen
      BY <3>1 DEF Port, MarkOpen
    <3>2. CASE MarkClose
      BY <3>2 DEF Port, MarkClose
    <3>3. CASE D0Exit
      BY <3>3 DEF Port, D0Exit
    <3>4. QED
      BY <1>3, <3>1, <3>2, <3>3
  <2>3. QED
    BY <2>1, <2>2
<1>4. CASE CloseTurnOffBreak \/ CloseSendXon \/ CloseEmpty \/ CloseLowerRTS
             \/ CloseFreeBuffer \/ CloseStopTimers \/ CloseCancelDpcs
  BY <1>4 DEF Port, CloseTurnOffBreak, CloseSendXon, CloseEmpty, CloseLowerRTS,
              CloseFreeBuffer, CloseStopTimers, CloseCancelDpcs
<1>5. CASE PreInterruptsDisabled \/ D0Entry \/ PostInterruptsEnabled
  BY <1>5 DEF Port, PreInterruptsDisabled, D0Entry, PostInterruptsEnabled
<1>6. QED
  BY <1>1, <1>2, <1>3, <1>4, <1>5 DEF LifeNext, Close

\* The device that was never opened.
LEMMA LifeInitOpenInv == LifeInit => OpenInv
<1> SUFFICES ASSUME LifeInit PROVE OpenInv
  OBVIOUS
<1>1. port.stage = "none" /\ dev.writeLength = 0 /\ dev.transmitImmediate = FALSE
  BY DEF LifeInit
<1>2. QED
  BY <1>1 DEF OpenInv, OpenSound, IdleUnlessOpen, Work

THEOREM LifeSpecOpenInv == LifeSpec => []OpenInv
<1>1. LifeIInv /\ OpenInv /\ [LifeNext]_lifeVars => OpenInv'
  <2> SUFFICES ASSUME LifeIInv, OpenInv, [LifeNext]_lifeVars, NeverOff'
               PROVE  OpenSound' /\ IdleUnlessOpen'
    BY DEF OpenInv
  <2>1. CASE LifeNext
    <3>1. NeverOff
      BY <2>1, HistoryGrows DEF LifeIInv, NeverOff
    <3>2. OpenPort
      BY <3>1 DEF LifeIInv, NeverClosedOff, NeverOff, OpenInv, OpenPort
    <3>3. QED
      BY <2>1, <3>2, ISROpen, UARTOpen, RequestsOpen, CreateOpen, CloseOpen, PowerOpen,
         Zenon DEF LifeNext
  <2>2. CASE UNCHANGED lifeVars
    BY <2>2 DEF lifeVars, OpenInv, NeverOff, OpenSound, IdleUnlessOpen
  <2>3. QED
    BY <2>1, <2>2
<1>2. QED
  BY <1>1, LifeInitOpenInv, LifeSpecIInv, PTL DEF LifeSpec

\* An open port works again after every cycle through D0: its interrupts reach the
\* driver, and what nothing holds will be sent, also when CTS rose while the device was
\* off (SerialEvtDeviceD0Entry, "Refire the state machine").
THEOREM LifeOpenPortWorks == LifeSpec => []OpenPortWorks
<1>1. OpenInv => OpenPortWorks
  <2> SUFFICES ASSUME OpenInv, port.stage = "open", port.power = "D0", NeverOff
               PROVE  /\ port.deviceIsOpened /\ port.out2
                      /\ isr = "off" /\ Work(dev) /\ NothingHolds /\ ~FlowCharPending
                           => dev.thr \/ dev.fifo > 0
    BY DEF OpenPortWorks, NeverOff
  <2>1. /\ port.deviceIsOpened /\ port.out2 /\ StaleWoken(dev)
        /\ isr = "off" => Awake(dev)
    BY DEF OpenInv, OpenSound
  <2>2. isr = "off" /\ Work(dev) /\ NothingHolds /\ ~FlowCharPending => Woken(dev)
    BY <2>1 DEF NothingHolds, FlowCharPending, Awake, StaleWoken
  <2>3. QED
    BY <2>1, <2>2 DEF Woken
<1>2. QED
  BY <1>1, LifeSpecOpenInv, PTL
-----------------------------------------------------------------------------
(* The peer after a close.                                                  *)

\* Further, no Xon was due when the UART was turned off.
NoXonDue == port.history \subseteq {"dropped"}

\* While the transmitter is in use, the peer was told what RXHolding says, or will be.
\* SerialMarkClose ends that; the Xon that then follows goes to a peer that is held, and
\* from there to the next open the peer may send.
ToldInSession == port.stage \in {"open", "break", "drain"} => Told(dev)
ToldAtClose == port.stage = "xon" => dev.told = "Xon" \/ "XOFF" \in dev.rxHolding
ToldAfter == AtRest \/ port.stage \in {"empty", "toggle"} => dev.told = "Xon"
NothingHeld == AtRest => dev.rxHolding = {}
NothingDue == port.stage = "creating" => ~FlowCharPending

PeerTold == ToldInSession /\ ToldAtClose /\ ToldAfter /\ NothingHeld /\ NothingDue

\* Inductive together with LifeIInv.
PeerInv == NoXonDue => PeerTold

\* What a step may rely on.
PeerPort == port \in Port /\ IInv /\ StageInv /\ PeerTold

\* Nothing that the peer was told or is to be told changes.
SamePeer(d, e) ==
  /\ e.told = d.told /\ e.rxHolding = d.rxHolding
  /\ e.sendXonChar = d.sendXonChar /\ e.sendXoffChar = d.sendXoffChar

LEMMA PeerStays ==
  ASSUME PeerTold, port'.stage = port.stage, SamePeer(dev, dev')
  PROVE  PeerTold'
<1>1. Told(dev) => Told(dev')
  BY DEF SamePeer, Told
<1>2. QED
  BY <1>1 DEF PeerTold, ToldInSession, ToldAtClose, ToldAfter, NothingHeld, NothingDue,
              AtRest, SamePeer, FlowCharPending

\* In a session the routines of the transmitter see to it.
LEMMA PeerInSession ==
  ASSUME PeerTold, port.stage \in {"open", "break"}, port'.stage = port.stage,
         KeepsFlow(dev, dev')
  PROVE  PeerTold'
  BY DEF PeerTold, ToldInSession, ToldAtClose, ToldAfter, NothingHeld, NothingDue, AtRest,
         KeepsFlow, KeepsSound

LEMMA SessionPeer ==
  ASSUME PeerPort, OpenISR \/ Requests \/ Completions
  PROVE  PeerTold'
<1>1. UNCHANGED port /\ IInv /\ PeerTold
  BY DEF PeerPort, OpenISR, Requests, Completions
<1>2. port.stage \in {"open", "break"}
  BY DEF PeerPort, StageInv, ShutUnlessOpen, IsrEnded, OpenISR, Requests, Completions
<1>3. KeepsFlow(dev, dev')
  BY <1>1, ISRFlow, WritesFlow, EndWriteFlow, QueueFlow, ControlsFlow
     DEF OpenISR, Requests, Completions, KeepsAll
<1>4. QED
  BY <1>1, <1>2, <1>3, PeerInSession

\* The UART, the lines, the path of execution that lowers RTS and the cycles through D0
\* are not about the peer, nor is the interrupt of a port that is not open.
LEMMA OthersPeer ==
  ASSUME PeerPort,
         \/ ClosedISR \/ UART \/ ChangeCTSAsleep \/ LowerRTSPath
         \/ PreInterruptsDisabled \/ D0Exit \/ D0Entry \/ PostInterruptsEnabled
  PROVE  PeerTold'
<1>1. Good(dev) /\ IInv /\ PeerTold
  BY IInvGood DEF PeerPort
<1>2. CASE ClosedISR \/ UART \/ ChangeCTSAsleep
  <2>1. port' = port
    BY <1>2 DEF ClosedISR, UART, ChangeCTSAsleep
  <2>2. SamePeer(dev, dev')
    BY <1>1, <1>2 DEF ClosedISR, UART, Shift, ChangeCTS, ChangeCTSAsleep, Good, Device,
                      SamePeer
  <2>3. QED
    BY <1>1, <2>1, <2>2, PeerStays
<1>3. CASE LowerRTSPath
  <2>1. Calm(dev, dev') /\ port' = port
    BY <1>1, <1>3, PathsFlow DEF LowerRTSPath
  <2>2. QED
    BY <1>1, <2>1, PeerStays DEF Calm, SameFlow, SamePeer
<1>4. CASE PreInterruptsDisabled \/ PostInterruptsEnabled
  <2>1. UNCHANGED dev /\ port'.stage = port.stage
    BY <1>4 DEF PeerPort, Port, PreInterruptsDisabled, PostInterruptsEnabled
  <2>2. QED
    BY <1>1, <2>1, PeerStays DEF SamePeer
<1>5. CASE D0Exit
  <2>1. dev' = Dark(dev) /\ port'.stage = port.stage
    BY <1>5 DEF PeerPort, Port, D0Exit
  <2>2. SamePeer(dev, Dark(dev))
    BY <1>1 DEF Good, Device, Dark, SamePeer
  <2>3. QED
    BY <1>1, <2>1, <2>2, PeerStays
<1>6. CASE D0Entry
  <2>1. PICK cleared \in LinesCleared :
          dev' = [IF port.reopen THEN Poke(dev) ELSE dev
                    EXCEPT !.rts = port.reopen /\ port.savedRTS /\ ~cleared]
    BY <1>6 DEF D0Entry
  <2>2. port'.stage = port.stage
    BY <1>6 DEF PeerPort, Port, D0Entry
  <2> DEFINE line == port.reopen /\ port.savedRTS /\ ~cleared
             d == IF port.reopen THEN Poke(dev) ELSE dev
             e == [d EXCEPT !.rts = line]
  <2>3. Good(d) /\ SamePeer(dev, d)
    BY <1>1, PokeKeeps, PokeIsCalm DEF Keeps, Calm, SameFlow, SamePeer
  <2>4. dev' = e
    BY <2>1
  <2> HIDE DEF d, line
  <2>5. SamePeer(d, e)
    BY <2>3 DEF Good, Device, SamePeer
  <2> HIDE DEF e
  <2>6. SamePeer(dev, dev')
    BY <2>3, <2>4, <2>5 DEF SamePeer
  <2>7. QED
    BY <1>1, <2>2, <2>6, PeerStays
<1>7. QED
  BY <1>2, <1>3, <1>4, <1>5, <1>6

\* The open forgets what the last session had due, and finds a peer that may send.
LEMMA OpenPeer ==
  ASSUME PeerPort, Create \/ CreateFails \/ MarkOpen
  PROVE  PeerTold'
<1>1. Good(dev) /\ OtherPaths(dev) >= 0
  BY IInvGood DEF PeerPort
<1>2. CASE Create \/ CreateFails
  <2>1. /\ Fresh(dev).told = dev.told /\ Fresh(dev).rxHolding = dev.rxHolding
        /\ ~Fresh(dev).sendXonChar /\ ~Fresh(dev).sendXoffChar
    BY <1>1 DEF Good, Device, Fresh
  <2>2. /\ port.stage = "none" /\ dev' \in {dev, Fresh(dev)}
        /\ \/ port'.stage = "none"
           \/ port'.stage = "creating" /\ dev' = Fresh(dev)
    BY <1>2 DEF PeerPort, Port, Create, CreateFails
  <2>3. QED
    BY <2>1, <2>2
       DEF PeerPort, PeerTold, ToldInSession, ToldAtClose, ToldAfter, NothingHeld,
           NothingDue, AtRest, FlowCharPending
<1>3. CASE MarkOpen
  <2>1. PICK error \in LineErrors : dev' = [Reset(dev, error) EXCEPT !.rts = @ /\ Powered]
    BY <1>3 DEF MarkOpen
  <2> DEFINE d == Reset(dev, error)
             line == d.rts /\ Powered
             e == [d EXCEPT !.rts = line]
  <2>2. Good(d) /\ (Told(dev) => Told(d))
    BY <1>1, ResetKeeps, ResetSound DEF Keeps
  <2>3. dev' = e
    BY <2>1
  <2> HIDE DEF d, line
  <2>4. Told(d) => Told(e)
    BY <2>2 DEF Good, Device, Told
  <2> HIDE DEF e
  <2>5. port.stage = "creating" /\ port'.stage = "open"
    BY <1>3 DEF PeerPort, Port, MarkOpen
  <2>6. Told(dev)
    BY <2>5 DEF PeerPort, PeerTold, ToldAfter, NothingHeld, NothingDue, AtRest,
                FlowCharPending, Told
  <2>7. QED
    BY <2>2, <2>3, <2>4, <2>5, <2>6
       DEF PeerTold, ToldInSession, ToldAtClose, ToldAfter, NothingHeld, NothingDue, AtRest
<1>4. QED
  BY <1>2, <1>3

\* The close, step by step.
LEMMA ClosePeer ==
  ASSUME PeerPort, NoXonDue', CloseBegin \/ Close
  PROVE  PeerTold'
<1>1. Good(dev)
  BY IInvGood DEF PeerPort
<1>2. CASE CloseBegin
  <2>1. port.stage = "open" /\ port'.stage = "break" /\ UNCHANGED dev
    BY <1>2 DEF PeerPort, Port, NoXonDue, CloseBegin
  <2>2. QED
    BY <2>1 DEF PeerPort, PeerTold, ToldInSession, ToldAtClose, ToldAfter, NothingHeld,
                NothingDue, AtRest
<1>3. CASE CloseTurnOffBreak
  <2>1. port.stage = "break" /\ port'.stage = "drain" /\ UNCHANGED dev
    BY <1>3 DEF PeerPort, Port, CloseTurnOffBreak
  <2>2. QED
    BY <2>1 DEF PeerPort, PeerTold, ToldInSession, ToldAtClose, ToldAfter, NothingHeld,
                NothingDue, AtRest
<1>4. CASE MarkClose
  <2>1. /\ port.stage = "drain" /\ port'.stage = "xon"
        /\ port'.history = Note("Xon due", dev.sendXonChar /\ "XOFF" \notin dev.rxHolding)
    BY <1>4 DEF PeerPort, Port, MarkClose
  <2>2. dev'.told = dev.told /\ dev'.rxHolding = dev.rxHolding
    BY <1>1, <1>4 DEF Good, Device, MarkClose
  <2>3. ~(dev.sendXonChar /\ "XOFF" \notin dev.rxHolding)
    BY <2>1 DEF NoXonDue, Note
  <2>4. dev.told = "Xon" \/ "XOFF" \in dev.rxHolding
    BY <1>1, <2>1, <2>3 DEF PeerPort, PeerTold, ToldInSession, Told, Good, Device
  <2>5. QED
    BY <2>1, <2>2, <2>4 DEF PeerTold, ToldInSession, ToldAtClose, ToldAfter, NothingHeld,
                            NothingDue, AtRest
<1>5. CASE CloseSendXon
  <2>1. port.stage = "xon" /\ port'.stage = "empty"
    BY <1>5 DEF PeerPort, Port, CloseSendXon
  <2>2. dev'.told = "Xon"
    BY <1>1, <1>5, <2>1 DEF CloseSendXon, Good, Device, PeerPort, PeerTold, ToldAtClose
  <2>3. QED
    BY <2>1, <2>2 DEF PeerTold, ToldInSession, ToldAtClose, ToldAfter, NothingHeld,
                      NothingDue, AtRest
<1>6. CASE CloseEmpty
  <2>1. port.stage = "empty" /\ port'.stage = "toggle" /\ UNCHANGED dev
    BY <1>6 DEF PeerPort, Port, CloseEmpty
  <2>2. QED
    BY <2>1 DEF PeerPort, PeerTold, ToldInSession, ToldAtClose, ToldAfter, NothingHeld,
                NothingDue, AtRest
<1>7. CASE CloseLowerRTS
  <2>1. port.stage = "toggle" /\ port'.stage = "free"
    BY <1>7 DEF PeerPort, Port, CloseLowerRTS
  <2>2. dev'.told = dev.told /\ dev'.rxHolding = {}
    BY <1>1, <1>7 DEF Good, Device, CloseLowerRTS
  <2>3. QED
    BY <2>1, <2>2 DEF PeerPort, PeerTold, ToldInSession, ToldAtClose, ToldAfter,
                      NothingHeld, NothingDue, AtRest
<1>8. CASE CloseFreeBuffer \/ CloseStopTimers \/ CloseCancelDpcs
  <2>1. port.stage \in {"free", "timers", "dpcs"} /\ port'.stage \in {"timers", "dpcs", "none"}
    BY <1>8 DEF PeerPort, Port, CloseFreeBuffer, CloseStopTimers, CloseCancelDpcs
  <2>2. dev'.told = dev.told /\ dev'.rxHolding = dev.rxHolding
    BY <1>1, <1>8 DEF Good, Device, CloseFreeBuffer, CloseStopTimers, CloseCancelDpcs
  <2>3. QED
    BY <2>1, <2>2 DEF PeerPort, PeerTold, ToldInSession, ToldAtClose, ToldAfter,
                      NothingHeld, NothingDue, AtRest
<1>9. QED
  BY <1>2, <1>3, <1>4, <1>5, <1>6, <1>7, <1>8 DEF Close

THEOREM LifeSpecPeerInv == LifeSpec => []PeerInv
<1>1. LifeInit => PeerInv
  <2> SUFFICES ASSUME LifeInit PROVE PeerInv
    OBVIOUS
  <2>1. port.stage = "none" /\ dev.told = "Xon" /\ dev.rxHolding = {}
    BY DEF LifeInit
  <2>2. QED
    BY <2>1 DEF PeerInv, PeerTold, ToldInSession, ToldAtClose, ToldAfter, NothingHeld,
                NothingDue, AtRest
<1>2. LifeIInv /\ PeerInv /\ [LifeNext]_lifeVars => PeerInv'
  <2> SUFFICES ASSUME LifeIInv, PeerInv, [LifeNext]_lifeVars, NoXonDue'
               PROVE  PeerTold'
    BY DEF PeerInv
  <2>1. CASE LifeNext
    <3>1. NoXonDue
      BY <2>1, HistoryGrows DEF LifeIInv, NoXonDue
    <3>2. PeerPort
      BY <3>1 DEF LifeIInv, NeverClosedOff, NoXonDue, PeerInv, PeerPort
    <3>3. QED
      BY <2>1, <3>2, SessionPeer, OthersPeer, OpenPeer, ClosePeer, Zenon DEF LifeNext
  <2>2. CASE UNCHANGED lifeVars
    <3>1. UNCHANGED <<dev, port>>
      BY <2>2 DEF lifeVars
    <3>2. PeerTold
      BY <3>1 DEF PeerInv, NoXonDue
    <3>3. QED
      BY <3>1, <3>2, PeerStays DEF SamePeer
  <2>3. QED
    BY <2>1, <2>2
<1>3. QED
  BY <1>1, <1>2, LifeSpecIInv, PTL DEF LifeSpec

\* The peer that was stopped by an automatic Xoff is not left stopped by a close
\* (SerialFileCloseWorker sends the Xon itself, behind the back of the ISR).
THEOREM LifePeerMayGoOn == LifeSpec => []PeerMayGoOn
<1>1. PeerInv => PeerMayGoOn
  BY DEF PeerInv, PeerMayGoOn, NoXonDue, PeerTold, ToldAfter, AtRest
<1>2. QED
  BY <1>1, LifeSpecPeerInv, PTL
=============================================================================
