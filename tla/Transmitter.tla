---------------------------- MODULE Transmitter ----------------------------
(***************************************************************************)
(* What decides whether a character may go on the wire, and what wakes the *)
(* transmitter up again: the transmit part of SerialISR, the poke of the   *)
(* interrupt enable register, output flow control (Xon/Xoff, CTS, break),  *)
(* receive flow control by Xon/Xoff and RTS, and the transmit toggling of  *)
(* RTS (isr.c, modmflow.c, and the synchronized routines of write.c and    *)
(* immediat.c).                                                            *)
(*                                                                         *)
(* dev is the part of the device extension those routines share, with the  *)
(* UART's registers.  Each WdfInterruptSynchronize routine is one step; so *)
(* is each pass of the ISR through its loop, between which the UART goes   *)
(* on.  A routine is an operator from dev to dev, composed as in the code. *)
(*                                                                         *)
(* The UART is modelled from how the driver uses it.  It interrupts when   *)
(* its FIFO has drained to the trigger level and again when it is empty;   *)
(* reading the cause quiets it; enabling interrupts raises it again while  *)
(* the level is that low (the "poke", DISABLE_ALL_ and                     *)
(* ENABLE_ALL_INTERRUPTS).                                                 *)
(***************************************************************************)
EXTENDS Integers

CONSTANTS
  HandFlows,     \* the flow control settings a client may choose
  MaxLen,        \* bound: the longest write
  BufferSize,    \* of the interrupt buffer
  XoffLimit, XonLimit,
  Depth,         \* of the transmit FIFO
  TxTrigger,     \* its trigger level
  LineErrors     \* may reading the line status show an error?

\* SERIAL_HANDFLOW, of what is modelled.
HandFlow ==
  [cts : BOOLEAN, autoReceive : BOOLEAN, autoTransmit : BOOLEAN,
   xoffContinue : BOOLEAN, rts : {"DISABLE", "CONTROL", "HANDSHAKE", "TOGGLE"}]

ASSUME HandFlowAssumption == HandFlows \subseteq HandFlow
ASSUME SizeAssumption ==
  /\ MaxLen \in Nat /\ BufferSize \in Nat /\ XoffLimit \in 0 .. BufferSize
  /\ XonLimit \in 0 .. BufferSize
  /\ Depth \in Nat /\ TxTrigger \in 0 .. Depth - 1
ASSUME ErrorAssumption == LineErrors \subseteq BOOLEAN

VARIABLES
  dev,            \* the device extension and the UART
  lowerRTSTimer,  \* LowerRTSTimer: in the timer queue, its callback due
  isr             \* SerialISR: "off", in its "loop", or at its "end"

vars == <<dev, lowerRTSTimer, isr>>

Device ==
  [handFlow : HandFlow,
   txHolding : SUBSET {"XOFF", "CTS", "BREAK"}, rxHolding : SUBSET {"XOFF", "RTS"},
   sendXonChar : BOOLEAN, sendXoffChar : BOOLEAN,
   transmitImmediate : BOOLEAN, writeLength : 0 .. MaxLen,
   currentImmediate : BOOLEAN, currentWrite : BOOLEAN, \* the requests are not NULL
   \* WriteQueue is not idle: it holds requests, or one taken from it is owned still.
   writesQueued : BOOLEAN,
   holdingEmpty : BOOLEAN,
   charsInInterruptBuffer : 0 .. BufferSize,
   startTimerLowerRTSDpc : BOOLEAN, countOfTryingToLowerRTS : Nat,
   \* The UART: characters in the FIFO, the shift register busy, transmit
   \* interrupt pending, the CTS line and its interrupt, the RTS line.
   fifo : Nat, shifting : BOOLEAN, thr : BOOLEAN,
   cts : BOOLEAN, ctsChanged : BOOLEAN, rts : BOOLEAN,
   \* The last flow control character put on the wire; Xon before any.
   told : {"Xon", "Xoff"}]

Init ==
  /\ \E h \in HandFlows :
       dev = [handFlow |-> h, txHolding |-> {}, rxHolding |-> {},
              sendXonChar |-> FALSE, sendXoffChar |-> FALSE,
              transmitImmediate |-> FALSE, writeLength |-> 0,
              currentImmediate |-> FALSE, currentWrite |-> FALSE,
              writesQueued |-> FALSE, holdingEmpty |-> TRUE,
              charsInInterruptBuffer |-> 0,
              startTimerLowerRTSDpc |-> FALSE, countOfTryingToLowerRTS |-> 0,
              fifo |-> 0, shifting |-> FALSE, thr |-> FALSE, cts |-> TRUE,
              ctsChanged |-> FALSE, rts |-> h.rts \in {"CONTROL", "HANDSHAKE"},
              told |-> "Xon"]
  /\ lowerRTSTimer = [set |-> FALSE, due |-> FALSE] /\ isr = "off"

-----------------------------------------------------------------------------
(* Helpers the routines share.                                             *)

Toggling(d) == d.handFlow.rts = "TOGGLE"

\* There is a write or an immediate character for the ISR to send.
Work(d) == d.writeLength > 0 \/ d.transmitImmediate

\* DISABLE_ALL_INTERRUPTS and ENABLE_ALL_INTERRUPTS.
Poke(d) == [d EXCEPT !.thr = @ \/ d.fifo <= TxTrigger]

\* A routine that may restart transmission, or has no reason to.
PokeIf(condition, d) == IF condition /\ d.holdingEmpty THEN Poke(d) ELSE d

\* Mutant: counts also when the DPC is already in its queue.
StartLoweringCountsAlways(d) ==
  [d EXCEPT !.startTimerLowerRTSDpc = TRUE, !.countOfTryingToLowerRTS = @ + 1]

\* SerialInsertQueueDpc(StartTimerLowerRTSDpc) ? CountOfTryingToLowerRTS++ : 0.
StartLowering(d) ==
  IF d.startTimerLowerRTSDpc THEN d
  ELSE [d EXCEPT !.startTimerLowerRTSDpc = TRUE, !.countOfTryingToLowerRTS = @ + 1]
StartLoweringIf(condition, d) ==
  IF condition /\ Toggling(d) THEN StartLowering(d) ELSE d

\* SerialProcessLSR, of the transmitter: HoldingEmpty follows the hardware, and
\* an error, which may have hidden a transmit interrupt, brings it back.
ProcessLSR(d, error) ==
  LET read == [d EXCEPT !.holdingEmpty = (d.fifo = 0)]
  IN IF error /\ d.fifo = 0 /\ Work(d) THEN Poke(read) ELSE read

HardwareEmpty(d) == d.fifo = 0 /\ ~d.shifting

\* A write is current, or an immediate character is to be sent, or WriteQueue is not
\* idle and nothing holds what is sent.
WritesPending(d) ==
  d.currentWrite \/ d.transmitImmediate \/ (d.writesQueued /\ d.txHolding = {})

\* Mutant: the shift register is forgotten (only SERIAL_LSR_THRE is tested).
PerhapsLowerRTSHoldingOnly(d, error) ==
  LET checked == ProcessLSR(d, error)
      done == IF ~Toggling(d) \/ "BREAK" \in d.txHolding \/ WritesPending(d) THEN d
              ELSE IF d.fifo = 0 THEN [checked EXCEPT !.rts = FALSE]
              ELSE StartLowering(checked)
  IN [done EXCEPT !.countOfTryingToLowerRTS = @ - 1]

\* Mutant: the hardware is not looked at again.
PerhapsLowerRTSOnce(d, error) ==
  LET checked == ProcessLSR(d, error)
      done == IF ~Toggling(d) \/ "BREAK" \in d.txHolding \/ WritesPending(d) THEN d
              ELSE IF HardwareEmpty(d) THEN [checked EXCEPT !.rts = FALSE] ELSE checked
  IN [done EXCEPT !.countOfTryingToLowerRTS = @ - 1]

\* SerialPerhapsLowerRTS.
PerhapsLowerRTS(d, error) ==
  LET checked == ProcessLSR(d, error)
      done == IF ~Toggling(d) \/ "BREAK" \in d.txHolding \/ WritesPending(d) THEN d
              ELSE IF HardwareEmpty(d) THEN [checked EXCEPT !.rts = FALSE]
              ELSE StartLowering(checked)
  IN [done EXCEPT !.countOfTryingToLowerRTS = @ - 1]

\* The same, by a caller that enters its path of execution in the count.
TryToLowerRTS(d, error) ==
  PerhapsLowerRTS([d EXCEPT !.countOfTryingToLowerRTS = @ + 1], error)

\* SerialProdXonXoff.
ProdXonXoff(d, sendXon) ==
  [PokeIf(~d.sendXonChar /\ ~d.sendXoffChar, d)
     EXCEPT !.sendXonChar = sendXon, !.sendXoffChar = ~sendXon]

\* Mutant: who reads the modem lines relies on the ISR to go on.
HandleModemUpdateLeavesPoke(d, doingTX) ==
  LET holds == d.handFlow.cts /\ ~d.cts
      read == [d EXCEPT !.ctsChanged = FALSE,
                        !.txHolding = IF holds THEN @ \cup {"CTS"} ELSE @ \ {"CTS"}]
  IN StartLoweringIf(d.txHolding = {} /\ read.txHolding # {}, read)

\* SerialHandleModemUpdate, of the CTS line; doingTX says that the transmit code
\* itself calls, which needs no new interrupt.
HandleModemUpdate(d, doingTX) ==
  LET holds == d.handFlow.cts /\ ~d.cts
      read == [d EXCEPT !.ctsChanged = FALSE,
                        !.txHolding = IF holds THEN @ \cup {"CTS"} ELSE @ \ {"CTS"}]
      lowered == StartLoweringIf(d.txHolding = {} /\ read.txHolding # {}, read)
  IN PokeIf(~doingTX /\ d.txHolding # {} /\ read.txHolding = {} /\ Work(d), lowered)

-----------------------------------------------------------------------------
(* SerialISR: the transmit holding register is empty.                      *)

\* n characters are put into the FIFO; RTS is raised for them when toggling.
Transmit(d, n) ==
  StartLoweringIf(TRUE,
    [d EXCEPT !.fifo = @ + n, !.thr = FALSE, !.holdingEmpty = FALSE,
              !.rts = @ \/ Toggling(d)])

\* Mutant: the reason to hold the peer is kept.
SendXonKeepsHold(d) ==
  [Transmit(d, 1) EXCEPT !.sendXonChar = FALSE, !.told = "Xon", !.txHolding = @ \ {"XOFF"}]

SendXon(d) ==
  [Transmit(d, 1) EXCEPT !.sendXonChar = FALSE, !.told = "Xon",
                         !.txHolding = @ \ {"XOFF"}, !.rxHolding = @ \ {"XOFF"}]

SendXoff(d) ==
  [Transmit(d, 1) EXCEPT !.sendXoffChar = FALSE, !.told = "Xoff",
                         !.txHolding = IF d.handFlow.xoffContinue THEN @
                                                                  ELSE @ \cup {"XOFF"}]

SendImmediate(d) == [Transmit(d, 1) EXCEPT !.transmitImmediate = FALSE]

\* Mutant: the whole depth of the FIFO, whatever is in it.
AmountToWriteDepth(d) == IF d.writeLength < Depth THEN d.writeLength ELSE Depth

\* FastcomGetTxFifoSpace and WriteLength limit what is written at once.
AmountToWrite(d) ==
  IF d.writeLength < Depth - d.fifo THEN d.writeLength ELSE Depth - d.fifo

SendWrite(d) == [Transmit(d, AmountToWrite(d)) EXCEPT !.writeLength = @ - AmountToWrite(d)]

\* doTrasmitStuff: the modem lines first, then one of the four kinds of
\* characters, as the reasons to hold allow.
TransmitStuff(d) ==
  LET empty == [d EXCEPT !.holdingEmpty = TRUE]
      e == IF d.handFlow.cts THEN HandleModemUpdate(empty, TRUE) ELSE empty
  IN IF ~Work(d) /\ ~d.sendXonChar /\ ~d.sendXoffChar THEN empty
     ELSE IF e.sendXonChar /\ e.txHolding \subseteq {"XOFF"} THEN SendXon(e)
     ELSE IF e.sendXoffChar /\ e.txHolding = {} THEN SendXoff(e)
     ELSE IF e.transmitImmediate /\ e.txHolding \subseteq {"XOFF"} THEN SendImmediate(e)
     ELSE IF e.txHolding = {} THEN SendWrite(e)
     ELSE e

-----------------------------------------------------------------------------
(* SerialISR: what it receives.                                            *)

\* The flow control threshold, in SerialPutChar before a character is stored.
AlmostFull(d) == BufferSize - XoffLimit <= d.charsInInterruptBuffer + 1

\* Mutant: a full interrupt buffer is not noticed.
PutCharUnbounded(d) == [d EXCEPT !.charsInInterruptBuffer = @ + 1]

\* SerialPutChar into the interrupt buffer: RTS and Xoff hold the sender.
PutChar(d) ==
  LET lines == IF d.handFlow.rts = "HANDSHAKE" /\ AlmostFull(d)
                 THEN [d EXCEPT !.rxHolding = @ \cup {"RTS"},
                                !.rts = @ /\ "RTS" \in d.rxHolding]
                 ELSE d
      held == IF d.handFlow.autoReceive /\ "XOFF" \notin d.rxHolding /\ AlmostFull(d)
                THEN ProdXonXoff([lines EXCEPT !.rxHolding = @ \cup {"XOFF"}], FALSE)
                ELSE lines
  IN [held EXCEPT !.charsInInterruptBuffer = IF @ < BufferSize THEN @ + 1 ELSE @]

\* A character that goes to the application: into the interrupt buffer, or into
\* the buffer of a read, while the interrupt buffer is empty.
Receive(d) == {PutChar(d)} \cup (IF d.charsInInterruptBuffer = 0 THEN {d} ELSE {})

\* An Xoff or Xon character is received, under automatic transmit flow control.
ReceiveXoff(d) == StartLoweringIf(TRUE, [d EXCEPT !.txHolding = @ \cup {"XOFF"}])
ReceiveXon(d) == [d EXCEPT !.txHolding = @ \ {"XOFF"}]

Received(d) ==
  Receive(d) \cup (IF d.handFlow.autoTransmit THEN {ReceiveXoff(d), ReceiveXon(d)}
                                              ELSE {})

-----------------------------------------------------------------------------
(* The passes of SerialISR through its loop, in the priority of the causes, *)
(* and its end.                                                            *)

InService == isr \in {"off", "loop"}

LineStatusInterrupt ==
  /\ InService /\ TRUE \in LineErrors
  /\ dev' = ProcessLSR(dev, TRUE)
  /\ isr' = "loop" /\ UNCHANGED lowerRTSTimer

ReceiveInterrupt ==
  /\ InService
  /\ \E d \in Received(dev), error \in LineErrors : dev' = ProcessLSR(d, error)
  /\ isr' = "loop" /\ UNCHANGED lowerRTSTimer

TransmitInterrupt ==
  /\ InService /\ dev.thr
  /\ dev' = TransmitStuff([dev EXCEPT !.thr = FALSE])
  /\ isr' = "loop" /\ UNCHANGED lowerRTSTimer

ModemInterrupt ==
  /\ InService /\ ~dev.thr /\ dev.ctsChanged
  /\ dev' = HandleModemUpdate(dev, FALSE)
  /\ isr' = "loop" /\ UNCHANGED lowerRTSTimer

NoInterruptPending ==
  /\ isr = "loop" /\ ~dev.thr /\ ~dev.ctsChanged
  /\ isr' = "end" /\ UNCHANGED <<dev, lowerRTSTimer>>

\* The last look at the line status, which restarts transmission after an Xon.
EndOfISR ==
  /\ isr = "end"
  /\ \E error \in LineErrors :
       LET d == ProcessLSR(dev, error)
       IN IF d.fifo = 0 /\ d.txHolding = {} /\ Work(d)
            THEN dev' = TransmitStuff(d) /\ isr' = "loop"
            ELSE dev' = d /\ isr' = "off"
  /\ UNCHANGED lowerRTSTimer

ISR == \/ LineStatusInterrupt \/ ReceiveInterrupt \/ TransmitInterrupt
       \/ ModemInterrupt \/ NoInterruptPending \/ EndOfISR

-----------------------------------------------------------------------------
(* The UART.                                                               *)

\* A character moves from the FIFO to the shift register, or out of it.
Shift ==
  /\ ~HardwareEmpty(dev)
  /\ dev' = IF dev.fifo = 0 THEN [dev EXCEPT !.shifting = FALSE]
            ELSE [dev EXCEPT !.fifo = @ - 1, !.shifting = TRUE,
                             !.thr = @ \/ dev.fifo - 1 \in {0, TxTrigger}]
  /\ UNCHANGED <<lowerRTSTimer, isr>>

\* The peer changes the CTS line.
ChangeCTS ==
  /\ dev' = [dev EXCEPT !.cts = ~@, !.ctsChanged = TRUE]
  /\ UNCHANGED <<lowerRTSTimer, isr>>

-----------------------------------------------------------------------------
(* Routines that WdfInterruptSynchronize runs for the holder of the device *)
(* lock.                                                                   *)

Synchronize(d) == isr = "off" /\ dev' = d /\ UNCHANGED <<lowerRTSTimer, isr>>

\* SerialStartWrite makes a write current, or a counter that is sent as one, or
\* SerialGetNextWrite the next one (n characters): SerialGiveWriteToIsr.
GiveWriteToIsr(d, n) ==
  [PokeIf(~d.transmitImmediate, [d EXCEPT !.currentWrite = TRUE, !.writeLength = n])
     EXCEPT !.rts = @ \/ Toggling(d)]

\* SerialStartOrQueue starts a write if none is current and WriteQueue is idle.
StartWrite ==
  /\ ~dev.currentWrite /\ ~dev.writesQueued
  /\ \E n \in 1 .. MaxLen : Synchronize(GiveWriteToIsr(dev, n))

\* Otherwise it puts the write into WriteQueue.
QueueWrite ==
  /\ dev.currentWrite /\ ~dev.writesQueued
  /\ dev' = [dev EXCEPT !.writesQueued = TRUE]
  /\ UNCHANGED <<lowerRTSTimer, isr>>

\* WriteQueue becomes idle by itself: what it holds is cancelled or purged, or a
\* counter that was taken from it ends.
QueueEmptied ==
  /\ dev.writesQueued
  /\ dev' = [dev EXCEPT !.writesQueued = FALSE]
  /\ UNCHANGED <<lowerRTSTimer, isr>>

\* SerialStartImmediate: SerialGiveImmediateToIsr.
StartImmediate ==
  /\ ~dev.currentImmediate
  /\ Synchronize(PokeIf(dev.writeLength = 0,
       [dev EXCEPT !.currentImmediate = TRUE, !.transmitImmediate = TRUE]))

\* SerialGrabWriteFromIsr and SerialGrabImmediateFromIsr, for a timeout, a
\* cancellation or a purge.
GrabWriteFromIsr ==
  dev.writeLength > 0 /\ Synchronize([dev EXCEPT !.writeLength = 0])
GrabImmediateFromIsr ==
  dev.transmitImmediate /\ Synchronize([dev EXCEPT !.transmitImmediate = FALSE])

\* SerialProcessEmptyTransmit: RTS is looked at only when a client waits for
\* EV_TXEMPTY and something was sent since it does.
ProcessEmptyTransmit(d, waited, error) ==
  IF waited /\ ~d.transmitImmediate /\ ~d.currentWrite /\ ~d.writesQueued
    THEN TryToLowerRTS(d, error) ELSE d

\* A write is completed, and the next one of WriteQueue is current; or there is none,
\* or WriteQueue is stopped by a flush.  The queue is then idle, unless a flush has
\* stopped it with requests in it, or the write was a counter, which goes on.
EndWrite ==
  /\ dev.currentWrite /\ dev.writeLength = 0
  /\ \/ \E queued \in {FALSE, dev.writesQueued}, waited \in BOOLEAN, error \in LineErrors :
          Synchronize(ProcessEmptyTransmit(
            [dev EXCEPT !.currentWrite = FALSE, !.writesQueued = queued], waited, error))
     \/ dev.writesQueued /\ \E n \in 1 .. MaxLen : Synchronize(GiveWriteToIsr(dev, n))

EndImmediate ==
  /\ dev.currentImmediate /\ ~dev.transmitImmediate
  /\ \E waited \in BOOLEAN, error \in LineErrors :
       Synchronize(ProcessEmptyTransmit([dev EXCEPT !.currentImmediate = FALSE],
                                        waited, error))

\* SerialTurnOnBreak and SerialTurnOffBreak.
TurnOnBreak ==
  Synchronize([dev EXCEPT !.rts = @ \/ Toggling(dev), !.txHolding = @ \cup {"BREAK"}])
TurnOffBreak ==
  LET d == [dev EXCEPT !.txHolding = @ \ {"BREAK"}] IN
  /\ "BREAK" \in dev.txHolding
  /\ IF d.txHolding = {} /\ Work(d) /\ d.holdingEmpty
       THEN Synchronize(Poke(d))
       ELSE \E error \in LineErrors : Synchronize(TryToLowerRTS(d, error))

\* SerialPretendXoff and SerialPretendXon.
PretendXoff == Synchronize(StartLoweringIf(TRUE, [dev EXCEPT !.txHolding = @ \cup {"XOFF"}]))
PretendXon ==
  LET d == [dev EXCEPT !.txHolding = @ \ {"XOFF"}] IN
  /\ dev.txHolding # {}
  /\ Synchronize(PokeIf(d.txHolding = {} /\ Work(d), d))

\* IOCTL_SERIAL_SET_RTS and CLR_RTS, refused while the driver owns the line.
SetRTS ==
  /\ dev.handFlow.rts \notin {"HANDSHAKE", "TOGGLE"}
  /\ \E on \in BOOLEAN : Synchronize([dev EXCEPT !.rts = on])

\* SerialGetModemUpdate.
GetModemUpdate == Synchronize(HandleModemUpdate(dev, FALSE))

\* Mutant: the reason to hold goes, and the line stays down.
HandleReducedKeepsLine(d) ==
  LET lines == [d EXCEPT !.rxHolding = @ \ {"RTS"}]
  IN IF d.charsInInterruptBuffer > XonLimit THEN d
     ELSE IF "XOFF" \in d.rxHolding THEN ProdXonXoff(lines, TRUE) ELSE lines

\* Characters leave the interrupt buffer: SerialHandleReducedIntBuffer.
HandleReducedIntBuffer(d) ==
  LET lines == IF "RTS" \in d.rxHolding
                 THEN [d EXCEPT !.rxHolding = @ \ {"RTS"}, !.rts = TRUE] ELSE d
  IN IF d.charsInInterruptBuffer > XonLimit THEN d
     ELSE IF "XOFF" \in d.rxHolding THEN ProdXonXoff(lines, TRUE) ELSE lines

TakeChars ==
  \E n \in 1 .. dev.charsInInterruptBuffer :
    Synchronize(HandleReducedIntBuffer([dev EXCEPT !.charsInInterruptBuffer = @ - n]))

-----------------------------------------------------------------------------
(* SerialSetHandFlow, part by part as in SerialSetupNewHandFlow.           *)

NewRTS(d, new, error) ==
  LET free == [d EXCEPT !.rxHolding = @ \ {"RTS"}]
      toggling == [free EXCEPT !.handFlow.rts = "TOGGLE"]
      read == IF "BREAK" \in d.txHolding THEN toggling ELSE ProcessLSR(toggling, error)
  IN CASE d.handFlow.rts = new.rts -> d
       [] new.rts = "HANDSHAKE" /\ d.handFlow.rts # new.rts ->
            IF BufferSize - XoffLimit > d.charsInInterruptBuffer
              THEN [d EXCEPT !.rts = TRUE]
              ELSE [d EXCEPT !.rts = FALSE, !.rxHolding = @ \cup {"RTS"}]
       [] new.rts = "TOGGLE" /\ d.handFlow.rts # new.rts ->
            IF "BREAK" \in d.txHolding \/ ~HardwareEmpty(d) \/ WritesPending(d)
              THEN [read EXCEPT !.rts = TRUE] ELSE TryToLowerRTS(read, error)
       [] new.rts \in {"CONTROL", "DISABLE"} /\ d.handFlow.rts # new.rts ->
            [free EXCEPT !.rts = (new.rts = "CONTROL")]

NewAutoReceive(d, new) ==
  IF d.handFlow.autoReceive = new.autoReceive THEN d
  ELSE IF new.autoReceive
    THEN IF BufferSize - XoffLimit <= d.charsInInterruptBuffer
           THEN ProdXonXoff([d EXCEPT !.rxHolding = @ \cup {"XOFF"}], FALSE) ELSE d
    ELSE IF "XOFF" \in d.rxHolding
           THEN ProdXonXoff([d EXCEPT !.rxHolding = @ \ {"XOFF"}], TRUE) ELSE d

NewAutoTransmit(d, new) ==
  IF d.handFlow.autoTransmit /\ ~new.autoTransmit /\ "XOFF" \in d.txHolding
    THEN ProdXonXoff([d EXCEPT !.txHolding = @ \ {"XOFF"}], TRUE) ELSE d

SetupNewHandFlow(d, new, error) ==
  [NewAutoTransmit(NewAutoReceive(NewRTS(d, new, error), new), new)
     EXCEPT !.handFlow = new]

SetHandFlow ==
  \E new \in HandFlows, error \in LineErrors :
    Synchronize(HandleModemUpdate(SetupNewHandFlow(dev, new, error), FALSE))

-----------------------------------------------------------------------------
(* The path of execution that lowers RTS: the DPC, its timer, and back.     *)

\* SerialStartTimerLowerRTS: a timer that was still in the timer queue is started
\* anew, and one path of execution has died (SerialDecrementRTSCounter).
StartTimerLowerRTS ==
  /\ isr = "off" /\ dev.startTimerLowerRTSDpc
  /\ dev' = [dev EXCEPT !.startTimerLowerRTSDpc = FALSE,
                        !.countOfTryingToLowerRTS = IF lowerRTSTimer.set THEN @ - 1
                                                                         ELSE @]
  /\ lowerRTSTimer' = [lowerRTSTimer EXCEPT !.set = TRUE]
  /\ UNCHANGED isr

\* A callback that is due runs before the timer can run out once more.
LowerRTSTimerFires ==
  /\ lowerRTSTimer.set /\ ~lowerRTSTimer.due
  /\ lowerRTSTimer' = [set |-> FALSE, due |-> TRUE]
  /\ UNCHANGED <<dev, isr>>

\* SerialInvokePerhapsLowerRTS.
InvokePerhapsLowerRTS ==
  /\ isr = "off" /\ lowerRTSTimer.due
  /\ \E error \in LineErrors : dev' = PerhapsLowerRTS(dev, error)
  /\ lowerRTSTimer' = [lowerRTSTimer EXCEPT !.due = FALSE]
  /\ UNCHANGED isr

-----------------------------------------------------------------------------
Client == \/ StartWrite \/ StartImmediate \/ QueueWrite \/ QueueEmptied
          \/ GrabWriteFromIsr \/ GrabImmediateFromIsr
          \/ TurnOnBreak \/ TurnOffBreak \/ PretendXoff \/ PretendXon
          \/ SetRTS \/ GetModemUpdate \/ SetHandFlow \/ TakeChars

Next == \/ ISR \/ Shift \/ ChangeCTS \/ Client
        \/ EndWrite \/ EndImmediate
        \/ StartTimerLowerRTS \/ LowerRTSTimerFires \/ InvokePerhapsLowerRTS

Spec == Init /\ [][Next]_vars

\* The UART drains, SerialISR ends, and the DPC, the timer and the timer's callback
\* run in the end, though interrupts may come in between.
Fairness ==
  /\ WF_vars(Shift) /\ WF_vars(TransmitInterrupt) /\ SF_vars(ModemInterrupt)
  /\ SF_vars(NoInterruptPending) /\ WF_vars(EndOfISR)
  /\ WF_vars(LowerRTSTimerFires)
  /\ SF_vars(StartTimerLowerRTS) /\ SF_vars(InvokePerhapsLowerRTS)

FairSpec == Spec /\ Fairness

-----------------------------------------------------------------------------
(* Properties.                                                             *)

TypeOK ==
  /\ dev \in Device /\ lowerRTSTimer \in [set : BOOLEAN, due : BOOLEAN]
  /\ isr \in {"off", "loop", "end"}

FlowCharPending == dev.sendXonChar \/ dev.sendXoffChar

\* No wakeup is lost: outside SerialISR, while there is something to send and no
\* reason to hold it, the transmitter interrupts, or will when its FIFO has
\* drained.  Every routine that gives the ISR work or takes a reason away pokes it,
\* or may rely on another; HoldingEmpty, which the poke depends on, may be stale.
WakeupNotLost ==
  isr = "off" /\ Work(dev) /\ dev.txHolding = {} /\ ~FlowCharPending
    => dev.thr \/ dev.fifo > 0

\* The ISR writes no more than the transmit FIFO takes, though it is also entered
\* at the trigger level, by a poke and at the end of another interrupt
\* (FastcomGetTxFifoSpace; isr.c, the transmit part of SerialISR).
NoOverrun == dev.fifo <= Depth

\* RXHolding agrees with what the peer was told last, unless a flow control
\* character is waiting to be sent: the peer is never left stopped by an Xoff that
\* the driver forgot (SerialPutChar, SerialHandleReducedIntBuffer,
\* SerialSetupNewHandFlow, SerialISR).
PeerAgrees == FlowCharPending \/ ("XOFF" \in dev.rxHolding <=> dev.told = "Xoff")

\* CountOfTryingToLowerRTS counts the paths of execution that are under way: the
\* DPC in its queue, the timer in its queue, the callback that is due.  The close
\* of the port waits for it to become zero, and the device must not go away before.
LowerRTSCount ==
  dev.countOfTryingToLowerRTS =
    (IF dev.startTimerLowerRTSDpc THEN 1 ELSE 0)
      + (IF lowerRTSTimer.set THEN 1 ELSE 0) + (IF lowerRTSTimer.due THEN 1 ELSE 0)

\* Under transmit toggling RTS is up as long as there is a character in the
\* hardware, also when it was sent or the mode was chosen while a path that lowers
\* the line was under way.
RtsUpWhileSending == Toggling(dev) /\ ~HardwareEmpty(dev) => dev.rts

\* Under RTS handshake the line is up exactly when RXHolding has no reason of RTS,
\* across the changes from and to the other modes.
HandshakeLine ==
  dev.handFlow.rts = "HANDSHAKE" => (dev.rts <=> "RTS" \notin dev.rxHolding)

\* Transmit toggling with nothing to send, as SerialPerhapsLowerRTS sees it, and no
\* break.
Quiet == Toggling(dev) /\ ~WritesPending(dev) /\ "BREAK" \notin dev.txHolding

\* A path of execution that tries to lower RTS ends by lowering it once the
\* hardware is empty, unless there is something to send again.  What the code takes
\* for that is part of Quiet, and an exception: with no write current, a counter that
\* was taken from WriteQueue and still counts, or a flush that has stopped a queue
\* with writes in it, makes the path end with RTS up (IsQueueEmpty), though nothing
\* is sent, and no path is started when the queue becomes idle.
RtsPathLowers ==
  Quiet /\ dev.countOfTryingToLowerRTS > 0 ~> ~Quiet \/ FlowCharPending \/ ~dev.rts

=============================================================================
