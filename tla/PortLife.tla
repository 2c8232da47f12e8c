------------------------------ MODULE PortLife ------------------------------
(***************************************************************************)
(* A port over its life: create, close, and the cycles through D0, around  *)
(* the transmitter and its flow control (openclos.c, power.c, pnp.c, the   *)
(* branch of isr.c for a port that is not open).                           *)
(*                                                                         *)
(* The worker of the close runs at passive level, step by step, while the  *)
(* UART drains and the path that lowers RTS goes on.  InterruptStateLock   *)
(* keeps the device in D0 from its first step to CloseLowerRTS.  The cycle *)
(* through D0 is that of the framework: PreInterruptsDisabled, the         *)
(* disconnection and D0Exit; D0Entry, the connection and                   *)
(* PostInterruptsEnabled.                                                  *)
(***************************************************************************)
EXTENDS Transmitter

CONSTANTS
  LinesCleared,  \* may SerialFcInit clear RTS (on some cards it does)?
  MaxCycles      \* bound: cycles through D0

ASSUME LifeAssumption == LinesCleared \subseteq BOOLEAN /\ MaxCycles \in Nat

VARIABLE port

lifeVars == <<dev, lowerRTSTimer, isr, port>>

Stages == {"none", "creating", "open",
           "break", "drain", "xon", "empty", "toggle", "free", "timers", "dpcs"}

Port ==
  [stage : Stages,                  \* of the one file object
   deviceIsOpened : BOOLEAN, reopen : BOOLEAN,
   buffer : BOOLEAN,                \* InterruptReadBuffer is not NULL
   power : {"D0", "leaving", "Dx", "entering"},
   out2 : BOOLEAN,                  \* of the UART's modem control, with dev.rts
   savedRTS : BOOLEAN,              \* by SerialSaveDeviceState
   cycles : 0 .. MaxCycles,
   \* History: a close that found the interrupt disconnected, an open that was marked
   \* without power, characters in the FIFO when it was turned off, an Xon that was
   \* due when the port was closed.
   history : SUBSET {"off close", "off open", "dropped", "Xon due"}]

\* After SerialInitController and the first D0 entry.
LifeInit ==
  /\ \E h \in HandFlows :
       dev = [handFlow |-> h, txHolding |-> {}, rxHolding |-> {},
              sendXonChar |-> FALSE, sendXoffChar |-> FALSE,
              transmitImmediate |-> FALSE, writeLength |-> 0,
              currentImmediate |-> FALSE, currentWrite |-> FALSE,
              writesQueued |-> FALSE, holdingEmpty |-> TRUE,
              charsInInterruptBuffer |-> 0,
              startTimerLowerRTSDpc |-> FALSE, countOfTryingToLowerRTS |-> 0,
              fifo |-> 0, shifting |-> FALSE, thr |-> FALSE, cts |-> TRUE,
              ctsChanged |-> FALSE, rts |-> FALSE, told |-> "Xon"]
  /\ lowerRTSTimer = [set |-> FALSE, due |-> FALSE] /\ isr = "off"
  /\ port = [stage |-> "none", deviceIsOpened |-> FALSE, reopen |-> FALSE,
             buffer |-> FALSE, power |-> "D0", out2 |-> FALSE, savedRTS |-> FALSE,
             cycles |-> 0, history |-> {}]

Powered == port.power # "Dx"
\* IsInterruptConnected.
InterruptConnected == port.power = "D0"

Note(what, happened) == IF happened THEN port.history \cup {what} ELSE port.history

-----------------------------------------------------------------------------
(* SerialISR, and the rest of an open port.                                 *)

\* DeviceIsOpened is looked at on entry only.
OpenISR ==
  /\ Powered /\ port.out2 /\ (isr = "off" => port.deviceIsOpened)
  /\ ISR /\ UNCHANGED port

\* Not open: the registers are read, to quiet the UART.
ClosedISR ==
  /\ Powered /\ port.out2 /\ isr = "off" /\ ~port.deviceIsOpened
  /\ dev.thr \/ dev.ctsChanged
  /\ dev' = [dev EXCEPT !.thr = FALSE, !.ctsChanged = FALSE,
                        !.holdingEmpty = @ \/ dev.thr]
  /\ UNCHANGED <<lowerRTSTimer, isr, port>>

UART == Powered /\ (Shift \/ ChangeCTS) /\ UNCHANGED port

\* The line changes while nobody can see it.
ChangeCTSAsleep ==
  /\ ~Powered /\ dev' = [dev EXCEPT !.cts = ~@]
  /\ UNCHANGED <<lowerRTSTimer, isr, port>>

\* The requests of a client; a queue that is stopped presents no others.
Requests ==
  /\ port.stage = "open" /\ InterruptConnected
  /\ StartWrite \/ QueueWrite \/ TakeChars \/ SetHandFlow
  /\ UNCHANGED port

Completions ==
  port.stage = "open" /\ (EndWrite \/ QueueEmptied) /\ UNCHANGED port

LowerRTSPath ==
  (StartTimerLowerRTS \/ LowerRTSTimerFires \/ InvokePerhapsLowerRTS) /\ UNCHANGED port

-----------------------------------------------------------------------------
(* SerialDeviceFileCreateWorker                                             *)

Fresh(d) ==
  [d EXCEPT !.charsInInterruptBuffer = 0, !.sendXonChar = FALSE, !.sendXoffChar = FALSE]

\* WdfDeviceStopIdle has brought the device to D0.
Create ==
  /\ port.stage = "none" /\ port.power = "D0"
  /\ port' = [port EXCEPT !.stage = "creating", !.buffer = TRUE]
  /\ dev' = Fresh(dev)
  /\ UNCHANGED <<lowerRTSTimer, isr>>

\* The device stays idle, or the other half of the card is in synchronous use; the
\* buffer is left behind.
CreateFails ==
  /\ port.stage = "none"
  /\ port' = [port EXCEPT !.buffer = TRUE]
  /\ dev' \in {dev, Fresh(dev)}
  /\ UNCHANGED <<lowerRTSTimer, isr>>

\* What SerialSetupNewHandFlow does for a port that is not open: every part is new.
Different(h) ==
  [h EXCEPT !.rts = IF @ = "CONTROL" THEN "DISABLE" ELSE "CONTROL",
            !.autoReceive = ~@, !.autoTransmit = ~@]
SetupHandFlowOfClosed(d, error) ==
  SetupNewHandFlow([d EXCEPT !.handFlow = Different(@)], d.handFlow, error)

\* SerialReset: a FIFO that is empty, no interrupt left, the lines as HandFlow says.
Reset(d, error) ==
  LET cleared == [d EXCEPT !.fifo = 0, !.ctsChanged = FALSE]
      set == HandleModemUpdate(SetupHandFlowOfClosed(cleared, error), FALSE)
  IN [set EXCEPT !.thr = FALSE, !.holdingEmpty = TRUE]

\* SerialMarkOpen; without power its writes to the UART are lost.
MarkOpen ==
  /\ port.stage = "creating" /\ isr = "off"
  /\ \E error \in LineErrors :
       dev' = [Reset(dev, error) EXCEPT !.rts = @ /\ Powered]
  /\ port' = [port EXCEPT !.stage = "open", !.deviceIsOpened = TRUE, !.out2 = Powered,
                          !.history = Note("off open", ~Powered)]
  /\ UNCHANGED <<lowerRTSTimer, isr>>

-----------------------------------------------------------------------------
(* SerialFileCloseWorker                                                    *)

NoRequests ==
  /\ ~dev.currentWrite /\ ~dev.writesQueued /\ ~dev.currentImmediate
  /\ dev.writeLength = 0 /\ ~dev.transmitImmediate

\* With the interrupt disconnected the hardware is left alone, and what belongs to it.
CloseBegin ==
  /\ port.stage = "open" /\ NoRequests
  /\ port' = IF InterruptConnected
               THEN [port EXCEPT !.stage = "break", !.deviceIsOpened = FALSE,
                                 !.reopen = FALSE]
               ELSE [port EXCEPT !.stage = "free", !.history = @ \cup {"off close"}]
  /\ UNCHANGED <<dev, lowerRTSTimer, isr>>

\* SerialTurnOffBreak, which waits for an ISR that found the port open.
CloseTurnOffBreak ==
  /\ port.stage = "break" /\ isr = "off"
  /\ port' = [port EXCEPT !.stage = "drain"]
  /\ UNCHANGED <<dev, lowerRTSTimer, isr>>

\* Mutant: the timers are stopped with the hardware.
MarkCloseStopsTimer ==
  /\ port.stage = "drain" /\ isr = "off" /\ HardwareEmpty(dev)
  /\ dev' = [dev EXCEPT !.fifo = 0]
  /\ lowerRTSTimer' = [lowerRTSTimer EXCEPT !.set = FALSE]
  /\ port' = [port EXCEPT !.stage = "xon", !.out2 = FALSE, !.deviceIsOpened = FALSE,
                          !.reopen = FALSE,
                          !.history = Note("Xon due", dev.sendXonChar
                                                        /\ "XOFF" \notin dev.rxHolding)]
  /\ UNCHANGED isr

\* SerialMarkClose, when the hardware is empty: OUT2 and the FIFO are turned off.
MarkClose ==
  /\ port.stage = "drain" /\ isr = "off" /\ HardwareEmpty(dev)
  /\ dev' = [dev EXCEPT !.fifo = 0]
  /\ port' = [port EXCEPT !.stage = "xon", !.out2 = FALSE, !.deviceIsOpened = FALSE,
                          !.reopen = FALSE,
                          !.history = Note("Xon due", dev.sendXonChar
                                                        /\ "XOFF" \notin dev.rxHolding)]
  /\ UNCHANGED <<lowerRTSTimer, isr>>

\* Mutant: an Xon that is due already is left to the ISR.
CloseSendXonUnlessDue ==
  /\ port.stage = "xon"
  /\ dev' = IF "XOFF" \in dev.rxHolding /\ ~dev.sendXonChar
              THEN [dev EXCEPT !.fifo = 1, !.thr = FALSE, !.told = "Xon"] ELSE dev
  /\ port' = [port EXCEPT !.stage = "empty"]
  /\ UNCHANGED <<lowerRTSTimer, isr>>

\* The peer that an automatic Xoff has stopped is told to go on.
CloseSendXon ==
  /\ port.stage = "xon"
  /\ dev' = IF "XOFF" \in dev.rxHolding
              THEN [dev EXCEPT !.fifo = 1, !.thr = FALSE, !.told = "Xon"] ELSE dev
  /\ port' = [port EXCEPT !.stage = "empty"]
  /\ UNCHANGED <<lowerRTSTimer, isr>>

\* The hardware is empty once more, and ten character times have passed; DTR goes down.
CloseEmpty ==
  /\ port.stage = "empty" /\ HardwareEmpty(dev)
  /\ port' = [port EXCEPT !.stage = "toggle"]
  /\ UNCHANGED <<dev, lowerRTSTimer, isr>>

\* Mutant: the paths of execution that lower RTS are not waited for.
CloseLowerRTSNow ==
  /\ port.stage = "toggle"
  /\ dev' = [dev EXCEPT !.rts = FALSE, !.rxHolding = {}, !.txHolding = {}]
  /\ port' = [port EXCEPT !.stage = "free"]
  /\ UNCHANGED <<lowerRTSTimer, isr>>

CloseLowerRTS ==
  /\ port.stage = "toggle" /\ dev.countOfTryingToLowerRTS = 0
  /\ dev' = [dev EXCEPT !.rts = FALSE, !.rxHolding = {}, !.txHolding = {}]
  /\ port' = [port EXCEPT !.stage = "free"]
  /\ UNCHANGED <<lowerRTSTimer, isr>>

CloseFreeBuffer ==
  /\ port.stage = "free"
  /\ port' = [port EXCEPT !.stage = "timers", !.buffer = FALSE]
  /\ UNCHANGED <<dev, lowerRTSTimer, isr>>

\* SerialDrainTimersAndDpcs: the timers first, then the DPCs; of each the callback
\* that runs is waited for.
CloseStopTimers ==
  /\ port.stage = "timers" /\ ~lowerRTSTimer.due
  /\ lowerRTSTimer' = [lowerRTSTimer EXCEPT !.set = FALSE]
  /\ port' = [port EXCEPT !.stage = "dpcs"]
  /\ UNCHANGED <<dev, isr>>

CloseCancelDpcs ==
  /\ port.stage = "dpcs"
  /\ dev' = [dev EXCEPT !.startTimerLowerRTSDpc = FALSE]
  /\ port' = [port EXCEPT !.stage = "none"]
  /\ UNCHANGED <<lowerRTSTimer, isr>>

Close == \/ CloseTurnOffBreak \/ MarkClose \/ CloseSendXon \/ CloseEmpty
         \/ CloseLowerRTS \/ CloseFreeBuffer \/ CloseStopTimers \/ CloseCancelDpcs

LockIsHeld == port.stage \in {"break", "drain", "xon", "empty", "toggle"}

-----------------------------------------------------------------------------
(* The cycle through D0.                                                    *)

PreInterruptsDisabled ==
  /\ port.power = "D0" /\ ~LockIsHeld /\ port.cycles < MaxCycles
  /\ port' = [port EXCEPT !.power = "leaving", !.cycles = @ + 1]
  /\ UNCHANGED <<dev, lowerRTSTimer, isr>>

Dark(d) ==
  [d EXCEPT !.fifo = 0, !.shifting = FALSE, !.thr = FALSE, !.ctsChanged = FALSE,
            !.rts = FALSE]

\* Mutant: the port is to be opened again, open or not.
D0ExitReopens ==
  /\ port.power = "leaving" /\ isr = "off"
  /\ port' = [port EXCEPT !.power = "Dx", !.deviceIsOpened = FALSE, !.reopen = TRUE,
                          !.out2 = FALSE, !.savedRTS = dev.rts,
                          !.history = Note("dropped", dev.fifo > 0)]
  /\ dev' = Dark(dev)
  /\ UNCHANGED <<lowerRTSTimer, isr>>

\* SerialEvtDeviceD0Exit, the interrupt being disconnected.  Of an open port the FIFO is
\* turned off, what is left on the wire drained, and the lines are saved.
D0Exit ==
  /\ port.power = "leaving" /\ isr = "off"
  /\ port' = [port EXCEPT !.power = "Dx", !.deviceIsOpened = FALSE,
                          !.reopen = port.deviceIsOpened,
                          !.out2 = FALSE, !.savedRTS = port.deviceIsOpened /\ dev.rts,
                          !.history = Note("dropped", dev.fifo > 0)]
  /\ dev' = Dark(dev)
  /\ UNCHANGED <<lowerRTSTimer, isr>>

\* Mutant: the interrupts are not enabled anew.
D0EntryNoRefire ==
  /\ port.power = "Dx"
  /\ \E cleared \in LinesCleared :
       /\ dev' = [dev EXCEPT !.rts = port.reopen /\ port.savedRTS /\ ~cleared]
       /\ port' = [port EXCEPT !.power = "entering", !.deviceIsOpened = @ \/ port.reopen,
                               !.reopen = FALSE, !.out2 = port.reopen]
  /\ UNCHANGED <<lowerRTSTimer, isr>>

\* SerialEvtDeviceD0Entry, and the connection of the interrupt.  A port that was open has
\* its lines and OUT2 back, and the state machine is refired.
D0Entry ==
  /\ port.power = "Dx"
  /\ \E cleared \in LinesCleared :
       /\ dev' = [IF port.reopen THEN Poke(dev) ELSE dev
                    EXCEPT !.rts = port.reopen /\ port.savedRTS /\ ~cleared]
       /\ port' = [port EXCEPT !.power = "entering", !.deviceIsOpened = @ \/ port.reopen,
                               !.reopen = FALSE, !.out2 = port.reopen]
  /\ UNCHANGED <<lowerRTSTimer, isr>>

PostInterruptsEnabled ==
  /\ port.power = "entering"
  /\ port' = [port EXCEPT !.power = "D0"]
  /\ UNCHANGED <<dev, lowerRTSTimer, isr>>

-----------------------------------------------------------------------------
LifeNext ==
  \/ OpenISR \/ ClosedISR \/ UART \/ ChangeCTSAsleep
  \/ Requests \/ Completions \/ LowerRTSPath
  \/ Create \/ CreateFails \/ MarkOpen \/ CloseBegin \/ Close
  \/ PreInterruptsDisabled \/ D0Exit \/ D0Entry \/ PostInterruptsEnabled

LifeSpec == LifeInit /\ [][LifeNext]_lifeVars

-----------------------------------------------------------------------------
(* Properties.                                                              *)

LifeTypeOK == TypeOK /\ port \in Port

\* A close with the interrupt disconnected leaves DeviceIsOpened or Reopen and the count
\* as they are; the properties are about ports that had none (see README.md).
NeverClosedOff == "off close" \notin port.history

\* The ISR that takes the port for open has its interrupt buffer: whatever the close and
\* the cycles through D0 have got to, nothing reopens a port whose buffer is gone.
IsrHasBuffer ==
  NeverClosedOff /\ (port.deviceIsOpened \/ port.reopen \/ isr # "off") => port.buffer

\* A port that is open lives again after every cycle through D0: its interrupts reach
\* the driver, and what nothing holds is sent, also when CTS rose while the device
\* was off (SerialEvtDeviceD0Entry, "Refire the state machine").
NothingHolds ==
  dev.txHolding = {} \/ (dev.txHolding = {"CTS"} /\ dev.cts /\ ~dev.ctsChanged)
OpenPortWorks ==
  port.stage = "open" /\ port.power = "D0" /\ port.history \subseteq {"dropped", "Xon due"} =>
    /\ port.deviceIsOpened /\ port.out2
    /\ isr = "off" /\ Work(dev) /\ NothingHolds /\ ~FlowCharPending
         => dev.thr \/ dev.fifo > 0

\* After a close nothing of the session is left: the lines are down, no interrupt comes,
\* and no path of execution is under way that would move RTS in the next session.
ClosedIsQuiet ==
  port.stage = "none" /\ NeverClosedOff =>
    /\ ~port.deviceIsOpened /\ ~port.reopen /\ ~port.out2 /\ ~dev.rts
    /\ isr = "off" /\ dev.countOfTryingToLowerRTS = 0 /\ ~dev.startTimerLowerRTSDpc
    /\ ~lowerRTSTimer.set /\ ~lowerRTSTimer.due

\* The peer that was stopped by an automatic Xoff is not left stopped by a close, unless
\* the FIFO was turned off on characters, or the Xon was due for another reason
\* (openclos.c:471-475).
PeerMayGoOn == port.stage = "none" /\ port.history = {} => dev.told = "Xon"

\* What the close waits for before it lowers RTS is under way: every path of execution
\* that CountOfTryingToLowerRTS counts is a DPC in its queue, a timer that is set or a
\* callback that is due, at every step of the close and in every power state.
CloseWaitsForSomebody == NeverClosedOff => LowerRTSCount
=============================================================================
