------------------------------ MODULE WaitMask ------------------------------
(***************************************************************************)
(* Waiting for events (waitmask.c, the event parts of isr.c, modmflow.c    *)
(* and write.c).  SET_WAIT_MASK says which events count; the ISR collects  *)
(* them in HistoryMask; WAIT_ON_MASK returns what has been collected, or   *)
(* leaves the ISR a location (IrpMaskLocation) to put the next events in.  *)
(*                                                                         *)
(* Concurrency is that of ReadPath.  SerialStartMask never leaves a mask   *)
(* request behind: it runs to its end under the device lock, so MaskQueue  *)
(* stays empty and each request is one step between two interrupts.        *)
(***************************************************************************)
EXTENDS Requests, Integers

CONSTANTS
  Req,       \* the wait requests a client may send
  NoReq,     \* a null CurrentWaitRequest
  Events,    \* the events of the mask, with "TXEMPTY" among them or not
  Masks      \* the masks a client may set

ASSUME ReqAssumption == NoReq \notin Req
ASSUME MaskAssumption == Masks \subseteq SUBSET Events

VARIABLES
  isrWaitMask, historyMask,
  irpMaskLocation,      \* the wait whose buffer the ISR may fill, or NoReq
  emptiedTransmit,
  currentWaitRequest,
  buffer,               \* wait -> the events in its SystemBuffer
  status, refs, cancelled, cancelMark,
  commWaitDpc,          \* CommWaitDpc is queued
  transmit              \* "empty", "waiting" (nothing sent yet), "sent"

requestVars == <<currentWaitRequest, status, refs, cancelled, cancelMark>>
vars == <<isrWaitMask, historyMask, irpMaskLocation, emptiedTransmit, buffer,
          requestVars, commWaitDpc, transmit>>

Done == {"SUCCESS", "CANCELLED", "INVALID"}

Init ==
  /\ isrWaitMask = {} /\ historyMask = {} /\ irpMaskLocation = NoReq
  /\ emptiedTransmit = FALSE /\ currentWaitRequest = NoReq
  /\ buffer = [r \in Req |-> {}] /\ status = [r \in Req |-> "unused"]
  /\ refs = [r \in Req |-> {}] /\ cancelled = [r \in Req |-> FALSE]
  /\ cancelMark = [r \in Req |-> "none"]
  /\ commWaitDpc = FALSE /\ transmit = "empty"

-----------------------------------------------------------------------------
(* Events.                                                                 *)

\* Mutant of Note: the DPC is not queued.
NoteWithoutDpc(events) ==
  LET history == historyMask \cup events IN
  /\ UNCHANGED commWaitDpc
  /\ IF irpMaskLocation # NoReq /\ history # {}
       THEN /\ buffer' = [buffer EXCEPT ![irpMaskLocation] = history]
            /\ irpMaskLocation' = NoReq /\ historyMask' = {}
       ELSE historyMask' = history /\ UNCHANGED <<buffer, irpMaskLocation>>

\* What every place that notes an event does with it: it is added to the
\* history, and the history goes to the waiting request if there is one.
Note(events) ==
  LET history == historyMask \cup events IN
  IF irpMaskLocation # NoReq /\ history # {}
    THEN /\ buffer' = [buffer EXCEPT ![irpMaskLocation] = history]
         /\ irpMaskLocation' = NoReq /\ historyMask' = {}
         /\ commWaitDpc' = TRUE
    ELSE /\ historyMask' = history
         /\ UNCHANGED <<buffer, irpMaskLocation, commWaitDpc>>

\* The ISR sees events: a character, an error, a change of the modem lines.
EventsHappen(events) ==
  /\ Note(events \cap isrWaitMask)
  /\ UNCHANGED <<isrWaitMask, emptiedTransmit, requestVars, transmit>>

\* A write or an immediate character is accepted.
TransmitStarts ==
  /\ transmit = "empty" /\ transmit' = "waiting"
  /\ UNCHANGED <<isrWaitMask, historyMask, irpMaskLocation, emptiedTransmit,
                 buffer, requestVars, commWaitDpc>>

\* SERIAL_IIR_THR with something to send.
TransmitInterrupt ==
  /\ transmit # "empty" /\ transmit' = "sent"
  /\ emptiedTransmit' = TRUE
  /\ UNCHANGED <<isrWaitMask, historyMask, irpMaskLocation, buffer, requestVars,
                 commWaitDpc>>

\* SerialProcessEmptyTransmit, when the last write or immediate is completed.
ProcessEmptyTransmit ==
  /\ transmit # "empty" /\ transmit' = "empty"
  /\ IF "TXEMPTY" \in isrWaitMask /\ emptiedTransmit
       THEN Note({"TXEMPTY"})
       ELSE UNCHANGED <<historyMask, irpMaskLocation, buffer, commWaitDpc>>
  /\ UNCHANGED <<isrWaitMask, emptiedTransmit, requestVars>>

-----------------------------------------------------------------------------
(* SerialStartMask.                                                        *)

\* IOCTL_SERIAL_SET_WAIT_MASK: SerialFinishOldWait ends a wait with no events,
\* and what is not in the new mask is forgotten.
SetWaitMask(mask) ==
  /\ IF irpMaskLocation # NoReq
       THEN /\ buffer' = [buffer EXCEPT ![irpMaskLocation] = {}]
            /\ irpMaskLocation' = NoReq /\ commWaitDpc' = TRUE
       ELSE UNCHANGED <<buffer, irpMaskLocation, commWaitDpc>>
  /\ historyMask' = historyMask \cap mask
  /\ isrWaitMask' = mask
  /\ UNCHANGED <<emptiedTransmit, requestVars, transmit>>

\* IOCTL_SERIAL_WAIT_ON_MASK with a zero mask, or with another wait current.
WaitRefused(r) ==
  /\ status[r] = "unused" /\ (isrWaitMask = {} \/ currentWaitRequest # NoReq)
  /\ status' = [status EXCEPT ![r] = "INVALID"]
  /\ UNCHANGED <<isrWaitMask, historyMask, irpMaskLocation, emptiedTransmit, buffer,
                 currentWaitRequest, refs, cancelled, cancelMark, commWaitDpc,
                 transmit>>

\* Mutant of GiveWaitToIsr: the history is not looked at.
GiveWaitToIsrBlindly(r) ==
  /\ emptiedTransmit' = FALSE /\ irpMaskLocation' = r
  /\ UNCHANGED <<buffer, historyMask, commWaitDpc>>

\* SerialGiveWaitToIsr: the history is returned, or the ISR gets the location.
GiveWaitToIsr(r) ==
  IF historyMask = {}
    THEN /\ emptiedTransmit' = FALSE /\ irpMaskLocation' = r
         /\ UNCHANGED <<buffer, historyMask, commWaitDpc>>
    ELSE /\ buffer' = [buffer EXCEPT ![r] = historyMask] /\ historyMask' = {}
         /\ commWaitDpc' = TRUE
         /\ UNCHANGED <<emptiedTransmit, irpMaskLocation>>

WaitOnMask(r) ==
  /\ status[r] = "unused" /\ isrWaitMask # {} /\ currentWaitRequest = NoReq
  /\ status' = [status EXCEPT ![r] = "pending"]
  /\ currentWaitRequest' = r
  /\ refs' = [refs EXCEPT ![r] = {"CANCEL", "ISR"}]
  /\ cancelMark' = [cancelMark EXCEPT ![r] = Marked(cancelled[r])]
  /\ GiveWaitToIsr(r)
  /\ UNCHANGED <<isrWaitMask, cancelled, transmit>>

-----------------------------------------------------------------------------
(* Completion.                                                             *)

\* SerialTryToCompleteCurrent on the current wait; grabbed says that
\* SerialGrabWaitFromIsr took it from the ISR.
TryToComplete(grabbed, final, caller) ==
  LET r == currentWaitRequest
      left == RefsLeft(refs[r], caller, IF grabbed THEN {"ISR"} ELSE {},
                       cancelMark[r], NullTimer, NullTimer)
  IN /\ refs' = [refs EXCEPT ![r] = left]
     /\ cancelMark' = [cancelMark EXCEPT ![r] = Unmarked(@, caller)]
     /\ IF left = {}
          THEN /\ status' = [status EXCEPT ![r] = final]
               /\ currentWaitRequest' = NoReq
          ELSE UNCHANGED <<status, currentWaitRequest>>
     /\ UNCHANGED <<isrWaitMask, historyMask, emptiedTransmit, cancelled, transmit>>

\* SerialCompleteWait, the DPC of a satisfied or finished wait.
CompleteWait ==
  /\ commWaitDpc /\ commWaitDpc' = FALSE
  /\ TryToComplete(FALSE, "SUCCESS", "ISR")
  /\ UNCHANGED <<buffer, irpMaskLocation>>

\* Mutant of GrabWaitFromIsr: the ISR keeps the location.
GrabWaitFromIsrLeavesLocation(grabbed) ==
  /\ buffer' = IF grabbed THEN [buffer EXCEPT ![irpMaskLocation] = {}] ELSE buffer
  /\ UNCHANGED irpMaskLocation

\* Mutant of GrabWaitFromIsr: the buffer is cleared whoever owns the wait.
GrabWaitFromIsrUnchecked(grabbed) ==
  /\ buffer' = [buffer EXCEPT ![currentWaitRequest] = {}]
  /\ irpMaskLocation' = NoReq

\* SerialGrabWaitFromIsr takes the location away from the ISR.
GrabWaitFromIsr(grabbed) ==
  IF grabbed
    THEN /\ buffer' = [buffer EXCEPT ![irpMaskLocation] = {}]
         /\ irpMaskLocation' = NoReq
    ELSE UNCHANGED <<buffer, irpMaskLocation>>

\* SerialCancelWait.
CancelWait(r) ==
  LET grabbed == irpMaskLocation # NoReq IN
  /\ cancelMark[r] = "dispatched"
  /\ GrabWaitFromIsr(grabbed)
  /\ TryToComplete(grabbed, "CANCELLED", "CANCEL")
  /\ UNCHANGED commWaitDpc

\* The client cancels a wait.
Cancel(r) ==
  /\ status[r] = "pending" /\ ~cancelled[r]
  /\ cancelled' = [cancelled EXCEPT ![r] = TRUE]
  /\ cancelMark' = [cancelMark EXCEPT ![r] =
                      IF @ = "cancelable" THEN "dispatched" ELSE @]
  /\ UNCHANGED <<isrWaitMask, historyMask, irpMaskLocation, emptiedTransmit,
                 buffer, currentWaitRequest, status, refs, commWaitDpc, transmit>>

Next ==
  \/ \E events \in SUBSET Events \ {{}} : EventsHappen(events)
  \/ TransmitStarts \/ TransmitInterrupt \/ ProcessEmptyTransmit
  \/ \E mask \in Masks : SetWaitMask(mask)
  \/ \E r \in Req : WaitRefused(r) \/ WaitOnMask(r) \/ Cancel(r) \/ CancelWait(r)
  \/ CompleteWait

Spec == Init /\ [][Next]_vars

\* A queued DPC and a dispatched cancel callback get the device lock in turn.
Fairness ==
  /\ WF_vars(CompleteWait)
  /\ \A r \in Req : WF_vars(CancelWait(r))

FairSpec == Spec /\ Fairness

-----------------------------------------------------------------------------
TypeOK ==
  /\ isrWaitMask \subseteq Events /\ historyMask \subseteq Events
  /\ irpMaskLocation \in Req \cup {NoReq} /\ emptiedTransmit \in BOOLEAN
  /\ currentWaitRequest \in Req \cup {NoReq}
  /\ buffer \in [Req -> SUBSET Events]
  /\ status \in [Req -> {"unused", "pending"} \cup Done]
  /\ refs \in [Req -> SUBSET RefTypes] /\ cancelled \in [Req -> BOOLEAN]
  /\ cancelMark \in [Req -> CancelStates]
  /\ commWaitDpc \in BOOLEAN /\ transmit \in {"empty", "waiting", "sent"}

\* Every reference of the current wait stands for one party that will come
\* back for it: the ISR, which has its location or has queued the DPC, and the
\* cancel routine; no other wait has any.
RefsMatchOwners ==
  LET w == currentWaitRequest IN
  /\ \A r \in Req : r # w => refs[r] = {} /\ cancelMark[r] = "none"
  /\ irpMaskLocation # NoReq => irpMaskLocation = w /\ ~commWaitDpc
  /\ w = NoReq => ~commWaitDpc
  /\ w # NoReq =>
       /\ refs[w] # {} /\ refs[w] \subseteq {"ISR", "CANCEL"}
       /\ "ISR" \in refs[w] <=> irpMaskLocation = w \/ commWaitDpc
       /\ "CANCEL" \in refs[w] <=> cancelMark[w] # "none"

\* No wait sleeps while an event it asked for is already in the history, and the
\* history holds nothing the mask in force did not ask for.
NoMissedEvent ==
  /\ irpMaskLocation # NoReq => historyMask = {}
  /\ historyMask \subseteq isrWaitMask

\* What a wait was told stays with it: nothing is written into the buffer of a
\* wait that is on its way out or completed, even when the mask changes, it is
\* cancelled, or the next wait is given to the ISR.
ToldOnce ==
  [][\A r \in Req : status[r] # "unused" /\ irpMaskLocation # r
                      => buffer'[r] = buffer[r]]_vars

\* A wait that is told of events, ended by a new mask or cancelled is completed.
SatisfiedWaitEnds ==
  \A r \in Req : status[r] = "pending" /\ (irpMaskLocation # r \/ cancelled[r])
                   ~> status[r] \in Done
=============================================================================
