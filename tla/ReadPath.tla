------------------------------ MODULE ReadPath ------------------------------
(***************************************************************************)
(* The receive side of the driver: the interrupt (typeahead) buffer the    *)
(* ISR fills and the read requests that are served from it (read.c, the    *)
(* SerialPutChar part of isr.c, purge.c, error.c, the request protocol of  *)
(* utils.c).                                                               *)
(*                                                                         *)
(* Concurrency.  All queue callbacks, cancel callbacks, DPCs and timer     *)
(* callbacks of the driver run under the framework's device lock           *)
(* (WdfSynchronizationScopeDevice, AutomaticSerialization), so they form   *)
(* one monitor: pc = "idle" when the lock is free.  Only the ISR runs      *)
(* outside it: it preempts the lock holder between any two steps, and is   *)
(* excluded only inside a WdfInterruptSynchronize routine.  A handler is   *)
(* split into actions where an ISR in between can be seen; steps that      *)
(* touch only lock-protected state commute with the ISR and are merged.    *)
(***************************************************************************)
EXTENDS Requests, Integers, Sequences

CONSTANTS
  Reads,        \* the reads a client may send,
  Resizes,      \* and the requests to resize the interrupt buffer
  Loads,        \* bound: which of them are sent in one behaviour
  NoReq,        \* a null CurrentReadRequest
  Lens,         \* lengths a read may ask for
  MaxLen,       \* bound: the longest read
  InitSize,     \* the size of the interrupt buffer at start
  Sizes,        \* sizes a resize request may ask for
  MaxSize,      \* bound: the largest interrupt buffer
  MaxChars,     \* bound: characters that arrive
  Timeouts,     \* values of SERIAL_TIMEOUTS a client may set
  ErrorAbort,   \* SERIAL_ERROR_ABORT is set in ControlHandShake
  ErrorChar,    \* SERIAL_ERROR_CHAR is set in FlowReplace
  LineHolds     \* which of "DTR", "RTS" do receive flow control

\* What the read queue may hold.
Req == Reads \cup Resizes

ASSUME ReqAssumption == NoReq \notin Req /\ Reads \cap Resizes = {}
ASSUME SizeAssumption ==
  /\ MaxLen \in Nat /\ Lens \subseteq 1 .. MaxLen
  /\ MaxSize \in Nat /\ InitSize \in 1 .. MaxSize /\ Sizes \subseteq 1 .. MaxSize
  /\ MaxChars \in Nat
ASSUME OptionAssumption ==
  /\ ErrorAbort \in BOOLEAN /\ ErrorChar \in BOOLEAN
  /\ LineHolds \subseteq {"DTR", "RTS"}
\* ReadIntervalTimeout and the two total timeouts are 0, MAXULONG or in between.
Values == {"zero", "some", "max"}
ASSUME TimeoutAssumption ==
  Timeouts \subseteq [interval : Values, multiplier : Values, constant : Values]

VARIABLES
  \* The buffers.  A character is the number of its arrival; 0 is the error
  \* character (and whatever a buffer held before).
  interruptBuffer,        \* slot -> character
  userBuffer,             \* request -> offset -> character (SystemBuffer)
  newBuffer,              \* the buffer a resize is moving to
  bufferSize, readBufferBase, firstReadableChar, currentCharSlot,
  lastCharSlot, charsInInterruptBuffer,
  arrived,                \* characters stored so far
  errorWord,              \* ErrorWord # 0
  rxHolding,              \* RXHolding, of DTR and RTS
  \* The requests.
  currentReadRequest, readQueue,
  pool,                   \* the resize requests that own their new buffer
  length, information, status, refs,
  cancelled,              \* request -> the client cancelled it
  cancelMark,             \* request -> its CancelStates
  \* Working storage of the current read.
  numberNeededForRead, charsCopied, readByIsr, countOnLastRead, plan,
  \* Timers, DPCs and the lock holder.
  totalTimer, intervalTimer, completeReadDpc, commErrorDpc, pc

ringVars == <<interruptBuffer, bufferSize, readBufferBase, firstReadableChar,
              currentCharSlot, lastCharSlot, charsInInterruptBuffer>>
isrVars == <<arrived, errorWord, readByIsr, completeReadDpc, commErrorDpc>>
requestVars == <<currentReadRequest, readQueue, pool, length, information,
                 status, refs, cancelled, cancelMark>>
readVars == <<numberNeededForRead, charsCopied, countOnLastRead, plan, newBuffer>>
timerVars == <<totalTimer, intervalTimer>>
vars == <<ringVars, isrVars, requestVars, readVars, timerVars,
          userBuffer, rxHolding, pc>>

-----------------------------------------------------------------------------
\* SERIAL_COMPLETE_READ_CANCEL, _TOTAL and _COMPLETE.
ReadCancel == -1
ReadTotal == -2
ReadComplete == -3

\* ReadBufferBase is the interrupt buffer or the SystemBuffer of a read, which
\* the name of the read stands for.
InterruptReadBuffer == NoReq

Done == {"SUCCESS", "TIMEOUT", "CANCELLED"}
NoPlan == [returnNow |-> FALSE, os2 |-> FALSE, crunch |-> FALSE,
           total |-> FALSE, interval |-> FALSE]

Init ==
  /\ interruptBuffer = [s \in 0 .. MaxSize - 1 |-> 0]
  /\ newBuffer = [s \in 0 .. MaxSize - 1 |-> 0]
  /\ userBuffer = [r \in Req |-> [o \in 0 .. MaxLen - 1 |-> 0]]
  /\ bufferSize = InitSize /\ readBufferBase = InterruptReadBuffer
  /\ firstReadableChar = 0 /\ currentCharSlot = 0
  /\ lastCharSlot = InitSize - 1 /\ charsInInterruptBuffer = 0
  /\ arrived = 0 /\ errorWord = FALSE /\ rxHolding = {}
  /\ currentReadRequest = NoReq /\ readQueue = << >>
  /\ pool = {} /\ length = [r \in Req |-> 0]
  /\ information = [r \in Req |-> 0] /\ status = [r \in Req |-> "unused"]
  /\ refs = [r \in Req |-> {}] /\ cancelled = [r \in Req |-> FALSE]
  /\ cancelMark = [r \in Req |-> "none"]
  /\ numberNeededForRead = 0 /\ charsCopied = 0 /\ readByIsr = 0
  /\ countOnLastRead = 0 /\ plan = NoPlan
  /\ totalTimer = "off" /\ intervalTimer = "off"
  /\ completeReadDpc = FALSE /\ commErrorDpc = FALSE /\ pc = "idle"

-----------------------------------------------------------------------------
(* Receive flow control and the buffer pointers.                           *)

\* HandFlow.XoffLimit and XonLimit: the values pnp.c and a resize give them.
XoffLimit == bufferSize \div 8
XonLimit(size) == size \div 2

\* Mutant of HandleReducedIntBuffer: the limit itself is left out.
HandleReducedBelowLimit(chars, size) ==
  rxHolding' = IF chars < XonLimit(size) THEN {} ELSE rxHolding

\* SerialHandleReducedIntBuffer, for the two modem lines: raised again once
\* no more than XonLimit characters are left.
HandleReducedIntBuffer(chars, size) ==
  rxHolding' = IF chars <= XonLimit(size) THEN {} ELSE rxHolding

\* The slot n places after a slot of the interrupt buffer.
SlotAfter(slot, n) ==
  IF slot + n > lastCharSlot THEN slot + n - (lastCharSlot + 1) ELSE slot + n

\* The copy both SerialGetCharsFromIntBuffer and SerialMoveToNewIntBuffer make:
\* n readable characters, to dest from offset on.
Copied(dest, offset, n) ==
  [o \in DOMAIN dest |->
     IF o \in offset .. offset + n - 1
       THEN interruptBuffer[SlotAfter(firstReadableChar, o - offset)]
       ELSE dest[o]]

\* Mutants of SwitchToInterruptBuffer: one of its assignments is missing.
SwitchKeepsLastCharSlot ==
  /\ readBufferBase' = InterruptReadBuffer
  /\ currentCharSlot' = 0 /\ firstReadableChar' = 0 /\ charsInInterruptBuffer' = 0
  /\ UNCHANGED <<interruptBuffer, bufferSize, lastCharSlot>>
SwitchKeepsReadBufferBase ==
  /\ currentCharSlot' = 0 /\ firstReadableChar' = 0
  /\ lastCharSlot' = bufferSize - 1 /\ charsInInterruptBuffer' = 0
  /\ UNCHANGED <<interruptBuffer, bufferSize, readBufferBase>>

\* The ISR goes back to the interrupt buffer, which is empty.
SwitchToInterruptBuffer ==
  /\ readBufferBase' = InterruptReadBuffer
  /\ currentCharSlot' = 0 /\ firstReadableChar' = 0
  /\ lastCharSlot' = bufferSize - 1 /\ charsInInterruptBuffer' = 0
  /\ UNCHANGED <<interruptBuffer, bufferSize>>

-----------------------------------------------------------------------------
(* The interrupt service routine.                                          *)

\* SerialPutChar, copying into the buffer of the current read.  There is room:
\* when there is none left the ISR switches back and queues the DPC.
PutCharInUserBuffer ==
  LET r == currentReadRequest IN
  /\ arrived < MaxChars /\ readBufferBase # InterruptReadBuffer
  /\ arrived' = arrived + 1
  /\ readByIsr' = readByIsr + 1
  /\ userBuffer' = [userBuffer EXCEPT ![readBufferBase][currentCharSlot] = arrived + 1]
  /\ IF currentCharSlot = lastCharSlot
       THEN /\ SwitchToInterruptBuffer
            /\ information' = [information EXCEPT ![r] = length[r]]
            /\ completeReadDpc' = TRUE
       ELSE /\ currentCharSlot' = currentCharSlot + 1
            /\ UNCHANGED <<interruptBuffer, bufferSize, readBufferBase,
                           firstReadableChar, lastCharSlot,
                           charsInInterruptBuffer, information, completeReadDpc>>
  /\ UNCHANGED <<errorWord, commErrorDpc, rxHolding, currentReadRequest, readQueue,
                 pool, length, status, refs, cancelled, cancelMark, readVars,
                 timerVars, pc>>

\* The lines SerialPutChar lowers before it stores into the interrupt buffer.
HoldLines ==
  rxHolding' = IF bufferSize - XoffLimit <= charsInInterruptBuffer + 1
                 THEN rxHolding \cup LineHolds ELSE rxHolding

\* SerialPutChar, copying into the interrupt buffer.
PutCharInInterruptBuffer ==
  /\ arrived < MaxChars /\ readBufferBase = InterruptReadBuffer
  /\ charsInInterruptBuffer < bufferSize
  /\ HoldLines
  /\ arrived' = arrived + 1
  /\ interruptBuffer' = [interruptBuffer EXCEPT ![currentCharSlot] = arrived + 1]
  /\ charsInInterruptBuffer' = charsInInterruptBuffer + 1
  /\ currentCharSlot' = IF currentCharSlot = lastCharSlot THEN 0
                                                         ELSE currentCharSlot + 1
  /\ UNCHANGED <<bufferSize, readBufferBase, firstReadableChar, lastCharSlot,
                 errorWord, readByIsr, completeReadDpc, commErrorDpc, userBuffer,
                 requestVars, readVars, timerVars, pc>>

\* SerialPutChar, with no room left: the character is lost, and may be marked
\* by the error character in the place of the last one.
PutCharOverrun ==
  /\ readBufferBase = InterruptReadBuffer /\ charsInInterruptBuffer >= bufferSize
  /\ HoldLines
  /\ errorWord' = TRUE
  /\ LET at == IF currentCharSlot = 0 THEN bufferSize - 1 ELSE currentCharSlot - 1
     IN interruptBuffer' =
          IF ErrorChar THEN [interruptBuffer EXCEPT ![at] = 0] ELSE interruptBuffer
  /\ commErrorDpc' = (commErrorDpc \/ ErrorAbort)
  /\ UNCHANGED <<bufferSize, readBufferBase, firstReadableChar, currentCharSlot,
                 lastCharSlot, charsInInterruptBuffer, arrived, readByIsr,
                 completeReadDpc, userBuffer, requestVars, readVars, timerVars, pc>>

\* SerialProcessLSR: a line error (framing, parity, hardware overrun, break).
LineError ==
  /\ errorWord' = TRUE
  /\ commErrorDpc' = (commErrorDpc \/ ErrorAbort)
  /\ UNCHANGED <<ringVars, arrived, readByIsr, completeReadDpc, userBuffer,
                 rxHolding, requestVars, readVars, timerVars, pc>>

ISR == \/ PutCharInUserBuffer
       \/ PutCharInInterruptBuffer
       \/ PutCharOverrun
       \/ LineError

-----------------------------------------------------------------------------
(* The request protocol: SerialGetNextRequest, SerialTryToCompleteCurrent.  *)

\* SerialGetNextRequest: the head of the queue becomes current, to be started
\* by SerialStartRead; with an empty queue the lock holder goes on at back.
GetNextRequest(queue, back) ==
  IF queue = << >>
    THEN /\ currentReadRequest' = NoReq /\ readQueue' = << >> /\ pc' = back
    ELSE /\ currentReadRequest' = Head(queue) /\ readQueue' = Tail(queue)
         /\ pc' = "start"

\* SerialGrabReadFromIsr finds the ISR in the user's buffer.
IsrOwnsRead == readBufferBase # InterruptReadBuffer

\* Mutant of CharsHeld: off by one.
CharsHeldOneLess(r) ==
  IF IsrOwnsRead THEN length[r] - (lastCharSlot - currentCharSlot)
                 ELSE information[r]

\* The characters the current read holds once the ISR has let go of it.
CharsHeld(r) ==
  IF IsrOwnsRead THEN length[r] - (lastCharSlot - currentCharSlot + 1)
                 ELSE information[r]

\* SerialTryToCompleteCurrent on the current read, for a caller that holds the
\* reference type `caller`, with SerialGrabReadFromIsr if grab.  interval and
\* total are the timers as the caller found them, queue and outcome the read
\* queue and the statuses after what the caller did to them.
TryToComplete(grab, final, caller, interval, total, queue, outcome, back) ==
  LET r == currentReadRequest
      grabbed == grab /\ IsrOwnsRead
      left == RefsLeft(refs[r], caller, IF grabbed THEN {"ISR"} ELSE {},
                       cancelMark[r], interval, total)
      held == IF grabbed THEN CharsHeld(r) ELSE information[r]
  IN /\ IF grabbed THEN SwitchToInterruptBuffer ELSE UNCHANGED ringVars
     /\ refs' = [refs EXCEPT ![r] = left]
     /\ cancelMark' = [cancelMark EXCEPT ![r] = Unmarked(@, caller)]
     /\ intervalTimer' = Stopped(interval) /\ totalTimer' = Stopped(total)
     /\ IF left = {}
          THEN /\ information' = [information EXCEPT
                                    ![r] = IF final = "CANCELLED" THEN 0 ELSE held]
               /\ status' = [outcome EXCEPT ![r] = final]
               /\ GetNextRequest(queue, back)
          ELSE /\ information' = [information EXCEPT ![r] = held]
               /\ status' = outcome
               /\ readQueue' = queue /\ pc' = back
               /\ UNCHANGED currentReadRequest
     /\ UNCHANGED <<length, cancelled, userBuffer, rxHolding, arrived,
                    errorWord, readByIsr, newBuffer, numberNeededForRead,
                    charsCopied, plan>>

\* SerialCancelCurrentRead.
CancelCurrentRead(queue, outcome, back) ==
  /\ countOnLastRead' = ReadCancel
  /\ TryToComplete(TRUE, "CANCELLED", "CANCEL", intervalTimer, totalTimer,
                   queue, outcome, back)

-----------------------------------------------------------------------------
(* Dispatch of read and resize requests.                                   *)

\* SerialCompleteIfError refuses every request after an error.
Refused == ErrorAbort /\ errorWord

\* The client sends r within the bound Loads.
Sends(r) ==
  /\ pc = "idle" /\ status[r] = "unused"
  /\ \E load \in Loads : r \in load /\ \A q \in Req \ load : status[q] = "unused"

\* SerialStartOrQueue on the read queue.
StartOrQueue(r) ==
  /\ status' = [status EXCEPT ![r] = "pending"]
  /\ IF readQueue = << >> /\ currentReadRequest = NoReq
       THEN /\ currentReadRequest' = r /\ pc' = "start" /\ UNCHANGED readQueue
       ELSE /\ readQueue' = Append(readQueue, r)
            /\ UNCHANGED <<currentReadRequest, pc>>

\* A request completed by its dispatch routine.
CompleteAtOnce(r, final) ==
  /\ status' = [status EXCEPT ![r] = final]
  /\ UNCHANGED <<currentReadRequest, readQueue, pc>>

\* SerialEvtIoRead.
EvtIoRead(r, n) ==
  /\ Sends(r)
  /\ length' = [length EXCEPT ![r] = n]
  /\ IF Refused THEN CompleteAtOnce(r, "CANCELLED") ELSE StartOrQueue(r)
  /\ UNCHANGED <<pool, information, refs, cancelled, cancelMark, ringVars, isrVars,
                 readVars, timerVars, userBuffer, rxHolding>>

\* IOCTL_SERIAL_SET_QUEUE_SIZE (length is InSize): a buffer is never made
\* smaller; a larger one goes through the read queue, unless its allocation
\* fails, which is also reported as success.
SetQueueSize(r, n) ==
  /\ Sends(r)
  /\ length' = [length EXCEPT ![r] = n]
  /\ IF Refused THEN CompleteAtOnce(r, "CANCELLED") /\ UNCHANGED pool
     ELSE \/ n > bufferSize /\ StartOrQueue(r) /\ pool' = pool \cup {r}
          \/ CompleteAtOnce(r, "SUCCESS") /\ UNCHANGED pool
  /\ UNCHANGED <<information, refs, cancelled, cancelMark, ringVars, isrVars,
                 readVars, timerVars, userBuffer, rxHolding>>

\* IOCTL_SERIAL_GET_COMMSTATUS reads and clears the error word.
GetCommStatus ==
  /\ pc = "idle" /\ errorWord
  /\ errorWord' = FALSE
  /\ UNCHANGED <<arrived, readByIsr, completeReadDpc, commErrorDpc, ringVars,
                 requestVars, readVars, timerVars, userBuffer, rxHolding, pc>>

-----------------------------------------------------------------------------
(* SerialStartRead, in two steps: the copy made while the ISR runs, and the *)
(* synchronized routine with the lock-protected work after it.             *)

\* What SerialStartRead makes of the timeouts in force.
ReadPlan(t) ==
  LET atOnce == t.interval = "max"
      anyTotal == t.multiplier # "zero" \/ t.constant # "zero"
      bounded == t.constant # "max"
  IN [returnNow |-> atOnce /\ ~anyTotal,
      os2 |-> atOnce /\ anyTotal /\ bounded,
      crunch |-> atOnce /\ bounded /\ t.multiplier = "max",
      total |-> anyTotal /\ (atOnce => bounded),
      interval |-> t.interval = "some"]

\* Mutant of CharsToGet: all there is.
CharsToGetAll(available, needed) == available

\* SerialGetCharsFromIntBuffer: how many characters are copied.
CharsToGet(available, needed) == IF available > needed THEN needed ELSE available

StartRead ==
  LET r == currentReadRequest
      n == CharsToGet(charsInInterruptBuffer, length[r])
  IN /\ pc = "start" /\ r \in Reads
     /\ \E t \in Timeouts : plan' = ReadPlan(t)
     /\ totalTimer' = Stopped(totalTimer) /\ intervalTimer' = Stopped(intervalTimer)
     /\ userBuffer' = [userBuffer EXCEPT ![r] = Copied(@, 0, n)]
     /\ firstReadableChar' = SlotAfter(firstReadableChar, n)
     /\ numberNeededForRead' = length[r] - n
     /\ charsCopied' = n
     /\ information' = [information EXCEPT ![r] = @ + n]
     /\ pc' = "copied"
     /\ UNCHANGED <<interruptBuffer, bufferSize, readBufferBase, currentCharSlot,
                    lastCharSlot, charsInInterruptBuffer, isrVars, rxHolding,
                    currentReadRequest, readQueue, pool, length, status, refs,
                    cancelled, cancelMark, countOnLastRead, newBuffer>>

\* SerialStartRead needs no more than the copy.
ReadIsSatisfied ==
  \/ plan.returnNow
  \/ numberNeededForRead = 0
  \/ plan.os2 /\ information[currentReadRequest] > 0

\* SerialUpdateInterruptBuffer, and the read is complete.
FinishReadAtOnce ==
  LET r == currentReadRequest IN
  /\ pc = "copied" /\ ReadIsSatisfied
  /\ charsInInterruptBuffer' = charsInInterruptBuffer - charsCopied
  /\ HandleReducedIntBuffer(charsInInterruptBuffer - charsCopied, bufferSize)
  /\ status' = [status EXCEPT ![r] = "SUCCESS"]
  /\ charsCopied' = 0 /\ plan' = NoPlan
  /\ GetNextRequest(readQueue, "idle")
  /\ UNCHANGED <<interruptBuffer, bufferSize, readBufferBase, firstReadableChar,
                 currentCharSlot, lastCharSlot, isrVars, pool, length, information,
                 refs, cancelled, cancelMark, numberNeededForRead, newBuffer,
                 countOnLastRead, timerVars, userBuffer>>

\* SerialUpdateAndSwitchToUser: the characters that came in meanwhile, and the
\* ISR is switched to the user's buffer if they are still too few.
UpdateAndSwitchToUser ==
  LET r == currentReadRequest
      wanted == IF plan.crunch THEN 1 ELSE length[r]
      needed == IF plan.crunch THEN 1 ELSE numberNeededForRead
      available == charsInInterruptBuffer - charsCopied
      n == CharsToGet(available, needed)
      got == information[r] + n
  IN /\ pc = "copied" /\ ~ReadIsSatisfied
     /\ length' = [length EXCEPT ![r] = wanted]
     /\ userBuffer' = [userBuffer EXCEPT ![r] = Copied(@, wanted - needed, n)]
     /\ numberNeededForRead' = needed - n
     /\ charsInInterruptBuffer' = available - n
     /\ HandleReducedIntBuffer(available - n, bufferSize)
     /\ information' = [information EXCEPT ![r] = got]
     /\ firstReadableChar' = SlotAfter(firstReadableChar, n)
     /\ charsCopied' = 0 /\ plan' = NoPlan
     /\ IF n = needed
          THEN /\ status' = [status EXCEPT ![r] = "SUCCESS"]
               /\ refs' = [refs EXCEPT ![r] = {}]
               /\ GetNextRequest(readQueue, "idle")
               /\ UNCHANGED <<readBufferBase, currentCharSlot, lastCharSlot,
                              countOnLastRead, readByIsr, cancelMark, timerVars>>
          ELSE /\ countOnLastRead' = got /\ readByIsr' = 0
               /\ readBufferBase' = r
               /\ currentCharSlot' = got /\ lastCharSlot' = wanted - 1
               /\ cancelMark' = [cancelMark EXCEPT ![r] = Marked(cancelled[r])]
               /\ totalTimer' = IF plan.total THEN "set" ELSE totalTimer
               /\ intervalTimer' = IF plan.interval THEN "set" ELSE intervalTimer
               /\ refs' = [refs EXCEPT ![r] =
                    {"ISR", "CANCEL"}
                      \cup (IF plan.total /\ totalTimer # "set"
                              THEN {"TOTAL_TIMER"} ELSE {})
                      \cup (IF plan.interval /\ intervalTimer # "set"
                              THEN {"INT_TIMER"} ELSE {})]
               /\ pc' = "idle"
               /\ UNCHANGED <<status, currentReadRequest, readQueue>>
     /\ UNCHANGED <<interruptBuffer, bufferSize, arrived, errorWord,
                    completeReadDpc, commErrorDpc, pool, cancelled, newBuffer>>

-----------------------------------------------------------------------------
(* SerialResizeBuffer: a resize request at the head of the read queue.     *)

\* The buffer is large enough by now.
ResizeNotNeeded ==
  LET r == currentReadRequest IN
  /\ pc = "start" /\ r \in Resizes /\ length[r] <= bufferSize
  /\ pool' = pool \ {r}
  /\ status' = [status EXCEPT ![r] = "SUCCESS"]
  /\ GetNextRequest(readQueue, "idle")
  /\ UNCHANGED <<ringVars, isrVars, length, information, refs, cancelled,
                 cancelMark, readVars, timerVars, userBuffer, rxHolding>>

\* SerialMoveToNewIntBuffer, while the ISR runs.
MoveToNewIntBuffer ==
  LET r == currentReadRequest IN
  /\ pc = "start" /\ r \in Resizes /\ length[r] > bufferSize
  /\ pool' = pool \ {r}
  /\ newBuffer' = Copied(newBuffer, 0, charsInInterruptBuffer)
  /\ firstReadableChar' = SlotAfter(firstReadableChar, charsInInterruptBuffer)
  /\ charsCopied' = charsInInterruptBuffer
  /\ pc' = "moved"
  /\ UNCHANGED <<interruptBuffer, bufferSize, readBufferBase, currentCharSlot,
                 lastCharSlot, charsInInterruptBuffer, isrVars, currentReadRequest,
                 readQueue, length, information, status, refs, cancelled,
                 cancelMark, numberNeededForRead, countOnLastRead, plan, timerVars,
                 userBuffer, rxHolding>>

\* SerialUpdateAndSwitchToNew, with the ISR held off: the last characters are
\* moved and the ISR gets the new buffer.
UpdateAndSwitchToNew ==
  LET r == currentReadRequest IN
  /\ pc = "moved"
  /\ interruptBuffer' = Copied(newBuffer, charsCopied,
                               charsInInterruptBuffer - charsCopied)
  /\ bufferSize' = length[r]
  /\ readBufferBase' = InterruptReadBuffer
  /\ firstReadableChar' = 0
  /\ currentCharSlot' = charsInInterruptBuffer
  /\ lastCharSlot' = length[r] - 1
  /\ HandleReducedIntBuffer(charsInInterruptBuffer, length[r])
  /\ status' = [status EXCEPT ![r] = "SUCCESS"]
  /\ charsCopied' = 0
  /\ GetNextRequest(readQueue, "idle")
  /\ UNCHANGED <<charsInInterruptBuffer, isrVars, pool, length, information, refs,
                 cancelled, cancelMark, numberNeededForRead, countOnLastRead, plan,
                 newBuffer, timerVars, userBuffer>>

-----------------------------------------------------------------------------
(* Cancellation, purge and errors.                                         *)

\* The client cancels a request: if it is marked cancelable its callback is
\* dispatched and can no longer be taken back.
Cancel(r) ==
  /\ status[r] = "pending" /\ ~cancelled[r]
  /\ \A i \in DOMAIN readQueue : readQueue[i] # r
  /\ cancelled' = [cancelled EXCEPT ![r] = TRUE]
  /\ cancelMark' = [cancelMark EXCEPT ![r] =
                      IF @ = "cancelable" THEN "dispatched" ELSE @]
  /\ UNCHANGED <<currentReadRequest, readQueue, pool, length, information, status,
                 refs, ringVars, isrVars, readVars, timerVars, userBuffer,
                 rxHolding, pc>>

\* REQUEST_CONTEXT.IoctlCode: SerialStartOrQueue records it for immediate
\* characters and xoff counters only, so on this queue it is never set.
IoctlCode(r) == "NONE"

\* The buffers SerialEvtCanceledOnQueue gives back.
FreedIn(requests) == {r \in requests : IoctlCode(r) = "SET_QUEUE_SIZE"}

\* SerialEvtCanceledOnQueue: a request cancelled in the queue never starts.
EvtCanceledOnQueue(r) ==
  /\ pc = "idle"
  /\ \E i \in DOMAIN readQueue :
       /\ readQueue[i] = r
       /\ readQueue' = SubSeq(readQueue, 1, i - 1)
                         \o SubSeq(readQueue, i + 1, Len(readQueue))
  /\ cancelled' = [cancelled EXCEPT ![r] = TRUE]
  /\ status' = [status EXCEPT ![r] = "CANCELLED"]
  /\ pool' = pool \ FreedIn({r})
  /\ UNCHANGED <<currentReadRequest, length, information, refs, cancelMark,
                 ringVars, isrVars, readVars, timerVars, userBuffer, rxHolding, pc>>

\* The framework's call of SerialCancelCurrentRead.
CancelCallback(r) ==
  /\ pc = "idle" /\ cancelMark[r] = "dispatched"
  /\ CancelCurrentRead(readQueue, status, "idle")
  /\ UNCHANGED <<pool, completeReadDpc, commErrorDpc>>

\* The statuses after the framework has purged the read queue.
QueuePurged ==
  [r \in Req |-> IF \E i \in DOMAIN readQueue : readQueue[i] = r
                   THEN "CANCELLED" ELSE status[r]]

\* Mutant of FlushReads: the current read is left alone.
FlushQueueOnly(back) ==
  /\ pool' = pool \ FreedIn({readQueue[i] : i \in DOMAIN readQueue})
  /\ status' = QueuePurged /\ readQueue' = << >> /\ pc' = back
  /\ UNCHANGED <<currentReadRequest, length, information, refs, cancelled,
                 cancelMark, ringVars, arrived, errorWord, readByIsr, readVars,
                 timerVars, userBuffer, rxHolding>>

\* SerialFlushRequests on the read queue: everything queued is cancelled, and
\* the current request as well unless its cancel callback is already under way
\* or it was never marked.
FlushReads(back) ==
  LET r == currentReadRequest IN
  /\ pool' = pool \ FreedIn({readQueue[i] : i \in DOMAIN readQueue})
  /\ IF r # NoReq /\ cancelMark[r] = "cancelable"
       THEN CancelCurrentRead(<< >>, QueuePurged, back)
       ELSE /\ status' = QueuePurged /\ readQueue' = << >> /\ pc' = back
            /\ UNCHANGED <<currentReadRequest, length, information, refs,
                           cancelled, cancelMark, ringVars, arrived, errorWord,
                           readByIsr, readVars, timerVars, userBuffer, rxHolding>>

\* SerialStartPurge with SERIAL_PURGE_RXABORT, and RXCLEAR to follow or not.
PurgeAbort(clear) ==
  /\ pc = "idle" /\ ~Refused
  /\ FlushReads(IF clear THEN "purge" ELSE "idle")
  /\ UNCHANGED <<completeReadDpc, commErrorDpc>>

\* SerialStartPurge with SERIAL_PURGE_RXCLEAR: SerialPurgeInterruptBuff.
PurgeInterruptBuff ==
  /\ pc = "purge" \/ (pc = "idle" /\ ~Refused)
  /\ IF readBufferBase = InterruptReadBuffer
       THEN SwitchToInterruptBuffer /\ HandleReducedIntBuffer(0, bufferSize)
       ELSE UNCHANGED <<ringVars, rxHolding>>
  /\ pc' = "idle"
  /\ UNCHANGED <<isrVars, requestVars, readVars, timerVars, userBuffer>>

\* SerialCommError, the DPC an error queues under SERIAL_ERROR_ABORT.
CommError ==
  /\ pc = "idle" /\ commErrorDpc
  /\ commErrorDpc' = FALSE
  /\ FlushReads("idle")
  /\ UNCHANGED completeReadDpc

-----------------------------------------------------------------------------
(* Completion and timers.                                                  *)

\* SerialCompleteRead, the DPC the ISR queues when it has filled the buffer.
CompleteRead ==
  /\ pc = "idle" /\ completeReadDpc
  /\ completeReadDpc' = FALSE
  /\ countOnLastRead' = ReadComplete
  /\ TryToComplete(FALSE, "SUCCESS", "ISR", intervalTimer, totalTimer,
                   readQueue, status, "idle")
  /\ UNCHANGED <<pool, commErrorDpc>>

TotalTimerFires ==
  /\ totalTimer = "set" /\ totalTimer' = "fired"
  /\ UNCHANGED <<intervalTimer, ringVars, isrVars, requestVars, readVars,
                 userBuffer, rxHolding, pc>>

IntervalTimerFires ==
  /\ intervalTimer = "set" /\ intervalTimer' = "fired"
  /\ UNCHANGED <<totalTimer, ringVars, isrVars, requestVars, readVars,
                 userBuffer, rxHolding, pc>>

\* SerialReadTimeout.
ReadTimeout ==
  /\ pc = "idle" /\ totalTimer = "fired"
  /\ countOnLastRead' = ReadTotal
  /\ TryToComplete(TRUE, "TIMEOUT", "TOTAL_TIMER", intervalTimer, "off",
                   readQueue, status, "idle")
  /\ UNCHANGED <<pool, completeReadDpc, commErrorDpc>>

\* What SerialIntervalReadTimeout completes the read with when another party
\* has left its mark in CountOnLastRead.
MarkedStatus(mark) ==
  CASE mark = ReadTotal -> "TIMEOUT"
    [] mark = ReadComplete -> "SUCCESS"
    [] mark = ReadCancel -> "CANCELLED"

\* SerialIntervalReadTimeout after the read was ended by someone else.
IntervalReadEnded ==
  /\ pc = "idle" /\ intervalTimer = "fired"
  /\ countOnLastRead < 0
  /\ TryToComplete(TRUE, MarkedStatus(countOnLastRead), "INT_TIMER", "off",
                   totalTimer, readQueue, status, "idle")
  /\ UNCHANGED <<pool, completeReadDpc, commErrorDpc, countOnLastRead>>

\* Mutant of UpdateReadByIsr: the count is not reset.
UpdateReadByIsrKeeps == countOnLastRead' = readByIsr /\ UNCHANGED readByIsr

\* SerialUpdateReadByIsr.
UpdateReadByIsr == countOnLastRead' = readByIsr /\ readByIsr' = 0

\* SerialIntervalReadTimeout goes back to sleep: characters have come since the
\* last time (SerialUpdateReadByIsr), none have come at all yet, or the interval
\* since the last one is not over.
IntervalReadResumes ==
  /\ pc = "idle" /\ intervalTimer = "fired"
  /\ countOnLastRead >= 0
  /\ intervalTimer' = "set"
  /\ IF readByIsr > 0 THEN UpdateReadByIsr
                      ELSE UNCHANGED <<countOnLastRead, readByIsr>>
  /\ UNCHANGED <<totalTimer, ringVars, arrived, errorWord, completeReadDpc,
                 commErrorDpc, requestVars, numberNeededForRead, charsCopied,
                 plan, newBuffer, userBuffer, rxHolding, pc>>

\* SerialIntervalReadTimeout finds the interval over since the last character
\* and decides to end the read; the ISR can run before it is grabbed.
IntervalReadExpires ==
  /\ pc = "idle" /\ intervalTimer = "fired"
  /\ countOnLastRead > 0 /\ readByIsr = 0
  /\ intervalTimer' = "off" /\ pc' = "expired"
  /\ UNCHANGED <<totalTimer, ringVars, isrVars, requestVars, readVars,
                 userBuffer, rxHolding>>

IntervalReadTimeout ==
  /\ pc = "expired"
  /\ TryToComplete(TRUE, "TIMEOUT", "INT_TIMER", intervalTimer, totalTimer,
                   readQueue, status, "idle")
  /\ UNCHANGED <<pool, completeReadDpc, commErrorDpc, countOnLastRead>>

-----------------------------------------------------------------------------
\* What the lock holder does next.
Continue ==
  \/ StartRead \/ FinishReadAtOnce \/ UpdateAndSwitchToUser
  \/ ResizeNotNeeded \/ MoveToNewIntBuffer \/ UpdateAndSwitchToNew
  \/ (pc = "purge" /\ PurgeInterruptBuff)
  \/ IntervalReadTimeout

\* A client's calls.
Client ==
  \/ \E r \in Reads, n \in Lens : EvtIoRead(r, n)
  \/ \E r \in Resizes, n \in Sizes : SetQueueSize(r, n)
  \/ \E r \in Req : Cancel(r) \/ EvtCanceledOnQueue(r)
  \/ \E clear \in BOOLEAN : PurgeAbort(clear)
  \/ (pc = "idle" /\ PurgeInterruptBuff)
  \/ GetCommStatus

\* DPCs and callbacks waiting for the device lock.
Callback ==
  \/ CompleteRead \/ CommError
  \/ ReadTimeout
  \/ IntervalReadEnded \/ IntervalReadResumes \/ IntervalReadExpires
  \/ \E r \in Req : CancelCallback(r)

Next == ISR \/ Client \/ Continue \/ Callback
          \/ TotalTimerFires \/ IntervalTimerFires

Spec == Init /\ [][Next]_vars

\* The device lock is granted to every waiting callback in turn, a handler that
\* runs goes on, a timer that is not stopped runs out, and so does the interval
\* since the last character.  The ISR and the clients owe nothing.
Fairness ==
  /\ WF_vars(Continue)
  /\ WF_vars(TotalTimerFires) /\ WF_vars(IntervalTimerFires)
  /\ SF_vars(CompleteRead) /\ SF_vars(CommError) /\ SF_vars(ReadTimeout)
  /\ SF_vars(IntervalReadEnded) /\ SF_vars(IntervalReadResumes)
  /\ SF_vars(IntervalReadExpires)
  /\ \A r \in Req : SF_vars(CancelCallback(r))

FairSpec == Spec /\ Fairness

-----------------------------------------------------------------------------
Chars == 0 .. MaxChars

TypeOK ==
  /\ interruptBuffer \in [0 .. MaxSize - 1 -> Chars]
  /\ newBuffer \in [0 .. MaxSize - 1 -> Chars]
  /\ userBuffer \in [Req -> [0 .. MaxLen - 1 -> Chars]]
  /\ bufferSize \in 1 .. MaxSize /\ readBufferBase \in Req \cup {InterruptReadBuffer}
  /\ firstReadableChar \in Nat /\ currentCharSlot \in Nat
  /\ lastCharSlot \in Nat /\ charsInInterruptBuffer \in Nat
  /\ arrived \in Chars /\ errorWord \in BOOLEAN /\ rxHolding \in {{}, LineHolds}
  /\ currentReadRequest \in Req \cup {NoReq} /\ readQueue \in Seq(Req)
  /\ pool \subseteq Resizes
  /\ length \in [Req -> Nat]
  /\ information \in [Req -> Nat]
  /\ status \in [Req -> {"unused", "pending"} \cup Done]
  /\ refs \in [Req -> SUBSET RefTypes] /\ cancelled \in [Req -> BOOLEAN]
  /\ cancelMark \in [Req -> CancelStates]
  /\ numberNeededForRead \in Nat /\ charsCopied \in Nat /\ readByIsr \in Nat
  /\ countOnLastRead \in Int
  /\ plan \in [returnNow : BOOLEAN, os2 : BOOLEAN, crunch : BOOLEAN,
               total : BOOLEAN, interval : BOOLEAN]
  /\ totalTimer \in TimerStates /\ intervalTimer \in TimerStates
  /\ completeReadDpc \in BOOLEAN /\ commErrorDpc \in BOOLEAN
  /\ pc \in {"idle", "start", "copied", "moved", "purge", "expired"}

\* The read the ISR, a timer or a cancel callback may know: current, and past
\* SerialStartRead.
Started == currentReadRequest # NoReq /\ pc \notin {"start", "copied", "moved"}

\* Every reference of the current read stands for exactly one party that will
\* come back for it, and no other request has any: a callback never finds the
\* read it was set up for gone, nor another one in its place (the RefCount
\* protocol of SerialTryToCompleteCurrent and SerialRundownIrpRefs).
RefsMatchOwners ==
  /\ \A r \in Req : r # currentReadRequest \/ ~Started
                      => refs[r] = {} /\ cancelMark[r] = "none"
  /\ Started =>
       LET has(type) == type \in refs[currentReadRequest] IN
       /\ refs[currentReadRequest] # {}
       /\ readBufferBase \in {InterruptReadBuffer, currentReadRequest}
       /\ has("ISR") <=> readBufferBase # InterruptReadBuffer \/ completeReadDpc
       /\ ~(readBufferBase # InterruptReadBuffer /\ completeReadDpc)
       /\ has("CANCEL") <=> cancelMark[currentReadRequest] # "none"
       /\ has("TOTAL_TIMER") <=> totalTimer # "off"
       /\ has("INT_TIMER") <=> intervalTimer # "off" \/ pc = "expired"
       /\ ~has("XOFF_REF")
  /\ ~Started => /\ readBufferBase = InterruptReadBuffer /\ ~completeReadDpc
                 /\ totalTimer = "off" /\ intervalTimer = "off"

\* The characters in the interrupt buffer that no read has copied yet.
Readable == charsInInterruptBuffer - charsCopied

\* The pointers agree with the count: the ISR writes right behind the readable
\* characters, whether they wrap or not and also while a copy is under way; in
\* the user's buffer it stays inside what the read asked for.
PointersAgree ==
  /\ charsInInterruptBuffer <= bufferSize /\ charsCopied <= charsInInterruptBuffer
  /\ readBufferBase = InterruptReadBuffer =>
       /\ lastCharSlot = bufferSize - 1
       /\ firstReadableChar <= lastCharSlot
       /\ currentCharSlot = SlotAfter(firstReadableChar,
                              IF Readable = bufferSize THEN 0 ELSE Readable)
  /\ readBufferBase # InterruptReadBuffer =>
       /\ charsInInterruptBuffer = 0
       /\ lastCharSlot = length[currentReadRequest] - 1
       /\ currentCharSlot <= lastCharSlot
       /\ lastCharSlot < MaxLen

\* Line flow control holds the sender whenever the buffer is filled up to the
\* Xoff threshold, and never below the Xon limit: a sender that waits for an
\* emptied buffer is let go (SerialPutChar, SerialHandleReducedIntBuffer).
HoldFollowsFill ==
  /\ charsInInterruptBuffer >= bufferSize - XoffLimit => rxHolding = LineHolds
  /\ rxHolding # {} => charsInInterruptBuffer > XonLimit(bufferSize)

\* Once a request is completed the driver never touches its buffer, its length
\* of data or its outcome again.
CompletedIsFinal ==
  [][\A r \in Req : status[r] \in Done =>
       /\ status'[r] = status[r] /\ information'[r] = information[r]
       /\ userBuffer'[r] = userBuffer[r] /\ refs'[r] = {}]_vars

-----------------------------------------------------------------------------
(* Liveness.                                                               *)

\* A read that is cancelled after it was started is completed.
CancelledReadEnds ==
  \A r \in Req : status[r] = "pending" /\ cancelled[r] ~> status[r] \in Done

\* A read whose total timer runs is completed, whether the timer expires first
\* or the ISR, a cancellation or a purge comes before it.
TimedReadEnds ==
  \A r \in Req : currentReadRequest = r /\ totalTimer = "set" ~> status[r] \in Done

\* A read with an interval timer is completed once a character has come.
IntervalReadEnds ==
  \A r \in Req :
    currentReadRequest = r /\ intervalTimer = "set" /\ countOnLastRead > 0
      ~> status[r] \in Done

\* An error ends the current read under SERIAL_ERROR_ABORT, timeouts or not.
ErrorEndsRead ==
  \A r \in Req : currentReadRequest = r /\ commErrorDpc ~> status[r] \in Done

-----------------------------------------------------------------------------
(* The stream of characters, as RxStream promises it.                       *)

Contents(r, n) == [i \in 1 .. n |-> userBuffer[r][i - 1]]

\* What has been taken out of the interrupt buffer for the current request and
\* what is readable there.
TakenOut ==
  LET r == currentReadRequest IN
  CASE pc = "moved" -> [i \in 1 .. charsCopied |-> newBuffer[i - 1]]
    [] r # NoReq /\ r \in Reads -> Contents(r, CharsHeld(r))
    [] OTHER -> << >>
InBuffer ==
  [i \in 1 .. Readable |-> interruptBuffer[SlotAfter(firstReadableChar, i - 1)]]

\* The characters that are in the driver for the current request and those after it.
Characters == TakenOut \o InBuffer

\* The requests that were completed, and the characters they were completed with.
Returned == {r \in Req : status[r] \in {"SUCCESS", "TIMEOUT"}}
Result ==
  [r \in Req |-> IF status[r] \in {"SUCCESS", "TIMEOUT"}
                   THEN Contents(r, information[r]) ELSE << >>]

Stream == INSTANCE RxStream WITH
  arrived <- arrived, stream <- Characters, returned <- Returned, result <- Result

\* The read path implements the stream: no character is lost, duplicated or
\* reordered between the ISR and the readers, except those dropped with a
\* cancelled read or a purge, or replaced by the error character.
ImplementsStream == Stream!Spec
=============================================================================
