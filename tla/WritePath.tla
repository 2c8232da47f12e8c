----------------------------- MODULE WritePath -----------------------------
(***************************************************************************)
(* The transmit side of the driver: write requests, xoff counters and      *)
(* immediate characters, from their dispatch to their completion           *)
(* (write.c, immediat.c, flush.c, the transmit part of isr.c, purge.c,     *)
(* error.c, the request protocol of utils.c).                              *)
(*                                                                         *)
(* An xoff counter is first a write of one character (the Xoff character,  *)
(* "masquerading as a write").  When that write completes, the request is  *)
(* not completed but becomes the current xoff counter: it ends when the    *)
(* ISR has received its count of characters, when its timer runs out, when *)
(* it is cancelled, or when another write starts.                          *)
(*                                                                         *)
(* Concurrency is that of ReadPath: one lock holder (pc), and the ISR that *)
(* preempts it.  A flush alone runs outside the device lock.  When the     *)
(* UART takes a character, and flow control, is left open here: the ISR    *)
(* may send whenever it has something to send.                             *)
(***************************************************************************)
EXTENDS Requests, Subsequences, Integers, Sequences, SequencesExt

CONSTANTS
  Writes,         \* the requests a client may send: writes,
  XoffReqs,       \* xoff counters
  Immediates,     \* and immediate characters
  Loads,          \* bound: which of them are sent in one behaviour
  NoReq,          \* a null current request
  Lens,           \* lengths of writes
  MaxLen,         \* bound: the longest write
  Counters,       \* values of SERIAL_XOFF_COUNTER.Counter
  MaxCounter,     \* bound: the largest counter
  XoffTimeouts,   \* may SERIAL_XOFF_COUNTER.Timeout be set?
  TotalTimeouts,  \* may a write total timeout be set?
  Flushes         \* does a client flush?

Req == Writes \cup XoffReqs \cup Immediates

ASSUME ReqAssumption ==
  /\ NoReq \notin Req
  /\ Writes \cap XoffReqs = {} /\ (Writes \cup XoffReqs) \cap Immediates = {}
ASSUME LengthAssumption ==
  /\ MaxLen \in Nat /\ Lens \subseteq 1 .. MaxLen
  /\ MaxCounter \in Nat /\ Counters \subseteq 1 .. MaxCounter
ASSUME OptionAssumption ==
  /\ XoffTimeouts \subseteq BOOLEAN /\ TotalTimeouts \subseteq BOOLEAN
  /\ Flushes \in BOOLEAN

\* The three current requests: CurrentWriteRequest, CurrentXoffRequest and
\* CurrentImmediateRequest, each with its timer and its completion DPC.
Slots == {"Write", "Xoff", "Immediate"}

VARIABLES
  \* The requests.
  length,
  xc,                 \* request -> its counter and whether it has a timeout
  status, information, refs,
  cancelled,          \* request -> the client cancelled it
  cancelMark,         \* request -> its CancelStates
  cancelRoutine,      \* request -> the slot of its cancel routine
  contextCancelled,   \* request -> REQUEST_CONTEXT.Cancelled
  \* The write queue.
  current,            \* slot -> its current request
  writeQueue,
  forwarded,          \* the requests that were put into WriteQueue
  queueStopped,       \* WriteQueue hands out no requests
  totalCharsQueued,
  \* What the ISR works on.
  writeLength, transmitImmediate, countSinceXoff,
  completeDpc,        \* slot -> its completion DPC is queued
  timer,              \* slot -> its TimerStates
  pc,                 \* where the lock holder is
  flushing            \* a flush waits for the queue to stop

requestVars == <<length, xc, cancelled>>
isrVars == <<writeLength, transmitImmediate, countSinceXoff, completeDpc>>
vars == <<requestVars, status, information, refs, cancelMark, cancelRoutine,
          contextCancelled, current, writeQueue, forwarded, queueStopped,
          totalCharsQueued, isrVars, timer, pc, flushing>>

Done == {"SUCCESS", "TIMEOUT", "CANCELLED", "MORE_WRITES", "INVALID"}

Init ==
  /\ length = [r \in Req |-> 0]
  /\ xc = [r \in Req |-> [counter |-> 0, timeout |-> FALSE]]
  /\ status = [r \in Req |-> "unused"] /\ information = [r \in Req |-> 0]
  /\ refs = [r \in Req |-> {}] /\ cancelled = [r \in Req |-> FALSE]
  /\ cancelMark = [r \in Req |-> "none"]
  /\ cancelRoutine = [r \in Req |-> "Write"]
  /\ contextCancelled = [r \in Req |-> FALSE]
  /\ current = [s \in Slots |-> NoReq] /\ writeQueue = << >>
  /\ forwarded = {} /\ queueStopped = FALSE /\ totalCharsQueued = 0
  /\ writeLength = 0 /\ transmitImmediate = FALSE /\ countSinceXoff = 0
  /\ completeDpc = [s \in Slots |-> FALSE]
  /\ timer = [s \in Slots |-> "off"] /\ pc = "idle"
  /\ flushing = FALSE

-----------------------------------------------------------------------------
(* The interrupt service routine.                                          *)

\* The characters a request counts for in TotalCharsQueued.
Chars(r) == IF r \in Writes THEN length[r] ELSE 1

\* SERIAL_IIR_THR: an immediate character goes before any write.
SendImmediate ==
  /\ transmitImmediate
  /\ transmitImmediate' = FALSE
  /\ completeDpc' = [completeDpc EXCEPT !["Immediate"] = TRUE]
  /\ UNCHANGED <<requestVars, status, information, refs, cancelMark,
                 cancelRoutine, contextCancelled, current, writeQueue, forwarded,
                 queueStopped, totalCharsQueued, writeLength, countSinceXoff,
                 timer, pc, flushing>>

\* SERIAL_IIR_THR: the FIFO takes n characters of the current write.
SendWrite(n) ==
  LET r == current["Write"] IN
  /\ ~transmitImmediate /\ n <= writeLength
  /\ writeLength' = writeLength - n
  /\ IF writeLength = n
       THEN /\ information' = [information EXCEPT ![r] = Chars(r)]
            /\ completeDpc' = [completeDpc EXCEPT !["Write"] = TRUE]
       ELSE UNCHANGED <<information, completeDpc>>
  /\ UNCHANGED <<requestVars, status, refs, cancelMark, cancelRoutine,
                 contextCancelled, current, writeQueue, forwarded, queueStopped,
                 totalCharsQueued, transmitImmediate, countSinceXoff, timer, pc,
                 flushing>>

\* SerialPutChar: a character is received while an xoff counter counts.
CountDown ==
  /\ countSinceXoff > 0
  /\ countSinceXoff' = countSinceXoff - 1
  /\ completeDpc' = [completeDpc EXCEPT !["Xoff"] = @ \/ countSinceXoff = 1]
  /\ UNCHANGED <<requestVars, status, information, refs, cancelMark,
                 cancelRoutine, contextCancelled, current, writeQueue, forwarded,
                 queueStopped, totalCharsQueued, writeLength, transmitImmediate,
                 timer, pc, flushing>>

ISR == SendImmediate \/ CountDown \/ \E n \in 1 .. MaxLen : SendWrite(n)

-----------------------------------------------------------------------------
(* The request protocol.                                                   *)

\* The ISR works on the current request of a slot: what SerialGrabWriteFromIsr,
\* SerialGrabXoffFromIsr and SerialGrabImmediateFromIsr look at.
IsrHas(slot) ==
  CASE slot = "Write" -> writeLength > 0
    [] slot = "Xoff" -> countSinceXoff > 0
    [] slot = "Immediate" -> transmitImmediate

\* Mutant of Grab: the ISR keeps what it works on.
GrabNothing(slot, grabbed) ==
  UNCHANGED <<writeLength, countSinceXoff, transmitImmediate>>

\* What those routines leave to the ISR.
Grab(slot, grabbed) ==
  /\ writeLength' = IF grabbed /\ slot = "Write" THEN 0 ELSE writeLength
  /\ countSinceXoff' = IF grabbed /\ slot = "Xoff" THEN 0 ELSE countSinceXoff
  /\ transmitImmediate' = IF grabbed /\ slot = "Immediate" THEN FALSE
                                                           ELSE transmitImmediate

\* The sum of a sequence of numbers.
Total(w) ==
  LET sum[n \in 0 .. Len(w)] == IF n = 0 THEN 0 ELSE sum[n - 1] + w[n]
  IN sum[Len(w)]

\* The write queue, the statuses and TotalCharsQueued after the framework has
\* purged WriteQueue (SerialEvtCanceledOnQueue of each request), or as they are.
QueueAfter(purged) == IF purged THEN << >> ELSE writeQueue
StatusAfter(purged) ==
  IF purged THEN [r \in Req |-> IF r \in ToSet(writeQueue) THEN "CANCELLED"
                                                           ELSE status[r]]
            ELSE status
CharsIn(queue) == Total([i \in DOMAIN queue |-> Chars(queue[i])])

\* Mutant of QueuedAfter: purged requests stay counted.
QueuedAfterIgnoresPurge(purged) == totalCharsQueued

QueuedAfter(purged) ==
  IF purged THEN totalCharsQueued - CharsIn(writeQueue) ELSE totalCharsQueued

\* Mutant of GetNextWrite: with nothing to get, CurrentWriteRequest is left as it is.
GetNextWriteStale(queue, xoff, back) ==
  IF queue = << >> \/ queueStopped
    THEN /\ current' = [current EXCEPT !["Xoff"] = xoff]
         /\ writeQueue' = queue /\ pc' = back
    ELSE /\ current' = [current EXCEPT !["Write"] = Head(queue), !["Xoff"] = xoff]
         /\ writeQueue' = Tail(queue) /\ pc' = "start"

\* The end of SerialGetNextWrite: the head of the queue becomes current, to be
\* started by SerialStartWrite, unless WriteQueue is empty or stopped.
GetNextWrite(queue, xoff, back) ==
  IF queue = << >> \/ queueStopped
    THEN /\ current' = [current EXCEPT !["Write"] = NoReq, !["Xoff"] = xoff]
         /\ writeQueue' = queue /\ pc' = back
    ELSE /\ current' = [current EXCEPT !["Write"] = Head(queue), !["Xoff"] = xoff]
         /\ writeQueue' = Tail(queue) /\ pc' = "start"

\* Mutant of CompleteCurrent: the character of an xoff counter, which left
\* TotalCharsQueued when it was sent, is taken off again.
CompleteCurrentCountsXoff(slot, final, purged, back) ==
  LET r == current[slot] IN
  /\ status' = [StatusAfter(purged) EXCEPT ![r] = final]
  /\ totalCharsQueued' = QueuedAfter(purged) - Chars(r)
  /\ IF slot = "Write"
       THEN GetNextWrite(QueueAfter(purged), current["Xoff"], back)
       ELSE /\ current' = [current EXCEPT ![slot] = NoReq]
            /\ writeQueue' = QueueAfter(purged) /\ pc' = back

\* The current request of a slot is completed: SerialGetNextWrite,
\* SerialGetNextImmediate, or neither for an xoff counter.
CompleteCurrent(slot, final, purged, back) ==
  LET r == current[slot] IN
  /\ status' = [StatusAfter(purged) EXCEPT ![r] = final]
  /\ totalCharsQueued' = QueuedAfter(purged) - (IF slot = "Xoff" THEN 0 ELSE Chars(r))
  /\ IF slot = "Write"
       THEN GetNextWrite(QueueAfter(purged), current["Xoff"], back)
       ELSE /\ current' = [current EXCEPT ![slot] = NoReq]
            /\ writeQueue' = QueueAfter(purged) /\ pc' = back

\* Mutant of CharsSent: a write reports its whole length.
CharsSentWhole(r) == length[r]

\* SerialGrabWriteFromIsr: what a write that is taken back from the ISR reports.
CharsSent(r) == length[r] - writeLength

\* SerialTryToCompleteCurrent on the current request of a slot, for a caller
\* that holds the reference type `caller`, and passes the timer `total`.  With no
\* current request the driver would crash: nothing follows.
TryToComplete(slot, grab, final, caller, total, purged, back) ==
  LET r == current[slot]
      grabbed == grab /\ IsrHas(slot)
      left == RefsLeft(refs[r], caller, IF grabbed THEN {"ISR"} ELSE {},
                       cancelMark[r], NullTimer, total)
      held == IF grabbed /\ slot = "Write" /\ r \in Writes
                THEN CharsSent(r) ELSE information[r]
  IN /\ r # NoReq
     /\ Grab(slot, grabbed)
     /\ refs' = [refs EXCEPT ![r] = left]
     /\ cancelMark' = [cancelMark EXCEPT ![r] = Unmarked(@, caller)]
     /\ contextCancelled' = [contextCancelled EXCEPT ![r] = @ \/ final = "CANCELLED"]
     /\ timer' = [timer EXCEPT ![slot] =
                    IF caller = "TOTAL_TIMER" THEN "off" ELSE Stopped(@)]
     /\ IF left = {}
          THEN /\ information' = [information EXCEPT
                                    ![r] = IF final = "CANCELLED" THEN 0 ELSE held]
               /\ CompleteCurrent(slot, final, purged, back)
          ELSE /\ information' = [information EXCEPT ![r] = held]
               /\ status' = StatusAfter(purged)
               /\ totalCharsQueued' = QueuedAfter(purged)
               /\ writeQueue' = QueueAfter(purged) /\ pc' = back
               /\ UNCHANGED current
     /\ UNCHANGED <<requestVars, cancelRoutine, forwarded, flushing>>

\* SerialCancelCurrentWrite, SerialCancelCurrentXoff, SerialCancelImmediate.
CancelCurrent(slot, purged, back) ==
  TryToComplete(slot, TRUE, "CANCELLED", "CANCEL", timer[slot], purged, back)

-----------------------------------------------------------------------------
(* Dispatch.                                                               *)

\* A request arrives with its parameters, within the bound Loads.
Arrives(r, n, x) ==
  /\ pc = "idle" /\ status[r] = "unused"
  /\ \E load \in Loads : r \in load /\ \A q \in Req \ load : status[q] = "unused"
  /\ length' = [length EXCEPT ![r] = n]
  /\ xc' = [xc EXCEPT ![r] = x]
  /\ UNCHANGED <<information, cancelled, contextCancelled, queueStopped, flushing>>

NoXc == [counter |-> 0, timeout |-> FALSE]

\* A request its dispatch routine completes: SerialCompleteIfError after an
\* error, or an invalid parameter.
CompleteAtOnce(r, final) ==
  /\ status' = [status EXCEPT ![r] = final]
  /\ UNCHANGED <<refs, cancelMark, cancelRoutine, current, writeQueue, forwarded,
                 totalCharsQueued, isrVars, timer, pc>>

\* IsQueueEmpty: WDF_IO_QUEUE_IDLE also asks that no request that came out of
\* the queue is still owned by the driver.
OwnedFromQueue == {r \in forwarded : status[r] = "pending"} \ ToSet(writeQueue)
IsQueueEmpty == writeQueue = << >> /\ OwnedFromQueue = {}

\* SerialStartOrQueue on the write queue, with a request of n characters.
StartOrQueue(r, n) ==
  /\ status' = [status EXCEPT ![r] = "pending"]
  /\ totalCharsQueued' = totalCharsQueued + n
  /\ IF IsQueueEmpty /\ current["Write"] = NoReq
       THEN /\ current' = [current EXCEPT !["Write"] = r] /\ pc' = "start"
            /\ UNCHANGED <<writeQueue, forwarded>>
       ELSE /\ writeQueue' = Append(writeQueue, r)
            /\ forwarded' = forwarded \cup {r}
            /\ UNCHANGED <<current, pc>>
  /\ UNCHANGED <<refs, cancelMark, cancelRoutine, isrVars, timer>>

\* SerialEvtIoWrite.
EvtIoWrite(r, n) ==
  /\ Arrives(r, n, NoXc)
  /\ StartOrQueue(r, n) \/ CompleteAtOnce(r, "CANCELLED")

\* IOCTL_SERIAL_XOFF_COUNTER, with Counter > 0.
XoffCounter(r, c, t) ==
  /\ Arrives(r, 0, [counter |-> c, timeout |-> t])
  /\ StartOrQueue(r, 1) \/ CompleteAtOnce(r, "CANCELLED")

\* A request is given to the ISR: marked cancelable, its timer started if timed.
GiveToIsr(slot, r, timed) ==
  /\ refs' = [refs EXCEPT ![r] =
       {"ISR", "CANCEL"}
         \cup (IF timed /\ timer[slot] # "set" THEN {"TOTAL_TIMER"} ELSE {})]
  /\ cancelMark' = [cancelMark EXCEPT ![r] = Marked(cancelled[r])]
  /\ cancelRoutine' = [cancelRoutine EXCEPT ![r] = slot]

StartTimer(slot, timed) == [timer EXCEPT ![slot] = IF timed THEN "set" ELSE @]

\* SerialStartImmediate.
StartImmediate(r, timed) ==
  /\ current["Immediate"] = NoReq
  /\ current' = [current EXCEPT !["Immediate"] = r]
  /\ status' = [status EXCEPT ![r] = "pending"]
  /\ totalCharsQueued' = totalCharsQueued + 1
  /\ GiveToIsr("Immediate", r, timed)
  /\ timer' = StartTimer("Immediate", timed)
  /\ transmitImmediate' = TRUE
  /\ UNCHANGED <<writeQueue, forwarded, writeLength, countSinceXoff, completeDpc, pc>>

\* IOCTL_SERIAL_IMMEDIATE_CHAR: only one at a time.
ImmediateChar(r) ==
  /\ Arrives(r, 0, NoXc)
  /\ \/ \E timed \in TotalTimeouts : StartImmediate(r, timed)
     \/ current["Immediate"] # NoReq /\ CompleteAtOnce(r, "INVALID")
     \/ CompleteAtOnce(r, "CANCELLED")

-----------------------------------------------------------------------------
(* SerialStartWrite.                                                       *)

\* There is an xoff counter that is not yet on its way out.
XoffCounts == current["Xoff"] # NoReq /\ refs[current["Xoff"]] # {}

\* A write ends the current xoff counter, by a reference of its own.
AbortXoff ==
  /\ pc = "start" /\ XoffCounts
  /\ TryToComplete("Xoff", TRUE, "MORE_WRITES", "XOFF_REF", timer["Xoff"],
                   FALSE, "give")
  /\ UNCHANGED <<completeDpc, queueStopped>>

\* SerialGiveWriteToIsr, and what SerialStartWrite does before it.
GiveWriteToIsr(timed) ==
  LET r == current["Write"]
  IN /\ pc = "give" \/ (pc = "start" /\ ~XoffCounts)
     /\ GiveToIsr("Write", r, timed)
     /\ timer' = StartTimer("Write", timed)
     /\ writeLength' = Chars(r)
     /\ pc' = "idle"
     /\ UNCHANGED <<requestVars, status, information, contextCancelled, current,
                    writeQueue, forwarded, queueStopped, totalCharsQueued,
                    transmitImmediate, countSinceXoff, completeDpc, flushing>>

-----------------------------------------------------------------------------
(* Completion.                                                             *)

\* The write of an xoff counter that nothing refers to any more goes on as the
\* current xoff counter.
BecomesXoff ==
  LET r == current["Write"] IN
  /\ r \in XoffReqs /\ ~contextCancelled[r]
  /\ RefsLeft(refs[r], "ISR", {}, cancelMark[r], NullTimer, timer["Write"]) = {}

\* SerialCompleteWrite, the DPC the ISR queues with the last character.
CompleteWrite ==
  /\ pc = "idle" /\ completeDpc["Write"]
  /\ completeDpc' = [completeDpc EXCEPT !["Write"] = FALSE]
  /\ ~BecomesXoff
  /\ TryToComplete("Write", FALSE, "SUCCESS", "ISR", timer["Write"], FALSE, "idle")
  /\ UNCHANGED queueStopped

\* SerialCompleteWrite of an xoff counter's write: SerialGetNextWrite makes it
\* the current xoff counter (SerialGiveXoffToIsr) and starts its timer.
CompleteXoffWrite ==
  LET r == current["Write"] IN
  /\ pc = "idle" /\ completeDpc["Write"]
  /\ completeDpc' = [completeDpc EXCEPT !["Write"] = FALSE]
  /\ BecomesXoff
  /\ totalCharsQueued' = totalCharsQueued - 1
  /\ GiveToIsr("Xoff", r, xc[r].timeout)
  /\ timer' = [StartTimer("Xoff", xc[r].timeout) EXCEPT !["Write"] = Stopped(@)]
  /\ countSinceXoff' = xc[r].counter
  /\ GetNextWrite(writeQueue, r, "idle")
  /\ UNCHANGED <<requestVars, status, information, contextCancelled, forwarded,
                 queueStopped, writeLength, transmitImmediate, flushing>>

\* SerialCompleteXoff and SerialCompleteImmediate.
CompleteFromIsr(slot) ==
  /\ pc = "idle" /\ completeDpc[slot]
  /\ completeDpc' = [completeDpc EXCEPT ![slot] = FALSE]
  /\ TryToComplete(slot, FALSE, "SUCCESS", "ISR", timer[slot], FALSE, "idle")
  /\ UNCHANGED queueStopped

TimerFires(slot) ==
  /\ timer[slot] = "set" /\ timer' = [timer EXCEPT ![slot] = "fired"]
  /\ UNCHANGED <<requestVars, status, information, refs, cancelMark,
                 cancelRoutine, contextCancelled, current, writeQueue, forwarded,
                 queueStopped, totalCharsQueued, isrVars, pc, flushing>>

\* SerialWriteTimeout and SerialTimeoutImmediate.
Timeout(slot) ==
  /\ pc = "idle" /\ timer[slot] = "fired"
  /\ TryToComplete(slot, TRUE, "TIMEOUT", "TOTAL_TIMER", timer[slot], FALSE, "idle")
  /\ UNCHANGED <<completeDpc, queueStopped>>

\* SerialTimeoutXoff, which passes no timer.
TimeoutXoff ==
  /\ pc = "idle" /\ timer["Xoff"] = "fired"
  /\ TryToComplete("Xoff", TRUE, "TIMEOUT", "TOTAL_TIMER", NullTimer, FALSE, "idle")
  /\ UNCHANGED <<completeDpc, queueStopped>>

-----------------------------------------------------------------------------
(* Cancellation, purge, errors and flush.                                  *)

\* The client cancels a request that is not in the queue.
Cancel(r) ==
  /\ status[r] = "pending" /\ ~cancelled[r] /\ r \notin ToSet(writeQueue)
  /\ cancelled' = [cancelled EXCEPT ![r] = TRUE]
  /\ cancelMark' = [cancelMark EXCEPT ![r] =
                      IF @ = "cancelable" THEN "dispatched" ELSE @]
  /\ UNCHANGED <<length, xc, status, information, refs, cancelRoutine,
                 contextCancelled, current, writeQueue, forwarded, queueStopped,
                 totalCharsQueued, isrVars, timer, pc, flushing>>

\* SerialEvtCanceledOnQueue.
EvtCanceledOnQueue(r) ==
  /\ pc = "idle"
  /\ \E i \in DOMAIN writeQueue :
       writeQueue[i] = r /\ writeQueue' = RemoveAt(writeQueue, i)
  /\ cancelled' = [cancelled EXCEPT ![r] = TRUE]
  /\ status' = [status EXCEPT ![r] = "CANCELLED"]
  /\ totalCharsQueued' = totalCharsQueued - Chars(r)
  /\ UNCHANGED <<length, xc, information, refs, cancelMark, cancelRoutine,
                 contextCancelled, current, forwarded, queueStopped, isrVars,
                 timer, pc, flushing>>

\* The framework's call of a cancel routine.  The routine does not look at its
\* request but works on the current one of its slot; for a request of Lost, below,
\* that is another counter or none, and what would follow is not modelled.
CancelCallback(r) ==
  /\ pc = "idle" /\ cancelMark[r] = "dispatched" /\ current[cancelRoutine[r]] = r
  /\ CancelCurrent(cancelRoutine[r], FALSE, "idle")
  /\ UNCHANGED <<completeDpc, queueStopped>>

\* SerialFlushRequests(WriteQueue, &Current...): the queue is purged and
\* restarted, and the current request cancelled unless its callback is under
\* way or it was never marked.
FlushRequests(slot, back) ==
  LET r == current[slot] IN
  /\ queueStopped' = FALSE
  /\ IF r # NoReq /\ cancelMark[r] = "cancelable"
       THEN CancelCurrent(slot, TRUE, back)
       ELSE /\ status' = StatusAfter(TRUE) /\ writeQueue' = << >>
            /\ totalCharsQueued' = QueuedAfter(TRUE) /\ pc' = back
            /\ UNCHANGED <<requestVars, information, refs, cancelMark,
                           cancelRoutine, contextCancelled, current, forwarded,
                           writeLength, transmitImmediate, countSinceXoff, timer,
                           flushing>>
  /\ UNCHANGED completeDpc

\* SerialStartPurge with SERIAL_PURGE_TXABORT: the writes, then the xoff counter.
PurgeWrites == pc = "idle" /\ FlushRequests("Write", "purge")
PurgeXoff == pc = "purge" /\ FlushRequests("Xoff", "idle")

\* SerialCommError: an error with SERIAL_ERROR_ABORT ends all writes.
CommError == pc = "idle" /\ FlushRequests("Write", "idle")

\* SerialFlush, outside the device lock: WdfIoQueueStopSynchronously stops the
\* queue and waits until no request that came out of it is owned by the driver.
FlushStop ==
  /\ Flushes /\ ~flushing
  /\ flushing' = TRUE /\ queueStopped' = TRUE
  /\ UNCHANGED <<requestVars, status, information, refs, cancelMark,
                 cancelRoutine, contextCancelled, current, writeQueue, forwarded,
                 totalCharsQueued, isrVars, timer, pc>>

\* SerialFlush restarts the queue and completes the flush.
FlushRestart ==
  /\ flushing /\ OwnedFromQueue = {}
  /\ flushing' = FALSE /\ queueStopped' = FALSE
  /\ UNCHANGED <<requestVars, status, information, refs, cancelMark,
                 cancelRoutine, contextCancelled, current, writeQueue, forwarded,
                 totalCharsQueued, isrVars, timer, pc>>

-----------------------------------------------------------------------------
\* What the lock holder does next.
Continue == AbortXoff \/ PurgeXoff \/ \E timed \in TotalTimeouts : GiveWriteToIsr(timed)

Client ==
  \/ \E r \in Writes, n \in Lens : EvtIoWrite(r, n)
  \/ \E r \in XoffReqs, c \in Counters, t \in XoffTimeouts : XoffCounter(r, c, t)
  \/ \E r \in Immediates : ImmediateChar(r)
  \/ \E r \in Req : Cancel(r) \/ EvtCanceledOnQueue(r)
  \/ PurgeWrites
  \/ FlushStop

\* Errors, and the DPCs and callbacks that wait for the device lock.
Callback ==
  \/ CommError
  \/ CompleteWrite \/ CompleteXoffWrite
  \/ CompleteFromIsr("Xoff") \/ CompleteFromIsr("Immediate")
  \/ Timeout("Write") \/ Timeout("Immediate") \/ TimeoutXoff
  \/ \E r \in Req : CancelCallback(r)

Next == ISR \/ Client \/ Continue \/ Callback \/ FlushRestart
          \/ \E slot \in Slots : TimerFires(slot)

Spec == Init /\ [][Next]_vars

\* As in ReadPath: waiting callbacks get the device lock in turn, a handler that
\* runs goes on, timers run out.  The UART need not take a character.
Fairness ==
  /\ WF_vars(Continue)
  /\ \A slot \in Slots : WF_vars(TimerFires(slot))
  /\ SF_vars(CompleteWrite) /\ SF_vars(CompleteXoffWrite)
  /\ \A slot \in {"Xoff", "Immediate"} : SF_vars(CompleteFromIsr(slot))
  /\ \A slot \in {"Write", "Immediate"} : SF_vars(Timeout(slot))
  /\ SF_vars(TimeoutXoff)
  /\ \A r \in Req : SF_vars(CancelCallback(r))

FairSpec == Spec /\ Fairness

-----------------------------------------------------------------------------
TypeOK ==
  /\ length \in [Req -> Nat]
  /\ xc \in [Req -> [counter : Nat, timeout : BOOLEAN]]
  /\ status \in [Req -> {"unused", "pending"} \cup Done]
  /\ information \in [Req -> Nat] /\ refs \in [Req -> SUBSET RefTypes]
  /\ cancelled \in [Req -> BOOLEAN] /\ cancelMark \in [Req -> CancelStates]
  /\ cancelRoutine \in [Req -> Slots] /\ contextCancelled \in [Req -> BOOLEAN]
  /\ current \in [Slots -> Req \cup {NoReq}] /\ writeQueue \in Seq(Req)
  /\ forwarded \subseteq Req /\ queueStopped \in BOOLEAN
  /\ totalCharsQueued \in Nat /\ writeLength \in Nat /\ countSinceXoff \in Nat
  /\ transmitImmediate \in BOOLEAN /\ completeDpc \in [Slots -> BOOLEAN]
  /\ timer \in [Slots -> TimerStates]
  /\ pc \in {"idle", "start", "give", "purge"}
  /\ flushing \in BOOLEAN

\* The current request of a slot that the ISR, a timer or a cancel routine may
\* know: any, but the write that SerialStartWrite is about to start.
Started(slot) ==
  current[slot] # NoReq /\ ~(slot = "Write" /\ pc \in {"start", "give"})

\* Requests the driver has lost: a current xoff counter is overwritten when the next
\* counter's write is complete before the last party has come back for it.  The
\* assertion at write.c:378-383 excludes that, the code does not.
Lost ==
  {r \in Req : /\ status[r] = "pending" /\ r \notin ToSet(writeQueue)
               /\ \A slot \in Slots : current[slot] # r}

\* The references of a slot's current request are those of the parties that work
\* on the slot, and without a started request none does.
OwnersAgree(slot) ==
  LET r == current[slot] IN
  IF Started(slot)
    THEN /\ refs[r] # {} /\ refs[r] \subseteq {"ISR", "CANCEL", "TOTAL_TIMER"}
         /\ "ISR" \in refs[r] <=> IsrHas(slot) \/ completeDpc[slot]
         /\ ~(IsrHas(slot) /\ completeDpc[slot])
         /\ "CANCEL" \in refs[r] <=> cancelMark[r] # "none"
         /\ cancelMark[r] # "none" => cancelRoutine[r] = slot
         /\ timer[slot] # "off" => "TOTAL_TIMER" \in refs[r]
         /\ "TOTAL_TIMER" \in refs[r] =>
              timer[slot] # "off" \/ (slot = "Xoff" /\ xc[r].timeout)
    ELSE ~IsrHas(slot) /\ ~completeDpc[slot] /\ timer[slot] = "off"

\* Every reference of a started request stands for exactly one party that will
\* come back for it, and nothing refers to any other request: no DPC, timer or
\* cancel routine of a slot runs without its current request, or finds another
\* one in its place (the assertion at the top of SerialTryToCompleteCurrent).  For
\* writes and immediate characters that is always so, for xoff counters until one
\* is lost.  The one exception is the counter whose timer ran out:
\* SerialTimeoutXoff leaves it the timer's reference, which TimedXoffEnds is about.
RefsMatchOwners ==
  /\ \A r \in Req \ Lost :
       (\A slot \in Slots : ~(Started(slot) /\ current[slot] = r))
         => refs[r] = {} /\ cancelMark[r] = "none"
  /\ OwnersAgree("Write") /\ OwnersAgree("Immediate")
  /\ Lost = {} => OwnersAgree("Xoff")

\* TotalCharsQueued counts every request once, from its dispatch until it is
\* completed or an xoff counter's character is sent, on every way out: sent,
\* timed out, cancelled, purged, cancelled in the queue.
CharsAccounted ==
  LET here(slot) == IF current[slot] = NoReq THEN 0 ELSE Chars(current[slot])
  IN totalCharsQueued = here("Write") + here("Immediate") + CharsIn(writeQueue)

\* A completed request is never touched again.
CompletedIsFinal ==
  [][\A r \in Req : status[r] \in Done =>
       status'[r] = status[r] /\ information'[r] = information[r]
         /\ refs'[r] = {} /\ \A slot \in Slots : current'[slot] # r]_vars

\* Mutant of AmountInOutQueue: the whole current write is taken off.
AmountWithoutCurrent ==
  IF writeLength > 0 THEN totalCharsQueued - length[current["Write"]]
                     ELSE totalCharsQueued

\* SerialGetCommStatus.
AmountInOutQueue ==
  IF writeLength > 0
    THEN totalCharsQueued - (length[current["Write"]] - writeLength)
    ELSE totalCharsQueued

\* What GET_COMMSTATUS reports while a write is current is never less than what
\* remains to be sent of it and of all that waits behind it, and never more than
\* was accepted: a client that waits for 0 has everything sent.
ReportCoversRest ==
  LET r == current["Write"]
      rest == IF pc \in {"start", "give"} THEN Chars(r) ELSE writeLength
  IN r \in Writes =>
       AmountInOutQueue \in rest + CharsIn(writeQueue)
                              + (IF transmitImmediate THEN 1 ELSE 0)
                           .. totalCharsQueued

-----------------------------------------------------------------------------
(* The line of writes, as TxStream promises it.                            *)

Transmitted ==
  LET r == current["Write"] IN
  IF r \notin Writes \/ pc \in {"start", "give"} THEN 0
  ELSE IF writeLength > 0 THEN length[r] - writeLength ELSE information[r]

Ended(r) == status[r] \in {"SUCCESS", "TIMEOUT"}

\* The current write and the writes in the queue, without the xoff counters
\* among them.
Line == Only(<<current["Write"]>> \o writeQueue, Writes)
Sizes == [r \in Writes |-> length[r]]
\* How writes ended, unless they were cancelled, and what those reported.
Outcome == [r \in Writes |-> IF Ended(r) THEN status[r] ELSE "none"]
Reported == [r \in Writes |-> IF Ended(r) THEN information[r] ELSE 0]

Stream == INSTANCE TxStream WITH
  order <- Line, size <- Sizes, sent <- Transmitted, outcome <- Outcome,
  reported <- Reported

\* The write path implements the line: no write overtakes another, is sent twice
\* or not from its start, success means that all of it was sent, and what a write
\* reports is what was sent of it.
ImplementsStream == Stream!Spec

-----------------------------------------------------------------------------
(* Liveness.                                                               *)

\* A cancelled request is completed.
CancelledEnds ==
  \A r \in Req : status[r] = "pending" /\ cancelled[r] ~> status[r] \in Done

\* A request whose total timer runs is completed, or its write has become an
\* xoff counter.
TimedEnds ==
  \A r \in Req, slot \in {"Write", "Immediate"} :
    current[slot] = r /\ timer[slot] = "set" ~> current[slot] # r

\* An xoff counter with a timeout is completed.
TimedXoffEnds ==
  \A r \in Req : current["Xoff"] = r /\ timer["Xoff"] = "set" ~> status[r] \in Done
=============================================================================
