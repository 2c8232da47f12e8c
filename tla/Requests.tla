------------------------------ MODULE Requests ------------------------------
(***************************************************************************)
(* The request reference protocol of utils.c, shared by every path that    *)
(* keeps a current request (reads, writes, immediate characters and xoff   *)
(* counters).                                                              *)
(*                                                                         *)
(* A current request is completed only when nothing in the driver can      *)
(* touch it any more.  REQUEST_CONTEXT.RefCount is a bit mask with one bit *)
(* for every party that can: the ISR (or the DPC it queued), the cancel    *)
(* routine, the total timer, the interval timer, and the write path that   *)
(* borrows an xoff counter.  Here RefCount is the set of the bits.         *)
(*                                                                         *)
(* The framework objects are modelled from how the driver uses them:       *)
(*   - a KMDF timer is "off", "set" (in the system timer queue) or "fired" *)
(*     (out of that queue, its callback waiting for the device lock).      *)
(*     WdfTimerStop returns TRUE exactly when the timer was "set".         *)
(*   - a request is not cancelable ("none"), "cancelable" (marked), or     *)
(*     "dispatched": it was cancelled while marked and its cancel callback *)
(*     waits for the device lock.  WdfRequestUnmarkCancelable succeeds     *)
(*     exactly when the callback was not dispatched.                       *)
(***************************************************************************)

\* SERIAL_REF_ISR, SERIAL_REF_CANCEL, SERIAL_REF_TOTAL_TIMER,
\* SERIAL_REF_INT_TIMER and SERIAL_REF_XOFF_REF.
RefTypes == {"ISR", "CANCEL", "TOTAL_TIMER", "INT_TIMER", "XOFF_REF"}

TimerStates == {"off", "set", "fired"}
CancelStates == {"none", "cancelable", "dispatched"}

\* The timer argument of a caller that passes NULL instead of a timer.
NullTimer == "null"

\* A timer after SerialCancelTimer, which is WdfTimerStop(Timer, FALSE).
Stopped(timer) == IF timer = "set" THEN "off" ELSE timer

\* The state of a request that SerialSetCancelRoutine marks cancelable: if it
\* was cancelled before, its cancel callback is due at once.
Marked(cancelled) == IF cancelled THEN "dispatched" ELSE "cancelable"

\* Mutant of TimerRef: a timer that ran out does not give up its own reference.
TimerRefStoppedOnly(timer, type, caller) ==
  IF timer # NullTimer /\ timer = "set" THEN {type} ELSE {}

\* The reference of one timer that SerialRundownIrpRefs can clear: the timer
\* was stopped before it fired, or the caller is that timer.
TimerRef(timer, type, caller) ==
  IF timer # NullTimer /\ (timer = "set" \/ caller = type) THEN {type} ELSE {}

\* Mutant of CancelRef: the cancel routine does not give up its own reference.
CancelRefUnmarkedOnly(mark, caller) ==
  IF mark = "cancelable" THEN {"CANCEL"} ELSE {}

\* The cancel reference: the caller is the cancel routine, or
\* SerialClearCancelRoutine unmarks the request before it was cancelled.
CancelRef(mark, caller) ==
  IF caller = "CANCEL" \/ mark = "cancelable" THEN {"CANCEL"} ELSE {}

\* The cancel state after the same.
Unmarked(mark, caller) ==
  IF caller = "CANCEL" \/ mark = "cancelable" THEN "none" ELSE mark

\* SerialRundownIrpRefs: the references that are left.
RundownIrpRefs(refs, caller, mark, interval, total) ==
  refs \ (CancelRef(mark, caller)
            \cup TimerRef(interval, "INT_TIMER", caller)
            \cup TimerRef(total, "TOTAL_TIMER", caller))

\* The references that are left when SerialTryToCompleteCurrent looks at the
\* count: the caller's own ISR or XOFF_REF reference, then the reference the
\* synchronized routine took back from the ISR, then the rundown.
RefsLeft(refs, caller, grabbed, mark, interval, total) ==
  RundownIrpRefs(refs \ ((IF caller \in {"ISR", "XOFF_REF"} THEN {caller} ELSE {})
                          \cup grabbed),
                 caller, mark, interval, total)
=============================================================================
