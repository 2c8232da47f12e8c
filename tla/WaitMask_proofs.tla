--------------------------- MODULE WaitMask_proofs ---------------------------
(***************************************************************************)
(* Proofs about WaitMask, for any number of waits, events and masks.       *)
(***************************************************************************)
EXTENDS WaitMask, TLAPS

\* The waits that are not completed are exactly the current one.
PendingIsCurrent ==
  \A r \in Req : status[r] = "pending" <=> r = currentWaitRequest

\* The inductive invariant.  RefsMatchOwners alone is not inductive: a wait that
\* becomes current must find no reference left on its request, which holds
\* because only the current wait is pending.
IInv == TypeOK /\ RefsMatchOwners /\ NoMissedEvent /\ PendingIsCurrent

\* SerialRundownIrpRefs with no timers: what is left are the references that
\* neither the caller, nor the grab, nor the unmarking takes away.
LEMMA RefsLeftDef ==
  ASSUME NEW set, NEW caller, NEW grabbed, NEW mark
  PROVE  RefsLeft(set, caller, grabbed, mark, NullTimer, NullTimer)
           = {t \in set : /\ ~(caller \in {"ISR", "XOFF_REF"} /\ t = caller)
                          /\ t \notin grabbed
                          /\ ~(t = "CANCEL" /\ (caller = "CANCEL" \/ mark = "cancelable"))}
  BY DEF RefsLeft, RundownIrpRefs, CancelRef, TimerRef

\* Nothing is current, and nothing has happened.
LEMMA InitIInv == Init => IInv
  BY ReqAssumption, MaskAssumption
     DEF Init, IInv, TypeOK, RefsMatchOwners, NoMissedEvent, PendingIsCurrent,
         RefTypes, CancelStates, Done

\* Noting an event keeps the invariant: the location the ISR writes to is that of
\* the current wait, whose ISR reference passes to the DPC.
LEMMA NotePreserves ==
  ASSUME IInv, NEW events, events \subseteq isrWaitMask, Note(events),
         UNCHANGED <<isrWaitMask, requestVars>>,
         emptiedTransmit' \in BOOLEAN, transmit' \in {"empty", "waiting", "sent"}
  PROVE  IInv'
<1>1. CASE irpMaskLocation # NoReq /\ historyMask \cup events # {}
  BY <1>1, ReqAssumption
     DEF IInv, TypeOK, RefsMatchOwners, NoMissedEvent, PendingIsCurrent, Note, requestVars
<1>2. CASE ~(irpMaskLocation # NoReq /\ historyMask \cup events # {})
  BY <1>2, ReqAssumption
     DEF IInv, TypeOK, RefsMatchOwners, NoMissedEvent, PendingIsCurrent, Note, requestVars
<1>3. QED
  BY <1>1, <1>2

\* Completing: the caller gives up its own reference, and the wait leaves only
\* with the last one.
LEMMA CompleteWaitPreserves == IInv /\ CompleteWait => IInv'
<1> SUFFICES ASSUME IInv, CompleteWait PROVE IInv'
  OBVIOUS
<1> DEFINE w == currentWaitRequest
           left == RefsLeft(refs[w], "ISR", {}, cancelMark[w], NullTimer, NullTimer)
<1>1. w \in Req /\ w # NoReq /\ irpMaskLocation = NoReq /\ commWaitDpc' = FALSE
  BY ReqAssumption DEF IInv, TypeOK, RefsMatchOwners, CompleteWait
<1>2. /\ refs' = [refs EXCEPT ![w] = left]
      /\ cancelMark' = [cancelMark EXCEPT ![w] = Unmarked(@, "ISR")]
      /\ IF left = {} THEN /\ status' = [status EXCEPT ![w] = "SUCCESS"]
                           /\ currentWaitRequest' = NoReq
                      ELSE UNCHANGED <<status, currentWaitRequest>>
      /\ UNCHANGED <<isrWaitMask, historyMask, emptiedTransmit, cancelled, transmit,
                     buffer, irpMaskLocation>>
  BY DEF CompleteWait, TryToComplete
<1>3. left = IF cancelMark[w] = "dispatched" THEN {"CANCEL"} ELSE {}
  <2>1. refs[w] = {"ISR"} \cup (IF cancelMark[w] # "none" THEN {"CANCEL"} ELSE {})
    BY <1>1 DEF IInv, TypeOK, RefsMatchOwners, CompleteWait
  <2>2. cancelMark[w] \in CancelStates
    BY <1>1 DEF IInv, TypeOK
  <2>3. left = {t \in refs[w] : t # "ISR" /\ ~(t = "CANCEL" /\ cancelMark[w] = "cancelable")}
    BY RefsLeftDef
  <2>4. QED
    BY <2>1, <2>2, <2>3 DEF CancelStates
<1>4. Unmarked(cancelMark[w], "ISR")
        = IF cancelMark[w] = "dispatched" THEN "dispatched" ELSE "none"
  BY <1>1 DEF IInv, TypeOK, CancelStates, Unmarked
<1>5. TypeOK'
  BY <1>1, <1>2, <1>3, <1>4 DEF IInv, TypeOK, CancelStates, RefTypes, Done
<1>6. RefsMatchOwners'
  BY <1>1, <1>2, <1>3, <1>4 DEF IInv, TypeOK, RefsMatchOwners
<1>7. NoMissedEvent' /\ PendingIsCurrent'
  BY <1>1, <1>2, ReqAssumption DEF IInv, TypeOK, NoMissedEvent, PendingIsCurrent
<1>8. QED
  BY <1>5, <1>6, <1>7 DEF IInv

\* Cancelling: the callback finds its own wait current, and takes the location
\* back from the ISR if the ISR still has it.
LEMMA CancelWaitPreserves ==
  ASSUME NEW r \in Req, IInv, CancelWait(r)
  PROVE  IInv'
<1> DEFINE w == currentWaitRequest
           grabbed == irpMaskLocation # NoReq
           left == RefsLeft(refs[w], "CANCEL", IF grabbed THEN {"ISR"} ELSE {},
                            cancelMark[w], NullTimer, NullTimer)
<1>1. w = r /\ w # NoReq /\ (grabbed => irpMaskLocation = w /\ ~commWaitDpc)
  BY ReqAssumption DEF IInv, RefsMatchOwners, CancelWait
<1>2. /\ refs' = [refs EXCEPT ![w] = left]
      /\ cancelMark' = [cancelMark EXCEPT ![w] = Unmarked(@, "CANCEL")]
      /\ IF left = {} THEN /\ status' = [status EXCEPT ![w] = "CANCELLED"]
                           /\ currentWaitRequest' = NoReq
                      ELSE UNCHANGED <<status, currentWaitRequest>>
      /\ UNCHANGED <<isrWaitMask, historyMask, emptiedTransmit, cancelled, transmit,
                     commWaitDpc>>
  BY DEF CancelWait, TryToComplete
<1>3. /\ irpMaskLocation' = NoReq
      /\ buffer' = IF grabbed THEN [buffer EXCEPT ![w] = {}] ELSE buffer
  BY <1>1 DEF CancelWait, GrabWaitFromIsr
<1>4. left = IF commWaitDpc THEN {"ISR"} ELSE {}
  <2>1. left = {t \in refs[w] : t \notin (IF grabbed THEN {"ISR"} ELSE {}) /\ t # "CANCEL"}
    BY RefsLeftDef
  <2>2. refs[w] \subseteq {"ISR", "CANCEL"}
    BY <1>1 DEF IInv, RefsMatchOwners
  <2>3. "ISR" \in refs[w] <=> grabbed \/ commWaitDpc
    BY <1>1 DEF IInv, RefsMatchOwners
  <2>4. QED
    BY <1>1, <2>1, <2>2, <2>3
<1>5. Unmarked(cancelMark[w], "CANCEL") = "none"
  BY DEF Unmarked
<1>6. TypeOK'
  BY <1>1, <1>2, <1>3, <1>4, <1>5 DEF IInv, TypeOK, CancelStates, RefTypes, Done
<1>7. RefsMatchOwners'
  BY <1>1, <1>2, <1>3, <1>4, <1>5 DEF IInv, TypeOK, RefsMatchOwners
<1>8. NoMissedEvent' /\ PendingIsCurrent'
  BY <1>1, <1>2, <1>3, ReqAssumption DEF IInv, TypeOK, NoMissedEvent, PendingIsCurrent
<1>9. QED
  BY <1>6, <1>7, <1>8 DEF IInv

\* Dispatching a wait.
LEMMA WaitOnMaskPreserves ==
  ASSUME NEW r \in Req, IInv, WaitOnMask(r)
  PROVE  IInv'
<1>1. r # NoReq /\ refs[r] = {} /\ cancelMark[r] = "none"
  BY ReqAssumption DEF IInv, RefsMatchOwners, WaitOnMask
<1>2. irpMaskLocation = NoReq /\ ~commWaitDpc
  BY ReqAssumption DEF IInv, TypeOK, RefsMatchOwners, WaitOnMask
<1>3. Marked(cancelled[r]) \in {"dispatched", "cancelable"}
  BY DEF Marked
<1>4. TypeOK'
  BY <1>1, <1>3 DEF IInv, TypeOK, WaitOnMask, GiveWaitToIsr, CancelStates, RefTypes
<1>5. RefsMatchOwners'
  BY <1>1, <1>2, <1>3, ReqAssumption
     DEF IInv, TypeOK, RefsMatchOwners, WaitOnMask, GiveWaitToIsr
<1>6. NoMissedEvent' /\ PendingIsCurrent'
  BY <1>1, <1>2, ReqAssumption
     DEF IInv, TypeOK, NoMissedEvent, PendingIsCurrent, WaitOnMask, GiveWaitToIsr
<1>7. QED
  BY <1>4, <1>5, <1>6 DEF IInv

\* The invariant is inductive: one step for each action of Next.
LEMMA NextIInv == IInv /\ [Next]_vars => IInv'
<1> SUFFICES ASSUME IInv, [Next]_vars PROVE IInv'
  OBVIOUS
<1>1. ASSUME NEW events \in SUBSET Events, EventsHappen(events) PROVE IInv'
  BY <1>1, NotePreserves DEF EventsHappen, IInv, TypeOK
<1>2. CASE TransmitStarts
  BY <1>2 DEF TransmitStarts, requestVars, IInv, TypeOK, RefsMatchOwners,
              NoMissedEvent, PendingIsCurrent
<1>3. CASE TransmitInterrupt
  BY <1>3 DEF TransmitInterrupt, requestVars, IInv, TypeOK, RefsMatchOwners,
              NoMissedEvent, PendingIsCurrent
<1>4. CASE ProcessEmptyTransmit
  <2>1. CASE "TXEMPTY" \in isrWaitMask /\ emptiedTransmit
    BY <1>4, <2>1, NotePreserves DEF ProcessEmptyTransmit, IInv, TypeOK
  <2>2. CASE ~("TXEMPTY" \in isrWaitMask /\ emptiedTransmit)
    BY <1>4, <2>2 DEF ProcessEmptyTransmit, requestVars, IInv, TypeOK, RefsMatchOwners,
                      NoMissedEvent, PendingIsCurrent
  <2>3. QED
    BY <2>1, <2>2
<1>5. ASSUME NEW mask \in Masks, SetWaitMask(mask) PROVE IInv'
  <2>1. mask \subseteq Events
    BY MaskAssumption
  <2>2. CASE irpMaskLocation # NoReq
    BY <1>5, <2>1, <2>2, ReqAssumption
       DEF SetWaitMask, requestVars, IInv, TypeOK, RefsMatchOwners, NoMissedEvent,
           PendingIsCurrent
  <2>3. CASE irpMaskLocation = NoReq
    BY <1>5, <2>1, <2>3
       DEF SetWaitMask, requestVars, IInv, TypeOK, RefsMatchOwners, NoMissedEvent,
           PendingIsCurrent
  <2>4. QED
    BY <2>2, <2>3
<1>6. ASSUME NEW r \in Req, WaitRefused(r) PROVE IInv'
  BY <1>6, ReqAssumption
     DEF WaitRefused, IInv, TypeOK, RefsMatchOwners, NoMissedEvent, PendingIsCurrent, Done
<1>7. ASSUME NEW r \in Req, Cancel(r) PROVE IInv'
  BY <1>7 DEF Cancel, CancelStates, IInv, TypeOK, RefsMatchOwners, NoMissedEvent,
              PendingIsCurrent
<1>8. CASE UNCHANGED vars
  BY <1>8 DEF vars, requestVars, IInv, TypeOK, RefsMatchOwners, NoMissedEvent,
              PendingIsCurrent
<1>9. QED
  BY <1>1, <1>2, <1>3, <1>4, <1>5, <1>6, <1>7, <1>8, WaitOnMaskPreserves,
     CancelWaitPreserves, CompleteWaitPreserves DEF Next

\* The inductive invariant holds of every behaviour of the wait path.
THEOREM SpecIInv == Spec => []IInv
  BY InitIInv, NextIInv, PTL DEF Spec

\* The variables of the wait path keep their types.
THEOREM SpecTypeOK == Spec => []TypeOK
<1>1. IInv => TypeOK
  BY DEF IInv
<1>2. QED
  BY <1>1, SpecIInv, PTL

\* The RefCount protocol of utils.c keeps the wait current as long as the ISR, a
\* queued CommWaitDpc or a cancel callback may still come back for it.
THEOREM SpecRefsMatchOwners == Spec => []RefsMatchOwners
<1>1. IInv => RefsMatchOwners
  BY DEF IInv
<1>2. QED
  BY <1>1, SpecIInv, PTL

\* SerialGiveWaitToIsr and the ISR never leave an event in HistoryMask while a wait
\* sleeps, whatever the order of waits, new masks, cancellations and interrupts.
THEOREM SpecNoMissedEvent == Spec => []NoMissedEvent
<1>1. IInv => NoMissedEvent
  BY DEF IInv
<1>2. QED
  BY <1>1, SpecIInv, PTL

\* No step writes into the buffer of a wait the ISR has let go of.
THEOREM SpecToldOnce == Spec => ToldOnce
<1> DEFINE Kept == \A r \in Req : status[r] # "unused" /\ irpMaskLocation # r
                                  => buffer'[r] = buffer[r]
<1>1. IInv /\ [Next]_vars => [Kept]_vars
  <2> SUFFICES ASSUME IInv, [Next]_vars, NEW r \in Req,
                      status[r] # "unused", irpMaskLocation # r
               PROVE  buffer'[r] = buffer[r]
    OBVIOUS
  <2>1. irpMaskLocation \in Req \cup {NoReq} /\ buffer \in [Req -> SUBSET Events]
    BY DEF IInv, TypeOK
  <2>2. ASSUME NEW events, Note(events) PROVE buffer'[r] = buffer[r]
    BY <2>1, <2>2 DEF Note
  <2>3. CASE \E events \in SUBSET Events \ {{}} : EventsHappen(events)
    BY <2>2, <2>3 DEF EventsHappen
  <2>4. CASE TransmitStarts \/ TransmitInterrupt \/ ProcessEmptyTransmit
    BY <2>2, <2>4 DEF TransmitStarts, TransmitInterrupt, ProcessEmptyTransmit
  <2>5. CASE \E mask \in Masks : SetWaitMask(mask)
    BY <2>1, <2>5 DEF SetWaitMask
  <2>6. CASE \E s \in Req : WaitRefused(s) \/ Cancel(s)
    BY <2>6 DEF WaitRefused, Cancel
  <2>7. CASE \E s \in Req : WaitOnMask(s)
    BY <2>1, <2>7 DEF WaitOnMask, GiveWaitToIsr
  <2>8. CASE \E s \in Req : CancelWait(s)
    BY <2>1, <2>8 DEF CancelWait, GrabWaitFromIsr
  <2>9. CASE CompleteWait
    BY <2>9 DEF CompleteWait
  <2>10. CASE UNCHANGED vars
    BY <2>10 DEF vars
  <2>11. QED
    BY <2>3, <2>4, <2>5, <2>6, <2>7, <2>8, <2>9, <2>10 DEF Next
<1>2. QED
  BY <1>1, SpecIInv, PTL DEF Spec, ToldOnce
==============================================================================
