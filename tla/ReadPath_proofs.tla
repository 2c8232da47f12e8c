--------------------------- MODULE ReadPath_proofs ---------------------------
(***************************************************************************)
(* Proofs about the request protocol of the read path: who may touch a     *)
(* read, and that nobody does once it is completed.  For any set of reads  *)
(* and resizes, any buffer sizes, timeouts and error settings.             *)
(***************************************************************************)
EXTENDS ReadPath, SequenceTheorems, TLAPS

\* The requests in a queue, and that each is there once.
QueueSet(q) == {q[i] : i \in DOMAIN q}
Distinct(q) == \A i, j \in DOMAIN q : q[i] = q[j] => i = j

\* The type invariant, of what the protocol looks at.
RequestTypes ==
  /\ currentReadRequest \in Req \cup {NoReq} /\ readQueue \in Seq(Req)
  /\ DOMAIN status = Req /\ DOMAIN information = Req /\ DOMAIN userBuffer = Req
  /\ refs \in [Req -> SUBSET RefTypes] /\ cancelMark \in [Req -> CancelStates]
  /\ totalTimer \in TimerStates /\ intervalTimer \in TimerStates
  /\ completeReadDpc \in BOOLEAN
  /\ pc \in {"idle", "start", "copied", "moved", "purge", "expired"}

\* A request the driver has is in one place, and not completed.
Owned ==
  /\ Distinct(readQueue) /\ currentReadRequest \notin QueueSet(readQueue)
  /\ \A r \in QueueSet(readQueue) : status[r] = "pending"
  /\ currentReadRequest # NoReq => status[currentReadRequest] = "pending"

\* What the lock holder is in the middle of.
Phase ==
  /\ pc \in {"start", "copied", "moved"} => currentReadRequest # NoReq
  /\ pc = "copied" => currentReadRequest \in Reads
  /\ pc = "moved" => currentReadRequest \in Resizes
  /\ Started => currentReadRequest \in Reads
  /\ pc = "expired" => Started /\ intervalTimer = "off"

\* The inductive invariant.
PInv == RequestTypes /\ Owned /\ Phase /\ RefsMatchOwners

\* Nobody will come back for any request.
NoRefs ==
  /\ \A r \in Req : refs[r] = {} /\ cancelMark[r] = "none"
  /\ readBufferBase = InterruptReadBuffer /\ ~completeReadDpc
  /\ totalTimer = "off" /\ intervalTimer = "off"

\* A step touches no request but the current one and those in the queue.
Untouched ==
  \A r \in Req : status[r] \in Done =>
    /\ status'[r] = status[r] /\ information'[r] = information[r]
    /\ userBuffer'[r] = userBuffer[r]
-----------------------------------------------------------------------------
(* Queues.                                                                 *)

\* The head leaves the queue.
LEMMA QueueTail ==
  ASSUME NEW q \in Seq(Req), q # << >>, Distinct(q)
  PROVE  /\ Head(q) \in QueueSet(q) /\ Head(q) \notin QueueSet(Tail(q))
         /\ Tail(q) \in Seq(Req) /\ Distinct(Tail(q))
         /\ QueueSet(Tail(q)) \subseteq QueueSet(q) /\ QueueSet(q) \subseteq Req
<1>1. /\ Len(q) \in Nat /\ Len(q) >= 1 /\ DOMAIN q = 1 .. Len(q)
      /\ \A i \in 1 .. Len(q) : q[i] \in Req
      /\ Head(q) = q[1]
  OBVIOUS
<1>2. /\ Tail(q) \in Seq(Req) /\ DOMAIN Tail(q) = 1 .. Len(q) - 1
      /\ \A i \in 1 .. Len(q) - 1 : Tail(q)[i] = q[i + 1]
  OBVIOUS
<1> DEFINE t == Tail(q)
<1> HIDE DEF t
<1>3. Head(q) \in QueueSet(q) /\ QueueSet(q) \subseteq Req
  BY <1>1 DEF QueueSet
<1>4. Distinct(t)
  BY <1>1, <1>2 DEF Distinct, t
<1>5. q[1] \notin QueueSet(t)
  BY <1>1, <1>2 DEF Distinct, QueueSet, t
<1>6. QueueSet(t) \subseteq QueueSet(q)
  BY <1>1, <1>2 DEF QueueSet, t
<1>7. QED
  BY <1>1, <1>2, <1>3, <1>4, <1>5, <1>6 DEF t

\* A request joins it.
LEMMA QueueAppend ==
  ASSUME NEW q \in Seq(Req), Distinct(q), NEW r \in Req, r \notin QueueSet(q)
  PROVE  /\ Append(q, r) \in Seq(Req) /\ Distinct(Append(q, r))
         /\ QueueSet(Append(q, r)) = QueueSet(q) \cup {r}
<1> DEFINE p == Append(q, r)
<1>1. /\ Len(q) \in Nat /\ DOMAIN q = 1 .. Len(q)
      /\ p \in Seq(Req) /\ DOMAIN p = 1 .. Len(q) + 1
      /\ \A i \in 1 .. Len(q) : p[i] = q[i]
      /\ p[Len(q) + 1] = r
  OBVIOUS
<1> HIDE DEF p
<1>2. Distinct(p)
  BY <1>1 DEF Distinct, QueueSet
<1>3. QueueSet(p) = QueueSet(q) \cup {r}
  BY <1>1 DEF QueueSet
<1>4. QED
  BY <1>1, <1>2, <1>3 DEF p

\* One leaves it from the middle.
LEMMA QueueRemove ==
  ASSUME NEW q \in Seq(Req), Distinct(q), NEW i \in DOMAIN q
  PROVE  LET p == SubSeq(q, 1, i - 1) \o SubSeq(q, i + 1, Len(q)) IN
         /\ p \in Seq(Req) /\ Distinct(p)
         /\ QueueSet(p) \subseteq QueueSet(q) /\ q[i] \notin QueueSet(p)
<1> DEFINE a == SubSeq(q, 1, i - 1)
           b == SubSeq(q, i + 1, Len(q))
           p == a \o b
<1>1. Len(q) \in Nat /\ DOMAIN q = 1 .. Len(q) /\ i \in 1 .. Len(q)
  OBVIOUS
<1>2. /\ a \in Seq(Req) /\ Len(a) = i - 1
      /\ \A j \in 1 .. i - 1 : a[j] = q[j]
  BY <1>1
<1>3. /\ b \in Seq(Req) /\ Len(b) = Len(q) - i
      /\ \A j \in 1 .. Len(q) - i : b[j] = q[i + j]
  BY <1>1
<1> HIDE DEF a, b
<1>4. /\ p \in Seq(Req) /\ Len(p) = Len(a) + Len(b)
      /\ \A j \in 1 .. Len(a) + Len(b) :
           p[j] = IF j <= Len(a) THEN a[j] ELSE b[j - Len(a)]
  BY <1>2, <1>3, ConcatProperties
<1> HIDE DEF p
<1>5. p \in Seq(Req) /\ DOMAIN p = 1 .. Len(q) - 1
  <2>1. Len(a) + Len(b) = Len(q) - 1
    BY <1>1, <1>2, <1>3
  <2>2. DOMAIN p = 1 .. Len(p)
    BY <1>4
  <2>3. QED
    BY <1>4, <2>1, <2>2
\* Where an element of p was in q.
<1> DEFINE at(j) == IF j < i THEN j ELSE j + 1
<1>6. ASSUME NEW j \in DOMAIN p
      PROVE  at(j) \in DOMAIN q /\ at(j) # i /\ p[j] = q[at(j)]
  <2>1. j \in 1 .. Len(q) - 1 /\ j \in 1 .. Len(a) + Len(b)
    BY <1>1, <1>2, <1>3, <1>5
  <2>2. p[j] = IF j <= Len(a) THEN a[j] ELSE b[j - Len(a)]
    BY <1>4, <2>1
  <2>3. CASE j < i
    <3>1. j \in 1 .. i - 1 /\ j <= Len(a)
      BY <1>1, <1>2, <2>1, <2>3
    <3>2. QED
      BY <1>1, <1>2, <2>2, <2>3, <3>1
  <2>4. CASE ~(j < i)
    <3>1. j - Len(a) \in 1 .. Len(q) - i /\ ~(j <= Len(a)) /\ i + (j - Len(a)) = j + 1
      BY <1>1, <1>2, <2>1, <2>4
    <3>2. p[j] = q[j + 1]
      BY <1>3, <2>2, <3>1
    <3>3. j + 1 \in 1 .. Len(q) /\ j + 1 # i
      BY <1>1, <2>1, <2>4
    <3>4. QED
      BY <1>1, <2>4, <3>2, <3>3
  <2>5. QED
    BY <2>3, <2>4
<1>7. ASSUME NEW j \in DOMAIN p, NEW k \in DOMAIN p, at(j) = at(k)
      PROVE  j = k
  BY <1>1, <1>5, <1>7
<1> HIDE DEF at
<1>8. Distinct(p)
  BY <1>6, <1>7 DEF Distinct
<1>9. QueueSet(p) \subseteq QueueSet(q)
  BY <1>6 DEF QueueSet
<1>10. q[i] \notin QueueSet(p)
  BY <1>1, <1>6 DEF Distinct, QueueSet
<1>11. QED
  BY <1>5, <1>8, <1>9, <1>10 DEF p, a, b

-----------------------------------------------------------------------------
(* The shapes of a step.                                                   *)

\* While no started read is current there is nobody to come back.
LEMMA NotStartedNoRefs ==
  ASSUME PInv, ~Started
  PROVE  NoRefs
  BY DEF PInv, RefsMatchOwners, NoRefs

\* SerialGetNextRequest takes the next request out of its queue.
LEMMA NextRequest ==
  ASSUME NEW q \in Seq(Req), Distinct(q), NEW back, GetNextRequest(q, back)
  PROVE  /\ readQueue' \in Seq(Req) /\ Distinct(readQueue')
         /\ QueueSet(readQueue') \subseteq QueueSet(q)
         /\ currentReadRequest' \notin QueueSet(readQueue')
         /\ \/ currentReadRequest' = NoReq /\ pc' = back
            \/ /\ currentReadRequest' \in QueueSet(q) /\ currentReadRequest' \in Req
               /\ pc' = "start"
<1>1. CASE q = << >>
  <2>1. readQueue' = << >> /\ currentReadRequest' = NoReq /\ pc' = back
    BY <1>1 DEF GetNextRequest
  <2>2. QueueSet(<< >>) = {} /\ Distinct(<< >>)
    BY DEF QueueSet, Distinct
  <2>3. QED
    BY <2>1, <2>2
<1>2. CASE q # << >>
  <2>1. readQueue' = Tail(q) /\ currentReadRequest' = Head(q) /\ pc' = "start"
    BY <1>2 DEF GetNextRequest
  <2>2. QED
    BY <1>2, <2>1, QueueTail
<1>3. QED
  BY <1>1, <1>2

\* The end of the current request, whoever ends it: nobody may have a reference to
\* it any more.
LEMMA EndOfCurrent ==
  ASSUME currentReadRequest \in Req, NEW q \in Seq(Req), Distinct(q),
         currentReadRequest \notin QueueSet(q),
         NEW outcome, DOMAIN outcome = Req,
         \A r \in QueueSet(q) : outcome[r] = "pending",
         NEW final, status' = [outcome EXCEPT ![currentReadRequest] = final],
         NEW back \in {"idle", "purge"}, GetNextRequest(q, back), NoRefs'
  PROVE  /\ Owned' /\ Phase' /\ RefsMatchOwners'
         /\ currentReadRequest' \in Req \cup {NoReq} /\ readQueue' \in Seq(Req)
         /\ DOMAIN status' = Req /\ pc' \in {"idle", "start", "purge"}
<1>1. /\ readQueue' \in Seq(Req) /\ Distinct(readQueue')
      /\ QueueSet(readQueue') \subseteq QueueSet(q)
      /\ currentReadRequest' \notin QueueSet(readQueue')
      /\ \/ currentReadRequest' = NoReq /\ pc' = back
         \/ /\ currentReadRequest' \in QueueSet(q) /\ currentReadRequest' \in Req
            /\ pc' = "start"
  BY NextRequest
<1>2. DOMAIN status' = Req
  OBVIOUS
<1>3. QueueSet(q) \subseteq Req
  BY DEF QueueSet
<1>4. \A r \in QueueSet(q) : status'[r] = "pending"
  BY <1>3
<1>5. Owned'
  BY <1>1, <1>4 DEF Owned
<1>6. ~Started'
  BY <1>1 DEF Started
<1>7. Phase'
  BY <1>1, <1>6, ReqAssumption DEF Phase
<1>8. RefsMatchOwners'
  BY <1>6 DEF RefsMatchOwners, NoRefs
<1>9. QED
  BY <1>1, <1>2, <1>5, <1>7, <1>8

\* A step that the protocol does not see.
LEMMA QuietStep ==
  ASSUME PInv,
         UNCHANGED <<currentReadRequest, readQueue, status, information, userBuffer,
                     refs, cancelMark, totalTimer, intervalTimer, completeReadDpc,
                     readBufferBase, pc>>
  PROVE  PInv' /\ Untouched
<1>1. RequestTypes'
  BY DEF PInv, RequestTypes
<1>2. Owned'
  BY DEF PInv, Owned
<1>3. Phase'
  BY DEF PInv, Phase, Started
<1>4. RefsMatchOwners'
  BY DEF PInv, RefsMatchOwners, Started
<1>5. QED
  BY <1>1, <1>2, <1>3, <1>4 DEF PInv, Untouched

-----------------------------------------------------------------------------
(* SerialTryToCompleteCurrent.                                             *)

\* What every caller establishes: it runs for the current read, holds the reference
\* it names, and has its own timer or DPC accounted for.
Calls(grab, caller, interval, total) ==
  /\ caller \in {"ISR", "CANCEL", "TOTAL_TIMER", "INT_TIMER"}
  /\ Started /\ caller \in refs[currentReadRequest]
  /\ pc = "expired" => caller = "INT_TIMER"
  /\ grab <=> caller # "ISR"
  /\ caller = "ISR" => completeReadDpc
  /\ completeReadDpc' = (completeReadDpc /\ caller # "ISR")
  /\ interval = IF caller = "INT_TIMER" THEN "off" ELSE intervalTimer
  /\ total = IF caller = "TOTAL_TIMER" THEN "off" ELSE totalTimer

\* The references that are left are those of the parties that will still come.
LEMMA LeftMatchesOwners ==
  ASSUME PInv, NEW grab \in BOOLEAN, NEW caller, NEW interval, NEW total,
         Calls(grab, caller, interval, total),
         NEW left,
         left = RefsLeft(refs[currentReadRequest], caller,
                         IF grab /\ IsrOwnsRead THEN {"ISR"} ELSE {},
                         cancelMark[currentReadRequest], interval, total)
  PROVE  /\ left \subseteq RefTypes
         /\ "ISR" \in left <=> completeReadDpc /\ caller # "ISR"
         /\ "CANCEL" \in left <=> Unmarked(cancelMark[currentReadRequest], caller) # "none"
         /\ "TOTAL_TIMER" \in left <=> Stopped(total) # "off"
         /\ "INT_TIMER" \in left <=> Stopped(interval) # "off"
         /\ "XOFF_REF" \notin left
<1> DEFINE r == currentReadRequest
<1>1. /\ refs[r] \subseteq RefTypes /\ cancelMark[r] \in CancelStates
      /\ totalTimer \in TimerStates /\ intervalTimer \in TimerStates
  BY DEF PInv, RequestTypes, Calls, Started
<1>2. /\ "ISR" \in refs[r] <=> IsrOwnsRead \/ completeReadDpc
      /\ ~(IsrOwnsRead /\ completeReadDpc)
      /\ "CANCEL" \in refs[r] <=> cancelMark[r] # "none"
      /\ "TOTAL_TIMER" \in refs[r] <=> totalTimer # "off"
      /\ "INT_TIMER" \in refs[r] <=> intervalTimer # "off" \/ pc = "expired"
      /\ "XOFF_REF" \notin refs[r]
      /\ pc = "expired" => intervalTimer = "off"
  BY DEF PInv, RefsMatchOwners, Phase, Calls, IsrOwnsRead
<1>3. left = (refs[r] \ ((IF caller \in {"ISR", "XOFF_REF"} THEN {caller} ELSE {})
                           \cup (IF grab /\ IsrOwnsRead THEN {"ISR"} ELSE {})))
               \ (CancelRef(cancelMark[r], caller)
                    \cup TimerRef(interval, "INT_TIMER", caller)
                    \cup TimerRef(total, "TOTAL_TIMER", caller))
  BY DEF RefsLeft, RundownIrpRefs
<1>4. /\ caller \in {"ISR", "CANCEL", "TOTAL_TIMER", "INT_TIMER"}
      /\ grab <=> caller # "ISR"
      /\ caller = "ISR" => completeReadDpc
      /\ interval = IF caller = "INT_TIMER" THEN "off" ELSE intervalTimer
      /\ total = IF caller = "TOTAL_TIMER" THEN "off" ELSE totalTimer
      /\ caller \in refs[r] /\ (pc = "expired" => caller = "INT_TIMER")
  BY DEF Calls
<1> HIDE DEF r
<1>5. left \subseteq RefTypes /\ "XOFF_REF" \notin left
  BY <1>1, <1>2, <1>3
<1>6. "ISR" \in left <=> completeReadDpc /\ caller # "ISR"
  <2>1. "ISR" \notin CancelRef(cancelMark[r], caller) \cup TimerRef(interval, "INT_TIMER", caller)
                      \cup TimerRef(total, "TOTAL_TIMER", caller)
    BY DEF CancelRef, TimerRef
  <2>2. QED
    BY <1>2, <1>3, <1>4, <2>1
<1>7. "CANCEL" \in left <=> Unmarked(cancelMark[r], caller) # "none"
  <2>1. "CANCEL" \notin TimerRef(interval, "INT_TIMER", caller)
                         \cup TimerRef(total, "TOTAL_TIMER", caller)
    BY DEF TimerRef
  <2>2. "CANCEL" \in left <=> /\ "CANCEL" \in refs[r]
                              /\ "CANCEL" \notin CancelRef(cancelMark[r], caller)
    BY <1>3, <1>4, <2>1
  <2>3. QED
    BY <1>1, <1>2, <2>2 DEF CancelRef, Unmarked, CancelStates
<1>8. "TOTAL_TIMER" \in left <=> Stopped(total) # "off"
  <2>1. "TOTAL_TIMER" \notin CancelRef(cancelMark[r], caller)
                              \cup TimerRef(interval, "INT_TIMER", caller)
    BY DEF CancelRef, TimerRef
  <2>2. "TOTAL_TIMER" \in left <=> /\ "TOTAL_TIMER" \in refs[r]
                                   /\ "TOTAL_TIMER" \notin TimerRef(total, "TOTAL_TIMER", caller)
    BY <1>3, <1>4, <2>1
  <2>3. QED
    BY <1>1, <1>2, <1>4, <2>2 DEF TimerRef, Stopped, TimerStates, NullTimer
<1>9. "INT_TIMER" \in left <=> Stopped(interval) # "off"
  <2>1. "INT_TIMER" \notin CancelRef(cancelMark[r], caller)
                            \cup TimerRef(total, "TOTAL_TIMER", caller)
    BY DEF CancelRef, TimerRef
  <2>2. "INT_TIMER" \in left <=> /\ "INT_TIMER" \in refs[r]
                                 /\ "INT_TIMER" \notin TimerRef(interval, "INT_TIMER", caller)
    BY <1>3, <1>4, <2>1
  <2>3. QED
    BY <1>1, <1>2, <1>4, <2>2 DEF TimerRef, Stopped, TimerStates, NullTimer
<1>10. QED
  BY <1>5, <1>6, <1>7, <1>8, <1>9 DEF r

\* Either the current read goes on, with the references that are left, or it is
\* completed, and the next request of the queue is started.
LEMMA TryToCompletePreserves ==
  ASSUME PInv, NEW grab \in BOOLEAN, NEW final, NEW caller, NEW interval, NEW total,
         Calls(grab, caller, interval, total),
         NEW q \in Seq(Req), Distinct(q), QueueSet(q) \subseteq QueueSet(readQueue),
         NEW outcome, DOMAIN outcome = Req,
         \A r \in QueueSet(q) : outcome[r] = "pending",
         outcome[currentReadRequest] = "pending",
         \A r \in Req : status[r] \in Done => outcome[r] = status[r],
         NEW back \in {"idle", "purge"},
         TryToComplete(grab, final, caller, interval, total, q, outcome, back)
  PROVE  PInv' /\ Untouched
<1> DEFINE r == currentReadRequest
           mine == IF grab /\ IsrOwnsRead THEN {"ISR"} ELSE {}
           left == RefsLeft(refs[r], caller, mine, cancelMark[r], interval, total)
           held == IF grab /\ IsrOwnsRead THEN CharsHeld(r) ELSE information[r]
<1>1. /\ r \in Req /\ Started /\ r \notin QueueSet(q)
      /\ status[r] = "pending" /\ r \in Reads /\ pc \notin {"start", "copied", "moved"}
      /\ interval \in TimerStates /\ total \in TimerStates
  BY DEF PInv, RequestTypes, Owned, Phase, Started, Calls, TimerStates
<1>2. /\ left \subseteq RefTypes
      /\ "ISR" \in left <=> completeReadDpc /\ caller # "ISR"
      /\ "CANCEL" \in left <=> Unmarked(cancelMark[r], caller) # "none"
      /\ "TOTAL_TIMER" \in left <=> Stopped(total) # "off"
      /\ "INT_TIMER" \in left <=> Stopped(interval) # "off"
      /\ "XOFF_REF" \notin left
  BY LeftMatchesOwners
<1>3. /\ IF grab /\ IsrOwnsRead THEN SwitchToInterruptBuffer ELSE UNCHANGED ringVars
      /\ refs' = [refs EXCEPT ![r] = left]
      /\ cancelMark' = [cancelMark EXCEPT ![r] = Unmarked(@, caller)]
      /\ intervalTimer' = Stopped(interval) /\ totalTimer' = Stopped(total)
      /\ UNCHANGED userBuffer
  BY DEF TryToComplete
<1>4. \/ /\ left = {} /\ GetNextRequest(q, back)
         /\ information' = [information EXCEPT ![r] = IF final = "CANCELLED" THEN 0 ELSE held]
         /\ status' = [outcome EXCEPT ![r] = final]
      \/ /\ left # {} /\ readQueue' = q /\ pc' = back /\ currentReadRequest' = r
         /\ information' = [information EXCEPT ![r] = held]
         /\ status' = outcome
  BY DEF TryToComplete
<1> HIDE DEF left, held
<1>5. readBufferBase' = InterruptReadBuffer
  <2>1. CASE grab /\ IsrOwnsRead
    BY <1>3, <2>1 DEF SwitchToInterruptBuffer
  <2>2. CASE grab /\ ~IsrOwnsRead
    BY <1>3, <2>2 DEF ringVars, IsrOwnsRead
  <2>3. CASE ~grab
    BY <1>3, <2>3 DEF ringVars, Calls, PInv, RefsMatchOwners
  <2>4. QED
    BY <2>1, <2>2, <2>3
<1>6. /\ refs' \in [Req -> SUBSET RefTypes]
      /\ intervalTimer' \in TimerStates /\ totalTimer' \in TimerStates
      /\ DOMAIN information' = Req /\ DOMAIN userBuffer' = Req
      /\ completeReadDpc' = (completeReadDpc /\ caller # "ISR")
  BY <1>1, <1>2, <1>3, <1>4 DEF PInv, RequestTypes, Stopped, TimerStates, Calls
<1>7. cancelMark' \in [Req -> CancelStates]
  BY <1>1, <1>3 DEF PInv, RequestTypes, Unmarked, CancelStates
<1>8. completeReadDpc' \in BOOLEAN
  BY <1>6
<1>9. \A s \in Req : s # r => refs'[s] = {} /\ cancelMark'[s] = "none"
  BY <1>1, <1>3 DEF PInv, RefsMatchOwners
<1>10. refs'[r] = left /\ cancelMark'[r] = Unmarked(cancelMark[r], caller)
  BY <1>1, <1>3 DEF PInv, RequestTypes
<1>11. Untouched
  <2>1. \A s \in Req : status[s] \in Done => s # r
    BY <1>1 DEF Done
  <2>2. \A s \in Req : s # r => status'[s] = outcome[s] /\ information'[s] = information[s]
    BY <1>1, <1>4 DEF PInv, RequestTypes
  <2>3. QED
    BY <1>3, <2>1, <2>2 DEF Untouched
<1>12. CASE left = {}
  <2>1. NoRefs'
    <3>1. Unmarked(cancelMark[r], caller) = "none" /\ ~(completeReadDpc /\ caller # "ISR")
      BY <1>2, <1>12
    <3>2. totalTimer' = "off" /\ intervalTimer' = "off"
      BY <1>2, <1>3, <1>12
    <3>3. ~completeReadDpc'
      BY <1>6, <3>1
    <3>4. \A s \in Req : refs'[s] = {} /\ cancelMark'[s] = "none"
      BY <1>9, <1>10, <1>12, <3>1
    <3>5. QED
      BY <1>5, <3>2, <3>3, <3>4 DEF NoRefs
  <2>2. /\ GetNextRequest(q, back) /\ status' = [outcome EXCEPT ![currentReadRequest] = final]
    BY <1>4, <1>12
  <2>3. /\ Owned' /\ Phase' /\ RefsMatchOwners'
        /\ currentReadRequest' \in Req \cup {NoReq} /\ readQueue' \in Seq(Req)
        /\ DOMAIN status' = Req /\ pc' \in {"idle", "start", "purge"}
    BY <1>1, <2>1, <2>2, EndOfCurrent
  <2>4. RequestTypes'
    BY <1>6, <1>7, <1>8, <2>3 DEF RequestTypes
  <2>5. QED
    BY <1>11, <2>3, <2>4 DEF PInv
<1>13. CASE left # {}
  <2>1. /\ readQueue' = q /\ pc' = back /\ currentReadRequest' = r /\ status' = outcome
    BY <1>4, <1>13
  <2>2. RequestTypes'
    BY <1>1, <1>6, <1>7, <1>8, <2>1 DEF RequestTypes
  <2>3. Owned'
    BY <1>1, <2>1 DEF Owned
  <2>4. Started'
    BY <1>1, <2>1 DEF Started
  <2>5. Phase'
    BY <1>1, <2>1 DEF Phase, Started
  <2>6. RefsMatchOwners'
    <3>1. "ISR" \in left <=> completeReadDpc'
      BY <1>2, <1>6
    <3>2. "TOTAL_TIMER" \in left <=> totalTimer' # "off"
      BY <1>2, <1>3
    <3>3. "INT_TIMER" \in left <=> intervalTimer' # "off"
      BY <1>2, <1>3
    <3>4. pc' # "expired"
      BY <2>1
    <3>5. QED
      BY <1>2, <1>5, <1>9, <1>10, <1>13, <2>1, <2>4, <3>1, <3>2, <3>3, <3>4
         DEF RefsMatchOwners
  <2>7. QED
    BY <1>11, <2>2, <2>3, <2>5, <2>6 DEF PInv
<1>14. QED
  BY <1>12, <1>13

-----------------------------------------------------------------------------
(* The steps of the ISR.                                                   *)

LEMMA IsrPreserves ==
  ASSUME PInv, ISR
  PROVE  PInv' /\ Untouched
<1>1. CASE PutCharInUserBuffer
  <2> DEFINE r == currentReadRequest
  <2>1. /\ readBufferBase = r /\ Started /\ r \in Req /\ status[r] = "pending"
        /\ readBufferBase # InterruptReadBuffer /\ ~completeReadDpc /\ "ISR" \in refs[r]
    BY <1>1 DEF PutCharInUserBuffer, PInv, RequestTypes, Owned, RefsMatchOwners, Started,
       InterruptReadBuffer
  <2>2. /\ UNCHANGED <<currentReadRequest, readQueue, status, refs, cancelMark,
                       totalTimer, intervalTimer, pc>>
        /\ userBuffer' = [userBuffer EXCEPT ![r][currentCharSlot] = arrived + 1]
        /\ \/ /\ readBufferBase' = InterruptReadBuffer /\ completeReadDpc' = TRUE
              /\ information' = [information EXCEPT ![r] = length[r]]
           \/ UNCHANGED <<readBufferBase, completeReadDpc, information>>
    BY <1>1, <2>1 DEF PutCharInUserBuffer, SwitchToInterruptBuffer, timerVars
  <2>3. RequestTypes'
    BY <2>2 DEF PInv, RequestTypes
  <2>4. Owned'
    BY <2>2 DEF PInv, Owned
  <2>5. Phase'
    BY <2>2 DEF PInv, Phase, Started
  <2>6. RefsMatchOwners'
    BY <2>1, <2>2 DEF PInv, RefsMatchOwners, Started
  <2>7. Untouched
    BY <2>1, <2>2 DEF Untouched, PInv, RequestTypes, Done
  <2>8. QED
    BY <2>3, <2>4, <2>5, <2>6, <2>7 DEF PInv
<1>2. CASE PutCharInInterruptBuffer
  <2>1. UNCHANGED <<currentReadRequest, readQueue, status, information, userBuffer,
                    refs, cancelMark, totalTimer, intervalTimer, completeReadDpc,
                    readBufferBase, pc>>
    BY <1>2 DEF PutCharInInterruptBuffer, requestVars, timerVars
  <2>2. QED
    BY <2>1, QuietStep
<1>3. CASE PutCharOverrun
  <2>1. UNCHANGED <<currentReadRequest, readQueue, status, information, userBuffer,
                    refs, cancelMark, totalTimer, intervalTimer, completeReadDpc,
                    readBufferBase, pc>>
    BY <1>3 DEF PutCharOverrun, requestVars, timerVars
  <2>2. QED
    BY <2>1, QuietStep
<1>4. CASE LineError
  <2>1. UNCHANGED <<currentReadRequest, readQueue, status, information, userBuffer,
                    refs, cancelMark, totalTimer, intervalTimer, completeReadDpc,
                    readBufferBase, pc>>
    BY <1>4 DEF LineError, ringVars, requestVars, timerVars
  <2>2. QED
    BY <2>1, QuietStep
<1>5. QED
  BY <1>1, <1>2, <1>3, <1>4 DEF ISR

-----------------------------------------------------------------------------
(* The client's calls.                                                     *)

\* SerialStartOrQueue: a request nobody had yet becomes current or is queued.
LEMMA StartOrQueuePreserves ==
  ASSUME PInv, NEW r \in Req, status[r] = "unused", pc = "idle",
         StartOrQueue(r),
         UNCHANGED <<information, userBuffer, refs, cancelMark, totalTimer,
                     intervalTimer, completeReadDpc, readBufferBase>>
  PROVE  PInv' /\ Untouched
<1>1. /\ r \notin QueueSet(readQueue) /\ r # currentReadRequest /\ r # NoReq
      /\ QueueSet(readQueue) \subseteq Req
  BY ReqAssumption DEF PInv, Owned, RequestTypes, QueueSet
<1>2. status' = [status EXCEPT ![r] = "pending"]
  BY DEF StartOrQueue
<1>3. Untouched
  BY <1>2 DEF Untouched, PInv, RequestTypes, Done
<1>4. CASE readQueue = << >> /\ currentReadRequest = NoReq
  <2>1. currentReadRequest' = r /\ pc' = "start" /\ readQueue' = readQueue
    BY <1>4 DEF StartOrQueue
  <2>2. NoRefs /\ QueueSet(readQueue) = {}
    BY <1>4, NotStartedNoRefs DEF Started, QueueSet
  <2>3. RequestTypes'
    BY <1>2, <2>1 DEF PInv, RequestTypes
  <2>4. Owned'
    BY <1>2, <2>1, <2>2 DEF PInv, Owned, RequestTypes
  <2>5. Phase' /\ RefsMatchOwners'
    BY <1>1, <2>1, <2>2 DEF Phase, RefsMatchOwners, Started, NoRefs
  <2>6. QED
    BY <1>3, <2>3, <2>4, <2>5 DEF PInv
<1>5. CASE ~(readQueue = << >> /\ currentReadRequest = NoReq)
  <2>1. /\ currentReadRequest' = currentReadRequest /\ pc' = pc
        /\ readQueue' = Append(readQueue, r)
    BY <1>5 DEF StartOrQueue
  <2>2. /\ Append(readQueue, r) \in Seq(Req) /\ Distinct(Append(readQueue, r))
        /\ QueueSet(Append(readQueue, r)) = QueueSet(readQueue) \cup {r}
    BY <1>1, QueueAppend DEF PInv, RequestTypes, Owned
  <2>3. RequestTypes'
    BY <1>2, <2>1, <2>2 DEF PInv, RequestTypes
  <2>4. Owned'
    BY <1>1, <1>2, <2>1, <2>2 DEF PInv, Owned, RequestTypes
  <2>5. Phase' /\ RefsMatchOwners'
    BY <2>1 DEF PInv, Phase, RefsMatchOwners, Started
  <2>6. QED
    BY <1>3, <2>3, <2>4, <2>5 DEF PInv
<1>6. QED
  BY <1>4, <1>5

\* Its dispatch routine completes it.
LEMMA CompleteAtOncePreserves ==
  ASSUME PInv, NEW r \in Req, status[r] = "unused", NEW final,
         CompleteAtOnce(r, final),
         UNCHANGED <<information, userBuffer, refs, cancelMark, totalTimer,
                     intervalTimer, completeReadDpc, readBufferBase>>
  PROVE  PInv' /\ Untouched
<1>1. /\ r \notin QueueSet(readQueue) /\ r # currentReadRequest
      /\ QueueSet(readQueue) \subseteq Req
  BY ReqAssumption DEF PInv, Owned, RequestTypes, QueueSet
<1>2. /\ status' = [status EXCEPT ![r] = final]
      /\ UNCHANGED <<currentReadRequest, readQueue, pc>>
  BY DEF CompleteAtOnce
<1>3. RequestTypes'
  BY <1>2 DEF PInv, RequestTypes
<1>4. Owned'
  BY <1>1, <1>2 DEF PInv, Owned, RequestTypes
<1>5. Phase' /\ RefsMatchOwners'
  BY <1>2 DEF PInv, Phase, RefsMatchOwners, Started
<1>6. Untouched
  BY <1>2 DEF Untouched, PInv, RequestTypes, Done
<1>7. QED
  BY <1>3, <1>4, <1>5, <1>6 DEF PInv

LEMMA EvtIoReadPreserves ==
  ASSUME PInv, NEW r \in Reads, NEW n \in Lens, EvtIoRead(r, n)
  PROVE  PInv' /\ Untouched
<1>1. r \in Req /\ status[r] = "unused" /\ pc = "idle"
  BY DEF EvtIoRead, Sends, Req
<1>2. UNCHANGED <<information, userBuffer, refs, cancelMark, totalTimer,
                  intervalTimer, completeReadDpc, readBufferBase>>
  BY DEF EvtIoRead, timerVars, isrVars, ringVars
<1>3. StartOrQueue(r) \/ CompleteAtOnce(r, "CANCELLED")
  BY DEF EvtIoRead
<1>4. QED
  BY <1>1, <1>2, <1>3, StartOrQueuePreserves, CompleteAtOncePreserves

LEMMA SetQueueSizePreserves ==
  ASSUME PInv, NEW r \in Resizes, NEW n \in Sizes, SetQueueSize(r, n)
  PROVE  PInv' /\ Untouched
<1>1. r \in Req /\ status[r] = "unused" /\ pc = "idle"
  BY DEF SetQueueSize, Sends, Req
<1>2. UNCHANGED <<information, userBuffer, refs, cancelMark, totalTimer,
                  intervalTimer, completeReadDpc, readBufferBase>>
  BY DEF SetQueueSize, timerVars, isrVars, ringVars
<1>3. \E final \in Done : StartOrQueue(r) \/ CompleteAtOnce(r, final)
  BY DEF SetQueueSize, Done
<1>4. QED
  BY <1>1, <1>2, <1>3, StartOrQueuePreserves, CompleteAtOncePreserves

LEMMA CancelPreserves ==
  ASSUME PInv, NEW r \in Req, Cancel(r)
  PROVE  PInv' /\ Untouched
<1>1. /\ cancelMark' = [cancelMark EXCEPT ![r] = IF @ = "cancelable" THEN "dispatched" ELSE @]
      /\ UNCHANGED <<currentReadRequest, readQueue, status, information, userBuffer, refs,
                     totalTimer, intervalTimer, completeReadDpc, readBufferBase, pc>>
  BY DEF Cancel, timerVars, isrVars, ringVars
<1>2. \A s \in Req : (cancelMark'[s] = "none") <=> (cancelMark[s] = "none")
  BY <1>1 DEF PInv, RequestTypes
<1>3. RequestTypes'
  BY <1>1 DEF PInv, RequestTypes, CancelStates
<1>4. Owned' /\ Phase' /\ Untouched
  BY <1>1 DEF PInv, Owned, Phase, Started, Untouched
<1>5. RefsMatchOwners'
  <2>1. Started => currentReadRequest \in Req
    BY DEF PInv, RequestTypes, Started
  <2>2. QED
    BY <1>1, <1>2, <2>1 DEF PInv, RefsMatchOwners, Started
<1>6. QED
  BY <1>3, <1>4, <1>5 DEF PInv

LEMMA EvtCanceledOnQueuePreserves ==
  ASSUME PInv, NEW r \in Req, EvtCanceledOnQueue(r)
  PROVE  PInv' /\ Untouched
<1>1. /\ status' = [status EXCEPT ![r] = "CANCELLED"]
      /\ UNCHANGED <<currentReadRequest, information, userBuffer, refs, cancelMark,
                     totalTimer, intervalTimer, completeReadDpc, readBufferBase, pc>>
  BY DEF EvtCanceledOnQueue, timerVars, isrVars, ringVars
<1>2. PICK i \in DOMAIN readQueue :
        /\ readQueue[i] = r
        /\ readQueue' = SubSeq(readQueue, 1, i - 1) \o SubSeq(readQueue, i + 1, Len(readQueue))
  BY DEF EvtCanceledOnQueue
<1>3. /\ readQueue' \in Seq(Req) /\ Distinct(readQueue')
      /\ QueueSet(readQueue') \subseteq QueueSet(readQueue) /\ r \notin QueueSet(readQueue')
  <2>1. readQueue \in Seq(Req) /\ Distinct(readQueue)
    BY DEF PInv, RequestTypes, Owned
  <2>2. QED
    BY <1>2, <2>1, QueueRemove
<1>4. r # currentReadRequest /\ status[r] = "pending" /\ QueueSet(readQueue) \subseteq Req
  BY <1>2 DEF PInv, RequestTypes, Owned, QueueSet
<1>5. RequestTypes'
  BY <1>1, <1>3 DEF PInv, RequestTypes
<1>6. Owned'
  BY <1>1, <1>3, <1>4 DEF PInv, RequestTypes, Owned
<1>7. Phase' /\ RefsMatchOwners'
  BY <1>1 DEF PInv, Phase, RefsMatchOwners, Started
<1>8. Untouched
  BY <1>1, <1>4 DEF Untouched, PInv, RequestTypes, Done
<1>9. QED
  BY <1>5, <1>6, <1>7, <1>8 DEF PInv

\* SerialFlushRequests: a purge of the framework's queue, and of the current read
\* when it can be.
LEMMA FlushPreserves ==
  ASSUME PInv, pc = "idle", NEW back \in {"idle", "purge"}, FlushReads(back),
         UNCHANGED completeReadDpc
  PROVE  PInv' /\ Untouched
<1> DEFINE r == currentReadRequest
<1>1. /\ DOMAIN QueuePurged = Req
      /\ \A s \in Req : s \notin QueueSet(readQueue) => QueuePurged[s] = status[s]
      /\ \A s \in Req : status[s] \in Done => QueuePurged[s] = status[s]
  BY DEF QueuePurged, QueueSet, PInv, Owned, Done
<1>2. << >> \in Seq(Req) /\ Distinct(<< >>) /\ QueueSet(<< >>) = {}
  BY DEF Distinct, QueueSet
<1>3. r # NoReq => QueuePurged[r] = "pending" /\ r \in Req
  BY <1>1 DEF PInv, Owned, RequestTypes
<1>4. CASE r # NoReq /\ cancelMark[r] = "cancelable"
  <2>1. CancelCurrentRead(<< >>, QueuePurged, back)
    BY <1>4 DEF FlushReads
  <2>2. TryToComplete(TRUE, "CANCELLED", "CANCEL", intervalTimer, totalTimer,
                      << >>, QueuePurged, back)
    BY <2>1 DEF CancelCurrentRead
  <2>3. Calls(TRUE, "CANCEL", intervalTimer, totalTimer)
    BY <1>3, <1>4 DEF Calls, PInv, RequestTypes, RefsMatchOwners, Started
  <2>4. \A s \in QueueSet(<< >>) : QueuePurged[s] = "pending"
    BY <1>2
  <2>5. QueueSet(<< >>) \subseteq QueueSet(readQueue)
    BY <1>2
  <2>6. QED
    BY <1>1, <1>2, <1>3, <1>4, <2>2, <2>3, <2>4, <2>5, TryToCompletePreserves
<1>5. CASE ~(r # NoReq /\ cancelMark[r] = "cancelable")
  <2>1. /\ status' = QueuePurged /\ readQueue' = << >> /\ pc' = back
        /\ UNCHANGED <<currentReadRequest, information, userBuffer, refs, cancelMark,
                       totalTimer, intervalTimer, readBufferBase>>
    BY <1>5 DEF FlushReads, timerVars, ringVars
  <2>2. RequestTypes'
    BY <1>1, <1>2, <2>1 DEF PInv, RequestTypes
  <2>3. Owned'
    BY <1>2, <1>3, <2>1 DEF Owned
  <2>4. Phase' /\ RefsMatchOwners'
    BY <2>1 DEF PInv, Phase, RefsMatchOwners, Started
  <2>5. Untouched
    BY <1>1, <2>1 DEF Untouched
  <2>6. QED
    BY <2>2, <2>3, <2>4, <2>5 DEF PInv
<1>6. QED
  BY <1>4, <1>5

LEMMA PurgeInterruptBuffPreserves ==
  ASSUME PInv, PurgeInterruptBuff
  PROVE  PInv' /\ Untouched
<1>1. /\ pc \in {"idle", "purge"} /\ pc' = "idle" /\ readBufferBase' = readBufferBase
      /\ UNCHANGED <<currentReadRequest, readQueue, status, information, userBuffer, refs,
                     cancelMark, totalTimer, intervalTimer, completeReadDpc>>
  BY DEF PurgeInterruptBuff, SwitchToInterruptBuffer, requestVars, timerVars, isrVars, ringVars
<1>2. RequestTypes' /\ Owned' /\ Phase' /\ RefsMatchOwners' /\ Untouched
  BY <1>1 DEF PInv, RequestTypes, Owned, Phase, RefsMatchOwners, Started, Untouched
<1>3. QED
  BY <1>2 DEF PInv

LEMMA ClientPreserves ==
  ASSUME PInv, Client
  PROVE  PInv' /\ Untouched
<1>1. CASE \E r \in Reads, n \in Lens : EvtIoRead(r, n)
  BY <1>1, EvtIoReadPreserves
<1>2. CASE \E r \in Resizes, n \in Sizes : SetQueueSize(r, n)
  BY <1>2, SetQueueSizePreserves
<1>3. CASE \E r \in Req : Cancel(r) \/ EvtCanceledOnQueue(r)
  BY <1>3, CancelPreserves, EvtCanceledOnQueuePreserves
<1>4. CASE \E clear \in BOOLEAN : PurgeAbort(clear)
  <2>1. /\ pc = "idle" /\ UNCHANGED completeReadDpc
        /\ \E back \in {"idle", "purge"} : FlushReads(back)
    BY <1>4 DEF PurgeAbort
  <2>2. QED
    BY <2>1, FlushPreserves
<1>5. CASE PurgeInterruptBuff
  BY <1>5, PurgeInterruptBuffPreserves
<1>6. CASE GetCommStatus
  <2>1. UNCHANGED <<currentReadRequest, readQueue, status, information, userBuffer,
                    refs, cancelMark, totalTimer, intervalTimer, completeReadDpc,
                    readBufferBase, pc>>
    BY <1>6 DEF GetCommStatus, ringVars, requestVars, timerVars
  <2>2. QED
    BY <2>1, QuietStep
<1>7. QED
  BY <1>1, <1>2, <1>3, <1>4, <1>5, <1>6 DEF Client

-----------------------------------------------------------------------------
(* The steps of the lock holder.                                           *)

\* A request that is not started, or not any more, is completed.
LEMMA EndUnstarted ==
  ASSUME PInv, pc \in {"start", "copied", "moved"},
         status' = [status EXCEPT ![currentReadRequest] = "SUCCESS"],
         GetNextRequest(readQueue, "idle"), NoRefs',
         refs' \in [Req -> SUBSET RefTypes],
         UNCHANGED <<userBuffer, cancelMark, totalTimer, intervalTimer, completeReadDpc>>,
         DOMAIN information' = Req,
         \A r \in Req : r # currentReadRequest => information'[r] = information[r]
  PROVE  PInv' /\ Untouched
<1>1. /\ currentReadRequest \in Req /\ status[currentReadRequest] = "pending"
      /\ readQueue \in Seq(Req) /\ Distinct(readQueue)
      /\ currentReadRequest \notin QueueSet(readQueue)
      /\ DOMAIN status = Req /\ \A r \in QueueSet(readQueue) : status[r] = "pending"
  BY DEF PInv, Phase, RequestTypes, Owned
<1>2. /\ Owned' /\ Phase' /\ RefsMatchOwners'
      /\ currentReadRequest' \in Req \cup {NoReq} /\ readQueue' \in Seq(Req)
      /\ DOMAIN status' = Req /\ pc' \in {"idle", "start", "purge"}
  BY <1>1, EndOfCurrent
<1>3. RequestTypes'
  BY <1>2 DEF PInv, RequestTypes
<1>4. Untouched
  BY <1>1 DEF Untouched, Done
<1>5. QED
  BY <1>2, <1>3, <1>4 DEF PInv

LEMMA StartReadPreserves ==
  ASSUME PInv, StartRead
  PROVE  PInv' /\ Untouched
<1> DEFINE r == currentReadRequest
           n == CharsToGet(charsInInterruptBuffer, length[r])
<1>1. /\ NoRefs /\ r \in Req /\ status[r] = "pending" /\ r \in Reads /\ r # NoReq
      /\ pc = "start"
  BY NotStartedNoRefs, ReqAssumption DEF StartRead, Started, PInv, Owned, Req
<1>2. /\ userBuffer' = [userBuffer EXCEPT ![r] = Copied(@, 0, n)]
      /\ information' = [information EXCEPT ![r] = @ + n]
      /\ totalTimer' = Stopped(totalTimer) /\ intervalTimer' = Stopped(intervalTimer)
      /\ pc' = "copied"
      /\ UNCHANGED <<readBufferBase, completeReadDpc, currentReadRequest, readQueue,
                     status, refs, cancelMark>>
  BY DEF StartRead, isrVars
<1>3. totalTimer' = "off" /\ intervalTimer' = "off"
  BY <1>1, <1>2 DEF NoRefs, Stopped
<1> HIDE DEF n
<1>4. RequestTypes'
  BY <1>2, <1>3 DEF PInv, RequestTypes, TimerStates
<1>5. Owned' /\ Phase'
  BY <1>1, <1>2 DEF PInv, Owned, Phase, Started
<1>6. RefsMatchOwners'
  BY <1>1, <1>2, <1>3 DEF RefsMatchOwners, Started, NoRefs
<1>7. Untouched
  BY <1>1, <1>2 DEF Untouched, PInv, RequestTypes, Done
<1>8. QED
  BY <1>4, <1>5, <1>6, <1>7 DEF PInv

LEMMA FinishReadAtOncePreserves ==
  ASSUME PInv, FinishReadAtOnce
  PROVE  PInv' /\ Untouched
<1>1. NoRefs /\ pc = "copied"
  BY NotStartedNoRefs DEF FinishReadAtOnce, Started
<1>2. /\ status' = [status EXCEPT ![currentReadRequest] = "SUCCESS"]
      /\ GetNextRequest(readQueue, "idle")
      /\ UNCHANGED <<information, userBuffer, refs, cancelMark, totalTimer, intervalTimer,
                     completeReadDpc, readBufferBase>>
  BY DEF FinishReadAtOnce, isrVars, timerVars
<1>3. NoRefs'
  BY <1>1, <1>2 DEF NoRefs
<1>4. refs' \in [Req -> SUBSET RefTypes] /\ DOMAIN information' = Req
  BY <1>2 DEF PInv, RequestTypes
<1>5. QED
  BY <1>1, <1>2, <1>3, <1>4, EndUnstarted

\* The references of a read that is handed over to the ISR: one for each party
\* that is set up, and no timer was left from an earlier read.
LEMMA UpdateAndSwitchToUserPreserves ==
  ASSUME PInv, UpdateAndSwitchToUser
  PROVE  PInv' /\ Untouched
<1> DEFINE r == currentReadRequest
           wanted == IF plan.crunch THEN 1 ELSE length[r]
           needed == IF plan.crunch THEN 1 ELSE numberNeededForRead
           available == charsInInterruptBuffer - charsCopied
           n == CharsToGet(available, needed)
           got == information[r] + n
           set == {"ISR", "CANCEL"}
                    \cup (IF plan.total /\ totalTimer # "set" THEN {"TOTAL_TIMER"} ELSE {})
                    \cup (IF plan.interval /\ intervalTimer # "set" THEN {"INT_TIMER"} ELSE {})
<1>1. /\ NoRefs /\ pc = "copied" /\ r \in Reads /\ r \in Req /\ r # NoReq
      /\ status[r] = "pending"
  BY NotStartedNoRefs, ReqAssumption
     DEF UpdateAndSwitchToUser, Started, PInv, Phase, Req, Owned
<1>2. /\ userBuffer' = [userBuffer EXCEPT ![r] = Copied(@, wanted - needed, n)]
      /\ information' = [information EXCEPT ![r] = got]
      /\ UNCHANGED completeReadDpc
  BY DEF UpdateAndSwitchToUser
<1>3. \/ /\ status' = [status EXCEPT ![r] = "SUCCESS"]
         /\ refs' = [refs EXCEPT ![r] = {}]
         /\ GetNextRequest(readQueue, "idle")
         /\ UNCHANGED <<readBufferBase, cancelMark, totalTimer, intervalTimer>>
      \/ /\ readBufferBase' = r
         /\ cancelMark' = [cancelMark EXCEPT ![r] = Marked(cancelled[r])]
         /\ totalTimer' = IF plan.total THEN "set" ELSE totalTimer
         /\ intervalTimer' = IF plan.interval THEN "set" ELSE intervalTimer
         /\ refs' = [refs EXCEPT ![r] = set]
         /\ pc' = "idle"
         /\ UNCHANGED <<status, currentReadRequest, readQueue>>
  BY DEF UpdateAndSwitchToUser, timerVars
<1> HIDE DEF n, got
<1>4. /\ DOMAIN information' = Req /\ DOMAIN userBuffer' = Req
      /\ \A s \in Req : s # r => /\ information'[s] = information[s]
                                 /\ userBuffer'[s] = userBuffer[s]
  BY <1>2 DEF PInv, RequestTypes
<1> HIDE DEF wanted, needed
<1>5. CASE /\ status' = [status EXCEPT ![r] = "SUCCESS"]
           /\ refs' = [refs EXCEPT ![r] = {}]
           /\ GetNextRequest(readQueue, "idle")
           /\ UNCHANGED <<readBufferBase, cancelMark, totalTimer, intervalTimer>>
  <2>1. NoRefs'
    BY <1>1, <1>2, <1>5 DEF NoRefs, PInv, RequestTypes
  <2>2. /\ readQueue \in Seq(Req) /\ Distinct(readQueue) /\ r \notin QueueSet(readQueue)
        /\ DOMAIN status = Req /\ \A s \in QueueSet(readQueue) : status[s] = "pending"
    BY DEF PInv, RequestTypes, Owned
  <2>3. /\ Owned' /\ Phase' /\ RefsMatchOwners'
        /\ currentReadRequest' \in Req \cup {NoReq} /\ readQueue' \in Seq(Req)
        /\ DOMAIN status' = Req /\ pc' \in {"idle", "start", "purge"}
    BY <1>1, <1>5, <2>1, <2>2, EndOfCurrent
  <2>4. RequestTypes'
    BY <1>2, <1>4, <1>5, <2>3 DEF PInv, RequestTypes
  <2>5. Untouched
    BY <1>1, <1>4, <1>5 DEF Untouched, Done
  <2>6. QED
    BY <2>3, <2>4, <2>5 DEF PInv
<1>6. CASE /\ readBufferBase' = r
           /\ cancelMark' = [cancelMark EXCEPT ![r] = Marked(cancelled[r])]
           /\ totalTimer' = IF plan.total THEN "set" ELSE totalTimer
           /\ intervalTimer' = IF plan.interval THEN "set" ELSE intervalTimer
           /\ refs' = [refs EXCEPT ![r] = set]
           /\ pc' = "idle"
           /\ UNCHANGED <<status, currentReadRequest, readQueue>>
  <2>1. /\ totalTimer = "off" /\ intervalTimer = "off" /\ ~completeReadDpc
        /\ Marked(cancelled[r]) \in CancelStates /\ Marked(cancelled[r]) # "none"
        /\ set \subseteq RefTypes
    BY <1>1 DEF NoRefs, Marked, CancelStates, RefTypes
  <2>2. /\ "ISR" \in set /\ "CANCEL" \in set /\ "XOFF_REF" \notin set
        /\ "TOTAL_TIMER" \in set <=> plan.total
        /\ "INT_TIMER" \in set <=> plan.interval
    BY <2>1
  <2>3. /\ refs' \in [Req -> SUBSET RefTypes] /\ cancelMark' \in [Req -> CancelStates]
        /\ refs'[r] = set /\ cancelMark'[r] = Marked(cancelled[r])
        /\ \A s \in Req : s # r => refs'[s] = {} /\ cancelMark'[s] = "none"
    BY <1>1, <1>6, <2>1 DEF NoRefs, PInv, RequestTypes
  <2> HIDE DEF set
  <2>4. RequestTypes'
    BY <1>2, <1>4, <1>6, <2>1, <2>3 DEF PInv, RequestTypes, TimerStates
  <2>5. Owned' /\ Phase'
    BY <1>1, <1>6 DEF PInv, Owned, Phase, Started
  <2>6. "TOTAL_TIMER" \in set <=> totalTimer' # "off"
    BY <1>6, <2>1, <2>2
  <2>7. "INT_TIMER" \in set <=> intervalTimer' # "off"
    BY <1>6, <2>1, <2>2
  <2>8. RefsMatchOwners'
    BY <1>1, <1>2, <1>6, <2>1, <2>2, <2>3, <2>6, <2>7
       DEF RefsMatchOwners, Started, InterruptReadBuffer
  <2>9. Untouched
    BY <1>1, <1>4, <1>6 DEF Untouched, Done
  <2>10. QED
    BY <2>4, <2>5, <2>8, <2>9 DEF PInv
<1>7. QED
  BY <1>3, <1>5, <1>6

LEMMA ResizeNotNeededPreserves ==
  ASSUME PInv, ResizeNotNeeded
  PROVE  PInv' /\ Untouched
<1>1. NoRefs /\ pc = "start"
  BY NotStartedNoRefs DEF ResizeNotNeeded, Started
<1>2. /\ status' = [status EXCEPT ![currentReadRequest] = "SUCCESS"]
      /\ GetNextRequest(readQueue, "idle")
      /\ UNCHANGED <<information, userBuffer, refs, cancelMark, totalTimer, intervalTimer,
                     completeReadDpc, readBufferBase>>
  BY DEF ResizeNotNeeded, ringVars, isrVars, timerVars
<1>3. NoRefs'
  BY <1>1, <1>2 DEF NoRefs
<1>4. refs' \in [Req -> SUBSET RefTypes] /\ DOMAIN information' = Req
  BY <1>2 DEF PInv, RequestTypes
<1>5. QED
  BY <1>1, <1>2, <1>3, <1>4, EndUnstarted

LEMMA MoveToNewIntBufferPreserves ==
  ASSUME PInv, MoveToNewIntBuffer
  PROVE  PInv' /\ Untouched
<1>1. /\ NoRefs /\ pc = "start" /\ currentReadRequest \in Resizes
      /\ currentReadRequest # NoReq
  BY NotStartedNoRefs DEF MoveToNewIntBuffer, Started, PInv, Phase
<1>2. /\ pc' = "moved"
      /\ UNCHANGED <<currentReadRequest, readQueue, status, information, userBuffer, refs,
                     cancelMark, totalTimer, intervalTimer, completeReadDpc, readBufferBase>>
  BY DEF MoveToNewIntBuffer, isrVars, timerVars
<1>3. RequestTypes' /\ Owned'
  BY <1>2 DEF PInv, RequestTypes, Owned
<1>4. Phase' /\ RefsMatchOwners' /\ Untouched
  BY <1>1, <1>2 DEF Phase, RefsMatchOwners, Started, NoRefs, Untouched
<1>5. QED
  BY <1>3, <1>4 DEF PInv

LEMMA UpdateAndSwitchToNewPreserves ==
  ASSUME PInv, UpdateAndSwitchToNew
  PROVE  PInv' /\ Untouched
<1>1. NoRefs /\ pc = "moved"
  BY NotStartedNoRefs DEF UpdateAndSwitchToNew, Started
<1>2. /\ status' = [status EXCEPT ![currentReadRequest] = "SUCCESS"]
      /\ GetNextRequest(readQueue, "idle") /\ readBufferBase' = InterruptReadBuffer
      /\ UNCHANGED <<information, userBuffer, refs, cancelMark, totalTimer, intervalTimer,
                     completeReadDpc>>
  BY DEF UpdateAndSwitchToNew, isrVars, timerVars
<1>3. NoRefs'
  BY <1>1, <1>2 DEF NoRefs
<1>4. refs' \in [Req -> SUBSET RefTypes] /\ DOMAIN information' = Req
  BY <1>2 DEF PInv, RequestTypes
<1>5. QED
  BY <1>1, <1>2, <1>3, <1>4, EndUnstarted

\* SerialIntervalReadTimeout, when the ISR ran after it had made its decision.
LEMMA IntervalReadTimeoutPreserves ==
  ASSUME PInv, IntervalReadTimeout
  PROVE  PInv' /\ Untouched
<1>1. pc = "expired" /\ Started /\ intervalTimer = "off"
  BY DEF IntervalReadTimeout, PInv, Phase
<1>2. TryToComplete(TRUE, "TIMEOUT", "INT_TIMER", intervalTimer, totalTimer,
                    readQueue, status, "idle")
  BY DEF IntervalReadTimeout
<1>3. Calls(TRUE, "INT_TIMER", intervalTimer, totalTimer)
  BY <1>1 DEF Calls, PInv, RequestTypes, RefsMatchOwners, IntervalReadTimeout
<1>4. /\ readQueue \in Seq(Req) /\ Distinct(readQueue) /\ DOMAIN status = Req
      /\ \A r \in QueueSet(readQueue) : status[r] = "pending"
      /\ status[currentReadRequest] = "pending"
  BY <1>1 DEF PInv, RequestTypes, Owned, Started
<1>5. QED
  BY <1>2, <1>3, <1>4, TryToCompletePreserves

LEMMA ContinuePreserves ==
  ASSUME PInv, Continue
  PROVE  PInv' /\ Untouched
  BY StartReadPreserves, FinishReadAtOncePreserves, UpdateAndSwitchToUserPreserves,
     ResizeNotNeededPreserves, MoveToNewIntBufferPreserves, UpdateAndSwitchToNewPreserves,
     PurgeInterruptBuffPreserves, IntervalReadTimeoutPreserves DEF Continue

-----------------------------------------------------------------------------
(* The callbacks.                                                          *)

\* Whoever comes back for the current read on his own.
LEMMA CallbackCompletes ==
  ASSUME PInv, NEW grab \in BOOLEAN, NEW final, NEW caller, NEW interval, NEW total,
         Calls(grab, caller, interval, total),
         TryToComplete(grab, final, caller, interval, total, readQueue, status, "idle")
  PROVE  PInv' /\ Untouched
<1>1. /\ readQueue \in Seq(Req) /\ Distinct(readQueue) /\ DOMAIN status = Req
      /\ \A r \in QueueSet(readQueue) : status[r] = "pending"
      /\ status[currentReadRequest] = "pending"
  BY DEF Calls, PInv, RequestTypes, Owned, Started
<1>2. QED
  BY <1>1, TryToCompletePreserves

LEMMA CallbackPreserves ==
  ASSUME PInv, Callback
  PROVE  PInv' /\ Untouched
<1>1. CASE CompleteRead
  <2>1. Calls(FALSE, "ISR", intervalTimer, totalTimer)
    BY <1>1 DEF CompleteRead, Calls, PInv, RefsMatchOwners
  <2>2. TryToComplete(FALSE, "SUCCESS", "ISR", intervalTimer, totalTimer,
                      readQueue, status, "idle")
    BY <1>1 DEF CompleteRead
  <2>3. QED
    BY <2>1, <2>2, CallbackCompletes
<1>2. CASE CommError
  <2>1. pc = "idle" /\ FlushReads("idle") /\ UNCHANGED completeReadDpc
    BY <1>2 DEF CommError
  <2>2. QED
    BY <2>1, FlushPreserves
<1>3. CASE ReadTimeout
  <2>1. Calls(TRUE, "TOTAL_TIMER", intervalTimer, "off")
    BY <1>3 DEF ReadTimeout, Calls, PInv, RequestTypes, RefsMatchOwners
  <2>2. TryToComplete(TRUE, "TIMEOUT", "TOTAL_TIMER", intervalTimer, "off",
                      readQueue, status, "idle")
    BY <1>3 DEF ReadTimeout
  <2>3. QED
    BY <2>1, <2>2, CallbackCompletes
<1>4. CASE IntervalReadEnded
  <2>1. Calls(TRUE, "INT_TIMER", "off", totalTimer)
    BY <1>4 DEF IntervalReadEnded, Calls, PInv, RequestTypes, RefsMatchOwners
  <2>2. \E final : TryToComplete(TRUE, final, "INT_TIMER", "off", totalTimer,
                                 readQueue, status, "idle")
    BY <1>4 DEF IntervalReadEnded
  <2>3. QED
    BY <2>1, <2>2, CallbackCompletes
<1>5. CASE IntervalReadResumes
  <2>1. /\ intervalTimer = "fired" /\ intervalTimer' = "set"
        /\ UNCHANGED <<currentReadRequest, readQueue, status, information, userBuffer, refs,
                       cancelMark, totalTimer, completeReadDpc, readBufferBase, pc>>
    BY <1>5 DEF IntervalReadResumes, requestVars, ringVars
  <2>2. RequestTypes' /\ Owned' /\ Phase' /\ RefsMatchOwners' /\ Untouched
    BY <2>1 DEF PInv, RequestTypes, Owned, Phase, RefsMatchOwners, Started, Untouched,
       TimerStates
  <2>3. QED
    BY <2>2 DEF PInv
<1>6. CASE IntervalReadExpires
  <2>1. /\ pc = "idle" /\ pc' = "expired"
        /\ intervalTimer = "fired" /\ intervalTimer' = "off"
        /\ UNCHANGED <<currentReadRequest, readQueue, status, information, userBuffer, refs,
                       cancelMark, totalTimer, completeReadDpc, readBufferBase>>
    BY <1>6 DEF IntervalReadExpires, requestVars, ringVars, isrVars
  <2>2. Started
    BY <2>1 DEF PInv, RefsMatchOwners
  <2>3. RequestTypes' /\ Owned' /\ Phase' /\ RefsMatchOwners' /\ Untouched
    BY <2>1, <2>2 DEF PInv, RequestTypes, Owned, Phase, RefsMatchOwners, Started, Untouched,
       TimerStates
  <2>4. QED
    BY <2>3 DEF PInv
<1>7. CASE \E r \in Req : CancelCallback(r)
  <2>1. PICK r \in Req : CancelCallback(r)
    BY <1>7
  <2>2. Started /\ r = currentReadRequest /\ "CANCEL" \in refs[currentReadRequest]
    BY <2>1 DEF CancelCallback, PInv, RefsMatchOwners
  <2>3. Calls(TRUE, "CANCEL", intervalTimer, totalTimer)
    BY <2>1, <2>2 DEF CancelCallback, Calls, PInv, RequestTypes
  <2>4. TryToComplete(TRUE, "CANCELLED", "CANCEL", intervalTimer, totalTimer,
                      readQueue, status, "idle")
    BY <2>1 DEF CancelCallback, CancelCurrentRead
  <2>5. QED
    BY <2>3, <2>4, CallbackCompletes
<1>8. QED
  BY <1>1, <1>2, <1>3, <1>4, <1>5, <1>6, <1>7 DEF Callback

LEMMA TimerPreserves ==
  ASSUME PInv, TotalTimerFires \/ IntervalTimerFires
  PROVE  PInv' /\ Untouched
<1>1. /\ \/ totalTimer = "set" /\ totalTimer' = "fired" /\ UNCHANGED intervalTimer
         \/ intervalTimer = "set" /\ intervalTimer' = "fired" /\ UNCHANGED totalTimer
      /\ UNCHANGED <<currentReadRequest, readQueue, status, information, userBuffer, refs,
                     cancelMark, completeReadDpc, readBufferBase, pc>>
  BY DEF TotalTimerFires, IntervalTimerFires, requestVars, ringVars, isrVars
<1>2. RequestTypes' /\ Owned' /\ Phase' /\ RefsMatchOwners' /\ Untouched
  BY <1>1 DEF PInv, RequestTypes, Owned, Phase, RefsMatchOwners, Started, Untouched,
     TimerStates
<1>3. QED
  BY <1>2 DEF PInv

-----------------------------------------------------------------------------
(* The theorems.                                                           *)

LEMMA InitPInv == Init => PInv
<1> SUFFICES ASSUME Init PROVE PInv
  OBVIOUS
<1>1. RequestTypes
  <2>1. << >> \in Seq(Req)
    OBVIOUS
  <2>2. readQueue = << >> /\ currentReadRequest = NoReq
    BY DEF Init
  <2>3. /\ DOMAIN status = Req /\ DOMAIN information = Req /\ DOMAIN userBuffer = Req
        /\ refs \in [Req -> SUBSET RefTypes] /\ cancelMark \in [Req -> CancelStates]
    BY DEF Init, CancelStates
  <2>4. /\ totalTimer = "off" /\ intervalTimer = "off" /\ completeReadDpc = FALSE
        /\ pc = "idle"
    BY DEF Init
  <2>5. QED
    BY <2>1, <2>2, <2>3, <2>4 DEF RequestTypes, TimerStates
<1>2. Owned /\ Phase /\ RefsMatchOwners
  BY DEF Init, Owned, Phase, RefsMatchOwners, Started, Distinct, QueueSet
<1>3. QED
  BY <1>1, <1>2 DEF PInv

LEMMA NextPInv == PInv /\ [Next]_vars => PInv' /\ Untouched
<1> SUFFICES ASSUME PInv, [Next]_vars PROVE PInv' /\ Untouched
  OBVIOUS
<1>1. CASE Next
  BY <1>1, IsrPreserves, ClientPreserves, ContinuePreserves, CallbackPreserves,
     TimerPreserves, Zenon DEF Next
<1>2. CASE UNCHANGED vars
  <2>1. UNCHANGED <<currentReadRequest, readQueue, status, information, userBuffer,
                    refs, cancelMark, totalTimer, intervalTimer, completeReadDpc,
                    readBufferBase, pc>>
    BY <1>2 DEF vars, requestVars, ringVars, isrVars, timerVars
  <2>2. QED
    BY <2>1, QuietStep
<1>3. QED
  BY <1>1, <1>2

THEOREM SpecPInv == Spec => []PInv
<1>1. PInv /\ [Next]_vars => PInv'
  BY NextPInv
<1>2. QED
  BY <1>1, InitPInv, PTL DEF Spec

\* The references of the current read stand one for one for the parties that will
\* come back for it - the ISR or its DPC, the cancel routine, the two timers - and
\* no other request has any: SerialTryToCompleteCurrent completes a read when, and
\* only when, nobody can touch it any more, whatever the order in which they come.
THEOREM SpecRefsMatchOwners == Spec => []RefsMatchOwners
<1>1. PInv => RefsMatchOwners
  BY DEF PInv
<1>2. QED
  BY <1>1, SpecPInv, PTL

\* A request that was completed is never touched again: not its status, not its
\* length of data, not its buffer, by no ISR, timer, DPC or cancel callback.
THEOREM SpecCompletedIsFinal == Spec => CompletedIsFinal
<1>1. PInv /\ [Next]_vars =>
        [\A r \in Req : status[r] \in Done =>
           /\ status'[r] = status[r] /\ information'[r] = information[r]
           /\ userBuffer'[r] = userBuffer[r] /\ refs'[r] = {}]_vars
  <2> SUFFICES ASSUME PInv, [Next]_vars, NEW r \in Req, status[r] \in Done
               PROVE  /\ status'[r] = status[r] /\ information'[r] = information[r]
                      /\ userBuffer'[r] = userBuffer[r] /\ refs'[r] = {}
    OBVIOUS
  <2>1. PInv' /\ Untouched
    BY NextPInv
  <2>2. status'[r] = status[r] /\ information'[r] = information[r]
        /\ userBuffer'[r] = userBuffer[r]
    BY <2>1 DEF Untouched
  <2>3. r # currentReadRequest'
    BY <2>1, <2>2, ReqAssumption DEF PInv, Owned, Done
  <2>4. refs'[r] = {}
    BY <2>1, <2>3 DEF PInv, RefsMatchOwners
  <2>5. QED
    BY <2>2, <2>4
<1>2. QED
  BY <1>1, SpecPInv, PTL DEF Spec, CompletedIsFinal
=============================================================================
