--------------------------- MODULE WritePath_proofs ---------------------------
(***************************************************************************)
(* Proofs about the request protocol of the write path: who may touch a    *)
(* write, an xoff counter or an immediate character, and that nobody does  *)
(* once it is completed.  For any sets of requests, lengths, counters and  *)
(* timeouts.                                                               *)
(***************************************************************************)
EXTENDS WritePath, SequenceTheorems, TLAPS

\* Each request is in the queue once.
Distinct(q) == \A i, j \in DOMAIN q : q[i] = q[j] => i = j

\* The type invariant, of what the protocol looks at.
SlotTypes ==
  /\ current \in [Slots -> Req \cup {NoReq}] /\ writeQueue \in Seq(Req)
  /\ DOMAIN status = Req /\ DOMAIN information = Req
  /\ length \in [Req -> Nat] /\ xc \in [Req -> [counter : Nat, timeout : BOOLEAN]]
  /\ refs \in [Req -> SUBSET RefTypes] /\ cancelMark \in [Req -> CancelStates]
  /\ cancelRoutine \in [Req -> Slots] /\ cancelled \in [Req -> BOOLEAN]
  /\ writeLength \in Nat /\ countSinceXoff \in Nat /\ transmitImmediate \in BOOLEAN
  /\ completeDpc \in [Slots -> BOOLEAN] /\ timer \in [Slots -> TimerStates]
  /\ pc \in {"idle", "start", "give", "purge"}

\* A request the driver has is in one place, and not completed.
Owned ==
  /\ Distinct(writeQueue)
  /\ \A r \in ToSet(writeQueue) : status[r] = "pending"
  /\ \A s \in Slots : current[s] # NoReq =>
       status[current[s]] = "pending" /\ current[s] \notin ToSet(writeQueue)
  /\ \A s, t \in Slots : current[s] = current[t] => s = t \/ current[s] = NoReq

\* A pending write has characters, a pending counter something to count.
Parameters ==
  /\ \A r \in Writes : status[r] = "pending" => length[r] > 0
  /\ \A r \in XoffReqs : status[r] = "pending" => xc[r].counter > 0

\* The lock holder starts a write only when there is one.
Phase == pc \in {"start", "give"} => current["Write"] # NoReq

\* Who has references: requests that are started, and those the driver has lost.
\* The timer's reference of a counter is only there when the counter has a timeout.
Holders ==
  /\ \A r \in Req :
       /\ refs[r] \subseteq {"ISR", "CANCEL", "TOTAL_TIMER"}
       /\ "CANCEL" \in refs[r] <=> cancelMark[r] # "none"
       /\ refs[r] # {} => \/ r \in Lost
                          \/ \E slot \in Slots : Started(slot) /\ current[slot] = r
  /\ LET r == current["Xoff"] IN
       r # NoReq /\ "TOTAL_TIMER" \in refs[r] => xc[r].timeout

\* Each slot and its parties.
Slotwise ==
  /\ OwnersAgree("Write") /\ OwnersAgree("Immediate")
  /\ Lost = {} => OwnersAgree("Xoff")

\* The inductive invariant.
WInv == SlotTypes /\ Owned /\ Parameters /\ Phase /\ Holders /\ Slotwise

\* A step touches no request that is completed, and never finds a lost one again.
Untouched ==
  /\ \A r \in Req : status[r] \in Done =>
       status'[r] = status[r] /\ information'[r] = information[r]
  /\ Lost \subseteq Lost'
-----------------------------------------------------------------------------
(* Queues.                                                                 *)

\* The head leaves the queue.
LEMMA QueueTail ==
  ASSUME NEW q \in Seq(Req), q # << >>, Distinct(q)
  PROVE  /\ Head(q) \in ToSet(q) /\ Head(q) \notin ToSet(Tail(q))
         /\ Tail(q) \in Seq(Req) /\ Distinct(Tail(q))
         /\ ToSet(Tail(q)) \subseteq ToSet(q) /\ ToSet(q) \subseteq Req
<1>1. /\ Len(q) \in Nat /\ Len(q) >= 1 /\ DOMAIN q = 1 .. Len(q)
      /\ \A i \in 1 .. Len(q) : q[i] \in Req
      /\ Head(q) = q[1]
  OBVIOUS
<1>2. /\ Tail(q) \in Seq(Req) /\ DOMAIN Tail(q) = 1 .. Len(q) - 1
      /\ \A i \in 1 .. Len(q) - 1 : Tail(q)[i] = q[i + 1]
  OBVIOUS
<1> DEFINE t == Tail(q)
<1> HIDE DEF t
<1>3. Head(q) \in ToSet(q) /\ ToSet(q) \subseteq Req
  BY <1>1 DEF ToSet
<1>4. Distinct(t)
  BY <1>1, <1>2 DEF Distinct, t
<1>5. q[1] \notin ToSet(t)
  BY <1>1, <1>2 DEF Distinct, ToSet, t
<1>6. ToSet(t) \subseteq ToSet(q)
  BY <1>1, <1>2 DEF ToSet, t
<1>7. QED
  BY <1>1, <1>2, <1>3, <1>4, <1>5, <1>6 DEF t

\* A request joins it.
LEMMA QueueAppend ==
  ASSUME NEW q \in Seq(Req), Distinct(q), NEW r \in Req, r \notin ToSet(q)
  PROVE  /\ Append(q, r) \in Seq(Req) /\ Distinct(Append(q, r))
         /\ ToSet(Append(q, r)) = ToSet(q) \cup {r}
<1> DEFINE p == Append(q, r)
<1>1. /\ Len(q) \in Nat /\ DOMAIN q = 1 .. Len(q)
      /\ p \in Seq(Req) /\ DOMAIN p = 1 .. Len(q) + 1
      /\ \A i \in 1 .. Len(q) : p[i] = q[i]
      /\ p[Len(q) + 1] = r
  OBVIOUS
<1> HIDE DEF p
<1>2. Distinct(p)
  BY <1>1 DEF Distinct, ToSet
<1>3. ToSet(p) = ToSet(q) \cup {r}
  BY <1>1 DEF ToSet
<1>4. QED
  BY <1>1, <1>2, <1>3 DEF p

\* What is where in a queue without its element i.
LEMMA RemovedAt ==
  ASSUME NEW q \in Seq(Req), NEW i \in DOMAIN q
  PROVE  LET p == RemoveAt(q, i) IN
         /\ p \in Seq(Req) /\ Len(p) = Len(q) - 1
         /\ \A j \in 1 .. Len(q) - 1 : p[j] = IF j < i THEN q[j] ELSE q[j + 1]
<1> DEFINE a == SubSeq(q, 1, i - 1)
           b == SubSeq(q, i + 1, Len(q))
           p == a \o b
<1>1. Len(q) \in Nat /\ DOMAIN q = 1 .. Len(q) /\ i \in 1 .. Len(q)
  OBVIOUS
<1>2. /\ a \in Seq(Req) /\ Len(a) = i - 1
      /\ \A j \in 1 .. i - 1 : a[j] = q[j]
  BY <1>1
<1>3. /\ b \in Seq(Req) /\ Len(b) = Len(q) - i
      /\ \A j \in 1 .. Len(q) - i : b[j] = q[i + j]
  BY <1>1
<1> HIDE DEF a, b
<1>4. /\ p \in Seq(Req) /\ Len(p) = Len(a) + Len(b)
      /\ \A j \in 1 .. Len(a) + Len(b) :
           p[j] = IF j <= Len(a) THEN a[j] ELSE b[j - Len(a)]
  BY <1>2, <1>3, ConcatProperties
<1> HIDE DEF p
<1>5. Len(p) = Len(q) - 1
  BY <1>1, <1>2, <1>3, <1>4
<1>6. ASSUME NEW j \in 1 .. Len(q) - 1
      PROVE  p[j] = IF j < i THEN q[j] ELSE q[j + 1]
  <2>1. j \in 1 .. Len(a) + Len(b)
    BY <1>1, <1>2, <1>3
  <2>2. p[j] = IF j <= Len(a) THEN a[j] ELSE b[j - Len(a)]
    BY <1>4, <2>1
  <2>3. CASE j < i
    <3>1. j \in 1 .. i - 1 /\ j <= Len(a)
      BY <1>1, <1>2, <2>3
    <3>2. QED
      BY <1>1, <1>2, <2>2, <2>3, <3>1
  <2>4. CASE ~(j < i)
    <3>1. j - Len(a) \in 1 .. Len(q) - i /\ ~(j <= Len(a)) /\ i + (j - Len(a)) = j + 1
      BY <1>1, <1>2, <2>4
    <3>2. p[j] = q[j + 1]
      BY <1>3, <2>2, <3>1
    <3>3. QED
      BY <2>4, <3>2
  <2>5. QED
    BY <2>3, <2>4
<1>7. QED
  BY <1>4, <1>5, <1>6 DEF p, a, b, RemoveAt

\* One leaves it from the middle.
LEMMA QueueRemove ==
  ASSUME NEW q \in Seq(Req), Distinct(q), NEW i \in DOMAIN q
  PROVE  LET p == RemoveAt(q, i) IN
         /\ p \in Seq(Req) /\ Distinct(p)
         /\ ToSet(p) \subseteq ToSet(q) /\ q[i] \notin ToSet(p)
<1> DEFINE p == RemoveAt(q, i)
           at(j) == IF j < i THEN j ELSE j + 1
<1>1. Len(q) \in Nat /\ DOMAIN q = 1 .. Len(q) /\ i \in 1 .. Len(q)
  OBVIOUS
<1>2. /\ p \in Seq(Req) /\ Len(p) = Len(q) - 1
      /\ \A j \in 1 .. Len(q) - 1 : p[j] = IF j < i THEN q[j] ELSE q[j + 1]
  BY RemovedAt
<1> HIDE DEF p
<1>3. DOMAIN p = 1 .. Len(q) - 1
  BY <1>2
<1>4. ASSUME NEW j \in DOMAIN p
      PROVE  at(j) \in DOMAIN q /\ at(j) # i /\ p[j] = q[at(j)]
  BY <1>1, <1>2, <1>3
<1>5. ASSUME NEW j \in DOMAIN p, NEW k \in DOMAIN p, at(j) = at(k)
      PROVE  j = k
  BY <1>1, <1>3, <1>5
<1> HIDE DEF at
<1>6. Distinct(p)
  BY <1>4, <1>5 DEF Distinct
<1>7. ToSet(p) \subseteq ToSet(q)
  BY <1>4 DEF ToSet
<1>8. q[i] \notin ToSet(p)
  BY <1>1, <1>4 DEF Distinct, ToSet
<1>9. QED
  BY <1>2, <1>6, <1>7, <1>8 DEF p

-----------------------------------------------------------------------------
(* The shapes of a step.                                                   *)

\* A slot and its parties stay as they are when nothing they look at changes.
LEMMA SlotKept ==
  ASSUME NEW s \in Slots, OwnersAgree(s),
         current'[s] = current[s], Started(s)' <=> Started(s),
         completeDpc'[s] = completeDpc[s], timer'[s] = timer[s],
         IsrHas(s)' <=> IsrHas(s),
         LET r == current[s] IN
         Started(s) => /\ refs'[r] = refs[r] /\ cancelMark'[r] = cancelMark[r]
                       /\ cancelRoutine'[r] = cancelRoutine[r] /\ xc'[r] = xc[r]
  PROVE  OwnersAgree(s)'
<1>1. CASE Started(s)
  <2> DEFINE r == current[s]
  <2>1. /\ current'[s] = r /\ Started(s)'
        /\ refs'[r] = refs[r] /\ cancelMark'[r] = cancelMark[r]
        /\ cancelRoutine'[r] = cancelRoutine[r] /\ xc'[r] = xc[r]
    BY <1>1
  <2> HIDE DEF r
  <2>2. /\ refs[r] # {} /\ refs[r] \subseteq {"ISR", "CANCEL", "TOTAL_TIMER"}
        /\ "ISR" \in refs[r] <=> IsrHas(s) \/ completeDpc[s]
        /\ ~(IsrHas(s) /\ completeDpc[s])
        /\ "CANCEL" \in refs[r] <=> cancelMark[r] # "none"
        /\ cancelMark[r] # "none" => cancelRoutine[r] = s
        /\ timer[s] # "off" => "TOTAL_TIMER" \in refs[r]
        /\ "TOTAL_TIMER" \in refs[r] => timer[s] # "off" \/ (s = "Xoff" /\ xc[r].timeout)
    BY <1>1 DEF OwnersAgree, r
  <2>3. QED
    BY <2>1, <2>2 DEF OwnersAgree
<1>2. CASE ~Started(s)
  BY <1>2 DEF OwnersAgree
<1>3. QED
  BY <1>1, <1>2

\* Requests and parameters, when no request becomes pending.
LEMMA ParametersKept ==
  ASSUME WInv, \A r \in Req : status'[r] = "pending" => status[r] = "pending",
         length' = length, xc' = xc
  PROVE  Parameters'
BY DEF WInv, Parameters, Req

\* The queue and the statuses after a purge, or without one.
LEMMA Purged ==
  ASSUME WInv, NEW purged \in BOOLEAN
  PROVE  /\ QueueAfter(purged) \in Seq(Req) /\ Distinct(QueueAfter(purged))
         /\ ToSet(QueueAfter(purged)) \subseteq ToSet(writeQueue)
         /\ ToSet(writeQueue) \subseteq Req
         /\ DOMAIN StatusAfter(purged) = Req
         /\ \A r \in ToSet(QueueAfter(purged)) : StatusAfter(purged)[r] = "pending"
         /\ \A r \in Req : r \notin ToSet(writeQueue) => StatusAfter(purged)[r] = status[r]
         /\ \A r \in Req : StatusAfter(purged)[r] = "pending" => status[r] = "pending"
         /\ \A r \in Req : status[r] \in Done => StatusAfter(purged)[r] = status[r]
<1>1. writeQueue \in Seq(Req) /\ Distinct(writeQueue) /\ ToSet(writeQueue) \subseteq Req
      /\ DOMAIN status = Req /\ \A r \in ToSet(writeQueue) : status[r] = "pending"
  BY DEF WInv, SlotTypes, Owned, ToSet
<1>2. CASE purged
  <2>1. << >> \in Seq(Req) /\ Distinct(<< >>) /\ ToSet(<< >>) = {}
    BY DEF Distinct, ToSet
  <2>2. QED
    BY <1>1, <1>2, <2>1 DEF QueueAfter, StatusAfter, Done
<1>3. CASE ~purged
  BY <1>1, <1>3 DEF QueueAfter, StatusAfter
<1>4. QED
  BY <1>2, <1>3

\* SerialGetNextWrite, with the next write if there is one.
LEMMA NextWrite ==
  ASSUME WInv, NEW q \in Seq(Req), Distinct(q), NEW xoff, NEW back,
         GetNextWrite(q, xoff, back)
  PROVE  /\ writeQueue' \in Seq(Req) /\ Distinct(writeQueue')
         /\ ToSet(writeQueue') \subseteq ToSet(q)
         /\ \E next \in Req \cup {NoReq} :
              /\ current' = [current EXCEPT !["Write"] = next, !["Xoff"] = xoff]
              /\ next \notin ToSet(writeQueue')
              /\ \/ next = NoReq /\ pc' = back
                 \/ next \in ToSet(q) /\ pc' = "start"
<1>1. ToSet(q) \subseteq Req
  BY DEF ToSet
<1>2. CASE q = << >> \/ queueStopped
  BY <1>1, <1>2, ReqAssumption DEF GetNextWrite
<1>3. CASE ~(q = << >> \/ queueStopped)
  <2>1. /\ current' = [current EXCEPT !["Write"] = Head(q), !["Xoff"] = xoff]
        /\ writeQueue' = Tail(q) /\ pc' = "start"
    BY <1>3 DEF GetNextWrite
  <2>2. q # << >>
    BY <1>3
  <2>3. QED
    BY <1>1, <2>1, <2>2, QueueTail
<1>4. QED
  BY <1>2, <1>3

\* A lost request stays lost.
LEMMA LostStays ==
  ASSUME \A r \in Lost : status'[r] = "pending",
         ToSet(writeQueue') \subseteq ToSet(writeQueue),
         \A slot \in Slots : current'[slot] \in Req =>
           current'[slot] \in ToSet(writeQueue) \cup {current[s] : s \in Slots}
  PROVE  Lost \subseteq Lost'
BY DEF Lost

-----------------------------------------------------------------------------
(* SerialTryToCompleteCurrent.                                             *)

\* What every caller establishes: the slot has a started request, and the caller's
\* own timer or DPC is accounted for.
Calls(slot, grab, caller, total, back) ==
  /\ Started(slot) /\ caller \in {"ISR", "CANCEL", "TOTAL_TIMER", "XOFF_REF"}
  /\ grab <=> caller # "ISR"
  /\ caller = "ISR" => completeDpc[slot]
  /\ completeDpc' = [completeDpc EXCEPT ![slot] = @ /\ caller # "ISR"]
  /\ caller = "TOTAL_TIMER" => timer[slot] = "fired"
  /\ \/ total = timer[slot]
     \/ total = NullTimer /\ slot = "Xoff" /\ caller = "TOTAL_TIMER"
  /\ back \in {"idle", "purge", "give"}
  /\ back = "give" <=> pc \in {"start", "give"}

\* The references that a call leaves.
RefsAfter(slot, grab, caller, total) ==
  RefsLeft(refs[current[slot]], caller, IF grab /\ IsrHas(slot) THEN {"ISR"} ELSE {},
           cancelMark[current[slot]], NullTimer, total)

\* The references of a request after a call, each by itself.
LEMMA RefsAfterCall ==
  ASSUME WInv, NEW slot \in Slots, NEW grab \in BOOLEAN, NEW caller, NEW total, NEW back,
         Calls(slot, grab, caller, total, back),
         NEW left, left = RefsAfter(slot, grab, caller, total)
  PROVE  LET r == current[slot] IN
         /\ left \subseteq refs[r]
         /\ "ISR" \in left <=> "ISR" \in refs[r] /\ caller # "ISR" /\ ~(grab /\ IsrHas(slot))
         /\ "CANCEL" \in left <=> Unmarked(cancelMark[r], caller) # "none"
         /\ "TOTAL_TIMER" \in left <=>
              /\ "TOTAL_TIMER" \in refs[r]
              /\ total # NullTimer => total # "set" /\ caller # "TOTAL_TIMER"
<1> DEFINE r == current[slot]
           mine == IF grab /\ IsrHas(slot) THEN {"ISR"} ELSE {}
           own == IF caller \in {"ISR", "XOFF_REF"} THEN {caller} ELSE {}
<1>1. r \in Req /\ cancelMark[r] \in CancelStates
  BY DEF WInv, SlotTypes, Calls, Started
<1>2. "CANCEL" \in refs[r] <=> cancelMark[r] # "none"
  BY <1>1 DEF WInv, Holders
<1>3. left = (refs[r] \ (own \cup mine))
               \ (CancelRef(cancelMark[r], caller)
                    \cup TimerRef(NullTimer, "INT_TIMER", caller)
                    \cup TimerRef(total, "TOTAL_TIMER", caller))
  BY DEF RefsAfter, RefsLeft, RundownIrpRefs
<1>4. /\ TimerRef(NullTimer, "INT_TIMER", caller) = {}
      /\ CancelRef(cancelMark[r], caller) \subseteq {"CANCEL"}
      /\ TimerRef(total, "TOTAL_TIMER", caller) \subseteq {"TOTAL_TIMER"}
      /\ mine \subseteq {"ISR"} /\ own \subseteq {"ISR", "XOFF_REF"}
  BY DEF TimerRef, CancelRef
<1>5. "ISR" \in own \cup mine <=> caller = "ISR" \/ (grab /\ IsrHas(slot))
  OBVIOUS
<1>6. "CANCEL" \in CancelRef(cancelMark[r], caller) <=> caller = "CANCEL" \/ cancelMark[r] = "cancelable"
  BY DEF CancelRef
<1>7. "TOTAL_TIMER" \in TimerRef(total, "TOTAL_TIMER", caller) <=>
        total # NullTimer /\ (total = "set" \/ caller = "TOTAL_TIMER")
  BY DEF TimerRef
<1> HIDE DEF r, mine, own
<1>8. "CANCEL" \in left <=> Unmarked(cancelMark[r], caller) # "none"
  <2>1. "CANCEL" \in left <=> "CANCEL" \in refs[r] /\ "CANCEL" \notin CancelRef(cancelMark[r], caller)
    BY <1>3, <1>4
  <2>2. QED
    BY <1>2, <1>6, <2>1 DEF Unmarked
<1>9. "ISR" \in left <=> "ISR" \in refs[r] /\ caller # "ISR" /\ ~(grab /\ IsrHas(slot))
  BY <1>3, <1>4, <1>5
<1>10. "TOTAL_TIMER" \in left <=>
              /\ "TOTAL_TIMER" \in refs[r]
              /\ total # NullTimer => total # "set" /\ caller # "TOTAL_TIMER"
  BY <1>3, <1>4, <1>7
<1>11. QED
  BY <1>3, <1>8, <1>9, <1>10 DEF r

\* What a call changes of the requests and the slots.
CallEffect(slot, final, caller, left, purged, back) ==
  LET r == current[slot] IN
  /\ refs' = [refs EXCEPT ![r] = left]
  /\ cancelMark' = [cancelMark EXCEPT ![r] = Unmarked(@, caller)]
  /\ timer' = [timer EXCEPT ![slot] = IF caller = "TOTAL_TIMER" THEN "off" ELSE Stopped(@)]
  /\ \E info : information' = [information EXCEPT ![r] = info]
  /\ UNCHANGED <<length, xc, cancelled, cancelRoutine>>
  /\ \/ /\ left = {} /\ status' = [StatusAfter(purged) EXCEPT ![r] = final]
        /\ writeQueue' \in Seq(Req) /\ Distinct(writeQueue')
        /\ ToSet(writeQueue') \subseteq ToSet(QueueAfter(purged))
        /\ \E next \in Req \cup {NoReq} :
             /\ current' = [current EXCEPT ![slot] = next]
             /\ next \notin ToSet(writeQueue')
             /\ \/ next = NoReq /\ pc' = back
                \/ slot = "Write" /\ next \in ToSet(QueueAfter(purged)) /\ pc' = "start"
     \/ /\ left # {} /\ status' = StatusAfter(purged)
        /\ writeQueue' = QueueAfter(purged) /\ current' = current /\ pc' = back

LEMMA CallStep ==
  ASSUME WInv, NEW slot \in Slots, NEW grab \in BOOLEAN, NEW final, NEW caller, NEW total,
         NEW purged \in BOOLEAN, NEW back, Calls(slot, grab, caller, total, back),
         TryToComplete(slot, grab, final, caller, total, purged, back)
  PROVE  CallEffect(slot, final, caller, RefsAfter(slot, grab, caller, total), purged, back)
<1> DEFINE r == current[slot]
           left == RefsAfter(slot, grab, caller, total)
<1>1. /\ QueueAfter(purged) \in Seq(Req) /\ Distinct(QueueAfter(purged))
      /\ ToSet(QueueAfter(purged)) \subseteq ToSet(writeQueue) /\ ToSet(writeQueue) \subseteq Req
  BY Purged
<1>2. /\ refs' = [refs EXCEPT ![r] = left]
      /\ cancelMark' = [cancelMark EXCEPT ![r] = Unmarked(@, caller)]
      /\ timer' = [timer EXCEPT ![slot] =
                     IF caller = "TOTAL_TIMER" THEN "off" ELSE Stopped(@)]
      /\ \E info : information' = [information EXCEPT ![r] = info]
      /\ UNCHANGED <<length, xc, cancelled, cancelRoutine>>
      /\ \/ left = {} /\ CompleteCurrent(slot, final, purged, back)
         \/ /\ left # {} /\ status' = StatusAfter(purged)
            /\ writeQueue' = QueueAfter(purged) /\ current' = current /\ pc' = back
  BY DEF TryToComplete, requestVars, RefsAfter
<1> HIDE DEF left
<1>3. CASE left = {} /\ CompleteCurrent(slot, final, purged, back)
  <2>1. status' = [StatusAfter(purged) EXCEPT ![r] = final]
    BY <1>3 DEF CompleteCurrent
  <2>2. CASE slot = "Write"
    <3>1. GetNextWrite(QueueAfter(purged), current["Xoff"], back)
      BY <1>3, <2>2 DEF CompleteCurrent
    <3>2. /\ writeQueue' \in Seq(Req) /\ Distinct(writeQueue')
          /\ ToSet(writeQueue') \subseteq ToSet(QueueAfter(purged))
          /\ \E next \in Req \cup {NoReq} :
               /\ current' = [current EXCEPT !["Write"] = next, !["Xoff"] = current["Xoff"]]
               /\ next \notin ToSet(writeQueue')
               /\ \/ next = NoReq /\ pc' = back
                  \/ next \in ToSet(QueueAfter(purged)) /\ pc' = "start"
      BY <1>1, <3>1, NextWrite
    <3>3. ASSUME NEW next
          PROVE  [current EXCEPT !["Write"] = next, !["Xoff"] = current["Xoff"]]
                   = [current EXCEPT !["Write"] = next]
      BY DEF WInv, SlotTypes, Slots
    <3>4. QED
      BY <1>2, <1>3, <2>1, <2>2, <3>2, <3>3 DEF left, CallEffect
  <2>3. CASE slot # "Write"
    <3>1. /\ current' = [current EXCEPT ![slot] = NoReq]
          /\ writeQueue' = QueueAfter(purged) /\ pc' = back
      BY <1>3, <2>3 DEF CompleteCurrent
    <3>2. NoReq \notin ToSet(writeQueue')
      BY <1>1, <3>1, ReqAssumption
    <3>3. QED
      BY <1>1, <1>2, <1>3, <2>1, <3>1, <3>2 DEF left, CallEffect
  <2>4. QED
    BY <2>2, <2>3
<1>4. QED
  BY <1>2, <1>3 DEF left, CallEffect

\* What a call changes of what the ISR works on.
LEMMA GrabStep ==
  ASSUME WInv, NEW slot \in Slots, NEW grabbed \in BOOLEAN, Grab(slot, grabbed),
         grabbed => IsrHas(slot)
  PROVE  /\ writeLength' \in Nat /\ countSinceXoff' \in Nat /\ transmitImmediate' \in BOOLEAN
         /\ \A s \in Slots : IsrHas(s)' <=> IsrHas(s) /\ ~(grabbed /\ s = slot)
<1>1. writeLength \in Nat /\ countSinceXoff \in Nat /\ transmitImmediate \in BOOLEAN
  BY DEF WInv, SlotTypes
<1>2. /\ writeLength' = IF grabbed /\ slot = "Write" THEN 0 ELSE writeLength
      /\ countSinceXoff' = IF grabbed /\ slot = "Xoff" THEN 0 ELSE countSinceXoff
      /\ transmitImmediate' = IF grabbed /\ slot = "Immediate" THEN FALSE
                                                               ELSE transmitImmediate
  BY DEF Grab
<1>3. IsrHas("Write")' <=> IsrHas("Write") /\ ~(grabbed /\ slot = "Write")
  BY <1>1, <1>2 DEF IsrHas
<1>4. IsrHas("Xoff")' <=> IsrHas("Xoff") /\ ~(grabbed /\ slot = "Xoff")
  BY <1>1, <1>2 DEF IsrHas
<1>5. IsrHas("Immediate")' <=> IsrHas("Immediate") /\ ~(grabbed /\ slot = "Immediate")
  BY <1>1, <1>2 DEF IsrHas
<1>6. QED
  BY <1>1, <1>2, <1>3, <1>4, <1>5 DEF Slots

\* Either the current request goes on, with the references that are left, or it is
\* completed, and the next write of the queue is started.
LEMMA TryToCompletePreserves ==
  ASSUME WInv, NEW slot \in Slots, NEW grab \in BOOLEAN, NEW final \in Done,
         NEW caller, NEW total, NEW purged \in BOOLEAN, NEW back,
         Calls(slot, grab, caller, total, back),
         TryToComplete(slot, grab, final, caller, total, purged, back)
  PROVE  WInv' /\ Untouched
<1> DEFINE r == current[slot]
           q == QueueAfter(purged)
           outcome == StatusAfter(purged)
           left == RefsAfter(slot, grab, caller, total)
<1>1. /\ r \in Req /\ r # NoReq /\ status[r] = "pending" /\ r \notin ToSet(writeQueue)
      /\ Started(slot) /\ (slot = "Write" => pc \notin {"start", "give"})
      /\ \A s \in Slots : s # slot => current[s] # r
      /\ back \in {"idle", "purge", "give"} /\ (back = "give" <=> pc \in {"start", "give"})
      /\ caller \in {"ISR", "CANCEL", "TOTAL_TIMER", "XOFF_REF"}
  BY DEF Calls, Started, WInv, SlotTypes, Owned
<1>2. /\ refs' = [refs EXCEPT ![r] = left]
      /\ cancelMark' = [cancelMark EXCEPT ![r] = Unmarked(@, caller)]
      /\ timer' = [timer EXCEPT ![slot] = IF caller = "TOTAL_TIMER" THEN "off" ELSE Stopped(@)]
      /\ \E info : information' = [information EXCEPT ![r] = info]
      /\ UNCHANGED <<length, xc, cancelled, cancelRoutine>>
      /\ \/ /\ left = {} /\ status' = [outcome EXCEPT ![r] = final]
            /\ writeQueue' \in Seq(Req) /\ Distinct(writeQueue')
            /\ ToSet(writeQueue') \subseteq ToSet(q)
            /\ \E next \in Req \cup {NoReq} :
                 /\ current' = [current EXCEPT ![slot] = next]
                 /\ next \notin ToSet(writeQueue')
                 /\ \/ next = NoReq /\ pc' = back
                    \/ slot = "Write" /\ next \in ToSet(q) /\ pc' = "start"
         \/ /\ left # {} /\ status' = outcome
            /\ writeQueue' = q /\ current' = current /\ pc' = back
  <2>1. CallEffect(slot, final, caller, left, purged, back)
    BY CallStep, Zenon
  <2> HIDE DEF left
  <2>2. QED
    BY <2>1 DEF CallEffect
<1>3. /\ left \subseteq refs[r]
      /\ "ISR" \in left <=> "ISR" \in refs[r] /\ caller # "ISR" /\ ~(grab /\ IsrHas(slot))
      /\ "CANCEL" \in left <=> Unmarked(cancelMark[r], caller) # "none"
      /\ "TOTAL_TIMER" \in left <=>
           /\ "TOTAL_TIMER" \in refs[r]
           /\ total # NullTimer => total # "set" /\ caller # "TOTAL_TIMER"
  BY RefsAfterCall
<1>4. /\ q \in Seq(Req) /\ Distinct(q) /\ ToSet(q) \subseteq ToSet(writeQueue)
      /\ ToSet(writeQueue) \subseteq Req /\ DOMAIN outcome = Req
      /\ \A s \in ToSet(q) : outcome[s] = "pending"
      /\ \A s \in Req : s \notin ToSet(writeQueue) => outcome[s] = status[s]
      /\ \A s \in Req : outcome[s] = "pending" => status[s] = "pending"
      /\ \A s \in Req : status[s] \in Done => outcome[s] = status[s]
  BY Purged
<1>5. /\ writeLength' \in Nat /\ countSinceXoff' \in Nat /\ transmitImmediate' \in BOOLEAN
      /\ \A s \in Slots : IsrHas(s)' <=> IsrHas(s) /\ ~(grab /\ IsrHas(slot) /\ s = slot)
  <2>1. Grab(slot, grab /\ IsrHas(slot))
    BY DEF TryToComplete
  <2>2. (grab /\ IsrHas(slot)) \in BOOLEAN
    OBVIOUS
  <2>3. QED
    BY <2>1, <2>2, GrabStep
<1>6. /\ completeDpc' = [completeDpc EXCEPT ![slot] = @ /\ caller # "ISR"]
      /\ grab <=> caller # "ISR"
      /\ caller = "ISR" => completeDpc[slot]
      /\ caller = "TOTAL_TIMER" => timer[slot] = "fired"
      /\ \/ total = timer[slot]
         \/ total = NullTimer /\ slot = "Xoff" /\ caller = "TOTAL_TIMER"
  BY DEF Calls
<1> HIDE DEF left, q, outcome
\* The types.
<1>7. /\ refs' \in [Req -> SUBSET RefTypes] /\ cancelMark' \in [Req -> CancelStates]
      /\ timer' \in [Slots -> TimerStates] /\ completeDpc' \in [Slots -> BOOLEAN]
  BY <1>1, <1>2, <1>3, <1>6
     DEF WInv, SlotTypes, Unmarked, CancelStates, Stopped, TimerStates
<1>8. /\ DOMAIN status' = Req /\ DOMAIN information' = Req
      /\ current' \in [Slots -> Req \cup {NoReq}] /\ writeQueue' \in Seq(Req)
      /\ pc' \in {"idle", "start", "give", "purge"}
  <2>1. current \in [Slots -> Req \cup {NoReq}] /\ DOMAIN information = Req
    BY DEF WInv, SlotTypes
  <2>2. DOMAIN status' = Req
    BY <1>2, <1>4
  <2>3. DOMAIN information' = Req
    BY <1>2, <2>1
  <2>4. current' \in [Slots -> Req \cup {NoReq}]
    BY <1>2, <2>1
  <2>5. writeQueue' \in Seq(Req) /\ pc' \in {"idle", "start", "give", "purge"}
    BY <1>1, <1>2, <1>4
  <2>6. QED
    BY <2>2, <2>3, <2>4, <2>5
<1>9. SlotTypes'
  BY <1>2, <1>5, <1>7, <1>8 DEF WInv, SlotTypes
\* The other slots and requests.
<1>10. /\ \A s \in Slots : s # slot => current'[s] = current[s]
       /\ \A s \in Req : s # r => /\ refs'[s] = refs[s] /\ cancelMark'[s] = cancelMark[s]
                                  /\ status'[s] = outcome[s] /\ information'[s] = information[s]
       /\ refs'[r] = left /\ cancelMark'[r] = Unmarked(cancelMark[r], caller)
  BY <1>1, <1>2, <1>4 DEF WInv, SlotTypes
<1>11. \A s \in Req : status'[s] = "pending" => status[s] = "pending"
  BY <1>1, <1>4, <1>10
<1>12. Parameters'
  BY <1>2, <1>11, ParametersKept
<1>13. Untouched
  <2>1. \A s \in Req : status[s] \in Done => s # r
    BY <1>1 DEF Done
  <2>2. \A s \in Lost : status'[s] = "pending"
    BY <1>1, <1>4, <1>10 DEF Lost
  <2>3. ToSet(writeQueue') \subseteq ToSet(writeQueue)
    BY <1>2, <1>4
  <2>4. \A s \in Slots : current'[s] \in Req =>
          current'[s] \in ToSet(writeQueue) \cup {current[t] : t \in Slots}
    <3>1. NoReq \notin Req /\ current \in [Slots -> Req \cup {NoReq}]
      BY ReqAssumption DEF WInv, SlotTypes
    <3>2. current'[slot] = r \/ current'[slot] = NoReq \/ current'[slot] \in ToSet(writeQueue)
      BY <1>2, <1>4, <3>1
    <3>3. \A s \in Slots : s # slot => current'[s] = current[s]
      BY <1>10
    <3>4. QED
      BY <3>1, <3>2, <3>3
  <2>5. Lost \subseteq Lost'
    BY <2>2, <2>3, <2>4, LostStays
  <2>6. QED
    BY <1>4, <1>10, <2>1, <2>5 DEF Untouched
<1>14. Owned'
  <2>1. Distinct(writeQueue')
    BY <1>2, <1>4
  <2>2. ToSet(writeQueue') \subseteq ToSet(q)
    BY <1>2
  <2>3. \A s \in ToSet(writeQueue') : status'[s] = "pending"
    BY <1>1, <1>4, <1>10, <2>2
  <2>4. ASSUME NEW s \in Slots, s # slot, current'[s] # NoReq
        PROVE  /\ status'[current'[s]] = "pending" /\ current'[s] \notin ToSet(writeQueue')
               /\ current'[s] \notin ToSet(writeQueue)
    <3>1. /\ current'[s] = current[s] /\ current[s] # r /\ current[s] \in Req
          /\ status[current[s]] = "pending" /\ current[s] \notin ToSet(writeQueue)
      BY <1>1, <1>10, <2>4 DEF WInv, SlotTypes, Owned
    <3>2. status'[current[s]] = "pending"
      BY <1>4, <1>10, <3>1
    <3>3. QED
      BY <1>4, <2>2, <3>1, <3>2
  <2>5. \/ current'[slot] = NoReq
        \/ current'[slot] \in ToSet(q) /\ current'[slot] \notin ToSet(writeQueue')
        \/ /\ current' = current /\ writeQueue' = q /\ status' = outcome
    <3>1. current \in [Slots -> Req \cup {NoReq}]
      BY DEF WInv, SlotTypes
    <3>2. QED
      BY <1>2, <3>1
  <2>6. current'[slot] # NoReq =>
          status'[current'[slot]] = "pending" /\ current'[slot] \notin ToSet(writeQueue')
    BY <1>1, <1>4, <1>10, <2>5
  <2>7. ASSUME NEW s \in Slots, s # slot, current'[s] = current'[slot]
        PROVE  current'[s] = NoReq
    <3>1. current'[s] = current[s] /\ current[s] # r
      BY <1>1, <1>10, <2>7
    <3>2. QED
      BY <1>4, <2>4, <2>5, <2>7, <3>1
  <2>8. \A s, t \in Slots : current'[s] = current'[t] => s = t \/ current'[s] = NoReq
    <3>1. \A s, t \in Slots : s # slot /\ t # slot =>
            (current'[s] = current'[t] => s = t \/ current'[s] = NoReq)
      BY <1>10 DEF WInv, Owned
    <3>2. QED
      BY <2>7, <3>1
  <2>9. QED
    BY <2>1, <2>3, <2>4, <2>6, <2>8 DEF Owned
\* Whether a write is being started.
<1>15. /\ slot # "Write" => pc' = back
       /\ left # {} => pc' = back /\ current' = current
       /\ pc' = back \/ (pc' = "start" /\ current'[slot] # NoReq)
  <2>1. NoReq \notin ToSet(q)
    BY <1>4, ReqAssumption
  <2>2. current \in [Slots -> Req \cup {NoReq}]
    BY DEF WInv, SlotTypes
  <2>3. QED
    BY <1>2, <2>1, <2>2
<1>16. \A s \in Slots : s # slot => (Started(s)' <=> Started(s))
  BY <1>1, <1>10, <1>15 DEF Started
<1>17. Phase'
  <2>1. CASE slot = "Write"
    BY <1>1, <1>15, <2>1 DEF Phase
  <2>2. CASE slot # "Write"
    <3>1. current'["Write"] = current["Write"] /\ pc' = back
      BY <1>10, <1>15, <2>2 DEF Slots
    <3>2. QED
      BY <1>1, <3>1 DEF WInv, Phase
  <2>3. QED
    BY <2>1, <2>2
<1>18. left # {} => current'[slot] = r /\ Started(slot)'
  BY <1>1, <1>15 DEF Started
<1>19. Holders'
  <2>1. ASSUME NEW s \in Req
        PROVE  /\ refs'[s] \subseteq {"ISR", "CANCEL", "TOTAL_TIMER"}
               /\ "CANCEL" \in refs'[s] <=> cancelMark'[s] # "none"
    BY <1>1, <1>3, <1>10 DEF WInv, Holders
  <2>2. ASSUME NEW s \in Req, refs'[s] # {}
        PROVE  s \in Lost' \/ \E t \in Slots : Started(t)' /\ current'[t] = s
    <3>1. CASE s = r
      BY <1>10, <1>18, <2>2, <3>1
    <3>2. CASE s # r
      <4>1. s \in Lost \/ \E t \in Slots : Started(t) /\ current[t] = s
        BY <1>10, <2>2, <3>2 DEF WInv, Holders
      <4>2. CASE s \in Lost
        BY <1>13, <4>2 DEF Untouched
      <4>3. CASE \E t \in Slots : Started(t) /\ current[t] = s
        BY <1>10, <1>16, <3>2, <4>3
      <4>4. QED
        BY <4>1, <4>2, <4>3
    <3>3. QED
      BY <3>1, <3>2
  <2>3. LET x == current'["Xoff"] IN
          x # NoReq /\ "TOTAL_TIMER" \in refs'[x] => xc'[x].timeout
    <3>1. CASE slot = "Xoff"
      <4>1. current'["Xoff"] # NoReq => current'["Xoff"] = r
        BY <1>2, <3>1 DEF WInv, SlotTypes
      <4>2. "TOTAL_TIMER" \in refs[r] => xc[r].timeout
        BY <1>1, <3>1 DEF WInv, Holders
      <4>3. QED
        BY <1>2, <1>3, <1>10, <4>1, <4>2
    <3>2. CASE slot # "Xoff"
      <4>1. current'["Xoff"] = current["Xoff"] /\ current["Xoff"] # r
        BY <1>1, <1>10, <3>2 DEF Slots
      <4>2. current["Xoff"] # NoReq => current["Xoff"] \in Req
        BY DEF WInv, SlotTypes, Slots
      <4>3. QED
        BY <1>2, <1>10, <4>1, <4>2 DEF WInv, Holders
    <3>3. QED
      BY <3>1, <3>2
  <2>4. QED
    BY <2>1, <2>2, <2>3 DEF Holders
<1>20. ASSUME NEW s \in Slots, s # slot, OwnersAgree(s)
       PROVE  OwnersAgree(s)'
  <2>1. /\ current'[s] = current[s] /\ (Started(s)' <=> Started(s))
        /\ completeDpc'[s] = completeDpc[s] /\ timer'[s] = timer[s]
        /\ IsrHas(s)' <=> IsrHas(s)
    BY <1>2, <1>5, <1>6, <1>10, <1>16, <1>20 DEF WInv, SlotTypes
  <2>2. Started(s) => current[s] \in Req /\ current[s] # r
    BY <1>1, <1>20 DEF Started, WInv, SlotTypes
  <2>3. LET c == current[s] IN
        Started(s) => /\ refs'[c] = refs[c] /\ cancelMark'[c] = cancelMark[c]
                      /\ cancelRoutine'[c] = cancelRoutine[c] /\ xc'[c] = xc[c]
    BY <1>2, <1>10, <2>2
  <2>4. QED
    BY <1>20, <2>1, <2>3, SlotKept
<1>21. ASSUME OwnersAgree(slot)
       PROVE  OwnersAgree(slot)'
  <2>1. /\ refs[r] # {} /\ refs[r] \subseteq {"ISR", "CANCEL", "TOTAL_TIMER"}
        /\ "ISR" \in refs[r] <=> IsrHas(slot) \/ completeDpc[slot]
        /\ ~(IsrHas(slot) /\ completeDpc[slot])
        /\ cancelMark[r] # "none" => cancelRoutine[r] = slot
        /\ timer[slot] # "off" => "TOTAL_TIMER" \in refs[r]
        /\ "TOTAL_TIMER" \in refs[r] =>
             timer[slot] # "off" \/ (slot = "Xoff" /\ xc[r].timeout)
    BY <1>1, <1>21 DEF OwnersAgree
  <2>2. IsrHas(slot)' <=> IsrHas(slot) /\ ~grab
    BY <1>5
  <2>3. completeDpc'[slot] <=> completeDpc[slot] /\ caller # "ISR"
    BY <1>6 DEF WInv, SlotTypes
  <2>4. "ISR" \in left <=> IsrHas(slot)' \/ completeDpc'[slot]
    BY <1>3, <1>6, <2>1, <2>2, <2>3
  <2>5. timer[slot] \in TimerStates
        /\ timer'[slot] = IF caller = "TOTAL_TIMER" THEN "off" ELSE Stopped(timer[slot])
    BY <1>2 DEF WInv, SlotTypes
  <2>6. timer'[slot] # "off" => timer[slot] = "fired" /\ caller # "TOTAL_TIMER"
    BY <2>5 DEF Stopped, TimerStates
  <2>7. timer'[slot] # "off" => "TOTAL_TIMER" \in left
    <3>1. timer'[slot] # "off" => "TOTAL_TIMER" \in refs[r] /\ total = "fired"
      BY <1>6, <2>1, <2>6
    <3>2. QED
      BY <1>3, <2>6, <3>1
  <2>8. "TOTAL_TIMER" \in left =>
          timer'[slot] # "off" \/ (slot = "Xoff" /\ xc[r].timeout)
    <3>1. CASE total = timer[slot]
      <4>1. "TOTAL_TIMER" \in left => total # "set" /\ caller # "TOTAL_TIMER"
        BY <1>3, <2>5, <3>1 DEF NullTimer, TimerStates
      <4>2. QED
        BY <1>3, <2>1, <2>5, <3>1, <4>1 DEF Stopped
    <3>2. CASE slot = "Xoff"
      BY <1>1, <1>3, <3>2 DEF WInv, Holders
    <3>3. QED
      BY <1>6, <3>1, <3>2
  <2>9. CASE left = {}
    <3>1. ~IsrHas(slot)' /\ ~completeDpc'[slot] /\ timer'[slot] = "off"
      BY <2>4, <2>7, <2>9
    <3>2. ~Started(slot)'
      <4>1. \/ current'[slot] = NoReq
            \/ slot = "Write" /\ pc' = "start"
        BY <1>2, <2>9 DEF WInv, SlotTypes
      <4>2. QED
        BY <4>1 DEF Started
    <3>3. QED
      BY <3>1, <3>2 DEF OwnersAgree
  <2>10. CASE left # {}
    <3>1. /\ current'[slot] = r /\ Started(slot)' /\ refs'[r] = left
          /\ cancelMark'[r] = Unmarked(cancelMark[r], caller)
          /\ cancelRoutine'[r] = cancelRoutine[r] /\ xc'[r] = xc[r]
      BY <1>2, <1>10, <1>18, <2>10
    <3>2. left \subseteq {"ISR", "CANCEL", "TOTAL_TIMER"} /\ left # {}
      BY <1>3, <2>1, <2>10
    <3>3. "CANCEL" \in left <=> cancelMark'[r] # "none"
      BY <1>3, <3>1
    <3>4. cancelMark'[r] # "none" => cancelRoutine'[r] = slot
      BY <2>1, <3>1 DEF Unmarked
    <3>5. ~(IsrHas(slot)' /\ completeDpc'[slot])
      BY <2>1, <2>2, <2>3
    <3> HIDE DEF r
    <3>6. QED
      BY <2>4, <2>7, <2>8, <3>1, <3>2, <3>3, <3>4, <3>5 DEF OwnersAgree
  <2>11. QED
    BY <2>9, <2>10
<1>22. Slotwise'
  <2>1. Lost' = {} => Lost = {}
    BY <1>13 DEF Untouched
  <2>2. \A s \in Slots : OwnersAgree(s) => OwnersAgree(s)'
    BY <1>20, <1>21
  <2>3. QED
    BY <2>1, <2>2 DEF WInv, Slotwise, Slots
<1>23. QED
  BY <1>9, <1>12, <1>13, <1>14, <1>17, <1>19, <1>22 DEF WInv

-----------------------------------------------------------------------------
(* The steps of the ISR, of the timers, and of a client's Cancel.          *)

\* A step that moves no request.
LEMMA RequestsKept ==
  ASSUME WInv, UNCHANGED <<current, writeQueue, status, refs, length, xc, pc>>,
         \A r \in Req : cancelMark'[r] = "none" <=> cancelMark[r] = "none"
  PROVE  /\ Owned' /\ Parameters' /\ Phase' /\ Holders' /\ Lost' = Lost
         /\ \A s \in Slots : Started(s)' <=> Started(s)
<1>1. Lost' = Lost
  BY DEF Lost
<1>2. \A s \in Slots : Started(s)' <=> Started(s)
  BY DEF Started
<1>3. Owned' /\ Parameters' /\ Phase'
  BY DEF WInv, Owned, Parameters, Phase
<1>4. Holders'
  BY <1>1, <1>2 DEF WInv, Holders
<1>5. QED
  BY <1>1, <1>2, <1>3, <1>4

\* Such a step, when only one slot's parties have changed.
LEMMA OneSlot ==
  ASSUME WInv, UNCHANGED <<current, writeQueue, status, refs, length, xc, pc,
                           cancelMark, cancelRoutine>>,
         NEW slot \in Slots, OwnersAgree(slot) => OwnersAgree(slot)',
         \A s \in Slots \ {slot} :
           /\ completeDpc'[s] = completeDpc[s] /\ timer'[s] = timer[s]
           /\ IsrHas(s)' <=> IsrHas(s)
  PROVE  Slotwise'
<1>1. Lost' = Lost /\ \A s \in Slots : Started(s)' <=> Started(s)
  BY RequestsKept
<1>2. \A s \in Slots : OwnersAgree(s) => OwnersAgree(s)'
  <2>1. ASSUME NEW s \in Slots \ {slot}, OwnersAgree(s)
        PROVE  OwnersAgree(s)'
    <3>1. /\ current'[s] = current[s] /\ (Started(s)' <=> Started(s))
          /\ completeDpc'[s] = completeDpc[s] /\ timer'[s] = timer[s]
          /\ IsrHas(s)' <=> IsrHas(s)
      BY <1>1
    <3>2. LET c == current[s] IN
          Started(s) => /\ refs'[c] = refs[c] /\ cancelMark'[c] = cancelMark[c]
                        /\ cancelRoutine'[c] = cancelRoutine[c] /\ xc'[c] = xc[c]
      OBVIOUS
    <3>3. QED
      BY <2>1, <3>1, <3>2, SlotKept
  <2>2. QED
    BY <2>1
<1>3. QED
  BY <1>1, <1>2 DEF WInv, Slotwise, Slots

LEMMA SendImmediatePreserves ==
  ASSUME WInv, SendImmediate
  PROVE  WInv' /\ Untouched
<1>1. /\ transmitImmediate /\ transmitImmediate' = FALSE
      /\ completeDpc' = [completeDpc EXCEPT !["Immediate"] = TRUE]
      /\ UNCHANGED <<current, writeQueue, status, information, refs, length, xc, cancelled,
                     pc, cancelMark, cancelRoutine, writeLength, countSinceXoff, timer>>
  BY DEF SendImmediate, requestVars
<1>2. SlotTypes'
  BY <1>1 DEF WInv, SlotTypes, Slots
<1>3. Owned' /\ Parameters' /\ Phase' /\ Holders' /\ Lost' = Lost
      /\ \A s \in Slots : Started(s)' <=> Started(s)
  BY <1>1, RequestsKept
<1>4. OwnersAgree("Immediate")'
  <2>1. IsrHas("Immediate") /\ OwnersAgree("Immediate") /\ ~IsrHas("Immediate")'
    BY <1>1 DEF IsrHas, WInv, Slotwise
  <2>2. completeDpc'["Immediate"] /\ "Immediate" \in Slots
    BY <1>1 DEF WInv, SlotTypes, Slots
  <2>3. Started("Immediate") /\ Started("Immediate")'
    BY <1>3, <2>1, <2>2 DEF OwnersAgree
  <2>4. QED
    BY <1>1, <2>1, <2>2, <2>3 DEF OwnersAgree
<1>5. Slotwise'
  <2>1. \A s \in Slots \ {"Immediate"} :
          /\ completeDpc'[s] = completeDpc[s] /\ timer'[s] = timer[s]
          /\ IsrHas(s)' <=> IsrHas(s)
    BY <1>1 DEF IsrHas, WInv, SlotTypes, Slots
  <2>2. QED
    BY <1>1, <1>4, <2>1, OneSlot DEF Slots
<1>6. QED
  BY <1>1, <1>2, <1>3, <1>5 DEF WInv, Untouched

LEMMA SendWritePreserves ==
  ASSUME WInv, NEW n \in 1 .. MaxLen, SendWrite(n)
  PROVE  WInv' /\ Untouched
<1> DEFINE r == current["Write"]
<1>1. /\ n <= writeLength /\ writeLength' = writeLength - n
      /\ IF writeLength = n
           THEN /\ \E info : information' = [information EXCEPT ![r] = info]
                /\ completeDpc' = [completeDpc EXCEPT !["Write"] = TRUE]
           ELSE UNCHANGED <<information, completeDpc>>
      /\ UNCHANGED <<current, writeQueue, status, refs, length, xc, cancelled,
                     pc, cancelMark, cancelRoutine, transmitImmediate, countSinceXoff, timer>>
  BY DEF SendWrite, requestVars
<1>2. n \in Nat /\ n > 0 /\ writeLength \in Nat
  BY LengthAssumption DEF WInv, SlotTypes
<1>3. SlotTypes'
  <2>1. writeLength' \in Nat
    BY <1>1, <1>2
  <2>2. completeDpc' \in [Slots -> BOOLEAN]
    BY <1>1 DEF WInv, SlotTypes
  <2>3. DOMAIN information' = Req
    BY <1>1 DEF WInv, SlotTypes
  <2>4. QED
    BY <1>1, <2>1, <2>2, <2>3 DEF WInv, SlotTypes
<1>4. Owned' /\ Parameters' /\ Phase' /\ Holders' /\ Lost' = Lost
      /\ \A s \in Slots : Started(s)' <=> Started(s)
  BY <1>1, RequestsKept
<1>5. /\ IsrHas("Write") /\ OwnersAgree("Write") /\ "Write" \in Slots
      /\ IsrHas("Write")' <=> writeLength # n
  BY <1>1, <1>2 DEF IsrHas, WInv, Slotwise, Slots
<1>6. Started("Write") /\ ~completeDpc["Write"] /\ Started("Write")'
  BY <1>4, <1>5 DEF OwnersAgree
<1>7. completeDpc'["Write"] <=> writeLength = n
  BY <1>1, <1>5, <1>6 DEF WInv, SlotTypes
<1>8. OwnersAgree("Write")'
  BY <1>1, <1>5, <1>6, <1>7 DEF OwnersAgree
<1>9. Slotwise'
  <2>1. \A s \in Slots \ {"Write"} :
          /\ completeDpc'[s] = completeDpc[s] /\ timer'[s] = timer[s]
          /\ IsrHas(s)' <=> IsrHas(s)
    BY <1>1 DEF IsrHas, WInv, SlotTypes, Slots
  <2>2. QED
    BY <1>1, <1>5, <1>8, <2>1, OneSlot
<1>10. Untouched
  <2>1. r \in Req /\ status[r] = "pending"
    BY <1>5, <1>6 DEF Started, WInv, SlotTypes, Owned
  <2>2. QED
    BY <1>1, <1>4, <2>1 DEF Untouched, Done, WInv, SlotTypes
<1>11. QED
  BY <1>3, <1>4, <1>9, <1>10 DEF WInv

LEMMA CountDownPreserves ==
  ASSUME WInv, CountDown
  PROVE  WInv' /\ Untouched
<1>1. /\ countSinceXoff > 0 /\ countSinceXoff' = countSinceXoff - 1
      /\ completeDpc' = [completeDpc EXCEPT !["Xoff"] = @ \/ countSinceXoff = 1]
      /\ UNCHANGED <<current, writeQueue, status, information, refs, length, xc, cancelled,
                     pc, cancelMark, cancelRoutine, writeLength, transmitImmediate, timer>>
  BY DEF CountDown, requestVars
<1>2. countSinceXoff \in Nat /\ completeDpc \in [Slots -> BOOLEAN] /\ "Xoff" \in Slots
  BY DEF WInv, SlotTypes, Slots
<1>3. SlotTypes'
  BY <1>1, <1>2 DEF WInv, SlotTypes
<1>4. Owned' /\ Parameters' /\ Phase' /\ Holders' /\ Lost' = Lost
      /\ \A s \in Slots : Started(s)' <=> Started(s)
  BY <1>1, RequestsKept
<1>5. ASSUME OwnersAgree("Xoff")
      PROVE  OwnersAgree("Xoff")'
  <2>1. IsrHas("Xoff") /\ (IsrHas("Xoff")' <=> countSinceXoff # 1)
    BY <1>1, <1>2 DEF IsrHas
  <2>2. Started("Xoff") /\ ~completeDpc["Xoff"] /\ Started("Xoff")'
    BY <1>2, <1>4, <1>5, <2>1 DEF OwnersAgree
  <2>3. completeDpc'["Xoff"] <=> countSinceXoff = 1
    BY <1>1, <1>2, <2>2
  <2>4. QED
    BY <1>1, <1>5, <2>1, <2>2, <2>3 DEF OwnersAgree
<1>6. Slotwise'
  <2>1. \A s \in Slots \ {"Xoff"} :
          /\ completeDpc'[s] = completeDpc[s] /\ timer'[s] = timer[s]
          /\ IsrHas(s)' <=> IsrHas(s)
    BY <1>1, <1>2 DEF IsrHas, WInv, SlotTypes, Slots
  <2>2. QED
    BY <1>1, <1>2, <1>5, <2>1, OneSlot
<1>7. QED
  BY <1>1, <1>3, <1>4, <1>6 DEF WInv, Untouched

LEMMA TimerFiresPreserves ==
  ASSUME WInv, NEW slot \in Slots, TimerFires(slot)
  PROVE  WInv' /\ Untouched
<1>1. /\ timer[slot] = "set" /\ timer' = [timer EXCEPT ![slot] = "fired"]
      /\ UNCHANGED <<current, writeQueue, status, information, refs, length, xc, cancelled,
                     pc, cancelMark, cancelRoutine, isrVars>>
  BY DEF TimerFires, requestVars
<1>2. SlotTypes'
  BY <1>1 DEF WInv, SlotTypes, TimerStates, isrVars
<1>3. Owned' /\ Parameters' /\ Phase' /\ Holders' /\ Lost' = Lost
      /\ \A s \in Slots : Started(s)' <=> Started(s)
  BY <1>1, RequestsKept
<1>4. /\ timer'[slot] = "fired" /\ \A s \in Slots \ {slot} : timer'[s] = timer[s]
      /\ \A s \in Slots : completeDpc'[s] = completeDpc[s] /\ (IsrHas(s)' <=> IsrHas(s))
  BY <1>1 DEF WInv, SlotTypes, isrVars, IsrHas
<1>5. OwnersAgree(slot) => OwnersAgree(slot)'
  BY <1>1, <1>3, <1>4 DEF OwnersAgree
<1>6. Slotwise'
  BY <1>1, <1>4, <1>5, OneSlot
<1>7. QED
  BY <1>1, <1>2, <1>3, <1>6 DEF WInv, Untouched

LEMMA CancelPreserves ==
  ASSUME WInv, NEW r \in Req, Cancel(r)
  PROVE  WInv' /\ Untouched
<1>1. /\ cancelMark' = [cancelMark EXCEPT ![r] = IF @ = "cancelable" THEN "dispatched" ELSE @]
      /\ cancelled' = [cancelled EXCEPT ![r] = TRUE]
      /\ UNCHANGED <<current, writeQueue, status, information, refs, length, xc, pc,
                     cancelRoutine, isrVars, timer>>
  BY DEF Cancel
<1>2. \A s \in Req : cancelMark'[s] = "none" <=> cancelMark[s] = "none"
  BY <1>1 DEF WInv, SlotTypes
<1>3. SlotTypes'
  BY <1>1 DEF WInv, SlotTypes, CancelStates, isrVars
<1>4. Owned' /\ Parameters' /\ Phase' /\ Holders' /\ Lost' = Lost
      /\ \A s \in Slots : Started(s)' <=> Started(s)
  BY <1>1, <1>2, RequestsKept
<1>5. ASSUME NEW s \in Slots, OwnersAgree(s)
      PROVE  OwnersAgree(s)'
  <2>1. Started(s) => current[s] \in Req
    BY DEF Started, WInv, SlotTypes
  <2>2. IsrHas(s)' <=> IsrHas(s)
    BY <1>1 DEF IsrHas, isrVars
  <2>3. QED
    BY <1>1, <1>2, <1>4, <1>5, <2>1, <2>2 DEF OwnersAgree, isrVars
<1>6. Slotwise'
  BY <1>4, <1>5 DEF WInv, Slotwise, Slots
<1>7. QED
  BY <1>1, <1>3, <1>4, <1>6 DEF WInv, Untouched

-----------------------------------------------------------------------------
(* The client's requests.                                                  *)

\* A request nobody has seen.
LEMMA Fresh ==
  ASSUME WInv, NEW r \in Req, status[r] = "unused"
  PROVE  /\ r # NoReq /\ r \notin ToSet(writeQueue) /\ r \notin Lost
         /\ \A s \in Slots : current[s] # r
         /\ refs[r] = {} /\ cancelMark[r] = "none"
<1>1. r # NoReq
  BY ReqAssumption
<1>2. r \notin ToSet(writeQueue) /\ r \notin Lost /\ \A s \in Slots : current[s] # r
  BY <1>1 DEF WInv, Owned, Lost
<1>3. refs[r] = {} /\ cancelMark[r] = "none"
  BY <1>2 DEF WInv, Holders
<1>4. QED
  BY <1>1, <1>2, <1>3

\* What an arriving request brings.
Brings(r, n, x) ==
  /\ status[r] = "unused" /\ pc = "idle"
  /\ length' = [length EXCEPT ![r] = n] /\ xc' = [xc EXCEPT ![r] = x]
  /\ n \in Nat /\ x \in [counter : Nat, timeout : BOOLEAN]
  /\ r \in Writes => n > 0
  /\ r \in XoffReqs => x.counter > 0
  /\ UNCHANGED <<information, cancelled>>

\* The types and the parameters after that.
LEMMA BroughtParameters ==
  ASSUME WInv, NEW r \in Req, NEW n, NEW x, Brings(r, n, x),
         \A s \in Req : s # r => status'[s] = status[s]
  PROVE  /\ Parameters'
         /\ length' \in [Req -> Nat] /\ xc' \in [Req -> [counter : Nat, timeout : BOOLEAN]]
         /\ \A s \in Req : s # r => xc'[s] = xc[s]
<1>1. /\ length \in [Req -> Nat] /\ xc \in [Req -> [counter : Nat, timeout : BOOLEAN]]
  BY DEF WInv, SlotTypes
<1>2. /\ length' \in [Req -> Nat] /\ xc' \in [Req -> [counter : Nat, timeout : BOOLEAN]]
      /\ \A s \in Req : s # r => xc'[s] = xc[s] /\ length'[s] = length[s]
      /\ length'[r] = n /\ xc'[r] = x
  BY <1>1 DEF Brings
<1>3. Writes \subseteq Req /\ XoffReqs \subseteq Req
  BY DEF Req
<1>4. (r \in Writes => n > 0) /\ (r \in XoffReqs => x.counter > 0)
  BY DEF Brings
<1>5. Parameters'
  <2>1. ASSUME NEW s \in Writes, status'[s] = "pending"
        PROVE  length'[s] > 0
    BY <1>2, <1>3, <1>4, <2>1 DEF WInv, Parameters
  <2>2. ASSUME NEW s \in XoffReqs, status'[s] = "pending"
        PROVE  xc'[s].counter > 0
    BY <1>2, <1>3, <1>4, <2>2 DEF WInv, Parameters
  <2>3. QED
    BY <2>1, <2>2 DEF Parameters
<1>6. QED
  BY <1>2, <1>5

\* Its dispatch routine completes it.
LEMMA CompleteAtOncePreserves ==
  ASSUME WInv, NEW r \in Req, NEW n, NEW x, Brings(r, n, x), NEW final,
         CompleteAtOnce(r, final)
  PROVE  WInv' /\ Untouched
<1>1. /\ status' = [status EXCEPT ![r] = final] /\ status[r] = "unused"
      /\ UNCHANGED <<refs, cancelMark, cancelRoutine, current, writeQueue, isrVars, timer, pc,
                     information, cancelled>>
  BY DEF CompleteAtOnce, Brings
<1>2. /\ r # NoReq /\ r \notin ToSet(writeQueue) /\ r \notin Lost
      /\ \A s \in Slots : current[s] # r
      /\ refs[r] = {} /\ cancelMark[r] = "none"
  BY <1>1, Fresh
<1>3. \A s \in Req : s # r => status'[s] = status[s]
  BY <1>1 DEF WInv, SlotTypes
<1>4. /\ Parameters'
      /\ length' \in [Req -> Nat] /\ xc' \in [Req -> [counter : Nat, timeout : BOOLEAN]]
      /\ \A s \in Req : s # r => xc'[s] = xc[s]
  BY <1>3, BroughtParameters
<1>5. SlotTypes'
  BY <1>1, <1>4 DEF WInv, SlotTypes, isrVars
<1>6. Lost \subseteq Lost'
  BY <1>1, <1>2, <1>3 DEF Lost
<1>7. \A s \in Slots : Started(s)' <=> Started(s)
  BY <1>1 DEF Started
<1>8. Owned'
  <2>1. ToSet(writeQueue) \subseteq Req /\ \A s \in Slots : current[s] # NoReq => current[s] \in Req
    BY DEF WInv, SlotTypes, ToSet
  <2>2. QED
    BY <1>1, <1>2, <1>3, <2>1 DEF WInv, Owned
<1>9. Phase'
  BY <1>1 DEF WInv, Phase
<1>10. Holders'
  <2>1. current["Xoff"] # NoReq => current["Xoff"] \in Req /\ current["Xoff"] # r
    BY <1>2 DEF WInv, SlotTypes, Slots
  <2>2. QED
    BY <1>1, <1>4, <1>6, <1>7, <2>1 DEF WInv, Holders
<1>11. Slotwise'
  <2>1. ASSUME NEW s \in Slots, OwnersAgree(s)
        PROVE  OwnersAgree(s)'
    <3>1. /\ current'[s] = current[s] /\ (Started(s)' <=> Started(s))
          /\ completeDpc'[s] = completeDpc[s] /\ timer'[s] = timer[s]
          /\ IsrHas(s)' <=> IsrHas(s)
      BY <1>1, <1>7 DEF isrVars, IsrHas
    <3>2. Started(s) => current[s] \in Req /\ current[s] # r
      BY <1>2 DEF Started, WInv, SlotTypes
    <3>3. LET c == current[s] IN
          Started(s) => /\ refs'[c] = refs[c] /\ cancelMark'[c] = cancelMark[c]
                        /\ cancelRoutine'[c] = cancelRoutine[c] /\ xc'[c] = xc[c]
      BY <1>1, <1>4, <3>2
    <3>4. QED
      BY <2>1, <3>1, <3>3, SlotKept
  <2>2. QED
    BY <1>6, <2>1 DEF WInv, Slotwise, Slots
<1>12. Untouched
  BY <1>1, <1>3, <1>6 DEF Untouched, Done
<1>13. QED
  BY <1>4, <1>5, <1>8, <1>9, <1>10, <1>11, <1>12 DEF WInv

\* SerialStartOrQueue: it becomes current or is queued.
LEMMA StartOrQueuePreserves ==
  ASSUME WInv, NEW r \in Req, NEW n, NEW x, Brings(r, n, x), NEW m,
         StartOrQueue(r, m)
  PROVE  WInv' /\ Untouched
<1>1. /\ status' = [status EXCEPT ![r] = "pending"] /\ status[r] = "unused" /\ pc = "idle"
      /\ UNCHANGED <<refs, cancelMark, cancelRoutine, isrVars, timer, information, cancelled>>
  BY DEF StartOrQueue, Brings
<1>2. /\ r # NoReq /\ r \notin ToSet(writeQueue) /\ r \notin Lost
      /\ \A s \in Slots : current[s] # r
      /\ refs[r] = {} /\ cancelMark[r] = "none"
  BY <1>1, Fresh
<1>3. /\ \A s \in Req : s # r => status'[s] = status[s]
      /\ status'[r] = "pending"
  BY <1>1 DEF WInv, SlotTypes
<1>4. /\ Parameters'
      /\ length' \in [Req -> Nat] /\ xc' \in [Req -> [counter : Nat, timeout : BOOLEAN]]
      /\ \A s \in Req : s # r => xc'[s] = xc[s]
  BY <1>3, BroughtParameters
<1>5. /\ writeQueue \in Seq(Req) /\ Distinct(writeQueue) /\ ToSet(writeQueue) \subseteq Req
      /\ current \in [Slots -> Req \cup {NoReq}]
      /\ \A s \in ToSet(writeQueue) : status[s] = "pending"
  BY DEF WInv, SlotTypes, Owned, ToSet
\* Either way it is now in one place.
<1>6. \/ /\ current["Write"] = NoReq /\ current' = [current EXCEPT !["Write"] = r]
         /\ pc' = "start" /\ writeQueue' = writeQueue
      \/ /\ current' = current /\ pc' = "idle" /\ writeQueue' = Append(writeQueue, r)
  BY <1>1 DEF StartOrQueue
<1>7. /\ Append(writeQueue, r) \in Seq(Req) /\ Distinct(Append(writeQueue, r))
      /\ ToSet(Append(writeQueue, r)) = ToSet(writeQueue) \cup {r}
  BY <1>2, <1>5, QueueAppend
<1>8. SlotTypes'
  <2>1. /\ current' \in [Slots -> Req \cup {NoReq}] /\ writeQueue' \in Seq(Req)
        /\ pc' \in {"idle", "start", "give", "purge"}
    BY <1>5, <1>6, <1>7
  <2>2. QED
    BY <1>1, <1>4, <2>1 DEF WInv, SlotTypes, isrVars
<1>9. Lost \subseteq Lost'
  <2>1. \A s \in Lost : s # r /\ s \notin ToSet(writeQueue')
    BY <1>2, <1>6, <1>7 DEF Lost
  <2>2. \A s \in Lost, t \in Slots : current'[t] # s
    BY <1>2, <1>5, <1>6 DEF Lost
  <2>3. QED
    BY <1>3, <2>1, <2>2 DEF Lost
<1>10. \A s \in Slots : /\ Started(s)' <=> Started(s)
                        /\ Started(s) => current'[s] = current[s]
                        /\ ~Started(s) => current'[s] = current[s] \/ s = "Write"
  BY <1>1, <1>5, <1>6 DEF Started, Slots
<1>11. Owned'
  <2>1. CASE current' = current /\ writeQueue' = Append(writeQueue, r)
    BY <1>2, <1>3, <1>5, <1>7, <2>1 DEF WInv, Owned
  <2>2. CASE current' = [current EXCEPT !["Write"] = r] /\ writeQueue' = writeQueue
    <3>1. /\ current'["Write"] = r
          /\ \A s \in Slots : s # "Write" => current'[s] = current[s]
      BY <1>5, <2>2 DEF Slots
    <3>2. \A s \in Slots : current'[s] # NoReq =>
            status'[current'[s]] = "pending" /\ current'[s] \notin ToSet(writeQueue')
      BY <1>2, <1>3, <1>5, <2>2, <3>1 DEF WInv, Owned
    <3>3. \A s, t \in Slots : current'[s] = current'[t] => s = t \/ current'[s] = NoReq
      BY <1>2, <3>1 DEF WInv, Owned
    <3>4. \A s \in ToSet(writeQueue') : status'[s] = "pending"
      BY <1>3, <1>5, <2>2
    <3>5. QED
      BY <1>5, <2>2, <3>2, <3>3, <3>4 DEF Owned
  <2>3. QED
    BY <1>6, <2>1, <2>2
<1>12. Phase'
  BY <1>2, <1>5, <1>6 DEF Phase, Slots
<1>13. Holders'
  <2>1. current'["Xoff"] = current["Xoff"]
        /\ (current["Xoff"] # NoReq => current["Xoff"] \in Req /\ current["Xoff"] # r)
    BY <1>2, <1>5, <1>6 DEF Slots
  <2>2. QED
    BY <1>1, <1>4, <1>9, <1>10, <2>1 DEF WInv, Holders
<1>14. Slotwise'
  <2>1. ASSUME NEW s \in Slots, OwnersAgree(s)
        PROVE  OwnersAgree(s)'
    <3>1. completeDpc'[s] = completeDpc[s] /\ timer'[s] = timer[s] /\ (IsrHas(s)' <=> IsrHas(s))
      BY <1>1 DEF isrVars, IsrHas
    <3>2. CASE Started(s)
      <4>1. current[s] \in Req /\ current[s] # r
        BY <1>2, <3>2 DEF Started, WInv, SlotTypes
      <4>2. LET c == current[s] IN
            /\ refs'[c] = refs[c] /\ cancelMark'[c] = cancelMark[c]
            /\ cancelRoutine'[c] = cancelRoutine[c] /\ xc'[c] = xc[c]
        BY <1>1, <1>4, <4>1
      <4>3. current'[s] = current[s] /\ (Started(s)' <=> Started(s))
        BY <1>10, <3>2
      <4>4. QED
        BY <2>1, <3>1, <4>2, <4>3, SlotKept
    <3>3. CASE ~Started(s)
      <4>1. ~Started(s)' /\ ~IsrHas(s) /\ ~completeDpc[s] /\ timer[s] = "off"
        BY <1>10, <2>1, <3>3 DEF OwnersAgree
      <4>2. QED
        BY <3>1, <4>1 DEF OwnersAgree
    <3>4. QED
      BY <3>2, <3>3
  <2>2. QED
    BY <1>9, <2>1 DEF WInv, Slotwise, Slots
<1>15. Untouched
  BY <1>1, <1>3, <1>9 DEF Untouched, Done
<1>16. QED
  BY <1>4, <1>8, <1>11, <1>12, <1>13, <1>14, <1>15 DEF WInv

\* A request that is given to the ISR: who will come back for it.
LEMMA GivenToIsr ==
  ASSUME SlotTypes, NEW slot \in Slots, NEW r \in Req, NEW timed \in BOOLEAN,
         GiveToIsr(slot, r, timed)
  PROVE  /\ refs' \in [Req -> SUBSET RefTypes] /\ cancelMark' \in [Req -> CancelStates]
         /\ cancelRoutine' \in [Req -> Slots]
         /\ refs'[r] \subseteq {"ISR", "CANCEL", "TOTAL_TIMER"}
         /\ "ISR" \in refs'[r] /\ "CANCEL" \in refs'[r]
         /\ "TOTAL_TIMER" \in refs'[r] <=> timed /\ timer[slot] # "set"
         /\ cancelMark'[r] # "none" /\ cancelRoutine'[r] = slot
         /\ \A s \in Req : s # r =>
              /\ refs'[s] = refs[s] /\ cancelMark'[s] = cancelMark[s]
              /\ cancelRoutine'[s] = cancelRoutine[s]
<1> DEFINE given == {"ISR", "CANCEL"}
                      \cup (IF timed /\ timer[slot] # "set" THEN {"TOTAL_TIMER"} ELSE {})
           mark == Marked(cancelled[r])
<1>1. /\ refs' = [refs EXCEPT ![r] = given] /\ cancelMark' = [cancelMark EXCEPT ![r] = mark]
      /\ cancelRoutine' = [cancelRoutine EXCEPT ![r] = slot]
  BY DEF GiveToIsr
<1>2. /\ given \in SUBSET RefTypes /\ given \subseteq {"ISR", "CANCEL", "TOTAL_TIMER"}
      /\ "ISR" \in given /\ "CANCEL" \in given
      /\ "TOTAL_TIMER" \in given <=> timed /\ timer[slot] # "set"
  BY DEF RefTypes
<1>3. mark \in CancelStates /\ mark # "none"
  BY DEF Marked, CancelStates
<1> HIDE DEF given, mark
<1>4. /\ refs \in [Req -> SUBSET RefTypes] /\ cancelMark \in [Req -> CancelStates]
      /\ cancelRoutine \in [Req -> Slots]
  BY DEF SlotTypes
<1>5. QED
  BY <1>1, <1>2, <1>3, <1>4

\* The slot it was given to, whose timer was off.
LEMMA GivenAgrees ==
  ASSUME SlotTypes, NEW slot \in Slots, NEW r \in Req, NEW timed \in BOOLEAN,
         GiveToIsr(slot, r, timed), timer[slot] = "off",
         timer'[slot] = IF timed THEN "set" ELSE "off",
         current'[slot] = r, pc' = "idle" \/ slot # "Write",
         IsrHas(slot)', ~completeDpc'[slot]
  PROVE  OwnersAgree(slot)'
<1>1. r # NoReq
  BY ReqAssumption
<1>2. Started(slot)'
  BY <1>1 DEF Started
<1>3. /\ refs'[r] \subseteq {"ISR", "CANCEL", "TOTAL_TIMER"}
      /\ "ISR" \in refs'[r] /\ "CANCEL" \in refs'[r]
      /\ "TOTAL_TIMER" \in refs'[r] <=> timed
      /\ cancelMark'[r] # "none" /\ cancelRoutine'[r] = slot
  BY GivenToIsr
<1>4. QED
  BY <1>2, <1>3 DEF OwnersAgree

LEMMA StartImmediatePreserves ==
  ASSUME WInv, NEW r \in Req, NEW n, NEW x, Brings(r, n, x), NEW timed \in BOOLEAN,
         StartImmediate(r, timed)
  PROVE  WInv' /\ Untouched
<1>1. /\ status' = [status EXCEPT ![r] = "pending"] /\ status[r] = "unused" /\ pc = "idle"
      /\ current["Immediate"] = NoReq
      /\ current' = [current EXCEPT !["Immediate"] = r]
      /\ GiveToIsr("Immediate", r, timed)
      /\ timer' = [timer EXCEPT !["Immediate"] = IF timed THEN "set" ELSE @]
      /\ transmitImmediate' = TRUE
      /\ UNCHANGED <<writeQueue, writeLength, countSinceXoff, completeDpc, pc, information,
                     cancelled>>
  BY DEF StartImmediate, StartTimer, Brings
<1>2. /\ r # NoReq /\ r \notin ToSet(writeQueue) /\ r \notin Lost
      /\ \A s \in Slots : current[s] # r
      /\ refs[r] = {} /\ cancelMark[r] = "none"
  BY <1>1, Fresh
<1>3. /\ \A s \in Req : s # r => status'[s] = status[s]
      /\ status'[r] = "pending"
  BY <1>1 DEF WInv, SlotTypes
<1>4. /\ Parameters'
      /\ length' \in [Req -> Nat] /\ xc' \in [Req -> [counter : Nat, timeout : BOOLEAN]]
      /\ \A s \in Req : s # r => xc'[s] = xc[s]
  BY <1>3, BroughtParameters
<1>5. /\ writeQueue \in Seq(Req) /\ ToSet(writeQueue) \subseteq Req
      /\ current \in [Slots -> Req \cup {NoReq}] /\ "Immediate" \in Slots
      /\ SlotTypes
  BY DEF WInv, SlotTypes, ToSet, Slots
<1>6. /\ refs' \in [Req -> SUBSET RefTypes] /\ cancelMark' \in [Req -> CancelStates]
      /\ cancelRoutine' \in [Req -> Slots]
      /\ refs'[r] \subseteq {"ISR", "CANCEL", "TOTAL_TIMER"}
      /\ "CANCEL" \in refs'[r] /\ cancelMark'[r] # "none"
      /\ \A s \in Req : s # r =>
              /\ refs'[s] = refs[s] /\ cancelMark'[s] = cancelMark[s]
              /\ cancelRoutine'[s] = cancelRoutine[s]
  BY <1>1, <1>5, GivenToIsr
<1>7. /\ current'["Immediate"] = r
      /\ \A s \in Slots : s # "Immediate" => current'[s] = current[s] /\ timer'[s] = timer[s]
      /\ timer'["Immediate"] = IF timed THEN "set" ELSE timer["Immediate"]
  BY <1>1, <1>5 DEF WInv, SlotTypes
<1>8. SlotTypes'
  <2>1. /\ current' \in [Slots -> Req \cup {NoReq}] /\ DOMAIN status' = Req
        /\ timer' \in [Slots -> TimerStates]
    BY <1>1, <1>5 DEF SlotTypes, TimerStates
  <2>2. QED
    BY <1>1, <1>4, <1>5, <1>6, <2>1 DEF SlotTypes
<1>9. Lost \subseteq Lost'
  <2>1. \A s \in Lost : s # r /\ s \notin ToSet(writeQueue')
    BY <1>1, <1>2 DEF Lost
  <2>2. \A s \in Lost, t \in Slots : current'[t] # s
    BY <1>2, <1>7 DEF Lost
  <2>3. QED
    BY <1>3, <2>1, <2>2 DEF Lost
<1>10. \A s \in Slots : s # "Immediate" => (Started(s)' <=> Started(s))
  BY <1>1, <1>7 DEF Started
<1>11. Owned'
  <2>1. \A s \in Slots : current'[s] # NoReq =>
          status'[current'[s]] = "pending" /\ current'[s] \notin ToSet(writeQueue')
    BY <1>1, <1>2, <1>3, <1>5, <1>7 DEF WInv, Owned
  <2>2. \A s, t \in Slots : current'[s] = current'[t] => s = t \/ current'[s] = NoReq
    BY <1>2, <1>7 DEF WInv, Owned
  <2>3. QED
    BY <1>1, <1>2, <1>3, <1>5, <2>1, <2>2 DEF WInv, Owned
<1>12. Phase'
  BY <1>1, <1>7 DEF Phase
<1>13. Holders'
  <2>1. current'["Xoff"] = current["Xoff"]
        /\ (current["Xoff"] # NoReq => current["Xoff"] \in Req /\ current["Xoff"] # r)
    BY <1>2, <1>5, <1>7 DEF Slots
  <2>2. Started("Immediate")' /\ current'["Immediate"] = r
    BY <1>2, <1>7 DEF Started
  <2>3. ASSUME NEW s \in Req, s # r
        PROVE  /\ refs'[s] \subseteq {"ISR", "CANCEL", "TOTAL_TIMER"}
               /\ "CANCEL" \in refs'[s] <=> cancelMark'[s] # "none"
               /\ refs'[s] # {} => \/ s \in Lost'
                                   \/ \E t \in Slots : Started(t)' /\ current'[t] = s
    <3>1. refs[s] # {} => \/ s \in Lost
                          \/ \E t \in Slots : Started(t) /\ current[t] = s
      BY DEF WInv, Holders
    <3>2. \A t \in Slots : Started(t) => t # "Immediate"
      BY <1>1 DEF Started
    <3>3. QED
      BY <1>6, <1>7, <1>9, <1>10, <2>3, <3>1, <3>2 DEF WInv, Holders
  <2>4. LET c == current'["Xoff"] IN
          c # NoReq /\ "TOTAL_TIMER" \in refs'[c] => xc'[c].timeout
    BY <1>4, <1>6, <2>1 DEF WInv, Holders
  <2>5. QED
    BY <1>5, <1>6, <2>2, <2>3, <2>4 DEF Holders
<1>14. OwnersAgree("Immediate")'
  <2>1. timer["Immediate"] = "off" /\ ~completeDpc["Immediate"]
    BY <1>1 DEF WInv, Slotwise, OwnersAgree, Started
  <2>2. IsrHas("Immediate")' /\ ~completeDpc'["Immediate"]
    BY <1>1, <2>1 DEF IsrHas
  <2>3. QED
    BY <1>1, <1>5, <1>7, <2>1, <2>2, GivenAgrees
<1>15. Slotwise'
  <2>1. ASSUME NEW s \in Slots, s # "Immediate", OwnersAgree(s)
        PROVE  OwnersAgree(s)'
    <3>1. /\ current'[s] = current[s] /\ (Started(s)' <=> Started(s))
          /\ completeDpc'[s] = completeDpc[s] /\ timer'[s] = timer[s]
          /\ IsrHas(s)' <=> IsrHas(s)
      BY <1>1, <1>7, <1>10, <2>1 DEF IsrHas, Slots
    <3>2. Started(s) => current[s] \in Req /\ current[s] # r
      BY <1>2 DEF Started, WInv, SlotTypes
    <3>3. LET c == current[s] IN
          Started(s) => /\ refs'[c] = refs[c] /\ cancelMark'[c] = cancelMark[c]
                        /\ cancelRoutine'[c] = cancelRoutine[c] /\ xc'[c] = xc[c]
      BY <1>4, <1>6, <3>2
    <3>4. QED
      BY <2>1, <3>1, <3>3, SlotKept
  <2>2. QED
    BY <1>9, <1>14, <2>1 DEF WInv, Slotwise, Slots
<1>16. Untouched
  BY <1>1, <1>3, <1>9 DEF Untouched, Done
<1>17. QED
  BY <1>4, <1>8, <1>11, <1>12, <1>13, <1>15, <1>16 DEF WInv

LEMMA ArrivalsPreserve ==
  ASSUME WInv,
         \/ \E r \in Writes, n \in Lens : EvtIoWrite(r, n)
         \/ \E r \in XoffReqs, c \in Counters, t \in XoffTimeouts : XoffCounter(r, c, t)
         \/ \E r \in Immediates : ImmediateChar(r)
  PROVE  WInv' /\ Untouched
<1>1. /\ \A n \in Lens : n \in Nat /\ n > 0
      /\ \A c \in Counters : c \in Nat /\ c > 0
      /\ \A t \in XoffTimeouts : t \in BOOLEAN
      /\ \A t \in TotalTimeouts : t \in BOOLEAN
      /\ NoXc \in [counter : Nat, timeout : BOOLEAN]
  BY LengthAssumption, OptionAssumption DEF NoXc
<1>2. /\ \A r \in Writes : r \in Req /\ r \notin XoffReqs
      /\ \A r \in XoffReqs : r \in Req /\ r \notin Writes
      /\ \A r \in Immediates : r \in Req /\ r \notin Writes /\ r \notin XoffReqs
  BY ReqAssumption DEF Req
<1>3. ASSUME NEW r \in Writes, NEW n \in Lens, EvtIoWrite(r, n)
      PROVE  WInv' /\ Untouched
  <2>1. Brings(r, n, NoXc)
    BY <1>1, <1>2, <1>3 DEF EvtIoWrite, Arrives, Brings
  <2>2. StartOrQueue(r, n) \/ CompleteAtOnce(r, "CANCELLED")
    BY <1>3 DEF EvtIoWrite
  <2>3. QED
    BY <1>2, <2>1, <2>2, StartOrQueuePreserves, CompleteAtOncePreserves
<1>4. ASSUME NEW r \in XoffReqs, NEW c \in Counters, NEW t \in XoffTimeouts,
             XoffCounter(r, c, t)
      PROVE  WInv' /\ Untouched
  <2> DEFINE x == [counter |-> c, timeout |-> t]
  <2>1. Brings(r, 0, x)
    BY <1>1, <1>2, <1>4 DEF XoffCounter, Arrives, Brings
  <2>2. StartOrQueue(r, 1) \/ CompleteAtOnce(r, "CANCELLED")
    BY <1>4 DEF XoffCounter
  <2> HIDE DEF x
  <2>3. QED
    BY <1>2, <2>1, <2>2, StartOrQueuePreserves, CompleteAtOncePreserves
<1>5. ASSUME NEW r \in Immediates, ImmediateChar(r)
      PROVE  WInv' /\ Untouched
  <2>1. Brings(r, 0, NoXc)
    BY <1>1, <1>2, <1>5 DEF ImmediateChar, Arrives, Brings
  <2>2. \/ \E timed \in BOOLEAN : StartImmediate(r, timed)
        \/ \E final \in Done : CompleteAtOnce(r, final)
    BY <1>1, <1>5 DEF ImmediateChar, Done
  <2>3. QED
    BY <1>2, <2>1, <2>2, StartImmediatePreserves, CompleteAtOncePreserves
<1>6. QED
  BY <1>3, <1>4, <1>5

LEMMA EvtCanceledOnQueuePreserves ==
  ASSUME WInv, NEW r \in Req, EvtCanceledOnQueue(r)
  PROVE  WInv' /\ Untouched
<1>1. /\ status' = [status EXCEPT ![r] = "CANCELLED"]
      /\ cancelled' = [cancelled EXCEPT ![r] = TRUE]
      /\ UNCHANGED <<length, xc, information, refs, cancelMark, cancelRoutine, current, pc,
                     isrVars, timer>>
  BY DEF EvtCanceledOnQueue
<1>2. PICK i \in DOMAIN writeQueue : writeQueue[i] = r /\ writeQueue' = RemoveAt(writeQueue, i)
  BY DEF EvtCanceledOnQueue
<1>3. /\ writeQueue' \in Seq(Req) /\ Distinct(writeQueue')
      /\ ToSet(writeQueue') \subseteq ToSet(writeQueue) /\ r \notin ToSet(writeQueue')
  <2>1. writeQueue \in Seq(Req) /\ Distinct(writeQueue)
    BY DEF WInv, SlotTypes, Owned
  <2>2. QED
    BY <1>2, <2>1, QueueRemove
<1>4. /\ r \in ToSet(writeQueue) /\ status[r] = "pending" /\ ToSet(writeQueue) \subseteq Req
      /\ \A s \in Slots : current[s] # r
  <2>1. r \in ToSet(writeQueue) /\ ToSet(writeQueue) \subseteq Req
    BY <1>2 DEF WInv, SlotTypes, ToSet
  <2>2. QED
    BY <2>1, ReqAssumption DEF WInv, Owned
<1>5. \A s \in Req : s # r => status'[s] = status[s]
  BY <1>1 DEF WInv, SlotTypes
<1>6. SlotTypes'
  BY <1>1, <1>3 DEF WInv, SlotTypes, isrVars
<1>7. Lost \subseteq Lost'
  BY <1>1, <1>3, <1>4, <1>5 DEF Lost
<1>8. Owned'
  <2>1. \A s \in Slots : current[s] # NoReq => current[s] \in Req /\ current[s] # r
    BY <1>4 DEF WInv, SlotTypes
  <2>2. QED
    BY <1>1, <1>3, <1>4, <1>5, <2>1 DEF WInv, Owned
<1>9. Parameters'
  BY <1>1, <1>4, ParametersKept, <1>5
<1>10. Phase' /\ \A s \in Slots : Started(s)' <=> Started(s)
  BY <1>1 DEF WInv, Phase, Started
<1>11. Holders'
  BY <1>1, <1>7, <1>10 DEF WInv, Holders
<1>12. Slotwise'
  <2>1. ASSUME NEW s \in Slots, OwnersAgree(s)
        PROVE  OwnersAgree(s)'
    BY <1>1, <1>10, <2>1 DEF OwnersAgree, IsrHas, isrVars
  <2>2. QED
    BY <1>7, <2>1 DEF WInv, Slotwise, Slots
<1>13. Untouched
  BY <1>1, <1>4, <1>5, <1>7 DEF Untouched, Done
<1>14. QED
  BY <1>6, <1>8, <1>9, <1>10, <1>11, <1>12, <1>13 DEF WInv

-----------------------------------------------------------------------------
(* Those who try to complete a current request.                            *)

\* SerialCancelCurrentWrite, SerialCancelCurrentXoff and SerialCancelImmediate.
LEMMA CancelCurrentPreserves ==
  ASSUME WInv, pc \in {"idle", "purge"}, NEW slot \in Slots, current[slot] # NoReq,
         NEW purged \in BOOLEAN, NEW back \in {"idle", "purge"},
         CancelCurrent(slot, purged, back), completeDpc' = completeDpc
  PROVE  WInv' /\ Untouched
<1>1. TryToComplete(slot, TRUE, "CANCELLED", "CANCEL", timer[slot], purged, back)
  BY DEF CancelCurrent
<1>2. Calls(slot, TRUE, "CANCEL", timer[slot], back)
  BY DEF Calls, Started, WInv, SlotTypes
<1>3. "CANCELLED" \in Done
  BY DEF Done
<1>4. QED
  BY <1>1, <1>2, <1>3, TryToCompletePreserves

LEMMA CancelCallbackPreserves ==
  ASSUME WInv, NEW r \in Req, CancelCallback(r)
  PROVE  WInv' /\ Untouched
<1>1. /\ pc = "idle" /\ current[cancelRoutine[r]] = r /\ r # NoReq
      /\ CancelCurrent(cancelRoutine[r], FALSE, "idle") /\ completeDpc' = completeDpc
  BY ReqAssumption DEF CancelCallback
<1>2. cancelRoutine[r] \in Slots
  BY DEF WInv, SlotTypes
<1>3. QED
  BY <1>1, <1>2, CancelCurrentPreserves

\* The DPCs of the ISR, for a request that is done with.
LEMMA CompletePreserves ==
  ASSUME WInv, NEW slot \in Slots, pc = "idle", completeDpc[slot],
         completeDpc' = [completeDpc EXCEPT ![slot] = FALSE],
         TryToComplete(slot, FALSE, "SUCCESS", "ISR", timer[slot], FALSE, "idle")
  PROVE  WInv' /\ Untouched
<1>1. current[slot] # NoReq
  BY DEF TryToComplete
<1>2. Calls(slot, FALSE, "ISR", timer[slot], "idle")
  BY <1>1 DEF Calls, Started, WInv, SlotTypes
<1>3. "SUCCESS" \in Done
  BY DEF Done
<1>4. QED
  BY <1>2, <1>3, TryToCompletePreserves

\* The timers.
LEMMA TimeoutPreserves ==
  ASSUME WInv, NEW slot \in Slots, pc = "idle", timer[slot] = "fired",
         NEW total, total = timer[slot] \/ (slot = "Xoff" /\ total = NullTimer),
         TryToComplete(slot, TRUE, "TIMEOUT", "TOTAL_TIMER", total, FALSE, "idle"),
         completeDpc' = completeDpc
  PROVE  WInv' /\ Untouched
<1>1. current[slot] # NoReq
  BY DEF TryToComplete
<1>2. Calls(slot, TRUE, "TOTAL_TIMER", total, "idle")
  BY <1>1 DEF Calls, Started, WInv, SlotTypes
<1>3. "TIMEOUT" \in Done
  BY DEF Done
<1>4. QED
  BY <1>2, <1>3, TryToCompletePreserves

LEMMA AbortXoffPreserves ==
  ASSUME WInv, AbortXoff
  PROVE  WInv' /\ Untouched
<1>1. /\ pc = "start" /\ current["Xoff"] # NoReq /\ completeDpc' = completeDpc
      /\ TryToComplete("Xoff", TRUE, "MORE_WRITES", "XOFF_REF", timer["Xoff"], FALSE, "give")
      /\ "Xoff" \in Slots
  BY DEF AbortXoff, XoffCounts, Slots
<1>2. Calls("Xoff", TRUE, "XOFF_REF", timer["Xoff"], "give")
  BY <1>1 DEF Calls, Started, WInv, SlotTypes
<1>3. "MORE_WRITES" \in Done
  BY DEF Done
<1>4. QED
  BY <1>1, <1>2, <1>3, TryToCompletePreserves

\* SerialFlushRequests: a purge of the framework's queue, and of the current request
\* when it can be.
LEMMA FlushPreserves ==
  ASSUME WInv, pc \in {"idle", "purge"}, NEW slot \in Slots, NEW back \in {"idle", "purge"},
         FlushRequests(slot, back)
  PROVE  WInv' /\ Untouched
<1>1. completeDpc' = completeDpc
  BY DEF FlushRequests
<1>2. CASE current[slot] # NoReq /\ cancelMark[current[slot]] = "cancelable"
  <2>1. CancelCurrent(slot, TRUE, back)
    BY <1>2 DEF FlushRequests
  <2>2. QED
    BY <1>1, <1>2, <2>1, CancelCurrentPreserves
<1>3. CASE ~(current[slot] # NoReq /\ cancelMark[current[slot]] = "cancelable")
  <2>1. /\ status' = StatusAfter(TRUE) /\ writeQueue' = << >> /\ pc' = back
        /\ UNCHANGED <<length, xc, cancelled, information, refs, cancelMark, cancelRoutine,
                       current, writeLength, transmitImmediate, countSinceXoff, timer>>
    BY <1>3 DEF FlushRequests, requestVars
  <2>2. /\ DOMAIN StatusAfter(TRUE) = Req
        /\ \A r \in Req : r \notin ToSet(writeQueue) => StatusAfter(TRUE)[r] = status[r]
        /\ \A r \in Req : StatusAfter(TRUE)[r] = "pending" => status[r] = "pending"
        /\ \A r \in Req : status[r] \in Done => StatusAfter(TRUE)[r] = status[r]
    BY Purged
  <2>3. << >> \in Seq(Req) /\ Distinct(<< >>) /\ ToSet(<< >>) = {}
    BY DEF Distinct, ToSet
  <2>4. SlotTypes'
    BY <1>1, <2>1, <2>2, <2>3 DEF WInv, SlotTypes
  <2>5. Owned'
    <3>1. \A s \in Slots : current[s] # NoReq =>
            current[s] \in Req /\ status[current[s]] = "pending"
              /\ current[s] \notin ToSet(writeQueue)
      BY DEF WInv, SlotTypes, Owned
    <3>2. \A s \in Slots : current'[s] # NoReq =>
            status'[current'[s]] = "pending" /\ current'[s] \notin ToSet(writeQueue')
      BY <2>1, <2>2, <2>3, <3>1
    <3>3. QED
      BY <2>1, <2>3, <3>2 DEF WInv, Owned
  <2>6. Parameters'
    BY <2>1, <2>2, ParametersKept
  <2>7. Phase' /\ \A s \in Slots : Started(s)' <=> Started(s)
    BY <2>1 DEF Phase, Started
  <2>8. Lost \subseteq Lost'
    BY <2>1, <2>2, <2>3 DEF Lost
  <2>9. Holders'
    BY <2>1, <2>7, <2>8 DEF WInv, Holders
  <2>10. Slotwise'
    <3>1. ASSUME NEW s \in Slots, OwnersAgree(s)
          PROVE  OwnersAgree(s)'
      BY <1>1, <2>1, <2>7, <3>1 DEF OwnersAgree, IsrHas
    <3>2. QED
      BY <2>8, <3>1 DEF WInv, Slotwise, Slots
  <2>11. Untouched
    BY <2>1, <2>2, <2>8 DEF Untouched
  <2>12. QED
    BY <2>4, <2>5, <2>6, <2>7, <2>9, <2>10, <2>11 DEF WInv
<1>4. QED
  BY <1>2, <1>3

-----------------------------------------------------------------------------
(* A write starts, and an xoff counter's write becomes the counter.        *)

LEMMA GiveWriteToIsrPreserves ==
  ASSUME WInv, NEW timed \in BOOLEAN, GiveWriteToIsr(timed)
  PROVE  WInv' /\ Untouched
<1> DEFINE r == current["Write"]
<1>1. /\ pc \in {"start", "give"} /\ GiveToIsr("Write", r, timed)
      /\ timer' = [timer EXCEPT !["Write"] = IF timed THEN "set" ELSE @]
      /\ writeLength' = Chars(r) /\ pc' = "idle"
      /\ UNCHANGED <<length, xc, cancelled, status, information, current, writeQueue,
                     transmitImmediate, countSinceXoff, completeDpc>>
  BY DEF GiveWriteToIsr, StartTimer, requestVars
<1>2. /\ r \in Req /\ r # NoReq /\ status[r] = "pending" /\ "Write" \in Slots
      /\ \A s \in Slots : s # "Write" => current[s] # r
  BY <1>1 DEF WInv, SlotTypes, Owned, Phase, Slots
<1>3. Chars(r) \in Nat /\ Chars(r) > 0
  BY <1>2 DEF Chars, WInv, SlotTypes, Parameters
<1>4. /\ timer["Write"] = "off" /\ ~completeDpc["Write"] /\ SlotTypes
      /\ ~Started("Write") /\ Started("Write")'
  BY <1>1, <1>2 DEF WInv, Slotwise, OwnersAgree, Started
<1>5. /\ refs' \in [Req -> SUBSET RefTypes] /\ cancelMark' \in [Req -> CancelStates]
      /\ cancelRoutine' \in [Req -> Slots]
      /\ refs'[r] \subseteq {"ISR", "CANCEL", "TOTAL_TIMER"}
      /\ "CANCEL" \in refs'[r] /\ cancelMark'[r] # "none"
      /\ \A s \in Req : s # r =>
              /\ refs'[s] = refs[s] /\ cancelMark'[s] = cancelMark[s]
              /\ cancelRoutine'[s] = cancelRoutine[s]
  BY <1>1, <1>2, <1>4, GivenToIsr
<1>6. /\ timer' \in [Slots -> TimerStates]
      /\ timer'["Write"] = IF timed THEN "set" ELSE "off"
      /\ \A s \in Slots : s # "Write" => timer'[s] = timer[s]
  BY <1>1, <1>2, <1>4 DEF SlotTypes, TimerStates
<1> HIDE DEF r
<1>7. SlotTypes'
  BY <1>1, <1>3, <1>4, <1>5, <1>6 DEF SlotTypes
<1>8. Owned' /\ Phase' /\ Lost' = Lost
  BY <1>1 DEF WInv, Owned, Phase, Lost
<1>9. Parameters'
  BY <1>1, ParametersKept
<1>10. \A s \in Slots : s # "Write" => (Started(s)' <=> Started(s))
  BY <1>1 DEF Started
<1>11. Holders'
  <2>1. current["Xoff"] # NoReq => current["Xoff"] \in Req /\ current["Xoff"] # r
    BY <1>2 DEF WInv, SlotTypes, Slots
  <2>2. ASSUME NEW s \in Req, s # r
        PROVE  /\ refs'[s] \subseteq {"ISR", "CANCEL", "TOTAL_TIMER"}
               /\ "CANCEL" \in refs'[s] <=> cancelMark'[s] # "none"
               /\ refs'[s] # {} => \/ s \in Lost'
                                   \/ \E t \in Slots : Started(t)' /\ current'[t] = s
    <3>1. refs[s] # {} => \/ s \in Lost
                          \/ \E t \in Slots : Started(t) /\ current[t] = s
      BY DEF WInv, Holders
    <3>2. \A t \in Slots : Started(t) => t # "Write"
      BY <1>4
    <3>3. QED
      BY <1>1, <1>5, <1>8, <1>10, <2>2, <3>1, <3>2 DEF WInv, Holders
  <2>3. Started("Write")' /\ current'["Write"] = r
    BY <1>1, <1>4 DEF r
  <2>4. LET c == current'["Xoff"] IN
          c # NoReq /\ "TOTAL_TIMER" \in refs'[c] => xc'[c].timeout
    BY <1>1, <1>5, <2>1 DEF WInv, Holders
  <2>5. QED
    BY <1>2, <1>5, <2>2, <2>3, <2>4 DEF Holders
<1>12. OwnersAgree("Write")'
  <2>1. IsrHas("Write")' /\ ~completeDpc'["Write"] /\ current'["Write"] = r
    BY <1>1, <1>3, <1>4 DEF IsrHas, r
  <2>2. GiveToIsr("Write", r, timed) /\ pc' = "idle"
    BY <1>1
  <2>3. QED
    BY <1>2, <1>4, <1>6, <2>1, <2>2, GivenAgrees
<1>13. Slotwise'
  <2>1. ASSUME NEW s \in Slots, s # "Write", OwnersAgree(s)
        PROVE  OwnersAgree(s)'
    <3>1. /\ current'[s] = current[s] /\ (Started(s)' <=> Started(s))
          /\ completeDpc'[s] = completeDpc[s] /\ timer'[s] = timer[s]
          /\ IsrHas(s)' <=> IsrHas(s)
      BY <1>1, <1>6, <1>10, <2>1 DEF IsrHas, Slots
    <3>2. Started(s) => current[s] \in Req /\ current[s] # r
      BY <1>2, <2>1 DEF Started, WInv, SlotTypes
    <3>3. LET c == current[s] IN
          Started(s) => /\ refs'[c] = refs[c] /\ cancelMark'[c] = cancelMark[c]
                        /\ cancelRoutine'[c] = cancelRoutine[c] /\ xc'[c] = xc[c]
      BY <1>1, <1>5, <3>2
    <3>4. QED
      BY <2>1, <3>1, <3>3, SlotKept
  <2>2. QED
    BY <1>8, <1>12, <2>1 DEF WInv, Slotwise, Slots
<1>14. Untouched
  BY <1>1, <1>8 DEF Untouched
<1>15. QED
  BY <1>7, <1>8, <1>9, <1>11, <1>13, <1>14 DEF WInv

\* When nothing is left of the references of the write, nobody works on its slot.
LEMMA NothingLeft ==
  ASSUME WInv, BecomesXoff, completeDpc["Write"]
  PROVE  ~IsrHas("Write") /\ Stopped(timer["Write"]) = "off"
<1> DEFINE r == current["Write"]
           t == timer["Write"]
<1>1. r \in Req /\ cancelMark[r] \in CancelStates /\ t \in TimerStates
  BY DEF BecomesXoff, WInv, SlotTypes, Slots, Req
<1>2. /\ ~IsrHas("Write") /\ (t # "off" => "TOTAL_TIMER" \in refs[r])
  BY DEF WInv, Slotwise, OwnersAgree
<1>3. (refs[r] \ ({"ISR"} \cup {}))
        \ (CancelRef(cancelMark[r], "ISR") \cup TimerRef(NullTimer, "INT_TIMER", "ISR")
             \cup TimerRef(t, "TOTAL_TIMER", "ISR")) = {}
  BY DEF BecomesXoff, RefsLeft, RundownIrpRefs
<1>4. "TOTAL_TIMER" \notin CancelRef(cancelMark[r], "ISR") \cup TimerRef(NullTimer, "INT_TIMER", "ISR")
  BY DEF CancelRef, TimerRef
<1>5. "TOTAL_TIMER" \in refs[r] => t = "set"
  <2>1. "TOTAL_TIMER" \in refs[r] => "TOTAL_TIMER" \in TimerRef(t, "TOTAL_TIMER", "ISR")
    BY <1>3, <1>4
  <2>2. QED
    BY <2>1 DEF TimerRef
<1>6. QED
  BY <1>1, <1>2, <1>5 DEF Stopped, TimerStates

LEMMA CompleteXoffWritePreserves ==
  ASSUME WInv, CompleteXoffWrite
  PROVE  WInv' /\ Untouched
<1> DEFINE r == current["Write"]
           timed == xc[r].timeout
<1>1. /\ pc = "idle" /\ completeDpc["Write"] /\ BecomesXoff
      /\ completeDpc' = [completeDpc EXCEPT !["Write"] = FALSE]
      /\ GiveToIsr("Xoff", r, timed)
      /\ timer' = [[timer EXCEPT !["Xoff"] = IF timed THEN "set" ELSE @]
                     EXCEPT !["Write"] = Stopped(@)]
      /\ countSinceXoff' = xc[r].counter
      /\ GetNextWrite(writeQueue, r, "idle")
      /\ UNCHANGED <<length, xc, cancelled, status, information, writeLength, transmitImmediate>>
  BY DEF CompleteXoffWrite, StartTimer, requestVars
<1>2. /\ r \in Req /\ r # NoReq /\ r \in XoffReqs /\ status[r] = "pending"
      /\ r \notin ToSet(writeQueue)
      /\ \A s \in Slots : s # "Write" => current[s] # r
      /\ "Write" \in Slots /\ "Xoff" \in Slots /\ "Immediate" \in Slots
  BY <1>1, ReqAssumption DEF BecomesXoff, WInv, SlotTypes, Owned, Slots, Req
<1>3. /\ xc[r] \in [counter : Nat, timeout : BOOLEAN] /\ xc[r].counter > 0
      /\ timed \in BOOLEAN /\ xc[r].counter \in Nat /\ SlotTypes
      /\ writeQueue \in Seq(Req) /\ Distinct(writeQueue) /\ ToSet(writeQueue) \subseteq Req
      /\ current \in [Slots -> Req \cup {NoReq}]
      /\ timer \in [Slots -> TimerStates] /\ completeDpc \in [Slots -> BOOLEAN]
  BY <1>2 DEF WInv, SlotTypes, Parameters, Owned, ToSet
<1>4. /\ refs' \in [Req -> SUBSET RefTypes] /\ cancelMark' \in [Req -> CancelStates]
      /\ cancelRoutine' \in [Req -> Slots]
      /\ refs'[r] \subseteq {"ISR", "CANCEL", "TOTAL_TIMER"}
      /\ "CANCEL" \in refs'[r] /\ cancelMark'[r] # "none"
      /\ "TOTAL_TIMER" \in refs'[r] => timed
      /\ \A s \in Req : s # r =>
              /\ refs'[s] = refs[s] /\ cancelMark'[s] = cancelMark[s]
              /\ cancelRoutine'[s] = cancelRoutine[s]
  BY <1>1, <1>2, <1>3, GivenToIsr
<1>5. /\ writeQueue' \in Seq(Req) /\ Distinct(writeQueue')
      /\ ToSet(writeQueue') \subseteq ToSet(writeQueue)
      /\ \E next \in Req \cup {NoReq} :
           /\ current' = [current EXCEPT !["Write"] = next, !["Xoff"] = r]
           /\ next \notin ToSet(writeQueue')
           /\ \/ next = NoReq /\ pc' = "idle"
              \/ next \in ToSet(writeQueue) /\ pc' = "start"
  BY <1>1, <1>3, NextWrite
<1>6. /\ current'["Xoff"] = r /\ current'["Immediate"] = current["Immediate"]
      /\ current' \in [Slots -> Req \cup {NoReq}]
      /\ current'["Write"] \notin ToSet(writeQueue')
      /\ \/ current'["Write"] = NoReq /\ pc' = "idle"
         \/ current'["Write"] \in ToSet(writeQueue) /\ pc' = "start"
  BY <1>2, <1>3, <1>5 DEF Slots
<1>7. /\ timer'["Write"] = Stopped(timer["Write"])
      /\ timer'["Xoff"] = IF timed THEN "set" ELSE timer["Xoff"]
      /\ timer'["Immediate"] = timer["Immediate"]
      /\ completeDpc' \in [Slots -> BOOLEAN] /\ completeDpc'["Write"] = FALSE
      /\ completeDpc'["Xoff"] = completeDpc["Xoff"]
      /\ completeDpc'["Immediate"] = completeDpc["Immediate"]
  BY <1>1, <1>3 DEF Slots
<1>8. timer' \in [Slots -> TimerStates]
  BY <1>1, <1>3 DEF Stopped, TimerStates
<1>9. /\ countSinceXoff' = xc[r].counter
      /\ UNCHANGED <<length, xc, cancelled, status, information, writeLength, transmitImmediate>>
  BY <1>1
<1>10. GiveToIsr("Xoff", r, timed)
  BY <1>1
<1>11. ~IsrHas("Write") /\ Stopped(timer["Write"]) = "off"
  BY <1>1, NothingLeft
<1>12. r = current["Write"] /\ timed = xc[r].timeout
  OBVIOUS
<1> HIDE DEF r, timed
<1>13. SlotTypes'
  BY <1>3, <1>4, <1>5, <1>6, <1>7, <1>8, <1>9 DEF SlotTypes
<1>14. Parameters'
  BY <1>9, ParametersKept
<1>15. Lost \subseteq Lost'
  <2>1. ASSUME NEW s \in Lost
        PROVE  s \in Lost'
    <3>1. /\ s \in Req /\ status[s] = "pending" /\ s \notin ToSet(writeQueue)
          /\ s # r /\ s # current["Immediate"]
      BY <1>2, <1>12 DEF Lost
    <3>2. \A t \in Slots : current'[t] # s
      BY <1>6, <3>1, ReqAssumption DEF Slots
    <3>3. QED
      BY <1>5, <1>9, <3>1, <3>2 DEF Lost
  <2>2. QED
    BY <2>1
<1>16. Owned'
  <2>1. \A s \in ToSet(writeQueue') : status'[s] = "pending"
    BY <1>5, <1>9 DEF WInv, Owned
  <2>2. \A s \in Slots : current'[s] # NoReq =>
          status'[current'[s]] = "pending" /\ current'[s] \notin ToSet(writeQueue')
    BY <1>2, <1>5, <1>6, <1>9 DEF WInv, Owned, Slots
  <2>3. current["Immediate"] # NoReq =>
          current["Immediate"] \notin ToSet(writeQueue) /\ current["Immediate"] # r
    BY <1>2 DEF WInv, Owned
  <2>4. \A s, t \in Slots : current'[s] = current'[t] => s = t \/ current'[s] = NoReq
    BY <1>2, <1>6, <2>3 DEF Slots
  <2>5. QED
    BY <1>5, <2>1, <2>2, <2>4 DEF Owned
<1>17. Phase'
  BY <1>3, <1>6, ReqAssumption DEF Phase
<1>18. /\ ~Started("Write")' /\ Started("Xoff")'
       /\ Started("Immediate")' <=> Started("Immediate")
  BY <1>2, <1>6 DEF Started
<1>19. Holders'
  <2>1. ASSUME NEW s \in Req, s # r
        PROVE  /\ refs'[s] \subseteq {"ISR", "CANCEL", "TOTAL_TIMER"}
               /\ "CANCEL" \in refs'[s] <=> cancelMark'[s] # "none"
               /\ refs'[s] # {} => \/ s \in Lost'
                                   \/ \E t \in Slots : Started(t)' /\ current'[t] = s
    <3>1. \/ refs[s] = {} \/ s \in Lost \/ (Started("Immediate") /\ current["Immediate"] = s)
          \/ (s # NoReq /\ current["Xoff"] = s)
      BY <1>12, <2>1, ReqAssumption DEF WInv, Holders, Slots
    <3>2. s # NoReq /\ current["Xoff"] = s => s \in Lost'
      <4>1. s # NoReq /\ current["Xoff"] = s =>
              /\ status[s] = "pending" /\ s \notin ToSet(writeQueue)
              /\ current["Immediate"] # s
        BY <1>2 DEF WInv, Owned
      <4>2. s # NoReq /\ current["Xoff"] = s =>
              status'[s] = "pending" /\ s \notin ToSet(writeQueue')
                /\ \A t \in Slots : current'[t] # s
        BY <1>5, <1>6, <1>9, <2>1, <4>1 DEF Slots
      <4>3. QED
        BY <4>2 DEF Lost
    <3>3. QED
      BY <1>2, <1>4, <1>6, <1>15, <1>18, <2>1, <3>1, <3>2 DEF WInv, Holders
  <2>2. QED
    BY <1>2, <1>4, <1>6, <1>9, <1>12, <1>18, <2>1 DEF Holders
<1>20. OwnersAgree("Write")'
  BY <1>7, <1>9, <1>11, <1>18 DEF OwnersAgree, IsrHas
<1>21. OwnersAgree("Immediate")'
  <2>1. OwnersAgree("Immediate") /\ (IsrHas("Immediate")' <=> IsrHas("Immediate"))
    BY <1>9 DEF WInv, Slotwise, IsrHas
  <2>2. Started("Immediate") => current["Immediate"] \in Req /\ current["Immediate"] # r
    BY <1>2, <1>3 DEF Started
  <2>3. LET c == current["Immediate"] IN
        Started("Immediate") => /\ refs'[c] = refs[c] /\ cancelMark'[c] = cancelMark[c]
                                /\ cancelRoutine'[c] = cancelRoutine[c] /\ xc'[c] = xc[c]
    BY <1>4, <1>9, <2>2
  <2>4. QED
    BY <1>2, <1>6, <1>7, <1>18, <2>1, <2>3, SlotKept
\* Unless the counter that was current is lost, its slot was free.
<1>22. ASSUME Lost' = {}
       PROVE  OwnersAgree("Xoff")'
  <2>1. current["Xoff"] = NoReq
    <3> DEFINE c == current["Xoff"]
    <3>1. SUFFICES ASSUME c # NoReq
                   PROVE  c \in Lost'
      BY <1>22
    <3>2. /\ c \in Req /\ c # r /\ status[c] = "pending" /\ c \notin ToSet(writeQueue)
          /\ current["Immediate"] # c
      BY <1>2, <1>3, <3>1 DEF WInv, Owned
    <3>3. \A t \in Slots : current'[t] # c
      BY <1>6, <3>1, <3>2 DEF Slots
    <3>4. QED
      BY <1>5, <1>9, <3>2, <3>3 DEF Lost
  <2>2. OwnersAgree("Xoff") /\ ~Started("Xoff")
    BY <1>15, <1>22, <2>1 DEF WInv, Slotwise, Started
  <2>3. timer["Xoff"] = "off" /\ ~completeDpc["Xoff"]
    BY <2>2 DEF OwnersAgree
  <2>4. IsrHas("Xoff")'
    BY <1>3, <1>9 DEF IsrHas
  <2>5. timer'["Xoff"] = IF timed THEN "set" ELSE "off"
    BY <1>7, <2>3
  <2>6. QED
    BY <1>2, <1>3, <1>6, <1>7, <1>10, <2>3, <2>4, <2>5, GivenAgrees
<1>23. Slotwise'
  BY <1>20, <1>21, <1>22 DEF Slotwise
<1>24. Untouched
  BY <1>9, <1>15 DEF Untouched
<1>25. QED
  BY <1>13, <1>14, <1>16, <1>17, <1>19, <1>23, <1>24 DEF WInv

-----------------------------------------------------------------------------
(* The invariant of the specification.                                     *)

\* SerialFlush stops the queue, and lets it go on.
LEMMA QuietStep ==
  ASSUME WInv,
         UNCHANGED <<requestVars, status, information, refs, cancelMark, cancelRoutine,
                     current, writeQueue, isrVars, timer, pc>>
  PROVE  WInv' /\ Untouched
<1>1. UNCHANGED <<length, xc, cancelled, writeLength, transmitImmediate, countSinceXoff,
                  completeDpc>>
  BY DEF requestVars, isrVars
<1>2. SlotTypes'
  BY <1>1 DEF WInv, SlotTypes
<1>3. /\ Owned' /\ Parameters' /\ Phase' /\ Holders' /\ Lost' = Lost
      /\ \A s \in Slots : Started(s)' <=> Started(s)
  BY <1>1, RequestsKept
<1>4. \A s \in Slots : OwnersAgree(s) => OwnersAgree(s)'
  BY <1>1, <1>3 DEF OwnersAgree, IsrHas
<1>5. Slotwise'
  BY <1>3, <1>4 DEF WInv, Slotwise, Slots
<1>6. QED
  BY <1>2, <1>3, <1>5 DEF WInv, Untouched

LEMMA WInvInit ==
  ASSUME Init
  PROVE  WInv
<1>1. /\ length = [r \in Req |-> 0]
      /\ xc = [r \in Req |-> [counter |-> 0, timeout |-> FALSE]]
      /\ status = [r \in Req |-> "unused"] /\ information = [r \in Req |-> 0]
      /\ refs = [r \in Req |-> {}] /\ cancelled = [r \in Req |-> FALSE]
      /\ cancelMark = [r \in Req |-> "none"] /\ cancelRoutine = [r \in Req |-> "Write"]
      /\ current = [s \in Slots |-> NoReq] /\ writeQueue = << >>
      /\ writeLength = 0 /\ transmitImmediate = FALSE /\ countSinceXoff = 0
      /\ completeDpc = [s \in Slots |-> FALSE] /\ timer = [s \in Slots |-> "off"]
      /\ pc = "idle"
  BY DEF Init
<1>2. << >> \in Seq(Req) /\ Distinct(<< >>) /\ ToSet(<< >>) = {}
  BY DEF Distinct, ToSet
<1>3. "Write" \in Slots /\ "Xoff" \in Slots /\ "Immediate" \in Slots
  BY DEF Slots
<1>4. SlotTypes
  <2>1. /\ length \in [Req -> Nat] /\ refs \in [Req -> SUBSET RefTypes]
        /\ cancelled \in [Req -> BOOLEAN] /\ cancelMark \in [Req -> CancelStates]
        /\ cancelRoutine \in [Req -> Slots] /\ timer \in [Slots -> TimerStates]
        /\ completeDpc \in [Slots -> BOOLEAN] /\ current \in [Slots -> Req \cup {NoReq}]
    BY <1>1, <1>3 DEF CancelStates, TimerStates
  <2>2. xc \in [Req -> [counter : Nat, timeout : BOOLEAN]]
    BY <1>1
  <2>3. QED
    BY <1>1, <1>2, <2>1, <2>2 DEF SlotTypes
<1>5. \A s \in Slots : ~Started(s) /\ current[s] = NoReq
  BY <1>1 DEF Started
<1>6. Owned /\ Phase /\ Parameters
  <2>1. Writes \subseteq Req /\ XoffReqs \subseteq Req
    BY DEF Req
  <2>2. QED
    BY <1>1, <1>2, <1>5, <2>1 DEF Owned, Phase, Parameters
<1>7. Holders
  BY <1>1, <1>3, <1>5 DEF Holders
<1>8. Slotwise
  BY <1>1, <1>3, <1>5 DEF Slotwise, OwnersAgree, IsrHas
<1>9. QED
  BY <1>4, <1>6, <1>7, <1>8 DEF WInv

LEMMA NextPreserves ==
  ASSUME WInv, Next
  PROVE  WInv' /\ Untouched
<1>1. CASE ISR
  BY <1>1, SendImmediatePreserves, CountDownPreserves, SendWritePreserves DEF ISR
<1>2. CASE Client
  <2>1. CASE \E r \in Req : Cancel(r) \/ EvtCanceledOnQueue(r)
    BY <2>1, CancelPreserves, EvtCanceledOnQueuePreserves
  <2>2. CASE PurgeWrites
    <3>1. pc = "idle" /\ FlushRequests("Write", "purge") /\ "Write" \in Slots
      BY <2>2 DEF PurgeWrites, Slots
    <3>2. QED
      BY <3>1, FlushPreserves
  <2>3. CASE FlushStop
    BY <2>3, QuietStep DEF FlushStop
  <2>4. QED
    BY <1>2, <2>1, <2>2, <2>3, ArrivalsPreserve DEF Client
<1>3. CASE Continue
  <2>1. CASE PurgeXoff
    <3>1. pc = "purge" /\ FlushRequests("Xoff", "idle") /\ "Xoff" \in Slots
      BY <2>1 DEF PurgeXoff, Slots
    <3>2. QED
      BY <3>1, FlushPreserves
  <2>2. CASE \E timed \in TotalTimeouts : GiveWriteToIsr(timed)
    BY <2>2, OptionAssumption, GiveWriteToIsrPreserves
  <2>3. QED
    BY <1>3, <2>1, <2>2, AbortXoffPreserves DEF Continue
<1>4. CASE Callback
  <2>1. "Write" \in Slots /\ "Xoff" \in Slots /\ "Immediate" \in Slots
    BY DEF Slots
  <2>2. CASE CommError
    <3>1. pc = "idle" /\ FlushRequests("Write", "idle")
      BY <2>2 DEF CommError
    <3>2. QED
      BY <2>1, <3>1, FlushPreserves
  <2>3. CASE CompleteWrite
    BY <2>1, <2>3, CompletePreserves DEF CompleteWrite
  <2>4. CASE \E slot \in Slots : CompleteFromIsr(slot)
    BY <2>4, CompletePreserves DEF CompleteFromIsr
  <2>5. CASE \E slot \in Slots : Timeout(slot)
    BY <2>5, TimeoutPreserves DEF Timeout
  <2>6. CASE TimeoutXoff
    BY <2>1, <2>6, TimeoutPreserves DEF TimeoutXoff
  <2>7. QED
    BY <1>4, <2>1, <2>2, <2>3, <2>4, <2>5, <2>6, CompleteXoffWritePreserves,
       CancelCallbackPreserves DEF Callback
<1>5. CASE FlushRestart
  BY <1>5, QuietStep DEF FlushRestart
<1>6. CASE \E slot \in Slots : TimerFires(slot)
  BY <1>6, TimerFiresPreserves
<1>7. QED
  BY <1>1, <1>2, <1>3, <1>4, <1>5, <1>6 DEF Next

\* A step of the driver or a stutter.
LEMMA StepPreserves ==
  ASSUME WInv, [Next]_vars
  PROVE  WInv' /\ Untouched
<1>1. CASE UNCHANGED vars
  BY <1>1, QuietStep DEF vars
<1>2. QED
  BY <1>1, NextPreserves

\* The invariant of the request protocol of the write path.
THEOREM SpecWInv == Spec => []WInv
<1>1. Init => WInv
  BY WInvInit
<1>2. WInv /\ [Next]_vars => WInv'
  BY StepPreserves
<1>3. QED
  BY <1>1, <1>2, PTL DEF Spec

\* The property of run WritePath_safety, for any number of requests: a write, a
\* counter or an immediate character is referred to exactly by those who will come
\* back for it, and until a counter is lost nobody comes back for anything else.
THEOREM SpecRefsMatchOwners == Spec => []RefsMatchOwners
<1>1. WInv => RefsMatchOwners
  <2>1. SUFFICES ASSUME WInv PROVE RefsMatchOwners
    OBVIOUS
  <2>2. ASSUME NEW r \in Req \ Lost, \A slot \in Slots : ~(Started(slot) /\ current[slot] = r)
        PROVE  refs[r] = {} /\ cancelMark[r] = "none"
    BY <2>1, <2>2 DEF WInv, Holders
  <2>3. QED
    BY <2>1, <2>2 DEF RefsMatchOwners, WInv, Slotwise
<1>2. QED
  BY <1>1, SpecWInv, PTL

\* The property of run WritePath_safety: nothing the driver does, even after a
\* counter was lost, reaches a request that it has completed.
THEOREM SpecCompletedIsFinal == Spec => CompletedIsFinal
<1>1. ASSUME WInv, [Next]_vars, NEW r \in Req, status[r] \in Done
      PROVE  /\ status'[r] = status[r] /\ information'[r] = information[r]
             /\ refs'[r] = {} /\ \A slot \in Slots : current'[slot] # r
  <2>1. WInv' /\ Untouched
    BY <1>1, StepPreserves
  <2>2. status'[r] = status[r] /\ information'[r] = information[r]
    BY <1>1, <2>1 DEF Untouched
  <2>3. status'[r] # "pending" /\ r # NoReq
    BY <1>1, <2>2, ReqAssumption DEF Done
  <2>4. \A slot \in Slots : current'[slot] # r
    BY <2>1, <2>3 DEF WInv, Owned
  <2>5. r \notin Lost'
    BY <2>3 DEF Lost
  <2>6. refs'[r] = {}
    BY <2>1, <2>4, <2>5 DEF WInv, Holders
  <2>7. QED
    BY <2>2, <2>4, <2>6
<1>2. WInv /\ [Next]_vars =>
        [\A r \in Req : status[r] \in Done =>
           status'[r] = status[r] /\ information'[r] = information[r]
             /\ refs'[r] = {} /\ \A slot \in Slots : current'[slot] # r]_vars
  BY <1>1
<1>3. QED
  BY <1>2, SpecWInv, PTL DEF Spec, CompletedIsFinal

=============================================================================
