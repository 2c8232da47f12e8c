-------------------------- MODULE ReadBuffer_proofs --------------------------
(***************************************************************************)
(* Proofs about the buffers of the read path: the type invariant, the      *)
(* pointers of the ISR, receive flow control, and that what the requests   *)
(* are answered with is the stream RxStream promises.  For any sizes, any  *)
(* lengths of reads and any number of characters.                          *)
(***************************************************************************)
EXTENDS ReadPath_proofs

\* The interrupt buffer, the buffers of the reads and the pointers into them.
BufferTypes ==
  /\ interruptBuffer \in [0 .. MaxSize - 1 -> Chars]
  /\ newBuffer \in [0 .. MaxSize - 1 -> Chars]
  /\ userBuffer \in [Req -> [0 .. MaxLen - 1 -> Chars]]
  /\ bufferSize \in 1 .. MaxSize
  /\ firstReadableChar \in Nat /\ currentCharSlot \in Nat
  /\ lastCharSlot \in Nat /\ charsInInterruptBuffer \in Nat
  /\ arrived \in Chars /\ rxHolding \in {{}, LineHolds}

\* The requests and the working storage of the current read.
Statuses == {"unused", "pending"} \cup Done
Plans == [returnNow : BOOLEAN, os2 : BOOLEAN, crunch : BOOLEAN,
          total : BOOLEAN, interval : BOOLEAN]
ReadTypes ==
  /\ pool \subseteq Resizes
  /\ length \in [Req -> Nat] /\ information \in [Req -> Nat]
  /\ status \in [Req -> Statuses] /\ cancelled \in [Req -> BOOLEAN]
  /\ numberNeededForRead \in Nat /\ charsCopied \in Nat /\ readByIsr \in Nat
  /\ countOnLastRead \in Int /\ plan \in Plans
  /\ errorWord \in BOOLEAN /\ commErrorDpc \in BOOLEAN

\* A request that was never started has moved no characters.
Fresh ==
  \A r \in Req :
    \/ status[r] = "unused"
    \/ r \in QueueSet(readQueue)
    \/ pc = "start" /\ r = currentReadRequest
    => information[r] = 0

\* A read fits its buffer, a resize the largest one.
Lengths ==
  /\ \A r \in Reads : status[r] = "pending" => length[r] \in 1 .. MaxLen
  /\ \A r \in Resizes : status[r] = "pending" => length[r] \in 1 .. MaxSize

\* A copy that was made while the ISR runs, and is not yet accounted for.
Copying ==
  /\ pc \notin {"copied", "moved"} => charsCopied = 0
  /\ pc = "copied" =>
       /\ information[currentReadRequest] + numberNeededForRead
            = length[currentReadRequest]
       /\ plan.crunch => plan.os2
  /\ pc = "moved" => length[currentReadRequest] > bufferSize

\* A negative CountOnLastRead is one of the three marks.
Marks == countOnLastRead < 0 => countOnLastRead \in {ReadCancel, ReadTotal, ReadComplete}

Ring == PointersAgree /\ HoldFollowsFill
Work == Fresh /\ Lengths /\ Copying /\ Marks

\* The inductive invariant, together with PInv.
RInv == BufferTypes /\ ReadTypes /\ Ring /\ Work

LEMMA TypesAreTypeOK == TypeOK <=> BufferTypes /\ ReadTypes /\ RequestTypes
                                     /\ readBufferBase \in Req \cup {InterruptReadBuffer}
  BY DEF TypeOK, BufferTypes, ReadTypes, RequestTypes, Statuses, Plans
-----------------------------------------------------------------------------
(* The arithmetic of the flow control limits and of the slots.             *)

\* XoffLimit is never reached at or below XonLimit.
LEMMA LimitsOf ==
  ASSUME NEW b \in Nat, b >= 1
  PROVE  /\ b \div 8 \in Nat /\ b \div 2 \in Nat
         /\ b - b \div 8 > b \div 2 /\ b > b \div 2
  OBVIOUS

\* A larger buffer is filled up to its limit later.
LEMMA LimitGrows ==
  ASSUME NEW b \in Nat, NEW c \in Nat, b <= c
  PROVE  b - b \div 8 <= c - c \div 8
  OBVIOUS

LEMMA SlotAfterType ==
  ASSUME lastCharSlot \in Nat, NEW slot \in 0 .. lastCharSlot,
         NEW n \in 0 .. lastCharSlot + 1
  PROVE  SlotAfter(slot, n) \in 0 .. lastCharSlot
  BY DEF SlotAfter

\* What is copied are characters.
LEMMA CopiedType ==
  ASSUME BufferTypes, lastCharSlot = bufferSize - 1, firstReadableChar <= lastCharSlot,
         NEW size \in Nat, NEW dest \in [0 .. size - 1 -> Chars],
         NEW offset \in Nat, NEW n \in 0 .. bufferSize
  PROVE  Copied(dest, offset, n) \in [0 .. size - 1 -> Chars]
<1>1. bufferSize \in 1 .. MaxSize /\ MaxSize \in Nat /\ lastCharSlot \in Nat
      /\ firstReadableChar \in Nat
  BY SizeAssumption DEF BufferTypes
<1>2. ASSUME NEW o \in 0 .. size - 1, o \in offset .. offset + n - 1
      PROVE  interruptBuffer[SlotAfter(firstReadableChar, o - offset)] \in Chars
  <2>1. o - offset \in 0 .. lastCharSlot + 1 /\ firstReadableChar \in 0 .. lastCharSlot
    BY <1>1, <1>2
  <2>2. SlotAfter(firstReadableChar, o - offset) \in 0 .. lastCharSlot
    BY <1>1, <2>1, SlotAfterType
  <2>3. 0 .. lastCharSlot \subseteq 0 .. MaxSize - 1
    BY <1>1
  <2>4. QED
    BY <2>2, <2>3 DEF BufferTypes
<1>3. DOMAIN dest = 0 .. size - 1 /\ \A o \in 0 .. size - 1 : dest[o] \in Chars
  OBVIOUS
<1>4. QED
  BY <1>2, <1>3 DEF Copied

-----------------------------------------------------------------------------
(* The shapes of a step.                                                   *)

\* Numbers the pointers are made of.
LEMMA RingNumbers ==
  ASSUME BufferTypes, ReadTypes, Ring
  PROVE  /\ bufferSize \in Nat /\ bufferSize >= 1 /\ bufferSize <= MaxSize
         /\ MaxSize \in Nat /\ MaxLen \in Nat
         /\ firstReadableChar \in Nat /\ currentCharSlot \in Nat /\ lastCharSlot \in Nat
         /\ charsInInterruptBuffer \in Nat /\ charsCopied \in Nat
         /\ charsInInterruptBuffer <= bufferSize /\ charsCopied <= charsInInterruptBuffer
         /\ XoffLimit \in Nat /\ XonLimit(bufferSize) \in Nat
         /\ bufferSize - XoffLimit > XonLimit(bufferSize) /\ bufferSize > XonLimit(bufferSize)
<1>1. /\ bufferSize \in Nat /\ bufferSize >= 1 /\ bufferSize <= MaxSize
      /\ MaxSize \in Nat /\ MaxLen \in Nat
  BY SizeAssumption DEF BufferTypes
<1>2. QED
  BY <1>1, LimitsOf DEF BufferTypes, ReadTypes, Ring, PointersAgree, XoffLimit, XonLimit

\* The buffers are left alone.
LEMMA RingKept ==
  ASSUME Ring, UNCHANGED <<bufferSize, readBufferBase, firstReadableChar, currentCharSlot,
                           lastCharSlot, charsInInterruptBuffer, charsCopied, rxHolding>>,
         readBufferBase # InterruptReadBuffer
           => currentReadRequest' = currentReadRequest
              /\ length'[currentReadRequest] = length[currentReadRequest]
  PROVE  Ring'
<1>1. PointersAgree'
  BY DEF Ring, PointersAgree, Readable, SlotAfter
<1>2. HoldFollowsFill'
  BY DEF Ring, HoldFollowsFill, XoffLimit, XonLimit
<1>3. QED
  BY <1>1, <1>2 DEF Ring

\* The ISR goes back to an interrupt buffer that holds nothing, or is emptied.
LEMMA RingEmptied ==
  ASSUME BufferTypes, ReadTypes, Ring, SwitchToInterruptBuffer, charsCopied' = 0,
         \/ charsInInterruptBuffer = 0 /\ UNCHANGED rxHolding
         \/ HandleReducedIntBuffer(0, bufferSize)
  PROVE  Ring'
<1>1. /\ bufferSize \in Nat /\ bufferSize >= 1 /\ XonLimit(bufferSize) \in Nat
      /\ XoffLimit \in Nat /\ bufferSize - XoffLimit > XonLimit(bufferSize)
  BY RingNumbers
<1>2. /\ readBufferBase' = InterruptReadBuffer /\ currentCharSlot' = 0
      /\ firstReadableChar' = 0 /\ lastCharSlot' = bufferSize - 1
      /\ charsInInterruptBuffer' = 0 /\ bufferSize' = bufferSize
  BY DEF SwitchToInterruptBuffer
<1>3. PointersAgree'
  BY <1>1, <1>2 DEF PointersAgree, Readable, SlotAfter
<1>4. rxHolding' = {}
  BY <1>1 DEF Ring, HoldFollowsFill, HandleReducedIntBuffer
<1>5. ~(charsInInterruptBuffer' >= bufferSize - XoffLimit)
  BY <1>1, <1>2
<1>6. HoldFollowsFill'
  BY <1>2, <1>4, <1>5 DEF HoldFollowsFill, XoffLimit
<1>7. QED
  BY <1>3, <1>6 DEF Ring

\* What the requests hold does not change.
LEMMA WorkKept ==
  ASSUME Work, UNCHANGED <<information, status, readQueue, currentReadRequest, length,
                           charsCopied, numberNeededForRead, plan, bufferSize>>,
         pc' = pc \/ (pc \notin {"copied", "moved"} /\ pc' \notin {"start", "copied", "moved"}),
         Marks'
  PROVE  Work'
<1>1. Fresh' /\ Lengths'
  BY DEF Work, Fresh, Lengths
<1>2. Copying'
  BY DEF Work, Copying
<1>3. QED
  BY <1>1, <1>2 DEF Work

-----------------------------------------------------------------------------
(* The steps of the ISR.                                                   *)

LEMMA PutCharInUserBufferKeepsRInv ==
  ASSUME PInv, RInv, PutCharInUserBuffer
  PROVE  RInv'
<1> DEFINE r == currentReadRequest
<1>1. /\ readBufferBase = r /\ r \in Reads /\ r \in Req /\ status[r] = "pending"
      /\ readBufferBase # InterruptReadBuffer /\ Started
  BY DEF PutCharInUserBuffer, PInv, RequestTypes, Owned, RefsMatchOwners, Started, Phase,
     InterruptReadBuffer
<1>2. /\ length[r] \in 1 .. MaxLen /\ charsCopied = 0 /\ r \notin QueueSet(readQueue)
      /\ pc \notin {"start", "copied", "moved"}
      /\ charsInInterruptBuffer = 0 /\ lastCharSlot = length[r] - 1
      /\ currentCharSlot <= lastCharSlot
  BY <1>1 DEF RInv, Work, Lengths, Copying, Started, PInv, Owned, Ring, PointersAgree
<1>3. /\ arrived \in Nat /\ arrived < MaxChars /\ arrived' = arrived + 1
      /\ readByIsr' = readByIsr + 1
      /\ userBuffer' = [userBuffer EXCEPT ![r][currentCharSlot] = arrived + 1]
      /\ UNCHANGED <<errorWord, commErrorDpc, rxHolding, currentReadRequest, readQueue,
                     pool, length, status, cancelled, numberNeededForRead, charsCopied,
                     countOnLastRead, plan, newBuffer, pc>>
  BY <1>1 DEF PutCharInUserBuffer, readVars, RInv, BufferTypes, Chars
<1>4. \/ /\ SwitchToInterruptBuffer
         /\ information' = [information EXCEPT ![r] = length[r]]
      \/ /\ currentCharSlot # lastCharSlot /\ currentCharSlot' = currentCharSlot + 1
         /\ UNCHANGED <<interruptBuffer, bufferSize, readBufferBase, firstReadableChar,
                        lastCharSlot, charsInInterruptBuffer, information>>
  BY DEF PutCharInUserBuffer
<1>5. arrived' \in Chars /\ arrived + 1 \in Chars /\ MaxSize \in Nat
  BY <1>3, SizeAssumption DEF Chars
<1>6. userBuffer' \in [Req -> [0 .. MaxLen - 1 -> Chars]]
  BY <1>3, <1>5 DEF RInv, BufferTypes
<1>7. BufferTypes'
  <2>1. /\ firstReadableChar' \in Nat /\ currentCharSlot' \in Nat /\ lastCharSlot' \in Nat
        /\ charsInInterruptBuffer' \in Nat
        /\ interruptBuffer' = interruptBuffer /\ bufferSize' = bufferSize
    BY <1>4, <1>5 DEF RInv, BufferTypes, SwitchToInterruptBuffer
  <2>2. QED
    BY <1>3, <1>5, <1>6, <2>1 DEF RInv, BufferTypes
<1>8. ReadTypes'
  BY <1>1, <1>2, <1>3, <1>4 DEF RInv, ReadTypes
<1>9. Ring'
  <2>1. CASE SwitchToInterruptBuffer
    BY <1>2, <1>3, <2>1, RingEmptied DEF RInv
  <2>2. CASE /\ currentCharSlot # lastCharSlot /\ currentCharSlot' = currentCharSlot + 1
             /\ UNCHANGED <<interruptBuffer, bufferSize, readBufferBase, firstReadableChar,
                            lastCharSlot, charsInInterruptBuffer, information>>
    <3>1. PointersAgree'
      BY <1>1, <1>2, <1>3, <2>2, RingNumbers DEF RInv, Ring, PointersAgree
    <3>2. HoldFollowsFill'
      BY <1>3, <2>2 DEF RInv, Ring, HoldFollowsFill, XoffLimit, XonLimit
    <3>3. QED
      BY <3>1, <3>2 DEF Ring
  <2>3. QED
    BY <1>4, <2>1, <2>2
<1>10. Work'
  <2>1. \A s \in Req : s # r => information'[s] = information[s]
    BY <1>4 DEF RInv, ReadTypes
  <2>2. Fresh'
    BY <1>1, <1>2, <1>3, <2>1 DEF RInv, Work, Fresh
  <2>3. Lengths' /\ Copying' /\ Marks'
    BY <1>2, <1>3 DEF RInv, Work, Lengths, Copying, Marks
  <2>4. QED
    BY <2>2, <2>3 DEF Work
<1>11. QED
  BY <1>7, <1>8, <1>9, <1>10 DEF RInv

LEMMA PutCharInInterruptBufferKeepsRInv ==
  ASSUME PInv, RInv, PutCharInInterruptBuffer
  PROVE  RInv'
<1>1. /\ arrived \in Nat /\ arrived < MaxChars /\ arrived' = arrived + 1
      /\ readBufferBase = InterruptReadBuffer
      /\ charsInInterruptBuffer < bufferSize
      /\ interruptBuffer' = [interruptBuffer EXCEPT ![currentCharSlot] = arrived + 1]
      /\ charsInInterruptBuffer' = charsInInterruptBuffer + 1
      /\ currentCharSlot' = IF currentCharSlot = lastCharSlot THEN 0
                                                             ELSE currentCharSlot + 1
      /\ rxHolding' = IF bufferSize - XoffLimit <= charsInInterruptBuffer + 1
                        THEN rxHolding \cup LineHolds ELSE rxHolding
      /\ UNCHANGED <<bufferSize, readBufferBase, firstReadableChar, lastCharSlot>>
  BY DEF PutCharInInterruptBuffer, HoldLines, RInv, BufferTypes, Chars
<1>2. UNCHANGED <<errorWord, commErrorDpc, currentReadRequest, readQueue, readByIsr,
                  userBuffer, information, pool, length, status, cancelled,
                  numberNeededForRead, charsCopied, countOnLastRead, plan, newBuffer, pc>>
  BY DEF PutCharInInterruptBuffer, requestVars, readVars
<1>3. arrived' \in Chars /\ arrived + 1 \in Chars
  BY <1>1, SizeAssumption DEF Chars
<1>4. BufferTypes'
  <2>1. rxHolding' \in {{}, LineHolds}
    BY <1>1 DEF RInv, BufferTypes
  <2>2. interruptBuffer' \in [0 .. MaxSize - 1 -> Chars]
    BY <1>1, <1>3 DEF RInv, BufferTypes
  <2>3. QED
    BY <1>1, <1>2, <1>3, <2>1, <2>2 DEF RInv, BufferTypes
<1>5. ReadTypes'
  BY <1>2 DEF RInv, ReadTypes
<1>6. PointersAgree'
  BY <1>1, <1>2, RingNumbers DEF RInv, Ring, PointersAgree, Readable, SlotAfter
<1>7. HoldFollowsFill'
  <2>1. /\ bufferSize \in Nat /\ charsInInterruptBuffer \in Nat
        /\ XoffLimit \in Nat /\ XonLimit(bufferSize) \in Nat
        /\ bufferSize - XoffLimit > XonLimit(bufferSize)
    BY RingNumbers DEF RInv
  <2>2. XoffLimit' = XoffLimit /\ XonLimit(bufferSize') = XonLimit(bufferSize)
    BY <1>1 DEF XoffLimit
  <2>3. charsInInterruptBuffer' >= bufferSize - XoffLimit => rxHolding' = LineHolds
    BY <1>1, <2>1 DEF RInv, BufferTypes
  <2>4. rxHolding' # {} => charsInInterruptBuffer' > XonLimit(bufferSize)
    BY <1>1, <2>1 DEF RInv, Ring, HoldFollowsFill
  <2>5. QED
    BY <1>1, <2>2, <2>3, <2>4 DEF HoldFollowsFill
<1>8. Work'
  BY <1>1, <1>2, WorkKept DEF RInv, Work, Marks
<1>9. QED
  BY <1>4, <1>5, <1>6, <1>7, <1>8 DEF RInv, Ring

LEMMA PutCharOverrunKeepsRInv ==
  ASSUME PInv, RInv, PutCharOverrun
  PROVE  RInv'
<1>1. /\ readBufferBase = InterruptReadBuffer /\ charsInInterruptBuffer >= bufferSize
      /\ rxHolding' = IF bufferSize - XoffLimit <= charsInInterruptBuffer + 1
                        THEN rxHolding \cup LineHolds ELSE rxHolding
      /\ errorWord' = TRUE /\ commErrorDpc' = (commErrorDpc \/ ErrorAbort)
      /\ \/ interruptBuffer' = interruptBuffer
         \/ \E at : interruptBuffer' = [interruptBuffer EXCEPT ![at] = 0]
  BY DEF PutCharOverrun, HoldLines
<1>2. UNCHANGED <<bufferSize, readBufferBase, firstReadableChar, currentCharSlot,
                  lastCharSlot, charsInInterruptBuffer, arrived, currentReadRequest,
                  readQueue, readByIsr, userBuffer, information, pool, length, status,
                  cancelled, numberNeededForRead, charsCopied, countOnLastRead, plan,
                  newBuffer, pc>>
  BY DEF PutCharOverrun, requestVars, readVars
<1>3. /\ bufferSize \in Nat /\ charsInInterruptBuffer = bufferSize
      /\ XoffLimit \in Nat /\ XonLimit(bufferSize) \in Nat
      /\ bufferSize > XonLimit(bufferSize)
  BY <1>1, RingNumbers DEF RInv
<1>4. BufferTypes'
  <2>1. rxHolding' \in {{}, LineHolds}
    BY <1>1 DEF RInv, BufferTypes
  <2>2. 0 \in Chars /\ interruptBuffer \in [0 .. MaxSize - 1 -> Chars]
    BY SizeAssumption DEF RInv, BufferTypes, Chars
  <2>3. ASSUME NEW at, interruptBuffer' = [interruptBuffer EXCEPT ![at] = 0]
        PROVE  interruptBuffer' \in [0 .. MaxSize - 1 -> Chars]
    BY <2>2, <2>3
  <2>4. interruptBuffer' \in [0 .. MaxSize - 1 -> Chars]
    BY <1>1, <2>2, <2>3
  <2>5. QED
    BY <1>2, <2>1, <2>4 DEF RInv, BufferTypes
<1>5. ReadTypes'
  <2>1. errorWord' \in BOOLEAN /\ commErrorDpc' \in BOOLEAN
    BY <1>1
  <2>2. QED
    BY <1>2, <2>1 DEF RInv, ReadTypes
<1>6. PointersAgree'
  BY <1>2 DEF RInv, Ring, PointersAgree, Readable, SlotAfter
<1>7. HoldFollowsFill'
  <2>1. rxHolding' = LineHolds
    BY <1>1, <1>3 DEF RInv, BufferTypes
  <2>2. QED
    BY <1>2, <1>3, <2>1 DEF HoldFollowsFill
<1>8. Work'
  BY <1>2, WorkKept DEF RInv, Work, Marks
<1>9. QED
  BY <1>4, <1>5, <1>6, <1>7, <1>8 DEF RInv, Ring

\* A step that neither the buffers nor the reads notice.
LEMMA QuietKeepsRInv ==
  ASSUME RInv, UNCHANGED <<ringVars, arrived, userBuffer, rxHolding, currentReadRequest,
                           readQueue, pool, length, information, status, cancelled,
                           readVars, readByIsr>>,
         pc' = pc \/ (pc \notin {"copied", "moved"} /\ pc' \notin {"start", "copied", "moved"}),
         errorWord' \in BOOLEAN, commErrorDpc' \in BOOLEAN
  PROVE  RInv'
<1>1. BufferTypes'
  BY DEF RInv, BufferTypes, ringVars, readVars
<1>2. ReadTypes'
  BY DEF RInv, ReadTypes, readVars
<1>3. Ring'
  BY RingKept DEF RInv, ringVars, readVars
<1>4. Work'
  BY WorkKept DEF RInv, Work, Marks, readVars, ringVars
<1>5. QED
  BY <1>1, <1>2, <1>3, <1>4 DEF RInv

LEMMA LineErrorKeepsRInv ==
  ASSUME RInv, LineError
  PROVE  RInv'
<1>1. UNCHANGED <<ringVars, arrived, userBuffer, rxHolding, currentReadRequest, readQueue,
                  pool, length, information, status, cancelled, readVars, readByIsr, pc>>
  BY DEF LineError, requestVars
<1>2. errorWord' \in BOOLEAN /\ commErrorDpc' \in BOOLEAN
  BY DEF LineError
<1>3. QED
  BY <1>1, <1>2, QuietKeepsRInv

-----------------------------------------------------------------------------
(* SerialTryToCompleteCurrent.                                             *)

\* The requests after a step that moves characters for the current one only.
LEMMA FreshKept ==
  ASSUME PInv, Fresh, ReadTypes, status[currentReadRequest] = "pending",
         currentReadRequest \in Req,
         \A r \in Req : status'[r] = "unused" => status[r] = "unused",
         QueueSet(readQueue') \subseteq QueueSet(readQueue),
         pc' = "start" => currentReadRequest' \in QueueSet(readQueue),
         \A r \in Req : r # currentReadRequest => information'[r] = information[r]
  PROVE  Fresh'
  BY DEF PInv, Owned, Fresh

LEMMA TryToCompleteKeepsRInv ==
  ASSUME PInv, RInv, NEW grab \in BOOLEAN, NEW final \in Done, NEW caller, NEW interval,
         NEW total, Calls(grab, caller, interval, total),
         NEW q \in Seq(Req), Distinct(q), QueueSet(q) \subseteq QueueSet(readQueue),
         NEW outcome \in [Req -> Statuses],
         \A r \in Req : outcome[r] \in {"unused", "pending"} => status[r] = outcome[r],
         NEW back \in {"idle", "purge"},
         TryToComplete(grab, final, caller, interval, total, q, outcome, back),
         pool' = pool, commErrorDpc' \in BOOLEAN, countOnLastRead' \in Int, Marks'
  PROVE  RInv'
<1> DEFINE r == currentReadRequest
           mine == IF grab /\ IsrOwnsRead THEN {"ISR"} ELSE {}
           left == RefsLeft(refs[r], caller, mine, cancelMark[r], interval, total)
           held == IF grab /\ IsrOwnsRead THEN CharsHeld(r) ELSE information[r]
<1>1. /\ r \in Req /\ Started /\ r \in Reads /\ status[r] = "pending"
      /\ pc \notin {"start", "copied", "moved"} /\ charsCopied = 0
  BY DEF PInv, RequestTypes, Owned, Phase, Started, Calls, RInv, Work, Copying
<1>2. /\ IF grab /\ IsrOwnsRead THEN SwitchToInterruptBuffer ELSE UNCHANGED ringVars
      /\ UNCHANGED <<length, cancelled, userBuffer, rxHolding, arrived, errorWord,
                     readByIsr, newBuffer, numberNeededForRead, charsCopied, plan>>
  BY DEF TryToComplete
<1>3. \/ /\ GetNextRequest(q, back) /\ status' = [outcome EXCEPT ![r] = final]
         /\ information' = [information EXCEPT ![r] = IF final = "CANCELLED" THEN 0 ELSE held]
      \/ /\ readQueue' = q /\ pc' = back /\ currentReadRequest' = r
         /\ information' = [information EXCEPT ![r] = held]
         /\ status' = outcome
  BY DEF TryToComplete
<1>4. held \in Nat
  <2>1. CASE grab /\ IsrOwnsRead
    <3>1. /\ length[r] \in Nat /\ lastCharSlot = length[r] - 1 /\ currentCharSlot \in Nat
          /\ currentCharSlot <= lastCharSlot
      BY <1>1, <2>1 DEF IsrOwnsRead, RInv, BufferTypes, ReadTypes, Ring, PointersAgree
    <3>2. QED
      BY <2>1, <3>1 DEF CharsHeld
  <2>2. CASE ~(grab /\ IsrOwnsRead)
    BY <1>1, <2>2 DEF RInv, ReadTypes
  <2>3. QED
    BY <2>1, <2>2
<1> HIDE DEF held, left
<1>5. BufferTypes'
  <2>1. /\ firstReadableChar' \in Nat /\ currentCharSlot' \in Nat /\ lastCharSlot' \in Nat
        /\ charsInInterruptBuffer' \in Nat
        /\ interruptBuffer' = interruptBuffer /\ bufferSize' = bufferSize
    BY <1>2, SizeAssumption DEF RInv, BufferTypes, SwitchToInterruptBuffer, ringVars
  <2>2. QED
    BY <1>2, <2>1 DEF RInv, BufferTypes
<1>6. ReadTypes'
  <2>1. information' \in [Req -> Nat]
    <3>1. \E h \in Nat : information' = [information EXCEPT ![r] = h]
      BY <1>3, <1>4
    <3>2. information \in [Req -> Nat]
      BY DEF RInv, ReadTypes
    <3>3. QED
      BY <3>1, <3>2
  <2>2. status' \in [Req -> Statuses]
    BY <1>3 DEF Statuses
  <2>3. QED
    BY <1>2, <2>1, <2>2 DEF RInv, ReadTypes
<1>7. Ring'
  <2>1. CASE grab /\ IsrOwnsRead
    <3>1. charsInInterruptBuffer = 0
      BY <2>1 DEF IsrOwnsRead, RInv, Ring, PointersAgree
    <3>2. QED
      BY <1>1, <1>2, <2>1, <3>1, RingEmptied DEF RInv
  <2>2. CASE ~(grab /\ IsrOwnsRead)
    <3>1. readBufferBase = InterruptReadBuffer
      BY <2>2 DEF IsrOwnsRead, Calls, PInv, RefsMatchOwners
    <3>2. QED
      BY <1>2, <2>2, <3>1, RingKept DEF RInv, ringVars
  <2>3. QED
    BY <2>1, <2>2
<1>8. /\ QueueSet(readQueue') \subseteq QueueSet(readQueue)
      /\ pc' = "start" => currentReadRequest' \in QueueSet(readQueue)
      /\ pc' \notin {"copied", "moved"}
  <2>1. CASE GetNextRequest(q, back)
    BY <2>1, NextRequest
  <2>2. CASE readQueue' = q /\ pc' = back
    BY <2>2
  <2>3. QED
    BY <1>3, <2>1, <2>2
<1>9. Work'
  <2>1. \A s \in Req : status'[s] \in {"unused", "pending"} => status[s] = status'[s]
    BY <1>1, <1>3 DEF Done
  <2>2. \A s \in Req : s # r => information'[s] = information[s]
    BY <1>3 DEF RInv, ReadTypes
  <2>3. Fresh'
    BY <1>1, <1>8, <2>1, <2>2, FreshKept DEF RInv, Work
  <2>4. Lengths'
    BY <1>2, <2>1 DEF RInv, Work, Lengths, Req
  <2>5. Copying'
    BY <1>1, <1>2, <1>8 DEF Copying
  <2>6. QED
    BY <2>3, <2>4, <2>5 DEF Work
<1>10. QED
  BY <1>5, <1>6, <1>7, <1>9 DEF RInv

-----------------------------------------------------------------------------
(* The client's calls.                                                     *)

\* A request that is new to the driver.
LEMMA NewRequestKeepsRInv ==
  ASSUME PInv, RInv, NEW r \in Req, status[r] = "unused", pc = "idle",
         NEW n \in Nat, length' = [length EXCEPT ![r] = n],
         StartOrQueue(r) \/ (\E final \in Done : CompleteAtOnce(r, final)),
         r \in Reads => n \in 1 .. MaxLen, r \in Resizes => n \in 1 .. MaxSize,
         pool' \subseteq Resizes,
         UNCHANGED <<information, cancelled, ringVars, isrVars, readVars, userBuffer,
                     rxHolding>>
  PROVE  RInv'
<1>1. r \notin QueueSet(readQueue) /\ r # currentReadRequest /\ information[r] = 0
  BY ReqAssumption DEF PInv, Owned, RInv, Work, Fresh
<1>2. \/ /\ status' = [status EXCEPT ![r] = "pending"]
         /\ \/ currentReadRequest' = r /\ pc' = "start" /\ UNCHANGED readQueue
               /\ currentReadRequest = NoReq
            \/ readQueue' = Append(readQueue, r) /\ UNCHANGED <<currentReadRequest, pc>>
      \/ /\ \E final \in Done : status' = [status EXCEPT ![r] = final]
         /\ UNCHANGED <<currentReadRequest, readQueue, pc>>
  BY DEF StartOrQueue, CompleteAtOnce
<1>3. BufferTypes'
  BY DEF RInv, BufferTypes, ringVars, isrVars, readVars
<1>4. ReadTypes'
  <2>1. status' \in [Req -> Statuses] /\ length' \in [Req -> Nat]
    BY <1>2 DEF RInv, ReadTypes, Statuses
  <2>2. QED
    BY <2>1 DEF RInv, ReadTypes, readVars, isrVars
<1>5. Ring'
  <2>1. readBufferBase # InterruptReadBuffer => currentReadRequest # NoReq
    BY DEF PInv, RefsMatchOwners, Started
  <2>2. readBufferBase # InterruptReadBuffer
          => currentReadRequest' = currentReadRequest
             /\ length'[currentReadRequest] = length[currentReadRequest]
    BY <1>1, <1>2, <2>1 DEF RInv, ReadTypes
  <2>3. QED
    BY <2>2, RingKept DEF RInv, ringVars, readVars
<1>6. Fresh'
  <2>1. QueueSet(readQueue') \subseteq QueueSet(readQueue) \cup {r}
    BY <1>1, <1>2, QueueAppend DEF PInv, RequestTypes, Owned
  <2>2. pc' = "start" => currentReadRequest' = r
    BY <1>2
  <2>3. \A s \in Req : status'[s] = "unused" => status[s] = "unused"
    BY <1>2 DEF RInv, ReadTypes, Done
  <2>4. QED
    BY <1>1, <2>1, <2>2, <2>3 DEF RInv, Work, Fresh
<1>7. Lengths'
  <2>1. \A s \in Req : s # r => status'[s] = status[s] /\ length'[s] = length[s]
    BY <1>2 DEF RInv, ReadTypes
  <2>2. length'[r] = n
    BY DEF RInv, ReadTypes
  <2>3. QED
    BY <2>1, <2>2 DEF RInv, Work, Lengths, Req
<1>8. Copying' /\ Marks'
  BY <1>2 DEF RInv, Work, Copying, Marks, readVars
<1>9. QED
  BY <1>3, <1>4, <1>5, <1>6, <1>7, <1>8 DEF RInv, Work

LEMMA EvtIoReadKeepsRInv ==
  ASSUME PInv, RInv, NEW r \in Reads, NEW n \in Lens, EvtIoRead(r, n)
  PROVE  RInv'
<1>1. /\ r \in Req /\ r \notin Resizes /\ status[r] = "unused" /\ pc = "idle"
      /\ n \in Nat /\ n \in 1 .. MaxLen
  BY ReqAssumption, SizeAssumption DEF EvtIoRead, Sends, Req
<1>2. /\ length' = [length EXCEPT ![r] = n] /\ pool' \subseteq Resizes
      /\ UNCHANGED <<information, cancelled, ringVars, isrVars, readVars, userBuffer,
                     rxHolding>>
      /\ StartOrQueue(r) \/ CompleteAtOnce(r, "CANCELLED")
  BY DEF EvtIoRead, RInv, ReadTypes
<1>3. "CANCELLED" \in Done
  BY DEF Done
<1>4. QED
  BY <1>1, <1>2, <1>3, NewRequestKeepsRInv

LEMMA SetQueueSizeKeepsRInv ==
  ASSUME PInv, RInv, NEW r \in Resizes, NEW n \in Sizes, SetQueueSize(r, n)
  PROVE  RInv'
<1>1. /\ r \in Req /\ r \notin Reads /\ status[r] = "unused" /\ pc = "idle"
      /\ n \in Nat /\ n \in 1 .. MaxSize
  BY ReqAssumption, SizeAssumption DEF SetQueueSize, Sends, Req
<1>2. /\ length' = [length EXCEPT ![r] = n] /\ pool' \subseteq Resizes
      /\ UNCHANGED <<information, cancelled, ringVars, isrVars, readVars, userBuffer,
                     rxHolding>>
      /\ StartOrQueue(r) \/ (\E final \in Done : CompleteAtOnce(r, final))
  BY DEF SetQueueSize, RInv, ReadTypes, Done
<1>3. QED
  BY <1>1, <1>2, NewRequestKeepsRInv

LEMMA CancelKeepsRInv ==
  ASSUME RInv, NEW r \in Req, Cancel(r)
  PROVE  RInv'
<1>1. /\ cancelled' = [cancelled EXCEPT ![r] = TRUE]
      /\ UNCHANGED <<currentReadRequest, readQueue, pool, length, information, status,
                     ringVars, isrVars, readVars, userBuffer, rxHolding, pc>>
  BY DEF Cancel
<1>2. BufferTypes'
  BY <1>1 DEF RInv, BufferTypes, ringVars, isrVars, readVars
<1>3. ReadTypes'
  <2>1. cancelled' \in [Req -> BOOLEAN]
    BY <1>1 DEF RInv, ReadTypes
  <2>2. QED
    BY <1>1, <2>1 DEF RInv, ReadTypes, readVars, isrVars
<1>4. Ring'
  BY <1>1, RingKept DEF RInv, ringVars, readVars
<1>5. Work'
  BY <1>1, WorkKept DEF RInv, Work, Marks, ringVars, readVars
<1>6. QED
  BY <1>2, <1>3, <1>4, <1>5 DEF RInv

\* Requests leave the queue without being started.
LEMMA LeaveQueueKeepsRInv ==
  ASSUME PInv, RInv, pc = "idle", pc' \in {"idle", "purge"},
         QueueSet(readQueue') \subseteq QueueSet(readQueue),
         status' \in [Req -> Statuses],
         \A r \in Req : status'[r] \in {"unused", "pending"} => status[r] = status'[r],
         pool' \subseteq Resizes, cancelled' \in [Req -> BOOLEAN], commErrorDpc' \in BOOLEAN,
         UNCHANGED <<currentReadRequest, length, information, ringVars, arrived, errorWord,
                     readByIsr, readVars, userBuffer, rxHolding>>
  PROVE  RInv'
<1>1. BufferTypes'
  BY DEF RInv, BufferTypes, ringVars, readVars
<1>2. ReadTypes'
  BY DEF RInv, ReadTypes, readVars
<1>3. Ring'
  BY RingKept DEF RInv, ringVars, readVars
<1>4. Fresh' /\ Lengths'
  BY DEF RInv, Work, Fresh, Lengths, Req
<1>5. Copying' /\ Marks'
  BY DEF RInv, Work, Copying, Marks, readVars
<1>6. QED
  BY <1>1, <1>2, <1>3, <1>4, <1>5 DEF RInv, Work

LEMMA EvtCanceledOnQueueKeepsRInv ==
  ASSUME PInv, RInv, NEW r \in Req, EvtCanceledOnQueue(r)
  PROVE  RInv'
<1>1. /\ pc = "idle" /\ pc' = pc
      /\ status' = [status EXCEPT ![r] = "CANCELLED"]
      /\ cancelled' = [cancelled EXCEPT ![r] = TRUE] /\ pool' \subseteq pool
      /\ UNCHANGED <<currentReadRequest, length, information, ringVars, isrVars, readVars,
                     userBuffer, rxHolding>>
  BY DEF EvtCanceledOnQueue
<1>2. QueueSet(readQueue') \subseteq QueueSet(readQueue)
  <2>1. readQueue \in Seq(Req) /\ Distinct(readQueue)
    BY DEF PInv, RequestTypes, Owned
  <2>2. PICK i \in DOMAIN readQueue :
          readQueue' = SubSeq(readQueue, 1, i - 1) \o SubSeq(readQueue, i + 1, Len(readQueue))
    BY DEF EvtCanceledOnQueue
  <2>3. QED
    BY <2>1, <2>2, QueueRemove
<1>3. /\ status' \in [Req -> Statuses] /\ cancelled' \in [Req -> BOOLEAN]
      /\ \A s \in Req : status'[s] \in {"unused", "pending"} => status[s] = status'[s]
  BY <1>1 DEF RInv, ReadTypes, Statuses, Done
<1>4. pool' \subseteq Resizes /\ commErrorDpc' \in BOOLEAN
      /\ UNCHANGED <<arrived, errorWord, readByIsr>>
  BY <1>1 DEF RInv, ReadTypes, isrVars
<1>5. QED
  BY <1>1, <1>2, <1>3, <1>4, LeaveQueueKeepsRInv

LEMMA FlushKeepsRInv ==
  ASSUME PInv, RInv, pc = "idle", NEW back \in {"idle", "purge"}, FlushReads(back),
         UNCHANGED completeReadDpc, commErrorDpc' \in BOOLEAN
  PROVE  RInv'
<1> DEFINE r == currentReadRequest
<1>1. /\ QueuePurged \in [Req -> Statuses]
      /\ \A s \in Req : QueuePurged[s] \in {"unused", "pending"} => status[s] = QueuePurged[s]
  BY DEF QueuePurged, RInv, ReadTypes, Statuses, Done
<1>2. << >> \in Seq(Req) /\ Distinct(<< >>) /\ QueueSet(<< >>) = {}
  BY DEF Distinct, QueueSet
<1>3. pool' = pool
  BY DEF FlushReads, FreedIn, IoctlCode
<1>4. CASE r # NoReq /\ cancelMark[r] = "cancelable"
  <2>1. CancelCurrentRead(<< >>, QueuePurged, back)
    BY <1>4 DEF FlushReads
  <2>2. /\ TryToComplete(TRUE, "CANCELLED", "CANCEL", intervalTimer, totalTimer,
                         << >>, QueuePurged, back)
        /\ countOnLastRead' = ReadCancel
    BY <2>1 DEF CancelCurrentRead
  <2>3. Calls(TRUE, "CANCEL", intervalTimer, totalTimer)
    BY <1>4 DEF Calls, PInv, RequestTypes, RefsMatchOwners, Started
  <2>4. Marks' /\ countOnLastRead' \in Int /\ "CANCELLED" \in Done
    BY <2>2 DEF Marks, ReadCancel, Done
  <2>5. QueueSet(<< >>) \subseteq QueueSet(readQueue)
    BY <1>2
  <2>6. QED
    BY <1>1, <1>2, <1>3, <2>2, <2>3, <2>4, <2>5, TryToCompleteKeepsRInv
<1>5. CASE ~(r # NoReq /\ cancelMark[r] = "cancelable")
  <2>1. /\ status' = QueuePurged /\ readQueue' = << >> /\ pc' = back
        /\ UNCHANGED <<currentReadRequest, length, information, cancelled, ringVars, arrived,
                       errorWord, readByIsr, readVars, userBuffer, rxHolding>>
    BY <1>5 DEF FlushReads
  <2>2. QueueSet(readQueue') \subseteq QueueSet(readQueue)
    BY <1>2, <2>1
  <2>3. pool' \subseteq Resizes /\ cancelled' \in [Req -> BOOLEAN]
    BY <1>3, <2>1 DEF RInv, ReadTypes
  <2>4. QED
    BY <1>1, <2>1, <2>2, <2>3, LeaveQueueKeepsRInv
<1>6. QED
  BY <1>4, <1>5

LEMMA PurgeInterruptBuffKeepsRInv ==
  ASSUME PInv, RInv, PurgeInterruptBuff
  PROVE  RInv'
<1>1. /\ pc \in {"idle", "purge"} /\ pc' = "idle" /\ charsCopied = 0
      /\ UNCHANGED <<isrVars, requestVars, readVars, userBuffer>>
  BY DEF PurgeInterruptBuff, RInv, Work, Copying
<1>2. /\ interruptBuffer' = interruptBuffer /\ bufferSize' = bufferSize
      /\ firstReadableChar' \in Nat /\ currentCharSlot' \in Nat /\ lastCharSlot' \in Nat
      /\ charsInInterruptBuffer' \in Nat
      /\ rxHolding' \in {{}, LineHolds}
  BY SizeAssumption DEF PurgeInterruptBuff, SwitchToInterruptBuffer, HandleReducedIntBuffer,
     RInv, BufferTypes, ringVars
<1>3. BufferTypes'
  BY <1>1, <1>2 DEF RInv, BufferTypes, isrVars, readVars
<1>4. ReadTypes'
  BY <1>1 DEF RInv, ReadTypes, isrVars, readVars, requestVars
<1>5. Ring'
  <2>1. CASE readBufferBase = InterruptReadBuffer
    BY <1>1, <2>1, RingEmptied DEF PurgeInterruptBuff, RInv, readVars
  <2>2. CASE readBufferBase # InterruptReadBuffer
    BY <1>1, <2>2, RingKept DEF PurgeInterruptBuff, RInv, ringVars, readVars, requestVars
  <2>3. QED
    BY <2>1, <2>2
<1>6. Work'
  BY <1>1, <1>2, WorkKept DEF RInv, Work, Marks, requestVars, readVars
<1>7. QED
  BY <1>3, <1>4, <1>5, <1>6 DEF RInv

LEMMA ClientKeepsRInv ==
  ASSUME PInv, RInv, Client
  PROVE  RInv'
<1>1. CASE \E r \in Reads, n \in Lens : EvtIoRead(r, n)
  BY <1>1, EvtIoReadKeepsRInv
<1>2. CASE \E r \in Resizes, n \in Sizes : SetQueueSize(r, n)
  BY <1>2, SetQueueSizeKeepsRInv
<1>3. CASE \E r \in Req : Cancel(r) \/ EvtCanceledOnQueue(r)
  BY <1>3, CancelKeepsRInv, EvtCanceledOnQueueKeepsRInv
<1>4. CASE \E clear \in BOOLEAN : PurgeAbort(clear)
  <2>1. /\ pc = "idle" /\ UNCHANGED completeReadDpc /\ commErrorDpc' \in BOOLEAN
        /\ \E back \in {"idle", "purge"} : FlushReads(back)
    BY <1>4 DEF PurgeAbort, RInv, ReadTypes
  <2>2. QED
    BY <2>1, FlushKeepsRInv
<1>5. CASE PurgeInterruptBuff
  BY <1>5, PurgeInterruptBuffKeepsRInv
<1>6. CASE GetCommStatus
  <2>1. UNCHANGED <<ringVars, arrived, userBuffer, rxHolding, currentReadRequest, readQueue,
                    pool, length, information, status, cancelled, readVars, readByIsr, pc>>
    BY <1>6 DEF GetCommStatus, requestVars
  <2>2. errorWord' \in BOOLEAN /\ commErrorDpc' \in BOOLEAN
    BY <1>6 DEF GetCommStatus, RInv, ReadTypes
  <2>3. QED
    BY <2>1, <2>2, QuietKeepsRInv
<1>7. QED
  BY <1>1, <1>2, <1>3, <1>4, <1>5, <1>6 DEF Client

-----------------------------------------------------------------------------
(* The steps of the lock holder.                                           *)

\* Characters were taken out, or the buffer grew, and the lines were let go or not.
LEMMA ReducedKeepsHold ==
  ASSUME BufferTypes, ReadTypes, Ring, bufferSize' \in Nat, bufferSize <= bufferSize',
         charsInInterruptBuffer' \in Nat, charsInInterruptBuffer' <= charsInInterruptBuffer,
         HandleReducedIntBuffer(charsInInterruptBuffer', bufferSize')
  PROVE  HoldFollowsFill' /\ rxHolding' \in {{}, LineHolds}
<1> DEFINE b == bufferSize
           c == bufferSize'
<1>1. /\ b \in Nat /\ b >= 1 /\ charsInInterruptBuffer \in Nat
      /\ c \in Nat /\ c >= 1 /\ b <= c
  BY RingNumbers
<1> HIDE DEF b, c
<1>2. /\ c \div 8 \in Nat /\ c \div 2 \in Nat /\ b \div 8 \in Nat
      /\ c - c \div 8 > c \div 2 /\ b - b \div 8 <= c - c \div 8
  BY <1>1, LimitsOf, LimitGrows
<1>3. rxHolding' = IF charsInInterruptBuffer' <= c \div 2 THEN {} ELSE rxHolding
  BY DEF HandleReducedIntBuffer, XonLimit, c
<1>4. charsInInterruptBuffer >= b - b \div 8 => rxHolding = LineHolds
  BY DEF Ring, HoldFollowsFill, XoffLimit, b
<1>5. charsInInterruptBuffer' >= c - c \div 8 => rxHolding' = LineHolds
  BY <1>1, <1>2, <1>3, <1>4
<1>6. rxHolding' # {} => charsInInterruptBuffer' > c \div 2
  BY <1>1, <1>2, <1>3
<1>7. rxHolding' \in {{}, LineHolds}
  BY <1>3 DEF BufferTypes
<1>8. QED
  BY <1>5, <1>6, <1>7 DEF HoldFollowsFill, XoffLimit, XonLimit, c

\* While no read is started the ISR fills the interrupt buffer.
LEMMA NotStartedRing ==
  ASSUME PInv, RInv, ~Started
  PROVE  /\ readBufferBase = InterruptReadBuffer /\ lastCharSlot = bufferSize - 1
         /\ firstReadableChar <= lastCharSlot
         /\ currentCharSlot = SlotAfter(firstReadableChar,
                                        IF Readable = bufferSize THEN 0 ELSE Readable)
  BY NotStartedNoRefs DEF NoRefs, RInv, Ring, PointersAgree

LEMMA StartReadKeepsRInv ==
  ASSUME PInv, RInv, StartRead
  PROVE  RInv'
<1> DEFINE r == currentReadRequest
           n == CharsToGet(charsInInterruptBuffer, length[r])
<1>1. /\ r \in Req /\ r \in Reads /\ r # NoReq /\ status[r] = "pending" /\ pc = "start"
      /\ r \notin QueueSet(readQueue) /\ charsCopied = 0
  BY ReqAssumption DEF StartRead, PInv, Owned, Req, RInv, Work, Copying
<1>2. /\ length[r] \in Nat /\ length[r] <= MaxLen /\ length[r] >= 1 /\ MaxLen \in Nat
      /\ information[r] = 0
  BY <1>1, SizeAssumption DEF RInv, Work, Lengths, Fresh
<1>3. /\ n \in Nat /\ n <= charsInInterruptBuffer /\ n <= length[r] /\ n <= bufferSize
  BY <1>2, RingNumbers DEF CharsToGet, RInv
<1>4. /\ \E t \in Timeouts : plan' = ReadPlan(t)
      /\ userBuffer' = [userBuffer EXCEPT ![r] = Copied(@, 0, n)]
      /\ firstReadableChar' = SlotAfter(firstReadableChar, n)
      /\ numberNeededForRead' = length[r] - n /\ charsCopied' = n
      /\ information' = [information EXCEPT ![r] = @ + n]
      /\ pc' = "copied"
      /\ UNCHANGED <<interruptBuffer, bufferSize, readBufferBase, currentCharSlot,
                     lastCharSlot, charsInInterruptBuffer, isrVars, rxHolding,
                     currentReadRequest, readQueue, pool, length, status,
                     cancelled, countOnLastRead, newBuffer>>
  BY DEF StartRead
<1> HIDE DEF n
<1>5. /\ readBufferBase = InterruptReadBuffer /\ lastCharSlot = bufferSize - 1
      /\ firstReadableChar <= lastCharSlot
      /\ currentCharSlot = SlotAfter(firstReadableChar,
                                     IF Readable = bufferSize THEN 0 ELSE Readable)
  BY <1>1, NotStartedRing DEF Started
<1>6. userBuffer' \in [Req -> [0 .. MaxLen - 1 -> Chars]]
  <2>1. userBuffer[r] \in [0 .. MaxLen - 1 -> Chars]
    BY <1>1 DEF RInv, BufferTypes
  <2>2. n \in 0 .. bufferSize
    BY <1>3, RingNumbers DEF RInv
  <2>3. 0 \in Nat
    OBVIOUS
  <2>4. Copied(userBuffer[r], 0, n) \in [0 .. MaxLen - 1 -> Chars]
    BY <1>2, <1>5, <2>1, <2>2, <2>3, CopiedType, Zenon DEF RInv
  <2>5. QED
    BY <1>4, <2>4 DEF RInv, BufferTypes
<1>7. plan' \in Plans /\ (plan'.crunch => plan'.os2)
  <2>1. PICK t \in Timeouts : plan' = ReadPlan(t)
    BY <1>4
  <2>2. plan' \in Plans
    BY <2>1 DEF ReadPlan, Plans
  <2>3. /\ plan'.crunch = (t.interval = "max" /\ t.constant # "max" /\ t.multiplier = "max")
        /\ plan'.os2 = (/\ t.interval = "max"
                        /\ t.multiplier # "zero" \/ t.constant # "zero"
                        /\ t.constant # "max")
    BY <2>1 DEF ReadPlan
  <2>4. QED
    BY <2>2, <2>3
<1>8. BufferTypes'
  <2>1. firstReadableChar' \in Nat
    BY <1>3, <1>4, RingNumbers DEF RInv, SlotAfter
  <2>2. QED
    BY <1>4, <1>6, <2>1 DEF RInv, BufferTypes, isrVars
<1>9. ReadTypes'
  <2>1. numberNeededForRead' \in Nat /\ charsCopied' \in Nat /\ information[r] + n \in Nat
    BY <1>2, <1>3, <1>4
  <2>2. information' \in [Req -> Nat]
    BY <1>4, <2>1 DEF RInv, ReadTypes
  <2>3. QED
    BY <1>4, <1>7, <2>1, <2>2 DEF RInv, ReadTypes, isrVars
<1>10. PointersAgree'
  <2>1. charsInInterruptBuffer' <= bufferSize' /\ charsCopied' <= charsInInterruptBuffer'
    BY <1>3, <1>4, RingNumbers DEF RInv
  <2>2. /\ Readable = charsInInterruptBuffer /\ Readable' = charsInInterruptBuffer - n
    BY <1>1, <1>4, RingNumbers DEF Readable, RInv
  <2>3. firstReadableChar' <= lastCharSlot
    BY <1>3, <1>4, <1>5, RingNumbers DEF RInv, SlotAfter
  <2>4. currentCharSlot = SlotAfter(firstReadableChar',
                                    IF Readable' = bufferSize THEN 0 ELSE Readable')
    BY <1>3, <1>4, <1>5, <2>2, RingNumbers DEF RInv, SlotAfter
  <2>5. QED
    BY <1>4, <1>5, <2>1, <2>3, <2>4 DEF PointersAgree, SlotAfter
<1>11. HoldFollowsFill'
  BY <1>4 DEF RInv, Ring, HoldFollowsFill, XoffLimit, XonLimit
<1>12. Work'
  <2>1. \A s \in Req : s # r => information'[s] = information[s]
    BY <1>4 DEF RInv, ReadTypes
  <2>2. Fresh'
    BY <1>1, <1>4, <2>1 DEF RInv, Work, Fresh
  <2>3. information'[r] = n
    BY <1>1, <1>2, <1>3, <1>4 DEF RInv, ReadTypes
  <2>4. Copying'
    BY <1>2, <1>3, <1>4, <1>7, <2>3 DEF Copying
  <2>5. Lengths' /\ Marks'
    BY <1>4 DEF RInv, Work, Lengths, Marks
  <2>6. QED
    BY <2>2, <2>4, <2>5 DEF Work
<1>13. QED
  BY <1>8, <1>9, <1>10, <1>11, <1>12 DEF RInv, Ring

\* The end of a read or a resize that leaves the lengths of data alone, and takes the
\* next request out of the queue.
LEMMA WorkEnds ==
  ASSUME PInv, RInv, currentReadRequest \in Req, NEW final \in Done,
         status' = [status EXCEPT ![currentReadRequest] = final],
         GetNextRequest(readQueue, "idle"), charsCopied' = 0,
         UNCHANGED <<length, countOnLastRead>>,
         \A r \in Req : r # currentReadRequest => information'[r] = information[r]
  PROVE  Work' /\ status' \in [Req -> Statuses]
<1>1. /\ readQueue \in Seq(Req) /\ Distinct(readQueue)
      /\ status[currentReadRequest] = "pending" /\ status \in [Req -> Statuses]
  BY ReqAssumption DEF PInv, RequestTypes, Owned, RInv, ReadTypes
<1>2. /\ QueueSet(readQueue') \subseteq QueueSet(readQueue)
      /\ pc' = "start" => currentReadRequest' \in QueueSet(readQueue)
      /\ pc' \notin {"copied", "moved"}
  BY <1>1, NextRequest
<1>3. \A r \in Req : status'[r] \in {"unused", "pending"} => status[r] = status'[r]
  BY <1>1 DEF Done
<1>4. Fresh'
  BY <1>1, <1>2, <1>3, FreshKept DEF RInv, Work
<1>5. Lengths'
  BY <1>3 DEF RInv, Work, Lengths, Req
<1>6. Copying' /\ Marks'
  BY <1>2 DEF RInv, Work, Copying, Marks
<1>7. QED
  BY <1>1, <1>4, <1>5, <1>6 DEF Work, Statuses

LEMMA FinishReadAtOnceKeepsRInv ==
  ASSUME PInv, RInv, FinishReadAtOnce
  PROVE  RInv'
<1>1. currentReadRequest \in Req /\ ~Started /\ pc = "copied"
  BY DEF FinishReadAtOnce, PInv, Phase, Req, Started
<1>2. /\ charsInInterruptBuffer' = charsInInterruptBuffer - charsCopied
      /\ HandleReducedIntBuffer(charsInInterruptBuffer - charsCopied, bufferSize)
      /\ status' = [status EXCEPT ![currentReadRequest] = "SUCCESS"]
      /\ charsCopied' = 0 /\ plan' = NoPlan
      /\ GetNextRequest(readQueue, "idle")
      /\ UNCHANGED <<interruptBuffer, bufferSize, readBufferBase, firstReadableChar,
                     currentCharSlot, lastCharSlot, isrVars, pool, length, information,
                     cancelled, numberNeededForRead, newBuffer,
                     countOnLastRead, userBuffer>>
  BY DEF FinishReadAtOnce
<1>3. Work' /\ status' \in [Req -> Statuses]
  <2>1. "SUCCESS" \in Done
    BY DEF Done
  <2>2. QED
    BY <1>1, <1>2, <2>1, WorkEnds
<1>4. /\ charsInInterruptBuffer' \in Nat /\ charsInInterruptBuffer' <= charsInInterruptBuffer
      /\ charsInInterruptBuffer' = Readable
  BY <1>2, RingNumbers DEF RInv, Readable
<1>5. HoldFollowsFill' /\ rxHolding' \in {{}, LineHolds}
  BY <1>2, <1>4, RingNumbers, ReducedKeepsHold DEF RInv
<1>6. BufferTypes'
  BY <1>2, <1>4, <1>5 DEF RInv, BufferTypes, isrVars
<1>7. ReadTypes'
  BY <1>2, <1>3 DEF RInv, ReadTypes, isrVars, NoPlan, Plans
<1>8. PointersAgree'
  <2>1. Readable' = Readable
    BY <1>2, <1>4, RingNumbers DEF Readable, RInv
  <2>2. QED
    BY <1>1, <1>2, <1>4, <2>1, RingNumbers, NotStartedRing DEF RInv, PointersAgree, SlotAfter
<1>9. QED
  BY <1>3, <1>5, <1>6, <1>7, <1>8 DEF RInv, Ring

\* The numbers of SerialUpdateAndSwitchToUser: what it copies is there and fits, and
\* when it is too little the buffer is empty and the user's is not full.
LEMMA SwitchToUserNumbers ==
  ASSUME PInv, RInv, pc = "copied", ~ReadIsSatisfied,
         NEW r, r = currentReadRequest,
         NEW wanted, wanted = IF plan.crunch THEN 1 ELSE length[r],
         NEW needed, needed = IF plan.crunch THEN 1 ELSE numberNeededForRead,
         NEW available, available = charsInInterruptBuffer - charsCopied,
         NEW n, n = CharsToGet(available, needed),
         NEW got, got = information[r] + n
  PROVE  /\ wanted \in 1 .. MaxLen /\ wanted - needed \in Nat /\ needed \in Nat
         /\ wanted - needed = information[r]
         /\ available \in Nat /\ n \in Nat /\ n <= available /\ n <= needed
         /\ n <= bufferSize /\ available = Readable
         /\ got \in Nat
         /\ n # needed => n = available /\ got < wanted
<1>1. r \in Reads /\ r \in Req /\ status[r] = "pending" /\ r # NoReq
  BY ReqAssumption DEF PInv, Phase, Req, Owned
<1>2. /\ length[r] \in 1 .. MaxLen /\ information[r] \in Nat /\ numberNeededForRead \in Nat
      /\ information[r] + numberNeededForRead = length[r]
      /\ plan.crunch \in BOOLEAN /\ (plan.crunch => plan.os2)
      /\ numberNeededForRead # 0
  BY <1>1 DEF RInv, Work, Lengths, ReadTypes, Copying, ReadIsSatisfied, Plans
<1>3. plan.crunch => information[r] = 0
  BY <1>2 DEF ReadIsSatisfied
<1>4. available \in Nat /\ available = Readable /\ available <= bufferSize
  BY RingNumbers DEF RInv, Readable
<1>5. wanted \in 1 .. MaxLen /\ wanted - needed = information[r] /\ needed \in Nat
  BY <1>2, <1>3, SizeAssumption
<1>6. n \in Nat /\ n <= available /\ n <= needed /\ (n # needed => n = available)
  BY <1>4, <1>5 DEF CharsToGet
<1>7. n <= bufferSize
  BY <1>4, <1>6, RingNumbers DEF RInv
<1>8. got \in Nat /\ (n # needed => got < wanted)
  BY <1>2, <1>5, <1>6, SizeAssumption
<1>9. QED
  BY <1>2, <1>4, <1>5, <1>6, <1>7, <1>8

LEMMA UpdateAndSwitchToUserKeepsRInv ==
  ASSUME PInv, RInv, UpdateAndSwitchToUser
  PROVE  RInv'
<1> DEFINE r == currentReadRequest
           wanted == IF plan.crunch THEN 1 ELSE length[r]
           needed == IF plan.crunch THEN 1 ELSE numberNeededForRead
           available == charsInInterruptBuffer - charsCopied
           n == CharsToGet(available, needed)
           got == information[r] + n
<1>1. pc = "copied" /\ ~ReadIsSatisfied /\ ~Started
  BY DEF UpdateAndSwitchToUser, Started
<1>2. /\ wanted \in 1 .. MaxLen /\ wanted - needed \in Nat /\ needed \in Nat
      /\ available \in Nat /\ n \in Nat /\ n <= available /\ n <= needed
      /\ n <= bufferSize /\ available = Readable
      /\ got \in Nat
      /\ n # needed => n = available /\ got < wanted
  BY <1>1, SwitchToUserNumbers
<1>3. /\ length' = [length EXCEPT ![r] = wanted]
      /\ userBuffer' = [userBuffer EXCEPT ![r] = Copied(@, wanted - needed, n)]
      /\ numberNeededForRead' = needed - n
      /\ charsInInterruptBuffer' = available - n
      /\ HandleReducedIntBuffer(available - n, bufferSize)
      /\ information' = [information EXCEPT ![r] = got]
      /\ firstReadableChar' = SlotAfter(firstReadableChar, n)
      /\ charsCopied' = 0 /\ plan' = NoPlan
      /\ UNCHANGED <<interruptBuffer, bufferSize, arrived, errorWord,
                     commErrorDpc, pool, cancelled, newBuffer>>
  BY DEF UpdateAndSwitchToUser
<1>4. \/ /\ status' = [status EXCEPT ![r] = "SUCCESS"]
         /\ GetNextRequest(readQueue, "idle")
         /\ UNCHANGED <<readBufferBase, currentCharSlot, lastCharSlot, countOnLastRead,
                        readByIsr>>
      \/ /\ n # needed /\ countOnLastRead' = got /\ readByIsr' = 0
         /\ readBufferBase' = r /\ currentCharSlot' = got /\ lastCharSlot' = wanted - 1
         /\ pc' = "idle"
         /\ UNCHANGED <<status, currentReadRequest, readQueue>>
  BY DEF UpdateAndSwitchToUser
<1>5. /\ r \in Req /\ r \in Reads /\ r # NoReq /\ status[r] = "pending"
      /\ r \notin QueueSet(readQueue) /\ readQueue \in Seq(Req) /\ Distinct(readQueue)
  BY <1>1, ReqAssumption DEF PInv, RequestTypes, Phase, Owned, Req
<1> HIDE DEF wanted, needed, available, n, got
<1>6. /\ readBufferBase = InterruptReadBuffer /\ lastCharSlot = bufferSize - 1
      /\ firstReadableChar <= lastCharSlot
      /\ currentCharSlot = SlotAfter(firstReadableChar,
                                     IF Readable = bufferSize THEN 0 ELSE Readable)
  BY <1>1, NotStartedRing
<1>7. /\ charsInInterruptBuffer' \in Nat /\ charsInInterruptBuffer' <= charsInInterruptBuffer
      /\ charsInInterruptBuffer' = Readable - n /\ Readable' = Readable - n
  <2>1. charsInInterruptBuffer' = Readable - n /\ charsInInterruptBuffer' \in Nat
    BY <1>2, <1>3
  <2>2. Readable <= charsInInterruptBuffer
    BY RingNumbers DEF RInv, Readable
  <2>3. QED
    BY <1>2, <1>3, <2>1, <2>2, RingNumbers DEF RInv, Readable
<1>8. HoldFollowsFill' /\ rxHolding' \in {{}, LineHolds}
  <2>1. HandleReducedIntBuffer(charsInInterruptBuffer', bufferSize')
    BY <1>3
  <2>2. QED
    BY <1>3, <1>7, <2>1, RingNumbers, ReducedKeepsHold DEF RInv
<1>9. userBuffer' \in [Req -> [0 .. MaxLen - 1 -> Chars]]
  <2>1. userBuffer[r] \in [0 .. MaxLen - 1 -> Chars]
    BY <1>5 DEF RInv, BufferTypes
  <2>2. n \in 0 .. bufferSize /\ MaxLen \in Nat
    BY <1>2, RingNumbers DEF RInv
  <2>3. Copied(userBuffer[r], wanted - needed, n) \in [0 .. MaxLen - 1 -> Chars]
    BY <1>2, <1>6, <2>1, <2>2, CopiedType, Zenon DEF RInv
  <2>4. QED
    BY <1>3, <2>3 DEF RInv, BufferTypes
<1>10. firstReadableChar' \in Nat /\ firstReadableChar' <= lastCharSlot
  BY <1>2, <1>3, <1>6, RingNumbers DEF RInv, SlotAfter
<1>11. currentCharSlot' \in Nat /\ lastCharSlot' \in Nat
  <2>1. CASE UNCHANGED <<currentCharSlot, lastCharSlot>>
    BY <2>1 DEF RInv, BufferTypes
  <2>2. CASE currentCharSlot' = got /\ lastCharSlot' = wanted - 1
    BY <1>2, <2>2, SizeAssumption
  <2>3. QED
    BY <1>4, <2>1, <2>2
<1>12. BufferTypes'
  BY <1>3, <1>7, <1>8, <1>9, <1>10, <1>11 DEF RInv, BufferTypes
<1>13. ReadTypes'
  <2>1. numberNeededForRead' \in Nat /\ charsCopied' \in Nat /\ plan' \in Plans
    BY <1>2, <1>3 DEF NoPlan, Plans
  <2>2. /\ readByIsr' \in Nat /\ countOnLastRead' \in Int /\ status' \in [Req -> Statuses]
    BY <1>2, <1>4 DEF RInv, ReadTypes, Statuses, Done
  <2>3. information' \in [Req -> Nat] /\ length' \in [Req -> Nat]
    <3>1. wanted \in Nat /\ got \in Nat
      BY <1>2, SizeAssumption
    <3>2. information \in [Req -> Nat] /\ length \in [Req -> Nat]
      BY DEF RInv, ReadTypes
    <3>3. QED
      BY <1>3, <3>1, <3>2
  <2>4. QED
    BY <1>3, <2>1, <2>2, <2>3 DEF RInv, ReadTypes
<1>14. PointersAgree'
  <2>1. charsInInterruptBuffer' <= bufferSize' /\ charsCopied' <= charsInInterruptBuffer'
    BY <1>3, <1>7, RingNumbers DEF RInv
  <2>2. CASE UNCHANGED <<readBufferBase, currentCharSlot, lastCharSlot>>
    <3>1. currentCharSlot = SlotAfter(firstReadableChar',
                                      IF Readable' = bufferSize THEN 0 ELSE Readable')
      <4>1. Readable \in Nat /\ Readable <= bufferSize
        BY RingNumbers DEF RInv, Readable
      <4>2. /\ n \in Nat /\ n <= Readable
            /\ Readable' = Readable - n /\ firstReadableChar' = SlotAfter(firstReadableChar, n)
        BY <1>2, <1>3, <1>7
      <4>3. /\ bufferSize \in Nat /\ bufferSize >= 1 /\ firstReadableChar \in Nat
            /\ lastCharSlot = bufferSize - 1 /\ firstReadableChar <= lastCharSlot
            /\ currentCharSlot = SlotAfter(firstReadableChar,
                                           IF Readable = bufferSize THEN 0 ELSE Readable)
        BY <1>6, RingNumbers DEF RInv
      <4>4. lastCharSlot' = lastCharSlot
        BY <2>2
      <4>5. QED
        BY <4>1, <4>2, <4>3, <4>4 DEF SlotAfter
    <3>2. QED
      BY <1>3, <1>6, <1>10, <2>1, <2>2, <3>1 DEF PointersAgree, SlotAfter
  <2>3. CASE /\ n # needed /\ readBufferBase' = r /\ currentCharSlot' = got
             /\ lastCharSlot' = wanted - 1 /\ UNCHANGED currentReadRequest
    <3>1. charsInInterruptBuffer' = 0 /\ readBufferBase' # InterruptReadBuffer
      BY <1>2, <1>5, <1>7, <2>3 DEF InterruptReadBuffer
    <3>2. length'[currentReadRequest'] = wanted
      BY <1>3, <1>5, <2>3 DEF RInv, ReadTypes
    <3>3. QED
      BY <1>2, <2>1, <2>3, <3>1, <3>2, SizeAssumption DEF PointersAgree
  <2>4. QED
    BY <1>4, <2>2, <2>3
<1>15. Work'
  <2>1. /\ QueueSet(readQueue') \subseteq QueueSet(readQueue)
        /\ pc' = "start" => currentReadRequest' \in QueueSet(readQueue)
        /\ pc' \notin {"copied", "moved"}
    <3>1. CASE GetNextRequest(readQueue, "idle")
      BY <1>5, <3>1, NextRequest
    <3>2. CASE pc' = "idle" /\ UNCHANGED <<currentReadRequest, readQueue>>
      BY <3>2
    <3>3. QED
      BY <1>4, <3>1, <3>2
  <2>2. \A s \in Req : status'[s] \in {"unused", "pending"} => status[s] = status'[s]
    BY <1>4, <1>5 DEF RInv, ReadTypes
  <2>3. \A s \in Req : s # r => information'[s] = information[s] /\ length'[s] = length[s]
    BY <1>3 DEF RInv, ReadTypes
  <2>4. Fresh'
    BY <1>5, <2>1, <2>2, <2>3, FreshKept DEF RInv, Work
  <2>5. length'[r] = wanted /\ r \notin Resizes
    BY <1>3, <1>5, ReqAssumption DEF RInv, ReadTypes
  <2>6. Lengths'
    BY <1>2, <2>2, <2>3, <2>5 DEF RInv, Work, Lengths, Req
  <2>7. Copying'
    BY <1>3, <2>1 DEF Copying
  <2>8. Marks'
    BY <1>2, <1>4 DEF RInv, Work, Marks
  <2>9. QED
    BY <2>4, <2>6, <2>7, <2>8 DEF Work
<1>16. QED
  BY <1>8, <1>12, <1>13, <1>14, <1>15 DEF RInv, Ring

LEMMA ResizeNotNeededKeepsRInv ==
  ASSUME PInv, RInv, ResizeNotNeeded
  PROVE  RInv'
<1>1. currentReadRequest \in Req /\ ~Started /\ charsCopied = 0
  BY DEF ResizeNotNeeded, Started, Req, RInv, Work, Copying
<1>2. /\ status' = [status EXCEPT ![currentReadRequest] = "SUCCESS"]
      /\ pool' \subseteq pool /\ GetNextRequest(readQueue, "idle")
      /\ UNCHANGED <<ringVars, isrVars, length, information, cancelled, readVars,
                     userBuffer, rxHolding>>
  BY DEF ResizeNotNeeded
<1>3. Work' /\ status' \in [Req -> Statuses]
  <2>1. "SUCCESS" \in Done /\ charsCopied' = 0 /\ UNCHANGED countOnLastRead
    BY <1>1, <1>2 DEF Done, readVars
  <2>2. QED
    BY <1>1, <1>2, <2>1, WorkEnds
<1>4. BufferTypes' /\ ReadTypes'
  BY <1>2, <1>3 DEF RInv, BufferTypes, ReadTypes, ringVars, isrVars, readVars
<1>5. Ring'
  BY <1>1, <1>2, NotStartedRing, RingKept DEF RInv, ringVars, readVars
<1>6. QED
  BY <1>3, <1>4, <1>5 DEF RInv

LEMMA MoveToNewIntBufferKeepsRInv ==
  ASSUME PInv, RInv, MoveToNewIntBuffer
  PROVE  RInv'
<1> DEFINE n == charsInInterruptBuffer
<1>1. /\ pc = "start" /\ currentReadRequest \in Req /\ ~Started /\ charsCopied = 0
      /\ length[currentReadRequest] > bufferSize
      /\ currentReadRequest \notin QueueSet(readQueue)
  BY DEF MoveToNewIntBuffer, Started, Req, PInv, Owned, RInv, Work, Copying
<1>2. /\ newBuffer' = Copied(newBuffer, 0, n)
      /\ firstReadableChar' = SlotAfter(firstReadableChar, n)
      /\ charsCopied' = n /\ pc' = "moved" /\ pool' \subseteq pool
      /\ UNCHANGED <<interruptBuffer, bufferSize, readBufferBase, currentCharSlot,
                     lastCharSlot, charsInInterruptBuffer, isrVars, currentReadRequest,
                     readQueue, length, information, status, cancelled,
                     numberNeededForRead, countOnLastRead, plan, userBuffer, rxHolding>>
  BY DEF MoveToNewIntBuffer
<1>3. /\ readBufferBase = InterruptReadBuffer /\ lastCharSlot = bufferSize - 1
      /\ firstReadableChar <= lastCharSlot
      /\ currentCharSlot = SlotAfter(firstReadableChar,
                                     IF Readable = bufferSize THEN 0 ELSE Readable)
  BY <1>1, NotStartedRing
<1>4. n \in Nat /\ n <= bufferSize /\ Readable = n /\ Readable' = 0
  BY <1>1, <1>2, RingNumbers DEF RInv, Readable
<1>5. newBuffer' \in [0 .. MaxSize - 1 -> Chars]
  <2>1. n \in 0 .. bufferSize /\ MaxSize \in Nat /\ 0 \in Nat
    BY <1>4, RingNumbers DEF RInv
  <2>2. newBuffer \in [0 .. MaxSize - 1 -> Chars] /\ BufferTypes
    BY DEF RInv, BufferTypes
  <2>3. QED
    BY <1>2, <1>3, <2>1, <2>2, CopiedType, Zenon
<1> HIDE DEF n
<1>6. firstReadableChar' \in Nat /\ firstReadableChar' <= lastCharSlot
  BY <1>2, <1>3, <1>4, RingNumbers DEF RInv, SlotAfter
<1>7. BufferTypes'
  BY <1>2, <1>5, <1>6 DEF RInv, BufferTypes, isrVars
<1>8. ReadTypes'
  BY <1>2, <1>4 DEF RInv, ReadTypes, isrVars
<1>9. PointersAgree'
  <2>1. currentCharSlot = SlotAfter(firstReadableChar',
                                    IF Readable' = bufferSize THEN 0 ELSE Readable')
    BY <1>2, <1>3, <1>4, RingNumbers DEF RInv, SlotAfter
  <2>2. charsInInterruptBuffer' <= bufferSize' /\ charsCopied' <= charsInInterruptBuffer'
    BY <1>2, <1>4, RingNumbers DEF RInv, n
  <2>3. QED
    BY <1>2, <1>3, <1>6, <2>1, <2>2 DEF PointersAgree, SlotAfter
<1>10. HoldFollowsFill'
  BY <1>2 DEF RInv, Ring, HoldFollowsFill, XoffLimit, XonLimit
<1>11. Work'
  BY <1>1, <1>2 DEF RInv, Work, Fresh, Lengths, Copying, Marks
<1>12. QED
  BY <1>7, <1>8, <1>9, <1>10, <1>11 DEF RInv, Ring

LEMMA UpdateAndSwitchToNewKeepsRInv ==
  ASSUME PInv, RInv, UpdateAndSwitchToNew
  PROVE  RInv'
<1> DEFINE r == currentReadRequest
           n == charsInInterruptBuffer - charsCopied
<1>1. /\ r \in Req /\ r \in Resizes /\ ~Started /\ pc = "moved" /\ status[r] = "pending"
      /\ length[r] > bufferSize /\ length[r] \in 1 .. MaxSize
  BY ReqAssumption DEF UpdateAndSwitchToNew, Started, Req, PInv, Phase, Owned, RInv, Work,
     Copying, Lengths
<1>2. /\ interruptBuffer' = Copied(newBuffer, charsCopied, n)
      /\ bufferSize' = length[r]
      /\ readBufferBase' = InterruptReadBuffer
      /\ firstReadableChar' = 0
      /\ currentCharSlot' = charsInInterruptBuffer
      /\ lastCharSlot' = length[r] - 1
      /\ HandleReducedIntBuffer(charsInInterruptBuffer, length[r])
      /\ status' = [status EXCEPT ![r] = "SUCCESS"]
      /\ charsCopied' = 0
      /\ GetNextRequest(readQueue, "idle")
      /\ UNCHANGED <<charsInInterruptBuffer, isrVars, pool, length, information,
                     cancelled, numberNeededForRead, countOnLastRead, plan,
                     newBuffer, userBuffer>>
  BY DEF UpdateAndSwitchToNew
<1>3. readBufferBase = InterruptReadBuffer /\ lastCharSlot = bufferSize - 1
      /\ firstReadableChar <= lastCharSlot
  BY <1>1, NotStartedRing
<1>4. Work' /\ status' \in [Req -> Statuses]
  <2>1. "SUCCESS" \in Done
    BY DEF Done
  <2>2. QED
    BY <1>1, <1>2, <2>1, WorkEnds
<1>5. interruptBuffer' \in [0 .. MaxSize - 1 -> Chars]
  <2>1. n \in 0 .. bufferSize /\ MaxSize \in Nat /\ charsCopied \in Nat
    BY RingNumbers DEF RInv
  <2>2. newBuffer \in [0 .. MaxSize - 1 -> Chars] /\ BufferTypes
    BY DEF RInv, BufferTypes
  <2>3. QED
    BY <1>2, <1>3, <2>1, <2>2, CopiedType, Zenon
<1>6. /\ bufferSize' \in 1 .. MaxSize /\ bufferSize' \in Nat /\ bufferSize <= bufferSize'
      /\ charsInInterruptBuffer' \in Nat /\ charsInInterruptBuffer' < bufferSize'
      /\ lastCharSlot' \in Nat
  BY <1>1, <1>2, RingNumbers DEF RInv
<1>7. HoldFollowsFill' /\ rxHolding' \in {{}, LineHolds}
  BY <1>2, <1>6, RingNumbers, ReducedKeepsHold DEF RInv
<1>8. BufferTypes'
  BY <1>2, <1>5, <1>6, <1>7 DEF RInv, BufferTypes, isrVars
<1>9. ReadTypes'
  BY <1>2, <1>4 DEF RInv, ReadTypes, isrVars
<1>10. PointersAgree'
  BY <1>2, <1>6 DEF PointersAgree, Readable, SlotAfter
<1>11. QED
  BY <1>4, <1>7, <1>8, <1>9, <1>10 DEF RInv, Ring

-----------------------------------------------------------------------------
(* The callbacks.                                                          *)

\* Whoever comes back for the current read on his own.
LEMMA CallbackKeepsRInv ==
  ASSUME PInv, RInv, NEW grab \in BOOLEAN, NEW final \in Done, NEW caller, NEW interval,
         NEW total, Calls(grab, caller, interval, total),
         TryToComplete(grab, final, caller, interval, total, readQueue, status, "idle"),
         pool' = pool, commErrorDpc' = commErrorDpc,
         \/ countOnLastRead' \in {ReadCancel, ReadTotal, ReadComplete}
         \/ UNCHANGED countOnLastRead
  PROVE  RInv'
<1>1. readQueue \in Seq(Req) /\ Distinct(readQueue) /\ status \in [Req -> Statuses]
  BY DEF PInv, RequestTypes, Owned, RInv, ReadTypes
<1>2. /\ commErrorDpc' \in BOOLEAN /\ countOnLastRead' \in Int /\ Marks'
  BY DEF RInv, ReadTypes, Work, Marks, ReadCancel, ReadTotal, ReadComplete
<1>3. /\ \A r \in Req : status[r] \in {"unused", "pending"} => status[r] = status[r]
      /\ QueueSet(readQueue) \subseteq QueueSet(readQueue) /\ "idle" \in {"idle", "purge"}
  OBVIOUS
<1>4. QED
  BY <1>1, <1>2, <1>3, TryToCompleteKeepsRInv

LEMMA IntervalReadTimeoutKeepsRInv ==
  ASSUME PInv, RInv, IntervalReadTimeout
  PROVE  RInv'
<1>1. Calls(TRUE, "INT_TIMER", intervalTimer, totalTimer)
  BY DEF IntervalReadTimeout, Calls, PInv, RequestTypes, RefsMatchOwners, Phase
<1>2. /\ TryToComplete(TRUE, "TIMEOUT", "INT_TIMER", intervalTimer, totalTimer,
                       readQueue, status, "idle")
      /\ UNCHANGED <<pool, commErrorDpc, countOnLastRead>>
      /\ "TIMEOUT" \in Done
  BY DEF IntervalReadTimeout, Done
<1>3. QED
  BY <1>1, <1>2, CallbackKeepsRInv

LEMMA ContinueKeepsRInv ==
  ASSUME PInv, RInv, Continue
  PROVE  RInv'
  BY StartReadKeepsRInv, FinishReadAtOnceKeepsRInv, UpdateAndSwitchToUserKeepsRInv,
     ResizeNotNeededKeepsRInv, MoveToNewIntBufferKeepsRInv, UpdateAndSwitchToNewKeepsRInv,
     PurgeInterruptBuffKeepsRInv, IntervalReadTimeoutKeepsRInv DEF Continue

LEMMA CallbacksKeepRInv ==
  ASSUME PInv, RInv, Callback
  PROVE  RInv'
<1>1. CASE CompleteRead
  <2>1. Calls(FALSE, "ISR", intervalTimer, totalTimer)
    BY <1>1 DEF CompleteRead, Calls, PInv, RefsMatchOwners
  <2>2. /\ TryToComplete(FALSE, "SUCCESS", "ISR", intervalTimer, totalTimer,
                         readQueue, status, "idle")
        /\ pool' = pool /\ commErrorDpc' = commErrorDpc /\ countOnLastRead' = ReadComplete
        /\ "SUCCESS" \in Done
    BY <1>1 DEF CompleteRead, Done
  <2>3. QED
    BY <2>1, <2>2, CallbackKeepsRInv
<1>2. CASE CommError
  <2>1. /\ pc = "idle" /\ FlushReads("idle") /\ UNCHANGED completeReadDpc
        /\ commErrorDpc' \in BOOLEAN
    BY <1>2 DEF CommError
  <2>2. QED
    BY <2>1, FlushKeepsRInv
<1>3. CASE ReadTimeout
  <2>1. Calls(TRUE, "TOTAL_TIMER", intervalTimer, "off")
    BY <1>3 DEF ReadTimeout, Calls, PInv, RequestTypes, RefsMatchOwners
  <2>2. /\ TryToComplete(TRUE, "TIMEOUT", "TOTAL_TIMER", intervalTimer, "off",
                         readQueue, status, "idle")
        /\ pool' = pool /\ commErrorDpc' = commErrorDpc /\ countOnLastRead' = ReadTotal
        /\ "TIMEOUT" \in Done
    BY <1>3 DEF ReadTimeout, Done
  <2>3. QED
    BY <2>1, <2>2, CallbackKeepsRInv
<1>4. CASE IntervalReadEnded
  <2>1. Calls(TRUE, "INT_TIMER", "off", totalTimer)
    BY <1>4 DEF IntervalReadEnded, Calls, PInv, RequestTypes, RefsMatchOwners
  <2>2. /\ TryToComplete(TRUE, MarkedStatus(countOnLastRead), "INT_TIMER", "off", totalTimer,
                         readQueue, status, "idle")
        /\ UNCHANGED <<pool, commErrorDpc, countOnLastRead>> /\ countOnLastRead < 0
    BY <1>4 DEF IntervalReadEnded
  <2>3. countOnLastRead \in {ReadCancel, ReadTotal, ReadComplete}
    BY <2>2 DEF RInv, Work, Marks
  <2>4. MarkedStatus(countOnLastRead) \in Done
    BY <2>3 DEF MarkedStatus, Done, ReadCancel, ReadTotal, ReadComplete
  <2>5. QED
    BY <2>1, <2>2, <2>4, CallbackKeepsRInv
<1>5. CASE IntervalReadResumes
  <2>1. /\ UNCHANGED <<ringVars, arrived, errorWord, commErrorDpc, requestVars,
                       numberNeededForRead, charsCopied, plan, newBuffer, userBuffer,
                       rxHolding, pc>>
        /\ \/ countOnLastRead' = readByIsr /\ readByIsr' = 0
           \/ UNCHANGED <<countOnLastRead, readByIsr>>
    BY <1>5 DEF IntervalReadResumes, UpdateReadByIsr
  <2>2. BufferTypes'
    BY <2>1 DEF RInv, BufferTypes, ringVars
  <2>3. readByIsr' \in Nat /\ countOnLastRead' \in Int /\ Marks'
    BY <2>1 DEF RInv, ReadTypes, Work, Marks
  <2>4. ReadTypes'
    BY <2>1, <2>3 DEF RInv, ReadTypes, requestVars
  <2>5. Ring'
    BY <2>1, RingKept DEF RInv, ringVars, requestVars
  <2>6. Work'
    BY <2>1, <2>3, WorkKept DEF RInv, requestVars, ringVars
  <2>7. QED
    BY <2>2, <2>4, <2>5, <2>6 DEF RInv
<1>6. CASE IntervalReadExpires
  <2>1. /\ UNCHANGED <<ringVars, arrived, userBuffer, rxHolding, currentReadRequest, readQueue,
                       pool, length, information, status, cancelled, readVars, readByIsr>>
        /\ pc = "idle" /\ pc' = "expired"
    BY <1>6 DEF IntervalReadExpires, requestVars, isrVars
  <2>2. errorWord' \in BOOLEAN /\ commErrorDpc' \in BOOLEAN
    BY <1>6 DEF IntervalReadExpires, RInv, ReadTypes, isrVars
  <2>3. QED
    BY <2>1, <2>2, QuietKeepsRInv
<1>7. CASE \E r \in Req : CancelCallback(r)
  <2>1. PICK r \in Req : CancelCallback(r)
    BY <1>7
  <2>2. Started /\ r = currentReadRequest /\ "CANCEL" \in refs[currentReadRequest]
    BY <2>1 DEF CancelCallback, PInv, RefsMatchOwners
  <2>3. Calls(TRUE, "CANCEL", intervalTimer, totalTimer)
    BY <2>1, <2>2 DEF CancelCallback, Calls, PInv, RequestTypes
  <2>4. /\ TryToComplete(TRUE, "CANCELLED", "CANCEL", intervalTimer, totalTimer,
                         readQueue, status, "idle")
        /\ pool' = pool /\ commErrorDpc' = commErrorDpc /\ countOnLastRead' = ReadCancel
        /\ "CANCELLED" \in Done
    BY <2>1 DEF CancelCallback, CancelCurrentRead, Done
  <2>5. QED
    BY <2>3, <2>4, CallbackKeepsRInv
<1>8. QED
  BY <1>1, <1>2, <1>3, <1>4, <1>5, <1>6, <1>7 DEF Callback

LEMMA TimerKeepsRInv ==
  ASSUME RInv, TotalTimerFires \/ IntervalTimerFires
  PROVE  RInv'
<1>1. UNCHANGED <<ringVars, arrived, userBuffer, rxHolding, currentReadRequest, readQueue,
                  pool, length, information, status, cancelled, readVars, readByIsr, pc,
                  errorWord, commErrorDpc>>
  BY DEF TotalTimerFires, IntervalTimerFires, requestVars, isrVars
<1>2. errorWord' \in BOOLEAN /\ commErrorDpc' \in BOOLEAN
  BY <1>1 DEF RInv, ReadTypes
<1>3. QED
  BY <1>1, <1>2, QuietKeepsRInv

-----------------------------------------------------------------------------
(* The theorems.                                                           *)

LEMMA InitRInv == Init => RInv
<1> SUFFICES ASSUME Init PROVE RInv
  OBVIOUS
<1>1. /\ MaxSize \in Nat /\ MaxLen \in Nat /\ InitSize \in 1 .. MaxSize /\ 0 \in Chars
      /\ bufferSize = InitSize
  BY SizeAssumption DEF Init, Chars
<1>2. BufferTypes
  BY <1>1 DEF Init, BufferTypes
<1>3. /\ length = [r \in Req |-> 0] /\ information = [r \in Req |-> 0]
      /\ status = [r \in Req |-> "unused"] /\ cancelled = [r \in Req |-> FALSE]
      /\ plan = NoPlan /\ pool = {} /\ pc = "idle" /\ readQueue = << >>
      /\ countOnLastRead = 0 /\ charsCopied = 0
      /\ charsInInterruptBuffer = 0 /\ rxHolding = {}
  BY DEF Init
<1>4. ReadTypes
  <2>1. status \in [Req -> Statuses] /\ cancelled \in [Req -> BOOLEAN] /\ plan \in Plans
    BY <1>3 DEF Statuses, NoPlan, Plans
  <2>2. length \in [Req -> Nat] /\ information \in [Req -> Nat]
    BY <1>3
  <2>3. /\ numberNeededForRead \in Nat /\ readByIsr \in Nat /\ charsCopied \in Nat
        /\ countOnLastRead \in Int
    BY DEF Init
  <2>4. pool \subseteq Resizes /\ errorWord \in BOOLEAN /\ commErrorDpc \in BOOLEAN
    BY DEF Init
  <2>5. QED
    BY <2>1, <2>2, <2>3, <2>4 DEF ReadTypes
<1>5. PointersAgree
  BY <1>1 DEF Init, PointersAgree, Readable, SlotAfter
<1>6. HoldFollowsFill
  <2>1. bufferSize - XoffLimit > 0
    BY <1>1, LimitsOf DEF XoffLimit
  <2>2. ~(0 >= bufferSize - XoffLimit)
    BY <1>1, <2>1, LimitsOf DEF XoffLimit
  <2>3. QED
    BY <1>3, <2>2 DEF HoldFollowsFill
<1>7. Work
  <2>1. Fresh
    BY <1>3 DEF Fresh
  <2>2. Lengths
    BY <1>3 DEF Lengths, Req
  <2>3. Copying /\ Marks
    BY <1>3 DEF Copying, Marks
  <2>4. QED
    BY <2>1, <2>2, <2>3 DEF Work
<1>8. QED
  BY <1>2, <1>4, <1>5, <1>6, <1>7 DEF RInv, Ring

LEMMA NextRInv == PInv /\ RInv /\ [Next]_vars => RInv'
<1> SUFFICES ASSUME PInv, RInv, [Next]_vars PROVE RInv'
  OBVIOUS
<1>1. CASE ISR
  BY <1>1, PutCharInUserBufferKeepsRInv, PutCharInInterruptBufferKeepsRInv,
     PutCharOverrunKeepsRInv, LineErrorKeepsRInv DEF ISR
<1>2. CASE UNCHANGED vars
  <2>1. UNCHANGED <<ringVars, arrived, userBuffer, rxHolding, currentReadRequest, readQueue,
                    pool, length, information, status, cancelled, readVars, readByIsr, pc,
                    errorWord, commErrorDpc>>
    BY <1>2 DEF vars, requestVars, isrVars
  <2>2. errorWord' \in BOOLEAN /\ commErrorDpc' \in BOOLEAN
    BY <2>1 DEF RInv, ReadTypes
  <2>3. QED
    BY <2>1, <2>2, QuietKeepsRInv
<1>3. QED
  BY <1>1, <1>2, ClientKeepsRInv, ContinueKeepsRInv, CallbacksKeepRInv, TimerKeepsRInv,
     Zenon DEF Next

THEOREM SpecRInv == Spec => []RInv
<1>1. RInv /\ PInv /\ [Next]_vars => RInv'
  BY NextRInv
<1>2. QED
  BY <1>1, InitRInv, SpecPInv, PTL DEF Spec

\* Type correctness of the read path.
THEOREM SpecReadPathTypeOK == Spec => []TypeOK
<1>1. PInv /\ RInv => TypeOK
  <2> SUFFICES ASSUME PInv, RInv PROVE TypeOK
    OBVIOUS
  <2>1. readBufferBase \in Req \cup {InterruptReadBuffer}
    BY DEF PInv, RefsMatchOwners, RequestTypes, InterruptReadBuffer
  <2>2. BufferTypes /\ ReadTypes /\ RequestTypes
    BY DEF PInv, RInv
  <2>3. QED
    BY <2>1, <2>2, TypesAreTypeOK
<1>2. QED
  BY <1>1, SpecPInv, SpecRInv, PTL

\* The pointers of the ISR agree with the counts: it writes right behind the readable
\* characters, wrapped or not and while a copy is under way, and in the buffer of a
\* read it stays inside what the read asked for and its buffer holds.
THEOREM SpecPointersAgree == Spec => []PointersAgree
<1>1. RInv => PointersAgree
  BY DEF RInv, Ring
<1>2. QED
  BY <1>1, SpecRInv, PTL

\* The lines hold the sender whenever the buffer is filled to the Xoff threshold, and
\* never at or below the Xon limit: no sender is left waiting for an empty buffer.
THEOREM SpecHoldFollowsFill == Spec => []HoldFollowsFill
<1>1. RInv => HoldFollowsFill
  BY DEF RInv, Ring
<1>2. QED
  BY <1>1, SpecRInv, PTL

-----------------------------------------------------------------------------
(* Sequences that are read out of buffers.                                 *)

\* The first n cells of a buffer.
Cells(f, n) == [i \in 1 .. n |-> f[i - 1]]

\* The slot n places after a slot of a ring, and n cells of it in their order.
RingSlot(slot, n, last) == IF slot + n > last THEN slot + n - (last + 1) ELSE slot + n
RingCells(f, first, last, n) == [i \in 1 .. n |-> f[RingSlot(first, i - 1, last)]]

\* A cell of a buffer of that size is written.
Written(f, g, size, at, c) == g[at] = c /\ \A i \in 0 .. size - 1 : i # at => g[i] = f[i]

\* A sequence with one element replaced.
Replaced(s, n, c) == [s EXCEPT ![n] = c]

LEMMA FunctionIsSeq ==
  ASSUME NEW S, NEW n \in Nat, NEW s \in [1 .. n -> S]
  PROVE  s \in Seq(S) /\ Len(s) = n
<1>1. s \in Seq(S)
  BY SeqDef
<1>2. QED
  BY <1>1, LenProperties

LEMMA NoCells == \A f, first, last : Cells(f, 0) = << >> /\ RingCells(f, first, last, 0) = << >>
<1>1. 1 .. 0 = {}
  OBVIOUS
<1>2. \A g : DOMAIN g = {} => [i \in {} |-> g[i]] = << >>
  OBVIOUS
<1>3. QED
  BY <1>1 DEF Cells, RingCells

\* What is in one sequence and another behind it, cut there.
LEMMA CutConcat ==
  ASSUME NEW S, NEW a \in Seq(S), NEW b \in Seq(S)
  PROVE  /\ a \o b \in Seq(S) /\ Len(a) \in 0 .. Len(a \o b) /\ Len(a) <= Len(a \o b)
         /\ SubSeq(a \o b, 1, Len(a)) = a
         /\ SubSeq(a \o b, Len(a) + 1, Len(a \o b)) = b
<1> DEFINE s == a \o b
           n == Len(a)
           m == Len(b)
           c == SubSeq(s, 1, n)
           d == SubSeq(s, n + 1, n + m)
<1>1. /\ s \in Seq(S) /\ Len(s) = n + m /\ n \in Nat /\ m \in Nat
      /\ \A i \in 1 .. n + m : s[i] = IF i <= n THEN a[i] ELSE b[i - n]
  BY ConcatProperties
<1>2. /\ \A i \in 1 .. n : a[i] \in S
      /\ \A i \in 1 .. m : b[i] \in S
  OBVIOUS
<1> HIDE DEF s, n, m
<1>3. \A i \in 1 .. n : s[i] = a[i] /\ s[i] \in S
  BY <1>1, <1>2
<1>4. \A i \in n + 1 .. n + m : i - n \in 1 .. m /\ s[i] = b[i - n] /\ s[i] \in S
  BY <1>1, <1>2
<1>5. c = a
  <2>1. c \in Seq(S) /\ Len(c) = n /\ \A i \in 1 .. n : c[i] = s[i]
    BY <1>1, <1>3
  <2>2. QED
    BY <1>3, <2>1, SeqEqual DEF n
<1>6. d = b
  <2>1. d \in Seq(S) /\ Len(d) = m /\ \A i \in 1 .. m : d[i] = s[n + i]
    BY <1>1, <1>4
  <2> HIDE DEF d
  <2>2. ASSUME NEW i \in 1 .. m
        PROVE  d[i] = b[i]
    <3>1. n + i \in n + 1 .. n + m /\ (n + i) - n = i
      BY <1>1
    <3>2. s[n + i] = b[(n + i) - n]
      BY <1>4, <3>1, Zenon
    <3>3. QED
      BY <2>1, <3>1, <3>2
  <2>3. QED
    BY <2>1, <2>2, SeqEqual DEF m
<1>7. QED
  BY <1>1, <1>5, <1>6 DEF s, n, m

LEMMA EmptyConcat ==
  ASSUME NEW S, NEW s \in Seq(S)
  PROVE  s \o << >> = s /\ << >> \o s = s /\ << >> \in Seq(S)
  BY ConcatEmptySeq, EmptySeq

-----------------------------------------------------------------------------
(* What the ISR and the copies make of them.                               *)

\* A cell is written behind the first n.
LEMMA CellsAppend ==
  ASSUME NEW S, NEW size, NEW f, NEW n, NEW c, NEW g,
         size \in Nat, f \in [0 .. size - 1 -> S], n \in Nat, n < size, c \in S,
         g \in [0 .. size - 1 -> S], Written(f, g, size, n, c)
  PROVE  Cells(g, n + 1) = Append(Cells(f, n), c)
<1> DEFINE s == Cells(f, n)
           t == Cells(g, n + 1)
<1>1. g \in [0 .. size - 1 -> S] /\ g[n] = c /\ \A i \in 0 .. n - 1 : g[i] = f[i]
  BY DEF Written
<1>2. /\ s \in Seq(S) /\ Len(s) = n
      /\ \A i \in 1 .. n : s[i] = f[i - 1]
  <2>1. \A i \in 1 .. n : i - 1 \in 0 .. size - 1
    OBVIOUS
  <2>2. s \in [1 .. n -> S]
    BY <2>1 DEF Cells
  <2>3. QED
    BY <2>2, FunctionIsSeq DEF Cells
<1>3. /\ t \in Seq(S) /\ Len(t) = n + 1
      /\ \A i \in 1 .. n + 1 : t[i] = g[i - 1]
  <2>1. \A i \in 1 .. n + 1 : i - 1 \in 0 .. size - 1
    OBVIOUS
  <2>2. t \in [1 .. n + 1 -> S]
    BY <1>1, <2>1 DEF Cells
  <2>3. QED
    BY <2>2, FunctionIsSeq DEF Cells
<1> HIDE DEF s, t
<1>4. /\ Append(s, c) \in Seq(S) /\ Len(Append(s, c)) = n + 1
      /\ \A i \in 1 .. n : Append(s, c)[i] = s[i]
      /\ Append(s, c)[n + 1] = c
  BY <1>2, AppendProperties
<1>5. \A i \in 1 .. n + 1 : t[i] = Append(s, c)[i]
  <2>1. \A i \in 1 .. n : i - 1 \in 0 .. n - 1 /\ i \in 1 .. n + 1
    OBVIOUS
  <2>2. \A i \in 1 .. n : t[i] = Append(s, c)[i]
    BY <1>1, <1>2, <1>3, <1>4, <2>1
  <2>3. t[n + 1] = c
    BY <1>1, <1>3
  <2>4. QED
    BY <1>4, <2>2, <2>3
<1>6. t = Append(s, c)
  BY <1>3, <1>4, <1>5, SeqEqual
<1>7. QED
  BY <1>6 DEF s, t

\* The slots of a ring are apart as long as it is not gone round.
LEMMA RingSlotsApart ==
  ASSUME NEW last \in Nat, NEW first \in 0 .. last,
         NEW i \in 0 .. last, NEW j \in 0 .. last,
         RingSlot(first, i, last) = RingSlot(first, j, last)
  PROVE  i = j
  BY DEF RingSlot

\* A cell of a ring is written behind the first n.
LEMMA RingAppend ==
  ASSUME NEW S, NEW size, NEW f, NEW last, NEW first, NEW n, NEW c, NEW at, NEW g,
         size \in Nat, f \in [0 .. size - 1 -> S],
         last \in Nat, last < size, first \in 0 .. last, n \in Nat, n <= last, c \in S,
         at = RingSlot(first, n, last),
         g \in [0 .. size - 1 -> S], Written(f, g, size, at, c)
  PROVE  RingCells(g, first, last, n + 1) = Append(RingCells(f, first, last, n), c)
<1> DEFINE s == RingCells(f, first, last, n)
           t == RingCells(g, first, last, n + 1)
<1>1. at \in 0 .. size - 1
  BY DEF RingSlot
<1>2. g \in [0 .. size - 1 -> S] /\ g[at] = c /\ \A i \in 0 .. size - 1 : i # at => g[i] = f[i]
  BY DEF Written
<1>3. /\ s \in Seq(S) /\ Len(s) = n
      /\ \A i \in 1 .. n : s[i] = f[RingSlot(first, i - 1, last)]
  <2>1. \A i \in 1 .. n : RingSlot(first, i - 1, last) \in 0 .. size - 1
    BY DEF RingSlot
  <2>2. s \in [1 .. n -> S]
    BY <2>1 DEF RingCells
  <2>3. QED
    BY <2>2, FunctionIsSeq DEF RingCells
<1>4. /\ t \in Seq(S) /\ Len(t) = n + 1
      /\ \A i \in 1 .. n + 1 : t[i] = g[RingSlot(first, i - 1, last)]
  <2>1. \A i \in 1 .. n + 1 : RingSlot(first, i - 1, last) \in 0 .. size - 1
    BY DEF RingSlot
  <2>2. t \in [1 .. n + 1 -> S]
    BY <1>2, <2>1 DEF RingCells
  <2>3. QED
    BY <2>2, FunctionIsSeq DEF RingCells
<1> HIDE DEF s, t
<1>5. /\ Append(s, c) \in Seq(S) /\ Len(Append(s, c)) = n + 1
      /\ \A i \in 1 .. n : Append(s, c)[i] = s[i]
      /\ Append(s, c)[n + 1] = c
  BY <1>3, AppendProperties
<1>6. ASSUME NEW i \in 1 .. n
      PROVE  t[i] = Append(s, c)[i]
  <2>1. i - 1 \in 0 .. last /\ n \in 0 .. last /\ i - 1 # n /\ i \in 1 .. n + 1
    OBVIOUS
  <2>2. RingSlot(first, i - 1, last) # at
    BY <2>1, RingSlotsApart
  <2>3. RingSlot(first, i - 1, last) \in 0 .. size - 1
    BY <2>1 DEF RingSlot
  <2>4. QED
    BY <1>2, <1>3, <1>4, <1>5, <2>1, <2>2, <2>3
<1>7. t[n + 1] = c
  BY <1>2, <1>4
<1>8. \A i \in 1 .. n + 1 : t[i] = Append(s, c)[i]
  BY <1>5, <1>6, <1>7
<1>9. t = Append(s, c)
  BY <1>4, <1>5, <1>8, SeqEqual
<1>10. QED
  BY <1>9 DEF s, t

\* The last cell of a ring is overwritten.
LEMMA RingReplace ==
  ASSUME NEW S, NEW size, NEW f, NEW last, NEW first, NEW k, NEW c, NEW at, NEW g,
         size \in Nat, f \in [0 .. size - 1 -> S],
         last \in Nat, last < size, first \in 0 .. last, k \in Nat, k <= last, c \in S,
         at = RingSlot(first, k, last),
         g \in [0 .. size - 1 -> S], Written(f, g, size, at, c)
  PROVE  RingCells(g, first, last, k + 1)
           = Replaced(RingCells(f, first, last, k + 1), k + 1, c)
<1> DEFINE n == k + 1
           s == RingCells(f, first, last, n)
           t == RingCells(g, first, last, n)
           u == [s EXCEPT ![n] = c]
<1>0. n \in Nat /\ n >= 1 /\ n <= last + 1 /\ k = n - 1
  OBVIOUS
<1>1. at \in 0 .. size - 1
  BY DEF RingSlot
<1>2. g \in [0 .. size - 1 -> S] /\ g[at] = c /\ \A i \in 0 .. size - 1 : i # at => g[i] = f[i]
  BY DEF Written
<1>3. /\ s \in Seq(S) /\ Len(s) = n
      /\ \A i \in 1 .. n : s[i] = f[RingSlot(first, i - 1, last)]
  <2>1. \A i \in 1 .. n : RingSlot(first, i - 1, last) \in 0 .. size - 1
    BY DEF RingSlot
  <2>2. s \in [1 .. n -> S]
    BY <2>1 DEF RingCells
  <2>3. QED
    BY <2>2, FunctionIsSeq DEF RingCells
<1>4. /\ t \in Seq(S) /\ Len(t) = n
      /\ \A i \in 1 .. n : t[i] = g[RingSlot(first, i - 1, last)]
  <2>1. \A i \in 1 .. n : RingSlot(first, i - 1, last) \in 0 .. size - 1
    BY DEF RingSlot
  <2>2. t \in [1 .. n -> S]
    BY <1>2, <2>1 DEF RingCells
  <2>3. QED
    BY <2>2, FunctionIsSeq DEF RingCells
<1> HIDE DEF s, t
<1>5. /\ u \in Seq(S) /\ Len(u) = n
      /\ \A i \in 1 .. n : u[i] = IF i = n THEN c ELSE s[i]
  BY <1>3, ExceptSeq
<1> HIDE DEF u
<1>6. ASSUME NEW i \in 1 .. n, i # n
      PROVE  t[i] = u[i]
  <2>1. i - 1 \in 0 .. last /\ n - 1 \in 0 .. last /\ i - 1 # n - 1
    BY <1>6
  <2>2. RingSlot(first, i - 1, last) # at
    BY <2>1, RingSlotsApart
  <2>3. RingSlot(first, i - 1, last) \in 0 .. size - 1
    BY <2>1 DEF RingSlot
  <2>4. QED
    BY <1>2, <1>3, <1>4, <1>5, <1>6, <2>2, <2>3
<1>7. t[n] = u[n]
  BY <1>2, <1>4, <1>5
<1>8. t = u
  BY <1>4, <1>5, <1>6, <1>7, SeqEqual
<1>9. QED
  BY <1>8 DEF s, t, u, Replaced

\* The first n cells of a ring are copied to a buffer of that size, from offset on.
CopiedTo(dest, new, room, offset, n, f, first, last) ==
  \A o \in 0 .. room - 1 :
    new[o] = IF o \in offset .. offset + n - 1
               THEN f[RingSlot(first, o - offset, last)] ELSE dest[o]

\* Going on from a slot of a ring, as long as it is not gone round.
LEMMA RingSlotsAdd ==
  ASSUME NEW last \in Nat, NEW first \in 0 .. last, NEW n \in Nat, NEW k \in Nat,
         n + k <= last
  PROVE  RingSlot(RingSlot(first, n, last), k, last) = RingSlot(first, n + k, last)
  BY DEF RingSlot

\* The first n of m cells of a ring are copied behind the first cells of a buffer ...
CopyMade(S, size, f, last, first, n, m, room, dest, offset, new) ==
  /\ size \in Nat /\ f \in [0 .. size - 1 -> S]
  /\ last \in Nat /\ last < size /\ first \in 0 .. last
  /\ n \in Nat /\ m \in Nat /\ n <= m /\ m <= last + 1
  /\ room \in Nat /\ dest \in [0 .. room - 1 -> S] /\ new \in [0 .. room - 1 -> S]
  /\ offset \in Nat /\ offset + n <= room
  /\ CopiedTo(dest, new, room, offset, n, f, first, last)

\* ... and what was taken before, followed by what was in the ring, is the same as
\* afterwards.
LEMMA CopyJoins ==
  ASSUME NEW S, NEW size, NEW f, NEW last, NEW first, NEW n, NEW m,
         NEW room, NEW dest, NEW offset, NEW new,
         CopyMade(S, size, f, last, first, n, m, room, dest, offset, new)
  PROVE  /\ Cells(new, offset + n) \in Seq(S)
         /\ RingCells(f, RingSlot(first, n, last), last, m - n) \in Seq(S)
         /\ Cells(new, offset + n) \o RingCells(f, RingSlot(first, n, last), last, m - n)
              = Cells(dest, offset) \o RingCells(f, first, last, m)
<1> DEFINE a == Cells(new, offset + n)
           b == RingCells(f, RingSlot(first, n, last), last, m - n)
           c == Cells(dest, offset)
           d == RingCells(f, first, last, m)
           s == a \o b
           t == c \o d
<1>0. /\ size \in Nat /\ f \in [0 .. size - 1 -> S]
      /\ last \in Nat /\ last < size /\ first \in 0 .. last
      /\ n \in Nat /\ m \in Nat /\ n <= m /\ m <= last + 1
      /\ room \in Nat /\ dest \in [0 .. room - 1 -> S] /\ new \in [0 .. room - 1 -> S]
      /\ offset \in Nat /\ offset + n <= room
      /\ CopiedTo(dest, new, room, offset, n, f, first, last)
  BY DEF CopyMade
<1>1. a \in Seq(S) /\ Len(a) = offset + n /\ \A i \in 1 .. offset + n : a[i] = new[i - 1]
  <2>1. \A i \in 1 .. offset + n : i - 1 \in 0 .. room - 1
    BY <1>0
  <2>2. a \in [1 .. offset + n -> S]
    BY <1>0, <2>1 DEF Cells
  <2>3. offset + n \in Nat
    BY <1>0
  <2>4. QED
    BY <1>0, <2>2, <2>3, FunctionIsSeq DEF Cells
<1>2. /\ b \in Seq(S) /\ Len(b) = m - n
      /\ \A i \in 1 .. m - n : b[i] = f[RingSlot(first, n + (i - 1), last)]
  <2>1. \A i \in 1 .. m - n : i - 1 \in Nat /\ n + (i - 1) <= last /\ n + (i - 1) \in Nat
    BY <1>0
  <2>2. \A i \in 1 .. m - n : RingSlot(RingSlot(first, n, last), i - 1, last)
                                = RingSlot(first, n + (i - 1), last)
    BY <1>0, <2>1, RingSlotsAdd
  <2>3. \A i \in 1 .. m - n : RingSlot(first, n + (i - 1), last) \in 0 .. size - 1
    BY <1>0, <2>1 DEF RingSlot
  <2>4. b = [i \in 1 .. m - n |-> f[RingSlot(first, n + (i - 1), last)]]
    BY <1>0, <2>2 DEF RingCells
  <2>5. b \in [1 .. m - n -> S]
    BY <1>0, <2>3, <2>4
  <2>6. m - n \in Nat
    BY <1>0
  <2>7. b \in Seq(S) /\ Len(b) = m - n
    BY <1>0, <2>5, <2>6, FunctionIsSeq
  <2>8. QED
    BY <1>0, <2>4, <2>7
<1>3. c \in Seq(S) /\ Len(c) = offset /\ \A i \in 1 .. offset : c[i] = dest[i - 1]
  <2>1. \A i \in 1 .. offset : i - 1 \in 0 .. room - 1
    BY <1>0
  <2>2. c \in [1 .. offset -> S]
    BY <1>0, <2>1 DEF Cells
  <2>3. QED
    BY <1>0, <2>2, FunctionIsSeq DEF Cells
<1>4. /\ d \in Seq(S) /\ Len(d) = m
      /\ \A i \in 1 .. m : d[i] = f[RingSlot(first, i - 1, last)]
  <2>1. \A i \in 1 .. m : RingSlot(first, i - 1, last) \in 0 .. size - 1
    BY <1>0 DEF RingSlot
  <2>2. d \in [1 .. m -> S]
    BY <1>0, <2>1 DEF RingCells
  <2>3. QED
    BY <1>0, <2>2, FunctionIsSeq DEF RingCells
<1> HIDE DEF a, b, c, d
<1>5. /\ s \in Seq(S) /\ Len(s) = offset + m
      /\ \A i \in 1 .. offset + m : s[i] = IF i <= offset + n THEN a[i] ELSE b[i - (offset + n)]
  <2>1. /\ s \in Seq(S) /\ Len(s) = Len(a) + Len(b)
        /\ \A i \in 1 .. Len(a) + Len(b) : s[i] = IF i <= Len(a) THEN a[i] ELSE b[i - Len(a)]
    <3>1. a \in Seq(S) /\ b \in Seq(S)
      BY <1>0, <1>1, <1>2
    <3>2. QED
      BY <1>0, <3>1, ConcatProperties
  <2>2. Len(a) + Len(b) = offset + m
    BY <1>0, <1>1, <1>2
  <2> HIDE DEF s
  <2>3. QED
    BY <1>0, <1>1, <2>1, <2>2
<1>6. /\ t \in Seq(S) /\ Len(t) = offset + m
      /\ \A i \in 1 .. offset + m : t[i] = IF i <= offset THEN c[i] ELSE d[i - offset]
  <2>1. /\ t \in Seq(S) /\ Len(t) = Len(c) + Len(d)
        /\ \A i \in 1 .. Len(c) + Len(d) : t[i] = IF i <= Len(c) THEN c[i] ELSE d[i - Len(c)]
    <3>1. c \in Seq(S) /\ d \in Seq(S)
      BY <1>0, <1>3, <1>4
    <3>2. QED
      BY <1>0, <3>1, ConcatProperties
  <2> HIDE DEF t
  <2>2. QED
    BY <1>0, <1>3, <1>4, <2>1
<1> HIDE DEF s, t
<1>7. ASSUME NEW i \in 1 .. offset + m
      PROVE  s[i] = t[i]
  <2>1. CASE i <= offset
    <3>1. i \in 1 .. offset /\ i \in 1 .. offset + n /\ i <= offset + n
          /\ i - 1 \in 0 .. room - 1 /\ i - 1 \notin offset .. offset + n - 1
      BY <1>0, <2>1
    <3>2. s[i] = new[i - 1] /\ t[i] = dest[i - 1]
      BY <1>0, <1>1, <1>3, <1>5, <1>6, <2>1, <3>1
    <3>3. QED
      BY <1>0, <3>1, <3>2 DEF CopiedTo
  <2>2. CASE offset < i /\ i <= offset + n
    <3>1. /\ i \in 1 .. offset + n /\ ~(i <= offset) /\ i - offset \in 1 .. m
          /\ i - 1 \in 0 .. room - 1 /\ i - 1 \in offset .. offset + n - 1
          /\ (i - offset) - 1 = (i - 1) - offset
      BY <1>0, <2>2
    <3>2. s[i] = new[i - 1] /\ t[i] = f[RingSlot(first, (i - offset) - 1, last)]
      BY <1>0, <1>1, <1>4, <1>5, <1>6, <2>2, <3>1
    <3>3. QED
      BY <1>0, <3>1, <3>2 DEF CopiedTo
  <2>3. CASE i > offset + n
    <3>1. /\ ~(i <= offset + n) /\ ~(i <= offset) /\ i - offset \in 1 .. m
          /\ i - (offset + n) \in 1 .. m - n
          /\ n + (i - (offset + n) - 1) = (i - offset) - 1
      BY <1>0, <2>3
    <3>2. s[i] = f[RingSlot(first, n + (i - (offset + n) - 1), last)]
      BY <1>0, <1>2, <1>5, <3>1
    <3>3. t[i] = f[RingSlot(first, (i - offset) - 1, last)]
      BY <1>0, <1>4, <1>6, <3>1
    <3>4. QED
      BY <1>0, <3>1, <3>2, <3>3
  <2>4. QED
    BY <1>0, <2>1, <2>2, <2>3
<1>8. s = t
  BY <1>0, <1>5, <1>6, <1>7, SeqEqual
<1>9. a \in Seq(S) /\ b \in Seq(S) /\ a \o b = c \o d
  BY <1>1, <1>2, <1>8 DEF s, t
<1>10. QED
  BY <1>9 DEF a, b, c, d

\* A ring that is read from its first slot on.
LEMMA RingFromZero ==
  ASSUME NEW f, NEW last \in Nat, NEW n \in Nat, n <= last + 1
  PROVE  RingCells(f, 0, last, n) = Cells(f, n)
<1>1. \A i \in 1 .. n : RingSlot(0, i - 1, last) = i - 1
  BY DEF RingSlot
<1>2. QED
  BY <1>1 DEF RingCells, Cells

\* An element behind two sequences, and the last of them overwritten.
LEMMA ConcatAppend ==
  ASSUME NEW S, NEW a \in Seq(S), NEW b \in Seq(S), NEW e \in S
  PROVE  a \o Append(b, e) = Append(a \o b, e)
<1> DEFINE c == Append(b, e)
           s == a \o c
           p == a \o b
           t == Append(p, e)
<1>1. /\ c \in Seq(S) /\ Len(c) = Len(b) + 1 /\ c[Len(b) + 1] = e
      /\ \A i \in 1 .. Len(b) : c[i] = b[i]
  BY AppendProperties
<1>2. /\ p \in Seq(S) /\ Len(p) = Len(a) + Len(b)
      /\ \A i \in 1 .. Len(a) + Len(b) : p[i] = IF i <= Len(a) THEN a[i] ELSE b[i - Len(a)]
  BY ConcatProperties
<1> HIDE DEF c
<1>3. /\ s \in Seq(S) /\ Len(s) = Len(a) + Len(c)
      /\ \A i \in 1 .. Len(a) + Len(c) : s[i] = IF i <= Len(a) THEN a[i] ELSE c[i - Len(a)]
  <2>1. c \in Seq(S)
    BY <1>1
  <2>2. QED
    BY <2>1, ConcatProperties
<1> HIDE DEF p
<1>4. /\ t \in Seq(S) /\ Len(t) = Len(p) + 1 /\ t[Len(p) + 1] = e
      /\ \A i \in 1 .. Len(p) : t[i] = p[i]
  <2>1. p \in Seq(S)
    BY <1>2
  <2>2. QED
    BY <2>1, AppendProperties
<1> HIDE DEF s, t
<1>5. Len(a) \in Nat /\ Len(b) \in Nat
  OBVIOUS
<1>6. ASSUME NEW i \in 1 .. Len(a) + Len(b) + 1
      PROVE  s[i] = t[i]
  <2>1. CASE i <= Len(a)
    <3>1. i \in 1 .. Len(a) + Len(c) /\ i \in 1 .. Len(a) + Len(b) /\ i \in 1 .. Len(p)
      BY <1>1, <1>2, <1>5, <2>1
    <3>2. QED
      BY <1>2, <1>3, <1>4, <2>1, <3>1
  <2>2. CASE i > Len(a) /\ i <= Len(a) + Len(b)
    <3>1. /\ i \in 1 .. Len(a) + Len(c) /\ i \in 1 .. Len(a) + Len(b) /\ i \in 1 .. Len(p)
          /\ i - Len(a) \in 1 .. Len(b) /\ ~(i <= Len(a))
      BY <1>1, <1>2, <1>5, <2>2
    <3>2. s[i] = b[i - Len(a)]
      BY <1>1, <1>3, <3>1
    <3>3. t[i] = b[i - Len(a)]
      BY <1>2, <1>4, <3>1
    <3>4. QED
      BY <3>2, <3>3
  <2>3. CASE i = Len(a) + Len(b) + 1
    <3>1. /\ i \in 1 .. Len(a) + Len(c) /\ i = Len(p) + 1
          /\ i - Len(a) = Len(b) + 1 /\ ~(i <= Len(a))
      BY <1>1, <1>2, <1>5, <2>3
    <3>2. s[i] = e
      BY <1>1, <1>3, <3>1
    <3>3. QED
      BY <1>4, <3>1, <3>2
  <2>4. QED
    BY <1>5, <2>1, <2>2, <2>3
<1>7. Len(s) = Len(a) + Len(b) + 1 /\ Len(t) = Len(a) + Len(b) + 1
  BY <1>1, <1>2, <1>3, <1>4, <1>5
<1>8. s = t
  BY <1>3, <1>4, <1>6, <1>7, SeqEqual
<1>9. QED
  BY <1>8 DEF s, t, p, c

LEMMA ConcatReplace ==
  ASSUME NEW S, NEW a \in Seq(S), NEW b \in Seq(S), b # << >>, NEW e \in S
  PROVE  /\ a \o [b EXCEPT ![Len(b)] = e] = [a \o b EXCEPT ![Len(a \o b)] = e]
         /\ a \o b # << >>
<1> DEFINE n == Len(b)
           c == [b EXCEPT ![n] = e]
           s == a \o c
           p == a \o b
           t == [p EXCEPT ![Len(p)] = e]
<1>1. Len(a) \in Nat /\ n \in Nat /\ n >= 1 /\ n \in 1 .. Len(b)
  BY EmptySeq
<1>2. /\ c \in Seq(S) /\ Len(c) = n
      /\ \A i \in 1 .. n : c[i] = IF i = n THEN e ELSE b[i]
  BY <1>1, ExceptSeq
<1>3. /\ p \in Seq(S) /\ Len(p) = Len(a) + n
      /\ \A i \in 1 .. Len(a) + n : p[i] = IF i <= Len(a) THEN a[i] ELSE b[i - Len(a)]
  BY ConcatProperties
<1> HIDE DEF c
<1>4. /\ s \in Seq(S) /\ Len(s) = Len(a) + Len(c)
      /\ \A i \in 1 .. Len(a) + Len(c) : s[i] = IF i <= Len(a) THEN a[i] ELSE c[i - Len(a)]
  <2>1. c \in Seq(S)
    BY <1>2
  <2>2. QED
    BY <2>1, ConcatProperties
<1> HIDE DEF p, n
<1>5. /\ t \in Seq(S) /\ Len(t) = Len(p)
      /\ \A i \in 1 .. Len(p) : t[i] = IF i = Len(p) THEN e ELSE p[i]
  <2>1. p \in Seq(S) /\ Len(p) \in 1 .. Len(p)
    BY <1>1, <1>3
  <2>2. QED
    BY <2>1, ExceptSeq
<1> HIDE DEF s, t
<1>6. ASSUME NEW i \in 1 .. Len(a) + n
      PROVE  s[i] = t[i]
  <2>1. CASE i <= Len(a)
    <3>1. i # Len(a) + n /\ i \in 1 .. Len(a) + Len(c) /\ i \in 1 .. Len(p)
      BY <1>1, <1>2, <1>3, <2>1
    <3>2. QED
      BY <1>3, <1>4, <1>5, <2>1, <3>1
  <2>2. CASE i > Len(a)
    <3>1. /\ i - Len(a) \in 1 .. n /\ ~(i <= Len(a))
          /\ i \in 1 .. Len(a) + Len(c) /\ i \in 1 .. Len(p)
          /\ i - Len(a) = n <=> i = Len(a) + n
      BY <1>1, <1>2, <1>3, <2>2
    <3>2. s[i] = IF i = Len(a) + n THEN e ELSE b[i - Len(a)]
      BY <1>2, <1>4, <3>1
    <3>3. t[i] = IF i = Len(a) + n THEN e ELSE b[i - Len(a)]
      BY <1>3, <1>5, <3>1
    <3>4. QED
      BY <3>2, <3>3
  <2>3. QED
    BY <1>1, <2>1, <2>2
<1>7. Len(s) = Len(a) + n /\ Len(t) = Len(a) + n
  BY <1>2, <1>3, <1>4, <1>5
<1>8. s = t
  BY <1>4, <1>5, <1>6, <1>7, SeqEqual
<1>9. p # << >>
  BY <1>1, <1>3, EmptySeq
<1>10. QED
  BY <1>8, <1>9 DEF s, t, p, c, n

-----------------------------------------------------------------------------
(* The stream that is in the driver.                                       *)

\* A read has been given no more than it asked for, and a resize nothing.
SInv ==
  /\ currentReadRequest \in Reads
       => information[currentReadRequest] <= length[currentReadRequest]
  /\ \A r \in Resizes : information[r] = 0

StreamStep == Stream!Next \/ UNCHANGED Stream!vars

\* What is taken out and what is in the buffer, as cells, now and after a step.
LEMMA InBufferCells ==
  /\ InBuffer = RingCells(interruptBuffer, firstReadableChar, lastCharSlot, Readable)
  /\ InBuffer' = RingCells(interruptBuffer', firstReadableChar', lastCharSlot', Readable')
  BY DEF InBuffer, RingCells, SlotAfter, RingSlot

LEMMA TakenOutCells ==
  ASSUME PInv, PInv'
  PROVE  /\ pc = "moved" => TakenOut = Cells(newBuffer, charsCopied)
         /\ currentReadRequest \in Reads
              => TakenOut = Cells(userBuffer[currentReadRequest], CharsHeld(currentReadRequest))
         /\ pc # "moved" /\ currentReadRequest \notin Reads => TakenOut = << >>
         /\ pc' = "moved" => TakenOut' = Cells(newBuffer', charsCopied')
         /\ currentReadRequest' \in Reads
              => TakenOut' = Cells(userBuffer'[currentReadRequest'],
                                   CharsHeld(currentReadRequest)')
         /\ pc' # "moved" /\ currentReadRequest' \notin Reads => TakenOut' = << >>
<1>1. /\ pc = "moved" => currentReadRequest \notin Reads
      /\ currentReadRequest \in Reads => currentReadRequest # NoReq
  BY ReqAssumption DEF PInv, Phase, Req
<1>2. /\ pc' = "moved" => currentReadRequest' \notin Reads
      /\ currentReadRequest' \in Reads => currentReadRequest' # NoReq
  BY ReqAssumption DEF PInv, Phase, Req
<1>3. /\ pc = "moved" => TakenOut = Cells(newBuffer, charsCopied)
      /\ currentReadRequest \in Reads
           => TakenOut = Cells(userBuffer[currentReadRequest], CharsHeld(currentReadRequest))
      /\ pc # "moved" /\ currentReadRequest \notin Reads => TakenOut = << >>
  BY <1>1 DEF TakenOut, Cells, Contents
<1>4. /\ pc' = "moved" => TakenOut' = Cells(newBuffer', charsCopied')
      /\ currentReadRequest' \in Reads
           => TakenOut' = Cells(userBuffer'[currentReadRequest'],
                                CharsHeld(currentReadRequest)')
      /\ pc' # "moved" /\ currentReadRequest' \notin Reads => TakenOut' = << >>
  BY <1>2 DEF TakenOut, Cells, Contents
<1>5. QED
  BY <1>3, <1>4

\* The current read holds a part of its buffer.
LEMMA HeldIs ==
  ASSUME PInv, RInv, SInv, currentReadRequest \in Reads
  PROVE  /\ CharsHeld(currentReadRequest) \in Nat /\ CharsHeld(currentReadRequest) <= MaxLen
         /\ MaxLen \in Nat
         /\ IsrOwnsRead => CharsHeld(currentReadRequest) = currentCharSlot
         /\ ~IsrOwnsRead
              => CharsHeld(currentReadRequest) = information[currentReadRequest]
<1> DEFINE r == currentReadRequest
<1>1. /\ length[r] \in 1 .. MaxLen /\ information[r] \in Nat /\ information[r] <= length[r]
      /\ MaxLen \in Nat
  BY ReqAssumption, SizeAssumption DEF PInv, Owned, RInv, Work, Lengths, ReadTypes, SInv, Req
<1>2. IsrOwnsRead => /\ lastCharSlot = length[r] - 1 /\ lastCharSlot < MaxLen
                     /\ currentCharSlot <= lastCharSlot
  BY DEF RInv, Ring, PointersAgree, IsrOwnsRead
<1>3. lastCharSlot \in Nat /\ currentCharSlot \in Nat
  BY DEF RInv, BufferTypes
<1>4. QED
  BY <1>1, <1>2, <1>3 DEF CharsHeld

LEMMA InBufferIs ==
  ASSUME PInv, RInv
  PROVE  /\ Readable \in Nat /\ InBuffer \in Seq(Chars) /\ Len(InBuffer) = Readable
         /\ readBufferBase # InterruptReadBuffer => InBuffer = << >>
<1>1. Readable \in Nat /\ Readable <= bufferSize
  BY RingNumbers DEF RInv, Readable
<1>2. CASE readBufferBase = InterruptReadBuffer
  <2>1. /\ bufferSize \in Nat /\ bufferSize <= MaxSize /\ MaxSize \in Nat
        /\ lastCharSlot = bufferSize - 1 /\ firstReadableChar <= lastCharSlot
        /\ lastCharSlot \in Nat /\ firstReadableChar \in Nat
    BY <1>2, RingNumbers DEF RInv, Ring, PointersAgree
  <2>2. \A i \in 1 .. Readable :
          RingSlot(firstReadableChar, i - 1, lastCharSlot) \in 0 .. MaxSize - 1
    BY <1>1, <2>1 DEF RingSlot
  <2>3. interruptBuffer \in [0 .. MaxSize - 1 -> Chars]
    BY DEF RInv, BufferTypes
  <2>4. InBuffer \in [1 .. Readable -> Chars]
    BY <2>2, <2>3, InBufferCells DEF RingCells
  <2>5. QED
    BY <1>1, <1>2, <2>4, FunctionIsSeq
<1>3. CASE readBufferBase # InterruptReadBuffer
  <2>1. Readable = 0
    BY <1>1, <1>3, RingNumbers DEF RInv, Ring, PointersAgree, Readable
  <2>2. InBuffer = << >>
    BY <2>1, InBufferCells, NoCells
  <2>3. QED
    BY <2>1, <2>2, EmptySeq
<1>4. QED
  BY <1>2, <1>3

LEMMA TakenOutIs ==
  ASSUME PInv, RInv, SInv
  PROVE  TakenOut \in Seq(Chars)
<1>1. CASE currentReadRequest \in Reads
  <2> DEFINE r == currentReadRequest
             n == CharsHeld(r)
  <2>1. n \in Nat /\ n <= MaxLen /\ MaxLen \in Nat
    BY <1>1, HeldIs
  <2>2. userBuffer[r] \in [0 .. MaxLen - 1 -> Chars]
    BY <1>1 DEF RInv, BufferTypes, Req
  <2>3. pc # "moved" /\ r # NoReq
    BY <1>1, ReqAssumption DEF PInv, Phase, Req
  <2>4. TakenOut = [i \in 1 .. n |-> userBuffer[r][i - 1]]
    BY <1>1, <2>3 DEF TakenOut, Contents
  <2> HIDE DEF n, r
  <2>5. \A i \in 1 .. n : i - 1 \in 0 .. MaxLen - 1
    BY <2>1
  <2>6. TakenOut \in [1 .. n -> Chars]
    BY <2>2, <2>4, <2>5
  <2>7. QED
    BY <2>1, <2>6, FunctionIsSeq
<1>2. CASE pc = "moved"
  <2>1. TakenOut = [i \in 1 .. charsCopied |-> newBuffer[i - 1]]
    BY <1>2, ReqAssumption DEF TakenOut, PInv, Phase
  <2>2. charsCopied \in Nat /\ charsCopied <= MaxSize /\ MaxSize \in Nat
    BY RingNumbers DEF RInv
  <2>3. \A i \in 1 .. charsCopied : i - 1 \in 0 .. MaxSize - 1
    BY <2>2
  <2>4. newBuffer \in [0 .. MaxSize - 1 -> Chars]
    BY DEF RInv, BufferTypes
  <2>5. TakenOut \in [1 .. charsCopied -> Chars]
    BY <2>1, <2>3, <2>4
  <2>6. QED
    BY <2>2, <2>5, FunctionIsSeq
<1>3. CASE currentReadRequest \notin Reads /\ pc # "moved"
  <2>1. TakenOut = << >>
    BY <1>3 DEF TakenOut
  <2>2. QED
    BY <2>1, EmptySeq
<1>4. QED
  BY <1>1, <1>2, <1>3

-----------------------------------------------------------------------------
(* How a step looks as a step of the stream.                               *)

\* Nothing is taken out for a request that was not started, or for none.
LEMMA TakenNone ==
  ASSUME PInv, PInv', RInv', pc' = "start" \/ currentReadRequest' = NoReq
  PROVE  TakenOut' = << >>
<1>1. pc' # "moved"
  BY DEF PInv, Phase
<1>2. CASE currentReadRequest' \in Reads
  <2>1. pc' = "start" /\ currentReadRequest' \in Req
    BY <1>2, ReqAssumption DEF Req
  <2>2. information'[currentReadRequest'] = 0
    BY <2>1 DEF RInv, Work, Fresh
  <2>3. readBufferBase' = InterruptReadBuffer
    BY <2>1 DEF PInv, RefsMatchOwners, Started
  <2>4. CharsHeld(currentReadRequest)' = 0
    BY <2>2, <2>3 DEF CharsHeld, IsrOwnsRead
  <2>5. QED
    BY <1>2, <2>4, TakenOutCells, NoCells
<1>3. CASE currentReadRequest' \notin Reads
  BY <1>1, <1>3, TakenOutCells
<1>4. QED
  BY <1>2, <1>3

\* What was taken out stays where it is.
LEMMA TakenKept ==
  ASSUME PInv, PInv', currentReadRequest' = currentReadRequest,
         pc' = "moved" <=> pc = "moved",
         UNCHANGED <<userBuffer, newBuffer, charsCopied>>,
         currentReadRequest \in Reads
           => CharsHeld(currentReadRequest)' = CharsHeld(currentReadRequest)
  PROVE  TakenOut' = TakenOut
<1>1. CASE currentReadRequest \in Reads
  BY <1>1, TakenOutCells
<1>2. CASE pc = "moved"
  BY <1>2, TakenOutCells
<1>3. CASE currentReadRequest \notin Reads /\ pc # "moved"
  BY <1>3, TakenOutCells
<1>4. QED
  BY <1>1, <1>2, <1>3

LEMMA BufferKept ==
  ASSUME UNCHANGED <<interruptBuffer, firstReadableChar, lastCharSlot>>, Readable' = Readable
  PROVE  InBuffer' = InBuffer
  BY InBufferCells

LEMMA BufferEmptied ==
  ASSUME Readable' = 0
  PROVE  InBuffer' = << >>
  BY InBufferCells, NoCells

\* No request is completed with data, or without.
LEMMA ResultsKept ==
  ASSUME Untouched,
         \A q \in Req : status'[q] \in {"SUCCESS", "TIMEOUT"} => status[q] = status'[q]
  PROVE  Returned' = Returned /\ Result' = Result
<1>1. \A q \in Req : status[q] \in {"SUCCESS", "TIMEOUT"} <=> status'[q] \in {"SUCCESS", "TIMEOUT"}
  BY DEF Untouched, Done
<1>2. \A q \in Req : status[q] \in {"SUCCESS", "TIMEOUT"}
        => information'[q] = information[q] /\ userBuffer'[q] = userBuffer[q]
  BY DEF Untouched, Done
<1>3. Returned' = Returned
  BY <1>1 DEF Returned
<1>4. ASSUME NEW q \in Req
      PROVE  (IF status'[q] \in {"SUCCESS", "TIMEOUT"}
                THEN [i \in 1 .. information'[q] |-> userBuffer'[q][i - 1]] ELSE << >>)
             = (IF status[q] \in {"SUCCESS", "TIMEOUT"}
                  THEN [i \in 1 .. information[q] |-> userBuffer[q][i - 1]] ELSE << >>)
  BY <1>1, <1>2
<1>5. Result' = Result
  BY <1>4 DEF Result, Contents
<1>6. QED
  BY <1>3, <1>5

\* One is, with what its buffer holds.
LEMMA ResultAdded ==
  ASSUME Untouched, NEW r \in Req, status[r] \notin Done,
         status'[r] \in {"SUCCESS", "TIMEOUT"},
         \A q \in Req : q # r /\ status'[q] \in {"SUCCESS", "TIMEOUT"}
                          => status[q] = status'[q]
  PROVE  /\ r \notin Returned /\ Returned' = Returned \cup {r}
         /\ Result' = [Result EXCEPT ![r] = Cells(userBuffer'[r], information'[r])]
<1>1. \A q \in Req : q # r => (status[q] \in {"SUCCESS", "TIMEOUT"}
                                  <=> status'[q] \in {"SUCCESS", "TIMEOUT"})
  BY DEF Untouched, Done
<1>2. \A q \in Req : status[q] \in {"SUCCESS", "TIMEOUT"}
        => information'[q] = information[q] /\ userBuffer'[q] = userBuffer[q]
  BY DEF Untouched, Done
<1>3. r \notin Returned /\ Returned' = Returned \cup {r}
  BY <1>1 DEF Returned, Done
<1>4. ASSUME NEW q \in Req, q # r
      PROVE  (IF status'[q] \in {"SUCCESS", "TIMEOUT"}
                THEN [i \in 1 .. information'[q] |-> userBuffer'[q][i - 1]] ELSE << >>)
             = (IF status[q] \in {"SUCCESS", "TIMEOUT"}
                  THEN [i \in 1 .. information[q] |-> userBuffer[q][i - 1]] ELSE << >>)
  BY <1>1, <1>2, <1>4
<1>5. Result' = [q \in Req |->
                   IF q = r THEN Cells(userBuffer'[r], information'[r]) ELSE Result[q]]
  BY <1>4 DEF Result, Contents, Cells
<1>6. DOMAIN Result = Req
  BY DEF Result
<1>7. Result' = [Result EXCEPT ![r] = Cells(userBuffer'[r], information'[r])]
  BY <1>5, <1>6
<1>8. QED
  BY <1>3, <1>7

LEMMA StepStutters ==
  ASSUME arrived' = arrived, Characters' = Characters, Returned' = Returned, Result' = Result
  PROVE  StreamStep
  BY DEF StreamStep, Stream!vars

LEMMA StepArrives ==
  ASSUME arrived' = arrived + 1, Characters' = Append(Characters, arrived + 1),
         Returned' = Returned, Result' = Result
  PROVE  StreamStep
  BY DEF StreamStep, Stream!Next, Stream!Arrive

LEMMA StepReplaces ==
  ASSUME arrived' = arrived, Characters # << >>,
         Characters' = [Characters EXCEPT ![Len(Characters)] = 0],
         Returned' = Returned, Result' = Result
  PROVE  StreamStep
  BY DEF StreamStep, Stream!Next, Stream!Replace

\* The first part of the stream goes to a request.
LEMMA StepReturns ==
  ASSUME NEW a \in Seq(Chars), NEW b \in Seq(Chars), Characters = a \o b, Characters' = b,
         arrived' = arrived, NEW r \in Req, r \notin Returned,
         Returned' = Returned \cup {r}, Result' = [Result EXCEPT ![r] = a]
  PROVE  StreamStep
<1>1. /\ Len(a) \in 0 .. Len(Characters)
      /\ SubSeq(Characters, 1, Len(a)) = a
      /\ SubSeq(Characters, Len(a) + 1, Len(Characters)) = b
  BY CutConcat
<1>2. Stream!Return(r, Len(a))
  BY <1>1 DEF Stream!Return
<1>3. QED
  BY <1>1, <1>2 DEF StreamStep, Stream!Next

\* It is dropped.
LEMMA StepDiscards ==
  ASSUME NEW a \in Seq(Chars), NEW b \in Seq(Chars), Characters = a \o b, Characters' = b,
         arrived' = arrived, Returned' = Returned, Result' = Result
  PROVE  StreamStep
<1>1. /\ Len(a) \in 0 .. Len(Characters)
      /\ SubSeq(Characters, Len(a) + 1, Len(Characters)) = b
  BY CutConcat
<1>2. Stream!Discard(Len(a))
  BY <1>1 DEF Stream!Discard
<1>3. QED
  BY <1>1, <1>2 DEF StreamStep, Stream!Next

\* What comes behind it is dropped.
LEMMA StepPurges ==
  ASSUME NEW a \in Seq(Chars), NEW b \in Seq(Chars), Characters = a \o b, Characters' = a,
         arrived' = arrived, Returned' = Returned, Result' = Result
  PROVE  StreamStep
<1>1. /\ Len(a) \in 0 .. Len(Characters)
      /\ SubSeq(Characters, 1, Len(a)) = a
  BY CutConcat
<1>2. Stream!Purge(Len(a))
  BY <1>1 DEF Stream!Purge
<1>3. QED
  BY <1>1, <1>2 DEF StreamStep, Stream!Next

\* What the requests hold is left alone, except that of one that is not started.
LEMMA SInvKept ==
  ASSUME PInv', RInv', SInv, \A q \in Resizes : information'[q] = information[q],
         currentReadRequest' \in Reads
           => \/ pc' = "start"
              \/ information'[currentReadRequest'] <= length'[currentReadRequest']
  PROVE  SInv'
<1>1. \A q \in Resizes : information'[q] = 0
  BY DEF SInv
<1>2. ASSUME currentReadRequest' \in Reads, pc' = "start"
      PROVE  information'[currentReadRequest'] <= length'[currentReadRequest']
  <2>1. currentReadRequest' \in Req
    BY <1>2 DEF Req
  <2>2. information'[currentReadRequest'] = 0 /\ length'[currentReadRequest'] \in Nat
    BY <1>2, <2>1 DEF RInv, Work, Fresh, ReadTypes
  <2>3. QED
    BY <2>2
<1>3. QED
  BY <1>1, <1>2 DEF SInv

-----------------------------------------------------------------------------
(* The steps of the ISR.                                                   *)

\* A step that touches neither the buffers nor the requests.
LEMMA QuietStream ==
  ASSUME PInv, RInv, SInv, PInv', RInv', Untouched,
         UNCHANGED <<arrived, userBuffer, newBuffer, charsCopied, currentReadRequest,
                     length, information, status, ringVars>>,
         pc' = "moved" <=> pc = "moved"
  PROVE  SInv' /\ StreamStep
<1>1. SInv'
  BY DEF SInv
<1>2. TakenOut' = TakenOut
  <2>1. CharsHeld(currentReadRequest)' = CharsHeld(currentReadRequest)
    BY DEF CharsHeld, IsrOwnsRead, ringVars
  <2>2. QED
    BY <2>1, TakenKept
<1>3. InBuffer' = InBuffer
  <2>1. Readable' = Readable
    BY DEF Readable, ringVars
  <2>2. QED
    BY <2>1, BufferKept DEF ringVars
<1>4. Returned' = Returned /\ Result' = Result
  BY ResultsKept
<1>5. QED
  BY <1>1, <1>2, <1>3, <1>4, StepStutters DEF Characters

LEMMA PutCharInUserBufferStream ==
  ASSUME PInv, RInv, SInv, PInv', RInv', Untouched, PutCharInUserBuffer
  PROVE  SInv' /\ StreamStep
<1> DEFINE r == currentReadRequest
           k == currentCharSlot
           e == arrived + 1
<1>1. /\ readBufferBase = r /\ r \in Reads /\ r \in Req /\ IsrOwnsRead
      /\ pc \notin {"start", "copied", "moved"}
  BY DEF PutCharInUserBuffer, PInv, RequestTypes, RefsMatchOwners, Started, Phase,
     InterruptReadBuffer, IsrOwnsRead
<1>2. /\ k \in Nat /\ lastCharSlot \in Nat /\ k <= lastCharSlot /\ lastCharSlot < MaxLen
      /\ length[r] = lastCharSlot + 1 /\ MaxLen \in Nat /\ length[r] \in Nat
      /\ charsInInterruptBuffer = 0 /\ charsCopied = 0
      /\ e \in Chars /\ userBuffer[r] \in [0 .. MaxLen - 1 -> Chars]
  <2>1. /\ lastCharSlot = length[r] - 1 /\ k <= lastCharSlot /\ lastCharSlot < MaxLen
        /\ charsInInterruptBuffer = 0
    BY <1>1 DEF RInv, Ring, PointersAgree, IsrOwnsRead
  <2>2. length[r] \in Nat /\ charsCopied = 0
    BY <1>1 DEF RInv, ReadTypes, Work, Copying
  <2>3. e \in Chars
    BY SizeAssumption DEF PutCharInUserBuffer, RInv, BufferTypes, Chars
  <2>4. k \in Nat /\ lastCharSlot \in Nat /\ MaxLen \in Nat
    BY SizeAssumption DEF RInv, BufferTypes
  <2>5. userBuffer[r] \in [0 .. MaxLen - 1 -> Chars]
    BY <1>1 DEF RInv, BufferTypes
  <2> HIDE DEF e, k
  <2>6. QED
    BY <2>1, <2>2, <2>3, <2>4, <2>5
<1>3. /\ arrived' = e
      /\ userBuffer' = [userBuffer EXCEPT ![r][k] = e]
      /\ \/ /\ k = lastCharSlot /\ SwitchToInterruptBuffer
            /\ information' = [information EXCEPT ![r] = length[r]]
         \/ /\ k # lastCharSlot /\ currentCharSlot' = k + 1
            /\ UNCHANGED <<readBufferBase, firstReadableChar, lastCharSlot,
                           charsInInterruptBuffer, information>>
      /\ UNCHANGED <<currentReadRequest, length, status, charsCopied, newBuffer, pc>>
  BY <1>1 DEF PutCharInUserBuffer, readVars
<1>4. userBuffer'[r] = [userBuffer[r] EXCEPT ![k] = e]
  BY <1>1, <1>3 DEF RInv, BufferTypes
<1>5. CharsHeld(currentReadRequest)' = k + 1
  <2>1. CASE k = lastCharSlot /\ SwitchToInterruptBuffer
             /\ information' = [information EXCEPT ![r] = length[r]]
    <3>1. information'[r] = length[r] /\ readBufferBase' = InterruptReadBuffer
      BY <1>1, <2>1 DEF SwitchToInterruptBuffer, RInv, ReadTypes
    <3>2. QED
      BY <1>2, <1>3, <2>1, <3>1 DEF CharsHeld, IsrOwnsRead
  <2>2. CASE k # lastCharSlot /\ currentCharSlot' = k + 1
             /\ UNCHANGED <<readBufferBase, firstReadableChar, lastCharSlot,
                            charsInInterruptBuffer, information>>
    <3>1. length' = length /\ currentReadRequest' = r /\ IsrOwnsRead'
      BY <1>1, <1>3, <2>2 DEF IsrOwnsRead
    <3>2. CharsHeld(currentReadRequest)' = length[r] - (lastCharSlot - (k + 1) + 1)
      BY <2>2, <3>1 DEF CharsHeld
    <3>3. QED
      BY <1>2, <3>2
  <2>3. QED
    BY <1>3, <2>1, <2>2
<1>6. TakenOut = Cells(userBuffer[r], k) /\ TakenOut' = Cells(userBuffer'[r], k + 1)
  <2>1. CharsHeld(r) = k
    BY <1>1, HeldIs
  <2>2. QED
    BY <1>1, <1>3, <1>5, <2>1, TakenOutCells
<1>7. TakenOut' = Append(TakenOut, e)
  <2>1. MaxLen \in Nat /\ k < MaxLen
    BY <1>2
  <2>2. /\ userBuffer'[r] \in [0 .. MaxLen - 1 -> Chars]
        /\ Written(userBuffer[r], userBuffer'[r], MaxLen, k, e)
    BY <1>2, <1>4 DEF Written
  <2>3. Cells(userBuffer'[r], k + 1) = Append(Cells(userBuffer[r], k), e)
    BY <1>2, <2>1, <2>2, CellsAppend
  <2>4. QED
    BY <1>6, <2>3
<1>8. InBuffer = << >> /\ InBuffer' = << >>
  <2>1. Readable' = 0
    BY <1>2, <1>3 DEF Readable, SwitchToInterruptBuffer
  <2>2. QED
    BY <1>1, <2>1, InBufferIs, BufferEmptied DEF IsrOwnsRead
<1>9. TakenOut \in Seq(Chars)
  BY TakenOutIs
<1>10. Characters' = Append(Characters, e)
  <2>1. Append(TakenOut, e) \in Seq(Chars)
    BY <1>2, <1>9, AppendProperties
  <2>2. TakenOut \o << >> = TakenOut /\ Append(TakenOut, e) \o << >> = Append(TakenOut, e)
    BY <1>9, <2>1, EmptyConcat
  <2>3. QED
    BY <1>7, <1>8, <2>2 DEF Characters
<1>11. Returned' = Returned /\ Result' = Result
  BY <1>3, ResultsKept
<1>12. SInv'
  <2>1. \A q \in Resizes : information'[q] = information[q]
    BY <1>1, <1>3, ReqAssumption DEF RInv, ReadTypes, Req
  <2>2. information'[r] <= length'[r]
    BY <1>1, <1>2, <1>3 DEF SInv, RInv, ReadTypes
  <2>3. QED
    BY <1>3, <2>1, <2>2, SInvKept
<1>13. QED
  BY <1>3, <1>10, <1>11, <1>12, StepArrives

LEMMA PutCharInInterruptBufferStream ==
  ASSUME PInv, RInv, SInv, PInv', RInv', Untouched, PutCharInInterruptBuffer
  PROVE  SInv' /\ StreamStep
<1> DEFINE e == arrived + 1
<1>1. /\ readBufferBase = InterruptReadBuffer /\ charsInInterruptBuffer < bufferSize
      /\ arrived' = e
      /\ interruptBuffer' = [interruptBuffer EXCEPT ![currentCharSlot] = e]
      /\ charsInInterruptBuffer' = charsInInterruptBuffer + 1
      /\ UNCHANGED <<readBufferBase, firstReadableChar, lastCharSlot, userBuffer, newBuffer,
                     charsCopied, currentReadRequest, length, information, status, pc>>
  BY DEF PutCharInInterruptBuffer, requestVars, readVars
<1>2. /\ bufferSize \in Nat /\ bufferSize <= MaxSize /\ MaxSize \in Nat
      /\ lastCharSlot = bufferSize - 1 /\ lastCharSlot \in Nat
      /\ firstReadableChar \in 0 .. lastCharSlot
      /\ Readable \in Nat /\ Readable < bufferSize /\ Readable' = Readable + 1
      /\ currentCharSlot = RingSlot(firstReadableChar, Readable, lastCharSlot)
      /\ interruptBuffer \in [0 .. MaxSize - 1 -> Chars] /\ e \in Chars
  <2>1. /\ bufferSize \in Nat /\ bufferSize <= MaxSize /\ MaxSize \in Nat
        /\ charsInInterruptBuffer \in Nat /\ charsCopied \in Nat
        /\ charsCopied <= charsInInterruptBuffer
        /\ lastCharSlot \in Nat /\ firstReadableChar \in Nat
    BY RingNumbers DEF RInv
  <2>2. /\ lastCharSlot = bufferSize - 1 /\ firstReadableChar <= lastCharSlot
        /\ currentCharSlot = SlotAfter(firstReadableChar,
                                       IF Readable = bufferSize THEN 0 ELSE Readable)
    BY <1>1 DEF RInv, Ring, PointersAgree
  <2>3. Readable \in Nat /\ Readable < bufferSize /\ Readable' = Readable + 1
    BY <1>1, <2>1 DEF Readable
  <2>4. e \in Chars
    BY SizeAssumption DEF PutCharInInterruptBuffer, RInv, BufferTypes, Chars
  <2>5. interruptBuffer \in [0 .. MaxSize - 1 -> Chars]
    BY DEF RInv, BufferTypes
  <2>6. currentCharSlot = RingSlot(firstReadableChar, Readable, lastCharSlot)
    BY <2>2, <2>3 DEF SlotAfter, RingSlot
  <2>7. QED
    BY <2>1, <2>2, <2>3, <2>4, <2>5, <2>6
<1>3. InBuffer' = Append(InBuffer, e)
  <2>1. lastCharSlot < MaxSize /\ Readable <= lastCharSlot
    BY <1>2
  <2>2. /\ interruptBuffer' \in [0 .. MaxSize - 1 -> Chars]
        /\ Written(interruptBuffer, interruptBuffer', MaxSize, currentCharSlot, e)
    BY <1>1, <1>2 DEF RingSlot, Written
  <2>3. RingCells(interruptBuffer', firstReadableChar, lastCharSlot, Readable + 1)
          = Append(RingCells(interruptBuffer, firstReadableChar, lastCharSlot, Readable), e)
    BY <1>2, <2>1, <2>2, RingAppend
  <2>4. QED
    BY <1>1, <1>2, <2>3, InBufferCells
<1>4. TakenOut' = TakenOut
  <2>1. CharsHeld(currentReadRequest)' = CharsHeld(currentReadRequest)
    BY <1>1 DEF CharsHeld, IsrOwnsRead
  <2>2. QED
    BY <1>1, <2>1, TakenKept
<1>5. Characters' = Append(Characters, e)
  <2>1. TakenOut \in Seq(Chars) /\ InBuffer \in Seq(Chars)
    BY TakenOutIs, InBufferIs
  <2>2. TakenOut \o Append(InBuffer, e) = Append(TakenOut \o InBuffer, e)
    BY <1>2, <2>1, ConcatAppend
  <2>3. QED
    BY <1>3, <1>4, <2>2 DEF Characters
<1>6. Returned' = Returned /\ Result' = Result
  BY <1>1, ResultsKept
<1>7. SInv'
  BY <1>1 DEF SInv
<1>8. QED
  BY <1>1, <1>5, <1>6, <1>7, StepArrives

LEMMA PutCharOverrunStream ==
  ASSUME PInv, RInv, SInv, PInv', RInv', Untouched, PutCharOverrun
  PROVE  SInv' /\ StreamStep
<1> DEFINE at == IF currentCharSlot = 0 THEN bufferSize - 1 ELSE currentCharSlot - 1
<1>1. /\ readBufferBase = InterruptReadBuffer /\ charsInInterruptBuffer >= bufferSize
      /\ interruptBuffer' = IF ErrorChar THEN [interruptBuffer EXCEPT ![at] = 0]
                                         ELSE interruptBuffer
      /\ UNCHANGED <<arrived, readBufferBase, firstReadableChar, currentCharSlot, lastCharSlot,
                     charsInInterruptBuffer, userBuffer, newBuffer, charsCopied,
                     currentReadRequest, length, information, status, pc>>
  BY DEF PutCharOverrun, requestVars, readVars
<1>2. TakenOut' = TakenOut
  <2>1. CharsHeld(currentReadRequest)' = CharsHeld(currentReadRequest)
    BY <1>1 DEF CharsHeld, IsrOwnsRead
  <2>2. QED
    BY <1>1, <2>1, TakenKept
<1>3. Returned' = Returned /\ Result' = Result /\ SInv' /\ Readable' = Readable
  BY <1>1, ResultsKept DEF SInv, Readable
<1>4. Readable \in Nat
  BY InBufferIs
<1>5. CASE Readable = 0 \/ ~ErrorChar
  <2>1. InBuffer' = InBuffer
    BY <1>1, <1>3, <1>5, InBufferCells, NoCells
  <2>2. QED
    BY <1>1, <1>2, <1>3, <2>1, StepStutters DEF Characters
<1>6. CASE Readable # 0 /\ ErrorChar
  <2>1. /\ bufferSize \in Nat /\ bufferSize <= MaxSize /\ MaxSize \in Nat
        /\ charsInInterruptBuffer \in Nat /\ charsCopied \in Nat
        /\ charsInInterruptBuffer <= bufferSize
        /\ lastCharSlot \in Nat /\ firstReadableChar \in Nat
    BY RingNumbers DEF RInv
  <2>2. /\ lastCharSlot = bufferSize - 1 /\ firstReadableChar <= lastCharSlot
        /\ currentCharSlot = SlotAfter(firstReadableChar,
                                       IF Readable = bufferSize THEN 0 ELSE Readable)
    BY <1>1 DEF RInv, Ring, PointersAgree
  <2>3. Readable <= bufferSize /\ Readable >= 1
    BY <1>4, <1>6, <2>1 DEF Readable
  <2>4. at = RingSlot(firstReadableChar, Readable - 1, lastCharSlot)
    BY <1>4, <2>1, <2>2, <2>3 DEF SlotAfter, RingSlot
  <2>5. InBuffer' = [InBuffer EXCEPT ![Readable] = 0]
    <3>1. /\ interruptBuffer \in [0 .. MaxSize - 1 -> Chars] /\ 0 \in Chars
          /\ lastCharSlot < MaxSize /\ firstReadableChar \in 0 .. lastCharSlot
          /\ Readable <= lastCharSlot + 1
      BY <2>1, <2>2, <2>3, SizeAssumption DEF RInv, BufferTypes, Chars
    <3> DEFINE e == 0
               k == Readable - 1
    <3> HIDE DEF at
    <3>2. at \in 0 .. MaxSize - 1
      BY <1>4, <2>1, <2>3, <2>4, <3>1 DEF RingSlot
    <3>3. /\ interruptBuffer' \in [0 .. MaxSize - 1 -> Chars]
          /\ Written(interruptBuffer, interruptBuffer', MaxSize, at, e)
      BY <1>1, <1>6, <3>1, <3>2 DEF Written
    <3>4. RingCells(interruptBuffer', firstReadableChar, lastCharSlot, k + 1)
            = Replaced(RingCells(interruptBuffer, firstReadableChar, lastCharSlot, k + 1),
                       k + 1, e)
      <4>1. /\ MaxSize \in Nat /\ lastCharSlot \in Nat /\ k \in Nat /\ k <= lastCharSlot
            /\ at = RingSlot(firstReadableChar, k, lastCharSlot)
        BY <1>4, <2>1, <2>2, <2>3, <2>4
      <4>2. e \in Chars
        BY <3>1
      <4> HIDE DEF e, k
      <4>3. QED
        BY <3>1, <3>3, <4>1, <4>2, RingReplace
    <3>5. k + 1 = Readable
      BY <1>4
    <3>6. QED
      BY <1>1, <1>3, <3>4, <3>5, InBufferCells DEF Replaced
  <2>6. /\ TakenOut \in Seq(Chars) /\ InBuffer \in Seq(Chars) /\ Len(InBuffer) = Readable
        /\ InBuffer # << >> /\ 0 \in Chars
    BY <1>6, TakenOutIs, InBufferIs, EmptySeq, SizeAssumption DEF Chars
  <2>7. /\ TakenOut \o [InBuffer EXCEPT ![Len(InBuffer)] = 0]
             = [TakenOut \o InBuffer EXCEPT ![Len(TakenOut \o InBuffer)] = 0]
        /\ TakenOut \o InBuffer # << >>
    BY <2>6, ConcatReplace
  <2>8. QED
    BY <1>1, <1>2, <1>3, <2>5, <2>6, <2>7, StepReplaces DEF Characters
<1>7. QED
  BY <1>5, <1>6

-----------------------------------------------------------------------------
(* SerialTryToCompleteCurrent, and who calls it.                           *)

\* The end of a request that goes on with the next: its characters are the first of
\* the stream and leave it.
LEMMA EndReturns ==
  ASSUME PInv, RInv, SInv, PInv', RInv', Untouched,
         NEW r \in Req, status[r] \notin Done, status'[r] \in {"SUCCESS", "TIMEOUT"},
         \A q \in Req : q # r /\ status'[q] \in {"SUCCESS", "TIMEOUT"} => status[q] = status'[q],
         pc' = "start" \/ currentReadRequest' = NoReq, arrived' = arrived,
         NEW a \in Seq(Chars), NEW b \in Seq(Chars), Characters = a \o b, InBuffer' = b,
         Cells(userBuffer'[r], information'[r]) = a
  PROVE  StreamStep
<1>1. /\ r \notin Returned /\ Returned' = Returned \cup {r}
      /\ Result' = [Result EXCEPT ![r] = a]
  BY ResultAdded
<1>2. Characters' = b
  <2>1. TakenOut' = << >>
    BY TakenNone
  <2>2. << >> \o b = b
    BY EmptyConcat
  <2>3. QED
    BY <2>1, <2>2 DEF Characters
<1>3. QED
  BY <1>1, <1>2, StepReturns

LEMMA TryToCompleteStream ==
  ASSUME PInv, RInv, SInv, PInv', RInv', Untouched,
         NEW grab \in BOOLEAN, NEW final \in Done, NEW caller, NEW interval, NEW total,
         Calls(grab, caller, interval, total),
         NEW q \in Seq(Req), Distinct(q), NEW outcome,
         outcome = status \/ outcome = QueuePurged,
         NEW back \in {"idle", "purge"},
         TryToComplete(grab, final, caller, interval, total, q, outcome, back)
  PROVE  SInv' /\ StreamStep
<1> DEFINE r == currentReadRequest
           mine == IF grab /\ IsrOwnsRead THEN {"ISR"} ELSE {}
           left == RefsLeft(refs[r], caller, mine, cancelMark[r], interval, total)
           held == IF grab /\ IsrOwnsRead THEN CharsHeld(r) ELSE information[r]
           n == CharsHeld(r)
<1>1. /\ r \in Reads /\ r \in Req /\ r # NoReq /\ status[r] = "pending"
      /\ pc \notin {"start", "copied", "moved"} /\ status[r] \notin Done
  BY ReqAssumption DEF Calls, PInv, RequestTypes, Owned, Phase, Started, Req, Done
<1>2. grab \/ ~IsrOwnsRead
  BY DEF Calls, PInv, RefsMatchOwners, IsrOwnsRead
<1>3. held = n
  BY <1>2 DEF CharsHeld
<1>4. /\ IF grab /\ IsrOwnsRead THEN SwitchToInterruptBuffer ELSE UNCHANGED ringVars
      /\ \/ /\ left = {} /\ GetNextRequest(q, back)
            /\ information' = [information EXCEPT ![r] = IF final = "CANCELLED" THEN 0 ELSE held]
            /\ status' = [outcome EXCEPT ![r] = final]
         \/ /\ left # {} /\ pc' = back /\ currentReadRequest' = r
            /\ information' = [information EXCEPT ![r] = held]
            /\ status' = outcome
      /\ UNCHANGED <<length, userBuffer, arrived, newBuffer, charsCopied>>
  BY DEF TryToComplete
<1> HIDE DEF left, held
<1>5. IsrOwnsRead' = FALSE
  BY <1>2, <1>4 DEF SwitchToInterruptBuffer, IsrOwnsRead, ringVars
<1>6. InBuffer' = InBuffer
  <2>1. CASE grab /\ IsrOwnsRead
    <3>1. InBuffer = << >>
      BY <2>1, InBufferIs DEF IsrOwnsRead
    <3>2. charsCopied = 0
      BY <1>1 DEF RInv, Work, Copying
    <3>3. Readable' = 0
      BY <1>4, <2>1, <3>2 DEF Readable, SwitchToInterruptBuffer
    <3>4. QED
      BY <3>1, <3>3, BufferEmptied
  <2>2. CASE ~(grab /\ IsrOwnsRead)
    <3>1. Readable' = Readable
      BY <1>4, <2>2 DEF Readable, ringVars
    <3>2. QED
      BY <1>4, <2>2, <3>1, BufferKept DEF ringVars
  <2>3. QED
    BY <2>1, <2>2
<1>7. TakenOut = Cells(userBuffer[r], n) /\ n \in Nat
  BY <1>1, TakenOutCells, HeldIs
<1>8. TakenOut \in Seq(Chars) /\ InBuffer \in Seq(Chars)
  BY TakenOutIs, InBufferIs
<1>9. /\ \A s \in Req : outcome[s] \in {"SUCCESS", "TIMEOUT"} => status[s] = outcome[s]
      /\ \A s \in Req : s # r => status'[s] = outcome[s]
  <2>1. \A s \in Req : outcome[s] \in {"SUCCESS", "TIMEOUT"} => status[s] = outcome[s]
    BY DEF QueuePurged
  <2>2. \A s \in Req : s # r => status'[s] = outcome[s]
    BY <1>4 DEF QueuePurged, RInv, ReadTypes
  <2>3. QED
    BY <2>1, <2>2
<1>10. \A s \in Req : s # r => information'[s] = information[s]
  BY <1>4 DEF RInv, ReadTypes
<1>11. CASE left # {}
  <2>1. /\ pc' = back /\ currentReadRequest' = r /\ information'[r] = n /\ status' = outcome
    BY <1>1, <1>3, <1>4, <1>11 DEF RInv, ReadTypes
  <2>2. TakenOut' = TakenOut
    <3>1. CharsHeld(currentReadRequest)' = n
      BY <1>5, <2>1 DEF CharsHeld
    <3>2. pc' # "moved" /\ pc # "moved"
      BY <1>1, <2>1
    <3>3. QED
      BY <1>4, <2>1, <3>1, <3>2, TakenKept
  <2>3. Returned' = Returned /\ Result' = Result
    BY <1>9, <2>1, ResultsKept
  <2>4. n <= length[r]
    <3>1. CASE IsrOwnsRead
      <4>1. n = currentCharSlot /\ currentCharSlot <= lastCharSlot
            /\ lastCharSlot = length[r] - 1 /\ currentCharSlot \in Nat /\ length[r] \in Nat
            /\ lastCharSlot \in Nat
        BY <1>1, <3>1, HeldIs DEF IsrOwnsRead, RInv, Ring, PointersAgree, BufferTypes, ReadTypes
      <4> HIDE DEF n
      <4>2. QED
        BY <4>1
    <3>2. CASE ~IsrOwnsRead
      BY <1>1, <3>2 DEF CharsHeld, SInv
    <3>3. QED
      BY <3>1, <3>2
  <2>5. SInv'
    <3>1. \A s \in Resizes : information'[s] = information[s]
      BY <1>1, <1>10, ReqAssumption DEF Req
    <3>2. information'[currentReadRequest'] <= length'[currentReadRequest']
      BY <1>4, <2>1, <2>4
    <3>3. QED
      BY <3>1, <3>2, SInvKept
  <2>6. QED
    BY <1>4, <1>6, <2>2, <2>3, <2>5, StepStutters DEF Characters
<1>12. CASE left = {}
  <2>1. /\ GetNextRequest(q, back) /\ status'[r] = final
        /\ information'[r] = IF final = "CANCELLED" THEN 0 ELSE n
    BY <1>1, <1>3, <1>4, <1>12 DEF RInv, ReadTypes, QueuePurged
  <2>2. pc' = "start" \/ currentReadRequest' = NoReq
    BY <2>1, NextRequest
  <2>3. SInv'
    <3>1. \A s \in Resizes : information'[s] = information[s]
      BY <1>1, <1>10, ReqAssumption DEF Req
    <3>2. currentReadRequest' \in Reads => pc' = "start"
      BY <2>2, ReqAssumption DEF Req
    <3>3. QED
      BY <3>1, <3>2, SInvKept
  <2>4. CASE final = "CANCELLED"
    <3>1. Returned' = Returned /\ Result' = Result
      <4>1. \A s \in Req : status'[s] \in {"SUCCESS", "TIMEOUT"} => status[s] = status'[s]
        BY <1>9, <2>1, <2>4
      <4>2. QED
        BY <4>1, ResultsKept
    <3>2. Characters' = InBuffer
      <4>1. TakenOut' = << >>
        BY <2>2, TakenNone
      <4>2. << >> \o InBuffer = InBuffer
        BY <1>8, EmptyConcat
      <4>3. QED
        BY <1>6, <4>1, <4>2 DEF Characters
    <3>3. Characters = TakenOut \o InBuffer
      BY DEF Characters
    <3>4. StreamStep
      BY <1>4, <1>8, <3>1, <3>2, <3>3, StepDiscards
    <3>5. QED
      BY <2>3, <3>4
  <2>5. CASE final # "CANCELLED"
    <3>1. status'[r] \in {"SUCCESS", "TIMEOUT"}
      BY <2>1, <2>5 DEF Done
    <3>2. \A s \in Req : s # r /\ status'[s] \in {"SUCCESS", "TIMEOUT"}
                           => status[s] = status'[s]
      BY <1>9
    <3>3. Cells(userBuffer'[r], information'[r]) = TakenOut
      BY <1>4, <1>7, <2>1, <2>5
    <3>4. Characters = TakenOut \o InBuffer
      BY DEF Characters
    <3>5. StreamStep
      BY <1>1, <1>4, <1>6, <1>8, <2>2, <3>1, <3>2, <3>3, <3>4, EndReturns
    <3>6. QED
      BY <2>3, <3>5
  <2>6. QED
    BY <2>4, <2>5
<1>13. QED
  BY <1>11, <1>12

\* Whoever comes back for the current read on his own.
LEMMA CallbackStream ==
  ASSUME PInv, RInv, SInv, PInv', RInv', Untouched,
         NEW grab \in BOOLEAN, NEW final \in Done, NEW caller, NEW interval, NEW total,
         Calls(grab, caller, interval, total),
         TryToComplete(grab, final, caller, interval, total, readQueue, status, "idle")
  PROVE  SInv' /\ StreamStep
<1>1. readQueue \in Seq(Req) /\ Distinct(readQueue)
  BY DEF PInv, RequestTypes, Owned
<1>2. QED
  BY <1>1, TryToCompleteStream

\* Requests leave the queue, or are completed by their dispatch routine: no read that
\* was started is concerned.
LEMMA QueueStepStream ==
  ASSUME PInv, RInv, SInv, PInv', RInv', Untouched,
         UNCHANGED <<arrived, userBuffer, newBuffer, charsCopied, currentReadRequest,
                     information, ringVars>>,
         currentReadRequest \in Req
           => length'[currentReadRequest] = length[currentReadRequest],
         pc \notin {"start", "copied", "moved"}, pc' \notin {"start", "copied", "moved"}
  PROVE  /\ SInv' /\ Characters' = Characters
<1>1. currentReadRequest \in Reads => currentReadRequest \in Req
  BY DEF Req
<1>2. SInv'
  BY <1>1 DEF SInv
<1>3. TakenOut' = TakenOut
  <2>1. currentReadRequest \in Reads
          => CharsHeld(currentReadRequest)' = CharsHeld(currentReadRequest)
    BY <1>1 DEF CharsHeld, IsrOwnsRead, ringVars
  <2>2. QED
    BY <2>1, TakenKept
<1>4. InBuffer' = InBuffer
  <2>1. Readable' = Readable
    BY DEF Readable, ringVars
  <2>2. QED
    BY <2>1, BufferKept DEF ringVars
<1>5. QED
  BY <1>2, <1>3, <1>4 DEF Characters

LEMMA FlushStream ==
  ASSUME PInv, RInv, SInv, PInv', RInv', Untouched,
         pc = "idle", NEW back \in {"idle", "purge"}, FlushReads(back),
         UNCHANGED completeReadDpc
  PROVE  SInv' /\ StreamStep
<1> DEFINE r == currentReadRequest
<1>1. << >> \in Seq(Req) /\ Distinct(<< >>)
  BY DEF Distinct
<1>2. CASE r # NoReq /\ cancelMark[r] = "cancelable"
  <2>1. CancelCurrentRead(<< >>, QueuePurged, back)
    BY <1>2 DEF FlushReads
  <2>2. TryToComplete(TRUE, "CANCELLED", "CANCEL", intervalTimer, totalTimer,
                      << >>, QueuePurged, back)
    BY <2>1 DEF CancelCurrentRead
  <2>3. Calls(TRUE, "CANCEL", intervalTimer, totalTimer)
    BY <1>2 DEF Calls, PInv, RequestTypes, RefsMatchOwners, Started
  <2>4. "CANCELLED" \in Done
    BY DEF Done
  <2>5. QED
    BY <1>1, <2>2, <2>3, <2>4, TryToCompleteStream
<1>3. CASE ~(r # NoReq /\ cancelMark[r] = "cancelable")
  <2>1. /\ status' = QueuePurged /\ pc' = back
        /\ UNCHANGED <<currentReadRequest, length, information, ringVars, arrived,
                       charsCopied, newBuffer, userBuffer>>
    BY <1>3 DEF FlushReads, readVars
  <2>2. SInv' /\ Characters' = Characters
    BY <2>1, QueueStepStream
  <2>3. \A s \in Req : status'[s] \in {"SUCCESS", "TIMEOUT"} => status[s] = status'[s]
    BY <2>1 DEF QueuePurged
  <2>4. Returned' = Returned /\ Result' = Result
    BY <2>3, ResultsKept
  <2>5. QED
    BY <2>1, <2>2, <2>4, StepStutters
<1>4. QED
  BY <1>2, <1>3

-----------------------------------------------------------------------------
(* The client's calls.                                                     *)

\* SerialStartOrQueue: nothing is taken out for a request that is only started.
LEMMA StartOrQueueStream ==
  ASSUME PInv, RInv, SInv, PInv', RInv', Untouched,
         NEW r \in Req, NEW n, status[r] = "unused", pc = "idle", StartOrQueue(r),
         length' = [length EXCEPT ![r] = n],
         UNCHANGED <<arrived, userBuffer, newBuffer, charsCopied, information, ringVars>>
  PROVE  SInv' /\ StreamStep
<1>1. /\ status' = [status EXCEPT ![r] = "pending"]
      /\ r # currentReadRequest /\ status \in [Req -> Statuses]
  BY ReqAssumption DEF StartOrQueue, PInv, Owned, Req, RInv, ReadTypes
<1>2. Returned' = Returned /\ Result' = Result
  <2>1. \A s \in Req : status'[s] \in {"SUCCESS", "TIMEOUT"} => status[s] = status'[s]
    BY <1>1
  <2>2. QED
    BY <2>1, ResultsKept
<1>3. CASE currentReadRequest' = currentReadRequest /\ pc' = pc
  <2>1. \A s \in Req : s # r => length'[s] = length[s]
    BY DEF RInv, ReadTypes
  <2>2. SInv' /\ Characters' = Characters
    BY <1>1, <1>3, <2>1, QueueStepStream
  <2>3. QED
    BY <1>2, <2>2, StepStutters
<1>4. CASE currentReadRequest = NoReq /\ currentReadRequest' = r /\ pc' = "start"
  <2>1. TakenOut = << >>
    BY <1>4, ReqAssumption, TakenOutCells DEF Req
  <2>2. TakenOut' = << >>
    BY <1>4, TakenNone
  <2>3. InBuffer' = InBuffer
    <3>1. Readable' = Readable
      BY DEF Readable, ringVars
    <3>2. QED
      BY <3>1, BufferKept DEF ringVars
  <2>4. SInv'
    BY <1>4, SInvKept
  <2>5. QED
    BY <1>2, <2>1, <2>2, <2>3, <2>4, StepStutters DEF Characters
<1>5. QED
  BY <1>3, <1>4 DEF StartOrQueue

LEMMA EvtIoReadStream ==
  ASSUME PInv, RInv, SInv, PInv', RInv', Untouched,
         NEW r \in Reads, NEW n \in Lens, EvtIoRead(r, n)
  PROVE  SInv' /\ StreamStep
<1>1. /\ r \in Req /\ status[r] = "unused" /\ pc = "idle"
      /\ length' = [length EXCEPT ![r] = n]
      /\ UNCHANGED <<arrived, userBuffer, newBuffer, charsCopied, information, ringVars>>
  BY DEF EvtIoRead, Sends, Req, isrVars, readVars
<1>2. CASE StartOrQueue(r)
  BY <1>1, <1>2, StartOrQueueStream
<1>3. CASE CompleteAtOnce(r, "CANCELLED")
  <2>1. /\ r # currentReadRequest /\ status' = [status EXCEPT ![r] = "CANCELLED"]
        /\ UNCHANGED <<currentReadRequest, pc>>
    BY <1>1, <1>3, ReqAssumption DEF CompleteAtOnce, PInv, Owned, Req
  <2>2. \A s \in Req : s # r => length'[s] = length[s]
    BY <1>1 DEF RInv, ReadTypes
  <2>3. SInv' /\ Characters' = Characters
    BY <1>1, <2>1, <2>2, QueueStepStream
  <2>4. \A s \in Req : status'[s] \in {"SUCCESS", "TIMEOUT"} => status[s] = status'[s]
    BY <2>1 DEF RInv, ReadTypes
  <2>5. QED
    BY <1>1, <2>3, <2>4, ResultsKept, StepStutters
<1>4. QED
  BY <1>2, <1>3 DEF EvtIoRead

LEMMA SetQueueSizeStream ==
  ASSUME PInv, RInv, SInv, PInv', RInv', Untouched,
         NEW r \in Resizes, NEW n \in Sizes, SetQueueSize(r, n)
  PROVE  SInv' /\ StreamStep
<1>1. /\ r \in Req /\ status[r] = "unused" /\ pc = "idle"
      /\ length' = [length EXCEPT ![r] = n]
      /\ UNCHANGED <<arrived, userBuffer, newBuffer, charsCopied, information, ringVars>>
  BY DEF SetQueueSize, Sends, Req, isrVars, readVars
<1>2. CASE StartOrQueue(r)
  BY <1>1, <1>2, StartOrQueueStream
<1>3. ASSUME NEW final \in {"CANCELLED", "SUCCESS"}, CompleteAtOnce(r, final)
      PROVE  SInv' /\ StreamStep
  <2>1. /\ r # currentReadRequest /\ status' = [status EXCEPT ![r] = final]
        /\ UNCHANGED <<currentReadRequest, pc>>
    BY <1>1, <1>3, ReqAssumption DEF CompleteAtOnce, PInv, Owned, Req
  <2>2. \A s \in Req : s # r => length'[s] = length[s]
    BY <1>1 DEF RInv, ReadTypes
  <2>3. SInv' /\ Characters' = Characters
    BY <1>1, <2>1, <2>2, QueueStepStream
  <2>4. \A s \in Req : s # r => status'[s] = status[s]
    BY <2>1 DEF RInv, ReadTypes
  <2>5. status'[r] = final
    BY <1>1, <2>1 DEF RInv, ReadTypes
  <2>6. CASE final = "CANCELLED"
    <3>1. \A s \in Req : status'[s] \in {"SUCCESS", "TIMEOUT"} => status[s] = status'[s]
      BY <2>4, <2>5, <2>6
    <3>2. QED
      BY <1>1, <2>3, <3>1, ResultsKept, StepStutters
  <2>7. CASE final = "SUCCESS"
    <3>1. /\ r \notin Returned /\ Returned' = Returned \cup {r}
          /\ Result' = [Result EXCEPT ![r] = Cells(userBuffer'[r], information'[r])]
      <4>1. status[r] \notin Done /\ status'[r] \in {"SUCCESS", "TIMEOUT"}
        BY <1>1, <2>5, <2>7 DEF Done
      <4>2. QED
        BY <1>1, <2>4, <4>1, ResultAdded
    <3>2. Cells(userBuffer'[r], information'[r]) = << >>
      BY <1>1, NoCells DEF SInv
    <3>3. /\ << >> \in Seq(Chars) /\ Characters \in Seq(Chars)
          /\ Characters = << >> \o Characters
      <4>1. TakenOut \in Seq(Chars) /\ InBuffer \in Seq(Chars)
        BY TakenOutIs, InBufferIs
      <4>2. TakenOut \o InBuffer \in Seq(Chars)
        BY <4>1, CutConcat
      <4>3. Characters \in Seq(Chars)
        BY <4>2 DEF Characters
      <4>4. QED
        BY <4>3, EmptyConcat
    <3>4. StreamStep
      BY <1>1, <2>3, <3>1, <3>2, <3>3, StepReturns
    <3>5. QED
      BY <2>3, <3>4
  <2>8. QED
    BY <2>6, <2>7
<1>4. StartOrQueue(r) \/ CompleteAtOnce(r, "CANCELLED") \/ CompleteAtOnce(r, "SUCCESS")
  BY DEF SetQueueSize
<1>5. QED
  BY <1>2, <1>3, <1>4

LEMMA EvtCanceledOnQueueStream ==
  ASSUME PInv, RInv, SInv, PInv', RInv', Untouched, NEW r \in Req, EvtCanceledOnQueue(r)
  PROVE  SInv' /\ StreamStep
<1>1. /\ pc = "idle" /\ status' = [status EXCEPT ![r] = "CANCELLED"]
      /\ UNCHANGED <<arrived, userBuffer, newBuffer, charsCopied, currentReadRequest,
                     length, information, ringVars, pc>>
  BY DEF EvtCanceledOnQueue, isrVars, readVars
<1>2. SInv' /\ Characters' = Characters
  BY <1>1, QueueStepStream
<1>3. \A s \in Req : status'[s] \in {"SUCCESS", "TIMEOUT"} => status[s] = status'[s]
  BY <1>1 DEF RInv, ReadTypes
<1>4. QED
  BY <1>1, <1>2, <1>3, ResultsKept, StepStutters

LEMMA CancelStream ==
  ASSUME PInv, RInv, SInv, PInv', RInv', Untouched, NEW r \in Req, Cancel(r)
  PROVE  SInv' /\ StreamStep
<1>1. UNCHANGED <<arrived, userBuffer, newBuffer, charsCopied, currentReadRequest,
                  length, information, status, ringVars, pc>>
  BY DEF Cancel, isrVars, readVars
<1>2. QED
  BY <1>1, QuietStream

\* SerialPurgeInterruptBuff drops what is readable, and nothing of what a read has.
LEMMA PurgeInterruptBuffStream ==
  ASSUME PInv, RInv, SInv, PInv', RInv', Untouched, PurgeInterruptBuff
  PROVE  SInv' /\ StreamStep
<1>1. /\ pc \in {"idle", "purge"} /\ pc' = "idle"
      /\ UNCHANGED <<arrived, userBuffer, newBuffer, charsCopied, currentReadRequest,
                     length, information, status>>
      /\ \/ readBufferBase = InterruptReadBuffer /\ SwitchToInterruptBuffer
         \/ readBufferBase # InterruptReadBuffer /\ UNCHANGED ringVars
  BY DEF PurgeInterruptBuff, isrVars, readVars, requestVars
<1>2. CASE readBufferBase = InterruptReadBuffer /\ SwitchToInterruptBuffer
  <2>1. TakenOut' = TakenOut
    <3>1. CharsHeld(currentReadRequest)' = CharsHeld(currentReadRequest)
      BY <1>1, <1>2 DEF CharsHeld, IsrOwnsRead, SwitchToInterruptBuffer
    <3>2. QED
      BY <1>1, <3>1, TakenKept
  <2>2. InBuffer' = << >>
    <3>1. charsCopied = 0
      BY <1>1 DEF RInv, Work, Copying
    <3>2. Readable' = 0
      BY <1>1, <1>2, <3>1 DEF Readable, SwitchToInterruptBuffer
    <3>3. QED
      BY <3>2, BufferEmptied
  <2>3. TakenOut \in Seq(Chars) /\ InBuffer \in Seq(Chars) /\ Characters = TakenOut \o InBuffer
    BY TakenOutIs, InBufferIs DEF Characters
  <2>4. Characters' = TakenOut
    <3>1. TakenOut \o << >> = TakenOut
      BY <2>3, EmptyConcat
    <3>2. QED
      BY <2>1, <2>2, <3>1 DEF Characters
  <2>5. Returned' = Returned /\ Result' = Result
    BY <1>1, ResultsKept
  <2>6. SInv'
    BY <1>1 DEF SInv
  <2>7. StreamStep
    BY <1>1, <2>3, <2>4, <2>5, StepPurges
  <2>8. QED
    BY <2>6, <2>7
<1>3. CASE UNCHANGED ringVars
  BY <1>1, <1>3, QuietStream
<1>4. QED
  BY <1>1, <1>2, <1>3

LEMMA ClientStream ==
  ASSUME PInv, RInv, SInv, PInv', RInv', Untouched, Client
  PROVE  SInv' /\ StreamStep
<1>1. CASE \E r \in Reads, n \in Lens : EvtIoRead(r, n)
  BY <1>1, EvtIoReadStream
<1>2. CASE \E r \in Resizes, n \in Sizes : SetQueueSize(r, n)
  BY <1>2, SetQueueSizeStream
<1>3. CASE \E r \in Req : Cancel(r) \/ EvtCanceledOnQueue(r)
  BY <1>3, CancelStream, EvtCanceledOnQueueStream
<1>4. CASE \E clear \in BOOLEAN : PurgeAbort(clear)
  <2>1. PICK clear \in BOOLEAN : PurgeAbort(clear)
    BY <1>4
  <2>2. \E back \in {"idle", "purge"} : FlushReads(back)
    BY <2>1 DEF PurgeAbort
  <2>3. pc = "idle" /\ UNCHANGED completeReadDpc
    BY <2>1 DEF PurgeAbort
  <2>4. QED
    BY <2>2, <2>3, FlushStream
<1>5. CASE PurgeInterruptBuff
  BY <1>5, PurgeInterruptBuffStream
<1>6. CASE GetCommStatus
  <2>1. UNCHANGED <<arrived, userBuffer, newBuffer, charsCopied, currentReadRequest,
                    length, information, status, ringVars, pc>>
    BY <1>6 DEF GetCommStatus, readVars, requestVars
  <2>2. QED
    BY <2>1, QuietStream
<1>7. QED
  BY <1>1, <1>2, <1>3, <1>4, <1>5, <1>6 DEF Client

-----------------------------------------------------------------------------
(* The callbacks.                                                          *)

LEMMA CallbacksStream ==
  ASSUME PInv, RInv, SInv, PInv', RInv', Untouched, Callback
  PROVE  SInv' /\ StreamStep
<1>1. CASE CompleteRead
  <2>1. Calls(FALSE, "ISR", intervalTimer, totalTimer)
    BY <1>1 DEF CompleteRead, Calls, PInv, RefsMatchOwners
  <2>2. /\ TryToComplete(FALSE, "SUCCESS", "ISR", intervalTimer, totalTimer,
                         readQueue, status, "idle")
        /\ "SUCCESS" \in Done
    BY <1>1 DEF CompleteRead, Done
  <2>3. QED
    BY <2>1, <2>2, CallbackStream
<1>2. CASE CommError
  <2>1. pc = "idle" /\ FlushReads("idle") /\ UNCHANGED completeReadDpc
    BY <1>2 DEF CommError
  <2>2. QED
    BY <2>1, FlushStream
<1>3. CASE ReadTimeout
  <2>1. Calls(TRUE, "TOTAL_TIMER", intervalTimer, "off")
    BY <1>3 DEF ReadTimeout, Calls, PInv, RequestTypes, RefsMatchOwners
  <2>2. /\ TryToComplete(TRUE, "TIMEOUT", "TOTAL_TIMER", intervalTimer, "off",
                         readQueue, status, "idle")
        /\ "TIMEOUT" \in Done
    BY <1>3 DEF ReadTimeout, Done
  <2>3. QED
    BY <2>1, <2>2, CallbackStream
<1>4. CASE IntervalReadEnded
  <2>1. Calls(TRUE, "INT_TIMER", "off", totalTimer)
    BY <1>4 DEF IntervalReadEnded, Calls, PInv, RequestTypes, RefsMatchOwners
  <2>2. /\ TryToComplete(TRUE, MarkedStatus(countOnLastRead), "INT_TIMER", "off", totalTimer,
                         readQueue, status, "idle")
        /\ countOnLastRead < 0
    BY <1>4 DEF IntervalReadEnded
  <2>3. countOnLastRead \in {ReadCancel, ReadTotal, ReadComplete}
    BY <2>2 DEF RInv, Work, Marks
  <2>4. MarkedStatus(countOnLastRead) \in Done
    BY <2>3 DEF MarkedStatus, Done, ReadCancel, ReadTotal, ReadComplete
  <2>5. QED
    BY <2>1, <2>2, <2>4, CallbackStream
<1>5. CASE IntervalReadResumes \/ IntervalReadExpires
  <2>1. /\ UNCHANGED <<arrived, userBuffer, newBuffer, charsCopied, currentReadRequest,
                       length, information, status, ringVars>>
        /\ pc' # "moved" /\ pc # "moved"
    BY <1>5 DEF IntervalReadResumes, IntervalReadExpires, requestVars, isrVars, readVars
  <2>2. QED
    BY <2>1, QuietStream
<1>6. CASE \E r \in Req : CancelCallback(r)
  <2>1. PICK r \in Req : CancelCallback(r)
    BY <1>6
  <2>2. Started /\ r = currentReadRequest /\ "CANCEL" \in refs[currentReadRequest]
    BY <2>1 DEF CancelCallback, PInv, RefsMatchOwners
  <2>3. Calls(TRUE, "CANCEL", intervalTimer, totalTimer)
    BY <2>1, <2>2 DEF CancelCallback, Calls, PInv, RequestTypes
  <2>4. /\ TryToComplete(TRUE, "CANCELLED", "CANCEL", intervalTimer, totalTimer,
                         readQueue, status, "idle")
        /\ "CANCELLED" \in Done
    BY <2>1 DEF CancelCallback, CancelCurrentRead, Done
  <2>5. QED
    BY <2>3, <2>4, CallbackStream
<1>7. QED
  BY <1>1, <1>2, <1>3, <1>4, <1>5, <1>6 DEF Callback

LEMMA IntervalReadTimeoutStream ==
  ASSUME PInv, RInv, SInv, PInv', RInv', Untouched, IntervalReadTimeout
  PROVE  SInv' /\ StreamStep
<1>1. Calls(TRUE, "INT_TIMER", intervalTimer, totalTimer)
  BY DEF IntervalReadTimeout, Calls, PInv, RequestTypes, RefsMatchOwners, Phase
<1>2. /\ TryToComplete(TRUE, "TIMEOUT", "INT_TIMER", intervalTimer, totalTimer,
                       readQueue, status, "idle")
      /\ "TIMEOUT" \in Done
  BY DEF IntervalReadTimeout, Done
<1>3. QED
  BY <1>1, <1>2, CallbackStream

-----------------------------------------------------------------------------
(* The steps of the lock holder.                                           *)

\* So many readable characters fit a buffer of that size, from offset on.
Fits(room, dest, offset, n) ==
  /\ room \in Nat /\ dest \in [0 .. room - 1 -> Chars]
  /\ offset \in Nat /\ offset + n <= room
  /\ n \in Nat /\ n <= Readable

\* Characters are copied out of the interrupt buffer, behind what was taken before.
LEMMA CopyKeeps ==
  ASSUME RInv, readBufferBase = InterruptReadBuffer,
         NEW room, NEW dest, NEW offset, NEW n, Fits(room, dest, offset, n)
  PROVE  /\ Copied(dest, offset, n) \in [0 .. room - 1 -> Chars]
         /\ Cells(Copied(dest, offset, n), offset + n) \in Seq(Chars)
         /\ RingCells(interruptBuffer, SlotAfter(firstReadableChar, n), lastCharSlot,
                      Readable - n) \in Seq(Chars)
         /\ Cells(Copied(dest, offset, n), offset + n)
              \o RingCells(interruptBuffer, SlotAfter(firstReadableChar, n), lastCharSlot,
                           Readable - n)
            = Cells(dest, offset) \o InBuffer
<1> DEFINE new == Copied(dest, offset, n)
<1>0. /\ room \in Nat /\ dest \in [0 .. room - 1 -> Chars]
      /\ offset \in Nat /\ offset + n <= room
      /\ n \in Nat /\ n <= Readable
  BY DEF Fits
<1>1. /\ bufferSize \in Nat /\ bufferSize >= 1 /\ bufferSize <= MaxSize /\ MaxSize \in Nat
      /\ lastCharSlot = bufferSize - 1 /\ firstReadableChar <= lastCharSlot
      /\ firstReadableChar \in Nat /\ lastCharSlot \in Nat
      /\ Readable \in Nat /\ Readable <= bufferSize
  BY RingNumbers DEF RInv, Ring, PointersAgree, Readable
<1>2. n \in 0 .. bufferSize /\ BufferTypes
  BY <1>0, <1>1 DEF RInv
<1>3. new \in [0 .. room - 1 -> Chars]
  BY <1>0, <1>1, <1>2, CopiedType
<1>4. SlotAfter(firstReadableChar, n) = RingSlot(firstReadableChar, n, lastCharSlot)
  BY DEF SlotAfter, RingSlot
<1>5. CopiedTo(dest, new, room, offset, n, interruptBuffer, firstReadableChar, lastCharSlot)
  <2>1. DOMAIN dest = 0 .. room - 1
    BY <1>0
  <2>2. QED
    BY <2>1 DEF Copied, CopiedTo, SlotAfter, RingSlot
<1>6. /\ lastCharSlot < MaxSize /\ firstReadableChar \in 0 .. lastCharSlot
      /\ Readable <= lastCharSlot + 1
      /\ interruptBuffer \in [0 .. MaxSize - 1 -> Chars]
  BY <1>1 DEF RInv, BufferTypes
<1> HIDE DEF new
<1>7. /\ Cells(new, offset + n) \in Seq(Chars)
      /\ RingCells(interruptBuffer, RingSlot(firstReadableChar, n, lastCharSlot),
                   lastCharSlot, Readable - n) \in Seq(Chars)
      /\ Cells(new, offset + n)
           \o RingCells(interruptBuffer, RingSlot(firstReadableChar, n, lastCharSlot),
                        lastCharSlot, Readable - n)
         = Cells(dest, offset)
             \o RingCells(interruptBuffer, firstReadableChar, lastCharSlot, Readable)
  <2> DEFINE m == Readable
  <2>1. /\ m \in Nat /\ n <= m /\ m <= lastCharSlot + 1
        /\ MaxSize \in Nat /\ lastCharSlot \in Nat /\ lastCharSlot < MaxSize
        /\ firstReadableChar \in 0 .. lastCharSlot
        /\ interruptBuffer \in [0 .. MaxSize - 1 -> Chars]
    BY <1>0, <1>1, <1>6
  <2> HIDE DEF m
  <2>2. /\ Cells(new, offset + n) \in Seq(Chars)
        /\ RingCells(interruptBuffer, RingSlot(firstReadableChar, n, lastCharSlot),
                     lastCharSlot, m - n) \in Seq(Chars)
        /\ Cells(new, offset + n)
             \o RingCells(interruptBuffer, RingSlot(firstReadableChar, n, lastCharSlot),
                          lastCharSlot, m - n)
           = Cells(dest, offset)
               \o RingCells(interruptBuffer, firstReadableChar, lastCharSlot, m)
    <3>1. CopyMade(Chars, MaxSize, interruptBuffer, lastCharSlot, firstReadableChar, n, m,
                   room, dest, offset, new)
      BY <1>0, <1>3, <1>5, <2>1 DEF CopyMade
    <3>2. QED
      BY ONLY <3>1, CopyJoins
  <2>3. QED
    BY <2>2 DEF m
<1>8. QED
  BY <1>3, <1>4, <1>7, InBufferCells DEF new

\* The current request is completed, with the first characters of the stream.
LEMMA HolderEnds ==
  ASSUME PInv, RInv, SInv, PInv', RInv', Untouched,
         NEW r, r = currentReadRequest, r \in Req,
         status' = [status EXCEPT ![r] = "SUCCESS"], GetNextRequest(readQueue, "idle"),
         arrived' = arrived, \A q \in Resizes : information'[q] = information[q],
         NEW a \in Seq(Chars), NEW b \in Seq(Chars), Characters = a \o b, InBuffer' = b,
         Cells(userBuffer'[r], information'[r]) = a
  PROVE  SInv' /\ StreamStep
<1>1. /\ status[r] \notin Done /\ readQueue \in Seq(Req) /\ Distinct(readQueue)
  BY ReqAssumption DEF PInv, RequestTypes, Owned, Done
<1>2. pc' = "start" \/ currentReadRequest' = NoReq
  BY <1>1, NextRequest
<1>3. SInv'
  <2>1. currentReadRequest' \in Reads => pc' = "start"
    BY <1>2, ReqAssumption DEF Req
  <2>2. QED
    BY <2>1, SInvKept
<1>4. status'[r] \in {"SUCCESS", "TIMEOUT"}
  BY DEF RInv, ReadTypes
<1>5. \A q \in Req : q # r /\ status'[q] \in {"SUCCESS", "TIMEOUT"} => status[q] = status'[q]
  BY DEF RInv, ReadTypes
<1>6. StreamStep
  BY <1>1, <1>2, <1>4, <1>5, EndReturns
<1>7. QED
  BY <1>3, <1>6

LEMMA FinishReadAtOnceStream ==
  ASSUME PInv, RInv, SInv, PInv', RInv', Untouched, FinishReadAtOnce
  PROVE  SInv' /\ StreamStep
<1> DEFINE r == currentReadRequest
<1>1. /\ pc = "copied" /\ r \in Reads /\ r \in Req /\ ~Started
      /\ status' = [status EXCEPT ![r] = "SUCCESS"]
      /\ GetNextRequest(readQueue, "idle")
      /\ charsInInterruptBuffer' = charsInInterruptBuffer - charsCopied /\ charsCopied' = 0
      /\ UNCHANGED <<interruptBuffer, firstReadableChar, lastCharSlot, arrived,
                     information, userBuffer>>
  BY DEF FinishReadAtOnce, PInv, Phase, Req, isrVars, Started
<1>2. InBuffer' = InBuffer
  <2>1. Readable' = Readable
    BY <1>1, RingNumbers DEF Readable, RInv
  <2>2. QED
    BY <1>1, <2>1, BufferKept
<1>3. TakenOut = Cells(userBuffer'[r], information'[r])
  <2>1. CharsHeld(r) = information[r]
    BY <1>1, NotStartedRing, HeldIs DEF IsrOwnsRead
  <2>2. QED
    BY <1>1, <2>1, TakenOutCells
<1>4. TakenOut \in Seq(Chars) /\ InBuffer \in Seq(Chars) /\ Characters = TakenOut \o InBuffer
  BY TakenOutIs, InBufferIs DEF Characters
<1>5. QED
  BY <1>1, <1>2, <1>3, <1>4, HolderEnds

LEMMA ResizeNotNeededStream ==
  ASSUME PInv, RInv, SInv, PInv', RInv', Untouched, ResizeNotNeeded
  PROVE  SInv' /\ StreamStep
<1> DEFINE r == currentReadRequest
<1>1. /\ pc = "start" /\ r \in Resizes /\ r \in Req /\ r \notin Reads
      /\ status' = [status EXCEPT ![r] = "SUCCESS"]
      /\ GetNextRequest(readQueue, "idle")
      /\ UNCHANGED <<ringVars, charsCopied, arrived, information, userBuffer>>
  BY ReqAssumption DEF ResizeNotNeeded, Req, isrVars, readVars
<1>2. InBuffer' = InBuffer
  <2>1. Readable' = Readable
    BY <1>1 DEF Readable, ringVars
  <2>2. QED
    BY <1>1, <2>1, BufferKept DEF ringVars
<1>3. TakenOut = << >> /\ Cells(userBuffer'[r], information'[r]) = << >>
  <2>1. information'[r] = 0
    BY <1>1 DEF SInv
  <2>2. QED
    BY <1>1, <2>1, NoCells, TakenOutCells
<1>4. TakenOut \in Seq(Chars) /\ InBuffer \in Seq(Chars) /\ Characters = TakenOut \o InBuffer
  BY TakenOutIs, InBufferIs DEF Characters
<1>5. QED
  BY <1>1, <1>2, <1>3, <1>4, HolderEnds

LEMMA StartReadStream ==
  ASSUME PInv, RInv, SInv, PInv', RInv', Untouched, StartRead
  PROVE  SInv' /\ StreamStep
<1> DEFINE r == currentReadRequest
           n == CharsToGet(charsInInterruptBuffer, length[r])
           new == Copied(userBuffer[r], 0, n)
<1>1. /\ r \in Reads /\ r \in Req /\ pc = "start" /\ ~Started
      /\ userBuffer' = [userBuffer EXCEPT ![r] = new]
      /\ firstReadableChar' = SlotAfter(firstReadableChar, n)
      /\ charsCopied' = n /\ information' = [information EXCEPT ![r] = @ + n]
      /\ pc' = "copied"
      /\ UNCHANGED <<interruptBuffer, readBufferBase, lastCharSlot, charsInInterruptBuffer,
                     arrived, currentReadRequest, length, status>>
  BY DEF StartRead, Started, Req, isrVars
<1>2. /\ length[r] \in 1 .. MaxLen /\ MaxLen \in Nat /\ information[r] = 0 /\ charsCopied = 0
  <2>1. status[r] = "pending" /\ charsCopied = 0
    BY <1>1, ReqAssumption DEF RInv, Work, Copying, PInv, Owned, Req
  <2>2. information[r] = 0
    BY <1>1 DEF RInv, Work, Fresh
  <2>3. QED
    BY <1>1, <2>1, <2>2, SizeAssumption DEF RInv, Work, Lengths
<1>3. /\ Readable = charsInInterruptBuffer /\ charsInInterruptBuffer \in Nat
      /\ n \in Nat /\ n <= Readable /\ n <= length[r] /\ n <= MaxLen
  BY <1>2, RingNumbers DEF RInv, Readable, CharsToGet
<1>4. readBufferBase = InterruptReadBuffer
  BY <1>1, NotStartedRing
<1>5. userBuffer[r] \in [0 .. MaxLen - 1 -> Chars]
  BY <1>1 DEF RInv, BufferTypes
<1> HIDE DEF n, new
<1>6. userBuffer'[r] = new /\ information'[r] = n
  BY <1>1, <1>2, <1>3 DEF RInv, BufferTypes, ReadTypes
<1>7. Readable' = Readable - n
  BY <1>1, <1>2, <1>3 DEF Readable
<1>8. Cells(new, n) \o RingCells(interruptBuffer, SlotAfter(firstReadableChar, n),
                                 lastCharSlot, Readable - n)
        = Cells(userBuffer[r], 0) \o InBuffer
  <2> DEFINE zero == 0
  <2>1. zero \in Nat /\ zero + n <= MaxLen /\ zero + n = n
    BY <1>2, <1>3
  <2>2. new = Copied(userBuffer[r], zero, n)
    BY DEF new
  <2> HIDE DEF zero
  <2>3. Cells(new, zero + n)
          \o RingCells(interruptBuffer, SlotAfter(firstReadableChar, n), lastCharSlot,
                       Readable - n)
        = Cells(userBuffer[r], zero) \o InBuffer
    <3>1. Fits(MaxLen, userBuffer[r], zero, n)
      BY <1>2, <1>3, <1>5, <2>1 DEF Fits
    <3>2. QED
      BY <1>4, <2>2, <3>1, CopyKeeps
  <2>4. QED
    BY <2>1, <2>3 DEF zero
<1>9. Characters' = Characters
  <2>1. TakenOut = Cells(userBuffer[r], 0)
    <3>1. CharsHeld(r) = 0
      BY <1>2, <1>4 DEF CharsHeld, IsrOwnsRead
    <3>2. QED
      BY <1>1, <3>1, TakenOutCells
  <2>2. TakenOut' = Cells(new, n)
    <3>1. CharsHeld(currentReadRequest)' = n
      BY <1>1, <1>4, <1>6 DEF CharsHeld, IsrOwnsRead
    <3>2. QED
      BY <1>1, <1>6, <3>1, TakenOutCells
  <2>3. InBuffer' = RingCells(interruptBuffer, SlotAfter(firstReadableChar, n), lastCharSlot,
                              Readable - n)
    BY <1>1, <1>7, InBufferCells
  <2>4. QED
    BY <1>8, <2>1, <2>2, <2>3 DEF Characters
<1>10. Returned' = Returned /\ Result' = Result
  BY <1>1, ResultsKept
<1>11. SInv'
  <2>1. \A q \in Resizes : information'[q] = information[q]
    BY <1>1, ReqAssumption DEF RInv, ReadTypes, Req
  <2>2. information'[currentReadRequest'] <= length'[currentReadRequest']
    BY <1>1, <1>3, <1>6
  <2>3. QED
    BY <2>1, <2>2, SInvKept
<1>12. QED
  BY <1>1, <1>9, <1>10, <1>11, StepStutters

LEMMA MoveToNewIntBufferStream ==
  ASSUME PInv, RInv, SInv, PInv', RInv', Untouched, MoveToNewIntBuffer
  PROVE  SInv' /\ StreamStep
<1> DEFINE n == charsInInterruptBuffer
           new == Copied(newBuffer, 0, n)
<1>1. /\ currentReadRequest \in Resizes /\ currentReadRequest \notin Reads
      /\ pc = "start" /\ ~Started
      /\ newBuffer' = new
      /\ firstReadableChar' = SlotAfter(firstReadableChar, n)
      /\ charsCopied' = n /\ pc' = "moved"
      /\ UNCHANGED <<interruptBuffer, lastCharSlot, charsInInterruptBuffer, arrived,
                     currentReadRequest, length, information, status>>
  BY ReqAssumption DEF MoveToNewIntBuffer, Started, isrVars
<1>2. charsCopied = 0 /\ n \in Nat /\ n <= MaxSize /\ MaxSize \in Nat
  BY <1>1, RingNumbers DEF RInv, Work, Copying
<1>3. Readable = n /\ n <= Readable /\ Readable - n = 0 /\ Readable' = 0
  BY <1>1, <1>2 DEF Readable
<1>4. readBufferBase = InterruptReadBuffer /\ newBuffer \in [0 .. MaxSize - 1 -> Chars]
  BY <1>1, NotStartedRing DEF RInv, BufferTypes
<1> HIDE DEF n, new
<1>5. Cells(new, n) \o << >> = Cells(newBuffer, 0) \o InBuffer
  <2> DEFINE zero == 0
  <2>1. zero \in Nat /\ zero + n <= MaxSize /\ zero + n = n
    BY <1>2
  <2>2. new = Copied(newBuffer, zero, n)
    BY DEF new
  <2> HIDE DEF zero
  <2>3. Cells(new, zero + n)
          \o RingCells(interruptBuffer, SlotAfter(firstReadableChar, n), lastCharSlot,
                       Readable - n)
        = Cells(newBuffer, zero) \o InBuffer
    <3>1. Fits(MaxSize, newBuffer, zero, n)
      BY <1>2, <1>3, <1>4, <2>1 DEF Fits
    <3>2. QED
      BY <1>4, <2>2, <3>1, CopyKeeps
  <2>4. RingCells(interruptBuffer, SlotAfter(firstReadableChar, n), lastCharSlot,
                  Readable - n) = << >>
    BY <1>3, NoCells
  <2>5. QED
    BY <2>1, <2>3, <2>4 DEF zero
<1>6. Characters' = Characters
  <2>1. TakenOut = Cells(newBuffer, 0)
    BY <1>1, NoCells, TakenOutCells
  <2>2. TakenOut' = Cells(new, n) /\ InBuffer' = << >>
    BY <1>1, <1>3, TakenOutCells, BufferEmptied
  <2>3. QED
    BY <1>5, <2>1, <2>2 DEF Characters
<1>7. Returned' = Returned /\ Result' = Result
  BY <1>1, ResultsKept
<1>8. SInv'
  BY <1>1 DEF SInv
<1>9. QED
  BY <1>1, <1>6, <1>7, <1>8, StepStutters

LEMMA UpdateAndSwitchToNewStream ==
  ASSUME PInv, RInv, SInv, PInv', RInv', Untouched, UpdateAndSwitchToNew
  PROVE  SInv' /\ StreamStep
<1> DEFINE r == currentReadRequest
           n == charsInInterruptBuffer - charsCopied
           k == charsCopied
           new == Copied(newBuffer, k, n)
<1>1. /\ r \in Resizes /\ r \in Req /\ pc = "moved" /\ ~Started
      /\ interruptBuffer' = new
      /\ firstReadableChar' = 0 /\ lastCharSlot' = length[r] - 1
      /\ status' = [status EXCEPT ![r] = "SUCCESS"]
      /\ charsCopied' = 0 /\ GetNextRequest(readQueue, "idle")
      /\ UNCHANGED <<charsInInterruptBuffer, arrived, length, information, userBuffer>>
  BY DEF UpdateAndSwitchToNew, PInv, Phase, Req, Started, isrVars
<1>2. /\ k \in Nat /\ n \in Nat /\ n = Readable /\ n <= Readable /\ Readable - n = 0
      /\ k + n = charsInInterruptBuffer /\ k + n <= MaxSize /\ MaxSize \in Nat
      /\ k + n <= bufferSize /\ bufferSize \in Nat /\ k + n \in Nat
  BY RingNumbers DEF RInv, Readable
<1>3. readBufferBase = InterruptReadBuffer /\ newBuffer \in [0 .. MaxSize - 1 -> Chars]
  BY <1>1, NotStartedRing DEF RInv, BufferTypes
<1>4. length[r] > bufferSize /\ length[r] \in Nat
  BY <1>1 DEF RInv, Work, Copying, ReadTypes
<1> HIDE DEF n, k, new
<1>5. /\ Cells(new, k + n) \in Seq(Chars)
      /\ Cells(new, k + n) \o << >> = Cells(newBuffer, k) \o InBuffer
  <2>1. new = Copied(newBuffer, k, n)
    BY DEF new
  <2>2. /\ Cells(new, k + n) \in Seq(Chars)
        /\ Cells(new, k + n)
             \o RingCells(interruptBuffer, SlotAfter(firstReadableChar, n), lastCharSlot,
                          Readable - n)
           = Cells(newBuffer, k) \o InBuffer
    <3>1. Fits(MaxSize, newBuffer, k, n)
      BY <1>2, <1>3 DEF Fits
    <3>2. QED
      BY <1>3, <2>1, <3>1, CopyKeeps
  <2>3. RingCells(interruptBuffer, SlotAfter(firstReadableChar, n), lastCharSlot,
                  Readable - n) = << >>
    BY <1>2, NoCells
  <2>4. QED
    BY <2>2, <2>3
<1>6. Characters = Cells(new, k + n)
  <2>1. TakenOut = Cells(newBuffer, k)
    BY <1>1, TakenOutCells DEF k
  <2>2. Cells(new, k + n) \o << >> = Cells(new, k + n)
    BY <1>5, EmptyConcat
  <2>3. QED
    BY <1>5, <2>1, <2>2 DEF Characters
<1>7. InBuffer' = Characters
  <2> DEFINE last == length[r] - 1
             m == k + n
  <2>1. last \in Nat /\ m <= last + 1 /\ m \in Nat
    BY <1>2, <1>4
  <2>2. Readable' = m /\ lastCharSlot' = last
    BY <1>1, <1>2 DEF Readable
  <2>3. Characters = Cells(new, m)
    BY <1>6
  <2> HIDE DEF last, m
  <2>4. RingCells(new, 0, last, m) = Cells(new, m)
    BY <2>1, RingFromZero
  <2>5. InBuffer' = RingCells(new, 0, last, m)
    BY <1>1, <2>2, InBufferCells
  <2>6. QED
    BY <2>3, <2>4, <2>5
<1>8. Cells(userBuffer'[r], information'[r]) = << >>
  BY <1>1, NoCells DEF SInv
<1>9. /\ << >> \in Seq(Chars) /\ Characters \in Seq(Chars)
      /\ Characters = << >> \o Characters
  <2>1. TakenOut \in Seq(Chars) /\ InBuffer \in Seq(Chars)
    BY TakenOutIs, InBufferIs
  <2>2. TakenOut \o InBuffer \in Seq(Chars)
    BY <2>1, CutConcat
  <2>3. Characters \in Seq(Chars)
    BY <2>2 DEF Characters
  <2>4. QED
    BY <2>3, EmptyConcat
<1>10. QED
  BY <1>1, <1>7, <1>8, <1>9, HolderEnds

LEMMA UpdateAndSwitchToUserStream ==
  ASSUME PInv, RInv, SInv, PInv', RInv', Untouched, UpdateAndSwitchToUser
  PROVE  SInv' /\ StreamStep
<1> DEFINE r == currentReadRequest
           wanted == IF plan.crunch THEN 1 ELSE length[r]
           needed == IF plan.crunch THEN 1 ELSE numberNeededForRead
           available == charsInInterruptBuffer - charsCopied
           n == CharsToGet(available, needed)
           k == information[r]
           got == k + n
           new == Copied(userBuffer[r], wanted - needed, n)
           rest == RingCells(interruptBuffer, SlotAfter(firstReadableChar, n), lastCharSlot,
                             Readable - n)
<1>1. /\ pc = "copied" /\ ~ReadIsSatisfied /\ ~Started
      /\ r \in Reads /\ r \in Req /\ r \notin Resizes /\ r # NoReq
  BY ReqAssumption DEF UpdateAndSwitchToUser, Started, PInv, Phase, Req
<1>2. /\ wanted \in 1 .. MaxLen /\ wanted - needed = k /\ needed \in Nat
      /\ available \in Nat /\ n \in Nat /\ n <= available /\ n <= needed
      /\ available = Readable /\ got \in Nat
      /\ n # needed => n = available /\ got < wanted
  BY <1>1, SwitchToUserNumbers
<1>3. /\ length' = [length EXCEPT ![r] = wanted]
      /\ userBuffer' = [userBuffer EXCEPT ![r] = new]
      /\ charsInInterruptBuffer' = available - n
      /\ information' = [information EXCEPT ![r] = got]
      /\ firstReadableChar' = SlotAfter(firstReadableChar, n)
      /\ charsCopied' = 0
      /\ UNCHANGED <<interruptBuffer, arrived>>
  BY DEF UpdateAndSwitchToUser
<1>4. \/ /\ status' = [status EXCEPT ![r] = "SUCCESS"]
         /\ GetNextRequest(readQueue, "idle")
         /\ UNCHANGED lastCharSlot
      \/ /\ n # needed
         /\ readBufferBase' = r /\ currentCharSlot' = got /\ lastCharSlot' = wanted - 1
         /\ pc' = "idle"
         /\ UNCHANGED <<status, currentReadRequest>>
  BY DEF UpdateAndSwitchToUser
<1>5. readBufferBase = InterruptReadBuffer
  BY <1>1, NotStartedRing
<1>6. userBuffer[r] \in [0 .. MaxLen - 1 -> Chars]
  BY <1>1 DEF RInv, BufferTypes
<1>7. k \in Nat /\ MaxLen \in Nat /\ got <= MaxLen /\ n <= Readable
  <2>1. k \in Nat /\ MaxLen \in Nat
    BY <1>1, SizeAssumption DEF RInv, ReadTypes
  <2> HIDE DEF wanted, needed, available, n, k
  <2>2. QED
    BY <1>2, <2>1
<1> HIDE DEF wanted, needed, available, n, k, new
<1>8. /\ Cells(new, got) \in Seq(Chars) /\ rest \in Seq(Chars)
      /\ Cells(new, got) \o rest = Cells(userBuffer[r], k) \o InBuffer
  <2>1. new = Copied(userBuffer[r], k, n)
    BY <1>2 DEF new
  <2>2. Fits(MaxLen, userBuffer[r], k, n)
    BY <1>2, <1>6, <1>7 DEF Fits
  <2>3. QED
    BY <1>5, <2>1, <2>2, CopyKeeps
<1>9. Characters = Cells(new, got) \o rest
  <2>1. CharsHeld(r) = k
    BY <1>5 DEF CharsHeld, IsrOwnsRead, k
  <2>2. TakenOut = Cells(userBuffer[r], k)
    BY <1>1, <2>1, TakenOutCells
  <2>3. QED
    BY <1>8, <2>2 DEF Characters
<1>10. /\ userBuffer'[r] = new /\ information'[r] = got /\ length'[r] = wanted
       /\ \A q \in Resizes : information'[q] = information[q]
  <2>1. /\ r \in DOMAIN userBuffer /\ r \in DOMAIN information /\ r \in DOMAIN length
        /\ information \in [Req -> Nat] /\ Resizes \subseteq Req
    BY <1>1 DEF RInv, BufferTypes, ReadTypes, Req
  <2>2. QED
    BY <1>1, <1>3, <2>1
<1>11. Readable' = Readable - n
  BY <1>2, <1>3 DEF Readable
<1> HIDE DEF got
<1>12. CASE /\ status' = [status EXCEPT ![r] = "SUCCESS"]
            /\ GetNextRequest(readQueue, "idle") /\ UNCHANGED lastCharSlot
  <2>1. InBuffer' = rest
    BY <1>3, <1>11, <1>12, InBufferCells
  <2>2. Cells(userBuffer'[r], information'[r]) = Cells(new, got)
    BY <1>10
  <2> DEFINE a == Cells(new, got)
  <2>3. /\ a \in Seq(Chars) /\ rest \in Seq(Chars) /\ Characters = a \o rest
        /\ Cells(userBuffer'[r], information'[r]) = a
    BY <1>8, <1>9, <2>2
  <2> HIDE DEF a, rest
  <2>4. QED
    BY <1>1, <1>3, <1>10, <1>12, <2>1, <2>3, HolderEnds
<1>13. CASE /\ n # needed
            /\ readBufferBase' = r /\ currentCharSlot' = got /\ lastCharSlot' = wanted - 1
            /\ pc' = "idle" /\ UNCHANGED <<status, currentReadRequest>>
  <2>1. Readable - n = 0 /\ got \in Nat /\ got < wanted /\ wanted \in Nat
    BY <1>2, <1>7, <1>13 DEF got
  <2>2. rest = << >> /\ InBuffer' = << >>
    BY <1>11, <2>1, NoCells, BufferEmptied
  <2>3. TakenOut' = Cells(new, got)
    <3>1. IsrOwnsRead' /\ CharsHeld(currentReadRequest)' = got
      BY <1>1, <1>10, <1>13, <2>1 DEF CharsHeld, IsrOwnsRead, InterruptReadBuffer
    <3>2. QED
      BY <1>1, <1>10, <1>13, <3>1, TakenOutCells
  <2>4. Characters' = Characters
    BY <1>9, <2>2, <2>3 DEF Characters
  <2>5. Returned' = Returned /\ Result' = Result
    BY <1>13, ResultsKept
  <2>6. SInv'
    <3>1. information'[currentReadRequest'] <= length'[currentReadRequest']
      BY <1>10, <1>13, <2>1
    <3>2. QED
      BY <1>10, <3>1, SInvKept
  <2>7. QED
    BY <1>3, <2>4, <2>5, <2>6, StepStutters
<1>14. QED
  BY <1>4, <1>12, <1>13

LEMMA ContinueStream ==
  ASSUME PInv, RInv, SInv, PInv', RInv', Untouched, Continue
  PROVE  SInv' /\ StreamStep
  BY StartReadStream, FinishReadAtOnceStream, UpdateAndSwitchToUserStream,
     ResizeNotNeededStream, MoveToNewIntBufferStream, UpdateAndSwitchToNewStream,
     PurgeInterruptBuffStream, IntervalReadTimeoutStream, Zenon DEF Continue

-----------------------------------------------------------------------------
(* The read path implements the stream.                                    *)

LEMMA InitStream == Init => SInv /\ Stream!Init
<1> SUFFICES ASSUME Init PROVE SInv /\ Stream!Init
  OBVIOUS
<1>1. /\ currentReadRequest = NoReq /\ pc = "idle" /\ arrived = 0
      /\ information = [r \in Req |-> 0] /\ status = [r \in Req |-> "unused"]
      /\ charsInInterruptBuffer = 0 /\ charsCopied = 0
  BY DEF Init
<1>2. SInv
  BY <1>1, ReqAssumption DEF SInv, Req
<1>3. TakenOut = << >>
  BY <1>1 DEF TakenOut
<1>4. InBuffer = << >>
  <2>1. Readable = 0
    BY <1>1 DEF Readable
  <2>2. QED
    BY <2>1, InBufferCells, NoCells
<1>5. Characters = << >>
  <2>1. << >> \in Seq(Chars)
    OBVIOUS
  <2>2. << >> \o << >> = << >>
    BY <2>1, EmptyConcat
  <2>3. QED
    BY <1>3, <1>4, <2>2 DEF Characters
<1>6. Returned = {} /\ Result = [r \in Req |-> << >>]
  BY <1>1 DEF Returned, Result
<1>7. QED
  BY <1>1, <1>2, <1>5, <1>6 DEF Stream!Init

LEMMA NextStream == PInv /\ RInv /\ SInv /\ [Next]_vars => SInv' /\ StreamStep
<1> SUFFICES ASSUME PInv, RInv, SInv, [Next]_vars PROVE SInv' /\ StreamStep
  OBVIOUS
<1>1. PInv' /\ RInv' /\ Untouched
  BY NextPInv, NextRInv
<1>2. CASE PutCharInUserBuffer \/ PutCharInInterruptBuffer \/ PutCharOverrun
  BY <1>1, <1>2, PutCharInUserBufferStream, PutCharInInterruptBufferStream,
     PutCharOverrunStream
<1>3. CASE LineError \/ TotalTimerFires \/ IntervalTimerFires \/ UNCHANGED vars
  <2>1. /\ UNCHANGED <<arrived, userBuffer, newBuffer, charsCopied, currentReadRequest,
                       length, information, status, ringVars>>
        /\ UNCHANGED pc
    BY <1>3 DEF LineError, TotalTimerFires, IntervalTimerFires, vars, isrVars, requestVars,
       readVars
  <2>2. QED
    BY <1>1, <2>1, QuietStream
<1>4. CASE Client \/ Continue \/ Callback
  BY <1>1, <1>4, ClientStream, ContinueStream, CallbacksStream
<1>5. QED
  BY <1>2, <1>3, <1>4 DEF Next, ISR

\* No character is lost, duplicated or reordered between the ISR and the readers: the
\* requests are answered with the front of the one stream of characters in the order of
\* their arrival, through the interrupt buffer or straight into the buffer of a read,
\* across a resize and while the ISR runs, except for what a cancelled read or a purge
\* drops and what the error character replaces (SerialPutChar, SerialStartRead,
\* SerialResizeBuffer, SerialTryToCompleteCurrent).
THEOREM SpecImplementsStream == Spec => ImplementsStream
<1>1. Init => SInv /\ Stream!Init
  BY InitStream
<1>2. PInv /\ RInv /\ SInv /\ [Next]_vars => SInv' /\ [Stream!Next]_Stream!vars
  BY NextStream DEF StreamStep
<1>3. QED
  BY <1>1, <1>2, SpecPInv, SpecRInv, PTL DEF Spec, ImplementsStream, Stream!Spec
=============================================================================
