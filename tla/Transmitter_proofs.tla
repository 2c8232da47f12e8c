------------------------- MODULE Transmitter_proofs -------------------------
(***************************************************************************)
(* Proofs about Transmitter, for any flow control settings, buffer sizes,  *)
(* FIFO depth and trigger level: first that the FIFO never overruns and    *)
(* that the count of pending RTS checks is right; then that the            *)
(* transmitter is woken up, that the peer is told what the driver          *)
(* believes, and that RTS follows its mode.                                *)
(***************************************************************************)
EXTENDS Transmitter, TLAPS

\* A device in which the FIFO is in bounds, and a pending transmit interrupt
\* means that it has drained to the trigger level.
Good(d) ==
  /\ d \in Device
  /\ d.fifo <= Depth
  /\ d.thr => d.fifo <= TxTrigger

\* The paths of execution that lower RTS, but for the DPC.
OtherPaths(d) ==
  d.countOfTryingToLowerRTS - (IF d.startTimerLowerRTSDpc THEN 1 ELSE 0)

\* What each routine that leads from d to e keeps.
Keeps(d, e) == Good(e) /\ OtherPaths(e) = OtherPaths(d)

\* Nothing the invariant speaks of is changed.
SameFifoAndCount(d, e) ==
  /\ e.fifo = d.fifo /\ e.thr = d.thr
  /\ e.countOfTryingToLowerRTS = d.countOfTryingToLowerRTS
  /\ e.startTimerLowerRTSDpc = d.startTimerLowerRTSDpc

\* A step that touches only other fields keeps everything.
LEMMA SameKeeps ==
  ASSUME NEW d, Good(d), NEW e \in Device, SameFifoAndCount(d, e)
  PROVE  Keeps(d, e)
  BY DEF Good, Keeps, OtherPaths, SameFifoAndCount

\* Routines compose.
LEMMA KeepsIsTransitive ==
  ASSUME NEW d, NEW e, NEW f, Keeps(d, e), Keeps(e, f)
  PROVE  Keeps(d, f)
  BY DEF Keeps

\* So does doing nothing.
LEMMA KeepsItself ==
  ASSUME NEW d, Good(d)
  PROVE  Keeps(d, d)
  BY DEF Keeps

-----------------------------------------------------------------------------
\* The poke raises an interrupt only at the trigger level or below.
LEMMA PokeKeeps ==
  ASSUME NEW d, Good(d)
  PROVE  Keeps(d, Poke(d))
<1>1. Poke(d) \in Device
  BY Zenon DEF Good, Poke, Device
<1>2. /\ Poke(d).fifo = d.fifo /\ Poke(d).thr = (d.thr \/ d.fifo <= TxTrigger)
      /\ OtherPaths(Poke(d)) = OtherPaths(d)
  BY DEF Good, Poke, Device, OtherPaths
<1>3. QED
  BY <1>1, <1>2 DEF Good, Keeps

\* The same, of a routine that may have no reason to poke.
LEMMA PokeIfKeeps ==
  ASSUME NEW d, Good(d), NEW condition
  PROVE  Keeps(d, PokeIf(condition, d))
  BY PokeKeeps, KeepsItself DEF PokeIf

\* The DPC is one more path only if it was not in its queue.
LEMMA StartLoweringKeeps ==
  ASSUME NEW d, Good(d)
  PROVE  Keeps(d, StartLowering(d))
<1> DEFINE e == [d EXCEPT !.startTimerLowerRTSDpc = TRUE,
                          !.countOfTryingToLowerRTS = @ + 1]
<1>1. CASE d.startTimerLowerRTSDpc
  BY <1>1, KeepsItself DEF StartLowering
<1>2. CASE ~d.startTimerLowerRTSDpc
  <2>1. d.countOfTryingToLowerRTS + 1 \in Nat
    BY DEF Good, Device
  <2>2. e \in Device
    BY <2>1, Zenon DEF Good, Device
  <2>3. /\ e.fifo = d.fifo /\ e.thr = d.thr /\ e.startTimerLowerRTSDpc = TRUE
        /\ e.countOfTryingToLowerRTS = d.countOfTryingToLowerRTS + 1
    BY DEF Good, Device
  <2>4. d.countOfTryingToLowerRTS \in Nat
    BY DEF Good, Device
  <2>5. Keeps(d, e)
    BY <1>2, <2>2, <2>3, <2>4 DEF Good, Keeps, OtherPaths
  <2>6. QED
    BY <1>2, <2>5 DEF StartLowering
<1>3. QED
  BY <1>1, <1>2

\* The same, only when toggling.
LEMMA StartLoweringIfKeeps ==
  ASSUME NEW d, Good(d), NEW condition
  PROVE  Keeps(d, StartLoweringIf(condition, d))
  BY StartLoweringKeeps, KeepsItself DEF StartLoweringIf

\* Reading the line status (SerialProcessLSR).
LEMMA ProcessLSRKeeps ==
  ASSUME NEW d, Good(d), NEW error
  PROVE  Keeps(d, ProcessLSR(d, error))
<1> DEFINE read == [d EXCEPT !.holdingEmpty = (d.fifo = 0)]
<1>1. read \in Device
  BY Zenon DEF Good, Device
<1>2. SameFifoAndCount(d, read)
  BY DEF Good, Device, SameFifoAndCount
<1>3. Keeps(d, read)
  BY <1>1, <1>2, SameKeeps
<1>4. Keeps(read, Poke(read))
  BY <1>3, PokeKeeps DEF Keeps
<1>5. QED
  BY <1>3, <1>4, KeepsIsTransitive DEF ProcessLSR

\* SerialPerhapsLowerRTS ends the path of execution that calls it, or passes it
\* on to the DPC.
LEMMA PerhapsLowerRTSEndsPath ==
  ASSUME NEW d, Good(d), OtherPaths(d) >= 1, NEW error
  PROVE  /\ Good(PerhapsLowerRTS(d, error))
         /\ OtherPaths(PerhapsLowerRTS(d, error)) = OtherPaths(d) - 1
<1> DEFINE checked == ProcessLSR(d, error)
           lowered == [checked EXCEPT !.rts = FALSE]
           done == IF ~Toggling(d) \/ "BREAK" \in d.txHolding \/ WritesPending(d) THEN d
                   ELSE IF HardwareEmpty(d) THEN lowered ELSE StartLowering(checked)
           e == [done EXCEPT !.countOfTryingToLowerRTS = @ - 1]
<1>1. Keeps(d, checked)
  BY ProcessLSRKeeps
<1>2. Keeps(d, lowered)
  <2>1. Good(checked)
    BY <1>1 DEF Keeps
  <2>2. lowered \in Device
    BY <2>1, Zenon DEF Good, Device
  <2>3. SameFifoAndCount(checked, lowered)
    BY <2>1 DEF Good, Device, SameFifoAndCount
  <2>4. Keeps(checked, lowered)
    BY <2>1, <2>2, <2>3, SameKeeps
  <2>5. QED
    BY <1>1, <2>4, KeepsIsTransitive
<1>3. Keeps(d, StartLowering(checked))
  <2>1. Keeps(checked, StartLowering(checked))
    BY <1>1, StartLoweringKeeps DEF Keeps
  <2>2. QED
    BY <1>1, <2>1, KeepsIsTransitive
<1>4. Keeps(d, done)
  BY <1>2, <1>3, KeepsItself
<1> HIDE DEF done
<1>5. Good(done) /\ OtherPaths(done) >= 1
  BY <1>4 DEF Keeps
<1>6. done.countOfTryingToLowerRTS - 1 \in Nat
  BY <1>5 DEF Good, Device, OtherPaths
<1>7. e \in Device
  BY <1>5, <1>6, Zenon DEF Good, Device
<1>8. /\ e.fifo = done.fifo /\ e.thr = done.thr
      /\ e.startTimerLowerRTSDpc = done.startTimerLowerRTSDpc
      /\ e.countOfTryingToLowerRTS = done.countOfTryingToLowerRTS - 1
  BY <1>5 DEF Good, Device
<1>9. done.countOfTryingToLowerRTS \in Nat
  BY <1>5 DEF Good, Device
<1>10. Good(e) /\ OtherPaths(e) = OtherPaths(done) - 1
  BY <1>5, <1>7, <1>8, <1>9 DEF Good, OtherPaths
<1>11. e = PerhapsLowerRTS(d, error)
  BY DEF done, PerhapsLowerRTS
<1>12. QED
  BY <1>4, <1>10, <1>11 DEF Keeps

\* A caller that enters its path in the count leaves the count as it was.
LEMMA TryToLowerRTSKeeps ==
  ASSUME NEW d, Good(d), OtherPaths(d) >= 0, NEW error
  PROVE  Keeps(d, TryToLowerRTS(d, error))
<1> DEFINE e == [d EXCEPT !.countOfTryingToLowerRTS = @ + 1]
<1>1. d.countOfTryingToLowerRTS \in Nat /\ d.countOfTryingToLowerRTS + 1 \in Nat
  BY DEF Good, Device
<1>2. e \in Device
  BY <1>1, Zenon DEF Good, Device
<1>3. /\ e.fifo = d.fifo /\ e.thr = d.thr
      /\ e.startTimerLowerRTSDpc = d.startTimerLowerRTSDpc
      /\ e.countOfTryingToLowerRTS = d.countOfTryingToLowerRTS + 1
  BY DEF Good, Device
<1>4. Good(e) /\ OtherPaths(e) = OtherPaths(d) + 1 /\ OtherPaths(e) >= 1
  BY <1>1, <1>2, <1>3 DEF Good, OtherPaths
<1>5. OtherPaths(d) \in Int
  BY <1>1 DEF OtherPaths
<1> HIDE DEF e
<1>6. /\ Good(PerhapsLowerRTS(e, error))
      /\ OtherPaths(PerhapsLowerRTS(e, error)) = OtherPaths(e) - 1
  BY <1>4, PerhapsLowerRTSEndsPath
<1>7. TryToLowerRTS(d, error) = PerhapsLowerRTS(e, error)
  BY DEF e, TryToLowerRTS
<1>8. QED
  BY <1>4, <1>5, <1>6, <1>7 DEF Keeps

\* Asking for an Xon or Xoff character (SerialProdXonXoff).
LEMMA ProdXonXoffKeeps ==
  ASSUME NEW d, Good(d), NEW sendXon \in BOOLEAN
  PROVE  Keeps(d, ProdXonXoff(d, sendXon))
<1> DEFINE p == PokeIf(~d.sendXonChar /\ ~d.sendXoffChar, d)
           e == [p EXCEPT !.sendXonChar = sendXon, !.sendXoffChar = ~sendXon]
<1>1. Keeps(d, p)
  BY PokeIfKeeps
<1> HIDE DEF p
<1>2. e \in Device
  BY <1>1, Zenon DEF Keeps, Good, Device
<1>3. SameFifoAndCount(p, e)
  BY <1>1 DEF Keeps, Good, Device, SameFifoAndCount
<1>4. Keeps(p, e)
  BY <1>1, <1>2, <1>3, SameKeeps DEF Keeps
<1>5. QED
  BY <1>1, <1>4, KeepsIsTransitive DEF ProdXonXoff, p

\* Reading the modem lines (SerialHandleModemUpdate).
LEMMA HandleModemUpdateKeeps ==
  ASSUME NEW d, Good(d), NEW doingTX
  PROVE  Keeps(d, HandleModemUpdate(d, doingTX))
<1> DEFINE holds == d.handFlow.cts /\ ~d.cts
           holding == IF holds THEN d.txHolding \cup {"CTS"} ELSE d.txHolding \ {"CTS"}
           read == [d EXCEPT !.ctsChanged = FALSE, !.txHolding = holding]
           lowered == StartLoweringIf(d.txHolding = {} /\ read.txHolding # {}, read)
<1>1. holding \in SUBSET {"XOFF", "CTS", "BREAK"}
  BY DEF Good, Device
<1>2. read \in Device
  BY <1>1, Zenon DEF Good, Device
<1>3. SameFifoAndCount(d, read)
  BY DEF Good, Device, SameFifoAndCount
<1>4. Keeps(d, read)
  BY <1>2, <1>3, SameKeeps
<1>5. Keeps(read, lowered)
  BY <1>4, StartLoweringIfKeeps DEF Keeps
<1>6. Keeps(lowered, PokeIf(~doingTX /\ d.txHolding # {} /\ read.txHolding = {} /\ Work(d),
                            lowered))
  BY <1>5, PokeIfKeeps DEF Keeps
<1>7. QED
  BY <1>4, <1>5, <1>6, KeepsIsTransitive DEF HandleModemUpdate

-----------------------------------------------------------------------------
(* What the transmit interrupt sends.                                      *)

\* Characters that fit leave no interrupt pending.
LEMMA TransmitKeeps ==
  ASSUME NEW d, Good(d), NEW n \in Nat, d.fifo + n <= Depth
  PROVE  Keeps(d, Transmit(d, n))
<1> DEFINE e == [d EXCEPT !.fifo = @ + n, !.thr = FALSE, !.holdingEmpty = FALSE,
                          !.rts = @ \/ Toggling(d)]
<1>1. d.fifo + n \in Nat
  BY DEF Good, Device
<1>2. e \in Device
  BY <1>1, Zenon DEF Good, Device
<1>3. /\ e.fifo = d.fifo + n /\ e.thr = FALSE
      /\ e.startTimerLowerRTSDpc = d.startTimerLowerRTSDpc
      /\ e.countOfTryingToLowerRTS = d.countOfTryingToLowerRTS
  BY DEF Good, Device
<1>4. Keeps(d, e)
  BY <1>2, <1>3 DEF Good, Keeps, OtherPaths
<1> HIDE DEF e
<1>5. Keeps(e, StartLoweringIf(TRUE, e))
  BY <1>4, StartLoweringIfKeeps DEF Keeps
<1>6. Transmit(d, n) = StartLoweringIf(TRUE, e)
  BY DEF Transmit, e
<1>7. QED
  BY <1>4, <1>5, <1>6, KeepsIsTransitive

\* A flow control or an immediate character, into a FIFO that is not full.
LEMMA SendOneKeeps ==
  ASSUME NEW d, Good(d), d.fifo < Depth
  PROVE  /\ Keeps(d, SendXon(d))
         /\ Keeps(d, SendXoff(d))
         /\ Keeps(d, SendImmediate(d))
<1> DEFINE t == Transmit(d, 1)
<1>1. Keeps(d, t)
  <2>1. d.fifo + 1 <= Depth
    BY SizeAssumption DEF Good, Device
  <2>2. QED
    BY <2>1, TransmitKeeps
<1> HIDE DEF t
<1>2. Good(t)
  BY <1>1 DEF Keeps
<1>3. Keeps(d, SendXon(d))
  <2> DEFINE e == [t EXCEPT !.sendXonChar = FALSE, !.told = "Xon",
                            !.txHolding = @ \ {"XOFF"}, !.rxHolding = @ \ {"XOFF"}]
  <2>1. /\ t.txHolding \ {"XOFF"} \in SUBSET {"XOFF", "CTS", "BREAK"}
        /\ t.rxHolding \ {"XOFF"} \in SUBSET {"XOFF", "RTS"}
    BY <1>2 DEF Good, Device
  <2>2. e \in Device
    BY <1>2, <2>1, Zenon DEF Good, Device
  <2>3. SameFifoAndCount(t, e)
    BY <1>2 DEF Good, Device, SameFifoAndCount
  <2>4. Keeps(t, e)
    BY <1>2, <2>2, <2>3, SameKeeps
  <2>5. QED
    BY <1>1, <2>4, KeepsIsTransitive DEF SendXon, t
<1>4. Keeps(d, SendXoff(d))
  <2> DEFINE held == IF d.handFlow.xoffContinue THEN t.txHolding ELSE t.txHolding \cup {"XOFF"}
             e == [t EXCEPT !.sendXoffChar = FALSE, !.told = "Xoff", !.txHolding = held]
  <2>1. held \in SUBSET {"XOFF", "CTS", "BREAK"}
    BY <1>2 DEF Good, Device
  <2>2. e \in Device
    BY <1>2, <2>1, Zenon DEF Good, Device
  <2>3. SameFifoAndCount(t, e)
    BY <1>2 DEF Good, Device, SameFifoAndCount
  <2>4. Keeps(t, e)
    BY <1>2, <2>2, <2>3, SameKeeps
  <2>5. QED
    BY <1>1, <2>4, KeepsIsTransitive DEF SendXoff, t
<1>5. Keeps(d, SendImmediate(d))
  <2> DEFINE e == [t EXCEPT !.transmitImmediate = FALSE]
  <2>1. e \in Device
    BY <1>2, Zenon DEF Good, Device
  <2>2. SameFifoAndCount(t, e)
    BY <1>2 DEF Good, Device, SameFifoAndCount
  <2>3. Keeps(t, e)
    BY <1>2, <2>1, <2>2, SameKeeps
  <2>4. QED
    BY <1>1, <2>3, KeepsIsTransitive DEF SendImmediate, t
<1>6. QED
  BY <1>3, <1>4, <1>5

\* A write is cut to the space of the FIFO, whatever is in it.
LEMMA SendWriteKeeps ==
  ASSUME NEW d, Good(d)
  PROVE  Keeps(d, SendWrite(d))
<1> DEFINE n == AmountToWrite(d)
           t == Transmit(d, n)
           e == [t EXCEPT !.writeLength = @ - n]
<1>1. n \in 0 .. d.writeLength /\ d.fifo + n <= Depth
  BY SizeAssumption DEF Good, Device, AmountToWrite
<1>2. Keeps(d, t)
  BY <1>1, TransmitKeeps
<1>3. t.writeLength = d.writeLength
  BY DEF Good, Device, Transmit, StartLoweringIf, StartLowering
<1> HIDE DEF t
<1>4. t.writeLength - n \in 0 .. MaxLen
  BY <1>1, <1>3, SizeAssumption DEF Good, Device
<1>5. e \in Device
  BY <1>2, <1>4, Zenon DEF Keeps, Good, Device
<1>6. SameFifoAndCount(t, e)
  BY <1>2 DEF Keeps, Good, Device, SameFifoAndCount
<1>7. Keeps(t, e)
  BY <1>2, <1>5, <1>6, SameKeeps DEF Keeps
<1>8. QED
  BY <1>2, <1>7, KeepsIsTransitive DEF SendWrite, t

\* The transmit interrupt, entered when the FIFO has drained to its trigger level.
LEMMA TransmitStuffKeeps ==
  ASSUME NEW d, Good(d), d.fifo <= TxTrigger
  PROVE  Keeps(d, TransmitStuff(d))
<1> DEFINE empty == [d EXCEPT !.holdingEmpty = TRUE]
           e == IF d.handFlow.cts THEN HandleModemUpdate(empty, TRUE) ELSE empty
<1>1. Keeps(d, empty) /\ empty.fifo = d.fifo
  <2>1. empty \in Device
    BY Zenon DEF Good, Device
  <2>2. SameFifoAndCount(d, empty)
    BY DEF Good, Device, SameFifoAndCount
  <2>3. QED
    BY <2>1, <2>2, SameKeeps DEF SameFifoAndCount
<1> HIDE DEF empty
<1>2. Keeps(d, e)
  BY <1>1, HandleModemUpdateKeeps, KeepsIsTransitive DEF Keeps
<1>3. HandleModemUpdate(empty, TRUE).fifo = empty.fifo
  BY <1>1 DEF Keeps, Good, Device, HandleModemUpdate, PokeIf, StartLoweringIf, StartLowering
<1>4. e.fifo = d.fifo
  BY <1>1, <1>3, Zenon
<1> HIDE DEF e
<1>5. e.fifo < Depth
  BY <1>4, SizeAssumption DEF Good, Device
<1>6. /\ Keeps(d, SendXon(e)) /\ Keeps(d, SendXoff(e))
      /\ Keeps(d, SendImmediate(e)) /\ Keeps(d, SendWrite(e))
  BY <1>2, <1>5, SendOneKeeps, SendWriteKeeps, KeepsIsTransitive DEF Keeps
<1>7. QED
  BY <1>1, <1>2, <1>6 DEF TransmitStuff, empty, e

-----------------------------------------------------------------------------
(* Received characters and the buffer they go into.                        *)

\* RTS and the reasons to hold the peer.
LEMMA RxHoldingKeeps ==
  ASSUME NEW d, Good(d), NEW holding \in SUBSET {"XOFF", "RTS"}, NEW line \in BOOLEAN
  PROVE  /\ Keeps(d, [d EXCEPT !.rxHolding = holding])
         /\ Keeps(d, [d EXCEPT !.rts = line])
         /\ Keeps(d, [d EXCEPT !.rxHolding = holding, !.rts = line])
         /\ Keeps(d, [d EXCEPT !.rts = line, !.rxHolding = holding])
<1> DEFINE a == [d EXCEPT !.rxHolding = holding]
           b == [d EXCEPT !.rts = line]
           c == [d EXCEPT !.rxHolding = holding, !.rts = line]
           e == [d EXCEPT !.rts = line, !.rxHolding = holding]
<1>1. a \in Device
  BY Zenon DEF Good, Device
<1>2. b \in Device
  BY Zenon DEF Good, Device
<1>3. c \in Device
  BY Zenon DEF Good, Device
<1>4. e \in Device
  BY Zenon DEF Good, Device
<1>5. /\ SameFifoAndCount(d, a) /\ SameFifoAndCount(d, b)
      /\ SameFifoAndCount(d, c) /\ SameFifoAndCount(d, e)
  BY DEF Good, Device, SameFifoAndCount
<1> HIDE DEF a, b, c, e
<1>6. Keeps(d, a) /\ Keeps(d, b) /\ Keeps(d, c) /\ Keeps(d, e)
  BY <1>1, <1>2, <1>3, <1>4, <1>5, SameKeeps
<1>7. QED
  BY <1>6 DEF a, b, c, e

\* The reasons to hold transmission.
LEMMA TxHoldingKeeps ==
  ASSUME NEW d, Good(d), NEW holding \in SUBSET {"XOFF", "CTS", "BREAK"}
  PROVE  Keeps(d, [d EXCEPT !.txHolding = holding])
<1>1. [d EXCEPT !.txHolding = holding] \in Device
  BY Zenon DEF Good, Device
<1>2. SameFifoAndCount(d, [d EXCEPT !.txHolding = holding])
  BY DEF Good, Device, SameFifoAndCount
<1>3. QED
  BY <1>1, <1>2, SameKeeps

\* The fill of the interrupt buffer.
LEMMA CharsKeep ==
  ASSUME NEW d, Good(d), NEW n \in 0 .. BufferSize
  PROVE  Keeps(d, [d EXCEPT !.charsInInterruptBuffer = n])
<1>1. [d EXCEPT !.charsInInterruptBuffer = n] \in Device
  BY Zenon DEF Good, Device
<1>2. SameFifoAndCount(d, [d EXCEPT !.charsInInterruptBuffer = n])
  BY DEF Good, Device, SameFifoAndCount
<1>3. QED
  BY <1>1, <1>2, SameKeeps

\* SerialPutChar.
LEMMA PutCharKeeps ==
  ASSUME NEW d, Good(d)
  PROVE  Keeps(d, PutChar(d))
<1> DEFINE full == d.handFlow.rts = "HANDSHAKE" /\ AlmostFull(d)
           stops == d.handFlow.autoReceive /\ "XOFF" \notin d.rxHolding /\ AlmostFull(d)
           withRTS == [d EXCEPT !.rxHolding = @ \cup {"RTS"},
                                !.rts = @ /\ "RTS" \in d.rxHolding]
           lines == IF full THEN withRTS ELSE d
           withXoff == [lines EXCEPT !.rxHolding = @ \cup {"XOFF"}]
           held == IF stops THEN ProdXonXoff(withXoff, FALSE) ELSE lines
           n == IF held.charsInInterruptBuffer < BufferSize
                  THEN held.charsInInterruptBuffer + 1 ELSE held.charsInInterruptBuffer
<1>1. Keeps(d, withRTS)
  <2>1. /\ d.rxHolding \cup {"RTS"} \in SUBSET {"XOFF", "RTS"}
        /\ (d.rts /\ "RTS" \in d.rxHolding) \in BOOLEAN
    BY DEF Good, Device
  <2>2. QED
    BY <2>1, RxHoldingKeeps
<1> HIDE DEF withRTS
<1>2. Keeps(d, lines)
  BY <1>1, KeepsItself
<1> HIDE DEF lines
<1>3. Keeps(lines, withXoff)
  <2>1. lines.rxHolding \cup {"XOFF"} \in SUBSET {"XOFF", "RTS"}
    BY <1>2 DEF Keeps, Good, Device
  <2>2. QED
    BY <1>2, <2>1, RxHoldingKeeps DEF Keeps
<1> HIDE DEF withXoff
<1>4. Keeps(withXoff, ProdXonXoff(withXoff, FALSE))
  BY <1>3, ProdXonXoffKeeps DEF Keeps
<1>5. Keeps(d, held)
  BY <1>2, <1>3, <1>4, KeepsIsTransitive
<1> HIDE DEF held
<1>6. n \in 0 .. BufferSize
  BY <1>5, SizeAssumption DEF Keeps, Good, Device
<1>7. Keeps(held, [held EXCEPT !.charsInInterruptBuffer = n])
  BY <1>5, <1>6, CharsKeep DEF Keeps
<1>8. PutChar(d) = [held EXCEPT !.charsInInterruptBuffer = n]
  BY DEF PutChar, held, withXoff, lines, withRTS
<1>9. QED
  BY <1>5, <1>7, <1>8, KeepsIsTransitive

\* Whatever a receive interrupt brings.
LEMMA ReceivedKeeps ==
  ASSUME NEW d, Good(d), NEW e \in Received(d)
  PROVE  Keeps(d, e)
<1>1. /\ d.txHolding \cup {"XOFF"} \in SUBSET {"XOFF", "CTS", "BREAK"}
      /\ d.txHolding \ {"XOFF"} \in SUBSET {"XOFF", "CTS", "BREAK"}
  BY DEF Good, Device
<1>2. Keeps(d, ReceiveXon(d))
  BY <1>1, TxHoldingKeeps DEF ReceiveXon
<1>3. Keeps(d, ReceiveXoff(d))
  <2> DEFINE f == [d EXCEPT !.txHolding = @ \cup {"XOFF"}]
  <2>1. Keeps(d, f)
    BY <1>1, TxHoldingKeeps
  <2> HIDE DEF f
  <2>2. Keeps(f, StartLoweringIf(TRUE, f))
    BY <2>1, StartLoweringIfKeeps DEF Keeps
  <2>3. QED
    BY <2>1, <2>2, KeepsIsTransitive DEF ReceiveXoff, f
<1>4. QED
  BY <1>2, <1>3, PutCharKeeps, KeepsItself DEF Received, Receive

\* SerialHandleReducedIntBuffer.
LEMMA HandleReducedIntBufferKeeps ==
  ASSUME NEW d, Good(d)
  PROVE  Keeps(d, HandleReducedIntBuffer(d))
<1> DEFINE up == [d EXCEPT !.rxHolding = @ \ {"RTS"}, !.rts = TRUE]
           lines == IF "RTS" \in d.rxHolding THEN up ELSE d
<1>1. d.rxHolding \ {"RTS"} \in SUBSET {"XOFF", "RTS"}
  BY DEF Good, Device
<1>2. Keeps(d, up)
  BY <1>1, RxHoldingKeeps
<1> HIDE DEF up
<1>3. Keeps(d, lines)
  BY <1>2, KeepsItself
<1> HIDE DEF lines
<1>4. Keeps(d, ProdXonXoff(lines, TRUE))
  BY <1>3, ProdXonXoffKeeps, KeepsIsTransitive DEF Keeps
<1>5. QED
  BY <1>3, <1>4, KeepsItself DEF HandleReducedIntBuffer, lines, up

-----------------------------------------------------------------------------
(* Writes and flow control settings.                                       *)

\* SerialGiveWriteToIsr.
LEMMA GiveWriteToIsrKeeps ==
  ASSUME NEW d, Good(d), NEW n \in 0 .. MaxLen
  PROVE  Keeps(d, GiveWriteToIsr(d, n))
<1> DEFINE given == [d EXCEPT !.currentWrite = TRUE, !.writeLength = n]
           poked == PokeIf(~d.transmitImmediate, given)
           e == [poked EXCEPT !.rts = @ \/ Toggling(d)]
<1>1. given \in Device
  BY Zenon DEF Good, Device
<1>2. SameFifoAndCount(d, given)
  BY DEF Good, Device, SameFifoAndCount
<1>3. Keeps(d, given)
  BY <1>1, <1>2, SameKeeps
<1> HIDE DEF given
<1>4. Keeps(given, poked)
  BY <1>3, PokeIfKeeps DEF Keeps
<1> HIDE DEF poked
<1>5. Keeps(poked, e)
  <2>1. (poked.rts \/ Toggling(d)) \in BOOLEAN
    OBVIOUS
  <2>2. QED
    BY <1>4, <2>1, RxHoldingKeeps DEF Keeps
<1>6. QED
  BY <1>3, <1>4, <1>5, KeepsIsTransitive DEF GiveWriteToIsr, poked, given

\* A write is done, and WriteQueue may have become idle.
LEMMA WriteDoneKeeps ==
  ASSUME NEW d, Good(d), NEW write \in BOOLEAN, NEW queued \in BOOLEAN
  PROVE  Keeps(d, [d EXCEPT !.currentWrite = write, !.writesQueued = queued])
<1> DEFINE e == [d EXCEPT !.currentWrite = write, !.writesQueued = queued]
<1>1. e \in Device
  BY Zenon DEF Good, Device
<1>2. SameFifoAndCount(d, e)
  BY DEF Good, Device, SameFifoAndCount
<1>3. QED
  BY <1>1, <1>2, SameKeeps

\* SerialProcessEmptyTransmit.
LEMMA ProcessEmptyTransmitKeeps ==
  ASSUME NEW d, Good(d), OtherPaths(d) >= 0, NEW waited, NEW error
  PROVE  Keeps(d, ProcessEmptyTransmit(d, waited, error))
  BY TryToLowerRTSKeeps, KeepsItself DEF ProcessEmptyTransmit

\* The setting itself.
LEMMA HandFlowKeeps ==
  ASSUME NEW d, Good(d), NEW new \in HandFlow
  PROVE  Keeps(d, [d EXCEPT !.handFlow = new])
<1>1. [d EXCEPT !.handFlow = new] \in Device
  BY Zenon DEF Good, Device
<1>2. SameFifoAndCount(d, [d EXCEPT !.handFlow = new])
  BY DEF Good, Device, SameFifoAndCount
<1>3. QED
  BY <1>1, <1>2, SameKeeps

\* The RTS part of SerialSetupNewHandFlow, mode by mode.
LEMMA NewRTSKeeps ==
  ASSUME NEW d, Good(d), OtherPaths(d) >= 0, NEW new \in HandFlow, NEW error
  PROVE  Keeps(d, NewRTS(d, new, error))
<1> DEFINE free == [d EXCEPT !.rxHolding = @ \ {"RTS"}]
           toggling == [free EXCEPT !.handFlow.rts = "TOGGLE"]
           checked == ProcessLSR(toggling, error)
           read == IF "BREAK" \in d.txHolding THEN toggling ELSE checked
<1>1. Keeps(d, free)
  <2>1. d.rxHolding \ {"RTS"} \in SUBSET {"XOFF", "RTS"}
    BY DEF Good, Device
  <2>2. QED
    BY <2>1, RxHoldingKeeps
<1> HIDE DEF free
<1>2. Keeps(d, toggling)
  <2>1. free.handFlow \in HandFlow
    BY <1>1 DEF Keeps, Good, Device
  <2>2. [free.handFlow EXCEPT !.rts = "TOGGLE"] \in HandFlow
    BY <2>1, Zenon DEF HandFlow
  <2>3. Keeps(free, [free EXCEPT !.handFlow = [free.handFlow EXCEPT !.rts = "TOGGLE"]])
    BY <1>1, <2>2, HandFlowKeeps DEF Keeps
  <2>4. toggling = [free EXCEPT !.handFlow = [free.handFlow EXCEPT !.rts = "TOGGLE"]]
    OBVIOUS
  <2>5. QED
    BY <1>1, <2>3, <2>4, KeepsIsTransitive
<1> HIDE DEF toggling
<1>3. Keeps(d, checked)
  BY <1>2, ProcessLSRKeeps, KeepsIsTransitive DEF Keeps
<1>4. Keeps(d, read)
  BY <1>2, <1>3
<1> HIDE DEF read
<1>5. Keeps(d, [read EXCEPT !.rts = TRUE])
  BY <1>4, RxHoldingKeeps, KeepsIsTransitive DEF Keeps
<1>6. Keeps(d, TryToLowerRTS(read, error))
  BY <1>4, TryToLowerRTSKeeps, KeepsIsTransitive DEF Keeps
<1>7. Keeps(d, [d EXCEPT !.rts = TRUE])
  BY RxHoldingKeeps
<1>8. Keeps(d, [d EXCEPT !.rts = FALSE, !.rxHolding = @ \cup {"RTS"}])
  <2>1. d.rxHolding \cup {"RTS"} \in SUBSET {"XOFF", "RTS"}
    BY DEF Good, Device
  <2>2. QED
    BY <2>1, RxHoldingKeeps
<1>9. Keeps(d, [free EXCEPT !.rts = (new.rts = "CONTROL")])
  BY <1>1, RxHoldingKeeps, KeepsIsTransitive DEF Keeps
<1>10. new.rts \in {"DISABLE", "CONTROL", "HANDSHAKE", "TOGGLE"}
  BY DEF HandFlow
<1>11. CASE d.handFlow.rts = new.rts
  <2>1. NewRTS(d, new, error) = d
    BY <1>11 DEF NewRTS
  <2>2. QED
    BY <2>1, KeepsItself
<1>12. CASE d.handFlow.rts # new.rts /\ new.rts = "HANDSHAKE"
  BY <1>7, <1>8, <1>12 DEF NewRTS
<1>13. CASE d.handFlow.rts # new.rts /\ new.rts = "TOGGLE"
  BY <1>5, <1>6, <1>13 DEF NewRTS, read, toggling, free
<1>14. CASE d.handFlow.rts # new.rts /\ new.rts \in {"CONTROL", "DISABLE"}
  BY <1>9, <1>14 DEF NewRTS, free
<1>15. QED
  BY <1>10, <1>11, <1>12, <1>13, <1>14

\* Its part for Xoff sent by the driver.
LEMMA NewAutoReceiveKeeps ==
  ASSUME NEW d, Good(d), NEW new
  PROVE  Keeps(d, NewAutoReceive(d, new))
<1> DEFINE on == [d EXCEPT !.rxHolding = @ \cup {"XOFF"}]
           off == [d EXCEPT !.rxHolding = @ \ {"XOFF"}]
<1>1. /\ d.rxHolding \cup {"XOFF"} \in SUBSET {"XOFF", "RTS"}
      /\ d.rxHolding \ {"XOFF"} \in SUBSET {"XOFF", "RTS"}
  BY DEF Good, Device
<1>2. Keeps(d, on) /\ Keeps(d, off)
  BY <1>1, RxHoldingKeeps
<1> HIDE DEF on, off
<1>3. Keeps(on, ProdXonXoff(on, FALSE)) /\ Keeps(off, ProdXonXoff(off, TRUE))
  BY <1>2, ProdXonXoffKeeps DEF Keeps
<1>4. Keeps(d, ProdXonXoff(on, FALSE)) /\ Keeps(d, ProdXonXoff(off, TRUE))
  BY <1>2, <1>3, KeepsIsTransitive
<1>5. QED
  BY <1>4, KeepsItself DEF NewAutoReceive, on, off

\* Its part for Xoff received.
LEMMA NewAutoTransmitKeeps ==
  ASSUME NEW d, Good(d), NEW new
  PROVE  Keeps(d, NewAutoTransmit(d, new))
<1> DEFINE off == [d EXCEPT !.txHolding = @ \ {"XOFF"}]
<1>1. d.txHolding \ {"XOFF"} \in SUBSET {"XOFF", "CTS", "BREAK"}
  BY DEF Good, Device
<1>2. Keeps(d, off)
  BY <1>1, TxHoldingKeeps
<1> HIDE DEF off
<1>3. Keeps(d, ProdXonXoff(off, TRUE))
  BY <1>2, ProdXonXoffKeeps, KeepsIsTransitive DEF Keeps
<1>4. QED
  BY <1>3, KeepsItself DEF NewAutoTransmit, off

\* SerialSetupNewHandFlow, of its parts.
LEMMA SetupNewHandFlowKeeps ==
  ASSUME NEW d, Good(d), OtherPaths(d) >= 0, NEW new \in HandFlow, NEW error
  PROVE  Keeps(d, SetupNewHandFlow(d, new, error))
<1> DEFINE a == NewRTS(d, new, error)
           b == NewAutoReceive(a, new)
           c == NewAutoTransmit(b, new)
<1>1. Keeps(d, a)
  BY NewRTSKeeps
<1> HIDE DEF a
<1>2. Keeps(a, b)
  BY <1>1, NewAutoReceiveKeeps DEF Keeps
<1> HIDE DEF b
<1>3. Keeps(b, c)
  BY <1>2, NewAutoTransmitKeeps DEF Keeps
<1> HIDE DEF c
<1>4. Keeps(c, [c EXCEPT !.handFlow = new])
  BY <1>3, HandFlowKeeps DEF Keeps
<1>5. Keeps(d, [c EXCEPT !.handFlow = new])
  BY <1>1, <1>2, <1>3, <1>4, KeepsIsTransitive
<1>6. QED
  BY <1>5 DEF SetupNewHandFlow, a, b, c

-----------------------------------------------------------------------------
(* The invariant and the steps.                                            *)

\* A pending transmit interrupt means that the FIFO has drained to its trigger
\* level: the ISR may then write without another look at it.
ThrAtTrigger == dev.thr => dev.fifo <= TxTrigger

\* The inductive invariant.  NoOverrun needs ThrAtTrigger; TypeOK needs
\* LowerRTSCount, without which the count could drop below zero.
IInv == TypeOK /\ NoOverrun /\ ThrAtTrigger /\ LowerRTSCount

\* The paths of execution that have the timer.
TimerPaths ==
  (IF lowerRTSTimer.set THEN 1 ELSE 0) + (IF lowerRTSTimer.due THEN 1 ELSE 0)

\* What the invariant says in terms of the routines.
LEMMA IInvGood ==
  ASSUME IInv
  PROVE  /\ Good(dev) /\ OtherPaths(dev) = TimerPaths /\ OtherPaths(dev) >= 0
         /\ dev.countOfTryingToLowerRTS \in Nat
<1>1. dev.countOfTryingToLowerRTS \in Nat
  BY DEF IInv, TypeOK, Device
<1>2. Good(dev)
  BY DEF IInv, TypeOK, NoOverrun, ThrAtTrigger, Good
<1>3. OtherPaths(dev) = TimerPaths
  BY <1>1 DEF IInv, LowerRTSCount, OtherPaths, TimerPaths
<1>4. TimerPaths >= 0
  BY DEF TimerPaths
<1>5. QED
  BY <1>1, <1>2, <1>3, <1>4

\* A step that keeps the device good, and the count equal to the paths.
LEMMA GoodIInv ==
  ASSUME Good(dev'), OtherPaths(dev') = TimerPaths',
         lowerRTSTimer' \in [set : BOOLEAN, due : BOOLEAN],
         isr' \in {"off", "loop", "end"}
  PROVE  IInv'
<1>1. dev'.countOfTryingToLowerRTS \in Nat
  BY DEF Good, Device
<1>2. LowerRTSCount'
  BY <1>1 DEF LowerRTSCount, OtherPaths, TimerPaths
<1>3. QED
  BY <1>2 DEF Good, IInv, TypeOK, NoOverrun, ThrAtTrigger

\* A step of the device alone.
LEMMA KeepsIInv ==
  ASSUME IInv, Keeps(dev, dev'), UNCHANGED lowerRTSTimer,
         isr' \in {"off", "loop", "end"}
  PROVE  IInv'
<1>1. Good(dev') /\ OtherPaths(dev') = OtherPaths(dev)
  BY DEF Keeps
<1>2. OtherPaths(dev) = TimerPaths
  BY IInvGood
<1>3. TimerPaths' = TimerPaths
  BY DEF TimerPaths
<1>4. lowerRTSTimer' \in [set : BOOLEAN, due : BOOLEAN]
  BY DEF IInv, TypeOK
<1>5. QED
  BY <1>1, <1>2, <1>3, <1>4, GoodIInv

\* A synchronized routine.
LEMMA SynchronizeIInv ==
  ASSUME IInv, NEW d, Keeps(dev, d), Synchronize(d)
  PROVE  IInv'
<1>1. isr' \in {"off", "loop", "end"}
  BY DEF IInv, TypeOK, Synchronize
<1>2. Keeps(dev, dev') /\ UNCHANGED lowerRTSTimer
  BY DEF Synchronize
<1>3. QED
  BY <1>1, <1>2, KeepsIInv

\* The device that was just opened.
LEMMA InitIInv == Init => IInv
<1> SUFFICES ASSUME Init PROVE IInv
  OBVIOUS
<1>1. PICK h \in HandFlows :
       dev = [handFlow |-> h, txHolding |-> {}, rxHolding |-> {},
              sendXonChar |-> FALSE, sendXoffChar |-> FALSE,
              transmitImmediate |-> FALSE, writeLength |-> 0,
              currentImmediate |-> FALSE, currentWrite |-> FALSE,
              writesQueued |-> FALSE, holdingEmpty |-> TRUE,
              charsInInterruptBuffer |-> 0,
              startTimerLowerRTSDpc |-> FALSE, countOfTryingToLowerRTS |-> 0,
              fifo |-> 0, shifting |-> FALSE, thr |-> FALSE, cts |-> TRUE,
              ctsChanged |-> FALSE, rts |-> h.rts \in {"CONTROL", "HANDSHAKE"},
              told |-> "Xon"]
  BY DEF Init
<1>2. /\ h \in HandFlow /\ 0 \in 0 .. MaxLen /\ 0 \in 0 .. BufferSize /\ 0 \in Nat
      /\ {} \in SUBSET {"XOFF", "CTS", "BREAK"} /\ {} \in SUBSET {"XOFF", "RTS"}
      /\ (h.rts \in {"CONTROL", "HANDSHAKE"}) \in BOOLEAN
      /\ TRUE \in BOOLEAN /\ FALSE \in BOOLEAN /\ "Xon" \in {"Xon", "Xoff"}
  BY HandFlowAssumption, SizeAssumption
<1>3. dev \in Device
  BY <1>1, <1>2, Zenon DEF Device
<1>4. /\ dev.fifo = 0 /\ dev.thr = FALSE /\ dev.countOfTryingToLowerRTS = 0
      /\ dev.startTimerLowerRTSDpc = FALSE
  BY <1>1
<1>5. /\ lowerRTSTimer = [set |-> FALSE, due |-> FALSE]
      /\ lowerRTSTimer.set = FALSE /\ lowerRTSTimer.due = FALSE /\ isr = "off"
  BY DEF Init
<1>6. TypeOK
  BY <1>3, <1>5 DEF TypeOK
<1>7. QED
  BY <1>4, <1>5, <1>6, SizeAssumption
     DEF IInv, NoOverrun, ThrAtTrigger, LowerRTSCount

\* The passes of SerialISR.
LEMMA ISRPreserves == IInv /\ ISR => IInv'
<1> SUFFICES ASSUME IInv, ISR PROVE IInv'
  OBVIOUS
<1>1. Good(dev)
  BY IInvGood
<1>2. CASE LineStatusInterrupt
  BY <1>1, <1>2, ProcessLSRKeeps, KeepsIInv DEF LineStatusInterrupt
<1>3. CASE ReceiveInterrupt
  <2>1. PICK d \in Received(dev), error \in LineErrors : dev' = ProcessLSR(d, error)
    BY <1>3 DEF ReceiveInterrupt
  <2>2. Keeps(dev, d)
    BY <1>1, <2>1, ReceivedKeeps
  <2>3. Keeps(d, ProcessLSR(d, error))
    BY <2>2, ProcessLSRKeeps DEF Keeps
  <2>4. Keeps(dev, dev')
    BY <2>1, <2>2, <2>3, KeepsIsTransitive
  <2>5. QED
    BY <1>3, <2>4, KeepsIInv DEF ReceiveInterrupt
<1>4. CASE TransmitInterrupt
  <2> DEFINE d == [dev EXCEPT !.thr = FALSE]
  <2>1. d \in Device
    BY <1>1, Zenon DEF Good, Device
  <2>2. /\ d.fifo = dev.fifo /\ d.thr = FALSE
        /\ d.startTimerLowerRTSDpc = dev.startTimerLowerRTSDpc
        /\ d.countOfTryingToLowerRTS = dev.countOfTryingToLowerRTS
    BY <1>1 DEF Good, Device
  <2> HIDE DEF d
  <2>3. Keeps(dev, d)
    BY <1>1, <2>1, <2>2 DEF Good, Keeps, OtherPaths
  <2>4. d.fifo <= TxTrigger
    BY <1>4, <2>2 DEF IInv, ThrAtTrigger, TransmitInterrupt
  <2>5. Keeps(d, TransmitStuff(d))
    BY <2>3, <2>4, TransmitStuffKeeps DEF Keeps
  <2>6. dev' = TransmitStuff(d) /\ UNCHANGED lowerRTSTimer /\ isr' = "loop"
    BY <1>4 DEF TransmitInterrupt, d
  <2>7. QED
    BY <2>3, <2>5, <2>6, KeepsIsTransitive, KeepsIInv
<1>5. CASE ModemInterrupt
  BY <1>1, <1>5, HandleModemUpdateKeeps, KeepsIInv DEF ModemInterrupt
<1>6. CASE NoInterruptPending
  BY <1>1, <1>6, KeepsItself, KeepsIInv DEF NoInterruptPending
<1>7. CASE EndOfISR
  <2>1. PICK error \in LineErrors :
          LET d == ProcessLSR(dev, error)
          IN IF d.fifo = 0 /\ d.txHolding = {} /\ Work(d)
               THEN dev' = TransmitStuff(d) /\ isr' = "loop"
               ELSE dev' = d /\ isr' = "off"
    BY <1>7 DEF EndOfISR
  <2> DEFINE d == ProcessLSR(dev, error)
  <2>2. Keeps(dev, d)
    BY <1>1, ProcessLSRKeeps
  <2>3. dev' = d \/ (dev' = TransmitStuff(d) /\ d.fifo = 0)
    BY <2>1
  <2>4. isr' \in {"off", "loop", "end"} /\ UNCHANGED lowerRTSTimer
    BY <1>7, <2>1 DEF EndOfISR
  <2> HIDE DEF d
  <2>5. d.fifo = 0 => Keeps(d, TransmitStuff(d))
    <3>1. d.fifo = 0 => d.fifo <= TxTrigger
      BY SizeAssumption
    <3>2. QED
      BY <2>2, <3>1, TransmitStuffKeeps DEF Keeps
  <2>6. Keeps(dev, dev')
    BY <2>2, <2>3, <2>5, KeepsIsTransitive
  <2>7. QED
    BY <2>4, <2>6, KeepsIInv
<1>8. QED
  BY <1>2, <1>3, <1>4, <1>5, <1>6, <1>7 DEF ISR

\* The UART and the peer.
LEMMA UARTPreserves == IInv /\ (Shift \/ ChangeCTS) => IInv'
<1> SUFFICES ASSUME IInv, Shift \/ ChangeCTS PROVE IInv'
  OBVIOUS
<1>1. Good(dev)
  BY IInvGood
<1>2. isr' \in {"off", "loop", "end"} /\ UNCHANGED lowerRTSTimer
  BY DEF IInv, TypeOK, Shift, ChangeCTS
<1>3. CASE Shift /\ dev.fifo = 0
  <2> DEFINE e == [dev EXCEPT !.shifting = FALSE]
  <2>1. e \in Device
    BY <1>1, Zenon DEF Good, Device
  <2>2. SameFifoAndCount(dev, e)
    BY <1>1 DEF Good, Device, SameFifoAndCount
  <2>3. Keeps(dev, e) /\ dev' = e
    BY <1>1, <1>3, <2>1, <2>2, SameKeeps DEF Shift
  <2>4. QED
    BY <1>2, <2>3, KeepsIInv
<1>4. CASE Shift /\ dev.fifo # 0
  <2> DEFINE e == [dev EXCEPT !.fifo = @ - 1, !.shifting = TRUE,
                              !.thr = @ \/ dev.fifo - 1 \in {0, TxTrigger}]
  <2>1. dev.fifo - 1 \in Nat
    BY <1>1, <1>4 DEF Good, Device
  <2>2. e \in Device
    BY <1>1, <2>1, Zenon DEF Good, Device
  <2>3. /\ e.fifo = dev.fifo - 1 /\ e.thr = (dev.thr \/ dev.fifo - 1 \in {0, TxTrigger})
        /\ e.startTimerLowerRTSDpc = dev.startTimerLowerRTSDpc
        /\ e.countOfTryingToLowerRTS = dev.countOfTryingToLowerRTS
    BY <1>1 DEF Good, Device
  <2>4. dev' = e
    BY <1>4 DEF Shift
  <2> HIDE DEF e
  <2>5. e.fifo <= Depth
    BY <1>1, <2>1, <2>3, SizeAssumption DEF Good, Device
  <2>6. e.thr => e.fifo <= TxTrigger
    <3>1. CASE dev.thr
      BY <1>1, <2>1, <2>3, <3>1, SizeAssumption DEF Good, Device
    <3>2. CASE dev.fifo - 1 \in {0, TxTrigger}
      BY <2>3, <3>2, SizeAssumption
    <3>3. QED
      BY <2>3, <3>1, <3>2
  <2>7. Keeps(dev, e)
    BY <2>2, <2>3, <2>5, <2>6 DEF Good, Keeps, OtherPaths
  <2>8. QED
    BY <1>2, <2>4, <2>7, KeepsIInv
<1>5. CASE ChangeCTS
  <2> DEFINE line == ~dev.cts
             e == [dev EXCEPT !.cts = line, !.ctsChanged = TRUE]
  <2>1. e \in Device
    <3>1. line \in BOOLEAN
      OBVIOUS
    <3> HIDE DEF line
    <3>2. QED
      BY <1>1, <3>1, Zenon DEF Good, Device
  <2>2. SameFifoAndCount(dev, e)
    BY <1>1 DEF Good, Device, SameFifoAndCount
  <2>3. Keeps(dev, e) /\ dev' = e
    BY <1>1, <1>5, <2>1, <2>2, SameKeeps DEF ChangeCTS
  <2>4. QED
    BY <1>2, <2>3, KeepsIInv
<1>6. QED
  BY <1>3, <1>4, <1>5

\* The write and the immediate character, and their ends.
LEMMA WritesPreserve ==
  IInv /\ (StartWrite \/ StartImmediate \/ GrabWriteFromIsr \/ GrabImmediateFromIsr
             \/ EndImmediate) => IInv'
<1> SUFFICES ASSUME IInv,
                    StartWrite \/ StartImmediate \/ GrabWriteFromIsr \/ GrabImmediateFromIsr
                      \/ EndImmediate
             PROVE IInv'
  OBVIOUS
<1>1. Good(dev) /\ OtherPaths(dev) >= 0
  BY IInvGood
<1> DEFINE given == [dev EXCEPT !.currentImmediate = TRUE, !.transmitImmediate = TRUE]
           noWrite == [dev EXCEPT !.writeLength = 0]
           noImmediate == [dev EXCEPT !.transmitImmediate = FALSE]
           immediateDone == [dev EXCEPT !.currentImmediate = FALSE]
<1>2. /\ SameFifoAndCount(dev, given) /\ SameFifoAndCount(dev, noWrite)
      /\ SameFifoAndCount(dev, noImmediate)
      /\ SameFifoAndCount(dev, immediateDone)
  BY <1>1 DEF Good, Device, SameFifoAndCount
<1>3. given \in Device /\ noImmediate \in Device
  BY <1>1, Zenon DEF Good, Device
<1>4. immediateDone \in Device
  BY <1>1, Zenon DEF Good, Device
<1>5. noWrite \in Device
  <2>1. 0 \in 0 .. MaxLen
    BY SizeAssumption
  <2>2. QED
    BY <1>1, <2>1, Zenon DEF Good, Device
<1> HIDE DEF given, noWrite, noImmediate, immediateDone
<1>6. /\ Keeps(dev, given) /\ Keeps(dev, noWrite) /\ Keeps(dev, noImmediate)
      /\ Keeps(dev, immediateDone)
  BY <1>1, <1>2, <1>3, <1>4, <1>5, SameKeeps
<1>7. \A n \in 1 .. MaxLen : Keeps(dev, GiveWriteToIsr(dev, n))
  <2>1. 1 .. MaxLen \subseteq 0 .. MaxLen
    BY SizeAssumption
  <2>2. QED
    BY <1>1, <2>1, GiveWriteToIsrKeeps
<1>8. CASE StartWrite
  BY <1>7, <1>8, SynchronizeIInv DEF StartWrite
<1>9. CASE StartImmediate
  <2>1. Keeps(dev, PokeIf(dev.writeLength = 0, given))
    BY <1>6, PokeIfKeeps, KeepsIsTransitive DEF Keeps
  <2>2. QED
    BY <1>9, <2>1, SynchronizeIInv DEF StartImmediate, given
<1>10. CASE GrabWriteFromIsr
  BY <1>6, <1>10, SynchronizeIInv DEF GrabWriteFromIsr, noWrite
<1>11. CASE GrabImmediateFromIsr
  BY <1>6, <1>11, SynchronizeIInv DEF GrabImmediateFromIsr, noImmediate
<1>12. OtherPaths(immediateDone) >= 0
  BY <1>1, <1>6 DEF Keeps
<1>13. ASSUME NEW waited, NEW error
       PROVE  Keeps(dev, ProcessEmptyTransmit(immediateDone, waited, error))
  BY <1>6, <1>12, ProcessEmptyTransmitKeeps, KeepsIsTransitive DEF Keeps
<1>14. CASE EndImmediate
  BY <1>13, <1>14, SynchronizeIInv DEF EndImmediate, immediateDone
<1>15. QED
  BY <1>8, <1>9, <1>10, <1>11, <1>14

\* The end of a write, after which another may come out of WriteQueue.
LEMMA EndWritePreserves == IInv /\ EndWrite => IInv'
<1> SUFFICES ASSUME IInv, EndWrite PROVE IInv'
  OBVIOUS
<1>1. Good(dev) /\ OtherPaths(dev) >= 0 /\ dev.writesQueued \in BOOLEAN
  BY IInvGood DEF Good, Device
<1> DEFINE writeDone(queued) == [dev EXCEPT !.currentWrite = FALSE, !.writesQueued = queued]
<1>2. ASSUME NEW queued \in BOOLEAN, NEW waited, NEW error
      PROVE  Keeps(dev, ProcessEmptyTransmit(writeDone(queued), waited, error))
  <2>1. Keeps(dev, writeDone(queued))
    BY <1>1, WriteDoneKeeps
  <2> HIDE DEF writeDone
  <2>2. Good(writeDone(queued)) /\ OtherPaths(writeDone(queued)) >= 0
    BY <1>1, <2>1 DEF Keeps
  <2>3. QED
    BY <2>1, <2>2, ProcessEmptyTransmitKeeps, KeepsIsTransitive
<1>3. ASSUME NEW n \in 1 .. MaxLen PROVE Keeps(dev, GiveWriteToIsr(dev, n))
  BY <1>1, SizeAssumption, GiveWriteToIsrKeeps
<1>4. \/ \E queued \in {FALSE, dev.writesQueued}, waited \in BOOLEAN, error \in LineErrors :
           Synchronize(ProcessEmptyTransmit(writeDone(queued), waited, error))
      \/ \E n \in 1 .. MaxLen : Synchronize(GiveWriteToIsr(dev, n))
  BY DEF EndWrite
<1> HIDE DEF writeDone
<1>5. QED
  BY <1>1, <1>2, <1>3, <1>4, SynchronizeIInv

\* WriteQueue is taken to be in use, or to be idle.
LEMMA QueuePreserves == IInv /\ (QueueWrite \/ QueueEmptied) => IInv'
<1> SUFFICES ASSUME IInv, QueueWrite \/ QueueEmptied PROVE IInv'
  OBVIOUS
<1>1. Good(dev) /\ dev.currentWrite \in BOOLEAN
  BY IInvGood DEF Good, Device
<1>2. PICK queued \in BOOLEAN : dev' = [dev EXCEPT !.writesQueued = queued]
  BY DEF QueueWrite, QueueEmptied
<1>3. dev' = [dev EXCEPT !.currentWrite = dev.currentWrite, !.writesQueued = queued]
  BY <1>1, <1>2 DEF Good, Device
<1>4. Keeps(dev, dev')
  BY <1>1, <1>3, WriteDoneKeeps
<1>5. UNCHANGED lowerRTSTimer /\ isr' \in {"off", "loop", "end"}
  BY DEF IInv, TypeOK, QueueWrite, QueueEmptied
<1>6. QED
  BY <1>4, <1>5, KeepsIInv

\* Break, the ioctls that act on the lines, and the flow control setting.
LEMMA ControlsPreserve ==
  IInv /\ (TurnOnBreak \/ TurnOffBreak \/ PretendXoff \/ PretendXon \/ SetRTS
             \/ GetModemUpdate \/ SetHandFlow \/ TakeChars) => IInv'
<1> SUFFICES ASSUME IInv,
                    TurnOnBreak \/ TurnOffBreak \/ PretendXoff \/ PretendXon \/ SetRTS
                      \/ GetModemUpdate \/ SetHandFlow \/ TakeChars
             PROVE IInv'
  OBVIOUS
<1>1. Good(dev) /\ OtherPaths(dev) >= 0
  BY IInvGood
<1>2. ASSUME NEW s \in {"XOFF", "CTS", "BREAK"}
      PROVE  /\ dev.txHolding \cup {s} \in SUBSET {"XOFF", "CTS", "BREAK"}
             /\ dev.txHolding \ {s} \in SUBSET {"XOFF", "CTS", "BREAK"}
  BY <1>1 DEF Good, Device
<1>3. CASE TurnOnBreak
  <2> DEFINE up == [dev EXCEPT !.rts = @ \/ Toggling(dev)]
             e == [up EXCEPT !.txHolding = @ \cup {"BREAK"}]
  <2>1. (dev.rts \/ Toggling(dev)) \in BOOLEAN
    OBVIOUS
  <2>2. Keeps(dev, up)
    BY <1>1, <2>1, RxHoldingKeeps
  <2>3. up.txHolding = dev.txHolding
    BY <1>1 DEF Good, Device
  <2> HIDE DEF up
  <2>4. Keeps(up, e)
    BY <1>2, <2>2, <2>3, TxHoldingKeeps DEF Keeps
  <2>5. Synchronize(e)
    BY <1>3 DEF TurnOnBreak, up
  <2>6. QED
    BY <2>2, <2>4, <2>5, KeepsIsTransitive, SynchronizeIInv
<1>4. CASE TurnOffBreak
  <2> DEFINE d == [dev EXCEPT !.txHolding = @ \ {"BREAK"}]
  <2>1. Keeps(dev, d)
    BY <1>1, <1>2, TxHoldingKeeps
  <2>2. Synchronize(Poke(d)) \/ \E error \in LineErrors : Synchronize(TryToLowerRTS(d, error))
    BY <1>4 DEF TurnOffBreak
  <2> HIDE DEF d
  <2>3. Keeps(dev, Poke(d))
    BY <2>1, PokeKeeps, KeepsIsTransitive DEF Keeps
  <2>4. ASSUME NEW error PROVE Keeps(dev, TryToLowerRTS(d, error))
    BY <1>1, <2>1, TryToLowerRTSKeeps, KeepsIsTransitive DEF Keeps
  <2>5. QED
    BY <2>2, <2>3, <2>4, SynchronizeIInv
<1>5. CASE PretendXoff
  <2> DEFINE d == [dev EXCEPT !.txHolding = @ \cup {"XOFF"}]
  <2>1. Keeps(dev, d)
    BY <1>1, <1>2, TxHoldingKeeps
  <2>2. Synchronize(StartLoweringIf(TRUE, d))
    BY <1>5 DEF PretendXoff
  <2> HIDE DEF d
  <2>3. Keeps(dev, StartLoweringIf(TRUE, d))
    BY <2>1, StartLoweringIfKeeps, KeepsIsTransitive DEF Keeps
  <2>4. QED
    BY <2>2, <2>3, SynchronizeIInv
<1>6. CASE PretendXon
  <2> DEFINE d == [dev EXCEPT !.txHolding = @ \ {"XOFF"}]
             restarts == d.txHolding = {} /\ Work(d)
  <2>1. Keeps(dev, d)
    BY <1>1, <1>2, TxHoldingKeeps
  <2>2. Synchronize(PokeIf(restarts, d))
    BY <1>6 DEF PretendXon
  <2> HIDE DEF d, restarts
  <2>3. Keeps(dev, PokeIf(restarts, d))
    BY <2>1, PokeIfKeeps, KeepsIsTransitive DEF Keeps
  <2>4. QED
    BY <2>2, <2>3, SynchronizeIInv
<1>7. CASE SetRTS
  BY <1>1, <1>7, RxHoldingKeeps, SynchronizeIInv DEF SetRTS
<1>8. CASE GetModemUpdate
  BY <1>1, <1>8, HandleModemUpdateKeeps, SynchronizeIInv DEF GetModemUpdate
<1>9. CASE SetHandFlow
  <2>1. PICK new \in HandFlows, error \in LineErrors :
          Synchronize(HandleModemUpdate(SetupNewHandFlow(dev, new, error), FALSE))
    BY <1>9 DEF SetHandFlow
  <2> DEFINE d == SetupNewHandFlow(dev, new, error)
  <2>2. Keeps(dev, d)
    BY <1>1, <2>1, HandFlowAssumption, SetupNewHandFlowKeeps
  <2> HIDE DEF d
  <2>3. Keeps(dev, HandleModemUpdate(d, FALSE))
    BY <2>2, HandleModemUpdateKeeps, KeepsIsTransitive DEF Keeps
  <2>4. QED
    BY <2>1, <2>3, SynchronizeIInv DEF d
<1>10. CASE TakeChars
  <2>1. PICK n \in 1 .. dev.charsInInterruptBuffer :
          Synchronize(HandleReducedIntBuffer([dev EXCEPT !.charsInInterruptBuffer = @ - n]))
    BY <1>10 DEF TakeChars
  <2> DEFINE d == [dev EXCEPT !.charsInInterruptBuffer = @ - n]
  <2>2. dev.charsInInterruptBuffer - n \in 0 .. BufferSize
    BY <1>1, SizeAssumption DEF Good, Device
  <2>3. Keeps(dev, d)
    BY <1>1, <2>2, CharsKeep
  <2> HIDE DEF d
  <2>4. Keeps(dev, HandleReducedIntBuffer(d))
    BY <2>3, HandleReducedIntBufferKeeps, KeepsIsTransitive DEF Keeps
  <2>5. QED
    BY <2>1, <2>4, SynchronizeIInv DEF d
<1>11. QED
  BY <1>3, <1>4, <1>5, <1>6, <1>7, <1>8, <1>9, <1>10

\* The path of execution that lowers RTS: each step moves one path, or ends it.
LEMMA PathsPreserve ==
  IInv /\ (StartTimerLowerRTS \/ LowerRTSTimerFires \/ InvokePerhapsLowerRTS) => IInv'
<1> SUFFICES ASSUME IInv,
                    StartTimerLowerRTS \/ LowerRTSTimerFires \/ InvokePerhapsLowerRTS
             PROVE IInv'
  OBVIOUS
<1>1. /\ Good(dev) /\ OtherPaths(dev) = TimerPaths
      /\ dev.countOfTryingToLowerRTS \in Nat
  BY IInvGood
<1>2. /\ lowerRTSTimer \in [set : BOOLEAN, due : BOOLEAN]
      /\ isr \in {"off", "loop", "end"}
  BY DEF IInv, TypeOK
<1>3. CASE StartTimerLowerRTS
  <2> DEFINE n == IF lowerRTSTimer.set THEN dev.countOfTryingToLowerRTS - 1
                                       ELSE dev.countOfTryingToLowerRTS
             e == [dev EXCEPT !.startTimerLowerRTSDpc = FALSE,
                              !.countOfTryingToLowerRTS = n]
  <2>1. dev.countOfTryingToLowerRTS = TimerPaths + 1
    BY <1>1, <1>3 DEF OtherPaths, TimerPaths, StartTimerLowerRTS
  <2>2. n \in Nat
    BY <1>1, <2>1 DEF TimerPaths
  <2>3. lowerRTSTimer'.set = TRUE /\ lowerRTSTimer'.due = lowerRTSTimer.due
    BY <1>2, <1>3 DEF StartTimerLowerRTS
  <2>4. n = TimerPaths'
    BY <2>1, <2>3 DEF TimerPaths
  <2> HIDE DEF n
  <2>5. e \in Device
    BY <1>1, <2>2, Zenon DEF Good, Device
  <2>6. /\ e.fifo = dev.fifo /\ e.thr = dev.thr
        /\ e.startTimerLowerRTSDpc = FALSE /\ e.countOfTryingToLowerRTS = n
    BY <1>1 DEF Good, Device
  <2>7. dev' = e
    BY <1>3 DEF StartTimerLowerRTS, n
  <2> HIDE DEF e
  <2>8. Good(e) /\ OtherPaths(e) = TimerPaths'
    <3>1. Good(e)
      BY <1>1, <2>5, <2>6 DEF Good
    <3>2. OtherPaths(e) = n
      BY <2>2, <2>6 DEF OtherPaths
    <3>3. QED
      BY <2>4, <3>1, <3>2, Zenon
  <2>9. /\ lowerRTSTimer' \in [set : BOOLEAN, due : BOOLEAN]
        /\ isr' \in {"off", "loop", "end"}
    BY <1>2, <1>3 DEF StartTimerLowerRTS
  <2>10. QED
    BY <2>7, <2>8, <2>9, GoodIInv
<1>4. CASE LowerRTSTimerFires
  <2>1. /\ lowerRTSTimer' \in [set : BOOLEAN, due : BOOLEAN]
        /\ isr' \in {"off", "loop", "end"} /\ dev' = dev
    BY <1>2, <1>4 DEF LowerRTSTimerFires
  <2>2. TimerPaths' = TimerPaths
    BY <1>4 DEF TimerPaths, LowerRTSTimerFires
  <2>3. QED
    BY <1>1, <2>1, <2>2, GoodIInv
<1>5. CASE InvokePerhapsLowerRTS
  <2>1. PICK error \in LineErrors : dev' = PerhapsLowerRTS(dev, error)
    BY <1>5 DEF InvokePerhapsLowerRTS
  <2>2. OtherPaths(dev) >= 1
    BY <1>1, <1>5 DEF TimerPaths, InvokePerhapsLowerRTS
  <2>3. Good(dev') /\ OtherPaths(dev') = OtherPaths(dev) - 1
    BY <1>1, <2>1, <2>2, PerhapsLowerRTSEndsPath
  <2>4. lowerRTSTimer'.due = FALSE /\ lowerRTSTimer'.set = lowerRTSTimer.set
    BY <1>2, <1>5 DEF InvokePerhapsLowerRTS
  <2>5. TimerPaths' = TimerPaths - 1
    BY <1>5, <2>4 DEF TimerPaths, InvokePerhapsLowerRTS
  <2>6. /\ lowerRTSTimer' \in [set : BOOLEAN, due : BOOLEAN]
        /\ isr' \in {"off", "loop", "end"}
    BY <1>2, <1>5 DEF InvokePerhapsLowerRTS
  <2>7. QED
    BY <1>1, <2>3, <2>5, <2>6, GoodIInv
<1>6. QED
  BY <1>3, <1>4, <1>5

\* The inductive invariant of the transmitter.
THEOREM SpecIInv == Spec => []IInv
<1>1. IInv /\ [Next]_vars => IInv'
  <2> SUFFICES ASSUME IInv, [Next]_vars PROVE IInv'
    OBVIOUS
  <2>1. CASE Next
    BY <2>1, ISRPreserves, UARTPreserves, WritesPreserve, EndWritePreserves,
       QueuePreserves, ControlsPreserve, PathsPreserve, Zenon DEF Next, Client
  <2>2. CASE UNCHANGED vars
    BY <2>2 DEF vars, IInv, TypeOK, NoOverrun, ThrAtTrigger, LowerRTSCount
  <2>3. QED
    BY <2>1, <2>2
<1>2. QED
  BY <1>1, InitIInv, PTL DEF Spec

\* Type correctness: no count of SerialISR or of the paths that lower RTS leaves
\* its range.
THEOREM SpecTypeOK == Spec => []TypeOK
  BY SpecIInv, PTL DEF IInv

\* The ISR never writes more than the transmit FIFO takes, whichever way it was
\* entered (isr.c, the transmit part of SerialISR).
THEOREM SpecNoOverrun == Spec => []NoOverrun
  BY SpecIInv, PTL DEF IInv

\* CountOfTryingToLowerRTS counts the DPC, the timer and the callback that are
\* under way, so that the close of the port, which waits for it to become zero,
\* leaves none behind.
THEOREM SpecLowerRTSCount == Spec => []LowerRTSCount
  BY SpecIInv, PTL DEF IInv

-----------------------------------------------------------------------------
(* The wakeups of the transmitter, the peer, and RTS.                      *)

\* The transmitter will interrupt: now, or when its FIFO has drained.
Woken(d) == d.thr \/ d.fifo > 0

\* HoldingEmpty may be stale, but in one direction only: while it is FALSE, an
\* interrupt that sets it is due.  What relies on it to poke may rely on that.
Restarts(d) == ~d.holdingEmpty => Woken(d)

\* What WakeupNotLost asks of a device outside SerialISR.
Awake(d) ==
  Work(d) /\ d.txHolding = {} /\ ~d.sendXonChar /\ ~d.sendXoffChar => Woken(d)

\* What PeerAgrees needs: at most one flow control character is pending, and a
\* pending Xoff is not sent unless the peer is to be held.
Told(d) ==
  /\ ~(d.sendXonChar /\ d.sendXoffChar)
  /\ d.sendXoffChar => "XOFF" \in d.rxHolding
  /\ d.sendXonChar \/ d.sendXoffChar \/ ("XOFF" \in d.rxHolding <=> d.told = "Xoff")

\* What HandshakeLine and RtsUpWhileSending need, in one mode of RTS: RTS is a
\* reason to hold under the handshake only.
LinesIn(mode, d) ==
  /\ "RTS" \in d.rxHolding => mode = "HANDSHAKE"
  /\ mode = "HANDSHAKE" => (d.rts <=> "RTS" \notin d.rxHolding)
  /\ mode = "TOGGLE" /\ ~HardwareEmpty(d) => d.rts

Lines(d) == LinesIn(d.handFlow.rts, d)

Sound(d) == Restarts(d) /\ Told(d) /\ Lines(d)

\* CTS is a reason to hold only where the setting says so.
CtsHeld(d) == "CTS" \in d.txHolding => d.handFlow.cts

\* A hold that CTS no longer justifies, though no interrupt will tell, does not last
\* while there is something to send: the transmit interrupt reads the line.  It comes
\* about when the line changes while the device is off.
StaleWoken(d) ==
  "CTS" \in d.txHolding /\ d.cts /\ ~d.ctsChanged
    /\ Work(d) /\ ~d.sendXonChar /\ ~d.sendXoffChar => Woken(d)

\* A routine that leads from d to e keeps each part by itself, so that what does
\* without one of them may rely on the others.
KeepsSound(d, e) ==
  /\ Restarts(d) => Restarts(e)
  /\ Told(d) => Told(e)
  /\ Lines(d) => Lines(e)
KeepsHold(d, e) ==
  /\ CtsHeld(d) => CtsHeld(e)
  /\ Restarts(d) /\ CtsHeld(d) /\ StaleWoken(d) => StaleWoken(e)
KeepsFlow(d, e) == KeepsSound(d, e) /\ KeepsHold(d, e)
KeepsAwake(d, e) == Restarts(d) /\ Awake(d) => Awake(e)
KeepsAll(d, e) == KeepsFlow(d, e) /\ KeepsAwake(d, e)

\* Inductive together with IInv.
FlowInv == Sound(dev) /\ (isr = "off" => Awake(dev))
-----------------------------------------------------------------------------
(* Routines that change none of this but for the better.                   *)

\* What the predicates above look at, but for the transmit interrupt and RTS.
SameFlow(d, e) ==
  /\ e.handFlow = d.handFlow /\ e.txHolding = d.txHolding /\ e.rxHolding = d.rxHolding
  /\ e.sendXonChar = d.sendXonChar /\ e.sendXoffChar = d.sendXoffChar
  /\ e.transmitImmediate = d.transmitImmediate /\ e.writeLength = d.writeLength
  /\ e.told = d.told /\ e.fifo = d.fifo /\ e.shifting = d.shifting
  /\ e.cts = d.cts /\ e.ctsChanged = d.ctsChanged

\* A routine that leads from d to e may raise an interrupt, read the line status, and
\* lower RTS when it toggles and the hardware is empty.
Calm(d, e) ==
  /\ SameFlow(d, e)
  /\ d.thr => e.thr
  /\ Restarts(d) => Restarts(e)
  /\ e.rts = d.rts \/ (~e.rts /\ Toggling(d) /\ HardwareEmpty(d))

\* Such a routine keeps what the invariant says.
LEMMA CalmSound ==
  ASSUME NEW d, NEW e, Calm(d, e)
  PROVE  /\ KeepsAll(d, e) /\ KeepsFlow(d, e)
         /\ Sound(d) => Sound(e)
         /\ Awake(d) => Awake(e)
         /\ Woken(d) => Woken(e)
<1>1. (Told(d) => Told(e)) /\ (Lines(d) => Lines(e)) /\ (Restarts(d) => Restarts(e))
  BY DEF Calm, SameFlow, Told, Lines, LinesIn, Toggling, HardwareEmpty
<1>2. /\ CtsHeld(d) => CtsHeld(e)
      /\ StaleWoken(d) => StaleWoken(e)
      /\ Awake(d) => Awake(e)
      /\ Woken(d) => Woken(e)
  BY DEF Calm, SameFlow, CtsHeld, StaleWoken, Awake, Woken, Work
<1>3. QED
  BY <1>1, <1>2 DEF KeepsAll, KeepsAwake, KeepsFlow, KeepsSound, KeepsHold, Sound

\* What keeps each part composes, and keeps them all.
LEMMA KeepsFlowIsTransitive ==
  ASSUME NEW d, NEW e, NEW f, KeepsFlow(d, e), KeepsFlow(e, f)
  PROVE  /\ KeepsFlow(d, f)
         /\ KeepsAwake(d, e) /\ KeepsAwake(e, f) => KeepsAwake(d, f)
  BY DEF KeepsFlow, KeepsSound, KeepsHold, KeepsAwake

LEMMA KeepsFlowItself ==
  ASSUME NEW d
  PROVE  KeepsFlow(d, d)
  BY DEF KeepsFlow, KeepsSound, KeepsHold

LEMMA KeepsAllIsTransitive ==
  ASSUME NEW d, NEW e, NEW f, KeepsAll(d, e), KeepsAll(e, f)
  PROVE  KeepsAll(d, f)
  BY KeepsFlowIsTransitive DEF KeepsAll

LEMMA KeepsFlowSound ==
  ASSUME NEW d, NEW e, KeepsSound(d, e), Sound(d)
  PROVE  Sound(e)
  BY DEF KeepsSound, Sound

\* Such routines compose.
LEMMA CalmIsTransitive ==
  ASSUME NEW d, NEW e, NEW f, Calm(d, e), Calm(e, f)
  PROVE  Calm(d, f)
  BY DEF Calm, SameFlow, Toggling, HardwareEmpty

\* So does doing nothing.
LEMMA CalmItself ==
  ASSUME NEW d
  PROVE  Calm(d, d)
  BY DEF Calm, SameFlow

\* A write is done, and WriteQueue may have become idle.
LEMMA WriteDoneIsCalm ==
  ASSUME NEW d, Good(d), NEW write \in BOOLEAN, NEW queued \in BOOLEAN
  PROVE  Calm(d, [d EXCEPT !.currentWrite = write, !.writesQueued = queued])
<1> DEFINE e == [d EXCEPT !.currentWrite = write, !.writesQueued = queued]
<1>1. /\ SameFlow(d, e) /\ e.rts = d.rts /\ e.holdingEmpty = d.holdingEmpty
      /\ e.thr = d.thr
  BY DEF Good, Device, SameFlow
<1> HIDE DEF e
<1>2. Calm(d, e)
  BY <1>1 DEF Calm, SameFlow, Restarts, Woken
<1>3. QED
  BY <1>2 DEF e

\* The poke.
LEMMA PokeIsCalm ==
  ASSUME NEW d, Good(d)
  PROVE  Calm(d, Poke(d)) /\ Woken(Poke(d))
<1> DEFINE e == Poke(d)
<1>1. SameFlow(d, e) /\ e.rts = d.rts /\ e.holdingEmpty = d.holdingEmpty
  BY DEF Good, Device, Poke, SameFlow
<1>2. e.thr = (d.thr \/ d.fifo <= TxTrigger) /\ e.fifo = d.fifo /\ d.fifo \in Nat
  BY DEF Good, Device, Poke
<1>3. d.fifo <= TxTrigger \/ d.fifo > 0
  BY <1>2, SizeAssumption
<1> HIDE DEF e
<1>4. Woken(e) /\ (d.thr => e.thr)
  BY <1>2, <1>3, Zenon DEF Woken
<1>5. Calm(d, e) /\ Woken(e)
  BY <1>1, <1>4, Zenon DEF Calm, Restarts
<1>6. QED
  BY <1>5 DEF e

\* A routine that restarts transmission may rely on HoldingEmpty.
LEMMA PokeIfIsCalm ==
  ASSUME NEW d, Good(d), NEW condition
  PROVE  /\ Calm(d, PokeIf(condition, d))
         /\ condition /\ Restarts(d) => Woken(PokeIf(condition, d))
  BY PokeIsCalm, CalmItself DEF PokeIf, Restarts

\* The DPC that starts the timer.
LEMMA StartLoweringIsCalm ==
  ASSUME NEW d, Good(d)
  PROVE  Calm(d, StartLowering(d))
<1> DEFINE e == [d EXCEPT !.startTimerLowerRTSDpc = TRUE,
                          !.countOfTryingToLowerRTS = @ + 1]
<1>1. /\ SameFlow(d, e) /\ e.rts = d.rts /\ e.holdingEmpty = d.holdingEmpty
      /\ e.thr = d.thr
  BY DEF Good, Device, SameFlow
<1>2. Calm(d, e)
  BY <1>1 DEF Calm, SameFlow, Restarts, Woken
<1>3. QED
  BY <1>2, CalmItself DEF StartLowering

\* The same, only when toggling.
LEMMA StartLoweringIfIsCalm ==
  ASSUME NEW d, Good(d), NEW condition
  PROVE  Calm(d, StartLoweringIf(condition, d))
  BY StartLoweringIsCalm, CalmItself DEF StartLoweringIf

\* Reading the line status makes HoldingEmpty agree with the FIFO.
LEMMA ProcessLSRIsCalm ==
  ASSUME NEW d, Good(d), NEW error
  PROVE  Calm(d, ProcessLSR(d, error))
<1> DEFINE read == [d EXCEPT !.holdingEmpty = (d.fifo = 0)]
<1>1. /\ SameFlow(d, read) /\ read.rts = d.rts /\ read.thr = d.thr
      /\ read.holdingEmpty = (d.fifo = 0) /\ d.fifo \in Nat /\ read.fifo = d.fifo
  BY DEF Good, Device, SameFlow
<1>2. Calm(d, read)
  <2>1. d.fifo = 0 \/ d.fifo > 0
    BY <1>1
  <2> HIDE DEF read
  <2>2. Restarts(read)
    BY <1>1, <2>1, Zenon DEF Restarts, Woken
  <2>3. QED
    BY <1>1, <2>2, Zenon DEF Calm
<1>3. SameFifoAndCount(d, read) /\ read \in Device
  <2>1. (d.fifo = 0) \in BOOLEAN
    OBVIOUS
  <2>2. read \in Device
    BY <2>1, Zenon DEF Good, Device
  <2>3. QED
    BY <2>2 DEF Good, Device, SameFifoAndCount
<1>4. Good(read)
  BY <1>3, SameKeeps DEF Keeps
<1>5. Calm(d, Poke(read))
  BY <1>2, <1>4, PokeIsCalm, CalmIsTransitive
<1>6. QED
  BY <1>2, <1>5 DEF ProcessLSR

\* SerialPerhapsLowerRTS lowers RTS only when the hardware is empty.
LEMMA PerhapsLowerRTSIsCalm ==
  ASSUME NEW d, Good(d), OtherPaths(d) >= 1, NEW error
  PROVE  Calm(d, PerhapsLowerRTS(d, error))
<1> DEFINE checked == ProcessLSR(d, error)
           lowered == [checked EXCEPT !.rts = FALSE]
           done == IF ~Toggling(d) \/ "BREAK" \in d.txHolding \/ WritesPending(d) THEN d
                   ELSE IF HardwareEmpty(d) THEN lowered ELSE StartLowering(checked)
           e == [done EXCEPT !.countOfTryingToLowerRTS = @ - 1]
<1>1. Calm(d, checked) /\ Good(checked)
  BY ProcessLSRIsCalm, ProcessLSRKeeps DEF Keeps
<1> HIDE DEF checked
<1>2. lowered \in Device
  BY <1>1, Zenon DEF Good, Device
<1>3. /\ SameFlow(checked, lowered) /\ lowered.thr = checked.thr
      /\ lowered.holdingEmpty = checked.holdingEmpty /\ lowered.rts = FALSE
  BY <1>1 DEF Good, Device, SameFlow
<1>4. Toggling(d) /\ HardwareEmpty(d) => Calm(d, lowered)
  BY <1>1, <1>3 DEF Calm, SameFlow, Restarts, Woken
<1>5. Calm(d, StartLowering(checked)) /\ StartLowering(checked) \in Device
  BY <1>1, StartLoweringIsCalm, StartLoweringKeeps, CalmIsTransitive DEF Keeps, Good
<1> HIDE DEF lowered
<1>6. Calm(d, done) /\ done \in Device
  BY <1>2, <1>4, <1>5, CalmItself DEF Good
<1> HIDE DEF done
<1>7. /\ SameFlow(done, e) /\ e.thr = done.thr /\ e.rts = done.rts
      /\ e.holdingEmpty = done.holdingEmpty
  BY <1>6 DEF Device, SameFlow
<1>8. Calm(done, e)
  BY <1>7 DEF Calm, SameFlow, Restarts, Woken
<1>9. Calm(d, e)
  BY <1>6, <1>8, CalmIsTransitive
<1>10. PerhapsLowerRTS(d, error) = e
  BY DEF PerhapsLowerRTS, checked, lowered, done
<1>11. QED
  BY <1>9, <1>10

\* The same, by a caller that enters its path of execution in the count.
LEMMA TryToLowerRTSIsCalm ==
  ASSUME NEW d, Good(d), OtherPaths(d) >= 0, NEW error
  PROVE  Calm(d, TryToLowerRTS(d, error))
<1> DEFINE e == [d EXCEPT !.countOfTryingToLowerRTS = @ + 1]
<1>1. d.countOfTryingToLowerRTS + 1 \in Nat /\ d.countOfTryingToLowerRTS \in Nat
  BY DEF Good, Device
<1>2. e \in Device
  BY <1>1, Zenon DEF Good, Device
<1>3. /\ e.fifo = d.fifo /\ e.thr = d.thr
      /\ e.startTimerLowerRTSDpc = d.startTimerLowerRTSDpc
      /\ e.countOfTryingToLowerRTS = d.countOfTryingToLowerRTS + 1
  BY DEF Good, Device
<1>4. /\ SameFlow(d, e) /\ e.rts = d.rts /\ e.holdingEmpty = d.holdingEmpty
  BY DEF Good, Device, SameFlow
<1> HIDE DEF e
<1>5. Good(e) /\ OtherPaths(e) >= 1
  BY <1>1, <1>2, <1>3 DEF Good, OtherPaths
<1>6. Calm(d, e)
  BY <1>3, <1>4 DEF Calm, SameFlow, Restarts, Woken
<1>7. Calm(e, PerhapsLowerRTS(e, error))
  BY <1>5, PerhapsLowerRTSIsCalm
<1>8. QED
  BY <1>6, <1>7, CalmIsTransitive DEF TryToLowerRTS, e

-----------------------------------------------------------------------------
(* Reading the modem lines.                                                *)

\* What there is to send, and what is in the FIFO.
SameWork(d, e) ==
  /\ e.sendXonChar = d.sendXonChar /\ e.sendXoffChar = d.sendXoffChar
  /\ e.transmitImmediate = d.transmitImmediate /\ e.writeLength = d.writeLength
  /\ e.fifo = d.fifo

\* CTS is a reason to hold as the line and the setting say now.
CtsRead(d) == "CTS" \in d.txHolding => d.handFlow.cts /\ ~d.cts

\* Only the reasons to hold transmission change, and nothing that may be sent now is
\* left without an interrupt, unless the transmit code itself calls.
LEMMA HandleModemUpdateSound ==
  ASSUME NEW d, Good(d), NEW doingTX \in BOOLEAN
  PROVE  LET e == HandleModemUpdate(d, doingTX) IN
         /\ SameWork(d, e)
         /\ KeepsSound(d, e)
         /\ Restarts(d) /\ Awake(d) /\ ~doingTX => Awake(e)
         /\ CtsRead(e) /\ CtsHeld(e) /\ StaleWoken(e)
<1> DEFINE holds == d.handFlow.cts /\ ~d.cts
           holding == IF holds THEN d.txHolding \cup {"CTS"} ELSE d.txHolding \ {"CTS"}
           read == [d EXCEPT !.ctsChanged = FALSE, !.txHolding = holding]
           lowered == StartLoweringIf(d.txHolding = {} /\ read.txHolding # {}, read)
           restarts == ~doingTX /\ d.txHolding # {} /\ read.txHolding = {} /\ Work(d)
           e == PokeIf(restarts, lowered)
<1>1. /\ holding \in SUBSET {"XOFF", "CTS", "BREAK"}
      /\ "CTS" \in holding => d.handFlow.cts /\ ~d.cts
  BY DEF Good, Device
<1> HIDE DEF holding
<1>2. read \in Device
  BY <1>1, Zenon DEF Good, Device
<1>3. SameFifoAndCount(d, read)
  BY DEF Good, Device, SameFifoAndCount
<1>4. Good(read)
  BY <1>2, <1>3, SameKeeps DEF Keeps
<1>5. /\ read.handFlow = d.handFlow /\ read.rxHolding = d.rxHolding
      /\ read.sendXonChar = d.sendXonChar /\ read.sendXoffChar = d.sendXoffChar
      /\ read.transmitImmediate = d.transmitImmediate /\ read.writeLength = d.writeLength
      /\ read.told = d.told /\ read.fifo = d.fifo /\ read.shifting = d.shifting
      /\ read.thr = d.thr /\ read.rts = d.rts /\ read.holdingEmpty = d.holdingEmpty
      /\ read.txHolding = holding /\ read.cts = d.cts
  BY DEF Good, Device
<1> HIDE DEF read
<1>6. Calm(read, lowered) /\ Good(lowered)
  BY <1>4, StartLoweringIfIsCalm, StartLoweringIfKeeps DEF Keeps
<1> HIDE DEF lowered
<1>7. /\ Restarts(d) => Restarts(read)
      /\ Restarts(read) => Restarts(lowered)
  <2>1. Restarts(d) => Restarts(read)
    BY <1>5 DEF Restarts, Woken
  <2>2. QED
    BY <1>6, <2>1 DEF Calm
<1>8. Calm(read, e) /\ (restarts /\ Restarts(d) => Woken(e)) /\ e \in Device
  <2>1. /\ Calm(lowered, e) /\ (restarts /\ Restarts(lowered) => Woken(e))
        /\ e \in Device
    BY <1>6, PokeIfIsCalm, PokeIfKeeps DEF Keeps, Good
  <2>2. QED
    BY <1>6, <1>7, <2>1, CalmIsTransitive
<1> HIDE DEF restarts
<1>9. e = HandleModemUpdate(d, doingTX)
  BY DEF HandleModemUpdate, lowered, read, holding, restarts
<1> HIDE DEF e
<1>10. KeepsSound(d, e)
  <2>1. /\ Told(d) => Told(read)
        /\ Lines(d) => Lines(read)
    BY <1>5 DEF Told, Lines, LinesIn, HardwareEmpty
  <2>2. KeepsSound(read, e)
    BY <1>8, CalmSound DEF KeepsFlow
  <2>3. QED
    BY <1>7, <2>1, <2>2 DEF KeepsSound
<1>11. Restarts(d) /\ Awake(d) /\ ~doingTX => Awake(e)
  <2>1. CASE restarts
    BY <1>8, <2>1 DEF Awake
  <2>2. CASE ~restarts
    <3>1. Awake(d) /\ ~doingTX => Awake(read)
      BY <1>5, <2>2 DEF Awake, Work, Woken, restarts
    <3>2. QED
      BY <1>8, <3>1, CalmSound
  <2>3. QED
    BY <2>1, <2>2
<1>12. SameWork(d, e)
  BY <1>5, <1>8 DEF Calm, SameFlow, SameWork
<1>13. CtsRead(e)
  BY <1>1, <1>5, <1>8 DEF Calm, SameFlow, CtsRead
<1>14. CtsHeld(e) /\ StaleWoken(e)
  BY <1>13 DEF CtsRead, CtsHeld, StaleWoken
<1>15. QED
  BY <1>9, <1>10, <1>11, <1>12, <1>13, <1>14

-----------------------------------------------------------------------------
(* What the transmit interrupt sends.                                      *)

\* A routine that leads from d to e puts something into the FIFO, with RTS up when
\* toggling.
Sent(d, e) ==
  /\ e.handFlow = d.handFlow /\ e.txHolding = d.txHolding /\ e.rxHolding = d.rxHolding
  /\ e.sendXonChar = d.sendXonChar /\ e.sendXoffChar = d.sendXoffChar /\ e.told = d.told
  /\ e.fifo > 0
  /\ e.rts <=> d.rts \/ Toggling(d)

LEMMA TransmitSends ==
  ASSUME NEW d, Good(d), NEW n \in Nat, n > 0, d.fifo + n <= Depth
  PROVE  Sent(d, Transmit(d, n)) /\ Good(Transmit(d, n))
<1> DEFINE line == d.rts \/ Toggling(d)
           t == [d EXCEPT !.fifo = @ + n, !.thr = FALSE, !.holdingEmpty = FALSE,
                          !.rts = line]
           e == StartLoweringIf(TRUE, t)
<1>1. d.fifo \in Nat /\ d.fifo + n \in Nat /\ d.fifo + n > 0
  BY DEF Good, Device
<1>2. line \in BOOLEAN
  OBVIOUS
<1> HIDE DEF line
<1>3. t \in Device
  BY <1>1, <1>2, Zenon DEF Good, Device
<1>4. /\ t.handFlow = d.handFlow /\ t.txHolding = d.txHolding /\ t.rxHolding = d.rxHolding
      /\ t.sendXonChar = d.sendXonChar /\ t.sendXoffChar = d.sendXoffChar
      /\ t.told = d.told /\ t.fifo = d.fifo + n /\ t.thr = FALSE /\ t.rts = line
  BY DEF Good, Device
<1> HIDE DEF t
<1>5. Good(t)
  BY <1>3, <1>4 DEF Good
<1>6. Calm(t, e)
  BY <1>5, StartLoweringIfIsCalm
<1>7. e.rts = t.rts
  BY <1>3 DEF StartLoweringIf, StartLowering, Device
<1>8. e = Transmit(d, n)
  BY DEF Transmit, t, line
<1> HIDE DEF e
<1>9. Sent(d, e)
  BY <1>1, <1>4, <1>6, <1>7 DEF Calm, SameFlow, Sent, line
<1>10. QED
  BY <1>8, <1>9, TransmitKeeps DEF Keeps

\* What holds of the device after a routine that has sent something: the FIFO will
\* interrupt, so nothing else is needed for a wakeup.
Sends(d, e) == KeepsFlow(d, e) /\ Restarts(e) /\ StaleWoken(e)

\* After it, all that is left to show is that the peer was told.
LEMMA SentSound ==
  ASSUME NEW d, NEW e, Told(d) => Told(e), e.fifo > 0, e.handFlow = d.handFlow,
         "RTS" \in e.rxHolding <=> "RTS" \in d.rxHolding,
         "CTS" \in e.txHolding <=> "CTS" \in d.txHolding,
         e.rts <=> d.rts \/ Toggling(d)
  PROVE  Sends(d, e)
<1>1. Woken(e)
  BY DEF Woken
<1>2. Lines(d) => Lines(e)
  BY DEF Lines, LinesIn, Toggling
<1>3. CtsHeld(d) => CtsHeld(e)
  BY DEF CtsHeld
<1>4. QED
  BY <1>1, <1>2, <1>3 DEF Sends, KeepsFlow, KeepsSound, KeepsHold, Restarts, StaleWoken

\* A flow control or an immediate character, which is pending.
LEMMA SendOneSound ==
  ASSUME NEW d, Good(d), d.fifo < Depth
  PROVE  /\ d.sendXonChar => Sends(d, SendXon(d))
         /\ d.sendXoffChar => Sends(d, SendXoff(d))
         /\ Sends(d, SendImmediate(d))
<1> DEFINE t == Transmit(d, 1)
<1>1. Sent(d, t) /\ Good(t)
  <2>1. d.fifo + 1 <= Depth
    BY SizeAssumption DEF Good, Device
  <2>2. QED
    BY <2>1, TransmitSends
<1> HIDE DEF t
<1>2. ASSUME d.sendXonChar PROVE Sends(d, SendXon(d))
  <2> DEFINE e == [t EXCEPT !.sendXonChar = FALSE, !.told = "Xon",
                            !.txHolding = @ \ {"XOFF"}, !.rxHolding = @ \ {"XOFF"}]
  <2>1. /\ e.handFlow = t.handFlow /\ e.fifo = t.fifo /\ e.rts = t.rts
        /\ e.sendXonChar = FALSE /\ e.sendXoffChar = t.sendXoffChar /\ e.told = "Xon"
        /\ e.rxHolding = t.rxHolding \ {"XOFF"} /\ e.txHolding = t.txHolding \ {"XOFF"}
    BY <1>1 DEF Good, Device
  <2>2. SendXon(d) = e
    BY DEF SendXon, t
  <2> HIDE DEF e
  <2>3. Told(d) => Told(e)
    BY <1>1, <1>2, <2>1 DEF Told, Sent
  <2>4. QED
    BY <1>1, <2>1, <2>2, <2>3, SentSound DEF Sent
<1>3. ASSUME d.sendXoffChar PROVE Sends(d, SendXoff(d))
  <2> DEFINE held == IF d.handFlow.xoffContinue THEN t.txHolding ELSE t.txHolding \cup {"XOFF"}
             e == [t EXCEPT !.sendXoffChar = FALSE, !.told = "Xoff", !.txHolding = held]
  <2>1. SendXoff(d) = e /\ ("CTS" \in held <=> "CTS" \in t.txHolding)
    BY DEF SendXoff, t
  <2> HIDE DEF held
  <2>2. /\ e.handFlow = t.handFlow /\ e.fifo = t.fifo /\ e.rts = t.rts
        /\ e.sendXonChar = t.sendXonChar /\ e.sendXoffChar = FALSE /\ e.told = "Xoff"
        /\ e.rxHolding = t.rxHolding /\ e.txHolding = held
    BY <1>1 DEF Good, Device
  <2> HIDE DEF e
  <2>3. Told(d) => Told(e)
    BY <1>1, <1>3, <2>2 DEF Told, Sent
  <2>4. QED
    BY <1>1, <2>1, <2>2, <2>3, SentSound DEF Sent
<1>4. Sends(d, SendImmediate(d))
  <2> DEFINE e == [t EXCEPT !.transmitImmediate = FALSE]
  <2>1. /\ e.handFlow = t.handFlow /\ e.fifo = t.fifo /\ e.rts = t.rts
        /\ e.sendXonChar = t.sendXonChar /\ e.sendXoffChar = t.sendXoffChar
        /\ e.told = t.told /\ e.rxHolding = t.rxHolding /\ e.txHolding = t.txHolding
    BY <1>1 DEF Good, Device
  <2>2. SendImmediate(d) = e
    BY DEF SendImmediate, t
  <2> HIDE DEF e
  <2>3. Told(d) => Told(e)
    BY <1>1, <2>1 DEF Told, Sent
  <2>4. QED
    BY <1>1, <2>1, <2>2, <2>3, SentSound DEF Sent
<1>5. QED
  BY <1>2, <1>3, <1>4

\* Some of a write that is not empty, into a FIFO that is not full.
LEMMA SendWriteSound ==
  ASSUME NEW d, Good(d), d.fifo < Depth, d.writeLength > 0
  PROVE  Sends(d, SendWrite(d))
<1> DEFINE n == AmountToWrite(d)
           t == Transmit(d, n)
           e == [t EXCEPT !.writeLength = @ - n]
<1>1. n \in Nat /\ n > 0 /\ d.fifo + n <= Depth
  BY SizeAssumption DEF Good, Device, AmountToWrite
<1> HIDE DEF n
<1>2. Sent(d, t) /\ Good(t)
  BY <1>1, TransmitSends
<1> HIDE DEF t
<1>3. /\ e.handFlow = t.handFlow /\ e.fifo = t.fifo /\ e.rts = t.rts
      /\ e.sendXonChar = t.sendXonChar /\ e.sendXoffChar = t.sendXoffChar
      /\ e.told = t.told /\ e.rxHolding = t.rxHolding /\ e.txHolding = t.txHolding
  BY <1>2 DEF Good, Device
<1>4. SendWrite(d) = e
  BY DEF SendWrite, t, n
<1> HIDE DEF e
<1>5. Told(d) => Told(e)
  BY <1>2, <1>3 DEF Told, Sent
<1>6. QED
  BY <1>2, <1>3, <1>4, <1>5, SentSound DEF Sent

\* The transmit interrupt: what was a transmit interrupt may have become work in the
\* FIFO, so Restarts is not assumed; and the CTS line has been read.
LEMMA TransmitStuffSound ==
  ASSUME NEW d, Good(d), d.fifo <= TxTrigger
  PROVE  LET e == TransmitStuff(d) IN
         /\ KeepsSound(d, e) /\ Restarts(e)
         /\ CtsHeld(d) => CtsHeld(e) /\ StaleWoken(e)
<1> DEFINE empty == [d EXCEPT !.holdingEmpty = TRUE]
           e == IF d.handFlow.cts THEN HandleModemUpdate(empty, TRUE) ELSE empty
           After(f) == /\ KeepsSound(d, f) /\ Restarts(f)
                       /\ CtsHeld(d) => CtsHeld(f) /\ StaleWoken(f)
<1>1. /\ empty.handFlow = d.handFlow /\ empty.fifo = d.fifo /\ empty.rts = d.rts
      /\ empty.rxHolding = d.rxHolding /\ empty.shifting = d.shifting
      /\ empty.told = d.told /\ empty.holdingEmpty = TRUE /\ SameWork(d, empty)
      /\ empty.txHolding = d.txHolding
  BY DEF Good, Device, SameWork
<1>2. Keeps(d, empty)
  <2>1. empty \in Device
    BY Zenon DEF Good, Device
  <2>2. SameFifoAndCount(d, empty)
    BY DEF Good, Device, SameFifoAndCount
  <2>3. QED
    BY <2>1, <2>2, SameKeeps
<1> HIDE DEF empty
<1>3. KeepsSound(d, empty) /\ Restarts(empty) /\ (CtsHeld(d) => CtsHeld(empty))
  BY <1>1 DEF KeepsSound, Restarts, Told, Lines, LinesIn, HardwareEmpty, SameWork, CtsHeld
<1>4. After(e) /\ SameWork(d, e) /\ Good(e)
  <2>1. CASE d.handFlow.cts
    <3>1. LET h == HandleModemUpdate(empty, TRUE) IN
          /\ KeepsSound(empty, h) /\ SameWork(empty, h) /\ Good(h)
          /\ CtsHeld(h) /\ StaleWoken(h)
      BY <1>2, HandleModemUpdateSound, HandleModemUpdateKeeps DEF Keeps
    <3> HIDE DEF e
    <3>2. e = HandleModemUpdate(empty, TRUE)
      BY <2>1 DEF e
    <3>3. QED
      BY <1>1, <1>3, <3>1, <3>2 DEF SameWork, KeepsSound
  <2>2. CASE ~d.handFlow.cts
    <3>1. e = empty
      BY <2>2
    <3>2. CtsHeld(d) => StaleWoken(empty)
      BY <1>1, <2>2 DEF CtsHeld, StaleWoken
    <3> HIDE DEF e
    <3>3. QED
      BY <1>1, <1>2, <1>3, <3>1, <3>2 DEF Keeps
  <2>3. QED
    BY <2>1, <2>2
<1> HIDE DEF e
<1>5. e.fifo < Depth
  BY <1>4, SizeAssumption DEF SameWork, Good, Device
<1>6. /\ e.sendXonChar => Sends(e, SendXon(e))
      /\ e.sendXoffChar => Sends(e, SendXoff(e))
      /\ Sends(e, SendImmediate(e))
      /\ e.writeLength > 0 => Sends(e, SendWrite(e))
  BY <1>4, <1>5, SendOneSound, SendWriteSound
<1>7. ASSUME NEW f, Sends(e, f) PROVE After(f)
  BY <1>4, <1>7 DEF Sends, KeepsFlow, KeepsSound, KeepsHold
<1>8. CASE ~Work(d) /\ ~d.sendXonChar /\ ~d.sendXoffChar
  <2>1. StaleWoken(empty)
    BY <1>1, <1>8 DEF StaleWoken, Work, SameWork
  <2>2. TransmitStuff(d) = empty
    BY <1>8 DEF TransmitStuff, empty
  <2>3. QED
    BY <1>3, <2>1, <2>2
<1>9. CASE Work(d) \/ d.sendXonChar \/ d.sendXoffChar
  <2>1. TransmitStuff(d) =
          IF e.sendXonChar /\ e.txHolding \subseteq {"XOFF"} THEN SendXon(e)
          ELSE IF e.sendXoffChar /\ e.txHolding = {} THEN SendXoff(e)
          ELSE IF e.transmitImmediate /\ e.txHolding \subseteq {"XOFF"} THEN SendImmediate(e)
          ELSE IF e.txHolding = {} THEN SendWrite(e)
          ELSE e
    BY <1>9 DEF TransmitStuff, e, empty
  <2>2. e.txHolding = {} => e.sendXonChar \/ e.sendXoffChar \/ e.transmitImmediate
                            \/ e.writeLength > 0
    BY <1>4, <1>9 DEF Work, SameWork
  <2>3. e.txHolding = {} => e.txHolding \subseteq {"XOFF"}
    OBVIOUS
  <2>4. TransmitStuff(d) = e \/ Sends(e, TransmitStuff(d))
    BY <1>6, <2>1, <2>2, <2>3
  <2> HIDE DEF After
  <2>5. After(TransmitStuff(d))
    BY <1>4, <1>7, <2>4
  <2>6. QED
    BY <2>5 DEF After
<1>10. QED
  BY <1>8, <1>9

-----------------------------------------------------------------------------
(* Flow control of the receiver.                                           *)

\* Asking for an Xon or Xoff character: the character becomes pending, and an Xoff
\* is asked for only when the peer is to be held.
LEMMA ProdXonXoffSound ==
  ASSUME NEW d, Good(d), NEW sendXon \in BOOLEAN, sendXon \/ "XOFF" \in d.rxHolding
  PROVE  LET e == ProdXonXoff(d, sendXon) IN
         /\ Restarts(d) => Restarts(e)
         /\ Told(e) /\ Awake(e) /\ StaleWoken(e)
         /\ e.handFlow = d.handFlow /\ e.txHolding = d.txHolding
         /\ \A mode : LinesIn(mode, d) => LinesIn(mode, e)
<1> DEFINE poked == PokeIf(~d.sendXonChar /\ ~d.sendXoffChar, d)
           opposite == ~sendXon
           e == [poked EXCEPT !.sendXonChar = sendXon, !.sendXoffChar = opposite]
<1>1. Calm(d, poked) /\ Good(poked)
  BY PokeIfIsCalm, PokeIfKeeps DEF Keeps
<1>2. poked.rts = d.rts
  BY DEF Good, Device, PokeIf, Poke
<1>3. Restarts(d) => Restarts(poked)
  BY <1>1 DEF Calm
<1>4. e = ProdXonXoff(d, sendXon)
  BY DEF ProdXonXoff
<1> HIDE DEF poked, opposite
<1>5. /\ e.handFlow = poked.handFlow /\ e.rxHolding = poked.rxHolding
      /\ e.fifo = poked.fifo /\ e.shifting = poked.shifting /\ e.rts = poked.rts
      /\ e.thr = poked.thr /\ e.holdingEmpty = poked.holdingEmpty
      /\ e.txHolding = poked.txHolding
      /\ e.sendXonChar = sendXon /\ e.sendXoffChar = opposite
  BY <1>1 DEF Good, Device
<1> HIDE DEF e
<1>6. e.sendXonChar <=> ~e.sendXoffChar
  BY <1>5, Zenon DEF opposite
<1>7. Restarts(d) => Restarts(e)
  BY <1>3, <1>5 DEF Restarts, Woken
<1>8. Told(e)
  BY <1>1, <1>5, <1>6 DEF Told, Calm, SameFlow
<1>9. Awake(e) /\ StaleWoken(e)
  BY <1>6 DEF Awake, StaleWoken
<1>10. ASSUME NEW mode, LinesIn(mode, d) PROVE LinesIn(mode, e)
  BY <1>1, <1>2, <1>5, <1>10 DEF LinesIn, Calm, SameFlow, HardwareEmpty
<1>11. e.handFlow = d.handFlow /\ e.txHolding = d.txHolding
  BY <1>1, <1>5 DEF Calm, SameFlow
<1>12. QED
  BY <1>4, <1>7, <1>8, <1>9, <1>10, <1>11

\* A step that touches only fields the invariant does not speak of.
LEMMA CharsCalm ==
  ASSUME NEW d, Good(d), NEW n
  PROVE  Calm(d, [d EXCEPT !.charsInInterruptBuffer = n])
<1> DEFINE e == [d EXCEPT !.charsInInterruptBuffer = n]
<1>1. SameFlow(d, e) /\ e.rts = d.rts /\ e.holdingEmpty = d.holdingEmpty /\ e.thr = d.thr
  BY DEF Good, Device, SameFlow
<1> HIDE DEF e
<1>2. Calm(d, e)
  BY <1>1 DEF Calm, SameFlow, Restarts, Woken
<1>3. QED
  BY <1>2 DEF e

\* RTS and its reason to hold the peer, together.
LEMMA RtsSound ==
  ASSUME NEW d, Good(d), NEW holding \in SUBSET {"XOFF", "RTS"}, NEW line \in BOOLEAN,
         "XOFF" \in holding <=> "XOFF" \in d.rxHolding,
         Lines(d) => d.handFlow.rts = "HANDSHAKE" /\ (line <=> "RTS" \notin holding)
  PROVE  LET e == [d EXCEPT !.rxHolding = holding, !.rts = line] IN
         /\ KeepsFlow(d, e) /\ (Awake(d) => Awake(e))
<1> DEFINE e == [d EXCEPT !.rxHolding = holding, !.rts = line]
<1>1. /\ e.handFlow = d.handFlow /\ e.txHolding = d.txHolding /\ e.rxHolding = holding
      /\ e.sendXonChar = d.sendXonChar /\ e.sendXoffChar = d.sendXoffChar
      /\ e.transmitImmediate = d.transmitImmediate /\ e.writeLength = d.writeLength
      /\ e.told = d.told /\ e.fifo = d.fifo /\ e.shifting = d.shifting
      /\ e.thr = d.thr /\ e.rts = line /\ e.holdingEmpty = d.holdingEmpty
      /\ e.cts = d.cts /\ e.ctsChanged = d.ctsChanged
  BY DEF Good, Device
<1> HIDE DEF e
<1>2. (Restarts(d) => Restarts(e)) /\ (Told(d) => Told(e))
  BY <1>1 DEF Restarts, Woken, Told
<1>3. Lines(d) => Lines(e)
  BY <1>1 DEF Lines, LinesIn
<1>4. (Awake(d) => Awake(e)) /\ (CtsHeld(d) => CtsHeld(e)) /\ (StaleWoken(d) => StaleWoken(e))
  BY <1>1 DEF Awake, CtsHeld, StaleWoken, Work, Woken
<1>5. QED
  BY <1>2, <1>3, <1>4 DEF KeepsFlow, KeepsSound, KeepsHold, e

\* Xoff as a reason to hold the peer, before its character is asked for.
LEMMA HoldXoffLines ==
  ASSUME NEW d, Good(d), NEW holding \in SUBSET {"XOFF", "RTS"},
         "RTS" \in holding <=> "RTS" \in d.rxHolding
  PROVE  LET e == [d EXCEPT !.rxHolding = holding] IN
         /\ Restarts(d) => Restarts(e)
         /\ e.handFlow = d.handFlow /\ e.rxHolding = holding /\ e.txHolding = d.txHolding
         /\ \A mode : LinesIn(mode, d) => LinesIn(mode, e)
<1> DEFINE e == [d EXCEPT !.rxHolding = holding]
<1>1. /\ e.handFlow = d.handFlow /\ e.rxHolding = holding /\ e.txHolding = d.txHolding
      /\ e.fifo = d.fifo /\ e.shifting = d.shifting /\ e.rts = d.rts
      /\ e.thr = d.thr /\ e.holdingEmpty = d.holdingEmpty
  BY DEF Good, Device
<1> HIDE DEF e
<1>2. QED
  BY <1>1 DEF LinesIn, Restarts, Woken, HardwareEmpty, e

\* SerialPutChar.
LEMMA PutCharSound ==
  ASSUME NEW d, Good(d)
  PROVE  KeepsFlow(d, PutChar(d))
<1> DEFINE full == d.handFlow.rts = "HANDSHAKE" /\ AlmostFull(d)
           stops == d.handFlow.autoReceive /\ "XOFF" \notin d.rxHolding /\ AlmostFull(d)
           line == d.rts /\ "RTS" \in d.rxHolding
           withRTS == [d EXCEPT !.rxHolding = @ \cup {"RTS"}, !.rts = line]
           lines == IF full THEN withRTS ELSE d
           withXoff == [lines EXCEPT !.rxHolding = @ \cup {"XOFF"}]
           held == IF stops THEN ProdXonXoff(withXoff, FALSE) ELSE lines
           n == IF held.charsInInterruptBuffer < BufferSize
                  THEN held.charsInInterruptBuffer + 1 ELSE held.charsInInterruptBuffer
<1>1. d.rxHolding \cup {"RTS"} \in SUBSET {"XOFF", "RTS"} /\ line \in BOOLEAN
  BY DEF Good, Device
<1>2. full => KeepsFlow(d, withRTS)
  <2>1. full => (Lines(d) => /\ d.handFlow.rts = "HANDSHAKE"
                             /\ (line <=> "RTS" \notin d.rxHolding \cup {"RTS"}))
    BY DEF Lines, LinesIn
  <2> HIDE DEF line
  <2>2. QED
    BY <1>1, <2>1, RtsSound
<1>3. Good(withRTS)
  BY <1>1, RxHoldingKeeps DEF Keeps
<1>4. PutChar(d) = [held EXCEPT !.charsInInterruptBuffer = n]
  BY DEF PutChar
<1> HIDE DEF withRTS
<1>5. KeepsFlow(d, lines) /\ Good(lines)
  BY <1>2, <1>3, KeepsFlowItself
<1> HIDE DEF lines
<1>6. /\ Good(withXoff) /\ "XOFF" \in withXoff.rxHolding
      /\ Restarts(lines) => Restarts(withXoff)
      /\ Lines(lines) => Lines(withXoff)
      /\ withXoff.handFlow = lines.handFlow /\ withXoff.txHolding = lines.txHolding
  <2>1. /\ lines.rxHolding \cup {"XOFF"} \in SUBSET {"XOFF", "RTS"}
        /\ "RTS" \in lines.rxHolding \cup {"XOFF"} <=> "RTS" \in lines.rxHolding
    BY <1>5 DEF Good, Device
  <2>2. Good(withXoff)
    BY <1>5, <2>1, RxHoldingKeeps DEF Keeps
  <2>3. /\ Restarts(lines) => Restarts(withXoff)
        /\ withXoff.handFlow = lines.handFlow /\ withXoff.txHolding = lines.txHolding
        /\ withXoff.rxHolding = lines.rxHolding \cup {"XOFF"}
        /\ \A mode : LinesIn(mode, lines) => LinesIn(mode, withXoff)
    BY <1>5, <2>1, HoldXoffLines
  <2>4. QED
    BY <2>2, <2>3 DEF Lines
<1> HIDE DEF withXoff
<1>7. KeepsFlow(lines, ProdXonXoff(withXoff, FALSE)) /\ Good(ProdXonXoff(withXoff, FALSE))
  <2> DEFINE e == ProdXonXoff(withXoff, FALSE)
  <2>1. /\ Restarts(withXoff) => Restarts(e)
        /\ Told(e) /\ StaleWoken(e)
        /\ e.handFlow = withXoff.handFlow /\ e.txHolding = withXoff.txHolding
        /\ \A mode : LinesIn(mode, withXoff) => LinesIn(mode, e)
    BY <1>6, ProdXonXoffSound
  <2>2. Good(e)
    BY <1>6, ProdXonXoffKeeps DEF Keeps
  <2> HIDE DEF e
  <2>3. (Lines(lines) => Lines(e)) /\ (CtsHeld(lines) => CtsHeld(e))
    BY <1>6, <2>1 DEF Lines, CtsHeld
  <2>4. KeepsFlow(lines, e)
    BY <1>6, <2>1, <2>3 DEF KeepsFlow, KeepsSound, KeepsHold
  <2>5. QED
    BY <2>2, <2>4 DEF e
<1>8. KeepsFlow(d, held) /\ Good(held)
  BY <1>5, <1>7, KeepsFlowIsTransitive
<1> HIDE DEF held, n
<1>9. KeepsFlow(held, PutChar(d))
  BY <1>4, <1>8, CharsCalm, CalmSound
<1>10. QED
  BY <1>8, <1>9, KeepsFlowIsTransitive

\* An Xoff or an Xon character received: only a reason to hold transmission changes.
LEMMA TxHoldingSound ==
  ASSUME NEW d, Good(d), NEW holding
  PROVE  LET e == [d EXCEPT !.txHolding = holding] IN
         /\ KeepsSound(d, e) /\ SameWork(d, e) /\ (Woken(d) <=> Woken(e))
         /\ ("CTS" \in holding <=> "CTS" \in d.txHolding) => KeepsHold(d, e)
         /\ e.holdingEmpty = d.holdingEmpty /\ e.txHolding = holding
<1> DEFINE e == [d EXCEPT !.txHolding = holding]
<1>1. /\ e.handFlow = d.handFlow /\ e.rxHolding = d.rxHolding
      /\ e.told = d.told /\ e.shifting = d.shifting /\ SameWork(d, e)
      /\ e.thr = d.thr /\ e.rts = d.rts /\ e.holdingEmpty = d.holdingEmpty
      /\ e.txHolding = holding /\ e.cts = d.cts /\ e.ctsChanged = d.ctsChanged
  BY DEF Good, Device, SameWork
<1> HIDE DEF e
<1>2. KeepsSound(d, e) /\ (Woken(d) <=> Woken(e))
  BY <1>1 DEF KeepsSound, Restarts, Woken, Told, Lines, LinesIn, HardwareEmpty, SameWork
<1>3. ("CTS" \in holding <=> "CTS" \in d.txHolding) => KeepsHold(d, e)
  BY <1>1 DEF KeepsHold, CtsHeld, StaleWoken, Work, Woken, SameWork
<1>4. QED
  BY <1>1, <1>2, <1>3 DEF e

\* Whatever a receive interrupt brings.  It ends inside SerialISR.
LEMMA ReceivedSound ==
  ASSUME NEW d, Good(d), NEW e \in Received(d)
  PROVE  KeepsFlow(d, e)
<1>1. KeepsFlow(d, ReceiveXon(d))
  <2>1. "CTS" \in d.txHolding \ {"XOFF"} <=> "CTS" \in d.txHolding
    OBVIOUS
  <2>2. QED
    BY <2>1, TxHoldingSound DEF ReceiveXon, KeepsFlow
<1>2. KeepsFlow(d, ReceiveXoff(d))
  <2> DEFINE f == [d EXCEPT !.txHolding = @ \cup {"XOFF"}]
  <2>1. /\ d.txHolding \cup {"XOFF"} \in SUBSET {"XOFF", "CTS", "BREAK"}
        /\ "CTS" \in d.txHolding \cup {"XOFF"} <=> "CTS" \in d.txHolding
    BY DEF Good, Device
  <2>2. KeepsFlow(d, f) /\ Good(f)
    BY <2>1, TxHoldingSound, TxHoldingKeeps DEF Keeps, KeepsFlow
  <2> HIDE DEF f
  <2>3. KeepsFlow(f, ReceiveXoff(d))
    BY <2>2, StartLoweringIfIsCalm, CalmSound DEF ReceiveXoff, f
  <2>4. QED
    BY <2>2, <2>3, KeepsFlowIsTransitive
<1>3. QED
  BY <1>1, <1>2, PutCharSound, KeepsFlowItself DEF Received, Receive

\* SerialHandleReducedIntBuffer.
LEMMA HandleReducedIntBufferSound ==
  ASSUME NEW d, Good(d)
  PROVE  LET e == HandleReducedIntBuffer(d) IN
         KeepsFlow(d, e) /\ (Awake(d) => Awake(e))
<1> DEFINE up == [d EXCEPT !.rxHolding = @ \ {"RTS"}, !.rts = TRUE]
           lines == IF "RTS" \in d.rxHolding THEN up ELSE d
           asked == ProdXonXoff(lines, TRUE)
           Fine(e) == KeepsFlow(d, e) /\ (Awake(d) => Awake(e))
<1>1. d.rxHolding \ {"RTS"} \in SUBSET {"XOFF", "RTS"}
  BY DEF Good, Device
<1>2. Good(up) /\ up.rxHolding = d.rxHolding \ {"RTS"}
  <2>1. Good(up)
    BY <1>1, RxHoldingKeeps DEF Keeps
  <2>2. up.rxHolding = d.rxHolding \ {"RTS"}
    BY DEF Good, Device
  <2>3. QED
    BY <2>1, <2>2
<1>3. "RTS" \in d.rxHolding => Fine(up)
  <2>1. "RTS" \in d.rxHolding => (Lines(d) => d.handFlow.rts = "HANDSHAKE")
    BY DEF Lines, LinesIn
  <2>2. QED
    BY <1>1, <2>1, RtsSound
<1> HIDE DEF up
<1>4. /\ Good(lines) /\ Fine(lines)
      /\ "XOFF" \in d.rxHolding => "XOFF" \in lines.rxHolding
  BY <1>2, <1>3, KeepsFlowItself
<1> HIDE DEF lines
<1>5. Fine(asked)
  <2>1. /\ Restarts(lines) => Restarts(asked)
        /\ Told(asked) /\ Awake(asked) /\ StaleWoken(asked)
        /\ asked.handFlow = lines.handFlow /\ asked.txHolding = lines.txHolding
        /\ \A mode : LinesIn(mode, lines) => LinesIn(mode, asked)
    BY <1>4, ProdXonXoffSound
  <2> HIDE DEF asked
  <2>2. KeepsFlow(lines, asked)
    BY <2>1 DEF KeepsFlow, KeepsSound, KeepsHold, Lines, CtsHeld
  <2>3. QED
    BY <1>4, <2>1, <2>2, KeepsFlowIsTransitive
<1>6. HandleReducedIntBuffer(d) \in {d, lines, asked}
  BY DEF HandleReducedIntBuffer, lines, up
<1>7. Fine(d)
  BY KeepsFlowItself
<1> HIDE DEF asked
<1>8. QED
  BY <1>4, <1>5, <1>6, <1>7

-----------------------------------------------------------------------------
(* Writes and flow control settings.                                       *)

\* SerialGiveWriteToIsr: a write pokes unless an immediate character did.
LEMMA GiveWriteToIsrSound ==
  ASSUME NEW d, Good(d), NEW n \in 0 .. MaxLen
  PROVE  LET e == GiveWriteToIsr(d, n) IN KeepsFlow(d, e) /\ KeepsAwake(d, e)
<1> DEFINE given == [d EXCEPT !.currentWrite = TRUE, !.writeLength = n]
           poked == PokeIf(~d.transmitImmediate, given)
           line == poked.rts \/ Toggling(d)
           e == [poked EXCEPT !.rts = line]
<1>1. /\ given.handFlow = d.handFlow /\ given.rxHolding = d.rxHolding
      /\ given.sendXonChar = d.sendXonChar /\ given.sendXoffChar = d.sendXoffChar
      /\ given.transmitImmediate = d.transmitImmediate
      /\ given.txHolding = d.txHolding
      /\ given.told = d.told /\ given.fifo = d.fifo /\ given.shifting = d.shifting
      /\ given.thr = d.thr /\ given.rts = d.rts /\ given.holdingEmpty = d.holdingEmpty
      /\ given.cts = d.cts /\ given.ctsChanged = d.ctsChanged
  BY DEF Good, Device
<1>2. Good(given)
  <2>1. given \in Device
    BY Zenon DEF Good, Device
  <2>2. SameFifoAndCount(d, given)
    BY DEF Good, Device, SameFifoAndCount
  <2>3. QED
    BY <2>1, <2>2, SameKeeps DEF Keeps
<1> HIDE DEF given
<1>3. KeepsSound(d, given)
  BY <1>1 DEF KeepsSound, Restarts, Woken, Told, Lines, LinesIn, HardwareEmpty
<1>4. /\ Calm(given, poked)
      /\ ~d.transmitImmediate /\ Restarts(d) => Woken(poked)
      /\ KeepsSound(given, poked) /\ poked \in Device
  BY <1>2, <1>3, PokeIfIsCalm, PokeIfKeeps, CalmSound
     DEF KeepsSound, KeepsFlow, Keeps, Good
<1>5. poked.rts = d.rts
  BY <1>1, <1>2 DEF Good, Device, PokeIf, Poke
<1>6. d.transmitImmediate => KeepsAwake(d, given) /\ KeepsHold(d, given)
  BY <1>1 DEF KeepsAwake, KeepsHold, CtsHeld, StaleWoken, Awake, Work, Woken
<1>7. KeepsAwake(d, poked) /\ KeepsHold(d, poked)
  <2>1. CASE d.transmitImmediate
    <3>1. KeepsFlow(d, given) /\ KeepsFlow(given, poked) /\ KeepsAwake(given, poked)
      BY <1>3, <1>4, <1>6, <2>1, CalmSound DEF KeepsFlow, KeepsAwake
    <3>2. QED
      BY <1>6, <2>1, <3>1, KeepsFlowIsTransitive DEF KeepsFlow
  <2>2. CASE ~d.transmitImmediate
    <3>1. CtsHeld(d) => CtsHeld(poked)
      BY <1>1, <1>4 DEF Calm, SameFlow, CtsHeld
    <3>2. QED
      BY <1>4, <2>2, <3>1 DEF KeepsAwake, KeepsHold, Awake, StaleWoken
  <2>3. QED
    BY <2>1, <2>2
<1>8. Toggling(poked) <=> Toggling(d)
  BY <1>1, <1>4 DEF Calm, SameFlow, Toggling
<1>9. e = GiveWriteToIsr(d, n)
  BY DEF GiveWriteToIsr, given
<1> HIDE DEF poked, line
<1>10. /\ e.handFlow = poked.handFlow /\ e.rxHolding = poked.rxHolding
       /\ e.sendXonChar = poked.sendXonChar /\ e.sendXoffChar = poked.sendXoffChar
       /\ e.transmitImmediate = poked.transmitImmediate
       /\ e.txHolding = poked.txHolding /\ e.writeLength = poked.writeLength
       /\ e.told = poked.told /\ e.fifo = poked.fifo /\ e.shifting = poked.shifting
       /\ e.thr = poked.thr /\ e.holdingEmpty = poked.holdingEmpty /\ e.rts = line
       /\ e.cts = poked.cts /\ e.ctsChanged = poked.ctsChanged
  BY <1>4 DEF Device
<1> HIDE DEF e
<1>11. e.rts <=> poked.rts \/ Toggling(poked)
  BY <1>8, <1>10 DEF line
<1>12. /\ Restarts(poked) => Restarts(e)
       /\ Told(poked) => Told(e)
       /\ Awake(poked) => Awake(e)
       /\ CtsHeld(poked) => CtsHeld(e)
       /\ StaleWoken(poked) => StaleWoken(e)
  BY <1>10 DEF Restarts, Told, Awake, CtsHeld, StaleWoken, Work, Woken
<1>13. Lines(poked) => Lines(e)
  BY <1>10, <1>11 DEF Lines, LinesIn, Toggling
<1>14. KeepsSound(d, e)
  BY <1>3, <1>4, <1>12, <1>13 DEF KeepsSound
<1>15. KeepsHold(d, e) /\ KeepsAwake(d, e)
  BY <1>7, <1>12 DEF KeepsHold, KeepsAwake
<1>16. QED
  BY <1>9, <1>14, <1>15 DEF KeepsFlow

\* SerialProcessEmptyTransmit.
LEMMA ProcessEmptyTransmitIsCalm ==
  ASSUME NEW d, Good(d), OtherPaths(d) >= 0, NEW waited, NEW error
  PROVE  Calm(d, ProcessEmptyTransmit(d, waited, error))
  BY TryToLowerRTSIsCalm, CalmItself DEF ProcessEmptyTransmit

\* The RTS part of SerialSetupNewHandFlow leaves the lines as the new mode wants
\* them, before it is the mode.
LEMMA NewRTSSound ==
  ASSUME NEW d, Good(d), OtherPaths(d) >= 0, NEW new \in HandFlow, NEW error
  PROVE  LET e == NewRTS(d, new, error) IN
         /\ Restarts(d) => Restarts(e)
         /\ Told(d) => Told(e)
         /\ Lines(d) => LinesIn(new.rts, e)
         /\ Awake(d) => Awake(e)
<1> DEFINE free == [d EXCEPT !.rxHolding = @ \ {"RTS"}]
           toggling == [free EXCEPT !.handFlow.rts = "TOGGLE"]
           checked == ProcessLSR(toggling, error)
           read == IF "BREAK" \in d.txHolding THEN toggling ELSE checked
           control == new.rts = "CONTROL"
\* What a step must leave alone, for the peer and the transmitter.
           Like(e) == /\ e.txHolding = d.txHolding
                      /\ "XOFF" \in e.rxHolding <=> "XOFF" \in d.rxHolding
                      /\ e.sendXonChar = d.sendXonChar /\ e.sendXoffChar = d.sendXoffChar
                      /\ e.transmitImmediate = d.transmitImmediate
                      /\ e.writeLength = d.writeLength /\ e.told = d.told
                      /\ e.fifo = d.fifo /\ e.shifting = d.shifting
                      /\ d.thr => e.thr
                      /\ Restarts(d) => Restarts(e)
<1>1. ASSUME NEW e, Like(e), Lines(d) => LinesIn(new.rts, e)
      PROVE  /\ Restarts(d) => Restarts(e)
             /\ Told(d) => Told(e)
             /\ Lines(d) => LinesIn(new.rts, e)
             /\ Awake(d) => Awake(e)
  BY <1>1 DEF Told, Awake, Work, Woken
<1>2. CASE d.handFlow.rts = new.rts
  <2>1. NewRTS(d, new, error) = d
    BY <1>2 DEF NewRTS
  <2>2. QED
    BY <1>2, <2>1 DEF Lines
<1>3. d.handFlow.rts # new.rts /\ new.rts = "HANDSHAKE" /\ Lines(d)
        => "RTS" \notin d.rxHolding
  BY DEF Lines, LinesIn
<1>4. ASSUME NEW f \in Device, Like(f), NEW line \in BOOLEAN
      PROVE  LET e == [f EXCEPT !.rts = line] IN
             Like(e) /\ e.rts = line /\ e.rxHolding = f.rxHolding
  <2> DEFINE e == [f EXCEPT !.rts = line]
  <2>1. /\ e.rxHolding = f.rxHolding /\ e.rts = line
        /\ e.sendXonChar = f.sendXonChar /\ e.sendXoffChar = f.sendXoffChar
        /\ e.transmitImmediate = f.transmitImmediate
        /\ e.txHolding = f.txHolding /\ e.writeLength = f.writeLength
        /\ e.told = f.told /\ e.fifo = f.fifo /\ e.shifting = f.shifting
        /\ e.thr = f.thr /\ e.holdingEmpty = f.holdingEmpty
    BY DEF Device
  <2> HIDE DEF e
  <2>2. QED
    BY <1>4, <2>1 DEF Restarts, Woken, e
<1>5. Like(d) /\ d \in Device
  BY DEF Good
<1>6. CASE d.handFlow.rts # new.rts /\ new.rts = "HANDSHAKE"
  <2> DEFINE up == [d EXCEPT !.rts = TRUE]
             down == [d EXCEPT !.rts = FALSE, !.rxHolding = @ \cup {"RTS"}]
  <2>1. Like(up) /\ (Lines(d) => LinesIn(new.rts, up))
    <3>1. Like(up) /\ up.rts = TRUE /\ up.rxHolding = d.rxHolding
      BY <1>4, <1>5
    <3> HIDE DEF up
    <3>2. QED
      BY <1>3, <1>6, <3>1 DEF LinesIn
  <2>2. Like(down) /\ LinesIn(new.rts, down)
    <3>1. /\ down.rxHolding = d.rxHolding \cup {"RTS"} /\ down.rts = FALSE
          /\ down.sendXonChar = d.sendXonChar /\ down.sendXoffChar = d.sendXoffChar
          /\ down.transmitImmediate = d.transmitImmediate
          /\ down.txHolding = d.txHolding /\ down.writeLength = d.writeLength
          /\ down.told = d.told /\ down.fifo = d.fifo /\ down.shifting = d.shifting
          /\ down.thr = d.thr /\ down.holdingEmpty = d.holdingEmpty
      BY DEF Good, Device
    <3> HIDE DEF down
    <3>2. QED
      BY <1>6, <3>1 DEF Restarts, Woken, LinesIn
  <2>3. NewRTS(d, new, error) \in {up, down}
    BY <1>6 DEF NewRTS
  <2> HIDE DEF up, down, Like
  <2>4. QED
    BY <1>1, <2>1, <2>2, <2>3
<1>7. Like(free) /\ "RTS" \notin free.rxHolding /\ free \in Device
  <2>1. d.rxHolding \ {"RTS"} \in SUBSET {"XOFF", "RTS"}
    BY DEF Good, Device
  <2>2. free \in Device
    BY <2>1, RxHoldingKeeps DEF Keeps, Good
  <2>3. /\ free.rxHolding = d.rxHolding \ {"RTS"}
        /\ free.sendXonChar = d.sendXonChar /\ free.sendXoffChar = d.sendXoffChar
        /\ free.transmitImmediate = d.transmitImmediate
        /\ free.txHolding = d.txHolding /\ free.writeLength = d.writeLength
        /\ free.told = d.told /\ free.fifo = d.fifo /\ free.shifting = d.shifting
        /\ free.thr = d.thr /\ free.holdingEmpty = d.holdingEmpty
    BY DEF Good, Device
  <2> HIDE DEF free
  <2>4. QED
    BY <2>2, <2>3 DEF Restarts, Woken
<1>8. Keeps(d, toggling) /\ Like(toggling) /\ "RTS" \notin toggling.rxHolding
  <2>1. free.handFlow \in HandFlow
    BY <1>7 DEF Device
  <2>2. [free.handFlow EXCEPT !.rts = "TOGGLE"] \in HandFlow
    BY <2>1, Zenon DEF HandFlow
  <2> DEFINE flow == [free.handFlow EXCEPT !.rts = "TOGGLE"]
             f == [free EXCEPT !.handFlow = flow]
  <2>3. Keeps(d, free)
    <3>1. d.rxHolding \ {"RTS"} \in SUBSET {"XOFF", "RTS"}
      BY DEF Good, Device
    <3>2. QED
      BY <3>1, RxHoldingKeeps
  <2>4. toggling = f
    OBVIOUS
  <2> HIDE DEF flow, free
  <2>5. Keeps(d, f)
    BY <2>2, <2>3, HandFlowKeeps, KeepsIsTransitive DEF Keeps, flow
  <2>6. /\ f.rxHolding = free.rxHolding
        /\ f.sendXonChar = free.sendXonChar /\ f.sendXoffChar = free.sendXoffChar
        /\ f.transmitImmediate = free.transmitImmediate
        /\ f.txHolding = free.txHolding /\ f.writeLength = free.writeLength
        /\ f.told = free.told /\ f.fifo = free.fifo /\ f.shifting = free.shifting
        /\ f.thr = free.thr /\ f.holdingEmpty = free.holdingEmpty
    BY <1>7 DEF Device
  <2> HIDE DEF f, toggling
  <2>7. QED
    BY <1>7, <2>4, <2>5, <2>6 DEF Restarts, Woken
<1>9. CASE d.handFlow.rts # new.rts /\ new.rts \in {"CONTROL", "DISABLE"}
  <2> DEFINE e == [free EXCEPT !.rts = control]
  <2>1. control \in BOOLEAN
    OBVIOUS
  <2>2. NewRTS(d, new, error) = e
    BY <1>9 DEF NewRTS
  <2> HIDE DEF control, free
  <2>3. Like(e) /\ e.rxHolding = free.rxHolding
    BY <1>4, <1>7, <2>1
  <2>4. LinesIn(new.rts, e)
    BY <1>7, <1>9, <2>3 DEF LinesIn
  <2> HIDE DEF e, Like
  <2>5. QED
    BY <1>1, <2>2, <2>3, <2>4
<1>10. ASSUME NEW f, Like(f), "RTS" \notin f.rxHolding, NEW e, Calm(f, e)
       PROVE  Like(e) /\ "RTS" \notin e.rxHolding
  BY <1>10 DEF Calm, SameFlow
<1>11. CASE d.handFlow.rts # new.rts /\ new.rts = "TOGGLE"
  <2> DEFINE up == [read EXCEPT !.rts = TRUE]
             tried == TryToLowerRTS(read, error)
  <2>1. NewRTS(d, new, error) =
          IF "BREAK" \in d.txHolding \/ ~HardwareEmpty(d) \/ WritesPending(d) THEN up
                                                                             ELSE tried
    BY <1>11 DEF NewRTS
  <2> HIDE DEF toggling, Like
  <2>2. Like(read) /\ "RTS" \notin read.rxHolding /\ Keeps(d, read)
    BY <1>8, <1>10, ProcessLSRIsCalm, ProcessLSRKeeps, KeepsIsTransitive DEF Keeps
  <2> HIDE DEF read
  <2>3. Like(up) /\ up.rts = TRUE /\ "RTS" \notin up.rxHolding
    BY <1>4, <2>2 DEF Keeps, Good
  <2>4. Like(tried) /\ "RTS" \notin tried.rxHolding
    BY <1>10, <2>2, TryToLowerRTSIsCalm DEF Keeps
  <2> HIDE DEF up, tried
  <2>5. LinesIn(new.rts, up)
    BY <1>11, <2>3 DEF LinesIn
  <2>6. HardwareEmpty(d) => LinesIn(new.rts, tried)
    BY <1>11, <2>4 DEF LinesIn, HardwareEmpty, Like
  <2>7. QED
    BY <1>1, <2>1, <2>3, <2>4, <2>5, <2>6
<1>12. new.rts \in {"DISABLE", "CONTROL", "HANDSHAKE", "TOGGLE"}
  BY DEF HandFlow
<1>13. QED
  BY <1>2, <1>6, <1>9, <1>11, <1>12

\* Its part for Xoff sent by the driver: what was asked for is still to be sent.
LEMMA NewAutoReceiveSound ==
  ASSUME NEW d, Good(d), NEW new, NEW mode
  PROVE  LET e == NewAutoReceive(d, new) IN
         /\ Restarts(d) => Restarts(e)
         /\ Told(d) => Told(e)
         /\ LinesIn(mode, d) => LinesIn(mode, e)
         /\ Awake(d) => Awake(e)
<1> DEFINE on == [d EXCEPT !.rxHolding = @ \cup {"XOFF"}]
           off == [d EXCEPT !.rxHolding = @ \ {"XOFF"}]
<1>1. /\ d.rxHolding \cup {"XOFF"} \in SUBSET {"XOFF", "RTS"}
      /\ d.rxHolding \ {"XOFF"} \in SUBSET {"XOFF", "RTS"}
  BY DEF Good, Device
<1>2. Good(on) /\ Good(off)
  BY <1>1, RxHoldingKeeps DEF Keeps
<1> DEFINE Like(e) == /\ Restarts(d) => Restarts(e)
                      /\ LinesIn(mode, d) => LinesIn(mode, e)
<1>3. Like(on) /\ "XOFF" \in on.rxHolding /\ Like(off)
  <2>1. /\ "RTS" \in d.rxHolding \cup {"XOFF"} <=> "RTS" \in d.rxHolding
        /\ "RTS" \in d.rxHolding \ {"XOFF"} <=> "RTS" \in d.rxHolding
    OBVIOUS
  <2>2. Like(on) /\ on.rxHolding = d.rxHolding \cup {"XOFF"}
    BY <1>1, <2>1, HoldXoffLines
  <2>3. Like(off)
    BY <1>1, <2>1, HoldXoffLines
  <2> HIDE DEF on, off
  <2>4. QED
    BY <2>2, <2>3
<1>4. NewAutoReceive(d, new) \in {d, ProdXonXoff(on, FALSE), ProdXonXoff(off, TRUE)}
  BY DEF NewAutoReceive
<1> HIDE DEF on, off
<1>5. LET e == ProdXonXoff(on, FALSE) IN
      Like(e) /\ Told(e) /\ Awake(e)
  BY <1>2, <1>3, ProdXonXoffSound
<1>6. LET e == ProdXonXoff(off, TRUE) IN
      Like(e) /\ Told(e) /\ Awake(e)
  BY <1>2, <1>3, ProdXonXoffSound
<1>7. QED
  BY <1>4, <1>5, <1>6

\* Its part for Xoff received.
LEMMA NewAutoTransmitSound ==
  ASSUME NEW d, Good(d), NEW new, NEW mode
  PROVE  LET e == NewAutoTransmit(d, new) IN
         /\ Restarts(d) => Restarts(e)
         /\ Told(d) => Told(e)
         /\ LinesIn(mode, d) => LinesIn(mode, e)
         /\ Awake(d) => Awake(e)
<1> DEFINE off == [d EXCEPT !.txHolding = @ \ {"XOFF"}]
<1>1. Good(off)
  <2>1. d.txHolding \ {"XOFF"} \in SUBSET {"XOFF", "CTS", "BREAK"}
    BY DEF Good, Device
  <2>2. QED
    BY <2>1, TxHoldingKeeps DEF Keeps
<1> DEFINE Like(e) == /\ Restarts(d) => Restarts(e)
                      /\ LinesIn(mode, d) => LinesIn(mode, e)
<1>2. Like(off)
  <2>1. /\ off.fifo = d.fifo /\ off.shifting = d.shifting /\ off.rts = d.rts
        /\ off.rxHolding = d.rxHolding
        /\ off.thr = d.thr /\ off.holdingEmpty = d.holdingEmpty
    BY DEF Good, Device
  <2> HIDE DEF off
  <2>2. QED
    BY <2>1 DEF Restarts, Woken, LinesIn, HardwareEmpty
<1>3. NewAutoTransmit(d, new) \in {d, ProdXonXoff(off, TRUE)}
  BY DEF NewAutoTransmit
<1> HIDE DEF off
<1>4. LET e == ProdXonXoff(off, TRUE) IN
      Like(e) /\ Told(e) /\ Awake(e)
  BY <1>1, <1>2, ProdXonXoffSound
<1>5. QED
  BY <1>3, <1>4

\* SerialSetupNewHandFlow, of its parts: now the mode is the new one.
LEMMA SetupNewHandFlowSound ==
  ASSUME NEW d, Good(d), OtherPaths(d) >= 0, NEW new \in HandFlow, NEW error
  PROVE  LET e == SetupNewHandFlow(d, new, error) IN
         KeepsSound(d, e) /\ (Awake(d) => Awake(e)) /\ Good(e)
<1> DEFINE a == NewRTS(d, new, error)
           b == NewAutoReceive(a, new)
           c == NewAutoTransmit(b, new)
           e == [c EXCEPT !.handFlow = new]
           Like(f) == /\ Restarts(d) => Restarts(f)
                      /\ Told(d) => Told(f)
                      /\ Lines(d) => LinesIn(new.rts, f)
                      /\ Awake(d) => Awake(f)
<1>1. Good(a) /\ Like(a)
  BY NewRTSSound, NewRTSKeeps DEF Keeps
<1>2. e = SetupNewHandFlow(d, new, error)
  BY DEF SetupNewHandFlow
<1> HIDE DEF a
<1>3. Good(b) /\ Like(b)
  BY <1>1, NewAutoReceiveSound, NewAutoReceiveKeeps DEF Keeps
<1> HIDE DEF b
<1>4. Good(c) /\ Like(c)
  BY <1>3, NewAutoTransmitSound, NewAutoTransmitKeeps DEF Keeps
<1> HIDE DEF c
<1>5. Good(e)
  BY <1>4, HandFlowKeeps DEF Keeps
<1>6. /\ e.rxHolding = c.rxHolding /\ e.handFlow = new
      /\ e.sendXonChar = c.sendXonChar /\ e.sendXoffChar = c.sendXoffChar
      /\ e.transmitImmediate = c.transmitImmediate
      /\ e.txHolding = c.txHolding /\ e.writeLength = c.writeLength
      /\ e.told = c.told /\ e.fifo = c.fifo /\ e.shifting = c.shifting
      /\ e.thr = c.thr /\ e.holdingEmpty = c.holdingEmpty /\ e.rts = c.rts
  BY <1>4 DEF Good, Device
<1> HIDE DEF e
<1>7. /\ Restarts(c) => Restarts(e)
      /\ Told(c) => Told(e)
      /\ Awake(c) => Awake(e)
  BY <1>6 DEF Restarts, Woken, Told, Awake, Work
<1>8. LinesIn(new.rts, c) => Lines(e)
  BY <1>6 DEF Lines, LinesIn, HardwareEmpty
<1>9. QED
  BY <1>2, <1>4, <1>5, <1>7, <1>8 DEF KeepsSound

-----------------------------------------------------------------------------
(* The invariant and the steps.                                            *)

\* The device that was just opened.
LEMMA InitFlowInv == Init => FlowInv
<1> SUFFICES ASSUME Init PROVE FlowInv
  OBVIOUS
<1>1. PICK h \in HandFlows :
        /\ dev.handFlow = h /\ dev.rxHolding = {} /\ dev.told = "Xon"
        /\ dev.sendXonChar = FALSE /\ dev.sendXoffChar = FALSE
        /\ dev.transmitImmediate = FALSE /\ dev.writeLength = 0
        /\ dev.holdingEmpty = TRUE /\ dev.fifo = 0 /\ dev.shifting = FALSE
        /\ dev.rts = (h.rts \in {"CONTROL", "HANDSHAKE"})
  BY DEF Init
<1>2. Restarts(dev) /\ Told(dev) /\ Awake(dev)
  BY <1>1 DEF Restarts, Told, Awake, Work
<1>3. Lines(dev)
  BY <1>1 DEF Lines, LinesIn, HardwareEmpty
<1>4. QED
  BY <1>2, <1>3 DEF FlowInv, Sound

\* The passes of SerialISR: its end is the only way out, and leaves no work that
\* may be sent without an interrupt.
LEMMA ISRFlow ==
  ASSUME IInv, ISR
  PROVE  KeepsFlow(dev, dev') /\ (isr' = "off" => Awake(dev'))
<1>1. Good(dev)
  BY IInvGood
<1>2. CASE LineStatusInterrupt
  BY <1>1, <1>2, ProcessLSRIsCalm, CalmSound DEF LineStatusInterrupt
<1>3. CASE ReceiveInterrupt
  <2>1. PICK d \in Received(dev), error \in LineErrors : dev' = ProcessLSR(d, error)
    BY <1>3 DEF ReceiveInterrupt
  <2>2. Good(d) /\ KeepsFlow(dev, d)
    BY <1>1, <2>1, ReceivedKeeps, ReceivedSound DEF Keeps
  <2>3. KeepsFlow(d, dev')
    BY <2>1, <2>2, ProcessLSRIsCalm, CalmSound
  <2>4. QED
    BY <1>3, <2>2, <2>3, KeepsFlowIsTransitive DEF ReceiveInterrupt
<1>4. CASE TransmitInterrupt
  <2> DEFINE d == [dev EXCEPT !.thr = FALSE]
  <2>1. d \in Device
    BY <1>1, Zenon DEF Good, Device
  <2>2. /\ d.fifo = dev.fifo /\ d.thr = FALSE /\ d.shifting = dev.shifting
        /\ d.handFlow = dev.handFlow /\ d.rxHolding = dev.rxHolding /\ d.told = dev.told
        /\ d.sendXonChar = dev.sendXonChar /\ d.sendXoffChar = dev.sendXoffChar
        /\ d.rts = dev.rts /\ d.txHolding = dev.txHolding
    BY <1>1 DEF Good, Device
  <2>3. dev' = TransmitStuff(d) /\ isr' = "loop" /\ dev.thr
    BY <1>4 DEF TransmitInterrupt
  <2> HIDE DEF d
  <2>4. Good(d) /\ d.fifo <= TxTrigger
    BY <1>1, <2>1, <2>2, <2>3 DEF Good
  <2>5. /\ Told(dev) => Told(d)
        /\ Lines(dev) => Lines(d)
        /\ CtsHeld(dev) => CtsHeld(d)
    BY <2>2 DEF Told, Lines, LinesIn, HardwareEmpty, CtsHeld
  <2>6. /\ KeepsSound(d, dev') /\ Restarts(dev')
        /\ CtsHeld(d) => CtsHeld(dev') /\ StaleWoken(dev')
    BY <2>3, <2>4, TransmitStuffSound
  <2>7. QED
    BY <2>3, <2>5, <2>6 DEF KeepsFlow, KeepsSound, KeepsHold
<1>5. CASE ModemInterrupt
  <2>1. dev' = HandleModemUpdate(dev, FALSE) /\ isr' = "loop"
    BY <1>5 DEF ModemInterrupt
  <2>2. QED
    BY <1>1, <2>1, HandleModemUpdateSound DEF KeepsFlow, KeepsHold
<1>6. CASE NoInterruptPending
  BY <1>6, KeepsFlowItself DEF NoInterruptPending
<1>7. CASE EndOfISR
  <2>1. PICK error \in LineErrors :
          LET d == ProcessLSR(dev, error)
          IN IF d.fifo = 0 /\ d.txHolding = {} /\ Work(d)
               THEN dev' = TransmitStuff(d) /\ isr' = "loop"
               ELSE dev' = d /\ isr' = "off"
    BY <1>7 DEF EndOfISR
  <2> DEFINE d == ProcessLSR(dev, error)
  <2>2. Good(d) /\ KeepsFlow(dev, d)
    BY <1>1, ProcessLSRIsCalm, ProcessLSRKeeps, CalmSound DEF Keeps
  <2> HIDE DEF d
  <2>3. CASE d.fifo = 0 /\ d.txHolding = {} /\ Work(d)
    <3>1. d.fifo <= TxTrigger
      BY <2>3, SizeAssumption
    <3>2. dev' = TransmitStuff(d) /\ isr' = "loop"
      BY <2>1, <2>3 DEF d
    <3>3. KeepsFlow(d, dev')
      BY <2>2, <3>1, <3>2, TransmitStuffSound DEF KeepsFlow, KeepsHold
    <3>4. QED
      BY <2>2, <3>2, <3>3, KeepsFlowIsTransitive
  <2>4. CASE ~(d.fifo = 0 /\ d.txHolding = {} /\ Work(d))
    <3>1. dev' = d
      BY <2>1, <2>4 DEF d
    <3>2. d.fifo = 0 \/ d.fifo > 0
      BY <2>2 DEF Good, Device
    <3>3. Awake(d)
      BY <2>4, <3>2 DEF Awake, Woken
    <3>4. QED
      BY <2>2, <3>1, <3>3
  <2>5. QED
    BY <2>3, <2>4
<1>8. QED
  BY <1>2, <1>3, <1>4, <1>5, <1>6, <1>7 DEF ISR

\* The UART, whose last character out of the FIFO raises an interrupt, and the peer.
LEMMA UARTFlow ==
  ASSUME IInv, Shift \/ ChangeCTS
  PROVE  KeepsAll(dev, dev') /\ isr' = isr
<1>1. Good(dev)
  BY IInvGood
<1>2. isr' = isr
  BY DEF Shift, ChangeCTS
<1>3. CASE Shift /\ dev.fifo = 0
  <2> DEFINE e == [dev EXCEPT !.shifting = FALSE]
  <2>1. /\ e.handFlow = dev.handFlow /\ e.txHolding = dev.txHolding
        /\ e.rxHolding = dev.rxHolding
        /\ e.sendXonChar = dev.sendXonChar /\ e.sendXoffChar = dev.sendXoffChar
        /\ e.transmitImmediate = dev.transmitImmediate /\ e.writeLength = dev.writeLength
        /\ e.told = dev.told /\ e.fifo = dev.fifo /\ e.shifting = FALSE
        /\ e.thr = dev.thr /\ e.rts = dev.rts /\ e.holdingEmpty = dev.holdingEmpty
        /\ e.cts = dev.cts /\ e.ctsChanged = dev.ctsChanged
    BY <1>1 DEF Good, Device
  <2>2. dev' = e
    BY <1>3 DEF Shift
  <2> HIDE DEF e
  <2>3. /\ Restarts(dev) => Restarts(e)
        /\ Told(dev) => Told(e)
        /\ Awake(dev) => Awake(e)
    BY <2>1 DEF Restarts, Woken, Told, Awake, Work
  <2>4. KeepsHold(dev, e)
    BY <2>1 DEF KeepsHold, CtsHeld, StaleWoken, Woken, Work
  <2>5. Lines(dev) => Lines(e)
    BY <1>3, <2>1 DEF Lines, LinesIn, HardwareEmpty
  <2>6. QED
    BY <1>2, <2>2, <2>3, <2>4, <2>5 DEF KeepsAll, KeepsFlow, KeepsSound, KeepsAwake
<1>4. CASE Shift /\ dev.fifo # 0
  <2> DEFINE interrupt == dev.thr \/ dev.fifo - 1 \in {0, TxTrigger}
             e == [dev EXCEPT !.fifo = @ - 1, !.shifting = TRUE, !.thr = interrupt]
  <2>1. dev' = e
    BY <1>4 DEF Shift
  <2>2. dev.fifo \in Nat /\ (dev.fifo - 1 = 0 \/ dev.fifo - 1 > 0)
    BY <1>1, <1>4 DEF Good, Device
  <2>3. (dev.thr => interrupt) /\ (interrupt \/ dev.fifo - 1 > 0)
    BY <2>2
  <2>4. ~HardwareEmpty(dev)
    BY <1>4 DEF Shift
  <2> HIDE DEF interrupt
  <2>5. /\ e.handFlow = dev.handFlow /\ e.txHolding = dev.txHolding
        /\ e.rxHolding = dev.rxHolding
        /\ e.sendXonChar = dev.sendXonChar /\ e.sendXoffChar = dev.sendXoffChar
        /\ e.transmitImmediate = dev.transmitImmediate /\ e.writeLength = dev.writeLength
        /\ e.told = dev.told /\ e.fifo = dev.fifo - 1
        /\ e.thr = interrupt /\ e.rts = dev.rts
    BY <1>1 DEF Good, Device
  <2> HIDE DEF e
  <2>6. Woken(e)
    BY <2>3, <2>5, Zenon DEF Woken
  <2>7. Restarts(e) /\ (Told(dev) => Told(e)) /\ Awake(e) /\ StaleWoken(e)
    BY <2>5, <2>6 DEF Restarts, Told, Awake, StaleWoken
  <2>8. (Lines(dev) => Lines(e)) /\ (CtsHeld(dev) => CtsHeld(e))
    BY <2>4, <2>5 DEF Lines, LinesIn, CtsHeld
  <2>9. QED
    BY <1>2, <2>1, <2>7, <2>8
       DEF KeepsAll, KeepsFlow, KeepsSound, KeepsHold, KeepsAwake
<1>5. CASE ChangeCTS
  <2> DEFINE line == ~dev.cts
             e == [dev EXCEPT !.cts = line, !.ctsChanged = TRUE]
  <2>1. dev' = e
    BY <1>5 DEF ChangeCTS
  <2> HIDE DEF line
  <2>2. /\ e.handFlow = dev.handFlow /\ e.txHolding = dev.txHolding
        /\ e.rxHolding = dev.rxHolding
        /\ e.sendXonChar = dev.sendXonChar /\ e.sendXoffChar = dev.sendXoffChar
        /\ e.transmitImmediate = dev.transmitImmediate /\ e.writeLength = dev.writeLength
        /\ e.told = dev.told /\ e.fifo = dev.fifo /\ e.shifting = dev.shifting
        /\ e.thr = dev.thr /\ e.rts = dev.rts /\ e.holdingEmpty = dev.holdingEmpty
        /\ e.ctsChanged = TRUE
    BY <1>1 DEF Good, Device
  <2> HIDE DEF e
  <2>3. KeepsSound(dev, e)
    BY <2>2 DEF KeepsSound, Restarts, Woken, Told, Lines, LinesIn, HardwareEmpty
  <2>4. KeepsHold(dev, e) /\ KeepsAwake(dev, e)
    BY <2>2 DEF KeepsHold, KeepsAwake, CtsHeld, StaleWoken, Awake, Work, Woken
  <2>5. QED
    BY <1>2, <2>1, <2>3, <2>4 DEF KeepsAll, KeepsFlow
<1>6. QED
  BY <1>3, <1>4, <1>5

\* A synchronized routine.
LEMMA SynchronizeFlow ==
  ASSUME NEW d, KeepsAll(dev, d), Synchronize(d)
  PROVE  KeepsAll(dev, dev') /\ isr' = isr
  BY DEF Synchronize

\* The write and the immediate character, and their ends.
LEMMA WritesFlow ==
  ASSUME IInv, \/ StartWrite \/ StartImmediate \/ GrabWriteFromIsr
               \/ GrabImmediateFromIsr \/ EndImmediate
  PROVE  KeepsAll(dev, dev') /\ isr' = isr
<1>1. Good(dev) /\ OtherPaths(dev) >= 0
  BY IInvGood
<1> DEFINE given == [dev EXCEPT !.currentImmediate = TRUE, !.transmitImmediate = TRUE]
           noWrite == [dev EXCEPT !.writeLength = 0]
           noImmediate == [dev EXCEPT !.transmitImmediate = FALSE]
           immediateDone == [dev EXCEPT !.currentImmediate = FALSE]
           Like(e) == /\ e.handFlow = dev.handFlow /\ e.txHolding = dev.txHolding
                      /\ e.rxHolding = dev.rxHolding /\ e.told = dev.told
                      /\ e.sendXonChar = dev.sendXonChar
                      /\ e.sendXoffChar = dev.sendXoffChar
                      /\ e.fifo = dev.fifo /\ e.shifting = dev.shifting
                      /\ e.thr = dev.thr /\ e.rts = dev.rts
                      /\ e.holdingEmpty = dev.holdingEmpty
                      /\ e.cts = dev.cts /\ e.ctsChanged = dev.ctsChanged
<1>2. Like(given) /\ given.writeLength = dev.writeLength
  BY <1>1 DEF Good, Device
<1>3. /\ Like(noWrite) /\ noWrite.transmitImmediate = dev.transmitImmediate
      /\ noWrite.writeLength = 0
  BY <1>1 DEF Good, Device
<1>4. /\ Like(noImmediate) /\ noImmediate.writeLength = dev.writeLength
      /\ noImmediate.transmitImmediate = FALSE
  BY <1>1 DEF Good, Device
<1>5. /\ Like(immediateDone) /\ immediateDone.transmitImmediate = dev.transmitImmediate
      /\ immediateDone.writeLength = dev.writeLength
  BY <1>1 DEF Good, Device
<1>6. given \in Device
  BY <1>1, Zenon DEF Good, Device
<1>7. immediateDone \in Device
  BY <1>1, Zenon DEF Good, Device
<1>8. SameFifoAndCount(dev, given)
  BY <1>1 DEF Good, Device, SameFifoAndCount
<1>9. SameFifoAndCount(dev, immediateDone)
  BY <1>1 DEF Good, Device, SameFifoAndCount
<1>10. Good(given) /\ Good(immediateDone) /\ OtherPaths(immediateDone) >= 0
  <2> HIDE DEF given, immediateDone
  <2>1. Keeps(dev, given) /\ Keeps(dev, immediateDone)
    BY <1>1, <1>6, <1>7, <1>8, <1>9, SameKeeps
  <2>2. QED
    BY <1>1, <2>1 DEF Keeps
<1>11. \A n \in 1 .. MaxLen : KeepsAll(dev, GiveWriteToIsr(dev, n))
  <2>1. 1 .. MaxLen \subseteq 0 .. MaxLen
    BY SizeAssumption
  <2>2. QED
    BY <1>1, <2>1, GiveWriteToIsrSound DEF KeepsAll
<1> HIDE DEF given, noWrite, noImmediate, immediateDone
<1>12. ASSUME NEW e, Like(e)
       PROVE  KeepsSound(dev, e) /\ (CtsHeld(dev) => CtsHeld(e))
  BY <1>12
     DEF KeepsSound, Restarts, Woken, Told, Lines, LinesIn, HardwareEmpty, CtsHeld
<1>13. ASSUME NEW e, Like(e), Work(e) => Work(dev) PROVE KeepsAll(dev, e)
  <2>1. KeepsHold(dev, e) /\ KeepsAwake(dev, e)
    BY <1>12, <1>13 DEF KeepsHold, KeepsAwake, StaleWoken, Awake, Woken
  <2>2. QED
    BY <1>12, <1>13, <2>1 DEF KeepsAll, KeepsFlow
<1>14. CASE StartWrite
  BY <1>11, <1>14, SynchronizeFlow DEF StartWrite
<1>15. CASE StartImmediate
  <2> DEFINE e == PokeIf(dev.writeLength = 0, given)
  <2>1. KeepsAll(dev, e)
    <3>1. CASE dev.writeLength = 0
      <4>1. Calm(given, e) /\ (Restarts(given) => Woken(e))
        BY <1>10, <3>1, PokeIfIsCalm
      <4> HIDE DEF e
      <4>2. KeepsSound(dev, e) /\ (CtsHeld(dev) => CtsHeld(e))
        BY <1>2, <1>12, <4>1, CalmSound DEF KeepsFlow, KeepsSound, KeepsHold
      <4>3. Restarts(dev) => Woken(e)
        BY <1>2, <1>12, <4>1 DEF KeepsSound
      <4>4. KeepsHold(dev, e) /\ KeepsAwake(dev, e)
        BY <4>2, <4>3 DEF KeepsHold, KeepsAwake, StaleWoken, Awake
      <4>5. QED
        BY <4>2, <4>4 DEF KeepsAll, KeepsFlow
    <3>2. CASE dev.writeLength # 0
      <4>1. Work(dev)
        BY <1>1, <3>2, SizeAssumption DEF Work, Good, Device
      <4>2. KeepsAll(dev, given)
        BY <1>2, <1>13, <4>1
      <4>3. Calm(given, e)
        BY <1>10, PokeIfIsCalm
      <4>4. QED
        BY <4>2, <4>3, CalmSound, KeepsAllIsTransitive
    <3>3. QED
      BY <3>1, <3>2
  <2>2. Synchronize(e)
    BY <1>15 DEF StartImmediate, given
  <2> HIDE DEF e
  <2>3. QED
    BY <2>1, <2>2, SynchronizeFlow
<1>16. CASE GrabWriteFromIsr
  <2>1. Work(noWrite) => Work(dev)
    BY <1>3, SizeAssumption DEF Work
  <2>2. QED
    BY <1>3, <1>13, <1>16, <2>1, SynchronizeFlow DEF GrabWriteFromIsr, noWrite
<1>17. CASE GrabImmediateFromIsr
  <2>1. Work(noImmediate) => Work(dev)
    BY <1>4 DEF Work
  <2>2. QED
    BY <1>4, <1>13, <1>17, <2>1, SynchronizeFlow
       DEF GrabImmediateFromIsr, noImmediate
<1>18. KeepsAll(dev, immediateDone)
  <2>1. Work(immediateDone) <=> Work(dev)
    BY <1>5 DEF Work
  <2>2. QED
    BY <1>5, <1>13, <2>1
<1> HIDE DEF Like
<1>19. CASE EndImmediate
  BY <1>10, <1>18, <1>19, ProcessEmptyTransmitIsCalm, CalmSound, KeepsAllIsTransitive,
     SynchronizeFlow DEF EndImmediate, immediateDone
<1>20. QED
  BY <1>14, <1>15, <1>16, <1>17, <1>19

\* The end of a write, after which another may come out of WriteQueue.
LEMMA EndWriteFlow ==
  ASSUME IInv, EndWrite
  PROVE  KeepsAll(dev, dev') /\ isr' = isr
<1>1. Good(dev) /\ OtherPaths(dev) >= 0 /\ dev.writesQueued \in BOOLEAN
  BY IInvGood DEF Good, Device
<1> DEFINE writeDone(queued) == [dev EXCEPT !.currentWrite = FALSE, !.writesQueued = queued]
<1>2. ASSUME NEW queued \in BOOLEAN, NEW waited, NEW error
      PROVE  KeepsAll(dev, ProcessEmptyTransmit(writeDone(queued), waited, error))
  <2>1. Keeps(dev, writeDone(queued))
    BY <1>1, WriteDoneKeeps
  <2>2. Calm(dev, writeDone(queued))
    BY <1>1, WriteDoneIsCalm
  <2> HIDE DEF writeDone
  <2>3. Good(writeDone(queued)) /\ OtherPaths(writeDone(queued)) >= 0
    BY <1>1, <2>1 DEF Keeps
  <2>4. QED
    BY <2>2, <2>3, ProcessEmptyTransmitIsCalm, CalmIsTransitive, CalmSound
<1>3. ASSUME NEW n \in 1 .. MaxLen PROVE KeepsAll(dev, GiveWriteToIsr(dev, n))
  BY <1>1, SizeAssumption, GiveWriteToIsrSound DEF KeepsAll
<1>4. \/ \E queued \in {FALSE, dev.writesQueued}, waited \in BOOLEAN, error \in LineErrors :
           Synchronize(ProcessEmptyTransmit(writeDone(queued), waited, error))
      \/ \E n \in 1 .. MaxLen : Synchronize(GiveWriteToIsr(dev, n))
  BY DEF EndWrite
<1> HIDE DEF writeDone
<1>5. QED
  BY <1>1, <1>2, <1>3, <1>4, SynchronizeFlow

\* WriteQueue is taken to be in use, or to be idle.
LEMMA QueueFlow ==
  ASSUME IInv, QueueWrite \/ QueueEmptied
  PROVE  KeepsAll(dev, dev') /\ isr' = isr
<1>1. Good(dev) /\ dev.currentWrite \in BOOLEAN
  BY IInvGood DEF Good, Device
<1>2. PICK queued \in BOOLEAN : dev' = [dev EXCEPT !.writesQueued = queued]
  BY DEF QueueWrite, QueueEmptied
<1>3. dev' = [dev EXCEPT !.currentWrite = dev.currentWrite, !.writesQueued = queued]
  BY <1>1, <1>2 DEF Good, Device
<1>4. Calm(dev, dev')
  BY <1>1, <1>3, WriteDoneIsCalm
<1>5. QED
  BY <1>4, CalmSound DEF QueueWrite, QueueEmptied

\* Break, the ioctls that act on the lines, and the flow control setting.
LEMMA ControlsFlow ==
  ASSUME IInv, \/ TurnOnBreak \/ TurnOffBreak \/ PretendXoff \/ PretendXon
               \/ SetRTS \/ GetModemUpdate \/ SetHandFlow \/ TakeChars
  PROVE  KeepsAll(dev, dev') /\ isr' = isr
<1>1. Good(dev) /\ OtherPaths(dev) >= 0
  BY IInvGood
<1>2. ASSUME NEW s \in {"XOFF", "BREAK"}
      PROVE  /\ dev.txHolding \cup {s} \in SUBSET {"XOFF", "CTS", "BREAK"}
             /\ dev.txHolding \ {s} \in SUBSET {"XOFF", "CTS", "BREAK"}
             /\ "CTS" \in dev.txHolding \cup {s} <=> "CTS" \in dev.txHolding
             /\ "CTS" \in dev.txHolding \ {s} <=> "CTS" \in dev.txHolding
  BY <1>1 DEF Good, Device
\* The reasons to hold transmission, after one more and after one less.
<1>3. ASSUME NEW d, Good(d), NEW s \in {"XOFF", "BREAK"}, d.txHolding = dev.txHolding
      PROVE  LET e == [d EXCEPT !.txHolding = @ \cup {s}] IN
             Good(e) /\ KeepsAll(d, e) /\ e.txHolding # {}
  <2> DEFINE e == [d EXCEPT !.txHolding = @ \cup {s}]
  <2>1. Good(e)
    BY <1>2, <1>3, TxHoldingKeeps DEF Keeps
  <2>2. KeepsFlow(d, e) /\ e.txHolding = d.txHolding \cup {s}
    BY <1>2, <1>3, TxHoldingSound DEF KeepsFlow
  <2> HIDE DEF e
  <2>3. KeepsAll(d, e) /\ e.txHolding # {}
    BY <2>2 DEF KeepsAll, KeepsAwake, Awake
  <2>4. QED
    BY <2>1, <2>3 DEF e
<1>4. ASSUME NEW s \in {"XOFF", "BREAK"}
      PROVE  LET e == [dev EXCEPT !.txHolding = @ \ {s}] IN
             Good(e) /\ KeepsFlow(dev, e) /\ OtherPaths(e) >= 0
  <2> DEFINE e == [dev EXCEPT !.txHolding = @ \ {s}]
  <2>1. Good(e) /\ OtherPaths(e) >= 0
    BY <1>1, <1>2, TxHoldingKeeps DEF Keeps
  <2>2. KeepsFlow(dev, e)
    BY <1>1, <1>2, TxHoldingSound DEF KeepsFlow
  <2>3. QED
    BY <2>1, <2>2
<1>5. CASE TurnOnBreak
  <2> DEFINE line == dev.rts \/ Toggling(dev)
             up == [dev EXCEPT !.rts = line]
             e == [up EXCEPT !.txHolding = @ \cup {"BREAK"}]
  <2>1. line \in BOOLEAN
    OBVIOUS
  <2>2. Good(up)
    BY <1>1, <2>1, RxHoldingKeeps DEF Keeps
  <2>3. Synchronize(e)
    BY <1>5 DEF TurnOnBreak
  <2> HIDE DEF line
  <2>4. /\ SameFlow(dev, up) /\ up.thr = dev.thr /\ up.holdingEmpty = dev.holdingEmpty
        /\ up.rts = line
    BY <1>1 DEF Good, Device, SameFlow
  <2> HIDE DEF up
  <2>5. KeepsAll(dev, up)
    <3>1. /\ Restarts(dev) => Restarts(up)
          /\ Told(dev) => Told(up)
          /\ KeepsHold(dev, up) /\ KeepsAwake(dev, up)
      BY <2>4 DEF SameFlow, Restarts, Woken, Told, KeepsHold, KeepsAwake, CtsHeld,
                  StaleWoken, Awake, Work
    <3>2. Lines(dev) => Lines(up)
      BY <2>4 DEF SameFlow, Lines, LinesIn, HardwareEmpty, Toggling, line
    <3>3. QED
      BY <3>1, <3>2 DEF KeepsAll, KeepsFlow, KeepsSound
  <2>6. KeepsAll(up, e)
    BY <1>3, <2>2, <2>4 DEF SameFlow
  <2> HIDE DEF e
  <2>7. QED
    BY <2>3, <2>5, <2>6, KeepsAllIsTransitive, SynchronizeFlow
<1>6. CASE TurnOffBreak
  <2> DEFINE d == [dev EXCEPT !.txHolding = @ \ {"BREAK"}]
             restarts == d.txHolding = {} /\ Work(d) /\ d.holdingEmpty
  <2>1. Good(d) /\ KeepsFlow(dev, d) /\ OtherPaths(d) >= 0
    BY <1>4
  <2>2. IF restarts THEN Synchronize(Poke(d))
                    ELSE \E error \in LineErrors : Synchronize(TryToLowerRTS(d, error))
    BY <1>6 DEF TurnOffBreak
  <2> HIDE DEF d
  <2>3. CASE restarts
    <3>1. KeepsFlow(dev, Poke(d)) /\ Awake(Poke(d))
      BY <2>1, PokeIsCalm, CalmSound, KeepsFlowIsTransitive DEF Awake
    <3>2. QED
      BY <2>2, <2>3, <3>1, SynchronizeFlow DEF KeepsAll, KeepsAwake
  <2>4. CASE ~restarts
    <3>1. Restarts(d) => Awake(d)
      BY <2>4 DEF Awake, Restarts
    <3>2. KeepsAll(dev, d)
      BY <2>1, <3>1 DEF KeepsAll, KeepsAwake, KeepsFlow, KeepsSound
    <3>3. ASSUME NEW error PROVE KeepsAll(dev, TryToLowerRTS(d, error))
      BY <2>1, <3>2, TryToLowerRTSIsCalm, CalmSound, KeepsAllIsTransitive
    <3>4. QED
      BY <2>2, <2>4, <3>3, SynchronizeFlow
  <2>5. QED
    BY <2>3, <2>4
<1>7. CASE PretendXoff
  <2> DEFINE d == [dev EXCEPT !.txHolding = @ \cup {"XOFF"}]
  <2>1. Good(d) /\ KeepsAll(dev, d)
    BY <1>1, <1>3
  <2>2. Synchronize(StartLoweringIf(TRUE, d))
    BY <1>7 DEF PretendXoff
  <2> HIDE DEF d
  <2>3. KeepsAll(dev, StartLoweringIf(TRUE, d))
    BY <2>1, StartLoweringIfIsCalm, CalmSound, KeepsAllIsTransitive
  <2>4. QED
    BY <2>2, <2>3, SynchronizeFlow
<1>8. CASE PretendXon
  <2> DEFINE d == [dev EXCEPT !.txHolding = @ \ {"XOFF"}]
             restarts == d.txHolding = {} /\ Work(d)
             e == PokeIf(restarts, d)
  <2>1. Synchronize(e)
    BY <1>8 DEF PretendXon
  <2>2. Good(d) /\ KeepsFlow(dev, d)
    BY <1>4
  <2> HIDE DEF d
  <2>3. Calm(d, e) /\ (restarts /\ Restarts(d) => Woken(e))
    BY <2>2, PokeIfIsCalm
  <2>4. Restarts(d) => Awake(e)
    <3>1. CASE restarts
      BY <2>3, <3>1 DEF Awake
    <3>2. CASE ~restarts
      BY <2>3, <3>2, CalmSound DEF Awake
    <3>3. QED
      BY <3>1, <3>2
  <2> HIDE DEF e
  <2>5. KeepsFlow(dev, e)
    BY <2>2, <2>3, CalmSound, KeepsFlowIsTransitive
  <2>6. KeepsAll(dev, e)
    BY <2>2, <2>4, <2>5 DEF KeepsAll, KeepsAwake, KeepsFlow, KeepsSound
  <2>7. QED
    BY <2>1, <2>6, SynchronizeFlow
<1>9. CASE SetRTS
  <2>1. PICK on \in BOOLEAN : Synchronize([dev EXCEPT !.rts = on])
    BY <1>9 DEF SetRTS
  <2> DEFINE e == [dev EXCEPT !.rts = on]
  <2>2. /\ SameFlow(dev, e) /\ e.thr = dev.thr /\ e.holdingEmpty = dev.holdingEmpty
    BY <1>1 DEF Good, Device, SameFlow
  <2> HIDE DEF e
  <2>3. dev.handFlow.rts \notin {"HANDSHAKE", "TOGGLE"}
    BY <1>9 DEF SetRTS
  <2>4. /\ Restarts(dev) => Restarts(e)
        /\ Told(dev) => Told(e)
        /\ KeepsHold(dev, e) /\ KeepsAwake(dev, e)
    BY <2>2 DEF SameFlow, Restarts, Woken, Told, KeepsHold, KeepsAwake, CtsHeld,
                StaleWoken, Awake, Work
  <2>5. Lines(dev) => Lines(e)
    BY <2>2, <2>3 DEF SameFlow, Lines, LinesIn
  <2>6. KeepsAll(dev, e)
    BY <2>4, <2>5 DEF KeepsAll, KeepsFlow, KeepsSound
  <2>7. QED
    BY <2>1, <2>6, SynchronizeFlow DEF e
<1>10. ASSUME NEW d, Good(d), KeepsSound(dev, d), Awake(dev) => Awake(d)
       PROVE  KeepsAll(dev, HandleModemUpdate(d, FALSE))
  <2> DEFINE e == HandleModemUpdate(d, FALSE)
  <2>1. /\ KeepsSound(d, e) /\ CtsHeld(e) /\ StaleWoken(e)
        /\ Restarts(d) /\ Awake(d) => Awake(e)
    BY <1>10, HandleModemUpdateSound
  <2> HIDE DEF e
  <2>2. QED
    BY <1>10, <2>1 DEF KeepsAll, KeepsFlow, KeepsSound, KeepsHold, KeepsAwake, e
<1>11. CASE GetModemUpdate
  <2>1. Synchronize(HandleModemUpdate(dev, FALSE))
    BY <1>11 DEF GetModemUpdate
  <2>2. KeepsSound(dev, dev)
    BY DEF KeepsSound
  <2>3. QED
    BY <1>1, <1>10, <2>1, <2>2, SynchronizeFlow
<1>12. CASE SetHandFlow
  <2>1. PICK new \in HandFlows, error \in LineErrors :
          Synchronize(HandleModemUpdate(SetupNewHandFlow(dev, new, error), FALSE))
    BY <1>12 DEF SetHandFlow
  <2> DEFINE d == SetupNewHandFlow(dev, new, error)
  <2>2. KeepsSound(dev, d) /\ (Awake(dev) => Awake(d)) /\ Good(d)
    BY <1>1, HandFlowAssumption, SetupNewHandFlowSound
  <2> HIDE DEF d
  <2>3. KeepsAll(dev, HandleModemUpdate(d, FALSE))
    BY <1>10, <2>2
  <2>4. QED
    BY <2>1, <2>3, SynchronizeFlow DEF d
<1>13. CASE TakeChars
  <2>1. PICK n \in 1 .. dev.charsInInterruptBuffer :
          Synchronize(HandleReducedIntBuffer([dev EXCEPT !.charsInInterruptBuffer = @ - n]))
    BY <1>13 DEF TakeChars
  <2> DEFINE d == [dev EXCEPT !.charsInInterruptBuffer = @ - n]
  <2>2. dev.charsInInterruptBuffer - n \in 0 .. BufferSize
    BY <1>1, SizeAssumption DEF Good, Device
  <2>3. Good(d)
    BY <1>1, <2>2, CharsKeep DEF Keeps
  <2>4. KeepsAll(dev, d)
    BY <1>1, CharsCalm, CalmSound
  <2> HIDE DEF d
  <2>5. KeepsAll(d, HandleReducedIntBuffer(d))
    BY <2>3, HandleReducedIntBufferSound DEF KeepsAll, KeepsAwake
  <2>6. QED
    BY <2>1, <2>4, <2>5, KeepsAllIsTransitive, SynchronizeFlow DEF d
<1>14. QED
  BY <1>5, <1>6, <1>7, <1>8, <1>9, <1>11, <1>12, <1>13

\* The path of execution that lowers RTS.
LEMMA PathsFlow ==
  ASSUME IInv, StartTimerLowerRTS \/ LowerRTSTimerFires \/ InvokePerhapsLowerRTS
  PROVE  Calm(dev, dev') /\ isr' = isr
<1>1. Good(dev) /\ OtherPaths(dev) = TimerPaths
  BY IInvGood
<1>3. CASE StartTimerLowerRTS
  <2> DEFINE n == IF lowerRTSTimer.set THEN dev.countOfTryingToLowerRTS - 1
                                       ELSE dev.countOfTryingToLowerRTS
             e == [dev EXCEPT !.startTimerLowerRTSDpc = FALSE,
                              !.countOfTryingToLowerRTS = n]
  <2>1. dev' = e /\ isr' = isr
    BY <1>3 DEF StartTimerLowerRTS
  <2> HIDE DEF n
  <2>2. /\ SameFlow(dev, e) /\ e.thr = dev.thr /\ e.rts = dev.rts
        /\ e.holdingEmpty = dev.holdingEmpty
    BY <1>1 DEF Good, Device, SameFlow
  <2> HIDE DEF e
  <2>3. Calm(dev, e)
    BY <2>2 DEF Calm, SameFlow, Restarts, Woken
  <2>4. QED
    BY <2>1, <2>3
<1>4. CASE LowerRTSTimerFires
  BY <1>4, CalmItself DEF LowerRTSTimerFires
<1>5. CASE InvokePerhapsLowerRTS
  <2>1. OtherPaths(dev) >= 1
    BY <1>1, <1>5 DEF TimerPaths, InvokePerhapsLowerRTS
  <2>2. QED
    BY <1>1, <1>5, <2>1, PerhapsLowerRTSIsCalm DEF InvokePerhapsLowerRTS
<1>6. QED
  BY <1>3, <1>4, <1>5

\* The inductive invariant of flow control, next to that of the counts.
THEOREM SpecFlowInv == Spec => []FlowInv
<1>1. IInv /\ FlowInv /\ [Next]_vars => FlowInv'
  <2> SUFFICES ASSUME IInv, FlowInv, [Next]_vars PROVE FlowInv'
    OBVIOUS
  <2>1. CASE Next
    <3>1. CASE ISR
      BY <3>1, ISRFlow, KeepsFlowSound DEF FlowInv, KeepsFlow
    <3>2. CASE ~ISR
      <4>1. KeepsAll(dev, dev') /\ isr' = isr
        BY <2>1, <3>2, UARTFlow, WritesFlow, EndWriteFlow, QueueFlow, ControlsFlow,
           PathsFlow, CalmSound, Zenon DEF Next, Client
      <4>2. QED
        BY <4>1, KeepsFlowSound DEF FlowInv, Sound, KeepsAll, KeepsFlow, KeepsAwake
    <3>3. QED
      BY <3>1, <3>2
  <2>2. CASE UNCHANGED vars
    BY <2>2 DEF vars, FlowInv
  <2>3. QED
    BY <2>1, <2>2
<1>2. QED
  BY <1>1, InitFlowInv, SpecIInv, PTL DEF Spec

\* No wakeup is lost: whichever routine gave the ISR work or took the last reason to
\* hold transmission away, and however stale HoldingEmpty was when it decided whether
\* to poke, the transmitter interrupts or will (modmflow.c, isr.c, write.c).
THEOREM SpecWakeupNotLost == Spec => []WakeupNotLost
<1>1. FlowInv => WakeupNotLost
  BY DEF FlowInv, WakeupNotLost, FlowCharPending, Awake, Woken
<1>2. QED
  BY <1>1, SpecFlowInv, PTL

\* The peer is never left stopped by an Xoff that the driver forgot, nor sending while
\* the driver believes it is stopped (SerialPutChar, SerialHandleReducedIntBuffer,
\* SerialSetupNewHandFlow, SerialISR).
THEOREM SpecPeerAgrees == Spec => []PeerAgrees
<1>1. FlowInv => PeerAgrees
  BY DEF FlowInv, Sound, PeerAgrees, FlowCharPending, Told
<1>2. QED
  BY <1>1, SpecFlowInv, PTL

\* Under RTS handshake the line and its reason in RXHolding agree, across the changes
\* from and to the other modes (SerialSetupNewHandFlow).
THEOREM SpecHandshakeLine == Spec => []HandshakeLine
<1>1. FlowInv => HandshakeLine
  BY DEF FlowInv, Sound, HandshakeLine, Lines, LinesIn
<1>2. QED
  BY <1>1, SpecFlowInv, PTL

\* Under transmit toggling RTS is up as long as the hardware holds a character
\* (SerialPerhapsLowerRTS, SerialISR).
THEOREM SpecRtsUpWhileSending == Spec => []RtsUpWhileSending
<1>1. FlowInv => RtsUpWhileSending
  BY DEF FlowInv, Sound, RtsUpWhileSending, Lines, LinesIn, Toggling
<1>2. QED
  BY <1>1, SpecFlowInv, PTL
=============================================================================
