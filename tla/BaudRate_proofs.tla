-------------------------- MODULE BaudRate_proofs --------------------------
(***************************************************************************)
(* For every clock, sample rate and rate: the divisor that is accepted     *)
(* from 9600 baud on is within one percent (though the code never rounds   *)
(* it up), and the latch of the UART is the divisor of the rate that is    *)
(* recorded.                                                               *)
(***************************************************************************)
EXTENDS BaudRate, TLAPS

(* Arithmetic.                                                             *)

LEMMA DivMod ==
  ASSUME NEW a \in Nat, NEW b \in Nat, b > 0
  PROVE  /\ a \div b \in Nat /\ a % b \in Nat
         /\ a % b < b
         /\ a = b * (a \div b) + (a % b)
  OBVIOUS

LEMMA TimesOneOrMore ==
  ASSUME NEW a \in Nat, NEW b \in Nat, b >= 1
  PROVE  a * b >= a /\ b * a >= a
  OBVIOUS

LEMMA ULongIsSmall ==
  ASSUME NEW n \in Nat, n < LongRange
  PROVE  ULong(n) = n
  BY RangeAssumption DEF ULong

LEMMA HalfOfTheClock ==
  ASSUME NEW clock \in Nat, NEW denominator \in Nat,
         denominator > 0, denominator <= clock
  PROVE  /\ clock \div denominator \in Nat /\ clock % denominator \in Nat
         /\ clock = denominator * (clock \div denominator) + (clock % denominator)
         /\ 2 * (clock % denominator) <= clock
<1> DEFINE q == clock \div denominator
           r == clock % denominator
<1>1. q \in Nat /\ r \in Nat /\ r < denominator /\ clock = denominator * q + r
  BY DivMod
<1>2. q >= 1
  <2>1. SUFFICES ASSUME q = 0 PROVE FALSE
    BY <1>1
  <2>2. denominator * q = 0
    BY <2>1
  <2> QED BY <1>1, <2>2
<1>3. denominator * q \in Nat /\ denominator * q >= denominator
  BY <1>1, <1>2, TimesOneOrMore
<1>4. \A p, s \in Nat : clock = p + s /\ p >= denominator /\ s < denominator
                          => 2 * s <= clock
  OBVIOUS
<1>5. 2 * r <= clock
  <2> HIDE DEF q, r
  <2> QED BY <1>1, <1>3, <1>4
<1> QED BY <1>1, <1>5

\* The condition to round up (utils.c, "Round up.") never holds for a denominator that
\* is accepted: a remainder above half the clock does not fit under the clock.
THEOREM NeverRoundsUp ==
  ASSUME NEW clock \in Nat, NEW denominator \in Nat, NEW baud \in Int,
         denominator > 0, denominator <= clock, 2 * clock < LongRange
  PROVE  Quotient(clock, denominator, baud) = clock \div denominator
<1> DEFINE r == clock % denominator
<1>1. r \in Nat /\ 2 * r <= clock
  BY HalfOfTheClock
<1>2. 2 * r \in Nat /\ 2 * r <= clock /\ 2 * r < LongRange
  <2> HIDE DEF r
  <2> QED BY <1>1, RangeAssumption
<1>3. ULong(2 * r) = 2 * r
  BY <1>2, ULongIsSmall
<1> QED BY <1>2, <1>3 DEF Quotient

\* Of the two ways to have a small remainder only the first is possible.
LEMMA SmallRemainder ==
  ASSUME NEW clock \in Nat, NEW denominator \in Nat,
         denominator > 0, denominator <= clock, RemainderIsSmall(clock, denominator)
  PROVE  100 * (clock % denominator) < clock
<1> DEFINE r == clock % denominator
           m == clock \div 100
<1>1. r \in Nat /\ 2 * r <= clock
  BY HalfOfTheClock
<1>2. m \in Nat /\ 100 * m <= clock
  <2>1. m \in Nat /\ clock % 100 \in Nat /\ clock = 100 * m + (clock % 100)
    BY DivMod
  <2> HIDE DEF m
  <2> QED BY <2>1
<1>3. r < m \/ r + m >= clock
  BY DEF RemainderIsSmall
<1> HIDE DEF r, m
<1>4. 100 * r < clock
  BY <1>1, <1>2, <1>3
<1> QED BY <1>4 DEF r

\* A product that wraps around LongRange is refused: what is left of it is below the
\* rate, as a LONG, or above the clock.
LEMMA WrapIsRefused ==
  ASSUME NEW clock \in Nat, NEW sample \in Nat, NEW baud \in Nat,
         clock * sample < LongRange, BaudIsLegal(sample, baud),
         Denominator(sample, baud) <= clock
  PROVE  baud * sample \in Nat /\ Denominator(sample, baud) = baud * sample
<1>1. baud * sample \in Nat
  OBVIOUS
<1>2. ULong(baud * sample) \in Nat
  BY <1>1, RangeAssumption DEF ULong
<1>3. AsLong(baud * sample) <= ULong(baud * sample)
  BY <1>2, RangeAssumption DEF AsLong
<1>4. baud <= clock
  <2>1. AsLong(baud * sample) \in Int /\ AsLong(baud * sample) >= baud
    BY <1>2, RangeAssumption DEF BaudIsLegal, AsLong
  <2> QED BY <1>2, <1>3, <2>1 DEF Denominator
<1>5. baud * sample <= clock * sample
  BY <1>4
<1>6. baud * sample < LongRange
  <2>1. clock * sample \in Nat
    OBVIOUS
  <2> QED BY <1>1, <1>5, <2>1, RangeAssumption
<1> QED BY <1>1, <1>6, ULongIsSmall DEF Denominator

\* From 9600 baud on, what SerialGetDivisorFromBaud accepts gives a line at most one
\* percent fast and never slow ("Allow up to a 1 percent error"), for every clock,
\* sample rate and rate that the widths of the integers allow.
THEOREM AcceptedWithinOnePercent ==
  ASSUME NEW clock \in Nat, NEW sample \in Nat, NEW baud \in Int,
         sample > 0, baud >= 9600,
         2 * clock < LongRange, clock * sample < LongRange,
         clock < 9600 * sample * (ShortRange - 1),
         SpecialCase(clock, baud) = {},
         GetDivisorFromBaud(clock, sample, baud) # Unsupported
  PROVE  OnePercent(clock, sample, baud, GetDivisorFromBaud(clock, sample, baud))
<1> DEFINE product == baud * sample
           q == clock \div product
           r == clock % product
<1>1. /\ BaudIsLegal(sample, baud)
      /\ Denominator(sample, baud) <= clock
      /\ RemainderIsSmall(clock, Denominator(sample, baud))
      /\ GetDivisorFromBaud(clock, sample, baud)
           = Quotient(clock, Denominator(sample, baud), baud) % ShortRange
  <2>1. Denominator(sample, baud) \in Int
    BY RangeAssumption DEF Denominator, ULong
  <2> QED BY <2>1 DEF GetDivisorFromBaud, CalculatedDivisor
<1>2. product \in Nat /\ Denominator(sample, baud) = product
  BY <1>1, WrapIsRefused
<1>3. product > 0 /\ product >= 9600 * sample
  OBVIOUS
<1>4. Quotient(clock, product, baud) = q
  BY <1>1, <1>2, <1>3, NeverRoundsUp
<1>5. q \in Nat /\ r \in Nat /\ clock = product * q + r
  BY <1>1, <1>2, <1>3, HalfOfTheClock
<1>6. 100 * r < clock
  BY <1>1, <1>2, <1>3, SmallRemainder
<1>7. q < ShortRange
  <2>1. product * q <= clock /\ product * q \in Nat
    <3> HIDE DEF product, q, r
    <3> QED BY <1>2, <1>5
  <2>2. 9600 * sample * q <= product * q
    <3> HIDE DEF product, q
    <3> QED BY <1>2, <1>3, <1>5
  <2>3. SUFFICES ASSUME q >= ShortRange PROVE FALSE
    BY <1>5, RangeAssumption
  <2>4. 9600 * sample * (ShortRange - 1) <= 9600 * sample * q
    <3> HIDE DEF q
    <3> QED BY <1>5, <2>3, RangeAssumption
  <2> HIDE DEF product, q
  <2> QED BY <1>2, <1>5, <2>1, <2>2, <2>4, RangeAssumption
<1>8. GetDivisorFromBaud(clock, sample, baud) = q
  <2>1. q % ShortRange = q
    <3> HIDE DEF q
    <3> QED BY <1>5, <1>7, RangeAssumption
  <2> QED BY <1>1, <1>2, <1>4, <2>1
<1>9. q * baud * sample = product * q
  <2> HIDE DEF q
  <2> QED BY <1>5
<1> HIDE DEF product, q, r
<1> QED BY <1>2, <1>5, <1>6, <1>8, <1>9 DEF OnePercent

-----------------------------------------------------------------------------
(* The latch.                                                              *)

\* What is open is powered; the clock is noted when it is no longer that of the latch.
OpenIsPowered == ext.deviceIsOpened => ext.powered

LatchAgrees == ext.deviceIsOpened /\ disturbed \subseteq Harmless => latch = LatchOf(ext)

IInv == TypeOK /\ OpenIsPowered /\ LatchAgrees

LEMMA DivisorIsInt ==
  ASSUME NEW clock \in Nat, NEW sample \in Nat, NEW baud \in Int
  PROVE  GetDivisorFromBaud(clock, sample, baud) \in Int
<1> DEFINE d == Denominator(sample, baud)
<1>1. Unsupported \in Int
  BY RangeAssumption DEF Unsupported
<1>2. \A s \in SpecialDivisors : s.divisor \in Int
  BY DEF SpecialDivisors
<1>3. SpecialCase(clock, baud) # {} =>
        (CHOOSE s \in SpecialCase(clock, baud) : TRUE).divisor \in Int
  BY <1>2 DEF SpecialCase
<1>4. ASSUME BaudIsLegal(sample, baud)
      PROVE  CalculatedDivisor(clock, sample, baud) \in Int
  <2>1. d \in Nat
    BY RangeAssumption DEF Denominator, ULong
  <2>2. d > 0
    BY <1>4, <2>1, RangeAssumption DEF BaudIsLegal, AsLong, Denominator
  <2>3. clock \div d \in Int
    <3> HIDE DEF d
    <3> QED BY <2>1, <2>2, DivMod
  <2>4. Quotient(clock, d, baud) % ShortRange \in Int
    <3> HIDE DEF d
    <3> QED BY <2>3, RangeAssumption DEF Quotient
  <2> QED BY <1>1, <2>4 DEF CalculatedDivisor
<1> QED
  BY <1>1, <1>3, <1>4 DEF GetDivisorFromBaud

LEMMA SettingsAreNumbers ==
  ASSUME TypeOK
  PROVE  /\ ext.clockRate \in Nat /\ ext.sampleRate \in Nat /\ ext.sampleRate > 0
         /\ ext.currentBaud \in Int /\ ext.fixedBaudRate \in Int
         /\ DefaultClockRate \in {PlainClock, ProgrammedClock, PCIeClock}
<1>1. {PlainClock, ProgrammedClock, PCIeClock} \subseteq Nat
  BY SMT DEF PlainClock, ProgrammedClock, PCIeClock
<1>2. /\ ext.clockRate \in ClockRates \cup {PlainClock, ProgrammedClock, PCIeClock}
      /\ ext.sampleRate \in RateSamples /\ ext.currentBaud \in Int
      /\ ext.fixedBaudRate \in FixedRates \cup {NotFixed}
  BY DEF TypeOK
<1>3. DefaultClockRate \in {PlainClock, ProgrammedClock, PCIeClock}
  BY DEF DefaultClockRate
<1>4. NotFixed \in Int /\ \A n \in RateSamples : n \in Nat /\ n > 0
  BY InputAssumption DEF NotFixed
<1>5. FixedRates \subseteq Int /\ ClockRates \subseteq Nat
  BY InputAssumption
<1>6. ext.clockRate \in Nat
  BY <1>1, <1>2, <1>5, Zenon
<1>7. ext.sampleRate \in Nat /\ ext.sampleRate > 0
  BY <1>2, <1>4
<1>8. ext.fixedBaudRate \in Int
  BY <1>2, <1>4, <1>5
<1> QED BY <1>2, <1>3, <1>6, <1>7, <1>8

LEMMA GetDivisorIsInt ==
  ASSUME TypeOK, NEW baud \in Int
  PROVE  GetDivisor(ext, baud) \in Int
  BY SettingsAreNumbers, DivisorIsInt DEF GetDivisor, Garbage

\* What is computed depends on the clock and the sample rate only, and what is written on
\* these and CurrentBaud.
LEMMA SameSettings ==
  ASSUME NEW e, NEW f, NEW baud, e.clockRate = f.clockRate, e.sampleRate = f.sampleRate
  PROVE  /\ GetDivisor(e, baud) = GetDivisor(f, baud)
         /\ e.currentBaud = f.currentBaud => LatchOf(e) = LatchOf(f)
  BY DEF GetDivisor, LatchOf, SetBaud

\* The divisor of the settings, on the cards that have one of 16 bits.
LEMMA LatchOfIsInt ==
  ASSUME TypeOK, card # "PCIe"
  PROVE  LatchOf(ext) \in Int
  BY SettingsAreNumbers, GetDivisorIsInt DEF LatchOf, SetBaud

LEMMA InitIInv == Init => IInv
<1> SUFFICES ASSUME Init PROVE IInv
  OBVIOUS
<1>0. PICK s \in RateSamples : ext = InitialExt(s)
  BY Zenon DEF Init
<1>1. ext = [currentBaud |-> 1200, clockRate |-> DefaultClockRate, sampleRate |-> s,
             fixedBaudRate |-> NotFixed, deviceIsOpened |-> FALSE, reopen |-> FALSE,
             powered |-> TRUE]
  BY <1>0 DEF InitialExt
<1>2. card \in CardTypes /\ disturbed = {} /\ latch = LatchOf(ext)
  BY CardAssumption, Zenon DEF Init
<1>3. /\ DefaultClockRate \in {PlainClock, ProgrammedClock, PCIeClock}
      /\ card # "PCIe" => DefaultClockRate \in {PlainClock, ProgrammedClock}
  BY <1>2 DEF DefaultClockRate
<1>5. card # "PCIe" => latch \in Int
  <2>1. ext.clockRate \in Nat /\ ext.sampleRate \in Nat /\ ext.currentBaud \in Int
    <3>1. {PlainClock, ProgrammedClock, PCIeClock} \subseteq Nat
      BY SMT DEF PlainClock, ProgrammedClock, PCIeClock
    <3> QED BY <1>1, <1>3, <3>1, InputAssumption
  <2> QED BY <1>2, <2>1, DivisorIsInt DEF LatchOf, SetBaud, GetDivisor
<1>6. TypeOK
  BY <1>1, <1>2, <1>3, <1>5 DEF TypeOK
<1>7. OpenIsPowered /\ LatchAgrees
  BY <1>1, <1>2 DEF OpenIsPowered, LatchAgrees
<1> QED BY <1>6, <1>7 DEF IInv

-----------------------------------------------------------------------------
(* Each action.                                                            *)

\* The request records its rate and writes the divisor of it.
LEMMA SetBaudRateIInv ==
  ASSUME IInv, SetBaudRate
  PROVE  IInv'
<1>1. PICK b \in Bauds :
        /\ ext' = [ext EXCEPT !.currentBaud = BaudAskedFor(b)]
        /\ latch' = SetBaud([ext EXCEPT !.currentBaud = BaudAskedFor(b)],
                             GetDivisor(ext, BaudAskedFor(b)))
  BY Zenon DEF SetBaudRate
<1>2. ext.deviceIsOpened /\ card' = card /\ disturbed' = {}
  BY Zenon DEF SetBaudRate
<1>3. BaudAskedFor(b) \in Int
  BY InputAssumption, SettingsAreNumbers DEF BaudAskedFor, IInv
<1>4. /\ ext'.clockRate = ext.clockRate /\ ext'.sampleRate = ext.sampleRate
      /\ ext'.currentBaud = BaudAskedFor(b)
      /\ ext'.deviceIsOpened = ext.deviceIsOpened /\ ext'.powered = ext.powered
  BY <1>1 DEF IInv, TypeOK
<1>5. latch' = SetBaud(ext', GetDivisor(ext', ext'.currentBaud))
  BY <1>1, <1>4 DEF GetDivisor
<1>6. card # "PCIe" => latch' \in Int
  BY <1>1, <1>3, GetDivisorIsInt DEF SetBaud, IInv
<1>7. TypeOK'
  <2>1. ext' \in [currentBaud : Int,
                  clockRate : ClockRates \cup {PlainClock, ProgrammedClock, PCIeClock},
                  sampleRate : RateSamples, fixedBaudRate : FixedRates \cup {NotFixed},
                  deviceIsOpened : BOOLEAN, reopen : BOOLEAN, powered : BOOLEAN]
    BY <1>1, <1>3 DEF IInv, TypeOK
  <2> QED BY <1>2, <1>4, <1>6, <2>1 DEF IInv, TypeOK
<1>8. OpenIsPowered' /\ LatchAgrees'
  BY <1>2, <1>4, <1>5 DEF IInv, OpenIsPowered, LatchAgrees, LatchOf, SetBaud, GetDivisor
<1> QED BY <1>7, <1>8 DEF IInv

\* A change of the settings that is not noted as one does not change what is computed.
LEMMA SettingIInv ==
  ASSUME IInv, TypeOK',
         card' = card, latch' = latch, disturbed \subseteq disturbed',
         \/ /\ ext'.clockRate = ext.clockRate /\ ext'.sampleRate = ext.sampleRate
         \/ ~(disturbed' \subseteq Harmless),
         ext'.currentBaud = ext.currentBaud, ext'.deviceIsOpened = ext.deviceIsOpened,
         ext'.reopen = ext.reopen, ext'.powered = ext.powered
  PROVE  IInv'
<1>1. Harmless' = Harmless /\ OpenIsPowered'
  BY DEF Harmless, IInv, OpenIsPowered
<1>2. ASSUME disturbed' \subseteq Harmless
      PROVE  LatchOf(ext)' = LatchOf(ext)
  BY <1>2 DEF LatchOf, GetDivisor, SetBaud
<1>3. LatchAgrees'
  BY <1>1, <1>2 DEF IInv, LatchAgrees
<1> QED BY <1>1, <1>3 DEF IInv

LEMMA SetClockBitsIInv ==
  ASSUME IInv, SetClockBits
  PROVE  IInv'
<1>1. PICK f \in ClockRates : /\ ext' = [ext EXCEPT !.clockRate = f]
                              /\ disturbed' = Disturb("clock", f # ext.clockRate)
  BY Zenon DEF SetClockBits
<1>2. card \in {"FSCC", "PCI"} /\ card' = card /\ latch' = latch
  BY Zenon DEF SetClockBits
<1>3. TypeOK'
  BY <1>1, <1>2 DEF IInv, TypeOK, Disturb
<1>4. /\ ext'.clockRate = f /\ ext'.sampleRate = ext.sampleRate
      /\ ext'.currentBaud = ext.currentBaud /\ ext'.deviceIsOpened = ext.deviceIsOpened
      /\ ext'.reopen = ext.reopen /\ ext'.powered = ext.powered
  BY <1>1 DEF IInv, TypeOK
<1>5. f # ext.clockRate => ~(disturbed' \subseteq Harmless)
  BY <1>1, <1>2 DEF Disturb, Harmless
<1>6. disturbed \subseteq disturbed'
  BY <1>1 DEF Disturb
<1> QED BY <1>2, <1>3, <1>4, <1>5, <1>6, SettingIInv

LEMMA SetSampleRateIInv ==
  ASSUME IInv, SetSampleRate
  PROVE  IInv'
<1>1. PICK s \in RateSamples : /\ ext' = [ext EXCEPT !.sampleRate = s]
                               /\ disturbed' = Disturb("sample", s # ext.sampleRate)
  BY Zenon DEF SetSampleRate
<1>2. card' = card /\ latch' = latch
  BY Zenon DEF SetSampleRate
<1>3. TypeOK'
  BY <1>1, <1>2 DEF IInv, TypeOK, Disturb
<1>4. /\ ext'.clockRate = ext.clockRate /\ ext'.sampleRate = s
      /\ ext'.currentBaud = ext.currentBaud /\ ext'.deviceIsOpened = ext.deviceIsOpened
      /\ ext'.reopen = ext.reopen /\ ext'.powered = ext.powered
  BY <1>1 DEF IInv, TypeOK
<1>5. s # ext.sampleRate => ~(disturbed' \subseteq Harmless)
  BY <1>1 DEF Disturb, Harmless
<1>6. disturbed \subseteq disturbed'
  BY <1>1 DEF Disturb
<1> QED BY <1>2, <1>3, <1>4, <1>5, <1>6, SettingIInv

LEMMA SetFixedBaudRateIInv ==
  ASSUME IInv, SetFixedBaudRate
  PROVE  IInv'
<1>1. PICK rate \in FixedRates \cup {NotFixed} : ext' = [ext EXCEPT !.fixedBaudRate = rate]
  BY Zenon DEF SetFixedBaudRate
<1>2. /\ card' = card /\ latch' = latch
      /\ disturbed' = disturbed
  BY Zenon DEF SetFixedBaudRate
<1>3. TypeOK'
  BY <1>1, <1>2 DEF IInv, TypeOK
<1>4. /\ ext'.clockRate = ext.clockRate /\ ext'.sampleRate = ext.sampleRate
      /\ ext'.currentBaud = ext.currentBaud /\ ext'.deviceIsOpened = ext.deviceIsOpened
      /\ ext'.reopen = ext.reopen /\ ext'.powered = ext.powered
  BY <1>1 DEF IInv, TypeOK
<1> QED BY <1>2, <1>3, <1>4, SettingIInv

\* The reset at open programs the latch from the settings.
LEMMA MarkOpenIInv ==
  ASSUME IInv, MarkOpen
  PROVE  IInv'
<1>1. /\ ext.powered /\ ~ext.deviceIsOpened
      /\ ext' = [ext EXCEPT !.deviceIsOpened = TRUE]
      /\ latch' = LatchOf(ext) /\ disturbed' = {}
      /\ card' = card
  BY Zenon DEF MarkOpen
<1>3. TypeOK'
  BY <1>1, LatchOfIsInt DEF IInv, TypeOK
<1>4. /\ ext'.clockRate = ext.clockRate /\ ext'.sampleRate = ext.sampleRate
      /\ ext'.currentBaud = ext.currentBaud /\ ext'.powered
  BY <1>1 DEF IInv, TypeOK
<1>5. OpenIsPowered'
  BY <1>4 DEF OpenIsPowered
<1>6. LatchAgrees'
  BY <1>1, <1>4 DEF LatchAgrees, LatchOf, SetBaud, GetDivisor
<1> QED BY <1>3, <1>5, <1>6 DEF IInv

LEMMA MarkCloseIInv ==
  ASSUME IInv, MarkClose
  PROVE  IInv'
<1>1. /\ ext' = [ext EXCEPT !.deviceIsOpened = FALSE, !.reopen = FALSE]
      /\ latch' = latch /\ disturbed' = disturbed /\ card' = card
  BY Zenon DEF MarkClose
<1>2. TypeOK' /\ ~ext'.deviceIsOpened
  BY <1>1 DEF IInv, TypeOK
<1>3. OpenIsPowered' /\ LatchAgrees'
  BY <1>2 DEF OpenIsPowered, LatchAgrees
<1> QED BY <1>2, <1>3 DEF IInv

LEMMA D0ExitIInv ==
  ASSUME IInv, D0Exit
  PROVE  IInv'
<1>1. /\ ext.powered
      /\ ext' = [ext EXCEPT !.powered = FALSE, !.deviceIsOpened = FALSE,
                            !.reopen = ext.deviceIsOpened]
      /\ latch' = Garbage /\ disturbed' = disturbed /\ card' = card
  BY Zenon DEF D0Exit
<1>2. ~ext'.deviceIsOpened /\ ~ext'.powered /\ ext'.reopen = ext.deviceIsOpened
  BY <1>1 DEF IInv, TypeOK
<1>3. TypeOK'
  <2>1. ext.deviceIsOpened \in BOOLEAN /\ Garbage \in Int
    BY DEF IInv, TypeOK, Garbage
  <2>2. ext' \in [currentBaud : Int,
                 clockRate : ClockRates \cup {PlainClock, ProgrammedClock, PCIeClock},
                 sampleRate : RateSamples, fixedBaudRate : FixedRates \cup {NotFixed},
                 deviceIsOpened : BOOLEAN, reopen : BOOLEAN, powered : BOOLEAN]
    BY <1>1, <2>1 DEF IInv, TypeOK
  <2>3. ext'.clockRate = ext.clockRate
    BY <1>1 DEF IInv, TypeOK
  <2> QED BY <1>1, <2>1, <2>2, <2>3 DEF IInv, TypeOK
<1>4. OpenIsPowered' /\ LatchAgrees'
  BY <1>2 DEF OpenIsPowered, LatchAgrees
<1> QED BY <1>3, <1>4 DEF IInv

\* The divisor is programmed before SerialFcInit sets the clock back: if that was another
\* one, it is noted.
LEMMA D0EntryIInv ==
  ASSUME IInv, D0Entry
  PROVE  IInv'
<1>1. /\ ~ext.powered
      /\ latch' = LatchOf(ext)
      /\ ext' = [ext EXCEPT !.powered = TRUE, !.deviceIsOpened = ext.reopen,
                            !.clockRate = DefaultClockRate]
      /\ disturbed' = IF ext.clockRate # DefaultClockRate THEN {"clock"} ELSE {}
      /\ card' = card
  BY Zenon DEF D0Entry
<1>2. /\ ext'.deviceIsOpened = ext.reopen /\ ext'.powered
      /\ ext'.clockRate = DefaultClockRate /\ ext'.sampleRate = ext.sampleRate
      /\ ext'.currentBaud = ext.currentBaud
  BY <1>1 DEF IInv, TypeOK
<1>3. TypeOK'
  <2>1. DefaultClockRate \in {PlainClock, ProgrammedClock, PCIeClock}
    BY SettingsAreNumbers DEF IInv
  <2>2. card # "PCIe" => DefaultClockRate \in {PlainClock, ProgrammedClock}
    BY DEF DefaultClockRate
  <2> QED BY <1>1, <2>1, <2>2, LatchOfIsInt DEF IInv, TypeOK
<1>5. OpenIsPowered'
  BY <1>2 DEF OpenIsPowered
<1>7. LatchAgrees'
  <2>1. SUFFICES ASSUME (disturbed \subseteq Harmless)' PROVE latch' = LatchOf(ext)'
    BY DEF LatchAgrees
  <2>2. card = "PCIe" \/ ext.clockRate = DefaultClockRate
    BY <1>1, <2>1 DEF Harmless
  <2> QED BY <1>1, <1>2, <2>2 DEF LatchOf, SetBaud, GetDivisor
<1> QED BY <1>3, <1>5, <1>7 DEF IInv

LEMMA NextIInv == IInv /\ [Next]_vars => IInv'
<1> SUFFICES ASSUME IInv, [Next]_vars PROVE IInv'
  OBVIOUS
<1>1. CASE SetBaudRate
  BY <1>1, SetBaudRateIInv
<1>2. CASE SetClockBits
  BY <1>2, SetClockBitsIInv
<1>3. CASE SetSampleRate
  BY <1>3, SetSampleRateIInv
<1>4. CASE SetFixedBaudRate
  BY <1>4, SetFixedBaudRateIInv
<1>5. CASE MarkOpen
  BY <1>5, MarkOpenIInv
<1>6. CASE MarkClose
  BY <1>6, MarkCloseIInv
<1>7. CASE D0Exit
  BY <1>7, D0ExitIInv
<1>8. CASE D0Entry
  BY <1>8, D0EntryIInv
<1>9. CASE UNCHANGED vars
  <2>1. /\ card' = card /\ ext' = ext /\ latch' = latch
        /\ disturbed' = disturbed
    BY <1>9 DEF vars
  <2>2. TypeOK'
    BY <2>1 DEF IInv, TypeOK
  <2> QED BY <2>1, <2>2, SettingIInv
<1> QED BY <1>1, <1>2, <1>3, <1>4, <1>5, <1>6, <1>7, <1>8, <1>9 DEF Next

-----------------------------------------------------------------------------
(* The theorems of the specification.                                      *)

\* The latch agrees with the settings, whatever the clocks, the sample rates and the
\* rates that the card supports.
THEOREM SpecRateIsAsSet == Spec => []RateIsAsSet
<1>1. IInv => RateIsAsSet
  BY DEF IInv, LatchAgrees, LatchOf, SetBaud, GetDivisor, RateIsAsSet,
         RecordedRateIsSupported
<1> QED BY InitIInv, NextIInv, <1>1, PTL DEF Spec

\* What is not refused is within one percent of what was asked for, from 9600 baud on.
THEOREM SpecLineWithinOnePercent == Spec => []LineWithinOnePercent
<1>1. ASSUME IInv PROVE LineWithinOnePercent
  <2> DEFINE clock == ext.clockRate
             sample == ext.sampleRate
             baud == ext.currentBaud
  <2>1. SUFFICES ASSUME ext.deviceIsOpened, disturbed = {}, card # "PCIe", baud >= 9600,
                        SpecialCase(clock, baud) = {}, latch # Unsupported
                 PROVE  OnePercent(clock, sample, baud, latch)
    BY DEF LineWithinOnePercent
  <2>2. latch = GetDivisorFromBaud(clock, sample, baud)
    BY <1>1, <2>1 DEF IInv, LatchAgrees, LatchOf, SetBaud, GetDivisor
  <2>3. clock \in Nat /\ sample \in Nat /\ sample > 0 /\ baud \in Int
    BY <1>1, SettingsAreNumbers DEF IInv
  <2>4. /\ clock \in ClockRates \cup {PlainClock, ProgrammedClock}
        /\ sample \in RateSamples
    BY <1>1, <2>1 DEF IInv, TypeOK
  <2>5. /\ 2 * clock < LongRange /\ clock * sample < LongRange
        /\ clock \div (9600 * sample) < ShortRange - 1
    BY <2>4, WidthAssumption
  <2>6. clock < 9600 * sample * (ShortRange - 1)
    <3> HIDE DEF clock, sample
    <3> DEFINE unit == 9600 * sample
               q == clock \div unit
               r == clock % unit
    <3>1. unit \in Nat /\ unit > 0
      BY <2>3
    <3>2. q \in Nat /\ r \in Nat /\ r < unit /\ clock = unit * q + r
      <4> HIDE DEF unit
      <4> QED BY <2>3, <3>1, DivMod
    <3>3. q + 1 <= ShortRange - 1 /\ ShortRange - 1 \in Nat
      BY <2>5, <3>2, RangeAssumption
    <3> HIDE DEF unit, q, r
    <3>4. unit * (q + 1) <= unit * (ShortRange - 1)
      BY <3>1, <3>2, <3>3
    <3>5. unit * (q + 1) = unit * q + unit
      BY <3>1, <3>2
    <3>6. clock < unit * (ShortRange - 1)
      BY <3>1, <3>2, <3>3, <3>4, <3>5
    <3> QED BY <3>6 DEF unit
  <2> HIDE DEF clock, sample, baud
  <2> QED BY <2>1, <2>2, <2>3, <2>5, <2>6, AcceptedWithinOnePercent
<1> QED BY InitIInv, NextIInv, <1>1, PTL DEF Spec
\* The bit time is rounded up: as many bit times as the rate asks for make a second or
\* more.
LEMMA BitTimesMakeASecond ==
  ASSUME NEW baud \in 1 .. LongRange - 10000000
  PROVE  BitTime(baud) \in Nat /\ BitTime(baud) * baud >= 10000000
<1> DEFINE sum == 10000000 + (baud - 1)
           q == sum \div baud
           r == sum % baud
<1>1. baud \in Nat /\ baud > 0 /\ sum \in Nat /\ sum < LongRange
  BY RangeAssumption
<1>2. BitTime(baud) = q
  <2>1. ULong(sum) = sum
    <3> HIDE DEF sum
    <3> QED BY <1>1, ULongIsSmall
  <2> QED BY <2>1 DEF BitTime
<1>3. q \in Nat /\ r \in Nat /\ r < baud /\ sum = baud * q + r
  <2> HIDE DEF sum
  <2> QED BY <1>1, DivMod
<1>4. baud * q = q * baud /\ q * baud \in Nat
  BY <1>1, <1>3
<1>5. q * baud >= 10000000
  <2> HIDE DEF q, r
  <2> QED BY <1>1, <1>3, <1>4
<1> QED BY <1>2, <1>3, <1>5

\* A character of any format, at any rate from 1 baud to the wrap-around of the sum in
\* SerialGetCharTime, takes no longer than the character time computed for it.
THEOREM CharTimeIsLongEnough ==
  ASSUME NEW baud \in 1 .. LongRange - 10000000, NEW dataBits \in 5 .. 8,
         NEW parityBits \in 0 .. 1, NEW stopBits \in 1 .. 2
  PROVE  CharTime(baud, dataBits, parityBits, stopBits) * baud
           >= (1 + dataBits + parityBits + stopBits) * 10000000
<1> DEFINE t == BitTime(baud)
           n == dataBits + parityBits + stopBits
<1>1. t \in Nat /\ t * baud \in Nat /\ t * baud >= 10000000 /\ baud \in Nat
  BY BitTimesMakeASecond, RangeAssumption
<1>2. n \in Nat
  OBVIOUS
<1>3. CharTime(baud, dataBits, parityBits, stopBits) = t + n * t
  BY DEF CharTime
<1> HIDE DEF t, n
<1>4. (t + n * t) * baud = (1 + n) * (t * baud)
  BY <1>1, <1>2
<1>5. (1 + n) * (t * baud) >= (1 + n) * 10000000
  BY <1>1, <1>2
<1>6. CharTime(baud, dataBits, parityBits, stopBits) * baud >= (1 + n) * 10000000
  BY <1>3, <1>4, <1>5
<1>7. 1 + n = 1 + dataBits + parityBits + stopBits
  BY DEF n
<1> QED BY <1>6, <1>7

\* The delays and timers that are to outlast a character do, at whatever rate the
\* driver has recorded (SerialGetCharTime).
THEOREM SpecCharTimeCovers == Spec => []CharTimeCovers
<1>1. CharTimeCovers
  BY CharTimeIsLongEnough DEF CharTimeCovers
<1> QED BY <1>1, PTL
=============================================================================
