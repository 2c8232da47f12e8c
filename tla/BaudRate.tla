------------------------------ MODULE BaudRate ------------------------------
(***************************************************************************)
(* Who sets the rate of the line, and from what: IOCTL_SERIAL_SET_BAUD_RATE *)
(* with a fixed rate or without, the clock and the sample rate that other  *)
(* ioctls change under it, the reset of the UART at open, and the cycle    *)
(* through D0 (ioctl.c, utils.c, pnp.c, openclos.c, power.c).              *)
(*                                                                         *)
(* A handler runs under the device lock and for a port in D0, so that each *)
(* is one action; the resets run at interrupt level or while the queues    *)
(* are stopped.                                                            *)
(***************************************************************************)
EXTENDS Divisor

CONSTANTS
  Cards,        \* the card types looked at
  Bauds,        \* bound: the rates asked for, LONGs other than 0
  FixedRates,   \* bound: the rates that may be fixed
  ClockRates,   \* bound: the frequencies a client may program
  RateSamples   \* bound: the sample rates asked for

CardTypes == {"PCI", "PCIe", "FSCC", "UNKNOWN"}

ASSUME CardAssumption == Cards \subseteq CardTypes
ASSUME InputAssumption ==
  /\ Bauds \subseteq Int \ {0} /\ FixedRates \subseteq Nat \ {0}
  /\ ClockRates \subseteq Nat \ {0} /\ RateSamples \subseteq Nat \ {0}

\* The clocks that are there by default: of a card without a generator that can be
\* programmed, and of one with.
PlainClock == 1843200
ProgrammedClock == 18432000

\* What the widths of the code's integers hold: clocks below 2^28 Hz, sample rates
\* from 4 to 16, and divisors of rates from 9600 baud on.
ASSUME WidthAssumption ==
  \A clock \in ClockRates \cup {PlainClock, ProgrammedClock}, sample \in RateSamples :
    /\ 2 * clock < LongRange /\ clock * sample < LongRange
    /\ clock \div (9600 * sample) < ShortRange - 1

VARIABLES
  card,       \* the type of the card, FastcomGetCardType
  ext,        \* the device extension
  latch,      \* the divisor the UART uses
  disturbed   \* history: which settings have changed since the latch was written

vars == <<card, ext, latch, disturbed>>

\* The latch after a write of an uninitialized divisor, or without power.
Garbage == -1
NotFixed == -1

\* What FastcomSetSampleRate takes, and the clock that SerialFcInit sets up.
SampleRateIsLegal(value) ==
  CASE card = "PCI" -> value \in {8, 16}
    [] card = "PCIe" -> value \in {4, 8, 16}
    [] card = "FSCC" -> value \in 4 .. 16
    [] card = "UNKNOWN" -> TRUE
DefaultClockRate ==
  IF card = "PCIe" THEN PCIeClock ELSE IF card = "UNKNOWN" THEN PlainClock
  ELSE ProgrammedClock

\* Mutant: the sample rate is taken for what it is by default.
GetDivisorFixedSample(e, baud) ==
  IF card = "PCIe" THEN Garbage ELSE GetDivisorFromBaud(e.clockRate, 16, baud)

\* SerialGetDivisorFromBaud; for PCIe it returns before it computes anything.
GetDivisor(e, baud) ==
  IF card = "PCIe" THEN Garbage
  ELSE GetDivisorFromBaud(e.clockRate, e.sampleRate, baud)

\* SerialSetBaud: the latch; on PCIe what PCIeSetBaudRate makes of CurrentBaud,
\* whose failure is ignored.
SetBaud(e, divisor) ==
  IF card # "PCIe" THEN divisor
  ELSE IF PCIeSupports(e.sampleRate, ULong(e.currentBaud))
    THEN PCIeDivisor(e.sampleRate, e.currentBaud) ELSE Garbage

\* The latch that belongs to the settings.
LatchOf(e) == SetBaud(e, GetDivisor(e, e.currentBaud))

\* After SerialInitController and the first D0 entry.
InitialExt(sample) ==
  [currentBaud |-> 1200, clockRate |-> DefaultClockRate, sampleRate |-> sample,
   fixedBaudRate |-> NotFixed, deviceIsOpened |-> FALSE, reopen |-> FALSE,
   powered |-> TRUE]
Init ==
  /\ card \in Cards
  /\ \E s \in RateSamples : SampleRateIsLegal(s) /\ ext = InitialExt(s)
  /\ latch = LatchOf(ext)
  /\ disturbed = {}

-----------------------------------------------------------------------------
(* IOCTL_SERIAL_SET_BAUD_RATE                                              *)

BaudAskedFor(baud) ==
  IF ext.fixedBaudRate # NotFixed THEN ext.fixedBaudRate ELSE baud

\* The divisor is computed; unless the rate is refused, CurrentBaud is recorded and the
\* latch is written.
SetBaudRate ==
  /\ ext.deviceIsOpened
  /\ \E b \in Bauds :
       LET baud == BaudAskedFor(b)
           divisor == GetDivisor(ext, baud)
           recorded == [ext EXCEPT !.currentBaud = baud]
       IN /\ divisor # Unsupported
          /\ ext' = recorded /\ latch' = SetBaud(recorded, divisor)
  /\ disturbed' = {}
  /\ UNCHANGED card

-----------------------------------------------------------------------------
(* What else the rate depends on.                                          *)

Disturb(reason, changed) == IF changed THEN disturbed \cup {reason} ELSE disturbed

\* IOCTL_FASTCOM_SET_CLOCK_BITS, of the cards that have a clock generator.
SetClockBits ==
  /\ ext.deviceIsOpened /\ card \in {"FSCC", "PCI"}
  /\ \E f \in ClockRates :
       /\ ext' = [ext EXCEPT !.clockRate = f]
       /\ disturbed' = Disturb("clock", f # ext.clockRate)
  /\ UNCHANGED <<card, latch>>

\* IOCTL_FASTCOM_SET_SAMPLE_RATE
SetSampleRate ==
  /\ ext.deviceIsOpened
  /\ \E s \in RateSamples :
       /\ SampleRateIsLegal(s)
       /\ ext' = [ext EXCEPT !.sampleRate = s]
       /\ disturbed' = Disturb("sample", s # ext.sampleRate)
  /\ UNCHANGED <<card, latch>>

\* IOCTL_FASTCOM_ENABLE_FIXED_BAUD_RATE and DISABLE_: for later requests.
SetFixedBaudRate ==
  /\ ext.deviceIsOpened
  /\ \E rate \in FixedRates \cup {NotFixed} :
       ext' = [ext EXCEPT !.fixedBaudRate = rate]
  /\ UNCHANGED <<card, latch, disturbed>>

\* SerialMarkOpen: SerialReset sets the divisor anew, supported or not.
MarkOpen ==
  /\ ext.powered /\ ~ext.deviceIsOpened
  /\ ext' = [ext EXCEPT !.deviceIsOpened = TRUE]
  /\ latch' = LatchOf(ext) /\ disturbed' = {}
  /\ UNCHANGED card

\* With the interrupt connected (PortLife is about a close without).
MarkClose ==
  /\ ext.powered /\ ext.deviceIsOpened
  /\ ext' = [ext EXCEPT !.deviceIsOpened = FALSE, !.reopen = FALSE]
  /\ UNCHANGED <<card, latch, disturbed>>

\* SerialEvtDeviceD0Exit, the queues being stopped.
D0Exit ==
  /\ ext.powered
  /\ ext' = [ext EXCEPT !.powered = FALSE, !.deviceIsOpened = FALSE,
                        !.reopen = ext.deviceIsOpened]
  /\ latch' = Garbage
  /\ UNCHANGED <<card, disturbed>>

\* SerialEvtDeviceD0Entry: the divisor first, then SerialFcInit, which programs the
\* clock that is there by default.
D0Entry ==
  /\ ~ext.powered
  /\ latch' = LatchOf(ext)
  /\ ext' = [ext EXCEPT !.powered = TRUE, !.deviceIsOpened = ext.reopen,
                        !.clockRate = DefaultClockRate]
  /\ disturbed' = IF ext.clockRate # DefaultClockRate THEN {"clock"} ELSE {}
  /\ UNCHANGED card

-----------------------------------------------------------------------------
Next == \/ SetBaudRate \/ SetClockBits \/ SetSampleRate \/ SetFixedBaudRate
        \/ MarkOpen \/ MarkClose \/ D0Exit \/ D0Entry

Spec == Init /\ [][Next]_vars

-----------------------------------------------------------------------------
(* Properties.                                                             *)

TypeOK ==
  /\ card \in CardTypes
  /\ ext \in [currentBaud : Int, clockRate : ClockRates \cup {PlainClock, ProgrammedClock, PCIeClock},
              sampleRate : RateSamples, fixedBaudRate : FixedRates \cup {NotFixed},
              deviceIsOpened : BOOLEAN, reopen : BOOLEAN, powered : BOOLEAN]
  /\ card # "PCIe" => latch \in Int /\ ext.clockRate \in ClockRates \cup {PlainClock, ProgrammedClock}
  /\ disturbed \in SUBSET {"clock", "sample"}

\* A PCIe card computes the divisor from a clock of its own.
Harmless == IF card = "PCIe" THEN {"clock"} ELSE {}

\* The rate that is recorded is one the card can run at, with the clock and the sample
\* rate as they are.
RecordedRateIsSupported ==
  IF card = "PCIe" THEN PCIeSupports(ext.sampleRate, ULong(ext.currentBaud))
  ELSE GetDivisorFromBaud(ext.clockRate, ext.sampleRate, ext.currentBaud) # Unsupported

\* The line of an open port runs at the rate that GET_BAUD_RATE and SerialGetCharTime go
\* by, through every open and every cycle through D0, unless the clock or the sample
\* rate has changed since the latch was written (SerialEvtIoDeviceControl, SerialSetBaud,
\* SerialReset, SerialEvtDeviceD0Entry).  An exception are recorded rates that the card
\* does not support, of which nothing is said: IOCTL_SERIAL_SET_BAUD_RATE records any
\* rate for a PCIe card, and ignores that PCIeSetBaudRate refuses it; and a rate that
\* another clock or sample rate made unsupported is programmed as a divisor of -1 by the
\* next open or D0 entry.  GET_BAUD_RATE answers the recorded rate then, and the line
\* does not run at it.
RateIsAsSet ==
  ext.deviceIsOpened /\ disturbed \subseteq Harmless /\ RecordedRateIsSupported =>
    latch = IF card = "PCIe" THEN PCIeDivisor(ext.sampleRate, ext.currentBaud)
            ELSE GetDivisorFromBaud(ext.clockRate, ext.sampleRate, ext.currentBaud)

\* From 9600 baud on an accepted rate is at most one percent fast, and never slow
\* (the remainder check of SerialGetDivisorFromBaud).
OnePercent(clock, sample, baud, divisor) ==
  /\ divisor * baud * sample <= clock
  /\ 100 * (clock - divisor * baud * sample) < clock
LineWithinOnePercent ==
  ext.deviceIsOpened /\ disturbed = {} /\ card # "PCIe" /\ ext.currentBaud >= 9600
    /\ SpecialCase(ext.clockRate, ext.currentBaud) = {} /\ latch # Unsupported
  => OnePercent(ext.clockRate, ext.sampleRate, ext.currentBaud, latch)

\* The delays and timers that are to outlast a character do: SerialGetCharTime is
\* rounded up, for every format and every rate that is recorded.
CharTimeCovers ==
  ext.currentBaud \in 1 .. LongRange - 10000000 =>
    \A dataBits \in 5 .. 8, parityBits \in 0 .. 1, stopBits \in 1 .. 2 :
      CharTime(ext.currentBaud, dataBits, parityBits, stopBits) * ext.currentBaud
        >= (1 + dataBits + parityBits + stopBits) * 10000000
=============================================================================
