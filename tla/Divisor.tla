------------------------------ MODULE Divisor ------------------------------
(***************************************************************************)
(* The arithmetic of the line rate: the divisor of a baud rate             *)
(* (SerialGetDivisorFromBaud), the divisor with a fraction that the PCIe   *)
(* cards take instead (PCIeSetBaudRate), and the time of a character       *)
(* (SerialGetCharTime).                                                    *)
(*                                                                         *)
(* Unsigned arithmetic is modulo LongRange (2^32 in the code); a divisor   *)
(* is a SHORT, given by its unsigned reading, modulo ShortRange (2^16).    *)
(***************************************************************************)
EXTENDS Integers

CONSTANTS LongRange, ShortRange

ASSUME RangeAssumption ==
  /\ LongRange \in Nat /\ LongRange > 0 /\ ShortRange \in Nat /\ ShortRange > 1

ULong(n) == n % LongRange
\* The same number read as a LONG.
AsLong(n) == IF ULong(n) < LongRange \div 2 THEN ULong(n) ELSE ULong(n) - LongRange

\* *AppropriateDivisor = -1.
Unsupported == ShortRange - 1

-----------------------------------------------------------------------------
(* SerialGetDivisorFromBaud                                                *)

Denominator(sample, baud) == ULong(baud * sample)

\* Rates that are not positive, or so high that the denominator wraps.
BaudIsLegal(sample, baud) == baud > 0 /\ AsLong(baud * sample) >= baud

\* Divisors that are looked up, whatever the arithmetic says.
SpecialDivisors ==
  {[clock |-> 1843200, baud |-> 56000, divisor |-> 2],
   [clock |-> 3072000, baud |-> 14400, divisor |-> 13],
   [clock |-> 4233600, baud |-> 9600, divisor |-> 28],
   [clock |-> 4233600, baud |-> 14400, divisor |-> 18],
   [clock |-> 4233600, baud |-> 19200, divisor |-> 14],
   [clock |-> 4233600, baud |-> 38400, divisor |-> 7],
   [clock |-> 4233600, baud |-> 56000, divisor |-> 5],
   [clock |-> 8000000, baud |-> 14400, divisor |-> 35],
   [clock |-> 8000000, baud |-> 56000, divisor |-> 9]}
SpecialCase(clock, baud) ==
  {s \in SpecialDivisors : s.clock = clock /\ s.baud = baud}

\* "Round up." compares with the clock, not with the denominator.
Quotient(clock, denominator, baud) ==
  IF ULong(2 * (clock % denominator)) > clock /\ baud # 110
    THEN (clock \div denominator) + 1 ELSE clock \div denominator

\* From 9600 baud on the remainder must be below a hundredth of the clock, or
\* within that of the clock.
RemainderIsSmall(clock, denominator) ==
  \/ clock % denominator < clock \div 100
  \/ (clock % denominator) + (clock \div 100) >= clock

\* Mutant: the remainder is not looked at.
CalculatedDivisorUnchecked(clock, sample, baud) ==
  IF Denominator(sample, baud) > clock THEN Unsupported
  ELSE Quotient(clock, Denominator(sample, baud), baud) % ShortRange

CalculatedDivisor(clock, sample, baud) ==
  IF \/ Denominator(sample, baud) > clock
     \/ baud >= 9600 /\ ~RemainderIsSmall(clock, Denominator(sample, baud))
    THEN Unsupported
  ELSE Quotient(clock, Denominator(sample, baud), baud) % ShortRange

GetDivisorFromBaud(clock, sample, baud) ==
  IF ~BaudIsLegal(sample, baud) THEN Unsupported
  ELSE IF SpecialCase(clock, baud) # {}
    THEN (CHOOSE s \in SpecialCase(clock, baud) : TRUE).divisor
  ELSE CalculatedDivisor(clock, sample, baud)

-----------------------------------------------------------------------------
(* PCIeSetBaudRate: the oscillator is fixed, and the divisor counts         *)
(* sixteenths; 8 bits in DLM, 8 in DLL and 4 in DLD are kept of it.         *)

PCIeClock == 125000000
PCIeSupports(sample, baud) == baud <= PCIeClock \div sample
PCIeDivisor(sample, baud) == ((PCIeClock * 16) \div (baud * sample)) % (2 ^ 20)

-----------------------------------------------------------------------------
(* SerialGetCharTime, in units of 100 ns.                                   *)

\* Mutant: the bit time is not rounded up.
BitTimeRoundedDown(baud) == 10000000 \div baud

BitTime(baud) == ULong(10000000 + (baud - 1)) \div baud
\* A start bit and the bits of the format.
CharTime(baud, dataBits, parityBits, stopBits) ==
  BitTime(baud) + (dataBits + parityBits + stopBits) * BitTime(baud)

=============================================================================
