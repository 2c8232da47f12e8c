----------------------------- MODULE MCBaudRate -----------------------------
(* An instance of BaudRate for TLC. *)
EXTENDS BaudRate

\* A negative LONG; a rate whose divisor may not fit in 16 bits; 110, that is never
\* rounded; special cases; rates that leave a remainder, small with one clock and not
\* with another; and one whose denominator wraps around, and that no clock reaches.
MCBauds == {-1, 17, 110, 1200, 9600, 14400, 38400, 56000, 115200, 921600, 70000000}
MCClockRates == {1843200, 3686400, 4233600, 8000000, 14745600, 18432000}
=============================================================================
