----------------------------- MODULE MCReadPath -----------------------------
(* Bounded instances of ReadPath for TLC. *)
EXTENDS ReadPath, TLC

CONSTANTS r1, r2, z1, z2

LoadsOfThree == {{r1, r2}, {r1, z1, z2}}
OneRead == {{r1}}
ReadAndResize == {{r1, z1}}

Timeout(i, m, c) == [interval |-> i, multiplier |-> m, constant |-> c]

\* No timeouts; interval and total; return at once; return with what there is;
\* return with the first character.
AllTimeouts ==
  {Timeout("zero", "zero", "zero"), Timeout("some", "some", "zero"),
   Timeout("max", "zero", "zero"), Timeout("max", "some", "some"),
   Timeout("max", "max", "some")}
BothAndNone == {Timeout("some", "zero", "some"), Timeout("zero", "zero", "zero")}
\* With the interval timer alone nothing else ends a read that is not filled.
WithIntervalOnly == BothAndNone \cup {Timeout("some", "zero", "zero")}
=============================================================================
