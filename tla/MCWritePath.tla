---------------------------- MODULE MCWritePath ----------------------------
(* Bounded instances of WritePath for TLC. *)
EXTENDS WritePath

CONSTANTS w1, w2, x1, x2, i1

\* Two writes around a counter, or two counters one after the other.
LoadsOfThree == {{w1, w2, x1}, {x1, x2}}
\* Everything may be sent.
OneLoad == {Req}
=============================================================================
