----------------------------- MODULE MCWaitMask -----------------------------
(* Bounded instances of WaitMask for TLC. *)
EXTENDS WaitMask

CONSTANTS r1, r2, r3
=============================================================================
