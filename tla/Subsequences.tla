---------------------------- MODULE Subsequences ----------------------------
(***************************************************************************)
(* Subsequences, for WritePath and TxStream.  A recursive function, not    *)
(* SelectSeq, whose definition a proof cannot look into.                   *)
(***************************************************************************)
EXTENDS Integers, Sequences

\* The elements of q that are in the set kept, in their order.
Only(q, kept) ==
  LET only[n \in 0 .. Len(q)] ==
        IF n = 0 THEN << >>
        ELSE IF q[n] \in kept THEN Append(only[n - 1], q[n]) ELSE only[n - 1]
  IN only[Len(q)]
=============================================================================
