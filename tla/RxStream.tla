------------------------------ MODULE RxStream ------------------------------
(***************************************************************************)
(* What the receive side promises a client: one stream of characters, in   *)
(* the order of their arrival, cut into the results of reads from its      *)
(* front.  A read takes away what it returns; a cancelled read may take    *)
(* away what it had already been given; a purge drops the characters no    *)
(* read has been given.  An overrun may replace the last character by the  *)
(* error character (0).                                                    *)
(***************************************************************************)
EXTENDS Integers, Sequences

CONSTANT Req

VARIABLES
  arrived,    \* characters accepted so far, numbered 1, 2, ...
  stream,     \* those accepted and not yet returned or dropped
  returned,   \* the reads that were completed with data (or none)
  result      \* read -> what it returned

vars == <<arrived, stream, returned, result>>

Init ==
  /\ arrived = 0 /\ stream = << >>
  /\ returned = {} /\ result = [r \in Req |-> << >>]

\* A character is accepted.
Arrive ==
  /\ arrived' = arrived + 1 /\ stream' = Append(stream, arrived + 1)
  /\ UNCHANGED <<returned, result>>

\* The last character is replaced by the error character.
Replace ==
  /\ stream # << >> /\ stream' = [stream EXCEPT ![Len(stream)] = 0]
  /\ UNCHANGED <<arrived, returned, result>>

\* A read returns the first n characters.
Return(r, n) ==
  /\ r \notin returned /\ returned' = returned \cup {r}
  /\ result' = [result EXCEPT ![r] = SubSeq(stream, 1, n)]
  /\ stream' = SubSeq(stream, n + 1, Len(stream))
  /\ UNCHANGED arrived

\* A cancelled read drops the first n characters.
Discard(n) ==
  /\ stream' = SubSeq(stream, n + 1, Len(stream))
  /\ UNCHANGED <<arrived, returned, result>>

\* A purge keeps the first n characters, which a read has been given.
Purge(n) ==
  /\ stream' = SubSeq(stream, 1, n)
  /\ UNCHANGED <<arrived, returned, result>>

Next ==
  \/ Arrive \/ Replace
  \/ \E n \in 0 .. Len(stream) :
       Discard(n) \/ Purge(n) \/ \E r \in Req : Return(r, n)

Spec == Init /\ [][Next]_vars
=============================================================================
