------------------------------ MODULE TxStream ------------------------------
(***************************************************************************)
(* What the transmit side promises a client: writes are sent one after the *)
(* other, in the order they were accepted, each from its first character.  *)
(* A write that succeeds has been sent whole; one that times out reports   *)
(* exactly the characters that were sent; writes may be cancelled anywhere *)
(* in the line.                                                            *)
(***************************************************************************)
EXTENDS Integers, Sequences, Subsequences

CONSTANTS Writes, Lens

VARIABLES
  order,      \* the accepted writes that are not finished
  size,       \* write -> its length
  sent,       \* how many characters of the first one are sent
  outcome,    \* write -> how it ended, unless it was cancelled
  reported    \* write -> the number of characters it reported as sent

vars == <<order, size, sent, outcome, reported>>

Init ==
  /\ order = << >> /\ size = [w \in Writes |-> 0] /\ sent = 0
  /\ outcome = [w \in Writes |-> "none"] /\ reported = [w \in Writes |-> 0]

Accept(w, n) ==
  /\ size[w] = 0 /\ size' = [size EXCEPT ![w] = n]
  /\ order' = Append(order, w)
  /\ UNCHANGED <<sent, outcome, reported>>

\* A write is refused: it never joins the line.
Refuse(w, n) ==
  /\ size[w] = 0 /\ size' = [size EXCEPT ![w] = n]
  /\ UNCHANGED <<order, sent, outcome, reported>>

Send ==
  /\ order # << >> /\ sent' \in sent + 1 .. size[Head(order)]
  /\ UNCHANGED <<order, size, outcome, reported>>

\* The first write ends: it succeeds when it is sent whole, or times out.
End(how) ==
  /\ order # << >> /\ order' = Tail(order) /\ sent' = 0
  /\ how = "SUCCESS" => sent = size[Head(order)]
  /\ outcome' = [outcome EXCEPT ![Head(order)] = how]
  /\ reported' = [reported EXCEPT ![Head(order)] = sent]
  /\ UNCHANGED size

\* The writes of a set are cancelled.
Drop(cancelled) ==
  /\ order' = Only(order, Writes \ cancelled)
  /\ sent' = IF order # << >> /\ Head(order) \in cancelled THEN 0 ELSE sent
  /\ UNCHANGED <<size, outcome, reported>>

Next ==
  \/ \E w \in Writes, n \in Lens : Accept(w, n) \/ Refuse(w, n)
  \/ Send \/ End("SUCCESS") \/ End("TIMEOUT")
  \/ \E cancelled \in SUBSET Writes : Drop(cancelled)

Spec == Init /\ [][Next]_vars
=============================================================================
