----------------------------- MODULE MCPortLife -----------------------------
(* An instance of PortLife for TLC. *)
EXTENDS PortLife

Flow(cts, receive, rts) ==
  [cts |-> cts, autoReceive |-> receive, autoTransmit |-> FALSE, xoffContinue |-> FALSE,
   rts |-> rts]

\* A peer that is stopped by Xoff, with CTS; the toggling of RTS; and a change between.
LifeModes == {Flow(TRUE, TRUE, "CONTROL"), Flow(FALSE, FALSE, "TOGGLE")}
=============================================================================
