--------------------------- MODULE MCTransmitter ---------------------------
(* Instances of Transmitter for TLC. *)
EXTENDS Transmitter

Flow(cts, receive, transmit, continue, rts) ==
  [cts |-> cts, autoReceive |-> receive, autoTransmit |-> transmit,
   xoffContinue |-> continue, rts |-> rts]

\* Between them: Xon/Xoff both ways with CTS, Xoff sent without holding back what
\* is sent, RTS handshake and the toggling of RTS.
FlowModes == {Flow(TRUE, TRUE, TRUE, FALSE, "CONTROL"),
              Flow(FALSE, TRUE, FALSE, TRUE, "HANDSHAKE"),
              Flow(FALSE, FALSE, TRUE, FALSE, "TOGGLE")}

\* Toggling chosen and left again, with CTS.
ToggleModes == {Flow(TRUE, FALSE, FALSE, FALSE, "TOGGLE"),
                Flow(FALSE, FALSE, FALSE, FALSE, "CONTROL")}
=============================================================================
