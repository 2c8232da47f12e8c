----------------------------- MODULE MCSettings -----------------------------
(* Instances of Settings for TLC. *)
EXTENDS Settings

\* For each setting a value other than that of the registry, and one that some of
\* the cards refuse; of port B what deals with registers it shares with A.  (The
\* settings left out are written and read as Isochronous is, but with one register;
\* a port that comes back to D0 sets them all.)
MCAsked ==
  ({"A", "B"} \X {"RS485", "Termination"} \X {TRUE})
  \cup ({"A"} \X {"Opened"} \X BOOLEAN)
  \cup {<<"A", "SampleRate", 8>>, <<"B", "SampleRate", 4>>,
         <<"A", "EchoCancel", TRUE>>, <<"A", "Isochronous", 3>>,
         <<"A", "ExternalTransmit", 300>>, <<"A", "ExternalTransmit", 8192>>,
         <<"A", "LineControl", 26>>, <<"A", "Clock", 24000000>>}

MCRegistry ==
  [RS485 |-> FALSE, SampleRate |-> 16, TxTrigger |-> 32, RxTrigger |-> 32,
   Termination |-> FALSE, EchoCancel |-> FALSE, Isochronous |-> -1, FrameLength |-> 16,
   NineBit |-> 1]
=============================================================================
