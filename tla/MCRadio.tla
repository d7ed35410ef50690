------------------------------ MODULE MCRadio ------------------------------
(* Four packets of any kind at a queue of two: the queue is full, and a    *)
(* packet follows a refused one.  Up to two transfers fail, anywhere but   *)
(* in Transmit, or one fails anywhere.                                     *)
EXTENDS Radio

NotInTransmit == Transfers \ {"enterTx", "writeTx"}
============================================================================
