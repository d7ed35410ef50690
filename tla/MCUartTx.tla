----------------------------- MODULE MCUartTx -----------------------------
(* A ring of three slots and seven bytes of two values: the cursors wrap   *)
(* twice, the ring fills, and a block is split by the end of the buffer.   *)
EXTENDS UartTx

MCByte == {0, 1}
LockedOnly == {"Printf"}
BothPrinters == {"Printf", "ShellPrintf"}

\* The initial contents of the buffer do not matter to the code.
MCInit == Init /\ TXBuf = [i \in Index |-> 0]
MCSpec == MCInit /\ [][Next]_vars
MCFairSpec == MCSpec /\ Fairness
============================================================================
