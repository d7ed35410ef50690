------------------------------ MODULE TxFifo ------------------------------
(***************************************************************************)
(* What the transmit side of the UART promises to whoever prints: a byte   *)
(* stream.  `acc' is every byte IPutByte accepted, in order; `line' is     *)
(* every byte that left on the wire, in order; `rel' counts the accepted   *)
(* bytes whose place in the buffer has been given back.  Room is given     *)
(* back in blocks, after the bytes have left, so at most Cap bytes are     *)
(* accepted and not given back.                                            *)
(***************************************************************************)
EXTENDS Naturals, Sequences

CONSTANTS Byte,     \* what a character can be
          Cap       \* room for so many bytes

VARIABLES acc, line, rel
vars == <<acc, line, rel>>

Init == acc = <<>> /\ line = <<>> /\ rel = 0

\* A byte is accepted while there is room.
Put(b) == /\ Len(acc) - rel < Cap
          /\ acc' = Append(acc, b)
          /\ UNCHANGED <<line, rel>>

\* The oldest byte that has not left leaves.
Deliver == /\ Len(line) < Len(acc)
           /\ line' = Append(line, acc[Len(line) + 1])
           /\ UNCHANGED <<acc, rel>>

\* The room of some bytes that have left is given back.
Release == /\ rel' \in (rel + 1)..Len(line)
           /\ UNCHANGED <<acc, line>>

Next == (\E b \in Byte : Put(b)) \/ Deliver \/ Release

Spec == Init /\ [][Next]_vars
============================================================================
