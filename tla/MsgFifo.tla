------------------------------ MODULE MsgFifo ------------------------------
(***************************************************************************)
(* What an event queue promises: messages come out in the order in which   *)
(* they went in, none twice, none lost, at most Cap waiting.  `in' and     *)
(* `out' are all the messages accepted and handed out so far.              *)
(***************************************************************************)
EXTENDS Naturals, Sequences

CONSTANTS Msg, Cap

VARIABLES in, out
vars == <<in, out>>

Init == in = <<>> /\ out = <<>>

Put(m) == Len(in) - Len(out) < Cap /\ in' = Append(in, m) /\ UNCHANGED out

Get == Len(out) < Len(in) /\ out' = Append(out, in[Len(out) + 1]) /\ UNCHANGED in

Next == (\E m \in Msg : Put(m)) \/ Get

Spec == Init /\ [][Next]_vars
============================================================================
