----------------------------- MODULE MCSettings -----------------------------
(* Both ends of the range, a value inside, and words outside of it (the    *)
(* erased word and one half written); three requests between or around two *)
(* losses of power: a save that ran out of time, the one after it, and a   *)
(* restart.                                                                *)
EXTENDS Settings

MCRequests == {-1, 0, 50, 100, 101}
MCWords == MCRequests \cup {65535}
============================================================================
