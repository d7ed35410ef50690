-------------------------- MODULE MCVirtualTimers --------------------------
(* Three timers on a counter of 4 bits, an interrupt served up to one tick *)
(* late, and two applications: short delays and one timer that may be      *)
(* reset, as in the firmware; and delays near the range and no reset,      *)
(* where the sum wraps while another timer runs, noticed by the code or    *)
(* not.                                                                    *)
EXTENDS VirtualTimers

CONSTANTS t1, t2, t3

MCTimer == {t1, t2, t3}
MCUses == {[delays |-> {1, 3}, resettable |-> {t1}, longest |-> 3],
           [delays |-> {3, 11}, resettable |-> {}, longest |-> 11]}

\* What the timers do after a missed sum is not explored: a timer may come a
\* turn of the counter late, and again later for every sum missed meanwhile.
UntilMissed == ~missed
============================================================================
