---------------------------- MODULE MCLedEffects ----------------------------
(* Three LEDs with four levels of brightness and three requests: a picture *)
(* takes several steps, and a request can come at each of them, also while *)
(* the one before is being written.  The thresholds of the Fade command    *)
(* lie in the strip, at its ends and beyond each of them, in either order. *)
EXTENDS LedEffects

MCFadeArgs == (-1..(LED_CNT + 1)) \X (-1..(LED_CNT + 1))

\* What DesiredClr holds before the first request is not read.
MCInit == Init /\ DesiredClr = Black
MCSpec == MCInit /\ [][Next]_vars
MCFairSpec == MCSpec /\ Fairness
============================================================================
