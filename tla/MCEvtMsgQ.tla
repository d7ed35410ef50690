----------------------------- MODULE MCEvtMsgQ -----------------------------
(* Two slots; two fetchers, two senders that may sleep, one interrupt or   *)
(* thread that posts: the ring wraps, fills and empties, and signals meet  *)
(* timeouts on both semaphores.                                            *)
EXTENDS EvtMsgQ

CONSTANTS m1, m2, fetcher, fetcher2, sender, sender2, poster

MCMsg == {m1, m2}
TwoFetchers == {fetcher, fetcher2}
TwoSenders == {sender, sender2}
MCPosters == {poster}

\* What a slot or an argument holds before it is written does not matter.
MCInit == Init /\ IBuf = [i \in Index |-> m1] /\ arg = [t \in Sleepers |-> m1]
MCSpec == MCInit /\ [][Next]_vars
MCFairSpec == MCSpec /\ Fairness
============================================================================
