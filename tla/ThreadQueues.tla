---------------------------- MODULE ThreadQueues ----------------------------
(***************************************************************************)
(* What the scheduler promises: for each priority the runnable threads     *)
(* stand in a queue, and the head of the highest queue that is not empty   *)
(* runs.  A thread that becomes runnable goes to the end of its queue; the *)
(* head keeps its place when it is preempted, and loses it to its peers    *)
(* when it yields, or hands the processor to a thread above it.            *)
(***************************************************************************)
EXTENDS Naturals, SequencesExt

CONSTANTS Thread, Level,
          First       \* [Level -> Seq(Thread)], the queues at the start

VARIABLE q

Init == q = First

Runnable == UNION {ToSet(q[p]) : p \in Level}

Highest(p) == q[p] # <<>> /\ \A o \in Level : q[o] # <<>> => o <= p

Rotated(s) == Append(Tail(s), Head(s))

Wake(t, p) == t \notin Runnable /\ q' = [q EXCEPT ![p] = Append(@, t)]

Block(p) == Highest(p) /\ q' = [q EXCEPT ![p] = Tail(@)]

Yield(p) == Highest(p) /\ q' = [q EXCEPT ![p] = Rotated(@)]

\* The running thread wakes a thread above it and goes behind its own peers.
HandOver(p, t, above) ==
    /\ Highest(p) /\ above > p /\ t \notin Runnable
    /\ q' = [q EXCEPT ![p] = Rotated(@), ![above] = <<t>>]

SetLevel(p, to) ==
    /\ Highest(p) /\ to # p
    /\ q' = [q EXCEPT ![p] = Tail(@), ![to] = <<Head(q[p])>> \o @]

Next == \E p \in Level :
    \/ \E t \in Thread : Wake(t, p) \/ \E above \in Level : HandOver(p, t, above)
    \/ Block(p) \/ Yield(p)
    \/ \E to \in Level : SetLevel(p, to)

Spec == Init /\ [][Next]_q
============================================================================
