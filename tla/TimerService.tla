---------------------------- MODULE TimerService ----------------------------
(***************************************************************************)
(* What virtual timers promise: a timer fires once, never before its       *)
(* delay has passed and never more than MaxLateness ticks after it; of two *)
(* timers that are due, the one due earlier fires first.                   *)
(***************************************************************************)
EXTENDS Integers

CONSTANTS Timer, Delays, Off, MaxLateness,
          TIMEDELTA      \* delays below it are raised to it

VARIABLE left     \* ticks left of every armed timer, negative when late

Armed == {t \in Timer : left[t] # Off}

Init == left = [t \in Timer |-> Off]

Pass(l) == [t \in Timer |-> IF l[t] = Off THEN Off ELSE l[t] - 1]

Tick == left' = Pass(left)

\* The delay is counted from the moment the time is read; a tick may follow
\* before the call is over.
Set(t) == \E d \in Delays :
    LET set == [left EXCEPT ![t] = IF d < TIMEDELTA THEN TIMEDELTA ELSE d] IN
    t \notin Armed /\ left' \in {set, Pass(set)}

Reset(t) == t \in Armed /\ left' = [left EXCEPT ![t] = Off]

ResetAndTick(t) == t \in Armed /\ left' = Pass([left EXCEPT ![t] = Off])

Fire(t) == /\ t \in Armed /\ left[t] <= 0
           /\ \A u \in Armed : left[t] <= left[u]
           /\ left' = [left EXCEPT ![t] = Off]

\* No armed timer is later than that.
OnTime == \A t \in Armed : left[t] >= -MaxLateness

Next == /\ \/ Tick
           \/ \E t \in Timer : Set(t) \/ Reset(t) \/ ResetAndTick(t) \/ Fire(t)
        /\ OnTime'

Spec == Init /\ [][Next]_left
============================================================================
