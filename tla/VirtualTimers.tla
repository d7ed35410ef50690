---------------------------- MODULE VirtualTimers ----------------------------
(***************************************************************************)
(* Virtual timers of the kernel (os/src/chvt.c, os/include/chvt.h), with   *)
(* CH_CFG_ST_TIMEDELTA > 0: a free running counter of CH_CFG_ST_RESOLUTION *)
(* bits and one compare register for the alarm (os/hal/hal_st_lld.h).      *)
(* Armed timers are a delta list: each keeps the time from the deadline of *)
(* the one before it, the first from lasttime, all modulo Modulus.  Every  *)
(* operation runs under the system lock; the counter runs on meanwhile.    *)
(***************************************************************************)
EXTENDS Integers, SequencesExt

CONSTANTS Timer,
          Uses,             \* applications: delays, timers reset before they fire
                            \* and a bound of the delays and of TIMEDELTA
          Modulus,          \* 2^CH_CFG_ST_RESOLUTION
          TIMEDELTA,        \* CH_CFG_ST_TIMEDELTA
          MaxLatency,       \* ticks that pass before a pending interrupt is served
          Off

MaxLateness == TIMEDELTA - 1 + MaxLatency
Delays == UNION {u.delays : u \in Uses}

\* chvt.h:82 refuses a TIMEDELTA of 1.  At most one timer is reset before it
\* fires, or the base of the list could grow old without end; where one is, the
\* list may be measured from a base that is older by another delay, and all
\* differences fit into the counter for delays below half of it.
ASSUME VirtualTimersAssumption ==
    /\ Modulus \in Nat \ {0} /\ TIMEDELTA \in Nat \ {0, 1} /\ MaxLatency \in Nat
    /\ Uses \subseteq [delays : SUBSET (Nat \ {0}), resettable : SUBSET Timer, longest : Nat]
    /\ \A u \in Uses : /\ \A s, t \in u.resettable : s = t
                       /\ \A d \in u.delays \cup {TIMEDELTA} : d <= u.longest
                       /\ IF u.resettable = {}
                          THEN u.longest + 2 * MaxLateness < Modulus
                          ELSE 2 * u.longest + 3 * MaxLateness < Modulus
    /\ Off \notin Int

\* The time since the base and a new delay fit into the counter together.
Short(u) == IF u.resettable = {} THEN 2 * u.longest + 2 * MaxLateness < Modulus
                                 ELSE 3 * u.longest + 3 * MaxLateness < Modulus

VARIABLES
    use,            \* which application runs
    list,           \* the armed timers, the header left out
    delta,
    lasttime,
    now,            \* TIM counter
    CCR, CC1IF,     \* compare register and its flag
    DIER,           \* the compare interrupt is enabled
    isr,            \* chVTDoTickI is between two turns of its loop
    latency,        \* history: ticks since the interrupt became pending
    left,           \* history: ticks left of every armed timer
    missed          \* history: a sum has wrapped and DoSetNonEmpty did not notice

tim == <<CCR, CC1IF, DIER>>
vars == <<use, list, delta, lasttime, now, tim, isr, latency, left, missed>>

Mod(n) == n % Modulus
Pass(l) == [t \in Timer |-> IF l[t] = Off THEN Off ELSE l[t] - 1]

Init == /\ use \in Uses
        /\ list = <<>> /\ delta = [t \in Timer |-> 0] /\ lasttime = 0
        /\ now = 0 /\ CCR = 0 /\ CC1IF = FALSE /\ DIER = FALSE
        /\ isr = FALSE /\ latency = 0 /\ left = [t \in Timer |-> Off]
        /\ missed = FALSE

\* Deadline of the k-th armed timer, from lasttime.
Upto == LET f[k \in 0..Len(list)] == IF k = 0 THEN 0 ELSE f[k - 1] + delta[list[k]] IN f
----------------------------------------------------------------------------
\* The counter counts; the flag is set when it reaches the compare register.
Tick ==
    /\ (isr \/ (CC1IF /\ DIER)) => latency < MaxLatency
    /\ latency' = IF isr \/ (CC1IF /\ DIER) THEN latency + 1 ELSE 0
    /\ now' = Mod(now + 1)
    /\ CC1IF' = (CC1IF \/ CCR = now')
    /\ left' = Pass(left)
    /\ UNCHANGED <<list, delta, lasttime, CCR, DIER, isr, missed>>

\* An operation that reads the counter as it is and ends after e more ticks,
\* having set the alarm (start: stStartAlarm clears the flag) or not.
\* Until then the old alarm counts.
Ends(e, setAlarm, alarm, start) ==
    /\ now' = Mod(now + e)
    /\ (isr \/ (CC1IF /\ DIER)) => latency + e <= MaxLatency
    /\ latency' = IF isr \/ (CC1IF /\ DIER) THEN latency + e ELSE 0
    /\ CCR' = IF setAlarm THEN alarm ELSE CCR
    /\ CC1IF' = (~start /\ (CC1IF \/ (e = 1 /\ CCR = now')))

\* Faulty variant: no minimum.
AtLeastAny(d) == d

AtLeast(d) == IF d < TIMEDELTA THEN TIMEDELTA ELSE d
----------------------------------------------------------------------------
\* The timer is put before position k, d after the deadline before it; the
\* next one gets the difference.
Insert(t, k, d) ==
    /\ list' = InsertAt(list, k, t)
    /\ delta' = [u \in Timer |-> IF u = t THEN d
                                 ELSE IF k <= Len(list) /\ u = list[k] THEN delta[u] - d
                                 ELSE delta[u]]

\* Faulty variant: a new timer goes to the end of the list.
PlaceLast(i, d) == Len(list) + 1

\* The scan from position i on: where the list has reached d.
Place(i, d) ==
    CHOOSE k \in i..Len(list) + 1 :
        /\ k = Len(list) + 1 \/ Upto[k] - Upto[i - 1] >= d
        /\ \A j \in i..k - 1 : Upto[j] - Upto[i - 1] < d

\* The code compares the sum with now - lasttime as it is, not cut to the width
\* of the counter: both are promoted to int, and the difference is negative when
\* the counter has come round since lasttime.  The sum is not less than it then.
Wrapped(sum) == sum < now - lasttime
Misses(sum) == sum < Mod(now - lasttime) /\ ~Wrapped(sum)

\* Faulty variant: the wrap of the sum is never noticed.
DoSetNonEmptyNoWrap(t, delay, e) ==
    LET d == Mod(now - lasttime + delay)
        k == Place(1, d) IN
    /\ Insert(t, k, d - Upto[k - 1])
    /\ Ends(e, d < delta[list[1]], Mod(lasttime + d), FALSE)
    /\ missed' = (missed \/ Misses(d))
    /\ UNCHANGED <<lasttime, DIER>>

\* When the sum has wrapped, the first timer is skipped, its delta taken off.
DoSetNonEmpty(t, delay, e) ==
    LET sum == Mod(now - lasttime + delay)
        i == IF Wrapped(sum) THEN 2 ELSE 1
        d == IF Wrapped(sum) THEN Mod(sum - delta[list[1]]) ELSE sum
        k == Place(i, d) IN
    /\ Insert(t, k, d - (Upto[k - 1] - Upto[i - 1]))
    /\ Ends(e, ~Wrapped(sum) /\ d < delta[list[1]], Mod(lasttime + d), FALSE)
    /\ missed' = (missed \/ Misses(sum))
    /\ UNCHANGED <<lasttime, DIER>>

\* chVTDoSetI.
DoSetI(t, delay, e) ==
    /\ left[t] = Off
    /\ LET d == AtLeast(delay) IN
       /\ IF list = <<>>
          THEN /\ lasttime' = now
               /\ Insert(t, 1, d)
               /\ Ends(e, TRUE, Mod(now + d), TRUE)
               /\ DIER' = TRUE
               /\ UNCHANGED missed
          ELSE DoSetNonEmpty(t, d, e)
       /\ left' = LET set == [left EXCEPT ![t] = d] IN IF e = 0 THEN set ELSE Pass(set)
    /\ UNCHANGED isr

\* The delta of a removed timer goes to the next one (its own is not read any
\* more).
Unlink(t) ==
    LET k == CHOOSE k \in DOMAIN list : list[k] = t IN
    /\ list' = RemoveAt(list, k)
    /\ delta' = [u \in Timer |-> IF u = t THEN 0
                                 ELSE IF k < Len(list) /\ u = list[k + 1] THEN Mod(delta[u] + delta[t])
                                 ELSE delta[u]]

\* chVTDoResetI.  The alarm changes only with the first timer, and not if the
\* next one is due already: its interrupt is pending.
DoResetI(t, e) ==
    /\ left[t] # Off
    /\ Unlink(t)
    /\ LET first == list[1] = t
           nowdelta == Mod(now - lasttime)
           next == delta'[list'[1]]
           move == first /\ list' # <<>> /\ nowdelta < next IN
       /\ Ends(e, move, IF move THEN Mod(now + AtLeast(next - nowdelta)) ELSE 0, FALSE)
       /\ DIER' = (DIER /\ list' # <<>>)
    /\ left' = LET l == [left EXCEPT ![t] = Off] IN IF e = 0 THEN l ELSE Pass(l)
    /\ UNCHANGED <<lasttime, isr, missed>>
----------------------------------------------------------------------------
\* The compare interrupt, and the beginning of chVTDoTickI.
IsrEnter ==
    /\ ~isr /\ CC1IF /\ DIER
    /\ isr' = TRUE /\ CC1IF' = FALSE
    /\ UNCHANGED <<list, delta, lasttime, now, CCR, DIER, latency, left, missed>>

Due == list # <<>> /\ delta[list[1]] <= Mod(now - lasttime)

\* A turn of the loop: the first timer is unlinked and its callback called with
\* the lock released; callbacks and other interrupts may set and reset timers.
DoTickFire ==
    /\ isr /\ Due
    /\ lasttime' = Mod(lasttime + delta[list[1]])
    /\ list' = Tail(list)
    /\ DIER' = (DIER /\ list' # <<>>)
    /\ left' = [left EXCEPT ![list[1]] = Off]
    /\ delta' = [delta EXCEPT ![list[1]] = 0]
    /\ UNCHANGED <<now, CCR, CC1IF, isr, latency, missed>>

\* The end: the next alarm; the assertion on it is part of ServiceSpec.
DoTickEnd(e) ==
    /\ isr /\ ~Due
    /\ isr' = FALSE
    /\ Ends(e, list # <<>>,
            IF list # <<>> THEN Mod(now + AtLeast(Mod(lasttime + delta[list[1]] - now))) ELSE 0,
            FALSE)
    /\ left' = IF e = 0 THEN left ELSE Pass(left)
    /\ UNCHANGED <<list, delta, lasttime, DIER, missed>>

Steps ==
    \/ Tick \/ IsrEnter \/ DoTickFire
    \/ \E e \in 0..1 : \/ DoTickEnd(e)
                       \/ \E t \in use.resettable : DoResetI(t, e)
                       \/ \E t \in Timer, d \in use.delays : DoSetI(t, d, e)

Next == Steps /\ UNCHANGED use

Spec == Init /\ [][Next]_vars
----------------------------------------------------------------------------
(* Properties.                                                             *)

TypeOK ==
    /\ use \in Uses
    /\ list \in Seq(Timer) /\ IsInjective(list)
    /\ delta \in [Timer -> 0..Modulus - 1]
    /\ {lasttime, now, CCR} \subseteq 0..Modulus - 1
    /\ {CC1IF, DIER, isr, missed} \subseteq BOOLEAN
    /\ latency \in 0..MaxLatency
    /\ \A t \in Timer : left[t] # Off <=> t \in ToSet(list)

\* Every delta agrees with the time really left: through wraps of the counter,
\* skipped first timers and removed ones, the deadline of each armed timer is
\* the one it was given, until a wrapped sum is missed (chvt.c:137-179, 240).
\* None is missed where the delays are short.
DeadlinesKept ==
    /\ missed => ~Short(use)
    /\ ~missed => \A k \in DOMAIN list : Upto[k] - Mod(now - lasttime) = left[list[k]]

\* Until a wrapped sum is missed, a timer fires once, in the order of the
\* deadlines, never before its delay has passed, and never so late as when an
\* alarm is set in the past and the counter has to come round (chvt.h:741-749,
\* chvt.c:253-266).
Service == INSTANCE TimerService
ServiceSpec == Service!Init /\ [][~missed' => Service!Next]_left
============================================================================
