------------------------------ MODULE ChKernel ------------------------------
(***************************************************************************)
(* The scheduler and the threads of the kernel (os/src/chschd.c,           *)
(* os/src/chthreads.c) on one core without a time quantum: the ready list, *)
(* thread references with and without a timeout, sleeps, and interrupts,   *)
(* which make threads ready and reschedule when the last of them returns   *)
(* (os/stm32L15x/chcore_v7m.c).  Every function runs under the system lock *)
(* and is one step; so is the rest of the call in which a thread that is   *)
(* switched to had gone to sleep.  Time is left out: a timer that is armed *)
(* may fire.                                                               *)
(***************************************************************************)
EXTENDS Naturals, SequencesExt

CONSTANTS Thread, Main, Idle,
          Priority,          \* [Thread -> Nat], as created
          Level,             \* the priorities there are
          Ref,               \* thread references
          NULL, MSG_OK, MSG_TIMEOUT

ASSUME ChKernelAssumption ==
    /\ {Main, Idle} \subseteq Thread /\ Main # Idle /\ NULL \notin Thread
    /\ Level \subseteq Nat /\ Priority \in [Thread -> Level]
    /\ \A p \in Level : p >= Priority[Idle]
    /\ \A t \in Thread \ {Idle} : Priority[t] > Priority[Idle]
    /\ MSG_OK # MSG_TIMEOUT /\ Ref \cap {MSG_OK, MSG_TIMEOUT, NULL} = {}

VARIABLES
    current,     \* ch.rlist.current
    ready,       \* ch.rlist.queue
    state, prio,
    u,           \* union: rdymsg, or wttrp while suspended
    ref,         \* what each reference points to
    armed,       \* the thread's own timer is armed
    firing,      \* that timer has been unlinked, its callback not run yet
    isr          \* in an interrupt

lists == <<current, ready, state>>
timers == <<armed, firing>>
vars == <<lists, prio, u, ref, timers, isr>>

Init == /\ current = Main /\ ready = <<Idle>>
        /\ state = [t \in Thread |-> CASE t = Main -> "CURRENT" [] t = Idle -> "READY"
                                       [] OTHER -> "WTSTART"]
        /\ prio = Priority /\ u = [t \in Thread |-> MSG_OK]
        /\ ref = [r \in Ref |-> NULL]
        /\ armed = [t \in Thread |-> FALSE] /\ firing = NULL /\ isr = FALSE
----------------------------------------------------------------------------
(* The ready list.                                                         *)

\* Faulty variant: a thread made ready is put ahead of its peers.
BehindPeersAhead(t) ==
    LET k == CHOOSE k \in 1..Len(ready) + 1 :
                 /\ k = Len(ready) + 1 \/ prio[ready[k]] <= prio[t]
                 /\ \A j \in 1..k - 1 : prio[ready[j]] > prio[t]
    IN  InsertAt(ready, k, t)

\* chSchReadyI: before the first thread below it.
BehindPeers(t) ==
    LET k == CHOOSE k \in 1..Len(ready) + 1 :
                 /\ k = Len(ready) + 1 \/ prio[ready[k]] < prio[t]
                 /\ \A j \in 1..k - 1 : prio[ready[j]] >= prio[t]
    IN  InsertAt(ready, k, t)

\* Faulty variant: the thread that is preempted goes behind its peers.
AheadOfPeersBehind(t, p) ==
    LET rest == Tail(ready)
        k == CHOOSE k \in 1..Len(rest) + 1 :
                 /\ k = Len(rest) + 1 \/ prio[rest[k]] < p
                 /\ \A j \in 1..k - 1 : prio[rest[j]] >= p
    IN  InsertAt(rest, k, t)

\* chSchReadyAheadI, in a list whose first thread is taken away.
AheadOfPeers(t, p) ==
    LET rest == Tail(ready)
        k == CHOOSE k \in 1..Len(rest) + 1 :
                 /\ k = Len(rest) + 1 \/ prio[rest[k]] <= p
                 /\ \A j \in 1..k - 1 : prio[rest[j]] > p
    IN  InsertAt(rest, k, t)

ReadyI(t) == /\ ready' = BehindPeers(t)
             /\ state' = [state EXCEPT ![t] = "READY"]
             /\ UNCHANGED current

\* Faulty variant: a timeout that did not occur stays armed.
GoesOnArmed(t) == armed

\* chSchGoSleepTimeoutS from the switch on: the timer is reset if still armed.
GoesOn(t) == [armed EXCEPT ![t] = FALSE]

\* chSchGoSleepS, and chVTDoSetI before it if there is a timeout.
GoSleep(newstate, timed) ==
    LET next == Head(ready) IN
    /\ current' = next /\ ready' = Tail(ready)
    /\ state' = [state EXCEPT ![current] = newstate, ![next] = "CURRENT"]
    /\ armed' = [GoesOn(next) EXCEPT ![current] = timed]
    /\ UNCHANGED <<prio, firing, isr>>

\* chSchWakeupS.
WakeupS(t) ==
    /\ u' = [u EXCEPT ![t] = MSG_OK]
    /\ IF prio[t] <= prio[current] THEN ReadyI(t) /\ UNCHANGED armed
       ELSE /\ ready' = BehindPeers(current) /\ current' = t
            /\ state' = [state EXCEPT ![current] = "READY", ![t] = "CURRENT"]
            /\ armed' = GoesOn(t)
    /\ UNCHANGED <<prio, firing>>

FirstPrio == IF ready = <<>> THEN 0 ELSE prio[Head(ready)]

\* Faulty variant: what an interrupt made ready waits for the next call.
RescheduleSNever(p) == UNCHANGED <<lists, armed>>

\* chSchRescheduleS, the current thread having priority p by now.
RescheduleS(p) ==
    IF FirstPrio > p
    THEN LET next == Head(ready) IN
         /\ current' = next /\ ready' = AheadOfPeers(current, p)
         /\ state' = [state EXCEPT ![current] = "READY", ![next] = "CURRENT"]
         /\ armed' = GoesOn(next)
    ELSE UNCHANGED <<lists, armed>>
----------------------------------------------------------------------------
(* Calls by the current thread; the idle thread makes none.                *)

Calls == ~isr /\ current # Idle

\* chThdSleep.
Sleep == Calls /\ GoSleep("SLEEPING", TRUE) /\ UNCHANGED <<u, ref>>

\* chThdSuspendS and chThdSuspendTimeoutS, with their assertion on the reference.
Suspend(r, timed) ==
    /\ Calls /\ ref[r] = NULL
    /\ ref' = [ref EXCEPT ![r] = current]
    /\ u' = [u EXCEPT ![current] = r]
    /\ GoSleep("SUSPENDED", timed)

\* chThdResumeS.
ResumeS(r) ==
    /\ Calls /\ ref[r] # NULL
    /\ ref' = [ref EXCEPT ![r] = NULL]
    /\ WakeupS(ref[r])
    /\ UNCHANGED isr

ResumeI(r) ==
    /\ ref[r] # NULL
    /\ ref' = [ref EXCEPT ![r] = NULL]
    /\ u' = [u EXCEPT ![ref[r]] = MSG_OK]
    /\ ReadyI(ref[r])
    /\ UNCHANGED <<prio, timers, isr>>

\* SendNowOrExit makes main ready and does not reschedule: its callers, UartRx
\* and rLvl1, are not below main.
Post(r) == Calls /\ ref[r] # NULL /\ prio[current] >= prio[ref[r]] /\ ResumeI(r)

CreateStatic(t) ==
    /\ Calls /\ state[t] = "WTSTART"
    /\ WakeupS(t)
    /\ UNCHANGED <<ref, isr>>

Exit == Calls /\ GoSleep("FINAL", FALSE) /\ UNCHANGED <<u, ref>>

\* chSchDoYieldS: chSchDoRescheduleBehind if a peer is ready.
Yield ==
    LET next == Head(ready) IN
    /\ Calls /\ prio[next] >= prio[current]
    /\ current' = next /\ ready' = Tail(BehindPeers(current))
    /\ state' = [state EXCEPT ![current] = "READY", ![next] = "CURRENT"]
    /\ armed' = GoesOn(next)
    /\ UNCHANGED <<prio, u, ref, firing, isr>>

SetPriority(p) ==
    /\ Calls /\ p # prio[current] /\ p > prio[Idle]
    /\ prio' = [prio EXCEPT ![current] = p]
    /\ RescheduleS(p)
    /\ UNCHANGED <<u, ref, firing, isr>>
----------------------------------------------------------------------------
(* Interrupts.                                                             *)

IsrEnter == ~isr /\ isr' = TRUE /\ UNCHANGED <<lists, prio, u, ref, timers>>

IsrResumeI(r) == isr /\ ResumeI(r)

\* chVTDoTickI unlinks a timer and releases the lock: other interrupts come in.
TimerFires(t) ==
    /\ isr /\ firing = NULL /\ armed[t]
    /\ armed' = [armed EXCEPT ![t] = FALSE]
    /\ firing' = t
    /\ UNCHANGED <<lists, prio, u, ref, isr>>

\* Faulty variant: the thread's state is not looked at.
AlreadyReadyNever(t) == FALSE

AlreadyReady(t) == state[t] = "READY"

\* Its callback, wakeup.
Wakeup ==
    /\ firing # NULL
    /\ firing' = NULL
    /\ IF AlreadyReady(firing) THEN UNCHANGED <<lists, u, ref>>
       ELSE /\ IF state[firing] = "SUSPENDED"
               THEN ref' = [ref EXCEPT ![u[firing]] = NULL] ELSE UNCHANGED ref
            /\ u' = [u EXCEPT ![firing] = MSG_TIMEOUT]
            /\ ReadyI(firing)
    /\ UNCHANGED <<prio, armed, isr>>

\* The outermost interrupt returns: _port_irq_epilogue, _port_switch_from_isr.
IsrExit ==
    /\ isr /\ firing = NULL
    /\ isr' = FALSE
    /\ RescheduleS(prio[current])
    /\ UNCHANGED <<prio, u, ref, firing>>

Next ==
    \/ Sleep \/ Exit \/ Yield \/ IsrEnter \/ Wakeup \/ IsrExit
    \/ \E r \in Ref : \/ \E timed \in BOOLEAN : Suspend(r, timed)
                      \/ ResumeS(r) \/ Post(r) \/ IsrResumeI(r)
    \/ \E t \in Thread : CreateStatic(t) \/ TimerFires(t)
    \/ \E p \in Level : SetPriority(p)

Spec == Init /\ [][Next]_vars
----------------------------------------------------------------------------
(* Properties.                                                             *)

\* Each thread is in one place: running, once in the ready list, or waiting.
TypeOK ==
    /\ current \in Thread /\ ready \in Seq(Thread) /\ IsInjective(ready)
    /\ state \in [Thread -> {"CURRENT", "READY", "SUSPENDED", "SLEEPING", "WTSTART", "FINAL"}]
    /\ \A t \in Thread : /\ state[t] = "CURRENT" <=> t = current
                         /\ state[t] = "READY" <=> t \in ToSet(ready)
    /\ prio \in [Thread -> Level]
    /\ u \in [Thread -> Ref \cup {MSG_OK, MSG_TIMEOUT}]
    /\ ref \in [Ref -> Thread \cup {NULL}]
    /\ armed \in [Thread -> BOOLEAN] /\ firing \in Thread \cup {NULL} /\ isr \in BOOLEAN

\* "priority order violation" (chschd.c:416): outside of interrupts no ready
\* thread is above the current one, and the list is in the order of priorities,
\* whatever makes threads ready and wherever the current one is put back.
PriorityOrder ==
    /\ \A i, j \in DOMAIN ready : i < j => prio[ready[i]] >= prio[ready[j]]
    /\ ready # <<>> \/ current = Idle
    /\ ~isr => \A i \in DOMAIN ready : prio[current] >= prio[ready[i]]

\* Whatever wakes a thread, reference and timer agree with its state: a
\* suspended thread is found by its reference and no other, a sleeping one
\* still has a timer to end it, and no timer outlives the wait it was set for,
\* to end a later one or to make a running thread ready (chschd.c:319-392).
WaitsConsistent ==
    /\ \A r \in Ref, t \in Thread : ref[r] = t <=> state[t] = "SUSPENDED" /\ u[t] = r
    /\ \A t \in Thread :
           /\ state[t] = "SLEEPING" => armed[t] \/ firing = t
           /\ armed[t] \/ firing = t =>
                  \/ state[t] \in {"SUSPENDED", "SLEEPING"}
                  \/ state[t] = "READY" /\ u[t] = MSG_OK
           /\ ~(armed[t] /\ firing = t)

\* The ready threads of priority p, in their order.
Peers(p) ==
    LET f[k \in 0..Len(ready)] ==
            IF k = 0 THEN <<>>
            ELSE IF prio[ready[k]] = p THEN Append(f[k - 1], ready[k]) ELSE f[k - 1]
    IN  f[Len(ready)]

Waiting(p) == (IF prio[current] = p THEN <<current>> ELSE <<>>) \o Peers(p)

\* The ready list implements one queue per priority: nobody overtakes a peer, a
\* preempted thread keeps its turn, and one that resumes a thread above it
\* loses it (as main does to UartRx).
Queues == INSTANCE ThreadQueues WITH
              q <- [p \in Level |-> Waiting(p)],
              First <- [p \in Level |-> CASE p = Priority[Main] -> <<Main>>
                                          [] p = Priority[Idle] -> <<Idle>>
                                          [] OTHER -> <<>>]
QueuesSpec == Queues!Spec

\* The first of its priority: it runs, or goes on before any of its peers.
HasTurn(t) == Waiting(prio[t]) # <<>> /\ Head(Waiting(prio[t])) = t

\* It gives its turn away: it waits, ends or yields, or makes a thread above it run.
GivesUp ==
    \/ Sleep \/ Exit \/ Yield
    \/ \E r \in Ref : \/ \E timed \in BOOLEAN : Suspend(r, timed)
                      \/ ResumeS(r) /\ prio[ref[r]] > prio[current]
    \/ \E t \in Thread : CreateStatic(t) /\ prio[t] > prio[current]

\* What the threads of one priority (main and UartRx, Effects and rLvl1) rely on
\* where they share variables without a lock: nothing that interrupts or other
\* threads do, at whatever moment, lets a peer run between two pieces of a
\* thread's work; it must give its turn away itself, or a thread must come to
\* its priority.
TurnKept ==
    [][\A t \in Thread : HasTurn(t) => \/ HasTurn(t)'
                                       \/ t = current /\ GivesUp
                                       \/ t # current /\ SetPriority(prio[t])]_vars
============================================================================
