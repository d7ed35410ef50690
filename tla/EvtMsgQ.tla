------------------------------ MODULE EvtMsgQ ------------------------------
(***************************************************************************)
(* EvtMsgQ_t<T, Sz> (kl_lib/MsgQ.h): a ring of Sz messages guarded by two  *)
(* counting semaphores, FullSem (messages to fetch) and EmptySem (free     *)
(* slots), with the semaphores as chsem.c and the timeout callback of      *)
(* chschd.c implement them.                                                *)
(*                                                                         *)
(* Every operation runs inside chSysLock and is one step, cut in two where *)
(* the thread sleeps: the step that falls asleep and, once it is ready and *)
(* scheduled, the step that goes on.  Which ready thread runs next is left *)
(* open here: whatever the priorities, this is what the queue must stand.  *)
(***************************************************************************)
EXTENDS Integers, Sequences, FiniteSets

CONSTANTS Msg,        \* the messages
          Sz,         \* slots of the ring
          Fetchers,   \* threads that call Fetch
          Senders,    \* threads that call SendWaitingAbility
          Posters,    \* threads and handlers that call SendNowOrExit(I)
          MaxSends    \* bound: so many messages are accepted in a behaviour

ASSUME EvtMsgQAssumption ==
    /\ Sz \in Nat \ {0}
    /\ MaxSends \in Nat
    /\ IsFiniteSet(Fetchers) /\ IsFiniteSet(Senders)
    /\ Fetchers \cap Senders = {}
    /\ Posters \cap (Fetchers \cup Senders) = {}

Sleepers == Fetchers \cup Senders
Sems == {"Full", "Empty"}

\* The threads that can sleep on a semaphore, and the one a thread sleeps on.
Users(s) == IF s = "Full" THEN Fetchers ELSE Senders
SemOf(t) == IF t \in Fetchers THEN "Full" ELSE "Empty"

VARIABLES
    IBuf, ReadPtr, WritePtr,
    cnt,        \* FullSem.cnt and EmptySem.cnt
    queue,      \* the threads asleep on each, first come first
    state,      \* "run", "wtsem" (CH_STATE_WTSEM) or "ready" (CH_STATE_READY)
    rdymsg,     \* what the thread was woken with: MSG_OK or MSG_TIMEOUT
    timed,      \* the thread sleeps with a timer armed
    arg,        \* the message a sleeping sender holds
    posted,     \* history: messages written to the ring
    fetched     \* history: messages read from it

ring == <<IBuf, ReadPtr, WritePtr>>
sems == <<cnt, queue>>
thds == <<state, rdymsg, timed, arg>>
hist == <<posted, fetched>>
vars == <<ring, sems, thds, hist>>

Index == 0..(Sz - 1)

\* Faulty variant: the test for the end of the buffer is off by one.
CirculateLate(i) == IF i > Sz THEN 0 ELSE i

\* "Circulate pointer".
Circulate(i) == IF i >= Sz THEN 0 ELSE i

\* Init, before any thread uses the queue.
Init ==
    /\ IBuf \in [Index -> Msg] /\ ReadPtr = 0 /\ WritePtr = 0
    /\ cnt = [s \in Sems |-> IF s = "Full" THEN 0 ELSE Sz]
    /\ queue = [s \in Sems |-> <<>>]
    /\ state = [t \in Sleepers |-> "run"]
    /\ rdymsg = [t \in Sleepers |-> "MSG_OK"]
    /\ timed = [t \in Sleepers |-> FALSE]
    /\ arg \in [Sleepers -> Msg]
    /\ posted = <<>> /\ fetched = <<>>
----------------------------------------------------------------------------
(* Semaphores.  A step of thread `me' counts down one semaphore and up     *)
(* another; cnt' is set by the step, the rest here.                        *)

\* Faulty variant: the last sleeper is not woken.
SemSignalILate(s, me) ==
    LET woken == IF cnt[s] + 1 < 0 THEN {Head(queue[s])} ELSE {} IN
    /\ queue' = [queue EXCEPT ![s] = IF woken = {} THEN @ ELSE Tail(@)]
    /\ state' = [t \in Sleepers |-> IF t \in woken THEN "ready"
                                    ELSE IF t = me THEN "run" ELSE state[t]]
    /\ rdymsg' = [t \in Sleepers |-> IF t \in woken THEN "MSG_OK" ELSE rdymsg[t]]

\* chSemSignalI: the first thread asleep on s, if any, becomes ready; `me' runs on.
SemSignalI(s, me) ==
    LET woken == IF cnt[s] + 1 <= 0 THEN {Head(queue[s])} ELSE {} IN
    /\ queue' = [queue EXCEPT ![s] = IF woken = {} THEN @ ELSE Tail(@)]
    /\ state' = [t \in Sleepers |-> IF t \in woken THEN "ready"
                                    ELSE IF t = me THEN "run" ELSE state[t]]
    /\ rdymsg' = [t \in Sleepers |-> IF t \in woken THEN "MSG_OK" ELSE rdymsg[t]]

\* chSemWaitTimeoutS when the count is not positive: `me' goes to sleep, with
\* a timer if the time is finite.  (TIME_IMMEDIATE counts down and up again
\* and changes nothing.)
SemSleep(s, me) ==
    /\ cnt[s] - 1 < 0
    /\ cnt' = [cnt EXCEPT ![s] = @ - 1]
    /\ queue' = [queue EXCEPT ![s] = Append(@, me)]
    /\ state' = [state EXCEPT ![me] = "wtsem"]
    /\ \E finite \in BOOLEAN : timed' = [timed EXCEPT ![me] = finite]
    /\ UNCHANGED <<rdymsg, ring, hist>>

\* queue_dequeue: t leaves the queue q, the others keep their order.
Dequeue(q, t) ==
    LET i == CHOOSE i \in 1..Len(q) : q[i] = t IN
    [j \in 1..(Len(q) - 1) |-> IF j < i THEN q[j] ELSE q[j + 1]]

\* Faulty variant: the callback leaves the count alone.
TimeoutNoSignal(t) ==
    /\ state[t] = "wtsem"
    /\ timed[t]
    /\ queue' = [queue EXCEPT ![SemOf(t)] = Dequeue(@, t)]
    /\ state' = [state EXCEPT ![t] = "ready"]
    /\ rdymsg' = [rdymsg EXCEPT ![t] = "MSG_TIMEOUT"]
    /\ UNCHANGED <<cnt, timed, arg, ring, hist>>

\* Faulty variant: a thread that is ready already is timed out all the same.
TimeoutWhenReady(t) ==
    /\ state[t] \in {"wtsem", "ready"}
    /\ timed[t]
    /\ cnt' = IF state[t] = "wtsem" THEN [cnt EXCEPT ![SemOf(t)] = @ + 1] ELSE cnt
    /\ queue' = IF state[t] = "wtsem"
                THEN [queue EXCEPT ![SemOf(t)] = Dequeue(@, t)] ELSE queue
    /\ state' = [state EXCEPT ![t] = "ready"]
    /\ rdymsg' = [rdymsg EXCEPT ![t] = "MSG_TIMEOUT"]
    /\ UNCHANGED <<timed, arg, ring, hist>>

\* wakeup, the timer's callback: in CH_STATE_WTSEM the thread leaves the
\* semaphore, whose count goes up, and becomes ready with MSG_TIMEOUT.  In
\* CH_STATE_READY it was signalled first, and the callback changes nothing.
Timeout(t) ==
    /\ state[t] = "wtsem"
    /\ timed[t]
    /\ cnt' = [cnt EXCEPT ![SemOf(t)] = @ + 1]
    /\ queue' = [queue EXCEPT ![SemOf(t)] = Dequeue(@, t)]
    /\ state' = [state EXCEPT ![t] = "ready"]
    /\ rdymsg' = [rdymsg EXCEPT ![t] = "MSG_TIMEOUT"]
    /\ UNCHANGED <<timed, arg, ring, hist>>
----------------------------------------------------------------------------
(* Fetch.                                                                  *)

\* Read the message, circulate, signal EmptySem.
TakeMsg(me) ==
    /\ fetched' = Append(fetched, IBuf[ReadPtr])
    /\ ReadPtr' = Circulate(ReadPtr + 1)
    /\ SemSignalI("Empty", me)
    /\ UNCHANGED <<IBuf, WritePtr, posted, timed, arg>>

\* There is something in the queue.
Fetch(t) ==
    /\ state[t] = "run"
    /\ cnt["Full"] - 1 >= 0
    /\ cnt' = [cnt EXCEPT !["Full"] = @ - 1, !["Empty"] = @ + 1]
    /\ TakeMsg(t)

FetchSleeps(t) == state[t] = "run" /\ SemSleep("Full", t) /\ UNCHANGED arg

\* The fetcher goes on after its sleep: a message, or the zero message.
FetchResumes(t) ==
    /\ state[t] = "ready"
    /\ \/ /\ rdymsg[t] = "MSG_OK"
          /\ cnt' = [cnt EXCEPT !["Empty"] = @ + 1]
          /\ TakeMsg(t)
       \/ /\ rdymsg[t] # "MSG_OK"
          /\ state' = [state EXCEPT ![t] = "run"]
          /\ UNCHANGED <<ring, sems, rdymsg, timed, arg, hist>>
----------------------------------------------------------------------------
(* SendNowOrExitI, SendNowOrExit and SendWaitingAbility.                   *)

\* Write the message, circulate, signal FullSem.
PutMsg(m, me) ==
    /\ IBuf' = [IBuf EXCEPT ![WritePtr] = m]
    /\ WritePtr' = Circulate(WritePtr + 1)
    /\ posted' = Append(posted, m)
    /\ SemSignalI("Full", me)
    /\ UNCHANGED <<ReadPtr, fetched, timed, arg>>

\* Faulty variant: the test for a full queue is off by one.
SendNowOrExitOffByOne(p, m) ==
    /\ Len(posted) < MaxSends
    /\ cnt["Empty"] >= 0
    /\ cnt' = [cnt EXCEPT !["Full"] = @ + 1, !["Empty"] = @ - 1]
    /\ PutMsg(m, p)

\* With no free slot SendNowOrExit returns retvTimeout and changes nothing.
SendNowOrExit(p, m) ==
    /\ Len(posted) < MaxSends
    /\ cnt["Empty"] > 0
    /\ cnt' = [cnt EXCEPT !["Full"] = @ + 1, !["Empty"] = @ - 1]
    /\ PutMsg(m, p)

SendWaitingAbility(t, m) ==
    /\ state[t] = "run"
    /\ Len(posted) < MaxSends
    /\ cnt["Empty"] - 1 >= 0
    /\ cnt' = [cnt EXCEPT !["Full"] = @ + 1, !["Empty"] = @ - 1]
    /\ PutMsg(m, t)

SendSleeps(t, m) ==
    /\ state[t] = "run"
    /\ Len(posted) < MaxSends
    /\ SemSleep("Empty", t)
    /\ arg' = [arg EXCEPT ![t] = m]

\* The sender goes on after its sleep: it has a slot, or gives up.
SendResumes(t) ==
    /\ state[t] = "ready"
    /\ \/ /\ rdymsg[t] = "MSG_OK"
          /\ cnt' = [cnt EXCEPT !["Full"] = @ + 1]
          /\ PutMsg(arg[t], t)
       \/ /\ rdymsg[t] # "MSG_OK"
          /\ state' = [state EXCEPT ![t] = "run"]
          /\ UNCHANGED <<ring, sems, rdymsg, timed, arg, hist>>
----------------------------------------------------------------------------
Next ==
    \/ \E t \in Fetchers : Fetch(t) \/ FetchSleeps(t) \/ FetchResumes(t)
    \/ \E t \in Senders : \/ \E m \in Msg : SendWaitingAbility(t, m) \/ SendSleeps(t, m)
                          \/ SendResumes(t)
    \/ \E p \in Posters, m \in Msg : SendNowOrExit(p, m)
    \/ \E t \in Sleepers : Timeout(t)

Spec == Init /\ [][Next]_vars

(* A ready thread is run in the end (it is not starved by threads of       *)
(* higher priority, which all sleep), and the fetcher always comes back to *)
(* Fetch, as the loop of ITask does.  Nobody has to send.                  *)
Fairness ==
    /\ \A t \in Fetchers : WF_vars(Fetch(t)) /\ WF_vars(FetchResumes(t))
    /\ \A t \in Senders : WF_vars(SendResumes(t))

FairSpec == Spec /\ Fairness
----------------------------------------------------------------------------
(* Properties.                                                             *)

TypeOK ==
    /\ IBuf \in [Index -> Msg] /\ ReadPtr \in Index /\ WritePtr \in Index
    /\ cnt \in [Sems -> Int]
    /\ queue \in [Sems -> Seq(Sleepers)]
    /\ state \in [Sleepers -> {"run", "wtsem", "ready"}]
    /\ rdymsg \in [Sleepers -> {"MSG_OK", "MSG_TIMEOUT"}]
    /\ timed \in [Sleepers -> BOOLEAN]
    /\ arg \in [Sleepers -> Msg]
    /\ posted \in Seq(Msg) /\ fetched \in Seq(Msg)

\* What a semaphore stands for: the messages in the ring, or its other slots.
Stored == Len(posted) - Len(fetched)
Avail(s) == IF s = "Full" THEN Stored ELSE Sz - Stored

\* Threads that a signal gave a message or a slot, and that have not run yet
\* to take it; what is left for the others.
Granted(s) == {t \in Users(s) : state[t] = "ready" /\ rdymsg[t] = "MSG_OK"}
Unclaimed(s) == Avail(s) - Cardinality(Granted(s))

\* "inconsistent semaphore": the assertion chsem.c makes at every call, for
\* both semaphores, whatever the interleaving of signals and timeouts.
SemConsistent ==
    \A s \in Sems :
        IF cnt[s] >= 0 THEN queue[s] = <<>> ELSE Len(queue[s]) = -cnt[s]

\* Each semaphore counts what it stands for: FullSem the messages nobody has
\* been promised, EmptySem the slots nobody has been promised.  So
\* SendNowOrExit refuses a message only when no slot is free, no two threads
\* are given the same message or slot, and none is forgotten by a timeout
\* that comes together with a signal.  With SemConsistent: nobody sleeps while
\* what it waits for is there unclaimed.
TokensConserved ==
    \A s \in Sems : Unclaimed(s) >= 0 /\ cnt[s] = Unclaimed(s) - Len(queue[s])

\* Messages come out once each, in the order in which they went in, and never
\* more than Sz of them wait.
Fifo == INSTANCE MsgFifo WITH Cap <- Sz, in <- posted, out <- fetched
FifoSpec == Fifo!Spec

\* Every message accepted is fetched in the end, also when the fetches that
\* sleep have timeouts that race with the signals.
EveryMessageFetched ==
    \A n \in 1..MaxSends : (Len(posted) >= n) ~> (Len(fetched) >= n)
============================================================================
