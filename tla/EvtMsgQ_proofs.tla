--------------------------- MODULE EvtMsgQ_proofs ---------------------------
(***************************************************************************)
(* Proofs about the event queue for every set of messages, every number of *)
(* slots, and any finite numbers of fetchers and waiting senders, whatever *)
(* order the threads, signals and timeouts come in.                        *)
(***************************************************************************)
EXTENDS EvtMsgQ, FiniteSetTheorems, TLAPS

\* The queue of a semaphore holds its sleeping users, each once.
QueueInv(s) ==
    /\ \A i \in 1..Len(queue[s]) : queue[s][i] \in Users(s) /\ state[queue[s][i]] = "wtsem"
    /\ \A i, j \in 1..Len(queue[s]) : queue[s][i] = queue[s][j] => i = j
    /\ \A t \in Users(s) : state[t] = "wtsem" => \E i \in 1..Len(queue[s]) : queue[s][i] = t

\* What the semaphore counts, and the assertion of chsem.c.
Balance(s) == cnt[s] + Cardinality(Granted(s)) + Len(queue[s]) = Avail(s)
Consistent(s) == IF cnt[s] >= 0 THEN queue[s] = <<>> ELSE Len(queue[s]) = -cnt[s]

SemInv(s) == QueueInv(s) /\ Balance(s) /\ Consistent(s)

\* The index k slots after ReadPtr.
Wrap(i) == IF i < Sz THEN i ELSE i - Sz
Slot(k) == Wrap(ReadPtr + k)

\* The ring holds the messages posted and not fetched, the oldest at ReadPtr.
RingInv ==
    /\ Stored \in 0..Sz
    /\ WritePtr = Slot(Stored)
    /\ \A k \in 0..(Stored - 1) : IBuf[Slot(k)] = posted[Len(fetched) + k + 1]

IInv == TypeOK /\ SemInv("Full") /\ SemInv("Empty") /\ RingInv
----------------------------------------------------------------------------
(* One semaphore.                                                          *)

LEMMA Typed ==
    ASSUME TypeOK, NEW s \in Sems
    PROVE  /\ Len(posted) \in Nat /\ Len(fetched) \in Nat /\ Stored \in Int
           /\ Avail(s) \in Int /\ cnt[s] \in Int
           /\ queue[s] \in Seq(Sleepers) /\ Len(queue[s]) \in Nat
  BY EvtMsgQAssumption DEF TypeOK, Stored, Avail

\* Threads with a grant are finitely many, before and after a step.
LEMMA GrantedFinite ==
    ASSUME NEW s \in Sems
    PROVE  /\ IsFiniteSet(Granted(s))
           /\ Cardinality(Granted(s)) \in Nat
  <1>1. IsFiniteSet(Users(s))
    BY EvtMsgQAssumption DEF Users, Sems
  <1>2. Granted(s) \in SUBSET Users(s)
    BY DEF Granted
  <1>3. IsFiniteSet(Granted(s))
    BY <1>1, <1>2, FS_Subset
  <1>4. QED
    BY <1>3, FS_CardinalityType

\* Nobody uses both semaphores.
LEMMA UsersApart ==
    /\ Users("Full") = Fetchers /\ Users("Empty") = Senders
    /\ Fetchers \cap Senders = {}
    /\ \A t \in Fetchers : SemOf(t) = "Full"
    /\ \A t \in Senders : SemOf(t) = "Empty"
  BY EvtMsgQAssumption DEF Users, SemOf

\* Nothing happens to the semaphore.
LEMMA QuietSem ==
    ASSUME NEW s \in Sems, SemInv(s),
           queue'[s] = queue[s], cnt'[s] = cnt[s], Avail(s)' = Avail(s),
           Granted(s)' = Granted(s),
           \A t \in Users(s) : state'[t] = "wtsem" <=> state[t] = "wtsem"
    PROVE  SemInv(s)'
  <1>1. QueueInv(s)'
    BY DEF SemInv, QueueInv, Users
  <1>2. Balance(s)'
    BY DEF SemInv, Balance
  <1>3. Consistent(s)'
    BY DEF SemInv, Consistent
  <1>4. QED
    BY <1>1, <1>2, <1>3 DEF SemInv

\* chSemSignalI, together with the message or the slot it stands for: it goes
\* to the first sleeper, or is counted.
LEMMA SignalSem ==
    ASSUME TypeOK, NEW s \in Sems, NEW me, me \notin Users(s), SemInv(s),
           SemSignalI(s, me), cnt'[s] = cnt[s] + 1, Avail(s)' = Avail(s) + 1
    PROVE  SemInv(s)'
  <1>1. /\ Avail(s) \in Int /\ cnt[s] \in Int
        /\ queue[s] \in Seq(Sleepers) /\ Len(queue[s]) \in Nat
        /\ Users(s) \subseteq Sleepers /\ queue \in [Sems -> Seq(Sleepers)]
    BY Typed, UsersApart DEF Sems, Sleepers, TypeOK
  <1>2. IsFiniteSet(Granted(s)) /\ Cardinality(Granted(s)) \in Nat
    BY GrantedFinite
  <1>3. CASE cnt[s] + 1 <= 0
    <2> DEFINE h == Head(queue[s])
    <2>1. Len(queue[s]) = -cnt[s] /\ Len(queue[s]) >= 1
      BY <1>1, <1>3 DEF SemInv, Consistent
    <2>2. h = queue[s][1] /\ h \in Users(s) /\ state[h] = "wtsem"
      BY <1>1, <2>1 DEF SemInv, QueueInv
    <2>3. /\ queue'[s] = Tail(queue[s])
          /\ \A t \in Users(s) : /\ state'[t] = IF t = h THEN "ready" ELSE state[t]
                                 /\ rdymsg'[t] = IF t = h THEN "MSG_OK" ELSE rdymsg[t]
      <3> HIDE DEF h
      <3>1. /\ queue' = [queue EXCEPT ![s] = IF {h} = {} THEN @ ELSE Tail(@)]
            /\ state' = [t \in Sleepers |-> IF t \in {h} THEN "ready"
                                            ELSE IF t = me THEN "run" ELSE state[t]]
            /\ rdymsg' = [t \in Sleepers |-> IF t \in {h} THEN "MSG_OK" ELSE rdymsg[t]]
        BY <1>3 DEF SemSignalI, h
      <3>2. QED
        BY <1>1, <3>1
    <2>4. /\ Len(queue'[s]) = Len(queue[s]) - 1
          /\ \A i \in 1..Len(queue'[s]) : queue'[s][i] = queue[s][i + 1]
      BY <1>1, <2>1, <2>3
    <2>5. Granted(s)' = Granted(s) \cup {h} /\ h \notin Granted(s)
      BY <2>2, <2>3 DEF Granted, Users
    <2>6. Cardinality(Granted(s)') = Cardinality(Granted(s)) + 1
      BY <1>2, <2>5, FS_AddElement
    <2> HIDE DEF h
    <2>7. QueueInv(s)'
      <3> USE <1>1, <2>1, <2>2, <2>3, <2>4 DEF SemInv, QueueInv, Users
      <3>1. \A i \in 1..Len(queue'[s]) : i + 1 \in 2..Len(queue[s])
        OBVIOUS
      <3>2. ASSUME NEW i \in 1..Len(queue'[s])
            PROVE  queue'[s][i] \in Users(s) /\ state'[queue'[s][i]] = "wtsem"
        <4> DEFINE t == queue[s][i + 1]
        <4>1. i + 1 \in 1..Len(queue[s]) /\ i + 1 # 1 /\ 1 \in 1..Len(queue[s])
          BY <3>1
        <4>2. queue'[s][i] = t
          OBVIOUS
        <4>3. t \in Users(s) /\ state[t] = "wtsem" /\ t # h
          BY <4>1
        <4>4. state'[t] = "wtsem"
          BY <4>3
        <4>5. QED
          BY <4>2, <4>3, <4>4
      <3>3. ASSUME NEW i \in 1..Len(queue'[s]), NEW j \in 1..Len(queue'[s]),
                   queue'[s][i] = queue'[s][j]
            PROVE  i = j
        BY <3>1, <3>3
      <3>4. ASSUME NEW t \in Users(s), state'[t] = "wtsem"
            PROVE  \E i \in 1..Len(queue'[s]) : queue'[s][i] = t
        <4>1. t # h /\ state[t] = "wtsem"
          BY <3>4
        <4>2. PICK i \in 1..Len(queue[s]) : queue[s][i] = t
          BY <4>1
        <4>3. i - 1 \in 1..Len(queue'[s]) /\ queue'[s][i - 1] = t
          BY <4>1, <4>2
        <4>4. QED
          BY <4>3
      <3>5. QED
        BY <3>2, <3>3, <3>4
    <2>8. Balance(s)'
      <3> DEFINE c == Cardinality(Granted(s))
                 l == Len(queue[s])
                 k == cnt[s]
                 a == Avail(s)
      <3>1. c \in Int /\ l \in Int /\ k \in Int /\ a \in Int
        BY <1>1, <1>2
      <3>2. k + c + l = a
        BY DEF SemInv, Balance
      <3>3. (k + 1) + (c + 1) + (l - 1) = a + 1
        <4> HIDE DEF a, c, k, l
        <4>1. QED
          BY <3>1, <3>2
      <3>4. cnt'[s] + Cardinality(Granted(s)') + Len(queue'[s]) = Avail(s)'
        BY <2>4, <2>6, <3>3
      <3>5. QED
        BY <3>4, Zenon DEF Balance
    <2>9. Consistent(s)'
      BY <1>1, <1>3, <2>1, <2>3, <2>4 DEF SemInv, Consistent
    <2>10. QED
      BY <2>7, <2>8, <2>9 DEF SemInv
  <1>4. CASE ~(cnt[s] + 1 <= 0)
    <2>1. queue[s] = <<>> /\ cnt[s] >= 0
      BY <1>1, <1>4 DEF SemInv, Consistent
    <2>2. /\ queue' = [queue EXCEPT ![s] = IF {} = {} THEN @ ELSE Tail(@)]
          /\ state' = [t \in Sleepers |-> IF t \in {} THEN "ready"
                                          ELSE IF t = me THEN "run" ELSE state[t]]
          /\ rdymsg' = [t \in Sleepers |-> IF t \in {} THEN "MSG_OK" ELSE rdymsg[t]]
      BY <1>4 DEF SemSignalI
    <2>3. /\ queue'[s] = queue[s]
          /\ \A t \in Users(s) : state'[t] = state[t] /\ rdymsg'[t] = rdymsg[t]
      BY <1>1, <2>2
    <2>4. Granted(s)' = Granted(s)
      BY <2>3 DEF Granted, Users
    <2>5. QueueInv(s)'
      BY <2>3 DEF SemInv, QueueInv, Users
    <2>6. Balance(s)'
      BY <1>1, <1>2, <2>3, <2>4 DEF SemInv, Balance
    <2>7. Consistent(s)'
      BY <1>1, <2>1, <2>3 DEF Consistent
    <2>8. QED
      BY <2>5, <2>6, <2>7 DEF SemInv
  <1>5. QED
    BY <1>3, <1>4

\* A message or a slot is taken: by a running thread, which counts the
\* semaphore down, or by one that was granted it.
LEMMA ClaimSem ==
    ASSUME TypeOK, NEW s \in Sems, NEW me, SemInv(s),
           queue'[s] = queue[s], Avail(s)' = Avail(s) - 1,
           \A t \in Users(s) \ {me} : state'[t] = state[t] /\ rdymsg'[t] = rdymsg[t],
           me \in Users(s) => state'[me] = "run",
           \/ cnt[s] >= 1 /\ cnt'[s] = cnt[s] - 1 /\ (me \in Users(s) => state[me] = "run")
           \/ me \in Granted(s) /\ cnt'[s] = cnt[s]
    PROVE  SemInv(s)'
  <1>1. /\ Avail(s) \in Int /\ cnt[s] \in Int
        /\ queue[s] \in Seq(Sleepers) /\ Len(queue[s]) \in Nat
    BY Typed
  <1>2. IsFiniteSet(Granted(s)) /\ Cardinality(Granted(s)) \in Nat
    BY GrantedFinite
  <1>3. \A t \in Users(s) : state'[t] = "wtsem" <=> state[t] = "wtsem"
    BY DEF Granted
  <1>4. Granted(s)' = Granted(s) \ {me}
    BY DEF Granted, Users
  <1>5. cnt'[s] - Cardinality(Granted(s)) + Cardinality(Granted(s)') = cnt[s] - 1
    <2>1. Cardinality(Granted(s)') = IF me \in Granted(s) THEN Cardinality(Granted(s)) - 1
                                                         ELSE Cardinality(Granted(s))
      BY <1>2, <1>4, FS_RemoveElement
    <2>2. me \in Granted(s) => me \in Users(s) /\ state[me] = "ready"
      BY DEF Granted
    <2>3. QED
      BY <1>1, <1>2, <2>1, <2>2
  <1>6. Cardinality(Granted(s)') \in Nat
    BY <1>2, <1>4, FS_RemoveElement, FS_CardinalityType
  <1>7. QueueInv(s)'
    BY <1>3 DEF SemInv, QueueInv, Users
  <1>8. Balance(s)'
    <2> DEFINE c == Cardinality(Granted(s))
               d == Cardinality(Granted(s)')
               l == Len(queue[s])
               k == cnt'[s]
    <2>1. c \in Int /\ d \in Int /\ l \in Int /\ cnt[s] \in Int /\ k \in Int
      BY <1>1, <1>2, <1>6
    <2>2. cnt[s] + c + l = Avail(s) /\ k - c + d = cnt[s] - 1
      BY <1>5 DEF SemInv, Balance
    <2>3. k + d + l = Avail(s) - 1
      <3> HIDE DEF c, d, l, k
      <3>1. QED
        BY <2>1, <2>2
    <2>4. cnt'[s] + Cardinality(Granted(s)') + Len(queue'[s]) = Avail(s)'
      BY <2>3
    <2>5. QED
      BY <2>4, Zenon DEF Balance
  <1>9. Consistent(s)'
    BY <1>1 DEF SemInv, Consistent
  <1>10. QED
    BY <1>7, <1>8, <1>9 DEF SemInv

\* chSemWaitTimeoutS of a thread that has to sleep.
LEMMA SleepSem ==
    ASSUME TypeOK, NEW s \in Sems, NEW me \in Users(s), SemInv(s),
           state[me] = "run", SemSleep(s, me)
    PROVE  SemInv(s)'
  <1>1. /\ Avail(s) \in Int /\ cnt[s] \in Int
        /\ queue[s] \in Seq(Sleepers) /\ Len(queue[s]) \in Nat
        /\ Users(s) \subseteq Sleepers
        /\ queue \in [Sems -> Seq(Sleepers)] /\ cnt \in [Sems -> Int]
        /\ state \in [Sleepers -> {"run", "wtsem", "ready"}]
    BY Typed, UsersApart DEF Sems, Sleepers, TypeOK
  <1>2. IsFiniteSet(Granted(s)) /\ Cardinality(Granted(s)) \in Nat
    BY GrantedFinite
  <1>3. /\ cnt[s] <= 0 /\ cnt'[s] = cnt[s] - 1
        /\ queue'[s] = Append(queue[s], me)
        /\ \A t \in Users(s) : state'[t] = IF t = me THEN "wtsem" ELSE state[t]
        /\ rdymsg' = rdymsg
        /\ posted' = posted /\ fetched' = fetched
    BY <1>1 DEF SemSleep, hist
  <1>4. /\ Len(queue'[s]) = Len(queue[s]) + 1
        /\ \A i \in 1..Len(queue[s]) : queue'[s][i] = queue[s][i]
        /\ queue'[s][Len(queue[s]) + 1] = me
    BY <1>1, <1>3
  <1>5. Granted(s)' = Granted(s)
    BY <1>3 DEF Granted, Users
  <1>6. Avail(s)' = Avail(s)
    BY <1>3 DEF Avail, Stored
  <1>7. QueueInv(s)'
    <2> USE <1>1, <1>3, <1>4 DEF SemInv, QueueInv, Users
    <2>1. \A i \in 1..Len(queue'[s]) : i \in 1..Len(queue[s]) \/ i = Len(queue[s]) + 1
      OBVIOUS
    <2>2. \A i \in 1..Len(queue[s]) : queue[s][i] # me
      OBVIOUS
    <2>3. ASSUME NEW i \in 1..Len(queue'[s])
          PROVE  queue'[s][i] \in Users(s) /\ state'[queue'[s][i]] = "wtsem"
      BY <2>1
    <2>4. ASSUME NEW i \in 1..Len(queue'[s]), NEW j \in 1..Len(queue'[s]),
                 queue'[s][i] = queue'[s][j]
          PROVE  i = j
      BY <2>1, <2>2, <2>4
    <2>5. ASSUME NEW t \in Users(s), state'[t] = "wtsem"
          PROVE  \E i \in 1..Len(queue'[s]) : queue'[s][i] = t
      <3>1. CASE t = me
        BY <3>1
      <3>2. CASE t # me
        <4>1. PICK i \in 1..Len(queue[s]) : queue[s][i] = t
          BY <2>5, <3>2
        <4>2. i \in 1..Len(queue'[s]) /\ queue'[s][i] = t
          BY <4>1
        <4>3. QED
          BY <4>2
      <3>3. QED
        BY <3>1, <3>2
    <2>6. QED
      BY <2>3, <2>4, <2>5
  <1>8. Balance(s)'
    BY <1>1, <1>2, <1>3, <1>4, <1>5, <1>6 DEF SemInv, Balance
  <1>9. Consistent(s)'
    BY <1>1, <1>3, <1>4 DEF SemInv, Consistent
  <1>10. QED
    BY <1>7, <1>8, <1>9 DEF SemInv

\* queue_dequeue takes one thread out and keeps the order of the others.
LEMMA DequeueOne ==
    ASSUME NEW q \in Seq(Sleepers), NEW t, \E k \in 1..Len(q) : q[k] = t
    PROVE  \E i \in 1..Len(q) :
              /\ q[i] = t
              /\ Dequeue(q, t) \in Seq(Sleepers)
              /\ Len(Dequeue(q, t)) = Len(q) - 1
              /\ \A j \in 1..(Len(q) - 1) :
                    Dequeue(q, t)[j] = IF j < i THEN q[j] ELSE q[j + 1]
  <1> DEFINE i == CHOOSE i \in 1..Len(q) : q[i] = t
  <1>1. i \in 1..Len(q) /\ q[i] = t
    OBVIOUS
  <1>2. Dequeue(q, t) = [j \in 1..(Len(q) - 1) |-> IF j < i THEN q[j] ELSE q[j + 1]]
    BY DEF Dequeue
  <1> HIDE DEF i
  <1>3. \A j \in 1..(Len(q) - 1) : (IF j < i THEN q[j] ELSE q[j + 1]) \in Sleepers
    BY <1>1
  <1>4. Len(q) - 1 \in Nat
    BY <1>1
  <1>5. Dequeue(q, t) \in Seq(Sleepers) /\ Len(Dequeue(q, t)) = Len(q) - 1
    BY <1>2, <1>3, <1>4
  <1>6. QED
    BY <1>1, <1>2, <1>5

\* The timer of a sleeping thread: it leaves the queue, and the count goes up.
LEMMA TimeoutSem ==
    ASSUME TypeOK, NEW s \in Sems, NEW t \in Users(s), SemInv(s), Timeout(t)
    PROVE  SemInv(s)'
  <1>1. /\ Avail(s) \in Int /\ cnt[s] \in Int
        /\ queue[s] \in Seq(Sleepers) /\ Len(queue[s]) \in Nat
        /\ Users(s) \subseteq Sleepers /\ t \in Sleepers /\ SemOf(t) = s
        /\ queue \in [Sems -> Seq(Sleepers)] /\ cnt \in [Sems -> Int]
        /\ state \in [Sleepers -> {"run", "wtsem", "ready"}]
        /\ rdymsg \in [Sleepers -> {"MSG_OK", "MSG_TIMEOUT"}]
    BY Typed, UsersApart DEF Sems, Sleepers, TypeOK
  <1>2. IsFiniteSet(Granted(s)) /\ Cardinality(Granted(s)) \in Nat
    BY GrantedFinite
  <1>3. /\ state[t] = "wtsem"
        /\ cnt'[s] = cnt[s] + 1
        /\ queue'[s] = Dequeue(queue[s], t)
        /\ \A u \in Users(s) : /\ state'[u] = IF u = t THEN "ready" ELSE state[u]
                               /\ rdymsg'[u] = IF u = t THEN "MSG_TIMEOUT" ELSE rdymsg[u]
        /\ posted' = posted /\ fetched' = fetched
    BY <1>1 DEF Timeout, hist
  <1>4. \E k \in 1..Len(queue[s]) : queue[s][k] = t
    BY <1>3 DEF SemInv, QueueInv
  <1> DEFINE d == Dequeue(queue[s], t)
  <1>a. PICK i \in 1..Len(queue[s]) :
              /\ queue[s][i] = t
              /\ d \in Seq(Sleepers)
              /\ Len(d) = Len(queue[s]) - 1
              /\ \A j \in 1..(Len(queue[s]) - 1) :
                    d[j] = IF j < i THEN queue[s][j] ELSE queue[s][j + 1]
    <2>1. queue[s] \in Seq(Sleepers)
      BY <1>1
    <2>2. QED
      BY <1>4, <2>1, DequeueOne, Zenon
  <1>b. queue'[s] = d
    BY <1>3
  <1> HIDE DEF d
  <1>5. /\ queue[s][i] = t
        /\ Len(queue'[s]) = Len(queue[s]) - 1
        /\ \A j \in 1..(Len(queue[s]) - 1) :
              queue'[s][j] = IF j < i THEN queue[s][j] ELSE queue[s][j + 1]
    BY <1>a, <1>b
  <1>6. Granted(s)' = Granted(s)
    BY <1>3 DEF Granted, Users
  <1>7. Avail(s)' = Avail(s)
    BY <1>3 DEF Avail, Stored
  <1>8. QueueInv(s)'
    <2> DEFINE Old(j) == IF j < i THEN j ELSE j + 1
    <2>1. ASSUME NEW j \in 1..Len(queue'[s])
          PROVE  Old(j) \in 1..Len(queue[s]) /\ Old(j) # i /\ queue'[s][j] = queue[s][Old(j)]
      <3>1. j \in 1..(Len(queue[s]) - 1)
        BY <1>5
      <3>2. Old(j) \in 1..Len(queue[s]) /\ Old(j) # i
        BY <1>1, <3>1
      <3>3. queue'[s][j] = queue[s][Old(j)]
        BY <1>5, <3>1
      <3>4. QED
        BY <3>2, <3>3
    <2>2. ASSUME NEW j \in 1..Len(queue'[s]), NEW k \in 1..Len(queue'[s]), Old(j) = Old(k)
          PROVE  j = k
      BY <1>1, <2>2
    <2> HIDE DEF Old
    <2>3. ASSUME NEW j \in 1..Len(queue'[s])
          PROVE  queue'[s][j] \in Users(s) /\ state'[queue'[s][j]] = "wtsem"
      <3>1. queue[s][Old(j)] # t
        BY <1>5, <2>1 DEF SemInv, QueueInv
      <3>2. queue[s][Old(j)] \in Users(s) /\ state[queue[s][Old(j)]] = "wtsem"
        BY <2>1 DEF SemInv, QueueInv
      <3>3. state'[queue[s][Old(j)]] = "wtsem"
        BY <1>3, <3>1, <3>2
      <3>4. QED
        BY <2>1, <3>2, <3>3
    <2>4. ASSUME NEW j \in 1..Len(queue'[s]), NEW k \in 1..Len(queue'[s]),
                 queue'[s][j] = queue'[s][k]
          PROVE  j = k
      <3>1. Old(j) = Old(k)
        BY <2>1, <2>4 DEF SemInv, QueueInv
      <3>2. QED
        BY <2>2, <3>1
    <2>5. ASSUME NEW u \in Users(s), state'[u] = "wtsem"
          PROVE  \E j \in 1..Len(queue'[s]) : queue'[s][j] = u
      <3>1. u # t /\ state[u] = "wtsem"
        BY <1>3, <2>5
      <3>2. PICK k \in 1..Len(queue[s]) : queue[s][k] = u
        BY <3>1 DEF SemInv, QueueInv
      <3>3. k # i
        BY <1>5, <3>1, <3>2
      <3>4. CASE k < i
        <4>1. k \in 1..(Len(queue[s]) - 1) /\ queue'[s][k] = u
          BY <1>1, <1>5, <3>2, <3>4
        <4>2. QED
          BY <1>5, <4>1
      <3>5. CASE k > i
        <4>1. k - 1 \in 1..(Len(queue[s]) - 1) /\ ~(k - 1 < i) /\ (k - 1) + 1 = k
          BY <1>1, <3>5
        <4>2. queue'[s][k - 1] = u
          BY <1>5, <3>2, <4>1
        <4>3. QED
          BY <1>5, <4>1, <4>2
      <3>6. QED
        BY <1>1, <3>3, <3>4, <3>5
    <2>6. QED
      BY <2>3, <2>4, <2>5 DEF QueueInv, Users
  <1>9. Balance(s)'
    <2> DEFINE c == Cardinality(Granted(s))
               l == Len(queue[s])
               k == cnt[s]
    <2>1. c \in Int /\ l \in Int /\ k \in Int /\ k + c + l = Avail(s)
      BY <1>1, <1>2 DEF SemInv, Balance
    <2>2. (k + 1) + c + (l - 1) = Avail(s)
      <3> HIDE DEF c, k, l
      <3>1. QED
        BY <2>1
    <2>3. cnt'[s] + Cardinality(Granted(s)') + Len(queue'[s]) = Avail(s)'
      BY <1>3, <1>5, <1>6, <1>7, <2>2
    <2>4. QED
      BY <2>3, Zenon DEF Balance
  <1>10. Consistent(s)'
    <2>1. Len(queue[s]) = -cnt[s]
      BY <1>1, <1>5 DEF SemInv, Consistent
    <2>2. Len(queue'[s]) = -cnt'[s]
      <3>1. Len(queue[s]) - 1 = -(cnt[s] + 1)
        BY <1>1, <2>1
      <3>2. QED
        BY <1>3, <1>5, <3>1
    <2>3. cnt'[s] = 0 => queue'[s] = <<>>
      <3>1. queue'[s] \in Seq(Sleepers)
        BY <1>a, <1>b
      <3>2. QED
        BY <2>2, <3>1
    <2>4. cnt'[s] \in Int /\ cnt'[s] <= 0
      BY <1>1, <1>3, <1>5, <2>1
    <2>5. QED
      BY <2>2, <2>3, <2>4 DEF Consistent
  <1>11. QED
    BY <1>8, <1>9, <1>10 DEF SemInv
----------------------------------------------------------------------------
(* What a signal leaves alone, and what a grant is worth.                  *)

\* A signal touches the queue of s, its users, and the thread that signals.
LEMMA SignalFrame ==
    ASSUME TypeOK, NEW s \in Sems, NEW me, SemInv(s), SemSignalI(s, me)
    PROVE  /\ queue' \in [Sems -> Seq(Sleepers)]
           /\ state' \in [Sleepers -> {"run", "wtsem", "ready"}]
           /\ rdymsg' \in [Sleepers -> {"MSG_OK", "MSG_TIMEOUT"}]
           /\ \A o \in Sems \ {s} : queue'[o] = queue[o]
           /\ \A t \in Sleepers \ Users(s) : /\ rdymsg'[t] = rdymsg[t]
                                            /\ state'[t] = IF t = me THEN "run" ELSE state[t]
  <1> DEFINE woken == IF cnt[s] + 1 <= 0 THEN {Head(queue[s])} ELSE {}
  <1>1. /\ queue' = [queue EXCEPT ![s] = IF woken = {} THEN @ ELSE Tail(@)]
        /\ state' = [t \in Sleepers |-> IF t \in woken THEN "ready"
                                        ELSE IF t = me THEN "run" ELSE state[t]]
        /\ rdymsg' = [t \in Sleepers |-> IF t \in woken THEN "MSG_OK" ELSE rdymsg[t]]
    BY DEF SemSignalI
  <1>2. woken # {} => queue[s] # <<>> /\ Tail(queue[s]) \in Seq(Sleepers) /\ woken \subseteq Users(s)
    <2> SUFFICES ASSUME cnt[s] + 1 <= 0
                 PROVE  /\ queue[s] # <<>> /\ Tail(queue[s]) \in Seq(Sleepers)
                        /\ Head(queue[s]) \in Users(s)
      OBVIOUS
    <2>1. cnt[s] \in Int /\ queue[s] \in Seq(Sleepers)
      BY Typed
    <2>2. Len(queue[s]) >= 1
      BY <2>1 DEF SemInv, Consistent
    <2>3. Head(queue[s]) = queue[s][1] /\ queue[s] # <<>> /\ Tail(queue[s]) \in Seq(Sleepers)
      BY <2>1, <2>2
    <2>4. QED
      BY <2>1, <2>2, <2>3 DEF SemInv, QueueInv
  <1> HIDE DEF woken
  <1>3. queue' \in [Sems -> Seq(Sleepers)]
    BY <1>1, <1>2 DEF TypeOK
  <1>4. state' \in [Sleepers -> {"run", "wtsem", "ready"}]
    BY <1>1 DEF TypeOK
  <1>5. rdymsg' \in [Sleepers -> {"MSG_OK", "MSG_TIMEOUT"}]
    BY <1>1 DEF TypeOK
  <1>6. \A o \in Sems \ {s} : queue'[o] = queue[o]
    BY <1>1 DEF TypeOK
  <1>7. \A t \in Sleepers \ Users(s) : /\ rdymsg'[t] = rdymsg[t]
                                     /\ state'[t] = IF t = me THEN "run" ELSE state[t]
    BY <1>1, <1>2
  <1>8. QED
    BY <1>3, <1>4, <1>5, <1>6, <1>7

\* A positive count, or a grant, means that there is one to take.
LEMMA ClaimAvail ==
    ASSUME TypeOK, NEW s \in Sems, SemInv(s), cnt[s] >= 1 \/ Granted(s) # {}
    PROVE  Avail(s) >= 1
  <1> DEFINE c == Cardinality(Granted(s))
             l == Len(queue[s])
             k == cnt[s]
             a == Avail(s)
  <1>1. c \in Nat /\ l \in Nat /\ k \in Int /\ a \in Int /\ k + c + l = a
    BY Typed, GrantedFinite DEF SemInv, Balance
  <1>2. k < 0 => l = -k
    BY <1>1 DEF SemInv, Consistent
  <1>3. k >= 1 \/ c # 0
    BY GrantedFinite, FS_EmptySet
  <1> HIDE DEF c, l, k, a
  <1>4. a >= 1
    BY <1>1, <1>2, <1>3
  <1>5. QED
    BY <1>4 DEF a

\* There are never fewer messages than none nor more than slots.
LEMMA AvailNat ==
    ASSUME TypeOK, NEW s \in Sems, SemInv(s)
    PROVE  Avail(s) \in Nat
  <1> DEFINE c == Cardinality(Granted(s))
             l == Len(queue[s])
             k == cnt[s]
             a == Avail(s)
  <1>1. c \in Nat /\ l \in Nat /\ k \in Int /\ a \in Int /\ k + c + l = a
    BY Typed, GrantedFinite DEF SemInv, Balance
  <1>2. k < 0 => l = -k
    BY <1>1 DEF SemInv, Consistent
  <1> HIDE DEF c, l, k, a
  <1>3. a \in Nat
    BY <1>1, <1>2
  <1>4. QED
    BY <1>3 DEF a
----------------------------------------------------------------------------
(* The ring.                                                               *)

LEMMA TakeRing ==
    ASSUME TypeOK, RingInv, Stored >= 1,
           ReadPtr' = Circulate(ReadPtr + 1), fetched' = Append(fetched, IBuf[ReadPtr]),
           UNCHANGED <<IBuf, WritePtr, posted>>
    PROVE  /\ ReadPtr' \in Index /\ fetched' \in Seq(Msg)
           /\ IBuf[ReadPtr] = posted[Len(fetched) + 1]
           /\ Stored' = Stored - 1 /\ RingInv'
  <1> USE EvtMsgQAssumption
  <1>1. /\ Len(posted) \in Nat /\ Len(fetched) \in Nat /\ Stored \in 1..Sz
        /\ Stored = Len(posted) - Len(fetched) /\ ReadPtr \in Index /\ WritePtr \in Index
        /\ fetched \in Seq(Msg) /\ posted \in Seq(Msg)
    BY DEF TypeOK, RingInv, Stored
  <1>2. ReadPtr' \in Index /\ ReadPtr' = IF ReadPtr + 1 < Sz THEN ReadPtr + 1 ELSE 0
    BY <1>1 DEF Circulate, Index
  <1>3. fetched' \in Seq(Msg) /\ Len(fetched') = Len(fetched) + 1
    BY <1>1 DEF TypeOK
  <1>4. Stored' = Stored - 1
    BY <1>1, <1>3 DEF Stored
  <1>5. IBuf[ReadPtr] = posted[Len(fetched) + 1]
    <2>1. Slot(0) = ReadPtr /\ 0 \in 0..(Stored - 1)
      BY <1>1 DEF Slot, Wrap, Index
    <2>2. QED
      BY <1>1, <2>1 DEF RingInv
  <1> DEFINE After(k) == Wrap(ReadPtr' + k)
  <1>6. ASSUME NEW k \in 0..(Sz - 1)
        PROVE  After(k) = Slot(k + 1)
    <2>1. CASE ReadPtr + 1 < Sz
      <3>1. ReadPtr' + k = ReadPtr + (k + 1)
        <4>1. ReadPtr \in Int /\ (ReadPtr + 1) + k = ReadPtr + (k + 1)
          BY <1>1 DEF Index
        <4>2. QED
          BY <1>2, <2>1, <4>1
      <3>2. QED
        BY <3>1 DEF Slot
    <2>2. CASE ~(ReadPtr + 1 < Sz)
      BY <1>1, <1>2, <2>2 DEF Slot, Wrap, Index
    <2>3. QED
      BY <2>1, <2>2
  <1> HIDE DEF After
  <1>7. WritePtr' = After(Stored')
    <2>1. WritePtr = Slot(Stored)
      BY DEF RingInv
    <2>2. Stored - 1 \in 0..(Sz - 1) /\ (Stored - 1) + 1 = Stored
      BY <1>1
    <2>3. After(Stored - 1) = Slot(Stored)
      BY <1>6, <2>2
    <2>4. QED
      BY <1>4, <2>1, <2>3
  <1>8. ASSUME NEW k \in 0..(Stored' - 1)
        PROVE  IBuf'[After(k)] = posted'[Len(fetched') + k + 1]
    <2>1. k \in 0..(Sz - 1) /\ k + 1 \in 0..(Stored - 1)
      BY <1>1, <1>4
    <2>2. IBuf[Slot(k + 1)] = posted[Len(fetched) + (k + 1) + 1]
      BY <2>1 DEF RingInv
    <2>3. Len(fetched') + k + 1 = Len(fetched) + (k + 1) + 1
      BY <1>1, <1>3, <2>1
    <2>4. After(k) = Slot(k + 1)
      BY <1>6, <2>1
    <2>5. QED
      BY <2>2, <2>3, <2>4
  <1>9. Stored' \in 0..Sz
    BY <1>1, <1>4
  <1>10. RingInv'
    BY <1>7, <1>8, <1>9 DEF RingInv, Slot, After
  <1>11. QED
    BY <1>2, <1>3, <1>4, <1>5, <1>10

LEMMA PutRing ==
    ASSUME TypeOK, RingInv, Stored < Sz, NEW m \in Msg,
           IBuf' = [IBuf EXCEPT ![WritePtr] = m],
           WritePtr' = Circulate(WritePtr + 1), posted' = Append(posted, m),
           UNCHANGED <<ReadPtr, fetched>>
    PROVE  /\ IBuf' \in [Index -> Msg] /\ WritePtr' \in Index /\ posted' \in Seq(Msg)
           /\ Stored' = Stored + 1 /\ RingInv'
  <1> USE EvtMsgQAssumption
  <1>1. /\ Len(posted) \in Nat /\ Len(fetched) \in Nat /\ Stored \in 0..(Sz - 1)
        /\ Stored = Len(posted) - Len(fetched) /\ ReadPtr \in Index /\ WritePtr \in Index
        /\ fetched \in Seq(Msg) /\ posted \in Seq(Msg) /\ IBuf \in [Index -> Msg]
        /\ WritePtr = Slot(Stored)
    BY DEF TypeOK, RingInv, Stored
  <1>2. WritePtr' \in Index /\ WritePtr' = IF WritePtr + 1 < Sz THEN WritePtr + 1 ELSE 0
    BY <1>1 DEF Circulate, Index
  <1>3. /\ posted' \in Seq(Msg) /\ Len(posted') = Len(posted) + 1
        /\ \A i \in 1..Len(posted) : posted'[i] = posted[i]
        /\ posted'[Len(posted) + 1] = m
    BY <1>1
  <1>4. Stored' = Stored + 1
    BY <1>1, <1>3 DEF Stored
  <1>5. IBuf' \in [Index -> Msg]
    BY <1>1
  <1> DEFINE After(k) == Wrap(ReadPtr' + k)
  <1>6. \A k \in 0..Sz : After(k) = Slot(k)
    BY DEF Slot, Wrap
  <1> HIDE DEF After
  <1>7. WritePtr' = After(Stored')
    <2>1. Slot(Stored + 1) = IF WritePtr + 1 < Sz THEN WritePtr + 1 ELSE 0
      BY <1>1 DEF Slot, Wrap, Index
    <2>2. Stored + 1 \in 0..Sz
      BY <1>1
    <2>3. After(Stored + 1) = Slot(Stored + 1)
      BY <1>6, <2>2
    <2>4. QED
      BY <1>2, <1>4, <2>1, <2>3
  <1>8. ASSUME NEW k \in 0..(Stored' - 1)
        PROVE  IBuf'[After(k)] = posted'[Len(fetched') + k + 1]
    <2>1. k \in 0..Stored /\ Slot(k) \in Index /\ After(k) = Slot(k)
      BY <1>1, <1>4, <1>6 DEF Slot, Wrap, Index
    <2>2. CASE k = Stored
      <3>1. Len(fetched) + k + 1 = Len(posted) + 1
        BY <1>1, <2>2
      <3>2. IBuf'[WritePtr] = m
        BY <1>1
      <3>3. QED
        BY <1>1, <1>3, <2>1, <2>2, <3>1, <3>2
    <2>3. CASE k # Stored
      <3>1. k \in 0..(Stored - 1) /\ Len(fetched) + k + 1 \in 1..Len(posted)
        BY <1>1, <2>1, <2>3
      <3>2. Slot(k) # WritePtr
        BY <1>1, <3>1 DEF Slot, Wrap, Index
      <3>3. IBuf'[Slot(k)] = IBuf[Slot(k)]
        BY <1>1, <2>1, <3>2
      <3>4. IBuf[Slot(k)] = posted[Len(fetched) + k + 1]
        BY <3>1 DEF RingInv
      <3>5. QED
        BY <1>3, <2>1, <3>1, <3>3, <3>4
    <2>4. QED
      BY <2>2, <2>3
  <1>9. Stored' \in 0..Sz
    BY <1>1, <1>4
  <1>10. RingInv'
    BY <1>7, <1>8, <1>9 DEF RingInv, Slot, After
  <1>11. QED
    BY <1>2, <1>3, <1>4, <1>5, <1>10
----------------------------------------------------------------------------
(* The steps.                                                              *)

LEMMA InitIInv == Init => IInv
  <1> SUFFICES ASSUME Init PROVE IInv
    OBVIOUS
  <1> USE EvtMsgQAssumption DEF Init
  <1>1. TypeOK
    BY DEF TypeOK, Index, Sems
  <1>2. Len(posted) = 0 /\ Len(fetched) = 0 /\ Stored = 0
    BY DEF Stored
  <1>3. ASSUME NEW s \in Sems
        PROVE  SemInv(s)
    <2>1. queue[s] = <<>> /\ Len(queue[s]) = 0 /\ cnt[s] = Avail(s) /\ cnt[s] \in Nat
      BY <1>2 DEF Avail, Sems
    <2>2. \A t \in Users(s) : state[t] = "run"
      BY UsersApart DEF Sleepers, Users
    <2>3. Cardinality(Granted(s)) = 0
      <3>1. Granted(s) = {}
        BY <2>2 DEF Granted
      <3>2. QED
        BY <3>1, FS_EmptySet
    <2>4. QED
      BY <2>1, <2>2, <2>3 DEF SemInv, QueueInv, Balance, Consistent
  <1>4. RingInv
    BY <1>2 DEF RingInv, Slot, Wrap
  <1>5. QED
    BY <1>1, <1>3, <1>4 DEF IInv, Sems

\* What the code that claims a message or slot of o and gives back one of s
\* starts from: a positive count that it counts down, or a grant.
ClaimStep(o, s, me) ==
    \/ /\ cnt[o] >= 1
       /\ me \in Sleepers => state[me] = "run"
       /\ cnt' = [cnt EXCEPT ![o] = @ - 1, ![s] = @ + 1]
    \/ /\ me \in Granted(o)
       /\ cnt' = [cnt EXCEPT ![s] = @ + 1]

\* The semaphores, when a thread claims from o and signals s.
LEMMA ClaimSignal ==
    ASSUME IInv, NEW o \in Sems, NEW s \in Sems, o # s, NEW me, me \notin Users(s),
           ClaimStep(o, s, me), SemSignalI(s, me),
           Avail(o)' = Avail(o) - 1, Avail(s)' = Avail(s) + 1
    PROVE  /\ cnt' \in [Sems -> Int] /\ queue' \in [Sems -> Seq(Sleepers)]
           /\ state' \in [Sleepers -> {"run", "wtsem", "ready"}]
           /\ rdymsg' \in [Sleepers -> {"MSG_OK", "MSG_TIMEOUT"}]
           /\ SemInv(o)' /\ SemInv(s)'
  <1>1. /\ TypeOK /\ SemInv(o) /\ SemInv(s)
        /\ cnt \in [Sems -> Int]
    BY DEF IInv, Sems, TypeOK
  <1>2. cnt' \in [Sems -> Int] /\ cnt'[s] = cnt[s] + 1
    BY <1>1 DEF ClaimStep
  <1>3. \/ cnt[o] >= 1 /\ cnt'[o] = cnt[o] - 1 /\ (me \in Sleepers => state[me] = "run")
        \/ me \in Granted(o) /\ cnt'[o] = cnt[o]
    BY <1>1 DEF ClaimStep
  <1>4. Users(o) \subseteq Sleepers /\ Users(o) \cap Users(s) = {}
    BY EvtMsgQAssumption DEF Users, Sleepers, Sems
  <1>5. /\ queue'[o] = queue[o]
        /\ \A t \in Users(o) : /\ rdymsg'[t] = rdymsg[t]
                               /\ state'[t] = IF t = me THEN "run" ELSE state[t]
    BY <1>1, <1>4, SignalFrame
  <1>6. SemInv(o)'
    BY <1>1, <1>3, <1>4, <1>5, ClaimSem
  <1>7. SemInv(s)'
    BY <1>1, <1>2, SignalSem
  <1>8. QED
    BY <1>1, <1>2, <1>6, <1>7, SignalFrame

LEMMA TakeMsgIInv ==
    ASSUME IInv, NEW me \in Fetchers, ClaimStep("Full", "Empty", me), TakeMsg(me)
    PROVE  /\ IInv' /\ Stored \in 1..Sz /\ Stored' = Stored - 1
           /\ IBuf[ReadPtr] = posted[Len(fetched) + 1]
  <1>1. TypeOK /\ RingInv /\ SemInv("Full") /\ Stored \in 0..Sz
    BY DEF IInv, RingInv
  <1>2. Stored >= 1
    <2>1. cnt["Full"] >= 1 \/ Granted("Full") # {}
      BY DEF ClaimStep
    <2>2. Avail("Full") >= 1
      BY <1>1, <2>1, ClaimAvail DEF Sems
    <2>3. QED
      BY <2>2 DEF Avail
  <1>3. /\ ReadPtr' \in Index /\ fetched' \in Seq(Msg)
        /\ IBuf[ReadPtr] = posted[Len(fetched) + 1]
        /\ Stored' = Stored - 1 /\ RingInv'
    BY <1>1, <1>2, TakeRing DEF TakeMsg
  <1>4. Avail("Full")' = Avail("Full") - 1 /\ Avail("Empty")' = Avail("Empty") + 1
    <2>1. Sz - (Stored - 1) = (Sz - Stored) + 1
      BY <1>1, EvtMsgQAssumption
    <2>2. QED
      BY <1>3, <2>1 DEF Avail
  <1>5. /\ cnt' \in [Sems -> Int] /\ queue' \in [Sems -> Seq(Sleepers)]
        /\ state' \in [Sleepers -> {"run", "wtsem", "ready"}]
        /\ rdymsg' \in [Sleepers -> {"MSG_OK", "MSG_TIMEOUT"}]
        /\ SemInv("Full")' /\ SemInv("Empty")'
    <2>1. me \notin Users("Empty") /\ SemSignalI("Empty", me)
      BY UsersApart DEF TakeMsg
    <2>2. QED
      BY <1>4, <2>1, ClaimSignal DEF Sems
  <1>6. TypeOK'
    BY <1>1, <1>3, <1>5 DEF TypeOK, TakeMsg
  <1>7. Stored \in 1..Sz
    BY <1>1, <1>2, EvtMsgQAssumption
  <1>8. QED
    BY <1>3, <1>5, <1>6, <1>7 DEF IInv

LEMMA PutMsgIInv ==
    ASSUME IInv, NEW me \in Senders \cup Posters, NEW m \in Msg,
           ClaimStep("Empty", "Full", me), PutMsg(m, me)
    PROVE  IInv' /\ Stored \in 0..(Sz - 1)
  <1>1. TypeOK /\ RingInv /\ SemInv("Empty") /\ Stored \in 0..Sz
    BY DEF IInv, RingInv
  <1>2. Stored < Sz
    <2>1. cnt["Empty"] >= 1 \/ Granted("Empty") # {}
      BY DEF ClaimStep
    <2>2. Avail("Empty") >= 1
      BY <1>1, <2>1, ClaimAvail DEF Sems
    <2>3. QED
      BY <1>1, <2>2, EvtMsgQAssumption DEF Avail
  <1>3. /\ IBuf' \in [Index -> Msg] /\ WritePtr' \in Index /\ posted' \in Seq(Msg)
        /\ Stored' = Stored + 1 /\ RingInv'
    BY <1>1, <1>2, PutRing DEF PutMsg
  <1>4. Avail("Empty")' = Avail("Empty") - 1 /\ Avail("Full")' = Avail("Full") + 1
    <2>1. Sz - (Stored + 1) = (Sz - Stored) - 1
      BY <1>1, EvtMsgQAssumption
    <2>2. QED
      BY <1>3, <2>1 DEF Avail
  <1>5. /\ cnt' \in [Sems -> Int] /\ queue' \in [Sems -> Seq(Sleepers)]
        /\ state' \in [Sleepers -> {"run", "wtsem", "ready"}]
        /\ rdymsg' \in [Sleepers -> {"MSG_OK", "MSG_TIMEOUT"}]
        /\ SemInv("Full")' /\ SemInv("Empty")'
    <2>1. me \notin Users("Full") /\ SemSignalI("Full", me)
      BY EvtMsgQAssumption, UsersApart DEF PutMsg
    <2>2. QED
      BY <1>4, <2>1, ClaimSignal DEF Sems
  <1>6. TypeOK'
    BY <1>1, <1>3, <1>5 DEF TypeOK, PutMsg
  <1>7. Stored \in 0..(Sz - 1)
    BY <1>1, <1>2, EvtMsgQAssumption
  <1>8. QED
    BY <1>3, <1>5, <1>6, <1>7 DEF IInv

\* A thread falls asleep on its semaphore.
LEMMA SleepIInv ==
    ASSUME IInv, NEW s \in Sems, NEW me \in Users(s), state[me] = "run", SemSleep(s, me),
           arg' \in [Sleepers -> Msg]
    PROVE  IInv'
  <1>1. /\ TypeOK /\ RingInv /\ SemInv(s) /\ SemInv("Full") /\ SemInv("Empty")
        /\ Users(s) \subseteq Sleepers /\ me \in Sleepers
    BY UsersApart DEF IInv, Sems, Sleepers
  <1>2. /\ UNCHANGED <<IBuf, ReadPtr, WritePtr, posted, fetched, rdymsg>>
        /\ cnt' = [cnt EXCEPT ![s] = @ - 1]
        /\ queue' = [queue EXCEPT ![s] = Append(@, me)]
        /\ state' = [state EXCEPT ![me] = "wtsem"]
        /\ timed' \in [Sleepers -> BOOLEAN]
    BY <1>1 DEF SemSleep, ring, hist, TypeOK
  <1>3. TypeOK'
    <2>1. cnt' \in [Sems -> Int]
      BY <1>1, <1>2 DEF TypeOK
    <2>2. queue' \in [Sems -> Seq(Sleepers)]
      BY <1>1, <1>2 DEF TypeOK
    <2>3. state' \in [Sleepers -> {"run", "wtsem", "ready"}]
      BY <1>1, <1>2 DEF TypeOK
    <2>4. QED
      BY <1>1, <1>2, <2>1, <2>2, <2>3 DEF TypeOK
  <1>4. Stored' = Stored
    BY <1>2 DEF Stored
  <1>5. RingInv'
    BY <1>1, <1>2, <1>4 DEF RingInv, Slot
  <1>6. ASSUME NEW o \in Sems
        PROVE  SemInv(o)'
    <2>1. CASE o = s
      BY <1>1, <2>1, SleepSem
    <2>2. CASE o # s
      <3>1. SemInv(o) /\ cnt'[o] = cnt[o] /\ queue'[o] = queue[o]
        BY <1>1, <1>2, <2>2 DEF Sems, TypeOK
      <3>2. me \notin Users(o) /\ Users(o) \subseteq Sleepers
        BY <2>2, UsersApart DEF Sems, Sleepers
      <3>3. \A t \in Users(o) : state'[t] = state[t] /\ rdymsg'[t] = rdymsg[t]
        BY <1>1, <1>2, <3>2 DEF TypeOK
      <3>4. Granted(o)' = Granted(o)
        BY <3>3 DEF Granted, Users
      <3>5. Avail(o)' = Avail(o)
        BY <1>4 DEF Avail
      <3>6. QED
        BY <3>1, <3>3, <3>4, <3>5, QuietSem
    <2>3. QED
      BY <2>1, <2>2
  <1>7. QED
    BY <1>3, <1>5, <1>6 DEF IInv, Sems

\* A sleeping thread's timer ends its sleep.
LEMMA TimeoutIInv ==
    ASSUME IInv, NEW t \in Sleepers, Timeout(t)
    PROVE  IInv'
  <1> DEFINE s == SemOf(t)
  <1>1. /\ TypeOK /\ RingInv /\ SemInv("Full") /\ SemInv("Empty")
        /\ s \in Sems /\ t \in Users(s)
    BY UsersApart DEF IInv, Sems, Sleepers
  <1> HIDE DEF s
  <1>2. SemInv(s)
    BY <1>1 DEF Sems
  <1>3. /\ UNCHANGED <<IBuf, ReadPtr, WritePtr, posted, fetched, timed, arg>>
        /\ cnt' = [cnt EXCEPT ![s] = @ + 1]
        /\ queue' = [queue EXCEPT ![s] = Dequeue(@, t)]
        /\ state' = [state EXCEPT ![t] = "ready"]
        /\ rdymsg' = [rdymsg EXCEPT ![t] = "MSG_TIMEOUT"]
        /\ state[t] = "wtsem"
    BY DEF Timeout, ring, hist, s
  <1>4. TypeOK'
    <2>1. queue[s] \in Seq(Sleepers) /\ \E k \in 1..Len(queue[s]) : queue[s][k] = t
      BY <1>1, <1>2, <1>3 DEF TypeOK, SemInv, QueueInv
    <2>2. Dequeue(queue[s], t) \in Seq(Sleepers)
      BY <2>1, DequeueOne, Zenon
    <2>3. queue' \in [Sems -> Seq(Sleepers)]
      BY <1>1, <1>3, <2>2 DEF TypeOK
    <2>4. cnt' \in [Sems -> Int]
      BY <1>1, <1>3 DEF TypeOK
    <2>5. QED
      BY <1>1, <1>3, <2>3, <2>4 DEF TypeOK
  <1>5. Stored' = Stored
    BY <1>3 DEF Stored
  <1>6. RingInv'
    BY <1>1, <1>3, <1>5 DEF RingInv, Slot
  <1>7. ASSUME NEW o \in Sems
        PROVE  SemInv(o)'
    <2>1. CASE o = s
      BY <1>1, <1>2, <2>1, TimeoutSem
    <2>2. CASE o # s
      <3>1. SemInv(o) /\ cnt'[o] = cnt[o] /\ queue'[o] = queue[o]
        BY <1>1, <1>3, <2>2 DEF Sems, TypeOK
      <3>2. t \notin Users(o) /\ Users(o) \subseteq Sleepers
        BY <1>1, <2>2, UsersApart DEF Sems, Sleepers
      <3>3. \A u \in Users(o) : state'[u] = state[u] /\ rdymsg'[u] = rdymsg[u]
        BY <1>1, <1>3, <3>2 DEF TypeOK
      <3>4. Granted(o)' = Granted(o)
        BY <3>3 DEF Granted, Users
      <3>5. Avail(o)' = Avail(o)
        BY <1>5 DEF Avail
      <3>6. QED
        BY <3>1, <3>3, <3>4, <3>5, QuietSem
    <2>3. QED
      BY <2>1, <2>2
  <1>8. QED
    BY <1>4, <1>6, <1>7 DEF IInv, Sems

\* A thread that was timed out goes on with nothing.
LEMMA GiveUpIInv ==
    ASSUME IInv, NEW t \in Sleepers, state[t] = "ready", rdymsg[t] # "MSG_OK",
           state' = [state EXCEPT ![t] = "run"],
           UNCHANGED <<ring, sems, rdymsg, timed, arg, hist>>
    PROVE  IInv'
  <1>1. /\ TypeOK /\ RingInv /\ SemInv("Full") /\ SemInv("Empty")
        /\ UNCHANGED <<IBuf, ReadPtr, WritePtr, posted, fetched, cnt, queue, rdymsg, timed, arg>>
    BY DEF IInv, ring, sems, hist
  <1>2. TypeOK'
    BY <1>1 DEF TypeOK
  <1>3. Stored' = Stored
    BY <1>1 DEF Stored
  <1>4. RingInv'
    BY <1>1, <1>3 DEF RingInv, Slot
  <1>5. ASSUME NEW o \in Sems
        PROVE  SemInv(o)'
    <2>1. SemInv(o) /\ cnt'[o] = cnt[o] /\ queue'[o] = queue[o]
      BY <1>1 DEF Sems
    <2>2. Users(o) \subseteq Sleepers
      BY UsersApart DEF Sems, Sleepers
    <2>3. \A u \in Users(o) : /\ rdymsg'[u] = rdymsg[u]
                             /\ state'[u] = IF u = t THEN "run" ELSE state[u]
      BY <1>1, <2>2 DEF TypeOK
    <2>4. Granted(o)' = Granted(o)
      BY <2>3 DEF Granted, Users
    <2>5. Avail(o)' = Avail(o)
      BY <1>3 DEF Avail
    <2>6. \A u \in Users(o) : state'[u] = "wtsem" <=> state[u] = "wtsem"
      BY <2>3
    <2>7. QED
      BY <2>1, <2>4, <2>5, <2>6, QuietSem
  <1>6. QED
    BY <1>2, <1>4, <1>5 DEF IInv, Sems

(* Every step keeps the invariant and is, for the messages that go in and  *)
(* come out, a step of MsgFifo or none.                                    *)
LEMMA NextStep ==
    ASSUME IInv, [Next]_vars
    PROVE  IInv' /\ [Fifo!Next]_(Fifo!vars)
  <1> USE DEF Fifo!Next, Fifo!vars
  <1>1. TypeOK /\ Fetchers \subseteq Sleepers /\ Senders \subseteq Sleepers
    BY DEF IInv, Sleepers
  <1>2. \A s \in Sems : cnt[s] \in Int
    BY <1>1 DEF TypeOK
  <1>take. ASSUME NEW t \in Fetchers, ClaimStep("Full", "Empty", t), TakeMsg(t)
           PROVE  IInv' /\ Fifo!Get
    <2>1. /\ IInv' /\ Stored \in 1..Sz
          /\ fetched' = Append(fetched, posted[Len(fetched) + 1]) /\ posted' = posted
      BY <1>take, TakeMsgIInv DEF TakeMsg
    <2>2. Len(fetched) < Len(posted)
      BY <1>1, <2>1, Typed DEF Stored, Sems
    <2>3. QED
      BY <2>1, <2>2 DEF Fifo!Get
  <1>put. ASSUME NEW t \in Senders \cup Posters, NEW m \in Msg,
                 ClaimStep("Empty", "Full", t), PutMsg(m, t)
          PROVE  IInv' /\ Fifo!Put(m)
    <2>1. /\ IInv' /\ Stored \in 0..(Sz - 1)
          /\ posted' = Append(posted, m) /\ fetched' = fetched
      BY <1>put, PutMsgIInv DEF PutMsg
    <2>2. Len(posted) - Len(fetched) < Sz
      BY <2>1, EvtMsgQAssumption DEF Stored
    <2>3. QED
      BY <2>1, <2>2 DEF Fifo!Put
  <1>3. ASSUME NEW t \in Fetchers, Fetch(t)
        PROVE  IInv' /\ Fifo!Get
    <2>1. ClaimStep("Full", "Empty", t) /\ TakeMsg(t)
      BY <1>2, <1>3 DEF Fetch, ClaimStep, Sems
    <2>2. QED
      BY <1>take, <2>1
  <1>4. ASSUME NEW t \in Fetchers, FetchSleeps(t)
        PROVE  IInv' /\ UNCHANGED <<posted, fetched>>
    <2>1. /\ state[t] = "run" /\ SemSleep("Full", t) /\ arg' = arg
          /\ t \in Users("Full") /\ arg' \in [Sleepers -> Msg]
      BY <1>1, <1>4, UsersApart DEF FetchSleeps, TypeOK
    <2>2. IInv'
      BY <2>1, SleepIInv DEF Sems
    <2>3. QED
      BY <2>1, <2>2 DEF SemSleep, hist
  <1>5. ASSUME NEW t \in Fetchers, FetchResumes(t)
        PROVE  IInv' /\ (Fifo!Get \/ UNCHANGED <<posted, fetched>>)
    <2>1. CASE rdymsg[t] = "MSG_OK"
      <3>1. ClaimStep("Full", "Empty", t) /\ TakeMsg(t)
        BY <1>5, <2>1, UsersApart DEF FetchResumes, ClaimStep, Granted
      <3>2. QED
        BY <1>take, <3>1
    <2>2. CASE rdymsg[t] # "MSG_OK"
      <3>1. /\ state[t] = "ready" /\ state' = [state EXCEPT ![t] = "run"]
            /\ UNCHANGED <<ring, sems, rdymsg, timed, arg, hist>> /\ t \in Sleepers
        BY <1>1, <1>5, <2>2 DEF FetchResumes
      <3>2. QED
        BY <2>2, <3>1, GiveUpIInv DEF hist
    <2>3. QED
      BY <2>1, <2>2
  <1>6. ASSUME NEW t \in Senders, NEW m \in Msg, SendWaitingAbility(t, m)
        PROVE  IInv' /\ Fifo!Put(m)
    <2>1. ClaimStep("Empty", "Full", t) /\ PutMsg(m, t)
      <3>1. cnt' = [cnt EXCEPT !["Empty"] = @ - 1, !["Full"] = @ + 1]
        BY <1>1, <1>6 DEF SendWaitingAbility, TypeOK, Sems
      <3>2. cnt["Empty"] >= 1
        <4>1. cnt["Empty"] \in Int /\ cnt["Empty"] - 1 >= 0
          BY <1>2, <1>6 DEF SendWaitingAbility, Sems
        <4>2. QED
          BY <4>1
      <3>3. state[t] = "run" /\ PutMsg(m, t)
        BY <1>6 DEF SendWaitingAbility
      <3>4. QED
        BY <3>1, <3>2, <3>3 DEF ClaimStep
    <2>2. QED
      BY <1>put, <2>1
  <1>7. ASSUME NEW t \in Senders, NEW m \in Msg, SendSleeps(t, m)
        PROVE  IInv' /\ UNCHANGED <<posted, fetched>>
    <2>1. /\ state[t] = "run" /\ SemSleep("Empty", t)
          /\ t \in Users("Empty") /\ arg' \in [Sleepers -> Msg]
      BY <1>1, <1>7, UsersApart DEF SendSleeps, TypeOK
    <2>2. IInv'
      BY <2>1, SleepIInv DEF Sems
    <2>3. QED
      BY <2>1, <2>2 DEF SemSleep, hist
  <1>8. ASSUME NEW t \in Senders, SendResumes(t)
        PROVE  IInv' /\ (Fifo!Put(arg[t]) \/ UNCHANGED <<posted, fetched>>) /\ arg[t] \in Msg
    <2>1. CASE rdymsg[t] = "MSG_OK"
      <3>1. ClaimStep("Empty", "Full", t) /\ PutMsg(arg[t], t) /\ arg[t] \in Msg
        BY <1>1, <1>8, <2>1, UsersApart DEF SendResumes, ClaimStep, Granted, TypeOK
      <3>2. QED
        BY <1>put, <3>1
    <2>2. CASE rdymsg[t] # "MSG_OK"
      <3>1. /\ state[t] = "ready" /\ state' = [state EXCEPT ![t] = "run"]
            /\ UNCHANGED <<ring, sems, rdymsg, timed, arg, hist>>
            /\ t \in Sleepers /\ arg[t] \in Msg
        BY <1>1, <1>8, <2>2 DEF SendResumes, TypeOK
      <3>2. QED
        BY <2>2, <3>1, GiveUpIInv DEF hist
    <2>3. QED
      BY <2>1, <2>2
  <1>9. ASSUME NEW p \in Posters, NEW m \in Msg, SendNowOrExit(p, m)
        PROVE  IInv' /\ Fifo!Put(m)
    <2>1. ClaimStep("Empty", "Full", p) /\ PutMsg(m, p)
      <3>1. cnt' = [cnt EXCEPT !["Empty"] = @ - 1, !["Full"] = @ + 1]
        BY <1>1, <1>9 DEF SendNowOrExit, TypeOK, Sems
      <3>2. p \notin Sleepers
        BY EvtMsgQAssumption DEF Sleepers
      <3>3. cnt["Empty"] >= 1
        <4>1. cnt["Empty"] \in Int /\ cnt["Empty"] > 0
          BY <1>2, <1>9 DEF SendNowOrExit, Sems
        <4>2. QED
          BY <4>1
      <3>4. PutMsg(m, p)
        BY <1>9 DEF SendNowOrExit
      <3>5. QED
        BY <3>1, <3>2, <3>3, <3>4 DEF ClaimStep
    <2>2. QED
      BY <1>put, <2>1
  <1>10. ASSUME NEW t \in Sleepers, Timeout(t)
         PROVE  IInv' /\ UNCHANGED <<posted, fetched>>
    BY <1>10, TimeoutIInv DEF Timeout, hist
  <1>11. CASE UNCHANGED vars
    <2>1. UNCHANGED <<IBuf, ReadPtr, WritePtr, cnt, queue, state, rdymsg, timed, arg,
                      posted, fetched>>
      BY <1>11 DEF vars, ring, sems, thds, hist
    <2>2. TypeOK' /\ RingInv'
      BY <1>1, <2>1 DEF TypeOK, IInv, RingInv, Stored, Slot
    <2>3. \A s \in Sems : SemInv(s) => SemInv(s)'
      BY <2>1 DEF SemInv, QueueInv, Users, Balance, Avail, Stored, Granted, Consistent
    <2>4. QED
      BY <2>1, <2>2, <2>3 DEF IInv, Sems
  <1>12. QED
    BY <1>3, <1>4, <1>5, <1>6, <1>7, <1>8, <1>9, <1>10, <1>11 DEF Next
----------------------------------------------------------------------------
(* The theorems.                                                           *)

\* The inductive invariant holds in every state of every behaviour.
THEOREM InductiveInvariant == Spec => []IInv
  <1>1. IInv /\ [Next]_vars => IInv'
    BY NextStep
  <1>2. QED
    BY InitIInv, <1>1, PTL DEF Spec

\* Type correctness; the two indices of the ring never leave it.
THEOREM TypeCorrect == Spec => []TypeOK
  <1>1. IInv => TypeOK
    BY DEF IInv
  <1>2. QED
    BY InductiveInvariant, <1>1, PTL

\* The kernel's assertion on a semaphore (chsem.c) never fails.
THEOREM SemaphoresConsistent == Spec => []SemConsistent
  <1>1. IInv => SemConsistent
    BY DEF IInv, SemInv, Consistent, SemConsistent, Sems
  <1>2. QED
    BY InductiveInvariant, <1>1, PTL

\* The semaphores count the messages and the slots nobody has been promised.
THEOREM TokensAlwaysConserved == Spec => []TokensConserved
  <1>1. ASSUME IInv, NEW s \in Sems
        PROVE  Unclaimed(s) >= 0 /\ cnt[s] = Unclaimed(s) - Len(queue[s])
    <2> DEFINE c == Cardinality(Granted(s))
               l == Len(queue[s])
               k == cnt[s]
               a == Avail(s)
    <2>1. /\ c \in Nat /\ l \in Nat /\ k \in Int /\ a \in Int
          /\ k + c + l = a /\ (k < 0 => l = -k)
      <3>1. TypeOK /\ SemInv(s)
        BY <1>1 DEF IInv, Sems
      <3>2. c \in Nat /\ l \in Nat /\ k \in Int /\ a \in Int
        BY <3>1, Typed, GrantedFinite
      <3>3. QED
        BY <3>1, <3>2 DEF SemInv, Balance, Consistent
    <2> HIDE DEF c, l, k, a
    <2>2. a - c >= 0 /\ k = (a - c) - l
      BY <2>1
    <2>3. QED
      BY <2>2 DEF Unclaimed, c, l, k, a
  <1>2. IInv => TokensConserved
    BY <1>1 DEF TokensConserved
  <1>3. QED
    BY InductiveInvariant, <1>2, PTL

NoLostWakeup == \A s \in Sems : queue[s] # <<>> => Unclaimed(s) = 0

\* Nobody sleeps on a semaphore while what it waits for is there unclaimed.
THEOREM WakeupNeverLost == Spec => []NoLostWakeup
  <1>1. ASSUME IInv, NEW s \in Sems, queue[s] # <<>>
        PROVE  Unclaimed(s) = 0
    <2> DEFINE c == Cardinality(Granted(s))
               l == Len(queue[s])
               k == cnt[s]
               a == Avail(s)
    <2>1. c \in Nat /\ l \in Nat /\ k \in Int /\ a \in Int /\ k + c + l = a /\ l = -k
      <3>1. TypeOK /\ SemInv(s)
        BY <1>1 DEF IInv, Sems
      <3>2. c \in Nat /\ l \in Nat /\ k \in Int /\ a \in Int
        BY <3>1, Typed, GrantedFinite
      <3>3. QED
        BY <1>1, <3>1, <3>2 DEF SemInv, Balance, Consistent
    <2> HIDE DEF c, l, k, a
    <2>2. a - c = 0
      BY <2>1
    <2>3. QED
      BY <2>2 DEF Unclaimed, c, a
  <1>2. IInv => NoLostWakeup
    BY <1>1 DEF NoLostWakeup
  <1>3. QED
    BY InductiveInvariant, <1>2, PTL

\* The event queue implements the bounded FIFO: messages come out once each
\* and in order, and never more than Sz wait.
THEOREM ImplementsFifo == Spec => FifoSpec
  <1> SUFFICES Spec => Fifo!Spec
    BY DEF FifoSpec
  <1>1. Init => Fifo!Init
    BY DEF Init, Fifo!Init
  <1>2. IInv /\ [Next]_vars => [Fifo!Next]_(Fifo!vars)
    BY NextStep
  <1>3. QED
    BY <1>1, <1>2, InductiveInvariant, PTL DEF Spec, Fifo!Spec
=============================================================================
