-------------------------- MODULE ChKernel_proofs --------------------------
(***************************************************************************)
(* Proofs about the scheduler for any threads, priorities and references,  *)
(* and any number of interrupts between two calls.                         *)
(***************************************************************************)
EXTENDS ChKernel, SequenceTheorems, WellFoundedInduction, TLAPS

ThreadState == {"CURRENT", "READY", "SUSPENDED", "SLEEPING", "WTSTART", "FINAL"}

Sorted(s, pr) == \A i, j \in DOMAIN s : i < j => pr[s[i]] >= pr[s[j]]

\* The ready list and the current thread: each thread that can run is in one
\* place, in the order of priorities, and the idle thread, below all others,
\* can always run; so there is always a thread to switch to.
ListInv ==
    /\ current \in Thread /\ ready \in Seq(Thread) /\ IsInjective(ready)
    /\ state \in [Thread -> ThreadState] /\ prio \in [Thread -> Level]
    /\ \A t \in Thread : /\ state[t] = "CURRENT" <=> t = current
                         /\ state[t] = "READY" <=> t \in ToSet(ready)
    /\ Sorted(ready, prio)
    /\ ~isr => \A t \in ToSet(ready) : prio[current] >= prio[t]
    /\ state[Idle] \in {"CURRENT", "READY"}
    /\ \A t \in Thread \ {Idle} : prio[t] > prio[Idle]

\* The waits: a callback is run before the interrupt that unlinked its timer
\* returns, so none is under way when a thread calls the kernel.
WaitInv ==
    /\ u \in [Thread -> Ref \cup {MSG_OK, MSG_TIMEOUT}]
    /\ ref \in [Ref -> Thread \cup {NULL}]
    /\ armed \in [Thread -> BOOLEAN] /\ firing \in Thread \cup {NULL} /\ isr \in BOOLEAN
    /\ WaitsConsistent
    /\ firing # NULL => isr

IInv == ListInv /\ WaitInv
----------------------------------------------------------------------------
(* Sequences.                                                              *)

LEMMA NatMin ==
  ASSUME NEW T \in SUBSET Nat, T # {}
  PROVE  \E x \in T : \A y \in T : x <= y
  <1>1. \E x \in T : \A y \in T : ~ (<<y, x>> \in OpToRel(<, Nat))
    BY NatLessThanWellFounded, WFMin
  <1>2. \E x \in T : \A y \in T : ~ (<<y, x>> \in {ss \in Nat \X Nat : ss[1] < ss[2]})
    BY <1>1, Zenon DEF OpToRel
  <1>3. ASSUME NEW x \in T, NEW y \in T, ~ (<<y, x>> \in {ss \in Nat \X Nat : ss[1] < ss[2]})
        PROVE  x <= y
    <2>1. x \in Nat /\ y \in Nat
      OBVIOUS
    <2>2. ~(y < x)
      BY <1>3, <2>1
    <2>3. QED
      BY <2>1, <2>2
  <1>4. QED
    BY <1>2, <1>3

LEMMA InsertAtIs ==
  ASSUME NEW S, NEW s \in Seq(S), NEW t \in S, NEW k \in 1..(Len(s) + 1)
  PROVE  /\ InsertAt(s, k, t) \in Seq(S)
         /\ Len(InsertAt(s, k, t)) = Len(s) + 1
         /\ \A j \in 1..(Len(s) + 1) :
              InsertAt(s, k, t)[j] = IF j < k THEN s[j] ELSE IF j = k THEN t ELSE s[j - 1]
  <1> DEFINE a == SubSeq(s, 1, k - 1)
             b == SubSeq(s, k, Len(s))
             m == <<t>>
             h == a \o m
             r == h \o b
             la == k - 1
             lb == Len(s) - k + 1
  <1>1. Len(s) \in Nat /\ k \in Nat /\ la \in Nat /\ lb \in Nat /\ la = k - 1 /\ lb = Len(s) - k + 1
    OBVIOUS
  <1>2. a \in Seq(S) /\ Len(a) = la /\ \A j \in 1..la : a[j] = s[j]
    OBVIOUS
  <1>3. b \in Seq(S) /\ Len(b) = lb /\ \A j \in 1..lb : b[j] = s[la + j]
    OBVIOUS
  <1>4. m \in Seq(S) /\ Len(m) = 1 /\ m[1] = t
    OBVIOUS
  <1>5. r = InsertAt(s, k, t)
    BY DEF InsertAt
  <1>6. h \in Seq(S) /\ Len(h) = k /\ h[k] = t /\ \A j \in 1..la : h[j] = s[j]
    <2> HIDE DEF a, b, m, la, lb, r
    <2>1. /\ h \in Seq(S) /\ Len(h) = Len(a) + Len(m)
          /\ \A j \in 1..(Len(a) + Len(m)) : h[j] = IF j <= Len(a) THEN a[j] ELSE m[j - Len(a)]
      BY <1>2, <1>4, ConcatProperties
    <2> HIDE DEF h
    <2>2. h \in Seq(S) /\ Len(h) = k /\ \A j \in 1..k : h[j] = IF j <= la THEN a[j] ELSE m[j - la]
      BY <1>1, <1>2, <1>4, <2>1
    <2>3. QED
      BY <1>1, <1>2, <1>4, <2>2
  <1>7. r \in Seq(S) /\ Len(r) = k + lb /\ (\A j \in 1..k : r[j] = h[j])
        /\ \A j \in (k + 1)..(k + lb) : r[j] = b[j - k]
    <2> HIDE DEF a, b, m, la, lb, h
    <2>1. /\ r \in Seq(S) /\ Len(r) = Len(h) + Len(b)
          /\ \A j \in 1..(Len(h) + Len(b)) : r[j] = IF j <= Len(h) THEN h[j] ELSE b[j - Len(h)]
      BY <1>3, <1>6, ConcatProperties
    <2> HIDE DEF r
    <2>2. QED
      BY <1>1, <1>3, <1>6, <2>1
  <1> HIDE DEF a, b, m, h, r, la, lb
  <1>8. ASSUME NEW j \in 1..(Len(s) + 1)
        PROVE  r[j] = IF j < k THEN s[j] ELSE IF j = k THEN t ELSE s[j - 1]
    <2>1. CASE j < k
      <3>1. j \in 1..la /\ j \in 1..k
        BY <1>1, <2>1
      <3>2. QED
        BY <1>6, <1>7, <2>1, <3>1
    <2>2. CASE j = k
      <3>1. j \in 1..k
        BY <1>1, <2>2
      <3>2. QED
        BY <1>6, <1>7, <2>2, <3>1
    <2>3. CASE j > k
      <3>1. j \in (k + 1)..(k + lb) /\ j - k \in 1..lb /\ la + (j - k) = j - 1
        BY <1>1, <2>3
      <3>2. r[j] = s[j - 1]
        BY <1>3, <1>7, <3>1
      <3>3. QED
        BY <1>1, <2>3, <3>2
    <2>4. QED
      BY <1>1, <2>1, <2>2, <2>3
  <1>9. Len(r) = Len(s) + 1
    BY <1>1, <1>7
  <1>10. QED
    BY <1>5, <1>7, <1>8, <1>9

\* There is a first place in s whose thread is in Low, or else the end.
LEMMA PlaceExists ==
  ASSUME NEW s \in Seq(Thread), NEW Low
  PROVE  \E k \in 1..(Len(s) + 1) : /\ k = Len(s) + 1 \/ s[k] \in Low
                                    /\ \A j \in 1..(k - 1) : s[j] \notin Low
  <1> DEFINE T == {k \in 1..(Len(s) + 1) : k = Len(s) + 1 \/ s[k] \in Low}
  <1>1. Len(s) \in Nat
    OBVIOUS
  <1>2. T \in SUBSET Nat /\ Len(s) + 1 \in T
    BY <1>1
  <1>3. PICK k \in T : \A y \in T : k <= y
    <2> HIDE DEF T
    <2>1. QED
      BY <1>2, NatMin
  <1>4. \A j \in 1..(k - 1) : j \notin T /\ j \in 1..(Len(s) + 1)
    BY <1>1, <1>2, <1>3
  <1>5. QED
    BY <1>1, <1>3, <1>4

\* A thread put where none ahead of it is below it and none behind it above.
LEMMA InsertKeeps ==
  ASSUME NEW s \in Seq(Thread), NEW t \in Thread, NEW k \in 1..(Len(s) + 1),
         NEW pr \in [Thread -> Level],
         IsInjective(s), t \notin ToSet(s), Sorted(s, pr),
         \A j \in 1..(k - 1) : pr[s[j]] >= pr[t],
         k = Len(s) + 1 \/ pr[s[k]] <= pr[t]
  PROVE  /\ InsertAt(s, k, t) \in Seq(Thread)
         /\ IsInjective(InsertAt(s, k, t))
         /\ ToSet(InsertAt(s, k, t)) = ToSet(s) \cup {t}
         /\ Sorted(InsertAt(s, k, t), pr)
  <1> DEFINE r == InsertAt(s, k, t)
             n == Len(s)
  <1>1. n \in Nat /\ DOMAIN s = 1..n /\ \A j \in 1..n : s[j] \in Thread
    OBVIOUS
  <1>2. /\ r \in Seq(Thread) /\ DOMAIN r = 1..(n + 1)
        /\ \A j \in 1..(n + 1) : r[j] = IF j < k THEN s[j] ELSE IF j = k THEN t ELSE s[j - 1]
    <2>1. /\ r \in Seq(Thread) /\ Len(r) = n + 1
          /\ \A j \in 1..(n + 1) :
               r[j] = IF j < k THEN s[j] ELSE IF j = k THEN t ELSE s[j - 1]
      BY InsertAtIs
    <2> HIDE DEF r, n
    <2>2. DOMAIN r = 1..(n + 1)
      BY <2>1, LenProperties
    <2>3. QED
      BY <2>1, <2>2
  <1>3. \A x \in Thread : pr[x] \in Nat
    BY ChKernelAssumption
  <1>4. \A i, j \in 1..n : s[i] = s[j] => i = j
    BY <1>1 DEF IsInjective
  <1>5. \A j \in 1..n : s[j] # t
    BY <1>1 DEF ToSet
  <1>6. \A i, j \in 1..n : i <= j => pr[s[i]] >= pr[s[j]]
    BY <1>1, <1>3 DEF Sorted
  <1>7. \A j \in 1..n : IF j < k THEN pr[s[j]] >= pr[t] ELSE pr[t] >= pr[s[j]]
    <2> SUFFICES ASSUME NEW j \in 1..n, ~(j < k) PROVE pr[t] >= pr[s[j]]
      BY <1>1
    <2>1. k \in 1..n /\ k <= j
      BY <1>1
    <2>2. pr[s[k]] <= pr[t] /\ pr[s[k]] >= pr[s[j]]
      BY <1>1, <1>6, <2>1
    <2>3. QED
      BY <1>1, <1>3, <2>1, <2>2
  <1> HIDE DEF r, n
  <1>8. IsInjective(r)
    <2> SUFFICES ASSUME NEW i \in 1..(n + 1), NEW j \in 1..(n + 1), r[i] = r[j] PROVE i = j
      BY <1>2 DEF IsInjective
    <2>1. QED
      BY <1>1, <1>2, <1>4, <1>5
  <1>9. ToSet(r) = ToSet(s) \cup {t}
    <2>1. ASSUME NEW j \in 1..(n + 1) PROVE r[j] \in ToSet(s) \cup {t}
      <3>1. CASE j = k
        BY <1>2, <3>1
      <3>2. CASE j < k
        <4>1. j \in 1..n /\ r[j] = s[j]
          BY <1>1, <1>2, <3>2 DEF n
        <4>2. QED
          BY <1>1, <4>1 DEF ToSet
      <3>3. CASE j > k
        <4>1. j - 1 \in 1..n /\ r[j] = s[j - 1]
          BY <1>1, <1>2, <3>3 DEF n
        <4>2. QED
          BY <1>1, <4>1 DEF ToSet
      <3>4. QED
        BY <1>1, <3>1, <3>2, <3>3
    <2>2. ASSUME NEW j \in 1..n PROVE s[j] \in ToSet(r)
      <3>1. CASE j < k
        <4>1. j \in 1..(n + 1) /\ r[j] = s[j]
          BY <1>1, <1>2, <3>1
        <4>2. QED
          BY <1>2, <4>1 DEF ToSet
      <3>2. CASE ~(j < k)
        <4>1. j + 1 \in 1..(n + 1) /\ r[j + 1] = s[j]
          BY <1>1, <1>2, <3>2
        <4>2. QED
          BY <1>2, <4>1 DEF ToSet
      <3>3. QED
        BY <3>1, <3>2
    <2>3. t \in ToSet(r)
      BY <1>2 DEF ToSet, n
    <2>4. QED
      BY <1>1, <1>2, <2>1, <2>2, <2>3 DEF ToSet
  <1>10. Sorted(r, pr)
    <2> SUFFICES ASSUME NEW i \in 1..(n + 1), NEW j \in 1..(n + 1), i < j
                 PROVE  pr[r[i]] >= pr[r[j]]
      BY <1>2 DEF Sorted
    <2>1. CASE j < k
      BY <1>1, <1>2, <1>6, <2>1
    <2>2. CASE j = k
      <3>1. i \in 1..n /\ i < k /\ r[i] = s[i] /\ r[j] = t
        BY <1>1, <1>2, <2>2 DEF n
      <3>2. QED
        BY <1>7, <3>1
    <2>3. CASE j > k /\ i < k
      <3>1. /\ i \in 1..n /\ j - 1 \in 1..n /\ i <= j - 1
            /\ r[i] = s[i] /\ r[j] = s[j - 1]
        BY <1>1, <1>2, <2>3 DEF n
      <3>2. QED
        BY <1>6, <3>1
    <2>4. CASE j > k /\ i = k
      <3>1. j - 1 \in 1..n /\ ~(j - 1 < k) /\ r[i] = t /\ r[j] = s[j - 1]
        BY <1>1, <1>2, <2>4
      <3>2. QED
        BY <1>7, <3>1
    <2>5. CASE j > k /\ i > k
      <3>1. /\ j - 1 \in 1..n /\ i - 1 \in 1..n /\ i - 1 <= j - 1
            /\ r[i] = s[i - 1] /\ r[j] = s[j - 1]
        BY <1>1, <1>2, <2>5
      <3>2. QED
        BY <1>6, <3>1
    <2>6. QED
      BY <1>1, <2>1, <2>2, <2>3, <2>4, <2>5
  <1>11. QED
    BY <1>2, <1>8, <1>9, <1>10 DEF r

\* Without its first thread a list stays what it is.
LEMMA TailKeeps ==
  ASSUME NEW s \in Seq(Thread), s # <<>>, NEW pr \in [Thread -> Level],
         IsInjective(s), Sorted(s, pr)
  PROVE  /\ Tail(s) \in Seq(Thread) /\ IsInjective(Tail(s)) /\ Sorted(Tail(s), pr)
         /\ Head(s) \in ToSet(s) /\ Head(s) \in Thread
         /\ ToSet(Tail(s)) = ToSet(s) \ {Head(s)}
         /\ \A t \in ToSet(s) : t \in Thread /\ pr[Head(s)] >= pr[t]
  <1> DEFINE r == Tail(s)
             n == Len(s)
  <1>1. /\ n \in Nat /\ n > 0 /\ DOMAIN s = 1..n /\ Head(s) = s[1]
        /\ \A j \in 1..n : s[j] \in Thread
    OBVIOUS
  <1>2. /\ r \in Seq(Thread) /\ Len(r) = n - 1 /\ \A j \in 1..(n - 1) : r[j] = s[j + 1]
    OBVIOUS
  <1>3. DOMAIN r = 1..(n - 1)
    <2> HIDE DEF r, n
    <2> QED BY <1>2, LenProperties
  <1> HIDE DEF r, n
  <1>4. \A i, j \in 1..n : s[i] = s[j] => i = j
    BY <1>1 DEF IsInjective
  <1>5. \A x \in Thread : pr[x] \in Nat
    BY ChKernelAssumption
  <1>6. \A i, j \in 1..n : i <= j => pr[s[i]] >= pr[s[j]]
    BY <1>1, <1>5 DEF Sorted
  <1>7. ASSUME NEW j \in 1..(n - 1)
        PROVE  j + 1 \in 1..n /\ r[j] = s[j + 1]
    BY <1>1, <1>2
  <1>8. IsInjective(r)
    BY <1>1, <1>3, <1>4, <1>7 DEF IsInjective
  <1>9. Sorted(r, pr)
    <2> SUFFICES ASSUME NEW i \in 1..(n - 1), NEW j \in 1..(n - 1), i < j
                 PROVE  pr[r[i]] >= pr[r[j]]
      BY <1>3 DEF Sorted
    <2>1. i + 1 <= j + 1
      BY <1>1
    <2>2. QED
      BY <1>6, <1>7, <2>1
  <1>10. 1 \in 1..n /\ Head(s) \in ToSet(s) /\ Head(s) \in Thread
    BY <1>1 DEF ToSet
  <1>11. ToSet(r) = ToSet(s) \ {Head(s)}
    <2>1. ASSUME NEW j \in 1..(n - 1) PROVE r[j] \in ToSet(s) /\ r[j] # Head(s)
      <3>1. j + 1 \in 1..n /\ r[j] = s[j + 1] /\ j + 1 # 1
        BY <1>1, <1>7
      <3>2. s[j + 1] # s[1]
        BY <1>4, <1>10, <3>1
      <3>3. QED
        BY <1>1, <3>1, <3>2 DEF ToSet
    <2>2. ASSUME NEW j \in 1..n, s[j] # Head(s) PROVE s[j] \in ToSet(r)
      <3>1. j - 1 \in 1..(n - 1)
        BY <1>1, <2>2
      <3>2. r[j - 1] = s[j]
        BY <1>1, <1>7, <3>1
      <3>3. QED
        BY <1>3, <3>1, <3>2 DEF ToSet
    <2>3. QED
      BY <1>1, <1>3, <2>1, <2>2 DEF ToSet
  <1>12. \A t \in ToSet(s) : t \in Thread /\ pr[Head(s)] >= pr[t]
    <2> SUFFICES ASSUME NEW j \in 1..n PROVE s[j] \in Thread /\ pr[s[1]] >= pr[s[j]]
      BY <1>1 DEF ToSet
    <2>1. QED
      BY <1>1, <1>6, <1>10
  <1>13. QED
    BY <1>2, <1>8, <1>9, <1>10, <1>11, <1>12 DEF r
----------------------------------------------------------------------------
(* The ready list.                                                         *)

LEMMA BehindPlace ==
  ASSUME ListInv, NEW t \in Thread
  PROVE  \E k \in 1..(Len(ready) + 1) :
             /\ BehindPeers(t) = InsertAt(ready, k, t)
             /\ k = Len(ready) + 1 \/ prio[ready[k]] < prio[t]
             /\ \A j \in 1..(k - 1) : prio[ready[j]] >= prio[t]
  <1> DEFINE P(k) == /\ k = Len(ready) + 1 \/ prio[ready[k]] < prio[t]
                     /\ \A j \in 1..(k - 1) : prio[ready[j]] >= prio[t]
             k == CHOOSE k \in 1..(Len(ready) + 1) : P(k)
             Low == {x \in Thread : prio[x] < prio[t]}
  <1>1. /\ ready \in Seq(Thread) /\ Len(ready) \in Nat
        /\ \A j \in 1..Len(ready) : ready[j] \in Thread
        /\ \A x \in Thread : prio[x] \in Nat
    <2>1. ready \in Seq(Thread) /\ prio \in [Thread -> Level]
      BY DEF ListInv
    <2>2. Len(ready) \in Nat /\ \A j \in 1..Len(ready) : ready[j] \in Thread
      BY <2>1
    <2>3. \A x \in Thread : prio[x] \in Nat
      BY <2>1, ChKernelAssumption
    <2>4. QED
      BY <2>1, <2>2, <2>3
  <1>2. k \in 1..(Len(ready) + 1) /\ P(k)
    <2>1. PICK m \in 1..(Len(ready) + 1) : /\ m = Len(ready) + 1 \/ ready[m] \in Low
                                           /\ \A j \in 1..(m - 1) : ready[j] \notin Low
      BY <1>1, PlaceExists
    <2>2. \A j \in 1..(m - 1) : ready[j] \in Thread /\ ~(prio[ready[j]] < prio[t])
      BY <1>1, <2>1
    <2>3. \A j \in 1..(m - 1) : prio[ready[j]] >= prio[t]
      BY <1>1, <2>2
    <2>4. P(m)
      BY <2>1, <2>3
    <2> HIDE DEF P
    <2>5. QED
      BY <2>4, Zenon
  <1>3. BehindPeers(t) = InsertAt(ready, k, t)
    BY DEF BehindPeers
  <1> HIDE DEF k
  <1>4. QED
    BY <1>2, <1>3

\* chSchReadyI finds the place behind the peers.
LEMMA BehindPeersKeeps ==
  ASSUME ListInv, NEW t \in Thread, t \notin ToSet(ready)
  PROVE  LET r == BehindPeers(t)
         IN  /\ r \in Seq(Thread) /\ IsInjective(r) /\ Sorted(r, prio)
             /\ ToSet(r) = ToSet(ready) \cup {t}
             /\ r # <<>>
             /\ ready # <<>> /\ prio[Head(ready)] >= prio[t] => Head(r) = Head(ready)
  <1>1. /\ ready \in Seq(Thread) /\ Len(ready) \in Nat /\ prio \in [Thread -> Level]
        /\ IsInjective(ready) /\ Sorted(ready, prio)
        /\ \A j \in 1..Len(ready) : ready[j] \in Thread
        /\ \A x \in Thread : prio[x] \in Nat
    <2>1. /\ ready \in Seq(Thread) /\ prio \in [Thread -> Level]
          /\ IsInjective(ready) /\ Sorted(ready, prio)
      BY DEF ListInv
    <2>2. Len(ready) \in Nat /\ \A j \in 1..Len(ready) : ready[j] \in Thread
      BY <2>1
    <2>3. \A x \in Thread : prio[x] \in Nat
      BY <2>1, ChKernelAssumption
    <2>4. QED
      BY <2>1, <2>2, <2>3
  <1>2. PICK k \in 1..(Len(ready) + 1) :
            /\ BehindPeers(t) = InsertAt(ready, k, t)
            /\ k = Len(ready) + 1 \/ prio[ready[k]] < prio[t]
            /\ \A j \in 1..(k - 1) : prio[ready[j]] >= prio[t]
    BY BehindPlace
  <1>3. BehindPeers(t) = InsertAt(ready, k, t)
    BY <1>2
  <1>4. k = Len(ready) + 1 \/ prio[ready[k]] <= prio[t]
    <2>1. k # Len(ready) + 1 => prio[ready[k]] < prio[t] /\ k \in 1..Len(ready)
      BY <1>1, <1>2
    <2>2. QED
      BY <1>1, <2>1
  <1>5. /\ InsertAt(ready, k, t) \in Seq(Thread)
        /\ IsInjective(InsertAt(ready, k, t))
        /\ ToSet(InsertAt(ready, k, t)) = ToSet(ready) \cup {t}
        /\ Sorted(InsertAt(ready, k, t), prio)
    BY <1>1, <1>2, <1>4, InsertKeeps
  <1>6. /\ Len(InsertAt(ready, k, t)) = Len(ready) + 1
        /\ 1 < k => InsertAt(ready, k, t)[1] = ready[1]
    <2>1. /\ Len(InsertAt(ready, k, t)) = Len(ready) + 1
          /\ \A j \in 1..(Len(ready) + 1) : InsertAt(ready, k, t)[j]
                  = IF j < k THEN ready[j] ELSE IF j = k THEN t ELSE ready[j - 1]
      <3>1. ready \in Seq(Thread) /\ k \in 1..(Len(ready) + 1)
        BY <1>1
      <3>2. QED
        BY <3>1, InsertAtIs
    <2>2. QED
      BY <1>1, <1>2, <2>1
  <1>7. ready # <<>> /\ prio[Head(ready)] >= prio[t] => 1 < k
    <2> SUFFICES ASSUME ready # <<>>, prio[Head(ready)] >= prio[t], k = 1 PROVE FALSE
      BY <1>1, <1>2
    <2>1. Head(ready) = ready[1] /\ Len(ready) # 0 /\ ready[1] \in Thread
      BY <1>1
    <2>2. prio[ready[1]] < prio[t]
      BY <1>1, <1>2, <2>1
    <2>3. QED
      BY <1>1, <2>1, <2>2
  <1> DEFINE r == InsertAt(ready, k, t)
  <1>8. r # <<>> /\ Head(r) = r[1]
    BY <1>1, <1>5, <1>6
  <1>9. ready # <<>> => Head(ready) = ready[1]
    BY <1>1
  <1> HIDE DEF r
  <1>10. QED
    BY <1>3, <1>5, <1>6, <1>7, <1>8, <1>9 DEF r

LEMMA AheadPlace ==
  ASSUME ListInv, ready # <<>>, NEW t \in Thread, NEW p \in Level
  PROVE  \E k \in 1..(Len(Tail(ready)) + 1) :
             /\ AheadOfPeers(t, p) = InsertAt(Tail(ready), k, t)
             /\ k = Len(Tail(ready)) + 1 \/ prio[Tail(ready)[k]] <= p
             /\ \A j \in 1..(k - 1) : prio[Tail(ready)[j]] > p
  <1> DEFINE rest == Tail(ready)
             P(k) == /\ k = Len(rest) + 1 \/ prio[rest[k]] <= p
                     /\ \A j \in 1..(k - 1) : prio[rest[j]] > p
             k == CHOOSE k \in 1..(Len(rest) + 1) : P(k)
             Low == {x \in Thread : prio[x] <= p}
  <1>1. p \in Nat /\ \A x \in Thread : prio[x] \in Nat
    BY ChKernelAssumption DEF ListInv
  <1>2. rest \in Seq(Thread)
    BY DEF ListInv
  <1>3. AheadOfPeers(t, p) = InsertAt(rest, k, t)
    BY DEF AheadOfPeers
  <1> HIDE DEF rest
  <1>4. Len(rest) \in Nat /\ \A j \in 1..Len(rest) : rest[j] \in Thread
    BY <1>2
  <1>5. k \in 1..(Len(rest) + 1) /\ P(k)
    <2>1. PICK m \in 1..(Len(rest) + 1) : /\ m = Len(rest) + 1 \/ rest[m] \in Low
                                          /\ \A j \in 1..(m - 1) : rest[j] \notin Low
      BY <1>2, PlaceExists
    <2>2. \A j \in 1..(m - 1) : rest[j] \in Thread /\ ~(prio[rest[j]] <= p)
      BY <1>4, <2>1
    <2>3. \A j \in 1..(m - 1) : prio[rest[j]] > p
      BY <1>1, <2>2
    <2>4. P(m)
      BY <2>1, <2>3
    <2> HIDE DEF P
    <2>5. QED
      BY <2>4, Zenon
  <1> HIDE DEF k
  <1>6. QED
    BY <1>3, <1>5 DEF rest

\* chSchReadyAheadI finds the place ahead of the peers, in what is left of the
\* list, for a thread whose priority is p from now on.
LEMMA AheadOfPeersKeeps ==
  ASSUME ListInv, ready # <<>>, NEW t \in Thread, t \notin ToSet(ready), NEW p \in Level
  PROVE  LET r == AheadOfPeers(t, p)
         IN  /\ r \in Seq(Thread) /\ IsInjective(r)
             /\ Sorted(r, [prio EXCEPT ![t] = p])
             /\ ToSet(r) = (ToSet(ready) \ {Head(ready)}) \cup {t}
  <1> DEFINE rest == Tail(ready)
             P(k) == /\ k = Len(rest) + 1 \/ prio[rest[k]] <= p
                     /\ \A j \in 1..(k - 1) : prio[rest[j]] > p
             pr == [prio EXCEPT ![t] = p]
  <1>1. /\ prio \in [Thread -> Level] /\ p \in Nat /\ \A x \in Thread : prio[x] \in Nat
        /\ ready \in Seq(Thread) /\ IsInjective(ready) /\ Sorted(ready, prio)
    BY ChKernelAssumption DEF ListInv
  <1>2. /\ rest \in Seq(Thread) /\ IsInjective(rest) /\ Sorted(rest, prio)
        /\ ToSet(rest) = ToSet(ready) \ {Head(ready)}
    BY <1>1, TailKeeps
  <1>3. PICK k \in 1..(Len(rest) + 1) : AheadOfPeers(t, p) = InsertAt(rest, k, t) /\ P(k)
    BY AheadPlace
  <1> HIDE DEF rest
  <1>4. /\ Len(rest) \in Nat /\ \A j \in 1..Len(rest) : rest[j] \in Thread /\ rest[j] \in ToSet(rest)
        /\ DOMAIN rest = 1..Len(rest)
    BY <1>2 DEF ToSet
  <1>5. k \in 1..(Len(rest) + 1) /\ P(k)
    BY <1>3
  <1>6. t \notin ToSet(rest)
    BY <1>2
  <1>7. pr \in [Thread -> Level] /\ pr[t] = p /\ \A j \in 1..Len(rest) : pr[rest[j]] = prio[rest[j]]
    BY <1>1, <1>4, <1>6
  <1> HIDE DEF pr
  <1>8. Sorted(rest, pr)
    BY <1>2, <1>4, <1>7 DEF Sorted
  <1>9. \A j \in 1..(k - 1) : pr[rest[j]] >= pr[t]
    <2> SUFFICES ASSUME NEW j \in 1..(k - 1) PROVE pr[rest[j]] >= pr[t]
      OBVIOUS
    <2>1. j \in 1..Len(rest) /\ prio[rest[j]] > p
      BY <1>4, <1>5
    <2>2. QED
      BY <1>1, <1>4, <1>7, <2>1
  <1>10. k = Len(rest) + 1 \/ pr[rest[k]] <= pr[t]
    BY <1>4, <1>5, <1>7
  <1>11. /\ InsertAt(rest, k, t) \in Seq(Thread)
         /\ IsInjective(InsertAt(rest, k, t))
         /\ ToSet(InsertAt(rest, k, t)) = ToSet(rest) \cup {t}
         /\ Sorted(InsertAt(rest, k, t), pr)
    <2>1. rest \in Seq(Thread) /\ IsInjective(rest) /\ k \in 1..(Len(rest) + 1)
      BY <1>2, <1>5
    <2>2. pr \in [Thread -> Level]
      BY <1>7
    <2>3. QED
      BY <2>1, <2>2, <1>6, <1>8, <1>9, <1>10, InsertKeeps
  <1>12. QED
    BY <1>2, <1>3, <1>11 DEF pr
----------------------------------------------------------------------------
(* What changes the lists keeps them in order.                             *)

\* There is a thread to switch to, since the idle thread never waits.
LEMMA NextExists ==
  ASSUME ListInv, current # Idle
  PROVE  ready # <<>>
  <1>1. Idle \in ToSet(ready)
    BY ChKernelAssumption DEF ListInv
  <1>2. QED
    BY <1>1 DEF ToSet

\* The first ready thread, as a fact about its priority and its state.
LEMMA HeadIs ==
  ASSUME ListInv, ready # <<>>
  PROVE  /\ Head(ready) \in ToSet(ready) /\ Head(ready) \in Thread
         /\ state[Head(ready)] = "READY" /\ Head(ready) # current
         /\ ToSet(Tail(ready)) = ToSet(ready) \ {Head(ready)}
         /\ \A t \in ToSet(ready) : t \in Thread /\ prio[Head(ready)] >= prio[t]
  <1>1. /\ ready \in Seq(Thread) /\ prio \in [Thread -> Level]
        /\ IsInjective(ready) /\ Sorted(ready, prio)
    BY DEF ListInv
  <1>2. /\ Head(ready) \in ToSet(ready) /\ Head(ready) \in Thread
        /\ ToSet(Tail(ready)) = ToSet(ready) \ {Head(ready)}
        /\ \A t \in ToSet(ready) : t \in Thread /\ prio[Head(ready)] >= prio[t]
    BY <1>1, TailKeeps
  <1>3. state[Head(ready)] = "READY" /\ Head(ready) # current
    BY <1>2 DEF ListInv
  <1>4. QED
    BY <1>2, <1>3

\* Priorities are numbers, and the running thread is in no list.
LEMMA ListFacts ==
  ASSUME ListInv
  PROVE  /\ \A x \in Thread : prio[x] \in Nat
         /\ Idle \in Thread /\ current \in Thread /\ current \notin ToSet(ready)
         /\ ToSet(ready) \subseteq Thread
  <1>1. \A x \in Thread : prio[x] \in Nat
    BY ChKernelAssumption DEF ListInv
  <1>2. Idle \in Thread /\ current \in Thread /\ current \notin ToSet(ready)
    BY ChKernelAssumption DEF ListInv
  <1>3. ToSet(ready) \subseteq Thread
    BY DEF ListInv, ToSet
  <1>4. QED
    BY <1>1, <1>2, <1>3

LEMMA ReadyIKeeps ==
  ASSUME ListInv, NEW t \in Thread, state[t] \notin {"CURRENT", "READY"},
         isr \/ prio[t] <= prio[current],
         ReadyI(t), prio' = prio, isr' = isr
  PROVE  ListInv'
  <1>1. t \notin ToSet(ready) /\ t # current
    BY DEF ListInv
  <1>2. /\ ready' \in Seq(Thread) /\ IsInjective(ready') /\ Sorted(ready', prio)
        /\ ToSet(ready') = ToSet(ready) \cup {t}
    BY <1>1, BehindPeersKeeps DEF ReadyI
  <1>3. current' = current /\ state' = [state EXCEPT ![t] = "READY"]
    BY DEF ReadyI
  <1>4. current' \in Thread /\ state' \in [Thread -> ThreadState] /\ prio' \in [Thread -> Level]
    BY <1>3 DEF ListInv, ThreadState
  <1>5. \A x \in Thread : /\ state'[x] = "CURRENT" <=> x = current'
                          /\ state'[x] = "READY" <=> x \in ToSet(ready')
    BY <1>1, <1>2, <1>3 DEF ListInv
  <1>6. ~isr' => \A x \in ToSet(ready') : prio'[current'] >= prio'[x]
    <2>1. \A x \in ToSet(ready) : ~isr => prio[current] >= prio[x]
      BY DEF ListInv
    <2>2. ~isr => prio[current] >= prio[t]
      BY ListFacts
    <2>3. QED
      BY <1>2, <1>3, <2>1, <2>2
  <1>7. state'[Idle] \in {"CURRENT", "READY"}
    BY <1>3, ListFacts DEF ListInv
  <1>8. \A x \in Thread \ {Idle} : prio'[x] > prio'[Idle]
    BY DEF ListInv
  <1>9. QED
    BY <1>2, <1>4, <1>5, <1>6, <1>7, <1>8 DEF ListInv

LEMMA GoSleepKeeps ==
  ASSUME ListInv, Calls, NEW s \in ThreadState \ {"CURRENT", "READY"}, NEW timed \in BOOLEAN,
         GoSleep(s, timed)
  PROVE  ListInv'
  <1> DEFINE next == Head(ready)
  <1>1. ready # <<>>
    BY NextExists DEF Calls
  <1>2. /\ next \in ToSet(ready) /\ next \in Thread /\ next # current
        /\ \A x \in ToSet(ready) : prio[next] >= prio[x]
    BY <1>1, HeadIs
  <1>3. /\ ready' \in Seq(Thread) /\ IsInjective(ready') /\ Sorted(ready', prio)
        /\ ToSet(ready') = ToSet(ready) \ {next}
    BY <1>1, TailKeeps DEF ListInv, GoSleep
  <1>4. /\ current' = next /\ prio' = prio /\ isr' = isr
        /\ state' = [state EXCEPT ![current] = s, ![next] = "CURRENT"]
    BY DEF GoSleep
  <1> HIDE DEF next
  <1>5. current' \in Thread /\ state' \in [Thread -> ThreadState] /\ prio' \in [Thread -> Level]
    BY <1>2, <1>4 DEF ListInv, ThreadState
  <1>6. \A x \in Thread : /\ state'[x] = "CURRENT" <=> x = current'
                          /\ state'[x] = "READY" <=> x \in ToSet(ready')
    <2> TAKE x \in Thread
    <2>1. /\ state[x] = "CURRENT" <=> x = current
          /\ state[x] = "READY" <=> x \in ToSet(ready)
      BY DEF ListInv
    <2>2. state'[x] = IF x = next THEN "CURRENT" ELSE IF x = current THEN s ELSE state[x]
      BY <1>2, <1>4 DEF ListInv
    <2>3. QED
      BY <1>2, <1>3, <1>4, <2>1, <2>2, ListFacts
  <1>7. \A x \in ToSet(ready') : prio'[current'] >= prio'[x]
    BY <1>2, <1>3, <1>4
  <1>8. state'[Idle] \in {"CURRENT", "READY"}
    BY <1>2, <1>4, ListFacts DEF ListInv, Calls
  <1>9. \A x \in Thread \ {Idle} : prio'[x] > prio'[Idle]
    BY <1>4 DEF ListInv
  <1>10. QED
    BY <1>3, <1>4, <1>5, <1>6, <1>7, <1>8, <1>9 DEF ListInv

\* The running thread is put back into the list and another one, which is not
\* below any that is ready, runs.
LEMMA SwitchKeeps ==
  ASSUME ListInv, NEW next \in Thread, next # current,
         state' = [state EXCEPT ![current] = "READY", ![next] = "CURRENT"],
         current' = next,
         ready' \in Seq(Thread), IsInjective(ready'), Sorted(ready', prio'),
         ToSet(ready') = (ToSet(ready) \ {next}) \cup {current},
         prio' \in [Thread -> Level], \A x \in ToSet(ready') : prio'[next] >= prio'[x],
         \A x \in Thread \ {Idle} : prio'[x] > prio'[Idle]
  PROVE  ListInv'
  <1>1. current' \in Thread /\ state' \in [Thread -> ThreadState]
    BY DEF ListInv, ThreadState
  <1>2. \A x \in Thread : /\ state'[x] = "CURRENT" <=> x = current'
                          /\ state'[x] = "READY" <=> x \in ToSet(ready')
    <2> TAKE x \in Thread
    <2>1. /\ state[x] = "CURRENT" <=> x = current
          /\ state[x] = "READY" <=> x \in ToSet(ready)
      BY DEF ListInv
    <2>2. state'[x] = IF x = next THEN "CURRENT" ELSE IF x = current THEN "READY" ELSE state[x]
      BY DEF ListInv
    <2>3. QED
      BY <2>1, <2>2
  <1>3. state'[Idle] \in {"CURRENT", "READY"}
    BY ListFacts DEF ListInv
  <1>4. QED
    BY <1>1, <1>2, <1>3 DEF ListInv

LEMMA WakeupSKeeps ==
  ASSUME ListInv, NEW t \in Thread, state[t] \notin {"CURRENT", "READY"},
         WakeupS(t), ~isr, isr' = isr
  PROVE  ListInv'
  <1>1. prio' = prio /\ t # current /\ t \notin ToSet(ready)
    BY DEF ListInv, WakeupS
  <1>2. CASE prio[t] <= prio[current]
    <2>1. ReadyI(t)
      BY <1>2 DEF WakeupS
    <2>2. QED
      BY <1>1, <1>2, <2>1, ReadyIKeeps
  <1>3. CASE ~(prio[t] <= prio[current])
    <2>1. /\ ready' = BehindPeers(current) /\ current' = t
          /\ state' = [state EXCEPT ![current] = "READY", ![t] = "CURRENT"]
      BY <1>3 DEF WakeupS
    <2>2. /\ ready' \in Seq(Thread) /\ IsInjective(ready') /\ Sorted(ready', prio')
          /\ ToSet(ready') = ToSet(ready) \cup {current}
      BY <1>1, <2>1, ListFacts, BehindPeersKeeps
    <2>3. ToSet(ready') = (ToSet(ready) \ {t}) \cup {current}
      BY <1>1, <2>2
    <2>4. \A x \in ToSet(ready') : prio'[t] >= prio'[x]
      <3>1. \A x \in ToSet(ready) : x \in Thread /\ prio[current] >= prio[x]
        BY ListFacts DEF ListInv
      <3>2. QED
        BY <1>1, <1>3, <2>2, <3>1, ListFacts
    <2>5. prio' \in [Thread -> Level] /\ \A x \in Thread \ {Idle} : prio'[x] > prio'[Idle]
      BY <1>1 DEF ListInv
    <2>6. QED
      BY <1>1, <2>1, <2>2, <2>3, <2>4, <2>5, SwitchKeeps
  <1>4. QED
    BY <1>2, <1>3

LEMMA YieldKeeps ==
  ASSUME ListInv, Yield
  PROVE  ListInv'
  <1> DEFINE next == Head(ready)
             r == BehindPeers(current)
  <1>1. ready # <<>>
    BY NextExists DEF Yield, Calls
  <1>2. /\ next \in ToSet(ready) /\ next \in Thread /\ next # current
        /\ \A x \in ToSet(ready) : prio[next] >= prio[x]
    BY <1>1, HeadIs
  <1>3. /\ current' = next /\ ready' = Tail(r) /\ prio' = prio /\ isr' = isr
        /\ state' = [state EXCEPT ![current] = "READY", ![next] = "CURRENT"]
        /\ prio[next] >= prio[current]
    BY DEF Yield
  <1>4. /\ r \in Seq(Thread) /\ IsInjective(r) /\ Sorted(r, prio)
        /\ ToSet(r) = ToSet(ready) \cup {current}
        /\ r # <<>> /\ Head(r) = next
    BY <1>1, <1>3, ListFacts, BehindPeersKeeps
  <1> HIDE DEF next, r
  <1>5. prio \in [Thread -> Level]
    BY DEF ListInv
  <1>6. /\ Tail(r) \in Seq(Thread) /\ IsInjective(Tail(r)) /\ Sorted(Tail(r), prio)
        /\ ToSet(Tail(r)) = ToSet(r) \ {Head(r)}
    BY <1>4, <1>5, TailKeeps
  <1>7. ToSet(ready') = (ToSet(ready) \ {next}) \cup {current}
    BY <1>2, <1>3, <1>4, <1>6
  <1>8. \A x \in ToSet(ready') : prio'[next] >= prio'[x]
    BY <1>2, <1>3, <1>7
  <1>9. \A x \in Thread \ {Idle} : prio'[x] > prio'[Idle]
    BY <1>3 DEF ListInv
  <1>10. QED
    BY <1>2, <1>3, <1>5, <1>6, <1>7, <1>8, <1>9, SwitchKeeps

\* The current thread has priority p by now and gives way to a thread above it:
\* this is what makes the list right again after an interrupt.
LEMMA RescheduleSKeeps ==
  ASSUME ListInv, NEW p \in Level, RescheduleS(p),
         prio' = [prio EXCEPT ![current] = p],
         IF current = Idle THEN p = prio[Idle] ELSE p > prio[Idle]
  PROVE  ListInv'
  <1> DEFINE next == Head(ready)
  <1>1. p \in Nat /\ prio \in [Thread -> Level]
    BY ChKernelAssumption DEF ListInv
  <1>2. prio' \in [Thread -> Level] /\ \A x \in Thread : prio'[x] = IF x = current THEN p ELSE prio[x]
    BY <1>1
  <1>3. \A x \in Thread \ {Idle} : prio'[x] > prio'[Idle]
    BY <1>2, ListFacts DEF ListInv
  <1>4. CASE FirstPrio > p
    <2>1. ready # <<>> /\ prio[next] > p
      BY <1>1, <1>4 DEF FirstPrio
    <2>2. /\ next \in ToSet(ready) /\ next \in Thread /\ next # current
          /\ \A x \in ToSet(ready) : x \in Thread /\ prio[next] >= prio[x]
      BY <2>1, HeadIs
    <2>3. /\ current' = next /\ ready' = AheadOfPeers(current, p)
          /\ state' = [state EXCEPT ![current] = "READY", ![next] = "CURRENT"]
      BY <1>4 DEF RescheduleS
    <2>4. /\ ready' \in Seq(Thread) /\ IsInjective(ready') /\ Sorted(ready', prio')
          /\ ToSet(ready') = (ToSet(ready) \ {next}) \cup {current}
      BY <2>1, <2>3, ListFacts, AheadOfPeersKeeps
    <2> HIDE DEF next
    <2>5. \A x \in ToSet(ready') : prio'[next] >= prio'[x]
      <3> SUFFICES ASSUME NEW x \in ToSet(ready') PROVE prio'[next] >= prio'[x]
        OBVIOUS
      <3>1. prio'[next] = prio[next] /\ prio[next] \in Nat
        BY <1>2, <2>2, ListFacts
      <3>2. CASE x = current
        BY <1>1, <1>2, <2>1, <3>1, <3>2, ListFacts
      <3>3. CASE x \in ToSet(ready)
        BY <1>2, <2>2, <3>1, <3>3, ListFacts
      <3>4. QED
        BY <2>4, <3>2, <3>3
    <2>6. QED
      BY <1>2, <1>3, <2>2, <2>3, <2>4, <2>5, SwitchKeeps
  <1>5. CASE ~(FirstPrio > p)
    <2>1. UNCHANGED lists
      BY <1>5 DEF RescheduleS
    <2>2. current' = current /\ ready' = ready /\ state' = state
      BY <2>1 DEF lists
    <2>3. \A x \in ToSet(ready) : prio[x] <= p
      <3> SUFFICES ASSUME NEW x \in ToSet(ready) PROVE prio[x] <= p
        OBVIOUS
      <3>1. ready # <<>>
        BY DEF ToSet
      <3>2. prio[next] >= prio[x] /\ prio[next] \in Nat /\ prio[x] \in Nat
        BY <3>1, HeadIs, ListFacts
      <3>3. FirstPrio = prio[next]
        BY <3>1 DEF FirstPrio
      <3>4. QED
        BY <1>1, <1>5, <3>2, <3>3
    <2>4. \A x \in ToSet(ready') : prio'[current'] >= prio'[x]
      BY <1>1, <1>2, <2>2, <2>3, ListFacts
    <2>5. Sorted(ready', prio')
      <3>1. \A i \in DOMAIN ready : ready[i] \in ToSet(ready)
        BY DEF ToSet
      <3>2. \A i \in DOMAIN ready : prio'[ready[i]] = prio[ready[i]]
        BY <1>2, <3>1, ListFacts
      <3>3. QED
        BY <2>2, <3>2 DEF ListInv, Sorted
    <2>6. QED
      BY <1>2, <1>3, <2>2, <2>4, <2>5 DEF ListInv
  <1>6. QED
    BY <1>4, <1>5
----------------------------------------------------------------------------
(* What changes the waits keeps references, timers and states in step.     *)

\* A thread that is made ready, or runs at once, with its message set.
LEMMA WakeupSWaits ==
  ASSUME ListInv, WaitInv, NEW t \in Thread, state[t] \notin {"CURRENT", "READY"},
         WakeupS(t), firing = NULL, isr' = isr,
         ref' \in [Ref -> Thread \cup {NULL}],
         \A r \in Ref, x \in Thread : ref'[r] = x <=> ref[r] = x /\ x # t
  PROVE  WaitInv'
  <1>1. /\ u' = [u EXCEPT ![t] = MSG_OK] /\ firing' = NULL /\ t # current
        /\ state \in [Thread -> ThreadState] /\ current \in Thread /\ state[current] = "CURRENT"
    BY DEF WakeupS, ListInv
  <1>2. /\ armed' \in [Thread -> BOOLEAN]
        /\ \A x \in Thread : x # t => armed'[x] = armed[x]
        /\ state' \in [Thread -> ThreadState]
        /\ \A x \in Thread \ {t} : state'[x] = IF x = current' \/ x # current THEN state[x] ELSE "READY"
        /\ \/ state'[t] = "READY"
           \/ state'[t] = "CURRENT" /\ ~armed'[t]
    <2>1. CASE prio[t] <= prio[current]
      <3>1. state' = [state EXCEPT ![t] = "READY"] /\ armed' = armed /\ current' = current
        BY <2>1 DEF WakeupS, ReadyI
      <3>2. QED
        BY <1>1, <3>1 DEF WaitInv, ThreadState
    <2>2. CASE ~(prio[t] <= prio[current])
      <3>1. /\ state' = [state EXCEPT ![current] = "READY", ![t] = "CURRENT"]
            /\ armed' = [armed EXCEPT ![t] = FALSE] /\ current' = t
        BY <2>2 DEF WakeupS, GoesOn
      <3>2. QED
        BY <1>1, <3>1 DEF WaitInv, ThreadState
    <2>3. QED
      BY <2>1, <2>2
  <1>3. u' \in [Thread -> Ref \cup {MSG_OK, MSG_TIMEOUT}] /\ u'[t] = MSG_OK
        /\ \A x \in Thread \ {t} : u'[x] = u[x]
    BY <1>1 DEF WaitInv
  <1>4. \A x \in Thread \ {t} : \/ state'[x] = state[x]
                                \/ x = current /\ state'[x] = "READY"
    BY <1>2
  <1>5. ASSUME NEW r \in Ref, NEW x \in Thread
        PROVE  ref'[r] = x <=> state'[x] = "SUSPENDED" /\ u'[x] = r
    <2>1. ref[r] = x <=> state[x] = "SUSPENDED" /\ u[x] = r
      BY DEF WaitInv, WaitsConsistent
    <2>2. CASE x = t
      BY <1>2, <2>2
    <2>3. CASE x # t
      BY <1>1, <1>3, <1>4, <2>1, <2>3
    <2>4. QED
      BY <2>2, <2>3
  <1>6. ASSUME NEW x \in Thread
        PROVE  /\ state'[x] = "SLEEPING" => armed'[x] \/ firing' = x
               /\ armed'[x] \/ firing' = x =>
                      \/ state'[x] \in {"SUSPENDED", "SLEEPING"}
                      \/ state'[x] = "READY" /\ u'[x] = MSG_OK
               /\ ~(armed'[x] /\ firing' = x)
    <2>1. /\ state[x] = "SLEEPING" => armed[x] \/ firing = x
          /\ armed[x] \/ firing = x =>
                 \/ state[x] \in {"SUSPENDED", "SLEEPING"}
                 \/ state[x] = "READY" /\ u[x] = MSG_OK
          /\ ~(armed[x] /\ firing = x)
      BY DEF WaitInv, WaitsConsistent
    <2>2. firing' # x /\ firing # x
      BY <1>1, ChKernelAssumption
    <2>3. CASE x = t
      BY <1>2, <1>3, <2>2, <2>3
    <2>4. CASE x # t
      BY <1>1, <1>2, <1>3, <1>4, <2>1, <2>2, <2>4
    <2>5. QED
      BY <2>3, <2>4
  <1>7. WaitsConsistent'
    BY <1>5, <1>6 DEF WaitsConsistent
  <1>8. firing' \in Thread \cup {NULL} /\ isr' \in BOOLEAN /\ (firing' # NULL => isr')
    BY <1>1 DEF WaitInv
  <1>9. QED
    BY <1>2, <1>3, <1>7, <1>8 DEF WaitInv

\* The thread a reference points to is suspended on it, and on no other.
LEMMA Referred ==
  ASSUME ListInv, WaitInv, NEW r \in Ref, ref[r] # NULL
  PROVE  /\ ref[r] \in Thread /\ state[ref[r]] = "SUSPENDED" /\ u[ref[r]] = r
         /\ LET f == [ref EXCEPT ![r] = NULL]
            IN  /\ f \in [Ref -> Thread \cup {NULL}]
                /\ \A q \in Ref, x \in Thread : f[q] = x <=> ref[q] = x /\ x # ref[r]
  <1>1. ref \in [Ref -> Thread \cup {NULL}] /\ ref[r] \in Thread
    BY DEF WaitInv
  <1>2. \A q \in Ref, x \in Thread : ref[q] = x <=> state[x] = "SUSPENDED" /\ u[x] = q
    BY DEF WaitInv, WaitsConsistent
  <1>3. state[ref[r]] = "SUSPENDED" /\ u[ref[r]] = r
    BY <1>1, <1>2
  <1> DEFINE f == [ref EXCEPT ![r] = NULL]
  <1>4. f \in [Ref -> Thread \cup {NULL}] /\ \A q \in Ref : f[q] = IF q = r THEN NULL ELSE ref[q]
    BY <1>1
  <1>5. NULL \notin Thread
    BY ChKernelAssumption
  <1> HIDE DEF f
  <1>6. ASSUME NEW q \in Ref, NEW x \in Thread
        PROVE  f[q] = x <=> ref[q] = x /\ x # ref[r]
    <2>1. ref[q] = ref[r] => q = r
      BY <1>1, <1>2, <1>3
    <2>2. QED
      BY <1>4, <1>5, <2>1
  <1>7. QED
    BY <1>1, <1>3, <1>4, <1>6 DEF f

\* A thread other than the running one becomes ready; if its message is not
\* MSG_OK it has no timer any more.
LEMMA ReadyIWaits ==
  ASSUME ListInv, WaitInv, NEW t \in Thread, state[t] \notin {"CURRENT", "READY"},
         ReadyI(t), NEW m \in {MSG_OK, MSG_TIMEOUT},
         u' = [u EXCEPT ![t] = m], armed' = armed, isr' = isr,
         \/ firing' = firing /\ m = MSG_OK
         \/ firing' = NULL /\ firing = t,
         ref' \in [Ref -> Thread \cup {NULL}],
         \A r \in Ref, x \in Thread : ref'[r] = x <=> ref[r] = x /\ x # t
  PROVE  WaitInv'
  <1>1. /\ state \in [Thread -> ThreadState] /\ state' = [state EXCEPT ![t] = "READY"]
    BY DEF ListInv, ReadyI
  <1>2. /\ u' \in [Thread -> Ref \cup {MSG_OK, MSG_TIMEOUT}] /\ u'[t] = m
        /\ \A x \in Thread \ {t} : u'[x] = u[x]
        /\ state'[t] = "READY" /\ \A x \in Thread \ {t} : state'[x] = state[x]
    BY <1>1 DEF WaitInv
  <1>3. ASSUME NEW r \in Ref, NEW x \in Thread
        PROVE  ref'[r] = x <=> state'[x] = "SUSPENDED" /\ u'[x] = r
    <2>1. ref[r] = x <=> state[x] = "SUSPENDED" /\ u[x] = r
      BY DEF WaitInv, WaitsConsistent
    <2>2. CASE x = t
      BY <1>2, <2>2
    <2>3. CASE x # t
      BY <1>2, <2>1, <2>3
    <2>4. QED
      BY <2>2, <2>3
  <1>4. ASSUME NEW x \in Thread
        PROVE  /\ state'[x] = "SLEEPING" => armed'[x] \/ firing' = x
               /\ armed'[x] \/ firing' = x =>
                      \/ state'[x] \in {"SUSPENDED", "SLEEPING"}
                      \/ state'[x] = "READY" /\ u'[x] = MSG_OK
               /\ ~(armed'[x] /\ firing' = x)
    <2>1. /\ state[x] = "SLEEPING" => armed[x] \/ firing = x
          /\ armed[x] \/ firing = x =>
                 \/ state[x] \in {"SUSPENDED", "SLEEPING"}
                 \/ state[x] = "READY" /\ u[x] = MSG_OK
          /\ ~(armed[x] /\ firing = x)
      BY DEF WaitInv, WaitsConsistent
    <2>2. x # NULL
      BY ChKernelAssumption
    <2>3. CASE x = t
      BY <1>2, <2>1, <2>2, <2>3
    <2>4. CASE x # t
      BY <1>2, <2>1, <2>2, <2>4
    <2>5. QED
      BY <2>3, <2>4
  <1>5. WaitsConsistent'
    BY <1>3, <1>4 DEF WaitsConsistent
  <1>6. /\ armed' \in [Thread -> BOOLEAN] /\ firing' \in Thread \cup {NULL} /\ isr' \in BOOLEAN
        /\ firing' # NULL => isr'
    BY DEF WaitInv
  <1>7. QED
    BY <1>2, <1>5, <1>6 DEF WaitInv

\* The running thread begins to wait, for a reference or only for its timer.
LEMMA GoSleepWaits ==
  ASSUME ListInv, WaitInv, Calls, NEW s \in {"SLEEPING", "SUSPENDED", "FINAL"},
         NEW timed \in BOOLEAN, GoSleep(s, timed),
         s = "SLEEPING" => timed, s = "FINAL" => ~timed,
         u' \in [Thread -> Ref \cup {MSG_OK, MSG_TIMEOUT}], ref' \in [Ref -> Thread \cup {NULL}],
         \A x \in Thread \ {current} : u'[x] = u[x],
         \A r \in Ref, x \in Thread \ {current} : ref'[r] = x <=> ref[r] = x,
         \A r \in Ref : ref'[r] = current <=> s = "SUSPENDED" /\ u'[current] = r
  PROVE  WaitInv'
  <1> DEFINE next == Head(ready)
  <1>1. next \in Thread /\ next # current /\ state[next] = "READY" /\ state[current] = "CURRENT"
        /\ current \in Thread /\ state \in [Thread -> ThreadState]
    BY NextExists, HeadIs DEF Calls, ListInv
  <1>2. /\ state' = [state EXCEPT ![current] = s, ![next] = "CURRENT"]
        /\ armed' = [armed EXCEPT ![next] = FALSE, ![current] = timed]
        /\ firing' = firing /\ isr' = isr
    BY DEF GoSleep, GoesOn
  <1> HIDE DEF next
  <1>3. /\ armed' \in [Thread -> BOOLEAN] /\ armed'[current] = timed /\ armed'[next] = FALSE
        /\ \A x \in Thread \ {current, next} : armed'[x] = armed[x] /\ state'[x] = state[x]
        /\ state'[current] = s /\ state'[next] = "CURRENT"
    BY <1>1, <1>2 DEF WaitInv
  <1>4. firing = NULL /\ \A x \in Thread : firing # x
    BY ChKernelAssumption DEF WaitInv, Calls
  <1>5. ASSUME NEW r \in Ref, NEW x \in Thread
        PROVE  ref'[r] = x <=> state'[x] = "SUSPENDED" /\ u'[x] = r
    <2>1. ref[r] = x <=> state[x] = "SUSPENDED" /\ u[x] = r
      BY DEF WaitInv, WaitsConsistent
    <2>2. CASE x = current
      BY <1>3, <2>2
    <2>3. CASE x = next
      BY <1>1, <1>3, <2>1, <2>3
    <2>4. CASE x # current /\ x # next
      BY <1>3, <2>1, <2>4
    <2>5. QED
      BY <2>2, <2>3, <2>4
  <1>6. ASSUME NEW x \in Thread
        PROVE  /\ state'[x] = "SLEEPING" => armed'[x] \/ firing' = x
               /\ armed'[x] \/ firing' = x =>
                      \/ state'[x] \in {"SUSPENDED", "SLEEPING"}
                      \/ state'[x] = "READY" /\ u'[x] = MSG_OK
               /\ ~(armed'[x] /\ firing' = x)
    <2>1. /\ state[x] = "SLEEPING" => armed[x] \/ firing = x
          /\ armed[x] \/ firing = x =>
                 \/ state[x] \in {"SUSPENDED", "SLEEPING"}
                 \/ state[x] = "READY" /\ u[x] = MSG_OK
      BY DEF WaitInv, WaitsConsistent
    <2>2. CASE x = current
      BY <1>2, <1>3, <1>4, <2>2
    <2>3. CASE x = next
      BY <1>2, <1>3, <1>4, <2>3
    <2>4. CASE x # current /\ x # next
      BY <1>2, <1>3, <1>4, <2>1, <2>4
    <2>5. QED
      BY <2>2, <2>3, <2>4
  <1>7. WaitsConsistent'
    BY <1>5, <1>6 DEF WaitsConsistent
  <1>8. firing' \in Thread \cup {NULL} /\ isr' \in BOOLEAN /\ (firing' # NULL => isr')
    BY <1>2, <1>4 DEF WaitInv
  <1>9. QED
    BY <1>3, <1>7, <1>8 DEF WaitInv

\* The processor goes from a thread that can run to one that can run.
LEMMA SwitchWaits ==
  ASSUME ListInv, WaitInv, ready # <<>>, firing = NULL,
         state' = [state EXCEPT ![current] = "READY", ![Head(ready)] = "CURRENT"],
         armed' = GoesOn(Head(ready)), UNCHANGED <<u, ref, firing>>, isr' \in BOOLEAN
  PROVE  WaitInv'
  <1> DEFINE next == Head(ready)
  <1>1. next \in Thread /\ next # current /\ state[next] = "READY" /\ state[current] = "CURRENT"
        /\ current \in Thread /\ state \in [Thread -> ThreadState]
    BY HeadIs DEF ListInv
  <1>2. armed' = [armed EXCEPT ![next] = FALSE]
    BY DEF GoesOn
  <1> HIDE DEF next
  <1>3. /\ armed' \in [Thread -> BOOLEAN] /\ armed'[next] = FALSE
        /\ \A x \in Thread \ {next} : armed'[x] = armed[x]
        /\ \A x \in Thread \ {current, next} : state'[x] = state[x]
        /\ state'[current] = "READY" /\ state'[next] = "CURRENT"
    BY <1>1, <1>2 DEF WaitInv, next
  <1>4. u' = u /\ ref' = ref /\ firing' = NULL /\ firing = NULL /\ \A x \in Thread : firing # x
    BY ChKernelAssumption
  <1>5. ASSUME NEW r \in Ref, NEW x \in Thread
        PROVE  ref'[r] = x <=> state'[x] = "SUSPENDED" /\ u'[x] = r
    <2>1. ref[r] = x <=> state[x] = "SUSPENDED" /\ u[x] = r
      BY DEF WaitInv, WaitsConsistent
    <2>2. QED
      BY <1>1, <1>3, <1>4, <2>1
  <1>6. ASSUME NEW x \in Thread
        PROVE  /\ state'[x] = "SLEEPING" => armed'[x] \/ firing' = x
               /\ armed'[x] \/ firing' = x =>
                      \/ state'[x] \in {"SUSPENDED", "SLEEPING"}
                      \/ state'[x] = "READY" /\ u'[x] = MSG_OK
               /\ ~(armed'[x] /\ firing' = x)
    <2>1. /\ state[x] = "SLEEPING" => armed[x] \/ firing = x
          /\ armed[x] \/ firing = x =>
                 \/ state[x] \in {"SUSPENDED", "SLEEPING"}
                 \/ state[x] = "READY" /\ u[x] = MSG_OK
      BY DEF WaitInv, WaitsConsistent
    <2>2. CASE x = current
      BY <1>1, <1>3, <1>4, <2>1, <2>2
    <2>3. CASE x = next
      BY <1>3, <1>4, <2>3
    <2>4. CASE x # current /\ x # next
      BY <1>3, <1>4, <2>1, <2>4
    <2>5. QED
      BY <2>2, <2>3, <2>4
  <1>7. WaitsConsistent'
    BY <1>5, <1>6 DEF WaitsConsistent
  <1>8. QED
    BY <1>3, <1>4, <1>7 DEF WaitInv

LEMMA RescheduleSWaits ==
  ASSUME ListInv, WaitInv, NEW p \in Level, RescheduleS(p), firing = NULL,
         UNCHANGED <<u, ref, firing>>, isr' \in BOOLEAN
  PROVE  WaitInv'
  <1>1. CASE FirstPrio > p
    <2>1. ready # <<>>
      BY <1>1, ChKernelAssumption DEF FirstPrio
    <2>2. /\ state' = [state EXCEPT ![current] = "READY", ![Head(ready)] = "CURRENT"]
          /\ armed' = GoesOn(Head(ready))
      BY <1>1 DEF RescheduleS
    <2>3. QED
      BY <2>1, <2>2, SwitchWaits
  <1>2. CASE ~(FirstPrio > p)
    <2>1. state' = state /\ armed' = armed /\ u' = u /\ ref' = ref /\ firing' = NULL
      BY <1>2 DEF RescheduleS, lists
    <2>2. QED
      BY <2>1 DEF WaitInv, WaitsConsistent
  <1>3. QED
    BY <1>1, <1>2
----------------------------------------------------------------------------
(* The invariant holds at first, and each action keeps it.                 *)

LEMMA InitIInv == Init => IInv
  <1> SUFFICES ASSUME Init PROVE IInv
    OBVIOUS
  <1>1. /\ Main \in Thread /\ Idle \in Thread /\ Main # Idle /\ NULL \notin Thread
        /\ Priority \in [Thread -> Level] /\ Level \subseteq Nat
        /\ \A t \in Thread \ {Idle} : Priority[t] > Priority[Idle]
    BY ChKernelAssumption
  <1>2. /\ current = Main /\ ready = <<Idle>> /\ prio = Priority /\ isr = FALSE
        /\ state = [t \in Thread |-> CASE t = Main -> "CURRENT" [] t = Idle -> "READY"
                                       [] OTHER -> "WTSTART"]
    BY DEF Init
  <1>3. /\ ready \in Seq(Thread) /\ DOMAIN ready = {1} /\ ready[1] = Idle
    BY <1>1, <1>2
  <1>4. ToSet(ready) = {Idle} /\ IsInjective(ready)
    BY <1>3 DEF ToSet, IsInjective
  <1>5. Sorted(ready, prio)
    BY <1>3 DEF Sorted
  <1>6. /\ state \in [Thread -> ThreadState]
        /\ \A t \in Thread : state[t] = IF t = Main THEN "CURRENT" ELSE IF t = Idle THEN "READY"
                                                                     ELSE "WTSTART"
    BY <1>1, <1>2 DEF ThreadState
  <1>7. \A t \in ToSet(ready) : prio[current] >= prio[t]
    <2>1. Priority[Main] \in Nat /\ Priority[Idle] \in Nat /\ Priority[Main] > Priority[Idle]
      BY <1>1
    <2>2. QED
      BY <1>2, <1>4, <2>1
  <1>8. ListInv
    BY <1>1, <1>2, <1>3, <1>4, <1>5, <1>6, <1>7 DEF ListInv
  <1>9. WaitInv
    BY <1>1, <1>6 DEF Init, WaitInv, WaitsConsistent
  <1>10. QED
    BY <1>8, <1>9 DEF IInv

LEMMA NextIInv == IInv /\ [Next]_vars => IInv'
  <1> SUFFICES ASSUME ListInv, WaitInv, [Next]_vars PROVE ListInv' /\ WaitInv'
    BY DEF IInv
  <1>1. ASSUME NEW r \in Ref, NEW x \in Thread
        PROVE  ref[r] = x <=> state[x] = "SUSPENDED" /\ u[x] = r
    BY DEF WaitInv, WaitsConsistent
  <1>2. current \in Thread /\ state[current] = "CURRENT" /\ (Calls => firing = NULL)
    BY DEF ListInv, WaitInv, Calls
  <1>3. ASSUME NEW r \in Ref PROVE r \notin {MSG_OK, MSG_TIMEOUT, NULL}
    BY ChKernelAssumption
  <1>4. CASE Sleep
    <2>1. Calls /\ GoSleep("SLEEPING", TRUE) /\ u' = u /\ ref' = ref
      BY <1>4 DEF Sleep
    <2>2. ListInv'
      BY <2>1, GoSleepKeeps DEF ThreadState
    <2>3. \A r \in Ref : ref'[r] # current
      BY <1>1, <1>2, <2>1
    <2>4. u' \in [Thread -> Ref \cup {MSG_OK, MSG_TIMEOUT}] /\ ref' \in [Ref -> Thread \cup {NULL}]
      BY <2>1 DEF WaitInv
    <2>5. WaitInv'
      BY <2>1, <2>3, <2>4, GoSleepWaits
    <2>6. QED
      BY <2>2, <2>5
  <1>5. CASE Exit
    <2>1. Calls /\ GoSleep("FINAL", FALSE) /\ u' = u /\ ref' = ref
      BY <1>5 DEF Exit
    <2>2. ListInv'
      BY <2>1, GoSleepKeeps DEF ThreadState
    <2>3. \A r \in Ref : ref'[r] # current
      BY <1>1, <1>2, <2>1
    <2>4. u' \in [Thread -> Ref \cup {MSG_OK, MSG_TIMEOUT}] /\ ref' \in [Ref -> Thread \cup {NULL}]
      BY <2>1 DEF WaitInv
    <2>5. WaitInv'
      BY <2>1, <2>3, <2>4, GoSleepWaits
    <2>6. QED
      BY <2>2, <2>5
  <1>6. ASSUME NEW r \in Ref, NEW timed \in BOOLEAN, Suspend(r, timed)
        PROVE  ListInv' /\ WaitInv'
    <2>1. /\ Calls /\ ref[r] = NULL /\ GoSleep("SUSPENDED", timed)
          /\ ref' = [ref EXCEPT ![r] = current] /\ u' = [u EXCEPT ![current] = r]
      BY <1>6 DEF Suspend
    <2>2. ListInv'
      BY <2>1, GoSleepKeeps DEF ThreadState
    <2>3. /\ u' \in [Thread -> Ref \cup {MSG_OK, MSG_TIMEOUT}] /\ ref' \in [Ref -> Thread \cup {NULL}]
          /\ u'[current] = r /\ \A x \in Thread \ {current} : u'[x] = u[x]
          /\ ref'[r] = current /\ \A q \in Ref \ {r} : ref'[q] = ref[q]
      BY <1>2, <2>1 DEF WaitInv
    <2>4. \A q \in Ref : ref[q] # current
      BY <1>1, <1>2
    <2>5. \A q \in Ref : ref'[q] = current <=> u'[current] = q
      BY <2>3, <2>4
    <2>6. \A q \in Ref, x \in Thread \ {current} : ref'[q] = x <=> ref[q] = x
      BY <2>1, <2>3, ChKernelAssumption
    <2>7. WaitInv'
      BY <2>1, <2>3, <2>5, <2>6, GoSleepWaits
    <2>8. QED
      BY <2>2, <2>7
  <1>7. ASSUME NEW r \in Ref, ResumeS(r)
        PROVE  ListInv' /\ WaitInv'
    <2>1. /\ Calls /\ ref[r] # NULL /\ ref' = [ref EXCEPT ![r] = NULL] /\ WakeupS(ref[r])
          /\ isr' = isr
      BY <1>7 DEF ResumeS
    <2>2. /\ ref[r] \in Thread /\ state[ref[r]] = "SUSPENDED"
          /\ ref' \in [Ref -> Thread \cup {NULL}]
          /\ \A q \in Ref, x \in Thread : ref'[q] = x <=> ref[q] = x /\ x # ref[r]
      BY <2>1, Referred
    <2>3. ListInv'
      BY <2>1, <2>2, WakeupSKeeps DEF Calls
    <2>4. WaitInv'
      BY <1>2, <2>1, <2>2, WakeupSWaits
    <2>5. QED
      BY <2>3, <2>4
  <1>8. ASSUME NEW r \in Ref, ResumeI(r), isr \/ prio[current] >= prio[ref[r]]
        PROVE  ListInv' /\ WaitInv'
    <2>1. /\ ref[r] # NULL /\ ref' = [ref EXCEPT ![r] = NULL] /\ u' = [u EXCEPT ![ref[r]] = MSG_OK]
          /\ ReadyI(ref[r])
          /\ prio' = prio /\ armed' = armed /\ firing' = firing /\ isr' = isr
      BY <1>8 DEF ResumeI, timers
    <2>2. /\ ref[r] \in Thread /\ state[ref[r]] = "SUSPENDED"
          /\ ref' \in [Ref -> Thread \cup {NULL}]
          /\ \A q \in Ref, x \in Thread : ref'[q] = x <=> ref[q] = x /\ x # ref[r]
      BY <2>1, Referred
    <2>3. isr \/ prio[ref[r]] <= prio[current]
      BY <1>2, <1>8, <2>2, ListFacts
    <2>4. ListInv'
      BY <2>1, <2>2, <2>3, ReadyIKeeps
    <2>5. WaitInv'
      BY <2>1, <2>2, ReadyIWaits
    <2>6. QED
      BY <2>4, <2>5
  <1>9. ASSUME NEW t \in Thread, CreateStatic(t)
        PROVE  ListInv' /\ WaitInv'
    <2>1. Calls /\ state[t] = "WTSTART" /\ WakeupS(t) /\ ref' = ref /\ isr' = isr
      BY <1>9 DEF CreateStatic
    <2>2. \A r \in Ref : ref[r] # t
      BY <1>1, <2>1
    <2>3. ListInv'
      BY <2>1, WakeupSKeeps DEF Calls
    <2>4. ref' \in [Ref -> Thread \cup {NULL}]
      BY <2>1 DEF WaitInv
    <2>5. \A r \in Ref, x \in Thread : ref'[r] = x <=> ref[r] = x /\ x # t
      BY <2>1, <2>2
    <2>6. WaitInv'
      BY <1>2, <2>1, <2>4, <2>5, WakeupSWaits
    <2>7. QED
      BY <2>3, <2>6
  <1>10. CASE Yield
    <2>1. ready # <<>>
      BY <1>10, NextExists DEF Yield, Calls
    <2>2. WaitInv'
      BY <1>2, <1>10, <2>1, SwitchWaits DEF Yield, WaitInv
    <2>3. QED
      BY <1>10, <2>2, YieldKeeps
  <1>11. ASSUME NEW p \in Level, SetPriority(p)
         PROVE  ListInv' /\ WaitInv'
    <2>1. /\ Calls /\ p > prio[Idle] /\ prio' = [prio EXCEPT ![current] = p] /\ RescheduleS(p)
          /\ u' = u /\ ref' = ref /\ firing' = firing /\ isr' = isr
      BY <1>11 DEF SetPriority
    <2>2. ListInv'
      BY <2>1, RescheduleSKeeps DEF Calls
    <2>3. isr' \in BOOLEAN
      BY <2>1 DEF WaitInv
    <2>4. WaitInv'
      BY <1>2, <2>1, <2>3, RescheduleSWaits
    <2>5. QED
      BY <2>2, <2>4
  <1>12. CASE IsrEnter
    BY <1>12 DEF IsrEnter, lists, timers, ListInv, WaitInv, WaitsConsistent
  <1>13. ASSUME NEW t \in Thread, TimerFires(t)
         PROVE  ListInv' /\ WaitInv'
    <2>1. /\ isr /\ firing = NULL /\ armed[t] /\ armed' = [armed EXCEPT ![t] = FALSE] /\ firing' = t
          /\ UNCHANGED <<current, ready, state, prio, u, ref, isr>>
      BY <1>13 DEF TimerFires, lists
    <2>2. ListInv'
      BY <2>1 DEF ListInv
    <2>3. armed' \in [Thread -> BOOLEAN] /\ \A x \in Thread : armed'[x] <=> armed[x] /\ x # t
      BY <2>1 DEF WaitInv
    <2>4. \A x \in Thread : firing # x
      BY <2>1, ChKernelAssumption
    <2>5. WaitsConsistent'
      BY <2>1, <2>3, <2>4 DEF WaitInv, WaitsConsistent
    <2>6. WaitInv'
      BY <2>1, <2>3, <2>5 DEF WaitInv
    <2>7. QED
      BY <2>2, <2>6
  <1>14. CASE Wakeup
    <2> DEFINE t == firing
    <2>1. /\ t # NULL /\ t \in Thread /\ firing' = NULL /\ prio' = prio /\ armed' = armed
          /\ isr' = isr /\ isr
      BY <1>14 DEF Wakeup, WaitInv
    <2>2. /\ ~armed[t]
          /\ \/ state[t] \in {"SUSPENDED", "SLEEPING"}
             \/ state[t] = "READY"
      BY <2>1 DEF WaitInv, WaitsConsistent
    <2>3. CASE state[t] = "READY"
      <3>1. UNCHANGED <<current, ready, state, u, ref>>
        BY <1>14, <2>3 DEF Wakeup, AlreadyReady, lists
      <3>2. ListInv'
        BY <2>1, <3>1 DEF ListInv
      <3>3. \A x \in Thread : firing' # x
        BY <2>1, ChKernelAssumption
      <3>4. WaitsConsistent'
        BY <2>1, <2>3, <3>1, <3>3 DEF WaitInv, WaitsConsistent
      <3>5. QED
        BY <2>1, <3>1, <3>2, <3>4 DEF WaitInv
    <2>4. CASE state[t] # "READY"
      <3>1. /\ u' = [u EXCEPT ![t] = MSG_TIMEOUT] /\ ReadyI(t)
            /\ IF state[t] = "SUSPENDED" THEN ref' = [ref EXCEPT ![u[t]] = NULL] ELSE ref' = ref
        BY <1>14, <2>4 DEF Wakeup, AlreadyReady
      <3>2. /\ ref' \in [Ref -> Thread \cup {NULL}]
            /\ \A r \in Ref, x \in Thread : ref'[r] = x <=> ref[r] = x /\ x # t
        <4>1. CASE state[t] = "SUSPENDED" /\ u[t] \in Ref
          <5>1. ref[u[t]] = t
            BY <1>1, <2>1, <4>1
          <5>2. QED
            BY <2>1, <3>1, <4>1, <5>1, Referred
        <4>2. CASE state[t] = "SUSPENDED" /\ u[t] \notin Ref
          <5>1. ref' = ref
            BY <3>1, <4>2 DEF WaitInv
          <5>2. \A r \in Ref : ref[r] # t
            BY <1>1, <2>1, <4>2
          <5>3. QED
            BY <5>1, <5>2 DEF WaitInv
        <4>3. CASE state[t] # "SUSPENDED"
          <5>1. \A r \in Ref : ref[r] # t
            BY <1>1, <2>1, <4>3
          <5>2. QED
            BY <3>1, <4>3, <5>1 DEF WaitInv
        <4>4. QED
          BY <4>1, <4>2, <4>3
      <3>3. ListInv'
        BY <2>1, <2>2, <2>4, <3>1, ReadyIKeeps
      <3>4. WaitInv'
        BY <2>1, <2>2, <2>4, <3>1, <3>2, ReadyIWaits
      <3>5. QED
        BY <3>3, <3>4
    <2>5. QED
      BY <2>3, <2>4
  <1>15. CASE IsrExit
    <2>1. /\ firing = NULL /\ isr' = FALSE /\ RescheduleS(prio[current])
          /\ prio' = prio /\ u' = u /\ ref' = ref /\ firing' = firing
      BY <1>15 DEF IsrExit
    <2>2. prio[current] \in Level /\ prio' = [prio EXCEPT ![current] = prio[current]]
      BY <1>2, <2>1 DEF ListInv
    <2>3. IF current = Idle THEN prio[current] = prio[Idle] ELSE prio[current] > prio[Idle]
      BY <1>2 DEF ListInv
    <2>4. ListInv'
      BY <2>1, <2>2, <2>3, RescheduleSKeeps
    <2>5. WaitInv'
      BY <2>1, <2>2, RescheduleSWaits
    <2>6. QED
      BY <2>4, <2>5
  <1>16. CASE UNCHANGED vars
    BY <1>16 DEF vars, lists, timers, ListInv, WaitInv, WaitsConsistent
  <1>17. CASE \E r \in Ref : \/ \E timed \in BOOLEAN : Suspend(r, timed)
                             \/ ResumeS(r) \/ Post(r) \/ IsrResumeI(r)
    <2>1. PICK r \in Ref : \/ \E timed \in BOOLEAN : Suspend(r, timed)
                           \/ ResumeS(r) \/ Post(r) \/ IsrResumeI(r)
      BY <1>17
    <2>2. CASE Post(r)
      BY <1>8, <2>2 DEF Post
    <2>3. CASE IsrResumeI(r)
      BY <1>8, <2>3 DEF IsrResumeI
    <2>4. QED
      BY <1>6, <1>7, <2>1, <2>2, <2>3
  <1>18. QED
    BY <1>4, <1>5, <1>9, <1>10, <1>11, <1>12, <1>13, <1>14, <1>15, <1>16, <1>17 DEF Next

\* The lists stay in order and the waits in step, whatever the threads call and
\* whenever interrupts come (os/src/chschd.c).
THEOREM InductiveInvariant == Spec => []IInv
  <1>1. Init => IInv
    BY InitIInv
  <1>2. IInv /\ [Next]_vars => IInv'
    BY NextIInv
  <1>3. QED
    BY <1>1, <1>2, PTL DEF Spec

\* Each thread is in one place: running, once in the ready list, or waiting.
THEOREM TypeCorrect == Spec => []TypeOK
  <1>1. IInv => TypeOK
    BY DEF IInv, ListInv, WaitInv, TypeOK, ThreadState
  <1>2. QED
    BY <1>1, InductiveInvariant, PTL

\* The debug assertion of chschd.c:416, for any number of threads: outside of
\* interrupts the running thread is not below any that is ready.
THEOREM PriorityAlwaysOrdered == Spec => []PriorityOrder
  <1>1. IInv => PriorityOrder
    <2> SUFFICES ASSUME IInv PROVE PriorityOrder
      OBVIOUS
    <2>1. ListInv
      BY DEF IInv
    <2>2. \A i \in DOMAIN ready : ready[i] \in ToSet(ready)
      BY DEF ToSet
    <2>3. ~isr => \A i \in DOMAIN ready : prio[current] >= prio[ready[i]]
      BY <2>1, <2>2 DEF ListInv
    <2>4. ready # <<>> \/ current = Idle
      BY <2>1, NextExists
    <2>5. \A i, j \in DOMAIN ready : i < j => prio[ready[i]] >= prio[ready[j]]
      BY <2>1 DEF ListInv, Sorted
    <2>6. QED
      BY <2>3, <2>4, <2>5 DEF PriorityOrder
  <1>2. QED
    BY <1>1, InductiveInvariant, PTL

\* Whatever wakes a thread, its reference and its timer agree with its state
\* (chThdSuspendTimeoutS, chThdResumeI, wakeup): no reference is left to a
\* thread that goes on, and no timer outlives its wait.
THEOREM WaitsAlwaysConsistent == Spec => []WaitsConsistent
  <1>1. IInv => WaitsConsistent
    BY DEF IInv, WaitInv
  <1>2. QED
    BY <1>1, InductiveInvariant, PTL
----------------------------------------------------------------------------
(* The queues that the ready list stands for.                              *)

\* Peers and Waiting of any list, priorities and current thread.
PeersOf(s, pr, p) ==
    LET f[k \in 0..Len(s)] ==
            IF k = 0 THEN <<>>
            ELSE IF pr[s[k]] = p THEN Append(f[k - 1], s[k]) ELSE f[k - 1]
    IN  f[Len(s)]

Alone(c, pr, p) == IF pr[c] = p THEN <<c>> ELSE <<>>

\* In a list that is in order the peers stand together, after a others and to
\* the b-th place.
Segment(s, pr, p, a, b) ==
    /\ a \in 0..Len(s) /\ b \in a..Len(s)
    /\ \A j \in 1..a : pr[s[j]] > p
    /\ \A j \in (a + 1)..b : pr[s[j]] = p
    /\ \A j \in (b + 1)..Len(s) : pr[s[j]] < p

Slice(s, a, n) == [i \in 1..n |-> s[a + i]]

LEMMA SliceIs ==
  ASSUME NEW s \in Seq(Thread), NEW a \in Nat, NEW n \in Nat, a + n <= Len(s)
  PROVE  Slice(s, a, n) \in Seq(Thread) /\ Len(Slice(s, a, n)) = n
  <1>1. Len(s) \in Nat /\ \A j \in 1..Len(s) : s[j] \in Thread
    OBVIOUS
  <1>2. \A i \in 1..n : a + i \in 1..Len(s)
    BY <1>1
  <1>3. Slice(s, a, n) \in [1..n -> Thread]
    BY <1>1, <1>2 DEF Slice
  <1>4. Slice(s, a, n) \in Seq(Thread)
    BY <1>3
  <1>5. DOMAIN Slice(s, a, n) = 1..n
    BY DEF Slice
  <1>6. QED
    BY <1>4, <1>5, LenProperties

LEMMA SliceGrows ==
  ASSUME NEW s \in Seq(Thread), NEW a \in Nat, NEW n \in Nat, a + n + 1 <= Len(s)
  PROVE  Append(Slice(s, a, n), s[a + n + 1]) = Slice(s, a, n + 1)
  <1> DEFINE x == Slice(s, a, n)
             y == Slice(s, a, n + 1)
             e == s[a + n + 1]
             z == Append(x, e)
  <1>1. x \in Seq(Thread) /\ Len(x) = n
    <2>1. a + n <= Len(s)
      OBVIOUS
    <2>2. QED
      BY <2>1, SliceIs
  <1>2. y \in Seq(Thread) /\ Len(y) = n + 1
    <2>1. a + (n + 1) <= Len(s) /\ n + 1 \in Nat
      OBVIOUS
    <2>2. QED
      BY <2>1, SliceIs
  <1>3. e \in Thread
    <2>1. a + n + 1 \in 1..Len(s)
      OBVIOUS
    <2>2. QED
      BY <2>1
  <1>4. /\ \A i \in 1..n : x[i] = s[a + i]
        /\ \A i \in 1..(n + 1) : y[i] = s[a + i]
    BY DEF Slice
  <1>5. y[n + 1] = e
    <2>1. n + 1 \in 1..(n + 1) /\ a + (n + 1) = a + n + 1
      OBVIOUS
    <2> HIDE DEF y
    <2>2. y[n + 1] = s[a + (n + 1)]
      BY <1>4, <2>1
    <2>3. QED
      BY <2>1, <2>2
  <1> HIDE DEF x, y, e
  <1>6. z \in Seq(Thread) /\ Len(z) = n + 1 /\ z[n + 1] = e /\ \A i \in 1..n : z[i] = x[i]
    BY <1>1, <1>3
  <1> HIDE DEF z
  <1>7. \A i \in 1..(n + 1) : z[i] = y[i]
    <2> SUFFICES ASSUME NEW i \in 1..(n + 1) PROVE z[i] = y[i]
      OBVIOUS
    <2>1. CASE i = n + 1
      BY <1>5, <1>6, <2>1
    <2>2. CASE i # n + 1
      <3>1. i \in 1..n
        BY <2>2
      <3>2. QED
        BY <1>4, <1>6, <3>1
    <2>3. QED
      BY <2>1, <2>2
  <1>8. z = y
    BY <1>2, <1>6, <1>7, SeqEqual
  <1>9. QED
    BY <1>8 DEF z, x, y, e

LEMMA PriorityNat ==
  ASSUME NEW s \in Seq(Thread), NEW pr \in [Thread -> Level]
  PROVE  /\ Len(s) \in Nat /\ DOMAIN s = 1..Len(s)
         /\ \A j \in 1..Len(s) : s[j] \in Thread /\ pr[s[j]] \in Nat
  <1>1. Level \subseteq Nat
    BY ChKernelAssumption
  <1>2. Len(s) \in Nat /\ DOMAIN s = 1..Len(s) /\ \A j \in 1..Len(s) : s[j] \in Thread
    OBVIOUS
  <1>3. QED
    BY <1>1, <1>2

\* What the recursion of Peers finds.
LEMMA PeersOfIs ==
  ASSUME NEW s \in Seq(Thread), NEW pr \in [Thread -> Level], NEW p \in Level,
         NEW a, NEW b, Segment(s, pr, p, a, b)
  PROVE  PeersOf(s, pr, p) = Slice(s, a, b - a)
  <1> DEFINE N == Len(s)
             m(k) == IF k <= a THEN 0 ELSE IF k <= b THEN k - a ELSE b - a
             g == [k \in 0..N |-> Slice(s, a, m(k))]
             P(f) == f = [k \in 0..N |->
                            IF k = 0 THEN <<>>
                            ELSE IF pr[s[k]] = p THEN Append(f[k - 1], s[k]) ELSE f[k - 1]]
  <1>1. /\ N \in Nat /\ a \in Nat /\ b \in Nat /\ a <= b /\ b <= N /\ p \in Nat
        /\ \A k \in 1..N : s[k] \in Thread /\ pr[s[k]] \in Nat
    <2>1. N \in Nat /\ \A k \in 1..N : s[k] \in Thread /\ pr[s[k]] \in Nat
      BY PriorityNat
    <2>2. a \in 0..N /\ b \in a..N
      BY DEF Segment
    <2>3. a \in Nat /\ b \in Nat /\ a <= b /\ b <= N
      BY <2>1, <2>2
    <2>4. p \in Nat
      BY ChKernelAssumption
    <2> HIDE DEF N
    <2>5. QED
      BY <2>1, <2>3, <2>4
  <1>2. ASSUME NEW k \in 1..N
        PROVE  g[k] = IF pr[s[k]] = p THEN Append(g[k - 1], s[k]) ELSE g[k - 1]
    <2>1. k \in 0..N /\ k - 1 \in 0..N /\ k \in Nat
      BY <1>1
    <2>2. g[k] = Slice(s, a, m(k)) /\ g[k - 1] = Slice(s, a, m(k - 1))
      BY <2>1
    <2> HIDE DEF g
    <2>3. CASE k <= a
      <3>1. k \in 1..a
        BY <1>1, <2>3
      <3>2. pr[s[k]] > p
        BY <3>1 DEF Segment
      <3>3. pr[s[k]] # p
        BY <1>1, <3>2
      <3>4. m(k) = 0 /\ m(k - 1) = 0
        BY <1>1, <2>1, <2>3
      <3>5. QED
        BY <2>2, <3>3, <3>4
    <2>4. CASE k > a /\ k <= b
      <3>1. k \in (a + 1)..b
        BY <1>1, <2>4
      <3>2. pr[s[k]] = p
        BY <3>1 DEF Segment
      <3>3. m(k) = k - a /\ m(k - 1) = k - a - 1 /\ k - a - 1 \in Nat
        BY <1>1, <2>1, <2>4
      <3>4. a + (k - a - 1) + 1 = k /\ (k - a - 1) + 1 = k - a
        BY <1>1, <2>1
      <3> HIDE DEF m
      <3>5. Append(Slice(s, a, k - a - 1), s[a + (k - a - 1) + 1]) = Slice(s, a, (k - a - 1) + 1)
        BY <1>1, <2>1, <3>3, <3>4, SliceGrows
      <3>6. QED
        BY <2>2, <3>2, <3>3, <3>4, <3>5
    <2>5. CASE k > b
      <3>1. k \in (b + 1)..N
        BY <1>1, <2>5
      <3>2. pr[s[k]] < p
        BY <3>1 DEF Segment
      <3>3. pr[s[k]] # p
        BY <1>1, <3>2
      <3>4. m(k) = b - a /\ m(k - 1) = b - a
        BY <1>1, <2>1, <2>5
      <3>5. QED
        BY <2>2, <3>3, <3>4
    <2>6. QED
      BY <1>1, <2>1, <2>3, <2>4, <2>5
  <1>3. g[0] = <<>>
    <2>1. 0 \in 0..N /\ m(0) = 0
      BY <1>1
    <2>2. g[0] = Slice(s, a, 0)
      BY <2>1
    <2>3. Slice(s, a, 0) \in Seq(Thread) /\ Len(Slice(s, a, 0)) = 0
      BY <1>1, SliceIs
    <2>4. QED
      BY <2>2, <2>3
  <1>4. g = [k \in 0..N |-> g[k]]
    OBVIOUS
  <1>5. g[N] = Slice(s, a, b - a)
    <2>1. N \in 0..N
      BY <1>1
    <2>2. g[N] = Slice(s, a, m(N))
      BY <2>1
    <2>3. m(N) = b - a
      BY <1>1
    <2>4. QED
      BY <2>2, <2>3
  <1> HIDE DEF g
  <1>6. P(g)
    <2>1. \A k \in 0..N : g[k] = IF k = 0 THEN <<>>
                                ELSE IF pr[s[k]] = p THEN Append(g[k - 1], s[k]) ELSE g[k - 1]
      BY <1>1, <1>2, <1>3
    <2>2. QED
      BY <1>4, <2>1
  <1>7. ASSUME NEW f, P(f) PROVE f = g
    <2> DEFINE T == {k \in 0..N : f[k] # g[k]}
               h == [k \in 0..N |-> IF k = 0 THEN <<>>
                                    ELSE IF pr[s[k]] = p THEN Append(f[k - 1], s[k])
                                                         ELSE f[k - 1]]
    <2>1. f = h
      BY <1>7
    <2>2. \A k \in 0..N : h[k] = IF k = 0 THEN <<>>
                                ELSE IF pr[s[k]] = p THEN Append(f[k - 1], s[k]) ELSE f[k - 1]
      OBVIOUS
    <2>3. h = [k \in 0..N |-> h[k]]
      OBVIOUS
    <2> HIDE DEF h
    <2>4. T = {}
      <3> SUFFICES ASSUME T # {} PROVE FALSE
        OBVIOUS
      <3>1. T \in SUBSET Nat
        OBVIOUS
      <3>2. PICK k \in T : \A y \in T : k <= y
        <4> HIDE DEF T
        <4> QED BY <3>1, NatMin
      <3>3. k \in 0..N /\ f[k] # g[k]
        BY <3>2
      <3>4. k # 0
        <4>1. 0 \in 0..N
          BY <1>1
        <4>2. f[0] = <<>>
          BY <2>1, <2>2, <4>1
        <4>3. QED
          BY <1>3, <3>3, <4>2
      <3>5. k \in 1..N /\ k - 1 \in 0..N /\ ~(k <= k - 1)
        BY <1>1, <3>3, <3>4
      <3>6. f[k - 1] = g[k - 1]
        BY <3>2, <3>5
      <3> HIDE DEF T
      <3>7. f[k] = IF pr[s[k]] = p THEN Append(f[k - 1], s[k]) ELSE f[k - 1]
        BY <2>1, <2>2, <3>3, <3>4
      <3>8. QED
        BY <1>2, <3>3, <3>5, <3>6, <3>7
    <2>5. \A k \in 0..N : h[k] = g[k]
      BY <2>1, <2>4
    <2>6. QED
      BY <1>4, <2>1, <2>3, <2>5
  <1> DEFINE F == CHOOSE f : P(f)
  <1>8. PeersOf(s, pr, p) = F[N]
    BY DEF PeersOf
  <1>9. F = g
    <2> HIDE DEF P
    <2>1. P(CHOOSE f : P(f))
      BY <1>6, Zenon
    <2>2. QED
      BY <1>7, <2>1
  <1>10. QED
    BY <1>5, <1>8, <1>9

\* The peers do stand together.
LEMMA SegmentExists ==
  ASSUME NEW s \in Seq(Thread), NEW pr \in [Thread -> Level], NEW p \in Level, Sorted(s, pr)
  PROVE  \E a, b : Segment(s, pr, p, a, b)
  <1> DEFINE N == Len(s)
             NotAbove == {x \in Thread : pr[x] <= p}
             Below == {x \in Thread : pr[x] < p}
  <1>1. /\ N \in Nat /\ DOMAIN s = 1..N /\ p \in Nat
        /\ \A j \in 1..N : s[j] \in Thread /\ pr[s[j]] \in Nat
    BY PriorityNat, ChKernelAssumption
  <1>2. \A i, j \in 1..N : i <= j => pr[s[i]] >= pr[s[j]]
    BY <1>1 DEF Sorted
  <1>3. PICK k \in 1..(N + 1) : /\ k = N + 1 \/ s[k] \in NotAbove
                                /\ \A j \in 1..(k - 1) : s[j] \notin NotAbove
    BY PlaceExists
  <1>4. PICK m \in 1..(N + 1) : /\ m = N + 1 \/ s[m] \in Below
                                /\ \A j \in 1..(m - 1) : s[j] \notin Below
    BY PlaceExists
  <1>5. \A j \in 1..(k - 1) : pr[s[j]] > p
    <2> SUFFICES ASSUME NEW j \in 1..(k - 1) PROVE pr[s[j]] > p
      OBVIOUS
    <2>1. j \in 1..N /\ s[j] \notin NotAbove
      BY <1>1, <1>3
    <2>2. ~(pr[s[j]] <= p)
      BY <1>1, <2>1
    <2>3. QED
      BY <1>1, <2>1, <2>2
  <1>6. \A j \in k..N : pr[s[j]] <= p
    <2> SUFFICES ASSUME NEW j \in k..N PROVE pr[s[j]] <= p
      OBVIOUS
    <2>1. j \in 1..N /\ k \in 1..N /\ k <= j
      BY <1>1
    <2>2. s[k] \in NotAbove
      BY <1>1, <1>3, <2>1
    <2>3. pr[s[k]] <= p /\ pr[s[k]] >= pr[s[j]]
      BY <1>2, <2>1, <2>2
    <2>4. QED
      BY <1>1, <2>1, <2>3
  <1>7. \A j \in 1..(m - 1) : pr[s[j]] >= p
    <2> SUFFICES ASSUME NEW j \in 1..(m - 1) PROVE pr[s[j]] >= p
      OBVIOUS
    <2>1. j \in 1..N /\ s[j] \notin Below
      BY <1>1, <1>4
    <2>2. ~(pr[s[j]] < p)
      BY <1>1, <2>1
    <2>3. QED
      BY <1>1, <2>1, <2>2
  <1>8. \A j \in m..N : pr[s[j]] < p
    <2> SUFFICES ASSUME NEW j \in m..N PROVE pr[s[j]] < p
      OBVIOUS
    <2>1. j \in 1..N /\ m \in 1..N /\ m <= j
      BY <1>1
    <2>2. s[m] \in Below
      BY <1>1, <1>4, <2>1
    <2>3. pr[s[m]] < p /\ pr[s[m]] >= pr[s[j]]
      BY <1>2, <2>1, <2>2
    <2>4. QED
      BY <1>1, <2>1, <2>3
  <1>9. k <= m
    <2> SUFFICES ASSUME m < k PROVE FALSE
      BY <1>1
    <2>1. m \in 1..(k - 1) /\ m \in m..N /\ m \in 1..N
      BY <1>1
    <2>2. pr[s[m]] > p /\ pr[s[m]] < p
      BY <1>5, <1>8, <2>1
    <2>3. QED
      BY <1>1, <2>1, <2>2
  <1>10. Segment(s, pr, p, k - 1, m - 1)
    <2>1. k - 1 \in 0..N /\ m - 1 \in (k - 1)..N
      BY <1>1, <1>9
    <2>2. \A j \in ((k - 1) + 1)..(m - 1) : pr[s[j]] = p
      <3> SUFFICES ASSUME NEW j \in ((k - 1) + 1)..(m - 1) PROVE pr[s[j]] = p
        OBVIOUS
      <3>1. j \in k..N /\ j \in 1..(m - 1) /\ j \in 1..N
        BY <1>1
      <3>2. pr[s[j]] <= p /\ pr[s[j]] >= p /\ pr[s[j]] \in Nat
        BY <1>1, <1>6, <1>7, <3>1
      <3>3. QED
        BY <1>1, <3>2
    <2>3. \A j \in ((m - 1) + 1)..N : pr[s[j]] < p
      <3>1. (m - 1) + 1 = m
        OBVIOUS
      <3>2. QED
        BY <1>8, <3>1
    <2>4. QED
      BY <1>5, <2>1, <2>2, <2>3 DEF Segment
  <1>11. QED
    BY <1>10

\* They are threads of that priority, and in the list.
LEMMA PeersAre ==
  ASSUME NEW s \in Seq(Thread), NEW pr \in [Thread -> Level], NEW p \in Level, Sorted(s, pr)
  PROVE  /\ PeersOf(s, pr, p) \in Seq(Thread)
         /\ \A x \in ToSet(PeersOf(s, pr, p)) : x \in ToSet(s) /\ pr[x] = p
  <1>1. PICK a, b : Segment(s, pr, p, a, b)
    BY SegmentExists
  <1>2. /\ a \in Nat /\ b \in Nat /\ a <= b /\ b <= Len(s) /\ b - a \in Nat /\ a + (b - a) <= Len(s)
        /\ Len(s) \in Nat /\ DOMAIN s = 1..Len(s)
    BY <1>1, PriorityNat DEF Segment
  <1> DEFINE q == PeersOf(s, pr, p)
             n == b - a
  <1>3. q = Slice(s, a, n)
    BY <1>1, PeersOfIs
  <1>4. q \in Seq(Thread) /\ Len(q) = n
    <2> HIDE DEF q
    <2>1. QED
      BY <1>2, <1>3, SliceIs
  <1>5. \A i \in 1..n : q[i] = s[a + i]
    BY <1>3 DEF Slice
  <1>6. DOMAIN q = 1..n
    BY <1>3 DEF Slice
  <1> HIDE DEF q
  <1>7. ASSUME NEW i \in 1..n PROVE q[i] \in ToSet(s) /\ pr[q[i]] = p
    <2>1. a + i \in (a + 1)..b /\ a + i \in DOMAIN s
      BY <1>2
    <2>2. pr[s[a + i]] = p
      BY <1>1, <2>1 DEF Segment
    <2>3. s[a + i] \in ToSet(s)
      BY <2>1 DEF ToSet
    <2>4. QED
      BY <1>5, <2>2, <2>3
  <1>8. \A x \in ToSet(q) : x \in ToSet(s) /\ pr[x] = p
    BY <1>6, <1>7 DEF ToSet
  <1>9. QED
    BY <1>4, <1>8 DEF q

\* Who is not in the list does not matter.
LEMMA SamePeers ==
  ASSUME NEW s \in Seq(Thread), NEW pr \in [Thread -> Level], NEW qr \in [Thread -> Level],
         NEW p \in Level, Sorted(s, pr), \A x \in ToSet(s) : qr[x] = pr[x]
  PROVE  PeersOf(s, qr, p) = PeersOf(s, pr, p)
  <1>1. PICK a, b : Segment(s, pr, p, a, b)
    BY SegmentExists
  <1>2. \A j \in 1..Len(s) : qr[s[j]] = pr[s[j]]
    <2>1. \A j \in 1..Len(s) : s[j] \in ToSet(s)
      BY PriorityNat DEF ToSet
    <2>2. QED
      BY <2>1
  <1>3. Segment(s, qr, p, a, b)
    <2>1. a \in 0..Len(s) /\ b \in a..Len(s) /\ Len(s) \in Nat
      BY <1>1 DEF Segment
    <2>2. \A j \in 1..a : j \in 1..Len(s)
      BY <2>1
    <2>3. \A j \in (a + 1)..b : j \in 1..Len(s)
      BY <2>1
    <2>4. \A j \in (b + 1)..Len(s) : j \in 1..Len(s)
      BY <2>1
    <2>5. QED
      BY <1>1, <1>2, <2>1, <2>2, <2>3, <2>4 DEF Segment
  <1>4. QED
    BY <1>1, <1>3, PeersOfIs

\* A sequence and a head.
LEMMA ConsIs ==
  ASSUME NEW t \in Thread, NEW x \in Seq(Thread), NEW y \in Seq(Thread),
         Len(y) = Len(x) + 1, y[1] = t, \A i \in 1..Len(x) : y[i + 1] = x[i]
  PROVE  y = <<t>> \o x
  <1> DEFINE o == <<t>>
             n == Len(x)
             z == o \o x
  <1>1. o \in Seq(Thread) /\ Len(o) = 1 /\ o[1] = t /\ n \in Nat
    OBVIOUS
  <1> HIDE DEF o, n
  <1>2. /\ o \o x \in Seq(Thread) /\ Len(o \o x) = Len(o) + Len(x)
        /\ \A i \in 1..(Len(o) + Len(x)) : (o \o x)[i] = IF i <= Len(o) THEN o[i] ELSE x[i - Len(o)]
    BY <1>1, ConcatProperties
  <1>3. /\ z \in Seq(Thread) /\ Len(z) = 1 + n
        /\ \A i \in 1..(1 + n) : z[i] = IF i <= 1 THEN o[i] ELSE x[i - 1]
    BY <1>1, <1>2 DEF n
  <1> HIDE DEF z
  <1>4. ASSUME NEW i \in 1..(1 + n) PROVE y[i] = z[i]
    <2>1. CASE i = 1
      BY <1>1, <1>3, <2>1
    <2>2. CASE i # 1
      <3>1. i - 1 \in 1..n /\ (i - 1) + 1 = i /\ ~(i <= 1)
        BY <1>1, <2>2
      <3>2. z[i] = x[i - 1] /\ y[(i - 1) + 1] = x[i - 1]
        BY <1>3, <3>1 DEF n
      <3>3. QED
        BY <3>1, <3>2
    <2>3. QED
      BY <2>1, <2>2
  <1>5. Len(y) = 1 + n /\ Len(z) = Len(y)
    BY <1>1, <1>3 DEF n
  <1>6. y = z
    BY <1>3, <1>4, <1>5, SeqEqual
  <1>7. QED
    BY <1>6 DEF z, o

\* The head of the list is the first of its peers.
LEMMA HeadPeers ==
  ASSUME NEW s \in Seq(Thread), s # <<>>, NEW pr \in [Thread -> Level], NEW p \in Level,
         Sorted(s, pr), Sorted(Tail(s), pr)
  PROVE  PeersOf(s, pr, p) = Alone(Head(s), pr, p) \o PeersOf(Tail(s), pr, p)
  <1> DEFINE N == Len(s)
             h == Head(s)
             r == Tail(s)
  <1>1. /\ N \in Nat /\ DOMAIN s = 1..N /\ p \in Nat
        /\ \A j \in 1..N : s[j] \in Thread /\ pr[s[j]] \in Nat
    BY PriorityNat, ChKernelAssumption
  <1>2. /\ N >= 1 /\ r \in Seq(Thread) /\ Len(r) = N - 1
        /\ \A j \in 1..(N - 1) : r[j] = s[j + 1]
        /\ h = s[1] /\ h \in Thread
    OBVIOUS
  <1>3. pr[h] \in Nat
    <2>1. 1 \in 1..N
      BY <1>1, <1>2
    <2>2. QED
      BY <1>1, <1>2, <2>1
  <1> HIDE DEF N, h, r
  <1>4. PICK a, b : Segment(r, pr, p, a, b)
    BY <1>2, SegmentExists DEF r
  <1>5. /\ a \in Nat /\ b \in Nat /\ a <= b /\ b <= N - 1 /\ b - a \in Nat
        /\ \A j \in 1..a : pr[s[j + 1]] > p
        /\ \A j \in (a + 1)..b : pr[s[j + 1]] = p
        /\ \A j \in (b + 1)..(N - 1) : pr[s[j + 1]] < p
    <2>1. a \in 0..(N - 1) /\ b \in a..(N - 1)
      BY <1>2, <1>4 DEF Segment
    <2>2. a \in Nat /\ b \in Nat /\ a <= b /\ b <= N - 1 /\ b - a \in Nat
      BY <1>1, <2>1
    <2>3. /\ \A j \in 1..a : pr[r[j]] > p
          /\ \A j \in (a + 1)..b : pr[r[j]] = p
          /\ \A j \in (b + 1)..(N - 1) : pr[r[j]] < p
      BY <1>2, <1>4 DEF Segment
    <2>4. /\ \A j \in 1..a : j \in 1..(N - 1)
          /\ \A j \in (a + 1)..b : j \in 1..(N - 1)
          /\ \A j \in (b + 1)..(N - 1) : j \in 1..(N - 1)
      BY <1>1, <2>2
    <2>5. QED
      BY <1>2, <2>2, <2>3, <2>4
  <1>6. \A j \in 1..(N - 1) : pr[s[1]] >= pr[s[j + 1]]
    <2> SUFFICES ASSUME NEW j \in 1..(N - 1) PROVE pr[s[1]] >= pr[s[j + 1]]
      OBVIOUS
    <2>1. 1 \in DOMAIN s /\ j + 1 \in DOMAIN s /\ 1 < j + 1
      BY <1>1, <1>2
    <2>2. QED
      BY <2>1 DEF Sorted
  <1>7. PeersOf(r, pr, p) = Slice(r, a, b - a)
    BY <1>2, <1>4, PeersOfIs
  <1> DEFINE n == b - a
             x == Slice(r, a, n)
  <1>8. x \in Seq(Thread) /\ Len(x) = n /\ \A i \in 1..n : x[i] = s[(a + 1) + i]
    <2>1. x \in Seq(Thread) /\ Len(x) = n
      <3>1. a + n <= Len(r)
        BY <1>2, <1>5
      <3>2. QED
        BY <1>2, <1>5, <3>1, SliceIs
    <2>2. \A i \in 1..n : a + i \in 1..(N - 1) /\ (a + i) + 1 = (a + 1) + i
      BY <1>1, <1>5
    <2>3. \A i \in 1..n : x[i] = r[a + i]
      BY DEF Slice
    <2> HIDE DEF x
    <2>4. QED
      BY <1>2, <2>1, <2>2, <2>3
  <1>9. ASSUME pr[h] # p
        PROVE  PeersOf(s, pr, p) = x
    <2>1. PICK c : c = IF pr[h] > p THEN 1 ELSE 0
      OBVIOUS
    <2>2. c = 0 => a = 0 /\ b = 0
      <3> SUFFICES ASSUME c = 0, b # 0 PROVE FALSE
        BY <1>5
      <3>1. 1 \in 1..(N - 1) /\ b \in 1..(N - 1)
        BY <1>1, <1>5
      <3>2. pr[s[1]] < p /\ pr[s[1]] >= pr[s[2]]
        BY <1>1, <1>2, <1>3, <1>6, <1>9, <2>1, <3>1
      <3>3. pr[s[2]] >= p /\ pr[s[2]] \in Nat
        <4>1. 1 \in 1..a \/ 1 \in (a + 1)..b
          BY <1>5, <3>1
        <4>2. 1 + 1 \in 1..N
          BY <1>1, <3>1
        <4>3. pr[s[1 + 1]] > p \/ pr[s[1 + 1]] = p
          BY <1>5, <4>1
        <4>4. pr[s[1 + 1]] \in Nat
          BY <1>1, <4>2
        <4>5. QED
          BY <1>1, <4>3, <4>4
      <3>4. QED
        BY <1>1, <1>2, <1>3, <3>2, <3>3
    <2>3. Segment(s, pr, p, a + c, b + c)
      <3>1. a + c \in 0..N /\ b + c \in (a + c)..N
        BY <1>1, <1>2, <1>5, <2>1
      <3>2. ASSUME NEW j \in 1..(a + c) PROVE pr[s[j]] > p
        <4>1. CASE c = 0
          <5>1. a + c = 0
            BY <2>2, <4>1
          <5>2. QED
            BY <5>1
        <4>2. CASE c # 0 /\ j = 1
          BY <1>2, <2>1, <4>2
        <4>3. CASE c # 0 /\ j # 1
          <5>1. j - 1 \in 1..a /\ (j - 1) + 1 = j
            BY <1>5, <2>1, <4>3
          <5>2. QED
            BY <1>5, <5>1
        <4>4. QED
          BY <4>1, <4>2, <4>3
      <3>3. ASSUME NEW j \in (a + c + 1)..(b + c) PROVE pr[s[j]] = p
        <4>1. c = 1
          BY <1>5, <2>1, <2>2
        <4>2. j - 1 \in (a + 1)..b /\ (j - 1) + 1 = j
          BY <1>5, <4>1
        <4>3. QED
          BY <1>5, <4>2
      <3>4. ASSUME NEW j \in (b + c + 1)..N PROVE pr[s[j]] < p
        <4>1. CASE j = 1
          <5>1. c = 0
            BY <1>5, <2>1, <4>1
          <5>2. QED
            BY <1>1, <1>2, <1>3, <1>9, <2>1, <4>1, <5>1
        <4>2. CASE j # 1
          <5>1. j - 1 \in (b + 1)..(N - 1) /\ (j - 1) + 1 = j
            BY <1>1, <1>5, <2>1, <2>2, <4>2
          <5>2. QED
            BY <1>5, <5>1
        <4>3. QED
          BY <4>1, <4>2
      <3>5. QED
        BY <3>1, <3>2, <3>3, <3>4 DEF Segment, N
    <2>4. PeersOf(s, pr, p) = Slice(s, a + c, (b + c) - (a + c))
      BY <2>3, PeersOfIs
    <2>5. (b + c) - (a + c) = n
      BY <1>5, <2>1
    <2>6. Slice(s, a + c, n) = x
      <3>1. CASE c = 1
        <4>1. Slice(s, a + 1, n) = [i \in 1..n |-> s[(a + 1) + i]]
          BY DEF Slice
        <4>2. x = [i \in 1..n |-> x[i]]
          BY DEF Slice
        <4> HIDE DEF x, n
        <4>3. QED
          BY <1>8, <3>1, <4>1, <4>2
      <3>2. CASE c # 1
        <4>1. a + c = 0 /\ a = 0 /\ n = 0
          BY <1>5, <2>1, <2>2, <3>2
        <4>2. Slice(s, 0, 0) = [i \in 1..0 |-> s[0 + i]] /\ Slice(r, 0, 0) = [i \in 1..0 |-> r[0 + i]]
          BY DEF Slice
        <4>3. 1..0 = {}
          OBVIOUS
        <4>4. QED
          BY <4>1, <4>2, <4>3
      <3>3. QED
        BY <3>1, <3>2
    <2>7. QED
      BY <2>4, <2>5, <2>6
  <1>10. ASSUME pr[h] = p
         PROVE  PeersOf(s, pr, p) = <<h>> \o x
    <2>1. a = 0
      <3> SUFFICES ASSUME a # 0 PROVE FALSE
        OBVIOUS
      <3>1. 1 \in 1..a /\ 1 \in 1..(N - 1) /\ 1 + 1 \in 1..N
        BY <1>1, <1>5
      <3>2. pr[s[1 + 1]] > p /\ pr[s[1]] >= pr[s[1 + 1]] /\ pr[s[1 + 1]] \in Nat
        BY <1>1, <1>5, <1>6, <3>1
      <3>3. QED
        BY <1>1, <1>2, <1>10, <3>2
    <2>2. Segment(s, pr, p, 0, b + 1)
      <3>1. 0 \in 0..N /\ b + 1 \in 0..N
        BY <1>1, <1>2, <1>5
      <3>2. ASSUME NEW j \in 1..(b + 1) PROVE pr[s[j]] = p
        <4>1. CASE j = 1
          BY <1>2, <1>10, <4>1
        <4>2. CASE j # 1
          <5>1. j - 1 \in (a + 1)..b /\ (j - 1) + 1 = j
            BY <1>5, <2>1, <4>2
          <5>2. QED
            BY <1>5, <5>1
        <4>3. QED
          BY <4>1, <4>2
      <3>3. ASSUME NEW j \in (b + 1 + 1)..N PROVE pr[s[j]] < p
        <4>1. j - 1 \in (b + 1)..(N - 1) /\ (j - 1) + 1 = j
          BY <1>1, <1>5
        <4>2. QED
          BY <1>5, <4>1
      <3>4. \A j \in 1..0 : pr[s[j]] > p
        OBVIOUS
      <3>5. QED
        BY <3>1, <3>2, <3>3, <3>4 DEF Segment, N
    <2> DEFINE y == Slice(s, 0, n + 1)
    <2>3. PeersOf(s, pr, p) = y
      <3>1. (b + 1) - 0 = n + 1
        BY <1>5, <2>1
      <3>2. QED
        BY <2>2, <3>1, PeersOfIs
    <2>4. y \in Seq(Thread) /\ Len(y) = n + 1
      <3>1. 0 + (n + 1) <= Len(s) /\ n + 1 \in Nat
        BY <1>5, <2>1 DEF N
      <3>2. QED
        BY <3>1, SliceIs
    <2>5. \A i \in 1..(n + 1) : y[i] = s[0 + i]
      BY DEF Slice
    <2>6. n \in Nat
      BY <1>5
    <2>7. y[1] = h
      <3>1. 1 \in 1..(n + 1) /\ 0 + 1 = 1
        BY <2>6
      <3> HIDE DEF n, y
      <3>2. QED
        BY <1>2, <2>5, <3>1
    <2>8. \A i \in 1..n : y[i + 1] = x[i]
      <3> SUFFICES ASSUME NEW i \in 1..n PROVE y[i + 1] = x[i]
        OBVIOUS
      <3>1. i + 1 \in 1..(n + 1) /\ 0 + (i + 1) = (0 + 1) + i
        BY <2>6
      <3> HIDE DEF n, y, x
      <3>2. QED
        BY <1>8, <2>1, <2>5, <3>1
    <2> HIDE DEF n, y, x
    <2>9. y = <<h>> \o x
      BY <1>2, <1>8, <2>4, <2>7, <2>8, ConsIs
    <2>10. QED
      BY <2>3, <2>9
  <1>11. CASE pr[h] = p
    BY <1>7, <1>10, <1>11 DEF Alone, h, r
  <1>12. CASE pr[h] # p
    <2>1. Alone(h, pr, p) = <<>>
      BY <1>12 DEF Alone
    <2>2. <<>> \o x = x
      BY <1>8
    <2>3. QED
      BY <1>7, <1>9, <1>12, <2>1, <2>2 DEF h, r
  <1>13. QED
    BY <1>11, <1>12

\* A thread that is inserted behind its peers is the last of them, ahead of them
\* the first; those of other priorities stay as they were.
LEMMA InsertPeers ==
  ASSUME NEW s \in Seq(Thread), NEW t \in Thread, NEW k \in 1..(Len(s) + 1),
         NEW pr \in [Thread -> Level], NEW p \in Level, Sorted(s, pr),
         \A j \in 1..(k - 1) : pr[s[j]] >= pr[t],
         k = Len(s) + 1 \/ pr[s[k]] <= pr[t]
  PROVE  LET r == InsertAt(s, k, t)
         IN  /\ p # pr[t] => PeersOf(r, pr, p) = PeersOf(s, pr, p)
             /\ p = pr[t] /\ (k = Len(s) + 1 \/ pr[s[k]] < pr[t])
                    => PeersOf(r, pr, p) = Append(PeersOf(s, pr, p), t)
             /\ p = pr[t] /\ (\A j \in 1..(k - 1) : pr[s[j]] > pr[t])
                    => PeersOf(r, pr, p) = <<t>> \o PeersOf(s, pr, p)
  <1> DEFINE r == InsertAt(s, k, t)
             N == Len(s)
             v == pr[t]
  <1>1. /\ N \in Nat /\ DOMAIN s = 1..N /\ p \in Nat /\ v \in Nat
        /\ \A j \in 1..N : s[j] \in Thread /\ pr[s[j]] \in Nat
    <2>1. N \in Nat /\ DOMAIN s = 1..N /\ \A j \in 1..N : s[j] \in Thread /\ pr[s[j]] \in Nat
      BY PriorityNat
    <2>2. p \in Nat /\ v \in Nat
      BY ChKernelAssumption
    <2>3. QED
      BY <2>1, <2>2
  <1>2. /\ r \in Seq(Thread) /\ Len(r) = N + 1
        /\ \A j \in 1..(N + 1) : r[j] = IF j < k THEN s[j] ELSE IF j = k THEN t ELSE s[j - 1]
    <2> SUFFICES /\ InsertAt(s, k, t) \in Seq(Thread)
                 /\ Len(InsertAt(s, k, t)) = Len(s) + 1
                 /\ \A j \in 1..(Len(s) + 1) : InsertAt(s, k, t)[j]
                        = IF j < k THEN s[j] ELSE IF j = k THEN t ELSE s[j - 1]
      OBVIOUS
    <2>1. QED
      BY InsertAtIs
  <1>3. k \in 1..(N + 1) /\ (k = N + 1 \/ pr[s[k]] <= v) /\ \A j \in 1..(k - 1) : pr[s[j]] >= v
    OBVIOUS
  <1>4. PICK a, b : Segment(s, pr, p, a, b)
    BY SegmentExists
  <1>5. /\ a \in Nat /\ b \in Nat /\ a <= b /\ b <= N /\ b - a \in Nat
        /\ \A j \in 1..a : pr[s[j]] > p
        /\ \A j \in (a + 1)..b : pr[s[j]] = p
        /\ \A j \in (b + 1)..N : pr[s[j]] < p
    <2>1. a \in 0..N /\ b \in a..N
      BY <1>4 DEF Segment
    <2>2. a \in Nat /\ b \in Nat /\ a <= b /\ b <= N /\ b - a \in Nat
      BY <1>1, <2>1
    <2>3. QED
      BY <1>4, <2>2 DEF Segment
  <1> DEFINE n == b - a
             x == Slice(s, a, n)
  <1>6. PeersOf(s, pr, p) = x
    BY <1>4, PeersOfIs
  <1>7. x \in Seq(Thread) /\ Len(x) = n /\ \A i \in 1..n : x[i] = s[a + i]
    <2>1. a + n <= Len(s)
      BY <1>1, <1>5
    <2>2. x \in Seq(Thread) /\ Len(x) = n
      BY <1>5, <2>1, SliceIs
    <2>3. QED
      BY <2>2 DEF Slice
  <1>8. /\ n \in Nat /\ n = b - a /\ b = a + n
        /\ \A i \in 1..n : a + i \in (a + 1)..b /\ a + i \in 1..N
    BY <1>1, <1>5
  <1> HIDE DEF r, N, v, x, n
  <1>9. \A j \in 1..N : /\ j < k => r[j] = s[j]
                        /\ j >= k => r[j + 1] = s[j]
    <2> SUFFICES ASSUME NEW j \in 1..N PROVE (j < k => r[j] = s[j]) /\ (j >= k => r[j + 1] = s[j])
      OBVIOUS
    <2>1. j \in 1..(N + 1) /\ j + 1 \in 1..(N + 1) /\ (j >= k => ~(j + 1 < k) /\ j + 1 # k)
          /\ (j + 1) - 1 = j
      BY <1>1, <1>3
    <2>2. QED
      BY <1>2, <2>1
  <1>10. r[k] = t
    BY <1>1, <1>2, <1>3
  <1>11. ASSUME v < p PROVE PeersOf(r, pr, p) = x
    <2>1. b < k
      <3> SUFFICES ASSUME k <= b PROVE FALSE
        BY <1>1, <1>3, <1>5
      <3>1. k \in 1..b /\ k \in 1..N /\ k # N + 1
        BY <1>1, <1>3, <1>5
      <3>2. pr[s[k]] >= p
        <4>1. k \in 1..a \/ k \in (a + 1)..b
          BY <1>5, <3>1
        <4>2. pr[s[k]] > p \/ pr[s[k]] = p
          BY <1>5, <4>1
        <4>3. QED
          BY <1>1, <3>1, <4>2
      <3>3. QED
        BY <1>1, <1>3, <1>11, <3>1, <3>2
    <2>2. Segment(r, pr, p, a, b)
      <3>1. a \in 0..(N + 1) /\ b \in a..(N + 1)
        BY <1>1, <1>5
      <3>2. \A j \in 1..b : j \in 1..N /\ r[j] = s[j]
        BY <1>1, <1>5, <1>9, <2>1
      <3>3. \A j \in 1..a : j \in 1..b
        BY <1>5
      <3>4. \A j \in (a + 1)..b : j \in 1..b
        BY <1>5
      <3>5. ASSUME NEW j \in (b + 1)..(N + 1) PROVE pr[r[j]] < p
        <4>1. CASE j < k
          <5>1. j \in (b + 1)..N /\ j \in 1..N
            BY <1>1, <1>3, <1>5, <4>1
          <5>2. QED
            BY <1>5, <1>9, <4>1, <5>1
        <4>2. CASE j = k
          BY <1>10, <1>11, <4>2 DEF v
        <4>3. CASE j > k
          <5>1. j - 1 \in (b + 1)..N /\ j - 1 \in 1..N /\ j - 1 >= k /\ (j - 1) + 1 = j
            BY <1>1, <1>3, <1>5, <2>1, <4>3
          <5>2. r[j] = s[j - 1]
            BY <1>9, <5>1
          <5>3. QED
            BY <1>5, <5>1, <5>2
        <4>4. QED
          BY <1>1, <1>3, <1>5, <4>1, <4>2, <4>3
      <3>6. QED
        BY <1>2, <1>5, <3>1, <3>2, <3>3, <3>4, <3>5 DEF Segment
    <2>3. PeersOf(r, pr, p) = Slice(r, a, n)
      BY <1>2, <2>2, PeersOfIs DEF n
    <2>4. \A i \in 1..n : r[a + i] = s[a + i]
      <3> SUFFICES ASSUME NEW i \in 1..n PROVE r[a + i] = s[a + i]
        OBVIOUS
      <3>1. a + i \in 1..N /\ a + i \in (a + 1)..b
        BY <1>8
      <3>2. b \in Nat /\ k \in Nat /\ b < k
        BY <1>3, <1>5, <2>1
      <3>3. a + i < k
        BY <3>1, <3>2
      <3>4. QED
        BY <1>9, <3>1, <3>3
    <2>5. QED
      BY <2>3, <2>4 DEF Slice, x
  <1>12. ASSUME v > p PROVE PeersOf(r, pr, p) = x
    <2>1. k - 1 <= a
      <3> SUFFICES ASSUME a < k - 1 PROVE FALSE
        BY <1>1, <1>3, <1>5
      <3>1. a + 1 \in 1..(k - 1) /\ a + 1 \in 1..N
        BY <1>1, <1>3, <1>5
      <3>2. pr[s[a + 1]] >= v
        BY <1>3, <3>1
      <3>3. pr[s[a + 1]] <= p
        <4>1. a + 1 \in (a + 1)..b \/ a + 1 \in (b + 1)..N
          BY <1>1, <1>5, <3>1
        <4>2. pr[s[a + 1]] = p \/ pr[s[a + 1]] < p
          BY <1>5, <4>1
        <4>3. QED
          BY <1>1, <3>1, <4>2
      <3>4. QED
        BY <1>1, <1>12, <3>1, <3>2, <3>3
    <2>2. Segment(r, pr, p, a + 1, b + 1)
      <3>1. a + 1 \in 0..(N + 1) /\ b + 1 \in (a + 1)..(N + 1)
        BY <1>1, <1>5
      <3>2. ASSUME NEW j \in 1..(a + 1) PROVE pr[r[j]] > p
        <4>1. CASE j < k
          <5>1. j \in 1..a /\ j \in 1..N
            BY <1>1, <1>3, <1>5, <2>1, <4>1
          <5>2. QED
            BY <1>5, <1>9, <4>1, <5>1
        <4>2. CASE j = k
          BY <1>10, <1>12, <4>2 DEF v
        <4>3. CASE j > k
          <5>1. j - 1 \in 1..a /\ j - 1 \in 1..N /\ j - 1 >= k /\ (j - 1) + 1 = j
            BY <1>1, <1>3, <1>5, <4>3
          <5>2. r[j] = s[j - 1]
            BY <1>9, <5>1
          <5>3. QED
            BY <1>5, <5>1, <5>2
        <4>4. QED
          BY <1>3, <1>5, <4>1, <4>2, <4>3
      <3>3. \A j \in (a + 2)..(N + 1) : j - 1 \in (a + 1)..N /\ r[j] = s[j - 1]
        <4> SUFFICES ASSUME NEW j \in (a + 2)..(N + 1)
                     PROVE  j - 1 \in (a + 1)..N /\ r[j] = s[j - 1]
          OBVIOUS
        <4>1. j - 1 \in (a + 1)..N /\ j - 1 \in 1..N /\ j - 1 >= k /\ (j - 1) + 1 = j
          BY <1>1, <1>3, <1>5, <2>1
        <4>2. QED
          BY <1>9, <4>1
      <3>4. ASSUME NEW j \in (a + 1 + 1)..(b + 1) PROVE pr[r[j]] = p
        <4>1. j \in (a + 2)..(N + 1) /\ j - 1 \in (a + 1)..b
          BY <1>1, <1>5
        <4>2. QED
          BY <1>5, <3>3, <4>1
      <3>5. ASSUME NEW j \in (b + 1 + 1)..(N + 1) PROVE pr[r[j]] < p
        <4>1. j \in (a + 2)..(N + 1) /\ j - 1 \in (b + 1)..N
          BY <1>1, <1>5
        <4>2. QED
          BY <1>5, <3>3, <4>1
      <3>6. QED
        BY <1>2, <3>1, <3>2, <3>4, <3>5 DEF Segment
    <2>3. PeersOf(r, pr, p) = Slice(r, a + 1, n)
      <3>1. (b + 1) - (a + 1) = n
        BY <1>5 DEF n
      <3>2. QED
        BY <1>2, <2>2, <3>1, PeersOfIs
    <2>4. \A i \in 1..n : r[(a + 1) + i] = s[a + i]
      <3> SUFFICES ASSUME NEW i \in 1..n PROVE r[(a + 1) + i] = s[a + i]
        OBVIOUS
      <3>1. a + i \in 1..N /\ a + i \in (a + 1)..b
        BY <1>8
      <3>2. a \in Nat /\ k \in Nat /\ k - 1 <= a
        BY <1>3, <1>5, <2>1
      <3>3. a + i >= k /\ (a + i) + 1 = (a + 1) + i
        BY <3>1, <3>2
      <3>4. QED
        BY <1>9, <3>1, <3>3
    <2>5. QED
      BY <2>3, <2>4 DEF Slice, x
  <1>13. ASSUME v = p, k - 1 = a \/ k - 1 = b,
                \A j \in 1..(k - 1) : j <= b, k <= N => k > a
         PROVE  PeersOf(r, pr, p) = Slice(r, a, n + 1) /\ Slice(r, a, n + 1) \in Seq(Thread)
                /\ Len(Slice(r, a, n + 1)) = n + 1
    <2>1. Segment(r, pr, p, a, b + 1)
      <3>1. a \in 0..(N + 1) /\ b + 1 \in a..(N + 1)
        BY <1>1, <1>5
      <3>2. ASSUME NEW j \in 1..a PROVE pr[r[j]] > p
        <4>1. j < k /\ j \in 1..N
          BY <1>1, <1>3, <1>5, <1>13
        <4>2. QED
          BY <1>5, <1>9, <4>1
      <3>3. ASSUME NEW j \in (a + 1)..(b + 1) PROVE pr[r[j]] = p
        <4>1. CASE j < k
          <5>1. j \in (a + 1)..b /\ j \in 1..N
            BY <1>1, <1>3, <1>5, <1>13, <4>1
          <5>2. QED
            BY <1>5, <1>9, <4>1, <5>1
        <4>2. CASE j = k
          BY <1>10, <1>13, <4>2 DEF v
        <4>3. CASE j > k
          <5>1. j - 1 \in (a + 1)..b /\ j - 1 \in 1..N /\ j - 1 >= k /\ (j - 1) + 1 = j
            BY <1>1, <1>3, <1>5, <1>13, <4>3
          <5>2. r[j] = s[j - 1]
            BY <1>9, <5>1
          <5>3. QED
            BY <1>5, <5>1, <5>2
        <4>4. QED
          BY <1>3, <1>5, <4>1, <4>2, <4>3
      <3>4. ASSUME NEW j \in (b + 1 + 1)..(N + 1) PROVE pr[r[j]] < p
        <4>1. j - 1 \in (b + 1)..N /\ j - 1 \in 1..N /\ j - 1 >= k /\ (j - 1) + 1 = j
          BY <1>1, <1>3, <1>5, <1>13
        <4>2. r[j] = s[j - 1]
          BY <1>9, <4>1
        <4>3. QED
          BY <1>5, <4>1, <4>2
      <3>5. QED
        BY <1>2, <3>1, <3>2, <3>3, <3>4 DEF Segment
    <2>2. (b + 1) - a = n + 1 /\ n + 1 \in Nat /\ a + (n + 1) <= Len(r)
      BY <1>1, <1>2, <1>5, <1>8
    <2>3. PeersOf(r, pr, p) = Slice(r, a, n + 1)
      BY <1>2, <2>1, <2>2, PeersOfIs
    <2>4. QED
      BY <1>2, <1>5, <2>2, <2>3, SliceIs
  <1>14. ASSUME v = p, k = N + 1 \/ pr[s[k]] < v PROVE PeersOf(r, pr, p) = Append(x, t)
    <2>1. k - 1 <= b
      <3> SUFFICES ASSUME b < k - 1 PROVE FALSE
        BY <1>1, <1>3, <1>5
      <3>1. b + 1 \in 1..(k - 1) /\ b + 1 \in (b + 1)..N /\ b + 1 \in 1..N
        BY <1>1, <1>3, <1>5
      <3>2. pr[s[b + 1]] >= v /\ pr[s[b + 1]] < p
        BY <1>3, <1>5, <3>1
      <3>3. QED
        BY <1>1, <1>14, <3>1, <3>2
    <2>2. b <= k - 1
      <3> SUFFICES ASSUME k <= b PROVE FALSE
        BY <1>1, <1>3, <1>5
      <3>1. (k \in 1..a \/ k \in (a + 1)..b) /\ k \in 1..N /\ k # N + 1
        BY <1>1, <1>3, <1>5
      <3>2. pr[s[k]] > p \/ pr[s[k]] = p
        BY <1>5, <3>1
      <3>3. QED
        BY <1>1, <1>14, <3>1, <3>2
    <2>3. k - 1 = b
      BY <1>3, <1>5, <2>1, <2>2
    <2>4. PeersOf(r, pr, p) = Slice(r, a, n + 1)
      <3>1. (\A j \in 1..(k - 1) : j <= b) /\ (k <= N => k > a)
        BY <1>3, <1>5, <2>3
      <3>2. QED
        BY <1>13, <1>14, <2>3, <3>1
    <2>5. Append(Slice(r, a, n), r[a + n + 1]) = Slice(r, a, n + 1)
      <3>1. a + n + 1 <= Len(r)
        BY <1>1, <1>2, <1>5, <1>8
      <3>2. QED
        BY <1>2, <1>5, <1>8, <3>1, SliceGrows
    <2>6. r[a + n + 1] = t
      <3>1. a + n + 1 = k
        BY <1>3, <1>5, <1>8, <2>3
      <3>2. QED
        BY <1>10, <3>1
    <2>7. \A i \in 1..n : r[a + i] = s[a + i]
      <3> SUFFICES ASSUME NEW i \in 1..n PROVE r[a + i] = s[a + i]
        OBVIOUS
      <3>1. a + i \in 1..N /\ a + i < k
        BY <1>3, <1>5, <1>8, <2>3
      <3>2. QED
        BY <1>9, <3>1
    <2>8. Slice(r, a, n) = x
      BY <2>7 DEF Slice, x
    <2>9. QED
      BY <2>4, <2>5, <2>6, <2>8
  <1>15. ASSUME v = p, \A j \in 1..(k - 1) : pr[s[j]] > v PROVE PeersOf(r, pr, p) = <<t>> \o x
    <2>1. k - 1 <= a
      <3> SUFFICES ASSUME a < k - 1 PROVE FALSE
        BY <1>1, <1>3, <1>5
      <3>1. /\ a + 1 \in 1..(k - 1) /\ a + 1 \in 1..N
            /\ a + 1 \in (a + 1)..b \/ a + 1 \in (b + 1)..N
        BY <1>1, <1>3, <1>5
      <3>2. pr[s[a + 1]] > v /\ (pr[s[a + 1]] = p \/ pr[s[a + 1]] < p)
        BY <1>5, <1>15, <3>1
      <3>3. QED
        BY <1>1, <1>15, <3>1, <3>2
    <2>2. a <= k - 1
      <3> SUFFICES ASSUME k <= a PROVE FALSE
        BY <1>1, <1>3, <1>5
      <3>1. k \in 1..a /\ k \in 1..N /\ k # N + 1
        BY <1>1, <1>3, <1>5
      <3>2. pr[s[k]] > p /\ pr[s[k]] <= v
        BY <1>3, <1>5, <3>1
      <3>3. QED
        BY <1>1, <1>15, <3>1, <3>2
    <2>3. k - 1 = a
      BY <1>3, <1>5, <2>1, <2>2
    <2> DEFINE y == Slice(r, a, n + 1)
    <2>4. PeersOf(r, pr, p) = y /\ y \in Seq(Thread) /\ Len(y) = n + 1
      <3>1. (\A j \in 1..(k - 1) : j <= b) /\ (k <= N => k > a)
        BY <1>3, <1>5, <2>3
      <3>2. QED
        BY <1>13, <1>15, <2>3, <3>1
    <2>5. \A i \in 1..(n + 1) : y[i] = r[a + i]
      BY DEF Slice
    <2>6. y[1] = t
      <3>1. 1 \in 1..(n + 1) /\ a + 1 = k
        BY <1>3, <1>5, <1>8, <2>3
      <3> HIDE DEF y
      <3>2. y[1] = r[a + 1]
        BY <2>5, <3>1
      <3>3. QED
        BY <1>10, <3>1, <3>2
    <2>7. \A i \in 1..n : y[i + 1] = x[i]
      <3> SUFFICES ASSUME NEW i \in 1..n PROVE y[i + 1] = x[i]
        OBVIOUS
      <3>1. /\ i + 1 \in 1..(n + 1) /\ a + i \in 1..N /\ a + i >= k
            /\ (a + i) + 1 = a + (i + 1)
        BY <1>3, <1>5, <1>8, <2>3
      <3> HIDE DEF y
      <3>2. QED
        BY <1>7, <1>9, <2>5, <3>1
    <2> HIDE DEF y
    <2>8. y = <<t>> \o x
      BY <1>7, <2>4, <2>6, <2>7, ConsIs
    <2>9. QED
      BY <2>4, <2>8
  <1>16. p # v => v < p \/ v > p
    BY <1>1
  <1>17. QED
    BY <1>6, <1>11, <1>12, <1>14, <1>15, <1>16 DEF r, N, v

\* chSchReadyI and chSchReadyAheadI, as seen by each queue.
LEMMA BehindPeersPeers ==
  ASSUME ListInv, NEW t \in Thread, NEW p \in Level
  PROVE  PeersOf(BehindPeers(t), prio, p)
             = IF p = prio[t] THEN Append(PeersOf(ready, prio, p), t) ELSE PeersOf(ready, prio, p)
  <1>1. ready \in Seq(Thread) /\ prio \in [Thread -> Level] /\ Sorted(ready, prio)
    BY DEF ListInv
  <1>2. PICK k \in 1..(Len(ready) + 1) :
            /\ BehindPeers(t) = InsertAt(ready, k, t)
            /\ k = Len(ready) + 1 \/ prio[ready[k]] < prio[t]
            /\ \A j \in 1..(k - 1) : prio[ready[j]] >= prio[t]
    BY BehindPlace
  <1>3. k = Len(ready) + 1 \/ prio[ready[k]] <= prio[t]
    <2>1. k # Len(ready) + 1 => k \in 1..Len(ready) /\ prio[ready[k]] < prio[t]
      BY <1>1, <1>2, PriorityNat
    <2>2. prio[t] \in Nat
      BY ListFacts
    <2>3. QED
      BY <1>1, <2>1, <2>2, PriorityNat
  <1> DEFINE r == InsertAt(ready, k, t)
  <1>4. /\ p # prio[t] => PeersOf(r, prio, p) = PeersOf(ready, prio, p)
        /\ p = prio[t] /\ (k = Len(ready) + 1 \/ prio[ready[k]] < prio[t])
               => PeersOf(r, prio, p) = Append(PeersOf(ready, prio, p), t)
    BY <1>1, <1>2, <1>3, InsertPeers
  <1> HIDE DEF r
  <1>5. QED
    BY <1>2, <1>4 DEF r

LEMMA AheadOfPeersPeers ==
  ASSUME ListInv, ready # <<>>, NEW t \in Thread, t \notin ToSet(ready), NEW p \in Level,
         NEW pr \in [Thread -> Level], pr[t] = p,
         \A x \in Thread \ {t} : pr[x] = prio[x], NEW o \in Level
  PROVE  PeersOf(AheadOfPeers(t, p), pr, o)
             = IF o = p THEN <<t>> \o PeersOf(Tail(ready), prio, o)
                        ELSE PeersOf(Tail(ready), prio, o)
  <1> DEFINE rest == Tail(ready)
  <1>1. /\ ready \in Seq(Thread) /\ prio \in [Thread -> Level]
        /\ IsInjective(ready) /\ Sorted(ready, prio)
    BY DEF ListInv
  <1>2. /\ rest \in Seq(Thread) /\ Sorted(rest, prio) /\ ToSet(rest) = ToSet(ready) \ {Head(ready)}
    BY <1>1, TailKeeps
  <1>3. PICK k \in 1..(Len(rest) + 1) :
            /\ AheadOfPeers(t, p) = InsertAt(rest, k, t)
            /\ k = Len(rest) + 1 \/ prio[rest[k]] <= p
            /\ \A j \in 1..(k - 1) : prio[rest[j]] > p
    BY AheadPlace
  <1> HIDE DEF rest
  <1>4. /\ Len(rest) \in Nat /\ DOMAIN rest = 1..Len(rest)
        /\ \A j \in 1..Len(rest) : rest[j] \in Thread /\ prio[rest[j]] \in Nat
    BY <1>1, <1>2, PriorityNat
  <1>5. pr \in [Thread -> Level] /\ pr[t] = p /\ p \in Nat /\ \A x \in Thread \ {t} : pr[x] = prio[x]
    BY <1>1, ChKernelAssumption
  <1>6. \A x \in ToSet(rest) : x # t /\ x \in Thread
    BY <1>2, ListFacts
  <1>7. \A j \in 1..Len(rest) : pr[rest[j]] = prio[rest[j]]
    <2>1. \A j \in 1..Len(rest) : rest[j] \in ToSet(rest)
      BY <1>4 DEF ToSet
    <2>2. QED
      BY <1>5, <1>6, <2>1
  <1>8. Sorted(rest, pr)
    BY <1>2, <1>4, <1>7 DEF Sorted
  <1>9. \A j \in 1..(k - 1) : j \in 1..Len(rest) /\ pr[rest[j]] > pr[t] /\ pr[rest[j]] >= pr[t]
    <2> SUFFICES ASSUME NEW j \in 1..(k - 1)
                 PROVE  j \in 1..Len(rest) /\ pr[rest[j]] > pr[t] /\ pr[rest[j]] >= pr[t]
      OBVIOUS
    <2>1. j \in 1..Len(rest)
      BY <1>3, <1>4
    <2>2. prio[rest[j]] > p
      BY <1>3
    <2>3. QED
      BY <1>4, <1>5, <1>7, <2>1, <2>2
  <1>10. k = Len(rest) + 1 \/ pr[rest[k]] <= pr[t]
    <2>1. k # Len(rest) + 1 => k \in 1..Len(rest) /\ prio[rest[k]] <= p
      BY <1>3, <1>4
    <2>2. QED
      BY <1>5, <1>7, <2>1
  <1> DEFINE r == InsertAt(rest, k, t)
  <1>11. /\ o # pr[t] => PeersOf(r, pr, o) = PeersOf(rest, pr, o)
         /\ o = pr[t] /\ (\A j \in 1..(k - 1) : pr[rest[j]] > pr[t])
                => PeersOf(r, pr, o) = <<t>> \o PeersOf(rest, pr, o)
    <2>1. \A j \in 1..(k - 1) : pr[rest[j]] >= pr[t]
      BY <1>9
    <2>2. pr \in [Thread -> Level]
      BY <1>5
    <2>3. rest \in Seq(Thread) /\ Sorted(rest, pr) /\ k \in 1..(Len(rest) + 1)
      BY <1>2, <1>3, <1>8
    <2>4. QED
      BY <1>10, <2>1, <2>2, <2>3, InsertPeers
  <1> HIDE DEF r
  <1>12. PeersOf(rest, pr, o) = PeersOf(rest, prio, o)
    <2>1. \A x \in ToSet(rest) : pr[x] = prio[x]
      BY <1>5, <1>6
    <2>2. pr \in [Thread -> Level] /\ prio \in [Thread -> Level]
      BY <1>1, <1>5
    <2>3. rest \in Seq(Thread) /\ Sorted(rest, prio)
      BY <1>2
    <2>4. QED
      BY <2>1, <2>2, <2>3, SamePeers
  <1>13. AheadOfPeers(t, p) = r
    BY <1>3 DEF r
  <1>14. QED
    BY <1>5, <1>9, <1>11, <1>12, <1>13 DEF rest

----------------------------------------------------------------------------
(* The refinement.                                                         *)

\* The queue of a priority: the running thread, if it is its own, and its peers.
LEMMA WaitingIs ==
  ASSUME NEW p
  PROVE  /\ Waiting(p) = Alone(current, prio, p) \o PeersOf(ready, prio, p)
         /\ Waiting(p)' = Alone(current', prio', p) \o PeersOf(ready', prio', p)
  BY DEF Waiting, Peers, Alone, PeersOf

LEMMA QueueIs ==
  ASSUME ListInv, NEW p \in Level
  PROVE  /\ PeersOf(ready, prio, p) \in Seq(Thread)
         /\ p # prio[current] => Waiting(p) = PeersOf(ready, prio, p)
         /\ p = prio[current] => /\ Waiting(p) = <<current>> \o PeersOf(ready, prio, p)
                                 /\ Head(Waiting(p)) = current
                                 /\ Tail(Waiting(p)) = PeersOf(ready, prio, p)
         /\ \A x \in ToSet(Waiting(p)) :
                prio[x] = p /\ (x = current \/ x \in ToSet(ready))
  <1> DEFINE y == PeersOf(ready, prio, p)
             c == current
  <1>1. ready \in Seq(Thread) /\ prio \in [Thread -> Level] /\ Sorted(ready, prio) /\ c \in Thread
    BY DEF ListInv
  <1>2. y \in Seq(Thread) /\ \A x \in ToSet(y) : x \in ToSet(ready) /\ prio[x] = p
    BY <1>1, PeersAre
  <1>3. Waiting(p) = Alone(c, prio, p) \o y
    BY WaitingIs
  <1> HIDE DEF y, c
  <1>4. CASE p # prio[c]
    <2>1. Alone(c, prio, p) = <<>> /\ <<>> \o y = y
      BY <1>2, <1>4 DEF Alone
    <2>2. QED
      BY <1>2, <1>3, <1>4, <2>1 DEF y, c
  <1>5. CASE p = prio[c]
    <2>1. Alone(c, prio, p) = <<c>>
      BY <1>5 DEF Alone
    <2> DEFINE z == <<c>> \o y
    <2>2. Waiting(p) = z
      BY <1>3, <2>1
    <2>3. z \in Seq(Thread) /\ Head(z) = c /\ Tail(z) = y
      BY <1>1, <1>2
    <2>4. \A x \in ToSet(z) : x = c \/ x \in ToSet(y)
      <3>1. DOMAIN z = 1..(Len(y) + 1) /\ Len(y) \in Nat /\ DOMAIN y = 1..Len(y)
        BY <1>1, <1>2
      <3>2. \A i \in 1..(Len(y) + 1) : z[i] = c \/ (i - 1 \in 1..Len(y) /\ z[i] = y[i - 1])
        BY <1>1, <1>2
      <3> HIDE DEF z
      <3>3. QED
        BY <3>1, <3>2 DEF ToSet
    <2> HIDE DEF z
    <2>5. QED
      BY <1>2, <1>5, <2>2, <2>3, <2>4 DEF y, c, z
  <1>6. QED
    BY <1>4, <1>5

\* Outside of interrupts the running thread is the head of the highest queue.
LEMMA CurrentIsHighest ==
  ASSUME ListInv, ~isr
  PROVE  Queues!Highest(prio[current])
  <1> DEFINE q == [p \in Level |-> Waiting(p)]
             c == prio[current]
  <1>1. c \in Level /\ Level \subseteq Nat /\ \A x \in Thread : prio[x] \in Nat
    BY ListFacts, ChKernelAssumption DEF ListInv
  <1>2. q[c] # <<>>
    <2>1. q[c] = <<current>> \o PeersOf(ready, prio, c) /\ PeersOf(ready, prio, c) \in Seq(Thread)
      BY <1>1, QueueIs
    <2>2. current \in Thread
      BY ListFacts
    <2> HIDE DEF q, c
    <2>3. QED
      BY <2>1, <2>2
  <1>3. ASSUME NEW o \in Level, q[o] # <<>> PROVE o <= c
    <2>1. PICK x \in ToSet(q[o]) : TRUE
      <3>1. q[o] = Waiting(o)
        OBVIOUS
      <3>2. Waiting(o) \in Seq(Thread)
        <4>1. current \in Thread /\ PeersOf(ready, prio, o) \in Seq(Thread)
          BY ListFacts, QueueIs
        <4>2. <<current>> \o PeersOf(ready, prio, o) \in Seq(Thread)
          BY <4>1
        <4>3. QED
          BY <4>1, <4>2, QueueIs
      <3>3. Len(q[o]) \in Nat /\ Len(q[o]) # 0 /\ DOMAIN q[o] = 1..Len(q[o])
        <4> HIDE DEF q
        <4>1. QED
          BY <1>3, <3>1, <3>2
      <3>4. 1 \in DOMAIN q[o]
        BY <3>3
      <3>5. QED
        BY <3>4 DEF ToSet
    <2>2. prio[x] = o /\ (x = current \/ x \in ToSet(ready))
      BY QueueIs
    <2>3. prio[current] >= prio[x]
      BY <2>2, ListFacts DEF ListInv
    <2>4. QED
      BY <1>1, <2>2, <2>3
  <1>4. QED
    BY <1>2, <1>3 DEF Queues!Highest

LEMMA NotRunnable ==
  ASSUME ListInv, NEW t \in Thread, t # current, t \notin ToSet(ready)
  PROVE  t \notin Queues!Runnable
  <1> DEFINE q == [o \in Level |-> Waiting(o)]
  <1>1. \A p \in Level : q[p] = Waiting(p)
    OBVIOUS
  <1>2. Queues!Runnable = UNION {ToSet(q[p]) : p \in Level}
    BY DEF Queues!Runnable, Queues!ToSet, ToSet
  <1> HIDE DEF q
  <1>3. ASSUME NEW p \in Level PROVE t \notin ToSet(q[p])
    BY <1>1, QueueIs
  <1>4. QED
    BY <1>2, <1>3

LEMMA AloneIs ==
  ASSUME NEW c \in Thread, NEW pr, NEW p
  PROVE  /\ Alone(c, pr, p) \in Seq(Thread)
         /\ pr[c] = p => Alone(c, pr, p) = <<c>>
         /\ pr[c] # p => Alone(c, pr, p) = <<>>
  BY DEF Alone

LEMMA ConcatAppend ==
  ASSUME NEW a \in Seq(Thread), NEW y \in Seq(Thread), NEW t \in Thread
  PROVE  a \o Append(y, t) = Append(a \o y, t)
  <1> DEFINE o == <<t>>
             z == a \o y
  <1>1. o \in Seq(Thread) /\ z \in Seq(Thread)
    OBVIOUS
  <1>2. Append(y, t) = y \o o /\ Append(z, t) = z \o o
    BY <1>1, AppendIsConcat
  <1> HIDE DEF o
  <1>3. a \o (y \o o) = (a \o y) \o o
    BY <1>1, ConcatAssociative
  <1>4. QED
    BY <1>2, <1>3 DEF z

\* Nothing that the queues are made of changes.
LEMMA QueuesStay ==
  ASSUME \A o \in Level : Waiting(o)' = Waiting(o)
  PROVE  UNCHANGED [o \in Level |-> Waiting(o)]
  OBVIOUS

\* chSchReadyI.
LEMMA ReadyIQueues ==
  ASSUME ListInv, NEW t \in Thread, state[t] \notin {"CURRENT", "READY"},
         ReadyI(t), prio' = prio
  PROVE  Queues!Wake(t, prio[t]) /\ prio[t] \in Level
  <1>1. /\ t # current /\ t \notin ToSet(ready) /\ prio[t] \in Level /\ current \in Thread
        /\ ready' = BehindPeers(t) /\ current' = current
    BY DEF ListInv, ReadyI
  <1>2. t \notin Queues!Runnable
    BY <1>1, NotRunnable
  <1>3. ASSUME NEW o \in Level
        PROVE  Waiting(o)' = IF o = prio[t] THEN Append(Waiting(o), t) ELSE Waiting(o)
    <2> DEFINE a == Alone(current, prio, o)
               y == PeersOf(ready, prio, o)
    <2>1. a \in Seq(Thread) /\ y \in Seq(Thread)
      BY <1>1, AloneIs, QueueIs
    <2>2. Waiting(o) = a \o y /\ Waiting(o)' = a \o PeersOf(BehindPeers(t), prio, o)
      BY <1>1, WaitingIs
    <2>3. PeersOf(BehindPeers(t), prio, o) = IF o = prio[t] THEN Append(y, t) ELSE y
      BY BehindPeersPeers
    <2> HIDE DEF a, y
    <2>4. a \o Append(y, t) = Append(a \o y, t)
      BY <2>1, ConcatAppend
    <2>5. QED
      BY <2>2, <2>3, <2>4
  <1>4. [o \in Level |-> Waiting(o)]'
            = [[o \in Level |-> Waiting(o)] EXCEPT ![prio[t]] = Append(@, t)]
    BY <1>1, <1>3
  <1>5. QED
    BY <1>1, <1>2, <1>4 DEF Queues!Wake

\* chSchGoSleepS.
LEMMA GoSleepQueues ==
  ASSUME ListInv, Calls, NEW s, NEW timed, GoSleep(s, timed)
  PROVE  Queues!Block(prio[current]) /\ prio[current] \in Level
  <1> DEFINE c == prio[current]
             h == Head(ready)
  <1>1. /\ current \in Thread /\ c \in Level /\ prio \in [Thread -> Level]
        /\ ready \in Seq(Thread) /\ IsInjective(ready) /\ Sorted(ready, prio)
    BY DEF ListInv
  <1>2. ready # <<>> /\ h \in Thread
    BY NextExists, HeadIs DEF Calls
  <1>3. current' = h /\ ready' = Tail(ready) /\ prio' = prio
    BY DEF GoSleep
  <1>4. ASSUME NEW o \in Level
        PROVE  Waiting(o)' = IF o = c THEN Tail(Waiting(o)) ELSE Waiting(o)
    <2>1. Waiting(o)' = Alone(h, prio, o) \o PeersOf(Tail(ready), prio, o)
      BY <1>3, WaitingIs
    <2>2. Sorted(Tail(ready), prio)
      BY <1>1, <1>2, TailKeeps
    <2>3. Waiting(o)' = PeersOf(ready, prio, o)
      BY <1>1, <1>2, <2>1, <2>2, HeadPeers
    <2>4. QED
      BY <2>3, QueueIs
  <1>5. Queues!Highest(c)
    BY CurrentIsHighest DEF Calls
  <1> HIDE DEF c, h
  <1>6. [o \in Level |-> Waiting(o)]'
            = [[o \in Level |-> Waiting(o)] EXCEPT ![c] = Tail(@)]
    BY <1>1, <1>4
  <1>7. QED
    BY <1>1, <1>5, <1>6 DEF Queues!Block, c

\* chSchWakeupS, the woken thread being above the running one.
LEMMA HandOverQueues ==
  ASSUME ListInv, ~isr, NEW t \in Thread, state[t] \notin {"CURRENT", "READY"},
         WakeupS(t), ~(prio[t] <= prio[current])
  PROVE  /\ Queues!HandOver(prio[current], t, prio[t])
         /\ prio[current] \in Level /\ prio[t] \in Level
  <1> DEFINE c == prio[current]
             v == prio[t]
  <1>1. /\ t # current /\ t \notin ToSet(ready) /\ current \in Thread /\ prio \in [Thread -> Level]
        /\ c \in Level /\ v \in Level
        /\ ready' = BehindPeers(current) /\ current' = t /\ prio' = prio
    BY DEF ListInv, WakeupS
  <1>2. t \notin Queues!Runnable
    BY <1>1, NotRunnable
  <1>3. Queues!Highest(c)
    BY CurrentIsHighest
  <1>4. c \in Nat /\ v \in Nat /\ v > c /\ v # c
    BY <1>1, ListFacts
  <1>5. PeersOf(ready, prio, v) = <<>>
    <2> DEFINE y == PeersOf(ready, prio, v)
    <2>1. y \in Seq(Thread) /\ \A x \in ToSet(y) : x \in ToSet(ready) /\ prio[x] = v
      BY <1>1, PeersAre DEF ListInv
    <2>2. \A x \in ToSet(ready) : c >= prio[x]
      BY DEF ListInv
    <2> HIDE DEF y
    <2>3. ToSet(y) = {}
      BY <1>4, <2>1, <2>2
    <2>4. 1 \notin DOMAIN y
      BY <2>3 DEF ToSet
    <2>5. y = <<>>
      BY <2>1, <2>4
    <2>6. QED
      BY <2>5 DEF y
  <1>6. ASSUME NEW o \in Level
        PROVE  Waiting(o)' = IF o = v THEN <<t>>
                             ELSE IF o = c THEN Append(Tail(Waiting(o)), Head(Waiting(o)))
                             ELSE Waiting(o)
    <2> DEFINE y == PeersOf(ready, prio, o)
               z == PeersOf(BehindPeers(current), prio, o)
    <2>1. Waiting(o)' = Alone(t, prio, o) \o z
      BY <1>1, WaitingIs
    <2>2. z = IF o = c THEN Append(y, current) ELSE y
      BY <1>1, BehindPeersPeers
    <2>3. y \in Seq(Thread)
      BY QueueIs
    <2> HIDE DEF y, z
    <2>4. CASE o = v
      <3>1. z = <<>>
        BY <1>4, <1>5, <2>2, <2>4 DEF y
      <3>2. Alone(t, prio, o) = <<t>>
        BY <2>4, AloneIs
      <3>3. QED
        BY <2>1, <2>4, <3>1, <3>2
    <2>5. CASE o # v
      <3>1. Alone(t, prio, o) = <<>>
        BY <2>5, AloneIs
      <3>2. z \in Seq(Thread)
        BY <1>1, <2>2, <2>3
      <3>3. Waiting(o)' = z
        BY <2>1, <3>1, <3>2
      <3>4. /\ o # c => Waiting(o) = y
            /\ o = c => Head(Waiting(o)) = current /\ Tail(Waiting(o)) = y
        BY QueueIs DEF y
      <3>5. QED
        BY <2>2, <2>5, <3>3, <3>4
    <2>6. QED
      BY <2>4, <2>5
  <1> HIDE DEF c, v
  <1>7. [o \in Level |-> Waiting(o)]'
            = [[o \in Level |-> Waiting(o)] EXCEPT ![c] = Append(Tail(@), Head(@)), ![v] = <<t>>]
    BY <1>1, <1>4, <1>6
  <1>8. QED
    BY <1>1, <1>2, <1>3, <1>4, <1>7 DEF Queues!HandOver, Queues!Rotated, c, v

LEMMA WakeupSQueues ==
  ASSUME ListInv, ~isr, NEW t \in Thread, state[t] \notin {"CURRENT", "READY"}, WakeupS(t)
  PROVE  Queues!Next
  <1>1. CASE prio[t] <= prio[current]
    <2>1. ReadyI(t) /\ prio' = prio
      BY <1>1 DEF WakeupS
    <2>2. Queues!Wake(t, prio[t]) /\ prio[t] \in Level
      BY <2>1, ReadyIQueues
    <2>3. QED
      BY <2>2 DEF Queues!Next
  <1>2. CASE ~(prio[t] <= prio[current])
    <2>1. /\ Queues!HandOver(prio[current], t, prio[t])
          /\ prio[current] \in Level /\ prio[t] \in Level
      BY <1>2, HandOverQueues
    <2>2. QED
      BY <2>1 DEF Queues!Next
  <1>3. QED
    BY <1>1, <1>2

\* chSchDoRescheduleBehind.
LEMMA YieldQueues ==
  ASSUME ListInv, Yield
  PROVE  Queues!Yield(prio[current]) /\ prio[current] \in Level
  <1> DEFINE c == prio[current]
             h == Head(ready)
             r == BehindPeers(current)
  <1>1. /\ current \in Thread /\ c \in Level /\ prio \in [Thread -> Level]
        /\ current \notin ToSet(ready)
    BY ListFacts DEF ListInv
  <1>2. ready # <<>> /\ h \in Thread
    BY NextExists, HeadIs DEF Yield, Calls
  <1>3. current' = h /\ ready' = Tail(r) /\ prio' = prio /\ prio[h] >= c
    BY DEF Yield
  <1>4. /\ r \in Seq(Thread) /\ IsInjective(r) /\ Sorted(r, prio)
        /\ r # <<>> /\ Head(r) = h
    BY <1>1, <1>2, <1>3, BehindPeersKeeps
  <1>5. Queues!Highest(c)
    BY CurrentIsHighest DEF Yield, Calls
  <1>6. \A o \in Level : PeersOf(r, prio, o) = IF o = c THEN Append(PeersOf(ready, prio, o), current)
                                                        ELSE PeersOf(ready, prio, o)
    BY <1>1, BehindPeersPeers
  <1> HIDE DEF c, h, r
  <1>7. Sorted(Tail(r), prio)
    BY <1>1, <1>4, TailKeeps
  <1>8. ASSUME NEW o \in Level
        PROVE  Waiting(o)' = IF o = c THEN Append(Tail(Waiting(o)), Head(Waiting(o)))
                             ELSE Waiting(o)
    <2>1. Waiting(o)' = Alone(h, prio, o) \o PeersOf(Tail(r), prio, o)
      BY <1>3, WaitingIs
    <2>2. PeersOf(r, prio, o) = Alone(h, prio, o) \o PeersOf(Tail(r), prio, o)
      BY <1>1, <1>4, <1>7, HeadPeers
    <2>3. /\ o # c => Waiting(o) = PeersOf(ready, prio, o)
          /\ o = c => Head(Waiting(o)) = current /\ Tail(Waiting(o)) = PeersOf(ready, prio, o)
      BY QueueIs DEF c
    <2>4. QED
      BY <1>6, <2>1, <2>2, <2>3
  <1>9. [o \in Level |-> Waiting(o)]'
            = [[o \in Level |-> Waiting(o)] EXCEPT ![c] = Append(Tail(@), Head(@))]
    BY <1>1, <1>8
  <1>10. QED
    BY <1>1, <1>5, <1>9 DEF Queues!Yield, Queues!Rotated, c

\* chSchRescheduleS: whether it switches or not, the queues only follow the
\* running thread to its new priority.
LEMMA RescheduleSQueues ==
  ASSUME ListInv, NEW p \in Level, RescheduleS(p), prio' = [prio EXCEPT ![current] = p],
         NEW o \in Level
  PROVE  Waiting(o)' = IF o = p THEN <<current>> \o PeersOf(ready, prio, o)
                                ELSE PeersOf(ready, prio, o)
  <1> DEFINE h == Head(ready)
             c == current
             y == PeersOf(ready, prio, o)
             z == PeersOf(Tail(ready), prio, o)
  <1>1. /\ c \in Thread /\ c \notin ToSet(ready) /\ ToSet(ready) \subseteq Thread
        /\ prio \in [Thread -> Level] /\ p \in Nat
        /\ ready \in Seq(Thread) /\ IsInjective(ready) /\ Sorted(ready, prio)
    BY ListFacts, ChKernelAssumption DEF ListInv
  <1>2. prio' \in [Thread -> Level] /\ prio'[c] = p /\ \A x \in Thread \ {c} : prio'[x] = prio[x]
    BY <1>1
  <1>3. y \in Seq(Thread)
    BY QueueIs
  <1>4. CASE FirstPrio > p
    <2>1. ready # <<>> /\ prio[h] > p
      BY <1>1, <1>4 DEF FirstPrio
    <2>2. h \in Thread /\ h # c
      BY <2>1, HeadIs
    <2>3. current' = h /\ ready' = AheadOfPeers(c, p)
      BY <1>4 DEF RescheduleS
    <2>4. Waiting(o)' = Alone(h, prio', o) \o PeersOf(AheadOfPeers(c, p), prio', o)
      BY <2>3, WaitingIs
    <2>5. PeersOf(AheadOfPeers(c, p), prio', o) = IF o = p THEN <<c>> \o z ELSE z
      <3> DEFINE pr == prio'
      <3>1. /\ pr \in [Thread -> Level] /\ pr[c] = p /\ \A x \in Thread \ {c} : pr[x] = prio[x]
            /\ c \in Thread /\ c \notin ToSet(ready) /\ ready # <<>>
        BY <1>1, <1>2, <2>1
      <3> HIDE DEF pr
      <3>2. PeersOf(AheadOfPeers(c, p), pr, o) = IF o = p THEN <<c>> \o z ELSE z
        BY <3>1, AheadOfPeersPeers
      <3>3. QED
        BY <3>2 DEF pr
    <2>6. Sorted(Tail(ready), prio)
      BY <1>1, <2>1, TailKeeps
    <2>7. y = Alone(h, prio, o) \o z
      BY <1>1, <2>1, <2>6, HeadPeers
    <2>8. Alone(h, prio', o) = Alone(h, prio, o)
      BY <1>2, <2>2 DEF Alone
    <2>9. Tail(ready) \in Seq(Thread)
      BY <1>1, <2>1
    <2>10. z \in Seq(Thread)
      <3>1. PeersOf(Tail(ready), prio, o) \in Seq(Thread)
        BY <1>1, <2>6, <2>9, PeersAre
      <3>2. QED
        BY <3>1
    <2>11. prio[h] \in Nat
      BY <2>2, ListFacts
    <2> HIDE DEF y, z, h, c
    <2>12. CASE o = p
      <3>1. Alone(h, prio, o) = <<>>
        BY <1>1, <2>1, <2>2, <2>11, <2>12, AloneIs
      <3>2. y = z
        BY <2>7, <2>10, <3>1
      <3>3. <<>> \o (<<c>> \o z) = <<c>> \o z
        BY <1>1, <2>10
      <3>4. Waiting(o)' = <<c>> \o y
        BY <2>4, <2>5, <2>8, <2>12, <3>1, <3>2, <3>3
      <3>5. QED
        BY <2>12, <3>4 DEF y, c
    <2>13. CASE o # p
      BY <2>4, <2>5, <2>7, <2>8, <2>13 DEF y
    <2>14. QED
      BY <2>12, <2>13
  <1>5. CASE ~(FirstPrio > p)
    <2>1. current' = c /\ ready' = ready
      BY <1>5 DEF RescheduleS, lists
    <2>2. Waiting(o)' = Alone(c, prio', o) \o PeersOf(ready, prio', o)
      BY <2>1, WaitingIs
    <2>3. \A x \in ToSet(ready) : prio'[x] = prio[x]
      BY <1>1, <1>2
    <2>4. PeersOf(ready, prio', o) = y
      <3> DEFINE pr == prio'
      <3>1. pr \in [Thread -> Level] /\ \A x \in ToSet(ready) : pr[x] = prio[x]
        BY <1>2, <2>3
      <3>2. ready \in Seq(Thread) /\ prio \in [Thread -> Level] /\ Sorted(ready, prio)
        BY <1>1
      <3> HIDE DEF pr
      <3>3. PeersOf(ready, pr, o) = PeersOf(ready, prio, o)
        BY <3>1, <3>2, SamePeers
      <3>4. QED
        BY <3>3 DEF pr
    <2>5. Alone(c, prio', o) = IF o = p THEN <<c>> ELSE <<>>
      BY <1>2 DEF Alone
    <2> HIDE DEF y, c
    <2>6. <<>> \o y = y
      BY <1>3
    <2>7. QED
      BY <2>2, <2>4, <2>5, <2>6 DEF y, c
  <1>6. QED
    BY <1>4, <1>5

LEMMA SetPriorityQueues ==
  ASSUME ListInv, NEW p \in Level, SetPriority(p)
  PROVE  Queues!SetLevel(prio[current], p) /\ prio[current] \in Level
  <1> DEFINE c == prio[current]
  <1>1. c \in Level /\ p # c
    BY DEF ListInv, SetPriority
  <1>2. Queues!Highest(c)
    BY CurrentIsHighest DEF SetPriority, Calls
  <1>3. RescheduleS(p) /\ prio' = [prio EXCEPT ![current] = p]
    BY DEF SetPriority
  <1>4. \A o \in Level : Waiting(o)' = IF o = p THEN <<current>> \o PeersOf(ready, prio, o)
                                                ELSE PeersOf(ready, prio, o)
    BY <1>3, RescheduleSQueues
  <1>5. \A o \in Level : /\ o # c => Waiting(o) = PeersOf(ready, prio, o)
                         /\ o = c => /\ Head(Waiting(o)) = current
                                     /\ Tail(Waiting(o)) = PeersOf(ready, prio, o)
    BY QueueIs
  <1> HIDE DEF c
  <1> DEFINE q == [o \in Level |-> Waiting(o)]
  <1>6. q' = [q EXCEPT ![c] = Tail(@), ![p] = <<Head(q[c])>> \o @]
    BY <1>1, <1>4, <1>5
  <1>7. QED
    BY <1>1, <1>2, <1>6 DEF Queues!SetLevel, c

LEMMA IsrExitQueues ==
  ASSUME ListInv, IsrExit
  PROVE  UNCHANGED [o \in Level |-> Waiting(o)]
  <1> DEFINE c == prio[current]
  <1>1. c \in Level /\ RescheduleS(c) /\ prio' = [prio EXCEPT ![current] = c]
    BY DEF ListInv, IsrExit
  <1>2. ASSUME NEW o \in Level PROVE Waiting(o)' = Waiting(o)
    <2>1. Waiting(o)' = IF o = c THEN <<current>> \o PeersOf(ready, prio, o)
                                 ELSE PeersOf(ready, prio, o)
      BY <1>1, RescheduleSQueues
    <2>2. QED
      BY <2>1, QueueIs
  <1>3. QED
    BY <1>2, QueuesStay

LEMMA InitQueues == Init => Queues!Init
  <1> SUFFICES ASSUME Init PROVE Queues!Init
    OBVIOUS
  <1>1. /\ Main \in Thread /\ Idle \in Thread /\ Main # Idle
        /\ Priority \in [Thread -> Level] /\ Level \subseteq Nat
        /\ Priority[Main] > Priority[Idle] /\ Priority[Main] \in Nat /\ Priority[Idle] \in Nat
    BY ChKernelAssumption
  <1>2. current = Main /\ ready = <<Idle>> /\ prio = Priority
    BY DEF Init
  <1>3. ASSUME NEW p \in Level
        PROVE  Waiting(p) = CASE p = Priority[Main] -> <<Main>>
                              [] p = Priority[Idle] -> <<Idle>>
                              [] OTHER -> <<>>
    <2> DEFINE s == <<Idle>>
    <2>1. /\ s \in Seq(Thread) /\ s # <<>> /\ Head(s) = Idle /\ Tail(s) = <<>>
          /\ Len(s) = 1 /\ DOMAIN s = 1..1
      BY <1>1
    <2> DEFINE e == Tail(s)
    <2>2. e \in Seq(Thread) /\ Len(e) = 0 /\ DOMAIN e = {}
      BY <2>1
    <2>3. Sorted(s, Priority) /\ Sorted(e, Priority)
      <3>1. \A i, j \in DOMAIN s : ~(i < j)
        BY <2>1
      <3>2. QED
        BY <2>2, <3>1 DEF Sorted
    <2> HIDE DEF s
    <2>4. PeersOf(s, Priority, p) = Alone(Head(s), Priority, p) \o PeersOf(Tail(s), Priority, p)
      BY <1>1, <2>1, <2>3, HeadPeers
    <2> HIDE DEF e
    <2>5. PeersOf(e, Priority, p) \in Seq(Thread) /\ ToSet(PeersOf(e, Priority, p)) = {}
      <3>1. PeersOf(e, Priority, p) \in Seq(Thread)
            /\ \A x \in ToSet(PeersOf(e, Priority, p)) : x \in ToSet(e)
        BY <1>1, <2>2, <2>3, PeersAre
      <3>2. ToSet(e) = {}
        BY <2>2 DEF ToSet
      <3>3. QED
        BY <3>1, <3>2
    <2> DEFINE w == PeersOf(e, Priority, p)
               a == Alone(Idle, Priority, p)
    <2> HIDE DEF w, a
    <2>6. w = <<>>
      <3>1. w \in Seq(Thread) /\ 1 \notin DOMAIN w
        BY <2>5 DEF ToSet, w
      <3>2. QED
        BY <3>1
    <2>7. PeersOf(s, Priority, p) = a
      <3>1. a \in Seq(Thread)
        BY <1>1, AloneIs DEF a
      <3>2. PeersOf(s, Priority, p) = a \o w
        BY <2>1, <2>4 DEF a, w, e
      <3>3. QED
        BY <2>6, <3>1, <3>2
    <2>8. Waiting(p) = Alone(Main, Priority, p) \o a
      BY <1>2, <2>7, WaitingIs DEF s
    <2>9. CASE p = Priority[Main]
      <3>1. Alone(Main, Priority, p) = <<Main>> /\ a = <<>>
        BY <1>1, <2>9, AloneIs DEF a
      <3>2. QED
        BY <1>1, <2>8, <2>9, <3>1
    <2>10. CASE p = Priority[Idle]
      <3>1. Alone(Main, Priority, p) = <<>> /\ a = <<Idle>>
        BY <1>1, <2>10, AloneIs DEF a
      <3>2. p # Priority[Main]
        BY <1>1, <2>10
      <3>3. QED
        BY <1>1, <2>8, <2>10, <3>1, <3>2
    <2>11. CASE p # Priority[Main] /\ p # Priority[Idle]
      <3>1. Alone(Main, Priority, p) = <<>> /\ a = <<>>
        BY <1>1, <2>11, AloneIs DEF a
      <3>2. QED
        BY <2>8, <2>11, <3>1
    <2>12. QED
      BY <2>9, <2>10, <2>11
  <1>4. QED
    BY <1>3 DEF Queues!Init

LEMMA NextQueues ==
  IInv /\ [Next]_vars => [Queues!Next]_([p \in Level |-> Waiting(p)])
  <1> DEFINE q == [p \in Level |-> Waiting(p)]
  <1> SUFFICES ASSUME ListInv, WaitInv, [Next]_vars PROVE Queues!Next \/ q' = q
    BY DEF IInv
  <1>1. ASSUME NEW r \in Ref, ref[r] # NULL
        PROVE  ref[r] \in Thread /\ state[ref[r]] \notin {"CURRENT", "READY"}
    BY <1>1 DEF WaitInv, WaitsConsistent
  <1>2. ASSUME UNCHANGED <<current, ready, prio>> PROVE q' = q
    <2>1. \A o \in Level : Waiting(o)' = Waiting(o)
      BY <1>2, WaitingIs
    <2>2. QED
      BY <2>1, QueuesStay
  <1>3. ASSUME NEW s, NEW timed, Calls, GoSleep(s, timed) PROVE Queues!Next
    <2>1. Queues!Block(prio[current]) /\ prio[current] \in Level
      BY <1>3, GoSleepQueues
    <2>2. QED
      BY <2>1 DEF Queues!Next
  <1>4. ASSUME NEW t \in Thread, state[t] \notin {"CURRENT", "READY"}, ReadyI(t), prio' = prio
        PROVE  Queues!Next
    <2>1. Queues!Wake(t, prio[t]) /\ prio[t] \in Level
      BY <1>4, ReadyIQueues
    <2>2. QED
      BY <2>1 DEF Queues!Next
  <1>5. CASE Sleep
    BY <1>3, <1>5 DEF Sleep
  <1>6. CASE Exit
    BY <1>3, <1>6 DEF Exit
  <1>7. ASSUME NEW r \in Ref, NEW timed \in BOOLEAN, Suspend(r, timed) PROVE Queues!Next
    BY <1>3, <1>7 DEF Suspend
  <1>8. ASSUME NEW r \in Ref, ResumeS(r) PROVE Queues!Next
    <2>1. ~isr /\ ref[r] # NULL /\ WakeupS(ref[r])
      BY <1>8 DEF ResumeS, Calls
    <2>2. QED
      BY <1>1, <2>1, WakeupSQueues
  <1>9. ASSUME NEW r \in Ref, ResumeI(r) PROVE Queues!Next
    <2>1. ref[r] # NULL /\ ReadyI(ref[r]) /\ prio' = prio
      BY <1>9 DEF ResumeI
    <2>2. QED
      BY <1>1, <1>4, <2>1
  <1>10. ASSUME NEW t \in Thread, CreateStatic(t) PROVE Queues!Next
    <2>1. ~isr /\ state[t] = "WTSTART" /\ WakeupS(t)
      BY <1>10 DEF CreateStatic, Calls
    <2>2. QED
      BY <2>1, WakeupSQueues
  <1>11. CASE Yield
    <2>1. Queues!Yield(prio[current]) /\ prio[current] \in Level
      BY <1>11, YieldQueues
    <2>2. QED
      BY <2>1 DEF Queues!Next
  <1>12. ASSUME NEW p \in Level, SetPriority(p) PROVE Queues!Next
    <2>1. Queues!SetLevel(prio[current], p) /\ prio[current] \in Level
      BY <1>12, SetPriorityQueues
    <2>2. QED
      BY <2>1 DEF Queues!Next
  <1>13. CASE IsrEnter
    <2>1. UNCHANGED <<current, ready, prio>>
      BY <1>13 DEF IsrEnter, lists
    <2>2. QED
      BY <1>2, <2>1
  <1>14. ASSUME NEW t \in Thread, TimerFires(t) PROVE q' = q
    <2>1. UNCHANGED <<current, ready, prio>>
      BY <1>14 DEF TimerFires, lists
    <2>2. QED
      BY <1>2, <2>1
  <1>15. CASE Wakeup
    <2>1. firing \in Thread /\ prio' = prio
      BY <1>15 DEF Wakeup, WaitInv
    <2>2. CASE state[firing] = "READY"
      <3>1. UNCHANGED <<current, ready, prio>>
        BY <1>15, <2>1, <2>2 DEF Wakeup, AlreadyReady, lists
      <3>2. QED
        BY <1>2, <3>1
    <2>3. CASE state[firing] # "READY"
      <3>1. ReadyI(firing)
        BY <1>15, <2>3 DEF Wakeup, AlreadyReady
      <3>2. state[firing] \in {"SUSPENDED", "SLEEPING"}
        BY <2>1, <2>3 DEF WaitInv, WaitsConsistent
      <3>3. state[firing] \notin {"CURRENT", "READY"}
        BY <3>2
      <3>4. QED
        BY <1>4, <2>1, <3>1, <3>3
    <2>4. QED
      BY <2>2, <2>3
  <1>16. CASE IsrExit
    BY <1>16, IsrExitQueues
  <1>17. CASE UNCHANGED vars
    <2>1. UNCHANGED <<current, ready, prio>>
      BY <1>17 DEF vars, lists
    <2>2. QED
      BY <1>2, <2>1
  <1> HIDE DEF q
  <1>18. CASE \E r \in Ref : \/ \E timed \in BOOLEAN : Suspend(r, timed)
                             \/ ResumeS(r) \/ Post(r) \/ IsrResumeI(r)
    <2>1. PICK r \in Ref : \/ \E timed \in BOOLEAN : Suspend(r, timed)
                           \/ ResumeS(r) \/ Post(r) \/ IsrResumeI(r)
      BY <1>18
    <2>2. CASE Post(r) \/ IsrResumeI(r)
      BY <1>9, <2>2 DEF Post, IsrResumeI
    <2>3. QED
      BY <1>7, <1>8, <2>1, <2>2
  <1>19. QED
    BY <1>5, <1>6, <1>10, <1>11, <1>12, <1>13, <1>14, <1>15, <1>16, <1>17, <1>18 DEF Next

\* The ready list behaves as one first-come queue per priority, for any threads
\* and priorities: chSchReadyI puts a thread behind its peers, a preempted one
\* keeps its place, and one that hands over to a thread above it goes last.
THEOREM ImplementsQueues == Spec => QueuesSpec
  <1>1. Init => Queues!Init
    BY InitQueues
  <1>2. IInv /\ [Next]_vars => [Queues!Next]_([p \in Level |-> Waiting(p)])
    BY NextQueues
  <1>3. QED
    BY <1>1, <1>2, InductiveInvariant, PTL DEF Spec, QueuesSpec, Queues!Spec

\* A queue is a sequence of threads.
LEMMA QueueSeq ==
  ASSUME ListInv, NEW p \in Level
  PROVE  Waiting(p) \in Seq(Thread)
  <1> DEFINE y == PeersOf(ready, prio, p)
             c == current
  <1>1. y \in Seq(Thread) /\ c \in Thread
    BY QueueIs, ListFacts
  <1>2. Waiting(p) = y \/ Waiting(p) = <<c>> \o y
    BY QueueIs
  <1> HIDE DEF y, c
  <1>3. <<c>> \o y \in Seq(Thread)
    BY <1>1
  <1>4. QED
    BY <1>1, <1>2, <1>3

\* Who has the turn, in terms of the queues; the running thread always has it.
LEMMA TurnIs ==
  ASSUME ListInv, NEW t \in Thread, HasTurn(t), NEW p, p = prio[t]
  PROVE  /\ p \in Level /\ Waiting(p) \in Seq(Thread) /\ Waiting(p) # <<>> /\ Head(Waiting(p)) = t
         /\ t # current => p # prio[current]
  <1>1. p \in Level
    BY DEF ListInv
  <1>2. Waiting(p) # <<>> /\ Head(Waiting(p)) = t
    BY DEF HasTurn
  <1>3. p = prio[current] => Head(Waiting(p)) = current
    BY <1>1, QueueIs
  <1>4. QED
    BY <1>1, <1>2, <1>3, QueueSeq

\* A queue that did not change, or got a thread at its end, has the same head.
LEMMA TurnStays ==
  ASSUME ListInv, NEW t \in Thread, HasTurn(t), prio'[t] = prio[t], NEW p, p = prio[t],
         Waiting(p)' = Waiting(p) \/ \E x \in Thread : Waiting(p)' = Append(Waiting(p), x)
  PROVE  HasTurn(t)'
  <1> DEFINE w == Waiting(p)
  <1>1. w \in Seq(Thread) /\ w # <<>> /\ Head(w) = t
    BY TurnIs
  <1> HIDE DEF w
  <1>2. ASSUME NEW x \in Thread PROVE Append(w, x) # <<>> /\ Head(Append(w, x)) = t
    BY <1>1
  <1>3. Waiting(p)' # <<>> /\ Head(Waiting(p)') = t
    BY <1>1, <1>2 DEF w
  <1>4. Waiting(prio[t])' = Waiting(p)'
    OBVIOUS
  <1>5. QED
    BY <1>3, <1>4 DEF HasTurn

\* A step of the queues that leaves the turns alone: a thread becomes runnable.
LEMMA WakeKeepsTurn ==
  ASSUME ListInv, NEW x \in Thread, state[x] \notin {"CURRENT", "READY"}, ReadyI(x), prio' = prio,
         NEW t \in Thread, HasTurn(t)
  PROVE  HasTurn(t)'
  <1> DEFINE q == [o \in Level |-> Waiting(o)]
             p == prio[t]
  <1>1. Queues!Wake(x, prio[x]) /\ prio[x] \in Level
    BY ReadyIQueues
  <1>2. q' = [q EXCEPT ![prio[x]] = Append(@, x)]
    BY <1>1 DEF Queues!Wake
  <1>3. p \in Level
    BY DEF ListInv
  <1>4. q[p] = Waiting(p)
    BY <1>3
  <1>5. \A o \in Level : q'[o] = Waiting(o)'
    OBVIOUS
  <1> DEFINE v == q'
  <1>6. v[p] = IF p = prio[x] THEN Append(q[p], x) ELSE q[p]
    <2>1. DOMAIN q = Level
      OBVIOUS
    <2> HIDE DEF q, p
    <2>2. QED
      BY <1>1, <1>2, <1>3, <2>1
  <1>7. ASSUME NEW o \in Level, o = p
        PROVE  Waiting(o)' = Waiting(o) \/ Waiting(o)' = Append(Waiting(o), x)
    <2>1. v[o] = Waiting(o)'
      BY <1>5
    <2> HIDE DEF v, q, p
    <2>2. QED
      BY <1>4, <1>6, <1>7, <2>1
  <1>8. PICK o \in Level : o = p
    BY <1>3
  <1>9. QED
    BY <1>7, <1>8, TurnStays

\* The current thread gives its turn away; a thread of another priority, that does
\* not get one to it, keeps its own.
LEMMA OthersKeepTurn ==
  ASSUME ListInv, prio' = prio, NEW t \in Thread, HasTurn(t), t # current,
         \/ Queues!Block(prio[current])
         \/ Queues!Yield(prio[current])
         \/ \E x \in Thread : Queues!HandOver(prio[current], x, prio[x])
  PROVE  HasTurn(t)'
  <1> DEFINE q == [o \in Level |-> Waiting(o)]
             c == prio[current]
  <1>1. PICK p : p = prio[t]
    OBVIOUS
  <1>2. p \in Level /\ p # c /\ Waiting(p) # <<>>
    BY <1>1, TurnIs
  <1>3. q[p] = Waiting(p) /\ q'[p] = Waiting(p)'
    BY <1>2
  <1> DEFINE v == q'
  <1>4. DOMAIN q = Level
    OBVIOUS
  <1>5. v[p] = q[p]
    <2>1. CASE Queues!Block(prio[current])
      <3>1. v = [q EXCEPT ![c] = Tail(@)]
        BY <2>1 DEF Queues!Block
      <3> HIDE DEF v, q, c
      <3>2. QED
        BY <1>2, <1>4, <3>1
    <2>2. CASE Queues!Yield(prio[current])
      <3>1. v = [q EXCEPT ![c] = Queues!Rotated(@)]
        BY <2>2 DEF Queues!Yield
      <3> HIDE DEF v, q, c
      <3>2. QED
        BY <1>2, <1>4, <3>1
    <2>3. ASSUME NEW x \in Thread, Queues!HandOver(prio[current], x, prio[x]) PROVE v[p] = q[p]
      <3>1. v = [q EXCEPT ![c] = Queues!Rotated(@), ![prio[x]] = <<x>>]
        BY <2>3 DEF Queues!HandOver
      <3>2. Queues!Highest(c) /\ prio[x] > c /\ prio[x] \in Level /\ c \in Level /\ Level \subseteq Nat
        BY <2>3, ChKernelAssumption DEF Queues!HandOver, ListInv
      <3>3. \A o \in Level : q[o] # <<>> => o <= c
        BY <3>2 DEF Queues!Highest
      <3>4. p # prio[x]
        <4>1. p <= c
          <5> HIDE DEF q, c
          <5>1. QED
            BY <1>2, <1>3, <3>3
        <4>2. p \in Nat /\ c \in Nat /\ prio[x] \in Nat
          BY <1>2, <3>2
        <4> HIDE DEF c
        <4>3. QED
          BY <3>2, <4>1, <4>2
      <3> HIDE DEF v, q, c
      <3>5. QED
        BY <1>2, <1>4, <3>1, <3>4
    <2>4. QED
      BY <2>1, <2>2, <2>3
  <1>6. Waiting(p)' = Waiting(p)
    BY <1>3, <1>5
  <1>7. QED
    BY <1>1, <1>6, TurnStays

\* A thread that changes its priority goes ahead of its new peers, and keeps its turn;
\* nobody else's is touched but that of the first of them.
LEMMA SetPriorityTurns ==
  ASSUME ListInv, NEW o \in Level, SetPriority(o), NEW t \in Thread, HasTurn(t)
  PROVE  HasTurn(t)' \/ (t # current /\ SetPriority(prio[t]))
  <1>1. /\ RescheduleS(o) /\ prio' = [prio EXCEPT ![current] = o]
        /\ prio \in [Thread -> Level] /\ current \in Thread
    BY ListFacts DEF SetPriority, ListInv
  <1>2. \A p \in Level : Waiting(p)' = IF p = o THEN <<current>> \o PeersOf(ready, prio, p)
                                                ELSE PeersOf(ready, prio, p)
    BY <1>1, RescheduleSQueues
  <1>3. CASE t = current
    <2> DEFINE y == PeersOf(ready, prio, o)
    <2>1. y \in Seq(Thread)
      BY QueueIs
    <2>2. Waiting(o)' = <<t>> \o y
      BY <1>2, <1>3
    <2> HIDE DEF y
    <2>3. Waiting(o)' # <<>> /\ Head(Waiting(o)') = t
      BY <2>1, <2>2
    <2>4. prio'[t] = o
      BY <1>1, <1>3
    <2>5. Waiting(prio[t])' = Waiting(o)'
      BY <2>4
    <2>6. QED
      BY <2>3, <2>5 DEF HasTurn
  <1>4. CASE t # current /\ prio[t] # o
    <2>1. PICK p : p = prio[t]
      OBVIOUS
    <2>2. p \in Level /\ p # prio[current] /\ p # o /\ prio'[t] = prio[t]
      BY <1>1, <1>4, <2>1, TurnIs
    <2>3. Waiting(p)' = Waiting(p)
      BY <1>2, <2>2, QueueIs
    <2>4. QED
      BY <2>1, <2>2, <2>3, TurnStays
  <1>5. QED
    BY <1>3, <1>4

\* No step takes a thread's turn, for any threads and priorities: an interrupt may
\* take the processor from it, for a thread above it, but not its place before its
\* peers.
LEMMA NextKeepsTurn ==
  ASSUME IInv, Next, NEW t \in Thread, HasTurn(t), ~(t = current /\ GivesUp),
         ~(t # current /\ SetPriority(prio[t]))
  PROVE  HasTurn(t)'
  <1>1. ListInv /\ WaitInv
    BY DEF IInv
  <1>2. ASSUME NEW r \in Ref, ref[r] # NULL
        PROVE  ref[r] \in Thread /\ state[ref[r]] \notin {"CURRENT", "READY"}
    BY <1>1, <1>2 DEF WaitInv, WaitsConsistent
  <1>3. ASSUME UNCHANGED <<current, ready, prio>> PROVE HasTurn(t)'
    <2>1. PICK p : p = prio[t]
      OBVIOUS
    <2>2. Waiting(p)' = Waiting(p) /\ prio'[t] = prio[t]
      BY <1>3, WaitingIs
    <2>3. QED
      BY <1>1, <2>1, <2>2, TurnStays
  <1>4. ASSUME NEW s, NEW timed, Calls, GoSleep(s, timed), t # current PROVE HasTurn(t)'
    <2>1. Queues!Block(prio[current]) /\ prio' = prio
      BY <1>1, <1>4, GoSleepQueues DEF GoSleep
    <2>2. QED
      BY <1>1, <1>4, <2>1, OthersKeepTurn
  <1>5. ASSUME NEW x \in Thread, state[x] \notin {"CURRENT", "READY"}, ~isr, WakeupS(x),
               t = current => ~(prio[x] > prio[current])
        PROVE  HasTurn(t)'
    <2>1. prio[x] \in Nat /\ prio[current] \in Nat /\ prio' = prio
      BY <1>1, <1>5, ListFacts DEF WakeupS
    <2>2. CASE prio[x] <= prio[current]
      <3>1. ReadyI(x)
        BY <1>5, <2>2 DEF WakeupS
      <3>2. QED
        BY <1>1, <1>5, <2>1, <3>1, WakeKeepsTurn
    <2>3. CASE ~(prio[x] <= prio[current])
      <3>1. t # current
        BY <1>5, <2>1, <2>3
      <3>2. Queues!HandOver(prio[current], x, prio[x])
        BY <1>1, <1>5, <2>3, HandOverQueues
      <3>3. QED
        BY <1>1, <2>1, <3>1, <3>2, OthersKeepTurn
    <2>4. QED
      BY <2>2, <2>3
  <1>6. CASE Sleep \/ Exit
    BY <1>4, <1>6 DEF GivesUp, Sleep, Exit
  <1>7. CASE Yield
    <2>1. t # current /\ prio' = prio
      BY <1>7 DEF GivesUp, Yield
    <2>2. Queues!Yield(prio[current])
      BY <1>1, <1>7, YieldQueues
    <2>3. QED
      BY <1>1, <2>1, <2>2, OthersKeepTurn
  <1>8. ASSUME NEW r \in Ref, NEW timed \in BOOLEAN, Suspend(r, timed) PROVE HasTurn(t)'
    BY <1>4, <1>8 DEF GivesUp, Suspend
  <1>9. ASSUME NEW r \in Ref, ResumeS(r) PROVE HasTurn(t)'
    <2>1. ~isr /\ ref[r] # NULL /\ WakeupS(ref[r])
      BY <1>9 DEF ResumeS, Calls
    <2>2. t = current => ~(prio[ref[r]] > prio[current])
      BY <1>9 DEF GivesUp
    <2>3. QED
      BY <1>2, <1>5, <2>1, <2>2
  <1>10. ASSUME NEW r \in Ref, ResumeI(r) PROVE HasTurn(t)'
    <2>1. ref[r] # NULL /\ ReadyI(ref[r]) /\ prio' = prio
      BY <1>10 DEF ResumeI
    <2>2. QED
      BY <1>1, <1>2, <2>1, WakeKeepsTurn
  <1>11. ASSUME NEW x \in Thread, CreateStatic(x) PROVE HasTurn(t)'
    <2>1. ~isr /\ state[x] = "WTSTART" /\ WakeupS(x)
      BY <1>11 DEF CreateStatic, Calls
    <2>2. t = current => ~(prio[x] > prio[current])
      BY <1>11 DEF GivesUp
    <2>3. QED
      BY <1>5, <2>1, <2>2
  <1>12. ASSUME NEW o \in Level, SetPriority(o) PROVE HasTurn(t)'
    BY <1>1, <1>12, SetPriorityTurns
  <1>13. CASE Wakeup
    <2>1. firing \in Thread /\ prio' = prio
      BY <1>1, <1>13 DEF Wakeup, WaitInv
    <2>2. CASE state[firing] = "READY"
      BY <1>3, <1>13, <2>1, <2>2 DEF Wakeup, AlreadyReady, lists
    <2>3. CASE state[firing] # "READY"
      <3>1. ReadyI(firing)
        BY <1>13, <2>3 DEF Wakeup, AlreadyReady
      <3>2. state[firing] \notin {"CURRENT", "READY"}
        BY <1>1, <2>1, <2>3 DEF WaitInv, WaitsConsistent
      <3>3. QED
        BY <1>1, <2>1, <3>1, <3>2, WakeKeepsTurn
    <2>4. QED
      BY <2>2, <2>3
  <1>14. CASE IsrExit
    <2>1. PICK p : p = prio[t]
      OBVIOUS
    <2>2. p \in Level /\ prio'[t] = prio[t]
      BY <1>1, <1>14, <2>1, TurnIs DEF IsrExit
    <2>3. UNCHANGED [o \in Level |-> Waiting(o)]
      BY <1>1, <1>14, IsrExitQueues
    <2>4. Waiting(p)' = Waiting(p)
      <3> DEFINE q == [o \in Level |-> Waiting(o)]
      <3>1. q[p] = Waiting(p) /\ q'[p] = Waiting(p)'
        BY <2>2
      <3>2. QED
        BY <2>3, <3>1
    <2>5. QED
      BY <1>1, <2>1, <2>2, <2>4, TurnStays
  <1>15. CASE IsrEnter \/ \E x \in Thread : TimerFires(x)
    BY <1>3, <1>15 DEF IsrEnter, TimerFires, lists
  <1>16. CASE \E r \in Ref : \/ \E timed \in BOOLEAN : Suspend(r, timed)
                             \/ ResumeS(r) \/ Post(r) \/ IsrResumeI(r)
    BY <1>8, <1>9, <1>10, <1>16 DEF Post, IsrResumeI
  <1>17. QED
    BY <1>6, <1>7, <1>11, <1>12, <1>13, <1>14, <1>15, <1>16 DEF Next

\* Threads of one priority can share variables without a lock: nothing that
\* interrupts or other threads do lets a peer run between two pieces of a thread's
\* work (chschd.c:chSchRescheduleS, chSchDoRescheduleAhead), for any threads and
\* priorities.
THEOREM TurnAlwaysKept == Spec => TurnKept
  <1>1. IInv /\ [Next]_vars
            => [\A t \in Thread : HasTurn(t) => \/ HasTurn(t)'
                                                \/ t = current /\ GivesUp
                                                \/ t # current /\ SetPriority(prio[t])]_vars
    BY NextKeepsTurn
  <1>2. QED
    BY <1>1, InductiveInvariant, PTL DEF Spec, TurnKept
============================================================================
