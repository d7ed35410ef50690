------------------------ MODULE VirtualTimers_proofs ------------------------
(***************************************************************************)
(* Proofs about the delta list for every width of the counter, every       *)
(* TIMEDELTA and latency and any number of timers: for every application   *)
(* up to a wrapped sum that the code misses, and without end for those     *)
(* with short delays, where it misses none.                                *)
(***************************************************************************)
EXTENDS VirtualTimers, SequenceTheorems, WellFoundedInduction, TLAPS

\* The bound of the delays of application u.
LongestDelay(u) == u.longest

\* The time that the list is behind.
Elapsed == Mod(now - lasttime)

\* A list of timers l with deltas dl agrees with the times left lf, n ticks after
\* its base.
Times(l, dl, lf, n) ==
    /\ dl \in [Timer -> 0..(Modulus - 1)] /\ lf \in [Timer -> Int \cup {Off}]
    /\ l \in Seq(Timer)
    /\ \A t \in Timer : lf[t] # Off <=> \E j \in DOMAIN l : l[j] = t
    /\ \A j, k \in DOMAIN l : /\ l[j] = l[k] => j = k
                              /\ j <= k => lf[l[j]] <= lf[l[k]]
    /\ \A j \in DOMAIN l : /\ lf[l[j]] <= LongestDelay(use)
                           /\ dl[l[j]] = IF j = 1 THEN lf[l[1]] + n ELSE lf[l[j]] - lf[l[j - 1]]

\* The base is not too old: it follows each timer that fires, and of those not
\* reset one fires in time.
Reach == IF use.resettable = {} THEN LongestDelay(use) + MaxLateness
                                ELSE 2 * LongestDelay(use) + 2 * MaxLateness
Room(lf, n) ==
    \/ \E t \in Timer : lf[t] # Off /\ t \notin use.resettable /\ lf[t] + n <= Reach
    \/ \A t \in Timer : lf[t] # Off => lf[t] + n <= LongestDelay(use) + MaxLateness

\* The alarm comes, and no more than TIMEDELTA - 1 ticks after the first deadline.
Pending == isr \/ (CC1IF /\ DIER)
AlarmInv ==
    list # <<>> =>
        /\ Pending => left[list[1]] >= 1 - TIMEDELTA - latency
        /\ ~Pending => LET a == Mod(CCR - now) IN a >= 1 /\ left[list[1]] >= a + 1 - TIMEDELTA

RegsInv ==
    /\ use \in Uses
    /\ lasttime \in 0..(Modulus - 1) /\ now \in 0..(Modulus - 1) /\ CCR \in 0..(Modulus - 1)
    /\ CC1IF \in BOOLEAN /\ isr \in BOOLEAN /\ latency \in 0..MaxLatency
    /\ DIER = (list # <<>>)

IInv == RegsInv /\ Times(list, delta, left, Elapsed) /\ Room(left, Elapsed) /\ AlarmInv
----------------------------------------------------------------------------
(* Numbers.                                                                *)

LEMMA Numbers ==
  ASSUME use \in Uses
  PROVE  /\ Modulus \in Nat /\ Modulus > 0 /\ TIMEDELTA \in Nat /\ TIMEDELTA >= 2
         /\ MaxLatency \in Nat /\ MaxLateness \in Nat /\ MaxLateness = TIMEDELTA - 1 + MaxLatency
         /\ LongestDelay(use) \in Int /\ TIMEDELTA <= LongestDelay(use)
         /\ Reach \in Int /\ LongestDelay(use) + MaxLateness <= Reach /\ Reach + MaxLateness < Modulus
         /\ use.resettable # {} => Reach = 2 * LongestDelay(use) + 2 * MaxLateness
         /\ use.resettable = {} => Reach = LongestDelay(use) + MaxLateness
         /\ \A s, t \in use.resettable : s = t
         /\ use.resettable \subseteq Timer
         /\ \A d \in use.delays : /\ AtLeast(d) \in Nat /\ TIMEDELTA <= AtLeast(d)
                                  /\ AtLeast(d) <= LongestDelay(use)
  <1> DEFINE D == LongestDelay(use)
  <1>1. /\ Modulus \in Nat /\ Modulus > 0 /\ TIMEDELTA \in Nat /\ TIMEDELTA >= 2
        /\ MaxLatency \in Nat /\ MaxLateness \in Nat /\ MaxLateness = TIMEDELTA - 1 + MaxLatency
    BY VirtualTimersAssumption DEF MaxLateness
  <1>2. D \in Nat /\ (use.resettable = {} => D + 2 * MaxLateness < Modulus)
                  /\ (use.resettable # {} => 2 * D + 3 * MaxLateness < Modulus)
    BY VirtualTimersAssumption DEF LongestDelay
  <1>3. TIMEDELTA <= D /\ \A d \in use.delays : d <= D /\ d \in Nat
    BY VirtualTimersAssumption DEF LongestDelay
  <1>4. use.resettable \subseteq Timer /\ \A s, t \in use.resettable : s = t
    BY VirtualTimersAssumption
  <1> HIDE DEF D
  <1>5. Reach = IF use.resettable = {} THEN D + MaxLateness ELSE 2 * D + 2 * MaxLateness
    BY DEF Reach, D
  <1>6. \A d \in use.delays : AtLeast(d) \in Nat /\ TIMEDELTA <= AtLeast(d) /\ AtLeast(d) <= D
    BY <1>1, <1>3 DEF AtLeast
  <1>7. /\ Reach \in Int /\ D + MaxLateness <= Reach /\ Reach + MaxLateness < Modulus
        /\ use.resettable # {} => Reach = 2 * D + 2 * MaxLateness
        /\ use.resettable = {} => Reach = D + MaxLateness
    BY <1>1, <1>2, <1>3, <1>5
  <1>8. QED
    BY <1>1, <1>2, <1>3, <1>4, <1>6, <1>7 DEF D

LEMMA ModIs ==
  ASSUME NEW n \in Int
  PROVE  /\ Mod(n) \in 0..(Modulus - 1)
         /\ n \in 0..(Modulus - 1) => Mod(n) = n
         /\ n \in Modulus..(2 * Modulus - 1) => Mod(n) = n - Modulus
         /\ n \in (-Modulus)..(-1) => Mod(n) = n + Modulus
  <1>1. Modulus \in Nat /\ Modulus > 0
    BY VirtualTimersAssumption
  <1>2. n % Modulus \in 0..(Modulus - 1) /\ (n \in 0..(Modulus - 1) => n % Modulus = n)
    BY <1>1
  <1>3. ASSUME n \in Modulus..(2 * Modulus - 1) PROVE n % Modulus = n - Modulus
    <2>1. n - Modulus \in 0..(Modulus - 1)
      BY <1>1, <1>3
    <2>2. QED
      BY <1>1, <1>3, <2>1
  <1>4. ASSUME n \in (-Modulus)..(-1) PROVE n % Modulus = n + Modulus
    <2>1. n + Modulus \in 0..(Modulus - 1)
      BY <1>1, <1>4
    <2>2. QED
      BY <1>1, <1>4, <2>1
  <1>5. QED
    BY <1>2, <1>3, <1>4 DEF Mod

LEMMA DiffIs ==
  ASSUME NEW a \in 0..(Modulus - 1), NEW b \in 0..(Modulus - 1)
  PROVE  a - b \in Int /\ (a - b \in 0..(Modulus - 1) \/ a - b \in (-Modulus)..(-1))
  <1>1. Modulus \in Nat /\ Modulus > 0
    BY VirtualTimersAssumption
  <1>2. QED
    BY <1>1

\* Differences of what the counter shows a and b ticks after x.
LEMMA ModDiff ==
  ASSUME NEW x \in 0..(Modulus - 1), NEW a \in 0..(Modulus - 1), NEW b \in 0..(Modulus - 1)
  PROVE  /\ b <= a => Mod(Mod(x + a) - Mod(x + b)) = a - b
         /\ a < b => Mod(Mod(x + a) - Mod(x + b)) = a - b + Modulus
  <1>1. Modulus \in Nat /\ Modulus > 0
    BY VirtualTimersAssumption
  <1> DEFINE y == Mod(x + a)
             z == Mod(x + b)
  <1>2. y = IF x + a < Modulus THEN x + a ELSE x + a - Modulus
    <2>1. x + a \in 0..(Modulus - 1) \/ x + a \in Modulus..(2 * Modulus - 1)
      BY <1>1
    <2>2. QED
      BY <1>1, <2>1, ModIs
  <1>3. z = IF x + b < Modulus THEN x + b ELSE x + b - Modulus
    <2>1. x + b \in 0..(Modulus - 1) \/ x + b \in Modulus..(2 * Modulus - 1)
      BY <1>1
    <2>2. QED
      BY <1>1, <2>1, ModIs
  <1> HIDE DEF y, z
  <1>4. y - z \in Int /\ y \in 0..(Modulus - 1) /\ z \in 0..(Modulus - 1)
    BY <1>1, <1>2, <1>3
  <1>5. Mod(y - z) = IF y >= z THEN y - z ELSE y - z + Modulus
    <2>1. y - z \in 0..(Modulus - 1) \/ y - z \in (-Modulus)..(-1)
      BY <1>1, <1>4
    <2>2. QED
      BY <1>1, <1>4, <2>1, ModIs
  <1>6. (b <= a => Mod(y - z) = a - b) /\ (a < b => Mod(y - z) = a - b + Modulus)
    BY <1>1, <1>2, <1>3, <1>4, <1>5
  <1>7. QED
    BY <1>6 DEF y, z
----------------------------------------------------------------------------
(* Sequences.                                                              *)

LEMMA NatMin ==
  ASSUME NEW T \in SUBSET Nat, T # {}
  PROVE  \E x \in T : \A y \in T : x <= y
  <1>1. \E x \in T : \A y \in T : ~ (<<y, x>> \in OpToRel(<, Nat))
    BY NatLessThanWellFounded, WFMin
  <1>2. \E x \in T : \A y \in T : ~ (<<y, x>> \in {ss \in Nat \X Nat : ss[1] < ss[2]})
    BY <1>1, Zenon DEF OpToRel
  <1>3. ASSUME NEW x \in T, NEW y \in T, ~ (<<y, x>> \in {ss \in Nat \X Nat : ss[1] < ss[2]})
        PROVE  x <= y
    <2>1. x \in Nat /\ y \in Nat
      OBVIOUS
    <2>2. ~(y < x)
      BY <1>3, <2>1
    <2>3. QED
      BY <2>1, <2>2
  <1>4. QED
    BY <1>2, <1>3

LEMMA InsertAtIs ==
  ASSUME NEW S, NEW s \in Seq(S), NEW t \in S, NEW k \in 1..(Len(s) + 1)
  PROVE  /\ InsertAt(s, k, t) \in Seq(S)
         /\ Len(InsertAt(s, k, t)) = Len(s) + 1
         /\ \A j \in 1..(Len(s) + 1) :
              InsertAt(s, k, t)[j] = IF j < k THEN s[j] ELSE IF j = k THEN t ELSE s[j - 1]
  <1> DEFINE a == SubSeq(s, 1, k - 1)
             b == SubSeq(s, k, Len(s))
             m == <<t>>
             h == a \o m
             r == h \o b
             la == k - 1
             lb == Len(s) - k + 1
  <1>1. Len(s) \in Nat /\ k \in Nat /\ la \in Nat /\ lb \in Nat /\ la = k - 1 /\ lb = Len(s) - k + 1
    OBVIOUS
  <1>2. a \in Seq(S) /\ Len(a) = la /\ \A j \in 1..la : a[j] = s[j]
    OBVIOUS
  <1>3. b \in Seq(S) /\ Len(b) = lb /\ \A j \in 1..lb : b[j] = s[la + j]
    OBVIOUS
  <1>4. m \in Seq(S) /\ Len(m) = 1 /\ m[1] = t
    OBVIOUS
  <1>5. r = InsertAt(s, k, t)
    BY DEF InsertAt
  <1>6. h \in Seq(S) /\ Len(h) = k /\ h[k] = t /\ \A j \in 1..la : h[j] = s[j]
    <2> HIDE DEF a, b, m, la, lb, r
    <2>1. /\ h \in Seq(S) /\ Len(h) = Len(a) + Len(m)
          /\ \A j \in 1..(Len(a) + Len(m)) : h[j] = IF j <= Len(a) THEN a[j] ELSE m[j - Len(a)]
      BY <1>2, <1>4, ConcatProperties
    <2> HIDE DEF h
    <2>2. h \in Seq(S) /\ Len(h) = k /\ \A j \in 1..k : h[j] = IF j <= la THEN a[j] ELSE m[j - la]
      BY <1>1, <1>2, <1>4, <2>1
    <2>3. QED
      BY <1>1, <1>2, <1>4, <2>2
  <1>7. r \in Seq(S) /\ Len(r) = k + lb /\ (\A j \in 1..k : r[j] = h[j])
        /\ \A j \in (k + 1)..(k + lb) : r[j] = b[j - k]
    <2> HIDE DEF a, b, m, la, lb, h
    <2>1. /\ r \in Seq(S) /\ Len(r) = Len(h) + Len(b)
          /\ \A j \in 1..(Len(h) + Len(b)) : r[j] = IF j <= Len(h) THEN h[j] ELSE b[j - Len(h)]
      BY <1>3, <1>6, ConcatProperties
    <2> HIDE DEF r
    <2>2. QED
      BY <1>1, <1>3, <1>6, <2>1
  <1> HIDE DEF a, b, m, h, r, la, lb
  <1>8. ASSUME NEW j \in 1..(Len(s) + 1)
        PROVE  r[j] = IF j < k THEN s[j] ELSE IF j = k THEN t ELSE s[j - 1]
    <2>1. CASE j < k
      <3>1. j \in 1..la /\ j \in 1..k
        BY <1>1, <2>1
      <3>2. QED
        BY <1>6, <1>7, <2>1, <3>1
    <2>2. CASE j = k
      <3>1. j \in 1..k
        BY <1>1, <2>2
      <3>2. QED
        BY <1>6, <1>7, <2>2, <3>1
    <2>3. CASE j > k
      <3>1. j \in (k + 1)..(k + lb) /\ j - k \in 1..lb /\ la + (j - k) = j - 1
        BY <1>1, <2>3
      <3>2. r[j] = s[j - 1]
        BY <1>3, <1>7, <3>1
      <3>3. QED
        BY <1>1, <2>3, <3>2
    <2>4. QED
      BY <1>1, <2>1, <2>2, <2>3
  <1>9. Len(r) = Len(s) + 1
    BY <1>1, <1>7
  <1>10. QED
    BY <1>5, <1>7, <1>8, <1>9

LEMMA RemoveAtIs ==
  ASSUME NEW S, NEW s \in Seq(S), NEW p \in 1..Len(s)
  PROVE  /\ RemoveAt(s, p) \in Seq(S)
         /\ Len(RemoveAt(s, p)) = Len(s) - 1
         /\ \A j \in 1..(Len(s) - 1) : RemoveAt(s, p)[j] = IF j < p THEN s[j] ELSE s[j + 1]
  <1> DEFINE a == SubSeq(s, 1, p - 1)
             b == SubSeq(s, p + 1, Len(s))
             r == a \o b
             la == p - 1
             lb == Len(s) - p
  <1>1. Len(s) \in Nat /\ p \in Nat /\ la \in Nat /\ lb \in Nat /\ la = p - 1 /\ lb = Len(s) - p
    OBVIOUS
  <1>2. a \in Seq(S) /\ Len(a) = la /\ \A j \in 1..la : a[j] = s[j]
    OBVIOUS
  <1>3. b \in Seq(S) /\ Len(b) = lb /\ \A j \in 1..lb : b[j] = s[p + j]
    OBVIOUS
  <1>4. r = RemoveAt(s, p)
    BY DEF RemoveAt
  <1> HIDE DEF a, b, la, lb
  <1>5. /\ r \in Seq(S) /\ Len(r) = Len(a) + Len(b)
        /\ \A j \in 1..(Len(a) + Len(b)) : r[j] = IF j <= Len(a) THEN a[j] ELSE b[j - Len(a)]
    BY <1>2, <1>3, ConcatProperties
  <1> HIDE DEF r
  <1>6. ASSUME NEW j \in 1..(Len(s) - 1)
        PROVE  r[j] = IF j < p THEN s[j] ELSE s[j + 1]
    <2>1. j \in 1..(Len(a) + Len(b))
      BY <1>1, <1>2, <1>3
    <2>2. CASE j < p
      <3>1. j \in 1..la /\ j <= Len(a)
        BY <1>1, <1>2, <2>2
      <3>2. QED
        BY <1>2, <1>5, <2>1, <2>2, <3>1
    <2>3. CASE ~(j < p)
      <3>1. j - la \in 1..lb /\ p + (j - la) = j + 1 /\ ~(j <= Len(a)) /\ Len(a) = la
        BY <1>1, <1>2, <2>3
      <3>2. r[j] = b[j - la]
        BY <1>5, <2>1, <3>1
      <3>3. QED
        BY <1>3, <2>3, <3>1, <3>2
    <2>4. QED
      BY <2>2, <2>3
  <1>7. QED
    BY <1>1, <1>2, <1>3, <1>4, <1>5, <1>6

----------------------------------------------------------------------------
(* The list.                                                               *)

LEMMA TimesType ==
  ASSUME NEW l, NEW dl, NEW lf, NEW n \in Int, Times(l, dl, lf, n)
  PROVE  /\ l \in Seq(Timer) /\ Len(l) \in Nat /\ DOMAIN l = 1..Len(l)
         /\ dl \in [Timer -> 0..(Modulus - 1)] /\ lf \in [Timer -> Int \cup {Off}]
         /\ \A k \in 1..Len(l) : /\ l[k] \in Timer /\ lf[l[k]] \in Int /\ lf[l[k]] # Off
                                 /\ dl[l[k]] \in 0..(Modulus - 1)
  <1>1. /\ l \in Seq(Timer) /\ Len(l) \in Nat /\ DOMAIN l = 1..Len(l)
        /\ dl \in [Timer -> 0..(Modulus - 1)] /\ lf \in [Timer -> Int \cup {Off}]
    BY DEF Times
  <1>2. ASSUME NEW k \in 1..Len(l)
        PROVE  /\ l[k] \in Timer /\ lf[l[k]] \in Int /\ lf[l[k]] # Off
               /\ dl[l[k]] \in 0..(Modulus - 1)
    <2>1. l[k] \in Timer
      BY <1>1
    <2>2. lf[l[k]] # Off
      BY <1>1, <2>1 DEF Times
    <2>3. QED
      BY <1>1, <2>1, <2>2
  <1>3. QED
    BY <1>1, <1>2

\* What the recursion of Upto says, and that it is the deadlines from the base.
LEMMA UptoIs ==
  ASSUME NEW n \in Int, Times(list, delta, left, n)
  PROVE  Upto = [k \in 0..Len(list) |-> IF k = 0 THEN 0 ELSE left[list[k]] + n]
  <1> DEFINE g == [k \in 0..Len(list) |-> IF k = 0 THEN 0 ELSE left[list[k]] + n]
             P(f) == f = [k \in 0..Len(list) |-> IF k = 0 THEN 0 ELSE f[k - 1] + delta[list[k]]]
  <1>1. /\ Len(list) \in Nat /\ DOMAIN list = 1..Len(list)
        /\ \A k \in 1..Len(list) : list[k] \in Timer /\ left[list[k]] \in Int
        /\ \A k \in 1..Len(list) : delta[list[k]] \in Int
        /\ \A k \in 1..Len(list) :
             delta[list[k]] = IF k = 1 THEN left[list[1]] + n ELSE left[list[k]] - left[list[k - 1]]
    <2>1. \A k \in 1..Len(list) :
             delta[list[k]] = IF k = 1 THEN left[list[1]] + n ELSE left[list[k]] - left[list[k - 1]]
      BY TimesType DEF Times
    <2>2. \A k \in 1..Len(list) : delta[list[k]] \in Int
      <3>1. \A k \in 1..Len(list) : delta[list[k]] \in 0..(Modulus - 1)
        BY TimesType
      <3>2. QED
        BY <3>1
    <2>3. QED
      BY <2>1, <2>2, TimesType
  <1>2. ASSUME NEW k \in 1..Len(list) PROVE g[k] = g[k - 1] + delta[list[k]]
    <2>1. CASE k = 1
      <3>1. g[1] = left[list[1]] + n /\ g[0] = 0
        BY <1>1, <2>1
      <3>2. QED
        BY <1>1, <2>1, <3>1
    <2>2. CASE k # 1
      <3>1. k - 1 \in 1..Len(list)
        BY <1>1, <2>2
      <3>2. g[k] = left[list[k]] + n /\ g[k - 1] = left[list[k - 1]] + n
        BY <1>1, <3>1
      <3> HIDE DEF g
      <3>3. QED
        BY <1>1, <2>2, <3>1, <3>2
    <2>3. QED
      BY <2>1, <2>2
  <1>3. P(g)
    <2>1. \A k \in 0..Len(list) : g[k] = IF k = 0 THEN 0 ELSE g[k - 1] + delta[list[k]]
      <3>1. g[0] = 0
        BY <1>1
      <3> HIDE DEF g
      <3>2. QED
        BY <1>1, <1>2, <3>1
    <2>2. g = [k \in 0..Len(list) |-> g[k]]
      OBVIOUS
    <2> HIDE DEF g
    <2>3. QED
      BY <2>1, <2>2
  <1>4. ASSUME NEW f, P(f) PROVE f = g
    <2> DEFINE T == {k \in 0..Len(list) : f[k] # g[k]}
    <2>1. \A k \in 0..Len(list) : f[k] = IF k = 0 THEN 0 ELSE f[k - 1] + delta[list[k]]
      BY <1>4
    <2>2. T = {}
      <3> SUFFICES ASSUME T # {} PROVE FALSE
        OBVIOUS
      <3>1. T \in SUBSET Nat
        OBVIOUS
      <3>2. PICK k \in T : \A y \in T : k <= y
        <4> HIDE DEF T
        <4> QED BY <3>1, NatMin
      <3>3. k \in 0..Len(list) /\ f[k] # g[k]
        BY <3>2
      <3>4. k # 0
        <4>1. f[0] = 0 /\ g[0] = 0
          BY <1>1, <2>1
        <4>2. QED
          BY <3>3, <4>1
      <3>5. k \in 1..Len(list) /\ k - 1 \in 0..Len(list) /\ ~(k <= k - 1)
        BY <1>1, <3>3, <3>4
      <3>6. f[k - 1] = g[k - 1]
        BY <3>2, <3>5
      <3> HIDE DEF g, T
      <3>7. f[k] = f[k - 1] + delta[list[k]]
        BY <2>1, <3>3, <3>4
      <3>8. QED
        BY <1>2, <3>3, <3>5, <3>6, <3>7
    <2>3. f = [k \in 0..Len(list) |-> f[k]]
      <3> DEFINE h == [k \in 0..Len(list) |-> IF k = 0 THEN 0 ELSE f[k - 1] + delta[list[k]]]
      <3>1. f = h
        BY <1>4
      <3>2. h = [k \in 0..Len(list) |-> h[k]]
        OBVIOUS
      <3> HIDE DEF h
      <3>3. QED
        BY <3>1, <3>2
    <2>4. g = [k \in 0..Len(list) |-> g[k]]
      OBVIOUS
    <2> HIDE DEF g
    <2>5. \A k \in 0..Len(list) : f[k] = g[k]
      BY <2>2
    <2>6. QED
      BY <2>3, <2>4, <2>5
  <1> HIDE DEF g
  <1>5. Upto = CHOOSE f : P(f)
    BY DEF Upto
  <1> HIDE DEF P
  <1>6. Upto = g
    <2>1. P(CHOOSE f : P(f))
      BY <1>3, Zenon
    <2>2. QED
      BY <1>4, <1>5, <2>1
  <1>7. QED
    BY <1>6 DEF g

\* The recursion of Upto for any deltas.
LEMMA UptoExists ==
  ASSUME list \in Seq(Timer)
  PROVE  \E f : f = [k \in 0..Len(list) |-> IF k = 0 THEN 0 ELSE f[k - 1] + delta[list[k]]]
  <1> DEFINE Rec(n, f) == f = [k \in 0..n |-> IF k = 0 THEN 0 ELSE f[k - 1] + delta[list[k]]]
             T == {n \in 0..Len(list) : ~\E f : Rec(n, f)}
  <1>1. Len(list) \in Nat
    OBVIOUS
  <1>2. T = {}
    <2> SUFFICES ASSUME T # {} PROVE FALSE
      OBVIOUS
    <2>1. T \in SUBSET Nat
      OBVIOUS
    <2>2. PICK n \in T : \A y \in T : n <= y
      <3> HIDE DEF T
      <3>1. QED
        BY <2>1, NatMin
    <2>3. n \in 0..Len(list) /\ ~\E f : Rec(n, f)
      BY <2>2
    <2>4. CASE n = 0
      <3> DEFINE g == [k \in 0..0 |-> 0]
      <3>1. \A k \in 0..0 : 0 = IF k = 0 THEN 0 ELSE g[k - 1] + delta[list[k]]
        OBVIOUS
      <3>2. g = [k \in 0..0 |-> IF k = 0 THEN 0 ELSE g[k - 1] + delta[list[k]]]
        BY <3>1
      <3>3. Rec(n, g)
        BY <2>4, <3>2
      <3>4. QED
        BY <2>3, <3>3
    <2>5. CASE n # 0
      <3>1. n - 1 \in 0..Len(list) /\ ~(n <= n - 1) /\ n \in Nat /\ n >= 1
        BY <1>1, <2>3, <2>5
      <3>2. n - 1 \notin T
        BY <2>2, <3>1
      <3>3. PICK f : Rec(n - 1, f)
        BY <3>1, <3>2
      <3> DEFINE g == [k \in 0..n |-> IF k < n THEN f[k] ELSE f[n - 1] + delta[list[n]]]
                 h == [k \in 0..n |-> IF k = 0 THEN 0 ELSE g[k - 1] + delta[list[k]]]
      <3>4. \A k \in 0..(n - 1) : f[k] = IF k = 0 THEN 0 ELSE f[k - 1] + delta[list[k]]
        BY <3>3
      <3>5. ASSUME NEW k \in 0..n PROVE g[k] = h[k]
        <4>1. CASE k = 0
          <5>1. g[k] = f[0] /\ h[k] = 0 /\ f[0] = 0
            BY <3>1, <3>4, <4>1
          <5>2. QED
            BY <5>1
        <4>2. CASE k # 0
          <5>1. k - 1 \in 0..n /\ k - 1 < n
            BY <3>1, <4>2
          <5>2. g[k - 1] = f[k - 1]
            BY <5>1
          <5>3. h[k] = f[k - 1] + delta[list[k]]
            BY <4>2, <5>2
          <5>4. CASE k < n
            <6>1. k \in 0..(n - 1)
              BY <3>1, <5>4
            <6>2. f[k] = f[k - 1] + delta[list[k]]
              BY <3>4, <4>2, <6>1
            <6>3. QED
              BY <5>3, <5>4, <6>2
          <5>5. CASE ~(k < n)
            <6>1. k = n
              BY <3>1, <5>5
            <6>2. QED
              BY <5>3, <5>5, <6>1
          <5>6. QED
            BY <5>4, <5>5
        <4>3. QED
          BY <4>1, <4>2
      <3>6. g = [k \in 0..n |-> g[k]] /\ h = [k \in 0..n |-> h[k]]
        OBVIOUS
      <3>7. Rec(n, g) <=> g = h
        OBVIOUS
      <3> HIDE DEF g, h, Rec
      <3>8. g = h
        BY <3>5, <3>6
      <3>9. QED
        BY <2>3, <3>7, <3>8
    <2>6. QED
      BY <2>4, <2>5
  <1>3. Len(list) \in 0..Len(list)
    BY <1>1
  <1>4. QED
    BY <1>2, <1>3

LEMMA UptoGrows ==
  ASSUME list \in Seq(Timer), delta \in [Timer -> 0..(Modulus - 1)]
  PROVE  /\ Upto[0] = 0
         /\ \A k \in 1..Len(list) : Upto[k] = Upto[k - 1] + delta[list[k]]
         /\ \A k \in 0..Len(list) : Upto[k] \in Nat /\ (k >= 1 => Upto[1] <= Upto[k])
  <1> DEFINE P(f) == f = [k \in 0..Len(list) |-> IF k = 0 THEN 0 ELSE f[k - 1] + delta[list[k]]]
             Q(k) == Upto[k] \in Nat /\ (k >= 1 => Upto[1] <= Upto[k])
             T == {k \in 0..Len(list) : ~Q(k)}
  <1>1. /\ Len(list) \in Nat /\ DOMAIN list = 1..Len(list) /\ Modulus \in Nat
        /\ \A k \in 1..Len(list) : delta[list[k]] \in Nat
    BY VirtualTimersAssumption
  <1>2. P(Upto)
    <2>1. \E f : P(f)
      BY UptoExists
    <2>2. Upto = CHOOSE f : P(f)
      BY DEF Upto
    <2> HIDE DEF P
    <2>3. QED
      BY <2>1, <2>2, Zenon
  <1>3. Upto[0] = 0 /\ \A k \in 1..Len(list) : Upto[k] = Upto[k - 1] + delta[list[k]]
    <2>1. \A k \in 0..Len(list) : Upto[k] = IF k = 0 THEN 0 ELSE Upto[k - 1] + delta[list[k]]
      BY <1>2
    <2> HIDE DEF P
    <2>2. QED
      BY <1>1, <2>1
  <1> HIDE DEF P
  <1>4. T = {}
    <2> SUFFICES ASSUME T # {} PROVE FALSE
      OBVIOUS
    <2>1. T \in SUBSET Nat
      OBVIOUS
    <2>2. PICK k \in T : \A y \in T : k <= y
      <3> HIDE DEF T
      <3>1. QED
        BY <2>1, NatMin
    <2>3. k \in 0..Len(list) /\ ~Q(k)
      BY <2>2
    <2>4. k # 0
      BY <1>3, <2>3
    <2>5. k \in 1..Len(list) /\ k - 1 \in 0..Len(list) /\ ~(k <= k - 1)
      BY <1>1, <2>3, <2>4
    <2>6. Q(k - 1)
      BY <2>2, <2>5
    <2>7. Upto[k] = Upto[k - 1] + delta[list[k]] /\ delta[list[k]] \in Nat
      BY <1>1, <1>3, <2>5
    <2>8. Upto[k] \in Nat
      BY <2>6, <2>7
    <2>9. Upto[1] <= Upto[k]
      <3>1. CASE k = 1
        BY <2>8, <3>1
      <3>2. CASE k # 1
        <4>1. k - 1 >= 1 /\ 1 \in 1..Len(list)
          BY <1>1, <2>5, <3>2
        <4>2. Upto[1] <= Upto[k - 1] /\ Upto[k - 1] \in Nat
          BY <2>6, <4>1
        <4>3. Upto[1] \in Nat
          BY <1>1, <1>3, <4>1
        <4>4. QED
          BY <2>7, <4>2, <4>3
      <3>3. QED
        BY <3>1, <3>2
    <2>10. QED
      BY <2>3, <2>8, <2>9
  <1>5. \A k \in 0..Len(list) : Q(k)
    BY <1>4
  <1>6. QED
    BY <1>3, <1>5

\* The scan from the first timer or, that one skipped, from the second.
LEMMA PlaceIs ==
  ASSUME list \in Seq(Timer), list # <<>>, NEW i \in 1..2, NEW d \in Int,
         \A k \in 0..Len(list) : Upto[k] \in Int
  PROVE  /\ Place(i, d) \in i..(Len(list) + 1)
         /\ Place(i, d) = Len(list) + 1 \/ Upto[Place(i, d)] - Upto[i - 1] >= d
         /\ \A j \in i..(Place(i, d) - 1) : Upto[j] - Upto[i - 1] < d
  <1> DEFINE P(k) == /\ k = Len(list) + 1 \/ Upto[k] - Upto[i - 1] >= d
                     /\ \A j \in i..(k - 1) : Upto[j] - Upto[i - 1] < d
             T == {k \in i..(Len(list) + 1) : k = Len(list) + 1 \/ Upto[k] - Upto[i - 1] >= d}
  <1>1. Len(list) \in Nat /\ Len(list) > 0 /\ i - 1 \in 0..Len(list)
    OBVIOUS
  <1>2. \A k \in 0..Len(list) : Upto[k] \in Int
    OBVIOUS
  <1>3. T \in SUBSET Nat /\ Len(list) + 1 \in T
    BY <1>1
  <1>4. PICK k \in T : \A y \in T : k <= y
    <2> HIDE DEF T
    <2>1. QED
      BY <1>3, NatMin
  <1>5. P(k)
    <2>1. ASSUME NEW j \in i..(k - 1) PROVE Upto[j] - Upto[i - 1] < d
      <3>1. j \notin T /\ j \in i..(Len(list) + 1) /\ j # Len(list) + 1
        BY <1>1, <1>4
      <3>2. ~(Upto[j] - Upto[i - 1] >= d) /\ j \in 0..Len(list)
        BY <1>1, <3>1
      <3>3. QED
        BY <1>1, <1>2, <3>2
    <2>2. QED
      BY <1>4, <2>1
  <1>6. k \in i..(Len(list) + 1)
    BY <1>4
  <1>7. Place(i, d) = CHOOSE m \in i..(Len(list) + 1) : P(m)
    BY DEF Place
  <1> HIDE DEF P, T
  <1>8. (CHOOSE m \in i..(Len(list) + 1) : P(m)) \in i..(Len(list) + 1)
        /\ P(CHOOSE m \in i..(Len(list) + 1) : P(m))
    BY <1>5, <1>6, Zenon
  <1>9. P(Place(i, d)) /\ Place(i, d) \in i..(Len(list) + 1)
    BY <1>7, <1>8
  <1>10. QED
    BY <1>9 DEF P

----------------------------------------------------------------------------
(* What the operations do to the list.                                     *)

LEMMA PassTimes ==
  ASSUME use \in Uses, NEW l, NEW dl, NEW lf, NEW n \in Int, Times(l, dl, lf, n)
  PROVE  Times(l, dl, Pass(lf), n + 1)
  <1> DEFINE g == Pass(lf)
  <1>1. /\ l \in Seq(Timer) /\ Len(l) \in Nat /\ DOMAIN l = 1..Len(l)
        /\ dl \in [Timer -> 0..(Modulus - 1)] /\ lf \in [Timer -> Int \cup {Off}]
        /\ \A k \in 1..Len(l) : l[k] \in Timer /\ lf[l[k]] \in Int /\ lf[l[k]] # Off
    BY TimesType
  <1>2. Off \notin Int
    BY VirtualTimersAssumption
  <1>3. \A t \in Timer : g[t] = IF lf[t] = Off THEN Off ELSE lf[t] - 1
    BY DEF Pass
  <1>4. \A k \in 1..Len(l) : g[l[k]] = lf[l[k]] - 1
    BY <1>1, <1>3
  <1>5. g \in [Timer -> Int \cup {Off}] /\ \A t \in Timer : g[t] # Off <=> lf[t] # Off
    <2>1. g = [t \in Timer |-> g[t]]
      BY DEF Pass
    <2>2. \A t \in Timer : lf[t] \in Int \/ lf[t] = Off
      BY <1>1
    <2> HIDE DEF g
    <2>3. \A t \in Timer : g[t] \in Int \cup {Off} /\ (g[t] # Off <=> lf[t] # Off)
      BY <1>2, <1>3, <2>2
    <2>4. QED
      BY <2>1, <2>3
  <1> HIDE DEF g
  <1>6. \A t \in Timer : g[t] # Off <=> \E j \in DOMAIN l : l[j] = t
    BY <1>5 DEF Times
  <1>7. ASSUME NEW j \in 1..Len(l), NEW k \in 1..Len(l)
        PROVE  /\ l[j] = l[k] => j = k
               /\ j <= k => g[l[j]] <= g[l[k]]
    <2>1. (l[j] = l[k] => j = k) /\ (j <= k => lf[l[j]] <= lf[l[k]])
      BY <1>1 DEF Times
    <2>2. QED
      BY <1>1, <1>4, <2>1
  <1>8. ASSUME NEW j \in 1..Len(l)
        PROVE  /\ g[l[j]] <= LongestDelay(use)
               /\ dl[l[j]] = IF j = 1 THEN g[l[1]] + (n + 1) ELSE g[l[j]] - g[l[j - 1]]
    <2>1. /\ lf[l[j]] <= LongestDelay(use)
          /\ dl[l[j]] = IF j = 1 THEN lf[l[1]] + n ELSE lf[l[j]] - lf[l[j - 1]]
      BY <1>1 DEF Times
    <2>2. LongestDelay(use) \in Int
      BY Numbers
    <2>3. j # 1 => j - 1 \in 1..Len(l)
      BY <1>1
    <2>4. 1 \in 1..Len(l)
      BY <1>1
    <2>5. g[l[j]] <= LongestDelay(use)
      BY <1>1, <1>4, <2>1, <2>2
    <2>6. dl[l[j]] = IF j = 1 THEN g[l[1]] + (n + 1) ELSE g[l[j]] - g[l[j - 1]]
      <3>1. CASE j = 1
        <4>1. g[l[1]] = lf[l[1]] - 1 /\ lf[l[1]] \in Int
          BY <1>1, <1>4, <2>4
        <4>2. QED
          BY <2>1, <3>1, <4>1
      <3>2. CASE j # 1
        <4>1. /\ g[l[j]] = lf[l[j]] - 1 /\ lf[l[j]] \in Int
              /\ g[l[j - 1]] = lf[l[j - 1]] - 1 /\ lf[l[j - 1]] \in Int
          BY <1>1, <1>4, <2>3, <3>2
        <4>2. QED
          BY <2>1, <3>2, <4>1
      <3>3. QED
        BY <3>1, <3>2
    <2>7. QED
      BY <2>5, <2>6
  <1>9. Times(l, dl, g, n + 1)
    BY <1>1, <1>5, <1>6, <1>7, <1>8 DEF Times
  <1>10. QED
    BY <1>9 DEF g

\* A timer with c ticks to go is put behind those that are due before, dt after
\* the one before it.
LEMMA InsertTimes ==
  ASSUME use \in Uses,
         NEW l, NEW dl, NEW lf, NEW n \in Int, Times(l, dl, lf, n),
         NEW t \in Timer, lf[t] = Off, NEW c \in Int, c <= LongestDelay(use),
         NEW k \in 1..(Len(l) + 1), NEW dt \in 0..(Modulus - 1),
         \A j \in 1..(k - 1) : lf[l[j]] <= c,
         k <= Len(l) => c <= lf[l[k]],
         dt = IF k = 1 THEN c + n ELSE c - lf[l[k - 1]],
         NEW h, h = [u \in Timer |-> IF u = t THEN dt
                                     ELSE IF k <= Len(l) /\ u = l[k] THEN dl[u] - dt ELSE dl[u]]
  PROVE  Times(InsertAt(l, k, t), h, [lf EXCEPT ![t] = c], n)
  <1> DEFINE r == InsertAt(l, k, t)
             g == [lf EXCEPT ![t] = c]
             N == Len(l)
  <1>1. /\ l \in Seq(Timer) /\ N \in Nat /\ DOMAIN l = 1..N
        /\ dl \in [Timer -> 0..(Modulus - 1)] /\ lf \in [Timer -> Int \cup {Off}]
        /\ \A j \in 1..N : /\ l[j] \in Timer /\ lf[l[j]] \in Int /\ lf[l[j]] # Off
                           /\ dl[l[j]] \in 0..(Modulus - 1)
    BY TimesType
  <1>2. /\ Off \notin Int /\ LongestDelay(use) \in Int /\ Modulus \in Nat
    BY VirtualTimersAssumption, Numbers
  <1>3. /\ r \in Seq(Timer) /\ Len(r) = N + 1
        /\ \A j \in 1..(N + 1) : r[j] = IF j < k THEN l[j] ELSE IF j = k THEN t ELSE l[j - 1]
    <2> HIDE DEF g
    <2>1. l \in Seq(Timer) /\ k \in 1..(Len(l) + 1)
      BY <1>1
    <2>2. /\ InsertAt(l, k, t) \in Seq(Timer) /\ Len(InsertAt(l, k, t)) = Len(l) + 1
          /\ \A j \in 1..(Len(l) + 1) :
               InsertAt(l, k, t)[j] = IF j < k THEN l[j] ELSE IF j = k THEN t ELSE l[j - 1]
      <3> HIDE DEF r, N
      <3> QED BY <2>1, InsertAtIs
    <2>3. QED
      BY <2>2
  <1>4. DOMAIN r = 1..(N + 1)
    BY <1>1, <1>3
  <1> HIDE DEF r
  <1>5. g \in [Timer -> Int \cup {Off}] /\ g[t] = c
        /\ \A u \in Timer : u # t => g[u] = lf[u]
    BY <1>1
  <1> HIDE DEF g
  <1>6. \A j \in 1..N : l[j] # t /\ g[l[j]] = lf[l[j]]
    BY <1>1, <1>5
  <1>7. \A i, j \in 1..N : /\ l[i] = l[j] => i = j
                           /\ i <= j => lf[l[i]] <= lf[l[j]]
    BY <1>1 DEF Times
  <1>8. \A j \in 1..N : /\ lf[l[j]] <= LongestDelay(use)
                        /\ dl[l[j]] = IF j = 1 THEN lf[l[1]] + n ELSE lf[l[j]] - lf[l[j - 1]]
    BY <1>1 DEF Times
  <1>9. ASSUME NEW j \in 1..(N + 1)
        PROVE  \/ j < k /\ j \in 1..N /\ r[j] = l[j] /\ g[r[j]] = lf[l[j]]
               \/ j = k /\ r[j] = t /\ g[r[j]] = c
               \/ j > k /\ j - 1 \in 1..N /\ r[j] = l[j - 1] /\ g[r[j]] = lf[l[j - 1]]
    <2>1. r[j] = IF j < k THEN l[j] ELSE IF j = k THEN t ELSE l[j - 1]
      BY <1>3
    <2>2. CASE j < k
      <3>1. j \in 1..N
        BY <1>1, <2>2
      <3>2. QED
        BY <1>6, <2>1, <2>2, <3>1
    <2>3. CASE j = k
      BY <1>5, <2>1, <2>3
    <2>4. CASE j > k
      <3>1. j - 1 \in 1..N /\ ~(j < k) /\ j # k
        BY <1>1, <2>4
      <3>2. QED
        BY <1>6, <2>1, <2>4, <3>1
    <2>5. QED
      BY <1>1, <2>2, <2>3, <2>4
  <1>10. g \in [Timer -> Int \cup {Off}]
         /\ \A u \in Timer : g[u] # Off <=> \E j \in 1..(N + 1) : r[j] = u
    <2>1. ASSUME NEW u \in Timer, g[u] # Off PROVE \E j \in 1..(N + 1) : r[j] = u
      <3>1. CASE u = t
        <4>1. k \in 1..(N + 1) /\ r[k] = t
          BY <1>3
        <4>2. QED
          BY <3>1, <4>1
      <3>2. CASE u # t
        <4>1. PICK j \in 1..N : l[j] = u
          <5>1. lf[u] # Off
            BY <1>5, <2>1, <3>2
          <5>2. QED
            BY <1>1, <5>1 DEF Times
        <4>2. CASE j < k
          <5>1. j \in 1..(N + 1) /\ r[j] = l[j]
            <6>1. j \in 1..(N + 1)
              BY <1>1
            <6>2. r[j] = IF j < k THEN l[j] ELSE IF j = k THEN t ELSE l[j - 1]
              BY <1>3, <6>1
            <6>3. QED
              BY <4>2, <6>1, <6>2
          <5>2. QED
            BY <4>1, <5>1
        <4>3. CASE j >= k
          <5>1. j + 1 \in 1..(N + 1) /\ ~(j + 1 < k) /\ j + 1 # k /\ (j + 1) - 1 = j
            BY <1>1, <4>3
          <5>2. r[j + 1] = l[j]
            BY <1>3, <5>1
          <5>3. QED
            BY <4>1, <5>1, <5>2
        <4>4. QED
          BY <1>1, <4>2, <4>3
      <3>3. QED
        BY <3>1, <3>2
    <2>2. ASSUME NEW u \in Timer, NEW j \in 1..(N + 1), r[j] = u PROVE g[u] # Off
      BY <1>1, <1>2, <1>9, <2>2
    <2>3. QED
      BY <1>5, <2>1, <2>2
  <1>11. ASSUME NEW i \in 1..(N + 1), NEW j \in 1..(N + 1)
         PROVE  r[i] = r[j] => i = j
    <2>1. r[i] = IF i < k THEN l[i] ELSE IF i = k THEN t ELSE l[i - 1]
      BY <1>3
    <2>2. r[j] = IF j < k THEN l[j] ELSE IF j = k THEN t ELSE l[j - 1]
      BY <1>3
    <2>3. /\ i < k => i \in 1..N
          /\ i > k => i - 1 \in 1..N
          /\ j < k => j \in 1..N
          /\ j > k => j - 1 \in 1..N
      BY <1>1
    <2>4. CASE i < k
      <3>1. CASE j < k
        BY <1>7, <2>1, <2>2, <2>3, <2>4, <3>1
      <3>2. CASE j = k
        BY <1>6, <2>1, <2>2, <2>3, <2>4, <3>2
      <3>3. CASE j > k
        <4>1. j - 1 \in 1..N /\ i \in 1..N /\ i # j - 1 /\ ~(j < k) /\ j # k
          BY <1>1, <2>3, <2>4, <3>3
        <4>2. QED
          BY <1>7, <2>1, <2>2, <2>4, <4>1
      <3>4. QED
        BY <1>1, <3>1, <3>2, <3>3
    <2>5. CASE i = k
      <3>1. CASE j < k
        BY <1>6, <2>1, <2>2, <2>3, <2>5, <3>1
      <3>2. CASE j = k
        BY <2>5, <3>2
      <3>3. CASE j > k
        <4>1. j - 1 \in 1..N /\ ~(j < k) /\ j # k
          BY <1>1, <2>3, <3>3
        <4>2. r[j] = l[j - 1] /\ r[i] = t
          BY <2>1, <2>2, <2>5, <4>1
        <4>3. QED
          BY <1>6, <4>1, <4>2
      <3>4. QED
        BY <1>1, <3>1, <3>2, <3>3
    <2>6. CASE i > k
      <3>1. i - 1 \in 1..N /\ r[i] = l[i - 1]
        <4>1. ~(i < k) /\ i # k
          BY <1>1, <2>6
        <4>2. QED
          BY <2>1, <2>3, <2>6, <4>1
      <3>2. CASE j < k
        <4>1. j \in 1..N /\ r[j] = l[j] /\ j # i - 1
          BY <1>1, <2>2, <2>3, <2>6, <3>2
        <4>2. QED
          BY <1>7, <3>1, <4>1
      <3>3. CASE j = k
        <4>1. r[j] = t
          BY <1>1, <2>2, <3>3
        <4>2. QED
          BY <1>6, <3>1, <4>1
      <3>4. CASE j > k
        <4>1. j - 1 \in 1..N /\ ~(j < k) /\ j # k
          BY <1>1, <2>3, <3>4
        <4>2. r[j] = l[j - 1]
          BY <2>2, <4>1
        <4>3. r[i] = r[j] => i - 1 = j - 1
          BY <1>7, <3>1, <4>1, <4>2
        <4>4. QED
          BY <4>3
      <3>5. QED
        BY <1>1, <3>2, <3>3, <3>4
    <2>7. QED
      BY <1>1, <2>4, <2>5, <2>6
  <1>12. ASSUME NEW i \in 1..(N + 1), NEW j \in 1..(N + 1), i <= j
         PROVE  g[r[i]] <= g[r[j]]
    <2>1. \A m \in k..N : c <= lf[l[m]]
      <3>1. ASSUME NEW m \in k..N PROVE c <= lf[l[m]]
        <4>1. k \in 1..N /\ m \in 1..N /\ k <= m
          BY <1>1
        <4>2. c <= lf[l[k]] /\ lf[l[k]] <= lf[l[m]]
          BY <1>7, <4>1
        <4>3. QED
          BY <1>1, <4>1, <4>2
      <3>2. QED
        BY <3>1
    <2>2. \/ i < k /\ i \in 1..N /\ i \in 1..(k - 1) /\ g[r[i]] = lf[l[i]]
          \/ i = k /\ g[r[i]] = c
          \/ i > k /\ i - 1 \in 1..N /\ g[r[i]] = lf[l[i - 1]]
      BY <1>9
    <2>3. \/ j < k /\ j \in 1..N /\ g[r[j]] = lf[l[j]]
          \/ j = k /\ g[r[j]] = c
          \/ j > k /\ j - 1 \in 1..N /\ j - 1 \in k..N /\ g[r[j]] = lf[l[j - 1]]
      BY <1>9
    <2>4. CASE i < k
      <3>1. CASE j < k
        BY <1>1, <1>7, <1>12, <2>2, <2>3, <2>4, <3>1
      <3>2. CASE j = k
        BY <1>1, <2>2, <2>3, <2>4, <3>2
      <3>3. CASE j > k
        <4>1. i <= j - 1
          BY <1>1, <2>4, <3>3
        <4>2. QED
          BY <1>1, <1>7, <2>2, <2>3, <2>4, <3>3, <4>1
      <3>4. QED
        BY <1>1, <3>1, <3>2, <3>3
    <2>5. CASE i = k
      <3>1. g[r[i]] = c
        BY <1>1, <2>2, <2>5
      <3>2. CASE j = k
        BY <1>1, <2>3, <3>1, <3>2
      <3>3. CASE j > k
        <4>1. j - 1 \in k..N /\ g[r[j]] = lf[l[j - 1]]
          BY <1>1, <2>3, <3>3
        <4>2. QED
          BY <2>1, <3>1, <4>1
      <3>4. QED
        BY <1>1, <1>12, <2>5, <3>2, <3>3
    <2>6. CASE i > k
      <3>1. j > k /\ i - 1 <= j - 1
        BY <1>1, <1>12, <2>6
      <3>2. /\ i - 1 \in 1..N /\ g[r[i]] = lf[l[i - 1]]
            /\ j - 1 \in 1..N /\ g[r[j]] = lf[l[j - 1]]
        BY <1>1, <2>2, <2>3, <2>6, <3>1
      <3>3. lf[l[i - 1]] <= lf[l[j - 1]]
        BY <1>7, <3>1, <3>2
      <3>4. QED
        BY <3>2, <3>3
    <2>7. QED
      BY <1>1, <2>4, <2>5, <2>6
  <1>13. \A u \in Timer : h[u] = IF u = t THEN dt
                                 ELSE IF k <= N /\ u = l[k] THEN dl[u] - dt ELSE dl[u]
    OBVIOUS
  <1>14. h[t] = dt /\ \A j \in 1..N : h[l[j]] = IF j = k THEN dl[l[k]] - dt ELSE dl[l[j]]
    <2>1. ASSUME NEW j \in 1..N PROVE h[l[j]] = IF j = k THEN dl[l[k]] - dt ELSE dl[l[j]]
      <3>1. l[j] \in Timer /\ l[j] # t
        BY <1>1, <1>6
      <3>2. h[l[j]] = IF k <= N /\ l[j] = l[k] THEN dl[l[j]] - dt ELSE dl[l[j]]
        BY <1>13, <3>1
      <3>3. k <= N => k \in 1..N
        BY <1>1
      <3>4. (k <= N /\ l[j] = l[k]) <=> j = k
        BY <1>1, <1>7, <3>3
      <3>5. QED
        BY <3>2, <3>4
    <2>2. QED
      BY <1>13, <2>1
  <1>15. k <= N => dl[l[k]] - dt = lf[l[k]] - c /\ dl[l[k]] - dt \in 0..(Modulus - 1)
    <2> SUFFICES ASSUME k <= N
                 PROVE  dl[l[k]] - dt = lf[l[k]] - c /\ dl[l[k]] - dt \in 0..(Modulus - 1)
      OBVIOUS
    <2>1. k \in 1..N /\ (k # 1 => k - 1 \in 1..N)
      BY <1>1
    <2>2. dl[l[k]] = IF k = 1 THEN lf[l[1]] + n ELSE lf[l[k]] - lf[l[k - 1]]
      BY <1>8, <2>1
    <2>3. c <= lf[l[k]] /\ lf[l[k]] \in Int /\ dl[l[k]] \in 0..(Modulus - 1)
      BY <1>1, <2>1
    <2>4. k # 1 => lf[l[k - 1]] \in Int
      BY <1>1, <2>1
    <2>5. dl[l[k]] - dt = lf[l[k]] - c
      <3> DEFINE x == lf[l[k]]
                 y == lf[l[k - 1]]
                 z == dl[l[k]]
      <3>1. /\ z = IF k = 1 THEN x + n ELSE x - y
            /\ dt = IF k = 1 THEN c + n ELSE c - y
            /\ x \in Int /\ (k # 1 => y \in Int) /\ c \in Int /\ n \in Int
        BY <2>1, <2>2, <2>3, <2>4
      <3> HIDE DEF x, y, z
      <3>2. z - dt = x - c
        BY <3>1
      <3>3. QED
        BY <3>2 DEF x, z
    <2>6. ASSUME NEW a \in 0..(Modulus - 1), NEW x \in Int, NEW y \in Int, y <= x, a - dt = x - y
          PROVE  a - dt \in 0..(Modulus - 1)
      BY <1>2, <2>6
    <2>7. QED
      BY <2>3, <2>5, <2>6
  <1>16. h \in [Timer -> 0..(Modulus - 1)]
    <2>1. \A u \in Timer : h[u] \in 0..(Modulus - 1)
      <3>1. ASSUME NEW u \in Timer PROVE h[u] \in 0..(Modulus - 1)
        <4>1. h[u] = IF u = t THEN dt ELSE IF k <= N /\ u = l[k] THEN dl[u] - dt ELSE dl[u]
          BY <1>13
        <4>2. dl[u] \in 0..(Modulus - 1)
          BY <1>1
        <4>3. QED
          BY <1>15, <4>1, <4>2
      <3>2. QED
        BY <3>1
    <2>2. QED
      BY <2>1
  <1>17. ASSUME NEW j \in 1..(N + 1)
         PROVE  /\ g[r[j]] <= LongestDelay(use)
                /\ h[r[j]] = IF j = 1 THEN g[r[1]] + n ELSE g[r[j]] - g[r[j - 1]]
    <2>1. g[r[j]] <= LongestDelay(use)
      BY <1>1, <1>8, <1>9
    <2>2. CASE j = k
      <3>1. r[j] = t /\ g[r[j]] = c /\ h[r[j]] = dt
        BY <1>3, <1>5, <1>14, <2>2
      <3>2. j # 1 => j - 1 \in 1..N /\ j - 1 \in 1..(N + 1) /\ j - 1 < k
        BY <1>1, <2>2
      <3>3. j # 1 => g[r[j - 1]] = lf[l[j - 1]]
        BY <1>3, <1>6, <3>2
      <3>4. QED
        BY <2>1, <2>2, <3>1, <3>3
    <2>3. CASE j < k
      <3>1. j \in 1..N /\ r[j] = l[j] /\ g[r[j]] = lf[l[j]] /\ j # k
        BY <1>1, <1>9, <2>3
      <3>2. h[r[j]] = dl[l[j]]
        BY <1>14, <3>1
      <3>3. j # 1 => j - 1 \in 1..N /\ j - 1 \in 1..(N + 1) /\ j - 1 < k
        BY <1>1, <2>3
      <3>4. j # 1 => g[r[j - 1]] = lf[l[j - 1]]
        BY <1>3, <1>6, <3>3
      <3>5. QED
        BY <1>8, <2>1, <3>1, <3>2, <3>4
    <2>4. CASE j > k
      <3>1. j - 1 \in 1..N /\ r[j] = l[j - 1] /\ g[r[j]] = lf[l[j - 1]] /\ j # 1
        BY <1>1, <1>9, <2>4
      <3>2. CASE j - 1 = k
        <4>1. h[r[j]] = lf[l[k]] - c
          BY <1>1, <1>14, <1>15, <3>1, <3>2
        <4>2. r[j - 1] = t
          BY <1>3, <3>2
        <4>3. QED
          BY <1>5, <2>1, <3>1, <3>2, <4>1, <4>2
      <3>3. CASE j - 1 # k
        <4>1. /\ j - 1 \in 1..(N + 1) /\ ~(j - 1 < k) /\ (j - 1) - 1 \in 1..N /\ (j - 1) - 1 = j - 2
              /\ j - 1 # 1
          BY <1>1, <2>4, <3>3
        <4>2. r[j - 1] = l[j - 2] /\ g[r[j - 1]] = lf[l[j - 2]]
          BY <1>3, <1>6, <3>3, <4>1
        <4>3. h[r[j]] = dl[l[j - 1]]
          BY <1>14, <3>1, <3>3
        <4>4. dl[l[j - 1]] = lf[l[j - 1]] - lf[l[j - 2]]
          BY <1>8, <3>1, <4>1
        <4>5. QED
          BY <2>1, <3>1, <4>2, <4>3, <4>4
      <3>4. QED
        BY <3>2, <3>3
    <2>5. QED
      BY <1>1, <2>2, <2>3, <2>4
  <1>18. Times(r, h, g, n)
    BY <1>3, <1>4, <1>10, <1>11, <1>12, <1>16, <1>17 DEF Times
  <1>19. QED
    BY <1>18 DEF r, g
\* r is l without its p-th timer.
Without(r, l, p) ==
    /\ r \in Seq(Timer) /\ Len(r) = Len(l) - 1
    /\ \A j \in 1..(Len(l) - 1) : r[j] = IF j < p THEN l[j] ELSE l[j + 1]

\* What Times says of the order, with the times of the timers left as they were.
InOrder(r, g, lf) ==
    /\ g \in [Timer -> Int \cup {Off}]
    /\ \A t \in Timer : g[t] # Off <=> \E j \in DOMAIN r : r[j] = t
    /\ \A j, k \in DOMAIN r : /\ r[j] = r[k] => j = k
                              /\ j <= k => g[r[j]] <= g[r[k]]
    /\ \A j \in DOMAIN r : /\ r[j] \in Timer /\ g[r[j]] = lf[r[j]] /\ g[r[j]] \in Int
                           /\ g[r[j]] <= LongestDelay(use)

\* A timer is taken out, and the others keep their order and their time.
LEMMA RemoveOrder ==
  ASSUME use \in Uses, NEW l, NEW dl, NEW lf, NEW n \in Int, Times(l, dl, lf, n),
         NEW p \in 1..Len(l), NEW r, Without(r, l, p)
  PROVE  /\ InOrder(r, [lf EXCEPT ![l[p]] = Off], lf)
         /\ DOMAIN r = 1..(Len(l) - 1) /\ \A j \in DOMAIN r : r[j] # l[p]
  <1> DEFINE N == Len(l)
             g == [lf EXCEPT ![l[p]] = Off]
             q(j) == IF j < p THEN j ELSE j + 1
  <1>1. /\ l \in Seq(Timer) /\ N \in Nat /\ DOMAIN l = 1..N
        /\ lf \in [Timer -> Int \cup {Off}]
        /\ \A j \in 1..N : l[j] \in Timer /\ lf[l[j]] \in Int /\ lf[l[j]] # Off
    BY TimesType
  <1>2. DOMAIN r = 1..(N - 1)
    BY <1>1 DEF Without
  <1>3. \A i, j \in 1..N : /\ l[i] = l[j] => i = j
                           /\ i <= j => lf[l[i]] <= lf[l[j]]
    BY <1>1 DEF Times
  <1>4. \A j \in 1..N : lf[l[j]] <= LongestDelay(use)
    BY <1>1 DEF Times
  <1>5. \A t \in Timer : lf[t] # Off <=> \E j \in 1..N : l[j] = t
    BY <1>1 DEF Times
  <1>6. \A j \in 1..(N - 1) : q(j) \in 1..N /\ q(j) # p /\ r[j] = l[q(j)]
    BY <1>1 DEF Without
  <1>7. \A i, j \in 1..(N - 1) : (q(i) = q(j) => i = j) /\ (i <= j => q(i) <= q(j))
    BY <1>1
  <1>8. \A m \in 1..N : m # p => \E j \in 1..(N - 1) : q(j) = m
    <2>1. ASSUME NEW m \in 1..N, m < p PROVE \E j \in 1..(N - 1) : q(j) = m
      <3>1. m \in 1..(N - 1) /\ q(m) = m
        BY <1>1, <2>1
      <3>2. QED
        BY <3>1
    <2>2. ASSUME NEW m \in 1..N, m > p PROVE \E j \in 1..(N - 1) : q(j) = m
      <3>1. m - 1 \in 1..(N - 1) /\ q(m - 1) = m
        BY <1>1, <2>2
      <3>2. QED
        BY <3>1
    <2>3. QED
      BY <1>1, <2>1, <2>2
  <1> HIDE DEF q, N
  <1>9. g \in [Timer -> Int \cup {Off}] /\ g[l[p]] = Off /\ l[p] \in Timer
        /\ \A t \in Timer : t # l[p] => g[t] = lf[t]
    <2>1. l[p] \in Timer
      BY <1>1 DEF N
    <2>2. QED
      BY <1>1, <2>1
  <1> HIDE DEF g
  <1>10. p \in 1..N
    BY DEF N
  <1>11. \A j \in 1..(N - 1) :
              /\ r[j] \in Timer /\ r[j] # l[p] /\ g[r[j]] = lf[r[j]] /\ g[r[j]] \in Int
              /\ g[r[j]] <= LongestDelay(use)
    <2> SUFFICES ASSUME NEW j \in 1..(N - 1)
                 PROVE  /\ r[j] \in Timer /\ r[j] # l[p] /\ g[r[j]] = lf[r[j]] /\ g[r[j]] \in Int
                        /\ g[r[j]] <= LongestDelay(use)
      OBVIOUS
    <2>1. q(j) \in 1..N /\ q(j) # p /\ r[j] = l[q(j)]
      BY <1>6
    <2>2. r[j] # l[p] /\ r[j] \in Timer /\ lf[r[j]] \in Int /\ lf[r[j]] <= LongestDelay(use)
      BY <1>1, <1>3, <1>4, <1>10, <2>1
    <2>3. QED
      BY <1>9, <2>2
  <1>12. ASSUME NEW t \in Timer
         PROVE  g[t] # Off <=> \E j \in 1..(N - 1) : r[j] = t
    <2>1. ASSUME g[t] # Off PROVE \E j \in 1..(N - 1) : r[j] = t
      <3>1. t # l[p] /\ lf[t] # Off
        BY <1>9, <2>1
      <3>2. PICK m \in 1..N : l[m] = t
        BY <1>5, <3>1
      <3>3. PICK j \in 1..(N - 1) : q(j) = m
        BY <1>8, <3>1, <3>2
      <3>4. QED
        BY <1>6, <3>2, <3>3
    <2>2. ASSUME NEW j \in 1..(N - 1), r[j] = t PROVE g[t] # Off
      BY <1>11, <2>2, VirtualTimersAssumption
    <2>3. QED
      BY <2>1, <2>2
  <1>13. ASSUME NEW i \in 1..(N - 1), NEW j \in 1..(N - 1)
         PROVE  /\ r[i] = r[j] => i = j
                /\ i <= j => g[r[i]] <= g[r[j]]
    <2>1. /\ q(i) \in 1..N /\ r[i] = l[q(i)] /\ g[r[i]] = lf[r[i]]
          /\ q(j) \in 1..N /\ r[j] = l[q(j)] /\ g[r[j]] = lf[r[j]]
      BY <1>6, <1>11
    <2>2. (q(i) = q(j) => i = j) /\ (i <= j => q(i) <= q(j))
      BY <1>7
    <2>3. QED
      BY <1>3, <2>1, <2>2
  <1>14. QED
    <2>1. InOrder(r, g, lf)
      BY <1>2, <1>9, <1>11, <1>12, <1>13 DEF InOrder
    <2>2. \A j \in DOMAIN r : r[j] # l[p]
      BY <1>2, <1>11
    <2>3. QED
      BY <1>2, <2>1, <2>2 DEF N, g

\* Its delta goes to the next one.
LEMMA RemoveTimes ==
  ASSUME use \in Uses, NEW l, NEW dl, NEW lf, NEW n \in Int, Times(l, dl, lf, n),
         NEW p \in 1..Len(l), p < Len(l) => dl[l[p + 1]] + dl[l[p]] < Modulus,
         NEW h, h = [u \in Timer |-> IF u = l[p] THEN 0
                                     ELSE IF p < Len(l) /\ u = l[p + 1] THEN Mod(dl[u] + dl[l[p]])
                                     ELSE dl[u]]
  PROVE  Times(RemoveAt(l, p), h, [lf EXCEPT ![l[p]] = Off], n)
  <1> DEFINE N == Len(l)
             r == RemoveAt(l, p)
             g == [lf EXCEPT ![l[p]] = Off]
  <1>1. /\ l \in Seq(Timer) /\ N \in Nat /\ DOMAIN l = 1..N
        /\ dl \in [Timer -> 0..(Modulus - 1)] /\ lf \in [Timer -> Int \cup {Off}]
        /\ \A j \in 1..N : /\ l[j] \in Timer /\ lf[l[j]] \in Int
                           /\ dl[l[j]] \in 0..(Modulus - 1)
    BY TimesType
  <1>2. Modulus \in Nat /\ Modulus > 0
    BY Numbers
  <1>3. /\ r \in Seq(Timer) /\ Len(r) = N - 1
        /\ \A j \in 1..(N - 1) : r[j] = IF j < p THEN l[j] ELSE l[j + 1]
    <2>1. /\ RemoveAt(l, p) \in Seq(Timer) /\ Len(RemoveAt(l, p)) = Len(l) - 1
          /\ \A j \in 1..(Len(l) - 1) : RemoveAt(l, p)[j] = IF j < p THEN l[j] ELSE l[j + 1]
      <3> HIDE DEF r, N, g
      <3> QED BY <1>1, RemoveAtIs
    <2>2. QED
      BY <2>1
  <1> HIDE DEF r
  <1>4. /\ g \in [Timer -> Int \cup {Off}] /\ DOMAIN r = 1..(N - 1)
        /\ \A t \in Timer : g[t] # Off <=> \E j \in DOMAIN r : r[j] = t
        /\ \A j, k \in DOMAIN r : /\ r[j] = r[k] => j = k
                                  /\ j <= k => g[r[j]] <= g[r[k]]
        /\ \A j \in 1..(N - 1) :
              /\ r[j] \in Timer /\ r[j] # l[p] /\ g[r[j]] = lf[r[j]] /\ g[r[j]] \in Int
              /\ g[r[j]] <= LongestDelay(use)
    <2>1. Without(r, l, p)
      BY <1>3 DEF Without
    <2> HIDE DEF g, N
    <2>2. InOrder(r, [lf EXCEPT ![l[p]] = Off], lf) /\ DOMAIN r = 1..(Len(l) - 1)
          /\ \A j \in DOMAIN r : r[j] # l[p]
      BY <2>1, RemoveOrder
    <2>3. InOrder(r, g, lf) /\ DOMAIN r = 1..(N - 1) /\ \A j \in DOMAIN r : r[j] # l[p]
      BY <2>2 DEF g, N
    <2>4. QED
      BY <2>3 DEF InOrder
  <1> HIDE DEF g
  <1>5. \A i, j \in 1..N : l[i] = l[j] => i = j
    BY <1>1 DEF Times
  <1>6. \A j \in 1..N : dl[l[j]] = IF j = 1 THEN lf[l[1]] + n ELSE lf[l[j]] - lf[l[j - 1]]
    BY <1>1 DEF Times
  <1>7. p \in 1..N
    OBVIOUS
  <1>8. p < N => p + 1 \in 1..N /\ Mod(dl[l[p + 1]] + dl[l[p]]) = dl[l[p + 1]] + dl[l[p]]
    <2> SUFFICES ASSUME p < N
                 PROVE  p + 1 \in 1..N /\ Mod(dl[l[p + 1]] + dl[l[p]]) = dl[l[p + 1]] + dl[l[p]]
      OBVIOUS
    <2>1. p + 1 \in 1..N
      BY <1>1
    <2>2. dl[l[p + 1]] \in 0..(Modulus - 1) /\ dl[l[p]] \in 0..(Modulus - 1)
      BY <1>1, <1>7, <2>1
    <2>3. dl[l[p + 1]] + dl[l[p]] \in 0..(Modulus - 1)
      BY <1>2, <2>2
    <2>4. QED
      BY <2>1, <2>3, ModIs
  <1>9. \A u \in Timer : h[u] = IF u = l[p] THEN 0
                                ELSE IF p < N /\ u = l[p + 1] THEN Mod(dl[u] + dl[l[p]])
                                ELSE dl[u]
    OBVIOUS
  <1>10. h \in [Timer -> 0..(Modulus - 1)]
    <2>1. ASSUME NEW u \in Timer PROVE h[u] \in 0..(Modulus - 1)
      <3>1. Mod(dl[u] + dl[l[p]]) \in 0..(Modulus - 1) /\ dl[u] \in 0..(Modulus - 1)
        <4>1. dl[u] \in 0..(Modulus - 1) /\ dl[l[p]] \in 0..(Modulus - 1)
          BY <1>1, <1>7
        <4>2. dl[u] + dl[l[p]] \in Int
          BY <4>1
        <4>3. QED
          BY <4>1, <4>2, ModIs
      <3>2. 0 \in 0..(Modulus - 1)
        BY <1>2
      <3>3. QED
        BY <1>9, <3>1, <3>2
    <2>2. QED
      BY <2>1
  <1> HIDE DEF N
  <1>11. ASSUME NEW j \in 1..(N - 1)
         PROVE  h[r[j]] = IF j = 1 THEN g[r[1]] + n ELSE g[r[j]] - g[r[j - 1]]
    <2>1. r[j] = (IF j < p THEN l[j] ELSE l[j + 1]) /\ r[j] \in Timer /\ r[j] # l[p] /\ g[r[j]] = lf[r[j]]
      BY <1>3, <1>4
    <2>2. j # 1 => /\ j - 1 \in 1..(N - 1) /\ r[j - 1] = (IF j - 1 < p THEN l[j - 1] ELSE l[j])
                   /\ g[r[j - 1]] = lf[r[j - 1]]
      <3>1. j # 1 => j - 1 \in 1..(N - 1) /\ (j - 1) + 1 = j
        BY <1>1
      <3>2. QED
        BY <1>3, <1>4, <3>1
    <2>3. CASE j < p
      <3>1. j \in 1..N /\ (j # 1 => j - 1 \in 1..N /\ j - 1 < p) /\ r[j] = l[j]
        BY <1>1, <1>7, <2>1, <2>3
      <3>2. ~(p < N /\ r[j] = l[p + 1])
        <4>1. p < N => p + 1 # j
          BY <1>7, <2>3
        <4>2. QED
          BY <1>5, <1>8, <3>1, <4>1
      <3>3. h[r[j]] = dl[l[j]]
        BY <1>9, <2>1, <3>1, <3>2
      <3>4. QED
        BY <1>6, <2>1, <2>2, <3>1, <3>3
    <2>4. CASE j = p
      <3>1. p < N /\ r[j] = l[p + 1]
        BY <1>1, <2>1, <2>4
      <3>2. h[r[j]] = dl[l[p + 1]] + dl[l[p]]
        BY <1>8, <1>9, <2>1, <3>1
      <3>3. p + 1 # 1 /\ (p + 1) - 1 = p /\ p + 1 \in 1..N
        BY <1>7, <1>8, <3>1
      <3>4. dl[l[p + 1]] = lf[l[p + 1]] - lf[l[p]]
        BY <1>6, <3>3
      <3>5. dl[l[p]] = IF p = 1 THEN lf[l[1]] + n ELSE lf[l[p]] - lf[l[p - 1]]
        BY <1>6, <1>7
      <3>6. lf[l[p]] \in Int /\ lf[l[p + 1]] \in Int /\ g[r[j]] = lf[l[p + 1]]
        BY <1>1, <1>7, <2>1, <3>1, <3>3
      <3>7. CASE j = 1
        BY <2>4, <3>2, <3>4, <3>5, <3>6, <3>7
      <3>8. CASE j # 1
        <4>1. g[r[j - 1]] = lf[l[p - 1]] /\ lf[l[p - 1]] \in Int
          <5>1. p - 1 \in 1..N /\ j - 1 < p /\ j - 1 = p - 1
            BY <1>1, <1>7, <2>4, <3>8
          <5>2. QED
            BY <1>1, <2>2, <3>8, <5>1
        <4>2. QED
          BY <2>4, <3>2, <3>4, <3>5, <3>6, <3>8, <4>1
      <3>9. QED
        BY <3>7, <3>8
    <2>5. CASE j > p
      <3>1. /\ r[j] = l[j + 1] /\ j + 1 \in 1..N /\ j + 1 # p + 1 /\ j # 1
            /\ ~(j - 1 < p) /\ (j + 1) - 1 = j /\ j + 1 # 1
        <4>1. r[j] = l[j + 1]
          BY <1>1, <1>7, <2>1, <2>5
        <4>2. QED
          BY <1>1, <1>7, <2>5, <4>1
      <3>2. ~(p < N /\ r[j] = l[p + 1])
        BY <1>5, <1>8, <3>1
      <3>3. h[r[j]] = dl[l[j + 1]]
        BY <1>9, <2>1, <3>1, <3>2
      <3>4. dl[l[j + 1]] = lf[l[j + 1]] - lf[l[j]]
        BY <1>6, <3>1
      <3>5. QED
        BY <2>1, <2>2, <3>1, <3>3, <3>4
    <2>6. QED
      BY <1>1, <1>7, <2>3, <2>4, <2>5
  <1>12. Times(r, h, g, n)
    BY <1>3, <1>4, <1>10, <1>11 DEF Times
  <1>13. QED
    BY <1>12 DEF r, g

\* The first timer fires, and its deadline becomes the base.
LEMMA FireTimes ==
  ASSUME use \in Uses, NEW l, NEW dl, NEW lf, NEW n \in Int, Times(l, dl, lf, n), l # <<>>
  PROVE  Times(Tail(l), [dl EXCEPT ![l[1]] = 0], [lf EXCEPT ![l[1]] = Off], n - dl[l[1]])
  <1> DEFINE N == Len(l)
             r == Tail(l)
             g == [lf EXCEPT ![l[1]] = Off]
             h == [dl EXCEPT ![l[1]] = 0]
  <1>1. /\ l \in Seq(Timer) /\ N \in Nat /\ DOMAIN l = 1..N
        /\ dl \in [Timer -> 0..(Modulus - 1)] /\ lf \in [Timer -> Int \cup {Off}]
        /\ \A j \in 1..N : l[j] \in Timer /\ lf[l[j]] \in Int
    BY TimesType
  <1>2. 1 \in 1..N
    BY <1>1
  <1>3. /\ r \in Seq(Timer) /\ Len(r) = N - 1
        /\ \A j \in 1..(N - 1) : r[j] = l[j + 1]
    BY <1>1
  <1>4. /\ Modulus \in Nat /\ Modulus > 0 /\ dl[l[1]] = lf[l[1]] + n /\ l[1] \in Timer
    <2>1. dl[l[1]] = lf[l[1]] + n
      BY <1>1, <1>2 DEF Times
    <2>2. QED
      BY <1>1, <1>2, <2>1, Numbers
  <1> HIDE DEF r
  <1>5. /\ g \in [Timer -> Int \cup {Off}] /\ DOMAIN r = 1..(N - 1)
        /\ \A t \in Timer : g[t] # Off <=> \E j \in DOMAIN r : r[j] = t
        /\ \A j, k \in DOMAIN r : /\ r[j] = r[k] => j = k
                                  /\ j <= k => g[r[j]] <= g[r[k]]
        /\ \A j \in 1..(N - 1) :
              /\ r[j] \in Timer /\ r[j] # l[1] /\ g[r[j]] = lf[r[j]] /\ g[r[j]] \in Int
              /\ g[r[j]] <= LongestDelay(use)
    <2>1. Without(r, l, 1)
      BY <1>1, <1>3 DEF Without
    <2>2. 1 \in 1..Len(l)
      BY <1>2
    <2> HIDE DEF g, N
    <2>3. InOrder(r, [lf EXCEPT ![l[1]] = Off], lf) /\ DOMAIN r = 1..(Len(l) - 1)
          /\ \A j \in DOMAIN r : r[j] # l[1]
      BY <2>1, <2>2, RemoveOrder
    <2>4. InOrder(r, g, lf) /\ DOMAIN r = 1..(N - 1) /\ \A j \in DOMAIN r : r[j] # l[1]
      BY <2>3 DEF g, N
    <2>5. QED
      BY <2>4 DEF InOrder
  <1>6. h \in [Timer -> 0..(Modulus - 1)] /\ \A t \in Timer : t # l[1] => h[t] = dl[t]
    <2>1. 0 \in 0..(Modulus - 1)
      BY <1>4
    <2>2. QED
      BY <1>1, <1>4, <2>1
  <1> HIDE DEF g, h
  <1>7. ASSUME NEW j \in 1..(N - 1)
        PROVE  h[r[j]] = IF j = 1 THEN g[r[1]] + (n - dl[l[1]]) ELSE g[r[j]] - g[r[j - 1]]
    <2>1. /\ r[j] = l[j + 1] /\ h[r[j]] = dl[l[j + 1]] /\ g[r[j]] = lf[l[j + 1]]
          /\ j + 1 \in 1..N /\ j + 1 # 1 /\ (j + 1) - 1 = j /\ j \in 1..N
      <3>1. r[j] = l[j + 1] /\ r[j] \in Timer /\ r[j] # l[1] /\ g[r[j]] = lf[r[j]]
        BY <1>3, <1>5
      <3>2. h[r[j]] = dl[r[j]]
        BY <1>6, <3>1
      <3>3. j + 1 \in 1..N /\ j + 1 # 1 /\ (j + 1) - 1 = j /\ j \in 1..N
        BY <1>1
      <3>4. QED
        BY <3>1, <3>2, <3>3
    <2>2. dl[l[j + 1]] = lf[l[j + 1]] - lf[l[j]] /\ lf[l[j]] \in Int /\ lf[l[j + 1]] \in Int
      <3>1. dl[l[j + 1]] = IF j + 1 = 1 THEN lf[l[1]] + n ELSE lf[l[j + 1]] - lf[l[(j + 1) - 1]]
        BY <1>1, <2>1 DEF Times
      <3>2. QED
        BY <1>1, <2>1, <3>1
    <2>3. CASE j = 1
      BY <1>4, <2>1, <2>2, <2>3
    <2>4. CASE j # 1
      <3>1. j - 1 \in 1..(N - 1) /\ (j - 1) + 1 = j
        BY <1>1, <2>4
      <3>2. g[r[j - 1]] = lf[l[j]]
        BY <1>3, <1>5, <3>1
      <3>3. QED
        BY <2>1, <2>2, <2>4, <3>2
    <2>5. QED
      BY <2>3, <2>4
  <1>8. Times(r, h, g, n - dl[l[1]])
    BY <1>3, <1>5, <1>6, <1>7 DEF Times
  <1>9. QED
    BY <1>8 DEF r, g, h
----------------------------------------------------------------------------
(* The age of the base.                                                    *)

LEMMA FirstInReach ==
  ASSUME use \in Uses, NEW l, NEW dl, NEW lf, NEW n \in Int, Times(l, dl, lf, n),
         Room(lf, n), l # <<>>
  PROVE  /\ lf[l[1]] \in Int /\ lf[l[1]] + n <= Reach /\ dl[l[1]] = lf[l[1]] + n
         /\ dl[l[1]] \in 0..(Modulus - 1) /\ lf[l[1]] <= LongestDelay(use)
  <1>1. /\ Len(l) \in Nat /\ DOMAIN l = 1..Len(l) /\ Len(l) > 0
        /\ \A k \in 1..Len(l) : /\ l[k] \in Timer /\ lf[l[k]] \in Int /\ lf[l[k]] # Off
                                /\ dl[l[k]] \in 0..(Modulus - 1)
    BY TimesType
  <1>2. 1 \in 1..Len(l)
    BY <1>1
  <1>3. dl[l[1]] = lf[l[1]] + n /\ lf[l[1]] <= LongestDelay(use)
    BY <1>1, <1>2 DEF Times
  <1> DEFINE D == LongestDelay(use)
  <1>6. /\ D \in Int /\ MaxLateness \in Nat /\ Reach \in Int
        /\ D + MaxLateness <= Reach
    BY Numbers
  <1>7. lf[l[1]] \in Int /\ l[1] \in Timer /\ lf[l[1]] # Off
    BY <1>1, <1>2
  <1> HIDE DEF D
  <1>4. lf[l[1]] + n <= Reach
    <2>1. ASSUME NEW t \in Timer, lf[t] # Off, lf[t] + n <= Reach
          PROVE  lf[l[1]] + n <= Reach
      <3>1. \E j \in DOMAIN l : l[j] = t
        BY <2>1 DEF Times
      <3>2. PICK j \in DOMAIN l : l[j] = t
        BY <3>1
      <3>6. 1 \in DOMAIN l /\ 1 <= j
        BY <1>1, <1>2, <3>2
      <3>7. \A i, k \in DOMAIN l : i <= k => lf[l[i]] <= lf[l[k]]
        BY DEF Times
      <3>3. lf[l[1]] <= lf[l[j]]
        BY <3>2, <3>6, <3>7
      <3>4. lf[l[j]] \in Int
        BY <1>1, <3>2
      <3>5. QED
        BY <1>6, <1>7, <2>1, <3>2, <3>3, <3>4
    <2>2. ASSUME \A t \in Timer : lf[t] # Off => lf[t] + n <= D + MaxLateness
          PROVE  lf[l[1]] + n <= Reach
      <3>1. lf[l[1]] + n <= D + MaxLateness
        BY <1>7, <2>2
      <3>2. QED
        BY <1>6, <1>7, <3>1
    <2>3. QED
      BY <2>1, <2>2 DEF Room, D
  <1>5. QED
    BY <1>1, <1>2, <1>3, <1>4

LEMMA PassRoom ==
  ASSUME use \in Uses, NEW l, NEW dl, NEW lf, NEW n \in Int, Times(l, dl, lf, n), Room(lf, n)
  PROVE  Room(Pass(lf), n + 1)
  <1>1. \A t \in Timer : /\ Pass(lf)[t] # Off <=> lf[t] # Off
                         /\ lf[t] # Off => Pass(lf)[t] + (n + 1) = lf[t] + n
    <2>1. \A t \in Timer : lf[t] \in Int \cup {Off}
      BY TimesType
    <2>2. Off \notin Int
      BY VirtualTimersAssumption
    <2>3. \A t \in Timer : Pass(lf)[t] = IF lf[t] = Off THEN Off ELSE lf[t] - 1
      BY DEF Pass
    <2>4. QED
      BY <2>1, <2>2, <2>3
  <1>2. QED
    BY <1>1 DEF Room

LEMMA InsertRoom ==
  ASSUME use \in Uses, NEW l, NEW dl, NEW lf, NEW n \in Int, Times(l, dl, lf, n), Room(lf, n),
         l # <<>> => lf[l[1]] >= -MaxLateness, l = <<>> => n = 0,
         NEW t \in Timer, lf[t] = Off, NEW c \in Int, c <= LongestDelay(use)
  PROVE  Room([lf EXCEPT ![t] = c], n)
  <1> DEFINE g == [lf EXCEPT ![t] = c]
  <1>1. g[t] = c /\ \A u \in Timer : u # t => g[u] = lf[u]
    BY TimesType
  <1> HIDE DEF g
  <1>2. LongestDelay(use) \in Int /\ MaxLateness \in Nat
    BY Numbers
  <1>3. CASE \E u \in Timer : lf[u] # Off /\ u \notin use.resettable /\ lf[u] + n <= Reach
    <2>1. Room(g, n)
      BY <1>1, <1>3 DEF Room
    <2>2. QED
      BY <2>1 DEF g
  <1>4. CASE /\ \A u \in Timer : lf[u] # Off => lf[u] + n <= LongestDelay(use) + MaxLateness
             /\ l = <<>>
    <2>1. c + n <= LongestDelay(use) + MaxLateness
      BY <1>2, <1>4
    <2>2. Room(g, n)
      BY <1>1, <1>4, <2>1 DEF Room
    <2>3. QED
      BY <2>2 DEF g
  <1>5. CASE /\ \A u \in Timer : lf[u] # Off => lf[u] + n <= LongestDelay(use) + MaxLateness
             /\ ~\E u \in Timer : lf[u] # Off /\ u \notin use.resettable /\ lf[u] + n <= Reach
             /\ l # <<>>
    <2>1. l[1] \in Timer /\ lf[l[1]] \in Int /\ lf[l[1]] # Off
      <3>1. 1 \in 1..Len(l)
        BY <1>5, TimesType
      <3>2. QED
        BY <3>1, TimesType
    <2>2. lf[l[1]] + n <= LongestDelay(use) + MaxLateness
      BY <1>5, <2>1
    <2>3. Reach \in Int /\ LongestDelay(use) + MaxLateness <= Reach
      BY Numbers
    <2>4. l[1] \in use.resettable
      BY <1>2, <1>5, <2>1, <2>2, <2>3
    <2>5. t # l[1] /\ t \notin use.resettable /\ Reach = 2 * LongestDelay(use) + 2 * MaxLateness
      BY <2>1, <2>4, Numbers
    <2>6. c + n <= Reach
      BY <1>2, <1>5, <2>1, <2>2, <2>5
    <2>7. c # Off
      BY VirtualTimersAssumption
    <2>8. Room(g, n)
      BY <1>1, <2>5, <2>6, <2>7 DEF Room
    <2>9. QED
      BY <2>8 DEF g
  <1>6. QED
    BY <1>3, <1>4, <1>5 DEF Room

LEMMA RemoveRoom ==
  ASSUME NEW lf, NEW n, NEW t \in use.resettable, Room(lf, n), DOMAIN lf = Timer,
         use.resettable \subseteq Timer
  PROVE  Room([lf EXCEPT ![t] = Off], n)
  <1> DEFINE g == [lf EXCEPT ![t] = Off]
  <1>1. g[t] = Off /\ \A u \in Timer : u # t => g[u] = lf[u]
    OBVIOUS
  <1> HIDE DEF g
  <1>2. Room(g, n)
    BY <1>1 DEF Room
  <1>3. QED
    BY <1>2 DEF g

LEMMA FireRoom ==
  ASSUME use \in Uses, NEW l, NEW dl, NEW lf, NEW n \in Int, Times(l, dl, lf, n), l # <<>>,
         lf[l[1]] >= -MaxLateness
  PROVE  Room([lf EXCEPT ![l[1]] = Off], n - dl[l[1]])
  <1> DEFINE g == [lf EXCEPT ![l[1]] = Off]
  <1>1. /\ Len(l) \in Nat /\ DOMAIN l = 1..Len(l) /\ 1 \in 1..Len(l)
        /\ \A k \in 1..Len(l) : l[k] \in Timer /\ lf[l[k]] \in Int /\ lf[l[k]] # Off
    BY TimesType
  <1>2. g[l[1]] = Off /\ \A u \in Timer : u # l[1] => g[u] = lf[u]
    BY <1>1, TimesType
  <1> HIDE DEF g
  <1>3. n - dl[l[1]] <= MaxLateness /\ n - dl[l[1]] \in Int
    <2>1. dl[l[1]] = lf[l[1]] + n
      BY <1>1 DEF Times
    <2>2. MaxLateness \in Nat /\ lf[l[1]] \in Int
      BY <1>1, Numbers
    <2>3. QED
      BY <2>1, <2>2
  <1>4. ASSUME NEW u \in Timer, g[u] # Off
        PROVE  g[u] + (n - dl[l[1]]) <= LongestDelay(use) + MaxLateness
    <2>1. lf[u] # Off /\ g[u] = lf[u]
      BY <1>2, <1>4
    <2>2. \E j \in DOMAIN l : l[j] = u
      BY <2>1 DEF Times
    <2>3. PICK j \in DOMAIN l : l[j] = u
      BY <2>2
    <2>4. lf[l[j]] <= LongestDelay(use)
      BY <2>3 DEF Times
    <2>5. lf[l[j]] \in Int
      BY <1>1, <2>3
    <2>6. LongestDelay(use) \in Int /\ MaxLateness \in Nat
      BY Numbers
    <2>7. QED
      BY <1>3, <2>1, <2>3, <2>4, <2>5, <2>6
  <1>5. Room(g, n - dl[l[1]])
    BY <1>4 DEF Room
  <1>6. QED
    BY <1>5 DEF g

\* The counter e ticks later.
LEMMA CounterOn ==
  ASSUME NEW x \in 0..(Modulus - 1), NEW z \in 0..(Modulus - 1), NEW e \in 0..1,
         Mod(x - z) + e < Modulus
  PROVE  Mod(Mod(x + e) - z) = Mod(x - z) + e
  <1> DEFINE n == Mod(x - z)
             y == Mod(x + e)
             m == Mod(y - z)
  <1>1. Modulus \in Nat /\ Modulus > 0
    BY VirtualTimersAssumption
  <1>2. x - z \in Int /\ (x - z \in 0..(Modulus - 1) \/ x - z \in (-Modulus)..(-1))
    BY <1>1
  <1>3. n = IF x >= z THEN x - z ELSE x - z + Modulus
    BY <1>1, <1>2, ModIs
  <1>4. y = IF x + e = Modulus THEN 0 ELSE x + e
    <2>1. x + e \in 0..(Modulus - 1) \/ (x + e = Modulus /\ Modulus \in Modulus..(2 * Modulus - 1))
      BY <1>1
    <2>2. x + e \in Int
      BY <1>1
    <2>3. QED
      BY <1>1, <2>1, <2>2, ModIs
  <1>5. y \in 0..(Modulus - 1)
    <2> HIDE DEF y
    <2> QED BY <1>1, <1>4
  <1> HIDE DEF y
  <1>6. y - z \in Int /\ (y - z \in 0..(Modulus - 1) \/ y - z \in (-Modulus)..(-1))
    BY <1>1, <1>5
  <1>7. m = IF y >= z THEN y - z ELSE y - z + Modulus
    BY <1>1, <1>5, <1>6, ModIs
  <1>8. n + e < Modulus
    OBVIOUS
  <1> HIDE DEF m, n
  <1>9. m = n + e
    BY <1>1, <1>3, <1>4, <1>5, <1>7, <1>8
  <1>10. QED
    BY <1>9 DEF m, n, y

\* After an operation that left the list as described, and e more ticks.
LEMMA AfterTicks ==
  ASSUME use \in Uses, use' = use, lasttime' \in 0..(Modulus - 1), now \in 0..(Modulus - 1),
         NEW r, NEW h, NEW g, NEW e \in 0..1,
         Times(r, h, g, Mod(now - lasttime')), Room(g, Mod(now - lasttime')),
         r # <<>> => g[r[1]] - e >= -MaxLateness,
         now' = Mod(now + e), list' = r, delta' = h, left' = IF e = 0 THEN g ELSE Pass(g)
  PROVE  Times(list, delta, left, Elapsed)' /\ Room(left, Elapsed)'
  <1> DEFINE n == Mod(now - lasttime')
             m == Mod(now' - lasttime')
  <1>1. Modulus \in Nat /\ Modulus > 0
    BY Numbers
  <1>2. n \in 0..(Modulus - 1) /\ m \in 0..(Modulus - 1)
    <2>1. now + e \in Int /\ now - lasttime' \in Int
      BY <1>1
    <2>2. Mod(now + e) \in 0..(Modulus - 1)
      BY <2>1, ModIs
    <2>3. now' - lasttime' \in Int
      BY <1>1, <2>2
    <2>4. QED
      BY <2>1, <2>3, ModIs
  <1>3. n + e < Modulus => m = n + e
    BY CounterOn
  <1> HIDE DEF n, m
  <1>4. Times(r, h, g, n) /\ Room(g, n) /\ n \in Int
    BY <1>2 DEF n
  <1>5. Times(r, h, left', n + e) /\ Room(left', n + e)
    <2>1. CASE e = 0
      <3>1. n + e = n /\ left' = g
        BY <1>4, <2>1
      <3>2. QED
        BY <1>4, <3>1
    <2>2. CASE e = 1
      <3>1. n + e = n + 1 /\ left' = Pass(g)
        BY <2>2
      <3>2. QED
        BY <1>4, <3>1, PassTimes, PassRoom
    <2>3. QED
      BY <2>1, <2>2
  <1>6. Times(r, h, left', m) /\ Room(left', m)
    <2>1. CASE r = <<>>
      <3>1. DOMAIN r = {}
        BY <2>1
      <3>2. \A t \in Timer : left'[t] = Off
        BY <1>5, <3>1 DEF Times
      <3>3. QED
        BY <1>5, <3>1, <3>2 DEF Times, Room
    <2>2. CASE r # <<>>
      <3>1. g[r[1]] \in Int /\ g[r[1]] + n <= Reach
        BY <1>4, <2>2, FirstInReach
      <3>2. n + e < Modulus
        <4>1. Reach \in Int /\ MaxLateness \in Nat /\ Reach + MaxLateness < Modulus
          BY Numbers
        <4>2. n \in Int /\ g[r[1]] - e >= -MaxLateness
          BY <1>4, <2>2
        <4>3. QED
          BY <1>1, <3>1, <4>1, <4>2
      <3>3. QED
        BY <1>3, <1>5, <3>2
    <2>3. QED
      BY <2>1, <2>2
  <1>7. m = Elapsed'
    BY DEF m, Elapsed
  <1>8. Times(list, delta, left, Elapsed)'
    BY <1>6, <1>7 DEF Times
  <1>9. Room(left, Elapsed)'
    BY <1>6, <1>7 DEF Room, Reach
  <1>10. QED
    BY <1>8, <1>9
----------------------------------------------------------------------------
(* The alarm.                                                              *)

\* The counter shows y after Mod(y - x) ticks.
LEMMA CounterBack ==
  ASSUME NEW x \in 0..(Modulus - 1), NEW y \in 0..(Modulus - 1)
  PROVE  /\ Mod(y - x) \in 0..(Modulus - 1)
         /\ y = Mod(x + Mod(y - x))
  <1> DEFINE a == Mod(y - x)
  <1>1. Modulus \in Nat /\ Modulus > 0
    BY VirtualTimersAssumption
  <1>2. y - x \in Int /\ (y - x \in 0..(Modulus - 1) \/ y - x \in (-Modulus)..(-1))
    BY <1>1
  <1>3. a \in 0..(Modulus - 1) /\ a = IF y >= x THEN y - x ELSE y - x + Modulus
    BY <1>1, <1>2, ModIs
  <1> HIDE DEF a
  <1>4. x + a \in Int /\ x + a = IF y >= x THEN y ELSE y + Modulus
    BY <1>1, <1>3
  <1>5. x + a \in 0..(Modulus - 1) \/ x + a \in Modulus..(2 * Modulus - 1)
    BY <1>1, <1>4
  <1>6. Mod(x + a) = y
    BY <1>1, <1>4, <1>5, ModIs
  <1>7. QED
    BY <1>3, <1>6 DEF a

\* The sum is reduced once.
LEMMA ModMod ==
  ASSUME NEW p \in 0..(2 * Modulus - 1), NEW q \in (-Modulus)..(Modulus - 1),
         p + q \in (-Modulus)..(2 * Modulus - 1), Mod(p) + q \in (-Modulus)..(2 * Modulus - 1)
  PROVE  Mod(Mod(p) + q) = Mod(p + q)
  <1> DEFINE r == Mod(p)
  <1>1. Modulus \in Nat /\ Modulus > 0
    BY VirtualTimersAssumption
  <1>2. p \in Int /\ (p \in 0..(Modulus - 1) \/ p \in Modulus..(2 * Modulus - 1))
    BY <1>1
  <1>3. r \in 0..(Modulus - 1) /\ r = IF p < Modulus THEN p ELSE p - Modulus
    BY <1>1, <1>2, ModIs
  <1>a. r + q \in (-Modulus)..(2 * Modulus - 1)
    OBVIOUS
  <1> HIDE DEF r
  <1>4. ASSUME NEW n \in (-Modulus)..(2 * Modulus - 1)
        PROVE  Mod(n) = IF n < 0 THEN n + Modulus ELSE IF n < Modulus THEN n ELSE n - Modulus
    <2>1. n \in Int /\ (n \in 0..(Modulus - 1) \/ n \in Modulus..(2 * Modulus - 1)
                        \/ n \in (-Modulus)..(-1))
      BY <1>1
    <2>2. QED
      BY <1>1, <2>1, ModIs
  <1> DEFINE u == r + q
             v == p + q
  <1>5. /\ u \in (-Modulus)..(2 * Modulus - 1) /\ v \in (-Modulus)..(2 * Modulus - 1)
        /\ u = r + q /\ v = p + q
    BY <1>a
  <1> HIDE DEF u, v
  <1>6. /\ Mod(u) = IF u < 0 THEN u + Modulus ELSE IF u < Modulus THEN u ELSE u - Modulus
        /\ Mod(v) = IF v < 0 THEN v + Modulus ELSE IF v < Modulus THEN v ELSE v - Modulus
    BY <1>4, <1>5
  <1>7. Mod(u) = Mod(v)
    BY <1>1, <1>2, <1>3, <1>5, <1>6
  <1>8. QED
    BY <1>5, <1>7 DEF r

\* The first timer is not too late, nor after e ticks that the latency allows.
LEMMA NotTooLate ==
  ASSUME RegsInv, AlarmInv, list # <<>>, left[list[1]] \in Int, NEW e \in 0..1,
         Pending => latency + e <= MaxLatency
  PROVE  left[list[1]] - e >= -MaxLateness
  <1>1. /\ Modulus \in Nat /\ TIMEDELTA \in Nat /\ TIMEDELTA >= 2 /\ MaxLatency \in Nat
        /\ MaxLateness = TIMEDELTA - 1 + MaxLatency
    BY Numbers DEF RegsInv
  <1>2. latency \in Int /\ CCR \in 0..(Modulus - 1) /\ now \in 0..(Modulus - 1)
    BY <1>1 DEF RegsInv
  <1>3. CASE Pending
    <2>1. left[list[1]] >= 1 - TIMEDELTA - latency
      BY <1>3 DEF AlarmInv
    <2>2. QED
      BY <1>1, <1>2, <1>3, <2>1
  <1>4. CASE ~Pending
    <2>1. Mod(CCR - now) >= 1 /\ left[list[1]] >= Mod(CCR - now) + 1 - TIMEDELTA
      BY <1>4 DEF AlarmInv
    <2>2. Mod(CCR - now) \in 0..(Modulus - 1)
      BY <1>2, CounterBack
    <2> DEFINE a == Mod(CCR - now)
    <2> HIDE DEF a
    <2>3. a \in Int /\ a >= 1 /\ left[list[1]] >= a + 1 - TIMEDELTA
      BY <1>1, <2>1, <2>2 DEF a
    <2>4. QED
      BY <1>1, <2>3
  <1>5. QED
    BY <1>3, <1>4

LEMMA EndsRanges ==
  ASSUME now \in 0..(Modulus - 1), CCR \in 0..(Modulus - 1), latency \in 0..MaxLatency,
         NEW e \in 0..1, NEW set \in BOOLEAN, NEW alarm,
         set => alarm \in 0..(Modulus - 1), NEW start \in BOOLEAN, Ends(e, set, alarm, start)
  PROVE  /\ now' \in 0..(Modulus - 1) /\ CCR' \in 0..(Modulus - 1)
         /\ CC1IF' \in BOOLEAN /\ latency' \in 0..MaxLatency
  <1>1. Modulus \in Nat /\ MaxLatency \in Nat
    BY VirtualTimersAssumption
  <1>2. now' \in 0..(Modulus - 1)
    <2>1. now + e \in Int /\ now' = Mod(now + e)
      BY <1>1 DEF Ends
    <2>2. QED
      BY <2>1, ModIs
  <1>3. CCR' \in 0..(Modulus - 1)
    BY DEF Ends
  <1>4. CC1IF' \in BOOLEAN
    BY DEF Ends
  <1>5. latency' \in 0..MaxLatency
    BY <1>1 DEF Ends
  <1>6. QED
    BY <1>2, <1>3, <1>4, <1>5

LEMMA EndsRegs ==
  ASSUME RegsInv, NEW e \in 0..1, NEW set \in BOOLEAN, NEW alarm,
         set => alarm \in 0..(Modulus - 1), NEW start \in BOOLEAN, Ends(e, set, alarm, start)
  PROVE  /\ now' \in 0..(Modulus - 1) /\ CCR' \in 0..(Modulus - 1)
         /\ CC1IF' \in BOOLEAN /\ latency' \in 0..MaxLatency
  BY EndsRanges DEF RegsInv

\* An operation that sets the alarm a ticks ahead.
LEMMA AlarmSet ==
  ASSUME RegsInv, NEW e \in 0..1, NEW a \in (e + 1)..(Modulus - 1), NEW start \in BOOLEAN,
         Ends(e, TRUE, Mod(now + a), start),
         NEW f \in Int, f = left'[list'[1]], f + e >= a + 1 - TIMEDELTA
  PROVE  AlarmInv'
  <1>1. Modulus \in Nat /\ MaxLatency \in Nat /\ TIMEDELTA \in Nat /\ TIMEDELTA >= 2
    BY Numbers DEF RegsInv
  <1>2. now \in 0..(Modulus - 1) /\ a \in 0..(Modulus - 1) /\ e \in 0..(Modulus - 1) /\ e <= a
    BY <1>1 DEF RegsInv
  <1>3. CCR' = Mod(now + a) /\ now' = Mod(now + e)
    BY DEF Ends
  <1>4. Mod(CCR' - now') = a - e
    BY <1>2, <1>3, ModDiff
  <1>5. latency' \in 0..MaxLatency
    BY <1>1 DEF RegsInv, Ends
  <1>6. f >= 1 - TIMEDELTA - latency'
    BY <1>1, <1>5
  <1>7. a - e >= 1 /\ f >= (a - e) + 1 - TIMEDELTA
    BY <1>1
  <1>8. QED
    BY <1>4, <1>6, <1>7 DEF AlarmInv

\* An operation that leaves the alarm, and no timer first that is due earlier.
LEMMA AlarmLeft ==
  ASSUME RegsInv, AlarmInv, list # <<>>, left[list[1]] \in Int,
         NEW e \in 0..1, NEW alarm, Ends(e, FALSE, alarm, FALSE), isr' = isr, DIER',
         NEW f \in Int, f = left'[list'[1]], f + e >= left[list[1]]
  PROVE  AlarmInv'
  <1> DEFINE old == left[list[1]]
  <1>1. Modulus \in Nat /\ MaxLatency \in Nat /\ TIMEDELTA \in Nat /\ TIMEDELTA >= 2
    BY Numbers DEF RegsInv
  <1>2. now \in 0..(Modulus - 1) /\ CCR \in 0..(Modulus - 1) /\ latency \in 0..MaxLatency /\ DIER
    BY DEF RegsInv
  <1>3. CCR' = CCR /\ now' = Mod(now + e) /\ (CC1IF' <=> (CC1IF \/ (e = 1 /\ CCR = now')))
    BY DEF Ends
  <1>4. old \in Int /\ f + e >= old
    OBVIOUS
  <1>5. CASE Pending
    <2>1. old >= 1 - TIMEDELTA - latency
      BY <1>5 DEF AlarmInv
    <2>2. Pending'
      BY <1>2, <1>3, <1>5 DEF Pending
    <2>3. latency' = latency + e
      BY <1>5 DEF Ends, Pending
    <2> HIDE DEF old
    <2>4. f >= 1 - TIMEDELTA - latency'
      BY <1>1, <1>2, <1>4, <2>1, <2>3
    <2>5. QED
      BY <2>2, <2>4 DEF AlarmInv
  <1>6. CASE ~Pending
    <2> DEFINE a == Mod(CCR - now)
    <2>1. a \in 0..(Modulus - 1) /\ CCR = Mod(now + a)
      BY <1>2, CounterBack
    <2>2. a >= 1 /\ old >= a + 1 - TIMEDELTA
      BY <1>6 DEF AlarmInv
    <2> HIDE DEF a, old
    <2>3. latency' = 0
      BY <1>6 DEF Ends, Pending
    <2>4. ~CC1IF /\ ~isr
      BY <1>2, <1>6 DEF Pending
    <2>5. f >= a - e + 1 - TIMEDELTA
      BY <1>1, <1>4, <2>1, <2>2
    <2>6. CASE e = 1 /\ CCR = now'
      <3>1. Pending'
        BY <1>3, <2>6 DEF Pending
      <3>2. f >= 1 - TIMEDELTA - latency'
        BY <1>1, <2>1, <2>2, <2>3, <2>5
      <3>3. QED
        BY <3>1, <3>2 DEF AlarmInv
    <2>7. CASE ~(e = 1 /\ CCR = now')
      <3>1. ~Pending'
        BY <1>3, <2>4, <2>7 DEF Pending
      <3>2. a > e
        <4>1. ~(e = 1 /\ a = 1)
          BY <1>3, <2>1, <2>7
        <4>2. QED
          BY <1>1, <2>1, <2>2, <4>1
      <3>3. Mod(CCR' - now') = a - e
        <4>1. e \in 0..(Modulus - 1) /\ e <= a
          BY <1>1, <2>1, <3>2
        <4>2. Mod(Mod(now + a) - Mod(now + e)) = a - e
          BY <1>2, <2>1, <4>1, ModDiff
        <4>3. QED
          BY <1>3, <2>1, <4>2
      <3>4. a - e >= 1
        BY <1>1, <2>1, <3>2
      <3>5. QED
        BY <2>5, <3>1, <3>3, <3>4 DEF AlarmInv
    <2>8. QED
      BY <2>6, <2>7
  <1>7. QED
    BY <1>5, <1>6
----------------------------------------------------------------------------
(* The steps.                                                              *)

LEMMA StateFacts ==
  ASSUME IInv
  PROVE  /\ use \in Uses /\ Elapsed \in Int /\ Elapsed \in 0..(Modulus - 1)
         /\ Mod(now - lasttime) = Elapsed /\ now = Mod(lasttime + Elapsed)
         /\ list \in Seq(Timer) /\ left \in [Timer -> Int \cup {Off}]
         /\ list # <<>> => /\ list[1] \in Timer /\ left[list[1]] \in Int
                           /\ delta[list[1]] = left[list[1]] + Elapsed
                           /\ delta[list[1]] \in 0..(Modulus - 1)
                           /\ left[list[1]] + Elapsed <= Reach
                           /\ left[list[1]] <= LongestDelay(use)
                           /\ left[list[1]] >= -MaxLateness
  <1>1. RegsInv /\ Times(list, delta, left, Elapsed) /\ Room(left, Elapsed) /\ AlarmInv
    BY DEF IInv
  <1>2. use \in Uses /\ lasttime \in 0..(Modulus - 1) /\ now \in 0..(Modulus - 1)
    BY <1>1 DEF RegsInv
  <1>3. Elapsed \in 0..(Modulus - 1) /\ now = Mod(lasttime + Elapsed) /\ Mod(now - lasttime) = Elapsed
    BY <1>2, CounterBack DEF Elapsed
  <1>4. Elapsed \in Int
    BY <1>3
  <1>5. ASSUME list # <<>>
        PROVE  /\ list[1] \in Timer /\ left[list[1]] \in Int
               /\ delta[list[1]] = left[list[1]] + Elapsed
               /\ delta[list[1]] \in 0..(Modulus - 1)
               /\ left[list[1]] + Elapsed <= Reach
               /\ left[list[1]] <= LongestDelay(use)
               /\ left[list[1]] >= -MaxLateness
    <2>1. /\ left[list[1]] \in Int /\ left[list[1]] + Elapsed <= Reach
          /\ delta[list[1]] = left[list[1]] + Elapsed
          /\ delta[list[1]] \in 0..(Modulus - 1) /\ left[list[1]] <= LongestDelay(use)
      BY <1>1, <1>2, <1>4, <1>5, FirstInReach
    <2>2. list[1] \in Timer
      <3>1. list \in Seq(Timer)
        BY <1>1 DEF Times
      <3>2. QED
        BY <1>5, <3>1
    <2>3. left[list[1]] - 0 >= -MaxLateness
      <3>1. latency + 0 <= MaxLatency
        BY <1>1, <1>2, Numbers DEF RegsInv
      <3>2. QED
        BY <1>1, <1>5, <2>1, <3>1, NotTooLate
    <2>4. QED
      BY <2>1, <2>2, <2>3
  <1>6. list \in Seq(Timer) /\ left \in [Timer -> Int \cup {Off}]
    BY <1>1 DEF Times
  <1>7. QED
    BY <1>2, <1>3, <1>4, <1>5, <1>6

LEMMA InitStep == Init => IInv
  <1> SUFFICES ASSUME Init PROVE IInv
    OBVIOUS
  <1>1. Modulus \in Nat /\ Modulus > 0 /\ MaxLatency \in Nat /\ use \in Uses
    BY Numbers DEF Init
  <1>2. RegsInv
    <2>1. 0 \in 0..(Modulus - 1) /\ 0 \in 0..MaxLatency
      BY <1>1
    <2>2. DIER <=> list # <<>>
      BY DEF Init
    <2>3. CC1IF \in BOOLEAN /\ isr \in BOOLEAN /\ DIER \in BOOLEAN
      BY DEF Init
    <2>4. QED
      BY <1>1, <2>1, <2>2, <2>3 DEF Init, RegsInv
  <1>3. Elapsed \in Int
    BY <1>1, <1>2, CounterBack DEF RegsInv, Elapsed
  <1>4. Times(list, delta, left, Elapsed)
    BY <1>1 DEF Init, Times
  <1>5. Room(left, Elapsed)
    BY DEF Init, Room
  <1>6. AlarmInv
    BY DEF Init, AlarmInv
  <1>7. QED
    BY <1>2, <1>4, <1>5, <1>6 DEF IInv

LEMMA TickStep ==
  ASSUME IInv, Tick, use' = use
  PROVE  IInv'
  <1>1. RegsInv /\ Times(list, delta, left, Elapsed) /\ Room(left, Elapsed) /\ AlarmInv
    BY DEF IInv
  <1>a. 1 \in 0..1 /\ FALSE \in BOOLEAN
    OBVIOUS
  <1>2. Ends(1, FALSE, 0, FALSE)
    <2>1. MaxLatency \in Nat /\ latency \in 0..MaxLatency
      BY <1>1, Numbers DEF RegsInv
    <2>2. Pending => latency + 1 <= MaxLatency
      BY <2>1 DEF Tick, Pending
    <2>3. QED
      BY <2>1, <2>2 DEF Tick, Ends, Pending
  <1>3. RegsInv'
    <2>1. /\ now' \in 0..(Modulus - 1) /\ CCR' \in 0..(Modulus - 1)
          /\ CC1IF' \in BOOLEAN /\ latency' \in 0..MaxLatency
      BY <1>1, <1>2, <1>a, EndsRegs
    <2>2. QED
      BY <1>1, <2>1 DEF RegsInv, Tick
  <1>4. ASSUME list # <<>> PROVE left[list[1]] - 1 >= -MaxLateness
    <2>1. left[list[1]] \in Int
      BY <1>4, StateFacts
    <2>2. Pending => latency + 1 <= MaxLatency
      BY <1>2 DEF Ends, Pending
    <2>3. QED
      BY <1>1, <1>4, <1>a, <2>1, <2>2, NotTooLate
  <1>5. Times(list, delta, left, Elapsed)' /\ Room(left, Elapsed)'
    <2>1. /\ use \in Uses /\ lasttime' \in 0..(Modulus - 1) /\ now \in 0..(Modulus - 1)
          /\ lasttime' = lasttime
      BY <1>1 DEF RegsInv, Tick
    <2>2. /\ Times(list, delta, left, Mod(now - lasttime')) /\ Room(left, Mod(now - lasttime'))
      BY <1>1, <2>1 DEF Elapsed
    <2>3. /\ now' = Mod(now + 1) /\ list' = list /\ delta' = delta
          /\ left' = IF 1 = 0 THEN left ELSE Pass(left)
      BY DEF Tick
    <2>4. 1 \in 0..1
      OBVIOUS
    <2>5. QED
      BY <1>4, <2>1, <2>2, <2>3, <2>4, AfterTicks
  <1>6. AlarmInv'
    <2>1. CASE list = <<>>
      BY <2>1 DEF AlarmInv, Tick
    <2>2. CASE list # <<>>
      <3> DEFINE f == left[list[1]] - 1
      <3>1. left[list[1]] \in Int /\ list[1] \in Timer
        BY <2>2, StateFacts
      <3>2. f = left'[list'[1]]
        <4>1. left[list[1]] # Off
          BY <3>1, VirtualTimersAssumption
        <4>2. QED
          BY <3>1, <4>1 DEF Tick, Pass
      <3>3. isr' = isr /\ DIER'
        BY <1>1, <2>2 DEF Tick, RegsInv
      <3>4. f \in Int /\ f + 1 >= left[list[1]]
        BY <3>1
      <3> HIDE DEF f
      <3>5. QED
        BY <1>1, <1>2, <1>a, <2>2, <3>1, <3>2, <3>3, <3>4, AlarmLeft
    <2>3. QED
      BY <2>1, <2>2
  <1>7. QED
    BY <1>3, <1>5, <1>6 DEF IInv

LEMMA IsrEnterStep ==
  ASSUME IInv, IsrEnter, use' = use
  PROVE  IInv'
  <1>1. RegsInv'
    BY DEF IInv, RegsInv, IsrEnter
  <1>2. Times(list, delta, left, Elapsed)' /\ Room(left, Elapsed)'
    BY DEF IInv, IsrEnter, Times, Room, Elapsed, Reach
  <1>3. AlarmInv'
    <2>1. Pending /\ Pending'
      BY DEF IsrEnter, Pending
    <2>2. QED
      BY <2>1 DEF IInv, AlarmInv, IsrEnter
  <1>4. QED
    BY <1>1, <1>2, <1>3 DEF IInv

\* The timer that is first after the first has been taken out.
LEMMA Second ==
  ASSUME use \in Uses, NEW l, NEW dl, NEW lf, NEW n \in Int, Times(l, dl, lf, n), l # <<>>,
         NEW r, Without(r, l, 1), r # <<>>
  PROVE  /\ r[1] \in Timer /\ [lf EXCEPT ![l[1]] = Off][r[1]] \in Int
         /\ [lf EXCEPT ![l[1]] = Off][r[1]] >= lf[l[1]]
         /\ r[1] # l[1] /\ r[1] = l[2] /\ 2 \in 1..Len(l) /\ Len(l) > 1
  <1> DEFINE g == [lf EXCEPT ![l[1]] = Off]
  <1>1. /\ l \in Seq(Timer) /\ Len(l) \in Nat /\ DOMAIN l = 1..Len(l)
        /\ lf \in [Timer -> Int \cup {Off}]
        /\ \A k \in 1..Len(l) : l[k] \in Timer /\ lf[l[k]] \in Int
    BY TimesType
  <1>2. r \in Seq(Timer) /\ Len(r) = Len(l) - 1 /\ Len(r) > 0
    BY DEF Without
  <1>3. 1 \in 1..(Len(l) - 1) /\ 1 \in 1..Len(l) /\ 2 \in 1..Len(l) /\ Len(l) > 1
    BY <1>1, <1>2
  <1>4. r[1] = l[2]
    BY <1>3 DEF Without
  <1>5. \A i, k \in DOMAIN l : (l[i] = l[k] => i = k) /\ (i <= k => lf[l[i]] <= lf[l[k]])
    BY DEF Times
  <1>6. l[2] # l[1] /\ lf[l[1]] <= lf[l[2]]
    BY <1>1, <1>3, <1>5
  <1>7. g[l[2]] = lf[l[2]] /\ lf[l[2]] \in Int /\ lf[l[1]] \in Int /\ l[2] \in Timer
    BY <1>1, <1>3, <1>6
  <1> HIDE DEF g
  <1>8. r[1] \in Timer /\ g[r[1]] \in Int /\ g[r[1]] >= lf[l[1]] /\ r[1] # l[1]
    BY <1>4, <1>6, <1>7
  <1>9. QED
    BY <1>3, <1>4, <1>8 DEF g

LEMMA TailWithout ==
  ASSUME NEW l \in Seq(Timer), l # <<>>
  PROVE  Without(Tail(l), l, 1)
  BY DEF Without

LEMMA DoTickFireStep ==
  ASSUME IInv, DoTickFire, use' = use
  PROVE  IInv'
  <1> DEFINE t == list[1]
             d == delta[t]
             r == Tail(list)
             g == [left EXCEPT ![t] = Off]
             h == [delta EXCEPT ![t] = 0]
  <1>1. RegsInv /\ Times(list, delta, left, Elapsed) /\ Room(left, Elapsed) /\ AlarmInv
    BY DEF IInv
  <1>2. list # <<>> /\ d <= Elapsed
    BY StateFacts DEF DoTickFire, Due
  <1>3. /\ use \in Uses /\ Elapsed \in Int /\ Elapsed \in 0..(Modulus - 1)
        /\ now = Mod(lasttime + Elapsed) /\ list \in Seq(Timer)
        /\ left[t] \in Int /\ d = left[t] + Elapsed /\ d \in 0..(Modulus - 1)
        /\ left[t] >= -MaxLateness
    BY <1>2, StateFacts
  <1>4. Modulus \in Nat /\ Modulus > 0 /\ TIMEDELTA \in Nat /\ MaxLatency \in Nat
        /\ latency \in 0..MaxLatency /\ lasttime \in 0..(Modulus - 1)
    BY <1>1, <1>3, Numbers DEF RegsInv
  <1>5. /\ lasttime' = Mod(lasttime + d) /\ list' = r /\ left' = g /\ delta' = h /\ now' = now
        /\ isr /\ isr' = isr /\ latency' = latency /\ CCR' = CCR /\ CC1IF' = CC1IF
        /\ DIER' = (DIER /\ list' # <<>>)
    BY DEF DoTickFire
  <1>6. Elapsed' = Elapsed - d
    <2>1. Mod(Mod(lasttime + Elapsed) - Mod(lasttime + d)) = Elapsed - d
      <3> HIDE DEF d
      <3>1. QED
        BY <1>2, <1>3, <1>4, ModDiff
    <2>2. QED
      BY <1>3, <1>5, <2>1 DEF Elapsed
  <1>7. Times(r, h, g, Elapsed - d)
    BY <1>1, <1>2, <1>3, FireTimes
  <1>8. Room(g, Elapsed - d)
    BY <1>1, <1>2, <1>3, FireRoom
  <1>9. Times(list, delta, left, Elapsed)' /\ Room(left, Elapsed)'
    <2> HIDE DEF d, r, g, h
    <2>1. Times(list', delta', left', Elapsed') /\ Room(left', Elapsed')
      BY <1>5, <1>6, <1>7, <1>8
    <2>2. QED
      BY <2>1 DEF Times, Room, Reach
  <1>10. RegsInv'
    <2>1. lasttime' \in 0..(Modulus - 1)
      <3>1. lasttime + d \in Int
        <4> HIDE DEF d
        <4>1. QED
          BY <1>3, <1>4
      <3> HIDE DEF d
      <3>2. QED
        BY <1>5, <3>1, ModIs
    <2>2. DIER' = (list' # <<>>)
      BY <1>1, <1>2, <1>5 DEF RegsInv
    <2>3. QED
      BY <1>1, <1>5, <2>1, <2>2 DEF RegsInv
  <1>11. AlarmInv'
    <2> SUFFICES ASSUME list' # <<>> PROVE AlarmInv'
      BY DEF AlarmInv
    <2>1. Pending /\ Pending'
      BY <1>5 DEF Pending
    <2>2. left[t] >= 1 - TIMEDELTA - latency
      BY <1>1, <1>2, <2>1 DEF AlarmInv
    <2>3. g[r[1]] \in Int /\ g[r[1]] >= left[t]
      <3>1. Without(r, list, 1) /\ r # <<>>
        BY <1>2, <1>3, <1>5, TailWithout
      <3>2. QED
        BY <1>1, <1>2, <1>3, <3>1, Second
    <2> HIDE DEF g, r, t
    <2>4. g[r[1]] >= 1 - TIMEDELTA - latency
      BY <1>3, <1>4, <2>2, <2>3
    <2>5. left'[list'[1]] >= 1 - TIMEDELTA - latency'
      BY <1>5, <2>4
    <2>6. QED
      BY <2>1, <2>5 DEF AlarmInv
  <1>12. QED
    BY <1>9, <1>10, <1>11 DEF IInv

\* After AtLeast, the alarm is ahead, and less than TIMEDELTA after the deadline.
LEMMA AtLeastIs ==
  ASSUME use \in Uses, NEW f \in Int, f >= 1, f <= LongestDelay(use), NEW e \in 0..1
  PROVE  /\ AtLeast(f) \in (e + 1)..(Modulus - 1)
         /\ f >= AtLeast(f) + 1 - TIMEDELTA
  <1>1. /\ Modulus \in Nat /\ TIMEDELTA \in Nat /\ TIMEDELTA >= 2 /\ MaxLateness \in Nat
        /\ LongestDelay(use) \in Int /\ TIMEDELTA <= LongestDelay(use)
        /\ Reach \in Int /\ LongestDelay(use) + MaxLateness <= Reach /\ Reach + MaxLateness < Modulus
    BY Numbers
  <1>2. LongestDelay(use) <= Modulus - 1
    BY <1>1
  <1>3. QED
    BY <1>1, <1>2 DEF AtLeast

LEMMA DoTickEndStep ==
  ASSUME IInv, NEW e \in 0..1, DoTickEnd(e), use' = use
  PROVE  IInv'
  <1> DEFINE t == list[1]
             f == left[t]
             alarm == IF list # <<>> THEN Mod(now + AtLeast(Mod(lasttime + delta[list[1]] - now))) ELSE 0
  <1>1. RegsInv /\ Times(list, delta, left, Elapsed) /\ Room(left, Elapsed) /\ AlarmInv
    BY DEF IInv
  <1>2. use \in Uses /\ lasttime \in 0..(Modulus - 1) /\ now \in 0..(Modulus - 1)
        /\ Modulus \in Nat /\ Modulus > 0 /\ MaxLateness \in Nat
    BY <1>1, Numbers DEF RegsInv
  <1>3. /\ isr' = FALSE /\ Ends(e, list # <<>>, alarm, FALSE)
        /\ left' = (IF e = 0 THEN left ELSE Pass(left))
        /\ list' = list /\ delta' = delta /\ lasttime' = lasttime /\ DIER' = DIER
        /\ ~Due
    BY DEF DoTickEnd
  <1>4. ASSUME list # <<>>
        PROVE  /\ f \in Int /\ t \in Timer /\ f >= 1
               /\ alarm = Mod(now + AtLeast(f)) /\ AtLeast(f) \in (e + 1)..(Modulus - 1)
               /\ f >= AtLeast(f) + 1 - TIMEDELTA
    <2>1. /\ f \in Int /\ t \in Timer /\ delta[t] = f + Elapsed /\ delta[t] \in 0..(Modulus - 1)
          /\ f <= LongestDelay(use) /\ Elapsed \in 0..(Modulus - 1) /\ now = Mod(lasttime + Elapsed)
          /\ Mod(now - lasttime) = Elapsed
      BY <1>4, StateFacts
    <2>2. ~(delta[t] <= Elapsed)
      BY <1>3, <1>4, <2>1 DEF Due
    <2> DEFINE d == delta[t]
               ff == left[t]
    <2> HIDE DEF d, ff
    <2>3. /\ ff \in Int /\ d = ff + Elapsed /\ d \in 0..(Modulus - 1) /\ Elapsed \in 0..(Modulus - 1)
          /\ ~(d <= Elapsed)
      BY <2>1, <2>2 DEF d, ff
    <2>4. ff >= 1 /\ Elapsed <= d /\ d - Elapsed = ff
      BY <1>2, <2>3
    <2>5. Mod(Mod(lasttime + d) - now) = ff
      BY <1>2, <2>1, <2>3, <2>4, ModDiff
    <2>6. Mod(lasttime + d - now) = ff
      <3> DEFINE p == lasttime + d
                 q == -now
      <3>1. p \in 0..(2 * Modulus - 1) /\ q \in (-Modulus)..(Modulus - 1)
            /\ p + q \in (-Modulus)..(2 * Modulus - 1)
        BY <1>2, <2>3
      <3>2. Mod(p) \in 0..(Modulus - 1)
        BY <1>2, <2>3, ModIs
      <3>6. p \in Int /\ Mod(p) \in Int /\ now \in Int
        BY <1>2, <3>1, <3>2
      <3>3. Mod(p) + q \in (-Modulus)..(2 * Modulus - 1) /\ Mod(p) + q = Mod(p) - now /\ p + q = p - now
        <4> HIDE DEF p
        <4>1. QED
          BY <1>2, <3>2, <3>6
      <3>4. Mod(Mod(p) + q) = Mod(p + q)
        <4> HIDE DEF p, q
        <4>1. QED
          BY <3>1, <3>3, ModMod
      <3>5. Mod(p - now) = ff
        <4>1. Mod(p) - now = Mod(p) + q /\ p - now = p + q /\ Mod(Mod(p) - now) = ff
          BY <2>5, <3>3
        <4> HIDE DEF p, q
        <4>2. QED
          BY <3>4, <4>1
      <3>7. lasttime + d - now = p - now
        BY <1>2, <2>3
      <3> HIDE DEF p
      <3>8. QED
        BY <3>5, <3>7
    <2>7. alarm = Mod(now + AtLeast(f))
      BY <1>4, <2>6 DEF d, ff
    <2>8. AtLeast(f) \in (e + 1)..(Modulus - 1) /\ f >= AtLeast(f) + 1 - TIMEDELTA
      <3>1. f >= 1
        BY <2>4 DEF ff
      <3> HIDE DEF f
      <3>2. QED
        BY <1>2, <2>1, <3>1, AtLeastIs
    <2>9. QED
      BY <2>1, <2>4, <2>7, <2>8 DEF ff
  <1>5. RegsInv'
    <2>1. list # <<>> => alarm \in 0..(Modulus - 1)
      <3> SUFFICES ASSUME list # <<>> PROVE alarm \in 0..(Modulus - 1)
        OBVIOUS
      <3>1. now + AtLeast(f) \in Int /\ alarm = Mod(now + AtLeast(f))
        <4> HIDE DEF f, alarm
        <4>1. QED
          BY <1>2, <1>4
      <3> HIDE DEF alarm
      <3>2. QED
        BY <3>1, ModIs
    <2> DEFINE set == list # <<>>
    <2>2. set \in BOOLEAN /\ FALSE \in BOOLEAN
      OBVIOUS
    <2>3. Ends(e, set, alarm, FALSE) /\ (set => alarm \in 0..(Modulus - 1))
      BY <1>3, <2>1
    <2> HIDE DEF set, alarm
    <2>4. /\ now' \in 0..(Modulus - 1) /\ CCR' \in 0..(Modulus - 1)
          /\ CC1IF' \in BOOLEAN /\ latency' \in 0..MaxLatency
      BY <1>1, <2>2, <2>3, EndsRegs
    <2>5. QED
      BY <1>1, <1>3, <2>4 DEF RegsInv
  <1>6. Times(list, delta, left, Elapsed)' /\ Room(left, Elapsed)'
    <2>1. list # <<>> => left[list[1]] - e >= -MaxLateness
      <3> SUFFICES ASSUME list # <<>> PROVE f - e >= -MaxLateness
        OBVIOUS
      <3>1. f \in Int /\ f >= 1
        BY <1>4
      <3> HIDE DEF f
      <3>2. QED
        BY <1>2, <3>1
    <2>2. now' = Mod(now + e) /\ lasttime' \in 0..(Modulus - 1)
      BY <1>2, <1>3 DEF Ends
    <2>3. Times(list, delta, left, Mod(now - lasttime')) /\ Room(left, Mod(now - lasttime'))
      BY <1>1, <1>3 DEF Elapsed
    <2>4. QED
      BY <1>2, <1>3, <2>1, <2>2, <2>3, AfterTicks
  <1>7. AlarmInv'
    <2> SUFFICES ASSUME list # <<>> PROVE AlarmInv'
      BY <1>3 DEF AlarmInv
    <2> DEFINE a == AtLeast(f)
               ff == f - e
    <2>1. /\ a \in (e + 1)..(Modulus - 1) /\ ff + e >= a + 1 - TIMEDELTA /\ ff \in Int
          /\ f \in Int /\ t \in Timer
      <3>1. TIMEDELTA \in Nat
        BY <1>2, Numbers
      <3> HIDE DEF f, a
      <3>2. QED
        BY <1>2, <1>4, <3>1 DEF a
    <2>2. ff = left'[list'[1]]
      <3>1. f # Off
        BY <2>1, VirtualTimersAssumption
      <3>2. QED
        BY <1>3, <2>1, <3>1 DEF Pass
    <2>3. Ends(e, TRUE, Mod(now + a), FALSE)
      <3>1. Ends(e, list # <<>>, Mod(now + a), FALSE)
        BY <1>3, <1>4
      <3>2. (list # <<>>) = TRUE
        OBVIOUS
      <3>3. QED
        BY <3>1, <3>2 DEF Ends
    <2> HIDE DEF a, ff
    <2>4. FALSE \in BOOLEAN
      OBVIOUS
    <2>5. QED
      BY <1>1, <2>1, <2>2, <2>3, <2>4, AlarmSet
  <1>8. QED
    BY <1>5, <1>6, <1>7 DEF IInv

\* Of the timers that are left when one that may be reset is taken out, the next
\* one is in reach: the two deltas add up without a wrap.
LEMMA NextInReach ==
  ASSUME IInv, NEW k \in 1..Len(list), list[k] \in use.resettable, k < Len(list)
  PROVE  delta[list[k + 1]] + delta[list[k]] < Modulus
  <1> DEFINE D == LongestDelay(use)
             t == list[k]
             g == [left EXCEPT ![t] = Off]
             E == Elapsed
             f(j) == left[list[j]]
  <1>1. use \in Uses /\ E \in Int /\ Times(list, delta, left, E) /\ Room(left, E)
    BY StateFacts DEF IInv
  <1>2. /\ Modulus \in Nat /\ D \in Int /\ MaxLateness \in Nat /\ Reach \in Int
        /\ D + MaxLateness <= Reach /\ Reach + MaxLateness < Modulus
        /\ use.resettable \subseteq Timer
    BY <1>1, Numbers
  <1>3. /\ Len(list) \in Nat /\ DOMAIN list = 1..Len(list)
        /\ left \in [Timer -> Int \cup {Off}]
        /\ \A j \in 1..Len(list) : list[j] \in Timer /\ f(j) \in Int /\ f(j) # Off
    BY <1>1, TimesType
  <1>4. /\ \A i, j \in DOMAIN list : (list[i] = list[j] => i = j) /\ (i <= j => f(i) <= f(j))
        /\ \A j \in DOMAIN list : /\ f(j) <= D
                                  /\ delta[list[j]] = IF j = 1 THEN f(1) + E ELSE f(j) - f(j - 1)
        /\ \A u \in Timer : left[u] # Off => \E j \in DOMAIN list : list[j] = u
    BY <1>1 DEF Times
  <1>5. /\ k \in Nat /\ k + 1 \in 1..Len(list) /\ k + 1 # 1 /\ (k + 1) - 1 = k /\ 1 \in 1..Len(list)
        /\ f(1) >= -MaxLateness
    <2>1. k \in Nat /\ k + 1 \in 1..Len(list) /\ k + 1 # 1 /\ (k + 1) - 1 = k /\ 1 \in 1..Len(list)
      BY <1>3
    <2>2. list # <<>>
      BY <2>1
    <2>3. QED
      BY <2>1, <2>2, StateFacts
  <1>6. /\ delta[list[k + 1]] = f(k + 1) - f(k)
        /\ delta[list[k]] = IF k = 1 THEN f(1) + E ELSE f(k) - f(k - 1)
        /\ f(k) \in Int /\ f(k + 1) \in Int /\ f(1) \in Int /\ f(k + 1) <= D
    BY <1>3, <1>4, <1>5
  <1>7. CASE k = 1
    <2>1. Room(g, E)
      BY <1>1, <1>2, <1>3, RemoveRoom
    <2>2. g[t] = Off /\ \A u \in Timer : u # t => g[u] = left[u]
      BY <1>3
    <2>3. g[list[k + 1]] = f(k + 1) /\ g[list[k + 1]] # Off /\ list[k + 1] \in Timer
      <3>1. list[k + 1] # t
        BY <1>3, <1>4, <1>5
      <3>2. QED
        BY <1>3, <1>5, <2>2, <3>1
    <2> HIDE DEF g, f
    <2>4. f(k + 1) + E <= Reach
      <3>1. ASSUME NEW u \in Timer, g[u] # Off, g[u] + E <= Reach
            PROVE  f(k + 1) + E <= Reach
        <4>1. u # t /\ g[u] = left[u]
          BY <2>2, <3>1
        <4>2. PICK j \in DOMAIN list : list[j] = u
          BY <1>4, <3>1, <4>1
        <4>3. k + 1 <= j /\ k + 1 \in DOMAIN list
          BY <1>3, <1>5, <1>7, <4>1, <4>2
        <4>4. f(k + 1) <= f(j) /\ f(j) \in Int /\ f(j) = g[u]
          BY <1>3, <1>4, <4>1, <4>2, <4>3 DEF f
        <4>5. QED
          BY <1>1, <1>2, <1>6, <3>1, <4>4
      <3>2. ASSUME \A u \in Timer : g[u] # Off => g[u] + E <= D + MaxLateness
            PROVE  f(k + 1) + E <= Reach
        <4>1. f(k + 1) + E <= D + MaxLateness
          BY <2>3, <3>2
        <4>2. QED
          BY <1>1, <1>2, <1>6, <4>1
      <3>3. QED
        BY <2>1, <3>1, <3>2 DEF Room
    <2>5. QED
      BY <1>1, <1>2, <1>6, <1>7, <2>4
  <1>8. CASE k # 1
    <2>1. k - 1 \in 1..Len(list) /\ 1 <= k - 1
      BY <1>3, <1>8
    <2>2. f(1) <= f(k - 1) /\ f(k - 1) \in Int
      BY <1>3, <1>4, <1>5, <2>1
    <2> HIDE DEF f, D
    <2>3. QED
      BY <1>2, <1>5, <1>6, <1>8, <2>2
  <1>9. QED
    BY <1>7, <1>8

\* The list without a timer that is reset.
LEMMA UnlinkIs ==
  ASSUME IInv, NEW t \in use.resettable, left[t] # Off, Unlink(t)
  PROVE  /\ Times(list', delta', [left EXCEPT ![t] = Off], Elapsed)
         /\ Room([left EXCEPT ![t] = Off], Elapsed)
         /\ list # <<>>
         /\ list' # <<>> =>
              /\ list'[1] \in Timer /\ [left EXCEPT ![t] = Off][list'[1]] \in Int
              /\ [left EXCEPT ![t] = Off][list'[1]] >= left[list[1]]
              /\ delta'[list'[1]] = [left EXCEPT ![t] = Off][list'[1]] + Elapsed
              /\ [left EXCEPT ![t] = Off][list'[1]] <= LongestDelay(use)
  <1> DEFINE P(j) == list[j] = t
             k == CHOOSE j \in DOMAIN list : P(j)
             g == [left EXCEPT ![t] = Off]
             r == RemoveAt(list, k)
             h == [u \in Timer |-> IF u = list[k] THEN 0
                                   ELSE IF k < Len(list) /\ u = list[k + 1]
                                        THEN Mod(delta[u] + delta[list[k]])
                                   ELSE delta[u]]
  <1>1. use \in Uses /\ Elapsed \in Int /\ Times(list, delta, left, Elapsed) /\ Room(left, Elapsed)
    BY StateFacts DEF IInv
  <1>2. use.resettable \subseteq Timer /\ t \in Timer
    BY <1>1, Numbers
  <1>3. /\ list \in Seq(Timer) /\ Len(list) \in Nat /\ DOMAIN list = 1..Len(list)
        /\ left \in [Timer -> Int \cup {Off}] /\ DOMAIN left = Timer
        /\ \A j \in 1..Len(list) : list[j] \in Timer /\ left[list[j]] \in Int /\ left[list[j]] # Off
    BY <1>1, TimesType
  <1>4. k \in 1..Len(list) /\ list[k] = t
    <2>1. \E j \in DOMAIN list : P(j)
      BY <1>1, <1>2 DEF Times
    <2>2. \A j : P(j) => list[j] = t
      OBVIOUS
    <2> HIDE DEF P
    <2>3. k \in DOMAIN list /\ P(k)
      BY <2>1, Zenon
    <2> HIDE DEF k
    <2>4. QED
      BY <1>3, <2>2, <2>3
  <1>5. list' = r /\ delta' = h
    <2>1. /\ list' = RemoveAt(list, k)
          /\ delta' = [u \in Timer |-> IF u = t THEN 0
                                       ELSE IF k < Len(list) /\ u = list[k + 1] THEN Mod(delta[u] + delta[t])
                                       ELSE delta[u]]
      BY DEF Unlink
    <2> HIDE DEF k
    <2>2. QED
      BY <1>4, <2>1
  <1> HIDE DEF k
  <1>6. Times(r, h, [left EXCEPT ![list[k]] = Off], Elapsed)
    <2>1. k < Len(list) => delta[list[k + 1]] + delta[list[k]] < Modulus
      BY <1>4, NextInReach
    <2>2. QED
      BY <1>1, <1>4, <2>1, RemoveTimes
  <1>7. Times(list', delta', g, Elapsed)
    BY <1>4, <1>5, <1>6
  <1>8. Room(g, Elapsed)
    BY <1>1, <1>2, <1>3, RemoveRoom
  <1>9. list # <<>>
    BY <1>4
  <1>10. ASSUME list' # <<>>
         PROVE  /\ list'[1] \in Timer /\ g[list'[1]] \in Int /\ g[list'[1]] >= left[list[1]]
                /\ delta'[list'[1]] = g[list'[1]] + Elapsed
                /\ g[list'[1]] <= LongestDelay(use)
    <2>1. /\ g[list'[1]] \in Int /\ delta'[list'[1]] = g[list'[1]] + Elapsed
          /\ g[list'[1]] <= LongestDelay(use)
      <3> HIDE DEF g
      <3>1. QED
        BY <1>1, <1>7, <1>8, <1>10, FirstInReach
    <2>2. list' \in Seq(Timer) /\ list'[1] \in Timer
      <3>1. list' \in Seq(Timer)
        BY <1>7, SMTT(30) DEF Times
      <3>2. QED
        BY <1>10, <3>1
    <2>3. /\ r \in Seq(Timer) /\ Len(r) = Len(list) - 1
          /\ \A j \in 1..(Len(list) - 1) : r[j] = IF j < k THEN list[j] ELSE list[j + 1]
      BY <1>3, <1>4, RemoveAtIs
    <2>4. g[list'[1]] >= left[list[1]]
      <3>1. CASE k = 1
        <4>1. Without(r, list, 1) /\ r # <<>>
          BY <1>5, <1>10, <2>3, <3>1 DEF Without
        <4> HIDE DEF r
        <4>2. [left EXCEPT ![list[1]] = Off][r[1]] >= left[list[1]]
          BY <1>1, <1>9, <4>1, Second
        <4>3. QED
          BY <1>4, <1>5, <3>1, <4>2
      <3>2. CASE k # 1
        <4>1. 1 \in 1..(Len(list) - 1) /\ 1 < k /\ 1 \in 1..Len(list)
          BY <1>3, <1>4, <3>2
        <4>2. r[1] = list[1]
          BY <2>3, <4>1
        <4>3. list[1] # t
          BY <1>1, <1>3, <1>4, <3>2, <4>1 DEF Times
        <4>4. g[list[1]] = left[list[1]] /\ left[list[1]] \in Int
          BY <1>3, <4>1, <4>3
        <4> HIDE DEF g, r
        <4>5. QED
          BY <1>5, <4>2, <4>4
      <3>3. QED
        BY <3>1, <3>2
    <2>5. QED
      BY <2>1, <2>2, <2>4
  <1>11. QED
    BY <1>7, <1>8, <1>9, <1>10

LEMMA DoResetIStep ==
  ASSUME IInv, NEW e \in 0..1, NEW t \in use.resettable, DoResetI(t, e), use' = use
  PROVE  IInv'
  <1> DEFINE g == [left EXCEPT ![t] = Off]
             next == delta'[list'[1]]
             f == g[list'[1]]
             nowdelta == Mod(now - lasttime)
             move == list[1] = t /\ list' # <<>> /\ nowdelta < next
             alarm == IF move THEN Mod(now + AtLeast(next - nowdelta)) ELSE 0
  <1>1. RegsInv /\ Times(list, delta, left, Elapsed) /\ Room(left, Elapsed) /\ AlarmInv
    BY DEF IInv
  <1>2. use \in Uses /\ lasttime \in 0..(Modulus - 1) /\ now \in 0..(Modulus - 1)
        /\ Modulus \in Nat /\ Modulus > 0 /\ MaxLateness \in Nat /\ TIMEDELTA \in Nat
        /\ Elapsed \in Int /\ nowdelta = Elapsed
    BY <1>1, Numbers, StateFacts DEF RegsInv
  <1>3. /\ left[t] # Off /\ Unlink(t)
        /\ Ends(e, move, alarm, FALSE)
        /\ DIER' = (DIER /\ list' # <<>>)
        /\ left' = (IF e = 0 THEN g ELSE Pass(g))
        /\ lasttime' = lasttime /\ isr' = isr
    BY DEF DoResetI
  <1>4. /\ Times(list', delta', g, Elapsed) /\ Room(g, Elapsed) /\ list # <<>>
        /\ list' # <<>> => /\ list'[1] \in Timer /\ f \in Int /\ f >= left[list[1]]
                           /\ next = f + Elapsed /\ f <= LongestDelay(use)
    BY <1>3, UnlinkIs
  <1>5. left[list[1]] \in Int /\ left[list[1]] - e >= -MaxLateness
    <2>1. left[list[1]] \in Int
      BY <1>4, StateFacts
    <2>2. Pending => latency + e <= MaxLatency
      BY <1>3 DEF Ends, Pending
    <2>3. QED
      BY <1>1, <1>4, <2>1, <2>2, NotTooLate
  <1>6. move => /\ alarm = Mod(now + AtLeast(f)) /\ AtLeast(f) \in (e + 1)..(Modulus - 1)
                /\ f >= AtLeast(f) + 1 - TIMEDELTA
    <2> SUFFICES ASSUME move
                 PROVE  /\ alarm = Mod(now + AtLeast(f)) /\ AtLeast(f) \in (e + 1)..(Modulus - 1)
                        /\ f >= AtLeast(f) + 1 - TIMEDELTA
      OBVIOUS
    <2>1. list' # <<>> /\ nowdelta < next
      OBVIOUS
    <2>2. alarm = Mod(now + AtLeast(next - nowdelta))
      OBVIOUS
    <2> HIDE DEF alarm, next, f, nowdelta, g, move
    <2>3. f \in Int /\ next - nowdelta = f /\ f >= 1 /\ f <= LongestDelay(use)
      BY <1>2, <1>4, <2>1
    <2>4. AtLeast(f) \in (e + 1)..(Modulus - 1) /\ f >= AtLeast(f) + 1 - TIMEDELTA
      BY <1>2, <2>3, AtLeastIs
    <2>5. QED
      BY <2>2, <2>3, <2>4
  <1>7. RegsInv'
    <2>1. move => alarm \in 0..(Modulus - 1)
      <3> HIDE DEF move, alarm, f
      <3> SUFFICES ASSUME move PROVE alarm \in 0..(Modulus - 1)
        OBVIOUS
      <3>1. now + AtLeast(f) \in Int /\ alarm = Mod(now + AtLeast(f))
        BY <1>2, <1>6
      <3>2. QED
        BY <3>1, ModIs
    <2>2. move \in BOOLEAN /\ FALSE \in BOOLEAN
      OBVIOUS
    <2> HIDE DEF move, alarm
    <2>3. /\ now' \in 0..(Modulus - 1) /\ CCR' \in 0..(Modulus - 1)
          /\ CC1IF' \in BOOLEAN /\ latency' \in 0..MaxLatency
      BY <1>1, <1>3, <2>1, <2>2, EndsRegs
    <2>4. DIER' = (list' # <<>>)
      BY <1>1, <1>3, <1>4 DEF RegsInv
    <2>5. QED
      BY <1>1, <1>3, <2>3, <2>4 DEF RegsInv
  <1>8. Times(list, delta, left, Elapsed)' /\ Room(left, Elapsed)'
    <2>1. list' # <<>> => f - e >= -MaxLateness
      <3> HIDE DEF f
      <3>1. QED
        BY <1>2, <1>4, <1>5
    <2>2. now' = Mod(now + e) /\ lasttime' \in 0..(Modulus - 1)
      BY <1>2, <1>3 DEF Ends
    <2>3. Times(list', delta', g, Mod(now - lasttime')) /\ Room(g, Mod(now - lasttime'))
      BY <1>3, <1>4 DEF Elapsed
    <2> HIDE DEF g
    <2>4. QED
      BY <1>2, <1>3, <2>1, <2>2, <2>3, AfterTicks
  <1>9. AlarmInv'
    <2> SUFFICES ASSUME list' # <<>> PROVE AlarmInv'
      BY DEF AlarmInv
    <2> DEFINE ff == f - e
    <2>1. f \in Int /\ list'[1] \in Timer /\ f >= left[list[1]]
      BY <1>4
    <2>2. ff \in Int /\ ff + e = f
      <3> HIDE DEF f
      <3>1. QED
        BY <2>1
    <2>3. ff = left'[list'[1]]
      <3>1. f # Off
        BY <2>1, VirtualTimersAssumption
      <3>2. CASE e = 0
        <4>1. f - 0 = f
          <5> HIDE DEF f
          <5>1. QED
            BY <2>1
        <4>2. QED
          BY <1>3, <3>2, <4>1
      <3>3. CASE e = 1
        <4> HIDE DEF g
        <4>1. QED
          BY <1>3, <2>1, <3>1, <3>3 DEF Pass
      <3>4. QED
        BY <3>2, <3>3
    <2>4. CASE move
      <3> DEFINE a == AtLeast(f)
      <3>1. a \in (e + 1)..(Modulus - 1) /\ alarm = Mod(now + a) /\ f >= a + 1 - TIMEDELTA
        BY <1>6, <2>4
      <3>2. Ends(e, TRUE, Mod(now + a), FALSE)
        <4>1. move = TRUE
          BY <2>4
        <4> HIDE DEF a, move, alarm
        <4>2. QED
          BY <1>3, <3>1, <4>1
      <3>3. FALSE \in BOOLEAN
        OBVIOUS
      <3> HIDE DEF a, ff, f
      <3>4. ff + e >= a + 1 - TIMEDELTA
        BY <2>2, <3>1
      <3>5. QED
        BY <1>1, <2>2, <2>3, <3>1, <3>2, <3>3, <3>4, AlarmSet
    <2>5. CASE ~move
      <3>1. Ends(e, FALSE, alarm, FALSE)
        <4>1. move = FALSE
          BY <2>5
        <4> HIDE DEF move, alarm
        <4>2. QED
          BY <1>3, <4>1
      <3>2. DIER' /\ isr' = isr
        BY <1>1, <1>3, <1>4 DEF RegsInv
      <3> HIDE DEF ff, f, alarm
      <3>3. ff + e >= left[list[1]]
        BY <2>1, <2>2
      <3>4. QED
        BY <1>1, <1>4, <1>5, <2>2, <2>3, <3>1, <3>2, <3>3, AlarmLeft
    <2>6. QED
      BY <2>4, <2>5
  <1>10. QED
    BY <1>7, <1>8, <1>9 DEF IInv

\* Where a timer with c ticks to go is put: whether or not the sum wraps, behind
\* those due before, and it sets the alarm when it is due before the first.
SetPlace(t, c, e, k, dt, alarm) ==
    /\ k \in 1..(Len(list) + 1) /\ dt \in 0..(Modulus - 1)
    /\ \A j \in 1..(k - 1) : left[list[j]] < c
    /\ k <= Len(list) => c <= left[list[k]]
    /\ dt = IF k = 1 THEN c + Elapsed ELSE c - left[list[k - 1]]
    /\ Insert(t, k, dt)
    /\ Ends(e, c < left[list[1]], alarm, FALSE)
    /\ c < left[list[1]] => alarm = Mod(now + c)
    /\ lasttime' = lasttime /\ DIER' = DIER

\* The sum of the time since the base and a delay, cut to the width.
LEMMA SumIs ==
  ASSUME NEW c \in Nat, c < Modulus, lasttime \in 0..(Modulus - 1), now \in 0..(Modulus - 1)
  PROVE  /\ Elapsed \in 0..(Modulus - 1)
         /\ Mod(now - lasttime + c) = IF Elapsed + c < Modulus THEN Elapsed + c
                                                             ELSE Elapsed + c - Modulus
  <1> DEFINE E == Elapsed
             sum == Mod(now - lasttime + c)
             s == E + c
             p == now - lasttime
             x == p + c
  <1>1. Modulus \in Nat /\ Modulus > 0
    BY VirtualTimersAssumption
  <1>2. p \in Int /\ (p \in 0..(Modulus - 1) \/ p \in (-Modulus)..(-1)) /\ Mod(p) = E
    BY DiffIs DEF Elapsed
  <1>3. E \in 0..(Modulus - 1) /\ E = IF p >= 0 THEN p ELSE p + Modulus
    BY <1>1, <1>2, ModIs
  <1>4. /\ s \in Int /\ (s \in 0..(Modulus - 1) \/ s \in Modulus..(2 * Modulus - 1))
        /\ s = E + c
    BY <1>1, <1>3
  <1>5. sum = Mod(x) /\ x = p + c
    OBVIOUS
  <1> HIDE DEF s, sum, p, x, E
  <1>6. Mod(s) = IF s < Modulus THEN s ELSE s - Modulus
    <2>1. CASE s \in 0..(Modulus - 1)
      BY <1>1, <1>4, <2>1, ModIs
    <2>2. CASE s \in Modulus..(2 * Modulus - 1)
      BY <1>1, <1>4, <2>2, ModIs
    <2>3. QED
      BY <1>4, <2>1, <2>2
  <1>7. Mod(x) = Mod(s)
    <2>1. CASE p >= 0
      <3>1. x = s
        BY <1>2, <1>3, <1>4, <1>5, <2>1
      <3>2. QED
        BY <3>1
    <2>2. CASE ~(p >= 0)
      <3>1. /\ x \in Int /\ s = x + Modulus
            /\ (x \in 0..(Modulus - 1) \/ x \in (-Modulus)..(-1))
        BY <1>1, <1>2, <1>3, <1>4, <1>5, <2>2
      <3>2. Mod(x) = IF x >= 0 THEN x ELSE x + Modulus
        BY <1>1, <3>1, ModIs
      <3>3. QED
        BY <1>1, <1>4, <1>6, <3>1, <3>2
    <2>3. QED
      BY <1>2, <2>1, <2>2
  <1>8. sum = IF s < Modulus THEN s ELSE s - Modulus
    BY <1>5, <1>6, <1>7
  <1>9. E \in 0..(Modulus - 1)
    BY <1>3
  <1>10. sum = (IF E + c < Modulus THEN E + c ELSE E + c - Modulus)
    BY <1>1, <1>8, <1>9 DEF s
  <1>11. QED
    BY <1>9, <1>10 DEF E, sum

LEMMA SetNonEmptyIs ==
  ASSUME IInv, list # <<>>, NEW t \in Timer, NEW e \in 0..1,
         NEW c \in Nat, c >= TIMEDELTA, c <= LongestDelay(use), DoSetNonEmpty(t, c, e), ~missed'
  PROVE  \E k, dt, alarm : SetPlace(t, c, e, k, dt, alarm)
  <1> DEFINE E == Elapsed
             N == Len(list)
             f(j) == left[list[j]]
             d1 == delta[list[1]]
             sum == Mod(now - lasttime + c)
             wrapped == Wrapped(sum)
             i == IF wrapped THEN 2 ELSE 1
             d == IF wrapped THEN Mod(sum - d1) ELSE sum
             k == Place(i, d)
             dt == d - (Upto[k - 1] - Upto[i - 1])
             set == ~wrapped /\ d < d1
             alarm == Mod(lasttime + d)
  <1>1. RegsInv /\ Times(list, delta, left, E)
    BY DEF IInv
  <1>2. /\ use \in Uses /\ E \in Int /\ E \in 0..(Modulus - 1)
        /\ Mod(now - lasttime) = E /\ now = Mod(lasttime + E)
        /\ f(1) \in Int /\ d1 = f(1) + E /\ d1 \in 0..(Modulus - 1) /\ f(1) >= -MaxLateness
        /\ lasttime \in 0..(Modulus - 1) /\ now \in 0..(Modulus - 1)
    BY <1>1, StateFacts DEF RegsInv
  <1>3. /\ Modulus \in Nat /\ Modulus > 0 /\ MaxLateness \in Nat /\ LongestDelay(use) \in Int
        /\ Reach \in Int /\ LongestDelay(use) + MaxLateness <= Reach
        /\ Reach + MaxLateness < Modulus /\ TIMEDELTA \in Nat /\ TIMEDELTA >= 2
    BY <1>2, Numbers
  <1>4. c + MaxLateness < Modulus /\ c >= 2 /\ c < Modulus
    BY <1>3
  <1>5. /\ N \in Nat /\ DOMAIN list = 1..N /\ N > 0
        /\ \A j \in 1..N : list[j] \in Timer /\ f(j) \in Int
        /\ \A j, m \in DOMAIN list : j <= m => f(j) <= f(m)
    <2>1. N \in Nat /\ DOMAIN list = 1..N /\ \A j \in 1..N : list[j] \in Timer /\ f(j) \in Int
      BY <1>1, <1>2, TimesType
    <2>2. N > 0
      BY <1>1, <2>1 DEF Times
    <2>3. \A j, m \in DOMAIN list : j <= m => f(j) <= f(m)
      BY <1>1 DEF Times
    <2>4. QED
      BY <2>1, <2>2, <2>3
  <1>6. Upto[0] = 0 /\ \A j \in 1..N : Upto[j] = f(j) + E
    <2>1. Upto = [j \in 0..N |-> IF j = 0 THEN 0 ELSE f(j) + E]
      BY <1>1, <1>2, UptoIs
    <2>2. 0 \in 0..N /\ \A j \in 1..N : j \in 0..N /\ j # 0
      BY <1>5
    <2> HIDE DEF f, E, N
    <2>3. QED
      BY <2>1, <2>2
  <1>7. sum = IF E + c < Modulus THEN E + c ELSE E + c - Modulus
    BY <1>2, <1>3, <1>4, SumIs
  <1> HIDE DEF sum
  <1>8. wrapped <=> E + c >= Modulus
    <2>1. ~Misses(sum)
      BY DEF DoSetNonEmpty, sum
    <2>2. sum < E => wrapped
      BY <1>2, <2>1 DEF Misses
    <2>3. wrapped => sum < E
      <3>1. now - lasttime = E \/ now - lasttime < 0
        <4>1. /\ now - lasttime \in Int
              /\ now - lasttime \in 0..(Modulus - 1) \/ now - lasttime \in (-Modulus)..(-1)
          BY <1>2, DiffIs
        <4>2. QED
          BY <1>2, <1>3, <4>1, ModIs
      <3>2. sum \in Int /\ sum >= 0
        BY <1>2, <1>3, <1>4, <1>7
      <3>3. QED
        BY <1>2, <3>1, <3>2 DEF Wrapped
    <2>4. QED
      BY <1>2, <1>3, <1>4, <1>7, <2>2, <2>3
  <1>9. d = IF wrapped THEN c - f(1) ELSE E + c
    <2> DEFINE ff == f(1)
    <2>0. /\ ff \in Int /\ d1 = ff + E /\ d1 \in Int /\ d1 <= Modulus - 1 /\ ff >= -MaxLateness
          /\ E \in Int /\ E >= 0
      BY <1>2, <1>3
    <2>1. CASE wrapped
      <3> DEFINE x == sum - d1
      <3>1. d = Mod(x) /\ x = sum - d1
        BY <2>1
      <3> HIDE DEF x, d, d1, ff, wrapped
      <3>2. sum = E + c - Modulus /\ E + c >= Modulus
        BY <1>2, <1>3, <1>7, <1>8, <2>1
      <3>3. x = c - ff - Modulus /\ x \in Int
        BY <1>3, <2>0, <3>1, <3>2
      <3>4. c - ff >= 1 /\ c - ff <= c + MaxLateness
        BY <1>3, <2>0, <3>2
      <3>5. x \in (-Modulus)..(-1)
        BY <1>3, <1>4, <2>0, <3>3, <3>4
      <3>6. d = x + Modulus
        BY <1>3, <3>1, <3>3, <3>5, ModIs
      <3>7. d = c - ff
        BY <1>3, <2>0, <3>3, <3>6
      <3>8. QED
        BY <2>1, <3>7 DEF ff
    <2>2. CASE ~wrapped
      <3>1. d = sum
        BY <2>2
      <3> HIDE DEF d, wrapped
      <3>2. QED
        BY <1>2, <1>3, <1>7, <1>8, <2>2, <3>1
    <2>3. QED
      BY <2>1, <2>2
  <1>10. wrapped => f(1) < c
    <2>1. f(1) + E <= Modulus - 1
      BY <1>2, <1>3
    <2> HIDE DEF wrapped, f
    <2>2. QED
      BY <1>2, <1>3, <1>8, <2>1
  <1>11. Insert(t, k, dt) /\ Ends(e, set, alarm, FALSE) /\ lasttime' = lasttime /\ DIER' = DIER
    BY DEF DoSetNonEmpty, sum
  <1>12. i \in 1..2 /\ d \in Int /\ i = IF wrapped THEN 2 ELSE 1
    <2>1. i \in 1..2 /\ i = IF wrapped THEN 2 ELSE 1
      OBVIOUS
    <2> HIDE DEF d, wrapped, f
    <2>2. QED
      BY <1>2, <1>3, <1>9, <2>1
  <1> HIDE DEF i, d
  <1>13. /\ k \in i..(N + 1)
         /\ k = N + 1 \/ Upto[k] - Upto[i - 1] >= d
         /\ \A j \in i..(k - 1) : Upto[j] - Upto[i - 1] < d
    <2>1. \A j \in 0..N : Upto[j] \in Int
      <3> HIDE DEF E
      <3>1. QED
        BY <1>2, <1>5, <1>6
    <2>2. list \in Seq(Timer)
      BY <1>1 DEF Times
    <2>3. QED
      BY <1>12, <2>1, <2>2, PlaceIs
  <1> HIDE DEF k
  <1>14. k \in 1..(N + 1) /\ (wrapped => k >= 2)
    <2> HIDE DEF wrapped
    <2>1. QED
      BY <1>5, <1>12, <1>13
  <1> HIDE DEF wrapped, f
  <1>15. ASSUME NEW j \in i..N
         PROVE  /\ j \in 1..N /\ f(j) \in Int
                /\ Upto[j] - Upto[i - 1] = f(j) - c + d
    <2>1. j \in 1..N /\ f(j) \in Int /\ Upto[j] = f(j) + E
      BY <1>5, <1>6, <1>12
    <2>2. CASE wrapped
      <3>1. i - 1 = 1 /\ 1 \in 1..N
        BY <1>5, <1>12, <2>2
      <3>2. Upto[i - 1] = f(1) + E /\ d = c - f(1)
        BY <1>6, <1>9, <2>2, <3>1
      <3>3. QED
        BY <1>2, <2>1, <3>2
    <2>3. CASE ~wrapped
      <3>1. i - 1 = 0
        BY <1>12, <2>3
      <3>2. Upto[i - 1] = 0 /\ d = E + c
        BY <1>6, <1>9, <2>3, <3>1
      <3>3. QED
        BY <1>2, <2>1, <3>2
    <2>4. QED
      BY <2>2, <2>3
  <1>16. \A j \in 1..(k - 1) : f(j) < c
    <2> TAKE j \in 1..(k - 1)
    <2>1. CASE j \in i..(k - 1)
      <3>1. j \in i..N
        BY <1>5, <1>12, <1>14, <2>1
      <3>2. f(j) \in Int /\ f(j) - c + d < d
        BY <1>13, <1>15, <2>1, <3>1
      <3>3. QED
        BY <1>12, <3>2
    <2>2. CASE j \notin i..(k - 1)
      <3>1. wrapped /\ j = 1
        BY <1>12, <1>14, <2>2
      <3>2. QED
        BY <1>10, <3>1
    <2>3. QED
      BY <2>1, <2>2
  <1>17. k <= N => c <= f(k)
    <2> SUFFICES ASSUME k <= N PROVE c <= f(k)
      OBVIOUS
    <2>1. k \in i..N /\ k # N + 1
      BY <1>5, <1>12, <1>13
    <2>2. f(k) \in Int /\ f(k) - c + d >= d
      BY <1>13, <1>15, <2>1
    <2>3. QED
      BY <1>12, <2>2
  <1>18. dt = IF k = 1 THEN c + E ELSE c - f(k - 1)
    <2>1. CASE k = 1
      <3>1. ~wrapped /\ i = 1
        BY <1>12, <1>14, <2>1
      <3>2. k - 1 = 0 /\ i - 1 = 0 /\ Upto[0] = 0 /\ d = E + c
        BY <1>6, <1>9, <2>1, <3>1
      <3>3. QED
        BY <1>2, <2>1, <3>2
    <2>2. CASE k # 1 /\ k - 1 \in i..N
      <3>1. f(k - 1) \in Int /\ Upto[k - 1] - Upto[i - 1] = f(k - 1) - c + d
        BY <1>15, <2>2
      <3>2. QED
        BY <1>12, <2>2, <3>1
    <2>3. CASE k # 1 /\ k - 1 \notin i..N
      <3>1. wrapped /\ i = 2 /\ k = 2
        BY <1>5, <1>12, <1>13, <1>14, <2>3
      <3>2. k - 1 = 1 /\ i - 1 = 1 /\ d = c - f(1)
        BY <1>9, <3>1
      <3>3. Upto[1] \in Int
        <4>1. 1 \in 1..N
          BY <1>5
        <4>2. QED
          BY <1>2, <1>6, <4>1
      <3>4. QED
        BY <1>2, <2>3, <3>2, <3>3
    <2>4. QED
      BY <2>1, <2>2, <2>3
  <1> HIDE DEF dt
  <1>19. dt \in 0..(Modulus - 1)
    <2>1. CASE k = 1
      <3>1. ~(E + c >= Modulus)
        BY <1>8, <1>14, <2>1
      <3>2. QED
        BY <1>2, <1>3, <1>18, <2>1, <3>1
    <2>2. CASE k # 1
      <3>1. k - 1 \in 1..(k - 1) /\ k - 1 \in 1..N /\ 1 \in 1..N /\ 1 <= k - 1
        BY <1>5, <1>14, <2>2
      <3>2. f(k - 1) < c /\ f(1) <= f(k - 1) /\ f(k - 1) \in Int
        BY <1>5, <1>16, <3>1
      <3>3. dt = c - f(k - 1)
        BY <1>18, <2>2
      <3>4. f(1) >= -MaxLateness /\ f(1) \in Int /\ MaxLateness \in Nat /\ Modulus \in Nat
        BY <1>2, <1>3
      <3>5. c \in Nat /\ c + MaxLateness < Modulus
        BY <1>4
      <3> DEFINE x == f(k - 1)
                 y == f(1)
      <3>6. x < c /\ y <= x /\ x \in Int /\ y >= -MaxLateness /\ y \in Int
        BY <3>2, <3>4
      <3> HIDE DEF x, y
      <3>7. c - x \in 0..(Modulus - 1)
        BY <3>4, <3>5, <3>6
      <3>8. QED
        BY <3>3, <3>7 DEF x
    <2>3. QED
      BY <2>1, <2>2
  <1>20. set <=> c < f(1)
    <2>1. CASE wrapped
      BY <1>2, <1>10, <2>1
    <2>2. CASE ~wrapped
      <3>1. d = E + c
        BY <1>9, <2>2
      <3>2. QED
        BY <1>2, <2>2, <3>1
    <2>3. QED
      BY <2>1, <2>2
  <1>21. c < f(1) => alarm = Mod(now + c)
    <2> SUFFICES ASSUME c < f(1) PROVE alarm = Mod(now + c)
      OBVIOUS
    <2>1. ~wrapped
      BY <1>2, <1>10
    <2> DEFINE p == lasttime + E
               x == p + c
               y == Mod(p) + c
    <2>a. d = E + c
      BY <1>9, <2>1
    <2>b. E + c < Modulus
      BY <1>2, <1>3, <1>8, <2>1
    <2>2. d = E + c /\ E + c < Modulus
      BY <2>a, <2>b
    <2>3. alarm = Mod(x)
      <3>1. lasttime + d = x
        BY <1>2, <2>2
      <3> HIDE DEF x
      <3>2. QED
        BY <3>1
    <2>4. p \in 0..(2 * Modulus - 1) /\ c \in (-Modulus)..(Modulus - 1) /\ x = p + c
      BY <1>2, <1>3, <1>4
    <2>5. x \in (-Modulus)..(2 * Modulus - 1)
      BY <1>2, <1>3, <2>2
    <2>c. Mod(p) = now
      BY <1>2
    <2>6. y = now + c /\ y \in (-Modulus)..(2 * Modulus - 1)
      <3>1. y = now + c
        BY <2>c
      <3>2. now \in 0..(Modulus - 1) /\ Modulus \in Nat /\ c \in Nat /\ c < Modulus
        BY <1>2, <1>3, <1>4
      <3> HIDE DEF p, y
      <3>3. now + c \in (-Modulus)..(2 * Modulus - 1)
        BY <3>2
      <3>4. QED
        BY <3>1, <3>3
    <2>7. Mod(Mod(p) + c) = Mod(p + c)
      <3> HIDE DEF p
      <3>1. QED
        BY <2>4, <2>5, <2>6, ModMod
    <2>8. Mod(y) = Mod(x)
      BY <2>7
    <2>9. Mod(y) = Mod(now + c)
      <3>1. Mod(p) = now
        BY <1>2
      <3> HIDE DEF p
      <3>2. QED
        BY <3>1
    <2> HIDE DEF x, y, alarm
    <2>10. QED
      BY <2>3, <2>8, <2>9
  <1> HIDE DEF set, alarm
  <1>22. Ends(e, c < f(1), alarm, FALSE)
    <2> DEFINE less == c < f(1)
    <2>1. Ends(e, set, alarm, FALSE) /\ (set <=> less)
      BY <1>11, <1>20
    <2> HIDE DEF less
    <2>2. Ends(e, less, alarm, FALSE)
      BY <2>1 DEF Ends
    <2>3. QED
      BY <2>2 DEF less
  <1>23. SetPlace(t, c, e, k, dt, alarm)
    BY <1>11, <1>14, <1>16, <1>17, <1>18, <1>19, <1>21, <1>22 DEF SetPlace, f
  <1>24. QED
    BY <1>23

\* A timer that is armed behind others.
LEMMA SetNonEmptyStep ==
  ASSUME IInv, list # <<>>, NEW e \in 0..1, NEW t \in Timer, left[t] = Off,
         NEW c \in Nat, c >= TIMEDELTA, c <= LongestDelay(use), DoSetNonEmpty(t, c, e), ~missed',
         left' = IF e = 0 THEN [left EXCEPT ![t] = c] ELSE Pass([left EXCEPT ![t] = c]),
         isr' = isr, use' = use
  PROVE  IInv'
  <1> DEFINE g == [left EXCEPT ![t] = c]
             old == left[list[1]]
             f == g[list'[1]]
  <1>1. RegsInv /\ Times(list, delta, left, Elapsed) /\ Room(left, Elapsed) /\ AlarmInv
    BY DEF IInv
  <1>2. PICK k, dt, alarm : SetPlace(t, c, e, k, dt, alarm)
    BY SetNonEmptyIs
  <1>3. /\ k \in 1..(Len(list) + 1) /\ dt \in 0..(Modulus - 1)
        /\ \A j \in 1..(k - 1) : left[list[j]] < c
        /\ k <= Len(list) => c <= left[list[k]]
        /\ dt = IF k = 1 THEN c + Elapsed ELSE c - left[list[k - 1]]
        /\ Insert(t, k, dt)
        /\ Ends(e, c < old, alarm, FALSE)
        /\ c < old => alarm = Mod(now + c)
        /\ lasttime' = lasttime /\ DIER' = DIER
    BY <1>2 DEF SetPlace
  <1>4. /\ use \in Uses /\ Elapsed \in Int /\ list[1] \in Timer /\ old \in Int
        /\ list \in Seq(Timer) /\ left \in [Timer -> Int \cup {Off}]
        /\ lasttime \in 0..(Modulus - 1) /\ now \in 0..(Modulus - 1)
    BY <1>1, StateFacts DEF RegsInv
  <1>5. /\ Modulus \in Nat /\ Modulus > 0 /\ MaxLateness \in Nat /\ TIMEDELTA \in Nat
        /\ TIMEDELTA >= 2 /\ LongestDelay(use) \in Int /\ Reach \in Int
        /\ LongestDelay(use) + MaxLateness <= Reach /\ Reach + MaxLateness < Modulus
    BY <1>4, Numbers
  <1>6. c \in Int /\ c \in (e + 1)..(Modulus - 1)
    BY <1>5
  <1>7. Times(list', delta', g, Elapsed)
    <2>1. \A j \in 1..(k - 1) : left[list[j]] <= c
      <3> TAKE j \in 1..(k - 1)
      <3>1. j \in 1..Len(list)
        BY <1>3, <1>4
      <3>2. left[list[j]] \in Int /\ left[list[j]] < c
        BY <1>1, <1>3, <1>4, <3>1, TimesType
      <3>3. QED
        BY <1>6, <3>2
    <2>2. list' = InsertAt(list, k, t)
          /\ delta' = [u \in Timer |-> IF u = t THEN dt
                                       ELSE IF k <= Len(list) /\ u = list[k] THEN delta[u] - dt
                                       ELSE delta[u]]
      BY <1>3 DEF Insert
    <2> DEFINE h == [u \in Timer |-> IF u = t THEN dt
                                     ELSE IF k <= Len(list) /\ u = list[k] THEN delta[u] - dt
                                     ELSE delta[u]]
    <2>3. Times(InsertAt(list, k, t), h, g, Elapsed)
      BY <1>1, <1>3, <1>4, <1>6, <2>1, InsertTimes
    <2>4. QED
      BY <2>2, <2>3
  <1>8. Room(g, Elapsed)
    <2>1. left[list[1]] >= -MaxLateness
      BY StateFacts
    <2>2. QED
      BY <1>1, <1>4, <1>6, <2>1, InsertRoom
  <1>9. /\ k = 1 => list'[1] = t /\ f = c
        /\ k # 1 => list'[1] = list[1] /\ f = old /\ old < c
        /\ k = 1 => c <= old
    <2>1. 1 \in 1..(Len(list) + 1) /\ 1 \in 1..Len(list)
      BY <1>4
    <2>2. list'[1] = IF 1 < k THEN list[1] ELSE IF 1 = k THEN t ELSE list[1 - 1]
      BY <1>3, <1>4, <2>1, InsertAtIs DEF Insert
    <2>3. CASE k = 1
      <3>1. list'[1] = t /\ c <= old
        BY <1>3, <2>1, <2>2, <2>3
      <3>2. f = c
        BY <1>4, <3>1
      <3>3. QED
        BY <2>3, <3>1, <3>2
    <2>4. CASE k # 1
      <3>1. list'[1] = list[1] /\ old < c
        <4>1. 1 < k /\ 1 \in 1..(k - 1)
          BY <1>3, <1>4, <2>4
        <4>2. QED
          BY <1>3, <2>2, <4>1
      <3>2. list[1] # t
        BY <1>4, VirtualTimersAssumption
      <3>3. f = old
        BY <1>4, <3>1, <3>2
      <3>4. QED
        BY <2>4, <3>1, <3>3
    <2>5. QED
      BY <2>3, <2>4
  <1>10. f \in Int /\ list'[1] \in Timer /\ list' # <<>>
    <2>1. f \in Int /\ list'[1] \in Timer
      <3> HIDE DEF f, old
      <3>1. CASE k = 1
        BY <1>6, <1>9, <3>1
      <3>2. CASE k # 1
        BY <1>4, <1>9, <3>2
      <3>3. QED
        BY <3>1, <3>2
    <2>2. Len(list') = Len(list) + 1
      BY <1>3, <1>4, InsertAtIs DEF Insert
    <2>3. list' # <<>>
      BY <1>4, <2>2
    <2>4. QED
      BY <2>1, <2>3
  <1>11. /\ c < old => f = c
         /\ ~(c < old) => f = old
    <2> HIDE DEF f, old
    <2>1. QED
      BY <1>4, <1>6, <1>9
  <1>12. RegsInv'
    <2> DEFINE set == c < old
    <2>1. set => alarm \in 0..(Modulus - 1)
      <3>1. now + c \in Int
        BY <1>4, <1>6
      <3>2. QED
        BY <1>3, <3>1, ModIs
    <2>a. set \in BOOLEAN /\ FALSE \in BOOLEAN
      OBVIOUS
    <2>b. Ends(e, set, alarm, FALSE)
      BY <1>3
    <2>2. set \in BOOLEAN /\ FALSE \in BOOLEAN /\ Ends(e, set, alarm, FALSE)
      BY <2>a, <2>b
    <2> HIDE DEF set
    <2>3. /\ now' \in 0..(Modulus - 1) /\ CCR' \in 0..(Modulus - 1)
          /\ CC1IF' \in BOOLEAN /\ latency' \in 0..MaxLatency
      BY <1>1, <2>1, <2>2, EndsRegs
    <2>4. DIER' = (list' # <<>>)
      BY <1>1, <1>3, <1>10 DEF RegsInv
    <2>5. QED
      BY <1>1, <1>3, <2>3, <2>4 DEF RegsInv
  <1>13. Times(list, delta, left, Elapsed)' /\ Room(left, Elapsed)'
    <2>1. f - e >= -MaxLateness
      <3>1. old - e >= -MaxLateness
        <4>1. Pending => latency + e <= MaxLatency
          BY <1>3 DEF Ends, Pending
        <4>2. QED
          BY <1>1, <1>4, <4>1, NotTooLate
      <3> HIDE DEF f, old
      <3>2. QED
        BY <1>4, <1>5, <1>6, <1>11, <3>1
    <2>2. now' = Mod(now + e) /\ lasttime' \in 0..(Modulus - 1)
      BY <1>3, <1>4 DEF Ends
    <2>3. Times(list', delta', g, Mod(now - lasttime')) /\ Room(g, Mod(now - lasttime'))
      BY <1>3, <1>7, <1>8 DEF Elapsed
    <2>4. left' = IF e = 0 THEN g ELSE Pass(g)
      OBVIOUS
    <2> HIDE DEF g
    <2>5. QED
      BY <1>4, <2>1, <2>2, <2>3, <2>4, AfterTicks
  <1>14. AlarmInv'
    <2> DEFINE ff == f - e
    <2>1. ff \in Int /\ ff + e = f
      <3> HIDE DEF f
      <3>1. QED
        BY <1>10
    <2>2. ff = left'[list'[1]]
      <3>1. f # Off
        BY <1>10, VirtualTimersAssumption
      <3>2. CASE e = 0
        <4>1. f - 0 = f
          <5> HIDE DEF f
          <5>1. QED
            BY <1>10
        <4>2. QED
          BY <3>2, <4>1
      <3>3. CASE e = 1
        <4>1. left' = Pass(g)
          BY <3>3
        <4> HIDE DEF g
        <4>2. QED
          BY <1>10, <3>1, <3>3, <4>1 DEF Pass
      <3>4. QED
        BY <3>2, <3>3
    <2>3. FALSE \in BOOLEAN
      OBVIOUS
    <2>4. CASE c < old
      <3>1. Ends(e, TRUE, Mod(now + c), FALSE)
        <4> DEFINE set == c < old
        <4>1. set = TRUE
          BY <2>4
        <4>2. Ends(e, set, alarm, FALSE) /\ alarm = Mod(now + c)
          BY <1>3, <2>4
        <4> HIDE DEF set
        <4>3. QED
          BY <4>1, <4>2
      <3>2. f = c
        BY <1>11, <2>4
      <3> HIDE DEF ff, f
      <3>3. ff + e >= c + 1 - TIMEDELTA
        BY <1>5, <1>6, <2>1, <3>2
      <3>4. QED
        BY <1>1, <1>6, <2>1, <2>2, <2>3, <3>1, <3>3, AlarmSet
    <2>5. CASE ~(c < old)
      <3>1. Ends(e, FALSE, alarm, FALSE)
        <4> DEFINE set == c < old
        <4>1. set = FALSE
          BY <2>5
        <4>2. Ends(e, set, alarm, FALSE)
          BY <1>3
        <4> HIDE DEF set
        <4>3. QED
          BY <4>1, <4>2
      <3>2. f = old
        BY <1>11, <2>5
      <3>3. DIER' /\ isr' = isr
        BY <1>1, <1>3 DEF RegsInv
      <3> HIDE DEF ff, f
      <3>4. ff + e >= left[list[1]]
        BY <1>4, <2>1, <3>2
      <3>5. QED
        BY <1>1, <1>4, <2>1, <2>2, <3>1, <3>3, <3>4, AlarmLeft
    <2>6. QED
      BY <2>4, <2>5
  <1>15. QED
    BY <1>12, <1>13, <1>14 DEF IInv

LEMMA InsertFirst ==
  ASSUME NEW S, NEW s \in Seq(S), NEW t \in S
  PROVE  InsertAt(s, 1, t) # <<>> /\ InsertAt(s, 1, t)[1] = t
  <1> DEFINE k == 1
             r == InsertAt(s, k, t)
  <1>1. k \in 1..(Len(s) + 1) /\ k = 1
    OBVIOUS
  <1> HIDE DEF k
  <1>2. r \in Seq(S) /\ Len(r) = Len(s) + 1 /\ r[k] = t
    BY <1>1, InsertAtIs
  <1> HIDE DEF r
  <1>3. r # <<>>
    BY <1>2
  <1>4. QED
    BY <1>1, <1>2, <1>3 DEF r

LEMMA InsertAlone ==
  ASSUME use \in Uses, NEW t \in Timer, left[t] = Off, NEW c \in 0..(Modulus - 1),
         c <= LongestDelay(use), Insert(t, 1, c), Len(list) = 0, list \in Seq(Timer)
  PROVE  /\ list'[1] = t /\ list' # <<>>
         /\ Times(list, delta, left, 0) => Times(list', delta', [left EXCEPT ![t] = c], 0)
  <1> DEFINE k == 1
             h == [u \in Timer |-> IF u = t THEN c
                                   ELSE IF k <= Len(list) /\ u = list[k] THEN delta[u] - c
                                   ELSE delta[u]]
  <1>1. list' = InsertAt(list, k, t) /\ delta' = h
    BY DEF Insert
  <1>2. k = 1 /\ k \in 1..(Len(list) + 1)
    OBVIOUS
  <1>3. Modulus \in Nat
    BY Numbers
  <1> HIDE DEF k
  <1>4. list' # <<>> /\ list'[1] = t
    BY InsertFirst DEF Insert
  <1>5. ASSUME Times(list, delta, left, 0)
        PROVE  Times(list', delta', [left EXCEPT ![t] = c], 0)
    <2>1. /\ 0 \in Int /\ c \in Int
          /\ \A j \in 1..(k - 1) : left[list[j]] <= c
          /\ k <= Len(list) => c <= left[list[k]]
          /\ c = IF k = 1 THEN c + 0 ELSE c - left[list[k - 1]]
      BY <1>2, <1>3
    <2>2. h = [u \in Timer |-> IF u = t THEN c
                               ELSE IF k <= Len(list) /\ u = list[k] THEN delta[u] - c
                               ELSE delta[u]]
      OBVIOUS
    <2> HIDE DEF h
    <2>3. Times(InsertAt(list, k, t), h, [left EXCEPT ![t] = c], 0)
      BY <1>2, <1>5, <2>1, <2>2, InsertTimes
    <2>4. QED
      BY <1>1, <2>3
  <1>6. QED
    BY <1>4, <1>5

\* The first timer of an empty list: the base starts anew.
LEMMA SetEmptyStep ==
  ASSUME IInv, list = <<>>, NEW e \in 0..1, NEW t \in Timer, left[t] = Off,
         NEW c \in Nat, c >= TIMEDELTA, c <= LongestDelay(use),
         lasttime' = now, Insert(t, 1, c), Ends(e, TRUE, Mod(now + c), TRUE), DIER' = TRUE,
         left' = IF e = 0 THEN [left EXCEPT ![t] = c] ELSE Pass([left EXCEPT ![t] = c]),
         isr' = isr, use' = use
  PROVE  IInv'
  <1> DEFINE g == [left EXCEPT ![t] = c]
  <1>1. RegsInv /\ Times(list, delta, left, Elapsed)
    BY DEF IInv
  <1>2. /\ use \in Uses /\ list \in Seq(Timer) /\ left \in [Timer -> Int \cup {Off}]
        /\ now \in 0..(Modulus - 1)
    BY <1>1, StateFacts DEF RegsInv
  <1>3. /\ Modulus \in Nat /\ Modulus > 0 /\ MaxLateness \in Nat /\ TIMEDELTA \in Nat
        /\ TIMEDELTA >= 2 /\ LongestDelay(use) \in Int /\ Reach \in Int
        /\ LongestDelay(use) + MaxLateness <= Reach /\ Reach + MaxLateness < Modulus
    BY <1>2, Numbers
  <1>4. c \in Int /\ c \in (e + 1)..(Modulus - 1) /\ c \in 0..(Modulus - 1)
    BY <1>3
  <1>5. Len(list) = 0 /\ DOMAIN list = {}
    OBVIOUS
  <1>6. Times(list, delta, left, 0) /\ Room(left, 0)
    BY <1>1, <1>5 DEF Times, Room
  <1>7. Times(list', delta', g, 0)
    BY <1>2, <1>4, <1>5, <1>6, InsertAlone
  <1>8. Room(g, 0)
    <2>1. 0 \in Int /\ (list # <<>> => left[list[1]] >= -MaxLateness) /\ (list = <<>> => 0 = 0)
      OBVIOUS
    <2>2. Room([left EXCEPT ![t] = c], 0)
      BY <1>2, <1>4, <1>6, <2>1, InsertRoom
    <2>3. QED
      BY <2>2
  <1>9. list'[1] = t /\ list' # <<>> /\ g[t] = c
    <2>1. list'[1] = t /\ list' # <<>>
      BY <1>2, <1>4, <1>5, InsertAlone
    <2>2. QED
      BY <1>2, <2>1
  <1>10. RegsInv'
    <2>1. Mod(now + c) \in 0..(Modulus - 1)
      <3>1. now + c \in Int
        BY <1>2, <1>4
      <3>2. QED
        BY <3>1, ModIs
    <2>2. TRUE \in BOOLEAN
      OBVIOUS
    <2>3. /\ now' \in 0..(Modulus - 1) /\ CCR' \in 0..(Modulus - 1)
          /\ CC1IF' \in BOOLEAN /\ latency' \in 0..MaxLatency
      BY <1>1, <2>1, <2>2, EndsRegs
    <2>4. DIER' = (list' # <<>>)
      BY <1>9
    <2>5. QED
      BY <1>1, <1>2, <2>3, <2>4 DEF RegsInv
  <1>11. Times(list, delta, left, Elapsed)' /\ Room(left, Elapsed)'
    <2>1. Mod(now - lasttime') = 0
      <3>1. now - now = 0 /\ 0 \in Int /\ 0 \in 0..(Modulus - 1)
        BY <1>2, <1>3
      <3>2. Mod(0) = 0
        BY <3>1, ModIs
      <3>3. QED
        BY <3>1, <3>2
    <2>2. c - e >= -MaxLateness
      BY <1>3
    <2>3. now' = Mod(now + e) /\ lasttime' \in 0..(Modulus - 1)
      BY <1>2 DEF Ends
    <2>4. Times(list', delta', g, Mod(now - lasttime')) /\ Room(g, Mod(now - lasttime'))
      BY <1>7, <1>8, <2>1
    <2>5. g[list'[1]] - e >= -MaxLateness
      BY <1>9, <2>2
    <2>6. left' = IF e = 0 THEN g ELSE Pass(g)
      OBVIOUS
    <2> HIDE DEF g
    <2>7. QED
      BY <1>2, <2>3, <2>4, <2>5, <2>6, AfterTicks
  <1>12. AlarmInv'
    <2> DEFINE ff == c - e
    <2>1. ff \in Int /\ ff + e = c /\ ff + e >= c + 1 - TIMEDELTA
      BY <1>3
    <2>2. ff = left'[list'[1]]
      <3>1. c # Off
        BY <1>4, VirtualTimersAssumption
      <3>2. CASE e = 0
        BY <1>9, <3>2
      <3>3. CASE e = 1
        <4>1. left' = Pass(g)
          BY <3>3
        <4> HIDE DEF g
        <4>2. QED
          BY <1>9, <3>1, <3>3, <4>1 DEF Pass
      <3>4. QED
        BY <3>2, <3>3
    <2>3. TRUE \in BOOLEAN
      OBVIOUS
    <2> HIDE DEF ff
    <2>4. QED
      BY <1>1, <1>4, <2>1, <2>2, <2>3, AlarmSet
  <1>13. QED
    BY <1>10, <1>11, <1>12 DEF IInv

LEMMA DoSetIStep ==
  ASSUME IInv, NEW e \in 0..1, NEW t \in Timer, NEW delay \in use.delays, DoSetI(t, delay, e),
         use' = use, ~missed'
  PROVE  IInv'
  <1> DEFINE c == AtLeast(delay)
  <1>1. use \in Uses
    BY StateFacts
  <1>2. c \in Nat /\ c >= TIMEDELTA /\ c <= LongestDelay(use)
    <2>1. c \in Nat /\ TIMEDELTA <= c /\ c <= LongestDelay(use) /\ TIMEDELTA \in Nat
      BY <1>1, Numbers
    <2> HIDE DEF c
    <2>2. QED
      BY <2>1
  <1>3. /\ left[t] = Off /\ isr' = isr
        /\ left' = IF e = 0 THEN [left EXCEPT ![t] = c] ELSE Pass([left EXCEPT ![t] = c])
    BY DEF DoSetI
  <1>4. CASE list = <<>>
    <2>1. lasttime' = now /\ Insert(t, 1, c) /\ Ends(e, TRUE, Mod(now + c), TRUE) /\ DIER' = TRUE
      BY <1>4 DEF DoSetI
    <2> HIDE DEF c
    <2>2. QED
      BY <1>2, <1>3, <1>4, <2>1, SetEmptyStep
  <1>5. CASE list # <<>>
    <2>1. DoSetNonEmpty(t, c, e)
      BY <1>5 DEF DoSetI
    <2> HIDE DEF c
    <2>2. QED
      BY <1>2, <1>3, <1>5, <2>1, SetNonEmptyStep
  <1>6. QED
    BY <1>4, <1>5
----------------------------------------------------------------------------
(* Types, whether or not a wrapped sum was missed.                         *)

\* The timers of list l are the armed ones.
ListType(l, dl, lf) ==
    /\ l \in Seq(Timer) /\ dl \in [Timer -> 0..(Modulus - 1)]
    /\ lf \in [Timer -> Int \cup {Off}]
    /\ \A i, j \in 1..Len(l) : l[i] = l[j] => i = j
    /\ \A t \in Timer : lf[t] # Off <=> \E j \in 1..Len(l) : l[j] = t

RegsType ==
    /\ use \in Uses
    /\ lasttime \in 0..(Modulus - 1) /\ now \in 0..(Modulus - 1) /\ CCR \in 0..(Modulus - 1)
    /\ CC1IF \in BOOLEAN /\ DIER \in BOOLEAN /\ isr \in BOOLEAN /\ missed \in BOOLEAN
    /\ latency \in 0..MaxLatency

LEMMA PassType ==
  ASSUME NEW l, NEW dl, NEW lf, ListType(l, dl, lf)
  PROVE  ListType(l, dl, Pass(lf))
  <1> DEFINE g == Pass(lf)
  <1>1. g = [t \in Timer |-> g[t]] /\ \A t \in Timer : g[t] = IF lf[t] = Off THEN Off ELSE lf[t] - 1
    BY DEF Pass
  <1>2. \A t \in Timer : lf[t] \in Int \/ lf[t] = Off
    BY DEF ListType
  <1> HIDE DEF g
  <1>3. \A t \in Timer : g[t] \in Int \cup {Off} /\ (g[t] # Off <=> lf[t] # Off)
    BY <1>1, <1>2, VirtualTimersAssumption
  <1>4. g \in [Timer -> Int \cup {Off}]
    BY <1>1, <1>3
  <1>5. ListType(l, dl, g)
    BY <1>3, <1>4 DEF ListType
  <1>6. QED
    BY <1>5 DEF g

LEMMA InsertType ==
  ASSUME NEW l, NEW dl, NEW lf, ListType(l, dl, lf), NEW t \in Timer, lf[t] = Off,
         NEW k \in 1..(Len(l) + 1), NEW c \in Int, NEW h \in [Timer -> 0..(Modulus - 1)]
  PROVE  ListType(InsertAt(l, k, t), h, [lf EXCEPT ![t] = c])
  <1> DEFINE N == Len(l)
             r == InsertAt(l, k, t)
             g == [lf EXCEPT ![t] = c]
  <1>1. /\ l \in Seq(Timer) /\ N \in Nat /\ lf \in [Timer -> Int \cup {Off}]
        /\ \A i, j \in 1..N : l[i] = l[j] => i = j
        /\ \A u \in Timer : lf[u] # Off <=> \E j \in 1..N : l[j] = u
    BY DEF ListType
  <1>2. r \in Seq(Timer) /\ Len(r) = N + 1 /\ k \in 1..(N + 1)
        /\ \A j \in 1..(N + 1) : r[j] = IF j < k THEN l[j] ELSE IF j = k THEN t ELSE l[j - 1]
    <2>1. /\ InsertAt(l, k, t) \in Seq(Timer) /\ Len(InsertAt(l, k, t)) = Len(l) + 1
          /\ \A j \in 1..(Len(l) + 1) :
               InsertAt(l, k, t)[j] = IF j < k THEN l[j] ELSE IF j = k THEN t ELSE l[j - 1]
      <3> HIDE DEF r, N, g
      <3>1. QED
        BY <1>1, InsertAtIs
    <2>2. QED
      BY <2>1
  <1>3. /\ g \in [Timer -> Int \cup {Off}] /\ g[t] = c /\ c # Off
        /\ \A u \in Timer : u # t => g[u] = lf[u]
    BY <1>1, VirtualTimersAssumption
  <1>4. \A j \in 1..N : l[j] # t
    BY <1>1
  <1> HIDE DEF N, r, g
  <1>9. ASSUME NEW i \in 1..(N + 1)
        PROVE  \/ i < k /\ i \in 1..N /\ r[i] = l[i]
               \/ i = k /\ r[i] = t
               \/ i > k /\ i - 1 \in 1..N /\ r[i] = l[i - 1]
    <2>1. r[i] = IF i < k THEN l[i] ELSE IF i = k THEN t ELSE l[i - 1]
      BY <1>2
    <2>2. (i < k => i \in 1..N) /\ (i > k => i - 1 \in 1..N) /\ (i < k \/ i = k \/ i > k)
          /\ ~(i > k /\ i < k) /\ ~(i > k /\ i = k)
      BY <1>1, <1>2
    <2>3. QED
      BY <2>1, <2>2
  <1>5. ASSUME NEW i \in 1..(N + 1), NEW j \in 1..(N + 1), r[i] = r[j]
        PROVE  i = j
    <2>1. \/ i < k /\ i \in 1..N /\ r[i] = l[i]
          \/ i = k /\ r[i] = t
          \/ i > k /\ i - 1 \in 1..N /\ r[i] = l[i - 1]
      BY <1>9
    <2>2. \/ j < k /\ j \in 1..N /\ r[j] = l[j]
          \/ j = k /\ r[j] = t
          \/ j > k /\ j - 1 \in 1..N /\ r[j] = l[j - 1]
      BY <1>9
    <2>3. CASE i = k \/ j = k
      BY <1>2, <1>4, <1>5, <2>1, <2>2, <2>3
    <2>4. CASE i < k /\ j < k
      <3>1. i \in 1..N /\ j \in 1..N /\ l[i] = l[j]
        <4>1. ~(i > k) /\ i # k /\ ~(j > k) /\ j # k
          BY <1>2, <2>4
        <4>2. QED
          BY <1>5, <2>1, <2>2, <4>1
      <3>2. QED
        BY <1>1, <3>1
    <2>5. CASE i > k /\ j > k
      <3>1. i - 1 \in 1..N /\ j - 1 \in 1..N /\ l[i - 1] = l[j - 1]
        <4>1. ~(i < k) /\ i # k /\ ~(j < k) /\ j # k
          BY <1>2, <2>5
        <4>2. QED
          BY <1>5, <2>1, <2>2, <4>1
      <3>2. i - 1 = j - 1
        BY <1>1, <3>1
      <3>3. QED
        BY <3>2
    <2>6. CASE i < k /\ j > k
      <3>1. i \in 1..N /\ j - 1 \in 1..N /\ l[i] = l[j - 1]
        <4>1. ~(i > k) /\ i # k /\ ~(j < k) /\ j # k
          BY <1>2, <2>6
        <4>2. QED
          BY <1>5, <2>1, <2>2, <4>1
      <3>2. i = j - 1
        BY <1>1, <3>1
      <3>3. QED
        BY <1>2, <2>6, <3>2
    <2>7. CASE i > k /\ j < k
      <3>1. i - 1 \in 1..N /\ j \in 1..N /\ l[i - 1] = l[j]
        <4>1. ~(i < k) /\ i # k /\ ~(j > k) /\ j # k
          BY <1>2, <2>7
        <4>2. QED
          BY <1>5, <2>1, <2>2, <4>1
      <3>2. i - 1 = j
        BY <1>1, <3>1
      <3>3. QED
        BY <1>2, <2>7, <3>2
    <2>8. QED
      BY <1>2, <2>3, <2>4, <2>5, <2>6, <2>7
  <1>6. ASSUME NEW u \in Timer
        PROVE  g[u] # Off <=> \E j \in 1..(N + 1) : r[j] = u
    <2>1. CASE u = t
      <3>1. r[k] = t
        BY <1>2
      <3>2. QED
        BY <1>2, <1>3, <2>1, <3>1
    <2>2. CASE u # t
      <3>1. ASSUME NEW j \in 1..N, l[j] = u PROVE \E m \in 1..(N + 1) : r[m] = u
        <4>1. CASE j < k
          <5>1. j \in 1..(N + 1) /\ r[j] = u
            BY <1>1, <1>2, <3>1, <4>1
          <5>2. QED
            BY <5>1
        <4>2. CASE ~(j < k)
          <5>1. j + 1 \in 1..(N + 1) /\ ~(j + 1 < k) /\ j + 1 # k /\ (j + 1) - 1 = j
            BY <1>1, <1>2, <4>2
          <5>2. r[j + 1] = u
            BY <1>2, <3>1, <5>1
          <5>3. QED
            BY <5>1, <5>2
        <4>3. QED
          BY <4>1, <4>2
      <3>2. ASSUME NEW m \in 1..(N + 1), r[m] = u PROVE \E j \in 1..N : l[j] = u
        <4>1. m # k
          BY <1>2, <2>2, <3>2
        <4>2. CASE m < k
          <5>1. m \in 1..N /\ l[m] = u
            BY <1>1, <1>2, <3>2, <4>2
          <5>2. QED
            BY <5>1
        <4>3. CASE ~(m < k)
          <5>1. m - 1 \in 1..N /\ l[m - 1] = u
            BY <1>1, <1>2, <3>2, <4>1, <4>3
          <5>2. QED
            BY <5>1
        <4>4. QED
          BY <4>2, <4>3
      <3>3. g[u] = lf[u]
        BY <1>3, <2>2
      <3>4. QED
        BY <1>1, <3>1, <3>2, <3>3
    <2>3. QED
      BY <2>1, <2>2
  <1>7. ListType(r, h, g)
    BY <1>2, <1>3, <1>5, <1>6 DEF ListType
  <1>8. QED
    BY <1>7 DEF r, g

LEMMA WithoutType ==
  ASSUME NEW l, NEW dl, NEW lf, ListType(l, dl, lf), NEW p \in 1..Len(l),
         NEW r, Without(r, l, p), NEW h \in [Timer -> 0..(Modulus - 1)]
  PROVE  ListType(r, h, [lf EXCEPT ![l[p]] = Off])
  <1> DEFINE N == Len(l)
             g == [lf EXCEPT ![l[p]] = Off]
             q(j) == IF j < p THEN j ELSE j + 1
  <1>1. /\ l \in Seq(Timer) /\ N \in Nat /\ lf \in [Timer -> Int \cup {Off}]
        /\ \A i, j \in 1..N : l[i] = l[j] => i = j
        /\ \A u \in Timer : lf[u] # Off <=> \E j \in 1..N : l[j] = u
        /\ p \in 1..N /\ \A j \in 1..N : l[j] \in Timer
    BY DEF ListType
  <1>2. r \in Seq(Timer) /\ Len(r) = N - 1
    BY DEF Without
  <1>3. \A j \in 1..(N - 1) : q(j) \in 1..N /\ q(j) # p /\ r[j] = l[q(j)]
    BY <1>1, SMTT(30) DEF Without
  <1>4. \A i, j \in 1..(N - 1) : q(i) = q(j) => i = j
    BY <1>1
  <1>5. \A m \in 1..N : m # p => \E j \in 1..(N - 1) : q(j) = m
    <2>1. ASSUME NEW m \in 1..N, m < p PROVE \E j \in 1..(N - 1) : q(j) = m
      <3>1. m \in 1..(N - 1) /\ q(m) = m
        BY <1>1, <2>1
      <3>2. QED
        BY <3>1
    <2>2. ASSUME NEW m \in 1..N, m > p PROVE \E j \in 1..(N - 1) : q(j) = m
      <3>1. m - 1 \in 1..(N - 1) /\ q(m - 1) = m
        BY <1>1, <2>2
      <3>2. QED
        BY <3>1
    <2>3. QED
      BY <1>1, <2>1, <2>2
  <1>6. /\ g \in [Timer -> Int \cup {Off}] /\ g[l[p]] = Off
        /\ \A u \in Timer : u # l[p] => g[u] = lf[u]
    BY <1>1
  <1> HIDE DEF N, g, q
  <1>7. \A i, j \in 1..(N - 1) : r[i] = r[j] => i = j
    BY <1>1, <1>3, <1>4
  <1>8. ASSUME NEW u \in Timer
        PROVE  g[u] # Off <=> \E j \in 1..(N - 1) : r[j] = u
    <2>1. CASE u = l[p]
      <3>1. \A j \in 1..(N - 1) : r[j] # u
        BY <1>1, <1>3, <2>1, SMTT(30)
      <3>2. QED
        BY <1>6, <2>1, <3>1
    <2>2. CASE u # l[p]
      <3>1. ASSUME NEW m \in 1..N, l[m] = u PROVE \E j \in 1..(N - 1) : r[j] = u
        <4>1. m # p
          BY <2>2, <3>1
        <4>2. PICK j \in 1..(N - 1) : q(j) = m
          BY <1>5, <4>1
        <4>3. QED
          BY <1>3, <3>1, <4>2
      <3>2. ASSUME NEW j \in 1..(N - 1), r[j] = u PROVE \E m \in 1..N : l[m] = u
        BY <1>3, <3>2
      <3>3. g[u] = lf[u]
        BY <1>6, <2>2
      <3>4. QED
        BY <1>1, <3>1, <3>2, <3>3
    <2>3. QED
      BY <2>1, <2>2
  <1>9. ListType(r, h, g)
    BY <1>2, <1>6, <1>7, <1>8 DEF ListType
  <1>10. QED
    BY <1>9 DEF g

\* What is put into the list and taken off the next delta stays in range: the place
\* is where the list has reached it.
LEMMA PlaceFits ==
  ASSUME list \in Seq(Timer), list # <<>>, delta \in [Timer -> 0..(Modulus - 1)],
         NEW i \in 1..2, NEW d \in 0..(Modulus - 1)
  PROVE  LET k == Place(i, d)
             dt == d - (Upto[k - 1] - Upto[i - 1])
         IN  /\ k \in 1..(Len(list) + 1) /\ dt \in 0..(Modulus - 1)
             /\ k <= Len(list) => delta[list[k]] - dt \in 0..(Modulus - 1)
  <1> DEFINE N == Len(list)
             k == Place(i, d)
             a == Upto[i - 1]
             b == Upto[k - 1]
             dt == d - (b - a)
  <1>1. /\ N \in Nat /\ N > 0 /\ Modulus \in Nat /\ Modulus > 0
        /\ \A j \in 1..N : list[j] \in Timer /\ delta[list[j]] \in 0..(Modulus - 1)
    BY VirtualTimersAssumption
  <1>2. /\ Upto[0] = 0
        /\ \A j \in 1..N : Upto[j] = Upto[j - 1] + delta[list[j]]
        /\ \A j \in 0..N : Upto[j] \in Nat /\ (j >= 1 => Upto[1] <= Upto[j])
    BY UptoGrows
  <1>3. /\ k \in i..(N + 1)
        /\ k = N + 1 \/ Upto[k] - Upto[i - 1] >= d
        /\ \A j \in i..(k - 1) : Upto[j] - Upto[i - 1] < d
    <2>1. \A j \in 0..Len(list) : Upto[j] \in Int
      BY <1>2
    <2>2. d \in Int
      BY <1>1
    <2> HIDE DEF N
    <2>3. /\ Place(i, d) \in i..(Len(list) + 1)
          /\ Place(i, d) = Len(list) + 1 \/ Upto[Place(i, d)] - Upto[i - 1] >= d
          /\ \A j \in i..(Place(i, d) - 1) : Upto[j] - Upto[i - 1] < d
      BY <2>1, <2>2, PlaceIs
    <2>4. QED
      BY <2>3 DEF N
  <1> HIDE DEF k, N
  <1>4. k \in 1..(N + 1) /\ i - 1 \in 0..N /\ k - 1 \in 0..N
    BY <1>1, <1>3
  <1>5. a \in Nat /\ b \in Nat /\ a <= b
    <2>1. a \in Nat /\ b \in Nat
      BY <1>2, <1>4
    <2>2. CASE i = 1
      BY <1>2, <2>1, <2>2
    <2>3. CASE i = 2
      <3>1. k - 1 >= 1
        BY <1>1, <1>3, <2>3
      <3>2. QED
        BY <1>2, <1>4, <2>3, <3>1
    <2>4. QED
      BY <2>2, <2>3
  <1>6. b - a <= d
    <2>1. CASE k = i
      <3>1. b = a
        BY <2>1
      <3>2. QED
        BY <1>5, <3>1
    <2>2. CASE k # i
      <3>1. k - 1 \in i..(k - 1)
        BY <1>1, <1>3, <2>2
      <3>2. b - a < d
        BY <1>3, <3>1
      <3>3. QED
        BY <1>5, <3>2
    <2>3. QED
      BY <2>1, <2>2
  <1>7. ASSUME k <= N PROVE delta[list[k]] - dt \in 0..(Modulus - 1)
    <2>1. k \in 1..N /\ k # N + 1
      BY <1>1, <1>4, <1>7
    <2>2. Upto[k] = b + delta[list[k]] /\ delta[list[k]] \in 0..(Modulus - 1) /\ Upto[k] - a >= d
      BY <1>1, <1>2, <1>3, <2>1
    <2> HIDE DEF a, b
    <2>3. QED
      BY <1>1, <1>5, <1>6, <2>2
  <1>8. dt \in 0..(Modulus - 1)
    <2> HIDE DEF a, b
    <2>1. QED
      BY <1>1, <1>5, <1>6
  <1>9. QED
    BY <1>4, <1>7, <1>8 DEF k, N

TypeInv == RegsType /\ ListType(list, delta, left)

LEMMA DoSetIType ==
  ASSUME TypeInv, NEW e \in 0..1, NEW t \in Timer, NEW delay \in use.delays, DoSetI(t, delay, e),
         use' = use
  PROVE  TypeInv'
  <1> DEFINE c == AtLeast(delay)
             g == [left EXCEPT ![t] = c]
  <1>1. RegsType /\ ListType(list, delta, left) /\ use \in Uses
    BY DEF TypeInv, RegsType
  <1>2. c \in Nat /\ c < Modulus /\ c \in Int /\ Modulus \in Nat /\ Modulus > 0
    <2>1. /\ c \in Nat /\ c <= LongestDelay(use) /\ LongestDelay(use) \in Int /\ MaxLateness \in Nat
          /\ Reach \in Int /\ LongestDelay(use) + MaxLateness <= Reach
          /\ Reach + MaxLateness < Modulus /\ Modulus \in Nat
      BY <1>1, Numbers
    <2> HIDE DEF c
    <2>2. QED
      BY <2>1
  <1>3. /\ left[t] = Off /\ isr' = isr
        /\ left' = IF e = 0 THEN g ELSE Pass(g)
    BY DEF DoSetI
  <1>4. /\ list \in Seq(Timer) /\ delta \in [Timer -> 0..(Modulus - 1)] /\ Len(list) \in Nat
        /\ \A j \in 1..Len(list) : list[j] \in Timer
    BY <1>1 DEF ListType
  <1>5. \E k \in 1..(Len(list) + 1), dt \in 0..(Modulus - 1) :
          /\ Insert(t, k, dt)
          /\ k <= Len(list) => delta[list[k]] - dt \in 0..(Modulus - 1)
    <2>1. CASE list = <<>>
      <3>1. Insert(t, 1, c) /\ Len(list) = 0
        BY <2>1 DEF DoSetI
      <3>2. c \in 0..(Modulus - 1) /\ 1 \in 1..(Len(list) + 1) /\ ~(1 <= Len(list))
        BY <1>2, <3>1
      <3> HIDE DEF c
      <3>3. QED
        BY <3>1, <3>2
    <2>2. CASE list # <<>>
      <3> DEFINE sum == Mod(now - lasttime + c)
                 i == IF Wrapped(sum) THEN 2 ELSE 1
                 d == IF Wrapped(sum) THEN Mod(sum - delta[list[1]]) ELSE sum
                 k == Place(i, d)
                 dt == d - (Upto[k - 1] - Upto[i - 1])
      <3>1. DoSetNonEmpty(t, c, e)
        BY <2>2 DEF DoSetI
      <3> HIDE DEF c
      <3>2. Insert(t, k, dt)
        BY <3>1 DEF DoSetNonEmpty
      <3>3. i \in 1..2 /\ d \in 0..(Modulus - 1)
        <4>1. sum \in 0..(Modulus - 1)
          <5>1. now - lasttime + c \in Int
            BY <1>1, <1>2 DEF RegsType
          <5>2. QED
            BY <5>1, ModIs
        <4>2. Mod(sum - delta[list[1]]) \in 0..(Modulus - 1)
          <5>1. delta[list[1]] \in 0..(Modulus - 1)
            <6>1. 1 \in 1..Len(list)
              BY <1>4, <2>2
            <6>2. QED
              BY <1>4, <6>1
          <5> HIDE DEF sum
          <5>2. sum - delta[list[1]] \in Int
            BY <1>2, <4>1, <5>1
          <5>3. QED
            BY <5>2, ModIs
        <4> HIDE DEF sum
        <4>3. QED
          BY <4>1, <4>2
      <3> HIDE DEF i, d
      <3>4. /\ k \in 1..(Len(list) + 1) /\ dt \in 0..(Modulus - 1)
            /\ k <= Len(list) => delta[list[k]] - dt \in 0..(Modulus - 1)
        BY <1>4, <2>2, <3>3, PlaceFits
      <3> HIDE DEF k, dt
      <3>5. QED
        BY <3>2, <3>4
    <2>3. QED
      BY <2>1, <2>2
  <1>6. ListType(list', delta', g)
    <2>1. PICK k \in 1..(Len(list) + 1), dt \in 0..(Modulus - 1) :
            /\ Insert(t, k, dt)
            /\ k <= Len(list) => delta[list[k]] - dt \in 0..(Modulus - 1)
      BY <1>5
    <2>2. list' = InsertAt(list, k, t)
          /\ delta' = [u \in Timer |-> IF u = t THEN dt
                                       ELSE IF k <= Len(list) /\ u = list[k] THEN delta[u] - dt
                                       ELSE delta[u]]
      BY <2>1 DEF Insert
    <2>3. delta' \in [Timer -> 0..(Modulus - 1)]
      BY <1>4, <2>1, <2>2
    <2> HIDE DEF c
    <2>4. ListType(InsertAt(list, k, t), delta', [left EXCEPT ![t] = c])
      BY <1>1, <1>2, <1>3, <2>3, InsertType
    <2>5. QED
      BY <2>2, <2>4
  <1>7. ListType(list', delta', left')
    <2> HIDE DEF g
    <2>1. CASE e = 0
      BY <1>3, <1>6, <2>1
    <2>2. CASE e # 0
      BY <1>3, <1>6, <2>2, PassType
    <2>3. QED
      BY <2>1, <2>2
  <1>8. \E set \in BOOLEAN, start \in BOOLEAN, alarm \in 0..(Modulus - 1) : Ends(e, set, alarm, start)
    <2>1. CASE list = <<>>
      <3>1. Ends(e, TRUE, Mod(now + c), TRUE)
        BY <2>1 DEF DoSetI
      <3> HIDE DEF c
      <3>2. Mod(now + c) \in 0..(Modulus - 1)
        <4>1. now + c \in Int
          BY <1>1, <1>2 DEF RegsType
        <4>2. QED
          BY <4>1, ModIs
      <3>3. TRUE \in BOOLEAN
        OBVIOUS
      <3>4. QED
        BY <3>1, <3>2, <3>3
    <2>2. CASE list # <<>>
      <3> DEFINE sum == Mod(now - lasttime + c)
                 d == IF Wrapped(sum) THEN Mod(sum - delta[list[1]]) ELSE sum
                 set == ~Wrapped(sum) /\ d < delta[list[1]]
      <3>1. DoSetNonEmpty(t, c, e)
        BY <2>2 DEF DoSetI
      <3> HIDE DEF c
      <3>2. Ends(e, set, Mod(lasttime + d), FALSE)
        BY <3>1 DEF DoSetNonEmpty
      <3>3. Mod(lasttime + d) \in 0..(Modulus - 1)
        <4>1. sum \in Int /\ d \in Int
          <5>1. sum \in 0..(Modulus - 1)
            <6>1. now - lasttime + c \in Int
              BY <1>1, <1>2 DEF RegsType
            <6>2. QED
              BY <6>1, ModIs
          <5>2. delta[list[1]] \in 0..(Modulus - 1)
            <6>1. 1 \in 1..Len(list)
              BY <1>4, <2>2
            <6>2. QED
              BY <1>4, <6>1
          <5> HIDE DEF sum
          <5>3. sum \in Int /\ sum - delta[list[1]] \in Int
            BY <1>2, <5>1, <5>2
          <5>4. Mod(sum - delta[list[1]]) \in 0..(Modulus - 1)
            BY <5>3, ModIs
          <5>5. QED
            BY <1>2, <5>3, <5>4
        <4> HIDE DEF sum, d
        <4>2. lasttime + d \in Int
          BY <1>1, <1>2, <4>1 DEF RegsType
        <4>3. QED
          BY <4>2, ModIs
      <3>4. set \in BOOLEAN /\ FALSE \in BOOLEAN
        OBVIOUS
      <3> HIDE DEF set, d
      <3>5. QED
        BY <3>2, <3>3, <3>4
    <2>3. QED
      BY <2>1, <2>2
  <1>9. lasttime' \in 0..(Modulus - 1) /\ DIER' \in BOOLEAN /\ missed' \in BOOLEAN
    <2>1. CASE list = <<>>
      BY <1>1, <2>1 DEF DoSetI, RegsType
    <2>2. CASE list # <<>>
      BY <1>1, <2>2 DEF DoSetI, DoSetNonEmpty, RegsType
    <2>3. QED
      BY <2>1, <2>2
  <1>10. /\ now' \in 0..(Modulus - 1) /\ CCR' \in 0..(Modulus - 1)
         /\ CC1IF' \in BOOLEAN /\ latency' \in 0..MaxLatency
    BY <1>1, <1>8, EndsRanges DEF RegsType
  <1>11. QED
    BY <1>1, <1>3, <1>7, <1>9, <1>10 DEF TypeInv, RegsType

LEMMA DoResetIType ==
  ASSUME TypeInv, NEW e \in 0..1, NEW t \in use.resettable, DoResetI(t, e), use' = use
  PROVE  TypeInv'
  <1> DEFINE P(j) == list[j] = t
             k == CHOOSE j \in DOMAIN list : P(j)
             g == [left EXCEPT ![t] = Off]
  <1>1. RegsType /\ ListType(list, delta, left) /\ use \in Uses
    BY DEF TypeInv, RegsType
  <1>2. /\ list \in Seq(Timer) /\ Len(list) \in Nat /\ DOMAIN list = 1..Len(list)
        /\ delta \in [Timer -> 0..(Modulus - 1)] /\ Modulus \in Nat /\ Modulus > 0 /\ t \in Timer
    <2>1. list \in Seq(Timer) /\ delta \in [Timer -> 0..(Modulus - 1)]
      BY <1>1 DEF ListType
    <2>2. Modulus \in Nat /\ Modulus > 0 /\ use.resettable \subseteq Timer
      BY <1>1, Numbers
    <2>3. QED
      BY <2>1, <2>2
  <1>3. left[t] # Off /\ isr' = isr /\ lasttime' = lasttime /\ missed' = missed
        /\ left' = IF e = 0 THEN g ELSE Pass(g)
    BY DEF DoResetI
  <1>4. k \in 1..Len(list) /\ list[k] = t
    <2>1. \E j \in DOMAIN list : P(j)
      BY <1>1, <1>2, <1>3 DEF ListType
    <2>2. \A j : P(j) => list[j] = t
      OBVIOUS
    <2> HIDE DEF P
    <2>3. k \in DOMAIN list /\ P(k)
      BY <2>1, Zenon
    <2> HIDE DEF k
    <2>4. QED
      BY <1>2, <2>2, <2>3
  <1>5. /\ list' = RemoveAt(list, k)
        /\ delta' = [u \in Timer |-> IF u = t THEN 0
                                     ELSE IF k < Len(list) /\ u = list[k + 1] THEN Mod(delta[u] + delta[t])
                                     ELSE delta[u]]
    BY DEF DoResetI, Unlink
  <1> HIDE DEF k
  <1>6. delta' \in [Timer -> 0..(Modulus - 1)]
    <2>1. ASSUME NEW u \in Timer
          PROVE  /\ Mod(delta[u] + delta[t]) \in 0..(Modulus - 1) /\ delta[u] \in 0..(Modulus - 1)
                 /\ 0 \in 0..(Modulus - 1)
      <3>1. delta[u] \in 0..(Modulus - 1) /\ delta[t] \in 0..(Modulus - 1)
        BY <1>2
      <3>2. delta[u] + delta[t] \in Int /\ 0 \in 0..(Modulus - 1)
        BY <1>2, <3>1, SMTT(30)
      <3>3. QED
        BY <3>1, <3>2, ModIs
    <2>2. QED
      BY <1>5, <2>1
  <1>7. Without(list', list, k)
    BY <1>2, <1>4, <1>5, RemoveAtIs DEF Without
  <1>8. ListType(list', delta', g)
    BY <1>1, <1>4, <1>6, <1>7, WithoutType
  <1>9. ListType(list', delta', left')
    <2> HIDE DEF g
    <2>1. CASE e = 0
      BY <1>3, <1>8, <2>1
    <2>2. CASE e # 0
      BY <1>3, <1>8, <2>2, PassType
    <2>3. QED
      BY <2>1, <2>2
  <1>10. \E set \in BOOLEAN, alarm \in Int :
           Ends(e, set, alarm, FALSE) /\ (set => alarm \in 0..(Modulus - 1))
    <2> DEFINE nowdelta == Mod(now - lasttime)
               next == delta'[list'[1]]
               move == list[1] = t /\ list' # <<>> /\ nowdelta < next
               a == now + AtLeast(next - nowdelta)
               alarm == IF move THEN Mod(a) ELSE 0
    <2>1. Ends(e, move, alarm, FALSE)
      BY DEF DoResetI
    <2>2. ASSUME move PROVE Mod(a) \in 0..(Modulus - 1)
      <3>1. list' \in Seq(Timer) /\ list' # <<>>
        BY <1>8, <2>2 DEF ListType
      <3>2. next \in 0..(Modulus - 1)
        <4>1. list'[1] \in Timer
          BY <3>1
        <4>2. QED
          BY <1>6, <4>1
      <3>3. nowdelta \in 0..(Modulus - 1)
        <4>1. now - lasttime \in Int
          BY <1>1, <1>2 DEF RegsType
        <4>2. QED
          BY <4>1, ModIs
      <3> HIDE DEF next, nowdelta
      <3>4. AtLeast(next - nowdelta) \in Int
        BY <1>2, <3>2, <3>3, VirtualTimersAssumption DEF AtLeast
      <3>5. a \in Int
        BY <1>1, <1>2, <3>4 DEF RegsType
      <3> HIDE DEF a
      <3>6. QED
        BY <3>5, ModIs
    <2> HIDE DEF a
    <2>3. move \in BOOLEAN /\ alarm \in Int /\ (move => alarm \in 0..(Modulus - 1))
      <3>1. move \in BOOLEAN
        OBVIOUS
      <3> HIDE DEF move
      <3>2. QED
        BY <1>2, <2>2, <3>1
    <2> HIDE DEF move, alarm
    <2>4. QED
      BY <2>1, <2>3
  <1>11. /\ now' \in 0..(Modulus - 1) /\ CCR' \in 0..(Modulus - 1)
         /\ CC1IF' \in BOOLEAN /\ latency' \in 0..MaxLatency
    <2>1. PICK set \in BOOLEAN, alarm \in Int :
            Ends(e, set, alarm, FALSE) /\ (set => alarm \in 0..(Modulus - 1))
      BY <1>10
    <2>2. FALSE \in BOOLEAN
      OBVIOUS
    <2>3. QED
      BY <1>1, <2>1, <2>2, EndsRanges DEF RegsType
  <1>12. DIER' \in BOOLEAN
    BY <1>1 DEF DoResetI, RegsType
  <1>13. QED
    BY <1>1, <1>3, <1>9, <1>11, <1>12 DEF TypeInv, RegsType

LEMMA DoTickFireType ==
  ASSUME TypeInv, DoTickFire, use' = use
  PROVE  TypeInv'
  <1>1. RegsType /\ ListType(list, delta, left)
    BY DEF TypeInv
  <1>2. /\ list \in Seq(Timer) /\ list # <<>> /\ 1 \in 1..Len(list) /\ list[1] \in Timer
        /\ delta \in [Timer -> 0..(Modulus - 1)] /\ Modulus \in Nat /\ Modulus > 0
    <2>1. list \in Seq(Timer) /\ list # <<>> /\ delta \in [Timer -> 0..(Modulus - 1)]
      BY <1>1 DEF DoTickFire, Due, ListType
    <2>2. QED
      BY <2>1, VirtualTimersAssumption
  <1>3. Without(list', list, 1)
    BY <1>2, TailWithout DEF DoTickFire
  <1>4. delta' \in [Timer -> 0..(Modulus - 1)]
    BY <1>2 DEF DoTickFire
  <1>5. ListType(list', delta', [left EXCEPT ![list[1]] = Off])
    BY <1>1, <1>2, <1>3, <1>4, WithoutType
  <1>6. lasttime' \in 0..(Modulus - 1)
    <2>1. delta[list[1]] \in 0..(Modulus - 1)
      BY <1>2
    <2>2. lasttime + delta[list[1]] \in Int /\ lasttime' = Mod(lasttime + delta[list[1]])
      BY <1>1, <1>2, <2>1 DEF DoTickFire, RegsType
    <2>3. QED
      BY <2>2, ModIs
  <1>7. QED
    BY <1>1, <1>5, <1>6 DEF DoTickFire, TypeInv, RegsType

LEMMA DoTickEndType ==
  ASSUME TypeInv, NEW e \in 0..1, DoTickEnd(e), use' = use
  PROVE  TypeInv'
  <1> DEFINE set == list # <<>>
             a == now + AtLeast(Mod(lasttime + delta[list[1]] - now))
             alarm == IF set THEN Mod(a) ELSE 0
  <1>1. RegsType /\ ListType(list, delta, left)
    BY DEF TypeInv
  <1>2. set => alarm \in 0..(Modulus - 1)
    <2> SUFFICES ASSUME list # <<>> PROVE Mod(a) \in 0..(Modulus - 1)
      OBVIOUS
    <2> DEFINE x == lasttime + delta[list[1]] - now
    <2>1. list[1] \in Timer /\ Modulus \in Nat
      <3>1. list \in Seq(Timer)
        BY <1>1 DEF ListType
      <3>2. QED
        BY <3>1, VirtualTimersAssumption
    <2>2. x \in Int
      <3>1. delta[list[1]] \in 0..(Modulus - 1)
        BY <1>1, <2>1 DEF ListType
      <3>2. QED
        BY <1>1, <2>1, <3>1 DEF RegsType
    <2> HIDE DEF x
    <2>3. Mod(x) \in 0..(Modulus - 1)
      BY <2>2, ModIs
    <2>4. AtLeast(Mod(x)) \in Int
      BY <2>1, <2>3, VirtualTimersAssumption DEF AtLeast
    <2>5. now + AtLeast(Mod(x)) \in Int
      BY <1>1, <2>1, <2>4 DEF RegsType
    <2>6. Mod(now + AtLeast(Mod(x))) \in 0..(Modulus - 1)
      BY <2>5, ModIs
    <2>7. QED
      BY <2>6 DEF x
  <1>3. Ends(e, set, alarm, FALSE) /\ set \in BOOLEAN /\ FALSE \in BOOLEAN
    BY DEF DoTickEnd
  <1> HIDE DEF set, alarm
  <1>4. /\ now' \in 0..(Modulus - 1) /\ CCR' \in 0..(Modulus - 1)
        /\ CC1IF' \in BOOLEAN /\ latency' \in 0..MaxLatency
    BY <1>1, <1>2, <1>3, EndsRanges DEF RegsType
  <1>5. ListType(list', delta', left')
    <2>1. list' = list /\ delta' = delta /\ (left' = left \/ left' = Pass(left))
      BY DEF DoTickEnd
    <2>2. QED
      BY <1>1, <2>1, PassType
  <1>6. QED
    BY <1>1, <1>4, <1>5 DEF DoTickEnd, TypeInv, RegsType

LEMMA TickType ==
  ASSUME TypeInv, Tick, use' = use
  PROVE  TypeInv'
  <1>1. RegsType /\ ListType(list, delta, left)
    BY DEF TypeInv
  <1>2. now' \in 0..(Modulus - 1)
    <2>1. now + 1 \in Int /\ now' = Mod(now + 1)
      BY <1>1, VirtualTimersAssumption DEF Tick, RegsType
    <2>2. QED
      BY <2>1, ModIs
  <1>3. latency' \in 0..MaxLatency /\ CC1IF' \in BOOLEAN
    BY <1>1, VirtualTimersAssumption DEF Tick, RegsType
  <1>4. ListType(list', delta', left')
    <2>1. list' = list /\ delta' = delta /\ left' = Pass(left)
      BY DEF Tick
    <2>2. QED
      BY <1>1, <2>1, PassType
  <1>5. QED
    BY <1>1, <1>2, <1>3, <1>4 DEF Tick, TypeInv, RegsType
----------------------------------------------------------------------------
(* The theorems.                                                           *)

LEMMA TypeStep == TypeInv /\ [Next]_vars => TypeInv'
  <1> SUFFICES ASSUME TypeInv, [Next]_vars PROVE TypeInv'
    OBVIOUS
  <1>1. CASE Tick /\ UNCHANGED use
    BY <1>1, TickType
  <1>2. CASE IsrEnter /\ UNCHANGED use
    BY <1>2 DEF IsrEnter, TypeInv, RegsType, ListType
  <1>3. CASE DoTickFire /\ UNCHANGED use
    BY <1>3, DoTickFireType
  <1>4. ASSUME NEW e \in 0..1, DoTickEnd(e), UNCHANGED use PROVE TypeInv'
    BY <1>4, DoTickEndType
  <1>5. ASSUME NEW e \in 0..1, NEW t \in use.resettable, DoResetI(t, e), UNCHANGED use
        PROVE  TypeInv'
    BY <1>5, DoResetIType
  <1>6. ASSUME NEW e \in 0..1, NEW t \in Timer, NEW d \in use.delays, DoSetI(t, d, e),
               UNCHANGED use
        PROVE  TypeInv'
    BY <1>6, DoSetIType
  <1>7. CASE UNCHANGED vars
    BY <1>7 DEF vars, tim, TypeInv, RegsType, ListType
  <1>8. QED
    BY <1>1, <1>2, <1>3, <1>4, <1>5, <1>6, <1>7 DEF Next, Steps

\* Every field keeps its range, also after a missed sum: in particular no delta
\* wraps when a timer is put into the list, and a timer is in the list exactly when
\* it is armed, and once (chvt.h:337).
THEOREM TypeCorrect == Spec => []TypeOK
  <1>1. Init => TypeInv
    <2> SUFFICES ASSUME Init PROVE TypeInv
      OBVIOUS
    <2>1. 0 \in 0..(Modulus - 1) /\ 0 \in 0..MaxLatency
      BY VirtualTimersAssumption
    <2>2. ListType(list, delta, left)
      BY <2>1 DEF Init, ListType
    <2>3. RegsType
      BY <2>1 DEF Init, RegsType
    <2>4. QED
      BY <2>2, <2>3 DEF TypeInv
  <1>2. TypeInv => TypeOK
    <2> SUFFICES ASSUME TypeInv PROVE TypeOK
      OBVIOUS
    <2>1. DOMAIN list = 1..Len(list)
      BY DEF TypeInv, ListType
    <2>2. list \in Seq(Timer) /\ IsInjective(list) /\ delta \in [Timer -> 0..Modulus - 1]
      BY <2>1 DEF TypeInv, ListType, IsInjective
    <2>3. \A t \in Timer : left[t] # Off <=> t \in ToSet(list)
      BY <2>1 DEF TypeInv, ListType, ToSet
    <2>4. /\ use \in Uses /\ {lasttime, now, CCR} \subseteq 0..Modulus - 1
          /\ {CC1IF, DIER, isr, missed} \subseteq BOOLEAN /\ latency \in 0..MaxLatency
      BY DEF TypeInv, RegsType
    <2>5. QED
      BY <2>2, <2>3, <2>4 DEF TypeOK
  <1>3. QED
    BY <1>1, <1>2, TypeStep, PTL DEF Spec

\* No step takes a miss back, and none is missed where the delays are short.
LEMMA MissedStays ==
  ASSUME [Next]_vars, ~missed'
  PROVE  ~missed
  <1>1. CASE UNCHANGED vars
    BY <1>1 DEF vars
  <1>2. ASSUME NEW e \in 0..1, NEW t \in Timer, NEW d \in use.delays, DoSetI(t, d, e)
        PROVE  ~missed
    BY <1>2 DEF DoSetI, DoSetNonEmpty
  <1>3. CASE Tick \/ IsrEnter \/ DoTickFire
    BY <1>3 DEF Tick, IsrEnter, DoTickFire
  <1>4. ASSUME NEW e \in 0..1, DoTickEnd(e) PROVE ~missed
    BY <1>4 DEF DoTickEnd
  <1>5. ASSUME NEW e \in 0..1, NEW t \in use.resettable, DoResetI(t, e) PROVE ~missed
    BY <1>5 DEF DoResetI
  <1>6. QED
    BY <1>1, <1>2, <1>3, <1>4, <1>5 DEF Next, Steps

LEMMA ShortNotMissed ==
  ASSUME IInv, ~missed, Short(use), [Next]_vars
  PROVE  ~missed'
  <1>1. CASE UNCHANGED vars
    BY <1>1 DEF vars
  <1>2. ASSUME NEW e \in 0..1, NEW t \in Timer, NEW delay \in use.delays, DoSetI(t, delay, e)
        PROVE  ~missed'
    <2> DEFINE c == AtLeast(delay)
               E == Elapsed
               D == LongestDelay(use)
               f == left[list[1]]
               sum == Mod(now - lasttime + c)
    <2>1. CASE list = <<>>
      BY <1>2, <2>1 DEF DoSetI
    <2>2. CASE list # <<>>
      <3>1. missed' = (missed \/ Misses(sum))
        <4>1. DoSetNonEmpty(t, c, e)
          BY <1>2, <2>2 DEF DoSetI
        <4> HIDE DEF c
        <4>2. QED
          BY <4>1 DEF DoSetNonEmpty
      <3>2. /\ use \in Uses /\ E \in 0..(Modulus - 1) /\ Mod(now - lasttime) = E
            /\ f \in Int /\ f + E <= Reach /\ f >= -MaxLateness
            /\ lasttime \in 0..(Modulus - 1) /\ now \in 0..(Modulus - 1)
        BY <2>2, StateFacts DEF IInv, RegsInv
      <3>3. /\ Modulus \in Nat /\ Modulus > 0 /\ MaxLateness \in Nat /\ D \in Int /\ Reach \in Int
            /\ use.resettable # {} => Reach = 2 * D + 2 * MaxLateness
            /\ use.resettable = {} => Reach = D + MaxLateness
            /\ c \in Nat /\ c <= D
        BY <3>2, Numbers
      <3>4. /\ use.resettable = {} => 2 * D + 2 * MaxLateness < Modulus
            /\ use.resettable # {} => 3 * D + 3 * MaxLateness < Modulus
        BY DEF Short, LongestDelay
      <3> HIDE DEF c, E, D, f
      <3>5. E + c < Modulus
        <4>1. E <= Reach + MaxLateness
          BY <3>2, <3>3
        <4>2. CASE use.resettable = {}
          BY <3>2, <3>3, <3>4, <4>1, <4>2
        <4>3. CASE use.resettable # {}
          BY <3>2, <3>3, <3>4, <4>1, <4>3
        <4>4. QED
          BY <4>2, <4>3
      <3>6. sum = E + c
        <4>1. c < Modulus
          BY <3>2, <3>3, <3>5
        <4>2. Mod(now - lasttime + c) = IF Elapsed + c < Modulus THEN Elapsed + c
                                                                 ELSE Elapsed + c - Modulus
          BY <3>2, <3>3, <4>1, SumIs
        <4>3. QED
          BY <3>5, <4>2 DEF E
      <3> HIDE DEF sum
      <3>7. ~Misses(sum)
        BY <3>2, <3>3, <3>6 DEF Misses
      <3>8. QED
        BY <3>1, <3>7
    <2>3. QED
      BY <2>1, <2>2
  <1>3. CASE Tick \/ IsrEnter \/ DoTickFire
    BY <1>3 DEF Tick, IsrEnter, DoTickFire
  <1>4. ASSUME NEW e \in 0..1, DoTickEnd(e) PROVE ~missed'
    BY <1>4 DEF DoTickEnd
  <1>5. ASSUME NEW e \in 0..1, NEW t \in use.resettable, DoResetI(t, e) PROVE ~missed'
    BY <1>5 DEF DoResetI
  <1>6. QED
    BY <1>1, <1>2, <1>3, <1>4, <1>5 DEF Next, Steps

LEMMA NextStep ==
  ASSUME IInv, [Next]_vars, ~missed'
  PROVE  IInv'
  <1>1. CASE Tick /\ UNCHANGED use
    BY <1>1, TickStep
  <1>2. CASE IsrEnter /\ UNCHANGED use
    BY <1>2, IsrEnterStep
  <1>3. CASE DoTickFire /\ UNCHANGED use
    BY <1>3, DoTickFireStep
  <1>4. ASSUME NEW e \in 0..1, DoTickEnd(e), UNCHANGED use PROVE IInv'
    BY <1>4, DoTickEndStep
  <1>5. ASSUME NEW e \in 0..1, NEW t \in use.resettable, DoResetI(t, e), UNCHANGED use
        PROVE  IInv'
    BY <1>5, DoResetIStep
  <1>6. ASSUME NEW e \in 0..1, NEW t \in Timer, NEW d \in use.delays, DoSetI(t, d, e),
               UNCHANGED use
        PROVE  IInv'
    BY <1>6, DoSetIStep
  <1>7. CASE UNCHANGED vars
    BY <1>7 DEF vars, tim, IInv, RegsInv, Times, Room, Reach, AlarmInv, Pending, Elapsed
  <1>8. QED
    BY <1>1, <1>2, <1>3, <1>4, <1>5, <1>6, <1>7 DEF Next, Steps

\* The inductive invariant.
Inv == /\ missed => ~Short(use)
       /\ ~missed => IInv

\* Until a wrapped sum is missed, every delta and the alarm agree with the times left
\* and the base is not too old; and where the delays are short for the width of the
\* counter, no sum is ever missed (chvt.c:137-148, 178-179, 226-266).
THEOREM InductiveInvariant == Spec => []Inv
  <1>1. Init => Inv
    BY InitStep DEF Init, Inv
  <1>2. Inv /\ [Next]_vars => Inv'
    <2> SUFFICES ASSUME Inv, [Next]_vars PROVE Inv'
      OBVIOUS
    <2>1. use' = use
      BY DEF Next, vars
    <2>2. ASSUME missed' PROVE ~Short(use')
      <3>1. CASE missed
        BY <2>1, <3>1 DEF Inv
      <3>2. CASE ~missed
        BY <2>1, <2>2, <3>2, ShortNotMissed DEF Inv
      <3>3. QED
        BY <3>1, <3>2
    <2>3. ASSUME ~missed' PROVE IInv'
      BY <2>3, MissedStays, NextStep DEF Inv
    <2>4. QED
      BY <2>1, <2>2, <2>3 DEF Inv, Short
  <1>3. QED
    BY <1>1, <1>2, PTL DEF Spec

\* Until a wrapped sum is missed, the deadline of each armed timer is the one it was
\* given, through wraps of the counter, skipped first timers and removed ones
\* (chvt.c:137-179, 240); none is missed where the delays are short.
THEOREM DeadlinesAlwaysKept == Spec => []DeadlinesKept
  <1>1. Inv => DeadlinesKept
    <2> SUFFICES ASSUME IInv, NEW k \in DOMAIN list
                 PROVE  Upto[k] - Mod(now - lasttime) = left[list[k]]
      BY DEF DeadlinesKept, Inv
    <2>1. /\ Elapsed \in Int /\ Mod(now - lasttime) = Elapsed
          /\ Times(list, delta, left, Elapsed)
      BY StateFacts DEF IInv
    <2>2. k \in 1..Len(list) /\ k \in 0..Len(list) /\ k # 0 /\ left[list[k]] \in Int
      BY <2>1, TimesType
    <2>3. Upto = [j \in 0..Len(list) |-> IF j = 0 THEN 0 ELSE left[list[j]] + Elapsed]
      BY <2>1, UptoIs
    <2>4. Upto[k] = left[list[k]] + Elapsed
      BY <2>2, <2>3
    <2>5. QED
      BY <2>1, <2>2, <2>4
  <1>2. QED
    BY <1>1, InductiveInvariant, PTL

LEMMA NoneLate == IInv => Service!OnTime
  <1> SUFFICES ASSUME IInv, NEW t \in Timer, left[t] # Off PROVE left[t] >= -MaxLateness
    BY DEF Service!OnTime, Service!Armed
  <1>1. Times(list, delta, left, Elapsed) /\ Elapsed \in Int
    BY StateFacts DEF IInv
  <1>2. PICK j \in DOMAIN list : list[j] = t
    BY <1>1 DEF Times
  <1>3. DOMAIN list = 1..Len(list) /\ Len(list) \in Nat /\ \A m \in 1..Len(list) : left[list[m]] \in Int
    BY <1>1, TimesType
  <1>4. 1 \in DOMAIN list /\ 1 <= j /\ list # <<>>
    BY <1>2, <1>3
  <1>5. \A i, m \in DOMAIN list : i <= m => left[list[i]] <= left[list[m]]
    BY <1>1 DEF Times
  <1>6. left[list[1]] <= left[list[j]] /\ left[list[1]] \in Int /\ left[list[j]] \in Int
    BY <1>2, <1>3, <1>4, <1>5
  <1>7. left[list[1]] >= -MaxLateness /\ MaxLateness \in Nat
    BY <1>4, StateFacts, Numbers
  <1>8. QED
    BY <1>2, <1>6, <1>7

LEMMA PassSame == ASSUME NEW l PROVE Service!Pass(l) = Pass(l)
  BY DEF Service!Pass, Pass

LEMMA StepsMap ==
  ASSUME IInv, [Next]_vars, Service!OnTime'
  PROVE  [Service!Next]_left
  <1>1. CASE Tick
    BY <1>1, PassSame DEF Tick, Service!Next, Service!Tick
  <1>2. CASE IsrEnter
    BY <1>2 DEF IsrEnter
  <1>3. CASE DoTickFire
    <2> DEFINE t == list[1]
    <2>1. list # <<>> /\ delta[t] <= Elapsed
      BY <1>3, StateFacts DEF DoTickFire, Due
    <2>2. t \in Timer /\ left[t] \in Int /\ delta[t] = left[t] + Elapsed /\ Elapsed \in Int
      BY <2>1, StateFacts
    <2>3. left[t] <= 0
      <3> HIDE DEF t
      <3>1. QED
        BY <2>1, <2>2
    <2>4. left[t] # Off
      BY <2>2, VirtualTimersAssumption
    <2>5. ASSUME NEW u \in Timer, left[u] # Off PROVE left[t] <= left[u]
      <3>1. Times(list, delta, left, Elapsed)
        BY DEF IInv
      <3>2. PICK j \in DOMAIN list : list[j] = u
        BY <2>5, <3>1 DEF Times
      <3>3. 1 \in DOMAIN list /\ 1 <= j
        BY <2>1, <3>1, <3>2 DEF Times
      <3>4. \A i, m \in DOMAIN list : i <= m => left[list[i]] <= left[list[m]]
        BY <3>1 DEF Times
      <3>5. QED
        BY <3>2, <3>3, <3>4
    <2>6. left' = [left EXCEPT ![t] = Off]
      BY <1>3 DEF DoTickFire
    <2>7. Service!Fire(t)
      <3> HIDE DEF t
      <3>1. QED
        BY <2>2, <2>3, <2>4, <2>5, <2>6 DEF Service!Fire, Service!Armed
    <2>8. QED
      BY <2>2, <2>7 DEF Service!Next
  <1>4. ASSUME NEW e \in 0..1, DoTickEnd(e) PROVE [Service!Next]_left
    BY <1>4, PassSame DEF DoTickEnd, Service!Next, Service!Tick
  <1>5. ASSUME NEW e \in 0..1, NEW t \in use.resettable, DoResetI(t, e)
        PROVE  [Service!Next]_left
    <2> DEFINE g == [left EXCEPT ![t] = Off]
    <2>1. t \in Timer
      BY StateFacts, Numbers
    <2>2. left[t] # Off /\ left' = (IF e = 0 THEN g ELSE Pass(g))
      BY <1>5 DEF DoResetI
    <2>3. Service!Reset(t) \/ Service!ResetAndTick(t)
      BY <2>1, <2>2, PassSame DEF Service!Reset, Service!ResetAndTick, Service!Armed
    <2>4. QED
      BY <2>1, <2>3 DEF Service!Next
  <1>6. ASSUME NEW e \in 0..1, NEW t \in Timer, NEW delay \in use.delays, DoSetI(t, delay, e)
        PROVE  [Service!Next]_left
    <2> DEFINE g == [left EXCEPT ![t] = AtLeast(delay)]
    <2>1. delay \in Delays
      BY StateFacts DEF Delays
    <2>2. left[t] = Off /\ left' = (IF e = 0 THEN g ELSE Pass(g))
      BY <1>6 DEF DoSetI
    <2>3. g = [left EXCEPT ![t] = IF delay < TIMEDELTA THEN TIMEDELTA ELSE delay]
      BY DEF AtLeast
    <2>4. Service!Set(t)
      <3> HIDE DEF g
      <3>1. left' \in {g, Service!Pass(g)}
        BY <2>2, PassSame
      <3>2. QED
        BY <2>1, <2>2, <2>3, <3>1 DEF Service!Set, Service!Armed
    <2>5. QED
      BY <2>4 DEF Service!Next
  <1>7. CASE UNCHANGED vars
    BY <1>7 DEF vars
  <1>8. QED
    BY <1>1, <1>2, <1>3, <1>4, <1>5, <1>6, <1>7 DEF Next, Steps

\* Until a wrapped sum is missed, a timer fires once, in the order of the deadlines,
\* never before its delay has passed and never more than MaxLateness ticks after it
\* (chvt.h:741-749, chvt.c:253-266).
THEOREM ImplementsService == Spec => ServiceSpec
  <1>1. Init => Service!Init
    BY DEF Init, Service!Init
  <1>2. Inv /\ Inv' /\ [Next]_vars => [~missed' => Service!Next]_left
    <2> SUFFICES ASSUME Inv, Inv', [Next]_vars, ~missed' PROVE [Service!Next]_left
      OBVIOUS
    <2>1. IInv /\ IInv'
      BY MissedStays DEF Inv
    <2>2. IInv' => Service!OnTime'
      BY NoneLate, PTL
    <2>3. QED
      BY <2>1, <2>2, StepsMap
  <1>3. QED
    BY <1>1, <1>2, InductiveInvariant, PTL DEF Spec, ServiceSpec

\* The delays of every application are short for the width of the counter.
ShortDelays == \A u \in Uses : Short(u)

\* With short delays, as in the firmware, no sum is ever missed and the timers keep
\* the whole promise for ever (chvt.c:137-148, chvt.h:741-749).
THEOREM ShortDelaysServed == ShortDelays /\ Spec => Service!Spec
  <1> SUFFICES ASSUME ShortDelays PROVE Spec => Service!Spec
    OBVIOUS
  <1>1. Init => Service!Init
    BY DEF Init, Service!Init
  <1>2. Init => use \in Uses
    BY DEF Init
  <1>3. use \in Uses /\ [Next]_vars => (use \in Uses)'
    BY DEF Next, vars
  <1>4. Inv /\ Inv' /\ use \in Uses /\ (use \in Uses)' /\ [Next]_vars => [Service!Next]_left
    <2> SUFFICES ASSUME Inv, Inv', use \in Uses, use' \in Uses, [Next]_vars
                 PROVE  [Service!Next]_left
      OBVIOUS
    <2>1. ~missed /\ ~missed'
      BY DEF Inv, ShortDelays, Short
    <2>2. IInv /\ IInv'
      BY <2>1 DEF Inv
    <2>3. IInv' => Service!OnTime'
      BY NoneLate, PTL
    <2>4. QED
      BY <2>2, <2>3, StepsMap
  <1>5. QED
    BY <1>1, <1>2, <1>3, <1>4, InductiveInvariant, PTL DEF Spec, Service!Spec
============================================================================
