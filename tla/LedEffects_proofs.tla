------------------------- MODULE LedEffects_proofs -------------------------
(***************************************************************************)
(* Proofs about the LED effects for every length of the strip, every       *)
(* brightness and every number of requests, wherever a request meets the   *)
(* steps of the Effects thread.                                            *)
(***************************************************************************)
EXTENDS LedEffects, PercentFade, TLAPS

\* What Effects knows between the steps that take no lock: the thread
\* reference, an effect to be ended, none when it goes to sleep.
EffectInv ==
    /\ PThd = (epc = "suspended")
    /\ epc \in {"suspend", "suspended"} => PCurrentEff = "null"
    /\ epc \in {"process", "end"} => PCurrentEff # "null"
    /\ epc = "end" => ICurrentClr = DesiredClr /\ strip = DesiredClr

\* Nothing is assigned to LED i from the k-th entry of todo on.
Untouched(i, list, k) == \A l \in k..Len(list) : list[l][1] # i

\* pic with the colour a[2] assigned to the LED a[1].
Assigned(pic, a) == [i \in Led |-> IF i = a[1] THEN a[2] ELSE pic[i]]

\* The assignments of list, carried out in their order, turn pic into g: what
\* an LED gets last is its colour in g, or it gets nothing and has it already.
Leads(pic, list, g) ==
    \A i \in Led :
        \/ \E k \in 1..Len(list) : list[k] = <<i, g[i]>> /\ Untouched(i, list, k + 1)
        \/ pic[i] = g[i] /\ Untouched(i, list, 1)

\* Where the picture requested last is: on the strip, in DesiredClr with an
\* effect that moves towards it, or in what main's loops still have to write,
\* during which no effect disturbs them.
GoalInv ==
    /\ mpc = "idle" /\ PCurrentEff = "null" => ICurrentClr = goal /\ strip = goal
    /\ mpc = "idle" /\ PCurrentEff # "null" => DesiredClr = goal
    /\ mpc = "now" => PCurrentEff = "null" /\ Leads(ICurrentClr, todo, goal)
    /\ mpc = "fade" => Leads(DesiredClr, todo, goal)

\* Thresholds that take the first or the second loop out of the strip.
Beyond(a) == a[1] > LED_CNT \/ a[2] < 0

\* Only with those is anything assigned outside, or going to be.
FadeInv ==
    /\ thr = <<0, 0>> \/ thr \in FadeArgs
    /\ mpc # "fade" => thr = <<0, 0>>
    /\ outside => Beyond(thr)
    /\ ~Beyond(thr) => todo \in Seq(Led \X Clr)

IInv == TypeOK /\ EffectInv /\ GoalInv /\ FadeInv
----------------------------------------------------------------------------
(* Colours.                                                                *)

\* A mix of two colours is a colour: the weights are brt / Top and the rest.
LEMMA ClrMixInClr ==
  ASSUME NEW fore \in Clr, NEW back \in Clr, NEW brt \in Clr
  PROVE  ClrMix(fore, back, brt) \in Clr
  <1>1. Top \in Nat \ {0}
    BY ColorsAssumption
  <1>2. fore * brt <= Top * brt /\ fore * brt \in Nat
    BY <1>1 DEF Clr
  <1>3. back * (Top - brt) <= Top * (Top - brt) /\ back * (Top - brt) \in Nat
    BY <1>1 DEF Clr
  <1>4. Top * brt + Top * (Top - brt) = Top * Top
    BY <1>1 DEF Clr
  <1> DEFINE n == fore * brt + back * (Top - brt)
  <1>5. n \in Nat /\ n <= Top * Top
    BY <1>1, <1>2, <1>3, <1>4 DEF Clr
  <1> HIDE DEF n
  <1>6. n \div Top \in Nat /\ n \div Top <= Top
    BY <1>1, <1>5
  <1>7. QED
    BY <1>1, <1>6 DEF ClrMix, Clr, n

\* Every LED of a gradient gets a colour: the brightness stays within Top,
\* whatever the two divisions round away.
LEMMA GradientInClr ==
  ASSUME NEW len \in Nat \ {0}, NEW i \in 0..(len - 1)
  PROVE  Gradient(i, len) \in Clr
  <1>1. Top \in Nat \ {0} /\ Scale \in Nat \ {0} /\ ClrLo \in Clr /\ ClrHi \in Clr
    BY ColorsAssumption DEF Clr
  <1> DEFINE total == Top * Scale
             BrtStep == total \div len
             x == i * BrtStep
  <1>2. total \in Nat
    BY <1>1
  <1>3. BrtStep \in Nat /\ len * BrtStep <= total
    <2> HIDE DEF total
    <2> QED BY <1>2
  <1>4. x \in Nat /\ x <= len * BrtStep
    <2> HIDE DEF BrtStep
    <2> QED BY <1>3
  <1>5. x \in Nat /\ x <= Scale * Top
    <2> HIDE DEF x, BrtStep
    <2> QED BY <1>1, <1>3, <1>4
  <1>6. x \div Scale \in Clr
    <2> HIDE DEF x
    <2> QED BY <1>1, <1>5 DEF Clr
  <1>7. QED
    BY <1>1, <1>6, ClrMixInClr DEF Gradient

LEMMA AdjustInClr ==
  ASSUME NEW a \in Clr, NEW b \in Clr
  PROVE  Adjust(a, b) \in Clr
  BY ColorsAssumption DEF Adjust, Clr

\* The longest delay is nothing only when no LED has to move.
LEMMA NoDelay ==
  ASSUME NEW a \in Clr, NEW b \in Clr, DelayToNextAdj(a, b, Smooth) = 0
  PROVE  a = b
  <1>1. Smooth \div (a + 4) \in Nat
    BY LedEffectsAssumption DEF Clr
  <1>2. QED
    BY <1>1 DEF DelayToNextAdj

LEMMA AllInClr == ASSUME NEW c \in Clr PROVE All(c) \in [Led -> Clr]
  BY DEF All

LEMMA FadePictureInClr ==
  ASSUME NEW ThrLo \in Int, NEW ThrHi \in Int
  PROVE  FadePicture(ThrLo, ThrHi) \in [Led -> Clr]
  <1>1. ClrLo \in Clr /\ ClrHi \in Clr /\ LED_CNT \in Nat
    BY ColorsAssumption DEF Clr
  <1>2. ASSUME NEW i \in Led, ThrLo <= i, i < ThrHi
        PROVE  Gradient(i - ThrLo, ThrHi - ThrLo) \in Clr
    <2>1. ThrHi - ThrLo \in Nat \ {0} /\ i - ThrLo \in 0..(ThrHi - ThrLo - 1)
      BY <1>1, <1>2 DEF Led
    <2>2. QED
      BY <2>1, GradientInClr
  <1>3. ASSUME NEW i \in Led
        PROVE  (IF i >= ThrHi THEN ClrHi
                ELSE IF i < ThrLo THEN ClrLo ELSE Gradient(i - ThrLo, ThrHi - ThrLo)) \in Clr
    BY <1>1, <1>2 DEF Led
  <1>4. QED
    BY <1>3 DEF FadePicture
----------------------------------------------------------------------------
(* The assignments of main's loops.                                        *)

\* A function on 1..n is a sequence; it is empty when n is negative, as a loop
\* of EffFadeOneByOne is that ends before it begins.
LEMMA LoopIsSeq ==
  ASSUME NEW S, NEW n \in Int, NEW f \in [1..n -> S]
  PROVE  f \in Seq(S) /\ Len(f) = (IF n >= 0 THEN n ELSE 0)
  <1>1. CASE n >= 0
    <2>1. n \in Nat
      BY <1>1
    <2>2. f \in Seq(S)
      BY <2>1
    <2>3. QED
      BY <1>1, <2>1, <2>2
  <1>2. CASE n < 0
    <2>1. 1..n = 1..0
      BY <1>2
    <2>2. f \in [1..0 -> S]
      BY <2>1
    <2>3. QED
      BY <1>2, <2>2
  <1>3. QED
    BY <1>1, <1>2

LEMMA LeadsDone ==
  ASSUME NEW pic \in [Led -> Clr], NEW g \in [Led -> Clr], Leads(pic, <<>>, g)
  PROVE  pic = g
  BY DEF Leads

\* One assignment carried out leaves the rest leading to the same picture; one
\* outside the strip leaves the strip alone.
LEMMA LeadsStep ==
  ASSUME NEW list \in Seq(Int \X Clr), list # <<>>,
         NEW pic \in [Led -> Clr], NEW g \in [Led -> Clr],
         Leads(pic, list, g)
  PROVE  Leads(Assigned(pic, Head(list)), Tail(list), g)
  <1> DEFINE next == Assigned(pic, Head(list))
             rest == Tail(list)
  <1>1. /\ Len(list) \in Nat \ {0} /\ Len(rest) = Len(list) - 1
        /\ \A l \in 1..Len(rest) : rest[l] = list[l + 1]
        /\ Head(list) = list[1] /\ list[1] \in Int \X Clr
    OBVIOUS
  <1>5. \A i \in Led : next[i] = IF i = list[1][1] THEN list[1][2] ELSE pic[i]
    BY <1>1 DEF Assigned
  <1> HIDE DEF next
  <1>2. ASSUME NEW i \in Led, NEW k \in Nat \ {0}, Untouched(i, list, k + 1)
        PROVE  Untouched(i, rest, k)
    BY <1>1, <1>2 DEF Untouched
  <1>3. ASSUME NEW i \in Led
        PROVE  \/ \E k \in 1..Len(rest) : rest[k] = <<i, g[i]>> /\ Untouched(i, rest, k + 1)
               \/ next[i] = g[i] /\ Untouched(i, rest, 1)
    <2>1. CASE pic[i] = g[i] /\ Untouched(i, list, 1)
      <3>1. list[1][1] # i
        BY <1>1, <2>1 DEF Untouched
      <3>2. next[i] = g[i]
        BY <1>5, <2>1, <3>1
      <3>3. Untouched(i, list, 2)
        BY <1>1, <2>1 DEF Untouched
      <3>4. QED
        BY <1>2, <3>2, <3>3
    <2>2. ASSUME NEW k \in 1..Len(list), list[k] = <<i, g[i]>>, Untouched(i, list, k + 1)
          PROVE  \/ \E m \in 1..Len(rest) : rest[m] = <<i, g[i]>> /\ Untouched(i, rest, m + 1)
                 \/ next[i] = g[i] /\ Untouched(i, rest, 1)
      <3>1. CASE k = 1
        <4>1. next[i] = g[i]
          BY <1>5, <2>2, <3>1
        <4>2. QED
          BY <1>2, <2>2, <3>1, <4>1
      <3>2. CASE k > 1
        <4>1. k - 1 \in 1..Len(rest) /\ rest[k - 1] = <<i, g[i]>>
          BY <1>1, <2>2, <3>2
        <4>2. Untouched(i, rest, (k - 1) + 1)
          BY <1>2, <2>2, <3>2
        <4>3. QED
          BY <4>1, <4>2
      <3>3. QED
        BY <1>1, <3>1, <3>2
    <2>3. QED
      BY <2>1, <2>2 DEF Leads
  <1>4. QED
    BY <1>3 DEF Leads, next

\* EffAllTogetherNow's loop writes the whole picture.
LEMMA NowLeads ==
  ASSUME NEW c \in Clr, NEW pic \in [Led -> Clr]
  PROVE  LET list == [k \in 1..LED_CNT |-> <<k - 1, c>>]
         IN  list \in Seq(Led \X Clr) /\ Leads(pic, list, All(c))
  <1> DEFINE list == [k \in 1..LED_CNT |-> <<k - 1, c>>]
  <1>1. LED_CNT \in Nat \ {0}
    BY ColorsAssumption
  <1>2. list \in Seq(Led \X Clr) /\ Len(list) = LED_CNT
    <2>1. \A k \in 1..LED_CNT : <<k - 1, c>> \in Led \X Clr
      BY <1>1 DEF Led
    <2>2. list \in [1..LED_CNT -> Led \X Clr]
      BY <2>1
    <2> HIDE DEF list
    <2>3. QED
      BY <1>1, <2>2, LoopIsSeq
  <1>3. \A k \in 1..LED_CNT : list[k] = <<k - 1, c>>
    OBVIOUS
  <1> HIDE DEF list
  <1>4. ASSUME NEW i \in Led
        PROVE  \E k \in 1..Len(list) : list[k] = <<i, All(c)[i]>> /\ Untouched(i, list, k + 1)
    <2>1. i + 1 \in 1..Len(list) /\ list[i + 1] = <<i, All(c)[i]>>
      BY <1>1, <1>2, <1>3 DEF Led, All
    <2>2. Untouched(i, list, (i + 1) + 1)
      BY <1>1, <1>2, <1>3 DEF Led, Untouched
    <2>3. QED
      BY <2>1, <2>2
  <1>5. list \in Seq(Led \X Clr) /\ Leads(pic, list, All(c))
    BY <1>2, <1>4 DEF Leads
  <1>6. QED
    BY <1>5 DEF list

\* EffFadeOneByOne's three loops write the whole picture, also where the first
\* two overlap because the thresholds cross: the later one wins.  They write
\* outside the strip only with thresholds beyond it.
LEMMA FadeLeads ==
  ASSUME NEW ThrLo \in Int, NEW ThrHi \in Int, NEW pic \in [Led -> Clr]
  PROVE  /\ FadeAssignments(ThrLo, ThrHi) \in Seq(Int \X Clr)
         /\ ~Beyond(<<ThrLo, ThrHi>>) => FadeAssignments(ThrLo, ThrHi) \in Seq(Led \X Clr)
         /\ Leads(pic, FadeAssignments(ThrLo, ThrHi), FadePicture(ThrLo, ThrHi))
  <1> DEFINE from == IF ThrLo > 0 THEN ThrLo ELSE 0
             to == IF ThrHi < LED_CNT THEN ThrHi ELSE LED_CNT
             len == ThrHi - ThrLo
             G(x) == Gradient(x - ThrLo, len)
             rest == LED_CNT - ThrHi
             mid == to - from
             below == [k \in 1..ThrLo |-> <<k - 1, ClrLo>>]
             above == [k \in 1..rest |-> <<ThrHi + k - 1, ClrHi>>]
             between == [k \in 1..mid |-> <<from + k - 1, G(from + k - 1)>>]
             list == below \o above \o between
             a == IF ThrLo >= 0 THEN ThrLo ELSE 0
             b == IF rest >= 0 THEN rest ELSE 0
             c == IF mid >= 0 THEN mid ELSE 0
             g == FadePicture(ThrLo, ThrHi)
             near == ~Beyond(<<ThrLo, ThrHi>>)
  <1>. ClrLo \in Clr /\ ClrHi \in Clr
    BY ColorsAssumption DEF Clr
  <1>1. /\ LED_CNT \in Nat \ {0} /\ rest \in Int /\ rest = LED_CNT - ThrHi
        /\ mid \in Int /\ from \in Nat /\ len \in Int /\ len = ThrHi - ThrLo
        /\ from >= ThrLo /\ (from = ThrLo \/ from = 0)
        /\ from + mid <= ThrHi /\ from + mid <= LED_CNT
        /\ from + mid = ThrHi \/ from + mid = LED_CNT
        /\ near => ThrLo <= LED_CNT /\ ThrHi >= 0
    BY ColorsAssumption DEF Beyond
  <1>2. /\ a \in Nat /\ b \in Nat /\ c \in Nat
        /\ a >= ThrLo /\ (a # 0 => a = ThrLo) /\ b >= rest /\ (b # 0 => b = rest)
        /\ c >= mid /\ (c # 0 => c = mid)
    BY <1>1
  <1>3. /\ below \in Seq(Int \X Clr) /\ Len(below) = a
        /\ \A k \in 1..a : below[k] = <<k - 1, ClrLo>>
        /\ near => below \in Seq(Led \X Clr)
    <2>1. \A k \in 1..ThrLo : <<k - 1, ClrLo>> \in Int \X Clr
      OBVIOUS
    <2>2. near => \A k \in 1..ThrLo : <<k - 1, ClrLo>> \in Led \X Clr
      BY <1>1 DEF Led
    <2>3. below \in [1..ThrLo -> Int \X Clr] /\ (near => below \in [1..ThrLo -> Led \X Clr])
      BY <2>1, <2>2
    <2>4. \A k \in 1..ThrLo : below[k] = <<k - 1, ClrLo>>
      OBVIOUS
    <2>5. 1..a \subseteq 1..ThrLo
      BY <1>2
    <2> HIDE DEF below, near
    <2>6. below \in Seq(Int \X Clr) /\ Len(below) = a
      BY <2>3, LoopIsSeq
    <2>7. near => below \in Seq(Led \X Clr)
      BY <2>3, LoopIsSeq
    <2>8. QED
      BY <2>4, <2>5, <2>6, <2>7
  <1>4. /\ above \in Seq(Int \X Clr) /\ Len(above) = b
        /\ \A k \in 1..b : above[k] = <<ThrHi + k - 1, ClrHi>>
        /\ near => above \in Seq(Led \X Clr)
    <2>1. \A k \in 1..rest : <<ThrHi + k - 1, ClrHi>> \in Int \X Clr
      BY <1>1
    <2>2. near => \A k \in 1..rest : <<ThrHi + k - 1, ClrHi>> \in Led \X Clr
      BY <1>1 DEF Led
    <2>3. above \in [1..rest -> Int \X Clr] /\ (near => above \in [1..rest -> Led \X Clr])
      BY <2>1, <2>2
    <2>4. \A k \in 1..rest : above[k] = <<ThrHi + k - 1, ClrHi>>
      OBVIOUS
    <2>5. 1..b \subseteq 1..rest
      BY <1>2
    <2> HIDE DEF above, near, rest
    <2>6. above \in Seq(Int \X Clr) /\ Len(above) = b
      BY <1>1, <2>3, LoopIsSeq
    <2>7. near => above \in Seq(Led \X Clr)
      BY <1>1, <2>3, LoopIsSeq
    <2>8. QED
      BY <2>4, <2>5, <2>6, <2>7
  <1>5. /\ between \in Seq(Led \X Clr) /\ Len(between) = c
        /\ \A k \in 1..c : between[k] = <<from + k - 1, G(from + k - 1)>>
    <2>1. ASSUME NEW k \in 1..mid
          PROVE  <<from + k - 1, G(from + k - 1)>> \in Led \X Clr
      <3> HIDE DEF from, mid, len
      <3>1. len \in Nat \ {0} /\ (from + k - 1) - ThrLo \in 0..(len - 1)
        BY <1>1
      <3>2. G(from + k - 1) \in Clr
        BY <3>1, GradientInClr
      <3>3. from + k - 1 \in Led
        BY <1>1 DEF Led
      <3>4. QED
        BY <3>2, <3>3
    <2>2. between \in [1..mid -> Led \X Clr]
      BY <2>1
    <2>3. \A k \in 1..mid : between[k] = <<from + k - 1, G(from + k - 1)>>
      OBVIOUS
    <2>4. 1..c \subseteq 1..mid
      <3> HIDE DEF between, mid, c
      <3> QED BY <1>1, <1>2
    <2> HIDE DEF between, mid
    <2>5. between \in Seq(Led \X Clr) /\ Len(between) = c
      BY <1>1, <2>2, LoopIsSeq
    <2>6. QED
      BY <2>3, <2>4, <2>5
  <1>6. g = [i \in Led |-> IF i >= ThrHi THEN ClrHi
                          ELSE IF i < ThrLo THEN ClrLo ELSE G(i)]
    BY DEF FadePicture
  <1>7. list = FadeAssignments(ThrLo, ThrHi)
    BY DEF FadeAssignments
  <1>8. list = below \o above \o between
    OBVIOUS
  <1> HIDE DEF below, above, between, from, to, len, G, mid, rest, a, b, c, g, list, near
  <1>9. /\ list \in Seq(Int \X Clr) /\ (near => list \in Seq(Led \X Clr))
        /\ Len(list) = a + b + c
        /\ \A k \in 1..(a + b + c) :
             /\ k <= a => list[k] = below[k]
             /\ k > a /\ k <= a + b => list[k] = above[k - a]
             /\ k > a + b => list[k] = between[k - a - b]
    <2> DEFINE S == Int \X Clr
               L == Led \X Clr
    <2>1. Led \subseteq Int
      BY DEF Led
    <2>2. L \subseteq S
      BY <2>1
    <2>3. Seq(L) \subseteq Seq(S)
      BY <2>2
    <2>4. /\ a = Len(below) /\ b = Len(above) /\ c = Len(between)
          /\ below \in Seq(S) /\ above \in Seq(S) /\ between \in Seq(S)
          /\ between \in Seq(L) /\ (near => below \in Seq(L) /\ above \in Seq(L))
      BY <1>3, <1>4, <1>5, <2>3
    <2> HIDE DEF S, L
    <2>5. list \in Seq(S) /\ Len(list) = a + b + c
      BY <1>8, <2>4
    <2>6. near => list \in Seq(L)
      BY <1>8, <2>4
    <2>7. \A k \in 1..(a + b + c) :
             /\ k <= a => list[k] = below[k]
             /\ k > a /\ k <= a + b => list[k] = above[k - a]
             /\ k > a + b => list[k] = between[k - a - b]
      BY <1>8, <2>4
    <2>8. QED
      BY <2>5, <2>6, <2>7 DEF S, L
  <1>10. Len(list) = a + b + c
    BY <1>9
  <1>11. ASSUME NEW k \in 1..(a + b + c)
         PROVE  /\ k <= a => list[k] = <<k - 1, ClrLo>>
                /\ k > a /\ k <= a + b => list[k] = <<ThrHi + (k - a) - 1, ClrHi>>
                /\ k > a + b =>
                     list[k] = <<from + (k - a - b) - 1, G(from + (k - a - b) - 1)>>
    <2>1. k <= a => k \in 1..a
      BY <1>2
    <2>2. k > a /\ k <= a + b => k - a \in 1..b
      BY <1>2
    <2>3. k > a + b => k - a - b \in 1..c
      BY <1>2
    <2>4. k <= a => list[k] = <<k - 1, ClrLo>>
      BY <1>3, <1>9, <2>1
    <2>5. k > a /\ k <= a + b => list[k] = <<ThrHi + (k - a) - 1, ClrHi>>
      BY <1>4, <1>9, <2>2
    <2>6. k > a + b =>
            list[k] = <<from + (k - a - b) - 1, G(from + (k - a - b) - 1)>>
      BY <1>5, <1>9, <2>3
    <2>7. QED
      BY <2>4, <2>5, <2>6
  <1>12. ASSUME NEW i \in Led, NEW k \in 1..(a + b + c), list[k] = <<i, g[i]>>,
                \A l \in 1..(a + b + c) : l > k =>
                  /\ l <= a => l - 1 # i
                  /\ l > a /\ l <= a + b => ThrHi + (l - a) - 1 # i
                  /\ l > a + b => from + (l - a - b) - 1 # i
         PROVE  \E m \in 1..Len(list) : list[m] = <<i, g[i]>> /\ Untouched(i, list, m + 1)
    <2>1. ASSUME NEW l \in (k + 1)..Len(list)
          PROVE  list[l][1] # i
      <3>1. l \in 1..(a + b + c) /\ l > k
        BY <1>2, <1>10
      <3>2. l <= a \/ (l > a /\ l <= a + b) \/ l > a + b
        BY <1>2, <3>1
      <3>3. CASE l <= a
        BY <1>11, <1>12, <3>1, <3>3
      <3>4. CASE l > a /\ l <= a + b
        BY <1>11, <1>12, <3>1, <3>4
      <3>5. CASE l > a + b
        BY <1>11, <1>12, <3>1, <3>5
      <3>6. QED
        BY <3>2, <3>3, <3>4, <3>5
    <2>2. QED
      BY <1>10, <1>12, <2>1 DEF Untouched
  <1>13. ASSUME NEW i \in Led
         PROVE  \E k \in 1..Len(list) : list[k] = <<i, g[i]>> /\ Untouched(i, list, k + 1)
    <2>. i \in Nat /\ i < LED_CNT
      BY <1>1 DEF Led
    <2>1. CASE i >= ThrHi
      <3> DEFINE k == a + (i - ThrHi) + 1
      <3>1. k \in 1..(a + b + c) /\ k > a /\ k <= a + b /\ ThrHi + (k - a) - 1 = i
        BY <1>1, <1>2, <2>1
      <3>2. list[k] = <<i, g[i]>>
        <4> HIDE DEF k
        <4>1. list[k] = <<i, ClrHi>>
          BY <1>11, <3>1
        <4>2. g[i] = ClrHi
          BY <1>6, <2>1
        <4>3. QED
          BY <4>1, <4>2
      <3>3. ASSUME NEW l \in 1..(a + b + c), l > k
            PROVE  /\ l <= a => l - 1 # i
                   /\ l > a /\ l <= a + b => ThrHi + (l - a) - 1 # i
                   /\ l > a + b => from + (l - a - b) - 1 # i
        BY <1>1, <1>2, <2>1, <3>1, <3>3
      <3> HIDE DEF k
      <3>4. QED
        BY <1>12, <3>1, <3>2, <3>3
    <2>2. CASE i < ThrHi /\ i < ThrLo
      <3> DEFINE k == i + 1
      <3>1. k \in 1..(a + b + c) /\ k <= a
        BY <1>1, <1>2, <2>2
      <3>2. list[k] = <<i, g[i]>>
        <4>1. list[k] = <<k - 1, ClrLo>>
          <5> HIDE DEF k
          <5> QED BY <1>11, <3>1
        <4>2. g[i] = ClrLo
          BY <1>6, <2>2
        <4>3. QED
          BY <4>1, <4>2
      <3>3. ASSUME NEW l \in 1..(a + b + c), l > k
            PROVE  /\ l <= a => l - 1 # i
                   /\ l > a /\ l <= a + b => ThrHi + (l - a) - 1 # i
                   /\ l > a + b => from + (l - a - b) - 1 # i
        BY <1>1, <1>2, <2>2, <3>1, <3>3
      <3> HIDE DEF k
      <3>4. QED
        BY <1>12, <3>1, <3>2, <3>3
    <2>3. CASE i < ThrHi /\ i >= ThrLo
      <3> DEFINE k == a + b + (i - from) + 1
      <3>1. k \in 1..(a + b + c) /\ k > a + b /\ from + (k - a - b) - 1 = i
        BY <1>1, <1>2, <2>3
      <3>2. list[k] = <<i, g[i]>>
        <4> HIDE DEF k
        <4>1. list[k] = <<i, G(i)>>
          BY <1>11, <3>1
        <4>2. g[i] = G(i)
          BY <1>6, <2>3
        <4>3. QED
          BY <4>1, <4>2
      <3>3. ASSUME NEW l \in 1..(a + b + c), l > k
            PROVE  /\ l <= a => l - 1 # i
                   /\ l > a /\ l <= a + b => ThrHi + (l - a) - 1 # i
                   /\ l > a + b => from + (l - a - b) - 1 # i
        BY <1>1, <1>2, <2>3, <3>1, <3>3
      <3> HIDE DEF k
      <3>4. QED
        BY <1>12, <3>1, <3>2, <3>3
    <2>4. QED
      BY <2>1, <2>2, <2>3
  <1>14. Leads(pic, list, g)
    BY <1>13 DEF Leads
  <1>15. QED
    BY <1>7, <1>9, <1>14 DEF g, near
----------------------------------------------------------------------------
(* The inductive invariant: one lemma for each step.                       *)

LEMMA InitIInv == Init => IInv
  <1>1. Black \in [Led -> Clr]
    BY ColorsAssumption, AllInClr DEF Black, Clr
  <1>2. Init => TypeOK
    <2>1. <<>> \in Seq(Int \X Clr) /\ 0 \in 0..MaxRequests /\ <<0, 0>> \in Int \X Int
      BY LedEffectsAssumption
    <2>2. QED
      BY <1>1, <2>1 DEF Init, TypeOK, Effect
  <1>3. Init => EffectInv /\ GoalInv
    BY DEF Init, EffectInv, GoalInv
  <1>4. Init => FadeInv
    BY DEF Init, FadeInv
  <1>5. QED
    BY <1>2, <1>3, <1>4 DEF IInv

\* The loops of SetupAndStart are over: nothing has been written outside.
LEMMA NotFading == ASSUME FadeInv, mpc # "fade" PROVE ~outside
  BY ColorsAssumption DEF FadeInv, Beyond


LEMMA EffCheckKeeps == IInv /\ EffCheck => IInv'
  BY DEF EffCheck, EffAt, mainVars, clrVars, IInv, TypeOK, EffectInv, GoalInv, FadeInv

LEMMA EffSuspendKeeps == IInv /\ EffSuspend => IInv'
  BY DEF EffSuspend, EffAt, mainVars, clrVars, IInv, TypeOK, EffectInv, GoalInv, FadeInv

\* A step of an effect: when no LED had to move, the picture is reached.
LEMMA EffProcessKeeps == IInv /\ EffProcess => IInv'
  <1> SUFFICES ASSUME IInv, EffProcess PROVE IInv'
    OBVIOUS
  <1>1. ICurrentClr' \in [Led -> Clr] /\ strip' = ICurrentClr'
    BY AdjustInClr DEF EffProcess, IInv, TypeOK
  <1>2. TypeOK'
    BY <1>1 DEF EffProcess, mainVars, IInv, TypeOK
  <1>3. epc' = "end" => ICurrentClr' = DesiredClr
    <2> SUFFICES ASSUME epc' = "end" PROVE ICurrentClr' = DesiredClr
      OBVIOUS
    <2>1. \A i \in Led : DelayToNextAdj(ICurrentClr[i], DesiredClr[i], Smooth) = 0
      BY DEF EffProcess
    <2>2. \A i \in Led : ICurrentClr[i] = DesiredClr[i]
      BY <2>1, NoDelay DEF IInv, TypeOK
    <2>3. \A i \in Led : Adjust(ICurrentClr[i], DesiredClr[i]) = DesiredClr[i]
      BY <2>2, ColorsAssumption DEF IInv, TypeOK, Adjust, Clr
    <2>4. QED
      BY <2>3 DEF EffProcess, IInv, TypeOK
  <1>4. EffectInv'
    BY <1>1, <1>3 DEF EffProcess, EffAt, IInv, EffectInv
  <1>5. GoalInv'
    BY DEF EffProcess, EffAt, mainVars, IInv, EffectInv, GoalInv
  <1>6. FadeInv'
    BY DEF EffProcess, mainVars, IInv, FadeInv
  <1>7. QED
    BY <1>2, <1>4, <1>5, <1>6 DEF IInv

\* The end of an effect: the picture is reached, and shown.
LEMMA EffEndKeeps == IInv /\ EffEnd => IInv'
  BY DEF EffEnd, EffAt, mainVars, clrVars, IInv, TypeOK, Effect, EffectInv, GoalInv, FadeInv

LEMMA EffWakeKeeps == IInv /\ EffWake => IInv'
  BY DEF EffWake, EffAt, mainVars, clrVars, IInv, TypeOK, EffectInv, GoalInv, FadeInv

LEMMA AllTogetherSmoothlyKeeps ==
  ASSUME NEW c \in Clr, IInv, AllTogetherSmoothly(c)
  PROVE  IInv'
  <1>1. All(c) \in [Led -> Clr]
    BY AllInClr
  <1>2. TypeOK'
    <2>1. requests' \in 0..MaxRequests
      BY LedEffectsAssumption DEF AllTogetherSmoothly, Request, IInv, TypeOK
    <2>2. PThd' \in BOOLEAN
          /\ epc' \in {"check", "suspend", "suspended", "process", "end", "asleep"}
      BY DEF AllTogetherSmoothly, ResumeS, IInv, TypeOK
    <2>3. QED
      BY <1>1, <2>1, <2>2 DEF AllTogetherSmoothly, Request, IInv, TypeOK, Effect
  <1>3. EffectInv'
    BY DEF AllTogetherSmoothly, Request, MainRuns, ResumeS, IInv, EffectInv
  <1>4. GoalInv'
    <2>1. mpc' = "idle" /\ PCurrentEff' = "Smoothly" /\ DesiredClr' = goal'
      BY DEF AllTogetherSmoothly, Request
    <2>2. QED
      BY <2>1 DEF GoalInv
  <1>5. FadeInv'
    BY DEF AllTogetherSmoothly, Request, IInv, FadeInv
  <1>6. QED
    BY <1>2, <1>3, <1>4, <1>5 DEF IInv

\* The index of an LED is an integer.
LEMMA LedOnly == ASSUME NEW list \in Seq(Led \X Clr) PROVE list \in Seq(Int \X Clr)
  <1>1. Led \X Clr \subseteq Int \X Clr
    BY DEF Led
  <1>2. QED
    BY <1>1

LEMMA AllTogetherNowKeeps ==
  ASSUME NEW c \in Clr, IInv, AllTogetherNow(c)
  PROVE  IInv'
  <1>1. todo' \in Seq(Led \X Clr) /\ Leads(ICurrentClr, todo', goal')
    BY NowLeads DEF AllTogetherNow, Request, IInv, TypeOK
  <1>2. TypeOK'
    <2>1. requests' \in 0..MaxRequests
      BY LedEffectsAssumption DEF AllTogetherNow, Request, IInv, TypeOK
    <2>2. todo' \in Seq(Int \X Clr) /\ goal' \in [Led -> Clr]
      BY <1>1, LedOnly, AllInClr DEF AllTogetherNow, Request
    <2>3. QED
      BY <2>1, <2>2 DEF AllTogetherNow, Request, clrVars, IInv, TypeOK, Effect
  <1>3. EffectInv'
    BY DEF AllTogetherNow, Request, MainRuns, clrVars, IInv, EffectInv
  <1>4. GoalInv'
    BY <1>1 DEF AllTogetherNow, clrVars, GoalInv
  <1>5. FadeInv'
    BY <1>1 DEF AllTogetherNow, Request, IInv, FadeInv
  <1>6. QED
    BY <1>2, <1>3, <1>4, <1>5 DEF IInv

LEMMA FadeOneByOneKeeps ==
  ASSUME NEW ThrLo \in Int, NEW ThrHi \in Int, <<ThrLo, ThrHi>> \in FadeArgs,
         IInv, FadeOneByOne(ThrLo, ThrHi)
  PROVE  IInv'
  <1>1. /\ todo' \in Seq(Int \X Clr) /\ Leads(DesiredClr, todo', goal')
        /\ ~Beyond(thr') => todo' \in Seq(Led \X Clr)
    BY FadeLeads DEF FadeOneByOne, Request, IInv, TypeOK
  <1>2. TypeOK'
    BY <1>1, FadePictureInClr, LedEffectsAssumption
    DEF FadeOneByOne, Request, effVars, clrVars, IInv, TypeOK
  <1>3. EffectInv'
    BY DEF FadeOneByOne, effVars, clrVars, IInv, EffectInv
  <1>4. GoalInv'
    BY <1>1 DEF FadeOneByOne, clrVars, GoalInv
  <1>5. FadeInv'
    BY <1>1 DEF FadeOneByOne, Request, MainRuns, IInv, FadeInv
  <1>6. QED
    BY <1>2, <1>3, <1>4, <1>5 DEF IInv

\* What main's loops need of todo at each assignment.
LEMMA TodoTyped ==
  ASSUME NEW S, todo \in Seq(S \X Clr), todo # <<>>
  PROVE  Tail(todo) \in Seq(S \X Clr) /\ Head(todo)[1] \in S /\ Head(todo)[2] \in Clr
  <1>1. Head(todo) \in S \X Clr /\ Tail(todo) \in Seq(S \X Clr)
    OBVIOUS
  <1>2. QED
    BY <1>1

LEMMA NowAssignKeeps == IInv /\ NowAssign => IInv'
  <1> SUFFICES ASSUME IInv, NowAssign PROVE IInv'
    OBVIOUS
  <1>1. todo \in Seq(Led \X Clr) /\ thr' = thr /\ thr = <<0, 0>>
    BY ColorsAssumption DEF NowAssign, IInv, FadeInv, Beyond
  <1>2. todo' \in Seq(Led \X Clr) /\ Head(todo)[1] \in Led /\ Head(todo)[2] \in Clr
    BY <1>1, TodoTyped DEF NowAssign
  <1>3. ICurrentClr' = Assigned(ICurrentClr, Head(todo)) /\ ICurrentClr' \in [Led -> Clr]
    BY <1>2 DEF NowAssign, Assigned, IInv, TypeOK
  <1>4. todo' \in Seq(Int \X Clr)
    BY <1>2, LedOnly
  <1>5. TypeOK'
    BY <1>3, <1>4 DEF NowAssign, effVars, IInv, TypeOK
  <1>6. EffectInv'
    BY DEF NowAssign, MainRuns, effVars, IInv, EffectInv
  <1>7. Leads(ICurrentClr', todo', goal)
    <2>1. Leads(ICurrentClr, todo, goal) /\ todo # <<>> /\ todo' = Tail(todo)
      BY DEF NowAssign, IInv, GoalInv
    <2>2. Leads(Assigned(ICurrentClr, Head(todo)), Tail(todo), goal)
      BY <2>1, LeadsStep DEF IInv, TypeOK
    <2>3. QED
      BY <1>3, <2>1, <2>2
  <1>8. GoalInv'
    BY <1>7 DEF NowAssign, effVars, IInv, GoalInv
  <1>9. FadeInv'
    BY <1>2 DEF NowAssign, IInv, FadeInv
  <1>10. QED
    BY <1>5, <1>6, <1>8, <1>9 DEF IInv

LEMMA NowShowKeeps == IInv /\ NowShow => IInv'
  <1> SUFFICES ASSUME IInv, NowShow PROVE IInv'
    OBVIOUS
  <1>1. ICurrentClr = goal
    BY LeadsDone DEF NowShow, IInv, TypeOK, GoalInv
  <1>2. QED
    BY <1>1 DEF NowShow, MainRuns, effVars, IInv, TypeOK, EffectInv, GoalInv, FadeInv

\* Inside the strip or outside, the strip gets what it should.
LEMMA FadeAssignKeeps == IInv /\ FadeAssign => IInv'
  <1> SUFFICES ASSUME IInv, FadeAssign PROVE IInv'
    OBVIOUS
  <1>1. todo' \in Seq(Int \X Clr) /\ Head(todo)[2] \in Clr
    BY TodoTyped DEF FadeAssign, IInv, TypeOK
  <1>2. DesiredClr' = Assigned(DesiredClr, Head(todo)) /\ DesiredClr' \in [Led -> Clr]
    BY <1>1 DEF FadeAssign, Assigned, IInv, TypeOK
  <1>3. TypeOK'
    BY <1>1, <1>2 DEF FadeAssign, effVars, IInv, TypeOK
  <1>4. EffectInv'
    BY DEF FadeAssign, MainRuns, effVars, IInv, EffectInv
  <1>5. Leads(DesiredClr', todo', goal)
    <2>1. Leads(DesiredClr, todo, goal) /\ todo # <<>> /\ todo' = Tail(todo)
      BY DEF FadeAssign, IInv, GoalInv
    <2>2. Leads(Assigned(DesiredClr, Head(todo)), Tail(todo), goal)
      BY <2>1, LeadsStep DEF IInv, TypeOK
    <2>3. QED
      BY <1>2, <2>1, <2>2
  <1>6. GoalInv'
    BY <1>5 DEF FadeAssign, GoalInv
  <1>7. ~Beyond(thr) => todo' \in Seq(Led \X Clr) /\ Head(todo)[1] \in Led
    BY TodoTyped DEF FadeAssign, IInv, FadeInv
  <1>8. FadeInv'
    BY <1>7 DEF FadeAssign, IInv, FadeInv
  <1>9. QED
    BY <1>3, <1>4, <1>6, <1>8 DEF IInv

LEMMA FadeStartKeeps == IInv /\ FadeStart => IInv'
  <1> SUFFICES ASSUME IInv, FadeStart PROVE IInv'
    OBVIOUS
  <1>1. DesiredClr = goal
    BY LeadsDone DEF FadeStart, IInv, TypeOK, GoalInv
  <1>2. TypeOK'
    <2>1. PThd' \in BOOLEAN
          /\ epc' \in {"check", "suspend", "suspended", "process", "end", "asleep"}
      BY DEF FadeStart, ResumeS, IInv, TypeOK
    <2>2. thr' \in Int \X Int
      BY DEF FadeStart
    <2>3. QED
      BY <2>1, <2>2 DEF FadeStart, clrVars, IInv, TypeOK, Effect
  <1>3. EffectInv' /\ GoalInv'
    BY <1>1 DEF FadeStart, MainRuns, ResumeS, clrVars, IInv, EffectInv, GoalInv
  <1>4. <<>> \in Seq(Led \X Clr)
    OBVIOUS
  <1>5. FadeInv'
    BY <1>4 DEF FadeStart, MainRuns, FadeInv
  <1>6. QED
    BY <1>2, <1>3, <1>5 DEF IInv

LEMMA StutterKeeps == IInv /\ UNCHANGED vars => IInv'
  BY DEF vars, effVars, mainVars, clrVars, IInv, TypeOK, EffectInv, GoalInv, FadeInv

LEMMA NextIInv == IInv /\ [Next]_vars => IInv'
  <1> SUFFICES ASSUME IInv, [Next]_vars PROVE IInv'
    OBVIOUS
  <1>1. ASSUME NEW a \in FadeArgs, FadeOneByOne(a[1], a[2])
        PROVE  IInv'
    <2>1. a[1] \in Int /\ a[2] \in Int /\ <<a[1], a[2]>> = a
      BY LedEffectsAssumption
    <2>2. QED
      BY <1>1, <2>1, FadeOneByOneKeeps
  <1>2. CASE EffectsThread
    BY <1>2, EffCheckKeeps, EffSuspendKeeps, EffProcessKeeps, EffEndKeeps, EffWakeKeeps
    DEF EffectsThread
  <1>3. CASE MainThread
    BY <1>1, <1>3, AllTogetherSmoothlyKeeps, AllTogetherNowKeeps, NowAssignKeeps,
       NowShowKeeps, FadeAssignKeeps, FadeStartKeeps
    DEF MainThread
  <1>4. CASE UNCHANGED vars
    BY <1>4, StutterKeeps
  <1>5. QED
    BY <1>2, <1>3, <1>4 DEF Next

\* In every state of every behaviour the invariant holds.
THEOREM InductiveInvariant == Spec => []IInv
  BY InitIInv, NextIInv, PTL DEF Spec
----------------------------------------------------------------------------
\* Every variable keeps its type, whatever thresholds the Fade command brings:
\* no division of the gradient leaves the range of a brightness, also where it
\* begins or ends outside the strip (sk6812.cpp:190-202).
THEOREM TypeCorrect == Spec => []TypeOK
  <1>1. IInv => TypeOK
    BY DEF IInv
  <1>2. QED
    BY <1>1, InductiveInvariant, PTL

\* For any two integers, crossed ones and such on either side of the strip: the
\* loops of SetupAndStart write inside DesiredClr, or the lower threshold is
\* beyond the strip, or the upper one is before it (sk6812.cpp:185-202).
THEOREM StaysInside == Spec => []StaysInStrip
  <1>1. IInv => StaysInStrip
    BY DEF IInv, FadeInv, Beyond, StaysInStrip
  <1>2. QED
    BY <1>1, InductiveInvariant, PTL

\* Thresholds as PercentToFade makes them: the first two loops do not leave the
\* strip.  The Fade command does not check for that (main.cpp:159-163).
FadesInReach == \A a \in FadeArgs : a[1] <= LED_CNT /\ a[2] >= 0

\* With such thresholds, nothing is ever written outside DesiredClr, and what
\* is said of a behaviour up to an outside write is said of all of it.
THEOREM NeverOutside == FadesInReach /\ Spec => []~outside
  <1> SUFFICES ASSUME FadesInReach PROVE Spec => []~outside
    OBVIOUS
  <1>1. IInv => ~outside
    BY ColorsAssumption, LedEffectsAssumption DEF FadesInReach, IInv, FadeInv, Beyond
  <1>2. QED
    BY <1>1, InductiveInvariant, PTL

\* However requests and the unlocked steps of Effects interleave, once Effects
\* is suspended the strip shows the last request (sk6812.cpp:122-130).
THEOREM RequestAlwaysShown == Spec => []RequestShown
  <1>1. IInv => RequestShown
    BY DEF IInv, EffectInv, GoalInv, RequestShown
  <1>2. QED
    BY <1>1, InductiveInvariant, PTL

\* A step of Effects between two requests brings no LED further from the
\* picture requested last (sk6812.cpp:165-176).
THEOREM NeverFlickers == Spec => NoFlicker
  <1> DEFINE Nearer == mpc = "idle" /\ mpc' = "idle" /\ goal' = goal =>
                         \A i \in Led : Distance(ICurrentClr'[i], goal[i])
                                          <= Distance(ICurrentClr[i], goal[i])
  <1>1. ASSUME NEW a \in Clr, NEW b \in Clr
        PROVE  /\ Distance(a, b) <= Distance(a, b)
               /\ Distance(Adjust(a, b), b) <= Distance(a, b)
    BY ColorsAssumption DEF Distance, Adjust, Clr
  <1>2. IInv /\ [Next]_vars => [Nearer]_vars
    <2> SUFFICES ASSUME IInv, Next, mpc = "idle", mpc' = "idle", goal' = goal
                 PROVE  \A i \in Led : Distance(ICurrentClr'[i], goal[i])
                                         <= Distance(ICurrentClr[i], goal[i])
      OBVIOUS
    <2>1. CASE EffProcess
      <3>1. DesiredClr = goal
        BY <2>1 DEF EffProcess, EffAt, IInv, EffectInv, GoalInv
      <3>2. QED
        BY <1>1, <2>1, <3>1 DEF EffProcess, IInv, TypeOK
    <2>2. CASE UNCHANGED ICurrentClr
      BY <1>1, <2>2 DEF IInv, TypeOK
    <2>3. EffProcess \/ UNCHANGED ICurrentClr
      BY DEF Next, EffectsThread, MainThread, EffCheck, EffSuspend, EffEnd, EffWake,
             AllTogetherSmoothly, AllTogetherNow, FadeOneByOne, NowAssign, NowShow,
             FadeAssign, FadeStart, clrVars
    <2>4. QED
      BY <2>1, <2>2, <2>3
  <1>3. QED
    BY <1>2, InductiveInvariant, PTL DEF Spec, NoFlicker
----------------------------------------------------------------------------
(***************************************************************************)
(* PercentToFade: for every integer that may arrive, every strip that has  *)
(* the 359 LEDs main.cpp counts on, every number of levels, every scale    *)
(* and every pair of colours of which the first is brighter.               *)
(***************************************************************************)

\* main.cpp gives the last threshold as a number, 359, the length of the strip.
StripLongEnough == LED_CNT >= 359

\* EffFadeOneByOne's first colour is the light one (clRGBWStars, clRGBWBlack).
FirstIsBrighter == ClrLo >= ClrHi

\* The thresholds never meet from the wrong side and never leave 0..359, but
\* for the end of the strip.
ThresholdInv ==
    /\ FThrLo \in 0..359
    /\ \/ FThrHi = LED_CNT
       \/ FThrLo = 0 /\ FThrHi \in 1..359
----------------------------------------------------------------------------
(* The two ranges of Proportion.                                           *)

\* From 70 % on, and below: what the division towards zero of a negative number is.
LEMMA UpperIs ==
  ASSUME NEW p \in 70..100
  PROVE  Proportion(70, 100, 0, 359, p) = 359 - (((100 - p) * 359) \div 30)
  <1> DEFINE n == (100 - p) * 359
  <1>1. n \in Nat /\ (p - 100) * 359 = -n
    OBVIOUS
  <1> HIDE DEF n
  <1>2. n \div 30 \in Nat /\ (-n >= 0 => n = 0)
    BY <1>1
  <1>3. CDiv(-n, 30) = -(n \div 30)
    <2>1. CASE -n >= 0
      <3>1. n = 0
        BY <1>2, <2>1
      <3>2. n \div 30 = 0
        BY <3>1
      <3>3. -n = 0
        BY <1>1, <2>1
      <3>4. CDiv(0, 30) = 0
        BY DEF CDiv
      <3>5. QED
        BY <3>2, <3>3, <3>4
    <2>2. CASE ~(-n >= 0)
      <3>1. -(-n) = n
        BY <1>1
      <3>2. QED
        BY <2>2, <3>1 DEF CDiv
    <2>3. QED
      BY <2>1, <2>2
  <1>4. Proportion(70, 100, 0, 359, p) = CDiv(-n, 30) + 359
    BY <1>1 DEF Proportion
  <1>5. QED
    BY <1>2, <1>3, <1>4 DEF n

LEMMA LowerIs ==
  ASSUME NEW p \in 0..69
  PROVE  Proportion(0, 70, 1, 359, p) = 359 - (((70 - p) * 358) \div 70)
  <1> DEFINE n == (70 - p) * 358
  <1>1. n \in Nat \ {0} /\ (p - 70) * (359 - 1) = -n /\ -(-n) = n
    OBVIOUS
  <1> HIDE DEF n
  <1>2. n \div 70 \in Nat /\ ~(-n >= 0)
    BY <1>1
  <1>3. CDiv(-n, 70) = -(n \div 70)
    BY <1>1, <1>2 DEF CDiv
  <1>4. Proportion(0, 70, 1, 359, p) = CDiv(-n, 70) + 359
    BY <1>1 DEF Proportion
  <1>5. QED
    BY <1>2, <1>3, <1>4 DEF n

LEMMA UpperRange ==
  ASSUME NEW p \in 70..100
  PROVE  Proportion(70, 100, 0, 359, p) \in 0..359
  <1>1. ((100 - p) * 359) \div 30 \in 0..359
    OBVIOUS
  <1>2. QED
    BY <1>1, UpperIs

LEMMA LowerRange ==
  ASSUME NEW p \in 0..69
  PROVE  Proportion(0, 70, 1, 359, p) \in 1..359
  <1>1. ((70 - p) * 358) \div 70 \in 0..358
    OBVIOUS
  <1>2. QED
    BY <1>1, LowerIs

LEMMA ThresholdsAre ==
  ASSUME NEW p \in 0..100
  PROVE  /\ Thresholds(p)[1] \in 0..359
         /\ \/ Thresholds(p)[2] = LED_CNT
            \/ Thresholds(p)[1] = 0 /\ Thresholds(p)[2] \in 1..359
  <1>1. CASE p >= 70
    BY <1>1, UpperRange DEF Thresholds
  <1>2. CASE p < 70
    BY <1>2, LowerRange DEF Thresholds
  <1>3. QED
    BY <1>1, <1>2

\* A larger percentage gives a threshold further on; at 70 % nothing of the lower
\* range is lost.
LEMMA ThresholdsGrow ==
  ASSUME NEW p \in 0..100, NEW q \in 0..100, p < q
  PROVE  /\ q < 70 => Thresholds(p)[2] <= Thresholds(q)[2]
         /\ p >= 70 => Thresholds(p)[1] <= Thresholds(q)[1]
         /\ Thresholds(70)[1] = 0
  <1>1. ASSUME q < 70 PROVE Thresholds(p)[2] <= Thresholds(q)[2]
    <2>1. p \in 0..69 /\ q \in 0..69 /\ ~(p >= 70) /\ ~(q >= 70)
      BY <1>1
    <2>2. Thresholds(p)[2] = Proportion(0, 70, 1, 359, p) /\ Thresholds(q)[2] = Proportion(0, 70, 1, 359, q)
      BY <2>1 DEF Thresholds
    <2>3. ((70 - q) * 358) \div 70 <= ((70 - p) * 358) \div 70
      OBVIOUS
    <2>4. QED
      BY <2>1, <2>2, <2>3, LowerIs
  <1>2. ASSUME p >= 70 PROVE Thresholds(p)[1] <= Thresholds(q)[1]
    <2>1. p \in 70..100 /\ q \in 70..100 /\ q >= 70
      BY <1>2
    <2>2. Thresholds(p)[1] = Proportion(70, 100, 0, 359, p) /\ Thresholds(q)[1] = Proportion(70, 100, 0, 359, q)
      BY <1>2, <2>1 DEF Thresholds
    <2>3. ((100 - q) * 359) \div 30 <= ((100 - p) * 359) \div 30
      OBVIOUS
    <2>4. QED
      BY <2>1, <2>2, <2>3, UpperIs
  <1>3. Thresholds(70)[1] = 0
    <2>1. Thresholds(70)[1] = Proportion(70, 100, 0, 359, 70) /\ 70 \in 70..100
      BY DEF Thresholds
    <2>2. ((100 - 70) * 359) \div 30 = 359
      OBVIOUS
    <2>3. QED
      BY <2>1, <2>2, UpperIs
  <1>4. QED
    BY <1>1, <1>2, <1>3
----------------------------------------------------------------------------
(* The gradient.                                                           *)

\* More of the darker colour never makes a brighter one, after the division.
LEMMA ClrMixDarkens ==
  ASSUME NEW dark \in Clr, NEW light \in Clr, dark <= light,
         NEW b \in Clr, NEW c \in Clr, b <= c
  PROVE  /\ ClrMix(dark, light, c) <= ClrMix(dark, light, b)
         /\ dark <= ClrMix(dark, light, b) /\ ClrMix(dark, light, b) <= light
  <1>1. /\ Top \in Nat \ {0} /\ dark \in Nat /\ light \in Nat
        /\ b \in Nat /\ c \in Nat /\ b <= Top /\ c <= Top
    BY ColorsAssumption DEF Clr
  <1> DEFINE diff == light - dark
             n(x) == dark * x + light * (Top - x)
  <1>2. diff \in Nat
    BY <1>1
  <1>3. ASSUME NEW x \in Nat, x <= Top
        PROVE  /\ n(x) = dark * Top + diff * (Top - x)
               /\ n(x) = light * Top - diff * x
    BY <1>1, <1>3
  <1>4. diff * b <= diff * c /\ diff * b >= 0 /\ diff * (Top - b) >= 0
    <2> HIDE DEF diff
    <2>1. QED
      BY <1>1, <1>2
  <1>5. diff * b \in Nat /\ diff * c \in Nat /\ diff * (Top - b) \in Nat
    BY <1>1, <1>2
  <1>6. n(b) = light * Top - diff * b /\ n(c) = light * Top - diff * c
        /\ n(b) = dark * Top + diff * (Top - b)
    BY <1>1, <1>3
  <1>7. /\ n(b) \in Int /\ n(c) \in Int /\ n(c) <= n(b)
        /\ dark * Top <= n(b) /\ n(b) <= light * Top
    <2> HIDE DEF diff, n
    <2>1. light * Top \in Int /\ dark * Top \in Int
      BY <1>1
    <2>2. QED
      BY <1>4, <1>5, <1>6, <2>1
  <1>8. ClrMix(dark, light, b) = n(b) \div Top /\ ClrMix(dark, light, c) = n(c) \div Top
    BY DEF ClrMix
  <1> HIDE DEF n, diff
  <1>9. n(c) \div Top <= n(b) \div Top
    BY <1>1, <1>7
  <1>10. (dark * Top) \div Top = dark /\ (light * Top) \div Top = light
    BY <1>1
  <1>11. dark <= n(b) \div Top /\ n(b) \div Top <= light
    BY <1>1, <1>7, <1>10
  <1>12. QED
    BY <1>8, <1>9, <1>11

\* How much of ClrHi the i-th LED of a gradient gets: within the levels and
\* not less than the LED before it.
LEMMA MixGrows ==
  ASSUME NEW len \in Nat \ {0}, NEW i \in 0..(len - 1), NEW j \in 0..i
  PROVE  LET x(k) == (k * ((Top * Scale) \div len)) \div Scale
         IN  x(i) \in Clr /\ x(j) \in Clr /\ x(j) <= x(i)
  <1>1. Top \in Nat \ {0} /\ Scale \in Nat \ {0}
    BY ColorsAssumption
  <1> DEFINE total == Top * Scale
             step == total \div len
             y(k) == k * step
  <1>2. total \in Nat
    BY <1>1
  <1>3. step \in Nat /\ len * step <= total
    <2> HIDE DEF total
    <2> QED BY <1>2
  <1>4. ASSUME NEW k \in 0..(len - 1)
        PROVE  y(k) \in Nat /\ y(k) <= Scale * Top
    <2>1. y(k) \in Nat /\ y(k) <= len * step
      <3> HIDE DEF step
      <3> QED BY <1>3
    <2>2. total = Scale * Top
      BY <1>1
    <2> HIDE DEF y, total, step
    <2>3. len * step \in Nat
      BY <1>3
    <2>4. QED
      BY <1>2, <1>3, <2>1, <2>2, <2>3
  <1>5. ASSUME NEW k \in 0..(len - 1)
        PROVE  y(k) \div Scale \in Clr
    <2>1. y(k) \in Nat /\ y(k) <= Scale * Top
      BY <1>4
    <2> HIDE DEF y
    <2>2. QED
      BY <1>1, <2>1 DEF Clr
  <1>6. j \in 0..(len - 1) /\ y(j) <= y(i)
    <2> HIDE DEF step
    <2> QED BY <1>3
  <1>7. y(j) \div Scale <= y(i) \div Scale
    <2>1. y(j) \in Nat /\ y(i) \in Nat
      BY <1>4, <1>6
    <2> HIDE DEF y
    <2>2. QED
      BY <1>1, <1>6, <2>1
  <1>8. QED
    BY <1>5, <1>6, <1>7

LEMMA GradientDarkens ==
  ASSUME FirstIsBrighter, NEW len \in Nat \ {0}, NEW i \in 0..(len - 1), NEW j \in 0..i
  PROVE  /\ Gradient(i, len) <= Gradient(j, len)
         /\ ClrHi <= Gradient(i, len) /\ Gradient(i, len) <= ClrLo
         /\ Gradient(i, len) \in Int
  <1> DEFINE x(k) == (k * ((Top * Scale) \div len)) \div Scale
  <1>1. ClrLo \in Clr /\ ClrHi \in Clr /\ ClrHi <= ClrLo
    BY ColorsAssumption DEF Clr, FirstIsBrighter
  <1>2. x(i) \in Clr /\ x(j) \in Clr /\ x(j) <= x(i)
    BY MixGrows
  <1>3. Gradient(i, len) = ClrMix(ClrHi, ClrLo, x(i)) /\ Gradient(j, len) = ClrMix(ClrHi, ClrLo, x(j))
    BY DEF Gradient
  <1> HIDE DEF x
  <1>4. ClrMix(ClrHi, ClrLo, x(i)) <= ClrMix(ClrHi, ClrLo, x(j))
    BY <1>1, <1>2, ClrMixDarkens
  <1>5. x(i) <= x(i)
    BY <1>2 DEF Clr
  <1>6. ClrHi <= ClrMix(ClrHi, ClrLo, x(i)) /\ ClrMix(ClrHi, ClrLo, x(i)) <= ClrLo
    BY <1>1, <1>2, <1>5, ClrMixDarkens
  <1>7. ClrMix(ClrHi, ClrLo, x(i)) \in Int
    <2> DEFINE m == ClrHi * x(i) + ClrLo * (Top - x(i))
    <2>1. m \in Int /\ Top \in Nat \ {0}
      BY <1>1, <1>2, ColorsAssumption DEF Clr
    <2> HIDE DEF m
    <2>2. m \div Top \in Int
      BY <2>1
    <2>3. QED
      BY <2>2 DEF ClrMix, m
  <1>8. QED
    BY <1>3, <1>4, <1>6, <1>7

LEMMA PictureDarkens ==
  ASSUME FirstIsBrighter, NEW lo \in 0..LED_CNT, NEW hi \in lo..LED_CNT,
         NEW i \in Led \ {0}
  PROVE  FadePicture(lo, hi)[i] <= FadePicture(lo, hi)[i - 1]
  <1> DEFINE pic(k) == IF k >= hi THEN ClrHi
                       ELSE IF k < lo THEN ClrLo ELSE Gradient(k - lo, hi - lo)
  <1>1. LED_CNT \in Nat /\ lo \in Nat /\ hi \in Nat /\ i \in Nat /\ i - 1 \in Led
    BY ColorsAssumption DEF Led
  <1>2. ClrLo \in Int /\ ClrHi \in Int /\ ClrHi <= ClrLo
    BY ColorsAssumption DEF FirstIsBrighter
  <1>3. ASSUME NEW k \in Nat, lo <= k, k < hi, NEW l \in Nat, lo <= l, l <= k
        PROVE  /\ Gradient(k - lo, hi - lo) <= Gradient(l - lo, hi - lo)
               /\ ClrHi <= Gradient(k - lo, hi - lo) /\ Gradient(k - lo, hi - lo) <= ClrLo
    <2>1. hi - lo \in Nat \ {0} /\ k - lo \in 0..((hi - lo) - 1) /\ l - lo \in 0..(k - lo)
      BY <1>1, <1>3
    <2>2. QED
      BY <2>1, GradientDarkens
  <1>4. FadePicture(lo, hi)[i] = pic(i) /\ FadePicture(lo, hi)[i - 1] = pic(i - 1)
    BY <1>1 DEF FadePicture
  <1>5. CASE i >= hi /\ i - 1 >= hi
    BY <1>2, <1>4, <1>5
  <1>6. CASE i >= hi /\ i - 1 < hi
    <2>1. pic(i) = ClrHi
      BY <1>6
    <2>2. CASE i - 1 < lo
      <3>1. pic(i - 1) = ClrLo
        BY <1>1, <1>6, <2>2
      <3>2. QED
        BY <1>2, <1>4, <2>1, <3>1
    <2>3. CASE i - 1 >= lo
      <3>1. pic(i - 1) = Gradient(i - 1 - lo, hi - lo)
        BY <1>1, <1>6, <2>3
      <3>2. ClrHi <= Gradient(i - 1 - lo, hi - lo)
        BY <1>1, <1>3, <1>6, <2>3
      <3>3. QED
        BY <1>4, <2>1, <3>1, <3>2
    <2>4. QED
      BY <1>1, <2>2, <2>3
  <1>7. CASE i < hi /\ i < lo
    <2>1. pic(i) = ClrLo /\ pic(i - 1) = ClrLo
      BY <1>1, <1>7
    <2>2. QED
      BY <1>2, <1>4, <2>1
  <1>8. CASE i < hi /\ i >= lo
    <2>1. pic(i) = Gradient(i - lo, hi - lo)
      BY <1>1, <1>8
    <2>2. CASE i - 1 < lo
      <3>1. pic(i - 1) = ClrLo
        BY <1>1, <1>8, <2>2
      <3>2. i <= i /\ Gradient(i - lo, hi - lo) <= ClrLo
        BY <1>1, <1>3, <1>8
      <3>3. QED
        BY <1>4, <2>1, <3>1, <3>2
    <2>3. CASE i - 1 >= lo
      <3>1. pic(i - 1) = Gradient(i - 1 - lo, hi - lo)
        BY <1>1, <1>8, <2>3
      <3>2. Gradient(i - lo, hi - lo) <= Gradient(i - 1 - lo, hi - lo)
        BY <1>1, <1>3, <1>8, <2>3
      <3>3. QED
        BY <1>4, <2>1, <3>1, <3>2
    <2>4. QED
      BY <1>1, <2>2, <2>3
  <1>9. QED
    BY <1>1, <1>5, <1>6, <1>7, <1>8

\* How much of ClrHi the k-th LED of a gradient of len LEDs gets.
Mixed(k, len) == (k * ((Top * Scale) \div len)) \div Scale

LEMMA DivMonotone ==
  ASSUME NEW m \in Nat, NEW len \in Nat \ {0}, NEW long \in Nat \ {0}, len <= long
  PROVE  m \div long <= m \div len /\ m \div len \in Nat /\ m \div long \in Nat
  <1> DEFINE q == m \div len
             s == m \div long
  <1>1. q \in Nat /\ m < (q + 1) * len
    OBVIOUS
  <1>2. s \in Nat /\ s * long <= m
    OBVIOUS
  <1> HIDE DEF q, s
  <1>3. s * len <= s * long /\ s * len \in Nat /\ s * long \in Nat
    BY <1>2
  <1>4. s * len < (q + 1) * len
    BY <1>1, <1>2, <1>3
  <1>5. ASSUME s >= q + 1 PROVE FALSE
    <2>1. s * len >= (q + 1) * len
      BY <1>1, <1>2, <1>5
    <2>2. (q + 1) * len \in Nat
      BY <1>1
    <2>3. QED
      BY <1>3, <1>4, <2>1, <2>2
  <1>6. s <= q
    BY <1>1, <1>2, <1>5
  <1>7. QED
    BY <1>1, <1>2, <1>6 DEF q, s

\* A longer gradient is nowhere darker.
LEMMA LongerIsLighter ==
  ASSUME NEW len \in Nat \ {0}, NEW long \in Nat \ {0}, len <= long, NEW k \in 0..(len - 1)
  PROVE  Mixed(k, long) <= Mixed(k, len) /\ Mixed(k, long) \in Nat /\ Mixed(k, len) \in Nat
  <1> DEFINE total == Top * Scale
             s(l) == total \div l
  <1>1. total \in Nat /\ Scale \in Nat \ {0}
    BY ColorsAssumption
  <1> HIDE DEF total
  <1>2. s(long) <= s(len) /\ s(long) \in Nat /\ s(len) \in Nat
    BY <1>1, DivMonotone
  <1> HIDE DEF s
  <1>3. k * s(long) <= k * s(len) /\ k * s(long) \in Nat /\ k * s(len) \in Nat
    BY <1>2
  <1> DEFINE a == k * s(long)
             b == k * s(len)
  <1>4. a \div Scale <= b \div Scale /\ a \div Scale \in Nat /\ b \div Scale \in Nat
    <2>1. a <= b /\ a \in Nat /\ b \in Nat
      BY <1>3
    <2> HIDE DEF a, b
    <2>2. QED
      BY <1>1, <2>1
  <1>5. QED
    BY <1>4 DEF Mixed, s, total

\* Of two gradients that end at the same place, d LEDs on, the one that begins
\* earlier is darker there, but for one level that its step may round away, if the
\* scale counts as many parts of a level as it has LEDs.
LEMMA LaterIsLighter ==
  ASSUME NEW a \in Nat, NEW b \in 0..a, NEW d \in Nat \ {0}, a <= Scale
  PROVE  /\ Mixed(b, b + d) <= Mixed(a, a + d) + 1
         /\ Mixed(b, b + d) \in Nat /\ Mixed(a, a + d) \in Nat
  <1> DEFINE total == Top * Scale
             L == a + d
             M == b + d
             s == total \div L
             t == total \div M
  <1>1. total \in Nat /\ Scale \in Nat \ {0}
    BY ColorsAssumption
  <1>2. L \in Nat \ {0} /\ M \in Nat \ {0}
    OBVIOUS
  <1>3. b * L <= a * M
    <2>1. b * L = a * b + b * d /\ a * M = a * b + a * d
      OBVIOUS
    <2>2. b * d <= a * d /\ a * b \in Nat /\ b * d \in Nat /\ a * d \in Nat
      OBVIOUS
    <2> HIDE DEF L, M
    <2>3. QED
      BY <2>1, <2>2
  <1> HIDE DEF total, L, M
  <1>4. s \in Nat /\ total <= s * L + L
    BY <1>1, <1>2
  <1>5. t \in Nat /\ t * M <= total
    BY <1>1, <1>2
  <1> HIDE DEF s, t
  <1>6. b * t <= a * s + a
    <2>1. (b * t) * (M * L) = (t * M) * (b * L)
      BY <1>2, <1>5
    <2>2. (t * M) * (b * L) <= total * (b * L)
      <3>1. t * M \in Nat /\ b * L \in Nat
        BY <1>2, <1>5
      <3> DEFINE u == t * M
                 v == b * L
      <3>2. u \in Nat /\ v \in Nat /\ u <= total
        BY <3>1, <1>5
      <3> HIDE DEF u, v
      <3>3. u * v <= total * v
        BY <3>2, <1>1
      <3>4. QED
        BY <3>3 DEF u, v
    <2>3. total * (b * L) <= total * (a * M)
      <3> DEFINE u == b * L
                 v == a * M
      <3>1. u \in Nat /\ v \in Nat /\ u <= v
        BY <1>2, <1>3
      <3> HIDE DEF u, v
      <3>2. total * u <= total * v
        BY <3>1, <1>1
      <3>3. QED
        BY <3>2 DEF u, v
    <2>4. total * (a * M) <= (s * L + L) * (a * M)
      <3> DEFINE u == s * L + L
                 v == a * M
      <3>1. u \in Nat /\ v \in Nat /\ total <= u
        BY <1>2, <1>4
      <3> HIDE DEF u, v
      <3>2. total * v <= u * v
        BY <3>1, <1>1
      <3>3. QED
        BY <3>2 DEF u, v
    <2>5. (s * L + L) * (a * M) = (a * s + a) * (M * L)
      BY <1>2, <1>4
    <2>6. (b * t) * (M * L) <= (a * s + a) * (M * L)
      <3>1. /\ (b * t) * (M * L) \in Int /\ (t * M) * (b * L) \in Int /\ total * (b * L) \in Int
            /\ total * (a * M) \in Int /\ (s * L + L) * (a * M) \in Int
        BY <1>1, <1>2, <1>4, <1>5
      <3>2. QED
        BY <2>1, <2>2, <2>3, <2>4, <2>5, <3>1
    <2> DEFINE u == b * t
               v == a * s + a
               w == M * L
    <2>7. u \in Nat /\ v \in Nat /\ w \in Nat \ {0} /\ u * w <= v * w
      BY <1>2, <1>4, <1>5, <2>6
    <2> HIDE DEF u, v, w
    <2>8. u <= v
      BY <2>7
    <2>9. QED
      BY <2>8 DEF u, v
  <1> DEFINE x == b * t
             y == a * s
  <1>7. x \in Nat /\ y \in Nat /\ x <= y + Scale
    <2>1. x \in Nat /\ y \in Nat /\ x <= y + a
      BY <1>4, <1>5, <1>6
    <2> HIDE DEF x, y
    <2>2. QED
      BY <1>1, <2>1
  <1>8. /\ Mixed(b, b + d) = x \div Scale /\ Mixed(a, a + d) = y \div Scale
    BY DEF Mixed, s, t, total, L, M
  <1> HIDE DEF x, y
  <1>9. x \div Scale <= y \div Scale + 1 /\ x \div Scale \in Nat /\ y \div Scale \in Nat
    <2>1. (y + Scale) \div Scale = y \div Scale + 1
      BY <1>1, <1>7
    <2>2. x \div Scale <= (y + Scale) \div Scale
      BY <1>1, <1>7
    <2>3. QED
      BY <1>1, <1>7, <2>1, <2>2
  <1>10. QED
    BY <1>8, <1>9

\* Less of the darker colour by all but one level makes a mix that is darker by
\* one level at most.
LEMMA ClrMixNear ==
  ASSUME NEW dark \in Clr, NEW light \in Clr, dark <= light,
         NEW b \in Clr, NEW c \in Clr, c <= b + 1
  PROVE  ClrMix(dark, light, b) <= ClrMix(dark, light, c) + 1
  <1>1. /\ Top \in Nat \ {0} /\ dark \in Nat /\ light \in Nat /\ light <= Top
        /\ b \in Nat /\ c \in Nat /\ b <= Top /\ c <= Top
    BY ColorsAssumption DEF Clr
  <1> DEFINE diff == light - dark
             n(x) == dark * x + light * (Top - x)
  <1>2. diff \in Nat /\ diff <= Top
    BY <1>1
  <1>3. n(b) = light * Top - diff * b /\ n(c) = light * Top - diff * c
    BY <1>1
  <1>4. diff * c <= diff * b + diff /\ diff * c \in Nat /\ diff * b \in Nat
    <2> HIDE DEF diff
    <2>1. diff * c <= diff * (b + 1) /\ diff * c \in Nat /\ diff * b \in Nat
      BY <1>1, <1>2
    <2>2. diff * (b + 1) = diff * b + diff
      BY <1>1, <1>2
    <2>3. QED
      BY <2>1, <2>2
  <1>5. n(b) \in Int /\ n(c) \in Int /\ n(b) <= n(c) + Top
    <2> HIDE DEF diff, n
    <2>1. light * Top \in Int
      BY <1>1
    <2>2. QED
      BY <1>1, <1>2, <1>3, <1>4, <2>1
  <1>6. ClrMix(dark, light, b) = n(b) \div Top /\ ClrMix(dark, light, c) = n(c) \div Top
    BY DEF ClrMix
  <1> HIDE DEF n, diff
  <1>7. n(b) \div Top <= (n(c) + Top) \div Top /\ (n(c) + Top) \div Top = n(c) \div Top + 1
    BY <1>1, <1>5
  <1>8. QED
    BY <1>6, <1>7

LEMMA MixedInClr ==
  ASSUME NEW len \in Nat \ {0}, NEW k \in 0..(len - 1)
  PROVE  Mixed(k, len) \in Clr /\ Gradient(k, len) = ClrMix(ClrHi, ClrLo, Mixed(k, len))
  <1>1. k \in 0..k
    OBVIOUS
  <1>2. Mixed(k, len) \in Clr
    BY <1>1, MixGrows DEF Mixed
  <1>3. QED
    BY <1>2 DEF Gradient, Mixed

\* The second of two pictures is nowhere darker than the first by more than n levels.
NoDarker(lo, hi, low, high, n) ==
    \A i \in Led : FadePicture(lo, hi)[i] <= FadePicture(low, high)[i] + n

LEMMA NoDarkerSum ==
  ASSUME NEW lo \in 0..LED_CNT, NEW hi \in 0..LED_CNT, NEW l \in 0..LED_CNT, NEW h \in 0..LED_CNT,
         NEW low \in 0..LED_CNT, NEW high \in 0..LED_CNT,
         NoDarker(lo, hi, l, h, 0), NoDarker(l, h, low, high, 1)
  PROVE  NoDarker(lo, hi, low, high, 1)
  <1> SUFFICES ASSUME NEW i \in Led
               PROVE  FadePicture(lo, hi)[i] <= FadePicture(low, high)[i] + 1
    BY DEF NoDarker
  <1> DEFINE a == FadePicture(lo, hi)[i]
             b == FadePicture(l, h)[i]
             c == FadePicture(low, high)[i]
  <1>1. a \in Nat /\ b \in Nat /\ c \in Nat
    BY FadePictureInClr DEF Clr
  <1>2. a <= b + 0 /\ b <= c + 1
    BY DEF NoDarker
  <1> HIDE DEF a, b, c
  <1>3. a <= c + 1
    BY <1>1, <1>2
  <1>4. QED
    BY <1>3 DEF a, c

LEMMA NoDarkerWeaker ==
  ASSUME NEW lo \in 0..LED_CNT, NEW hi \in 0..LED_CNT, NEW low \in 0..LED_CNT, NEW high \in 0..LED_CNT,
         NoDarker(lo, hi, low, high, 0)
  PROVE  NoDarker(lo, hi, low, high, 1)
  <1>1. NoDarker(low, high, low, high, 1)
    <2> SUFFICES ASSUME NEW i \in Led
                 PROVE  FadePicture(low, high)[i] <= FadePicture(low, high)[i] + 1
      BY DEF NoDarker
    <2>1. FadePicture(low, high)[i] \in Nat
      BY FadePictureInClr DEF Clr
    <2>2. QED
      BY <2>1
  <1>2. QED
    BY <1>1, NoDarkerSum

\* A higher end dims no LED.
LEMMA HigherEnd ==
  ASSUME FirstIsBrighter, NEW hi \in 0..LED_CNT, NEW high \in hi..LED_CNT
  PROVE  NoDarker(0, hi, 0, high, 0)
  <1> SUFFICES ASSUME NEW i \in Led PROVE FadePicture(0, hi)[i] <= FadePicture(0, high)[i] + 0
    BY DEF NoDarker
  <1>1. LED_CNT \in Nat /\ hi \in Nat /\ high \in Nat /\ hi <= high /\ i \in Nat /\ i - 0 = i
        /\ high - 0 = high /\ hi - 0 = hi
    BY ColorsAssumption DEF Led
  <1>2. ClrHi \in Clr /\ ClrLo \in Clr /\ ClrHi \in Int /\ ClrHi <= ClrLo
    BY ColorsAssumption DEF FirstIsBrighter, Clr
  <1>3. CASE i >= high
    <2>1. i >= hi
      BY <1>1, <1>3
    <2>2. FadePicture(0, hi)[i] = ClrHi /\ FadePicture(0, high)[i] = ClrHi
      BY <1>3, <2>1 DEF FadePicture
    <2>3. QED
      BY <1>2, <2>2
  <1>4. CASE i < high
    <2>1. high \in Nat \ {0} /\ i \in 0..(high - 1) /\ i \in 0..i /\ ~(i >= high) /\ ~(i < 0)
      BY <1>1, <1>4
    <2>2. FadePicture(0, high)[i] = Gradient(i, high)
      BY <1>1, <2>1 DEF FadePicture
    <2>3. ClrHi <= Gradient(i, high) /\ Gradient(i, high) \in Int
      BY <2>1, GradientDarkens
    <2>4. CASE i >= hi
      <3>1. FadePicture(0, hi)[i] = ClrHi
        BY <2>4 DEF FadePicture
      <3>2. QED
        BY <1>2, <2>2, <2>3, <3>1
    <2>5. CASE i < hi
      <3>1. hi \in Nat \ {0} /\ i \in 0..(hi - 1) /\ ~(i >= hi)
        BY <1>1, <2>5
      <3>2. FadePicture(0, hi)[i] = Gradient(i, hi)
        BY <1>1, <2>1, <3>1 DEF FadePicture
      <3>3. Mixed(i, high) <= Mixed(i, hi)
        BY <1>1, <2>1, <3>1, LongerIsLighter
      <3>4. Gradient(i, hi) <= Gradient(i, high)
        BY <1>2, <2>1, <3>1, <3>3, MixedInClr, ClrMixDarkens
      <3>5. Gradient(i, hi) \in Int
        BY <2>1, <3>1, GradientDarkens
      <3>6. QED
        BY <2>2, <2>3, <3>2, <3>4, <3>5
    <2>6. QED
      BY <1>1, <2>4, <2>5
  <1>5. QED
    BY <1>1, <1>3, <1>4

\* A higher beginning dims no LED by more than one level.
LEMMA HigherBeginning ==
  ASSUME FirstIsBrighter, LED_CNT <= Scale,
         NEW lo \in 0..LED_CNT, NEW low \in lo..LED_CNT
  PROVE  NoDarker(lo, LED_CNT, low, LED_CNT, 1)
  <1> SUFFICES ASSUME NEW i \in Led
               PROVE  FadePicture(lo, LED_CNT)[i] <= FadePicture(low, LED_CNT)[i] + 1
    BY DEF NoDarker
  <1>1. /\ LED_CNT \in Nat /\ Scale \in Nat /\ lo \in Nat /\ low \in Nat /\ lo <= low
        /\ i \in Nat /\ i < LED_CNT /\ ~(i >= LED_CNT)
    BY ColorsAssumption DEF Led
  <1>2. ClrHi \in Clr /\ ClrLo \in Clr /\ ClrLo \in Int /\ ClrHi <= ClrLo
    BY ColorsAssumption DEF FirstIsBrighter, Clr
  <1>3. CASE i < lo
    <2>1. i < low
      BY <1>1, <1>3
    <2>2. FadePicture(lo, LED_CNT)[i] = ClrLo /\ FadePicture(low, LED_CNT)[i] = ClrLo
      BY <1>1, <1>3, <2>1 DEF FadePicture
    <2>3. QED
      BY <1>2, <2>2
  <1>4. CASE i >= lo
    <2> DEFINE a == i - lo
               d == LED_CNT - i
    <2>1. /\ a \in Nat /\ d \in Nat \ {0} /\ LED_CNT - lo = a + d /\ a \in 0..((a + d) - 1)
          /\ a + d \in Nat \ {0} /\ a <= Scale /\ ~(i < lo) /\ a \in 0..a
      BY <1>1, <1>4
    <2>2. FadePicture(lo, LED_CNT)[i] = Gradient(a, LED_CNT - lo)
      BY <1>1, <2>1 DEF FadePicture
    <2> HIDE DEF a, d
    <2>3. Gradient(a, a + d) <= ClrLo /\ Gradient(a, a + d) \in Int
      BY <2>1, GradientDarkens
    <2>4. CASE i < low
      <3>1. FadePicture(low, LED_CNT)[i] = ClrLo
        BY <1>1, <2>4 DEF FadePicture
      <3>2. QED
        BY <1>2, <2>1, <2>2, <2>3, <3>1
    <2>5. CASE i >= low
      <3> DEFINE b == i - low
      <3>1. /\ b \in 0..a /\ LED_CNT - low = b + d /\ b + d \in Nat \ {0}
            /\ b \in 0..((b + d) - 1) /\ ~(i < low)
        BY <1>1, <1>4, <2>5 DEF a, d
      <3>2. FadePicture(low, LED_CNT)[i] = Gradient(b, LED_CNT - low)
        BY <1>1, <3>1 DEF FadePicture
      <3> HIDE DEF b
      <3>3. Mixed(b, b + d) <= Mixed(a, a + d) + 1
        BY <2>1, <3>1, LaterIsLighter
      <3>4. Gradient(a, a + d) <= Gradient(b, b + d) + 1
        BY <1>2, <2>1, <3>1, <3>3, MixedInClr, ClrMixNear
      <3>5. QED
        BY <2>1, <2>2, <3>1, <3>2, <3>4
    <2>6. QED
      BY <1>1, <2>4, <2>5
  <1>5. QED
    BY <1>1, <1>3, <1>4
----------------------------------------------------------------------------
\* The thresholds are those of the percentage shown.
PercentInv ==
    /\ percent \in 0..100
    /\ FThrLo = Thresholds(percent)[1] /\ FThrHi = Thresholds(percent)[2]

LEMMA PercentAlways == PercentSpec => []PercentInv
  <1>1. PercentInit => PercentInv
    <2>1. 100 \in 0..100
      OBVIOUS
    <2>2. QED
      BY <2>1 DEF PercentInit, PercentInv
  <1>2. PercentInv /\ [PercentNext]_percentVars => PercentInv'
    <2> SUFFICES ASSUME PercentInv, [PercentNext]_percentVars PROVE PercentInv'
      OBVIOUS
    <2>1. CASE UNCHANGED percentVars
      BY <2>1 DEF PercentInv, percentVars, Thresholds, Proportion, CDiv
    <2>2. ASSUME NEW p \in Percents, PercentToFade(p), p \in 0..100 PROVE PercentInv'
      <3>1. percent' = p /\ FThrLo' = Thresholds(p)[1] /\ FThrHi' = Thresholds(p)[2]
        BY <2>2 DEF PercentToFade
      <3>2. Thresholds(percent)' = Thresholds(p)
        BY <3>1 DEF Thresholds, Proportion, CDiv
      <3>3. QED
        BY <2>2, <3>1, <3>2 DEF PercentInv
    <2>3. ASSUME NEW p \in Percents, PercentToFade(p), p \notin 0..100 PROVE UNCHANGED percentVars
      BY <2>3, PercentFadeAssumption DEF PercentToFade
    <2>4. QED
      BY <2>1, <2>2, <2>3 DEF PercentNext
  <1>3. QED
    BY <1>1, <1>2, PTL DEF PercentSpec

LEMMA ThresholdsAlways == PercentSpec => []ThresholdInv
  <1>1. PercentInv => ThresholdInv
    <2>1. ASSUME NEW p \in 0..100, FThrLo = Thresholds(p)[1], FThrHi = Thresholds(p)[2]
          PROVE  ThresholdInv
      BY <2>1, ThresholdsAre, Zenon DEF ThresholdInv
    <2>2. QED
      BY <2>1 DEF PercentInv
  <1>2. QED
    BY <1>1, PercentAlways, PTL

LEMMA InvInStrip ==
  ASSUME StripLongEnough, ThresholdInv
  PROVE  FThrLo \in 0..LED_CNT /\ FThrHi \in FThrLo..LED_CNT
  BY ColorsAssumption DEF StripLongEnough, ThresholdInv

\* Whatever arrives, SetupAndStart's loops (sk6812.cpp:187-189) stay within
\* DesiredClr, which they index with no test.
THEOREM ThresholdsAlwaysInStrip == StripLongEnough /\ PercentSpec => []ThresholdsInStrip
  <1> SUFFICES ASSUME StripLongEnough PROVE PercentSpec => []ThresholdsInStrip
    OBVIOUS
  <1>1. ThresholdInv => ThresholdsInStrip
    BY InvInStrip, ColorsAssumption DEF ThresholdsInStrip
  <1>2. QED
    BY <1>1, ThresholdsAlways, PTL

\* For every number of levels and every scale: the roundings of the gradient
\* never make an LED brighter than one before it (sk6812.cpp:190-195).
THEOREM AlwaysLitFromTheBeginning ==
    StripLongEnough /\ FirstIsBrighter /\ PercentSpec => []LitFromTheBeginning
  <1> SUFFICES ASSUME StripLongEnough, FirstIsBrighter PROVE PercentSpec => []LitFromTheBeginning
    OBVIOUS
  <1>1. ThresholdInv => LitFromTheBeginning
    BY InvInStrip, PictureDarkens DEF LitFromTheBeginning, Picture
  <1>2. QED
    BY <1>1, ThresholdsAlways, PTL
----------------------------------------------------------------------------
(* What a larger percentage does to the LEDs.                               *)

LEMMA LargerPercent ==
  ASSUME StripLongEnough, FirstIsBrighter, NEW p \in 0..100, NEW q \in 0..100, p < q
  PROVE  LET before == Thresholds(p)
             after  == Thresholds(q)
         IN  /\ q <= 70 => NoDarker(before[1], before[2], after[1], after[2], 0)
             /\ LED_CNT <= Scale => NoDarker(before[1], before[2], after[1], after[2], 1)
  <1> DEFINE b == Thresholds(p)
             a == Thresholds(q)
  <1>1. LED_CNT \in Nat /\ LED_CNT >= 359
    BY ColorsAssumption DEF StripLongEnough
  <1>2. b[1] \in 0..359 /\ a[1] \in 0..359
    BY ThresholdsAre, Zenon
  <1>3. /\ p < 70 => b[1] = 0 /\ b[2] \in 1..359
        /\ p >= 70 => b[2] = LED_CNT
        /\ q < 70 => a[1] = 0 /\ a[2] \in 1..359
        /\ q >= 70 => a[2] = LED_CNT
    <2>1. ASSUME NEW x \in 0..100
          PROVE  /\ x < 70 => Thresholds(x)[1] = 0 /\ Thresholds(x)[2] \in 1..359
                 /\ x >= 70 => Thresholds(x)[2] = LED_CNT
      BY LowerRange DEF Thresholds
    <2>2. QED
      BY <2>1, Zenon
  <1>4. q < 70 => b[2] <= a[2]
    BY ThresholdsGrow, Zenon
  <1>5. p >= 70 => b[1] <= a[1]
    BY ThresholdsGrow, Zenon
  <1>6. q = 70 => a[1] = 0
    BY ThresholdsGrow, Zenon
  <1> HIDE DEF a, b
  <1>7. CASE q < 70
    <2>1. /\ b[2] \in 0..LED_CNT /\ a[2] \in b[2]..LED_CNT /\ a[2] \in 0..LED_CNT
          /\ b[1] = 0 /\ a[1] = 0 /\ 0 \in 0..LED_CNT
      BY <1>1, <1>3, <1>4, <1>7
    <2>2. NoDarker(0, b[2], 0, a[2], 0)
      BY <2>1, HigherEnd
    <2>3. NoDarker(0, b[2], 0, a[2], 1)
      BY <2>1, <2>2, NoDarkerWeaker
    <2>4. QED
      BY <2>1, <2>2, <2>3 DEF a, b
  <1>8. CASE p < 70 /\ q >= 70
    <2>1. /\ b[2] \in 0..LED_CNT /\ LED_CNT \in b[2]..LED_CNT /\ b[1] = 0 /\ a[2] = LED_CNT
          /\ a[1] \in 0..LED_CNT /\ 0 \in 0..LED_CNT /\ LED_CNT \in 0..LED_CNT
          /\ q <= 70 => a[1] = 0
      BY <1>1, <1>2, <1>3, <1>6, <1>8
    <2>2. NoDarker(0, b[2], 0, LED_CNT, 0)
      BY <2>1, HigherEnd
    <2>3. ASSUME LED_CNT <= Scale PROVE NoDarker(0, b[2], a[1], LED_CNT, 1)
      <3>1. a[1] \in 0..LED_CNT /\ NoDarker(0, LED_CNT, a[1], LED_CNT, 1)
        BY <2>1, <2>3, HigherBeginning
      <3>2. QED
        BY <2>1, <2>2, <3>1, NoDarkerSum
    <2>4. QED
      BY <2>1, <2>2, <2>3 DEF a, b
  <1>9. CASE p >= 70
    <2>1. /\ b[1] \in 0..LED_CNT /\ a[1] \in b[1]..LED_CNT /\ b[2] = LED_CNT /\ a[2] = LED_CNT
          /\ ~(q <= 70)
      BY <1>1, <1>2, <1>3, <1>5, <1>9
    <2>2. LED_CNT <= Scale => NoDarker(b[1], LED_CNT, a[1], LED_CNT, 1)
      BY <2>1, HigherBeginning
    <2>3. QED
      BY <2>1, <2>2 DEF a, b
  <1>10. QED
    BY <1>7, <1>8, <1>9

\* The pictures before and after a larger percentage.
LEMMA StepNoDarker ==
  ASSUME StripLongEnough, FirstIsBrighter, PercentInv, PercentInv', percent' > percent
  PROVE  /\ \A i \in Led : Picture[i] \in Nat /\ Picture'[i] \in Nat
         /\ percent' <= 70 => \A i \in Led : Picture[i] <= Picture'[i] + 0
         /\ LED_CNT <= Scale => \A i \in Led : Picture[i] <= Picture'[i] + 1
  <1> DEFINE b == Thresholds(percent)
             a == Thresholds(percent')
  <1>1. percent \in 0..100 /\ percent' \in 0..100 /\ percent < percent'
    BY DEF PercentInv
  <1>2. FThrLo = b[1] /\ FThrHi = b[2] /\ FThrLo' = a[1] /\ FThrHi' = a[2]
    BY DEF PercentInv, Thresholds, Proportion, CDiv
  <1>3. Picture = FadePicture(b[1], b[2]) /\ Picture' = FadePicture(a[1], a[2])
    BY <1>2 DEF Picture, FadePicture, Gradient, ClrMix, Led
  <1>4. ASSUME NEW x \in 0..100
        PROVE  Thresholds(x)[1] \in 0..LED_CNT /\ Thresholds(x)[2] \in 0..LED_CNT
    <2>1. LED_CNT \in Nat /\ LED_CNT >= 359
      BY ColorsAssumption DEF StripLongEnough
    <2>2. /\ Thresholds(x)[1] \in 0..359
          /\ \/ Thresholds(x)[2] = LED_CNT
             \/ Thresholds(x)[1] = 0 /\ Thresholds(x)[2] \in 1..359
      BY ThresholdsAre, Zenon
    <2> DEFINE t == Thresholds(x)
    <2>3. t[1] \in 0..359 /\ (t[2] = LED_CNT \/ t[2] \in 1..359)
      BY <2>2
    <2> HIDE DEF t
    <2>4. t[1] \in 0..LED_CNT /\ t[2] \in 0..LED_CNT
      BY <2>1, <2>3
    <2>5. QED
      BY <2>4 DEF t
  <1>5. \A i \in Led : Picture[i] \in Nat /\ Picture'[i] \in Nat
    <2>1. b[1] \in 0..LED_CNT /\ b[2] \in 0..LED_CNT /\ a[1] \in 0..LED_CNT /\ a[2] \in 0..LED_CNT
      BY <1>1, <1>4, Zenon
    <2> HIDE DEF a, b
    <2>2. b[1] \in Int /\ b[2] \in Int /\ a[1] \in Int /\ a[2] \in Int
      BY <2>1
    <2>3. FadePicture(b[1], b[2]) \in [Led -> Clr] /\ FadePicture(a[1], a[2]) \in [Led -> Clr]
      BY <2>2, FadePictureInClr
    <2>4. QED
      BY <1>3, <2>3 DEF Clr
  <1>6. /\ percent' <= 70 => NoDarker(b[1], b[2], a[1], a[2], 0)
        /\ LED_CNT <= Scale => NoDarker(b[1], b[2], a[1], a[2], 1)
    BY <1>1, LargerPercent, Zenon
  <1> HIDE DEF a, b
  <1>7. QED
    BY <1>3, <1>5, <1>6 DEF NoDarker

\* A larger percentage up to 70 % dims no LED: for every strip, every number of
\* levels and every scale, whatever is rounded away (sk6812.cpp:190-195).
THEOREM BrighterUpTo70 ==
    StripLongEnough /\ FirstIsBrighter /\ PercentSpec =>
        [][percent' > percent /\ percent' <= 70 =>
             \A i \in Led : Picture'[i] >= Picture[i]]_percentVars
  <1> SUFFICES ASSUME StripLongEnough, FirstIsBrighter
               PROVE  PercentSpec =>
                        [][percent' > percent /\ percent' <= 70 =>
                             \A i \in Led : Picture'[i] >= Picture[i]]_percentVars
    OBVIOUS
  <1>1. PercentInv /\ PercentInv' /\ [PercentNext]_percentVars =>
            [percent' > percent /\ percent' <= 70 => \A i \in Led : Picture'[i] >= Picture[i]]_percentVars
    <2>1. ASSUME PercentInv, PercentInv', percent' > percent, percent' <= 70, NEW i \in Led
          PROVE  Picture'[i] >= Picture[i]
      BY <2>1, StepNoDarker
    <2>2. QED
      BY <2>1
  <1>2. QED
    BY <1>1, PercentAlways, PTL DEF PercentSpec

\* Any larger percentage dims no LED by more than one level, if the scale of the
\* gradient is not less than the number of LEDs (1024 and 359).
THEOREM NeverMuchDarker ==
    StripLongEnough /\ FirstIsBrighter /\ LED_CNT <= Scale /\ PercentSpec =>
        [][percent' > percent => \A i \in Led : Picture'[i] >= Picture[i] - 1]_percentVars
  <1> SUFFICES ASSUME StripLongEnough, FirstIsBrighter, LED_CNT <= Scale
               PROVE  PercentSpec =>
                        [][percent' > percent =>
                             \A i \in Led : Picture'[i] >= Picture[i] - 1]_percentVars
    OBVIOUS
  <1>1. PercentInv /\ PercentInv' /\ [PercentNext]_percentVars =>
            [percent' > percent => \A i \in Led : Picture'[i] >= Picture[i] - 1]_percentVars
    <2>1. ASSUME PercentInv, PercentInv', percent' > percent, NEW i \in Led
          PROVE  Picture'[i] >= Picture[i] - 1
      BY <2>1, StepNoDarker
    <2>2. QED
      BY <2>1
  <1>2. QED
    BY <1>1, PercentAlways, PTL DEF PercentSpec
============================================================================
