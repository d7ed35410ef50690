------------------------------ MODULE Colors ------------------------------
(***************************************************************************)
(* The arithmetic of colours: Color_t (kl_lib/color.h) and the picture     *)
(* that EffFadeOneByOne_t::SetupAndStart (sk6812.cpp) makes of two         *)
(* thresholds.  A colour is one channel: the four channels of an LED are   *)
(* treated alike and apart from each other.                                *)
(***************************************************************************)
EXTENDS Integers, Sequences

CONSTANTS LED_CNT,        \* LEDs in the strip
          Top,            \* top brightness (255)
          Scale,          \* scaling coefficient of the gradient (1024)
          ClrLo, ClrHi    \* EffFadeOneByOne's colours (clRGBWStars, clRGBWBlack)

ASSUME ColorsAssumption ==
    /\ LED_CNT \in Nat \ {0} /\ Top \in Nat \ {0} /\ Scale \in Nat \ {0}
    /\ ClrLo \in 0..Top /\ ClrHi \in 0..Top

Led == 0..(LED_CNT - 1)
Clr == 0..Top

\* Color_t::Adjust: one unit nearer to b.
Adjust(a, b) == IF a < b THEN a + 1 ELSE IF a > b THEN a - 1 ELSE a

\* Color_t::DelayToNextAdj: nothing when they are equal, else at least 1.
DelayToNextAdj(a, b, Smooth) == IF a = b THEN 0 ELSE (Smooth \div (a + 4)) + 1

\* Faulty variant: the two colours are mixed up.
ClrMixSwapped(fore, back, brt) == (back * brt + fore * (Top - brt)) \div Top

\* ClrMix and Color_t::BeMixOf.
ClrMix(fore, back, brt) == (fore * brt + back * (Top - brt)) \div Top

\* Faulty variant: the scaling coefficient is not taken out again.
GradientNoScale(i, len) == ClrMix(ClrHi, ClrLo, i * ((Top * Scale) \div len))

\* The gradient: the i-th of len LEDs from ClrLo to ClrHi.
Gradient(i, len) ==
    LET BrtStep == (Top * Scale) \div len IN
    ClrMix(ClrHi, ClrLo, (i * BrtStep) \div Scale)

\* Faulty variant: the third loop does not test its index.
FadeAssignmentsNoTest(ThrLo, ThrHi) ==
    [k \in 1..ThrLo |-> <<k - 1, ClrLo>>]
      \o [k \in 1..(LED_CNT - ThrHi) |-> <<ThrHi + k - 1, ClrHi>>]
      \o [k \in 1..(ThrHi - ThrLo) |-> <<ThrLo + k - 1, Gradient(k - 1, ThrHi - ThrLo)>>]

\* The assignments <<Indx, colour>> that the three loops of
\* EffFadeOneByOne_t::SetupAndStart make, in their order: below ThrLo, from
\* ThrHi on, between them.  The thresholds are any integers: the third loop
\* tests that Indx is in the strip, the first two test nothing.
FadeAssignments(ThrLo, ThrHi) ==
    LET from == IF ThrLo > 0 THEN ThrLo ELSE 0
        to   == IF ThrHi < LED_CNT THEN ThrHi ELSE LED_CNT
    IN  [k \in 1..ThrLo |-> <<k - 1, ClrLo>>]
          \o [k \in 1..(LED_CNT - ThrHi) |-> <<ThrHi + k - 1, ClrHi>>]
          \o [k \in 1..(to - from) |->
                <<from + k - 1, Gradient((from + k - 1) - ThrLo, ThrHi - ThrLo)>>]

\* The picture they make of the strip, whatever was there before.
FadePicture(ThrLo, ThrHi) ==
    [i \in Led |-> IF i >= ThrHi THEN ClrHi
                   ELSE IF i < ThrLo THEN ClrLo ELSE Gradient(i - ThrLo, ThrHi - ThrLo)]
============================================================================
