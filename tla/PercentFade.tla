---------------------------- MODULE PercentFade ----------------------------
(***************************************************************************)
(* PercentToFade (main.cpp): from the percentage that a radio packet or    *)
(* the "Prc" command brings to the two thresholds of EffFadeOneByOne, and  *)
(* so to the picture on the strip.                                         *)
(***************************************************************************)
EXTENDS Colors

CONSTANT Percents    \* the values that arrive

ASSUME PercentFadeAssumption == Percents \subseteq Int

VARIABLES percent,          \* the percentage shown
          FThrLo, FThrHi    \* the thresholds it gave

percentVars == <<percent, FThrLo, FThrHi>>

\* Integer division of C: towards zero.
CDiv(a, b) == IF a >= 0 THEN a \div b ELSE -((-a) \div b)

\* Faulty variant: the offset is the other end of the range.
ProportionFromMin(MinX, MaxX, MinY, MaxY, x) ==
    CDiv((x - MaxX) * (MaxY - MinY), MaxX - MinX) + MinY

Proportion(MinX, MaxX, MinY, MaxY, x) ==
    CDiv((x - MaxX) * (MaxY - MinY), MaxX - MinX) + MaxY

\* Faulty variant: the upper range begins where the lower one still holds.
ThresholdsEarly(p) ==
    IF p >= 60 THEN <<Proportion(70, 100, 0, 359, p), LED_CNT>>
               ELSE <<0, Proportion(0, 70, 1, 359, p)>>

\* From 70 % on the whole strip is lit and the lower part fully.
Thresholds(p) ==
    IF p >= 70 THEN <<Proportion(70, 100, 0, 359, p), LED_CNT>>
               ELSE <<0, Proportion(0, 70, 1, 359, p)>>

\* What main shows when the word in EEPROM is out of range.
PercentInit ==
    /\ percent = 100
    /\ FThrLo = Thresholds(100)[1] /\ FThrHi = Thresholds(100)[2]

\* Out of range: nothing is done.
PercentToFade(p) ==
    IF p > 100 \/ p < 0 THEN UNCHANGED percentVars
    ELSE percent' = p /\ FThrLo' = Thresholds(p)[1] /\ FThrHi' = Thresholds(p)[2]

PercentNext == \E p \in Percents : PercentToFade(p)

PercentSpec == PercentInit /\ [][PercentNext]_percentVars
----------------------------------------------------------------------------
(* Properties.                                                             *)

Picture == FadePicture(FThrLo, FThrHi)

\* The thresholds stay in the strip: SetupAndStart's first two loops index
\* DesiredClr by them with no test (sk6812.cpp:187-189).
ThresholdsInStrip == 0 <= FThrLo /\ FThrLo <= FThrHi /\ FThrHi <= LED_CNT

\* The strip is lit from its beginning: no LED is brighter than one before it,
\* in spite of the three roundings of the gradient.
LitFromTheBeginning == \A i \in Led \ {0} : Picture[i] <= Picture[i - 1]

\* A larger percentage dims no LED, across the rounding and the two ranges.
BrighterWithPercent ==
    [][percent' > percent => \A i \in Led : Picture'[i] >= Picture[i]]_percentVars
============================================================================
