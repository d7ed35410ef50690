--------------------------- MODULE MCPercentFade ---------------------------
(* The real numbers: 359 LEDs, 255 levels, and the strongest channel of    *)
(* clRGBWStars, every percentage after every other, and one past each end. *)
EXTENDS PercentFade

MCPercents == -1..101
============================================================================
