------------------------------ MODULE LightValues ------------------------------
(***************************************************************************)
(* What the light plugins have in common.  A digitalSTROM brightness is a  *)
(* whole number of hundredths of a percent, a colour a pair <<hue in       *)
(* degrees, saturation in percent>>.  A message of a device and a setting  *)
(* sent to one are records with some of the fields on, bri and col: a      *)
(* field that the JSON leaves out is one the record does not have.  The    *)
(* updates a message gives rise to are a function from some of the         *)
(* channels 0 (brightness), 1 (hue), 2 (saturation).                       *)
(***************************************************************************)
EXTENDS Integers

Full == 10000
Nothing == [x \in {} |-> 0]
\* What f says, and what g says besides.
f ++ g == [x \in DOMAIN f \cup DOMAIN g |-> IF x \in DOMAIN f THEN f[x] ELSE g[x]]
Says(msg, field) == field \in DOMAIN msg
Clamp(x, lo, hi) == IF x < lo THEN lo ELSE IF x > hi THEN hi ELSE x
Distance(x, y) == IF x > y THEN x - y ELSE y - x

\* The other axis comes from the cache: devices take hue and saturation together.
WithAxis(colour, ch, v) ==
    IF ch = 1 THEN <<Clamp(v, 0, 360), colour[2]>> ELSE <<colour[1], Clamp(v, 0, 100)>>
=============================================================================
