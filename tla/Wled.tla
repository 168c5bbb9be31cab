---------------------------------- MODULE Wled ----------------------------------
(***************************************************************************)
(* How pkg/bridge/wled translates: commands to /json/state payloads, state *)
(* pushes to channel updates.  The device's colour is an RGB triple, 0 to  *)
(* 255 each, so hue and saturation are converted both ways.                *)
(***************************************************************************)
EXTENDS LightValues

\* hueSatToRGB at full value; thousandths round to the nearest.
RGB(hue, sat) ==
    LET part(sixtieths) == ((sixtieths * sat + (100 - sat) * 60) * 255 + 3000) \div 6000
        C == part(60)
        X == part(60 - Distance(hue % 120, 60))
        O == part(0)
    IN  CASE hue < 60                -> <<C, X, O>>
          [] hue \in 60..119         -> <<X, C, O>>
          [] hue \in 120..179        -> <<O, C, X>>
          [] hue \in 180..239        -> <<O, X, C>>
          [] hue \in 240..299        -> <<X, O, C>>
          [] hue >= 300              -> <<C, O, X>>

\* rgbToHueSat; no hue and no saturation without a colour.
HueSat(rgb) ==
    LET r == rgb[1]  g == rgb[2]  b == rgb[3]
        top == CHOOSE m \in {r, g, b} : \A x \in {r, g, b} : x <= m
        low == CHOOSE m \in {r, g, b} : \A x \in {r, g, b} : m <= x
        delta == top - low
        hue == CASE top = r            -> (60 * (g - b)) \div delta
                 [] top = g /\ top # r -> (60 * (b - r)) \div delta + 120
                 [] top = b /\ top # g /\ top # r -> (60 * (r - g)) \div delta + 240
    IN  IF delta = 0 THEN <<0, 0>>
        ELSE <<IF hue < 0 THEN hue + 360 ELSE hue, (100 * delta) \div top>>

ToBri(v) == Clamp((v * 255 + 5000) \div 10000, 0, 255)
FromBri(b, on) == IF on THEN Clamp((b * 10000) \div 255, 0, Full) ELSE 0

\* buildPayload: a colour command turns the light on.
Setting(colour, ch, v) ==
    CASE ch = 0 /\ v <= 0 -> [on |-> FALSE]
      [] ch = 0 /\ v > 0  -> [on |-> TRUE, bri |-> Clamp(ToBri(v), 1, 255)]
      [] ch \in {1, 2}    -> [on |-> TRUE, col |-> RGB(colour[1], colour[2])]

\* CallScene: a scene is the preset of that number, and 0 is off.
SceneSetting(scene, preset) == IF scene = 0 THEN [on |-> FALSE] ELSE [on |-> TRUE] ++ preset

Updates(msg) ==
    [c \in {0} |-> FromBri(msg.bri, msg.on)] ++ [c \in {1, 2} |-> HueSat(msg.col)[c]]
=============================================================================
