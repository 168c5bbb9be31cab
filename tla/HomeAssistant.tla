----------------------------- MODULE HomeAssistant -----------------------------
(***************************************************************************)
(* How pkg/bridge/homeassistant translates: the kind of an entity,         *)
(* commands to light services, entity states to channel updates.           *)
(***************************************************************************)
EXTENDS LightValues

\* classifyLight: from the colour modes, or the brightness a lit lamp shows.
Features(modes, showsBri) ==
    CASE modes \cap {"hs", "rgb", "rgbw", "rgbww", "xy"} # {} -> {"bri", "colour"}
      [] /\ modes \cap {"hs", "rgb", "rgbw", "rgbww", "xy"} = {}
         /\ modes \cap {"brightness", "color_temp"} # {} \/ showsBri -> {"bri"}
      [] OTHER -> {}

\* The service call of a channel value.  It does not ask for the entity's kind, and
\* a brightness below half a step is sent as 0.
Setting(colour, ch, v) ==
    CASE ch = 0 /\ v <= 0 -> [on |-> FALSE]
      [] ch = 0 /\ v > 0  -> [on |-> TRUE, bri |-> Clamp((v * 255 + 5000) \div 10000, 0, 255)]
      [] ch \in {1, 2}    -> [on |-> TRUE, col |-> colour]

Level(e) == IF ~ e.on THEN 0
            ELSE IF Says(e, "bri") THEN Clamp((e.bri * 10000) \div 255, 0, Full) ELSE Full
HueSat(e) == IF e.on /\ Says(e, "col") THEN [c \in {1, 2} |-> e.col[c]] ELSE Nothing

\* pushState, for an entity that is available.
Updates(kind, e) == [c \in {0} |-> Level(e)] ++ (IF "colour" \in kind THEN HueSat(e) ELSE Nothing)
=============================================================================
