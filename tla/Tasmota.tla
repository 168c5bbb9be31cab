-------------------------------- MODULE Tasmota --------------------------------
(***************************************************************************)
(* How pkg/bridge/tasmota translates: the kind of a relay, commands to     *)
(* cmnd topics, STATE/RESULT and POWER messages to channel updates.        *)
(***************************************************************************)
EXTENDS LightValues

\* kindFor: slot is the relay's entry in "rl", subtype the device's "lt_st".
Features(slot, subtype) ==
    CASE slot = 2 /\ subtype \in {0, 1, 2} -> {"bri"}
      [] slot = 2 /\ subtype \in {3, 4, 5} -> {"bri", "colour"}
      [] OTHER                             -> {}

ToDimmer(v) == Clamp((Clamp(v, 0, Full) + 50) \div 100, 1, 100)
FromDimmer(b, on) == IF on THEN Clamp(b * 100, 0, Full) ELSE 0

\* HsbColor carries the value 100 besides hue and saturation.
Setting(kind, colour, ch, v) ==
    CASE ch = 0 /\ v <= 0                     -> [on |-> FALSE]
      [] ch = 0 /\ v > 0 /\ "bri" \notin kind -> [on |-> TRUE]
      [] ch = 0 /\ v > 0 /\ "bri" \in kind    -> [bri |-> ToDimmer(v)]
      [] ch # 0 /\ "colour" \in kind          -> [bri |-> 100, col |-> colour]
      [] OTHER                                -> Nothing

IsOn(msg) == Says(msg, "on") => msg.on

\* An on without a Dimmer beside it counts as full brightness.
FromPower(kind, msg) ==
    IF Says(msg, "on") /\ (~ msg.on \/ kind = {} \/ ~ Says(msg, "bri"))
      THEN [c \in {0} |-> IF msg.on THEN Full ELSE 0] ELSE Nothing
FromLevel(kind, msg) ==
    IF kind # {} /\ Says(msg, "bri") THEN [c \in {0} |-> FromDimmer(msg.bri, IsOn(msg))] ELSE Nothing
FromColour(kind, msg) ==
    IF "colour" \in kind /\ Says(msg, "col") THEN [c \in {1, 2} |-> msg.col[c]] ELSE Nothing

Updates(kind, msg) == FromColour(kind, msg) ++ FromLevel(kind, msg) ++ FromPower(kind, msg)

\* The handler of the stat/POWER topic, which carries the bare word.
PowerUpdates(power) == [c \in {0} |-> IF power THEN Full ELSE 0]
=============================================================================
