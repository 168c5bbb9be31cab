------------------------------ MODULE Zigbee2MQTT ------------------------------
(***************************************************************************)
(* How pkg/bridge/zigbee2mqtt translates: the capabilities of an endpoint, *)
(* commands to set-payloads, state messages to channel updates.            *)
(***************************************************************************)
EXTENDS LightValues

\* The capabilities of a device endpoint, from its "exposes" entry.
Features(expose) ==
    {f \in {"bri", "colour"} :
        /\ expose.type = "light"
        /\ \/ f = "bri" /\ "brightness" \in expose.features
           \/ f = "colour" /\ expose.features \cap {"color_xy", "color_hs"} # {}}

\* The capabilities of a group, from the members among the devices known so far.
Inferred(members, devices) ==
    LET seen == UNION {devices[m] : m \in members \cap DOMAIN devices}
    IN  IF "colour" \in seen THEN {"bri", "colour"}
        ELSE IF "bri" \in seen \/ members = {} THEN {"bri"} ELSE {}

\* 1..254 for the device; 0..255 from it.
ToBri(v) == Clamp((v * 254 + 5000) \div 10000, 1, 254)
FromBri(b, on) == IF on THEN Clamp((b * 10000) \div 255, 0, Full) ELSE 0

\* The set-payload of a channel value, given the colour with the new axis in it.
Setting(ep, colour, ch, v) ==
    CASE ch = 0 /\ v <= 0                   -> [on |-> FALSE]
      [] ch = 0 /\ v > 0 /\ "bri" \notin ep -> [on |-> TRUE]
      [] ch = 0 /\ v > 0 /\ "bri" \in ep    -> [bri |-> ToBri(v)]
      [] ch # 0 /\ "colour" \in ep          -> [col |-> colour]
      [] OTHER                              -> Nothing

IsOn(msg) == Says(msg, "on") => msg.on

\* Off is 0 at once; on says something only of a lamp without brightness.
FromState(ep, msg) ==
    IF Says(msg, "on") /\ (~ msg.on \/ "bri" \notin ep)
      THEN [c \in {0} |-> IF msg.on THEN Full ELSE 0] ELSE Nothing
FromBrightness(ep, msg) ==
    IF "bri" \in ep /\ Says(msg, "bri") THEN [c \in {0} |-> FromBri(msg.bri, IsOn(msg))] ELSE Nothing
FromColour(ep, msg) ==
    IF "colour" \in ep /\ Says(msg, "col") THEN [c \in {1, 2} |-> msg.col[c]] ELSE Nothing

\* Deliberate bug: the state field is not looked at.
UpdatesOfLevel(ep, msg) == FromBrightness(ep, msg) ++ FromColour(ep, msg)
\* The updates of one state message: a later one for the same channel prevails.
Updates(ep, msg) == FromColour(ep, msg) ++ FromBrightness(ep, msg) ++ FromState(ep, msg)
=============================================================================
