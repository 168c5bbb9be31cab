-------------------------------- MODULE Shelly --------------------------------
(***************************************************************************)
(* How pkg/bridge/shelly translates: the kind of a component, commands to  *)
(* Switch.Set and Light.Set, and the merged status to a channel value.     *)
(***************************************************************************)
EXTENDS LightValues

Features(component) == IF component = "light" THEN {"bri"} ELSE {}

\* setSwitch and setLight; only channel 0 is exposed.
SetSwitch(v) == [on |-> v > 0]
SetLight(v) == IF v <= 0 THEN [on |-> FALSE] ELSE [on |-> TRUE, bri |-> Clamp(v, 0, Full)]
Setting(feats, ch, v) ==
    IF ch # 0 THEN Nothing ELSE IF feats = {} THEN SetSwitch(v) ELSE SetLight(v)

\* NotifyStatus pushes carry only the fields that changed, and are merged.  (A field that
\* is null is deleted; a lamp's output and brightness never are.)
Merged(status, delta) == delta ++ status

SwitchValue(status) == IF status.on THEN Full ELSE 0
LightValue(status) ==
    IF ~ status.on THEN 0
    ELSE IF Says(status, "bri") THEN Clamp(status.bri, 0, Full) ELSE Full

\* applySpec: nothing until the output is known.
Updates(feats, status) ==
    IF ~ Says(status, "on") THEN Nothing
    ELSE [c \in {0} |-> IF feats = {} THEN SwitchValue(status) ELSE LightValue(status)]
=============================================================================
