----------------------------- MODULE MCEndDevices -----------------------------
(***************************************************************************)
(* Lamps: each plugin with each kind of lamp; off, the least and the       *)
(* middle of the brightness range, the first and the last hue, white and a *)
(* trace of colour, three changes and a reconnect.  Buttons of plugins:    *)
(* four events, two handlers at once and a watchdog.  Connector buttons:   *)
(* five presses, the shortest pause just inside and just outside the       *)
(* multi-click window, presses at the hold threshold and at the first      *)
(* repeat.                                                                 *)
(***************************************************************************)
EXTENDS EndDevices

MCPlugins == {"zigbee2mqtt", "tasmota", "homeassistant", "shelly", "wled"}
MCOrigins == {"zigbee2mqtt", "homeassistant", "shelly"}
MCModes == {"", "single", "dimmer", "scene", "default", "other"}
=============================================================================
