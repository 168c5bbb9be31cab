---------------------------- MODULE BridgedDevices ----------------------------
(***************************************************************************)
(* A bridged device on its way from the plugin to the vDSM: how a plugin   *)
(* finds it over MQTT and listens to it (MqttPlugin), and what the vDSM is *)
(* told of it (DeviceTree).  Between them is only the announcement, which  *)
(* DeviceTree takes to come at any time; they share no state, so a         *)
(* behaviour here is one of one of them, while the other rests as it was   *)
(* at the start.                                                           *)
(***************************************************************************)
EXTENDS MqttPlugin, DeviceTree

VARIABLE end

bridgedVars == <<end, vars, treeVars>>

BridgedInit == end \in {"plugin", "vdsm"} /\ Init /\ TreeInit

BridgedNext ==
    \/ end = "plugin" /\ Next /\ UNCHANGED <<end, treeVars>>
    \/ end = "vdsm" /\ TreeNext /\ UNCHANGED <<end, vars>>

BridgedSpec == BridgedInit /\ [][BridgedNext]_bridgedVars
=============================================================================
