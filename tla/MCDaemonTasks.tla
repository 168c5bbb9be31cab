---------------------------- MODULE MCDaemonTasks ----------------------------
(***************************************************************************)
(* The instance of DaemonTasks for TLC: levels 0..3 that a tick moves by   *)
(* 2, so that the last tick of a ramp overshoots the bound, and commands   *)
(* inside and above the range; one plugin with one bridge, requests one by *)
(* one, and crashes.                                                       *)
(***************************************************************************)
EXTENDS DaemonTasks

MCTop == 3
MCStep == 2
MCCommands == {1, 5}

MCModes == {[plugins |-> Plugins, entities |-> Entities, requests |-> 1, slots |-> 2,
             liberties |-> {"crash"}]}
=============================================================================
