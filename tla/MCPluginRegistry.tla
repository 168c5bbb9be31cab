-------------------------- MODULE MCPluginRegistry --------------------------
(***************************************************************************)
(* Instances of PluginRegistry for TLC: two plugins with a bridge each,    *)
(* requests and the supervisor at work on one at a time, and crashes; or   *)
(* one plugin without bridges, two requests and the supervisor at it       *)
(* together, adding it again included.                                     *)
(***************************************************************************)
EXTENDS PluginRegistry, TLC

OneByOneWorld == [plugins |-> Plugins, entities |-> Entities, requests |-> 1, slots |-> 2,
                  liberties |-> {"crash"}]
OverlapWorld == [plugins |-> {SomePlugin}, entities |-> {}, requests |-> 2, slots |-> 3,
                 liberties |-> {"overlap", "readd"}]

MCModes == {OneByOneWorld, OverlapWorld}

Symm == Permutations(Insts) \cup Permutations(Admins)
=============================================================================
