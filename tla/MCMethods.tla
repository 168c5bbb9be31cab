------------------------------ MODULE MCMethods ------------------------------
(* A light that recalls scenes itself, named in two spellings, beside a    *)
(* device that is no light.                                                *)
EXTENDS Methods, TLC

CONSTANTS light, other, h1, h2

MCDevices == {light, other}
MCLights == {light}
MCHandlers == {h1, h2}
MCDSUIDs == {[dev |-> light, spelling |-> "upper"], [dev |-> light, spelling |-> "lower"],
             [dev |-> other, spelling |-> "upper"]}
MCLists == {{[dev |-> light, spelling |-> "lower"]},
            {[dev |-> light, spelling |-> "upper"], [dev |-> other, spelling |-> "upper"]},
            {Root}}

Symmetry == Permutations(MCHandlers)
=============================================================================
