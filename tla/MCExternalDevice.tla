--------------------------- MODULE MCExternalDevice ---------------------------
(* Two connections and two devices, so that a device can move from one     *)
(* connection to the other and share one with its neighbour.               *)
EXTENDS ExternalDevice, TLC

Symmetry == Permutations(Conns)
=============================================================================
