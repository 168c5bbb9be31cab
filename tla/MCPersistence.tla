----------------------------- MODULE MCPersistence -----------------------------
(***************************************************************************)
(* The instance of Persistence for TLC: two goroutines that save two       *)
(* fields with each of the three disciplines; one device that two writers  *)
(* report, a channel of one update and every fault.                        *)
(***************************************************************************)
EXTENDS Persistence

Symm == Permutations(Writers)
=============================================================================
