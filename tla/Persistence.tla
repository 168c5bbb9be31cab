------------------------------ MODULE Persistence ------------------------------
(***************************************************************************)
(* What the daemon keeps over a restart: the stores and their files        *)
(* (Stores), and the devices announced to the dSS, whose set one of those  *)
(* files holds (Announce).  Announce takes the persisted set for a         *)
(* variable that survives, Stores shows what a file makes of it; they      *)
(* share no state, so a behaviour here is one of one of them, while the    *)
(* other rests as it was at the start.                                     *)
(***************************************************************************)
EXTENDS Stores, Announce

VARIABLE keeps

keepVars == <<keeps, storeVars, vars>>

\* The announced set is kept in config.json.
KeepInit ==
    /\ keeps \in {"stores", "devices"} /\ StoreInit /\ Init
    /\ keeps = "devices" => kind = "rename"

KeepNext ==
    \/ keeps = "stores" /\ StoreNext /\ UNCHANGED <<keeps, vars>>
    \/ keeps = "devices" /\ Next /\ UNCHANGED <<keeps, storeVars>>

KeepSpec == KeepInit /\ [][KeepNext]_keepVars
=============================================================================
