----------------------------- MODULE SessionLease -----------------------------
(***************************************************************************)
(* What the bridge promises of its session: it is leased to one vDSM at a  *)
(* time, which has it until it is given back.  Nobody but the holder is    *)
(* served, the lease changes hands only over being free, and it is not     *)
(* free while anybody is served.                                           *)
(***************************************************************************)
CONSTANTS Vdsms, NoVdsm

VARIABLES holder,   \* the vDSM that has the session, or NoVdsm
          served    \* the vDSMs that some connection serves

Init == holder = NoVdsm /\ served = {}

Grant ==
    /\ holder = NoVdsm
    /\ holder' \in Vdsms
    /\ UNCHANGED served

Begin ==
    /\ holder # NoVdsm
    /\ served' = {holder}
    /\ UNCHANGED holder

(* A connection ends, or makes room for another one of the same vDSM.      *)
End ==
    /\ served' = {}
    /\ UNCHANGED holder

GiveBack ==
    /\ served = {}
    /\ holder' = NoVdsm
    /\ UNCHANGED served

Spec == Init /\ [][Grant \/ Begin \/ End \/ GiveBack]_<<holder, served>>
=============================================================================
