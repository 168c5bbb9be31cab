----------------------------- MODULE DurableStore -----------------------------
(***************************************************************************)
(* What a store of the bridge promises about its file: memory changes at   *)
(* will, the file holds some version that memory has held since the last   *)
(* start and never anything else where the file is replaced as a whole,    *)
(* and a restart continues with the version of the file.                   *)
(***************************************************************************)
CONSTANTS Versions, Damaged

VARIABLES mem,     \* what the store holds
          disk,    \* what its file holds, or Damaged
          past,    \* the versions memory has held since the last start
          whole    \* the file is replaced as a whole

vars == <<mem, disk, past, whole>>

Init == mem \in Versions /\ disk = mem /\ past = {mem} /\ whole \in BOOLEAN

Change ==
    /\ mem' \in Versions
    /\ past' = past \cup {mem'}
    /\ UNCHANGED <<disk, whole>>

Persist ==
    /\ disk' \in past \cup (IF whole THEN {} ELSE {Damaged})
    /\ UNCHANGED <<mem, past, whole>>

Restart ==
    /\ disk # Damaged
    /\ mem' = disk /\ past' = {disk}
    /\ UNCHANGED <<disk, whole>>

Spec == Init /\ [][Change \/ Persist \/ Restart]_vars
=============================================================================
