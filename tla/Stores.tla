-------------------------------- MODULE Stores --------------------------------
(***************************************************************************)
(* The persisted stores: config.json and scenes.json (pkg/vdcapi), the     *)
(* bridge mappings (pkg/bridge/mapping_store.go) and plugins.json          *)
(* (Registry.persistConfigs, pkg/vdcgo/plugins_config.go).  Each changes   *)
(* its map under a lock and writes its file after the unlock, with one of  *)
(* three disciplines:                                                      *)
(*   "rename"     a temporary file of its own, renamed over the file, of a *)
(*                copy taken under a second lock (config, scenes);         *)
(*   "inPlace"    the file itself, truncated and written, of a copy taken  *)
(*                with the change (mappings);                              *)
(*   "sharedTmp"  one temporary file for all writers, truncated, written   *)
(*                and renamed, of a copy taken later (plugins).            *)
(* The behaviours of all three are explored from the initial states.       *)
(*                                                                         *)
(* A version has the number of the change that made it and, per field, of  *)
(* the change that set the field, 0 for a field that is not there.  A      *)
(* write is one system call: over a file another writer has written        *)
(* meanwhile it may leave a mix.                                           *)
(* The encoder reads maps that the store goes on changing: what Go does    *)
(* about it, at worst, is a crash, and the daemon may crash anywhere here. *)
(***************************************************************************)
EXTENDS Naturals, FiniteSets

CONSTANTS Editors,     \* goroutines that change the store
          Fields,      \* keys of its map, or fields of an entry
          Kinds,       \* the disciplines explored
          MaxChanges   \* bound on the changes made

ASSUME StoresAssumption ==
    Kinds \subseteq {"rename", "inPlace", "sharedTmp"} /\ MaxChanges \in Nat

VARIABLES kind,     \* the discipline of this store
          mem,      \* the map
          n,        \* changes made so far
          saver,    \* per writer: where its save is
          file,     \* contents of the file
          tmp,      \* contents of the shared temporary file, or NoFile
          state,    \* "up", "down" after a crash, "dead" when the file cannot be read
          past,     \* history: versions held since the last start
          acked,    \* history: the version of the last save that ran alone
          rough     \* history: saves overlapped or failed since then

storeVars == <<kind, mem, n, saver, file, tmp, state, past, acked, rough>>

NoValues == [f \in Fields |-> 0]
Version(k, vals) == [text |-> "json", at |-> k, values |-> vals]
Versions == {Version(k, vals) : k \in 0..MaxChanges, vals \in [Fields -> 0..MaxChanges]}
NoVersion == Version(0, NoValues)
Empty == [text |-> "empty", at |-> 0, values |-> NoValues]
Mixed == [text |-> "mixed", at |-> 0, values |-> NoValues]
NoFile == [text |-> "none", at |-> 0, values |-> NoValues]
Idle == [step |-> "idle", copy |-> NoVersion, fd |-> "none", alone |-> FALSE]

Savers ==
    [step : {"idle", "copy", "open", "write", "rename", "unlink"}, copy : Versions,
     fd : {"none", "tmp", "file", "gone"},
     alone : BOOLEAN]   \* history: no other save has run beside it
Contents == Versions \cup {Empty, Mixed}

StoreTypeOK ==
    /\ kind \in Kinds
    /\ mem \in Versions /\ n \in 0..MaxChanges
    /\ saver \in [Editors -> Savers]
    /\ file \in Contents
    /\ tmp \in Contents \cup {NoFile}
    /\ state \in {"up", "down", "dead"}
    /\ past \subseteq Versions /\ acked \in Versions /\ rough \in BOOLEAN

StoreInit ==
    /\ kind \in Kinds
    /\ mem = NoVersion /\ n = 0
    /\ saver = [w \in Editors |-> Idle]
    /\ file = NoVersion /\ tmp = NoFile
    /\ state = "up"
    /\ past = {NoVersion} /\ acked = NoVersion /\ rough = FALSE

Busy == {w \in Editors : saver[w] # Idle}

-----------------------------------------------------------------------------
(* A change under the lock; the mapping store copies its list right away.  *)
Alter(w, vals) ==
    /\ state = "up" /\ saver[w] = Idle /\ n < MaxChanges
    /\ n' = n + 1
    /\ mem' = Version(n + 1, vals)
    /\ past' = past \cup {mem'}
    /\ rough' = (rough \/ Busy # {})
    /\ saver' = [v \in Editors |->
                    IF v # w THEN [saver[v] EXCEPT !.alone = FALSE]
                    ELSE [step |-> IF kind = "inPlace" THEN "open" ELSE "copy",
                          copy |-> IF kind = "inPlace" THEN mem' ELSE NoVersion,
                          fd |-> "none", alone |-> Busy = {}]]
    /\ UNCHANGED <<kind, file, tmp, state, acked>>

With(fs, k) == [f \in Fields |-> IF f \in fs THEN k ELSE mem.values[f]]

(* The setters of one device setting, input setting or scene value, and of *)
(* one member of the announced set.                                        *)
SetSetting(w, f) == kind = "rename" /\ Alter(w, With({f}, n + 1))
SetInputSetting(w, f) == kind = "rename" /\ Alter(w, With({f}, n + 1))
SetSceneValue(w, f) == kind = "rename" /\ Alter(w, With({f}, n + 1))
MarkDSUIDAdded(w, f) == kind = "rename" /\ Alter(w, With({f}, n + 1))
MarkDSUIDRemoved(w, f) == kind = "rename" /\ Alter(w, With({f}, 0))

(* A merge changes the fields that its overlay gives and keeps the others. *)
MergeSettings(w, fs) == kind = "rename" /\ Alter(w, With(fs, n + 1))
MergeSensorSettings(w, fs) == kind = "rename" /\ Alter(w, With(fs, n + 1))
SaveScene(w, fs) == kind = "rename" /\ Alter(w, With(fs, n + 1))

(* The announced set is replaced or emptied as a whole.                    *)
ReplaceAnnounced(w, fs) ==
    kind = "rename" /\ Alter(w, [f \in Fields |-> IF f \in fs THEN n + 1 ELSE 0])

AddMapping(w, f) == kind = "inPlace" /\ Alter(w, With({f}, n + 1))
RemoveMapping(w, f) == kind = "inPlace" /\ Alter(w, With({f}, 0))
SetPlugin(w, f) == kind = "sharedTmp" /\ Alter(w, With({f}, n + 1))

(* Deliberate bug: an encoding made at the start is used again.            *)
CopyStale(w) ==
    /\ saver[w].step = "copy" /\ state = "up"
    /\ saver' = [saver EXCEPT ![w].step = IF kind = "rename" THEN "rename" ELSE "open",
                              ![w].copy = CHOOSE v \in past : \A u \in past : v.at <= u.at]
    /\ UNCHANGED <<kind, mem, n, file, tmp, state, past, acked, rough>>

(* toJSON, or the list of configs, under the lock again.                   *)
Copy(w) ==
    /\ saver[w].step = "copy" /\ state = "up"
    /\ saver' = [saver EXCEPT ![w].step = IF kind = "rename" THEN "rename" ELSE "open",
                              ![w].copy = mem]
    /\ UNCHANGED <<kind, mem, n, file, tmp, state, past, acked, rough>>

(* A save is over: alone, it makes good what overlapping ones left.        *)
Settle(w, ok) ==
    IF ok /\ saver[w].alone THEN acked' = mem /\ rough' = FALSE
    ELSE rough' = TRUE /\ UNCHANGED acked

SaveDone(w, ok) == saver' = [saver EXCEPT ![w] = Idle] /\ Settle(w, ok)

(* os.WriteFile opens the file, or the shared temporary one, and truncates *)
(* it.                                                                     *)
OpenFile(w) ==
    /\ saver[w].step = "open" /\ state = "up"
    /\ saver' = [saver EXCEPT ![w].step = "write",
                              ![w].fd = IF kind = "inPlace" THEN "file" ELSE "tmp"]
    /\ IF kind = "inPlace" THEN file' = Empty /\ UNCHANGED tmp ELSE tmp' = Empty /\ UNCHANGED file
    /\ UNCHANGED <<kind, mem, n, state, past, acked, rough>>

(* What writing v over old leaves.                                         *)
Written(old, v) == IF old = Empty THEN {v} ELSE {v, Mixed}

WriteFile(w) ==
    /\ saver[w].step = "write" /\ state = "up"
    /\ CASE saver[w].fd = "file" -> file' \in Written(file, saver[w].copy) /\ UNCHANGED tmp
         [] saver[w].fd = "tmp"  -> tmp' \in Written(tmp, saver[w].copy) /\ UNCHANGED file
         [] OTHER                -> UNCHANGED <<file, tmp>>
    /\ IF kind = "inPlace" THEN SaveDone(w, TRUE)
       ELSE saver' = [saver EXCEPT ![w].step = "rename"] /\ UNCHANGED <<acked, rough>>
    /\ UNCHANGED <<kind, mem, n, state, past>>

(* Deliberate bug: the file is written where it is.                        *)
RenameTorn(w) ==
    /\ kind = "rename" /\ saver[w].step = "rename" /\ state = "up"
    /\ \/ file # Empty /\ file' = Empty /\ UNCHANGED <<saver, acked, rough>>
       \/ file = Empty /\ file' = saver[w].copy /\ SaveDone(w, TRUE)
    /\ UNCHANGED <<kind, mem, n, tmp, state, past>>

(* atomicWriteJSON: a file of its own, then the rename.                    *)
RenameOwn(w) ==
    /\ kind = "rename" /\ saver[w].step = "rename" /\ state = "up"
    /\ file' = saver[w].copy
    /\ SaveDone(w, TRUE)
    /\ UNCHANGED <<kind, mem, n, tmp, state, past>>

(* The rename takes the shared temporary file away from writers that still *)
(* have it open: what they write then goes to the file.                    *)
Moved(from, to) ==
    [w \in Editors |-> IF saver[w].fd = from THEN [saver[w] EXCEPT !.fd = to] ELSE saver[w]]

RenameShared(w) ==
    /\ kind = "sharedTmp" /\ saver[w].step = "rename" /\ state = "up"
    /\ tmp # NoFile
    /\ file' = tmp /\ tmp' = NoFile
    /\ saver' = [v \in Editors |->
                    IF v = w THEN Idle
                    ELSE [saver[v] EXCEPT !.fd = CASE @ = "tmp" -> "file" [] @ = "file" -> "gone"
                                                   [] OTHER -> @]]
    /\ Settle(w, TRUE)
    /\ UNCHANGED <<kind, mem, n, state, past>>

(* The rename of a file another writer has renamed already fails, and the  *)
(* writer then removes whatever has that name by now.                      *)
RenameFails(w) ==
    /\ kind = "sharedTmp" /\ saver[w].step = "rename" /\ tmp = NoFile /\ state = "up"
    /\ saver' = [saver EXCEPT ![w].step = "unlink", ![w].fd = "none"]
    /\ UNCHANGED <<kind, mem, n, file, tmp, state, past, acked, rough>>

Unlink(w) ==
    /\ saver[w].step = "unlink" /\ state = "up"
    /\ tmp' = NoFile
    /\ saver' = [Moved("tmp", "gone") EXCEPT ![w] = Idle]
    /\ rough' = TRUE
    /\ UNCHANGED <<kind, mem, n, file, state, past, acked>>

(* The disk is full or not writable: the error is logged or dropped.  A    *)
(* replaced file stays as it is; one written in place stays as it is if it *)
(* cannot be opened, else truncated or with a part of the text.            *)
DiskFails(w) ==
    /\ saver[w].step \in {"open", "write", "rename"} /\ kind # "sharedTmp" /\ state = "up"
    /\ file' \in {file} \cup (IF saver[w].step = "write" THEN {Mixed} ELSE {})
    /\ SaveDone(w, FALSE)
    /\ UNCHANGED <<kind, mem, n, tmp, state, past>>

-----------------------------------------------------------------------------
Crash ==
    /\ state = "up"
    /\ state' = "down"
    /\ saver' = [w \in Editors |-> Idle]
    /\ rough' = (rough \/ Busy # {})
    /\ UNCHANGED <<kind, mem, n, file, tmp, past, acked>>

(* Deliberate bug: the store starts empty.                                 *)
LoadNothing ==
    /\ state = "down"
    /\ state' = "up" /\ mem' = NoVersion /\ past' = {NoVersion} /\ rough' = TRUE
    /\ UNCHANGED <<kind, n, saver, file, tmp, acked>>

(* LoadFromFile: a file that is not JSON keeps the service from starting.  *)
Load ==
    /\ state = "down"
    /\ IF file \in {Empty, Mixed}
       THEN state' = "dead" /\ UNCHANGED <<mem, past, rough>>
       ELSE state' = "up" /\ mem' = file /\ past' = {file} /\ rough' = FALSE
    /\ UNCHANGED <<kind, n, saver, file, tmp, acked>>

StoreNext ==
    \/ \E w \in Editors :
        \/ \E f \in Fields :
            \/ SetSetting(w, f) \/ SetInputSetting(w, f) \/ SetSceneValue(w, f)
            \/ MarkDSUIDAdded(w, f) \/ MarkDSUIDRemoved(w, f)
            \/ AddMapping(w, f) \/ RemoveMapping(w, f) \/ SetPlugin(w, f)
        \/ \E fs \in SUBSET Fields :
            \/ MergeSettings(w, fs) \/ MergeSensorSettings(w, fs)
            \/ SaveScene(w, fs) \/ ReplaceAnnounced(w, fs)
        \/ Copy(w) \/ OpenFile(w) \/ WriteFile(w) \/ RenameOwn(w) \/ RenameShared(w)
        \/ RenameFails(w) \/ Unlink(w) \/ DiskFails(w)
    \/ Crash \/ Load

StoreSpec == StoreInit /\ [][StoreNext]_storeVars

-----------------------------------------------------------------------------
Readable == file \notin {Empty, Mixed}

(* config.json and scenes.json can be read at every moment, so that a      *)
(* crash never keeps the service from starting; plugins.json as long as    *)
(* saves do not overlap.                                                   *)
AlwaysStarts ==
    /\ StoreTypeOK
    /\ kind = "rename" => Readable /\ state # "dead"
    /\ kind = "sharedTmp" /\ ~rough => Readable

(* Once nothing is being saved the file holds what memory holds, unless    *)
(* saves overlapped or failed and none has run alone since.  And a change  *)
(* that a save running alone has written is never undone in the file by    *)
(* any number of overlapping, failing or interrupted saves that follow: an *)
(* older copy written last is never older than that.                       *)
SavedStaysSaved ==
    /\ state = "up" /\ Busy = {} /\ ~rough => file = mem
    /\ kind = "rename" => file.at >= acked.at

(* Every store implements the durable store, the ones that replace their   *)
(* file as a whole without ever damaging it.                               *)
D == INSTANCE DurableStore WITH
        Damaged <- Empty,
        disk <- IF Readable THEN file ELSE Empty,
        whole <- (kind = "rename")

ImplementsDurableStore == D!Spec
=============================================================================
