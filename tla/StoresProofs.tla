------------------------------ MODULE StoresProofs ------------------------------
(***************************************************************************)
(* What is proved of the stores for any number of writers, fields and      *)
(* changes: that they implement the durable store, that a file replaced as *)
(* a whole can always be read, and that what a save running alone has      *)
(* written stays.                                                          *)
(***************************************************************************)
EXTENDS Stores, TLAPS

At(w, steps) == saver[w].step \in steps
AllIdle == \A w \in Editors : saver[w] = Idle

(* A saver at rest has nothing in hand, and rests while the store is down. *)
Rest ==
    /\ \A w \in Editors : saver[w].step = "idle" => saver[w] = Idle
    /\ state # "up" => AllIdle

(* Each discipline takes its own steps.                                    *)
Steps ==
    \A w \in Editors :
        /\ kind = "rename" => At(w, {"idle", "copy", "rename"})
        /\ kind = "inPlace" => At(w, {"idle", "open", "write"})
        /\ kind = "inPlace" => saver[w].fd \in {"none", "file"}

(* Whatever is or may yet come to be in the file was once in memory.       *)
Held ==
    /\ mem \in past /\ past \subseteq Versions
    /\ \A v \in past : v.at <= n
    /\ \A w \in Editors : At(w, {"open", "write", "rename"}) => saver[w].copy \in past
    /\ file \in past \cup {Empty, Mixed}
    /\ kind = "rename" => file \in past
    /\ kind = "sharedTmp" /\ (\E w \in Editors : At(w, {"write", "rename"}))
         => tmp \in past \cup {Empty, Mixed, NoFile}

(* A save that runs alone has the current version, and the file it writes  *)
(* to itself.                                                              *)
Alone ==
    \A w \in Editors : saver[w].alone =>
        /\ ~At(w, {"idle", "unlink"})
        /\ \A v \in Editors \ {w} : saver[v] = Idle
        /\ At(w, {"open", "write", "rename"}) => saver[w].copy = mem
        /\ kind = "sharedTmp" /\ At(w, {"write"}) => saver[w].fd = "tmp" /\ tmp = Empty
        /\ kind = "sharedTmp" /\ At(w, {"rename"}) => tmp = mem
        /\ kind = "inPlace" /\ At(w, {"write"}) => saver[w].fd = "file" /\ file = Empty

(* Unless it is rough, who saves saves alone.                              *)
Smooth ==
    ~rough =>
        /\ \A w \in Editors : saver[w] # Idle => saver[w].alone
        /\ AllIdle => file = mem
        /\ kind = "sharedTmp" => file \in past

(* Nothing older than the last save that ran alone is left anywhere.       *)
Rising ==
    kind = "rename" =>
        /\ acked.at <= mem.at /\ acked.at <= file.at
        /\ \A w \in Editors : At(w, {"rename"}) => acked.at <= saver[w].copy.at
        /\ state # "dead"

IInv == StoreTypeOK /\ Rest /\ Steps /\ Held /\ Alone /\ Smooth /\ Rising

-----------------------------------------------------------------------------
(* Versions and what a file may hold beside them.                          *)
LEMMA VersionFields ==
    /\ NoVersion \in Versions
    /\ \A v \in Versions : v.text = "json" /\ v.at \in 0..MaxChanges
                           /\ v.values \in [Fields -> 0..MaxChanges]
    /\ Empty \notin Versions /\ Mixed \notin Versions /\ NoFile \notin Versions
    /\ Empty # Mixed /\ Empty # NoFile /\ Mixed # NoFile
    /\ NoVersion.at = 0
<1>1. NoValues \in [Fields -> 0..MaxChanges] /\ 0 \in 0..MaxChanges
  BY StoresAssumption DEF NoValues
<1>2. NoVersion \in Versions
  BY <1>1 DEF NoVersion, Versions
<1>3. \A v \in Versions : v.text = "json" /\ v.at \in 0..MaxChanges
                          /\ v.values \in [Fields -> 0..MaxChanges]
  BY DEF Versions, Version
<1>4. /\ Empty.text = "empty" /\ Mixed.text = "mixed" /\ NoFile.text = "none"
      /\ NoVersion.at = 0
  BY DEF Empty, Mixed, NoFile, NoVersion, Version
<1>5. QED
  BY <1>2, <1>3, <1>4

(* What Idle is, and when a saver is it.                                   *)
LEMMA IdleFields ==
    /\ Idle \in Savers
    /\ Idle.step = "idle" /\ Idle.fd = "none" /\ Idle.alone = FALSE
BY VersionFields DEF Idle, Savers

(* Nobody is busy exactly when all are idle.                               *)
LEMMA NobodyBusy == Busy = {} <=> AllIdle
BY DEF Busy, AllIdle

LEMMA InvInit == StoreInit => IInv
<1> SUFFICES ASSUME StoreInit PROVE IInv
  OBVIOUS
<1>1. StoreTypeOK
  BY VersionFields, IdleFields DEF StoreInit, StoreTypeOK, Contents
<1>2. Rest /\ Steps /\ Alone
  BY IdleFields DEF StoreInit, Rest, Steps, Alone, At
<1>3. Held /\ Smooth /\ Rising
  BY VersionFields, IdleFields DEF StoreInit, Held, Smooth, Rising, At
<1>4. QED
  BY <1>1, <1>2, <1>3 DEF IInv

(* A change of memory, the first step of every setter.                     *)
LEMMA ChangeKeeps ==
    ASSUME IInv, NEW w \in Editors, NEW vals \in [Fields -> 0..MaxChanges], Alter(w, vals)
    PROVE  IInv'
<1>1. /\ n' = n + 1 /\ n' \in 0..MaxChanges /\ n \in 0..MaxChanges
      /\ mem' \in Versions /\ mem'.at = n + 1
      /\ past' = past \cup {mem'} /\ state = "up" /\ saver[w] = Idle
      /\ rough' = (rough \/ ~AllIdle)
      /\ UNCHANGED <<kind, file, tmp, state, acked>>
  BY StoresAssumption, NobodyBusy DEF IInv, StoreTypeOK, Alter, Version, Versions
<1>2. /\ saver'[w].step = (IF kind = "inPlace" THEN "open" ELSE "copy")
      /\ saver'[w].copy = (IF kind = "inPlace" THEN mem' ELSE NoVersion)
      /\ saver'[w].fd = "none" /\ saver'[w].alone = AllIdle
      /\ saver'[w] \in Savers
  BY <1>1, NobodyBusy, VersionFields DEF Alter, Savers
<1>3. \A v \in Editors \ {w} :
        /\ saver'[v] \in Savers /\ saver'[v].alone = FALSE
        /\ saver'[v].step = saver[v].step /\ saver'[v].copy = saver[v].copy
        /\ saver'[v].fd = saver[v].fd
        /\ saver[v] = Idle => saver'[v] = Idle
  BY IdleFields DEF IInv, StoreTypeOK, Alter, Savers
<1>4. saver' \in [Editors -> Savers]
  BY <1>2, <1>3 DEF Alter
<1>5. StoreTypeOK'
  BY <1>1, <1>4 DEF IInv, StoreTypeOK
<1>6. Rest'
  BY <1>1, <1>2, <1>3 DEF IInv, Rest
<1>7. Steps'
  BY <1>1, <1>2, <1>3 DEF IInv, Steps, At
<1>8. Held'
  BY <1>1, <1>2, <1>3, VersionFields DEF IInv, Held, At
<1>9. Alone'
  <2>1. saver'[w].alone => \A v \in Editors \ {w} : saver'[v] = Idle
    BY <1>2, <1>3 DEF AllIdle
  <2>2. /\ saver'[w].step \in {"open", "copy"}
        /\ saver'[w].step = "open" => saver'[w].copy = mem'
    BY <1>2
  <2>3. QED
    BY <1>3, <2>1, <2>2 DEF Alone, At
<1>10. Smooth'
  BY <1>1, <1>2, <1>3, IdleFields DEF IInv, Smooth, AllIdle
<1>11. Rising'
  BY <1>1, <1>2, <1>3, VersionFields DEF IInv, StoreTypeOK, Held, Rising, At
<1>12. QED
  BY <1>5, <1>6, <1>7, <1>8, <1>9, <1>10, <1>11 DEF IInv

(* The copy under the lock.                                                *)
LEMMA CopyKeeps ==
    ASSUME IInv, NEW w \in Editors, Copy(w)
    PROVE  IInv'
<1>1. UNCHANGED <<kind, mem, n, file, tmp, state, past, acked, rough>>
  BY DEF Copy
<1>2. /\ saver[w].step = "copy" /\ state = "up"
      /\ saver' \in [Editors -> Savers]
      /\ saver'[w].step = (IF kind = "rename" THEN "rename" ELSE "open")
      /\ saver'[w].copy = mem /\ saver'[w].fd = saver[w].fd
      /\ saver'[w].alone = saver[w].alone
      /\ \A v \in Editors \ {w} : saver'[v] = saver[v]
  BY DEF IInv, StoreTypeOK, Copy, Savers
<1>3. StoreTypeOK'
  BY <1>1, <1>2 DEF IInv, StoreTypeOK
<1>4. Rest'
  BY <1>1, <1>2 DEF IInv, Rest
<1>5. Steps'
  BY <1>1, <1>2 DEF IInv, Steps, At
<1>6. Held'
  BY <1>1, <1>2 DEF IInv, Held, At
<1>7. Alone'
  BY <1>1, <1>2, IdleFields DEF IInv, Alone, At
<1>8. Smooth'
  BY <1>1, <1>2, IdleFields DEF IInv, Smooth, AllIdle
<1>9. Rising'
  BY <1>1, <1>2 DEF IInv, Rising, At
<1>10. QED
  BY <1>3, <1>4, <1>5, <1>6, <1>7, <1>8, <1>9 DEF IInv

(* The file, or the shared temporary one, is truncated.                    *)
LEMMA OpenKeeps ==
    ASSUME IInv, NEW w \in Editors, OpenFile(w)
    PROVE  IInv'
<1>1. /\ UNCHANGED <<kind, mem, n, state, past, acked, rough>>
      /\ kind = "inPlace" => file' = Empty /\ tmp' = tmp
      /\ kind # "inPlace" => tmp' = Empty /\ file' = file
  BY DEF OpenFile
<1>2. /\ saver[w].step = "open" /\ state = "up"
      /\ saver' \in [Editors -> Savers]
      /\ saver'[w].step = "write" /\ saver'[w].copy = saver[w].copy
      /\ saver'[w].fd = (IF kind = "inPlace" THEN "file" ELSE "tmp")
      /\ saver'[w].alone = saver[w].alone
      /\ \A v \in Editors \ {w} : saver'[v] = saver[v]
  BY DEF IInv, StoreTypeOK, OpenFile, Savers
<1>3. StoreTypeOK'
  BY <1>1, <1>2 DEF IInv, StoreTypeOK, Contents
<1>4. Rest'
  BY <1>1, <1>2 DEF IInv, Rest
<1>5. Steps'
  BY <1>1, <1>2 DEF IInv, Steps, At
<1>6. Held'
  BY <1>1, <1>2 DEF IInv, Held, At
<1>7. Alone'
  BY <1>1, <1>2, IdleFields DEF IInv, Alone, At
<1>8. Smooth'
  BY <1>1, <1>2, IdleFields DEF IInv, Smooth, AllIdle
<1>9. Rising'
  BY <1>1, <1>2 DEF IInv, Rising, At
<1>10. QED
  BY <1>3, <1>4, <1>5, <1>6, <1>7, <1>8, <1>9 DEF IInv

(* The file is written where it is.                                        *)
LEMMA WriteInPlaceKeeps ==
    ASSUME IInv, NEW w \in Editors, WriteFile(w), kind = "inPlace"
    PROVE  IInv'
<1>1. /\ UNCHANGED <<kind, mem, n, state, past, tmp>>
      /\ saver[w].step = "write" /\ state = "up"
      /\ file' = file \/ file' \in {saver[w].copy, Mixed}
      /\ saver[w].fd = "file" /\ file = Empty => file' = saver[w].copy
  BY DEF IInv, Steps, WriteFile, Written
<1>2. /\ saver' \in [Editors -> Savers] /\ saver'[w] = Idle
      /\ \A v \in Editors \ {w} : saver'[v] = saver[v]
  BY IdleFields DEF IInv, StoreTypeOK, WriteFile, SaveDone
<1>3. \/ saver[w].alone /\ acked' = mem /\ rough' = FALSE
      \/ ~saver[w].alone /\ rough' = TRUE /\ acked' = acked
  BY DEF WriteFile, SaveDone, Settle
<1>4. StoreTypeOK'
  BY ZenonT(60), <1>1, <1>2, <1>3 DEF IInv, StoreTypeOK, Contents, Savers
<1>5. Rest'
  BY <1>1, <1>2 DEF IInv, Rest
<1>6. Steps'
  BY <1>1, <1>2, IdleFields DEF IInv, Steps, At
<1>7. Held'
  BY <1>1, <1>2, IdleFields DEF IInv, Held, At
<1>8. Alone'
  BY <1>1, <1>2, IdleFields DEF IInv, Alone
<1>9. Smooth'
  BY <1>1, <1>2, <1>3 DEF IInv, Alone, Smooth, At
<1>10. Rising'
  BY <1>1 DEF Rising
<1>11. QED
  BY <1>4, <1>5, <1>6, <1>7, <1>8, <1>9, <1>10 DEF IInv

(* The shared temporary file is written, or the one it has become.         *)
LEMMA WriteSharedKeeps ==
    ASSUME IInv, NEW w \in Editors, WriteFile(w), kind # "inPlace"
    PROVE  IInv'
<1>1. /\ UNCHANGED <<kind, mem, n, state, past, acked, rough>>
      /\ saver[w].step = "write" /\ state = "up" /\ kind = "sharedTmp"
      /\ saver[w].fd = "file" => file' \in {saver[w].copy, Mixed} /\ tmp' = tmp
      /\ saver[w].fd = "tmp" => tmp' \in {saver[w].copy, Mixed} /\ file' = file
      /\ saver[w].fd = "tmp" /\ tmp = Empty => tmp' = saver[w].copy
      /\ saver[w].fd \notin {"file", "tmp"} => tmp' = tmp /\ file' = file
  BY StoresAssumption DEF IInv, StoreTypeOK, Steps, At, WriteFile, Written
<1>2. /\ saver' \in [Editors -> Savers]
      /\ saver'[w].step = "rename" /\ saver'[w].copy = saver[w].copy
      /\ saver'[w].fd = saver[w].fd /\ saver'[w].alone = saver[w].alone
      /\ \A v \in Editors \ {w} : saver'[v] = saver[v]
  BY DEF IInv, StoreTypeOK, WriteFile, Savers
<1>3. StoreTypeOK'
  BY <1>1, <1>2 DEF IInv, StoreTypeOK, Contents, Savers
<1>4. Rest'
  BY <1>1, <1>2 DEF IInv, Rest
<1>5. Steps'
  BY <1>1 DEF Steps
<1>6. Held'
  BY <1>1, <1>2 DEF IInv, Held, At
<1>7. Alone'
  BY <1>1, <1>2, IdleFields DEF IInv, Alone, At
<1>8. Smooth'
  BY <1>1, <1>2, IdleFields DEF IInv, Alone, Smooth, AllIdle, At
<1>9. Rising'
  BY <1>1 DEF Rising
<1>10. QED
  BY <1>3, <1>4, <1>5, <1>6, <1>7, <1>8, <1>9 DEF IInv

(* A temporary file of the saver itself is renamed.                        *)
LEMMA RenameOwnKeeps ==
    ASSUME IInv, NEW w \in Editors, RenameOwn(w)
    PROVE  IInv'
<1>1. /\ UNCHANGED <<kind, mem, n, state, past, tmp>>
      /\ saver[w].step = "rename" /\ state = "up" /\ kind = "rename"
      /\ file' = saver[w].copy
  BY DEF RenameOwn
<1>2. /\ saver' \in [Editors -> Savers] /\ saver'[w] = Idle
      /\ \A v \in Editors \ {w} : saver'[v] = saver[v]
  BY IdleFields DEF IInv, StoreTypeOK, RenameOwn, SaveDone
<1>3. \/ saver[w].alone /\ acked' = mem /\ rough' = FALSE
      \/ ~saver[w].alone /\ rough' = TRUE /\ acked' = acked
  BY DEF RenameOwn, SaveDone, Settle
<1>4. StoreTypeOK'
  BY <1>1, <1>2, <1>3 DEF IInv, StoreTypeOK, Contents, Savers
<1>5. Rest'
  BY <1>1, <1>2 DEF IInv, Rest
<1>6. Steps'
  BY <1>1, <1>2, IdleFields DEF IInv, Steps, At
<1>7. Held'
  BY <1>1, <1>2, IdleFields DEF IInv, Held, At
<1>8. Alone'
  BY <1>1, <1>2, IdleFields DEF IInv, Alone
<1>9. Smooth'
  BY <1>1, <1>2, <1>3 DEF IInv, Alone, Smooth, At
<1>10. Rising'
  BY <1>1, <1>2, <1>3, VersionFields, IdleFields DEF IInv, StoreTypeOK, Alone, Rising, At
<1>11. QED
  BY <1>4, <1>5, <1>6, <1>7, <1>8, <1>9, <1>10 DEF IInv

(* The shared temporary file is renamed.                                   *)
LEMMA RenameSharedKeeps ==
    ASSUME IInv, NEW w \in Editors, RenameShared(w)
    PROVE  IInv'
<1>1. /\ UNCHANGED <<kind, mem, n, state, past>>
      /\ saver[w].step = "rename" /\ state = "up" /\ kind = "sharedTmp"
      /\ tmp # NoFile /\ file' = tmp /\ tmp' = NoFile
  BY DEF RenameShared
<1>2. /\ saver'[w] = Idle
      /\ \A v \in Editors \ {w} :
           /\ saver'[v] \in Savers /\ saver'[v].alone = saver[v].alone
           /\ saver'[v].step = saver[v].step /\ saver'[v].copy = saver[v].copy
           /\ saver[v] = Idle => saver'[v] = Idle
  BY IdleFields DEF IInv, StoreTypeOK, RenameShared, Savers
<1>3. saver' \in [Editors -> Savers]
  BY <1>2, IdleFields DEF RenameShared
<1>4. \/ saver[w].alone /\ acked' = mem /\ rough' = FALSE
      \/ ~saver[w].alone /\ rough' = TRUE /\ acked' = acked
  BY DEF RenameShared, Settle
<1>5. StoreTypeOK'
  BY <1>1, <1>2, <1>3, <1>4, StoresAssumption, VersionFields, IdleFields
     DEF IInv, StoreTypeOK, Contents, Savers
<1>6. Rest'
  BY <1>1, <1>2 DEF IInv, Rest
<1>7. Steps'
  BY <1>1 DEF Steps
<1>8. Held'
  BY <1>1, <1>2, IdleFields DEF IInv, Held, At
<1>9. Alone'
  BY <1>1, <1>2, IdleFields DEF IInv, Alone
<1>10. Smooth'
  BY <1>1, <1>2, <1>4 DEF IInv, Held, Alone, Smooth, At
<1>11. Rising'
  BY <1>1 DEF Rising
<1>12. QED
  BY <1>5, <1>6, <1>7, <1>8, <1>9, <1>10, <1>11 DEF IInv

(* It has been renamed already.                                            *)
LEMMA RenameFailsKeeps ==
    ASSUME IInv, NEW w \in Editors, RenameFails(w)
    PROVE  IInv'
<1>1. /\ UNCHANGED <<kind, mem, n, file, tmp, state, past, acked, rough>>
      /\ saver[w].step = "rename" /\ state = "up" /\ kind = "sharedTmp" /\ tmp = NoFile
  BY DEF RenameFails
<1>2. /\ saver' \in [Editors -> Savers]
      /\ saver'[w].step = "unlink" /\ saver'[w].copy = saver[w].copy
      /\ saver'[w].alone = saver[w].alone
      /\ \A v \in Editors \ {w} : saver'[v] = saver[v]
  BY DEF IInv, StoreTypeOK, RenameFails, Savers
<1>3. StoreTypeOK'
  BY <1>1, <1>2 DEF IInv, StoreTypeOK
<1>4. Rest'
  BY <1>1, <1>2 DEF IInv, Rest
<1>5. Steps'
  BY <1>1 DEF Steps
<1>6. Held'
  BY <1>1, <1>2 DEF IInv, Held, At
<1>7. Alone'
  BY <1>1, <1>2, VersionFields, IdleFields DEF IInv, StoreTypeOK, Alone, At
<1>8. Smooth'
  BY <1>1, <1>2, IdleFields DEF IInv, Smooth, AllIdle
<1>9. Rising'
  BY <1>1 DEF Rising
<1>10. QED
  BY <1>3, <1>4, <1>5, <1>6, <1>7, <1>8, <1>9 DEF IInv

(* What has its name by now is removed.                                    *)
LEMMA UnlinkKeeps ==
    ASSUME IInv, NEW w \in Editors, Unlink(w)
    PROVE  IInv'
<1>1. /\ UNCHANGED <<kind, mem, n, file, state, past, acked>>
      /\ saver[w].step = "unlink" /\ state = "up" /\ kind = "sharedTmp"
      /\ tmp' = NoFile /\ rough' = TRUE
  BY StoresAssumption DEF IInv, StoreTypeOK, Steps, At, Unlink
<1>2. /\ saver'[w] = Idle
      /\ \A v \in Editors \ {w} :
           /\ saver'[v] \in Savers /\ saver'[v].alone = saver[v].alone
           /\ saver'[v].step = saver[v].step /\ saver'[v].copy = saver[v].copy
           /\ saver[v] = Idle => saver'[v] = Idle
  BY IdleFields DEF IInv, StoreTypeOK, Unlink, Moved, Savers
<1>3. saver' \in [Editors -> Savers]
  BY <1>2, IdleFields DEF Unlink, Moved
<1>4. StoreTypeOK'
  BY <1>1, <1>3 DEF IInv, StoreTypeOK
<1>5. Rest'
  BY <1>1, <1>2 DEF IInv, Rest
<1>6. Steps'
  BY <1>1 DEF Steps
<1>7. Held'
  BY <1>1, <1>2, IdleFields DEF IInv, Held, At
<1>8. Alone'
  BY <1>1, <1>2, IdleFields DEF IInv, Alone
<1>9. Smooth'
  BY <1>1 DEF Smooth
<1>10. Rising'
  BY <1>1 DEF Rising
<1>11. QED
  BY <1>4, <1>5, <1>6, <1>7, <1>8, <1>9, <1>10 DEF IInv

(* The disk fails and the file stays.                                      *)
LEMMA DiskFailsKeeps ==
    ASSUME IInv, NEW w \in Editors, DiskFails(w)
    PROVE  IInv'
<1>1. /\ UNCHANGED <<kind, mem, n, tmp, state, past, acked>>
      /\ saver[w].step \in {"open", "write", "rename"} /\ state = "up"
      /\ rough' = TRUE /\ kind # "sharedTmp"
      /\ file' \in {file, Mixed} /\ (file' # file => saver[w].step = "write")
  BY DEF DiskFails, SaveDone, Settle
<1>a. kind = "rename" => file' = file
  BY <1>1 DEF IInv, Steps, At
<1>2. /\ saver' \in [Editors -> Savers] /\ saver'[w] = Idle
      /\ \A v \in Editors \ {w} : saver'[v] = saver[v]
  BY IdleFields DEF IInv, StoreTypeOK, DiskFails, SaveDone
<1>3. StoreTypeOK'
  BY <1>1, <1>2 DEF IInv, StoreTypeOK, Contents
<1>4. Rest'
  BY <1>1, <1>2 DEF IInv, Rest
<1>5. Steps'
  BY <1>1, <1>2, IdleFields DEF IInv, Steps, At
<1>6. Held'
  BY <1>1, <1>a, <1>2, IdleFields DEF IInv, Held, At
<1>7. Alone'
  BY <1>1, <1>2, IdleFields DEF IInv, Alone
<1>8. Smooth'
  BY <1>1 DEF Smooth
<1>9. Rising'
  BY <1>1, <1>a, <1>2, IdleFields DEF IInv, Rising, At
<1>10. QED
  BY <1>3, <1>4, <1>5, <1>6, <1>7, <1>8, <1>9 DEF IInv

(* The daemon crashes.                                                     *)
LEMMA CrashKeeps ==
    ASSUME IInv, Crash
    PROVE  IInv'
<1>1. /\ UNCHANGED <<kind, mem, n, file, tmp, past, acked>>
      /\ state = "up" /\ state' = "down" /\ rough' = (rough \/ ~AllIdle)
  BY NobodyBusy DEF Crash
<1>2. saver' \in [Editors -> Savers] /\ AllIdle'
  BY IdleFields DEF Crash, AllIdle
<1>3. StoreTypeOK'
  BY <1>1, <1>2 DEF IInv, StoreTypeOK
<1>4. Rest'
  BY <1>2 DEF Rest, AllIdle
<1>5. Steps'
  BY <1>2, IdleFields DEF Steps, At, AllIdle
<1>6. Held'
  BY <1>1, <1>2, IdleFields DEF IInv, Held, At, AllIdle
<1>7. Alone'
  BY <1>2, IdleFields DEF Alone, AllIdle
<1>8. Smooth'
  BY <1>1, <1>2 DEF IInv, Smooth, AllIdle
<1>9. Rising'
  BY <1>1, <1>2, IdleFields DEF IInv, Rising, AllIdle, At
<1>10. QED
  BY <1>3, <1>4, <1>5, <1>6, <1>7, <1>8, <1>9 DEF IInv

(* The daemon starts and reads the file.                                   *)
LEMMA LoadKeeps ==
    ASSUME IInv, Load
    PROVE  IInv'
<1>1. /\ UNCHANGED <<kind, n, saver, file, tmp, acked>> /\ state = "down" /\ AllIdle
  BY DEF IInv, Rest, Load
<1>2. \/ /\ file \in {Empty, Mixed} /\ state' = "dead"
         /\ UNCHANGED <<mem, past, rough>>
      \/ /\ file \in past /\ state' = "up" /\ rough' = FALSE
         /\ mem' = file /\ past' = {file}
  BY DEF IInv, Held, Load
<1>3. StoreTypeOK'
  BY <1>1, <1>2 DEF IInv, StoreTypeOK
<1>4. Rest'
  BY <1>1 DEF Rest, AllIdle
<1>5. Steps'
  BY <1>1 DEF IInv, Steps, At
<1>6. Held'
  BY <1>1, <1>2, IdleFields DEF IInv, Held, At, AllIdle
<1>7. Alone'
  BY <1>1, IdleFields DEF Alone, AllIdle
<1>8. Smooth'
  BY <1>1, <1>2 DEF IInv, Smooth, AllIdle
<1>9. Rising'
  BY <1>1, <1>2, VersionFields DEF IInv, Held, Rising, At
<1>10. QED
  BY <1>3, <1>4, <1>5, <1>6, <1>7, <1>8, <1>9 DEF IInv

(* Nothing happens.                                                        *)
LEMMA StutterKeeps ==
    ASSUME IInv, UNCHANGED storeVars
    PROVE  IInv'
<1>1. StoreTypeOK'
  BY DEF IInv, storeVars, StoreTypeOK, Contents, Savers
<1>2. Rest'
  BY DEF IInv, storeVars, Rest, AllIdle
<1>3. Steps'
  BY DEF IInv, storeVars, Steps, At
<1>4. Held'
  BY DEF IInv, storeVars, Held, At
<1>5. Alone'
  BY DEF IInv, storeVars, Alone, At
<1>6. Smooth'
  BY DEF IInv, storeVars, Smooth, AllIdle
<1>7. Rising'
  BY DEF IInv, storeVars, Rising, At
<1>8. QED
  BY <1>1, <1>2, <1>3, <1>4, <1>5, <1>6, <1>7 DEF IInv

-----------------------------------------------------------------------------
(* What a setter makes of the values is a value of every field.            *)
LEMMA SetValues ==
    ASSUME IInv, n < MaxChanges
    PROVE  \A fs \in SUBSET Fields :
              /\ With(fs, n + 1) \in [Fields -> 0..MaxChanges]
              /\ With(fs, 0) \in [Fields -> 0..MaxChanges]
              /\ [f \in Fields |-> IF f \in fs THEN n + 1 ELSE 0] \in [Fields -> 0..MaxChanges]
<1>1. n + 1 \in 0..MaxChanges /\ 0 \in 0..MaxChanges
  BY StoresAssumption DEF IInv, StoreTypeOK
<1>2. mem.values \in [Fields -> 0..MaxChanges]
  BY VersionFields DEF IInv, StoreTypeOK
<1>3. QED
  BY <1>1, <1>2 DEF With

Setter == \E w \in Editors, vals \in [Fields -> 0..MaxChanges] : Alter(w, vals)

(* The steps of a save, of whoever saves.                                  *)
SaveStep(w) ==
    \/ Copy(w) \/ OpenFile(w) \/ WriteFile(w) \/ RenameOwn(w) \/ RenameShared(w)
    \/ RenameFails(w) \/ Unlink(w) \/ DiskFails(w)

(* A step changes memory, saves, crashes or starts.                        *)
LEMMA StepKinds ==
    ASSUME IInv, StoreNext
    PROVE  Setter \/ (\E w \in Editors : SaveStep(w)) \/ Crash \/ Load
<1>1. ASSUME NEW w \in Editors, NEW f \in Fields,
             \/ SetSetting(w, f) \/ SetInputSetting(w, f) \/ SetSceneValue(w, f)
             \/ MarkDSUIDAdded(w, f) \/ AddMapping(w, f) \/ SetPlugin(w, f)
      PROVE  Setter
  <2>1. Alter(w, With({f}, n + 1))
    BY <1>1 DEF SetSetting, SetInputSetting, SetSceneValue, MarkDSUIDAdded, AddMapping, SetPlugin
  <2>2. n < MaxChanges
    BY <2>1 DEF Alter
  <2>3. QED
    BY <2>1, <2>2, SetValues DEF Setter
<1>2. ASSUME NEW w \in Editors, NEW f \in Fields, MarkDSUIDRemoved(w, f) \/ RemoveMapping(w, f)
      PROVE  Setter
  <2>1. Alter(w, With({f}, 0))
    BY <1>2 DEF MarkDSUIDRemoved, RemoveMapping
  <2>2. n < MaxChanges
    BY <2>1 DEF Alter
  <2>3. QED
    BY <2>1, <2>2, SetValues DEF Setter
<1>3. ASSUME NEW w \in Editors, NEW fs \in SUBSET Fields,
             \/ MergeSettings(w, fs) \/ MergeSensorSettings(w, fs) \/ SaveScene(w, fs)
             \/ ReplaceAnnounced(w, fs)
      PROVE  Setter
  <2>1. \/ Alter(w, With(fs, n + 1))
        \/ Alter(w, [f \in Fields |-> IF f \in fs THEN n + 1 ELSE 0])
    BY <1>3 DEF MergeSettings, MergeSensorSettings, SaveScene, ReplaceAnnounced
  <2>2. n < MaxChanges
    BY <2>1 DEF Alter
  <2>3. QED
    BY <2>1, <2>2, SetValues DEF Setter
<1>4. QED
  BY <1>1, <1>2, <1>3 DEF StoreNext, SaveStep

(* Every step keeps the invariant.                                         *)
LEMMA InvNext == IInv /\ [StoreNext]_storeVars => IInv'
<1> SUFFICES ASSUME IInv, [StoreNext]_storeVars PROVE IInv'
  OBVIOUS
<1>1. CASE UNCHANGED storeVars
  BY <1>1, StutterKeeps
<1>2. CASE Setter
  BY <1>2, ChangeKeeps DEF Setter
<1>3. ASSUME NEW w \in Editors, SaveStep(w) PROVE IInv'
  BY <1>3, CopyKeeps, OpenKeeps, WriteInPlaceKeeps, WriteSharedKeeps, RenameOwnKeeps,
     RenameSharedKeeps, RenameFailsKeeps, UnlinkKeeps, DiskFailsKeeps
     DEF SaveStep
<1>4. CASE Crash
  BY <1>4, CrashKeeps
<1>5. CASE Load
  BY <1>5, LoadKeeps
<1>6. QED
  BY <1>1, <1>2, <1>3, <1>4, <1>5, StepKinds

(* The inductive invariant holds in every reachable state.                 *)
THEOREM Invariance == StoreSpec => []IInv
BY InvInit, InvNext, PTL DEF StoreSpec

-----------------------------------------------------------------------------
(* config.json and scenes.json can be read whenever the daemon is killed,  *)
(* with any number of saves under way, and plugins.json while saves do not *)
(* overlap.                                                                *)
THEOREM StoresCanBeRead == StoreSpec => []AlwaysStarts
<1>1. IInv => AlwaysStarts
  BY VersionFields DEF IInv, Held, Smooth, Rising, AlwaysStarts, Readable
<1>2. QED
  BY <1>1, Invariance, PTL

(* A save that ran alone is never undone in the file by overlapping,       *)
(* failing or interrupted ones, and at rest the file agrees with memory.   *)
THEOREM SavesStay == StoreSpec => []SavedStaysSaved
<1>1. IInv => SavedStaysSaved
  <2> SUFFICES ASSUME IInv PROVE SavedStaysSaved
    OBVIOUS
  <2>1. acked.at \in Nat /\ (kind = "rename" => file.at \in Nat)
    BY VersionFields, StoresAssumption DEF IInv, StoreTypeOK, Held
  <2>2. QED
    BY NobodyBusy DEF IInv, Smooth, Rising, SavedStaysSaved
<1>2. QED
  BY <1>1, Invariance, PTL

-----------------------------------------------------------------------------
(* A step that leaves memory alone leaves in the file what memory once     *)
(* held, or damages a file that is not replaced as a whole.                *)
LEMMA FilePersists ==
    ASSUME IInv, IInv', UNCHANGED <<kind, mem, past>>
    PROVE  D!Persist
BY VersionFields DEF IInv, Held, Readable, D!Persist

(* Every step of a store is a step of the durable store.                   *)
LEMMA StepRefines ==
    ASSUME IInv, [StoreNext]_storeVars, IInv'
    PROVE  [D!Change \/ D!Persist \/ D!Restart]_(D!vars)
<1>1. CASE UNCHANGED storeVars
  BY <1>1 DEF storeVars, D!vars, Readable
<1>2. CASE Setter
  BY <1>2 DEF Setter, Alter, IInv, StoreTypeOK, D!Change, Readable
<1>3. ASSUME NEW w \in Editors, SaveStep(w) PROVE D!Persist
  <2>1. UNCHANGED <<kind, mem, past>>
    BY <1>3
       DEF SaveStep, Copy, OpenFile, WriteFile, RenameOwn, RenameShared, RenameFails, Unlink,
           DiskFails
  <2>2. QED
    BY <2>1, FilePersists
<1>4. CASE Crash
  BY <1>4, FilePersists DEF Crash
<1>5. CASE Load
  <2>1. CASE file \in {Empty, Mixed}
    BY <1>5, <2>1, FilePersists DEF Load
  <2>2. CASE file \notin {Empty, Mixed}
    BY <1>5, <2>2 DEF Load, Readable, D!Restart
  <2>3. QED
    BY <2>1, <2>2
<1>6. QED
  BY <1>1, <1>2, <1>3, <1>4, <1>5, StepKinds

(* Every store implements the durable store: whatever is in its file was   *)
(* in memory since the last start, a restart continues with it, and a file *)
(* that is replaced as a whole is never damaged.                           *)
THEOREM StoresAreDurable == StoreSpec => ImplementsDurableStore
<1>1. StoreInit => D!Init
  BY VersionFields DEF StoreInit, D!Init, Readable
<1>2. QED
  BY <1>1, StepRefines, Invariance, PTL DEF StoreSpec, ImplementsDurableStore, D!Spec
===============================================================================
