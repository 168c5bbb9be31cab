---------------------------- MODULE PluginRegistry ----------------------------
(***************************************************************************)
(* The life of plugins and bridge mappings: bridge.Registry                *)
(* (pkg/bridge/registry.go) with its MappingStore, as the HTTP handlers,   *)
(* the supervisor goroutine and the daemon's start drive it.               *)
(*                                                                         *)
(* Registry.mu is held for single looks at the maps only.  An operation    *)
(* takes an instance out of the map, lets go of the lock, closes it,       *)
(* starts another (Init may take long) and restores the mappings, so the   *)
(* operations of several goroutines interleave between these steps.  The   *)
(* label of a goroutine names the step it takes next.                      *)
(*                                                                         *)
(* Of a plugin's config only the Disabled flag is kept, and of a device    *)
(* its presence and its Active flag.  The backoff of a failed plugin is    *)
(* kept as "has yet to elapse".  An instance slot is reused once it is     *)
(* closed and nothing refers to it.  The vDSM may remove a bridged device  *)
(* at any time; its mapping stays and gets a new device with the next      *)
(* start of its plugin, or of the daemon.                                  *)
(***************************************************************************)
EXTENDS Naturals, FiniteSets

CONSTANTS Plugins,     \* plugin ids
          Entities,    \* remote entities of a plugin
          Admins,      \* goroutines of HTTP requests
          Supervisor,  \* the goroutine of startSupervisor
          Main,        \* the goroutine that runs Service.Run
          Insts,       \* slots for plugin instances
          NoInst,
          Modes        \* the worlds to consider, each a record of the plugins and
                       \* entities there are, the bounds on the requests at work and
                       \* the instance slots, and the liberties: what may happen
                       \* beyond one well-formed request at a time for each
                       \* plugin ("overlap", "readd", "crash")

ASSUME RegistryAssumption ==
    /\ NoInst \notin Insts /\ Plugins # {}
    /\ Supervisor \notin Admins /\ Main \notin Admins /\ Supervisor # Main
    /\ \A m \in Modes : /\ m.plugins \subseteq Plugins /\ m.entities \subseteq Entities
                        /\ m.requests \in Nat /\ m.slots \in Nat
                        /\ m.liberties \subseteq {"overlap", "readd", "crash"}

Threads == Admins \cup {Supervisor, Main}
Bridges == Plugins \X Entities
Configs == {"enabled", "disabled"}

VARIABLES mode,        \* the world this is
          configs,     \* Registry.configs: "none" or the config's flag
          instances,   \* Registry.instances
          waiting,     \* ids whose retryBackoff has yet to elapse
          inst,        \* the plugin instances
          mappings,    \* MappingStore.mappings, persisted at once
          devices,     \* the bridged devices in the StateStore
          persisted,   \* plugins.json
          th,          \* the goroutines
          removed,     \* history: removed, and not added since (if OneByOne)
          forgotten    \* history: bridges whose device the vDSM has removed, and
                       \* whose plugin has not started since

vars == <<mode, configs, instances, waiting, inst, mappings, devices, persisted, th, removed,
          forgotten>>
maps == <<mode, configs, instances, waiting>>
stores == <<mappings, devices, forgotten>>

Ops == {"none", "add", "remove", "update", "restart", "enable", "disable",
        "create", "unbridge", "supervise", "boot"}
Labels == {"idle", "take", "list", "unsub", "teardown", "unmap", "close", "config", "init",
           "register", "fresh", "create", "restore", "setcfg", "persist", "write",
           "next", "mappings", "revive"}

Saved == [Plugins -> Configs \cup {"none"}]

Thread == [op : Ops, pc : Labels,
           id : Plugins,                     \* the plugin worked on
           cfg : Configs,                    \* the config to store
           own : Insts \cup {NoInst},        \* the instance at hand
           todo : SUBSET Bridges,            \* what is left of a list of mappings
           at : SUBSET Bridges,              \* the mapping a loop is at
           list : SUBSET Plugins,            \* what is left of a list of configs
           save : Saved]                     \* a copy of the configs

TypeOK ==
    /\ mode \in Modes
    /\ configs \in Saved
    /\ instances \in [Plugins -> Insts \cup {NoInst}]
    /\ waiting \subseteq Plugins
    /\ inst \in [Insts -> [state : {"open", "closed"}, plugin : Plugins,
                           subs : SUBSET Bridges]]
    /\ mappings \subseteq Bridges
    /\ devices \in [Bridges -> {"absent", "active", "inactive"}]
    /\ persisted \in Saved
    /\ th \in [Threads -> Thread]
    /\ removed \subseteq Plugins
    /\ forgotten \subseteq Bridges

Nobody == [p \in Plugins |-> "none"]
SomePlugin == CHOOSE p \in Plugins : TRUE
Idle == [op |-> "none", pc |-> "idle", id |-> SomePlugin, cfg |-> "enabled", own |-> NoInst,
         todo |-> {}, at |-> {}, list |-> {}, save |-> Nobody]

(* The daemon starts: nothing is in memory, Start runs on the main         *)
(* goroutine with the configs of plugins.json.                             *)
Booting(saved) ==
    [t \in Threads |->
        IF t = Main
        THEN [Idle EXCEPT !.op = "boot", !.pc = "next",
                          !.list = {p \in Plugins : saved[p] # "none"}, !.save = saved]
        ELSE Idle]

Closed == [state |-> "closed", plugin |-> SomePlugin, subs |-> {}]
ClosedInsts == [i \in Insts |-> Closed]

Init ==
    /\ mode \in Modes
    /\ configs = Nobody
    /\ instances = [p \in Plugins |-> NoInst]
    /\ waiting = {}
    /\ inst = ClosedInsts
    /\ mappings = {}
    /\ devices = [b \in Bridges |-> "absent"]
    /\ persisted = Nobody
    /\ th = Booting(persisted)
    /\ removed = {}
    /\ forgotten = {}

-----------------------------------------------------------------------------
(* Helpers *)

(* Requests come one by one for each plugin, and none adds a plugin again. *)
OneByOne == "overlap" \notin mode.liberties /\ "readd" \notin mode.liberties
Removed(p) == removed \cup (IF OneByOne THEN {p} ELSE {})

BridgesOf(p) == {p} \X Entities

Up == th[Main].pc = "idle"

(* The goroutine is in an operation on the plugin.                         *)
Busy(t, p) == th[t].pc # "idle" /\ (th[t].id = p \/ p \in th[t].list)

Quiet(p) == Up /\ \A t \in Threads : ~Busy(t, p)

MayBegin(t, p) ==
    /\ t \in Admins /\ th[t].pc = "idle" /\ Up
    /\ p \in mode.plugins
    /\ Cardinality({s \in Admins : th[s].pc # "idle"}) < mode.requests
    /\ "overlap" \in mode.liberties \/ \A s \in Threads : ~Busy(s, p)

Begin(t, p, op, label, cfg) ==
    th' = [th EXCEPT ![t] = [Idle EXCEPT !.op = op, !.pc = label, !.id = p, !.cfg = cfg]]

Goto(t, label) ==
    th' = [th EXCEPT ![t] = IF label = "idle" THEN Idle ELSE [@ EXCEPT !.pc = label]]

(* Deliberate bug: the supervisor ends with the first failure.             *)
ReturnEnds(t) ==
    CASE th[t].op = "boot" -> "next" [] th[t].op = "supervise" -> "ended" [] OTHER -> "idle"

(* A goroutine that failed to start a plugin, or is done with one, goes on *)
(* with its list or returns.                                               *)
Return(t) == IF th[t].op \in {"supervise", "boot"} THEN "next" ELSE "idle"

AfterRestore(t) ==
    CASE th[t].op = "update" -> "persist"
      [] th[t].op = "enable" -> "setcfg"
      [] OTHER -> Return(t)

Unreferenced(i) ==
    /\ inst[i].state = "closed"
    /\ \A p \in Plugins : instances[p] # i
    /\ \A t \in Threads : th[t].own # i

-----------------------------------------------------------------------------
(* The beginning of the HTTP handlers' operations *)

(* AddPlugin looks at the running instances only, and so does the handler. *)
(* Without "readd" it is called for a brand-new plugin, as its comment     *)
(* says: one without a config and without mappings left from earlier.      *)
AddPlugin(t, p) ==
    /\ MayBegin(t, p)
    /\ instances[p] = NoInst
    /\ "readd" \in mode.liberties
         \/ (configs[p] = "none" /\ mappings \cap BridgesOf(p) = {})
    /\ Begin(t, p, "add", "config", "enabled")
    /\ UNCHANGED <<maps, inst, stores, persisted, removed>>

(* Deliberate bug: the config of a plugin that is not running is left.     *)
RemovePluginRunning(t, p) ==
    /\ MayBegin(t, p)
    /\ configs[p] # "none" \/ instances[p] # NoInst
    /\ instances' = [instances EXCEPT ![p] = NoInst]
    /\ configs' = [configs EXCEPT ![p] = IF instances[p] = NoInst THEN @ ELSE "none"]
    /\ waiting' = waiting \ {p}
    /\ th' = [th EXCEPT ![t] = [Idle EXCEPT !.op = "remove", !.pc = "list", !.id = p,
                                            !.own = instances[p]]]
    /\ removed' = Removed(p)
    /\ UNCHANGED <<mode, inst, stores, persisted>>

RemovePlugin(t, p) ==
    /\ MayBegin(t, p)
    /\ configs[p] # "none" \/ instances[p] # NoInst
    /\ instances' = [instances EXCEPT ![p] = NoInst]
    /\ configs' = [configs EXCEPT ![p] = "none"]
    /\ waiting' = waiting \ {p}
    /\ th' = [th EXCEPT ![t] = [Idle EXCEPT !.op = "remove", !.pc = "list", !.id = p,
                                            !.own = instances[p]]]
    /\ removed' = Removed(p)
    /\ UNCHANGED <<mode, inst, stores, persisted>>

(* The handler makes the new config without the Disabled flag.             *)
UpdatePlugin(t, p) ==
    /\ MayBegin(t, p)
    /\ configs[p] # "none"
    /\ Begin(t, p, "update", "take", "enabled")
    /\ UNCHANGED <<maps, inst, stores, persisted, removed>>

RestartPlugin(t, p) ==
    /\ MayBegin(t, p)
    /\ configs[p] = "enabled"
    /\ Begin(t, p, "restart", "take", "enabled")
    /\ UNCHANGED <<maps, inst, stores, persisted, removed>>

SetEnabled(t, p) ==
    /\ MayBegin(t, p)
    /\ \/ configs[p] = "disabled" /\ Begin(t, p, "enable", "config", "enabled")
       \/ configs[p] = "enabled" /\ Begin(t, p, "disable", "take", "disabled")
    /\ UNCHANGED <<maps, inst, stores, persisted, removed>>

CreateBridge(t, b) ==
    /\ MayBegin(t, b[1]) /\ b[2] \in mode.entities
    /\ instances[b[1]] # NoInst
    /\ th' = [th EXCEPT ![t] = [Idle EXCEPT !.op = "create", !.pc = "create", !.id = b[1],
                                            !.own = instances[b[1]], !.todo = {b}]]
    /\ UNCHANGED <<maps, inst, stores, persisted, removed>>

RemoveBridge(t, b) ==
    /\ MayBegin(t, b[1])
    /\ b \in mappings
    /\ th' = [th EXCEPT ![t] = [Idle EXCEPT !.op = "unbridge", !.pc = "teardown", !.id = b[1],
                                            !.own = instances[b[1]], !.todo = {b}]]
    /\ UNCHANGED <<maps, inst, stores, persisted, removed>>

-----------------------------------------------------------------------------
(* startPlugin *)

(* The config is retained whatever happens next.                           *)
Retain(t) ==
    /\ th[t].pc = "config"
    /\ configs' = [configs EXCEPT ![th[t].id] = th[t].cfg]
    /\ removed' = IF th[t].op = "add" THEN removed \ {th[t].id} ELSE removed
    /\ Goto(t, "init")
    /\ UNCHANGED <<mode, instances, waiting, inst, stores, persisted>>

InitOk(t) ==
    /\ th[t].pc = "init"
    /\ Cardinality({i \in Insts : ~Unreferenced(i)}) < mode.slots
    /\ \E i \in Insts :
         /\ Unreferenced(i)
         /\ inst' = [inst EXCEPT ![i] = [state |-> "open", plugin |-> th[t].id, subs |-> {}]]
         /\ th' = [th EXCEPT ![t].pc = "register", ![t].own = i]
    /\ UNCHANGED <<maps, stores, persisted, removed>>

(* Init fails: recordStartFailure, and the error is returned.              *)
InitFails(t) ==
    /\ th[t].pc = "init"
    /\ waiting' = waiting \cup {th[t].id}
    /\ Goto(t, Return(t))
    /\ UNCHANGED <<mode, configs, instances, inst, stores, persisted, removed>>

(* Deliberate bug: the supervisor starts a plugin and leaves its mappings. *)
AfterStartOnly(t) ==
    CASE th[t].op = "add" -> "persist"
      [] th[t].op \in {"boot", "supervise"} -> "next"
      [] OTHER -> "fresh"

AfterStart(t) ==
    CASE th[t].op = "add" -> "persist"
      [] th[t].op = "boot" -> "next"
      [] OTHER -> "fresh"

Register(t) ==
    /\ th[t].pc = "register"
    /\ instances' = [instances EXCEPT ![th[t].id] = th[t].own]
    /\ waiting' = waiting \ {th[t].id}
    /\ th' = [th EXCEPT ![t].pc = AfterStart(t), ![t].own = NoInst]
    /\ forgotten' = forgotten \ BridgesOf(th[t].id)
    /\ UNCHANGED <<mode, configs, inst, mappings, devices, persisted, removed>>

-----------------------------------------------------------------------------
(* The further steps of the operations *)

(* Deliberate bug: the instance is read and not taken out of the map.      *)
TakeReads(t) ==
    LET p == th[t].id
    IN  /\ th[t].pc = "take"
        /\ configs' = IF th[t].op = "disable" THEN [configs EXCEPT ![p] = "disabled"]
                                              ELSE configs
        /\ th' = [th EXCEPT ![t].own = instances[p],
                            ![t].pc = IF th[t].op = "disable" THEN "list" ELSE "close"]
        /\ UNCHANGED <<mode, instances, waiting, inst, stores, persisted, removed>>

(* Update, restart and disable take the instance out of the map.           *)
(* UpdatePlugin fails if the plugin has been removed meanwhile.            *)
Take(t) ==
    LET p == th[t].id
        gone == th[t].op = "update" /\ instances[p] = NoInst /\ configs[p] = "none"
    IN  /\ th[t].pc = "take"
        /\ instances' = [instances EXCEPT ![p] = NoInst]
        /\ configs' = IF th[t].op = "disable" THEN [configs EXCEPT ![p] = "disabled"]
                                              ELSE configs
        /\ \/ gone /\ Goto(t, "idle")
           \/ /\ ~gone
              /\ th' = [th EXCEPT ![t].own = instances[p],
                                  ![t].pc = IF th[t].op # "disable" THEN "close"
                                            ELSE IF instances[p] = NoInst THEN "setcfg"
                                            ELSE "list"]
        /\ UNCHANGED <<mode, waiting, inst, stores, persisted, removed>>

(* The plugin's mappings are listed for a loop over them.                  *)
List(t) ==
    /\ th[t].pc = "list"
    /\ th' = [th EXCEPT ![t].todo = mappings \cap BridgesOf(th[t].id),
                        ![t].pc = CASE th[t].op = "remove" -> "teardown"
                                    [] th[t].op = "disable" -> "unsub"
                                    [] OTHER -> "restore"]
    /\ UNCHANGED <<maps, inst, stores, persisted, removed>>

Unsubscribed(i, b) ==
    IF i = NoInst THEN inst ELSE [inst EXCEPT ![i].subs = @ \ {b}]

Unsubscribe(t) ==
    /\ th[t].pc = "unsub"
    /\ \/ \E b \in th[t].todo :
            /\ inst' = Unsubscribed(th[t].own, b)
            /\ th' = [th EXCEPT ![t].todo = @ \ {b}]
       \/ th[t].todo = {} /\ Goto(t, "close") /\ UNCHANGED inst
    /\ UNCHANGED <<maps, stores, persisted, removed>>

(* RemovePlugin and RemoveBridge, for each mapping: unsubscribe it and     *)
(* remove its device, ...                                                  *)
Teardown(t) ==
    /\ th[t].pc = "teardown"
    /\ \/ \E b \in th[t].todo :
            /\ inst' = Unsubscribed(th[t].own, b)
            /\ devices' = [devices EXCEPT ![b] = "absent"]
            /\ forgotten' = forgotten \ {b}
            /\ th' = [th EXCEPT ![t].pc = "unmap", ![t].todo = @ \ {b}, ![t].at = {b}]
       \/ /\ th[t].todo = {}
          /\ Goto(t, IF th[t].op = "remove" THEN "close" ELSE "idle")
          /\ UNCHANGED <<inst, devices, forgotten>>
    /\ UNCHANGED <<maps, mappings, persisted, removed>>

(* ... and then remove the mapping itself.                                 *)
Unmap(t) ==
    /\ th[t].pc = "unmap"
    /\ mappings' = mappings \ th[t].at
    /\ th' = [th EXCEPT ![t].pc = "teardown", ![t].at = {}]
    /\ UNCHANGED <<maps, inst, devices, forgotten, persisted, removed>>

AfterClose(t) ==
    CASE th[t].op = "remove" -> "persist"
      [] th[t].op = "disable" -> "setcfg"
      [] OTHER -> "config"

(* The instance that was taken is closed, if there was one.                *)
Close(t) ==
    /\ th[t].pc = "close"
    /\ inst' = IF th[t].own = NoInst THEN inst
               ELSE [inst EXCEPT ![th[t].own] = IF @.state = "open" THEN Closed
                                                ELSE [@ EXCEPT !.state = "twice"]]
    /\ th' = [th EXCEPT ![t].pc = AfterClose(t), ![t].own = NoInst]
    /\ UNCHANGED <<maps, stores, persisted, removed>>

(* After a start the instance to restore the mappings on is looked up.     *)
Fresh(t) ==
    /\ th[t].pc = "fresh"
    /\ LET i == instances[th[t].id]
           label == IF i = NoInst THEN AfterRestore(t) ELSE "list"
       IN  th' = [th EXCEPT ![t] = IF label = "idle" THEN Idle
                                   ELSE [@ EXCEPT !.pc = label, !.own = i]]
    /\ UNCHANGED <<maps, inst, stores, persisted, removed>>

(* CreateBridge fails if the entity is bridged already.                    *)
AddMapping(t) ==
    /\ th[t].pc = "create"
    /\ \/ th[t].todo \subseteq mappings /\ Goto(t, "idle") /\ UNCHANGED mappings
       \/ /\ ~(th[t].todo \subseteq mappings)
          /\ mappings' = mappings \cup th[t].todo
          /\ Goto(t, "restore")
    /\ UNCHANGED <<maps, inst, devices, forgotten, persisted, removed>>

(* Deliberate bug: a mapping that was created earlier is subscribed and    *)
(* not announced.                                                          *)
RestoreSubscribes(t) ==
    /\ th[t].pc = "restore"
    /\ \/ \E b \in th[t].todo :
            /\ devices' = [devices EXCEPT ![b] = IF th[t].op = "create" THEN "active" ELSE @]
            /\ inst' = [inst EXCEPT ![th[t].own].subs = @ \cup {b}]
            /\ forgotten' = forgotten \ {b}
            /\ th' = [th EXCEPT ![t].todo = @ \ {b}]
       \/ /\ th[t].todo = {}
          /\ th' = [th EXCEPT ![t] = IF AfterRestore(t) = "idle" THEN Idle
                                     ELSE [@ EXCEPT !.pc = AfterRestore(t), !.own = NoInst]]
          /\ UNCHANGED <<devices, forgotten, inst>>
    /\ UNCHANGED <<maps, mappings, persisted, removed>>

(* restoreMappings announces the devices that are missing and subscribes   *)
(* each mapping; CreateBridge announces its device in any case.            *)
Restore(t) ==
    /\ th[t].pc = "restore"
    /\ \/ \E b \in th[t].todo :
            /\ devices' = [devices EXCEPT ![b] =
                  IF @ = "absent" \/ th[t].op = "create" THEN "active" ELSE @]
            /\ inst' = [inst EXCEPT ![th[t].own].subs = @ \cup {b}]
            /\ forgotten' = forgotten \ {b}
            /\ th' = [th EXCEPT ![t].todo = @ \ {b}]
       \/ /\ th[t].todo = {}
          /\ th' = [th EXCEPT ![t] = IF AfterRestore(t) = "idle" THEN Idle
                                     ELSE [@ EXCEPT !.pc = AfterRestore(t), !.own = NoInst]]
          /\ UNCHANGED <<devices, forgotten, inst>>
    /\ UNCHANGED <<maps, mappings, persisted, removed>>

(* SetEnabled stores the toggled config (again).                           *)
SetConfig(t) ==
    /\ th[t].pc = "setcfg"
    /\ configs' = [configs EXCEPT ![th[t].id] = th[t].cfg]
    /\ Goto(t, "persist")
    /\ UNCHANGED <<mode, instances, waiting, inst, stores, persisted, removed>>

(* persistConfigs lists the configs under the lock ...                     *)
persistConfigs(t) ==
    /\ th[t].pc = "persist"
    /\ th' = [th EXCEPT ![t].pc = "write", ![t].save = configs]
    /\ UNCHANGED <<maps, inst, stores, persisted, removed>>

(* ... and writes the list after the unlock.                               *)
WriteConfigs(t) ==
    /\ th[t].pc = "write"
    /\ persisted' = th[t].save
    /\ Goto(t, "idle")
    /\ UNCHANGED <<maps, inst, stores, removed>>

-----------------------------------------------------------------------------
(* The supervisor, the daemon's start and what happens around them *)

(* The enabled plugins that do not run and whose backoff has elapsed.      *)
Due == {p \in Plugins : configs[p] = "enabled" /\ instances[p] = NoInst /\ p \notin waiting}

superviseOnce ==
    /\ th[Supervisor].pc = "idle"
    /\ Due # {}
    /\ "overlap" \in mode.liberties
         \/ (Up /\ \A p \in Due : \A t \in Threads : ~Busy(t, p))
    /\ th' = [th EXCEPT ![Supervisor] =
         [Idle EXCEPT !.op = "supervise", !.pc = "next", !.list = Due,
                      !.id = CHOOSE p \in Due : TRUE,
                      !.save = [p \in Plugins |-> IF p \in Due THEN configs[p] ELSE "none"]]]
    /\ UNCHANGED <<maps, inst, stores, persisted, removed>>

(* The next config of the list: Start only remembers a disabled one.       *)
NextConfig(t) ==
    /\ th[t].pc = "next"
    /\ \E p \in th[t].list :
         LET off == th[t].op = "boot" /\ th[t].save[p] = "disabled"
         IN  /\ configs' = IF off THEN [configs EXCEPT ![p] = "disabled"] ELSE configs
             /\ th' = [th EXCEPT ![t].list = @ \ {p}, ![t].id = p, ![t].own = NoInst,
                                 ![t].cfg = th[t].save[p], ![t].save[p] = "none",
                                 ![t].pc = IF off THEN "next" ELSE "config"]
    /\ UNCHANGED <<mode, instances, waiting, inst, stores, persisted, removed>>

(* The list is done: the supervisor waits for its next tick, Start goes on *)
(* with the persisted mappings.                                            *)
ListDone(t) ==
    /\ th[t].pc = "next" /\ th[t].list = {}
    /\ th' = [th EXCEPT ![t] = IF th[t].op = "boot"
                               THEN [Idle EXCEPT !.op = "boot", !.pc = "revive", !.todo = mappings]
                               ELSE Idle]
    /\ UNCHANGED <<maps, inst, stores, persisted, removed>>

(* Start announces the device of each mapping that has a config, running   *)
(* or not, marks it inactive or subscribes it.                             *)
Revive ==
    /\ th[Main].pc = "revive"
    /\ \E b \in th[Main].todo :
         LET i == instances[b[1]]
         IN  /\ devices' = [devices EXCEPT ![b] =
                  IF i = NoInst
                  THEN IF configs[b[1]] = "none" THEN @ ELSE "inactive"
                  ELSE IF @ = "absent" THEN "active" ELSE @]
             /\ inst' = IF i = NoInst THEN inst ELSE [inst EXCEPT ![i].subs = @ \cup {b}]
             /\ th' = [th EXCEPT ![Main].todo = @ \ {b}]
    /\ UNCHANGED <<maps, mappings, forgotten, persisted, removed>>

(* Only now do the vDC API and the HTTP server start.                      *)
Started ==
    /\ th[Main].pc = "revive" /\ th[Main].todo = {}
    /\ Goto(Main, "idle")
    /\ UNCHANGED <<maps, inst, stores, persisted, removed>>

BackoffElapses(p) ==
    /\ p \in waiting
    /\ waiting' = waiting \ {p}
    /\ UNCHANGED <<mode, configs, instances, inst, stores, persisted, th, removed>>

(* An instance reports that a device it is subscribed to came or went.     *)
Report(i, b) ==
    /\ inst[i].state = "open" /\ b \in inst[i].subs
    /\ devices[b] # "absent"
    /\ \E s \in {"active", "inactive"} : devices' = [devices EXCEPT ![b] = s]
    /\ UNCHANGED <<maps, inst, mappings, forgotten, persisted, th, removed>>

(* The vDSM's remove: the device goes, and nobody tells the registry.      *)
removeDeviceByDSUID(b) ==
    /\ Up
    /\ devices[b] # "absent"
    /\ devices' = [devices EXCEPT ![b] = "absent"]
    /\ forgotten' = forgotten \cup {b}
    /\ UNCHANGED <<maps, inst, mappings, persisted, th, removed>>

(* The process crashes, or ends after Stop has closed the instances, and   *)
(* starts again: plugins.json and the mappings survive.                    *)
Restarted ==
    /\ "crash" \in mode.liberties
    /\ configs' = Nobody
    /\ instances' = [p \in Plugins |-> NoInst]
    /\ waiting' = {}
    /\ inst' = ClosedInsts
    /\ devices' = [b \in Bridges |-> "absent"]
    /\ th' = Booting(persisted)
    /\ removed' = {p \in removed : persisted[p] = "none" /\ mappings \cap BridgesOf(p) = {}}
    /\ forgotten' = {}
    /\ UNCHANGED <<mode, mappings, persisted>>

-----------------------------------------------------------------------------

Request(t) ==
    \/ \E p \in Plugins : \/ AddPlugin(t, p) \/ RemovePlugin(t, p) \/ UpdatePlugin(t, p)
                           \/ RestartPlugin(t, p) \/ SetEnabled(t, p)
    \/ \E b \in Bridges : CreateBridge(t, b) \/ RemoveBridge(t, b)

startPlugin(t) == Retain(t) \/ InitOk(t) \/ InitFails(t) \/ Register(t)

Step(t) ==
    \/ startPlugin(t)
    \/ Take(t) \/ List(t) \/ Unsubscribe(t) \/ Teardown(t) \/ Unmap(t) \/ Close(t)
    \/ Fresh(t) \/ AddMapping(t) \/ Restore(t) \/ SetConfig(t)
    \/ persistConfigs(t) \/ WriteConfigs(t)
    \/ NextConfig(t) \/ ListDone(t)

Next ==
    \/ \E t \in Admins : Request(t)
    \/ \E t \in Threads : Step(t)
    \/ superviseOnce \/ Revive \/ Started
    \/ \E p \in Plugins : BackoffElapses(p)
    \/ \E i \in Insts : \E b \in Bridges : Report(i, b)
    \/ \E b \in Bridges : removeDeviceByDSUID(b)
    \/ Restarted

Spec == Init /\ [][Next]_vars

-----------------------------------------------------------------------------
(* Properties *)

(* Whatever operations overlap, an instance that the registry hands out is *)
(* an open one of that plugin, and none is closed twice: operations take   *)
(* it out of the map before they close it.  Where they come one by one for *)
(* each plugin, no instance is leaked either: an open one is registered,   *)
(* or an operation still holds it.                                         *)
InstancesAreAccounted ==
    /\ TypeOK
    /\ \A p \in Plugins : instances[p] # NoInst =>
         inst[instances[p]].state = "open" /\ inst[instances[p]].plugin = p
    /\ OneByOne => \A i \in Insts : inst[i].state = "open" =>
         (\E p \in Plugins : instances[p] = i) \/ (\E t \in Threads : th[t].own = i)

(* RemovePlugin (registry.go:462) "stops a plugin and removes any of its   *)
(* bridge mappings": until it is added again nothing of it is left, and    *)
(* the supervisor does not bring it back.  A plugin that is disabled does  *)
(* not run (registry.go:573, "Disabling stops the running instance").      *)
StoppedStaysDown ==
    OneByOne =>
        /\ \A p \in removed : Quiet(p) =>
             /\ configs[p] = "none" /\ instances[p] = NoInst
             /\ \A b \in BridgesOf(p) : b \notin mappings /\ devices[b] = "absent"
        /\ \A p \in Plugins : Quiet(p) /\ configs[p] = "disabled" => instances[p] = NoInst

(* A mapping whose plugin is configured has a device, whether or not the   *)
(* plugin runs and however often it failed (the comment in Start,          *)
(* registry.go:257: it "must still have its device exist"), with the one   *)
(* exception host.go:21 names, a device the vDSM has removed; and that one *)
(* is back after the next start of the plugin or of the daemon, whatever   *)
(* the vDSM removed in between (registry.go:304: "Subscribe alone is not   *)
(* enough").  A bridged device has a mapping.                              *)
MappedHasDevice ==
    OneByOne =>
        \A p \in Plugins : Quiet(p) =>
            \A b \in BridgesOf(p) :
                /\ b \in mappings /\ configs[p] # "none" =>
                       devices[b] # "absent" \/ b \in forgotten
                /\ devices[b] # "absent" => b \in mappings

(* The running instance is subscribed to each mapping of its plugin and to *)
(* nothing else, after any restarts, updates and supervised starts.        *)
RunningIsSubscribed ==
    OneByOne =>
        \A p \in Plugins : Quiet(p) /\ instances[p] # NoInst =>
            inst[instances[p]].subs = mappings \cap BridgesOf(p)

(* A plugin that is enabled and does not run, say because its Init failed, *)
(* is started in the end, unless someone disables or removes it.           *)
FailedRestarts ==
    \A p \in Plugins :
        configs[p] = "enabled" ~> configs[p] # "enabled" \/ instances[p] # NoInst
=============================================================================
