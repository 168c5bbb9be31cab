------------------------- MODULE PluginRegistryProofs -------------------------
(***************************************************************************)
(* What is proved of the plugin registry for any number of plugins,        *)
(* entities, goroutines and instances: whatever operations overlap, an     *)
(* instance is closed once and never while it is registered; and where     *)
(* they come one by one for each plugin, nothing is left of what was       *)
(* removed, and devices, mappings and subscriptions agree.                 *)
(***************************************************************************)
EXTENDS PluginRegistry, TLAPS

Starting == {"config", "init", "register"}

(* Each operation takes its own steps, with a config of its own.           *)
Shape(r) ==
    /\ r.pc = "idle" => r = Idle
    /\ r.pc = "idle" <=> r.op = "none"
    /\ r.op = "add" => r.pc \in Starting \cup {"persist", "write"}
    /\ r.op = "remove" => r.pc \in {"list", "teardown", "unmap", "close", "persist", "write"}
    /\ r.op = "update" => r.pc \in Starting \cup {"take", "close", "fresh", "list", "restore",
                                                  "persist", "write"}
    /\ r.op = "restart" => r.pc \in Starting \cup {"take", "close", "fresh", "list", "restore"}
    /\ r.op = "enable" => r.pc \in Starting \cup {"fresh", "list", "restore", "setcfg",
                                                  "persist", "write"}
    /\ r.op = "disable" => r.pc \in {"take", "list", "unsub", "close", "setcfg", "persist", "write"}
    /\ r.op = "create" => r.pc \in {"create", "restore"}
    /\ r.op = "unbridge" => r.pc \in {"teardown", "unmap"}
    /\ r.op = "supervise" => r.pc \in Starting \cup {"next", "fresh", "list", "restore"}
    /\ r.op = "boot" => r.pc \in Starting \cup {"next", "revive"}
    /\ r.op \in {"add", "update", "restart", "enable"} => r.cfg = "enabled"
    /\ r.op = "disable" => r.cfg = "disabled"
    /\ r.pc = "config" => r.cfg = "enabled"
    /\ r.pc \in {"config", "init", "setcfg", "persist", "write"} => r.own = NoInst
    /\ r.pc = "register" => r.own # NoInst
    /\ r.pc \in {"create", "restore"} => r.own # NoInst
    /\ r.pc = "list" /\ r.op \notin {"remove", "disable"} => r.own # NoInst
    /\ r.pc = "create" => \E b \in BridgesOf(r.id) : r.todo = {b}
    /\ r.pc # "revive" => r.todo \subseteq BridgesOf(r.id)
    /\ r.todo # {} => r.pc \in {"unsub", "teardown", "unmap", "create", "restore", "revive"}
    /\ r.at \subseteq BridgesOf(r.id)
    /\ r.at # {} => r.pc = "unmap"
    /\ r.list # {} => r.op \in {"supervise", "boot"} /\ r.pc # "revive"
    /\ r.pc # "next" => r.id \notin r.list
    /\ \A p \in r.list : r.save[p] # "none" /\ (r.op = "supervise" => r.save[p] = "enabled")

ShapeOf(t) ==
    /\ Shape(th[t])
    /\ th[t].op = "boot" => t = Main
    /\ th[t].op = "supervise" => t = Supervisor
    /\ t = Main => th[t].op \in {"none", "boot"}
    /\ t = Supervisor => th[t].op \in {"none", "supervise"}
Shapes == \A t \in Threads : ShapeOf(t)

(* A goroutine holds the instance it has opened and has yet to register,   *)
(* or has taken out of the map and has yet to close.                       *)
Holding(t) ==
    /\ th[t].own # NoInst
    /\ \/ th[t].pc \in {"register", "unsub", "close"}
       \/ th[t].op = "remove"
       \/ th[t].op = "disable" /\ th[t].pc = "list"

(* An instance is open and in one place while it is registered or held.    *)
Held ==
    /\ \A p \in Plugins : instances[p] # NoInst =>
         inst[instances[p]].state = "open" /\ inst[instances[p]].plugin = p
    /\ \A t \in Threads : Holding(t) =>
         /\ inst[th[t].own].state = "open"
         /\ \A p \in Plugins : instances[p] # th[t].own
         /\ \A s \in Threads : Holding(s) /\ th[s].own = th[t].own => s = t
    /\ \A t \in Threads : th[t].pc = "register" => inst[th[t].own].plugin = th[t].id

(* From here on requests come one by one for each plugin: nobody works on  *)
(* another's plugin, and nobody before the daemon is up.                   *)
Apart ==
    /\ \A s, t \in Threads, p \in Plugins : Busy(s, p) /\ Busy(t, p) => s = t
    /\ \A t \in Threads : ~Up => t = Main \/ th[t].pc = "idle"

(* An open instance is registered or held.                                 *)
NoLeak ==
    \A i \in Insts : inst[i].state = "open" =>
        (\E p \in Plugins : instances[p] = i) \/ (\E t \in Threads : Holding(t) /\ th[t].own = i)

(* The goroutine has taken the plugin down, or found it down, and has yet  *)
(* to register an instance.                                                *)
Down(t) ==
    \/ th[t].pc \in Starting \cup {"unsub", "close"}
    \/ th[t].op = "remove"
    \/ th[t].op = "disable" /\ th[t].pc \in {"list", "setcfg"}

(* The goroutine works with the instance that is registered, if any.       *)
Using(t) ==
    \/ th[t].pc \in {"create", "restore"}
    \/ th[t].pc = "list" /\ th[t].op \notin {"remove", "disable"}
    \/ th[t].op = "unbridge"

(* The operations find the plugin as they left it.                         *)
Left(t) ==
    LET p == th[t].id IN
    /\ Down(t) => instances[p] = NoInst
    /\ Using(t) => th[t].own = instances[p]
    /\ th[t].pc = "fresh" => instances[p] # NoInst
    /\ th[t].pc \in {"init", "register"} => configs[p] = "enabled"
    /\ th[t].op = "enable" /\ th[t].pc = "setcfg" => configs[p] = "enabled"
    /\ th[t].op = "disable" /\ th[t].pc # "take" => configs[p] = "disabled"
    /\ th[t].op \in {"update", "restart", "enable", "disable", "supervise"} /\ th[t].pc # "next"
         => configs[p] # "none"
    /\ th[t].pc = "register" => inst[th[t].own].subs = {}
    /\ \A q \in th[t].list :
         instances[q] = NoInst /\ (th[t].op = "supervise" => configs[q] = "enabled")
    /\ th[t].op = "add" => mappings \cap BridgesOf(p) = {}
    /\ th[t].pc \in {"restore", "revive"} => th[t].todo \subseteq mappings
    /\ th[t].pc = "unmap" => \A b \in th[t].at : devices[b] = "absent"
    /\ p \in removed => \/ th[t].op = "remove" \/ th[t].pc \in {"idle", "next", "revive"}
                        \/ th[t].op = "add" /\ th[t].pc = "config"
    /\ th[t].list \cap removed = {}

Plans == \A t \in Threads : Left(t)
Enabled == \A p \in Plugins : instances[p] # NoInst => configs[p] = "enabled"

(* A bridge that an operation has yet to subscribe or to unmap.            *)
OwedBy(t, b) ==
    \/ th[t].pc \in {"restore", "revive"} /\ b \in th[t].todo
    \/ th[t].pc = "fresh" /\ th[t].id = b[1]
    \/ th[t].pc = "list" /\ th[t].op \notin {"remove", "disable"} /\ th[t].id = b[1]
    \/ th[t].pc = "unmap" /\ b \in th[t].at
    \/ th[t].op = "boot" /\ th[t].pc # "revive"
Owed(b) == \E t \in Threads : OwedBy(t, b)

(* Devices, mappings and subscriptions agree but for what is owed.         *)
AgreeOn(b) ==
    /\ devices[b] # "absent" => b \in mappings
    /\ b \in mappings /\ configs[b[1]] # "none" =>
           devices[b] # "absent" \/ b \in forgotten \/ Owed(b)
    /\ instances[b[1]] # NoInst =>
         (b \in inst[instances[b[1]]].subs <=> b \in mappings /\ ~Owed(b))
Agree ==
    /\ \A b \in Bridges : AgreeOn(b)
    /\ \A p \in Plugins : instances[p] # NoInst => \A b \in inst[instances[p]].subs : b[1] = p

(* What is removed has no config and no instance, and no mapping but those *)
(* that RemovePlugin has yet to tear down.                                 *)
UnmapsYet(t, b) ==
    /\ th[t].op = "remove" /\ th[t].id = b[1]
    /\ \/ th[t].pc = "list"
       \/ th[t].pc \in {"teardown", "unmap"} /\ b \in th[t].todo \cup th[t].at
Remains(b) == \E t \in Threads : UnmapsYet(t, b)
Gone ==
    \A p \in removed :
        /\ configs[p] = "none" /\ instances[p] = NoInst
        /\ \A b \in mappings \cap BridgesOf(p) : Remains(b)

Orderly == Apart /\ NoLeak /\ Plans /\ Enabled /\ Agree /\ Gone

IInv == TypeOK /\ Shapes /\ Held /\ (OneByOne => Orderly)

-----------------------------------------------------------------------------
(* Bridges of a plugin.                                                    *)
LEMMA BridgesAre ==
    /\ \A b \in Bridges : b[1] \in Plugins
    /\ \A p \in Plugins : BridgesOf(p) \subseteq Bridges
    /\ \A p \in Plugins, b \in Bridges : b \in BridgesOf(p) <=> b[1] = p
BY DEF Bridges, BridgesOf

(* What a goroutine at rest and a closed instance are.                     *)
LEMMA IdleFields ==
    /\ SomePlugin \in Plugins /\ Nobody \in Saved
    /\ Idle \in Thread /\ Shape(Idle)
    /\ Idle.op = "none" /\ Idle.pc = "idle" /\ Idle.own = NoInst /\ Idle.cfg = "enabled"
    /\ Idle.todo = {} /\ Idle.at = {} /\ Idle.list = {} /\ Idle.save = Nobody
    /\ Idle.id = SomePlugin
<1>1. SomePlugin \in Plugins
  BY RegistryAssumption DEF SomePlugin
<1>2. Nobody \in Saved
  BY DEF Nobody, Saved
<1>3. /\ Idle.op = "none" /\ Idle.pc = "idle" /\ Idle.own = NoInst /\ Idle.cfg = "enabled"
      /\ Idle.todo = {} /\ Idle.at = {} /\ Idle.list = {} /\ Idle.save = Nobody
      /\ Idle.id = SomePlugin
  BY DEF Idle
<1>4. Idle \in Thread
  BY <1>1, <1>2 DEF Idle, Thread, Ops, Labels, Configs
<1>5. Shape(Idle)
  BY <1>3 DEF Shape, Starting
<1>6. QED
  BY <1>1, <1>2, <1>3, <1>4, <1>5

(* Which operations take a step.                                           *)
LEMMA OpsOf ==
    ASSUME NEW r \in Thread, Shape(r)
    PROVE  /\ r.pc = "take" => r.op \in {"update", "restart", "disable"}
           /\ r.pc = "list" =>
                  r.op \in {"remove", "update", "restart", "enable", "disable", "supervise"}
           /\ r.pc = "unsub" => r.op = "disable"
           /\ r.pc \in {"teardown", "unmap"} => r.op \in {"remove", "unbridge"}
           /\ r.pc = "close" => r.op \in {"remove", "update", "restart", "disable"}
           /\ r.pc \in Starting =>
                  r.op \in {"add", "update", "restart", "enable", "supervise", "boot"}
           /\ r.pc = "fresh" => r.op \in {"update", "restart", "enable", "supervise"}
           /\ r.pc = "create" => r.op = "create"
           /\ r.pc = "restore" => r.op \in {"create", "update", "restart", "enable", "supervise"}
           /\ r.pc = "setcfg" => r.op \in {"enable", "disable"}
           /\ r.pc \in {"persist", "write"} =>
                  r.op \in {"add", "remove", "update", "enable", "disable"}
           /\ r.pc = "next" => r.op \in {"supervise", "boot"}
           /\ r.pc = "revive" => r.op = "boot"
BY DEF Shape, Starting, Thread, Ops

(* A step of one goroutine leaves the others what they were.               *)
LEMMA Others ==
    ASSUME NEW t \in Threads, \A s \in Threads \ {t} : th'[s] = th[s]
    PROVE  \A s \in Threads \ {t} :
             /\ ShapeOf(s)' <=> ShapeOf(s)
             /\ Holding(s)' <=> Holding(s)
             /\ \A p \in Plugins : Busy(s, p)' <=> Busy(s, p)
             /\ \A b \in Bridges : OwedBy(s, b)' <=> OwedBy(s, b)
             /\ \A b \in Bridges : UnmapsYet(s, b)' <=> UnmapsYet(s, b)
<1> SUFFICES ASSUME NEW s \in Threads, s # t
             PROVE  /\ ShapeOf(s)' <=> ShapeOf(s)
                    /\ Holding(s)' <=> Holding(s)
                    /\ \A p \in Plugins : Busy(s, p)' <=> Busy(s, p)
                    /\ \A b \in Bridges : OwedBy(s, b)' <=> OwedBy(s, b)
                    /\ \A b \in Bridges : UnmapsYet(s, b)' <=> UnmapsYet(s, b)
  OBVIOUS
<1>1. th'[s] = th[s]
  OBVIOUS
<1>2. ShapeOf(s)' <=> ShapeOf(s)
  BY <1>1 DEF ShapeOf
<1>3. Holding(s)' <=> Holding(s)
  BY <1>1 DEF Holding
<1>4. \A p \in Plugins : Busy(s, p)' <=> Busy(s, p)
  BY <1>1 DEF Busy
<1>5. \A b \in Bridges : OwedBy(s, b)' <=> OwedBy(s, b)
  BY <1>1 DEF OwedBy
<1>6. \A b \in Bridges : UnmapsYet(s, b)' <=> UnmapsYet(s, b)
  BY <1>1 DEF UnmapsYet
<1>7. QED
  BY <1>2, <1>3, <1>4, <1>5, <1>6

(* A goroutine owes nothing of a plugin it is not busy with, the daemon's  *)
(* start apart.                                                            *)
LEMMA NotBusy ==
    ASSUME TypeOK, Shapes, NEW s \in Threads, NEW p \in Plugins, ~Busy(s, p), th[s].op # "boot"
    PROVE  \A b \in Bridges : b[1] = p => ~OwedBy(s, b) /\ ~UnmapsYet(s, b)
<1>1. th[s] \in Thread /\ ShapeOf(s)
  BY DEF TypeOK, Shapes
<1>2. th[s].todo # {} \/ th[s].at # {} \/ th[s].op = "remove" \/ th[s].pc \in {"fresh", "list"}
        => th[s].pc # "idle"
  BY <1>1, IdleFields DEF ShapeOf, Shape
<1>3. th[s].pc # "revive"
  BY <1>1 DEF ShapeOf, Shape, Starting, Thread, Ops
<1>4. th[s].todo \subseteq BridgesOf(th[s].id) /\ th[s].at \subseteq BridgesOf(th[s].id)
  BY <1>1, <1>3 DEF ShapeOf, Shape
<1>5. th[s].id \in Plugins
  BY <1>1 DEF Thread
<1>6. QED
  BY <1>2, <1>3, <1>4, <1>5, BridgesAre DEF Busy, OwedBy, UnmapsYet

(* Where operations come one by one, whoever is busy with a plugin is      *)
(* alone with it.                                                          *)
LEMMA Alone ==
    ASSUME TypeOK, Shapes, Apart, NEW t \in Threads, th[t].pc # "idle"
    PROVE  /\ \A s \in Threads \ {t} : th[s].op # "boot"
           /\ \A p \in Plugins : Busy(t, p) => \A s \in Threads \ {t} : ~Busy(s, p)
           /\ t = Main \/ Up
<1>1. ~Up => t = Main
  BY DEF Apart
<1>2. Up => th[Main].op = "none"
  BY IdleFields DEF Up, Shapes, ShapeOf, Shape, Threads
<1>3. \A s \in Threads : th[s].op = "boot" => s = Main
  BY DEF Shapes, ShapeOf
<1>4. QED
  BY <1>1, <1>2, <1>3 DEF Apart

(* What is owed of a plugin that only one goroutine is busy with.          *)
LEMMA Sole ==
    ASSUME TypeOK, Shapes, NEW t \in Threads, NEW p \in Plugins,
           \A s \in Threads \ {t} : ~Busy(s, p) /\ th[s].op # "boot" /\ th'[s] = th[s]
    PROVE  /\ \A b \in Bridges : b[1] = p =>
                /\ Owed(b) <=> OwedBy(t, b)
                /\ Owed(b)' <=> OwedBy(t, b)'
                /\ Remains(b) <=> UnmapsYet(t, b)
                /\ Remains(b)' <=> UnmapsYet(t, b)'
           /\ \A b \in Bridges : (OwedBy(t, b)' <=> OwedBy(t, b)) => (Owed(b)' <=> Owed(b))
           /\ \A b \in Bridges : (UnmapsYet(t, b) => UnmapsYet(t, b)') => (Remains(b) =>
                  Remains(b)')
<1>1. \A s \in Threads \ {t} : \A b \in Bridges :
        /\ OwedBy(s, b)' <=> OwedBy(s, b)
        /\ UnmapsYet(s, b)' <=> UnmapsYet(s, b)
        /\ b[1] = p => ~OwedBy(s, b) /\ ~UnmapsYet(s, b)
  BY Others, NotBusy
<1>2. QED
  BY <1>1 DEF Owed, Remains

(* What another goroutine relies on stays when only the plugin p, which it *)
(* is not busy with, changes.                                              *)
LEMMA LeftStays ==
    ASSUME TypeOK, Shapes, NEW s \in Threads, NEW p \in Plugins, Left(s), ~Busy(s, p),
           th'[s] = th[s], th[s].op # "boot",
           \A q \in Plugins \ {p} : instances'[q] = instances[q] /\ configs'[q] = configs[q],
           removed' \subseteq removed \cup {p},
           th[s].pc = "register" => inst'[th[s].own].subs = inst[th[s].own].subs,
           \A b \in Bridges : b[1] # p => (b \in mappings' <=> b \in mappings),
           \A b \in Bridges : b[1] # p /\ devices[b] = "absent" => devices'[b] = "absent"
    PROVE  Left(s)'
<1>1. th[s] \in Thread /\ ShapeOf(s)
  BY DEF TypeOK, Shapes
<1>2. CASE th[s].pc = "idle"
  <2>1. th[s] = Idle
    BY <1>1, <1>2 DEF ShapeOf, Shape
  <2>2. QED
    BY <2>1, IdleFields DEF Left, Down, Using, Starting
<1>3. CASE th[s].pc # "idle"
  <2>1. th[s].id \in Plugins \ {p} /\ th[s].list \subseteq Plugins \ {p}
    BY <1>1, <1>3 DEF Busy, Thread
  <2>2. th[s].pc # "revive"
    BY <1>1 DEF ShapeOf, Shape, Starting, Thread, Ops
  <2>3. /\ instances'[th[s].id] = instances[th[s].id]
        /\ configs'[th[s].id] = configs[th[s].id]
        /\ th[s].id \in removed' => th[s].id \in removed
        /\ \A q \in th[s].list : instances'[q] = instances[q] /\ configs'[q] = configs[q]
        /\ th[s].list \cap removed' \subseteq th[s].list \cap removed
    BY <2>1
  <2>4. \A b \in BridgesOf(th[s].id) :
          /\ b \in mappings' <=> b \in mappings
          /\ devices[b] = "absent" => devices'[b] = "absent"
    BY <2>1, BridgesAre
  <2>5. th[s].todo \subseteq BridgesOf(th[s].id) /\ th[s].at \subseteq BridgesOf(th[s].id)
    BY <1>1, <2>2 DEF ShapeOf, Shape
  <2>6. QED
    BY <2>2, <2>3, <2>4, <2>5 DEF Left, Down, Using, Starting
<1>4. QED
  BY <1>2, <1>3

(* A step that changes only what one goroutine is about.                   *)
LEMMA ThreadMoves ==
    ASSUME IInv, NEW t \in Threads, \A s \in Threads \ {t} : th'[s] = th[s],
           UNCHANGED <<mode, configs, instances, inst, stores, removed>>,
           TypeOK', ShapeOf(t)',
           Holding(t)' => Holding(t) /\ th'[t].own = th[t].own,
           th'[t].pc # "register",
           OneByOne =>
             /\ \A p \in Plugins : Busy(t, p)' => Busy(t, p) \/ \A s \in Threads : ~Busy(s, p)
             /\ ~Up' => ~Up
             /\ t = Main \/ Up
             /\ Holding(t) => Holding(t)'
             /\ Left(t)'
             /\ \A b \in mappings : OwedBy(t, b)' <=> OwedBy(t, b)
             /\ \A b \in mappings : UnmapsYet(t, b) => UnmapsYet(t, b)'
    PROVE  IInv'
<1>1. UNCHANGED <<mode, configs, instances, inst, mappings, devices, forgotten, removed>>
  BY DEF stores
<1>2. \A s \in Threads \ {t} :
        /\ ShapeOf(s)' <=> ShapeOf(s)
        /\ Holding(s)' <=> Holding(s)
        /\ \A p \in Plugins : Busy(s, p)' <=> Busy(s, p)
        /\ \A b \in Bridges : OwedBy(s, b)' <=> OwedBy(s, b)
        /\ \A b \in Bridges : UnmapsYet(s, b)' <=> UnmapsYet(s, b)
  BY Others
<1>3. Shapes'
  BY <1>2 DEF IInv, Shapes
<1>4. Held'
  BY <1>1, <1>2 DEF IInv, Held
<1>5. ASSUME OneByOne
      PROVE  Orderly'
  <2>1. Apart'
    BY <1>2, <1>5 DEF IInv, Orderly, Apart, Up
  <2>2. NoLeak'
    BY <1>1, <1>2, <1>5 DEF IInv, Orderly, NoLeak
  <2>3. \A s \in Threads \ {t} : Left(s)'
    BY <1>1, <1>5 DEF IInv, Orderly, Plans, Left, Down, Using
  <2>4. Plans'
    BY <1>5, <2>3 DEF Plans
  <2>5. Enabled'
    BY <1>1, <1>5 DEF IInv, Orderly, Enabled
  <2>6. mappings \subseteq Bridges
    BY DEF IInv, TypeOK
  <2>7. \A b \in mappings : Owed(b)' <=> Owed(b)
    BY <1>2, <1>5, <2>6 DEF Owed
  <2>8. \A b \in mappings : Remains(b) => Remains(b)'
    BY <1>2, <1>5, <2>6 DEF Remains
  <2>9. \A b \in Bridges : AgreeOn(b)'
    BY <1>1, <1>5, <2>7 DEF IInv, Orderly, Agree, AgreeOn
  <2>10. Agree'
    BY <1>1, <1>5, <2>9 DEF IInv, Orderly, Agree
  <2>11. Gone'
    BY <1>1, <1>5, <2>8 DEF IInv, Orderly, Gone
  <2>12. QED
    BY <2>1, <2>2, <2>4, <2>5, <2>10, <2>11 DEF Orderly
<1>6. OneByOne' <=> OneByOne
  BY <1>1 DEF OneByOne
<1>7. QED
  BY <1>3, <1>4, <1>5, <1>6 DEF IInv

(* A goroutine that returns.                                               *)
LEMMA Returns ==
    ASSUME IInv, NEW t \in Threads, th[t].pc # "idle", th' = [th EXCEPT ![t] = Idle],
           UNCHANGED <<mode, configs, instances, inst, stores, removed>>,
           persisted' \in Saved, waiting' \subseteq Plugins,
           ~(OneByOne /\ Holding(t)),
           OneByOne => \A b \in mappings : ~OwedBy(t, b) /\ ~UnmapsYet(t, b)
    PROVE  IInv'
<1>1. /\ th' \in [Threads -> Thread]
      /\ \A s \in Threads \ {t} : th'[s] = th[s]
      /\ th'[t] = Idle
  BY IdleFields DEF IInv, TypeOK
<1>2. TypeOK'
  BY <1>1 DEF IInv, TypeOK, stores
<1>3. ShapeOf(t)'
  BY <1>1, IdleFields DEF ShapeOf
<1>4. ~Holding(t)' /\ th'[t].pc # "register"
  BY <1>1, IdleFields DEF Holding
<1>5. \A p \in Plugins : ~Busy(t, p)'
  BY <1>1, IdleFields DEF Busy
<1>6. ~Up' => ~Up
  BY <1>1, IdleFields DEF Up
<1>7. Left(t)'
  BY <1>1, IdleFields DEF Left, Down, Using, Starting
<1>8. \A b \in mappings : ~OwedBy(t, b)'
  BY <1>1, IdleFields DEF OwedBy
<1>9. OneByOne => t = Main \/ Up
  BY Alone DEF IInv, Orderly
<1>10. QED
  BY <1>1, <1>2, <1>3, <1>4, <1>5, <1>6, <1>7, <1>8, <1>9, ThreadMoves

(* An HTTP request begins.                                                 *)
LEMMA Begins ==
    ASSUME IInv, NEW t \in Admins, NEW p \in Plugins, MayBegin(t, p), NEW r \in Thread,
           th' = [th EXCEPT ![t] = r], UNCHANGED <<maps, inst, stores, persisted, removed>>,
           r.id = p, r.list = {}, Shape(r), r.op \notin {"none", "boot", "supervise"},
           r.pc \in {"config", "take", "create", "teardown"},
           r.own = NoInst \/ r.op \in {"create", "unbridge"},
           OneByOne => Left(t)'
    PROVE  IInv'
<1>1. /\ th' \in [Threads -> Thread]
      /\ \A s \in Threads \ {t} : th'[s] = th[s]
      /\ th'[t] = r /\ t \in Threads /\ t # Main /\ t # Supervisor
      /\ th[t] = Idle /\ Up
  BY RegistryAssumption DEF IInv, TypeOK, Shapes, ShapeOf, Shape, MayBegin, Threads
<1>2. UNCHANGED <<mode, configs, instances, inst, stores, removed>>
  BY DEF maps
<1>3. TypeOK'
  BY <1>1 DEF IInv, TypeOK, maps, stores
<1>4. ShapeOf(t)'
  BY <1>1 DEF ShapeOf
<1>5. ~Holding(t)' /\ ~Holding(t) /\ th'[t].pc # "register"
  BY <1>1, IdleFields DEF Holding
<1>6. OneByOne => \A q \in Plugins : Busy(t, q)' => \A s \in Threads : ~Busy(s, q)
  BY <1>1 DEF Busy, MayBegin, OneByOne
<1>7. ~Up' => ~Up
  BY <1>1, RegistryAssumption DEF Up, Threads
<1>8. \A b \in mappings : ~OwedBy(t, b) /\ ~OwedBy(t, b)' /\ ~UnmapsYet(t, b)
  BY <1>1, IdleFields DEF OwedBy, UnmapsYet
<1>9. QED
  BY <1>1, <1>2, <1>3, <1>4, <1>5, <1>6, <1>7, <1>8, ThreadMoves

(* What holds of a plugin that nobody is busy with.                        *)
LEMMA AtRest ==
    ASSUME IInv, OneByOne, NEW p \in Plugins, Up, \A s \in Threads : ~Busy(s, p)
    PROVE  /\ \A b \in Bridges : b[1] = p => ~Owed(b) /\ ~Remains(b)
           /\ p \in removed => configs[p] = "none" /\ instances[p] = NoInst
                               /\ mappings \cap BridgesOf(p) = {}
<1>1. \A s \in Threads : th[s].op # "boot"
  BY IdleFields DEF IInv, Shapes, ShapeOf, Shape, Up
<1>2. \A s \in Threads, b \in Bridges : b[1] = p => ~OwedBy(s, b) /\ ~UnmapsYet(s, b)
  BY <1>1, NotBusy DEF IInv
<1>3. \A b \in Bridges : b[1] = p => ~Owed(b) /\ ~Remains(b)
  BY <1>2 DEF Owed, Remains
<1>4. QED
  BY <1>3, BridgesAre DEF IInv, Orderly, Gone

(* AddPlugin begins with the config of a plugin that does not run.         *)
LEMMA AddPluginKeeps ==
    ASSUME IInv, NEW t \in Admins, NEW p \in Plugins, AddPlugin(t, p)
    PROVE  IInv'
<1> DEFINE r == [Idle EXCEPT !.op = "add", !.pc = "config", !.id = p, !.cfg = "enabled"]
<1>1. /\ p \in Plugins /\ MayBegin(t, p) /\ instances[p] = NoInst
      /\ OneByOne => configs[p] = "none" /\ mappings \cap BridgesOf(p) = {}
      /\ th' = [th EXCEPT ![t] = r]
      /\ UNCHANGED <<maps, inst, stores, persisted, removed>>
  BY BridgesAre DEF AddPlugin, OneByOne, Begin, Idle
<1>2. /\ r \in Thread /\ r.op = "add" /\ r.pc = "config" /\ r.id = p /\ r.cfg = "enabled"
      /\ r.own = NoInst /\ r.todo = {} /\ r.at = {} /\ r.list = {}
  <2>1. NoInst \in Insts \cup {NoInst} /\ {} \subseteq Bridges
    BY <1>1 DEF IInv, TypeOK
  <2>2. Idle \in Thread /\ Idle.at = {} /\ Idle.list = {} /\ Idle.todo = {} /\ Idle.own = NoInst
    BY IdleFields
  <2>3. r = [Idle EXCEPT !.op = "add", !.pc = "config", !.id = p, !.cfg = "enabled",
                          !.own = NoInst, !.todo = {}]
    BY <2>2, IdleFields DEF Thread
  <2>4. QED
    BY <1>1, <2>1, <2>2, <2>3 DEF Thread, Ops, Labels, Configs
<1> HIDE DEF r
<1>3. Shape(r)
  BY <1>1, <1>2, BridgesAre DEF Shape, Starting
<1>4. /\ th'[t] = r /\ UNCHANGED <<configs, instances, inst, mappings, devices, forgotten, removed>>
  BY <1>1 DEF IInv, TypeOK, Threads, maps, stores
<1>5. ASSUME OneByOne
      PROVE  Left(t)'
  <2>1. \A s \in Threads : ~Busy(s, p)
    BY <1>1, <1>5 DEF MayBegin, OneByOne
  <2>2. Up
    BY <1>1 DEF MayBegin
  <2>3. instances[p] = NoInst /\ mappings \cap BridgesOf(p) = {}
    BY <1>1, <1>5, <2>1, <2>2, AtRest, BridgesAre DEF IInv, Orderly, Enabled, OneByOne
  <2>4. QED
    BY <1>2, <1>4, <2>3 DEF Left, Down, Using, Starting
<1>6. QED
  BY <1>1, <1>2, <1>3, <1>5, Begins

(* UpdatePlugin begins with taking the instance.                           *)
LEMMA UpdatePluginKeeps ==
    ASSUME IInv, NEW t \in Admins, NEW p \in Plugins, UpdatePlugin(t, p)
    PROVE  IInv'
<1> DEFINE r == [Idle EXCEPT !.op = "update", !.pc = "take", !.id = p, !.cfg = "enabled"]
<1>1. /\ p \in Plugins /\ MayBegin(t, p) /\ configs[p] # "none"
      /\ th' = [th EXCEPT ![t] = r]
      /\ UNCHANGED <<maps, inst, stores, persisted, removed>>
  BY BridgesAre DEF UpdatePlugin, Begin, Idle
<1>2. /\ r \in Thread /\ r.op = "update" /\ r.pc = "take" /\ r.id = p /\ r.cfg = "enabled"
      /\ r.own = NoInst /\ r.todo = {} /\ r.at = {} /\ r.list = {}
  <2>1. NoInst \in Insts \cup {NoInst} /\ {} \subseteq Bridges
    BY <1>1 DEF IInv, TypeOK
  <2>2. Idle \in Thread /\ Idle.at = {} /\ Idle.list = {} /\ Idle.todo = {} /\ Idle.own = NoInst
    BY IdleFields
  <2>3. r = [Idle EXCEPT !.op = "update", !.pc = "take", !.id = p, !.cfg = "enabled",
                          !.own = NoInst, !.todo = {}]
    BY <2>2, IdleFields DEF Thread
  <2>4. QED
    BY <1>1, <2>1, <2>2, <2>3 DEF Thread, Ops, Labels, Configs
<1> HIDE DEF r
<1>3. Shape(r)
  BY <1>1, <1>2, BridgesAre DEF Shape, Starting
<1>4. /\ th'[t] = r /\ UNCHANGED <<configs, instances, inst, mappings, devices, forgotten, removed>>
  BY <1>1 DEF IInv, TypeOK, Threads, maps, stores
<1>5. ASSUME OneByOne
      PROVE  Left(t)'
  <2>1. \A s \in Threads : ~Busy(s, p)
    BY <1>1, <1>5 DEF MayBegin, OneByOne
  <2>2. Up
    BY <1>1 DEF MayBegin
  <2>3. configs[p] # "none" /\ p \notin removed
    BY <1>1, <1>5, <2>1, <2>2, AtRest, BridgesAre DEF IInv, Orderly, Enabled, OneByOne
  <2>4. QED
    BY <1>2, <1>4, <2>3 DEF Left, Down, Using, Starting
<1>6. QED
  BY <1>1, <1>2, <1>3, <1>5, Begins

(* So does a restart.                                                      *)
LEMMA RestartPluginKeeps ==
    ASSUME IInv, NEW t \in Admins, NEW p \in Plugins, RestartPlugin(t, p)
    PROVE  IInv'
<1> DEFINE r == [Idle EXCEPT !.op = "restart", !.pc = "take", !.id = p, !.cfg = "enabled"]
<1>1. /\ p \in Plugins /\ MayBegin(t, p) /\ configs[p] = "enabled"
      /\ th' = [th EXCEPT ![t] = r]
      /\ UNCHANGED <<maps, inst, stores, persisted, removed>>
  BY BridgesAre DEF RestartPlugin, Begin, Idle
<1>2. /\ r \in Thread /\ r.op = "restart" /\ r.pc = "take" /\ r.id = p /\ r.cfg = "enabled"
      /\ r.own = NoInst /\ r.todo = {} /\ r.at = {} /\ r.list = {}
  <2>1. NoInst \in Insts \cup {NoInst} /\ {} \subseteq Bridges
    BY <1>1 DEF IInv, TypeOK
  <2>2. Idle \in Thread /\ Idle.at = {} /\ Idle.list = {} /\ Idle.todo = {} /\ Idle.own = NoInst
    BY IdleFields
  <2>3. r = [Idle EXCEPT !.op = "restart", !.pc = "take", !.id = p, !.cfg = "enabled",
                          !.own = NoInst, !.todo = {}]
    BY <2>2, IdleFields DEF Thread
  <2>4. QED
    BY <1>1, <2>1, <2>2, <2>3 DEF Thread, Ops, Labels, Configs
<1> HIDE DEF r
<1>3. Shape(r)
  BY <1>1, <1>2, BridgesAre DEF Shape, Starting
<1>4. /\ th'[t] = r /\ UNCHANGED <<configs, instances, inst, mappings, devices, forgotten, removed>>
  BY <1>1 DEF IInv, TypeOK, Threads, maps, stores
<1>5. ASSUME OneByOne
      PROVE  Left(t)'
  <2>1. \A s \in Threads : ~Busy(s, p)
    BY <1>1, <1>5 DEF MayBegin, OneByOne
  <2>2. Up
    BY <1>1 DEF MayBegin
  <2>3. configs[p] # "none" /\ p \notin removed
    BY <1>1, <1>5, <2>1, <2>2, AtRest, BridgesAre DEF IInv, Orderly, Enabled, OneByOne
  <2>4. QED
    BY <1>2, <1>4, <2>3 DEF Left, Down, Using, Starting
<1>6. QED
  BY <1>1, <1>2, <1>3, <1>5, Begins

(* Enabling begins with the config of a disabled plugin.                   *)
LEMMA EnableKeeps ==
    ASSUME IInv, NEW t \in Admins, NEW p \in Plugins, MayBegin(t, p), configs[p] = "disabled",
           Begin(t, p, "enable", "config", "enabled"), UNCHANGED <<maps, inst, stores, persisted,
           removed>>
    PROVE  IInv'
<1> DEFINE r == [Idle EXCEPT !.op = "enable", !.pc = "config", !.id = p, !.cfg = "enabled"]
<1>1. /\ p \in Plugins /\ MayBegin(t, p) /\ configs[p] = "disabled"
      /\ th' = [th EXCEPT ![t] = r]
      /\ UNCHANGED <<maps, inst, stores, persisted, removed>>
  BY BridgesAre DEF Begin, Begin, Idle
<1>2. /\ r \in Thread /\ r.op = "enable" /\ r.pc = "config" /\ r.id = p /\ r.cfg = "enabled"
      /\ r.own = NoInst /\ r.todo = {} /\ r.at = {} /\ r.list = {}
  <2>1. NoInst \in Insts \cup {NoInst} /\ {} \subseteq Bridges
    BY <1>1 DEF IInv, TypeOK
  <2>2. Idle \in Thread /\ Idle.at = {} /\ Idle.list = {} /\ Idle.todo = {} /\ Idle.own = NoInst
    BY IdleFields
  <2>3. r = [Idle EXCEPT !.op = "enable", !.pc = "config", !.id = p, !.cfg = "enabled",
                          !.own = NoInst, !.todo = {}]
    BY <2>2, IdleFields DEF Thread
  <2>4. QED
    BY <1>1, <2>1, <2>2, <2>3 DEF Thread, Ops, Labels, Configs
<1> HIDE DEF r
<1>3. Shape(r)
  BY <1>1, <1>2, BridgesAre DEF Shape, Starting
<1>4. /\ th'[t] = r /\ UNCHANGED <<configs, instances, inst, mappings, devices, forgotten, removed>>
  BY <1>1 DEF IInv, TypeOK, Threads, maps, stores
<1>5. ASSUME OneByOne
      PROVE  Left(t)'
  <2>1. \A s \in Threads : ~Busy(s, p)
    BY <1>1, <1>5 DEF MayBegin, OneByOne
  <2>2. Up
    BY <1>1 DEF MayBegin
  <2>3. instances[p] = NoInst /\ configs[p] # "none" /\ p \notin removed
    BY <1>1, <1>5, <2>1, <2>2, AtRest, BridgesAre DEF IInv, Orderly, Enabled, OneByOne
  <2>4. QED
    BY <1>2, <1>4, <2>3 DEF Left, Down, Using, Starting
<1>6. QED
  BY <1>1, <1>2, <1>3, <1>5, Begins

(* Disabling begins with taking the instance.                              *)
LEMMA DisableKeeps ==
    ASSUME IInv, NEW t \in Admins, NEW p \in Plugins, MayBegin(t, p), configs[p] = "enabled",
           Begin(t, p, "disable", "take", "disabled"), UNCHANGED <<maps, inst, stores, persisted,
           removed>>
    PROVE  IInv'
<1> DEFINE r == [Idle EXCEPT !.op = "disable", !.pc = "take", !.id = p, !.cfg = "disabled"]
<1>1. /\ p \in Plugins /\ MayBegin(t, p) /\ configs[p] = "enabled"
      /\ th' = [th EXCEPT ![t] = r]
      /\ UNCHANGED <<maps, inst, stores, persisted, removed>>
  BY BridgesAre DEF Begin, Begin, Idle
<1>2. /\ r \in Thread /\ r.op = "disable" /\ r.pc = "take" /\ r.id = p /\ r.cfg = "disabled"
      /\ r.own = NoInst /\ r.todo = {} /\ r.at = {} /\ r.list = {}
  <2>1. NoInst \in Insts \cup {NoInst} /\ {} \subseteq Bridges
    BY <1>1 DEF IInv, TypeOK
  <2>2. Idle \in Thread /\ Idle.at = {} /\ Idle.list = {} /\ Idle.todo = {} /\ Idle.own = NoInst
    BY IdleFields
  <2>3. r = [Idle EXCEPT !.op = "disable", !.pc = "take", !.id = p, !.cfg = "disabled",
                          !.own = NoInst, !.todo = {}]
    BY <2>2, IdleFields DEF Thread
  <2>4. QED
    BY <1>1, <2>1, <2>2, <2>3 DEF Thread, Ops, Labels, Configs
<1> HIDE DEF r
<1>3. Shape(r)
  BY <1>1, <1>2, BridgesAre DEF Shape, Starting
<1>4. /\ th'[t] = r /\ UNCHANGED <<configs, instances, inst, mappings, devices, forgotten, removed>>
  BY <1>1 DEF IInv, TypeOK, Threads, maps, stores
<1>5. ASSUME OneByOne
      PROVE  Left(t)'
  <2>1. \A s \in Threads : ~Busy(s, p)
    BY <1>1, <1>5 DEF MayBegin, OneByOne
  <2>2. Up
    BY <1>1 DEF MayBegin
  <2>3. configs[p] # "none" /\ p \notin removed
    BY <1>1, <1>5, <2>1, <2>2, AtRest, BridgesAre DEF IInv, Orderly, Enabled, OneByOne
  <2>4. QED
    BY <1>2, <1>4, <2>3 DEF Left, Down, Using, Starting
<1>6. QED
  BY <1>1, <1>2, <1>3, <1>5, Begins

(* CreateBridge looks up the instance.                                     *)
LEMMA CreateBridgeKeeps ==
    ASSUME IInv, NEW t \in Admins, NEW b \in Bridges, CreateBridge(t, b)
    PROVE  IInv'
<1> DEFINE r == [Idle EXCEPT !.op = "create", !.pc = "create", !.id = b[1],
                           !.own = instances[b[1]], !.todo = {b}]
<1>1. /\ b[1] \in Plugins /\ MayBegin(t, b[1]) /\ instances[b[1]] # NoInst
      /\ th' = [th EXCEPT ![t] = r]
      /\ UNCHANGED <<maps, inst, stores, persisted, removed>>
  BY BridgesAre DEF CreateBridge, Begin, Idle
<1>2. /\ r \in Thread /\ r.op = "create" /\ r.pc = "create" /\ r.id = b[1] /\ r.cfg = "enabled"
      /\ r.own = instances[b[1]] /\ r.todo = {b} /\ r.at = {} /\ r.list = {}
  <2>1. instances[b[1]] \in Insts \cup {NoInst} /\ {b} \subseteq Bridges
    BY <1>1 DEF IInv, TypeOK
  <2>2. Idle \in Thread /\ Idle.at = {} /\ Idle.list = {} /\ Idle.todo = {} /\ Idle.own = NoInst
    BY IdleFields
  <2>3. r = [Idle EXCEPT !.op = "create", !.pc = "create", !.id = b[1], !.cfg = "enabled",
                          !.own = instances[b[1]], !.todo = {b}]
    BY <2>2, IdleFields DEF Thread
  <2>4. QED
    BY <1>1, <2>1, <2>2, <2>3 DEF Thread, Ops, Labels, Configs
<1> HIDE DEF r
<1>3. Shape(r)
  BY <1>1, <1>2, BridgesAre DEF Shape, Starting
<1>4. /\ th'[t] = r /\ UNCHANGED <<configs, instances, inst, mappings, devices, forgotten, removed>>
  BY <1>1 DEF IInv, TypeOK, Threads, maps, stores
<1>5. ASSUME OneByOne
      PROVE  Left(t)'
  <2>1. \A s \in Threads : ~Busy(s, b[1])
    BY <1>1, <1>5 DEF MayBegin, OneByOne
  <2>2. Up
    BY <1>1 DEF MayBegin
  <2>3. instances[b[1]] # NoInst /\ b[1] \notin removed
    BY <1>1, <1>5, <2>1, <2>2, AtRest, BridgesAre DEF IInv, Orderly, Enabled, OneByOne
  <2>4. QED
    BY <1>2, <1>4, <2>3 DEF Left, Down, Using, Starting
<1>6. QED
  BY <1>1, <1>2, <1>3, <1>5, Begins

(* RemoveBridge does too, if there is one.                                 *)
LEMMA RemoveBridgeKeeps ==
    ASSUME IInv, NEW t \in Admins, NEW b \in Bridges, RemoveBridge(t, b)
    PROVE  IInv'
<1> DEFINE r == [Idle EXCEPT !.op = "unbridge", !.pc = "teardown", !.id = b[1],
                           !.own = instances[b[1]], !.todo = {b}]
<1>1. /\ b[1] \in Plugins /\ MayBegin(t, b[1]) /\ b \in mappings
      /\ th' = [th EXCEPT ![t] = r]
      /\ UNCHANGED <<maps, inst, stores, persisted, removed>>
  BY BridgesAre DEF RemoveBridge, Begin, Idle
<1>2. /\ r \in Thread /\ r.op = "unbridge" /\ r.pc = "teardown" /\ r.id = b[1] /\ r.cfg = "enabled"
      /\ r.own = instances[b[1]] /\ r.todo = {b} /\ r.at = {} /\ r.list = {}
  <2>1. instances[b[1]] \in Insts \cup {NoInst} /\ {b} \subseteq Bridges
    BY <1>1 DEF IInv, TypeOK
  <2>2. Idle \in Thread /\ Idle.at = {} /\ Idle.list = {} /\ Idle.todo = {} /\ Idle.own = NoInst
    BY IdleFields
  <2>3. r = [Idle EXCEPT !.op = "unbridge", !.pc = "teardown", !.id = b[1], !.cfg = "enabled",
                          !.own = instances[b[1]], !.todo = {b}]
    BY <2>2, IdleFields DEF Thread
  <2>4. QED
    BY ZenonT(60), <1>1, <2>1, <2>2, <2>3 DEF Thread, Ops, Labels, Configs
<1> HIDE DEF r
<1>3. Shape(r)
  BY <1>1, <1>2, BridgesAre DEF Shape, Starting
<1>4. /\ th'[t] = r /\ UNCHANGED <<configs, instances, inst, mappings, devices, forgotten, removed>>
  BY <1>1 DEF IInv, TypeOK, Threads, maps, stores
<1>5. ASSUME OneByOne
      PROVE  Left(t)'
  <2>1. \A s \in Threads : ~Busy(s, b[1])
    BY <1>1, <1>5 DEF MayBegin, OneByOne
  <2>2. Up
    BY <1>1 DEF MayBegin
  <2>3. b \in mappings /\ b[1] \notin removed
    BY <1>1, <1>5, <2>1, <2>2, AtRest, BridgesAre DEF IInv, Orderly, Enabled, OneByOne
  <2>4. QED
    BY <1>2, <1>4, <2>3 DEF Left, Down, Using, Starting
<1>6. QED
  BY <1>1, <1>2, <1>3, <1>5, Begins

(* A failed start ends the request.                                        *)
LEMMA InitFailsReturns ==
    ASSUME IInv, NEW t \in Threads, InitFails(t), th[t].op \notin {"supervise", "boot"}
    PROVE  IInv'
<1>1. /\ t \in Threads /\ th[t] \in Thread /\ ShapeOf(t)
      /\ th[t].pc = "init"
      /\ th[t].op \notin {"boot", "remove"}
      /\ th' = [th EXCEPT ![t] = Idle]
      /\ UNCHANGED <<mode, configs, instances, inst, stores, removed>>
      /\ persisted' \in Saved /\ waiting' \subseteq Plugins
  BY OpsOf DEF IInv, TypeOK, Shapes, ShapeOf, Threads, maps, Goto, Thread, Return, InitFails,
     Starting
<1>2. ~(OneByOne /\ Holding(t))
  BY <1>1 DEF Holding, ShapeOf, Shape
<1>3. OneByOne => \A b \in mappings : ~OwedBy(t, b) /\ ~UnmapsYet(t, b)
  BY <1>1 DEF OwedBy, UnmapsYet, ShapeOf, Shape
<1>4. QED
  BY <1>1, <1>2, <1>3, Returns

(* UpdatePlugin finds the plugin removed meanwhile.                        *)
LEMMA TakeGoneReturns ==
    ASSUME IInv, NEW t \in Threads, Take(t), th[t].op = "update", instances[th[t].id] = NoInst,
           configs[th[t].id] = "none", th' = [th EXCEPT ![t] = Idle]
    PROVE  IInv'
<1>1. /\ t \in Threads /\ th[t] \in Thread /\ ShapeOf(t)
      /\ th[t].pc = "take"
      /\ th[t].op = "update"
      /\ th' = [th EXCEPT ![t] = Idle]
      /\ UNCHANGED <<mode, configs, instances, inst, stores, removed>>
      /\ persisted' \in Saved /\ waiting' \subseteq Plugins
  BY OpsOf DEF IInv, TypeOK, Shapes, ShapeOf, Threads, maps, Goto, Thread, Take
<1>2. ~(OneByOne /\ Holding(t))
  BY <1>1 DEF Holding, ShapeOf, Shape
<1>3. OneByOne => \A b \in mappings : ~OwedBy(t, b) /\ ~UnmapsYet(t, b)
  BY <1>1 DEF OwedBy, UnmapsYet, ShapeOf, Shape
<1>4. QED
  BY <1>1, <1>2, <1>3, Returns

(* RemoveBridge is done.                                                   *)
LEMMA TeardownReturns ==
    ASSUME IInv, NEW t \in Threads, Teardown(t), th[t].op = "unbridge", th[t].todo = {}
    PROVE  IInv'
<1>1. /\ t \in Threads /\ th[t] \in Thread /\ ShapeOf(t)
      /\ th[t].pc = "teardown"
      /\ th[t].op = "unbridge"
      /\ th' = [th EXCEPT ![t] = Idle]
      /\ UNCHANGED <<mode, configs, instances, inst, stores, removed>>
      /\ persisted' \in Saved /\ waiting' \subseteq Plugins
  BY OpsOf DEF IInv, TypeOK, Shapes, ShapeOf, Threads, maps, Goto, Thread, Teardown, stores
<1>2. ~(OneByOne /\ Holding(t))
  BY <1>1 DEF Holding, ShapeOf, Shape
<1>3. OneByOne => \A b \in mappings : ~OwedBy(t, b) /\ ~UnmapsYet(t, b)
  BY <1>1 DEF OwedBy, UnmapsYet, ShapeOf, Shape
<1>4. QED
  BY <1>1, <1>2, <1>3, Returns

(* CreateBridge finds the entity bridged.                                  *)
LEMMA AddMappingReturns ==
    ASSUME IInv, NEW t \in Threads, AddMapping(t), th[t].todo \subseteq mappings
    PROVE  IInv'
<1>1. /\ t \in Threads /\ th[t] \in Thread /\ ShapeOf(t)
      /\ th[t].pc = "create"
      /\ th[t].op = "create"
      /\ th' = [th EXCEPT ![t] = Idle]
      /\ UNCHANGED <<mode, configs, instances, inst, stores, removed>>
      /\ persisted' \in Saved /\ waiting' \subseteq Plugins
  BY OpsOf DEF IInv, TypeOK, Shapes, ShapeOf, Threads, maps, Goto, Thread, AddMapping, stores
<1>2. ~(OneByOne /\ Holding(t))
  BY <1>1 DEF Holding, ShapeOf, Shape
<1>3. OneByOne => \A b \in mappings : ~OwedBy(t, b) /\ ~UnmapsYet(t, b)
  BY <1>1 DEF OwedBy, UnmapsYet, ShapeOf, Shape
<1>4. QED
  BY <1>1, <1>2, <1>3, Returns

(* All mappings are restored and the request is done.                      *)
LEMMA RestoreReturns ==
    ASSUME IInv, NEW t \in Threads, Restore(t), th[t].todo = {}, AfterRestore(t) = "idle"
    PROVE  IInv'
<1>1. /\ t \in Threads /\ th[t] \in Thread /\ ShapeOf(t)
      /\ th[t].pc = "restore"
      /\ th[t].todo = {}
      /\ th[t].op \notin {"boot", "remove"}
      /\ th' = [th EXCEPT ![t] = Idle]
      /\ UNCHANGED <<mode, configs, instances, inst, stores, removed>>
      /\ persisted' \in Saved /\ waiting' \subseteq Plugins
  BY OpsOf DEF IInv, TypeOK, Shapes, ShapeOf, Threads, maps, Goto, Thread, Restore, stores
<1>2. ~(OneByOne /\ Holding(t))
  BY <1>1 DEF Holding, ShapeOf, Shape
<1>3. OneByOne => \A b \in mappings : ~OwedBy(t, b) /\ ~UnmapsYet(t, b)
  BY <1>1 DEF OwedBy, UnmapsYet, ShapeOf, Shape
<1>4. QED
  BY <1>1, <1>2, <1>3, Returns

(* A plugin restarted by one request has been stopped by another.          *)
LEMMA FreshReturns ==
    ASSUME IInv, NEW t \in Threads, Fresh(t), instances[th[t].id] = NoInst, AfterRestore(t) = "idle"
    PROVE  IInv'
<1>1. /\ t \in Threads /\ th[t] \in Thread /\ ShapeOf(t)
      /\ th[t].pc = "fresh"
      /\ th[t].op \notin {"boot", "remove"}
      /\ ~OneByOne
      /\ th' = [th EXCEPT ![t] = Idle]
      /\ UNCHANGED <<mode, configs, instances, inst, stores, removed>>
      /\ persisted' \in Saved /\ waiting' \subseteq Plugins
  BY OpsOf DEF IInv, TypeOK, Shapes, ShapeOf, Threads, maps, Goto, Thread, Fresh, Orderly, Plans,
     Left
<1>2. ~(OneByOne /\ Holding(t))
  BY <1>1 DEF Holding, ShapeOf, Shape
<1>3. OneByOne => \A b \in mappings : ~OwedBy(t, b) /\ ~UnmapsYet(t, b)
  BY <1>1 DEF OwedBy, UnmapsYet, ShapeOf, Shape
<1>4. QED
  BY <1>1, <1>2, <1>3, Returns

(* plugins.json is written.                                                *)
LEMMA WriteReturns ==
    ASSUME IInv, NEW t \in Threads, WriteConfigs(t)
    PROVE  IInv'
<1>1. /\ t \in Threads /\ th[t] \in Thread /\ ShapeOf(t)
      /\ th[t].pc = "write"
      /\ th[t].op # "boot"
      /\ th[t].own = NoInst
      /\ th' = [th EXCEPT ![t] = Idle]
      /\ UNCHANGED <<mode, configs, instances, inst, stores, removed>>
      /\ persisted' \in Saved /\ waiting' \subseteq Plugins
  BY OpsOf DEF IInv, TypeOK, Shapes, ShapeOf, Threads, maps, Goto, Thread, WriteConfigs, Shape
<1>2. ~(OneByOne /\ Holding(t))
  BY <1>1 DEF Holding, ShapeOf, Shape
<1>3. OneByOne => \A b \in mappings : ~OwedBy(t, b) /\ ~UnmapsYet(t, b)
  BY <1>1 DEF OwedBy, UnmapsYet, ShapeOf, Shape
<1>4. QED
  BY <1>1, <1>2, <1>3, Returns

(* The supervisor is done with its list.                                   *)
LEMMA SupervisorReturns ==
    ASSUME IInv, NEW t \in Threads, ListDone(t), th[t].op = "supervise"
    PROVE  IInv'
<1>1. /\ t \in Threads /\ th[t] \in Thread /\ ShapeOf(t)
      /\ th[t].pc = "next"
      /\ th[t].op = "supervise"
      /\ th' = [th EXCEPT ![t] = Idle]
      /\ UNCHANGED <<mode, configs, instances, inst, stores, removed>>
      /\ persisted' \in Saved /\ waiting' \subseteq Plugins
  BY OpsOf DEF IInv, TypeOK, Shapes, ShapeOf, Threads, maps, Goto, Thread, ListDone
<1>2. ~(OneByOne /\ Holding(t))
  BY <1>1 DEF Holding, ShapeOf, Shape
<1>3. OneByOne => \A b \in mappings : ~OwedBy(t, b) /\ ~UnmapsYet(t, b)
  BY <1>1 DEF OwedBy, UnmapsYet, ShapeOf, Shape
<1>4. QED
  BY <1>1, <1>2, <1>3, Returns

(* The daemon is up.                                                       *)
LEMMA StartedReturns ==
    ASSUME IInv, Started
    PROVE  IInv'
<1>1. /\ Main \in Threads /\ th[Main] \in Thread /\ ShapeOf(Main)
      /\ th[Main].pc = "revive"
      /\ th[Main].op = "boot"
      /\ th[Main].todo = {}
      /\ th' = [th EXCEPT ![Main] = Idle]
      /\ UNCHANGED <<mode, configs, instances, inst, stores, removed>>
      /\ persisted' \in Saved /\ waiting' \subseteq Plugins
  BY OpsOf DEF IInv, TypeOK, Shapes, ShapeOf, Threads, maps, Goto, Thread, Started
<1>2. ~(OneByOne /\ Holding(Main))
  BY <1>1 DEF Holding, ShapeOf, Shape
<1>3. OneByOne => \A b \in mappings : ~OwedBy(Main, b) /\ ~UnmapsYet(Main, b)
  BY <1>1 DEF OwedBy, UnmapsYet, ShapeOf, Shape
<1>4. QED
  BY <1>1, <1>2, <1>3, Returns

(* A plugin is right but for what the one goroutine that is busy with it   *)
(* has yet to do.                                                          *)
RightBut(t, p) ==
    /\ instances[p] # NoInst =>
         configs[p] = "enabled" /\ \A b \in inst[instances[p]].subs : b[1] = p
    /\ \A b \in BridgesOf(p) :
         /\ devices[b] # "absent" => b \in mappings
         /\ b \in mappings /\ configs[p] # "none" =>
                devices[b] # "absent" \/ b \in forgotten \/ OwedBy(t, b)
         /\ instances[p] # NoInst =>
              (b \in inst[instances[p]].subs <=> b \in mappings /\ ~OwedBy(t, b))
         /\ p \in removed /\ b \in mappings => UnmapsYet(t, b)
    /\ p \in removed => configs[p] = "none" /\ instances[p] = NoInst

(* So it is found by a goroutine that nobody else meets at the plugin.     *)
LEMMA FindsRight ==
    ASSUME IInv, OneByOne, NEW t \in Threads, NEW p \in Plugins,
           \A s \in Threads \ {t} : ~Busy(s, p) /\ th[s].op # "boot"
    PROVE  RightBut(t, p) /\ Left(t)
<1>1. \A s \in Threads \ {t}, b \in BridgesOf(p) : ~OwedBy(s, b) /\ ~UnmapsYet(s, b)
  BY NotBusy, BridgesAre DEF IInv
<1>2. \A b \in BridgesOf(p) : (Owed(b) <=> OwedBy(t, b)) /\ (Remains(b) <=> UnmapsYet(t, b))
  BY <1>1 DEF Owed, Remains
<1>3. \A b \in BridgesOf(p) : b \in Bridges /\ b[1] = p
  BY BridgesAre
<1>4. Left(t)
  BY DEF IInv, Orderly, Plans
<1>5. \A b \in BridgesOf(p) : AgreeOn(b)
  BY <1>3 DEF IInv, Orderly, Agree
<1>6. instances[p] # NoInst =>
         configs[p] = "enabled" /\ \A b \in inst[instances[p]].subs : b[1] = p
  BY DEF IInv, Orderly, Agree, Enabled
<1>7. p \in removed => /\ configs[p] = "none" /\ instances[p] = NoInst
                       /\ \A b \in mappings \cap BridgesOf(p) : Remains(b)
  BY DEF IInv, Orderly, Gone
<1>8. QED
  BY <1>2, <1>3, <1>4, <1>5, <1>6, <1>7 DEF RightBut, AgreeOn

(* And if it leaves the plugin so, and everything else alone, all is well. *)
LEMMA LeavesRight ==
    ASSUME IInv, NEW t \in Threads, NEW p \in Plugins, \A s \in Threads \ {t} : th'[s] = th[s],
           mode' = mode, TypeOK', ShapeOf(t)', Held',
           OneByOne =>
             /\ NoLeak'
             /\ \A s \in Threads \ {t} : ~Busy(s, p) /\ th[s].op # "boot"
             /\ t = Main \/ Up
             /\ ~Up' => ~Up
             /\ \A q \in Plugins : Busy(t, q)' => Busy(t, q) \/ q = p
             /\ \A q \in Plugins \ {p} :
                  /\ instances'[q] = instances[q] /\ configs'[q] = configs[q]
                  /\ q \in removed' <=> q \in removed
                  /\ instances[q] # NoInst => inst'[instances[q]].subs = inst[instances[q]].subs
             /\ \A s \in Threads \ {t} :
                  th[s].pc = "register" => inst'[th[s].own].subs = inst[th[s].own].subs
             /\ \A b \in Bridges : b[1] # p =>
                  /\ b \in mappings' <=> b \in mappings
                  /\ devices'[b] = devices[b]
                  /\ b \in forgotten' <=> b \in forgotten
                  /\ OwedBy(t, b)' <=> OwedBy(t, b)
                  /\ UnmapsYet(t, b) => UnmapsYet(t, b)'
             /\ Left(t)' /\ RightBut(t, p)'
    PROVE  IInv'
<1>1. \A s \in Threads \ {t} :
        /\ ShapeOf(s)' <=> ShapeOf(s)
        /\ Holding(s)' <=> Holding(s)
        /\ \A q \in Plugins : Busy(s, q)' <=> Busy(s, q)
  BY Others
<1>2. Shapes'
  BY <1>1 DEF IInv, Shapes
<1>3. ASSUME OneByOne
      PROVE  Orderly'
  <2>1. /\ \A b \in Bridges : b[1] = p =>
             (Owed(b)' <=> OwedBy(t, b)') /\ (Remains(b)' <=> UnmapsYet(t, b)')
        /\ \A b \in Bridges : b[1] # p =>
             (Owed(b)' <=> Owed(b)) /\ (Remains(b) => Remains(b)')
    BY <1>3, Sole DEF IInv
  <2>2. Apart'
    <3>1. \A r, s \in Threads, q \in Plugins : Busy(r, q)' /\ Busy(s, q)' => r = s
      BY <1>1, <1>3 DEF IInv, Orderly, Apart
    <3>2. \A s \in Threads : ~Up' => s = Main \/ th'[s].pc = "idle"
      BY <1>3 DEF IInv, Orderly, Apart
    <3>3. QED
      BY <3>1, <3>2 DEF Apart
  <2>3. \A s \in Threads \ {t} : Left(s)'
    <3>1. SUFFICES ASSUME NEW s \in Threads, s # t PROVE Left(s)'
      OBVIOUS
    <3>2. Left(s)
      BY <1>3 DEF IInv, Orderly, Plans
    <3>3. removed' \subseteq removed \cup {p}
      BY <1>3 DEF TypeOK
    <3>4. QED
      BY <1>3, <3>1, <3>2, <3>3, LeftStays DEF IInv
  <2>4. Plans'
    BY <1>3, <2>3 DEF Plans
  <2>5. Enabled'
    BY <1>3 DEF IInv, Orderly, Enabled, RightBut
  <2>6. \A b \in Bridges : AgreeOn(b)'
    <3>1. SUFFICES ASSUME NEW b \in Bridges PROVE AgreeOn(b)'
      OBVIOUS
    <3>2. b[1] \in Plugins /\ AgreeOn(b)
      BY <1>3, BridgesAre DEF IInv, Orderly, Agree
    <3>3. CASE b[1] = p
      <4>1. b \in BridgesOf(p)
        BY <3>3, BridgesAre
      <4>2. QED
        BY <1>3, <2>1, <3>3, <4>1 DEF RightBut, AgreeOn
    <3>4. CASE b[1] # p
      <4>1. /\ instances'[b[1]] = instances[b[1]] /\ configs'[b[1]] = configs[b[1]]
            /\ instances[b[1]] # NoInst =>
                 inst'[instances[b[1]]].subs = inst[instances[b[1]]].subs
            /\ b \in mappings' <=> b \in mappings
            /\ devices'[b] = devices[b]
            /\ b \in forgotten' <=> b \in forgotten
            /\ Owed(b)' <=> Owed(b)
        BY <1>3, <2>1, <3>2, <3>4
      <4>2. QED
        BY <3>2, <4>1 DEF AgreeOn
    <3>5. QED
      BY <3>3, <3>4
  <2>7. \A q \in Plugins : instances'[q] # NoInst => \A b \in inst'[instances'[q]].subs : b[1] = q
    BY <1>3 DEF IInv, Orderly, Agree, RightBut
  <2>8. Agree'
    BY <2>6, <2>7 DEF Agree
  <2>9. Gone'
    <3>1. SUFFICES ASSUME NEW q \in removed'
                   PROVE  /\ configs'[q] = "none" /\ instances'[q] = NoInst
                          /\ \A b \in mappings' \cap BridgesOf(q) : Remains(b)'
      BY DEF Gone, BridgesOf
    <3>2. q \in Plugins
      BY DEF TypeOK
    <3>3. \A b \in BridgesOf(q) : b \in Bridges /\ b[1] = q
      BY <3>2, BridgesAre
    <3>4. CASE q = p
      BY <1>3, <2>1, <3>3, <3>4 DEF RightBut
    <3>5. CASE q # p
      <4>1. /\ q \in removed /\ configs'[q] = configs[q] /\ instances'[q] = instances[q]
            /\ \A b \in BridgesOf(q) : b \in mappings' <=> b \in mappings
        BY <1>3, <3>2, <3>3, <3>5
      <4>2. QED
        BY <1>3, <2>1, <3>3, <3>5, <4>1 DEF IInv, Orderly, Gone
    <3>6. QED
      BY <3>4, <3>5
  <2>10. QED
    BY <1>3, <2>2, <2>4, <2>5, <2>8, <2>9 DEF Orderly
<1>4. OneByOne' <=> OneByOne
  BY DEF OneByOne
<1>5. QED
  BY <1>2, <1>3, <1>4 DEF IInv

(* A step that registers, opens and closes nothing.                        *)
LEMMA HeldStays ==
    ASSUME IInv, NEW t \in Threads, \A s \in Threads \ {t} : th'[s] = th[s],
           instances' = instances,
           \A i \in Insts : inst'[i].state = inst[i].state /\ inst'[i].plugin = inst[i].plugin,
           Holding(t)' <=> Holding(t), Holding(t) => th'[t].own = th[t].own,
           th'[t].pc # "register"
    PROVE  Held' /\ (OneByOne => NoLeak')
<1>1. \A s \in Threads \ {t} : Holding(s)' <=> Holding(s)
  BY Others
<1>2. \A s \in Threads : th[s].own \in Insts \cup {NoInst}
  BY DEF IInv, TypeOK, Thread
<1>3. \A s \in Threads : th[s].pc = "register" => th[s].own # NoInst
  BY DEF IInv, Shapes, ShapeOf, Shape
<1>4. \A q \in Plugins : instances[q] \in Insts \cup {NoInst}
  BY DEF IInv, TypeOK
<1>5. Held'
  <2>1. \A q \in Plugins : instances'[q] # NoInst =>
          inst'[instances'[q]].state = "open" /\ inst'[instances'[q]].plugin = q
    BY <1>4 DEF IInv, Held
  <2>2. \A s \in Threads : Holding(s)' =>
          /\ Holding(s) /\ th'[s].own = th[s].own /\ th[s].own \in Insts
    BY <1>1, <1>2 DEF Holding
  <2>3. \A s \in Threads : Holding(s)' =>
          /\ inst'[th'[s].own].state = "open"
          /\ \A q \in Plugins : instances'[q] # th'[s].own
          /\ \A r \in Threads : Holding(r)' /\ th'[r].own = th'[s].own => r = s
    BY <2>2 DEF IInv, Held
  <2>4. \A s \in Threads : th'[s].pc = "register" => inst'[th'[s].own].plugin = th'[s].id
    BY <1>2, <1>3 DEF IInv, Held
  <2>5. QED
    BY <2>1, <2>3, <2>4 DEF Held
<1>6. OneByOne => NoLeak'
  BY <1>1 DEF IInv, Orderly, NoLeak
<1>7. QED
  BY <1>5, <1>6

(* A goroutine in an operation on a plugin is alone with it.               *)
LEMMA AtWork ==
    ASSUME IInv, OneByOne, NEW t \in Threads, th[t].pc # "idle", NEW p \in Plugins,
           Busy(t, p) \/ t = Main
    PROVE  /\ \A s \in Threads \ {t} : ~Busy(s, p) /\ th[s].op # "boot"
           /\ t = Main \/ Up
           /\ RightBut(t, p) /\ Left(t)
<1>1. \A s \in Threads \ {t} : th[s].op # "boot"
  BY Alone DEF IInv, Orderly
<1>2. t = Main \/ Up
  BY Alone DEF IInv, Orderly
<1>3. \A s \in Threads \ {t} : ~Busy(s, p)
  <2>1. CASE Busy(t, p)
    BY <2>1, Alone DEF IInv, Orderly
  <2>2. CASE t = Main
    BY <2>2 DEF IInv, Orderly, Apart, Up, Busy
  <2>3. QED
    BY <2>1, <2>2
<1>4. QED
  BY <1>1, <1>2, <1>3, FindsRight

(* Where the operations go on.                                             *)
LEMMA Onward ==
    ASSUME NEW t \in Threads
    PROVE  /\ th[t].op = "update" => AfterRestore(t) = "persist"
           /\ th[t].op = "enable" => AfterRestore(t) = "setcfg"
           /\ th[t].op \in {"supervise", "boot"} => AfterRestore(t) = "next" /\ Return(t) = "next"
           /\ th[t].op \notin {"update", "enable", "supervise", "boot"} => AfterRestore(t) = "idle"
           /\ th[t].op \notin {"supervise", "boot"} => Return(t) = "idle"
           /\ th[t].op = "add" => AfterStart(t) = "persist"
           /\ th[t].op = "boot" => AfterStart(t) = "next"
           /\ th[t].op \notin {"add", "boot"} => AfterStart(t) = "fresh"
           /\ th[t].op = "remove" => AfterClose(t) = "persist"
           /\ th[t].op = "disable" => AfterClose(t) = "setcfg"
           /\ th[t].op \notin {"remove", "disable"} => AfterClose(t) = "config"
<1>1. /\ th[t].op \in {"supervise", "boot"} => Return(t) = "next"
      /\ th[t].op \notin {"supervise", "boot"} => Return(t) = "idle"
  BY DEF Return
<1>2. /\ th[t].op = "update" => AfterRestore(t) = "persist"
      /\ th[t].op = "enable" => AfterRestore(t) = "setcfg"
      /\ th[t].op \notin {"update", "enable"} => AfterRestore(t) = Return(t)
  BY DEF AfterRestore
<1>3. /\ th[t].op = "add" => AfterStart(t) = "persist"
      /\ th[t].op = "boot" => AfterStart(t) = "next"
      /\ th[t].op \notin {"add", "boot"} => AfterStart(t) = "fresh"
  BY DEF AfterStart
<1>4. /\ th[t].op = "remove" => AfterClose(t) = "persist"
      /\ th[t].op = "disable" => AfterClose(t) = "setcfg"
      /\ th[t].op \notin {"remove", "disable"} => AfterClose(t) = "config"
  BY DEF AfterClose
<1>5. QED
  BY <1>1, <1>2, <1>3, <1>4

(* A failed start leaves the supervisor and the daemon's start to the next *)
(* plugin.                                                                 *)
LEMMA InitFailsMoves ==
    ASSUME IInv, NEW t \in Threads, InitFails(t), th[t].op \in {"supervise", "boot"}
    PROVE  IInv'
<1>1. /\ t \in Threads /\ th[t] \in Thread /\ ShapeOf(t)
      /\ th[t].pc = "init" /\ th[t].op \in {"supervise", "boot"}
      /\ th' = [th EXCEPT ![t] = [th[t] EXCEPT !.pc = "next"]]
      /\ UNCHANGED <<mode, configs, instances, inst, stores, removed>>
      /\ persisted' = persisted /\ waiting' \subseteq Plugins
  BY OpsOf DEF IInv, TypeOK, Shapes, ShapeOf, maps, Threads, Thread, Goto, InitFails, Return
<1>2. /\ \A s \in Threads \ {t} : th'[s] = th[s]
      /\ th'[t].pc = "next"
      /\ th'[t].op = th[t].op /\ th'[t].id = th[t].id /\ th'[t].cfg = th[t].cfg
      /\ th'[t].own = th[t].own /\ th'[t].todo = th[t].todo /\ th'[t].at = th[t].at
      /\ th'[t].list = th[t].list /\ th'[t].save = th[t].save
  BY <1>1, IdleFields DEF IInv, TypeOK, Thread
<1>3. th' \in [Threads -> Thread]
  BY <1>1, IdleFields DEF IInv, TypeOK, Thread, Labels, Ops, Configs, Saved
<1>4. TypeOK'
  BY <1>1, <1>3 DEF IInv, TypeOK, stores
<1>5. ShapeOf(t)'
  BY <1>1, <1>2, BridgesAre, RegistryAssumption DEF ShapeOf, Shape, Starting
<1>6. /\ Holding(t)' => Holding(t) /\ th'[t].own = th[t].own
      /\ Holding(t) => Holding(t)'
      /\ th'[t].pc # "register"
  BY <1>1, <1>2, IdleFields DEF Holding, ShapeOf, Shape
<1>7. ASSUME OneByOne
      PROVE  /\ \A p \in Plugins : Busy(t, p)' => Busy(t, p) \/ \A s \in Threads : ~Busy(s, p)
             /\ ~Up' => ~Up
             /\ t = Main \/ Up
             /\ Left(t)'
             /\ \A b \in mappings : OwedBy(t, b)' <=> OwedBy(t, b)
             /\ \A b \in mappings : UnmapsYet(t, b) => UnmapsYet(t, b)'
  <2>1. UNCHANGED <<configs, instances, inst, mappings, devices, forgotten, removed>> /\ Left(t)
    BY <1>1, <1>7 DEF IInv, Orderly, Plans, stores
  <2>2. \A p \in Plugins : Busy(t, p)' => Busy(t, p)
    BY <1>1, <1>2 DEF Busy
  <2>3. (~Up' => ~Up) /\ (t = Main \/ Up)
    BY <1>1, <1>2, <1>7, Alone DEF IInv, Orderly, Up
  <2>4. Left(t)'
    BY <1>1, <1>2, <1>7, <2>1 DEF Left, Down, Using, Starting, ShapeOf, Shape
  <2>5. \A b \in mappings : OwedBy(t, b)' <=> OwedBy(t, b)
    BY <1>1, <1>2, <1>7, <2>1, BridgesAre DEF IInv, TypeOK, OwedBy, Left, ShapeOf, Shape, Thread
  <2>6. \A b \in mappings : UnmapsYet(t, b) => UnmapsYet(t, b)'
    BY <1>1, <1>2, <1>7, <2>1, BridgesAre DEF IInv, TypeOK, UnmapsYet, ShapeOf, Shape
  <2>7. QED
    BY <2>2, <2>3, <2>4, <2>5, <2>6
<1>8. QED
  BY <1>1, <1>2, <1>4, <1>5, <1>6, <1>7, ThreadMoves

(* The mappings are listed to restore them,                                *)
LEMMA ListToRestore ==
    ASSUME IInv, NEW t \in Threads, List(t), th[t].op \notin {"remove", "disable"}
    PROVE  IInv'
<1>1. /\ t \in Threads /\ th[t] \in Thread /\ ShapeOf(t)
      /\ th[t].pc = "list" /\ th[t].op \in {"update", "restart", "enable", "supervise"}
      /\ th' = [th EXCEPT ![t] = [th[t] EXCEPT !.todo = mappings \cap BridgesOf(th[t].id),
                 !.pc = "restore"]]
      /\ UNCHANGED <<mode, configs, instances, inst, stores, removed>>
      /\ persisted' = persisted /\ waiting' \subseteq Plugins
  BY OpsOf, Onward DEF IInv, TypeOK, Shapes, ShapeOf, maps, Threads, Thread, Goto, List
<1>2. /\ \A s \in Threads \ {t} : th'[s] = th[s]
      /\ th'[t].pc = "restore"
      /\ th'[t].todo = mappings \cap BridgesOf(th[t].id)
      /\ th'[t].op = th[t].op /\ th'[t].id = th[t].id /\ th'[t].cfg = th[t].cfg
      /\ th'[t].own = th[t].own /\ th'[t].at = th[t].at /\ th'[t].list = th[t].list
      /\ th'[t].save = th[t].save
  BY <1>1, IdleFields DEF IInv, TypeOK, Thread
<1>3. th' \in [Threads -> Thread]
  BY <1>1, IdleFields DEF IInv, TypeOK, Thread, Labels, Ops, Configs, Saved
<1>4. TypeOK'
  BY <1>1, <1>3 DEF IInv, TypeOK, stores
<1>5. ShapeOf(t)'
  BY <1>1, <1>2, BridgesAre, RegistryAssumption DEF ShapeOf, Shape, Starting
<1>6. /\ Holding(t)' => Holding(t) /\ th'[t].own = th[t].own
      /\ Holding(t) => Holding(t)'
      /\ th'[t].pc # "register"
  BY <1>1, <1>2, IdleFields DEF Holding, ShapeOf, Shape
<1>7. ASSUME OneByOne
      PROVE  /\ \A p \in Plugins : Busy(t, p)' => Busy(t, p) \/ \A s \in Threads : ~Busy(s, p)
             /\ ~Up' => ~Up
             /\ t = Main \/ Up
             /\ Left(t)'
             /\ \A b \in mappings : OwedBy(t, b)' <=> OwedBy(t, b)
             /\ \A b \in mappings : UnmapsYet(t, b) => UnmapsYet(t, b)'
  <2>1. UNCHANGED <<configs, instances, inst, mappings, devices, forgotten, removed>> /\ Left(t)
    BY <1>1, <1>7 DEF IInv, Orderly, Plans, stores
  <2>2. \A p \in Plugins : Busy(t, p)' => Busy(t, p)
    BY <1>1, <1>2 DEF Busy
  <2>3. (~Up' => ~Up) /\ (t = Main \/ Up)
    BY <1>1, <1>2, <1>7, Alone DEF IInv, Orderly, Up
  <2>4. Left(t)'
    BY <1>1, <1>2, <1>7, <2>1 DEF Left, Down, Using, Starting, ShapeOf, Shape
  <2>5. \A b \in mappings : OwedBy(t, b)' <=> OwedBy(t, b)
    BY <1>1, <1>2, <1>7, <2>1, BridgesAre DEF IInv, TypeOK, OwedBy, Left, ShapeOf, Shape, Thread
  <2>6. \A b \in mappings : UnmapsYet(t, b) => UnmapsYet(t, b)'
    BY <1>1, <1>2, <1>7, <2>1, BridgesAre DEF IInv, TypeOK, UnmapsYet, ShapeOf, Shape
  <2>7. QED
    BY <2>2, <2>3, <2>4, <2>5, <2>6
<1>8. QED
  BY <1>1, <1>2, <1>4, <1>5, <1>6, <1>7, ThreadMoves

(* to unsubscribe them,                                                    *)
LEMMA ListToUnsubscribe ==
    ASSUME IInv, NEW t \in Threads, List(t), th[t].op = "disable"
    PROVE  IInv'
<1>1. /\ t \in Threads /\ th[t] \in Thread /\ ShapeOf(t)
      /\ th[t].pc = "list" /\ th[t].op = "disable"
      /\ th' = [th EXCEPT ![t] = [th[t] EXCEPT !.todo = mappings \cap BridgesOf(th[t].id),
                 !.pc = "unsub"]]
      /\ UNCHANGED <<mode, configs, instances, inst, stores, removed>>
      /\ persisted' = persisted /\ waiting' \subseteq Plugins
  BY OpsOf, Onward DEF IInv, TypeOK, Shapes, ShapeOf, maps, Threads, Thread, Goto, List
<1>2. /\ \A s \in Threads \ {t} : th'[s] = th[s]
      /\ th'[t].pc = "unsub"
      /\ th'[t].todo = mappings \cap BridgesOf(th[t].id)
      /\ th'[t].op = th[t].op /\ th'[t].id = th[t].id /\ th'[t].cfg = th[t].cfg
      /\ th'[t].own = th[t].own /\ th'[t].at = th[t].at /\ th'[t].list = th[t].list
      /\ th'[t].save = th[t].save
  BY <1>1, IdleFields DEF IInv, TypeOK, Thread
<1>3. th' \in [Threads -> Thread]
  BY <1>1, IdleFields DEF IInv, TypeOK, Thread, Labels, Ops, Configs, Saved
<1>4. TypeOK'
  BY <1>1, <1>3 DEF IInv, TypeOK, stores
<1>5. ShapeOf(t)'
  BY <1>1, <1>2, BridgesAre, RegistryAssumption DEF ShapeOf, Shape, Starting
<1>6. /\ Holding(t)' => Holding(t) /\ th'[t].own = th[t].own
      /\ Holding(t) => Holding(t)'
      /\ th'[t].pc # "register"
  BY <1>1, <1>2, IdleFields DEF Holding, ShapeOf, Shape
<1>7. ASSUME OneByOne
      PROVE  /\ \A p \in Plugins : Busy(t, p)' => Busy(t, p) \/ \A s \in Threads : ~Busy(s, p)
             /\ ~Up' => ~Up
             /\ t = Main \/ Up
             /\ Left(t)'
             /\ \A b \in mappings : OwedBy(t, b)' <=> OwedBy(t, b)
             /\ \A b \in mappings : UnmapsYet(t, b) => UnmapsYet(t, b)'
  <2>1. UNCHANGED <<configs, instances, inst, mappings, devices, forgotten, removed>> /\ Left(t)
    BY <1>1, <1>7 DEF IInv, Orderly, Plans, stores
  <2>2. \A p \in Plugins : Busy(t, p)' => Busy(t, p)
    BY <1>1, <1>2 DEF Busy
  <2>3. (~Up' => ~Up) /\ (t = Main \/ Up)
    BY <1>1, <1>2, <1>7, Alone DEF IInv, Orderly, Up
  <2>4. Left(t)'
    BY <1>1, <1>2, <1>7, <2>1 DEF Left, Down, Using, Starting, ShapeOf, Shape
  <2>5. \A b \in mappings : OwedBy(t, b)' <=> OwedBy(t, b)
    BY <1>1, <1>2, <1>7, <2>1, BridgesAre DEF IInv, TypeOK, OwedBy, Left, ShapeOf, Shape, Thread
  <2>6. \A b \in mappings : UnmapsYet(t, b) => UnmapsYet(t, b)'
    BY <1>1, <1>2, <1>7, <2>1, BridgesAre DEF IInv, TypeOK, UnmapsYet, ShapeOf, Shape
  <2>7. QED
    BY <2>2, <2>3, <2>4, <2>5, <2>6
<1>8. QED
  BY <1>1, <1>2, <1>4, <1>5, <1>6, <1>7, ThreadMoves

(* or to remove them.                                                      *)
LEMMA ListToTeardown ==
    ASSUME IInv, NEW t \in Threads, List(t), th[t].op = "remove"
    PROVE  IInv'
<1>1. /\ t \in Threads /\ th[t] \in Thread /\ ShapeOf(t)
      /\ th[t].pc = "list" /\ th[t].op = "remove"
      /\ th' = [th EXCEPT ![t] = [th[t] EXCEPT !.todo = mappings \cap BridgesOf(th[t].id),
                 !.pc = "teardown"]]
      /\ UNCHANGED <<mode, configs, instances, inst, stores, removed>>
      /\ persisted' = persisted /\ waiting' \subseteq Plugins
  BY OpsOf, Onward DEF IInv, TypeOK, Shapes, ShapeOf, maps, Threads, Thread, Goto, List
<1>2. /\ \A s \in Threads \ {t} : th'[s] = th[s]
      /\ th'[t].pc = "teardown"
      /\ th'[t].todo = mappings \cap BridgesOf(th[t].id)
      /\ th'[t].op = th[t].op /\ th'[t].id = th[t].id /\ th'[t].cfg = th[t].cfg
      /\ th'[t].own = th[t].own /\ th'[t].at = th[t].at /\ th'[t].list = th[t].list
      /\ th'[t].save = th[t].save
  BY <1>1, IdleFields DEF IInv, TypeOK, Thread
<1>3. th' \in [Threads -> Thread]
  BY <1>1, IdleFields DEF IInv, TypeOK, Thread, Labels, Ops, Configs, Saved
<1>4. TypeOK'
  BY <1>1, <1>3 DEF IInv, TypeOK, stores
<1>5. ShapeOf(t)'
  BY <1>1, <1>2, BridgesAre, RegistryAssumption DEF ShapeOf, Shape, Starting
<1>6. /\ Holding(t)' => Holding(t) /\ th'[t].own = th[t].own
      /\ Holding(t) => Holding(t)'
      /\ th'[t].pc # "register"
  BY <1>1, <1>2, IdleFields DEF Holding, ShapeOf, Shape
<1>7. ASSUME OneByOne
      PROVE  /\ \A p \in Plugins : Busy(t, p)' => Busy(t, p) \/ \A s \in Threads : ~Busy(s, p)
             /\ ~Up' => ~Up
             /\ t = Main \/ Up
             /\ Left(t)'
             /\ \A b \in mappings : OwedBy(t, b)' <=> OwedBy(t, b)
             /\ \A b \in mappings : UnmapsYet(t, b) => UnmapsYet(t, b)'
  <2>1. UNCHANGED <<configs, instances, inst, mappings, devices, forgotten, removed>> /\ Left(t)
    BY <1>1, <1>7 DEF IInv, Orderly, Plans, stores
  <2>2. \A p \in Plugins : Busy(t, p)' => Busy(t, p)
    BY <1>1, <1>2 DEF Busy
  <2>3. (~Up' => ~Up) /\ (t = Main \/ Up)
    BY <1>1, <1>2, <1>7, Alone DEF IInv, Orderly, Up
  <2>4. Left(t)'
    BY <1>1, <1>2, <1>7, <2>1 DEF Left, Down, Using, Starting, ShapeOf, Shape
  <2>5. \A b \in mappings : OwedBy(t, b)' <=> OwedBy(t, b)
    BY <1>1, <1>2, <1>7, <2>1, BridgesAre DEF IInv, TypeOK, OwedBy, Left, ShapeOf, Shape, Thread
  <2>6. \A b \in mappings : UnmapsYet(t, b) => UnmapsYet(t, b)'
    BY <1>1, <1>2, <1>7, <2>1, BridgesAre DEF IInv, TypeOK, UnmapsYet, ShapeOf, Shape
  <2>7. QED
    BY <2>2, <2>3, <2>4, <2>5, <2>6
<1>8. QED
  BY <1>1, <1>2, <1>4, <1>5, <1>6, <1>7, ThreadMoves

(* All mappings are unsubscribed.                                          *)
LEMMA UnsubscribedAll ==
    ASSUME IInv, NEW t \in Threads, Unsubscribe(t), th[t].todo = {}
    PROVE  IInv'
<1>1. /\ t \in Threads /\ th[t] \in Thread /\ ShapeOf(t)
      /\ th[t].pc = "unsub" /\ th[t].op = "disable" /\ th[t].todo = {}
      /\ th' = [th EXCEPT ![t] = [th[t] EXCEPT !.pc = "close"]]
      /\ UNCHANGED <<mode, configs, instances, inst, stores, removed>>
      /\ persisted' = persisted /\ waiting' \subseteq Plugins
  BY OpsOf, Onward DEF IInv, TypeOK, Shapes, ShapeOf, maps, Threads, Thread, Goto, Unsubscribe
<1>2. /\ \A s \in Threads \ {t} : th'[s] = th[s]
      /\ th'[t].pc = "close"
      /\ th'[t].op = th[t].op /\ th'[t].id = th[t].id /\ th'[t].cfg = th[t].cfg
      /\ th'[t].own = th[t].own /\ th'[t].todo = th[t].todo /\ th'[t].at = th[t].at
      /\ th'[t].list = th[t].list /\ th'[t].save = th[t].save
  BY <1>1, IdleFields DEF IInv, TypeOK, Thread
<1>3. th' \in [Threads -> Thread]
  BY <1>1, IdleFields DEF IInv, TypeOK, Thread, Labels, Ops, Configs, Saved
<1>4. TypeOK'
  BY <1>1, <1>3 DEF IInv, TypeOK, stores
<1>5. ShapeOf(t)'
  BY <1>1, <1>2, BridgesAre, RegistryAssumption DEF ShapeOf, Shape, Starting
<1>6. /\ Holding(t)' => Holding(t) /\ th'[t].own = th[t].own
      /\ Holding(t) => Holding(t)'
      /\ th'[t].pc # "register"
  BY <1>1, <1>2, IdleFields DEF Holding, ShapeOf, Shape
<1>7. ASSUME OneByOne
      PROVE  /\ \A p \in Plugins : Busy(t, p)' => Busy(t, p) \/ \A s \in Threads : ~Busy(s, p)
             /\ ~Up' => ~Up
             /\ t = Main \/ Up
             /\ Left(t)'
             /\ \A b \in mappings : OwedBy(t, b)' <=> OwedBy(t, b)
             /\ \A b \in mappings : UnmapsYet(t, b) => UnmapsYet(t, b)'
  <2>1. UNCHANGED <<configs, instances, inst, mappings, devices, forgotten, removed>> /\ Left(t)
    BY <1>1, <1>7 DEF IInv, Orderly, Plans, stores
  <2>2. \A p \in Plugins : Busy(t, p)' => Busy(t, p)
    BY <1>1, <1>2 DEF Busy
  <2>3. (~Up' => ~Up) /\ (t = Main \/ Up)
    BY <1>1, <1>2, <1>7, Alone DEF IInv, Orderly, Up
  <2>4. Left(t)'
    BY <1>1, <1>2, <1>7, <2>1 DEF Left, Down, Using, Starting, ShapeOf, Shape
  <2>5. \A b \in mappings : OwedBy(t, b)' <=> OwedBy(t, b)
    BY <1>1, <1>2, <1>7, <2>1, BridgesAre DEF IInv, TypeOK, OwedBy, Left, ShapeOf, Shape, Thread
  <2>6. \A b \in mappings : UnmapsYet(t, b) => UnmapsYet(t, b)'
    BY <1>1, <1>2, <1>7, <2>1, BridgesAre DEF IInv, TypeOK, UnmapsYet, ShapeOf, Shape
  <2>7. QED
    BY <2>2, <2>3, <2>4, <2>5, <2>6
<1>8. QED
  BY <1>1, <1>2, <1>4, <1>5, <1>6, <1>7, ThreadMoves

(* All mappings of a plugin are removed.                                   *)
LEMMA TornDownAll ==
    ASSUME IInv, NEW t \in Threads, Teardown(t), th[t].todo = {}, th[t].op = "remove"
    PROVE  IInv'
<1>1. /\ t \in Threads /\ th[t] \in Thread /\ ShapeOf(t)
      /\ th[t].pc = "teardown" /\ th[t].op = "remove" /\ th[t].todo = {} /\ th[t].at = {}
      /\ th' = [th EXCEPT ![t] = [th[t] EXCEPT !.pc = "close"]]
      /\ UNCHANGED <<mode, configs, instances, inst, stores, removed>>
      /\ persisted' = persisted /\ waiting' \subseteq Plugins
  BY OpsOf, Onward DEF IInv, TypeOK, Shapes, ShapeOf, maps, Threads, Thread, Goto, Teardown,
     stores, Shape
<1>2. /\ \A s \in Threads \ {t} : th'[s] = th[s]
      /\ th'[t].pc = "close"
      /\ th'[t].op = th[t].op /\ th'[t].id = th[t].id /\ th'[t].cfg = th[t].cfg
      /\ th'[t].own = th[t].own /\ th'[t].todo = th[t].todo /\ th'[t].at = th[t].at
      /\ th'[t].list = th[t].list /\ th'[t].save = th[t].save
  BY <1>1, IdleFields DEF IInv, TypeOK, Thread
<1>3. th' \in [Threads -> Thread]
  BY <1>1, IdleFields DEF IInv, TypeOK, Thread, Labels, Ops, Configs, Saved
<1>4. TypeOK'
  BY <1>1, <1>3 DEF IInv, TypeOK, stores
<1>5. ShapeOf(t)'
  BY <1>1, <1>2, BridgesAre, RegistryAssumption DEF ShapeOf, Shape, Starting
<1>6. /\ Holding(t)' => Holding(t) /\ th'[t].own = th[t].own
      /\ Holding(t) => Holding(t)'
      /\ th'[t].pc # "register"
  BY <1>1, <1>2, IdleFields DEF Holding, ShapeOf, Shape
<1>7. ASSUME OneByOne
      PROVE  /\ \A p \in Plugins : Busy(t, p)' => Busy(t, p) \/ \A s \in Threads : ~Busy(s, p)
             /\ ~Up' => ~Up
             /\ t = Main \/ Up
             /\ Left(t)'
             /\ \A b \in mappings : OwedBy(t, b)' <=> OwedBy(t, b)
             /\ \A b \in mappings : UnmapsYet(t, b) => UnmapsYet(t, b)'
  <2>1. UNCHANGED <<configs, instances, inst, mappings, devices, forgotten, removed>> /\ Left(t)
    BY <1>1, <1>7 DEF IInv, Orderly, Plans, stores
  <2>2. \A p \in Plugins : Busy(t, p)' => Busy(t, p)
    BY <1>1, <1>2 DEF Busy
  <2>3. (~Up' => ~Up) /\ (t = Main \/ Up)
    BY <1>1, <1>2, <1>7, Alone DEF IInv, Orderly, Up
  <2>4. Left(t)'
    BY <1>1, <1>2, <1>7, <2>1 DEF Left, Down, Using, Starting, ShapeOf, Shape
  <2>5. \A b \in mappings : OwedBy(t, b)' <=> OwedBy(t, b)
    BY <1>1, <1>2, <1>7, <2>1, BridgesAre DEF IInv, TypeOK, OwedBy, Left, ShapeOf, Shape, Thread
  <2>6. \A b \in mappings : UnmapsYet(t, b) => UnmapsYet(t, b)'
    BY <1>1, <1>2, <1>7, <2>1, BridgesAre DEF IInv, TypeOK, UnmapsYet, ShapeOf, Shape
  <2>7. QED
    BY <2>2, <2>3, <2>4, <2>5, <2>6
<1>8. QED
  BY <1>1, <1>2, <1>4, <1>5, <1>6, <1>7, ThreadMoves

(* After a start the new instance is looked up.                            *)
LEMMA FreshToList ==
    ASSUME IInv, NEW t \in Threads, Fresh(t), instances[th[t].id] # NoInst
    PROVE  IInv'
<1>1. /\ t \in Threads /\ th[t] \in Thread /\ ShapeOf(t)
      /\ th[t].pc = "fresh" /\ th[t].op \in {"update", "restart", "enable", "supervise"}
      /\ instances[th[t].id] \in Insts /\ instances[th[t].id] # NoInst
      /\ th' = [th EXCEPT ![t] = [th[t] EXCEPT !.pc = "list", !.own = instances[th[t].id]]]
      /\ UNCHANGED <<mode, configs, instances, inst, stores, removed>>
      /\ persisted' = persisted /\ waiting' \subseteq Plugins
  BY OpsOf, Onward DEF IInv, TypeOK, Shapes, ShapeOf, maps, Threads, Thread, Goto, Fresh
<1>2. /\ \A s \in Threads \ {t} : th'[s] = th[s]
      /\ th'[t].pc = "list"
      /\ th'[t].own = instances[th[t].id]
      /\ th'[t].op = th[t].op /\ th'[t].id = th[t].id /\ th'[t].cfg = th[t].cfg
      /\ th'[t].todo = th[t].todo /\ th'[t].at = th[t].at /\ th'[t].list = th[t].list
      /\ th'[t].save = th[t].save
  BY <1>1, IdleFields DEF IInv, TypeOK, Thread
<1>3. th' \in [Threads -> Thread]
  BY <1>1, IdleFields DEF IInv, TypeOK, Thread, Labels, Ops, Configs, Saved
<1>4. TypeOK'
  BY <1>1, <1>3 DEF IInv, TypeOK, stores
<1>5. ShapeOf(t)'
  BY <1>1, <1>2, BridgesAre, RegistryAssumption DEF ShapeOf, Shape, Starting
<1>6. /\ Holding(t)' => Holding(t) /\ th'[t].own = th[t].own
      /\ Holding(t) => Holding(t)'
      /\ th'[t].pc # "register"
  BY <1>1, <1>2, IdleFields DEF Holding, ShapeOf, Shape
<1>7. ASSUME OneByOne
      PROVE  /\ \A p \in Plugins : Busy(t, p)' => Busy(t, p) \/ \A s \in Threads : ~Busy(s, p)
             /\ ~Up' => ~Up
             /\ t = Main \/ Up
             /\ Left(t)'
             /\ \A b \in mappings : OwedBy(t, b)' <=> OwedBy(t, b)
             /\ \A b \in mappings : UnmapsYet(t, b) => UnmapsYet(t, b)'
  <2>1. UNCHANGED <<configs, instances, inst, mappings, devices, forgotten, removed>> /\ Left(t)
    BY <1>1, <1>7 DEF IInv, Orderly, Plans, stores
  <2>2. \A p \in Plugins : Busy(t, p)' => Busy(t, p)
    BY <1>1, <1>2 DEF Busy
  <2>3. (~Up' => ~Up) /\ (t = Main \/ Up)
    BY <1>1, <1>2, <1>7, Alone DEF IInv, Orderly, Up
  <2>4. Left(t)'
    BY <1>1, <1>2, <1>7, <2>1 DEF Left, Down, Using, Starting, ShapeOf, Shape
  <2>5. \A b \in mappings : OwedBy(t, b)' <=> OwedBy(t, b)
    BY <1>1, <1>2, <1>7, <2>1, BridgesAre DEF IInv, TypeOK, OwedBy, Left, ShapeOf, Shape, Thread
  <2>6. \A b \in mappings : UnmapsYet(t, b) => UnmapsYet(t, b)'
    BY <1>1, <1>2, <1>7, <2>1, BridgesAre DEF IInv, TypeOK, UnmapsYet, ShapeOf, Shape
  <2>7. QED
    BY <2>2, <2>3, <2>4, <2>5, <2>6
<1>8. QED
  BY <1>1, <1>2, <1>4, <1>5, <1>6, <1>7, ThreadMoves

(* Only where operations overlap another may have stopped the plugin.      *)
LEMMA FreshToNone ==
    ASSUME IInv, NEW t \in Threads, Fresh(t), instances[th[t].id] = NoInst, AfterRestore(t) # "idle"
    PROVE  IInv'
<1>1. /\ t \in Threads /\ th[t] \in Thread /\ ShapeOf(t)
      /\ th[t].pc = "fresh" /\ th[t].op \in {"update", "enable", "supervise"}
      /\ ~OneByOne
      /\ th[t].op = "update" => AfterRestore(t) = "persist"
      /\ th[t].op = "enable" => AfterRestore(t) = "setcfg"
      /\ th[t].op = "supervise" => AfterRestore(t) = "next"
      /\ th' = [th EXCEPT ![t] = [th[t] EXCEPT !.pc = AfterRestore(t), !.own = NoInst]]
      /\ UNCHANGED <<mode, configs, instances, inst, stores, removed>>
      /\ persisted' = persisted /\ waiting' \subseteq Plugins
  BY OpsOf, Onward DEF IInv, TypeOK, Shapes, ShapeOf, maps, Threads, Thread, Goto, Fresh,
     Orderly, Plans, Left
<1>2. /\ \A s \in Threads \ {t} : th'[s] = th[s]
      /\ th'[t].pc = AfterRestore(t)
      /\ th'[t].own = NoInst
      /\ th'[t].op = th[t].op /\ th'[t].id = th[t].id /\ th'[t].cfg = th[t].cfg
      /\ th'[t].todo = th[t].todo /\ th'[t].at = th[t].at /\ th'[t].list = th[t].list
      /\ th'[t].save = th[t].save
  BY <1>1, IdleFields DEF IInv, TypeOK, Thread
<1>3. th' \in [Threads -> Thread]
  BY <1>1, IdleFields DEF IInv, TypeOK, Thread, Labels, Ops, Configs, Saved
<1>4. TypeOK'
  BY <1>1, <1>3 DEF IInv, TypeOK, stores
<1>5. ShapeOf(t)'
  BY <1>1, <1>2, BridgesAre, RegistryAssumption DEF ShapeOf, Shape, Starting
<1>6. /\ Holding(t)' => Holding(t) /\ th'[t].own = th[t].own
      /\ Holding(t) => Holding(t)'
      /\ th'[t].pc # "register"
  BY <1>1, <1>2, IdleFields DEF Holding, ShapeOf, Shape
<1>7. ASSUME OneByOne
      PROVE  /\ \A p \in Plugins : Busy(t, p)' => Busy(t, p) \/ \A s \in Threads : ~Busy(s, p)
             /\ ~Up' => ~Up
             /\ t = Main \/ Up
             /\ Left(t)'
             /\ \A b \in mappings : OwedBy(t, b)' <=> OwedBy(t, b)
             /\ \A b \in mappings : UnmapsYet(t, b) => UnmapsYet(t, b)'
  <2>1. UNCHANGED <<configs, instances, inst, mappings, devices, forgotten, removed>> /\ Left(t)
    BY <1>1, <1>7 DEF IInv, Orderly, Plans, stores
  <2>2. \A p \in Plugins : Busy(t, p)' => Busy(t, p)
    BY <1>1, <1>2 DEF Busy
  <2>3. (~Up' => ~Up) /\ (t = Main \/ Up)
    BY <1>1, <1>2, <1>7, Alone DEF IInv, Orderly, Up
  <2>4. Left(t)'
    BY <1>1, <1>2, <1>7, <2>1 DEF Left, Down, Using, Starting, ShapeOf, Shape
  <2>5. \A b \in mappings : OwedBy(t, b)' <=> OwedBy(t, b)
    BY <1>1, <1>2, <1>7, <2>1, BridgesAre DEF IInv, TypeOK, OwedBy, Left, ShapeOf, Shape, Thread
  <2>6. \A b \in mappings : UnmapsYet(t, b) => UnmapsYet(t, b)'
    BY <1>1, <1>2, <1>7, <2>1, BridgesAre DEF IInv, TypeOK, UnmapsYet, ShapeOf, Shape
  <2>7. QED
    BY <2>2, <2>3, <2>4, <2>5, <2>6
<1>8. QED
  BY <1>1, <1>2, <1>4, <1>5, <1>6, <1>7, ThreadMoves

(* All mappings are restored, the operation goes on.                       *)
LEMMA RestoredAll ==
    ASSUME IInv, NEW t \in Threads, Restore(t), th[t].todo = {}, AfterRestore(t) # "idle"
    PROVE  IInv'
<1>1. /\ t \in Threads /\ th[t] \in Thread /\ ShapeOf(t)
      /\ th[t].pc = "restore" /\ th[t].op \in {"update", "enable", "supervise"} /\ th[t].todo = {}
      /\ th[t].op = "update" => AfterRestore(t) = "persist"
      /\ th[t].op = "enable" => AfterRestore(t) = "setcfg"
      /\ th[t].op = "supervise" => AfterRestore(t) = "next"
      /\ th[t].own # NoInst /\ (OneByOne => Enabled)
      /\ th' = [th EXCEPT ![t] = [th[t] EXCEPT !.pc = AfterRestore(t), !.own = NoInst]]
      /\ UNCHANGED <<mode, configs, instances, inst, stores, removed>>
      /\ persisted' = persisted /\ waiting' \subseteq Plugins
  BY OpsOf, Onward DEF IInv, TypeOK, Shapes, ShapeOf, maps, Threads, Thread, Goto, Restore,
     stores, Shape, Orderly
<1>2. /\ \A s \in Threads \ {t} : th'[s] = th[s]
      /\ th'[t].pc = AfterRestore(t)
      /\ th'[t].own = NoInst
      /\ th'[t].op = th[t].op /\ th'[t].id = th[t].id /\ th'[t].cfg = th[t].cfg
      /\ th'[t].todo = th[t].todo /\ th'[t].at = th[t].at /\ th'[t].list = th[t].list
      /\ th'[t].save = th[t].save
  BY <1>1, IdleFields DEF IInv, TypeOK, Thread
<1>3. th' \in [Threads -> Thread]
  BY ZenonT(60), <1>1, IdleFields DEF IInv, TypeOK, Thread, Labels, Ops, Configs, Saved
<1>4. TypeOK'
  BY <1>1, <1>3 DEF IInv, TypeOK, stores
<1>5. ShapeOf(t)'
  BY <1>1, <1>2, BridgesAre, RegistryAssumption DEF ShapeOf, Shape, Starting
<1>6. /\ Holding(t)' => Holding(t) /\ th'[t].own = th[t].own
      /\ Holding(t) => Holding(t)'
      /\ th'[t].pc # "register"
  BY <1>1, <1>2, IdleFields DEF Holding, ShapeOf, Shape
<1>7. ASSUME OneByOne
      PROVE  /\ \A p \in Plugins : Busy(t, p)' => Busy(t, p) \/ \A s \in Threads : ~Busy(s, p)
             /\ ~Up' => ~Up
             /\ t = Main \/ Up
             /\ Left(t)'
             /\ \A b \in mappings : OwedBy(t, b)' <=> OwedBy(t, b)
             /\ \A b \in mappings : UnmapsYet(t, b) => UnmapsYet(t, b)'
  <2>1. UNCHANGED <<configs, instances, inst, mappings, devices, forgotten, removed>> /\ Left(t)
    BY <1>1, <1>7 DEF IInv, Orderly, Plans, stores
  <2>2. \A p \in Plugins : Busy(t, p)' => Busy(t, p)
    BY <1>1, <1>2 DEF Busy
  <2>3. (~Up' => ~Up) /\ (t = Main \/ Up)
    BY <1>1, <1>2, <1>7, Alone DEF IInv, Orderly, Up
  <2>4. Left(t)'
    BY <1>1, <1>2, <1>7, <2>1 DEF Left, Down, Using, Starting, ShapeOf, Shape, Enabled, Thread
  <2>5. \A b \in mappings : OwedBy(t, b)' <=> OwedBy(t, b)
    BY <1>1, <1>2, <1>7, <2>1, BridgesAre DEF IInv, TypeOK, OwedBy, Left, ShapeOf, Shape, Thread
  <2>6. \A b \in mappings : UnmapsYet(t, b) => UnmapsYet(t, b)'
    BY <1>1, <1>2, <1>7, <2>1, BridgesAre DEF IInv, TypeOK, UnmapsYet, ShapeOf, Shape
  <2>7. QED
    BY <2>2, <2>3, <2>4, <2>5, <2>6
<1>8. QED
  BY <1>1, <1>2, <1>4, <1>5, <1>6, <1>7, ThreadMoves

(* The configs are copied under the lock.                                  *)
LEMMA PersistReads ==
    ASSUME IInv, NEW t \in Threads, persistConfigs(t)
    PROVE  IInv'
<1>1. /\ t \in Threads /\ th[t] \in Thread /\ ShapeOf(t)
      /\ th[t].pc = "persist" /\ configs \in Saved
      /\ th[t].op \in {"add", "remove", "update", "enable", "disable"}
      /\ th' = [th EXCEPT ![t] = [th[t] EXCEPT !.pc = "write", !.save = configs]]
      /\ UNCHANGED <<mode, configs, instances, inst, stores, removed>>
      /\ persisted' = persisted /\ waiting' \subseteq Plugins
  BY OpsOf DEF IInv, TypeOK, Shapes, ShapeOf, maps, Threads, Thread, Goto, persistConfigs
<1>2. /\ \A s \in Threads \ {t} : th'[s] = th[s]
      /\ th'[t].pc = "write"
      /\ th'[t].save = configs
      /\ th'[t].op = th[t].op /\ th'[t].id = th[t].id /\ th'[t].cfg = th[t].cfg
      /\ th'[t].own = th[t].own /\ th'[t].todo = th[t].todo /\ th'[t].at = th[t].at
      /\ th'[t].list = th[t].list
  BY <1>1, IdleFields DEF IInv, TypeOK, Thread
<1>3. th' \in [Threads -> Thread]
  BY <1>1, IdleFields DEF IInv, TypeOK, Thread, Labels, Ops, Configs, Saved
<1>4. TypeOK'
  BY <1>1, <1>3 DEF IInv, TypeOK, stores
<1>5. ShapeOf(t)'
  BY <1>1, <1>2, BridgesAre, RegistryAssumption DEF ShapeOf, Shape, Starting
<1>6. /\ Holding(t)' => Holding(t) /\ th'[t].own = th[t].own
      /\ Holding(t) => Holding(t)'
      /\ th'[t].pc # "register"
  BY <1>1, <1>2, IdleFields DEF Holding, ShapeOf, Shape
<1>7. ASSUME OneByOne
      PROVE  /\ \A p \in Plugins : Busy(t, p)' => Busy(t, p) \/ \A s \in Threads : ~Busy(s, p)
             /\ ~Up' => ~Up
             /\ t = Main \/ Up
             /\ Left(t)'
             /\ \A b \in mappings : OwedBy(t, b)' <=> OwedBy(t, b)
             /\ \A b \in mappings : UnmapsYet(t, b) => UnmapsYet(t, b)'
  <2>1. UNCHANGED <<configs, instances, inst, mappings, devices, forgotten, removed>> /\ Left(t)
    BY <1>1, <1>7 DEF IInv, Orderly, Plans, stores
  <2>2. \A p \in Plugins : Busy(t, p)' => Busy(t, p)
    BY <1>1, <1>2 DEF Busy
  <2>3. (~Up' => ~Up) /\ (t = Main \/ Up)
    BY <1>1, <1>2, <1>7, Alone DEF IInv, Orderly, Up
  <2>4. Left(t)'
    BY <1>1, <1>2, <1>7, <2>1 DEF Left, Down, Using, Starting, ShapeOf, Shape
  <2>5. \A b \in mappings : OwedBy(t, b)' <=> OwedBy(t, b)
    BY <1>1, <1>2, <1>7, <2>1, BridgesAre DEF IInv, TypeOK, OwedBy, Left, ShapeOf, Shape, Thread
  <2>6. \A b \in mappings : UnmapsYet(t, b) => UnmapsYet(t, b)'
    BY <1>1, <1>2, <1>7, <2>1, BridgesAre DEF IInv, TypeOK, UnmapsYet, ShapeOf, Shape
  <2>7. QED
    BY <2>2, <2>3, <2>4, <2>5, <2>6
<1>8. QED
  BY <1>1, <1>2, <1>4, <1>5, <1>6, <1>7, ThreadMoves

(* The supervisor finds plugins to start.                                  *)
LEMMA SupervisorTicks ==
    ASSUME IInv, NEW t \in Threads, t = Supervisor, superviseOnce
    PROVE  IInv'
<1>1. /\ t # Main /\ th[t] = Idle
      /\ Due # {} /\ Due \subseteq Plugins
      /\ \A q \in Due : configs[q] = "enabled" /\ instances[q] = NoInst
      /\ OneByOne => Up /\ \A q \in Due : \A s \in Threads : ~Busy(s, q)
      /\ (CHOOSE q \in Due : TRUE) \in Due
      /\ [q \in Plugins |-> IF q \in Due THEN configs[q] ELSE "none"] \in Saved
      /\ UNCHANGED <<mode, configs, instances, inst, stores, removed>>
      /\ persisted' = persisted /\ waiting' \subseteq Plugins
  <2>1. t # Main
    BY RegistryAssumption
  <2>2. th[t] = Idle
    BY <2>1 DEF IInv, Shapes, ShapeOf, Shape, superviseOnce
  <2>3. Due # {} /\ (CHOOSE q \in Due : TRUE) \in Due
    BY DEF superviseOnce
  <2>4. Due \subseteq Plugins /\ \A q \in Due : configs[q] = "enabled" /\ instances[q] = NoInst
    BY DEF Due
  <2>5. OneByOne => Up /\ \A q \in Due : \A s \in Threads : ~Busy(s, q)
    BY DEF superviseOnce, OneByOne
  <2>6. [q \in Plugins |-> IF q \in Due THEN configs[q] ELSE "none"] \in Saved
    BY DEF IInv, TypeOK, Saved
  <2>7. /\ UNCHANGED <<mode, configs, instances, inst, stores, removed>>
        /\ persisted' = persisted /\ waiting' \subseteq Plugins
    BY DEF superviseOnce, maps, IInv, TypeOK
  <2>8. QED
    BY <2>1, <2>2, <2>3, <2>4, <2>5, <2>6, <2>7
<1>2. /\ \A s \in Threads \ {t} : th'[s] = th[s]
      /\ th'[t].op = "supervise" /\ th'[t].pc = "next" /\ th'[t].list = Due
      /\ th'[t].id \in Due
      /\ \A q \in Due : th'[t].save[q] = "enabled"
      /\ th'[t].cfg = "enabled" /\ th'[t].own = NoInst /\ th'[t].todo = {} /\ th'[t].at = {}
  BY <1>1, IdleFields DEF IInv, TypeOK, Thread, superviseOnce
<1>3. th' \in [Threads -> Thread]
  BY ZenonT(60), <1>1, IdleFields
     DEF IInv, TypeOK, Thread, Labels, Ops, Configs, Saved, superviseOnce
<1>4. TypeOK'
  BY <1>1, <1>3 DEF IInv, TypeOK, stores
<1>5. ShapeOf(t)'
  BY <1>1, <1>2, BridgesAre, RegistryAssumption DEF ShapeOf, Shape, Starting, Saved, Configs, Thread
<1>6. /\ Holding(t)' => Holding(t) /\ th'[t].own = th[t].own
      /\ Holding(t) => Holding(t)'
      /\ th'[t].pc # "register"
  BY <1>1, <1>2, IdleFields DEF Holding, ShapeOf, Shape
<1>7. ASSUME OneByOne
      PROVE  /\ \A q \in Plugins : Busy(t, q)' => Busy(t, q) \/ \A s \in Threads : ~Busy(s, q)
             /\ ~Up' => ~Up
             /\ t = Main \/ Up
             /\ Left(t)'
             /\ \A b \in mappings : OwedBy(t, b)' <=> OwedBy(t, b)
             /\ \A b \in mappings : UnmapsYet(t, b) => UnmapsYet(t, b)'
  <2>1. UNCHANGED <<configs, instances, inst, mappings, devices, forgotten, removed>> /\ Left(t)
    BY <1>1, <1>7 DEF IInv, Orderly, Plans, stores
  <2>2. \A q \in Plugins : Busy(t, q)' => Busy(t, q) \/ \A s \in Threads : ~Busy(s, q)
    BY <1>1, <1>2, <1>7 DEF Busy
  <2>3. (~Up' => ~Up) /\ (t = Main \/ Up)
    BY <1>1, <1>2, <1>7 DEF Up, Threads
  <2>4. Left(t)'
    BY <1>1, <1>2, <1>7, <2>1 DEF IInv, Orderly, Gone, Left, Down, Using, Starting
  <2>5. \A b \in mappings : OwedBy(t, b)' <=> OwedBy(t, b)
    BY <1>1, <1>2, <1>7, <2>1, IdleFields DEF OwedBy
  <2>6. \A b \in mappings : UnmapsYet(t, b) => UnmapsYet(t, b)'
    BY <1>1, <1>2, <2>1, IdleFields DEF UnmapsYet
  <2>7. QED
    BY <2>2, <2>3, <2>4, <2>5, <2>6
<1>8. QED
  BY <1>1, <1>2, <1>4, <1>5, <1>6, <1>7, ThreadMoves

(* The next plugin of the list is started.                                 *)
LEMMA NextStarts ==
    ASSUME IInv, NEW t \in Threads, NextConfig(t), th'[t].pc # "next"
    PROVE  IInv'
<1>1. PICK p \in Plugins :
      /\ p \in th[t].list /\ th[t] \in Thread /\ ShapeOf(t)
      /\ th[t].pc = "next" /\ th[t].op \in {"supervise", "boot"}
      /\ th[t].save[p] = "enabled"
      /\ th' = [th EXCEPT ![t].list = @ \ {p}, ![t].id = p, ![t].own = NoInst,
                          ![t].cfg = th[t].save[p], ![t].save[p] = "none", ![t].pc = "config"]
      /\ UNCHANGED <<mode, configs, instances, inst, stores, removed>>
      /\ persisted' = persisted /\ waiting' \subseteq Plugins
  <2>1. th[t] \in Thread /\ ShapeOf(t)
    BY DEF IInv, TypeOK, Shapes
  <2>2. th[t].pc = "next" /\ th[t].op \in {"supervise", "boot"}
    BY <2>1, OpsOf DEF NextConfig, ShapeOf
  <2>3. PICK p \in th[t].list :
          LET off == th[t].op = "boot" /\ th[t].save[p] = "disabled"
          IN  /\ configs' = IF off THEN [configs EXCEPT ![p] = "disabled"] ELSE configs
              /\ th' = [th EXCEPT ![t].list = @ \ {p}, ![t].id = p, ![t].own = NoInst,
                                  ![t].cfg = th[t].save[p], ![t].save[p] = "none",
                                  ![t].pc = IF off THEN "next" ELSE "config"]
    BY DEF NextConfig
  <2>4. ~(th[t].op = "boot" /\ th[t].save[p] = "disabled")
    BY <2>1, <2>3 DEF IInv, TypeOK, Thread
  <2>5. UNCHANGED <<mode, configs, instances, inst, stores, removed, persisted, waiting>>
    BY <2>3, <2>4 DEF NextConfig
  <2>6. th[t].save[p] = "enabled"
    BY <2>1, <2>2, <2>4 DEF Thread, Saved, Configs, ShapeOf, Shape
  <2>7. p \in Plugins /\ waiting \subseteq Plugins
    BY <2>1 DEF Thread, IInv, TypeOK
  <2>8. QED
    BY <2>1, <2>2, <2>3, <2>4, <2>5, <2>6, <2>7
<1>2. /\ p \in th[t].list /\ th[t] \in Thread /\ ShapeOf(t)
      /\ th[t].pc = "next" /\ th[t].op \in {"supervise", "boot"}
      /\ \A s \in Threads \ {t} : th'[s] = th[s]
      /\ th'[t].pc = "config" /\ th'[t].list = th[t].list \ {p} /\ th'[t].id = p
      /\ th'[t].own = NoInst /\ th'[t].cfg = "enabled"
      /\ \A q \in Plugins \ {p} : th'[t].save[q] = th[t].save[q]
      /\ th'[t].op = th[t].op /\ th'[t].todo = th[t].todo /\ th'[t].at = th[t].at
  BY ZenonT(60), <1>1 DEF IInv, TypeOK, Thread, Saved
<1>3. th' \in [Threads -> Thread]
  <2>1. th[t].save[p] \in Configs
    BY <1>1 DEF Thread, Saved, ShapeOf, Shape
  <2>2. [th[t].save EXCEPT ![p] = "none"] \in Saved
    BY <1>1 DEF Thread, Saved
  <2>3. QED
    BY <1>1, <2>1, <2>2 DEF IInv, TypeOK, Thread, Labels
<1>4. TypeOK'
  BY <1>1, <1>3 DEF IInv, TypeOK, stores
<1>5. ShapeOf(t)'
  BY <1>2, BridgesAre, RegistryAssumption DEF ShapeOf, Shape, Starting, Saved, Configs, Thread
<1>6. /\ Holding(t)' => Holding(t) /\ th'[t].own = th[t].own
      /\ Holding(t) => Holding(t)'
      /\ th'[t].pc # "register"
  BY <1>1, <1>2, IdleFields DEF Holding, ShapeOf, Shape
<1>7. ASSUME OneByOne
      PROVE  /\ \A q \in Plugins : Busy(t, q)' => Busy(t, q) \/ \A s \in Threads : ~Busy(s, q)
             /\ ~Up' => ~Up
             /\ t = Main \/ Up
             /\ Left(t)'
             /\ \A b \in mappings : OwedBy(t, b)' <=> OwedBy(t, b)
             /\ \A b \in mappings : UnmapsYet(t, b) => UnmapsYet(t, b)'
  <2>1. UNCHANGED <<configs, instances, inst, mappings, devices, forgotten, removed>> /\ Left(t)
    BY <1>1, <1>7 DEF IInv, Orderly, Plans, stores
  <2>2. \A q \in Plugins : Busy(t, q)' => Busy(t, q) \/ \A s \in Threads : ~Busy(s, q)
    BY <1>1, <1>2 DEF Busy
  <2>3. (~Up' => ~Up) /\ (t = Main \/ Up)
    BY <1>2, <1>7, Alone DEF Up, IInv, Orderly, Threads
  <2>4. Left(t)'
    BY <1>2, <1>7, <2>1 DEF ShapeOf, Shape, Left, Down, Using, Starting
  <2>5. \A b \in mappings : OwedBy(t, b)' <=> OwedBy(t, b)
    BY <1>1, <1>2, <1>7, <2>1 DEF IInv, TypeOK, OwedBy
  <2>6. \A b \in mappings : UnmapsYet(t, b) => UnmapsYet(t, b)'
    BY <1>1, <1>2, <2>1 DEF UnmapsYet
  <2>7. QED
    BY <2>2, <2>3, <2>4, <2>5, <2>6
<1>8. QED
  BY <1>1, <1>2, <1>4, <1>5, <1>6, <1>7, ThreadMoves

(* All plugins are started: the mappings are next.                         *)
LEMMA BootRevives ==
    ASSUME IInv, NEW t \in Threads, ListDone(t), th[t].op = "boot"
    PROVE  IInv'
<1>1. /\ t = Main /\ th[t] \in Thread /\ ShapeOf(t)
      /\ th[t].pc = "next" /\ ~Up
      /\ th' = [th EXCEPT ![t] = [Idle EXCEPT !.op = "boot", !.pc = "revive", !.todo = mappings]]
      /\ UNCHANGED <<mode, configs, instances, inst, stores, removed>>
      /\ persisted' = persisted /\ waiting' \subseteq Plugins
  BY DEF IInv, TypeOK, Shapes, ShapeOf, ListDone, Up, maps
<1>2. /\ \A s \in Threads \ {t} : th'[s] = th[s]
      /\ th'[t].op = "boot" /\ th'[t].pc = "revive" /\ th'[t].todo = mappings
      /\ th'[t].id = SomePlugin /\ th'[t].own = NoInst /\ th'[t].cfg = "enabled"
      /\ th'[t].at = {} /\ th'[t].list = {} /\ th'[t].save = Nobody
  BY <1>1, IdleFields DEF IInv, TypeOK, Thread
<1>3. th' \in [Threads -> Thread]
  BY <1>1, IdleFields DEF IInv, TypeOK, Thread, Labels, Ops, Configs, Saved
<1>4. TypeOK'
  BY <1>1, <1>3 DEF IInv, TypeOK, stores
<1>5. ShapeOf(t)'
  BY <1>1, <1>2, BridgesAre, RegistryAssumption DEF ShapeOf, Shape, Starting, Saved, Configs, Thread
<1>6. /\ Holding(t)' => Holding(t) /\ th'[t].own = th[t].own
      /\ Holding(t) => Holding(t)'
      /\ th'[t].pc # "register"
  BY <1>1, <1>2, IdleFields DEF Holding, ShapeOf, Shape
<1>7. ASSUME OneByOne
      PROVE  /\ \A q \in Plugins : Busy(t, q)' => Busy(t, q) \/ \A s \in Threads : ~Busy(s, q)
             /\ ~Up' => ~Up
             /\ t = Main \/ Up
             /\ Left(t)'
             /\ \A b \in mappings : OwedBy(t, b)' <=> OwedBy(t, b)
             /\ \A b \in mappings : UnmapsYet(t, b) => UnmapsYet(t, b)'
  <2>1. UNCHANGED <<configs, instances, inst, mappings, devices, forgotten, removed>> /\ Left(t)
    BY <1>1, <1>7 DEF IInv, Orderly, Plans, stores
  <2>2. \A q \in Plugins : Busy(t, q)' => Busy(t, q) \/ \A s \in Threads : ~Busy(s, q)
    BY <1>1, <1>2, <1>7 DEF Busy, IInv, Orderly, Apart
  <2>3. (~Up' => ~Up) /\ (t = Main \/ Up)
    BY <1>1
  <2>4. Left(t)'
    BY <1>1, <1>2, <1>7, <2>1, IdleFields DEF Left, Down, Using, Starting
  <2>5. \A b \in mappings : OwedBy(t, b)' <=> OwedBy(t, b)
    BY <1>1, <1>2, <1>7, <2>1 DEF IInv, TypeOK, OwedBy
  <2>6. \A b \in mappings : UnmapsYet(t, b) => UnmapsYet(t, b)'
    BY <1>1, <1>2, <2>1 DEF UnmapsYet
  <2>7. QED
    BY <2>2, <2>3, <2>4, <2>5, <2>6
<1>8. QED
  BY <1>1, <1>2, <1>4, <1>5, <1>6, <1>7, ThreadMoves

(* An instance that a goroutine holds, or that is registered, is nowhere   *)
(* else.                                                                   *)
LEMMA NotElsewhere ==
    ASSUME IInv, NEW t \in Threads, NEW p \in Plugins, NEW i \in Insts,
           (Holding(t) /\ th[t].own = i) \/ instances[p] = i
    PROVE  /\ \A q \in Plugins \ {p} : instances[q] # i
           /\ \A s \in Threads \ {t} : Holding(s) => th[s].own # i
           /\ \A s \in Threads \ {t} : th[s].pc = "register" => Holding(s) /\ th[s].own # i
<1>1. i # NoInst
  BY RegistryAssumption
<1>2. \A s \in Threads : th[s].pc = "register" => Holding(s)
  BY DEF IInv, Shapes, ShapeOf, Shape, Holding
<1>3. /\ \A q \in Plugins \ {p} : instances[q] # i
      /\ \A s \in Threads \ {t} : Holding(s) => th[s].own # i
  BY <1>1 DEF IInv, Held
<1>4. QED
  BY <1>2, <1>3

(* startPlugin retains the config.                                         *)
LEMMA RetainKeeps ==
    ASSUME IInv, NEW t \in Threads, Retain(t)
    PROVE  IInv'
<1>1. PICK p \in Plugins : th[t].id = p
  BY DEF IInv, TypeOK, Thread
<1>2. /\ t \in Threads /\ th[t] \in Thread /\ ShapeOf(t) /\ th[t].pc # "idle"
      /\ th[t].list \subseteq Plugins
      /\ th[t].pc = "config" /\ th[t].cfg = "enabled" /\ th[t].own = NoInst /\ th[t].op # "remove"
      /\ th[t].op \in {"add", "update", "restart", "enable", "supervise", "boot"}
  BY <1>1, OpsOf, Onward, RegistryAssumption
     DEF IInv, TypeOK, Shapes, ShapeOf, Threads, Thread, Retain, Shape, Starting
<1>3. /\ \A s \in Threads \ {t} : th'[s] = th[s]
      /\ th'[t].pc = "init"
      /\ th'[t].op = th[t].op /\ th'[t].id = th[t].id /\ th'[t].cfg = th[t].cfg
      /\ th'[t].own = th[t].own /\ th'[t].todo = th[t].todo /\ th'[t].at = th[t].at
      /\ th'[t].list = th[t].list /\ th'[t].save = th[t].save
      /\ configs' \in Saved /\ configs'[p] = "enabled"
      /\ \A q \in Plugins \ {p} : configs'[q] = configs[q]
      /\ removed' = IF th[t].op = "add" THEN removed \ {p} ELSE removed
      /\ UNCHANGED <<instances, inst, waiting, persisted, mappings, devices, forgotten>>
      /\ mode' = mode
  BY <1>1, <1>2, OpsOf, Onward DEF IInv, TypeOK, Thread, Saved, Configs, Goto, maps, stores, Retain
<1>4. TypeOK'
  <2>1. th' \in [Threads -> Thread]
    BY <1>1, <1>2, OpsOf, Onward DEF IInv, TypeOK, Thread, Labels, Configs, Goto, Retain
  <2>2. QED
    BY <1>1, <1>2, <1>3, <2>1, BridgesAre DEF IInv, TypeOK, Configs, Saved
<1>5. ShapeOf(t)'
  BY <1>1, <1>2, <1>3, BridgesAre, RegistryAssumption DEF ShapeOf, Shape, Starting
<1>6. Held' /\ (OneByOne => NoLeak')
  <2>1. /\ instances' = instances /\ (Holding(t)' <=> Holding(t))
        /\ Holding(t) => th'[t].own = th[t].own
        /\ th'[t].pc # "register"
    BY <1>2, <1>3 DEF Holding
  <2>2. \A i \in Insts : inst'[i].state = inst[i].state /\ inst'[i].plugin = inst[i].plugin
    BY <1>2, <1>3 DEF IInv, TypeOK
  <2>3. QED
    BY <1>3, <2>1, <2>2, HeldStays
<1>7. ASSUME OneByOne
      PROVE  /\ \A s \in Threads \ {t} : ~Busy(s, p) /\ th[s].op # "boot"
             /\ t = Main \/ Up
             /\ ~Up' => ~Up
             /\ \A q \in Plugins : Busy(t, q)' => Busy(t, q) \/ q = p
             /\ \A q \in Plugins \ {p} :
                  /\ instances'[q] = instances[q] /\ configs'[q] = configs[q]
                  /\ q \in removed' <=> q \in removed
                  /\ instances[q] # NoInst => inst'[instances[q]].subs = inst[instances[q]].subs
             /\ \A s \in Threads \ {t} :
                  th[s].pc = "register" => inst'[th[s].own].subs = inst[th[s].own].subs
             /\ \A c \in Bridges : c[1] # p =>
                  /\ c \in mappings' <=> c \in mappings
                  /\ devices'[c] = devices[c]
                  /\ c \in forgotten' <=> c \in forgotten
                  /\ OwedBy(t, c)' <=> OwedBy(t, c)
                  /\ UnmapsYet(t, c) => UnmapsYet(t, c)'
             /\ Left(t)' /\ RightBut(t, p)'
  <2>1. /\ \A s \in Threads \ {t} : ~Busy(s, p) /\ th[s].op # "boot"
        /\ t = Main \/ Up
        /\ RightBut(t, p) /\ Left(t)
    BY <1>1, <1>2, <1>7, AtWork DEF Busy
  <2>2. /\ ~Up' => ~Up
        /\ \A q \in Plugins : Busy(t, q)' => Busy(t, q) \/ q = p
    BY <1>1, <1>2, <1>3 DEF Up, Busy, Threads
  <2>3. /\ \A q \in Plugins \ {p} :
             /\ instances'[q] = instances[q] /\ configs'[q] = configs[q]
             /\ q \in removed' <=> q \in removed
             /\ instances[q] # NoInst => inst'[instances[q]].subs = inst[instances[q]].subs
        /\ \A s \in Threads \ {t} :
             th[s].pc = "register" => inst'[th[s].own].subs = inst[th[s].own].subs
    BY <1>2, <1>3 DEF IInv, TypeOK
  <2>4. \A c \in Bridges : c[1] # p =>
             /\ c \in mappings' <=> c \in mappings
             /\ devices'[c] = devices[c]
             /\ c \in forgotten' <=> c \in forgotten
             /\ OwedBy(t, c)' <=> OwedBy(t, c)
             /\ UnmapsYet(t, c) => UnmapsYet(t, c)'
    BY <1>1, <1>2, <1>3, BridgesAre DEF OwedBy, UnmapsYet, ShapeOf, Shape, IInv, TypeOK
  <2>5. Left(t)'
    BY <1>1, <1>2, <1>3, <1>7, <2>1 DEF Left, Down, Using, Starting, ShapeOf, Shape
  <2>6. RightBut(t, p)'
    BY <1>1, <1>2, <1>3, <2>1, <2>5, BridgesAre
       DEF RightBut, OwedBy, UnmapsYet, Left, Down, Using, Starting, ShapeOf, Shape
  <2>7. QED
    BY <2>1, <2>2, <2>3, <2>4, <2>5, <2>6
<1>8. QED
  BY <1>2, <1>3, <1>4, <1>5, <1>6, <1>7, LeavesRight

(* SetEnabled stores the config it has worked with.                        *)
LEMMA SetConfigKeeps ==
    ASSUME IInv, NEW t \in Threads, SetConfig(t)
    PROVE  IInv'
<1>1. PICK p \in Plugins : th[t].id = p
  BY DEF IInv, TypeOK, Thread
<1>2. /\ t \in Threads /\ th[t] \in Thread /\ ShapeOf(t) /\ th[t].pc # "idle"
      /\ th[t].list \subseteq Plugins
      /\ th[t].pc = "setcfg" /\ th[t].op \in {"enable", "disable"} /\ th[t].own = NoInst
      /\ th[t].op = "enable" => th[t].cfg = "enabled"
      /\ th[t].op = "disable" => th[t].cfg = "disabled"
  BY <1>1, OpsOf, Onward, RegistryAssumption
     DEF IInv, TypeOK, Shapes, ShapeOf, Threads, Thread, SetConfig, Shape
<1>3. /\ \A s \in Threads \ {t} : th'[s] = th[s]
      /\ th'[t].pc = "persist"
      /\ th'[t].op = th[t].op /\ th'[t].id = th[t].id /\ th'[t].cfg = th[t].cfg
      /\ th'[t].own = th[t].own /\ th'[t].todo = th[t].todo /\ th'[t].at = th[t].at
      /\ th'[t].list = th[t].list /\ th'[t].save = th[t].save
      /\ configs' \in Saved
      /\ \A q \in Plugins \ {p} : configs'[q] = configs[q]
      /\ configs'[p] = th[t].cfg
      /\ UNCHANGED <<instances, inst, waiting, persisted, mappings, devices, forgotten, removed>>
      /\ mode' = mode
  BY <1>1, <1>2, OpsOf, Onward
     DEF IInv, TypeOK, Thread, Saved, Configs, Goto, maps, stores, SetConfig
<1>4. TypeOK'
  <2>1. th' \in [Threads -> Thread]
    BY <1>1, <1>2, OpsOf, Onward DEF IInv, TypeOK, Thread, Labels, Configs, Goto, SetConfig
  <2>2. QED
    BY <1>1, <1>2, <1>3, <2>1, BridgesAre DEF IInv, TypeOK, Configs, Saved
<1>5. ShapeOf(t)'
  BY <1>1, <1>2, <1>3, BridgesAre, RegistryAssumption DEF ShapeOf, Shape, Starting
<1>6. Held' /\ (OneByOne => NoLeak')
  <2>1. /\ instances' = instances /\ (Holding(t)' <=> Holding(t))
        /\ Holding(t) => th'[t].own = th[t].own
        /\ th'[t].pc # "register"
    BY <1>2, <1>3 DEF Holding
  <2>2. \A i \in Insts : inst'[i].state = inst[i].state /\ inst'[i].plugin = inst[i].plugin
    BY <1>2, <1>3 DEF IInv, TypeOK
  <2>3. QED
    BY <1>3, <2>1, <2>2, HeldStays
<1>7. ASSUME OneByOne
      PROVE  /\ \A s \in Threads \ {t} : ~Busy(s, p) /\ th[s].op # "boot"
             /\ t = Main \/ Up
             /\ ~Up' => ~Up
             /\ \A q \in Plugins : Busy(t, q)' => Busy(t, q) \/ q = p
             /\ \A q \in Plugins \ {p} :
                  /\ instances'[q] = instances[q] /\ configs'[q] = configs[q]
                  /\ q \in removed' <=> q \in removed
                  /\ instances[q] # NoInst => inst'[instances[q]].subs = inst[instances[q]].subs
             /\ \A s \in Threads \ {t} :
                  th[s].pc = "register" => inst'[th[s].own].subs = inst[th[s].own].subs
             /\ \A c \in Bridges : c[1] # p =>
                  /\ c \in mappings' <=> c \in mappings
                  /\ devices'[c] = devices[c]
                  /\ c \in forgotten' <=> c \in forgotten
                  /\ OwedBy(t, c)' <=> OwedBy(t, c)
                  /\ UnmapsYet(t, c) => UnmapsYet(t, c)'
             /\ Left(t)' /\ RightBut(t, p)'
  <2>1. /\ \A s \in Threads \ {t} : ~Busy(s, p) /\ th[s].op # "boot"
        /\ t = Main \/ Up
        /\ RightBut(t, p) /\ Left(t)
    BY <1>1, <1>2, <1>7, AtWork DEF Busy
  <2>2. /\ ~Up' => ~Up
        /\ \A q \in Plugins : Busy(t, q)' => Busy(t, q) \/ q = p
    BY <1>1, <1>2, <1>3 DEF Up, Busy, Threads
  <2>3. /\ \A q \in Plugins \ {p} :
             /\ instances'[q] = instances[q] /\ configs'[q] = configs[q]
             /\ q \in removed' <=> q \in removed
             /\ instances[q] # NoInst => inst'[instances[q]].subs = inst[instances[q]].subs
        /\ \A s \in Threads \ {t} :
             th[s].pc = "register" => inst'[th[s].own].subs = inst[th[s].own].subs
    BY <1>2, <1>3 DEF IInv, TypeOK
  <2>4. \A c \in Bridges : c[1] # p =>
             /\ c \in mappings' <=> c \in mappings
             /\ devices'[c] = devices[c]
             /\ c \in forgotten' <=> c \in forgotten
             /\ OwedBy(t, c)' <=> OwedBy(t, c)
             /\ UnmapsYet(t, c) => UnmapsYet(t, c)'
    BY <1>1, <1>2, <1>3, BridgesAre DEF OwedBy, UnmapsYet, ShapeOf, Shape, IInv, TypeOK
  <2>5. Left(t)'
    BY <1>1, <1>2, <1>3, <1>7, <2>1 DEF Left, Down, Using, Starting, ShapeOf, Shape
  <2>6. RightBut(t, p)'
    BY <1>1, <1>2, <1>3, <2>1, <2>5, BridgesAre
       DEF RightBut, OwedBy, UnmapsYet, Left, Down, Using, Starting, ShapeOf, Shape
  <2>7. QED
    BY <2>1, <2>2, <2>3, <2>4, <2>5, <2>6
<1>8. QED
  BY <1>2, <1>3, <1>4, <1>5, <1>6, <1>7, LeavesRight

(* The mapping is removed after its device.                                *)
LEMMA UnmapKeeps ==
    ASSUME IInv, NEW t \in Threads, Unmap(t)
    PROVE  IInv'
<1>1. PICK p \in Plugins : th[t].id = p
  BY DEF IInv, TypeOK, Thread
<1>2. /\ t \in Threads /\ th[t] \in Thread /\ ShapeOf(t) /\ th[t].pc # "idle"
      /\ th[t].list \subseteq Plugins
      /\ th[t].pc = "unmap" /\ th[t].op \in {"remove", "unbridge"}
      /\ th[t].at \subseteq BridgesOf(p)
  BY <1>1, OpsOf, Onward, RegistryAssumption
     DEF IInv, TypeOK, Shapes, ShapeOf, Threads, Thread, Unmap, Shape
<1>3. /\ \A s \in Threads \ {t} : th'[s] = th[s]
      /\ th'[t].pc = "teardown"
      /\ th'[t].at = {}
      /\ th'[t].op = th[t].op /\ th'[t].id = th[t].id /\ th'[t].cfg = th[t].cfg
      /\ th'[t].own = th[t].own /\ th'[t].todo = th[t].todo /\ th'[t].list = th[t].list
      /\ th'[t].save = th[t].save
      /\ mappings' = mappings \ th[t].at
      /\ UNCHANGED <<inst, devices, forgotten>>
      /\ UNCHANGED <<instances, waiting, persisted, configs, removed>>
      /\ mode' = mode
  BY <1>1, <1>2, OpsOf, Onward DEF IInv, TypeOK, Thread, Saved, Configs, Goto, maps, stores, Unmap
<1>4. TypeOK'
  <2>1. th' \in [Threads -> Thread]
    BY ZenonT(60), <1>1, <1>2, OpsOf, Onward DEF IInv, TypeOK, Thread, Labels, Configs, Goto, Unmap
  <2>2. QED
    BY <1>1, <1>2, <1>3, <2>1, BridgesAre DEF IInv, TypeOK, Configs, Saved
<1>5. ShapeOf(t)'
  BY <1>1, <1>2, <1>3, BridgesAre, RegistryAssumption DEF ShapeOf, Shape, Starting
<1>6. Held' /\ (OneByOne => NoLeak')
  <2>1. /\ instances' = instances /\ (Holding(t)' <=> Holding(t))
        /\ Holding(t) => th'[t].own = th[t].own
        /\ th'[t].pc # "register"
    BY <1>2, <1>3 DEF Holding
  <2>2. \A i \in Insts : inst'[i].state = inst[i].state /\ inst'[i].plugin = inst[i].plugin
    BY <1>2, <1>3 DEF IInv, TypeOK
  <2>3. QED
    BY <1>3, <2>1, <2>2, HeldStays
<1>7. ASSUME OneByOne
      PROVE  /\ \A s \in Threads \ {t} : ~Busy(s, p) /\ th[s].op # "boot"
             /\ t = Main \/ Up
             /\ ~Up' => ~Up
             /\ \A q \in Plugins : Busy(t, q)' => Busy(t, q) \/ q = p
             /\ \A q \in Plugins \ {p} :
                  /\ instances'[q] = instances[q] /\ configs'[q] = configs[q]
                  /\ q \in removed' <=> q \in removed
                  /\ instances[q] # NoInst => inst'[instances[q]].subs = inst[instances[q]].subs
             /\ \A s \in Threads \ {t} :
                  th[s].pc = "register" => inst'[th[s].own].subs = inst[th[s].own].subs
             /\ \A c \in Bridges : c[1] # p =>
                  /\ c \in mappings' <=> c \in mappings
                  /\ devices'[c] = devices[c]
                  /\ c \in forgotten' <=> c \in forgotten
                  /\ OwedBy(t, c)' <=> OwedBy(t, c)
                  /\ UnmapsYet(t, c) => UnmapsYet(t, c)'
             /\ Left(t)' /\ RightBut(t, p)'
  <2>1. /\ \A s \in Threads \ {t} : ~Busy(s, p) /\ th[s].op # "boot"
        /\ t = Main \/ Up
        /\ RightBut(t, p) /\ Left(t)
    BY <1>1, <1>2, <1>7, AtWork DEF Busy
  <2>2. /\ ~Up' => ~Up
        /\ \A q \in Plugins : Busy(t, q)' => Busy(t, q) \/ q = p
    BY <1>1, <1>2, <1>3 DEF Up, Busy, Threads
  <2>3. /\ \A q \in Plugins \ {p} :
             /\ instances'[q] = instances[q] /\ configs'[q] = configs[q]
             /\ q \in removed' <=> q \in removed
             /\ instances[q] # NoInst => inst'[instances[q]].subs = inst[instances[q]].subs
        /\ \A s \in Threads \ {t} :
             th[s].pc = "register" => inst'[th[s].own].subs = inst[th[s].own].subs
    BY <1>2, <1>3 DEF IInv, TypeOK
  <2>4. \A c \in Bridges : c[1] # p =>
             /\ c \in mappings' <=> c \in mappings
             /\ devices'[c] = devices[c]
             /\ c \in forgotten' <=> c \in forgotten
             /\ OwedBy(t, c)' <=> OwedBy(t, c)
             /\ UnmapsYet(t, c) => UnmapsYet(t, c)'
    BY <1>1, <1>2, <1>3, BridgesAre DEF OwedBy, UnmapsYet, ShapeOf, Shape, IInv, TypeOK
  <2>5. Left(t)'
    BY <1>1, <1>2, <1>3, <1>7, <2>1 DEF Left, Down, Using, Starting, ShapeOf, Shape
  <2>6. RightBut(t, p)'
    BY <1>1, <1>2, <1>3, <2>1, <2>5, BridgesAre
       DEF RightBut, OwedBy, UnmapsYet, Left, Down, Using, Starting, ShapeOf, Shape
  <2>7. QED
    BY <2>1, <2>2, <2>3, <2>4, <2>5, <2>6
<1>8. QED
  BY <1>2, <1>3, <1>4, <1>5, <1>6, <1>7, LeavesRight

(* CreateBridge adds the mapping and has yet to subscribe it.              *)
LEMMA AddMappingKeeps ==
    ASSUME IInv, NEW t \in Threads, th[t].pc = "create", NEW b \in Bridges, th[t].todo = {b},
    b \notin mappings,
           mappings' = mappings \cup {b}, th' = [th EXCEPT ![t].pc = "restore"],
           UNCHANGED <<maps, inst, devices, forgotten, persisted, removed>>
    PROVE  IInv'
<1>1. PICK p \in Plugins : th[t].id = p
  BY DEF IInv, TypeOK, Thread
<1>2. /\ t \in Threads /\ th[t] \in Thread /\ ShapeOf(t) /\ th[t].pc # "idle"
      /\ th[t].list \subseteq Plugins
      /\ th[t].pc = "create" /\ th[t].op = "create" /\ th[t].own # NoInst
      /\ b \in BridgesOf(p)
  BY ZenonT(60), <1>1, OpsOf, Onward, RegistryAssumption
     DEF IInv, TypeOK, Shapes, ShapeOf, Threads, Thread, Shape
<1>3. /\ \A s \in Threads \ {t} : th'[s] = th[s]
      /\ th'[t].pc = "restore"
      /\ th'[t].op = th[t].op /\ th'[t].id = th[t].id /\ th'[t].cfg = th[t].cfg
      /\ th'[t].own = th[t].own /\ th'[t].todo = th[t].todo /\ th'[t].at = th[t].at
      /\ th'[t].list = th[t].list /\ th'[t].save = th[t].save
      /\ mappings' = mappings \cup {b}
      /\ UNCHANGED <<inst, devices, forgotten>>
      /\ UNCHANGED <<instances, waiting, persisted, configs, removed>>
      /\ mode' = mode
  BY <1>1, <1>2, OpsOf, Onward DEF IInv, TypeOK, Thread, Saved, Configs, Goto, maps, stores
<1>4. TypeOK'
  <2>1. th' \in [Threads -> Thread]
    BY <1>1, <1>2, OpsOf, Onward DEF IInv, TypeOK, Thread, Labels, Configs, Goto
  <2>2. QED
    BY <1>1, <1>2, <1>3, <2>1, BridgesAre DEF IInv, TypeOK, Configs, Saved
<1>5. ShapeOf(t)'
  BY <1>1, <1>2, <1>3, BridgesAre, RegistryAssumption DEF ShapeOf, Shape, Starting
<1>6. Held' /\ (OneByOne => NoLeak')
  <2>1. /\ instances' = instances /\ (Holding(t)' <=> Holding(t))
        /\ Holding(t) => th'[t].own = th[t].own
        /\ th'[t].pc # "register"
    BY <1>2, <1>3 DEF Holding
  <2>2. \A i \in Insts : inst'[i].state = inst[i].state /\ inst'[i].plugin = inst[i].plugin
    BY <1>2, <1>3 DEF IInv, TypeOK
  <2>3. QED
    BY <1>3, <2>1, <2>2, HeldStays
<1>7. ASSUME OneByOne
      PROVE  /\ \A s \in Threads \ {t} : ~Busy(s, p) /\ th[s].op # "boot"
             /\ t = Main \/ Up
             /\ ~Up' => ~Up
             /\ \A q \in Plugins : Busy(t, q)' => Busy(t, q) \/ q = p
             /\ \A q \in Plugins \ {p} :
                  /\ instances'[q] = instances[q] /\ configs'[q] = configs[q]
                  /\ q \in removed' <=> q \in removed
                  /\ instances[q] # NoInst => inst'[instances[q]].subs = inst[instances[q]].subs
             /\ \A s \in Threads \ {t} :
                  th[s].pc = "register" => inst'[th[s].own].subs = inst[th[s].own].subs
             /\ \A c \in Bridges : c[1] # p =>
                  /\ c \in mappings' <=> c \in mappings
                  /\ devices'[c] = devices[c]
                  /\ c \in forgotten' <=> c \in forgotten
                  /\ OwedBy(t, c)' <=> OwedBy(t, c)
                  /\ UnmapsYet(t, c) => UnmapsYet(t, c)'
             /\ Left(t)' /\ RightBut(t, p)'
  <2>1. /\ \A s \in Threads \ {t} : ~Busy(s, p) /\ th[s].op # "boot"
        /\ t = Main \/ Up
        /\ RightBut(t, p) /\ Left(t)
    BY <1>1, <1>2, <1>7, AtWork DEF Busy
  <2>2. /\ ~Up' => ~Up
        /\ \A q \in Plugins : Busy(t, q)' => Busy(t, q) \/ q = p
    BY <1>1, <1>2, <1>3 DEF Up, Busy, Threads
  <2>3. /\ \A q \in Plugins \ {p} :
             /\ instances'[q] = instances[q] /\ configs'[q] = configs[q]
             /\ q \in removed' <=> q \in removed
             /\ instances[q] # NoInst => inst'[instances[q]].subs = inst[instances[q]].subs
        /\ \A s \in Threads \ {t} :
             th[s].pc = "register" => inst'[th[s].own].subs = inst[th[s].own].subs
    BY <1>2, <1>3 DEF IInv, TypeOK
  <2>4. \A c \in Bridges : c[1] # p =>
             /\ c \in mappings' <=> c \in mappings
             /\ devices'[c] = devices[c]
             /\ c \in forgotten' <=> c \in forgotten
             /\ OwedBy(t, c)' <=> OwedBy(t, c)
             /\ UnmapsYet(t, c) => UnmapsYet(t, c)'
    BY <1>1, <1>2, <1>3, BridgesAre DEF OwedBy, UnmapsYet, ShapeOf, Shape, IInv, TypeOK
  <2>5. Left(t)'
    BY <1>1, <1>2, <1>3, <1>7, <2>1 DEF Left, Down, Using, Starting, ShapeOf, Shape
  <2>6. RightBut(t, p)'
    BY <1>1, <1>2, <1>3, <2>1, <2>5, BridgesAre
       DEF RightBut, OwedBy, UnmapsYet, Left, Down, Using, Starting, ShapeOf, Shape
  <2>7. QED
    BY <2>1, <2>2, <2>3, <2>4, <2>5, <2>6
<1>8. QED
  BY <1>2, <1>3, <1>4, <1>5, <1>6, <1>7, LeavesRight

(* A mapping is unsubscribed from the instance that was taken.             *)
LEMMA UnsubscribeKeeps ==
    ASSUME IInv, NEW t \in Threads, NEW b \in Bridges, b \in th[t].todo,
           th[t].pc = "unsub",
           inst' = Unsubscribed(th[t].own, b), th' = [th EXCEPT ![t].todo = @ \ {b}],
           UNCHANGED <<maps, stores, persisted, removed>>
    PROVE  IInv'
<1>1. PICK p \in Plugins : th[t].id = p
  BY DEF IInv, TypeOK, Thread
<1>2. /\ t \in Threads /\ th[t] \in Thread /\ ShapeOf(t) /\ th[t].pc # "idle"
      /\ th[t].list \subseteq Plugins
      /\ th[t].pc = "unsub" /\ th[t].op = "disable"
  BY <1>1, OpsOf, Onward, RegistryAssumption DEF IInv, TypeOK, Shapes, ShapeOf, Threads, Thread
<1>3. /\ \A s \in Threads \ {t} : th'[s] = th[s]
      /\ th'[t].pc = "unsub"
      /\ th'[t].todo = th[t].todo \ {b}
      /\ th'[t].op = th[t].op /\ th'[t].id = th[t].id /\ th'[t].cfg = th[t].cfg
      /\ th'[t].own = th[t].own /\ th'[t].at = th[t].at /\ th'[t].list = th[t].list
      /\ th'[t].save = th[t].save
      /\ UNCHANGED <<mappings, devices, forgotten>>
      /\ UNCHANGED <<instances, waiting, persisted, configs, removed>>
      /\ inst' \in [Insts -> [state : {"open", "closed"}, plugin : Plugins, subs : SUBSET Bridges]]
      /\ \A i \in Insts : inst'[i].state = inst[i].state /\ inst'[i].plugin = inst[i].plugin
      /\ \A i \in Insts : inst'[i].subs = inst[i].subs \/ i = th[t].own
      /\ mode' = mode
  <2>1. /\ \A s \in Threads \ {t} : th'[s] = th[s]
        /\ th'[t].pc = "unsub"
        /\ th'[t].todo = th[t].todo \ {b}
        /\ th'[t].op = th[t].op /\ th'[t].id = th[t].id /\ th'[t].cfg = th[t].cfg
        /\ th'[t].own = th[t].own /\ th'[t].at = th[t].at /\ th'[t].list = th[t].list
        /\ th'[t].save = th[t].save
    BY <1>2 DEF IInv, TypeOK, Thread
  <2>2. th[t].own \in Insts \cup {NoInst} /\ NoInst \notin Insts /\ b \in Bridges
    BY <1>2, RegistryAssumption DEF Thread
  <2>3. /\ inst' \in [Insts -> [state : {"open", "closed"}, plugin : Plugins,
             subs : SUBSET Bridges]]
        /\ \A i \in Insts : inst'[i].state = inst[i].state /\ inst'[i].plugin = inst[i].plugin
        /\ \A i \in Insts : inst'[i].subs = inst[i].subs \/ i = th[t].own
    BY <1>2, <2>2 DEF IInv, TypeOK, Unsubscribed
  <2>4. /\ UNCHANGED <<mappings, devices, forgotten>>
        /\ UNCHANGED <<instances, waiting, persisted, configs, removed>>
        /\ mode' = mode
    BY DEF IInv, TypeOK, maps, stores
  <2>5. QED
    BY <2>1, <2>3, <2>4
<1>4. TypeOK'
  <2>1. th' \in [Threads -> Thread]
    BY <1>1, <1>2, OpsOf, Onward DEF IInv, TypeOK, Thread, Labels, Configs, Goto, Unsubscribed
  <2>2. QED
    BY <1>1, <1>2, <1>3, <2>1, BridgesAre DEF IInv, TypeOK, Configs, Saved
<1>5. ShapeOf(t)'
  BY <1>1, <1>2, <1>3, BridgesAre, RegistryAssumption DEF ShapeOf, Shape, Starting
<1>6. Held' /\ (OneByOne => NoLeak')
  <2>1. /\ instances' = instances /\ ((Holding(t)' <=> Holding(t)))
        /\ Holding(t) => th'[t].own = th[t].own
        /\ th'[t].pc # "register"
    BY <1>2, <1>3 DEF Holding
  <2>2. \A i \in Insts : inst'[i].state = inst[i].state /\ inst'[i].plugin = inst[i].plugin
    BY <1>3
  <2>3. QED
    BY <1>3, <2>1, <2>2, HeldStays
<1>7. ASSUME OneByOne
      PROVE  /\ \A s \in Threads \ {t} : ~Busy(s, p) /\ th[s].op # "boot"
             /\ t = Main \/ Up
             /\ ~Up' => ~Up
             /\ \A q \in Plugins : Busy(t, q)' => Busy(t, q) \/ q = p
             /\ \A q \in Plugins \ {p} :
                  /\ instances'[q] = instances[q] /\ configs'[q] = configs[q]
                  /\ q \in removed' <=> q \in removed
                  /\ instances[q] # NoInst => inst'[instances[q]].subs = inst[instances[q]].subs
             /\ \A s \in Threads \ {t} :
                  th[s].pc = "register" => inst'[th[s].own].subs = inst[th[s].own].subs
             /\ \A c \in Bridges : c[1] # p =>
                  /\ c \in mappings' <=> c \in mappings
                  /\ devices'[c] = devices[c]
                  /\ c \in forgotten' <=> c \in forgotten
                  /\ OwedBy(t, c)' <=> OwedBy(t, c)
                  /\ UnmapsYet(t, c) => UnmapsYet(t, c)'
             /\ Left(t)' /\ RightBut(t, p)'
  <2>1. /\ \A s \in Threads \ {t} : ~Busy(s, p) /\ th[s].op # "boot"
        /\ t = Main \/ Up
        /\ RightBut(t, p) /\ Left(t)
    BY <1>1, <1>2, <1>7, AtWork DEF Busy
  <2>2. /\ ~Up' => ~Up
        /\ \A q \in Plugins : Busy(t, q)' => Busy(t, q) \/ q = p
    BY <1>1, <1>2, <1>3 DEF Up, Busy, Threads
  <2>3. /\ \A q \in Plugins \ {p} :
             /\ instances'[q] = instances[q] /\ configs'[q] = configs[q]
             /\ q \in removed' <=> q \in removed
             /\ instances[q] # NoInst => inst'[instances[q]].subs = inst[instances[q]].subs
        /\ \A s \in Threads \ {t} :
             th[s].pc = "register" => inst'[th[s].own].subs = inst[th[s].own].subs
    <3>1. \A i \in Insts : inst'[i].subs = inst[i].subs \/ i = th[t].own
      BY <1>3
    <3>2. th[t].own = NoInst \/ Holding(t) \/ instances[p] = th[t].own
      BY <1>1, <1>2, <2>1 DEF Holding, Left, Using
    <3>3. /\ th[t].own \in Insts \cup {NoInst} /\ NoInst \notin Insts
          /\ \A q \in Plugins : instances[q] \in Insts \cup {NoInst}
          /\ \A s \in Threads : th[s].own \in Insts \cup {NoInst}
          /\ \A s \in Threads : th[s].pc = "register" => th[s].own # NoInst
      BY RegistryAssumption DEF IInv, TypeOK, Thread, Shapes, ShapeOf, Shape
    <3>4. /\ \A q \in Plugins \ {p} : instances[q] # NoInst => instances[q] # th[t].own
          /\ \A s \in Threads \ {t} : th[s].pc = "register" => th[s].own # th[t].own
      BY <1>2, <3>2, <3>3, NotElsewhere
    <3>5. QED
      BY <1>3, <3>1, <3>3, <3>4
  <2>4. \A c \in Bridges : c[1] # p =>
             /\ c \in mappings' <=> c \in mappings
             /\ devices'[c] = devices[c]
             /\ c \in forgotten' <=> c \in forgotten
             /\ OwedBy(t, c)' <=> OwedBy(t, c)
             /\ UnmapsYet(t, c) => UnmapsYet(t, c)'
    BY <1>1, <1>2, <1>3, BridgesAre DEF OwedBy, UnmapsYet, ShapeOf, Shape, IInv, TypeOK
  <2>5. Left(t)'
    BY <1>1, <1>2, <1>3, <1>7, <2>1 DEF Left, Down, Using, Starting, ShapeOf, Shape
  <2>6. RightBut(t, p)'
    BY <1>1, <1>2, <1>3, <2>1, <2>5, BridgesAre
       DEF RightBut, OwedBy, UnmapsYet, Left, Down, Using, Starting, ShapeOf, Shape
  <2>7. QED
    BY <2>1, <2>2, <2>3, <2>4, <2>5, <2>6
<1>8. QED
  BY <1>2, <1>3, <1>4, <1>5, <1>6, <1>7, LeavesRight

(* A mapping loses its subscription and its device.                        *)
LEMMA TeardownKeeps ==
    ASSUME IInv, NEW t \in Threads, NEW b \in Bridges, b \in th[t].todo,
           th[t].pc = "teardown",
           inst' = Unsubscribed(th[t].own, b), devices' = [devices EXCEPT ![b] = "absent"],
           th' = [th EXCEPT ![t].pc = "unmap", ![t].todo = @ \ {b}, ![t].at = {b}],
           forgotten' = forgotten \ {b},
           UNCHANGED <<maps, mappings, persisted, removed>>
    PROVE  IInv'
<1>1. PICK p \in Plugins : th[t].id = p
  BY DEF IInv, TypeOK, Thread
<1>2. /\ t \in Threads /\ th[t] \in Thread /\ ShapeOf(t) /\ th[t].pc # "idle"
      /\ th[t].list \subseteq Plugins
      /\ th[t].pc = "teardown" /\ th[t].op \in {"remove", "unbridge"} /\ b \in BridgesOf(p)
      /\ th[t].todo \subseteq BridgesOf(p) /\ th[t].at = {}
  BY <1>1, OpsOf, Onward, RegistryAssumption
     DEF IInv, TypeOK, Shapes, ShapeOf, Threads, Thread, Shape
<1>3. /\ \A s \in Threads \ {t} : th'[s] = th[s]
      /\ th'[t].pc = "unmap"
      /\ th'[t].todo = th[t].todo \ {b}
      /\ th'[t].at = {b}
      /\ th'[t].op = th[t].op /\ th'[t].id = th[t].id /\ th'[t].cfg = th[t].cfg
      /\ th'[t].own = th[t].own /\ th'[t].list = th[t].list /\ th'[t].save = th[t].save
      /\ devices' \in [Bridges -> {"absent", "active", "inactive"}]
      /\ devices'[b] = "absent" /\ \A c \in Bridges \ {b} : devices'[c] = devices[c]
      /\ th[t].own # NoInst => inst'[th[t].own].subs = inst[th[t].own].subs \ {b}
      /\ UNCHANGED <<mappings>> /\ forgotten' = forgotten \ {b}
      /\ UNCHANGED <<instances, waiting, persisted, configs, removed>>
      /\ inst' \in [Insts -> [state : {"open", "closed"}, plugin : Plugins, subs : SUBSET Bridges]]
      /\ \A i \in Insts : inst'[i].state = inst[i].state /\ inst'[i].plugin = inst[i].plugin
      /\ \A i \in Insts : inst'[i].subs = inst[i].subs \/ i = th[t].own
      /\ mode' = mode
  <2>1. /\ \A s \in Threads \ {t} : th'[s] = th[s]
        /\ th'[t].pc = "unmap"
        /\ th'[t].todo = th[t].todo \ {b}
        /\ th'[t].at = {b}
        /\ th'[t].op = th[t].op /\ th'[t].id = th[t].id /\ th'[t].cfg = th[t].cfg
        /\ th'[t].own = th[t].own /\ th'[t].list = th[t].list /\ th'[t].save = th[t].save
    BY <1>2 DEF IInv, TypeOK, Thread
  <2>2. th[t].own \in Insts \cup {NoInst} /\ NoInst \notin Insts /\ b \in Bridges
    BY <1>2, RegistryAssumption DEF Thread
  <2>3. /\ th[t].own # NoInst => inst'[th[t].own].subs = inst[th[t].own].subs \ {b}
        /\ inst' \in [Insts -> [state : {"open", "closed"}, plugin : Plugins,
                   subs : SUBSET Bridges]]
        /\ \A i \in Insts : inst'[i].state = inst[i].state /\ inst'[i].plugin = inst[i].plugin
        /\ \A i \in Insts : inst'[i].subs = inst[i].subs \/ i = th[t].own
    BY <1>2, <2>2 DEF IInv, TypeOK, Unsubscribed
  <2>4. /\ devices' \in [Bridges -> {"absent", "active", "inactive"}]
        /\ devices'[b] = "absent" /\ \A c \in Bridges \ {b} : devices'[c] = devices[c]
        /\ UNCHANGED <<mappings>> /\ forgotten' = forgotten \ {b}
        /\ UNCHANGED <<instances, waiting, persisted, configs, removed>>
        /\ mode' = mode
    BY DEF IInv, TypeOK, maps, stores
  <2>5. QED
    BY <2>1, <2>3, <2>4
<1>4. TypeOK'
  <2>1. th' \in [Threads -> Thread]
    BY <1>1, <1>2, OpsOf, Onward DEF IInv, TypeOK, Thread, Labels, Configs, Goto, Unsubscribed
  <2>2. QED
    BY <1>1, <1>2, <1>3, <2>1, BridgesAre DEF IInv, TypeOK, Configs, Saved
<1>5. ShapeOf(t)'
  <2>1. /\ Shape(th[t]) /\ th[t].op \in {"remove", "unbridge"} /\ th[t].pc = "teardown"
        /\ th'[t].op = th[t].op /\ th'[t].pc = "unmap" /\ th'[t].id = th[t].id
        /\ th'[t].todo \subseteq th[t].todo /\ th'[t].at \subseteq BridgesOf(th[t].id)
        /\ th'[t].cfg = th[t].cfg /\ th'[t].own = th[t].own
        /\ th'[t].list = th[t].list /\ th'[t].save = th[t].save
    BY <1>1, <1>2, <1>3 DEF ShapeOf
  <2>2. Shape(th'[t])
    BY <2>1 DEF Shape, Starting
  <2>3. QED
    BY <1>2, <2>1, <2>2 DEF ShapeOf
<1>6. Held' /\ (OneByOne => NoLeak')
  <2>1. /\ instances' = instances /\ ((Holding(t)' <=> Holding(t)))
        /\ Holding(t) => th'[t].own = th[t].own
        /\ th'[t].pc # "register"
    BY <1>2, <1>3 DEF Holding
  <2>2. \A i \in Insts : inst'[i].state = inst[i].state /\ inst'[i].plugin = inst[i].plugin
    BY <1>3
  <2>3. QED
    BY <1>3, <2>1, <2>2, HeldStays
<1>7. ASSUME OneByOne
      PROVE  /\ \A s \in Threads \ {t} : ~Busy(s, p) /\ th[s].op # "boot"
             /\ t = Main \/ Up
             /\ ~Up' => ~Up
             /\ \A q \in Plugins : Busy(t, q)' => Busy(t, q) \/ q = p
             /\ \A q \in Plugins \ {p} :
                  /\ instances'[q] = instances[q] /\ configs'[q] = configs[q]
                  /\ q \in removed' <=> q \in removed
                  /\ instances[q] # NoInst => inst'[instances[q]].subs = inst[instances[q]].subs
             /\ \A s \in Threads \ {t} :
                  th[s].pc = "register" => inst'[th[s].own].subs = inst[th[s].own].subs
             /\ \A c \in Bridges : c[1] # p =>
                  /\ c \in mappings' <=> c \in mappings
                  /\ devices'[c] = devices[c]
                  /\ c \in forgotten' <=> c \in forgotten
                  /\ OwedBy(t, c)' <=> OwedBy(t, c)
                  /\ UnmapsYet(t, c) => UnmapsYet(t, c)'
             /\ Left(t)' /\ RightBut(t, p)'
  <2>1. /\ \A s \in Threads \ {t} : ~Busy(s, p) /\ th[s].op # "boot"
        /\ t = Main \/ Up
        /\ RightBut(t, p) /\ Left(t)
    BY <1>1, <1>2, <1>7, AtWork DEF Busy
  <2>2. /\ ~Up' => ~Up
        /\ \A q \in Plugins : Busy(t, q)' => Busy(t, q) \/ q = p
    BY ZenonT(60), <1>1, <1>2, <1>3 DEF Up, Busy, Threads
  <2>3. /\ \A q \in Plugins \ {p} :
             /\ instances'[q] = instances[q] /\ configs'[q] = configs[q]
             /\ q \in removed' <=> q \in removed
             /\ instances[q] # NoInst => inst'[instances[q]].subs = inst[instances[q]].subs
        /\ \A s \in Threads \ {t} :
             th[s].pc = "register" => inst'[th[s].own].subs = inst[th[s].own].subs
    <3>1. \A i \in Insts : inst'[i].subs = inst[i].subs \/ i = th[t].own
      BY <1>3
    <3>2. th[t].own = NoInst \/ Holding(t) \/ instances[p] = th[t].own
      BY <1>1, <1>2, <2>1 DEF Holding, Left, Using
    <3>3. /\ th[t].own \in Insts \cup {NoInst} /\ NoInst \notin Insts
          /\ \A q \in Plugins : instances[q] \in Insts \cup {NoInst}
          /\ \A s \in Threads : th[s].own \in Insts \cup {NoInst}
          /\ \A s \in Threads : th[s].pc = "register" => th[s].own # NoInst
      BY RegistryAssumption DEF IInv, TypeOK, Thread, Shapes, ShapeOf, Shape
    <3>4. /\ \A q \in Plugins \ {p} : instances[q] # NoInst => instances[q] # th[t].own
          /\ \A s \in Threads \ {t} : th[s].pc = "register" => th[s].own # th[t].own
      BY <1>2, <3>2, <3>3, NotElsewhere
    <3>5. QED
      BY <1>3, <3>1, <3>3, <3>4
  <2>4. \A c \in Bridges : c[1] # p =>
             /\ c \in mappings' <=> c \in mappings
             /\ devices'[c] = devices[c]
             /\ c \in forgotten' <=> c \in forgotten
             /\ OwedBy(t, c)' <=> OwedBy(t, c)
             /\ UnmapsYet(t, c) => UnmapsYet(t, c)'
    BY <1>1, <1>2, <1>3, BridgesAre DEF OwedBy, UnmapsYet, ShapeOf, Shape, IInv, TypeOK
  <2>5. Left(t)'
    BY ZenonT(60), <1>1, <1>2, <1>3, <1>7, <2>1 DEF Left, Down, Using, Starting, ShapeOf, Shape
  <2>6. RightBut(t, p)'
    <3>1. /\ \A c \in Bridges : OwedBy(t, c)' <=> c = b
          /\ \A c \in Bridges : ~OwedBy(t, c)
          /\ \A c \in Bridges : UnmapsYet(t, c) => UnmapsYet(t, c)'
      BY <1>1, <1>2, <1>3 DEF OwedBy, UnmapsYet
    <3>2. CASE th[t].op = "remove"
      <4>1. instances[p] = NoInst /\ instances' = instances
        BY <1>1, <1>2, <1>3, <2>1, <3>2 DEF Left, Down
      <4>2. QED
        BY <1>2, <1>3, <2>1, <3>1, <4>1, BridgesAre DEF RightBut
    <3>3. CASE th[t].op = "unbridge"
      <4>1. /\ instances[p] = th[t].own /\ instances' = instances
            /\ p \notin removed
        BY <1>1, <1>2, <1>3, <2>1, <3>3 DEF Left, Using
      <4>2. QED
        BY SMTT(30), <1>2, <1>3, <2>1, <3>1, <4>1, BridgesAre DEF RightBut
    <3>4. QED
      BY <1>2, <3>2, <3>3
  <2>7. QED
    BY <2>1, <2>2, <2>3, <2>4, <2>5, <2>6
<1>8. QED
  BY <1>2, <1>3, <1>4, <1>5, <1>6, <1>7, LeavesRight

(* A mapping gets its device and its subscription.                         *)
LEMMA RestoreKeeps ==
    ASSUME IInv, NEW t \in Threads, NEW b \in Bridges, b \in th[t].todo,
           th[t].pc = "restore",
           devices' = [devices EXCEPT ![b] =
               IF @ = "absent" \/ th[t].op = "create" THEN "active" ELSE @],
           inst' = [inst EXCEPT ![th[t].own].subs = @ \cup {b}],
           th' = [th EXCEPT ![t].todo = @ \ {b}], forgotten' = forgotten \ {b},
           UNCHANGED <<maps, mappings, persisted, removed>>
    PROVE  IInv'
<1>1. PICK p \in Plugins : th[t].id = p
  BY DEF IInv, TypeOK, Thread
<1>2. /\ t \in Threads /\ th[t] \in Thread /\ ShapeOf(t) /\ th[t].pc # "idle"
      /\ th[t].list \subseteq Plugins
      /\ th[t].pc = "restore" /\ th[t].op \in {"create", "update", "restart", "enable", "supervise"}
      /\ th[t].own # NoInst /\ b \in BridgesOf(p) /\ th[t].todo \subseteq BridgesOf(p)
  BY <1>1, OpsOf, Onward, RegistryAssumption
     DEF IInv, TypeOK, Shapes, ShapeOf, Threads, Thread, Shape
<1>3. /\ \A s \in Threads \ {t} : th'[s] = th[s]
      /\ th'[t].pc = "restore"
      /\ th'[t].todo = th[t].todo \ {b}
      /\ th'[t].op = th[t].op /\ th'[t].id = th[t].id /\ th'[t].cfg = th[t].cfg
      /\ th'[t].own = th[t].own /\ th'[t].at = th[t].at /\ th'[t].list = th[t].list
      /\ th'[t].save = th[t].save
      /\ devices' \in [Bridges -> {"absent", "active", "inactive"}]
      /\ devices'[b] # "absent" /\ \A c \in Bridges \ {b} : devices'[c] = devices[c]
      /\ inst'[th[t].own].subs = inst[th[t].own].subs \cup {b}
      /\ UNCHANGED <<mappings>> /\ forgotten' = forgotten \ {b}
      /\ UNCHANGED <<instances, waiting, persisted, configs, removed>>
      /\ inst' \in [Insts -> [state : {"open", "closed"}, plugin : Plugins, subs : SUBSET Bridges]]
      /\ \A i \in Insts : inst'[i].state = inst[i].state /\ inst'[i].plugin = inst[i].plugin
      /\ \A i \in Insts : inst'[i].subs = inst[i].subs \/ i = th[t].own
      /\ mode' = mode
  <2>1. /\ \A s \in Threads \ {t} : th'[s] = th[s]
        /\ th'[t].pc = "restore"
        /\ th'[t].todo = th[t].todo \ {b}
        /\ th'[t].op = th[t].op /\ th'[t].id = th[t].id /\ th'[t].cfg = th[t].cfg
        /\ th'[t].own = th[t].own /\ th'[t].at = th[t].at /\ th'[t].list = th[t].list
        /\ th'[t].save = th[t].save
    BY <1>2 DEF IInv, TypeOK, Thread
  <2>2. th[t].own \in Insts \cup {NoInst} /\ NoInst \notin Insts /\ b \in Bridges
    BY <1>2, RegistryAssumption DEF Thread
  <2>3. /\ inst'[th[t].own].subs = inst[th[t].own].subs \cup {b}
        /\ inst' \in [Insts -> [state : {"open", "closed"}, plugin : Plugins,
                   subs : SUBSET Bridges]]
        /\ \A i \in Insts : inst'[i].state = inst[i].state /\ inst'[i].plugin = inst[i].plugin
        /\ \A i \in Insts : inst'[i].subs = inst[i].subs \/ i = th[t].own
    BY <1>2, <2>2 DEF IInv, TypeOK
  <2>4. /\ devices' \in [Bridges -> {"absent", "active", "inactive"}]
        /\ devices'[b] # "absent" /\ \A c \in Bridges \ {b} : devices'[c] = devices[c]
        /\ UNCHANGED <<mappings>> /\ forgotten' = forgotten \ {b}
        /\ UNCHANGED <<instances, waiting, persisted, configs, removed>>
        /\ mode' = mode
    BY DEF IInv, TypeOK, maps, stores
  <2>5. QED
    BY <2>1, <2>3, <2>4
<1>4. TypeOK'
  <2>1. th' \in [Threads -> Thread]
    BY <1>1, <1>2, OpsOf, Onward DEF IInv, TypeOK, Thread, Labels, Configs, Goto
  <2>2. QED
    BY <1>1, <1>2, <1>3, <2>1, BridgesAre DEF IInv, TypeOK, Configs, Saved
<1>5. ShapeOf(t)'
  BY SMTT(30), <1>1, <1>2, <1>3, BridgesAre, RegistryAssumption DEF ShapeOf, Shape, Starting
<1>6. Held' /\ (OneByOne => NoLeak')
  <2>1. /\ instances' = instances /\ ((Holding(t)' <=> Holding(t)))
        /\ Holding(t) => th'[t].own = th[t].own
        /\ th'[t].pc # "register"
    BY <1>2, <1>3 DEF Holding
  <2>2. \A i \in Insts : inst'[i].state = inst[i].state /\ inst'[i].plugin = inst[i].plugin
    BY <1>3
  <2>3. QED
    BY <1>3, <2>1, <2>2, HeldStays
<1>7. ASSUME OneByOne
      PROVE  /\ \A s \in Threads \ {t} : ~Busy(s, p) /\ th[s].op # "boot"
             /\ t = Main \/ Up
             /\ ~Up' => ~Up
             /\ \A q \in Plugins : Busy(t, q)' => Busy(t, q) \/ q = p
             /\ \A q \in Plugins \ {p} :
                  /\ instances'[q] = instances[q] /\ configs'[q] = configs[q]
                  /\ q \in removed' <=> q \in removed
                  /\ instances[q] # NoInst => inst'[instances[q]].subs = inst[instances[q]].subs
             /\ \A s \in Threads \ {t} :
                  th[s].pc = "register" => inst'[th[s].own].subs = inst[th[s].own].subs
             /\ \A c \in Bridges : c[1] # p =>
                  /\ c \in mappings' <=> c \in mappings
                  /\ devices'[c] = devices[c]
                  /\ c \in forgotten' <=> c \in forgotten
                  /\ OwedBy(t, c)' <=> OwedBy(t, c)
                  /\ UnmapsYet(t, c) => UnmapsYet(t, c)'
             /\ Left(t)' /\ RightBut(t, p)'
  <2>1. /\ \A s \in Threads \ {t} : ~Busy(s, p) /\ th[s].op # "boot"
        /\ t = Main \/ Up
        /\ RightBut(t, p) /\ Left(t)
    BY <1>1, <1>2, <1>7, AtWork DEF Busy
  <2>2. /\ ~Up' => ~Up
        /\ \A q \in Plugins : Busy(t, q)' => Busy(t, q) \/ q = p
    BY <1>1, <1>2, <1>3 DEF Up, Busy, Threads
  <2>3. /\ \A q \in Plugins \ {p} :
             /\ instances'[q] = instances[q] /\ configs'[q] = configs[q]
             /\ q \in removed' <=> q \in removed
             /\ instances[q] # NoInst => inst'[instances[q]].subs = inst[instances[q]].subs
        /\ \A s \in Threads \ {t} :
             th[s].pc = "register" => inst'[th[s].own].subs = inst[th[s].own].subs
    <3>1. \A i \in Insts : inst'[i].subs = inst[i].subs \/ i = th[t].own
      BY <1>3
    <3>2. th[t].own = NoInst \/ Holding(t) \/ instances[p] = th[t].own
      BY <1>1, <1>2, <2>1 DEF Holding, Left, Using
    <3>3. /\ th[t].own \in Insts \cup {NoInst} /\ NoInst \notin Insts
          /\ \A q \in Plugins : instances[q] \in Insts \cup {NoInst}
          /\ \A s \in Threads : th[s].own \in Insts \cup {NoInst}
          /\ \A s \in Threads : th[s].pc = "register" => th[s].own # NoInst
      BY RegistryAssumption DEF IInv, TypeOK, Thread, Shapes, ShapeOf, Shape
    <3>4. /\ \A q \in Plugins \ {p} : instances[q] # NoInst => instances[q] # th[t].own
          /\ \A s \in Threads \ {t} : th[s].pc = "register" => th[s].own # th[t].own
      BY <1>2, <3>2, <3>3, NotElsewhere
    <3>5. QED
      BY <1>3, <3>1, <3>3, <3>4
  <2>4. \A c \in Bridges : c[1] # p =>
             /\ c \in mappings' <=> c \in mappings
             /\ devices'[c] = devices[c]
             /\ c \in forgotten' <=> c \in forgotten
             /\ OwedBy(t, c)' <=> OwedBy(t, c)
             /\ UnmapsYet(t, c) => UnmapsYet(t, c)'
    BY <1>1, <1>2, <1>3, BridgesAre DEF OwedBy, UnmapsYet, ShapeOf, Shape, IInv, TypeOK
  <2>5. Left(t)'
    BY <1>1, <1>2, <1>3, <1>7, <2>1 DEF Left, Down, Using, Starting, ShapeOf, Shape
  <2>6. RightBut(t, p)'
    <3>1. instances'[p] # NoInst =>
            configs'[p] = "enabled" /\ \A c \in inst'[instances'[p]].subs : c[1] = p
      BY <1>1, <1>2, <1>3, <2>1, BridgesAre DEF RightBut
    <3>2. /\ b \in mappings /\ instances[p] = th[t].own /\ p \notin removed
          /\ OwedBy(t, b) /\ ~OwedBy(t, b)'
      <4>1. /\ th[t].todo \subseteq mappings /\ instances[p] = th[t].own /\ p \notin removed
        BY <1>1, <1>2, <2>1 DEF Left, Using
      <4>2. QED
        BY <1>2, <1>3, <4>1 DEF OwedBy
    <3>3. ASSUME NEW c \in BridgesOf(p)
          PROVE  c \in mappings' /\ configs'[p] # "none" =>
                   devices'[c] # "absent" \/ c \in forgotten' \/ OwedBy(t, c)'
      BY <1>1, <1>2, <1>3, <2>1, <3>3, BridgesAre DEF RightBut, OwedBy, ShapeOf, Shape
    <3>4. ASSUME NEW c \in BridgesOf(p)
          PROVE  /\ devices'[c] # "absent" => c \in mappings'
                 /\ instances'[p] # NoInst =>
                      (c \in inst'[instances'[p]].subs <=> c \in mappings' /\ ~OwedBy(t, c)')
      <4>1. CASE c = b
        BY <1>3, <3>2, <4>1
      <4>2. CASE c # b
        <5>1. OwedBy(t, c)' <=> OwedBy(t, c)
          BY <1>2, <1>3, <4>2 DEF OwedBy
        <5>2. c \in inst'[instances[p]].subs <=> c \in inst[instances[p]].subs
          BY <1>3, <3>2, <4>2
        <5>3. devices'[c] = devices[c]
          BY <1>3, <3>4, <4>2, BridgesAre
        <5>4. QED
          BY <1>3, <2>1, <3>4, <5>1, <5>2, <5>3 DEF RightBut
      <4>3. QED
        BY <4>1, <4>2
    <3>5. p \notin removed'
      BY <1>3, <3>2
    <3>6. BridgesOf(p)' = BridgesOf(p)
      BY DEF BridgesOf
    <3>7. QED
      BY <3>1, <3>2, <3>3, <3>4, <3>5, <3>6 DEF RightBut
  <2>7. QED
    BY <2>1, <2>2, <2>3, <2>4, <2>5, <2>6
<1>8. QED
  BY <1>2, <1>3, <1>4, <1>5, <1>6, <1>7, LeavesRight

(* The daemon's start only remembers a disabled plugin.                    *)
LEMMA NextRemembers ==
    ASSUME IInv, NEW t \in Threads, NextConfig(t), th'[t].pc = "next"
    PROVE  IInv'
<1>0. PICK p \in Plugins :
      /\ p \in th[t].list /\ th[t] \in Thread
      /\ th[t].pc = "next" /\ th[t].op = "boot" /\ th[t].save[p] = "disabled" /\ t = Main
      /\ configs' = [configs EXCEPT ![p] = "disabled"]
      /\ th' = [th EXCEPT ![t].list = @ \ {p}, ![t].id = p, ![t].own = NoInst,
                          ![t].cfg = "disabled", ![t].save[p] = "none", ![t].pc = "next"]
      /\ UNCHANGED <<mode, instances, waiting, inst, stores, persisted, removed>>
  <2>1. th[t] \in Thread /\ ShapeOf(t)
    BY DEF IInv, TypeOK, Shapes
  <2>2. PICK p \in th[t].list :
          LET off == th[t].op = "boot" /\ th[t].save[p] = "disabled"
          IN  /\ configs' = IF off THEN [configs EXCEPT ![p] = "disabled"] ELSE configs
              /\ th' = [th EXCEPT ![t].list = @ \ {p}, ![t].id = p, ![t].own = NoInst,
                                  ![t].cfg = th[t].save[p], ![t].save[p] = "none",
                                  ![t].pc = IF off THEN "next" ELSE "config"]
    BY DEF NextConfig
  <2>3. th[t].op = "boot" /\ th[t].save[p] = "disabled"
    BY <2>1, <2>2 DEF IInv, TypeOK, Thread
  <2>4. t = Main /\ p \in Plugins
    BY <2>1, <2>3 DEF ShapeOf, Thread
  <2>5. /\ th[t].pc = "next"
        /\ UNCHANGED <<mode, instances, waiting, inst, stores, persisted, removed>>
    BY DEF NextConfig
  <2>6. QED
    BY <2>1, <2>2, <2>3, <2>4, <2>5
<1>1. t = Main /\ p \in th[t].list /\ th[t].pc = "next" /\ th[t].op = "boot"
  BY <1>0
<1>2. /\ t \in Threads /\ th[t] \in Thread /\ ShapeOf(t) /\ th[t].pc # "idle"
      /\ th[t].list \subseteq Plugins
      /\ th[t].pc = "next" /\ th[t].op = "boot"
      /\ p \in th[t].list
  BY <1>0, <1>1, OpsOf, Onward, RegistryAssumption
     DEF IInv, TypeOK, Shapes, ShapeOf, Threads, Thread
<1>3. /\ \A s \in Threads \ {t} : th'[s] = th[s]
      /\ th'[t].pc = "next" /\ th'[t].id = p /\ th'[t].list = th[t].list \ {p}
      /\ th'[t].own = NoInst /\ th'[t].cfg = "disabled"
      /\ \A q \in Plugins \ {p} : th'[t].save[q] = th[t].save[q]
      /\ th'[t].op = th[t].op /\ th'[t].todo = th[t].todo /\ th'[t].at = th[t].at
      /\ configs' \in Saved
      /\ \A q \in Plugins \ {p} : configs'[q] = configs[q]
      /\ configs'[p] = "disabled"
      /\ UNCHANGED <<instances, inst, waiting, persisted, mappings, devices, forgotten, removed>>
      /\ mode' = mode
  BY <1>0, <1>2 DEF IInv, TypeOK, Thread, Saved, Configs, stores
<1>4. TypeOK'
  <2>1. [th[t].save EXCEPT ![p] = "none"] \in Saved /\ "disabled" \in Configs
    BY <1>0 DEF Thread, Saved, Configs
  <2>2. [th[t] EXCEPT !.list = @ \ {p}, !.id = p, !.own = NoInst, !.cfg = "disabled",
                      !.save = [th[t].save EXCEPT ![p] = "none"], !.pc = "next"] \in Thread
    BY ZenonT(60), <1>0, <2>1 DEF Thread, Labels
  <2>3. th' = [th EXCEPT ![t] =
          [th[t] EXCEPT !.list = @ \ {p}, !.id = p, !.own = NoInst, !.cfg = "disabled",
                        !.save = [th[t].save EXCEPT ![p] = "none"], !.pc = "next"]]
    BY <1>0 DEF IInv, TypeOK, Thread
  <2>4. th' \in [Threads -> Thread]
    BY <2>2, <2>3 DEF IInv, TypeOK
  <2>5. QED
    BY <1>2, <1>3, <2>4 DEF IInv, TypeOK
<1>5. ShapeOf(t)'
  BY <1>1, <1>2, <1>3, BridgesAre, RegistryAssumption DEF ShapeOf, Shape, Starting
<1>6. Held' /\ (OneByOne => NoLeak')
  <2>1. /\ instances' = instances /\ (Holding(t)' <=> Holding(t))
        /\ Holding(t) => th'[t].own = th[t].own
        /\ th'[t].pc # "register"
    BY <1>2, <1>3 DEF Holding
  <2>2. \A i \in Insts : inst'[i].state = inst[i].state /\ inst'[i].plugin = inst[i].plugin
    BY <1>2, <1>3 DEF IInv, TypeOK
  <2>3. QED
    BY <1>3, <2>1, <2>2, HeldStays
<1>7. ASSUME OneByOne
      PROVE  /\ \A s \in Threads \ {t} : ~Busy(s, p) /\ th[s].op # "boot"
             /\ t = Main \/ Up
             /\ ~Up' => ~Up
             /\ \A q \in Plugins : Busy(t, q)' => Busy(t, q) \/ q = p
             /\ \A q \in Plugins \ {p} :
                  /\ instances'[q] = instances[q] /\ configs'[q] = configs[q]
                  /\ q \in removed' <=> q \in removed
                  /\ instances[q] # NoInst => inst'[instances[q]].subs = inst[instances[q]].subs
             /\ \A s \in Threads \ {t} :
                  th[s].pc = "register" => inst'[th[s].own].subs = inst[th[s].own].subs
             /\ \A c \in Bridges : c[1] # p =>
                  /\ c \in mappings' <=> c \in mappings
                  /\ devices'[c] = devices[c]
                  /\ c \in forgotten' <=> c \in forgotten
                  /\ OwedBy(t, c)' <=> OwedBy(t, c)
                  /\ UnmapsYet(t, c) => UnmapsYet(t, c)'
             /\ Left(t)' /\ RightBut(t, p)'
  <2>1. /\ \A s \in Threads \ {t} : ~Busy(s, p) /\ th[s].op # "boot"
        /\ t = Main \/ Up
        /\ RightBut(t, p) /\ Left(t)
    BY <1>1, <1>2, <1>7, AtWork DEF Busy
  <2>2. /\ ~Up' => ~Up
        /\ \A q \in Plugins : Busy(t, q)' => Busy(t, q) \/ q = p
    BY <1>1, <1>2, <1>3 DEF Up, Busy, Threads
  <2>3. /\ \A q \in Plugins \ {p} :
             /\ instances'[q] = instances[q] /\ configs'[q] = configs[q]
             /\ q \in removed' <=> q \in removed
             /\ instances[q] # NoInst => inst'[instances[q]].subs = inst[instances[q]].subs
        /\ \A s \in Threads \ {t} :
             th[s].pc = "register" => inst'[th[s].own].subs = inst[th[s].own].subs
    BY <1>2, <1>3 DEF IInv, TypeOK
  <2>4. \A c \in Bridges : c[1] # p =>
             /\ c \in mappings' <=> c \in mappings
             /\ devices'[c] = devices[c]
             /\ c \in forgotten' <=> c \in forgotten
             /\ OwedBy(t, c)' <=> OwedBy(t, c)
             /\ UnmapsYet(t, c) => UnmapsYet(t, c)'
    BY <1>1, <1>2, <1>3, BridgesAre DEF OwedBy, UnmapsYet, ShapeOf, Shape, IInv, TypeOK
  <2>5. Left(t)'
    BY <1>1, <1>2, <1>3, <1>7, <2>1 DEF Left, Down, Using, Starting, ShapeOf, Shape
  <2>6. RightBut(t, p)'
    BY <1>1, <1>2, <1>3, <2>1, <2>5, BridgesAre
       DEF RightBut, OwedBy, UnmapsYet, Left, Down, Using, Starting, ShapeOf, Shape
  <2>7. QED
    BY <2>1, <2>2, <2>3, <2>4, <2>5, <2>6
<1>8. QED
  BY <1>2, <1>3, <1>4, <1>5, <1>6, <1>7, LeavesRight

(* The daemon's start announces a mapping's device, and subscribes it if   *)
(* the plugin runs.                                                        *)
LEMMA ReviveKeeps ==
    ASSUME IInv, NEW t \in Threads, t = Main, Revive
    PROVE  IInv'
<1>0. PICK b \in th[t].todo :
      /\ th[t].pc = "revive"
      /\ devices' = [devices EXCEPT ![b] = IF instances[b[1]] = NoInst
                          THEN IF configs[b[1]] = "none" THEN @ ELSE "inactive"
                          ELSE IF @ = "absent" THEN "active" ELSE @]
      /\ inst' = IF instances[b[1]] = NoInst THEN inst
                 ELSE [inst EXCEPT ![instances[b[1]]].subs = @ \cup {b}]
      /\ th' = [th EXCEPT ![t].todo = @ \ {b}]
  BY DEF Revive
<1>1. PICK p \in Plugins : b[1] = p /\ b \in th[t].todo /\ t = Main /\ th[t].pc = "revive"
  BY <1>0 DEF IInv, TypeOK, Thread, Bridges
<1>2. /\ t \in Threads /\ th[t] \in Thread /\ ShapeOf(t) /\ th[t].pc # "idle"
      /\ th[t].list \subseteq Plugins
      /\ th[t].pc = "revive" /\ th[t].op = "boot" /\ b \in Bridges /\ b[1] = p
  BY <1>0, <1>1, OpsOf, Onward, RegistryAssumption
     DEF IInv, TypeOK, Shapes, ShapeOf, Threads, Thread, Shape
<1>3. /\ \A s \in Threads \ {t} : th'[s] = th[s]
      /\ th'[t].pc = "revive"
      /\ th'[t].todo = th[t].todo \ {b}
      /\ th'[t].op = th[t].op /\ th'[t].id = th[t].id /\ th'[t].cfg = th[t].cfg
      /\ th'[t].own = th[t].own /\ th'[t].at = th[t].at /\ th'[t].list = th[t].list
      /\ th'[t].save = th[t].save
      /\ devices' \in [Bridges -> {"absent", "active", "inactive"}]
      /\ \A c \in Bridges \ {b} : devices'[c] = devices[c]
      /\ configs[p] # "none" \/ instances[p] # NoInst => devices'[b] # "absent"
      /\ configs[p] = "none" /\ instances[p] = NoInst => devices'[b] = devices[b]
      /\ inst' \in [Insts -> [state : {"open", "closed"}, plugin : Plugins, subs : SUBSET Bridges]]
      /\ \A i \in Insts : inst'[i].state = inst[i].state /\ inst'[i].plugin = inst[i].plugin
      /\ \A i \in Insts : inst'[i].subs = inst[i].subs \/ i = instances[p]
      /\ instances[p] # NoInst => inst'[instances[p]].subs = inst[instances[p]].subs \cup {b}
      /\ UNCHANGED <<mappings, forgotten>>
      /\ UNCHANGED <<instances, waiting, persisted, configs, removed>>
      /\ mode' = mode
  <2>1. /\ \A s \in Threads \ {t} : th'[s] = th[s]
        /\ th'[t].pc = "revive"
        /\ th'[t].todo = th[t].todo \ {b}
        /\ th'[t].op = th[t].op /\ th'[t].id = th[t].id /\ th'[t].cfg = th[t].cfg
        /\ th'[t].own = th[t].own /\ th'[t].at = th[t].at /\ th'[t].list = th[t].list
        /\ th'[t].save = th[t].save
    BY <1>0, <1>2 DEF IInv, TypeOK, Thread
  <2>2. instances[p] \in Insts \cup {NoInst} /\ NoInst \notin Insts
    BY RegistryAssumption DEF IInv, TypeOK
  <2>3. /\ devices' \in [Bridges -> {"absent", "active", "inactive"}]
        /\ \A c \in Bridges \ {b} : devices'[c] = devices[c]
        /\ configs[p] # "none" \/ instances[p] # NoInst => devices'[b] # "absent"
        /\ configs[p] = "none" /\ instances[p] = NoInst => devices'[b] = devices[b]
    BY <1>0, <1>1, <1>2 DEF IInv, TypeOK
  <2>4. /\ inst' \in [Insts -> [state : {"open", "closed"}, plugin : Plugins,
             subs : SUBSET Bridges]]
        /\ \A i \in Insts : inst'[i].state = inst[i].state /\ inst'[i].plugin = inst[i].plugin
        /\ \A i \in Insts : inst'[i].subs = inst[i].subs \/ i = instances[p]
        /\ instances[p] # NoInst => inst'[instances[p]].subs = inst[instances[p]].subs \cup {b}
    BY <1>0, <1>1, <1>2, <2>2 DEF IInv, TypeOK
  <2>5. /\ UNCHANGED <<mappings, forgotten>>
        /\ UNCHANGED <<instances, waiting, persisted, configs, removed>>
        /\ mode' = mode
    BY DEF Revive, maps
  <2>6. QED
    BY <2>1, <2>3, <2>4, <2>5
<1>4. TypeOK'
  <2>1. th' \in [Threads -> Thread]
    BY <1>0, <1>2 DEF IInv, TypeOK, Thread
  <2>2. QED
    BY <1>1, <1>2, <1>3, <2>1, BridgesAre DEF IInv, TypeOK
<1>5. ShapeOf(t)'
  BY <1>1, <1>2, <1>3, BridgesAre, RegistryAssumption DEF ShapeOf, Shape, Starting
<1>6. Held' /\ (OneByOne => NoLeak')
  <2>1. /\ instances' = instances /\ ((Holding(t)' <=> Holding(t)))
        /\ Holding(t) => th'[t].own = th[t].own
        /\ th'[t].pc # "register"
    BY <1>2, <1>3 DEF Holding
  <2>2. \A i \in Insts : inst'[i].state = inst[i].state /\ inst'[i].plugin = inst[i].plugin
    BY <1>3
  <2>3. QED
    BY <1>3, <2>1, <2>2, HeldStays
<1>7. ASSUME OneByOne
      PROVE  /\ \A s \in Threads \ {t} : ~Busy(s, p) /\ th[s].op # "boot"
             /\ t = Main \/ Up
             /\ ~Up' => ~Up
             /\ \A q \in Plugins : Busy(t, q)' => Busy(t, q) \/ q = p
             /\ \A q \in Plugins \ {p} :
                  /\ instances'[q] = instances[q] /\ configs'[q] = configs[q]
                  /\ q \in removed' <=> q \in removed
                  /\ instances[q] # NoInst => inst'[instances[q]].subs = inst[instances[q]].subs
             /\ \A s \in Threads \ {t} :
                  th[s].pc = "register" => inst'[th[s].own].subs = inst[th[s].own].subs
             /\ \A c \in Bridges : c[1] # p =>
                  /\ c \in mappings' <=> c \in mappings
                  /\ devices'[c] = devices[c]
                  /\ c \in forgotten' <=> c \in forgotten
                  /\ OwedBy(t, c)' <=> OwedBy(t, c)
                  /\ UnmapsYet(t, c) => UnmapsYet(t, c)'
             /\ Left(t)' /\ RightBut(t, p)'
  <2>1. /\ \A s \in Threads \ {t} : ~Busy(s, p) /\ th[s].op # "boot"
        /\ t = Main \/ Up
        /\ RightBut(t, p) /\ Left(t)
    BY <1>1, <1>2, <1>7, AtWork DEF Busy
  <2>2. /\ ~Up' => ~Up
        /\ \A q \in Plugins : Busy(t, q)' => Busy(t, q) \/ q = p
    BY <1>1, <1>2, <1>3 DEF Up, Busy, Threads
  <2>3. /\ \A q \in Plugins \ {p} :
             /\ instances'[q] = instances[q] /\ configs'[q] = configs[q]
             /\ q \in removed' <=> q \in removed
             /\ instances[q] # NoInst => inst'[instances[q]].subs = inst[instances[q]].subs
        /\ \A s \in Threads \ {t} :
             th[s].pc = "register" => inst'[th[s].own].subs = inst[th[s].own].subs
    <3>1. \A i \in Insts : inst'[i].subs = inst[i].subs \/ i = instances[p]
      BY <1>3
    <3>2. /\ instances[p] \in Insts \cup {NoInst} /\ NoInst \notin Insts
          /\ \A q \in Plugins : instances[q] \in Insts \cup {NoInst}
          /\ \A s \in Threads : th[s].own \in Insts \cup {NoInst}
          /\ \A s \in Threads : th[s].pc = "register" => th[s].own # NoInst
      BY RegistryAssumption DEF IInv, TypeOK, Thread, Shapes, ShapeOf, Shape
    <3>3. /\ \A q \in Plugins \ {p} : instances[q] # NoInst => instances[q] # instances[p]
          /\ \A s \in Threads \ {t} : th[s].pc = "register" => th[s].own # instances[p]
      BY <1>2, <3>2, NotElsewhere
    <3>4. QED
      BY <1>3, <3>1, <3>2, <3>3
  <2>4. \A c \in Bridges : c[1] # p =>
             /\ c \in mappings' <=> c \in mappings
             /\ devices'[c] = devices[c]
             /\ c \in forgotten' <=> c \in forgotten
             /\ OwedBy(t, c)' <=> OwedBy(t, c)
             /\ UnmapsYet(t, c) => UnmapsYet(t, c)'
    BY <1>1, <1>2, <1>3, BridgesAre DEF OwedBy, UnmapsYet, ShapeOf, Shape, IInv, TypeOK
  <2>5. Left(t)'
    BY <1>1, <1>2, <1>3, <1>7, <2>1 DEF Left, Down, Using, Starting, ShapeOf, Shape
  <2>6. RightBut(t, p)'
    BY <1>1, <1>2, <1>3, <2>1, <2>5, BridgesAre
       DEF RightBut, OwedBy, UnmapsYet, Left, Down, Using, Starting, ShapeOf, Shape
  <2>7. QED
    BY <2>1, <2>2, <2>3, <2>4, <2>5, <2>6
<1>8. QED
  BY <1>2, <1>3, <1>4, <1>5, <1>6, <1>7, LeavesRight

(* Init opens an instance in a slot that nothing refers to.                *)
LEMMA InitOkKeeps ==
    ASSUME IInv, NEW t \in Threads, InitOk(t)
    PROVE  IInv'
<1>0. PICK i \in Insts :
      /\ th[t].pc = "init"
      /\ \A q \in Plugins : instances[q] # i
      /\ \A s \in Threads : th[s].own # i
      /\ inst' = [inst EXCEPT ![i] = [state |-> "open", plugin |-> th[t].id, subs |-> {}]]
      /\ th' = [th EXCEPT ![t].pc = "register", ![t].own = i]
      /\ UNCHANGED <<maps, stores, persisted, removed>>
  BY DEF InitOk, Unreferenced
<1>1. PICK p \in Plugins : th[t].id = p
  BY DEF IInv, TypeOK, Thread
<1>2. /\ t \in Threads /\ th[t] \in Thread /\ ShapeOf(t) /\ th[t].pc # "idle"
      /\ th[t].list \subseteq Plugins
      /\ th[t].pc = "init" /\ th[t].own = NoInst /\ ~Holding(t)
      /\ th[t].op \in {"add", "update", "restart", "enable", "supervise", "boot"}
      /\ \A q \in Plugins : instances[q] # i
      /\ \A s \in Threads : th[s].own # i
  BY <1>0, <1>1, OpsOf, Onward, RegistryAssumption
     DEF IInv, TypeOK, Shapes, ShapeOf, Threads, Thread, Shape, Starting, Holding
<1>3. /\ \A s \in Threads \ {t} : th'[s] = th[s]
      /\ th'[t].pc = "register"
      /\ th'[t].own = i
      /\ th'[t].op = th[t].op /\ th'[t].id = th[t].id /\ th'[t].cfg = th[t].cfg
      /\ th'[t].todo = th[t].todo /\ th'[t].at = th[t].at /\ th'[t].list = th[t].list
      /\ th'[t].save = th[t].save
      /\ inst' \in [Insts -> [state : {"open", "closed"}, plugin : Plugins, subs : SUBSET Bridges]]
      /\ \A j \in Insts \ {i} : inst'[j] = inst[j]
      /\ inst'[i].state = "open" /\ inst'[i].plugin = p /\ inst'[i].subs = {}
      /\ UNCHANGED <<mappings, devices, forgotten>>
      /\ UNCHANGED <<instances, waiting, persisted, configs, removed>>
      /\ mode' = mode
  BY <1>0, <1>1, <1>2 DEF IInv, TypeOK, Thread, maps, stores
<1>4. TypeOK'
  <2>1. th' \in [Threads -> Thread]
    BY <1>0 DEF IInv, TypeOK, Thread, Labels
  <2>2. QED
    BY <1>2, <1>3, <2>1 DEF IInv, TypeOK
<1>5. ShapeOf(t)'
  BY <1>1, <1>2, <1>3, BridgesAre, RegistryAssumption DEF ShapeOf, Shape, Starting
<1>6. Held' /\ (OneByOne => NoLeak')
  <2>1. \A s \in Threads \ {t} : Holding(s)' <=> Holding(s)
    BY <1>3, Others
  <2>2. /\ NoInst \notin Insts
        /\ \A s \in Threads : th[s].own \in Insts \cup {NoInst}
        /\ \A s \in Threads : th[s].pc = "register" => th[s].own # NoInst /\ Holding(s)
        /\ \A q \in Plugins : instances[q] \in Insts \cup {NoInst}
    BY RegistryAssumption DEF IInv, TypeOK, Thread, Shapes, ShapeOf, Shape, Holding
  <2>3. Holding(t)' /\ i # NoInst
    BY <1>2, <1>3, <2>2 DEF Holding
  <2>4. \A q \in Plugins : instances'[q] # NoInst =>
          inst'[instances'[q]].state = "open" /\ inst'[instances'[q]].plugin = q
    BY <1>2, <1>3, <2>2, <2>3 DEF IInv, Held
  <2>5. \A s \in Threads : Holding(s)' =>
          /\ inst'[th'[s].own].state = "open"
          /\ \A q \in Plugins : instances'[q] # th'[s].own
    BY <1>2, <1>3, <2>1, <2>2, <2>3 DEF IInv, Held, Holding
  <2>6. \A s, r \in Threads : Holding(s)' /\ Holding(r)' /\ th'[r].own = th'[s].own => r = s
    BY <1>2, <1>3, <2>1, <2>2, <2>3 DEF IInv, Held, Holding
  <2>7. \A s \in Threads : th'[s].pc = "register" => inst'[th'[s].own].plugin = th'[s].id
    BY <1>1, <1>2, <1>3, <2>2, <2>3 DEF IInv, Held
  <2>8. ASSUME OneByOne, NEW j \in Insts, inst'[j].state = "open"
        PROVE  \/ \E q \in Plugins : instances'[q] = j
               \/ \E s \in Threads : Holding(s)' /\ th'[s].own = j
    <3>1. CASE j = i
      BY <1>3, <2>3, <3>1
    <3>2. CASE j # i
      <4>1. \/ \E q \in Plugins : instances[q] = j
            \/ \E s \in Threads : Holding(s) /\ th[s].own = j
        BY <1>3, <2>8, <3>2 DEF IInv, Orderly, NoLeak
      <4>2. QED
        BY <1>2, <1>3, <2>1, <4>1
    <3>3. QED
      BY <3>1, <3>2
  <2>9. QED
    BY <2>4, <2>5, <2>6, <2>7, <2>8 DEF Held, NoLeak
<1>7. ASSUME OneByOne
      PROVE  /\ \A s \in Threads \ {t} : ~Busy(s, p) /\ th[s].op # "boot"
             /\ t = Main \/ Up
             /\ ~Up' => ~Up
             /\ \A q \in Plugins : Busy(t, q)' => Busy(t, q) \/ q = p
             /\ \A q \in Plugins \ {p} :
                  /\ instances'[q] = instances[q] /\ configs'[q] = configs[q]
                  /\ q \in removed' <=> q \in removed
                  /\ instances[q] # NoInst => inst'[instances[q]].subs = inst[instances[q]].subs
             /\ \A s \in Threads \ {t} :
                  th[s].pc = "register" => inst'[th[s].own].subs = inst[th[s].own].subs
             /\ \A c \in Bridges : c[1] # p =>
                  /\ c \in mappings' <=> c \in mappings
                  /\ devices'[c] = devices[c]
                  /\ c \in forgotten' <=> c \in forgotten
                  /\ OwedBy(t, c)' <=> OwedBy(t, c)
                  /\ UnmapsYet(t, c) => UnmapsYet(t, c)'
             /\ Left(t)' /\ RightBut(t, p)'
  <2>1. /\ \A s \in Threads \ {t} : ~Busy(s, p) /\ th[s].op # "boot"
        /\ t = Main \/ Up
        /\ RightBut(t, p) /\ Left(t)
    BY <1>1, <1>2, <1>7, AtWork DEF Busy
  <2>2. /\ ~Up' => ~Up
        /\ \A q \in Plugins : Busy(t, q)' => Busy(t, q) \/ q = p
    BY <1>1, <1>2, <1>3 DEF Up, Busy, Threads
  <2>3. /\ \A q \in Plugins \ {p} :
             /\ instances'[q] = instances[q] /\ configs'[q] = configs[q]
             /\ q \in removed' <=> q \in removed
             /\ instances[q] # NoInst => inst'[instances[q]].subs = inst[instances[q]].subs
        /\ \A s \in Threads \ {t} :
             th[s].pc = "register" => inst'[th[s].own].subs = inst[th[s].own].subs
    <3>1. /\ \A q \in Plugins : instances[q] \in Insts \cup {NoInst}
          /\ \A s \in Threads : th[s].own \in Insts \cup {NoInst}
          /\ \A s \in Threads : th[s].pc = "register" => th[s].own # NoInst
      BY DEF IInv, TypeOK, Thread, Shapes, ShapeOf, Shape
    <3>2. QED
      BY <1>2, <1>3, <3>1
  <2>4. \A c \in Bridges : c[1] # p =>
             /\ c \in mappings' <=> c \in mappings
             /\ devices'[c] = devices[c]
             /\ c \in forgotten' <=> c \in forgotten
             /\ OwedBy(t, c)' <=> OwedBy(t, c)
             /\ UnmapsYet(t, c) => UnmapsYet(t, c)'
    BY <1>1, <1>2, <1>3, BridgesAre DEF OwedBy, UnmapsYet, ShapeOf, Shape, IInv, TypeOK
  <2>5. Left(t)'
    BY <1>1, <1>2, <1>3, <1>7, <2>1 DEF Left, Down, Using, Starting, ShapeOf, Shape
  <2>6. RightBut(t, p)'
    BY <1>1, <1>2, <1>3, <2>1, <2>5, BridgesAre
       DEF RightBut, OwedBy, UnmapsYet, Left, Down, Using, Starting, ShapeOf, Shape
  <2>7. QED
    BY <2>1, <2>2, <2>3, <2>4, <2>5, <2>6
<1>8. QED
  BY <1>2, <1>3, <1>4, <1>5, <1>6, <1>7, LeavesRight

(* The instance is registered, and what was owed is now owed by the one    *)
(* who started it.                                                         *)
LEMMA RegisterKeeps ==
    ASSUME IInv, NEW t \in Threads, Register(t)
    PROVE  IInv'
<1>1. PICK p \in Plugins : th[t].id = p
  BY DEF IInv, TypeOK, Thread
<1>2. /\ t \in Threads /\ th[t] \in Thread /\ ShapeOf(t) /\ th[t].pc # "idle"
      /\ th[t].list \subseteq Plugins
      /\ th[t].pc = "register" /\ th[t].own # NoInst /\ th[t].own \in Insts /\ Holding(t)
      /\ th[t].op \in {"add", "update", "restart", "enable", "supervise", "boot"}
      /\ th[t].op = "add" => AfterStart(t) = "persist"
      /\ th[t].op = "boot" => AfterStart(t) = "next"
      /\ th[t].op \notin {"add", "boot"} => AfterStart(t) = "fresh"
  BY <1>1, OpsOf, Onward, RegistryAssumption
     DEF IInv, TypeOK, Shapes, ShapeOf, Threads, Thread, Register, Shape, Starting, Holding
<1>3. /\ \A s \in Threads \ {t} : th'[s] = th[s]
      /\ th'[t].pc = AfterStart(t)
      /\ th'[t].own = NoInst
      /\ th'[t].op = th[t].op /\ th'[t].id = th[t].id /\ th'[t].cfg = th[t].cfg
      /\ th'[t].todo = th[t].todo /\ th'[t].at = th[t].at /\ th'[t].list = th[t].list
      /\ th'[t].save = th[t].save
      /\ instances' \in [Plugins -> Insts \cup {NoInst}]
      /\ instances'[p] = th[t].own
      /\ \A q \in Plugins \ {p} : instances'[q] = instances[q]
      /\ waiting' \subseteq Plugins
      /\ forgotten' = forgotten \ BridgesOf(p)
      /\ UNCHANGED <<configs, inst, mappings, devices, persisted, removed>>
      /\ mode' = mode
  BY <1>1, <1>2, OpsOf, Onward
     DEF IInv, TypeOK, Thread, Saved, Configs, Goto, maps, stores, Register
<1>4. TypeOK'
  <2>1. th' \in [Threads -> Thread]
    BY <1>1, <1>2, OpsOf, Onward DEF IInv, TypeOK, Thread, Labels, Configs, Goto, Register
  <2>2. QED
    BY <1>1, <1>2, <1>3, <2>1, BridgesAre DEF IInv, TypeOK, Configs, Saved
<1>5. ShapeOf(t)'
  BY <1>1, <1>2, <1>3, BridgesAre, RegistryAssumption DEF ShapeOf, Shape, Starting
<1>6. Held' /\ (OneByOne => NoLeak')
  <2>1. \A s \in Threads \ {t} : Holding(s)' <=> Holding(s)
    BY <1>3, Others
  <2>2. /\ NoInst \notin Insts
        /\ \A s \in Threads : th[s].own \in Insts \cup {NoInst}
        /\ \A s \in Threads : th[s].pc = "register" => th[s].own # NoInst /\ Holding(s)
        /\ \A q \in Plugins : instances[q] \in Insts \cup {NoInst}
    BY RegistryAssumption DEF IInv, TypeOK, Thread, Shapes, ShapeOf, Shape, Holding
  <2>3. /\ ~Holding(t)' /\ th'[t].pc # "register"
        /\ \A s \in Threads \ {t} : Holding(s) => th[s].own # th[t].own
        /\ inst[th[t].own].state = "open" /\ inst[th[t].own].plugin = p
    BY <1>1, <1>2, <1>3 DEF IInv, Held, Holding
  <2>4. \A q \in Plugins : instances'[q] # NoInst =>
          inst'[instances'[q]].state = "open" /\ inst'[instances'[q]].plugin = q
    BY <1>2, <1>3, <2>2, <2>3 DEF IInv, Held
  <2>5. \A s \in Threads : Holding(s)' =>
          /\ inst'[th'[s].own].state = "open"
          /\ \A q \in Plugins : instances'[q] # th'[s].own
    BY <1>2, <1>3, <2>1, <2>2, <2>3 DEF IInv, Held, Holding
  <2>6. \A s, r \in Threads : Holding(s)' /\ Holding(r)' /\ th'[r].own = th'[s].own => r = s
    BY <1>2, <1>3, <2>1, <2>2, <2>3 DEF IInv, Held, Holding
  <2>7. \A s \in Threads : th'[s].pc = "register" => inst'[th'[s].own].plugin = th'[s].id
    BY <1>1, <1>2, <1>3, <2>2, <2>3 DEF IInv, Held
  <2>8. ASSUME OneByOne, NEW j \in Insts, inst'[j].state = "open"
        PROVE  \/ \E q \in Plugins : instances'[q] = j
               \/ \E s \in Threads : Holding(s)' /\ th'[s].own = j
    <3>1. CASE j = th[t].own
      BY <1>3, <3>1
    <3>2. CASE j # th[t].own
      <4>1. \/ \E q \in Plugins : instances[q] = j
            \/ \E s \in Threads : Holding(s) /\ th[s].own = j
        BY <1>3, <2>8 DEF IInv, Orderly, NoLeak
      <4>2. instances[p] # j
        BY <1>1, <1>2, <2>2, <2>8 DEF IInv, Orderly, Plans, Left, Down, Starting
      <4>3. QED
        BY <1>3, <2>1, <3>2, <4>1, <4>2
    <3>3. QED
      BY <3>1, <3>2
  <2>9. QED
    BY <2>4, <2>5, <2>6, <2>7, <2>8 DEF Held, NoLeak
<1>7. ASSUME OneByOne
      PROVE  /\ \A s \in Threads \ {t} : ~Busy(s, p) /\ th[s].op # "boot"
             /\ t = Main \/ Up
             /\ ~Up' => ~Up
             /\ \A q \in Plugins : Busy(t, q)' => Busy(t, q) \/ q = p
             /\ \A q \in Plugins \ {p} :
                  /\ instances'[q] = instances[q] /\ configs'[q] = configs[q]
                  /\ q \in removed' <=> q \in removed
                  /\ instances[q] # NoInst => inst'[instances[q]].subs = inst[instances[q]].subs
             /\ \A s \in Threads \ {t} :
                  th[s].pc = "register" => inst'[th[s].own].subs = inst[th[s].own].subs
             /\ \A c \in Bridges : c[1] # p =>
                  /\ c \in mappings' <=> c \in mappings
                  /\ devices'[c] = devices[c]
                  /\ c \in forgotten' <=> c \in forgotten
                  /\ OwedBy(t, c)' <=> OwedBy(t, c)
                  /\ UnmapsYet(t, c) => UnmapsYet(t, c)'
             /\ Left(t)' /\ RightBut(t, p)'
  <2>1. /\ \A s \in Threads \ {t} : ~Busy(s, p) /\ th[s].op # "boot"
        /\ t = Main \/ Up
        /\ RightBut(t, p) /\ Left(t)
    BY <1>1, <1>2, <1>7, AtWork DEF Busy
  <2>2. /\ ~Up' => ~Up
        /\ \A q \in Plugins : Busy(t, q)' => Busy(t, q) \/ q = p
    BY <1>1, <1>2, <1>3 DEF Up, Busy, Threads
  <2>3. /\ \A q \in Plugins \ {p} :
             /\ instances'[q] = instances[q] /\ configs'[q] = configs[q]
             /\ q \in removed' <=> q \in removed
             /\ instances[q] # NoInst => inst'[instances[q]].subs = inst[instances[q]].subs
        /\ \A s \in Threads \ {t} :
             th[s].pc = "register" => inst'[th[s].own].subs = inst[th[s].own].subs
    BY <1>2, <1>3 DEF IInv, TypeOK
  <2>4. \A c \in Bridges : c[1] # p =>
             /\ c \in mappings' <=> c \in mappings
             /\ devices'[c] = devices[c]
             /\ c \in forgotten' <=> c \in forgotten
             /\ OwedBy(t, c)' <=> OwedBy(t, c)
             /\ UnmapsYet(t, c) => UnmapsYet(t, c)'
    BY <1>1, <1>2, <1>3, BridgesAre DEF OwedBy, UnmapsYet, ShapeOf, Shape, IInv, TypeOK
  <2>5. Left(t)'
    BY <1>1, <1>2, <1>3, <1>7, <2>1 DEF Left, Down, Using, Starting, ShapeOf, Shape
  <2>6. RightBut(t, p)'
    BY <1>1, <1>2, <1>3, <2>1, <2>5, BridgesAre
       DEF RightBut, OwedBy, UnmapsYet, Left, Down, Using, Starting, ShapeOf, Shape
  <2>7. QED
    BY <2>1, <2>2, <2>3, <2>4, <2>5, <2>6
<1>8. QED
  BY <1>2, <1>3, <1>4, <1>5, <1>6, <1>7, LeavesRight

(* An operation takes the instance out of the map.                         *)
LEMMA TakeKeeps ==
    ASSUME IInv, NEW t \in Threads, Take(t),
           ~(th[t].op = "update" /\ instances[th[t].id] = NoInst /\ configs[th[t].id] = "none")
    PROVE  IInv'
<1>1. PICK p \in Plugins : th[t].id = p
  BY DEF IInv, TypeOK, Thread
<1>2. /\ t \in Threads /\ th[t] \in Thread /\ ShapeOf(t) /\ th[t].pc # "idle"
      /\ th[t].list \subseteq Plugins
      /\ th[t].pc = "take" /\ th[t].op \in {"update", "restart", "disable"}
      /\ instances[p] \in Insts \cup {NoInst}
  BY <1>1, OpsOf, Onward, RegistryAssumption
     DEF IInv, TypeOK, Shapes, ShapeOf, Threads, Thread, Take
<1>3. /\ \A s \in Threads \ {t} : th'[s] = th[s]
      /\ th'[t].own = instances[p]
      /\ th[t].op # "disable" => th'[t].pc = "close"
      /\ th[t].op = "disable" => th'[t].pc = IF instances[p] = NoInst THEN "setcfg" ELSE "list"
      /\ th'[t].op = th[t].op /\ th'[t].id = th[t].id /\ th'[t].cfg = th[t].cfg
      /\ th'[t].todo = th[t].todo /\ th'[t].at = th[t].at /\ th'[t].list = th[t].list
      /\ th'[t].save = th[t].save
      /\ instances' \in [Plugins -> Insts \cup {NoInst}]
      /\ instances'[p] = NoInst
      /\ \A q \in Plugins \ {p} : instances'[q] = instances[q]
      /\ configs' \in Saved
      /\ \A q \in Plugins \ {p} : configs'[q] = configs[q]
      /\ configs'[p] = IF th[t].op = "disable" THEN "disabled" ELSE configs[p]
      /\ UNCHANGED <<inst, waiting, mappings, devices, forgotten, persisted, removed>>
      /\ mode' = mode
  BY <1>1, <1>2, OpsOf, Onward DEF IInv, TypeOK, Thread, Saved, Configs, Goto, maps, stores, Take
<1>4. TypeOK'
  <2>1. th' \in [Threads -> Thread]
    BY <1>1, <1>2, OpsOf, Onward DEF IInv, TypeOK, Thread, Labels, Configs, Goto, Take
  <2>2. QED
    BY <1>1, <1>2, <1>3, <2>1, BridgesAre DEF IInv, TypeOK, Configs, Saved
<1>5. ShapeOf(t)'
  BY <1>1, <1>2, <1>3, BridgesAre, RegistryAssumption DEF ShapeOf, Shape, Starting
<1>6. Held' /\ (OneByOne => NoLeak')
  <2>1. \A s \in Threads \ {t} : Holding(s)' <=> Holding(s)
    BY <1>3, Others
  <2>2. /\ NoInst \notin Insts
        /\ \A s \in Threads : th[s].own \in Insts \cup {NoInst}
        /\ \A s \in Threads : th[s].pc = "register" => th[s].own # NoInst /\ Holding(s)
        /\ \A q \in Plugins : instances[q] \in Insts \cup {NoInst}
    BY RegistryAssumption DEF IInv, TypeOK, Thread, Shapes, ShapeOf, Shape, Holding
  <2>3. /\ ~Holding(t) /\ (Holding(t)' <=> instances[p] # NoInst) /\ th'[t].pc # "register"
        /\ \A q \in Plugins \ {p} : instances[q] # NoInst => instances[q] # instances[p]
        /\ \A s \in Threads : Holding(s) => th[s].own # instances[p]
        /\ instances[p] # NoInst => inst[instances[p]].state = "open"
    <3>1. ~Holding(t) /\ (Holding(t)' <=> instances[p] # NoInst) /\ th'[t].pc # "register"
      BY <1>2, <1>3, IdleFields DEF Holding
    <3>2. QED
      BY <2>2, <3>1 DEF IInv, Held
  <2>4. \A q \in Plugins : instances'[q] # NoInst =>
          inst'[instances'[q]].state = "open" /\ inst'[instances'[q]].plugin = q
    BY <1>2, <1>3, <2>2, <2>3 DEF IInv, Held
  <2>5. \A s \in Threads : Holding(s)' =>
          /\ inst'[th'[s].own].state = "open"
          /\ \A q \in Plugins : instances'[q] # th'[s].own
    BY <1>2, <1>3, <2>1, <2>2, <2>3 DEF IInv, Held, Holding
  <2>6. \A s, r \in Threads : Holding(s)' /\ Holding(r)' /\ th'[r].own = th'[s].own => r = s
    BY <1>2, <1>3, <2>1, <2>2, <2>3 DEF IInv, Held, Holding
  <2>7. \A s \in Threads : th'[s].pc = "register" => inst'[th'[s].own].plugin = th'[s].id
    BY <1>1, <1>2, <1>3, <2>2, <2>3 DEF IInv, Held
  <2>8. ASSUME OneByOne, NEW j \in Insts, inst'[j].state = "open"
        PROVE  \/ \E q \in Plugins : instances'[q] = j
               \/ \E s \in Threads : Holding(s)' /\ th'[s].own = j
    <3>1. \/ \E q \in Plugins : instances[q] = j
          \/ \E s \in Threads : Holding(s) /\ th[s].own = j
      BY <1>3, <2>8 DEF IInv, Orderly, NoLeak
    <3>2. QED
      BY <1>2, <1>3, <2>1, <2>2, <2>3, <2>8, <3>1
  <2>9. QED
    BY <2>4, <2>5, <2>6, <2>7, <2>8 DEF Held, NoLeak
<1>7. ASSUME OneByOne
      PROVE  /\ \A s \in Threads \ {t} : ~Busy(s, p) /\ th[s].op # "boot"
             /\ t = Main \/ Up
             /\ ~Up' => ~Up
             /\ \A q \in Plugins : Busy(t, q)' => Busy(t, q) \/ q = p
             /\ \A q \in Plugins \ {p} :
                  /\ instances'[q] = instances[q] /\ configs'[q] = configs[q]
                  /\ q \in removed' <=> q \in removed
                  /\ instances[q] # NoInst => inst'[instances[q]].subs = inst[instances[q]].subs
             /\ \A s \in Threads \ {t} :
                  th[s].pc = "register" => inst'[th[s].own].subs = inst[th[s].own].subs
             /\ \A c \in Bridges : c[1] # p =>
                  /\ c \in mappings' <=> c \in mappings
                  /\ devices'[c] = devices[c]
                  /\ c \in forgotten' <=> c \in forgotten
                  /\ OwedBy(t, c)' <=> OwedBy(t, c)
                  /\ UnmapsYet(t, c) => UnmapsYet(t, c)'
             /\ Left(t)' /\ RightBut(t, p)'
  <2>1. /\ \A s \in Threads \ {t} : ~Busy(s, p) /\ th[s].op # "boot"
        /\ t = Main \/ Up
        /\ RightBut(t, p) /\ Left(t)
    BY <1>1, <1>2, <1>7, AtWork DEF Busy
  <2>2. /\ ~Up' => ~Up
        /\ \A q \in Plugins : Busy(t, q)' => Busy(t, q) \/ q = p
    BY <1>1, <1>2, <1>3 DEF Up, Busy, Threads
  <2>3. /\ \A q \in Plugins \ {p} :
             /\ instances'[q] = instances[q] /\ configs'[q] = configs[q]
             /\ q \in removed' <=> q \in removed
             /\ instances[q] # NoInst => inst'[instances[q]].subs = inst[instances[q]].subs
        /\ \A s \in Threads \ {t} :
             th[s].pc = "register" => inst'[th[s].own].subs = inst[th[s].own].subs
    BY <1>2, <1>3 DEF IInv, TypeOK
  <2>4. \A c \in Bridges : c[1] # p =>
             /\ c \in mappings' <=> c \in mappings
             /\ devices'[c] = devices[c]
             /\ c \in forgotten' <=> c \in forgotten
             /\ OwedBy(t, c)' <=> OwedBy(t, c)
             /\ UnmapsYet(t, c) => UnmapsYet(t, c)'
    BY <1>1, <1>2, <1>3, BridgesAre DEF OwedBy, UnmapsYet, ShapeOf, Shape, IInv, TypeOK
  <2>5. Left(t)'
    BY <1>1, <1>2, <1>3, <1>7, <2>1 DEF Left, Down, Using, Starting, ShapeOf, Shape
  <2>6. RightBut(t, p)'
    BY <1>1, <1>2, <1>3, <2>1, <2>5, BridgesAre
       DEF RightBut, OwedBy, UnmapsYet, Left, Down, Using, Starting, ShapeOf, Shape
  <2>7. QED
    BY <2>1, <2>2, <2>3, <2>4, <2>5, <2>6
<1>8. QED
  BY <1>2, <1>3, <1>4, <1>5, <1>6, <1>7, LeavesRight

(* The instance that was taken is closed.                                  *)
LEMMA CloseKeeps ==
    ASSUME IInv, NEW t \in Threads, Close(t)
    PROVE  IInv'
<1>1. PICK p \in Plugins : th[t].id = p
  BY DEF IInv, TypeOK, Thread
<1>2. /\ t \in Threads /\ th[t] \in Thread /\ ShapeOf(t) /\ th[t].pc # "idle"
      /\ th[t].list \subseteq Plugins
      /\ th[t].pc = "close" /\ th[t].op \in {"remove", "update", "restart", "disable"}
      /\ th[t].own \in Insts \cup {NoInst} /\ (Holding(t) <=> th[t].own # NoInst)
      /\ th[t].own # NoInst => inst[th[t].own].state = "open"
      /\ th[t].op = "remove" => AfterClose(t) = "persist"
      /\ th[t].op = "disable" => AfterClose(t) = "setcfg"
      /\ th[t].op \notin {"remove", "disable"} => AfterClose(t) = "config"
  BY <1>1, OpsOf, Onward, RegistryAssumption
     DEF IInv, TypeOK, Shapes, ShapeOf, Threads, Thread, Close, Held, Holding
<1>3. /\ \A s \in Threads \ {t} : th'[s] = th[s]
      /\ th'[t].pc = AfterClose(t)
      /\ th'[t].own = NoInst
      /\ th'[t].op = th[t].op /\ th'[t].id = th[t].id /\ th'[t].cfg = th[t].cfg
      /\ th'[t].todo = th[t].todo /\ th'[t].at = th[t].at /\ th'[t].list = th[t].list
      /\ th'[t].save = th[t].save
      /\ inst' \in [Insts -> [state : {"open", "closed"}, plugin : Plugins, subs : SUBSET Bridges]]
      /\ \A j \in Insts \ {th[t].own} : inst'[j] = inst[j]
      /\ th[t].own # NoInst => inst'[th[t].own].state = "closed"
      /\ UNCHANGED <<mappings, devices, forgotten>>
      /\ UNCHANGED <<instances, waiting, persisted, configs, removed>>
      /\ mode' = mode
  <2>1. /\ \A s \in Threads \ {t} : th'[s] = th[s]
        /\ th'[t].pc = AfterClose(t)
        /\ th'[t].own = NoInst
        /\ th'[t].op = th[t].op /\ th'[t].id = th[t].id /\ th'[t].cfg = th[t].cfg
        /\ th'[t].todo = th[t].todo /\ th'[t].at = th[t].at /\ th'[t].list = th[t].list
        /\ th'[t].save = th[t].save
    BY <1>2 DEF Close, IInv, TypeOK, Thread
  <2>2. Closed \in [state : {"open", "closed"}, plugin : Plugins, subs : SUBSET Bridges]
    BY IdleFields DEF Closed
  <2>3. inst' = IF th[t].own = NoInst THEN inst ELSE [inst EXCEPT ![th[t].own] = Closed]
    BY <1>2 DEF Close, IInv, TypeOK
  <2>4. /\ inst' \in [Insts -> [state : {"open", "closed"}, plugin : Plugins,
             subs : SUBSET Bridges]]
        /\ \A j \in Insts \ {th[t].own} : inst'[j] = inst[j]
        /\ th[t].own # NoInst => inst'[th[t].own].state = "closed"
    BY <1>2, <2>2, <2>3 DEF IInv, TypeOK, Closed
  <2>5. /\ UNCHANGED <<mappings, devices, forgotten>>
        /\ UNCHANGED <<instances, waiting, persisted, configs, removed>>
        /\ mode' = mode
    BY DEF Close, maps, stores
  <2>6. QED
    BY <2>1, <2>4, <2>5
<1>4. TypeOK'
  <2>1. th' \in [Threads -> Thread]
    BY ZenonT(60), <1>1, <1>2, OpsOf, Onward DEF IInv, TypeOK, Thread, Labels, Configs, Goto, Close
  <2>2. QED
    BY <1>1, <1>2, <1>3, <2>1, BridgesAre DEF IInv, TypeOK, Configs, Saved
<1>5. ShapeOf(t)'
  BY <1>1, <1>2, <1>3, BridgesAre, RegistryAssumption DEF ShapeOf, Shape, Starting
<1>6. Held' /\ (OneByOne => NoLeak')
  <2>1. \A s \in Threads \ {t} : Holding(s)' <=> Holding(s)
    BY <1>3, Others
  <2>2. /\ NoInst \notin Insts
        /\ \A s \in Threads : th[s].own \in Insts \cup {NoInst}
        /\ \A s \in Threads : th[s].pc = "register" => th[s].own # NoInst /\ Holding(s)
        /\ \A q \in Plugins : instances[q] \in Insts \cup {NoInst}
    BY RegistryAssumption DEF IInv, TypeOK, Thread, Shapes, ShapeOf, Shape, Holding
  <2>3. /\ ~Holding(t)' /\ th'[t].pc # "register"
        /\ \A q \in Plugins : th[t].own # NoInst => instances[q] # th[t].own
        /\ \A s \in Threads \ {t} : Holding(s) => th[s].own # th[t].own
    BY <1>2, <1>3 DEF IInv, Held, Holding
  <2>4. \A q \in Plugins : instances'[q] # NoInst =>
          inst'[instances'[q]].state = "open" /\ inst'[instances'[q]].plugin = q
    BY <1>2, <1>3, <2>2, <2>3 DEF IInv, Held
  <2>5. \A s \in Threads : Holding(s)' =>
          /\ inst'[th'[s].own].state = "open"
          /\ \A q \in Plugins : instances'[q] # th'[s].own
    BY <1>2, <1>3, <2>1, <2>2, <2>3 DEF IInv, Held, Holding
  <2>6. \A s, r \in Threads : Holding(s)' /\ Holding(r)' /\ th'[r].own = th'[s].own => r = s
    BY <1>2, <1>3, <2>1, <2>2, <2>3 DEF IInv, Held, Holding
  <2>7. \A s \in Threads : th'[s].pc = "register" => inst'[th'[s].own].plugin = th'[s].id
    BY <1>1, <1>2, <1>3, <2>2, <2>3 DEF IInv, Held
  <2>8. ASSUME OneByOne, NEW j \in Insts, inst'[j].state = "open"
        PROVE  \/ \E q \in Plugins : instances'[q] = j
               \/ \E s \in Threads : Holding(s)' /\ th'[s].own = j
    <3>1. j # th[t].own
      BY <1>2, <1>3, <2>2, <2>8
    <3>2. \/ \E q \in Plugins : instances[q] = j
          \/ \E s \in Threads : Holding(s) /\ th[s].own = j
      BY <1>3, <2>8, <3>1 DEF IInv, Orderly, NoLeak
    <3>3. QED
      BY <1>3, <2>1, <3>1, <3>2
  <2>9. QED
    BY <2>4, <2>5, <2>6, <2>7, <2>8 DEF Held, NoLeak
<1>7. ASSUME OneByOne
      PROVE  /\ \A s \in Threads \ {t} : ~Busy(s, p) /\ th[s].op # "boot"
             /\ t = Main \/ Up
             /\ ~Up' => ~Up
             /\ \A q \in Plugins : Busy(t, q)' => Busy(t, q) \/ q = p
             /\ \A q \in Plugins \ {p} :
                  /\ instances'[q] = instances[q] /\ configs'[q] = configs[q]
                  /\ q \in removed' <=> q \in removed
                  /\ instances[q] # NoInst => inst'[instances[q]].subs = inst[instances[q]].subs
             /\ \A s \in Threads \ {t} :
                  th[s].pc = "register" => inst'[th[s].own].subs = inst[th[s].own].subs
             /\ \A c \in Bridges : c[1] # p =>
                  /\ c \in mappings' <=> c \in mappings
                  /\ devices'[c] = devices[c]
                  /\ c \in forgotten' <=> c \in forgotten
                  /\ OwedBy(t, c)' <=> OwedBy(t, c)
                  /\ UnmapsYet(t, c) => UnmapsYet(t, c)'
             /\ Left(t)' /\ RightBut(t, p)'
  <2>1. /\ \A s \in Threads \ {t} : ~Busy(s, p) /\ th[s].op # "boot"
        /\ t = Main \/ Up
        /\ RightBut(t, p) /\ Left(t)
    BY <1>1, <1>2, <1>7, AtWork DEF Busy
  <2>2. /\ ~Up' => ~Up
        /\ \A q \in Plugins : Busy(t, q)' => Busy(t, q) \/ q = p
    BY <1>1, <1>2, <1>3 DEF Up, Busy, Threads
  <2>3. /\ \A q \in Plugins \ {p} :
             /\ instances'[q] = instances[q] /\ configs'[q] = configs[q]
             /\ q \in removed' <=> q \in removed
             /\ instances[q] # NoInst => inst'[instances[q]].subs = inst[instances[q]].subs
        /\ \A s \in Threads \ {t} :
             th[s].pc = "register" => inst'[th[s].own].subs = inst[th[s].own].subs
    <3>1. \A i \in Insts : inst'[i].subs = inst[i].subs \/ i = th[t].own
      BY <1>3
    <3>2. th[t].own = NoInst \/ Holding(t) \/ instances[p] = th[t].own
      BY <1>1, <1>2, <2>1 DEF Holding, Left, Using
    <3>3. /\ th[t].own \in Insts \cup {NoInst} /\ NoInst \notin Insts
          /\ \A q \in Plugins : instances[q] \in Insts \cup {NoInst}
          /\ \A s \in Threads : th[s].own \in Insts \cup {NoInst}
          /\ \A s \in Threads : th[s].pc = "register" => th[s].own # NoInst
      BY RegistryAssumption DEF IInv, TypeOK, Thread, Shapes, ShapeOf, Shape
    <3>4. /\ \A q \in Plugins \ {p} : instances[q] # NoInst => instances[q] # th[t].own
          /\ \A s \in Threads \ {t} : th[s].pc = "register" => th[s].own # th[t].own
      BY <1>2, <3>2, <3>3, NotElsewhere
    <3>5. QED
      BY <1>3, <3>1, <3>3, <3>4
  <2>4. \A c \in Bridges : c[1] # p =>
             /\ c \in mappings' <=> c \in mappings
             /\ devices'[c] = devices[c]
             /\ c \in forgotten' <=> c \in forgotten
             /\ OwedBy(t, c)' <=> OwedBy(t, c)
             /\ UnmapsYet(t, c) => UnmapsYet(t, c)'
    BY <1>1, <1>2, <1>3, BridgesAre DEF OwedBy, UnmapsYet, ShapeOf, Shape, IInv, TypeOK
  <2>5. Left(t)'
    BY <1>1, <1>2, <1>3, <1>7, <2>1 DEF Left, Down, Using, Starting, ShapeOf, Shape
  <2>6. RightBut(t, p)'
    BY <1>1, <1>2, <1>3, <2>1, <2>5, BridgesAre
       DEF RightBut, OwedBy, UnmapsYet, Left, Down, Using, Starting, ShapeOf, Shape
  <2>7. QED
    BY <2>1, <2>2, <2>3, <2>4, <2>5, <2>6
<1>8. QED
  BY <1>2, <1>3, <1>4, <1>5, <1>6, <1>7, LeavesRight

(* RemovePlugin takes the instance and the config away.                    *)
LEMMA RemovePluginKeeps ==
    ASSUME IInv, NEW t \in Admins, NEW p \in Plugins, RemovePlugin(t, p)
    PROVE  IInv'
<1>1. RemovePlugin(t, p) /\ MayBegin(t, p)
  BY DEF RemovePlugin
<1>2. /\ t \in Threads /\ th[t] \in Thread /\ ShapeOf(t) /\ th[t] = Idle
      /\ th[t].list \subseteq Plugins
      /\ t # Main /\ t # Supervisor /\ instances[p] \in Insts \cup {NoInst}
      /\ MayBegin(t, p)
  BY <1>1, IdleFields, RegistryAssumption
     DEF IInv, TypeOK, Shapes, ShapeOf, Threads, Thread, RemovePlugin, MayBegin, Shape
<1>3. /\ \A s \in Threads \ {t} : th'[s] = th[s]
      /\ th'[t].pc = "list" /\ th'[t].op = "remove" /\ th'[t].id = p
      /\ th'[t].own = instances[p] /\ th'[t].cfg = "enabled"
      /\ th'[t].todo = {} /\ th'[t].at = {} /\ th'[t].list = {} /\ th'[t].save = Nobody
      /\ instances' \in [Plugins -> Insts \cup {NoInst}]
      /\ instances'[p] = NoInst
      /\ \A q \in Plugins \ {p} : instances'[q] = instances[q]
      /\ configs' \in Saved
      /\ \A q \in Plugins \ {p} : configs'[q] = configs[q]
      /\ configs'[p] = "none"
      /\ removed' = IF OneByOne THEN removed \cup {p} ELSE removed
      /\ waiting' \subseteq Plugins
      /\ UNCHANGED <<inst, mappings, devices, forgotten, persisted>>
      /\ mode' = mode
  BY <1>1, <1>2, IdleFields DEF RemovePlugin, Removed, IInv, TypeOK, Thread, Saved, Configs, stores
<1>4. TypeOK'
  <2>1. [Idle EXCEPT !.op = "remove", !.pc = "list", !.id = p, !.own = instances[p]] \in Thread
    BY ZenonT(60), <1>2, IdleFields DEF Thread, Labels, Ops
  <2>2. th' \in [Threads -> Thread]
    BY <1>1, <1>2, <2>1 DEF RemovePlugin, IInv, TypeOK
  <2>3. QED
    BY <1>2, <1>3, <2>2 DEF IInv, TypeOK
<1>5. ShapeOf(t)'
  BY <1>1, <1>2, <1>3, BridgesAre, RegistryAssumption DEF ShapeOf, Shape, Starting
<1>6. Held' /\ (OneByOne => NoLeak')
  <2>1. \A s \in Threads \ {t} : Holding(s)' <=> Holding(s)
    BY <1>2, <1>3, Others
  <2>2. /\ NoInst \notin Insts
        /\ \A s \in Threads : th[s].own \in Insts \cup {NoInst}
        /\ \A s \in Threads : th[s].pc = "register" => th[s].own # NoInst /\ Holding(s)
        /\ \A q \in Plugins : instances[q] \in Insts \cup {NoInst}
    BY RegistryAssumption DEF IInv, TypeOK, Thread, Shapes, ShapeOf, Shape, Holding
  <2>3. /\ ~Holding(t) /\ (Holding(t)' <=> instances[p] # NoInst) /\ th'[t].pc # "register"
        /\ \A q \in Plugins \ {p} : instances[q] # NoInst => instances[q] # instances[p]
        /\ \A s \in Threads : Holding(s) => th[s].own # instances[p]
        /\ instances[p] # NoInst => inst[instances[p]].state = "open"
    <3>1. ~Holding(t) /\ (Holding(t)' <=> instances[p] # NoInst) /\ th'[t].pc # "register"
      BY <1>2, <1>3, IdleFields DEF Holding
    <3>2. QED
      BY <2>2, <3>1 DEF IInv, Held
  <2>4. \A q \in Plugins : instances'[q] # NoInst =>
          inst'[instances'[q]].state = "open" /\ inst'[instances'[q]].plugin = q
    BY <1>2, <1>3, <2>2, <2>3 DEF IInv, Held
  <2>5. \A s \in Threads : Holding(s)' =>
          /\ inst'[th'[s].own].state = "open"
          /\ \A q \in Plugins : instances'[q] # th'[s].own
    BY <1>2, <1>3, <2>1, <2>2, <2>3 DEF IInv, Held, Holding
  <2>6. \A s, r \in Threads : Holding(s)' /\ Holding(r)' /\ th'[r].own = th'[s].own => r = s
    BY <1>2, <1>3, <2>1, <2>2, <2>3 DEF IInv, Held, Holding
  <2>7. \A s \in Threads : th'[s].pc = "register" => inst'[th'[s].own].plugin = th'[s].id
    BY <1>1, <1>2, <1>3, <2>2, <2>3 DEF IInv, Held
  <2>8. ASSUME OneByOne, NEW j \in Insts, inst'[j].state = "open"
        PROVE  \/ \E q \in Plugins : instances'[q] = j
               \/ \E s \in Threads : Holding(s)' /\ th'[s].own = j
    <3>1. \/ \E q \in Plugins : instances[q] = j
          \/ \E s \in Threads : Holding(s) /\ th[s].own = j
      BY <1>3, <2>8 DEF IInv, Orderly, NoLeak
    <3>2. QED
      BY <1>2, <1>3, <2>1, <2>2, <2>3, <2>8, <3>1
  <2>9. QED
    BY <2>4, <2>5, <2>6, <2>7, <2>8 DEF Held, NoLeak
<1>7. ASSUME OneByOne
      PROVE  /\ \A s \in Threads \ {t} : ~Busy(s, p) /\ th[s].op # "boot"
             /\ t = Main \/ Up
             /\ ~Up' => ~Up
             /\ \A q \in Plugins : Busy(t, q)' => Busy(t, q) \/ q = p
             /\ \A q \in Plugins \ {p} :
                  /\ instances'[q] = instances[q] /\ configs'[q] = configs[q]
                  /\ q \in removed' <=> q \in removed
                  /\ instances[q] # NoInst => inst'[instances[q]].subs = inst[instances[q]].subs
             /\ \A s \in Threads \ {t} :
                  th[s].pc = "register" => inst'[th[s].own].subs = inst[th[s].own].subs
             /\ \A c \in Bridges : c[1] # p =>
                  /\ c \in mappings' <=> c \in mappings
                  /\ devices'[c] = devices[c]
                  /\ c \in forgotten' <=> c \in forgotten
                  /\ OwedBy(t, c)' <=> OwedBy(t, c)
                  /\ UnmapsYet(t, c) => UnmapsYet(t, c)'
             /\ Left(t)' /\ RightBut(t, p)'
  <2>1. /\ \A s \in Threads \ {t} : ~Busy(s, p) /\ th[s].op # "boot"
        /\ t = Main \/ Up
        /\ RightBut(t, p) /\ Left(t)
    <3>1. Up /\ \A s \in Threads : ~Busy(s, p)
      BY <1>2, <1>7 DEF MayBegin, OneByOne
    <3>2. \A s \in Threads : th[s].op # "boot"
      BY <3>1, IdleFields DEF IInv, Shapes, ShapeOf, Shape, Up
    <3>3. QED
      BY <1>2, <1>7, <3>1, <3>2, FindsRight
  <2>2. /\ ~Up' => ~Up
        /\ \A q \in Plugins : Busy(t, q)' => Busy(t, q) \/ q = p
    BY <1>1, <1>2, <1>3 DEF Up, Busy, Threads
  <2>3. /\ \A q \in Plugins \ {p} :
             /\ instances'[q] = instances[q] /\ configs'[q] = configs[q]
             /\ q \in removed' <=> q \in removed
             /\ instances[q] # NoInst => inst'[instances[q]].subs = inst[instances[q]].subs
        /\ \A s \in Threads \ {t} :
             th[s].pc = "register" => inst'[th[s].own].subs = inst[th[s].own].subs
    BY <1>2, <1>3 DEF IInv, TypeOK
  <2>4. \A c \in Bridges : c[1] # p =>
             /\ c \in mappings' <=> c \in mappings
             /\ devices'[c] = devices[c]
             /\ c \in forgotten' <=> c \in forgotten
             /\ OwedBy(t, c)' <=> OwedBy(t, c)
             /\ UnmapsYet(t, c) => UnmapsYet(t, c)'
    BY <1>2, <1>3, BridgesAre, IdleFields DEF OwedBy, UnmapsYet, ShapeOf, Shape, IInv, TypeOK
  <2>5. Left(t)'
    BY <1>1, <1>2, <1>3, <1>7, <2>1 DEF Left, Down, Using, Starting, ShapeOf, Shape
  <2>6. RightBut(t, p)'
    BY <1>1, <1>2, <1>3, <2>1, <2>5, BridgesAre
       DEF RightBut, OwedBy, UnmapsYet, Left, Down, Using, Starting, ShapeOf, Shape
  <2>7. QED
    BY <2>1, <2>2, <2>3, <2>4, <2>5, <2>6
<1>8. QED
  BY <1>2, <1>3, <1>4, <1>5, <1>6, <1>7, LeavesRight

(* What changes nothing the invariant is about leaves it.                  *)
LEMMA StutterKeeps ==
    ASSUME IInv,
           UNCHANGED <<mode, configs, instances, inst, mappings, devices, forgotten, th, removed>>,
           persisted' \in Saved, waiting' \subseteq Plugins
    PROVE  IInv'
<1>1. TypeOK'
  BY DEF IInv, TypeOK
<1>2. Shapes'
  BY DEF IInv, Shapes, ShapeOf
<1>3. Held'
  BY DEF IInv, Held, Holding
<1>4. ASSUME OneByOne
      PROVE  Orderly'
  <2>1. Apart'
    BY <1>4 DEF IInv, Orderly, Apart, Busy, Up
  <2>2. NoLeak'
    BY <1>4 DEF IInv, Orderly, NoLeak, Holding
  <2>3. Plans'
    BY <1>4 DEF IInv, Orderly, Plans, Left, Down, Using
  <2>4. Enabled'
    BY <1>4 DEF IInv, Orderly, Enabled
  <2>5. \A b \in Bridges : (Owed(b)' <=> Owed(b)) /\ (Remains(b)' <=> Remains(b))
    BY DEF Owed, OwedBy, Remains, UnmapsYet
  <2>6. \A b \in Bridges : AgreeOn(b)'
    BY <1>4, <2>5 DEF IInv, Orderly, Agree, AgreeOn
  <2>7. Agree'
    BY <1>4, <2>6 DEF IInv, Orderly, Agree
  <2>8. mappings \subseteq Bridges
    BY DEF IInv, TypeOK
  <2>9. Gone'
    BY <1>4, <2>5, <2>8 DEF IInv, Orderly, Gone
  <2>10. QED
    BY <2>1, <2>2, <2>3, <2>4, <2>7, <2>9 DEF Orderly
<1>5. OneByOne' <=> OneByOne
  BY DEF OneByOne
<1>6. QED
  BY <1>1, <1>2, <1>3, <1>4, <1>5 DEF IInv

(* What is only about devices adds none, and takes none but those that the *)
(* vDSM removes.                                                           *)
LEMMA DevicesChange ==
    ASSUME IInv, devices' \in [Bridges -> {"absent", "active", "inactive"}],
           forgotten' \subseteq Bridges, forgotten \subseteq forgotten',
           \A c \in Bridges :
             /\ devices[c] = "absent" => devices'[c] = "absent"
             /\ devices'[c] = "absent" => devices[c] = "absent" \/ c \in forgotten',
           UNCHANGED <<mode, configs, instances, waiting, inst, mappings, persisted, th, removed>>
    PROVE  IInv'
<1>1. UNCHANGED <<mode, configs, instances, waiting, inst, mappings, persisted, th, removed>>
  OBVIOUS
<1>2. TypeOK'
  BY <1>1 DEF IInv, TypeOK
<1>3. Shapes'
  BY <1>1 DEF IInv, Shapes, ShapeOf
<1>4. Held'
  BY <1>1 DEF IInv, Held, Holding
<1>5. ASSUME OneByOne
      PROVE  Orderly'
  <2>1. Apart'
    BY <1>1, <1>5 DEF IInv, Orderly, Apart, Busy, Up
  <2>2. NoLeak'
    BY <1>1, <1>5 DEF IInv, Orderly, NoLeak, Holding
  <2>3. \A t \in Threads : th[t].at \subseteq Bridges
    BY DEF IInv, TypeOK, Thread
  <2>4. ASSUME NEW t \in Threads
        PROVE  Left(t)'
    <3>1. Left(t) /\ th'[t] = th[t]
      BY <1>1, <1>5 DEF IInv, Orderly, Plans
    <3>2. \A b \in th[t].at : devices[b] = "absent" => devices'[b] = "absent"
      BY <2>3
    <3>3. QED
      BY <1>1, <3>1, <3>2 DEF Left, Down, Using
  <2>5. Plans'
    BY <1>1, <2>4 DEF Plans
  <2>6. Enabled'
    BY <1>1, <1>5 DEF IInv, Orderly, Enabled
  <2>7. \A c \in Bridges : (Owed(c)' <=> Owed(c)) /\ (Remains(c)' <=> Remains(c))
    BY <1>1 DEF Owed, OwedBy, Remains, UnmapsYet
  <2>8. ASSUME NEW c \in Bridges
        PROVE  AgreeOn(c)'
    <3>1. /\ AgreeOn(c)
          /\ Owed(c)' <=> Owed(c)
          /\ devices'[c] # "absent" => devices[c] # "absent"
          /\ devices[c] # "absent" \/ c \in forgotten =>
                devices'[c] # "absent" \/ c \in forgotten'
      BY <1>5, <2>7 DEF IInv, Orderly, Agree
    <3>2. QED
      BY <1>1, <3>1 DEF AgreeOn
  <2>9. Agree'
    BY <1>1, <1>5, <2>8 DEF IInv, Orderly, Agree
  <2>10. mappings \subseteq Bridges
    BY DEF IInv, TypeOK
  <2>11. Gone'
    BY <1>1, <1>5, <2>7, <2>10 DEF IInv, Orderly, Gone
  <2>12. QED
    BY <2>1, <2>2, <2>5, <2>6, <2>9, <2>11 DEF Orderly
<1>6. OneByOne' <=> OneByOne
  BY <1>1 DEF OneByOne
<1>7. QED
  BY <1>2, <1>3, <1>4, <1>5, <1>6 DEF IInv

(* A report changes a device that is there, and leaves it there.           *)
LEMMA ReportKeeps ==
    ASSUME IInv, NEW i \in Insts, NEW b \in Bridges, Report(i, b)
    PROVE  IInv'
<1>1. /\ devices' \in [Bridges -> {"absent", "active", "inactive"}]
      /\ \A c \in Bridges : devices'[c] = "absent" <=> devices[c] = "absent"
      /\ forgotten \subseteq Bridges
      /\ UNCHANGED <<mode, configs, instances, waiting, inst, mappings, persisted, th, removed,
                     forgotten>>
  BY DEF Report, maps, IInv, TypeOK
<1>2. QED
  BY <1>1, DevicesChange

(* The vDSM removes a device; its mapping is left without one.             *)
LEMMA RemoveDeviceKeeps ==
    ASSUME IInv, NEW b \in Bridges, removeDeviceByDSUID(b)
    PROVE  IInv'
<1>1. /\ devices' \in [Bridges -> {"absent", "active", "inactive"}]
      /\ devices'[b] = "absent" /\ \A c \in Bridges \ {b} : devices'[c] = devices[c]
      /\ forgotten' = forgotten \cup {b} /\ forgotten' \subseteq Bridges
      /\ UNCHANGED <<mode, configs, instances, waiting, inst, mappings, persisted, th, removed>>
  BY DEF removeDeviceByDSUID, maps, IInv, TypeOK
<1>2. QED
  BY <1>1, DevicesChange

(* The daemon starts with what plugins.json and the mappings hold.         *)
LEMMA RestartedKeeps ==
    ASSUME IInv, Restarted
    PROVE  IInv'
<1>1. /\ mode' \in Modes /\ configs' = Nobody /\ configs' \in Saved
      /\ instances' = [p \in Plugins |-> NoInst] /\ waiting' = {}
      /\ inst' = ClosedInsts /\ mappings' \subseteq Bridges
      /\ devices' = [b \in Bridges |-> "absent"]
      /\ persisted \in Saved /\ persisted' = persisted /\ th' = Booting(persisted)
      /\ removed' \subseteq Plugins /\ forgotten' = {}
      /\ \A p \in removed' : persisted[p] = "none" /\ mappings' \cap BridgesOf(p) = {}
  BY IdleFields DEF IInv, TypeOK, Restarted
<1>2. /\ th'[Main].op = "boot" /\ th'[Main].pc = "next" /\ th'[Main].id = SomePlugin
      /\ th'[Main].list = {p \in Plugins : persisted[p] # "none"} /\ th'[Main].save = persisted
      /\ th'[Main].cfg = "enabled" /\ th'[Main].own = NoInst
      /\ th'[Main].todo = {} /\ th'[Main].at = {}
      /\ \A t \in Threads \ {Main} : th'[t] = Idle
  BY <1>1, IdleFields DEF Booting, Thread, Threads
<1>3. th' \in [Threads -> Thread]
  <2>1. [Idle EXCEPT !.op = "boot", !.pc = "next",
                     !.list = {p \in Plugins : persisted[p] # "none"},
                                !.save = persisted] \in Thread
    BY <1>1, IdleFields DEF Thread, Ops, Labels
  <2>2. QED
    BY <1>1, <2>1, IdleFields DEF Booting
<1>4. TypeOK'
  BY <1>1, <1>3, IdleFields DEF TypeOK, ClosedInsts, Closed, Saved
<1>5. \A t \in Threads : ShapeOf(t)'
  BY <1>2, IdleFields, RegistryAssumption DEF ShapeOf, Shape, Starting
<1>6. Shapes'
  BY <1>5 DEF Shapes
<1>7. \A t \in Threads : th'[t].own = NoInst /\ th'[t].pc # "register"
  BY <1>2, IdleFields
<1>8. Held'
  BY <1>1, <1>7 DEF Held, Holding
<1>9. Orderly'
  <2>1. Apart'
    BY <1>2, IdleFields DEF Apart, Busy, Up, Threads
  <2>2. NoLeak'
    BY <1>1 DEF NoLeak, ClosedInsts, Closed
  <2>3. Left(Main)'
    BY <1>1, <1>2 DEF Left, Down, Using, Starting
  <2>4. \A t \in Threads \ {Main} : Left(t)'
    BY <1>2, IdleFields DEF Left, Down, Using, Starting
  <2>5. Plans'
    BY <2>3, <2>4 DEF Plans
  <2>6. Enabled'
    BY <1>1 DEF Enabled
  <2>7. Agree'
    BY <1>1, BridgesAre DEF Agree, AgreeOn, Nobody
  <2>8. Gone'
    BY <1>1 DEF Gone, Nobody
  <2>9. QED
    BY <2>1, <2>2, <2>5, <2>6, <2>7, <2>8 DEF Orderly
<1>10. QED
  BY <1>4, <1>6, <1>8, <1>9 DEF IInv

(* It starts with nothing.                                                 *)
LEMMA InvInit ==
    ASSUME Init
    PROVE  IInv
<1>1. /\ mode \in Modes /\ configs = Nobody /\ configs \in Saved
      /\ instances = [p \in Plugins |-> NoInst] /\ waiting = {}
      /\ inst = ClosedInsts /\ mappings \subseteq Bridges
      /\ devices = [b \in Bridges |-> "absent"]
      /\ persisted \in Saved /\ th = Booting(persisted)
      /\ removed \subseteq Plugins /\ forgotten = {}
      /\ \A p \in removed : persisted[p] = "none" /\ mappings \cap BridgesOf(p) = {}
  BY IdleFields DEF Init
<1>2. /\ th[Main].op = "boot" /\ th[Main].pc = "next" /\ th[Main].id = SomePlugin
      /\ th[Main].list = {p \in Plugins : persisted[p] # "none"} /\ th[Main].save = persisted
      /\ th[Main].cfg = "enabled" /\ th[Main].own = NoInst
      /\ th[Main].todo = {} /\ th[Main].at = {}
      /\ \A t \in Threads \ {Main} : th[t] = Idle
  BY <1>1, IdleFields DEF Booting, Thread, Threads
<1>3. th \in [Threads -> Thread]
  <2>1. [Idle EXCEPT !.op = "boot", !.pc = "next",
                     !.list = {p \in Plugins : persisted[p] # "none"},
                                !.save = persisted] \in Thread
    BY <1>1, IdleFields DEF Thread, Ops, Labels
  <2>2. QED
    BY <1>1, <2>1, IdleFields DEF Booting
<1>4. TypeOK
  BY <1>1, <1>3, IdleFields DEF TypeOK, ClosedInsts, Closed, Saved
<1>5. \A t \in Threads : ShapeOf(t)
  BY <1>2, IdleFields, RegistryAssumption DEF ShapeOf, Shape, Starting
<1>6. Shapes
  BY <1>5 DEF Shapes
<1>7. \A t \in Threads : th[t].own = NoInst /\ th[t].pc # "register"
  BY <1>2, IdleFields
<1>8. Held
  BY <1>1, <1>7 DEF Held, Holding
<1>9. Orderly
  <2>1. Apart
    BY <1>2, IdleFields DEF Apart, Busy, Up, Threads
  <2>2. NoLeak
    BY <1>1 DEF NoLeak, ClosedInsts, Closed
  <2>3. Left(Main)
    BY <1>1, <1>2 DEF Left, Down, Using, Starting
  <2>4. \A t \in Threads \ {Main} : Left(t)
    BY <1>2, IdleFields DEF Left, Down, Using, Starting
  <2>5. Plans
    BY <2>3, <2>4 DEF Plans
  <2>6. Enabled
    BY <1>1 DEF Enabled
  <2>7. Agree
    BY <1>1, BridgesAre DEF Agree, AgreeOn, Nobody
  <2>8. Gone
    BY <1>1 DEF Gone, Nobody
  <2>9. QED
    BY <2>1, <2>2, <2>5, <2>6, <2>7, <2>8 DEF Orderly
<1>10. QED
  BY <1>4, <1>6, <1>8, <1>9 DEF IInv

(* Whatever request begins keeps the invariant.                            *)
LEMMA RequestKeeps ==
    ASSUME IInv, NEW t \in Admins, Request(t)
    PROVE  IInv'
<1>1. ASSUME NEW p \in Plugins, AddPlugin(t, p) PROVE IInv'
  BY <1>1, AddPluginKeeps
<1>2. ASSUME NEW p \in Plugins, RemovePlugin(t, p) PROVE IInv'
  BY <1>2, RemovePluginKeeps
<1>3. ASSUME NEW p \in Plugins, UpdatePlugin(t, p) PROVE IInv'
  BY <1>3, UpdatePluginKeeps
<1>4. ASSUME NEW p \in Plugins, RestartPlugin(t, p) PROVE IInv'
  BY <1>4, RestartPluginKeeps
<1>5. ASSUME NEW p \in Plugins, SetEnabled(t, p) PROVE IInv'
  <2>1. MayBegin(t, p) /\ UNCHANGED <<maps, inst, stores, persisted, removed>>
    BY <1>5 DEF SetEnabled
  <2>2. CASE configs[p] = "disabled" /\ Begin(t, p, "enable", "config", "enabled")
    BY <2>1, <2>2, EnableKeeps
  <2>3. CASE configs[p] = "enabled" /\ Begin(t, p, "disable", "take", "disabled")
    BY <2>1, <2>3, DisableKeeps
  <2>4. QED
    BY <1>5, <2>2, <2>3 DEF SetEnabled
<1>6. ASSUME NEW b \in Bridges, CreateBridge(t, b) PROVE IInv'
  BY <1>6, CreateBridgeKeeps
<1>7. ASSUME NEW b \in Bridges, RemoveBridge(t, b) PROVE IInv'
  BY <1>7, RemoveBridgeKeeps
<1>8. QED
  BY <1>1, <1>2, <1>3, <1>4, <1>5, <1>6, <1>7 DEF Request

(* So does every step of an operation.                                     *)
LEMMA StepKeeps ==
    ASSUME IInv, NEW t \in Threads, Step(t)
    PROVE  IInv'
<1>1. th[t] \in Thread /\ ShapeOf(t) /\ Shape(th[t]) /\ th[t].todo \subseteq Bridges
  BY DEF IInv, TypeOK, Shapes, ShapeOf, Thread
<1>2. CASE startPlugin(t)
  <2>1. CASE Retain(t)
    BY <2>1, RetainKeeps
  <2>2. CASE InitOk(t)
    BY <2>2, InitOkKeeps
  <2>3. CASE InitFails(t)
    BY <2>3, InitFailsMoves, InitFailsReturns
  <2>4. CASE Register(t)
    BY <2>4, RegisterKeeps
  <2>5. QED
    BY <1>2, <2>1, <2>2, <2>3, <2>4 DEF startPlugin
<1>3. CASE Take(t)
  <2>1. CASE th[t].op = "update" /\ instances[th[t].id] = NoInst /\ configs[th[t].id] = "none"
    <3>1. th' = [th EXCEPT ![t] = Idle]
      BY <1>3, <2>1 DEF Take, Goto
    <3>2. QED
      BY <1>3, <2>1, <3>1, TakeGoneReturns
  <2>2. QED
    BY <1>3, <2>1, TakeKeeps
<1>4. CASE List(t)
  BY <1>4, ListToRestore, ListToUnsubscribe, ListToTeardown
<1>5. CASE Unsubscribe(t)
  <2>1. CASE th[t].todo = {}
    BY <1>5, <2>1, UnsubscribedAll
  <2>2. CASE th[t].todo # {}
    <3>1. PICK b \in th[t].todo : /\ inst' = Unsubscribed(th[t].own, b)
                                  /\ th' = [th EXCEPT ![t].todo = @ \ {b}]
      BY <1>5, <2>2 DEF Unsubscribe
    <3>2. b \in Bridges /\ th[t].pc = "unsub" /\ UNCHANGED <<maps, stores, persisted, removed>>
      BY <1>1, <1>5 DEF Unsubscribe
    <3>3. QED
      BY <3>1, <3>2, UnsubscribeKeeps
  <2>3. QED
    BY <2>1, <2>2
<1>6. CASE Teardown(t)
  <2>1. CASE th[t].todo = {}
    <3>1. th[t].op \in {"remove", "unbridge"}
      BY <1>1, <1>6, OpsOf DEF Teardown
    <3>2. QED
      BY <1>6, <2>1, <3>1, TornDownAll, TeardownReturns
  <2>2. CASE th[t].todo # {}
    <3>1. PICK b \in th[t].todo :
            /\ inst' = Unsubscribed(th[t].own, b)
            /\ devices' = [devices EXCEPT ![b] = "absent"]
            /\ forgotten' = forgotten \ {b}
            /\ th' = [th EXCEPT ![t].pc = "unmap", ![t].todo = @ \ {b}, ![t].at = {b}]
      BY <1>6, <2>2 DEF Teardown
    <3>2. b \in Bridges /\ th[t].pc = "teardown" /\ UNCHANGED <<maps, mappings, persisted, removed>>
      BY <1>1, <1>6 DEF Teardown
    <3>3. QED
      BY <3>1, <3>2, TeardownKeeps
  <2>3. QED
    BY <2>1, <2>2
<1>7. CASE Unmap(t)
  BY <1>7, UnmapKeeps
<1>8. CASE Close(t)
  BY <1>8, CloseKeeps
<1>9. CASE Fresh(t)
  BY <1>9, FreshToList, FreshToNone, FreshReturns
<1>10. CASE AddMapping(t)
  <2>1. CASE th[t].todo \subseteq mappings
    BY <1>10, <2>1, AddMappingReturns
  <2>2. CASE ~(th[t].todo \subseteq mappings)
    <3>1. /\ th[t].pc = "create" /\ mappings' = mappings \cup th[t].todo
          /\ th' = [th EXCEPT ![t].pc = "restore"]
          /\ UNCHANGED <<maps, inst, devices, forgotten, persisted, removed>>
      BY <1>10, <2>2 DEF AddMapping, Goto
    <3>2. PICK b \in Bridges : th[t].todo = {b}
      BY <1>1, <3>1 DEF Shape
    <3>3. b \notin mappings
      BY <2>2, <3>2
    <3>4. QED
      BY <3>1, <3>2, <3>3, AddMappingKeeps
  <2>3. QED
    BY <2>1, <2>2
<1>11. CASE Restore(t)
  <2>1. CASE th[t].todo = {}
    BY <1>11, <2>1, RestoredAll, RestoreReturns
  <2>2. CASE th[t].todo # {}
    <3>1. PICK b \in th[t].todo :
            /\ devices' = [devices EXCEPT ![b] =
                  IF @ = "absent" \/ th[t].op = "create" THEN "active" ELSE @]
            /\ inst' = [inst EXCEPT ![th[t].own].subs = @ \cup {b}]
            /\ forgotten' = forgotten \ {b}
            /\ th' = [th EXCEPT ![t].todo = @ \ {b}]
      BY <1>11, <2>2 DEF Restore
    <3>2. b \in Bridges /\ th[t].pc = "restore" /\ UNCHANGED <<maps, mappings, persisted, removed>>
      BY <1>1, <1>11 DEF Restore
    <3>3. QED
      BY <3>1, <3>2, RestoreKeeps
  <2>3. QED
    BY <2>1, <2>2
<1>12. CASE SetConfig(t)
  BY <1>12, SetConfigKeeps
<1>13. CASE persistConfigs(t)
  BY <1>13, PersistReads
<1>14. CASE WriteConfigs(t)
  BY <1>14, WriteReturns
<1>15. CASE NextConfig(t)
  BY <1>15, NextStarts, NextRemembers
<1>16. CASE ListDone(t)
  <2>1. th[t].op \in {"supervise", "boot"}
    BY <1>1, <1>16, OpsOf DEF ListDone
  <2>2. QED
    BY <1>16, <2>1, SupervisorReturns, BootRevives
<1>17. QED
  BY <1>2, <1>3, <1>4, <1>5, <1>6, <1>7, <1>8, <1>9, <1>10, <1>11, <1>12, <1>13, <1>14, <1>15,
     <1>16 DEF Step

(* And every step of the system.                                           *)
LEMMA InvNext ==
    ASSUME IInv, [Next]_vars
    PROVE  IInv'
<1>1. persisted \in Saved /\ waiting \subseteq Plugins
  BY DEF IInv, TypeOK
<1>2. ASSUME NEW t \in Admins, Request(t) PROVE IInv'
  BY <1>2, RequestKeeps
<1>3. ASSUME NEW t \in Threads, Step(t) PROVE IInv'
  BY <1>3, StepKeeps
<1>4. CASE superviseOnce
  BY <1>4, SupervisorTicks DEF Threads
<1>5. CASE Revive
  BY <1>5, ReviveKeeps DEF Threads
<1>6. CASE Started
  BY <1>6, StartedReturns
<1>7. ASSUME NEW p \in Plugins, BackoffElapses(p) PROVE IInv'
  BY <1>1, <1>7, StutterKeeps DEF BackoffElapses, stores
<1>8. ASSUME NEW i \in Insts, NEW b \in Bridges, Report(i, b) PROVE IInv'
  BY <1>8, ReportKeeps
<1>9. ASSUME NEW b \in Bridges, removeDeviceByDSUID(b) PROVE IInv'
  BY <1>9, RemoveDeviceKeeps
<1>10. CASE Restarted
  BY <1>10, RestartedKeeps
<1>11. CASE UNCHANGED vars
  BY <1>1, <1>11, StutterKeeps DEF vars
<1>12. QED
  BY <1>2, <1>3, <1>4, <1>5, <1>6, <1>7, <1>8, <1>9, <1>10, <1>11 DEF Next

(* The inductive invariant.                                                *)
THEOREM Invariance == Spec => []IInv
<1>1. Init => IInv
  BY InvInit
<1>2. IInv /\ [Next]_vars => IInv'
  BY InvNext
<1>3. QED
  BY <1>1, <1>2, PTL DEF Spec

(* Whatever operations overlap, what the registry hands out is an open     *)
(* instance of that plugin, and no operation closes one twice; where       *)
(* operations come one by one for each plugin none is leaked               *)
(* (RemovePlugin, UpdatePlugin, RestartPlugin, SetEnabled, startPlugin).   *)
THEOREM EachInstanceInOnePlace == Spec => []InstancesAreAccounted
<1>1. IInv => InstancesAreAccounted
  <2>1. SUFFICES ASSUME IInv PROVE InstancesAreAccounted
    OBVIOUS
  <2>2. TypeOK /\ Held
    BY <2>1 DEF IInv
  <2>3. OneByOne => NoLeak
    BY <2>1 DEF IInv, Orderly
  <2>4. QED
    BY <2>2, <2>3 DEF InstancesAreAccounted, Held, NoLeak
<1>2. QED
  BY <1>1, Invariance, PTL

(* A plugin that nobody is busy with is as its config and its mappings     *)
(* say.                                                                    *)
LEMMA QuietIsRight ==
    ASSUME IInv, OneByOne, NEW p \in Plugins, Quiet(p)
    PROVE  /\ \A b \in BridgesOf(p) :
                /\ devices[b] # "absent" => b \in mappings
                /\ b \in mappings /\ configs[p] # "none" =>
                       devices[b] # "absent" \/ b \in forgotten
                /\ instances[p] # NoInst => (b \in inst[instances[p]].subs <=> b \in mappings)
           /\ instances[p] # NoInst =>
                /\ configs[p] = "enabled"
                /\ inst[instances[p]].subs \subseteq BridgesOf(p)
           /\ p \in removed => configs[p] = "none" /\ instances[p] = NoInst
                               /\ mappings \cap BridgesOf(p) = {}
<1>1. Up /\ \A s \in Threads : ~Busy(s, p)
  BY DEF Quiet
<1>2. /\ \A b \in Bridges : b[1] = p => ~Owed(b)
      /\ p \in removed => configs[p] = "none" /\ instances[p] = NoInst
                          /\ mappings \cap BridgesOf(p) = {}
  BY <1>1, AtRest
<1>3. /\ \A b \in Bridges : AgreeOn(b)
      /\ instances[p] # NoInst => \A b \in inst[instances[p]].subs : b[1] = p
      /\ instances[p] # NoInst => configs[p] = "enabled"
  BY DEF IInv, Orderly, Agree, Enabled
<1>4. instances[p] # NoInst => inst[instances[p]].subs \subseteq Bridges
  BY DEF IInv, TypeOK
<1>5. \A b \in BridgesOf(p) : b \in Bridges /\ b[1] = p
  BY BridgesAre
<1>6. instances[p] # NoInst => inst[instances[p]].subs \subseteq BridgesOf(p)
  BY <1>3, <1>4, BridgesAre
<1>7. QED
  BY <1>2, <1>3, <1>5, <1>6 DEF AgreeOn

(* Once the operations on it are through, nothing is left of a plugin that *)
(* RemovePlugin removed, also after a crash in the middle; and a plugin    *)
(* that SetEnabled has disabled does not run.                              *)
THEOREM WhatIsStoppedStaysDown == Spec => []StoppedStaysDown
<1>1. IInv => StoppedStaysDown
  <2>1. SUFFICES ASSUME IInv, OneByOne PROVE StoppedStaysDown
    BY DEF StoppedStaysDown
  <2>2. ASSUME NEW p \in removed, Quiet(p)
        PROVE  /\ configs[p] = "none" /\ instances[p] = NoInst
               /\ \A b \in BridgesOf(p) : b \notin mappings /\ devices[b] = "absent"
    <3>1. p \in Plugins
      BY <2>1 DEF IInv, TypeOK
    <3>2. QED
      BY <2>1, <2>2, <3>1, QuietIsRight
  <2>3. ASSUME NEW p \in Plugins, Quiet(p), configs[p] = "disabled"
        PROVE  instances[p] = NoInst
    BY <2>1, <2>3, QuietIsRight
  <2>4. QED
    BY <2>2, <2>3 DEF StoppedStaysDown
<1>2. QED
  BY <1>1, Invariance, PTL

(* Each mapping of a configured plugin has its device, unless the vDSM has *)
(* removed that since the plugin or the daemon last started                *)
(* (removeDeviceByDSUID); and each bridged device has its mapping, however *)
(* the starts, failures, updates and removals of plugins and the vDSM's    *)
(* removals of devices came between each other's steps.                    *)
THEOREM EachMappingHasItsDevice == Spec => []MappedHasDevice
<1>1. IInv => MappedHasDevice
  BY QuietIsRight DEF MappedHasDevice
<1>2. QED
  BY <1>1, Invariance, PTL

(* A running instance is subscribed to the mappings of its plugin and to   *)
(* nothing else.                                                           *)
THEOREM SubscribedToItsMappings == Spec => []RunningIsSubscribed
<1>1. IInv => RunningIsSubscribed
  <2>1. SUFFICES ASSUME IInv, OneByOne, NEW p \in Plugins, Quiet(p), instances[p] # NoInst
                 PROVE  inst[instances[p]].subs = mappings \cap BridgesOf(p)
    BY DEF RunningIsSubscribed
  <2>2. QED
    BY <2>1, QuietIsRight
<1>2. QED
  BY <1>1, Invariance, PTL

=============================================================================
