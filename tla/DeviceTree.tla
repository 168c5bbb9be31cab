------------------------------ MODULE DeviceTree ------------------------------
(***************************************************************************)
(* What the vDSM is told of one device: the record that                    *)
(* StateStore.HandleEvent keeps (state_store.go), fed through bridge.Host  *)
(* (host.go), the property tree that getProperty builds of it              *)
(* (property_tree.go, method_service.go), the state that a push            *)
(* notification carries (pbuf_state_payload.go), and the settings the vDSM *)
(* writes (control.go, method_service.go, config_store.go).                *)
(*                                                                         *)
(* The store copies a record, never its maps: an update in the channel and *)
(* a snapshot share the maps of values with the store, so what is pushed   *)
(* or read is what the maps hold when they are read.  A device that is     *)
(* removed and announced again has new maps; gens numbers them.  Go ends   *)
(* the process when it notices that one goroutine writes a map that        *)
(* another one iterates over.                                              *)
(*                                                                         *)
(* The session is up; how it comes and goes, and the gap between the       *)
(* store's unlock and its broadcast, are in Announce.                      *)
(***************************************************************************)
EXTENDS Naturals, Sequences

CONSTANTS Kinds,      \* kinds of devices announced
          Reported,   \* <<family, index>> pairs that the device reports
          Declares,   \* <<family, index>> pairs that have descriptors
          Writes,     \* settings writes of the vDSM
          Cap,        \* capacity of the subscriber's channel (16 in the code)
          MaxGen,     \* bound on announcements after a removal
          MaxEvents,  \* bound on reports and descriptors
          MaxWrites,  \* bound on writes
          Aborts      \* whether Go may notice a race

Index == {0, 1}
Families == {"channel", "button", "action", "input", "sensor"}
Described == {"channel", "button", "input", "sensor"}
NoNumber == 9
ActionKinds == {0, 1}        \* of an action: 0 a click the dSS knows, 1 one it does not

ASSUME DeviceTreeAssumption ==
    /\ Kinds \subseteq {"light", "dimmer", "colorlight", "movinglight", "sensor", "button",
                        "binary", "climate"}
    /\ Reported \subseteq Families \X Index
    /\ Declares \subseteq {"button", "input", "sensor"} \X Index
    /\ Writes \subseteq [family : {"button", "input", "sensor", "output", "device"},
                         index : Index, field : {"group", "function"}, value : 0..8,
                         spelling : {"upper", "lower"}]
    /\ Cap \in Nat \ {0} /\ MaxGen \in Nat /\ MaxEvents \in Nat /\ MaxWrites \in Nat /\ Aborts \in BOOLEAN

VARIABLES dev,       \* the record in the store
          gens,      \* the maps of values, by generation
          queue,     \* updates in the push goroutine's channel
          pusher,    \* the update the push goroutine has taken
          reader,    \* the snapshot a getProperty handler works on
          settings,  \* the config store, by spelling of the dSUID
          vdsm,      \* what the vDSM knows
          asked,     \* history: what it wrote last, under the tree's dSUID
          events,    \* events so far
          wrote,     \* writes so far
          dropped,   \* history: updates that did not fit into the channel and no later one repairs
          owed,      \* history: descriptors set since the device was last announced
          raced      \* a map was written while it was iterated over

treeVars == <<dev, gens, queue, pusher, reader, settings, vdsm, asked, wrote, events, dropped, owed, raced>>

NoValues == [f \in Families |-> [i \in Index |-> NoNumber]]
NoDevice == [present |-> FALSE, output |-> "light", dimmable |-> TRUE, gen |-> 0,
             desc |-> [f \in Families |-> {}]]
NoUpdate == [kind |-> "none", gen |-> 0]
NoReader == [busy |-> FALSE, dev |-> NoDevice, fresh |-> FALSE]
Unset == [family \in {"button", "input", "sensor", "output", "device"} |->
            [i \in Index |-> [group |-> NoNumber, function |-> NoNumber]]]
NoTree == [f \in Described |-> {}]
Forgotten == [known |-> FALSE, read |-> FALSE, tree |-> NoTree, vals |-> NoValues,
              clicks |-> {}]

OutputKinds == {"light", "colorlight", "movinglight", "sensor", "button", "binaryInput", "climate"}

TreeTypeOK ==
    /\ dev.output \in OutputKinds /\ dev.gen \in 0..Len(gens)
    /\ dev.present => dev.gen > 0
    /\ \A f \in Families : dev.desc[f] \subseteq Index
    /\ \A g \in 1..Len(gens) : gens[g] \in [Families -> [Index -> ActionKinds \cup {NoNumber}]]
    /\ Len(queue) <= Cap
    /\ \A q \in 1..Len(queue) : queue[q].gen \in 1..Len(gens)
    /\ pusher.kind \in {"none", "init", "remove", "push"}
    /\ \A f \in Described : vdsm.tree[f] \subseteq 0..5
    /\ vdsm.vals \in [Families -> [Index -> ActionKinds \cup {NoNumber}]]
    /\ vdsm.clicks \subseteq Index
    /\ dropped \subseteq {"init", "remove", "push"} /\ owed \in BOOLEAN /\ raced \in BOOLEAN

TreeInit ==
    /\ dev = NoDevice
    /\ gens = <<>>
    /\ queue = <<>>
    /\ pusher = NoUpdate
    /\ reader = NoReader
    /\ settings = [s \in {"upper", "lower"} |-> Unset]
    /\ vdsm = Forgotten
    /\ asked = Unset
    /\ events = 0
    /\ wrote = 0
    /\ dropped = {}
    /\ owed = FALSE
    /\ raced = FALSE

-----------------------------------------------------------------------------
(* Events.  An update that does not fit into the channel is dropped.       *)

broadcast(kind, g) ==
    IF Len(queue) < Cap
    THEN /\ queue' = Append(queue, [kind |-> kind, gen |-> g])
         /\ dropped' = IF kind = "push" THEN dropped \ {"push"} ELSE {}
    ELSE UNCHANGED queue /\ dropped' = dropped \cup {kind}

kindToOutput(k) ==
    CASE k \in {"light", "dimmer"} -> "light"
      [] k = "binary" -> "binaryInput"
      [] OTHER -> k

(* A device that is there keeps its maps and its descriptors.              *)
AnnounceDevice(k) ==
    /\ IF dev.present THEN events < MaxEvents /\ events' = events + 1
       ELSE Len(gens) < MaxGen /\ UNCHANGED events
    /\ gens' = IF dev.present THEN gens ELSE Append(gens, NoValues)
    /\ LET d == IF dev.present THEN dev ELSE [NoDevice EXCEPT !.gen = Len(gens) + 1]
       IN dev' = [d EXCEPT !.present = TRUE, !.output = kindToOutput(k), !.dimmable = k # "light"]
    /\ broadcast("init", dev'.gen)
    /\ owed' = FALSE
    /\ UNCHANGED <<pusher, reader, settings, vdsm, asked, wrote, raced>>

RemoveDevice ==
    /\ dev.present
    /\ dev' = NoDevice
    /\ broadcast("remove", dev.gen)
    /\ owed' = FALSE
    /\ UNCHANGED <<gens, pusher, reader, settings, vdsm, asked, wrote, events, raced>>

(* Someone iterates over the values of the generation.                     *)
Iterating(g) ==
    \/ pusher.kind \in {"init", "push"} /\ pusher.gen = g
    \/ reader.busy /\ reader.dev.present /\ reader.dev.gen = g

(* Deliberate bug: the first value is not broadcast.                       *)
UpdateNoBroadcast(f, i, v) ==
    /\ dev.present /\ <<f, i>> \in Reported
    /\ events < MaxEvents /\ events' = events + 1
    /\ gens' = [gens EXCEPT ![dev.gen][f][i] = v]
    /\ (IF gens[dev.gen][f][i] = NoNumber THEN UNCHANGED <<queue, dropped>> ELSE broadcast("push", dev.gen))
    /\ raced' = (raced \/ Iterating(dev.gen))
    /\ UNCHANGED <<dev, pusher, reader, settings, vdsm, asked, wrote, owed>>

(* UpdateChannel, UpdateButton, SetButtonAction, UpdateInput, UpdateSensor.*)
Update(f, i, v) ==
    /\ dev.present /\ <<f, i>> \in Reported
    /\ events < MaxEvents /\ events' = events + 1
    /\ gens' = [gens EXCEPT ![dev.gen][f][i] = v]
    /\ broadcast("push", dev.gen)
    /\ raced' = (raced \/ Iterating(dev.gen))
    /\ UNCHANGED <<dev, pusher, reader, settings, vdsm, asked, wrote, owed>>

UpdateActive ==
    /\ dev.present
    /\ events < MaxEvents /\ events' = events + 1
    /\ broadcast("push", dev.gen)
    /\ UNCHANGED <<dev, gens, pusher, reader, settings, vdsm, asked, wrote, owed, raced>>

(* Descriptors are not pushed: the plugin announces the device again when  *)
(* it has set them.                                                        *)
SetDescriptor(f, i) ==
    /\ dev.present /\ <<f, i>> \in Declares /\ i \notin dev.desc[f]
    /\ events < MaxEvents /\ events' = events + 1
    /\ dev' = [dev EXCEPT !.desc[f] = @ \cup {i}]
    /\ owed' = TRUE
    /\ raced' = (raced \/ (reader.busy /\ reader.dev.gen = dev.gen /\ reader.dev.desc[f] # {}))
    /\ UNCHANGED <<gens, queue, pusher, reader, settings, vdsm, asked, wrote, dropped>>

ReAnnounce ==
    /\ dev.present /\ owed
    /\ broadcast("init", dev.gen)
    /\ owed' = FALSE
    /\ UNCHANGED <<dev, gens, pusher, reader, settings, vdsm, asked, wrote, events, raced>>

-----------------------------------------------------------------------------
(* Push notifications.                                                     *)
TakeUpdate ==
    /\ pusher = NoUpdate /\ queue # <<>>
    /\ pusher' = Head(queue)
    /\ queue' = Tail(queue)
    /\ UNCHANGED <<dev, gens, reader, settings, vdsm, asked, wrote, events, dropped, owed, raced>>

(* Every push tells every value the device has, brightness always, and the *)
(* click type of every button that has a value.                            *)
dsClickType(action) == action = 0

changedStatePayload(m) ==
    [m EXCEPT !["channel"][0] = IF @ = NoNumber THEN 0 ELSE @]

PushedClicks(m) == {i \in Index : m["button"][i] # NoNumber /\ dsClickType(m["action"][i])}

(* A device that is announced is made to vanish first: the vDSM forgets    *)
(* what it had read.                                                       *)
WriteUpdate ==
    /\ pusher # NoUpdate
    /\ LET m == gens[pusher.gen]
           base == IF pusher.kind = "init" THEN [Forgotten EXCEPT !.known = TRUE] ELSE vdsm
       IN vdsm' = CASE pusher.kind = "remove" -> Forgotten
                    [] pusher.kind # "remove" /\ ~ base.known -> vdsm
                    [] OTHER -> [base EXCEPT !.vals = changedStatePayload(m),
                                             !.clicks = PushedClicks(m)]
    /\ pusher' = NoUpdate
    /\ raced' = (raced /\ reader.busy)
    /\ reader' = [reader EXCEPT !.fresh = IF pusher.kind = "push" THEN @ ELSE FALSE]
    /\ UNCHANGED <<dev, gens, queue, settings, asked, wrote, events, dropped, owed>>

-----------------------------------------------------------------------------
(* getProperty: a snapshot under the lock, then the tree without it.       *)
resolveGetPropertyTarget ==
    /\ ~ reader.busy /\ vdsm.known
    /\ reader' = [busy |-> TRUE, dev |-> dev, fresh |-> TRUE]
    /\ UNCHANGED <<dev, gens, queue, pusher, settings, vdsm, asked, wrote, events, dropped, owed, raced>>

Valued(m, f) == {i \in Index : m[f][i] # NoNumber}

(* A descriptor map that the snapshot had grows with the store's.          *)
SeenDesc(d, f) ==
    IF d.desc[f] # {} /\ dev.present /\ dev.gen = d.gen THEN dev.desc[f] ELSE d.desc[f]

OrPlaceholder(s) == IF s = {} THEN {0} ELSE s
binaryInputIdxSet(d, m) == SeenDesc(d, "input") \cup Valued(m, "input")
OnlyPart(f, s) == [NoTree EXCEPT ![f] = s]

buildLightTypeProps(d, m) == OnlyPart("channel", {0})
buildColorlightTypeProps(d, m) == OnlyPart("channel", 0..5)
buildMovinglightTypeProps(d, m) == OnlyPart("channel", {0, 1})
buildBinaryInputTypeProps(d, m) == OnlyPart("input", OrPlaceholder(binaryInputIdxSet(d, m)))
buildButtonTypeProps(d, m) == OnlyPart("button", OrPlaceholder(Valued(m, "button")))

(* Deliberate bug: the sensors that have reported, not the declared ones.  *)
SensorTypePropsValuedOnly(d, m) ==
    [OnlyPart("sensor", OrPlaceholder(Valued(m, "sensor"))) EXCEPT !["input"] = binaryInputIdxSet(d, m)]

buildSensorTypeProps(d, m) ==
    [OnlyPart("sensor", OrPlaceholder(SeenDesc(d, "sensor") \cup Valued(m, "sensor")))
        EXCEPT !["input"] = binaryInputIdxSet(d, m)]

buildGenericTypeProps(d, m) ==
    [channel |-> {}, sensor |-> Valued(m, "sensor"), input |-> binaryInputIdxSet(d, m),
     button |-> Valued(m, "button")]

BuildTree(d, m) ==
    CASE d.output = "light" -> buildLightTypeProps(d, m)
      [] d.output = "colorlight" -> buildColorlightTypeProps(d, m)
      [] d.output = "movinglight" -> buildMovinglightTypeProps(d, m)
      [] d.output = "sensor" -> buildSensorTypeProps(d, m)
      [] d.output = "button" -> buildButtonTypeProps(d, m)
      [] d.output = "binaryInput" -> buildBinaryInputTypeProps(d, m)
      [] OTHER -> buildGenericTypeProps(d, m)

(* The settings of the tree: what is stored under the device's own dSUID,  *)
(* else a default.  A function of 0 stored for an input gives way to the   *)
(* descriptor's, here 7; so does an empty name to the plugin's.  For an    *)
(* output the function is its mode, 1 binary or 2 gradual, and its groups  *)
(* are left out; for the device it is the name, and the group is the zone. *)
DescriptorFunction == 7
OutputMode(d) ==
    CASE d.output = "light" -> IF d.dimmable THEN 2 ELSE 1
      [] d.output \in {"colorlight", "movinglight"} -> 2
      [] OTHER -> 1
Default(d, family, i, field) ==
    CASE field = "group" -> IF family = "button" THEN 1 ELSE 0
      [] family = "input" /\ i \in SeenDesc(d, "input") -> DescriptorFunction
      [] family = "output" /\ field = "function" -> OutputMode(d)
      [] OTHER -> 0
ZeroHides(family, field) == family \in {"input", "device"} /\ field = "function"

SettingsMap(d, family, i, field) ==
    LET stored == settings["upper"][family][i][field]
    IN IF stored = NoNumber \/ (stored = 0 /\ ZeroHides(family, field))
       THEN Default(d, family, i, field) ELSE stored

(* A tree shows the settings of the inputs it describes, of the output if  *)
(* the device has one, and of the device.                                  *)
NoOutput == {"sensor", "button", "binaryInput"}
SettingsOf(d, tree) ==
    {s \in (DOMAIN Unset) \X Index :
        CASE s[1] = "device" -> s[2] = 0
          [] s[1] = "output" -> s[2] = 0 /\ d.output \notin NoOutput
          [] OTHER -> s[2] \in tree[s[1]]}

buildDeviceProperties(d) ==
    LET tree == BuildTree(d, gens[d.gen])
    IN [tree |-> tree,
        shown |-> [s \in SettingsOf(d, tree) |->
                    [group |-> SettingsMap(d, s[1], s[2], "group"),
                     function |-> SettingsMap(d, s[1], s[2], "function")]]]

GetPropertyAnswer ==
    /\ reader.busy
    /\ reader' = NoReader
    /\ raced' = (raced /\ pusher # NoUpdate)
    /\ vdsm' = IF ~ reader.dev.present THEN vdsm
               ELSE LET p == buildDeviceProperties(reader.dev)
                    IN [vdsm EXCEPT !.tree = p.tree, !.read = @ \/ reader.fresh]
    /\ UNCHANGED <<dev, gens, queue, pusher, settings, asked, wrote, events, dropped, owed>>

-----------------------------------------------------------------------------
(* setProperty: one setting, stored under the dSUID as it was spelled.     *)
Known(w) ==
    CASE w.family \in {"button", "input", "sensor"} -> TRUE
      [] w.family = "output" -> w.index = 0 /\ w.field = "function"
      [] OTHER -> w.index = 0

(* Deliberate bug: the entry is replaced instead of merged.                *)
MergeReplaces(entry, field, v) == [[group |-> NoNumber, function |-> NoNumber] EXCEPT ![field] = v]
MergeField(entry, field, v) == [entry EXCEPT ![field] = v]

SetProperty(w) ==
    /\ Known(w) /\ vdsm.known
    /\ wrote < MaxWrites /\ wrote' = wrote + 1
    /\ settings' = [settings EXCEPT ![w.spelling][w.family][w.index] =
                        MergeField(@, w.field, w.value)]
    /\ asked' = IF w.spelling = "lower" THEN asked
                ELSE [asked EXCEPT ![w.family][w.index][w.field] = w.value]
    /\ UNCHANGED <<dev, gens, queue, pusher, reader, vdsm, events, dropped, owed, raced>>

-----------------------------------------------------------------------------
(* Go ends the process, which starts again with the settings it saved.     *)
Abort ==
    /\ Aborts /\ raced
    /\ dev' = NoDevice /\ gens' = <<>> /\ queue' = <<>>
    /\ pusher' = NoUpdate /\ reader' = NoReader /\ vdsm' = Forgotten
    /\ dropped' = {} /\ owed' = FALSE /\ raced' = FALSE
    /\ UNCHANGED <<settings, asked, wrote, events>>

TreeNext ==
    \/ \E k \in Kinds : AnnounceDevice(k)
    \/ RemoveDevice
    \/ \E f \in Families, i \in Index, v \in ActionKinds : Update(f, i, v)
    \/ UpdateActive
    \/ \E f \in Families, i \in Index : SetDescriptor(f, i)
    \/ ReAnnounce
    \/ TakeUpdate
    \/ WriteUpdate
    \/ resolveGetPropertyTarget
    \/ GetPropertyAnswer
    \/ \E w \in Writes : SetProperty(w)
    \/ Abort

TreeSpec == TreeInit /\ [][TreeNext]_treeVars

-----------------------------------------------------------------------------
AllTold == queue = <<>> /\ pusher = NoUpdate /\ dropped = {}

(* An update is dropped when the channel is full, two updates may be read  *)
(* from the same maps, and the maps change under both: whatever the order, *)
(* when the last update has been written the vDSM has every value that the *)
(* store has, and knows the device exactly if the store does.  A value     *)
(* that was dropped is repaired by the next push, an announcement or a     *)
(* removal only by the next announcement or removal.                       *)
ValuesConverge ==
    TreeTypeOK /\ (AllTold =>
             /\ vdsm.known = dev.present
             /\ dev.present => /\ vdsm.vals = changedStatePayload(gens[dev.gen])
                               /\ vdsm.clicks = PushedClicks(gens[dev.gen]))

(* Descriptors come after the announcement and are not pushed: once the    *)
(* plugin has announced the device again and the vDSM has read it after    *)
(* that, the tree it has read describes every declared sensor and input of *)
(* a sensor, and every declared input of an input device.                  *)
DeclaredIsSeen ==
    AllTold /\ dev.present /\ ~ owed /\ vdsm.read =>
        /\ dev.output = "sensor" =>
            dev.desc["sensor"] \subseteq vdsm.tree["sensor"]
            /\ dev.desc["input"] \subseteq vdsm.tree["input"]
        /\ dev.output = "binaryInput" => dev.desc["input"] \subseteq vdsm.tree["input"]

(* Every setting that a tree shows, of an input it describes, of the       *)
(* output or of the device, is the one the vDSM wrote last, whatever else  *)
(* it wrote, and whether or not the process ended in between and the       *)
(* device was announced again as another kind; a function of 0 for an      *)
(* input and an empty name are the exceptions.                             *)
SettingShown ==
    [][GetPropertyAnswer /\ reader.dev.present =>
        LET p == buildDeviceProperties(reader.dev)
        IN \A s \in SettingsOf(reader.dev, p.tree), field \in {"group", "function"} :
            LET a == asked[s[1]][s[2]][field]
            IN a = NoNumber \/ (a = 0 /\ ZeroHides(s[1], field)) \/ p.shown[s][field] = a]_treeVars

=============================================================================
