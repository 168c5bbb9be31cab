# TLA+ specification of digitalstrom-vdc-bridge

The bridge is a daemon that makes devices of other systems (Home Assistant,
MQTT, WLED, Shelly, Tasmota, Zigbee2MQTT, and devices that connect over TCP)
appear as devices of a digitalSTROM installation. It is a vDC: a vDSM of the
digitalSTROM server (dSS) connects to it and says Hello, the bridge announces
its devices, the vDSM sends notifications (call scene, dim, set a value) and
requests (get and set property), and the bridge pushes state.

This directory holds TLA+ models of the program, TLC configurations that check
them, and TLAPS proofs. Paths below are relative to the repository root;
`PROJECT.json` maps each definition to its source lines and lists the hazards
the properties are aimed at.

    cd tla
    tlc -config DaemonTasks.cfg MCDaemonTasks   # one run
    tlapm ServerProofs.tla                      # all proofs of one module

## 1. Inventory

| Part | State | Operations | Module |
|---|---|---|---|
| Hold-to-dim ramps, `pkg/vdcapi/dim_ramp.go` | `active`: uniqueID -> cancel handle, under a mutex; one goroutine per ramp | `start`, `stop`, `finish`, `stopAll`; tick | DimRamp |
| vDC API session, `pkg/vdcapi/pbuf_server.go`, `pbuf_dispatch.go`, `status_file.go` | `sessionConn`, `sessionDSUID` under `sessionMu`; per connection the session's vDSM; `SessionStatus` | accept, read loop, Hello, Bye, requests, teardown, shutdown | PbufSession |
| Announcement and push, `state_store.go`, `pbuf_server.go`, `config_store.go` | device states; subscriber channels; persisted set of announced dSUIDs | `HandleEvent`, `broadcast`, push goroutine, Hello frames, `StaleAnnouncedDSUIDs`, `MarkDSUIDAdded/Removed`, forget | Announce |
| Values, descriptors and settings of a device, `state_store.go`, `host.go`, `property_tree.go`, `pbuf_state_payload.go` | maps shared by the store, updates and snapshots; settings per dSUID | announce, re-announce, update, descriptor, get and set property | DeviceTree |
| Methods, `method_service.go`, `request_dispatch.go`, `pbuf_handlers.go`, `pbuf_scene_actions.go` | scene and output-state stores | scene calls, saves, undo, dim, output values, property writes, removal | Methods |
| Config, scene, mapping and plugin files, `config_store.go`, `scene_store.go`, `mapping_store.go`, `plugins_config.go` | a map under a lock and its file | set, save, load | Stores |
| Plugin registry, `pkg/bridge/registry.go` | `configs`, `instances`, `retry` under a mutex; mappings | start, supervise, add, remove, update, restart, enable, disable, create and remove bridge; the vDSM's remove of a device | PluginRegistry |
| External device API, `pkg/server`, `pkg/runtime`, `pkg/bridge/externaldevice`, commander | a registry by tag per TCP connection; the plugin's maps | init, bye, report, close, bridge, unbridge, command | ExternalDevice |
| Button actions, `connector_button_actions.go` | time of press and release, click count per button | a value above 0, a zero, BYE and a new connection | ConnectorButtons |
| Event and activity buffers, `event_buffer.go`, `device_activity.go`, `pkg/httpapi/events.go` | rings with sequence numbers; hub with one channel per WebSocket client | publish, fan out, clear, read, stream | EventBuffer |
| MQTT broker plugin, `pkg/bridge/mqtt/mqtt.go` | `topicSubs`, `connected` | connect, lose, subscribe, close | MqttBroker |
| Zigbee2MQTT and Tasmota, subscriptions | `devices`, `subscribed`, each subscription's topics | subscribe, unsubscribe, discovery, close | MqttPlugin |
| Lights of all plugins | channel values, cached colour, merged status, snapshots | command, report, reconnect, poll | Zigbee2MQTT, Tasmota, HomeAssistant, Shelly, Wled, LightValues, LightPlugins |
| Buttons of all plugins | held flag, hold timers | event, watchdog | PluginButtons |
| Protobuf codec, discovery, logging, authentication, web UI | none that steps of several actors share | | not modelled |

How they interact. A remote system or an external device reports through a
plugin or a connector into `StateStore.HandleEvent`; the store changes under
its lock and broadcasts after the unlock; each vDSM connection subscribes with
a bounded channel and a push goroutine turns updates into frames. In the other
direction the read loop of a vDSM connection turns frames into commands that
the commander routes to the plugin which owns the mapping; the store learns of
the effect only when the remote system reports it back. HTTP requests, each on
its own goroutine, and a supervisor goroutine change plugins and mappings.

What is hard here: locks are held for single looks at the maps, and most
operations go on after the unlock with what they saw (`stop` cancels, the
Hello writes frames, the supervisor starts plugins, saves write files, the
broker calls the server, the plugin calls its host); channels drop what does
not fit; connections and the process end between two steps; messages of one
device are handled in several goroutines; a file is written from a copy that
may be old.

## 2. Modules

Each component has a module with its state, its actions and its properties. An
`MC` module, where there is one, adds what a TLC configuration needs (values,
symmetry). Three modules put components that share no state side by side, so
that one run checks both: DaemonTasks (DimRamp and PluginRegistry, with the
fairness of both), Persistence (Stores and Announce) and BridgedDevices
(MqttPlugin and DeviceTree). A variable (`part`, `keeps`, `end`) chosen at the
start says which of the two moves while the other rests; this explores each of
them fully, and none of their interleavings, in which nothing could differ. A
`Proofs` module extends the component's module with theorems; `ServerProofs`
extends DimRamp, PbufSession and EventBuffer, which share no state, and
`ExternalDeviceProofs` ExternalDevice and EndDevices. Operators whose comment
starts with "Deliberate bug" are not used by any specification: each is a wrong
form of the operator after it, and putting it in that operator's place makes
the property named in `PROJECT.json` fail.

Some properties except a state that a history variable marks: `hidden`
(PbufSession), `disturbed` (Announce), `dropped` and `owed` (DeviceTree),
`raced` (DeviceTree, Methods), `rough` (Stores, Tasmota), `forgotten`
(PluginRegistry), `muddled` (ExternalDevice), `settled` (EventBuffer),
`released`, `failed` and `tangled` (MQTT), `missed` (LightPlugins), `mixed`
(PluginButtons) and `tainted` (ConnectorButtons). Each mark stands for an
interleaving in which the code really does leave that state, and section 4 says
what happens then; the property says that nothing else can. Such a property
does not watch over the marked case itself: were the code to get worse there,
it would still hold. The notes at the hazards in `PROJECT.json` say for each
what is set aside and what is covered, and where a comment or a document
promises otherwise a run of its own shows the code going wrong (PbufStatus and
ByeOffline, and DurationIsAPress for a message that no mark excepts).

**DimRamp.** The goroutine of `start` is `Tick` (ticker case), `Cancelled`
(`ctx.Done` case, which may lose against the ticker although it is ready),
`Apply` and `finish`. `stop` and `stopAll` delete entries under the lock and
hand the contexts over to `pending`; `cancel` is the call after the unlock.
`start` reads the stored level, returns early at the bound, and otherwise
cancels the old entry and registers the new one under one lock. Scene calls
and value writes are `applyLevel`: they leave ramps alone, and so does the
stop scene. Slots of `Ramps` are reused when nothing refers to them.

**PbufSession, SessionLease.** A connection's `pc` is its place in
`handleConn`: reading, in the Hello (`hello`, `replace`, `accept`), writing the
answer, serving a request, or in the deferred calls, which run in the order
`disconnect` (status), `release` (session owner), `close`. `sock` tells a peer
that left from a connection that the bridge closed. `claimSessionOwner`,
`isSessionOwner` and `releaseSessionOwner` are single steps under `sessionMu`;
closing the replaced connection happens after the unlock. `hidden` collects the
sessions which the status tells nothing of, because another handler has
written it since they were accepted. `OwnerAgrees` says three things: the owner
is a handler with that vDSM that has not ended; a status that says connected
names a session that there is; and the owner's session, once accepted, is the
one the status shows unless it is hidden. SessionLease is the abstract session:
a holder, and who is served.

**Announce.** `Change` is the part of `HandleEvent` under the lock,
`broadcast` the part after it, with the three outcomes no subscriber, room,
and full. The Hello takes the snapshot, replaces the announced set and makes
the frames, which `WriteHello` writes one by one beside the push goroutine,
the removals of stale devices first and then device after device.
`Received` is what the dSS makes of a frame; it is external to the repository.
`late` is the mark that the push goroutine of an ended connection has still to
make. `disturbed` collects the devices for which something happened that can
part the dSS from the store for good (an update dropped at a full channel, two
writers of one device at once, a change while the Hello is being answered, an
update cut off by a lost connection or a crash, a late mark, "forget vDSM").

**DeviceTree.** One device with the session up: the maps of values, by
generation, that the store, the queued updates and a getProperty snapshot
share; the descriptors that the tree is built of, kind by kind; the settings
the vDSM writes, under the dSUID as spelled. What a tree shows depends on the
kind of the device: `SettingsOf` has settings for the inputs, sensors and
buttons the device has and no others, sensors, buttons and binary inputs have
no output settings, and the default of the output's mode is 2 for a dimmable or
coloured light and 1 for a plain light and a climate device (`OutputMode`).
`raced` is set when a map is written while another goroutine iterates over it;
Go may then end the process (`Abort`), which comes back with its settings.

**Methods.** A request is one or two critical sections and one commander call
per device and channel, each of which may fail before or after the device has
acted. The notifications' audience (dSUID, list, `itemSpec`, zone, group) is
resolved in both front ends. Scene entries, output state, native recall,
undo and removal are kept; a dSUID is a device and a spelling, because devices
are looked up without regard to case and the stores by the spelling.
Property reads go through `buildSceneEntry`.

**Stores, DurableStore.** Three write disciplines, chosen in the initial state:
`rename` (config, scenes: an own temporary file, copied under a second lock),
`inPlace` (mappings: `os.WriteFile` over the file), `sharedTmp` (plugins: one
temporary name for all writers, so that a writer may rename, truncate or remove
another's). A write is one system call and may leave a mix over another's
bytes; the disk may fail and the daemon crash anywhere. DurableStore is the
abstract store: the file holds a version that memory had since the last start,
or is damaged where it is not replaced as a whole. A failing disk leaves a file
that is written in place as it was, truncated, or with a part of the text.

**PluginRegistry.** A goroutine's label names the step it takes next; between
two labels the registry's lock is free. HTTP requests are the `Admins`, the
supervisor and `Main` (daemon start) are goroutines of their own. `mode` is
the world the instance is in: which plugins and entities there are, how many
requests run at once, and the liberties: `overlap` (requests and the
supervisor overlap on one plugin), `readd` (an id that exists is added again),
`crash` (the daemon dies at any moment and starts with its files). The worlds
without `overlap` show what the operations achieve when they do not race on
one plugin, which the code does not enforce; the one with it shows what
survives. An update through the HTTP API makes a config without the `Disabled`
flag, and so enables a disabled plugin: this is modelled. At any time the vDSM
may remove a device (`removeDeviceByDSUID`), of which nobody tells the
registry: the mapping stays and is `forgotten` until its plugin, or the
daemon, starts again and announces the device anew.

**ExternalDevice.** `mode` is how a connection is read: JSON, the rest of an
array in which an init chose the simple protocol (`array`, whose further
objects are still handled), or simple lines. A connection reads a line, changes
its registry and the plugin's maps, and calls the host after the plugin's
unlock (`call`). A closing connection reports its devices one by one (`gone`).
The administrator bridges and unbridges step by step, and a command searches a
copied list of connections. The commander's look-up of the owner is in
`SetChannelValue`.

**EventBuffer.** `Publish` takes the number, `Store` the lock, `Fan` the
subscribers; then `Forward`, `HubRun` and `ClientWrite`, each from one bounded
channel into the next. `Poll` is the REST reader that asks for what came after
the last number it saw, with a limit of its own. The rings are sequences of
events, `LastN` is the cut at the capacity and `Matching` the filter of
`Snapshot`. The device activity buffer is the same code.

**MqttBroker, MqttPlugin.** The broker's calls are a critical section and a
message to the server each; connect and connection-lost handlers are
goroutines of their own. MqttPlugin extends it with `Subscribe`,
`Unsubscribe`, `Close` and the discovery handler of Zigbee2MQTT and Tasmota,
which have one structure: activation takes a pending mapping, subscribes topic
after topic and records each, and another goroutine may replace or drop it
meanwhile.

**LightPlugins and the plugins' modules.** Zigbee2MQTT, Tasmota, HomeAssistant,
Shelly and Wled each hold their two translations: a message of the device into
channel updates, a channel command into a setting of the device, with their
rounding, caches and features. Tasmota's colour command carries the value 100,
and the lamp may take that for its brightness or keep its own, as the comment
in the code expects (`Understood`). LightPlugins instantiates all five (`Z!`,
`T!`, `H!`, `S!`, `W!`) and adds the transport: messages in flight, goroutines
that hold a snapshot or a poll (the one in which Shelly's activation pushes its
cached status among them), reconnects, retained messages. The fields of a
Shelly lamp that matter here are never `null`, the case in which the code
deletes one. The lamp itself (`Obey`, `Wall`) is external.

**PluginButtons, ConnectorButtons, EndDevices.** Button events of the plugins
with the held flag, the watchdog and host calls one by one; the external
device's buttons with explicit time in steps of 50 ms, kept as ages. Such a
button sends values above 0 (1, or a duration) and zeros in any order, and may
say BYE and come back (`ByeAndHello`).
EndDevices composes lamps and both kinds of buttons: the kind of a mapping is
fixed when it is made.

## 3. Runs

| Run | Instance | Distinct states | Properties |
|---|---|---|---|
| DaemonTasks | ramps: 1 device, 2 handlers, 2 ramps, levels 0..3 by 2; supervisor: 1 plugin, 1 entity, 1 request, 2 instances, crashes | 139 k | `RampsTracked`, `StopIsEffective`, `RampEnds`, `FailedRestarts` |
| PbufSession | 2 connections, 2 vDSMs | 153 k | `SessionIsExclusive`, `OwnerAgrees`, `NoForeignTakeover`, `LostOwnerReleases`, `ShutdownEnds` |
| PbufStatus | as PbufSession | violated | `StatusIsCurrent` |
| PluginRegistry | 2 plugins one by one with crashes; 1 plugin, 2 requests, 3 instances, overlap, readd | 957 k | `InstancesAreAccounted`, `StoppedStaysDown`, `MappedHasDevice`, `RunningIsSubscribed` |
| ExternalDevice | 2 connections, one of them simple, 2 devices, an empty and a named tag | 2.29 M | `ListedIsConnected`, `ActiveIsConnected`, `SteadyIsReached` |
| ByeOffline | as ExternalDevice | violated | `ByeTakesOffline` |
| EventBuffer | 2 publishers, 2 sources, 3 events, rings of 1 and 2, channels of 1 | 429 k | `PollerMissesNothing`, `StreamIsComplete`, `PublishEnds` |
| Persistence | Announce: 1 device, 2 writers, channel of 1, all faults; Stores: 3 disciplines, 2 writers, 2 fields, 4 changes | 2.09 M | `Converges`, `AnnouncedCovers`, `AlwaysStarts`, `SavedStaysSaved`, `ImplementsDurableStore` |
| Methods | a light and another device, 2 handlers, 2 requests | 437 k | `AsAnswered`, `OnlyAddressed`, `WritesStand`, `FrontEndsAgree` |
| BridgedDevices | MqttPlugin: 2 mappings of one device, 1 topic, 2 subscriptions, 2 connections, 1 refusal, 4 requests and discovery messages; DeviceTree: 1 device of 5 kinds, channel of 2, 2 reports, 2 writes, 1 removal | 1.35 M | `ListenersAreHeard`, `HandlersAreOwned`, `KnownIsActive`, `ValuesConverge`, `DeclaredIsSeen`, `SettingShown` |
| EndDevices | 5 light plugins, 3 changes, 1 reconnect, 3 in flight; 3 button plugins, 4 events; connector buttons, values 1 and 250, 5 presses | 1.58 M | `LampShown`, `CommandsStand`, `ButtonRests`, `HoldEnds`, `ClicksAreRight` |
| DurationIsAPress | as EndDevices | violated | `DurationIsAPress` |

What each shows is in the `about` of its run in `PROJECT.json` and in the
comment at the property.

Why the bounds are enough.

* Two ramps of one device are the running one and the one that is ending or
  being cancelled; a step that does not divide the range makes the last tick
  overshoot; devices share nothing but the manager's lock.
* Two connections are an owner and one that takes over or is refused.
* A channel of 1 makes updates drop, with one more in the push goroutine's
  hands and one owed by each writer; updates of different devices meet only in
  the channel and in the order of frames, and no property relates two devices.
* DeviceTree's channel of 2 holds an announcement and an update that share
  maps, beside the one in the push goroutine's hands; one removal gives two
  generations of maps.
* Two requests in Methods overlap or follow each other, and each may address a
  light in both spellings and a device that is no light.
* Four changes by two writers are a save that runs alone, two that overlap and
  a third that goes on from what they left.
* Two plugins let the supervisor work on one while a request works on the
  other; two instances of one plugin are the old one being closed and its
  successor, and a third lets two starts overlap.
* Two connections carry one device at once, or hand it over; devices are tied
  together by a tag only, so two of them reach every collision. What the simple
  protocol does differently (no init after it is chosen, a BYE that tells
  nobody) concerns its own connection and the devices that the other one has.
* Three events fill and overflow rings of 1 and 2, and the channels of 1.
* Two subscriptions are those of two mappings on one topic or a mapping's old
  and new one; a topic list of one entry suffices because topics differ in
  nothing but the order in which activation walks them. Four requests and
  discovery messages make room for one mapping unsubscribed and the other
  subscribed after the device became known, and for a device that is listed and
  no longer listed.
* A lamp's state is one brightness and one colour: a command, its report and a
  report that it overtakes are three messages. The levels are off, the least
  one and the middle, where the rounding of the ranges 0..254, 0..255 and
  0..100 differs most. The hues are 0 and 359, between which the circle closes,
  and the saturations white and a trace of colour, where eight-bit colours are
  coarsest.
* The fifth press of a chain is the first that the code no longer tells apart.
  One message that finds the button as it says it is (a second value above 0,
  or a second 0) shows what such a message changes, before, in and after a
  chain; 1 and 250 are the documented "pressed" and a documented duration.

Deadlock is checked where nothing but the model's own bounds could stop the
system (DaemonTasks, PbufSession, PluginRegistry, and PbufStatus up to its
violation). In the other runs the bounds on changes, requests, connections,
events or presses end every behaviour, as a bridge that nobody talks to rests.

Fairness. Only what the Go scheduler, timers and TCP give. DimRamp
(`RampFairness`): a ramp goroutine takes its steps, and a handler finishes the
cancel it owes. PbufSession (`SessionFairSpec`): a handler takes the steps that
do not wait for its peer, the goroutine that waits for the context closes the
connection, and `Run` closes the listener once the context has ended; peers owe
nothing. PluginRegistry (`SupervisorFairness` in DaemonTasks): goroutines,
supervisor ticks and backoff timers go on, weakly fair; and strong fairness of
a successful `Init` is an assumption about the remote system, which is
reachable again and again. Without it a plugin may fail for ever. EventBuffer:
publishers go on; readers and clients owe nothing. EndDevices: a watchdog that
runs fires, gets the lock in the end, and goroutines make their host calls;
devices owe no event.

## 4. Observations

What the code does where a comment, a document or an expectation says
otherwise. Each was met while modelling; where a model excepts it, its mark is
named.

*Ramps and session.* `start` returns at `startValue == target`
(`dim_ramp.go:61`) before it looks at the active map: the stored level lags
behind the commanded one, and a "dim down" that arrives before the device has
reported leaves the upward ramp running, although the comment (line 51) says
that a new ramp cancels the previous one first. Every handler that ends marks
the status disconnected (`pbuf_server.go:132`), also one that never had the
session, although it "holds the current DSS connection state"
(`status_file.go:9`): the run PbufStatus finds it; OwnerAgrees has `hidden` for
it. When `Accept` fails, `Run` waits for handlers that nobody closes.

*Announcement and pushes.* `MarkDSUIDAdded` follows the frames
(`pbuf_server.go:213`): a connection lost in between, and the device removed
before the next Hello, leave the dSS with a device that the announced set does
not list (`disturbed`). Snapshots and updates share their maps with the store
(`state_store.go:68`), whose writers change them (`raced`). Every push repeats
the last click of every button. An announcement or a removal that a full
channel dropped is not repaired by later value updates (`dropped`). Home
Assistant sets a sensor's descriptor without announcing the device again
(`ha.go:518`; `owed`). An input's `sensorFunction` written as 0 gives way to
the descriptor's. Settings and scenes are kept by the dSUID as spelled, while
devices are looked up without regard to case.

*Methods.* A scene call for everyone ignores stored scenes; a stored `dontCare`
scene falls through to the number's own level; `undoScene` over JSON runs the
save handler; `callMinScene` as a notification is a full scene call, while the
generic request does nothing; `setProperty` applies only the first property it
recognises; the default scene values shown disagree with `mapSceneAction`: for
the scenes 1 to 4 and 6 to 9 a getProperty shows 75 and 33, and a call applies
0 and 100, which is why `ShownIsApplied` is about stored levels and the scenes
0 and 5; a scene with channel 1 only is shown with a default for channel 0;
writing `dontCare` makes up a value of 0; output state is read, merged and
written in separate critical sections, so that overlapping writes lose a field
(`last.raced`); a `transitionTime` of 0 cannot be written.

*Stores.* `plugins.json` is written through one temporary name
(`plugins_config.go:42`) outside the lock: overlapping saves may remove each
other's file, or leave a mix (`rough`). `bridges.json` is written in place: a
crash in the middle leaves a file with which the daemon does not start
(`service.go:192`). Overlapping saves of any store may write an older version
last. The encoder reads nested maps outside the lock (`scene_store.go:112`,
`config_store.go:498`).

*Registry.* The supervisor works on a copied list of configs and undoes a
removal that runs meanwhile. Disabling a plugin leaves its devices active
(`registry.go:607`, `docs/ui/plugins.md:66`). A plugin whose first `Init`
failed, and which the supervisor started later, is not in `plugins.json`.
`AddPlugin` accepts an id that is configured and does not run, replaces its
config and does not restore its mappings. A device that the vDSM removes
leaves its mapping behind (`host.go:21-26` speaks of such mappings), and comes
back with the next start of its plugin or of the daemon (`forgotten`).

*External devices.* A device that reconnects before the calls of its old
connection are made may end inactive (`muddled`). A BYE of the simple protocol
tells nobody that the device has left (`connector_simple.go:22`), although
after it "the device goes offline in digitalSTROM"
(`docs/external-device-api.md:286`): it stays listed and active, and the close
of the connection, which no longer has it, does not mend that. The run
ByeOffline finds it; such a device is `muddled` in the other properties. A write
error on the first connection ends the search for the device
(`server.go:54`). `SYNC` and `SYNCED` of the simple protocol are never reached
(`connector_simple.go:86-106`). Button states are kept by tag over a BYE
(`tainted`). A value above 0 is taken for the button going down, also a
duration in milliseconds, with which one message should be a whole press
(`docs/external-device-api.md:264` and the example at 382): no click is told,
and the next 0 makes a hold of it if it comes late. The run DurationIsAPress
finds it; `ClicksAreRight` takes every value above 0 as the code does.

*Events.* The sequence number is taken before the lock, so an older event may
be stored after a younger one was read, and the reader never gets it.

*MQTT.* The last `Close` of a topic and a new `Subscribe` decide under the
lock and call the server after it: the release may overtake the subscription
(`released`). A second handler of a topic whose first `SUBSCRIBE` fails stays
dead until the next connection (`failed`). `Unsubscribe` during an activation
leaves handlers that nobody closes, and two goroutines may activate one
mapping twice (`tangled`). An activation that failed half way is never tried
again (`refused`). `p.devices` is read outside the lock
(`zigbee2mqtt.go:439`). When the broker plugin is restarted, device plugins
keep the old broker (`zigbee2mqtt.go:133`).

*Lights and buttons.* Home Assistant's snapshot may overwrite a newer event
(`ws_client.go:148`), and WLED's first poll a newer message; messages of MQTT
devices are handled in any order (`missed`). WLED's colour cache never learns
reported colours (`wled.go:33`). Its colours are three bytes each: a hue that
is set comes back within a degree at full saturation, but at 1 percent it may
be off by 18 degrees, and 359 may come back as 0. A command of one axis
therefore leaves the other within the bound of `AxisKept`, not exactly as it
was. A bare `POWER` `ON` of Tasmota sets a dimmer to 100,
while the comment says "keep last brightness" (`tasmota.go:417`; `rough`).
Home Assistant's brightness below half a step turns the light off. A
Zigbee2MQTT group announced before its members is a plain light until the next
list of groups, while the comment at `discovery.go:555` says dimmer. A fired
watchdog that waits for the lock may release a newer hold, and handlers that
mix their host calls may leave a button pressed (`mixed`). Shelly sends a hold
without a release.

## 5. Proofs

Every invariant, action property and refinement that a passing run checks is
stated by a theorem. There are eight modules of proofs.

`ServerProofs` has three parts.

*Ramps.* For any devices, handlers, ramp slots, level range and
step (`RampAssumption`): `RampsTracked` and `StopIsEffective`. That
at most one ramp drives a device follows from `RampsTracked`, as `active` has
one entry for a device. Type correctness carries the clamping argument
(`ClampInRange`, `TickInRange`). That no ramp is lost is not inductive alone:
`finish` spares other ramps' entries only because the entries of two devices
differ (`ActiveIsLive`), and `cancel` spares the active entries only because a
context that was handed over is in no entry (`HandedOver`). `StopIsEffective`
rests on `Stopped`, which adds that no entry is left for a stopped device.

*Session.* For any connections and vDSMs (`SessionAssumption`):
`SessionIsExclusive`, `OwnerAgrees` and the action property
`NoForeignTakeover`. A handler can be replaced between its claim and the moment
its session becomes active, so the invariant speaks of claims: `ClaimIsOwned`
(a claim on an open connection that nobody is about to close is the current
one), with `Locals`, what a handler's local variables hold at each place. That
the live session is shown unless it is hidden (`LiveIsShown`) rests on who
writes the status: a Hello shows its own session and hides every other, and a
handler that ends hides those that live on (`ShownNext`). `NoForeignTakeover`
includes the refinement of SessionLease. Only a claim and a release change the
holder (`HolderChanges`); that a claim never passes the session from one vDSM
to another needs `OwnerHasClaim`, as an owner that still waited in the Hello
could claim for a second vDSM.

*Events.* For any publishers, capacities and events
(`EventBufferAssumption`): `StreamIsComplete` and `PollerMissesNothing`. An
event that is twice anywhere on its way is received twice in the end, so
`Single` speaks of the four channels as one: no sequence number is at two
places of the way. `Fresh` keeps apart the numbers that publishers hold
outside the lock, and `Complete` finds every number given out since the client
joined with a publisher, on the way or among the dropped. `RingInv` is about
the rings: `NumbersAreNew` (a number about to be stored is in no ring) and
`RingsAgree` (a source's own ring and the global ring have the same newest
event of the source, and going back from it the same events as far as both
reach). The rings were first compared through a filter over the global ring,
whose value for every sequence is an induction over data; `RingsAgree` says
the same of neighbouring events, and is inductive as it stands. The proof
found that the property's mark for events that a limit cut off was too small
for limits above 1, which the run's limit of 1 could not show.

`StoresProofs` proves, for any writers, fields and changes
(`StoresAssumption`), `AlwaysStarts`, `SavedStaysSaved` and the refinement
`ImplementsDurableStore`. The inductive invariant says where a version can be
(`Held`: in memory, in a saver's hands or in the file only what memory once
held), which steps a discipline takes (`Steps`), what a saver that runs alone
may rely on (`Alone`: the others rest, its copy is current, and the temporary
file is its own), that only lone saves leave the file in order (`Smooth`), and
that no saver holds a copy older than the last lone save (`Rising`; the copy
is taken after the change). The refinement then follows by cases: a change is
the abstract change, a start the abstract restart, and every other step
leaves in the file what `Held` allows.

`ExternalDeviceProofs` proves, for any connections, devices and tags
(`ExternalDeviceAssumption`: connections are finitely many, and the mark of an
empty tag is no device), `ListedIsConnected`, `ActiveIsConnected` and
`SteadyIsReached`. All three rest on `OnePlace`: a device that is not muddled
is under one tag of one connection, and that one alone calls the host for it.
`Listed` then includes the devices that a closing connection has yet to report,
`Pending` and `Settled` say that a call under way brings what the device now
wants and that without one the store has it, and `Steady` that the connection
of a steady command is still among those to be tried.

Its second part is about EndDevices: the buttons and the lamps.

*Buttons of plugins.* For any goroutines, watchdogs and events
(`ButtonAssumption`): `ButtonRests`. Outside the plugin's lock a goroutine
holds host calls that it has yet to make, so `ButtonInv` says, unless two
goroutines mixed their calls: one goroutine at most is at work (`OneAtWork`),
the timers are those of the hold that is on (`TimerGuards`), what the plugin
keeps as held, the host was told or will be told by that goroutine
(`BeginsHeld`, `ShownHeld`), and what it was told ends as the held flag says
(`ToldHeld`). *Connector buttons.* For any values, in any order and after any times
(`ButtonModeAssumption`; an age is kept up to `Old`, where the code's last
threshold has passed): `ClicksAreRight`, in which a press lasts from the first
value above 0 to the next 0, as the code has it. `ClickInv` adds the form
of the counters (`ClickForm`), the time of the press that is on (`PressTime`)
and the clicks counted in the chain so far (`Sequence`); `HoldTells` and
`ChainGrows` are the two lemmas it turns on.

*Lamps.* For any levels in 0..10000, hues in 0..359 and saturations in 0..100,
and any number of changes, reconnects and messages in flight
(`LightAssumption`): `LampShown` and `CommandsStand`, for all five plugins.
At rest the channels are right (`Rests`), and `LampInv` says what is left to
come: the newest report, and an answer that no report overtook, tell the whole
state (`Sending`; Zigbee2MQTT, Home Assistant, WLED), the last report that
says something of a field says it right (`Deltas`, Tasmota), and so with what
is merged already (`Merging`, Shelly). `Meaning` ties the lamp to what was
commanded. The rest is arithmetic, proved for every value and not only for
those of the run: `CommandsClose` and `LevelClose` (a level commanded and
reported back is within a percent in each of the ranges), and `RoundTrip`
(every hue and saturation, made three bytes by `RGB` of WLED and read back by
`HueSat`, has the saturation within 1 and the hue within 1 + 30 / saturation
degrees).
`RoundTrip` replaced the first form of `AxisKept`, which allowed less and which
1597 pairs of a hue and a saturation refute; the run had none of them.

`PluginRegistryProofs` proves, for any plugins, entities, goroutines and
instances (`RegistryAssumption`), `InstancesAreAccounted`, `StoppedStaysDown`,
`MappedHasDevice` (but for a device that the vDSM has removed since its plugin
last started) and `RunningIsSubscribed`. The first holds in every world,
overlapping operations included: `Held` says that a registered instance is
open, and that one taken out of the map, or opened and not yet registered, is
in one goroutine's hands. The other three are about the worlds where
operations come one by one for each plugin (`OneByOne`), and rest on
`Orderly`: no two goroutines are busy with one plugin (`Apart`), each finds
the plugin as it left it at its last unlock (`Plans`, the clause that the
proof turns on: it says for each label what the goroutine may rely on), and
devices, mappings and subscriptions agree but for what an operation on its way
owes (`Agree`). The invariant's first form failed at an operation that ended
with a leftover of its record, which no later step reads; the model now
clears it.

`AnnounceProofs` proves, for any devices and writers and any capacity of the
channel (`AnnounceAssumption`), `Converges` and `AnnouncedCovers`. Both speak
of a device of which nothing is on its way, so the invariant says what is left
to come: the last update on its way says what the store says (`LastSays`), the
frames of a Hello too (`HelloSays`), a removal of a device that is present is
followed by its announcement (`ComesBack`), and the dSS and the announced set
agree with the store or a frame or a mark that mends it is to come (`Told`,
`Covered`). The proof showed that `Converges` needs no exemption for a
connection whose network has failed, and the property lost it: what was
written into a dead connection disturbs the device.

`DeviceTreeProofs` proves, for any reports, descriptors, writes and capacity of
the channel (`DeviceTreeAssumption`), `ValuesConverge`, `DeclaredIsSeen` and
the action property `SettingShown`. An announcement or a removal is a word
about the device: the last word on its way says what the store says
(`LastWord`), and the last update brings the maps of the device that is there
(`LastValue`), whose values nobody can part from it because they are shared.
A snapshot that no word has overtaken is the device itself
(`ReaderIsCurrent`), one that was overtaken leads to a tree that is not counted
as read (`StaleIsUnread`), and so the tree that was read describes what is
declared (`TreeIsCurrent`). `SettingShown` is about the settings that the tree
of that kind of device shows, whatever kind it was when they were written, and
rests on `StoredIsAsked`.

`MethodsProofs` proves, for any devices, handlers, scene numbers and values
(`MethodsAssumption`; no device has the root's dSUID, which
`method_service.go:206` takes for the vDC itself), `AsAnswered`,
`OnlyAddressed`, `WritesStand` and `FrontEndsAgree`. A request goes through its
targets and its commander calls one by one, so the invariant says of its local
variables what they are for (`JobForm`, `JobAddressed`: what is yet to be done
is for devices the request is meant for, and a level for a light only;
`JobReads`: what is yet to be done was read for some target) and of the lights
that nobody else touched that what was read is done or yet to do
(`CallTakesEffect`, `WriteTakesEffect`), until an error is noted. `StateIsLast`
says that the output state is what was last written, unless two writes
overlapped. Of `FrontEndsAgree`, the lemma `Shown` says that what a getProperty
shows is what a call applies: for every scene with a stored level, and for the
scenes 0 and 5 without a channel that is cared for. The proof attempt showed
that `AsAnswered` was false in its first form: a device that is removed during
a call of a stored scene and registered again is passed over, and the errors of
stored values are not returned. Storing the scene, calling it and removing the
device are three requests, one more than the run has. Such a device now counts
as touched by somebody else.

`MqttPluginProofs` proves, for any mappings, topics, finitely many goroutines,
connections and failures (`MqttBrokerAssumption`, `MqttPluginAssumption`: a
device has topics, of different names, as `activate` of both plugins builds
them), `ListenersAreHeard`, `HandlersAreOwned` and `KnownIsActive`.
`HandlersAreOwned` is about counts: a handler is in the hands of the goroutine
that added it until it is recorded, on record until a goroutine that closes
reads the record, and in that one's hands until it is removed. `Counted` sums
this up, as an equation where the object is not tangled and as a lower bound
where it is: without the bound a removal could take a handler that is not
there. It needs that an object is closed once (`ClosedOnce`) and activated by
one goroutine before anything is recorded (`Alone`). `Served` adds to
`ListenersAreHeard` what is about to be installed, by a goroutine or by a
connect handler, and `Sought` to `KnownIsActive` what is on somebody's list;
`Tried` ties an empty record to a refused topic. `Dialled` bounds the
connection-lost handlers by the connections made.

Each of these invariants was checked by TLC on the instance of the component's
run before it was proved (PluginRegistry in four worlds, MqttPlugin also with
two topics and with two goroutines of each kind, DeviceTree also with one
generation and one report more, Methods also with three requests to a depth of
14).

Only model-checked: liveness (`RampEnds`, `LostOwnerReleases`, `ShutdownEnds`,
`FailedRestarts`, `PublishEnds`, `HoldEnds`), which is outside the prover's
reach, as is whatever needs ENABLED.

## 6. Not modelled

* The protobuf and JSON encodings, request validation without effect, dSUID
  derivation, discovery, logging, HTTP authentication, export and import, and
  the web UI keep no state that steps of several actors share.
* Icons, models, names and the constant parts of the property tree.
* Sensors, covers, climate and energy values of the plugins: each is one
  translation of one number without a command back. Home Assistant's entity
  registry and pending calls.
* The subscription lifecycle and discovery of Shelly and WLED, which have
  their own reference counts and clients (what Shelly's activation pushes is in
  LightPlugins). Read while modelling: Shelly's
  `Unsubscribe` decrements the count of a subscription that was never
  activated (`shelly.go:215`), and a WLED client started after `Unsubscribe`
  is never stopped (`wled.go:365`).
* The MQTT manager's look-up of brokers by name. A message that a topic
  carries is in LightPlugins, who listens to it in MqttPlugin.
* The wait of `Run` for its handlers is modelled as complete: a connection
  accepted just before the listener closes can call `wg.Add` beside `wg.Wait`
  and outlive it; its handler then closes it because the context has ended.
* Four hazards have no property at all. Two go wrong in the code as it is and are
  among the observations (the ramp's early return, entered from
  `method_service.go:731`, and `registry.go:453`); the other two are `Run`'s
  wait above and its accept error (`pbuf_server.go:107` and `:122`).

## 7. Plan

Done: all modules of section 2, and the proofs of section 5. Next:

1. Theorems: an abstract device (connected or not) for ExternalDevice, and an
   ordered stream with gaps for EventBuffer, as abstract specifications.
2. The subscription lifecycle of Shelly and WLED, as a sibling of MqttPlugin.
3. Home Assistant's pending calls over reconnects, and its sensors.
