------------------------------ MODULE LightPlugins ------------------------------
(***************************************************************************)
(* One bridged lamp behind one of the device plugins: the commands that    *)
(* reach the plugin's Apply, the external device that obeys and reports,   *)
(* the transport between them, and the channel values the plugin hands to  *)
(* its host (Host.UpdateChannel), which is what the dSS shows.             *)
(*                                                                         *)
(* The translations are in the modules of the plugins.  What differs       *)
(* besides: over MQTT each message has a goroutine of its own (messages of *)
(* zigbee2mqtt and Tasmota are handled in any order); Home Assistant's     *)
(* snapshot, the state its Subscribe and Shelly's activate push, and       *)
(* WLED's initial poll are handled by a goroutine other than the reader of *)
(* events; Shelly sends only what changed.  The device itself is external: *)
(* it does what it is told if it can, and reports.                         *)
(***************************************************************************)
EXTENDS LightValues, Sequences, FiniteSets

CONSTANTS Plugins,       \* the plugins to consider
          Levels,        \* commanded values of channel 0
          Hues, Sats,    \* commanded values of channels 1 and 2
          MaxChanges,    \* bound on the commands and the changes at the device
          MaxReconnects, \* bound on reconnects, subscriptions and periodic reports
          MaxInFlight    \* bound on the reports in flight

Z == INSTANCE Zigbee2MQTT
T == INSTANCE Tasmota
H == INSTANCE HomeAssistant
S == INSTANCE Shelly
W == INSTANCE Wled

ASSUME LightAssumption ==
    /\ Plugins \subseteq {"zigbee2mqtt", "tasmota", "homeassistant", "shelly", "wled"}
    /\ Levels \subseteq 0..Full /\ Hues \subseteq 0..359 /\ Sats \subseteq 0..100
    /\ MaxChanges \in Nat /\ MaxReconnects \in Nat /\ MaxInFlight \in Nat

VARIABLES plugin,   \* the plugin in use
          feats,    \* what the lamp can do: "bri", "colour"
          ep,       \* what the plugin believes it can (endpoint, kind, spec)
          dev,      \* the device: on, bri in its own unit, col
          chan,     \* the channel values handed to the host
          cache,    \* the cached colour of Apply: sub.hue/sat, colorState
          status,   \* Shelly's merged status; Home Assistant's latestStates
          reports,  \* messages of the device in flight, oldest first
          snap,     \* a full state in the hands of another goroutine
          newest,   \* history: is the newest report among those in flight?
          overtaken, \* history: reports handled since snap was taken?
          missed,   \* history: a report lost or handled out of turn, until a full one
          rough,    \* history: Tasmota told "on" without a dimmer value
          want,     \* history: the last value commanded on channel 0
          wantCol,  \* history: the colour that single-axis commands aim at
          changes, reconnects \* counters

lampHistory == <<newest, overtaken, missed, rough>>
lightVars == <<plugin, feats, ep, dev, chan, cache, status, reports, snap, lampHistory,
          want, wantCol, changes, reconnects>>

NoSnap == [none |-> TRUE]
NoWant == -1
NoColour == <<-1, -1>>

BriMax == CASE plugin = "zigbee2mqtt" -> 254 [] plugin = "tasmota" -> 100
            [] plugin = "shelly" -> Full [] OTHER -> 255

(***************************************************************************)
(* The external device.                                                    *)
(***************************************************************************)
\* What each kind of device can be, from what it says of itself.
Capabilities(p) ==
    CASE p = "zigbee2mqtt" -> {Z!Features([type |-> t, features |-> f]) : t \in {"light", "switch"},
                                  f \in {{"state"}, {"state", "brightness"},
                                         {"state", "brightness", "color_xy", "color_hs"}}}
      [] p = "tasmota" -> {T!Features(slot, subtype) : slot \in 0..2, subtype \in 0..5}
      [] p = "homeassistant" -> {H!Features(m, b) : m \in {{"onoff"}, {"color_temp"}, {"color_temp", "xy"}},
                                                    b \in BOOLEAN}
      [] p = "shelly" -> {S!Features(c) : c \in {"switch", "light"}}
      [] p = "wled" -> {{"bri", "colour"}}

Colours(p) ==
    {IF p = "wled" THEN W!RGB(h, s) ELSE <<h, s>> : h \in Hues, s \in Sats}

\* The device obeys the fields it knows; zigbee2mqtt and Tasmota lamps may or may not
\* turn on with a colour, and Home Assistant takes brightness 0 for off.
Obeyed(s) ==
    LET level == Says(s, "bri") /\ "bri" \in feats /\ s.bri > 0
        dark == Says(s, "bri") /\ s.bri = 0
    IN  {[on |-> IF dark THEN FALSE ELSE IF Says(s, "on") THEN s.on
                 ELSE IF level THEN TRUE ELSE lit,
          bri |-> IF level THEN s.bri ELSE dev.bri,
          col |-> IF Says(s, "col") /\ "colour" \in feats THEN s.col ELSE dev.col]
           : lit \in {dev.on, dev.on \/ Says(s, "col")}}

FieldsOf(d, names) == [f \in names |-> d[f]]
Known == {"on"} \cup (IF "bri" \in feats THEN {"bri"} ELSE {})
                \cup (IF "colour" \in feats THEN {"col"} ELSE {})
\* The whole state; an entity of Home Assistant that is off has no attributes.
FullState(d) == FieldsOf(d, IF plugin = "homeassistant" /\ ~ d.on THEN {"on"} ELSE Known)

\* What the device reports when its state becomes d, having been told s.
Reported(d, s) ==
    LET changed == {f \in Known : d[f] # dev[f]}
    IN  CASE plugin \in {"zigbee2mqtt", "wled"} -> <<FullState(d)>>
          [] plugin = "homeassistant" -> IF d = dev THEN <<>> ELSE <<FullState(d)>>
          [] plugin = "shelly" -> IF changed = {} THEN <<>> ELSE <<FieldsOf(d, changed)>>
          [] plugin = "tasmota" ->
               <<FieldsOf(d, changed \cup (DOMAIN s \cap Known))>>
                 \o (IF d.on # dev.on THEN <<[power |-> d.on]>> ELSE <<>>)

Send(msgs) ==
    /\ Len(reports) + Len(msgs) <= MaxInFlight
    /\ reports' = reports \o msgs
    /\ newest' = (newest \/ msgs # <<>>)

(***************************************************************************)
(* The plugin.                                                             *)
(***************************************************************************)
LightTypeOK ==
    /\ plugin \in Plugins /\ feats \in Capabilities(plugin)
    /\ ep \subseteq {"bri", "colour"} /\ (ep # feats => plugin = "zigbee2mqtt")
    /\ DOMAIN chan = 0..2 /\ chan[0] \in 0..Full /\ chan[1] \in 0..360 /\ chan[2] \in 0..100
    /\ cache[1] \in 0..360 /\ cache[2] \in 0..100
    /\ dev.bri \in 1..BriMax
    /\ DOMAIN status \subseteq Known

NoneInFlight == reports = <<>> /\ snap = NoSnap

\* A group of zigbee2mqtt may be announced before its members: ep is inferred anew
\* with each list of groups, and until then the group passes for a plain light.
LightInit ==
    /\ plugin \in Plugins
    /\ feats \in Capabilities(plugin)
    /\ ep \in {feats} \cup (IF plugin = "zigbee2mqtt" THEN {Z!Inferred({"lamp"}, Nothing)} ELSE {})
    /\ \E on \in BOOLEAN, col \in Colours(plugin) : dev = [on |-> on, bri |-> BriMax, col |-> col]
    /\ chan = [c \in 0..2 |-> 0] /\ cache = <<0, 0>> /\ status = Nothing
    /\ reports = IF plugin \in {"homeassistant", "zigbee2mqtt"} THEN <<>> ELSE <<FullState(dev)>>
    /\ snap = IF plugin \in {"homeassistant", "wled"} THEN FullState(dev) ELSE NoSnap
    /\ newest = (reports # <<>>) /\ overtaken = FALSE /\ missed = TRUE /\ rough = FALSE
    /\ want = NoWant /\ wantCol = NoColour /\ changes = 0 /\ reconnects = 0

\* Deliberate bug: the axis just commanded is not remembered.
CachedNot(ch, v) == cache

\* The colour cache as Apply leaves it: it is written before the setting is sent.
Cached(ch, v) ==
    IF ch = 0 \/ plugin = "shelly" \/ (plugin \in {"zigbee2mqtt", "tasmota"} /\ "colour" \notin ep)
      THEN cache ELSE WithAxis(cache, ch, v)

Setting(ch, v) ==
    LET colour == Cached(ch, v)
    IN  CASE plugin = "zigbee2mqtt"   -> Z!Setting(ep, colour, ch, v)
          [] plugin = "tasmota"       -> T!Setting(ep, colour, ch, v)
          [] plugin = "homeassistant" -> H!Setting(colour, ch, v)
          [] plugin = "shelly"        -> S!Setting(ep, ch, v)
          [] plugin = "wled"          -> W!Setting(colour, ch, v)

\* A colour goes to Tasmota with the value 100, which the lamp takes for its brightness
\* or, as Apply's comment expects, for the brightness it has.
Understood(s) ==
    {s} \cup (IF plugin = "tasmota" /\ Says(s, "col") THEN {[col |-> s.col]} ELSE {})

\* The device is told s and reports.
Told(s) ==
    IF s = Nothing THEN UNCHANGED <<dev, reports, newest>>
    ELSE \E t \in Understood(s) : \E d \in Obeyed(t) : dev' = d /\ Send(Reported(d, t))

\* The colour a single-axis command means: the other axis as it is shown (for WLED, as
\* it was last commanded; Home Assistant shows the colour of a lit lamp only).
Meant(ch, v) ==
    IF /\ NoneInFlight /\ ~ missed /\ "colour" \in feats \cap ep
       /\ plugin = "homeassistant" => dev.on
      THEN WithAxis(IF plugin = "wled" THEN cache ELSE <<chan[1], chan[2]>>, ch, v)
      ELSE NoColour

\* Apply of a setChannel command.
Command(ch, v) ==
    /\ changes < MaxChanges /\ changes' = changes + 1
    /\ cache' = Cached(ch, v)
    /\ Told(Setting(ch, v))
    /\ want' = IF ch = 0 THEN v ELSE NoWant
    /\ wantCol' = IF ch = 0 THEN wantCol ELSE Meant(ch, v)
    /\ UNCHANGED <<plugin, feats, ep, chan, status, snap, overtaken, missed, rough, reconnects>>

\* WLED only: the scene is a preset of the device, here one of brightness and colour.
CallScene(scene) ==
    /\ plugin = "wled" /\ changes < MaxChanges /\ changes' = changes + 1
    /\ \E preset \in {[bri |-> 128, col |-> W!RGB(0, 100)]} : Told(W!SceneSetting(scene, preset))
    /\ want' = IF scene = 0 THEN 0 ELSE NoWant
    /\ wantCol' = NoColour
    /\ UNCHANGED <<plugin, feats, ep, chan, cache, status, snap, overtaken, missed, rough, reconnects>>

\* Somebody switches the lamp, or dims or colours a lit one, without the dSS.
Wall ==
    /\ changes < MaxChanges /\ changes' = changes + 1
    /\ \E d \in [on : BOOLEAN, bri : {dev.bri, 1, BriMax}, col : {dev.col} \cup Colours(plugin)] :
         /\ d.on # dev.on \/ dev.on
         /\ Cardinality({f \in Known : d[f] # dev[f]}) = 1
         /\ \A f \in DOMAIN d \ Known : d[f] = dev[f]
         /\ dev' = d /\ Send(Reported(d, Nothing))
    /\ want' = NoWant /\ wantCol' = NoColour
    /\ UNCHANGED <<plugin, feats, ep, chan, cache, status, snap, overtaken, missed, rough, reconnects>>

\* What one message makes of the channels; Shelly and Home Assistant look at st, the
\* status with the message in it.
UpdatesOf(r, st) ==
    CASE plugin = "zigbee2mqtt"   -> Z!Updates(ep, r)
      [] plugin = "tasmota"       -> IF Says(r, "power") THEN T!PowerUpdates(r.power) ELSE T!Updates(ep, r)
      [] plugin = "homeassistant" -> H!Updates(ep, st)
      [] plugin = "shelly"        -> S!Updates(ep, st)
      [] plugin = "wled"          -> W!Updates(r)

StatusWith(r) ==
    CASE plugin = "shelly" -> S!Merged(status, r) [] plugin = "homeassistant" -> r [] OTHER -> status

\* The handler's effect: the channels, and with a colour the cache (WLED's is Apply's own).
Handle(u) ==
    /\ chan' = u ++ chan
    /\ cache' = IF 1 \in DOMAIN u /\ plugin # "wled" THEN <<u[1], u[2]>> ELSE cache

Unordered == plugin \in {"zigbee2mqtt", "tasmota"}

Receive(i) ==
    /\ i \in 1..Len(reports) /\ (i = 1 \/ Unordered)
    /\ LET r == reports[i] IN
         /\ status' = StatusWith(r)
         /\ Handle(UpdatesOf(r, StatusWith(r)))
         /\ newest' = (newest /\ i < Len(reports))
         /\ missed' = IF r = FullState(dev) /\ newest /\ Len(reports) = 1 THEN FALSE
                      ELSE missed \/ i # 1
         /\ rough' = IF plugin = "tasmota" /\ (Says(r, "power") \/ Says(r, "on") \/ Says(r, "bri"))
                       THEN ~ Says(r, "bri") ELSE rough
    /\ reports' = [j \in 1..(Len(reports) - 1) |-> reports[IF j < i THEN j ELSE j + 1]]
    /\ overtaken' = (overtaken \/ snap # NoSnap)
    /\ UNCHANGED <<plugin, feats, ep, dev, snap, want, wantCol, changes, reconnects>>

\* handleSnapshot, the push of Subscribe or activate, or pollOnce, in a goroutine of its
\* own.  Shelly's is a copy of the status, and no news of the device.
HandleSnap ==
    /\ snap # NoSnap
    /\ status' = IF plugin = "homeassistant" THEN snap ELSE status
    /\ Handle(UpdatesOf(snap, snap))
    /\ missed' = (overtaken \/ (plugin = "shelly" /\ missed))
    /\ snap' = NoSnap /\ overtaken' = FALSE
    /\ UNCHANGED <<plugin, feats, ep, dev, reports, newest, rough, want, wantCol, changes, reconnects>>

(***************************************************************************)
(* Connections.  What was in flight is lost.                               *)
(***************************************************************************)
Again == reconnects < MaxReconnects /\ reconnects' = reconnects + 1
Lost == missed' = (missed \/ reports # <<>>)
Same == UNCHANGED <<plugin, feats, ep, dev, chan, cache, status, rough, want, wantCol, changes>>

\* The device's state messages are not retained: nobody asks for a new one.
ZigbeeReconnect ==
    /\ plugin = "zigbee2mqtt" /\ Again /\ Lost
    /\ reports' = <<>> /\ newest' = FALSE
    /\ UNCHANGED <<snap, overtaken>> /\ Same

\* Subscribed to events first; the snapshot goes to the goroutine of runOnce.
HAReconnect ==
    /\ plugin = "homeassistant" /\ Again /\ Lost
    /\ reports' = <<>> /\ newest' = FALSE
    /\ snap' = FullState(dev) /\ overtaken' = FALSE /\ Same

\* A mapping subscribed again is pushed the latest state known, beside the reader.
HASubscribe ==
    /\ plugin = "homeassistant" /\ Again /\ status # Nothing /\ snap = NoSnap
    /\ snap' = status /\ overtaken' = (missed \/ (status # FullState(dev) /\ reports = <<>>))
    /\ UNCHANGED <<reports, newest, missed>> /\ Same

\* The answer to the first request seeds the status with a full one.
ShellyReconnect ==
    /\ plugin = "shelly" /\ Again /\ Lost
    /\ reports' = <<FullState(dev)>> /\ newest' = TRUE
    /\ UNCHANGED <<snap, overtaken>> /\ Same

\* The heartbeat's poll is handled at once by the reader of the frames; frames that
\* were sent before it are handled after it.
ShellyPoll ==
    /\ plugin = "shelly" /\ Again
    /\ status' = S!Merged(status, FullState(dev))
    /\ Handle(S!Updates(ep, status'))
    /\ missed' = FALSE /\ overtaken' = (overtaken \/ snap # NoSnap)
    /\ UNCHANGED <<plugin, feats, ep, dev, reports, snap, newest, rough, want, wantCol, changes>>

\* activate of a component whose device has a client already: the status it has is
\* copied, and the copy applied beside the reader.
ShellySubscribe ==
    /\ plugin = "shelly" /\ Again /\ status # Nothing /\ snap = NoSnap
    /\ snap' = status /\ overtaken' = FALSE
    /\ UNCHANGED <<reports, newest, missed>> /\ Same

\* A new client (the address changed) has its first push, and a poll of its own.
WledReconnect ==
    /\ plugin = "wled" /\ Again /\ Lost
    /\ reports' = <<FullState(dev)>> /\ newest' = TRUE
    /\ snap' = FullState(dev) /\ overtaken' = FALSE /\ Same

\* The periodic tele/STATE, which is also the answer to the request of activate.
Telemetry ==
    /\ plugin = "tasmota" /\ Again /\ Send(<<FullState(dev)>>)
    /\ UNCHANGED <<snap, overtaken, missed>> /\ Same

\* The broker reconnects; what the device reports next is its telemetry.
TasmotaReconnect ==
    /\ plugin = "tasmota" /\ Again /\ Lost
    /\ reports' = <<>> /\ newest' = FALSE
    /\ UNCHANGED <<snap, overtaken>> /\ Same

\* The next list of groups finds the members among the devices.
Groups ==
    /\ plugin = "zigbee2mqtt"
    /\ ep' = Z!Inferred({"lamp"}, [m \in {"lamp"} |-> feats])
    /\ missed' = (missed \/ ep' # ep)
    /\ want' = IF ep' = ep THEN want ELSE NoWant
    /\ UNCHANGED <<plugin, feats, dev, chan, cache, status, reports, snap, newest, overtaken, rough,
                   wantCol, changes, reconnects>>

LightNext ==
    \/ \E v \in Levels : Command(0, v)
    \/ \E v \in Hues : Command(1, v)
    \/ \E v \in Sats : Command(2, v)
    \/ \E scene \in {0, 1} : CallScene(scene)
    \/ Wall
    \/ \E i \in 1..MaxInFlight : Receive(i)
    \/ HandleSnap
    \/ ZigbeeReconnect \/ HAReconnect \/ HASubscribe \/ ShellyReconnect \/ ShellyPoll
    \/ ShellySubscribe \/ WledReconnect \/ Telemetry \/ TasmotaReconnect \/ Groups

(***************************************************************************)
(* Properties.  All of them speak of rest: no message in flight, and none  *)
(* lost or handled out of turn since the last full one.                    *)
(***************************************************************************)
InStep == NoneInFlight /\ ~ missed
Percent == 100

\* The dSS shows 0 exactly for a lamp that is off: of each plugin's handlers, the merge
\* of Shelly's pushes and the goroutines that push a snapshot.
OnOffShown == InStep => (chan[0] = 0 <=> ~ dev.on)

\* A lit lamp with brightness is shown within a percent of it (except for a Tasmota lamp
\* whose last word was a bare POWER, and a group still taken for a plain light).
LevelShown ==
    InStep /\ dev.on /\ "bri" \in feats \cap ep /\ ~ rough =>
        Distance(chan[0], (dev.bri * Full) \div BriMax) <= Percent

\* Home Assistant takes less than half a step of brightness for off.
Precise == want = 0 \/ 2 * 255 * want >= Full \/ plugin # "homeassistant"

\* What the dSS commanded on channel 0 is what it is shown once the device has answered:
\* 0 for 0, else within a percent, and something for a plain light.
CommandShown ==
    InStep /\ want # NoWant /\ ~ rough /\ Precise =>
        /\ want = 0 <=> chan[0] = 0
        /\ want > 0 /\ "bri" \in feats \cap ep => Distance(chan[0], want) <= Percent

\* Hues lie on a circle.
HueDistance(x, y) == LET d == Distance(x, y) IN IF d > 180 THEN 360 - d ELSE d

\* A command for one axis of the colour leaves the other where it was shown.  WLED has
\* eight bits for each of red, green and blue: the saturation comes back within a
\* percent, and the hue within a degree and thirty more by percent of saturation.
AxisKept ==
    InStep /\ dev.on /\ wantCol # NoColour =>
        IF plugin # "wled" THEN <<chan[1], chan[2]>> = wantCol
        ELSE /\ Distance(chan[2], wantCol[2]) <= 1
             /\ (HueDistance(chan[1], wantCol[1]) - 1) * wantCol[2] <= 30

\* At rest the dSS shows the lamp as it is: on or off, and how bright.
LampShown == LightTypeOK /\ OnOffShown /\ LevelShown

\* At rest the last command has taken effect: a level is shown, and a colour's other axis
\* is kept (what a colour does to the level is left to the device).
CommandsStand == CommandShown /\ AxisKept
=============================================================================
