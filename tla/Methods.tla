------------------------------- MODULE Methods --------------------------------
(***************************************************************************)
(* The methods and notifications of the vDC API that reach devices and     *)
(* settings: pkg/vdcapi/method_service.go behind its two front ends, the   *)
(* JSON dispatcher (request_dispatch.go) and the protobuf one              *)
(* (pbuf_handlers.go, pbuf_dispatch.go).                                   *)
(*                                                                         *)
(* A handler runs on the goroutine of its connection.  It takes snapshots  *)
(* of the devices, then reads the scene store and calls the commander once *)
(* per device and channel; each call takes time and may fail, before or    *)
(* after the device has acted on it.  A replaced connection's handler may  *)
(* still run while the new one's does.                                     *)
(*                                                                         *)
(* A dSUID is a device and a spelling: devices are looked up without       *)
(* regard to case, the stores by the spelling given.                       *)
(***************************************************************************)
EXTENDS Integers, FiniteSets

CONSTANTS Handlers,     \* goroutines that run requests
          Devices,
          Lights,       \* devices whose output is a light
          Restless,     \* devices that change by themselves
          Native,       \* lights whose plugin recalls scenes itself
          DSUIDs,       \* [dev, spelling] records by which devices are named
          Lists,        \* sets of targets that requests name
          Scenes,       \* scene numbers used
          Values,       \* channel values that devices take by themselves
          MaxRequests   \* bound on the requests made

ASSUME MethodsAssumption ==
    /\ Lights \subseteq Devices /\ Restless \subseteq Devices /\ Native \subseteq Lights
    /\ Scenes \subseteq Nat /\ Values \subseteq Int \ {-1} /\ MaxRequests \in Nat
    /\ DSUIDs \subseteq [dev : Devices, spelling : {"upper", "lower"}]
    /\ \A d \in Devices : [dev |-> d, spelling |-> "upper"] \in DSUIDs
    /\ [dev |-> "root", spelling |-> "upper"] \notin DSUIDs
    /\ Lists \subseteq SUBSET (DSUIDs \cup {[dev |-> "root", spelling |-> "upper"]})

VARIABLES present,   \* devices in the state store
          chan,      \* their channel values there, None until reported
          out,       \* the values the devices really have
          scenes,    \* the scene store, by dSUID as given
          ostate,    \* the runtime output state of one device
          job,       \* the request each handler is working on
          count,     \* requests made
          last       \* history: what the output-state writes asked for

vars == <<present, chan, out, scenes, ostate, job, count, last>>

Channels == {0, 1}
None == -1
Preset == 77            \* what a native recall makes of channel 0
Root == [dev |-> "root", spelling |-> "upper"]
Canonical(d) == [dev |-> d, spelling |-> "upper"]
Targets == DSUIDs \cup {Root}

NoChannel == [has |-> FALSE, value |-> 0, dontCare |-> FALSE]
NoScene == [stored |-> FALSE, dontCare |-> FALSE, channels |-> [c \in Channels |-> NoChannel]]
Idle == [op |-> "none", scene |-> 0, asked |-> {}, targets |-> {}, work |-> {}, saves |-> {},
         read |-> {}, state |-> [localPriority |-> FALSE, transitionTime |-> 0],
         ok |-> TRUE, meant |-> {}, clean |-> Devices]

Outputs == Values \cup 0..100
Entries == [stored : BOOLEAN, dontCare : BOOLEAN,
            channels : [Channels -> [has : BOOLEAN, value : Outputs, dontCare : BOOLEAN]]]
OutputStates == [localPriority : BOOLEAN, transitionTime : 0..1]

TypeOK ==
    /\ present \subseteq Devices
    /\ chan \in [Devices -> [Channels -> Outputs \cup {None}]]
    /\ out \in [Devices -> [Channels -> Outputs]]
    /\ \A t \in DSUIDs, n \in Scenes : scenes[t][n] \in Entries
    /\ ostate \in OutputStates
    /\ \A h \in Handlers :
        /\ job[h].op \in {"none", "scene", "save", "level", "property", "outputState"}
        /\ \A w \in job[h].work : w.t \in DSUIDs /\ w.c \in Channels /\ w.v \in Outputs
        /\ job[h].clean \subseteq Devices
    /\ count \in 0..MaxRequests

Init ==
    /\ present = Devices
    /\ chan = [d \in Devices |-> [c \in Channels |-> None]]
    /\ out = [d \in Devices |-> [c \in Channels |-> 0]]
    /\ scenes = [t \in DSUIDs |-> [n \in Scenes |-> NoScene]]
    /\ ostate = [localPriority |-> FALSE, transitionTime |-> 0]
    /\ job = [h \in Handlers |-> Idle]
    /\ count = 0
    /\ last = [value |-> ostate, raced |-> FALSE]

-----------------------------------------------------------------------------
(* Who is addressed.                                                       *)
Addressable(t) == t = Root \/ t.dev \in present

Everyone == [all |-> TRUE, targets |-> {}]
Only(ts) == [all |-> FALSE, targets |-> ts]
Refused == [all |-> FALSE, targets |-> {[dev |-> "refused", spelling |-> "upper"]}]

(* A parameter that names several dSUIDs loses the unknown ones; a single  *)
(* unknown one is an error.                                                *)
Listed(ts) ==
    IF Root \in ts THEN Everyone
    ELSE IF Cardinality(ts) = 1 /\ ~ \A t \in ts : Addressable(t) THEN Refused
    ELSE Only({t \in ts : Addressable(t)})

(* The parameters have a set of dSUIDs, perhaps an itemSpec ("absent",     *)
(* "blank", "other" for one that is no string, or "given") and perhaps a   *)
(* zone and a group.                                                       *)
ByItem(p) == IF p.item = "blank" THEN Refused ELSE Listed({p.spec})
ByZone(p) == IF p.zone /\ p.group THEN Everyone ELSE Refused

(* Deliberate bug: the item is preferred to the dSUIDs.                    *)
JSONAudienceItemFirst(p) ==
    CASE p.item \in {"blank", "given"} -> ByItem(p)
      [] p.item \in {"absent", "other"} /\ p.dsuids # {} -> Listed(p.dsuids)
      [] OTHER -> ByZone(p)

resolveJSONNotificationAudience(p) ==
    CASE p.dsuids # {} -> Listed(p.dsuids)
      [] p.dsuids = {} /\ p.item \in {"blank", "given"} -> ByItem(p)
      [] OTHER -> ByZone(p)

resolvePbufNotificationAudience(p) ==
    CASE p.dsuids # {} -> Listed(p.dsuids)
      [] p.dsuids = {} /\ p.item # "absent" ->
            IF p.item = "other" THEN Refused ELSE ByItem(p)
      [] OTHER -> ByZone(p)

(* Deliberate bug: whoever is present is resolved, whatever its output.    *)
ResolveAnyOutput(a) ==
    {d \in present : a.all \/ Root \in a.targets \/ \E t \in a.targets : t.dev = d}

resolveNotificationTargets(a) ==
    {d \in present \cap Lights : a.all \/ Root \in a.targets \/ \E t \in a.targets : t.dev = d}

Meant(a) == IF a.all \/ Root \in a.targets THEN Devices ELSE {t.dev : t \in a.targets}

(* The audiences that reach a handler: a list as a notification has it, or *)
(* what a front end has made of a request's parameters.                    *)
Params(ts, i, t, z) == [dsuids |-> ts, item |-> i, spec |-> t, zone |-> z, group |-> TRUE]

Audiences ==
    {Only(ts) : ts \in Lists}
    \cup ({resolvePbufNotificationAudience(Params(ts, "absent", Root, TRUE)) : ts \in Lists \cup {{}}}
            \ {Refused})

Begin(h, j) ==
    /\ job[h] = Idle /\ count < MaxRequests
    /\ job' = [job EXCEPT ![h] = j]
    /\ count' = count + 1

-----------------------------------------------------------------------------
(* What a scene number does where no scene is stored.                      *)
mapSceneAction(n) ==
    CASE n \in {5, 6, 7, 8, 9, 14, 33, 35, 37, 39, 51, 65, 70, 71, 74, 75, 76} ->
            [kind |-> "level", level |-> 100]
      [] n \in {0, 1, 2, 3, 4, 32, 34, 36, 38, 40, 50, 64, 67, 68, 69, 72} ->
            [kind |-> "level", level |-> 0]
      [] n \in {17, 20, 23, 26, 29} -> [kind |-> "level", level |-> 75]
      [] n \in {18, 21}             -> [kind |-> "level", level |-> 50]
      [] n \in {19, 22, 28, 31}     -> [kind |-> "level", level |-> 25]
      [] n \in {24, 27, 30}         -> [kind |-> "level", level |-> 65]
      [] n = 25                     -> [kind |-> "level", level |-> 64]
      [] n = 13                     -> [kind |-> "level", level |-> 1]
      [] n \in {11, 42, 44, 46, 48} -> [kind |-> "level", level |-> 0]    \* dim down
      [] n \in {12, 43, 45, 47, 49} -> [kind |-> "level", level |-> 100]  \* dim up
      [] n \in {15, 52, 53, 54, 55} -> [kind |-> "stop", level |-> 0]
      [] OTHER                      -> [kind |-> "ignore", level |-> 0]

clampLevel(v) == IF v < 0 THEN 0 ELSE IF v > 100 THEN 100 ELSE v

Cared(e) == {c \in Channels : e.channels[c].has /\ ~e.channels[c].dontCare}

StoredWork(t, e) ==
    {[how |-> "stored", t |-> t, c |-> c,
      v |-> IF c = 0 THEN clampLevel(e.channels[c].value) ELSE e.channels[c].value] :
        c \in Cared(e)}

applyStaticSceneAction(a, n) ==
    IF mapSceneAction(n).kind # "level" THEN {}
    ELSE {[how |-> "scene", t |-> Canonical(d), c |-> 0, v |-> clampLevel(mapSceneAction(n).level)] :
            d \in resolveNotificationTargets(a)}

Usable(e) == e.stored /\ ~e.dontCare /\ Cared(e) # {}

(* What a call does for one target: the stored scene, unless it is not     *)
(* cared for as a whole or in every channel; then the number's meaning.    *)
SceneWork(t, n) ==
    IF t # Root /\ Usable(scenes[t][n]) THEN StoredWork(t, scenes[t][n])
    ELSE applyStaticSceneAction(Only({t}), n)

(* handleCallSceneNotification, also of callMinScene as a notification.  A *)
(* call for everyone does not look at the stored scenes.                   *)
CallScene(h, a, n) ==
    /\ Begin(h, [Idle EXCEPT !.op = "scene", !.scene = n, !.targets = a.targets, !.meant = Meant(a),
                             !.work = IF a.all THEN applyStaticSceneAction(a, n) ELSE {}])
    /\ UNCHANGED <<present, chan, out, scenes, ostate, last>>

ReadScene(h, t) ==
    /\ job[h].op = "scene" /\ job[h].work = {} /\ t \in job[h].targets
    /\ LET work == SceneWork(t, job[h].scene)
       IN job' = [job EXCEPT ![h] =
                    [@ EXCEPT !.targets = job[h].targets \ {t}, !.work = work,
                              !.read = job[h].read \cup {[t |-> t, work |-> work]}]]
    /\ UNCHANGED <<present, chan, out, scenes, ostate, count, last>>

(* setControlValue, setOutputChannelValue: a level for lights, or another  *)
(* channel as it is.                                                       *)
SetOutputChannelValue(h, a, c, v) ==
    /\ Begin(h, [Idle EXCEPT !.op = "level", !.meant = Meant(a),
                    !.work = {[how |-> "level", t |-> Canonical(d), c |-> c,
                               v |-> IF c = 0 THEN clampLevel(v) ELSE v] :
                                d \in resolveNotificationTargets(a)}])
    /\ UNCHANGED <<present, chan, out, scenes, ostate, last>>

(* setProperty of channel states: the values of several channels, in turn. *)
setPropertyFromPbuf(h, t, ws) ==
    /\ Begin(h, [Idle EXCEPT !.op = "property", !.meant = {t.dev},
                    !.ok = (t # Root /\ t.dev \in present \cap Lights),
                    !.asked = ws,
                    !.work = IF t # Root /\ t.dev \in present \cap Lights THEN ws ELSE {}])
    /\ UNCHANGED <<present, chan, out, scenes, ostate, last>>

(* Somebody else commanded the device, or it changed, left or came by      *)
(* itself: no handler can say any more what it made of the device.         *)
Touched(d) == [h \in Handlers |-> [job[h] EXCEPT !.clean = job[h].clean \ {d}]]

(* The commander reaches the device, which takes the value, unless the     *)
(* light was to recall the scene and could.                                *)
Reaches(w) == w.t.dev \in present /\ (w.how = "stored" /\ w.c = 0 => w.t.dev \in Lights)

(* Deliberate bug: a failing channel does not end a setProperty.           *)
AfterErrorGoesOn(h, w) == [job[h] EXCEPT !.work = job[h].work \ {w}]

(* setProperty ends at the first error; the others log it and go on.       *)
AfterError(h, w) ==
    [job[h] EXCEPT !.work = IF job[h].op = "property" THEN {} ELSE job[h].work \ {w},
                   !.ok = FALSE]

Did(h, w) == [job[h] EXCEPT !.work = job[h].work \ {w}]

Apply(h, w) ==
    /\ w \in job[h].work
    /\ \/ /\ Reaches(w) /\ ~(w.how = "scene" /\ w.t.dev \in Native)
          /\ out' = [out EXCEPT ![w.t.dev][w.c] = w.v]
          /\ job' = [Touched(w.t.dev) EXCEPT ![h] = Did(h, w)]
       \/ /\ Reaches(w) /\ w.how = "scene" /\ w.t.dev \in Native
          /\ \E v \in {Preset, w.v} : out' = [out EXCEPT ![w.t.dev][0] = v]
          /\ job' = [Touched(w.t.dev) EXCEPT ![h] = Did(h, w)]
       \/ /\ Reaches(w)                  \* an error, of a command that was late or lost
          /\ out' \in {out, [out EXCEPT ![w.t.dev][w.c] = w.v]}
          /\ job' = [Touched(w.t.dev) EXCEPT ![h] = AfterError(h, w)]
       \/ /\ ~Reaches(w)
          /\ job' = [job EXCEPT ![h] = IF w.how = "stored" THEN Did(h, w) ELSE AfterError(h, w)]
          /\ UNCHANGED out
    /\ UNCHANGED <<present, chan, scenes, ostate, count, last>>

-----------------------------------------------------------------------------
(* saveScene takes its snapshot first and stores device by device, under   *)
(* the spelling it was given.                                              *)
Saves(a) ==
    IF a.all THEN {[t |-> Canonical(d), values |-> chan[d]] : d \in present}
    ELSE {[t |-> t, values |-> chan[t.dev]] : t \in {x \in a.targets \ {Root} : x.dev \in present}}

SaveScene(h, a, n) ==
    /\ Begin(h, [Idle EXCEPT !.op = "save", !.scene = n, !.saves = Saves(a)])
    /\ UNCHANGED <<present, chan, out, scenes, ostate, last>>

(* The JSON dispatcher does for undoScene what it does for saveScene.      *)
UndoSceneJSON(h, a, n) == SaveScene(h, a, n)

(* Deliberate bug: the values replace the entry's channels.                *)
MergeForgets(e, values) ==
    [stored |-> TRUE, dontCare |-> e.dontCare,
     channels |-> [c \in Channels |->
        [has |-> values[c] # None, dontCare |-> FALSE,
         value |-> IF values[c] = None THEN 0 ELSE values[c]]]]

Merge(e, values) ==
    [stored |-> TRUE, dontCare |-> e.dontCare,
     channels |-> [c \in Channels |->
        IF values[c] = None THEN e.channels[c]
        ELSE [has |-> TRUE, value |-> values[c], dontCare |-> e.channels[c].dontCare]]]

StoreScene(h, s) ==
    /\ s \in job[h].saves
    /\ scenes' = [scenes EXCEPT ![s.t][job[h].scene] = Merge(scenes[s.t][job[h].scene], s.values)]
    /\ job' = [job EXCEPT ![h] = [@ EXCEPT !.saves = job[h].saves \ {s}]]
    /\ UNCHANGED <<present, chan, out, ostate, count, last>>

(* setProperty of a scene: one field of one channel, or of the scene.  The *)
(* entry is made when it is not there; the device is not looked up.        *)
WrittenChannel(ch, field, v) ==
    CASE field = "value"           -> [ch EXCEPT !.has = TRUE, !.value = v]
      [] field = "channelDontCare" -> [ch EXCEPT !.has = TRUE, !.dontCare = ~ch.dontCare]
      [] OTHER                     -> ch

WrittenEntry(e, c, field, v) ==
    [stored |-> TRUE,
     dontCare |-> IF field = "dontCare" THEN ~e.dontCare ELSE e.dontCare,
     channels |-> [e.channels EXCEPT ![c] = WrittenChannel(e.channels[c], field, v)]]

applySceneWrite(h, t, n, c, field, v) ==
    /\ job[h] = Idle /\ count < MaxRequests
    /\ scenes' = [scenes EXCEPT ![t][n] = WrittenEntry(scenes[t][n], c, field, v)]
    /\ count' = count + 1
    /\ UNCHANGED <<present, chan, out, ostate, job, last>>

(* What getProperty shows of a scene of a device, under its own spelling.  *)
buildSceneEntry(d, n) ==
    LET e == scenes[Canonical(d)][n]
        default == CASE n = 0 -> 0 [] n \in 1..4 -> 75 [] n = 5 -> 100 [] n \in 6..9 -> 33 [] OTHER -> None
    IN  [dontCare |-> e.stored /\ e.dontCare,
         channels |-> [c \in Channels |->
            IF e.stored /\ e.channels[c].has
            THEN [value |-> e.channels[c].value, dontCare |-> e.channels[c].dontCare]
            ELSE IF c = 0 /\ default # None THEN [value |-> default, dontCare |-> FALSE]
            ELSE [value |-> 0, dontCare |-> TRUE]]]

-----------------------------------------------------------------------------
(* setProperty of the output state reads the entry, changes the fields of  *)
(* the request and writes the entry back; a transition time of 0 is kept   *)
(* from the entry.                                                         *)
WithField(s, field, v) ==
    IF field = "localPriority" THEN [s EXCEPT !.localPriority = (v = 1)]
    ELSE [s EXCEPT !.transitionTime = v]

ReadOutputState(h, field, v) ==
    /\ Begin(h, [Idle EXCEPT !.op = "outputState",
                             !.asked = {[field |-> field, v |-> v]},
                             !.state = WithField(ostate, field, v)])
    /\ last' = [last EXCEPT !.raced = last.raced \/ \E g \in Handlers : job[g].op = "outputState"]
    /\ UNCHANGED <<present, chan, out, scenes, ostate>>

StoredState(s, old) ==
    [s EXCEPT !.transitionTime = IF s.transitionTime > 0 THEN s.transitionTime
                                 ELSE old.transitionTime]

SetDeviceOutputState(h) ==
    /\ job[h].op = "outputState"
    /\ ostate' = StoredState(job[h].state, ostate)
    /\ job' = [job EXCEPT ![h] = Idle]
    /\ \E q \in job[h].asked :
        last' = [last EXCEPT !.value =
                    IF q.field = "localPriority"
                    THEN [last.value EXCEPT !.localPriority = (q.v = 1)]
                    ELSE IF q.v > 0 THEN [last.value EXCEPT !.transitionTime = q.v]
                    ELSE last.value]
    /\ UNCHANGED <<present, chan, out, scenes, count>>

Finish(h) ==
    /\ job[h].op \in {"scene", "save", "level", "property"}
    /\ job[h].targets = {} /\ job[h].work = {} /\ job[h].saves = {}
    /\ job' = [job EXCEPT ![h] = Idle]
    /\ UNCHANGED <<present, chan, out, scenes, ostate, count, last>>

(* removeDeviceByDSUID takes the device out of the state store only.       *)
Remove(h, t) ==
    /\ job[h] = Idle /\ count < MaxRequests
    /\ t.dev \in present
    /\ present' = present \ {t.dev}
    /\ chan' = [chan EXCEPT ![t.dev] = [c \in Channels |-> None]]
    /\ count' = count + 1
    /\ job' = Touched(t.dev)
    /\ UNCHANGED <<out, scenes, ostate, last>>

-----------------------------------------------------------------------------
(* The devices: register again, change by themselves, and report.  What    *)
(* they do after the last request is not explored.                         *)
Underway == count < MaxRequests \/ \E h \in Handlers : job[h] # Idle

Register(d) ==
    /\ d \notin present /\ Underway
    /\ present' = present \cup {d}
    /\ job' = Touched(d)
    /\ UNCHANGED <<chan, out, scenes, ostate, count, last>>

DeviceChanges(d, c, v) ==
    /\ d \in Restless /\ out[d][c] # v /\ Underway
    /\ out' = [out EXCEPT ![d][c] = v]
    /\ job' = Touched(d)
    /\ UNCHANGED <<present, chan, scenes, ostate, count, last>>

Reports(d) ==
    /\ d \in present /\ chan[d] # out[d] /\ Underway
    /\ chan' = [chan EXCEPT ![d] = out[d]]
    /\ UNCHANGED <<present, out, scenes, ostate, job, count, last>>

PropertyWrites(t) ==
    {{[how |-> "property", t |-> t, c |-> c, v |-> v] : c \in cs} :
        cs \in SUBSET Channels \ {{}}, v \in Values}

Next ==
    \/ \E h \in Handlers :
        \/ \E a \in Audiences, n \in Scenes :
            CallScene(h, a, n) \/ SaveScene(h, a, n) \/ UndoSceneJSON(h, a, n)
        \/ \E t \in Targets : ReadScene(h, t)
        \/ \E a \in Audiences, c \in Channels, v \in Values : SetOutputChannelValue(h, a, c, v)
        \/ \E t \in DSUIDs : \E ws \in PropertyWrites(t) : setPropertyFromPbuf(h, t, ws)
        \/ \E w \in job[h].work : Apply(h, w)
        \/ \E s \in job[h].saves : StoreScene(h, s)
        \/ \E t \in DSUIDs, n \in Scenes, c \in Channels, v \in Values,
              f \in {"value", "channelDontCare", "dontCare", "effect"} :
                applySceneWrite(h, t, n, c, f, v)
        \/ \E f \in {"localPriority", "transitionTime"}, v \in 0..1 : ReadOutputState(h, f, v)
        \/ SetDeviceOutputState(h)
        \/ Finish(h)
        \/ \E t \in DSUIDs : Remove(h, t)
    \/ \E d \in Devices : Register(d) \/ Reports(d) \/ \E c \in Channels, v \in Values : DeviceChanges(d, c, v)

Spec == Init /\ [][Next]_vars

-----------------------------------------------------------------------------
(* A call that reported no error leaves each device that it addressed      *)
(* once, and that nobody else touched meanwhile, as its scene says: the    *)
(* cared-for channels of the stored scene, or the number's level or what   *)
(* the device itself has for the number.                                   *)
SceneTakesEffect ==
    [][\A h \in Handlers :
        job[h].op = "scene" /\ job'[h] = Idle /\ job[h].ok =>
            \A r \in job[h].read :
                r.t # Root /\ r.t.dev \in job[h].clean /\ r.t.dev \in Lights
                /\ (\A q \in job[h].read : q.t # r.t => q.t.dev \notin {r.t.dev, "root"}) =>
                    \A w \in r.work :
                        r.t.dev \in present =>
                            \/ out[r.t.dev][w.c] = w.v
                            \/ w.how = "scene" /\ r.t.dev \in Native /\ out[r.t.dev][0] = Preset]_vars

(* A command reaches only devices that some running request addresses, and *)
(* the level of a device that is no light is never changed by one.         *)
OnlyAddressed ==
    [][\A d \in Devices :
        out'[d] # out[d] =>
            \/ \E c \in Channels, v \in Values : DeviceChanges(d, c, v)
            \/ /\ \E h \in Handlers : d \in job[h].meant
               /\ out'[d][0] # out[d][0] => d \in Lights]_vars

(* A setProperty that is answered with OK has set every channel it named,  *)
(* unless somebody else touched the device meanwhile.                      *)
AnswerTellsTruth ==
    [][\A h \in Handlers :
        job[h].op = "property" /\ job'[h] = Idle /\ job[h].ok =>
            \A w \in job[h].asked : w.t.dev \in job[h].clean => out[w.t.dev][w.c] = w.v]_vars

(* What a request is answered with, or a scene call logged, is what the    *)
(* devices did.                                                            *)
AsAnswered == SceneTakesEffect /\ AnswerTellsTruth

(* A stored level of a light is what getProperty shows and what a call     *)
(* applies, whatever the scene; where no channel is cared for, scenes 0    *)
(* and 5 do what getProperty shows of them (of 1 to 4 and 6 to 9 it shows  *)
(* 75 and 33, and a call applies 0 and 100).                               *)
ShownIsApplied ==
    \A d \in present \cap Lights, n \in Scenes :
        LET shown == buildSceneEntry(d, n)
            e == scenes[Canonical(d)][n]
            told == (e.stored /\ e.channels[0].has) \/ (n \in {0, 5} /\ Cared(e) = {})
        IN  told /\ ~shown.dontCare /\ ~shown.channels[0].dontCare =>
                \E w \in SceneWork(Canonical(d), n) :
                    w.c = 0 /\ w.v = clampLevel(shown.channels[0].value)

(* A scene that was saved keeps the flags of its channels and the channels *)
(* that the device has not reported: a save takes nothing away.            *)
SavesTakeNothing ==
    [][\A t \in DSUIDs, n \in Scenes, c \in Channels :
        scenes[t][n].channels[c].has =>
            /\ scenes'[t][n].channels[c].has
            /\ \/ scenes'[t][n].channels[c].dontCare = scenes[t][n].channels[c].dontCare
               \/ \E h \in Handlers, v \in Values : applySceneWrite(h, t, n, c, "channelDontCare", v)]_vars

(* Both front ends resolve the same audience from the same parameters, but *)
(* for an itemSpec that is not a string.  It depends on who is present     *)
(* only, so it is looked at while no handler works.                        *)
AudienceParity ==
    (\A h \in Handlers : job[h] = Idle) =>
        \A ts \in Lists \cup {{}}, z \in BOOLEAN,
           q \in {<<"absent", Root>>, <<"blank", Root>>} \cup {<<"given", t>> : t \in UNION Lists} :
            LET p == Params(ts, q[1], q[2], z)
            IN  resolveJSONNotificationAudience(p) = resolvePbufNotificationAudience(p)

(* The two front ends agree on whom a request is for, and of a stored      *)
(* level and of scenes 0 and 5 getProperty shows what a call does.         *)
FrontEndsAgree == AudienceParity /\ ShownIsApplied

(* Once no output-state write is under way the entry holds the last value  *)
(* written to each field, unless two writes overlapped.                    *)
LastWriteStands ==
    ~last.raced /\ (\A h \in Handlers : job[h].op # "outputState") => ostate = last.value

(* What was written stays: the last output state, and in the scene store   *)
(* whatever a save does not replace.                                       *)
WritesStand == [](TypeOK /\ LastWriteStands) /\ SavesTakeNothing

===============================================================================
