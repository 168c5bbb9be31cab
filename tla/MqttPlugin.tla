------------------------------- MODULE MqttPlugin -------------------------------
(***************************************************************************)
(* A device plugin on the shared broker: pkg/bridge/zigbee2mqtt and, with  *)
(* the same structure, pkg/bridge/tasmota.  Devices become known by        *)
(* retained messages on a discovery topic; a mapping whose device is known *)
(* is activated, one broker subscription per device topic, and one whose   *)
(* device is not waits for it.  The requests of the registry (Subscribe,   *)
(* Unsubscribe, Close) and the discovery handler run in goroutines of      *)
(* their own, and hold the plugin's lock only around single accesses.      *)
(*                                                                         *)
(* The mappings of the model are two entities of one device (two buttons,  *)
(* two relays), so they listen to the same topics.  Which message a topic  *)
(* carries is the matter of LightPlugins.                                  *)
(***************************************************************************)
EXTENDS MqttBroker, Sequences, TLC

CONSTANTS Mappings,     \* the bridged devices
          DeviceTopics, \* the topics of the device, in the order of activate
          Requests,     \* goroutines with a request of the registry
          Handlers,     \* goroutines of the client library with a discovery message
          MaxLists,     \* bound on the discovery messages
          MaxRequests   \* bound on the requests and discovery messages together

Threads == Requests \cup Handlers
None == 0

\* A device has topics, of different names.
ASSUME MqttPluginAssumption ==
    /\ DeviceTopics \in Seq(Topics) /\ DeviceTopics # <<>>
    /\ Topics = {DeviceTopics[i] : i \in 1..Len(DeviceTopics)}
    /\ \A i, j \in 1..Len(DeviceTopics) : DeviceTopics[i] = DeviceTopics[j] => i = j
    /\ Objs \subseteq Nat /\ None \in Objs /\ None \notin Mappings
    /\ IsFiniteSet(Threads)
    /\ MaxLists \in Nat /\ MaxRequests \in Nat

VARIABLES closed,      \* has the plugin been closed, its discovery topic with it?
          known,       \* is the device in p.devices?
          subscribed,  \* p.subscribed: the current deviceSub of a mapping
          owner,       \* deviceSub.mapping
          subs,        \* deviceSub.subs: the topics it recorded
          job,         \* what each goroutine is doing
          lists,       \* discovery messages so far
          requests,    \* requests so far
          tangled,     \* history: activated twice, or dropped while activated
          refused      \* history: objects one of whose subscriptions failed

plugin == <<closed, known, subscribed, owner, subs, lists, tangled, refused>>
vars == <<broker, plugin, requests, job>>

Free == [pc |-> "free"]
Live == Objs \ {None}
Bound == {o \in Live : owner[o] # None}

\* The goroutines at work on object o: with it in hand, or on their list.
At(o) == {p \in Threads : job[p] # Free /\ (job[p].obj = o \/ o \in job[p].rest)}

Job == [pc : {"next", "append", "install", "rollback", "record", "read", "close", "release"},
        obj : Objs, rest : SUBSET Live, at : 1..(Len(DeviceTopics) + 1), got : SUBSET Topics]

TypeOK ==
    /\ BrokerTypeOK
    /\ closed \in BOOLEAN /\ known \in BOOLEAN /\ lists \in 0..MaxLists /\ requests \in 0..MaxRequests
    /\ subscribed \in [Mappings -> Objs]
    /\ owner \in [Live -> Mappings \cup {None}]
    /\ subs \in [Live -> SUBSET Topics]
    /\ tangled \subseteq Live /\ refused \subseteq Live
    /\ job \in [Threads -> Job \cup {Free}]

\* Init has found the broker and subscribed the discovery topic.
Init ==
    /\ BrokerInit /\ closed = FALSE
    /\ known = FALSE /\ lists = 0 /\ requests = 0 /\ tangled = {} /\ refused = {}
    /\ subscribed = [m \in Mappings |-> None]
    /\ owner = [o \in Live |-> None] /\ subs = [o \in Live |-> {}]
    /\ job = [p \in Threads |-> Free]

(***************************************************************************)
(* Activation: activate and activateGroup.                                 *)
(***************************************************************************)
Begin(pc, o, rest) == [pc |-> pc, obj |-> o, rest |-> rest, at |-> 1, got |-> {}]

\* One object is done: the loop goes on to the next, or is over.
Onward(p, pc) == IF job[p].rest = {} THEN Free ELSE Begin(pc, None, job[p].rest)

\* The object p takes next is already active, in other hands, or no longer wanted.
Tangles(p, o) ==
    \/ subs[o] # {} \/ subscribed[owner[o]] # o
    \/ \E q \in Threads \ {p} :
         job[q] # Free /\ job[q].obj = o /\ job[q].pc \in {"append", "install", "rollback", "record"}

\* The discovery handler takes the next pending object, if the device is still known.
Take(p) ==
    /\ job[p] # Free /\ job[p].pc = "next"
    /\ IF job[p].rest = {} \/ ~ known
         THEN job' = [job EXCEPT ![p] = Free] /\ UNCHANGED tangled
         ELSE \E o \in job[p].rest :
                /\ job' = [job EXCEPT ![p] = Begin("append", o, job[p].rest \ {o})]
                /\ tangled' = IF Tangles(p, o) THEN tangled \cup {o} ELSE tangled
    /\ UNCHANGED <<broker, closed, known, subscribed, owner, subs, lists, refused>>

Topic(p) == DeviceTopics[job[p].at]

\* The job goes on to the next topic, or to the record after the last one.
Following(p, got) ==
    [job[p] EXCEPT !.pc = IF job[p].at < Len(DeviceTopics) THEN "append" ELSE "record",
                   !.at = job[p].at + 1, !.got = got]

\* broker.Subscribe of the next topic, under the broker's lock.
SubscribeTopic(p) ==
    /\ job[p] # Free /\ job[p].pc = "append"
    /\ AddHandler(Topic(p), job[p].obj)
    /\ job' = [job EXCEPT ![p] =
                 IF MustInstall(Topic(p)) THEN [job[p] EXCEPT !.pc = "install"]
                 ELSE Following(p, job[p].got \cup {Topic(p)})]
    /\ UNCHANGED <<plugin, link, connected, installed, onConnect, lost, fails, failed, released>>

InstallTopic(p) ==
    /\ job[p] # Free /\ job[p].pc = "install"
    /\ \/ /\ InstallOK(Topic(p))
          /\ job' = [job EXCEPT ![p] = Following(p, job[p].got \cup {Topic(p)})]
       \/ /\ InstallFails(Topic(p))
          /\ job' = [job EXCEPT ![p].pc = "rollback"]
    /\ UNCHANGED <<plugin, link, connected, topicSubs, onConnect, lost, released>>

\* A failed subscription is taken out again, and activate goes on with the next topic.
Rollback(p) ==
    /\ job[p] # Free /\ job[p].pc = "rollback"
    /\ RemoveHandler(Topic(p), job[p].obj)
    /\ refused' = refused \cup {job[p].obj}
    /\ job' = [job EXCEPT ![p] = Following(p, job[p].got)]
    /\ UNCHANGED <<closed, known, subscribed, owner, subs, lists, tangled, link, connected, installed,
                   onConnect, lost, fails, failed, released>>

\* Deliberate bug: the list is built and never stored.
RecordedNot(p) == subs

\* sub.subs = subs, whatever it held before.
Recorded(p) == [subs EXCEPT ![job[p].obj] = job[p].got]

Record(p) ==
    /\ job[p] # Free /\ job[p].pc = "record"
    /\ subs' = Recorded(p)
    /\ job' = [job EXCEPT ![p] = Onward(p, "next")]
    /\ UNCHANGED <<broker, closed, known, subscribed, owner, lists, tangled, refused>>

(***************************************************************************)
(* The requests of the registry.                                           *)
(***************************************************************************)

\* Deliberate bug: Subscribe leaves the activation to the next discovery message.
PendingAtSubscribeNever(o) == {}

\* Who is to be activated at once: the new object, when its device is known.
PendingAtSubscribe(o) == IF known THEN {o} ELSE {}

\* Subscribe: a new deviceSub takes the place of the mapping's; p.devices is read
\* under the same lock.
Subscribe(p, m) ==
    /\ job[p] = Free
    /\ \E o \in Live \ Bound :
         /\ \A x \in Live : x < o => x \in Bound
         /\ owner' = [owner EXCEPT ![o] = m]
         /\ subscribed' = [subscribed EXCEPT ![m] = o]
         /\ job' = [job EXCEPT ![p] =
                      IF PendingAtSubscribe(o) # {} THEN Begin("append", o, {}) ELSE Free]
         /\ tangled' = IF subscribed[m] # None THEN tangled \cup {subscribed[m]} ELSE tangled
    /\ UNCHANGED <<broker, closed, known, subs, lists, refused>>

\* The objects in dropped leave p.subscribed; the goroutine will close what they hold.
Drop(p, dropped) ==
    /\ subscribed' = [m \in Mappings |-> IF subscribed[m] \in dropped THEN None ELSE subscribed[m]]
    /\ tangled' = tangled \cup {o \in dropped : At(o) # {}}
    /\ job' = [job EXCEPT ![p] = Begin("read", None, dropped)]

Unsubscribe(p, m) ==
    /\ job[p] = Free /\ subscribed[m] # None
    /\ Drop(p, {subscribed[m]})
    /\ UNCHANGED <<broker, closed, known, owner, subs, lists, refused>>

\* Close of the plugin: the discovery topic and everything subscribed.
Close(p) ==
    /\ job[p] = Free /\ ~ closed
    /\ closed' = TRUE
    /\ Drop(p, {subscribed[m] : m \in Mappings} \ {None})
    /\ UNCHANGED <<broker, known, owner, subs, lists, refused>>

\* sub.subs is read when the loop over it starts.
ReadSubs(p) ==
    /\ job[p] # Free /\ job[p].pc = "read"
    /\ IF job[p].rest = {} THEN job' = [job EXCEPT ![p] = Free]
       ELSE \E o \in job[p].rest :
              job' = [job EXCEPT ![p] = [Begin("close", o, job[p].rest \ {o}) EXCEPT !.got = subs[o]]]
    /\ UNCHANGED <<broker, plugin>>

\* Close of one subscription, under the broker's lock; the last handler of the topic
\* goes on to release it.
MustRelease(t, o) == IsLast(t, o) /\ connected

CloseSub(p) ==
    /\ job[p] # Free /\ job[p].pc = "close"
    /\ IF job[p].got = {}
         THEN job' = [job EXCEPT ![p] = Onward(p, "read")] /\ UNCHANGED topicSubs
         ELSE \E i \in DOMAIN DeviceTopics :
                LET t == DeviceTopics[i] IN
                /\ t \in job[p].got /\ \A j \in 1..(i - 1) : DeviceTopics[j] \notin job[p].got
                /\ RemoveHandler(t, job[p].obj)
                /\ job' = [job EXCEPT ![p] =
                             [job[p] EXCEPT !.got = job[p].got \ {t}, !.at = i,
                                !.pc = IF MustRelease(t, job[p].obj) THEN "release" ELSE "close"]]
    /\ UNCHANGED <<plugin, link, connected, installed, onConnect, lost, fails, failed, released>>

ReleaseTopic(p) ==
    /\ job[p] # Free /\ job[p].pc = "release"
    /\ Release(Topic(p))
    /\ job' = [job EXCEPT ![p].pc = "close"]
    /\ UNCHANGED <<plugin, link, connected, topicSubs, onConnect, lost, fails, failed>>

(***************************************************************************)
(* Discovery: onDevices, onGroups, onDiscovery.                            *)
(***************************************************************************)

\* The objects a discovery message activates: of this device, with nothing recorded.
Pending == {o \in Live : subs[o] = {} /\ \E m \in Mappings : subscribed[m] = o}

OnDevices(p, listed) ==
    /\ job[p] = Free /\ lists < MaxLists /\ lists + requests < MaxRequests
    /\ link /\ ~ closed
    /\ lists' = lists + 1
    /\ known' = listed
    /\ job' = IF listed THEN [job EXCEPT ![p] = Begin("next", None, Pending)] ELSE job
    /\ UNCHANGED <<broker, closed, subscribed, owner, subs, tangled, refused>>

Work(p) ==
    \/ Take(p) \/ SubscribeTopic(p) \/ InstallTopic(p) \/ Rollback(p) \/ Record(p)
    \/ ReadSubs(p) \/ CloseSub(p) \/ ReleaseTopic(p)

Request(p) ==
    /\ lists + requests < MaxRequests /\ requests' = requests + 1
    /\ Close(p) \/ \E m \in Mappings : Subscribe(p, m) \/ Unsubscribe(p, m)

Next ==
    \/ BrokerNext /\ UNCHANGED <<plugin, requests, job>>
    \/ (\E p \in Threads : Work(p)) /\ UNCHANGED requests
    \/ \E p \in Requests : Request(p)
    \/ (\E p \in Handlers, listed \in BOOLEAN : OnDevices(p, listed)) /\ UNCHANGED requests

Spec == Init /\ [][Next]_vars

(***************************************************************************)
(* Properties.                                                             *)
(***************************************************************************)
Quiet == \A p \in Threads : job[p] = Free

\* Once the plugin is at rest, a topic with a listener is held by the server, but for
\* a SUBSCRIBE that failed in this session and a release that overtook a new handler.
ListenersAreHeard == TypeOK /\ (Quiet => EverySubscriberHears)

\* A deviceSub that nobody is at work on has exactly one handler on each topic it
\* recorded while it is the mapping's, and none at all once it is not, whatever
\* failed: a second one would double every click, one left behind would go on
\* updating a device that is no longer bridged.  Exempt are objects that two
\* goroutines activated, that were dropped or replaced while one was at it.
HandlersAreOwned ==
    \A o \in Bound : At(o) = {} /\ o \notin tangled =>
        \A t \in Topics :
            topicSubs[t][o] = IF subscribed[owner[o]] = o /\ t \in subs[o] THEN 1 ELSE 0

\* A subscribed mapping of a known device is active, unless the broker refused a
\* topic: Subscribe and the discovery message cannot miss each other.
KnownIsActive ==
    Quiet /\ known => \A m \in Mappings : subscribed[m] # None =>
        subs[subscribed[m]] # {} \/ subscribed[m] \in refused
=============================================================================
