---------------------------- MODULE ExternalDevice ----------------------------
(***************************************************************************)
(* The external device API: devices reach the bridge over TCP connections  *)
(* (pkg/server), each with a registry of the devices it carries by tag     *)
(* (pkg/runtime/registry.go), and the externaldevice plugin turns what     *)
(* they report into calls of the bridge host.                              *)
(*                                                                         *)
(* Every connection has a goroutine that handles one line after the other. *)
(* An event of a line is handled in two steps: Plugin.onEvent changes the  *)
(* plugin's maps under its lock and calls the host after the unlock.  The  *)
(* administrator bridges and unbridges devices and a commander sends       *)
(* channel values, both from goroutines of their own.                      *)
(*                                                                         *)
(* Of a device's state only its presence in the state store and its Active *)
(* flag are kept: channel, button, input and sensor reports take the path  *)
(* of Report and change neither.                                           *)
(***************************************************************************)
EXTENDS Naturals, FiniteSets, Functions

CONSTANTS Conns,      \* TCP connections
          Uids,       \* uniqueIDs of external devices
          Tags,       \* the tags devices are addressed by on a connection
          NoTag,      \* the empty tag, a member of Tags
          Bridgeable, \* the devices that the administrator and commands deal with
          MaxOpens,   \* how many connections may be accepted in all
          MaxSimple   \* how many connections may use the simple protocol at once

NoUid == "nouid"

ASSUME ExternalDeviceAssumption ==
    /\ NoTag \in Tags /\ Bridgeable \subseteq Uids
    /\ MaxOpens \in Nat /\ MaxSimple \in Nat
    /\ NoUid \notin Uids /\ IsFiniteSet(Conns)

Idle == [op |-> "idle"]

VARIABLES link,      \* per connection: "none", "up", "closing"
          mode,      \* Connector.mode
          reg,       \* Registry.devices: the uniqueID a tag stands for
          gone,      \* devices a closing connection has yet to report removed
          call,      \* the host call a connection has yet to make, or Idle
          devices,   \* Plugin.devices
          subs,      \* Plugin.subs, by uniqueID
          mapped,    \* the mapping store's external devices
          store,     \* the state store: "absent", "active" or "inactive"
          admin,     \* where CreateBridge or RemoveBridge is, or Idle
          cmd,       \* where Server.SetChannelValue is, or Idle
          opens,     \* connections accepted so far
          silent,    \* history: devices that last reported themselves inactive
          muddled    \* history: devices the plugin may be wrong about

vars == <<link, mode, reg, gone, call, devices, subs, mapped, store, admin, cmd,
          opens, silent, muddled>>
conn == <<link, mode, reg, gone>>
maps == <<devices, subs>>
history == <<silent, muddled>>

HostCalls == [op : {"announce", "active", "inactive"}, uid : Uids]
AdminSteps ==
    [op : {"announceNew", "subscribe", "announce", "removeDevice", "removeMapping"},
     uid : Uids]
Commands == [op : {"sending", "failed", "notConnected"}, uid : Uids,
             left : SUBSET Conns, steady : BOOLEAN]

TypeOK ==
    /\ link \in [Conns -> {"none", "up", "closing"}]
    /\ mode \in [Conns -> {"json", "array", "simple"}]
    /\ reg \in [Conns -> [Tags -> Uids \cup {NoUid}]]
    /\ gone \in [Conns -> SUBSET Uids]
    /\ call \in [Conns -> HostCalls \cup {Idle}]
    /\ devices \subseteq Uids
    /\ subs \subseteq Uids
    /\ mapped \subseteq Uids
    /\ store \in [Uids -> {"absent", "active", "inactive"}]
    /\ admin \in AdminSteps \cup {Idle}
    /\ cmd \in Commands \cup {Idle}
    /\ opens \in 0..MaxOpens
    /\ silent \subseteq Bridgeable
    /\ muddled \subseteq Uids

NoDevices == [t \in Tags |-> NoUid]

Init ==
    /\ link = [c \in Conns |-> "none"]
    /\ mode = [c \in Conns |-> "json"]
    /\ reg = [c \in Conns |-> NoDevices]
    /\ gone = [c \in Conns |-> {}]
    /\ call = [c \in Conns |-> Idle]
    /\ devices = {} /\ subs = {} /\ mapped = {}
    /\ store = [u \in Uids |-> "absent"]
    /\ admin = Idle /\ cmd = Idle
    /\ opens = 0
    /\ silent = {}
    /\ muddled = {}

Registered(c) == Range(reg[c]) \ {NoUid}
Used(c) == {t \in Tags : reg[c][t] # NoUid}

(* Registry.ResolveTag: the empty tag stands for the only device.          *)
ResolveTag(c, t) ==
    IF t # NoTag THEN Used(c) \cap {t}
    ELSE IF Cardinality(Used(c)) = 1 THEN Used(c) ELSE {}

Ready(c) == link[c] = "up" /\ call[c] = Idle
Connected(u) == \E c \in Conns : link[c] = "up" /\ u \in Registered(c)

-----------------------------------------------------------------------------
(* Host calls as the state store sees them: an Init event makes the device *)
(* active, an Active event of an unknown device is ignored.                *)
Announced(u) == [store EXCEPT ![u] = "active"]
SetActive(u, s) == IF store[u] = "absent" THEN store ELSE [store EXCEPT ![u] = s]

(* The second half of onEvent, after the unlock.                           *)
HostCall(c) ==
    /\ call[c] # Idle
    /\ LET u == call[c].uid IN
       store' = IF call[c].op = "announce" THEN Announced(u) ELSE SetActive(u, call[c].op)
    /\ muddled' = IF call[c].uid \notin subs THEN muddled \cup {call[c].uid} ELSE muddled
    /\ call' = [call EXCEPT ![c] = Idle]
    /\ UNCHANGED <<conn, maps, mapped, admin, cmd, opens, silent>>

(* Deliberate bug: a removed device is dropped from the map and not        *)
(* reported.                                                               *)
OnEventForgetsOffline(c, u, op) ==
    /\ devices' = CASE op = "announce" -> devices \cup {u}
                    [] op = "remove"   -> devices \ {u}
                    [] OTHER           -> devices
    /\ call' = IF u \in subs /\ op # "remove" THEN [call EXCEPT ![c] = [op |-> op, uid |-> u]]
               ELSE call
    /\ UNCHANGED subs

(* The first half of onEvent: the maps change, and a subscribed device     *)
(* leaves a call to make.                                                  *)
OnEvent(c, u, op) ==
    /\ devices' = CASE op = "announce" -> devices \cup {u}
                    [] op = "remove"   -> devices \ {u}
                    [] OTHER           -> devices
    /\ call' = IF u \in subs
               THEN [call EXCEPT ![c] = [op |-> IF op = "remove" THEN "inactive" ELSE op,
                                         uid |-> u]]
               ELSE call
    /\ UNCHANGED subs

-----------------------------------------------------------------------------
Accept(c) ==
    /\ link[c] = "none" /\ opens < MaxOpens
    /\ link' = [link EXCEPT ![c] = "up"]
    /\ opens' = opens + 1
    /\ UNCHANGED <<mode, reg, gone, call, maps, mapped, store, admin, cmd, history>>

(* An older registration of the device, or its end, is not over.           *)
Unfinished(u) ==
    \E c \in Conns : u \in Registered(c) \cup gone[c] \/ (call[c] # Idle /\ call[c].uid = u)

(* Objects are read as JSON until the simple protocol is chosen, and then  *)
(* to the end of the array in which it was.                                *)
ReadsJSON(c) == mode[c] \in {"json", "array"}

(* An init message.  It is refused when the tag is in use or missing, and  *)
(* the first device may choose the simple protocol for the connection.     *)
InitDevice(c, t, u, simple) ==
    /\ Ready(c) /\ ReadsJSON(c)
    /\ Used(c) # {} => t # NoTag
    /\ t \notin Used(c)
    /\ simple => Cardinality({d \in Conns : mode[d] # "json"}) < MaxSimple
    /\ reg' = [reg EXCEPT ![c][t] = u]
    /\ mode' = [mode EXCEPT ![c] = IF simple /\ Used(c) = {} THEN "array" ELSE @]
    /\ OnEvent(c, u, "announce")
    /\ silent' = silent \ {u}
    /\ muddled' = IF Unfinished(u) THEN muddled \cup {u} ELSE muddled
    /\ cmd' = IF cmd # Idle /\ cmd.uid = u /\ \E d \in Conns : u \in Registered(d)
              THEN [cmd EXCEPT !.steady = FALSE] ELSE cmd
    /\ UNCHANGED <<link, gone, mapped, store, admin, opens>>

(* The next line is a simple message.                                      *)
EndArray(c) ==
    /\ Ready(c) /\ mode[c] = "array"
    /\ mode' = [mode EXCEPT ![c] = "simple"]
    /\ UNCHANGED <<link, reg, gone, call, maps, mapped, store, admin, cmd, opens, history>>

(* A device's own active or inactive report, in either protocol; every     *)
(* other report finds its device and its subscription the same way.        *)
Report(c, t, s) ==
    /\ Ready(c)
    /\ \E k \in ResolveTag(c, t) :
        /\ OnEvent(c, reg[c][k], s)
        /\ silent' = IF s = "active" THEN silent \ {reg[c][k]}
                     ELSE silent \cup ({reg[c][k]} \cap Bridgeable)
    /\ UNCHANGED <<conn, mapped, store, admin, cmd, opens, muddled>>

ReportJSON(c, t, s) == ReadsJSON(c) /\ Report(c, t, s)
ReportSimple(c, t, s) == mode[c] = "simple" /\ Report(c, t, s)

Shaken(u) ==
    IF cmd # Idle /\ cmd.uid = u THEN [cmd EXCEPT !.steady = FALSE] ELSE cmd

(* bye of a JSON device.                                                   *)
ByeJSON(c, t) ==
    /\ Ready(c) /\ ReadsJSON(c)
    /\ \E k \in ResolveTag(c, t) :
        /\ reg' = [reg EXCEPT ![c][k] = NoUid]
        /\ OnEvent(c, reg[c][k], "remove")
        /\ cmd' = Shaken(reg[c][k])
    /\ UNCHANGED <<link, mode, gone, mapped, store, admin, opens, history>>

(* BYE of a simple device: it leaves the registry and no event is emitted. *)
ByeSimple(c, t) ==
    /\ Ready(c) /\ mode[c] = "simple"
    /\ \E k \in ResolveTag(c, t) :
        /\ reg' = [reg EXCEPT ![c][k] = NoUid]
        /\ muddled' = muddled \cup {reg[c][k]}
        /\ cmd' = Shaken(reg[c][k])
    /\ UNCHANGED <<link, mode, gone, call, maps, mapped, store, admin, opens, silent>>

(* Deliberate bug: devices that sent no bye are not reported when the      *)
(* connection ends.                                                        *)
CloseSilently(c) ==
    /\ Ready(c) /\ mode[c] # "array"
    /\ link' = [link EXCEPT ![c] = "closing"]
    /\ mode' = [mode EXCEPT ![c] = "json"]
    /\ cmd' = IF cmd # Idle THEN [cmd EXCEPT !.steady = FALSE] ELSE cmd
    /\ UNCHANGED <<reg, gone, call, maps, mapped, store, admin, opens, history>>

(* The connection ends: its devices are reported removed one by one and    *)
(* then the server forgets the connector, whose protocol no longer counts. *)
Close(c) ==
    /\ Ready(c) /\ mode[c] # "array"
    /\ link' = [link EXCEPT ![c] = "closing"]
    /\ mode' = [mode EXCEPT ![c] = "json"]
    /\ gone' = [gone EXCEPT ![c] = Registered(c)]
    /\ cmd' = IF cmd # Idle /\ cmd.uid \in Registered(c) THEN [cmd EXCEPT !.steady = FALSE]
              ELSE cmd
    /\ UNCHANGED <<reg, call, maps, mapped, store, admin, opens, history>>

Vanish(c, u) ==
    /\ link[c] = "closing" /\ call[c] = Idle
    /\ u \in gone[c]
    /\ gone' = [gone EXCEPT ![c] = @ \ {u}]
    /\ OnEvent(c, u, "remove")
    /\ UNCHANGED <<link, mode, reg, mapped, store, admin, cmd, opens, history>>

Forget(c) ==
    /\ link[c] = "closing" /\ call[c] = Idle /\ gone[c] = {}
    /\ link' = [link EXCEPT ![c] = "none"]
    /\ reg' = [reg EXCEPT ![c] = NoDevices]
    /\ UNCHANGED <<mode, gone, call, maps, mapped, store, admin, cmd, opens, history>>

-----------------------------------------------------------------------------
(* Registry.CreateBridge: mapping, announcement, subscription.             *)
CreateBridge(u) ==
    /\ admin = Idle /\ u \notin mapped
    /\ admin' = [op |-> "announceNew", uid |-> u]
    /\ mapped' = mapped \cup {u}
    /\ UNCHANGED <<conn, call, maps, store, cmd, opens, history>>

AnnounceNew ==
    /\ admin.op = "announceNew"
    /\ store' = Announced(admin.uid)
    /\ admin' = [admin EXCEPT !.op = "subscribe"]
    /\ UNCHANGED <<conn, call, maps, mapped, cmd, opens, history>>

(* Plugin.Subscribe under its lock; the device is announced again after    *)
(* the unlock if it was connected.                                         *)
Subscribe ==
    /\ admin.op = "subscribe"
    /\ subs' = subs \cup {admin.uid}
    /\ admin' = IF admin.uid \in devices THEN [admin EXCEPT !.op = "announce"] ELSE Idle
    /\ muddled' = IF admin.uid \in devices THEN muddled ELSE muddled \cup {admin.uid}
    /\ UNCHANGED <<conn, call, devices, mapped, store, cmd, opens, silent>>

SubscribeAnnounce ==
    /\ admin.op = "announce"
    /\ store' = Announced(admin.uid)
    /\ muddled' = IF Connected(admin.uid) /\ admin.uid \notin silent THEN muddled
                  ELSE muddled \cup {admin.uid}
    /\ admin' = Idle
    /\ UNCHANGED <<conn, call, maps, mapped, cmd, opens, silent>>

(* Registry.RemoveBridge: unsubscribe, remove the device, then the mapping. *)
RemoveBridge(u) ==
    /\ admin = Idle /\ u \in mapped
    /\ subs' = subs \ {u}
    /\ admin' = [op |-> "removeDevice", uid |-> u]
    /\ UNCHANGED <<conn, call, devices, mapped, store, cmd, opens, history>>

RemoveDevice ==
    /\ admin.op = "removeDevice"
    /\ store' = [store EXCEPT ![admin.uid] = "absent"]
    /\ admin' = [admin EXCEPT !.op = "removeMapping"]
    /\ UNCHANGED <<conn, call, maps, mapped, cmd, opens, history>>

RemoveMapping ==
    /\ admin.op = "removeMapping"
    /\ mapped' = mapped \ {admin.uid}
    /\ admin' = Idle
    /\ UNCHANGED <<conn, call, maps, store, cmd, opens, history>>

-----------------------------------------------------------------------------
(* Commander.lookupBridge: a command is for a mapped device.               *)
lookupBridge(u) == u \in mapped

Connectors == {c \in Conns : link[c] # "none"}

(* A command that no connector is left to try for has failed.              *)
Search(left) == IF left = {} THEN "notConnected" ELSE "sending"

(* Server.SetChannelValue copies the connectors and tries one after the    *)
(* other; steady remembers whether one connection carried the device all   *)
(* the time.                                                               *)
SetChannelValue(u) ==
    /\ cmd = Idle /\ lookupBridge(u)
    /\ cmd' = [op |-> Search(Connectors), uid |-> u, left |-> Connectors,
               steady |-> Cardinality({c \in Conns : u \in Registered(c)}) = 1 /\ Connected(u)]
    /\ UNCHANGED <<conn, call, maps, mapped, store, admin, opens, history>>

(* Deliberate bug: the first connector that does not carry the device ends *)
(* the search.                                                             *)
SendToFirst(c) ==
    /\ cmd.op = "sending" /\ c \in cmd.left
    /\ cmd' = IF cmd.uid \in Registered(c) THEN Idle
              ELSE [cmd EXCEPT !.op = "notConnected", !.left = {}]
    /\ UNCHANGED <<conn, call, maps, mapped, store, admin, opens, history>>

(* Connector.SendChannelValue: a connection whose peer is gone may still   *)
(* take the line or fail it, and a failure ends the search.                *)
SendChannelValue(c) ==
    /\ cmd.op = "sending" /\ c \in cmd.left
    /\ \/ /\ cmd.uid \notin Registered(c)
          /\ cmd' = [cmd EXCEPT !.op = Search(cmd.left \ {c}), !.left = @ \ {c}]
       \/ /\ cmd.uid \in Registered(c)
          /\ cmd' = Idle
       \/ /\ cmd.uid \in Registered(c) /\ link[c] # "up"
          /\ cmd' = [cmd EXCEPT !.op = "failed", !.left = {}]
    /\ UNCHANGED <<conn, call, maps, mapped, store, admin, opens, history>>

CommandDone ==
    /\ cmd.op \in {"failed", "notConnected"}
    /\ cmd' = Idle
    /\ UNCHANGED <<conn, call, maps, mapped, store, admin, opens, history>>

Next ==
    \/ \E c \in Conns :
        \/ Accept(c) \/ EndArray(c) \/ Close(c) \/ Forget(c)
        \/ HostCall(c) \/ SendChannelValue(c)
        \/ \E u \in Uids : Vanish(c, u)
        \/ \E t \in Tags : ByeJSON(c, t) \/ ByeSimple(c, t)
        \/ \E t \in Tags, s \in {"active", "inactive"} : ReportJSON(c, t, s) \/ ReportSimple(c, t, s)
        \/ \E t \in Tags, u \in Uids, simple \in BOOLEAN : InitDevice(c, t, u, simple)
    \/ \E u \in Bridgeable : CreateBridge(u) \/ RemoveBridge(u) \/ SetChannelValue(u)
    \/ AnnounceNew \/ Subscribe \/ SubscribeAnnounce \/ RemoveDevice \/ RemoveMapping
    \/ CommandDone

Spec == Init /\ [][Next]_vars

-----------------------------------------------------------------------------
Quiet(u) ==
    /\ \A c \in Conns : (call[c] # Idle => call[c].uid # u) /\ u \notin gone[c]
    /\ admin # Idle => admin.uid # u

(* Plugin.devices, which Discover offers for bridging as still connected,  *)
(* is exactly the devices that some connection carries or has yet to       *)
(* report removed: an init, a bye and a close in any order of several      *)
(* connections leave no device behind and drop none.  Excepted are devices *)
(* that came back before the last of an older registration was done, or    *)
(* that left with a simple BYE.                                            *)
ListedIsConnected ==
    TypeOK /\ \A u \in Uids \ muddled :
        u \in devices <=> \E c \in Conns : \/ link[c] = "up" /\ u \in Registered(c)
                                           \/ u \in gone[c]

(* Once the calls under way are made, a bridged device is active in the    *)
(* state store as it reported itself while it is connected, and inactive   *)
(* when it is not, however bridging raced its connection.  Excepted are    *)
(* devices the plugin is muddled about: back before an older registration  *)
(* was done, left with a simple BYE, gone or inactive when Subscribe       *)
(* announced them, or unbridged during a host call.                        *)
ActiveIsConnected ==
    \A u \in Uids \ muddled :
        u \in subs /\ Quiet(u) =>
            store[u] = IF Connected(u) /\ u \notin silent THEN "active" ELSE "inactive"

(* A command does not end with "not connected" when one connection carried *)
(* the device from before the command to its end, whatever other           *)
(* connections came and went over the list the server copied.              *)
SteadyIsReached ==
    cmd # Idle /\ cmd.op \in {"failed", "notConnected"} => ~cmd.steady

(* docs/external-device-api.md:286: after bye or BYE "The device goes      *)
(* offline in digitalSTROM.  Closing the TCP socket has the same effect."  *)
(* A device that leaves a connection which stays up is no longer listed as *)
(* connected, and the bridge of a subscribed one is being told so.  The    *)
(* simple protocol's BYE only takes it out of the connection's registry    *)
(* and emits no event, so this fails.                                      *)
ByeTakesOffline ==
    [][\A c \in Conns, u \in Uids :
        link[c] = "up" /\ link'[c] = "up" /\ u \in Registered(c) /\ u \notin Registered(c)' =>
            /\ u \notin devices'
            /\ u \in subs => call'[c] = [op |-> "inactive", uid |-> u]]_vars

=============================================================================
