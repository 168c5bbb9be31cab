------------------------- MODULE ExternalDeviceProofs -------------------------
(***************************************************************************)
(* What is proved of the external device API for any number of             *)
(* connections, devices and tags: that the plugin lists the devices that   *)
(* are connected, that the state store has them active or inactive as they *)
(* reported, and that a command reaches a device that stays connected.     *)
(*                                                                         *)
(* And of the buttons of the end devices: that a hold that the host was    *)
(* told to begin is told to end, for any number of events and goroutines,  *)
(* and that the connector tells clicks, chains of clicks and holds as the  *)
(* times of the presses say, for any presses and pauses within its window. *)
(*                                                                         *)
(* And of the lamps behind the five plugins: that with no message in       *)
(* flight the host shows what the lamp is, and what was commanded, for     *)
(* every level, hue and saturation.                                        *)
(***************************************************************************)
EXTENDS ExternalDevice, EndDevices, FiniteSetTheorems, SequenceTheorems, TLAPS

Carries(c, u) == \E t \in Tags : reg[c][t] = u
Calling(c, u) == call[c] # Idle /\ call[c].uid = u
Wanted(u) == Connected(u) /\ u \notin silent

(* A connection that ended is blank, one that ends has what it carried yet *)
(* to report and reports each device once.                                 *)
Ends ==
    \A c \in Conns :
        /\ link[c] = "none" => reg[c] = NoDevices
        /\ link[c] # "closing" => gone[c] = {}
        /\ \A u \in gone[c] : Carries(c, u) /\ ~Calling(c, u)

(* The administrator deals with one bridged device at a time, and a device *)
(* with a subscription is in the state store.                              *)
Bridging ==
    /\ subs \subseteq Bridgeable
    /\ admin # Idle => admin.uid \in Bridgeable
    /\ \A u \in subs : store[u] # "absent"
    /\ admin.op \in {"removeDevice", "removeMapping"} => admin.uid \notin subs
    /\ admin.op = "subscribe" => store[admin.uid] # "absent"

(* A device that the plugin is not muddled about is in one place: under    *)
(* one tag of one connection, which is the only one to call the host for   *)
(* it.                                                                     *)
OnePlace ==
    \A u \in Uids \ muddled :
        /\ \A c, d \in Conns : Carries(c, u) /\ Carries(d, u) => c = d
        /\ \A c \in Conns, s, t \in Tags : reg[c][s] = u /\ reg[c][t] = u => s = t
        /\ \A c, d \in Conns : Calling(c, u) /\ (Calling(d, u) \/ Carries(d, u)) => c = d

(* The plugin's list, in terms of the registries.                          *)
Listed ==
    \A u \in Uids \ muddled :
        u \in devices <=> \E c \in Conns : \/ link[c] = "up" /\ Carries(c, u)
                                           \/ u \in gone[c]

(* A call under way brings what the device now wants, and without one the  *)
(* state store has it.                                                     *)
Pending ==
    \A u \in Uids \ muddled : \A c \in Conns :
        Calling(c, u) => (call[c].op \in {"announce", "active"} <=> Wanted(u))
Settled ==
    \A u \in subs \ muddled :
        Quiet(u) => store[u] = IF Wanted(u) THEN "active" ELSE "inactive"

(* The one connection that carries the device of a steady command has yet  *)
(* to be tried.                                                            *)
Steady ==
    \A u \in Uids : cmd # Idle /\ cmd.uid = u /\ cmd.steady =>
        /\ cmd.op = "sending"
        /\ \E c \in cmd.left : /\ link[c] = "up" /\ Carries(c, u)
                               /\ \A d \in Conns : Carries(d, u) => d = c

IInv == TypeOK /\ Ends /\ Bridging /\ OnePlace /\ Listed /\ Pending /\ Settled /\ Steady

-----------------------------------------------------------------------------
(* A connection carries what it has registered.                            *)
LEMMA RegisteredIs ==
    ASSUME TypeOK
    PROVE  /\ \A c \in Conns, u \in Uids : u \in Registered(c) <=> Carries(c, u)
           /\ \A c \in Conns : Registered(c) \subseteq Uids
           /\ \A u \in Uids : Connected(u) <=> \E c \in Conns : link[c] = "up" /\ Carries(c, u)
           /\ \A u : Quiet(u) <=> /\ \A c \in Conns : ~Calling(c, u) /\ u \notin gone[c]
                                  /\ admin # Idle => admin.uid # u
<1>1. \A c \in Conns, u \in Uids : u \in Registered(c) <=> Carries(c, u)
  BY ExternalDeviceAssumption DEF TypeOK, Registered, Range, Carries
<1>2. \A c \in Conns : Registered(c) \subseteq Uids
  BY DEF TypeOK, Registered, Range
<1>3. QED
  BY <1>1, <1>2 DEF Connected, Quiet, Calling

(* The same of the next state.                                             *)
LEMMA RegisteredNext ==
    ASSUME TypeOK'
    PROVE  /\ \A c \in Conns, u \in Uids : (u \in Registered(c))' <=> Carries(c, u)'
           /\ \A u \in Uids : Connected(u)' <=> \E c \in Conns : link'[c] = "up" /\ Carries(c, u)'
           /\ \A u : Quiet(u)' <=> /\ \A c \in Conns : ~Calling(c, u)' /\ u \notin gone'[c]
                                   /\ admin' # Idle => admin'.uid # u
<1>1. \A c \in Conns, u \in Uids : (u \in Registered(c))' <=> Carries(c, u)'
  BY ExternalDeviceAssumption DEF TypeOK, Registered, Range, Carries
<1>2. QED
  BY <1>1 DEF Connected, Quiet, Calling

(* Connections and devices stay what they are in type: what an idle call   *)
(* and the values of the plugin's constants are.                           *)
LEMMA Distinct ==
    /\ Idle.op = "idle" /\ Idle \notin HostCalls /\ Idle \notin AdminSteps /\ Idle \notin Commands
    /\ NoUid \notin Uids /\ NoDevices \in [Tags -> Uids \cup {NoUid}]
    /\ \A t \in Tags : NoDevices[t] = NoUid
BY ExternalDeviceAssumption DEF Idle, HostCalls, AdminSteps, Commands, NoDevices

(* A tag is resolved to one that is in use.                                *)
LEMMA ResolvedIsUsed ==
    \A c \in Conns, t \in Tags : TypeOK =>
        \A k \in ResolveTag(c, t) : k \in Tags /\ reg[c][k] \in Uids
BY DEF ResolveTag, Used, TypeOK

(* The first half of onEvent on an idle connection: who calls the host     *)
(* afterwards and for which device.                                        *)
LEMMA EventCalls ==
    ASSUME TypeOK, NEW c \in Conns, NEW u \in Uids, call[c] = Idle,
           NEW op \in {"announce", "active", "inactive", "remove"}, OnEvent(c, u, op)
    PROVE  /\ call' \in [Conns -> HostCalls \cup {Idle}]
           /\ devices' \subseteq Uids /\ subs' = subs
           /\ \A d \in Conns \ {c} : call'[d] = call[d]
           /\ \A d \in Conns \ {c} : \A v : Calling(d, v)' <=> Calling(d, v)
           /\ \A v : Calling(c, v)' <=> v = u /\ u \in subs
           /\ \A v : ~Calling(c, v)
           /\ u \in subs => call'[c].op = IF op = "remove" THEN "inactive" ELSE op
<1> DEFINE new == [op |-> IF op = "remove" THEN "inactive" ELSE op, uid |-> u]
<1>1. new \in HostCalls /\ new # Idle /\ new.uid = u
      /\ new.op = IF op = "remove" THEN "inactive" ELSE op
  BY DEF HostCalls, Idle
<1>2. call' = IF u \in subs THEN [call EXCEPT ![c] = new] ELSE call
  BY DEF OnEvent
<1> HIDE DEF new
<1>3. /\ call' \in [Conns -> HostCalls \cup {Idle}]
      /\ \A d \in Conns \ {c} : call'[d] = call[d]
      /\ call'[c] = IF u \in subs THEN new ELSE Idle
  BY <1>1, <1>2 DEF TypeOK
<1>4. devices' \subseteq Uids /\ subs' = subs
  BY DEF TypeOK, OnEvent
<1>5. QED
  BY <1>1, <1>3, <1>4 DEF Calling

(* A step that changes only the command keeps everything but Steady.       *)
LEMMA CommandApart ==
    ASSUME IInv, UNCHANGED <<conn, call, maps, mapped, store, admin, opens, history>>,
           cmd' \in Commands \cup {Idle}, Steady'
    PROVE  IInv'
<1>1. UNCHANGED <<link, mode, reg, gone, call, devices, subs, mapped, store, admin, opens,
                  silent, muddled>>
  BY DEF conn, maps, history
<1>2. TypeOK'
  BY <1>1 DEF IInv, TypeOK
<1>3. (Ends /\ Bridging /\ OnePlace)'
  BY <1>1 DEF IInv, Ends, Bridging, OnePlace, Carries, Calling
<1>4. (Listed /\ Pending /\ Settled)'
  BY <1>1 DEF IInv, Listed, Pending, Settled, Carries, Calling, Wanted, Connected, Registered, Quiet
<1>5. QED
  BY <1>2, <1>3, <1>4 DEF IInv

(* A step that leaves connections, calls, commands and the plugin's list   *)
(* alone keeps what is said of them.                                       *)
LEMMA AdminApart ==
    ASSUME IInv, UNCHANGED <<conn, call, devices, cmd, opens, silent>>,
           muddled \subseteq muddled', TypeOK', Bridging', Settled'
    PROVE  IInv'
<1>1. UNCHANGED <<link, mode, reg, gone, call, devices, cmd, opens, silent>>
  BY DEF conn
<1>2. Ends'
  BY <1>1 DEF IInv, Ends, Carries, Calling
<1>3. OnePlace'
  BY <1>1 DEF IInv, OnePlace, Carries, Calling
<1>4. Listed'
  BY <1>1 DEF IInv, Listed, Carries
<1>5. Pending'
  BY <1>1 DEF IInv, Pending, Calling, Wanted, Connected, Registered
<1>6. Steady'
  BY <1>1 DEF IInv, Steady, Carries
<1>7. QED
  BY <1>2, <1>3, <1>4, <1>5, <1>6 DEF IInv

(* The initial states satisfy the invariant.                               *)
LEMMA InvInit == Init => IInv
<1> SUFFICES ASSUME Init PROVE IInv
  OBVIOUS
<1>1. TypeOK
  BY Distinct, ExternalDeviceAssumption DEF Init, TypeOK
<1>2. \A c \in Conns : \A u \in Uids : ~Carries(c, u) /\ ~Calling(c, u)
  BY Distinct DEF Init, Carries, Calling
<1>3. Ends /\ Bridging
  BY Distinct DEF Init, Ends, Bridging
<1>4. OnePlace
  BY <1>2 DEF OnePlace, Carries
<1>5. Listed /\ Pending /\ Settled /\ Steady
  BY <1>2 DEF Init, Listed, Pending, Settled, Steady
<1>6. QED
  BY <1>1, <1>3, <1>4, <1>5 DEF IInv


(* The end of a JSON array changes the protocol and nothing else.          *)
LEMMA EndArrayKeeps ==
    ASSUME IInv, NEW c \in Conns, EndArray(c)
    PROVE  IInv'
<1>1. /\ mode' = [mode EXCEPT ![c] = "simple"]
      /\ UNCHANGED <<link, reg, gone, call, devices, subs, mapped, store, admin, cmd, opens,
                     silent, muddled>>
  BY DEF EndArray, maps, history
<1>2. TypeOK'
  BY <1>1 DEF IInv, TypeOK
<1>3. (Ends /\ Bridging /\ OnePlace)'
  BY <1>1 DEF IInv, Ends, Bridging, OnePlace, Carries, Calling
<1>4. (Listed /\ Pending /\ Settled)'
  BY <1>1 DEF IInv, Listed, Pending, Settled, Carries, Calling, Wanted, Connected, Registered, Quiet
<1>5. Steady'
  BY <1>1 DEF IInv, Steady, Carries
<1>6. QED
  BY <1>2, <1>3, <1>4, <1>5 DEF IInv

(* A connection is accepted: it is blank.                                  *)
LEMMA AcceptKeeps ==
    ASSUME IInv, NEW c \in Conns, Accept(c)
    PROVE  IInv'
<1>1. /\ link[c] = "none" /\ opens < MaxOpens
      /\ link' = [link EXCEPT ![c] = "up"] /\ opens' = opens + 1
      /\ UNCHANGED <<mode, reg, gone, call, devices, subs, mapped, store, admin, cmd,
                      silent, muddled>>
  BY DEF Accept, maps, history
<1>2. /\ \A d \in Conns, v \in Uids : Carries(d, v)' <=> Carries(d, v)
      /\ \A d \in Conns : \A v : Calling(d, v)' <=> Calling(d, v)
  BY <1>1 DEF Carries, Calling
<1>3. /\ \A v \in Uids : ~Carries(c, v)
      /\ \A d \in Conns : d # c => link'[d] = link[d]
      /\ link'[c] = "up"
  BY <1>1, Distinct DEF IInv, TypeOK, Ends, Carries
<1>4. \A v \in Uids : Connected(v)' <=> Connected(v)
  BY <1>1, <1>3, RegisteredIs DEF IInv, Connected, Registered
<1>5. TypeOK'
  BY <1>1, ExternalDeviceAssumption DEF IInv, TypeOK
<1>6. Ends'
  BY <1>1, <1>2 DEF IInv, TypeOK, Ends
<1>7. Bridging'
  BY <1>1 DEF IInv, Bridging
<1>8. OnePlace'
  BY <1>1, <1>2 DEF IInv, OnePlace
<1>9. Listed'
  BY <1>1, <1>2, <1>3 DEF IInv, Listed
<1>10. Pending'
  BY <1>1, <1>2, <1>4 DEF IInv, Pending, Wanted
<1>11. Settled'
  <2>1. \A v \in subs' \ muddled' : Quiet(v)' =>
           v \in subs \ muddled /\ Quiet(v) /\ store'[v] = store[v]
    BY <1>1, <1>2, <1>5, RegisteredIs, RegisteredNext DEF IInv
  <2>2. \A v \in subs' \ muddled' : Quiet(v)' => (Wanted(v)' <=> Wanted(v))
    BY <1>1, <1>4, <1>5 DEF TypeOK, Wanted
  <2>3. QED
    BY <2>1, <2>2 DEF IInv, Settled
<1>12. Steady'
  BY <1>1, <1>2 DEF IInv, TypeOK, Commands, Steady
<1>13. QED
  BY <1>5, <1>6, <1>7, <1>8, <1>9, <1>10, <1>11, <1>12 DEF IInv

(* A connection ends with what it carries yet to be reported removed.      *)
LEMMA CloseKeeps ==
    ASSUME IInv, NEW c \in Conns, Close(c)
    PROVE  IInv'
<1>1. /\ link[c] = "up" /\ call[c] = Idle
      /\ link' = [link EXCEPT ![c] = "closing"] /\ gone' = [gone EXCEPT ![c] = Registered(c)]
      /\ cmd' = IF cmd # Idle /\ cmd.uid \in Registered(c)
                 THEN [cmd EXCEPT !.steady = FALSE] ELSE cmd
      /\ mode' = [mode EXCEPT ![c] = "json"]
      /\ UNCHANGED <<reg, call, devices, subs, mapped, store, admin, opens, silent, muddled>>
  BY DEF Close, Ready, maps, history
<1>2. /\ \A d \in Conns, v \in Uids : Carries(d, v)' <=> Carries(d, v)
      /\ \A d \in Conns : \A v : Calling(d, v)' <=> Calling(d, v)
      /\ \A v : ~Calling(c, v)
  BY <1>1 DEF Carries, Calling
<1>3. /\ \A d \in Conns : d # c => link'[d] = link[d] /\ gone'[d] = gone[d]
      /\ link'[c] = "closing" /\ gone'[c] = Registered(c) /\ gone[c] = {}
      /\ gone'[c] \subseteq Uids
      /\ \A v \in Uids : v \in gone'[c] <=> Carries(c, v)
  BY <1>1, RegisteredIs DEF IInv, TypeOK, Ends
<1>4. /\ cmd' \in Commands \cup {Idle}
      /\ cmd' # Idle /\ cmd'.steady => cmd' = cmd /\ cmd.uid \notin Registered(c)
  BY <1>1, Distinct DEF IInv, TypeOK, Commands
<1>5. TypeOK'
  BY <1>1, <1>3, <1>4 DEF IInv, TypeOK
<1>6. Ends'
  BY <1>1, <1>2, <1>3 DEF IInv, TypeOK, Ends
<1>7. Bridging'
  BY <1>1 DEF IInv, Bridging
<1>8. OnePlace'
  BY <1>1, <1>2 DEF IInv, OnePlace
<1>9. Listed'
  BY <1>1, <1>2, <1>3, <1>4, <1>5, RegisteredIs, RegisteredNext, Distinct
     DEF IInv, TypeOK, Ends, Listed, OnePlace
<1>10. Pending'
  BY <1>1, <1>2, <1>5, RegisteredIs, RegisteredNext DEF IInv, OnePlace, Pending, Wanted
<1>11. Settled'
  <2>1. \A v \in subs' \ muddled' : Quiet(v)' =>
           v \in subs \ muddled /\ Quiet(v) /\ store'[v] = store[v]
    BY <1>1, <1>2, <1>3, <1>5, RegisteredIs, RegisteredNext DEF IInv
  <2>2. \A v \in subs' \ muddled' : Quiet(v)' => (Wanted(v)' <=> Wanted(v))
    BY <1>1, <1>2, <1>4, RegisteredIs, RegisteredNext DEF IInv, TypeOK, Wanted
  <2>3. QED
    BY <2>1, <2>2 DEF IInv, Settled
<1>12. Steady'
  BY <1>2, <1>3, <1>4 DEF IInv, Commands, Steady
<1>13. QED
  BY <1>5, <1>6, <1>7, <1>8, <1>9, <1>10, <1>11, <1>12 DEF IInv

(* The server forgets a connection.                                        *)
LEMMA ForgetKeeps ==
    ASSUME IInv, NEW c \in Conns, Forget(c)
    PROVE  IInv'
<1>1. /\ link[c] = "closing" /\ call[c] = Idle /\ gone[c] = {}
      /\ link' = [link EXCEPT ![c] = "none"]
      /\ reg' = [reg EXCEPT ![c] = NoDevices]
      /\ UNCHANGED <<mode, gone, call, devices, subs, mapped, store, admin, cmd, opens, silent, muddled>>
  BY DEF Forget, maps, history
<1>2. /\ \A d \in Conns : d # c => link'[d] = link[d] /\ reg'[d] = reg[d]
      /\ link'[c] = "none" /\ reg'[c] = NoDevices
  BY <1>1 DEF IInv, TypeOK
<1>3. /\ \A d \in Conns, v \in Uids : Carries(d, v)' <=> d # c /\ Carries(d, v)
      /\ \A d \in Conns : \A v : Calling(d, v)' <=> Calling(d, v)
  BY <1>1, <1>2, Distinct DEF Carries, Calling
<1>4. \A v \in Uids : Connected(v)' <=> Connected(v)
  <2>1. (\A d \in Conns, v \in Uids : (v \in Registered(d))' <=> d # c /\ v \in Registered(d))
    BY <1>2, Distinct DEF Registered, Range, NoDevices
  <2>2. QED
    BY <1>1, <1>2, <2>1 DEF Connected
<1>5. TypeOK'
  BY <1>1, Distinct DEF IInv, TypeOK
<1>6. Ends'
  BY <1>1, <1>3 DEF IInv, TypeOK, Ends
<1>7. Bridging'
  BY <1>1 DEF IInv, Bridging
<1>8. OnePlace'
  BY <1>1, <1>3, Distinct DEF IInv, OnePlace
<1>9. Listed'
  BY <1>1, <1>3 DEF IInv, Listed
<1>10. Pending'
  BY <1>1, <1>3, <1>4 DEF IInv, Pending, Wanted
<1>11. Settled'
  <2>1. \A v \in subs' \ muddled' : Quiet(v)' =>
           v \in subs \ muddled /\ Quiet(v) /\ store'[v] = store[v]
    BY <1>1, <1>3, <1>5, RegisteredIs, RegisteredNext DEF IInv
  <2>2. \A v \in subs' \ muddled' : Quiet(v)' => (Wanted(v)' <=> Wanted(v))
    BY <1>1, <1>4, <1>5 DEF TypeOK, Wanted
  <2>3. QED
    BY <2>1, <2>2 DEF IInv, Settled
<1>12. Steady'
  BY <1>1, <1>3, <1>4, <1>5 DEF IInv, TypeOK, Commands, Steady
<1>13. QED
  BY <1>5, <1>6, <1>7, <1>8, <1>9, <1>10, <1>11, <1>12 DEF IInv

(* A device of an ended connection is reported removed.                    *)
LEMMA VanishKeeps ==
    ASSUME IInv, NEW c \in Conns, NEW u \in Uids, Vanish(c, u)
    PROVE  IInv'
<1>1. /\ link[c] = "closing" /\ call[c] = Idle /\ u \in gone[c]
      /\ gone' = [gone EXCEPT ![c] = @ \ {u}] /\ devices' = devices \ {u}
      /\ UNCHANGED <<link, mode, reg, mapped, store, admin, cmd, opens, silent, muddled>>
  BY DEF Vanish, OnEvent, history
<1>2. /\ call' \in [Conns -> HostCalls \cup {Idle}]
      /\ \A d \in Conns \ {c} : call'[d] = call[d]
      /\ \A d \in Conns \ {c} : \A v : Calling(d, v)' <=> Calling(d, v)
      /\ \A v : Calling(c, v)' <=> v = u /\ u \in subs
      /\ \A v : ~Calling(c, v)
      /\ u \in subs => call'[c].op = "inactive"
      /\ subs' = subs
  BY <1>1, EventCalls DEF IInv, Vanish
<1>3. /\ \A d \in Conns : d # c => gone'[d] = gone[d]
      /\ gone'[c] = gone[c] \ {u}
      /\ \A d \in Conns, v \in Uids : Carries(d, v)' <=> Carries(d, v)
      /\ Carries(c, u)
  BY <1>1 DEF IInv, TypeOK, Ends, Carries
<1>4. \A v \in Uids : Connected(v)' <=> Connected(v)
  BY <1>1 DEF Connected, Registered
<1>5. TypeOK'
  BY <1>1, <1>2 DEF IInv, TypeOK
<1>6. Ends'
  BY <1>1, <1>2, <1>3 DEF IInv, TypeOK, Ends
<1>7. Bridging'
  BY <1>1, <1>2 DEF IInv, Bridging
<1>8. OnePlace'
  <2>1. \A d, f \in Conns, v \in Uids \ muddled :
           Carries(d, v)' /\ Carries(f, v)' => d = f
    BY <1>3 DEF IInv, OnePlace
  <2>2. \A d \in Conns, q, t \in Tags, v \in Uids \ muddled :
           reg'[d][q] = v /\ reg'[d][t] = v => q = t
    BY <1>1 DEF IInv, OnePlace
  <2>3. \A d, f \in Conns, v \in Uids \ muddled :
           Calling(d, v)' /\ (Calling(f, v)' \/ Carries(f, v)') => d = f
    BY <1>2, <1>3 DEF IInv, OnePlace
  <2>4. muddled' = muddled
    BY <1>1
  <2>5. QED
    BY <2>1, <2>2, <2>3, <2>4 DEF OnePlace
<1>9. Listed'
  BY <1>1, <1>3 DEF IInv, Ends, Listed, OnePlace
<1>10. Pending'
  BY SMTT(30), <1>1, <1>2, <1>4, RegisteredIs DEF IInv, Ends, OnePlace, Pending, Wanted
<1>11. Settled'
  <2>1. \A v \in subs' \ muddled' : Quiet(v)' =>
           v \in subs \ muddled /\ Quiet(v) /\ store'[v] = store[v]
    BY <1>1, <1>2, <1>5, RegisteredIs, RegisteredNext DEF IInv
  <2>2. \A v \in subs' \ muddled' : Quiet(v)' => (Wanted(v)' <=> Wanted(v))
    BY <1>1, <1>4, <1>5 DEF TypeOK, Wanted
  <2>3. QED
    BY <2>1, <2>2 DEF IInv, Settled
<1>12. Steady'
  BY <1>1, <1>3 DEF IInv, TypeOK, Commands, Steady
<1>13. QED
  BY <1>5, <1>6, <1>7, <1>8, <1>9, <1>10, <1>11, <1>12 DEF IInv

(* A JSON device says bye.                                                 *)
LEMMA ByeJSONKeeps ==
    ASSUME IInv, NEW c \in Conns, NEW t \in Tags, ByeJSON(c, t)
    PROVE  IInv'
<1>1. PICK k \in ResolveTag(c, t) :
             /\ reg' = [reg EXCEPT ![c][k] = NoUid]
             /\ OnEvent(c, reg[c][k], "remove")
             /\ cmd' = Shaken(reg[c][k])
  BY DEF ByeJSON
<1>2. k \in Tags /\ reg[c][k] \in Uids
  BY ResolvedIsUsed DEF IInv
<1>3. PICK u \in Uids : u = reg[c][k]
  BY <1>2
<1>4. /\ link[c] = "up" /\ call[c] = Idle
      /\ reg' = [reg EXCEPT ![c][k] = NoUid] /\ devices' = devices \ {u} /\ cmd' = Shaken(u)
      /\ UNCHANGED <<link, mode, gone, mapped, store, admin, opens, silent, muddled>>
  BY <1>1, <1>3 DEF ByeJSON, Ready, OnEvent, history
<1>5. /\ call' \in [Conns -> HostCalls \cup {Idle}]
      /\ \A d \in Conns \ {c} : call'[d] = call[d]
      /\ \A d \in Conns \ {c} : \A v : Calling(d, v)' <=> Calling(d, v)
      /\ \A v : Calling(c, v)' <=> v = u /\ u \in subs
      /\ \A v : ~Calling(c, v)
      /\ u \in subs => call'[c].op = "inactive"
      /\ subs' = subs
  BY <1>1, <1>3, <1>4, EventCalls DEF IInv
<1>6. /\ reg' \in [Conns -> [Tags -> Uids \cup {NoUid}]]
      /\ \A d \in Conns, s \in Tags : reg'[d][s] = IF d = c /\ s = k THEN NoUid ELSE reg[d][s]
  BY <1>2, <1>4 DEF IInv, TypeOK
<1>7. /\ \A d \in Conns, v \in Uids : d # c \/ v # u => (Carries(d, v)' <=> Carries(d, v))
      /\ Carries(c, u)
      /\ u \notin muddled => \A d \in Conns : ~Carries(d, u)'
  BY <1>2, <1>3, <1>6, Distinct DEF IInv, OnePlace, Carries
<1>8. /\ cmd' \in Commands \cup {Idle}
      /\ cmd' # Idle /\ cmd'.steady => cmd' = cmd /\ cmd.uid # u /\ cmd.uid \in Uids
  BY <1>4 DEF IInv, TypeOK, Shaken, Commands
<1>9. TypeOK'
  BY <1>4, <1>5, <1>6, <1>8 DEF IInv, TypeOK
<1>10. Ends'
  BY <1>4, <1>5, <1>7 DEF IInv, TypeOK, Ends
<1>11. Bridging'
  BY <1>4, <1>5 DEF IInv, Bridging
<1>12. OnePlace'
  <2>1. \A v \in Uids \ muddled' : \A d, e \in Conns : Carries(d, v)' /\ Carries(e, v)' => d = e
    BY <1>4, <1>7 DEF IInv, OnePlace
  <2>2. \A v \in Uids \ muddled' : \A d \in Conns, i, j \in Tags :
           reg'[d][i] = v /\ reg'[d][j] = v => i = j
    BY <1>4, Distinct DEF IInv, OnePlace
  <2>3. \A v \in Uids \ muddled' : \A d, e \in Conns :
           Calling(d, v)' /\ (Calling(e, v)' \/ Carries(e, v)') => d = e
    BY <1>4, <1>5, <1>7 DEF IInv, OnePlace
  <2>4. QED
    BY <2>1, <2>2, <2>3 DEF OnePlace
<1>13. Listed'
  <2>1. \A v \in Uids \ muddled' : v # u =>
           (v \in devices' <=> \E d \in Conns : \/ link'[d] = "up" /\ Carries(d, v)'
                                                \/ v \in gone'[d])
    BY <1>4, <1>7 DEF IInv, Listed
  <2>2. u \notin muddled => \A d \in Conns : u \notin gone[d]
    BY <1>4, <1>7 DEF IInv, Ends, OnePlace
  <2>3. QED
    BY <1>4, <1>7, <2>1, <2>2 DEF Listed
<1>14. Pending'
  BY <1>1, <1>2, <1>3, <1>4, <1>5, <1>6, <1>7, <1>8, <1>9, RegisteredIs, RegisteredNext, Distinct
     DEF IInv, TypeOK, Ends, OnePlace, Pending, Wanted
<1>15. Settled'
  <2>1. \A v \in subs' \ muddled' : Quiet(v)' =>
           v \in subs \ muddled /\ Quiet(v) /\ store'[v] = store[v]
    BY <1>4, <1>5, <1>9, RegisteredIs, RegisteredNext DEF IInv
  <2>2. \A v \in subs' \ muddled' : Quiet(v)' => (Wanted(v)' <=> Wanted(v))
    BY <1>4, <1>5, <1>6, <1>7, <1>8, RegisteredIs, RegisteredNext DEF IInv, TypeOK, Wanted
  <2>3. QED
    BY <2>1, <2>2 DEF IInv, Settled
<1>16. Steady'
  BY <1>4, <1>7, <1>8 DEF IInv, Commands, Steady
<1>17. QED
  BY <1>9, <1>10, <1>11, <1>12, <1>13, <1>14, <1>15, <1>16 DEF IInv

(* A simple device says BYE.                                               *)
LEMMA ByeSimpleKeeps ==
    ASSUME IInv, NEW c \in Conns, NEW t \in Tags, ByeSimple(c, t)
    PROVE  IInv'
<1>1. PICK k \in ResolveTag(c, t) :
             /\ reg' = [reg EXCEPT ![c][k] = NoUid]
             /\ muddled' = muddled \cup {reg[c][k]}
             /\ cmd' = Shaken(reg[c][k])
  BY DEF ByeSimple
<1>2. k \in Tags /\ reg[c][k] \in Uids
  BY ResolvedIsUsed DEF IInv
<1>3. PICK u \in Uids : u = reg[c][k]
  BY <1>2
<1>4. /\ link[c] = "up" /\ call[c] = Idle
      /\ reg' = [reg EXCEPT ![c][k] = NoUid] /\ muddled' = muddled \cup {u} /\ cmd' = Shaken(u)
      /\ UNCHANGED <<link, mode, gone, call, devices, subs, mapped, store, admin, opens, silent>>
  BY <1>1, <1>3 DEF ByeSimple, Ready, maps
<1>5. /\ \A d \in Conns : \A v : Calling(d, v)' <=> Calling(d, v)
      /\ \A v : ~Calling(c, v)
  BY <1>4 DEF Calling
<1>6. /\ reg' \in [Conns -> [Tags -> Uids \cup {NoUid}]]
      /\ \A d \in Conns, s \in Tags : reg'[d][s] = IF d = c /\ s = k THEN NoUid ELSE reg[d][s]
  BY <1>2, <1>4 DEF IInv, TypeOK
<1>7. /\ \A d \in Conns, v \in Uids : d # c \/ v # u => (Carries(d, v)' <=> Carries(d, v))
      /\ Carries(c, u)
  BY <1>2, <1>3, <1>6, Distinct DEF Carries
<1>8. /\ cmd' \in Commands \cup {Idle}
      /\ cmd' # Idle /\ cmd'.steady => cmd' = cmd /\ cmd.uid # u /\ cmd.uid \in Uids
  BY <1>4 DEF IInv, TypeOK, Shaken, Commands
<1>9. TypeOK'
  BY <1>4, <1>8 DEF IInv, TypeOK
<1>10. Ends'
  BY <1>4, <1>5, <1>7 DEF IInv, TypeOK, Ends
<1>11. Bridging'
  BY <1>4 DEF IInv, Bridging
<1>12. OnePlace'
  BY <1>1, <1>5, <1>7, Distinct DEF IInv, OnePlace
<1>13. Listed'
  BY <1>4, <1>7 DEF IInv, Listed
<1>14. Pending'
  BY <1>4, <1>5, <1>7, <1>9, RegisteredIs, RegisteredNext DEF IInv, Pending, Wanted
<1>15. Settled'
  <2>1. \A v \in subs' \ muddled' : Quiet(v)' =>
           v \in subs \ muddled /\ Quiet(v) /\ store'[v] = store[v]
    BY <1>4, <1>5, <1>9, RegisteredIs, RegisteredNext DEF IInv
  <2>2. \A v \in subs' \ muddled' : Quiet(v)' => (Wanted(v)' <=> Wanted(v))
    BY <1>2, <1>4, <1>7, <1>8, RegisteredIs, RegisteredNext DEF IInv, TypeOK, Wanted
  <2>3. QED
    BY <2>1, <2>2 DEF IInv, Settled
<1>16. Steady'
  BY <1>4, <1>7, <1>8 DEF IInv, Commands, Steady
<1>17. QED
  BY <1>9, <1>10, <1>11, <1>12, <1>13, <1>14, <1>15, <1>16 DEF IInv

(* A device reports itself active or inactive.                             *)
LEMMA ReportKeeps ==
    ASSUME IInv, NEW c \in Conns, NEW t \in Tags, NEW s \in {"active", "inactive"}, Report(c, t, s)
    PROVE  IInv'
<1>1. PICK k \in ResolveTag(c, t) :
             /\ OnEvent(c, reg[c][k], s)
             /\ silent' = IF s = "active" THEN silent \ {reg[c][k]}
                           ELSE silent \cup ({reg[c][k]} \cap Bridgeable)
  BY DEF Report
<1>2. k \in Tags /\ reg[c][k] \in Uids
  BY ResolvedIsUsed DEF IInv
<1>3. PICK u \in Uids : u = reg[c][k]
  BY <1>2
<1>4. /\ link[c] = "up" /\ call[c] = Idle /\ devices' = devices
      /\ silent' = IF s = "active" THEN silent \ {u} ELSE silent \cup ({u} \cap Bridgeable)
      /\ UNCHANGED <<link, mode, reg, gone, mapped, store, admin, cmd, opens, muddled>>
  BY <1>1, <1>3 DEF Report, Ready, OnEvent, conn
<1>5. /\ call' \in [Conns -> HostCalls \cup {Idle}]
      /\ \A d \in Conns \ {c} : call'[d] = call[d]
      /\ \A d \in Conns \ {c} : \A v : Calling(d, v)' <=> Calling(d, v)
      /\ \A v : Calling(c, v)' <=> v = u /\ u \in subs
      /\ \A v : ~Calling(c, v)
      /\ u \in subs => call'[c].op = s
      /\ subs' = subs
  BY <1>1, <1>3, <1>4, EventCalls DEF IInv
<1>6. /\ \A d \in Conns, v \in Uids : Carries(d, v)' <=> Carries(d, v)
      /\ Carries(c, u)
  BY <1>2, <1>3, <1>4 DEF Carries
<1>7. /\ \A v \in Uids : Connected(v)' <=> Connected(v)
      /\ Connected(u)
  BY <1>4, <1>6, RegisteredIs DEF IInv, Connected, Registered
<1>8. TypeOK'
  BY <1>4, <1>5 DEF IInv, TypeOK
<1>9. Ends'
  BY <1>4, <1>5, <1>6 DEF IInv, TypeOK, Ends
<1>10. Bridging'
  BY <1>4, <1>5 DEF IInv, Bridging
<1>11. OnePlace'
  <2>1. \A v \in Uids \ muddled' : \A d, e \in Conns : Carries(d, v)' /\ Carries(e, v)' => d = e
    BY <1>4, <1>6 DEF IInv, OnePlace
  <2>2. \A v \in Uids \ muddled' : \A d \in Conns, i, j \in Tags :
           reg'[d][i] = v /\ reg'[d][j] = v => i = j
    BY <1>4 DEF IInv, OnePlace
  <2>3. \A v \in Uids \ muddled' : \A d, e \in Conns :
           Calling(d, v)' /\ (Calling(e, v)' \/ Carries(e, v)') => d = e
    BY <1>4, <1>5, <1>6 DEF IInv, OnePlace
  <2>4. QED
    BY <2>1, <2>2, <2>3 DEF OnePlace
<1>12. Listed'
  BY <1>4, <1>6 DEF IInv, Listed
<1>13. Pending'
  <2>1. \A v \in Uids \ muddled', d \in Conns \ {c} :
           Calling(d, v)' => Calling(d, v) /\ v # u /\ v \notin muddled /\ call'[d] = call[d]
    BY <1>4, <1>5, <1>6 DEF IInv, OnePlace
  <2>2. \A v \in Uids : v # u => (Wanted(v)' <=> Wanted(v))
    BY <1>1, <1>3, <1>7 DEF Wanted
  <2>3. u \in subs => (call'[c].op \in {"announce", "active"} <=> Wanted(u)')
    BY <1>1, <1>3, <1>5, <1>7 DEF IInv, Bridging, Wanted
  <2>4. QED
    BY <1>5, <2>1, <2>2, <2>3 DEF IInv, Pending
<1>14. Settled'
  <2>1. \A v \in subs' \ muddled' : Quiet(v)' =>
           v \in subs \ muddled /\ Quiet(v) /\ store'[v] = store[v]
    BY <1>4, <1>5, <1>8, RegisteredIs, RegisteredNext DEF IInv
  <2>2. \A v \in subs' \ muddled' : Quiet(v)' => (Wanted(v)' <=> Wanted(v))
    BY <1>1, <1>3, <1>5, <1>7, <1>8, RegisteredNext DEF TypeOK, Wanted
  <2>3. QED
    BY <2>1, <2>2 DEF IInv, Settled
<1>15. Steady'
  BY <1>4, <1>6 DEF IInv, TypeOK, Commands, Steady
<1>16. QED
  BY <1>8, <1>9, <1>10, <1>11, <1>12, <1>13, <1>14, <1>15 DEF IInv

(* A device introduces itself.                                             *)
LEMMA InitDeviceKeeps ==
    ASSUME IInv, NEW c \in Conns, NEW t \in Tags, NEW u \in Uids,
           NEW simple \in BOOLEAN, InitDevice(c, t, u, simple)
    PROVE  IInv'
<1>1. /\ link[c] = "up" /\ call[c] = Idle /\ t \notin Used(c)
      /\ reg' = [reg EXCEPT ![c][t] = u] /\ devices' = devices \cup {u}
      /\ silent' = silent \ {u}
      /\ muddled' = IF Unfinished(u) THEN muddled \cup {u} ELSE muddled
      /\ cmd' = IF cmd # Idle /\ cmd.uid = u /\ \E d \in Conns : u \in Registered(d)
               THEN [cmd EXCEPT !.steady = FALSE] ELSE cmd
      /\ mode' \in [Conns -> {"json", "array", "simple"}]
      /\ UNCHANGED <<link, gone, mapped, store, admin, opens>>
  BY DEF IInv, TypeOK, InitDevice, Ready, OnEvent
<1>2. /\ call' \in [Conns -> HostCalls \cup {Idle}]
      /\ \A d \in Conns \ {c} : call'[d] = call[d]
      /\ \A d \in Conns \ {c} : \A v : Calling(d, v)' <=> Calling(d, v)
      /\ \A v : Calling(c, v)' <=> v = u /\ u \in subs
      /\ \A v : ~Calling(c, v)
      /\ u \in subs => call'[c].op = "announce"
      /\ subs' = subs
  BY <1>1, EventCalls DEF IInv, InitDevice
<1>3. /\ reg' \in [Conns -> [Tags -> Uids \cup {NoUid}]]
      /\ reg[c][t] = NoUid
      /\ \A d \in Conns, s \in Tags : reg'[d][s] = IF d = c /\ s = t THEN u ELSE reg[d][s]
  BY <1>1 DEF IInv, TypeOK, Used
<1>4. /\ \A d \in Conns, v \in Uids : Carries(d, v)' <=> Carries(d, v) \/ (d = c /\ v = u)
      /\ \A s \in Tags : reg'[c][s] = u /\ ~Carries(c, u) => s = t
  BY <1>3, Distinct DEF Carries
<1>5. /\ muddled \subseteq muddled'
      /\ u \notin muddled' => \A d \in Conns : ~Carries(d, u) /\ ~Calling(d, u) /\ u \notin gone[d]
  BY <1>1, RegisteredIs DEF IInv, Unfinished, Calling
<1>6. /\ cmd' \in Commands \cup {Idle}
      /\ cmd' # Idle /\ cmd'.steady =>
           cmd' = cmd /\ cmd.uid \in Uids /\ (cmd.uid = u => \A d \in Conns : ~Carries(d, u))
  BY <1>1, RegisteredIs DEF IInv, TypeOK, Commands
<1>7. TypeOK'
  BY <1>1, <1>2, <1>6 DEF IInv, TypeOK
<1>8. Ends'
  BY <1>1, <1>2, <1>4 DEF IInv, TypeOK, Ends
<1>9. Bridging'
  BY <1>1, <1>2 DEF IInv, Bridging
<1>10. OnePlace'
  <2>1. \A v \in Uids \ muddled' : \A d, e \in Conns : Carries(d, v)' /\ Carries(e, v)' => d = e
    BY <1>4, <1>5 DEF IInv, OnePlace
  <2>2. \A v \in Uids \ muddled' : \A d \in Conns, i, j \in Tags :
           reg'[d][i] = v /\ reg'[d][j] = v => i = j
    BY <1>1, <1>4, <1>5 DEF IInv, OnePlace
  <2>3. \A v \in Uids \ muddled' : \A d, e \in Conns :
           Calling(d, v)' /\ (Calling(e, v)' \/ Carries(e, v)') => d = e
    BY <1>2, <1>4, <1>5 DEF IInv, OnePlace
  <2>4. QED
    BY <2>1, <2>2, <2>3 DEF OnePlace
<1>11. Listed'
  BY <1>1, <1>4 DEF IInv, Listed
<1>12. Pending'
  <2>1. \A v \in Uids \ muddled', d \in Conns \ {c} :
           Calling(d, v)' => Calling(d, v) /\ v # u /\ v \notin muddled /\ call'[d] = call[d]
    BY <1>2, <1>5
  <2>2. \A v \in Uids : v # u => (Wanted(v)' <=> Wanted(v))
    BY <1>1, <1>4, <1>7, RegisteredIs, RegisteredNext DEF IInv, Wanted
  <2>3. u \in subs => (call'[c].op \in {"announce", "active"} <=> Wanted(u)')
    BY <1>1, <1>2, <1>4, <1>7, RegisteredNext DEF Wanted
  <2>4. QED
    BY <1>2, <1>5, <2>2, <2>3 DEF IInv, Pending
<1>13. Settled'
  <2>1. UNCHANGED <<link, gone, store, admin>>
    BY <1>1
  <2>2. \A v \in subs' \ muddled' : Quiet(v)' => v # u
    BY <1>2, RegisteredNext, <1>7
  <2>3. \A v \in subs' \ muddled' : Quiet(v)' => v \in subs \ muddled /\ Quiet(v)
    BY <1>2, <1>5, <2>1, <1>7, RegisteredIs, RegisteredNext DEF IInv
  <2>4. \A v \in Uids : v # u => (Wanted(v)' <=> Wanted(v))
    BY <1>1, <1>4, <1>7, RegisteredIs, RegisteredNext DEF IInv, Wanted
  <2>5. QED
    BY <2>1, <2>2, <2>3, <2>4 DEF IInv, TypeOK, Settled
<1>14. Steady'
  BY <1>1, <1>4, <1>6 DEF IInv, Commands, Steady
<1>15. QED
  BY <1>7, <1>8, <1>9, <1>10, <1>11, <1>12, <1>13, <1>14 DEF IInv

(* The second half of onEvent: the call of the host.                       *)
LEMMA HostCallKeeps ==
    ASSUME IInv, NEW c \in Conns, HostCall(c)
    PROVE  IInv'
<1>1. /\ call[c] # Idle /\ call[c] \in HostCalls
      /\ call' = [call EXCEPT ![c] = Idle]
      /\ UNCHANGED <<link, mode, reg, gone, devices, subs, mapped, admin, cmd, opens, silent>>
  BY DEF IInv, TypeOK, HostCall, conn, maps
<1>2. PICK u \in Uids : u = call[c].uid
  BY <1>1 DEF HostCalls
<1>3. /\ store' \in [Uids -> {"absent", "active", "inactive"}]
      /\ \A v \in Uids : v # u => store'[v] = store[v]
      /\ store[u] # "absent" =>
            store'[u] = IF call[c].op \in {"announce", "active"} THEN "active" ELSE "inactive"
      /\ muddled' = IF u \notin subs THEN muddled \cup {u} ELSE muddled
  BY <1>2 DEF IInv, TypeOK, HostCall, HostCalls, Announced, SetActive
<1>4. /\ \A d \in Conns, v \in Uids : Carries(d, v)' <=> Carries(d, v)
      /\ \A d \in Conns : \A v : Calling(d, v)' <=> d # c /\ Calling(d, v)
      /\ \A d \in Conns : d # c => call'[d] = call[d]
      /\ \A v : Calling(c, v) <=> v = u
  BY <1>1, <1>2 DEF IInv, TypeOK, Carries, Calling
<1>5. \A v \in Uids : Connected(v)' <=> Connected(v)
  BY <1>1 DEF Connected, Registered
<1>6. TypeOK'
  BY <1>1, <1>3 DEF IInv, TypeOK
<1>7. Ends'
  BY <1>1, <1>4 DEF IInv, TypeOK, Ends
<1>8. Bridging'
  <2>1. \A v \in Uids : store[v] # "absent" => store'[v] # "absent"
    BY <1>3
  <2>2. admin # Idle => admin.uid \in Uids
    BY ExternalDeviceAssumption DEF IInv, Bridging
  <2>3. QED
    BY <1>1, <2>1, <2>2, Distinct DEF IInv, TypeOK, Bridging
<1>9. OnePlace'
  BY <1>1, <1>3, <1>4 DEF IInv, OnePlace
<1>10. Listed'
  BY <1>1, <1>3, <1>4 DEF IInv, Listed
<1>11. Pending'
  BY <1>1, <1>3, <1>4, <1>5 DEF IInv, Pending, Wanted
<1>12. Settled'
  BY <1>1, <1>2, <1>3, <1>4, <1>5 DEF IInv, TypeOK, Bridging, Pending, Settled, Wanted, Quiet
<1>13. Steady'
  BY <1>1, <1>4 DEF IInv, TypeOK, Commands, Steady
<1>14. QED
  BY <1>6, <1>7, <1>8, <1>9, <1>10, <1>11, <1>12, <1>13 DEF IInv

(* Bridging begins with the mapping.                                       *)
LEMMA CreateBridgeKeeps ==
    ASSUME IInv, NEW u \in Bridgeable, CreateBridge(u)
    PROVE  IInv'
<1>1. /\ admin = Idle /\ mapped' = mapped \cup {u} /\ u \in Uids
      /\ admin' = [op |-> "announceNew", uid |-> u]
      /\ admin' \in AdminSteps /\ admin'.op = "announceNew" /\ admin'.uid = u
      /\ UNCHANGED <<conn, call, devices, cmd, opens, silent, subs, store, muddled>>
  BY ExternalDeviceAssumption DEF CreateBridge, maps, history, AdminSteps
<1>2. TypeOK'
  BY <1>1 DEF IInv, TypeOK, conn
<1>3. Bridging'
  BY <1>1 DEF IInv, Bridging
<1>4. \A v \in Uids : Connected(v)' <=> Connected(v)
  BY <1>1 DEF Connected, Registered, conn
<1>5. Settled'
  BY <1>1, <1>4 DEF IInv, TypeOK, Settled, Wanted, Quiet, conn
<1>6. QED
  BY <1>1, <1>2, <1>3, <1>5, AdminApart

(* The bridged device is announced.                                        *)
LEMMA AnnounceNewKeeps ==
    ASSUME IInv, AnnounceNew
    PROVE  IInv'
<1>1. /\ admin \in AdminSteps /\ admin.uid \in Bridgeable /\ admin.uid \in Uids
  BY Distinct, ExternalDeviceAssumption DEF IInv, TypeOK, Bridging, AnnounceNew
<1>2. /\ admin.op = "announceNew" /\ store' = [store EXCEPT ![admin.uid] = "active"]
      /\ admin' \in AdminSteps /\ admin'.op = "subscribe" /\ admin'.uid = admin.uid
      /\ UNCHANGED <<conn, call, devices, cmd, opens, silent, subs, mapped, muddled>>
  BY <1>1 DEF AnnounceNew, Announced, maps, history, AdminSteps
<1>3. TypeOK'
  BY <1>2 DEF IInv, TypeOK, conn
<1>4. Bridging'
  BY <1>1, <1>2 DEF IInv, TypeOK, Bridging
<1>5. \A v \in Uids : Connected(v)' <=> Connected(v)
  BY <1>1, <1>2 DEF Connected, Registered, conn
<1>6. Settled'
  BY <1>2, <1>5, Distinct DEF IInv, TypeOK, Settled, Wanted, Quiet, conn
<1>7. QED
  BY <1>2, <1>3, <1>4, <1>6, AdminApart

(* The plugin subscribes the device.                                       *)
LEMMA SubscribeKeeps ==
    ASSUME IInv, Subscribe
    PROVE  IInv'
<1>1. /\ admin \in AdminSteps /\ admin.uid \in Bridgeable /\ admin.uid \in Uids
  BY Distinct, ExternalDeviceAssumption DEF IInv, TypeOK, Bridging, Subscribe
<1>2. /\ admin.op = "subscribe" /\ subs' = subs \cup {admin.uid}
      /\ \/ /\ admin' \in AdminSteps /\ admin'.op = "announce" /\ admin'.uid = admin.uid
            /\ muddled' = muddled
         \/ admin' = Idle /\ muddled' = muddled \cup {admin.uid}
      /\ UNCHANGED <<conn, call, devices, cmd, opens, silent, store, mapped>>
  BY <1>1 DEF Subscribe, AdminSteps
<1>3. TypeOK'
  BY <1>1, <1>2 DEF IInv, TypeOK, conn
<1>4. Bridging'
  BY <1>2, Distinct DEF IInv, Bridging
<1>5. \A v \in Uids : Connected(v)' <=> Connected(v)
  BY <1>1, <1>2 DEF Connected, Registered, conn
<1>6. Settled'
  BY <1>2, <1>5, Distinct DEF IInv, TypeOK, Settled, Wanted, Quiet, conn
<1>7. QED
  BY <1>2, <1>3, <1>4, <1>6, AdminApart

(* A device that was connected is announced once more.                     *)
LEMMA SubscribeAnnounceKeeps ==
    ASSUME IInv, SubscribeAnnounce
    PROVE  IInv'
<1>1. /\ admin \in AdminSteps /\ admin.uid \in Bridgeable /\ admin.uid \in Uids
  BY Distinct, ExternalDeviceAssumption DEF IInv, TypeOK, Bridging, SubscribeAnnounce
<1>2. /\ admin.op = "announce" /\ store' = [store EXCEPT ![admin.uid] = "active"] /\ admin' = Idle
      /\ muddled' = IF Wanted(admin.uid) THEN muddled ELSE muddled \cup {admin.uid}
      /\ UNCHANGED <<conn, call, devices, cmd, opens, silent, subs, mapped>>
  BY DEF SubscribeAnnounce, Announced, maps, Wanted
<1>3. TypeOK'
  BY <1>1, <1>2 DEF IInv, TypeOK, conn
<1>4. Bridging'
  BY <1>2, Distinct DEF IInv, Bridging
<1>5. \A v \in Uids : Connected(v)' <=> Connected(v)
  BY <1>1, <1>2 DEF Connected, Registered, conn
<1>6. Settled'
  BY <1>2, <1>5 DEF IInv, TypeOK, Settled, Wanted, Quiet, conn
<1>7. QED
  BY <1>2, <1>3, <1>4, <1>6, AdminApart

(* Unbridging begins with the subscription.                                *)
LEMMA RemoveBridgeKeeps ==
    ASSUME IInv, NEW u \in Bridgeable, RemoveBridge(u)
    PROVE  IInv'
<1>1. /\ admin = Idle /\ subs' = subs \ {u} /\ u \in Uids
      /\ admin' \in AdminSteps /\ admin'.op = "removeDevice" /\ admin'.uid = u
      /\ UNCHANGED <<conn, call, devices, cmd, opens, silent, store, mapped, muddled>>
  BY ExternalDeviceAssumption DEF RemoveBridge, history, AdminSteps
<1>2. TypeOK'
  BY <1>1 DEF IInv, TypeOK, conn
<1>3. Bridging'
  BY <1>1 DEF IInv, Bridging
<1>4. \A v \in Uids : Connected(v)' <=> Connected(v)
  BY <1>1 DEF Connected, Registered, conn
<1>5. Settled'
  BY <1>1, <1>4 DEF IInv, TypeOK, Settled, Wanted, Quiet, conn
<1>6. QED
  BY <1>1, <1>2, <1>3, <1>5, AdminApart

(* The device leaves the state store.                                      *)
LEMMA RemoveDeviceKeeps ==
    ASSUME IInv, RemoveDevice
    PROVE  IInv'
<1>1. /\ admin \in AdminSteps /\ admin.uid \in Bridgeable /\ admin.uid \in Uids
  BY Distinct, ExternalDeviceAssumption DEF IInv, TypeOK, Bridging, RemoveDevice
<1>2. /\ admin.op = "removeDevice" /\ store' = [store EXCEPT ![admin.uid] = "absent"]
      /\ admin' \in AdminSteps /\ admin'.op = "removeMapping" /\ admin'.uid = admin.uid
      /\ UNCHANGED <<conn, call, devices, cmd, opens, silent, subs, mapped, muddled>>
  BY <1>1 DEF RemoveDevice, maps, history, AdminSteps
<1>3. TypeOK'
  BY <1>2 DEF IInv, TypeOK, conn
<1>4. Bridging'
  BY <1>1, <1>2 DEF IInv, Bridging
<1>5. \A v \in Uids : Connected(v)' <=> Connected(v)
  BY <1>1, <1>2 DEF Connected, Registered, conn
<1>6. Settled'
  BY <1>2, <1>5, Distinct DEF IInv, TypeOK, Settled, Wanted, Quiet, conn
<1>7. QED
  BY <1>2, <1>3, <1>4, <1>6, AdminApart

(* The mapping is removed.                                                 *)
LEMMA RemoveMappingKeeps ==
    ASSUME IInv, RemoveMapping
    PROVE  IInv'
<1>1. /\ admin \in AdminSteps /\ admin.uid \in Bridgeable /\ admin.uid \in Uids
  BY Distinct, ExternalDeviceAssumption DEF IInv, TypeOK, Bridging, RemoveMapping
<1>2. /\ admin.op = "removeMapping" /\ mapped' = mapped \ {admin.uid} /\ admin' = Idle
      /\ UNCHANGED <<conn, call, devices, cmd, opens, silent, subs, store, muddled>>
  BY DEF RemoveMapping, maps, history
<1>3. TypeOK'
  BY <1>2 DEF IInv, TypeOK, conn
<1>4. Bridging'
  BY <1>2, Distinct DEF IInv, Bridging
<1>5. \A v \in Uids : Connected(v)' <=> Connected(v)
  BY <1>1, <1>2 DEF Connected, Registered, conn
<1>6. Settled'
  BY <1>2, <1>5 DEF IInv, TypeOK, Bridging, Settled, Wanted, Quiet, conn
<1>7. QED
  BY <1>2, <1>3, <1>4, <1>6, AdminApart

(* A command starts: it is steady when exactly one connection carries its  *)
(* device.                                                                 *)
LEMMA SetChannelValueKeeps ==
    ASSUME IInv, NEW u \in Bridgeable, SetChannelValue(u)
    PROVE  IInv'
<1> DEFINE carrying == {c \in Conns : u \in Registered(c)}
<1>1. u \in Uids
  BY ExternalDeviceAssumption
<1>2. IsFiniteSet(carrying)
  BY ExternalDeviceAssumption, FS_Subset
<1>3. Cardinality(carrying) = 1 => \E c : carrying = {c}
  BY <1>2, FS_Singleton
<1>4. /\ cmd' = [op |-> Search(Connectors), uid |-> u, left |-> Connectors,
                steady |-> Cardinality(carrying) = 1 /\ Connected(u)]
      /\ UNCHANGED <<conn, call, maps, mapped, store, admin, opens, history>>
  BY DEF SetChannelValue
<1>5. cmd' \in Commands /\ cmd'.op = Search(Connectors) /\ cmd'.uid = u /\ cmd'.left = Connectors
      /\ cmd'.steady = (Cardinality(carrying) = 1 /\ Connected(u))
  BY <1>1, <1>4 DEF Commands, Connectors, Search
<1>6. cmd'.steady => \E c \in Conns : /\ link[c] = "up" /\ u \in Registered(c)
                                      /\ \A d \in Conns : u \in Registered(d) => d = c
  <2> SUFFICES ASSUME cmd'.steady
               PROVE  \E c \in Conns : /\ link[c] = "up" /\ u \in Registered(c)
                                      /\ \A d \in Conns : u \in Registered(d) => d = c
    OBVIOUS
  <2>1. Cardinality(carrying) = 1 /\ Connected(u)
    BY <1>5
  <2>2. PICK c : carrying = {c}
    BY <1>3, <2>1
  <2>3. \A d \in Conns : u \in Registered(d) => d = c
    BY <2>2
  <2>4. QED
    BY <2>1, <2>3 DEF Connected
<1>7. \A d \in Conns : Carries(d, u)' <=> u \in Registered(d)
  BY <1>1, <1>4, RegisteredIs DEF IInv, Carries, conn
<1>8. Steady'
  <2> SUFFICES ASSUME cmd' # Idle, cmd'.steady PROVE Steady'
    BY DEF Steady
  <2>1. PICK c \in Conns : /\ link[c] = "up" /\ u \in Registered(c)
                          /\ \A d \in Conns : u \in Registered(d) => d = c
    BY <1>6
  <2>2. link' = link
    BY <1>4 DEF conn
  <2>3. c \in cmd'.left /\ cmd'.op = "sending"
    BY <1>5, <2>1 DEF Connectors, Search
  <2>4. QED
    BY <1>5, <1>7, <2>1, <2>2, <2>3 DEF Steady
<1>9. QED
  BY <1>4, <1>5, <1>8, CommandApart

(* One connector after the other is tried.                                 *)
LEMMA SendChannelValueKeeps ==
    ASSUME IInv, NEW c \in Conns, SendChannelValue(c)
    PROVE  IInv'
<1>1. /\ cmd.op = "sending" /\ c \in cmd.left
      /\ UNCHANGED <<conn, call, maps, mapped, store, admin, opens, history>>
  BY DEF SendChannelValue
<1>2. cmd \in Commands /\ cmd # Idle /\ cmd.uid \in Uids
  BY <1>1, Distinct DEF IInv, TypeOK, Commands
<1>3. /\ link' = link
      /\ \A d \in Conns, u \in Uids : Carries(d, u)' <=> Carries(d, u)
  BY <1>1 DEF Carries, conn
<1>4. cmd.uid \in Registered(c) <=> Carries(c, cmd.uid)
  BY <1>2, RegisteredIs DEF IInv
<1>5. CASE /\ cmd.uid \notin Registered(c)
           /\ cmd' = [cmd EXCEPT !.op = Search(cmd.left \ {c}), !.left = @ \ {c}]
  <2>0. Search(cmd.left \ {c}) \in {"sending", "notConnected"}
    BY DEF Search
  <2>1. /\ cmd' \in Commands /\ cmd'.op = Search(cmd.left \ {c}) /\ cmd'.uid = cmd.uid
        /\ cmd'.left = cmd.left \ {c} /\ cmd'.steady = cmd.steady
    BY <1>2, <1>5, <2>0 DEF Commands
  <2>2. ASSUME NEW u \in Uids, cmd'.uid = u, cmd'.steady
        PROVE  \E d \in cmd'.left : /\ link'[d] = "up" /\ Carries(d, u)'
                                    /\ \A e \in Conns : Carries(e, u)' => e = d
    <3>1. PICK d \in cmd.left : /\ link[d] = "up" /\ Carries(d, u)
                               /\ \A e \in Conns : Carries(e, u) => e = d
      BY <1>2, <2>1, <2>2 DEF IInv, Steady
    <3>2. d # c /\ d \in Conns
      BY <1>2, <1>4, <1>5, <2>2, <3>1 DEF Commands
    <3>3. QED
      BY <1>3, <2>1, <3>1, <3>2
  <2>3. Steady'
    BY <2>1, <2>2 DEF Steady, Search
  <2>4. QED
    BY <1>1, <2>1, <2>3, CommandApart
<1>6. CASE cmd' = Idle
  <2>1. Steady'
    BY <1>6 DEF Steady
  <2>2. QED
    BY <1>1, <1>6, <2>1, CommandApart
<1>7. CASE /\ cmd.uid \in Registered(c) /\ link[c] # "up"
           /\ cmd' = [cmd EXCEPT !.op = "failed", !.left = {}]
  <2>1. cmd' \in Commands /\ cmd'.steady = cmd.steady
    BY <1>2, <1>7 DEF Commands
  <2>2. ~cmd.steady
    BY <1>2, <1>4, <1>7 DEF IInv, Steady
  <2>3. Steady'
    BY <2>1, <2>2 DEF Steady
  <2>4. QED
    BY <1>1, <2>1, <2>3, CommandApart
<1>8. QED
  BY <1>5, <1>6, <1>7 DEF SendChannelValue

(* The commander has its answer.                                           *)
LEMMA CommandDoneKeeps ==
    ASSUME IInv, CommandDone
    PROVE  IInv'
<1>1. /\ cmd' = Idle
      /\ UNCHANGED <<conn, call, maps, mapped, store, admin, opens, history>>
  BY DEF CommandDone
<1>2. Steady'
  BY <1>1 DEF Steady
<1>3. QED
  BY <1>1, <1>2, CommandApart

(* A step that changes nothing keeps the invariant.                        *)
LEMMA StutterKeeps ==
    ASSUME IInv, UNCHANGED vars
    PROVE  IInv'
<1>1. UNCHANGED <<conn, call, maps, mapped, store, admin, opens, history>> /\ cmd' = cmd
  BY DEF vars, conn, maps, history
<1>2. cmd' \in Commands \cup {Idle} /\ Steady'
  BY <1>1 DEF IInv, TypeOK, Steady, Carries, conn
<1>3. QED
  BY <1>1, <1>2, CommandApart

(* Every step keeps the invariant.                                         *)
LEMMA InvNext == IInv /\ [Next]_vars => IInv'
<1> SUFFICES ASSUME IInv, [Next]_vars PROVE IInv'
  OBVIOUS
<1>1. ASSUME NEW c \in Conns,
             \/ Accept(c) \/ EndArray(c) \/ Close(c) \/ Forget(c)
             \/ HostCall(c) \/ SendChannelValue(c)
      PROVE  IInv'
  BY <1>1, AcceptKeeps, EndArrayKeeps, CloseKeeps, ForgetKeeps, HostCallKeeps, SendChannelValueKeeps
<1>2. ASSUME NEW c \in Conns, NEW u \in Uids, Vanish(c, u)
      PROVE  IInv'
  BY <1>2, VanishKeeps
<1>3. ASSUME NEW c \in Conns, NEW t \in Tags, ByeJSON(c, t) \/ ByeSimple(c, t)
      PROVE  IInv'
  BY <1>3, ByeJSONKeeps, ByeSimpleKeeps
<1>4. ASSUME NEW c \in Conns, NEW t \in Tags, NEW s \in {"active", "inactive"},
             ReportJSON(c, t, s) \/ ReportSimple(c, t, s)
      PROVE  IInv'
  BY <1>4, ReportKeeps DEF ReportJSON, ReportSimple
<1>5. ASSUME NEW c \in Conns, NEW t \in Tags, NEW u \in Uids, NEW simple \in BOOLEAN,
             InitDevice(c, t, u, simple)
      PROVE  IInv'
  BY <1>5, InitDeviceKeeps
<1>6. ASSUME NEW u \in Bridgeable, CreateBridge(u) \/ RemoveBridge(u) \/ SetChannelValue(u)
      PROVE  IInv'
  BY <1>6, CreateBridgeKeeps, RemoveBridgeKeeps, SetChannelValueKeeps
<1>7. CASE AnnounceNew \/ Subscribe \/ SubscribeAnnounce \/ RemoveDevice \/ RemoveMapping
  BY <1>7, AnnounceNewKeeps, SubscribeKeeps, SubscribeAnnounceKeeps, RemoveDeviceKeeps,
     RemoveMappingKeeps
<1>8. CASE CommandDone
  BY <1>8, CommandDoneKeeps
<1>9. CASE UNCHANGED vars
  BY <1>9, StutterKeeps
<1>10. QED
  BY <1>1, <1>2, <1>3, <1>4, <1>5, <1>6, <1>7, <1>8, <1>9 DEF Next

(* The invariant holds in every reachable state.                           *)
THEOREM Invariance == Spec => []IInv
BY InvInit, InvNext, PTL DEF Spec

(* Plugin.devices is what connections carry or have yet to report removed, *)
(* whatever init, bye and close raced: Discover offers no device that is   *)
(* gone and misses none, but for those the plugin is muddled about.        *)
THEOREM ListIsRight == Spec => []ListedIsConnected
<1>1. IInv => ListedIsConnected
  BY RegisteredIs DEF IInv, Listed, ListedIsConnected
<1>2. QED
  BY <1>1, Invariance, PTL

(* With no call under way a bridged device is active in the state store    *)
(* exactly when it is connected and did not report itself inactive,        *)
(* however bridging and unbridging raced its connection.                   *)
THEOREM StoreFollows == Spec => []ActiveIsConnected
<1>1. IInv => ActiveIsConnected
  BY DEF IInv, TypeOK, Settled, Wanted, ActiveIsConnected
<1>2. QED
  BY <1>1, Invariance, PTL

(* Server.SetChannelValue finds a device that one connection carries from  *)
(* before the command to its end, though it walks a copy of the list of    *)
(* connectors.                                                             *)
THEOREM SteadyDeviceIsReached == Spec => []SteadyIsReached
<1>1. IInv => SteadyIsReached
  BY DEF IInv, TypeOK, Commands, Steady, SteadyIsReached
<1>2. QED
  BY <1>1, Invariance, PTL

(***************************************************************************)
(* End devices: a push button behind a plugin (PluginButtons).             *)
(***************************************************************************)
(* What a click tells the host, and what a goroutine has yet to tell it:   *)
(* the rest of a click, of the begin of a hold, or of its end.             *)
ClickWords == IF origin = "shelly" THEN {"tip", "tip2", "hold"} ELSE {"tip", "tip2"}
HoldBegins == {<<"1", "hold">>, <<"hold">>}
Sayings ==
    {<<>>, <<"0">>, <<"release", "0">>} \cup HoldBegins
        \cup {<<a, "0">> : a \in ClickWords} \cup {<<"1", a, "0">> : a \in ClickWords}

(* A watchdog that waits for the lock has nothing to tell yet.             *)
ButtonForm ==
    /\ origin \in Origins /\ fired \subseteq Dogs /\ value \in {0, 1}
    /\ told \in {"none", "tip", "tip2", "hold", "release"}
    /\ held \in BOOLEAN /\ armed \in BOOLEAN /\ mixed \in BOOLEAN
    /\ calls \in [Workers -> Sayings]
    /\ \A w \in fired : calls[w] = <<>>

(* As long as no two goroutines mixed: one at a time is at work; the timer *)
(* runs exactly while a hold is on, but for the moment in which it has     *)
(* fired; the host hears of the begin of a hold while it is on; and with   *)
(* nothing left to tell it, it was told of no hold that is over.           *)
OneAtWork == \A v, w \in AtWork : v = w
TimerGuards == IF fired = {} THEN held = armed ELSE held = TRUE /\ armed = FALSE
BeginsHeld == \A w \in Workers : calls[w] \in HoldBegins => held = TRUE
ShownHeld == (\A w \in Workers : calls[w] = <<>>) => (value = 1 => held = TRUE)
ToldHeld ==
    (\A w \in Workers : calls[w] \in {<<>>, <<"0">>}) =>
        (told = "hold" /\ origin # "shelly" => held = TRUE)

ButtonInv ==
    /\ ButtonForm
    /\ mixed = FALSE =>
         OneAtWork /\ TimerGuards /\ BeginsHeld /\ ShownHeld /\ ToldHeld

(* What is left of a saying once its first word was told.                  *)
LEMMA TellOne ==
    ASSUME NEW s \in Sayings, s # <<>>
    PROVE  /\ Tail(s) \in Sayings
           /\ Head(s) \in {"0", "1", "tip", "tip2", "hold", "release"}
           /\ Tail(s) \in HoldBegins => s \in HoldBegins
           /\ Tail(s) = <<>> => s = <<"0">> \/ s = <<"hold">>
           /\ Tail(s) = <<"0">> => Head(s) = "release" \/ Head(s) \in ClickWords
<1>1. CASE s = <<"0">>
    <2>1. Head(s) = "0" /\ Tail(s) = <<>> BY <1>1
    <2> QED BY <1>1, <2>1 DEF Sayings, HoldBegins
<1>2. CASE s = <<"release", "0">>
    <2>1. Head(s) = "release" /\ Tail(s) = <<"0">> BY <1>2
    <2> QED BY <1>2, <2>1 DEF Sayings, HoldBegins
<1>3. CASE s = <<"hold">>
    <2>1. Head(s) = "hold" /\ Tail(s) = <<>> BY <1>3
    <2> QED BY <1>3, <2>1 DEF Sayings, HoldBegins
<1>4. CASE s = <<"1", "hold">>
    <2>1. Head(s) = "1" /\ Tail(s) = <<"hold">> BY <1>4
    <2> QED BY <1>4, <2>1 DEF Sayings, HoldBegins
<1>5. ASSUME NEW a \in ClickWords, s = <<a, "0">>
           PROVE  /\ Tail(s) \in Sayings
                  /\ Head(s) \in {"0", "1", "tip", "tip2", "hold", "release"}
                  /\ Tail(s) \in HoldBegins => s \in HoldBegins
                  /\ Tail(s) = <<>> => s = <<"0">> \/ s = <<"hold">>
                  /\ Tail(s) = <<"0">> => Head(s) = "release" \/ Head(s) \in ClickWords
    <2>1. Head(s) = a /\ Tail(s) = <<"0">> BY <1>5
    <2>2. a \in {"tip", "tip2", "hold"} BY <1>5 DEF ClickWords
    <2> QED BY <1>5, <2>1, <2>2 DEF Sayings, HoldBegins
<1>6. ASSUME NEW a \in ClickWords, s = <<"1", a, "0">>
           PROVE  /\ Tail(s) \in Sayings
                  /\ Head(s) \in {"0", "1", "tip", "tip2", "hold", "release"}
                  /\ Tail(s) \in HoldBegins => s \in HoldBegins
                  /\ Tail(s) = <<>> => s = <<"0">> \/ s = <<"hold">>
                  /\ Tail(s) = <<"0">> => Head(s) = "release" \/ Head(s) \in ClickWords
    <2>1. Head(s) = "1" /\ Tail(s) = <<a, "0">> BY <1>6
    <2>2. Tail(s) \in Sayings BY <1>6, <2>1 DEF Sayings
    <2>3. /\ <<a, "0">> # <<>> /\ <<a, "0">> # <<"0">> /\ <<a, "0">> # <<"hold">>
          /\ <<a, "0">> # <<"1", "hold">>
        <3>1. Len(<<a, "0">>) = 2 /\ <<a, "0">>[2] = "0" OBVIOUS
        <3>2. Len(<<"1", "hold">>) = 2 /\ <<"1", "hold">>[2] = "hold" OBVIOUS
        <3>3. Len(<<"0">>) = 1 /\ Len(<<"hold">>) = 1 /\ Len(<<>>) = 0 OBVIOUS
        <3> QED BY <3>1, <3>2, <3>3
    <2> QED BY <2>1, <2>2, <2>3 DEF HoldBegins
<1> QED BY <1>1, <1>2, <1>3, <1>4, <1>5, <1>6 DEF Sayings, HoldBegins

(* The words are those of the plugin, which stays the same.                *)
LEMMA SameWords == origin' = origin => Sayings' = Sayings /\ ClickWords' = ClickWords
BY DEF Sayings, ClickWords

(* A goroutine that begins or goes on without mixing is the only one.      *)
Alone(w) == \A v \in Workers : v # w => calls[v] = <<>> /\ v \notin fired

(* With no handler at work the one that begins is alone.                   *)
LEMMA NobodyElse ==
    ASSUME NEW w \in Workers, AtWork \ {w} = {}, ButtonForm
    PROVE  Alone(w)
BY DEF AtWork, Alone

(* With no handler at work nothing waits to be told.                       *)
LEMMA AtRest ==
    ASSUME AtWork = {}, ButtonForm
    PROVE  fired = {} /\ \A w \in Workers : calls[w] = <<>>
BY DEF AtWork, ButtonForm, Workers

(* The invariant of the buttons holds at the start.                        *)
LEMMA ButtonStart == ButtonInit => ButtonInv
<1> SUFFICES ASSUME ButtonInit PROVE ButtonInv
    OBVIOUS
<1>1. ButtonForm
    BY DEF ButtonInit, ButtonForm, Sayings
<1>2. \A w \in Workers : calls[w] = <<>>
    BY DEF ButtonInit
<1>3. <<>> \notin HoldBegins
    BY DEF HoldBegins
<1>4. AtWork = {}
    BY <1>2 DEF AtWork, ButtonInit
<1>5. OneAtWork /\ TimerGuards
    BY <1>4 DEF ButtonInit, OneAtWork, TimerGuards
<1>6. BeginsHeld
    BY <1>2, <1>3 DEF BeginsHeld
<1>7. ShownHeld /\ ToldHeld
    BY DEF ButtonInit, ShownHeld, ToldHeld
<1> QED BY <1>1, <1>5, <1>6, <1>7 DEF ButtonInv

(* One goroutine gets something new to tell, or nothing: what the rest of  *)
(* the invariant needs of the flags then.                                  *)
LEMMA NewSaying ==
    ASSUME ButtonForm, ButtonForm', NEW w \in Workers, NEW s,
           calls' = [calls EXCEPT ![w] = s], Alone(w), fired' = {},
           held' = armed', s \in HoldBegins => held' = TRUE,
           s = <<>> => (value' = 1 => held' = TRUE),
           s \in {<<>>, <<"0">>} => (told' = "hold" /\ origin' # "shelly" => held' = TRUE)
    PROVE  OneAtWork' /\ TimerGuards' /\ BeginsHeld' /\ ShownHeld' /\ ToldHeld'
<1>1. calls'[w] = s /\ \A v \in Workers : v # w => calls'[v] = <<>>
    BY DEF ButtonForm, Alone
<1>2. AtWork' \subseteq {w}
    BY <1>1 DEF AtWork
<1>3. OneAtWork'
    BY <1>2 DEF OneAtWork
<1>4. TimerGuards'
    BY DEF TimerGuards
<1>5. BeginsHeld'
    <2>1. <<>> \notin HoldBegins BY DEF HoldBegins
    <2> QED BY <1>1, <2>1 DEF BeginsHeld, HoldBegins
<1>6. ShownHeld' /\ ToldHeld'
    BY <1>1 DEF ShownHeld, ToldHeld
<1> QED BY <1>3, <1>4, <1>5, <1>6

(* Every call, timer and event of a button keeps the invariant.            *)
LEMMA ButtonStep == ButtonInv /\ [ButtonNext]_buttonVars => ButtonInv'
<1> SUFFICES ASSUME ButtonInv, [ButtonNext]_buttonVars PROVE ButtonInv'
    OBVIOUS
<1>0. ButtonForm
    BY DEF ButtonInv
<1>1. ASSUME UNCHANGED <<origin, held, armed, fired, calls, value, told, mixed>> PROVE ButtonInv'
    <2>1. Sayings' = Sayings /\ HoldBegins' = HoldBegins
        BY <1>1, SameWords DEF HoldBegins
    <2>2. AtWork' = AtWork
        BY <1>1 DEF AtWork
    <2>3. ButtonForm'
        BY <1>0, <1>1, <2>1 DEF ButtonForm
    <2> QED BY <1>1, <2>1, <2>2, <2>3 DEF ButtonInv, OneAtWork, TimerGuards, BeginsHeld,
            ShownHeld, ToldHeld
<1>2. ASSUME NEW w \in Handlers, NEW i \in 1..MaxEvents, Dispatch(w, i) PROVE ButtonInv'
    <2> DEFINE v == Verb(events[i])
    <2>1. /\ w \in Workers /\ calls[w] = <<>>
          /\ UNCHANGED <<origin, fired, value, told>>
          /\ mixed' = (mixed \/ AtWork # {} \/ i # 1)
        BY <1>2 DEF Dispatch, Workers
    <2>2. /\ Sayings' = Sayings /\ ClickWords' = ClickWords /\ w \notin fired
          /\ mixed' \in BOOLEAN /\ (mixed' = FALSE => mixed = FALSE /\ AtWork = {})
        <3>1. w \notin fired
            BY <1>0, ButtonAssumption DEF ButtonForm
        <3> QED BY <1>0, <2>1, <3>1, SameWords DEF ButtonForm
    <2>3. v \in {"", "tip", "tip2", "hold", "release"} /\ (origin = "shelly" => v # "release")
        BY <1>0, ButtonAssumption
        DEF ButtonForm, Verb, mapActionSuffix, mapHAEventType, mapInputEvent
    <2>4. ASSUME mixed' = FALSE
          PROVE  /\ Alone(w) /\ fired' = {} /\ held = armed /\ calls[w] = <<>>
                 /\ value = 1 => held = TRUE
                 /\ told = "hold" /\ origin # "shelly" => held = TRUE
        <3>1. fired = {} /\ \A u \in Workers : calls[u] = <<>>
            BY <1>0, <2>2, <2>4, AtRest
        <3> QED BY <2>1, <2>2, <2>4, <3>1 DEF ButtonInv, TimerGuards, ShownHeld, ToldHeld, Alone
    <2>5. CASE UNCHANGED <<held, armed, calls>>
        <3>1. ButtonForm'
            BY <1>0, <2>1, <2>2, <2>5 DEF ButtonForm
        <3>2. AtWork' = AtWork /\ HoldBegins' = HoldBegins
            BY <2>1, <2>5 DEF AtWork, HoldBegins
        <3> QED BY <2>1, <2>2, <2>5, <3>1, <3>2 DEF ButtonInv, OneAtWork, TimerGuards, BeginsHeld,
                ShownHeld, ToldHeld
    <2>6. CASE ReleaseHold(w)
        <3> DEFINE s == IF held THEN <<"release", "0">> ELSE <<>>
        <3>1. s \in Sayings /\ s \notin HoldBegins /\ s # <<"0">>
            BY DEF Sayings, HoldBegins
        <3>2. ButtonForm'
            <4>1. held' = FALSE /\ armed' = (armed /\ ~ held) /\ calls' = [calls EXCEPT ![w] = s]
                BY <2>6 DEF ReleaseHold
            <4>2. calls' \in [Workers -> Sayings]
                BY <1>0, <2>1, <2>2, <3>1, <4>1 DEF ButtonForm
            <4>3. armed' \in BOOLEAN
                BY <1>0, <4>1 DEF ButtonForm
            <4>4. \A u \in fired' : calls'[u] = <<>>
                BY <1>0, <2>1, <2>2, <4>1 DEF ButtonForm, Workers
            <4> QED BY <1>0, <2>1, <2>2, <4>1, <4>2, <4>3, <4>4 DEF ButtonForm
        <3>3. ASSUME mixed' = FALSE
              PROVE  OneAtWork' /\ TimerGuards' /\ BeginsHeld' /\ ShownHeld' /\ ToldHeld'
            <4>1. held' = FALSE /\ armed' = FALSE /\ calls' = [calls EXCEPT ![w] = s]
                BY <2>4, <2>6, <3>3, <1>0 DEF ReleaseHold, ButtonForm
            <4>2. s = <<>> => held = FALSE
                BY <1>0 DEF ButtonForm
            <4> QED BY <1>0, <2>1, <2>4, <3>1, <3>2, <3>3, <4>1, <4>2, NewSaying
        <3> QED BY <3>2, <3>3 DEF ButtonInv
    <2>7. CASE StartHold(w)
        <3> DEFINE s == <<"1", "hold">>
        <3>1. s \in Sayings /\ s # <<>> /\ s # <<"0">>
            BY DEF Sayings, HoldBegins
        <3>2. ButtonForm'
            BY <1>0, <2>1, <2>2, <2>7, <3>1 DEF ButtonForm, StartHold
        <3>3. ASSUME mixed' = FALSE
              PROVE  OneAtWork' /\ TimerGuards' /\ BeginsHeld' /\ ShownHeld' /\ ToldHeld'
            <4>1. held' = TRUE /\ armed' = TRUE /\ calls' = [calls EXCEPT ![w] = s]
                BY <2>7 DEF StartHold
            <4> QED BY <1>0, <2>1, <2>4, <3>1, <3>2, <3>3, <4>1, NewSaying
        <3> QED BY <3>2, <3>3 DEF ButtonInv
    <2>8. CASE Click(w, v) /\ v \in ClickWords
        <3> DEFINE s == <<"1", v, "0">>
        <3>1. s \in Sayings /\ s # <<>> /\ s # <<"0">> /\ s \notin HoldBegins
            <4>1. s \in Sayings BY <2>8 DEF Sayings
            <4>2. Len(s) = 3 OBVIOUS
            <4>3. /\ Len(<<>>) = 0 /\ Len(<<"0">>) = 1
                  /\ Len(<<"1", "hold">>) = 2 /\ Len(<<"hold">>) = 1
                OBVIOUS
            <4>4. s # <<>> /\ s # <<"0">> /\ s # <<"1", "hold">> /\ s # <<"hold">>
                <5> HIDE DEF s
                <5>1. 0 # 3 /\ 1 # 3 /\ 2 # 3 OBVIOUS
                <5> QED BY <4>2, <4>3, <5>1, Zenon
            <4> HIDE DEF s
            <4> QED BY <4>1, <4>4 DEF HoldBegins
        <3> HIDE DEF v
        <3>2. ButtonForm'
            BY <1>0, <2>1, <2>2, <2>8, <3>1 DEF ButtonForm, Click
        <3>3. ASSUME mixed' = FALSE
              PROVE  OneAtWork' /\ TimerGuards' /\ BeginsHeld' /\ ShownHeld' /\ ToldHeld'
            <4>1. held' = held /\ armed' = armed /\ calls' = [calls EXCEPT ![w] = s]
                BY <2>8 DEF Click
            <4> HIDE DEF s
            <4> QED BY <1>0, <2>1, <2>4, <3>1, <3>2, <3>3, <4>1, NewSaying
        <3> QED BY <3>2, <3>3 DEF ButtonInv
    <2>9. origin # "shelly" \/ v # "release"
        BY <2>3
    <2>10. \/ UNCHANGED <<held, armed, calls>>
           \/ ReleaseHold(w) \/ StartHold(w)
           \/ Click(w, v) /\ v \in ClickWords
        <3> HIDE DEF v
        <3>1. \/ UNCHANGED <<held, armed, calls>>
              \/ /\ v # ""
                 /\ CASE origin # "shelly" /\ v = "release" -> ReleaseHold(w)
                      [] origin # "shelly" /\ v = "hold" -> StartHold(w)
                      [] origin = "shelly" \/ v \notin {"hold", "release"} -> Click(w, v)
            BY <1>2 DEF Dispatch, v
        <3> QED BY <2>3, <3>1 DEF ClickWords
    <2> QED BY <2>5, <2>6, <2>7, <2>8, <2>10
<1>3. ASSUME NEW w \in Dogs, WatchdogFires(w) PROVE ButtonInv'
    <2>1. /\ w \in Workers /\ calls[w] = <<>> /\ armed = TRUE /\ armed' = FALSE
          /\ fired' = fired \cup {w} /\ mixed' = (mixed \/ AtWork # {})
          /\ UNCHANGED <<origin, held, calls, value, told>>
        BY <1>0, <1>3 DEF WatchdogFires, Workers, ButtonForm
    <2>2. Sayings' = Sayings /\ HoldBegins' = HoldBegins
        BY <2>1, SameWords DEF HoldBegins
    <2>3. ButtonForm'
        BY <1>0, <2>1, <2>2 DEF ButtonForm
    <2>4. ASSUME mixed' = FALSE
          PROVE  OneAtWork' /\ TimerGuards' /\ BeginsHeld' /\ ShownHeld' /\ ToldHeld'
        <3>1. mixed = FALSE /\ AtWork = {}
            BY <1>0, <2>1, <2>4 DEF ButtonForm
        <3>2. fired = {} /\ \A u \in Workers : calls[u] = <<>>
            BY <1>0, <3>1, AtRest
        <3>3. AtWork' = {w}
            BY <2>1, <3>2 DEF AtWork
        <3>4. held = TRUE
            BY <1>0, <2>1, <3>1, <3>2 DEF ButtonInv, TimerGuards, ButtonForm
        <3> QED
            BY <2>1, <2>2, <3>3, <3>4
            DEF OneAtWork, TimerGuards, BeginsHeld, ShownHeld, ToldHeld
    <2> QED BY <2>3, <2>4 DEF ButtonInv
<1>4. ASSUME NEW w \in Dogs, autoReleaseHold(w) PROVE ButtonInv'
    <2> DEFINE s == IF held THEN <<"release", "0">> ELSE <<>>
    <2>1. /\ w \in Workers /\ calls[w] = <<>> /\ w \in fired /\ fired' = fired \ {w}
          /\ held' = FALSE /\ calls' = [calls EXCEPT ![w] = s]
          /\ mixed' = (mixed \/ AtWork \ {w} # {})
          /\ UNCHANGED <<origin, armed, value, told>>
        BY <1>0, <1>4 DEF autoReleaseHold, Mixes, Workers, ButtonForm
    <2>2. s \in Sayings /\ s \notin HoldBegins /\ s # <<"0">> /\ Sayings' = Sayings
        BY <2>1, SameWords DEF Sayings, HoldBegins
    <2> HIDE DEF s
    <2>3. ButtonForm'
        <3>1. calls' \in [Workers -> Sayings]
            BY <1>0, <2>1, <2>2 DEF ButtonForm
        <3>2. \A u \in fired' : calls'[u] = <<>>
            BY <1>0, <2>1 DEF ButtonForm, Workers
        <3>3. mixed' \in BOOLEAN
            BY <1>0, <2>1 DEF ButtonForm
        <3> QED BY <1>0, <2>1, <2>2, <3>1, <3>2, <3>3 DEF ButtonForm
    <2>4. ASSUME mixed' = FALSE
          PROVE  OneAtWork' /\ TimerGuards' /\ BeginsHeld' /\ ShownHeld' /\ ToldHeld'
        <3>1. mixed = FALSE /\ Alone(w)
            BY <1>0, <2>1, <2>4, NobodyElse DEF ButtonForm
        <3>2. fired' = {}
            BY <1>0, <2>1, <3>1 DEF Alone, ButtonForm, Workers
        <3>3. held = TRUE /\ armed = FALSE
            BY <2>1, <3>1 DEF ButtonInv, TimerGuards
        <3>4. s # <<>>
            BY <3>3 DEF s
        <3> QED BY <1>0, <2>1, <2>2, <2>3, <3>1, <3>2, <3>3, <3>4, NewSaying
    <2> QED BY <2>3, <2>4 DEF ButtonInv
<1>5. ASSUME NEW w \in Workers, Tell(w) PROVE ButtonInv'
    <2> DEFINE c == Head(calls[w])
               s == Tail(calls[w])
    <2>1. /\ calls[w] # <<>> /\ calls' = [calls EXCEPT ![w] = s]
          /\ value' = IF c = "1" THEN 1 ELSE IF c = "0" THEN 0 ELSE value
          /\ told' = IF c \in {"0", "1"} THEN told ELSE c
          /\ mixed' = (mixed \/ AtWork \ {w} # {})
          /\ UNCHANGED <<origin, held, armed, fired>>
        BY <1>0, <1>5 DEF Tell, Mixes, ButtonForm
    <2>2. calls[w] \in Sayings
        BY <1>0 DEF ButtonForm
    <2>3. /\ s \in Sayings
          /\ c \in {"0", "1", "tip", "tip2", "hold", "release"}
          /\ s \in HoldBegins => calls[w] \in HoldBegins
          /\ s = <<>> => calls[w] = <<"0">> \/ calls[w] = <<"hold">>
          /\ s = <<"0">> => c = "release" \/ c \in ClickWords
        BY <2>1, <2>2, TellOne
    <2>4. (calls[w] = <<"0">> => c = "0") /\ (calls[w] = <<"hold">> => c = "hold")
        OBVIOUS
    <2>5. Sayings' = Sayings /\ w \notin fired
        BY <1>0, <2>1, SameWords DEF ButtonForm
    <2> HIDE DEF c, s
    <2>6. ButtonForm'
        BY <1>0, <2>1, <2>3, <2>5 DEF ButtonForm
    <2>7. ASSUME mixed' = FALSE
          PROVE  OneAtWork' /\ TimerGuards' /\ BeginsHeld' /\ ShownHeld' /\ ToldHeld'
        <3>1. mixed = FALSE /\ Alone(w)
            BY <1>0, <2>1, <2>7, NobodyElse DEF ButtonForm
        <3>2. fired' = {} /\ fired = {}
            BY <1>0, <2>1, <2>5, <3>1 DEF Alone, ButtonForm, Workers
        <3>3. held' = armed'
            BY <2>1, <3>1, <3>2 DEF ButtonInv, TimerGuards
        <3>4. calls[w] \in HoldBegins => held = TRUE
            BY <3>1 DEF ButtonInv, BeginsHeld
        <3>5. s = <<>> => (value' = 1 => held' = TRUE)
            <4>1. ASSUME calls[w] = <<"0">> PROVE value' = 0
                BY <2>1, <2>4, <4>1
            <4>2. ASSUME calls[w] = <<"hold">> PROVE held' = TRUE
                BY <2>1, <3>4, <4>2 DEF HoldBegins
            <4>3. ASSUME s = <<>>, value' = 1 PROVE held' = TRUE
                <5>1. value' # 0 BY <4>3
                <5>2. calls[w] = <<"0">> \/ calls[w] = <<"hold">> BY <2>3, <4>3
                <5> QED BY <4>1, <4>2, <5>1, <5>2
            <4> QED BY <4>3
        <3>6. s \in {<<>>, <<"0">>} => (told' = "hold" /\ origin' # "shelly" => held' = TRUE)
            <4>1. CASE calls[w] = <<"0">>
                <5>1. \A v \in Workers : calls[v] \in {<<>>, <<"0">>}
                    BY <4>1, <3>1 DEF Alone
                <5> QED BY <2>1, <2>4, <3>1, <4>1, <5>1 DEF ButtonInv, ToldHeld
            <4>2. CASE calls[w] = <<"hold">>
                BY <2>1, <3>4, <4>2 DEF HoldBegins
            <4>3. CASE s = <<"0">>
                BY <2>1, <2>3, <4>3 DEF ClickWords
            <4> QED BY <2>3, <4>1, <4>2, <4>3
        <3> QED BY <1>0, <2>1, <2>3, <2>6, <3>1, <3>2, <3>3, <3>4, <3>5, <3>6, NewSaying
    <2> QED BY <2>6, <2>7 DEF ButtonInv
<1>6. ASSUME Push PROVE ButtonInv'
    BY <1>1, <1>6 DEF Push
<1>7. ASSUME UNCHANGED buttonVars PROVE ButtonInv'
    BY <1>1, <1>7 DEF buttonVars
<1> QED BY <1>2, <1>3, <1>4, <1>5, <1>6, <1>7 DEF ButtonNext

(* The invariant says what is asked of a button at rest.                   *)
LEMMA ButtonAtRest == ButtonInv => ButtonRests
<1> SUFFICES ASSUME ButtonInv PROVE ButtonRests
    OBVIOUS
<1>1. ButtonForm
    BY DEF ButtonInv
<1>2. \A w \in Workers : Len(calls[w]) <= 3
    <2> SUFFICES ASSUME NEW s \in Sayings PROVE Len(s) <= 3
        BY <1>1 DEF ButtonForm
    <2>1. /\ Len(<<>>) = 0
          /\ \A a : Len(<<a>>) = 1
          /\ \A a, b : Len(<<a, b>>) = 2
          /\ \A a, b, c : Len(<<a, b, c>>) = 3
        OBVIOUS
    <2>2. \/ s = <<>>
          \/ \E a : s = <<a>>
          \/ \E a, b : s = <<a, b>>
          \/ \E a, b, c : s = <<a, b, c>>
        BY Zenon DEF Sayings, HoldBegins
    <2>3. Len(s) = 0 \/ Len(s) = 1 \/ Len(s) = 2 \/ Len(s) = 3
        BY <2>1, <2>2, Zenon
    <2>4. \A n : n = 0 \/ n = 1 \/ n = 2 \/ n = 3 => n <= 3
        OBVIOUS
    <2> QED BY <2>3, <2>4, Zenon
<1>3. ButtonTypeOK
    BY <1>1, <1>2 DEF ButtonTypeOK, ButtonForm
<1>4. ASSUME Resting, ~ mixed
      PROVE  /\ value = 1 => held
             /\ told = "hold" /\ origin # "shelly" => held
             /\ held <=> armed
    <2>1. fired = {} /\ \A w \in Workers : calls[w] = <<>>
        BY <1>1, <1>4, AtRest DEF Resting
    <2>2. mixed = FALSE
        BY <1>1, <1>4 DEF ButtonForm
    <2>3. TimerGuards /\ ShownHeld /\ ToldHeld
        BY <2>2 DEF ButtonInv
    <2>4. held = armed /\ (value = 1 => held = TRUE)
          /\ (told = "hold" /\ origin # "shelly" => held = TRUE)
        BY <2>1, <2>3 DEF TimerGuards, ShownHeld, ToldHeld
    <2> QED BY <2>4
<1> QED BY <1>3, <1>4 DEF ButtonRests

(***************************************************************************)
(* End devices: a push button of the external device API                   *)
(* (ConnectorButtons).                                                     *)
(***************************************************************************)
(* The mode in force, which the messages of the device name.               *)
TheMode == normalizeButtonMode(clickMode)
CountsChains == TheMode \notin {"single", "dimmer"}

(* The numbers of presses, counted from the end of the log, that are a     *)
(* chain of short ones.                                                    *)
Chains(l) ==
    {n \in 1..Len(l) :
        \A i \in (Len(l) - n + 1)..Len(l) :
            l[i].held < Hold /\ (i > Len(l) - n + 1 => l[i].close)}

ClickForm ==
    /\ clickMode \in Modes /\ index \in {0, 1}
    /\ pressed \in Never..Old /\ released \in Never..Old /\ sinceLast \in 0..Old
    /\ count \in 0..4 /\ seqMode \in {NoMode, TheMode}
    /\ said \in Values \cup {0} /\ downFor \in Never..Old /\ again \in 0..MaxAgain
    /\ tainted \in BOOLEAN
    /\ log \in Seq([held : 0..Old, close : BOOLEAN])
    /\ Len(log) <= MaxPresses
    /\ Len(out) <= 2 + Old \div Repeat

(* A press under way has the time since the first value that had the       *)
(* button down, and a place in the log; one that a BYE left over is long   *)
(* past and has none.                                                      *)
PressTime ==
    /\ tainted = TRUE => pressed = Old /\ log = <<>>
    /\ tainted = FALSE => downFor = pressed
    /\ tainted = FALSE /\ pressed # Never => Len(log) < MaxPresses

(* The state of the sequence is that of the log: after a short press its   *)
(* age and the length of the chain, up to 4, otherwise nothing that would  *)
(* lengthen a chain.                                                       *)
Sequence ==
    /\ log = <<>> => count = 0 \/ released = Never \/ released > Window
    /\ log # <<>> /\ log[Len(log)].held >= Hold => count = 0
    /\ log # <<>> /\ log[Len(log)].held < Hold /\ CountsChains =>
         /\ released = sinceLast
         /\ \E c \in 1..Len(log) : Chains(log) = 1..c /\ count = IF c < 4 THEN c ELSE 4

ClickInv == ClickForm /\ PressTime /\ Sequence /\ ClicksAreRight

(* How an age grows.                                                       *)
LEMMA Ages ==
    ASSUME NEW a \in Never..Old, NEW w \in Nat
    PROVE  /\ Aged(a, w) \in Never..Old
           /\ Aged(a, w) = Never <=> a = Never
           /\ a > Window => Aged(a, w) > Window
           /\ a = Old => Aged(a, w) = Old
           /\ a # Never => Aged(a, w) \in 0..Old
BY DEF Aged, Never, Old, Window

(* A message without a mode names none.                                    *)
LEMMA NoModeIsNone == NoMode \notin {"single", "dimmer", "scene", "default", "other"}
BY Zenon DEF NoMode

(* The mode that a message asks for, after normalisation.                  *)
LEMMA Modes6 == TheMode \in {NoMode, "single", "dimmer", "scene", "default"}
BY DEF TheMode, normalizeButtonMode

(* A sequence keeps the mode that the messages name.                       *)
LEMMA ModeInForce == seqMode \in {NoMode, TheMode} => ModeOf = TheMode
BY DEF ModeOf, TheMode

(* How many dim steps a long press makes.                                  *)
LEMMA RepeatCount ==
    ASSUME NEW d \in Hold..Old
    PROVE  /\ buttonRepeatCount(d) \in 1..13
           /\ buttonRepeatCount(d) = (d - Hold) \div Repeat + 1
BY DEF buttonRepeatCount, Hold, Old, Repeat

(* Sequences: a function of a range of numbers is one, and what putting an *)
(* element before a sequence makes of it.                                  *)
LEMMA FunctionIsSeq ==
    ASSUME NEW S0, NEW n \in Nat, NEW f \in [1..n -> S0]
    PROVE  f \in Seq(S0) /\ Len(f) = n
<1>1. f \in Seq(S0) OBVIOUS
<1>2. DOMAIN f = 1..n OBVIOUS
<1>3. DOMAIN f = 1..Len(f) /\ Len(f) \in Nat
    BY <1>1, LenProperties
<1>4. Len(f) = n
    BY <1>2, <1>3
<1> QED BY <1>1, <1>4

(* What putting an element before a sequence makes of it.                  *)
LEMMA PutBefore ==
    ASSUME NEW h, NEW S0, NEW r \in Seq(S0)
    PROVE  /\ <<h>> \o r \in Seq(S0 \cup {h})
           /\ Len(<<h>> \o r) = Len(r) + 1
           /\ (<<h>> \o r)[1] = h
           /\ \A i \in 2..(Len(r) + 1) : (<<h>> \o r)[i] = r[i - 1]
<1> DEFINE q == <<h>>
           U == S0 \cup {h}
<1>1. q \in Seq(U) /\ r \in Seq(U) /\ Len(q) = 1 /\ q[1] = h /\ Len(r) \in Nat
    OBVIOUS
<1> HIDE DEF q, U
<1>2. /\ q \o r \in Seq(U)
      /\ Len(q \o r) = Len(q) + Len(r)
      /\ \A i \in 1..(Len(q) + Len(r)) :
            (q \o r)[i] = IF i <= Len(q) THEN q[i] ELSE r[i - Len(q)]
    BY <1>1, ConcatProperties
<1>3. \A i \in 2..(Len(r) + 1) : (q \o r)[i] = r[i - 1]
    BY <1>1, <1>2
<1>4. (q \o r)[1] = h /\ Len(q \o r) = Len(r) + 1
    BY <1>1, <1>2
<1> QED BY <1>2, <1>3, <1>4 DEF q, U

DimsOf(s) == {i \in 1..Len(s) : s[i] \in {"dimup", "dimdown"}}

(* What a long press tells, in each mode.                                  *)
LEMMA HoldTells ==
    ASSUME NEW m \in {NoMode, "single", "dimmer", "scene", "default"}, NEW d \in Hold..Old,
           NEW s, s = HoldActions(m, d), NEW k, k = buttonRepeatCount(d)
    PROVE  /\ Len(s) \in 0..14
           /\ m \in {"scene", "single"} => Len(s) = 1 /\ DimsOf(s) = {}
           /\ m = "dimmer" => Len(s) = k /\ DimsOf(s) = 1..k
           /\ m \in {NoMode, "default"} => Len(s) = k + 1 /\ DimsOf(s) = 2..(k + 1)
<1> DEFINE x == buttonDimRepeatAction
           r == [i \in 1..k |-> x]
           h == mapButtonActionByMode(m, "hold")
<1>1. k \in 1..13
    BY RepeatCount
<1>2. x \in {"dimup", "dimdown"} /\ h \notin {"dimup", "dimdown"}
    BY DEF buttonDimRepeatAction, mapButtonActionByMode
<1>0. NoMode \notin {"single", "dimmer", "scene"}
    BY NoModeIsNone
<1>3. s = (IF m = "dimmer" THEN <<>> ELSE <<h>>)
              \o (IF m \in {"dimmer", "default", NoMode} THEN r ELSE <<>>)
    BY DEF HoldActions
<1> HIDE DEF x, h
<1>4. r \in Seq({"dimup", "dimdown"}) /\ Len(r) = k /\ \A i \in 1..k : r[i] = x
    <2>1. r \in [1..k -> {"dimup", "dimdown"}] /\ \A i \in 1..k : r[i] = x
        BY <1>2
    <2> HIDE DEF r
    <2>2. k \in Nat
        BY <1>1
    <2> QED BY <2>1, <2>2, FunctionIsSeq
<1> HIDE DEF r
<1>5. CASE m \in {"scene", "single"}
    <2>1. s = <<h>> \o <<>>
        BY <1>0, <1>3, <1>5
    <2>2. <<h>> \o <<>> = <<h>>
        BY ConcatEmptySeq
    <2>3. <<h>> \in Seq({h}) /\ Len(<<h>>) = 1 /\ <<h>>[1] = h
        OBVIOUS
    <2>4. s \in Seq({h}) /\ Len(s) = 1 /\ s[1] = h
        BY <2>1, <2>2, <2>3, Zenon
    <2>5. DimsOf(s) = {}
        BY <1>2, <2>4 DEF DimsOf
    <2> QED BY <1>0, <1>5, <2>4, <2>5
<1>6. CASE m = "dimmer"
    <2>1. s = r
        <3>1. <<>> \o r = r BY <1>4, ConcatEmptySeq
        <3> QED BY <1>3, <1>6, <3>1
    <2>2. DimsOf(s) = 1..k
        BY <1>1, <1>2, <1>4, <2>1 DEF DimsOf
    <2>3. Len(s) = k /\ k \in 0..14
        BY <1>1, <1>4, <2>1
    <2>4. Len(s) \in 0..14
        BY <2>3, Zenon
    <2> QED BY <1>0, <1>6, <2>2, <2>3, <2>4
<1>7. CASE m \in {NoMode, "default"}
    <2>1. s = <<h>> \o r
        <3>1. m # "dimmer" /\ m \in {"dimmer", "default", NoMode} BY <1>0, <1>7
        <3> QED BY <1>3, <3>1, Zenon
    <2>2. /\ s \in Seq({"dimup", "dimdown"} \cup {h})
          /\ Len(s) = k + 1 /\ s[1] = h /\ \A i \in 2..(k + 1) : s[i] = r[i - 1]
        <3>1. LET q == <<h>> \o r
              IN  /\ q \in Seq({"dimup", "dimdown"} \cup {h})
                  /\ Len(q) = k + 1 /\ q[1] = h /\ \A i \in 2..(k + 1) : q[i] = r[i - 1]
            BY <1>4, PutBefore
        <3> QED BY <2>1, <3>1, Zenon
    <2>3. \A i \in 2..(k + 1) : s[i] = x
        BY <1>1, <1>4, <2>2
    <2>4. DimsOf(s) = 2..(k + 1)
        BY <1>1, <1>2, <2>2, <2>3 DEF DimsOf
    <2>5. Len(s) = k + 1 /\ k + 1 \in 0..14
        <3>1. k + 1 \in 0..14 BY <1>1
        <3> QED BY <2>2, <3>1, Zenon
    <2>6. Len(s) \in 0..14
        BY <2>5, Zenon
    <2> QED BY <1>0, <1>7, <2>4, <2>5, <2>6
<1> QED BY <1>5, <1>6, <1>7

(* What a short press adds to the log: the chain goes on if the press was  *)
(* close to a short one before it, else a chain of one begins.             *)
LEMMA ChainGrows ==
    ASSUME NEW l \in Seq([held : 0..Old, close : BOOLEAN]),
           NEW e \in [held : 0..Old, close : BOOLEAN], e.held < Hold
    PROVE  LET goesOn == l # <<>> /\ l[Len(l)].held < Hold /\ e.close
           IN  /\ ~ goesOn => Chains(Append(l, e)) = 1..1
               /\ \A c \in 1..Len(l) :
                    goesOn /\ Chains(l) = 1..c => Chains(Append(l, e)) = 1..(c + 1)
<1> DEFINE k == Append(l, e)
           n == Len(l)
           goesOn == l # <<>> /\ l[Len(l)].held < Hold /\ e.close
<1>1. /\ n \in Nat /\ Len(k) = n + 1 /\ k[n + 1] = e
      /\ \A i \in 1..n : k[i] = l[i] /\ l[i] \in [held : 0..Old, close : BOOLEAN]
    <2> DEFINE R == [held : 0..Old, close : BOOLEAN]
    <2>1. l \in Seq(R) /\ e \in R
        OBVIOUS
    <2> HIDE DEF R
    <2>2. n \in Nat
        BY <2>1, LenProperties
    <2>3. /\ Len(k) = n + 1 /\ k[n + 1] = e
          /\ \A i \in 1..n : k[i] = l[i]
        BY <2>1, AppendProperties
    <2>4. \A i \in 1..n : l[i] \in R
        BY <2>1, ElementOfSeq
    <2> QED BY <2>2, <2>3, <2>4 DEF R
<1>2. (l = <<>>) = (n = 0)
    OBVIOUS
<1> HIDE DEF k, n
<1>3. Chains(k) = {j \in 1..(n + 1) : \A i \in (n + 2 - j)..(n + 1) :
                      k[i].held < Hold /\ (i > n + 2 - j => k[i].close)}
    <2>1. \A j \in 1..(n + 1) : (n + 1) - j + 1 = n + 2 - j
        BY <1>1
    <2> QED BY <1>1, <2>1 DEF Chains
<1>4. Chains(l) = {j \in 1..n : \A i \in (n + 1 - j)..n :
                      l[i].held < Hold /\ (i > n + 1 - j => l[i].close)}
    <2>1. \A j \in 1..n : n - j + 1 = n + 1 - j
        BY <1>1
    <2> QED BY <1>1, <2>1 DEF Chains, n
<1>5. 1 \in Chains(k)
    <2>1. \A i \in (n + 1)..(n + 1) : i = n + 1
        BY <1>1
    <2> QED BY <1>1, <1>3, <2>1
<1>6. ASSUME ~ goesOn PROVE Chains(k) = 1..1
    <2>1. ASSUME NEW j \in Chains(k), j # 1 PROVE FALSE
        <3>1. j \in 2..(n + 1) /\ \A i \in (n + 2 - j)..(n + 1) :
                  k[i].held < Hold /\ (i > n + 2 - j => k[i].close)
            BY <1>1, <1>3, <2>1
        <3>2. n \in (n + 2 - j)..(n + 1) /\ n + 1 \in (n + 2 - j)..(n + 1) /\ n + 1 > n + 2 - j
            BY <1>1, <3>1
        <3>3. k[n].held < Hold /\ k[n + 1].close
            BY <3>1, <3>2
        <3>4. n \in 1..n
            BY <1>1, <3>1
        <3>5. l[n].held < Hold /\ e.close /\ l # <<>>
            BY <1>1, <1>2, <3>3, <3>4
        <3> QED BY <1>6, <3>5 DEF n
    <2> QED BY <1>5, <2>1
<1>7. ASSUME goesOn, NEW c \in 1..n, Chains(l) = 1..c PROVE Chains(k) = 1..(c + 1)
    <2>1. e.held < Hold /\ e.close
        BY <1>7
    <2>2. ASSUME NEW j \in 1..n PROVE j + 1 \in Chains(k) <=> j \in Chains(l)
        <3>1. j + 1 \in Chains(k) <=> \A i \in (n + 1 - j)..(n + 1) :
                  k[i].held < Hold /\ (i > n + 1 - j => k[i].close)
            <4>1. j + 1 \in 1..(n + 1) /\ n + 2 - (j + 1) = n + 1 - j
                BY <1>1, <2>2
            <4> QED BY <1>3, <4>1
        <3>2. j \in Chains(l) <=> \A i \in (n + 1 - j)..n :
                  l[i].held < Hold /\ (i > n + 1 - j => l[i].close)
            BY <1>4, <2>2
        <3>3. \A i \in (n + 1 - j)..(n + 1) : i = n + 1 \/ i \in (n + 1 - j)..n
            BY <1>1, <2>2
        <3>4. \A i \in (n + 1 - j)..n : i \in 1..n /\ i \in (n + 1 - j)..(n + 1)
            BY <1>1, <2>2
        <3>5. \A i \in (n + 1 - j)..n : k[i] = l[i]
            BY <1>1, <3>4
        <3>6. k[n + 1].held < Hold /\ k[n + 1].close
            BY <1>1, <2>1
        <3> QED BY <3>1, <3>2, <3>3, <3>4, <3>5, <3>6
    <2>3. ASSUME NEW j PROVE j \in Chains(k) <=> j \in 1..(c + 1)
        <3>1. j \in Chains(k) => j \in 1..(n + 1)
            BY <1>3
        <3>2. j \in 1..(c + 1) => j \in 1..(n + 1)
            BY <1>1, <1>7
        <3>3. CASE j = 1
            BY <1>5, <1>7, <3>3
        <3>4. CASE j \in 2..(n + 1)
            <4>1. j - 1 \in 1..n /\ (j - 1) + 1 = j
                BY <1>1, <3>4
            <4>2. j \in Chains(k) <=> j - 1 \in 1..c
                BY <1>7, <2>2, <4>1
            <4> QED BY <1>1, <1>7, <3>4, <4>2
        <3> QED BY <1>1, <3>1, <3>2, <3>3, <3>4
    <2> QED BY <2>3
<1> QED BY <1>6, <1>7 DEF k, n

(* The form of the state in the invariant gives the type invariant.        *)
LEMMA ClickTypes == ClickForm => ClickTypeOK
<1> SUFFICES ASSUME ClickForm PROVE ClickTypeOK
    OBVIOUS
<1>1. seqMode \in {NoMode, "single", "dimmer", "scene", "default"}
    BY Modes6 DEF ClickForm
<1>2. Len(log) <= MaxPresses + 1
    BY ButtonModeAssumption DEF ClickForm
<1> QED BY <1>1, <1>2 DEF ClickForm, ClickTypeOK

(* The invariant of the clicks holds at the start.                         *)
LEMMA ClickStart == ClickInit => ClickInv
<1> SUFFICES ASSUME ClickInit PROVE ClickInv
    OBVIOUS
<1>1. ClickForm
    <2>1. <<>> \in Seq([held : 0..Old, close : BOOLEAN]) /\ Len(<<>>) = 0
        OBVIOUS
    <2>2. Len(log) <= MaxPresses /\ Len(out) <= 2 + Old \div Repeat
        BY <2>1, ButtonModeAssumption DEF ClickInit, Old, Repeat
    <2>3. pressed \in Never..Old /\ released \in Never..Old /\ sinceLast \in 0..Old
        BY DEF ClickInit, Never, Old
    <2>4. /\ clickMode \in Modes /\ index \in {0, 1} /\ count \in 0..4
          /\ seqMode \in {NoMode, TheMode} /\ tainted = FALSE /\ log = <<>>
          /\ said \in Values \cup {0} /\ downFor \in Never..Old /\ again \in 0..MaxAgain
        BY ButtonModeAssumption DEF ClickInit, Never, Old
    <2> QED BY <2>1, <2>2, <2>3, <2>4 DEF ClickForm
<1>2. PressTime
    BY DEF ClickInit, PressTime
<1>3. Sequence
    BY DEF ClickInit, Sequence
<1>4. ClicksAreRight
    BY <1>1, ClickTypes DEF ClickInit, ClicksAreRight
<1> QED BY <1>1, <1>2, <1>3, <1>4 DEF ClickInv

(* Nothing is said of a message that told nothing, nor of a press that has *)
(* no log.                                                                 *)
LEMMA NothingToSay ==
    ASSUME ClickForm', out' = <<>> \/ log' = <<>>
    PROVE  ClicksAreRight'
<1>1. ClickForm' => ClickTypeOK'
    BY ClickTypes, PTL
<1> QED BY <1>1 DEF ClicksAreRight

(* How a message that changes nothing but the time is counted.             *)
LEMMA CountedAgain ==
    ASSUME again \in 0..MaxAgain, NEW p \in BOOLEAN, Repeated(p)
    PROVE  again' \in 0..MaxAgain
BY ButtonModeAssumption, SMT DEF Repeated

(* A value above 0 keeps it, whether it begins a press or finds one.       *)
LEMMA PressStep ==
    ASSUME ClickInv, NEW v \in Values, NEW w \in Pauses, Press(v, w)
    PROVE  ClickInv'
<1>1. ClickForm /\ PressTime /\ Sequence
    BY DEF ClickInv
<1>2. /\ Len(log) < MaxPresses /\ Repeated(downFor # Never)
      /\ seqMode' = IF pressed = Never THEN ModeOf ELSE seqMode
      /\ pressed' = IF pressed = Never THEN 0 ELSE Aged(pressed, w)
      /\ downFor' = IF downFor = Never THEN 0 ELSE Aged(downFor, w)
      /\ released' = Aged(released, w) /\ sinceLast' = Aged(sinceLast, w)
      /\ out' = <<>> /\ said' = v
      /\ UNCHANGED <<clickMode, index, count, log, tainted>>
    BY DEF Press
<1>3. w \in Nat
    BY ButtonModeAssumption
<1>4. TheMode' = TheMode /\ ModeOf = TheMode
    BY <1>1, <1>2, ModeInForce DEF TheMode, ClickForm
<1>5. /\ released' \in Never..Old /\ (released' = Never <=> released = Never)
      /\ released > Window => released' > Window
    BY <1>1, <1>2, <1>3, Ages DEF ClickForm
<1>6. sinceLast' \in 0..Old
    <2>1. sinceLast \in Never..Old /\ sinceLast # Never
        BY <1>1 DEF ClickForm, Never
    <2> QED BY <1>2, <1>3, <2>1, Ages
<1>7. /\ pressed' \in 0..Old /\ downFor' \in 0..Old
      /\ pressed = Old => pressed' = Old
      /\ downFor = pressed => downFor' = pressed'
    <2>1. pressed \in Never..Old /\ downFor \in Never..Old
        BY <1>1 DEF ClickForm
    <2>2. /\ pressed # Never => Aged(pressed, w) \in 0..Old
          /\ downFor # Never => Aged(downFor, w) \in 0..Old
          /\ pressed = Old => Aged(pressed, w) = Old
        BY <1>3, <2>1, Ages
    <2>3. 0 \in 0..Old /\ Old # Never
        BY DEF Old, Never
    <2> QED BY <1>2, <2>2, <2>3
<1>8. ClickForm'
    <2>1. seqMode' \in {NoMode, TheMode'}
        BY <1>1, <1>2, <1>4 DEF ClickForm
    <2>2. pressed' \in Never..Old /\ downFor' \in Never..Old
        BY <1>7 DEF Never
    <2>3. Len(out') <= 2 + Old \div Repeat
        BY <1>2 DEF Old, Repeat
    <2>4. again' \in 0..MaxAgain
        <3>1. again \in 0..MaxAgain /\ (downFor # Never) \in BOOLEAN
            BY <1>1 DEF ClickForm
        <3> QED BY <1>2, <3>1, CountedAgain
    <2>5. /\ clickMode' \in Modes /\ index' \in {0, 1} /\ count' \in 0..4
          /\ tainted' \in BOOLEAN /\ said' \in Values \cup {0}
          /\ log' \in Seq([held : 0..Old, close : BOOLEAN]) /\ Len(log') <= MaxPresses
        BY <1>1, <1>2 DEF ClickForm
    <2> QED BY <1>5, <1>6, <2>1, <2>2, <2>3, <2>4, <2>5 DEF ClickForm
<1>9. PressTime'
    BY <1>1, <1>2, <1>7 DEF PressTime
<1>10. Sequence'
    <2>1. log' = <<>> => count' = 0 \/ released' = Never \/ released' > Window
        BY <1>1, <1>2, <1>5 DEF Sequence
    <2>2. log' # <<>> /\ log'[Len(log')].held >= Hold => count' = 0
        BY <1>1, <1>2 DEF Sequence
    <2>3. log' # <<>> /\ log'[Len(log')].held < Hold /\ CountsChains' =>
            /\ released' = sinceLast'
            /\ \E c \in 1..Len(log') : Chains(log') = 1..c /\ count' = IF c < 4 THEN c ELSE 4
        BY <1>1, <1>2, <1>4 DEF Sequence, CountsChains
    <2> QED BY <2>1, <2>2, <2>3 DEF Sequence
<1>11. ClicksAreRight'
    BY <1>2, <1>8, NothingToSay
<1> QED BY <1>8, <1>9, <1>10, <1>11 DEF ClickInv

(* A new connection forgets the presses, and nothing is asked across it.   *)
LEMMA NewConnectionStep == ClickInv /\ NewConnection => ClickInv'
<1> SUFFICES ASSUME ClickInv, NewConnection PROVE ClickInv'
    OBVIOUS
<1>1. ClickForm
    BY DEF ClickInv
<1>2. /\ pressed' = Never /\ released' = Never /\ count' = 0 /\ seqMode' = NoMode
      /\ out' = <<>> /\ log' = <<>> /\ sinceLast' = Old /\ tainted' = FALSE
      /\ said' = 0 /\ downFor' = Never
      /\ UNCHANGED <<clickMode, index, again>>
    BY DEF NewConnection
<1>3. ClickForm'
    <2>1. log' \in Seq([held : 0..Old, close : BOOLEAN]) /\ Len(log') = 0 /\ Len(out') = 0
        BY <1>2
    <2>2. Len(log') <= MaxPresses /\ Len(out') <= 2 + Old \div Repeat
        BY <2>1, ButtonModeAssumption DEF Old, Repeat
    <2>3. /\ pressed' \in Never..Old /\ downFor' \in Never..Old
          /\ released' \in Never..Old /\ sinceLast' \in 0..Old
        BY <1>2 DEF Never, Old
    <2>4. /\ clickMode' \in Modes /\ index' \in {0, 1} /\ count' \in 0..4
          /\ seqMode' \in {NoMode, TheMode'} /\ said' \in Values \cup {0}
          /\ again' \in 0..MaxAgain /\ tainted' \in BOOLEAN
        <3>1. clickMode \in Modes /\ index \in {0, 1} /\ again \in 0..MaxAgain
            BY <1>1 DEF ClickForm
        <3>2. 0 \in 0..4
            OBVIOUS
        <3> QED BY <1>2, <3>1, <3>2
    <2> QED BY <2>1, <2>2, <2>3, <2>4 DEF ClickForm
<1>4. PressTime'
    BY <1>2 DEF PressTime
<1>5. Sequence'
    BY <1>2 DEF Sequence
<1>6. ClicksAreRight'
    BY <1>2, <1>3, NothingToSay
<1> QED BY <1>3, <1>4, <1>5, <1>6 DEF ClickInv

(* A BYE keeps it too: what it leaves of a press taints what is told next. *)
LEMMA ByeAndHelloStep == ClickInv /\ ByeAndHello => ClickInv'
<1> SUFFICES ASSUME ClickInv, ByeAndHello PROVE ClickInv'
    OBVIOUS
<1>1. ClickForm
    BY DEF ClickInv
<1>2. /\ log' = <<>> /\ out' = <<>> /\ sinceLast' = Old /\ said' = 0 /\ downFor' = Never
      /\ released' = Aged(released, Old) /\ pressed' = Aged(pressed, Old)
      /\ tainted' = (pressed # Never)
      /\ UNCHANGED <<clickMode, index, count, seqMode, again>>
    BY DEF ByeAndHello
<1>3. \A a \in Never..Old : Aged(a, Old) = IF a = Never THEN Never ELSE Old
    BY DEF Aged, Never, Old
<1>4. /\ released' = IF released = Never THEN Never ELSE Old
      /\ pressed' = IF pressed = Never THEN Never ELSE Old
    BY <1>1, <1>2, <1>3 DEF ClickForm
<1>5. ClickForm'
    <2>1. log' \in Seq([held : 0..Old, close : BOOLEAN]) /\ Len(log') = 0 /\ Len(out') = 0
        BY <1>2
    <2>2. Len(log') <= MaxPresses /\ Len(out') <= 2 + Old \div Repeat
        BY <2>1, ButtonModeAssumption DEF Old, Repeat
    <2>3. /\ pressed' \in Never..Old /\ downFor' \in Never..Old
          /\ released' \in Never..Old /\ sinceLast' \in 0..Old
        BY <1>2, <1>4 DEF Never, Old
    <2>4. TheMode' = TheMode
        BY <1>2 DEF TheMode
    <2> QED BY <1>1, <1>2, <2>1, <2>2, <2>3, <2>4 DEF ClickForm
<1>6. PressTime'
    BY <1>2, <1>4 DEF PressTime
<1>7. Sequence'
    BY <1>2, <1>4 DEF Sequence, Window, Old
<1>8. ClicksAreRight'
    BY <1>2, <1>5, NothingToSay
<1> QED BY <1>5, <1>6, <1>7, <1>8 DEF ClickInv

(* What a short press is called, by its number, in the modes that count.   *)
LEMMA ClickNames ==
    ASSUME NEW c \in Nat \ {0}, NEW n, n = IF c < 4 THEN c ELSE 4
    PROVE  /\ buttonClickAction(n) = buttonClickAction(c)
           /\ mapButtonActionByMode("scene", buttonClickAction(n)) =
                <<"scene5", "scene0", "scene18", "scene17">>[IF c > 4 THEN 4 ELSE c]
<1>1. CASE c = 1
    <2>1. n = 1 BY <1>1
    <2> QED BY <1>1, <2>1 DEF buttonClickAction, mapButtonActionByMode
<1>2. CASE c = 2
    <2>1. n = 2 BY <1>2
    <2> QED BY <1>2, <2>1 DEF buttonClickAction, mapButtonActionByMode
<1>3. CASE c = 3
    <2>1. n = 3 BY <1>3
    <2> QED BY <1>3, <2>1 DEF buttonClickAction, mapButtonActionByMode
<1>4. CASE c >= 4
    <2>1. n = 4 /\ ~ (n < 1) /\ ~ (n > 4) /\ ~ (c < 1) /\ (IF c > 4 THEN 4 ELSE c) = 4
        BY <1>4
    <2>2. buttonClickAction(n) = "tip4" /\ buttonClickAction(c) = "tip4"
        BY <1>4, <2>1 DEF buttonClickAction
    <2>3. mapButtonActionByMode("scene", "tip4") = "scene17"
        BY DEF mapButtonActionByMode
    <2> QED BY <2>1, <2>2, <2>3
<1> QED BY <1>1, <1>2, <1>3, <1>4

(* What a short press is called in the modes that do not count.            *)
LEMMA OtherNames ==
    /\ \A m, a : m # "scene" => mapButtonActionByMode(m, a) = a
    /\ buttonClickAction(1) = "tip"
BY DEF mapButtonActionByMode, buttonClickAction

(* The entry that the log has for a release, after a press of d.           *)
Entry(d, w) == [held |-> d, close |-> Aged(sinceLast, w) <= Window]

(* A long press: what it tells, and the end of any chain.                  *)
LEMMA LongRelease ==
    ASSUME ClickForm, ClickForm', NEW w \in Nat, NEW d \in Hold..Old,
           log' = Append(log, Entry(d, w)), out' = HoldActions(TheMode, d),
           count' = 0, UNCHANGED clickMode
    PROVE  Sequence' /\ ClicksAreRight'
<1> DEFINE k == buttonRepeatCount(d)
<1>1. /\ log' # <<>> /\ log'[Len(log')] = Entry(d, w) /\ Entry(d, w).held = d
    <2> DEFINE R == [held : 0..Old, close : BOOLEAN]
               e == Entry(d, w)
    <2>1. log \in Seq(R)
        BY DEF ClickForm
    <2>4. e \in R
        BY DEF Entry, Hold, Old
    <2>5. e.held = d
        BY DEF Entry
    <2> HIDE DEF R, e
    <2>6. Len(log) \in Nat
        BY <2>1, LenProperties
    <2>7. log' # <<>> /\ Len(log') = Len(log) + 1 /\ log'[Len(log) + 1] = e
        BY <2>1, <2>4, AppendProperties DEF e
    <2> QED BY <2>5, <2>7 DEF e
<1>2. ~ (d < Hold) /\ d >= Hold
    BY DEF Hold, Old
<1>3. Sequence'
    BY <1>1, <1>2 DEF Sequence
<1>4. TheMode \in {NoMode, "single", "dimmer", "scene", "default"}
    BY Modes6
<1>5. /\ TheMode \in {"scene", "single"} => Len(out') = 1 /\ DimsOf(out') = {}
      /\ TheMode = "dimmer" => Len(out') = k /\ DimsOf(out') = 1..k
      /\ TheMode \in {NoMode, "default"} => Len(out') = k + 1 /\ DimsOf(out') = 2..(k + 1)
    BY <1>4, HoldTells
<1>6. k \in 1..13 /\ k = (d - Hold) \div Repeat + 1
    BY RepeatCount
<1> HIDE DEF k
<1>7. Cardinality({}) = 0 /\ Cardinality(1..k) = k /\ Cardinality(2..(k + 1)) = k
    <2>1. 1 \in Int /\ 2 \in Int /\ k \in Int /\ k + 1 \in Int
        BY <1>6
    <2>2. Cardinality(1..k) = (IF 1 > k THEN 0 ELSE k - 1 + 1)
        BY <2>1, FS_Interval
    <2>3. Cardinality(2..(k + 1)) = (IF 2 > k + 1 THEN 0 ELSE (k + 1) - 2 + 1)
        BY <2>1, FS_Interval
    <2>4. Cardinality({}) = 0
        BY FS_EmptySet
    <2> QED BY <1>6, <2>2, <2>3, <2>4
<1>8. /\ TheMode \in {"scene", "single"} => DimsOf(out') = {}
      /\ TheMode \notin {"scene", "single"} => Cardinality(DimsOf(out')) = k
      /\ (TheMode = "dimmer") = (Len(out') = Cardinality(DimsOf(out')))
    <2>1. CASE TheMode \in {"scene", "single"}
        <3>1. Len(out') = 1 /\ DimsOf(out') = {} /\ Cardinality(DimsOf(out')) = 0
            BY <1>5, <1>7, <2>1
        <3>2. 1 # 0 /\ TheMode # "dimmer"
            BY <2>1
        <3> QED BY <2>1, <3>1, <3>2, Zenon
    <2>2. CASE TheMode = "dimmer"
        BY <1>5, <1>7, <2>2
    <2>3. CASE TheMode \in {NoMode, "default"}
        <3>1. Len(out') = k + 1 /\ Cardinality(DimsOf(out')) = k /\ k + 1 # k
            BY <1>5, <1>6, <1>7, <2>3
        <3> QED BY <2>3, <3>1, NoModeIsNone
    <2> QED BY <1>4, <2>1, <2>2, <2>3
<1>9. ClickTypeOK'
    <2>1. ClickForm' => ClickTypeOK'
        BY ClickTypes, PTL
    <2> QED BY <2>1
<1>10. normalizeButtonMode(clickMode') = TheMode
    BY DEF TheMode
<1>11. log'[Len(log')].held = d
    BY <1>1
<1> QED BY <1>2, <1>3, <1>6, <1>8, <1>9, <1>10, <1>11 DEF ClicksAreRight, DimsOf

(* A short press: its name, and the chain that it lengthens or begins.     *)
LEMMA ShortRelease ==
    ASSUME ClickForm, ClickForm', Sequence, NEW w \in Nat, NEW d \in 0..Old, d < Hold,
           log' = Append(log, Entry(d, w)), count' = ClickCount(TheMode, Aged(released, w)),
           released' = 0, sinceLast' = 0, UNCHANGED clickMode,
           out' = <<mapButtonActionByMode(TheMode, buttonClickAction(count'))>>
    PROVE  Sequence' /\ ClicksAreRight'
<1> DEFINE e == Entry(d, w)
           age == Aged(released, w)
           goesOn == log # <<>> /\ log[Len(log)].held < Hold /\ e.close
<1>1. /\ w \in Nat /\ age \in Never..Old /\ (age = Never <=> released = Never)
      /\ released > Window => age > Window
    <2>1. released \in Never..Old
        BY DEF ClickForm
    <2> QED BY <2>1, Ages
<1>2. e \in [held : 0..Old, close : BOOLEAN] /\ e.held = d
      /\ e.close = (Aged(sinceLast, w) <= Window) /\ Aged(sinceLast, w) \in 0..Old
    <2>1. sinceLast \in Never..Old /\ sinceLast # Never
        BY DEF ClickForm, Never
    <2>2. Aged(sinceLast, w) \in 0..Old
        BY <2>1, Ages
    <2> QED BY <2>2 DEF Entry
<1>3. log \in Seq([held : 0..Old, close : BOOLEAN])
    BY DEF ClickForm
<1>4. log' # <<>> /\ log'[Len(log')].held = d /\ Len(log') = Len(log) + 1 /\ Len(log) \in Nat
    <2> DEFINE R == [held : 0..Old, close : BOOLEAN]
    <2>1. log \in Seq(R) /\ e \in R /\ log' = Append(log, e)
        BY <1>2, <1>3
    <2> HIDE DEF R, e
    <2>2. Len(log) \in Nat
        BY <2>1, LenProperties
    <2>3. log' # <<>> /\ Len(log') = Len(log) + 1 /\ log'[Len(log) + 1] = e
        BY <2>1, AppendProperties
    <2> QED BY <1>2, <2>2, <2>3
<1>5. /\ TheMode' = TheMode /\ CountsChains' = CountsChains
      /\ TheMode \in {NoMode, "single", "dimmer", "scene", "default"}
    BY Modes6 DEF TheMode, CountsChains
<1> HIDE DEF e, age
<1>6. count' = IF TheMode \in {"single", "dimmer"} \/ age = Never \/ age > Window THEN 1
               ELSE IF count < 4 THEN count + 1 ELSE 4
    BY DEF ClickCount, age
<1>7. ASSUME CountsChains
      PROVE  \E c \in 1..Len(log') : Chains(log') = 1..c /\ count' = IF c < 4 THEN c ELSE 4
    <2>1. TheMode \notin {"single", "dimmer"}
        BY <1>7 DEF CountsChains
    <2>2. /\ ~ goesOn => Chains(log') = 1..1
          /\ \A c \in 1..Len(log) : goesOn /\ Chains(log) = 1..c => Chains(log') = 1..(c + 1)
        <3>1. log' = Append(log, e) /\ e.held < Hold
            BY <1>2 DEF e
        <3> QED BY <1>2, <1>3, <3>1, ChainGrows
    <2>3. count \in 0..4
        BY DEF ClickForm
    <2>4. CASE ~ goesOn
        <3>1. count' = 1
            <4>1. CASE log = <<>>
                <5>1. count = 0 \/ released = Never \/ released > Window
                    BY <4>1 DEF Sequence
                <5> QED BY <1>1, <1>6, <5>1
            <4>2. CASE log # <<>> /\ log[Len(log)].held >= Hold
                <5>1. count = 0
                    BY <4>2 DEF Sequence
                <5> QED BY <1>6, <5>1
            <4>3. CASE log # <<>> /\ log[Len(log)].held < Hold
                <5>1. released = sinceLast
                    BY <1>7, <4>3 DEF Sequence
                <5>2. e.close = (age <= Window) /\ age \in 0..Old
                    BY <1>2, <5>1 DEF age
                <5>3. \A n \in 0..Old : ~ (n <= Window) => n > Window
                    BY DEF Old, Window
                <5>4. ~ e.close
                    BY <2>4, <4>3
                <5>5. age > Window
                    BY <5>2, <5>3, <5>4, Zenon
                <5> QED BY <1>6, <5>5
            <4>4. log # <<>> => log[Len(log)].held < Hold \/ log[Len(log)].held >= Hold
                <5>1. log # <<>> => log[Len(log)].held \in 0..Old
                    <6> DEFINE R == [held : 0..Old, close : BOOLEAN]
                    <6>1. log \in Seq(R)
                        BY <1>3
                    <6> HIDE DEF R
                    <6>2. log # <<>> => Len(log) \in 1..Len(log)
                        BY <6>1, EmptySeq
                    <6>3. log # <<>> => log[Len(log)] \in R
                        BY <6>1, <6>2, ElementOfSeq
                    <6> QED BY <6>3 DEF R
                <5>2. \A n \in 0..Old : n < Hold \/ n >= Hold
                    BY DEF Hold, Old
                <5> QED BY <5>1, <5>2, Zenon
            <4> QED BY <4>1, <4>2, <4>3, <4>4
        <3>2. 1 \in 1..Len(log')
            BY <1>4
        <3>3. 1 = IF 1 < 4 THEN 1 ELSE 4
            OBVIOUS
        <3> QED BY <2>2, <2>4, <3>1, <3>2, <3>3
    <2>5. CASE goesOn
        <3>1. PICK c \in 1..Len(log) : Chains(log) = 1..c /\ count = IF c < 4 THEN c ELSE 4
            BY <1>7, <2>5 DEF Sequence
        <3>2. released = sinceLast
            BY <1>7, <2>5 DEF Sequence
        <3>3. age \in 0..Old /\ age <= Window
            BY <1>2, <2>5, <3>2 DEF age
        <3>4. age # Never /\ ~ (age > Window)
            <4>1. \A n \in 0..Old : n <= Window => n # Never /\ ~ (n > Window)
                BY DEF Never, Old, Window
            <4> QED BY <3>3, <4>1, Zenon
        <3>5. count' = IF count < 4 THEN count + 1 ELSE 4
            BY <1>6, <2>1, <3>4
        <3>6. count' = IF c + 1 < 4 THEN c + 1 ELSE 4
            BY <1>4, <3>1, <3>5
        <3>7. c + 1 \in 1..Len(log')
            BY <1>4
        <3>8. Chains(log') = 1..(c + 1)
            BY <2>2, <2>5, <3>1
        <3> QED BY <3>6, <3>7, <3>8
    <2> QED BY <2>4, <2>5
<1>8. Sequence'
    <2>1. ~ (d >= Hold)
        BY DEF Hold, Old
    <2> QED BY <1>4, <1>5, <1>7, <2>1 DEF Sequence
<1>9. /\ out'[1] = mapButtonActionByMode(TheMode, buttonClickAction(count')) /\ Len(out') = 1
    OBVIOUS
<1>10. TheMode \in {"single", "dimmer"} => out'[1] = "tip"
    BY <1>6, <1>9, OtherNames
<1>11. ASSUME CountsChains
       PROVE  /\ TheMode = "scene" => out'[1] =
                    <<"scene5", "scene0", "scene18", "scene17">>[IF Chain' > 4 THEN 4 ELSE Chain']
              /\ TheMode \in {NoMode, "default"} => out'[1] = buttonClickAction(Chain')
    <2>1. PICK c \in 1..Len(log') : Chains(log') = 1..c /\ count' = IF c < 4 THEN c ELSE 4
        BY <1>7, <1>11
    <2>2. c \in Nat \ {0}
        BY <1>4, <2>1
    <2>3. Chain' = c
        <3>1. Chain' = Cardinality(Chains(log'))
            BY DEF Chain, Chains
        <3>2. Cardinality(1..c) = IF 1 > c THEN 0 ELSE c - 1 + 1
            BY <2>2, FS_Interval
        <3> QED BY <2>1, <2>2, <3>1, <3>2
    <2>4. /\ buttonClickAction(count') = buttonClickAction(c)
          /\ mapButtonActionByMode("scene", buttonClickAction(count')) =
                <<"scene5", "scene0", "scene18", "scene17">>[IF c > 4 THEN 4 ELSE c]
        BY <2>1, <2>2, ClickNames
    <2>5. TheMode \in {NoMode, "default"} => TheMode # "scene"
        BY NoModeIsNone
    <2> QED BY <1>9, <2>3, <2>4, <2>5, OtherNames
<1>12. TheMode \in {NoMode, "default", "scene"} => CountsChains
    BY NoModeIsNone DEF CountsChains
<1>13. ClickTypeOK'
    <2>1. ClickForm' => ClickTypeOK'
        BY ClickTypes, PTL
    <2> QED BY <2>1
<1>14. normalizeButtonMode(clickMode') = TheMode
    BY DEF TheMode
<1>15. log'[Len(log')].held < Hold
    BY <1>4
<1>16. /\ Len(out') = 1
       /\ TheMode = "scene" => out'[1] =
             <<"scene5", "scene0", "scene18", "scene17">>[IF Chain' > 4 THEN 4 ELSE Chain']
       /\ TheMode \in {"single", "dimmer"} => out'[1] = "tip"
       /\ TheMode \in {NoMode, "default"} => out'[1] = buttonClickAction(Chain')
    BY <1>9, <1>10, <1>11, <1>12
<1>17. ClicksAreRight'
    BY <1>13, <1>14, <1>15, <1>16, Zenon DEF ClicksAreRight
<1> QED BY <1>8, <1>17

(* A release keeps it: a long press ends the chain, a short one adds to it. *)
LEMMA ReleaseStep ==
    ASSUME ClickInv, NEW w \in Presses, Release(w)
    PROVE  ClickInv'
<1> DEFINE d == Aged(pressed, w)
           age == Aged(released, w)
<1>1. ClickForm /\ PressTime /\ Sequence
    BY DEF ClickInv
<1>2. /\ pressed' = Never /\ downFor' = Never /\ said' = 0 /\ Repeated(pressed = Never)
      /\ seqMode' = IF pressed = Never THEN seqMode ELSE ModeOf
      /\ IF pressed = Never
           THEN out' = <<>> /\ released' = age /\ UNCHANGED count
           ELSE IF d >= Hold
           THEN out' = HoldActions(ModeOf, d) /\ count' = 0 /\ released' = age
           ELSE /\ count' = ClickCount(ModeOf, age) /\ released' = 0
                /\ out' = <<mapButtonActionByMode(ModeOf, buttonClickAction(count'))>>
      /\ log' = IF pressed = Never THEN log ELSE IF tainted = TRUE THEN <<>>
                ELSE Append(log, Entry(Aged(downFor, w), w))
      /\ sinceLast' = IF pressed = Never THEN Aged(sinceLast, w) ELSE 0
      /\ tainted' = FALSE
      /\ UNCHANGED <<clickMode, index>>
    BY <1>1 DEF Release, ClickForm, Entry
<1>3. w \in Nat
    BY ButtonModeAssumption
<1>4. TheMode' = TheMode /\ ModeOf = TheMode
    BY <1>1, <1>2, ModeInForce DEF TheMode, ClickForm
<1>5. /\ age \in Never..Old /\ (age = Never <=> released = Never)
      /\ released > Window => age > Window
    BY <1>1, <1>3, Ages DEF ClickForm
<1>6. d \in Never..Old /\ (pressed = Old => d = Old) /\ (pressed # Never => d \in 0..Old)
    <2>1. pressed \in Never..Old
        BY <1>1 DEF ClickForm
    <2> QED BY <1>3, <2>1, Ages
<1>7. /\ tainted = TRUE => pressed = Old
      /\ tainted = FALSE => Aged(downFor, w) = d /\ (pressed # Never => Len(log) < MaxPresses)
      /\ tainted \in BOOLEAN
    BY <1>1 DEF PressTime, ClickForm
<1>14. sinceLast' \in 0..Old
    <2>1. sinceLast \in Never..Old /\ sinceLast # Never /\ 0 \in 0..Old
        BY <1>1 DEF ClickForm, Never, Old
    <2> QED BY <1>2, <1>3, <2>1, Ages
<1>15. again' \in 0..MaxAgain /\ said' \in Values \cup {0}
    <2>1. again \in 0..MaxAgain /\ (pressed = Never) \in BOOLEAN
        BY <1>1 DEF ClickForm
    <2> QED BY <1>2, <2>1, CountedAgain
<1> HIDE DEF d, age
(* What all the cases have in common, given what they tell and count.      *)
<1>8. ASSUME Len(out') <= 2 + Old \div Repeat, count' \in 0..4, released' \in Never..Old,
             log' \in Seq([held : 0..Old, close : BOOLEAN]), Len(log') <= MaxPresses
      PROVE  ClickForm' /\ PressTime'
    <2>1. seqMode' \in {NoMode, TheMode'}
        BY <1>1, <1>2, <1>4 DEF ClickForm
    <2>2. pressed' \in Never..Old /\ downFor' \in Never..Old
        BY <1>2 DEF Never, Old
    <2>3. clickMode' \in Modes /\ index' \in {0, 1}
        BY <1>1, <1>2 DEF ClickForm
    <2>4. ClickForm'
        BY <1>2, <1>8, <1>14, <1>15, <2>1, <2>2, <2>3 DEF ClickForm
    <2>5. PressTime'
        BY <1>2 DEF PressTime
    <2> QED BY <2>4, <2>5
<1>9. ASSUME log' = <<>>
      PROVE  log' \in Seq([held : 0..Old, close : BOOLEAN]) /\ Len(log') <= MaxPresses
    <2>1. <<>> \in Seq([held : 0..Old, close : BOOLEAN]) /\ Len(<<>>) = 0
        OBVIOUS
    <2> QED BY <1>9, <2>1, ButtonModeAssumption
<1>10. ASSUME log' = Append(log, Entry(d, w)), d \in 0..Old, Len(log) < MaxPresses
       PROVE  log' \in Seq([held : 0..Old, close : BOOLEAN]) /\ Len(log') <= MaxPresses
    <2> DEFINE R == [held : 0..Old, close : BOOLEAN]
               e == Entry(d, w)
    <2>4. e \in R
        BY <1>10 DEF Entry
    <2>5. log \in Seq(R) /\ Len(log) < MaxPresses
        BY <1>1, <1>10 DEF ClickForm
    <2>6. log' = Append(log, e)
        BY <1>10
    <2> HIDE DEF R, e
    <2>7. log' \in Seq(R) /\ Len(log') = Len(log) + 1 /\ Len(log) \in Nat
        BY <2>4, <2>5, <2>6, AppendProperties, LenProperties
    <2>8. Len(log) + 1 <= MaxPresses
        BY <2>5, <2>7, ButtonModeAssumption
    <2> QED BY <2>7, <2>8 DEF R
<1>11. CASE pressed = Never
    <2>1. /\ log' = log /\ out' = <<>> /\ count' = count /\ released' = age
          /\ sinceLast' = Aged(sinceLast, w)
        BY <1>2, <1>11
    <2>2. Len(out') <= 2 + Old \div Repeat
        <3>1. Len(<<>>) = 0 /\ 0 <= 2 + Old \div Repeat
            BY DEF Old, Repeat
        <3> QED BY <2>1, <3>1
    <2>3. ClickForm' /\ PressTime'
        <3>1. /\ count' \in 0..4 /\ log' \in Seq([held : 0..Old, close : BOOLEAN])
              /\ Len(log') <= MaxPresses /\ released' \in Never..Old
            BY <1>1, <1>5, <2>1 DEF ClickForm
        <3> QED BY <1>8, <2>2, <3>1
    <2>4. Sequence'
        <3>1. log' = <<>> => count' = 0 \/ released' = Never \/ released' > Window
            BY <1>1, <1>5, <2>1 DEF Sequence
        <3>2. log' # <<>> /\ log'[Len(log')].held >= Hold => count' = 0
            BY <1>1, <2>1 DEF Sequence
        <3>3. log' # <<>> /\ log'[Len(log')].held < Hold /\ CountsChains' =>
                /\ released' = sinceLast'
                /\ \E c \in 1..Len(log') : Chains(log') = 1..c /\ count' = IF c < 4 THEN c ELSE 4
            BY <1>1, <1>4, <2>1 DEF Sequence, CountsChains, age
        <3> QED BY <3>1, <3>2, <3>3 DEF Sequence
    <2>5. ClicksAreRight'
        BY <2>1, <2>3, NothingToSay
    <2> QED BY <2>3, <2>4, <2>5 DEF ClickInv
<1>12. CASE pressed # Never /\ d >= Hold
    <2>1. d \in Hold..Old
        BY <1>6, <1>12 DEF Hold, Old, Never
    <2>2. out' = HoldActions(TheMode, d) /\ count' = 0 /\ released' = age
        BY <1>2, <1>4, <1>12
    <2>3. Len(out') <= 2 + Old \div Repeat
        <3>1. Len(HoldActions(TheMode, d)) \in 0..14
            BY <2>1, Modes6, HoldTells
        <3>2. \A n \in 0..14 : n <= 2 + Old \div Repeat
            BY DEF Old, Repeat
        <3> QED BY <2>2, <3>1, <3>2
    <2>4. CASE tainted = TRUE
        <3>1. log' = <<>>
            BY <1>2, <1>12, <2>4
        <3>2. ClickForm' /\ PressTime'
            BY <1>5, <1>8, <1>9, <2>2, <2>3, <3>1
        <3>3. Sequence'
            BY <2>2, <3>1 DEF Sequence
        <3>4. ClicksAreRight'
            BY <3>1, <3>2, NothingToSay
        <3> QED BY <3>2, <3>3, <3>4 DEF ClickInv
    <2>5. CASE tainted = FALSE
        <3>1. log' = Append(log, Entry(d, w)) /\ d \in 0..Old /\ Len(log) < MaxPresses
            BY <1>2, <1>6, <1>7, <1>12, <2>5
        <3>2. ClickForm' /\ PressTime'
            BY <1>5, <1>8, <1>10, <2>2, <2>3, <3>1
        <3>4. Sequence' /\ ClicksAreRight'
            BY <1>1, <1>2, <1>3, <2>1, <2>2, <3>1, <3>2, LongRelease
        <3> QED BY <3>2, <3>4 DEF ClickInv
    <2> QED BY <1>7, <2>4, <2>5
<1>13. CASE pressed # Never /\ ~ (d >= Hold)
    <2>1. tainted = FALSE
        <3>1. pressed = Old => d >= Hold
            BY <1>6 DEF Hold, Old
        <3> QED BY <1>7, <1>13, <3>1
    <2>2. d \in 0..Old /\ d < Hold
        <3>1. d \in 0..Old
            BY <1>6, <1>13
        <3> QED BY <1>13, <3>1 DEF Hold, Old
    <2>3. /\ count' = ClickCount(TheMode, age) /\ released' = 0
          /\ out' = <<mapButtonActionByMode(TheMode, buttonClickAction(count'))>>
          /\ log' = Append(log, Entry(d, w)) /\ Len(log) < MaxPresses /\ sinceLast' = 0
        BY <1>2, <1>4, <1>7, <1>13, <2>1
    <2>4. count' \in 0..4
        <3>1. count \in 0..4
            BY <1>1 DEF ClickForm
        <3> QED BY <2>3, <3>1 DEF ClickCount
    <2>5. Len(out') <= 2 + Old \div Repeat
        <3>1. \A a : Len(<<a>>) = 1
            OBVIOUS
        <3>2. 1 <= 2 + Old \div Repeat
            BY DEF Old, Repeat
        <3> QED BY <2>3, <3>1, <3>2
    <2>6. 0 \in Never..Old
        BY DEF Never, Old
    <2>7. ClickForm' /\ PressTime'
        BY <1>8, <1>10, <2>2, <2>3, <2>4, <2>5, <2>6
    <2>8. count' = ClickCount(TheMode, Aged(released, w))
        BY <2>3 DEF age
    <2>9. Sequence' /\ ClicksAreRight'
        BY <1>1, <1>2, <1>3, <2>2, <2>3, <2>7, <2>8, ShortRelease
    <2> QED BY <2>7, <2>9 DEF ClickInv
<1> QED BY <1>11, <1>12, <1>13

(* Every step of the connector keeps the invariant of the clicks.          *)
LEMMA ClickStep == ClickInv /\ [ClickNext]_clickVars => ClickInv'
<1> SUFFICES ASSUME ClickInv, [ClickNext]_clickVars PROVE ClickInv'
    OBVIOUS
<1>1. ASSUME UNCHANGED clickVars PROVE ClickInv'
    <2>1. UNCHANGED <<clickMode, index, pressed, released, count, seqMode, out, said, downFor, log,
                      sinceLast, again, tainted>>
        BY <1>1 DEF clickVars, buttonState
    <2>2. TheMode' = TheMode /\ CountsChains' = CountsChains
        BY <2>1 DEF TheMode, CountsChains
    <2>3. ClickForm'
        BY <2>1, <2>2 DEF ClickInv, ClickForm
    <2>4. PressTime' /\ Sequence'
        BY <2>1, <2>2 DEF ClickInv, PressTime, Sequence
    <2>5. ClicksAreRight'
        <3>1. ClickTypeOK' /\ Chain' = Chain
            BY <2>1 DEF ClickInv, ClicksAreRight, ClickTypeOK, Chain
        <3> QED BY <2>1, <3>1, Zenon DEF ClickInv, ClicksAreRight
    <2> QED BY <2>3, <2>4, <2>5 DEF ClickInv
<1> QED BY <1>1, PressStep, ReleaseStep, NewConnectionStep, ByeAndHelloStep DEF ClickNext

(***************************************************************************)
(* End devices: a lamp behind a plugin (LightPlugins). First what the      *)
(* messages are and what the plugins' conversions make of them, then the   *)
(* colours, then the invariant and the steps.                              *)
(***************************************************************************)
(* A colour as the device tells it: three bytes for WLED, hue and          *)
(* saturation for the others.                                              *)
AShade(c) == c \in (IF plugin = "wled" THEN (0..255) \X (0..255) \X (0..255)
                    ELSE (0..360) \X (0..100))

(* A report, or a status, with fields of the lamp at hand.                 *)
AReport(r) ==
    /\ DOMAIN r \subseteq Known
    /\ Says(r, "on") => r.on \in BOOLEAN
    /\ Says(r, "bri") => r.bri \in 1..BriMax
    /\ Says(r, "col") => AShade(r.col)
(* Tasmota tells of its switch in a message of its own.                    *)
APower(r) == plugin = "tasmota" /\ DOMAIN r = {"power"} /\ r.power \in BOOLEAN
(* What the plugin receives of the lamp.                                   *)
AMessage(r) ==
    CASE plugin \in {"zigbee2mqtt", "wled"} -> AReport(r) /\ DOMAIN r = Known
      [] plugin = "homeassistant" -> AReport(r) /\ Says(r, "on") /\ (r.on => DOMAIN r = Known)
      [] plugin = "shelly" -> AReport(r)
      [] plugin = "tasmota" -> AReport(r) \/ APower(r)

(* A lamp that the plugins know, and what the bridge knows of it: of one   *)
(* behind Zigbee2MQTT possibly nothing yet.                                *)
LampBase ==
    /\ plugin \in {"zigbee2mqtt", "tasmota", "homeassistant", "shelly", "wled"}
    /\ feats \in {{}, {"bri"}, {"bri", "colour"}}
    /\ plugin = "wled" => feats = {"bri", "colour"}
    /\ plugin = "shelly" => "colour" \notin feats
    /\ ep \in {{}, feats} /\ (ep # feats => plugin = "zigbee2mqtt")

(* Whether a report says something of the level, and whether the lamp is   *)
(* lit.                                                                    *)
LevelSaid(r) == Says(r, "power") \/ Says(r, "on") \/ Says(r, "bri")
LitSaid(r) == IF Says(r, "power") THEN r.power ELSE IF Says(r, "on") THEN r.on ELSE TRUE
(* The channels, and the plugin's cache of the colour.                     *)
ChanForm(c) == DOMAIN c = 0..2 /\ c[0] \in 0..Full /\ c[1] \in 0..360 /\ c[2] \in 0..100
CacheForm(c) == c \in (0..360) \X (0..100)

(* The plugins mean the same by full, and by nothing said.                 *)
LEMMA FullEq ==
    /\ Z!Full = Full /\ T!Full = Full /\ H!Full = Full /\ S!Full = Full /\ W!Full = Full
    /\ Z!Nothing = Nothing /\ T!Nothing = Nothing /\ H!Nothing = Nothing /\ S!Nothing = Nothing
BY DEF Z!Full, T!Full, H!Full, S!Full, W!Full, Full, Nothing, Z!Nothing, T!Nothing, H!Nothing,
       S!Nothing

(* A brightness of 1..255 is a level of the host that is not 0.            *)
LEMMA Level255 == \A b \in 1..255 : (b * 10000) \div 255 \in 1..Full
BY SMT DEF Full

(* The same, in the form in which the channel of the level takes it.       *)
LEMMA LevelRange == \A b \in 1..255 : (b * 10000) \div 255 \in 0..Full /\ (b * 10000) \div 255 # 0
BY SMT DEF Full

(* FromBri of Zigbee2MQTT and of WLED is the brightness in the level's     *)
(* hundredths of a percent, or 0.                                          *)
LEMMA BriLevel ==
    ASSUME NEW b \in 1..255, NEW on \in BOOLEAN
    PROVE  LET level == IF ~ on THEN 0 ELSE (b * 10000) \div 255
           IN  Z!FromBri(b, on) = level /\ W!FromBri(b, on) = level /\ level \in 0..Full
<1>1. (b * 10000) \div 255 \in 0..10000
  BY LevelRange, SMT DEF Full
<1>2. CASE on
  BY <1>1, <1>2, SMT DEF Z!FromBri, W!FromBri, Z!Clamp, W!Clamp, Z!Full, W!Full, Full
<1>3. CASE ~ on
  BY <1>3, SMT DEF Z!FromBri, W!FromBri, Full
<1> QED BY <1>2, <1>3

(* What is written over the channels prevails, channel by channel.         *)
LEMMA Over ==
    ASSUME NEW u, NEW c, DOMAIN c = 0..2, DOMAIN u \subseteq 0..2
    PROVE  /\ DOMAIN (u ++ c) = 0..2
           /\ \A ch \in 0..2 : (u ++ c)[ch] = IF ch \in DOMAIN u THEN u[ch] ELSE c[ch]
BY DEF ++

(* A message of Zigbee2MQTT (channelUpdates of zigbee2mqtt.go) sets the    *)
(* channels of what the bridge knows the lamp can do.                      *)
LEMMA HandlesZigbee ==
    ASSUME LampBase, ChanForm(chan), CacheForm(cache), plugin = "zigbee2mqtt", NEW r, AMessage(r),
           NEW st, Handle(UpdatesOf(r, st))
    PROVE  /\ ChanForm(chan') /\ CacheForm(cache')
           /\ chan'[0] = (IF ~ r.on THEN 0
                  ELSE IF "bri" \in ep THEN (r.bri * 10000) \div 255 ELSE Full)
           /\ "colour" \in ep => <<chan'[1], chan'[2]>> = r.col /\ cache' = r.col
<1> DEFINE u == Z!Updates(ep, r)
           level == IF ~ r.on THEN 0 ELSE IF "bri" \in ep THEN (r.bri * 10000) \div 255 ELSE Full
<1>1. chan' = u ++ chan /\ cache' = (IF 1 \in DOMAIN u THEN <<u[1], u[2]>> ELSE cache)
  BY DEF Handle, UpdatesOf
<1>2. DOMAIN r = Known /\ AReport(r) /\ BriMax = 254
  BY DEF AMessage, BriMax
<1>3. /\ "on" \in DOMAIN r /\ r.on \in BOOLEAN
      /\ "bri" \in ep => "bri" \in DOMAIN r /\ r.bri \in 1..255
      /\ "colour" \in ep => "col" \in DOMAIN r /\ r.col \in (0..360) \X (0..100)
  BY <1>2 DEF AReport, Known, Says, LampBase, AShade
<1>4. level \in 0..Full
  <2>1. CASE "bri" \in ep
    BY <1>3, <2>1, BriLevel
  <2>2. CASE "bri" \notin ep
    BY <1>3, <2>2 DEF Full
  <2> QED BY <2>1, <2>2
<1>5. DOMAIN u = (IF "colour" \in ep THEN 0..2 ELSE {0}) /\ u[0] = level
      /\ ("colour" \in ep => u[1] = r.col[1] /\ u[2] = r.col[2])
  <2>1. Z!FromColour(ep, r) = IF "colour" \in ep THEN [c \in {1, 2} |-> (r.col)[c]] ELSE Nothing
    BY <1>3, FullEq DEF Z!FromColour, Z!Says
  <2>2. Z!FromBrightness(ep, r) = IF "bri" \in ep THEN [c \in {0} |-> level] ELSE Nothing
    <3>1. CASE "bri" \in ep
      <4>1. Z!FromBri(r.bri, r.on) = level
        BY <1>3, <3>1, BriLevel
      <4>2. Z!IsOn(r) = r.on
        BY <1>3 DEF Z!IsOn, Z!Says
      <4> QED BY <1>3, <3>1, <4>1, <4>2 DEF Z!FromBrightness, Z!Says
    <3> QED BY <3>1, FullEq DEF Z!FromBrightness
  <2>3. Z!FromState(ep, r) = IF ~ r.on \/ "bri" \notin ep THEN [c \in {0} |-> level] ELSE Nothing
    BY <1>3, FullEq DEF Z!FromState, Z!Says
  <2>4. u = Z!FromColour(ep, r) ++ Z!FromBrightness(ep, r) ++ Z!FromState(ep, r)
    BY DEF Z!Updates, Z!++, ++
  <2> HIDE DEF u, level
  <2>5. \A a, b : DOMAIN (a ++ b) = DOMAIN a \cup DOMAIN b
                /\ \A x \in DOMAIN (a ++ b) : (a ++ b)[x] = IF x \in DOMAIN a THEN a[x] ELSE b[x]
    BY DEF ++
  <2>6. "colour" \in ep => "bri" \in ep
    BY DEF LampBase
  <2> QED BY <2>1, <2>2, <2>3, <2>4, <2>6 DEF ++, Nothing
<1> HIDE DEF u, level
<1>6. /\ DOMAIN chan' = 0..2
      /\ \A ch \in 0..2 : chan'[ch] = IF ch \in DOMAIN u THEN u[ch] ELSE chan[ch]
  <2>1. DOMAIN u \subseteq 0..2
    BY <1>5
  <2> QED BY <1>1, <2>1, Over DEF ChanForm
<1>7. CASE "colour" \in ep
  BY <1>1, <1>3, <1>4, <1>5, <1>6, <1>7 DEF ChanForm, CacheForm, level
<1>8. CASE "colour" \notin ep
  BY <1>1, <1>3, <1>4, <1>5, <1>6, <1>8 DEF ChanForm, CacheForm, level
<1> QED BY <1>7, <1>8

(* A dimmer's percent as a level.                                          *)
LEMMA PercentRange == \A b \in 1..100 : 100 * b \in 1..Full /\ b * 100 = 100 * b
BY SMT DEF Full

(* The dimmer of Tasmota as a level.                                       *)
LEMMA DimmerLevel ==
    ASSUME NEW b \in 1..100, NEW on \in BOOLEAN
    PROVE  LET level == IF ~ on THEN 0 ELSE 100 * b
           IN  T!FromDimmer(b, on) = level /\ level \in 0..Full
<1>1. CASE on
  BY <1>1, SMT DEF T!FromDimmer, T!Clamp, T!Full, Full
<1>2. CASE ~ on
  BY <1>2, SMT DEF T!FromDimmer, Full
<1> QED BY <1>1, <1>2

(* A level within its range is not clamped.                                *)
LEMMA ClampStays == \A q \in 0..Full : H!Clamp(q, 0, H!Full) = q /\ S!Clamp(q, 0, S!Full) = q
BY DEF H!Clamp, S!Clamp, H!Full, S!Full, Full

(* A message of Tasmota sets the channels that it has fields for, and a    *)
(* bare POWER message keeps the level of a lamp that is lit.               *)
LEMMA HandlesTasmota ==
    ASSUME LampBase, ChanForm(chan), CacheForm(cache), plugin = "tasmota", NEW r, AMessage(r),
           NEW st, Handle(UpdatesOf(r, st))
    PROVE  /\ ChanForm(chan') /\ CacheForm(cache')
           /\ chan'[0] = (IF ~ LevelSaid(r) THEN chan[0] ELSE IF ~ LitSaid(r) THEN 0
                          ELSE IF Says(r, "bri") THEN 100 * r.bri ELSE Full)
           /\ IF Says(r, "col") THEN <<chan'[1], chan'[2]>> = r.col /\ cache' = r.col
              ELSE chan'[1] = chan[1] /\ chan'[2] = chan[2] /\ cache' = cache
<1> DEFINE u == IF Says(r, "power") THEN T!PowerUpdates(r.power) ELSE T!Updates(ep, r)
           level == IF ~ LitSaid(r) THEN 0 ELSE IF Says(r, "bri") THEN 100 * r.bri ELSE Full
<1>1. chan' = u ++ chan /\ cache' = (IF 1 \in DOMAIN u THEN <<u[1], u[2]>> ELSE cache)
  BY DEF Handle, UpdatesOf
<1>2. ep = feats /\ BriMax = 100
  BY DEF LampBase, BriMax
<1>3. \/ DOMAIN r = {"power"} /\ r.power \in BOOLEAN
      \/ AReport(r)
  BY DEF AMessage, APower
<1>4. AReport(r) =>
      /\ ~ Says(r, "power")
      /\ Says(r, "on") => r.on \in BOOLEAN
      /\ Says(r, "bri") => r.bri \in 1..100 /\ "bri" \in ep
      /\ Says(r, "col") => r.col \in (0..360) \X (0..100) /\ "colour" \in ep
      /\ DOMAIN r \subseteq {"on", "bri", "col"}
  BY <1>2 DEF AReport, Known, Says, LampBase, AShade
<1>5. LitSaid(r) \in BOOLEAN /\ level \in 0..Full
  <2>1. LitSaid(r) \in BOOLEAN
    BY <1>3, <1>4 DEF LitSaid, Says
  <2>2. CASE LitSaid(r) /\ Says(r, "bri")
    <3>1. r.bri \in 1..100
      BY <1>3, <1>4, <2>2 DEF Says
    <3> QED BY <2>1, <2>2, <3>1, DimmerLevel
  <2>3. CASE ~ (LitSaid(r) /\ Says(r, "bri"))
    BY <2>1, <2>3 DEF Full
  <2> QED BY <2>1, <2>2, <2>3
<1>6. /\ DOMAIN u = (IF LevelSaid(r) THEN {0} ELSE {}) \cup (IF Says(r, "col") THEN {1, 2}
             ELSE {})
      /\ LevelSaid(r) => u[0] = level
      /\ Says(r, "col") => u[1] = r.col[1] /\ u[2] = r.col[2]
  <2>1. CASE Says(r, "power")
    <3>1. DOMAIN r = {"power"} /\ r.power \in BOOLEAN
      BY <1>3, <1>4, <2>1
    <3>2. u = [c \in {0} |-> level]
      BY <2>1, <3>1 DEF T!PowerUpdates, LitSaid, Says, T!Full, Full
    <3> QED BY <2>1, <3>1, <3>2 DEF LevelSaid, Says
  <2>2. CASE ~ Says(r, "power")
    <3>0. AReport(r)
      BY <1>3, <2>2 DEF Says
    <3>1. T!FromColour(ep, r) = IF Says(r, "col") THEN [c \in {1, 2} |-> (r.col)[c]] ELSE Nothing
      BY <3>0, <1>4, FullEq DEF T!FromColour, T!Says, Says
    <3>2. T!FromLevel(ep, r) = IF Says(r, "bri") THEN [c \in {0} |-> level] ELSE Nothing
      <4>1. CASE Says(r, "bri")
        <5>1. T!IsOn(r) = LitSaid(r)
          BY <3>0, <1>4, <2>2 DEF T!IsOn, T!Says, Says, LitSaid
        <5>2. r.bri \in 1..100 /\ "bri" \in ep
          BY <3>0, <1>4, <4>1
        <5>4. T!FromDimmer(r.bri, LitSaid(r)) = level
          BY <4>1, <5>2, <1>5, DimmerLevel
        <5> QED BY <4>1, <5>1, <5>2, <5>4 DEF T!FromLevel, T!Says, Says
      <4>2. CASE ~ Says(r, "bri")
        BY <4>2, FullEq DEF T!FromLevel, T!Says, Says
      <4> QED BY <4>1, <4>2
    <3>3. T!FromPower(ep, r) = IF Says(r, "on") /\ (~ r.on \/ ~ Says(r, "bri"))
                                THEN [c \in {0} |-> level] ELSE Nothing
      BY <3>0, <1>4, <2>2, FullEq DEF T!FromPower, T!Says, Says, LitSaid
    <3>4. u = T!FromColour(ep, r) ++ T!FromLevel(ep, r) ++ T!FromPower(ep, r)
      BY <2>2 DEF T!Updates, T!++, ++
    <3>5. LevelSaid(r) = (Says(r, "on") \/ Says(r, "bri"))
      BY <2>2 DEF LevelSaid
    <3> HIDE DEF u, level
    <3> QED BY <3>1, <3>2, <3>3, <3>4, <3>5 DEF ++, Nothing
  <2> QED BY <2>1, <2>2
<1> HIDE DEF u, level
<1>7. /\ DOMAIN chan' = 0..2
      /\ \A ch \in 0..2 : chan'[ch] = IF ch \in DOMAIN u THEN u[ch] ELSE chan[ch]
  <2>1. DOMAIN u \subseteq 0..2
    BY <1>6
  <2> QED BY <1>1, <2>1, Over DEF ChanForm
<1>8. chan'[0] = (IF ~ LevelSaid(r) THEN chan[0] ELSE level) /\ chan'[0] \in 0..Full
  BY <1>5, <1>6, <1>7 DEF ChanForm
<1>9. CASE Says(r, "col")
  <2>1. r.col \in (0..360) \X (0..100)
    BY <1>3, <1>4, <1>9 DEF Says
  <2> QED BY <1>1, <1>6, <1>7, <1>8, <1>9, <2>1 DEF ChanForm, CacheForm, level
<1>10. CASE ~ Says(r, "col")
  BY <1>1, <1>6, <1>7, <1>8, <1>10 DEF ChanForm, CacheForm, level
<1> QED BY <1>9, <1>10

(* A state of Home Assistant sets the level, and the colour of a lamp that *)
(* is on.                                                                  *)
LEMMA HandlesHA ==
    ASSUME LampBase, ChanForm(chan), CacheForm(cache), plugin = "homeassistant", NEW r,
           AMessage(r),
           Handle(UpdatesOf(r, r))
    PROVE  /\ ChanForm(chan') /\ CacheForm(cache')
           /\ chan'[0] = (IF ~ r.on THEN 0
                  ELSE IF "bri" \in feats THEN (r.bri * 10000) \div 255 ELSE Full)
           /\ "colour" \in feats /\ r.on => <<chan'[1], chan'[2]>> = r.col /\ cache' = r.col
<1> DEFINE u == H!Updates(ep, r)
           level == IF ~ r.on THEN 0
               ELSE IF "bri" \in feats THEN (r.bri * 10000) \div 255 ELSE Full
<1>1. chan' = u ++ chan /\ cache' = (IF 1 \in DOMAIN u THEN <<u[1], u[2]>> ELSE cache)
  BY DEF Handle, UpdatesOf
<1>2. ep = feats /\ BriMax = 255 /\ "on" \in DOMAIN r /\ r.on \in BOOLEAN /\ AReport(r)
      /\ (r.on => DOMAIN r = Known)
  BY DEF LampBase, BriMax, AMessage, AReport, Says
<1>3. /\ r.on => ("bri" \in feats <=> "bri" \in DOMAIN r)
             /\ ("colour" \in feats <=> "col" \in DOMAIN r)
      /\ "bri" \in DOMAIN r => r.bri \in 1..255
      /\ "col" \in DOMAIN r => r.col \in (0..360) \X (0..100)
  BY <1>2 DEF AReport, Known, Says, LampBase, AShade
<1>4. level \in 0..Full /\ H!Level(r) = level
  <2>1. CASE ~ r.on
    BY <2>1 DEF Full, H!Level
  <2>2. CASE r.on /\ "bri" \in feats
    <3>1. r.bri \in 1..255 /\ "bri" \in DOMAIN r
      BY <1>3, <2>2
    <3>2. (r.bri * 10000) \div 255 \in 0..Full
      BY <3>1, LevelRange
    <3>3. H!Clamp((r.bri * 10000) \div 255, 0, H!Full) = (r.bri * 10000) \div 255
      BY <3>2, ClampStays
    <3>4. H!Level(r) = (r.bri * 10000) \div 255
      BY <2>2, <3>1, <3>3 DEF H!Level, H!Says
    <3> QED BY <2>2, <3>2, <3>4
  <2>3. CASE r.on /\ "bri" \notin feats
    <3>1. "bri" \notin DOMAIN r
      BY <1>3, <2>3
    <3> QED BY <2>3, <3>1 DEF Full, H!Level, H!Says, H!Full
  <2> QED BY <2>1, <2>2, <2>3, <1>2
<1>5. u = [c \in {0} |-> level] ++
            (IF "colour" \in feats /\ r.on THEN [c \in {1, 2} |-> (r.col)[c]] ELSE Nothing)
  <2>1. H!Updates(ep, r) = [c \in {0} |-> level] ++ (IF "colour" \in feats THEN H!HueSat(r)
            ELSE Nothing)
    BY <1>2, <1>4, FullEq DEF H!Updates, H!++, ++
  <2>2. "colour" \in feats => H!HueSat(r) = IF r.on THEN [c \in {1, 2} |-> (r.col)[c]]
            ELSE Nothing
    BY <1>2, <1>3, FullEq DEF H!HueSat, H!Says
  <2> HIDE DEF level
  <2>3. CASE "colour" \in feats
    BY <2>1, <2>2, <2>3
  <2>4. CASE "colour" \notin feats
    BY <2>1, <2>4
  <2> QED BY <2>3, <2>4
<1> HIDE DEF u, level
<1>6. /\ DOMAIN u = (IF "colour" \in feats /\ r.on THEN 0..2 ELSE {0}) /\ u[0] = level
      /\ "colour" \in feats /\ r.on => u[1] = r.col[1] /\ u[2] = r.col[2]
  <2>1. CASE "colour" \in feats /\ r.on
    <3>1. u = [c \in {0} |-> level] ++ [c \in {1, 2} |-> (r.col)[c]]
      BY <1>5, <2>1
    <3> QED BY <2>1, <3>1 DEF ++
  <2>2. CASE ~ ("colour" \in feats /\ r.on)
    <3>1. u = [c \in {0} |-> level] ++ Nothing
      BY <1>5, <2>2
    <3> QED BY <2>2, <3>1 DEF ++, Nothing
  <2> QED BY <2>1, <2>2
<1>7. /\ DOMAIN chan' = 0..2
      /\ \A ch \in 0..2 : chan'[ch] = IF ch \in DOMAIN u THEN u[ch] ELSE chan[ch]
  <2>1. DOMAIN u \subseteq 0..2
    BY <1>6
  <2> QED BY <1>1, <2>1, Over DEF ChanForm
<1>8. CASE "colour" \in feats /\ r.on
  <2>1. r.col \in (0..360) \X (0..100)
    BY <1>3, <1>8
  <2> QED BY <1>1, <1>4, <1>6, <1>7, <1>8, <2>1 DEF ChanForm, CacheForm, level
<1>9. CASE ~ ("colour" \in feats /\ r.on)
  BY <1>1, <1>4, <1>6, <1>7, <1>9 DEF ChanForm, CacheForm, level
<1> QED BY <1>8, <1>9

(* A state of WLED sets all three channels.                                *)
LEMMA HandlesWled ==
    ASSUME LampBase, ChanForm(chan), CacheForm(cache), plugin = "wled", NEW r, AMessage(r),
           NEW st, Handle(UpdatesOf(r, st)), CacheForm(W!HueSat(r.col))
    PROVE  /\ ChanForm(chan') /\ cache' = cache
           /\ chan'[0] = (IF ~ r.on THEN 0 ELSE (r.bri * 10000) \div 255)
           /\ <<chan'[1], chan'[2]>> = W!HueSat(r.col)
<1> DEFINE u == W!Updates(r)
           level == IF ~ r.on THEN 0 ELSE (r.bri * 10000) \div 255
           hs == W!HueSat(r.col)
<1>1. chan' = u ++ chan /\ cache' = cache
  BY DEF Handle, UpdatesOf
<1>2. r.on \in BOOLEAN /\ r.bri \in 1..255
  BY DEF AMessage, AReport, Known, Says, LampBase, BriMax
<1>3. level \in 0..Full /\ W!FromBri(r.bri, r.on) = level
  BY <1>2, BriLevel
<1> HIDE DEF level
<1>4. u = [c \in {0} |-> level] ++ [c \in {1, 2} |-> hs[c]]
  BY <1>3 DEF W!Updates, W!++, ++
<1> HIDE DEF hs, u
<1>5. hs \in (0..360) \X (0..100)
  BY DEF hs, CacheForm
<1>6. DOMAIN u = 0..2 /\ u[0] = level /\ u[1] = hs[1] /\ u[2] = hs[2]
  BY <1>4 DEF ++
<1>7. /\ DOMAIN chan' = 0..2
      /\ \A ch \in 0..2 : chan'[ch] = IF ch \in DOMAIN u THEN u[ch] ELSE chan[ch]
  <2>1. DOMAIN u \subseteq 0..2
    BY <1>6
  <2> QED BY <1>1, <2>1, Over DEF ChanForm
<1>8. chan'[0] = level /\ chan'[1] = hs[1] /\ chan'[2] = hs[2]
  BY <1>6, <1>7
<1>9. <<chan'[1], chan'[2]>> = hs /\ ChanForm(chan')
  BY <1>3, <1>5, <1>7, <1>8 DEF ChanForm
<1> QED BY <1>1, <1>8, <1>9 DEF level, hs

(* The level that a status of Shelly is shown as.                          *)
ShownBy(st) == IF ~ st.on THEN 0 ELSE IF Says(st, "bri") THEN st.bri ELSE Full

(* The merged status of Shelly sets the level, once it says whether the    *)
(* lamp is on.                                                             *)
LEMMA HandlesShelly ==
    ASSUME LampBase, ChanForm(chan), plugin = "shelly", NEW st, AReport(st),
           Handle(S!Updates(ep, st))
    PROVE  /\ ChanForm(chan') /\ cache' = cache
           /\ chan'[0] = IF ~ Says(st, "on") THEN chan[0] ELSE ShownBy(st)
<1> DEFINE u == S!Updates(ep, st)
<1>1. chan' = u ++ chan /\ cache' = (IF 1 \in DOMAIN u THEN <<u[1], u[2]>> ELSE cache)
  BY DEF Handle
<1>2. ep = feats /\ BriMax = Full
  BY DEF LampBase, BriMax
<1>3. CASE Says(st, "on")
  <2>1. st.on \in BOOLEAN /\ (Says(st, "bri") => st.bri \in 1..Full /\ "bri" \in feats)
    BY <1>2, <1>3 DEF AReport, Known, Says, LampBase
  <2>2. ShownBy(st) \in 0..Full
    <3>1. CASE ~ st.on
      BY <3>1 DEF ShownBy, Full
    <3>2. CASE st.on /\ Says(st, "bri")
      <4>1. ShownBy(st) = st.bri
        BY <3>2 DEF ShownBy
      <4>2. PICK b \in 1..Full : b = st.bri
        BY <2>1, <3>2
      <4>3. b \in 0..Full
        BY SMT DEF Full
      <4> QED BY <4>1, <4>2, <4>3
    <3>3. CASE st.on /\ ~ Says(st, "bri")
      <4>1. ShownBy(st) = Full
        BY <3>3 DEF ShownBy
      <4> QED BY <4>1 DEF Full
    <3> QED BY <2>1, <3>1, <3>2, <3>3
  <2>3. u = [c \in {0} |-> ShownBy(st)]
    <3>1. CASE feats = {}
      <4>1. S!SwitchValue(st) = ShownBy(st)
        BY <2>1, <3>1, FullEq DEF ShownBy, S!SwitchValue
      <4> QED BY <1>2, <1>3, <3>1, <4>1 DEF S!Updates, S!Says, Says
    <3>2. CASE feats # {}
      <4>0. Says(st, "bri") => S!Clamp(st.bri, 0, S!Full) = st.bri
        <5> SUFFICES ASSUME Says(st, "bri") PROVE S!Clamp(st.bri, 0, S!Full) = st.bri
          OBVIOUS
        <5>1. st.bri \in 0..Full
          BY <2>1
        <5> QED BY <5>1, ClampStays
      <4>1. S!LightValue(st) = ShownBy(st)
        BY <4>0, FullEq DEF ShownBy, S!LightValue, S!Says, Says
      <4> QED BY <1>2, <1>3, <3>2, <4>1 DEF S!Updates, S!Says, Says
    <3> QED BY <3>1, <3>2
  <2> HIDE DEF u
  <2>4. DOMAIN u = {0} /\ u[0] = ShownBy(st) /\ 1 \notin DOMAIN u
    BY <2>3
  <2>5. /\ DOMAIN chan' = 0..2
        /\ \A ch \in 0..2 : chan'[ch] = IF ch \in DOMAIN u THEN u[ch] ELSE chan[ch]
    <3>1. DOMAIN u \subseteq 0..2
      BY <2>4
    <3> QED BY <1>1, <3>1, Over DEF ChanForm
  <2> QED BY <1>1, <1>3, <2>2, <2>4, <2>5 DEF ChanForm
<1>4. CASE ~ Says(st, "on")
  <2>1. u = Nothing
    BY <1>4, FullEq DEF S!Updates, S!Says, Says
  <2> HIDE DEF u
  <2>4. DOMAIN u = {} /\ 1 \notin DOMAIN u
    BY <2>1 DEF Nothing
  <2>5. /\ DOMAIN chan' = 0..2
        /\ \A ch \in 0..2 : chan'[ch] = IF ch \in DOMAIN u THEN u[ch] ELSE chan[ch]
    <3>1. DOMAIN u \subseteq 0..2
      BY <2>4
    <3> QED BY <1>1, <3>1, Over DEF ChanForm
  <2>6. \A ch \in 0..2 : chan'[ch] = chan[ch]
    BY <2>4, <2>5
  <2>7. ChanForm(chan')
    BY <2>5, <2>6 DEF ChanForm
  <2>8. chan'[0] = chan[0] /\ cache' = cache
    BY <1>1, <2>4, <2>6
  <2> QED BY <1>4, <2>7, <2>8
<1> QED BY <1>3, <1>4

(* A part of a colour: t sixtieths between the least and the full one.     *)
Part(t, s) == ((t * s + (100 - s) * 60) * 255 + 3000) \div 6000

(* Multiplication by a number that is not negative is monotonic.           *)
LEMMA Mono == ASSUME NEW a \in Int, NEW b \in Int, NEW t \in Nat, a <= b PROVE t * a <= t * b
BY SMT

(* The parts of a colour of saturation s: O the least, X the one between,  *)
(* which is t sixtieths of the way from O to full.                         *)
Fits(t, s, X, O) ==
    /\ t \in 0..60 /\ X \in 0..255 /\ O \in 0..255 /\ O <= X
    /\ 255 * s - 50 <= 100 * (255 - O) /\ 100 * (255 - O) <= 255 * s + 50
    /\ 60 * (X - O) - t * (255 - O) \in -60..60

(* A place in a sixth of the colour circle, and a saturation.              *)
AShare(t, s) == t \in 0..60 /\ s \in 0..100

(* The full and the least part of a colour fit its saturation, and the     *)
(* part between them its hue.                                              *)
LEMMA Parts ==
  ASSUME NEW t, NEW s, AShare(t, s)
  PROVE  Part(60, s) = 255 /\ Fits(t, s, Part(t, s), Part(0, s))
<1>0. t \in 0..60 /\ s \in 0..100
  BY DEF AShare
<1> USE <1>0
<1> DEFINE X == Part(t, s)  O == Part(0, s)
<1>1. t * s \in 0..6000 /\ t * s <= 60 * s /\ t * s >= 0
  BY SMT
<1> DEFINE p == t * s
<1>2. p \in 0..6000 /\ p = t * s /\ p <= 60 * s
  BY <1>1, SMT
<1> HIDE DEF p
<1>3. X = ((p + (100 - s) * 60) * 255 + 3000) \div 6000
  BY <1>2, SMT DEF Part
<1>4. O = ((100 - s) * 15300 + 3000) \div 6000
  BY SMT DEF Part
<1>5. X \in Int /\ 6000 * X <= (p + (100 - s) * 60) * 255 + 3000
          /\ (p + (100 - s) * 60) * 255 + 3000 < 6000 * X + 6000
  BY <1>3, <1>2, SMT
<1>6. O \in Int /\ 6000 * O <= (100 - s) * 15300 + 3000
          /\ (100 - s) * 15300 + 3000 < 6000 * O + 6000
  BY <1>4, SMT
<1> HIDE DEF X, O
<1>a. O <= X
  BY <1>2, <1>5, <1>6, SMT
<1>b. X <= 255
  BY <1>2, <1>5, SMT
<1>c. 0 <= O
  BY <1>6, SMT
<1>7. O <= X /\ X \in 0..255 /\ O \in 0..255
  BY <1>a, <1>b, <1>c, <1>5, <1>6, SMT
<1>8. Part(60, s) = 255
  BY SMT DEF Part
<1>9. 255 * s - 50 <= 100 * (255 - O) /\ 100 * (255 - O) <= 255 * s + 50
  BY <1>6, SMT
<1>10. /\ (60 - t) * (6000 * O) <= (60 - t) * ((100 - s) * 15300 + 3000)
       /\ (60 - t) * ((100 - s) * 15300 + 3000) <= (60 - t) * (6000 * O + 6000)
  <2>1. 60 - t \in Nat /\ 6000 * O \in Int /\ (100 - s) * 15300 + 3000 \in Int
            /\ 6000 * O + 6000 \in Int
    BY <1>7, SMT
  <2> QED BY <1>6, <2>1, Mono
<1>11. PICK w \in Int : w = (60 - t) * O
  BY <1>7, SMT
<1>12. /\ 6000 * w <= (60 - t) * 1533000 - 918000 * s + 15300 * p
       /\ (60 - t) * 1533000 - 918000 * s + 15300 * p <= 6000 * w + 6000 * (60 - t)
  BY <1>10, <1>11, <1>2, <1>7, SMT
<1>13. 60 * (X - O) - t * (255 - O) = 60 * X - w - 255 * t
  BY <1>11, <1>7, SMT
<1>14. 60 * X - w - 255 * t \in -60..60
  <2>1. /\ 360000 * X <= 15300 * p + 91980000 - 918000 * s
        /\ 15300 * p + 91980000 - 918000 * s < 360000 * X + 360000
    BY <1>5, <1>2, SMT
  <2>2. /\ 6000 * w <= 91980000 - 1533000 * t - 918000 * s + 15300 * p
        /\ 91980000 - 1533000 * t - 918000 * s + 15300 * p <= 6000 * w + 360000 - 6000 * t
    BY <1>12, <1>2, SMT
  <2>3. 60 * X - w - 255 * t <= 60
    BY <2>1, <2>2, <1>5, <1>2, SMT
  <2>4. -60 <= 60 * X - w - 255 * t
    BY <2>1, <2>2, <1>5, <1>2, SMT
  <2> QED BY <2>3, <2>4, <1>5, SMT
<1>15. Part(60, s) = 255 /\ 60 * (X - O) - t * (255 - O) \in -60..60
  BY <1>8, <1>13, <1>14, SMT
<1>16. Fits(t, s, X, O)
  BY <1>7, <1>9, <1>15 DEF Fits
<1> QED BY <1>15, <1>16 DEF X, O

(* What division by a positive number gives.                               *)
LEMMA Division ==
  ASSUME NEW a \in Int, NEW b \in Int, b > 0
  PROVE  /\ a \div b \in Int
         /\ (a \div b) * b <= a
         /\ a < (a \div b) * b + b
BY SMT

(* What was t shares of d, give or take 60, is t again after the division, *)
(* give or take                                                            *)
(* 60 by d and one for the rounding; the same below zero.                  *)
LEMMA Share ==
  ASSUME NEW n \in Int, NEW d \in 1..255, NEW t \in 0..60, n - t * d \in -60..60
  PROVE  /\ n \div d \in Int
         /\ (n \div d - t) * d <= 59 + d /\ (t - n \div d) * d <= 59 + d
<1> DEFINE q == n \div d
<1>1. q \in Int /\ q * d <= n /\ n < q * d + d
  BY Division, SMT
<1> HIDE DEF q
<1>2. (q - t) * d = q * d - t * d /\ (t - q) * d = t * d - q * d /\ q * d \in Int /\ t * d \in Int
  BY <1>1, SMT
<1>3. (q - t) * d <= 59 + d /\ (t - q) * d <= 59 + d
  BY <1>1, <1>2, SMT
<1> QED BY <1>1, <1>3 DEF q

(* And below zero.                                                         *)
LEMMA ShareBelow ==
  ASSUME NEW n \in Int, NEW d \in 1..255, NEW t \in 0..60, n - t * d \in -60..60
  PROVE  /\ (-n) \div d \in Int
         /\ ((-n) \div d + t) * d <= 59 + d /\ (0 - ((-n) \div d + t)) * d <= 59 + d
<1> DEFINE q == (-n) \div d
<1>1. q \in Int /\ q * d <= -n /\ -n < q * d + d
  <2>1. -n \in Int /\ d \in Int /\ d > 0
    BY SMT
  <2> QED BY <2>1, Division
<1> HIDE DEF q
<1>2. (q + t) * d = q * d + t * d /\ (0 - (q + t)) * d = 0 - q * d - t * d /\ q * d \in Int
          /\ t * d \in Int
  BY <1>1, SMT
<1>3. (q + t) * d <= 59 + d /\ (0 - (q + t)) * d <= 59 + d
  BY <1>1, <1>2, SMT
<1> QED BY <1>1, <1>3 DEF q

(* Such an error is small for the saturation s that d stands for.          *)
LEMMA ErrorBySaturation ==
  ASSUME NEW s \in 1..100, NEW d \in 1..255, 255 * s - 50 <= 100 * d,
         NEW e \in Int, e * d <= 59 + d
  PROVE  (e - 1) * s <= 30
<1>1. CASE e <= 1
  <2>1. s * (e - 1) <= s * 0
    <3>1. s \in Nat /\ e - 1 \in Int /\ e - 1 <= 0
      BY <1>1, SMT
    <3> QED BY <3>1, Mono
  <2> QED BY <2>1, SMT
<1>2. CASE e >= 2
  <2> DEFINE f == e - 1
  <2>1. f \in Nat /\ f * d = e * d - d /\ e * d \in Int
    BY <1>2, SMT
  <2> HIDE DEF f
  <2>2. f * d <= 59
    BY <2>1, SMT
  <2>3. f * (205 * s) <= f * (100 * d)
    <3>1. f \in Nat /\ 205 * s \in Int /\ 100 * d \in Int /\ 205 * s <= 100 * d
      BY <2>1, SMT
    <3> QED BY <3>1, Mono
  <2>4. f * (205 * s) = 205 * (f * s) /\ f * (100 * d) = 100 * (f * d) /\ f * s \in Int
            /\ f * d \in Int
    BY <2>1, SMT
  <2>5. f * s <= 30
    BY <2>2, <2>3, <2>4, SMT
  <2> QED BY <2>5 DEF f
<1> QED BY <1>1, <1>2, SMT

(* The greatest and the least of three parts.                              *)
Top(r, g, b) == CHOOSE m \in {r, g, b} : \A x \in {r, g, b} : x <= m
Low(r, g, b) == CHOOSE m \in {r, g, b} : \A x \in {r, g, b} : m <= x

(* Three bytes, which is what WLED reports and takes as a colour.          *)
Triple(c) == c \in (0..255) \X (0..255) \X (0..255)

Between(r, g, b, low, top) ==
    /\ top \in {r, g, b} /\ r <= top /\ g <= top /\ b <= top
    /\ low \in {r, g, b} /\ low <= r /\ low <= g /\ low <= b

(* The three are between them.                                             *)
LEMMA Extremes ==
    ASSUME NEW r, NEW g, NEW b, Triple(<<r, g, b>>)
    PROVE  Between(r, g, b, Low(r, g, b), Top(r, g, b))
<1>0. r \in 0..255 /\ g \in 0..255 /\ b \in 0..255
  BY DEF Triple
<1>1. \E m \in {r, g, b} : \A x \in {r, g, b} : x <= m
  <2>1. CASE g <= r /\ b <= r
    BY <1>0, <2>1
  <2>2. CASE r <= g /\ b <= g
    BY <1>0, <2>2
  <2>3. CASE r <= b /\ g <= b
    BY <1>0, <2>3
  <2> QED BY <1>0, <2>1, <2>2, <2>3, SMT
<1>2. \E m \in {r, g, b} : \A x \in {r, g, b} : m <= x
  <2>1. CASE r <= g /\ r <= b
    BY <1>0, <2>1
  <2>2. CASE g <= r /\ g <= b
    BY <1>0, <2>2
  <2>3. CASE b <= r /\ b <= g
    BY <1>0, <2>3
  <2> QED BY <1>0, <2>1, <2>2, <2>3, SMT
<1> DEFINE top == Top(r, g, b)
           low == Low(r, g, b)
<1>3. top \in {r, g, b} /\ \A x \in {r, g, b} : x <= top
  BY <1>1 DEF Top
<1>4. low \in {r, g, b} /\ \A x \in {r, g, b} : low <= x
  BY <1>2 DEF Low
<1> HIDE DEF top, low
<1>5. top \in {r, g, b} /\ r <= top /\ g <= top /\ b <= top
  BY <1>3
<1>6. low \in {r, g, b} /\ low <= r /\ low <= g /\ low <= b
  BY <1>4
<1> QED BY <1>5, <1>6 DEF Between, top, low

(* The hue and saturation of a triple whose greatest part is top and whose *)
(* least is low.                                                           *)
Hue(r, g, b, top, delta) ==
    CASE top = r            -> (60 * (g - b)) \div delta
      [] top = g /\ top # r -> (60 * (b - r)) \div delta + 120
      [] top = b /\ top # g /\ top # r -> (60 * (r - g)) \div delta + 240
HueSatOf(r, g, b, top, low) ==
    IF top - low = 0 THEN <<0, 0>>
    ELSE LET hue == Hue(r, g, b, top, top - low)
         IN  <<IF hue < 0 THEN hue + 360 ELSE hue, (100 * (top - low)) \div top>>

(* HueSat of wled.go, case by case.                                        *)
LEMMA HueSatIs ==
    \A r, g, b : W!HueSat(<<r, g, b>>) = HueSatOf(r, g, b, Top(r, g, b), Low(r, g, b))
BY DEF W!HueSat, Hue, Top, Low, HueSatOf

(* A difference of two parts, as sixtieths of the greatest difference.     *)
Within(low, top, x, y) == (60 * (x - y)) \div (top - low) \in -60..60

(* Two parts between the least and the greatest.                           *)
Apart(low, top, x, y) ==
    /\ low \in Int /\ top \in Int /\ low < top
    /\ x \in Int /\ low <= x /\ x <= top
    /\ y \in Int /\ low <= y /\ y <= top

(* It is a sixth of the colour circle at most, either way.                 *)
LEMMA AtMostSixty ==
    ASSUME NEW low, NEW top, NEW x, NEW y, Apart(low, top, x, y)
    PROVE  Within(low, top, x, y)
<1>0. /\ low \in Int /\ top \in Int /\ low < top
      /\ x \in Int /\ low <= x /\ x <= top /\ y \in Int /\ low <= y /\ y <= top
  BY DEF Apart
<1> DEFINE d == top - low
           q == (60 * (x - y)) \div d
<1>1. d \in Int /\ d > 0 /\ x - y \in (-d)..d
  BY <1>0, SMT
<1>2. q \in Int /\ q * d <= 60 * (x - y) /\ 60 * (x - y) < q * d + d
  <2>1. 60 * (x - y) \in Int
    BY <1>0, SMT
  <2> HIDE DEF d
  <2> QED BY <1>1, <2>1, Division DEF q
<1> HIDE DEF q, d
<1>3. q <= 60
  <2> SUFFICES ASSUME q >= 61 PROVE FALSE
    BY <1>2, SMT
  <2>1. d * 61 <= d * q
    BY <1>1, <1>2, Mono, SMT
  <2> QED BY <1>1, <1>2, <2>1, SMT
<1>4. -60 <= q
  <2> SUFFICES ASSUME q <= -61 PROVE FALSE
    BY <1>2, SMT
  <2>1. d * q <= d * (-61)
    BY <1>1, <1>2, Mono, SMT
  <2> QED BY <1>1, <1>2, <2>1, SMT
<1>5. q \in -60..60
  BY <1>2, <1>3, <1>4, SMT
<1> QED BY <1>5 DEF Within, q, d

(* Whatever a lamp reports is shown as a hue and a saturation.             *)
LEMMA ShadesShown ==
    ASSUME NEW c, Triple(c)
    PROVE  CacheForm(W!HueSat(c))
<1> DEFINE r == c[1]
           g == c[2]
           b == c[3]
<1>1. r \in 0..255 /\ g \in 0..255 /\ b \in 0..255 /\ c = <<r, g, b>>
  BY DEF Triple
<1> HIDE DEF r, g, b
<1> DEFINE top == Top(r, g, b)
           low == Low(r, g, b)
           hue == Hue(r, g, b, top, top - low)
<1>2. /\ top \in {r, g, b} /\ r <= top /\ g <= top /\ b <= top
      /\ low \in {r, g, b} /\ low <= r /\ low <= g /\ low <= b
  <2>1. Between(r, g, b, Low(r, g, b), Top(r, g, b))
    BY <1>1, Extremes
  <2> QED BY <2>1 DEF Between
<1> HIDE DEF top, low
<1>3. W!HueSat(c) = IF top - low = 0 THEN <<0, 0>>
                    ELSE <<IF hue < 0 THEN hue + 360 ELSE hue, (100 * (top - low)) \div top>>
  <2>1. W!HueSat(<<r, g, b>>) = HueSatOf(r, g, b, top, low)
    BY HueSatIs DEF top, low
  <2> QED BY <1>1, <2>1 DEF HueSatOf
<1>4. CASE top - low = 0
  <2>1. W!HueSat(c) = <<0, 0>> /\ 0 \in 0..360 /\ 0 \in 0..100
    BY <1>3, <1>4
  <2> QED BY <2>1 DEF CacheForm
<1>5. CASE top - low # 0
  <2>a. top \in 0..255 /\ low \in 0..255 /\ low <= top
    <3>1. top \in 0..255 /\ low \in 0..255
      BY <1>1, <1>2
    <3> QED BY <1>1, <1>2, <3>1, SMT
  <2>1. top \in 1..255 /\ low \in 0..255 /\ top - low \in 1..255 /\ top - low <= top
    BY <1>5, <2>a, SMT
  <2>3. hue \in -60..360
    <3>1. /\ (60 * (g - b)) \div (top - low) \in -60..60
          /\ (60 * (b - r)) \div (top - low) \in -60..60
          /\ (60 * (r - g)) \div (top - low) \in -60..60
      <4>1. Within(low, top, g, b) /\ Within(low, top, b, r) /\ Within(low, top, r, g)
        <5>1. low \in Int /\ top \in Int /\ low < top /\ r \in Int /\ g \in Int /\ b \in Int
          BY <1>1, <2>1, SMT
        <5>2. Apart(low, top, g, b) /\ Apart(low, top, b, r) /\ Apart(low, top, r, g)
          BY <1>2, <5>1, Zenon DEF Apart
        <5> QED BY <5>2, AtMostSixty
      <4> QED BY <4>1 DEF Within
    <3> QED BY <1>2, <3>1 DEF Hue
  <2>4. (100 * (top - low)) \div top \in 0..100
    <3>1. 100 * (top - low) \in Int /\ top \in Int /\ top > 0
      BY <2>1, SMT
    <3> DEFINE q == (100 * (top - low)) \div top
    <3>2. q \in Int /\ q * top <= 100 * (top - low) /\ 100 * (top - low) < q * top + top
      BY <3>1, Division
    <3> HIDE DEF q
    <3>3. q <= 100
      <4> SUFFICES ASSUME q >= 101 PROVE FALSE
        BY <3>2, SMT
      <4>1. top * 101 <= top * q
        BY <2>1, <3>2, Mono, SMT
      <4> QED BY <2>1, <3>2, <4>1, SMT
    <3>4. 0 <= q
      <4> SUFFICES ASSUME q <= -1 PROVE FALSE
        BY <3>2, SMT
      <4>1. top * q <= top * (-1)
        BY <2>1, <3>2, Mono, SMT
      <4> QED BY <2>1, <3>2, <4>1, SMT
    <3>5. q \in 0..100
      BY <3>2, <3>3, <3>4, SMT
    <3> QED BY <3>5 DEF q
  <2> HIDE DEF hue
  <2>5. (IF hue < 0 THEN hue + 360 ELSE hue) \in 0..360
    BY <2>3, SMT
  <2>6. W!HueSat(c) = <<IF hue < 0 THEN hue + 360 ELSE hue, (100 * (top - low)) \div top>>
    BY <1>3, <1>5
  <2> HIDE DEF hue
  <2> QED BY <2>4, <2>5, <2>6 DEF CacheForm
<1> QED BY <1>4, <1>5

(* The triple of a colour: full value in one of three places, least in     *)
(* another.                                                                *)
Sixtieths(h) == 60 - Distance(h % 120, 60)

Placed(r, g, b, h, t, X, O) ==
    \/ r = 255 /\ g = X /\ b = O /\ h = t
    \/ r = X /\ g = 255 /\ b = O /\ h = 120 - t
    \/ r = O /\ g = 255 /\ b = X /\ h = 120 + t
    \/ r = O /\ g = X /\ b = 255 /\ h = 240 - t
    \/ r = X /\ g = O /\ b = 255 /\ h = 240 + t
    \/ r = 255 /\ g = O /\ b = X /\ h = 360 - t

(* RGB of wled.go gives such a triple for every hue and saturation.        *)
LEMMA TripleIs ==
    ASSUME NEW h, NEW s, CacheForm(<<h, s>>)
    PROVE  \E t, X, O, r, g, b : /\ Fits(t, s, X, O) /\ Placed(r, g, b, h, t, X, O)
                                 /\ W!RGB(h, s) = <<r, g, b>>
<1>0. h \in 0..360 /\ s \in 0..100
  BY DEF CacheForm
<1> DEFINE t == Sixtieths(h)
           X == Part(t, s)
           O == Part(0, s)
<1>1. t \in 0..60
      /\ (h < 60 => h = t)
      /\ (h \in 60..119 => h = 120 - t)
      /\ (h \in 120..179 => h = 120 + t)
      /\ (h \in 180..239 => h = 240 - t)
      /\ (h \in 240..299 => h = 240 + t)
      /\ (h >= 300 => h = 360 - t)
  <2>1. CASE h \in 0..119
    <3>1. h % 120 = h
      BY <2>1, SMT
    <3> QED BY <2>1, <3>1, SMT DEF Sixtieths, Distance
  <2>2. CASE h \in 120..239
    <3>1. h % 120 = h - 120
      BY <2>2, SMT
    <3> QED BY <2>2, <3>1, SMT DEF Sixtieths, Distance
  <2>3. CASE h \in 240..359
    <3>1. h % 120 = h - 240
      BY <2>3, SMT
    <3> QED BY <2>3, <3>1, SMT DEF Sixtieths, Distance
  <2>4. CASE h = 360
    BY <2>4, SMT DEF Sixtieths, Distance
  <2> QED BY <1>0, <2>1, <2>2, <2>3, <2>4, SMT
<1>2. W!Distance(h % 120, 60) = Distance(h % 120, 60)
  BY DEF W!Distance, Distance
<1> HIDE DEF t
<1>3. Part(60, s) = 255 /\ Fits(t, s, X, O)
  <2>1. AShare(t, s)
    BY <1>0, <1>1 DEF AShare
  <2> QED BY <2>1, Parts
<1>4. W!RGB(h, s) =
         CASE h < 60                -> <<255, X, O>>
          [] h \in 60..119         -> <<X, 255, O>>
          [] h \in 120..179        -> <<O, 255, X>>
          [] h \in 180..239        -> <<O, X, 255>>
          [] h \in 240..299        -> <<X, O, 255>>
          [] h >= 300              -> <<255, O, X>>
  BY <1>0, <1>2, <1>3 DEF W!RGB, Part, Sixtieths, t
<1> HIDE DEF X, O
<1>5. CASE h < 60
  <2>1. W!RGB(h, s) = <<255, X, O>> /\ h = t
    BY <1>1, <1>4, <1>5, SMT
  <2> QED BY <1>3, <2>1 DEF Placed
<1>6. CASE h \in 60..119
  <2>1. W!RGB(h, s) = <<X, 255, O>> /\ h = 120 - t
    BY <1>1, <1>4, <1>6, SMT
  <2> QED BY <1>3, <2>1 DEF Placed
<1>7. CASE h \in 120..179
  <2>1. W!RGB(h, s) = <<O, 255, X>> /\ h = 120 + t
    BY <1>1, <1>4, <1>7, SMT
  <2> QED BY <1>3, <2>1 DEF Placed
<1>8. CASE h \in 180..239
  <2>1. W!RGB(h, s) = <<O, X, 255>> /\ h = 240 - t
    BY <1>1, <1>4, <1>8, SMT
  <2> QED BY <1>3, <2>1 DEF Placed
<1>9. CASE h \in 240..299
  <2>1. W!RGB(h, s) = <<X, O, 255>> /\ h = 240 + t
    BY <1>1, <1>4, <1>9, SMT
  <2> QED BY <1>3, <2>1 DEF Placed
<1>10. CASE h >= 300
  <2>1. W!RGB(h, s) = <<255, O, X>> /\ h = 360 - t
    BY <1>1, <1>4, <1>0, <1>10, SMT
  <2> QED BY <1>3, <2>1 DEF Placed
<1> QED BY <1>0, <1>5, <1>6, <1>7, <1>8, <1>9, <1>10, SMT

(* Its greatest part is 255, its least part is O.                          *)
LEMMA TopAndLow ==
    ASSUME NEW t, NEW s, NEW X, NEW O, NEW r, NEW g, NEW b, NEW h,
           Fits(t, s, X, O), Placed(r, g, b, h, t, X, O)
    PROVE  W!HueSat(<<r, g, b>>) = HueSatOf(r, g, b, 255, O)
<1>1. r \in 0..255 /\ g \in 0..255 /\ b \in 0..255 /\ 255 \in {r, g, b} /\ O \in {r, g, b}
      /\ O <= r /\ O <= g /\ O <= b
  BY SMT DEF Placed, Fits
<1>5. Between(r, g, b, Low(r, g, b), Top(r, g, b))
  <2>1. Triple(<<r, g, b>>)
    BY <1>1 DEF Triple
  <2> QED BY <2>1, Extremes
<1> DEFINE top == Top(r, g, b)
           low == Low(r, g, b)
<1>2. /\ top \in {r, g, b} /\ r <= top /\ g <= top /\ b <= top
      /\ low \in {r, g, b} /\ low <= r /\ low <= g /\ low <= b
  BY <1>5 DEF Between
<1>4. W!HueSat(<<r, g, b>>) = HueSatOf(r, g, b, top, low)
  BY HueSatIs
<1> HIDE DEF top, low
<1>3. top = 255 /\ low = O
  BY <1>1, <1>2, SMT DEF Fits
<1> QED BY <1>3, <1>4

(* Such a colour comes back as hs.                                         *)
Near(hs, h, s) ==
    /\ Distance(hs[2], s) <= 1
    /\ (HueDistance(hs[1], h) - 1) * s <= 30

(* The quotients Q and P that the hue is computed from.                    *)
Turns(Q, P, t, s, X, O) ==
    /\ Q \in 0..120 /\ P \in -120..0
    /\ (60 * (X - O)) \div (255 - O) = Q /\ (60 * (O - X)) \div (255 - O) = P
    /\ X = 255 => Q = 60 /\ P = -60
    /\ \A e \in {Q - t, t - Q, P + t, 0 - (P + t)} : e \in Int /\ (e - 1) * s <= 30

(* The divisions of HueSat for such a triple: what is t sixtieths comes    *)
(* back with an error that is small for the saturation.                    *)
LEMMA Quotients ==
    ASSUME NEW t, NEW s \in 0..100, NEW X, NEW O, Fits(t, s, X, O), O # 255
    PROVE  \E Q, P : Turns(Q, P, t, s, X, O)
<1>0. t \in 0..60 /\ X \in 0..255 /\ O \in 0..255 /\ O <= X
  BY DEF Fits
<1>1. PICK d \in 1..255 : d = 255 - O
  BY <1>0, SMT
<1>2. s \in 1..100 /\ 255 * s - 50 <= 100 * d
  BY <1>1, SMT DEF Fits
<1>3. PICK n \in Int : n = 60 * (X - O)
  BY <1>0, SMT
<1>4. n - t * d \in -60..60 /\ n >= 0 /\ -n = 60 * (O - X) /\ (X = 255 => n = 60 * d)
  BY <1>0, <1>1, <1>3, SMT DEF Fits
<1>5. PICK Q \in Int : Q = n \div d
  BY <1>1, <1>3, Division
<1>6. PICK P \in Int : P = (-n) \div d
  <2>1. -n \in Int /\ d \in Int /\ d > 0
    BY <1>1, SMT
  <2> QED BY <2>1, Division
<1>7. (Q - t) * d <= 59 + d /\ (t - Q) * d <= 59 + d
  BY <1>0, <1>4, <1>5, Share, Zenon
<1>8. (P + t) * d <= 59 + d /\ (0 - (P + t)) * d <= 59 + d
  BY <1>0, <1>4, <1>6, ShareBelow, Zenon
<1>9. n < Q * d + d /\ P * d <= -n
  <2>1. -n \in Int /\ d \in Int /\ d > 0
    BY <1>1, SMT
  <2> QED BY <2>1, <1>5, <1>6, Division
<1>10. Q >= 0
  <2> SUFFICES ASSUME Q <= -1 PROVE FALSE
    BY SMT
  <2>1. d * Q <= d * (-1)
    BY Mono, SMT
  <2> QED BY <1>4, <1>9, <2>1, SMT
<1>11. P <= 0
  <2> SUFFICES ASSUME P >= 1 PROVE FALSE
    BY SMT
  <2>1. d * 1 <= d * P
    BY Mono, SMT
  <2> QED BY <1>4, <1>9, <2>1, SMT
<1>12. X = 255 => Q = 60 /\ P = -60
  <2> SUFFICES ASSUME X = 255 PROVE Q = 60 /\ P = -60
    OBVIOUS
  <2>1. n = 60 * d /\ -n = (-60) * d
    BY <1>4, SMT
  <2>2. (60 * d) \div d = 60 /\ ((-60) * d) \div d = -60
    BY SMT
  <2> QED BY <1>5, <1>6, <2>1, <2>2
<1>13. Q - t <= 60
  <2> SUFFICES ASSUME Q - t >= 61 PROVE FALSE
    BY <1>0, SMT
  <2>1. d * 61 <= d * (Q - t)
    BY <1>0, Mono, SMT
  <2> QED BY <1>0, <1>7, <2>1, SMT
<1>14. 0 - (P + t) <= 60
  <2> SUFFICES ASSUME 0 - (P + t) >= 61 PROVE FALSE
    BY <1>0, SMT
  <2>1. d * 61 <= d * (0 - (P + t))
    BY <1>0, Mono, SMT
  <2> QED BY <1>0, <1>8, <2>1, SMT
<1>15. Q \in 0..120 /\ P \in -120..0
  BY <1>0, <1>10, <1>11, <1>13, <1>14, SMT
<1>16. \A e \in {Q - t, t - Q, P + t, 0 - (P + t)} : e \in Int /\ (e - 1) * s <= 30
  <2>1. \A e \in Int : e * d <= 59 + d => (e - 1) * s <= 30
    BY <1>2, ErrorBySaturation
  <2>2. Q - t \in Int /\ t - Q \in Int /\ P + t \in Int /\ 0 - (P + t) \in Int
    BY <1>0, SMT
  <2> QED BY <1>7, <1>8, <2>1, <2>2
<1>17. (60 * (X - O)) \div (255 - O) = Q /\ (60 * (O - X)) \div (255 - O) = P
  BY <1>1, <1>3, <1>4, <1>5, <1>6
<1>18. Turns(Q, P, t, s, X, O)
  BY <1>12, <1>15, <1>16, <1>17 DEF Turns
<1> QED BY <1>18

(* So HueSat gives the hue and the saturation back, but for that error.    *)
LEMMA ComesBack ==
    ASSUME NEW h, NEW s, CacheForm(<<h, s>>), NEW t, NEW X, NEW O, NEW r, NEW g, NEW b,
           Fits(t, s, X, O), Placed(r, g, b, h, t, X, O)
    PROVE  Near(W!HueSat(<<r, g, b>>), h, s)
<1>0. t \in 0..60 /\ X \in 0..255 /\ O \in 0..255 /\ O <= X
  BY DEF Fits
<1>h. h \in 0..360 /\ s \in 0..100
  BY DEF CacheForm
<1> USE <1>h
<1>1. W!HueSat(<<r, g, b>>) = HueSatOf(r, g, b, 255, O)
  BY TopAndLow
<1>2. CASE O = 255
  <2>1. s = 0
    BY <1>2, SMT DEF Fits
  <2>2. W!HueSat(<<r, g, b>>) = <<0, 0>>
    BY <1>1, <1>2 DEF HueSatOf
  <2>3. HueDistance(0, h) - 1 \in Int
    BY SMT DEF HueDistance, Distance
  <2>4. (HueDistance(0, h) - 1) * 0 <= 30
    BY <2>3, SMT
  <2> QED BY <2>1, <2>2, <2>4 DEF Near, Distance
<1>3. CASE O # 255
  <2>1. PICK d \in 1..255 : d = 255 - O
    BY <1>0, <1>3, SMT
  <2>a. PICK Q, P : Turns(Q, P, t, s, X, O)
    BY <1>3, Quotients
  <2>b. Q \in 0..120 /\ P \in -120..0
    BY <2>a DEF Turns
  <2>2. /\ (60 * (X - O)) \div d = Q /\ (60 * (O - X)) \div d = P
        /\ X = 255 => Q = 60 /\ P = -60
        /\ \A e \in {Q - t, t - Q, P + t, 0 - (P + t)} : e \in Int /\ (e - 1) * s <= 30
    BY <2>1, <2>a DEF Turns
  <2> DEFINE hue == Hue(r, g, b, 255, d)
             shown == IF hue < 0 THEN hue + 360 ELSE hue
  <2>3. W!HueSat(<<r, g, b>>) = <<shown, (100 * d) \div 255>>
    BY <1>1, <1>3, <2>1 DEF HueSatOf
  <2>4. (100 * d) \div 255 \in Int /\ Distance((100 * d) \div 255, s) <= 1
    <3>0. 255 * s - 50 <= 100 * d /\ 100 * d <= 255 * s + 50
      BY <2>1 DEF Fits
    <3>1. (100 * d) \div 255 \in s - 1 .. s
      BY <3>0, SMT
    <3> QED BY <3>1, SMT DEF Distance
  <2>5. HueDistance(shown, h) \in {Q - t, t - Q, P + t, 0 - (P + t)}
    <3>1. CASE r = 255 /\ g = X /\ b = O /\ h = t
      <4>1. hue = Q
        BY <2>2, <3>1 DEF Hue
      <4> HIDE DEF hue
      <4> QED BY <1>0, <2>b, <3>1, <4>1, SMT DEF HueDistance, Distance
    <3>2. CASE r = X /\ g = 255 /\ b = O /\ h = 120 - t
      <4>1. hue = P + 120
        <5>1. CASE X = 255
          <6>1. hue = Q
            BY <2>2, <3>2, <5>1 DEF Hue
          <6> QED BY <2>2, <5>1, <6>1
        <5>2. CASE X # 255
          BY <2>2, <3>2, <5>2 DEF Hue
        <5> QED BY <5>1, <5>2
      <4> HIDE DEF hue
      <4> QED BY <1>0, <2>b, <3>2, <4>1, SMT DEF HueDistance, Distance
    <3>3. CASE r = O /\ g = 255 /\ b = X /\ h = 120 + t
      <4>1. hue = Q + 120
        BY <1>3, <2>2, <3>3 DEF Hue
      <4> HIDE DEF hue
      <4> QED BY <1>0, <2>b, <3>3, <4>1, SMT DEF HueDistance, Distance
    <3>4. CASE r = O /\ g = X /\ b = 255 /\ h = 240 - t
      <4>1. hue = P + 240
        <5>1. CASE X = 255
          <6>1. hue = Q + 120
            BY <1>3, <2>2, <3>4, <5>1 DEF Hue
          <6> QED BY <2>2, <5>1, <6>1
        <5>2. CASE X # 255
          BY <1>3, <2>2, <3>4, <5>2 DEF Hue
        <5> QED BY <5>1, <5>2
      <4> HIDE DEF hue
      <4> QED BY <1>0, <2>b, <3>4, <4>1, SMT DEF HueDistance, Distance
    <3>5. CASE r = X /\ g = O /\ b = 255 /\ h = 240 + t
      <4>1. shown = Q + 240
        <5>1. CASE X = 255
          <6>1. hue = P
            BY <2>2, <3>5, <5>1 DEF Hue
          <6> HIDE DEF hue
          <6> QED BY <2>2, <5>1, <6>1
        <5>2. CASE X # 255
          <6>1. hue = Q + 240
            BY <1>3, <2>2, <3>5, <5>2 DEF Hue
          <6> HIDE DEF hue
          <6> QED BY <2>b, <6>1, SMT
        <5> QED BY <5>1, <5>2
      <4> HIDE DEF shown
      <4> QED BY <1>0, <2>b, <3>5, <4>1, SMT DEF HueDistance, Distance
    <3>6. CASE r = 255 /\ g = O /\ b = X /\ h = 360 - t
      <4>1. hue = P
        BY <2>2, <3>6 DEF Hue
      <4> HIDE DEF hue
      <4> QED BY <1>0, <2>b, <3>6, <4>1, SMT DEF HueDistance, Distance
    <3> QED BY <3>1, <3>2, <3>3, <3>4, <3>5, <3>6 DEF Placed
  <2> HIDE DEF shown
  <2>6. (HueDistance(shown, h) - 1) * s <= 30
    BY <2>2, <2>5
  <2> QED BY <2>3, <2>4, <2>6 DEF Near
<1> QED BY <1>2, <1>3

(* A colour written to WLED as three bytes comes back: the saturation      *)
(* within a percent, the hue within 1 degree more than 30 by the           *)
(* saturation.                                                             *)
ComesRound(c) ==
    /\ Triple(W!RGB(c[1], c[2]))
    /\ Near(W!HueSat(W!RGB(c[1], c[2])), c[1], c[2])

(* Every hue and saturation of the dSS does.                               *)
LEMMA RoundTrip ==
    ASSUME NEW c, CacheForm(c)
    PROVE  ComesRound(c)
<1>1. PICK h, s : h = c[1] /\ s = c[2] /\ CacheForm(<<h, s>>)
  BY DEF CacheForm
<1>2. PICK t, X, O, r, g, b : /\ Fits(t, s, X, O) /\ Placed(r, g, b, h, t, X, O)
                              /\ W!RGB(h, s) = <<r, g, b>>
  BY <1>1, TripleIs
<1>3. Near(W!HueSat(<<r, g, b>>), h, s)
  BY <1>1, <1>2, ComesBack
<1>4. r \in 0..255 /\ g \in 0..255 /\ b \in 0..255
  BY <1>2, SMT DEF Placed, Fits
<1>5. Triple(<<r, g, b>>)
  BY <1>4 DEF Triple
<1> QED BY <1>1, <1>2, <1>3, <1>5 DEF ComesRound

(* The lamp behind the plugin.                                             *)
ALamp(d) ==
    /\ DOMAIN d = {"on", "bri", "col"}
    /\ d.on \in BOOLEAN /\ d.bri \in 1..BriMax /\ AShade(d.col)

(* The same messages, for a plugin p and the features fs of a lamp.        *)
ReportOf(p, fs, r) ==
    /\ DOMAIN r \subseteq {"on"} \cup (IF "bri" \in fs THEN {"bri"} ELSE {})
                                  \cup (IF "colour" \in fs THEN {"col"} ELSE {})
    /\ Says(r, "on") => r.on \in BOOLEAN
    /\ Says(r, "bri") => r.bri \in 1..(CASE p = "zigbee2mqtt" -> 254 [] p = "tasmota" -> 100
                                          [] p = "shelly" -> Full [] OTHER -> 255)
    /\ Says(r, "col") => r.col \in (IF p = "wled" THEN (0..255) \X (0..255) \X (0..255)
                                    ELSE (0..360) \X (0..100))
Message(p, fs, r) ==
    CASE p \in {"zigbee2mqtt", "wled"} ->
             /\ ReportOf(p, fs, r)
             /\ DOMAIN r = {"on"} \cup (IF "bri" \in fs THEN {"bri"} ELSE {})
                                  \cup (IF "colour" \in fs THEN {"col"} ELSE {})
      [] p = "homeassistant" ->
             /\ ReportOf(p, fs, r) /\ Says(r, "on")
             /\ r.on => DOMAIN r = {"on"} \cup (IF "bri" \in fs THEN {"bri"} ELSE {})
                                          \cup (IF "colour" \in fs THEN {"col"} ELSE {})
      [] p = "shelly" -> ReportOf(p, fs, r)
      [] p = "tasmota" -> ReportOf(p, fs, r) \/ (DOMAIN r = {"power"} /\ r.power \in BOOLEAN)

(* The form of the state: every message in flight, the stored status and   *)
(* the answer under way are messages of this lamp.                         *)
LampForm ==
    /\ LampBase
    /\ ChanForm(chan) /\ CacheForm(cache) /\ ALamp(dev)
    /\ ReportOf(plugin, feats, status)
    /\ plugin = "homeassistant" /\ status # Nothing => Message(plugin, feats, status)
    /\ \E M : reports \in Seq(M)
    /\ \A i \in 1..Len(reports) : Message(plugin, feats, reports[i])
    /\ snap # NoSnap => Message(plugin, feats, snap) /\ plugin \in {"homeassistant", "wled", "shelly"}
    /\ newest \in BOOLEAN /\ overtaken \in BOOLEAN /\ missed \in BOOLEAN
    /\ rough \in BOOLEAN /\ (rough => plugin = "tasmota")

(* Plugins whose devices tell their whole state: the newest report tells   *)
(* what the lamp is, and an answer that no report overtook as well.        *)
Whole == plugin \in {"zigbee2mqtt", "homeassistant", "wled"}
Sending ==
    /\ reports # <<>> /\ (~ missed \/ ~ Unordered) => newest
    /\ Whole /\ newest => reports[Len(reports)] = FullState(dev)
    /\ Whole /\ snap # NoSnap /\ ~ overtaken /\ reports = <<>> => snap = FullState(dev)

(* The level that a brightness is shown as, and a lamp that is shown as it *)
(* is.                                                                     *)
LevelOf(b) == CASE plugin = "tasmota" -> 100 * b [] plugin = "shelly" -> b
                [] OTHER -> (b * 10000) \div 255
LevelRight ==
    /\ chan[0] = 0 <=> ~ dev.on
    /\ dev.on /\ ~ rough /\ "bri" \in feats \cap ep => chan[0] = LevelOf(dev.bri)
(* The same of the colour.                                                 *)
ColourOf(col) == IF plugin = "wled" THEN W!HueSat(col) ELSE col
ColourRight ==
    "colour" \in feats \cap ep /\ (plugin = "homeassistant" => dev.on) =>
       /\ <<chan[1], chan[2]>> = ColourOf(dev.col)
       /\ plugin # "wled" => cache = dev.col
(* At rest, level and colour are right.                                    *)
Rests == InStep => LevelRight /\ ColourRight

(* Devices that report only what changed, Tasmota: the last report in      *)
(* flight that says something of the level says it right, and without one  *)
(* the level is right. So for the colour.                                  *)
LevelPending ==
    /\ \A i \in 1..Len(reports) :
         LevelSaid(reports[i]) /\ (\A j \in 1..Len(reports) : j > i => ~ LevelSaid(reports[j]))
         => LitSaid(reports[i]) = dev.on /\ (Says(reports[i], "bri") => reports[i].bri = dev.bri)
    /\ (\A i \in 1..Len(reports) : ~ LevelSaid(reports[i])) => LevelRight
ColourPending ==
    /\ \A i \in 1..Len(reports) :
         Says(reports[i], "col")
             /\ (\A j \in 1..Len(reports) : j > i => ~ Says(reports[j], "col"))
         => reports[i].col = dev.col
    /\ (\A i \in 1..Len(reports) : ~ Says(reports[i], "col")) => ColourRight
Deltas == plugin = "tasmota" /\ ~ missed => LevelPending /\ ColourPending

(* Shelly, whose reports are merged: the same for each field, against the  *)
(* merged status, which is what is shown, and what a copy that nothing     *)
(* overtook says.                                                          *)
FieldPending(f) ==
    /\ \A i \in 1..Len(reports) :
         Says(reports[i], f) /\ (\A j \in 1..Len(reports) : j > i => ~ Says(reports[j], f))
         => reports[i][f] = dev[f]
    /\ (\A i \in 1..Len(reports) : ~ Says(reports[i], f)) => Says(status, f) /\ status[f] = dev[f]
Pushed ==
    /\ Says(status, "on") /\ ~ missed => chan[0] = ShownBy(status)
    /\ snap # NoSnap /\ ~ overtaken => snap = status
Merging == plugin = "shelly" => (\A f \in Known : FieldPending(f)) /\ Pushed

(* The brightness that a level commanded means, and the lamp that stands   *)
(* as it was told, unless somebody else told it.                           *)
BriFor(v) == CASE plugin = "zigbee2mqtt" -> Z!ToBri(v)
               [] plugin = "tasmota" -> T!ToDimmer(v)
               [] plugin = "shelly" -> v
               [] plugin = "wled" -> Clamp(W!ToBri(v), 1, 255)
               [] OTHER -> (v * 255 + 5000) \div 10000
Meaning ==
    /\ want \in {NoWant} \cup 0..Full
    /\ wantCol = NoColour \/ CacheForm(wantCol)
    /\ want # NoWant /\ Precise =>
         /\ want = 0 <=> ~ dev.on
         /\ want > 0 /\ "bri" \in feats \cap ep => dev.bri = BriFor(want)
    /\ wantCol # NoColour =>
         /\ "colour" \in feats \cap ep
         /\ dev.col = IF plugin = "wled" THEN W!RGB(wantCol[1], wantCol[2]) ELSE wantCol

(* The invariant of a lamp.                                                *)
LampInv == LampForm /\ Sending /\ Rests /\ Deltas /\ Merging /\ Meaning

(* For the plugin and the lamp at hand they are the messages of above.     *)
LEMMA MessageIs ==
    ASSUME LampBase
    PROVE  \A r : (ReportOf(plugin, feats, r) <=> AReport(r))
        /\ (Message(plugin, feats, r) <=> AMessage(r))
BY DEF ReportOf, AReport, Message, AMessage, APower, Known, BriMax, AShade, LampBase

(* What a sequence is with others behind it, and without one of its        *)
(* elements.                                                               *)
LEMMA Joined ==
    ASSUME NEW M, NEW r \in Seq(M), NEW U, NEW q \in Seq(U)
    PROVE  /\ \E V : r \o q \in Seq(V)
           /\ Len(r) \in Nat /\ Len(q) \in Nat /\ Len(r \o q) = Len(r) + Len(q)
           /\ \A i \in 1..Len(r) : (r \o q)[i] = r[i]
           /\ \A i \in 1..Len(q) : (r \o q)[Len(r) + i] = q[i]
<1> DEFINE V == M \cup U
<1>1. r \in Seq(V) /\ q \in Seq(V)
  <2>1. Seq(M) \subseteq Seq(V) /\ Seq(U) \subseteq Seq(V)
    BY SeqMonotonic
  <2> QED BY <2>1
<1>2. /\ r \o q \in Seq(V) /\ Len(r \o q) = Len(r) + Len(q)
      /\ \A i \in 1 .. Len(r) + Len(q) : (r \o q)[i] = IF i <= Len(r) THEN r[i] ELSE q[i - Len(r)]
  <2> HIDE DEF V
  <2> QED BY <1>1, ConcatProperties
<1>3. Len(r) \in Nat /\ Len(q) \in Nat
  BY LenProperties
<1> HIDE DEF V
<1>4. \A i \in 1..Len(r) : (r \o q)[i] = r[i]
  BY <1>2, <1>3
<1>5. \A i \in 1..Len(q) : (r \o q)[Len(r) + i] = q[i]
  BY <1>2, <1>3
<1> QED BY <1>2, <1>3, <1>4, <1>5

(* The same without one of its elements.                                   *)
LEMMA Without ==
    ASSUME NEW M, NEW r \in Seq(M), NEW i \in 1..Len(r), NEW q,
           q = [j \in 1..(Len(r) - 1) |-> r[IF j < i THEN j ELSE j + 1]]
    PROVE  /\ q \in Seq(M) /\ Len(r) \in Nat /\ Len(q) = Len(r) - 1
           /\ \A j \in 1..Len(q) : q[j] = r[IF j < i THEN j ELSE j + 1]
<1>1. Len(r) \in Nat /\ \A j \in 1..Len(r) : r[j] \in M
  BY LenProperties, ElementOfSeq
<1>2. Len(r) - 1 \in Nat /\ \A j \in 1..(Len(r) - 1) : r[IF j < i THEN j ELSE j + 1] \in M
  BY <1>1
<1>3. q \in [1..(Len(r) - 1) -> M]
  BY <1>2
<1>4. q \in Seq(M)
  BY <1>2, <1>3, SeqDef
<1>5. Len(q) = Len(r) - 1
  BY <1>2, <1>3, <1>4, LenProperties
<1> QED BY <1>1, <1>4, <1>5

(* The empty sequence is the one of length 0.                              *)
LEMMA Empty == \A M : \A r \in Seq(M) : Len(r) \in Nat /\ (r = <<>> <=> Len(r) = 0)
<1> SUFFICES ASSUME NEW M, NEW r \in Seq(M) PROVE Len(r) \in Nat /\ (r = <<>> <=> Len(r) = 0)
  OBVIOUS
<1>1. Len(r) \in Nat /\ (r # <<>> => Len(r) \in Nat \ {0}) /\ Len(<<>>) = 0
  BY EmptySeq, LenProperties
<1> QED BY <1>1

(* The whole state is a message, and so are some fields of it.             *)
LEMMA StateSaid ==
    ASSUME LampBase, NEW d, ALamp(d)
    PROVE  /\ AMessage(FullState(d)) /\ AReport(FullState(d))
           /\ \A D : D \subseteq Known => AReport(FieldsOf(d, D)) /\ DOMAIN FieldsOf(d, D) = D
                         /\ \A f \in D : FieldsOf(d, D)[f] = d[f]
<1>1. \A D : D \subseteq Known => AReport(FieldsOf(d, D)) /\ DOMAIN FieldsOf(d, D) = D
                         /\ \A f \in D : FieldsOf(d, D)[f] = d[f]
  BY DEF FieldsOf, AReport, ALamp, Says, Known
<1>2. AMessage(FullState(d)) /\ AReport(FullState(d))
  <2>1. CASE plugin = "homeassistant" /\ ~ d.on
    <3>1. FullState(d) = FieldsOf(d, {"on"}) /\ {"on"} \subseteq Known
      BY <2>1 DEF FullState, Known
    <3>2. AReport(FullState(d)) /\ DOMAIN FullState(d) = {"on"} /\ FullState(d)["on"] = d["on"]
      BY <1>1, <3>1
    <3> QED BY <2>1, <3>2 DEF AMessage, Says
  <2>2. CASE ~ (plugin = "homeassistant" /\ ~ d.on)
    <3>1. FullState(d) = FieldsOf(d, Known)
      BY <2>2 DEF FullState
    <3>2. AReport(FullState(d)) /\ DOMAIN FullState(d) = Known /\ "on" \in Known
      BY <1>1, <3>1 DEF Known
    <3> QED BY <3>2 DEF AMessage, Says, LampBase
  <2> QED BY <2>1, <2>2
<1> QED BY <1>1, <1>2

(* What any message leaves is a value for each channel.                    *)
LEMMA HandledForm ==
    ASSUME LampBase, ChanForm(chan), CacheForm(cache), plugin # "shelly", NEW r, AMessage(r),
           NEW st, plugin = "homeassistant" => st = r, Handle(UpdatesOf(r, st))
    PROVE  ChanForm(chan') /\ CacheForm(cache')
<1>1. CASE plugin = "zigbee2mqtt"
  BY <1>1, HandlesZigbee
<1>2. CASE plugin = "tasmota"
  BY <1>2, HandlesTasmota
<1>3. CASE plugin = "homeassistant"
  BY <1>3, HandlesHA
<1>4. CASE plugin = "wled"
  <2>1. Triple(r.col)
    BY <1>4 DEF AMessage, AReport, Known, Says, LampBase, AShade, Triple
  <2>2. CacheForm(W!HueSat(r.col))
    BY <2>1, ShadesShown
  <2>3. ChanForm(chan') /\ cache' = cache
    BY <1>4, <2>2, HandlesWled
  <2> QED BY <2>3 DEF CacheForm
<1> QED BY <1>1, <1>2, <1>3, <1>4 DEF LampBase

(* A lamp that is lit is not shown as dark.                                *)
LEMMA LitNotDark == \A b \in 1..BriMax : plugin \in {"zigbee2mqtt", "homeassistant", "wled"} =>
                        (b * 10000) \div 255 # 0
<1> SUFFICES ASSUME NEW b \in 1..BriMax, plugin \in {"zigbee2mqtt", "homeassistant", "wled"}
             PROVE  (b * 10000) \div 255 # 0
  OBVIOUS
<1>1. b \in 1..255
  BY DEF BriMax
<1> QED BY <1>1, LevelRange

(* The whole state of the lamp is shown as it is.                          *)
LEMMA Brought ==
    ASSUME LampBase, ChanForm(chan), CacheForm(cache), ALamp(dev), plugin # "shelly",
           NEW r, r = FullState(dev),
           NEW st, plugin = "homeassistant" => st = r, Handle(UpdatesOf(r, st)),
           UNCHANGED <<plugin, feats, ep, dev>>,
           rough' => plugin = "tasmota" /\ ~ Says(r, "bri")
    PROVE  (LevelRight /\ ColourRight)'
<1>0. AMessage(r)
  BY StateSaid
<1>1. CASE plugin = "zigbee2mqtt"
  <2>1. /\ chan'[0] = (IF ~ r.on THEN 0
               ELSE IF "bri" \in ep THEN (r.bri * 10000) \div 255 ELSE Full)
        /\ "colour" \in ep => <<chan'[1], chan'[2]>> = r.col /\ cache' = r.col
    BY <1>0, <1>1, HandlesZigbee
  <2>2. /\ r.on = dev.on
        /\ "bri" \in feats => r.bri = dev.bri
        /\ "colour" \in feats => r.col = dev.col
    BY <1>1 DEF FullState, FieldsOf, Known
  <2>3. dev.on \in BOOLEAN /\ dev.bri \in 1..BriMax
    BY DEF ALamp
  <2>4. chan'[0] = 0 <=> ~ dev.on
    BY <1>1, <2>1, <2>2, <2>3, LitNotDark DEF Full, LampBase
  <2>5. LevelRight'
    BY <1>1, <2>1, <2>2, <2>4 DEF LevelRight, LevelOf
  <2>6. ColourRight'
    BY <1>1, <2>1, <2>2 DEF ColourRight, ColourOf
  <2> QED BY <2>5, <2>6
<1>2. CASE plugin = "tasmota"
  <2>1. /\ chan'[0] = (IF ~ LevelSaid(r) THEN chan[0] ELSE IF ~ LitSaid(r) THEN 0
                          ELSE IF Says(r, "bri") THEN 100 * r.bri ELSE Full)
        /\ IF Says(r, "col") THEN <<chan'[1], chan'[2]>> = r.col /\ cache' = r.col
           ELSE chan'[1] = chan[1] /\ chan'[2] = chan[2] /\ cache' = cache
    BY <1>0, <1>2, HandlesTasmota
  <2>2. /\ DOMAIN r = Known /\ r.on = dev.on
        /\ "bri" \in feats => Says(r, "bri") /\ r.bri = dev.bri
        /\ "bri" \notin feats => ~ Says(r, "bri")
        /\ "colour" \in feats => Says(r, "col") /\ r.col = dev.col
        /\ LevelSaid(r) /\ LitSaid(r) = dev.on
    BY <1>2 DEF FullState, FieldsOf, Known, Says, LevelSaid, LitSaid
  <2>3. dev.on \in BOOLEAN /\ dev.bri \in 1..100
    BY <1>2 DEF ALamp, BriMax
  <2>4. chan'[0] = 0 <=> ~ dev.on
    BY <1>2, <2>1, <2>2, <2>3 DEF Full
  <2>5. LevelRight'
    BY <1>2, <2>1, <2>2, <2>4 DEF LevelRight, LevelOf
  <2>6. ColourRight'
    BY <1>2, <2>1, <2>2 DEF ColourRight, ColourOf
  <2> QED BY <2>5, <2>6
<1>3. CASE plugin = "homeassistant"
  <2>1. /\ chan'[0] = (IF ~ r.on THEN 0
               ELSE IF "bri" \in feats THEN (r.bri * 10000) \div 255 ELSE Full)
        /\ "colour" \in feats /\ r.on => <<chan'[1], chan'[2]>> = r.col /\ cache' = r.col
    BY <1>0, <1>3, HandlesHA
  <2>2. /\ r.on = dev.on
        /\ dev.on /\ "bri" \in feats => r.bri = dev.bri
        /\ dev.on /\ "colour" \in feats => r.col = dev.col
    BY <1>3 DEF FullState, FieldsOf, Known
  <2>3. dev.on \in BOOLEAN /\ dev.bri \in 1..BriMax
    BY DEF ALamp
  <2>4. chan'[0] = 0 <=> ~ dev.on
    BY <1>3, <2>1, <2>2, <2>3, LitNotDark DEF Full
  <2>5. LevelRight'
    BY <1>3, <2>1, <2>2, <2>4 DEF LevelRight, LevelOf
  <2>6. ColourRight'
    BY <1>3, <2>1, <2>2 DEF ColourRight, ColourOf
  <2> QED BY <2>5, <2>6
<1>4. CASE plugin = "wled"
  <2>0. CacheForm(W!HueSat(r.col))
    <3>1. Triple(r.col)
      BY <1>0, <1>4 DEF AMessage, AReport, Known, Says, LampBase, AShade, Triple
    <3> QED BY <3>1, ShadesShown
  <2>1. /\ chan'[0] = (IF ~ r.on THEN 0 ELSE (r.bri * 10000) \div 255)
        /\ <<chan'[1], chan'[2]>> = W!HueSat(r.col)
    <3>1. LampBase /\ ChanForm(chan) /\ CacheForm(cache) /\ AMessage(r) /\ Handle(UpdatesOf(r, st))
      BY <1>0
    <3> QED BY <1>4, <2>0, <3>1, HandlesWled
  <2>2. r.on = dev.on /\ r.bri = dev.bri /\ r.col = dev.col
    BY <1>4 DEF FullState, FieldsOf, Known, LampBase
  <2>3. dev.on \in BOOLEAN /\ dev.bri \in 1..BriMax
    BY DEF ALamp
  <2>4. chan'[0] = 0 <=> ~ dev.on
    BY <1>4, <2>1, <2>2, <2>3, LitNotDark DEF Full
  <2>5. LevelRight'
    BY <1>4, <2>1, <2>2, <2>4 DEF LevelRight, LevelOf
  <2>6. ColourRight'
    BY <1>4, <2>1, <2>2 DEF ColourRight, ColourOf
  <2> QED BY <2>5, <2>6
<1> QED BY <1>1, <1>2, <1>3, <1>4 DEF LampBase

(* The parts of the invariant that a step without a word to the lamp       *)
(* leaves.                                                                 *)
LEMMA SameLamp ==
    ASSUME LampBase, ALamp(dev), UNCHANGED <<plugin, feats, ep, dev>>
    PROVE  LampBase' /\ ALamp(dev)' /\ FullState(dev)' = FullState(dev)
BY DEF LampBase, ALamp, AShade, BriMax, FullState, FieldsOf, Known

(* What the last command meant stays, as long as the lamp does.            *)
LEMMA SameMeaning ==
    ASSUME Meaning, UNCHANGED <<plugin, feats, ep, dev, want, wantCol>>
    PROVE  Meaning'
BY DEF Meaning, Precise, BriFor

(* A notification of Shelly overwrites what it names and keeps the rest    *)
(* (mergeStatus of shelly.go).                                             *)
LEMMA Merges ==
    ASSUME NEW r, AReport(r), AReport(status), plugin = "shelly"
    PROVE  /\ AReport(StatusWith(r))
           /\ \A f \in {"on", "bri", "col"} :
                /\ Says(StatusWith(r), f) <=> Says(r, f) \/ Says(status, f)
                /\ Says(StatusWith(r), f)
                       => StatusWith(r)[f] = IF Says(r, f) THEN r[f] ELSE status[f]
<1>1. StatusWith(r) = r ++ status
  BY DEF StatusWith, S!Merged, S!++, ++
<1>2. /\ DOMAIN (r ++ status) = DOMAIN r \cup DOMAIN status
      /\ \A f \in DOMAIN (r ++ status) : (r ++ status)[f] = IF f \in DOMAIN r THEN r[f]
             ELSE status[f]
  BY DEF ++
<1>3. \A f \in {"on", "bri", "col"} :
                /\ Says(StatusWith(r), f) <=> Says(r, f) \/ Says(status, f)
                /\ Says(StatusWith(r), f)
                       => StatusWith(r)[f] = IF Says(r, f) THEN r[f] ELSE status[f]
  BY <1>1, <1>2 DEF Says
<1>4. AReport(StatusWith(r))
  <2>1. DOMAIN StatusWith(r) \subseteq Known
    BY <1>1, <1>2 DEF AReport
  <2> QED BY <1>3, <2>1 DEF AReport, Says
<1> QED BY <1>3, <1>4

(* Receiving a message keeps the form of the state.                        *)
LEMMA ReceiveForm ==
    ASSUME LampForm, NEW i, Receive(i)
    PROVE  LampForm'
<1> DEFINE r == reports[i]
<1>0. PICK M : reports \in Seq(M)
  BY DEF LampForm
<1>a. LampBase
  BY DEF LampForm
<1>b. \A x : (ReportOf(plugin, feats, x) <=> AReport(x))
          /\ (Message(plugin, feats, x) <=> AMessage(x))
  BY <1>a, MessageIs
<1>1. i \in 1..Len(reports) /\ AMessage(r) /\ LampBase /\ ChanForm(chan) /\ CacheForm(cache)
          /\ ALamp(dev)
      /\ AReport(status)
  BY <1>b DEF Receive, LampForm
<1>2. UNCHANGED <<plugin, feats, ep, dev, snap>>
  BY DEF Receive
<1>3. LampBase' /\ ALamp(dev)'
  BY <1>1, <1>2, SameLamp
<1>4. status' = StatusWith(r) /\ Handle(UpdatesOf(r, StatusWith(r)))
  BY DEF Receive
<1>5. ChanForm(chan') /\ CacheForm(cache') /\ AReport(StatusWith(r))
      /\ (plugin = "homeassistant" => AMessage(StatusWith(r)))
  <2>1. CASE plugin = "shelly"
    <3>1. AReport(r)
      BY <1>1, <2>1 DEF AMessage
    <3>2. AReport(StatusWith(r))
      BY <1>1, <2>1, <3>1, Merges
    <3>3. Handle(S!Updates(ep, StatusWith(r)))
      BY <1>4, <2>1 DEF UpdatesOf
    <3>4. ChanForm(chan') /\ cache' = cache
      BY <1>1, <2>1, <3>2, <3>3, HandlesShelly
    <3> QED BY <1>1, <2>1, <3>2, <3>4
  <2>2. CASE plugin = "homeassistant"
    <3>1. StatusWith(r) = r
      BY <2>2 DEF StatusWith
    <3>2. AReport(r)
      BY <1>1, <2>2 DEF AMessage
    <3> QED BY <1>1, <1>4, <2>2, <3>1, <3>2, HandledForm
  <2>3. CASE plugin \notin {"shelly", "homeassistant"}
    <3>1. StatusWith(r) = status
      BY <2>3 DEF StatusWith
    <3> QED BY <1>1, <1>4, <2>3, <3>1, HandledForm
  <2> QED BY <2>1, <2>2, <2>3
<1>6. (ReportOf(plugin, feats, status)
          /\ (plugin = "homeassistant" /\ status # Nothing => Message(plugin, feats, status)))'
  BY <1>2, <1>4, <1>5, <1>b
<1>7. /\ reports' \in Seq(M) /\ Len(reports) \in Nat /\ Len(reports') = Len(reports) - 1
      /\ \A j \in 1..Len(reports') : reports'[j] = reports[IF j < i THEN j ELSE j + 1]
  <2>1. reports' = [j \in 1..(Len(reports) - 1) |-> reports[IF j < i THEN j ELSE j + 1]]
    BY DEF Receive
  <2> QED BY <1>0, <1>1, <2>1, Without
<1>8. (\A j \in 1..Len(reports) : Message(plugin, feats, reports[j]))'
  <2> SUFFICES ASSUME NEW j \in 1..Len(reports') PROVE Message(plugin', feats', reports'[j])
    OBVIOUS
  <2>1. PICK k \in 1..Len(reports) : reports'[j] = reports[k]
    BY <1>1, <1>7
  <2> QED BY <1>2, <2>1 DEF LampForm
<1>9. (snap # NoSnap => Message(plugin, feats, snap) /\ plugin \in {"homeassistant", "wled", "shelly"})'
  BY <1>2 DEF LampForm, NoSnap
<1>10. (newest \in BOOLEAN /\ overtaken \in BOOLEAN /\ missed \in BOOLEAN /\ rough \in BOOLEAN
        /\ (rough => plugin = "tasmota"))'
  <2>1. newest \in BOOLEAN /\ overtaken \in BOOLEAN /\ missed \in BOOLEAN /\ rough \in BOOLEAN
        /\ (rough => plugin = "tasmota")
    BY DEF LampForm
  <2>2. newest' \in BOOLEAN /\ overtaken' \in BOOLEAN
    BY <2>1 DEF Receive
  <2>3. missed' \in BOOLEAN
    BY <2>1 DEF Receive
  <2>4. rough' \in BOOLEAN /\ (rough' => plugin = "tasmota")
    BY <2>1 DEF Receive
  <2> QED BY <1>2, <2>2, <2>3, <2>4
<1>11. ChanForm(chan)' /\ CacheForm(cache)'
  BY <1>5 DEF ChanForm, CacheForm
<1> QED BY <1>3, <1>6, <1>7, <1>8, <1>9, <1>10, <1>11 DEF LampForm

(* With nothing in flight, the merged status of Shelly is the lamp's.      *)
LEMMA ShellyAtRest ==
    ASSUME LampForm, Merging, plugin = "shelly", reports = <<>>, ~ missed
    PROVE  LevelRight /\ ColourRight
<1>0. LampBase /\ ALamp(dev) /\ ReportOf(plugin, feats, status) /\ ~ rough
  BY DEF LampForm
<1>1. 1..Len(reports) = {}
  <2>1. Len(reports) = 0
    BY DEF LampForm
  <2> QED BY <2>1
<1>2. Says(status, "on") /\ status.on = dev.on
  BY <1>1 DEF Merging, FieldPending, Known
<1>3. "bri" \in feats => Says(status, "bri") /\ status.bri = dev.bri
  BY <1>1 DEF Merging, FieldPending, Known
<1>4. "bri" \notin feats => ~ Says(status, "bri")
  BY <1>0 DEF ReportOf, Says
<1>5. chan[0] = ShownBy(status)
  BY <1>2 DEF Merging, Pushed
<1>6. dev.on \in BOOLEAN /\ dev.bri \in 1..Full
  BY <1>0 DEF ALamp, BriMax
<1>7. chan[0] = 0 <=> ~ dev.on
  <2>1. CASE dev.on
    <3>1. chan[0] = IF Says(status, "bri") THEN status.bri ELSE Full
      BY <1>2, <1>5, <2>1 DEF ShownBy
    <3>2. Says(status, "bri") => status.bri \in 1..Full
      BY <1>3, <1>4, <1>6
    <3>3. Full \in 1..Full /\ 0 \notin 1..Full
      BY DEF Full
    <3>4. chan[0] \in 1..Full
      BY <3>1, <3>2, <3>3
    <3> QED BY <2>1, <3>3, <3>4
  <2>2. CASE ~ dev.on
    <3>1. chan[0] = 0
      BY <1>2, <1>5, <2>2 DEF ShownBy
    <3> QED BY <2>2, <3>1
  <2> QED BY <2>1, <2>2
<1>8. dev.on /\ "bri" \in feats => chan[0] = dev.bri
  BY <1>2, <1>3, <1>5 DEF ShownBy
<1>9. LevelRight
  BY <1>7, <1>8 DEF LevelRight, LevelOf
<1>10. ColourRight
  BY <1>0 DEF ColourRight, LampBase
<1> QED BY <1>9, <1>10

(* Receiving a message, in order or, where the plugin may, overtaken by    *)
(* another.                                                                *)
LEMMA ReceiveKeeps ==
    ASSUME LampInv, NEW i, Receive(i)
    PROVE  LampInv'
<1> DEFINE r == reports[i]
           n == Len(reports)
<1>0. PICK M : reports \in Seq(M)
  BY DEF LampInv, LampForm
<1>a. LampBase /\ LampForm
  BY DEF LampInv, LampForm
<1>b. \A x : (ReportOf(plugin, feats, x) <=> AReport(x))
          /\ (Message(plugin, feats, x) <=> AMessage(x))
  BY <1>a, MessageIs
<1>1. i \in 1..n /\ AMessage(r) /\ ChanForm(chan) /\ CacheForm(cache) /\ ALamp(dev)
          /\ AReport(status)
      /\ rough \in BOOLEAN
  BY <1>b DEF Receive, LampInv, LampForm
<1>2. /\ UNCHANGED <<plugin, feats, ep, dev, snap, want, wantCol>>
      /\ Unordered' = Unordered /\ Whole' = Whole
      /\ Known' = Known
  BY DEF Receive, Unordered, Whole, Known
<1>3. FullState(dev)' = FullState(dev)
  BY <1>a, <1>1, <1>2, SameLamp
<1>4. status' = StatusWith(r) /\ Handle(UpdatesOf(r, StatusWith(r)))
      /\ (i = 1 \/ Unordered)
      /\ newest' = (newest /\ i < n)
      /\ missed' = (IF r = FullState(dev) /\ newest /\ n = 1 THEN FALSE ELSE missed \/ i # 1)
      /\ overtaken' = (overtaken \/ snap # NoSnap)
      /\ rough' = (IF plugin = "tasmota" /\ LevelSaid(r) THEN ~ Says(r, "bri") ELSE rough)
  BY DEF Receive, LevelSaid
<1>5. /\ reports' \in Seq(M) /\ n \in Nat /\ Len(reports') = n - 1
      /\ \A j \in 1..Len(reports') : reports'[j] = reports[IF j < i THEN j ELSE j + 1]
  <2>1. reports' = [j \in 1..(Len(reports) - 1) |-> reports[IF j < i THEN j ELSE j + 1]]
    BY DEF Receive
  <2> QED BY <1>0, <1>1, <2>1, Without
<1>6. (reports = <<>> <=> n = 0) /\ (reports' = <<>> <=> n = 1) /\ n >= 1 /\ i <= n
  <2>1. (reports = <<>> <=> n = 0) /\ (reports' = <<>> <=> Len(reports') = 0)
    BY <1>0, <1>5, Empty
  <2> QED BY <1>1, <1>5, <2>1
<1> HIDE DEF n
<1>7. LampForm'
  BY <1>a, ReceiveForm
<1>8. Sending'
  <2>1. (reports # <<>> /\ (~ missed \/ ~ Unordered) => newest)'
    <3> SUFFICES ASSUME n # 1, ~ missed' \/ ~ Unordered PROVE newest'
      BY <1>2, <1>6
    <3>1. i = 1 /\ (~ missed \/ ~ Unordered)
      BY <1>4
    <3>2. newest
      BY <1>6, <3>1 DEF LampInv, Sending
    <3>3. i < n
      BY <1>5, <1>6, <3>1
    <3> QED BY <1>4, <3>2, <3>3
  <2>2. (Whole /\ newest => reports[Len(reports)] = FullState(dev))'
    <3> SUFFICES ASSUME Whole, newest' PROVE reports'[Len(reports')] = FullState(dev)
      BY <1>2, <1>3
    <3>1. newest /\ i < n
      BY <1>4
    <3>2. reports[n] = FullState(dev)
      BY <3>1 DEF LampInv, Sending, n
    <3>3. reports'[n - 1] = reports[n]
      <4>1. n - 1 \in 1..Len(reports') /\ ~ (n - 1 < i) /\ n - 1 + 1 = n
        BY <1>1, <1>5, <3>1
      <4> QED BY <1>5, <4>1
    <3> QED BY <1>5, <3>2, <3>3
  <2>3. (Whole /\ snap # NoSnap /\ ~ overtaken /\ reports = <<>> => snap = FullState(dev))'
    <3>1. NoSnap' = NoSnap
      BY DEF NoSnap
    <3> QED BY <1>2, <1>4, <3>1
  <2> QED BY <2>1, <2>2, <2>3 DEF Sending
<1>9. Whole \/ plugin = "tasmota" => (r = FullState(dev) /\ n = 1 => (LevelRight /\ ColourRight)')
  <2> SUFFICES ASSUME Whole \/ plugin = "tasmota", r = FullState(dev)
               PROVE  (LevelRight /\ ColourRight)'
    OBVIOUS
  <2>1. plugin # "shelly" /\ (plugin = "homeassistant" => StatusWith(r) = r)
    BY DEF Whole, StatusWith
  <2>2. rough' => plugin = "tasmota" /\ ~ Says(r, "bri")
    <3>1. rough => plugin = "tasmota"
      BY DEF LampInv, LampForm
    <3>2. plugin = "tasmota" => LevelSaid(r)
      BY DEF FullState, FieldsOf, Known, LevelSaid, Says
    <3> QED BY <1>4, <3>1, <3>2
  <2> QED BY <1>a, <1>1, <1>2, <1>4, <2>1, <2>2, Brought
<1>10. Deltas'
  <2> SUFFICES ASSUME plugin = "tasmota", ~ missed' PROVE (LevelPending /\ ColourPending)'
    BY <1>2 DEF Deltas
  <2>1. CASE r = FullState(dev) /\ n = 1
    <3>1. 1..Len(reports') = {}
      BY <1>5, <2>1
    <3> QED BY <1>9, <2>1, <3>1 DEF LevelPending, ColourPending
  <2>2. CASE ~ (r = FullState(dev) /\ n = 1)
    <3>1. i = 1 /\ ~ missed
      BY <1>4, <2>2
    <3>2. LevelPending /\ ColourPending
      BY <3>1 DEF LampInv, Deltas
    <3>3. Len(reports') = n - 1 /\ \A j \in 1..(n - 1) : reports'[j] = reports[j + 1]
              /\ j + 1 \in 1..n
      BY <1>5, <3>1
    <3>4. \A k \in 1..n : k = 1 \/ (k - 1 \in 1..(n - 1) /\ reports[k] = reports'[k - 1])
      BY <1>5, <3>3
    <3>h. /\ chan'[0] = (IF ~ LevelSaid(r) THEN chan[0] ELSE IF ~ LitSaid(r) THEN 0
                          ELSE IF Says(r, "bri") THEN 100 * r.bri ELSE Full)
          /\ IF Says(r, "col") THEN <<chan'[1], chan'[2]>> = r.col /\ cache' = r.col
             ELSE chan'[1] = chan[1] /\ chan'[2] = chan[2] /\ cache' = cache
      BY <1>a, <1>1, <1>4, HandlesTasmota
    <3>5. (\A k \in 1..Len(reports) :
             LevelSaid(reports[k])
                 /\ (\A j \in 1..Len(reports) : j > k => ~ LevelSaid(reports[j]))
             => LitSaid(reports[k]) = dev.on
                 /\ (Says(reports[k], "bri") => reports[k].bri = dev.bri))'
      <4> SUFFICES ASSUME NEW k \in 1..(n - 1), LevelSaid(reports'[k]),
                          \A j \in 1..(n - 1) : j > k => ~ LevelSaid(reports'[j])
                   PROVE  LitSaid(reports'[k]) = dev.on
                       /\ (Says(reports'[k], "bri") => reports'[k].bri = dev.bri)
        BY <1>2, <3>3 DEF LevelSaid, LitSaid, Says
      <4>1. k + 1 \in 1..n /\ reports'[k] = reports[k + 1]
        BY <3>3
      <4>2. \A j \in 1..n : j > k + 1 => ~ LevelSaid(reports[j])
        <5> SUFFICES ASSUME NEW j \in 1..n, j > k + 1 PROVE ~ LevelSaid(reports[j])
          OBVIOUS
        <5>1. j - 1 \in 1..(n - 1) /\ j - 1 > k /\ reports[j] = reports'[j - 1]
          BY <1>5, <3>4
        <5> QED BY <5>1
      <4> QED BY <3>2, <4>1, <4>2 DEF LevelPending, n
    <3>6. ((\A k \in 1..Len(reports) : ~ LevelSaid(reports[k])) => LevelRight)'
      <4> SUFFICES ASSUME \A k \in 1..(n - 1) : ~ LevelSaid(reports'[k]) PROVE LevelRight'
        BY <3>3 DEF LevelSaid, Says
      <4>1. \A k \in 1..n : k # 1 => ~ LevelSaid(reports[k])
        BY <3>4
      <4>2. CASE LevelSaid(r)
        <5>1. LitSaid(r) = dev.on /\ (Says(r, "bri") => r.bri = dev.bri)
          <6>1. \A j \in 1..n : j > 1 => ~ LevelSaid(reports[j])
            BY <1>5, <4>1
          <6> QED BY <1>1, <3>1, <3>2, <4>2, <6>1 DEF LevelPending, n
        <5>2. rough' = ~ Says(r, "bri")
          BY <1>4, <4>2
        <5>3. dev.on \in BOOLEAN /\ dev.bri \in 1..100
          BY <1>1 DEF ALamp, BriMax
        <5>4. chan'[0] = 0 <=> ~ dev.on
          BY <3>h, <4>2, <5>1, <5>3 DEF Full
        <5>5. dev.on /\ ~ rough' => chan'[0] = 100 * dev.bri
          BY <3>h, <4>2, <5>1, <5>2
        <5> QED BY <1>2, <5>4, <5>5 DEF LevelRight, LevelOf
      <4>3. CASE ~ LevelSaid(r)
        <5>1. LevelRight
          <6>1. \A k \in 1..n : ~ LevelSaid(reports[k])
            BY <3>1, <4>1, <4>3
          <6> QED BY <3>2, <6>1 DEF LevelPending, n
        <5>2. rough' = rough /\ chan'[0] = chan[0]
          BY <1>4, <3>h, <4>3
        <5> QED BY <1>2, <5>1, <5>2 DEF LevelRight, LevelOf
      <4> QED BY <4>2, <4>3
    <3>7. (\A k \in 1..Len(reports) :
             Says(reports[k], "col")
                 /\ (\A j \in 1..Len(reports) : j > k => ~ Says(reports[j], "col"))
             => reports[k].col = dev.col)'
      <4> SUFFICES ASSUME NEW k \in 1..(n - 1), Says(reports'[k], "col"),
                          \A j \in 1..(n - 1) : j > k => ~ Says(reports'[j], "col")
                   PROVE  reports'[k].col = dev.col
        BY <1>2, <3>3 DEF Says
      <4>1. k + 1 \in 1..n /\ reports'[k] = reports[k + 1]
        BY <3>3
      <4>2. \A j \in 1..n : j > k + 1 => ~ Says(reports[j], "col")
        <5> SUFFICES ASSUME NEW j \in 1..n, j > k + 1 PROVE ~ Says(reports[j], "col")
          OBVIOUS
        <5>1. j - 1 \in 1..(n - 1) /\ j - 1 > k /\ reports[j] = reports'[j - 1]
          BY <1>5, <3>4
        <5> QED BY <5>1
      <4> QED BY <3>2, <4>1, <4>2 DEF ColourPending, n
    <3>8. ((\A k \in 1..Len(reports) : ~ Says(reports[k], "col")) => ColourRight)'
      <4> SUFFICES ASSUME \A k \in 1..(n - 1) : ~ Says(reports'[k], "col") PROVE ColourRight'
        BY <3>3 DEF Says
      <4>1. \A k \in 1..n : k # 1 => ~ Says(reports[k], "col")
        BY <3>4
      <4>2. CASE Says(r, "col")
        <5>1. r.col = dev.col
          <6>1. \A j \in 1..n : j > 1 => ~ Says(reports[j], "col")
            BY <1>5, <4>1
          <6> QED BY <1>1, <3>1, <3>2, <4>2, <6>1 DEF ColourPending, n
        <5> QED BY <1>2, <3>h, <4>2, <5>1 DEF ColourRight, ColourOf
      <4>3. CASE ~ Says(r, "col")
        <5>1. ColourRight
          <6>1. \A k \in 1..n : ~ Says(reports[k], "col")
            BY <3>1, <4>1, <4>3
          <6> QED BY <3>2, <6>1 DEF ColourPending, n
        <5> QED BY <1>2, <3>h, <4>3, <5>1 DEF ColourRight, ColourOf
      <4> QED BY <4>2, <4>3
    <3> QED BY <3>5, <3>6, <3>7, <3>8 DEF LevelPending, ColourPending
  <2> QED BY <2>1, <2>2
<1>11. Merging'
  <2> SUFFICES ASSUME plugin = "shelly"
               PROVE  /\ \A f \in Known : FieldPending(f)'
                      /\ Says(status', "on") => chan'[0] = ShownBy(status')
                      /\ ~ (snap' # NoSnap /\ ~ overtaken')
    BY <1>2 DEF Merging, Pushed, Says, ShownBy, NoSnap
  <2>1. i = 1
    BY <1>4 DEF Unordered
  <2>2. AReport(r)
    BY <1>1 DEF AMessage
  <2>3. /\ AReport(StatusWith(r))
        /\ \A f \in {"on", "bri", "col"} :
                /\ Says(StatusWith(r), f) <=> Says(r, f) \/ Says(status, f)
                /\ Says(StatusWith(r), f)
                       => StatusWith(r)[f] = IF Says(r, f) THEN r[f] ELSE status[f]
    BY <1>1, <2>2, Merges
  <2>4. Says(status', "on") => chan'[0] = ShownBy(status')
    <3>1. Handle(S!Updates(ep, StatusWith(r)))
      BY <1>4 DEF UpdatesOf
    <3>2. chan'[0] = IF ~ Says(StatusWith(r), "on") THEN chan[0] ELSE ShownBy(StatusWith(r))
      BY <1>a, <1>1, <2>3, <3>1, HandlesShelly
    <3> QED BY <1>4, <3>2
  <2>5. Len(reports') = n - 1 /\ \A j \in 1..(n - 1) : reports'[j] = reports[j + 1]
            /\ j + 1 \in 1..n
    BY <1>5, <2>1
  <2>6. \A k \in 1..n : k = 1 \/ (k - 1 \in 1..(n - 1) /\ reports[k] = reports'[k - 1])
    BY <1>5, <2>5
  <2>7. ASSUME NEW f \in Known PROVE FieldPending(f)'
    <3>1. FieldPending(f)
      BY DEF LampInv, Merging
    <3>2. f \in {"on", "bri", "col"}
      BY DEF Known
    <3>3. ASSUME NEW k \in 1..(n - 1), Says(reports'[k], f),
                 \A j \in 1..(n - 1) : j > k => ~ Says(reports'[j], f)
          PROVE  reports'[k][f] = dev[f]
      <4>1. k + 1 \in 1..n /\ reports'[k] = reports[k + 1]
        BY <2>5
      <4>2. \A j \in 1..n : j > k + 1 => ~ Says(reports[j], f)
        <5> SUFFICES ASSUME NEW j \in 1..n, j > k + 1 PROVE ~ Says(reports[j], f)
          OBVIOUS
        <5>1. j - 1 \in 1..(n - 1) /\ j - 1 > k /\ reports[j] = reports'[j - 1]
          BY <1>5, <2>6
        <5> QED BY <3>3, <5>1
      <4> QED BY <3>1, <3>3, <4>1, <4>2 DEF FieldPending, n
    <3>4. ASSUME \A k \in 1..(n - 1) : ~ Says(reports'[k], f)
          PROVE  Says(status', f) /\ status'[f] = dev[f]
      <4>1. \A k \in 1..n : k # 1 => ~ Says(reports[k], f)
        BY <2>6, <3>4
      <4>2. CASE Says(r, f)
        <5>1. r[f] = dev[f]
          <6>1. \A j \in 1..n : j > 1 => ~ Says(reports[j], f)
            BY <1>5, <4>1
          <6> QED BY <1>1, <2>1, <3>1, <4>2, <6>1 DEF FieldPending, n
        <5> QED BY <1>4, <2>3, <3>2, <4>2, <5>1
      <4>3. CASE ~ Says(r, f)
        <5>1. Says(status, f) /\ status[f] = dev[f]
          <6>1. \A k \in 1..n : ~ Says(reports[k], f)
            BY <2>1, <4>1, <4>3
          <6> QED BY <3>1, <6>1 DEF FieldPending, n
        <5> QED BY <1>4, <2>3, <3>2, <4>3, <5>1
      <4> QED BY <4>2, <4>3
    <3> QED BY <1>2, <2>5, <3>3, <3>4 DEF FieldPending, Says
  <2>8. ~ (snap' # NoSnap /\ ~ overtaken')
    BY <1>2, <1>4
  <2> QED BY <2>4, <2>7, <2>8
<1>12. Rests'
  <2> SUFFICES ASSUME NoneInFlight', ~ missed' PROVE (LevelRight /\ ColourRight)'
    BY DEF Rests, InStep
  <2>1. n = 1 /\ i = 1
    BY <1>1, <1>6 DEF NoneInFlight
  <2>2. CASE Whole
    <3>1. r = FullState(dev)
      <4>1. CASE r = FullState(dev) /\ newest
        BY <4>1
      <4>2. CASE ~ (r = FullState(dev) /\ newest)
        <5>1. ~ missed
          BY <1>4, <4>2
        <5>2. newest
          BY <1>6, <2>1, <5>1 DEF LampInv, Sending
        <5> QED BY <2>1, <2>2, <5>2 DEF LampInv, Sending, n
      <4> QED BY <4>1, <4>2
    <3> QED BY <1>9, <2>1, <2>2, <3>1
  <2>3. CASE plugin = "tasmota"
    <3>1. Deltas' /\ plugin' = "tasmota" /\ ~ missed' /\ 1..Len(reports') = {}
      BY <1>2, <1>5, <1>10, <2>1, <2>3
    <3> QED BY <3>1 DEF Deltas, LevelPending, ColourPending
  <2>4. CASE plugin = "shelly"
    <3>1. (LampForm /\ Merging /\ plugin = "shelly" /\ reports = <<>> /\ ~ missed)'
      BY <1>2, <1>6, <1>7, <1>11, <2>1, <2>4
    <3> QED BY <3>1, ShellyAtRest, PTL
  <2> QED BY <1>a, <2>2, <2>3, <2>4 DEF LampBase, Whole
<1>13. Meaning'
  BY <1>2, SameMeaning DEF LampInv
<1> QED BY <1>7, <1>8, <1>10, <1>11, <1>12, <1>13 DEF LampInv

(* The answer to a request for the whole state, which may be an old one.   *)
LEMMA SnapKeeps ==
    ASSUME LampInv, HandleSnap
    PROVE  LampInv'
<1>a. LampBase /\ LampForm
  BY DEF LampInv, LampForm
<1>b. \A x : (ReportOf(plugin, feats, x) <=> AReport(x))
          /\ (Message(plugin, feats, x) <=> AMessage(x))
  BY <1>a, MessageIs
<1>1. AMessage(snap) /\ ChanForm(chan) /\ CacheForm(cache) /\ ALamp(dev) /\ AReport(status)
      /\ plugin \in {"homeassistant", "wled", "shelly"} /\ ~ rough
  BY <1>b DEF HandleSnap, LampInv, LampForm
<1>2. /\ UNCHANGED <<plugin, feats, ep, dev, reports, newest, rough, want, wantCol>>
      /\ Unordered' = Unordered
      /\ Whole' = Whole
  BY DEF HandleSnap, Unordered, Whole
<1>3. LampBase' /\ ALamp(dev)' /\ FullState(dev)' = FullState(dev)
  BY <1>a, <1>1, <1>2, SameLamp
<1>4. status' = (IF plugin = "homeassistant" THEN snap ELSE status)
      /\ Handle(UpdatesOf(snap, snap))
      /\ missed' = (overtaken \/ (plugin = "shelly" /\ missed))
      /\ snap' = NoSnap /\ overtaken' = FALSE /\ snap # NoSnap
  BY DEF HandleSnap
<1>c. ASSUME plugin = "shelly"
      PROVE  /\ ChanForm(chan') /\ cache' = cache
             /\ chan'[0] = IF ~ Says(snap, "on") THEN chan[0] ELSE ShownBy(snap)
  <2>1. AReport(snap) /\ Handle(S!Updates(ep, snap))
    BY <1>1, <1>4, <1>c DEF AMessage, UpdatesOf
  <2> QED BY <1>a, <1>1, <1>c, <2>1, HandlesShelly
<1>5. ChanForm(chan') /\ CacheForm(cache')
  <2>1. CASE plugin = "shelly"
    BY <1>1, <1>c, <2>1
  <2>2. CASE plugin # "shelly"
    BY <1>a, <1>1, <1>4, <2>2, HandledForm
  <2> QED BY <2>1, <2>2
<1>6. (ReportOf(plugin, feats, status)
       /\ (plugin = "homeassistant" /\ status # Nothing => Message(plugin, feats, status)))'
  <2>1. plugin = "homeassistant" => AReport(snap)
    BY <1>1 DEF AMessage
  <2> QED BY <1>b, <1>1, <1>2, <1>4, <2>1
<1>7. LampForm'
  <2>1. (snap = NoSnap)'
    BY <1>4 DEF NoSnap
  <2>2. ChanForm(chan)' /\ CacheForm(cache)'
    BY <1>5 DEF ChanForm, CacheForm
  <2>3. missed' \in BOOLEAN /\ overtaken' \in BOOLEAN
    BY <1>a, <1>4 DEF LampForm
  <2> QED BY <1>2, <1>3, <1>6, <2>1, <2>2, <2>3 DEF LampInv, LampForm
<1>8. Sending'
  <2>1. (snap = NoSnap)'
    BY <1>4 DEF NoSnap
  <2> QED BY <1>1, <1>2, <1>3, <2>1 DEF LampInv, Sending, Unordered
<1>10. Deltas'
  BY <1>1, <1>2 DEF Deltas
<1>12. Merging'
  <2> SUFFICES ASSUME plugin = "shelly" PROVE (\A f \in Known : FieldPending(f))' /\ Pushed'
    BY <1>2 DEF Merging
  <2>1. (\A f \in Known : FieldPending(f))'
    BY <1>2, <1>4 DEF LampInv, Merging, FieldPending, Known, Says
  <2>2. (snap = NoSnap)'
    BY <1>4 DEF NoSnap
  <2>3. ASSUME Says(status', "on"), ~ missed' PROVE chan'[0] = ShownBy(status')
    <3>1. snap = status /\ status' = status /\ Says(status, "on")
      BY <1>4, <2>3 DEF LampInv, Merging, Pushed
    <3> QED BY <1>c, <3>1
  <2> QED BY <2>1, <2>2, <2>3 DEF Pushed, Says, ShownBy
<1>9. Rests'
  <2> SUFFICES ASSUME NoneInFlight', ~ missed' PROVE (LevelRight /\ ColourRight)'
    BY DEF Rests, InStep
  <2>1. CASE plugin = "shelly"
    <3>1. (LampForm /\ Merging /\ plugin = "shelly" /\ reports = <<>> /\ ~ missed)'
      BY <1>2, <1>7, <1>12, <2>1 DEF NoneInFlight
    <3> QED BY <3>1, ShellyAtRest, PTL
  <2>2. CASE plugin # "shelly"
    <3>1. snap = FullState(dev)
      BY <1>1, <1>2, <1>4, <2>2 DEF LampInv, Sending, NoneInFlight, Whole
    <3> QED BY <1>a, <1>1, <1>2, <1>4, <2>2, <3>1, Brought
  <2> QED BY <2>1, <2>2
<1>11. Meaning'
  BY <1>2, SameMeaning DEF LampInv
<1> QED BY <1>7, <1>8, <1>9, <1>10, <1>11, <1>12 DEF LampInv

(* The whole state of a lamp is a message that tells it all.               *)
LEMMA FullSaid ==
    ASSUME LampBase, ALamp(dev)
    PROVE  /\ Message(plugin, feats, FullState(dev)) /\ ReportOf(plugin, feats, FullState(dev))
           /\ \A x : Says(x, "on") => x # NoSnap
           /\ Says(FullState(dev), "on") /\ FullState(dev).on = dev.on
           /\ plugin # "homeassistant"
                  => \A f \in Known : Says(FullState(dev), f) /\ FullState(dev)[f] = dev[f]
<1>1. AMessage(FullState(dev)) /\ AReport(FullState(dev))
  BY StateSaid
<1>2. \A x : Says(x, "on") => x # NoSnap
  <2> SUFFICES ASSUME NEW x, x = NoSnap PROVE "on" \notin DOMAIN x
    BY DEF Says
  <2> QED BY DEF NoSnap
<1>3. /\ Says(FullState(dev), "on") /\ FullState(dev).on = dev.on
      /\ plugin # "homeassistant"
             => \A f \in Known : Says(FullState(dev), f) /\ FullState(dev)[f] = dev[f]
  BY DEF FullState, FieldsOf, Known, Says
<1> QED BY <1>1, <1>2, <1>3, MessageIs

(* A sequence of one element.                                              *)
LEMMA OneReport == \A x : <<x>> \in Seq({x}) /\ Len(<<x>>) = 1 /\ <<x>>[1] = x /\ <<x>> # <<>>
OBVIOUS

(* A connection that is lost or new, and a state known from before.        *)
LEMMA ReconnectKeeps ==
    ASSUME LampInv,
           ZigbeeReconnect \/ HAReconnect \/ HASubscribe \/ ShellyReconnect \/ WledReconnect
               \/ TasmotaReconnect \/ ShellySubscribe
    PROVE  LampInv'
<1>a. LampBase /\ LampForm /\ ALamp(dev)
  BY DEF LampInv, LampForm
<1>0. UNCHANGED <<plugin, feats, ep, dev, chan, cache, status, rough, want, wantCol>>
      /\ Unordered' = Unordered /\ Whole' = Whole /\ Known' = Known
  BY DEF ZigbeeReconnect, HAReconnect, HASubscribe, ShellyReconnect, WledReconnect,
         TasmotaReconnect, ShellySubscribe, Same,
         Unordered, Whole, Known
<1>1. LampBase' /\ ALamp(dev)' /\ FullState(dev)' = FullState(dev)
  BY <1>a, <1>0, SameLamp
<1>2. /\ Message(plugin, feats, FullState(dev)) /\ ReportOf(plugin, feats, FullState(dev))
      /\ \A x : Says(x, "on") => x # NoSnap
      /\ Says(FullState(dev), "on") /\ FullState(dev).on = dev.on
      /\ plugin # "homeassistant"
             => \A f \in Known : Says(FullState(dev), f) /\ FullState(dev)[f] = dev[f]
  BY <1>a, FullSaid
<1>3. Meaning'
  BY <1>0, SameMeaning DEF LampInv
<1>4. /\ LevelRight' <=> LevelRight
      /\ ColourRight' <=> ColourRight
  BY <1>0 DEF LevelRight, LevelOf, ColourRight, ColourOf
<1>5. ChanForm(chan)' /\ CacheForm(cache)'
      /\ (ReportOf(plugin, feats, status)
         /\ (plugin = "homeassistant" /\ status # Nothing => Message(plugin, feats, status)))'
      /\ rough' \in BOOLEAN /\ (rough' => plugin' = "tasmota")
  BY <1>0 DEF LampInv, LampForm, ChanForm, CacheForm
<1>6. NoSnap' = NoSnap /\ FullState(dev) # NoSnap
  BY <1>2 DEF NoSnap
<1>e. Len(<<>>) = 0 /\ \E M : <<>> \in Seq(M)
  BY EmptySeq
<1>7. ASSUME ZigbeeReconnect \/ TasmotaReconnect PROVE LampInv'
  <2>1. /\ reports' = <<>> /\ newest' = FALSE /\ UNCHANGED <<snap, overtaken>>
        /\ missed' = (missed \/ reports # <<>>) /\ plugin \in {"zigbee2mqtt", "tasmota"}
    BY <1>7 DEF ZigbeeReconnect, TasmotaReconnect, Lost
  <2>2. LampForm'
    <3>1. 1..Len(reports') = {}
      BY <1>e, <2>1
    <3>2. (newest \in BOOLEAN /\ overtaken \in BOOLEAN /\ missed \in BOOLEAN)'
      BY <2>1 DEF LampInv, LampForm
    <3>3. (snap # NoSnap => Message(plugin, feats, snap) /\ plugin \in {"homeassistant", "wled", "shelly"})'
      BY <1>0, <1>6, <2>1 DEF LampInv, LampForm
    <3> QED BY <1>1, <1>5, <1>e, <2>1, <3>1, <3>2, <3>3 DEF LampForm
  <2>3. Sending'
    <3>1. (~ (snap # NoSnap))'
      BY <1>6, <2>1 DEF LampInv, LampForm
    <3> QED BY <2>1, <3>1 DEF Sending
  <2>4. Rests'
    BY <1>4, <1>6, <2>1 DEF LampInv, Rests, InStep, NoneInFlight
  <2>5. Deltas'
    <3> SUFFICES ASSUME plugin = "tasmota", ~ missed' PROVE (LevelPending /\ ColourPending)'
      BY <1>0 DEF Deltas
    <3>0. reports = <<>> /\ ~ missed
      BY <2>1
    <3>1. 1..Len(reports') = {} /\ 1..Len(reports) = {} /\ ~ missed
      BY <1>e, <2>1, <3>0
    <3>2. LevelRight /\ ColourRight
      BY <3>1 DEF LampInv, Deltas, LevelPending, ColourPending
    <3> QED BY <1>4, <3>1, <3>2 DEF LevelPending, ColourPending
  <2>6. Merging'
    BY <1>0, <2>1 DEF Merging
  <2> QED BY <1>3, <2>2, <2>3, <2>4, <2>5, <2>6 DEF LampInv
<1>8. ASSUME HAReconnect PROVE LampInv'
  <2>1. /\ reports' = <<>> /\ newest' = FALSE /\ snap' = FullState(dev) /\ overtaken' = FALSE
        /\ missed' = (missed \/ reports # <<>>) /\ plugin = "homeassistant"
    BY <1>8 DEF HAReconnect, Lost
  <2>2. LampForm'
    <3>1. 1..Len(reports') = {}
      BY <1>e, <2>1
    <3>2. (newest \in BOOLEAN /\ overtaken \in BOOLEAN /\ missed \in BOOLEAN)'
      BY <2>1 DEF LampInv, LampForm
    <3> QED BY <1>0, <1>1, <1>2, <1>5, <1>e, <2>1, <3>1, <3>2 DEF LampForm
  <2>3. Sending'
    BY <1>1, <2>1 DEF Sending
  <2>4. Rests'
    BY <1>6, <2>1 DEF Rests, InStep, NoneInFlight
  <2>5. Deltas' /\ Merging'
    BY <1>0, <2>1 DEF Deltas, Merging
  <2> QED BY <1>3, <2>2, <2>3, <2>4, <2>5 DEF LampInv
<1>9. ASSUME HASubscribe PROVE LampInv'
  <2>1. /\ snap' = status /\ overtaken' = (missed \/ (status # FullState(dev) /\ reports = <<>>))
        /\ UNCHANGED <<reports, newest, missed>> /\ plugin = "homeassistant" /\ status # Nothing
    BY <1>9 DEF HASubscribe
  <2>2. Message(plugin, feats, status) /\ Says(status, "on") /\ status # NoSnap
    BY <1>2, <2>1 DEF LampInv, LampForm, Message
  <2>3. LampForm'
    <3>1. (newest \in BOOLEAN /\ overtaken \in BOOLEAN /\ missed \in BOOLEAN)'
      BY <2>1 DEF LampInv, LampForm
    <3>2. ((\E M : reports \in Seq(M))
              /\ \A i \in 1..Len(reports) : Message(plugin, feats, reports[i]))'
      BY <1>0, <2>1 DEF LampInv, LampForm
    <3> QED BY <1>0, <1>1, <1>5, <2>1, <2>2, <3>1, <3>2 DEF LampForm
  <2>4. Sending'
    BY <1>0, <1>1, <2>1 DEF LampInv, Sending
  <2>5. Rests'
    BY <1>6, <2>1, <2>2 DEF Rests, InStep, NoneInFlight
  <2>6. Deltas' /\ Merging'
    BY <1>0, <2>1 DEF Deltas, Merging
  <2> QED BY <1>3, <2>3, <2>4, <2>5, <2>6 DEF LampInv
<1>10. ASSUME ShellyReconnect \/ WledReconnect PROVE LampInv'
  <2>1. /\ reports' = <<FullState(dev)>> /\ newest' = TRUE
        /\ missed' = (missed \/ reports # <<>>) /\ plugin \in {"shelly", "wled"}
        /\ plugin = "shelly" => UNCHANGED <<snap, overtaken>>
        /\ plugin = "wled" => snap' = FullState(dev) /\ overtaken' = FALSE
    BY <1>10 DEF ShellyReconnect, WledReconnect, Lost
  <2>2. /\ reports' \in Seq({FullState(dev)}) /\ Len(reports') = 1 /\ reports'[1] = FullState(dev)
        /\ reports' # <<>>
    BY <2>1, OneReport
  <2>3. LampForm'
    <3>1. (newest \in BOOLEAN /\ overtaken \in BOOLEAN /\ missed \in BOOLEAN)'
      BY <2>1 DEF LampInv, LampForm
    <3>2. ((\E M : reports \in Seq(M))
              /\ \A i \in 1..Len(reports) : Message(plugin, feats, reports[i]))'
      BY <1>0, <1>2, <2>2
    <3>3. (snap # NoSnap => Message(plugin, feats, snap) /\ plugin \in {"homeassistant", "wled", "shelly"})'
      BY <1>0, <1>2, <1>6, <2>1 DEF LampInv, LampForm
    <3> QED BY <1>1, <1>5, <3>1, <3>2, <3>3 DEF LampForm
  <2>4. Sending'
    BY <1>1, <2>1, <2>2 DEF Sending
  <2>5. Rests'
    BY <2>2 DEF Rests, InStep, NoneInFlight
  <2>6. Deltas'
    BY <1>0, <2>1 DEF Deltas
  <2>7. Merging'
    <3> SUFFICES ASSUME plugin = "shelly" PROVE Merging'
      BY <1>0 DEF Merging
    <3>1. ASSUME NEW f \in Known PROVE FieldPending(f)'
      <4>1. Says(reports'[1], f) /\ reports'[1][f] = dev[f]
        BY <1>2, <2>2
      <4> QED BY <1>0, <2>2, <4>1 DEF FieldPending, Says
    <3>2. (Says(status, "on") /\ ~ missed => chan[0] = ShownBy(status))'
      BY <1>0, <2>1 DEF LampInv, Merging, Pushed, Says, ShownBy
    <3>3. (snap # NoSnap /\ ~ overtaken => snap = status)'
      <4>1. plugin = "shelly" /\ (snap # NoSnap /\ ~ overtaken => snap = status)
        BY <1>0 DEF LampInv, Merging, Pushed
      <4>2. snap' = snap /\ overtaken' = overtaken /\ status' = status /\ NoSnap' = NoSnap
        BY <1>0, <1>6, <2>1, <4>1
      <4> QED BY <4>1, <4>2
    <3> QED BY <1>0, <3>1, <3>2, <3>3 DEF Merging, Pushed
  <2> QED BY <1>3, <2>3, <2>4, <2>5, <2>6, <2>7 DEF LampInv
<1>11. ASSUME ShellySubscribe PROVE LampInv'
  <2>1. /\ snap' = status /\ overtaken' = FALSE
        /\ UNCHANGED <<reports, newest, missed>> /\ plugin = "shelly" /\ status # Nothing
    BY <1>11 DEF ShellySubscribe
  <2>2. status # NoSnap
    <3>1. "none" \notin DOMAIN status
      BY DEF LampInv, LampForm, ReportOf
    <3> QED BY <3>1 DEF NoSnap
  <2>3. LampForm'
    <3>1. (newest \in BOOLEAN /\ overtaken \in BOOLEAN /\ missed \in BOOLEAN)'
      BY <2>1 DEF LampInv, LampForm
    <3>2. ((\E M : reports \in Seq(M))
              /\ \A i \in 1..Len(reports) : Message(plugin, feats, reports[i]))'
      BY <1>0, <2>1 DEF LampInv, LampForm
    <3>3. Message(plugin, feats, status)
      BY <2>1 DEF LampInv, LampForm, Message
    <3> QED BY <1>0, <1>1, <1>5, <2>1, <3>1, <3>2, <3>3 DEF LampForm
  <2>4. Sending'
    BY <1>0, <1>1, <2>1 DEF LampInv, Sending, Whole
  <2>5. Rests'
    BY <1>6, <2>1, <2>2 DEF Rests, InStep, NoneInFlight
  <2>6. Deltas'
    BY <1>0, <2>1 DEF Deltas
  <2>7. Merging'
    <3>1. (\A f \in Known : FieldPending(f))'
      BY <1>0, <2>1 DEF LampInv, Merging, FieldPending, Known, Says
    <3>2. (Says(status, "on") /\ ~ missed => chan[0] = ShownBy(status))'
      BY <1>0, <2>1 DEF LampInv, Merging, Pushed, Says, ShownBy
    <3>3. (snap # NoSnap /\ ~ overtaken => snap = status)'
      BY <1>0, <2>1
    <3> QED BY <3>1, <3>2, <3>3 DEF Merging, Pushed
  <2> QED BY <1>3, <2>3, <2>4, <2>5, <2>6, <2>7 DEF LampInv
<1> QED BY <1>7, <1>8, <1>9, <1>10, <1>11

(* A sequence of two elements.                                             *)
LEMMA TwoReports ==
    ASSUME NEW m, NEW p
    PROVE  /\ \E V : <<m>> \o <<p>> \in Seq(V)
           /\ Len(<<m>> \o <<p>>) = 2 /\ (<<m>> \o <<p>>)[1] = m /\ (<<m>> \o <<p>>)[2] = p
<1> DEFINE r == <<m>>
           q == <<p>>
<1>1. r \in Seq({m}) /\ q \in Seq({p}) /\ Len(r) = 1 /\ Len(q) = 1 /\ r[1] = m /\ q[1] = p
  BY OneReport
<1> HIDE DEF r, q
<1>2. /\ \E V : r \o q \in Seq(V)
      /\ Len(r \o q) = Len(r) + Len(q)
      /\ \A i \in 1..Len(r) : (r \o q)[i] = r[i]
      /\ \A i \in 1..Len(q) : (r \o q)[Len(r) + i] = q[i]
  BY <1>1, Joined
<1>3. Len(r \o q) = 2 /\ (r \o q)[1] = m /\ (r \o q)[2] = p
  <2>1. 1 \in 1..Len(r) /\ 1 \in 1..Len(q) /\ Len(r) + 1 = 2 /\ Len(r) + Len(q) = 2
    BY <1>1
  <2>2. (r \o q)[1] = r[1] /\ (r \o q)[Len(r) + 1] = q[1]
    BY <1>2, <2>1
  <2> QED BY <1>1, <1>2, <2>1, <2>2
<1> QED BY <1>2, <1>3 DEF r, q

(* What the lamp reports.                                                  *)
ReportsOf(d, s, q) ==
    /\ \E U : q \in Seq(U)
    /\ Len(q) \in 0..2 /\ \A j \in 1..Len(q) : Message(plugin, feats, q[j])
    /\ Whole => \/ q = <<>> /\ d = dev /\ plugin = "homeassistant"
                \/ q # <<>> /\ Len(q) = 1 /\ q[1] = FullState(d)
    /\ plugin = "shelly" =>
         /\ Len(q) \in 0..1
         /\ \A f \in Known : /\ d[f] # dev[f] => Len(q) = 1 /\ Says(q[1], f) /\ q[1][f] = d[f]
                             /\ d[f] = dev[f] => \A j \in 1..Len(q) : ~ Says(q[j], f)
    /\ plugin = "tasmota" =>
         /\ q # <<>> /\ Len(q) = (IF d.on # dev.on THEN 2 ELSE 1) /\ ~ Says(q[1], "power")
         /\ d.on # dev.on => q[2] = [power |-> d.on]
         /\ \A f \in {"on", "bri", "col"} :
              /\ Says(q[1], f) <=> f \in Known /\ (d[f] # dev[f] \/ Says(s, f))
              /\ Says(q[1], f) => q[1][f] = d[f]

(* Every device reports like that.                                         *)
LEMMA ReportedIs ==
    ASSUME LampBase, ALamp(dev), NEW d, ALamp(d), NEW s, NEW q, q = Reported(d, s)
    PROVE  ReportsOf(d, s, q)
<1> USE DEF ReportsOf
<1> DEFINE changed == {f \in Known : d[f] # dev[f]}
<1>0. /\ \A r : (ReportOf(plugin, feats, r) <=> AReport(r))
             /\ (Message(plugin, feats, r) <=> AMessage(r))
      /\ AMessage(FullState(d))
      /\ \A D : D \subseteq Known => AReport(FieldsOf(d, D)) /\ DOMAIN FieldsOf(d, D) = D
                         /\ \A f \in D : FieldsOf(d, D)[f] = d[f]
  BY MessageIs, StateSaid
<1>1. \A x : <<x>> \in Seq({x}) /\ Len(<<x>>) = 1 /\ <<x>>[1] = x /\ <<x>> # <<>>
  BY OneReport
<1>2. Len(<<>>) = 0 /\ \E M : <<>> \in Seq(M)
  BY EmptySeq
<1>3. CASE plugin \in {"zigbee2mqtt", "wled"} \/ (plugin = "homeassistant" /\ d # dev)
  <2>1. q = <<FullState(d)>> /\ plugin \notin {"shelly", "tasmota"}
    BY <1>3 DEF Reported
  <2>2. (\E U : q \in Seq(U)) /\ Len(q) = 1 /\ q[1] = FullState(d) /\ q # <<>>
    BY <1>1, <2>1
  <2>3. Len(q) \in 0..2 /\ \A j \in 1..Len(q) : Message(plugin, feats, q[j])
    BY <1>0, <2>2
  <2>4. plugin # "shelly" /\ plugin # "tasmota"
    BY <2>1
  <2> QED BY <2>2, <2>3, <2>4
<1>4. CASE plugin = "homeassistant" /\ d = dev
  <2>1. q = <<>>
    BY <1>4 DEF Reported
  <2>2. Len(q) = 0 /\ \E M : q \in Seq(M)
    BY <1>2, <2>1
  <2>3. 1..Len(q) = {} /\ Len(q) \in 0..2
    BY <2>2
  <2>4. plugin # "shelly" /\ plugin # "tasmota"
            /\ (q = <<>> /\ d = dev /\ plugin = "homeassistant")
    BY <1>4, <2>1
  <2>5. \A j \in 1..Len(q) : Message(plugin, feats, q[j])
    BY <2>3
  <2> QED BY <2>2, <2>3, <2>4, <2>5
<1>5. CASE plugin = "shelly"
  <2>0. ~ Whole
    BY <1>5 DEF Whole
  <2>1. CASE changed = {}
    <3>1. q = <<>>
      BY <1>5, <2>1 DEF Reported
    <3>2. Len(q) = 0 /\ \E M : q \in Seq(M)
      BY <1>2, <3>1
    <3> QED BY <1>5, <2>0, <2>1, <3>2
  <2>2. CASE changed # {}
    <3>1. q = <<FieldsOf(d, changed)>>
      BY <1>5, <2>2 DEF Reported
    <3>2. q \in Seq({FieldsOf(d, changed)}) /\ Len(q) = 1 /\ q[1] = FieldsOf(d, changed)
      BY <1>1, <3>1
    <3>3. AReport(q[1]) /\ DOMAIN q[1] = changed /\ \A f \in changed : q[1][f] = d[f]
      BY <1>0, <3>2
    <3>4. Message(plugin, feats, q[1])
      BY <1>0, <1>5, <3>3 DEF AMessage
    <3>5. \A f \in Known : /\ d[f] # dev[f] => Says(q[1], f) /\ q[1][f] = d[f]
                           /\ d[f] = dev[f] => ~ Says(q[1], f)
      BY <3>3 DEF Says
    <3> HIDE DEF changed
    <3> QED BY <1>5, <2>0, <3>2, <3>4, <3>5
  <2> QED BY <2>1, <2>2
<1>6. CASE plugin = "tasmota"
  <2> DEFINE asked == changed \cup (DOMAIN s \cap Known)
             m == FieldsOf(d, asked)
             p == [power |-> d.on]
  <2>0. ~ Whole
    BY <1>6 DEF Whole
  <2>1. q = <<m>> \o (IF d.on # dev.on THEN <<p>> ELSE <<>>)
    BY <1>6 DEF Reported
  <2>2. AReport(m) /\ DOMAIN m = asked /\ \A f \in asked : m[f] = d[f]
    BY <1>0
  <2>3. Message(plugin, feats, m) /\ Message(plugin, feats, p)
    BY <1>0, <1>6, <2>2 DEF AMessage, APower, ALamp
  <2>4. /\ ~ Says(m, "power")
        /\ \A f \in {"on", "bri", "col"} :
              /\ Says(m, f) <=> f \in Known /\ (d[f] # dev[f] \/ Says(s, f))
              /\ Says(m, f) => m[f] = d[f]
    BY <2>2 DEF Says, Known
  <2> HIDE DEF m, p
  <2>5. CASE d.on # dev.on
    <3>1. q = <<m>> \o <<p>>
      BY <2>1, <2>5
    <3>3. (\E V : q \in Seq(V)) /\ Len(q) = 2 /\ q[1] = m /\ q[2] = p
      BY <3>1, TwoReports
    <3>4. q # <<>>
      BY <3>3, Empty
    <3> QED BY <1>6, <2>0, <2>3, <2>4, <2>5, <3>3, <3>4 DEF p
  <2>6. CASE ~ (d.on # dev.on)
    <3>1. q = <<m>>
      BY <2>1, <2>6
    <3>2. q \in Seq({m}) /\ Len(q) = 1 /\ q[1] = m /\ q # <<>>
      BY <1>1, <3>1
    <3> QED BY <1>6, <2>0, <2>3, <2>4, <2>6, <3>2
  <2> QED BY <2>5, <2>6
<1> QED BY <1>3, <1>4, <1>5, <1>6 DEF LampBase

(* The list of groups and devices of Zigbee2MQTT, from which the bridge    *)
(* learns what the lamp can do.                                            *)
LEMMA GroupsKeeps ==
    ASSUME LampInv, Groups
    PROVE  LampInv'
<1>a. LampBase /\ LampForm /\ ALamp(dev)
  BY DEF LampInv, LampForm
<1>0. /\ UNCHANGED <<plugin, feats, dev, chan, cache, status, reports, snap, newest, overtaken,
             rough, wantCol>>
      /\ plugin = "zigbee2mqtt" /\ missed' = (missed \/ ep' # ep)
      /\ want' = IF ep' = ep THEN want ELSE NoWant
      /\ ep' = Z!Inferred({"lamp"}, [m \in {"lamp"} |-> feats])
  BY DEF Groups
<1>1. ep' = feats
  <2>1. UNION {[m \in {"lamp"} |-> feats][n] :
                 n \in {"lamp"} \cap DOMAIN [m \in {"lamp"} |-> feats]} = feats
    OBVIOUS
  <2> QED BY <1>a, <1>0, <2>1 DEF Z!Inferred, LampBase
<1>2. LampBase'
  BY <1>a, <1>0, <1>1 DEF LampBase
<1>3. ALamp(dev)'
  BY <1>a, <1>0 DEF ALamp, BriMax, AShade
<1>4. FullState(dev)' = FullState(dev)
  BY <1>0 DEF FullState, FieldsOf, Known
<1>5. CASE ep' = ep
  <2>1. UNCHANGED <<ep, missed, want>>
    BY <1>0, <1>5 DEF LampInv, LampForm
  <2>2. Meaning'
    BY <1>0, <2>1, SameMeaning DEF LampInv
  <2>3. LampForm'
    BY <1>0, <1>2, <1>3, <2>1 DEF LampInv, LampForm, ChanForm, CacheForm, NoSnap
  <2>4. Sending'
    BY <1>0, <1>4, <2>1 DEF LampInv, Sending, Unordered, Whole, NoSnap
  <2>5. Rests'
    BY <1>0, <2>1 DEF LampInv, Rests, InStep, NoneInFlight, NoSnap, LevelRight, LevelOf,
                      ColourRight, ColourOf
  <2>6. Deltas' /\ Merging'
    BY <1>0 DEF Deltas, Merging
  <2> QED BY <2>2, <2>3, <2>4, <2>5, <2>6 DEF LampInv
<1>6. CASE ep' # ep
  <2>1. missed' = TRUE /\ want' = NoWant
    BY <1>0, <1>6
  <2>2. wantCol = NoColour
    <3>1. ep = {}
      BY <1>a, <1>1, <1>6 DEF LampBase
    <3> QED BY <3>1 DEF LampInv, Meaning
  <2>3. LampForm'
    BY <1>0, <1>2, <1>3, <2>1 DEF LampInv, LampForm, ChanForm, CacheForm, NoSnap
  <2>4. Sending'
    BY <1>0, <1>4, <2>1 DEF LampInv, Sending, Unordered, Whole, NoSnap
  <2>5. Rests' /\ Deltas' /\ Merging'
    BY <1>0, <2>1 DEF Rests, InStep, Deltas, Merging
  <2>6. Meaning'
    BY <1>0, <2>1, <2>2 DEF Meaning, NoWant, NoColour
  <2> QED BY <2>3, <2>4, <2>5, <2>6 DEF LampInv
<1> QED BY <1>5, <1>6

(* The status that is asked of a Shelly replaces the merged one.           *)
LEMMA PollKeeps ==
    ASSUME LampInv, ShellyPoll
    PROVE  LampInv'
<1>a. LampBase /\ LampForm /\ ALamp(dev) /\ ChanForm(chan)
  BY DEF LampInv, LampForm
<1>b. \A x : (ReportOf(plugin, feats, x) <=> AReport(x))
          /\ (Message(plugin, feats, x) <=> AMessage(x))
  BY <1>a, MessageIs
<1> DEFINE r == FullState(dev)
<1>0. /\ UNCHANGED <<plugin, feats, ep, dev, reports, snap, newest, rough, want, wantCol>>
      /\ plugin = "shelly" /\ missed' = FALSE /\ overtaken' = (overtaken \/ snap # NoSnap)
      /\ status' = StatusWith(r) /\ Handle(S!Updates(ep, StatusWith(r)))
  BY DEF ShellyPoll, StatusWith
<1>1. LampBase' /\ ALamp(dev)' /\ FullState(dev)' = FullState(dev)
  BY <1>a, <1>0, SameLamp
<1>2. ReportOf(plugin, feats, r) /\ \A f \in Known : Says(r, f) /\ r[f] = dev[f]
  BY <1>a, <1>0, FullSaid
<1> HIDE DEF r
<1>3. /\ AReport(StatusWith(r))
      /\ \A f \in {"on", "bri", "col"} :
              /\ Says(StatusWith(r), f) <=> Says(r, f) \/ Says(status, f)
              /\ Says(StatusWith(r), f)
                     => StatusWith(r)[f] = IF Says(r, f) THEN r[f] ELSE status[f]
  <2>1. AReport(r) /\ AReport(status)
    BY <1>b, <1>2 DEF LampInv, LampForm
  <2> QED BY <1>0, <2>1, Merges
<1>4. /\ ChanForm(chan') /\ cache' = cache
      /\ chan'[0] = IF ~ Says(StatusWith(r), "on") THEN chan[0] ELSE ShownBy(StatusWith(r))
  BY <1>a, <1>0, <1>3, HandlesShelly
<1>5. LampForm'
  <2>1. (ReportOf(plugin, feats, status))'
    BY <1>0, <1>3, <1>b
  <2>2. ChanForm(chan)' /\ CacheForm(cache)'
    BY <1>4 DEF LampInv, LampForm, ChanForm, CacheForm
  <2>3. missed' \in BOOLEAN /\ overtaken' \in BOOLEAN
    BY <1>0 DEF LampInv, LampForm
  <2> QED BY <1>0, <1>1, <2>1, <2>2, <2>3 DEF LampInv, LampForm, NoSnap
<1>6. Sending'
  BY <1>0 DEF LampInv, Sending, Unordered, Whole
<1>7. Deltas'
  BY <1>0 DEF Deltas
<1>8. Merging'
  <2>1. Known' = Known
    BY <1>0 DEF Known
  <2>2. ASSUME NEW f \in Known PROVE FieldPending(f)'
    <3>1. FieldPending(f) /\ f \in {"on", "bri", "col"}
      BY <1>0 DEF LampInv, Merging, Known
    <3>2. Says(StatusWith(r), f) /\ StatusWith(r)[f] = dev[f]
      BY <1>2, <1>3, <3>1
    <3> QED BY <1>0, <3>1, <3>2 DEF FieldPending, Says
  <2>3. Pushed'
    <3>1. (~ (snap # NoSnap /\ ~ overtaken))'
      BY <1>0 DEF NoSnap
    <3> QED BY <1>0, <1>4, <3>1 DEF Pushed, Says, ShownBy
  <2> QED BY <2>1, <2>2, <2>3 DEF Merging
<1>9. Rests'
  <2> SUFFICES ASSUME NoneInFlight' PROVE (LevelRight /\ ColourRight)'
    BY DEF Rests, InStep
  <2>1. (LampForm /\ Merging /\ plugin = "shelly" /\ reports = <<>> /\ ~ missed)'
    BY <1>0, <1>5, <1>8 DEF NoneInFlight
  <2> QED BY <2>1, ShellyAtRest, PTL
<1>10. Meaning'
  BY <1>0, SameMeaning DEF LampInv
<1> QED BY <1>5, <1>6, <1>7, <1>8, <1>9, <1>10 DEF LampInv

(* A sequence with one element behind it.                                  *)
OneMore(r, x, s) ==
    /\ \E V : s \in Seq(V)
    /\ Len(r) \in Nat /\ Len(s) = Len(r) + 1 /\ s # <<>>
    /\ \A i \in 1..Len(r) : s[i] = r[i]
    /\ s[Len(r) + 1] = x

(* It is what appending the element makes.                                 *)
LEMMA Added ==
    ASSUME NEW M, NEW r \in Seq(M), NEW x
    PROVE  OneMore(r, x, r \o <<x>>)
<1> DEFINE q == <<x>>
<1>1. q \in Seq({x}) /\ Len(q) = 1 /\ q[1] = x
  BY OneReport
<1> HIDE DEF q
<1>2. /\ \E V : r \o q \in Seq(V)
      /\ Len(r) \in Nat /\ Len(r \o q) = Len(r) + Len(q)
      /\ \A i \in 1..Len(r) : (r \o q)[i] = r[i]
      /\ \A i \in 1..Len(q) : (r \o q)[Len(r) + i] = q[i]
  BY <1>1, Joined
<1>3. Len(r \o q) = Len(r) + 1 /\ (r \o q)[Len(r) + 1] = x
  BY <1>1, <1>2
<1>4. r \o q # <<>>
  BY <1>2, <1>3, Empty
<1> QED BY <1>2, <1>3, <1>4 DEF OneMore, q

(* The periodic state of Tasmota.                                          *)
LEMMA TelemetryKeeps ==
    ASSUME LampInv, Telemetry
    PROVE  LampInv'
<1>a. LampBase /\ LampForm /\ ALamp(dev)
  BY DEF LampInv, LampForm
<1> DEFINE r == FullState(dev)
           n == Len(reports)
<1>0. /\ UNCHANGED <<plugin, feats, ep, dev, chan, cache, status, rough, want, wantCol, snap,
             overtaken, missed>>
      /\ plugin = "tasmota" /\ reports' = reports \o <<r>> /\ newest' = (newest \/ <<r>> # <<>>)
  BY DEF Telemetry, Send, Same
<1>1. LampBase' /\ ALamp(dev)' /\ FullState(dev)' = FullState(dev)
  BY <1>a, <1>0, SameLamp
<1>2. /\ Message(plugin, feats, r) /\ ReportOf(plugin, feats, r)
      /\ \A f \in Known : Says(r, f) /\ r[f] = dev[f]
  BY <1>a, <1>0, FullSaid
<1>3. ~ Says(r, "power") /\ ("colour" \notin feats => ~ Says(r, "col"))
      /\ ("bri" \notin feats => ~ Says(r, "bri"))
  BY <1>2 DEF ReportOf, Says
<1>4. /\ \E V : reports' \in Seq(V)
      /\ n \in Nat /\ Len(reports') = n + 1 /\ reports' # <<>>
      /\ \A i \in 1..n : reports'[i] = reports[i]
      /\ reports'[n + 1] = r
  <2>1. PICK M : reports \in Seq(M)
    BY <1>a DEF LampForm
  <2> HIDE DEF r
  <2>2. OneMore(reports, r, reports \o <<r>>)
    BY <2>1, Added
  <2>3. reports' = reports \o <<r>>
    BY <1>0
  <2> QED BY <2>2, <2>3 DEF OneMore
<1>5. newest' = TRUE
  BY <1>0, OneReport DEF LampInv, LampForm
<1> HIDE DEF r, n
<1>6. LampForm'
  <2>1. (\A i \in 1..Len(reports) : Message(plugin, feats, reports[i]))'
    <3> SUFFICES ASSUME NEW i \in 1..(n + 1) PROVE Message(plugin, feats, reports'[i])
      BY <1>0, <1>4
    <3>1. CASE i = n + 1
      BY <1>2, <1>4, <3>1
    <3>2. CASE i # n + 1
      <4>1. i \in 1..n
        BY <1>4, <3>2
      <4> QED BY <1>4, <4>1 DEF LampInv, LampForm, n
    <3> QED BY <3>1, <3>2
  <2>2. ChanForm(chan)' /\ CacheForm(cache)'
    BY <1>0 DEF LampInv, LampForm, ChanForm, CacheForm
  <2> QED BY <1>0, <1>1, <1>4, <1>5, <2>1, <2>2 DEF LampInv, LampForm, NoSnap
<1>7. Sending'
  BY <1>0, <1>5 DEF Sending, Whole
<1>8. Rests'
  BY <1>4 DEF Rests, InStep, NoneInFlight
<1>9. Merging'
  BY <1>0 DEF Merging
<1>10. Meaning'
  BY <1>0, SameMeaning DEF LampInv
<1>11. Deltas'
  <2>1. /\ LevelSaid(r) /\ LitSaid(r) = dev.on /\ (Says(r, "bri") => r.bri = dev.bri)
        /\ "colour" \in feats => Says(r, "col") /\ r.col = dev.col
    BY <1>2, <1>3 DEF LevelSaid, LitSaid, Known
  <2>2. \A i \in 1..(n + 1) : i = n + 1 \/ n + 1 > i
    BY <1>4
  <2>3. n + 1 \in 1..(n + 1)
    BY <1>4
  <2>4. LevelPending'
    BY <1>0, <1>4, <2>1, <2>2, <2>3 DEF LevelPending, LevelSaid, LitSaid, Says
  <2>5. ColourPending'
    <3>1. CASE "colour" \in feats
      BY <1>0, <1>4, <2>1, <2>2, <2>3, <3>1 DEF ColourPending, Says
    <3>2. CASE "colour" \notin feats
      <4>1. \A i \in 1..(n + 1) : ~ Says(reports'[i], "col")
        <5>1. \A i \in 1..(n + 1) : Message(plugin, feats, reports'[i])
          BY <1>0, <1>4, <1>6 DEF LampForm
        <5>2. \A i \in 1..(n + 1) : ReportOf(plugin, feats, reports'[i])
                  \/ DOMAIN reports'[i] = {"power"}
          BY <1>0, <5>1 DEF Message
        <5>3. \A x : ReportOf(plugin, feats, x) \/ DOMAIN x = {"power"} => ~ Says(x, "col")
          BY <3>2 DEF ReportOf, Says
        <5> QED BY <5>2, <5>3
      <4> QED BY <1>0, <1>4, <3>2, <4>1 DEF ColourPending, ColourRight, Says
    <3> QED BY <3>1, <3>2
  <2> QED BY <2>4, <2>5 DEF Deltas
<1> QED BY <1>6, <1>7, <1>8, <1>9, <1>10, <1>11 DEF LampInv

(* A lamp that becomes d, told s, and reports; colours are cached only as  *)
(* they are told; a dimmer of Tasmota that lights up says so.              *)
ToldStep(d, s) ==
    /\ ALamp(d) /\ dev' = d /\ Send(Reported(d, s))
    /\ UNCHANGED <<plugin, feats, ep, chan, status, snap, overtaken, missed, rough>>
    /\ CacheForm(cache')
    /\ cache' # cache /\ plugin # "wled"
           => Says(s, "col") /\ ("colour" \in feats => d.col = cache')
    /\ \A f \in {"on", "bri", "col"} \ Known : d[f] = dev[f]
    /\ plugin = "tasmota" =>
         ((Says(s, "bri") \/ d.bri # dev.bri) /\ "bri" \in feats /\ d.on = dev.on
            /\ ~ Says(s, "on") => d.on)

(* The reports q behind the n in flight.                                   *)
Appended(d, s, q, n) ==
    /\ \E V : reports' \in Seq(V)
    /\ n \in Nat /\ Len(q) \in 0..2 /\ Len(reports') = n + Len(q)
    /\ \A i \in 1..n : reports'[i] = reports[i]
    /\ \A j \in 1..Len(q) : reports'[n + j] = q[j]
    /\ \A k \in 1..(n + Len(q)) : k \in 1..n \/ \E j \in 1..Len(q) : k = n + j
    /\ newest' = (newest \/ q # <<>>)
    /\ q = <<>> <=> Len(q) = 0
    /\ q = <<>> => reports' = reports

(* It is the reports of the lamp behind those in flight.                   *)
LEMMA Behind ==
    ASSUME LampForm, NEW d, NEW s, ToldStep(d, s), NEW q, q = Reported(d, s), NEW n,
           n = Len(reports)
    PROVE  Appended(d, s, q, n)
<1>1. PICK M : reports \in Seq(M)
  BY DEF LampForm
<1>2. (\E U : q \in Seq(U)) /\ Len(q) \in 0..2
  <2>1. LampBase /\ ALamp(dev) /\ ALamp(d)
    BY DEF LampForm, ToldStep
  <2>2. ReportsOf(d, s, q)
    BY <2>1, ReportedIs
  <2> QED BY <2>2 DEF ReportsOf
<1>3. PICK U : q \in Seq(U)
  BY <1>2
<1>4. reports' = reports \o q /\ newest' = (newest \/ q # <<>>)
  BY DEF ToldStep, Send
<1>5. /\ \E V : reports' \in Seq(V)
      /\ n \in Nat /\ Len(q) \in Nat /\ Len(reports') = n + Len(q)
      /\ \A i \in 1..n : reports'[i] = reports[i]
      /\ \A j \in 1..Len(q) : reports'[n + j] = q[j]
  BY <1>1, <1>3, <1>4, Joined
<1>6. \A k \in 1..(n + Len(q)) : k \in 1..n \/ \E j \in 1..Len(q) : k = n + j
  <2> SUFFICES ASSUME NEW k \in 1..(n + Len(q)), k \notin 1..n
               PROVE \E j \in 1..Len(q) : k = n + j
    OBVIOUS
  <2>1. k - n \in 1..Len(q) /\ k = n + (k - n)
    BY <1>5
  <2> QED BY <2>1
<1>7. q = <<>> <=> Len(q) = 0
  BY <1>3, Empty
<1>8. q = <<>> => reports' = reports
  BY <1>1, <1>4
<1> QED BY <1>2, <1>4, <1>5, <1>6, <1>7, <1>8 DEF Appended

(* Telling the lamp something keeps the form of the state,                 *)
LEMMA ToldForm ==
    ASSUME LampForm, NEW d, NEW s, ToldStep(d, s)
    PROVE  LampForm'
<1>0. PICK q : q = Reported(d, s)
  OBVIOUS
<1>1. PICK n : n = Len(reports)
  OBVIOUS
<1>a. LampBase /\ ALamp(dev) /\ ALamp(d) /\ dev' = d /\ CacheForm(cache')
      /\ UNCHANGED <<plugin, feats, ep, chan, status, snap, overtaken, missed, rough>>
  BY DEF LampForm, ToldStep
<1>b. Appended(d, s, q, n) /\ ReportsOf(d, s, q)
  BY <1>0, <1>1, <1>a, Behind, ReportedIs
<1>2. /\ \E V : reports' \in Seq(V)
      /\ n \in Nat /\ Len(reports') = n + Len(q)
      /\ \A i \in 1..n : reports'[i] = reports[i]
      /\ \A j \in 1..Len(q) : reports'[n + j] = q[j]
      /\ \A k \in 1..(n + Len(q)) : k \in 1..n \/ \E j \in 1..Len(q) : k = n + j
      /\ newest' = (newest \/ q # <<>>)
  BY <1>b DEF Appended
<1>3. \A j \in 1..Len(q) : Message(plugin, feats, q[j])
  BY <1>b DEF ReportsOf
<1>4. (\A i \in 1..Len(reports) : Message(plugin, feats, reports[i]))'
  <2> SUFFICES ASSUME NEW i \in 1..(n + Len(q)) PROVE Message(plugin, feats, reports'[i])
    BY <1>a, <1>2
  <2>1. CASE i \in 1..n
    BY <1>1, <1>2, <2>1 DEF LampForm
  <2>2. CASE i \notin 1..n
    BY <1>2, <1>3, <2>2
  <2> QED BY <2>1, <2>2
<1>5. LampBase'
  BY <1>a DEF LampBase
<1>6. ALamp(dev)'
  BY <1>a DEF ALamp, BriMax, AShade
<1>7. ChanForm(chan)' /\ CacheForm(cache)'
  BY <1>a DEF LampForm, ChanForm, CacheForm
<1>8. newest' \in BOOLEAN
  BY <1>2 DEF LampForm
<1>9. (/\ ReportOf(plugin, feats, status)
       /\ plugin = "homeassistant" /\ status # Nothing => Message(plugin, feats, status)
       /\ snap # NoSnap => Message(plugin, feats, snap) /\ plugin \in {"homeassistant", "wled", "shelly"}
       /\ overtaken \in BOOLEAN /\ missed \in BOOLEAN
       /\ rough \in BOOLEAN /\ (rough => plugin = "tasmota"))'
  BY <1>a DEF LampForm, NoSnap
<1>10. (\E M : reports \in Seq(M))'
  BY <1>2
<1> QED BY <1>4, <1>5, <1>6, <1>7, <1>8, <1>9, <1>10 DEF LampForm

(* and with what it reports still in flight, nothing is at rest;           *)
LEMMA ToldRests ==
    ASSUME LampForm, Sending, Rests, NEW d, NEW s, ToldStep(d, s)
    PROVE  Sending' /\ (plugin # "shelly" => Rests')
<1>0. PICK q : q = Reported(d, s)
  OBVIOUS
<1>1. PICK n : n = Len(reports)
  OBVIOUS
<1>a. LampBase /\ ALamp(dev) /\ ALamp(d) /\ dev' = d
      /\ UNCHANGED <<plugin, feats, ep, chan, status, snap, overtaken, missed, rough>>
      /\ (cache' # cache /\ plugin # "wled" => ("colour" \in feats => d.col = cache'))
  BY DEF LampForm, ToldStep
<1>b. Appended(d, s, q, n) /\ ReportsOf(d, s, q)
  BY <1>0, <1>1, <1>a, Behind, ReportedIs
<1>2. /\ n \in Nat /\ Len(q) \in 0..2 /\ Len(reports') = n + Len(q) /\ \E V : reports' \in Seq(V)
      /\ \A j \in 1..Len(q) : reports'[n + j] = q[j]
      /\ newest' = (newest \/ q # <<>>)
      /\ q = <<>> <=> Len(q) = 0
      /\ q = <<>> => reports' = reports
  BY <1>b DEF Appended
<1>3. /\ Whole => \/ q = <<>> /\ d = dev /\ plugin = "homeassistant"
                  \/ q # <<>> /\ Len(q) = 1 /\ q[1] = FullState(d)
      /\ plugin = "tasmota" => q # <<>>
  BY <1>b DEF ReportsOf
<1>4. Whole' = Whole /\ Unordered' = Unordered /\ NoSnap' = NoSnap
  BY <1>a DEF Whole, Unordered, NoSnap
<1>5. FullState(dev)' = FullState(d)
  BY <1>a DEF FullState, FieldsOf, Known
<1>6. CASE q = <<>>
  <2>1. reports' = reports /\ newest' = newest /\ plugin # "tasmota"
    BY <1>2, <1>3, <1>6 DEF LampForm
  <2>2. Whole => d = dev
    BY <1>3, <1>6
  <2>3. Sending'
    BY <1>a, <1>4, <1>5, <2>1, <2>2 DEF Sending
  <2>4. ASSUME plugin # "shelly" PROVE Rests'
    <3>1. Whole /\ d = dev /\ plugin = "homeassistant"
      BY <1>3, <1>6, <1>a, <2>1, <2>4 DEF Whole, LampBase
    <3> SUFFICES ASSUME NoneInFlight', ~ missed' PROVE (LevelRight /\ ColourRight)'
      BY DEF Rests, InStep
    <3>2. LevelRight /\ ColourRight
      BY <1>a, <1>4, <2>1 DEF Rests, InStep, NoneInFlight
    <3>3. LevelRight'
      BY <1>a, <3>1, <3>2 DEF LevelRight, LevelOf
    <3>4. ColourRight'
      BY <1>a, <3>1, <3>2 DEF ColourRight, ColourOf
    <3> QED BY <3>3, <3>4
  <2> QED BY <2>3, <2>4
<1>7. CASE q # <<>>
  <2>1. newest' = TRUE /\ reports' # <<>>
    <3>1. Len(reports') # 0
      BY <1>2, <1>7
    <3> QED BY <1>2, <1>7, <3>1, Empty DEF LampForm
  <2>2. Whole => reports'[Len(reports')] = FullState(d)
    <3>1. Whole => Len(reports') = n + 1 /\ reports'[n + 1] = q[1] /\ q[1] = FullState(d)
      <4>1. Whole => Len(q) = 1 /\ 1 \in 1..Len(q) /\ q[1] = FullState(d)
        BY <1>3, <1>7
      <4> QED BY <1>2, <4>1
    <3> QED BY <3>1
  <2>3. Sending'
    BY <1>4, <1>5, <2>1, <2>2 DEF Sending
  <2>4. Rests'
    BY <2>1 DEF Rests, InStep, NoneInFlight
  <2> QED BY <2>3, <2>4
<1> QED BY <1>6, <1>7

(* what a Shelly reports says all that changed,                            *)
LEMMA ToldMerging ==
    ASSUME LampForm, Merging, plugin = "shelly", NEW d, NEW s, ToldStep(d, s)
    PROVE  Merging' /\ Rests'
<1>0. PICK q : q = Reported(d, s)
  OBVIOUS
<1>1. PICK n : n = Len(reports)
  OBVIOUS
<1>a. LampBase /\ ALamp(dev) /\ ALamp(d) /\ dev' = d
      /\ UNCHANGED <<plugin, feats, ep, chan, status, snap, overtaken, missed, rough>>
  BY DEF LampForm, ToldStep
<1>b. Appended(d, s, q, n) /\ ReportsOf(d, s, q)
  BY <1>0, <1>1, <1>a, Behind, ReportedIs
<1>2. /\ n \in Nat /\ Len(reports') = n + Len(q)
      /\ \A i \in 1..n : reports'[i] = reports[i]
      /\ \A j \in 1..Len(q) : reports'[n + j] = q[j]
      /\ \A k \in 1..(n + Len(q)) : k \in 1..n \/ \E j \in 1..Len(q) : k = n + j
  BY <1>b DEF Appended
<1>3. /\ Len(q) \in 0..1
      /\ \A f \in Known : /\ d[f] # dev[f] => Len(q) = 1 /\ Says(q[1], f) /\ q[1][f] = d[f]
                          /\ d[f] = dev[f] => \A j \in 1..Len(q) : ~ Says(q[j], f)
  BY <1>b DEF ReportsOf
<1>4. ASSUME NEW f \in Known PROVE FieldPending(f)'
  <2>1. FieldPending(f)
    BY DEF Merging
  <2>2. CASE d[f] # dev[f]
    <3>1. Len(reports') = n + 1 /\ n + 1 \in 1..(n + 1) /\ reports'[n + 1] = q[1]
          /\ Says(q[1], f) /\ q[1][f] = d[f] /\ \A k \in 1..(n + 1) : k = n + 1 \/ n + 1 > k
      BY <1>2, <1>3, <2>2
    <3> QED BY <1>a, <3>1 DEF FieldPending, Says
  <2>3. CASE d[f] = dev[f]
    <3>1. \A j \in 1..Len(q) : ~ Says(reports'[n + j], f)
      BY <1>2, <1>3, <2>3
    <3>2. \A k \in 1..Len(reports') : k \in 1..n \/ ~ Says(reports'[k], f)
      BY <1>2, <3>1
    <3>3. \A k \in 1..n : k \in 1..Len(reports') /\ reports'[k] = reports[k]
      BY <1>2, <1>3
    <3>4. ASSUME NEW k \in 1..Len(reports'), Says(reports'[k], f),
                 \A j \in 1..Len(reports') : j > k => ~ Says(reports'[j], f)
          PROVE  reports'[k][f] = d[f]
      <4>1. k \in 1..n /\ reports'[k] = reports[k]
        BY <3>2, <3>3, <3>4
      <4>2. \A j \in 1..n : j > k => ~ Says(reports[j], f)
        BY <3>3, <3>4
      <4> QED BY <1>1, <2>1, <2>3, <3>4, <4>1, <4>2 DEF FieldPending
    <3>5. ASSUME \A k \in 1..Len(reports') : ~ Says(reports'[k], f)
          PROVE  Says(status, f) /\ status[f] = d[f]
      <4>1. \A k \in 1..n : ~ Says(reports[k], f)
        BY <3>3, <3>5
      <4> QED BY <1>1, <2>1, <2>3, <4>1 DEF FieldPending
    <3> QED BY <1>a, <3>4, <3>5 DEF FieldPending, Says
  <2> QED BY <2>2, <2>3
<1>5. Merging'
  <2>1. Known' = Known
    BY <1>a DEF Known
  <2>2. Pushed'
    BY <1>a DEF Merging, Pushed, Says, ShownBy, NoSnap
  <2> QED BY <1>4, <2>1, <2>2 DEF Merging
<1>6. Rests'
  <2> SUFFICES ASSUME NoneInFlight', ~ missed' PROVE (LevelRight /\ ColourRight)'
    BY DEF Rests, InStep
  <2>1. (LampForm /\ Merging /\ plugin = "shelly" /\ reports = <<>> /\ ~ missed)'
    BY <1>a, <1>5, ToldForm DEF NoneInFlight
  <2> QED BY <2>1, ShellyAtRest, PTL
<1> QED BY <1>5, <1>6

(* Nothing is said of the colour, and it is the same.                      *)
LEMMA QuietColour ==
    ASSUME ColourPending, NEW n, n = Len(reports), UNCHANGED <<plugin, feats, ep, chan>>,
           \A i \in 1..n : reports'[i] = reports[i], 1..n \subseteq 1..Len(reports'),
           \A k \in 1..Len(reports') : k \in 1..n \/ ~ Says(reports'[k], "col"),
           "colour" \in feats => dev'.col = dev.col /\ cache' = cache, plugin = "tasmota",
           "colour" \notin feats => dev'.col = dev.col
    PROVE  ColourPending'
<1>1. ASSUME NEW k \in 1..Len(reports'), Says(reports'[k], "col"),
             \A j \in 1..Len(reports') : j > k => ~ Says(reports'[j], "col")
      PROVE  reports'[k].col = dev'.col
  <2>1. k \in 1..n /\ reports'[k] = reports[k]
    BY <1>1
  <2>2. \A j \in 1..n : j > k => ~ Says(reports[j], "col")
    BY <1>1
  <2> QED BY <1>1, <2>1, <2>2 DEF ColourPending
<1>2. ASSUME \A k \in 1..Len(reports') : ~ Says(reports'[k], "col") PROVE ColourRight'
  <2>1. \A k \in 1..n : ~ Says(reports[k], "col")
    BY <1>2
  <2>2. ColourRight
    BY <2>1 DEF ColourPending
  <2> QED BY <2>2 DEF ColourRight, ColourOf
<1> QED BY <1>1, <1>2 DEF ColourPending, Says

(* and so does what a Tasmota reports.                                     *)
LEMMA ToldDeltas ==
    ASSUME LampForm, Deltas, NEW d, NEW s, ToldStep(d, s)
    PROVE  Deltas'
<1>0. PICK q : q = Reported(d, s)
  OBVIOUS
<1>1. PICK n : n = Len(reports)
  OBVIOUS
<1>a. LampBase /\ ALamp(dev) /\ ALamp(d) /\ dev' = d
      /\ UNCHANGED <<plugin, feats, ep, chan, status, snap, overtaken, missed, rough>>
  BY DEF LampForm, ToldStep
<1> SUFFICES ASSUME plugin = "tasmota", ~ missed' PROVE LevelPending' /\ ColourPending'
  BY <1>a DEF Deltas
<1>b. Appended(d, s, q, n) /\ ReportsOf(d, s, q) /\ LevelPending /\ ColourPending
  BY <1>0, <1>1, <1>a, Behind, ReportedIs DEF Deltas
<1>2. /\ n \in Nat /\ Len(reports') = n + Len(q)
      /\ \A i \in 1..n : reports'[i] = reports[i]
      /\ \A j \in 1..Len(q) : reports'[n + j] = q[j]
  BY <1>b DEF Appended
<1>3. /\ Len(q) = (IF d.on # dev.on THEN 2 ELSE 1) /\ ~ Says(q[1], "power")
      /\ d.on # dev.on => q[2] = [power |-> d.on]
      /\ \A f \in {"on", "bri", "col"} :
           /\ Says(q[1], f) <=> f \in Known /\ (d[f] # dev[f] \/ Says(s, f))
           /\ Says(q[1], f) => q[1][f] = d[f]
  BY <1>b DEF ReportsOf
<1>4. /\ "bri" \notin feats => d.bri = dev.bri
      /\ "colour" \notin feats => d.col = dev.col
      /\ (Says(s, "bri") \/ d.bri # dev.bri) /\ "bri" \in feats /\ d.on = dev.on
             /\ ~ Says(s, "on") => d.on
      /\ cache' # cache => Says(s, "col")
      /\ "bri" \in Known <=> "bri" \in feats
      /\ "col" \in Known <=> "colour" \in feats
      /\ "on" \in Known
  BY <1>a DEF ToldStep, Known
<1>5. n + 1 \in 1..Len(reports') /\ reports'[n + 1] = q[1] /\ 1..n \subseteq 1..Len(reports')
  BY <1>2, <1>3
<1>6. CASE d.on # dev.on
  <2>1. Len(reports') = n + 2 /\ reports'[n + 2] = [power |-> d.on] /\ n + 2 \in 1..(n + 2)
    BY <1>2, <1>3, <1>6
  <2>2. \A k \in 1..(n + 2) : k = n + 2 \/ n + 2 > k
    BY <1>2
  <2>3. \A x : x = [power |-> d.on] =>
          LevelSaid(x) /\ LitSaid(x) = d.on /\ ~ Says(x, "bri") /\ ~ Says(x, "col")
    BY DEF LevelSaid, LitSaid, Says
  <2>4. LevelPending'
    BY <1>a, <2>1, <2>2, <2>3 DEF LevelPending, LevelSaid, LitSaid, Says
  <2>5. \A k \in 1..(n + 2) : k \in 1..n \/ k = n + 1 \/ ~ Says(reports'[k], "col")
    <3>1. \A k \in 1..(n + 2) : k \in 1..n \/ k = n + 1 \/ k = n + 2
      BY <1>2
    <3> QED BY <2>1, <2>3, <3>1
  <2>6. ColourPending'
    <3>1. CASE Says(q[1], "col")
      <4>1. q[1].col = d.col
        BY <1>3, <3>1
      <4>2. \A k \in 1..n : n + 1 > k
        BY <1>2
      <4> QED BY <1>a, <1>5, <2>1, <2>5, <3>1, <4>1, <4>2 DEF ColourPending, Says
    <3>2. CASE ~ Says(q[1], "col")
      <4>1. \A k \in 1..Len(reports') : k \in 1..n \/ ~ Says(reports'[k], "col")
        BY <1>5, <2>1, <2>5, <3>2
      <4>2. "colour" \in feats => d.col = dev.col /\ ~ Says(s, "col")
        BY <1>3, <1>4, <3>2
      <4> QED BY <1>a, <1>1, <1>2, <1>4, <1>5, <1>b, <4>1, <4>2, QuietColour
    <3> QED BY <3>1, <3>2
  <2> QED BY <2>4, <2>6
<1>7. CASE d.on = dev.on
  <2>1. Len(reports') = n + 1
    BY <1>2, <1>3, <1>7
  <2>2. \A k \in 1..(n + 1) : k \in 1..n \/ k = n + 1
    BY <1>2
  <2>3. \A k \in 1..n : n + 1 > k
    BY <1>2
  <2>4. LevelPending'
    <3>1. CASE LevelSaid(q[1])
      <4>1. LitSaid(q[1]) = d.on /\ (Says(q[1], "bri") => q[1].bri = d.bri)
        <5>1. CASE Says(q[1], "on")
          BY <1>3, <5>1 DEF LitSaid
        <5>2. CASE ~ Says(q[1], "on")
          <6>1. Says(q[1], "bri")
            BY <1>3, <3>1, <5>2 DEF LevelSaid
          <6>2. ~ Says(s, "on") /\ (d.bri # dev.bri \/ Says(s, "bri")) /\ "bri" \in feats
            BY <1>3, <1>4, <5>2, <6>1
          <6>3. d.on = TRUE
            BY <1>4, <1>7, <6>2, <1>a DEF ALamp
          <6> QED BY <1>3, <5>2, <6>1, <6>3 DEF LitSaid
        <5> QED BY <5>1, <5>2
      <4> QED BY <1>a, <1>5, <2>1, <2>2, <2>3, <3>1, <4>1
             DEF LevelPending, LevelSaid, LitSaid, Says
    <3>2. CASE ~ LevelSaid(q[1])
      <4>1. d.bri = dev.bri
        BY <1>3, <1>4, <3>2 DEF LevelSaid
      <4>2. \A k \in 1..Len(reports') : k \in 1..n \/ ~ LevelSaid(reports'[k])
        BY <1>5, <2>1, <2>2, <3>2
      <4>3. ASSUME NEW k \in 1..Len(reports'), LevelSaid(reports'[k]),
                   \A j \in 1..Len(reports') : j > k => ~ LevelSaid(reports'[j])
            PROVE  LitSaid(reports'[k]) = d.on
                /\ (Says(reports'[k], "bri") => reports'[k].bri = d.bri)
        <5>1. k \in 1..n /\ reports'[k] = reports[k]
          BY <1>2, <4>2, <4>3
        <5>2. \A j \in 1..n : j > k => ~ LevelSaid(reports[j])
          BY <1>2, <1>5, <4>3
        <5> QED BY <1>1, <1>b, <1>7, <4>1, <4>3, <5>1, <5>2 DEF LevelPending
      <4>4. ASSUME \A k \in 1..Len(reports') : ~ LevelSaid(reports'[k])
            PROVE  LevelRight'
        <5>1. \A k \in 1..n : ~ LevelSaid(reports[k])
          BY <1>2, <1>5, <4>4
        <5>2. LevelRight
          BY <1>1, <1>b, <5>1 DEF LevelPending
        <5> QED BY <1>a, <1>7, <4>1, <5>2 DEF LevelRight, LevelOf
      <4> QED BY <1>a, <4>3, <4>4 DEF LevelPending, LevelSaid, LitSaid, Says
    <3> QED BY <3>1, <3>2
  <2>5. ColourPending'
    <3>1. CASE Says(q[1], "col")
      <4>1. q[1].col = d.col
        BY <1>3, <3>1
      <4> QED BY <1>a, <1>5, <2>1, <2>2, <2>3, <3>1, <4>1 DEF ColourPending, Says
    <3>2. CASE ~ Says(q[1], "col")
      <4>1. \A k \in 1..Len(reports') : k \in 1..n \/ ~ Says(reports'[k], "col")
        BY <1>5, <2>1, <2>2, <3>2
      <4>2. "colour" \in feats => d.col = dev.col /\ ~ Says(s, "col")
        BY <1>3, <1>4, <3>2
      <4> QED BY <1>a, <1>1, <1>2, <1>4, <1>5, <1>b, <4>1, <4>2, QuietColour
    <3> QED BY <3>1, <3>2
  <2> QED BY <2>4, <2>5
<1> QED BY <1>6, <1>7

(* What a lamp can be told.                                                *)
ASetting(s) ==
    /\ DOMAIN s \subseteq {"on", "bri", "col"}
    /\ Says(s, "on") => s.on \in BOOLEAN
    /\ Says(s, "bri") => s.bri \in 0..BriMax /\ (s.bri = 0 => plugin = "homeassistant")
    /\ Says(s, "col") => AShade(s.col)

(* The lamp obeys what names a brightness, a colour or its switch.         *)
Brightens(s) == Says(s, "bri") /\ "bri" \in feats /\ s.bri > 0
Darkens(s) == Says(s, "bri") /\ s.bri = 0
Obeys(d, s) ==
    /\ ALamp(d)
    /\ d.bri = IF Brightens(s) THEN s.bri ELSE dev.bri
    /\ d.col = IF Says(s, "col") /\ "colour" \in feats THEN s.col ELSE dev.col
    /\ Darkens(s) => ~ d.on
    /\ ~ Darkens(s) /\ Says(s, "on") => d.on = s.on
    /\ ~ Darkens(s) /\ ~ Says(s, "on") /\ Brightens(s) => d.on
    /\ \A f \in {"on", "bri", "col"} \ Known : d[f] = dev[f]

(* The model's lamp obeys like that.                                       *)
LEMMA ObeyedIs ==
    ASSUME LampBase, ALamp(dev), NEW s, ASetting(s), NEW d \in Obeyed(s)
    PROVE  Obeys(d, s)
<1>1. PICK lit \in {dev.on, dev.on \/ Says(s, "col")} :
         d = [on |-> IF Darkens(s) THEN FALSE ELSE IF Says(s, "on") THEN s.on
                     ELSE IF Brightens(s) THEN TRUE ELSE lit,
              bri |-> IF Brightens(s) THEN s.bri ELSE dev.bri,
              col |-> IF Says(s, "col") /\ "colour" \in feats THEN s.col ELSE dev.col]
  BY DEF Obeyed, Brightens, Darkens
<1>2. /\ DOMAIN d = {"on", "bri", "col"}
      /\ d.on = (IF Darkens(s) THEN FALSE ELSE IF Says(s, "on") THEN s.on
                 ELSE IF Brightens(s) THEN TRUE ELSE lit)
      /\ d.bri = IF Brightens(s) THEN s.bri ELSE dev.bri
      /\ d.col = IF Says(s, "col") /\ "colour" \in feats THEN s.col ELSE dev.col
  BY <1>1
<1>3. lit \in BOOLEAN
  BY DEF ALamp, Says
<1>4. d.on \in BOOLEAN
  BY <1>2, <1>3 DEF ASetting
<1>5. d.bri \in 1..BriMax
  <2>1. BriMax \in Nat
    BY DEF BriMax, Full
  <2>2. CASE Brightens(s)
    BY <1>2, <2>1, <2>2 DEF ASetting, Brightens
  <2>3. CASE ~ Brightens(s)
    BY <1>2, <2>3 DEF ALamp
  <2> QED BY <2>2, <2>3
<1>6. AShade(d.col)
  BY <1>2 DEF ASetting, ALamp
<1>7. /\ Darkens(s) => ~ d.on
      /\ ~ Darkens(s) /\ Says(s, "on") => d.on = s.on
      /\ ~ Darkens(s) /\ ~ Says(s, "on") /\ Brightens(s) => d.on
  BY <1>2
<1>8. \A f \in {"on", "bri", "col"} \ Known : d[f] = dev[f]
  <2>1. \A f \in {"on", "bri", "col"} \ Known : (f = "bri" /\ "bri" \notin feats)
            \/ (f = "col" /\ "colour" \notin feats)
    BY DEF Known
  <2> QED BY <1>2, <2>1 DEF Brightens
<1> QED BY <1>2, <1>4, <1>5, <1>6, <1>7, <1>8 DEF Obeys, ALamp

(* A lamp that was told something, whoever did.                            *)
LEMMA ToldKeeps ==
    ASSUME LampForm, Sending, Rests, Deltas, Merging, NEW d, NEW s, ToldStep(d, s)
    PROVE  (LampForm /\ Sending /\ Rests /\ Deltas /\ Merging)'
<1>1. LampForm'
  BY ToldForm
<1>2. Sending' /\ (plugin # "shelly" => Rests')
  BY ToldRests
<1>3. Deltas'
  BY ToldDeltas
<1>4. Merging' /\ Rests'
  <2>1. CASE plugin = "shelly"
    BY <2>1, ToldMerging
  <2>2. CASE plugin # "shelly"
    BY <1>2, <2>2 DEF Merging, ToldStep
  <2> QED BY <2>1, <2>2
<1> QED BY <1>1, <1>2, <1>3, <1>4

(* Brightness, as the devices count it.                                    *)
StepsOf(v) ==
      /\ Z!ToBri(v) \in 1..254 /\ T!ToDimmer(v) \in 1..100 /\ Clamp(W!ToBri(v), 1, 255) \in 1..255
      /\ H!Clamp((v * 255 + 5000) \div 10000, 0, 255) = (v * 255 + 5000) \div 10000
      /\ W!Clamp(W!ToBri(v), 1, 255) = Clamp(W!ToBri(v), 1, 255)
      /\ (v * 255 + 5000) \div 10000 \in 0..255
      /\ 2 * 255 * v >= 10000 => (v * 255 + 5000) \div 10000 \in 1..255
      /\ S!Clamp(v, 0, S!Full) = v

(* Every level but 0 gives each device a brightness of its own range.      *)
LEMMA Steps == \A v \in 1..Full : StepsOf(v)
<1> SUFFICES ASSUME NEW v \in 1..Full PROVE StepsOf(v)
  OBVIOUS
<1>0. v \in 1..10000
  BY SMT DEF Full
<1>1. PICK b \in Int : b = (v * 254 + 5000) \div 10000
  BY <1>0, SMT
<1>2. Z!ToBri(v) \in 1..254
  BY <1>1, SMT DEF Z!ToBri, Z!Clamp
<1>3. PICK c \in Int : c = (T!Clamp(v, 0, T!Full) + 50) \div 100
  <2>1. T!Clamp(v, 0, T!Full) \in Int
    BY <1>0, SMT DEF T!Clamp, T!Full
  <2> QED BY <2>1, SMT
<1>4. T!ToDimmer(v) \in 1..100
  BY <1>3, SMT DEF T!ToDimmer, T!Clamp
<1>5. (v * 255 + 5000) \div 10000 \in 0..255
          /\ (2 * 255 * v >= 10000 => (v * 255 + 5000) \div 10000 >= 1)
  BY <1>0, SMT
<1>6. PICK e \in 0..255 : e = (v * 255 + 5000) \div 10000
  BY <1>5
<1>7. H!Clamp(e, 0, 255) = e /\ W!Clamp(e, 0, 255) = e
  BY SMT DEF H!Clamp, W!Clamp
<1>8. W!ToBri(v) = e
  BY <1>6, <1>7 DEF W!ToBri
<1>9. W!Clamp(e, 1, 255) = Clamp(e, 1, 255) /\ Clamp(e, 1, 255) \in 1..255
  BY SMT DEF W!Clamp, Clamp
<1>10. S!Clamp(v, 0, S!Full) = v
  BY <1>0, SMT DEF S!Clamp, S!Full
<1>11. 2 * 255 * v >= 10000 => e \in 1..255
  BY <1>5, <1>6
<1> QED BY <1>2, <1>4, <1>6, <1>7, <1>8, <1>9, <1>10, <1>11 DEF StepsOf

(* The setting that a value of channel 0 becomes.                          *)
LevelSet(s, v) ==
    /\ ASetting(s) /\ ~ Says(s, "col") /\ s # Nothing
    /\ v = 0 => Says(s, "on") /\ ~ s.on /\ ~ Says(s, "bri")
    /\ v > 0 /\ Says(s, "on") => s.on
    /\ v > 0 => Says(s, "on") \/ ("bri" \in feats /\ Says(s, "bri"))
    /\ v > 0 /\ "bri" \in feats \cap ep => Says(s, "bri") /\ s.bri = BriFor(v)
    /\ v > 0 /\ (plugin # "homeassistant" \/ 2 * 255 * v >= Full) /\ Says(s, "bri") => s.bri > 0

(* A setting with a field is not the empty one.                            *)
LEMMA SaysSomething == \A s : DOMAIN s # {} => s # Nothing
BY DEF Nothing

(* A setting that only switches off.                                       *)
LEMMA SetOff ==
    ASSUME NEW s, DOMAIN s = {"on"}, s.on = FALSE
    PROVE  LevelSet(s, 0)
<1>1. s # Nothing /\ \A f : Says(s, f) <=> f = "on"
  BY SaysSomething DEF Says
<1>2. ASetting(s)
  BY <1>1 DEF ASetting
<1>3. ~ (0 > 0)
  OBVIOUS
<1> QED BY <1>1, <1>2, <1>3 DEF LevelSet

(* A setting that only switches on.                                        *)
LEMMA SetOn ==
    ASSUME NEW s, DOMAIN s = {"on"}, s.on = TRUE, NEW v, v # 0, "bri" \notin feats \cap ep
    PROVE  LevelSet(s, v)
<1>1. s # Nothing /\ \A f : Says(s, f) <=> f = "on"
  BY SaysSomething DEF Says
<1>2. ASetting(s)
  BY <1>1 DEF ASetting
<1> QED BY <1>1, <1>2 DEF LevelSet

(* A setting that names the brightness.                                    *)
LEMMA SetBri ==
    ASSUME NEW s, NEW v, v # 0, s.bri = BriFor(v), BriFor(v) \in 0..BriMax,
           (DOMAIN s = {"bri"} /\ "bri" \in feats) \/ (DOMAIN s = {"on", "bri"} /\ s.on = TRUE),
           BriFor(v) = 0 => plugin = "homeassistant" /\ ~ (2 * 255 * v >= Full)
    PROVE  LevelSet(s, v)
<1>1. s # Nothing /\ Says(s, "bri") /\ (Says(s, "on") => s.on = TRUE) /\ ~ Says(s, "col")
      /\ (Says(s, "on") \/ "bri" \in feats)
  BY SaysSomething DEF Says
<1>2. ASetting(s)
  BY <1>1 DEF ASetting
<1>3. BriFor(v) # 0 => s.bri > 0
  <2>1. BriMax \in Nat
    BY DEF BriMax, Full
  <2> QED BY <2>1
<1> QED BY <1>1, <1>2, <1>3 DEF LevelSet

(* What each plugin makes of a level (the SetChannelValue of each).        *)
LEMMA LevelSetting ==
    ASSUME LampBase, NEW v \in 0..Full
    PROVE  LevelSet(Setting(0, v), v)
<1> DEFINE s == Setting(0, v)
<1>1. CASE v = 0
  <2>0. v <= 0 /\ ~ (v > 0) /\ (v > 0) = FALSE
    BY <1>1
  <2>1. s = [on |-> FALSE]
    <3>1. plugin = "zigbee2mqtt" => s = [on |-> FALSE]
      BY <2>0 DEF Setting, Z!Setting
    <3>2. plugin = "tasmota" => s = [on |-> FALSE]
      BY <2>0 DEF Setting, T!Setting
    <3>3. plugin = "homeassistant" => s = [on |-> FALSE]
      BY <2>0 DEF Setting, H!Setting
    <3>4. S!Setting(ep, 0, v) = [on |-> FALSE]
      <4>1. S!SetSwitch(v) = [on |-> FALSE] /\ S!SetLight(v) = [on |-> FALSE]
        BY <2>0 DEF S!SetSwitch, S!SetLight
      <4> QED BY <4>1 DEF S!Setting
    <3>5. plugin = "wled" => s = [on |-> FALSE]
      BY <2>0 DEF Setting, W!Setting
    <3> QED BY <3>1, <3>2, <3>3, <3>4, <3>5 DEF LampBase, Setting
  <2>2. DOMAIN s = {"on"} /\ s.on = FALSE
    BY <2>1
  <2> QED BY <1>1, <2>2, SetOff
<1>2. ASSUME v # 0 PROVE LevelSet(s, v)
  <2>0. ~ (v <= 0) /\ v > 0 /\ (v > 0) = TRUE /\ v \in 1..Full
    BY <1>2 DEF Full
  <2>a. StepsOf(v)
    BY <2>0, Steps
  <2>1. CASE "bri" \notin ep /\ plugin \notin {"homeassistant", "wled"}
    <3>1. plugin = "zigbee2mqtt" => s = [on |-> TRUE]
      BY <2>0, <2>1 DEF Setting, Z!Setting
    <3>2. plugin = "tasmota" => s = [on |-> TRUE]
      BY <2>0, <2>1 DEF Setting, T!Setting
    <3>3. plugin = "shelly" => s = [on |-> TRUE]
      <4>1. ep = {}
        BY <2>1 DEF LampBase
      <4>2. S!SetSwitch(v) = [on |-> TRUE]
        BY <2>0 DEF S!SetSwitch
      <4> QED BY <4>1, <4>2 DEF Setting, S!Setting
    <3>4. s = [on |-> TRUE]
      BY <2>1, <3>1, <3>2, <3>3 DEF LampBase
    <3>5. DOMAIN s = {"on"} /\ s.on = TRUE
      BY <3>4
    <3> QED BY <1>2, <2>1, <3>5, SetOn
  <2>2. CASE "bri" \in ep /\ plugin \in {"zigbee2mqtt", "tasmota"}
    <3>1. plugin = "zigbee2mqtt" => s = [bri |-> BriFor(v)]
      BY <2>0, <2>2 DEF Setting, Z!Setting, BriFor
    <3>2. plugin = "tasmota" => s = [bri |-> BriFor(v)]
      BY <2>0, <2>2 DEF Setting, T!Setting, BriFor
    <3>3. DOMAIN s = {"bri"} /\ s.bri = BriFor(v)
      <4>1. s = [bri |-> BriFor(v)]
        BY <2>2, <3>1, <3>2
      <4> QED BY <4>1
    <3>4. BriFor(v) \in 0..BriMax /\ BriFor(v) # 0
      BY <2>2, <2>a DEF BriFor, BriMax, StepsOf
    <3>5. "bri" \in feats
      BY <2>2 DEF LampBase
    <3> QED BY <1>2, <3>3, <3>4, <3>5, SetBri
  <2>3. CASE plugin \in {"homeassistant", "wled"} \/ (plugin = "shelly" /\ "bri" \in ep)
    <3>1. plugin = "homeassistant" => s = [on |-> TRUE, bri |-> BriFor(v)]
      <4>1. H!Clamp((v * 255 + 5000) \div 10000, 0, 255) = (v * 255 + 5000) \div 10000
        BY <2>a DEF StepsOf
      <4>2. H!Setting(Cached(0, v), 0, v) = [on |-> TRUE,
                bri |-> H!Clamp((v * 255 + 5000) \div 10000, 0, 255)]
        BY <2>0 DEF H!Setting
      <4> QED BY <4>1, <4>2 DEF Setting, BriFor
    <3>2. plugin = "wled" => s = [on |-> TRUE, bri |-> BriFor(v)]
      <4>1. W!Clamp(W!ToBri(v), 1, 255) = Clamp(W!ToBri(v), 1, 255)
        BY <2>a DEF StepsOf
      <4>2. W!Setting(Cached(0, v), 0, v) = [on |-> TRUE, bri |-> W!Clamp(W!ToBri(v), 1, 255)]
        BY <2>0 DEF W!Setting
      <4> QED BY <4>1, <4>2 DEF Setting, BriFor
    <3>3. plugin = "shelly" => s = [on |-> TRUE, bri |-> BriFor(v)]
      <4>1. S!SetLight(v) = [on |-> TRUE, bri |-> v]
        <5>1. S!Clamp(v, 0, S!Full) = v
          BY <2>a DEF StepsOf
        <5> QED BY <2>0, <5>1 DEF S!SetLight
      <4>2. plugin = "shelly" => ep # {}
        BY <2>3
      <4> QED BY <4>1, <4>2 DEF Setting, S!Setting, BriFor
    <3>4. DOMAIN s = {"on", "bri"} /\ s.bri = BriFor(v) /\ s.on = TRUE
      <4>1. s = [on |-> TRUE, bri |-> BriFor(v)]
        BY <2>3, <3>1, <3>2, <3>3
      <4> QED BY <4>1
    <3>5. BriFor(v) \in 0..BriMax
              /\ (BriFor(v) = 0 => plugin = "homeassistant" /\ ~ (2 * 255 * v >= Full))
      <4>1. CASE plugin = "homeassistant"
        <5>1. BriFor(v) = (v * 255 + 5000) \div 10000 /\ BriMax = 255
          BY <4>1 DEF BriFor, BriMax
        <5>2. (v * 255 + 5000) \div 10000 \in 0..255
              /\ (2 * 255 * v >= Full => (v * 255 + 5000) \div 10000 # 0)
          BY <2>a DEF StepsOf, Full
        <5> QED BY <4>1, <5>1, <5>2
      <4>2. CASE plugin = "wled"
        <5>1. BriFor(v) = Clamp(W!ToBri(v), 1, 255) /\ BriMax = 255
          BY <4>2 DEF BriFor, BriMax
        <5>2. Clamp(W!ToBri(v), 1, 255) \in 0..255 /\ Clamp(W!ToBri(v), 1, 255) # 0
          BY <2>a DEF StepsOf
        <5> QED BY <5>1, <5>2
      <4>3. CASE plugin = "shelly"
        BY <1>2, <4>3 DEF BriFor, BriMax
      <4> QED BY <2>3, <4>1, <4>2, <4>3
    <3> QED BY <1>2, <3>4, <3>5, SetBri
  <2> QED BY <2>1, <2>2, <2>3 DEF LampBase
<1> QED BY <1>1, <1>2

(* The setting that a value v of channel 1 or 2 becomes, c being the       *)
(* colour that is meant.                                                   *)
ColourSet(s, c, ch, v) ==
    /\ ASetting(s) /\ CacheForm(c)
    /\ s # Nothing => Says(s, "col") /\ s.col = IF plugin = "wled" THEN W!RGB(c[1], c[2]) ELSE c
    /\ s = Nothing => c = cache /\ "colour" \notin feats \cap ep
    /\ "colour" \in feats \cap ep => c = WithAxis(cache, ch, v)

(* One axis of a colour replaced by the value that is asked for, clamped.  *)
LEMMA AxisForm ==
    ASSUME NEW c, CacheForm(c), NEW ch \in {1, 2}, NEW v \in Int
    PROVE  CacheForm(WithAxis(c, ch, v))
<1>1. Clamp(v, 0, 360) \in 0..360 /\ Clamp(v, 0, 100) \in 0..100
  BY SMT DEF Clamp
<1>2. c[1] \in 0..360 /\ c[2] \in 0..100
  BY DEF CacheForm
<1> QED BY <1>1, <1>2 DEF CacheForm, WithAxis

(* What each plugin makes of a hue or a saturation.                        *)
LEMMA ColourSetting ==
    ASSUME LampBase, CacheForm(cache), NEW ch \in {1, 2}, NEW v \in Int
    PROVE  ColourSet(Setting(ch, v), Cached(ch, v), ch, v)
<1> DEFINE s == Setting(ch, v)
           c == Cached(ch, v)
<1>1. c = cache \/ c = WithAxis(cache, ch, v)
  BY DEF Cached
<1>2. CacheForm(c) /\ ("colour" \in feats \cap ep => c = WithAxis(cache, ch, v))
  <2>1. CacheForm(c)
    BY <1>1, AxisForm
  <2> QED BY <2>1 DEF Cached, LampBase
<1>3. c[1] \in 0..360 /\ c[2] \in 0..100 /\ ch # 0
  BY <1>2 DEF CacheForm
<1>4. CASE plugin = "zigbee2mqtt" /\ "colour" \in ep
  <2>1. s = [col |-> c]
    BY <1>3, <1>4 DEF Setting, Z!Setting
  <2>2. DOMAIN s = {"col"} /\ s.col = c
    BY <2>1
  <2> HIDE DEF s, c
  <2>3. s # Nothing /\ \A f : Says(s, f) <=> f = "col"
    BY <2>2, SaysSomething DEF Says
  <2>4. AShade(c)
    BY <1>2, <1>4 DEF AShade, CacheForm
  <2>5. ColourSet(s, c, ch, v)
    BY <1>2, <1>4, <2>2, <2>3, <2>4 DEF ColourSet, ASetting
  <2> QED BY <2>5 DEF s, c
<1>7. CASE plugin = "tasmota" /\ "colour" \in ep
  <2>1. s = [bri |-> 100, col |-> c]
    BY <1>3, <1>7 DEF Setting, T!Setting
  <2>2. DOMAIN s = {"bri", "col"} /\ s.col = c /\ s.bri = 100
    BY <2>1
  <2> HIDE DEF s, c
  <2>3. s # Nothing /\ \A f : Says(s, f) <=> f \in {"bri", "col"}
    BY <2>2, SaysSomething DEF Says
  <2>4. AShade(c)
    BY <1>2, <1>7 DEF AShade, CacheForm
  <2>5. s.bri \in 0..BriMax /\ s.bri # 0
    BY <1>7, <2>2 DEF BriMax
  <2>6. ColourSet(s, c, ch, v)
    BY <1>2, <1>7, <2>2, <2>3, <2>4, <2>5 DEF ColourSet, ASetting
  <2> QED BY <2>6 DEF s, c
<1>5. CASE (plugin \in {"zigbee2mqtt", "tasmota"} /\ "colour" \notin ep) \/ plugin = "shelly"
  <2>1. Z!Setting(ep, c, ch, v) = Nothing \/ "colour" \in ep
    BY <1>3, FullEq DEF Z!Setting
  <2>2. T!Setting(ep, c, ch, v) = Nothing \/ "colour" \in ep
    BY <1>3, FullEq DEF T!Setting
  <2>3. S!Setting(ep, ch, v) = Nothing
    BY <1>3, FullEq DEF S!Setting
  <2>4. s = Nothing
    BY <1>5, <2>1, <2>2, <2>3 DEF Setting
  <2>5. c = cache /\ "colour" \notin feats \cap ep
    BY <1>5 DEF Cached, LampBase
  <2>6. \A f : ~ Says(Nothing, f)
    BY DEF Nothing, Says
  <2>7. ASetting(Nothing)
    BY <2>6 DEF ASetting, Nothing
  <2> HIDE DEF s, c
  <2>8. ColourSet(s, c, ch, v)
    BY <1>2, <2>4, <2>5, <2>6, <2>7 DEF ColourSet
  <2> QED BY <2>8 DEF s, c
<1>6. CASE plugin \in {"homeassistant", "wled"}
  <2> DEFINE shade == IF plugin = "wled" THEN W!RGB(c[1], c[2]) ELSE c
  <2>1. s = [on |-> TRUE, col |-> shade]
    <3>1. plugin = "homeassistant" => s = [on |-> TRUE, col |-> c]
      BY <1>3 DEF Setting, H!Setting
    <3>2. plugin = "wled" => s = [on |-> TRUE, col |-> W!RGB(c[1], c[2])]
      BY <1>3 DEF Setting, W!Setting
    <3> HIDE DEF c, s
    <3> QED BY <1>6, <3>1, <3>2
  <2>2. DOMAIN s = {"on", "col"} /\ s.on = TRUE /\ s.col = shade
    BY <2>1
  <2>3. AShade(shade)
    <3>1. ComesRound(c)
      <4> HIDE DEF c, s
      <4> QED BY <1>2, RoundTrip
    <3>2. W!RGB(c[1], c[2]) \in (0..255) \X (0..255) \X (0..255)
      BY <3>1 DEF ComesRound, Triple
    <3> QED BY <1>2, <1>6, <3>2 DEF AShade, CacheForm
  <2> HIDE DEF s, c, shade
  <2>4. s # Nothing /\ \A f : Says(s, f) <=> f \in {"on", "col"}
    BY <2>2, SaysSomething DEF Says
  <2>5. ASetting(s)
    <3>1. DOMAIN s \subseteq {"on", "bri", "col"} /\ ~ Says(s, "bri")
      BY <2>2, <2>4
    <3>2. s.on \in BOOLEAN
      BY <2>2
    <3>3. AShade(s.col)
      BY <2>2, <2>3
    <3> QED BY <3>1, <3>2, <3>3 DEF ASetting
  <2>6. ColourSet(s, c, ch, v)
    BY <1>2, <2>2, <2>4, <2>5 DEF ColourSet, shade
  <2> QED BY <2>6 DEF s, c
<1> QED BY <1>4, <1>5, <1>6, <1>7 DEF LampBase

(* A lamp that obeys and reports.                                          *)
LEMMA ObeyedTold ==
    ASSUME LampForm, NEW s, ASetting(s), NEW d \in Obeyed(s), dev' = d, Send(Reported(d, s)),
           UNCHANGED <<plugin, feats, ep, chan, status, snap, overtaken, missed, rough>>,
           CacheForm(cache'), cache' # cache /\ plugin # "wled"
               => Says(s, "col") /\ s.col = cache'
    PROVE  ToldStep(d, s) /\ Obeys(d, s)
<1>1. Obeys(d, s)
  <2>1. LampBase /\ ALamp(dev)
    BY DEF LampForm
  <2> QED BY <2>1, ObeyedIs
<1>2. cache' # cache /\ plugin # "wled"
          => Says(s, "col") /\ ("colour" \in feats => d.col = cache')
  BY <1>1 DEF Obeys
<1>3. plugin = "tasmota" =>
         ((Says(s, "bri") \/ d.bri # dev.bri) /\ "bri" \in feats /\ d.on = dev.on
            /\ ~ Says(s, "on") => d.on)
  <2> SUFFICES ASSUME plugin = "tasmota", Says(s, "bri") \/ d.bri # dev.bri,
                      "bri" \in feats, ~ Says(s, "on")
               PROVE  d.on
    OBVIOUS
  <2>1. Says(s, "bri")
    BY <1>1 DEF Obeys, Brightens
  <2>2. s.bri > 0 /\ s.bri # 0
    <3>1. BriMax \in Nat /\ s.bri \in 0..BriMax /\ s.bri # 0
      BY <2>1 DEF ASetting, BriMax
    <3> QED BY <3>1
  <2> QED BY <1>1, <2>1, <2>2 DEF Obeys, Brightens, Darkens
<1> QED BY <1>1, <1>2, <1>3 DEF ToldStep, Obeys

(* A step in which neither the lamp nor its messages move.                 *)
LEMMA UnchangedKeeps ==
    ASSUME LampForm, Sending, Rests, Deltas, Merging,
           UNCHANGED <<plugin, feats, ep, dev, chan, cache, status, reports, snap, newest,
               overtaken, missed, rough>>
    PROVE  (LampForm /\ Sending /\ Rests /\ Deltas /\ Merging)'
<1>1. LampBase /\ ALamp(dev)
  BY DEF LampForm
<1>2. LampBase' /\ ALamp(dev)' /\ FullState(dev)' = FullState(dev)
  BY <1>1, SameLamp
<1>3. LampForm'
  BY <1>2 DEF LampForm, ChanForm, CacheForm, NoSnap
<1>4. Sending'
  BY <1>2 DEF Sending, Unordered, Whole, NoSnap
<1>5. LevelRight' = LevelRight /\ ColourRight' = ColourRight
  BY DEF LevelRight, LevelOf, ColourRight, ColourOf
<1>6. Rests'
  BY <1>5 DEF Rests, InStep, NoneInFlight, NoSnap
<1>7. Deltas'
  BY <1>5 DEF Deltas, LevelPending, ColourPending, LevelSaid, LitSaid, Says
<1>8. Merging'
  BY DEF Merging, Pushed, FieldPending, Known, Says, ShownBy, NoSnap
<1> QED BY <1>3, <1>4, <1>6, <1>7, <1>8

(* A command for one channel: the lamp is told, and what it was told is    *)
(* what the host meant.                                                    *)
LEMMA CommandKeeps ==
    ASSUME LampInv, NEW ch \in 0..2, NEW v \in Int, ch = 0 => v \in 0..Full, Command(ch, v)
    PROVE  LampInv'
<1> DEFINE s == Setting(ch, v)
           c == Cached(ch, v)
<1>0. LampForm /\ LampBase /\ ALamp(dev) /\ CacheForm(cache) /\ Sending /\ Rests /\ Deltas
          /\ Merging /\ Meaning
  BY DEF LampInv, LampForm
<1>1. /\ UNCHANGED <<plugin, feats, ep, chan, status, snap, overtaken, missed, rough>>
      /\ cache' = c /\ Told(s)
      /\ want' = (IF ch = 0 THEN v ELSE NoWant)
      /\ wantCol' = (IF ch = 0 THEN wantCol ELSE Meant(ch, v))
  BY DEF Command
<1>2. ch = 0 => LevelSet(s, v) /\ c = cache
  BY <1>0, LevelSetting DEF Cached
<1>3. ch # 0 => ColourSet(s, c, ch, v)
  <2>1. ch # 0 => ch \in {1, 2}
    OBVIOUS
  <2> QED BY <1>0, <2>1, ColourSetting
<1>4. ASetting(s) /\ CacheForm(c)
  BY <1>0, <1>2, <1>3 DEF LevelSet, ColourSet
<1>5. ch # 0 /\ wantCol' # NoColour =>
        /\ "colour" \in feats \cap ep
        /\ wantCol' = c
  <2> SUFFICES ASSUME ch # 0, Meant(ch, v) # NoColour
               PROVE  "colour" \in feats \cap ep /\ Meant(ch, v) = c
    BY <1>1
  <2>1. /\ NoneInFlight /\ ~ missed /\ "colour" \in feats \cap ep
               /\ (plugin = "homeassistant" => dev.on)
        /\ Meant(ch, v) = WithAxis(IF plugin = "wled" THEN cache ELSE <<chan[1], chan[2]>>, ch, v)
    BY DEF Meant
  <2>2. plugin # "wled" => <<chan[1], chan[2]>> = cache
    BY <1>0, <2>1 DEF Rests, InStep, ColourRight, ColourOf
  <2>3. Meant(ch, v) = WithAxis(cache, ch, v)
    BY <2>1, <2>2
  <2> QED BY <1>3, <2>1, <2>3 DEF ColourSet
<1> HIDE DEF s, c
<1>6. CASE s = Nothing
  <2>1. UNCHANGED <<dev, reports, newest>>
    BY <1>1, <1>6 DEF Told
  <2>2. ch # 0 /\ c = cache /\ "colour" \notin feats \cap ep
    BY <1>2, <1>3, <1>6 DEF LevelSet, ColourSet
  <2>3. (LampForm /\ Sending /\ Rests /\ Deltas /\ Merging)'
    BY <1>0, <1>1, <2>1, <2>2, UnchangedKeeps
  <2>4. want' = NoWant /\ wantCol' = NoColour
    BY <1>1, <1>5, <2>2
  <2>5. Meaning'
    BY <2>4 DEF Meaning, NoWant, NoColour
  <2> QED BY <2>3, <2>5 DEF LampInv
<1>7. CASE s # Nothing
  <2>0. PICK t \in Understood(s) : \E d \in Obeyed(t) : dev' = d /\ Send(Reported(d, t))
    BY <1>1, <1>7 DEF Told
  <2>1. PICK d \in Obeyed(t) : dev' = d /\ Send(Reported(d, t))
    BY <2>0
  <2>a. t = s \/ (t = [col |-> s.col] /\ Says(s, "col"))
    BY <2>0 DEF Understood
  <2>b. t # Nothing /\ ASetting(t) /\ (Says(s, "col") => Says(t, "col") /\ t.col = s.col)
    <3>1. CASE t = s
      BY <1>4, <1>7, <3>1
    <3>2. CASE t = [col |-> s.col] /\ Says(s, "col")
      <4>1. DOMAIN t = {"col"} /\ t.col = s.col
        BY <3>2
      <4>2. t # Nothing /\ \A f : Says(t, f) <=> f = "col"
        BY <4>1, SaysSomething DEF Says
      <4> QED BY <1>4, <3>2, <4>1, <4>2 DEF ASetting
    <3> QED BY <2>a, <3>1, <3>2
  <2>c. ch = 0 => LevelSet(t, v) /\ c = cache
    BY <1>2, <2>a DEF LevelSet
  <2>d. ch # 0 => ColourSet(t, c, ch, v)
    BY <1>3, <1>7, <2>b DEF ColourSet
  <2>2. cache' # cache /\ plugin # "wled" => Says(t, "col") /\ t.col = cache'
    BY <1>1, <2>b, <2>c, <2>d DEF ColourSet
  <2>3. ToldStep(d, t) /\ Obeys(d, t)
    BY <1>0, <1>1, <1>4, <2>b, <2>1, <2>2, ObeyedTold
  <2>4. (LampForm /\ Sending /\ Rests /\ Deltas /\ Merging)'
    BY <1>0, <2>3, ToldKeeps
  <2>5. Meaning'
    <3>1. CASE ch = 0
      <4>1. want' = v /\ wantCol' = wantCol /\ LevelSet(t, v) /\ v \in 0..Full
        BY <1>1, <2>c, <3>1
      <4>2. v = 0 => ~ d.on
        BY <2>3, <4>1 DEF LevelSet, Obeys, Darkens
      <4>3. ASSUME v > 0, plugin # "homeassistant" \/ 2 * 255 * v >= Full
            PROVE  d.on /\ ("bri" \in feats \cap ep => d.bri = BriFor(v))
        <5>1. Says(t, "bri") => t.bri > 0 /\ t.bri # 0
          <6>1. Says(t, "bri") => t.bri \in 0..BriMax /\ t.bri > 0
            BY <4>1, <4>3 DEF LevelSet, ASetting
          <6>2. BriMax \in Nat
            BY DEF BriMax, Full
          <6> QED BY <6>1, <6>2
        <5>2. ~ Darkens(t) /\ (Says(t, "bri") /\ "bri" \in feats => Brightens(t))
          BY <5>1 DEF Darkens, Brightens
        <5>3. d.on
          <6>1. CASE Says(t, "on")
            BY <2>3, <4>1, <4>3, <5>2, <6>1 DEF Obeys, LevelSet
          <6>2. CASE ~ Says(t, "on")
            BY <2>3, <4>1, <4>3, <5>2, <6>2 DEF Obeys, LevelSet
          <6> QED BY <6>1, <6>2
        <5>4. "bri" \in feats \cap ep => d.bri = BriFor(v)
          BY <2>3, <4>1, <4>3, <5>2 DEF Obeys, LevelSet
        <5> QED BY <5>3, <5>4
      <4>4. d.col = dev.col
        BY <2>3, <4>1 DEF LevelSet, Obeys
      <4>5. (want \in {NoWant} \cup 0..Full)' /\ (wantCol = NoColour \/ CacheForm(wantCol))'
        BY <1>0, <4>1 DEF Meaning, NoWant, NoColour, CacheForm, Full
      <4>6. (want # NoWant /\ Precise =>
               /\ want = 0 <=> ~ dev.on
               /\ want > 0 /\ "bri" \in feats \cap ep => dev.bri = BriFor(want))'
        <5> SUFFICES ASSUME v = 0 \/ 2 * 255 * v >= Full \/ plugin # "homeassistant"
                     PROVE  /\ v = 0 <=> ~ d.on
                            /\ v > 0 /\ "bri" \in feats \cap ep => d.bri = BriFor(v)
          BY <1>1, <2>1, <4>1 DEF Precise, BriFor
        <5>1. v = 0 \/ v > 0
          BY <4>1 DEF Full
        <5> QED BY <4>2, <4>3, <5>1
      <4>7. (wantCol # NoColour =>
               /\ "colour" \in feats \cap ep
               /\ dev.col = IF plugin = "wled" THEN W!RGB(wantCol[1], wantCol[2]) ELSE wantCol)'
        BY <1>0, <1>1, <2>1, <4>1, <4>4 DEF Meaning, NoColour
      <4> QED BY <4>5, <4>6, <4>7 DEF Meaning
    <3>2. CASE ch # 0
      <4>1. want' = NoWant /\ ColourSet(t, c, ch, v)
        BY <1>1, <2>d, <3>2
      <4>2. wantCol' # NoColour =>
               /\ "colour" \in feats \cap ep /\ wantCol' = c
               /\ d.col = IF plugin = "wled" THEN W!RGB(c[1], c[2]) ELSE c
        BY <1>5, <2>b, <2>3, <3>2, <4>1 DEF ColourSet, Obeys
      <4> QED BY <1>1, <1>4, <2>1, <4>1, <4>2 DEF Meaning, NoWant, NoColour, CacheForm
    <3> QED BY <3>1, <3>2
  <2> QED BY <2>4, <2>5 DEF LampInv
<1> QED BY <1>6, <1>7

(* A scene that is called: the channels of it are told in one setting.     *)
LEMMA SceneKeeps ==
    ASSUME LampInv, NEW scene \in {0, 1}, CallScene(scene)
    PROVE  LampInv'
<1>0. LampForm /\ LampBase /\ ALamp(dev) /\ CacheForm(cache) /\ Sending /\ Rests /\ Deltas
          /\ Merging
  BY DEF LampInv, LampForm
<1>1. PICK preset \in {[bri |-> 128, col |-> W!RGB(0, 100)]} : Told(W!SceneSetting(scene, preset))
  BY DEF CallScene
<1>2. /\ UNCHANGED <<plugin, feats, ep, chan, cache, status, snap, overtaken, missed, rough>>
      /\ plugin = "wled" /\ want' = (IF scene = 0 THEN 0 ELSE NoWant) /\ wantCol' = NoColour
  BY DEF CallScene
<1>3. PICK s : s = W!SceneSetting(scene, preset)
  OBVIOUS
<1>4. ASetting(s) /\ s # Nothing /\ (scene = 0 => Says(s, "on") /\ ~ s.on /\ ~ Says(s, "bri"))
  <2>1. CASE scene = 0
    <3>1. s = [on |-> FALSE]
      BY <1>3, <2>1 DEF W!SceneSetting
    <3>2. DOMAIN s = {"on"} /\ s.on = FALSE
      BY <3>1
    <3>3. LevelSet(s, 0)
      BY <3>2, SetOff
    <3> QED BY <3>3 DEF LevelSet
  <2>2. CASE scene = 1
    <3>1. preset.bri = 128 /\ preset.col = W!RGB(0, 100) /\ DOMAIN preset = {"bri", "col"}
      OBVIOUS
    <3>2. W!RGB(0, 100) \in (0..255) \X (0..255) \X (0..255)
      <4>1. CacheForm(<<0, 100>>)
        BY DEF CacheForm
      <4>2. ComesRound(<<0, 100>>)
        BY <4>1, RoundTrip
      <4> QED BY <4>2 DEF ComesRound, Triple
    <3>3. s = W!++([on |-> TRUE], preset)
      BY <1>3, <2>2 DEF W!SceneSetting
    <3>4. DOMAIN s = {"on", "bri", "col"} /\ s.on = TRUE /\ s.bri = preset.bri
              /\ s.col = preset.col
      BY <3>1, <3>3 DEF W!++
    <3>5. s # Nothing
      BY <3>4, SaysSomething
    <3>6. s.bri \in 0..BriMax /\ s.bri # 0
      BY <1>2, <3>1, <3>4 DEF BriMax
    <3>7. AShade(s.col)
      BY <1>2, <3>1, <3>2, <3>4 DEF AShade
    <3>8. s.on \in BOOLEAN
      BY <3>4
    <3>9. ASetting(s)
      BY <3>4, <3>6, <3>7, <3>8 DEF ASetting
    <3> QED BY <2>2, <3>5, <3>9
  <2> QED BY <2>1, <2>2
<1>5. PICK d \in Obeyed(s) : dev' = d /\ Send(Reported(d, s))
  <2>1. Understood(s) = {s}
    BY <1>2 DEF Understood
  <2> QED BY <1>1, <1>3, <1>4, <2>1 DEF Told
<1>6. ToldStep(d, s) /\ Obeys(d, s)
  BY <1>0, <1>2, <1>4, <1>5, ObeyedTold
<1>7. (LampForm /\ Sending /\ Rests /\ Deltas /\ Merging)'
  BY <1>0, <1>6, ToldKeeps
<1>8. scene = 0 => ~ d.on
  BY <1>4, <1>6 DEF Obeys, Darkens
<1>9. Meaning'
  <2>1. want' \in {NoWant} \cup 0..Full
    BY <1>2 DEF Full
  <2>2. want' # NoWant => want' = 0 /\ ~ dev'.on
    BY <1>2, <1>5, <1>8
  <2> QED BY <1>2, <2>1, <2>2 DEF Meaning, NoWant, NoColour
<1> QED BY <1>7, <1>9 DEF LampInv

(* The colours of the model are colours of the lamp.                       *)
LEMMA ColoursAre ==
    ASSUME LampBase, NEW col \in Colours(plugin)
    PROVE  AShade(col)
<1>1. PICK h \in Hues, s \in Sats : col = IF plugin = "wled" THEN W!RGB(h, s) ELSE <<h, s>>
  BY DEF Colours
<1>2. h \in 0..360 /\ s \in 0..100
  BY LightAssumption
<1>3. ComesRound(<<h, s>>)
  <2>1. CacheForm(<<h, s>>)
    BY <1>2 DEF CacheForm
  <2> QED BY <2>1, RoundTrip
<1>4. W!RGB(h, s) \in (0..255) \X (0..255) \X (0..255)
  BY <1>3 DEF ComesRound, Triple
<1> QED BY <1>1, <1>2, <1>4 DEF AShade

(* Somebody at the lamp's own switch, or another controller.               *)
LEMMA WallKeeps ==
    ASSUME LampInv, Wall
    PROVE  LampInv'
<1>0. LampForm /\ LampBase /\ ALamp(dev) /\ CacheForm(cache) /\ Sending /\ Rests /\ Deltas
          /\ Merging
  BY DEF LampInv, LampForm
<1>1. PICK d \in [on : BOOLEAN, bri : {dev.bri, 1, BriMax},
          col : {dev.col} \cup Colours(plugin)] :
         /\ d.on # dev.on \/ dev.on
         /\ \A f \in DOMAIN d \ Known : d[f] = dev[f]
         /\ dev' = d /\ Send(Reported(d, Nothing))
  BY DEF Wall
<1>2. /\ UNCHANGED <<plugin, feats, ep, chan, cache, status, snap, overtaken, missed, rough>>
      /\ want' = NoWant /\ wantCol' = NoColour
  BY DEF Wall
<1>3. DOMAIN d = {"on", "bri", "col"} /\ d.on \in BOOLEAN /\ d.bri \in {dev.bri, 1, BriMax}
      /\ d.col \in {dev.col} \cup Colours(plugin)
  OBVIOUS
<1>4. ALamp(d)
  <2>1. d.bri \in 1..BriMax
    <3>1. BriMax \in Nat \ {0}
      BY DEF BriMax, Full
    <3> QED BY <1>0, <1>3, <3>1 DEF ALamp
  <2>2. AShade(d.col)
    BY <1>0, <1>3, ColoursAre DEF ALamp
  <2> QED BY <1>3, <2>1, <2>2 DEF ALamp
<1>5. \A f \in {"on", "bri", "col"} \ Known : d[f] = dev[f]
  BY <1>1, <1>3
<1>6. d.on = dev.on => d.on
  BY <1>1
<1>7. ToldStep(d, Nothing)
  BY <1>0, <1>1, <1>2, <1>4, <1>5, <1>6 DEF ToldStep
<1>8. (LampForm /\ Sending /\ Rests /\ Deltas /\ Merging)'
  BY <1>0, <1>7, ToldKeeps
<1>9. Meaning'
  BY <1>2 DEF Meaning, NoWant, NoColour
<1> QED BY <1>8, <1>9 DEF LampInv

(***************************************************************************)
(* The end device as a whole: its kind is fixed, and only the part of that *)
(* kind moves.                                                             *)
(***************************************************************************)
LEMMA EndStep ==
    [EndNext]_endVars => [ButtonNext]_buttonVars /\ [ClickNext]_clickVars
<1> SUFFICES ASSUME [EndNext]_endVars
             PROVE  [ButtonNext]_buttonVars /\ [ClickNext]_clickVars
    OBVIOUS
<1>1. CASE UNCHANGED endVars
    BY <1>1 DEF endVars
<1>2. CASE EndNext
    BY <1>2 DEF EndNext
<1> QED BY <1>1, <1>2

(* A button of a plugin that is at rest is shown as it is: nothing says    *)
(* that it is pressed, or held, unless a hold is on, and then the watchdog *)
(* runs that will end it (dispatchButtonAction and autoReleaseHold of      *)
(* zigbee2mqtt.go and ha.go), unless two goroutines mixed their calls.     *)
THEOREM ButtonsAreAtRest == EndSpec => []ButtonRests
<1>1. EndInit => ButtonInv
    BY ButtonStart DEF EndInit
<1>2. ButtonInv /\ [EndNext]_endVars => ButtonInv'
    BY ButtonStep, EndStep
<1> QED BY <1>1, <1>2, ButtonAtRest, PTL DEF EndSpec

(* What a finished press of a button of the external device API tells is a *)
(* function of the presses alone (emitButtonAction of                      *)
(* connector_button_actions.go): the n-fold click for the n-th of a chain  *)
(* of short presses, and for a long one the hold and a dim step for each   *)
(* repeat interval begun; also after connections that ended in the middle  *)
(* of a press and a BYE that left one over.                                *)
THEOREM ClicksAreTold == EndSpec => []ClicksAreRight
<1>1. EndInit => ClickInv
    BY ClickStart DEF EndInit
<1>2. ClickInv /\ [EndNext]_endVars => ClickInv'
    BY ClickStep, EndStep
<1>3. ClickInv => ClicksAreRight
    BY DEF ClickInv
<1> QED BY <1>1, <1>2, <1>3, PTL DEF EndSpec

(***************************************************************************)
(* And the lamp, whose plugin and kind are fixed.                          *)
(***************************************************************************)
(* What kind of lamp it is.                                                *)
LampKind == plugin \in Plugins /\ feats \in Capabilities(plugin)

(* What the plugins make of what a device says of itself (Capabilities) is *)
(* one of three lamps.                                                     *)
LEMMA KindsOfLamp ==
    ASSUME LampKind
    PROVE  /\ plugin \in {"zigbee2mqtt", "tasmota", "homeassistant", "shelly", "wled"}
           /\ feats \in {{}, {"bri"}, {"bri", "colour"}}
           /\ plugin = "wled" => feats = {"bri", "colour"}
           /\ plugin = "shelly" => "colour" \notin feats
<1>1. plugin \in {"zigbee2mqtt", "tasmota", "homeassistant", "shelly", "wled"}
  BY LightAssumption DEF LampKind
<1>2. CASE plugin = "zigbee2mqtt"
  <2>1. PICK t \in {"light", "switch"},
             f \in {{"state"}, {"state", "brightness"},
                 {"state", "brightness", "color_xy", "color_hs"}} :
          feats = Z!Features([type |-> t, features |-> f])
    BY <1>2 DEF LampKind, Capabilities
  <2>2. feats \subseteq {"bri", "colour"} /\ ("colour" \in feats => "bri" \in feats)
    BY <2>1 DEF Z!Features
  <2> QED BY <1>2, <2>2
<1>3. CASE plugin = "tasmota"
  <2>1. PICK slot \in 0..2, subtype \in 0..5 : feats = T!Features(slot, subtype)
    BY <1>3 DEF LampKind, Capabilities
  <2> QED BY <1>3, <2>1 DEF T!Features
<1>4. CASE plugin = "homeassistant"
  <2>1. PICK m \in {{"onoff"}, {"color_temp"}, {"color_temp", "xy"}},
            b \in BOOLEAN : feats = H!Features(m, b)
    BY <1>4 DEF LampKind, Capabilities
  <2>2. feats = {} \/ feats = {"bri"} \/ feats = {"bri", "colour"}
    BY <2>1 DEF H!Features
  <2> QED BY <1>4, <2>2
<1>5. CASE plugin = "shelly"
  <2>1. PICK c \in {"switch", "light"} : feats = S!Features(c)
    BY <1>5 DEF LampKind, Capabilities
  <2> QED BY <1>5, <2>1 DEF S!Features
<1>6. CASE plugin = "wled"
  BY <1>6 DEF LampKind, Capabilities
<1> QED BY <1>1, <1>2, <1>3, <1>4, <1>5, <1>6

(* The invariant holds at the start,                                       *)
LEMMA LampStart ==
    ASSUME LightInit
    PROVE  LampKind /\ LampInv
<1>0. LampKind
  BY DEF LightInit, LampKind
<1>1. /\ plugin \in {"zigbee2mqtt", "tasmota", "homeassistant", "shelly", "wled"}
      /\ feats \in {{}, {"bri"}, {"bri", "colour"}}
      /\ plugin = "wled" => feats = {"bri", "colour"}
      /\ plugin = "shelly" => "colour" \notin feats
  BY <1>0, KindsOfLamp
<1>2. PICK on \in BOOLEAN, col \in Colours(plugin) : dev = [on |-> on, bri |-> BriMax,
          col |-> col]
  BY DEF LightInit
<1>3. LampBase
  <2>1. Z!Inferred({"lamp"}, Nothing) = {}
    <3>1. DOMAIN Nothing = {}
      BY DEF Nothing
    <3>2. UNION {Nothing[m] : m \in {"lamp"} \cap DOMAIN Nothing} = {}
      BY <3>1
    <3> QED BY <3>2 DEF Z!Inferred
  <2>2. ep = feats \/ (plugin = "zigbee2mqtt" /\ ep = {})
    BY <2>1 DEF LightInit
  <2> QED BY <1>1, <2>2 DEF LampBase
<1>4. ALamp(dev)
  <2>1. AShade(col) /\ BriMax \in 1..BriMax
    BY <1>3, ColoursAre DEF BriMax, Full
  <2> QED BY <1>2, <2>1 DEF ALamp
<1>5. /\ Message(plugin, feats, FullState(dev)) /\ ReportOf(plugin, feats, FullState(dev))
      /\ plugin # "homeassistant"
             => \A f \in Known : Says(FullState(dev), f) /\ FullState(dev)[f] = dev[f]
  BY <1>3, <1>4, FullSaid
<1>6. \/ reports = <<>> /\ 1..Len(reports) = {} /\ (\E M : reports \in Seq(M))
         /\ plugin \in {"homeassistant", "zigbee2mqtt"}
      \/ /\ reports \in Seq({FullState(dev)}) /\ Len(reports) = 1 /\ reports[1] = FullState(dev)
             /\ reports # <<>>
         /\ plugin \notin {"homeassistant", "zigbee2mqtt"}
  <2>1. CASE plugin \in {"homeassistant", "zigbee2mqtt"}
    <3>1. reports = <<>>
      BY <2>1 DEF LightInit
    <3>2. Len(reports) = 0 /\ \E M : reports \in Seq(M)
      BY <3>1, EmptySeq
    <3>3. 1..Len(reports) = {}
      BY <3>2
    <3> QED BY <2>1, <3>1, <3>2, <3>3
  <2>2. CASE plugin \notin {"homeassistant", "zigbee2mqtt"}
    <3>1. reports = <<FullState(dev)>>
      BY <2>2 DEF LightInit
    <3> QED BY <2>2, <3>1, OneReport
  <2> QED BY <2>1, <2>2
<1>7. /\ chan = [c \in 0..2 |-> 0] /\ cache = <<0, 0>> /\ status = Nothing
      /\ snap = IF plugin \in {"homeassistant", "wled"} THEN FullState(dev) ELSE NoSnap
      /\ newest = (reports # <<>>) /\ overtaken = FALSE /\ missed = TRUE /\ rough = FALSE
      /\ want = NoWant /\ wantCol = NoColour
  BY DEF LightInit
<1>8. ~ Says(Nothing, "on") /\ ReportOf(plugin, feats, Nothing)
  <2>1. \A f : ~ Says(Nothing, f)
    BY DEF Nothing, Says
  <2>2. DOMAIN Nothing = {}
    BY DEF Nothing
  <2> QED BY <2>1, <2>2 DEF ReportOf
<1>9. LampForm
  <2>1. (\E M : reports \in Seq(M))
            /\ \A i \in 1..Len(reports) : Message(plugin, feats, reports[i])
    BY <1>5, <1>6
  <2>2. ChanForm(chan) /\ CacheForm(cache)
    BY <1>7 DEF ChanForm, CacheForm, Full
  <2>3. snap # NoSnap => Message(plugin, feats, snap) /\ plugin \in {"homeassistant", "wled", "shelly"}
    BY <1>5, <1>7
  <2>4. newest \in BOOLEAN
    BY <1>7
  <2> QED BY <1>3, <1>4, <1>7, <1>8, <2>1, <2>2, <2>3, <2>4 DEF LampForm
<1>10. Sending
  <2>1. Whole /\ newest => reports[Len(reports)] = FullState(dev)
    BY <1>6, <1>7
  <2> QED BY <1>7, <2>1 DEF Sending, Whole
<1>11. Rests /\ Deltas
  BY <1>7 DEF Rests, InStep, Deltas
<1>12. Merging
  <2> SUFFICES ASSUME plugin = "shelly" PROVE \A f \in Known : FieldPending(f)
    BY <1>7, <1>8 DEF Merging, Pushed
  <2> SUFFICES ASSUME NEW f \in Known PROVE FieldPending(f)
    OBVIOUS
  <2>1. Len(reports) = 1 /\ Says(reports[1], f) /\ reports[1][f] = dev[f]
    BY <1>5, <1>6
  <2> QED BY <2>1 DEF FieldPending
<1>13. Meaning
  BY <1>7 DEF Meaning, NoWant, NoColour
<1> QED BY <1>0, <1>9, <1>10, <1>11, <1>12, <1>13 DEF LampInv

(* and every step keeps it.                                                *)
LEMMA LampStep ==
    ASSUME LampKind, LampInv, [EndNext]_endVars
    PROVE  LampKind' /\ LampInv'
<1>1. CASE UNCHANGED lightVars
  <2>1. UNCHANGED <<plugin, feats, ep, dev, chan, cache, status, reports, snap, newest,
            overtaken, missed, rough,
                    want, wantCol>>
    BY <1>1 DEF lightVars, lampHistory
  <2>2. (LampForm /\ Sending /\ Rests /\ Deltas /\ Merging)'
    BY <2>1, UnchangedKeeps DEF LampInv
  <2>3. Meaning'
    BY <2>1, SameMeaning DEF LampInv
  <2>4. LampKind'
    BY <2>1 DEF LampKind
  <2> QED BY <2>2, <2>3, <2>4 DEF LampInv
<1>2. CASE LightNext
  <2>1. ASSUME NEW ch \in 0..2, NEW v \in Int, ch = 0 => v \in 0..Full, Command(ch, v)
        PROVE  LampInv' /\ UNCHANGED <<plugin, feats>>
    BY <2>1, CommandKeeps DEF Command
  <2>2. ASSUME NEW v \in Levels, Command(0, v) PROVE LampInv' /\ UNCHANGED <<plugin, feats>>
    BY <2>1, <2>2, LightAssumption
  <2>3. ASSUME NEW v \in Hues, Command(1, v) PROVE LampInv' /\ UNCHANGED <<plugin, feats>>
    BY <2>1, <2>3, LightAssumption
  <2>4. ASSUME NEW v \in Sats, Command(2, v) PROVE LampInv' /\ UNCHANGED <<plugin, feats>>
    BY <2>1, <2>4, LightAssumption
  <2>5. ASSUME NEW scene \in {0, 1}, CallScene(scene)
        PROVE LampInv' /\ UNCHANGED <<plugin, feats>>
    BY <2>5, SceneKeeps DEF CallScene
  <2>6. ASSUME Wall PROVE LampInv' /\ UNCHANGED <<plugin, feats>>
    BY <2>6, WallKeeps DEF Wall
  <2>7. ASSUME NEW i, Receive(i) PROVE LampInv' /\ UNCHANGED <<plugin, feats>>
    BY <2>7, ReceiveKeeps DEF Receive
  <2>8. ASSUME HandleSnap PROVE LampInv' /\ UNCHANGED <<plugin, feats>>
    BY <2>8, SnapKeeps DEF HandleSnap
  <2>9. ASSUME ZigbeeReconnect \/ HAReconnect \/ HASubscribe \/ ShellyReconnect \/ WledReconnect
                 \/ TasmotaReconnect \/ ShellySubscribe
        PROVE LampInv' /\ UNCHANGED <<plugin, feats>>
    BY <2>9, ReconnectKeeps DEF ZigbeeReconnect, HAReconnect, HASubscribe, ShellyReconnect,
                                WledReconnect,
                                TasmotaReconnect, ShellySubscribe, Same
  <2>10. ASSUME ShellyPoll PROVE LampInv' /\ UNCHANGED <<plugin, feats>>
    BY <2>10, PollKeeps DEF ShellyPoll
  <2>11. ASSUME Telemetry PROVE LampInv' /\ UNCHANGED <<plugin, feats>>
    BY <2>11, TelemetryKeeps DEF Telemetry, Same
  <2>12. ASSUME Groups PROVE LampInv' /\ UNCHANGED <<plugin, feats>>
    BY <2>12, GroupsKeeps DEF Groups
  <2>13. LampInv' /\ UNCHANGED <<plugin, feats>>
    BY <1>2, <2>2, <2>3, <2>4, <2>5, <2>6, <2>7, <2>8, <2>9, <2>10, <2>11, <2>12 DEF LightNext
  <2> QED BY <2>13 DEF LampKind
<1> QED BY <1>1, <1>2 DEF EndNext, endVars

(* A level of a device and the level of the dSS are within a percent.      *)
LevelsClose(b) ==
    /\ b <= 254 => Distance((b * 10000) \div 255, (b * Full) \div 254) <= 100
    /\ b <= 100 => Distance(100 * b, (b * Full) \div 100) <= 100
    /\ b <= Full => Distance(b, (b * Full) \div Full) <= 100
    /\ b <= 255 => Distance((b * 10000) \div 255, (b * Full) \div 255) <= 100

(* Every brightness, against the share of the full level that it is.       *)
LEMMA LevelClose == ASSUME NEW b \in Nat PROVE LevelsClose(b)
<1>1. Full = 10000
  BY SMT DEF Full
<1>2. b <= 254 => Distance((b * 10000) \div 255, (b * 10000) \div 254) <= 100
  BY SMT DEF Distance
<1>3. (b * 10000) \div 100 = 100 * b
  BY SMT
<1>4. (b * 10000) \div 10000 = b
  BY SMT
<1>5. \A x \in Int : Distance(x, x) <= 100
  BY SMT DEF Distance
<1>6. (b * 10000) \div 255 \in Int /\ 100 * b \in Int /\ b \in Int
  BY SMT
<1> QED BY <1>1, <1>2, <1>3, <1>4, <1>5, <1>6 DEF LevelsClose

(* The level shown for a brightness is its share of the full level, within *)
(* a percent.                                                              *)
LEMMA ShowsLevel ==
    ASSUME ALamp(dev), plugin \in {"zigbee2mqtt", "tasmota", "homeassistant", "shelly", "wled"}
    PROVE  Distance(LevelOf(dev.bri), (dev.bri * Full) \div BriMax) <= Percent
<1>1. PICK b \in Nat : b = dev.bri /\ b <= BriMax
  <2>1. BriMax \in Nat
    BY DEF BriMax, Full
  <2> QED BY <2>1 DEF ALamp
<1>2. LevelsClose(b)
  BY LevelClose
<1>3. CASE plugin = "zigbee2mqtt"
  <2>1. BriMax = 254 /\ LevelOf(b) = (b * 10000) \div 255
    BY <1>3 DEF BriMax, LevelOf
  <2> QED BY <1>1, <1>2, <2>1 DEF LevelsClose, Percent
<1>4. CASE plugin = "tasmota"
  <2>1. BriMax = 100 /\ LevelOf(b) = 100 * b
    BY <1>4 DEF BriMax, LevelOf
  <2> QED BY <1>1, <1>2, <2>1 DEF LevelsClose, Percent
<1>5. CASE plugin = "shelly"
  <2>1. BriMax = Full /\ LevelOf(b) = b
    BY <1>5 DEF BriMax, LevelOf
  <2> QED BY <1>1, <1>2, <2>1 DEF LevelsClose, Percent
<1>6. CASE plugin \in {"homeassistant", "wled"}
  <2>1. BriMax = 255 /\ LevelOf(b) = (b * 10000) \div 255
    BY <1>6 DEF BriMax, LevelOf
  <2> QED BY <1>1, <1>2, <2>1 DEF LevelsClose, Percent
<1> QED BY <1>3, <1>4, <1>5, <1>6

(* With no message in flight and none lost, the channels of a lamp are     *)
(* what the lamp is: off as 0, on as its brightness within a percent, for  *)
(* every level, hue and saturation, whatever the order of its messages,    *)
(* the answers that were overtaken by reports, and what was merged into    *)
(* the stored status or left out of a partial report.                      *)
THEOREM LampIsShown == EndSpec => []LampShown
<1>1. EndInit => LampKind /\ LampInv
  BY LampStart DEF EndInit
<1>2. LampKind /\ LampInv /\ [EndNext]_endVars => (LampKind /\ LampInv)'
  BY LampStep
<1>3. LampKind /\ LampInv => LampShown
  <2> SUFFICES ASSUME LampKind, LampInv PROVE LampShown
    OBVIOUS
  <2>1. LampForm /\ LampBase /\ ALamp(dev)
    BY DEF LampInv, LampForm
  <2>2. LightTypeOK
    <3>1. ep \subseteq {"bri", "colour"} /\ (ep # feats => plugin = "zigbee2mqtt")
      BY <2>1 DEF LampBase
    <3>2. dev.bri \in 1..BriMax /\ DOMAIN status \subseteq Known
      BY <2>1 DEF LampForm, ALamp, ReportOf, Known
    <3>3. cache[1] \in 0..360 /\ cache[2] \in 0..100
      BY <2>1 DEF LampForm, CacheForm
    <3> QED BY <2>1, <3>1, <3>2, <3>3 DEF LightTypeOK, LampKind, LampForm, ChanForm
  <2>3. OnOffShown
    BY DEF OnOffShown, LampInv, Rests, LevelRight
  <2>4. LevelShown
    <3> SUFFICES ASSUME InStep, dev.on, "bri" \in feats \cap ep, ~ rough
                 PROVE  Distance(chan[0], (dev.bri * Full) \div BriMax) <= Percent
      BY DEF LevelShown
    <3>1. chan[0] = LevelOf(dev.bri)
      BY DEF LampInv, Rests, LevelRight
    <3>2. Distance(LevelOf(dev.bri), (dev.bri * Full) \div BriMax) <= Percent
      BY <2>1, ShowsLevel DEF LampBase
    <3> QED BY <3>1, <3>2
  <2> QED BY <2>2, <2>3, <2>4 DEF LampShown
<1> QED BY <1>1, <1>2, <1>3, PTL DEF EndSpec

(* A command and the level that is shown for it are within a percent.      *)
CommandClose(v) ==
    /\ Distance((Z!ToBri(v) * 10000) \div 255, v) <= 100
    /\ Distance(100 * T!ToDimmer(v), v) <= 100
    /\ Distance((Clamp(W!ToBri(v), 1, 255) * 10000) \div 255, v) <= 100
    /\ Distance((((v * 255 + 5000) \div 10000) * 10000) \div 255, v) <= 100
    /\ Distance(v, v) <= 100

(* Every level there is, through the brightness of each device and back.   *)
LEMMA CommandsClose == ASSUME NEW v \in 1..Full PROVE CommandClose(v)
<1>0. v \in 1..10000
  BY SMT DEF Full
<1>1. Distance((Z!ToBri(v) * 10000) \div 255, v) <= 100
  <2>1. PICK b \in Int : b = (v * 254 + 5000) \div 10000
    BY <1>0, SMT
  <2>2. PICK c \in 1..254 : c = Z!ToBri(v)
    BY Steps DEF StepsOf
  <2>3. c = IF b < 1 THEN 1 ELSE IF b > 254 THEN 254 ELSE b
    BY <2>1, <2>2 DEF Z!ToBri, Z!Clamp
  <2>4. Distance((c * 10000) \div 255, v) <= 100
    BY <1>0, <2>1, <2>3, SMT DEF Distance
  <2> QED BY <2>2, <2>4
<1>2. Distance(100 * T!ToDimmer(v), v) <= 100
  <2>1. T!Clamp(v, 0, T!Full) = v
    BY <1>0, SMT DEF T!Clamp, T!Full
  <2>2. PICK b \in Int : b = (v + 50) \div 100
    BY <1>0, SMT
  <2>3. PICK c \in 1..100 : c = T!ToDimmer(v)
    BY Steps DEF StepsOf
  <2>4. c = IF b < 1 THEN 1 ELSE IF b > 100 THEN 100 ELSE b
    BY <2>1, <2>2, <2>3 DEF T!ToDimmer, T!Clamp
  <2>5. Distance(100 * c, v) <= 100
    BY <1>0, <2>2, <2>4, SMT DEF Distance
  <2> QED BY <2>3, <2>5
<1>3. PICK e \in 0..255 : e = (v * 255 + 5000) \div 10000
  BY Steps DEF StepsOf
<1>4. Distance((e * 10000) \div 255, v) <= 100
  BY <1>0, <1>3, SMT DEF Distance
<1>5. Distance((Clamp(e, 1, 255) * 10000) \div 255, v) <= 100
  <2>1. PICK c \in 1..255 : c = Clamp(e, 1, 255) /\ c = IF e < 1 THEN 1 ELSE e
    BY SMT DEF Clamp
  <2>2. Distance((c * 10000) \div 255, v) <= 100
    BY <1>0, <1>3, <2>1, SMT DEF Distance
  <2> QED BY <2>1, <2>2
<1>6. W!ToBri(v) = e
  <2>1. W!Clamp(e, 0, 255) = e
    BY SMT DEF W!Clamp
  <2> QED BY <1>3, <2>1 DEF W!ToBri
<1>7. Distance(v, v) <= 100
  BY <1>0, SMT DEF Distance
<1> QED BY <1>1, <1>2, <1>3, <1>4, <1>5, <1>6, <1>7 DEF CommandClose

(* A level that is commanded is shown again, within a percent.             *)
LEMMA ShowsCommand ==
    ASSUME NEW v \in 1..Full, plugin \in {"zigbee2mqtt", "tasmota", "homeassistant", "shelly",
           "wled"}
    PROVE  Distance(LevelOf(BriFor(v)), v) <= Percent
<1>1. CommandClose(v)
  BY CommandsClose
<1>2. CASE plugin = "zigbee2mqtt"
  <2>1. LevelOf(BriFor(v)) = (Z!ToBri(v) * 10000) \div 255
    BY <1>2 DEF LevelOf, BriFor
  <2> QED BY <1>1, <2>1 DEF CommandClose, Percent
<1>3. CASE plugin = "tasmota"
  <2>1. LevelOf(BriFor(v)) = 100 * T!ToDimmer(v)
    BY <1>3 DEF LevelOf, BriFor
  <2> QED BY <1>1, <2>1 DEF CommandClose, Percent
<1>4. CASE plugin = "shelly"
  <2>1. LevelOf(BriFor(v)) = v
    BY <1>4 DEF LevelOf, BriFor
  <2> QED BY <1>1, <2>1 DEF CommandClose, Percent
<1>5. CASE plugin = "wled"
  <2>1. LevelOf(BriFor(v)) = (Clamp(W!ToBri(v), 1, 255) * 10000) \div 255
    BY <1>5 DEF LevelOf, BriFor
  <2> QED BY <1>1, <2>1 DEF CommandClose, Percent
<1>6. CASE plugin = "homeassistant"
  <2>1. LevelOf(BriFor(v)) = (((v * 255 + 5000) \div 10000) * 10000) \div 255
    BY <1>6 DEF LevelOf, BriFor
  <2> QED BY <1>1, <2>1 DEF CommandClose, Percent
<1> QED BY <1>2, <1>3, <1>4, <1>5, <1>6

(* With no message in flight and none lost, and nobody at the lamp since,  *)
(* the level shown is the one commanded, within a percent, and a hue or    *)
(* saturation commanded left the other axis as it was, though the device   *)
(* is told both at once from the plugin's cache; to the rounding of        *)
(* eight-bit colours for WLED.                                             *)
THEOREM CommandsDoStand == EndSpec => []CommandsStand
<1>1. EndInit => LampKind /\ LampInv
  BY LampStart DEF EndInit
<1>2. LampKind /\ LampInv /\ [EndNext]_endVars => (LampKind /\ LampInv)'
  BY LampStep
<1>3. LampInv => CommandsStand
  <2> SUFFICES ASSUME LampInv PROVE CommandsStand
    OBVIOUS
  <2>0. LampBase
    BY DEF LampInv, LampForm
  <2>1. CommandShown
    <3> SUFFICES ASSUME InStep, want # NoWant, ~ rough, Precise
                 PROVE  /\ want = 0 <=> chan[0] = 0
                        /\ want > 0 /\ "bri" \in feats \cap ep
                               => Distance(chan[0], want) <= Percent
      BY DEF CommandShown
    <3>1. /\ want = 0 <=> ~ dev.on
          /\ want > 0 /\ "bri" \in feats \cap ep => dev.bri = BriFor(want)
          /\ want \in 0..Full
      BY DEF LampInv, Meaning
    <3>2. /\ chan[0] = 0 <=> ~ dev.on
          /\ dev.on /\ "bri" \in feats \cap ep => chan[0] = LevelOf(dev.bri)
      BY DEF LampInv, Rests, LevelRight
    <3>3. ASSUME want > 0, "bri" \in feats \cap ep PROVE Distance(chan[0], want) <= Percent
      <4>1. want \in 1..Full /\ want # 0
        BY <3>1, <3>3 DEF Full
      <4>2. chan[0] = LevelOf(BriFor(want))
        BY <3>1, <3>2, <3>3, <4>1
      <4> QED BY <2>0, <4>1, <4>2, ShowsCommand DEF LampBase
    <3> QED BY <3>1, <3>2, <3>3
  <2>2. AxisKept
    <3> SUFFICES ASSUME InStep, dev.on, wantCol # NoColour
                 PROVE  IF plugin # "wled" THEN <<chan[1], chan[2]>> = wantCol
                        ELSE /\ Distance(chan[2], wantCol[2]) <= 1
                             /\ (HueDistance(chan[1], wantCol[1]) - 1) * wantCol[2] <= 30
      BY DEF AxisKept
    <3>1. /\ CacheForm(wantCol) /\ "colour" \in feats \cap ep
          /\ dev.col = IF plugin = "wled" THEN W!RGB(wantCol[1], wantCol[2]) ELSE wantCol
      BY DEF LampInv, Meaning
    <3>2. <<chan[1], chan[2]>> = ColourOf(dev.col)
      BY <3>1 DEF LampInv, Rests, ColourRight
    <3>3. CASE plugin # "wled"
      BY <3>1, <3>2, <3>3 DEF ColourOf
    <3>4. CASE plugin = "wled"
      <4>1. ComesRound(wantCol)
        BY <3>1, RoundTrip
      <4>2. <<chan[1], chan[2]>> = W!HueSat(W!RGB(wantCol[1], wantCol[2]))
        BY <3>1, <3>2, <3>4 DEF ColourOf
      <4>3. Near(<<chan[1], chan[2]>>, wantCol[1], wantCol[2])
        BY <4>1, <4>2 DEF ComesRound
      <4> QED BY <3>4, <4>3 DEF Near
    <3> QED BY <3>3, <3>4
  <2> QED BY <2>1, <2>2 DEF CommandsStand
<1> QED BY <1>1, <1>2, <1>3, PTL DEF EndSpec
=============================================================================
