--------------------------- MODULE DeviceTreeProofs ---------------------------
(***************************************************************************)
(* Proofs about DeviceTree, for any devices, reports, descriptors, writes  *)
(* and any capacity of the channel.                                        *)
(*                                                                         *)
(* The three properties speak of a time when nothing is on its way, so the *)
(* invariant says what is left to come.  An update is a word about the     *)
(* device if it announces or removes it: the last word on its way says     *)
(* what the store says (LastWord), the last update brings the maps of the  *)
(* device that is there (LastValue), and where no word is left to come the *)
(* snapshot of a reader that no word has overtaken is the device itself    *)
(* (ReaderIsCurrent), so that the tree it leads to describes what is       *)
(* declared (TreeIsCurrent).                                               *)
(***************************************************************************)
EXTENDS DeviceTree, TLAPS

Maps == [Families -> [Index -> ActionKinds \cup {NoNumber}]]
Devs == [present : BOOLEAN, output : OutputKinds, dimmable : BOOLEAN, gen : Nat,
         desc : [Families -> SUBSET Index]]
Updates == [kind : {"init", "remove", "push"}, gen : Nat]
Settings == [{"button", "input", "sensor", "output", "device"} ->
                [Index -> [group : Nat, function : Nat]]]
Views == [known : BOOLEAN, read : BOOLEAN, tree : [Described -> SUBSET (0..5)],
          vals : Maps, clicks : SUBSET Index]

(* The types of the variables, in full.                                    *)
Types ==
    /\ dev \in Devs
    /\ gens \in Seq(Maps)
    /\ queue \in Seq(Updates)
    /\ pusher \in Updates \cup {NoUpdate}
    /\ reader \in [busy : BOOLEAN, dev : Devs, fresh : BOOLEAN]
    /\ settings \in [{"upper", "lower"} -> Settings]
    /\ vdsm \in Views
    /\ events \in Nat /\ wrote \in Nat
    /\ dropped \subseteq {"init", "remove", "push"}
    /\ owed \in BOOLEAN /\ raced \in BOOLEAN

(* Whoever names maps names some that were made, and no more updates wait  *)
(* than fit.                                                               *)
Made ==
    /\ dev.gen \in 0..Len(gens) /\ (dev.present => dev.gen > 0)
    /\ reader.dev.gen \in 0..Len(gens) /\ (reader.dev.present => reader.dev.gen > 0)
    /\ \A q \in 1..Len(queue) : queue[q].gen \in 1..Len(gens)
    /\ pusher # NoUpdate => pusher.gen \in 1..Len(gens)
    /\ Len(queue) <= Cap

IsWord(u) == u.kind \in {"init", "remove"}
Word == IF dev.present THEN "init" ELSE "remove"
Brings(u) == u.kind \in {"init", "push"} /\ u.gen = dev.gen
NoWordLost == dropped \cap {"init", "remove"} = {}
NoWordWaits == \A q \in 1..Len(queue) : ~ IsWord(queue[q])

(* The last word on its way says what the store says; without one on its   *)
(* way the vDSM has it.                                                    *)
LastWord ==
    NoWordLost =>
        /\ \A q \in 1..Len(queue) :
             IsWord(queue[q]) /\ (\A p \in 1..Len(queue) : p > q => ~ IsWord(queue[p]))
                => queue[q].kind = Word
        /\ NoWordWaits => IF IsWord(pusher) THEN pusher.kind = Word
                                            ELSE vdsm.known = dev.present

(* The last update on its way brings the maps of the device that is there; *)
(* without one on its way the vDSM has their values.                       *)
LastValue ==
    dropped = {} /\ dev.present =>
        /\ queue # <<>> => Brings(queue[Len(queue)])
        /\ queue = <<>> /\ pusher # NoUpdate => Brings(pusher)
        /\ queue = <<>> /\ pusher = NoUpdate =>
             /\ vdsm.vals = changedStatePayload(gens[dev.gen])
             /\ vdsm.clicks = PushedClicks(gens[dev.gen])

(* The device has been announced with all of its descriptors.              *)
Announced == dev.present /\ ~ owed /\ NoWordLost /\ NoWordWaits /\ ~ IsWord(pusher)

ReaderIsCurrent == Announced /\ reader.busy /\ reader.fresh => reader.dev = dev

(* What was read before the last word was written is forgotten.            *)
StaleIsUnread == reader.busy /\ ~ reader.fresh => ~ vdsm.read

Describes(tree) ==
    /\ dev.output = "sensor" => /\ dev.desc["sensor"] \subseteq tree["sensor"]
                                /\ dev.desc["input"] \subseteq tree["input"]
    /\ dev.output = "binaryInput" => dev.desc["input"] \subseteq tree["input"]
TreeIsCurrent == Announced /\ vdsm.read => Describes(vdsm.tree)

(* The entry of the tree's own dSUID holds what was written last.          *)
StoredIsAsked == settings["upper"] = asked

IInv == /\ Types /\ Made /\ LastWord /\ LastValue
        /\ ReaderIsCurrent /\ StaleIsUnread /\ TreeIsCurrent /\ StoredIsAsked

-----------------------------------------------------------------------------
(* Lemmas about the operators of the model.                                *)

(* Appending an update leaves the ones before it where they are.           *)
LEMMA Appended ==
    ASSUME NEW q \in Seq(Updates), NEW u \in Updates
    PROVE  /\ Append(q, u) \in Seq(Updates)
           /\ Len(Append(q, u)) = Len(q) + 1
           /\ Append(q, u)[Len(q) + 1] = u
           /\ \A i \in 1..Len(q) : Append(q, u)[i] = q[i]
OBVIOUS

(* A broadcast appends to the channel what fits, and notes what does not.  *)
LEMMA BroadcastIs ==
    ASSUME queue \in Seq(Updates), NEW k \in {"init", "remove", "push"}, NEW g \in Nat,
           broadcast(k, g)
    PROVE  \/ /\ Len(queue) < Cap
              /\ queue' \in Seq(Updates) /\ Len(queue') = Len(queue) + 1
              /\ queue'[Len(queue) + 1] = [kind |-> k, gen |-> g]
              /\ \A i \in 1..Len(queue) : queue'[i] = queue[i]
              /\ dropped' = IF k = "push" THEN dropped \ {"push"} ELSE {}
           \/ /\ ~ Len(queue) < Cap
              /\ queue' = queue /\ dropped' = dropped \cup {k}
<1> DEFINE u == [kind |-> k, gen |-> g]
<1>1. u \in Updates
  BY DEF Updates
<1>2. CASE Len(queue) < Cap
  <2>1. queue' = Append(queue, u) /\ dropped' = IF k = "push" THEN dropped \ {"push"} ELSE {}
    BY <1>2 DEF broadcast
  <2> HIDE DEF u
  <2>2. QED
    BY <1>1, <1>2, <2>1, Appended DEF u
<1>3. CASE ~ Len(queue) < Cap
  BY <1>3 DEF broadcast
<1>4. QED
  BY <1>2, <1>3

(* Taking the first update moves the others up.                            *)
LEMMA TailIs ==
    ASSUME NEW q \in Seq(Updates), q # <<>>
    PROVE  /\ Tail(q) \in Seq(Updates) /\ Len(Tail(q)) = Len(q) - 1
           /\ \A i \in 1..(Len(q) - 1) : Tail(q)[i] = q[i + 1]
           /\ Head(q) = q[1] /\ q[1] \in Updates /\ Len(q) > 0
OBVIOUS

LEMMA NoDeviceType == NoDevice \in Devs /\ NoReader.dev = NoDevice
BY DEF NoDevice, Devs, OutputKinds, NoReader

LEMMA NoValuesType == NoValues \in Maps
BY DEF NoValues, Maps

(* One value of one generation changes.                                    *)
LEMMA MapsStay ==
    ASSUME NEW m \in Seq(Maps), NEW g \in 1..Len(m), NEW f \in Families, NEW i \in Index,
           NEW v \in ActionKinds
    PROVE  /\ [m EXCEPT ![g][f][i] = v] \in Seq(Maps)
           /\ Len([m EXCEPT ![g][f][i] = v]) = Len(m)
<1> DEFINE n == [m[g] EXCEPT ![f] = [m[g][f] EXCEPT ![i] = v]]
<1>1. m[g] \in Maps
  OBVIOUS
<1>2. m[g][f] \in [Index -> ActionKinds \cup {NoNumber}]
  BY <1>1 DEF Maps
<1>3. [m[g][f] EXCEPT ![i] = v] \in [Index -> ActionKinds \cup {NoNumber}]
  BY <1>2
<1>4. n \in Maps
  BY <1>1, <1>3 DEF Maps
<1>5. [m EXCEPT ![g][f][i] = v] = [m EXCEPT ![g] = n]
  OBVIOUS
<1> HIDE DEF n
<1>6. QED
  BY <1>4, <1>5

LEMMA PayloadType == ASSUME NEW m \in Maps PROVE changedStatePayload(m) \in Maps
<1> DEFINE c == [m["channel"] EXCEPT ![0] = IF m["channel"][0] = NoNumber THEN 0 ELSE m["channel"][0]]
<1>1. m["channel"] \in [Index -> ActionKinds \cup {NoNumber}]
  BY DEF Maps, Families
<1>2. c \in [Index -> ActionKinds \cup {NoNumber}]
  BY <1>1 DEF Index, ActionKinds
<1>3. changedStatePayload(m) = [m EXCEPT !["channel"] = c]
  BY DEF changedStatePayload
<1> HIDE DEF c
<1>4. QED
  BY <1>2, <1>3 DEF Maps, Families

LEMMA ForgottenType == Forgotten \in Views
BY NoValuesType DEF Forgotten, Views, NoTree, Described

LEMMA WordIs == Word \in {"init", "remove"} /\ (Word = "init" <=> dev.present)
BY DEF Word

(* The tree is well typed, and that of the device itself describes what it *)
(* declares.                                                               *)
LEMMA TreeType ==
    ASSUME dev \in Devs, NEW d \in Devs, NEW m \in Maps
    PROVE  BuildTree(d, m) \in [Described -> SUBSET (0..5)]
<1> DEFINE T == [Described -> SUBSET (0..5)]
<1>1. \A f \in Described, s \in SUBSET (0..5) : OnlyPart(f, s) \in T
  BY DEF OnlyPart, NoTree
<1>2. \A f \in Families : SeenDesc(d, f) \in SUBSET (0..5) /\ Valued(m, f) \in SUBSET (0..5)
  BY DEF SeenDesc, Valued, Devs, Index
<1>3. binaryInputIdxSet(d, m) \in SUBSET (0..5)
  BY <1>2 DEF binaryInputIdxSet, Families
<1>4. \A s \in SUBSET (0..5) : OrPlaceholder(s) \in SUBSET (0..5)
  BY DEF OrPlaceholder
<1>5. \A t \in T, s \in SUBSET (0..5) : [t EXCEPT !["input"] = s] \in T
  OBVIOUS
<1>6. /\ buildLightTypeProps(d, m) \in T /\ buildColorlightTypeProps(d, m) \in T
      /\ buildMovinglightTypeProps(d, m) \in T
  BY <1>1 DEF buildLightTypeProps, buildColorlightTypeProps, buildMovinglightTypeProps, Described
<1>7. buildBinaryInputTypeProps(d, m) \in T
  BY <1>1, <1>3, <1>4 DEF buildBinaryInputTypeProps, Described
<1>8. buildButtonTypeProps(d, m) \in T
  BY <1>1, <1>2, <1>4 DEF buildButtonTypeProps, Described, Families
<1>9. buildSensorTypeProps(d, m) \in T
  <2>1. SeenDesc(d, "sensor") \cup Valued(m, "sensor") \in SUBSET (0..5)
    BY <1>2 DEF Families
  <2>2. OnlyPart("sensor", OrPlaceholder(SeenDesc(d, "sensor") \cup Valued(m, "sensor"))) \in T
    BY <2>1, <1>1, <1>4 DEF Described
  <2>3. QED
    BY <2>2, <1>3, <1>5 DEF buildSensorTypeProps
<1>10. buildGenericTypeProps(d, m) \in T
  BY <1>2, <1>3 DEF buildGenericTypeProps, Families, Described
<1>11. QED
  BY <1>6, <1>7, <1>8, <1>9, <1>10 DEF BuildTree

LEMMA TreeDescribes ==
    ASSUME dev \in Devs, NEW m \in Maps
    PROVE  Describes(BuildTree(dev, m))
<1>1. \A f : SeenDesc(dev, f) = dev.desc[f]
  BY DEF SeenDesc
<1>2. \A s : s \subseteq OrPlaceholder(s)
  BY DEF OrPlaceholder
<1>3. CASE dev.output = "sensor"
  <2>1. BuildTree(dev, m) = buildSensorTypeProps(dev, m)
    BY <1>3 DEF BuildTree
  <2>2. buildSensorTypeProps(dev, m)["input"] = binaryInputIdxSet(dev, m)
    BY DEF buildSensorTypeProps, OnlyPart, NoTree, Described
  <2>3. buildSensorTypeProps(dev, m)["sensor"] =
          OrPlaceholder(SeenDesc(dev, "sensor") \cup Valued(m, "sensor"))
    BY DEF buildSensorTypeProps, OnlyPart, NoTree, Described
  <2>4. QED
    BY <1>1, <1>2, <1>3, <2>1, <2>2, <2>3 DEF Describes, binaryInputIdxSet
<1>4. CASE dev.output = "binaryInput"
  <2>1. BuildTree(dev, m) = buildBinaryInputTypeProps(dev, m)
    BY <1>4 DEF BuildTree
  <2>2. BuildTree(dev, m)["input"] = OrPlaceholder(binaryInputIdxSet(dev, m))
    BY <2>1 DEF buildBinaryInputTypeProps, OnlyPart, NoTree, Described
  <2>3. QED
    BY <1>1, <1>2, <1>4, <2>2 DEF Describes, binaryInputIdxSet
<1>5. QED
  BY <1>3, <1>4 DEF Describes

-----------------------------------------------------------------------------
(* What a broadcast does to the invariant.                                 *)

(* What waits after a broadcast is what waited before, or the update.      *)
LEMMA BroadcastTypes ==
    ASSUME IInv, NEW k \in {"init", "remove", "push"}, NEW g \in Nat, broadcast(k, g)
    PROVE  /\ queue' \in Seq(Updates) /\ Len(queue') <= Cap
           /\ dropped' \subseteq {"init", "remove", "push"}
           /\ \A q \in 1..Len(queue') :
                queue'[q].gen = g \/ (q \in 1..Len(queue) /\ queue'[q] = queue[q])
<1>1. queue \in Seq(Updates) /\ Len(queue) <= Cap /\ Cap \in Nat
      /\ dropped \subseteq {"init", "remove", "push"}
  BY DeviceTreeAssumption DEF IInv, Types, Made
<1>2. CASE /\ Len(queue) < Cap
           /\ queue' \in Seq(Updates) /\ Len(queue') = Len(queue) + 1
           /\ queue'[Len(queue) + 1] = [kind |-> k, gen |-> g]
           /\ \A i \in 1..Len(queue) : queue'[i] = queue[i]
           /\ dropped' = IF k = "push" THEN dropped \ {"push"} ELSE {}
  <2>1. \A q \in 1..Len(queue') : q = Len(queue) + 1 \/ q \in 1..Len(queue)
    BY <1>1, <1>2
  <2>2. queue'[Len(queue) + 1].gen = g
    BY <1>2
  <2>3. QED
    BY <1>1, <1>2, <2>1, <2>2
<1>3. CASE queue' = queue /\ dropped' = dropped \cup {k}
  BY <1>1, <1>3
<1>4. QED
  BY <1>1, <1>2, <1>3, BroadcastIs

(* After the broadcast of a word that says what the store says, the word   *)
(* is the last one and the last update, or was dropped.                    *)
LEMMA WordBroadcast ==
    ASSUME IInv, NEW k \in {"init", "remove"}, NEW g \in Nat, broadcast(k, g),
           dev' \in Devs, dev'.present <=> k = "init", k = "init" => dev'.gen = g
    PROVE  LastWord' /\ LastValue' /\ ~ Announced'
<1>1. queue \in Seq(Updates)
  BY DEF IInv, Types
<1>2. Word' = k
  BY DEF Word
<1>3. CASE /\ queue' \in Seq(Updates) /\ Len(queue') = Len(queue) + 1
           /\ queue'[Len(queue) + 1] = [kind |-> k, gen |-> g]
  <2> DEFINE n == Len(queue) + 1
  <2>1. n \in 1..Len(queue') /\ Len(queue') = n /\ queue' # <<>>
    BY <1>1, <1>3
  <2>2. queue'[n].kind = k /\ queue'[n].gen = g
    BY <1>3
  <2>3. ~ NoWordWaits'
    BY <2>1, <2>2 DEF NoWordWaits, IsWord
  <2>4. ASSUME NEW q \in 1..Len(queue'),
               \A p \in 1..Len(queue') : p > q => ~ IsWord(queue'[p])
        PROVE  queue'[q].kind = k
    <3>1. ~ n > q
      BY <2>1, <2>2, <2>4 DEF IsWord
    <3>2. q = n
      BY <2>1, <3>1, <1>1
    <3>3. QED
      BY <2>2, <3>2
  <2>5. LastWord'
    BY <1>2, <2>3, <2>4 DEF LastWord
  <2>6. dev'.present => /\ queue'[Len(queue')].kind \in {"init", "push"}
                        /\ queue'[Len(queue')].gen = dev'.gen
    BY <2>1, <2>2
  <2>7. LastValue'
    BY <2>1, <2>6 DEF LastValue, Brings
  <2>8. QED
    BY <2>3, <2>5, <2>7 DEF Announced
<1>4. CASE dropped' = dropped \cup {k}
  <2>1. ~ NoWordLost' /\ dropped' # {}
    BY <1>4 DEF NoWordLost
  <2>2. QED
    BY <2>1 DEF LastWord, LastValue, Announced
<1>5. QED
  BY <1>1, <1>3, <1>4, BroadcastIs

(* After a push the words on their way are the ones before, and the last   *)
(* update brings the device's maps, or was dropped.                        *)
LEMMA PushBroadcast ==
    ASSUME IInv, broadcast("push", dev.gen), UNCHANGED <<dev, pusher, vdsm>>
    PROVE  LastWord' /\ LastValue' /\ (NoWordLost' /\ NoWordWaits' => NoWordLost /\ NoWordWaits)
<1>1. queue \in Seq(Updates) /\ dev \in Devs /\ dev.gen \in Nat
  BY DEF IInv, Types, Devs
<1>2. Word' = Word
  BY DEF Word
<1>3. CASE /\ queue' \in Seq(Updates) /\ Len(queue') = Len(queue) + 1
           /\ queue'[Len(queue) + 1] = [kind |-> "push", gen |-> dev.gen]
           /\ \A i \in 1..Len(queue) : queue'[i] = queue[i]
           /\ dropped' = dropped \ {"push"}
  <2> DEFINE n == Len(queue) + 1
  <2>1. n \in 1..Len(queue') /\ Len(queue') = n /\ queue' # <<>> /\ Len(queue) \in Nat
    BY <1>1, <1>3
  <2>2. queue'[n].kind = "push" /\ queue'[n].gen = dev.gen
    BY <1>3
  <2>3. NoWordLost' <=> NoWordLost
    BY <1>3 DEF NoWordLost
  <2>4. \A q \in 1..Len(queue') :
          IsWord(queue'[q]) => q \in 1..Len(queue) /\ queue'[q] = queue[q]
    BY <1>3, <2>1, <2>2 DEF IsWord
  <2>5. NoWordWaits' <=> NoWordWaits
    BY <1>3, <2>1, <2>4 DEF NoWordWaits, IsWord
  <2>6. ASSUME NoWordLost, NEW q \in 1..Len(queue'), IsWord(queue'[q]),
               \A p \in 1..Len(queue') : p > q => ~ IsWord(queue'[p])
        PROVE  queue'[q].kind = Word
    <3>1. q \in 1..Len(queue) /\ queue'[q] = queue[q]
      BY <2>4, <2>6
    <3>2. \A p \in 1..Len(queue) : p > q => ~ IsWord(queue[p])
      <4>1. \A p \in 1..Len(queue) : p \in 1..Len(queue') /\ queue'[p] = queue[p]
        BY <1>3, <2>1
      <4>2. QED
        BY <2>6, <4>1
    <3>3. QED
      BY <2>6, <3>1, <3>2 DEF IInv, LastWord
  <2>7. NoWordWaits' /\ NoWordLost' =>
           (IF IsWord(pusher) THEN pusher.kind = Word ELSE vdsm.known = dev.present)
    BY <2>3, <2>5 DEF IInv, LastWord
  <2>8. LastWord'
    BY <1>2, <2>3, <2>6, <2>7 DEF LastWord, IsWord
  <2>9. LastValue'
    BY <2>1, <2>2 DEF LastValue, Brings
  <2>10. QED
    BY <2>3, <2>5, <2>8, <2>9
<1>4. CASE queue' = queue /\ dropped' = dropped \cup {"push"}
  <2>1. /\ NoWordLost' <=> NoWordLost
        /\ NoWordWaits' <=> NoWordWaits
        /\ dropped' # {}
    BY <1>4 DEF NoWordLost, NoWordWaits
  <2>2. LastWord'
    BY <1>2, <1>4, <2>1 DEF IInv, LastWord, IsWord
  <2>3. QED
    BY <2>1, <2>2 DEF LastValue
<1>5. QED
  BY <1>1, <1>3, <1>4, BroadcastIs

-----------------------------------------------------------------------------
(* The steps of plugins, that tell the store.                              *)

LEMMA InvInit == TreeInit => IInv
<1> SUFFICES ASSUME TreeInit PROVE IInv
  OBVIOUS
<1>1. Types
  <2>1. Unset \in Settings
    BY DEF Unset, Settings, NoNumber
  <2>2. reader \in [busy : BOOLEAN, dev : Devs, fresh : BOOLEAN]
    BY NoDeviceType DEF TreeInit, NoReader
  <2>3. gens \in Seq(Maps) /\ queue \in Seq(Updates)
    BY DEF TreeInit
  <2>4. settings \in [{"upper", "lower"} -> Settings]
    BY <2>1 DEF TreeInit
  <2>5. QED
    BY <2>2, <2>3, <2>4, NoDeviceType, ForgottenType DEF TreeInit, Types
<1>2. Made
  BY DeviceTreeAssumption DEF TreeInit, Made, NoDevice, NoReader, NoUpdate
<1>3. LastWord /\ LastValue
  BY DEF TreeInit, LastWord, LastValue, NoWordWaits, IsWord, NoUpdate, Forgotten, NoDevice
<1>4. ReaderIsCurrent /\ StaleIsUnread /\ TreeIsCurrent /\ StoredIsAsked
  BY DEF TreeInit, ReaderIsCurrent, StaleIsUnread, TreeIsCurrent, StoredIsAsked, Announced,
         NoReader, NoDevice
<1>5. QED
  BY <1>1, <1>2, <1>3, <1>4 DEF IInv

(* What follows of the invariant once nothing is known to be announced.    *)
LEMMA NotAnnounced ==
    ASSUME IInv, ~ Announced', UNCHANGED <<reader, vdsm, settings, asked>>
    PROVE  ReaderIsCurrent' /\ StaleIsUnread' /\ TreeIsCurrent' /\ StoredIsAsked'
BY DEF IInv, ReaderIsCurrent, StaleIsUnread, TreeIsCurrent, StoredIsAsked

(* A device that is there keeps its maps, another gets new ones; either    *)
(* way an announcement is sent.                                            *)
LEMMA AnnounceKeeps == ASSUME IInv, NEW k \in Kinds, AnnounceDevice(k) PROVE IInv'
<1>1. /\ dev' \in Devs /\ dev'.present
      /\ gens' \in Seq(Maps) /\ Len(gens') >= Len(gens) /\ dev'.gen \in 1..Len(gens')
      /\ broadcast("init", dev'.gen)
      /\ UNCHANGED <<pusher, reader, settings, vdsm, asked, wrote, raced>>
      /\ events' \in Nat /\ owed' = FALSE
  <2>0. dev \in Devs /\ gens \in Seq(Maps) /\ events \in Nat /\ dev.gen \in 0..Len(gens)
        /\ (dev.present => dev.gen > 0)
    BY DEF IInv, Types, Made
  <2>1. kindToOutput(k) \in OutputKinds
    BY DeviceTreeAssumption DEF kindToOutput, OutputKinds
  <2> DEFINE d == IF dev.present THEN dev ELSE [NoDevice EXCEPT !.gen = Len(gens) + 1]
             o == kindToOutput(k)
             b == k # "light"
  <2>2. d \in Devs /\ (dev.present => d = dev) /\ (~ dev.present => d.gen = Len(gens) + 1)
    <3>1. [NoDevice EXCEPT !.gen = Len(gens) + 1] \in Devs
          /\ [NoDevice EXCEPT !.gen = Len(gens) + 1].gen = Len(gens) + 1
      BY <2>0, NoDeviceType DEF Devs
    <3>2. QED
      BY <2>0, <3>1
  <2>3. dev' = [d EXCEPT !.present = TRUE, !.output = o, !.dimmable = b]
    BY DEF AnnounceDevice
  <2> HIDE DEF d, o
  <2>4. dev' \in Devs /\ dev'.present /\ dev'.gen = d.gen
    BY <2>1, <2>2, <2>3 DEF Devs, o
  <2>5. gens' \in Seq(Maps) /\ Len(gens') >= Len(gens) /\ dev'.gen \in 1..Len(gens')
    BY <2>0, <2>2, <2>4, NoValuesType DEF AnnounceDevice
  <2>6. events' \in Nat
    BY <2>0 DEF AnnounceDevice
  <2>7. QED
    BY <2>4, <2>5, <2>6 DEF AnnounceDevice
<1>2. dev'.gen \in Nat /\ Len(gens) \in Nat /\ Len(gens') \in Nat
  BY <1>1 DEF Devs, IInv, Types
<1>3. /\ queue' \in Seq(Updates) /\ Len(queue') <= Cap
      /\ dropped' \subseteq {"init", "remove", "push"}
      /\ \A q \in 1..Len(queue') :
           queue'[q].gen = dev'.gen \/ (q \in 1..Len(queue) /\ queue'[q] = queue[q])
  BY <1>1, <1>2, BroadcastTypes
<1>4. LastWord' /\ LastValue' /\ ~ Announced'
  BY <1>1, <1>2, WordBroadcast
<1>5. Types'
  BY <1>1, <1>3 DEF IInv, Types
<1>6. Made'
  <2>1. /\ Len(gens') \in Nat /\ Len(gens') >= Len(gens) /\ pusher' = pusher /\ reader' = reader
        /\ \A q \in 1..Len(queue) : queue[q].gen \in 1..Len(gens)
        /\ pusher # NoUpdate => pusher.gen \in 1..Len(gens)
    BY <1>1, <1>2 DEF IInv, Made
  <2>2. reader.dev.gen \in 0..Len(gens) /\ (reader.dev.present => reader.dev.gen > 0)
    BY DEF IInv, Made
  <2>3. \A q \in 1..Len(queue') : queue'[q].gen \in 1..Len(gens')
    BY <1>1, <1>2, <1>3, <2>1
  <2>4. QED
    BY <1>1, <1>2, <1>3, <2>1, <2>2, <2>3 DEF Made
<1>7. QED
  BY <1>1, <1>4, <1>5, <1>6, NotAnnounced DEF IInv

LEMMA RemoveKeeps == ASSUME IInv, RemoveDevice PROVE IInv'
<1>1. /\ dev' = NoDevice /\ dev.gen \in 1..Len(gens) /\ dev.gen \in Nat
      /\ broadcast("remove", dev.gen) /\ owed' = FALSE
      /\ UNCHANGED <<gens, pusher, reader, settings, vdsm, asked, wrote, events, raced>>
  BY DEF RemoveDevice, IInv, Types, Made
<1>2. dev' \in Devs /\ dev'.gen = 0 /\ ~ dev'.present
  BY <1>1, NoDeviceType DEF NoDevice
<1>3. /\ queue' \in Seq(Updates) /\ Len(queue') <= Cap
      /\ dropped' \subseteq {"init", "remove", "push"}
      /\ \A q \in 1..Len(queue') :
           queue'[q].gen = dev.gen \/ (q \in 1..Len(queue) /\ queue'[q] = queue[q])
  BY <1>1, BroadcastTypes
<1>4. LastWord' /\ LastValue' /\ ~ Announced'
  BY <1>1, <1>2, WordBroadcast
<1>5. Types'
  BY <1>1, <1>2, <1>3 DEF IInv, Types
<1>6. Made'
  BY <1>1, <1>2, <1>3 DEF IInv, Made
<1>7. QED
  BY <1>1, <1>4, <1>5, <1>6, NotAnnounced DEF IInv

LEMMA ReAnnounceKeeps == ASSUME IInv, ReAnnounce PROVE IInv'
<1>1. /\ dev' = dev /\ dev.present /\ dev.gen \in 1..Len(gens) /\ dev.gen \in Nat /\ dev \in Devs
      /\ broadcast("init", dev.gen) /\ owed' = FALSE
      /\ UNCHANGED <<gens, pusher, reader, settings, vdsm, asked, wrote, events, raced>>
  BY DEF ReAnnounce, IInv, Types, Made
<1>3. /\ queue' \in Seq(Updates) /\ Len(queue') <= Cap
      /\ dropped' \subseteq {"init", "remove", "push"}
      /\ \A q \in 1..Len(queue') :
           queue'[q].gen = dev.gen \/ (q \in 1..Len(queue) /\ queue'[q] = queue[q])
  BY <1>1, BroadcastTypes
<1>4. LastWord' /\ LastValue' /\ ~ Announced'
  BY <1>1, WordBroadcast
<1>5. Types'
  BY <1>1, <1>3 DEF IInv, Types
<1>6. Made'
  BY <1>1, <1>3 DEF IInv, Made
<1>7. QED
  BY <1>1, <1>4, <1>5, <1>6, NotAnnounced DEF IInv

(* Every event that is pushed: the device stays as it is, but for the      *)
(* values in its maps.                                                     *)
LEMMA PushKeeps ==
    ASSUME IInv, dev.present, broadcast("push", dev.gen),
           UNCHANGED <<dev, pusher, reader, settings, vdsm, asked, owed>>,
           gens' \in Seq(Maps), Len(gens') = Len(gens), events' \in Nat, wrote' \in Nat,
           raced' \in BOOLEAN
    PROVE  IInv'
<1>1. dev.gen \in 1..Len(gens) /\ dev.gen \in Nat
  BY DEF IInv, Types, Made
<1>2. /\ queue' \in Seq(Updates) /\ Len(queue') <= Cap
      /\ dropped' \subseteq {"init", "remove", "push"}
      /\ \A q \in 1..Len(queue') :
           queue'[q].gen = dev.gen \/ (q \in 1..Len(queue) /\ queue'[q] = queue[q])
  BY <1>1, BroadcastTypes
<1>3. LastWord' /\ LastValue' /\ (NoWordLost' /\ NoWordWaits' => NoWordLost /\ NoWordWaits)
  BY PushBroadcast
<1>4. Types'
  BY <1>2 DEF IInv, Types
<1>5. Made'
  BY <1>1, <1>2 DEF IInv, Made
<1>6. Announced' => Announced
  BY <1>3 DEF Announced, IsWord
<1>7. ReaderIsCurrent' /\ StaleIsUnread' /\ TreeIsCurrent' /\ StoredIsAsked'
  BY <1>6 DEF IInv, ReaderIsCurrent, StaleIsUnread, TreeIsCurrent, StoredIsAsked, Describes
<1>8. QED
  BY <1>3, <1>4, <1>5, <1>7 DEF IInv

LEMMA UpdateKeeps ==
    ASSUME IInv, NEW f \in Families, NEW i \in Index, NEW v \in ActionKinds, Update(f, i, v)
    PROVE  IInv'
<1>1. gens \in Seq(Maps) /\ dev.gen \in 1..Len(gens) /\ events \in Nat
  BY DEF IInv, Types, Made, Update
<1>2. gens' \in Seq(Maps) /\ Len(gens') = Len(gens)
  <2>1. gens' = [gens EXCEPT ![dev.gen][f][i] = v]
    BY DEF Update
  <2>2. QED
    BY <1>1, <2>1, MapsStay
<1>3. raced' \in BOOLEAN
  BY DEF Update, IInv, Types, Iterating
<1>4. QED
  BY <1>1, <1>2, <1>3, PushKeeps DEF Update, IInv, Types

LEMMA UpdateActiveKeeps == ASSUME IInv, UpdateActive PROVE IInv'
BY PushKeeps DEF UpdateActive, IInv, Types

(* A descriptor is owed until the device is announced again.               *)
LEMMA SetDescriptorKeeps ==
    ASSUME IInv, NEW f \in Families, NEW i \in Index, SetDescriptor(f, i)
    PROVE  IInv'
<1> DEFINE ds == [dev.desc EXCEPT ![f] = dev.desc[f] \cup {i}]
<1>1. dev.present /\ dev \in Devs
  BY DEF SetDescriptor, IInv, Types
<1>2. /\ dev' \in Devs /\ dev'.present = dev.present /\ dev'.gen = dev.gen
  <2>1. dev.desc \in [Families -> SUBSET Index]
    BY <1>1 DEF Devs
  <2>2. ds \in [Families -> SUBSET Index]
    BY <2>1
  <2>3. dev' = [dev EXCEPT !.desc = ds]
    BY DEF SetDescriptor
  <2> HIDE DEF ds
  <2>4. QED
    BY <1>1, <2>2, <2>3 DEF Devs
<1>3. owed' = TRUE /\ raced' \in BOOLEAN /\ events' \in Nat
      /\ UNCHANGED <<gens, queue, pusher, reader, settings, vdsm, asked, wrote, dropped>>
  BY DEF SetDescriptor, IInv, Types
<1>4. Types'
  BY <1>2, <1>3 DEF IInv, Types
<1>5. Made'
  BY <1>2, <1>3 DEF IInv, Made
<1>6. LastWord'
  BY <1>2, <1>3 DEF IInv, LastWord, Word, NoWordLost, NoWordWaits, IsWord
<1>7. LastValue'
  BY <1>2, <1>3 DEF IInv, LastValue, Brings
<1>8. ~ Announced'
  BY <1>3 DEF Announced
<1>9. QED
  BY <1>3, <1>4, <1>5, <1>6, <1>7, <1>8, NotAnnounced DEF IInv

-----------------------------------------------------------------------------
(* The push goroutine.                                                     *)

LEMMA NoUpdateIs == NoUpdate \notin Updates /\ ~ IsWord(NoUpdate)
BY DEF NoUpdate, Updates, IsWord

LEMMA TakeUpdateKeeps == ASSUME IInv, TakeUpdate PROVE IInv'
<1>1. /\ pusher = NoUpdate /\ queue # <<>> /\ queue \in Seq(Updates) /\ queue' = Tail(queue)
      /\ pusher' = Head(queue)
      /\ UNCHANGED <<dev, gens, reader, settings, vdsm, asked, wrote, events, dropped, owed, raced>>
  BY DEF TakeUpdate, IInv, Types
<1>2. /\ queue' \in Seq(Updates) /\ Len(queue') = Len(queue) - 1
      /\ \A i \in 1..(Len(queue) - 1) : queue'[i] = queue[i + 1]
      /\ pusher' = queue[1] /\ queue[1] \in Updates /\ Len(queue) > 0 /\ Len(queue) \in Nat
  BY <1>1, TailIs
<1>3. pusher' # NoUpdate
  BY <1>2, NoUpdateIs
<1>4. Types'
  BY <1>1, <1>2 DEF IInv, Types
<1>5. Made'
  <2>1. \A q \in 1..Len(queue') : q + 1 \in 1..Len(queue) /\ queue'[q] = queue[q + 1]
    BY <1>2
  <2>2. 1 \in 1..Len(queue) /\ Cap \in Nat
    BY <1>2, DeviceTreeAssumption
  <2>3. QED
    BY <1>1, <1>2, <2>1, <2>2 DEF IInv, Made
<1>6. NoWordWaits' /\ ~ IsWord(pusher') => NoWordWaits
  <2>1. ASSUME NoWordWaits', ~ IsWord(pusher'), NEW q \in 1..Len(queue)
        PROVE  ~ IsWord(queue[q])
    <3>1. CASE q = 1
      BY <1>2, <2>1, <3>1
    <3>2. CASE q # 1
      <4>1. q - 1 \in 1..Len(queue') /\ queue'[q - 1] = queue[q]
        BY <1>2, <3>2
      <4>2. QED
        BY <2>1, <4>1 DEF NoWordWaits, IsWord
    <3>3. QED
      BY <3>1, <3>2
  <2>2. QED
    BY <2>1 DEF NoWordWaits
<1>7. LastWord'
  <2>1. NoWordLost' = NoWordLost /\ Word' = Word
    BY <1>1 DEF NoWordLost, Word
  <2>2. ASSUME NoWordLost, NEW q \in 1..Len(queue'), IsWord(queue'[q]),
               \A p \in 1..Len(queue') : p > q => ~ IsWord(queue'[p])
        PROVE  queue'[q].kind = Word
    <3>1. q + 1 \in 1..Len(queue) /\ queue'[q] = queue[q + 1]
      BY <1>2
    <3>2. ASSUME NEW p \in 1..Len(queue), p > q + 1 PROVE ~ IsWord(queue[p])
      <4>1. p - 1 \in 1..Len(queue') /\ p - 1 > q /\ queue'[p - 1] = queue[p]
        BY <1>2, <3>2
      <4>2. QED
        BY <2>2, <4>1
    <3>3. QED
      BY <2>2, <3>1, <3>2 DEF IInv, LastWord
  <2>3. ASSUME NoWordLost, NoWordWaits', IsWord(pusher') PROVE pusher'.kind = Word
    <3>1. \A p \in 1..Len(queue) : p > 1 => ~ IsWord(queue[p])
      <4>1. \A p \in 1..Len(queue) : p > 1 => p - 1 \in 1..Len(queue') /\ queue'[p - 1] = queue[p]
        BY <1>2
      <4>2. QED
        BY <2>3, <4>1 DEF NoWordWaits, IsWord
    <3>2. 1 \in 1..Len(queue)
      BY <1>2
    <3>3. QED
      BY <1>2, <2>3, <3>1, <3>2 DEF IInv, LastWord
  <2>4. ASSUME NoWordLost, NoWordWaits', ~ IsWord(pusher') PROVE vdsm.known = dev.present
    BY <1>1, <1>6, <2>4, NoUpdateIs DEF IInv, LastWord
  <2>5. QED
    BY <1>1, <2>1, <2>2, <2>3, <2>4 DEF LastWord, IsWord
<1>8. LastValue'
  <2>1. ASSUME dropped = {}, dev.present, queue' # <<>> PROVE Brings(queue'[Len(queue')])
    <3>1. Len(queue') \in 1..(Len(queue) - 1) /\ queue'[Len(queue')] = queue[Len(queue)]
      BY <1>2, <2>1
    <3>2. QED
      BY <1>1, <2>1, <3>1 DEF IInv, LastValue
  <2>2. ASSUME dropped = {}, dev.present, queue' = <<>> PROVE Brings(pusher')
    <3>1. Len(queue) = 1
      BY <1>2, <2>2
    <3>2. QED
      BY <1>1, <1>2, <2>2, <3>1 DEF IInv, LastValue
  <2>3. QED
    BY <1>1, <1>3, <2>1, <2>2 DEF LastValue, Brings
<1>9. Announced' => Announced
  BY <1>1, <1>6, NoUpdateIs DEF Announced, NoWordLost, IsWord
<1>10. ReaderIsCurrent' /\ StaleIsUnread' /\ TreeIsCurrent' /\ StoredIsAsked'
  BY <1>1, <1>9 DEF IInv, ReaderIsCurrent, StaleIsUnread, TreeIsCurrent, StoredIsAsked, Describes
<1>11. QED
  BY <1>4, <1>5, <1>7, <1>8, <1>10 DEF IInv

(* What the vDSM makes of an update.                                       *)
LEMMA WriteIs ==
    ASSUME IInv, WriteUpdate
    PROVE  /\ pusher \in Updates /\ pusher.gen \in 1..Len(gens) /\ gens[pusher.gen] \in Maps
           /\ pusher' = NoUpdate /\ vdsm' \in Views /\ raced' \in BOOLEAN
           /\ reader' = [reader EXCEPT !.fresh = IF pusher.kind = "push" THEN @ ELSE FALSE]
           /\ UNCHANGED <<dev, gens, queue, settings, asked, wrote, events, dropped, owed>>
           /\ pusher.kind = "remove" => ~ vdsm'.known /\ ~ vdsm'.read
           /\ pusher.kind = "init" => vdsm'.known /\ ~ vdsm'.read
           /\ pusher.kind = "push" =>
                vdsm'.known = vdsm.known /\ vdsm'.read = vdsm.read /\ vdsm'.tree = vdsm.tree
           /\ pusher.kind = "init" \/ (pusher.kind = "push" /\ vdsm.known) =>
                vdsm'.vals = changedStatePayload(gens[pusher.gen])
                /\ vdsm'.clicks = PushedClicks(gens[pusher.gen])
<1>1. /\ pusher \in Updates /\ pusher.gen \in 1..Len(gens) /\ gens[pusher.gen] \in Maps
      /\ vdsm \in Views
  BY DEF WriteUpdate, IInv, Types, Made
<1> DEFINE m == gens[pusher.gen]
           vs == changedStatePayload(m)
           cs == PushedClicks(m)
           base == IF pusher.kind = "init" THEN [Forgotten EXCEPT !.known = TRUE] ELSE vdsm
<1>2. vs \in Maps /\ cs \in SUBSET Index
  BY <1>1, PayloadType DEF PushedClicks
<1>3. vdsm' = CASE pusher.kind = "remove" -> Forgotten
                [] pusher.kind # "remove" /\ ~ base.known -> vdsm
                [] OTHER -> [base EXCEPT !.vals = vs, !.clicks = cs]
  BY DEF WriteUpdate
<1>4. base \in Views /\ (pusher.kind = "init" => base.known /\ ~ base.read)
  BY <1>1, ForgottenType DEF Views, Forgotten
<1>5. pusher.kind \in {"init", "push", "remove"}
  BY <1>1 DEF Updates
<1>6. raced' \in BOOLEAN
  BY DEF WriteUpdate, IInv, Types
<1>7. /\ pusher' = NoUpdate
      /\ reader' = [reader EXCEPT !.fresh = IF pusher.kind = "push" THEN @ ELSE FALSE]
      /\ UNCHANGED <<dev, gens, queue, settings, asked, wrote, events, dropped, owed>>
  BY DEF WriteUpdate
<1> HIDE DEF vs, cs
<1>8. CASE pusher.kind = "remove"
  <2>1. vdsm' = Forgotten
    BY <1>3, <1>8
  <2>2. ~ vdsm'.known /\ ~ vdsm'.read
    BY <2>1 DEF Forgotten
  <2>3. QED
    BY <1>1, <1>6, <1>7, <1>8, <2>1, <2>2, ForgottenType
<1>9. CASE pusher.kind = "init"
  <2>1. vdsm' = [base EXCEPT !.vals = vs, !.clicks = cs]
    BY <1>3, <1>4, <1>9
  <2> HIDE DEF base
  <2>2. vdsm' \in Views /\ vdsm'.known /\ ~ vdsm'.read /\ vdsm'.vals = vs /\ vdsm'.clicks = cs
    BY <1>2, <1>4, <1>9, <2>1 DEF Views
  <2>3. QED
    BY <1>1, <1>6, <1>7, <1>9, <2>2 DEF vs, cs
<1>10. CASE pusher.kind = "push" /\ ~ vdsm.known
  BY <1>1, <1>3, <1>6, <1>7, <1>10
<1>11. CASE pusher.kind = "push" /\ vdsm.known
  <2>1. vdsm' = [vdsm EXCEPT !.vals = vs, !.clicks = cs]
    BY <1>3, <1>11
  <2>2. /\ vdsm' \in Views /\ vdsm'.known = vdsm.known /\ vdsm'.read = vdsm.read
        /\ vdsm'.tree = vdsm.tree /\ vdsm'.vals = vs /\ vdsm'.clicks = cs
    BY <1>1, <1>2, <2>1 DEF Views
  <2>3. QED
    BY <1>1, <1>6, <1>7, <1>11, <2>2 DEF vs, cs
<1>12. QED
  BY <1>5, <1>8, <1>9, <1>10, <1>11

(* The last word makes the vDSM know what the store says, the last update  *)
(* brings the values, and a word makes it forget what it had read.         *)
LEMMA WriteUpdateKeeps == ASSUME IInv, WriteUpdate PROVE IInv'
<1>1. pusher \in Updates /\ pusher.kind \in {"init", "push", "remove"} /\ pusher # NoUpdate
  BY WriteIs, NoUpdateIs DEF Updates
<1>2. reader \in [busy : BOOLEAN, dev : Devs, fresh : BOOLEAN]
  BY DEF IInv, Types
<1>3. /\ reader' \in [busy : BOOLEAN, dev : Devs, fresh : BOOLEAN]
      /\ reader'.busy = reader.busy /\ reader'.dev = reader.dev
      /\ reader'.fresh = (pusher.kind = "push" /\ reader.fresh)
  BY <1>1, <1>2, WriteIs
<1>4. Types'
  BY <1>3, WriteIs DEF IInv, Types
<1>5. Made'
  BY <1>3, WriteIs DEF IInv, Made
<1>6. NoWordLost' = NoWordLost /\ NoWordWaits' = NoWordWaits /\ Word' = Word
  BY WriteIs DEF NoWordLost, NoWordWaits, Word, IsWord
<1>7. LastWord'
  <2>1. ASSUME NoWordLost, NoWordWaits PROVE vdsm'.known = dev.present
    <3>1. CASE pusher.kind = "push"
      BY <2>1, <3>1, WriteIs DEF IInv, LastWord, IsWord
    <3>2. CASE IsWord(pusher)
      <4>1. pusher.kind = Word
        BY <2>1, <3>2 DEF IInv, LastWord
      <4>2. vdsm'.known \in BOOLEAN /\ dev.present \in BOOLEAN
        BY WriteIs DEF Views, IInv, Types, Devs
      <4>3. QED
        BY <4>1, <4>2, WriteIs DEF Word
    <3>3. QED
      BY <1>1, <3>1, <3>2 DEF IsWord
  <2>2. ~ IsWord(pusher')
    BY WriteIs, NoUpdateIs
  <2>3. QED
    BY <1>6, <2>1, <2>2, WriteIs DEF IInv, LastWord, IsWord
<1>8. LastValue'
  <2>1. ASSUME dropped = {}, dev.present, queue = <<>>
        PROVE  /\ vdsm'.vals = changedStatePayload(gens[dev.gen])
               /\ vdsm'.clicks = PushedClicks(gens[dev.gen])
    <3>1. Brings(pusher)
      BY <1>1, <2>1 DEF IInv, LastValue
    <3>2. pusher.kind = "push" => vdsm.known
      <4>1. NoWordLost /\ NoWordWaits
        BY <2>1 DEF NoWordLost, NoWordWaits
      <4>2. QED
        BY <2>1, <4>1 DEF IInv, LastWord, IsWord
    <3>3. QED
      BY <3>1, <3>2, WriteIs DEF Brings
  <2>2. QED
    BY <2>1, WriteIs DEF IInv, LastValue, Brings
<1>9. CASE pusher.kind = "push"
  <2>1. Announced' => Announced
    BY <1>6, <1>9, WriteIs DEF Announced, IsWord
  <2>2. ReaderIsCurrent' /\ StaleIsUnread' /\ TreeIsCurrent' /\ StoredIsAsked'
    BY <1>3, <1>9, <2>1, WriteIs
       DEF IInv, ReaderIsCurrent, StaleIsUnread, TreeIsCurrent, StoredIsAsked, Describes
  <2>3. QED
    BY <1>4, <1>5, <1>7, <1>8, <2>2 DEF IInv
<1>10. CASE pusher.kind # "push"
  <2>1. ~ vdsm'.read /\ ~ reader'.fresh
    BY <1>1, <1>3, <1>10, WriteIs
  <2>2. ReaderIsCurrent' /\ StaleIsUnread' /\ TreeIsCurrent' /\ StoredIsAsked'
    BY <2>1, WriteIs DEF IInv, ReaderIsCurrent, StaleIsUnread, TreeIsCurrent, StoredIsAsked
  <2>3. QED
    BY <1>4, <1>5, <1>7, <1>8, <2>2 DEF IInv
<1>11. QED
  BY <1>9, <1>10

-----------------------------------------------------------------------------
(* The vDSM's requests, and the end of the process.                        *)

LEMMA ResolveKeeps == ASSUME IInv, resolveGetPropertyTarget PROVE IInv'
<1>1. /\ reader' = [busy |-> TRUE, dev |-> dev, fresh |-> TRUE]
      /\ UNCHANGED <<dev, gens, queue, pusher, settings, vdsm, asked, wrote, events, dropped, owed,
                     raced>>
  BY DEF resolveGetPropertyTarget
<1>2. Types'
  BY <1>1 DEF IInv, Types
<1>3. Made'
  BY <1>1 DEF IInv, Made
<1>4. LastWord' /\ LastValue'
  BY <1>1 DEF IInv, LastWord, LastValue, NoWordLost, NoWordWaits, IsWord, Word, Brings
<1>5. Announced' = Announced
  BY <1>1 DEF Announced, NoWordLost, NoWordWaits, IsWord
<1>6. ReaderIsCurrent' /\ StaleIsUnread' /\ TreeIsCurrent' /\ StoredIsAsked'
  BY <1>1, <1>5
     DEF IInv, ReaderIsCurrent, StaleIsUnread, TreeIsCurrent, StoredIsAsked, Describes
<1>7. QED
  BY <1>2, <1>3, <1>4, <1>6 DEF IInv

(* An answer that no word has overtaken describes the device.              *)
LEMMA AnswerKeeps == ASSUME IInv, GetPropertyAnswer PROVE IInv'
<1> DEFINE tree == BuildTree(reader.dev, gens[reader.dev.gen])
<1>1. /\ reader.busy /\ reader' = NoReader /\ raced' \in BOOLEAN
      /\ UNCHANGED <<dev, gens, queue, pusher, settings, asked, wrote, events, dropped, owed>>
      /\ vdsm' = IF ~ reader.dev.present THEN vdsm
                 ELSE [vdsm EXCEPT !.tree = tree, !.read = @ \/ reader.fresh]
  BY DEF GetPropertyAnswer, buildDeviceProperties, IInv, Types
<1>2. vdsm \in Views /\ dev \in Devs /\ reader.dev \in Devs /\ reader.fresh \in BOOLEAN
  BY DEF IInv, Types
<1>3. reader.dev.present => gens[reader.dev.gen] \in Maps
  BY DEF IInv, Types, Made
<1>4. reader.dev.present => tree \in [Described -> SUBSET (0..5)]
  BY <1>2, <1>3, TreeType
<1> HIDE DEF tree
<1>5. /\ vdsm' \in Views /\ vdsm'.known = vdsm.known /\ vdsm'.vals = vdsm.vals
      /\ vdsm'.clicks = vdsm.clicks
      /\ ~ reader.dev.present => vdsm' = vdsm
      /\ reader.dev.present => vdsm'.tree = tree /\ vdsm'.read = (vdsm.read \/ reader.fresh)
  BY <1>1, <1>2, <1>4 DEF Views
<1>6. Types'
  <2>1. reader' \in [busy : BOOLEAN, dev : Devs, fresh : BOOLEAN]
    BY <1>1, NoDeviceType DEF NoReader
  <2>2. QED
    BY <1>1, <1>5, <2>1 DEF IInv, Types
<1>7. Made'
  <2>1. reader'.dev.gen = 0 /\ ~ reader'.dev.present
    BY <1>1 DEF NoReader, NoDevice
  <2>2. QED
    BY <1>1, <2>1 DEF IInv, Made, Types
<1>8. LastWord' /\ LastValue'
  BY <1>1, <1>5 DEF IInv, LastWord, LastValue, NoWordLost, NoWordWaits, IsWord, Word, Brings
<1>9. Announced' = Announced
  BY <1>1 DEF Announced, NoWordLost, NoWordWaits, IsWord
<1>10. ReaderIsCurrent' /\ StaleIsUnread' /\ StoredIsAsked'
  BY <1>1 DEF IInv, ReaderIsCurrent, StaleIsUnread, StoredIsAsked, NoReader
<1>11. TreeIsCurrent'
  <2>1. SUFFICES ASSUME Announced, vdsm'.read PROVE Describes(vdsm'.tree)
    BY <1>1, <1>9 DEF TreeIsCurrent, Describes
  <2>2. CASE ~ reader.dev.present
    BY <1>5, <2>1, <2>2 DEF IInv, TreeIsCurrent
  <2>3. CASE reader.dev.present /\ reader.fresh
    <3>1. reader.dev = dev
      BY <1>1, <2>1, <2>3 DEF IInv, ReaderIsCurrent
    <3>2. Describes(tree)
      BY <1>2, <1>3, <2>3, <3>1, TreeDescribes DEF tree
    <3>3. QED
      BY <1>5, <2>3, <3>2
  <2>4. CASE reader.dev.present /\ ~ reader.fresh
    BY <1>1, <1>5, <2>1, <2>4 DEF IInv, StaleIsUnread
  <2>5. QED
    BY <1>2, <2>2, <2>3, <2>4
<1>12. QED
  BY <1>6, <1>7, <1>8, <1>10, <1>11 DEF IInv

(* A write changes one field of one entry; a name spelled another way is   *)
(* another entry.                                                          *)
LEMMA SettingType ==
    ASSUME NEW s \in Settings, NEW w \in Writes
    PROVE  [s EXCEPT ![w.family][w.index][w.field] = w.value] \in Settings
<1> DEFINE F == {"button", "input", "sensor", "output", "device"}
           e == [s[w.family][w.index] EXCEPT ![w.field] = w.value]
           r == [s[w.family] EXCEPT ![w.index] = e]
<1>1. w.family \in F /\ w.index \in Index /\ w.field \in {"group", "function"} /\ w.value \in Nat
  BY DeviceTreeAssumption
<1>2. s[w.family] \in [Index -> [group : Nat, function : Nat]]
  BY <1>1 DEF Settings
<1>3. s[w.family][w.index] \in [group : Nat, function : Nat]
  BY <1>1, <1>2
<1>4. e \in [group : Nat, function : Nat]
  BY <1>1, <1>3
<1>5. [s EXCEPT ![w.family][w.index][w.field] = w.value] = [s EXCEPT ![w.family] = r]
  OBVIOUS
<1> HIDE DEF e
<1>6. r \in [Index -> [group : Nat, function : Nat]]
  BY <1>1, <1>2, <1>4
<1> HIDE DEF r
<1>7. QED
  BY <1>1, <1>5, <1>6 DEF Settings

LEMMA SetPropertyKeeps == ASSUME IInv, NEW w \in Writes, SetProperty(w) PROVE IInv'
<1> DEFINE put(s) == [s EXCEPT ![w.family][w.index][w.field] = w.value]
<1>1. /\ settings' = [settings EXCEPT ![w.spelling] = put(settings[w.spelling])]
      /\ asked' = IF w.spelling = "lower" THEN asked ELSE put(asked)
      /\ UNCHANGED <<dev, gens, queue, pusher, reader, vdsm, events, dropped, owed, raced>>
      /\ wrote' \in Nat
  BY DEF SetProperty, MergeField, IInv, Types
<1>2. w.spelling \in {"upper", "lower"} /\ settings \in [{"upper", "lower"} -> Settings]
      /\ settings["upper"] = asked
  BY DeviceTreeAssumption DEF IInv, Types, StoredIsAsked
<1>3. put(settings[w.spelling]) \in Settings
  BY <1>2, SettingType
<1> HIDE DEF put
<1>4. settings' \in [{"upper", "lower"} -> Settings]
  BY <1>1, <1>2, <1>3
<1>5. StoredIsAsked'
  BY <1>1, <1>2 DEF StoredIsAsked
<1>6. Types'
  BY <1>1, <1>4 DEF IInv, Types
<1>7. Made'
  BY <1>1 DEF IInv, Made
<1>8. LastWord' /\ LastValue'
  BY <1>1 DEF IInv, LastWord, LastValue, NoWordLost, NoWordWaits, IsWord, Word, Brings
<1>9. Announced' = Announced
  BY <1>1 DEF Announced, NoWordLost, NoWordWaits, IsWord
<1>10. ReaderIsCurrent' /\ StaleIsUnread' /\ TreeIsCurrent'
  BY <1>1, <1>9 DEF IInv, ReaderIsCurrent, StaleIsUnread, TreeIsCurrent, Describes
<1>11. QED
  BY <1>5, <1>6, <1>7, <1>8, <1>10 DEF IInv

LEMMA AbortKeeps == ASSUME IInv, Abort PROVE IInv'
<1>1. /\ dev' = NoDevice /\ gens' = <<>> /\ queue' = <<>>
      /\ pusher' = NoUpdate /\ reader' = NoReader /\ vdsm' = Forgotten
      /\ dropped' = {} /\ owed' = FALSE /\ raced' = FALSE
      /\ UNCHANGED <<settings, asked, wrote, events>>
  BY DEF Abort
<1>2. Types'
  <2>1. reader' \in [busy : BOOLEAN, dev : Devs, fresh : BOOLEAN]
    BY <1>1, NoDeviceType DEF NoReader
  <2>2. gens' \in Seq(Maps) /\ queue' \in Seq(Updates)
    BY <1>1
  <2>3. QED
    BY <1>1, <2>1, <2>2, NoDeviceType, ForgottenType DEF IInv, Types
<1>3. Made'
  BY <1>1, DeviceTreeAssumption DEF Made, NoDevice, NoReader
<1>4. LastWord' /\ LastValue'
  BY <1>1 DEF LastWord, LastValue, NoWordWaits, IsWord, NoUpdate, Forgotten, NoDevice
<1>5. ReaderIsCurrent' /\ StaleIsUnread' /\ TreeIsCurrent' /\ StoredIsAsked'
  BY <1>1 DEF IInv, ReaderIsCurrent, StaleIsUnread, TreeIsCurrent, StoredIsAsked, Announced,
              NoReader, NoDevice
<1>6. QED
  BY <1>2, <1>3, <1>4, <1>5 DEF IInv

LEMMA StutterKeeps == ASSUME IInv, UNCHANGED treeVars PROVE IInv'
<1>1. UNCHANGED <<dev, gens, queue, pusher, reader, settings, vdsm, asked, wrote, events, dropped,
                  owed, raced>>
  BY DEF treeVars
<1>2. Types' /\ Made'
  BY <1>1 DEF IInv, Types, Made
<1>3. LastWord' /\ LastValue'
  BY <1>1 DEF IInv, LastWord, LastValue, NoWordLost, NoWordWaits, IsWord, Word, Brings
<1>4. Announced' = Announced
  BY <1>1 DEF Announced, NoWordLost, NoWordWaits, IsWord
<1>5. ReaderIsCurrent' /\ StaleIsUnread' /\ TreeIsCurrent' /\ StoredIsAsked'
  BY <1>1, <1>4
     DEF IInv, ReaderIsCurrent, StaleIsUnread, TreeIsCurrent, StoredIsAsked, Describes
<1>6. QED
  BY <1>2, <1>3, <1>5 DEF IInv

-----------------------------------------------------------------------------

LEMMA InvNext == IInv /\ [TreeNext]_treeVars => IInv'
<1> SUFFICES ASSUME IInv, [TreeNext]_treeVars PROVE IInv'
  OBVIOUS
<1>1. ASSUME NEW k \in Kinds, AnnounceDevice(k) PROVE IInv'
  BY <1>1, AnnounceKeeps
<1>2. CASE RemoveDevice
  BY <1>2, RemoveKeeps
<1>3. ASSUME NEW f \in Families, NEW i \in Index, NEW v \in ActionKinds, Update(f, i, v) PROVE IInv'
  BY <1>3, UpdateKeeps
<1>4. CASE UpdateActive
  BY <1>4, UpdateActiveKeeps
<1>5. ASSUME NEW f \in Families, NEW i \in Index, SetDescriptor(f, i) PROVE IInv'
  BY <1>5, SetDescriptorKeeps
<1>6. CASE ReAnnounce
  BY <1>6, ReAnnounceKeeps
<1>7. CASE TakeUpdate
  BY <1>7, TakeUpdateKeeps
<1>8. CASE WriteUpdate
  BY <1>8, WriteUpdateKeeps
<1>9. CASE resolveGetPropertyTarget
  BY <1>9, ResolveKeeps
<1>10. CASE GetPropertyAnswer
  BY <1>10, AnswerKeeps
<1>11. ASSUME NEW w \in Writes, SetProperty(w) PROVE IInv'
  BY <1>11, SetPropertyKeeps
<1>12. CASE Abort
  BY <1>12, AbortKeeps
<1>13. CASE UNCHANGED treeVars
  BY <1>13, StutterKeeps
<1>14. QED
  BY <1>1, <1>2, <1>3, <1>4, <1>5, <1>6, <1>7, <1>8, <1>9, <1>10, <1>11, <1>12, <1>13 DEF TreeNext

(* The inductive invariant holds in every reachable state.                 *)
THEOREM Invariance == TreeSpec => []IInv
BY InvInit, InvNext, PTL DEF TreeSpec

(* Whatever order updates are taken, dropped and written in, and whichever *)
(* maps they share, the vDSM ends with the device and the values that the  *)
(* store has: HandleEvent's broadcasts and the push of each update.        *)
THEOREM ValuesAreTold == TreeSpec => []ValuesConverge
<1>1. IInv => TreeTypeOK
  <2> SUFFICES ASSUME IInv PROVE TreeTypeOK
    OBVIOUS
  <2>1. dev.output \in OutputKinds /\ dev.gen \in 0..Len(gens) /\ (dev.present => dev.gen > 0)
        /\ \A f \in Families : dev.desc[f] \subseteq Index
    BY DEF IInv, Types, Made, Devs
  <2>2. /\ \A g \in 1..Len(gens) : gens[g] \in [Families -> [Index -> ActionKinds \cup {NoNumber}]]
        /\ Len(queue) <= Cap
        /\ \A q \in 1..Len(queue) : queue[q].gen \in 1..Len(gens)
    BY DEF IInv, Types, Made, Maps
  <2>3. pusher.kind \in {"none", "init", "remove", "push"}
    BY DEF IInv, Types, Updates, NoUpdate
  <2>4. /\ \A f \in Described : vdsm.tree[f] \subseteq 0..5
        /\ vdsm.vals \in [Families -> [Index -> ActionKinds \cup {NoNumber}]]
        /\ vdsm.clicks \subseteq Index
    BY DEF IInv, Types, Views, Maps
  <2>5. dropped \subseteq {"init", "remove", "push"} /\ owed \in BOOLEAN /\ raced \in BOOLEAN
    BY DEF IInv, Types
  <2>6. QED
    BY <2>1, <2>2, <2>3, <2>4, <2>5 DEF TreeTypeOK
<1>2. IInv /\ AllTold => vdsm.known = dev.present
  BY NoUpdateIs DEF IInv, AllTold, LastWord, NoWordLost, NoWordWaits
<1>3. IInv /\ AllTold /\ dev.present => /\ vdsm.vals = changedStatePayload(gens[dev.gen])
                                      /\ vdsm.clicks = PushedClicks(gens[dev.gen])
  BY DEF IInv, AllTold, LastValue
<1>4. IInv => ValuesConverge
  BY <1>1, <1>2, <1>3 DEF ValuesConverge
<1>5. QED
  BY <1>4, Invariance, PTL

(* A tree that was read after the last announcement describes every        *)
(* declared sensor and input, although descriptors are never pushed.       *)
THEOREM DeclaredIsDescribed == TreeSpec => []DeclaredIsSeen
<1>1. IInv /\ AllTold /\ dev.present /\ ~ owed => Announced
  BY NoUpdateIs DEF AllTold, Announced, NoWordLost, NoWordWaits
<1>2. IInv => DeclaredIsSeen
  BY <1>1 DEF IInv, DeclaredIsSeen, TreeIsCurrent, Describes
<1>3. QED
  BY <1>2, Invariance, PTL

(* Every setting that a tree shows is the one that the vDSM wrote last,    *)
(* across restarts and announcements as whatever kind: SettingsMap reads   *)
(* the entry that setProperty merged.                                      *)
THEOREM WrittenIsShown == TreeSpec => SettingShown
<1> DEFINE Shown ==
      GetPropertyAnswer /\ reader.dev.present =>
        LET p == buildDeviceProperties(reader.dev)
        IN \A s \in SettingsOf(reader.dev, p.tree), field \in {"group", "function"} :
            LET a == asked[s[1]][s[2]][field]
            IN a = NoNumber \/ (a = 0 /\ ZeroHides(s[1], field)) \/ p.shown[s][field] = a
<1> DEFINE tree == buildDeviceProperties(reader.dev).tree
<1>1. ASSUME IInv, NEW s \in SettingsOf(reader.dev, tree), NEW field \in {"group", "function"}
      PROVE  LET a == asked[s[1]][s[2]][field]
             IN  \/ a = NoNumber \/ (a = 0 /\ ZeroHides(s[1], field))
                 \/ buildDeviceProperties(reader.dev).shown[s][field] = a
  <2>1. s[1] \in DOMAIN Unset /\ s[2] \in Index
    BY <1>1 DEF SettingsOf
  <2>2. buildDeviceProperties(reader.dev).shown[s][field]
          = SettingsMap(reader.dev, s[1], s[2], field)
    BY <1>1 DEF buildDeviceProperties
  <2>3. settings["upper"][s[1]][s[2]][field] = asked[s[1]][s[2]][field]
    BY <1>1, <2>1 DEF IInv, StoredIsAsked
  <2>4. QED
    BY <2>2, <2>3 DEF SettingsMap
<1>2. IInv /\ [TreeNext]_treeVars => [Shown]_treeVars
  BY <1>1
<1>3. QED
  BY <1>2, Invariance, PTL DEF TreeSpec, SettingShown
=============================================================================
