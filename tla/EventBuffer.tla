------------------------------ MODULE EventBuffer ------------------------------
(***************************************************************************)
(* How an event reaches the user: plugins publish events and the commander *)
(* publishes device activity into ring buffers (pkg/bridge/event_buffer.go *)
(* and device_activity.go, the same code for two record types), the HTTP   *)
(* server forwards the live stream through the WebSocket hub               *)
(* (pkg/httpapi/server.go, events.go), and the REST handlers read the      *)
(* rings from a sequence number on (plugin_events.go, devices.go).         *)
(*                                                                         *)
(* Publish takes its sequence number before the lock of the rings and fans *)
(* out after it: publishers overtake each other at both places.  Every     *)
(* channel on the way is bounded and drops what does not fit.              *)
(***************************************************************************)
EXTENDS Naturals, Sequences, FiniteSets, SequencesExt

CONSTANTS Writers,     \* goroutines that publish
          Sources,     \* plugins (or devices) with a ring of their own
          PerCap,      \* capacity of a source's ring (500 and 200 in the code)
          GlobalCap,   \* capacity of the global ring (2000)
          ChanCap,     \* capacity of each channel on the way (64, 64 and 32)
          Limits,      \* limits a reader may ask for; 0 is none
          MaxEvents    \* bound on the events published

ASSUME EventBufferAssumption ==
    /\ PerCap \in Nat \ {0} /\ GlobalCap \in Nat \ {0} /\ ChanCap \in Nat \ {0}
    /\ Limits \subseteq Nat /\ MaxEvents \in Nat

VARIABLES counter,    \* the last sequence number given out
          pub,        \* per writer: the event under way and its stage, or Idle
          per,        \* EventBuffer.byPlugin
          global,     \* EventBuffer.global
          live,       \* the HTTP server's subscription of the buffer
          bcast,      \* wsHub.bcast
          client,     \* the channel of a WebSocket client, or Gone
          seen,       \* what the client received, in order
          since,      \* the highest sequence number a polling reader has seen
          settled,    \* history: events the polling reader got or could not get
          joined,     \* history: the counter when the client subscribed
          lost        \* history: events a full channel dropped since then

vars == <<counter, pub, per, global, live, bcast, client, seen, since, settled,
          joined, lost>>
rings == <<per, global>>
stream == <<live, bcast, client, seen, joined, lost>>
poller == <<since, settled>>

Idle == [stage |-> "idle"]
Gone == <<[seq |-> 0]>>
Events == [seq : 1..MaxEvents, src : Sources]
Event(w) == [seq |-> pub[w].seq, src |-> pub[w].src]

TypeOK ==
    /\ counter \in 0..MaxEvents
    /\ pub \in [Writers -> [stage : {"store", "fan"}, seq : 1..MaxEvents, src : Sources]
                            \cup {Idle}]
    /\ \A s \in Sources : Len(per[s]) <= PerCap /\ Range(per[s]) \subseteq Events
    /\ Len(global) <= GlobalCap /\ Range(global) \subseteq Events
    /\ Len(live) <= ChanCap /\ Range(live) \subseteq Events
    /\ Len(bcast) <= ChanCap /\ Range(bcast) \subseteq Events
    /\ client # Gone => Len(client) <= ChanCap /\ Range(client) \subseteq Events
    /\ since \in 0..MaxEvents /\ joined \in 0..MaxEvents
    /\ settled \cup lost \cup Range(seen) \subseteq Events

Init ==
    /\ counter = 0
    /\ pub = [w \in Writers |-> Idle]
    /\ per = [s \in Sources |-> <<>>] /\ global = <<>>
    /\ live = <<>> /\ bcast = <<>> /\ client = Gone /\ seen = <<>>
    /\ since = 0 /\ settled = {}
    /\ joined = 0 /\ lost = {}

Dropped(es) == IF client = Gone THEN lost ELSE lost \cup es

LastN(s, n) == IF Len(s) > n THEN SubSeq(s, Len(s) - n + 1, Len(s)) ELSE s

-----------------------------------------------------------------------------
(* Publish: the atomic counter first.                                      *)
Publish(w, s) ==
    /\ pub[w] = Idle /\ counter < MaxEvents
    /\ counter' = counter + 1
    /\ pub' = [pub EXCEPT ![w] = [stage |-> "store", seq |-> counter + 1, src |-> s]]
    /\ UNCHANGED <<rings, stream, poller>>

(* Append to a ring of n events.                                           *)
AppendRing(s, e, n) == LastN(Append(s, e), n)

(* Both rings under the lock.  An event that the reader has already passed *)
(* is one it can miss, and so is one that leaves the global ring.          *)
Store(w) ==
    /\ pub[w].stage = "store"
    /\ LET e == Event(w)
       IN /\ per' = [per EXCEPT ![e.src] = AppendRing(@, e, PerCap)]
          /\ global' = AppendRing(global, e, GlobalCap)
          /\ settled' = settled \cup (IF e.seq <= since THEN {e} ELSE {})
                                \cup (Range(global) \ Range(global'))
    /\ pub' = [pub EXCEPT ![w].stage = "fan"]
    /\ UNCHANGED <<counter, stream, since>>

(* Deliberate bug: the publisher waits for room in the channel.            *)
FanBlocks(w) ==
    /\ pub[w].stage = "fan" /\ Len(live) < ChanCap
    /\ live' = Append(live, Event(w))
    /\ pub' = [pub EXCEPT ![w] = Idle]
    /\ UNCHANGED <<counter, rings, bcast, client, seen, joined, lost, poller>>

(* The fan-out under its own lock, never blocking.                         *)
Fan(w) ==
    /\ pub[w].stage = "fan"
    /\ IF Len(live) < ChanCap
       THEN live' = Append(live, Event(w)) /\ UNCHANGED lost
       ELSE lost' = Dropped({Event(w)}) /\ UNCHANGED live
    /\ pub' = [pub EXCEPT ![w] = Idle]
    /\ UNCHANGED <<counter, rings, bcast, client, seen, joined, poller>>

(* ClearPlugin empties one source's ring and not the global one.           *)
ClearPlugin(s) ==
    /\ per[s] # <<>>
    /\ per' = [per EXCEPT ![s] = <<>>]
    /\ UNCHANGED <<counter, pub, global, stream, poller>>

-----------------------------------------------------------------------------
(* The HTTP server's forwarding goroutine.                                 *)
Forward ==
    /\ live # <<>>
    /\ live' = Tail(live)
    /\ IF Len(bcast) < ChanCap
       THEN bcast' = Append(bcast, Head(live)) /\ UNCHANGED lost
       ELSE lost' = Dropped({Head(live)}) /\ UNCHANGED bcast
    /\ UNCHANGED <<counter, pub, rings, client, seen, joined, poller>>

(* Deliberate bug: the hub leaves a delivered event in its channel.        *)
HubRepeats ==
    /\ bcast # <<>>
    /\ client' = IF client # Gone /\ Len(client) < ChanCap THEN Append(client, Head(bcast))
                 ELSE client
    /\ bcast' = IF client # Gone THEN bcast ELSE Tail(bcast)
    /\ UNCHANGED <<counter, pub, rings, live, seen, joined, lost, poller>>

(* wsHub.run hands one event to every client that has room.                *)
HubRun ==
    /\ bcast # <<>>
    /\ bcast' = Tail(bcast)
    /\ IF client # Gone /\ Len(client) < ChanCap
       THEN client' = Append(client, Head(bcast)) /\ UNCHANGED lost
       ELSE lost' = Dropped({Head(bcast)}) /\ UNCHANGED client
    /\ UNCHANGED <<counter, pub, rings, live, seen, joined, poller>>

(* handleEvents: subscribe, write what comes, unsubscribe.                 *)
ClientJoins ==
    /\ client = Gone
    /\ client' = <<>> /\ seen' = <<>> /\ joined' = counter
    /\ UNCHANGED <<counter, pub, rings, live, bcast, lost, poller>>

ClientWrite ==
    /\ client # Gone /\ client # <<>>
    /\ seen' = Append(seen, Head(client))
    /\ client' = Tail(client)
    /\ UNCHANGED <<counter, pub, rings, live, bcast, joined, lost, poller>>

ClientLeaves ==
    /\ client # Gone
    /\ client' = Gone /\ seen' = <<>> /\ joined' = 0 /\ lost' = {}
    /\ UNCHANGED <<counter, pub, rings, live, bcast, poller>>

-----------------------------------------------------------------------------
(* The places in the global log of the events after the reader's position. *)
Matching == {i \in 1..Len(global) : global[i].seq > since}

(* Those of them that the limit cuts off: the last ones are returned.      *)
CutOff(limit) ==
    {i \in Matching : limit > 0 /\ Cardinality({j \in Matching : j >= i}) > limit}

(* Deliberate bug: the number after the reader's position is skipped.      *)
SnapshotSkips(limit) == {i \in Matching \ CutOff(limit) : global[i].seq > since + 1}

(* Snapshot of the global log from the reader's position on, as places.    *)
Snapshot(limit) == Matching \ CutOff(limit)

(* A reader that asks for what came after the highest number it has seen.  *)
(* What a limit cuts off is lost to it.                                    *)
Poll(limit) ==
    \E i \in Snapshot(limit) :
        /\ \A j \in Snapshot(limit) : global[j].seq <= global[i].seq
        /\ since' = global[i].seq
        /\ settled' = settled \cup {global[j] : j \in Snapshot(limit) \cup CutOff(limit)}
        /\ UNCHANGED <<counter, pub, rings, stream>>

Next ==
    \/ \E w \in Writers : Store(w) \/ Fan(w) \/ \E s \in Sources : Publish(w, s)
    \/ \E s \in Sources : ClearPlugin(s)
    \/ Forward \/ HubRun \/ ClientJoins \/ ClientWrite \/ ClientLeaves
    \/ \E limit \in Limits : Poll(limit)

(* Goroutines go on by themselves; nobody has to publish, poll, join or    *)
(* clear, and a client may stop to take what is written to it.             *)
Spec ==
    /\ Init /\ [][Next]_vars
    /\ \A w \in Writers : WF_vars(Store(w)) /\ WF_vars(Fan(w))

-----------------------------------------------------------------------------
InFlight ==
    {Event(w) : w \in {v \in Writers : pub[v] # Idle}} \cup Range(live) \cup Range(bcast)

(* In the global ring, place j is the next one of source s after place i;  *)
(* place i is its newest one.                                              *)
Succeeds(s, i, j) ==
    /\ i < j /\ global[i].src = s /\ global[j].src = s
    /\ \A k \in (i + 1)..(j - 1) : global[k].src # s
Newest(s, i) == global[i].src = s /\ \A k \in (i + 1)..Len(global) : global[k].src # s

(* A source's own ring and the global ring tell the same story: the newest *)
(* event of the source is the same in both, and going back from it, event  *)
(* by event, so are the others as far as both rings reach, whatever        *)
(* publishers overtook each other; a cleared ring starts again.            *)
RingsAgree ==
    \A s \in Sources :
        /\ \A i \in 1..Len(global) :
             Newest(s, i) /\ per[s] # <<>> => per[s][Len(per[s])] = global[i]
        /\ \A i, j \in 1..Len(global) : Succeeds(s, i, j) =>
             \A a \in 2..Len(per[s]) : per[s][a] = global[j] => per[s][a - 1] = global[i]

(* A reader that polls from the last number it saw misses an event only    *)
(* when the event was stored after a younger one was read, left the ring   *)
(* before it was read, or was cut off by the reader's own limit; and the   *)
(* rings it may ask agree.                                                 *)
PollerMissesNothing ==
    TypeOK /\ RingsAgree /\ \A i \in 1..Len(global) :
        global[i].seq <= since => global[i] \in settled

(* A WebSocket client gets no event twice, and every event published while *)
(* it is connected is on its way, received, or was dropped by a channel    *)
(* that was full.                                                          *)
StreamIsComplete ==
    client # Gone =>
        /\ IsInjective(seen \o client)
        /\ \A n \in joined + 1 .. counter :
            \E e \in InFlight \cup Range(client) \cup Range(seen) \cup lost : e.seq = n

(* A publisher always gets done: a client that stopped reading costs       *)
(* events and never holds up plugin code.                                  *)
PublishEnds == \A w \in Writers : pub[w] # Idle ~> pub[w] = Idle
=============================================================================
