------------------------------- MODULE Announce -------------------------------
(***************************************************************************)
(* How the dSS comes to know the bridge's devices.  StateStore.HandleEvent *)
(* changes the store under its lock and broadcasts the update after the    *)
(* unlock, into a bounded channel that drops what does not fit             *)
(* (pkg/vdcapi/state_store.go).  A push goroutine turns updates into       *)
(* Vanish, AnnounceDevice and PushNotification frames (pbuf_server.go),    *)
(* while the Hello handler writes the frames of a whole snapshot, after it *)
(* let go of the session's lock (pbuf_dispatch.go).  ConfigStore keeps the *)
(* set of announced devices over restarts so that the next Hello can make  *)
(* the dSS forget the ones that are gone (config_store.go).                *)
(*                                                                         *)
(* A device's state is its presence and its Active flag: those fields are  *)
(* copied with every update.  One connection exists at a time; what the    *)
(* push goroutine of an ended connection still does is in late.            *)
(***************************************************************************)
EXTENDS Naturals, Sequences, SequencesExt

CONSTANTS Devices,    \* by uniqueID, each with its dSUID
          Writers,    \* goroutines that report events: plugins, connectors, handlers
          Cap,        \* capacity of a subscriber's channel (16 in the code)
          Faults      \* which of "network", "crash" and "forget" may happen

ASSUME AnnounceAssumption == Cap \in Nat \ {0}

Absent == "absent"
States == {"active", "inactive"}
None == [kind |-> "none"]

VARIABLES store,       \* StateStore.devices
          pending,     \* the update a writer has yet to broadcast, or None
          conn,        \* "down", "open" (subscribed) or "up" (session active)
          broken,      \* the network no longer delivers what is written
          queue,       \* the subscriber's channel
          pusher,      \* what the push goroutine has yet to write or mark
          hello,       \* frames of the Hello answer yet to be written, by device
          late,        \* marks an ended connection's push goroutine has yet to make
          announced,   \* ConfigStore.announcedDSUIDs, persisted
          dss,         \* what the dSS knows of a device
          disturbed    \* history: something may have parted dss from store

(* No Hello is being answered.                                             *)
Silence == [d \in Devices |-> <<>>]

vars == <<store, pending, conn, broken, queue, pusher, hello, late, announced, dss,
          disturbed>>
link == <<conn, broken>>
frames == <<pusher, hello, late>>

Update == [kind : {"init", "remove", "push"}, dev : Devices, state : States]
Frame == [kind : {"vanish", "announce", "push", "markAdded", "markRemoved"},
          dev : Devices, state : States \cup {Absent}]

TypeOK ==
    /\ store \in [Devices -> States \cup {Absent}]
    /\ pending \in [Writers -> Update \cup {None}]
    /\ conn \in {"down", "open", "up"}
    /\ broken \in BOOLEAN
    /\ queue \in Seq(Update) /\ Len(queue) <= Cap
    /\ pusher \in Seq(Frame)
    /\ hello \in [Devices -> Seq(Frame)]
    /\ late \subseteq Frame
    /\ announced \subseteq Devices
    /\ dss \in [Devices -> States \cup {Absent, "new"}]
    /\ disturbed \subseteq Devices

Init ==
    /\ store = [d \in Devices |-> Absent]
    /\ pending = [w \in Writers |-> None]
    /\ conn = "down"
    /\ broken = FALSE
    /\ queue = <<>>
    /\ pusher = <<>>
    /\ hello = Silence
    /\ late = {}
    /\ announced = {}
    /\ dss = [d \in Devices |-> Absent]
    /\ disturbed = {}

Present == {d \in Devices : store[d] # Absent}

(* Something about the device is on its way from the store to the dSS or   *)
(* to the announced set.                                                   *)
Outstanding(d) ==
    \/ \E w \in Writers : pending[w] # None /\ pending[w].dev = d
    \/ \E u \in ToSet(queue) \cup ToSet(pusher) \cup late : u.dev = d
    \/ hello[d] # <<>>

-----------------------------------------------------------------------------
(* StateStore.HandleEvent: the change under the lock *)

Overlaps(w, d) == \E v \in Writers \ {w} : pending[v] # None /\ pending[v].dev = d

(* A writer changes a device and owes the broadcast.  The history notes    *)
(* changes that overlap another writer's, or the Hello's frames.           *)
Change(w, d, kind, after) ==
    /\ pending[w] = None
    /\ store' = [store EXCEPT ![d] = after]
    /\ pending' = [pending EXCEPT ![w] =
         [kind |-> kind, dev |-> d, state |-> IF after = Absent THEN "active" ELSE after]]
    /\ disturbed' = IF Overlaps(w, d) \/ hello # Silence THEN disturbed \cup {d} ELSE disturbed
    /\ UNCHANGED <<link, queue, frames, announced, dss>>

HandleInit(w, d) == Change(w, d, "init", "active")

HandleRemove(w, d) == store[d] # Absent /\ Change(w, d, "remove", Absent)

HandleActive(w, d, s) == store[d] # Absent /\ Change(w, d, "push", s)

(* A channel, button, input or sensor value: pushed with the same flag.    *)
HandleValue(w, d) == store[d] # Absent /\ Change(w, d, "push", store[d])

ReAnnounce(w, d) == store[d] # Absent /\ Change(w, d, "init", store[d])

(* Deliberate bug: a full channel makes room by dropping its oldest        *)
(* update, and nobody is told.                                             *)
broadcastDropOldest(w) ==
    /\ pending[w] # None
    /\ pending' = [pending EXCEPT ![w] = None]
    /\ queue' = CASE conn = "down" -> queue
                  [] conn # "down" /\ Len(queue) < Cap -> Append(queue, pending[w])
                  [] OTHER -> Append(Tail(queue), pending[w])
    /\ UNCHANGED <<store, link, frames, announced, dss, disturbed>>

(* The update goes to the subscriber, if there is one and its channel has  *)
(* room; otherwise it is dropped.                                          *)
broadcast(w) ==
    /\ pending[w] # None
    /\ pending' = [pending EXCEPT ![w] = None]
    /\ \/ conn = "down" /\ UNCHANGED <<queue, disturbed>>
       \/ /\ conn # "down" /\ Len(queue) < Cap
          /\ queue' = Append(queue, pending[w])
          /\ UNCHANGED disturbed
       \/ /\ conn # "down" /\ Len(queue) = Cap
          /\ disturbed' = disturbed \cup {pending[w].dev}
          /\ UNCHANGED queue
    /\ UNCHANGED <<store, link, frames, announced, dss>>

-----------------------------------------------------------------------------
(* The connection of the vDSM *)

(* handleConn subscribes before it reads the first message.                *)
Connect ==
    /\ conn = "down"
    /\ conn' = "open"
    /\ UNCHANGED <<store, pending, broken, queue, frames, announced, dss, disturbed>>

VanishFrame(d) == [kind |-> "vanish", dev |-> d, state |-> Absent]

AnnounceFrame(d) == [kind |-> "announce", dev |-> d, state |-> Absent]

PushFrame(d, s) == [kind |-> "push", dev |-> d, state |-> s]

(* The frames of the Hello: a Vanish for a stale device; Vanish,           *)
(* AnnounceDevice and PushNotification for a present one.                  *)
HelloFrames(d) ==
    CASE store[d] # Absent ->
           <<VanishFrame(d), AnnounceFrame(d), PushFrame(d, store[d])>>
      [] store[d] = Absent /\ d \in announced -> <<VanishFrame(d)>>
      [] OTHER -> <<>>

(* A Hello is accepted: the snapshot is taken, the announced set is        *)
(* replaced by it (StaleAnnouncedDSUIDs), and the frames are made.         *)
Hello ==
    /\ conn # "down" /\ hello = Silence /\ ~broken
    /\ conn' = "up"
    /\ announced' = Present
    /\ hello' = [d \in Devices |-> HelloFrames(d)]
    /\ disturbed' = {d \in disturbed : Outstanding(d) \/ d \notin announced \cup Present}
    /\ UNCHANGED <<store, pending, broken, queue, pusher, late, dss>>

(* What the dSS makes of a frame (external: the dSS is not in this         *)
(* repository).                                                            *)
Received(f) ==
    CASE f.kind = "vanish" -> [dss EXCEPT ![f.dev] = Absent]
      [] f.kind = "announce" -> [dss EXCEPT ![f.dev] = "new"]
      [] f.kind = "push" -> [dss EXCEPT ![f.dev] = IF @ = Absent THEN @ ELSE f.state]

(* writeFrame: a broken network takes the frame and loses it.              *)
WriteFrame(f) ==
    \/ ~broken /\ dss' = Received(f) /\ UNCHANGED disturbed
    \/ broken /\ disturbed' = disturbed \cup {f.dev} /\ UNCHANGED dss

Stale(d) == hello[d] = <<VanishFrame(d)>>

Begun(d) == hello[d] # <<>> /\ Head(hello[d]).kind # "vanish"

(* The stale devices come first, then one present device after another.    *)
WriteHello(d) ==
    /\ conn = "up" /\ hello[d] # <<>>
    /\ Begun(d) \/ \A e \in Devices : ~Begun(e)
    /\ Stale(d) \/ \A e \in Devices : ~Stale(e)
    /\ WriteFrame(Head(hello[d]))
    /\ hello' = [hello EXCEPT ![d] = Tail(@)]
    /\ UNCHANGED <<store, pending, link, queue, pusher, late, announced>>

-----------------------------------------------------------------------------
(* The push goroutine *)

MarkFor(d, mark) == [kind |-> mark, dev |-> d, state |-> Absent]

(* What an update makes it do: the frames, then the mark.                  *)
PushFrames(u) ==
    CASE u.kind = "init" -> <<VanishFrame(u.dev), AnnounceFrame(u.dev),
                              PushFrame(u.dev, u.state), MarkFor(u.dev, "markAdded")>>
      [] u.kind = "remove" -> <<VanishFrame(u.dev), MarkFor(u.dev, "markRemoved")>>
      [] u.kind = "push" -> <<PushFrame(u.dev, u.state)>>

(* It takes an update, and skips it while the session is not active.       *)
TakeUpdate ==
    /\ conn # "down" /\ pusher = <<>> /\ queue # <<>>
    /\ queue' = Tail(queue)
    /\ pusher' = IF conn = "up" THEN PushFrames(Head(queue)) ELSE <<>>
    /\ UNCHANGED <<store, pending, link, hello, late, announced, dss, disturbed>>

Push ==
    /\ conn = "up" /\ pusher # <<>>
    /\ Head(pusher).kind \in {"vanish", "announce", "push"}
    /\ WriteFrame(Head(pusher))
    /\ pusher' = Tail(pusher)
    /\ UNCHANGED <<store, pending, link, queue, hello, late, announced>>

Marked(f) == IF f.kind = "markAdded" THEN announced \cup {f.dev} ELSE announced \ {f.dev}

(* Deliberate bug: the announced set forgets what was announced.           *)
MarkDSUIDNot ==
    /\ pusher # <<>> /\ Head(pusher).kind \in {"markAdded", "markRemoved"}
    /\ pusher' = Tail(pusher)
    /\ UNCHANGED <<store, pending, link, queue, hello, late, announced, dss, disturbed>>

(* MarkDSUIDAdded or MarkDSUIDRemoved, after the frames were written.      *)
MarkDSUID ==
    /\ pusher # <<>> /\ Head(pusher).kind \in {"markAdded", "markRemoved"}
    /\ announced' = Marked(Head(pusher))
    /\ pusher' = Tail(pusher)
    /\ UNCHANGED <<store, pending, link, queue, hello, late, dss, disturbed>>

(* The push goroutine of an ended connection makes its last mark.          *)
LateMark(f) ==
    /\ f \in late
    /\ announced' = Marked(f)
    /\ late' = late \ {f}
    /\ disturbed' = disturbed \cup {f.dev}
    /\ UNCHANGED <<store, pending, link, queue, pusher, hello, dss>>

-----------------------------------------------------------------------------
(* Failures *)

NetworkBreaks ==
    /\ "network" \in Faults
    /\ conn # "down" /\ ~broken
    /\ broken' = TRUE
    /\ UNCHANGED <<store, pending, conn, queue, frames, announced, dss, disturbed>>

(* The connection ends: a write fails, the peer closes, or Bye.  Frames    *)
(* not yet written are never written; a mark that is due is still made.    *)
Disconnect ==
    /\ conn # "down"
    /\ conn' = "down"
    /\ broken' = FALSE
    /\ queue' = <<>>
    /\ pusher' = <<>>
    /\ hello' = Silence
    /\ late' = late \cup (IF Len(pusher) = 1 /\ pusher[1].kind \in {"markAdded", "markRemoved"}
                          THEN {pusher[1]} ELSE {})
    /\ disturbed' = disturbed \cup {d \in Devices : Outstanding(d)}
    /\ UNCHANGED <<store, pending, announced, dss>>

(* The process crashes and starts again: only the announced set survives.  *)
Restart ==
    /\ "crash" \in Faults
    /\ conn' = "down"
    /\ broken' = FALSE
    /\ store' = [d \in Devices |-> Absent]
    /\ pending' = [w \in Writers |-> None]
    /\ queue' = <<>>
    /\ pusher' = <<>>
    /\ hello' = Silence
    /\ late' = {}
    /\ disturbed' = disturbed \cup {d \in Devices : Outstanding(d)}
    /\ UNCHANGED <<announced, dss>>

(* "Forget vDSM" in the settings: ClearAnnouncedDSUIDs.                    *)
ForgetVdsm ==
    /\ "forget" \in Faults
    /\ announced' = {}
    /\ disturbed' = disturbed \cup announced
    /\ UNCHANGED <<store, pending, link, queue, frames, dss>>

-----------------------------------------------------------------------------

WriterStep(w) ==
    \/ broadcast(w)
    \/ \E d \in Devices : \/ HandleInit(w, d) \/ HandleRemove(w, d)
                          \/ HandleValue(w, d) \/ ReAnnounce(w, d)
                          \/ \E s \in States : HandleActive(w, d, s)

PushStep == TakeUpdate \/ Push \/ MarkDSUID

Next ==
    \/ \E w \in Writers : WriterStep(w)
    \/ Connect \/ Hello
    \/ \E d \in Devices : WriteHello(d)
    \/ PushStep
    \/ \E f \in late : LateMark(f)
    \/ NetworkBreaks \/ Disconnect \/ Restart \/ ForgetVdsm

Spec == Init /\ [][Next]_vars

-----------------------------------------------------------------------------
(* Properties *)

(* Once nothing about a device is on its way, the dSS knows it exactly if  *)
(* the store has it, with the state it has there, unless an update of the  *)
(* device was dropped at a full channel, two writers changed it at once,   *)
(* it changed while the Hello was being answered, or a lost connection cut *)
(* an update off.  A Hello repairs the devices it lists, if no older       *)
(* update of them is still on its way.                                     *)
Converges ==
    conn = "up" =>
        \A d \in Devices \ disturbed : ~Outstanding(d) => dss[d] = store[d]

(* The announced set covers what the dSS knows, with the same exceptions   *)
(* and whether or not a session exists: it is all the next Hello has to    *)
(* find the devices that are to vanish.                                    *)
AnnouncedCovers ==
    TypeOK /\ \A d \in Devices \ disturbed :
        ~Outstanding(d) /\ dss[d] # Absent => d \in announced

=============================================================================
