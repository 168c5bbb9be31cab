---------------------------- MODULE AnnounceProofs ----------------------------
(***************************************************************************)
(* Proofs about Announce: for any number of devices and writers, any       *)
(* capacity of the channel and every fault of the module, what the dSS     *)
(* knows of a device agrees with the store once nothing about the device   *)
(* is on its way, and the announced set covers it.                         *)
(*                                                                         *)
(* The two properties speak of a device nothing is on its way of.  The     *)
(* inductive invariant IInv has to say what holds meanwhile: what the      *)
(* frames and updates that are left will make of the device.               *)
(***************************************************************************)
EXTENDS Announce, TLAPS

Kinds == {"init", "remove", "push"}
Marks == {"markAdded", "markRemoved"}
FrameKinds == {"vanish", "announce", "push"}

(* A writer owes an update of the device.                                  *)
Owed(w, d) == pending[w] # None /\ pending[w].dev = d

(* An update of the device, of one of the kinds, has yet to reach the push *)
(* goroutine.                                                              *)
Coming(d, kinds) ==
    \/ \E w \in Writers : Owed(w, d) /\ pending[w].kind \in kinds
    \/ \E i \in 1..Len(queue) : queue[i].dev = d /\ queue[i].kind \in kinds

(* The push goroutine has yet to write or make such a frame or mark of the *)
(* device; the answer to the Hello still holds such a frame.               *)
Pushing(d, kind) == \E i \in 1..Len(pusher) : pusher[i].dev = d /\ pusher[i].kind = kind
Answering(d, kind) == \E i \in 1..Len(hello[d]) : hello[d][i].kind = kind

(* What an update, and what a frame or a mark, says of the device.         *)
Says(u, d) == store[d] = IF u.kind = "remove" THEN Absent ELSE u.state

Fits(f, d) ==
    /\ f.kind = "push" => store[d] = f.state
    /\ f.kind \in {"announce", "markAdded"} => store[d] # Absent
    /\ f.kind = "markRemoved" => store[d] = Absent

(* What is left of an update's frames and mark, and of a Hello's frames.   *)
PusherForms(d, s) ==
    {<<>>, <<PushFrame(d, s)>>,
     <<VanishFrame(d), MarkFor(d, "markRemoved")>>, <<MarkFor(d, "markRemoved")>>,
     <<VanishFrame(d), AnnounceFrame(d), PushFrame(d, s), MarkFor(d, "markAdded")>>,
     <<AnnounceFrame(d), PushFrame(d, s), MarkFor(d, "markAdded")>>,
     <<PushFrame(d, s), MarkFor(d, "markAdded")>>, <<MarkFor(d, "markAdded")>>}

HelloForms(d, s) ==
    {<<>>, <<VanishFrame(d)>>, <<VanishFrame(d), AnnounceFrame(d), PushFrame(d, s)>>,
     <<AnnounceFrame(d), PushFrame(d, s)>>, <<PushFrame(d, s)>>}

-----------------------------------------------------------------------------
(* The inductive invariant *)

(* Frames are left in the order they are written in, and of one device.    *)
Forms ==
    /\ pusher = <<>> \/ \E d \in Devices, s \in States : pusher \in PusherForms(d, s)
    /\ \A d \in Devices : \E s \in States : hello[d] \in HelloForms(d, s)

(* Without a session there are no frames, without a connection no queue;   *)
(* what is due of an ended connection is a mark of a disturbed device.     *)
Quiet ==
    /\ conn # "up" => pusher = <<>> /\ hello = Silence
    /\ conn = "down" => queue = <<>>
    /\ \A f \in late : f.kind \in Marks /\ f.dev \in disturbed

(* One writer at a time is about to broadcast the device.                  *)
OneWriter ==
    \A d \in Devices \ disturbed : \A v, w \in Writers : Owed(v, d) /\ Owed(w, d) => v = w

(* The last of what is on its way says what the store says.                *)
LastSays ==
    \A d \in Devices \ disturbed :
        /\ \A w \in Writers : Owed(w, d) => Says(pending[w], d)
        /\ \A i \in 1..Len(queue) : queue[i].dev = d =>
             \/ \E w \in Writers : Owed(w, d)
             \/ \E j \in i..Len(queue) : queue[j].dev = d /\ Says(queue[j], d)
        /\ ~Coming(d, Kinds) => \A i \in 1..Len(pusher) : pusher[i].dev = d => Fits(pusher[i], d)

(* The Hello's frames say what the store says.                             *)
HelloSays ==
    \A d \in Devices \ disturbed :
        /\ \A i \in 1..Len(hello[d]) : Fits(hello[d][i], d)
        /\ store[d] # Absent => hello[d] # <<VanishFrame(d)>>

(* A removal on its way of a device that is present is followed by its     *)
(* announcement.                                                           *)
ComesBack ==
    \A d \in Devices \ disturbed : store[d] # Absent =>
        /\ \A i \in 1..Len(queue) : queue[i].dev = d /\ queue[i].kind = "remove" =>
             \/ \E w \in Writers : Owed(w, d) /\ pending[w].kind = "init"
             \/ \E j \in i..Len(queue) : queue[j].dev = d /\ queue[j].kind = "init"
        /\ Pushing(d, "markRemoved") => Coming(d, {"init"})

(* The dSS knows the device as the store does, or a frame is to come; it   *)
(* knows a present device, or an announcement is to come.                  *)
Told ==
    conn = "up" => \A d \in Devices \ disturbed :
        /\ \/ Coming(d, Kinds)
           \/ \E k \in FrameKinds : Pushing(d, k) \/ Answering(d, k)
           \/ dss[d] = store[d]
        /\ \/ store[d] = Absent \/ Coming(d, {"init"})
           \/ Pushing(d, "announce") \/ Answering(d, "announce")
           \/ dss[d] # Absent

(* A present device is in the announced set or its mark is to come; with   *)
(* no session, the set covers what the dSS knows.                          *)
Covered ==
    \A d \in Devices \ disturbed :
        /\ conn = "up" => \/ store[d] = Absent \/ d \in announced
                          \/ Coming(d, {"init"}) \/ Pushing(d, "markAdded")
        /\ conn # "up" => dss[d] = Absent \/ d \in announced

IInv ==
    /\ TypeOK /\ Forms /\ Quiet /\ OneWriter
    /\ LastSays /\ HelloSays /\ ComesBack
    /\ Told /\ Covered

-----------------------------------------------------------------------------
(* Lemmas about sequences, updates and frames *)

(* What Append gives, element by element.                                  *)
LEMMA AppendFacts ==
  ASSUME NEW S, NEW q \in Seq(S), NEW u \in S
  PROVE  /\ Append(q, u) \in Seq(S) /\ Len(Append(q, u)) = Len(q) + 1 /\ Len(q) \in Nat
         /\ \A i \in 1..Len(q) : Append(q, u)[i] = q[i]
         /\ Append(q, u)[Len(q) + 1] = u
OBVIOUS

(* What Head and Tail give, element by element.                            *)
LEMMA TailFacts ==
  ASSUME NEW S, NEW q \in Seq(S), q # <<>>
  PROVE  /\ Tail(q) \in Seq(S) /\ Len(Tail(q)) = Len(q) - 1
         /\ Len(q) \in Nat \ {0} /\ Head(q) = q[1] /\ Head(q) \in S
         /\ \A i \in 1..Len(Tail(q)) : Tail(q)[i] = q[i + 1]
OBVIOUS

(* The fields of an update; None is not one.                               *)
LEMMA UpdateFacts ==
  ASSUME NEW u \in Update
  PROVE  u.kind \in Kinds /\ u.dev \in Devices /\ u.state \in States /\ u # None
BY DEF Update, Kinds, None

(* The fields of a frame.                                                  *)
LEMMA FrameFacts ==
  ASSUME NEW f \in Frame
  PROVE  f.kind \in FrameKinds \cup Marks /\ f.dev \in Devices /\ f.state \in States \cup {Absent}
BY DEF Frame, FrameKinds, Marks

(* No state is the one that stands for absence.                            *)
LEMMA StateFacts == Absent \notin States /\ "new" \notin States /\ Absent # "new"
BY DEF States, Absent

(* Each frame and mark, with its fields.                                   *)
LEMMA Makers ==
  ASSUME NEW d \in Devices, NEW s \in States
  PROVE  /\ VanishFrame(d) \in Frame /\ VanishFrame(d).kind = "vanish" /\ VanishFrame(d).dev = d
         /\ AnnounceFrame(d) \in Frame /\ AnnounceFrame(d).kind = "announce"
         /\ AnnounceFrame(d).dev = d
         /\ PushFrame(d, s) \in Frame /\ PushFrame(d, s).kind = "push" /\ PushFrame(d, s).dev = d
         /\ PushFrame(d, s).state = s
         /\ \A m \in Marks :
              MarkFor(d, m) \in Frame /\ MarkFor(d, m).kind = m /\ MarkFor(d, m).dev = d
BY DEF VanishFrame, AnnounceFrame, PushFrame, MarkFor, Frame, Marks

(* What is left with the push goroutine is of one device; a Vanish is      *)
(* followed by an announcement or by the mark that the device is removed,  *)
(* an announcement by a push, and a push by neither.                       *)
LEMMA PusherFacts ==
  ASSUME NEW d \in Devices, NEW s \in States, NEW p \in PusherForms(d, s)
  PROVE  /\ p \in Seq(Frame)
         /\ \A i \in 1..Len(p) : p[i].dev = d
         /\ p # <<>> => Tail(p) \in PusherForms(d, s)
         /\ p # <<>> /\ Head(p).kind = "vanish" =>
              \E i \in 1..Len(Tail(p)) : Tail(p)[i].kind \in {"announce", "markRemoved"}
         /\ p # <<>> /\ Head(p).kind = "announce" =>
              \E i \in 1..Len(Tail(p)) : Tail(p)[i].kind = "push"
         /\ p # <<>> /\ Head(p).kind \in Marks => Tail(p) = <<>>
         /\ p # <<>> /\ Head(p).kind = "push" =>
              /\ Head(p).state = s
              /\ \A i \in 1..Len(p) : p[i].kind \notin {"announce", "vanish"}
<1> DEFINE v == VanishFrame(d)
           a == AnnounceFrame(d)
           n == PushFrame(d, s)
           m == MarkFor(d, "markAdded")
           r == MarkFor(d, "markRemoved")
<1>1. /\ v \in Frame /\ v.kind = "vanish" /\ v.dev = d
      /\ a \in Frame /\ a.kind = "announce" /\ a.dev = d
      /\ n \in Frame /\ n.kind = "push" /\ n.dev = d /\ n.state = s
      /\ m \in Frame /\ m.kind = "markAdded" /\ m.dev = d
      /\ r \in Frame /\ r.kind = "markRemoved" /\ r.dev = d
  BY Makers DEF Marks
<1>2. PusherForms(d, s) =
        {<<>>, <<n>>, <<v, r>>, <<r>>, <<v, a, n, m>>, <<a, n, m>>, <<n, m>>, <<m>>}
  BY DEF PusherForms
<1> HIDE DEF v, a, n, m, r
<1>3. CASE p = <<>>
  BY <1>3
<1>4. CASE p = <<n>>
  BY <1>1, <1>2, <1>4 DEF Marks
<1>5. CASE p = <<v, r>>
  <2>1. Tail(p) = <<r>>
    BY <1>5
  <2>2. QED
    BY <1>1, <1>2, <1>5, <2>1 DEF Marks
<1>6. CASE p = <<r>>
  BY <1>1, <1>2, <1>6 DEF Marks
<1>7. CASE p = <<v, a, n, m>>
  <2>1. Tail(p) = <<a, n, m>>
    BY <1>7
  <2>2. QED
    BY <1>1, <1>2, <1>7, <2>1 DEF Marks
<1>8. CASE p = <<a, n, m>>
  <2>1. Tail(p) = <<n, m>>
    BY <1>8
  <2>2. QED
    BY <1>1, <1>2, <1>8, <2>1 DEF Marks
<1>9. CASE p = <<n, m>>
  <2>1. Tail(p) = <<m>>
    BY <1>9
  <2>2. QED
    BY <1>1, <1>2, <1>9, <2>1 DEF Marks
<1>10. CASE p = <<m>>
  BY <1>1, <1>2, <1>10 DEF Marks
<1>11. QED
  BY <1>2, <1>3, <1>4, <1>5, <1>6, <1>7, <1>8, <1>9, <1>10

(* What is left of a device in the answer to the Hello.                    *)
LEMMA HelloFacts ==
  ASSUME NEW d \in Devices, NEW s \in States, NEW p \in HelloForms(d, s)
  PROVE  /\ p \in Seq(Frame)
         /\ \A i \in 1..Len(p) : p[i].dev = d /\ p[i].kind \in FrameKinds
         /\ p # <<>> => Tail(p) \in HelloForms(d, s) /\ Tail(p) # <<VanishFrame(d)>>
         /\ p # <<>> /\ Head(p).kind = "vanish" /\ p # <<VanishFrame(d)>> =>
              \E i \in 1..Len(Tail(p)) : Tail(p)[i].kind = "announce"
         /\ p # <<>> /\ Head(p).kind = "announce" =>
              \E i \in 1..Len(Tail(p)) : Tail(p)[i].kind = "push"
         /\ p # <<>> /\ Head(p).kind = "push" =>
              /\ Head(p).state = s
              /\ \A i \in 1..Len(p) : p[i].kind \notin {"announce", "vanish"}
<1> DEFINE v == VanishFrame(d)
           a == AnnounceFrame(d)
           n == PushFrame(d, s)
<1>1. /\ v \in Frame /\ v.kind = "vanish" /\ v.dev = d
      /\ a \in Frame /\ a.kind = "announce" /\ a.dev = d
      /\ n \in Frame /\ n.kind = "push" /\ n.dev = d /\ n.state = s
  BY Makers
<1>2. HelloForms(d, s) = {<<>>, <<v>>, <<v, a, n>>, <<a, n>>, <<n>>}
  BY DEF HelloForms
<1>3. v = VanishFrame(d)
  OBVIOUS
<1> HIDE DEF v, a, n
<1>4. CASE p = <<>>
  BY <1>4
<1>5. CASE p = <<v>>
  <2>1. Tail(p) = <<>>
    BY <1>5
  <2>2. QED
    BY <1>1, <1>2, <1>3, <1>5, <2>1 DEF FrameKinds
<1>6. CASE p = <<v, a, n>>
  <2>1. Tail(p) = <<a, n>> /\ <<a, n>> # <<v>>
    BY <1>6
  <2>2. QED
    BY <1>1, <1>2, <1>3, <1>6, <2>1 DEF FrameKinds
<1>7. CASE p = <<a, n>>
  <2>1. Tail(p) = <<n>> /\ <<n>> # <<v>>
    BY <1>1, <1>7
  <2>2. QED
    BY <1>1, <1>2, <1>3, <1>7, <2>1 DEF FrameKinds
<1>8. CASE p = <<n>>
  <2>1. Tail(p) = <<>>
    BY <1>8
  <2>2. QED
    BY <1>1, <1>2, <1>3, <1>8, <2>1 DEF FrameKinds
<1>9. QED
  BY <1>2, <1>4, <1>5, <1>6, <1>7, <1>8

-----------------------------------------------------------------------------
(* The steps *)

(* The store is empty and nothing is on its way.                           *)
LEMMA Start == Init => IInv
<1> SUFFICES ASSUME Init PROVE IInv
  OBVIOUS
<1>1. TypeOK
  <2>1. <<>> \in Seq(Update) /\ Len(<<>>) <= Cap /\ <<>> \in Seq(Frame)
    BY AnnounceAssumption
  <2>2. QED
    BY <2>1 DEF Init, TypeOK, Silence
<1>2. /\ \A w \in Writers, d \in Devices : ~Owed(w, d)
      /\ Len(queue) = 0 /\ Len(pusher) = 0 /\ late = {} /\ conn = "down"
      /\ \A d \in Devices : hello[d] = <<>> /\ Len(hello[d]) = 0 /\ dss[d] = Absent
  BY DEF Init, Owed, Silence
<1>3. Forms
  <2>1. \A d \in Devices : "active" \in States /\ hello[d] \in HelloForms(d, "active")
    BY <1>2 DEF States, HelloForms
  <2>2. QED
    BY <2>1 DEF Init, Forms
<1>4. Quiet
  BY DEF Init, Quiet
<1>5. OneWriter /\ LastSays /\ HelloSays
  BY <1>2 DEF OneWriter, LastSays, HelloSays
<1>6. ComesBack
  BY <1>2 DEF ComesBack, Pushing
<1>7. Told /\ Covered
  BY <1>2 DEF Told, Covered
<1>8. QED
  BY <1>1, <1>3, <1>4, <1>5, <1>6, <1>7 DEF IInv

(* HandleEvent and ReAnnounce: the store changes and the update is owed.   *)
LEMMA ChangeKeeps ==
  ASSUME IInv, NEW w \in Writers, NEW d \in Devices, NEW kind \in Kinds,
         NEW after \in States \cup {Absent}, Change(w, d, kind, after),
         kind = "remove" <=> after = Absent, store[d] # Absent \/ kind = "init"
  PROVE  IInv'
<1> DEFINE u == [kind |-> kind, dev |-> d, state |-> IF after = Absent THEN "active" ELSE after]
<1>0. /\ u \in Update /\ u.kind = kind /\ u.dev = d /\ u # None
      /\ after # Absent => u.state = after
  BY DEF Update, States, Kinds, None
<1>1. /\ pending[w] = None /\ pending' = [pending EXCEPT ![w] = u]
      /\ store' = [store EXCEPT ![d] = after]
      /\ disturbed \subseteq disturbed' /\ disturbed' \subseteq disturbed \cup {d}
      /\ d \notin disturbed' => ~Overlaps(w, d) /\ hello = Silence
      /\ conn' = conn /\ broken' = broken /\ queue' = queue /\ pusher' = pusher
      /\ hello' = hello /\ late' = late /\ announced' = announced /\ dss' = dss
  BY DEF Change, link, frames
<1> HIDE DEF u
<1>2. TypeOK'
  BY <1>0, <1>1 DEF IInv, TypeOK
<1>3. /\ pending'[w] = u /\ \A v \in Writers \ {w} : pending'[v] = pending[v]
      /\ store'[d] = after /\ \A e \in Devices \ {d} : store'[e] = store[e]
  BY <1>1 DEF IInv, TypeOK
<1>4. /\ \A e \in Devices : Owed(w, e)' <=> e = d
      /\ \A v \in Writers, e \in Devices : v # w => (Owed(v, e)' <=> Owed(v, e))
      /\ \A e \in Devices : ~Owed(w, e)
  BY <1>0, <1>1, <1>3 DEF Owed
<1>5. d \notin disturbed' => \A v \in Writers : v # w => ~Owed(v, d)
  BY <1>1 DEF Overlaps, Owed
<1>6. /\ \A e \in Devices, k \in SUBSET Kinds : Coming(e, k) => Coming(e, k)'
      /\ \A e \in Devices, k \in SUBSET Kinds : e # d => (Coming(e, k)' <=> Coming(e, k))
      /\ \A k \in SUBSET Kinds : kind \in k => Coming(d, k)'
  BY <1>0, <1>1, <1>3, <1>4 DEF Coming
<1>7. /\ \A e \in Devices : \A k : Pushing(e, k)' <=> Pushing(e, k)
      /\ \A e \in Devices : \A k : Answering(e, k)' <=> Answering(e, k)
  BY <1>1 DEF Pushing, Answering
<1>8. {"init"} \in SUBSET Kinds /\ Kinds \in SUBSET Kinds /\ kind \in Kinds
  BY DEF Kinds
<1>9. Forms' /\ Quiet'
  BY <1>1 DEF IInv, Forms, Quiet
<1>10. OneWriter'
  BY <1>1, <1>4, <1>5 DEF IInv, OneWriter
<1>11. LastSays'
  <2> SUFFICES ASSUME NEW e \in Devices \ disturbed'
               PROVE  /\ \A v \in Writers : Owed(v, e)' => Says(pending[v], e)'
                      /\ \A i \in 1..Len(queue') : queue'[i].dev = e =>
                           \/ \E v \in Writers : Owed(v, e)'
                           \/ \E j \in i..Len(queue') : queue'[j].dev = e /\ Says(queue[j], e)'
                      /\ ~Coming(e, Kinds)' => \A i \in 1..Len(pusher') :
                           pusher'[i].dev = e => Fits(pusher[i], e)'
    BY DEF LastSays
  <2>1. CASE e = d
    <3>1. \A v \in Writers : Owed(v, e)' => Says(pending[v], e)'
      BY <1>0, <1>3, <1>4, <1>5, <2>1 DEF Says
    <3>2. QED
      BY <1>4, <1>6, <1>8, <2>1, <3>1
  <2>2. CASE e # d
    <3>1. /\ \A x : (store'[e] = IF x.kind = "remove" THEN Absent ELSE x.state) <=> Says(x, e)
          /\ \A v \in Writers : Owed(v, e)' => pending'[v] = pending[v] /\ Owed(v, e)
      BY <1>3, <1>4, <2>2 DEF Says
    <3>2. \A v \in Writers : Owed(v, e)' => Says(pending[v], e)'
      BY <1>1, <1>3, <2>2, <3>1 DEF IInv, LastSays, Says
    <3>3. \A i \in 1..Len(queue') : queue'[i].dev = e =>
            \/ \E v \in Writers : Owed(v, e)'
            \/ \E j \in i..Len(queue') : queue'[j].dev = e /\ Says(queue[j], e)'
      BY <1>1, <1>3, <1>4, <2>2 DEF IInv, LastSays, Says
    <3>4. ~Coming(e, Kinds)' => \A i \in 1..Len(pusher') : pusher'[i].dev = e => Fits(pusher[i], e)'
      BY <1>1, <1>3, <1>6, <1>8, <2>2 DEF IInv, LastSays, Fits
    <3>5. QED
      BY <3>2, <3>3, <3>4
  <2>3. QED
    BY <2>1, <2>2
<1>12. HelloSays'
  <2>1. \A e \in Devices \ disturbed' : e # d =>
          /\ \A i \in 1..Len(hello'[e]) : Fits(hello[e][i], e)'
          /\ store'[e] # Absent => hello'[e] # <<VanishFrame(e)>>
    BY <1>1, <1>3 DEF IInv, HelloSays, Fits
  <2>2. d \notin disturbed' => hello'[d] = <<>>
    BY <1>1 DEF Silence
  <2>3. QED
    BY <2>1, <2>2 DEF HelloSays
<1>13. ComesBack'
  <2> SUFFICES ASSUME NEW e \in Devices \ disturbed', store'[e] # Absent
               PROVE  /\ \A i \in 1..Len(queue') : queue'[i].dev = e /\ queue'[i].kind = "remove" =>
                           \/ \E v \in Writers : Owed(v, e)' /\ pending'[v].kind = "init"
                           \/ \E j \in i..Len(queue') : queue'[j].dev = e /\ queue'[j].kind = "init"
                      /\ Pushing(e, "markRemoved")' => Coming(e, {"init"})'
    BY DEF ComesBack
  <2>1. CASE e = d /\ kind = "init"
    BY <1>0, <1>3, <1>4, <1>6, <1>8, <2>1
  <2>2. CASE store[e] # Absent
    BY <1>1, <1>3, <1>4, <1>6, <1>7, <1>8, <2>2 DEF IInv, ComesBack
  <2>3. QED
    BY <1>3, <2>1, <2>2
<1>14. Told'
  BY <1>1, <1>3, <1>6, <1>7, <1>8 DEF IInv, Told
<1>15. Covered'
  BY <1>1, <1>3, <1>6, <1>7, <1>8 DEF IInv, Covered
<1>16. QED
  BY <1>2, <1>9, <1>10, <1>11, <1>12, <1>13, <1>14, <1>15 DEF IInv

(* broadcast: the update enters the channel, is dropped at a full one, or  *)
(* has no subscriber.                                                      *)
LEMMA BroadcastKeeps ==
  ASSUME IInv, NEW w \in Writers, broadcast(w)
  PROVE  IInv'
<1> DEFINE u == pending[w]
<1>1. /\ u # None /\ pending' = [pending EXCEPT ![w] = None]
      /\ \/ conn = "down" /\ queue' = queue /\ disturbed' = disturbed
         \/ /\ conn # "down" /\ Len(queue) < Cap
            /\ queue' = Append(queue, u) /\ disturbed' = disturbed
         \/ /\ conn # "down" /\ Len(queue) = Cap
            /\ queue' = queue /\ disturbed' = disturbed \cup {u.dev}
      /\ store' = store /\ conn' = conn /\ broken' = broken /\ pusher' = pusher
      /\ hello' = hello /\ late' = late /\ announced' = announced /\ dss' = dss
  BY DEF broadcast, link, frames
<1>2. u \in Update /\ u.kind \in Kinds /\ u.dev \in Devices /\ u.state \in States
  BY <1>1, UpdateFacts DEF IInv, TypeOK
<1> HIDE DEF u
<1>3. queue \in Seq(Update) /\ Len(queue) \in Nat /\ Cap \in Nat \ {0}
  BY AnnounceAssumption DEF IInv, TypeOK
<1>4. /\ Append(queue, u) \in Seq(Update) /\ Len(Append(queue, u)) = Len(queue) + 1
      /\ \A i \in 1..Len(queue) : Append(queue, u)[i] = queue[i]
      /\ Append(queue, u)[Len(queue) + 1] = u
  BY <1>2, <1>3, AppendFacts
<1>5. /\ pending'[w] = None /\ \A v \in Writers \ {w} : pending'[v] = pending[v]
      /\ \A e \in Devices : ~Owed(w, e)' /\ (Owed(w, e) <=> e = u.dev)
      /\ \A e \in Devices, v \in Writers \ {w} : Owed(v, e)' <=> Owed(v, e)
  BY <1>1, <1>2 DEF IInv, TypeOK, Owed, u
<1>6. TypeOK'
  <2>1. pending' \in [Writers -> Update \cup {None}]
    BY <1>1 DEF IInv, TypeOK
  <2>2. queue' \in Seq(Update) /\ Len(queue') <= Cap
    <3>1. Len(queue) < Cap => Len(queue) + 1 <= Cap
      BY <1>3
    <3>2. Len(queue) <= Cap
      BY DEF IInv, TypeOK
    <3>3. QED
      BY <1>1, <1>3, <1>4, <3>1, <3>2
  <2>3. QED
    BY <1>1, <1>2, <2>1, <2>2 DEF IInv, TypeOK
<1>7. /\ \A e \in Devices : \A k : Pushing(e, k)' <=> Pushing(e, k)
      /\ \A e \in Devices : \A k : Answering(e, k)' <=> Answering(e, k)
      /\ \A e \in Devices : \A x : Says(x, e)' <=> Says(x, e)
      /\ \A e \in Devices : \A f : Fits(f, e)' <=> Fits(f, e)
  BY <1>1 DEF Pushing, Answering, Says, Fits
<1>8. Forms' /\ Quiet' /\ OneWriter' /\ HelloSays'
  <2>1. Forms' /\ HelloSays'
    BY <1>1 DEF IInv, Forms, HelloSays, Fits
  <2>2. Quiet'
    BY <1>1 DEF IInv, Quiet
  <2>3. OneWriter'
    BY <1>1, <1>5 DEF IInv, OneWriter
  <2>4. QED
    BY <2>1, <2>2, <2>3
<1>9. {"init"} \in SUBSET Kinds /\ Kinds \in SUBSET Kinds
  BY DEF Kinds
<1>10. CASE conn = "down"
  <2>1. queue' = <<>> /\ Len(queue') = 0 /\ pusher' = <<>> /\ Len(pusher') = 0
    BY <1>1, <1>10 DEF IInv, Quiet
  <2>2. LastSays'
    <3>1. \A e \in Devices \ disturbed' : \A v \in Writers : Owed(v, e)' => Says(pending[v], e)'
      BY <1>1, <1>5, <1>10 DEF IInv, LastSays, Says
    <3>2. QED
      BY <2>1, <3>1 DEF LastSays
  <2>3. ComesBack'
    BY <2>1 DEF ComesBack, Pushing
  <2>4. Told' /\ Covered'
    BY <1>1, <1>10 DEF IInv, Told, Covered
  <2>5. QED
    BY <1>6, <1>8, <2>2, <2>3, <2>4 DEF IInv
<1>11. CASE conn # "down"
  <2>1. \A e \in Devices \ disturbed', k \in SUBSET Kinds : Coming(e, k)' <=> Coming(e, k)
    <3>1. CASE Len(queue) < Cap
      <4>1. queue' = Append(queue, u)
        BY <1>1, <1>3, <1>11, <3>1
      <4>2. ASSUME NEW e \in Devices \ disturbed', NEW k \in SUBSET Kinds
            PROVE  Coming(e, k)' <=> Coming(e, k)
        <5>1. Coming(e, k) => Coming(e, k)'
          BY <1>2, <1>3, <1>4, <1>5, <4>1 DEF Coming, u
        <5>2. Coming(e, k)' => Coming(e, k)
          <6>1. \A i \in 1..Len(queue') : i \in 1..Len(queue) \/ i = Len(queue) + 1
            BY <1>3, <1>4, <4>1
          <6>2. QED
            BY <1>1, <1>2, <1>3, <1>4, <1>5, <4>1, <6>1 DEF Coming, u
        <5>3. QED
          BY <5>1, <5>2
      <4>3. QED
        BY <4>2
    <3>2. CASE Len(queue) = Cap
      BY <1>1, <1>3, <1>5, <1>11, <3>2 DEF Coming
    <3>3. QED
      BY <1>1, <1>11, <3>1, <3>2
  <2>2. \A e \in Devices \ disturbed' : e \in Devices \ disturbed
    BY <1>1
  <2>3. LastSays'
    <3> SUFFICES ASSUME NEW e \in Devices \ disturbed'
                 PROVE  /\ \A v \in Writers : Owed(v, e)' => Says(pending[v], e)'
                        /\ \A i \in 1..Len(queue') : queue'[i].dev = e =>
                             \/ \E v \in Writers : Owed(v, e)'
                             \/ \E j \in i..Len(queue') : queue'[j].dev = e /\ Says(queue[j], e)'
                        /\ ~Coming(e, Kinds)' => \A i \in 1..Len(pusher') :
                             pusher'[i].dev = e => Fits(pusher[i], e)'
      BY DEF LastSays
    <3>1. \A v \in Writers : Owed(v, e)' => Says(pending[v], e)'
      BY <1>1, <1>5, <2>2 DEF IInv, LastSays, Says
    <3>2. ~Coming(e, Kinds)' => \A i \in 1..Len(pusher') : pusher'[i].dev = e => Fits(pusher[i], e)'
      BY <1>1, <1>9, <2>1, <2>2 DEF IInv, LastSays, Fits
    <3>3. ASSUME NEW i \in 1..Len(queue'), queue'[i].dev = e
          PROVE  \/ \E v \in Writers : Owed(v, e)'
                 \/ \E j \in i..Len(queue') : queue'[j].dev = e /\ Says(queue[j], e)'
      <4>1. CASE u.dev = e
        <5>1. /\ queue' = Append(queue, u) /\ Len(queue) + 1 \in i..Len(queue')
              /\ queue'[Len(queue) + 1] = u
          BY <1>1, <1>3, <1>4, <1>11, <4>1
        <5>2. Says(u, e)
          BY <1>5, <2>2, <4>1 DEF IInv, LastSays, u
        <5>3. QED
          BY <1>1, <4>1, <5>1, <5>2 DEF Says
      <4>2. CASE u.dev # e
        <5>1. i \in 1..Len(queue) /\ queue[i].dev = e
          BY SMTT(30), <1>1, <1>3, <1>4, <1>11, <3>3, <4>2
        <5>2. \/ \E v \in Writers : Owed(v, e)
              \/ \E j \in i..Len(queue) : queue[j].dev = e /\ Says(queue[j], e)
          BY <2>2, <5>1 DEF IInv, LastSays
        <5>3. CASE \E v \in Writers : Owed(v, e)
          BY <1>5, <4>2, <5>3
        <5>4. ASSUME NEW j \in i..Len(queue), queue[j].dev = e, Says(queue[j], e)
              PROVE  j \in i..Len(queue') /\ queue'[j].dev = e /\ Says(queue[j], e)'
          BY SMTT(30), <1>1, <1>3, <1>4, <1>11, <5>1, <5>4 DEF Says
        <5>5. QED
          BY <5>2, <5>3, <5>4
      <4>3. QED
        BY <4>1, <4>2
    <3>4. QED
      BY <3>1, <3>2, <3>3
  <2>4. ComesBack'
    <3> SUFFICES ASSUME NEW e \in Devices \ disturbed', store'[e] # Absent
                 PROVE  /\ \A i \in 1..Len(queue') :
                             queue'[i].dev = e /\ queue'[i].kind = "remove" =>
                               \/ \E v \in Writers : Owed(v, e)' /\ pending'[v].kind = "init"
                               \/ \E j \in i..Len(queue') :
                                    queue'[j].dev = e /\ queue'[j].kind = "init"
                        /\ Pushing(e, "markRemoved")' => Coming(e, {"init"})'
      BY DEF ComesBack
    <3>1. Pushing(e, "markRemoved")' => Coming(e, {"init"})'
      BY <1>1, <1>7, <1>9, <2>1, <2>2 DEF IInv, ComesBack
    <3>2. ASSUME NEW i \in 1..Len(queue'), queue'[i].dev = e, queue'[i].kind = "remove"
          PROVE  \/ \E v \in Writers : Owed(v, e)' /\ pending'[v].kind = "init"
                 \/ \E j \in i..Len(queue') : queue'[j].dev = e /\ queue'[j].kind = "init"
      <4>1. u.dev = e => Says(u, e) /\ u.kind # "remove"
        BY <1>1, <1>5, <2>2 DEF IInv, LastSays, Says, u
      <4>2. i \in 1..Len(queue) /\ queue[i].dev = e /\ queue[i].kind = "remove"
        BY <1>1, <1>3, <1>4, <1>11, <3>2, <4>1
      <4>3. \/ \E v \in Writers : Owed(v, e) /\ pending[v].kind = "init"
            \/ \E j \in i..Len(queue) : queue[j].dev = e /\ queue[j].kind = "init"
        BY <1>1, <2>2, <4>2 DEF IInv, ComesBack
      <4>4. ASSUME NEW v \in Writers, Owed(v, e), pending[v].kind = "init"
            PROVE  \/ Owed(v, e)' /\ pending'[v].kind = "init"
                   \/ \E j \in i..Len(queue') : queue'[j].dev = e /\ queue'[j].kind = "init"
        <5>1. CASE v # w
          BY <1>5, <4>4, <5>1
        <5>2. CASE v = w
          <6>1. u.dev = e /\ u.kind = "init"
            BY <1>5, <4>4, <5>2 DEF u
          <6>2. queue' = Append(queue, u) /\ Len(queue) + 1 \in i..Len(queue')
            BY <1>1, <1>3, <1>4, <1>11, <4>2, <6>1
          <6>3. QED
            BY <1>4, <6>1, <6>2
        <5>3. QED
          BY <5>1, <5>2
      <4>5. ASSUME NEW j \in i..Len(queue), queue[j].dev = e, queue[j].kind = "init"
            PROVE  j \in i..Len(queue') /\ queue'[j].dev = e /\ queue'[j].kind = "init"
        BY SMTT(30), <1>1, <1>3, <1>4, <1>11, <4>2, <4>5
      <4>6. QED
        BY <4>3, <4>4, <4>5
    <3>3. QED
      BY <3>1, <3>2
  <2>5. Told'
    BY <1>1, <1>7, <1>9, <2>1, <2>2 DEF IInv, Told
  <2>6. Covered'
    BY <1>1, <1>7, <1>9, <2>1, <2>2 DEF IInv, Covered
  <2>7. QED
    BY <1>6, <1>8, <2>3, <2>4, <2>5, <2>6 DEF IInv
<1>12. QED
  BY <1>10, <1>11

(* Nothing is on its way of a device that has nothing outstanding.         *)
LEMMA NotOutstanding ==
  ASSUME TypeOK, NEW d \in Devices, ~Outstanding(d)
  PROVE  /\ \A w \in Writers : ~Owed(w, d)
         /\ \A i \in 1..Len(queue) : queue[i].dev # d
         /\ \A i \in 1..Len(pusher) : pusher[i].dev # d
         /\ hello[d] = <<>> /\ Len(hello[d]) = 0
         /\ \A f \in late : f.dev # d
         /\ ~Coming(d, Kinds) /\ ~Coming(d, {"init"})
         /\ \A k : ~Pushing(d, k) /\ ~Answering(d, k)
<1>1. queue \in Seq(Update) /\ pusher \in Seq(Frame)
  BY DEF TypeOK
<1>2. /\ \A i \in 1..Len(queue) : queue[i] \in ToSet(queue)
      /\ \A i \in 1..Len(pusher) : pusher[i] \in ToSet(pusher)
  BY <1>1 DEF ToSet
<1>3. /\ \A w \in Writers : ~Owed(w, d)
      /\ \A i \in 1..Len(queue) : queue[i].dev # d
      /\ \A i \in 1..Len(pusher) : pusher[i].dev # d
      /\ hello[d] = <<>>
      /\ \A f \in late : f.dev # d
  BY <1>2 DEF Outstanding, Owed
<1>4. QED
  BY <1>3 DEF Coming, Pushing, Answering

(* With nothing outstanding, an undisturbed device is known and covered.   *)
LEMMA Settled ==
  ASSUME IInv, NEW d \in Devices \ disturbed, ~Outstanding(d)
  PROVE  /\ conn = "up" => dss[d] = store[d]
         /\ dss[d] # Absent => d \in announced
<1>1. /\ ~Coming(d, Kinds) /\ ~Coming(d, {"init"})
      /\ \A k : ~Pushing(d, k) /\ ~Answering(d, k)
  BY NotOutstanding DEF IInv
<1>2. QED
  BY <1>1 DEF IInv, Told, Covered

(* A subscription begins, or the network breaks: nothing that is on its    *)
(* way changes.                                                            *)
LEMMA ConnectKeeps ==
  ASSUME IInv, Connect \/ NetworkBreaks
  PROVE  IInv'
<1>1. /\ store' = store /\ pending' = pending /\ queue' = queue /\ pusher' = pusher
      /\ hello' = hello /\ late' = late /\ announced' = announced /\ dss' = dss
      /\ disturbed' = disturbed /\ conn' \in {"down", "open", "up"} /\ broken' \in BOOLEAN
      /\ (conn' = "up" <=> conn = "up") /\ (conn' = "down" => conn = "down")
  BY DEF IInv, TypeOK, Connect, NetworkBreaks, frames
<1>2. TypeOK' /\ Forms' /\ Quiet'
  BY <1>1 DEF IInv, TypeOK, Forms, Quiet
<1>3. /\ \A e \in Devices, w \in Writers : Owed(w, e)' <=> Owed(w, e)
      /\ \A e \in Devices : \A k : Coming(e, k)' <=> Coming(e, k)
      /\ \A e \in Devices : \A k : Pushing(e, k)' <=> Pushing(e, k)
      /\ \A e \in Devices : \A k : Answering(e, k)' <=> Answering(e, k)
      /\ \A e \in Devices : \A u : Says(u, e)' <=> Says(u, e)
      /\ \A e \in Devices : \A f : Fits(f, e)' <=> Fits(f, e)
  BY <1>1 DEF Owed, Coming, Pushing, Answering, Says, Fits
<1>4. OneWriter'
  BY <1>1, <1>3 DEF IInv, OneWriter
<1>5. LastSays'
  BY <1>1 DEF IInv, LastSays, Owed, Coming, Says, Fits
<1>6. HelloSays'
  BY <1>1 DEF IInv, HelloSays, Fits
<1>7. ComesBack'
  BY <1>1 DEF IInv, ComesBack, Owed, Coming, Pushing
<1>8. Told' /\ Covered'
  BY <1>1, <1>3 DEF IInv, Told, Covered
<1>9. QED
  BY <1>2, <1>4, <1>5, <1>6, <1>7, <1>8 DEF IInv

(* The announced set changes for a device that is disturbed, or is         *)
(* forgotten: what is said of the other devices stands.                    *)
LEMMA SetChangeKeeps ==
  ASSUME IInv, ForgetVdsm \/ \E f \in late : LateMark(f)
  PROVE  IInv'
<1>1. /\ store' = store /\ pending' = pending /\ queue' = queue /\ pusher' = pusher
      /\ hello' = hello /\ conn' = conn /\ broken' = broken /\ dss' = dss
      /\ late' \subseteq late /\ disturbed \subseteq disturbed' /\ disturbed' \subseteq Devices
      /\ announced' \subseteq Devices
      /\ \A e \in Devices \ disturbed' : e \in announced => e \in announced'
  <2>1. CASE ForgetVdsm
    BY <2>1 DEF IInv, TypeOK, ForgetVdsm, link, frames
  <2>2. CASE \E f \in late : LateMark(f)
    <3>1. PICK f \in late : LateMark(f)
      BY <2>2
    <3>2. /\ announced' = Marked(f) /\ late' = late \ {f} /\ disturbed' = disturbed \cup {f.dev}
          /\ store' = store /\ pending' = pending /\ queue' = queue /\ pusher' = pusher
          /\ hello' = hello /\ conn' = conn /\ broken' = broken /\ dss' = dss
      BY <3>1 DEF LateMark, link
    <3>3. f.dev \in Devices /\ announced \subseteq Devices /\ disturbed \subseteq Devices
      BY FrameFacts DEF IInv, TypeOK
    <3>4. Marked(f) \subseteq Devices /\ announced \ {f.dev} \subseteq Marked(f)
      BY <3>3 DEF Marked
    <3>5. QED
      BY <3>2, <3>3, <3>4
  <2>3. QED
    BY <2>1, <2>2
<1>2. TypeOK' /\ Forms' /\ Quiet'
  BY <1>1 DEF IInv, TypeOK, Forms, Quiet
<1>3. /\ \A e \in Devices, w \in Writers : Owed(w, e)' <=> Owed(w, e)
      /\ \A e \in Devices : \A k : Coming(e, k)' <=> Coming(e, k)
      /\ \A e \in Devices : \A k : Pushing(e, k)' <=> Pushing(e, k)
      /\ \A e \in Devices : \A k : Answering(e, k)' <=> Answering(e, k)
  BY <1>1 DEF Owed, Coming, Pushing, Answering
<1>4. OneWriter'
  BY <1>1, <1>3 DEF IInv, OneWriter
<1>5. LastSays'
  BY <1>1 DEF IInv, LastSays, Owed, Coming, Says, Fits
<1>6. HelloSays'
  BY <1>1 DEF IInv, HelloSays, Fits
<1>7. ComesBack'
  BY <1>1 DEF IInv, ComesBack, Owed, Coming, Pushing
<1>8. Told' /\ Covered'
  BY <1>1, <1>3 DEF IInv, Told, Covered
<1>9. QED
  BY <1>2, <1>4, <1>5, <1>6, <1>7, <1>8 DEF IInv

(* The connection ends or the process starts again: what was on its way is *)
(* cut off and its devices are disturbed; of the others, the announced set *)
(* covered what the dSS knows.                                             *)
LEMMA EndKeeps ==
  ASSUME IInv, Disconnect \/ Restart
  PROVE  IInv'
<1>1. /\ conn' = "down" /\ broken' = FALSE /\ queue' = <<>> /\ pusher' = <<>> /\ hello' = Silence
      /\ announced' = announced /\ dss' = dss
      /\ disturbed' = disturbed \cup {d \in Devices : Outstanding(d)}
      /\ \/ /\ pending' = pending /\ store' = store
            /\ late' = late \cup (IF Len(pusher) = 1 /\ pusher[1].kind \in Marks
                                  THEN {pusher[1]} ELSE {})
         \/ /\ pending' = [w \in Writers |-> None] /\ late' = {}
            /\ store' = [d \in Devices |-> Absent]
  BY DEF Disconnect, Restart, Marks
<1>2. \A d \in Devices \ disturbed' : /\ d \in Devices \ disturbed /\ ~Outstanding(d)
                                      /\ dss[d] # Absent => d \in announced
  BY <1>1, Settled
<1>3. \A d \in Devices \ disturbed', w \in Writers : ~Owed(w, d)'
  <2>1. CASE pending' = pending
    BY <1>2, <2>1, NotOutstanding DEF IInv, Owed
  <2>2. CASE pending' = [w \in Writers |-> None]
    BY <2>2 DEF Owed
  <2>3. QED
    BY <1>1, <2>1, <2>2
<1>4. \A f \in late' : f \in Frame /\ f.kind \in Marks /\ f.dev \in disturbed'
  <2>1. \A f \in late : f \in Frame /\ f.kind \in Marks /\ f.dev \in disturbed'
    BY <1>1 DEF IInv, TypeOK, Quiet
  <2>2. CASE Len(pusher) = 1 /\ pusher[1].kind \in Marks
    <3>1. pusher \in Seq(Frame)
      BY DEF IInv, TypeOK
    <3>2. pusher[1] \in Frame /\ 1 \in 1..Len(pusher)
      BY <2>2, <3>1
    <3>3. pusher[1].dev \in Devices
      BY <3>2, FrameFacts
    <3>4. pusher[1].dev \in disturbed'
      BY <1>2, <3>2, <3>3, NotOutstanding DEF IInv
    <3>5. QED
      BY <1>1, <2>1, <2>2, <3>2, <3>4
  <2>3. CASE ~(Len(pusher) = 1 /\ pusher[1].kind \in Marks)
    BY <1>1, <2>1, <2>3
  <2>4. QED
    BY <2>2, <2>3
<1>5. TypeOK'
  <2>1. <<>> \in Seq(Update) /\ Len(<<>>) <= Cap /\ <<>> \in Seq(Frame)
    BY AnnounceAssumption
  <2>2. store' \in [Devices -> States \cup {Absent}] /\ pending' \in [Writers -> Update \cup {None}]
    BY <1>1 DEF IInv, TypeOK
  <2>3. QED
    BY <1>1, <1>4, <2>1, <2>2 DEF IInv, TypeOK, Silence
<1>6. Forms'
  <2>1. \A d \in Devices : "active" \in States /\ hello'[d] \in HelloForms(d, "active")
    BY <1>1 DEF States, HelloForms, Silence
  <2>2. QED
    BY <1>1, <2>1 DEF Forms
<1>7. Quiet'
  BY <1>1, <1>4 DEF Quiet, Silence
<1>8. /\ Len(queue') = 0 /\ Len(pusher') = 0
      /\ \A d \in Devices : hello'[d] = <<>> /\ Len(hello'[d]) = 0
  BY <1>1 DEF Silence
<1>9. OneWriter' /\ LastSays' /\ HelloSays'
  BY <1>3, <1>8 DEF OneWriter, LastSays, HelloSays
<1>10. ComesBack'
  BY <1>8 DEF ComesBack, Pushing
<1>11. Told' /\ Covered'
  BY <1>1, <1>2 DEF Told, Covered
<1>12. QED
  BY <1>5, <1>6, <1>7, <1>9, <1>10, <1>11 DEF IInv

(* A Hello: the frames of the snapshot repair the devices it lists.  A     *)
(* device it does not list is absent, and the dSS does not know it unless  *)
(* a frame is to come.                                                     *)
LEMMA HelloKeeps ==
  ASSUME IInv, Hello
  PROVE  IInv'
<1>1. /\ conn # "down" /\ hello = Silence /\ conn' = "up" /\ announced' = Present
      /\ hello' = [d \in Devices |-> HelloFrames(d)]
      /\ disturbed' = {d \in disturbed : Outstanding(d) \/ d \notin announced \cup Present}
      /\ store' = store /\ pending' = pending /\ broken' = broken /\ queue' = queue
      /\ pusher' = pusher /\ late' = late /\ dss' = dss
  BY DEF Hello
<1>2. \A d \in Devices :
        /\ store[d] # Absent => /\ store[d] \in States /\ d \in announced'
                                /\ hello'[d] = <<VanishFrame(d), AnnounceFrame(d),
                                                 PushFrame(d, store[d])>>
        /\ store[d] = Absent /\ d \in announced => hello'[d] = <<VanishFrame(d)>>
        /\ store[d] = Absent /\ d \notin announced => hello'[d] = <<>>
  BY <1>1 DEF HelloFrames, Present, IInv, TypeOK
<1>3. \A d \in Devices : \E s \in States :
         hello'[d] \in HelloForms(d, s) /\ (store[d] # Absent => s = store[d])
  <2>1. "active" \in States
    BY DEF States
  <2>2. ASSUME NEW d \in Devices
        PROVE  \E s \in States :
                  hello'[d] \in HelloForms(d, s) /\ (store[d] # Absent => s = store[d])
    <3>1. CASE store[d] # Absent
      BY <1>2, <3>1 DEF HelloForms
    <3>2. CASE store[d] = Absent
      BY <1>2, <2>1, <3>2 DEF HelloForms
    <3>3. QED
      BY <3>1, <3>2
  <2>3. QED
    BY <2>2
<1>4. TypeOK'
  <2>1. \A d \in Devices : hello'[d] \in Seq(Frame)
    BY <1>3, HelloFacts
  <2>2. hello' \in [Devices -> Seq(Frame)]
    BY <1>1, <2>1
  <2>3. QED
    BY <1>1, <2>2 DEF IInv, TypeOK, Present
<1>5. Forms'
  BY <1>1, <1>3 DEF IInv, Forms
<1>6. /\ \A d \in Devices \ disturbed' :
           \/ d \in Devices \ disturbed
           \/ ~Outstanding(d) /\ d \in announced \cup Present
      /\ \A d \in Devices : store[d] # Absent <=> d \in Present
  BY <1>1 DEF Present
<1>7. Quiet'
  <2>1. \A f \in late : f.kind \in Marks /\ f.dev \in disturbed /\ f.dev \in Devices
    BY FrameFacts DEF IInv, Quiet, TypeOK
  <2>2. \A f \in late : Outstanding(f.dev)
    BY <2>1, NotOutstanding DEF IInv
  <2>3. QED
    BY <1>1, <2>1, <2>2 DEF Quiet
<1>8. /\ \A e \in Devices, w \in Writers : Owed(w, e)' <=> Owed(w, e)
      /\ \A e \in Devices : \A k : Coming(e, k)' <=> Coming(e, k)
      /\ \A e \in Devices : \A k : Pushing(e, k)' <=> Pushing(e, k)
      /\ \A e \in Devices : \A u : Says(u, e)' <=> Says(u, e)
      /\ \A e \in Devices : \A f : Fits(f, e)' <=> Fits(f, e)
  BY <1>1 DEF Owed, Coming, Pushing, Says, Fits
<1>9. OneWriter'
  BY <1>6, <1>8, NotOutstanding DEF IInv, OneWriter
<1>10. LastSays'
  <2> SUFFICES ASSUME NEW e \in Devices \ disturbed'
               PROVE  /\ \A v \in Writers : Owed(v, e) => Says(pending[v], e)
                      /\ \A i \in 1..Len(queue) : queue[i].dev = e =>
                           \/ \E v \in Writers : Owed(v, e)
                           \/ \E j \in i..Len(queue) : queue[j].dev = e /\ Says(queue[j], e)
                      /\ ~Coming(e, Kinds) => \A i \in 1..Len(pusher) :
                           pusher[i].dev = e => Fits(pusher[i], e)
    BY <1>1 DEF LastSays, Owed, Coming, Says, Fits
  <2>1. CASE e \in Devices \ disturbed
    BY <2>1 DEF IInv, LastSays
  <2>2. CASE ~Outstanding(e)
    BY <2>2, NotOutstanding DEF IInv
  <2>3. QED
    BY <1>6, <2>1, <2>2
<1>11. HelloSays'
  <2>1. ASSUME NEW e \in Devices \ disturbed', NEW i \in 1..Len(hello'[e])
        PROVE  Fits(hello[e][i], e)'
    <3>1. CASE store[e] # Absent
      <4>1. /\ hello'[e] = <<VanishFrame(e), AnnounceFrame(e), PushFrame(e, store[e])>>
            /\ store[e] \in States
        BY <1>2, <3>1
      <4>2. hello'[e][i] \in {VanishFrame(e), AnnounceFrame(e), PushFrame(e, store[e])}
        BY <4>1
      <4>3. /\ hello'[e][i].kind \in FrameKinds
            /\ hello'[e][i].kind = "push" => hello'[e][i].state = store[e]
        BY <4>1, <4>2, Makers DEF FrameKinds
      <4>4. QED
        BY <1>1, <3>1, <4>3 DEF Fits, FrameKinds
    <3>2. CASE store[e] = Absent
      <4>1. hello'[e] \in {<<>>, <<VanishFrame(e)>>}
        BY <1>2, <3>2
      <4>2. QED
        BY <1>1, <3>2, <4>1 DEF Fits, VanishFrame
    <3>3. QED
      BY <3>1, <3>2
  <2>2. \A e \in Devices \ disturbed' : store'[e] # Absent => hello'[e] # <<VanishFrame(e)>>
    BY <1>1, <1>2
  <2>3. QED
    BY <2>1, <2>2 DEF HelloSays
<1>12. ComesBack'
  <2> SUFFICES ASSUME NEW e \in Devices \ disturbed', store[e] # Absent
               PROVE  /\ \A i \in 1..Len(queue) : queue[i].dev = e /\ queue[i].kind = "remove" =>
                           \/ \E v \in Writers : Owed(v, e) /\ pending[v].kind = "init"
                           \/ \E j \in i..Len(queue) : queue[j].dev = e /\ queue[j].kind = "init"
                      /\ Pushing(e, "markRemoved") => Coming(e, {"init"})
    BY <1>1 DEF ComesBack, Owed, Coming, Pushing
  <2>1. CASE e \in Devices \ disturbed
    BY <2>1 DEF IInv, ComesBack
  <2>2. CASE ~Outstanding(e)
    BY <2>2, NotOutstanding DEF IInv
  <2>3. QED
    BY <1>6, <2>1, <2>2
<1>13. Told'
  <2> SUFFICES ASSUME NEW e \in Devices \ disturbed'
               PROVE  /\ \/ Coming(e, Kinds)'
                         \/ \E k \in FrameKinds : Pushing(e, k)' \/ Answering(e, k)'
                         \/ dss'[e] = store'[e]
                      /\ \/ store'[e] = Absent \/ Coming(e, {"init"})'
                         \/ Pushing(e, "announce")' \/ Answering(e, "announce")'
                         \/ dss'[e] # Absent
    BY DEF Told
  <2>1. CASE store[e] # Absent
    <3>1. /\ hello'[e] = <<VanishFrame(e), AnnounceFrame(e), PushFrame(e, store[e])>>
          /\ store[e] \in States
      BY <1>2, <2>1
    <3>2. Answering(e, "announce")'
      <4>1. 2 \in 1..Len(hello'[e]) /\ hello'[e][2].kind = "announce"
        BY <3>1, Makers
      <4>2. QED
        BY <4>1 DEF Answering
    <3>3. QED
      BY <3>2 DEF FrameKinds
  <2>2. CASE store[e] = Absent /\ e \in announced
    <3>1. hello'[e] = <<VanishFrame(e)>>
      BY <1>2, <2>2
    <3>2. Answering(e, "vanish")'
      <4>1. 1 \in 1..Len(hello'[e]) /\ hello'[e][1].kind = "vanish"
        BY <3>1 DEF VanishFrame
      <4>2. QED
        BY <4>1 DEF Answering
    <3>3. QED
      BY <1>1, <2>2, <3>2 DEF FrameKinds
  <2>3. CASE store[e] = Absent /\ e \notin announced
    <3>1. e \in Devices \ disturbed /\ hello[e] = <<>>
      BY <1>1, <1>6, <2>3 DEF Silence
    <3>2. \A k : ~Answering(e, k)
      BY <3>1 DEF Answering
    <3>3. CASE conn = "up"
      BY <1>1, <1>8, <2>3, <3>1, <3>2, <3>3 DEF IInv, Told
    <3>4. CASE conn # "up"
      BY <1>1, <2>3, <3>1, <3>4 DEF IInv, Covered
    <3>5. QED
      BY <3>3, <3>4
  <2>4. QED
    BY <2>1, <2>2, <2>3
<1>14. Covered'
  BY <1>1, <1>2 DEF Covered
<1>15. QED
  BY <1>4, <1>5, <1>7, <1>9, <1>10, <1>11, <1>12, <1>13, <1>14 DEF IInv

(* What a frame makes of dss and disturbed.                                *)
LEMMA WriteFacts ==
  ASSUME TypeOK, NEW f \in Frame, f.kind \in FrameKinds, WriteFrame(f)
  PROVE  /\ dss' \in [Devices -> States \cup {Absent, "new"}]
         /\ disturbed' \subseteq Devices /\ disturbed \subseteq disturbed'
         /\ \A e \in Devices : e # f.dev => dss'[e] = dss[e]
         /\ f.dev \notin disturbed' =>
              /\ f.kind = "vanish" => dss'[f.dev] = Absent
              /\ f.kind = "announce" => dss'[f.dev] = "new"
              /\ f.kind = "push" => dss'[f.dev] = IF dss[f.dev] = Absent THEN Absent ELSE f.state
<1>1. f.dev \in Devices /\ f.state \in States \cup {Absent}
  BY FrameFacts
<1>2. CASE ~broken /\ dss' = Received(f) /\ disturbed' = disturbed
  <2>1. CASE f.kind = "vanish"
    <3>1. dss' = [dss EXCEPT ![f.dev] = Absent]
      BY <1>2, <2>1 DEF Received
    <3>2. QED
      BY <1>1, <1>2, <2>1, <3>1 DEF TypeOK
  <2>2. CASE f.kind = "announce"
    <3>1. dss' = [dss EXCEPT ![f.dev] = "new"]
      BY <1>2, <2>2 DEF Received
    <3>2. QED
      BY <1>1, <1>2, <2>2, <3>1 DEF TypeOK
  <2>3. CASE f.kind = "push"
    <3>1. dss' = [dss EXCEPT ![f.dev] = IF @ = Absent THEN @ ELSE f.state]
      BY <1>2, <2>3 DEF Received
    <3>2. QED
      BY <1>1, <1>2, <2>3, <3>1 DEF TypeOK
  <2>4. QED
    BY <2>1, <2>2, <2>3 DEF FrameKinds
<1>3. CASE disturbed' = disturbed \cup {f.dev} /\ dss' = dss
  BY <1>1, <1>3 DEF TypeOK
<1>4. QED
  BY <1>2, <1>3 DEF WriteFrame

(* A frame of the Hello is written.                                        *)
LEMMA WriteHelloKeeps ==
  ASSUME IInv, NEW d \in Devices, WriteHello(d)
  PROVE  IInv'
<1> DEFINE f == Head(hello[d])
<1>1. /\ conn = "up" /\ hello[d] # <<>> /\ WriteFrame(f)
      /\ hello' = [hello EXCEPT ![d] = Tail(@)]
      /\ store' = store /\ pending' = pending /\ conn' = conn /\ broken' = broken
      /\ queue' = queue /\ pusher' = pusher /\ late' = late /\ announced' = announced
  BY DEF WriteHello, link
<1>2. PICK s \in States : hello[d] \in HelloForms(d, s)
  BY DEF IInv, Forms
<1>3. /\ hello[d] \in Seq(Frame) /\ f \in Frame /\ 1 \in 1..Len(hello[d]) /\ f = hello[d][1]
      /\ Tail(hello[d]) \in Seq(Frame) /\ Len(Tail(hello[d])) = Len(hello[d]) - 1
      /\ \A i \in 1..Len(Tail(hello[d])) : Tail(hello[d])[i] = hello[d][i + 1]
      /\ Len(hello[d]) \in Nat
  BY <1>1, TailFacts DEF IInv, TypeOK
<1>4. /\ f.dev = d /\ f.kind \in FrameKinds
      /\ Tail(hello[d]) \in HelloForms(d, s) /\ Tail(hello[d]) # <<VanishFrame(d)>>
      /\ f.kind = "vanish" /\ hello[d] # <<VanishFrame(d)>> =>
           \E i \in 1..Len(Tail(hello[d])) : Tail(hello[d])[i].kind = "announce"
      /\ f.kind = "announce" =>
           \E i \in 1..Len(Tail(hello[d])) : Tail(hello[d])[i].kind = "push"
      /\ f.kind = "push" =>
           /\ f.state = s
           /\ \A i \in 1..Len(hello[d]) : hello[d][i].kind \notin {"announce", "vanish"}
  BY <1>1, <1>2, <1>3, HelloFacts
<1>5. /\ dss' \in [Devices -> States \cup {Absent, "new"}]
      /\ disturbed' \subseteq Devices /\ disturbed \subseteq disturbed'
      /\ \A e \in Devices : e # d => dss'[e] = dss[e]
      /\ d \notin disturbed' =>
           /\ f.kind = "vanish" => dss'[d] = Absent
           /\ f.kind = "announce" => dss'[d] = "new"
           /\ f.kind = "push" => dss'[d] = IF dss[d] = Absent THEN Absent ELSE f.state
  BY <1>1, <1>3, <1>4, WriteFacts DEF IInv
<1> HIDE DEF f
<1>6. /\ hello'[d] = Tail(hello[d]) /\ \A e \in Devices \ {d} : hello'[e] = hello[e]
      /\ hello' \in [Devices -> Seq(Frame)]
  BY <1>1, <1>3 DEF IInv, TypeOK
<1>7. TypeOK'
  BY <1>1, <1>5, <1>6 DEF IInv, TypeOK
<1>8. Forms'
  BY <1>1, <1>2, <1>4, <1>6 DEF IInv, Forms
<1>9. Quiet'
  BY <1>1, <1>5 DEF IInv, Quiet
<1>10. /\ \A e \in Devices, w \in Writers : Owed(w, e)' <=> Owed(w, e)
       /\ \A e \in Devices : \A k : Coming(e, k)' <=> Coming(e, k)
       /\ \A e \in Devices : \A k : Pushing(e, k)' <=> Pushing(e, k)
       /\ \A e \in Devices \ {d} : \A k : Answering(e, k)' <=> Answering(e, k)
       /\ \A e \in Devices : \A u : Says(u, e)' <=> Says(u, e)
       /\ \A e \in Devices : \A g : Fits(g, e)' <=> Fits(g, e)
  BY <1>1, <1>6 DEF Owed, Coming, Pushing, Answering, Says, Fits
<1>11. OneWriter'
  BY <1>5, <1>10 DEF IInv, OneWriter
<1>12. LastSays'
  <2>1. \A e \in Devices \ disturbed' : e \in Devices \ disturbed
    BY <1>5
  <2>2. QED
    BY <1>1, <2>1 DEF IInv, LastSays, Owed, Coming, Says, Fits
<1>13. HelloSays'
  <2>1. \A e \in Devices \ disturbed' : e # d =>
          /\ \A i \in 1..Len(hello'[e]) : Fits(hello[e][i], e)'
          /\ store'[e] # Absent => hello'[e] # <<VanishFrame(e)>>
    BY <1>1, <1>5, <1>6 DEF IInv, HelloSays, Fits
  <2>2. d \notin disturbed' => \A i \in 1..Len(hello'[d]) : Fits(hello[d][i], d)'
    <3>1. d \notin disturbed' => \A i \in 1..Len(hello[d]) : Fits(hello[d][i], d)
      BY <1>5 DEF IInv, HelloSays
    <3>2. \A i \in 1..Len(hello'[d]) : i + 1 \in 1..Len(hello[d]) /\ hello'[d][i] = hello[d][i + 1]
      BY <1>3, <1>6
    <3>3. QED
      BY <1>1, <3>1, <3>2 DEF Fits
  <2>3. hello'[d] # <<VanishFrame(d)>>
    BY <1>4, <1>6
  <2>4. QED
    BY <2>1, <2>2, <2>3 DEF HelloSays
<1>14. ComesBack'
  <2>1. \A e \in Devices \ disturbed' : e \in Devices \ disturbed
    BY <1>5
  <2>2. QED
    BY <1>1, <2>1 DEF IInv, ComesBack, Owed, Coming, Pushing
<1>15. Told'
  <2> SUFFICES ASSUME NEW e \in Devices \ disturbed'
               PROVE  /\ \/ Coming(e, Kinds)'
                         \/ \E k \in FrameKinds : Pushing(e, k)' \/ Answering(e, k)'
                         \/ dss'[e] = store'[e]
                      /\ \/ store'[e] = Absent \/ Coming(e, {"init"})'
                         \/ Pushing(e, "announce")' \/ Answering(e, "announce")'
                         \/ dss'[e] # Absent
    BY DEF Told
  <2>0. /\ \/ Coming(e, Kinds)
           \/ \E k \in FrameKinds : Pushing(e, k) \/ Answering(e, k)
           \/ dss[e] = store[e]
        /\ \/ store[e] = Absent \/ Coming(e, {"init"})
           \/ Pushing(e, "announce") \/ Answering(e, "announce")
           \/ dss[e] # Absent
    BY <1>1, <1>5 DEF IInv, Told
  <2>1. CASE e # d
    BY <1>1, <1>5, <1>10, <2>0, <2>1
  <2>2. CASE e = d
    <3>1. Fits(f, d)
      BY <1>3, <1>5, <2>2 DEF IInv, HelloSays
    <3>2. CASE f.kind = "vanish"
      <4>1. CASE hello[d] = <<VanishFrame(d)>>
        <5>1. store[d] = Absent
          BY <1>5, <2>2, <4>1 DEF IInv, HelloSays
        <5>2. QED
          BY <1>1, <1>5, <2>2, <3>2, <5>1
      <4>2. CASE hello[d] # <<VanishFrame(d)>>
        <5>1. Answering(d, "announce")'
          BY <1>4, <1>6, <3>2, <4>2 DEF Answering
        <5>2. QED
          BY <2>2, <5>1 DEF FrameKinds
      <4>3. QED
        BY <4>1, <4>2
    <3>3. CASE f.kind = "announce"
      <4>1. Answering(d, "push")'
        BY <1>4, <1>6, <3>3 DEF Answering
      <4>2. dss'[d] # Absent
        BY <1>5, <2>2, <3>3, StateFacts
      <4>3. QED
        BY <2>2, <4>1, <4>2 DEF FrameKinds
    <3>4. CASE f.kind = "push"
      <4>1. ~Answering(d, "announce") /\ store[d] = s /\ store[d] # Absent /\ f.state = s
        BY <1>2, <1>4, <3>1, <3>4, StateFacts DEF Answering, Fits
      <4>2. \/ Coming(d, {"init"}) \/ Pushing(d, "announce")
            \/ dss[d] # Absent
        BY <2>0, <2>2, <4>1
      <4>3. CASE Coming(d, {"init"})
        <5>1. Coming(d, Kinds)
          BY <4>3 DEF Coming, Kinds
        <5>2. QED
          BY <1>10, <2>2, <4>3, <5>1
      <4>4. CASE Pushing(d, "announce")
        BY <1>10, <2>2, <4>4 DEF FrameKinds
      <4>5. CASE dss[d] # Absent
        BY <1>1, <1>5, <2>2, <3>4, <4>1, <4>5
      <4>6. QED
        BY <4>2, <4>3, <4>4, <4>5
    <3>5. QED
      BY <1>4, <3>2, <3>3, <3>4 DEF FrameKinds
  <2>3. QED
    BY <2>1, <2>2
<1>16. Covered'
  BY <1>1, <1>5, <1>10 DEF IInv, Covered
<1>17. QED
  BY <1>7, <1>8, <1>9, <1>11, <1>12, <1>13, <1>14, <1>15, <1>16 DEF IInv

(* The push goroutine writes a frame of the update it took.                *)
LEMMA PushKeeps ==
  ASSUME IInv, Push
  PROVE  IInv'
<1> DEFINE f == Head(pusher)
<1>1. /\ conn = "up" /\ pusher # <<>> /\ f.kind \in FrameKinds /\ WriteFrame(f)
      /\ pusher' = Tail(pusher)
      /\ store' = store /\ pending' = pending /\ conn' = conn /\ broken' = broken
      /\ queue' = queue /\ hello' = hello /\ late' = late /\ announced' = announced
  BY DEF Push, link, FrameKinds
<1>2. PICK d \in Devices, s \in States : pusher \in PusherForms(d, s)
  BY <1>1 DEF IInv, Forms
<1>3. /\ f \in Frame /\ 1 \in 1..Len(pusher) /\ f = pusher[1] /\ Len(pusher) \in Nat
      /\ Tail(pusher) \in Seq(Frame) /\ Len(Tail(pusher)) = Len(pusher) - 1
      /\ \A i \in 1..Len(Tail(pusher)) : Tail(pusher)[i] = pusher[i + 1]
  BY <1>1, TailFacts DEF IInv, TypeOK
<1>4. /\ \A i \in 1..Len(pusher) : pusher[i].dev = d
      /\ Tail(pusher) \in PusherForms(d, s)
      /\ f.kind = "vanish" =>
           \E i \in 1..Len(Tail(pusher)) : Tail(pusher)[i].kind \in {"announce", "markRemoved"}
      /\ f.kind = "announce" => \E i \in 1..Len(Tail(pusher)) : Tail(pusher)[i].kind = "push"
      /\ f.kind = "push" =>
           /\ f.state = s
           /\ \A i \in 1..Len(pusher) : pusher[i].kind \notin {"announce", "vanish"}
  BY <1>1, <1>2, PusherFacts
<1>5. f.dev = d
  BY <1>3, <1>4
<1>6. /\ dss' \in [Devices -> States \cup {Absent, "new"}]
      /\ disturbed' \subseteq Devices /\ disturbed \subseteq disturbed'
      /\ \A e \in Devices : e # d => dss'[e] = dss[e]
      /\ d \notin disturbed' =>
           /\ f.kind = "vanish" => dss'[d] = Absent
           /\ f.kind = "announce" => dss'[d] = "new"
           /\ f.kind = "push" => dss'[d] = IF dss[d] = Absent THEN Absent ELSE f.state
  BY <1>1, <1>3, <1>5, WriteFacts DEF IInv
<1> HIDE DEF f
<1>7. TypeOK'
  BY <1>1, <1>3, <1>6 DEF IInv, TypeOK
<1>8. Forms' /\ Quiet'
  <2>1. Forms'
    BY <1>1, <1>4 DEF IInv, Forms
  <2>2. Quiet'
    BY <1>1, <1>6 DEF IInv, Quiet
  <2>3. QED
    BY <2>1, <2>2
<1>9. /\ \A e \in Devices, w \in Writers : Owed(w, e)' <=> Owed(w, e)
      /\ \A e \in Devices : \A k : Coming(e, k)' <=> Coming(e, k)
      /\ \A e \in Devices : \A k : Answering(e, k)' <=> Answering(e, k)
      /\ \A e \in Devices : \A u : Says(u, e)' <=> Says(u, e)
      /\ \A e \in Devices : \A g : Fits(g, e)' <=> Fits(g, e)
  BY <1>1 DEF Owed, Coming, Answering, Says, Fits
<1>10. \A i \in 1..Len(pusher') : i + 1 \in 1..Len(pusher) /\ pusher'[i] = pusher[i + 1]
  BY <1>1, <1>3
<1>11. /\ \A e \in Devices : \A k : Pushing(e, k)' => Pushing(e, k)
       /\ \A e \in Devices : \A k : Pushing(e, k) /\ k # f.kind => Pushing(e, k)'
       /\ \A e \in Devices : \A k : Pushing(e, k) => e = d
  <2>1. ASSUME NEW e \in Devices, NEW k, Pushing(e, k), k # f.kind
        PROVE  Pushing(e, k)'
    <3>1. PICK i \in 1..Len(pusher) : pusher[i].dev = e /\ pusher[i].kind = k
      BY <2>1 DEF Pushing
    <3>2. i # 1
      BY <1>3, <2>1, <3>1
    <3>3. i - 1 \in 1..Len(pusher') /\ (i - 1) + 1 = i
      BY <1>1, <1>3, <3>2
    <3>4. pusher'[i - 1] = pusher[i]
      BY <1>10, <3>3
    <3>5. QED
      BY <3>1, <3>3, <3>4 DEF Pushing
  <2>2. ASSUME NEW e \in Devices, NEW k, Pushing(e, k)'
        PROVE  Pushing(e, k)
    BY <1>10, <2>2 DEF Pushing
  <2>3. ASSUME NEW e \in Devices, NEW k, Pushing(e, k)
        PROVE  e = d
    BY <1>4, <1>5, <2>3 DEF Pushing
  <2>4. QED
    BY <2>1, <2>2, <2>3
<1>12. OneWriter' /\ HelloSays'
  <2>1. OneWriter'
    BY <1>6, <1>9 DEF IInv, OneWriter
  <2>2. HelloSays'
    BY <1>1, <1>6 DEF IInv, HelloSays, Fits
  <2>3. QED
    BY <2>1, <2>2
<1>13. LastSays'
  <2> SUFFICES ASSUME NEW e \in Devices \ disturbed'
               PROVE  /\ \A v \in Writers : Owed(v, e) => Says(pending[v], e)
                      /\ \A i \in 1..Len(queue) : queue[i].dev = e =>
                           \/ \E v \in Writers : Owed(v, e)
                           \/ \E j \in i..Len(queue) : queue[j].dev = e /\ Says(queue[j], e)
                      /\ ~Coming(e, Kinds) => \A i \in 1..Len(pusher') :
                           pusher'[i].dev = e => Fits(pusher'[i], e)
    BY <1>1 DEF LastSays, Owed, Coming, Says, Fits
  <2>1. e \in Devices \ disturbed
    BY <1>6
  <2>2. QED
    BY <1>10, <2>1 DEF IInv, LastSays
<1>14. ComesBack'
  <2> SUFFICES ASSUME NEW e \in Devices \ disturbed', store[e] # Absent
               PROVE  /\ \A i \in 1..Len(queue) : queue[i].dev = e /\ queue[i].kind = "remove" =>
                           \/ \E v \in Writers : Owed(v, e) /\ pending[v].kind = "init"
                           \/ \E j \in i..Len(queue) : queue[j].dev = e /\ queue[j].kind = "init"
                      /\ Pushing(e, "markRemoved")' => Coming(e, {"init"})
    BY <1>1 DEF ComesBack, Owed, Coming
  <2>1. QED
    BY <1>6, <1>11 DEF IInv, ComesBack
<1>15. Told'
  <2> SUFFICES ASSUME NEW e \in Devices \ disturbed'
               PROVE  /\ \/ Coming(e, Kinds)'
                         \/ \E k \in FrameKinds : Pushing(e, k)' \/ Answering(e, k)'
                         \/ dss'[e] = store'[e]
                      /\ \/ store'[e] = Absent \/ Coming(e, {"init"})'
                         \/ Pushing(e, "announce")' \/ Answering(e, "announce")'
                         \/ dss'[e] # Absent
    BY DEF Told
  <2>0. /\ \/ Coming(e, Kinds)
           \/ \E k \in FrameKinds : Pushing(e, k) \/ Answering(e, k)
           \/ dss[e] = store[e]
        /\ \/ store[e] = Absent \/ Coming(e, {"init"})
           \/ Pushing(e, "announce") \/ Answering(e, "announce")
           \/ dss[e] # Absent
    BY <1>1, <1>6 DEF IInv, Told
  <2>1. CASE e # d
    BY <1>1, <1>6, <1>9, <1>11, <2>0, <2>1
  <2>2. CASE e = d
    <3>0. /\ d \in Devices \ disturbed /\ d \notin disturbed'
          /\ ~Coming(d, Kinds) => \A i \in 1..Len(pusher) : pusher[i].dev = d => Fits(pusher[i], d)
          /\ store[d] # Absent /\ Pushing(d, "markRemoved") => Coming(d, {"init"})
          /\ Coming(d, {"init"}) => Coming(d, Kinds)
      BY <1>6, <2>2 DEF IInv, LastSays, ComesBack, Coming, Kinds
    <3>1. CASE f.kind = "vanish"
      <4>1. Pushing(d, "announce")' \/ Pushing(d, "markRemoved")'
        <5>1. PICK i \in 1..Len(pusher') : pusher'[i].kind \in {"announce", "markRemoved"}
          BY <1>1, <1>4, <3>1
        <5>2. pusher'[i].dev = d
          BY <1>4, <1>5, <1>10
        <5>3. QED
          BY <5>1, <5>2 DEF Pushing
      <4>2. CASE Pushing(d, "announce")'
        BY <2>2, <4>2 DEF FrameKinds
      <4>3. CASE Pushing(d, "markRemoved")'
        <5>1. Pushing(d, "markRemoved")
          BY <1>11, <3>0, <4>3
        <5>2. ~Coming(d, Kinds) => store[d] = Absent
          BY <3>0, <5>1 DEF Pushing, Fits
        <5>3. QED
          BY <1>1, <1>6, <1>9, <2>2, <3>0, <3>1, <5>1, <5>2
      <4>4. QED
        BY <4>1, <4>2, <4>3
    <3>2. CASE f.kind = "announce"
      <4>1. Pushing(d, "push")'
        <5>1. PICK i \in 1..Len(pusher') : pusher'[i].kind = "push"
          BY <1>1, <1>4, <3>2
        <5>2. pusher'[i].dev = d
          BY <1>4, <1>5, <1>10
        <5>3. QED
          BY <5>1, <5>2 DEF Pushing
      <4>2. dss'[d] # Absent
        BY <1>6, <3>0, <3>2, StateFacts
      <4>3. QED
        BY <2>2, <4>1, <4>2 DEF FrameKinds
    <3>3. CASE f.kind = "push"
      <4>1. /\ ~Pushing(d, "announce") /\ f.state = s /\ s # Absent
            /\ ~Coming(d, Kinds) => store[d] = s
        BY <1>3, <1>4, <3>0, <3>3, StateFacts DEF Pushing, Fits
      <4>2. \/ store[d] = Absent \/ Coming(d, {"init"}) \/ Answering(d, "announce")
            \/ dss[d] # Absent
        BY <2>0, <2>2, <4>1
      <4>3. dss[d] # Absent => dss'[d] # Absent /\ dss'[d] = s
        BY <1>6, <3>0, <3>3, <4>1
      <4>4. Answering(d, "announce") => \E k \in FrameKinds : Answering(d, k)
        BY DEF FrameKinds
      <4>5. QED
        BY <1>1, <1>9, <2>2, <3>0, <4>1, <4>2, <4>3, <4>4
    <3>4. QED
      BY <1>1, <3>1, <3>2, <3>3 DEF FrameKinds
  <2>3. QED
    BY <2>1, <2>2
<1>16. Covered'
  <2>1. "markAdded" # f.kind
    BY <1>1 DEF FrameKinds
  <2>2. QED
    BY <1>1, <1>6, <1>9, <1>11, <2>1 DEF IInv, Covered
<1>17. QED
  BY <1>7, <1>8, <1>12, <1>13, <1>14, <1>15, <1>16 DEF IInv

(* The push goroutine marks the device in the announced set.               *)
LEMMA MarkKeeps ==
  ASSUME IInv, MarkDSUID
  PROVE  IInv'
<1> DEFINE f == Head(pusher)
<1>1. /\ pusher # <<>> /\ f.kind \in Marks /\ announced' = Marked(f) /\ pusher' = Tail(pusher)
      /\ store' = store /\ pending' = pending /\ conn' = conn /\ broken' = broken
      /\ queue' = queue /\ hello' = hello /\ late' = late /\ dss' = dss /\ disturbed' = disturbed
  BY DEF MarkDSUID, link, Marks
<1>2. PICK d \in Devices, s \in States : pusher \in PusherForms(d, s)
  BY <1>1 DEF IInv, Forms
<1>3. f \in Frame /\ 1 \in 1..Len(pusher) /\ f = pusher[1] /\ Tail(pusher) \in Seq(Frame)
  BY <1>1, TailFacts DEF IInv, TypeOK
<1>4. (\A i \in 1..Len(pusher) : pusher[i].dev = d) /\ Tail(pusher) = <<>>
  BY <1>1, <1>2, PusherFacts
<1>5. f.dev = d /\ conn = "up" /\ Len(pusher') = 0 /\ pusher' = <<>> /\ Len(pusher) = 1
  <2>1. Len(pusher') = 0 /\ Len(Tail(pusher)) = Len(pusher) - 1 /\ Len(pusher) \in Nat
    BY <1>1, <1>4, TailFacts DEF IInv, TypeOK
  <2>2. QED
    BY <1>1, <1>3, <1>4, <2>1 DEF IInv, Quiet
<1> HIDE DEF f
<1>6. /\ f.kind = "markAdded" => announced' = announced \cup {d}
      /\ f.kind = "markRemoved" => announced' = announced \ {d}
  BY <1>1, <1>5 DEF Marked
<1>7. TypeOK' /\ Forms' /\ Quiet'
  <2>1. TypeOK'
    BY <1>1, <1>2, <1>3, <1>5, <1>6 DEF IInv, TypeOK, Marks
  <2>2. Forms'
    BY <1>1, <1>5 DEF IInv, Forms
  <2>3. Quiet'
    BY <1>1, <1>5 DEF IInv, Quiet
  <2>4. QED
    BY <2>1, <2>2, <2>3
<1>8. /\ \A e \in Devices, w \in Writers : Owed(w, e)' <=> Owed(w, e)
      /\ \A e \in Devices : \A k : Coming(e, k)' <=> Coming(e, k)
      /\ \A e \in Devices : \A k : Answering(e, k)' <=> Answering(e, k)
      /\ \A e \in Devices : \A k : ~Pushing(e, k)'
      /\ \A e \in Devices : \A k : Pushing(e, k) => e = d /\ k = f.kind
      /\ Pushing(d, f.kind)
  BY <1>1, <1>2, <1>3, <1>4, <1>5 DEF Owed, Coming, Answering, Pushing
<1>9. OneWriter' /\ HelloSays'
  <2>1. OneWriter'
    BY <1>1, <1>8 DEF IInv, OneWriter
  <2>2. HelloSays'
    BY <1>1 DEF IInv, HelloSays, Fits
  <2>3. QED
    BY <2>1, <2>2
<1>10. LastSays'
  <2>1. \A e \in Devices \ disturbed' :
          /\ \A v \in Writers : Owed(v, e)' => Says(pending[v], e)'
          /\ \A i \in 1..Len(queue') : queue'[i].dev = e =>
               \/ \E v \in Writers : Owed(v, e)'
               \/ \E j \in i..Len(queue') : queue'[j].dev = e /\ Says(queue[j], e)'
    BY <1>1 DEF IInv, LastSays, Owed, Says
  <2>2. QED
    BY <1>5, <2>1 DEF LastSays
<1>11. ComesBack'
  <2>1. \A e \in Devices \ disturbed' : store'[e] # Absent =>
          \A i \in 1..Len(queue') : queue'[i].dev = e /\ queue'[i].kind = "remove" =>
             \/ \E w \in Writers : Owed(w, e)' /\ pending'[w].kind = "init"
             \/ \E j \in i..Len(queue') : queue'[j].dev = e /\ queue'[j].kind = "init"
    BY <1>1 DEF IInv, ComesBack, Owed
  <2>2. QED
    BY <1>8, <2>1 DEF ComesBack
<1>12. Told'
  <2>1. \A e \in Devices : \A k \in FrameKinds : ~Pushing(e, k)
    BY <1>1, <1>8 DEF FrameKinds, Marks
  <2>2. "announce" \in FrameKinds
    BY DEF FrameKinds
  <2>3. QED
    BY <1>1, <1>5, <1>8, <2>1, <2>2 DEF IInv, Told
<1>13. Covered'
  <2>1. CASE f.kind = "markAdded"
    BY <1>1, <1>5, <1>6, <1>8, <2>1 DEF IInv, Covered
  <2>2. CASE f.kind = "markRemoved"
    <3>1. d \in Devices \ disturbed /\ store[d] # Absent => Coming(d, {"init"})
      BY <1>8, <2>2 DEF IInv, ComesBack
    <3>2. QED
      BY <1>1, <1>5, <1>6, <1>8, <2>2, <3>1 DEF IInv, Covered
  <2>3. QED
    BY <1>1, <2>1, <2>2 DEF Marks
<1>14. QED
  BY <1>7, <1>9, <1>10, <1>11, <1>12, <1>13 DEF IInv

(* The frames and the mark an update becomes: an announcement and a mark   *)
(* for an init, the mark that it is removed only for a remove; they say    *)
(* what the update says.                                                   *)
LEMMA PushFramesFacts ==
  ASSUME NEW u \in Update
  PROVE  /\ PushFrames(u) \in PusherForms(u.dev, u.state)
         /\ \E i \in 1..Len(PushFrames(u)) : PushFrames(u)[i].kind \in FrameKinds
         /\ u.kind = "init" =>
              /\ \E i \in 1..Len(PushFrames(u)) : PushFrames(u)[i].kind = "announce"
              /\ \E i \in 1..Len(PushFrames(u)) : PushFrames(u)[i].kind = "markAdded"
         /\ \A i \in 1..Len(PushFrames(u)) :
              /\ PushFrames(u)[i].kind = "push" => PushFrames(u)[i].state = u.state
              /\ PushFrames(u)[i].kind \in {"announce", "markAdded"} => u.kind = "init"
              /\ PushFrames(u)[i].kind = "push" => u.kind # "remove"
              /\ PushFrames(u)[i].kind = "markRemoved" => u.kind = "remove"
<1> DEFINE v == VanishFrame(u.dev)
           a == AnnounceFrame(u.dev)
           n == PushFrame(u.dev, u.state)
           m == MarkFor(u.dev, "markAdded")
           r == MarkFor(u.dev, "markRemoved")
<1>1. u.kind \in Kinds /\ u.dev \in Devices /\ u.state \in States
  BY UpdateFacts
<1>2. /\ v.kind = "vanish" /\ a.kind = "announce" /\ n.kind = "push" /\ n.state = u.state
      /\ m.kind = "markAdded" /\ r.kind = "markRemoved"
  BY <1>1, Makers DEF Marks
<1>3. PusherForms(u.dev, u.state) =
        {<<>>, <<n>>, <<v, r>>, <<r>>, <<v, a, n, m>>, <<a, n, m>>, <<n, m>>, <<m>>}
  BY DEF PusherForms
<1>4. /\ u.kind = "init" => PushFrames(u) = <<v, a, n, m>>
      /\ u.kind = "remove" => PushFrames(u) = <<v, r>>
      /\ u.kind = "push" => PushFrames(u) = <<n>>
  BY DEF PushFrames
<1> HIDE DEF v, a, n, m, r
<1>5. CASE u.kind = "init"
  <2>1. /\ PushFrames(u) = <<v, a, n, m>> /\ Len(PushFrames(u)) = 4
        /\ PushFrames(u)[1] = v /\ PushFrames(u)[2] = a
        /\ PushFrames(u)[3] = n /\ PushFrames(u)[4] = m
    BY <1>4, <1>5
  <2>2. \A i \in 1..Len(PushFrames(u)) : PushFrames(u)[i] \in {v, a, n, m}
    BY <2>1
  <2>3. 1 \in 1..4 /\ 2 \in 1..4 /\ 4 \in 1..4
    OBVIOUS
  <2>4. QED
    BY <1>2, <1>3, <1>5, <2>1, <2>2, <2>3 DEF FrameKinds
<1>6. CASE u.kind = "remove"
  <2>1. PushFrames(u) = <<v, r>>
    BY <1>4, <1>6
  <2>2. QED
    BY <1>2, <1>3, <1>6, <2>1 DEF FrameKinds
<1>7. CASE u.kind = "push"
  <2>1. PushFrames(u) = <<n>>
    BY <1>4, <1>7
  <2>2. QED
    BY <1>2, <1>3, <1>7, <2>1 DEF FrameKinds
<1>8. QED
  BY <1>1, <1>5, <1>6, <1>7 DEF Kinds

(* The push goroutine takes an update, or skips it.                        *)
LEMMA TakeKeeps ==
  ASSUME IInv, TakeUpdate
  PROVE  IInv'
<1>1. /\ conn # "down" /\ pusher = <<>> /\ queue # <<>> /\ queue' = Tail(queue)
      /\ pusher' = IF conn = "up" THEN PushFrames(Head(queue)) ELSE <<>>
      /\ store' = store /\ pending' = pending /\ conn' = conn /\ broken' = broken
      /\ hello' = hello /\ late' = late /\ announced' = announced /\ dss' = dss
      /\ disturbed' = disturbed
  BY DEF TakeUpdate, link
<1>2. PICK u \in Update : u = Head(queue)
  BY <1>1, TailFacts DEF IInv, TypeOK
<1>3. /\ Tail(queue) \in Seq(Update) /\ Len(Tail(queue)) = Len(queue) - 1
      /\ Len(queue) \in Nat \ {0} /\ u = queue[1]
      /\ \A i \in 1..Len(Tail(queue)) : Tail(queue)[i] = queue[i + 1]
  BY <1>1, <1>2, TailFacts DEF IInv, TypeOK
<1>4. u.kind \in Kinds /\ u.dev \in Devices /\ u.state \in States
  BY UpdateFacts
<1>5. \A i \in 1..Len(queue') : i + 1 \in 1..Len(queue) /\ queue'[i] = queue[i + 1]
  BY <1>1, <1>3
<1>6. \A j \in 2..Len(queue) : j - 1 \in 1..Len(queue') /\ queue'[j - 1] = queue[j]
  BY <1>1, <1>3
<1>7. /\ conn = "up" => pusher' = PushFrames(u)
      /\ conn # "up" => pusher' = <<>>
      /\ PushFrames(u) \in PusherForms(u.dev, u.state) /\ PushFrames(u) \in Seq(Frame)
      /\ \A i \in 1..Len(PushFrames(u)) : PushFrames(u)[i].dev = u.dev
  BY <1>1, <1>2, <1>4, PushFramesFacts, PusherFacts
<1>8. TypeOK'
  <2>1. Len(queue') <= Cap
    BY <1>1, <1>3, AnnounceAssumption DEF IInv, TypeOK
  <2>2. pusher' \in Seq(Frame)
    <3>1. <<>> \in Seq(Frame)
      OBVIOUS
    <3>2. QED
      BY <1>7, <3>1
  <2>3. QED
    BY <1>1, <1>3, <2>1, <2>2 DEF IInv, TypeOK
<1>9. Forms' /\ Quiet'
  <2>1. Forms'
    BY <1>1, <1>4, <1>7 DEF IInv, Forms
  <2>2. Quiet'
    BY <1>1 DEF IInv, Quiet
  <2>3. QED
    BY <2>1, <2>2
<1>10. /\ \A e \in Devices, w \in Writers : Owed(w, e)' <=> Owed(w, e)
       /\ \A e \in Devices : \A k : Answering(e, k)' <=> Answering(e, k)
       /\ \A e \in Devices : \A k : ~Pushing(e, k)
       /\ \A e \in Devices, k \in SUBSET Kinds : Coming(e, k)' => Coming(e, k)
       /\ \A e \in Devices, k \in SUBSET Kinds :
            Coming(e, k) /\ ~Coming(e, k)' => e = u.dev /\ u.kind \in k
  <2>1. /\ \A e \in Devices, w \in Writers : Owed(w, e)' <=> Owed(w, e)
        /\ \A e \in Devices : \A k : Answering(e, k)' <=> Answering(e, k)
        /\ \A e \in Devices : \A k : ~Pushing(e, k)
    BY <1>1 DEF Owed, Answering, Pushing
  <2>2. \A e \in Devices, k \in SUBSET Kinds : Coming(e, k)' => Coming(e, k)
    BY <1>1, <1>5, <2>1 DEF Coming
  <2>3. ASSUME NEW e \in Devices, NEW k \in SUBSET Kinds, Coming(e, k), ~(e = u.dev /\ u.kind \in k)
        PROVE  Coming(e, k)'
    <3>1. CASE \E w \in Writers : Owed(w, e) /\ pending[w].kind \in k
      BY <1>1, <2>1, <3>1 DEF Coming
    <3>2. CASE \E i \in 1..Len(queue) : queue[i].dev = e /\ queue[i].kind \in k
      <4>1. PICK i \in 1..Len(queue) : queue[i].dev = e /\ queue[i].kind \in k
        BY <3>2
      <4>2. i \in 2..Len(queue)
        BY <1>3, <2>3, <4>1
      <4>3. QED
        BY <1>6, <4>1, <4>2 DEF Coming
    <3>3. QED
      BY <2>3, <3>1, <3>2 DEF Coming
  <2>4. QED
    BY <2>1, <2>2, <2>3
<1>11. {"init"} \in SUBSET Kinds /\ Kinds \in SUBSET Kinds
  BY DEF Kinds
<1>12. OneWriter' /\ HelloSays'
  <2>1. OneWriter'
    BY <1>1, <1>10 DEF IInv, OneWriter
  <2>2. HelloSays'
    BY <1>1 DEF IInv, HelloSays, Fits
  <2>3. QED
    BY <2>1, <2>2
<1>13. LastSays'
  <2> SUFFICES ASSUME NEW e \in Devices \ disturbed
               PROVE  /\ \A v \in Writers : Owed(v, e) => Says(pending[v], e)
                      /\ \A i \in 1..Len(queue') : queue'[i].dev = e =>
                           \/ \E v \in Writers : Owed(v, e)
                           \/ \E j \in i..Len(queue') : queue'[j].dev = e /\ Says(queue'[j], e)
                      /\ ~Coming(e, Kinds)' => \A i \in 1..Len(pusher') :
                           pusher'[i].dev = e => Fits(pusher'[i], e)
    BY SMTT(30), <1>1, <1>10 DEF LastSays, Owed, Says, Fits
  <2>1. \A v \in Writers : Owed(v, e) => Says(pending[v], e)
    BY DEF IInv, LastSays
  <2>2. \A i \in 1..Len(queue) : queue[i].dev = e =>
          \/ \E v \in Writers : Owed(v, e)
          \/ \E j \in i..Len(queue) : queue[j].dev = e /\ Says(queue[j], e)
    BY DEF IInv, LastSays
  <2>3. ASSUME NEW i \in 1..Len(queue'), queue'[i].dev = e, \A v \in Writers : ~Owed(v, e)
        PROVE  \E j \in i..Len(queue') : queue'[j].dev = e /\ Says(queue'[j], e)
    <3>1. PICK j \in (i + 1)..Len(queue) : queue[j].dev = e /\ Says(queue[j], e)
      BY <1>5, <2>2, <2>3
    <3>2. j - 1 \in i..Len(queue') /\ j \in 2..Len(queue)
      BY <1>1, <1>3, <3>1
    <3>3. QED
      BY <1>6, <3>1, <3>2
  <2>4. ASSUME ~Coming(e, Kinds)', NEW i \in 1..Len(pusher'), pusher'[i].dev = e
        PROVE  Fits(pusher'[i], e)
    <3>1. conn = "up" /\ pusher' = PushFrames(u) /\ u.dev = e
      <4>1. Len(<<>>) = 0
        OBVIOUS
      <4>2. QED
        BY <1>7, <2>4, <4>1
    <3>2. ~\E v \in Writers : Owed(v, e)
      <4>1. \A v \in Writers : Owed(v, e) => pending[v] \in Update /\ pending[v].kind \in Kinds
        BY UpdateFacts DEF IInv, TypeOK, Owed
      <4>2. QED
        BY <1>1, <1>10, <2>4, <4>1 DEF Coming
    <3>3. Says(u, e)
      <4>1. 1 \in 1..Len(queue)
        BY <1>3
      <4>2. PICK j \in 1..Len(queue) : queue[j].dev = e /\ Says(queue[j], e)
        BY <1>3, <2>2, <3>1, <3>2, <4>1
      <4>3. CASE j = 1
        BY <1>3, <4>2, <4>3
      <4>4. CASE j # 1
        <5>1. j \in 2..Len(queue) /\ queue[j] \in Update
          BY <1>3, <4>4 DEF IInv, TypeOK
        <5>2. queue'[j - 1].dev = e /\ queue'[j - 1].kind \in Kinds /\ j - 1 \in 1..Len(queue')
          BY <1>6, <4>2, <5>1, UpdateFacts
        <5>3. QED
          BY <2>4, <5>2 DEF Coming
      <4>5. QED
        BY <4>3, <4>4
    <3>4. /\ pusher'[i].kind = "push" => pusher'[i].state = u.state /\ u.kind # "remove"
          /\ pusher'[i].kind \in {"announce", "markAdded"} => u.kind = "init"
          /\ pusher'[i].kind = "markRemoved" => u.kind = "remove"
      BY <3>1, PushFramesFacts
    <3>5. QED
      BY <1>4, <3>3, <3>4, StateFacts DEF Fits, Says
  <2>5. QED
    BY <2>1, <2>3, <2>4
<1>14. ComesBack'
  <2> SUFFICES ASSUME NEW e \in Devices \ disturbed, store[e] # Absent
               PROVE  /\ \A i \in 1..Len(queue') : queue'[i].dev = e /\ queue'[i].kind = "remove" =>
                           \/ \E v \in Writers : Owed(v, e) /\ pending[v].kind = "init"
                           \/ \E j \in i..Len(queue') : queue'[j].dev = e /\ queue'[j].kind = "init"
                      /\ Pushing(e, "markRemoved")' => Coming(e, {"init"})'
    BY <1>1 DEF ComesBack, Owed
  <2>1. \A i \in 1..Len(queue) : queue[i].dev = e /\ queue[i].kind = "remove" =>
           \/ \E v \in Writers : Owed(v, e) /\ pending[v].kind = "init"
           \/ \E j \in i..Len(queue) : queue[j].dev = e /\ queue[j].kind = "init"
    BY DEF IInv, ComesBack
  <2>2. ASSUME NEW i \in 1..Len(queue'), queue'[i].dev = e, queue'[i].kind = "remove",
               ~\E v \in Writers : Owed(v, e) /\ pending[v].kind = "init"
        PROVE  \E j \in i..Len(queue') : queue'[j].dev = e /\ queue'[j].kind = "init"
    <3>1. PICK j \in (i + 1)..Len(queue) : queue[j].dev = e /\ queue[j].kind = "init"
      BY <1>5, <2>1, <2>2
    <3>2. j - 1 \in i..Len(queue') /\ j \in 2..Len(queue)
      BY <1>1, <1>3, <3>1
    <3>3. QED
      BY <1>6, <3>1, <3>2
  <2>3. ASSUME Pushing(e, "markRemoved")' PROVE Coming(e, {"init"})'
    <3>1. PICK i \in 1..Len(pusher') : pusher'[i].dev = e /\ pusher'[i].kind = "markRemoved"
      BY <2>3 DEF Pushing
    <3>2. conn = "up" /\ pusher' = PushFrames(u) /\ u.dev = e
      <4>1. Len(<<>>) = 0
        OBVIOUS
      <4>2. QED
        BY <1>7, <3>1, <4>1
    <3>3. u.kind = "remove"
      BY <3>1, <3>2, PushFramesFacts
    <3>4. Coming(e, {"init"})
      <4>1. 1 \in 1..Len(queue)
        BY <1>3
      <4>2. QED
        BY <1>3, <2>1, <3>2, <3>3, <4>1 DEF Coming
    <3>5. QED
      BY <1>10, <1>11, <3>3, <3>4
  <2>4. QED
    BY <2>2, <2>3
<1>15. conn = "up" =>
         /\ \E k \in FrameKinds : Pushing(u.dev, k)'
         /\ u.kind = "init" => Pushing(u.dev, "announce")' /\ Pushing(u.dev, "markAdded")'
  <2> SUFFICES ASSUME conn = "up"
               PROVE  /\ \E k \in FrameKinds : Pushing(u.dev, k)'
                      /\ u.kind = "init" =>
                           Pushing(u.dev, "announce")' /\ Pushing(u.dev, "markAdded")'
    OBVIOUS
  <2>1. pusher' = PushFrames(u)
    BY <1>7
  <2>2. \A i \in 1..Len(pusher') : pusher'[i].dev = u.dev
    BY <1>7, <2>1
  <2>3. QED
    BY <2>1, <2>2, PushFramesFacts DEF Pushing
<1>16. Told'
  BY <1>1, <1>10, <1>11, <1>15 DEF IInv, Told
<1>17. Covered'
  BY <1>1, <1>10, <1>11, <1>15 DEF IInv, Covered
<1>18. QED
  BY <1>8, <1>9, <1>12, <1>13, <1>14, <1>16, <1>17 DEF IInv

-----------------------------------------------------------------------------
(* The theorems *)

(* Nothing changes.                                                        *)
LEMMA StutterKeeps ==
  ASSUME IInv, UNCHANGED vars
  PROVE  IInv'
<1>1. /\ store' = store /\ pending' = pending /\ conn' = conn /\ broken' = broken
      /\ queue' = queue /\ pusher' = pusher /\ hello' = hello /\ late' = late
      /\ announced' = announced /\ dss' = dss /\ disturbed' = disturbed
  BY DEF vars
<1>2. TypeOK' /\ Forms' /\ Quiet' /\ OneWriter'
  BY <1>1 DEF IInv, TypeOK, Forms, Quiet, OneWriter, Owed
<1>3. LastSays' /\ HelloSays'
  BY <1>1 DEF IInv, LastSays, HelloSays, Owed, Coming, Says, Fits
<1>4. ComesBack' /\ Told' /\ Covered'
  BY <1>1 DEF IInv, ComesBack, Told, Covered, Owed, Coming, Pushing, Answering
<1>5. QED
  BY <1>2, <1>3, <1>4 DEF IInv

(* IInv is inductive and holds in every reachable state: of every          *)
(* undisturbed device, the frames, updates and marks on their way end in   *)
(* what the store says.                                                    *)
THEOREM Invariance == Spec => []IInv
<1>1. Init => IInv
  BY Start
<1>2. IInv /\ [Next]_vars => IInv'
  <2> SUFFICES ASSUME IInv, [Next]_vars PROVE IInv'
    OBVIOUS
  <2>1. ASSUME NEW w \in Writers, WriterStep(w) PROVE IInv'
    <3>1. CASE broadcast(w)
      BY <3>1, BroadcastKeeps
    <3>2. ASSUME NEW d \in Devices, HandleInit(w, d) PROVE IInv'
      <4>1. /\ Change(w, d, "init", "active") /\ "init" \in Kinds
            /\ "active" \in States \cup {Absent} /\ "active" # Absent
        BY <3>2 DEF HandleInit, Kinds, States, Absent
      <4>2. QED
        BY <4>1, ChangeKeeps
    <3>3. ASSUME NEW d \in Devices, HandleRemove(w, d) PROVE IInv'
      <4>1. /\ Change(w, d, "remove", Absent) /\ "remove" \in Kinds
            /\ Absent \in States \cup {Absent} /\ store[d] # Absent
        BY <3>3 DEF HandleRemove, Kinds
      <4>2. QED
        BY <4>1, ChangeKeeps
    <3>4. ASSUME NEW d \in Devices, HandleValue(w, d) PROVE IInv'
      <4>1. /\ Change(w, d, "push", store[d]) /\ "push" \in Kinds
            /\ store[d] \in States \cup {Absent} /\ store[d] # Absent
        BY <3>4 DEF HandleValue, Kinds, IInv, TypeOK
      <4>2. QED
        BY <4>1, ChangeKeeps
    <3>5. ASSUME NEW d \in Devices, ReAnnounce(w, d) PROVE IInv'
      <4>1. /\ Change(w, d, "init", store[d]) /\ "init" \in Kinds
            /\ store[d] \in States \cup {Absent} /\ store[d] # Absent
        BY <3>5 DEF ReAnnounce, Kinds, IInv, TypeOK
      <4>2. QED
        BY <4>1, ChangeKeeps
    <3>6. ASSUME NEW d \in Devices, NEW s \in States, HandleActive(w, d, s) PROVE IInv'
      <4>1. /\ Change(w, d, "push", s) /\ "push" \in Kinds
            /\ s \in States \cup {Absent} /\ s # Absent /\ store[d] # Absent
        BY <3>6, StateFacts DEF HandleActive, Kinds
      <4>2. QED
        BY <4>1, ChangeKeeps
    <3>7. QED
      BY <2>1, <3>1, <3>2, <3>3, <3>4, <3>5, <3>6 DEF WriterStep
  <2>2. CASE Connect \/ NetworkBreaks
    BY <2>2, ConnectKeeps
  <2>3. CASE Hello
    BY <2>3, HelloKeeps
  <2>4. ASSUME NEW d \in Devices, WriteHello(d) PROVE IInv'
    BY <2>4, WriteHelloKeeps
  <2>5. CASE PushStep
    BY <2>5, TakeKeeps, PushKeeps, MarkKeeps DEF PushStep
  <2>6. CASE ForgetVdsm \/ \E f \in late : LateMark(f)
    BY <2>6, SetChangeKeeps
  <2>7. CASE Disconnect \/ Restart
    BY <2>7, EndKeeps
  <2>8. CASE UNCHANGED vars
    BY <2>8, StutterKeeps
  <2>9. QED
    BY <2>1, <2>2, <2>3, <2>4, <2>5, <2>6, <2>7, <2>8 DEF Next
<1>3. QED
  BY <1>1, <1>2, PTL DEF Spec

(* While a session is up, the dSS knows an undisturbed device of which     *)
(* nothing is on its way exactly as the store has it: no order in which    *)
(* writers, push goroutine and Hello take their turns leaves a device      *)
(* announced that is gone, or with a state that is old.                    *)
THEOREM TheDssConverges == Spec => []Converges
<1>1. IInv => Converges
  BY Settled DEF IInv, TypeOK, Converges
<1>2. QED
  BY <1>1, Invariance, PTL

(* With or without a session, the announced set that survives a restart    *)
(* covers what the dSS knows, so the next Hello makes it forget what is    *)
(* gone.                                                                   *)
THEOREM TheSetCoversTheDss == Spec => []AnnouncedCovers
<1>1. IInv => AnnouncedCovers
  BY Settled DEF IInv, AnnouncedCovers
<1>2. QED
  BY <1>1, Invariance, PTL

=============================================================================
