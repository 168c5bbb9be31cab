---------------------------- MODULE MqttPluginProofs ----------------------------
(***************************************************************************)
(* Proofs about MqttPlugin on MqttBroker: for any number of mappings,      *)
(* topics, goroutines, connections and failures, a topic that somebody     *)
(* listens to is held by the server, a subscription that nobody is at work *)
(* on has one handler per topic it recorded or none, and a mapping whose   *)
(* device is known is active.                                              *)
(*                                                                         *)
(* A handler is in the hands of the goroutine that added it until it is    *)
(* recorded, in the record until a goroutine that closes reads it, and in  *)
(* that one's hands until it is removed: the inductive invariant counts    *)
(* the handlers of each object and topic.                                  *)
(***************************************************************************)
EXTENDS MqttPlugin, FiniteSetTheorems, TLAPS

Activating(j) == j # Free /\ j.pc \in {"append", "install", "rollback", "record"}
Closing(j) == j # Free /\ j.pc \in {"read", "close", "release"}
Seeking(j) == j # Free /\ j.pc \notin {"read", "close", "release"}

\* The goroutine with job j has this object in hand, or on its list.
Has(j, o) == j.obj = o \/ o \in j.rest

\* The goroutine with job j answers for a handler of object o on topic t.
Holds(j, t, o) ==
    /\ j # Free /\ j.obj = o
    /\ \/ t \in j.got
       \/ j.pc \in {"install", "rollback"} /\ DeviceTopics[j.at] = t
Holders(t, o) == {p \in Threads : Holds(job[p], t, o)}

Bit(b) == IF b THEN 1 ELSE 0

Current(o) == \E m \in Mappings : subscribed[m] = o
ToBeClosed(o) == \E p \in Threads : Closing(job[p]) /\ o \in job[p].rest

\* A recorded handler of an object that is to be closed one day.
OnRecord(t, o) == t \in subs[o] /\ (Current(o) \/ ToBeClosed(o))

-----------------------------------------------------------------------------
(* The inductive invariant *)

\* What a goroutine's variables hold at each place.
Shape(j) ==
    /\ j.pc \in {"next", "read"} => j.obj = None /\ j.got = {}
    /\ j.pc \notin {"next", "read"} => j.obj \in Live
    /\ j.obj \notin j.rest
    /\ j.pc \in {"append", "install", "rollback", "release"} => j.at <= Len(DeviceTopics)
    /\ j.pc = "record" => j.at = Len(DeviceTopics) + 1
    /\ Activating(j) => \A t \in j.got : \E i \in 1..(j.at - 1) : DeviceTopics[i] = t

Shapes == \A p \in Threads : job[p] # Free => Shape(job[p])

\* The current object of a mapping is its own; one that no mapping ever had is blank.
Owners ==
    /\ \A m \in Mappings : subscribed[m] # None => owner[subscribed[m]] = m
    /\ \A o \in Live \ Bound :
         subs[o] = {} /\ \A p \in Threads : job[p] # Free => ~ Has(job[p], o)

\* An object is closed once, by one goroutine, and is nobody's any more.
ClosedOnce ==
    \A p \in Threads : Closing(job[p]) => \A o \in Live : Has(job[p], o) =>
        /\ ~ Current(o)
        /\ \A q \in Threads : Closing(job[q]) /\ Has(job[q], o) => p = q

\* An object that is not tangled is activated by one goroutine, while it is its
\* mapping's and before anything is recorded.
Alone ==
    \A p \in Threads : Activating(job[p]) /\ job[p].obj \notin tangled =>
        /\ subs[job[p].obj] = {} /\ Current(job[p].obj)
        /\ \A q \in Threads : Activating(job[q]) /\ job[q].obj = job[p].obj => p = q

\* Every handler is in somebody's hands or on record, and where an object is tangled
\* some may be in nobody's.
Counted ==
    \A t \in Topics, o \in Live :
        /\ topicSubs[t][o] >= Cardinality(Holders(t, o)) + Bit(OnRecord(t, o))
        /\ o \notin tangled =>
             topicSubs[t][o] = Cardinality(Holders(t, o)) + Bit(OnRecord(t, o))

\* A topic that was tried is held, unless it was refused.
Tried ==
    \A p \in Threads : Activating(job[p]) /\ job[p].obj \notin refused =>
        \A i \in 1..(job[p].at - 1) : DeviceTopics[i] \in job[p].got

\* A mapping whose device is known is active, refused, or on somebody's list.
Sought ==
    known => \A m \in Mappings : subscribed[m] # None =>
        \/ subs[subscribed[m]] # {} \/ subscribed[m] \in refused
        \/ \E p \in Threads : Seeking(job[p]) /\ Has(job[p], subscribed[m])

\* A topic with a listener is held by the server, or somebody is about to install it.
Installing(t) ==
    \/ \E p \in Threads : job[p] # Free /\ job[p].pc = "install" /\ Topic(p) = t
    \/ \E k \in Connections : \/ onConnect[k].pc = "due"
                              \/ onConnect[k].pc = "installing" /\ t \in onConnect[k].todo
Served ==
    link /\ connected => \A t \in Topics : Heard(t) =>
        t \in installed \cup failed \cup released \/ Installing(t)

\* Connections are made one after the other, and each is lost once.
Dialled ==
    \E n \in 0..MaxConnects :
        /\ \A k \in Connections : onConnect[k].pc = "none" <=> k > n
        /\ lost + Bit(link) <= n

IInv ==
    /\ TypeOK /\ Shapes /\ Owners /\ ClosedOnce /\ Alone /\ Counted
    /\ Tried /\ Sought /\ Served /\ Dialled

-----------------------------------------------------------------------------
(* Lemmas about jobs and counts *)

\* A change of one member changes the number of members by one at most.
LEMMA CountOne ==
  ASSUME NEW S, NEW T, NEW x, IsFiniteSet(S), S \ {x} = T \ {x}
  PROVE  /\ Cardinality(S) \in Nat /\ Cardinality(T) \in Nat
         /\ Cardinality(T) + Bit(x \in S) = Cardinality(S) + Bit(x \in T)
<1>1. Cardinality(S) \in Nat
  BY FS_CardinalityType
<1>2. CASE x \in S /\ x \notin T
  <2>1. T = S \ {x}
    BY <1>2
  <2>2. Cardinality(T) = Cardinality(S) - 1 /\ Cardinality(T) \in Nat
    BY <1>2, <2>1, FS_RemoveElement, FS_CardinalityType
  <2>3. QED
    BY <1>1, <1>2, <2>2 DEF Bit
<1>3. CASE x \notin S /\ x \in T
  <2>1. T = S \cup {x}
    BY <1>3
  <2>2. Cardinality(T) = Cardinality(S) + 1
    BY <1>3, <2>1, FS_AddElement
  <2>3. QED
    BY <1>1, <1>3, <2>2 DEF Bit
<1>4. CASE x \in S <=> x \in T
  <2>1. S = T
    BY <1>4
  <2>2. QED
    BY <1>1, <2>1
<1>5. QED
  BY <1>2, <1>3, <1>4

\* The fields of a job; Free is not one.
LEMMA JobFacts ==
  /\ Free \notin Job
  /\ \A j \in Job : /\ j.obj \in Objs /\ j.rest \subseteq Live /\ j.got \subseteq Topics
                    /\ j.at \in 1..(Len(DeviceTopics) + 1) /\ j.at \in Nat
                    /\ j.pc \in {"next", "append", "install", "rollback", "record", "read",
                                 "close", "release"}
  /\ Len(DeviceTopics) \in Nat \ {0}
  /\ \A i \in 1..Len(DeviceTopics) : DeviceTopics[i] \in Topics
  /\ None \notin Live /\ Live \subseteq Objs
<1>1. Free.pc = "free"
  BY DEF Free
<1>2. Len(DeviceTopics) \in Nat \ {0} /\ \A i \in 1..Len(DeviceTopics) : DeviceTopics[i] \in Topics
  BY MqttPluginAssumption
<1>3. \A j \in Job : /\ j.obj \in Objs /\ j.rest \subseteq Live /\ j.got \subseteq Topics
                     /\ j.at \in 1..(Len(DeviceTopics) + 1) /\ j.at \in Nat
                     /\ j.pc \in {"next", "append", "install", "rollback", "record", "read",
                                  "close", "release"}
  BY <1>2 DEF Job
<1>4. Free \notin Job
  BY <1>1, <1>3
<1>5. QED
  BY <1>2, <1>3, <1>4 DEF Live

\* A job that begins.
LEMMA BeginFacts ==
  ASSUME NEW pc \in {"next", "append", "read", "close"}, NEW o \in Objs, NEW rest \in SUBSET Live
  PROVE  /\ Begin(pc, o, rest) \in Job /\ Begin(pc, o, rest) # Free
         /\ Begin(pc, o, rest).pc = pc /\ Begin(pc, o, rest).obj = o
         /\ Begin(pc, o, rest).rest = rest
         /\ Begin(pc, o, rest).at = 1 /\ Begin(pc, o, rest).got = {}
<1>1. Begin(pc, o, rest) \in Job
  BY JobFacts DEF Begin, Job
<1>2. QED
  BY <1>1, JobFacts DEF Begin

\* The jobs of the goroutines, before a step and after it.
LEMMA Jobs ==
  /\ TypeOK => \A p \in Threads : job[p] # Free => job[p] \in Job
  /\ Free.pc = "free" /\ Free \notin Job
BY JobFacts DEF TypeOK, Free

\* The job of one goroutine changes.
LEMMA JobStep ==
  ASSUME TypeOK, NEW p \in Threads, NEW k \in Job \cup {Free}, job' = [job EXCEPT ![p] = k]
  PROVE  /\ job' \in [Threads -> Job \cup {Free}] /\ job'[p] = k
         /\ \A q \in Threads \ {p} : job'[q] = job[q]
BY DEF TypeOK

\* The number of handlers in the hands of goroutines.
LEMMA HoldersFacts ==
  ASSUME NEW t, NEW o
  PROVE  /\ IsFiniteSet(Holders(t, o)) /\ Cardinality(Holders(t, o)) \in Nat
         /\ \A p \in Threads : Holds(job[p], t, o) => Cardinality(Holders(t, o)) >= 1
<1>1. IsFiniteSet(Holders(t, o))
  BY MqttPluginAssumption, FS_Subset DEF Holders
<1>2. Cardinality(Holders(t, o)) \in Nat
  BY <1>1, FS_CardinalityType
<1>3. ASSUME NEW p \in Threads, Holds(job[p], t, o) PROVE Cardinality(Holders(t, o)) >= 1
  <2>1. Holders(t, o) # {}
    BY <1>3 DEF Holders
  <2>2. Cardinality(Holders(t, o)) # 0
    BY <1>1, <2>1, FS_EmptySet
  <2>3. QED
    BY <1>2, <2>2
<1>4. QED
  BY <1>1, <1>2, <1>3

\* How the count of an object and topic changes with the job of one goroutine.
LEMMA CountStep ==
  ASSUME NEW p \in Threads, \A q \in Threads \ {p} : job'[q] = job[q], NEW t, NEW o
  PROVE  /\ Cardinality(Holders(t, o)) \in Nat /\ Cardinality(Holders(t, o)') \in Nat
         /\ Cardinality(Holders(t, o)') + Bit(Holds(job[p], t, o))
              = Cardinality(Holders(t, o)) + Bit(Holds(job'[p], t, o))
<1>1. Holders(t, o)' = {q \in Threads : Holds(job'[q], t, o)}
  BY DEF Holders
<1>2. Holders(t, o) \ {p} = Holders(t, o)' \ {p}
  BY <1>1 DEF Holders
<1>3. /\ p \in Holders(t, o) <=> Holds(job[p], t, o)
      /\ p \in Holders(t, o)' <=> Holds(job'[p], t, o)
  BY <1>1 DEF Holders
<1>4. IsFiniteSet(Holders(t, o))
  BY HoldersFacts
<1>5. QED
  BY <1>2, <1>3, <1>4, CountOne DEF Bit

\* A handler is added or removed.
LEMMA HandlerStep ==
  ASSUME TypeOK, NEW t \in Topics, NEW o \in Objs
  PROVE  /\ AddHandler(t, o) =>
              /\ topicSubs' \in [Topics -> [Objs -> Nat]]
              /\ topicSubs'[t][o] = topicSubs[t][o] + 1
         /\ RemoveHandler(t, o) /\ topicSubs[t][o] >= 1 =>
              /\ topicSubs' \in [Topics -> [Objs -> Nat]]
              /\ topicSubs'[t][o] = topicSubs[t][o] - 1
         /\ AddHandler(t, o) \/ RemoveHandler(t, o) =>
              \A s \in Topics, x \in Objs : s # t \/ x # o => topicSubs'[s][x] = topicSubs[s][x]
<1>1. topicSubs \in [Topics -> [Objs -> Nat]]
  BY DEF TypeOK, BrokerTypeOK
<1>2. ASSUME AddHandler(t, o)
      PROVE  /\ topicSubs' \in [Topics -> [Objs -> Nat]]
             /\ topicSubs'[t][o] = topicSubs[t][o] + 1
             /\ \A s \in Topics, x \in Objs : s # t \/ x # o => topicSubs'[s][x] = topicSubs[s][x]
  BY <1>1, <1>2 DEF AddHandler
<1>3. ASSUME RemoveHandler(t, o)
      PROVE  /\ topicSubs[t][o] >= 1 => /\ topicSubs' \in [Topics -> [Objs -> Nat]]
                                        /\ topicSubs'[t][o] = topicSubs[t][o] - 1
             /\ \A s \in Topics, x \in Objs : s # t \/ x # o => topicSubs'[s][x] = topicSubs[s][x]
  BY <1>1, <1>3 DEF RemoveHandler
<1>4. QED
  BY <1>2, <1>3

\* The count goes on when the handlers change by what the goroutine takes, adds or
\* records.
LEMMA CountKeeps ==
  ASSUME IInv, TypeOK', NEW p \in Threads, \A q \in Threads \ {p} : job'[q] = job[q],
         tangled \subseteq tangled',
         \A t \in Topics, o \in Live :
            /\ topicSubs'[t][o] + Bit(Holds(job[p], t, o)) + Bit(OnRecord(t, o))
                 >= topicSubs[t][o] + Bit(Holds(job'[p], t, o)) + Bit(OnRecord(t, o)')
            /\ o \notin tangled' =>
                 topicSubs'[t][o] + Bit(Holds(job[p], t, o)) + Bit(OnRecord(t, o))
                   = topicSubs[t][o] + Bit(Holds(job'[p], t, o)) + Bit(OnRecord(t, o)')
  PROVE  Counted'
<1> SUFFICES ASSUME NEW t \in Topics, NEW o \in Live
             PROVE  /\ topicSubs'[t][o] >= Cardinality(Holders(t, o)') + Bit(OnRecord(t, o)')
                    /\ o \notin tangled' =>
                         topicSubs'[t][o] = Cardinality(Holders(t, o)') + Bit(OnRecord(t, o)')
  BY DEF Counted, Bit
<1> DEFINE c == Cardinality(Holders(t, o))
           d == Cardinality(Holders(t, o)')
           a == Bit(Holds(job[p], t, o))
           b == Bit(Holds(job'[p], t, o))
           u == Bit(OnRecord(t, o))
           v == Bit(OnRecord(t, o)')
           n == topicSubs[t][o]
           m == topicSubs'[t][o]
<1>1. c \in Nat /\ d \in Nat /\ d + a = c + b
  BY CountStep
<1>2. a \in Nat /\ b \in Nat /\ u \in Nat /\ v \in Nat
  BY DEF Bit
<1>3. n \in Nat /\ m \in Nat
  BY DEF IInv, TypeOK, BrokerTypeOK, Live
<1>4. n >= c + u /\ (o \notin tangled => n = c + u)
  BY DEF IInv, Counted
<1>5. m + a + u >= n + b + v /\ (o \notin tangled' => m + a + u = n + b + v)
  OBVIOUS
<1>6. o \notin tangled' => o \notin tangled
  OBVIOUS
<1> HIDE DEF a, b, c, d, u, v, n, m
<1>7. m >= d + v /\ (o \notin tangled' => m = d + v)
  BY <1>1, <1>2, <1>3, <1>4, <1>5, <1>6
<1>8. QED
  BY <1>7 DEF a, b, c, d, u, v, n, m

\* A goroutine takes a step with the object in hand and keeps it.
LEMMA SameHands ==
  ASSUME IInv, NEW p \in Threads, \A q \in Threads \ {p} : job'[q] = job[q],
         job[p] # Free, job'[p] # Free,
         job'[p].obj = job[p].obj, job'[p].rest = job[p].rest,
         Activating(job'[p]) <=> Activating(job[p]), Closing(job'[p]) <=> Closing(job[p]),
         known' = known, subscribed' = subscribed, owner' = owner, subs' = subs,
         tangled' = tangled, refused \subseteq refused'
  PROVE  /\ Owners' /\ ClosedOnce' /\ Alone' /\ Sought'
         /\ \A t, o : OnRecord(t, o)' <=> OnRecord(t, o)
<1>1. \A q \in Threads :
         /\ job'[q] # Free <=> job[q] # Free
         /\ job'[q].obj = job[q].obj /\ \A o : Has(job'[q], o) <=> Has(job[q], o)
         /\ job'[q].rest = job[q].rest
         /\ Activating(job'[q]) <=> Activating(job[q])
         /\ Closing(job'[q]) <=> Closing(job[q])
         /\ Seeking(job'[q]) <=> Seeking(job[q])
  BY DEF Has, Closing, Seeking
<1>2. \A o : Current(o)' <=> Current(o)
  BY DEF Current
<1>3. \A o : ToBeClosed(o)' <=> ToBeClosed(o)
  BY <1>1 DEF ToBeClosed
<1>4. Bound' = Bound
  BY DEF Bound
<1>5. Owners'
  BY <1>1, <1>4 DEF IInv, Owners
<1>6. ClosedOnce'
  BY <1>1, <1>2 DEF IInv, ClosedOnce
<1>7. Alone'
  BY <1>1, <1>2 DEF IInv, Alone
<1>8. Sought'
  BY <1>1 DEF IInv, Sought
<1>9. \A t, o : OnRecord(t, o)' <=> OnRecord(t, o)
  BY <1>2, <1>3 DEF OnRecord
<1>10. QED
  BY <1>5, <1>6, <1>7, <1>8, <1>9

\* Nothing of the broker changes, and nobody who is to install a topic moves.
LEMMA BrokerRests ==
  ASSUME IInv, UNCHANGED broker,
         \A q \in Threads : job[q] # Free /\ job[q].pc = "install" => job'[q] = job[q]
  PROVE  Served' /\ Dialled'
<1>1. \A t : Installing(t) => Installing(t)'
  BY DEF Installing, Topic, broker
<1>2. \A t : Heard(t)' <=> Heard(t)
  BY DEF Heard, broker
<1>3. Served'
  BY <1>1, <1>2 DEF IInv, Served, broker
<1>4. Dialled'
  BY DEF IInv, Dialled, broker
<1>5. QED
  BY <1>3, <1>4

-----------------------------------------------------------------------------
(* The steps of an activation *)

\* What a goroutine has in hand while it activates an object.
LEMMA InHand ==
  ASSUME IInv, NEW p \in Threads, job[p] # Free
  PROVE  /\ job[p] \in Job /\ Shape(job[p])
         /\ job[p].pc \in {"append", "install", "rollback", "release"} =>
              /\ job[p].obj \in Live /\ job[p].at \in 1..Len(DeviceTopics)
              /\ Topic(p) = DeviceTopics[job[p].at] /\ Topic(p) \in Topics
         /\ job[p].pc \in {"append", "install", "rollback"} => Topic(p) \notin job[p].got
<1>1. job[p] \in Job /\ Shape(job[p])
  BY Jobs DEF IInv, Shapes
<1>2. job[p].pc \in {"append", "install", "rollback", "release"} =>
        /\ job[p].obj \in Live /\ job[p].at \in 1..Len(DeviceTopics)
        /\ Topic(p) = DeviceTopics[job[p].at] /\ Topic(p) \in Topics
  BY <1>1, JobFacts DEF Shape, Topic
<1>3. ASSUME job[p].pc \in {"append", "install", "rollback"}, Topic(p) \in job[p].got
      PROVE  FALSE
  <2>1. PICK i \in 1..(job[p].at - 1) : DeviceTopics[i] = Topic(p)
    BY <1>1, <1>3 DEF Shape, Activating
  <2>2. i \in 1..Len(DeviceTopics) /\ i # job[p].at
    BY <1>2, <1>3, JobFacts
  <2>3. QED
    BY <1>2, <1>3, <2>1, <2>2, MqttPluginAssumption
<1>4. QED
  BY <1>1, <1>2, <1>3

\* The next topic of an activation, or the record when there is none.
LEMMA NextTopic ==
  ASSUME IInv, NEW p \in Threads, job[p] # Free,
         job[p].pc \in {"append", "install", "rollback"},
         NEW got \in {job[p].got, job[p].got \cup {Topic(p)}}, NEW k, k = Following(p, got)
  PROVE  /\ k \in Job /\ k # Free /\ Shape(k) /\ k.pc \in {"append", "record"}
         /\ k.obj = job[p].obj /\ k.rest = job[p].rest /\ k.at = job[p].at + 1 /\ k.got = got
         /\ Activating(k) /\ ~ Closing(k)
<1>0. /\ k.obj = job[p].obj /\ k.rest = job[p].rest /\ k.at = job[p].at + 1 /\ k.got = got
      /\ k.pc = IF job[p].at < Len(DeviceTopics) THEN "append" ELSE "record"
      /\ k \in Job
  <2>1. job[p] \in Job /\ job[p].at + 1 \in 1..(Len(DeviceTopics) + 1) /\ got \in SUBSET Topics
    BY InHand, JobFacts
  <2>2. QED
    BY <2>1 DEF Following, Job
<1>1. k # Free
  BY <1>0, JobFacts
<1>2. /\ k.pc = "append" => k.at <= Len(DeviceTopics)
      /\ k.pc = "record" => k.at = Len(DeviceTopics) + 1
      /\ k.pc \in {"append", "record"}
  BY <1>0, InHand, JobFacts
<1>3. ASSUME NEW t \in k.got PROVE \E i \in 1..(k.at - 1) : DeviceTopics[i] = t
  <2>1. CASE t \in job[p].got
    <3>1. PICK i \in 1..(job[p].at - 1) : DeviceTopics[i] = t
      BY <2>1, InHand DEF Shape, Activating
    <3>2. i \in 1..(k.at - 1)
      BY <1>0, InHand, JobFacts
    <3>3. QED
      BY <3>1, <3>2
  <2>2. CASE t = Topic(p)
    <3>1. job[p].at \in 1..(k.at - 1)
      BY <1>0, InHand, JobFacts
    <3>2. QED
      BY <2>2, <3>1, InHand
  <2>3. QED
    BY <1>0, <1>3, <2>1, <2>2
<1>4. k.obj \in Live /\ k.obj \notin k.rest
  BY <1>0, InHand DEF Shape
<1>5. QED
  BY <1>0, <1>1, <1>2, <1>3, <1>4 DEF Shape, Activating, Closing

\* A goroutine takes a step with an object in hand, and answers for the handlers that
\* it adds or no longer has.
LEMMA StepInHand ==
  ASSUME IInv, NEW p \in Threads, NEW k \in Job,
         job[p] # Free, job' = [job EXCEPT ![p] = k], Shape(k),
         k.obj = job[p].obj, k.rest = job[p].rest,
         Activating(k) <=> Activating(job[p]), Closing(k) <=> Closing(job[p]),
         UNCHANGED <<closed, known, subscribed, owner, subs, lists, tangled, requests>>,
         BrokerTypeOK', refused \subseteq refused', refused' \subseteq Live,
         \A t \in Topics, o \in Live :
            topicSubs'[t][o] + Bit(Holds(job[p], t, o)) = topicSubs[t][o] + Bit(Holds(k, t, o)),
         Activating(k) /\ k.obj \notin refused' =>
            \A i \in 1..(k.at - 1) : DeviceTopics[i] \in k.got
  PROVE  TypeOK' /\ Shapes' /\ Owners' /\ ClosedOnce' /\ Alone' /\ Sought' /\ Counted' /\ Tried'
<1>1. /\ job' \in [Threads -> Job \cup {Free}] /\ job'[p] = k /\ k # Free
      /\ \A q \in Threads \ {p} : job'[q] = job[q]
  BY JobStep, JobFacts DEF IInv
<1>2. TypeOK'
  BY <1>1 DEF IInv, TypeOK
<1>3. Shapes'
  BY <1>1 DEF IInv, Shapes
<1>4. /\ Owners' /\ ClosedOnce' /\ Alone' /\ Sought'
      /\ \A t, o : OnRecord(t, o)' <=> OnRecord(t, o)
  BY <1>1, SameHands
<1>5. Counted'
  <2>1. ASSUME NEW t \in Topics, NEW o \in Live
        PROVE  /\ topicSubs'[t][o] + Bit(Holds(job[p], t, o)) + Bit(OnRecord(t, o))
                    >= topicSubs[t][o] + Bit(Holds(job'[p], t, o)) + Bit(OnRecord(t, o)')
               /\ topicSubs'[t][o] + Bit(Holds(job[p], t, o)) + Bit(OnRecord(t, o))
                    = topicSubs[t][o] + Bit(Holds(job'[p], t, o)) + Bit(OnRecord(t, o)')
    <3>1. Bit(OnRecord(t, o)') = Bit(OnRecord(t, o)) /\ Bit(OnRecord(t, o)) \in Nat
      BY <1>4 DEF Bit
    <3>2. topicSubs'[t][o] \in Nat /\ topicSubs[t][o] \in Nat
      BY <1>2, JobFacts DEF IInv, TypeOK, BrokerTypeOK
    <3>3. Bit(Holds(job[p], t, o)) \in Nat /\ Bit(Holds(k, t, o)) \in Nat
      BY DEF Bit
    <3>4. QED
      BY <1>1, <3>1, <3>2, <3>3
  <2>2. QED
    BY <1>1, <1>2, <2>1, CountKeeps
<1>6. Tried'
  <2>1. ASSUME NEW q \in Threads, Activating(job'[q]), job'[q].obj \notin refused',
               NEW i \in 1..(job'[q].at - 1)
        PROVE  DeviceTopics[i] \in job'[q].got
    BY <1>1, <2>1 DEF IInv, Tried
  <2>2. QED
    BY <2>1 DEF Tried
<1>7. QED
  BY <1>2, <1>3, <1>4, <1>5, <1>6

\* A topic gets its handler.
LEMMA SubscribeTopicKeeps ==
  ASSUME IInv, NEW p \in Threads, SubscribeTopic(p), UNCHANGED requests
  PROVE  IInv'
<1> DEFINE j == job[p]
<1>1. /\ j # Free /\ j.pc = "append" /\ j \in Job /\ Shape(j) /\ TypeOK
      /\ UNCHANGED <<plugin, link, connected, installed, onConnect, lost, fails, failed, released>>
  BY InHand DEF SubscribeTopic, IInv
<1>2. PICK t \in Topics, o \in Live, a \in 1..Len(DeviceTopics) :
        /\ t = Topic(p) /\ o = j.obj /\ a = j.at /\ t = DeviceTopics[a] /\ t \notin j.got
        /\ AddHandler(t, o)
  BY <1>1, InHand DEF SubscribeTopic
<1>3. PICK k \in Job :
        /\ job' = [job EXCEPT ![p] = k] /\ k.obj = o /\ k.rest = j.rest
        /\ \/ MustInstall(t) /\ k.pc = "install" /\ k.at = a /\ k.got = j.got
           \/ /\ ~ MustInstall(t) /\ k.pc \in {"append", "record"} /\ k.at = a + 1
              /\ k.got = j.got \cup {t} /\ Shape(k) /\ Activating(k) /\ ~ Closing(k)
  <2>2. CASE MustInstall(t)
    <3>1. job' = [job EXCEPT ![p] = [j EXCEPT !.pc = "install"]]
      BY <1>2, <2>2 DEF SubscribeTopic
    <3>2. [j EXCEPT !.pc = "install"] \in Job
      BY <1>1 DEF Job
    <3>3. QED
      BY <1>1, <1>2, <2>2, <3>1, <3>2 DEF Job
  <2>3. CASE ~ MustInstall(t)
    <3>1. PICK got \in {j.got, j.got \cup {Topic(p)}} : got = j.got \cup {t}
      BY <1>2
    <3>2. PICK k : k = Following(p, got)
      OBVIOUS
    <3>3. job' = [job EXCEPT ![p] = k]
      BY <1>2, <2>3, <3>1, <3>2 DEF SubscribeTopic
    <3>4. /\ k \in Job /\ Shape(k) /\ k.pc \in {"append", "record"}
          /\ k.obj = j.obj /\ k.rest = j.rest /\ k.at = j.at + 1 /\ k.got = got
          /\ Activating(k) /\ ~ Closing(k)
      <4>1. job[p] # Free /\ job[p].pc \in {"append", "install", "rollback"}
        BY <1>1
      <4>2. got \in {job[p].got, job[p].got \cup {Topic(p)}}
        OBVIOUS
      <4>3. /\ k \in Job /\ k # Free /\ Shape(k) /\ k.pc \in {"append", "record"}
            /\ k.obj = job[p].obj /\ k.rest = job[p].rest /\ k.at = job[p].at + 1 /\ k.got = got
            /\ Activating(k) /\ ~ Closing(k)
        BY ONLY ZenonT(60), IInv, <4>1, <4>2, <3>2, NextTopic
      <4>4. QED
        BY <4>3
    <3>5. QED
      BY <1>2, <2>3, <3>1, <3>3, <3>4
  <2>4. QED
    BY <2>2, <2>3
<1>4. /\ job' \in [Threads -> Job \cup {Free}] /\ job'[p] = k
      /\ \A q \in Threads \ {p} : job'[q] = job[q]
  BY <1>1, <1>3, JobStep
<1>5. Shape(k) /\ k # Free /\ Activating(k) /\ ~ Closing(k)
  <2>1. CASE k.pc = "install" /\ k.at = a /\ k.got = j.got
    BY <1>1, <1>2, <1>3, <2>1, JobFacts DEF Shape, Activating, Closing
  <2>2. QED
    BY <1>3, <2>1, JobFacts
<1>6. Activating(j) /\ ~ Closing(j)
  BY <1>1 DEF Activating, Closing
<1>7. BrokerTypeOK'
  <2>1. topicSubs' \in [Topics -> [Objs -> Nat]]
    BY <1>1, <1>2, HandlerStep, JobFacts
  <2>2. QED
    BY <1>1, <2>1 DEF TypeOK, BrokerTypeOK
<1>8. ASSUME NEW s \in Topics, NEW x \in Live
      PROVE  topicSubs'[s][x] + Bit(Holds(j, s, x)) = topicSubs[s][x] + Bit(Holds(k, s, x))
  <2>1. CASE s = t /\ x = o
    <3>1. ~ Holds(j, s, x) /\ Holds(k, s, x)
      BY <1>1, <1>2, <1>3, <1>5, <2>1 DEF Holds
    <3>2. topicSubs'[s][x] = topicSubs[s][x] + 1 /\ topicSubs[s][x] \in Nat
      BY <1>1, <1>2, <2>1, HandlerStep, JobFacts DEF TypeOK, BrokerTypeOK
    <3>3. QED
      BY <3>1, <3>2 DEF Bit
  <2>2. CASE s # t \/ x # o
    <3>1. Holds(j, s, x) <=> Holds(k, s, x)
      <4>1. Holds(j, s, x) <=> x = o /\ s \in j.got
        BY <1>1, <1>2 DEF Holds
      <4>2. CASE k.pc = "install" /\ k.at = a /\ k.got = j.got
        BY <1>2, <1>3, <1>5, <2>2, <4>1, <4>2 DEF Holds
      <4>3. CASE k.pc \in {"append", "record"} /\ k.got = j.got \cup {t}
        BY <1>2, <1>3, <1>5, <2>2, <4>1, <4>3 DEF Holds
      <4>4. QED
        BY <1>3, <4>2, <4>3
    <3>2. topicSubs'[s][x] = topicSubs[s][x]
      BY <1>1, <1>2, <2>2, HandlerStep, JobFacts
    <3>3. QED
      BY <3>1, <3>2 DEF Bit
  <2>3. QED
    BY <2>1, <2>2
<1>9. k.obj \notin refused' => \A i \in 1..(k.at - 1) : DeviceTopics[i] \in k.got
  <2>1. \/ k.at = a /\ k.got = j.got
        \/ k.at = a + 1 /\ k.got = j.got \cup {t}
    BY <1>3
  <2>2. k.obj = o /\ refused' = refused /\ a \in Nat
    BY <1>1, <1>3, JobFacts DEF plugin
  <2>3. QED
    BY <1>1, <1>2, <1>6, <2>1, <2>2 DEF IInv, Tried
<1>10. /\ TypeOK' /\ Shapes' /\ Owners' /\ ClosedOnce' /\ Alone' /\ Sought' /\ Counted'
       /\ Tried'
  <2>1. /\ UNCHANGED <<closed, known, subscribed, owner, subs, lists, tangled, requests>>
        /\ refused' = refused /\ refused \subseteq Live
    BY <1>1 DEF plugin, TypeOK
  <2>2. QED
    BY <1>1, <1>2, <1>3, <1>5, <1>6, <1>7, <1>8, <1>9, <2>1, StepInHand
<1>11. Served'
  <2>1. \A s \in Topics : Installing(s) => Installing(s)'
    BY <1>1, <1>4 DEF Installing, Topic
  <2>2. ASSUME NEW s \in Topics, Heard(s)', ~ Heard(s), connected PROVE Installing(s)'
    <3>1. s = t
      BY <1>1, <1>2, <2>2, HandlerStep, JobFacts DEF Heard
    <3>2. job'[p].pc = "install" /\ Topic(p)' = t
      BY <1>2, <1>3, <1>4, <2>2, <3>1 DEF MustInstall, Topic
    <3>3. QED
      BY <1>4, <1>5, <3>1, <3>2 DEF Installing
  <2>3. QED
    BY <1>1, <2>1, <2>2 DEF IInv, Served
<1>12. Dialled'
  BY <1>1 DEF IInv, Dialled
<1>13. QED
  BY <1>10, <1>11, <1>12 DEF IInv

\* Somebody answers for a handler, so there is one.
LEMMA HeldIsThere ==
  ASSUME IInv, NEW p \in Threads, NEW t \in Topics, NEW o \in Live, Holds(job[p], t, o)
  PROVE  topicSubs[t][o] >= 1
<1> DEFINE c == Cardinality(Holders(t, o))
           b == Bit(OnRecord(t, o))
<1>1. c \in Nat /\ c >= 1
  BY HoldersFacts
<1>2. b \in Nat /\ topicSubs[t][o] \in Nat /\ topicSubs[t][o] >= c + b
  BY JobFacts DEF IInv, TypeOK, BrokerTypeOK, Counted, Bit
<1> HIDE DEF b, c
<1>3. QED
  BY <1>1, <1>2

\* Who answers for a handler removes it.
LEMMA RemovedHandler ==
  ASSUME IInv, NEW p \in Threads, NEW t \in Topics, NEW o \in Live, NEW k,
         RemoveHandler(t, o), Holds(job[p], t, o), ~ Holds(k, t, o),
         \A s \in Topics, x \in Live : s # t \/ x # o => (Holds(job[p], s, x) <=> Holds(k, s, x))
  PROVE  /\ topicSubs' \in [Topics -> [Objs -> Nat]]
         /\ \A s \in Topics, x \in Live :
              topicSubs'[s][x] + Bit(Holds(job[p], s, x)) = topicSubs[s][x] + Bit(Holds(k, s, x))
         /\ \A s \in Topics : Heard(s)' => Heard(s)
<1>1. topicSubs[t][o] >= 1 /\ o \in Objs /\ TypeOK
  BY HeldIsThere, JobFacts DEF IInv
<1>2. /\ topicSubs' \in [Topics -> [Objs -> Nat]] /\ topicSubs'[t][o] = topicSubs[t][o] - 1
      /\ \A s \in Topics, x \in Objs : s # t \/ x # o => topicSubs'[s][x] = topicSubs[s][x]
  BY <1>1, HandlerStep
<1>3. topicSubs \in [Topics -> [Objs -> Nat]]
  BY <1>1 DEF TypeOK, BrokerTypeOK
<1>4. ASSUME NEW s \in Topics, NEW x \in Live
      PROVE  topicSubs'[s][x] + Bit(Holds(job[p], s, x)) = topicSubs[s][x] + Bit(Holds(k, s, x))
  <2>1. CASE s = t /\ x = o
    BY <1>1, <1>2, <1>3, <2>1 DEF Bit
  <2>2. CASE s # t \/ x # o
    <3>1. topicSubs'[s][x] = topicSubs[s][x] /\ (Holds(job[p], s, x) <=> Holds(k, s, x))
      BY <1>2, <2>2, JobFacts
    <3>2. QED
      BY <3>1 DEF Bit
  <2>3. QED
    BY <2>1, <2>2
<1>5. ASSUME NEW s \in Topics, Heard(s)' PROVE Heard(s)
  <2>1. PICK x \in Objs : topicSubs'[s][x] > 0
    BY <1>5 DEF Heard
  <2>2. topicSubs[s][x] > 0
    BY <1>1, <1>2, <1>3, <2>1
  <2>3. QED
    BY <2>2 DEF Heard
<1>6. QED
  BY <1>2, <1>4, <1>5

\* The server takes the subscription, or does not.
LEMMA InstallTopicKeeps ==
  ASSUME IInv, NEW p \in Threads, InstallTopic(p), UNCHANGED requests
  PROVE  IInv'
<1> DEFINE j == job[p]
<1>1. /\ j # Free /\ j.pc = "install" /\ j \in Job /\ Shape(j) /\ TypeOK
      /\ UNCHANGED <<plugin, link, connected, topicSubs, onConnect, lost, released>>
  BY InHand DEF InstallTopic, IInv
<1>2. PICK t \in Topics, o \in Live, a \in 1..Len(DeviceTopics) :
        /\ t = Topic(p) /\ o = j.obj /\ a = j.at /\ t = DeviceTopics[a] /\ t \notin j.got
  BY <1>1, InHand
<1>3. PICK k \in Job :
        /\ job' = [job EXCEPT ![p] = k] /\ k.obj = o /\ k.rest = j.rest
        /\ Shape(k) /\ Activating(k) /\ ~ Closing(k)
        /\ \/ /\ InstallOK(t) /\ k.pc \in {"append", "record"} /\ k.at = a + 1
              /\ k.got = j.got \cup {t}
           \/ InstallFails(t) /\ k.pc = "rollback" /\ k.at = a /\ k.got = j.got
  <2>1. CASE InstallOK(t) /\ job' = [job EXCEPT ![p] = Following(p, j.got \cup {Topic(p)})]
    <3>1. PICK got \in {j.got, j.got \cup {Topic(p)}} : got = j.got \cup {t}
      BY <1>2
    <3>2. PICK k : k = Following(p, got)
      OBVIOUS
    <3>3. job' = [job EXCEPT ![p] = k]
      BY <1>2, <2>1, <3>1, <3>2
    <3>4. /\ k \in Job /\ Shape(k) /\ k.pc \in {"append", "record"}
          /\ k.obj = j.obj /\ k.rest = j.rest /\ k.at = j.at + 1 /\ k.got = got
          /\ Activating(k) /\ ~ Closing(k)
      <4>1. job[p] # Free /\ job[p].pc \in {"append", "install", "rollback"}
        BY <1>1
      <4>2. got \in {job[p].got, job[p].got \cup {Topic(p)}}
        OBVIOUS
      <4>3. /\ k \in Job /\ k # Free /\ Shape(k) /\ k.pc \in {"append", "record"}
            /\ k.obj = job[p].obj /\ k.rest = job[p].rest /\ k.at = job[p].at + 1 /\ k.got = got
            /\ Activating(k) /\ ~ Closing(k)
        BY ONLY ZenonT(60), IInv, <4>1, <4>2, <3>2, NextTopic
      <4>4. QED
        BY <4>3
    <3>5. QED
      BY <1>2, <2>1, <3>1, <3>3, <3>4
  <2>2. CASE InstallFails(t) /\ job' = [job EXCEPT ![p].pc = "rollback"]
    <3> DEFINE k == [j EXCEPT !.pc = "rollback"]
    <3>1. job' = [job EXCEPT ![p] = k]
      BY <2>2
    <3>2. /\ k \in Job /\ k.obj = o /\ k.rest = j.rest
          /\ k.pc = "rollback" /\ k.at = a /\ k.got = j.got
      BY <1>1, <1>2 DEF Job
    <3>3. Shape(k) /\ Activating(k) /\ ~ Closing(k)
      BY <1>1, <1>2, <3>2, JobFacts DEF Shape, Activating, Closing
    <3>4. QED
      BY <2>2, <3>1, <3>2, <3>3
  <2>3. QED
    BY <1>2, <2>1, <2>2 DEF InstallTopic
<1>4. /\ job' \in [Threads -> Job \cup {Free}] /\ job'[p] = k /\ k # Free
      /\ \A q \in Threads \ {p} : job'[q] = job[q]
  BY <1>1, <1>3, JobStep, JobFacts
<1>5. Activating(j) /\ ~ Closing(j)
  BY <1>1 DEF Activating, Closing
<1>6. /\ installed' \subseteq Topics /\ failed' \subseteq Topics /\ fails' \in 0..MaxFails
      /\ installed \subseteq installed' /\ failed \subseteq failed'
      /\ t \in installed' \cup failed'
  BY <1>1, <1>3, MqttBrokerAssumption DEF TypeOK, BrokerTypeOK, InstallOK, InstallFails
<1>7. BrokerTypeOK'
  BY <1>1, <1>6 DEF TypeOK, BrokerTypeOK
<1>8. ASSUME NEW s \in Topics, NEW x \in Live
      PROVE  topicSubs'[s][x] + Bit(Holds(j, s, x)) = topicSubs[s][x] + Bit(Holds(k, s, x))
  <2>1. Holds(j, s, x) <=> x = o /\ (s \in j.got \/ s = t)
    BY <1>1, <1>2 DEF Holds
  <2>2. Holds(k, s, x) <=> x = o /\ (s \in j.got \/ s = t)
    <3>1. CASE k.pc \in {"append", "record"} /\ k.got = j.got \cup {t}
      BY <1>3, <1>4, <3>1 DEF Holds
    <3>2. CASE k.pc = "rollback" /\ k.at = a /\ k.got = j.got
      BY <1>2, <1>3, <1>4, <3>2 DEF Holds
    <3>3. QED
      BY <1>3, <3>1, <3>2
  <2>3. QED
    BY <1>1, <2>1, <2>2 DEF Bit
<1>9. k.obj \notin refused' => \A i \in 1..(k.at - 1) : DeviceTopics[i] \in k.got
  <2>1. \/ k.at = a /\ k.got = j.got
        \/ k.at = a + 1 /\ k.got = j.got \cup {t}
    BY <1>3
  <2>2. k.obj = o /\ refused' = refused /\ a \in Nat
    BY <1>1, <1>3, JobFacts DEF plugin
  <2>3. QED
    BY <1>1, <1>2, <1>5, <2>1, <2>2 DEF IInv, Tried
<1>10. /\ TypeOK' /\ Shapes' /\ Owners' /\ ClosedOnce' /\ Alone' /\ Sought' /\ Counted'
       /\ Tried'
  <2>1. /\ UNCHANGED <<closed, known, subscribed, owner, subs, lists, tangled, requests>>
        /\ refused' = refused /\ refused \subseteq Live
    BY <1>1 DEF plugin, TypeOK
  <2>2. QED
    BY <1>1, <1>2, <1>3, <1>4, <1>5, <1>7, <1>8, <1>9, <2>1, StepInHand
<1>11. Served'
  <2>1. \A s \in Topics : Installing(s) => Installing(s)' \/ s = t
    BY <1>1, <1>2, <1>4 DEF Installing, Topic
  <2>2. \A s \in Topics : Heard(s)' <=> Heard(s)
    BY <1>1 DEF Heard
  <2>3. QED
    BY <1>1, <1>6, <2>1, <2>2 DEF IInv, Served
<1>12. Dialled'
  BY <1>1 DEF IInv, Dialled
<1>13. QED
  BY <1>10, <1>11, <1>12 DEF IInv

\* A refused subscription is taken out again.
LEMMA RollbackKeeps ==
  ASSUME IInv, NEW p \in Threads, Rollback(p), UNCHANGED requests
  PROVE  IInv'
<1> DEFINE j == job[p]
<1>1. /\ j # Free /\ j.pc = "rollback" /\ j \in Job /\ Shape(j) /\ TypeOK
      /\ UNCHANGED <<closed, known, subscribed, owner, subs, lists, tangled, link, connected,
                     installed, onConnect, lost, fails, failed, released>>
  BY InHand DEF Rollback, IInv
<1>2. PICK t \in Topics, o \in Live, a \in 1..Len(DeviceTopics) :
        /\ t = Topic(p) /\ o = j.obj /\ a = j.at /\ t = DeviceTopics[a] /\ t \notin j.got
        /\ RemoveHandler(t, o) /\ refused' = refused \cup {o}
  BY <1>1, InHand DEF Rollback
<1>3. PICK k \in Job :
        /\ job' = [job EXCEPT ![p] = k] /\ k.obj = o /\ k.rest = j.rest
        /\ Shape(k) /\ Activating(k) /\ ~ Closing(k)
        /\ k.pc \in {"append", "record"} /\ k.got = j.got
  <2>1. PICK got \in {j.got, j.got \cup {Topic(p)}} : got = j.got
    OBVIOUS
  <2>2. PICK k : k = Following(p, got)
    OBVIOUS
  <2>3. job' = [job EXCEPT ![p] = k]
    BY <2>1, <2>2 DEF Rollback
  <2>4. /\ k \in Job /\ Shape(k) /\ k.pc \in {"append", "record"}
        /\ k.obj = j.obj /\ k.rest = j.rest /\ k.got = got
        /\ Activating(k) /\ ~ Closing(k)
    <3>1. job[p] # Free /\ job[p].pc \in {"append", "install", "rollback"}
      BY <1>1
    <3>2. got \in {job[p].got, job[p].got \cup {Topic(p)}}
      OBVIOUS
    <3>3. /\ k \in Job /\ k # Free /\ Shape(k) /\ k.pc \in {"append", "record"}
          /\ k.obj = job[p].obj /\ k.rest = job[p].rest /\ k.at = job[p].at + 1 /\ k.got = got
          /\ Activating(k) /\ ~ Closing(k)
      BY ONLY ZenonT(60), IInv, <3>1, <3>2, <2>2, NextTopic
    <3>4. QED
      BY <3>3
  <2>5. QED
    BY <1>2, <2>1, <2>3, <2>4
<1>4. /\ job'[p] = k /\ k # Free /\ \A q \in Threads \ {p} : job'[q] = job[q]
  BY <1>1, <1>3, JobStep, JobFacts
<1>5. Activating(j) /\ ~ Closing(j)
  BY <1>1 DEF Activating, Closing
<1>6. /\ Holds(j, t, o) /\ ~ Holds(k, t, o)
      /\ \A s \in Topics, x \in Live : s # t \/ x # o => (Holds(j, s, x) <=> Holds(k, s, x))
  BY <1>1, <1>2, <1>3, <1>4 DEF Holds
<1>7. /\ topicSubs' \in [Topics -> [Objs -> Nat]]
      /\ \A s \in Topics, x \in Live :
           topicSubs'[s][x] + Bit(Holds(j, s, x)) = topicSubs[s][x] + Bit(Holds(k, s, x))
      /\ \A s \in Topics : Heard(s)' => Heard(s)
  BY <1>2, <1>6, RemovedHandler
<1>8. BrokerTypeOK'
  BY <1>1, <1>7 DEF TypeOK, BrokerTypeOK
<1>9. /\ TypeOK' /\ Shapes' /\ Owners' /\ ClosedOnce' /\ Alone' /\ Sought' /\ Counted' /\ Tried'
  <2>1. refused \subseteq refused' /\ refused' \subseteq Live /\ k.obj \in refused'
    BY <1>1, <1>2, <1>3 DEF TypeOK
  <2>2. UNCHANGED <<closed, known, subscribed, owner, subs, lists, tangled, requests>>
    BY <1>1
  <2>3. QED
    BY <1>1, <1>2, <1>3, <1>4, <1>5, <1>7, <1>8, <2>1, <2>2, StepInHand
<1>10. Served'
  <2>1. \A s \in Topics : Installing(s) => Installing(s)'
    BY <1>1, <1>4 DEF Installing, Topic
  <2>2. QED
    BY <1>1, <1>7, <2>1 DEF IInv, Served
<1>11. Dialled'
  BY <1>1 DEF IInv, Dialled
<1>12. QED
  BY <1>9, <1>10, <1>11 DEF IInv

-----------------------------------------------------------------------------
(* The steps of a goroutine that closes *)

\* A handler of a dropped object is removed.
LEMMA CloseOneKeeps ==
  ASSUME IInv, NEW p \in Threads, CloseSub(p), job[p].got # {}, UNCHANGED requests
  PROVE  IInv'
<1> DEFINE j == job[p]
<1>1. /\ j # Free /\ j.pc = "close" /\ j \in Job /\ Shape(j) /\ TypeOK
      /\ UNCHANGED <<plugin, link, connected, installed, onConnect, lost, fails, failed, released>>
  BY InHand DEF CloseSub, IInv
<1>2. PICK i \in DOMAIN DeviceTopics :
        /\ DeviceTopics[i] \in j.got /\ RemoveHandler(DeviceTopics[i], j.obj)
        /\ job' = [job EXCEPT ![p] =
                     [j EXCEPT !.got = j.got \ {DeviceTopics[i]}, !.at = i,
                        !.pc = IF MustRelease(DeviceTopics[i], j.obj) THEN "release" ELSE "close"]]
  BY DEF CloseSub
<1>3. PICK t \in Topics, o \in Live :
        t = DeviceTopics[i] /\ o = j.obj /\ t \in j.got /\ RemoveHandler(t, o)
  BY <1>1, <1>2, JobFacts DEF Shape
<1>4. i \in 1..Len(DeviceTopics)
  BY SMTT(30), MqttPluginAssumption
<1>5. PICK k \in Job :
        /\ job' = [job EXCEPT ![p] = k] /\ k.obj = o /\ k.rest = j.rest /\ k.got = j.got \ {t}
        /\ k.at = i /\ k.pc \in {"release", "close"}
  <2> DEFINE pc == IF MustRelease(DeviceTopics[i], j.obj) THEN "release" ELSE "close"
             k == [j EXCEPT !.got = j.got \ {DeviceTopics[i]}, !.at = i, !.pc = pc]
  <2>1. job' = [job EXCEPT ![p] = k]
    BY <1>2
  <2>2. pc \in {"release", "close"}
    OBVIOUS
  <2> HIDE DEF pc
  <2>3. i \in 1..(Len(DeviceTopics) + 1)
    BY <1>4, JobFacts
  <2>4. /\ k \in Job /\ k.obj = o /\ k.rest = j.rest /\ k.got = j.got \ {t} /\ k.at = i
        /\ k.pc = pc
    BY <1>1, <1>3, <2>2, <2>3 DEF Job
  <2>5. QED
    BY <2>1, <2>2, <2>4
<1>6. Shape(k) /\ ~ Activating(k) /\ Closing(k) /\ ~ Activating(j) /\ Closing(j)
  BY <1>1, <1>3, <1>4, <1>5, JobFacts DEF Shape, Activating, Closing
<1>7. /\ job'[p] = k /\ k # Free /\ \A q \in Threads \ {p} : job'[q] = job[q]
  BY <1>1, <1>5, JobStep, JobFacts
<1>8. /\ Holds(j, t, o) /\ ~ Holds(k, t, o)
      /\ \A s \in Topics, x \in Live : s # t \/ x # o => (Holds(j, s, x) <=> Holds(k, s, x))
  BY <1>1, <1>3, <1>5, <1>7 DEF Holds
<1>9. /\ topicSubs' \in [Topics -> [Objs -> Nat]]
      /\ \A s \in Topics, x \in Live :
           topicSubs'[s][x] + Bit(Holds(j, s, x)) = topicSubs[s][x] + Bit(Holds(k, s, x))
      /\ \A s \in Topics : Heard(s)' => Heard(s)
  BY <1>3, <1>8, RemovedHandler
<1>10. BrokerTypeOK'
  BY <1>1, <1>9 DEF TypeOK, BrokerTypeOK
<1>11. /\ TypeOK' /\ Shapes' /\ Owners' /\ ClosedOnce' /\ Alone' /\ Sought' /\ Counted' /\ Tried'
  <2>1. /\ UNCHANGED <<closed, known, subscribed, owner, subs, lists, tangled, requests>>
        /\ refused' = refused /\ refused \subseteq Live
    BY <1>1 DEF plugin, TypeOK
  <2>2. QED
    BY ZenonT(60), <1>1, <1>3, <1>5, <1>6, <1>7, <1>9, <1>10, <2>1, StepInHand
<1>12. Served'
  <2>1. \A s \in Topics : Installing(s) => Installing(s)'
    BY <1>1, <1>7 DEF Installing, Topic
  <2>2. QED
    BY <1>1, <1>9, <2>1 DEF IInv, Served
<1>13. Dialled'
  BY <1>1 DEF IInv, Dialled
<1>14. QED
  BY <1>11, <1>12, <1>13 DEF IInv

\* The server releases the topic, whoever may listen to it by now.
LEMMA ReleaseTopicKeeps ==
  ASSUME IInv, NEW p \in Threads, ReleaseTopic(p), UNCHANGED requests
  PROVE  IInv'
<1> DEFINE j == job[p]
<1>1. /\ j # Free /\ j.pc = "release" /\ j \in Job /\ Shape(j) /\ TypeOK
      /\ UNCHANGED <<plugin, link, connected, topicSubs, onConnect, lost, fails, failed>>
  BY InHand DEF ReleaseTopic, IInv
<1>2. PICK t \in Topics : t = Topic(p) /\ Release(t)
  BY <1>1, InHand DEF ReleaseTopic
<1>3. PICK k \in Job :
        /\ job' = [job EXCEPT ![p] = k] /\ k.obj = j.obj /\ k.rest = j.rest /\ k.got = j.got
        /\ k.pc = "close"
  <2> DEFINE k == [j EXCEPT !.pc = "close"]
  <2>1. job' = [job EXCEPT ![p] = k]
    BY DEF ReleaseTopic
  <2>2. k \in Job /\ k.obj = j.obj /\ k.rest = j.rest /\ k.got = j.got /\ k.pc = "close"
    BY <1>1 DEF Job
  <2>3. QED
    BY <2>1, <2>2
<1>4. Shape(k) /\ ~ Activating(k) /\ Closing(k) /\ ~ Activating(j) /\ Closing(j)
  BY <1>1, <1>3, JobFacts DEF Shape, Activating, Closing
<1>5. /\ job'[p] = k /\ k # Free /\ \A q \in Threads \ {p} : job'[q] = job[q]
  BY <1>1, <1>3, JobStep, JobFacts
<1>6. /\ installed' = installed \ {t} /\ released' \subseteq Topics /\ released \subseteq released'
      /\ Heard(t) => t \in released'
  BY <1>1, <1>2 DEF Release, TypeOK, BrokerTypeOK
<1>7. BrokerTypeOK'
  BY <1>1, <1>6 DEF TypeOK, BrokerTypeOK
<1>8. ASSUME NEW s \in Topics, NEW x \in Live
      PROVE  topicSubs'[s][x] + Bit(Holds(j, s, x)) = topicSubs[s][x] + Bit(Holds(k, s, x))
  <2>1. Holds(j, s, x) <=> Holds(k, s, x)
    BY <1>1, <1>3, <1>5 DEF Holds
  <2>2. QED
    BY <1>1, <2>1 DEF Bit
<1>9. /\ TypeOK' /\ Shapes' /\ Owners' /\ ClosedOnce' /\ Alone' /\ Sought' /\ Counted' /\ Tried'
  <2>1. /\ UNCHANGED <<closed, known, subscribed, owner, subs, lists, tangled, requests>>
        /\ refused' = refused /\ refused \subseteq Live
    BY <1>1 DEF plugin, TypeOK
  <2>2. QED
    BY <1>1, <1>3, <1>4, <1>5, <1>7, <1>8, <2>1, StepInHand
<1>10. Served'
  <2>1. \A s \in Topics : Installing(s) => Installing(s)'
    BY <1>1, <1>5 DEF Installing, Topic
  <2>2. \A s \in Topics : Heard(s)' <=> Heard(s)
    BY <1>1 DEF Heard
  <2>3. QED
    BY <1>1, <1>6, <2>1, <2>2 DEF IInv, Served
<1>11. Dialled'
  BY <1>1 DEF IInv, Dialled
<1>12. QED
  BY <1>9, <1>10, <1>11 DEF IInv

-----------------------------------------------------------------------------
(* The steps from one object to the next *)

\* What a goroutine goes on with.
LEMMA OnwardFacts ==
  ASSUME IInv, NEW p \in Threads, job[p] # Free, NEW pc \in {"next", "read"}, NEW k,
         k = Onward(p, pc)
  PROVE  /\ k \in Job \cup {Free} /\ (k = Free <=> job[p].rest = {})
         /\ k # Free => /\ k.pc = pc /\ k.obj = None /\ k.rest = job[p].rest /\ k.got = {}
                        /\ k.at = 1 /\ Shape(k)
         /\ ~ Activating(k) /\ \A t, o : o # None => ~ Holds(k, t, o)
<1>1. job[p].rest \in SUBSET Live /\ None \in Objs
  BY InHand, JobFacts, MqttPluginAssumption
<1>2. CASE job[p].rest = {}
  BY <1>2 DEF Onward, Activating, Holds
<1>3. CASE job[p].rest # {}
  <2>1. k = Begin(pc, None, job[p].rest)
    BY <1>3 DEF Onward
  <2>2. /\ k \in Job /\ k # Free /\ k.pc = pc /\ k.obj = None /\ k.rest = job[p].rest
        /\ k.got = {} /\ k.at = 1
    BY <1>1, <2>1, BeginFacts
  <2>3. Shape(k)
    BY <1>1, <2>2, JobFacts DEF Shape, Activating
  <2>4. QED
    BY <1>3, <2>2, <2>3 DEF Activating, Holds
<1>4. QED
  BY <1>2, <1>3

\* The loop that closes goes on to the next object.
LEMMA CloseDoneKeeps ==
  ASSUME IInv, NEW p \in Threads, CloseSub(p), job[p].got = {}, UNCHANGED requests
  PROVE  IInv'
<1> DEFINE j == job[p]
<1>1. /\ j # Free /\ j.pc = "close" /\ j \in Job /\ Shape(j) /\ TypeOK
      /\ UNCHANGED broker /\ UNCHANGED plugin
  BY InHand DEF CloseSub, IInv, broker
<1>2. PICK k : k = Onward(p, "read") /\ job' = [job EXCEPT ![p] = k]
  BY DEF CloseSub
<1>3. /\ k \in Job \cup {Free} /\ (k = Free <=> j.rest = {})
      /\ k # Free => /\ k.pc = "read" /\ k.obj = None /\ k.rest = j.rest /\ Shape(k)
      /\ ~ Activating(k) /\ \A t, o : o # None => ~ Holds(k, t, o)
  BY <1>1, <1>2, OnwardFacts
<1>4. /\ job' \in [Threads -> Job \cup {Free}] /\ job'[p] = k
      /\ \A q \in Threads \ {p} : job'[q] = job[q]
  BY <1>1, <1>2, <1>3, JobStep
<1>5. /\ ~ Activating(j) /\ Closing(j) /\ (k # Free => Closing(k)) /\ ~ Seeking(j)
      /\ \A o \in Live : k # Free /\ Has(k, o) => Has(j, o)
      /\ \A t \in Topics, o \in Live : ~ Holds(j, t, o)
  BY <1>1, <1>3, JobFacts DEF Activating, Closing, Seeking, Has, Holds
<1>6. TypeOK'
  BY <1>1, <1>4 DEF TypeOK, BrokerTypeOK, broker, plugin
<1>7. Shapes'
  BY <1>3, <1>4 DEF IInv, Shapes
<1>8. \A o : Current(o)' <=> Current(o)
  BY <1>1 DEF Current, plugin
<1>9. Owners'
  <2>1. ASSUME NEW o \in Live \ Bound, NEW q \in Threads, job'[q] # Free, Has(job'[q], o)
        PROVE  FALSE
    BY <1>1, <1>4, <1>5, <2>1 DEF IInv, Owners
  <2>2. Bound' = Bound
    BY <1>1 DEF Bound, plugin
  <2>3. QED
    BY <1>1, <2>1, <2>2 DEF IInv, Owners, plugin
<1>10. ClosedOnce'
  <2>1. \A q \in Threads, o \in Live : Closing(job'[q]) /\ Has(job'[q], o) =>
           Closing(job[q]) /\ Has(job[q], o)
    BY <1>4, <1>5 DEF Closing
  <2>2. QED
    BY <1>8, <2>1 DEF IInv, ClosedOnce
<1>11. Alone'
  <2>1. \A q \in Threads : Activating(job'[q]) => q # p /\ job'[q] = job[q]
    BY <1>3, <1>4
  <2>2. QED
    BY <1>1, <1>8, <2>1 DEF IInv, Alone, plugin
<1>12. Counted'
  <2>1. \A o \in Live : ToBeClosed(o)' <=> ToBeClosed(o)
    <3>1. \A q \in Threads, o \in Live :
             Closing(job'[q]) /\ o \in job'[q].rest <=> Closing(job[q]) /\ o \in job[q].rest
      BY <1>1, <1>3, <1>4, <1>5, JobFacts DEF Closing
    <3>2. QED
      BY <3>1 DEF ToBeClosed
  <2>2. \A t \in Topics, o \in Live : OnRecord(t, o)' <=> OnRecord(t, o)
    BY <1>1, <1>8, <2>1 DEF OnRecord, plugin
  <2>3. ASSUME NEW t \in Topics, NEW o \in Live
        PROVE  /\ topicSubs'[t][o] + Bit(Holds(j, t, o)) + Bit(OnRecord(t, o))
                    >= topicSubs[t][o] + Bit(Holds(job'[p], t, o)) + Bit(OnRecord(t, o)')
               /\ topicSubs'[t][o] + Bit(Holds(j, t, o)) + Bit(OnRecord(t, o))
                    = topicSubs[t][o] + Bit(Holds(job'[p], t, o)) + Bit(OnRecord(t, o)')
    <3>1. ~ Holds(j, t, o) /\ ~ Holds(job'[p], t, o) /\ topicSubs' = topicSubs
      BY <1>1, <1>3, <1>4, <1>5, JobFacts DEF broker
    <3>2. topicSubs[t][o] \in Nat
      BY <1>1, JobFacts DEF TypeOK, BrokerTypeOK
    <3>3. QED
      BY <2>2, <3>1, <3>2 DEF Bit
  <2>4. tangled' = tangled
    BY <1>1 DEF plugin
  <2>5. QED
    BY <1>4, <1>6, <2>3, <2>4, CountKeeps
<1>13. Tried'
  BY <1>1, <1>3, <1>4 DEF IInv, Tried, plugin
<1>14. Sought'
  <2>1. \A q \in Threads : Seeking(job[q]) => job'[q] = job[q]
    BY <1>4, <1>5
  <2>2. QED
    BY <1>1, <2>1 DEF IInv, Sought, plugin
<1>15. Served' /\ Dialled'
  BY <1>1, <1>4, BrokerRests
<1>16. QED
  BY <1>6, <1>7, <1>9, <1>10, <1>11, <1>12, <1>13, <1>14, <1>15 DEF IInv

\* An activation is recorded.
LEMMA RecordKeeps ==
  ASSUME IInv, NEW p \in Threads, Record(p), UNCHANGED requests
  PROVE  IInv'
<1> DEFINE j == job[p]
<1>1. /\ j # Free /\ j.pc = "record" /\ j \in Job /\ Shape(j) /\ TypeOK /\ UNCHANGED broker
      /\ UNCHANGED <<closed, known, subscribed, owner, lists, tangled, refused>>
  BY InHand DEF Record, IInv
<1>2. PICK k : k = Onward(p, "next") /\ job' = [job EXCEPT ![p] = k]
  BY DEF Record
<1>3. /\ k \in Job \cup {Free} /\ (k = Free <=> j.rest = {})
      /\ k # Free => /\ k.pc = "next" /\ k.obj = None /\ k.rest = j.rest /\ Shape(k)
      /\ ~ Activating(k) /\ \A t, o : o # None => ~ Holds(k, t, o)
  BY <1>1, <1>2, OnwardFacts
<1>4. /\ job' \in [Threads -> Job \cup {Free}] /\ job'[p] = k
      /\ \A q \in Threads \ {p} : job'[q] = job[q]
  BY <1>1, <1>2, <1>3, JobStep
<1>5. PICK o \in Live : o = j.obj
  BY <1>1 DEF Shape
<1>6. /\ subs' \in [Live -> SUBSET Topics] /\ subs'[o] = j.got
      /\ \A x \in Live \ {o} : subs'[x] = subs[x]
  <2>1. subs' = [subs EXCEPT ![o] = j.got] /\ j.got \subseteq Topics
    BY <1>1, <1>5, JobFacts DEF Record, Recorded
  <2>2. QED
    BY <1>1, <2>1 DEF TypeOK
<1>7. /\ Activating(j) /\ ~ Closing(j) /\ ~ Closing(k) /\ Seeking(j)
      /\ \A x \in Live : k # Free /\ Has(k, x) => x \in j.rest /\ Has(j, x)
      /\ \A x \in Live : x \in j.rest => Seeking(k) /\ Has(k, x)
      /\ \A t \in Topics, x \in Live : Holds(j, t, x) <=> x = o /\ t \in j.got
  BY <1>1, <1>3, <1>5, JobFacts DEF Activating, Closing, Seeking, Has, Holds
<1>8. TypeOK'
  BY <1>1, <1>4, <1>6 DEF TypeOK, BrokerTypeOK, broker
<1>9. Shapes'
  BY <1>3, <1>4 DEF IInv, Shapes
<1>10. /\ \A x : Current(x)' <=> Current(x)
       /\ Bound' = Bound /\ o \in Bound
  <2>1. \A x : Current(x)' <=> Current(x)
    BY <1>1 DEF Current
  <2>2. Bound' = Bound
    BY <1>1 DEF Bound
  <2>3. o \in Bound
    BY <1>1, <1>5 DEF IInv, Owners, Has
  <2>4. QED
    BY <2>1, <2>2, <2>3
<1>11. Owners'
  <2>1. ASSUME NEW x \in Live \ Bound
        PROVE  subs'[x] = {} /\ \A q \in Threads : job'[q] # Free => ~ Has(job'[q], x)
    <3>1. subs'[x] = {}
      BY <1>6, <1>10 DEF IInv, Owners
    <3>2. \A q \in Threads : job'[q] # Free => ~ Has(job'[q], x)
      BY <1>1, <1>4, <1>7 DEF IInv, Owners
    <3>3. QED
      BY <3>1, <3>2
  <2>2. QED
    BY <1>1, <1>10, <2>1 DEF IInv, Owners
<1>12. \A q \in Threads : (Closing(job'[q]) <=> Closing(job[q])) /\ (Closing(job'[q]) => q # p)
  BY <1>4, <1>7
<1>13. ClosedOnce'
  BY <1>4, <1>10, <1>12 DEF IInv, ClosedOnce
<1>14. Alone'
  <2>1. \A q \in Threads : Activating(job'[q]) => q # p /\ job'[q] = job[q]
    BY <1>3, <1>4
  <2>2. ASSUME NEW q \in Threads, Activating(job'[q]), job'[q].obj \notin tangled'
        PROVE  subs'[job'[q].obj] = subs[job[q].obj]
    <3>1. q # p /\ job'[q] = job[q] /\ job[q].obj \notin tangled
      BY <1>1, <2>1, <2>2
    <3>2. job[q].obj \in Live
      <4>1. job[q] # Free /\ job[q].pc \notin {"next", "read"}
        BY <2>2, <3>1 DEF Activating
      <4>2. QED
        BY <4>1, InHand DEF Shape
    <3>3. job[q].obj # o
      BY <1>5, <1>7, <2>2, <3>1 DEF IInv, Alone
    <3>4. QED
      BY <1>6, <3>1, <3>2, <3>3
  <2>3. QED
    BY <1>1, <1>10, <2>1, <2>2 DEF IInv, Alone
<1>15. Counted'
  <2>1. \A x : ToBeClosed(x)' <=> ToBeClosed(x)
    BY <1>4, <1>12 DEF ToBeClosed
  <2>2. /\ \A t \in Topics, x \in Live \ {o} : OnRecord(t, x)' <=> OnRecord(t, x)
        /\ \A t \in Topics : OnRecord(t, o)' => t \in j.got
    BY <1>6, <1>10, <2>1 DEF OnRecord
  <2>3. o \notin tangled =>
          \A t \in Topics : ~ OnRecord(t, o) /\ (OnRecord(t, o)' <=> t \in j.got)
    <3>1. o \notin tangled => subs[o] = {} /\ Current(o)
      BY <1>5, <1>7 DEF IInv, Alone
    <3>2. QED
      BY <1>6, <1>10, <3>1 DEF OnRecord
  <2>4. ASSUME NEW t \in Topics, NEW x \in Live
        PROVE  /\ topicSubs'[t][x] + Bit(Holds(j, t, x)) + Bit(OnRecord(t, x))
                    >= topicSubs[t][x] + Bit(Holds(job'[p], t, x)) + Bit(OnRecord(t, x)')
               /\ x \notin tangled' =>
                    topicSubs'[t][x] + Bit(Holds(j, t, x)) + Bit(OnRecord(t, x))
                      = topicSubs[t][x] + Bit(Holds(job'[p], t, x)) + Bit(OnRecord(t, x)')
    <3>1. ~ Holds(job'[p], t, x) /\ topicSubs' = topicSubs /\ topicSubs[t][x] \in Nat
      BY <1>1, <1>3, <1>4, JobFacts DEF broker, TypeOK, BrokerTypeOK
    <3>2. CASE x = o
      <4>1. Holds(j, t, x) <=> t \in j.got
        BY <1>7, <3>2
      <4>2. OnRecord(t, x)' => t \in j.got
        BY <2>2, <3>2
      <4>3. x \notin tangled' => ~ OnRecord(t, x) /\ (OnRecord(t, x)' <=> t \in j.got)
        BY <1>1, <2>3, <3>2
      <4>4. QED
        BY <3>1, <4>1, <4>2, <4>3 DEF Bit
    <3>3. CASE x # o
      <4>1. ~ Holds(j, t, x) /\ (OnRecord(t, x)' <=> OnRecord(t, x))
        BY <1>7, <2>2, <3>3
      <4>2. QED
        BY <3>1, <4>1 DEF Bit
    <3>4. QED
      BY <3>2, <3>3
  <2>5. tangled' = tangled
    BY <1>1
  <2>6. QED
    BY <1>4, <1>8, <2>4, <2>5, CountKeeps
<1>16. Tried'
  BY <1>1, <1>3, <1>4 DEF IInv, Tried
<1>17. Sought'
  <2>1. j.got # {} \/ o \in refused
    <3>1. 1 \in 1..(j.at - 1)
      BY <1>1, JobFacts DEF Shape
    <3>2. QED
      BY <1>5, <1>7, <3>1 DEF IInv, Tried
  <2>2. ASSUME known', NEW m \in Mappings, subscribed'[m] # None
        PROVE  \/ subs'[subscribed'[m]] # {} \/ subscribed'[m] \in refused'
               \/ \E q \in Threads : Seeking(job'[q]) /\ Has(job'[q], subscribed'[m])
    <3>1. PICK x \in Live : x = subscribed[m] /\ x = subscribed'[m]
      BY <1>1, <2>2 DEF TypeOK, Live
    <3>2. CASE x = o
      BY <1>1, <1>6, <2>1, <3>1, <3>2
    <3>3. CASE x # o
      <4>1. \/ subs[x] # {} \/ x \in refused
            \/ \E q \in Threads : Seeking(job[q]) /\ Has(job[q], x)
        BY <1>1, <2>2, <3>1 DEF IInv, Sought
      <4>2. CASE \E q \in Threads : Seeking(job[q]) /\ Has(job[q], x)
        <5>1. PICK q \in Threads : Seeking(job[q]) /\ Has(job[q], x)
          BY <4>2
        <5>2. Seeking(job'[q]) /\ Has(job'[q], x)
          <6>1. CASE q = p
            <7>1. x \in j.rest
              BY <1>5, <3>3, <5>1, <6>1 DEF Has
            <7>2. QED
              BY <1>4, <1>7, <6>1, <7>1
          <6>2. CASE q # p
            BY <1>4, <5>1, <6>2
          <6>3. QED
            BY <6>1, <6>2
        <5>3. QED
          BY <3>1, <5>2
      <4>3. QED
        BY <1>1, <1>6, <3>1, <3>3, <4>1, <4>2
    <3>4. QED
      BY <3>2, <3>3
  <2>3. QED
    BY <2>2 DEF Sought
<1>18. Served' /\ Dialled'
  BY <1>1, <1>4, BrokerRests
<1>19. QED
  BY <1>8, <1>9, <1>11, <1>13, <1>14, <1>15, <1>16, <1>17, <1>18 DEF IInv

\* The loop that closes reads what the next object has recorded.
LEMMA ReadSubsKeeps ==
  ASSUME IInv, NEW p \in Threads, ReadSubs(p), UNCHANGED requests
  PROVE  IInv'
<1> DEFINE j == job[p]
<1>1. /\ j # Free /\ j.pc = "read" /\ j \in Job /\ Shape(j) /\ TypeOK
      /\ UNCHANGED broker /\ UNCHANGED plugin
  BY InHand DEF ReadSubs, IInv
<1>2. PICK k \in Job \cup {Free} :
        /\ job' = [job EXCEPT ![p] = k]
        /\ k = Free <=> j.rest = {}
        /\ k # Free => /\ k.obj \in j.rest /\ k.rest = j.rest \ {k.obj} /\ k.got = subs[k.obj]
                       /\ k.pc = "close"
  <2>1. CASE j.rest = {}
    BY <2>1 DEF ReadSubs
  <2>2. CASE j.rest # {}
    <3>1. PICK o \in j.rest :
            job' = [job EXCEPT ![p] = [Begin("close", o, j.rest \ {o}) EXCEPT !.got = subs[o]]]
      BY <2>2 DEF ReadSubs
    <3>2. o \in Live /\ o \in Objs /\ j.rest \ {o} \in SUBSET Live /\ subs[o] \in SUBSET Topics
      BY <1>1, JobFacts DEF TypeOK
    <3> DEFINE b == Begin("close", o, j.rest \ {o})
               k == [b EXCEPT !.got = subs[o]]
    <3>3. b \in Job /\ b.pc = "close" /\ b.obj = o /\ b.rest = j.rest \ {o}
      BY <3>2, BeginFacts
    <3>4. job' = [job EXCEPT ![p] = k]
      BY <3>1
    <3> HIDE DEF b
    <3>5. /\ k \in Job /\ k.pc = "close" /\ k.obj = o /\ k.rest = j.rest \ {o} /\ k.got = subs[o]
      BY <3>2, <3>3 DEF Job
    <3>6. QED
      BY <2>2, <3>4, <3>5, JobFacts
  <2>3. QED
    BY <2>1, <2>2
<1>3. /\ job' \in [Threads -> Job \cup {Free}] /\ job'[p] = k
      /\ \A q \in Threads \ {p} : job'[q] = job[q]
  BY <1>1, <1>2, JobStep
<1>4. /\ ~ Activating(j) /\ ~ Activating(k) /\ Closing(j) /\ ~ Seeking(j)
      /\ k # Free => Closing(k) /\ Shape(k)
      /\ k # Free => \A o \in Live : Has(k, o) => Has(j, o)
  <2>1. /\ ~ Activating(j) /\ ~ Activating(k) /\ Closing(j) /\ ~ Seeking(j)
        /\ k # Free => Closing(k)
    BY <1>1, <1>2, JobFacts DEF Activating, Closing, Seeking
  <2>2. k # Free => Shape(k)
    BY <1>1, <1>2, <2>1, JobFacts DEF Shape
  <2>3. k # Free => \A o \in Live : Has(k, o) => Has(j, o)
    BY <1>2 DEF Has
  <2>4. QED
    BY <2>1, <2>2, <2>3
<1>5. TypeOK'
  BY <1>1, <1>3 DEF TypeOK, BrokerTypeOK, broker, plugin
<1>6. Shapes'
  BY <1>3, <1>4 DEF IInv, Shapes
<1>7. \A o : Current(o)' <=> Current(o)
  BY <1>1 DEF Current, plugin
<1>8. Owners'
  <2>1. ASSUME NEW o \in Live \ Bound, NEW q \in Threads, job'[q] # Free, Has(job'[q], o)
        PROVE  FALSE
    BY <1>1, <1>3, <1>4, <2>1 DEF IInv, Owners
  <2>2. Bound' = Bound
    BY <1>1 DEF Bound, plugin
  <2>3. QED
    BY <1>1, <2>1, <2>2 DEF IInv, Owners, plugin
<1>9. \A q \in Threads, o \in Live : Closing(job'[q]) /\ Has(job'[q], o) =>
         Closing(job[q]) /\ Has(job[q], o)
  BY <1>3, <1>4 DEF Closing
<1>10. ClosedOnce'
  BY <1>7, <1>9 DEF IInv, ClosedOnce
<1>11. Alone'
  <2>1. \A q \in Threads : Activating(job'[q]) => q # p /\ job'[q] = job[q]
    BY <1>3, <1>4
  <2>2. QED
    BY <1>1, <1>7, <2>1 DEF IInv, Alone, plugin
<1>12. Counted'
  <2>1. ASSUME NEW t \in Topics, NEW o \in Live
        PROVE  Bit(Holds(j, t, o)) + Bit(OnRecord(t, o))
                 = Bit(Holds(k, t, o)) + Bit(OnRecord(t, o)')
    <3>1. ~ Holds(j, t, o)
      BY <1>1, JobFacts DEF Holds, Shape
    <3>2. CASE k # Free /\ o = k.obj
      <4>1. o \in j.rest /\ ~ Current(o) /\ ToBeClosed(o)
        BY <1>1, <1>2, <1>4, <3>2 DEF IInv, ClosedOnce, Has, ToBeClosed
      <4>2. ~ ToBeClosed(o)'
        <5>1. ASSUME NEW q \in Threads, Closing(job'[q]), o \in job'[q].rest PROVE FALSE
          <6>1. q # p
            BY <1>2, <1>3, <3>2, <5>1
          <6>2. Closing(job[q]) /\ Has(job[q], o)
            BY <1>3, <5>1, <6>1 DEF Has
          <6>3. QED
            BY <1>4, <4>1, <6>1, <6>2 DEF IInv, ClosedOnce, Has
        <5>2. QED
          BY <5>1 DEF ToBeClosed
      <4>3. OnRecord(t, o) <=> t \in subs[o]
        BY <4>1 DEF OnRecord
      <4>4. ~ OnRecord(t, o)'
        BY <1>7, <4>1, <4>2 DEF OnRecord
      <4>5. Holds(k, t, o) <=> t \in subs[o]
        BY <1>2, <3>2 DEF Holds
      <4>6. QED
        BY <3>1, <4>3, <4>4, <4>5 DEF Bit
    <3>3. CASE k = Free \/ o # k.obj
      <4>1. ~ Holds(k, t, o)
        BY <3>3 DEF Holds
      <4>2. k # Free => (o \in k.rest <=> o \in j.rest)
        BY <1>2, <3>3
      <4>3. ToBeClosed(o)' <=> ToBeClosed(o)
        <5>1. \A q \in Threads :
                 Closing(job'[q]) /\ o \in job'[q].rest <=> Closing(job[q]) /\ o \in job[q].rest
          BY <1>1, <1>2, <1>3, <1>4, <4>2 DEF Closing
        <5>2. QED
          BY <5>1 DEF ToBeClosed
      <4>4. OnRecord(t, o)' <=> OnRecord(t, o)
        BY <1>1, <1>7, <4>3 DEF OnRecord, plugin
      <4>5. QED
        BY <3>1, <4>1, <4>4 DEF Bit
    <3>4. QED
      BY <3>2, <3>3
  <2>2. ASSUME NEW t \in Topics, NEW o \in Live
        PROVE  /\ topicSubs'[t][o] + Bit(Holds(j, t, o)) + Bit(OnRecord(t, o))
                    >= topicSubs[t][o] + Bit(Holds(job'[p], t, o)) + Bit(OnRecord(t, o)')
               /\ topicSubs'[t][o] + Bit(Holds(j, t, o)) + Bit(OnRecord(t, o))
                    = topicSubs[t][o] + Bit(Holds(job'[p], t, o)) + Bit(OnRecord(t, o)')
    <3>1. topicSubs' = topicSubs /\ topicSubs[t][o] \in Nat
      BY <1>1, JobFacts DEF broker, TypeOK, BrokerTypeOK
    <3>2. /\ Bit(Holds(j, t, o)) \in Nat /\ Bit(OnRecord(t, o)) \in Nat
          /\ Bit(Holds(k, t, o)) \in Nat /\ Bit(OnRecord(t, o)') \in Nat
      BY DEF Bit
    <3>3. QED
      BY <1>3, <2>1, <3>1, <3>2
  <2>3. tangled' = tangled
    BY <1>1 DEF plugin
  <2>4. QED
    BY <1>3, <1>5, <2>2, <2>3, CountKeeps
<1>13. Tried'
  BY <1>1, <1>3, <1>4 DEF IInv, Tried, plugin
<1>14. Sought'
  <2>1. \A q \in Threads : Seeking(job[q]) => job'[q] = job[q]
    BY <1>3, <1>4
  <2>2. QED
    BY <1>1, <2>1 DEF IInv, Sought, plugin
<1>15. Served' /\ Dialled'
  BY <1>1, <1>3, BrokerRests
<1>16. QED
  BY <1>5, <1>6, <1>8, <1>10, <1>11, <1>12, <1>13, <1>14, <1>15 DEF IInv

\* The discovery handler takes the next object, or has none to take.
LEMMA TakeKeeps ==
  ASSUME IInv, NEW p \in Threads, Take(p), UNCHANGED requests
  PROVE  IInv'
<1> DEFINE j == job[p]
<1>1. /\ j # Free /\ j.pc = "next" /\ j \in Job /\ Shape(j) /\ TypeOK /\ UNCHANGED broker
      /\ UNCHANGED <<closed, known, subscribed, owner, subs, lists, refused>>
  BY InHand DEF Take, IInv
<1>2. PICK k \in Job \cup {Free} :
        /\ job' = [job EXCEPT ![p] = k]
        /\ \/ k = Free /\ (j.rest = {} \/ ~ known) /\ tangled' = tangled
           \/ /\ k # Free /\ k.obj \in j.rest /\ k.rest = j.rest \ {k.obj} /\ k.got = {}
              /\ k.at = 1 /\ k.pc = "append"
              /\ tangled' = IF Tangles(p, k.obj) THEN tangled \cup {k.obj} ELSE tangled
  <2>1. CASE j.rest = {} \/ ~ known
    BY <2>1 DEF Take
  <2>2. CASE ~ (j.rest = {} \/ ~ known)
    <3>1. PICK o \in j.rest :
            /\ job' = [job EXCEPT ![p] = Begin("append", o, j.rest \ {o})]
            /\ tangled' = IF Tangles(p, o) THEN tangled \cup {o} ELSE tangled
      BY <2>2 DEF Take
    <3>2. o \in Objs /\ j.rest \ {o} \in SUBSET Live
      BY <1>1, JobFacts
    <3> DEFINE k == Begin("append", o, j.rest \ {o})
    <3>3. /\ k \in Job /\ k # Free /\ k.pc = "append" /\ k.obj = o /\ k.rest = j.rest \ {o}
          /\ k.got = {} /\ k.at = 1
      BY <3>2, BeginFacts
    <3>4. QED
      BY <3>1, <3>3
  <2>3. QED
    BY <2>1, <2>2
<1>3. /\ job' \in [Threads -> Job \cup {Free}] /\ job'[p] = k
      /\ \A q \in Threads \ {p} : job'[q] = job[q]
  BY <1>1, <1>2, JobStep
<1>4. /\ ~ Activating(j) /\ ~ Closing(j) /\ ~ Closing(k) /\ Seeking(j)
      /\ k # Free => Shape(k) /\ Seeking(k) /\ k.obj \in Live
      /\ k # Free => \A o \in Live : Has(k, o) <=> Has(j, o)
      /\ \A t \in Topics, o \in Live : ~ Holds(j, t, o) /\ ~ Holds(k, t, o)
  <2>1. /\ ~ Activating(j) /\ ~ Closing(j) /\ ~ Closing(k) /\ Seeking(j)
        /\ k # Free => Seeking(k) /\ k.obj \in Live
    BY <1>1, <1>2, JobFacts DEF Activating, Closing, Seeking
  <2>2. k # Free => Shape(k)
    <3>1. Len(DeviceTopics) >= 1
      BY JobFacts
    <3>2. QED
      BY <1>2, <2>1, <3>1 DEF Shape
  <2>3. k # Free => \A o \in Live : Has(k, o) <=> Has(j, o)
    BY <1>1, <1>2, JobFacts DEF Has, Shape
  <2>4. \A t \in Topics, o \in Live : ~ Holds(j, t, o) /\ ~ Holds(k, t, o)
    BY <1>1, <1>2 DEF Holds, Shape
  <2>5. QED
    BY <2>1, <2>2, <2>3, <2>4
<1>5. tangled \subseteq tangled' /\ tangled' \subseteq Live
  BY <1>1, <1>2, <1>4 DEF TypeOK
<1>6. TypeOK'
  BY <1>1, <1>3, <1>5 DEF TypeOK, BrokerTypeOK, broker
<1>7. Shapes'
  BY <1>3, <1>4 DEF IInv, Shapes
<1>8. \A o : Current(o)' <=> Current(o)
  BY <1>1 DEF Current
<1>9. Owners'
  <2>1. ASSUME NEW o \in Live \ Bound, NEW q \in Threads, job'[q] # Free, Has(job'[q], o)
        PROVE  FALSE
    BY <1>1, <1>3, <1>4, <2>1 DEF IInv, Owners
  <2>2. Bound' = Bound
    BY <1>1 DEF Bound
  <2>3. QED
    BY <1>1, <2>1, <2>2 DEF IInv, Owners
<1>10. \A q \in Threads : (Closing(job'[q]) <=> Closing(job[q])) /\ (Closing(job'[q]) => q # p)
  BY <1>3, <1>4
<1>11. ClosedOnce'
  BY <1>3, <1>8, <1>10 DEF IInv, ClosedOnce
<1>12. Alone'
  <2>1. ASSUME NEW q \in Threads, Activating(job'[q]), job'[q].obj \notin tangled'
        PROVE  /\ subs[job'[q].obj] = {} /\ Current(job'[q].obj)
               /\ \A r \in Threads : Activating(job'[r]) /\ job'[r].obj = job'[q].obj => q = r
    <3>1. CASE q = p
      <4>1. k # Free /\ ~ Tangles(p, k.obj) /\ k.obj \in j.rest
        BY <1>2, <1>3, <2>1, <3>1 DEF Activating
      <4>2. subs[k.obj] = {} /\ subscribed[owner[k.obj]] = k.obj
        BY <4>1 DEF Tangles
      <4>3. owner[k.obj] \in Mappings
        <5>1. k.obj \in Live /\ Has(j, k.obj)
          BY <1>4, <4>1 DEF Has
        <5>2. k.obj \in Bound
          BY <1>1, <5>1 DEF IInv, Owners
        <5>3. QED
          BY <1>1, <5>2 DEF Bound, TypeOK
      <4>4. Current(k.obj)
        BY <4>2, <4>3 DEF Current
      <4>5. \A r \in Threads \ {p} : ~ (Activating(job[r]) /\ job[r].obj = k.obj)
        BY <4>1 DEF Tangles, Activating
      <4>6. QED
        BY <1>3, <3>1, <4>2, <4>4, <4>5
    <3>2. CASE q # p
      <4>1. job'[q] = job[q] /\ Activating(job[q]) /\ job[q].obj \notin tangled
        BY <1>3, <1>5, <2>1, <3>2
      <4>2. /\ subs[job[q].obj] = {} /\ Current(job[q].obj)
            /\ \A r \in Threads : Activating(job[r]) /\ job[r].obj = job[q].obj => q = r
        BY <4>1 DEF IInv, Alone
      <4>3. ~ (Activating(k) /\ k.obj = job[q].obj)
        <5>1. ASSUME Activating(k), k.obj = job[q].obj PROVE FALSE
          <6>1. ~ Tangles(p, k.obj)
            BY <1>2, <2>1, <4>1, <5>1 DEF Activating
          <6>2. QED
            BY <3>2, <4>1, <5>1, <6>1 DEF Tangles, Activating
        <5>2. QED
          BY <5>1
      <4>4. QED
        BY <1>3, <4>1, <4>2, <4>3
    <3>3. QED
      BY <3>1, <3>2
  <2>2. QED
    BY <1>1, <1>8, <2>1 DEF Alone
<1>13. Counted'
  <2>1. \A x : ToBeClosed(x)' <=> ToBeClosed(x)
    BY <1>3, <1>10 DEF ToBeClosed
  <2>2. \A t, x : OnRecord(t, x)' <=> OnRecord(t, x)
    BY <1>1, <1>8, <2>1 DEF OnRecord
  <2>3. ASSUME NEW t \in Topics, NEW o \in Live
        PROVE  /\ topicSubs'[t][o] + Bit(Holds(j, t, o)) + Bit(OnRecord(t, o))
                    >= topicSubs[t][o] + Bit(Holds(job'[p], t, o)) + Bit(OnRecord(t, o)')
               /\ topicSubs'[t][o] + Bit(Holds(j, t, o)) + Bit(OnRecord(t, o))
                    = topicSubs[t][o] + Bit(Holds(job'[p], t, o)) + Bit(OnRecord(t, o)')
    <3>1. ~ Holds(j, t, o) /\ ~ Holds(job'[p], t, o) /\ topicSubs' = topicSubs
      BY <1>1, <1>3, <1>4 DEF broker
    <3>2. topicSubs[t][o] \in Nat
      BY <1>1, JobFacts DEF TypeOK, BrokerTypeOK
    <3>3. QED
      BY <2>2, <3>1, <3>2 DEF Bit
  <2>4. QED
    BY <1>3, <1>5, <1>6, <2>3, CountKeeps
<1>14. Tried'
  <2>1. Activating(k) => k.at = 1
    BY <1>2 DEF Activating
  <2>2. QED
    BY <1>1, <1>3, <2>1 DEF IInv, Tried
<1>15. Sought'
  <2>1. ASSUME known, NEW q \in Threads, NEW o \in Live, Seeking(job[q]), Has(job[q], o)
        PROVE  Seeking(job'[q]) /\ Has(job'[q], o)
    <3>1. CASE q = p
      <4>1. j.rest # {}
        BY <1>1, <2>1, <3>1, JobFacts DEF Has, Shape
      <4>2. QED
        BY <1>2, <1>3, <1>4, <2>1, <3>1, <4>1
    <3>2. CASE q # p
      BY <1>3, <2>1, <3>2
    <3>3. QED
      BY <3>1, <3>2
  <2>2. \A m \in Mappings : subscribed[m] # None => subscribed[m] \in Live
    BY <1>1 DEF TypeOK, Live
  <2>3. QED
    BY <1>1, <2>1, <2>2 DEF IInv, Sought
<1>16. Served' /\ Dialled'
  BY <1>1, <1>3, BrokerRests
<1>17. QED
  BY <1>6, <1>7, <1>9, <1>11, <1>12, <1>13, <1>14, <1>15, <1>16 DEF IInv

-----------------------------------------------------------------------------
(* The requests and the discovery messages *)

\* A goroutine that was free begins with objects that it answers for no handler of.
LEMMA BeginKeeps ==
  ASSUME IInv, NEW p \in Threads, NEW k \in Job \cup {Free},
         job[p] = Free, job' = [job EXCEPT ![p] = k], UNCHANGED broker, TypeOK',
         k # Free => Shape(k) /\ k.got = {} /\ k.pc \in {"next", "append", "read"} /\ k.at = 1,
         tangled \subseteq tangled', refused' = refused,
         \A t \in Topics, o \in Live :
            /\ OnRecord(t, o)' => OnRecord(t, o)
            /\ OnRecord(t, o) /\ o \notin tangled' => OnRecord(t, o)'
  PROVE  Shapes' /\ Counted' /\ Tried' /\ Served' /\ Dialled'
<1>1. /\ job'[p] = k /\ \A q \in Threads \ {p} : job'[q] = job[q]
      /\ TypeOK
  BY JobStep DEF IInv
<1>2. Shapes'
  BY <1>1 DEF IInv, Shapes
<1>3. Counted'
  <2>1. \A t, o : ~ Holds(job[p], t, o) /\ ~ Holds(k, t, o)
    BY DEF Holds
  <2>2. ASSUME NEW t \in Topics, NEW o \in Live
        PROVE  /\ topicSubs'[t][o] + Bit(Holds(job[p], t, o)) + Bit(OnRecord(t, o))
                    >= topicSubs[t][o] + Bit(Holds(job'[p], t, o)) + Bit(OnRecord(t, o)')
               /\ o \notin tangled' =>
                    topicSubs'[t][o] + Bit(Holds(job[p], t, o)) + Bit(OnRecord(t, o))
                      = topicSubs[t][o] + Bit(Holds(job'[p], t, o)) + Bit(OnRecord(t, o)')
    <3>1. /\ ~ Holds(job[p], t, o) /\ ~ Holds(job'[p], t, o) /\ topicSubs' = topicSubs
      BY <1>1, <2>1 DEF broker
    <3>2. topicSubs[t][o] \in Nat
      BY <1>1, JobFacts DEF TypeOK, BrokerTypeOK
    <3>3. /\ OnRecord(t, o)' => OnRecord(t, o)
          /\ OnRecord(t, o) /\ o \notin tangled' => OnRecord(t, o)'
      OBVIOUS
    <3>4. QED
      BY <3>1, <3>2, <3>3 DEF Bit
  <2>3. QED
    BY <1>1, <2>2, CountKeeps
<1>4. Tried'
  <2>1. Activating(k) => k.at = 1
    BY DEF Activating
  <2>2. QED
    BY <1>1, <2>1 DEF IInv, Tried
<1>5. Served' /\ Dialled'
  BY <1>1, BrokerRests
<1>6. QED
  BY <1>2, <1>3, <1>4, <1>5


\* Subscribe: a blank object takes the place of the mapping's.
LEMMA SubscribeKeeps ==
  ASSUME IInv, NEW p \in Threads, NEW m \in Mappings, Subscribe(p, m),
         requests' \in 0..MaxRequests
  PROVE  IInv'
<1>1. PICK o \in Live \ Bound :
        /\ owner' = [owner EXCEPT ![o] = m]
        /\ subscribed' = [subscribed EXCEPT ![m] = o]
        /\ job' = [job EXCEPT ![p] =
                     IF PendingAtSubscribe(o) # {} THEN Begin("append", o, {}) ELSE Free]
        /\ tangled' = IF subscribed[m] # None THEN tangled \cup {subscribed[m]} ELSE tangled
  BY DEF Subscribe
<1>2. /\ job[p] = Free /\ TypeOK
      /\ UNCHANGED <<broker, closed, known, subs, lists, refused>>
  BY DEF Subscribe, IInv
<1>3. PICK k \in Job \cup {Free} :
        /\ job' = [job EXCEPT ![p] = k]
        /\ known => k # Free
        /\ k # Free => /\ k.pc = "append" /\ k.obj = o /\ k.rest = {} /\ k.at = 1 /\ k.got = {}
  <2>1. o \in Objs /\ {} \in SUBSET Live
    BY JobFacts
  <2> DEFINE b == Begin("append", o, {})
  <2>2. /\ b \in Job /\ b # Free /\ b.pc = "append" /\ b.obj = o /\ b.rest = {} /\ b.at = 1
        /\ b.got = {}
    BY <2>1, BeginFacts
  <2>3. known => PendingAtSubscribe(o) # {}
    BY DEF PendingAtSubscribe
  <2>4. QED
    BY <1>1, <2>2, <2>3
<1>4. /\ job' \in [Threads -> Job \cup {Free}] /\ job'[p] = k
      /\ \A q \in Threads \ {p} : job'[q] = job[q]
  BY <1>2, <1>3, JobStep
<1>5. /\ o \in Live /\ o \in Objs /\ o # None /\ m # None /\ subs[o] = {}
      /\ \A q \in Threads : job[q] # Free => ~ Has(job[q], o)
  BY JobFacts, MqttPluginAssumption DEF IInv, Owners
<1>6. /\ subscribed' \in [Mappings -> Objs] /\ subscribed'[m] = o
      /\ \A x \in Mappings \ {m} : subscribed'[x] = subscribed[x]
  BY <1>1, <1>2, <1>5 DEF TypeOK
<1>7. /\ owner' \in [Live -> Mappings \cup {None}] /\ owner'[o] = m
      /\ \A x \in Live \ {o} : owner'[x] = owner[x]
  BY <1>1, <1>2, <1>5 DEF TypeOK
<1>8. tangled \subseteq tangled' /\ tangled' \subseteq Live
  BY <1>1, <1>2 DEF TypeOK, Live
<1>9. /\ subscribed[m] # None => subscribed[m] \in tangled'
      /\ \A x \in Mappings : subscribed[x] # o
  <2>1. \A x \in Mappings : subscribed[x] = o => owner[o] = x
    BY <1>5 DEF IInv, Owners
  <2>2. \A x \in Mappings : x # None
    BY MqttPluginAssumption
  <2>3. owner[o] = None
    BY <1>5 DEF Bound
  <2>4. QED
    BY <1>1, <2>1, <2>2, <2>3
<1>10. TypeOK'
  BY <1>2, <1>4, <1>6, <1>7, <1>8 DEF TypeOK, BrokerTypeOK, broker
<1>11. /\ ~ Closing(k)
       /\ ~ Closing(job[p]) /\ ~ Seeking(job[p]) /\ ~ Activating(job[p])
       /\ k # Free => Shape(k) /\ Seeking(k) /\ Has(k, o)
       /\ k # Free => \A x \in Live : Has(k, x) => x = o
  <2>1. ~ Closing(k) /\ (k # Free => Seeking(k) /\ Has(k, o))
    BY <1>3 DEF Closing, Seeking, Has
  <2>2. ~ Closing(job[p]) /\ ~ Seeking(job[p]) /\ ~ Activating(job[p])
    BY <1>2 DEF Closing, Seeking, Activating
  <2>3. k # Free => Shape(k)
    <3>1. Len(DeviceTopics) >= 1
      BY JobFacts
    <3>2. QED
      BY <1>3, <1>5, <3>1 DEF Shape
  <2>4. k # Free => \A x \in Live : Has(k, x) => x = o
    BY <1>3 DEF Has
  <2>5. QED
    BY <2>1, <2>2, <2>3, <2>4
<1>12. \A x \in Live : /\ Current(x)' => Current(x) \/ x = o
                       /\ Current(x) /\ x \notin tangled' => Current(x)'
  <2>1. \A x : Current(x)' <=> \E n \in Mappings : subscribed'[n] = x
    BY DEF Current
  <2>2. ASSUME NEW x \in Live, Current(x)' PROVE Current(x) \/ x = o
    BY <1>6, <2>1, <2>2 DEF Current
  <2>3. ASSUME NEW x \in Live, Current(x), x \notin tangled' PROVE Current(x)'
    <3>1. PICK n \in Mappings : subscribed[n] = x
      BY <2>3 DEF Current
    <3>2. n # m
      BY <1>9, <2>3, <3>1, JobFacts
    <3>3. QED
      BY <1>6, <2>1, <3>1, <3>2
  <2>4. QED
    BY <2>2, <2>3
<1>13. \A x : ToBeClosed(x)' <=> ToBeClosed(x)
  BY <1>4, <1>11 DEF ToBeClosed
<1>14. Current(o)'
  BY <1>6 DEF Current
<1>15. Shapes' /\ Counted' /\ Tried' /\ Served' /\ Dialled'
  <2>1. ASSUME NEW t \in Topics, NEW x \in Live
        PROVE  /\ OnRecord(t, x)' => OnRecord(t, x)
               /\ OnRecord(t, x) /\ x \notin tangled' => OnRecord(t, x)'
    <3>1. OnRecord(t, x)' <=> t \in subs[x] /\ (Current(x)' \/ ToBeClosed(x)')
      BY <1>2 DEF OnRecord
    <3>2. QED
      BY <1>5, <1>12, <1>13, <3>1 DEF OnRecord
  <2>2. k # Free => k.pc \in {"next", "append", "read"}
    BY <1>3
  <2>3. QED
    BY <1>2, <1>3, <1>8, <1>10, <1>11, <2>1, <2>2, BeginKeeps
<1>16. Owners'
  <2>1. \A x \in Mappings : subscribed'[x] # None => owner'[subscribed'[x]] = x
    <3>1. \A x \in Mappings \ {m} : subscribed[x] # None => subscribed[x] \in Live \ {o}
      BY <1>2, <1>9 DEF TypeOK, Live
    <3>2. QED
      BY <1>6, <1>7, <3>1 DEF IInv, Owners
  <2>2. \A x \in Live : x \notin Bound' => x \notin Bound /\ x # o
    BY <1>5, <1>7 DEF Bound
  <2>3. ASSUME NEW x \in Live, x \notin Bound'
        PROVE  subs'[x] = {} /\ \A q \in Threads : job'[q] # Free => ~ Has(job'[q], x)
    BY <1>2, <1>4, <1>11, <2>2, <2>3 DEF IInv, Owners
  <2>4. QED
    BY <2>1, <2>3 DEF Owners
<1>17. ClosedOnce'
  <2>1. \A q \in Threads : Closing(job'[q]) => q # p /\ job'[q] = job[q] /\ Closing(job[q])
    BY <1>4, <1>11
  <2>2. ASSUME NEW q \in Threads, Closing(job'[q]), NEW x \in Live, Has(job'[q], x)
        PROVE  /\ ~ Current(x)'
               /\ \A r \in Threads : Closing(job'[r]) /\ Has(job'[r], x) => q = r
    <3>1. Closing(job[q]) /\ Has(job[q], x) /\ job[q] # Free
      BY <2>1, <2>2 DEF Closing
    <3>2. x # o
      BY <1>5, <3>1
    <3>3. ~ Current(x) /\ \A r \in Threads : Closing(job[r]) /\ Has(job[r], x) => q = r
      BY <3>1 DEF IInv, ClosedOnce
    <3>4. QED
      BY <1>12, <2>1, <3>2, <3>3
  <2>3. QED
    BY <2>2 DEF ClosedOnce
<1>18. Alone'
  <2>1. ASSUME NEW q \in Threads, NEW x \in Live, Activating(job'[q]), job'[q].obj = x,
               x \notin tangled'
        PROVE  /\ subs'[x] = {} /\ Current(x)'
               /\ \A r \in Threads : Activating(job'[r]) /\ job'[r].obj = x => q = r
    <3>1. CASE q = p
      <4>1. k # Free /\ x = o
        BY <1>3, <1>4, <2>1, <3>1 DEF Activating
      <4>2. \A r \in Threads \ {p} : ~ (Activating(job[r]) /\ job[r].obj = o)
        BY <1>5 DEF Activating, Has
      <4>3. subs'[x] = {}
        BY <1>2, <1>5, <4>1
      <4>4. Current(x)'
        BY <1>6, <4>1 DEF Current
      <4>5. \A r \in Threads : Activating(job'[r]) /\ job'[r].obj = x => q = r
        BY <1>4, <3>1, <4>1, <4>2
      <4>6. QED
        BY <4>3, <4>4, <4>5
    <3>2. CASE q # p
      <4>1. job'[q] = job[q] /\ Activating(job[q]) /\ job[q].obj = x /\ x \notin tangled
        BY <1>4, <1>8, <2>1, <3>2
      <4>2. /\ subs[x] = {} /\ Current(x)
            /\ \A r \in Threads : Activating(job[r]) /\ job[r].obj = x => q = r
        BY <4>1 DEF IInv, Alone
      <4>3. x # o
        BY <1>5, <4>1 DEF Activating, Has
      <4>4. Current(x)' /\ subs'[x] = {}
        BY <1>2, <1>12, <2>1, <4>2
      <4>5. \A r \in Threads : Activating(job'[r]) /\ job'[r].obj = x => q = r
        <5>1. ~ (Activating(k) /\ k.obj = x)
          BY <1>3, <4>3 DEF Activating
        <5>2. QED
          BY <1>4, <4>2, <5>1
      <4>6. QED
        BY <4>4, <4>5
    <3>3. QED
      BY <3>1, <3>2
  <2>2. \A q \in Threads : Activating(job'[q]) => job'[q].obj \in Live
    BY <1>15 DEF Shapes, Shape, Activating
  <2>3. QED
    BY <2>1, <2>2 DEF Alone, Current
<1>19. Sought'
  <2>1. ASSUME known, NEW x \in Mappings, subscribed'[x] # None
        PROVE  \/ subs[subscribed'[x]] # {} \/ subscribed'[x] \in refused
               \/ \E q \in Threads : Seeking(job'[q]) /\ Has(job'[q], subscribed'[x])
    <3>1. CASE x = m
      BY <1>3, <1>4, <1>6, <1>11, <2>1, <3>1
    <3>2. CASE x # m
      <4>1. subscribed'[x] = subscribed[x]
        BY <1>6, <3>2
      <4>2. \A q \in Threads : Seeking(job[q]) => job'[q] = job[q]
        BY <1>4, <1>11
      <4>3. QED
        BY <2>1, <4>1, <4>2 DEF IInv, Sought
    <3>3. QED
      BY <3>1, <3>2
  <2>2. QED
    BY <1>2, <2>1 DEF Sought
<1>20. QED
  BY <1>10, <1>15, <1>16, <1>17, <1>18, <1>19 DEF IInv

\* Objects leave p.subscribed, and the goroutine that took them out goes on to close
\* them: what they have recorded stays on record, as the list of that goroutine.
LEMMA DropKeeps ==
  ASSUME IInv, NEW p \in Threads, NEW dropped \in SUBSET Live, job[p] = Free,
         \A x \in dropped : Current(x), Drop(p, dropped),
         UNCHANGED <<broker, known, owner, subs, lists, refused>>,
         closed' \in BOOLEAN, requests' \in 0..MaxRequests
  PROVE  IInv'
<1>1. TypeOK
  BY DEF IInv
<1>2. PICK k \in Job \cup {Free} :
        /\ job' = [job EXCEPT ![p] = k]
        /\ k # Free /\ k.pc = "read" /\ k.obj = None /\ k.rest = dropped /\ k.at = 1 /\ k.got = {}
  <2>1. None \in Objs
    BY MqttPluginAssumption
  <2> DEFINE b == Begin("read", None, dropped)
  <2>2. /\ b \in Job /\ b # Free /\ b.pc = "read" /\ b.obj = None /\ b.rest = dropped
        /\ b.at = 1 /\ b.got = {}
    BY <2>1, BeginFacts
  <2>3. job' = [job EXCEPT ![p] = b]
    BY DEF Drop
  <2> HIDE DEF b
  <2>4. QED
    BY <2>2, <2>3
<1>3. /\ job' \in [Threads -> Job \cup {Free}] /\ job'[p] = k
      /\ \A q \in Threads \ {p} : job'[q] = job[q]
  BY <1>1, <1>2, JobStep
<1>4. /\ subscribed' \in [Mappings -> Objs]
      /\ \A m \in Mappings : /\ subscribed[m] \in dropped => subscribed'[m] = None
                             /\ subscribed[m] \notin dropped => subscribed'[m] = subscribed[m]
  BY <1>1, MqttPluginAssumption DEF Drop, TypeOK
<1>5. /\ tangled \subseteq tangled' /\ tangled' \subseteq Live
      /\ \A x \in dropped : At(x) # {} => x \in tangled'
  BY <1>1 DEF Drop, TypeOK
<1>6. TypeOK'
  BY <1>1, <1>3, <1>4, <1>5 DEF TypeOK, BrokerTypeOK, broker
<1>7. /\ Closing(k) /\ ~ Seeking(k) /\ ~ Activating(k) /\ Shape(k)
      /\ ~ Closing(job[p]) /\ ~ Seeking(job[p]) /\ ~ Activating(job[p])
      /\ \A x \in Live : Has(k, x) <=> x \in dropped
  <2>1. /\ Closing(k) /\ ~ Seeking(k) /\ ~ Activating(k)
        /\ ~ Closing(job[p]) /\ ~ Seeking(job[p]) /\ ~ Activating(job[p])
    BY <1>2 DEF Closing, Seeking, Activating
  <2>2. Shape(k)
    BY <1>2, <2>1, JobFacts DEF Shape
  <2>3. \A x \in Live : Has(k, x) <=> x \in dropped
    BY <1>2, JobFacts DEF Has
  <2>4. QED
    BY <2>1, <2>2, <2>3
<1>8. \A x \in Live : Current(x)' <=> Current(x) /\ x \notin dropped
  BY <1>4, JobFacts DEF Current
<1>9. \A x \in Live : ToBeClosed(x)' <=> ToBeClosed(x) \/ x \in dropped
  BY <1>2, <1>3, <1>7 DEF ToBeClosed
<1>10. Shapes' /\ Counted' /\ Tried' /\ Served' /\ Dialled'
  <2>1. \A t \in Topics, x \in Live : OnRecord(t, x)' <=> OnRecord(t, x)
    BY <1>8, <1>9 DEF OnRecord
  <2>2. k.pc \in {"next", "append", "read"}
    BY <1>2
  <2>3. QED
    BY <1>2, <1>5, <1>6, <1>7, <2>1, <2>2, BeginKeeps
<1>11. Owners'
  <2>1. Bound' = Bound
    BY DEF Bound
  <2>2. dropped \subseteq Bound
    <3>1. ASSUME NEW x \in dropped PROVE owner[x] # None
      <4>1. PICK m \in Mappings : subscribed[m] = x
        BY DEF Current
      <4>2. owner[x] = m /\ m # None
        BY <4>1, JobFacts, MqttPluginAssumption DEF IInv, Owners
      <4>3. QED
        BY <4>2
    <3>2. QED
      BY <3>1 DEF Bound
  <2>3. ASSUME NEW x \in Live \ Bound, NEW q \in Threads, job'[q] # Free, Has(job'[q], x)
        PROVE  FALSE
    BY <1>3, <1>7, <2>2, <2>3 DEF IInv, Owners
  <2>4. QED
    BY <1>4, <2>1, <2>3 DEF IInv, Owners
<1>12. ClosedOnce'
  <2>1. ASSUME NEW q \in Threads, Closing(job'[q]), NEW x \in Live, Has(job'[q], x)
        PROVE  /\ ~ Current(x)'
               /\ \A r \in Threads : Closing(job'[r]) /\ Has(job'[r], x) => q = r
    <3>1. \A r \in Threads \ {p} : Closing(job[r]) /\ Has(job[r], x) => x \notin dropped
      BY DEF IInv, ClosedOnce
    <3>2. CASE q = p
      BY <1>3, <1>7, <1>8, <2>1, <3>1, <3>2
    <3>3. CASE q # p
      <4>1. Closing(job[q]) /\ Has(job[q], x) /\ x \notin dropped
        BY <1>3, <2>1, <3>1, <3>3
      <4>2. ~ Current(x) /\ \A r \in Threads : Closing(job[r]) /\ Has(job[r], x) => q = r
        BY <4>1 DEF IInv, ClosedOnce
      <4>3. QED
        BY <1>3, <1>7, <1>8, <4>1, <4>2
    <3>4. QED
      BY <3>2, <3>3
  <2>2. QED
    BY <2>1 DEF ClosedOnce
<1>13. Alone'
  <2>1. ASSUME NEW q \in Threads, NEW x \in Live, Activating(job'[q]), job'[q].obj = x,
               x \notin tangled'
        PROVE  /\ subs'[x] = {} /\ Current(x)'
               /\ \A r \in Threads : Activating(job'[r]) /\ job'[r].obj = x => q = r
    <3>1. q # p /\ job'[q] = job[q] /\ Activating(job[q]) /\ job[q].obj = x /\ x \notin tangled
      BY <1>3, <1>5, <1>7, <2>1
    <3>2. /\ subs[x] = {} /\ Current(x)
          /\ \A r \in Threads : Activating(job[r]) /\ job[r].obj = x => q = r
      BY <3>1 DEF IInv, Alone
    <3>3. q \in At(x)
      BY <3>1 DEF At, Activating
    <3>4. Current(x)'
      BY <1>5, <1>8, <2>1, <3>2, <3>3
    <3>5. QED
      BY <1>3, <1>7, <3>2, <3>4
  <2>2. \A q \in Threads : Activating(job'[q]) => job'[q].obj \in Live
    BY <1>10 DEF Shapes, Shape, Activating
  <2>3. QED
    BY <2>1, <2>2 DEF Alone, Current
<1>14. Sought'
  <2>1. \A q \in Threads : Seeking(job[q]) => job'[q] = job[q]
    BY <1>3, <1>7
  <2>2. \A m \in Mappings : subscribed'[m] # None => subscribed'[m] = subscribed[m]
    BY <1>4
  <2>3. QED
    BY <2>1, <2>2 DEF IInv, Sought
<1>15. QED
  BY <1>6, <1>10, <1>11, <1>12, <1>13, <1>14 DEF IInv

\* Unsubscribe drops the object of its mapping.
LEMMA UnsubscribeKeeps ==
  ASSUME IInv, NEW p \in Threads, NEW m \in Mappings, Unsubscribe(p, m),
         requests' \in 0..MaxRequests
  PROVE  IInv'
<1>1. TypeOK
  BY DEF IInv
<1>2. {subscribed[m]} \in SUBSET Live /\ \A x \in {subscribed[m]} : Current(x)
  BY <1>1 DEF Unsubscribe, TypeOK, Live, Current
<1>3. /\ job[p] = Free /\ Drop(p, {subscribed[m]})
      /\ UNCHANGED <<broker, closed, known, owner, subs, lists, refused>>
  BY DEF Unsubscribe
<1>4. closed' \in BOOLEAN
  BY <1>1, <1>3 DEF TypeOK
<1>5. QED
  BY <1>2, <1>3, <1>4, DropKeeps

\* Close drops the objects of all mappings.
LEMMA CloseKeeps ==
  ASSUME IInv, NEW p \in Threads, Close(p), requests' \in 0..MaxRequests
  PROVE  IInv'
<1> DEFINE all == {subscribed[m] : m \in Mappings} \ {None}
<1>1. TypeOK
  BY DEF IInv
<1>2. all \in SUBSET Live /\ \A x \in all : Current(x)
  BY <1>1 DEF TypeOK, Live, Current
<1>3. /\ job[p] = Free /\ Drop(p, all) /\ closed' \in BOOLEAN
      /\ UNCHANGED <<broker, known, owner, subs, lists, refused>>
  BY DEF Close
<1> HIDE DEF all
<1>4. QED
  BY <1>2, <1>3, DropKeeps

\* A discovery message names the device, and puts what waits for it on a list.
LEMMA OnDevicesKeeps ==
  ASSUME IInv, NEW p \in Threads, NEW listed \in BOOLEAN, OnDevices(p, listed),
         UNCHANGED requests
  PROVE  IInv'
<1>1. /\ job[p] = Free /\ TypeOK /\ known' = listed /\ lists' \in 0..MaxLists
      /\ UNCHANGED <<broker, closed, subscribed, owner, subs, tangled, refused>>
  BY MqttPluginAssumption DEF OnDevices, IInv, TypeOK
<1>2. PICK k \in Job \cup {Free} :
        /\ job' = [job EXCEPT ![p] = k]
        /\ listed => k # Free
        /\ k # Free => /\ k.pc = "next" /\ k.obj = None /\ k.rest = Pending /\ k.at = 1
                       /\ k.got = {}
  <2>1. CASE listed
    <3>1. None \in Objs /\ Pending \in SUBSET Live
      BY MqttPluginAssumption DEF Pending
    <3> DEFINE b == Begin("next", None, Pending)
    <3>2. job' = [job EXCEPT ![p] = b]
      BY <2>1 DEF OnDevices
    <3>3. /\ b \in Job /\ b # Free /\ b.pc = "next" /\ b.obj = None /\ b.rest = Pending
          /\ b.at = 1 /\ b.got = {}
      BY <3>1, BeginFacts
    <3> HIDE DEF b
    <3>4. QED
      BY <3>2, <3>3
  <2>2. CASE ~ listed
    <3>1. job' = [job EXCEPT ![p] = Free]
      BY <1>1, <2>2 DEF OnDevices, TypeOK
    <3>2. QED
      BY <2>2, <3>1
  <2>3. QED
    BY <2>1, <2>2
<1>3. /\ job' \in [Threads -> Job \cup {Free}] /\ job'[p] = k
      /\ \A q \in Threads \ {p} : job'[q] = job[q]
  BY <1>1, <1>2, JobStep
<1>4. TypeOK'
  BY <1>1, <1>3 DEF TypeOK, BrokerTypeOK, broker
<1>5. /\ ~ Closing(k) /\ ~ Activating(k) /\ (k # Free => Shape(k) /\ Seeking(k))
      /\ ~ Closing(job[p]) /\ ~ Seeking(job[p]) /\ ~ Activating(job[p])
      /\ k # Free => \A x \in Live : Has(k, x) <=> x \in Pending
  <2>1. /\ ~ Closing(k) /\ ~ Activating(k) /\ (k # Free => Seeking(k))
        /\ ~ Closing(job[p]) /\ ~ Seeking(job[p]) /\ ~ Activating(job[p])
    BY <1>1, <1>2 DEF Closing, Activating, Seeking
  <2>2. k # Free => Shape(k)
    BY <1>2, <2>1, JobFacts DEF Shape, Pending
  <2>3. k # Free => \A x \in Live : Has(k, x) <=> x \in Pending
    BY <1>2, JobFacts DEF Has
  <2>4. QED
    BY <2>1, <2>2, <2>3
<1>6. /\ \A x : Current(x)' <=> Current(x)
      /\ \A x : ToBeClosed(x)' <=> ToBeClosed(x)
  BY <1>1, <1>3, <1>5 DEF Current, ToBeClosed
<1>7. Shapes' /\ Counted' /\ Tried' /\ Served' /\ Dialled'
  <2>1. \A t \in Topics, x \in Live : OnRecord(t, x)' <=> OnRecord(t, x)
    BY <1>1, <1>6 DEF OnRecord
  <2>2. k # Free => k.pc \in {"next", "append", "read"}
    BY <1>2
  <2>3. QED
    BY <1>1, <1>2, <1>4, <1>5, <2>1, <2>2, BeginKeeps
<1>8. Owners'
  <2>1. Bound' = Bound
    BY <1>1 DEF Bound
  <2>2. Pending \subseteq Bound
    <3>1. ASSUME NEW x \in Pending PROVE owner[x] # None /\ x \in Live
      <4>1. PICK m \in Mappings : subscribed[m] = x
        BY DEF Pending
      <4>2. x \in Live /\ owner[x] = m /\ m # None
        BY <4>1, JobFacts, MqttPluginAssumption DEF IInv, Owners, Pending
      <4>3. QED
        BY <4>2
    <3>2. QED
      BY <3>1 DEF Bound
  <2>3. ASSUME NEW x \in Live \ Bound, NEW q \in Threads, job'[q] # Free, Has(job'[q], x)
        PROVE  FALSE
    BY <1>3, <1>5, <2>2, <2>3 DEF IInv, Owners
  <2>4. QED
    BY <1>1, <2>1, <2>3 DEF IInv, Owners
<1>9. ClosedOnce'
  <2>1. \A q \in Threads : Closing(job'[q]) => job'[q] = job[q]
    BY <1>3, <1>5
  <2>2. QED
    BY <1>6, <2>1 DEF IInv, ClosedOnce
<1>10. Alone'
  <2>1. \A q \in Threads : Activating(job'[q]) => job'[q] = job[q]
    BY <1>3, <1>5
  <2>2. QED
    BY <1>1, <1>6, <2>1 DEF IInv, Alone
<1>11. Sought'
  <2>1. ASSUME listed, NEW m \in Mappings, subscribed[m] # None, subs[subscribed[m]] = {}
        PROVE  Seeking(job'[p]) /\ Has(job'[p], subscribed[m])
    <3>1. subscribed[m] \in Pending
      BY <1>1, <2>1 DEF Pending, TypeOK, Live
    <3>2. subscribed[m] \in Live
      BY <3>1 DEF Pending
    <3>3. QED
      BY <1>2, <1>3, <1>5, <2>1, <3>1, <3>2
  <2>2. QED
    BY <1>1, <2>1 DEF Sought
<1>12. QED
  BY <1>4, <1>7, <1>8, <1>9, <1>10, <1>11 DEF IInv

-----------------------------------------------------------------------------
(* The connection *)

\* The steps of the connection leave the plugin and the handlers alone.
LEMMA PluginRests ==
  ASSUME IInv, UNCHANGED <<plugin, requests, job>>, topicSubs' = topicSubs, BrokerTypeOK'
  PROVE  TypeOK' /\ Shapes' /\ Owners' /\ ClosedOnce' /\ Alone' /\ Counted' /\ Tried' /\ Sought'
<1>1. TypeOK'
  BY DEF IInv, TypeOK, plugin
<1>2. Shapes' /\ Tried' /\ Sought'
  BY DEF IInv, Shapes, Tried, Sought, plugin
<1>3. Owners'
  BY DEF IInv, Owners, Bound, plugin
<1>4. ClosedOnce' /\ Alone'
  BY DEF IInv, ClosedOnce, Alone, Current, plugin
<1>5. Counted'
  BY DEF IInv, Counted, Holders, OnRecord, Current, ToBeClosed, plugin
<1>6. QED
  BY <1>1, <1>2, <1>3, <1>4, <1>5

\* A connection is made: its connect handler will install every topic.
LEMMA LinkUpKeeps ==
  ASSUME IInv, LinkUp, UNCHANGED <<plugin, requests, job>>
  PROVE  IInv'
<1>1. PICK k \in Connections :
        /\ ~ link /\ onConnect[k].pc = "none" /\ \A j \in 1..(k - 1) : onConnect[j].pc # "none"
        /\ link' = TRUE
        /\ onConnect' = [onConnect EXCEPT ![k].pc = "due"]
        /\ failed' = {} /\ released' = {}
        /\ UNCHANGED <<connected, topicSubs, installed, lost, fails>>
  BY DEF LinkUp
<1>2. BrokerTypeOK
  BY DEF IInv, TypeOK
<1>3. /\ onConnect'[k].pc = "due"
      /\ \A j \in Connections \ {k} : onConnect'[j] = onConnect[j]
      /\ onConnect' \in [Connections -> [pc : {"none", "due", "installing", "done"},
                                         todo : SUBSET Topics]]
  BY <1>1, <1>2 DEF BrokerTypeOK
<1>4. BrokerTypeOK'
  BY <1>1, <1>2, <1>3 DEF BrokerTypeOK
<1>5. Served'
  BY <1>3 DEF Served, Installing
<1>6. Dialled'
  <2>1. PICK n \in 0..MaxConnects : /\ \A j \in Connections : onConnect[j].pc = "none" <=> j > n
                                    /\ lost + Bit(link) <= n
    BY DEF IInv, Dialled
  <2>2. k \in Nat /\ n \in Nat /\ MaxConnects \in Nat /\ 1 <= k /\ k <= MaxConnects /\ lost \in Nat
    BY <1>2, MqttBrokerAssumption DEF Connections, BrokerTypeOK
  <2>3. k = n + 1
    <3>1. k > n
      BY <1>1, <2>1
    <3>2. ASSUME k > n + 1 PROVE FALSE
      <4>1. n + 1 \in 1..(k - 1) /\ n + 1 \in Connections
        BY <2>2, <3>2 DEF Connections
      <4>2. QED
        BY <1>1, <2>1, <2>2, <4>1
    <3>3. QED
      BY <2>2, <3>1, <3>2
  <2>4. \A j \in Connections : onConnect'[j].pc = "none" <=> j > k
    <3>1. \A j \in Connections : j \in Nat
      BY DEF Connections
    <3>2. QED
      BY <1>3, <2>1, <2>2, <2>3, <3>1
  <2>5. lost' + Bit(link') <= k
    BY <1>1, <2>1, <2>2, <2>3 DEF Bit
  <2>6. k \in 0..MaxConnects
    BY <2>2
  <2>7. QED
    BY <2>4, <2>5, <2>6 DEF Dialled
<1>7. QED
  BY <1>1, <1>4, <1>5, <1>6, PluginRests DEF IInv

\* The connection breaks, and takes the server's subscriptions along.
LEMMA LinkDownKeeps ==
  ASSUME IInv, LinkDown, UNCHANGED <<plugin, requests, job>>
  PROVE  IInv'
<1>1. BrokerTypeOK
  BY DEF IInv, TypeOK
<1>2. PICK n \in 0..MaxConnects : /\ \A j \in Connections : onConnect[j].pc = "none" <=> j > n
                                  /\ lost + Bit(link) <= n
  BY DEF IInv, Dialled
<1>3. /\ lost \in Nat /\ MaxConnects \in Nat /\ link /\ link' = FALSE /\ lost' = lost + 1
      /\ installed' = {}
      /\ UNCHANGED <<connected, topicSubs, onConnect, fails, failed, released>>
  BY <1>1, MqttBrokerAssumption DEF LinkDown, BrokerTypeOK
<1>4. lost' <= n /\ lost' + Bit(link') <= n
  BY <1>2, <1>3 DEF Bit
<1>5. BrokerTypeOK'
  <2>1. lost' \in 0..MaxConnects
    <3>1. n \in Nat /\ n <= MaxConnects
      BY <1>3
    <3>2. QED
      BY <1>3, <1>4, <3>1
  <2>2. QED
    BY <1>1, <1>3, <2>1 DEF BrokerTypeOK
<1>6. Served'
  BY <1>3 DEF Served
<1>7. Dialled'
  BY <1>2, <1>3, <1>4 DEF Dialled
<1>8. QED
  BY <1>3, <1>5, <1>6, <1>7, PluginRests DEF IInv

\* The broker learns of it.
LEMMA ConnectionLostKeeps ==
  ASSUME IInv, ConnectionLost, UNCHANGED <<plugin, requests, job>>
  PROVE  IInv'
<1>1. BrokerTypeOK
  BY DEF IInv, TypeOK
<1>2. /\ lost \in Nat /\ MaxConnects \in Nat /\ lost' \in Nat /\ lost' <= lost /\ ~ connected'
      /\ UNCHANGED <<link, topicSubs, installed, onConnect, fails, failed, released>>
  BY <1>1, MqttBrokerAssumption DEF ConnectionLost, BrokerTypeOK
<1>3. BrokerTypeOK'
  <2>1. lost <= MaxConnects
    BY <1>1, <1>2 DEF BrokerTypeOK
  <2>2. lost' \in 0..MaxConnects
    BY <1>2, <2>1
  <2>3. connected' \in BOOLEAN
    BY DEF ConnectionLost
  <2>4. QED
    BY <1>1, <1>2, <2>2, <2>3 DEF BrokerTypeOK
<1>4. Served'
  BY <1>2 DEF Served
<1>5. Dialled'
  <2>1. PICK n \in 0..MaxConnects : /\ \A j \in Connections : onConnect[j].pc = "none" <=> j > n
                                    /\ lost + Bit(link) <= n
    BY DEF IInv, Dialled
  <2>2. lost' + Bit(link') <= n
    <3>1. Bit(link') = Bit(link) /\ Bit(link) \in Nat /\ n \in Nat
      BY <1>2, <2>1 DEF Bit
    <3>2. QED
      BY <1>2, <2>1, <3>1
  <2>3. QED
    BY <1>2, <2>1, <2>2 DEF Dialled
<1>6. QED
  BY <1>2, <1>3, <1>4, <1>5, PluginRests DEF IInv

\* The connect handler takes down every topic that has a listener.
LEMMA OnConnectKeeps ==
  ASSUME IInv, NEW k \in Connections, OnConnect(k), UNCHANGED <<plugin, requests, job>>
  PROVE  IInv'
<1>1. BrokerTypeOK
  BY DEF IInv, TypeOK
<1>2. /\ onConnect[k].pc = "due" /\ connected'
      /\ onConnect' = [onConnect EXCEPT ![k] = [pc |-> "installing", todo |-> ToResubscribe]]
      /\ UNCHANGED <<link, topicSubs, installed, lost, fails, failed, released>>
  BY DEF OnConnect
<1>3. /\ onConnect'[k].pc = "installing" /\ onConnect'[k].todo = ToResubscribe
      /\ \A j \in Connections \ {k} : onConnect'[j] = onConnect[j]
      /\ onConnect' \in [Connections -> [pc : {"none", "due", "installing", "done"},
                                         todo : SUBSET Topics]]
  BY <1>1, <1>2 DEF BrokerTypeOK, ToResubscribe
<1>4. BrokerTypeOK'
  BY <1>1, <1>2, <1>3 DEF BrokerTypeOK
<1>5. Served'
  <2>1. \A t \in Topics : Heard(t)' => t \in ToResubscribe
    BY <1>2 DEF Heard, ToResubscribe
  <2>2. QED
    BY <1>3, <2>1 DEF Served, Installing
<1>6. Dialled'
  <2>1. \A j \in Connections : onConnect'[j].pc = "none" <=> onConnect[j].pc = "none"
    BY <1>2, <1>3
  <2>2. QED
    BY <1>2, <2>1 DEF IInv, Dialled
<1>7. QED
  BY <1>2, <1>4, <1>5, <1>6, PluginRests DEF IInv

\* The connect handler installs the topics one after the other.
LEMMA ResubscribeKeeps ==
  ASSUME IInv, NEW k \in Connections, Resubscribe(k), UNCHANGED <<plugin, requests, job>>
  PROVE  IInv'
<1>1. BrokerTypeOK
  BY DEF IInv, TypeOK
<1>2. /\ onConnect[k].pc = "installing"
      /\ UNCHANGED <<link, connected, topicSubs, lost, released>>
  BY DEF Resubscribe
<1>3. /\ \A pc, todo : /\ [onConnect[k] EXCEPT !.todo = todo] = [pc |-> "installing", todo |-> todo]
                    /\ [onConnect[k] EXCEPT !.pc = pc] = [pc |-> pc, todo |-> onConnect[k].todo]
  BY <1>1, <1>2 DEF BrokerTypeOK
<1>4. PICK done \in SUBSET onConnect[k].todo, pc \in {"installing", "done"} :
        /\ onConnect' = [onConnect EXCEPT ![k] = [pc |-> pc, todo |-> onConnect[k].todo \ done]]
        /\ pc = "done" => onConnect[k].todo = {}
        /\ done \subseteq installed' \cup failed'
        /\ installed \subseteq installed' /\ failed \subseteq failed'
        /\ installed' \subseteq Topics /\ failed' \subseteq Topics /\ fails' \in 0..MaxFails
  <2>1. ASSUME NEW t \in onConnect[k].todo,
               onConnect' = [onConnect EXCEPT ![k].todo = onConnect[k].todo \ {t}],
               InstallOK(t) \/ InstallFails(t)
        PROVE  /\ onConnect' = [onConnect EXCEPT ![k] = [pc |-> "installing",
                                                         todo |-> onConnect[k].todo \ {t}]]
               /\ {t} \subseteq installed' \cup failed'
               /\ installed \subseteq installed' /\ failed \subseteq failed'
               /\ installed' \subseteq Topics /\ failed' \subseteq Topics
               /\ fails' \in 0..MaxFails
    <3>1. t \in Topics
      BY <1>1, <2>1 DEF BrokerTypeOK
    <3>2. onConnect' = [onConnect EXCEPT ![k] = [pc |-> "installing",
                                                 todo |-> onConnect[k].todo \ {t}]]
      BY <1>3, <2>1
    <3>3. CASE InstallOK(t)
      BY <1>1, <3>1, <3>2, <3>3 DEF InstallOK, BrokerTypeOK
    <3>4. CASE InstallFails(t)
      BY <1>1, <3>1, <3>2, <3>4, MqttBrokerAssumption DEF InstallFails, BrokerTypeOK
    <3>5. QED
      BY <2>1, <3>3, <3>4
  <2>2. ASSUME onConnect[k].todo = {}, onConnect' = [onConnect EXCEPT ![k].pc = "done"],
               UNCHANGED <<installed, fails, failed>>
        PROVE  /\ onConnect' = [onConnect EXCEPT ![k] = [pc |-> "done",
                                                         todo |-> onConnect[k].todo \ {}]]
               /\ installed' \subseteq Topics /\ failed' \subseteq Topics
               /\ fails' \in 0..MaxFails
    <3>1. onConnect' = [onConnect EXCEPT ![k] = [pc |-> "done",
                                                 todo |-> onConnect[k].todo \ {}]]
      BY <1>3, <2>2
    <3>2. QED
      BY <1>1, <2>2, <3>1 DEF BrokerTypeOK
  <2>3. \/ \E t \in onConnect[k].todo :
             /\ onConnect' = [onConnect EXCEPT ![k].todo = onConnect[k].todo \ {t}]
             /\ InstallOK(t) \/ InstallFails(t)
        \/ /\ onConnect[k].todo = {}
           /\ onConnect' = [onConnect EXCEPT ![k].pc = "done"]
           /\ UNCHANGED <<installed, fails, failed>>
    BY DEF Resubscribe
  <2>4. CASE \E t \in onConnect[k].todo :
               /\ onConnect' = [onConnect EXCEPT ![k].todo = onConnect[k].todo \ {t}]
               /\ InstallOK(t) \/ InstallFails(t)
    <3>1. PICK t \in onConnect[k].todo :
            /\ onConnect' = [onConnect EXCEPT ![k].todo = onConnect[k].todo \ {t}]
            /\ InstallOK(t) \/ InstallFails(t)
      BY <2>4
    <3>2. {t} \in SUBSET onConnect[k].todo
      OBVIOUS
    <3>3. QED
      BY <2>1, <3>1, <3>2
  <2>5. CASE /\ onConnect[k].todo = {}
             /\ onConnect' = [onConnect EXCEPT ![k].pc = "done"]
             /\ UNCHANGED <<installed, fails, failed>>
    <3>1. {} \in SUBSET onConnect[k].todo /\ {} \subseteq installed' \cup failed'
      OBVIOUS
    <3>2. QED
      BY <2>2, <2>5, <3>1
  <2>6. QED
    BY <2>3, <2>4, <2>5
<1>5. /\ onConnect'[k].pc = pc /\ onConnect'[k].todo = onConnect[k].todo \ done
      /\ \A j \in Connections \ {k} : onConnect'[j] = onConnect[j]
      /\ onConnect' \in [Connections -> [pc : {"none", "due", "installing", "done"},
                                         todo : SUBSET Topics]]
  BY <1>1, <1>4 DEF BrokerTypeOK
<1>6. BrokerTypeOK'
  BY <1>1, <1>2, <1>4, <1>5 DEF BrokerTypeOK
<1>7. Served'
  <2>1. ASSUME NEW t \in Topics, Installing(t) PROVE Installing(t)' \/ t \in done
    <3>1. CASE \E p \in Threads : job[p] # Free /\ job[p].pc = "install" /\ Topic(p) = t
      BY <3>1 DEF Installing, Topic
    <3>2. CASE \E j \in Connections \ {k} :
                 \/ onConnect[j].pc = "due"
                 \/ onConnect[j].pc = "installing" /\ t \in onConnect[j].todo
      BY <1>5, <3>2 DEF Installing
    <3>3. CASE t \in onConnect[k].todo
      <4>1. pc = "installing"
        BY <1>4, <3>3
      <4>2. QED
        BY <1>5, <3>3, <4>1 DEF Installing
    <3>4. QED
      BY <1>2, <2>1, <3>1, <3>2, <3>3 DEF Installing
  <2>2. \A t : Heard(t)' <=> Heard(t)
    BY <1>2 DEF Heard
  <2>3. QED
    BY <1>2, <1>4, <2>1, <2>2 DEF IInv, Served
<1>8. Dialled'
  <2>1. \A j \in Connections : onConnect'[j].pc = "none" <=> onConnect[j].pc = "none"
    BY <1>2, <1>5
  <2>2. QED
    BY <1>2, <2>1 DEF IInv, Dialled
<1>9. QED
  BY <1>2, <1>6, <1>7, <1>8, PluginRests DEF IInv

-----------------------------------------------------------------------------
(* The theorems *)

\* The invariant holds at the start.
LEMMA InitHolds == Init => IInv
<1> SUFFICES ASSUME Init PROVE IInv
  OBVIOUS
<1>1. /\ \A p \in Threads : job[p] = Free
      /\ \A o \in Live : owner[o] = None /\ subs[o] = {}
      /\ \A m \in Mappings : subscribed[m] = None
      /\ \A t \in Topics, o \in Objs : topicSubs[t][o] = 0
      /\ ~ known /\ ~ link /\ lost = 0
  BY DEF Init, BrokerInit, Live
<1>2. /\ \A p \in Threads : /\ ~ Activating(job[p]) /\ ~ Closing(job[p])
                            /\ \A t, o : ~ Holds(job[p], t, o)
  BY <1>1 DEF Activating, Closing, Holds
<1>3. TypeOK
  <2>1. BrokerTypeOK
    <3>1. topicSubs \in [Topics -> [Objs -> Nat]]
      BY DEF Init, BrokerInit
    <3>2. onConnect \in [Connections -> [pc : {"none", "due", "installing", "done"},
                                        todo : SUBSET Topics]]
      BY DEF Init, BrokerInit, NotYet
    <3>3. lost \in 0..MaxConnects /\ fails \in 0..MaxFails
      BY MqttBrokerAssumption DEF Init, BrokerInit
    <3>4. /\ link \in BOOLEAN /\ connected \in BOOLEAN
          /\ installed \subseteq Topics /\ failed \subseteq Topics /\ released \subseteq Topics
      BY DEF Init, BrokerInit
    <3>5. QED
      BY <3>1, <3>2, <3>3, <3>4 DEF BrokerTypeOK
  <2>2. /\ closed \in BOOLEAN /\ known \in BOOLEAN
        /\ lists \in 0..MaxLists /\ requests \in 0..MaxRequests
        /\ tangled \subseteq Live /\ refused \subseteq Live
    <3>1. closed \in BOOLEAN /\ known \in BOOLEAN
      BY DEF Init
    <3>2. lists \in 0..MaxLists /\ requests \in 0..MaxRequests
      BY MqttPluginAssumption DEF Init
    <3>3. tangled \subseteq Live /\ refused \subseteq Live
      BY DEF Init
    <3>4. QED
      BY <3>1, <3>2, <3>3
  <2>3. /\ subscribed \in [Mappings -> Objs] /\ owner \in [Live -> Mappings \cup {None}]
        /\ subs \in [Live -> SUBSET Topics] /\ job \in [Threads -> Job \cup {Free}]
    BY MqttPluginAssumption DEF Init
  <2>4. QED
    BY <2>1, <2>2, <2>3 DEF TypeOK
<1>4. Shapes /\ Owners /\ ClosedOnce /\ Alone /\ Tried /\ Sought
  BY <1>1, <1>2 DEF Shapes, Owners, ClosedOnce, Alone, Tried, Sought
<1>5. Counted
  <2>1. ASSUME NEW t \in Topics, NEW o \in Live
        PROVE  topicSubs[t][o] = Cardinality(Holders(t, o)) + Bit(OnRecord(t, o))
    <3>1. Holders(t, o) = {}
      BY <1>2 DEF Holders
    <3>2. Cardinality(Holders(t, o)) = 0
      BY <3>1, FS_EmptySet
    <3>3. ~ OnRecord(t, o)
      BY <1>1 DEF OnRecord
    <3>4. topicSubs[t][o] = 0
      BY <1>1, JobFacts
    <3>5. QED
      BY <3>2, <3>3, <3>4 DEF Bit
  <2>2. \A t \in Topics, o \in Live : topicSubs[t][o] \in Nat
    BY <1>1, JobFacts
  <2>3. QED
    BY <2>1, <2>2 DEF Counted
<1>6. Served
  BY <1>1 DEF Served
<1>7. Dialled
  <2>1. \A k \in Connections : onConnect[k].pc = "none" /\ k > 0
    BY DEF Init, BrokerInit, NotYet, Connections
  <2>2. lost + Bit(link) <= 0
    BY <1>1 DEF Bit
  <2>3. 0 \in 0..MaxConnects
    BY MqttBrokerAssumption
  <2>4. QED
    BY <2>1, <2>2, <2>3 DEF Dialled
<1>8. QED
  BY <1>3, <1>4, <1>5, <1>6, <1>7 DEF IInv

\* No step breaks it.
LEMMA NextKeeps == IInv /\ [Next]_vars => IInv'
<1> SUFFICES ASSUME IInv, [Next]_vars PROVE IInv'
  OBVIOUS
<1>1. CASE BrokerNext /\ UNCHANGED <<plugin, requests, job>>
  BY <1>1, LinkUpKeeps, LinkDownKeeps, ConnectionLostKeeps, OnConnectKeeps, ResubscribeKeeps
     DEF BrokerNext
<1>2. ASSUME NEW p \in Threads, Work(p), UNCHANGED requests PROVE IInv'
  <2>1. CASE CloseSub(p)
    <3>1. CASE job[p].got = {}
      BY <1>2, <2>1, <3>1, CloseDoneKeeps
    <3>2. CASE job[p].got # {}
      BY <1>2, <2>1, <3>2, CloseOneKeeps
    <3>3. QED
      BY <3>1, <3>2
  <2>2. QED
    BY <1>2, <2>1, TakeKeeps, SubscribeTopicKeeps, InstallTopicKeeps, RollbackKeeps,
       RecordKeeps, ReadSubsKeeps, ReleaseTopicKeeps DEF Work
<1>3. ASSUME NEW p \in Requests, Request(p) PROVE IInv'
  <2>1. p \in Threads /\ requests' \in 0..MaxRequests
    BY <1>3, MqttPluginAssumption DEF Threads, Request, IInv, TypeOK
  <2>2. QED
    BY <1>3, <2>1, CloseKeeps, SubscribeKeeps, UnsubscribeKeeps DEF Request
<1>4. ASSUME NEW p \in Handlers, NEW listed \in BOOLEAN, OnDevices(p, listed),
             UNCHANGED requests
      PROVE  IInv'
  <2>1. p \in Threads
    BY DEF Threads
  <2>2. QED
    BY <1>4, <2>1, OnDevicesKeeps
<1>5. CASE UNCHANGED vars
  <2>1. /\ UNCHANGED <<plugin, requests, job>> /\ UNCHANGED broker
        /\ topicSubs' = topicSubs /\ BrokerTypeOK'
    BY <1>5 DEF vars, broker, IInv, TypeOK, BrokerTypeOK
  <2>2. Served' /\ Dialled'
    BY <2>1, BrokerRests
  <2>3. QED
    BY <2>1, <2>2, PluginRests DEF IInv
<1>6. QED
  BY <1>1, <1>2, <1>3, <1>4, <1>5 DEF Next

\* In every reachable state each handler is in somebody's hands or on record, an object
\* is closed once, and a topic with a listener is held or about to be installed.
THEOREM Invariance == Spec => []IInv
BY InitHolds, NextKeeps, PTL DEF Spec

\* Once the plugin is at rest, every topic with a listener is held by the server, but for
\* a SUBSCRIBE that failed and a release that overtook a new handler: Subscribe, Close
\* and the two handlers of the connection cannot leave a topic to each other.
THEOREM EachTopicIsHeard == Spec => []ListenersAreHeard
<1>1. IInv => ListenersAreHeard
  <2> SUFFICES ASSUME IInv PROVE ListenersAreHeard
    OBVIOUS
  <2>1. ASSUME Quiet, BrokerQuiet, link, connected, NEW t \in Topics, Heard(t)
        PROVE  t \in installed \cup failed \cup released
    <3>1. ~ Installing(t)
      BY <2>1 DEF Quiet, BrokerQuiet, Installing
    <3>2. QED
      BY <2>1, <3>1 DEF IInv, Served
  <2>2. QED
    BY <2>1 DEF ListenersAreHeard, EverySubscriberHears, IInv
<1>2. QED
  BY <1>1, Invariance, PTL

\* A deviceSub that nobody is at work on has one handler on each topic it recorded while
\* it is its mapping's, and none once it is not.
THEOREM HandlersFollowTheRecord == Spec => []HandlersAreOwned
<1>1. IInv => HandlersAreOwned
  <2> SUFFICES ASSUME IInv, NEW o \in Bound, At(o) = {}, o \notin tangled, NEW t \in Topics
               PROVE  topicSubs[t][o] = IF subscribed[owner[o]] = o /\ t \in subs[o] THEN 1 ELSE 0
    BY DEF HandlersAreOwned
  <2>1. o \in Live /\ owner[o] \in Mappings
    BY DEF Bound, IInv, TypeOK
  <2>2. \A p \in Threads : job[p] # Free => ~ Has(job[p], o)
    BY DEF At, Has
  <2>3. Cardinality(Holders(t, o)) = 0
    <3>1. Holders(t, o) = {}
      BY <2>2 DEF Holders, Holds, Has
    <3>2. QED
      BY <3>1, FS_EmptySet
  <2>4. ~ ToBeClosed(o)
    BY <2>2 DEF ToBeClosed, Closing, Has
  <2>5. Current(o) <=> subscribed[owner[o]] = o
    <3>1. \A m \in Mappings : subscribed[m] = o => owner[o] = m
      BY <2>1, JobFacts DEF IInv, Owners
    <3>2. QED
      BY <2>1, <3>1 DEF Current
  <2>6. topicSubs[t][o] = Cardinality(Holders(t, o)) + Bit(OnRecord(t, o))
    BY <2>1 DEF IInv, Counted
  <2>7. OnRecord(t, o) <=> subscribed[owner[o]] = o /\ t \in subs[o]
    BY <2>4, <2>5 DEF OnRecord
  <2>8. QED
    BY <2>3, <2>6, <2>7 DEF Bit
<1>2. QED
  BY <1>1, Invariance, PTL

\* A mapping whose device is known is active once the goroutines are done, unless the
\* broker refused a topic: Subscribe and the discovery message cannot miss each other.
THEOREM KnownDeviceIsActive == Spec => []KnownIsActive
<1>1. IInv => KnownIsActive
  <2>1. Quiet => \A p \in Threads : ~ Seeking(job[p])
    BY DEF Quiet, Seeking
  <2>2. QED
    BY <2>1 DEF IInv, Sought, KnownIsActive
<1>2. QED
  BY <1>1, Invariance, PTL
=============================================================================
