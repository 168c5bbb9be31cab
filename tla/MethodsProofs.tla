----------------------------- MODULE MethodsProofs -----------------------------
(***************************************************************************)
(* Proofs about the handlers of Methods, for any devices, handlers, scene  *)
(* numbers and values: what a request has yet to do is for whom it is      *)
(* meant, a scene call or a setProperty that reports no error has done     *)
(* what it read, both front ends agree, and what was written stays.        *)
(***************************************************************************)
EXTENDS Methods, TLAPS

Works == [how : {"stored", "scene", "level", "property"}, t : DSUIDs, c : Channels, v : Outputs]
Asks == [field : {"localPriority", "transitionTime"}, v : 0..1]
Reads == [t : Targets, work : SUBSET Works]
Snapshots == [t : DSUIDs, values : [Channels -> Outputs \cup {None}]]
Ops == {"none", "scene", "save", "level", "property", "outputState"}
Jobs == [op : Ops, scene : Scenes \cup {0}, asked : SUBSET (Works \cup Asks),
         targets : SUBSET Targets, work : SUBSET Works, saves : SUBSET Snapshots,
         read : SUBSET Reads, state : OutputStates, ok : BOOLEAN,
         meant : SUBSET Devices, clean : SUBSET Devices]

Types ==
    /\ present \subseteq Devices
    /\ chan \in [Devices -> [Channels -> Outputs \cup {None}]]
    /\ out \in [Devices -> [Channels -> Outputs]]
    /\ scenes \in [DSUIDs -> [Scenes -> Entries]]
    /\ ostate \in OutputStates
    /\ job \in [Handlers -> Jobs]
    /\ count \in 0..MaxRequests
    /\ last \in [value : OutputStates, raced : BOOLEAN]

(* Each kind of request has its own local variables.                       *)
JobForm(j) ==
    /\ j.op # "scene" => j.targets = {} /\ j.read = {}
    /\ j.op \in {"none", "save", "outputState"} => j.work = {}
    /\ j.op # "save" => j.saves = {}
    /\ j.op \in {"scene", "save"} => j.scene \in Scenes
    /\ j.op = "property" => j.asked \subseteq Works /\ j.work \subseteq j.asked
    /\ j.op = "outputState" => \E q \in Asks : j.asked = {q}
    /\ \A w \in j.work : w.how = "scene" => w.c = 0

(* What a request has yet to do is for devices it is meant for, and a      *)
(* level only for lights.                                                  *)
JobAddressed(j) ==
    /\ \A t \in j.targets : IF t = Root THEN j.meant = Devices ELSE t.dev \in j.meant
    /\ \A w \in j.work : w.t.dev \in j.meant /\ (w.c = 0 /\ w.how # "stored" => w.t.dev \in Lights)

(* A target is read once, and what was read for a device is for that       *)
(* device, with one value for each channel; what a scene call has yet to   *)
(* do was read for some target, unless the call is for everyone.           *)
JobReads(j) ==
    /\ \A r \in j.read : r.t \notin j.targets
    /\ \A r, q \in j.read : r.t = q.t => r = q
    /\ \A r \in j.read : r.t # Root =>
         \A w \in r.work :
           /\ w.t.dev = r.t.dev /\ w.how \in {"stored", "scene"}
           /\ (w.how = "scene" => w.c = 0 /\ r.work = {w})
           /\ \A x \in r.work : x.c = w.c => x = w
    /\ j.op = "scene" /\ j.read # {} => \A w \in j.work : \E r \in j.read : w \in r.work
    /\ j.op = "scene" /\ j.targets # {} /\ j.read = {} => j.work = {}

(* No other target that was read stands for this one's device too.         *)
Sole(j, r) ==
    /\ r.t # Root /\ r.t.dev \in j.clean /\ r.t.dev \in Lights
    /\ \A q \in j.read : q.t # r.t => q.t.dev \notin {r.t.dev, "root"}

Achieved(r, w) ==
    \/ out[r.t.dev][w.c] = w.v
    \/ w.how = "scene" /\ r.t.dev \in Native /\ out[r.t.dev][0] = Preset

(* What a scene call read for a device that nobody else touched is done or *)
(* yet to do.                                                              *)
CallTakesEffect(h) ==
    job[h].op = "scene" /\ job[h].ok =>
        \A r \in job[h].read : Sole(job[h], r) /\ r.t.dev \in present =>
            \A w \in r.work : w \in job[h].work \/ Achieved(r, w)

(* What a setProperty was asked for is done or yet to do.                  *)
WriteTakesEffect(h) ==
    job[h].op = "property" =>
        /\ \A w, x \in job[h].asked : w.how = "property" /\ w.t = x.t /\ (w.c = x.c => w = x)
        /\ job[h].ok => \A w \in job[h].asked :
             w \in job[h].work \/ (w.t.dev \in job[h].clean => out[w.t.dev][w.c] = w.v)

(* Unless two output-state writes overlapped, at most one is under way and *)
(* has what was last written, with the field it was asked to change.       *)
StateIsLast ==
    ~last.raced =>
        /\ ostate = last.value
        /\ \A g, h \in Handlers :
             job[g].op = "outputState" /\ job[h].op = "outputState" => g = h
        /\ \A h \in Handlers : job[h].op = "outputState" =>
             \E q \in Asks : job[h].asked = {q} /\ job[h].state = WithField(ostate, q.field, q.v)

JobInv(j) == JobForm(j) /\ JobAddressed(j) /\ JobReads(j)

IInv ==
    /\ Types
    /\ \A h \in Handlers : JobInv(job[h]) /\ CallTakesEffect(h) /\ WriteTakesEffect(h)
    /\ StateIsLast

-----------------------------------------------------------------------------
(* Requests.                                                               *)

(* A handler that does nothing has no work.                                *)
LEMMA IdleJob ==
    /\ Idle \in Jobs /\ JobInv(Idle)
    /\ Idle.op = "none" /\ Idle.read = {} /\ Idle.clean = Devices /\ Idle.ok = TRUE
<1>1. Idle \in Jobs
  BY DEF Idle, Jobs, Ops, OutputStates
<1>2. JobForm(Idle)
  BY DEF Idle, JobForm
<1>3. JobAddressed(Idle)
  BY DEF Idle, JobAddressed
<1>4. JobReads(Idle)
  BY DEF Idle, JobReads
<1> QED
  BY <1>1, <1>2, <1>3, <1>4 DEF JobInv, Idle

(* A request that has done a part of its work.                             *)
Further(j, k) ==
    /\ k.op = j.op /\ k.scene = j.scene /\ k.asked = j.asked /\ k.targets = j.targets
    /\ k.read = j.read /\ k.state = j.state /\ k.meant = j.meant
    /\ k.work \subseteq j.work /\ k.saves \subseteq j.saves

(* What is said of a request stays true as its work is done.               *)
LEMMA FurtherKeeps ==
  ASSUME NEW j \in Jobs, NEW k \in Jobs, JobInv(j), Further(j, k)
  PROVE  JobInv(k)
<1>1. JobForm(k)
  BY DEF JobInv, JobForm, Further
<1>2. JobAddressed(k)
  BY DEF JobInv, JobAddressed, Further
<1>3. JobReads(k)
  <2>1. \A r \in k.read : r.t \notin k.targets
    BY DEF JobInv, JobReads, Further
  <2>2. \A r, q \in k.read : r.t = q.t => r = q
    BY DEF JobInv, JobReads, Further
  <2>3. \A r \in k.read : r.t # Root =>
         \A w \in r.work :
           /\ w.t.dev = r.t.dev /\ w.how \in {"stored", "scene"}
           /\ (w.how = "scene" => w.c = 0 /\ r.work = {w})
           /\ \A x \in r.work : x.c = w.c => x = w
    BY DEF JobInv, JobReads, Further
  <2>4. k.op = "scene" /\ k.read # {} => \A w \in k.work : \E r \in k.read : w \in r.work
    BY DEF JobInv, JobReads, Further
  <2>5. k.op = "scene" /\ k.targets # {} /\ k.read = {} => k.work = {}
    BY DEF JobInv, JobReads, Further
  <2> QED
    BY <2>1, <2>2, <2>3, <2>4, <2>5 DEF JobReads
<1> QED
  BY <1>1, <1>2, <1>3 DEF JobInv

(* Touching a device changes nothing but whom the requests know clean.     *)
LEMMA TouchedJobs ==
  ASSUME Types, NEW d
  PROVE  /\ Touched(d) \in [Handlers -> Jobs]
         /\ \A g \in Handlers :
              /\ Further(job[g], Touched(d)[g])
              /\ Touched(d)[g].work = job[g].work /\ Touched(d)[g].ok = job[g].ok
              /\ Touched(d)[g].clean = job[g].clean \ {d}
<1>1. ASSUME NEW g \in Handlers
      PROVE  /\ Touched(d)[g] \in Jobs
             /\ Further(job[g], Touched(d)[g])
             /\ Touched(d)[g].work = job[g].work /\ Touched(d)[g].ok = job[g].ok
             /\ Touched(d)[g].clean = job[g].clean \ {d}
  <2>1. Touched(d)[g] = [job[g] EXCEPT !.clean = job[g].clean \ {d}]
    BY DEF Touched
  <2>2. job[g] \in Jobs
    BY DEF Types
  <2> QED
    BY <2>1, <2>2 DEF Jobs, Further
<1> QED
  BY <1>1 DEF Touched

(* A request that begins.                                                  *)
LEMMA BegunJobs ==
  ASSUME Types, NEW h \in Handlers, NEW j \in Jobs, Begin(h, j)
  PROVE  /\ job' \in [Handlers -> Jobs] /\ count' \in 0..MaxRequests
         /\ job'[h] = j /\ \A g \in Handlers \ {h} : job'[g] = job[g]
BY MethodsAssumption DEF Types, Begin


-----------------------------------------------------------------------------
(* Audiences and work.                                                     *)

(* An audience that reaches a handler names devices, or the root, which    *)
(* stands for all of them.                                                 *)
LEMMA AudienceFacts ==
  ASSUME NEW a \in Audiences
  PROVE  /\ a.all \in BOOLEAN /\ a.targets \subseteq Targets
         /\ Meant(a) \subseteq Devices
         /\ \A t \in a.targets : IF t = Root THEN Meant(a) = Devices ELSE t.dev \in Meant(a)
<1>1. a.all \in BOOLEAN /\ a.targets \subseteq Targets
  <2>1. CASE \E ts \in Lists : a = Only(ts)
    BY <2>1, MethodsAssumption DEF Only, Targets, Root
  <2>2. CASE /\ a \in {resolvePbufNotificationAudience(Params(ts, "absent", Root, TRUE)) :
                          ts \in Lists \cup {{}}}
             /\ a # Refused
    <3>1. PICK ts \in Lists \cup {{}} :
            a = resolvePbufNotificationAudience(Params(ts, "absent", Root, TRUE))
      BY <2>2
    <3>2. a = IF ts # {} THEN Listed(ts) ELSE Everyone
      BY <3>1 DEF resolvePbufNotificationAudience, Params, ByZone
    <3>3. a = Everyone \/ \E us \in SUBSET Targets : a = Only(us)
      <4>1. ts \subseteq Targets
        BY MethodsAssumption DEF Targets, Root
      <4>2. {t \in ts : Addressable(t)} \in SUBSET Targets
        BY <4>1
      <4> QED
        BY <3>2, <2>2, <4>2 DEF Listed
    <3>4. Everyone.all \in BOOLEAN /\ Everyone.targets \subseteq Targets
      BY DEF Everyone
    <3>5. \A us \in SUBSET Targets : Only(us).all \in BOOLEAN /\ Only(us).targets \subseteq Targets
      BY DEF Only
    <3> QED
      BY <3>3, <3>4, <3>5
  <2> QED
    BY <2>1, <2>2 DEF Audiences
<1>2. \A t \in a.targets : t # Root => t.dev \in Devices
  BY <1>1, MethodsAssumption DEF Targets
<1> QED
  BY <1>1, <1>2 DEF Meant

(* A notification reaches lights of its audience only.                     *)
LEMMA ResolvedAreMeant ==
  ASSUME Types, NEW a
  PROVE  resolveNotificationTargets(a) \subseteq Lights \cap Meant(a)
<1> SUFFICES ASSUME NEW d \in resolveNotificationTargets(a) PROVE d \in Lights \cap Meant(a)
  OBVIOUS
<1>1. d \in present \cap Lights /\ (a.all \/ Root \in a.targets \/ \E t \in a.targets : t.dev = d)
  BY DEF resolveNotificationTargets
<1>2. d \in Devices
  BY <1>1 DEF Types
<1> QED
  BY <1>1, <1>2 DEF Meant

(* The level a scene number stands for is one a light can have.            *)
LEMMA SceneLevel ==
  ASSUME NEW n
  PROVE  mapSceneAction(n).level \in 0..100
BY SMTT(60) DEF mapSceneAction

(* Every value a channel takes is a number, and none is the mark of a      *)
(* channel that has not been reported.                                     *)
LEMMA OutputsAreNumbers == Outputs \subseteq Int /\ None \notin Outputs
<1>1. Values \subseteq Int
  BY Zenon, MethodsAssumption
<1>2. -1 \notin Values
  BY Zenon, MethodsAssumption
<1>3. 0..100 \subseteq Int /\ -1 \notin 0..100
  OBVIOUS
<1> QED
  BY <1>1, <1>2, <1>3 DEF Outputs, None

(* A clamped level is one a light can have.                                *)
LEMMA ClampedLevel ==
  ASSUME NEW v \in Int
  PROVE  clampLevel(v) \in 0..100
BY DEF clampLevel

(* What the number of a scene has a call do: one level for each light of   *)
(* the audience.                                                           *)
LEMMA StaticWork ==
  ASSUME Types, NEW a, NEW n
  PROVE  /\ applyStaticSceneAction(a, n) \subseteq Works
         /\ \A w \in applyStaticSceneAction(a, n) :
              /\ w.how = "scene" /\ w.c = 0
              /\ w.t.dev \in resolveNotificationTargets(a) /\ w.t = Canonical(w.t.dev)
              /\ w.v = clampLevel(mapSceneAction(n).level)
<1> SUFFICES ASSUME NEW w \in applyStaticSceneAction(a, n)
             PROVE  /\ w \in Works
                    /\ w.how = "scene" /\ w.c = 0
                    /\ w.t.dev \in resolveNotificationTargets(a) /\ w.t = Canonical(w.t.dev)
                    /\ w.v = clampLevel(mapSceneAction(n).level)
  OBVIOUS
<1> DEFINE v == clampLevel(mapSceneAction(n).level)
<1>1. v \in Outputs
  <2>1. mapSceneAction(n).level \in Int
    BY SceneLevel
  <2>2. v \in 0..100
    BY <2>1, ClampedLevel
  <2> QED
    BY <2>2 DEF Outputs
<1> HIDE DEF v
<1>2. PICK d \in resolveNotificationTargets(a) :
        w = [how |-> "scene", t |-> Canonical(d), c |-> 0, v |-> v]
  BY DEF applyStaticSceneAction, v
<1>3. d \in Devices
  BY DEF resolveNotificationTargets, Types
<1>4. Canonical(d) \in DSUIDs /\ Canonical(d).dev = d
  BY <1>3, MethodsAssumption DEF Canonical
<1>5. w.how = "scene" /\ w.t = Canonical(d) /\ w.c = 0 /\ w.v = v
  BY <1>2
<1>6. w \in Works
  BY <1>1, <1>2, <1>4 DEF Works, Channels
<1> QED
  BY <1>4, <1>5, <1>6 DEF v

(* What a stored scene has a call do: one value for each channel.          *)
LEMMA StoredWorkFacts ==
  ASSUME NEW t \in DSUIDs, NEW e \in Entries
  PROVE  /\ StoredWork(t, e) \subseteq Works
         /\ \A w \in StoredWork(t, e) : w.how = "stored" /\ w.t = t
         /\ \A w, x \in StoredWork(t, e) : x.c = w.c => x = w
<1> DEFINE value(c) == IF c = 0 THEN clampLevel(e.channels[c].value) ELSE e.channels[c].value
           work(c) == [how |-> "stored", t |-> t, c |-> c, v |-> value(c)]
<1>1. \A c \in Channels : value(c) \in Outputs
  <2>1. SUFFICES ASSUME NEW c \in Channels PROVE value(c) \in Outputs
    OBVIOUS
  <2>2. e.channels[c] \in [has : BOOLEAN, value : Outputs, dontCare : BOOLEAN]
    BY DEF Entries
  <2>3. e.channels[c].value \in Outputs
    BY <2>2
  <2>4. e.channels[c].value \in Int
    BY <2>3, OutputsAreNumbers
  <2> QED
    BY <2>3, <2>4, ClampedLevel DEF Outputs
<1>2. StoredWork(t, e) = {work(c) : c \in Cared(e)}
  BY DEF StoredWork
<1> HIDE DEF value
<1>3. \A c \in Channels : work(c) \in Works
  BY <1>1 DEF Works
<1>4. \A c : work(c).how = "stored" /\ work(c).t = t /\ work(c).c = c
  OBVIOUS
<1>5. Cared(e) \subseteq Channels
  BY DEF Cared
<1> HIDE DEF work
<1> QED
  BY <1>2, <1>3, <1>4, <1>5

(* What a call reads for one device is for that device, one value for each *)
(* channel, and the number's level only for a light.                       *)
LEMMA SceneWorkFacts ==
  ASSUME Types, NEW t \in Targets, NEW n \in Scenes
  PROVE  /\ SceneWork(t, n) \subseteq Works
         /\ \A w \in SceneWork(t, n) :
              /\ w.how \in {"stored", "scene"}
              /\ w.how = "scene" => w.c = 0 /\ w.t.dev \in Lights
              /\ t # Root => w.t.dev = t.dev
         /\ t # Root => \A w \in SceneWork(t, n) :
              /\ w.how = "scene" => SceneWork(t, n) = {w}
              /\ \A x \in SceneWork(t, n) : x.c = w.c => x = w
<1>1. CASE t # Root /\ Usable(scenes[t][n])
  <2>1. t \in DSUIDs /\ scenes[t][n] \in Entries
    BY <1>1 DEF Targets, Types
  <2>2. SceneWork(t, n) = StoredWork(t, scenes[t][n])
    BY <1>1 DEF SceneWork
  <2> QED
    BY <2>1, <2>2, StoredWorkFacts
<1>2. CASE ~(t # Root /\ Usable(scenes[t][n]))
  <2>1. SceneWork(t, n) = applyStaticSceneAction(Only({t}), n)
    BY <1>2 DEF SceneWork
  <2>2. \A d \in resolveNotificationTargets(Only({t})) : d \in Lights /\ (t # Root => d = t.dev)
    BY DEF resolveNotificationTargets, Only
  <2>3. SceneWork(t, n) \subseteq Works
    BY <2>1, StaticWork
  <2>4. \A w \in SceneWork(t, n) :
          /\ w.how = "scene" /\ w.c = 0 /\ w.t = Canonical(w.t.dev)
          /\ w.t.dev \in Lights /\ (t # Root => w.t.dev = t.dev)
          /\ w.v = clampLevel(mapSceneAction(n).level)
    BY <2>1, <2>2, StaticWork
  <2>5. ASSUME t # Root, NEW w \in SceneWork(t, n), NEW x \in SceneWork(t, n)
        PROVE  x = w
    <3>1. w \in Works /\ x \in Works
      BY <2>3
    <3>2. w.t = x.t /\ w.v = x.v /\ w.how = x.how /\ w.c = x.c
      BY <2>4, <2>5
    <3> QED
      BY <3>1, <3>2 DEF Works
  <2>6. \A w \in SceneWork(t, n) : t # Root => SceneWork(t, n) = {w}
    BY <2>5
  <2> QED
    BY <2>3, <2>4, <2>5, <2>6
<1> QED
  BY <1>1, <1>2

-----------------------------------------------------------------------------
(* What a step leaves alone.                                               *)

(* The step does not work on the request of h, nor on a device that the    *)
(* request knows clean.                                                    *)
Undisturbed(h) ==
    /\ job'[h].op = job[h].op /\ job'[h].asked = job[h].asked /\ job'[h].read = job[h].read
    /\ job'[h].work = job[h].work /\ job'[h].ok = job[h].ok
    /\ job'[h].clean \subseteq job[h].clean
    /\ \A d \in job'[h].clean : (d \in present' => d \in present) /\ out'[d] = out[d]

(* Such a step takes back nothing that the request has done.               *)
LEMMA Bystander ==
  ASSUME Types, NEW h \in Handlers, Undisturbed(h), CallTakesEffect(h), WriteTakesEffect(h)
  PROVE  CallTakesEffect(h)' /\ WriteTakesEffect(h)'
<1>1. CallTakesEffect(h)'
  <2>1. SUFFICES ASSUME job'[h].op = "scene", job'[h].ok,
                        NEW r \in job'[h].read, Sole(job'[h], r), r.t.dev \in present',
                        NEW w \in r.work
                 PROVE  w \in job'[h].work \/ Achieved(r, w)'
    BY DEF CallTakesEffect
  <2>2. r.t.dev \in job'[h].clean
    BY <2>1 DEF Sole
  <2>3. r.t.dev \in present /\ out'[r.t.dev] = out[r.t.dev]
    BY <2>1, <2>2 DEF Undisturbed
  <2>4. Sole(job[h], r)
    BY <2>1, <2>2 DEF Sole, Undisturbed
  <2>5. w \in job[h].work \/ Achieved(r, w)
    BY <2>1, <2>3, <2>4 DEF CallTakesEffect, Undisturbed
  <2> QED
    BY <2>3, <2>5 DEF Undisturbed, Achieved
<1>2. WriteTakesEffect(h)'
  BY DEF Undisturbed, WriteTakesEffect
<1> QED
  BY <1>1, <1>2

(* A request that has read nothing owes nothing.                           *)
LEMMA NothingOwed ==
  ASSUME NEW h, job'[h].read = {}, job'[h].op # "property"
  PROVE  CallTakesEffect(h)' /\ WriteTakesEffect(h)'
BY DEF CallTakesEffect, WriteTakesEffect

(* A step that has nothing to do with the output state.                    *)
LEMMA StateAside ==
  ASSUME StateIsLast, UNCHANGED <<ostate, last>>,
         \A g \in Handlers : job'[g].op = "outputState" =>
            /\ job[g].op = "outputState"
            /\ job'[g].asked = job[g].asked /\ job'[g].state = job[g].state
  PROVE  StateIsLast'
BY DEF StateIsLast

(* A request that begins disturbs nobody.                                  *)
LEMMA BeginKeeps ==
  ASSUME IInv, NEW h \in Handlers, NEW j \in Jobs, Begin(h, j), JobInv(j),
         UNCHANGED <<present, out>>,
         CallTakesEffect(h)' /\ WriteTakesEffect(h)'
  PROVE  /\ job' \in [Handlers -> Jobs] /\ count' \in 0..MaxRequests
         /\ job'[h] = j /\ \A g \in Handlers \ {h} : job'[g] = job[g]
         /\ \A g \in Handlers :
              JobInv(job'[g]) /\ CallTakesEffect(g)' /\ WriteTakesEffect(g)'
<1>1. /\ job' \in [Handlers -> Jobs] /\ count' \in 0..MaxRequests
      /\ job'[h] = j /\ \A g \in Handlers \ {h} : job'[g] = job[g]
  BY BegunJobs DEF IInv
<1>2. ASSUME NEW g \in Handlers \ {h}
      PROVE  JobInv(job'[g]) /\ CallTakesEffect(g)' /\ WriteTakesEffect(g)'
  <2>1. Undisturbed(g)
    BY <1>1, <1>2 DEF Undisturbed
  <2>2. JobInv(job'[g])
    BY <1>1, <1>2 DEF IInv
  <2> QED
    BY <2>1, <2>2, Bystander DEF IInv
<1>3. JobInv(job'[h])
  BY <1>1
<1> QED
  BY <1>1, <1>2, <1>3

-----------------------------------------------------------------------------
(* The requests that begin.                                                *)

(* A scene call has read nothing yet.                                      *)
LEMMA CallSceneKeeps ==
  ASSUME IInv, NEW h \in Handlers, NEW a \in Audiences, NEW n \in Scenes, CallScene(h, a, n)
  PROVE  IInv'
<1> DEFINE work == IF a.all THEN applyStaticSceneAction(a, n) ELSE {}
           j == [Idle EXCEPT !.op = "scene", !.scene = n, !.targets = a.targets,
                             !.meant = Meant(a), !.work = work]
<1>1. /\ work \subseteq Works
      /\ \A w \in work : w.how = "scene" /\ w.c = 0 /\ w.t.dev \in Lights \cap Meant(a)
      /\ a.targets # {} => work = {}
  <2>1. a.targets # {} => ~a.all
    BY DEF Audiences, Only, Listed, Everyone, Refused, resolvePbufNotificationAudience, Params,
           ByZone
  <2>2. Types
    BY DEF IInv
  <2> QED
    BY <2>1, <2>2, StaticWork, ResolvedAreMeant
<1>2. /\ j.op = "scene" /\ j.scene = n /\ j.targets = a.targets /\ j.meant = Meant(a)
      /\ j.work = work /\ j.asked = {} /\ j.saves = {} /\ j.read = {}
  BY DEF Idle
<1>3. j \in Jobs
  <2>1. a.targets \subseteq Targets /\ Meant(a) \subseteq Devices
    BY AudienceFacts
  <2> HIDE DEF work
  <2> QED
    BY <1>1, <2>1, IdleJob DEF Jobs, Ops
<1>4. Begin(h, j)
  BY DEF CallScene
<1> HIDE DEF work, j
<1>5. JobInv(j)
  <2>1. JobForm(j)
    BY <1>1, <1>2 DEF JobForm
  <2>2. JobAddressed(j)
    BY <1>1, <1>2, AudienceFacts DEF JobAddressed
  <2>3. JobReads(j)
    BY <1>1, <1>2 DEF JobReads
  <2> QED
    BY <2>1, <2>2, <2>3 DEF JobInv
<1>6. UNCHANGED <<present, chan, out, scenes, ostate, last>>
  BY DEF CallScene
<1>7. job'[h] = j
  BY <1>3, <1>4, BegunJobs DEF IInv
<1>8. CallTakesEffect(h)' /\ WriteTakesEffect(h)'
  BY <1>2, <1>7, NothingOwed
<1>9. /\ job' \in [Handlers -> Jobs] /\ count' \in 0..MaxRequests
      /\ \A g \in Handlers \ {h} : job'[g] = job[g]
      /\ \A g \in Handlers : JobInv(job'[g]) /\ CallTakesEffect(g)' /\ WriteTakesEffect(g)'
  BY <1>3, <1>4, <1>5, <1>6, <1>8, BeginKeeps
<1>10. Types'
  BY <1>6, <1>9 DEF IInv, Types
<1>11. StateIsLast'
  BY <1>2, <1>6, <1>7, <1>9, StateAside DEF IInv
<1> QED
  BY <1>9, <1>10, <1>11 DEF IInv

(* A save has its snapshot, and nothing to command.                        *)
LEMMA SaveSceneKeeps ==
  ASSUME IInv, NEW h \in Handlers, NEW a \in Audiences, NEW n \in Scenes, SaveScene(h, a, n)
  PROVE  IInv'
<1> DEFINE saves == Saves(a)
           j == [Idle EXCEPT !.op = "save", !.scene = n, !.saves = saves]
<1>1. saves \subseteq Snapshots
  <2>1. chan \in [Devices -> [Channels -> Outputs \cup {None}]] /\ present \subseteq Devices
    BY DEF IInv, Types
  <2>2. \A d \in present : Canonical(d) \in DSUIDs
    BY <2>1, MethodsAssumption DEF Canonical
  <2>3. a.targets \ {Root} \subseteq DSUIDs
    BY AudienceFacts DEF Targets
  <2>4. CASE a.all
    <3>1. saves = {[t |-> Canonical(d), values |-> chan[d]] : d \in present}
      BY <2>4 DEF Saves
    <3> QED
      BY <2>1, <2>2, <3>1 DEF Snapshots
  <2>5. CASE ~a.all
    <3>1. saves = {[t |-> t, values |-> chan[t.dev]] :
                      t \in {x \in a.targets \ {Root} : x.dev \in present}}
      BY <2>5 DEF Saves
    <3>2. \A t \in {x \in a.targets \ {Root} : x.dev \in present} :
             [t |-> t, values |-> chan[t.dev]] \in Snapshots
      BY <2>1, <2>3 DEF Snapshots
    <3> QED
      BY <3>1, <3>2
  <2> QED
    BY <2>4, <2>5
<1> HIDE DEF saves
<1>2. /\ j.op = "save" /\ j.scene = n /\ j.targets = {} /\ j.work = {} /\ j.read = {}
      /\ j.saves = saves /\ j.asked = {}
  BY DEF Idle
<1>3. j \in Jobs
  BY <1>1, IdleJob DEF Jobs, Ops
<1>4. Begin(h, j)
  BY DEF SaveScene, saves
<1> HIDE DEF j
<1>5. JobInv(j)
  BY <1>2 DEF JobInv, JobForm, JobAddressed, JobReads
<1>6. UNCHANGED <<present, chan, out, scenes, ostate, last>>
  BY DEF SaveScene
<1>7. job'[h] = j
  BY <1>3, <1>4, BegunJobs DEF IInv
<1>8. CallTakesEffect(h)' /\ WriteTakesEffect(h)'
  BY <1>2, <1>7, NothingOwed
<1>9. /\ job' \in [Handlers -> Jobs] /\ count' \in 0..MaxRequests
      /\ \A g \in Handlers \ {h} : job'[g] = job[g]
      /\ \A g \in Handlers : JobInv(job'[g]) /\ CallTakesEffect(g)' /\ WriteTakesEffect(g)'
  BY <1>3, <1>4, <1>5, <1>6, <1>8, BeginKeeps
<1>10. Types'
  BY <1>6, <1>9 DEF IInv, Types
<1>11. StateIsLast'
  BY <1>2, <1>6, <1>7, <1>9, StateAside DEF IInv
<1> QED
  BY <1>9, <1>10, <1>11 DEF IInv

(* A level, or a channel's value, is for the lights it is meant for.       *)
LEMMA SetOutputChannelValueKeeps ==
  ASSUME IInv, NEW h \in Handlers, NEW a \in Audiences, NEW c \in Channels, NEW v \in Values,
         SetOutputChannelValue(h, a, c, v)
  PROVE  IInv'
<1> DEFINE value == IF c = 0 THEN clampLevel(v) ELSE v
           item(d) == [how |-> "level", t |-> Canonical(d), c |-> c, v |-> value]
           work == {item(d) : d \in resolveNotificationTargets(a)}
           j == [Idle EXCEPT !.op = "level", !.meant = Meant(a), !.work = work]
<1>1. value \in Outputs
  BY OutputsAreNumbers, ClampedLevel DEF Outputs
<1> HIDE DEF value
<1>2. \A d \in resolveNotificationTargets(a) :
         item(d) \in Works /\ item(d).how = "level" /\ item(d).t.dev \in Lights \cap Meant(a)
  <2>1. SUFFICES ASSUME NEW d \in resolveNotificationTargets(a)
                 PROVE  /\ item(d) \in Works
                        /\ item(d).how = "level" /\ item(d).t.dev \in Lights \cap Meant(a)
    OBVIOUS
  <2>2. d \in Lights \cap Meant(a)
    BY ResolvedAreMeant DEF IInv
  <2>3. Canonical(d) \in DSUIDs /\ Canonical(d).dev = d
    BY <2>2, MethodsAssumption DEF Canonical
  <2> QED
    BY <1>1, <2>2, <2>3 DEF Works
<1> HIDE DEF item
<1>3. /\ work \subseteq Works
      /\ \A w \in work : w.how = "level" /\ w.t.dev \in Lights \cap Meant(a)
  BY <1>2
<1>4. Begin(h, j)
  BY DEF SetOutputChannelValue, value, item
<1> HIDE DEF work
<1>5. /\ j.op = "level" /\ j.targets = {} /\ j.read = {} /\ j.saves = {} /\ j.asked = {}
      /\ j.work = work /\ j.meant = Meant(a)
  BY DEF Idle
<1>6. j \in Jobs
  <2>1. Meant(a) \subseteq Devices
    BY AudienceFacts
  <2> QED
    BY <1>3, <2>1, IdleJob DEF Jobs, Ops
<1> HIDE DEF j
<1>7. JobInv(j)
  BY <1>3, <1>5 DEF JobInv, JobForm, JobAddressed, JobReads
<1>8. UNCHANGED <<present, chan, out, scenes, ostate, last>>
  BY DEF SetOutputChannelValue
<1>9. job'[h] = j
  BY <1>4, <1>6, BegunJobs DEF IInv
<1>10. CallTakesEffect(h)' /\ WriteTakesEffect(h)'
  BY <1>5, <1>9, NothingOwed
<1>11. /\ job' \in [Handlers -> Jobs] /\ count' \in 0..MaxRequests
       /\ \A g \in Handlers \ {h} : job'[g] = job[g]
       /\ \A g \in Handlers : JobInv(job'[g]) /\ CallTakesEffect(g)' /\ WriteTakesEffect(g)'
  BY <1>4, <1>6, <1>7, <1>8, <1>10, BeginKeeps
<1>12. Types'
  BY <1>8, <1>11 DEF IInv, Types
<1>13. StateIsLast'
  BY <1>5, <1>8, <1>9, <1>11, StateAside DEF IInv
<1> QED
  BY <1>11, <1>12, <1>13 DEF IInv

(* What a setProperty is to write is for one light, one value for each     *)
(* channel.                                                                *)
LEMMA PropertyWritesFacts ==
  ASSUME NEW t \in DSUIDs, NEW ws \in PropertyWrites(t)
  PROVE  /\ ws \subseteq Works
         /\ \A w \in ws : w.how = "property" /\ w.t = t
         /\ \A w, x \in ws : w.c = x.c => w = x
<1>1. PICK cs \in SUBSET Channels \ {{}}, v \in Values :
        ws = {[how |-> "property", t |-> t, c |-> c, v |-> v] : c \in cs}
  BY DEF PropertyWrites
<1>2. \A c \in cs : [how |-> "property", t |-> t, c |-> c, v |-> v] \in Works
  BY DEF Works, Outputs
<1> QED
  BY <1>1, <1>2

(* A setProperty owes every value it was asked for, or knows it failed.    *)
LEMMA SetPropertyKeeps ==
  ASSUME IInv, NEW h \in Handlers, NEW t \in DSUIDs, NEW ws \in PropertyWrites(t),
         setPropertyFromPbuf(h, t, ws)
  PROVE  IInv'
<1> DEFINE there == t # Root /\ t.dev \in present \cap Lights
           work == IF there THEN ws ELSE {}
           j == [Idle EXCEPT !.op = "property", !.meant = {t.dev}, !.ok = there,
                             !.asked = ws, !.work = work]
<1>1. Begin(h, j)
  <2>1. j = [Idle EXCEPT !.op = "property", !.meant = {t.dev},
                    !.ok = (t # Root /\ t.dev \in present \cap Lights),
                    !.asked = ws,
                    !.work = IF t # Root /\ t.dev \in present \cap Lights THEN ws ELSE {}]
    OBVIOUS
  <2> QED
    BY <2>1 DEF setPropertyFromPbuf
<1>2. there \in BOOLEAN /\ (there => t.dev \in Lights /\ work = ws) /\ (~there => work = {})
  OBVIOUS
<1> HIDE DEF there, work
<1>3. /\ ws \subseteq Works /\ work \subseteq ws
      /\ \A w \in ws : w.how = "property" /\ w.t = t
      /\ \A w, x \in ws : w.c = x.c => w = x
  BY <1>2, PropertyWritesFacts
<1>4. t.dev \in Devices
  BY MethodsAssumption
<1>5. /\ j.op = "property" /\ j.targets = {} /\ j.read = {} /\ j.saves = {} /\ j.asked = ws
      /\ j.work = work /\ j.meant = {t.dev} /\ j.ok = there
  BY DEF Idle
<1>6. j \in Jobs
  BY <1>2, <1>3, <1>4, IdleJob DEF Jobs, Ops
<1> HIDE DEF j
<1>7. JobInv(j)
  <2>1. JobForm(j)
    BY <1>3, <1>5 DEF JobForm
  <2>2. JobAddressed(j)
    BY <1>2, <1>3, <1>5 DEF JobAddressed
  <2>3. JobReads(j)
    BY <1>5 DEF JobReads
  <2> QED
    BY <2>1, <2>2, <2>3 DEF JobInv
<1>8. UNCHANGED <<present, chan, out, scenes, ostate, last>>
  BY DEF setPropertyFromPbuf
<1>9. job'[h] = j
  BY <1>1, <1>6, BegunJobs DEF IInv
<1>10. CallTakesEffect(h)'
  BY <1>5, <1>9 DEF CallTakesEffect
<1>11. WriteTakesEffect(h)'
  <2>1. job'[h].ok => job'[h].work = job'[h].asked
    BY <1>2, <1>5, <1>9
  <2> QED
    BY <1>3, <1>5, <1>9, <2>1 DEF WriteTakesEffect
<1>12. /\ job' \in [Handlers -> Jobs] /\ count' \in 0..MaxRequests
       /\ \A g \in Handlers \ {h} : job'[g] = job[g]
       /\ \A g \in Handlers : JobInv(job'[g]) /\ CallTakesEffect(g)' /\ WriteTakesEffect(g)'
  BY <1>1, <1>6, <1>7, <1>8, <1>10, <1>11, BeginKeeps
<1>13. Types'
  BY <1>8, <1>12 DEF IInv, Types
<1>14. StateIsLast'
  BY <1>5, <1>8, <1>9, <1>12, StateAside DEF IInv
<1> QED
  BY <1>12, <1>13, <1>14 DEF IInv

(* A field that is set keeps an output state one.                          *)
LEMMA WithFieldState ==
  ASSUME NEW s \in OutputStates, NEW f \in {"localPriority", "transitionTime"}, NEW v \in 0..1
  PROVE  WithField(s, f, v) \in OutputStates
BY DEF WithField, OutputStates

(* An output-state write that begins alone has read what was last written. *)
LEMMA ReadOutputStateKeeps ==
  ASSUME IInv, NEW h \in Handlers, NEW f \in {"localPriority", "transitionTime"}, NEW v \in 0..1,
         ReadOutputState(h, f, v)
  PROVE  IInv'
<1> DEFINE ask == [field |-> f, v |-> v]
           state == WithField(ostate, f, v)
           j == [Idle EXCEPT !.op = "outputState", !.asked = {ask}, !.state = state]
<1>1. Begin(h, j)
  BY DEF ReadOutputState
<1>2. ask \in Asks /\ ask.field = f /\ ask.v = v
  BY DEF Asks
<1>3. state \in OutputStates
  BY WithFieldState DEF IInv, Types
<1>4. state = WithField(ostate, ask.field, ask.v)
  OBVIOUS
<1> HIDE DEF ask, state
<1>5. /\ j.op = "outputState" /\ j.targets = {} /\ j.read = {} /\ j.saves = {} /\ j.work = {}
      /\ j.asked = {ask} /\ j.state = state
  BY DEF Idle
<1>6. j \in Jobs
  BY <1>2, <1>3, IdleJob DEF Jobs, Ops
<1> HIDE DEF j
<1>7. JobInv(j)
  BY <1>2, <1>5 DEF JobInv, JobForm, JobAddressed, JobReads
<1>8. UNCHANGED <<present, chan, out, scenes, ostate>>
  BY DEF ReadOutputState
<1>9. last' = [last EXCEPT !.raced = last.raced \/ \E g \in Handlers : job[g].op = "outputState"]
  BY DEF ReadOutputState
<1>10. job'[h] = j
  BY <1>1, <1>6, BegunJobs DEF IInv
<1>11. CallTakesEffect(h)' /\ WriteTakesEffect(h)'
  BY <1>5, <1>10, NothingOwed
<1>12. /\ job' \in [Handlers -> Jobs] /\ count' \in 0..MaxRequests
       /\ \A g \in Handlers \ {h} : job'[g] = job[g]
       /\ \A g \in Handlers : JobInv(job'[g]) /\ CallTakesEffect(g)' /\ WriteTakesEffect(g)'
  BY <1>1, <1>6, <1>7, <1>8, <1>11, BeginKeeps
<1>13. /\ last' \in [value : OutputStates, raced : BOOLEAN]
       /\ last'.value = last.value
       /\ ~last'.raced => ~last.raced /\ \A g \in Handlers : job[g].op # "outputState"
  <2>1. last \in [value : OutputStates, raced : BOOLEAN]
    BY DEF IInv, Types
  <2> DEFINE raced == last.raced \/ \E g \in Handlers : job[g].op = "outputState"
  <2>2. /\ raced \in BOOLEAN
        /\ ~raced => ~last.raced /\ \A g \in Handlers : job[g].op # "outputState"
    BY <2>1
  <2> HIDE DEF raced
  <2>3. last' = [last EXCEPT !.raced = raced]
    BY <1>9 DEF raced
  <2> QED
    BY <2>1, <2>2, <2>3
<1>14. Types'
  BY <1>8, <1>12, <1>13 DEF IInv, Types
<1>15. StateIsLast'
  <2>1. SUFFICES ASSUME ~last'.raced PROVE StateIsLast'
    BY DEF StateIsLast
  <2>2. ostate' = last'.value
    BY <1>8, <1>13, <2>1 DEF IInv, StateIsLast
  <2>3. \A g \in Handlers : job'[g].op = "outputState" => g = h
    BY <1>12, <1>13, <2>1
  <2>4. job'[h].asked = {ask} /\ job'[h].state = WithField(ostate', ask.field, ask.v)
    BY <1>4, <1>5, <1>8, <1>10
  <2>5. \A g \in Handlers : job'[g].op = "outputState" =>
          \E q \in Asks : job'[g].asked = {q} /\ job'[g].state = WithField(ostate', q.field, q.v)
    BY <1>2, <2>3, <2>4
  <2> QED
    BY <2>2, <2>3, <2>5 DEF StateIsLast, WithField
<1> QED
  BY <1>12, <1>14, <1>15 DEF IInv

(* A write of the output state that was alone leaves what it asked for.    *)
LEMMA SetDeviceOutputStateKeeps ==
  ASSUME IInv, NEW h \in Handlers, SetDeviceOutputState(h)
  PROVE  IInv'
<1>1. /\ job[h].op = "outputState" /\ job' = [job EXCEPT ![h] = Idle]
      /\ ostate' = StoredState(job[h].state, ostate)
      /\ UNCHANGED <<present, chan, out, scenes, count>>
  BY DEF SetDeviceOutputState
<1>2. job \in [Handlers -> Jobs] /\ job[h].state \in OutputStates /\ ostate \in OutputStates
  BY DEF IInv, Types, Jobs
<1>3. /\ job' \in [Handlers -> Jobs] /\ job'[h] = Idle
      /\ \A g \in Handlers \ {h} : job'[g] = job[g]
  BY <1>1, <1>2, IdleJob
<1>4. ostate' \in OutputStates
  BY <1>1, <1>2 DEF StoredState, OutputStates
<1>5. PICK q \in Asks : job[h].asked = {q}
  BY <1>1 DEF IInv, JobInv, JobForm
<1> DEFINE asked == IF q.field = "localPriority"
                    THEN [last.value EXCEPT !.localPriority = (q.v = 1)]
                    ELSE IF q.v > 0 THEN [last.value EXCEPT !.transitionTime = q.v]
                    ELSE last.value
<1>6. last' = [last EXCEPT !.value = asked]
  BY <1>5 DEF SetDeviceOutputState
<1>7. q.field \in {"localPriority", "transitionTime"} /\ q.v \in 0..1
  BY DEF Asks
<1>8. last.value \in OutputStates
  BY DEF IInv, Types
<1>9. asked \in OutputStates
  BY <1>7, <1>8 DEF OutputStates
<1>10. ~last.raced => ostate' = asked
  <2>1. SUFFICES ASSUME ~last.raced PROVE ostate' = asked
    OBVIOUS
  <2>2. ostate = last.value /\ job[h].state = WithField(ostate, q.field, q.v)
    BY <1>1, <1>5, <2>1 DEF IInv, StateIsLast
  <2>3. ostate' = StoredState(WithField(ostate, q.field, q.v), ostate)
    BY <1>1, <2>2
  <2> QED
    BY <1>2, <1>7, <2>2, <2>3 DEF StoredState, WithField, OutputStates
<1> HIDE DEF asked
<1>11. /\ last' \in [value : OutputStates, raced : BOOLEAN]
       /\ last'.value = asked /\ last'.raced = last.raced
  BY <1>6, <1>9 DEF IInv, Types
<1>12. Types'
  BY <1>1, <1>3, <1>4, <1>11 DEF IInv, Types
<1>13. \A g \in Handlers : JobInv(job'[g])
  BY <1>3, IdleJob DEF IInv
<1>14. ASSUME NEW g \in Handlers PROVE CallTakesEffect(g)' /\ WriteTakesEffect(g)'
  <2>1. CASE g = h
    <3>1. job'[g].read = {} /\ job'[g].op # "property"
      BY <1>3, <2>1, IdleJob
    <3> QED
      BY <3>1, NothingOwed
  <2>2. CASE g # h
    <3>1. Undisturbed(g)
      BY <1>1, <1>3, <2>2 DEF Undisturbed
    <3> QED
      BY <3>1, Bystander DEF IInv
  <2> QED
    BY <2>1, <2>2
<1>15. StateIsLast'
  <2>1. SUFFICES ASSUME ~last'.raced PROVE StateIsLast'
    BY DEF StateIsLast
  <2>2. \A g \in Handlers : job'[g].op # "outputState"
    <3>1. ~last.raced
      BY <1>11, <2>1
    <3>2. \A g \in Handlers \ {h} : job[g].op # "outputState"
      BY <1>1, <3>1 DEF IInv, StateIsLast
    <3> QED
      BY <1>3, <3>2, IdleJob
  <2> QED
    BY <1>10, <1>11, <2>1, <2>2 DEF StateIsLast
<1> QED
  BY <1>12, <1>13, <1>14, <1>15 DEF IInv

-----------------------------------------------------------------------------
(* The steps of a request.                                                 *)

(* What a scene call reads for a target it has yet to do.                  *)
LEMMA ReadSceneKeeps ==
  ASSUME IInv, NEW h \in Handlers, NEW t \in Targets, ReadScene(h, t)
  PROVE  IInv'
<1> DEFINE n == job[h].scene
           work == SceneWork(t, n)
           entry == [t |-> t, work |-> work]
           j == [job[h] EXCEPT !.targets = job[h].targets \ {t}, !.work = work,
                               !.read = job[h].read \cup {entry}]
<1>1. /\ job[h].op = "scene" /\ job[h].work = {} /\ t \in job[h].targets
      /\ job' = [job EXCEPT ![h] = j]
      /\ UNCHANGED <<present, chan, out, scenes, ostate, count, last>>
  BY DEF ReadScene
<1>2. job \in [Handlers -> Jobs] /\ job[h] \in Jobs /\ n \in Scenes
  BY <1>1 DEF IInv, Types, JobInv, JobForm
<1>3. /\ work \subseteq Works
      /\ \A w \in work :
           /\ w.how \in {"stored", "scene"}
           /\ w.how = "scene" => w.c = 0 /\ w.t.dev \in Lights
           /\ t # Root => w.t.dev = t.dev
      /\ t # Root => \A w \in work :
           /\ w.how = "scene" => work = {w}
           /\ \A x \in work : x.c = w.c => x = w
  BY <1>2, SceneWorkFacts DEF IInv
<1> HIDE DEF work
<1>4. entry \in Reads /\ entry.t = t /\ entry.work = work
  BY <1>3 DEF Reads
<1> HIDE DEF entry
<1>5. /\ j \in Jobs
      /\ j.op = "scene" /\ j.scene = n /\ j.targets = job[h].targets \ {t} /\ j.work = work
      /\ j.read = job[h].read \cup {entry} /\ j.asked = job[h].asked /\ j.saves = job[h].saves
      /\ j.meant = job[h].meant /\ j.ok = job[h].ok /\ j.clean = job[h].clean
      /\ j.state = job[h].state
  BY <1>1, <1>2, <1>3, <1>4 DEF Jobs
<1> HIDE DEF j, n
<1>6. /\ job' \in [Handlers -> Jobs] /\ job'[h] = j
      /\ \A g \in Handlers \ {h} : job'[g] = job[g]
  BY <1>1, <1>2, <1>5
<1>7. JobInv(job[h])
  BY DEF IInv
<1>8. \A r \in job[h].read : r.t # t
  BY <1>1, <1>7 DEF JobInv, JobReads
<1>9. JobInv(j)
  <2>1. JobForm(j)
    BY <1>1, <1>2, <1>3, <1>5, <1>7 DEF JobInv, JobForm
  <2>2. JobAddressed(j)
    <3>1. \A u \in j.targets : IF u = Root THEN j.meant = Devices ELSE u.dev \in j.meant
      BY <1>5, <1>7 DEF JobInv, JobAddressed
    <3>2. IF t = Root THEN j.meant = Devices ELSE t.dev \in j.meant
      BY <1>1, <1>5, <1>7 DEF JobInv, JobAddressed
    <3>3. \A w \in work : w.t.dev \in Devices
      BY <1>3, MethodsAssumption DEF Works
    <3> QED
      BY <1>3, <1>5, <3>1, <3>2, <3>3 DEF JobAddressed
  <2>3. JobReads(j)
    <3>1. \A r \in j.read : r.t \notin j.targets
      BY <1>4, <1>5, <1>7, <1>8 DEF JobInv, JobReads
    <3>2. \A r, q \in j.read : r.t = q.t => r = q
      BY <1>4, <1>5, <1>7, <1>8 DEF JobInv, JobReads
    <3>3. ASSUME NEW r \in j.read, r.t # Root, NEW w \in r.work
          PROVE  /\ w.t.dev = r.t.dev /\ w.how \in {"stored", "scene"}
                 /\ (w.how = "scene" => w.c = 0 /\ r.work = {w})
                 /\ \A x \in r.work : x.c = w.c => x = w
      <4>1. CASE r \in job[h].read
        BY <1>7, <3>3, <4>1 DEF JobInv, JobReads
      <4>2. CASE r = entry
        BY <1>3, <1>4, <3>3, <4>2
      <4> QED
        BY <1>5, <4>1, <4>2
    <3>4. \A w \in j.work : \E r \in j.read : w \in r.work
      BY <1>4, <1>5
    <3>5. j.read # {}
      BY <1>5
    <3> QED
      BY <3>1, <3>2, <3>3, <3>4, <3>5 DEF JobReads
  <2> QED
    BY <2>1, <2>2, <2>3 DEF JobInv
<1>10. \A g \in Handlers : JobInv(job'[g])
  BY <1>6, <1>9 DEF IInv
<1>11. CallTakesEffect(h)'
  <2>1. SUFFICES ASSUME job'[h].ok, NEW r \in job'[h].read, Sole(job'[h], r),
                        r.t.dev \in present', NEW w \in r.work
                 PROVE  w \in job'[h].work \/ Achieved(r, w)'
    BY DEF CallTakesEffect
  <2>2. CASE r = entry
    BY <1>4, <1>5, <1>6, <2>2
  <2>3. CASE r \in job[h].read
    <3>1. Sole(job[h], r)
      BY <1>5, <1>6, <2>1 DEF Sole
    <3>2. Achieved(r, w)
      BY <1>1, <1>5, <1>6, <2>1, <2>3, <3>1 DEF IInv, CallTakesEffect
    <3> QED
      BY <1>1, <3>2 DEF Achieved
  <2> QED
    BY <1>5, <1>6, <2>2, <2>3
<1>12. WriteTakesEffect(h)'
  BY <1>5, <1>6 DEF WriteTakesEffect
<1>13. ASSUME NEW g \in Handlers PROVE CallTakesEffect(g)' /\ WriteTakesEffect(g)'
  <2>1. CASE g = h
    BY <1>11, <1>12, <2>1
  <2>2. CASE g # h
    <3>1. Undisturbed(g)
      BY <1>1, <1>6, <2>2 DEF Undisturbed
    <3> QED
      BY <3>1, Bystander DEF IInv
  <2> QED
    BY <2>1, <2>2
<1>14. Types'
  BY <1>1, <1>6 DEF IInv, Types
<1>15. StateIsLast'
  BY <1>1, <1>5, <1>6, StateAside DEF IInv
<1> QED
  BY <1>10, <1>13, <1>14, <1>15 DEF IInv

(* A step that makes progress with the saves of a request, or with none,   *)
(* and commands no device.                                                 *)
LEMMA FurtherWithoutCommand ==
  ASSUME IInv, job' \in [Handlers -> Jobs],
         \A g \in Handlers : Further(job[g], job'[g]) /\ Undisturbed(g)
  PROVE  \A g \in Handlers : JobInv(job'[g]) /\ CallTakesEffect(g)' /\ WriteTakesEffect(g)'
<1> SUFFICES ASSUME NEW g \in Handlers
             PROVE  JobInv(job'[g]) /\ CallTakesEffect(g)' /\ WriteTakesEffect(g)'
  OBVIOUS
<1>1. JobInv(job'[g])
  <2>1. job[g] \in Jobs /\ job'[g] \in Jobs /\ JobInv(job[g])
    BY DEF IInv, Types
  <2> QED
    BY <2>1, FurtherKeeps
<1>2. CallTakesEffect(g)' /\ WriteTakesEffect(g)'
  BY Bystander DEF IInv
<1> QED
  BY <1>1, <1>2

(* What a save makes of an entry is an entry.                              *)
LEMMA MergeEntry ==
  ASSUME NEW e \in Entries, NEW values \in [Channels -> Outputs \cup {None}]
  PROVE  Merge(e, values) \in Entries
<1> DEFINE ch(c) == IF values[c] = None THEN e.channels[c]
                    ELSE [has |-> TRUE, value |-> values[c], dontCare |-> e.channels[c].dontCare]
<1>1. \A c \in Channels : ch(c) \in [has : BOOLEAN, value : Outputs, dontCare : BOOLEAN]
  BY DEF Entries
<1>2. e.dontCare \in BOOLEAN
  BY DEF Entries
<1>3. Merge(e, values) = [stored |-> TRUE, dontCare |-> e.dontCare,
                          channels |-> [c \in Channels |-> ch(c)]]
  BY DEF Merge
<1> HIDE DEF ch
<1> QED
  BY <1>1, <1>2, <1>3 DEF Entries

(* A save stores one device's values.                                      *)
LEMMA StoreSceneKeeps ==
  ASSUME IInv, NEW h \in Handlers, NEW s \in job[h].saves, StoreScene(h, s)
  PROVE  IInv'
<1> DEFINE n == job[h].scene
           entry == Merge(scenes[s.t][n], s.values)
           j == [job[h] EXCEPT !.saves = job[h].saves \ {s}]
<1>1. /\ scenes' = [scenes EXCEPT ![s.t][n] = entry]
      /\ job' = [job EXCEPT ![h] = j]
      /\ UNCHANGED <<present, chan, out, ostate, count, last>>
  BY DEF StoreScene
<1>2. job \in [Handlers -> Jobs] /\ job[h] \in Jobs
  BY DEF IInv, Types
<1>3. s \in Snapshots /\ n \in Scenes
  <2>1. job[h].op = "save"
    BY DEF IInv, JobInv, JobForm
  <2> QED
    BY <1>2, <2>1 DEF Jobs, IInv, JobInv, JobForm
<1>4. scenes \in [DSUIDs -> [Scenes -> Entries]]
  BY DEF IInv, Types
<1>5. entry \in Entries
  BY <1>3, <1>4, MergeEntry DEF Snapshots
<1> HIDE DEF entry
<1>6. scenes' \in [DSUIDs -> [Scenes -> Entries]]
  BY <1>1, <1>3, <1>4, <1>5 DEF Snapshots
<1>7. /\ j \in Jobs /\ Further(job[h], j)
      /\ j.work = job[h].work /\ j.ok = job[h].ok /\ j.clean = job[h].clean
  BY <1>2 DEF Jobs, Further
<1> HIDE DEF j, n
<1>8. /\ job' \in [Handlers -> Jobs] /\ job'[h] = j
      /\ \A g \in Handlers \ {h} : job'[g] = job[g]
  BY <1>1, <1>2, <1>7
<1>9. \A g \in Handlers : Further(job[g], job'[g]) /\ Undisturbed(g)
  BY <1>1, <1>7, <1>8 DEF Further, Undisturbed
<1>10. \A g \in Handlers : JobInv(job'[g]) /\ CallTakesEffect(g)' /\ WriteTakesEffect(g)'
  BY <1>8, <1>9, FurtherWithoutCommand
<1>11. Types'
  BY <1>1, <1>6, <1>8 DEF IInv, Types
<1>12. StateIsLast'
  BY <1>1, <1>9, StateAside DEF IInv, Further
<1> QED
  BY <1>10, <1>11, <1>12 DEF IInv

(* What a write makes of an entry is an entry.                             *)
LEMMA WrittenIsEntry ==
  ASSUME NEW e \in Entries, NEW c \in Channels, NEW f, NEW v \in Values
  PROVE  WrittenEntry(e, c, f, v) \in Entries
<1> DEFINE ch == WrittenChannel(e.channels[c], f, v)
           care == IF f = "dontCare" THEN ~e.dontCare ELSE e.dontCare
<1>1. e.channels \in [Channels -> [has : BOOLEAN, value : Outputs, dontCare : BOOLEAN]]
  BY DEF Entries
<1>2. ch \in [has : BOOLEAN, value : Outputs, dontCare : BOOLEAN]
  <2> DEFINE k == e.channels[c]
  <2>1. k \in [has : BOOLEAN, value : Outputs, dontCare : BOOLEAN]
    BY <1>1
  <2>2. v \in Outputs
    BY DEF Outputs
  <2> HIDE DEF k
  <2>3. /\ [k EXCEPT !.has = TRUE, !.value = v]
             \in [has : BOOLEAN, value : Outputs, dontCare : BOOLEAN]
        /\ [k EXCEPT !.has = TRUE, !.dontCare = ~k.dontCare]
             \in [has : BOOLEAN, value : Outputs, dontCare : BOOLEAN]
    BY <2>1, <2>2
  <2>4. WrittenChannel(k, f, v) \in [has : BOOLEAN, value : Outputs, dontCare : BOOLEAN]
    BY <2>1, <2>3 DEF WrittenChannel
  <2> QED
    BY <2>4 DEF k
<1>3. care \in BOOLEAN
  BY DEF Entries
<1> HIDE DEF ch
<1>4. [e.channels EXCEPT ![c] = ch]
         \in [Channels -> [has : BOOLEAN, value : Outputs, dontCare : BOOLEAN]]
  BY <1>1, <1>2
<1>5. WrittenEntry(e, c, f, v)
        = [stored |-> TRUE, dontCare |-> care, channels |-> [e.channels EXCEPT ![c] = ch]]
  BY DEF WrittenEntry, ch
<1> HIDE DEF care
<1> QED
  BY <1>3, <1>4, <1>5 DEF Entries

(* A scene that is written by setProperty.                                 *)
LEMMA SceneWriteKeeps ==
  ASSUME IInv, NEW h \in Handlers, NEW t \in DSUIDs, NEW n \in Scenes, NEW c \in Channels,
         NEW v \in Values, NEW f, applySceneWrite(h, t, n, c, f, v)
  PROVE  IInv'
<1> DEFINE entry == WrittenEntry(scenes[t][n], c, f, v)
<1>1. /\ scenes' = [scenes EXCEPT ![t][n] = entry]
      /\ count < MaxRequests /\ count' = count + 1
      /\ UNCHANGED <<present, chan, out, ostate, job, last>>
  BY DEF applySceneWrite
<1>2. scenes \in [DSUIDs -> [Scenes -> Entries]]
  BY DEF IInv, Types
<1>3. entry \in Entries
  BY <1>2, WrittenIsEntry
<1> HIDE DEF entry
<1>4. scenes' \in [DSUIDs -> [Scenes -> Entries]]
  BY <1>1, <1>2, <1>3
<1>5. count' \in 0..MaxRequests
  BY <1>1, MethodsAssumption DEF IInv, Types
<1>6. Types'
  BY <1>1, <1>4, <1>5 DEF IInv, Types
<1>7. \A g \in Handlers : Further(job[g], job'[g]) /\ Undisturbed(g)
  BY <1>1 DEF Further, Undisturbed
<1>8. job' \in [Handlers -> Jobs]
  BY <1>1 DEF IInv, Types
<1>9. \A g \in Handlers : JobInv(job'[g]) /\ CallTakesEffect(g)' /\ WriteTakesEffect(g)'
  BY <1>7, <1>8, FurtherWithoutCommand
<1>10. StateIsLast'
  BY <1>1, StateAside DEF IInv
<1> QED
  BY <1>6, <1>9, <1>10 DEF IInv

(* A request that is finished.                                             *)
LEMMA FinishKeeps ==
  ASSUME IInv, NEW h \in Handlers, Finish(h)
  PROVE  IInv'
<1>1. /\ job' = [job EXCEPT ![h] = Idle]
      /\ UNCHANGED <<present, chan, out, scenes, ostate, count, last>>
  BY DEF Finish
<1>2. /\ job' \in [Handlers -> Jobs] /\ job'[h] = Idle
      /\ \A g \in Handlers \ {h} : job'[g] = job[g]
  BY <1>1, IdleJob DEF IInv, Types
<1>3. \A g \in Handlers : JobInv(job'[g])
  BY <1>2, IdleJob DEF IInv
<1>4. ASSUME NEW g \in Handlers PROVE CallTakesEffect(g)' /\ WriteTakesEffect(g)'
  <2>1. CASE g = h
    <3>1. job'[g].read = {} /\ job'[g].op # "property"
      BY <1>2, <2>1, IdleJob
    <3> QED
      BY <3>1, NothingOwed
  <2>2. CASE g # h
    <3>1. Undisturbed(g)
      BY <1>1, <1>2, <2>2 DEF Undisturbed
    <3> QED
      BY <3>1, Bystander DEF IInv
  <2> QED
    BY <2>1, <2>2
<1>5. Types'
  BY <1>1, <1>2 DEF IInv, Types
<1>6. StateIsLast'
  BY <1>1, <1>2, IdleJob, StateAside DEF IInv
<1> QED
  BY <1>3, <1>4, <1>5, <1>6 DEF IInv

-----------------------------------------------------------------------------
(* The devices.                                                            *)

(* A step that touches one device, and commands or changes no other.       *)
LEMMA TouchingKeeps ==
  ASSUME IInv, NEW d \in Devices, job' = Touched(d),
         present' \subseteq Devices, \A e \in Devices : e # d /\ e \in present' => e \in present,
         chan' \in [Devices -> [Channels -> Outputs \cup {None}]],
         out' \in [Devices -> [Channels -> Outputs]],
         \A e \in Devices : e # d => out'[e] = out[e],
         count' \in 0..MaxRequests, UNCHANGED <<scenes, ostate, last>>
  PROVE  IInv'
<1>1. /\ job' \in [Handlers -> Jobs]
      /\ \A g \in Handlers :
           /\ Further(job[g], job'[g])
           /\ job'[g].work = job[g].work /\ job'[g].ok = job[g].ok
           /\ job'[g].clean = job[g].clean \ {d}
  BY TouchedJobs DEF IInv
<1>2. ASSUME NEW g \in Handlers PROVE Further(job[g], job'[g]) /\ Undisturbed(g)
  <2>1. job[g].clean \subseteq Devices
    BY DEF IInv, Types, Jobs
  <2> QED
    BY <1>1, <2>1 DEF Further, Undisturbed
<1>3. \A g \in Handlers : JobInv(job'[g]) /\ CallTakesEffect(g)' /\ WriteTakesEffect(g)'
  BY <1>1, <1>2, FurtherWithoutCommand
<1>4. Types'
  BY <1>1 DEF IInv, Types
<1>5. StateIsLast'
  BY <1>1, StateAside DEF IInv, Further
<1> QED
  BY <1>3, <1>4, <1>5 DEF IInv

(* A device that is removed, registers again, changes or reports.          *)
LEMMA DevicesKeep ==
  ASSUME IInv,
         \/ \E h \in Handlers, t \in DSUIDs : Remove(h, t)
         \/ \E d \in Devices :
              Register(d) \/ Reports(d) \/ \E c \in Channels, v \in Values : DeviceChanges(d, c, v)
  PROVE  IInv'
<1>1. /\ chan \in [Devices -> [Channels -> Outputs \cup {None}]]
      /\ out \in [Devices -> [Channels -> Outputs]]
      /\ present \subseteq Devices /\ count \in 0..MaxRequests
  BY DEF IInv, Types
<1>2. ASSUME NEW h \in Handlers, NEW t \in DSUIDs, Remove(h, t) PROVE IInv'
  <2>1. /\ job' = Touched(t.dev) /\ present' = present \ {t.dev}
        /\ chan' = [chan EXCEPT ![t.dev] = [c \in Channels |-> None]]
        /\ count < MaxRequests /\ count' = count + 1
        /\ UNCHANGED <<out, scenes, ostate, last>>
    BY <1>2 DEF Remove
  <2>2. t.dev \in Devices
    BY MethodsAssumption
  <2>3. chan' \in [Devices -> [Channels -> Outputs \cup {None}]]
    BY <1>1, <2>1
  <2>4. count' \in 0..MaxRequests
    BY <1>1, <2>1, MethodsAssumption
  <2> QED
    BY <1>1, <2>1, <2>2, <2>3, <2>4, TouchingKeeps
<1>3. ASSUME NEW d \in Devices, Register(d) PROVE IInv'
  <2>1. /\ job' = Touched(d) /\ present' = present \cup {d}
        /\ UNCHANGED <<chan, out, scenes, ostate, count, last>>
    BY <1>3 DEF Register
  <2> QED
    BY <1>1, <2>1, TouchingKeeps
<1>4. ASSUME NEW d \in Devices, NEW c \in Channels, NEW v \in Values, DeviceChanges(d, c, v)
      PROVE  IInv'
  <2>1. /\ job' = Touched(d) /\ out' = [out EXCEPT ![d][c] = v]
        /\ UNCHANGED <<present, chan, scenes, ostate, count, last>>
    BY <1>4 DEF DeviceChanges
  <2>2. out' \in [Devices -> [Channels -> Outputs]] /\ \A e \in Devices : e # d => out'[e] = out[e]
    BY <1>1, <2>1 DEF Outputs
  <2> QED
    BY <1>1, <2>1, <2>2, TouchingKeeps
<1>5. ASSUME NEW d \in Devices, Reports(d) PROVE IInv'
  <2>1. /\ chan' = [chan EXCEPT ![d] = out[d]]
        /\ UNCHANGED <<present, out, scenes, ostate, job, count, last>>
    BY <1>5 DEF Reports
  <2>2. chan' \in [Devices -> [Channels -> Outputs \cup {None}]]
    BY <1>1, <2>1
  <2>3. Types'
    BY <2>1, <2>2 DEF IInv, Types
  <2>4. \A g \in Handlers : JobInv(job'[g]) /\ Undisturbed(g)
    BY <2>1 DEF IInv, Undisturbed
  <2>5. \A g \in Handlers : CallTakesEffect(g)' /\ WriteTakesEffect(g)'
    BY <2>4, Bystander DEF IInv
  <2>6. StateIsLast'
    BY <2>1, StateAside DEF IInv
  <2> QED
    BY <2>3, <2>4, <2>5, <2>6 DEF IInv
<1> QED
  BY <1>2, <1>3, <1>4, <1>5

-----------------------------------------------------------------------------
(* Commands.                                                               *)

(* What a command does to the requests and the devices: the others lose    *)
(* the device or nothing at all happens; its own request has failed, or    *)
(* the value is there, or it has found the stored scene without a device.  *)
LEMMA ApplyFacts ==
  ASSUME IInv, NEW h \in Handlers, NEW w \in job[h].work, Apply(h, w)
  PROVE  /\ w \in Works /\ w.t.dev \in Devices
         /\ job' \in [Handlers -> Jobs]
         /\ out' \in [Devices -> [Channels -> Outputs]]
         /\ UNCHANGED <<present, chan, scenes, ostate, count, last>>
         /\ \A g \in Handlers : Further(job[g], job'[g])
         /\ \A g \in Handlers \ {h} :
              /\ job'[g].work = job[g].work /\ job'[g].ok = job[g].ok
              /\ \/ job'[g].clean = job[g].clean \ {w.t.dev}
                 \/ job'[g].clean = job[g].clean /\ out' = out
         /\ job'[h].clean = job[h].clean
         /\ \/ ~job'[h].ok
            \/ /\ job'[h].ok = job[h].ok /\ job'[h].work = job[h].work \ {w}
               /\ \/ out'[w.t.dev][w.c] = w.v
                  \/ /\ w.how = "scene" /\ w.t.dev \in Native
                     /\ out'[w.t.dev][0] = Preset
                  \/ w.how = "stored" /\ ~Reaches(w)
         /\ \A d \in Devices, c \in Channels :
              out'[d][c] # out[d][c] => d = w.t.dev /\ c = w.c /\ Reaches(w)
<1>1. w \in Works /\ w.t.dev \in Devices /\ w.c \in Channels /\ w.v \in Outputs
  BY MethodsAssumption DEF IInv, Types, Jobs, Works
<1>2. w.how = "scene" => w.c = 0
  BY DEF IInv, JobInv, JobForm
<1>3. job \in [Handlers -> Jobs] /\ out \in [Devices -> [Channels -> Outputs]]
  BY DEF IInv, Types
<1>4. UNCHANGED <<present, chan, scenes, ostate, count, last>>
  BY DEF Apply
<1>5. /\ Did(h, w) \in Jobs /\ Further(job[h], Did(h, w))
      /\ Did(h, w).clean = job[h].clean /\ Did(h, w).ok = job[h].ok
      /\ Did(h, w).work = job[h].work \ {w}
  BY <1>3 DEF Did, Jobs, Further
<1>6. /\ AfterError(h, w) \in Jobs /\ Further(job[h], AfterError(h, w))
      /\ AfterError(h, w).clean = job[h].clean /\ ~AfterError(h, w).ok
  <2> DEFINE rest == IF job[h].op = "property" THEN {} ELSE job[h].work \ {w}
  <2>1. rest \subseteq job[h].work
    OBVIOUS
  <2>2. AfterError(h, w) = [job[h] EXCEPT !.work = rest, !.ok = FALSE]
    BY DEF AfterError
  <2> HIDE DEF rest
  <2>3. job[h] \in Jobs
    BY <1>3
  <2>4. AfterError(h, w) \in Jobs
    BY <2>1, <2>2, <2>3 DEF Jobs
  <2>5. AfterError(h, w).work = rest /\ AfterError(h, w).ok = FALSE
    BY <2>2, <2>3 DEF Jobs
  <2>6. /\ AfterError(h, w).clean = job[h].clean
        /\ Further(job[h], AfterError(h, w))
    BY <2>1, <2>2, <2>3, <2>5 DEF Jobs, Further
  <2> QED
    BY <2>4, <2>5, <2>6
<1> DEFINE d == w.t.dev
           touched == Touched(d)
<1>7. /\ touched \in [Handlers -> Jobs]
      /\ \A g \in Handlers :
           /\ Further(job[g], touched[g])
           /\ touched[g].work = job[g].work /\ touched[g].ok = job[g].ok
           /\ touched[g].clean = job[g].clean \ {d}
  BY TouchedJobs DEF IInv
<1> HIDE DEF touched
<1>8. ASSUME NEW v \in Outputs
      PROVE  /\ [out EXCEPT ![d][w.c] = v] \in [Devices -> [Channels -> Outputs]]
             /\ [out EXCEPT ![d][w.c] = v][d][w.c] = v
             /\ \A e \in Devices, c \in Channels :
                  [out EXCEPT ![d][w.c] = v][e][c] # out[e][c] => e = d /\ c = w.c
  BY <1>1, <1>3
<1>9. ASSUME NEW k \in {Did(h, w), AfterError(h, w)}, job' = [touched EXCEPT ![h] = k]
      PROVE  /\ job' \in [Handlers -> Jobs] /\ job'[h] = k
             /\ \A g \in Handlers : Further(job[g], job'[g])
             /\ \A g \in Handlers \ {h} :
                  /\ job'[g].work = job[g].work /\ job'[g].ok = job[g].ok
                  /\ job'[g].clean = job[g].clean \ {d}
  BY <1>5, <1>6, <1>7, <1>9
<1>10. CASE /\ Reaches(w) /\ ~(w.how = "scene" /\ d \in Native)
            /\ out' = [out EXCEPT ![d][w.c] = w.v]
            /\ job' = [touched EXCEPT ![h] = Did(h, w)]
  BY <1>1, <1>4, <1>5, <1>8, <1>9, <1>10
<1>11. CASE /\ Reaches(w) /\ w.how = "scene" /\ d \in Native
            /\ \E v \in {Preset, w.v} : out' = [out EXCEPT ![d][0] = v]
            /\ job' = [touched EXCEPT ![h] = Did(h, w)]
  <2>1. PICK v \in {Preset, w.v} : out' = [out EXCEPT ![d][w.c] = v]
    BY <1>2, <1>11
  <2>2. v \in Outputs
    BY <1>1 DEF Preset, Outputs
  <2>3. out'[d][w.c] = v
    BY <1>8, <2>1, <2>2
  <2> QED
    BY <1>1, <1>2, <1>4, <1>5, <1>8, <1>9, <1>11, <2>1, <2>2, <2>3
<1>12. CASE /\ Reaches(w)
            /\ out' \in {out, [out EXCEPT ![d][w.c] = w.v]}
            /\ job' = [touched EXCEPT ![h] = AfterError(h, w)]
  <2>1. /\ job' \in [Handlers -> Jobs] /\ job'[h] = AfterError(h, w)
        /\ \A g \in Handlers : Further(job[g], job'[g])
        /\ \A g \in Handlers \ {h} :
             /\ job'[g].work = job[g].work /\ job'[g].ok = job[g].ok
             /\ job'[g].clean = job[g].clean \ {d}
    BY <1>9, <1>12
  <2>2. /\ out' \in [Devices -> [Channels -> Outputs]]
        /\ \A e \in Devices, c \in Channels : out'[e][c] # out[e][c] => e = d /\ c = w.c
    <3>1. CASE out' = out
      BY <1>3, <3>1
    <3>2. CASE out' = [out EXCEPT ![d][w.c] = w.v]
      BY <1>1, <1>8, <3>2
    <3> QED
      BY <1>12, <3>1, <3>2
  <2> QED
    BY <1>1, <1>4, <1>6, <1>12, <2>1, <2>2
<1>13. CASE /\ ~Reaches(w)
            /\ job' = [job EXCEPT ![h] = IF w.how = "stored" THEN Did(h, w) ELSE AfterError(h, w)]
            /\ out' = out
  <2> DEFINE k == IF w.how = "stored" THEN Did(h, w) ELSE AfterError(h, w)
  <2>1. /\ k \in Jobs /\ Further(job[h], k) /\ k.clean = job[h].clean
        /\ \/ ~k.ok
           \/ w.how = "stored" /\ k.ok = job[h].ok /\ k.work = job[h].work \ {w}
    BY <1>5, <1>6
  <2>2. job' = [job EXCEPT ![h] = k]
    BY <1>13
  <2> HIDE DEF k
  <2>3. /\ job' \in [Handlers -> Jobs] /\ job'[h] = k
        /\ \A g \in Handlers \ {h} : job'[g] = job[g]
    BY <1>3, <2>1, <2>2
  <2>4. \A g \in Handlers : Further(job[g], job'[g])
    BY <2>1, <2>3 DEF Further
  <2> QED
    BY <1>1, <1>3, <1>4, <1>13, <2>1, <2>3, <2>4
<1>14. \/ /\ Reaches(w) /\ ~(w.how = "scene" /\ d \in Native)
          /\ out' = [out EXCEPT ![d][w.c] = w.v]
          /\ job' = [touched EXCEPT ![h] = Did(h, w)]
       \/ /\ Reaches(w) /\ w.how = "scene" /\ d \in Native
          /\ \E v \in {Preset, w.v} : out' = [out EXCEPT ![d][0] = v]
          /\ job' = [touched EXCEPT ![h] = Did(h, w)]
       \/ /\ Reaches(w)
          /\ out' \in {out, [out EXCEPT ![d][w.c] = w.v]}
          /\ job' = [touched EXCEPT ![h] = AfterError(h, w)]
       \/ /\ ~Reaches(w)
          /\ job' = [job EXCEPT ![h] = IF w.how = "stored" THEN Did(h, w) ELSE AfterError(h, w)]
          /\ out' = out
  BY DEF Apply, touched
<1> HIDE DEF d
<1> QED
  BY <1>10, <1>11, <1>12, <1>13, <1>14

(* A command makes true what its request is for and undoes none of it, and *)
(* every other request that knew the device clean loses it.                *)
LEMMA ApplyKeeps ==
  ASSUME IInv, NEW h \in Handlers, NEW w \in job[h].work, Apply(h, w)
  PROVE  IInv'
<1>1. /\ w \in Works /\ w.t.dev \in Devices
      /\ job' \in [Handlers -> Jobs]
      /\ out' \in [Devices -> [Channels -> Outputs]]
      /\ UNCHANGED <<present, chan, scenes, ostate, count, last>>
      /\ \A g \in Handlers : Further(job[g], job'[g])
  BY ApplyFacts
<1>2. \A g \in Handlers \ {h} :
        /\ job'[g].work = job[g].work /\ job'[g].ok = job[g].ok
        /\ \/ job'[g].clean = job[g].clean \ {w.t.dev}
           \/ job'[g].clean = job[g].clean /\ out' = out
  BY ApplyFacts
<1>3. job'[h].clean = job[h].clean
  BY ApplyFacts
<1>4. job'[h].ok =>
        /\ job[h].ok /\ job'[h].work = job[h].work \ {w}
        /\ \/ out'[w.t.dev][w.c] = w.v
           \/ w.how = "scene" /\ w.t.dev \in Native /\ out'[w.t.dev][0] = Preset
           \/ w.how = "stored" /\ ~Reaches(w)
  BY ApplyFacts
<1>5. \A d \in Devices, c \in Channels :
        out'[d][c] # out[d][c] => d = w.t.dev /\ c = w.c /\ Reaches(w)
  BY ApplyFacts
<1>6. out \in [Devices -> [Channels -> Outputs]] /\ job \in [Handlers -> Jobs]
  BY DEF IInv, Types
<1>7. \A d \in Devices : d # w.t.dev => out'[d] = out[d]
  <2>1. SUFFICES ASSUME NEW d \in Devices, d # w.t.dev PROVE out'[d] = out[d]
    OBVIOUS
  <2>2. \A c \in Channels : out'[d][c] = out[d][c]
    BY <1>5, <2>1
  <2>3. out'[d] \in [Channels -> Outputs] /\ out[d] \in [Channels -> Outputs]
    BY <1>1, <1>6
  <2> QED
    BY <2>2, <2>3
<1>8. \A g \in Handlers : JobInv(job'[g])
  <2>1. SUFFICES ASSUME NEW g \in Handlers PROVE JobInv(job'[g])
    OBVIOUS
  <2>2. job[g] \in Jobs /\ job'[g] \in Jobs /\ JobInv(job[g]) /\ Further(job[g], job'[g])
    BY <1>1, <1>6 DEF IInv
  <2> QED
    BY <2>2, FurtherKeeps
<1>9. ASSUME NEW g \in Handlers \ {h} PROVE CallTakesEffect(g)' /\ WriteTakesEffect(g)'
  <2>1. job[g].clean \subseteq Devices
    BY <1>6 DEF Jobs
  <2>2. Undisturbed(g)
    BY <1>1, <1>2, <1>7, <2>1 DEF Undisturbed, Further
  <2> QED
    BY <2>2, Bystander DEF IInv
<1>10. JobInv(job[h]) /\ CallTakesEffect(h) /\ WriteTakesEffect(h)
  BY DEF IInv
<1>11. CallTakesEffect(h)'
  <2>1. SUFFICES ASSUME job'[h].op = "scene", job'[h].ok, NEW r \in job'[h].read,
                        Sole(job'[h], r), r.t.dev \in present', NEW x \in r.work
                 PROVE  x \in job'[h].work \/ Achieved(r, x)'
    BY DEF CallTakesEffect
  <2>2. /\ job[h].op = "scene" /\ job[h].ok /\ r \in job[h].read /\ r.t.dev \in present
        /\ Sole(job[h], r) /\ job[h].read = job'[h].read
    BY <1>1, <1>3, <1>4, <2>1 DEF Further, Sole
  <2>3. x \in job[h].work \/ Achieved(r, x)
    BY <1>10, <2>2 DEF CallTakesEffect
  <2>4. r.t # Root /\ r.t.dev \in Lights
    BY <2>2 DEF Sole
  <2>5. /\ \A y \in r.work : y.t.dev = r.t.dev /\ y.how \in {"stored", "scene"}
        /\ \A y \in r.work : y.how = "scene" => r.work = {y}
        /\ \A y, z \in r.work : y.c = z.c => y = z
    BY <1>10, <2>2, <2>4 DEF JobInv, JobReads
  <2>6. x \in Works /\ r.t.dev \in Devices
    BY <1>6, <2>2, <2>4, MethodsAssumption DEF Jobs, Reads
  <2>7. w \in r.work => Achieved(r, w)'
    <3>1. SUFFICES ASSUME w \in r.work PROVE Achieved(r, w)'
      OBVIOUS
    <3>2. w.t.dev = r.t.dev
      BY <2>5, <3>1
    <3>3. Reaches(w)
      BY <2>2, <2>4, <3>2 DEF Reaches
    <3> QED
      BY <1>4, <2>1, <3>2, <3>3 DEF Achieved
  <2>8. CASE w \in r.work /\ x # w /\ Achieved(r, x)
    <3>1. x.c # w.c /\ x.how # "scene"
      BY <2>5, <2>8
    <3>2. out'[r.t.dev][x.c] = out[r.t.dev][x.c]
      BY <1>5, <2>6, <3>1 DEF Works
    <3> QED
      BY <2>8, <3>1, <3>2 DEF Achieved
  <2>9. CASE w \notin r.work /\ Achieved(r, x)
    <3>1. PICK q \in job[h].read : w \in q.work
      BY <1>10, <2>2 DEF JobInv, JobReads
    <3>2. q.t # r.t
      BY <1>10, <2>2, <2>9, <3>1 DEF JobInv, JobReads
    <3>3. q.t.dev # r.t.dev /\ q.t.dev # "root"
      BY <2>2, <3>2 DEF Sole
    <3>4. q.t # Root
      BY <3>3 DEF Root
    <3>5. w.t.dev = q.t.dev
      BY <1>10, <3>1, <3>4 DEF JobInv, JobReads
    <3>6. out'[r.t.dev] = out[r.t.dev]
      BY <1>7, <2>6, <3>3, <3>5
    <3> QED
      BY <2>9, <3>6 DEF Achieved
  <2>10. CASE x \in job[h].work /\ x # w
    BY <1>4, <2>1, <2>10
  <2> QED
    BY <2>1, <2>3, <2>7, <2>8, <2>9, <2>10
<1>12. WriteTakesEffect(h)'
  <2>1. SUFFICES ASSUME job'[h].op = "property" PROVE WriteTakesEffect(h)'
    BY DEF WriteTakesEffect
  <2>2. job[h].op = "property" /\ job'[h].asked = job[h].asked
    BY <1>1, <2>1 DEF Further
  <2>3. \A x, y \in job[h].asked : x.how = "property" /\ x.t = y.t /\ (x.c = y.c => x = y)
    BY <1>10, <2>2 DEF WriteTakesEffect
  <2>4. w \in job[h].asked /\ job[h].asked \subseteq Works
    BY <1>10, <2>2 DEF JobInv, JobForm
  <2>5. ASSUME job'[h].ok, NEW x \in job[h].asked
        PROVE  x \in job'[h].work \/ (x.t.dev \in job'[h].clean => out'[x.t.dev][x.c] = x.v)
    <3>1. CASE x = w
      BY <1>4, <2>3, <2>4, <2>5, <3>1
    <3>2. CASE x # w /\ x \in job[h].work
      BY <1>4, <2>5, <3>2
    <3>3. CASE x # w /\ x \notin job[h].work
      <4>1. x.t.dev \in job[h].clean => out[x.t.dev][x.c] = x.v
        BY <1>4, <1>10, <2>2, <2>5, <3>3 DEF WriteTakesEffect
      <4>2. x.c # w.c /\ x.c \in Channels /\ x.t.dev \in Devices
        BY <1>1, <2>3, <2>4, <3>3 DEF Works
      <4>3. out'[x.t.dev][x.c] = out[x.t.dev][x.c]
        BY <1>5, <4>2
      <4> QED
        BY <1>3, <4>1, <4>3
    <3> QED
      BY <3>1, <3>2, <3>3
  <2> QED
    BY <2>2, <2>3, <2>5 DEF WriteTakesEffect
<1>13. Types'
  BY <1>1 DEF IInv, Types
<1>14. StateIsLast'
  BY <1>1, StateAside DEF IInv, Further
<1> QED
  BY <1>8, <1>9, <1>11, <1>12, <1>13, <1>14 DEF IInv

-----------------------------------------------------------------------------
(* The invariant.                                                          *)

(* At the start nothing is present that is not, and nobody works.          *)
LEMMA InitInv == Init => IInv
<1> SUFFICES ASSUME Init PROVE IInv
  OBVIOUS
<1>1. Types
  <2>1. [d \in Devices |-> [c \in Channels |-> None]]
           \in [Devices -> [Channels -> Outputs \cup {None}]]
    OBVIOUS
  <2>2. [d \in Devices |-> [c \in Channels |-> 0]] \in [Devices -> [Channels -> Outputs]]
    BY DEF Outputs
  <2>3. NoScene \in Entries
    <3>1. NoChannel \in [has : BOOLEAN, value : Outputs, dontCare : BOOLEAN]
      BY DEF NoChannel, Outputs
    <3> QED
      BY <3>1 DEF NoScene, Entries
  <2>4. ostate \in OutputStates
    BY DEF Init, OutputStates
  <2>5. last \in [value : OutputStates, raced : BOOLEAN]
    BY <2>4 DEF Init
  <2>6. job \in [Handlers -> Jobs] /\ count \in 0..MaxRequests
    BY IdleJob, MethodsAssumption DEF Init
  <2> QED
    BY <2>1, <2>2, <2>3, <2>4, <2>5, <2>6 DEF Init, Types
<1>2. \A h \in Handlers : job[h] = Idle
  BY DEF Init
<1>3. \A h \in Handlers : JobInv(job[h]) /\ CallTakesEffect(h) /\ WriteTakesEffect(h)
  BY <1>2, IdleJob DEF CallTakesEffect, WriteTakesEffect
<1>4. StateIsLast
  BY <1>2, IdleJob DEF Init, StateIsLast
<1> QED
  BY <1>1, <1>3, <1>4 DEF IInv

(* Every step keeps it.                                                    *)
LEMMA NextKeeps == IInv /\ [Next]_vars => IInv'
<1> SUFFICES ASSUME IInv, [Next]_vars PROVE IInv'
  OBVIOUS
<1>1. CASE UNCHANGED vars
  <2>1. \A g \in Handlers : JobInv(job'[g]) /\ Undisturbed(g)
    BY <1>1 DEF IInv, vars, Undisturbed
  <2>2. \A g \in Handlers : CallTakesEffect(g)' /\ WriteTakesEffect(g)'
    BY <2>1, Bystander DEF IInv
  <2>3. Types' /\ StateIsLast'
    BY <1>1 DEF IInv, vars, Types, StateIsLast
  <2> QED
    BY <2>1, <2>2, <2>3 DEF IInv
<1>2. ASSUME NEW h \in Handlers, NEW a \in Audiences, NEW n \in Scenes,
             CallScene(h, a, n) \/ SaveScene(h, a, n) \/ UndoSceneJSON(h, a, n)
      PROVE  IInv'
  BY <1>2, CallSceneKeeps, SaveSceneKeeps DEF UndoSceneJSON
<1>3. ASSUME NEW h \in Handlers, NEW t \in Targets, ReadScene(h, t) PROVE IInv'
  BY <1>3, ReadSceneKeeps
<1>4. ASSUME NEW h \in Handlers, NEW a \in Audiences, NEW c \in Channels, NEW v \in Values,
             SetOutputChannelValue(h, a, c, v)
      PROVE  IInv'
  BY <1>4, SetOutputChannelValueKeeps
<1>5. ASSUME NEW h \in Handlers, NEW t \in DSUIDs, NEW ws \in PropertyWrites(t),
             setPropertyFromPbuf(h, t, ws)
      PROVE  IInv'
  BY <1>5, SetPropertyKeeps
<1>6. ASSUME NEW h \in Handlers, NEW w \in job[h].work, Apply(h, w) PROVE IInv'
  BY <1>6, ApplyKeeps
<1>7. ASSUME NEW h \in Handlers, NEW s \in job[h].saves, StoreScene(h, s) PROVE IInv'
  BY <1>7, StoreSceneKeeps
<1>8. ASSUME NEW h \in Handlers, NEW t \in DSUIDs, NEW n \in Scenes, NEW c \in Channels,
             NEW v \in Values, NEW f \in {"value", "channelDontCare", "dontCare", "effect"},
             applySceneWrite(h, t, n, c, f, v)
      PROVE  IInv'
  BY <1>8, SceneWriteKeeps
<1>9. ASSUME NEW h \in Handlers, NEW f \in {"localPriority", "transitionTime"}, NEW v \in 0..1,
             ReadOutputState(h, f, v)
      PROVE  IInv'
  BY <1>9, ReadOutputStateKeeps
<1>10. ASSUME NEW h \in Handlers, SetDeviceOutputState(h) \/ Finish(h) PROVE IInv'
  BY <1>10, SetDeviceOutputStateKeeps, FinishKeeps
<1>11. ASSUME \/ \E h \in Handlers, t \in DSUIDs : Remove(h, t)
              \/ \E d \in Devices :
                   \/ Register(d) \/ Reports(d)
                   \/ \E c \in Channels, v \in Values : DeviceChanges(d, c, v)
       PROVE  IInv'
  BY <1>11, DevicesKeep
<1> QED
  BY <1>1, <1>2, <1>3, <1>4, <1>5, <1>6, <1>7, <1>8, <1>9, <1>10, <1>11 DEF Next

(* What is yet to do, what was read and what was done of every request     *)
(* fit together in every state of every run.                               *)
THEOREM Invariance == Spec => []IInv
BY InitInv, NextKeeps, PTL DEF Spec

-----------------------------------------------------------------------------
(* What the front ends and getProperty say.                                *)

(* From the same parameters both front ends resolve the same audience, but *)
(* for an itemSpec that is no string.                                      *)
LEMMA Parity == AudienceParity
<1> SUFFICES ASSUME NEW ts \in Lists \cup {{}}, NEW z \in BOOLEAN,
                    NEW q \in {<<"absent", Root>>, <<"blank", Root>>}
                              \cup {<<"given", t>> : t \in UNION Lists}
             PROVE  resolveJSONNotificationAudience(Params(ts, q[1], q[2], z))
                      = resolvePbufNotificationAudience(Params(ts, q[1], q[2], z))
  BY DEF AudienceParity
<1> DEFINE p == Params(ts, q[1], q[2], z)
<1>1. p.item \in {"absent", "blank", "given"} /\ p.dsuids = ts
  BY DEF Params
<1> HIDE DEF p
<1>2. CASE ts # {}
  BY <1>1, <1>2 DEF resolveJSONNotificationAudience, resolvePbufNotificationAudience
<1>3. CASE ts = {} /\ p.item = "absent"
  BY <1>1, <1>3 DEF resolveJSONNotificationAudience, resolvePbufNotificationAudience
<1>4. CASE ts = {} /\ p.item \in {"blank", "given"}
  BY <1>1, <1>4 DEF resolveJSONNotificationAudience, resolvePbufNotificationAudience
<1> QED
  BY <1>1, <1>2, <1>3, <1>4 DEF p

(* A stored level, and without one the level that scenes 0 and 5 stand     *)
(* for, is what getProperty shows and what a call applies.                 *)
LEMMA Shown ==
  ASSUME IInv
  PROVE  ShownIsApplied
<1> SUFFICES ASSUME NEW d \in present \cap Lights, NEW n \in Scenes,
                    ~buildSceneEntry(d, n).dontCare,
                    ~buildSceneEntry(d, n).channels[0].dontCare,
                    LET e == scenes[Canonical(d)][n]
                    IN (e.stored /\ e.channels[0].has) \/ (n \in {0, 5} /\ Cared(e) = {})
             PROVE  \E w \in SceneWork(Canonical(d), n) :
                      w.c = 0 /\ w.v = clampLevel(buildSceneEntry(d, n).channels[0].value)
  BY DEF ShownIsApplied
<1> DEFINE e == scenes[Canonical(d)][n]
           t == Canonical(d)
           shown == buildSceneEntry(d, n)
           default == IF n = 0 THEN 0 ELSE 100
<1>1. t \in DSUIDs /\ t # Root /\ t.dev = d
  BY MethodsAssumption DEF Canonical, Root
<1>2. e \in Entries
  BY <1>1 DEF IInv, Types
<1>3. 0 \in Channels
  BY DEF Channels
<1>0. (e.stored /\ e.channels[0].has) \/ (n \in {0, 5} /\ Cared(e) = {})
  OBVIOUS
<1>4. /\ shown.dontCare = (e.stored /\ e.dontCare)
      /\ e.stored /\ e.channels[0].has =>
           shown.channels[0] = [value |-> e.channels[0].value, dontCare |-> e.channels[0].dontCare]
      /\ ~(e.stored /\ e.channels[0].has) =>
           shown.channels[0] = [value |-> default, dontCare |-> FALSE]
  <2> DEFINE dflt == CASE n = 0 -> 0 [] n \in 1..4 -> 75 [] n = 5 -> 100 [] n \in 6..9 -> 33
                       [] OTHER -> None
             ch(c) == IF e.stored /\ e.channels[c].has
                      THEN [value |-> e.channels[c].value, dontCare |-> e.channels[c].dontCare]
                      ELSE IF c = 0 /\ dflt # None THEN [value |-> dflt, dontCare |-> FALSE]
                      ELSE [value |-> 0, dontCare |-> TRUE]
  <2>1. shown = [dontCare |-> e.stored /\ e.dontCare, channels |-> [c \in Channels |-> ch(c)]]
    BY DEF buildSceneEntry
  <2>2. ASSUME n \in {0, 5} PROVE dflt = default /\ dflt # None
    <3>1. CASE n = 0
      BY <3>1 DEF None
    <3>2. CASE n = 5
      BY <3>2 DEF None
    <3> QED
      BY <2>2, <3>1, <3>2
  <2> HIDE DEF dflt
  <2>3. ASSUME ~(e.stored /\ e.channels[0].has)
        PROVE  ch(0) = [value |-> default, dontCare |-> FALSE]
    BY <1>0, <2>2, <2>3
  <2>4. ASSUME e.stored /\ e.channels[0].has
        PROVE  ch(0) = [value |-> e.channels[0].value, dontCare |-> e.channels[0].dontCare]
    BY <2>4
  <2> HIDE DEF ch, shown, e
  <2>5. shown.channels[0] = ch(0)
    BY <1>3, <2>1
  <2>6. shown.dontCare = (e.stored /\ e.dontCare)
    BY <2>1
  <2> QED
    BY <2>3, <2>4, <2>5, <2>6
<1> HIDE DEF e, t, shown
<1>5. CASE e.stored /\ e.channels[0].has
  <2>1. shown.channels[0].value = e.channels[0].value /\ ~e.channels[0].dontCare /\ ~e.dontCare
    <3>1. ~shown.dontCare /\ ~shown.channels[0].dontCare
      BY DEF shown
    <3>2. shown.channels[0] = [value |-> e.channels[0].value, dontCare |-> e.channels[0].dontCare]
      BY <1>4, <1>5
    <3>3. shown.channels[0].value = e.channels[0].value
      BY <3>2
    <3>4. shown.channels[0].dontCare = e.channels[0].dontCare
      BY <3>2
    <3>5. ~(e.stored /\ e.dontCare)
      BY Zenon, <1>4, <3>1
    <3> QED
      BY Zenon, <1>5, <3>1, <3>3, <3>4, <3>5
  <2>2. 0 \in Cared(e)
    BY <1>3, <1>5, <2>1 DEF Cared
  <2>3. Usable(e)
    BY <1>5, <2>1, <2>2 DEF Usable
  <2>4. SceneWork(t, n) = StoredWork(t, e)
    BY <1>1, <2>3 DEF SceneWork, e, t
  <2>5. [how |-> "stored", t |-> t, c |-> 0, v |-> clampLevel(e.channels[0].value)]
          \in StoredWork(t, e)
    BY <2>2 DEF StoredWork
  <2> QED
    BY <2>1, <2>4, <2>5 DEF t, shown
<1>6. CASE ~(e.stored /\ e.channels[0].has)
  <2>1. shown.channels[0].value = default
    BY <1>4, <1>6
  <2>2. ~Usable(e)
    <3>1. Cared(e) = {}
      BY <1>0, <1>6
    <3> QED
      BY <3>1 DEF Usable
  <2>3. SceneWork(t, n) = applyStaticSceneAction(Only({t}), n)
    BY <2>2 DEF SceneWork, e, t
  <2>4. mapSceneAction(n).kind = "level" /\ mapSceneAction(n).level = default
    <3>1. n = 0 \/ n = 5
      BY <1>0, <1>6
    <3> QED
      BY <3>1 DEF mapSceneAction
  <2>5. d \in resolveNotificationTargets(Only({t}))
    BY <1>1 DEF resolveNotificationTargets, Only
  <2>6. [how |-> "scene", t |-> Canonical(d), c |-> 0, v |-> clampLevel(mapSceneAction(n).level)]
          \in applyStaticSceneAction(Only({t}), n)
    BY <2>4, <2>5 DEF applyStaticSceneAction
  <2> QED
    BY <2>1, <2>3, <2>4, <2>6 DEF t, shown
<1> QED
  BY <1>5, <1>6

(* Whom a request is for does not depend on the front end that takes it    *)
(* (resolvePbufNotificationAudience, resolveJSONNotificationAudience); and *)
(* what getProperty shows of a stored level, or of scenes 0 and 5, is what *)
(* handleCallSceneNotification applies to a light.                         *)
THEOREM FrontEndsSayTheSame == Spec => []FrontEndsAgree
<1>1. IInv => FrontEndsAgree
  BY Parity, Shown DEF FrontEndsAgree
<1> QED
  BY <1>1, Invariance, PTL

-----------------------------------------------------------------------------
(* What a step may do.                                                     *)

(* A request ends only when all its work is done.                          *)
LEMMA EndsWithoutWork ==
  ASSUME IInv, [Next]_vars, NEW h \in Handlers, job[h].op \in {"scene", "property"}, job'[h] = Idle
  PROVE  job[h].work = {} /\ job[h].targets = {}
<1>1. job'[h].op # job[h].op
  BY IdleJob
<1>2. job \in [Handlers -> Jobs] /\ Types
  BY DEF IInv, Types
<1>3. CASE UNCHANGED vars
  BY <1>1, <1>3 DEF vars
<1>4. ASSUME NEW g \in Handlers, NEW j, Begin(g, j) PROVE FALSE
  BY <1>1, <1>2, <1>4, IdleJob DEF Begin
<1>5. ASSUME NEW d, job' = Touched(d) PROVE FALSE
  BY <1>1, <1>2, <1>5, TouchedJobs DEF Further
<1>6. ASSUME NEW g \in Handlers, NEW a \in Audiences, NEW n \in Scenes,
             CallScene(g, a, n) \/ SaveScene(g, a, n) \/ UndoSceneJSON(g, a, n)
      PROVE  FALSE
  BY <1>4, <1>6 DEF CallScene, SaveScene, UndoSceneJSON
<1>7. ASSUME NEW g \in Handlers, NEW t \in Targets, ReadScene(g, t) PROVE FALSE
  <2> DEFINE j == [job[g] EXCEPT !.targets = job[g].targets \ {t},
                     !.work = SceneWork(t, job[g].scene),
                     !.read = job[g].read \cup {[t |-> t, work |-> SceneWork(t, job[g].scene)]}]
  <2>1. job' = [job EXCEPT ![g] = j]
    BY <1>7 DEF ReadScene
  <2>2. j.op = job[g].op
    BY <1>2 DEF Jobs
  <2> HIDE DEF j
  <2> QED
    BY <1>1, <1>2, <2>1, <2>2
<1>8. ASSUME NEW g \in Handlers, NEW a \in Audiences, NEW c \in Channels, NEW v \in Values,
             SetOutputChannelValue(g, a, c, v)
      PROVE  FALSE
  BY <1>4, <1>8 DEF SetOutputChannelValue
<1>9. ASSUME NEW g \in Handlers, NEW t \in DSUIDs, NEW ws \in PropertyWrites(t),
             setPropertyFromPbuf(g, t, ws)
      PROVE  FALSE
  BY <1>4, <1>9 DEF setPropertyFromPbuf
<1>10. ASSUME NEW g \in Handlers, NEW w \in job[g].work, Apply(g, w) PROVE FALSE
  BY <1>1, <1>10, ApplyFacts DEF Further
<1>11. ASSUME NEW g \in Handlers, NEW s \in job[g].saves, StoreScene(g, s) PROVE FALSE
  <2> DEFINE j == [job[g] EXCEPT !.saves = job[g].saves \ {s}]
  <2>1. job' = [job EXCEPT ![g] = j]
    BY <1>11 DEF StoreScene
  <2>2. j.op = job[g].op
    BY <1>2 DEF Jobs
  <2> HIDE DEF j
  <2> QED
    BY <1>1, <1>2, <2>1, <2>2
<1>12. ASSUME NEW g \in Handlers, NEW t, NEW n, NEW c, NEW v, NEW f,
              applySceneWrite(g, t, n, c, f, v)
       PROVE  FALSE
  BY <1>1, <1>12 DEF applySceneWrite
<1>13. ASSUME NEW g \in Handlers, NEW f \in {"localPriority", "transitionTime"}, NEW v \in 0..1,
              ReadOutputState(g, f, v)
       PROVE  FALSE
  BY <1>4, <1>13 DEF ReadOutputState
<1>14. ASSUME NEW g \in Handlers, SetDeviceOutputState(g) PROVE FALSE
  BY <1>1, <1>2, <1>14 DEF SetDeviceOutputState
<1>15. ASSUME NEW g \in Handlers, Finish(g) PROVE job[h].work = {} /\ job[h].targets = {}
  BY <1>1, <1>2, <1>15 DEF Finish
<1>16. ASSUME NEW g \in Handlers, NEW t \in DSUIDs, Remove(g, t) PROVE FALSE
  BY <1>5, <1>16 DEF Remove
<1>17. ASSUME NEW d \in Devices, Register(d) PROVE FALSE
  BY <1>5, <1>17 DEF Register
<1>18. ASSUME NEW d \in Devices, NEW c \in Channels, NEW v \in Values, DeviceChanges(d, c, v)
       PROVE  FALSE
  BY <1>5, <1>18 DEF DeviceChanges
<1>19. ASSUME NEW d \in Devices, Reports(d) PROVE FALSE
  BY <1>1, <1>19 DEF Reports
<1> QED
  BY <1>3, <1>6, <1>7, <1>8, <1>9, <1>10, <1>11, <1>12, <1>13, <1>14, <1>15, <1>16, <1>17,
     <1>18, <1>19 DEF Next

(* A scene call that reported no error has done, on the lights nobody else *)
(* touched, what it read; a setProperty that was answered with OK has set  *)
(* every channel it named.                                                 *)
THEOREM AnsweredAsDone == Spec => AsAnswered
<1>1. ASSUME IInv, [Next]_vars, NEW h \in Handlers,
             job[h].op = "scene", job'[h] = Idle, job[h].ok,
             NEW r \in job[h].read, r.t # Root, r.t.dev \in job[h].clean, r.t.dev \in Lights,
             \A q \in job[h].read : q.t # r.t => q.t.dev \notin {r.t.dev, "root"},
             NEW w \in r.work, r.t.dev \in present
      PROVE  \/ out[r.t.dev][w.c] = w.v
             \/ w.how = "scene" /\ r.t.dev \in Native /\ out[r.t.dev][0] = Preset
  <2>1. job[h].work = {}
    BY <1>1, EndsWithoutWork
  <2>2. Sole(job[h], r)
    BY <1>1 DEF Sole
  <2>3. Achieved(r, w)
    BY <1>1, <2>1, <2>2 DEF IInv, CallTakesEffect
  <2> QED
    BY <2>3 DEF Achieved
<1>2. ASSUME IInv, [Next]_vars, NEW h \in Handlers,
             job[h].op = "property", job'[h] = Idle, job[h].ok,
             NEW w \in job[h].asked, w.t.dev \in job[h].clean
      PROVE  out[w.t.dev][w.c] = w.v
  <2>1. job[h].work = {}
    BY <1>2, EndsWithoutWork
  <2> QED
    BY <1>2, <2>1 DEF IInv, WriteTakesEffect
<1>3. IInv /\ [Next]_vars =>
      [\A h \in Handlers :
        job[h].op = "scene" /\ job'[h] = Idle /\ job[h].ok =>
            \A r \in job[h].read :
                r.t # Root /\ r.t.dev \in job[h].clean /\ r.t.dev \in Lights
                /\ (\A q \in job[h].read : q.t # r.t => q.t.dev \notin {r.t.dev, "root"}) =>
                    \A w \in r.work :
                        r.t.dev \in present =>
                            \/ out[r.t.dev][w.c] = w.v
                            \/ w.how = "scene" /\ r.t.dev \in Native /\ out[r.t.dev][0] = Preset]_vars
  BY <1>1
<1>4. IInv /\ [Next]_vars =>
      [\A h \in Handlers :
        job[h].op = "property" /\ job'[h] = Idle /\ job[h].ok =>
            \A w \in job[h].asked : w.t.dev \in job[h].clean => out[w.t.dev][w.c] = w.v]_vars
  BY <1>2
<1>5. Spec => SceneTakesEffect
  BY <1>3, Invariance, PTL DEF Spec, SceneTakesEffect
<1>6. Spec => AnswerTellsTruth
  BY <1>4, Invariance, PTL DEF Spec, AnswerTellsTruth
<1> QED
  BY <1>5, <1>6 DEF AsAnswered

(* Only a command or the device itself changes what a device has, and a    *)
(* command is for a device that its request is meant for; no command       *)
(* changes the level of a device that is no light.                         *)
THEOREM OnlyTheAddressed == Spec => OnlyAddressed
<1>1. ASSUME IInv, [Next]_vars, NEW d \in Devices, out'[d] # out[d]
      PROVE  \/ \E c \in Channels, v \in Values : DeviceChanges(d, c, v)
             \/ /\ \E h \in Handlers : d \in job[h].meant
                /\ out'[d][0] # out[d][0] => d \in Lights
  <2>1. out \in [Devices -> [Channels -> Outputs]]
    BY <1>1 DEF IInv, Types
  <2>2. CASE \E h \in Handlers : \E w \in job[h].work : Apply(h, w)
    <3>1. PICK h \in Handlers : \E w \in job[h].work : Apply(h, w)
      BY <2>2
    <3>2. PICK w \in job[h].work : Apply(h, w)
      BY <3>1
    <3>3. /\ out' \in [Devices -> [Channels -> Outputs]]
          /\ \A e \in Devices, c \in Channels :
               out'[e][c] # out[e][c] => e = w.t.dev /\ c = w.c /\ Reaches(w)
      BY <1>1, <3>2, ApplyFacts
    <3>4. \E c \in Channels : out'[d][c] # out[d][c]
      <4>1. out'[d] \in [Channels -> Outputs] /\ out[d] \in [Channels -> Outputs]
        BY <2>1, <3>3
      <4> QED
        BY <1>1, <4>1
    <3>5. d = w.t.dev
      BY <3>3, <3>4
    <3>6. d \in job[h].meant /\ (w.c = 0 /\ w.how # "stored" => d \in Lights)
      BY <1>1, <3>5 DEF IInv, JobInv, JobAddressed
    <3>7. out'[d][0] # out[d][0] => d \in Lights
      <4>1. 0 \in Channels
        BY DEF Channels
      <4> QED
        BY <3>3, <3>5, <3>6, <4>1 DEF Reaches
    <3> QED
      BY <3>6, <3>7
  <2>3. CASE \E e \in Devices, c \in Channels, v \in Values : DeviceChanges(e, c, v)
    <3>1. PICK e \in Devices, c \in Channels, v \in Values : DeviceChanges(e, c, v)
      BY <2>3
    <3>2. e = d
      BY <1>1, <2>1, <3>1 DEF DeviceChanges
    <3> QED
      BY <3>1, <3>2
  <2>4. CASE out' = out
    BY <1>1, <2>4
  <2>5. \/ out' = out
        \/ \E h \in Handlers : \E w \in job[h].work : Apply(h, w)
        \/ \E e \in Devices, c \in Channels, v \in Values : DeviceChanges(e, c, v)
    <3>1. CASE UNCHANGED vars
      BY <3>1 DEF vars
    <3>2. ASSUME NEW h \in Handlers, NEW a, NEW n, NEW c, NEW v,
                 \/ CallScene(h, a, n) \/ SaveScene(h, a, n) \/ UndoSceneJSON(h, a, n)
                 \/ SetOutputChannelValue(h, a, c, v)
          PROVE  out' = out
      BY <3>2 DEF CallScene, SaveScene, UndoSceneJSON, SetOutputChannelValue
    <3>3. ASSUME NEW h \in Handlers, NEW t, NEW ws, NEW s, NEW n, NEW c, NEW f, NEW v,
                 \/ ReadScene(h, t) \/ setPropertyFromPbuf(h, t, ws) \/ StoreScene(h, s)
                 \/ applySceneWrite(h, t, n, c, f, v)
          PROVE  out' = out
      BY <3>3 DEF ReadScene, setPropertyFromPbuf, StoreScene, applySceneWrite
    <3>4. ASSUME NEW h \in Handlers, NEW f, NEW v, NEW t,
                 ReadOutputState(h, f, v) \/ SetDeviceOutputState(h) \/ Finish(h) \/ Remove(h, t)
          PROVE  out' = out
      BY <3>4 DEF ReadOutputState, SetDeviceOutputState, Finish, Remove
    <3>5. ASSUME NEW e \in Devices, Register(e) \/ Reports(e) PROVE out' = out
      BY <3>5 DEF Register, Reports
    <3> QED
      BY <1>1, <3>1, <3>2, <3>3, <3>4, <3>5 DEF Next
  <2> QED
    BY <2>2, <2>3, <2>4, <2>5
<1>2. IInv /\ [Next]_vars =>
      [\A d \in Devices :
        out'[d] # out[d] =>
            \/ \E c \in Channels, v \in Values : DeviceChanges(d, c, v)
            \/ /\ \E h \in Handlers : d \in job[h].meant
               /\ out'[d][0] # out[d][0] => d \in Lights]_vars
  BY <1>1
<1> QED
  BY <1>2, Invariance, PTL DEF Spec, OnlyAddressed

(* The types that the runs check follow from the invariant.                *)
LEMMA TypesHold == IInv => TypeOK
<1> SUFFICES ASSUME IInv PROVE TypeOK
  OBVIOUS
<1>1. \A t \in DSUIDs, n \in Scenes : scenes[t][n] \in Entries
  BY DEF IInv, Types
<1>2. ASSUME NEW h \in Handlers
      PROVE  /\ job[h].op \in {"none", "scene", "save", "level", "property", "outputState"}
             /\ \A w \in job[h].work : w.t \in DSUIDs /\ w.c \in Channels /\ w.v \in Outputs
             /\ job[h].clean \subseteq Devices
  <2>1. job[h] \in Jobs
    BY DEF IInv, Types
  <2> QED
    BY <2>1 DEF Jobs, Ops, Works
<1> QED
  BY <1>1, <1>2 DEF IInv, Types, TypeOK

(* While nobody writes the output state it is what was last written, and a *)
(* save takes no channel and no flag from a scene.                         *)
THEOREM WhatWasWrittenStays == Spec => WritesStand
<1>1. IInv => TypeOK /\ LastWriteStands
  <2>1. IInv => LastWriteStands
    BY DEF IInv, StateIsLast, LastWriteStands
  <2> QED
    BY <2>1, TypesHold
<1>2. ASSUME IInv, [Next]_vars, NEW t \in DSUIDs, NEW n \in Scenes, NEW c \in Channels,
             scenes[t][n].channels[c].has
      PROVE  /\ scenes'[t][n].channels[c].has
             /\ \/ scenes'[t][n].channels[c].dontCare = scenes[t][n].channels[c].dontCare
                \/ \E h \in Handlers, v \in Values :
                     applySceneWrite(h, t, n, c, "channelDontCare", v)
  <2>1. scenes \in [DSUIDs -> [Scenes -> Entries]]
    BY <1>2 DEF IInv, Types
  <2>2. CASE \E h \in Handlers : \E s \in job[h].saves : StoreScene(h, s)
    <3>1. PICK h \in Handlers : \E s \in job[h].saves : StoreScene(h, s)
      BY <2>2
    <3>2. PICK s \in job[h].saves : StoreScene(h, s)
      BY <3>1
    <3>3. scenes' = [scenes EXCEPT
                      ![s.t][job[h].scene] = Merge(scenes[s.t][job[h].scene], s.values)]
      BY <3>2 DEF StoreScene
    <3>4. CASE s.t = t /\ job[h].scene = n
      <4>1. scenes'[t][n] = Merge(scenes[t][n], s.values)
        BY <2>1, <3>3, <3>4
      <4>2. Merge(scenes[t][n], s.values).channels[c] =
              IF s.values[c] = None THEN scenes[t][n].channels[c]
              ELSE [has |-> TRUE, value |-> s.values[c],
                    dontCare |-> scenes[t][n].channels[c].dontCare]
        BY DEF Merge
      <4> QED
        BY <1>2, <4>1, <4>2
    <3>5. CASE ~(s.t = t /\ job[h].scene = n)
      BY <1>2, <2>1, <3>3, <3>5
    <3> QED
      BY <3>4, <3>5
  <2>3. CASE \E h \in Handlers, u \in DSUIDs, m \in Scenes, k \in Channels, v \in Values,
                f \in {"value", "channelDontCare", "dontCare", "effect"} :
                applySceneWrite(h, u, m, k, f, v)
    <3>1. PICK h \in Handlers, u \in DSUIDs, m \in Scenes, k \in Channels, v \in Values,
               f \in {"value", "channelDontCare", "dontCare", "effect"} :
                 applySceneWrite(h, u, m, k, f, v)
      BY <2>3
    <3> DEFINE e == scenes[t][n]
               written == WrittenChannel(e.channels[c], f, v)
    <3>2. scenes' = [scenes EXCEPT ![u][m] = WrittenEntry(scenes[u][m], k, f, v)]
      BY <3>1 DEF applySceneWrite
    <3>3. CASE u = t /\ m = n /\ k = c
      <4>1. scenes'[t][n] = WrittenEntry(e, c, f, v)
        BY <2>1, <3>2, <3>3
      <4>2. e.channels \in [Channels -> [has : BOOLEAN, value : Outputs, dontCare : BOOLEAN]]
        BY <2>1 DEF Entries
      <4>3. WrittenEntry(e, c, f, v).channels = [e.channels EXCEPT ![c] = written]
        BY DEF WrittenEntry
      <4>4. scenes'[t][n].channels[c] = written
        <5> HIDE DEF written
        <5> QED
          BY <4>1, <4>2, <4>3
      <4>5. written.has /\ (written.dontCare = e.channels[c].dontCare \/ f = "channelDontCare")
        <5>1. e.channels[c] \in [has : BOOLEAN, value : Outputs, dontCare : BOOLEAN]
          BY <4>2
        <5>2. e.channels[c].has
          BY <1>2
        <5> HIDE DEF e
        <5> QED
          BY <5>1, <5>2 DEF WrittenChannel
      <4> HIDE DEF written, e
      <4>6. CASE f = "channelDontCare"
        BY <3>1, <3>3, <4>4, <4>5, <4>6
      <4>7. CASE written.dontCare = e.channels[c].dontCare
        BY <4>4, <4>5, <4>7 DEF e
      <4> QED
        BY <4>5, <4>6, <4>7
    <3>4. CASE u = t /\ m = n /\ k # c
      <4>1. scenes'[t][n] = WrittenEntry(e, k, f, v)
        BY <2>1, <3>2, <3>4
      <4>2. e.channels \in [Channels -> [has : BOOLEAN, value : Outputs, dontCare : BOOLEAN]]
        BY <2>1 DEF Entries
      <4>3. WrittenEntry(e, k, f, v).channels
              = [e.channels EXCEPT ![k] = WrittenChannel(e.channels[k], f, v)]
        BY DEF WrittenEntry
      <4>4. scenes'[t][n].channels[c] = e.channels[c]
        BY <3>4, <4>1, <4>2, <4>3
      <4> QED
        BY <1>2, <4>4
    <3>5. CASE ~(u = t /\ m = n)
      BY <1>2, <2>1, <3>2, <3>5
    <3> QED
      BY <3>3, <3>4, <3>5
  <2>4. CASE scenes' = scenes
    BY <1>2, <2>4
  <2>5. \/ scenes' = scenes
        \/ \E h \in Handlers : \E s \in job[h].saves : StoreScene(h, s)
        \/ \E h \in Handlers, u \in DSUIDs, m \in Scenes, k \in Channels, v \in Values,
              f \in {"value", "channelDontCare", "dontCare", "effect"} :
              applySceneWrite(h, u, m, k, f, v)
    <3>1. CASE UNCHANGED vars
      BY <3>1 DEF vars
    <3>2. ASSUME NEW h \in Handlers, NEW a, NEW m, NEW k, NEW v,
                 \/ CallScene(h, a, m) \/ SaveScene(h, a, m) \/ UndoSceneJSON(h, a, m)
                 \/ SetOutputChannelValue(h, a, k, v)
          PROVE  scenes' = scenes
      BY <3>2 DEF CallScene, SaveScene, UndoSceneJSON, SetOutputChannelValue
    <3>3. ASSUME NEW h \in Handlers, NEW u, NEW ws, NEW w,
                 ReadScene(h, u) \/ setPropertyFromPbuf(h, u, ws) \/ Apply(h, w)
          PROVE  scenes' = scenes
      BY <3>3 DEF ReadScene, setPropertyFromPbuf, Apply
    <3>4. ASSUME NEW h \in Handlers, NEW f, NEW v, NEW u,
                 ReadOutputState(h, f, v) \/ SetDeviceOutputState(h) \/ Finish(h) \/ Remove(h, u)
          PROVE  scenes' = scenes
      BY <3>4 DEF ReadOutputState, SetDeviceOutputState, Finish, Remove
    <3>5. ASSUME NEW e \in Devices, NEW k, NEW v,
                 Register(e) \/ Reports(e) \/ DeviceChanges(e, k, v)
          PROVE  scenes' = scenes
      BY <3>5 DEF Register, Reports, DeviceChanges
    <3> QED
      BY <1>2, <3>1, <3>2, <3>3, <3>4, <3>5 DEF Next
  <2> QED
    BY <2>2, <2>3, <2>4, <2>5
<1>3. IInv /\ [Next]_vars =>
      [\A t \in DSUIDs, n \in Scenes, c \in Channels :
        scenes[t][n].channels[c].has =>
            /\ scenes'[t][n].channels[c].has
            /\ \/ scenes'[t][n].channels[c].dontCare = scenes[t][n].channels[c].dontCare
               \/ \E h \in Handlers, v \in Values : applySceneWrite(h, t, n, c, "channelDontCare", v)]_vars
  BY <1>2
<1>4. Spec => SavesTakeNothing
  BY <1>3, Invariance, PTL DEF Spec, SavesTakeNothing
<1>5. Spec => [](TypeOK /\ LastWriteStands)
  BY <1>1, Invariance, PTL
<1> QED
  BY <1>4, <1>5 DEF WritesStand

===============================================================================
