----------------------------- MODULE ServerProofs -----------------------------
(***************************************************************************)
(* Proofs about the bridge's two servers: the dim ramps and the session of *)
(* PbufServer (DimRamp, whose names carry the prefix Ramp, and             *)
(* PbufSession, with the prefix Session), for any number of devices,       *)
(* handlers and ramps, any level range and step, and any number of         *)
(* connections and vDSMs; and the event stream of the HTTP server with the *)
(* rings that it polls (EventBuffer), for any number of publishers, any    *)
(* capacities and any number of events.                                    *)
(***************************************************************************)
EXTENDS DimRamp, PbufSession, EventBuffer, TLAPS

-----------------------------------------------------------------------------
(* The dim ramps                                                           *)
(*                                                                         *)
(* NoOrphanRamp is not inductive by itself.  finish keeps another ramp's   *)
(* entry only because entries of two devices differ, which is part of      *)
(* ActiveIsLive; and ActiveIsLive survives cancel only because a context   *)
(* that a handler has taken out of the map is in no entry (HandedOver).    *)

(* A context waiting to be cancelled is no longer in the active map: stop  *)
(* and stopAll delete the entry before they unlock.                        *)
HandedOver ==
    \A h \in Handlers : \A r \in pending[h] : \A d \in Devices : active[d] # r

RampIInv == RampTypeOK /\ NoOrphanRamp /\ ActiveIsLive /\ HandedOver

-----------------------------------------------------------------------------

(* A level clamped to the range is in the range.                           *)
LEMMA ClampInRange == \A v \in Int : clampLevel(v) \in Levels
BY RampAssumption DEF clampLevel, Levels

(* A tick leaves the value of a ramp in the level range.                   *)
LEMMA TickInRange == \A up \in BOOLEAN, v \in Levels : NextValue(up, v) \in Levels
<1>1. SUFFICES ASSUME NEW up \in BOOLEAN, NEW v \in Levels
               PROVE  NextValue(up, v) \in Levels
  OBVIOUS
<1>2. v + LevelStep \in Int /\ v - LevelStep \in Int
  BY RampAssumption DEF Levels
<1>3. QED
  BY <1>2, ClampInRange DEF NextValue

-----------------------------------------------------------------------------
(* The type invariant *)

LEMMA RampTypeInit == RampInit => RampTypeOK
<1>1. 0 \in Levels
  BY RampAssumption DEF Levels
<1>2. QED
  BY <1>1 DEF RampInit, RampTypeOK, RampState

LEMMA RampTypeNext == RampTypeOK /\ [RampNext]_rampVars => RampTypeOK'
<1> SUFFICES ASSUME RampTypeOK, [RampNext]_rampVars PROVE RampTypeOK'
  OBVIOUS
<1> USE DEF RampTypeOK
<1>1. ASSUME NEW h \in Handlers, NEW d \in Devices, NEW up \in BOOLEAN, start(h, d, up)
      PROVE  RampTypeOK'
  <2>1. clampLevel(stored[d]) \in Levels
    BY ClampInRange DEF Levels
  <2>2. CASE UNCHANGED <<active, ramp>>
    BY <1>1, <2>2 DEF start
  <2>3. CASE ~ UNCHANGED <<active, ramp>>
    <3>1. PICK r \in Ramps :
            /\ active' = [active EXCEPT ![d] = r]
            /\ ramp' = [q \in Ramps |->
                 IF q = r
                 THEN [pc |-> "select", dev |-> d, up |-> up,
                       value |-> clampLevel(stored[d]), cancelled |-> FALSE]
                 ELSE IF q = active[d]
                      THEN [ramp[q] EXCEPT !.cancelled = TRUE]
                      ELSE ramp[q]]
      BY <1>1, <2>3 DEF start
    <3>2. \A q \in Ramps : [ramp[q] EXCEPT !.cancelled = TRUE] \in RampState
      BY DEF RampState
    <3>3. [pc |-> "select", dev |-> d, up |-> up,
           value |-> clampLevel(stored[d]), cancelled |-> FALSE] \in RampState
      BY <2>1 DEF RampState
    <3>4. ramp' \in [Ramps -> RampState]
      BY <3>1, <3>2, <3>3
    <3>5. QED
      BY <1>1, <3>1, <3>4 DEF start
  <2>4. QED
    BY <2>2, <2>3
<1>2. ASSUME NEW h \in Handlers, NEW d \in Devices, stop(h, d) PROVE RampTypeOK'
  BY <1>2 DEF stop
<1>3. ASSUME NEW h \in Handlers, NEW r \in Ramps, cancel(h, r) PROVE RampTypeOK'
  BY <1>3 DEF cancel, RampState
<1>4. ASSUME NEW h \in Handlers, NEW d \in Devices, NEW v \in Commands, applyLevel(h, d, v)
      PROVE  RampTypeOK'
  <2>1. clampLevel(v) \in Levels
    BY ClampInRange, RampAssumption
  <2>2. QED
    BY <1>4, <2>1 DEF applyLevel
<1>5. ASSUME NEW h \in Handlers, stopAll(h) PROVE RampTypeOK'
  <2>1. {active[d] : d \in Devices} \ {NoRamp} \in SUBSET Ramps
    OBVIOUS
  <2>2. pending' \in [Handlers -> SUBSET Ramps]
    BY <1>5, <2>1 DEF stopAll
  <2>3. active' \in [Devices -> Ramps \cup {NoRamp}]
    BY <1>5 DEF stopAll
  <2>4. QED
    BY <1>5, <2>2, <2>3 DEF stopAll
<1>6. ASSUME NEW r \in Ramps, Tick(r) PROVE RampTypeOK'
  <2>1. NextValue(ramp[r].up, ramp[r].value) \in Levels
    BY TickInRange DEF RampState
  <2>2. QED
    BY ZenonT(60), <1>6, <2>1 DEF Tick, RampState
<1>7. ASSUME NEW r \in Ramps, Cancelled(r) PROVE RampTypeOK'
  BY <1>7 DEF Cancelled, RampState
<1>8. ASSUME NEW r \in Ramps, Apply(r) PROVE RampTypeOK'
  BY <1>8 DEF Apply, RampState
<1>9. ASSUME NEW r \in Ramps, finish(r) PROVE RampTypeOK'
  BY <1>9 DEF finish, RampState
<1>10. ASSUME NEW d \in Devices, ReportLevel(d) PROVE RampTypeOK'
  BY <1>10 DEF ReportLevel
<1>11. CASE UNCHANGED rampVars
  BY <1>11 DEF rampVars
<1>12. QED
  BY <1>1, <1>2, <1>3, <1>4, <1>5, <1>6, <1>7, <1>8, <1>9, <1>10, <1>11
  DEF RampNext, DimHandlerStep, RampStep

(* Every level commanded to a device, stored for it or held by a ramp      *)
(* stays within the range, whatever step the tick interval and the sweep   *)
(* duration give.                                                          *)
THEOREM RampTypeCorrect == RampSpec => []RampTypeOK
BY RampTypeInit, RampTypeNext, PTL DEF RampSpec

-----------------------------------------------------------------------------
(* The inductive invariant *)

LEMMA RampInvInit == RampInit => RampIInv
<1> SUFFICES ASSUME RampInit PROVE RampIInv
  OBVIOUS
<1>1. RampTypeOK
  BY RampTypeInit
<1>2. NoOrphanRamp
  BY <1>1 DEF RampInit, NoOrphanRamp, Driving, Running
<1>3. ActiveIsLive /\ HandedOver
  BY DEF RampInit, ActiveIsLive, HandedOver
<1>4. QED
  BY <1>1, <1>2, <1>3 DEF RampIInv

LEMMA RampInvNext == RampIInv /\ [RampNext]_rampVars => RampIInv'
<1> SUFFICES ASSUME RampIInv, [RampNext]_rampVars PROVE RampIInv'
  OBVIOUS
<1>0. RampTypeOK'
  BY RampTypeNext DEF RampIInv
<1> DEFINE Rest == NoOrphanRamp /\ ActiveIsLive /\ HandedOver
<1> USE RampAssumption DEF RampIInv, RampTypeOK
<1>1. ASSUME NEW h \in Handlers, NEW d \in Devices, NEW up \in BOOLEAN, start(h, d, up)
      PROVE  Rest'
  <2>1. CASE UNCHANGED <<active, ramp>>
    BY <1>1, <2>1 DEF start, NoOrphanRamp, ActiveIsLive, HandedOver, Driving, Running,
                      BeingCancelled
  <2>2. CASE ~ UNCHANGED <<active, ramp>>
    <3>1. PICK r \in Ramps :
            /\ FreshSlot(r)
            /\ active' = [active EXCEPT ![d] = r]
            /\ ramp' = [q \in Ramps |->
                 IF q = r
                 THEN [pc |-> "select", dev |-> d, up |-> up,
                       value |-> clampLevel(stored[d]), cancelled |-> FALSE]
                 ELSE IF q = active[d]
                      THEN [ramp[q] EXCEPT !.cancelled = TRUE]
                      ELSE ramp[q]]
            /\ pending' = pending
      BY <1>1, <2>2 DEF start
    <3>2. ramp'[r].pc = "select" /\ ramp'[r].dev = d /\ ~ramp'[r].cancelled
      BY <3>1
    <3>3. ASSUME NEW q \in Ramps, q # r
          PROVE  /\ ramp'[q].pc = ramp[q].pc /\ ramp'[q].dev = ramp[q].dev
                 /\ ramp'[q].cancelled => ramp[q].cancelled \/ q = active[d]
                 /\ ~ramp'[q].cancelled => ~ramp[q].cancelled /\ q # active[d]
      <4>1. CASE q = active[d]
        <5>1. ramp'[q] = [ramp[q] EXCEPT !.cancelled = TRUE]
          BY <3>1, <3>3, <4>1
        <5>2. QED
          BY <4>1, <5>1 DEF RampState
      <4>2. CASE q # active[d]
        <5>1. ramp'[q] = ramp[q]
          BY <3>1, <3>3, <4>2
        <5>2. QED
          BY <4>2, <5>1
      <4>3. QED
        BY <4>1, <4>2
    <3>4. \A q \in Ramps : BeingCancelled(q) => BeingCancelled(q)'
      BY <3>1 DEF BeingCancelled
    <3>5. active'[d] = r /\ \A e \in Devices : e # d => active'[e] = active[e]
      BY <3>1
    <3>6. NoOrphanRamp'
      <4>1. SUFFICES ASSUME NEW q \in Ramps, Driving(q)', q # r
                     PROVE  active'[ramp'[q].dev] = q \/ BeingCancelled(q)'
        BY <3>2, <3>5 DEF NoOrphanRamp
      <4>2. Driving(q) /\ q # active[d] /\ ramp'[q].dev = ramp[q].dev
        BY <3>3, <4>1 DEF Driving, Running
      <4>3. ramp[q].dev \in Devices
        BY DEF RampState
      <4>4. QED
        BY <3>4, <3>5, <4>2, <4>3 DEF NoOrphanRamp
    <3>7. ActiveIsLive'
      <4>1. SUFFICES ASSUME NEW e \in Devices, active'[e] # NoRamp, e # d
                     PROVE  /\ ramp'[active'[e]].dev = e
                            /\ ramp'[active'[e]].pc # "idle"
                            /\ ~ramp'[active'[e]].cancelled
        BY <3>2, <3>5 DEF ActiveIsLive
      <4>2. active'[e] = active[e] /\ active[e] # r /\ active[e] \in Ramps
        BY <3>1, <3>5, <4>1 DEF FreshSlot
      <4>3. active[e] # active[d]
        BY <4>1, <4>2 DEF ActiveIsLive
      <4>4. QED
        BY <3>3, <4>1, <4>2, <4>3 DEF ActiveIsLive
    <3>8. HandedOver'
      BY <3>1 DEF HandedOver, FreshSlot
    <3>9. QED
      BY <3>6, <3>7, <3>8
  <2>3. QED
    BY <2>1, <2>2
<1>2. ASSUME NEW h \in Handlers, NEW d \in Devices, stop(h, d) PROVE Rest'
  <2>1. NoOrphanRamp'
    BY <1>2 DEF stop, NoOrphanRamp, Driving, Running, BeingCancelled, RampState
  <2>2. ActiveIsLive'
    BY <1>2 DEF stop, ActiveIsLive
  <2>3. HandedOver'
    BY <1>2 DEF stop, HandedOver, ActiveIsLive
  <2>4. QED
    BY <2>1, <2>2, <2>3
<1>3. ASSUME NEW h \in Handlers, NEW r \in Ramps, cancel(h, r) PROVE Rest'
  <2>1. NoOrphanRamp'
    BY <1>3 DEF cancel, NoOrphanRamp, Driving, Running, BeingCancelled, RampState
  <2>2. ActiveIsLive'
    BY <1>3 DEF cancel, ActiveIsLive, HandedOver, RampState
  <2>3. HandedOver'
    BY <1>3 DEF cancel, HandedOver
  <2>4. QED
    BY <2>1, <2>2, <2>3
<1>4. ASSUME NEW h \in Handlers, NEW d \in Devices, NEW v \in Commands, applyLevel(h, d, v)
      PROVE  Rest'
  BY <1>4 DEF applyLevel, NoOrphanRamp, ActiveIsLive, HandedOver, Driving, Running,
              BeingCancelled
<1>5. ASSUME NEW h \in Handlers, stopAll(h) PROVE Rest'
  <2>1. NoOrphanRamp'
    BY <1>5 DEF stopAll, NoOrphanRamp, Driving, Running, BeingCancelled, RampState
  <2>2. ActiveIsLive' /\ HandedOver'
    BY <1>5 DEF stopAll, ActiveIsLive, HandedOver
  <2>3. QED
    BY <2>1, <2>2
<1>6. ASSUME NEW r \in Ramps, Tick(r) PROVE Rest'
  <2>1. /\ active' = active /\ pending' = pending
        /\ \A q \in Ramps : /\ ramp'[q].dev = ramp[q].dev
                            /\ ramp'[q].cancelled = ramp[q].cancelled
                            /\ ramp'[q].pc = "idle" <=> ramp[q].pc = "idle"
                            /\ Running(q)' <=> Running(q)
    BY <1>6 DEF Tick, Running, RampState
  <2>2. QED
    BY <2>1 DEF NoOrphanRamp, ActiveIsLive, HandedOver, Driving, BeingCancelled
<1>7. ASSUME NEW r \in Ramps, Cancelled(r) PROVE Rest'
  <2>1. NoOrphanRamp'
    BY <1>7 DEF Cancelled, NoOrphanRamp, Driving, Running, BeingCancelled, RampState
  <2>2. ActiveIsLive' /\ HandedOver'
    BY <1>7 DEF Cancelled, ActiveIsLive, HandedOver, RampState
  <2>3. QED
    BY <2>1, <2>2
<1>8. ASSUME NEW r \in Ramps, Apply(r) PROVE Rest'
  <2>1. /\ active' = active /\ pending' = pending
        /\ \A q \in Ramps : /\ ramp'[q].dev = ramp[q].dev
                            /\ ramp'[q].cancelled = ramp[q].cancelled
                            /\ ramp'[q].pc = "idle" <=> ramp[q].pc = "idle"
                            /\ Running(q)' => Running(q)
    BY <1>8 DEF Apply, Running, RampState
  <2>2. QED
    BY <2>1 DEF NoOrphanRamp, ActiveIsLive, HandedOver, Driving, BeingCancelled
<1>9. ASSUME NEW r \in Ramps, finish(r) PROVE Rest'
  <2>1. NoOrphanRamp'
    BY <1>9 DEF finish, NoOrphanRamp, Driving, Running, BeingCancelled, RampState
  <2>2. ActiveIsLive'
    BY <1>9 DEF finish, ActiveIsLive, RampState
  <2>3. HandedOver'
    BY <1>9 DEF finish, HandedOver
  <2>4. QED
    BY <2>1, <2>2, <2>3
<1>10. ASSUME NEW d \in Devices, ReportLevel(d) PROVE Rest'
  BY <1>10 DEF ReportLevel, NoOrphanRamp, ActiveIsLive, HandedOver, Driving, Running,
               BeingCancelled
<1>11. CASE UNCHANGED rampVars
  BY <1>11 DEF rampVars, NoOrphanRamp, ActiveIsLive, HandedOver, Driving, Running,
               BeingCancelled
<1>12. Rest'
  BY <1>1, <1>2, <1>3, <1>4, <1>5, <1>6, <1>7, <1>8, <1>9, <1>10, <1>11
  DEF RampNext, DimHandlerStep, RampStep
<1>13. QED
  BY <1>0, <1>12

(* The inductive invariant holds in every reachable state.                 *)
THEOREM RampInvariance == RampSpec => []RampIInv
BY RampInvInit, RampInvNext, PTL DEF RampSpec

(* A ramp goroutine that drives its device is always reachable through     *)
(* dimRampManager.active, or its cancellation is already under way.        *)
THEOREM NoRampEscapes == RampSpec => []NoOrphanRamp
<1>1. RampIInv => NoOrphanRamp
  BY DEF RampIInv
<1>2. QED
  BY <1>1, RampInvariance, PTL

(* The active map holds no handle of an ended or a cancelled ramp.         *)
THEOREM ActiveEntriesAreLive == RampSpec => []ActiveIsLive
<1>1. RampIInv => ActiveIsLive
  BY DEF RampIInv
<1>2. QED
  BY <1>1, RampInvariance, PTL

(* Levels stay in range, a ramp that drives a device can be found, and the *)
(* active map holds no dead handle: no ramp gets lost.                     *)
THEOREM RampsAreTracked == RampSpec => []RampsTracked
<1>1. RampTypeOK /\ NoOrphanRamp /\ ActiveIsLive => RampsTracked
  BY DEF RampsTracked
<1>2. QED
  BY <1>1, RampTypeCorrect, NoRampEscapes, ActiveEntriesAreLive, PTL

-----------------------------------------------------------------------------
(* Stopping *)

(* A device whose last dim notification was a stop has no entry.           *)
Stopped == \A d \in Devices : request[d] = "stop" => active[d] = NoRamp

LEMMA StoppedNext == RampTypeOK /\ Stopped /\ [RampNext]_rampVars => Stopped'
<1> SUFFICES ASSUME RampTypeOK, Stopped, [RampNext]_rampVars PROVE Stopped'
  OBVIOUS
<1> USE DEF RampTypeOK, Stopped
<1>1. ASSUME NEW h \in Handlers, NEW d \in Devices, NEW up \in BOOLEAN, start(h, d, up)
      PROVE  Stopped'
  <2>1. \A e \in Devices : e # d => active'[e] = active[e] /\ request'[e] = request[e]
    BY <1>1 DEF start
  <2>2. request'[d] # "stop"
    BY <1>1 DEF start
  <2>3. QED
    BY <2>1, <2>2
<1>2. ASSUME NEW h \in Handlers, NEW d \in Devices, stop(h, d) PROVE Stopped'
  BY <1>2 DEF stop
<1>3. ASSUME NEW h \in Handlers, stopAll(h) PROVE Stopped'
  BY <1>3 DEF stopAll
<1>4. ASSUME NEW r \in Ramps, finish(r) PROVE Stopped'
  BY <1>4 DEF finish
<1>5. CASE UNCHANGED <<active, request>>
  BY <1>5
<1>6. QED
  BY <1>1, <1>2, <1>3, <1>4, <1>5
  DEF RampNext, DimHandlerStep, RampStep, cancel, applyLevel, Tick, Cancelled, Apply, ReportLevel,
      rampVars

(* A handled dimChannel 0 leaves no ramp driving the device, whatever      *)
(* other handlers and ramps do, until the next dim notification for it.    *)
THEOREM StopTakesEffect == RampSpec => []StopIsEffective
<1>1. RampInit => Stopped
  BY DEF RampInit, Stopped
<1>2. RampIInv /\ Stopped => StopIsEffective
  BY RampAssumption DEF RampIInv, RampTypeOK, RampState, NoOrphanRamp, Stopped, StopIsEffective
<1>3. QED
  BY <1>1, <1>2, StoppedNext, RampTypeCorrect, RampInvariance, PTL DEF RampSpec

-----------------------------------------------------------------------------
(* The session                                                             *)
(*                                                                         *)
(* TakenOverIsClosed speaks of connections whose session is active, but a  *)
(* handler is replaced as soon as it has claimed the session, before it    *)
(* marks the session active.  The inductive invariant therefore speaks of  *)
(* claims (ClaimIsOwned), and remembers what the local variables of a      *)
(* handler hold at each place (Locals).                                    *)

(* The handler has claimed the session and not yet left its loop.          *)
Claimed(c) == pc[c] \in {"replace", "accept"} \/ (pc[c] \in InLoop /\ sess[c] # NoVdsm)

(* A claim on an open connection that nobody is about to close is the      *)
(* current one.                                                            *)
ClaimIsOwned ==
    \A c \in Conns :
        Claimed(c) /\ sock[c] # "closed" /\ ~AboutToBeClosed(c) => sessionConn = c

(* The owner has claimed the session, until it leaves its loop.            *)
OwnerHasClaim == \A c \in Conns : sessionConn = c /\ pc[c] \in InLoop => Claimed(c)

(* What a handler knows about its own session and its Hello.               *)
Locals ==
    \A c \in Conns :
        /\ pc[c] = "none" => sess[c] = NoVdsm
        /\ pc[c] = "serve" => sess[c] # NoVdsm
        /\ pc[c] \in {"replace", "accept"} =>
             /\ hello[c] # NoVdsm
             /\ sess[c] \in {NoVdsm, hello[c]}
             /\ sessionConn = c => hello[c] = sessionDSUID

SessionInv == /\ SessionTypeOK
        /\ ClaimIsOwned
        /\ OwnerHasClaim
        /\ Locals
        /\ NoLeakedOwner
        /\ OwnerMatchesSession
        /\ ConnectedIsReal
        /\ LiveIsShown

-----------------------------------------------------------------------------

LEMMA SessionInvInit == SessionInit => SessionInv
<1> SUFFICES ASSUME SessionInit PROVE SessionInv
  OBVIOUS
<1>1. SessionTypeOK
  BY DEF SessionInit, SessionTypeOK
<1>2. ClaimIsOwned /\ OwnerHasClaim /\ Locals
  BY SessionAssumption DEF SessionInit, ClaimIsOwned, OwnerHasClaim, Locals, Claimed, InLoop
<1>3. NoLeakedOwner /\ OwnerMatchesSession /\ ConnectedIsReal
  BY SessionAssumption DEF SessionInit, NoLeakedOwner, OwnerMatchesSession, ConnectedIsReal
<1>4. LiveIsShown
  BY DEF SessionInit, LiveIsShown, Live
<1> QED BY <1>1, <1>2, <1>3, <1>4 DEF SessionInv

LEMMA SessionTypeNext == SessionTypeOK /\ [SessionNext]_sessionVars => SessionTypeOK'
<1> SUFFICES ASSUME SessionTypeOK, [SessionNext]_sessionVars PROVE SessionTypeOK'
  OBVIOUS
<1> USE SessionAssumption DEF SessionTypeOK, InLoop, Teardown, Goto, owner, shown, server, HiddenBy
<1>1. ASSUME NEW c \in Conns, HandlerStep(c) PROVE SessionTypeOK'
  <2>1. CASE ReadFails(c) \/ RejectHello(c) \/ WriteFrames(c) \/ Serve(c)
    BY <2>1 DEF ReadFails, RejectHello, WriteFrames, Serve
  <2>2. CASE claimSessionOwner(c)
    BY <2>2 DEF claimSessionOwner
  <2>3. CASE CloseReplaced(c)
    BY <2>3 DEF CloseReplaced
  <2>4. CASE AcceptHello(c)
    BY <2>4 DEF AcceptHello
  <2>5. CASE setDisconnected(c)
    BY <2>5 DEF setDisconnected
  <2>6. CASE releaseSessionOwner(c) \/ Close(c)
    BY <2>6 DEF releaseSessionOwner, Close
  <2>7. QED
    BY <1>1, <2>1, <2>2, <2>3, <2>4, <2>5, <2>6 DEF HandlerStep
<1>2. ASSUME NEW c \in Conns, PeerStep(c) PROVE SessionTypeOK'
  <2>1. CASE Accept(c) \/ PeerGone(c) \/ BadFrame(c) \/ ReadRequest(c) \/ ReadBye(c)
    BY <2>1 DEF Accept, PeerGone, BadFrame, ReadRequest, ReadBye
  <2>2. ASSUME NEW v \in Vdsms \cup {NoVdsm}, ReadHello(c, v) PROVE SessionTypeOK'
    BY <2>2 DEF ReadHello
  <2>3. QED
    BY <1>2, <2>1, <2>2 DEF PeerStep
<1>3. ASSUME NEW c \in Conns, PushFails(c) \/ CloseOnDone(c) PROVE SessionTypeOK'
  BY <1>3 DEF PushFails, CloseOnDone
<1>4. CASE Cancel \/ CloseListener
  BY <1>4 DEF Cancel, CloseListener
<1>5. CASE UNCHANGED sessionVars
  BY <1>5 DEF sessionVars
<1>6. QED
  BY <1>1, <1>2, <1>3, <1>4, <1>5 DEF SessionNext

(* The state of every connection and of the server stays well typed, and   *)
(* a handler holds another connection exactly between its claim and the    *)
(* close: it never closes a nil one.                                       *)
THEOREM SessionTypeCorrect == SessionSpec => []SessionTypeOK
<1>1. SessionInit => SessionTypeOK
  BY SessionInvInit DEF SessionInv
<1>2. QED
  BY <1>1, SessionTypeNext, PTL DEF SessionSpec

-----------------------------------------------------------------------------

(* Only AcceptHello makes a session live, and the status changes there and *)
(* in setDisconnected alone; both set aside the other sessions.            *)
LEMMA ShownNext == SessionInv /\ [SessionNext]_sessionVars => LiveIsShown'
<1> SUFFICES ASSUME SessionInv, [SessionNext]_sessionVars PROVE LiveIsShown'
  OBVIOUS
<1>0. LiveIsShown /\ Locals /\ SessionTypeOK
  BY DEF SessionInv
<1>1. ASSUME UNCHANGED <<status, hidden>>,
             \A d \in Conns : Live(d)' => Live(d) /\ sess'[d] = sess[d]
      PROVE  LiveIsShown'
  BY <1>0, <1>1 DEF LiveIsShown
<1>2. ASSUME NEW c \in Conns, HandlerStep(c) PROVE LiveIsShown'
  <2>1. CASE AcceptHello(c)
    <3>1. \A d \in Conns : sess'[d] = IF d = c THEN hello[c] ELSE sess[d]
      BY <1>0, <2>1 DEF AcceptHello, SessionTypeOK
    <3>2. \A d \in Conns \ {c} : Live(d)' => d \in hidden'
      BY <2>1, <3>1 DEF AcceptHello, HiddenBy, Live
    <3> QED BY <2>1, <3>1, <3>2 DEF AcceptHello, LiveIsShown
  <2>2. CASE setDisconnected(c)
    <3>1. \A d \in Conns \ {c} : Live(d)' => d \in hidden'
      BY <2>2 DEF setDisconnected, HiddenBy, Live
    <3>2. ~ Live(c)'
      BY <1>0, <2>2 DEF setDisconnected, Live, Goto, InLoop, SessionTypeOK
    <3> QED BY <3>1, <3>2 DEF LiveIsShown
  <2>3. CASE claimSessionOwner(c)
    BY <1>0, <1>1, <2>3
    DEF claimSessionOwner, SessionTypeOK, Live, AboutToBeClosed, InLoop, Goto, owner, shown, server
  <2>4. CASE CloseReplaced(c)
    BY <1>0, <1>1, <2>4
    DEF CloseReplaced, SessionTypeOK, Live, AboutToBeClosed, InLoop, Goto, owner, shown, server
  <2>5. CASE ReadFails(c) \/ RejectHello(c) \/ WriteFrames(c) \/ Serve(c)
             \/ releaseSessionOwner(c) \/ Close(c)
    BY <1>0, <1>1, <2>5
    DEF ReadFails, RejectHello, WriteFrames, Serve, releaseSessionOwner, Close, SessionTypeOK, Live,
        AboutToBeClosed, InLoop, Goto, owner, shown, server
  <2> QED BY <1>2, <2>1, <2>2, <2>3, <2>4, <2>5 DEF HandlerStep
<1>3. ASSUME NEW c \in Conns, PeerStep(c) PROVE LiveIsShown'
  <2>1. CASE Accept(c)
    BY <1>0, <1>1, <2>1
    DEF Accept, Locals, SessionTypeOK, Live, AboutToBeClosed, InLoop, Goto, owner, shown, server
  <2>2. CASE PeerGone(c) \/ BadFrame(c) \/ ReadRequest(c) \/ ReadBye(c)
    BY <1>0, <1>1, <2>2
    DEF PeerGone, BadFrame, ReadRequest, ReadBye, SessionTypeOK, Live, AboutToBeClosed, InLoop, Goto,
        owner, shown, server
  <2>3. ASSUME NEW v \in Vdsms \cup {NoVdsm}, ReadHello(c, v) PROVE LiveIsShown'
    BY <1>0, <1>1, <2>3
    DEF ReadHello, SessionTypeOK, Live, AboutToBeClosed, InLoop, Goto, owner, shown, server
  <2> QED BY <1>3, <2>1, <2>2, <2>3 DEF PeerStep
<1>4. ASSUME NEW c \in Conns, PushFails(c) \/ CloseOnDone(c) PROVE LiveIsShown'
  BY <1>0, <1>1, <1>4
  DEF PushFails, CloseOnDone, SessionTypeOK, Live, AboutToBeClosed, owner, shown, server
<1>5. CASE Cancel \/ CloseListener \/ UNCHANGED sessionVars
  BY <1>1, <1>5 DEF Cancel, CloseListener, sessionVars, Live, AboutToBeClosed, owner, shown, server
<1> QED BY <1>2, <1>3, <1>4, <1>5 DEF SessionNext

(* Every step keeps the inductive invariant.                               *)
LEMMA SessionInvNext == SessionInv /\ [SessionNext]_sessionVars => SessionInv'
<1> SUFFICES ASSUME SessionInv, [SessionNext]_sessionVars PROVE SessionInv'
  OBVIOUS
<1>0. SessionTypeOK' /\ LiveIsShown'
  BY SessionTypeNext, ShownNext DEF SessionInv
<1> DEFINE Safe == ClaimIsOwned /\ OwnerHasClaim /\ Locals /\ NoLeakedOwner
                   /\ OwnerMatchesSession /\ ConnectedIsReal
<1> USE SessionAssumption
    DEF SessionInv, SessionTypeOK, InLoop, Teardown, Goto, owner, shown, server, Claimed, AboutToBeClosed,
        ClaimIsOwned, OwnerHasClaim, Locals, NoLeakedOwner, OwnerMatchesSession, ConnectedIsReal
<1>1. ASSUME NEW c \in Conns, HandlerStep(c) PROVE Safe'
  <2>1. CASE ReadFails(c)
    BY <2>1 DEF ReadFails
  <2>2. CASE RejectHello(c)
    BY <2>2 DEF RejectHello
  <2>3. CASE claimSessionOwner(c)
    <3>1. CASE sessionConn \in {NoConn, c}
      BY <2>3, <3>1 DEF claimSessionOwner, Refused
    <3>2. CASE sessionConn \notin {NoConn, c} /\ sessionDSUID = hello[c]
      <4>1. pc'[c] = "replace" /\ replaced'[c] = sessionConn
        BY <2>3, <3>2 DEF claimSessionOwner
      <4>2. ClaimIsOwned'
        <5>1. SUFFICES ASSUME NEW d \in Conns, d # c, Claimed(d)', sock'[d] # "closed",
                              ~AboutToBeClosed(d)'
                       PROVE  FALSE
          BY <2>3, <3>2 DEF claimSessionOwner
        <5>2. Claimed(d) /\ sock[d] # "closed"
          BY <2>3, <3>2, <5>1 DEF claimSessionOwner
        <5>3. ~AboutToBeClosed(d)
          BY <2>3, <3>2, <5>1 DEF claimSessionOwner
        <5>4. sessionConn = d
          BY <5>2, <5>3
        <5>5. QED
          BY <4>1, <5>1, <5>4
      <4>3. OwnerHasClaim' /\ Locals' /\ NoLeakedOwner' /\ OwnerMatchesSession' /\ ConnectedIsReal'
        BY <2>3, <3>2 DEF claimSessionOwner, Refused
      <4>4. QED
        BY <4>2, <4>3
    <3>3. CASE sessionConn \notin {NoConn, c} /\ sessionDSUID # hello[c]
      BY <2>3, <3>3 DEF claimSessionOwner
    <3>4. QED
      BY <3>1, <3>2, <3>3
  <2>4. CASE CloseReplaced(c)
    BY <2>4 DEF CloseReplaced
  <2>5. CASE AcceptHello(c)
    BY <2>5 DEF AcceptHello
  <2>6. CASE WriteFrames(c)
    BY <2>6 DEF WriteFrames
  <2>7. CASE Serve(c)
    BY <2>7 DEF Serve
  <2>8. CASE setDisconnected(c)
    BY <2>8 DEF setDisconnected
  <2>9. CASE releaseSessionOwner(c)
    BY <2>9 DEF releaseSessionOwner
  <2>10. CASE Close(c)
    BY <2>10 DEF Close
  <2>11. QED
    BY <1>1, <2>1, <2>2, <2>3, <2>4, <2>5, <2>6, <2>7, <2>8, <2>9, <2>10
    DEF HandlerStep
<1>2. ASSUME NEW c \in Conns, PeerStep(c) PROVE Safe'
  <2>1. CASE Accept(c)
    BY <2>1 DEF Accept
  <2>2. CASE PeerGone(c)
    BY <2>2 DEF PeerGone
  <2>3. CASE BadFrame(c)
    BY <2>3 DEF BadFrame
  <2>4. CASE ReadRequest(c)
    BY <2>4 DEF ReadRequest
  <2>5. CASE ReadBye(c)
    BY <2>5 DEF ReadBye
  <2>6. ASSUME NEW v \in Vdsms \cup {NoVdsm}, ReadHello(c, v) PROVE Safe'
    BY <2>6 DEF ReadHello
  <2>7. QED
    BY <1>2, <2>1, <2>2, <2>3, <2>4, <2>5, <2>6 DEF PeerStep
<1>3. ASSUME NEW c \in Conns, PushFails(c) \/ CloseOnDone(c) PROVE Safe'
  <2>1. /\ \A d \in Conns : sock'[d] # "closed" => sock[d] # "closed"
        /\ UNCHANGED <<pc, sess, hello, replaced, sessionConn, sessionDSUID, status>>
    BY <1>3 DEF PushFails, CloseOnDone
  <2>2. QED
    BY <2>1
<1>4. CASE Cancel \/ CloseListener
  <2>1. UNCHANGED <<pc, sock, sess, hello, replaced, sessionConn, sessionDSUID, status>>
    BY <1>4 DEF Cancel, CloseListener
  <2>2. Safe'
    BY <2>1
  <2>3. QED
    BY <1>0, <2>2
<1>5. ASSUME UNCHANGED sessionVars PROVE Safe'
  BY <1>5 DEF sessionVars
<1>6. Safe'
  BY <1>1, <1>2, <1>3, <1>4, <1>5 DEF SessionNext
<1>7. QED
  BY <1>0, <1>6

(* The inductive invariant holds in every reachable state.                 *)
THEOREM SessionInvariance == SessionSpec => []SessionInv
BY SessionInvInit, SessionInvNext, PTL DEF SessionSpec

(* A connection that lost the session is closed, or the handler that took  *)
(* it over is about to close it.                                           *)
THEOREM LoserIsClosed == SessionSpec => []TakenOverIsClosed
<1>1. SessionInv => TakenOverIsClosed
  BY DEF SessionInv, TakenOverIsClosed, ClaimIsOwned, Live, Claimed
<1>2. QED
  BY <1>1, SessionInvariance, PTL

(* At most one connection is served, whatever Hellos, losses and           *)
(* disconnects interleave.                                                 *)
THEOREM AtMostOneSession == SessionSpec => []OneSession
<1>1. SessionInv => OneSession
  BY DEF SessionInv, OneSession, ClaimIsOwned, Locals, Live, Claimed, InLoop
<1>2. QED
  BY <1>1, SessionInvariance, PTL

(* A connection whose handler has ended does not own the session.          *)
THEOREM OwnerHasHandler == SessionSpec => []NoLeakedOwner
<1>1. SessionInv => NoLeakedOwner
  BY DEF SessionInv
<1>2. QED
  BY <1>1, SessionInvariance, PTL

(* The recorded vDSM is the one the owner has a session with.              *)
THEOREM OwnerIsTheVdsm == SessionSpec => []OwnerMatchesSession
<1>1. SessionInv => OwnerMatchesSession
  BY DEF SessionInv
<1>2. QED
  BY <1>1, SessionInvariance, PTL

(* A connected status names a connection that has a handler, and a live    *)
(* session is shown unless another handler wrote the status since.         *)
THEOREM StatusIsReal == SessionSpec => [](ConnectedIsReal /\ LiveIsShown)
<1>1. SessionInv => ConnectedIsReal /\ LiveIsShown
  BY DEF SessionInv
<1>2. QED
  BY <1>1, SessionInvariance, PTL

(* One connection holds the session, and who lost it is closed or about to *)
(* be: claimSessionOwner and the close of the replaced connection.         *)
THEOREM SessionIsHeldByOne == SessionSpec => []SessionIsExclusive
<1>1. SessionTypeOK /\ TakenOverIsClosed /\ OneSession => SessionIsExclusive
  BY DEF SessionIsExclusive
<1>2. QED
  BY <1>1, SessionTypeCorrect, LoserIsClosed, AtMostOneSession, PTL

(* The owner that claimSessionOwner and releaseSessionOwner record and the *)
(* connections' sessions agree, and the status agrees with them as far as  *)
(* no other handler wrote it later.                                        *)
THEOREM OwnerAgreement == SessionSpec => []OwnerAgrees
<1>1. NoLeakedOwner /\ OwnerMatchesSession /\ ConnectedIsReal /\ LiveIsShown => OwnerAgrees
  BY DEF OwnerAgrees
<1>2. QED
  BY <1>1, OwnerHasHandler, OwnerIsTheVdsm, StatusIsReal, PTL

-----------------------------------------------------------------------------
(* A step of the server or of a peer takes the session from a live         *)
(* connection only as LossIsExplained allows.                              *)
LEMMA LossStep == SessionInv /\ [SessionNext]_sessionVars => \A c \in Conns : LossIsExplained(c)
<1> SUFFICES ASSUME SessionInv, [SessionNext]_sessionVars, NEW c \in Conns, Live(c), ~Live(c)',
                    pc'[c] # "disconnect", ~ctxDone, sock[c] # "gone"
             PROVE  sessionDSUID' = sess[c]
  BY DEF LossIsExplained
<1> USE SessionAssumption
    DEF SessionInv, SessionTypeOK, InLoop, Teardown, Goto, owner, shown, server, Live, AboutToBeClosed
<1>1. ASSUME NEW e \in Conns, HandlerStep(e) PROVE sessionDSUID' = sess[c]
  <2>1. CASE ReadFails(e) \/ RejectHello(e) \/ WriteFrames(e) \/ Serve(e)
    BY <2>1 DEF ReadFails, RejectHello, WriteFrames, Serve
  <2>2. CASE claimSessionOwner(e)
    <3>1. sessionConn = c /\ sess[c] = sessionDSUID
      BY DEF ClaimIsOwned, OwnerMatchesSession, Claimed
    <3>2. CASE sessionDSUID' = sessionDSUID
      BY <3>1, <3>2
    <3>3. CASE sessionDSUID' # sessionDSUID
      <4>1. e = c /\ pc'[c] = "accept" /\ UNCHANGED <<sock, sess, replaced>>
        BY <2>2, <3>1, <3>3 DEF claimSessionOwner
      <4>2. \A d \in Conns : pc'[d] = "replace" => pc[d] = "replace"
        BY <2>2, <4>1 DEF claimSessionOwner
      <4>3. QED
        BY <4>1, <4>2
    <3>4. QED
      BY <3>2, <3>3
  <2>3. CASE CloseReplaced(e)
    BY <2>3 DEF CloseReplaced
  <2>4. CASE AcceptHello(e)
    BY <2>4 DEF AcceptHello, Locals
  <2>5. CASE setDisconnected(e)
    BY <2>5 DEF setDisconnected
  <2>6. CASE releaseSessionOwner(e)
    BY <2>6 DEF releaseSessionOwner
  <2>7. CASE Close(e)
    BY <2>7 DEF Close
  <2>8. QED
    BY <1>1, <2>1, <2>2, <2>3, <2>4, <2>5, <2>6, <2>7 DEF HandlerStep
<1>2. ASSUME NEW e \in Conns, PeerStep(e) PROVE sessionDSUID' = sess[c]
  <2>1. CASE Accept(e)
    BY <2>1 DEF Accept
  <2>2. CASE PeerGone(e)
    BY <2>2 DEF PeerGone
  <2>3. CASE BadFrame(e) \/ ReadRequest(e) \/ ReadBye(e)
    BY <2>3 DEF BadFrame, ReadRequest, ReadBye
  <2>4. ASSUME NEW v \in Vdsms \cup {NoVdsm}, ReadHello(e, v)
        PROVE  sessionDSUID' = sess[c]
    BY <2>4 DEF ReadHello
  <2>5. QED
    BY <1>2, <2>1, <2>2, <2>3, <2>4 DEF PeerStep
<1>3. ASSUME NEW e \in Conns, PushFails(e) \/ CloseOnDone(e) PROVE sessionDSUID' = sess[c]
  BY <1>3 DEF PushFails, CloseOnDone
<1>4. CASE Cancel \/ CloseListener
  BY <1>4 DEF Cancel, CloseListener
<1>5. CASE UNCHANGED sessionVars
  BY <1>5 DEF sessionVars
<1>6. QED
  BY <1>1, <1>2, <1>3, <1>4, <1>5 DEF SessionNext

(* Only the holder of the lease is served: a live connection has claimed   *)
(* the session, so it is its owner (ClaimIsOwned).                         *)
LEMMA OnlyTheHolder ==
    SessionInv => /\ Served = {} \/ (Served = {sessionDSUID} /\ sessionDSUID # NoVdsm)
                  /\ \A c \in Conns : Live(c) => sessionConn = c
<1> SUFFICES ASSUME SessionInv
             PROVE  /\ Served = {} \/ (Served = {sessionDSUID} /\ sessionDSUID # NoVdsm)
                    /\ \A c \in Conns : Live(c) => sessionConn = c
  OBVIOUS
<1>1. \A c \in Conns : Live(c) => sessionConn = c
  BY DEF SessionInv, ClaimIsOwned, Live, Claimed
<1>2. \A c \in Conns : Live(c) => sess[c] = sessionDSUID /\ sess[c] # NoVdsm
  BY <1>1 DEF SessionInv, OwnerMatchesSession, Live
<1>3. CASE \A c \in Conns : ~ Live(c)
  <2>1. Served = {}
    BY <1>3 DEF Served
  <2> QED BY <1>1, <2>1
<1>4. CASE \E c \in Conns : Live(c)
  <2>1. PICK c \in Conns : Live(c)
    BY <1>4
  <2>2. Served = {sess[c]}
    BY <1>2, <2>1 DEF Served
  <2> QED BY <1>1, <1>2, <2>1, <2>2
<1> QED BY <1>3, <1>4

(* The lease changes hands in claimSessionOwner, when it is free, and in   *)
(* releaseSessionOwner, when its owner has left the loop.                  *)
LEMMA HolderChanges ==
    ASSUME SessionInv, [SessionNext]_sessionVars, sessionDSUID' # sessionDSUID
    PROVE  \E c \in Conns :
             \/ /\ sessionConn = NoConn /\ sessionDSUID' \in Vdsms
                /\ \A d \in Conns : Live(d)' => Live(d)
             \/ /\ sessionConn = c /\ ~ Live(c)
                /\ sessionConn' = NoConn /\ sessionDSUID' = NoVdsm
<1>1. PICK c \in Conns : claimSessionOwner(c) \/ releaseSessionOwner(c)
  <2>1. \E c \in Conns : HandlerStep(c) /\ sessionDSUID' # sessionDSUID
    BY DEF SessionNext, PeerStep, PushFails, CloseOnDone, Cancel, CloseListener, Accept, PeerGone,
           BadFrame, ReadRequest, ReadBye, ReadHello, sessionVars, owner
  <2> QED BY <2>1 DEF HandlerStep, ReadFails, RejectHello, CloseReplaced, AcceptHello, WriteFrames,
                      Serve, setDisconnected, Close, owner
<1>2. CASE claimSessionOwner(c)
  <2>1. sessionConn \in {NoConn, c} /\ sessionDSUID' = hello[c] /\ ~ Refused(c)
    BY <1>2 DEF claimSessionOwner, owner
  <2>2. sessionConn # c
    <3> SUFFICES ASSUME sessionConn = c PROVE FALSE
      OBVIOUS
    <3>1. pc[c] = "hello" /\ Claimed(c)
      BY <1>2 DEF claimSessionOwner, SessionInv, OwnerHasClaim, InLoop
    <3>2. sess[c] = sessionDSUID /\ sess[c] # NoVdsm
      BY <3>1 DEF SessionInv, OwnerMatchesSession, Claimed, InLoop
    <3> QED BY <2>1, <3>2 DEF Refused
  <2>3. hello[c] \in Vdsms
    BY <2>1 DEF Refused, SessionInv, SessionTypeOK
  <2>4. pc' = [pc EXCEPT ![c] = "accept"] /\ pc[c] = "hello" /\ UNCHANGED <<sess, sock, replaced>>
    BY <1>2, <2>1, <2>2 DEF claimSessionOwner, Goto
  <2>5. \A d \in Conns : pc'[d] = pc[d] \/ (pc'[d] = "accept" /\ pc[d] = "hello")
    BY <2>4 DEF SessionInv, SessionTypeOK
  <2>6. \A d \in Conns : Live(d)' => Live(d)
    BY <2>4, <2>5 DEF Live, AboutToBeClosed, InLoop
  <2> QED BY <2>1, <2>2, <2>3, <2>6
<1>3. CASE releaseSessionOwner(c)
  <2>1. sessionConn = c /\ sessionConn' = NoConn /\ sessionDSUID' = NoVdsm /\ pc[c] = "release"
    BY <1>3 DEF releaseSessionOwner, owner
  <2> QED BY <2>1 DEF Live, InLoop
<1> QED BY <1>1, <1>2, <1>3

(* Every step of the bridge is a step of the lease, or none.               *)
LEMMA LeaseStep ==
    SessionInv /\ SessionInv' /\ [SessionNext]_sessionVars =>
        [Lease!Grant \/ Lease!Begin \/ Lease!End \/ Lease!GiveBack]_<<sessionDSUID, Served>>
<1> SUFFICES ASSUME SessionInv, SessionInv', [SessionNext]_sessionVars
             PROVE  \/ Lease!Grant \/ Lease!Begin \/ Lease!End \/ Lease!GiveBack
                    \/ UNCHANGED <<sessionDSUID, Served>>
  OBVIOUS
<1>1. Served = {} \/ (Served = {sessionDSUID} /\ sessionDSUID # NoVdsm)
  BY OnlyTheHolder
<1>2. /\ Served' = {} \/ (Served' = {sessionDSUID'} /\ sessionDSUID' # NoVdsm)
      /\ \A c \in Conns : Live(c)' => sessionConn' = c
  <2>1. (SessionInv => /\ Served = {} \/ (Served = {sessionDSUID} /\ sessionDSUID # NoVdsm)
                       /\ \A c \in Conns : Live(c) => sessionConn = c)'
    BY OnlyTheHolder, PTL
  <2> QED BY <2>1
<1>3. CASE sessionDSUID' = sessionDSUID
  BY <1>1, <1>2, <1>3 DEF Lease!Begin, Lease!End
<1>4. CASE sessionDSUID' # sessionDSUID
  <2>1. PICK c \in Conns :
             \/ /\ sessionConn = NoConn /\ sessionDSUID' \in Vdsms
                /\ \A d \in Conns : Live(d)' => Live(d)
             \/ /\ sessionConn = c /\ ~ Live(c)
                /\ sessionConn' = NoConn /\ sessionDSUID' = NoVdsm
    BY <1>4, HolderChanges
  <2>2. CASE sessionConn = NoConn /\ sessionDSUID' \in Vdsms /\ \A d \in Conns : Live(d)' => Live(d)
    <3>1. sessionDSUID = NoVdsm
      BY <2>2 DEF SessionInv, OwnerMatchesSession
    <3>2. \A d \in Conns : ~ Live(d)
      BY <2>2, SessionAssumption, OnlyTheHolder
    <3>3. Served = {} /\ Served' = {}
      BY <2>2, <3>2, Zenon DEF Served
    <3> QED BY <2>2, <3>1, <3>3 DEF Lease!Grant
  <2>3. CASE sessionConn = c /\ ~ Live(c) /\ sessionConn' = NoConn /\ sessionDSUID' = NoVdsm
    <3>1. \A d \in Conns : ~ Live(d)
      BY <2>3, OnlyTheHolder
    <3>2. Served = {} /\ Served' = {}
      BY <1>2, <2>3, <3>1, Zenon DEF Served
    <3> QED BY <2>3, <3>2 DEF Lease!GiveBack
  <2> QED BY <2>1, <2>2, <2>3
<1> QED BY <1>3, <1>4

(* The session is a lease that changes hands only over being free, and no  *)
(* vDSM takes it from another one's live connection.                       *)
THEOREM SessionIsNotStolen == SessionSpec => NoForeignTakeover
<1>1. SessionInit => Lease!Init
  BY DEF SessionInit, Lease!Init, Served, Live
<1>2. SessionInv /\ [SessionNext]_sessionVars => [\A c \in Conns : LossIsExplained(c)]_sessionVars
  BY LossStep
<1>3. QED
  BY <1>1, <1>2, LeaseStep, SessionInvariance, PTL DEF SessionSpec, NoForeignTakeover, Lease!Spec

-----------------------------------------------------------------------------
(* The event stream and the rings                                          *)
(*                                                                         *)
(* A WebSocket client gets no event twice, and every event published while *)
(* it is connected is on its way, received, or was dropped by a full       *)
(* channel; a source's ring and the global ring tell the same story, and a *)
(* polling reader misses only what overtaking, the ring or its limit cost  *)
(* it.                                                                     *)
(*                                                                         *)
(* An event moves along four sequences: the server's subscription, the     *)
(* hub's channel, the client's channel, what the client has seen.  The     *)
(* inductive invariant speaks of all four at once, since an event that is  *)
(* twice anywhere on the way is sooner or later received twice.  That the  *)
(* rings agree needs that a number about to be stored is in no ring yet    *)
(* (NumbersAreNew), although publishers draw it outside the lock.          *)

(* The four sequences, in the direction of what the client receives.       *)
Taken == IF client = Gone THEN <<>> ELSE client
Way == <<seen, Taken, bcast, live>>
Ways == [1..4 -> Seq(Events)]

(* No sequence number is at two places of the way.                         *)
Once(way) ==
    \A k, l \in 1..4 : \A i \in 1..Len(way[k]), j \in 1..Len(way[l]) :
        way[k][i].seq = way[l][j].seq => k = l /\ i = j

(* The event with this number is on the way.                               *)
Holds(way, n) == \E k \in 1..4 : \E i \in 1..Len(way[k]) : way[k][i].seq = n

Busy(w) == pub[w] # Idle

-----------------------------------------------------------------------------
(* The inductive invariant *)

Types ==
    /\ counter \in 0..MaxEvents /\ joined \in 0..MaxEvents
    /\ pub \in [Writers -> [stage : {"store", "fan"}, seq : 1..MaxEvents, src : Sources]
                            \cup {Idle}]
    /\ live \in Seq(Events) /\ bcast \in Seq(Events) /\ seen \in Seq(Events)
    /\ client = Gone \/ client \in Seq(Events)
    /\ lost \subseteq Events

(* Publishers have numbers of their own, given out and not on the way yet. *)
Unsent ==
    /\ \A v, w \in Writers : Busy(v) /\ Busy(w) /\ pub[v].seq = pub[w].seq => v = w
    /\ \A w \in Writers : Busy(w) => pub[w].seq <= counter /\ ~Holds(Way, pub[w].seq)

(* Only numbers that were given out are on the way, each once.             *)
Single == Once(Way) /\ \A n \in 1..MaxEvents : Holds(Way, n) => n <= counter

(* Nothing given out since the client subscribed went missing unnoticed.   *)
Complete ==
    client # Gone => \A n \in (joined + 1)..counter :
        \/ \E w \in Writers : Busy(w) /\ pub[w].seq = n
        \/ Holds(Way, n)
        \/ \E e \in lost : e.seq = n

StreamInv == Types /\ Unsent /\ Single /\ Complete

-----------------------------------------------------------------------------
(* Lemmas about sequences and the way *)

(* What Append gives, element by element.                                  *)
LEMMA AppendFacts ==
  ASSUME NEW S, NEW q \in Seq(S), NEW u \in S
  PROVE  /\ Append(q, u) \in Seq(S) /\ Len(Append(q, u)) = Len(q) + 1 /\ Len(q) \in Nat
         /\ \A i \in 1..Len(q) : Append(q, u)[i] = q[i]
         /\ Append(q, u)[Len(q) + 1] = u
OBVIOUS

(* What Head and Tail give, element by element.                            *)
LEMMA TailFacts ==
  ASSUME NEW S, NEW q \in Seq(S), q # <<>>
  PROVE  /\ Tail(q) \in Seq(S) /\ Len(Tail(q)) = Len(q) - 1
         /\ Len(q) \in Nat \ {0} /\ Head(q) = q[1] /\ Head(q) \in S
         /\ \A i \in 1..Len(Tail(q)) : Tail(q)[i] = q[i + 1]
OBVIOUS

(* The fields of an event; a client that is gone has no channel of events. *)
LEMMA EventFacts ==
  /\ \A e \in Events : e.seq \in 1..MaxEvents /\ e.seq \in Nat /\ e.src \in Sources
  /\ \A q \in Seq(Events) : q # Gone
<1>1. \A e \in Events : e.seq \in 1..MaxEvents /\ e.seq \in Nat /\ e.src \in Sources
  BY EventBufferAssumption DEF Events
<1>2. ASSUME NEW q \in Seq(Events), q = Gone PROVE FALSE
  <2>1. Len(Gone) = 1 /\ Gone[1].seq = 0
    BY DEF Gone
  <2>2. q[1] \in Events
    BY <1>2, <2>1
  <2>3. QED
    BY <1>1, <1>2, <2>1, <2>2
<1>3. QED
  BY <1>1, <1>2

(* The event with this number is at this place of the way.                 *)
At(way, k, i, n) == k \in 1..4 /\ i \in 1..Len(way[k]) /\ way[k][i].seq = n

(* Once, in terms of places.                                               *)
LEMMA OncePlace ==
  ASSUME NEW way
  PROVE  Once(way) <=> \A k, i, l, j, n : At(way, k, i, n) /\ At(way, l, j, n) => k = l /\ i = j
<1>1. ASSUME Once(way), NEW k, NEW i, NEW l, NEW j, NEW n, At(way, k, i, n), At(way, l, j, n)
      PROVE  k = l /\ i = j
  <2>1. /\ k \in 1..4 /\ l \in 1..4 /\ i \in 1..Len(way[k]) /\ j \in 1..Len(way[l])
        /\ way[k][i].seq = way[l][j].seq
    BY <1>1 DEF At
  <2>2. QED
    BY <1>1, <2>1, Zenon DEF Once
<1>2. (\A k, i, l, j, n : At(way, k, i, n) /\ At(way, l, j, n) => k = l /\ i = j) => Once(way)
  BY ZenonT(30) DEF Once, At
<1>3. QED
  BY <1>1, <1>2

(* Holds, in terms of places.                                              *)
LEMMA HoldsPlace ==
  ASSUME NEW way, NEW n
  PROVE  Holds(way, n) <=> \E k, i : At(way, k, i, n)
BY Zenon DEF Holds, At

(* The head of a sequence is dropped: the others stay where they are.      *)
LEMMA DropOnTheWay ==
  ASSUME NEW way \in Ways, NEW new \in Ways, NEW k \in 1..4, way[k] # <<>>, Once(way),
         new[k] = Tail(way[k]), \A l \in (1..4) \ {k} : new[l] = way[l]
  PROVE  /\ Once(new)
         /\ \A n : Holds(new, n) => Holds(way, n)
         /\ \A n : Holds(way, n) => Holds(new, n) \/ n = Head(way[k]).seq
         /\ ~Holds(new, Head(way[k]).seq) /\ Holds(way, Head(way[k]).seq)
<1>1. /\ Len(new[k]) = Len(way[k]) - 1 /\ Len(way[k]) \in Nat \ {0} /\ Head(way[k]) = way[k][1]
      /\ \A i \in 1..Len(new[k]) : new[k][i] = way[k][i + 1]
  BY TailFacts DEF Ways
<1>2. /\ \A i, n : At(new, k, i, n) => i \in Nat \ {0} /\ At(way, k, i + 1, n)
      /\ \A i, n : At(way, k, i, n) => i \in Nat \ {0}
      /\ \A i \in Nat \ {0} : \A n : At(way, k, i + 1, n) => At(new, k, i, n)
      /\ At(way, k, 1, Head(way[k]).seq)
      /\ \A n : At(way, k, 1, n) => n = Head(way[k]).seq
  <2>1. \A i \in 1..Len(new[k]) : i + 1 \in 1..Len(way[k]) /\ new[k][i] = way[k][i + 1]
    BY <1>1
  <2>2. \A i \in Nat \ {0} : i + 1 \in 1..Len(way[k]) =>
           i \in 1..Len(new[k]) /\ new[k][i] = way[k][i + 1]
    BY <1>1
  <2>3. 1 \in 1..Len(way[k])
    BY <1>1
  <2>4. QED
    BY <1>1, <2>1, <2>2, <2>3 DEF At
<1>3. \A l, i, n : l # k => (At(new, l, i, n) <=> At(way, l, i, n))
  BY DEF At
<1>4. \A i, l, j, n, m : At(way, m, i, n) /\ At(way, l, j, n) => m = l /\ i = j
  BY OncePlace
<1>5. ASSUME NEW m, NEW i, NEW l, NEW j, NEW n, At(new, m, i, n), At(new, l, j, n)
      PROVE  m = l /\ i = j
  <2>1. CASE m = k /\ l = k
    <3>1. i \in Nat /\ j \in Nat /\ i + 1 = j + 1
      BY <1>2, <1>4, <1>5, <2>1
    <3>2. QED
      BY <2>1, <3>1
  <2>2. CASE ~(m = k /\ l = k)
    BY <1>2, <1>3, <1>4, <1>5, <2>2
  <2>3. QED
    BY <2>1, <2>2
<1>6. Once(new)
  BY <1>5, OncePlace
<1>7. ASSUME NEW n, Holds(new, n) PROVE Holds(way, n)
  <2>1. PICK l, i : At(new, l, i, n)
    BY <1>7, HoldsPlace
  <2>2. At(way, l, i, n) \/ At(way, l, i + 1, n)
    BY <1>2, <1>3, <2>1
  <2>3. QED
    BY <2>2, HoldsPlace
<1>8. ASSUME NEW n, Holds(way, n), n # Head(way[k]).seq PROVE Holds(new, n)
  <2>1. PICK l, i : At(way, l, i, n)
    BY <1>8, HoldsPlace
  <2>2. CASE l = k
    <3>1. i \in Nat \ {0} /\ i # 1
      BY <1>2, <1>8, <2>1, <2>2
    <3>2. i - 1 \in Nat \ {0} /\ (i - 1) + 1 = i
      BY <3>1
    <3>3. At(new, k, i - 1, n)
      BY <1>2, <2>1, <2>2, <3>2
    <3>4. QED
      BY <3>3, HoldsPlace
  <2>3. CASE l # k
    BY <1>3, <2>1, <2>3, HoldsPlace
  <2>4. QED
    BY <2>2, <2>3
<1>9. ASSUME Holds(new, Head(way[k]).seq) PROVE FALSE
  <2>1. PICK l, i : At(new, l, i, Head(way[k]).seq)
    BY <1>9, HoldsPlace
  <2>2. CASE l = k
    <3>1. i \in Nat \ {0} /\ At(way, k, i + 1, Head(way[k]).seq)
      BY <1>2, <2>1, <2>2
    <3>2. i + 1 = 1
      BY <1>2, <1>4, <3>1
    <3>3. QED
      BY <3>1, <3>2
  <2>3. CASE l # k
    BY <1>2, <1>3, <1>4, <2>1, <2>3
  <2>4. QED
    BY <2>2, <2>3
<1>10. Holds(way, Head(way[k]).seq)
  BY <1>2, HoldsPlace
<1>11. QED
  BY <1>6, <1>7, <1>8, <1>9, <1>10

(* The event joins the k-th sequence at its end.                           *)
Joins(way, new, k, e) ==
    new[k] = Append(way[k], e) /\ \A l \in (1..4) \ {k} : new[l] = way[l]

(* An event that is not on the way joins one of its sequences: its number  *)
(* is then on the way once, and the others are as they were.               *)
LEMMA AddOnTheWay ==
  ASSUME NEW way \in Ways, NEW new \in Ways, NEW k \in 1..4, NEW e \in Events, Once(way),
         ~Holds(way, e.seq), Joins(way, new, k, e)
  PROVE  Once(new) /\ \A n : Holds(new, n) <=> Holds(way, n) \/ n = e.seq
<1>1. /\ Len(new[k]) = Len(way[k]) + 1 /\ Len(way[k]) \in Nat
      /\ \A i \in 1..Len(way[k]) : new[k][i] = way[k][i]
      /\ new[k][Len(way[k]) + 1] = e
  BY SMTT(30), AppendFacts DEF Ways, Joins
<1>2. /\ \A i, n : At(new, k, i, n) => At(way, k, i, n) \/ (i = Len(way[k]) + 1 /\ n = e.seq)
      /\ \A i, n : At(way, k, i, n) => At(new, k, i, n)
      /\ At(new, k, Len(way[k]) + 1, e.seq)
  <2>1. \A i \in 1..Len(new[k]) : \/ i \in 1..Len(way[k]) /\ new[k][i] = way[k][i]
                                  \/ i = Len(way[k]) + 1 /\ new[k][i] = e
    BY <1>1
  <2>2. /\ Len(way[k]) + 1 \in 1..Len(new[k])
        /\ \A i \in 1..Len(way[k]) : i \in 1..Len(new[k]) /\ new[k][i] = way[k][i]
    BY <1>1
  <2>3. QED
    BY <1>1, <2>1, <2>2 DEF At
<1>3. \A l, i, n : l # k => (At(new, l, i, n) <=> At(way, l, i, n))
  BY DEF At, Joins
<1>4. /\ \A i, l, j, n, m : At(way, m, i, n) /\ At(way, l, j, n) => m = l /\ i = j
      /\ \A l, i : ~At(way, l, i, e.seq)
  BY OncePlace, HoldsPlace
<1>5. ASSUME NEW m, NEW i, NEW l, NEW j, NEW n, At(new, m, i, n), At(new, l, j, n)
      PROVE  m = l /\ i = j
  BY <1>2, <1>3, <1>4, <1>5
<1>6. Once(new)
  BY <1>5, OncePlace
<1>7. ASSUME NEW n PROVE Holds(new, n) <=> Holds(way, n) \/ n = e.seq
  BY <1>2, <1>3, HoldsPlace
<1>8. QED
  BY <1>6, <1>7

(* The head of one sequence becomes the end of the next: it is dropped     *)
(* from the one and joins the other.                                       *)
LEMMA MoveOnTheWay ==
  ASSUME NEW way \in Ways, NEW new \in Ways, NEW k \in 1..3, way[k + 1] # <<>>, Once(way),
         new[k] = Append(way[k], Head(way[k + 1])), new[k + 1] = Tail(way[k + 1]),
         \A l \in (1..4) \ {k, k + 1} : new[l] = way[l]
  PROVE  Once(new) /\ \A n : Holds(new, n) <=> Holds(way, n)
<1>1. k \in 1..4 /\ k + 1 \in 1..4 /\ k # k + 1
  OBVIOUS
<1>2. PICK e \in Events : e = Head(way[k + 1])
  BY <1>1, TailFacts DEF Ways
<1>3. PICK mid \in Ways : /\ mid[k + 1] = Tail(way[k + 1])
                          /\ \A l \in (1..4) \ {k + 1} : mid[l] = way[l]
  <2>1. Tail(way[k + 1]) \in Seq(Events)
    BY <1>1, TailFacts DEF Ways
  <2>2. [way EXCEPT ![k + 1] = Tail(way[k + 1])] \in Ways
    BY <1>1, <2>1 DEF Ways
  <2>3. QED
    BY <1>1, <2>2 DEF Ways
<1>4. /\ Once(mid)
      /\ \A n : Holds(mid, n) => Holds(way, n)
      /\ \A n : Holds(way, n) => Holds(mid, n) \/ n = e.seq
      /\ ~Holds(mid, e.seq) /\ Holds(way, e.seq)
  BY <1>1, <1>2, <1>3, DropOnTheWay
<1>5. Joins(mid, new, k, e)
  BY <1>1, <1>2, <1>3 DEF Joins
<1>6. Once(new) /\ \A n : Holds(new, n) <=> Holds(mid, n) \/ n = e.seq
  <2>1. k \in 1..4 /\ e \in Events /\ mid \in Ways /\ Once(mid) /\ ~Holds(mid, e.seq)
    BY <1>1, <1>2, <1>3, <1>4
  <2>2. QED
    BY <1>5, <2>1, AddOnTheWay
<1>7. QED
  BY <1>4, <1>6

(* Sequences are emptied.                                                  *)
LEMMA CutOnTheWay ==
  ASSUME NEW way \in Ways, NEW new \in Ways, Once(way),
         \A l \in 1..4 : new[l] = way[l] \/ new[l] = <<>>
  PROVE  Once(new) /\ \A n : Holds(new, n) => Holds(way, n)
<1>1. \A l, i, n : At(new, l, i, n) => At(way, l, i, n)
  <2>1. \A l \in 1..4 : new[l] = way[l] \/ Len(new[l]) = 0
    OBVIOUS
  <2>2. QED
    BY <2>1 DEF At
<1>2. \A i, l, j, n, m : At(way, m, i, n) /\ At(way, l, j, n) => m = l /\ i = j
  BY OncePlace
<1>3. Once(new)
  BY <1>1, <1>2, OncePlace
<1>4. \A n : Holds(new, n) => Holds(way, n)
  BY <1>1, HoldsPlace
<1>5. QED
  BY <1>3, <1>4

-----------------------------------------------------------------------------
(* The steps *)

(* The four sequences by their number.                                     *)
LEMMA WayFacts ==
  /\ Types => /\ Way \in Ways /\ Way[1] = seen /\ Way[3] = bcast /\ Way[4] = live
              /\ (client # Gone => Way[2] = client) /\ (client = Gone => Way[2] = <<>>)
  /\ Types' => /\ Way' \in Ways /\ Way'[1] = seen' /\ Way'[3] = bcast' /\ Way'[4] = live'
               /\ (client' # Gone => Way'[2] = client') /\ (client' = Gone => Way'[2] = <<>>)
<1>1. <<>> \in Seq(Events)
  OBVIOUS
<1>2. ASSUME NEW a \in Seq(Events), NEW b \in Seq(Events), NEW c \in Seq(Events),
             NEW d \in Seq(Events)
      PROVE  /\ <<a, b, c, d>> \in Ways
             /\ <<a, b, c, d>>[1] = a /\ <<a, b, c, d>>[2] = b
             /\ <<a, b, c, d>>[3] = c /\ <<a, b, c, d>>[4] = d
  BY DEF Ways
<1>3. Types => Taken \in Seq(Events)
  BY <1>1 DEF Types, Taken
<1>4. Types' => Taken' \in Seq(Events)
  BY <1>1 DEF Types, Taken
<1>5. Types => /\ Way \in Ways /\ Way[1] = seen /\ Way[3] = bcast /\ Way[4] = live
               /\ (client # Gone => Way[2] = client) /\ (client = Gone => Way[2] = <<>>)
  BY <1>2, <1>3 DEF Types, Way, Taken
<1>6. Types' => /\ Way' \in Ways /\ Way'[1] = seen' /\ Way'[3] = bcast' /\ Way'[4] = live'
                /\ (client' # Gone => Way'[2] = client') /\ (client' = Gone => Way'[2] = <<>>)
  BY <1>2, <1>4 DEF Types, Way, Taken
<1>7. QED
  BY <1>5, <1>6

(* What a publisher under way carries.                                     *)
LEMMA BusyFacts ==
  ASSUME Types, NEW w \in Writers
  PROVE  /\ Busy(w) => /\ pub[w].stage \in {"store", "fan"} /\ pub[w].seq \in 1..MaxEvents
                       /\ pub[w].src \in Sources /\ pub[w].seq \in Nat
                       /\ Event(w) \in Events /\ Event(w).seq = pub[w].seq
         /\ pub[w].stage \in {"store", "fan"} => Busy(w)
<1>1. Idle.stage = "idle"
  BY DEF Idle
<1>2. Busy(w) => pub[w] \in [stage : {"store", "fan"}, seq : 1..MaxEvents, src : Sources]
  BY DEF Types, Busy
<1>3. Busy(w) => /\ pub[w].stage \in {"store", "fan"} /\ pub[w].seq \in 1..MaxEvents
                 /\ pub[w].src \in Sources /\ pub[w].seq \in Nat
  BY <1>2, EventBufferAssumption
<1>4. pub[w].stage \in {"store", "fan"} => Busy(w)
  BY <1>1 DEF Busy
<1>5. QED
  BY <1>3, <1>4 DEF Event, Events

(* Nothing was published.                                                  *)
LEMMA Start == Init => StreamInv
<1> SUFFICES ASSUME Init PROVE StreamInv
  OBVIOUS
<1>1. Types
  BY EventBufferAssumption DEF Init, Types
<1>2. Way[1] = <<>> /\ Way[2] = <<>> /\ Way[3] = <<>> /\ Way[4] = <<>>
  BY <1>1, WayFacts DEF Init
<1>3. \A k \in 1..4 : Len(Way[k]) = 0
  <2>1. \A k \in 1..4 : Way[k] = <<>>
    BY <1>2
  <2>2. QED
    BY <2>1
<1>4. Once(Way) /\ \A n : ~Holds(Way, n)
  BY SMTT(30), <1>3 DEF Once, Holds
<1>5. \A w \in Writers : ~Busy(w)
  BY DEF Init, Busy
<1>6. QED
  BY <1>1, <1>4, <1>5 DEF StreamInv, Unsent, Single, Complete, Init

(* A step that publishes nothing and puts nothing new on the way.          *)
LEMMA Quiet ==
  ASSUME StreamInv, counter' = counter, \A w \in Writers : Busy(w)' <=> Busy(w),
         \A w \in Writers : Busy(w) => pub'[w].seq = pub[w].seq,
         Once(Way)', \A n : Holds(Way, n)' => Holds(Way, n)
  PROVE  Unsent' /\ Single'
BY DEF StreamInv, Unsent, Single

(* The atomic counter: the number is new to everybody.                     *)
LEMMA PublishKeeps ==
  ASSUME StreamInv, NEW w \in Writers, NEW s \in Sources, Publish(w, s)
  PROVE  StreamInv'
<1>1. /\ pub[w] = Idle /\ counter < MaxEvents /\ counter' = counter + 1
      /\ pub' = [pub EXCEPT ![w] = [stage |-> "store", seq |-> counter + 1, src |-> s]]
      /\ live' = live /\ bcast' = bcast /\ client' = client /\ seen' = seen
      /\ joined' = joined /\ lost' = lost
  BY DEF Publish, stream
<1>2. counter \in Nat /\ counter + 1 \in 1..MaxEvents /\ MaxEvents \in Nat /\ joined \in Nat
  BY <1>1, EventBufferAssumption DEF StreamInv, Types
<1>3. Types'
  BY <1>1, <1>2 DEF StreamInv, Types
<1>4. /\ pub'[w].seq = counter + 1 /\ Busy(w)' /\ ~Busy(w)
      /\ \A v \in Writers \ {w} : pub'[v] = pub[v] /\ (Busy(v)' <=> Busy(v))
  <2>1. [stage |-> "store", seq |-> counter + 1, src |-> s] # Idle
    BY DEF Idle
  <2>2. QED
    BY <1>1, <2>1 DEF StreamInv, Types, Busy
<1>5. Way' = Way
  BY <1>1 DEF Way, Taken
<1>6. \A v \in Writers : Busy(v) => pub[v].seq <= counter /\ pub[v].seq \in Nat
  BY BusyFacts DEF StreamInv, Unsent
<1>7. ~Holds(Way, counter + 1)
  BY <1>2 DEF StreamInv, Single
<1>8. Unsent'
  BY <1>1, <1>2, <1>4, <1>5, <1>6, <1>7 DEF StreamInv, Unsent
<1>9. Single'
  BY <1>1, <1>2, <1>5 DEF StreamInv, Single
<1>10. Complete'
  <2> SUFFICES ASSUME client' # Gone, NEW n \in (joined' + 1)..counter'
               PROVE  \/ \E v \in Writers : Busy(v)' /\ pub'[v].seq = n
                      \/ Holds(Way', n)
                      \/ \E e \in lost' : e.seq = n
    BY DEF Complete
  <2>1. CASE n = counter + 1
    BY <1>4, <2>1
  <2>2. CASE n # counter + 1
    <3>1. n \in (joined + 1)..counter
      BY <1>1, <1>2, <2>2
    <3>2. QED
      BY <1>1, <1>4, <1>5, <3>1 DEF StreamInv, Complete
  <2>3. QED
    BY <2>1, <2>2
<1>11. QED
  BY <1>3, <1>8, <1>9, <1>10 DEF StreamInv

(* The rings change, or a reader reads them.                               *)
RingsOnly ==
    \/ \E w \in Writers : Store(w)
    \/ \E s \in Sources : ClearPlugin(s)
    \/ \E limit \in Limits : Poll(limit)
    \/ UNCHANGED vars

(* The stream does not see what happens to the rings.                      *)
LEMMA RingsKeep ==
  ASSUME StreamInv, RingsOnly
  PROVE  StreamInv'
<1>1. /\ counter' = counter /\ live' = live /\ bcast' = bcast /\ client' = client
      /\ seen' = seen /\ joined' = joined /\ lost' = lost
  BY DEF RingsOnly, Store, ClearPlugin, Poll, vars, stream
<1>2. \/ pub' = pub
      \/ \E w \in Writers : pub[w].stage = "store" /\ pub' = [pub EXCEPT ![w].stage = "fan"]
  BY DEF RingsOnly, Store, ClearPlugin, Poll, vars
<1>3. /\ pub' \in [Writers -> [stage : {"store", "fan"}, seq : 1..MaxEvents, src : Sources]
                              \cup {Idle}]
      /\ \A w \in Writers : Busy(w)' <=> Busy(w)
      /\ \A w \in Writers : Busy(w) => pub'[w].seq = pub[w].seq
  <2>1. CASE pub' = pub
    BY <2>1 DEF StreamInv, Types, Busy
  <2>2. CASE \E w \in Writers : pub[w].stage = "store" /\ pub' = [pub EXCEPT ![w].stage = "fan"]
    <3>0. PICK w \in Writers : pub[w].stage = "store" /\ pub' = [pub EXCEPT ![w].stage = "fan"]
      BY <2>2
    <3>1. /\ Busy(w) /\ pub[w].seq \in 1..MaxEvents /\ pub[w].src \in Sources
          /\ pub[w] \in [stage : {"store", "fan"}, seq : 1..MaxEvents, src : Sources]
      BY <3>0, BusyFacts DEF StreamInv, Types, Busy
    <3>2. /\ pub'[w] = [pub[w] EXCEPT !.stage = "fan"]
          /\ \A v \in Writers \ {w} : pub'[v] = pub[v]
      BY <3>0 DEF StreamInv, Types
    <3>3. /\ [pub[w] EXCEPT !.stage = "fan"]
                 \in [stage : {"store", "fan"}, seq : 1..MaxEvents, src : Sources]
          /\ [pub[w] EXCEPT !.stage = "fan"].seq = pub[w].seq
          /\ [pub[w] EXCEPT !.stage = "fan"].stage = "fan"
      BY <3>1
    <3>4. pub'[w] # Idle
      BY <3>2, <3>3 DEF Idle
    <3>5. pub' \in [Writers -> [stage : {"store", "fan"}, seq : 1..MaxEvents, src : Sources]
                              \cup {Idle}]
      BY <3>0, <3>3 DEF StreamInv, Types
    <3>6. QED
      BY <3>1, <3>2, <3>3, <3>4, <3>5 DEF Busy
  <2>3. QED
    BY <1>2, <2>1, <2>2
<1>4. Types'
  BY <1>1, <1>3 DEF StreamInv, Types
<1>5. Way' = Way
  BY <1>1 DEF Way, Taken
<1>6. Unsent' /\ Single'
  <2>1. Once(Way)' /\ \A n : Holds(Way, n)' => Holds(Way, n)
    <3>1. Once(Way)'
      <4>1. Once(Way)
        BY DEF StreamInv, Single
      <4>2. QED
        BY <1>5, <4>1, Zenon
    <3>2. \A n : Holds(Way, n)' => Holds(Way, n)
      BY <1>5 DEF Holds
    <3>3. QED
      BY <3>1, <3>2
  <2>2. QED
    BY <1>1, <1>3, <2>1, Quiet
<1>7. Complete'
  BY <1>1, <1>3, <1>5 DEF StreamInv, Complete, Holds
<1>8. QED
  BY <1>4, <1>6, <1>7 DEF StreamInv

(* An event goes on along the way, or a full channel drops it and the      *)
(* client's history notes it.                                              *)
LEMMA MoveKeeps ==
  ASSUME StreamInv, Types', NEW k \in 1..4, Way[k] # <<>>,
         counter' = counter, pub' = pub, joined' = joined, client' # Gone <=> client # Gone,
         Way'[k] = Tail(Way[k]),
         \/ /\ k # 1 /\ Way'[k - 1] = Append(Way[k - 1], Head(Way[k])) /\ lost' = lost
            /\ \A l \in (1..4) \ {k - 1, k} : Way'[l] = Way[l]
         \/ /\ lost' = Dropped({Head(Way[k])})
            /\ \A l \in (1..4) \ {k} : Way'[l] = Way[l]
  PROVE  StreamInv'
<1>1. Way \in Ways /\ Way' \in Ways /\ Once(Way)
  BY WayFacts DEF StreamInv, Single
<1>2. \A w \in Writers : (Busy(w)' <=> Busy(w)) /\ pub'[w] = pub[w]
  BY DEF Busy
<1>3. CASE /\ k # 1 /\ Way'[k - 1] = Append(Way[k - 1], Head(Way[k])) /\ lost' = lost
           /\ \A l \in (1..4) \ {k - 1, k} : Way'[l] = Way[l]
  <2>1. PICK m \in 1..3 : m + 1 = k
    <3>1. k - 1 \in 1..3 /\ (k - 1) + 1 = k
      BY <1>3
    <3>2. QED
      BY <3>1
  <2>2. /\ Way[m + 1] # <<>> /\ Way'[m] = Append(Way[m], Head(Way[m + 1]))
        /\ Way'[m + 1] = Tail(Way[m + 1])
        /\ \A l \in (1..4) \ {m, m + 1} : Way'[l] = Way[l]
    <3>1. m = k - 1
      BY <2>1
    <3>2. QED
      BY <1>3, <2>1, <3>1
  <2>3. Once(Way') /\ \A n : Holds(Way', n) <=> Holds(Way, n)
    BY <1>1, <2>1, <2>2, MoveOnTheWay
  <2>4. Unsent' /\ Single'
    BY <1>2, <2>3, Quiet
  <2>5. Complete'
    BY <1>2, <1>3, <2>3 DEF StreamInv, Complete
  <2>6. QED
    BY <2>4, <2>5 DEF StreamInv
<1>4. CASE /\ lost' = Dropped({Head(Way[k])})
           /\ \A l \in (1..4) \ {k} : Way'[l] = Way[l]
  <2>1. /\ Once(Way') /\ \A n : Holds(Way', n) => Holds(Way, n)
        /\ \A n : Holds(Way, n) => Holds(Way', n) \/ n = Head(Way[k]).seq
    BY <1>1, <1>4, DropOnTheWay
  <2>2. Unsent' /\ Single'
    BY <1>2, <2>1, Quiet
  <2>3. client # Gone => lost' = lost \cup {Head(Way[k])}
    BY <1>4 DEF Dropped
  <2>4. Complete'
    BY <1>2, <2>1, <2>3 DEF StreamInv, Complete
  <2>5. QED
    BY <2>2, <2>4 DEF StreamInv
<1>5. QED
  BY <1>3, <1>4

(* A publisher fans out, into the subscription or past a full one.         *)
LEMMA FanKeeps ==
  ASSUME StreamInv, NEW w \in Writers, Fan(w)
  PROVE  StreamInv'
<1>1. /\ pub[w].stage = "fan" /\ pub' = [pub EXCEPT ![w] = Idle]
      /\ \/ Len(live) < ChanCap /\ live' = Append(live, Event(w)) /\ lost' = lost
         \/ live' = live /\ lost' = Dropped({Event(w)})
      /\ counter' = counter /\ bcast' = bcast /\ client' = client /\ seen' = seen
      /\ joined' = joined
  BY DEF Fan
<1>2. Busy(w) /\ Event(w) \in Events /\ Event(w).seq = pub[w].seq
  BY <1>1, BusyFacts DEF StreamInv
<1>3. /\ ~Busy(w)'
      /\ \A v \in Writers \ {w} : pub'[v] = pub[v] /\ (Busy(v)' <=> Busy(v))
  BY <1>1 DEF StreamInv, Types, Busy
<1>4. Types'
  <2>0. live \in Seq(Events)
    BY DEF StreamInv, Types
  <2>1. live' \in Seq(Events)
    <3>1. Append(live, Event(w)) \in Seq(Events)
      BY <1>2, <2>0, AppendFacts
    <3>2. QED
      BY <1>1, <2>0, <3>1
  <2>2. lost' \subseteq Events
    BY <1>1, <1>2 DEF StreamInv, Types, Dropped
  <2>3. QED
    BY <1>1, <2>1, <2>2 DEF StreamInv, Types
<1>5. /\ Way \in Ways /\ Way' \in Ways /\ Way[4] = live /\ Way'[4] = live'
      /\ Way'[1] = Way[1] /\ Way'[2] = Way[2] /\ Way'[3] = Way[3]
  BY <1>1, <1>4, WayFacts DEF StreamInv
<1>6. \A l \in (1..4) \ {4} : Way'[l] = Way[l]
  BY <1>5
<1>7. Once(Way) /\ ~Holds(Way, Event(w).seq) /\ Event(w).seq <= counter
  BY <1>2 DEF StreamInv, Unsent, Single
<1>8. CASE live' = Append(live, Event(w)) /\ lost' = lost
  <2>1. Joins(Way, Way', 4, Event(w))
    BY <1>5, <1>6, <1>8 DEF Joins
  <2>2. 4 \in 1..4
    OBVIOUS
  <2>3. Once(Way') /\ \A n : Holds(Way', n) <=> Holds(Way, n) \/ n = Event(w).seq
    BY <1>2, <1>5, <1>7, <2>1, <2>2, AddOnTheWay
  <2>4. Unsent'
    BY <1>1, <1>2, <1>3, <2>3 DEF StreamInv, Unsent
  <2>5. Single'
    BY <1>1, <1>7, <2>3 DEF StreamInv, Single
  <2>6. Complete'
    BY <1>1, <1>2, <1>3, <1>8, <2>3 DEF StreamInv, Complete
  <2>7. QED
    BY <1>4, <2>4, <2>5, <2>6 DEF StreamInv
<1>9. CASE live' = live /\ lost' = Dropped({Event(w)})
  <2>1. Way' = Way
    BY <1>1, <1>9 DEF Way, Taken
  <2>2. Unsent'
    BY <1>1, <1>3, <2>1 DEF StreamInv, Unsent
  <2>3. Single'
    BY <1>1, <2>1 DEF StreamInv, Single
  <2>4. client # Gone => lost' = lost \cup {Event(w)}
    BY <1>9 DEF Dropped
  <2>5. Complete'
    BY <1>1, <1>2, <1>3, <2>1, <2>4 DEF StreamInv, Complete
  <2>6. QED
    BY <1>4, <2>2, <2>3, <2>5 DEF StreamInv
<1>10. QED
  BY <1>1, <1>8, <1>9

(* The server forwards an event to the hub.                                *)
LEMMA ForwardKeeps ==
  ASSUME StreamInv, Forward
  PROVE  StreamInv'
<1>1. /\ live # <<>> /\ live' = Tail(live)
      /\ \/ bcast' = Append(bcast, Head(live)) /\ lost' = lost
         \/ bcast' = bcast /\ lost' = Dropped({Head(live)})
      /\ counter' = counter /\ pub' = pub /\ client' = client /\ seen' = seen /\ joined' = joined
  BY DEF Forward
<1>2. Head(live) \in Events /\ Tail(live) \in Seq(Events)
  BY <1>1, TailFacts DEF StreamInv, Types
<1>3. Types'
  <2>0. bcast \in Seq(Events) /\ lost \subseteq Events
    BY DEF StreamInv, Types
  <2>1. bcast' \in Seq(Events)
    <3>1. Append(bcast, Head(live)) \in Seq(Events)
      BY <1>2, <2>0, AppendFacts
    <3>2. QED
      BY <1>1, <2>0, <3>1
  <2>2. lost' \subseteq Events
    BY <1>1, <1>2, <2>0 DEF Dropped
  <2>3. QED
    BY <1>1, <1>2, <2>1, <2>2 DEF StreamInv, Types
<1>4. /\ Way[4] = live /\ Way'[4] = live' /\ Way[3] = bcast /\ Way'[3] = bcast'
      /\ Way'[1] = Way[1] /\ Way'[2] = Way[2]
  BY <1>1, <1>3, WayFacts DEF StreamInv
<1>5. /\ 4 \in 1..4 /\ 4 # 1 /\ 4 - 1 = 3
      /\ \A l \in (1..4) \ {3, 4} : l = 1 \/ l = 2
      /\ \A l \in (1..4) \ {4} : l = 1 \/ l = 2 \/ l = 3
  OBVIOUS
<1>6. \/ /\ Way'[4 - 1] = Append(Way[4 - 1], Head(Way[4])) /\ lost' = lost
         /\ \A l \in (1..4) \ {4 - 1, 4} : Way'[l] = Way[l]
      \/ /\ lost' = Dropped({Head(Way[4])})
         /\ \A l \in (1..4) \ {4} : Way'[l] = Way[l]
  BY <1>1, <1>4, <1>5
<1>7. QED
  BY <1>1, <1>3, <1>4, <1>5, <1>6, MoveKeeps

(* The hub hands an event to the client, if there is one with room.        *)
LEMMA HubRunKeeps ==
  ASSUME StreamInv, HubRun
  PROVE  StreamInv'
<1>1. /\ bcast # <<>> /\ bcast' = Tail(bcast)
      /\ \/ client # Gone /\ client' = Append(client, Head(bcast)) /\ lost' = lost
         \/ client' = client /\ lost' = Dropped({Head(bcast)})
      /\ counter' = counter /\ pub' = pub /\ live' = live /\ seen' = seen /\ joined' = joined
  BY DEF HubRun
<1>2. Head(bcast) \in Events /\ Tail(bcast) \in Seq(Events)
  BY <1>1, TailFacts DEF StreamInv, Types
<1>3. /\ client' = Gone \/ client' \in Seq(Events)
      /\ client' # Gone <=> client # Gone
      /\ lost' \subseteq Events
  <2>0. (client = Gone \/ client \in Seq(Events)) /\ lost \subseteq Events
    BY DEF StreamInv, Types
  <2>1. CASE client # Gone /\ client' = Append(client, Head(bcast)) /\ lost' = lost
    <3>1. client' \in Seq(Events)
      BY <1>2, <2>0, <2>1, AppendFacts
    <3>2. client' # Gone
      BY <3>1, EventFacts
    <3>3. QED
      BY <2>0, <2>1, <3>1, <3>2
  <2>2. CASE client' = client /\ lost' = Dropped({Head(bcast)})
    BY <1>2, <2>0, <2>2 DEF Dropped
  <2>3. QED
    BY <1>1, <2>1, <2>2
<1>4. Types'
  BY <1>1, <1>2, <1>3 DEF StreamInv, Types
<1>5. /\ Way[3] = bcast /\ Way'[3] = bcast' /\ Way'[1] = Way[1] /\ Way'[4] = Way[4]
      /\ client # Gone => Way[2] = client /\ Way'[2] = client'
      /\ client = Gone => Way[2] = <<>> /\ Way'[2] = <<>>
  BY <1>1, <1>3, <1>4, WayFacts DEF StreamInv
<1>6. /\ 3 \in 1..4 /\ 3 # 1 /\ 3 - 1 = 2
      /\ \A l \in (1..4) \ {2, 3} : l = 1 \/ l = 4
      /\ \A l \in (1..4) \ {3} : l = 1 \/ l = 2 \/ l = 4
  OBVIOUS
<1>7. \/ /\ Way'[3 - 1] = Append(Way[3 - 1], Head(Way[3])) /\ lost' = lost
         /\ \A l \in (1..4) \ {3 - 1, 3} : Way'[l] = Way[l]
      \/ /\ lost' = Dropped({Head(Way[3])})
         /\ \A l \in (1..4) \ {3} : Way'[l] = Way[l]
  <2>1. CASE client # Gone /\ client' = Append(client, Head(bcast)) /\ lost' = lost
    BY <1>5, <1>6, <2>1
  <2>2. CASE client' = client /\ lost' = Dropped({Head(bcast)})
    BY <1>5, <1>6, <2>2
  <2>3. QED
    BY <1>1, <2>1, <2>2
<1>8. QED
  BY <1>1, <1>3, <1>4, <1>5, <1>6, <1>7, MoveKeeps

(* The client takes what was written to it.                                *)
LEMMA ClientWriteKeeps ==
  ASSUME StreamInv, ClientWrite
  PROVE  StreamInv'
<1>1. /\ client # Gone /\ client # <<>> /\ client' = Tail(client)
      /\ seen' = Append(seen, Head(client)) /\ lost' = lost
      /\ counter' = counter /\ pub' = pub /\ live' = live /\ bcast' = bcast /\ joined' = joined
  BY DEF ClientWrite
<1>2. Head(client) \in Events /\ Tail(client) \in Seq(Events) /\ client' # Gone
  BY <1>1, TailFacts, EventFacts DEF StreamInv, Types
<1>3. Types'
  <2>1. seen' \in Seq(Events)
    BY <1>1, <1>2 DEF StreamInv, Types
  <2>2. QED
    BY <1>1, <1>2, <2>1 DEF StreamInv, Types
<1>4. /\ Way[1] = seen /\ Way'[1] = seen' /\ Way[2] = client /\ Way'[2] = client'
      /\ Way'[3] = Way[3] /\ Way'[4] = Way[4]
  BY <1>1, <1>2, <1>3, WayFacts DEF StreamInv
<1>5. 2 \in 1..4 /\ 2 # 1 /\ 2 - 1 = 1 /\ \A l \in (1..4) \ {1, 2} : l = 3 \/ l = 4
  OBVIOUS
<1>6. /\ Way'[2 - 1] = Append(Way[2 - 1], Head(Way[2]))
      /\ \A l \in (1..4) \ {2 - 1, 2} : Way'[l] = Way[l]
  BY <1>1, <1>4, <1>5
<1>7. QED
  BY <1>1, <1>2, <1>3, <1>4, <1>5, <1>6, MoveKeeps

(* A client subscribes with empty hands, or leaves.                        *)
LEMMA ClientKeeps ==
  ASSUME StreamInv, ClientJoins \/ ClientLeaves
  PROVE  StreamInv'
<1>1. /\ seen' = <<>> /\ counter' = counter /\ pub' = pub /\ live' = live /\ bcast' = bcast
      /\ \/ client' = <<>> /\ joined' = counter /\ lost' = lost
         \/ client' = Gone /\ joined' = 0 /\ lost' = {}
  BY DEF ClientJoins, ClientLeaves
<1>2. Types'
  <2>1. <<>> \in Seq(Events) /\ 0 \in 0..MaxEvents
    BY EventBufferAssumption
  <2>2. QED
    BY <1>1, <2>1 DEF StreamInv, Types
<1>3. /\ Way \in Ways /\ Way' \in Ways /\ Way'[1] = <<>> /\ Way'[2] = <<>>
      /\ Way'[3] = Way[3] /\ Way'[4] = Way[4]
  BY <1>1, <1>2, WayFacts DEF StreamInv
<1>4. \A l \in 1..4 : Way'[l] = Way[l] \/ Way'[l] = <<>>
  BY <1>3
<1>5. Once(Way') /\ \A n : Holds(Way', n) => Holds(Way, n)
  <2>1. Once(Way)
    BY DEF StreamInv, Single
  <2>2. QED
    BY <1>3, <1>4, <2>1, CutOnTheWay
<1>6. Unsent' /\ Single'
  <2>1. \A w \in Writers : (Busy(w)' <=> Busy(w)) /\ pub'[w] = pub[w]
    BY <1>1 DEF Busy
  <2>2. QED
    BY <1>1, <1>5, <2>1, Quiet
<1>7. Complete'
  <2>1. counter \in Nat
    BY EventBufferAssumption DEF StreamInv, Types
  <2>2. client' # Gone => (joined' + 1)..counter' = {}
    BY <1>1, <2>1
  <2>3. QED
    BY <2>2 DEF Complete
<1>8. QED
  BY <1>2, <1>6, <1>7 DEF StreamInv

-----------------------------------------------------------------------------
(* The rings *)

RingTypes ==
    /\ per \in [Sources -> Seq(Events)] /\ global \in Seq(Events)
    /\ since \in 0..MaxEvents /\ settled \subseteq Events

Bounded ==
    /\ \A s \in Sources : Len(per[s]) <= PerCap
    /\ Len(global) <= GlobalCap /\ Len(live) <= ChanCap /\ Len(bcast) <= ChanCap
    /\ client # Gone => Len(client) <= ChanCap

(* The number of an event about to be stored is in no ring yet, and only   *)
(* numbers that were given out are.                                        *)
Unknown(n) ==
    /\ \A i \in 1..Len(global) : global[i].seq # n
    /\ \A s \in Sources : \A i \in 1..Len(per[s]) : per[s][i].seq # n
NumbersAreNew ==
    /\ \A w \in Writers : pub[w].stage = "store" => Unknown(pub[w].seq)
    /\ \A n \in 1..MaxEvents : n > counter => Unknown(n)

ReadIsSettled == \A i \in 1..Len(global) : global[i].seq <= since => global[i] \in settled

RingInv == RingTypes /\ Bounded /\ NumbersAreNew /\ RingsAgree /\ ReadIsSettled

(* Sequence r is q with u appended and the first d elements dropped.       *)
Shifted(q, u, r, d) ==
    /\ Len(r) + d = Len(q) + 1
    /\ \A i \in 1..Len(r) : r[i] = IF i + d = Len(q) + 1 THEN u ELSE q[i + d]

(* A ring keeps the newest events, in their places from the end.           *)
LEMMA RingFacts ==
  ASSUME NEW S, NEW q \in Seq(S), NEW u \in S, NEW n \in Nat \ {0}
  PROVE  /\ AppendRing(q, u, n) \in Seq(S)
         /\ Len(AppendRing(q, u, n)) \in 1..n
         /\ \E d \in Nat : Shifted(q, u, AppendRing(q, u, n), d)
<1> DEFINE a == Append(q, u)
<1>1. /\ a \in Seq(S) /\ Len(a) = Len(q) + 1 /\ Len(q) \in Nat
      /\ \A i \in 1..(Len(q) + 1) : a[i] = IF i = Len(q) + 1 THEN u ELSE q[i]
  OBVIOUS
<1> HIDE DEF a
<1>2. CASE Len(q) + 1 > n
  <2> DEFINE r == SubSeq(a, Len(q) + 1 - n + 1, Len(q) + 1)
  <2>1. AppendRing(q, u, n) = r
    BY <1>1, <1>2 DEF AppendRing, LastN, a
  <2>2. /\ r \in Seq(S) /\ Len(r) = n
        /\ \A i \in 1..n : r[i] = a[i + (Len(q) + 1 - n)]
    <3> DEFINE m == Len(q) + 1 - n + 1
               l == Len(q) + 1
    <3>1. m \in 1..l /\ l = Len(a) /\ l - m + 1 = n /\ m + n - 1 = l
      BY <1>1, <1>2
    <3>2. r = SubSeq(a, m, l)
      OBVIOUS
    <3>3. \A i \in 1..n : m + i - 1 \in 1..l /\ m + i - 1 = i + (Len(q) + 1 - n)
      BY <1>1, <1>2
    <3> HIDE DEF m, l, r
    <3>4. r \in Seq(S) /\ Len(r) = n
      BY <1>1, <3>1, <3>2
    <3>5. \A i \in 1..n : r[i] = a[m + i - 1]
      BY <1>1, <3>1, <3>2, <3>3
    <3> QED
      BY <3>3, <3>4, <3>5
  <2> HIDE DEF r
  <2>3. Len(q) + 1 - n \in Nat
    BY <1>1, <1>2
  <2>4. \A i \in 1..n : i + (Len(q) + 1 - n) \in 1..(Len(q) + 1)
    BY <1>1, <1>2
  <2>5. \A i \in 1..n : r[i] = IF i + (Len(q) + 1 - n) = Len(q) + 1 THEN u
                               ELSE q[i + (Len(q) + 1 - n)]
    BY <1>1, <2>2, <2>4
  <2>6. n + (Len(q) + 1 - n) = Len(q) + 1
    BY <1>1
  <2>7. Shifted(q, u, r, Len(q) + 1 - n)
    BY <2>2, <2>5, <2>6 DEF Shifted
  <2>8. QED
    BY <2>1, <2>2, <2>3, <2>7
<1>3. CASE ~ (Len(q) + 1 > n)
  <2>1. AppendRing(q, u, n) = a
    BY <1>1, <1>3 DEF AppendRing, LastN, a
  <2>2. \A i \in 1..Len(a) : i + 0 = i
    BY <1>1
  <2>3. \A i \in 1..Len(a) : a[i] = IF i + 0 = Len(q) + 1 THEN u ELSE q[i + 0]
    BY <1>1, <2>2
  <2>4. Len(a) \in 1..n /\ Len(a) + 0 = Len(q) + 1 /\ 0 \in Nat
    BY <1>1, <1>3
  <2>5. Shifted(q, u, a, 0)
    BY <2>3, <2>4 DEF Shifted
  <2>6. QED
    BY <1>1, <2>1, <2>4, <2>5
<1>4. QED
  BY <1>2, <1>3

(* What Store does to the rings.                                           *)
LEMMA StoreFacts ==
  ASSUME StreamInv, RingInv, NEW w \in Writers, Store(w)
  PROVE  /\ Event(w) \in Events /\ Event(w).seq = pub[w].seq /\ Unknown(pub[w].seq)
         /\ \A s \in Sources \ {Event(w).src} : per'[s] = per[s]
         /\ per'[Event(w).src] = AppendRing(per[Event(w).src], Event(w), PerCap)
         /\ global' = AppendRing(global, Event(w), GlobalCap)
         /\ per' \in [Sources -> Seq(Events)] /\ global' \in Seq(Events)
         /\ \A s \in Sources : Len(per[s])' <= PerCap
         /\ Len(global') <= GlobalCap
<1>1. pub[w].stage = "store" /\ pub[w] # Idle
  BY DEF Store, Idle
<1>2. Event(w) \in Events /\ Event(w).seq = pub[w].seq
  BY <1>1, BusyFacts DEF StreamInv, Event, Busy
<1>3. Event(w).src \in Sources
  BY <1>2, EventFacts
<1>4. /\ per' = [per EXCEPT ![Event(w).src] = AppendRing(per[Event(w).src], Event(w), PerCap)]
      /\ global' = AppendRing(global, Event(w), GlobalCap)
  BY DEF Store
<1>5. /\ AppendRing(global, Event(w), GlobalCap) \in Seq(Events)
      /\ Len(AppendRing(global, Event(w), GlobalCap)) \in 1..GlobalCap
  BY <1>2, RingFacts, EventBufferAssumption DEF RingInv, RingTypes
<1>6. /\ AppendRing(per[Event(w).src], Event(w), PerCap) \in Seq(Events)
      /\ Len(AppendRing(per[Event(w).src], Event(w), PerCap)) \in 1..PerCap
  <2>1. per[Event(w).src] \in Seq(Events)
    BY <1>3 DEF RingInv, RingTypes
  <2>2. QED
    BY <1>2, <2>1, RingFacts, EventBufferAssumption
<1>7. per \in [Sources -> Seq(Events)]
  BY DEF RingInv, RingTypes
<1>8. /\ \A s \in Sources \ {Event(w).src} : per'[s] = per[s]
      /\ per'[Event(w).src] = AppendRing(per[Event(w).src], Event(w), PerCap)
      /\ per' \in [Sources -> Seq(Events)]
  BY <1>3, <1>4, <1>6, <1>7
<1>9. \A s \in Sources : Len(per'[s]) <= PerCap
  BY <1>6, <1>8, EventBufferAssumption DEF RingInv, Bounded
<1>10. QED
  BY <1>1, <1>2, <1>4, <1>5, <1>8, <1>9, EventBufferAssumption DEF RingInv, NumbersAreNew

(* Both rings get the event last and lose only their oldest.               *)
LEMMA StoreAgrees ==
  ASSUME StreamInv, RingInv, NEW w \in Writers, Store(w)
  PROVE  RingsAgree'
<1> DEFINE e == Event(w)
<1>1. /\ e \in Events /\ e.src \in Sources
      /\ \A s \in Sources \ {e.src} : per'[s] = per[s]
      /\ per'[e.src] = AppendRing(per[e.src], e, PerCap)
      /\ global' = AppendRing(global, e, GlobalCap)
  BY StoreFacts, EventFacts
<1>2. /\ \A i \in 1..Len(global) : global[i] # e
      /\ \A s \in Sources : \A i \in 1..Len(per[s]) : per[s][i] # e
  BY StoreFacts DEF Unknown
<1> HIDE DEF e
<1>3. global \in Seq(Events) /\ Len(global) \in Nat
  BY DEF RingInv, RingTypes
<1>4. PICK d \in Nat : Shifted(global, e, global', d)
  BY <1>1, <1>3, RingFacts, EventBufferAssumption
<1>5. Len(global') \in 1..GlobalCap /\ GlobalCap \in Nat
  BY <1>1, <1>3, RingFacts, EventBufferAssumption
<1>6. \A i \in 1..Len(global') :
        /\ i + d \in 1..(Len(global) + 1) /\ i + d \in Nat /\ i \in Nat
        /\ i + d # Len(global) + 1 => i + d \in 1..Len(global) /\ global'[i] = global[i + d]
        /\ i + d = Len(global) + 1 => global'[i] = e
  BY <1>3, <1>4, <1>5 DEF Shifted
<1>7. \A k \in 1..Len(global) : k - d >= 1 =>
        k - d \in 1..Len(global') /\ global'[k - d] = global[k]
  <2>1. ASSUME NEW k \in 1..Len(global), k - d >= 1
        PROVE  k - d \in 1..Len(global') /\ (k - d) + d = k /\ k # Len(global) + 1
    BY <1>3, <1>4, <1>5, <2>1 DEF Shifted
  <2>2. QED
    BY <1>4, <2>1 DEF Shifted
<1>8. ASSUME NEW s \in Sources, NEW i \in 1..Len(global'), NEW j \in 1..Len(global'),
             Succeeds(s, i, j)', j + d # Len(global) + 1
      PROVE  /\ Succeeds(s, i + d, j + d) /\ i + d \in 1..Len(global) /\ j + d \in 1..Len(global)
             /\ global'[i] = global[i + d] /\ global'[j] = global[j + d]
  <2>1. /\ i < j /\ global'[i].src = s /\ global'[j].src = s
        /\ \A k \in (i + 1)..(j - 1) : global'[k].src # s
    BY <1>8 DEF Succeeds
  <2>2. j + d \in 1..Len(global) /\ i + d # Len(global) + 1 /\ i + d < j + d
    BY <1>3, <1>6, <1>8, <2>1
  <2>3. \A k \in (i + d + 1)..(j + d - 1) :
          /\ k \in 1..Len(global) /\ k - d >= 1 /\ k - d \in (i + 1)..(j - 1)
    <3>1. i \in Nat /\ j \in Nat /\ i + d \in Nat
      BY <1>6
    <3>2. QED
      BY <1>3, <2>2, <3>1
  <2>4. i + d \in 1..Len(global) /\ global'[i] = global[i + d]
    BY <1>6, <2>2
  <2>5. global'[j] = global[j + d]
    BY <1>6, <1>8
  <2>6. \A k \in (i + d + 1)..(j + d - 1) : global[k].src # s
    BY <1>7, <2>1, <2>3
  <2>7. QED
    BY <2>1, <2>2, <2>4, <2>5, <2>6 DEF Succeeds
<1>9. ASSUME NEW s \in Sources, NEW i \in 1..Len(global'), i + d # Len(global) + 1,
             global'[i].src = s, \A k \in (i + 1)..(Len(global) - d) : global'[k].src # s
      PROVE  Newest(s, i + d) /\ i + d \in 1..Len(global) /\ global'[i] = global[i + d]
  <2>1. i + d \in 1..Len(global) /\ global'[i] = global[i + d]
    BY <1>6, <1>9
  <2>2. \A k \in (i + d + 1)..Len(global) :
          k \in 1..Len(global) /\ k - d >= 1 /\ k - d \in (i + 1)..(Len(global) - d)
    BY <1>3, <1>6, <2>1
  <2>3. QED
    BY <1>7, <1>9, <2>1, <2>2 DEF Newest
<1>10. ASSUME NEW s \in Sources, s # e.src
       PROVE  /\ \A i \in 1..Len(global') :
                   Newest(s, i)' /\ per'[s] # <<>> => per'[s][Len(per'[s])] = global'[i]
              /\ \A i, j \in 1..Len(global') : Succeeds(s, i, j)' =>
                   \A a \in 2..Len(per'[s]) :
                     per'[s][a] = global'[j] => per'[s][a - 1] = global'[i]
  <2>1. per'[s] = per[s]
    BY <1>1, <1>10
  <2>2. \A i \in 1..Len(global') : global'[i].src = s => i + d # Len(global) + 1
    BY <1>6, <1>10
  <2>3. ASSUME NEW i \in 1..Len(global'), Newest(s, i)', per'[s] # <<>>
        PROVE  per'[s][Len(per'[s])] = global'[i]
    <3>1. Len(global) - d < Len(global')
      <4>1. Len(global') + d = Len(global) + 1 /\ Len(global') \in Nat
        BY <1>4, <1>5 DEF Shifted
      <4>2. QED
        BY <1>3, <4>1
    <3>2. /\ global'[i].src = s /\ i + d # Len(global) + 1
          /\ \A k \in (i + 1)..(Len(global) - d) : global'[k].src # s
      <4>1. /\ global'[i].src = s
            /\ \A k \in (i + 1)..Len(global') : global'[k].src # s
        BY <2>3 DEF Newest
      <4>2. (i + 1)..(Len(global) - d) \subseteq (i + 1)..Len(global')
        BY <1>3, <1>5, <3>1
      <4>3. QED
        BY <2>2, <4>1, <4>2
    <3>3. Newest(s, i + d) /\ i + d \in 1..Len(global) /\ global'[i] = global[i + d]
      BY <1>9, <3>2
    <3>4. QED
      BY <2>1, <2>3, <3>3 DEF RingInv, RingsAgree
  <2>4. ASSUME NEW i \in 1..Len(global'), NEW j \in 1..Len(global'), Succeeds(s, i, j)'
        PROVE  \A a \in 2..Len(per'[s]) :
                 per'[s][a] = global'[j] => per'[s][a - 1] = global'[i]
    <3>1. j + d # Len(global) + 1
      BY <2>2, <2>4 DEF Succeeds
    <3>2. /\ Succeeds(s, i + d, j + d) /\ i + d \in 1..Len(global) /\ j + d \in 1..Len(global)
          /\ global'[i] = global[i + d] /\ global'[j] = global[j + d]
      BY <1>8, <2>4, <3>1
    <3>3. QED
      BY <2>1, <3>2 DEF RingInv, RingsAgree
  <2>5. QED
    BY <2>3, <2>4
<1>11. ASSUME NEW s \in Sources, s = e.src
       PROVE  /\ \A i \in 1..Len(global') :
                   Newest(s, i)' /\ per'[s] # <<>> => per'[s][Len(per'[s])] = global'[i]
              /\ \A i, j \in 1..Len(global') : Succeeds(s, i, j)' =>
                   \A a \in 2..Len(per'[s]) :
                     per'[s][a] = global'[j] => per'[s][a - 1] = global'[i]
  <2> DEFINE p == per[s]
             r == per'[s]
  <2>1. p \in Seq(Events) /\ Len(p) \in Nat
    BY DEF RingInv, RingTypes
  <2>2. PICK c \in Nat : Shifted(p, e, r, c)
    BY <1>1, <1>11, <2>1, RingFacts, EventBufferAssumption
  <2>3. Len(r) \in Nat \ {0}
    BY <1>1, <1>11, <2>1, RingFacts, EventBufferAssumption
  <2>4. \A a \in 1..Len(p) : p[a] # e
    BY <1>2
  <2>5. /\ \A i \in 1..Len(global) : Newest(s, i) /\ p # <<>> => p[Len(p)] = global[i]
        /\ \A i, j \in 1..Len(global) : Succeeds(s, i, j) =>
             \A a \in 2..Len(p) : p[a] = global[j] => p[a - 1] = global[i]
    BY DEF RingInv, RingsAgree
  <2> HIDE DEF p, r
  <2>6. ASSUME NEW i \in 1..Len(global'), Newest(s, i)'
        PROVE  r[Len(r)] = global'[i]
    <3>1. Len(global') \in 1..Len(global') /\ global'[Len(global')] = e
      BY <1>4, <1>5 DEF Shifted
    <3>2. i = Len(global')
      <4>1. \A k \in (i + 1)..Len(global') : global'[k].src # s
        BY <2>6 DEF Newest
      <4>2. i < Len(global') => Len(global') \in (i + 1)..Len(global')
        BY <1>5
      <4>3. ~ (i < Len(global'))
        BY <1>11, <3>1, <4>1, <4>2
      <4>4. QED
        BY <1>5, <4>3
    <3>3. r[Len(r)] = e
      BY <2>2, <2>3 DEF Shifted
    <3>4. QED
      BY <3>1, <3>2, <3>3
  <2>7. ASSUME NEW i \in 1..Len(global'), NEW j \in 1..Len(global'), Succeeds(s, i, j)',
               NEW a \in 2..Len(r), r[a] = global'[j]
        PROVE  r[a - 1] = global'[i]
    <3>1. /\ a - 1 \in 1..Len(r) /\ a \in 1..Len(r) /\ (a - 1) + c = (a + c) - 1
          /\ a + c \in 2..(Len(p) + 1) /\ (a - 1) + c # Len(p) + 1
      BY <2>1, <2>2, <2>3 DEF Shifted
    <3>2. /\ r[a - 1] = p[(a + c) - 1]
          /\ r[a] = IF a + c = Len(p) + 1 THEN e ELSE p[a + c]
      BY <2>2, <3>1 DEF Shifted
    <3>3. CASE j + d = Len(global) + 1
      <4>1. global'[j] = e
        BY <1>6, <3>3
      <4>2. a + c = Len(p) + 1
        <5>1. a + c # Len(p) + 1 => r[a] = p[a + c]
          BY <3>2
        <5>2. a + c # Len(p) + 1 => a + c \in 1..Len(p)
          BY <2>1, <3>1
        <5>3. QED
          BY <2>4, <2>7, <4>1, <5>1, <5>2
      <4>3. /\ i < j /\ global'[i].src = s
            /\ \A k \in (i + 1)..(j - 1) : global'[k].src # s
        BY <2>7 DEF Succeeds
      <4>4. i + d # Len(global) + 1 /\ Len(global) - d = j - 1
        BY <1>3, <3>3, <4>3
      <4>5. Newest(s, i + d) /\ i + d \in 1..Len(global) /\ global'[i] = global[i + d]
        BY <1>9, <4>3, <4>4
      <4>6. p # <<>> /\ (a + c) - 1 = Len(p)
        <5>1. (a + c) - 1 = Len(p) /\ Len(p) # 0
          BY <2>1, <3>1, <4>2
        <5>2. QED
          BY <5>1
      <4>7. QED
        BY <2>5, <3>2, <4>5, <4>6
    <3>4. CASE j + d # Len(global) + 1
      <4>1. /\ Succeeds(s, i + d, j + d)
            /\ i + d \in 1..Len(global) /\ j + d \in 1..Len(global)
            /\ global'[i] = global[i + d] /\ global'[j] = global[j + d]
        BY <1>8, <2>7, <3>4
      <4>2. r[a] # e
        BY <1>2, <2>7, <4>1
      <4>3. a + c \in 2..Len(p) /\ r[a] = p[a + c]
        <5>1. a + c # Len(p) + 1 /\ r[a] = p[a + c]
          BY <3>2, <4>2
        <5>2. a + c \in 2..(Len(p) + 1) /\ Len(p) \in Nat
          BY <2>1, <3>1
        <5>3. QED
          BY <5>1, <5>2
      <4>4. p[a + c] = global[j + d] /\ r[a - 1] = p[(a + c) - 1]
        BY <2>7, <3>2, <4>1, <4>3
      <4>5. p[(a + c) - 1] = global[i + d]
        BY <2>5, <4>1, <4>3, <4>4
      <4>6. QED
        BY <4>1, <4>4, <4>5
    <3>5. QED
      BY <3>3, <3>4
  <2>8. QED
    BY <2>6, <2>7 DEF r
<1>12. QED
  BY <1>10, <1>11 DEF RingsAgree

(* The rings hold what they held and the new event.                        *)
LEMMA StoredAre ==
  ASSUME StreamInv, RingInv, NEW w \in Writers, Store(w)
  PROVE  /\ \A i \in 1..Len(global') :
              \/ global'[i] = Event(w)
              \/ \E k \in 1..Len(global) : global'[i] = global[k]
         /\ \A s \in Sources : \A i \in 1..Len(per'[s]) :
              \/ per'[s][i] = Event(w)
              \/ \E k \in 1..Len(per[s]) : per'[s][i] = per[s][k]
<1>1. /\ Event(w) \in Events
      /\ \A s \in Sources \ {Event(w).src} : per'[s] = per[s]
      /\ per'[Event(w).src] = AppendRing(per[Event(w).src], Event(w), PerCap)
      /\ global' = AppendRing(global, Event(w), GlobalCap)
  BY StoreFacts
<1>2. ASSUME NEW q \in Seq(Events), NEW n \in Nat \ {0},
             NEW i \in 1..Len(AppendRing(q, Event(w), n))
      PROVE  \/ AppendRing(q, Event(w), n)[i] = Event(w)
             \/ \E k \in 1..Len(q) : AppendRing(q, Event(w), n)[i] = q[k]
  <2> DEFINE r == AppendRing(q, Event(w), n)
  <2>1. PICK d \in Nat : Shifted(q, Event(w), r, d)
    BY <1>1, RingFacts
  <2>2. Len(q) \in Nat /\ Len(r) \in Nat /\ i \in 1..Len(r)
    BY <1>1, <1>2, RingFacts
  <2> HIDE DEF r
  <2>3. i + d # Len(q) + 1 => i + d \in 1..Len(q)
    BY <2>1, <2>2 DEF Shifted
  <2>4. r[i] = IF i + d = Len(q) + 1 THEN Event(w) ELSE q[i + d]
    BY <2>1, <2>2 DEF Shifted
  <2>5. r[i] = Event(w) \/ \E k \in 1..Len(q) : r[i] = q[k]
    BY <2>3, <2>4
  <2>6. QED
    BY <2>5 DEF r
<1>3. global \in Seq(Events) /\ \A s \in Sources : per[s] \in Seq(Events)
  BY DEF RingInv, RingTypes
<1>4. \A i \in 1..Len(global') : \/ global'[i] = Event(w)
                                 \/ \E k \in 1..Len(global) : global'[i] = global[k]
  BY <1>1, <1>2, <1>3, EventBufferAssumption
<1>5. ASSUME NEW s \in Sources
      PROVE  \A i \in 1..Len(per'[s]) : \/ per'[s][i] = Event(w)
                                        \/ \E k \in 1..Len(per[s]) : per'[s][i] = per[s][k]
  <2>1. CASE s = Event(w).src
    BY <1>1, <1>2, <1>3, <2>1, EventBufferAssumption
  <2>2. CASE s # Event(w).src
    BY <1>1, <2>2
  <2>3. QED
    BY <2>1, <2>2
<1>6. QED
  BY <1>4, <1>5

(* An event enters the rings: its number is stored, and is settled where   *)
(* the reader has already passed it.                                       *)
LEMMA StoreKeepsRings ==
  ASSUME StreamInv, RingInv, NEW w \in Writers, Store(w)
  PROVE  RingInv'
<1>1. /\ Event(w) \in Events /\ Event(w).seq = pub[w].seq /\ Unknown(pub[w].seq)
      /\ per' \in [Sources -> Seq(Events)] /\ global' \in Seq(Events)
      /\ \A s \in Sources : Len(per[s])' <= PerCap
      /\ Len(global') <= GlobalCap
  BY StoreFacts
<1>2. /\ settled' = settled \cup (IF Event(w).seq <= since THEN {Event(w)} ELSE {})
                           \cup (Range(global) \ Range(global'))
      /\ since' = since /\ live' = live /\ bcast' = bcast /\ client' = client
      /\ counter' = counter
  BY DEF Store, stream
<1>3. /\ Busy(w) /\ pub[w].stage = "store"
      /\ \A v \in Writers \ {w} : pub'[v] = pub[v]
      /\ pub'[w].stage = "fan"
  <2>1. /\ pub[w].stage = "store" /\ pub' = [pub EXCEPT ![w].stage = "fan"]
    BY DEF Store
  <2>2. Busy(w) /\ pub[w] \in [stage : {"store", "fan"}, seq : 1..MaxEvents, src : Sources]
    BY <2>1, BusyFacts DEF StreamInv, Types, Busy
  <2>3. /\ pub'[w] = [pub[w] EXCEPT !.stage = "fan"]
        /\ \A v \in Writers \ {w} : pub'[v] = pub[v]
    BY <2>1 DEF StreamInv, Types
  <2>4. [pub[w] EXCEPT !.stage = "fan"].stage = "fan"
    BY <2>2
  <2>5. QED
    BY <2>1, <2>2, <2>3, <2>4
<1>4. RingTypes'
  <2>1. Range(global) \subseteq Events
    BY DEF RingInv, RingTypes, Range
  <2>2. QED
    BY <1>1, <1>2, <2>1 DEF RingInv, RingTypes
<1>5. Bounded'
  BY <1>1, <1>2 DEF RingInv, Bounded
<1>6. \A n : Unknown(n) /\ n # pub[w].seq => Unknown(n)'
  <2> SUFFICES ASSUME NEW n, Unknown(n), n # pub[w].seq PROVE Unknown(n)'
    OBVIOUS
  <2>1. \A i \in 1..Len(global') : global'[i].seq # n
    BY <1>1, StoredAre DEF Unknown
  <2>2. \A s \in Sources : \A i \in 1..Len(per'[s]) : per'[s][i].seq # n
    BY <1>1, StoredAre DEF Unknown
  <2>3. QED
    BY <2>1, <2>2 DEF Unknown
<1>7. NumbersAreNew'
  <2>1. ASSUME NEW v \in Writers, pub'[v].stage = "store" PROVE Unknown(pub[v].seq)'
    <3>1. v # w /\ pub'[v] = pub[v] /\ Busy(v)
      BY <1>3, <2>1, BusyFacts DEF StreamInv
    <3>2. pub[v].seq # pub[w].seq
      BY <1>3, <3>1 DEF StreamInv, Unsent
    <3>3. PICK n : n = pub[v].seq
      OBVIOUS
    <3>4. Unknown(n)
      BY <2>1, <3>1, <3>3 DEF RingInv, NumbersAreNew
    <3>5. Unknown(n)'
      BY <1>6, <3>2, <3>3, <3>4
    <3>6. pub'[v].seq = n
      BY <3>1, <3>3
    <3>7. QED
      BY <3>5, <3>6 DEF Unknown
  <2>2. ASSUME NEW n \in 1..MaxEvents, n > counter' PROVE Unknown(n)'
    <3>1. pub[w].seq <= counter /\ counter \in Nat
      BY <1>3, EventBufferAssumption DEF StreamInv, Unsent, Types
    <3>2. n # pub[w].seq /\ Unknown(n)
      BY <1>2, <2>2, <3>1 DEF RingInv, NumbersAreNew
    <3>3. QED
      BY <1>6, <3>2
  <2>3. QED
    BY <2>1, <2>2 DEF NumbersAreNew
<1>8. ReadIsSettled'
  <2> SUFFICES ASSUME NEW i \in 1..Len(global'), global'[i].seq <= since'
               PROVE  global'[i] \in settled'
    BY DEF ReadIsSettled
  <2>1. CASE global'[i] = Event(w)
    BY <1>2, <2>1
  <2>2. CASE \E k \in 1..Len(global) : global'[i] = global[k]
    <3>1. global'[i] \in settled
      BY <1>2, <2>2 DEF RingInv, ReadIsSettled
    <3>2. QED
      BY <1>2, <3>1
  <2>3. QED
    BY <2>1, <2>2, StoredAre
<1>9. QED
  BY <1>4, <1>5, <1>7, <1>8, StoreAgrees DEF RingInv

(* The reader takes what it asked for, and what the limit cuts off is gone *)
(* for it.                                                                 *)
LEMMA PollKeepsRings ==
  ASSUME StreamInv, RingInv, NEW limit \in Limits, Poll(limit)
  PROVE  RingInv'
<1>1. /\ per' = per /\ global' = global /\ live' = live /\ bcast' = bcast
      /\ client' = client /\ counter' = counter /\ pub' = pub
  BY DEF Poll, rings, stream
<1>2. PICK i \in Snapshot(limit) :
        /\ \A j \in Snapshot(limit) : global[j].seq <= global[i].seq
        /\ since' = global[i].seq
        /\ settled' = settled \cup {global[j] : j \in Snapshot(limit) \cup CutOff(limit)}
  BY DEF Poll
<1>3. /\ Snapshot(limit) \cup CutOff(limit) = Matching
      /\ Matching \subseteq 1..Len(global) /\ i \in 1..Len(global)
  BY <1>2 DEF Snapshot, CutOff, Matching
<1>4. \A j \in 1..Len(global) : global[j] \in Events /\ global[j].seq \in 1..MaxEvents
  BY EventFacts DEF RingInv, RingTypes
<1>5. RingTypes'
  BY <1>1, <1>2, <1>3, <1>4 DEF RingInv, RingTypes
<1>6. Bounded' /\ NumbersAreNew'
  BY <1>1 DEF RingInv, Bounded, NumbersAreNew, Unknown
<1>7. RingsAgree'
  BY <1>1 DEF RingInv, RingsAgree, Newest, Succeeds
<1>8. ReadIsSettled'
  <2> SUFFICES ASSUME NEW j \in 1..Len(global) PROVE global[j] \in settled'
                                                     \/ ~ (global[j].seq <= since')
    BY <1>1 DEF ReadIsSettled
  <2>1. CASE j \in Matching
    BY <1>2, <1>3, <2>1
  <2>2. CASE j \notin Matching
    <3>1. global[j].seq <= since
      BY <1>4, <2>2 DEF RingInv, RingTypes, Matching
    <3>2. QED
      BY <1>2, <3>1 DEF RingInv, ReadIsSettled
  <2>3. QED
    BY <2>1, <2>2
<1>9. QED
  BY <1>5, <1>6, <1>7, <1>8 DEF RingInv

(* A publisher draws a number that no ring holds, or is done.              *)
LEMMA PublisherKeepsRings ==
  ASSUME StreamInv, RingInv, NEW w \in Writers, Fan(w) \/ \E s \in Sources : Publish(w, s)
  PROVE  RingInv'
<1>1. /\ per' = per /\ global' = global /\ since' = since /\ settled' = settled
      /\ bcast' = bcast /\ client' = client
  BY DEF Fan, Publish, rings, stream, poller
<1>2. RingTypes' /\ RingsAgree' /\ ReadIsSettled'
  BY <1>1 DEF RingInv, RingTypes, RingsAgree, ReadIsSettled, Newest, Succeeds
<1>3. Bounded'
  <2>1. live' = live \/ (Len(live) < ChanCap /\ live' = Append(live, Event(w)))
    BY DEF Fan, Publish, stream
  <2>2. Len(Append(live, Event(w))) = Len(live) + 1 /\ Len(live) \in Nat
    BY DEF StreamInv, Types
  <2>3. Len(live') <= ChanCap
    BY <2>1, <2>2, EventBufferAssumption DEF RingInv, Bounded
  <2>4. QED
    BY <1>1, <2>3 DEF RingInv, Bounded
<1>4. \A n : Unknown(n)' <=> Unknown(n)
  BY <1>1 DEF Unknown
<1>5. NumbersAreNew'
  <2>1. CASE Fan(w)
    <3>1. /\ pub'[w].stage = "idle" /\ counter' = counter
          /\ \A v \in Writers \ {w} : pub'[v] = pub[v]
      BY <2>1 DEF Fan, Idle, StreamInv, Types
    <3>2. QED
      BY <1>4, <3>1 DEF RingInv, NumbersAreNew
  <2>2. CASE \E s \in Sources : Publish(w, s)
    <3>1. /\ pub'[w].seq = counter + 1 /\ counter' = counter + 1 /\ counter < MaxEvents
          /\ \A v \in Writers \ {w} : pub'[v] = pub[v]
      BY <2>2 DEF Publish, StreamInv, Types
    <3>2. counter \in Nat /\ counter + 1 \in 1..MaxEvents
      BY <3>1, EventBufferAssumption DEF StreamInv, Types
    <3>3. Unknown(counter + 1)
      BY <3>2 DEF RingInv, NumbersAreNew
    <3>4. QED
      BY <1>4, <3>1, <3>2, <3>3 DEF RingInv, NumbersAreNew
  <2>3. QED
    BY <2>1, <2>2
<1>6. QED
  BY <1>2, <1>3, <1>5 DEF RingInv

(* A source is cleared, or the stream moves on within its channels.        *)
LEMMA StreamKeepsRings ==
  ASSUME StreamInv, RingInv,
         \/ \E s \in Sources : ClearPlugin(s)
         \/ Forward \/ HubRun \/ ClientJoins \/ ClientWrite \/ ClientLeaves
         \/ UNCHANGED vars
  PROVE  RingInv'
<1>1. /\ global' = global /\ since' = since /\ settled' = settled
      /\ counter' = counter /\ pub' = pub
      /\ per' = per \/ \E s \in Sources : per' = [per EXCEPT ![s] = <<>>]
  BY DEF ClearPlugin, Forward, HubRun, ClientJoins, ClientWrite, ClientLeaves, vars, rings,
         stream, poller
<1>2. /\ per' \in [Sources -> Seq(Events)]
      /\ \A s \in Sources : per'[s] = per[s] \/ (per'[s] = <<>> /\ Len(per'[s]) = 0)
  <2>1. per \in [Sources -> Seq(Events)] /\ <<>> \in Seq(Events) /\ Len(<<>>) = 0
    BY DEF RingInv, RingTypes
  <2>2. \/ per' = per
        \/ /\ per' \in [Sources -> Seq(Events)]
           /\ \A s \in Sources : per'[s] = per[s] \/ per'[s] = <<>>
    BY <1>1, <2>1
  <2>3. QED
    BY <2>1, <2>2
<1>3. RingTypes' /\ ReadIsSettled'
  BY <1>1, <1>2 DEF RingInv, RingTypes, ReadIsSettled
<1>4. NumbersAreNew'
  <2>1. \A n : Unknown(n) => Unknown(n)'
    BY <1>1, <1>2 DEF Unknown
  <2>2. QED
    BY <1>1, <2>1 DEF RingInv, NumbersAreNew
<1>5. RingsAgree'
  <2>1. /\ \A s : \A i : Newest(s, i)' <=> Newest(s, i)
        /\ \A s : \A i, j : Succeeds(s, i, j)' <=> Succeeds(s, i, j)
    BY <1>1 DEF Newest, Succeeds
  <2>2. ASSUME NEW s \in Sources, per'[s] = <<>>, Len(per'[s]) = 0
        PROVE  /\ \A i \in 1..Len(global') :
                    Newest(s, i)' /\ per'[s] # <<>> => per'[s][Len(per'[s])] = global'[i]
               /\ \A i, j \in 1..Len(global') : Succeeds(s, i, j)' =>
                    \A a \in 2..Len(per'[s]) :
                      per'[s][a] = global'[j] => per'[s][a - 1] = global'[i]
    <3>1. 2..Len(per'[s]) = {}
      BY <2>2
    <3>2. QED
      BY <2>2, <3>1
  <2>3. ASSUME NEW s \in Sources, per'[s] = per[s]
        PROVE  /\ \A i \in 1..Len(global') :
                    Newest(s, i)' /\ per'[s] # <<>> => per'[s][Len(per'[s])] = global'[i]
               /\ \A i, j \in 1..Len(global') : Succeeds(s, i, j)' =>
                    \A a \in 2..Len(per'[s]) :
                      per'[s][a] = global'[j] => per'[s][a - 1] = global'[i]
    BY <1>1, <2>1, <2>3 DEF RingInv, RingsAgree
  <2>4. QED
    BY <1>2, <2>2, <2>3 DEF RingsAgree
<1>6. Bounded'
  <2>1. \A s \in Sources : Len(per'[s]) <= PerCap
    BY <1>2, EventBufferAssumption DEF RingInv, Bounded
  <2>2. Len(live') <= ChanCap
    <3>1. live' = live \/ (live # <<>> /\ live' = Tail(live))
      BY DEF ClearPlugin, Forward, HubRun, ClientJoins, ClientWrite, ClientLeaves, vars, stream
    <3>2. live # <<>> => Len(Tail(live)) = Len(live) - 1 /\ Len(live) \in Nat
      BY TailFacts DEF StreamInv, Types
    <3>3. QED
      BY <3>1, <3>2, EventBufferAssumption DEF RingInv, Bounded
  <2>3. Len(bcast') <= ChanCap
    <3>1. \/ bcast' = bcast \/ (bcast # <<>> /\ bcast' = Tail(bcast))
          \/ Len(bcast) < ChanCap /\ bcast' = Append(bcast, Head(live))
      BY DEF ClearPlugin, Forward, HubRun, ClientJoins, ClientWrite, ClientLeaves, vars, stream
    <3>2. /\ Len(bcast) \in Nat /\ Len(Append(bcast, Head(live))) = Len(bcast) + 1
          /\ bcast # <<>> => Len(Tail(bcast)) = Len(bcast) - 1
      BY TailFacts DEF StreamInv, Types
    <3>3. QED
      BY <3>1, <3>2, EventBufferAssumption DEF RingInv, Bounded
  <2>4. client' # Gone => Len(client') <= ChanCap
    <3>1. \/ client' = client \/ client' = Gone \/ client' = <<>>
          \/ client # Gone /\ client # <<>> /\ client' = Tail(client)
          \/ client # Gone /\ Len(client) < ChanCap /\ client' = Append(client, Head(bcast))
      BY DEF ClearPlugin, Forward, HubRun, ClientJoins, ClientWrite, ClientLeaves, vars, stream
    <3>2. client # Gone =>
            /\ client \in Seq(Events) /\ Len(client) \in Nat /\ Len(client) <= ChanCap
            /\ Len(Append(client, Head(bcast))) = Len(client) + 1
            /\ client # <<>> => Len(Tail(client)) = Len(client) - 1
      BY TailFacts DEF StreamInv, Types, RingInv, Bounded
    <3>3. Len(<<>>) <= ChanCap
      BY EventBufferAssumption
    <3>4. QED
      BY <3>1, <3>2, <3>3, EventBufferAssumption
  <2>5. QED
    BY <1>1, <2>1, <2>2, <2>3, <2>4 DEF RingInv, Bounded
<1>7. QED
  BY <1>3, <1>4, <1>5, <1>6 DEF RingInv

(* The rings start empty.                                                  *)
LEMMA RingsStart == Init => RingInv
<1> SUFFICES ASSUME Init PROVE RingInv
  OBVIOUS
<1>1. /\ \A s \in Sources : per[s] = <<>> /\ Len(per[s]) = 0
      /\ global = <<>> /\ Len(global) = 0 /\ since = 0 /\ settled = {}
      /\ live = <<>> /\ bcast = <<>> /\ client = Gone
      /\ per \in [Sources -> Seq(Events)] /\ global \in Seq(Events)
  BY DEF Init
<1>2. RingTypes /\ Bounded
  BY <1>1, EventBufferAssumption DEF RingTypes, Bounded
<1>3. NumbersAreNew /\ RingsAgree /\ ReadIsSettled
  BY <1>1 DEF NumbersAreNew, Unknown, RingsAgree, ReadIsSettled
<1>4. QED
  BY <1>2, <1>3 DEF RingInv

-----------------------------------------------------------------------------
(* The theorems *)

(* StreamInv is inductive and holds in every reachable state: each number  *)
(* given out is at one place of the way, and none that a connected client  *)
(* should get goes missing unnoticed.                                      *)
THEOREM StreamInvariance == Spec => []StreamInv
<1>1. Init => StreamInv
  BY Start
<1>2. StreamInv /\ [Next]_vars => StreamInv'
  <2> SUFFICES ASSUME StreamInv, [Next]_vars PROVE StreamInv'
    OBVIOUS
  <2>1. ASSUME NEW w \in Writers, Fan(w) PROVE StreamInv'
    BY <2>1, FanKeeps
  <2>2. ASSUME NEW w \in Writers, NEW s \in Sources, Publish(w, s) PROVE StreamInv'
    BY <2>2, PublishKeeps
  <2>3. CASE RingsOnly
    BY <2>3, RingsKeep
  <2>4. CASE Forward \/ HubRun \/ ClientWrite
    BY <2>4, ForwardKeeps, HubRunKeeps, ClientWriteKeeps
  <2>5. CASE ClientJoins \/ ClientLeaves
    BY <2>5, ClientKeeps
  <2>6. QED
    BY <2>1, <2>2, <2>3, <2>4, <2>5 DEF Next, RingsOnly
<1>3. QED
  BY <1>1, <1>2, PTL DEF Spec

(* A WebSocket client gets no event twice, and every event published while *)
(* it is connected is on its way, received, or was dropped by a channel    *)
(* that was full: no order of publishers, forwarder, hub and client loses  *)
(* one in another way.                                                     *)
THEOREM TheStreamIsComplete == Spec => []StreamIsComplete
<1>1. StreamInv => StreamIsComplete
  <2> SUFFICES ASSUME StreamInv, client # Gone
               PROVE  /\ IsInjective(seen \o client)
                      /\ \A n \in joined + 1 .. counter :
                           \E e \in InFlight \cup Range(client) \cup Range(seen) \cup lost :
                               e.seq = n
    BY DEF StreamIsComplete
  <2>1. /\ Way \in Ways /\ Way[1] = seen /\ Way[2] = client /\ Way[3] = bcast /\ Way[4] = live
        /\ seen \in Seq(Events) /\ client \in Seq(Events)
    BY WayFacts DEF StreamInv, Types
  <2>2. IsInjective(seen \o client)
    <3> DEFINE both == seen \o client
    <3>1. /\ DOMAIN both = 1..(Len(seen) + Len(client))
          /\ \A i \in 1..(Len(seen) + Len(client)) :
               both[i] = IF i <= Len(seen) THEN seen[i] ELSE client[i - Len(seen)]
      BY <2>1
    <3>2. Len(seen) \in Nat /\ Len(client) \in Nat
      BY <2>1
    <3>3. ASSUME NEW i \in DOMAIN both, NEW j \in DOMAIN both, both[i] = both[j]
          PROVE  i = j
      <4>1. \E k \in {1, 2} : /\ At(Way, k, IF k = 1 THEN i ELSE i - Len(seen), both[i].seq)
                              /\ k = 1 <=> i <= Len(seen)
        BY <2>1, <3>1, <3>2 DEF At
      <4>2. \E k \in {1, 2} : /\ At(Way, k, IF k = 1 THEN j ELSE j - Len(seen), both[i].seq)
                              /\ k = 1 <=> j <= Len(seen)
        BY <2>1, <3>1, <3>2, <3>3 DEF At
      <4>3. PICK k \in {1, 2} : /\ At(Way, k, IF k = 1 THEN i ELSE i - Len(seen), both[i].seq)
                                /\ At(Way, k, IF k = 1 THEN j ELSE j - Len(seen), both[i].seq)
        BY <4>1, <4>2, OncePlace DEF StreamInv, Single
      <4>4. (IF k = 1 THEN i ELSE i - Len(seen)) = (IF k = 1 THEN j ELSE j - Len(seen))
        BY <4>3, OncePlace DEF StreamInv, Single
      <4>5. i \in Nat /\ j \in Nat
        BY <3>1, <3>2
      <4>6. QED
        BY <3>2, <4>4, <4>5
    <3>4. QED
      BY <3>3 DEF IsInjective
  <2>3. ASSUME NEW n \in joined + 1 .. counter
        PROVE  \E e \in InFlight \cup Range(client) \cup Range(seen) \cup lost : e.seq = n
    <3>1. CASE \E w \in Writers : Busy(w) /\ pub[w].seq = n
      BY <3>1, BusyFacts DEF StreamInv, InFlight, Busy
    <3>2. CASE Holds(Way, n)
      <4>1. PICK k \in 1..4 : \E i \in 1..Len(Way[k]) : Way[k][i].seq = n
        BY <3>2 DEF Holds
      <4>2. PICK i \in 1..Len(Way[k]) : Way[k][i].seq = n
        BY <4>1
      <4>3. Way[k] \in Seq(Events) /\ DOMAIN Way[k] = 1..Len(Way[k])
        BY <2>1 DEF Ways
      <4>4. Way[k][i] \in Range(Way[k])
        BY <4>3 DEF Range
      <4>5. Range(Way[k]) \subseteq InFlight \cup Range(client) \cup Range(seen)
        BY <2>1 DEF InFlight
      <4>6. QED
        BY <4>2, <4>4, <4>5
    <3>3. QED
      BY <2>3, <3>1, <3>2 DEF StreamInv, Complete
  <2>4. QED
    BY <2>2, <2>3
<1>2. QED
  BY <1>1, StreamInvariance, PTL

(* The rings' part of the invariant holds in every reachable state: both   *)
(* rings tell one story, and what a reader has passed is settled.          *)
THEOREM RingInvariance == Spec => []RingInv
<1>1. StreamInv /\ RingInv /\ [Next]_vars => RingInv'
  <2> SUFFICES ASSUME StreamInv, RingInv, [Next]_vars PROVE RingInv'
    OBVIOUS
  <2>1. ASSUME NEW w \in Writers, Store(w) PROVE RingInv'
    BY <2>1, StoreKeepsRings
  <2>2. ASSUME NEW limit \in Limits, Poll(limit) PROVE RingInv'
    BY <2>2, PollKeepsRings
  <2>3. ASSUME NEW w \in Writers, Fan(w) \/ \E s \in Sources : Publish(w, s) PROVE RingInv'
    BY <2>3, PublisherKeepsRings
  <2>4. CASE \/ \E s \in Sources : ClearPlugin(s)
             \/ Forward \/ HubRun \/ ClientJoins \/ ClientWrite \/ ClientLeaves
             \/ UNCHANGED vars
    BY <2>4, StreamKeepsRings
  <2>5. QED
    BY <2>1, <2>2, <2>3, <2>4 DEF Next
<1>2. QED
  BY <1>1, RingsStart, StreamInvariance, PTL DEF Spec

(* A reader that polls from the highest number it has seen misses an event *)
(* only when it was stored after a younger one was read, left the ring     *)
(* before it was read, or was cut off by the reader's limit; and the ring  *)
(* of a source tells the same story as the global one, whatever publishers *)
(* overtake each other between the counter and the lock.                   *)
THEOREM ThePollerMissesNothing == Spec => []PollerMissesNothing
<1>1. StreamInv /\ RingInv => PollerMissesNothing
  <2> SUFFICES ASSUME StreamInv, RingInv PROVE PollerMissesNothing
    OBVIOUS
  <2>1. \A q \in Seq(Events) : Range(q) \subseteq Events
    BY DEF Range
  <2>2. TypeOK
    <3>1. /\ per \in [Sources -> Seq(Events)] /\ global \in Seq(Events)
          /\ live \in Seq(Events) /\ bcast \in Seq(Events) /\ seen \in Seq(Events)
          /\ client # Gone => client \in Seq(Events)
          /\ settled \subseteq Events /\ lost \subseteq Events
      BY DEF StreamInv, Types, RingInv, RingTypes
    <3>2. /\ \A s \in Sources : Range(per[s]) \subseteq Events
          /\ Range(global) \subseteq Events /\ Range(live) \subseteq Events
          /\ Range(bcast) \subseteq Events /\ Range(seen) \subseteq Events
          /\ client # Gone => Range(client) \subseteq Events
      BY <2>1, <3>1
    <3>3. QED
      BY <3>1, <3>2 DEF TypeOK, StreamInv, Types, RingInv, RingTypes, Bounded
  <2>3. QED
    BY <2>2 DEF PollerMissesNothing, RingInv, ReadIsSettled
<1>2. QED
  BY <1>1, StreamInvariance, RingInvariance, PTL
=============================================================================
