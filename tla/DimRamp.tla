------------------------------- MODULE DimRamp -------------------------------
(***************************************************************************)
(* The hold-to-dim gesture: dimRampManager (pkg/vdcapi/dim_ramp.go) and    *)
(* the notification handlers of methodService that start and stop ramps    *)
(* or command a level directly (pkg/vdcapi/method_service.go).             *)
(*                                                                         *)
(* A ramp is one goroutine.  It waits for a tick or for its context to be  *)
(* cancelled, computes the next value, calls apply (which commands the     *)
(* remote device and may take long), and goes on until the bound is        *)
(* reached.  The handlers run on the goroutines of the vDC API             *)
(* connections, so two of them may overlap when a session is taken over.   *)
(* A ramp slot is reused once its goroutine has ended and nothing refers   *)
(* to its context any more: a fresh context pointer is never equal to an   *)
(* old one, and no behaviour depends on how many contexts were made.       *)
(* Names every component has carry the prefix Ramp here: ServerProofs      *)
(* takes in this module beside other parts of the servers.                 *)
(***************************************************************************)
EXTENDS Integers

CONSTANTS Devices,    \* the light devices, by uniqueID
          Handlers,   \* goroutines that handle notifications
          Ramps,      \* slots for ramp goroutines (the bound on ramps alive at once)
          NoRamp,     \* "no entry in the active map"
          Top,        \* the upper end of the level range (100 in the code)
          LevelStep,  \* the level change of one tick
          Commands    \* levels that scene calls and channel writes command

ASSUME RampAssumption ==
    /\ NoRamp \notin Ramps
    /\ Top \in Nat \ {0}
    /\ LevelStep \in Nat \ {0}
    /\ Commands \subseteq Int

VARIABLES active,    \* dimRampManager.active
          ramp,      \* the ramp goroutines
          pending,   \* contexts a handler took out of active and has yet to cancel
          level,     \* the level last commanded to the remote device
          stored,    \* channel 0 in the StateStore: what the device last reported
          request,   \* the last dim notification handled for the device
          serving    \* FALSE once PbufServer.Run has returned

rampVars == <<active, ramp, pending, level, stored, request, serving>>

Levels == 0..Top

RampState == [pc : {"idle", "select", "apply", "finish"},
              dev : Devices, up : BOOLEAN, value : Levels, cancelled : BOOLEAN]

RampTypeOK ==
    /\ active \in [Devices -> Ramps \cup {NoRamp}]
    /\ ramp \in [Ramps -> RampState]
    /\ pending \in [Handlers -> SUBSET Ramps]
    /\ level \in [Devices -> Levels]
    /\ stored \in [Devices -> Levels]
    /\ request \in [Devices -> {"none", "up", "down", "stop"}]
    /\ serving \in BOOLEAN

RampInit ==
    /\ active = [d \in Devices |-> NoRamp]
    /\ ramp \in [Ramps -> {s \in RampState : s.pc = "idle" /\ s.value = 0
                                              /\ ~s.up /\ ~s.cancelled}]
    /\ pending = [h \in Handlers |-> {}]
    /\ level = [d \in Devices |-> 0]
    /\ stored = [d \in Devices |-> 0]
    /\ request = [d \in Devices |-> "none"]
    /\ serving = TRUE

-----------------------------------------------------------------------------
(* Helpers *)

clampLevel(v) == IF v < 0 THEN 0 ELSE IF v > Top THEN Top ELSE v

Target(up) == IF up THEN Top ELSE 0

(* Deliberate bug: the step keeps the sign it had for dimming up.          *)
NextValueSameSign(up, v) == clampLevel(v + LevelStep)

(* value += step, cut off at the bound *)
NextValue(up, v) == IF up THEN clampLevel(v + LevelStep) ELSE clampLevel(v - LevelStep)

(* The goroutine has ended and neither the map nor a handler still holds   *)
(* its context.                                                            *)
FreshSlot(r) ==
    /\ ramp[r].pc = "idle"
    /\ \A d \in Devices : active[d] # r
    /\ \A h \in Handlers : r \notin pending[h]

-----------------------------------------------------------------------------
(* Notification handlers.  A notification with several targets is a loop   *)
(* over its devices and equals as many notifications with one target.      *)

(* Deliberate bug: the entry of a running ramp is overwritten, the ramp    *)
(* itself is not cancelled.                                                *)
startOverwrites(h, d, up) ==
    LET from == clampLevel(stored[d])
    IN  /\ serving /\ pending[h] = {}
        /\ request' = [request EXCEPT ![d] = IF up THEN "up" ELSE "down"]
        /\ \/ /\ from = Target(up)
              /\ UNCHANGED <<active, ramp>>
           \/ /\ from # Target(up)
              /\ \E r \in Ramps :
                   /\ FreshSlot(r)
                   /\ active' = [active EXCEPT ![d] = r]
                   /\ ramp' = [ramp EXCEPT ![r] =
                        [pc |-> "select", dev |-> d, up |-> up,
                         value |-> from, cancelled |-> FALSE]]
        /\ UNCHANGED <<pending, level, stored, serving>>

(* dimChannel with mode -1 or +1.  The ramp starts from the stored level,  *)
(* and start returns early, touching nothing, when that is the bound.      *)
start(h, d, up) ==
    LET from == clampLevel(stored[d])
    IN  /\ serving /\ pending[h] = {}
        /\ request' = [request EXCEPT ![d] = IF up THEN "up" ELSE "down"]
        /\ \/ /\ from = Target(up)
              /\ UNCHANGED <<active, ramp>>
           \/ /\ from # Target(up)
              /\ \E r \in Ramps :
                   /\ FreshSlot(r)
                   /\ active' = [active EXCEPT ![d] = r]
                   /\ ramp' = [q \in Ramps |->
                        IF q = r
                        THEN [pc |-> "select", dev |-> d, up |-> up,
                              value |-> from, cancelled |-> FALSE]
                        ELSE IF q = active[d]
                             THEN [ramp[q] EXCEPT !.cancelled = TRUE]
                             ELSE ramp[q]]
        /\ UNCHANGED <<pending, level, stored, serving>>

(* Deliberate bug: stop drops the entry and forgets the cancel.            *)
stopNoCancel(h, d) ==
    /\ serving /\ pending[h] = {}
    /\ request' = [request EXCEPT ![d] = "stop"]
    /\ active' = [active EXCEPT ![d] = NoRamp]
    /\ UNCHANGED <<ramp, pending, level, stored, serving>>

(* dimChannel with mode 0: the entry goes away under the lock ...          *)
stop(h, d) ==
    /\ serving /\ pending[h] = {}
    /\ request' = [request EXCEPT ![d] = "stop"]
    /\ pending' = [pending EXCEPT ![h] = {active[d]} \ {NoRamp}]
    /\ active' = [active EXCEPT ![d] = NoRamp]
    /\ UNCHANGED <<ramp, level, stored, serving>>

(* ... and the context is cancelled after the unlock.                      *)
cancel(h, r) ==
    /\ r \in pending[h]
    /\ pending' = [pending EXCEPT ![h] = @ \ {r}]
    /\ ramp' = [ramp EXCEPT ![r].cancelled = TRUE]
    /\ UNCHANGED <<active, level, stored, request, serving>>

(* A scene call, control value or channel-0 write commands a level and     *)
(* leaves any ramp of the device alone.                                    *)
applyLevel(h, d, v) ==
    /\ serving /\ pending[h] = {}
    /\ level' = [level EXCEPT ![d] = clampLevel(v)]
    /\ UNCHANGED <<active, ramp, pending, stored, request, serving>>

(* PbufServer.Run returns: every connection handler has ended, the map is  *)
(* emptied under the lock and each context is cancelled afterwards.        *)
stopAll(h) ==
    /\ serving
    /\ \A g \in Handlers : pending[g] = {}
    /\ serving' = FALSE
    /\ pending' = [pending EXCEPT ![h] = {active[d] : d \in Devices} \ {NoRamp}]
    /\ active' = [d \in Devices |-> NoRamp]
    /\ UNCHANGED <<ramp, level, stored, request>>

-----------------------------------------------------------------------------
(* The ramp goroutine *)

(* The ticker case of the select: it may win even if the context is        *)
(* already cancelled, because Go picks any ready case.                     *)
Tick(r) ==
    /\ ramp[r].pc = "select"
    /\ ramp' = [ramp EXCEPT ![r].pc = "apply",
                            ![r].value = NextValue(ramp[r].up, @)]
    /\ UNCHANGED <<active, pending, level, stored, request, serving>>

(* The ctx.Done case of the select.                                        *)
Cancelled(r) ==
    /\ ramp[r].pc = "select"
    /\ ramp[r].cancelled
    /\ ramp' = [ramp EXCEPT ![r].pc = "idle"]
    /\ UNCHANGED <<active, pending, level, stored, request, serving>>

(* apply(value), and the loop's decision to go on or to finish.            *)
Apply(r) ==
    /\ ramp[r].pc = "apply"
    /\ level' = [level EXCEPT ![ramp[r].dev] = ramp[r].value]
    /\ ramp' = [ramp EXCEPT ![r].pc =
                  IF ramp[r].value = Target(ramp[r].up) THEN "finish" ELSE "select"]
    /\ UNCHANGED <<active, pending, stored, request, serving>>

(* Deliberate bug: finish without the comparison of the contexts.          *)
finishAnyEntry(r) ==
    /\ ramp[r].pc = "finish"
    /\ active' = [active EXCEPT ![ramp[r].dev] = NoRamp]
    /\ ramp' = [ramp EXCEPT ![r].pc = "idle"]
    /\ UNCHANGED <<pending, level, stored, request, serving>>

(* finish removes the entry only while it still is this goroutine's.       *)
finish(r) ==
    /\ ramp[r].pc = "finish"
    /\ active' = [d \in Devices |->
                    IF d = ramp[r].dev /\ active[d] = r THEN NoRamp ELSE active[d]]
    /\ ramp' = [ramp EXCEPT ![r].pc = "idle"]
    /\ UNCHANGED <<pending, level, stored, request, serving>>

(* The plugin reports the device's level back into the StateStore, some    *)
(* time after the command.                                                 *)
ReportLevel(d) ==
    /\ stored' = [stored EXCEPT ![d] = level[d]]
    /\ UNCHANGED <<active, ramp, pending, level, request, serving>>

RampStep(r) == Tick(r) \/ Cancelled(r) \/ Apply(r) \/ finish(r)

DimHandlerStep(h) ==
    \/ \E d \in Devices : \E up \in BOOLEAN : start(h, d, up)
    \/ \E d \in Devices : stop(h, d)
    \/ \E r \in Ramps : cancel(h, r)
    \/ \E d \in Devices : \E v \in Commands : applyLevel(h, d, v)
    \/ stopAll(h)

RampNext ==
    \/ \E h \in Handlers : DimHandlerStep(h)
    \/ \E r \in Ramps : RampStep(r)
    \/ \E d \in Devices : ReportLevel(d)

(* Goroutines are scheduled, and a handler finishes the call it is in.     *)
RampFairness ==
    /\ \A r \in Ramps : WF_rampVars(RampStep(r))
    /\ \A h \in Handlers : WF_rampVars(\E r \in Ramps : cancel(h, r))

RampSpec == RampInit /\ [][RampNext]_rampVars

-----------------------------------------------------------------------------
(* Properties *)

Running(r) == ramp[r].pc \in {"select", "apply"}

Driving(r) == Running(r) /\ ~ramp[r].cancelled

BeingCancelled(r) == \E h \in Handlers : r \in pending[h]

(* No ramp escapes its handle: a ramp goroutine that is still driving its  *)
(* device is the device's entry in dimRampManager.active, where the next   *)
(* stop, start or stopAll finds it, or its cancellation is already under   *)
(* way.  (finish must not delete a newer ramp's entry.)                    *)
NoOrphanRamp ==
    \A r \in Ramps : Driving(r) => active[ramp[r].dev] = r \/ BeingCancelled(r)

(* The active map never keeps the handle of a ramp that has ended or was   *)
(* cancelled: start, stop, stopAll and finish leave no stale entry.        *)
ActiveIsLive ==
    \A d \in Devices : active[d] # NoRamp =>
        LET s == ramp[active[d]]
        IN  s.dev = d /\ s.pc # "idle" /\ ~s.cancelled

(* The map and the goroutines agree: no ramp is lost track of and no       *)
(* entry is stale.                                                         *)
RampsTracked == RampTypeOK /\ NoOrphanRamp /\ ActiveIsLive

(* dimChannel 0 is effective at once and stays so: until a later dim       *)
(* notification asks for a ramp, none drives the device that is not        *)
(* already being cancelled, whatever other handlers do meanwhile.          *)
StopIsEffective ==
    \A d \in Devices : request[d] = "stop" =>
        \A r \in Ramps : Driving(r) /\ ramp[r].dev = d => BeingCancelled(r)

(* Every ramp goroutine ends, whether or not anyone stops it: each tick    *)
(* moves the value to the bound, and the bound ends the loop.              *)
RampEnds == \A r \in Ramps : ramp[r].pc # "idle" ~> ramp[r].pc = "idle"

=============================================================================
