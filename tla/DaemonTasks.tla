------------------------------ MODULE DaemonTasks ------------------------------
(***************************************************************************)
(* The two things in the daemon that go on by themselves once they were    *)
(* begun: the dim ramps of the vDC API (DimRamp), and the supervisor that  *)
(* starts failed plugins again, with the registry it works on              *)
(* (PluginRegistry).  They share no state, so a behaviour here is one of   *)
(* one of them, while the other rests as it was at the start.              *)
(***************************************************************************)
EXTENDS DimRamp, PluginRegistry

VARIABLE part

taskVars == <<part, rampVars, vars>>

TaskInit == part \in {"ramps", "plugins"} /\ RampInit /\ Init

TaskNext ==
    \/ part = "ramps" /\ RampNext /\ UNCHANGED <<part, vars>>
    \/ part = "plugins" /\ Next /\ UNCHANGED <<part, rampVars>>

(* Goroutines are scheduled, timers fire and the supervisor ticks.  The    *)
(* remote system that a plugin connects to is reachable again and again:   *)
(* a plugin whose Init is tried for ever is started in the end.            *)
SupervisorFairness ==
    /\ \A t \in Threads : WF_vars(part = "plugins" /\ Step(t))
    /\ WF_vars(part = "plugins" /\ superviseOnce) /\ WF_vars(part = "plugins" /\ Revive)
    /\ WF_vars(part = "plugins" /\ Started)
    /\ \A p \in Plugins :
         /\ WF_vars(part = "plugins" /\ BackoffElapses(p))
         /\ SF_vars(part = "plugins" /\ \E t \in Threads : th[t].id = p /\ InitOk(t))

\* At the start no ramp has a step to take, so RampFairness binds only the part it is about.
TaskSpec == TaskInit /\ [][TaskNext]_taskVars /\ RampFairness /\ SupervisorFairness
=============================================================================
