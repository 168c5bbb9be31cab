----------------------------- MODULE PluginButtons -----------------------------
(***************************************************************************)
(* A bridged push button behind a device plugin: the events of the device, *)
(* dispatchButtonAction, and the watchdog that releases a hold whose       *)
(* release got lost (zigbee2mqtt.go and ha.go; Shelly knows clicks only).  *)
(* Each handler and each fired watchdog is a goroutine: a look at the held *)
(* flag under the lock, then its calls of the host one after another.      *)
(***************************************************************************)
EXTENDS Integers, Sequences, FiniteSets

CONSTANTS Origins,     \* the plugins to consider
          Handlers,    \* the goroutines that handle events
          Dogs,        \* the goroutines of watchdogs that fired
          MaxEvents    \* bound on the events of the device

ASSUME ButtonAssumption ==
    /\ Origins \subseteq {"zigbee2mqtt", "homeassistant", "shelly"}
    /\ Handlers \cap Dogs = {} /\ MaxEvents \in Nat

Workers == Handlers \cup Dogs

VARIABLES origin,   \* the plugin in use
          events,   \* events of the device that are yet to be handled, oldest first
          lastEvent, \* Home Assistant: has an event been seen? (lastButtonEvent)
          held,     \* sub.held, buttonHeld
          armed,    \* is a timer of holdTimers running?
          fired,    \* the watchdogs that are about to take the lock
          calls,    \* the host calls that each goroutine has yet to make
          value,    \* the button's value as the host was told
          told,     \* the last of the verbs hold, release and click the host was told
          mixed,    \* history: two goroutines at it at once
          sent      \* counter of the events

buttonVars == <<origin, events, lastEvent, held, armed, fired, calls, value, told, mixed, sent>>

mapActionSuffix(verb) ==
    CASE verb \in {"single", "click", "press"} -> "tip"
      [] verb = "double" -> "tip2"
      [] verb \in {"long", "hold"} -> "hold"
      [] verb \in {"release", "hold_release", "long_release", "press_release"} -> "release"
      [] OTHER -> ""

mapHAEventType(verb) ==
    CASE verb \in {"single_press", "press", "short_press", "initial_press", "click"} -> "tip"
      [] verb = "double_press" -> "tip2"
      [] verb \in {"long_press", "hold"} -> "hold"
      [] verb \in {"long_release", "release", "short_release"} -> "release"
      [] OTHER -> ""

mapInputEvent(verb) ==
    CASE verb = "single_push" -> "tip" [] verb = "double_push" -> "tip2"
      [] verb = "long_push" -> "hold" [] OTHER -> ""

\* What the devices send, as far as the translations tell it apart.
Verbs(p) ==
    CASE p = "zigbee2mqtt" -> {"press", "double", "hold", "hold_release", "toggle"}
      [] p = "homeassistant" -> {"initial_press", "double_press", "long_press", "long_release", "rotate"}
      [] p = "shelly" -> {"single_push", "double_push", "long_push", "btn_down"}

Verb(v) == CASE origin = "zigbee2mqtt" -> mapActionSuffix(v)
             [] origin = "homeassistant" -> mapHAEventType(v)
             [] origin = "shelly" -> mapInputEvent(v)

\* The goroutines that are not through: with calls to make, or fired.
AtWork == {w \in Workers : calls[w] # <<>> \/ w \in fired}
Resting == AtWork = {} /\ events = <<>>

ButtonInit ==
    /\ origin \in Origins
    /\ events = <<>> /\ lastEvent = FALSE /\ held = FALSE /\ armed = FALSE /\ fired = {}
    /\ calls = [w \in Workers |-> <<>>]
    /\ value = 0 /\ told = "none" /\ mixed = FALSE /\ sent = 0

\* The device reports an event; a long press ends with a release, which may get lost.
Push ==
    /\ sent < MaxEvents /\ sent' = sent + 1
    /\ \E v \in Verbs(origin) : events' = Append(events, v)
    /\ UNCHANGED <<origin, lastEvent, held, armed, fired, calls, value, told, mixed>>

\* Goroutine w begins, or goes on, while another is at work.
Mixes(w) == mixed' = (mixed \/ AtWork \ {w} # {})

\* Deliberate bug: the release leaves the timer running.
ReleaseKeepsTimer(w) ==
    /\ held' = FALSE
    /\ calls' = [calls EXCEPT ![w] = IF held THEN <<"release", "0">> ELSE <<>>]
    /\ UNCHANGED armed
\* A release without a hold is dropped.
ReleaseHold(w) ==
    /\ held' = FALSE
    /\ armed' = (armed /\ ~ held)
    /\ calls' = [calls EXCEPT ![w] = IF held THEN <<"release", "0">> ELSE <<>>]

\* The watchdog is armed, again for a repeated hold.
StartHold(w) ==
    /\ held' = TRUE /\ armed' = TRUE
    /\ calls' = [calls EXCEPT ![w] = <<"1", "hold">>]

Click(w, action) ==
    /\ calls' = [calls EXCEPT ![w] = <<"1", action, "0">>]
    /\ UNCHANGED <<held, armed>>

\* A handler takes an event: with zigbee2mqtt any, in a goroutine of its own, else the
\* oldest, by the reader of the connection.  Shelly has no holds, only clicks of that name.
Dispatch(w, i) ==
    /\ i \in 1..Len(events) /\ calls[w] = <<>>
    /\ origin # "zigbee2mqtt" => i = 1 /\ \A h \in Handlers : calls[h] = <<>>
    /\ LET v == Verb(events[i]) IN
         \/ /\ v = "" \/ (origin = "homeassistant" /\ ~ lastEvent)
            /\ UNCHANGED <<held, armed, calls>>
         \/ /\ v # "" /\ (origin = "homeassistant" => lastEvent)
            /\ CASE origin # "shelly" /\ v = "release" -> ReleaseHold(w)
                 [] origin # "shelly" /\ v = "hold" -> StartHold(w)
                 [] origin = "shelly" \/ v \notin {"hold", "release"} -> Click(w, v)
    /\ lastEvent' = TRUE
    /\ events' = [j \in 1..(Len(events) - 1) |-> events[IF j < i THEN j ELSE j + 1]]
    /\ mixed' = (mixed \/ AtWork # {} \/ i # 1)
    /\ UNCHANGED <<origin, fired, value, told, sent>>

\* After 30 s the timer fires: its goroutine is started, and has not got the lock yet.
WatchdogFires(w) ==
    /\ armed /\ w \notin fired /\ calls[w] = <<>>
    /\ armed' = FALSE /\ fired' = fired \cup {w}
    /\ mixed' = (mixed \/ AtWork # {})
    /\ UNCHANGED <<origin, events, lastEvent, held, calls, value, told, sent>>

\* Deliberate bug: the flag is cleared and the host not told.
autoReleaseSilent(w) ==
    /\ w \in fired /\ fired' = fired \ {w}
    /\ held' = FALSE
    /\ Mixes(w)
    /\ UNCHANGED <<origin, events, lastEvent, armed, calls, value, told, sent>>
\* The hold may have ended meanwhile, or be another one by now.
autoReleaseHold(w) ==
    /\ w \in fired /\ fired' = fired \ {w}
    /\ held' = FALSE
    /\ calls' = [calls EXCEPT ![w] = IF held THEN <<"release", "0">> ELSE <<>>]
    /\ Mixes(w)
    /\ UNCHANGED <<origin, events, lastEvent, armed, value, told, sent>>

\* The next call of the host: UpdateButton or SetButtonAction.
Tell(w) ==
    /\ calls[w] # <<>>
    /\ calls' = [calls EXCEPT ![w] = Tail(@)]
    /\ LET c == Head(calls[w]) IN
         /\ value' = IF c = "1" THEN 1 ELSE IF c = "0" THEN 0 ELSE value
         /\ told' = IF c \in {"0", "1"} THEN told ELSE c
    /\ Mixes(w)
    /\ UNCHANGED <<origin, events, lastEvent, held, armed, fired, sent>>

ButtonNext ==
    \/ Push
    \/ \E w \in Handlers, i \in 1..MaxEvents : Dispatch(w, i)
    \/ \E w \in Dogs : WatchdogFires(w) \/ autoReleaseHold(w)
    \/ \E w \in Workers : Tell(w)

\* Goroutines are scheduled, and timers that run fire.
ButtonFairness ==
    /\ WF_buttonVars(\E w \in Dogs : WatchdogFires(w))
    /\ WF_buttonVars(\E w \in Dogs : autoReleaseHold(w))
    /\ \A w \in Workers : WF_buttonVars(Tell(w))

(***************************************************************************)
(* Properties.                                                             *)
(***************************************************************************)
ButtonTypeOK ==
    /\ origin \in Origins /\ fired \subseteq Dogs /\ value \in {0, 1}
    /\ told \in {"none", "tip", "tip2", "hold", "release"}
    /\ \A w \in Workers : Len(calls[w]) <= 3
    /\ held \in BOOLEAN /\ armed \in BOOLEAN

\* At rest a button that is shown pressed, or was last said to be held, has a hold on, and
\* the watchdog runs then: no hold is left without its end.  (Unless two goroutines mixed
\* their calls.  A click in the middle of a hold whose release got lost leaves the button
\* up, and the hold to the watchdog.)
ButtonRests ==
    /\ ButtonTypeOK
    /\ Resting /\ ~ mixed =>
         /\ value = 1 => held
         /\ told = "hold" /\ origin # "shelly" => held
         /\ held <=> armed

\* ha.go: "the watchdog keeps dSS from dimming forever in that case".
HoldEnds == value = 1 ~> value = 0 \/ mixed
=============================================================================
