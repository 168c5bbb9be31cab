---------------------------- MODULE ConnectorButtons ----------------------------
(***************************************************************************)
(* A push button of the external device API: the device sends values, and  *)
(* emitButtonAction of pkg/server/connector_button_actions.go makes        *)
(* clicks, holds and dim steps of them, by the times between.  It takes    *)
(* every value above 0 as the button going down and 0 as the button going  *)
(* up, also the durations that docs/external-device-api.md names           *)
(* (DurationIsAPress).  Values come in any order.  Times are in steps of   *)
(* 50 ms and kept as ages, the time that has passed since.                 *)
(***************************************************************************)
EXTENDS Integers, Sequences, FiniteSets

CONSTANTS Modes,      \* the modes that a message may name, NoMode among them
          Values,     \* values above 0 that it may send: 1, or a duration in milliseconds
          Presses,    \* the time from a message to a 0
          Pauses,     \* the time from a message to a value above 0
          MaxPresses, \* bound on the presses
          MaxAgain    \* bound on the messages that find the button as they say it is

Hold == 14     \* buttonHoldThreshold
Window == 9    \* buttonMultiClickWindow, from release to release
Repeat == 7    \* buttonDimRepeatInterval
Never == -1    \* the zero time.Time
NoMode == ""   \* a message without a mode
Old == 100     \* ages are not told apart beyond this one

ASSUME ButtonModeAssumption ==
    /\ Modes \subseteq {NoMode, "single", "dimmer", "scene", "default", "other"}
    /\ Presses \subseteq Nat /\ Pauses \subseteq Nat /\ Values \subseteq Nat \ {0}
    /\ MaxPresses \in Nat /\ MaxAgain \in Nat

VARIABLES clickMode, \* the mode in the device's messages
          index,     \* the button's index
          pressed,   \* buttonSequenceState.pressedAt, as an age
          released,  \* buttonSequenceState.lastRelease, as an age
          count,     \* buttonSequenceState.clickCount
          seqMode,   \* buttonSequenceState.mode
          out,       \* the actions emitted for the last message
          said,     \* the value in the last message of the connection
          downFor,      \* history: how long the messages have the button down, or Never
          log,       \* history: the completed presses, each with its time and whether it is close to the last
          sinceLast, \* history: the age of the last one
          again,     \* messages so far that found the button as they say it is
          tainted    \* history: a press was left over by a device that said BYE

buttonState == <<pressed, released, count, seqMode>>
clickVars == <<clickMode, index, buttonState, out, said, downFor, log, sinceLast, again, tainted>>

Aged(age, w) == IF age = Never \/ age + w > Old THEN (IF age = Never THEN Never ELSE Old) ELSE age + w

normalizeButtonMode(m) == IF m \in {"single", "dimmer", "scene", "default"} THEN m ELSE NoMode

\* In scene mode the verbs are turned into scene numbers.
mapButtonActionByMode(m, a) ==
    IF m # "scene" THEN a
    ELSE CASE a = "tip"  -> "scene5"
           [] a = "tip2" -> "scene0"
           [] a = "tip3" -> "scene18"
           [] a = "tip4" -> "scene17"
           [] a \in {"hold", "dimup", "dimdown"} -> IF index % 2 = 0 THEN "scene43" ELSE "scene42"

buttonClickAction(n) == <<"tip", "tip2", "tip3", "tip4">>[IF n < 1 THEN 1 ELSE IF n > 4 THEN 4 ELSE n]

buttonRepeatCount(d) == IF d <= Hold THEN 1 ELSE 1 + (d - Hold) \div Repeat

buttonDimRepeatAction == IF index % 2 = 0 THEN "dimup" ELSE "dimdown"

\* A long press in mode m: the hold itself, unless dimming, and the dim steps of it.
HoldActions(m, d) ==
    (IF m = "dimmer" THEN <<>> ELSE <<mapButtonActionByMode(m, "hold")>>)
      \o (IF m \in {"dimmer", "default", NoMode}
            THEN [i \in 1..buttonRepeatCount(d) |-> buttonDimRepeatAction] ELSE <<>>)

\* Deliberate bug: the window is not looked at.
ClickCountAnyTime(m, age) ==
    IF m \in {"single", "dimmer"} \/ age = Never THEN 1 ELSE IF count < 4 THEN count + 1 ELSE 4
\* The number of a short press, given the age of the last release.
ClickCount(m, age) ==
    IF m \in {"single", "dimmer"} \/ age = Never \/ age > Window THEN 1
    ELSE IF count < 4 THEN count + 1 ELSE 4

ClickInit ==
    /\ clickMode \in Modes /\ index \in {0, 1}
    /\ pressed = Never /\ released = Never /\ count = 0 /\ seqMode = NoMode
    /\ out = <<>> /\ said = 0 /\ downFor = Never /\ log = <<>> /\ sinceLast = Old /\ again = 0 /\ tainted = FALSE

ModeOf == IF normalizeButtonMode(clickMode) = NoMode THEN seqMode ELSE normalizeButtonMode(clickMode)

\* Counts a message that changes nothing but the time, when the press is in state p.
Repeated(p) == again' = again + (IF p THEN 1 ELSE 0) /\ again' <= MaxAgain

\* Deliberate bug: every value above 0 begins a press.
PressAnew(v, w) ==
    /\ Len(log) < MaxPresses /\ Repeated(downFor # Never)
    /\ seqMode' = ModeOf /\ pressed' = 0 /\ released' = Aged(released, w)
    /\ downFor' = IF downFor = Never THEN 0 ELSE Aged(downFor, w)
    /\ out' = <<>> /\ said' = v /\ sinceLast' = Aged(sinceLast, w)
    /\ UNCHANGED <<clickMode, index, count, log, tainted>>

\* A value above 0; a second one without a 0 between keeps the time of the first.
Press(v, w) ==
    /\ Len(log) < MaxPresses /\ Repeated(downFor # Never)
    /\ seqMode' = IF pressed = Never THEN ModeOf ELSE seqMode
    /\ pressed' = IF pressed = Never THEN 0 ELSE Aged(pressed, w)
    /\ released' = Aged(released, w)
    /\ out' = <<>> /\ said' = v
    /\ downFor' = IF downFor = Never THEN 0 ELSE Aged(downFor, w)
    /\ sinceLast' = Aged(sinceLast, w)
    /\ UNCHANGED <<clickMode, index, count, log, tainted>>

\* A 0: the end of a press, a hold if it was long, else a click; nothing if there is none.
Release(w) ==
    LET d == Aged(pressed, w)  age == Aged(released, w)
    IN  /\ Repeated(pressed = Never)
        /\ pressed' = Never /\ downFor' = Never /\ said' = 0 /\ tainted' = FALSE
        /\ seqMode' = IF pressed = Never THEN seqMode ELSE ModeOf
        /\ IF pressed = Never
             THEN out' = <<>> /\ released' = age /\ UNCHANGED count
             ELSE IF d >= Hold
             THEN out' = HoldActions(ModeOf, d) /\ count' = 0 /\ released' = age
             ELSE /\ count' = ClickCount(ModeOf, age) /\ released' = 0
                  /\ out' = <<mapButtonActionByMode(ModeOf, buttonClickAction(count'))>>
        /\ log' = IF pressed = Never THEN log ELSE IF tainted THEN <<>>
                  ELSE Append(log, [held |-> Aged(downFor, w), close |-> Aged(sinceLast, w) <= Window])
        /\ sinceLast' = IF pressed = Never THEN Aged(sinceLast, w) ELSE 0
        /\ UNCHANGED <<clickMode, index>>

\* The connection ends, perhaps in the middle of a press: the next one has no states.
NewConnection ==
    /\ pressed' = Never /\ released' = Never /\ count' = 0 /\ seqMode' = NoMode
    /\ out' = <<>> /\ log' = <<>> /\ sinceLast' = Old /\ tainted' = FALSE
    /\ said' = 0 /\ downFor' = Never
    /\ UNCHANGED <<clickMode, index, again>>

\* The device says BYE on a connection that goes on, and comes back later: its button
\* states are kept, a press that was not released among them.
ByeAndHello ==
    /\ log' = <<>> /\ out' = <<>> /\ sinceLast' = Old /\ said' = 0 /\ downFor' = Never
    /\ released' = Aged(released, Old)
    /\ pressed' = Aged(pressed, Old)
    /\ tainted' = (pressed # Never)
    /\ UNCHANGED <<clickMode, index, count, seqMode, again>>

ClickNext ==
    \/ \E v \in Values, w \in Pauses : Press(v, w)
    \/ \E w \in Presses : Release(w)
    \/ NewConnection \/ ByeAndHello

(***************************************************************************)
(* Properties.                                                             *)
(***************************************************************************)
ClickTypeOK ==
    /\ pressed \in Never..Old /\ released \in Never..Old /\ count \in 0..4
    /\ seqMode \in {NoMode, "single", "dimmer", "scene", "default"}
    /\ said \in Values \cup {0} /\ downFor \in Never..Old /\ again \in 0..MaxAgain
    /\ Len(out) <= 2 + Old \div Repeat /\ Len(log) <= MaxPresses + 1

\* How many presses of the log end in a chain of short ones, close to each other.
Chain == Cardinality({n \in 1..Len(log) :
            \A i \in (Len(log) - n + 1)..Len(log) :
                log[i].held < Hold /\ (i > Len(log) - n + 1 => log[i].close)})

\* What a 0 tells is a function of the presses alone, a press being the time from the first
\* value above 0 to the 0: the n-th of a chain of short presses is the n-fold click, a long
\* press a hold and one dim step for each repeat interval begun; single and dimmer modes
\* count no chains.
ClicksAreRight ==
    ClickTypeOK /\ (out # <<>> /\ log # <<>> =>
        LET last == log[Len(log)]
            m == normalizeButtonMode(clickMode)
            dims == {i \in 1..Len(out) : out[i] \in {"dimup", "dimdown"}}
        IN  IF last.held < Hold
              THEN /\ Len(out) = 1
                   /\ m = "scene" =>
                        out[1] = <<"scene5", "scene0", "scene18", "scene17">>[IF Chain > 4 THEN 4 ELSE Chain]
                   /\ m \in {"single", "dimmer"} => out[1] = "tip"
                   /\ m \in {NoMode, "default"} => out[1] = buttonClickAction(Chain)
              ELSE /\ m \in {"scene", "single"} => dims = {}
                   /\ m \notin {"scene", "single"} => Cardinality(dims) = (last.held - Hold) \div Repeat + 1
                   /\ (m = "dimmer") = (Len(out) = Cardinality(dims)))

(* docs/external-device-api.md:264: a duration is sent "to simulate        *)
(* press-and-release in a single message (e.g. `B0=250` = 250 ms press)".  *)
(* So a message with a duration leaves the button up and has told of a     *)
(* click or a hold.  emitButtonAction takes it as the button going down    *)
(* and waits for a 0, so this fails.                                       *)
DurationIsAPress == said > 1 => pressed = Never /\ out # <<>>
=============================================================================
