------------------------------- MODULE MqttBroker -------------------------------
(***************************************************************************)
(* The broker of the MQTT plugin (pkg/bridge/mqtt/mqtt.go, brokerImpl):    *)
(* one connection to the MQTT server, shared by every plugin that speaks   *)
(* MQTT.  topicSubs fans a topic out to the handlers registered for it, so *)
(* that the client holds one subscription per topic; a topic is installed  *)
(* at the server by its first handler, or by the connect handler when it   *)
(* was registered offline, and released by its last handler.               *)
(*                                                                         *)
(* The client library runs the connect and the connection-lost handlers in *)
(* goroutines of their own, so neither is ordered with the other nor with  *)
(* the calls of the plugins.  A session starts clean (cleanSession is the  *)
(* default): the server forgets the subscriptions with the connection.     *)
(***************************************************************************)
EXTENDS Naturals, FiniteSets

CONSTANTS Objs,         \* the owners of handlers (a plugin's deviceSub objects)
          Topics,       \* the topics
          MaxConnects,  \* bound on the connections
          MaxFails      \* bound on the SUBSCRIBEs a live connection refuses

ASSUME MqttBrokerAssumption == MaxConnects \in Nat /\ MaxFails \in Nat

VARIABLES link,        \* is there a connection?
          connected,   \* brokerImpl.connected
          topicSubs,   \* brokerImpl.topicSubs: how many handlers an owner has
          installed,   \* the subscriptions the server holds for this session
          onConnect,   \* per connection: its connect handler
          lost,        \* connection-lost handlers that have yet to run
          fails,       \* SUBSCRIBEs refused so far
          failed,      \* history: topics whose SUBSCRIBE failed in this session
          released     \* history: topics released under a registered handler

broker == <<link, connected, topicSubs, installed, onConnect, lost, fails, failed,
            released>>

Connections == 1..MaxConnects
NotYet == [pc |-> "none", todo |-> {}]

BrokerTypeOK ==
    /\ link \in BOOLEAN /\ connected \in BOOLEAN
    /\ topicSubs \in [Topics -> [Objs -> Nat]]
    /\ installed \subseteq Topics /\ failed \subseteq Topics /\ released \subseteq Topics
    /\ onConnect \in [Connections -> [pc : {"none", "due", "installing", "done"},
                                      todo : SUBSET Topics]]
    /\ lost \in 0..MaxConnects /\ fails \in 0..MaxFails

\* The handlers of topic t have owners: len(b.topicSubs[topic]) > 0.
Heard(t) == \E o \in Objs : topicSubs[t][o] > 0

BrokerInit ==
    /\ link = FALSE /\ connected = FALSE
    /\ topicSubs = [t \in Topics |-> [o \in Objs |-> 0]]
    /\ installed = {} /\ onConnect = [k \in Connections |-> NotYet]
    /\ lost = 0 /\ fails = 0 /\ failed = {} /\ released = {}

(***************************************************************************)
(* The calls of the plugins, a critical section or a message each.         *)
(***************************************************************************)

\* Subscribe, under the lock: append the handler.
AddHandler(t, o) == topicSubs' = [topicSubs EXCEPT ![t][o] = @ + 1]

\* removeSub, for Subscribe's rollback and for Close.
RemoveHandler(t, o) == topicSubs' = [topicSubs EXCEPT ![t][o] = @ - 1]
IsLast(t, o) == \A x \in Objs : topicSubs[t][x] = IF x = o THEN 1 ELSE 0

\* Must Subscribe install the topic itself?  (connected && first)
MustInstall(t) == connected /\ ~ Heard(t)

\* installTopic succeeds: the server holds the subscription.
InstallOK(t) ==
    /\ link
    /\ installed' = installed \cup {t}
    /\ UNCHANGED <<fails, failed>>

\* installTopic fails: no connection, a refusal, or an answer that came after the
\* timeout, in which case the server holds the subscription all the same.
InstallFails(t) ==
    /\ failed' = failed \cup {t}
    /\ IF link
         THEN /\ fails < MaxFails /\ fails' = fails + 1
              /\ installed' \in {installed, installed \cup {t}}
         ELSE UNCHANGED <<fails, installed>>

\* Close, after the lock: c.Unsubscribe, for the last handler only.
Release(t) ==
    /\ installed' = installed \ {t}
    /\ released' = IF Heard(t) THEN released \cup {t} ELSE released

(***************************************************************************)
(* The connection (the client library, external) and its two handlers.     *)
(***************************************************************************)
LinkUp ==
    \E k \in Connections :
      /\ ~ link /\ onConnect[k].pc = "none" /\ \A j \in 1..(k - 1) : onConnect[j].pc # "none"
      /\ link' = TRUE
      /\ onConnect' = [onConnect EXCEPT ![k].pc = "due"]
      /\ failed' = {} /\ released' = {}
      /\ UNCHANGED <<connected, topicSubs, installed, lost, fails>>

\* The last connection of the bound stays.
LinkDown ==
    /\ link /\ onConnect[MaxConnects] = NotYet
    /\ link' = FALSE
    /\ installed' = {} /\ lost' = lost + 1
    /\ UNCHANGED <<connected, topicSubs, onConnect, fails, failed, released>>

\* Deliberate bug: a topic registered offline is not in the list.
ToResubscribeInstalled == {t \in Topics : Heard(t) /\ t \in installed}

\* The topics the connect handler installs again: every one that has a handler.
ToResubscribe == {t \in Topics : Heard(t)}

OnConnect(k) ==
    /\ onConnect[k].pc = "due"
    /\ connected' = TRUE
    /\ onConnect' = [onConnect EXCEPT ![k] = [pc |-> "installing", todo |-> ToResubscribe]]
    /\ UNCHANGED <<link, topicSubs, installed, lost, fails, failed, released>>

\* One topic after the other, in the order of a map; an error is only logged.
Resubscribe(k) ==
    /\ onConnect[k].pc = "installing"
    /\ \/ \E t \in onConnect[k].todo :
            /\ onConnect' = [onConnect EXCEPT ![k].todo = @ \ {t}]
            /\ InstallOK(t) \/ InstallFails(t)
       \/ /\ onConnect[k].todo = {}
          /\ onConnect' = [onConnect EXCEPT ![k].pc = "done"]
          /\ UNCHANGED <<installed, fails, failed>>
    /\ UNCHANGED <<link, connected, topicSubs, lost, released>>

ConnectionLost ==
    /\ lost > 0 /\ lost' = lost - 1
    /\ connected' = FALSE
    /\ UNCHANGED <<link, topicSubs, installed, onConnect, fails, failed, released>>

BrokerNext ==
    \/ LinkUp \/ LinkDown \/ ConnectionLost
    \/ \E k \in Connections : OnConnect(k) \/ Resubscribe(k)

\* Nothing of the broker is under way.
BrokerQuiet == lost = 0 /\ \A k \in Connections : onConnect[k].pc \in {"none", "done"}

\* While the broker counts itself connected, a topic somebody listens to is held by
\* the server: the only ways to lose one are a SUBSCRIBE that failed in this session
\* and a release that overtook a new handler.  Subscribe, Close, the connect and the
\* connection-lost handler meet here, the last two in either order.
EverySubscriberHears ==
    BrokerQuiet /\ link /\ connected =>
        {t \in Topics : Heard(t)} \subseteq installed \cup failed \cup released
=============================================================================
