----------------------------- MODULE PbufSession -----------------------------
(***************************************************************************)
(* The vDC API session: PbufServer.Run, handleConn and the session owner   *)
(* (pkg/vdcapi/pbuf_server.go), the Hello and Bye messages                 *)
(* (pbuf_dispatch.go) and the session state shown by /api/dss              *)
(* (status_file.go).                                                       *)
(*                                                                         *)
(* Every connection has a handler goroutine.  A Hello claims the session   *)
(* under sessionMu, closes the connection it replaces after the unlock,    *)
(* and only then marks its own session active; a handler that ends updates *)
(* the status, gives the session back and closes its socket, in three      *)
(* steps.  Handlers of several connections interleave between all of them. *)
(* A connection slot is reused once its handler has ended and no other     *)
(* handler still holds the old connection.                                 *)
(*                                                                         *)
(* Names every component has carry the prefix Session here: ServerProofs   *)
(* takes in this module beside other parts of the servers.                 *)
(***************************************************************************)
EXTENDS Naturals

CONSTANTS Conns,    \* slots for TCP connections
          NoConn,
          Vdsms,    \* dSUIDs of vDSMs, equal when strings.EqualFold says so
          NoVdsm    \* the empty dSUID

ASSUME SessionAssumption == NoConn \notin Conns /\ NoVdsm \notin Vdsms

VARIABLES pc,             \* where the handler of a connection is
          sock,           \* "up", "gone" (the peer left) or "closed" (by conn.Close)
          sess,           \* the vDSM of the handler's active session, or NoVdsm
          hello,          \* the vDSM of the Hello being processed, NoVdsm otherwise
          replaced,       \* the connection this handler has yet to close
          sessionConn,    \* PbufServer.sessionConn
          sessionDSUID,   \* PbufServer.sessionDSUID
          status,         \* PbufServer.statusSession
          hidden,         \* history: sessions that the status tells nothing of any more, as
                          \* another handler wrote it since they were accepted
          listening,      \* the listener accepts connections
          ctxDone         \* the server's context is cancelled

sessionVars == <<pc, sock, sess, hello, replaced, sessionConn, sessionDSUID, status, hidden,
          listening, ctxDone>>
shown == <<status, hidden>>
owner == <<sessionConn, sessionDSUID>>
server == <<listening, ctxDone>>

InLoop == {"read", "hello", "replace", "accept", "write", "serve"}
Teardown == {"disconnect", "release", "close"}

SessionTypeOK ==
    /\ pc \in [Conns -> InLoop \cup Teardown \cup {"none"}]
    /\ sock \in [Conns -> {"up", "gone", "closed"}]
    /\ sess \in [Conns -> Vdsms \cup {NoVdsm}]
    /\ hello \in [Conns -> Vdsms \cup {NoVdsm}]
    /\ replaced \in [Conns -> Conns \cup {NoConn}]
    /\ sessionConn \in Conns \cup {NoConn}
    /\ sessionDSUID \in Vdsms \cup {NoVdsm}
    /\ status \in [connected : BOOLEAN, conn : Conns \cup {NoConn},
                   vdsm : Vdsms \cup {NoVdsm}]
    /\ hidden \subseteq Conns
    /\ listening \in BOOLEAN
    /\ ctxDone \in BOOLEAN
    /\ \A c \in Conns : pc[c] = "replace" <=> replaced[c] # NoConn

SessionInit ==
    /\ pc = [c \in Conns |-> "none"]
    /\ sock = [c \in Conns |-> "closed"]
    /\ sess = [c \in Conns |-> NoVdsm]
    /\ hello = [c \in Conns |-> NoVdsm]
    /\ replaced = [c \in Conns |-> NoConn]
    /\ sessionConn = NoConn
    /\ sessionDSUID = NoVdsm
    /\ status = [connected |-> FALSE, conn |-> NoConn, vdsm |-> NoVdsm] /\ hidden = {}
    /\ listening = TRUE
    /\ ctxDone = FALSE

Goto(c, label) == pc' = [pc EXCEPT ![c] = label]

-----------------------------------------------------------------------------
(* Connections, the network and the server's context *)

Accept(c) ==
    /\ listening
    /\ pc[c] = "none"
    /\ \A d \in Conns : replaced[d] # c
    /\ Goto(c, "read")
    /\ sock' = [sock EXCEPT ![c] = "up"]
    /\ UNCHANGED <<sess, hello, replaced, owner, shown, server>>

(* The peer closes or crashes, or the TCP keepalive gives it up.           *)
PeerGone(c) ==
    /\ pc[c] # "none" /\ sock[c] = "up"
    /\ sock' = [sock EXCEPT ![c] = "gone"]
    /\ UNCHANGED <<pc, sess, hello, replaced, owner, shown, server>>

(* The push goroutine of an active session fails to write and closes.      *)
PushFails(c) ==
    /\ pc[c] \in InLoop /\ sock[c] = "gone" /\ sess[c] # NoVdsm
    /\ sock' = [sock EXCEPT ![c] = "closed"]
    /\ UNCHANGED <<pc, sess, hello, replaced, owner, shown, server>>

(* The context ends.  A goroutine of each connection closes it then, while *)
(* its handler has not closed done; Run closes the listener.               *)
Cancel ==
    /\ ctxDone' = TRUE
    /\ UNCHANGED <<pc, sock, sess, hello, replaced, owner, shown, listening>>

(* Deliberate bug: only a connection with a session is closed.             *)
CloseOnDoneSession(c) ==
    /\ ctxDone /\ sess[c] # NoVdsm
    /\ pc[c] \in InLoop /\ sock[c] # "closed"
    /\ sock' = [sock EXCEPT ![c] = "closed"]
    /\ UNCHANGED <<pc, sess, hello, replaced, owner, shown, server>>

CloseOnDone(c) ==
    /\ ctxDone
    /\ pc[c] \in InLoop /\ sock[c] # "closed"
    /\ sock' = [sock EXCEPT ![c] = "closed"]
    /\ UNCHANGED <<pc, sess, hello, replaced, owner, shown, server>>

(* Run closes the listener when the context ends or an Accept fails, and   *)
(* waits for the handlers.                                                 *)
CloseListener ==
    /\ listening
    /\ listening' = FALSE
    /\ UNCHANGED <<pc, sock, sess, hello, replaced, owner, shown, ctxDone>>

-----------------------------------------------------------------------------
(* The read loop of handleConn *)

(* The peer left or the socket was closed: readPbufFrame returns an error. *)
ReadFails(c) ==
    /\ pc[c] = "read" /\ sock[c] # "up"
    /\ Goto(c, "disconnect")
    /\ UNCHANGED <<sock, sess, hello, replaced, owner, shown, server>>

(* A frame of an invalid size ends the handler as well.                    *)
BadFrame(c) ==
    /\ pc[c] = "read" /\ sock[c] = "up"
    /\ Goto(c, "disconnect")
    /\ UNCHANGED <<sock, sess, hello, replaced, owner, shown, server>>

(* A Hello whose API version is supported arrives; other versions and      *)
(* malformed messages are answered and change nothing.                     *)
ReadHello(c, v) ==
    /\ pc[c] = "read" /\ sock[c] = "up"
    /\ Goto(c, "hello")
    /\ hello' = [hello EXCEPT ![c] = v]
    /\ UNCHANGED <<sock, sess, replaced, owner, shown, server>>

(* A Hello without a dSUID, or for another vDSM than the one this          *)
(* connection already has a session with, is refused.                      *)
Refused(c) == hello[c] = NoVdsm \/ sess[c] \notin {NoVdsm, hello[c]}

RejectHello(c) ==
    /\ pc[c] = "hello" /\ Refused(c)
    /\ Goto(c, "write")
    /\ hello' = [hello EXCEPT ![c] = NoVdsm]
    /\ UNCHANGED <<sock, sess, replaced, owner, shown, server>>

(* Deliberate bug: any vDSM may take the session over.                     *)
claimSessionOwnerAnyVdsm(c) ==
    /\ pc[c] = "hello" /\ ~Refused(c)
    /\ sessionConn' = c
    /\ sessionDSUID' = hello[c]
    /\ replaced' = [replaced EXCEPT ![c] = IF sessionConn = c THEN NoConn ELSE sessionConn]
    /\ Goto(c, IF sessionConn \in {NoConn, c} THEN "accept" ELSE "replace")
    /\ UNCHANGED <<sock, sess, hello, shown, server>>

(* The session is granted when it is free, when this connection has it, or *)
(* when a connection of the same vDSM has it, which is then replaced.      *)
claimSessionOwner(c) ==
    /\ pc[c] = "hello" /\ ~Refused(c)
    /\ \/ /\ sessionConn \in {NoConn, c}
          /\ sessionConn' = c
          /\ sessionDSUID' = hello[c]
          /\ Goto(c, "accept")
          /\ UNCHANGED <<replaced, hello>>
       \/ /\ sessionConn \notin {NoConn, c}
          /\ sessionDSUID = hello[c]
          /\ sessionConn' = c
          /\ replaced' = [replaced EXCEPT ![c] = sessionConn]
          /\ Goto(c, "replace")
          /\ UNCHANGED <<sessionDSUID, hello>>
       \/ /\ sessionConn \notin {NoConn, c}
          /\ sessionDSUID # hello[c]
          /\ Goto(c, "write")
          /\ hello' = [hello EXCEPT ![c] = NoVdsm]
          /\ UNCHANGED <<replaced, owner>>
    /\ UNCHANGED <<sock, sess, shown, server>>

(* The sessions that the status tells nothing of once c has written it.    *)
HiddenBy(c) == (hidden \ {c}) \cup {d \in Conns \ {c} : sess[d] # NoVdsm}

CloseReplaced(c) ==
    /\ pc[c] = "replace"
    /\ Goto(c, "accept")
    /\ sock' = [sock EXCEPT ![replaced[c]] = "closed"]
    /\ replaced' = [replaced EXCEPT ![c] = NoConn]
    /\ UNCHANGED <<sess, hello, owner, shown, server>>

(* Deliberate bug: the status is written only by the first session.        *)
AcceptHelloOnce(c) ==
    /\ pc[c] = "accept"
    /\ Goto(c, "write")
    /\ sess' = [sess EXCEPT ![c] = hello[c]]
    /\ hello' = [hello EXCEPT ![c] = NoVdsm]
    /\ status' = IF status.connected THEN status
                 ELSE [connected |-> TRUE, conn |-> c, vdsm |-> hello[c]]
    /\ hidden' = HiddenBy(c)
    /\ UNCHANGED <<sock, replaced, owner, server>>

(* The session becomes active and the status connected.                    *)
AcceptHello(c) ==
    /\ pc[c] = "accept"
    /\ Goto(c, "write")
    /\ sess' = [sess EXCEPT ![c] = hello[c]]
    /\ hello' = [hello EXCEPT ![c] = NoVdsm]
    /\ status' = [connected |-> TRUE, conn |-> c, vdsm |-> hello[c]]
    /\ hidden' = HiddenBy(c)
    /\ UNCHANGED <<sock, replaced, owner, server>>

(* The answer is written; a failing write ends the handler.                *)
WriteFrames(c) ==
    /\ pc[c] = "write"
    /\ \/ sock[c] # "closed" /\ Goto(c, "read")
       \/ sock[c] # "up" /\ Goto(c, "disconnect")
    /\ UNCHANGED <<sock, sess, hello, replaced, owner, shown, server>>

(* Every other request and notification checks that the session is active  *)
(* and that this connection owns it (isSessionOwner), and is then carried  *)
(* out without holding sessionMu.                                          *)
ReadRequest(c) ==
    /\ pc[c] = "read" /\ sock[c] = "up"
    /\ Goto(c, IF sess[c] # NoVdsm /\ sessionConn = c THEN "serve" ELSE "write")
    /\ UNCHANGED <<sock, sess, hello, replaced, owner, shown, server>>

Serve(c) ==
    /\ pc[c] = "serve"
    /\ Goto(c, "write")
    /\ UNCHANGED <<sock, sess, hello, replaced, owner, shown, server>>

(* Bye ends the session of this connection and closes it (closeAfter),     *)
(* whether or not its answer could be written.                             *)
ReadBye(c) ==
    /\ pc[c] = "read" /\ sock[c] = "up"
    /\ Goto(c, "disconnect")
    /\ sess' = [sess EXCEPT ![c] = NoVdsm]
    /\ UNCHANGED <<sock, hello, replaced, owner, shown, server>>

-----------------------------------------------------------------------------
(* The deferred calls of handleConn, last one first *)

(* Every handler that ends marks the status disconnected, whoever has the  *)
(* session then.                                                           *)
setDisconnected(c) ==
    /\ pc[c] = "disconnect"
    /\ Goto(c, "release")
    /\ status' = [status EXCEPT !.connected = FALSE]
    /\ hidden' = HiddenBy(c)
    /\ UNCHANGED <<sock, sess, hello, replaced, owner, server>>

(* Deliberate bug: the session is cleared without looking at its owner.    *)
releaseSessionOwnerAlways(c) ==
    /\ pc[c] = "release"
    /\ Goto(c, "close")
    /\ sessionConn' = NoConn
    /\ sessionDSUID' = NoVdsm
    /\ UNCHANGED <<sock, sess, hello, replaced, shown, server>>

(* Deliberate bug: the handler ends without giving the session back.       *)
releaseSessionOwnerNot(c) ==
    /\ pc[c] = "release"
    /\ Goto(c, "close")
    /\ UNCHANGED <<sock, sess, hello, replaced, owner, shown, server>>

(* The session is given back only by the connection that has it.           *)
releaseSessionOwner(c) ==
    /\ pc[c] = "release"
    /\ Goto(c, "close")
    /\ \/ sessionConn = c /\ sessionConn' = NoConn /\ sessionDSUID' = NoVdsm
       \/ sessionConn # c /\ UNCHANGED owner
    /\ UNCHANGED <<sock, sess, hello, replaced, shown, server>>

Close(c) ==
    /\ pc[c] = "close"
    /\ Goto(c, "none")
    /\ sock' = [sock EXCEPT ![c] = "closed"]
    /\ sess' = [sess EXCEPT ![c] = NoVdsm]
    /\ UNCHANGED <<hello, replaced, owner, shown, server>>

-----------------------------------------------------------------------------

(* The steps a handler takes without waiting for its peer.                 *)
HandlerStep(c) ==
    \/ ReadFails(c) \/ RejectHello(c) \/ claimSessionOwner(c) \/ CloseReplaced(c)
    \/ AcceptHello(c) \/ WriteFrames(c) \/ Serve(c)
    \/ setDisconnected(c) \/ releaseSessionOwner(c) \/ Close(c)

PeerStep(c) ==
    \/ Accept(c) \/ PeerGone(c) \/ BadFrame(c) \/ ReadRequest(c) \/ ReadBye(c)
    \/ \E v \in Vdsms \cup {NoVdsm} : ReadHello(c, v)

SessionNext ==
    \/ \E c \in Conns : HandlerStep(c) \/ PeerStep(c) \/ PushFails(c) \/ CloseOnDone(c)
    \/ Cancel
    \/ CloseListener

SessionSpec == SessionInit /\ [][SessionNext]_sessionVars

(* Goroutines are scheduled: a handler that can go on without its peer     *)
(* does, the goroutine that waits for the context closes the connection,   *)
(* and Run closes the listener once the context has ended.  Nothing is     *)
(* assumed of the peers.                                                   *)
SessionFairSpec ==
    /\ SessionSpec
    /\ \A c \in Conns : WF_sessionVars(HandlerStep(c)) /\ WF_sessionVars(CloseOnDone(c))
    /\ WF_sessionVars(ctxDone /\ CloseListener)

-----------------------------------------------------------------------------
(* Properties *)

AboutToBeClosed(c) == \E d \in Conns : pc[d] = "replace" /\ replaced[d] = c

(* A session the bridge still serves.                                      *)
Live(c) ==
    /\ pc[c] \in InLoop
    /\ sess[c] # NoVdsm
    /\ sock[c] # "closed" /\ ~AboutToBeClosed(c)

(* A connection with an active session that does not own the session is    *)
(* closed, or the Hello that replaced it is about to close it: none keeps  *)
(* announcing devices beside the owner.                                    *)
TakenOverIsClosed ==
    \A c \in Conns : Live(c) => sessionConn = c

(* There is never more than one session, and a request that passed the     *)
(* owner check is carried out for a connection that is the owner, or that  *)
(* has been or is just being closed.                                       *)
OneSession ==
    \A c, d \in Conns :
        Live(c) /\ (Live(d) \/ (pc[d] = "serve" /\ sock[d] # "closed")) =>
            c = d \/ AboutToBeClosed(d)

(* The session is never owned by a connection whose handler has ended:     *)
(* such an owner would lock every other vDSM out for good.                 *)
NoLeakedOwner ==
    sessionConn # NoConn => pc[sessionConn] \notin {"none", "close"}

(* The vDSM recorded with the owner is the one its connection has a        *)
(* session with, and a free session has no vDSM.                           *)
OwnerMatchesSession ==
    /\ sessionConn = NoConn <=> sessionDSUID = NoVdsm
    /\ \A c \in Conns :
         sessionConn = c /\ pc[c] \in InLoop /\ sess[c] # NoVdsm
            => sess[c] = sessionDSUID

(* The status never shows a session whose handler has ended, nor another   *)
(* vDSM than that handler accepted.                                        *)
ConnectedIsReal ==
    status.connected =>
        /\ status.conn # NoConn
        /\ pc[status.conn] \in InLoop \cup {"disconnect"}
        /\ sess[status.conn] \in {NoVdsm, status.vdsm}

(* A live session is shown, and with its own vDSM, unless another handler  *)
(* has ended since it was accepted, or has accepted a Hello that it read   *)
(* before it was replaced.                                                 *)
LiveIsShown ==
    \A c \in Conns : Live(c) /\ c \notin hidden =>
        status = [connected |-> TRUE, conn |-> c, vdsm |-> sess[c]]

(* status_file.go:9: statusSession "holds the current DSS connection"      *)
(* state: as long as there is a live session the status is connected.      *)
(* setDisconnected does not ask whose session ends, so this fails.         *)
StatusIsCurrent == \A c \in Conns : Live(c) => status.connected

(* One vDSM at a time is served, and a loser of the session is cut off.    *)
SessionIsExclusive == SessionTypeOK /\ TakenOverIsClosed /\ OneSession

(* No handler that ended is the owner, and the vDSM recorded with the      *)
(* owner is that of its session.  The status shows no session that is      *)
(* over, and shows the live one, but for what another handler wrote over   *)
(* it later (handleConn's deferred setDisconnected, or a Hello answered    *)
(* late); that exception is the fault StatusIsCurrent is about.            *)
OwnerAgrees == NoLeakedOwner /\ OwnerMatchesSession /\ ConnectedIsReal /\ LiveIsShown

LossIsExplained(c) ==
    Live(c) /\ ~Live(c)' =>
        \/ pc'[c] = "disconnect"
        \/ ctxDone
        \/ sock[c] = "gone"
        \/ sessionDSUID' = sess[c]

(* What the bridge serves: the vDSMs of its live sessions.                 *)
Served == {sess[c] : c \in {d \in Conns : Live(d)}}

Lease == INSTANCE SessionLease WITH holder <- sessionDSUID, served <- Served

(* The session is a lease that one vDSM has at a time, and a live session  *)
(* is lost only by its own connection ending, by the server's shutdown, or *)
(* to a Hello of the same vDSM.                                            *)
NoForeignTakeover ==
    Lease!Spec /\ [][\A c \in Conns : LossIsExplained(c)]_sessionVars

(* A lost connection gives the session back, so that another vDSM can      *)
(* connect.                                                                *)
LostOwnerReleases ==
    \A c \in Conns : sessionConn = c /\ sock[c] # "up" ~> sessionConn # c

(* When the context ends every handler ends, so that Run returns.          *)
ShutdownEnds == ctxDone ~> \A c \in Conns : pc[c] = "none"

=============================================================================
