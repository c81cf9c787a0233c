--------------------------- MODULE TProxyLockstep ---------------------------
(***************************************************************************)
(* TProxy as the simulation's tracked clients use it: one session after    *)
(* the other, each a dialogue in which one end speaks at a time (SOCKS5    *)
(* negotiation, request, reply), closed by the end whose turn it is when   *)
(* nothing is under way. This is the use for which the proxy's one         *)
(* half-duplex buffer per direction and its global isDone are enough.      *)
(***************************************************************************)
EXTENDS TProxy

\* A page fits in the room that EPOLLOUT announces: tproxy.c's PAGE_SIZE is 4096
\* bytes, and a socket is reported writable only with more room than that.
ASSUME PageFits == PageSize <= LowWater

VARIABLE turn   \* session -> the end that may speak

lvars == <<vars, turn>>

\* Everything this end's partner sent has been sent on to it.
AllArrived(e) == Len(dlv[e]) = sent[Partner(e)]

\* The proxy holds no connection and has none to accept.
Idle == backlog = <<>> /\ Free = Fd /\ cur = NULL

LInit == Init /\ turn = [k \in Session |-> "in"]

\* The next client connects when the proxy has closed both ends of the last.
LConnect(k) == Idle /\ Connect(k) /\ UNCHANGED turn

\* The server, a local process here, accepts; a connect that fails at once is
\* still a step of the proxy.
LAnswer(k) == Answer(k, "open") /\ UNCHANGED turn

LSend(e) == turn[e[1]] = e[2] /\ PeerSend(e) /\ UNCHANGED turn

LRead(e) == PeerRead(e) /\ UNCHANGED turn

\* The listening end has read all of a message and is the one to speak; after
\* the last message it waits for the close instead.
TakeTurn(e) ==
    /\ Up /\ peer[e] = "open" /\ e \notin eof
    /\ turn[e[1]] = Partner(e)[2] /\ ~ Ended(Partner(e))
    /\ sent[Partner(e)] > 0 /\ AllArrived(e) /\ seen[e] = Len(dlv[e])
    /\ turn' = [turn EXCEPT ![e[1]] = e[2]]
    /\ UNCHANGED vars

LClose(e, how) ==
    /\ turn[e[1]] = e[2]
    /\ peer[Partner(e)] = "open"
    /\ AllArrived(e) /\ AllArrived(Partner(e))
    /\ PeerClose(e, how)
    /\ UNCHANGED turn

LProxy == Proxy /\ UNCHANGED turn

LPeers ==
    \/ \E k \in Session : LConnect(k)
    \/ \E k \in Session : LAnswer(k)
    \/ \E e \in Endpoint : LSend(e)
    \/ \E e \in Endpoint : LRead(e)
    \/ \E e \in Endpoint : TakeTurn(e)
    \/ \E e \in Endpoint, how \in {"fin", "rst"} : LClose(e, how)

LNext == LProxy \/ LPeers

LSpec == LInit /\ [][LNext]_lvars

\* The main loop runs while events are ready; the peers read what reaches
\* them, and a connection in progress is answered.
LFairSpec ==
    /\ LSpec
    /\ WF_lvars(LProxy)
    /\ \A e \in Endpoint : WF_lvars(LRead(e))
    /\ \A k \in Session : WF_lvars(LAnswer(k))

-----------------------------------------------------------------------------
\* No activation ends the process, by _exit or by freeing a buffer twice.
NeverFails == Up

\* Between two epoll_waits, a descriptor is registered for what its session
\* waits for: EPOLLOUT exactly while something is held for it or its other end
\* is gone, EPOLLIN unless what it sent is still held. Otherwise it would never
\* be served again.
RegisteredForWhatItWaits ==
    cur = NULL /\ (\A f \in Fd : batch[f] = {}) =>
        \A f \in Fd : sock[f] # NULL =>
            LET rec   == hashmap[f]
                other == hashmap[rec.sd]
            IN /\ "OUT" \in ined[f] <=> (other = NULL \/ other.bufsize > 0)
               /\ "IN" \in ined[f] <=> (other = NULL \/ rec.bufsize = 0)

\* How far the relay of Relay has got with session k.
LineOf(k) ==
    CASE peer[<<k, "in">>] = "idle" -> "idle"
      [] \E i \in DOMAIN backlog : backlog[i] = k -> "waiting"
      [] OTHER -> IF peer[<<k, "out">>] = "idle" THEN "refused" ELSE "up"

Transparent == INSTANCE Relay WITH
    line <- [k \in Session |-> LineOf(k)], reports <- traces,
    said <- sent, heard <- dlv,
    left <- {e \in Endpoint : Ended(e)}, hungup <- eof

\* With its event loop, descriptors and half-duplex buffers the proxy implements
\* the relay of Relay: whatever it does, seen from outside, is a step of Relay,
\* or none. handleWrite passes on the next units and all of them,
\* closeConnections only follows an end that left with nothing under way, and
\* each session is reported as it is accepted.
ImplementsRelay == Transparent!Spec

\* The proxy always catches up again with what a peer sends, unless it has
\* closed the connection: no unit waits for ever.
Forwarded ==
    \A e \in Endpoint : []<>(Len(dlv[Partner(e)]) = sent[e] \/ e \in eof)

\* When one end closes or is reset, the proxy closes both.
CloseReachesBothEnds ==
    \A e \in Endpoint : Ended(e) ~> {e, Partner(e)} \subseteq eof
=============================================================================
