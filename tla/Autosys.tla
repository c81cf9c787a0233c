------------------------------- MODULE Autosys -------------------------------
(***************************************************************************)
(* src/autosys/autosys.c in front of a server (net-builder.py starts it on *)
(* port 80 with "server" as its last argument): the Tor exits' sessions    *)
(* overlap. Its handlers are those of tproxy.c line for line, so they are  *)
(* TProxy's; what is modelled here is this use of them. Every session      *)
(* is the polite dialogue of TProxyLockstep, only now there are several.   *)
(***************************************************************************)
EXTENDS TProxyLockstep

\* as_new
as_init == LInit

\* as_ready
as_ready == tproxy_ready /\ UNCHANGED turn

\* handleNewConnection, its three ways out
as_handleNewConnection ==
    /\ handleNewConnection \/ handleNewConnection_refused \/ handleNewConnection_nofd
    /\ UNCHANGED turn

\* handleRead, with bytes or at the end; closeConnections and handleWrite when
\* the other end is gone, or is there
as_handleRead(sd)       == activate_read(sd) \/ activate_eof(sd)
as_closeConnections(sd) == activate_close(sd)
as_handleWrite(sd)      == activate_write(sd)

\* _as_activateAs: the EPOLLIN part, then the EPOLLOUT part, of a connection
as_activateAs_in(sd)  == as_handleRead(sd) /\ UNCHANGED turn
as_activateAs_out(sd) ==
    /\ as_handleWrite(sd) \/ as_closeConnections(sd) \/ activate_exit(sd)
    /\ UNCHANGED turn

as_proxy ==
    \/ as_ready
    \/ as_handleNewConnection
    \/ \E sd \in Fd : as_activateAs_in(sd)
    \/ \E sd \in Fd : as_activateAs_out(sd)

-----------------------------------------------------------------------------
(* The Tor exits on one side, the server on the other. *)

Dialogue ==
    \/ \E k \in Session : LAnswer(k)
    \/ \E e \in Endpoint : LSend(e)
    \/ \E e \in Endpoint : LRead(e)
    \/ \E e \in Endpoint : TakeTurn(e)

\* No session is being closed: no open descriptor has an ended peer, or lost
\* its other end.
Settled ==
    \A f \in Fd : sock[f] # NULL =>
        ~ Ended(sock[f]) /\ {sock[f], Partner(sock[f])} \cap eof = {}

\* Sessions overlap as they like.
CrowdNext ==
    \/ as_proxy \/ Dialogue
    \/ \E k \in Session : Connect(k) /\ UNCHANGED turn
    \/ \E e \in Endpoint, how \in {"fin", "rst"} : LClose(e, how)

CrowdSpec == as_init /\ [][CrowdNext]_lvars

\* Sessions overlap, but none is opened while another one is being closed.
SpacedNext ==
    \/ as_proxy \/ Dialogue
    \/ \E k \in Session : Settled /\ Connect(k) /\ UNCHANGED turn
    \/ \E e \in Endpoint, how \in {"fin", "rst"} : backlog = <<>> /\ LClose(e, how)

SpacedSpec == as_init /\ [][SpacedNext]_lvars
=============================================================================
