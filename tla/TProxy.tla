------------------------------- MODULE TProxy -------------------------------
(***************************************************************************)
(* The forwarding core of tropeaproxy (src/tropeaproxy/tproxy.c), which    *)
(* src/autosys/autosys.c repeats under other names: one thread, one level- *)
(* triggered epoll set, one hash table that maps every connected           *)
(* descriptor to the record of its partner.                                *)
(*                                                                         *)
(* A session is one client that connects to the proxy; its two endpoints   *)
(* are the client ("in") and the server the proxy connects to ("out").     *)
(* The kernel's sockets and the peers at the far ends are the environment. *)
(* Bytes are counted in units; unit <<e, i>> is the i-th one that peer e   *)
(* sends, so a buffer's contents say where they came from.                 *)
(***************************************************************************)
EXTENDS Integers, Sequences, FiniteSets

CONSTANTS Session,   \* the clients' connections, in the whole run
          Fd,        \* descriptor numbers left for connections
          PageSize,  \* PAGE_SIZE: the most that one recv takes, in units
          SndBuf,    \* room between a send and the peer's read, in units
          LowWater,  \* epoll reports EPOLLOUT when this much room is left
          MaxUnits,  \* bound: the units one peer may send
          MaxTraces, \* bound: the trace packets sent in a run
          NULL

asockin == 0         \* the listening descriptor

Endpoint == Session \X {"in", "out"}
Unit     == Endpoint \X (Nat \ {0})
Ev       == {"IN", "OUT"}

\* struct partner_s: the other end of the connection and what was read for it.
\* buf is the state of the pointer, data the bytes it points to.
partner_s == [sd : Fd, bufsize : Nat, buf : {"NULL", "live", "freed"}, data : Seq(Unit)]

\* The locals of _tproxy_activateTProxy between its EPOLLIN and EPOLLOUT parts.
Locals == [sd : Fd, partner : [sd : Fd, bufsize : Int,
                               buf : {"NULL", "live", "freed"}, data : Seq(Unit)]]

ASSUME ConstAssumption ==
    /\ Fd \subseteq Nat \ {asockin}
    /\ PageSize \in Nat \ {0}
    /\ SndBuf \in Nat
    /\ LowWater \in 1 .. SndBuf
    /\ MaxUnits \in Nat
    /\ MaxTraces \in Nat

ASSUME NullAssumption ==
    /\ NULL \notin Endpoint
    /\ NULL \notin Session
    /\ NULL \notin partner_s
    /\ NULL \notin Locals

VARIABLES
  hashmap,  \* descriptor -> partner record, NULL where there is no entry
  isDone,   \* "a connection was closed last": one flag for the whole proxy
  ined,     \* the epoll set: descriptor -> the events it is registered for
  batch,    \* epevs[]: events epoll_wait returned that were not handled yet
  cur,      \* locals of the activation that still has its EPOLLOUT part to run
  status,   \* "up", or how the process ended
  traces,   \* the UDP packets udpTrace sent: the session each was sent for
  sock,     \* kernel: descriptor -> the endpoint it is connected to
  backlog,  \* kernel: sessions that wait in the listen queue
  peer,     \* the peers' side of each connection
  eof,      \* endpoints whose connection the proxy has closed
  sent,     \* units each peer sent
  rcvd,     \* units the proxy received from each peer
  dlv,      \* units the proxy sent to each peer
  seen      \* how many of those the peer has read

procVars == <<hashmap, isDone, status, traces>>
pollVars == <<ined, batch, cur>>
netVars  == <<backlog, peer, sent, seen>>
vars     == <<hashmap, isDone, ined, batch, cur, status, traces, sock,
              backlog, peer, eof, sent, rcvd, dlv, seen>>

Partner(e) == <<e[1], IF e[2] = "in" THEN "out" ELSE "in">>

Least(m, n) == IF m <= n THEN m ELSE n

Up == status = "up"

-----------------------------------------------------------------------------
(* What the kernel says of a socket. *)

Avail(e) == sent[e] - rcvd[e]                  \* units a recv could take
Ended(e) == peer[e] \in {"fin", "rst"}         \* the peer closed or reset
Space(e) == SndBuf - (Len(dlv[e]) - seen[e])   \* units a send could pass on

Readable(e) == Avail(e) > 0 \/ Ended(e)
Writable(e) == Ended(e) \/ (peer[e] = "open" /\ Space(e) >= LowWater)

Ready(f) ==
    IF f = asockin
    THEN IF backlog # <<>> THEN {"IN"} ELSE {}
    ELSE IF sock[f] = NULL THEN {}
         ELSE {ev \in ined[f] : \/ ev = "IN"  /\ Readable(sock[f])
                                \/ ev = "OUT" /\ Writable(sock[f])}

Free == {f \in Fd : sock[f] = NULL}

LowestFree(f) == f \in Free /\ \A g \in Free : f <= g

\* The fresh record g_new0 makes for a descriptor whose other end is sd.
NewPartner(sd) == [sd |-> sd, bufsize |-> 0, buf |-> "NULL", data |-> <<>>]

\* The two entries of a new connection: each end's record names the other end.
NewEntries_swapped(cin, cout) ==
    [hashmap EXCEPT ![cin] = NewPartner(cin), ![cout] = NewPartner(cout)]
NewEntries(cin, cout) ==
    [hashmap EXCEPT ![cin] = NewPartner(cout), ![cout] = NewPartner(cin)]

\* The trace packet, sent for session k or, if accept failed, for none.
udpTrace_restartOnly(k) == traces' = IF isDone = 1 THEN Append(traces, k) ELSE traces
udpTrace(k) == traces' = Append(traces, k)

\* EPOLL_CTL_ADD, else EPOLL_CTL_MOD; both fail on a descriptor that is closed.
setEPOLL_addOnly(ed, sd, events) ==
    IF sock[sd] = NULL \/ ed[sd] # {} THEN ed ELSE [ed EXCEPT ![sd] = events]
setEPOLL(ed, sd, events) ==
    IF sock[sd] = NULL THEN ed ELSE [ed EXCEPT ![sd] = events]

resetEPOLL(ed, sd) == [ed EXCEPT ![sd] = {}]

\* free(buf): freeing it again is undefined behaviour, and the model stops there.
StatusAfterFree(buf) == IF buf = "freed" THEN "doublefree" ELSE "up"

-----------------------------------------------------------------------------
(* tproxy_new, prepareToTrace, startReader. *)

Init ==
    /\ hashmap = [f \in Fd |-> NULL]
    /\ isDone = 0
    /\ ined = [f \in Fd \cup {asockin} |-> IF f = asockin THEN {"IN"} ELSE {}]
    /\ batch = [f \in Fd \cup {asockin} |-> {}]
    /\ cur = NULL
    /\ status = "up"
    /\ traces = <<>>
    /\ sock = [f \in Fd |-> NULL]
    /\ backlog = <<>>
    /\ peer = [e \in Endpoint |-> "idle"]
    /\ eof = {}
    /\ sent = [e \in Endpoint |-> 0]
    /\ rcvd = [e \in Endpoint |-> 0]
    /\ dlv = [e \in Endpoint |-> <<>>]
    /\ seen = [e \in Endpoint |-> 0]

-----------------------------------------------------------------------------
(* The event loop. *)

\* tproxy_ready: collect the events that are ready, when all collected before
\* are handled. The order in which they are then handled is left open.
tproxy_ready ==
    /\ Up /\ cur = NULL
    /\ \A f \in DOMAIN batch : batch[f] = {}
    /\ \E f \in DOMAIN batch : Ready(f) # {}
    /\ batch' = [f \in DOMAIN batch |-> Ready(f)]
    /\ UNCHANGED <<procVars, netVars, ined, cur, sock, eof, rcvd, dlv>>

\* accept returned descriptor cin for session k, socket returned cout and
\* connect succeeded or is in progress: the two records are made.
handleNewConnection ==
    /\ Up /\ cur = NULL /\ "IN" \in batch[asockin]
    /\ Len(traces) < MaxTraces
    /\ \E cin, cout \in Fd :
         /\ LowestFree(cin)
         /\ cout \in Free \ {cin}
         /\ \A g \in Free \ {cin} : cout <= g
         /\ sock' = [sock EXCEPT ![cin] = <<Head(backlog), "in">>,
                                 ![cout] = <<Head(backlog), "out">>]
         /\ hashmap' = NewEntries(cin, cout)
         /\ ined' = [ined EXCEPT ![cin] = {"IN"}, ![cout] = {"IN"}]
    /\ isDone' = 0
    /\ udpTrace(Head(backlog))
    /\ peer' = [peer EXCEPT ![<<Head(backlog), "out">>] = "syn"]
    /\ backlog' = Tail(backlog)
    /\ batch' = [batch EXCEPT ![asockin] = {}]
    /\ UNCHANGED <<cur, status, eof, sent, rcvd, dlv, seen>>

\* connect failed, or socket found no descriptor left: both ends are closed.
\* isDone was reset and the trace sent before.
handleNewConnection_refused ==
    /\ Up /\ cur = NULL /\ "IN" \in batch[asockin]
    /\ Len(traces) < MaxTraces
    /\ Free # {}
    /\ isDone' = 0
    /\ udpTrace(Head(backlog))
    /\ eof' = eof \cup {<<Head(backlog), "in">>}
    /\ backlog' = Tail(backlog)
    /\ batch' = [batch EXCEPT ![asockin] = {}]
    /\ UNCHANGED <<hashmap, ined, cur, status, sock, peer, sent, rcvd, dlv, seen>>

\* accept failed for want of a descriptor: its result is not looked at, the
\* trace is sent, and connect fails on the descriptor socket did not return.
handleNewConnection_nofd ==
    /\ Up /\ cur = NULL /\ "IN" \in batch[asockin]
    /\ Len(traces) < MaxTraces
    /\ Free = {}
    /\ isDone' = 0
    /\ udpTrace(NULL)
    /\ batch' = [batch EXCEPT ![asockin] = {}]
    /\ UNCHANGED <<hashmap, ined, cur, status, sock, backlog, peer, eof, sent,
                   rcvd, dlv, seen>>

-----------------------------------------------------------------------------
(* _tproxy_activateTProxy: the EPOLLIN part. *)

InPart(sd) == Up /\ cur = NULL /\ "IN" \in batch[sd] /\ hashmap[sd] # NULL

\* The end of the EPOLLIN part: go on with the EPOLLOUT part, if it is set.
ThenOut(sd, rec) ==
    /\ batch' = [batch EXCEPT ![sd] = {}]
    /\ cur' = IF "OUT" \in batch[sd] THEN [sd |-> sd, partner |-> rec] ELSE NULL

\* What recv stores: the next n units of e.
Received(e, n) == [i \in 1 .. n |-> <<e, rcvd[e] + i>>]

\* handleRead with bytes to read. A buffer that is still held is overwritten.
activate_read(sd) ==
    /\ InPart(sd) /\ Avail(sock[sd]) > 0
    /\ LET e   == sock[sd]
           n   == Least(Avail(e), PageSize)
           rec == [sd |-> hashmap[sd].sd, bufsize |-> n,
                   buf |-> "live", data |-> Received(e, n)]
       IN /\ hashmap' = [hashmap EXCEPT ![sd] = rec]
          /\ rcvd' = [rcvd EXCEPT ![e] = @ + n]
          /\ ined' = resetEPOLL(setEPOLL(ined, rec.sd, Ev), sd)
          /\ ThenOut(sd, rec)
    /\ UNCHANGED <<netVars, isDone, status, traces, sock, eof, dlv>>

removeEntry_partner(sd) == [hashmap EXCEPT ![hashmap[sd].sd] = NULL]
removeEntry(sd) == [hashmap EXCEPT ![sd] = NULL]

\* The flag the next EPOLLOUT of the other end reads.
markDone_never == UNCHANGED isDone
markDone == isDone' = 1

\* closeConnections on sd, whose record is rec, from the epoll set ed.
closeConnections_open(ed, sd, rec) ==
    /\ ined' = resetEPOLL(ed, sd)
    /\ status' = IF rec.bufsize # 0 THEN StatusAfterFree(rec.buf) ELSE status
    /\ hashmap' = removeEntry(sd)
    /\ markDone
    /\ UNCHANGED <<eof, sock>>
closeConnections(ed, sd, rec) ==
    /\ ined' = resetEPOLL(ed, sd)
    /\ eof' = eof \cup ({sock[sd]} \ {NULL})
    /\ sock' = [sock EXCEPT ![sd] = NULL]
    /\ status' = IF rec.bufsize # 0 THEN StatusAfterFree(rec.buf) ELSE status
    /\ hashmap' = removeEntry(sd)
    /\ markDone

\* handleRead when recv returns 0 (end of stream) or -1 (reset), then
\* closeConnections, which frees the buffer only when bufsize is not 0.
activate_eof(sd) ==
    /\ InPart(sd) /\ Avail(sock[sd]) <= 0
    /\ LET size     == IF peer[sock[sd]] = "rst" THEN -1 ELSE 0
           rec(buf) == [sd |-> hashmap[sd].sd, bufsize |-> size,
                        buf |-> buf, data |-> <<>>]
       IN /\ closeConnections(setEPOLL(ined, hashmap[sd].sd, Ev), sd, rec("live"))
          /\ ThenOut(sd, rec(IF size # 0 THEN "freed" ELSE "live"))
    /\ UNCHANGED <<netVars, traces, rcvd, dlv>>

\* calloc or realloc failed.
activate_nomem(sd) ==
    /\ InPart(sd)
    /\ status' = "nomem"
    /\ UNCHANGED <<pollVars, netVars, hashmap, isDone, traces, sock, eof, rcvd, dlv>>

-----------------------------------------------------------------------------
(* _tproxy_activateTProxy: the EPOLLOUT part. *)

OutPart(sd) ==
    /\ Up
    /\ IF cur # NULL THEN cur.sd = sd ELSE batch[sd] = {"OUT"} /\ hashmap[sd] # NULL

\* The local "partner": looked up at the start of the activation, so it is
\* still there when the EPOLLIN part has removed the entry.
partner(sd) == IF cur # NULL THEN cur.partner ELSE hashmap[sd]

\* The local "me": the record of the other end, which holds what goes to sd.
me_of_itself(sd) == hashmap[sd]
me(sd) == hashmap[partner(sd).sd]

OutDone(sd) == batch' = [batch EXCEPT ![sd] = {}] /\ cur' = NULL

\* Units that a send of sz on sd passes on: what fits, nothing once sd or the
\* far end is closed. handleWrite does not look at the result.
Accepted_butOne(sd, sz) ==
    IF sock[sd] # NULL /\ peer[sock[sd]] = "open"
    THEN Least(sz - 1, Space(sock[sd])) ELSE 0
Accepted(sd, sz) ==
    IF sock[sd] # NULL /\ peer[sock[sd]] = "open"
    THEN Least(sz, Space(sock[sd])) ELSE 0

\* The record once its buffer is sent and freed; the pointer is left as it is.
Flushed_kept(rec) == [rec EXCEPT !.buf = IF @ = "NULL" THEN "NULL" ELSE "freed"]
Flushed_minusOne(rec) == [rec EXCEPT !.bufsize = -1, !.data = <<>>, !.buf = "freed"]
Flushed_sizeKept(rec) == [rec EXCEPT !.data = <<>>, !.buf = "freed"]
Flushed(rec) ==
    [sd |-> rec.sd, bufsize |-> 0, data |-> <<>>,
     buf |-> IF rec.buf = "NULL" THEN "NULL" ELSE "freed"]

\* handleWrite to sd of what was read from outsd.
handleWrite(sd, outsd, rec) ==
    /\ dlv' = IF Accepted(sd, rec.bufsize) > 0
              THEN [dlv EXCEPT ![sock[sd]] =
                      @ \o SubSeq(rec.data, 1, Accepted(sd, rec.bufsize))]
              ELSE dlv
    /\ status' = StatusAfterFree(rec.buf)
    /\ hashmap' = [hashmap EXCEPT ![outsd] = Flushed(rec)]
    /\ ined' = setEPOLL(setEPOLL(ined, sd, {"IN"}), outsd, {"IN"})
    /\ UNCHANGED <<netVars, isDone, traces, sock, eof, rcvd>>

activate_write(sd) ==
    /\ OutPart(sd) /\ me(sd) # NULL
    /\ handleWrite(sd, partner(sd).sd, me(sd))
    /\ OutDone(sd)

\* The other end has no entry any more and isDone is set: close this end too.
activate_close(sd) ==
    /\ OutPart(sd) /\ me(sd) = NULL /\ isDone = 1
    /\ closeConnections(ined, sd, partner(sd))
    /\ OutDone(sd)
    /\ UNCHANGED <<netVars, traces, rcvd, dlv>>

\* The two lookups of an activation that end in _exit(EXIT_FAILURE): the event's
\* descriptor is unknown, or its other end is, while isDone is not set.
UnknownFd(sd)   == cur = NULL /\ batch[sd] # {} /\ hashmap[sd] = NULL
LostPartner(sd) == OutPart(sd) /\ me(sd) = NULL /\ isDone = 0

activate_exit(sd) ==
    /\ Up /\ (UnknownFd(sd) \/ LostPartner(sd))
    /\ status' = "exit"
    /\ UNCHANGED <<pollVars, netVars, hashmap, isDone, traces, sock, eof, rcvd, dlv>>

\* SIGTERM
exit_handler ==
    /\ Up
    /\ status' = "term"
    /\ UNCHANGED <<pollVars, netVars, hashmap, isDone, traces, sock, eof, rcvd, dlv>>

-----------------------------------------------------------------------------
(* The peers. A connection the proxy has closed takes no part any more. *)

EnvUnchanged == UNCHANGED <<procVars, pollVars, sock, eof, rcvd, dlv>>

Connect(k) ==
    /\ Up /\ peer[<<k, "in">>] = "idle"
    /\ peer' = [peer EXCEPT ![<<k, "in">>] = "open"]
    /\ backlog' = Append(backlog, k)
    /\ EnvUnchanged /\ UNCHANGED <<sent, seen>>

\* The server side answers a connection in progress: accepts or refuses it.
Answer(k, ans) ==
    /\ Up /\ peer[<<k, "out">>] = "syn"
    /\ peer' = [peer EXCEPT ![<<k, "out">>] = ans]
    /\ EnvUnchanged /\ UNCHANGED <<backlog, sent, seen>>

PeerSend(e) ==
    /\ Up /\ peer[e] = "open" /\ e \notin eof
    /\ sent[e] < MaxUnits
    /\ sent' = [sent EXCEPT ![e] = @ + 1]
    /\ EnvUnchanged /\ UNCHANGED <<backlog, peer, seen>>

PeerRead(e) ==
    /\ Up /\ peer[e] = "open"
    /\ seen[e] < Len(dlv[e])
    /\ seen' = [seen EXCEPT ![e] = Len(dlv[e])]
    /\ EnvUnchanged /\ UNCHANGED <<backlog, peer, sent>>

\* close(): a reset instead of an orderly end if something is left unread.
PeerClose(e, how) ==
    /\ Up /\ peer[e] = "open" /\ e \notin eof
    /\ how = "fin" => seen[e] = Len(dlv[e])
    /\ peer' = [peer EXCEPT ![e] = how]
    /\ EnvUnchanged /\ UNCHANGED <<backlog, sent, seen>>

-----------------------------------------------------------------------------
ProxyStep(sd) ==
    \/ activate_read(sd) \/ activate_eof(sd)
    \/ activate_write(sd) \/ activate_close(sd) \/ activate_exit(sd)

\* What the main loop does when it runs; it never waits while events are ready.
Proxy ==
    \/ tproxy_ready
    \/ handleNewConnection \/ handleNewConnection_refused \/ handleNewConnection_nofd
    \/ \E sd \in Fd : ProxyStep(sd)

Failure == exit_handler \/ \E sd \in Fd : activate_nomem(sd)

Peers ==
    \/ \E k \in Session : Connect(k)
    \/ \E k \in Session, ans \in {"open", "rst"} : Answer(k, ans)
    \/ \E e \in Endpoint : PeerSend(e)
    \/ \E e \in Endpoint : PeerRead(e)
    \/ \E e \in Endpoint, how \in {"fin", "rst"} : PeerClose(e, how)

Next == Proxy \/ Failure \/ Peers

Spec == Init /\ [][Next]_vars

-----------------------------------------------------------------------------
TypeOK ==
    /\ hashmap \in [Fd -> partner_s \cup {NULL}]
    /\ isDone \in {0, 1}
    /\ ined \in [Fd \cup {asockin} -> SUBSET Ev]
    /\ batch \in [Fd \cup {asockin} -> SUBSET Ev]
    /\ cur \in Locals \cup {NULL}
    /\ status \in {"up", "exit", "doublefree", "nomem", "term"}
    /\ traces \in Seq(Session \cup {NULL})
    /\ sock \in [Fd -> Endpoint \cup {NULL}]
    /\ backlog \in Seq(Session)
    /\ peer \in [Endpoint -> {"idle", "syn", "open", "fin", "rst"}]
    /\ eof \in SUBSET Endpoint
    /\ sent \in [Endpoint -> Nat]
    /\ rcvd \in [Endpoint -> Nat]
    /\ dlv \in [Endpoint -> Seq(Unit)]
    /\ seen \in [Endpoint -> Nat]

-----------------------------------------------------------------------------
(* Properties of the proxy in any environment. *)

\* The hash table has an entry for exactly the descriptors the proxy holds
\* open: closeConnections removes both, handleNewConnection makes both or none.
HashmapTracksOpenFds == \A f \in Fd : hashmap[f] # NULL <=> sock[f] # NULL

\* No event is registered, or waits in the array epoll_wait filled, for a
\* descriptor without an entry, though descriptors are closed and their numbers
\* used again while a batch is handled: the _exit on an unknown descriptor at
\* the head of _tproxy_activateTProxy is never reached.
EventsHaveEntries ==
    \A f \in Fd : ined[f] # {} \/ batch[f] # {} => hashmap[f] # NULL

\* When a batch holds EPOLLIN for the listening descriptor a client still waits
\* in its queue, so the accept that follows does not block.
AcceptHasClient == "IN" \in batch[asockin] => backlog # <<>>

\* A record's bufsize is the length of what its buffer holds, also after a
\* handleWrite or a read that replaces it: send never runs past the buffer.
BufsizeIsLength ==
    \A f \in Fd : hashmap[f] # NULL => hashmap[f].bufsize = Len(hashmap[f].data)

\* While the proxy holds both ends of a session, their records name each other,
\* whatever numbers were closed and used again in the meantime.
PairsNameEachOther ==
    \A f, g \in Fd :
        sock[f] # NULL /\ sock[g] # NULL /\ sock[g] = Partner(sock[f])
            => hashmap[f].sd = g /\ hashmap[g].sd = f

\* Units that some record still holds for its other end.
Buffered == UNION {{hashmap[f].data[i] : i \in 1 .. hashmap[f].bufsize} :
                      f \in {g \in Fd : hashmap[g] # NULL}}

\* Whatever is lost or goes astray, handleWrite never sends a unit twice: it
\* clears bufsize, and recv never returns the same bytes again.
DeliveredAtMostOnce ==
    \A e1, e2 \in Endpoint : \A i \in DOMAIN dlv[e1], j \in DOMAIN dlv[e2] :
        /\ dlv[e1][i] = dlv[e2][j] => e1 = e2 /\ i = j
        /\ dlv[e1][i] \notin Buffered

\* A session is reported to the tracer once when it is accepted, never before,
\* and no server is contacted for a session that was not reported.
TracedOnceAccepted ==
    \A k \in Session :
        Cardinality({i \in DOMAIN traces : traces[i] = k}) =
            IF peer[<<k, "in">>] = "idle" \/ \E i \in DOMAIN backlog : backlog[i] = k
            THEN 0 ELSE 1

\* Units of e that reach its partner arrive in the order e sent them, with
\* nothing of another session between; some may be missing.
Sifted(e) ==
    \A i \in DOMAIN dlv[e] :
        /\ dlv[e][i][1] = Partner(e)
        /\ \A j \in 1 .. i - 1 : dlv[e][j][2] < dlv[e][i][2]

\* No peer is sent anything but what its own partner sent, in that order.
OnlyFromPartner == \A e \in Endpoint : Sifted(e)

-----------------------------------------------------------------------------
(* What the comments and the README promise of every environment. *)

\* tproxy.c:509-511: when the other end is gone this end is closed too. The
\* process does not end because one connection did.
GonePartnerNeverExits == status # "exit"

\* tproxy.c:495-496: after an error in the read the connection is closed; its
\* buffer is not freed twice.
NoDoubleFree == status # "doublefree"

\* The unit range 1..n of peer e, in order.
UnitsUpTo(e, n) == [i \in 1 .. n |-> <<e, i>>]

\* What the record of the descriptor connected to e holds for e's partner.
HeldFrom(e) ==
    IF \E f \in Fd : sock[f] = e
    THEN LET f == CHOOSE f \in Fd : sock[f] = e
         IN  SubSeq(hashmap[f].data, 1, hashmap[f].bufsize)
    ELSE <<>>

\* While both ends of a session are open, everything the proxy read from one
\* was sent to the other or is still held for it, in order and complete.
NothingLost ==
    \A e \in Endpoint :
        (\E f, g \in Fd : sock[f] = e /\ sock[g] = Partner(e)) /\ peer[Partner(e)] = "open"
            => dlv[Partner(e)] \o HeldFrom(e) = UnitsUpTo(e, rcvd[e])
=============================================================================
