---------------------------- MODULE TProxyProofs ----------------------------
(***************************************************************************)
(* What TLAPS proves of TProxy, for every set of sessions and descriptors, *)
(* every page and buffer size, and every environment.                      *)
(***************************************************************************)
EXTENDS TProxy, SequenceTheorems, TLAPS

\* The inductive invariant. The table, the sockets and the registered events
\* are kept in step by the same handlers, so none of the parts is inductive
\* without the others.
IInv ==
    /\ TypeOK
    /\ HashmapTracksOpenFds
    /\ EventsHaveEntries
    /\ AcceptHasClient
    /\ BufsizeIsLength

\* The initial state satisfies every part of the invariant: nothing is open.
LEMMA InitIInv == Init => IInv
  BY ConstAssumption, NullAssumption
  DEF Init, IInv, TypeOK, HashmapTracksOpenFds, EventsHaveEntries,
      AcceptHasClient, BufsizeIsLength, Ev

\* epoll_wait reports events only for what is registered and open.
LEMMA ReadyType ==
    ASSUME IInv, NEW f \in Fd \cup {asockin}
    PROVE  /\ Ready(f) \in SUBSET Ev
           /\ f \in Fd /\ Ready(f) # {} => hashmap[f] # NULL
           /\ "IN" \in Ready(asockin) => backlog # <<>>
  BY ConstAssumption
  DEF IInv, TypeOK, HashmapTracksOpenFds, Ready, Ev, asockin

\* setEPOLL and resetEPOLL keep the epoll set well-formed.
LEMMA EpollType ==
    ASSUME NEW ed \in [Fd \cup {asockin} -> SUBSET Ev], NEW sd \in Fd,
           NEW events \in SUBSET Ev
    PROVE  /\ setEPOLL(ed, sd, events) \in [Fd \cup {asockin} -> SUBSET Ev]
           /\ resetEPOLL(ed, sd) \in [Fd \cup {asockin} -> SUBSET Ev]
  BY DEF setEPOLL, resetEPOLL

\* closeConnections keeps the invariant, called from either part of an
\* activation: it removes the entry of exactly the descriptor it closes.
LEMMA CloseIInv ==
    ASSUME IInv, NEW sd \in Fd, NEW rec,
           NEW ed \in [Fd \cup {asockin} -> SUBSET Ev],
           \A f \in Fd : ed[f] # {} => hashmap[f] # NULL,
           closeConnections(ed, sd, rec),
           batch' = [batch EXCEPT ![sd] = {}],
           cur' \in Locals \cup {NULL},
           UNCHANGED <<netVars, traces, rcvd, dlv>>
    PROVE  IInv'
<1> USE ConstAssumption, NullAssumption
<1>1. TypeOK'
  BY DEF IInv, TypeOK, closeConnections, resetEPOLL, removeEntry, markDone,
         StatusAfterFree, netVars
<1>2. HashmapTracksOpenFds' /\ BufsizeIsLength'
  BY DEF IInv, TypeOK, closeConnections, removeEntry, HashmapTracksOpenFds,
         BufsizeIsLength
<1>3. EventsHaveEntries'
  BY DEF IInv, TypeOK, closeConnections, removeEntry, resetEPOLL, EventsHaveEntries
<1>4. AcceptHasClient'
  BY DEF IInv, TypeOK, AcceptHasClient, netVars, asockin
<1> QED BY <1>1, <1>2, <1>3, <1>4 DEF IInv

\* Every step of the proxy and of the peers keeps the invariant.
LEMMA NextIInv == IInv /\ [Next]_vars => IInv'
<1> SUFFICES ASSUME IInv, [Next]_vars PROVE IInv'
  OBVIOUS
<1> USE ConstAssumption, NullAssumption
<1>1. CASE tproxy_ready
  <2>1. TypeOK'
    BY <1>1, ReadyType DEF tproxy_ready, IInv, TypeOK, procVars, netVars
  <2>2. HashmapTracksOpenFds' /\ BufsizeIsLength'
    BY <1>1 DEF tproxy_ready, IInv, HashmapTracksOpenFds, BufsizeIsLength, procVars
  <2>3. EventsHaveEntries' /\ AcceptHasClient'
    BY <1>1, ReadyType
    DEF tproxy_ready, IInv, TypeOK, EventsHaveEntries, AcceptHasClient, procVars,
        netVars, asockin
  <2> QED BY <2>1, <2>2, <2>3 DEF IInv
<1>2. CASE handleNewConnection
  <2>1. backlog # <<>> /\ backlog \in Seq(Session)
    BY <1>2 DEF handleNewConnection, IInv, TypeOK, AcceptHasClient
  <2>2. Head(backlog) \in Session /\ Tail(backlog) \in Seq(Session)
    BY <2>1
  <2>3. <<Head(backlog), "in">> \in Endpoint /\ <<Head(backlog), "out">> \in Endpoint
    BY <2>2 DEF Endpoint
  <2>4. PICK cin, cout \in Fd :
         /\ cin \in Free /\ cout \in Free \ {cin}
         /\ sock' = [sock EXCEPT ![cin] = <<Head(backlog), "in">>,
                                 ![cout] = <<Head(backlog), "out">>]
         /\ hashmap' = NewEntries(cin, cout)
         /\ ined' = [ined EXCEPT ![cin] = {"IN"}, ![cout] = {"IN"}]
    BY <1>2 DEF handleNewConnection, LowestFree
  <2>5. NewPartner(cin) \in partner_s /\ NewPartner(cout) \in partner_s
    BY DEF NewPartner, partner_s
  <2>6. TypeOK'
    <3>1. hashmap' \in [Fd -> partner_s \cup {NULL}]
      BY <2>4, <2>5 DEF NewEntries, IInv, TypeOK
    <3>2. sock' \in [Fd -> Endpoint \cup {NULL}]
      BY <2>4, <2>3 DEF IInv, TypeOK
    <3>3. traces' \in Seq(Session \cup {NULL})
      BY <1>2, <2>2 DEF handleNewConnection, udpTrace, IInv, TypeOK
    <3>4. /\ ined' \in [Fd \cup {asockin} -> SUBSET Ev]
          /\ batch' \in [Fd \cup {asockin} -> SUBSET Ev]
      BY <1>2, <2>4 DEF handleNewConnection, IInv, TypeOK, Ev
    <3>5. peer' \in [Endpoint -> {"idle", "syn", "open", "fin", "rst"}]
      BY <1>2, <2>3 DEF handleNewConnection, IInv, TypeOK
    <3> QED
      BY <1>2, <2>2, <3>1, <3>2, <3>3, <3>4, <3>5
      DEF handleNewConnection, IInv, TypeOK
  <2>7. HashmapTracksOpenFds'
    BY <2>3, <2>4, <2>5 DEF HashmapTracksOpenFds, IInv, TypeOK, NewEntries
  <2>8. EventsHaveEntries'
    BY <1>2, <2>4, <2>5
    DEF handleNewConnection, EventsHaveEntries, IInv, TypeOK, NewEntries, asockin
  <2>9. AcceptHasClient'
    BY <1>2 DEF handleNewConnection, AcceptHasClient, IInv, TypeOK
  <2>10. BufsizeIsLength'
    BY <2>4 DEF BufsizeIsLength, IInv, TypeOK, NewEntries, NewPartner
  <2> QED BY <2>6, <2>7, <2>8, <2>9, <2>10 DEF IInv
<1>3. CASE handleNewConnection_refused
  <2>1. Head(backlog) \in Session /\ Tail(backlog) \in Seq(Session)
    BY <1>3 DEF handleNewConnection_refused, IInv, TypeOK, AcceptHasClient
  <2>2. TypeOK'
    BY <1>3, <2>1
    DEF handleNewConnection_refused, udpTrace, IInv, TypeOK, Endpoint
  <2>3. HashmapTracksOpenFds' /\ BufsizeIsLength'
    BY <1>3
    DEF handleNewConnection_refused, IInv, HashmapTracksOpenFds, BufsizeIsLength
  <2>4. EventsHaveEntries' /\ AcceptHasClient'
    BY <1>3
    DEF handleNewConnection_refused, IInv, TypeOK, EventsHaveEntries,
        AcceptHasClient, asockin
  <2> QED BY <2>2, <2>3, <2>4 DEF IInv
<1>4. CASE handleNewConnection_nofd
  <2>1. TypeOK'
    BY <1>4 DEF handleNewConnection_nofd, udpTrace, IInv, TypeOK
  <2>2. HashmapTracksOpenFds' /\ BufsizeIsLength'
    BY <1>4 DEF handleNewConnection_nofd, IInv, HashmapTracksOpenFds, BufsizeIsLength
  <2>3. EventsHaveEntries' /\ AcceptHasClient'
    BY <1>4
    DEF handleNewConnection_nofd, IInv, TypeOK, EventsHaveEntries,
        AcceptHasClient, asockin
  <2> QED BY <2>1, <2>2, <2>3 DEF IInv
<1>5. ASSUME NEW sd \in Fd, activate_read(sd) PROVE IInv'
  <2> DEFINE e   == sock[sd]
             n   == Least(Avail(e), PageSize)
             rec == [sd |-> hashmap[sd].sd, bufsize |-> n,
                     buf |-> "live", data |-> Received(e, n)]
  <2>1. e \in Endpoint /\ hashmap[sd] \in partner_s
    BY <1>5 DEF activate_read, InPart, IInv, TypeOK, HashmapTracksOpenFds
  <2>2. n \in Nat /\ Len(Received(e, n)) = n /\ Received(e, n) \in Seq(Unit)
    <3>1. n \in Nat /\ rcvd[e] \in Nat
      BY <1>5, <2>1 DEF activate_read, Avail, Least, IInv, TypeOK
    <3>2. \A i \in 1 .. n : <<e, rcvd[e] + i>> \in Unit
      BY <3>1, <2>1 DEF Unit
    <3> HIDE DEF n, e
    <3> QED BY <3>1, <3>2 DEF Received
  <2>3. /\ rec \in partner_s
        /\ [sd |-> sd, partner |-> rec] \in Locals
    <3> HIDE DEF n, e
    <3> QED BY <2>1, <2>2 DEF partner_s, Locals
  <2>4. /\ hashmap' = [hashmap EXCEPT ![sd] = rec]
        /\ rcvd' = [rcvd EXCEPT ![e] = rcvd[e] + n]
        /\ ined' = resetEPOLL(setEPOLL(ined, rec.sd, Ev), sd)
        /\ ThenOut(sd, rec)
        /\ UNCHANGED <<netVars, isDone, status, traces, sock, eof, dlv>>
    BY <1>5 DEF activate_read
  <2>5. rec.sd \in Fd
    BY <2>1 DEF partner_s
  <2> HIDE DEF rec, n, e
  <2>6. TypeOK'
    <3>1. /\ hashmap' \in [Fd -> partner_s \cup {NULL}]
          /\ rcvd' \in [Endpoint -> Nat]
      BY <2>1, <2>2, <2>3, <2>4 DEF IInv, TypeOK
    <3>2. ined' \in [Fd \cup {asockin} -> SUBSET Ev]
      BY <2>4, <2>5, EpollType DEF IInv, TypeOK
    <3>3. /\ batch' \in [Fd \cup {asockin} -> SUBSET Ev]
          /\ cur' \in Locals \cup {NULL}
      BY <2>3, <2>4 DEF ThenOut, IInv, TypeOK
    <3> QED BY <2>4, <3>1, <3>2, <3>3 DEF IInv, TypeOK, netVars
  <2>7. HashmapTracksOpenFds'
    BY <1>5, <2>3, <2>4
    DEF activate_read, InPart, IInv, TypeOK, HashmapTracksOpenFds
  <2>8. EventsHaveEntries'
    BY <1>5, <2>3, <2>4, <2>5, <2>7
    DEF ThenOut, setEPOLL, resetEPOLL, IInv, TypeOK, EventsHaveEntries,
        HashmapTracksOpenFds
  <2>9. AcceptHasClient'
    BY <2>4 DEF ThenOut, IInv, TypeOK, AcceptHasClient, netVars, asockin
  <2>10. BufsizeIsLength'
    <3>1. rec.bufsize = Len(rec.data)
      BY <2>2 DEF rec
    <3> QED BY <2>4, <3>1 DEF IInv, TypeOK, BufsizeIsLength
  <2> QED BY <2>6, <2>7, <2>8, <2>9, <2>10 DEF IInv
<1>6. ASSUME NEW sd \in Fd, activate_eof(sd) PROVE IInv'
  <2> DEFINE size     == IF peer[sock[sd]] = "rst" THEN -1 ELSE 0
             rec(buf) == [sd |-> hashmap[sd].sd, bufsize |-> size,
                          buf |-> buf, data |-> <<>>]
             other    == hashmap[sd].sd
             last     == rec(IF size # 0 THEN "freed" ELSE "live")
  <2>1. other \in Fd
    BY <1>6 DEF activate_eof, InPart, IInv, TypeOK, partner_s
  <2>2. [sd |-> sd, partner |-> last] \in Locals
    BY <2>1 DEF Locals
  <2>3. /\ closeConnections(setEPOLL(ined, other, Ev), sd, rec("live"))
        /\ ThenOut(sd, last)
        /\ UNCHANGED <<netVars, traces, rcvd, dlv>>
    BY <1>6 DEF activate_eof
  <2> HIDE DEF other, last
  <2>4. setEPOLL(ined, other, Ev) \in [Fd \cup {asockin} -> SUBSET Ev]
    BY <2>1, EpollType DEF IInv, TypeOK
  <2>5. \A f \in Fd : setEPOLL(ined, other, Ev)[f] # {} => hashmap[f] # NULL
    BY <2>1 DEF setEPOLL, IInv, TypeOK, HashmapTracksOpenFds, EventsHaveEntries
  <2>6. batch' = [batch EXCEPT ![sd] = {}] /\ cur' \in Locals \cup {NULL}
    BY <2>2, <2>3 DEF ThenOut
  <2> QED BY <2>3, <2>4, <2>5, <2>6, CloseIInv
<1>7. ASSUME NEW sd \in Fd, activate_write(sd) PROVE IInv'
  <2> DEFINE outsd == partner(sd).sd
             rec   == me(sd)
             n     == Accepted(sd, rec.bufsize)
  <2>1. outsd \in Fd
    BY <1>7
    DEF activate_write, OutPart, partner, IInv, TypeOK, partner_s, Locals
  <2>2. rec \in partner_s /\ rec = hashmap[outsd] /\ rec.bufsize = Len(rec.data)
    BY <1>7, <2>1 DEF activate_write, me, IInv, TypeOK, BufsizeIsLength
  <2>3. Flushed(rec) \in partner_s /\ Flushed(rec).bufsize = Len(Flushed(rec).data)
    BY <2>2 DEF Flushed, partner_s
  <2>4. dlv' \in [Endpoint -> Seq(Unit)]
    <3>1. CASE n > 0
      <4>1. sock[sd] \in Endpoint
        BY <3>1 DEF Accepted, IInv, TypeOK
      <4>2. n \in 1 .. Len(rec.data)
        <5>1. Len(dlv[sock[sd]]) \in Nat /\ seen[sock[sd]] \in Nat
          BY <4>1 DEF IInv, TypeOK
        <5>2. Space(sock[sd]) \in Int /\ rec.bufsize \in Nat
          BY <2>2, <5>1 DEF Space, partner_s
        <5> QED BY <3>1, <2>2, <5>2 DEF Accepted, Least
      <4>3. SubSeq(rec.data, 1, n) \in Seq(Unit)
        <5>1. rec.data \in Seq(Unit)
          BY <2>2 DEF partner_s
        <5> HIDE DEF n, rec
        <5> QED BY <4>2, <5>1, SubSeqProperties
      <4>4. dlv' = [dlv EXCEPT ![sock[sd]] = dlv[sock[sd]] \o SubSeq(rec.data, 1, n)]
        BY <1>7, <3>1 DEF activate_write, handleWrite
      <4> HIDE DEF n, rec
      <4>5. dlv[sock[sd]] \o SubSeq(rec.data, 1, n) \in Seq(Unit)
        BY <4>1, <4>3 DEF IInv, TypeOK
      <4> QED BY <4>1, <4>4, <4>5 DEF IInv, TypeOK
    <3>2. CASE ~(n > 0)
      BY <1>7, <3>2 DEF activate_write, handleWrite, IInv, TypeOK
    <3> QED BY <3>1, <3>2
  <2>5. /\ hashmap' = [hashmap EXCEPT ![outsd] = Flushed(rec)]
        /\ ined' = setEPOLL(setEPOLL(ined, sd, {"IN"}), outsd, {"IN"})
        /\ status' = StatusAfterFree(rec.buf)
        /\ batch' = [batch EXCEPT ![sd] = {}] /\ cur' = NULL
        /\ UNCHANGED <<netVars, isDone, traces, sock, eof, rcvd>>
    BY <1>7 DEF activate_write, handleWrite, OutDone
  <2> HIDE DEF outsd, rec, n
  <2>6. TypeOK'
    <3>1. {"IN"} \in SUBSET Ev
      BY DEF Ev
    <3>2. ined' \in [Fd \cup {asockin} -> SUBSET Ev]
      BY <2>1, <2>5, <3>1, EpollType DEF IInv, TypeOK
    <3>3. /\ hashmap' \in [Fd -> partner_s \cup {NULL}]
          /\ batch' \in [Fd \cup {asockin} -> SUBSET Ev]
          /\ status' \in {"up", "exit", "doublefree", "nomem", "term"}
      BY <2>1, <2>3, <2>5 DEF StatusAfterFree, IInv, TypeOK
    <3> QED BY <2>4, <2>5, <3>2, <3>3 DEF IInv, TypeOK, netVars
  <2>7. HashmapTracksOpenFds'
    BY <2>1, <2>2, <2>3, <2>5 DEF IInv, TypeOK, HashmapTracksOpenFds
  <2>8. EventsHaveEntries'
    BY <1>7, <2>1, <2>3, <2>5, <2>7
    DEF setEPOLL, IInv, TypeOK, EventsHaveEntries, HashmapTracksOpenFds
  <2>9. AcceptHasClient'
    BY <2>5 DEF IInv, TypeOK, AcceptHasClient, netVars, asockin
  <2>10. BufsizeIsLength'
    BY <2>1, <2>3, <2>5 DEF IInv, TypeOK, BufsizeIsLength
  <2> QED BY <2>6, <2>7, <2>8, <2>9, <2>10 DEF IInv
<1>8. ASSUME NEW sd \in Fd, activate_close(sd) PROVE IInv'
  <2>1. /\ closeConnections(ined, sd, partner(sd))
        /\ batch' = [batch EXCEPT ![sd] = {}] /\ cur' \in Locals \cup {NULL}
        /\ UNCHANGED <<netVars, traces, rcvd, dlv>>
    BY <1>8 DEF activate_close, OutDone
  <2>2. \A f \in Fd : ined[f] # {} => hashmap[f] # NULL
    BY DEF IInv, EventsHaveEntries
  <2> QED BY <2>1, <2>2, CloseIInv DEF IInv, TypeOK
<1>9. ASSUME NEW sd \in Fd, activate_exit(sd) \/ activate_nomem(sd) PROVE IInv'
  BY <1>9
  DEF activate_exit, activate_nomem, pollVars, netVars, IInv, TypeOK,
      HashmapTracksOpenFds, EventsHaveEntries, AcceptHasClient, BufsizeIsLength
<1>10. CASE exit_handler
  BY <1>10
  DEF exit_handler, pollVars, netVars, IInv, TypeOK,
      HashmapTracksOpenFds, EventsHaveEntries, AcceptHasClient, BufsizeIsLength
<1>11. CASE Peers
  <2>1. TypeOK' /\ AcceptHasClient'
    <3>1. ASSUME NEW k \in Session, Connect(k) PROVE TypeOK' /\ AcceptHasClient'
      <4>1. <<k, "in">> \in Endpoint
        BY DEF Endpoint
      <4>2. Append(backlog, k) \in Seq(Session) /\ Append(backlog, k) # <<>>
        <5>1. backlog \in Seq(Session) /\ Len(backlog) \in Nat
          BY DEF IInv, TypeOK
        <5>2. /\ Append(backlog, k) \in Seq(Session)
              /\ Len(Append(backlog, k)) = Len(backlog) + 1
          BY <5>1, AppendProperties
        <5>3. Len(Append(backlog, k)) # 0
          BY <5>1, <5>2
        <5> QED BY <5>2, <5>3
      <4> QED
        BY <3>1, <4>1, <4>2
        DEF Connect, EnvUnchanged, procVars, pollVars, IInv, TypeOK, AcceptHasClient
    <3>2. ASSUME NEW k \in Session, NEW ans \in {"open", "rst"}, Answer(k, ans)
          PROVE  TypeOK' /\ AcceptHasClient'
      BY <3>2
      DEF Answer, EnvUnchanged, procVars, pollVars, IInv, TypeOK, AcceptHasClient
    <3>3. ASSUME NEW e \in Endpoint, PeerSend(e) PROVE TypeOK' /\ AcceptHasClient'
      BY <3>3
      DEF PeerSend, EnvUnchanged, procVars, pollVars, IInv, TypeOK, AcceptHasClient
    <3>4. ASSUME NEW e \in Endpoint, PeerRead(e) PROVE TypeOK' /\ AcceptHasClient'
      BY <3>4
      DEF PeerRead, EnvUnchanged, procVars, pollVars, IInv, TypeOK, AcceptHasClient
    <3>5. ASSUME NEW e \in Endpoint, NEW how \in {"fin", "rst"}, PeerClose(e, how)
          PROVE  TypeOK' /\ AcceptHasClient'
      BY <3>5
      DEF PeerClose, EnvUnchanged, procVars, pollVars, IInv, TypeOK, AcceptHasClient
    <3> QED BY <1>11, <3>1, <3>2, <3>3, <3>4, <3>5 DEF Peers
  <2>2. EnvUnchanged
    BY <1>11 DEF Peers, Connect, Answer, PeerSend, PeerRead, PeerClose
  <2>3. HashmapTracksOpenFds' /\ EventsHaveEntries' /\ BufsizeIsLength'
    BY <2>2
    DEF EnvUnchanged, procVars, pollVars, IInv, HashmapTracksOpenFds,
        EventsHaveEntries, BufsizeIsLength
  <2> QED BY <2>1, <2>3 DEF IInv
<1>12. CASE UNCHANGED vars
  BY <1>12
  DEF vars, IInv, TypeOK, HashmapTracksOpenFds, EventsHaveEntries,
      AcceptHasClient, BufsizeIsLength
<1> QED
  BY <1>1, <1>2, <1>3, <1>4, <1>5, <1>6, <1>7, <1>8, <1>9, <1>10, <1>11, <1>12
  DEF Next, Proxy, ProxyStep, Failure

\* The inductive invariant holds in every reachable state.
LEMMA SpecIInv == Spec => []IInv
  BY InitIInv, NextIInv, PTL DEF Spec

\* The variables of tproxy.c and of its environment keep their types; a record
\* in the table never has the -1 of a failed recv as its bufsize.
THEOREM TypeCorrect == Spec => []TypeOK
<1>1. IInv => TypeOK
  BY DEF IInv
<1> QED BY <1>1, SpecIInv, PTL

\* The hash table and the open descriptors always agree, in any environment.
THEOREM TableTracksDescriptors == Spec => []HashmapTracksOpenFds
<1>1. IInv => HashmapTracksOpenFds
  BY DEF IInv
<1> QED BY <1>1, SpecIInv, PTL

\* The _exit of _tproxy_activateTProxy on an unknown descriptor is dead code:
\* no event is ever collected or handled for a descriptor without an entry.
THEOREM NoEventForUnknownFd == Spec => [](EventsHaveEntries /\ AcceptHasClient)
<1>1. IInv => EventsHaveEntries /\ AcceptHasClient
  BY DEF IInv
<1> QED BY <1>1, SpecIInv, PTL

\* send is never asked for more than the buffer holds.
THEOREM SendWithinBuffer == Spec => []BufsizeIsLength
<1>1. IInv => BufsizeIsLength
  BY DEF IInv
<1> QED BY <1>1, SpecIInv, PTL
=============================================================================
