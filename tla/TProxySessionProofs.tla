------------------------ MODULE TProxySessionProofs ------------------------
(***************************************************************************)
(* What TLAPS proves of the sessions of TProxy and of the data it carries: *)
(* which session is traced, which descriptors belong together, and that no *)
(* unit is sent twice, in every environment; and what more holds while no  *)
(* client is accepted between the two closes of another session.           *)
(***************************************************************************)
EXTENDS TProxyProofs, TProxyTidy, FiniteSetTheorems

Queued(k) == \E i \in DOMAIN backlog : backlog[i] = k
Traced(k) == \E i \in DOMAIN traces : traces[i] = k

\* The life of a session: it is idle, then waits in the listen queue once, and
\* is then traced once. Only a traced session has descriptors, at most one for
\* each of its ends: this is what makes the ends of a new session new.
SessInv ==
    /\ \A i, j \in DOMAIN backlog : backlog[i] = backlog[j] => i = j
    /\ \A i \in DOMAIN backlog : peer[<<backlog[i], "in">>] # "idle"
    /\ \A i, j \in DOMAIN traces : traces[i] = traces[j] /\ traces[i] # NULL => i = j
    /\ \A k \in Session : Traced(k) <=> peer[<<k, "in">>] # "idle" /\ ~ Queued(k)
    /\ \A f \in Fd : sock[f] # NULL => Traced(sock[f][1])
    /\ \A f, g \in Fd : sock[f] = sock[g] /\ sock[f] # NULL => f = g

Held(f) == hashmap[f] # NULL

\* The place of every unit: what was sent on or is held was received, and no
\* unit is in two places. It is the records' contents that have to be apart
\* from each other, too, for what is sent on to stay apart from them.
DlvReceived ==
    \A e \in Endpoint : \A i \in DOMAIN dlv[e] : dlv[e][i][2] <= rcvd[dlv[e][i][1]]
HeldReceived ==
    \A f \in Fd : Held(f) => \A i \in DOMAIN hashmap[f].data :
        hashmap[f].data[i][2] <= rcvd[hashmap[f].data[i][1]]
DlvOnce ==
    \A e1, e2 \in Endpoint : \A i \in DOMAIN dlv[e1], j \in DOMAIN dlv[e2] :
        dlv[e1][i] = dlv[e2][j] => e1 = e2 /\ i = j
HeldOnce ==
    \A f, g \in Fd : Held(f) /\ Held(g) =>
        \A i \in DOMAIN hashmap[f].data, j \in DOMAIN hashmap[g].data :
            hashmap[f].data[i] = hashmap[g].data[j] => f = g /\ i = j
DlvNotHeld ==
    \A e \in Endpoint, f \in Fd : Held(f) =>
        \A i \in DOMAIN dlv[e], j \in DOMAIN hashmap[f].data :
            dlv[e][i] # hashmap[f].data[j]

DataInv == DlvReceived /\ HeldReceived /\ DlvOnce /\ HeldOnce /\ DlvNotHeld

\* A proxy that serves one session in its life.
OneSession == \A k, l \in Session : k = l

\* A client waits to be accepted only while no session is half closed.
TidyAccepts == backlog # <<>> => Whole

\* What the descriptor numbers kept in records and in the locals of an
\* activation then mean: the other end, or nothing.
TidyNames ==
    \A f \in Fd : sock[f] # NULL /\ sock[hashmap[f].sd] # NULL
        => sock[hashmap[f].sd] = Partner(sock[f])
TidyCur == cur # NULL /\ sock[cur.sd] # NULL => cur.partner.sd = hashmap[cur.sd].sd
\* While isDone is 0 each end's other end is there.
TidyDone ==
    isDone = 0 =>
        /\ \A f \in Fd : sock[f] # NULL => hashmap[hashmap[f].sd] # NULL
        /\ cur # NULL => hashmap[cur.partner.sd] # NULL
\* A record holds its own peer's units, newer than all the other end got.
TidyHeld ==
    \A f \in Fd : Held(f) => \A i \in DOMAIN hashmap[f].data :
        /\ hashmap[f].data[i][1] = sock[f]
        /\ \A j \in 1 .. i - 1 : hashmap[f].data[j][2] < hashmap[f].data[i][2]
        /\ \A j \in DOMAIN dlv[Partner(sock[f])] :
              dlv[Partner(sock[f])][j][2] < hashmap[f].data[i][2]

TidyInv ==
    /\ TidyNames /\ TidyCur /\ TidyDone /\ TidyHeld
    /\ OnlyFromPartner /\ GonePartnerNeverExits

-----------------------------------------------------------------------------
(* Sequences: the listen queue loses its head, the traces get a new end. *)

\* What is left of a queue without its head.
LEMMA TailIs ==
    ASSUME NEW S, NEW s \in Seq(S), s # <<>>
    PROVE  /\ Len(s) \in Nat \ {0} /\ DOMAIN s = 1 .. Len(s)
           /\ Head(s) = s[1] /\ Head(s) \in S
           /\ Tail(s) \in Seq(S)
           /\ DOMAIN Tail(s) = 1 .. Len(s) - 1
           /\ \A i \in 1 .. Len(s) - 1 : Tail(s)[i] = s[i + 1]
  OBVIOUS

\* A sequence with a new end.
LEMMA AppendIs ==
    ASSUME NEW S, NEW s \in Seq(S), NEW x \in S
    PROVE  /\ Len(s) \in Nat /\ DOMAIN s = 1 .. Len(s)
           /\ Append(s, x) \in Seq(S)
           /\ DOMAIN Append(s, x) = 1 .. Len(s) + 1
           /\ \A i \in 1 .. Len(s) : Append(s, x)[i] = s[i]
           /\ Append(s, x)[Len(s) + 1] = x
  OBVIOUS

-----------------------------------------------------------------------------
(* Sessions. *)

\* At the start no session waits, was traced or is open.
LEMMA InitSess == Init => SessInv
  BY ConstAssumption, NullAssumption DEF Init, SessInv, Queued, Traced, Endpoint

\* Most steps leave the queue and the traces alone and open nothing.
LEMMA SessFrame ==
    ASSUME SessInv, backlog' = backlog, traces' = traces,
           \A f \in Fd : sock'[f] = sock[f] \/ sock'[f] = NULL,
           \A k \in Session : peer'[<<k, "in">>] = "idle" <=> peer[<<k, "in">>] = "idle",
           TypeOK
    PROVE  SessInv'
<1>1. \A k : (Queued(k)' <=> Queued(k)) /\ (Traced(k)' <=> Traced(k))
  BY DEF Queued, Traced
<1>2. \A i \in DOMAIN backlog : backlog[i] \in Session
  BY DEF TypeOK
<1> QED BY <1>1, <1>2 DEF SessInv

\* The head of the queue is accepted and traced, and may get descriptors.
LEMMA SessAccept ==
    ASSUME IInv, SessInv, backlog # <<>>, NEW k, k = Head(backlog),
           backlog' = Tail(backlog), udpTrace(k),
           \A f \in Fd : sock'[f] \in {NULL, sock[f], <<k, "in">>, <<k, "out">>},
           \A f, g \in Fd : /\ sock'[f] = sock'[g]
                            /\ sock'[f] \in {<<k, "in">>, <<k, "out">>}
                            => f = g,
           \A l \in Session : peer'[<<l, "in">>] = "idle" <=> peer[<<l, "in">>] = "idle"
    PROVE  SessInv'
<1> USE NullAssumption
<1>1. /\ backlog \in Seq(Session) /\ traces \in Seq(Session \cup {NULL})
      /\ sock \in [Fd -> Endpoint \cup {NULL}]
  BY DEF IInv, TypeOK
<1>2. /\ Len(backlog) \in Nat \ {0} /\ DOMAIN backlog = 1 .. Len(backlog)
      /\ k = backlog[1] /\ k \in Session
      /\ DOMAIN backlog' = 1 .. Len(backlog) - 1
      /\ \A i \in DOMAIN backlog' : backlog'[i] = backlog[i + 1]
      /\ \A i \in DOMAIN backlog : backlog[i] \in Session
  BY <1>1, TailIs
<1>3. /\ Len(traces) \in Nat /\ DOMAIN traces = 1 .. Len(traces)
      /\ DOMAIN traces' = 1 .. Len(traces) + 1
      /\ \A i \in DOMAIN traces : traces'[i] = traces[i]
      /\ traces'[Len(traces) + 1] = k
  <2>1. traces' = Append(traces, k) /\ k \in Session \cup {NULL}
    BY <1>2 DEF udpTrace
  <2> QED BY <1>1, <2>1, AppendIs
<1>4. Queued(k) /\ ~ Queued(k)' /\ \A l \in Session : l # k => (Queued(l)' <=> Queued(l))
  <2>1. Queued(k)
    BY <1>2 DEF Queued
  <2>2. ~ Queued(k)'
    BY <1>2 DEF Queued, SessInv
  <2>3. ASSUME NEW l \in Session, l # k PROVE Queued(l)' <=> Queued(l)
    <3>1. ASSUME NEW i \in DOMAIN backlog, backlog[i] = l PROVE Queued(l)'
      <4>1. i - 1 \in DOMAIN backlog' /\ backlog'[i - 1] = l
        BY <1>2, <2>3, <3>1
      <4> QED BY <4>1 DEF Queued
    <3> QED BY <1>2, <3>1 DEF Queued
  <2> QED BY <2>1, <2>2, <2>3
<1>5. ~ Traced(k) /\ Traced(k)' /\ \A l : l # k => (Traced(l)' <=> Traced(l))
  <2>1. ~ Traced(k)
    BY <1>2, <1>4 DEF SessInv
  <2>2. Traced(k)'
    BY <1>3 DEF Traced
  <2>3. ASSUME NEW l, l # k PROVE Traced(l)' <=> Traced(l)
    BY <1>3, <2>3 DEF Traced
  <2> QED BY <2>1, <2>2, <2>3
<1>6. \A i, j \in DOMAIN backlog' : backlog'[i] = backlog'[j] => i = j
  BY <1>2 DEF SessInv
<1>7. \A i \in DOMAIN backlog' : peer'[<<backlog'[i], "in">>] # "idle"
  BY <1>2 DEF SessInv
<1>8. \A i, j \in DOMAIN traces' : traces'[i] = traces'[j] /\ traces'[i] # NULL => i = j
  BY <1>2, <1>3, <1>5 DEF SessInv, Traced
<1>9. \A l \in Session : Traced(l)' <=> peer'[<<l, "in">>] # "idle" /\ ~ Queued(l)'
  <2>1. ASSUME NEW l \in Session, l = k
        PROVE  Traced(l)' <=> peer'[<<l, "in">>] # "idle" /\ ~ Queued(l)'
    BY <1>2, <1>4, <1>5, <2>1 DEF SessInv
  <2>2. ASSUME NEW l \in Session, l # k
        PROVE  Traced(l)' <=> peer'[<<l, "in">>] # "idle" /\ ~ Queued(l)'
    BY <1>4, <1>5, <2>2 DEF SessInv
  <2> QED BY <2>1, <2>2
<1>10. \A f \in Fd : sock'[f] # NULL =>
          sock'[f] = sock[f] \/ sock'[f] \in {<<k, "in">>, <<k, "out">>}
  OBVIOUS
<1>11. ASSUME NEW f \in Fd, sock'[f] # NULL PROVE Traced(sock[f][1])'
  <2>1. CASE sock'[f] = sock[f]
    <3>1. PICK i \in DOMAIN traces : traces[i] = sock[f][1]
      BY <1>11, <2>1 DEF SessInv, Traced
    <3>2. i \in DOMAIN traces' /\ traces'[i] = sock'[f][1]
      BY <1>3, <2>1, <3>1
    <3> QED BY <3>2 DEF Traced
  <2>2. CASE sock'[f] \in {<<k, "in">>, <<k, "out">>}
    <3>1. sock'[f][1] = k /\ Len(traces) + 1 \in DOMAIN traces'
      BY <1>3, <2>2
    <3> QED BY <1>3, <3>1 DEF Traced
  <2> QED BY <1>10, <1>11, <2>1, <2>2
<1>12. \A f, g \in Fd : sock'[f] = sock'[g] /\ sock'[f] # NULL => f = g
  BY <1>10 DEF SessInv
<1> QED BY <1>6, <1>7, <1>8, <1>9, <1>11, <1>12 DEF SessInv

\* A client that connects joins the end of the queue, where it was not.
LEMMA SessConnect ==
    ASSUME IInv, SessInv, NEW k \in Session, Connect(k)
    PROVE  SessInv'
<1> USE NullAssumption
<1>1. /\ backlog \in Seq(Session) /\ <<k, "in">> \in Endpoint
      /\ peer \in [Endpoint -> {"idle", "syn", "open", "fin", "rst"}]
      /\ \A l \in Session : <<l, "in">> \in Endpoint
  BY DEF IInv, TypeOK, Endpoint
<1>2. /\ peer[<<k, "in">>] = "idle"
      /\ peer' = [peer EXCEPT ![<<k, "in">>] = "open"]
      /\ backlog' = Append(backlog, k)
      /\ traces' = traces /\ sock' = sock
  BY DEF Connect, EnvUnchanged, procVars
<1>3. /\ Len(backlog) \in Nat /\ DOMAIN backlog = 1 .. Len(backlog)
      /\ DOMAIN backlog' = 1 .. Len(backlog) + 1
      /\ \A i \in DOMAIN backlog : backlog'[i] = backlog[i]
      /\ backlog'[Len(backlog) + 1] = k
      /\ \A i \in DOMAIN backlog : backlog[i] \in Session
  BY <1>1, <1>2, AppendIs
<1>4. ~ Queued(k) /\ ~ Traced(k)
  BY <1>2 DEF SessInv, Queued
<1>5. \A l \in Session : (Traced(l)' <=> Traced(l)) /\ (Queued(l)' <=> Queued(l) \/ l = k)
  <2>1. \A l \in Session : Traced(l)' <=> Traced(l)
    BY <1>2 DEF Traced
  <2>2. \A l \in Session : Queued(l)' <=> Queued(l) \/ l = k
    BY <1>3 DEF Queued
  <2> QED BY <2>1, <2>2
<1>6. \A i, j \in DOMAIN backlog' : backlog'[i] = backlog'[j] => i = j
  BY <1>3, <1>4 DEF SessInv, Queued
<1>7. \A l \in Session : peer'[<<l, "in">>] = IF l = k THEN "open" ELSE peer[<<l, "in">>]
  BY <1>1, <1>2
<1>8. \A i \in DOMAIN backlog' : peer'[<<backlog'[i], "in">>] # "idle"
  BY <1>3, <1>7 DEF SessInv
<1>9. \A l \in Session : Traced(l)' <=> peer'[<<l, "in">>] # "idle" /\ ~ Queued(l)'
  BY <1>4, <1>5, <1>7 DEF SessInv
<1>10. \A f \in Fd : sock[f] # NULL => Traced(sock[f][1])'
  BY <1>2 DEF SessInv, Traced
<1> QED BY <1>2, <1>6, <1>8, <1>9, <1>10 DEF SessInv

\* Only an accept opens descriptors; every other step closes some or leaves
\* them and the names in their records as they are.
LEMMA OpenedByAccept ==
    ASSUME IInv, [Next]_vars, ~ handleNewConnection, NEW f \in Fd
    PROVE  sock'[f] = NULL \/ (sock'[f] = sock[f] /\ hashmap'[f].sd = hashmap[f].sd)
<1> USE NullAssumption
<1> DEFINE Kept == sock'[f] = NULL \/ (sock'[f] = sock[f] /\ hashmap'[f].sd = hashmap[f].sd)
<1>1. ASSUME NEW sd \in Fd, activate_read(sd) PROVE Kept
  BY <1>1 DEF activate_read, IInv, TypeOK
<1>2. ASSUME NEW sd \in Fd, activate_eof(sd) \/ activate_close(sd) PROVE Kept
  BY <1>2 DEF activate_eof, activate_close, closeConnections, removeEntry, IInv, TypeOK
<1>3. ASSUME NEW sd \in Fd, activate_write(sd) PROVE Kept
  <2>1. me(sd) = hashmap[partner(sd).sd] /\ Flushed(me(sd)).sd = me(sd).sd
    BY DEF me, Flushed
  <2>2. /\ hashmap' = [hashmap EXCEPT ![partner(sd).sd] = Flushed(me(sd))]
        /\ sock' = sock
    BY <1>3 DEF activate_write, handleWrite
  <2> QED BY <2>1, <2>2 DEF IInv, TypeOK
<1>4. CASE sock' = sock /\ hashmap' = hashmap
  BY <1>4
<1>5. \/ sock' = sock /\ hashmap' = hashmap
      \/ \E sd \in Fd : \/ activate_read(sd) \/ activate_eof(sd)
                        \/ activate_close(sd) \/ activate_write(sd)
  <2>1. ASSUME Peers PROVE sock' = sock /\ hashmap' = hashmap
    BY <2>1
    DEF Peers, Connect, Answer, PeerSend, PeerRead, PeerClose, EnvUnchanged, procVars
  <2> QED
    BY <2>1
    DEF Next, Proxy, ProxyStep, Failure, tproxy_ready, handleNewConnection_refused,
        handleNewConnection_nofd, activate_exit, activate_nomem, exit_handler,
        procVars, vars
<1> QED BY <1>1, <1>2, <1>3, <1>4, <1>5

\* What an accept does, with its descriptors and its session named.
LEMMA AcceptStep ==
    ASSUME IInv, SessInv, handleNewConnection
    PROVE  \E k \in Session, cin, cout \in Fd :
              /\ backlog # <<>> /\ k = Head(backlog) /\ cin # cout
              /\ sock[cin] = NULL /\ sock[cout] = NULL
              /\ sock' = [sock EXCEPT ![cin] = <<k, "in">>, ![cout] = <<k, "out">>]
              /\ hashmap' = NewEntries(cin, cout)
              /\ ined' = [ined EXCEPT ![cin] = {"IN"}, ![cout] = {"IN"}]
              /\ \A f \in Fd : sock[f] # NULL => sock[f][1] # k
<1>1. backlog # <<>> /\ backlog \in Seq(Session)
  BY DEF handleNewConnection, IInv, TypeOK, AcceptHasClient
<1>2. PICK k : k = Head(backlog)
  OBVIOUS
<1>3. k \in Session /\ 1 \in DOMAIN backlog /\ backlog[1] = k
  BY <1>1, <1>2, TailIs
<1>4. ~ Traced(k)
  BY <1>3 DEF SessInv, Queued
<1>5. \A f \in Fd : sock[f] # NULL => sock[f][1] # k
  BY <1>4 DEF SessInv
<1>6. PICK cin, cout \in Fd :
         /\ cin \in Free /\ cout \in Free \ {cin}
         /\ sock' = [sock EXCEPT ![cin] = <<Head(backlog), "in">>,
                                 ![cout] = <<Head(backlog), "out">>]
         /\ hashmap' = NewEntries(cin, cout)
         /\ ined' = [ined EXCEPT ![cin] = {"IN"}, ![cout] = {"IN"}]
  BY DEF handleNewConnection, LowestFree
<1>7. /\ cin # cout /\ sock[cin] = NULL /\ sock[cout] = NULL
      /\ sock' = [sock EXCEPT ![cin] = <<k, "in">>, ![cout] = <<k, "out">>]
  BY <1>2, <1>6 DEF Free
<1> QED BY <1>1, <1>2, <1>3, <1>5, <1>6, <1>7

\* A session goes through its life in one direction.
LEMMA NextSess == IInv /\ SessInv /\ [Next]_vars => SessInv'
<1> SUFFICES ASSUME IInv, SessInv, [Next]_vars PROVE SessInv'
  OBVIOUS
<1> USE NullAssumption
<1>1. CASE handleNewConnection
  <2>1. PICK k \in Session, cin, cout \in Fd :
              /\ backlog # <<>> /\ k = Head(backlog) /\ cin # cout
              /\ sock' = [sock EXCEPT ![cin] = <<k, "in">>, ![cout] = <<k, "out">>]
              /\ \A f \in Fd : sock[f] # NULL => sock[f][1] # k
    BY <1>1, AcceptStep
  <2>2. /\ \A f \in Fd : sock'[f] \in {NULL, sock[f], <<k, "in">>, <<k, "out">>}
        /\ \A f, g \in Fd : /\ sock'[f] = sock'[g]
                            /\ sock'[f] \in {<<k, "in">>, <<k, "out">>}
                            => f = g
    <3>1. sock \in [Fd -> Endpoint \cup {NULL}]
      BY DEF IInv, TypeOK
    <3>2. /\ sock'[cin] = <<k, "in">> /\ sock'[cout] = <<k, "out">>
          /\ \A f \in Fd \ {cin, cout} : sock'[f] = sock[f]
      BY <2>1, <3>1
    <3>3. NULL \notin {<<k, "in">>, <<k, "out">>} /\ <<k, "in">> # <<k, "out">>
      BY DEF Endpoint
    <3>4. \A f \in Fd : sock[f] \notin {<<k, "in">>, <<k, "out">>}
      BY <2>1, <3>3
    <3> QED BY <2>1, <3>2, <3>3, <3>4
  <2>3. \A l \in Session : peer'[<<l, "in">>] = peer[<<l, "in">>]
    BY <1>1 DEF handleNewConnection, IInv, TypeOK
  <2>4. udpTrace(k) /\ backlog' = Tail(backlog)
    BY <1>1, <2>1 DEF handleNewConnection
  <2> QED BY <2>1, <2>2, <2>3, <2>4, SessAccept
<1>2. CASE handleNewConnection_refused
  <2>1. PICK k : k = Head(backlog)
    OBVIOUS
  <2>2. /\ backlog # <<>> /\ udpTrace(k) /\ backlog' = Tail(backlog)
        /\ sock' = sock /\ peer' = peer
    BY <1>2, <2>1 DEF handleNewConnection_refused, IInv, AcceptHasClient
  <2>3. backlog \in Seq(Session)
    BY DEF IInv, TypeOK
  <2>4. k \in Session /\ 1 \in DOMAIN backlog /\ backlog[1] = k
    BY <2>1, <2>2, <2>3, TailIs
  <2>5. \A f \in Fd : sock[f] \notin {<<k, "in">>, <<k, "out">>}
    <3>1. NULL \notin {<<k, "in">>, <<k, "out">>}
      BY <2>4 DEF Endpoint
    <3>2. ~ Traced(k)
      BY <2>4 DEF SessInv, Queued
    <3> QED BY <3>1, <3>2 DEF SessInv
  <2> QED BY <2>1, <2>2, <2>5, SessAccept
<1>3. CASE handleNewConnection_nofd
  <2>1. traces' = Append(traces, NULL) /\ UNCHANGED <<backlog, sock, peer>>
    BY <1>3 DEF handleNewConnection_nofd, udpTrace
  <2>2. /\ Len(traces) \in Nat /\ DOMAIN traces = 1 .. Len(traces)
        /\ DOMAIN traces' = 1 .. Len(traces) + 1
        /\ \A i \in DOMAIN traces : traces'[i] = traces[i]
        /\ traces'[Len(traces) + 1] = NULL
    <3>1. traces \in Seq(Session \cup {NULL})
      BY DEF IInv, TypeOK
    <3> QED BY <2>1, <3>1, AppendIs
  <2>3. \A l \in Session : (Traced(l)' <=> Traced(l)) /\ (Queued(l)' <=> Queued(l))
    BY <2>1, <2>2 DEF Traced, Queued
  <2>4. \A f \in Fd : sock[f] # NULL => sock[f][1] \in Session
    BY DEF IInv, TypeOK, Endpoint
  <2>5. \A f \in Fd : sock[f] # NULL => Traced(sock[f][1])'
    <3>1. SUFFICES ASSUME NEW f \in Fd, sock[f] # NULL PROVE Traced(sock[f][1])'
      BY <2>1
    <3>2. PICK i \in DOMAIN traces : traces[i] = sock[f][1]
      BY <3>1 DEF SessInv, Traced
    <3> QED BY <2>1, <2>2, <3>2 DEF Traced
  <2>6. \A i, j \in DOMAIN traces' : traces'[i] = traces'[j] /\ traces'[i] # NULL => i = j
    BY <2>2 DEF SessInv
  <2> QED BY <2>1, <2>3, <2>5, <2>6 DEF SessInv
<1>4. ASSUME NEW k \in Session, Connect(k) PROVE SessInv'
  BY <1>4, SessConnect
<1>5. ASSUME ~ handleNewConnection, backlog' = backlog, traces' = traces,
             \A k \in Session :
                 peer'[<<k, "in">>] = "idle" <=> peer[<<k, "in">>] = "idle"
      PROVE  SessInv'
  BY <1>5, SessFrame, OpenedByAccept DEF IInv
<1>6. ASSUME NEW sd \in Fd, ProxyStep(sd) \/ activate_nomem(sd)
      PROVE  backlog' = backlog /\ traces' = traces /\ peer' = peer
  BY <1>6
  DEF ProxyStep, activate_read, activate_eof, activate_write, handleWrite,
      activate_close, activate_exit, activate_nomem, netVars
<1>7. CASE tproxy_ready \/ exit_handler \/ UNCHANGED vars
  BY <1>1, <1>5, <1>7 DEF tproxy_ready, exit_handler, procVars, netVars, vars
<1>8. ASSUME Peers, \A k \in Session : ~ Connect(k)
      PROVE  /\ backlog' = backlog /\ traces' = traces
             /\ \A k \in Session :
                   peer'[<<k, "in">>] = "idle" <=> peer[<<k, "in">>] = "idle"
  <2>1. ASSUME NEW k \in Session, NEW ans \in {"open", "rst"}, Answer(k, ans)
        PROVE  /\ backlog' = backlog /\ traces' = traces
               /\ \A l \in Session : peer'[<<l, "in">>] = peer[<<l, "in">>]
    BY <2>1 DEF Answer, EnvUnchanged, procVars, IInv, TypeOK
  <2>2. ASSUME NEW e \in Endpoint, NEW how \in {"fin", "rst"}, PeerClose(e, how)
        PROVE  /\ backlog' = backlog /\ traces' = traces
               /\ \A k \in Session :
                     peer'[<<k, "in">>] = "idle" <=> peer[<<k, "in">>] = "idle"
    <3>1. /\ peer \in [Endpoint -> {"idle", "syn", "open", "fin", "rst"}]
          /\ \A k \in Session : <<k, "in">> \in Endpoint
      BY DEF IInv, TypeOK, Endpoint
    <3>2. peer[e] = "open" /\ peer' = [peer EXCEPT ![e] = how]
      BY <2>2 DEF PeerClose
    <3> QED BY <2>2, <3>1, <3>2 DEF PeerClose, EnvUnchanged, procVars
  <2> QED BY <1>8, <2>1, <2>2 DEF Peers, PeerSend, PeerRead, EnvUnchanged, procVars
<1> QED BY <1>1, <1>2, <1>3, <1>4, <1>5, <1>6, <1>7, <1>8 DEF Next, Proxy, Failure

\* The invariants on descriptors and sessions hold throughout.
LEMMA SpecSess == Spec => [](IInv /\ SessInv)
  BY InitIInv, NextIInv, InitSess, NextSess, PTL DEF Spec

\* A session is reported to the tracer once, when it is accepted: however many
\* clients queue up, fail, and reuse descriptors, the traces hold none twice.
THEOREM EachSessionTracedOnce == Spec => []TracedOnceAccepted
<1>1. ASSUME IInv, SessInv PROVE TracedOnceAccepted
  <2> USE NullAssumption
  <2>1. SUFFICES ASSUME NEW k \in Session
                 PROVE  Cardinality({i \in DOMAIN traces : traces[i] = k}) =
                          IF peer[<<k, "in">>] = "idle" \/ Queued(k) THEN 0 ELSE 1
    BY DEF TracedOnceAccepted, Queued
  <2>2. Traced(k) <=> ~ (peer[<<k, "in">>] = "idle" \/ Queued(k))
    BY <1>1 DEF SessInv
  <2>3. CASE Traced(k)
    <3>1. PICK i \in DOMAIN traces : traces[i] = k
      BY <2>3 DEF Traced
    <3>2. {j \in DOMAIN traces : traces[j] = k} = {i}
      BY <1>1, <3>1 DEF SessInv
    <3> QED BY <2>2, <2>3, <3>2, FS_Singleton
  <2>4. CASE ~ Traced(k)
    <3>1. {j \in DOMAIN traces : traces[j] = k} = {}
      BY <2>4 DEF Traced
    <3> QED BY <2>2, <2>4, <3>1, FS_EmptySet
  <2> QED BY <2>3, <2>4
<1> QED BY <1>1, SpecSess, PTL

\* The two records of a session whose ends are both open name each other: a
\* number closed by one session and given to the next never ties the two
\* together.
THEOREM EndsNameEachOther == Spec => []PairsNameEachOther
<1> USE NullAssumption
<1>1. Init => PairsNameEachOther
  BY DEF Init, PairsNameEachOther
<1>2. ASSUME IInv, SessInv, PairsNameEachOther, [Next]_vars PROVE PairsNameEachOther'
  <2>1. CASE handleNewConnection
    <3>1. PICK k \in Session, cin, cout \in Fd :
              /\ cin # cout
              /\ sock' = [sock EXCEPT ![cin] = <<k, "in">>, ![cout] = <<k, "out">>]
              /\ hashmap' = NewEntries(cin, cout)
              /\ \A f \in Fd : sock[f] # NULL => sock[f][1] # k
      BY <1>2, <2>1, AcceptStep
    <3>2. /\ sock \in [Fd -> Endpoint \cup {NULL}]
          /\ DOMAIN hashmap = Fd
      BY <1>2 DEF IInv, TypeOK
    <3>3. /\ sock'[cin] = <<k, "in">> /\ sock'[cout] = <<k, "out">>
          /\ hashmap'[cin].sd = cout /\ hashmap'[cout].sd = cin
          /\ \A f \in Fd \ {cin, cout} : sock'[f] = sock[f] /\ hashmap'[f] = hashmap[f]
      BY <3>1, <3>2 DEF NewEntries, NewPartner
    <3>4. SUFFICES ASSUME NEW f \in Fd, NEW g \in Fd, sock'[f] # NULL, sock'[g] # NULL,
                          sock'[g] = Partner(sock'[f])
                   PROVE  hashmap'[f].sd = g /\ hashmap'[g].sd = f
      BY DEF PairsNameEachOther, Partner
    <3>5. /\ sock'[f][1] = sock'[g][1]
          /\ sock'[g][2] = IF sock'[f][2] = "in" THEN "out" ELSE "in"
      BY <3>4 DEF Partner
    <3>6. /\ sock'[cin][1] = k /\ sock'[cin][2] = "in"
          /\ sock'[cout][1] = k /\ sock'[cout][2] = "out"
          /\ \A h \in Fd \ {cin, cout} : sock'[h] # NULL => sock'[h][1] # k
      <4>1. sock'[cin] = <<k, "in">> /\ sock'[cout] = <<k, "out">>
        BY <3>3
      <4>2. \A h \in Fd \ {cin, cout} : sock'[h] # NULL => sock'[h][1] # k
        <5>1. \A h \in Fd : sock[h] # NULL => sock[h][1] # k
          BY <3>1
        <5>2. \A h \in Fd \ {cin, cout} : sock'[h] = sock[h]
          BY <3>3
        <5> QED BY <5>1, <5>2, Zenon
      <4> QED BY <4>1, <4>2
    <3>8. CASE f = cin
      <4>1. g = cout
        BY <3>4, <3>5, <3>6, <3>8
      <4> QED BY <3>3, <3>8, <4>1
    <3>9. CASE f = cout
      <4>1. g = cin
        BY <3>4, <3>5, <3>6, <3>9
      <4> QED BY <3>3, <3>9, <4>1
    <3>7. CASE f \notin {cin, cout}
      <4>1. g \notin {cin, cout}
        BY <3>4, <3>5, <3>6, <3>7
      <4> QED BY <1>2, <3>3, <3>4, <3>7, <4>1 DEF PairsNameEachOther
    <3> QED BY <3>7, <3>8, <3>9
  <2>2. CASE ~ handleNewConnection
    <3>1. SUFFICES ASSUME NEW f \in Fd, NEW g \in Fd, sock'[f] # NULL, sock'[g] # NULL,
                          sock'[g] = Partner(sock'[f])
                   PROVE  hashmap'[f].sd = g /\ hashmap'[g].sd = f
      BY DEF PairsNameEachOther, Partner
    <3>2. /\ sock'[f] = sock[f] /\ hashmap'[f].sd = hashmap[f].sd
          /\ sock'[g] = sock[g] /\ hashmap'[g].sd = hashmap[g].sd
      BY <1>2, <2>2, <3>1, OpenedByAccept
    <3> QED BY <1>2, <3>1, <3>2, Zenon DEF PairsNameEachOther
  <2> QED BY <2>1, <2>2
<1> QED BY <1>1, <1>2, SpecSess, PTL DEF Spec

-----------------------------------------------------------------------------
(* Data. *)

\* At the start no unit was received.
LEMMA InitData == Init => DataInv
  BY DEF Init, DataInv, DlvReceived, HeldReceived, DlvOnce, HeldOnce, DlvNotHeld, Held

\* A unit is a pair of the endpoint that sent it and its number.
LEMMA UnitParts ==
    ASSUME IInv
    PROVE  /\ \A e \in Endpoint : /\ dlv[e] \in Seq(Unit)
                                  /\ \A i \in DOMAIN dlv[e] : dlv[e][i] \in Unit
           /\ \A f \in Fd : Held(f) =>
                /\ hashmap[f].data \in Seq(Unit)
                /\ \A i \in DOMAIN hashmap[f].data : hashmap[f].data[i] \in Unit
           /\ \A u \in Unit : u[1] \in Endpoint /\ u[2] \in Nat \ {0}
<1>1. \A s \in Seq(Unit) : \A i \in DOMAIN s : s[i] \in Unit
  OBVIOUS
<1>2. \A e \in Endpoint : dlv[e] \in Seq(Unit)
  BY DEF IInv, TypeOK
<1>3. \A f \in Fd : Held(f) => hashmap[f].data \in Seq(Unit)
  BY DEF IInv, TypeOK, partner_s, Held
<1>4. \A u \in Unit : u[1] \in Endpoint /\ u[2] \in Nat \ {0}
  BY DEF Unit
<1> QED BY <1>1, <1>2, <1>3, <1>4

\* Records are dropped, or made with nothing in them.
LEMMA DataFrame ==
    ASSUME DataInv, dlv' = dlv, rcvd' = rcvd,
           \A f \in Fd : \/ hashmap'[f] = NULL
                         \/ hashmap'[f] = hashmap[f]
                         \/ hashmap'[f].data = <<>>
    PROVE  DataInv'
<1>1. \A f \in Fd : Held(f)' /\ DOMAIN hashmap'[f].data # {} => Held(f) /\ hashmap'[f] = hashmap[f]
  BY DEF Held
<1>2. DlvReceived' /\ DlvOnce'
  BY DEF DataInv, DlvReceived, DlvOnce
<1>3. HeldReceived'
  BY <1>1 DEF DataInv, HeldReceived
<1>4. HeldOnce'
  BY <1>1 DEF DataInv, HeldOnce
<1>5. DlvNotHeld'
  BY <1>1 DEF DataInv, DlvNotHeld
<1> QED BY <1>2, <1>3, <1>4, <1>5 DEF DataInv

\* recv returns units that were never received before.
LEMMA DataRead ==
    ASSUME IInv, DataInv, NEW sd \in Fd, activate_read(sd)
    PROVE  DataInv'
<1> USE NullAssumption, ConstAssumption
<1>1. PICK e : e = sock[sd]
  OBVIOUS
<1>2. PICK n : n = Least(Avail(e), PageSize)
  OBVIOUS
<1>3. e \in Endpoint /\ n \in Nat /\ rcvd[e] \in Nat /\ rcvd \in [Endpoint -> Nat]
  BY <1>1, <1>2
  DEF activate_read, InPart, Avail, Least, IInv, TypeOK, HashmapTracksOpenFds
<1>4. /\ hashmap' = [hashmap EXCEPT ![sd] = [sd |-> hashmap[sd].sd, bufsize |-> n,
                                            buf |-> "live", data |-> Received(e, n)]]
      /\ rcvd' = [rcvd EXCEPT ![e] = rcvd[e] + n]
      /\ dlv' = dlv
  BY <1>1, <1>2 DEF activate_read
<1>5. /\ hashmap'[sd].data = Received(e, n)
      /\ \A f \in Fd \ {sd} : hashmap'[f] = hashmap[f]
  BY <1>4 DEF IInv, TypeOK
<1>6. /\ DOMAIN Received(e, n) = 1 .. n
      /\ \A i \in 1 .. n : /\ Received(e, n)[i] = <<e, rcvd[e] + i>>
                           /\ Received(e, n)[i] \in Unit
  <2>1. \A i \in 1 .. n : <<e, rcvd[e] + i>> \in Unit
    BY <1>3 DEF Unit
  <2> QED BY <2>1 DEF Received
<1>7. rcvd'[e] = rcvd[e] + n /\ \A d \in Endpoint : rcvd[d] \in Nat /\ rcvd[d] <= rcvd'[d]
  BY <1>3, <1>4
<1> DEFINE Old(u) == u \in Unit /\ u[2] <= rcvd[u[1]]
<1>8. \A d \in Endpoint : \A i \in DOMAIN dlv[d] : Old(dlv[d][i])
  BY UnitParts DEF DataInv, DlvReceived
<1>9. \A f \in Fd : Held(f) => \A i \in DOMAIN hashmap[f].data : Old(hashmap[f].data[i])
  BY UnitParts DEF DataInv, HeldReceived
<1>10. \A u : Old(u) => u[2] <= rcvd'[u[1]] /\ \A i \in 1 .. n : u # Received(e, n)[i]
  <2>1. SUFFICES ASSUME NEW u \in Unit, u[2] <= rcvd[u[1]]
                 PROVE  u[2] <= rcvd'[u[1]] /\ \A i \in 1 .. n : u # <<e, rcvd[e] + i>>
    BY <1>6
  <2>2. u[1] \in Endpoint /\ u[2] \in Nat
    BY UnitParts
  <2>3. rcvd[u[1]] \in Nat /\ rcvd'[u[1]] \in Nat /\ rcvd[u[1]] <= rcvd'[u[1]]
    BY <1>3, <1>4, <1>7, <2>2
  <2>4. ASSUME NEW i \in 1 .. n, u = <<e, rcvd[e] + i>> PROVE FALSE
    <3>1. u[1] = e /\ u[2] = rcvd[e] + i
      BY <2>4
    <3> QED BY <1>3, <2>1, <3>1
  <2> QED BY <2>1, <2>2, <2>3, <2>4
<1> HIDE DEF Old
<1>11. DlvReceived'
  BY <1>4, <1>8, <1>10 DEF DlvReceived
<1>12. DlvOnce'
  BY <1>4 DEF DataInv, DlvOnce
<1>13. HeldReceived'
  <2>1. SUFFICES ASSUME NEW f \in Fd, Held(f)', NEW i \in DOMAIN hashmap'[f].data
                 PROVE  hashmap'[f].data[i][2] <= rcvd'[hashmap'[f].data[i][1]]
    BY DEF HeldReceived
  <2>2. CASE f = sd
    <3>1. i \in 1 .. n /\ hashmap'[f].data[i] = <<e, rcvd[e] + i>>
      BY <1>5, <1>6, <2>1, <2>2
    <3>2. hashmap'[f].data[i][1] = e /\ hashmap'[f].data[i][2] = rcvd[e] + i
      BY <3>1
    <3> QED BY <1>3, <1>7, <3>1, <3>2
  <2>3. CASE f # sd
    BY <1>5, <1>9, <1>10, <2>1, <2>3 DEF Held
  <2> QED BY <2>2, <2>3
<1>14. HeldOnce'
  <2>1. SUFFICES ASSUME NEW f \in Fd, NEW g \in Fd, Held(f)', Held(g)',
                        NEW i \in DOMAIN hashmap'[f].data, NEW j \in DOMAIN hashmap'[g].data,
                        hashmap'[f].data[i] = hashmap'[g].data[j]
                 PROVE  f = g /\ i = j
    BY DEF HeldOnce
  <2>2. CASE f = sd /\ g = sd
    <3>1. i \in 1 .. n /\ j \in 1 .. n /\ <<e, rcvd[e] + i>> = <<e, rcvd[e] + j>>
      BY <1>5, <1>6, <2>1, <2>2
    <3> QED BY <1>3, <2>2, <3>1
  <2>3. CASE f = sd /\ g # sd
    <3>1. i \in 1 .. n /\ hashmap'[f].data[i] = Received(e, n)[i]
      BY <1>5, <1>6, <2>1, <2>3
    <3>2. Old(hashmap'[g].data[j])
      BY <1>5, <1>9, <2>1, <2>3 DEF Held
    <3> QED BY <1>10, <2>1, <3>1, <3>2
  <2>4. CASE f # sd /\ g = sd
    <3>1. j \in 1 .. n /\ hashmap'[g].data[j] = Received(e, n)[j]
      BY <1>5, <1>6, <2>1, <2>4
    <3>2. Old(hashmap'[f].data[i])
      BY <1>5, <1>9, <2>1, <2>4 DEF Held
    <3> QED BY <1>10, <2>1, <3>1, <3>2
  <2>5. CASE f # sd /\ g # sd
    BY <1>5, <2>1, <2>5 DEF Held, DataInv, HeldOnce
  <2> QED BY <2>2, <2>3, <2>4, <2>5
<1>15. DlvNotHeld'
  <2>1. SUFFICES ASSUME NEW d \in Endpoint, NEW f \in Fd, Held(f)',
                        NEW i \in DOMAIN dlv[d], NEW j \in DOMAIN hashmap'[f].data
                 PROVE  dlv[d][i] # hashmap'[f].data[j]
    BY <1>4 DEF DlvNotHeld
  <2>2. CASE f = sd
    <3>1. j \in 1 .. n /\ hashmap'[f].data[j] = Received(e, n)[j] /\ Old(dlv[d][i])
      BY <1>5, <1>6, <1>8, <2>2
    <3> QED BY <1>10, <3>1
  <2>3. CASE f # sd
    BY <1>5, <2>1, <2>3 DEF Held, DataInv, DlvNotHeld
  <2> QED BY <2>2, <2>3
<1> QED BY <1>11, <1>12, <1>13, <1>14, <1>15 DEF DataInv

\* What send takes leaves the record, and the record is emptied.
LEMMA DataWrite ==
    ASSUME IInv, DataInv, NEW sd \in Fd, activate_write(sd)
    PROVE  DataInv'
<1> USE NullAssumption
<1>1. PICK g : g = partner(sd).sd
  OBVIOUS
<1>2. PICK rec : rec = me(sd)
  OBVIOUS
<1>3. PICK m : m = Accepted(sd, rec.bufsize)
  OBVIOUS
<1>4. PICK e : e = sock[sd]
  OBVIOUS
<1>5. g \in Fd /\ rec = hashmap[g] /\ Held(g) /\ rec \in partner_s
      /\ rec.bufsize = Len(rec.data) /\ rec.data \in Seq(Unit)
  <2>1. g \in Fd
    BY <1>1 DEF activate_write, OutPart, partner, IInv, TypeOK, partner_s, Locals
  <2>2. rec = hashmap[g] /\ Held(g)
    BY <1>1, <1>2 DEF activate_write, me, Held
  <2> QED BY <2>1, <2>2, UnitParts DEF IInv, TypeOK, BufsizeIsLength, Held
<1>6. /\ hashmap' = [hashmap EXCEPT ![g] = Flushed(rec)] /\ rcvd' = rcvd
      /\ dlv' = IF m > 0 THEN [dlv EXCEPT ![e] = dlv[e] \o SubSeq(rec.data, 1, m)] ELSE dlv
  BY <1>1, <1>2, <1>3, <1>4 DEF activate_write, handleWrite
<1>7. hashmap'[g].data = <<>> /\ \A f \in Fd \ {g} : hashmap'[f] = hashmap[f]
  BY <1>5, <1>6 DEF Flushed, IInv, TypeOK
<1>8. CASE ~ (m > 0)
  BY <1>5, <1>6, <1>7, <1>8, DataFrame
<1>9. CASE m > 0
  <2>1. e \in Endpoint /\ m \in 1 .. Len(rec.data)
    <3>1. e \in Endpoint
      BY <1>3, <1>4, <1>9 DEF Accepted, IInv, TypeOK
    <3>2. Len(dlv[e]) \in Nat /\ seen[e] \in Nat
      BY <3>1 DEF IInv, TypeOK
    <3>3. Space(e) \in Int /\ rec.bufsize \in Nat
      BY <1>5, <3>2, ConstAssumption DEF Space, partner_s
    <3>4. m = Least(rec.bufsize, Space(e))
      BY <1>3, <1>4, <1>9 DEF Accepted
    <3> QED BY <1>5, <1>9, <3>1, <3>3, <3>4 DEF Least
  <2>2. PICK L : L = Len(dlv[e])
    OBVIOUS
  <2>3. /\ L \in Nat /\ DOMAIN dlv[e] = 1 .. L
        /\ DOMAIN dlv'[e] = 1 .. L + m
        /\ \A i \in 1 .. L : dlv'[e][i] = dlv[e][i]
        /\ \A i \in L + 1 .. L + m : dlv'[e][i] = rec.data[i - L]
    <3>1. dlv \in [Endpoint -> Seq(Unit)] /\ dlv[e] \in Seq(Unit)
      BY <2>1 DEF IInv, TypeOK
    <3>2. dlv'[e] = dlv[e] \o SubSeq(rec.data, 1, m)
      BY <1>6, <1>9, <2>1, <3>1
    <3>3. /\ SubSeq(rec.data, 1, m) \in Seq(Unit) /\ Len(SubSeq(rec.data, 1, m)) = m
          /\ \A i \in 1 .. m : SubSeq(rec.data, 1, m)[i] = rec.data[i]
      BY <1>5, <2>1
    <3> QED BY <2>1, <2>2, <3>1, <3>2, <3>3
  <2>4. \A d \in Endpoint : d # e => dlv'[d] = dlv[d]
    BY <1>6, <1>9 DEF IInv, TypeOK
  <2>5. \A i \in L + 1 .. L + m : i - L \in DOMAIN rec.data
    BY <1>5, <2>1, <2>3
  \* A unit that was sent on is an old one, or one of the record's.
  <2>6. ASSUME NEW d \in Endpoint, NEW i \in DOMAIN dlv'[d]
        PROVE  \/ i \in DOMAIN dlv[d] /\ dlv'[d][i] = dlv[d][i]
               \/ /\ d = e /\ i \in L + 1 .. L + m
                  /\ dlv'[d][i] = rec.data[i - L] /\ i - L \in DOMAIN rec.data
    <3>1. CASE d # e
      BY <2>4, <2>6, <3>1
    <3>2. CASE d = e
      <4>1. i \in 1 .. L \/ i \in L + 1 .. L + m
        BY <2>1, <2>3, <2>6, <3>2
      <4> QED BY <2>3, <2>5, <3>2, <4>1
    <3> QED BY <3>1, <3>2
  <2>7. \A f \in Fd : Held(f)' /\ DOMAIN hashmap'[f].data # {}
           => f # g /\ Held(f) /\ hashmap'[f] = hashmap[f]
    BY <1>5, <1>7 DEF Held
  <2>8. DlvReceived'
    <3>1. SUFFICES ASSUME NEW d \in Endpoint, NEW i \in DOMAIN dlv'[d]
                   PROVE  dlv'[d][i][2] <= rcvd[dlv'[d][i][1]]
      BY <1>6 DEF DlvReceived
    <3>2. CASE i \in DOMAIN dlv[d] /\ dlv'[d][i] = dlv[d][i]
      BY <3>2 DEF DataInv, DlvReceived
    <3>3. CASE dlv'[d][i] = rec.data[i - L] /\ i - L \in DOMAIN rec.data
      BY <1>5, <3>3 DEF DataInv, HeldReceived
    <3> QED BY <2>6, <3>2, <3>3
  <2>9. HeldReceived'
    BY <1>6, <2>7 DEF DataInv, HeldReceived
  <2>10. DlvOnce'
    <3>1. SUFFICES ASSUME NEW d1 \in Endpoint, NEW d2 \in Endpoint,
                          NEW i \in DOMAIN dlv'[d1], NEW j \in DOMAIN dlv'[d2],
                          dlv'[d1][i] = dlv'[d2][j]
                   PROVE  d1 = d2 /\ i = j
      BY DEF DlvOnce
    <3>2. CASE i \in L + 1 .. L + m /\ j \in L + 1 .. L + m /\ d1 = e /\ d2 = e
      <4>1. /\ i - L \in DOMAIN rec.data /\ j - L \in DOMAIN rec.data
            /\ rec.data[i - L] = rec.data[j - L]
        <5>1. dlv'[e][i] = rec.data[i - L] /\ dlv'[e][j] = rec.data[j - L]
          BY <2>3, <3>2
        <5> QED BY <2>5, <3>1, <3>2, <5>1
      <4>2. i - L = j - L
        <5>1. \A a, b \in DOMAIN rec.data : rec.data[a] = rec.data[b] => a = b
          BY <1>5 DEF DataInv, HeldOnce
        <5> QED BY <4>1, <5>1
      <4> QED BY <2>3, <3>2, <4>2
    <3>3. CASE i \in DOMAIN dlv[d1] /\ dlv'[d1][i] = dlv[d1][i]
      <4>1. CASE j \in DOMAIN dlv[d2] /\ dlv'[d2][j] = dlv[d2][j]
        <5>1. dlv[d1][i] = dlv[d2][j]
          BY <3>1, <3>3, <4>1
        <5>2. DlvOnce
          BY DEF DataInv
        <5> QED BY <3>3, <4>1, <5>1, <5>2 DEF DlvOnce
      <4>2. CASE dlv'[d2][j] = rec.data[j - L] /\ j - L \in DOMAIN rec.data
        BY <1>5, <3>1, <3>3, <4>2 DEF DataInv, DlvNotHeld
      <4> QED BY <2>6, <4>1, <4>2
    <3>4. CASE j \in DOMAIN dlv[d2] /\ dlv'[d2][j] = dlv[d2][j]
      <4>1. CASE i \in DOMAIN dlv[d1] /\ dlv'[d1][i] = dlv[d1][i]
        BY <3>3, <4>1
      <4>2. CASE dlv'[d1][i] = rec.data[i - L] /\ i - L \in DOMAIN rec.data
        BY <1>5, <3>1, <3>4, <4>2 DEF DataInv, DlvNotHeld
      <4> QED BY <2>6, <4>1, <4>2
    <3> QED BY <2>6, <3>2, <3>3, <3>4
  <2>11. HeldOnce'
    BY <2>7 DEF DataInv, HeldOnce
  <2>12. DlvNotHeld'
    <3>1. SUFFICES ASSUME NEW d \in Endpoint, NEW f \in Fd, Held(f)',
                          NEW i \in DOMAIN dlv'[d], NEW j \in DOMAIN hashmap'[f].data
                   PROVE  dlv'[d][i] # hashmap'[f].data[j]
      BY DEF DlvNotHeld
    <3>2. f # g /\ Held(f) /\ hashmap'[f] = hashmap[f]
      BY <2>7, <3>1
    <3>3. CASE i \in DOMAIN dlv[d] /\ dlv'[d][i] = dlv[d][i]
      BY <3>2, <3>3 DEF DataInv, DlvNotHeld
    <3>4. CASE dlv'[d][i] = rec.data[i - L] /\ i - L \in DOMAIN rec.data
      BY <1>5, <3>2, <3>4 DEF DataInv, HeldOnce
    <3> QED BY <2>6, <3>3, <3>4
  <2> QED BY <2>8, <2>9, <2>10, <2>11, <2>12 DEF DataInv
<1> QED BY <1>8, <1>9

\* A step moves a unit, or drops it, but never copies it.
LEMMA NextData == IInv /\ DataInv /\ [Next]_vars => DataInv'
<1> SUFFICES ASSUME IInv, DataInv, [Next]_vars PROVE DataInv'
  OBVIOUS
<1> DEFINE Quiet == /\ dlv' = dlv /\ rcvd' = rcvd
                    /\ \A f \in Fd : \/ hashmap'[f] = NULL
                                     \/ hashmap'[f] = hashmap[f]
                                     \/ hashmap'[f].data = <<>>
<1>1. ASSUME handleNewConnection PROVE Quiet
  BY <1>1 DEF handleNewConnection, NewEntries, NewPartner, IInv, TypeOK
<1>2. ASSUME NEW sd \in Fd, activate_eof(sd) \/ activate_close(sd) PROVE Quiet
  BY <1>2 DEF activate_eof, activate_close, closeConnections, removeEntry, IInv, TypeOK
<1>3. ASSUME Peers PROVE Quiet
  BY <1>3
  DEF Peers, Connect, Answer, PeerSend, PeerRead, PeerClose, EnvUnchanged, procVars
<1>4. \/ Quiet
      \/ \E sd \in Fd : activate_read(sd) \/ activate_write(sd)
  BY <1>1, <1>2, <1>3
  DEF Next, Proxy, ProxyStep, Failure, tproxy_ready, handleNewConnection_refused,
      handleNewConnection_nofd, activate_exit, activate_nomem, exit_handler,
      procVars, vars
<1> QED BY <1>4, DataFrame, DataRead, DataWrite

\* The invariant on units holds throughout.
LEMMA SpecData == Spec => [](IInv /\ DataInv)
  BY InitIInv, NextIInv, InitData, NextData, PTL DEF Spec

\* No unit is sent twice, to the same peer or to another one, and none that was
\* sent is still held, whatever handleWrite loses and whichever numbers are
\* used again.
THEOREM NoUnitSentTwice == Spec => []DeliveredAtMostOnce
<1>1. ASSUME IInv, DataInv PROVE DeliveredAtMostOnce
  <2>1. SUFFICES ASSUME NEW e1 \in Endpoint, NEW e2 \in Endpoint,
                        NEW i \in DOMAIN dlv[e1], NEW j \in DOMAIN dlv[e2]
                 PROVE  /\ dlv[e1][i] = dlv[e2][j] => e1 = e2 /\ i = j
                        /\ dlv[e1][i] \notin Buffered
    BY DEF DeliveredAtMostOnce
  <2>2. dlv[e1][i] = dlv[e2][j] => e1 = e2 /\ i = j
    BY <1>1 DEF DataInv, DlvOnce
  <2>3. ASSUME NEW f \in Fd, Held(f), NEW h \in 1 .. hashmap[f].bufsize
        PROVE  dlv[e1][i] # hashmap[f].data[h]
    <3>1. hashmap[f].data \in Seq(Unit) /\ hashmap[f].bufsize = Len(hashmap[f].data)
      BY <1>1, <2>3, UnitParts DEF IInv, BufsizeIsLength, Held
    <3>2. h \in DOMAIN hashmap[f].data
      BY <2>3, <3>1
    <3> QED BY <1>1, <2>3, <3>2 DEF DataInv, DlvNotHeld
  <2>4. dlv[e1][i] \notin Buffered
    BY <2>3 DEF Buffered, Held
  <2> QED BY <2>2, <2>4
<1> QED BY <1>1, SpecData, PTL

-----------------------------------------------------------------------------
(* A proxy that accepts only while no session is half closed. *)

\* The two ends of a session are each other's partner.
LEMMA PartnerIs ==
    ASSUME NEW e \in Endpoint
    PROVE  Partner(e) \in Endpoint /\ Partner(Partner(e)) = e /\ Partner(e) # e
  BY DEF Partner, Endpoint

\* At the start no record names anything.
LEMMA InitTidy == Init => TidyInv
  BY DEF Init, TidyInv, TidyNames, TidyCur, TidyDone, TidyHeld, OnlyFromPartner,
         Sifted, GonePartnerNeverExits, Held

\* Whoever is accepted waited in the queue.
LEMMA AcceptedWaited == IInv /\ Accept => backlog # <<>>
  BY DEF Accept, handleNewConnection, handleNewConnection_refused,
         handleNewConnection_nofd, IInv, AcceptHasClient

\* The one session that waits to be accepted has no descriptors.
LEMMA OneSessionIsTidy == OneSession /\ IInv /\ SessInv => TidyAccepts
<1> SUFFICES ASSUME OneSession, IInv, SessInv, backlog # <<>>
             PROVE  \A f \in Fd : sock[f] = NULL
  BY DEF TidyAccepts, Whole, IInv, HashmapTracksOpenFds
<1>1. backlog \in Seq(Session)
  BY DEF IInv, TypeOK
<1>2. PICK k : k = Head(backlog)
  OBVIOUS
<1>3. k \in Session /\ 1 \in DOMAIN backlog /\ backlog[1] = k
  BY <1>1, <1>2, TailIs
<1>4. ~ Traced(k)
  BY <1>3 DEF SessInv, Queued
<1>5. \A f \in Fd : sock[f] # NULL => sock[f][1] = k
  BY <1>3 DEF OneSession, IInv, TypeOK, Endpoint
<1> QED BY <1>4, <1>5 DEF SessInv

\* Every step keeps the meaning of the names, and ends no process.
LEMMA NextTidyNames ==
    ASSUME Accept => Whole, IInv, IInv', SessInv, TidyInv, [Next]_vars
    PROVE  TidyNames' /\ TidyCur' /\ TidyDone' /\ GonePartnerNeverExits'
<1> USE NullAssumption, ConstAssumption
<1> DEFINE Goal == TidyNames' /\ TidyCur' /\ TidyDone' /\ GonePartnerNeverExits'
<1>1. /\ DOMAIN hashmap = Fd /\ DOMAIN sock = Fd
      /\ \A f \in Fd : hashmap[f] # NULL => hashmap[f].sd \in Fd
      /\ cur # NULL => cur.sd \in Fd /\ cur.partner.sd \in Fd
      /\ \A f \in Fd : sock[f] # NULL <=> hashmap[f] # NULL
  BY DEF IInv, TypeOK, partner_s, Locals, HashmapTracksOpenFds
\* Steps that leave names and descriptors alone.
<1>2. ASSUME UNCHANGED <<hashmap, sock, cur, isDone>>, status' # "exit" PROVE Goal
  BY <1>2 DEF TidyInv, TidyNames, TidyCur, TidyDone, Partner, GonePartnerNeverExits
<1>3. CASE handleNewConnection
  <2>1. PICK k \in Session, cin, cout \in Fd :
              /\ backlog # <<>> /\ cin # cout /\ sock[cin] = NULL /\ sock[cout] = NULL
              /\ sock' = [sock EXCEPT ![cin] = <<k, "in">>, ![cout] = <<k, "out">>]
              /\ hashmap' = NewEntries(cin, cout)
    BY <1>3, AcceptStep
  <2>2. /\ sock'[cin] = <<k, "in">> /\ sock'[cout] = <<k, "out">>
        /\ \A f \in Fd \ {cin, cout} : sock'[f] = sock[f]
    BY <1>1, <2>1
  <2>3. /\ hashmap'[cin].sd = cout /\ hashmap'[cout].sd = cin
        /\ \A f \in Fd \ {cin, cout} : hashmap'[f] = hashmap[f]
    BY <1>1, <2>1 DEF NewEntries, NewPartner
  <2>4. <<k, "in">> # NULL /\ <<k, "out">> # NULL
    BY DEF Endpoint
  <2>5. \A f \in Fd : sock'[f] # NULL <=> hashmap'[f] # NULL
    BY DEF IInv, HashmapTracksOpenFds
  <2>6. cur' = NULL /\ status' = "up"
    BY <1>3 DEF handleNewConnection, Up
  <2>7. Partner(<<k, "in">>) = <<k, "out">> /\ Partner(<<k, "out">>) = <<k, "in">>
    BY DEF Partner
  \* The free numbers are in no record.
  <2>8. \A f \in Fd \ {cin, cout} : sock[f] # NULL =>
           hashmap[f].sd \in Fd \ {cin, cout} /\ sock[hashmap[f].sd] # NULL
    BY <1>1, <1>3, <2>1 DEF Accept, Whole
  <2>9. TidyNames'
    <3>1. SUFFICES ASSUME NEW f \in Fd, sock'[f] # NULL
                   PROVE  sock'[hashmap'[f].sd] = Partner(sock'[f])
      BY DEF TidyNames, Partner
    <3>2. CASE f \in {cin, cout}
      BY <2>2, <2>3, <2>7, <3>2
    <3>3. CASE f \notin {cin, cout}
      <4>1. /\ sock'[f] = sock[f] /\ hashmap'[f] = hashmap[f] /\ sock[f] # NULL
            /\ hashmap[f].sd \in Fd \ {cin, cout} /\ sock[hashmap[f].sd] # NULL
        BY <2>2, <2>3, <2>8, <3>1, <3>3, Zenon
      <4>2. sock'[hashmap[f].sd] = sock[hashmap[f].sd]
        BY <2>2, <4>1
      <4>3. sock[hashmap[f].sd] = Partner(sock[f])
        BY <4>1 DEF TidyInv, TidyNames
      <4> QED BY <4>1, <4>2, <4>3
    <3> QED BY <3>2, <3>3
  <2>10. \A f \in Fd : sock'[f] # NULL => hashmap'[hashmap'[f].sd] # NULL
    <3>1. SUFFICES ASSUME NEW f \in Fd, sock'[f] # NULL
                   PROVE  hashmap'[f].sd \in Fd /\ sock'[hashmap'[f].sd] # NULL
      BY <2>5, Zenon
    <3>2. CASE f \in {cin, cout}
      BY <2>2, <2>3, <2>4, <3>2
    <3>3. CASE f \notin {cin, cout}
      BY <2>2, <2>3, <2>8, <3>1, <3>3, Zenon
    <3> QED BY <3>2, <3>3
  <2> QED
    BY <2>6, <2>9, <2>10 DEF TidyCur, TidyDone, GonePartnerNeverExits
<1>4. CASE handleNewConnection_refused \/ handleNewConnection_nofd
  <2>1. /\ backlog # <<>> /\ cur' = NULL /\ status' = "up"
        /\ hashmap' = hashmap /\ sock' = sock
    BY <1>4
    DEF handleNewConnection_refused, handleNewConnection_nofd, Up, IInv, AcceptHasClient
  <2>2. \A f \in Fd : sock[f] # NULL => hashmap[hashmap[f].sd] # NULL
    BY <1>1, <1>4 DEF Accept, Whole
  <2> QED
    BY <2>1, <2>2
    DEF TidyInv, TidyNames, TidyCur, TidyDone, GonePartnerNeverExits, Partner
<1>5. ASSUME NEW sd \in Fd, activate_read(sd) PROVE Goal
  <2>1. /\ \A f \in Fd : hashmap'[f] # NULL <=> hashmap[f] # NULL
        /\ \A f \in Fd : hashmap'[f].sd = hashmap[f].sd
        /\ UNCHANGED <<sock, isDone, status>> /\ Up
    <3>1. sock' = sock /\ isDone' = isDone /\ status' = status /\ Up
      BY <1>5 DEF activate_read, InPart
    <3>2. \A f \in Fd : hashmap'[f].sd = hashmap[f].sd
      BY <1>1, <1>5 DEF activate_read
    <3>3. \A f \in Fd : sock'[f] # NULL <=> hashmap'[f] # NULL
      BY DEF IInv, HashmapTracksOpenFds
    <3> QED BY <1>1, <3>1, <3>2, <3>3
  <2>2. cur' = NULL \/ (cur'.sd = sd /\ cur'.partner.sd = hashmap[sd].sd)
    BY <1>5 DEF activate_read, ThenOut
  <2>3. hashmap[sd] # NULL
    BY <1>5 DEF activate_read, InPart
  <2>4. TidyNames'
    BY <1>1, <2>1 DEF TidyInv, TidyNames, Partner
  <2>5. TidyCur' /\ TidyDone'
    BY <1>1, <2>1, <2>2, <2>3 DEF TidyInv, TidyCur, TidyDone
  <2> QED BY <2>1, <2>4, <2>5 DEF Up, GonePartnerNeverExits
<1>6. ASSUME NEW sd \in Fd, activate_eof(sd) \/ activate_close(sd) PROVE Goal
  <2>1. /\ sock' = [sock EXCEPT ![sd] = NULL] /\ hashmap' = [hashmap EXCEPT ![sd] = NULL]
        /\ isDone' = 1 /\ status' # "exit"
        /\ cur' = NULL \/ cur'.sd = sd
    BY <1>6
    DEF activate_eof, activate_close, closeConnections, removeEntry, markDone,
        StatusAfterFree, InPart, OutPart, Up, ThenOut, OutDone
  <2>2. TidyNames'
    BY <1>1, <2>1 DEF TidyInv, TidyNames, Partner
  <2> QED BY <1>1, <2>1, <2>2 DEF TidyCur, TidyDone, GonePartnerNeverExits
<1>7. ASSUME NEW sd \in Fd, activate_write(sd) PROVE Goal
  <2>1. /\ hashmap' = [hashmap EXCEPT ![partner(sd).sd] = Flushed(hashmap[partner(sd).sd])]
        /\ sock' = sock /\ isDone' = isDone /\ cur' = NULL /\ status' # "exit"
    BY <1>7 DEF activate_write, handleWrite, me, OutDone, StatusAfterFree
  <2>2. \A f \in Fd : hashmap'[f].sd = hashmap[f].sd
    BY <1>1, <2>1 DEF Flushed
  <2>3. \A f \in Fd : sock'[f] # NULL <=> hashmap'[f] # NULL
    BY DEF IInv, HashmapTracksOpenFds
  <2>4. TidyNames'
    BY <1>1, <2>1, <2>2, <2>3 DEF TidyInv, TidyNames, Partner
  <2> QED
    BY <1>1, <2>1, <2>2, <2>3, <2>4 DEF TidyInv, TidyCur, TidyDone, GonePartnerNeverExits
\* The two lookups that would end the process both find their entry.
<1>8. ASSUME NEW sd \in Fd, activate_exit(sd) PROVE FALSE
  <2>1. ~ UnknownFd(sd)
    BY DEF UnknownFd, IInv, EventsHaveEntries
  <2>2. ~ LostPartner(sd)
    BY <1>1 DEF LostPartner, OutPart, me, partner, TidyInv, TidyDone
  <2> QED BY <1>8, <2>1, <2>2 DEF activate_exit
<1>9. CASE tproxy_ready \/ exit_handler \/ UNCHANGED vars
  BY <1>2, <1>9
  DEF tproxy_ready, exit_handler, procVars, pollVars, vars, Up, TidyInv,
      GonePartnerNeverExits
<1>10. ASSUME NEW sd \in Fd, activate_nomem(sd) PROVE Goal
  BY <1>2, <1>10 DEF activate_nomem, pollVars
<1>11. CASE Peers
  <2>1. EnvUnchanged /\ Up
    BY <1>11 DEF Peers, Connect, Answer, PeerSend, PeerRead, PeerClose
  <2> QED BY <1>2, <2>1 DEF EnvUnchanged, procVars, pollVars, Up
<1> QED
  BY <1>3, <1>4, <1>5, <1>6, <1>7, <1>8, <1>9, <1>10, <1>11
  DEF Next, Proxy, ProxyStep, Failure

\* A step that moves no unit: records are dropped, or made with nothing in them.
MovesNoUnit ==
    /\ dlv' = dlv
    /\ \A f \in Fd : \/ hashmap'[f] = NULL
                     \/ hashmap'[f] = hashmap[f] /\ sock'[f] = sock[f]
                     \/ hashmap'[f].data = <<>>

\* Every step keeps the order of what is held and what was sent on.
LEMMA TidyDataFrame ==
    ASSUME TidyHeld, OnlyFromPartner, MovesNoUnit
    PROVE  TidyHeld' /\ OnlyFromPartner'
<1> USE DEF MovesNoUnit
<1>1. \A f \in Fd : Held(f)' /\ DOMAIN hashmap'[f].data # {}
         => Held(f) /\ hashmap'[f] = hashmap[f] /\ sock'[f] = sock[f]
  BY DEF Held
<1>2. OnlyFromPartner'
  BY DEF OnlyFromPartner, Sifted
<1>3. TidyHeld'
  BY <1>1 DEF TidyHeld, Partner
<1> QED BY <1>2, <1>3

\* handleRead takes newer units of this end's peer.
LEMMA TidyDataRead ==
    ASSUME IInv, DataInv, TidyHeld, OnlyFromPartner, NEW sd \in Fd, activate_read(sd)
    PROVE  TidyHeld' /\ OnlyFromPartner'
<1> USE NullAssumption, ConstAssumption
<1>1. PICK e : e = sock[sd]
  OBVIOUS
<1>2. PICK n : n = Least(Avail(e), PageSize)
  OBVIOUS
<1>3. e \in Endpoint /\ n \in Nat /\ rcvd[e] \in Nat
  BY <1>1, <1>2
  DEF activate_read, InPart, Avail, Least, IInv, TypeOK, HashmapTracksOpenFds
<1>4. /\ hashmap' = [hashmap EXCEPT ![sd] = [sd |-> hashmap[sd].sd, bufsize |-> n,
                                            buf |-> "live", data |-> Received(e, n)]]
      /\ dlv' = dlv /\ sock' = sock
  BY <1>1, <1>2 DEF activate_read
<1>5. /\ hashmap'[sd].data = Received(e, n)
      /\ \A f \in Fd \ {sd} : hashmap'[f] = hashmap[f]
  BY <1>4 DEF IInv, TypeOK
<1>6. /\ DOMAIN Received(e, n) = 1 .. n
      /\ \A i \in 1 .. n : Received(e, n)[i] = <<e, rcvd[e] + i>>
  BY DEF Received
<1>7. OnlyFromPartner'
  BY <1>4 DEF OnlyFromPartner, Sifted
<1>8. \A j \in DOMAIN dlv[Partner(e)] :
         dlv[Partner(e)][j][2] \in Nat /\ dlv[Partner(e)][j][2] <= rcvd[e]
  <2>1. Partner(e) \in Endpoint /\ Partner(Partner(e)) = e
    BY <1>3, PartnerIs
  <2>2. \A j \in DOMAIN dlv[Partner(e)] : dlv[Partner(e)][j][1] = e
    BY <2>1 DEF OnlyFromPartner, Sifted
  <2>3. \A j \in DOMAIN dlv[Partner(e)] : dlv[Partner(e)][j][2] \in Nat
    BY <2>1, UnitParts
  <2> QED BY <2>1, <2>2, <2>3 DEF DataInv, DlvReceived
<1>9. TidyHeld'
  <2>1. SUFFICES ASSUME NEW f \in Fd, Held(f)', NEW i \in DOMAIN hashmap'[f].data
                 PROVE  /\ hashmap'[f].data[i][1] = sock[f]
                        /\ \A j \in 1 .. i - 1 :
                              hashmap'[f].data[j][2] < hashmap'[f].data[i][2]
                        /\ \A j \in DOMAIN dlv[Partner(sock[f])] :
                              dlv[Partner(sock[f])][j][2] < hashmap'[f].data[i][2]
    BY <1>4 DEF TidyHeld, Partner
  <2>2. CASE f = sd
    <3>1. /\ i \in 1 .. n
          /\ hashmap'[f].data[i][1] = e /\ hashmap'[f].data[i][2] = rcvd[e] + i
      <4>1. i \in 1 .. n /\ hashmap'[f].data[i] = <<e, rcvd[e] + i>>
        BY <1>5, <1>6, <2>1, <2>2
      <4> QED BY <4>1
    <3>2. \A j \in 1 .. i - 1 : hashmap'[f].data[j][2] = rcvd[e] + j
      <4>1. SUFFICES ASSUME NEW j \in 1 .. i - 1 PROVE hashmap'[f].data[j][2] = rcvd[e] + j
        OBVIOUS
      <4>2. j \in 1 .. n
        BY <1>3, <3>1
      <4>3. hashmap'[f].data[j] = <<e, rcvd[e] + j>>
        BY <1>5, <1>6, <2>2, <4>2
      <4> QED BY <4>3
    <3>3. \A j \in 1 .. i - 1 : hashmap'[f].data[j][2] < hashmap'[f].data[i][2]
      BY <1>3, <3>1, <3>2
    <3>4. sock[f] = e
      BY <1>1, <2>2
    <3>5. \A j \in DOMAIN dlv[Partner(e)] : dlv[Partner(e)][j][2] < hashmap'[f].data[i][2]
      BY <1>3, <1>8, <3>1
    <3> QED BY <3>1, <3>3, <3>4, <3>5
  <2>3. CASE f # sd
    BY <1>5, <2>1, <2>3 DEF Held, TidyHeld
  <2> QED BY <2>2, <2>3
<1> QED BY <1>7, <1>9

\* handleWrite sends them to that peer's partner.
LEMMA TidyDataWrite ==
    ASSUME IInv, SessInv, TidyInv, NEW sd \in Fd, activate_write(sd)
    PROVE  TidyHeld' /\ OnlyFromPartner'
<1> USE NullAssumption
<1>1. PICK g : g = partner(sd).sd
  OBVIOUS
<1>2. PICK rec : rec = me(sd)
  OBVIOUS
<1>3. PICK m : m = Accepted(sd, rec.bufsize)
  OBVIOUS
<1>4. PICK e : e = sock[sd]
  OBVIOUS
<1>5. g \in Fd /\ rec = hashmap[g] /\ Held(g) /\ rec \in partner_s
      /\ rec.bufsize = Len(rec.data) /\ rec.data \in Seq(Unit)
  <2>1. g \in Fd
    BY <1>1 DEF activate_write, OutPart, partner, IInv, TypeOK, partner_s, Locals
  <2>2. rec = hashmap[g] /\ Held(g)
    BY <1>1, <1>2 DEF activate_write, me, Held
  <2> QED BY <2>1, <2>2, UnitParts DEF IInv, TypeOK, BufsizeIsLength, Held
<1>6. /\ hashmap' = [hashmap EXCEPT ![g] = Flushed(rec)] /\ sock' = sock
      /\ dlv' = IF m > 0 THEN [dlv EXCEPT ![e] = dlv[e] \o SubSeq(rec.data, 1, m)] ELSE dlv
  BY <1>1, <1>2, <1>3, <1>4 DEF activate_write, handleWrite
<1>7. hashmap'[g].data = <<>> /\ \A f \in Fd \ {g} : hashmap'[f] = hashmap[f]
  BY <1>5, <1>6 DEF Flushed, IInv, TypeOK
<1>8. CASE ~ (m > 0)
  BY <1>5, <1>6, <1>7, <1>8, TidyDataFrame DEF TidyInv, MovesNoUnit
<1>9. CASE m > 0
  <2>1. e \in Endpoint /\ m \in 1 .. Len(rec.data)
    <3>1. e \in Endpoint
      BY <1>3, <1>4, <1>9 DEF Accepted, IInv, TypeOK
    <3>2. Len(dlv[e]) \in Nat /\ seen[e] \in Nat
      BY <3>1 DEF IInv, TypeOK
    <3>3. Space(e) \in Int /\ rec.bufsize \in Nat
      BY <1>5, <3>2, ConstAssumption DEF Space, partner_s
    <3>4. m = Least(rec.bufsize, Space(e))
      BY <1>3, <1>4, <1>9 DEF Accepted
    <3> QED BY <1>5, <1>9, <3>1, <3>3, <3>4 DEF Least
  \* The record is that of the other end of the same session.
  <2>2. sock[g] = Partner(e)
    <3>1. sock[sd] # NULL /\ sock[g] # NULL
      BY <1>4, <1>5, <2>1 DEF IInv, HashmapTracksOpenFds, Held
    <3>2. g = hashmap[sd].sd
      BY <1>1, <3>1 DEF activate_write, OutPart, partner, TidyInv, TidyCur
    <3> QED BY <1>4, <3>1, <3>2 DEF TidyInv, TidyNames
  <2>3. PICK L : L = Len(dlv[e])
    OBVIOUS
  <2>4. /\ L \in Nat /\ DOMAIN dlv[e] = 1 .. L
        /\ DOMAIN dlv'[e] = 1 .. L + m
        /\ \A i \in 1 .. L : dlv'[e][i] = dlv[e][i]
        /\ \A i \in L + 1 .. L + m : dlv'[e][i] = rec.data[i - L]
    <3>1. dlv \in [Endpoint -> Seq(Unit)] /\ dlv[e] \in Seq(Unit)
      BY <2>1 DEF IInv, TypeOK
    <3>2. dlv'[e] = dlv[e] \o SubSeq(rec.data, 1, m)
      BY <1>6, <1>9, <2>1, <3>1
    <3>3. /\ SubSeq(rec.data, 1, m) \in Seq(Unit) /\ Len(SubSeq(rec.data, 1, m)) = m
          /\ \A i \in 1 .. m : SubSeq(rec.data, 1, m)[i] = rec.data[i]
      BY <1>5, <2>1
    <3> QED BY <2>1, <2>3, <3>1, <3>2, <3>3
  <2>5. \A d \in Endpoint : d # e => dlv'[d] = dlv[d]
    BY <1>6, <1>9 DEF IInv, TypeOK
  <2>6. \A i \in 1 .. m :
           /\ i \in DOMAIN rec.data
           /\ rec.data[i][1] = Partner(e)
           /\ \A j \in 1 .. i - 1 : rec.data[j][2] < rec.data[i][2]
           /\ \A j \in 1 .. L : dlv[e][j][2] < rec.data[i][2]
    <3>1. Partner(sock[g]) = e
      BY <2>1, <2>2, PartnerIs
    <3>2. \A i \in 1 .. m : i \in DOMAIN hashmap[g].data
      BY <1>5, <2>1
    <3> QED BY <1>5, <2>2, <2>4, <3>1, <3>2 DEF TidyInv, TidyHeld
  <2>7. \A i \in 1 .. L : /\ dlv[e][i][1] = Partner(e)
                          /\ \A j \in 1 .. i - 1 : dlv[e][j][2] < dlv[e][i][2]
    BY <2>1, <2>4 DEF TidyInv, OnlyFromPartner, Sifted
  <2>8. ASSUME NEW i \in 1 .. L + m
        PROVE  /\ dlv'[e][i][1] = Partner(e)
               /\ \A j \in 1 .. i - 1 : dlv'[e][j][2] < dlv'[e][i][2]
    <3>1. CASE i \in 1 .. L
      <4>1. \A j \in 1 .. i - 1 : j \in 1 .. L
        BY <2>4, <3>1
      <4> QED BY <2>4, <2>7, <3>1, <4>1
    <3>2. CASE i \in L + 1 .. L + m
      <4>1. i - L \in 1 .. m /\ dlv'[e][i] = rec.data[i - L]
        BY <2>1, <2>4, <3>2
      <4>2. ASSUME NEW j \in 1 .. i - 1 PROVE dlv'[e][j][2] < dlv'[e][i][2]
        <5>1. CASE j \in 1 .. L
          BY <2>4, <2>6, <4>1, <5>1
        <5>2. CASE j \in L + 1 .. L + m
          <6>1. j - L \in 1 .. (i - L) - 1 /\ dlv'[e][j] = rec.data[j - L]
            BY <2>1, <2>4, <3>2, <4>2, <5>2
          <6> QED BY <2>6, <4>1, <6>1
        <5> QED BY <2>1, <2>4, <3>2, <5>1, <5>2
      <4> QED BY <2>6, <4>1, <4>2
    <3> QED BY <2>1, <2>4, <2>8, <3>1, <3>2
  <2>9. OnlyFromPartner'
    <3>1. SUFFICES ASSUME NEW d \in Endpoint, NEW i \in DOMAIN dlv'[d]
                   PROVE  /\ dlv'[d][i][1] = Partner(d)
                          /\ \A j \in 1 .. i - 1 : dlv'[d][j][2] < dlv'[d][i][2]
      BY DEF OnlyFromPartner, Sifted, Partner
    <3>2. CASE d = e
      BY <2>4, <2>8, <3>1, <3>2
    <3>3. CASE d # e
      BY <2>5, <3>1, <3>3 DEF TidyInv, OnlyFromPartner, Sifted
    <3> QED BY <3>2, <3>3
  <2>10. TidyHeld'
    <3>1. SUFFICES ASSUME NEW f \in Fd, Held(f)', NEW i \in DOMAIN hashmap'[f].data
                   PROVE  /\ hashmap'[f].data[i][1] = sock[f]
                          /\ \A j \in 1 .. i - 1 :
                                hashmap'[f].data[j][2] < hashmap'[f].data[i][2]
                          /\ \A j \in DOMAIN dlv'[Partner(sock[f])] :
                                dlv'[Partner(sock[f])][j][2] < hashmap'[f].data[i][2]
      <4>1. \A f : sock'[f] = sock[f] /\ Partner(sock[f])' = Partner(sock[f])
        BY <1>6 DEF Partner
      <4> QED BY <4>1, Zenon DEF TidyHeld
    <3>2. f # g /\ Held(f) /\ hashmap'[f] = hashmap[f]
      BY <1>5, <1>7, <3>1 DEF Held
    <3>3. sock[f] \in Endpoint /\ sock[f] # sock[g]
      BY <1>5, <3>2 DEF SessInv, IInv, TypeOK, HashmapTracksOpenFds, Held
    <3>4. Partner(sock[f]) \in Endpoint /\ Partner(sock[f]) # e
      BY <2>2, <3>3, PartnerIs
    <3>5. dlv'[Partner(sock[f])] = dlv[Partner(sock[f])]
      BY <2>5, <3>4
    <3> QED BY <3>1, <3>2, <3>5 DEF TidyInv, TidyHeld
  <2> QED BY <2>9, <2>10
<1> QED BY <1>8, <1>9

\* Every step keeps the units of a session together and in order.
LEMMA NextTidyData ==
    ASSUME IInv, IInv', SessInv, DataInv, TidyInv, [Next]_vars
    PROVE  TidyHeld' /\ OnlyFromPartner'
<1>1. ASSUME handleNewConnection PROVE MovesNoUnit
  BY <1>1 DEF handleNewConnection, NewEntries, NewPartner, IInv, TypeOK, MovesNoUnit
<1>2. ASSUME NEW sd \in Fd, activate_eof(sd) \/ activate_close(sd) PROVE MovesNoUnit
  <2>1. /\ sock' = [sock EXCEPT ![sd] = NULL] /\ hashmap' = [hashmap EXCEPT ![sd] = NULL]
        /\ dlv' = dlv
    BY <1>2 DEF activate_eof, activate_close, closeConnections, removeEntry
  <2>2. DOMAIN sock = Fd /\ DOMAIN hashmap = Fd
    BY DEF IInv, TypeOK
  <2>3. hashmap'[sd] = NULL /\ \A f \in Fd \ {sd} : hashmap'[f] = hashmap[f] /\ sock'[f] = sock[f]
    BY <2>1, <2>2
  <2> QED BY <2>1, <2>3 DEF MovesNoUnit
<1>3. ASSUME Peers PROVE MovesNoUnit
  BY <1>3
  DEF Peers, Connect, Answer, PeerSend, PeerRead, PeerClose, EnvUnchanged, procVars,
      MovesNoUnit
<1>4. \/ MovesNoUnit
      \/ \E sd \in Fd : activate_read(sd) \/ activate_write(sd)
  <2>1. ASSUME UNCHANGED <<dlv, hashmap, sock>> PROVE MovesNoUnit
    BY <2>1 DEF MovesNoUnit
  <2> QED
    BY <1>1, <1>2, <1>3, <2>1
    DEF Next, Proxy, ProxyStep, Failure, tproxy_ready, handleNewConnection_refused,
        handleNewConnection_nofd, activate_exit, activate_nomem, exit_handler,
        procVars, vars
<1>5. ASSUME MovesNoUnit PROVE TidyHeld' /\ OnlyFromPartner'
  BY <1>5, TidyDataFrame DEF TidyInv
<1>6. ASSUME NEW sd \in Fd, activate_read(sd) PROVE TidyHeld' /\ OnlyFromPartner'
  BY <1>6, TidyDataRead DEF TidyInv
<1>7. ASSUME NEW sd \in Fd, activate_write(sd) PROVE TidyHeld' /\ OnlyFromPartner'
  BY <1>7, TidyDataWrite
<1> QED BY <1>4, <1>5, <1>6, <1>7

\* As long as sessions are accepted tidily, every step keeps records tidy.
LEMMA NextTidyIfWhole ==
    ASSUME Accept => Whole, IInv, SessInv, DataInv, TidyInv, [Next]_vars
    PROVE  TidyInv'
<1>1. IInv'
  BY NextIInv
<1> QED BY <1>1, NextTidyNames, NextTidyData DEF TidyInv

\* In particular when nobody even waits while a session is half closed.
LEMMA NextTidy ==
    TidyAccepts /\ IInv /\ SessInv /\ DataInv /\ TidyInv /\ [Next]_vars => TidyInv'
  BY AcceptedWaited, NextTidyIfWhole DEF TidyAccepts

-----------------------------------------------------------------------------
(* The history variable. *)

\* The history variable only watches.
LEMMA HNextIsNext == [HNext]_hvars => [Next]_vars
  BY DEF HNext, hvars

\* Whatever TProxy keeps it keeps when watched.
LEMMA HSpecBase == HSpec => [](IInv /\ SessInv /\ DataInv)
<1>1. HSpec => Spec
  BY HNextIsNext, PTL DEF HSpec, HInit, Spec
<1> QED BY <1>1, SpecSess, SpecData, PTL

\* While the history is tidy, so are the records.
LEMMA HSpecTidy == HSpec => [](tidy => TidyInv)
<1>1. HInit => (tidy => TidyInv)
  BY InitTidy DEF HInit
<1>2. IInv /\ SessInv /\ DataInv /\ (tidy => TidyInv) /\ [HNext]_hvars
         => (tidy' => TidyInv')
  <2> SUFFICES ASSUME IInv, SessInv, DataInv, tidy => TidyInv, [HNext]_hvars, tidy'
               PROVE  TidyInv'
    OBVIOUS
  <2>1. CASE HNext
    BY <2>1, NextTidyIfWhole DEF HNext
  <2>2. CASE UNCHANGED hvars
    BY <2>2
    DEF hvars, vars, TidyInv, TidyNames, TidyCur, TidyDone, TidyHeld, Held, OnlyFromPartner,
        Sifted, Partner, GonePartnerNeverExits
  <2> QED BY <2>1, <2>2
<1> QED BY <1>1, <1>2, HSpecBase, PTL DEF HSpec

\* While no client is accepted between the two closes of another session, each
\* end is sent nothing but what the other one sent, in that order, whatever the
\* peers do: in full duplex, with resets, with pages and buffers of any size,
\* and however descriptor numbers are used again.
THEOREM TidySessionsInOrder == HSpec => []TidyInOrder
<1>1. (tidy => TidyInv) => TidyInOrder
  BY DEF TidyInv, TidyInOrder
<1> QED BY <1>1, HSpecTidy, PTL

\* Nor does the end of a connection end the process: the other end's EPOLLOUT
\* finds isDone set.
THEOREM TidySessionsNeverExit == HSpec => []TidyNeverExits
<1>1. (tidy => TidyInv) => TidyNeverExits
  BY DEF TidyInv, TidyNeverExits
<1> QED BY <1>1, HSpecTidy, PTL

\* A proxy that serves one connection in its life is always tidy: its client is
\* accepted when no descriptor is open.
THEOREM OneConnectionIsTidy == OneSession => (HSpec => []tidy)
<1> SUFFICES ASSUME OneSession PROVE HSpec => []tidy
  OBVIOUS
<1>1. HInit => tidy
  BY DEF HInit
<1>2. IInv /\ SessInv /\ tidy /\ [HNext]_hvars => tidy'
  BY OneSessionIsTidy, AcceptedWaited DEF TidyAccepts, HNext, hvars
<1> QED BY <1>1, <1>2, HSpecBase, PTL DEF HSpec
=============================================================================
