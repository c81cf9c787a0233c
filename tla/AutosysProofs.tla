--------------------------- MODULE AutosysProofs ---------------------------
(***************************************************************************)
(* What TLAPS proves of the proxies as the simulation uses them: polite    *)
(* dialogues, one after the other through tropeaproxy (TProxyLockstep) or  *)
(* side by side through autosys (Autosys), with none opened while another  *)
(* one is being closed. Then nothing fails or is lost, and the proxy       *)
(* implements Relay, for every set of sessions and descriptors and every   *)
(* size of messages, pages and buffers.                                    *)
(***************************************************************************)
EXTENDS Autosys, TProxySessionProofs

Speaks(e) == turn[e[1]] = e[2]

\* The end that does not speak has nothing under way, and has not left.
LQuiet ==
    \A e \in Endpoint : ~ Speaks(e) => sent[e] = Len(dlv[Partner(e)]) /\ ~ Ended(e)

\* An end leaves when nothing is under way, and the other one stays.
LLeft ==
    \A e \in Endpoint : Ended(e) =>
        /\ sent[e] = Len(dlv[Partner(e)]) /\ sent[Partner(e)] = Len(dlv[e])
        /\ peer[Partner(e)] = "open"

\* A session that was not accepted has moved nothing and contacted nobody; one
\* that was refused is hung up on.
LFresh ==
    \A k \in Session :
        /\ ~ Traced(k) =>
              /\ peer[<<k, "out">>] = "idle"
              /\ \A e \in {<<k, "in">>, <<k, "out">>} :
                    rcvd[e] = 0 /\ dlv[e] = <<>> /\ e \notin eof
        /\ Traced(k) /\ peer[<<k, "out">>] = "idle" => <<k, "in">> \in eof

\* What reached an end is the other one's units from the first on.
LHeard ==
    \A e \in Endpoint :
        /\ rcvd[e] <= sent[e]
        /\ \A i \in DOMAIN dlv[e] : dlv[e][i] = <<Partner(e), i>>

\* What the record of descriptor f holds are the units that follow.
HeldAt(f) ==
    /\ sock[f] \notin eof /\ peer[<<sock[f][1], "out">>] # "idle"
    /\ rcvd[sock[f]] = Len(dlv[Partner(sock[f])]) + hashmap[f].bufsize
    /\ hashmap[f].bufsize <= PageSize
    /\ hashmap[f].bufsize > 0 => hashmap[f].buf = "live"
    /\ \A i \in DOMAIN hashmap[f].data :
          hashmap[f].data[i] = <<sock[f], Len(dlv[Partner(sock[f])]) + i>>

\* What f is registered for, at any time: for nothing while what it sent is held;
\* for EPOLLOUT too while something is held for it, or once its other end has
\* left and is closed; else for EPOLLIN.
RegAt(f) ==
    LET g == hashmap[f].sd
    IN  \/ /\ sock[g] # NULL
           /\ ined[f] = IF hashmap[f].bufsize > 0 THEN {}
                        ELSE IF hashmap[g].bufsize > 0 THEN Ev ELSE {"IN"}
        \/ /\ sock[g] = NULL /\ ined[f] = Ev
           /\ Ended(Partner(sock[f])) /\ Partner(sock[f]) \in eof

\* An event that was collected is still true when it is handled.
BatchAt(f) ==
    /\ batch[f] \subseteq ined[f]
    /\ "IN" \in batch[f] => Readable(sock[f])
    /\ "OUT" \in batch[f] => Writable(sock[f])

LHeld  == \A f \in Fd : sock[f] # NULL => HeldAt(f)
LReg   == \A f \in Fd : sock[f] # NULL => RegAt(f)
LBatch == \A f \in Fd : BatchAt(f)

LAccepts == backlog # <<>> => Settled

LInv ==
    /\ turn \in [Session -> {"in", "out"}]
    /\ Up /\ cur = NULL
    /\ LQuiet /\ LLeft /\ LFresh /\ LHeard /\ LHeld /\ LReg /\ LBatch /\ LAccepts

\* What is special to one session after the other.
LSolo ==
    /\ Len(backlog) <= 1
    /\ backlog # <<>> => \A f \in Fd : sock[f] = NULL
    /\ \A e \in Endpoint : peer[e] # "idle" /\ Traced(e[1]) /\ e \notin eof
          => \E f \in Fd : sock[f] = e

\* What holds in every environment.
Base == IInv /\ SessInv /\ DataInv /\ PairsNameEachOther

-----------------------------------------------------------------------------
(* Both uses are environments that TProxy allows. *)

\* A step of the spaced use is a step of TProxy, or changes nothing it knows of.
LEMMA SpacedIsNext == [SpacedNext]_lvars => [Next]_vars
<1>1. Dialogue => Peers \/ UNCHANGED vars
  BY DEF Dialogue, LAnswer, LSend, LRead, TakeTurn, Peers
<1>2. as_proxy => Proxy
  BY DEF as_proxy, as_ready, as_handleNewConnection, as_activateAs_in, as_activateAs_out,
         as_handleRead, as_closeConnections, as_handleWrite, Proxy, ProxyStep
<1>3. ASSUME NEW e \in Endpoint, NEW how \in {"fin", "rst"}, LClose(e, how) PROVE Peers
  BY <1>3 DEF LClose, Peers
<1>4. ASSUME NEW k \in Session, Connect(k) PROVE Peers
  BY <1>4 DEF Peers
<1> QED BY <1>1, <1>2, <1>3, <1>4 DEF SpacedNext, Next, lvars

\* So is a step of the lockstep use.
LEMMA LNextIsNext == [LNext]_lvars => [Next]_vars
<1>1. LPeers => Peers \/ UNCHANGED vars
  BY DEF LPeers, LConnect, LAnswer, LSend, LRead, TakeTurn, LClose, Peers
<1> QED BY <1>1 DEF LNext, LProxy, Next, lvars

-----------------------------------------------------------------------------
(* What the invariant says of one descriptor. *)

\* The types of counters, of what was delivered, and of the fields of a record.
LEMMA NumbersAre ==
    ASSUME IInv
    PROVE  /\ \A e \in Endpoint : /\ sent[e] \in Nat /\ rcvd[e] \in Nat /\ seen[e] \in Nat
                                  /\ dlv[e] \in Seq(Unit) /\ Len(dlv[e]) \in Nat
           /\ \A f \in Fd : hashmap[f] # NULL =>
                /\ hashmap[f] \in partner_s /\ hashmap[f].sd \in Fd
                /\ hashmap[f].bufsize \in Nat /\ hashmap[f].data \in Seq(Unit)
                /\ hashmap[f].bufsize = Len(hashmap[f].data)
                /\ DOMAIN hashmap[f].data = 1 .. hashmap[f].bufsize
  BY DEF IInv, TypeOK, partner_s, BufsizeIsLength

\* An open descriptor belongs to an end and has a record; the number in the record
\* is that of the other end, which names this one, or is closed.
LEMMA OpenEnd ==
    ASSUME Base, TidyInv, NEW f \in Fd, sock[f] # NULL
    PROVE  /\ sock[f] \in Endpoint /\ Partner(sock[f]) \in Endpoint
           /\ hashmap[f] # NULL /\ hashmap[f].sd \in Fd \ {f}
           /\ sock[hashmap[f].sd] # NULL =>
                /\ sock[hashmap[f].sd] = Partner(sock[f])
                /\ hashmap[hashmap[f].sd] # NULL
                /\ hashmap[hashmap[f].sd].sd = f
<1>1. sock[f] \in Endpoint /\ hashmap[f] # NULL
  BY DEF Base, IInv, TypeOK, HashmapTracksOpenFds
<1>2. Partner(sock[f]) \in Endpoint /\ Partner(sock[f]) # sock[f]
  BY <1>1, PartnerIs
<1>3. hashmap[f].sd \in Fd
  BY <1>1, NumbersAre DEF Base
<1>4. sock[hashmap[f].sd] # NULL =>
         sock[hashmap[f].sd] = Partner(sock[f]) /\ hashmap[hashmap[f].sd].sd = f
  BY <1>3 DEF TidyInv, TidyNames, Base, PairsNameEachOther
<1>5. hashmap[f].sd # f
  BY <1>2, <1>4
<1>6. sock[hashmap[f].sd] # NULL => hashmap[hashmap[f].sd] # NULL
  BY <1>3 DEF Base, IInv, HashmapTracksOpenFds
<1> QED BY <1>1, <1>2, <1>3, <1>4, <1>5, <1>6

\* Of the two ends of a session it is one's turn.
LEMMA OneSpeaks ==
    ASSUME LInv, NEW e \in Endpoint
    PROVE  Speaks(Partner(e)) <=> ~ Speaks(e)
  BY DEF LInv, Endpoint, Speaks, Partner

\* An end that has nothing under way has nothing held or unread.
LEMMA SilentEnd ==
    ASSUME Base, TidyInv, LInv, NEW f \in Fd, sock[f] # NULL,
           sent[sock[f]] = Len(dlv[Partner(sock[f])])
    PROVE  hashmap[f].bufsize = 0 /\ Avail(sock[f]) = 0
<1>1. /\ sock[f] \in Endpoint /\ Partner(sock[f]) \in Endpoint /\ hashmap[f] # NULL
  BY OpenEnd
<1>2. /\ rcvd[sock[f]] = Len(dlv[Partner(sock[f])]) + hashmap[f].bufsize
      /\ rcvd[sock[f]] <= sent[sock[f]]
  BY <1>1 DEF LInv, LHeld, HeldAt, LHeard
<1>3. /\ rcvd[sock[f]] \in Nat /\ Len(dlv[Partner(sock[f])]) \in Nat
      /\ sent[sock[f]] \in Nat /\ hashmap[f].bufsize \in Nat
  BY <1>1, NumbersAre DEF Base
<1> QED BY <1>2, <1>3 DEF Avail

\* While something is held from an end, that end speaks, both are there, and
\* the other one is silent.
LEMMA BusyEnd ==
    ASSUME Base, TidyInv, LInv, NEW f \in Fd, sock[f] # NULL, hashmap[f].bufsize > 0
    PROVE  /\ Speaks(sock[f]) /\ ~ Speaks(Partner(sock[f]))
           /\ ~ Ended(sock[f]) /\ ~ Ended(Partner(sock[f]))
           /\ sock[hashmap[f].sd] # NULL
           /\ hashmap[hashmap[f].sd].bufsize = 0
           /\ Avail(Partner(sock[f])) = 0
<1>1. /\ sock[f] \in Endpoint /\ Partner(sock[f]) \in Endpoint
      /\ Partner(Partner(sock[f])) = sock[f]
  BY OpenEnd, PartnerIs
<1>2. sent[sock[f]] # Len(dlv[Partner(sock[f])])
  <2>1. hashmap[f].bufsize # 0
    OBVIOUS
  <2> QED BY <2>1, SilentEnd
<1>3. Speaks(sock[f]) /\ ~ Ended(sock[f]) /\ ~ Ended(Partner(sock[f]))
  BY <1>1, <1>2 DEF LInv, LQuiet, LLeft
<1>4. ~ Speaks(Partner(sock[f]))
  BY <1>1, <1>3, OneSpeaks
<1>5. sock[hashmap[f].sd] # NULL
  BY <1>3 DEF LInv, LReg, RegAt
<1>6. hashmap[f].sd \in Fd /\ sock[hashmap[f].sd] = Partner(sock[f])
  BY <1>5, OpenEnd
<1>7. sent[Partner(sock[f])] = Len(dlv[Partner(Partner(sock[f]))])
  BY <1>1, <1>4 DEF LInv, LQuiet
<1>8. hashmap[hashmap[f].sd].bufsize = 0 /\ Avail(sock[hashmap[f].sd]) = 0
  BY <1>5, <1>6, <1>7, SilentEnd
<1> QED BY <1>3, <1>4, <1>5, <1>6, <1>8

\* A descriptor that is to be read belongs to the end that speaks. Nothing is
\* held on either side, and it is not to be written as well.
LEMMA InEvent ==
    ASSUME Base, TidyInv, LInv, NEW f \in Fd, "IN" \in batch[f]
    PROVE  /\ sock[f] # NULL /\ Readable(sock[f]) /\ Speaks(sock[f])
           /\ "OUT" \notin batch[f]
           /\ sock[hashmap[f].sd] # NULL
           /\ hashmap[f].bufsize = 0 /\ hashmap[hashmap[f].sd].bufsize = 0
           /\ ~ Ended(Partner(sock[f]))
<1>1. sock[f] # NULL /\ Readable(sock[f]) /\ batch[f] \subseteq ined[f]
  BY DEF Base, IInv, EventsHaveEntries, HashmapTracksOpenFds, LInv, LBatch, BatchAt
<1>2. /\ sock[f] \in Endpoint /\ Partner(sock[f]) \in Endpoint
      /\ Partner(Partner(sock[f])) = sock[f] /\ hashmap[f].sd \in Fd
      /\ hashmap[f] # NULL
  BY <1>1, OpenEnd, PartnerIs
<1>3. Ended(Partner(sock[f])) => ~ Readable(sock[f])
  <2>1. ASSUME Ended(Partner(sock[f]))
        PROVE  sent[sock[f]] = Len(dlv[Partner(sock[f])]) /\ peer[sock[f]] = "open"
    BY <1>2, <2>1 DEF LInv, LLeft
  <2>2. ASSUME Ended(Partner(sock[f])) PROVE Avail(sock[f]) = 0 /\ ~ Ended(sock[f])
    BY <1>1, <2>1, <2>2, SilentEnd DEF Ended
  <2> QED BY <2>2 DEF Readable
<1>4. ~ Ended(Partner(sock[f])) /\ sock[hashmap[f].sd] # NULL
  BY <1>1, <1>3 DEF LInv, LReg, RegAt
<1>5. Speaks(sock[f])
  <2>1. ASSUME ~ Speaks(sock[f]) PROVE Avail(sock[f]) = 0 /\ ~ Ended(sock[f])
    BY <1>1, <1>2, <2>1, SilentEnd DEF LInv, LQuiet
  <2> QED BY <1>1, <2>1 DEF Readable
<1>6. hashmap[f].bufsize \in Nat /\ hashmap[hashmap[f].sd].bufsize \in Nat
  BY <1>1, <1>2, <1>4, OpenEnd, NumbersAre DEF Base
<1>7. ined[f] = IF hashmap[f].bufsize > 0 THEN {}
                ELSE IF hashmap[hashmap[f].sd].bufsize > 0 THEN Ev ELSE {"IN"}
  BY <1>1, <1>4 DEF LInv, LReg, RegAt
<1>8. hashmap[f].bufsize = 0
  BY <1>1, <1>6, <1>7
<1>9. hashmap[hashmap[f].sd].bufsize = 0
  <2>1. CASE hashmap[hashmap[f].sd].bufsize > 0
    <3>1. sock[hashmap[f].sd] = Partner(sock[f])
      BY <1>1, <1>4, OpenEnd
    <3>2. ~ Speaks(Partner(Partner(sock[f])))
      BY <1>2, <1>4, <2>1, <3>1, BusyEnd
    <3> QED BY <1>2, <1>5, <3>2
  <2> QED BY <1>6, <2>1
<1>10. "OUT" \notin batch[f]
  BY <1>1, <1>7, <1>8, <1>9
<1> QED BY <1>1, <1>4, <1>5, <1>8, <1>9, <1>10

\* A descriptor that is to be written is silent and open. Either something is
\* held for it, and there is room for all of that, or its other end is gone.
LEMMA OutEvent ==
    ASSUME Base, TidyInv, LInv, NEW f \in Fd, "OUT" \in batch[f]
    PROVE  /\ sock[f] # NULL /\ hashmap[f].bufsize = 0 /\ batch[f] = {"OUT"}
           /\ \/ /\ sock[hashmap[f].sd] # NULL
                 /\ hashmap[hashmap[f].sd].bufsize > 0
                 /\ hashmap[hashmap[f].sd].buf = "live"
                 /\ peer[sock[f]] = "open"
                 /\ Accepted(f, hashmap[hashmap[f].sd].bufsize)
                       = hashmap[hashmap[f].sd].bufsize
              \/ /\ sock[hashmap[f].sd] = NULL
                 /\ Ended(Partner(sock[f])) /\ Partner(sock[f]) \in eof
<1>1. /\ sock[f] # NULL /\ Writable(sock[f]) /\ batch[f] \subseteq ined[f]
      /\ batch[f] \subseteq Ev
  BY DEF Base, IInv, TypeOK, EventsHaveEntries, HashmapTracksOpenFds, LInv, LBatch, BatchAt
<1>2. batch[f] = {"OUT"}
  BY <1>1, InEvent DEF Ev
<1>3. /\ sock[f] \in Endpoint /\ Partner(sock[f]) \in Endpoint
      /\ Partner(Partner(sock[f])) = sock[f] /\ hashmap[f].sd \in Fd
      /\ hashmap[f] # NULL
  BY <1>1, OpenEnd, PartnerIs
<1>4. CASE sock[hashmap[f].sd] # NULL
  <2>1. ined[f] = IF hashmap[f].bufsize > 0 THEN {}
                  ELSE IF hashmap[hashmap[f].sd].bufsize > 0 THEN Ev ELSE {"IN"}
    BY <1>1, <1>4 DEF LInv, LReg, RegAt
  <2>2. hashmap[f].bufsize \in Nat /\ hashmap[hashmap[f].sd].bufsize \in Nat
    BY <1>1, <1>3, <1>4, OpenEnd, NumbersAre DEF Base
  <2>3. hashmap[f].bufsize = 0 /\ hashmap[hashmap[f].sd].bufsize > 0
    BY <1>1, <2>1, <2>2
  <2>4. ~ Ended(sock[f])
    BY <1>1, <1>3, <1>4, <2>3, OpenEnd, BusyEnd
  <2>5. peer[sock[f]] = "open" /\ Space(sock[f]) >= LowWater
    BY <1>1, <2>4 DEF Writable
  <2>6. /\ hashmap[hashmap[f].sd].buf = "live"
        /\ hashmap[hashmap[f].sd].bufsize <= PageSize
    BY <1>3, <1>4, <2>3 DEF LInv, LHeld, HeldAt
  <2>7. Space(sock[f]) \in Int
    BY <1>3, NumbersAre, ConstAssumption DEF Base, Space
  <2>8. hashmap[hashmap[f].sd].bufsize <= Space(sock[f])
    BY <2>2, <2>5, <2>6, <2>7, ConstAssumption, PageFits
  <2>9. Accepted(f, hashmap[hashmap[f].sd].bufsize) = hashmap[hashmap[f].sd].bufsize
    BY <1>1, <2>5, <2>8 DEF Accepted, Least
  <2> QED BY <1>1, <1>2, <1>4, <2>3, <2>5, <2>6, <2>9
<1>5. CASE sock[hashmap[f].sd] = NULL
  <2>1. Ended(Partner(sock[f])) /\ Partner(sock[f]) \in eof
    BY <1>1, <1>5 DEF LInv, LReg, RegAt
  <2>2. sent[sock[f]] = Len(dlv[Partner(sock[f])])
    BY <1>3, <2>1 DEF LInv, LLeft
  <2>3. hashmap[f].bufsize = 0
    BY <1>1, <2>2, SilentEnd
  <2> QED BY <1>1, <1>2, <1>5, <2>1, <2>3
<1> QED BY <1>4, <1>5

\* Accepting is tidy.
LEMMA SpacedIsTidy == Base /\ TidyInv /\ LInv => TidyAccepts
<1> SUFFICES ASSUME Base, TidyInv, LInv, backlog # <<>>, NEW f \in Fd, sock[f] # NULL
             PROVE  sock[hashmap[f].sd] # NULL
  BY DEF TidyAccepts, Whole, Base, IInv, HashmapTracksOpenFds
<1>1. Partner(sock[f]) \notin eof
  BY DEF LInv, LAccepts, Settled
<1> QED BY <1>1 DEF LInv, LReg, RegAt

-----------------------------------------------------------------------------
(* The invariant: initially, and after a step of a peer. *)

\* At the start there are no descriptors.
LEMMA InitLInv == LInit => LInv
<1> SUFFICES ASSUME LInit PROVE LInv
  OBVIOUS
<1> USE ConstAssumption, NullAssumption DEF LInit, Init
<1>1. turn \in [Session -> {"in", "out"}] /\ Up /\ cur = NULL
  BY DEF Up
<1>2. \A e \in Endpoint : /\ Partner(e) \in Endpoint /\ ~ Ended(e)
                          /\ sent[e] = 0 /\ rcvd[e] = 0 /\ dlv[e] = <<>>
  BY PartnerIs DEF Ended
<1>3. LQuiet /\ LLeft /\ LHeard
  BY <1>2 DEF LQuiet, LLeft, LHeard
<1>4. LFresh
  <2>1. \A k \in Session : <<k, "in">> \in Endpoint /\ <<k, "out">> \in Endpoint
    BY DEF Endpoint
  <2>2. \A k \in Session : ~ Traced(k)
    BY DEF Traced
  <2> QED BY <1>2, <2>1, <2>2 DEF LFresh
<1>5. LHeld /\ LReg /\ LBatch /\ LAccepts
  BY DEF LHeld, HeldAt, LReg, RegAt, LBatch, BatchAt, LAccepts, asockin
<1> QED BY <1>1, <1>3, <1>4, <1>5 DEF LInv

\* What the steps of the peers have in common: what was true of a connection
\* and made the proxy act is still true.
LEMMA PeerFrame ==
    ASSUME Base, LInv,
           UNCHANGED <<hashmap, ined, batch, cur, status, traces, sock, eof, rcvd, dlv>>,
           \A e \in Endpoint : /\ sent[e] <= sent'[e] /\ sent'[e] \in Nat
                               /\ Ended(e) => Ended(e)'
                               /\ Readable(e) => Readable(e)'
                               /\ Writable(e) => Writable(e)',
           \A k \in Session : peer[<<k, "out">>] = "idle" <=> peer'[<<k, "out">>] = "idle"
    PROVE  /\ Up' /\ cur' = NULL
           /\ LFresh' /\ LHeard' /\ LHeld' /\ LReg' /\ LBatch'
<1> USE NullAssumption
<1>1. Up' /\ cur' = NULL
  BY DEF LInv, Up
<1>2. LFresh'
  <2>1. \A k : Traced(k)' <=> Traced(k)
    BY DEF Traced
  <2> QED BY <2>1 DEF LInv, LFresh
<1>3. LHeard'
  BY NumbersAre DEF Base, LInv, LHeard, Partner
<1>4. \A f \in Fd : sock[f] # NULL => sock[f] \in Endpoint /\ sock[f][1] \in Session
                                     /\ Partner(sock[f]) \in Endpoint
  BY PartnerIs DEF Base, IInv, TypeOK, Endpoint
<1>5. LHeld'
  BY <1>4 DEF LInv, LHeld, HeldAt, Partner
<1>6. LReg'
  <2>1. SUFFICES ASSUME NEW f \in Fd, sock[f] # NULL
                 PROVE  \/ /\ sock[hashmap[f].sd] # NULL
                           /\ ined[f] = IF hashmap[f].bufsize > 0 THEN {}
                                        ELSE IF hashmap[hashmap[f].sd].bufsize > 0
                                             THEN Ev ELSE {"IN"}
                        \/ /\ sock[hashmap[f].sd] = NULL /\ ined[f] = Ev
                           /\ Ended(Partner(sock[f]))' /\ Partner(sock[f]) \in eof
    BY DEF LReg, RegAt, Partner
  <2>2. PICK d : d = Partner(sock[f])
    OBVIOUS
  <2>3. Ended(d) => Ended(Partner(sock[f]))'
    <3>1. d = Partner(sock[f])'
      BY <2>2 DEF Partner
    <3>2. Ended(d) => Ended(d)'
      BY <1>4, <2>1, <2>2
    <3> QED BY <3>1, <3>2 DEF Ended
  <2> QED BY <2>1, <2>2, <2>3 DEF LInv, LReg, RegAt
<1>7. LBatch'
  <2>1. SUFFICES ASSUME NEW f \in Fd
                 PROVE  /\ batch[f] \subseteq ined[f]
                        /\ "IN" \in batch[f] => Readable(sock[f])'
                        /\ "OUT" \in batch[f] => Writable(sock[f])'
    BY DEF LBatch, BatchAt
  <2>2. PICK d : d = sock[f]
    OBVIOUS
  <2>3. batch[f] # {} => d \in Endpoint
    BY <2>2 DEF Base, IInv, TypeOK, EventsHaveEntries, HashmapTracksOpenFds
  <2>4. (Readable(d)' => Readable(sock[f])') /\ (Writable(d)' => Writable(sock[f])')
    <3>1. d = sock'[f]
      BY <2>2
    <3> QED BY <3>1 DEF Readable, Writable, Avail, Ended, Space
  <2> QED BY <2>2, <2>3, <2>4 DEF LInv, LBatch, BatchAt
<1> QED BY <1>1, <1>2, <1>3, <1>5, <1>6, <1>7

\* The ends of a session answer, send, read and take turns.
LEMMA DialogueLInv ==
    ASSUME Base, TidyInv, LInv, Dialogue
    PROVE  LInv'
<1> USE NullAssumption, ConstAssumption
<1>1. /\ \A d \in Endpoint : /\ Partner(d) \in Endpoint /\ Partner(Partner(d)) = d
                             /\ Partner(d) # d /\ d[1] \in Session
      /\ peer \in [Endpoint -> {"idle", "syn", "open", "fin", "rst"}]
      /\ sent \in [Endpoint -> Nat] /\ seen \in [Endpoint -> Nat]
      /\ \A d \in Endpoint : rcvd[d] \in Nat /\ Len(dlv[d]) \in Nat
      /\ turn \in [Session -> {"in", "out"}]
      /\ \A k \in Session : <<k, "in">> \in Endpoint /\ <<k, "out">> \in Endpoint
  BY PartnerIs, NumbersAre DEF Base, IInv, TypeOK, Endpoint, LInv
<1>2. ASSUME NEW k \in Session, LAnswer(k) PROVE LInv'
  <2>1. /\ peer[<<k, "out">>] = "syn" /\ peer' = [peer EXCEPT ![<<k, "out">>] = "open"]
        /\ UNCHANGED <<hashmap, ined, batch, cur, status, traces, sock, eof, rcvd, dlv,
                       backlog, sent, seen, turn>>
    BY <1>2 DEF LAnswer, Answer, EnvUnchanged, procVars, pollVars
  <2>2. \A d \in Endpoint : /\ Ended(d)' <=> Ended(d)
                            /\ peer[d] = "open" => peer'[d] = "open"
    BY <1>1, <2>1 DEF Ended
  <2>3. \A d \in Endpoint : /\ Readable(d) => Readable(d)'
                            /\ Writable(d) => Writable(d)'
    BY <2>1, <2>2 DEF Readable, Writable, Avail, Space
  <2>4. \A l \in Session : peer[<<l, "out">>] = "idle" <=> peer'[<<l, "out">>] = "idle"
    BY <1>1, <2>1
  <2>5. /\ Up' /\ cur' = NULL
        /\ LFresh' /\ LHeard' /\ LHeld' /\ LReg' /\ LBatch'
    BY <1>1, <2>1, <2>2, <2>3, <2>4, PeerFrame
  <2>6. LQuiet' /\ LLeft'
    BY <1>1, <2>1, <2>2 DEF LInv, LQuiet, LLeft, Speaks, Partner
  <2>7. LAccepts'
    BY <2>1, <2>2 DEF LInv, LAccepts, Settled, Partner, Base, IInv, TypeOK
  <2> QED BY <1>1, <2>1, <2>5, <2>6, <2>7 DEF LInv
<1>3. ASSUME NEW e \in Endpoint, LSend(e) PROVE LInv'
  <2>1. /\ Speaks(e) /\ peer[e] = "open" /\ sent' = [sent EXCEPT ![e] = sent[e] + 1]
        /\ UNCHANGED <<hashmap, ined, batch, cur, status, traces, sock, eof, rcvd, dlv,
                       backlog, peer, seen, turn>>
    BY <1>3 DEF LSend, PeerSend, EnvUnchanged, procVars, pollVars, Speaks
  <2>2. \A d \in Endpoint : sent[d] <= sent'[d] /\ sent'[d] \in Nat
    BY <1>1, <2>1
  <2>3. \A d \in Endpoint : /\ Ended(d)' <=> Ended(d)
                            /\ Readable(d) => Readable(d)'
                            /\ Writable(d) => Writable(d)'
    BY <1>1, <2>1, <2>2 DEF Readable, Writable, Avail, Space, Ended
  <2>4. /\ Up' /\ cur' = NULL
        /\ LFresh' /\ LHeard' /\ LHeld' /\ LReg' /\ LBatch'
    BY <2>1, <2>2, <2>3, PeerFrame
  <2>5. ~ Speaks(Partner(e)) /\ ~ Ended(e) /\ ~ Ended(Partner(e))
    BY <1>1, <2>1, OneSpeaks DEF LInv, LQuiet, Ended
  <2>6. \A d \in Endpoint : d # e => sent'[d] = sent[d]
    BY <1>1, <2>1
  <2>7. LQuiet'
    BY <1>1, <2>1, <2>3, <2>6 DEF LInv, LQuiet, Speaks, Partner
  <2>8. LLeft'
    <3>1. SUFFICES ASSUME NEW d \in Endpoint, Ended(d)
                   PROVE  /\ sent'[d] = Len(dlv[Partner(d)])
                          /\ sent'[Partner(d)] = Len(dlv[d]) /\ peer[Partner(d)] = "open"
      BY <2>1, <2>3 DEF LLeft, Partner
    <3>2. d # e /\ Partner(d) # e
      BY <1>1, <2>5, <3>1
    <3> QED BY <1>1, <2>6, <3>1, <3>2 DEF LInv, LLeft
  <2>9. LAccepts'
    BY <2>1, <2>3 DEF LInv, LAccepts, Settled, Partner, Base, IInv, TypeOK
  <2> QED BY <1>1, <2>1, <2>4, <2>7, <2>8, <2>9 DEF LInv
<1>4. ASSUME NEW e \in Endpoint, LRead(e) PROVE LInv'
  <2>1. /\ seen[e] < Len(dlv[e]) /\ seen' = [seen EXCEPT ![e] = Len(dlv[e])]
        /\ UNCHANGED <<hashmap, ined, batch, cur, status, traces, sock, eof, rcvd, dlv,
                       backlog, peer, sent, turn>>
    BY <1>4 DEF LRead, PeerRead, EnvUnchanged, procVars, pollVars
  <2>2. \A d \in Endpoint : Space(d)' >= Space(d) /\ Space(d) \in Int /\ Space(d)' \in Int
    <3>1. SUFFICES ASSUME NEW d \in Endpoint
                   PROVE  Space(d)' >= Space(d) /\ Space(d) \in Int /\ Space(d)' \in Int
      OBVIOUS
    <3>2. PICK l, a, b : l = Len(dlv[d]) /\ a = seen[d] /\ b = seen'[d]
      OBVIOUS
    <3>3. l \in Nat /\ a \in Nat /\ b \in Nat /\ b >= a
      BY <1>1, <2>1, <3>2
    <3>4. Space(d) = SndBuf - (l - a) /\ Space(d)' = SndBuf - (l - b)
      BY <2>1, <3>2 DEF Space
    <3>5. SndBuf \in Nat
      BY <1>1
    <3> QED BY <3>3, <3>4, <3>5
  <2>3. \A d \in Endpoint : /\ Ended(d)' <=> Ended(d)
                            /\ Readable(d) => Readable(d)'
                            /\ Writable(d) => Writable(d)'
    BY <2>1, <2>2 DEF Readable, Writable, Avail, Ended
  <2>4. /\ Up' /\ cur' = NULL
        /\ LFresh' /\ LHeard' /\ LHeld' /\ LReg' /\ LBatch'
    BY <1>1, <2>1, <2>3, PeerFrame
  <2>5. LQuiet' /\ LLeft'
    BY <1>1, <2>1, <2>3 DEF LInv, LQuiet, LLeft, Speaks, Partner
  <2>6. LAccepts'
    BY <2>1, <2>3 DEF LInv, LAccepts, Settled, Partner, Base, IInv, TypeOK
  <2> QED BY <1>1, <2>1, <2>4, <2>5, <2>6 DEF LInv
<1>5. ASSUME NEW e \in Endpoint, TakeTurn(e) PROVE LInv'
  <2>1. /\ sent[Partner(e)] = Len(dlv[e]) /\ ~ Ended(Partner(e))
        /\ turn' = [turn EXCEPT ![e[1]] = e[2]]
        /\ UNCHANGED vars
    BY <1>5 DEF TakeTurn, AllArrived
  <2>2. /\ Up' /\ cur' = NULL /\ LLeft' /\ LAccepts'
        /\ LFresh' /\ LHeard' /\ LHeld' /\ LReg' /\ LBatch'
    BY <2>1
    DEF vars, LInv, Up, LLeft, LFresh, LHeard, LHeld, HeldAt, LReg, RegAt, LBatch,
        BatchAt, LAccepts, Settled,
        Traced, Partner, Ended, Readable, Writable, Avail, Space
  <2>3. turn' \in [Session -> {"in", "out"}]
    BY <1>1, <2>1 DEF Endpoint
  <2>4. LQuiet'
    <3>1. SUFFICES ASSUME NEW d \in Endpoint, ~ Speaks(d)'
                   PROVE  sent[d] = Len(dlv[Partner(d)]) /\ ~ Ended(d)
      BY <2>1 DEF LQuiet, vars, Partner, Ended
    <3>2. CASE d[1] = e[1]
      <4>1. turn'[e[1]] = e[2]
        BY <1>1, <2>1
      <4>2. d[2] # e[2]
        BY <3>1, <3>2, <4>1 DEF Speaks
      <4>3. d = Partner(e)
        BY <3>2, <4>2 DEF Endpoint, Partner
      <4> QED BY <1>1, <2>1, <4>3
    <3>3. CASE d[1] # e[1]
      <4>1. turn'[d[1]] = turn[d[1]]
        BY <1>1, <2>1, <3>3
      <4> QED BY <3>1, <4>1 DEF Speaks, LInv, LQuiet
    <3> QED BY <3>2, <3>3
  <2> QED BY <2>2, <2>3, <2>4 DEF LInv
<1> QED BY <1>2, <1>3, <1>4, <1>5 DEF Dialogue

\* A client connects while no session is being closed.
LEMMA ConnectLInv ==
    ASSUME Base, LInv, NEW k \in Session, Settled, Connect(k), UNCHANGED turn
    PROVE  LInv'
<1> USE NullAssumption
<1>1. /\ \A d \in Endpoint : Partner(d) \in Endpoint
      /\ peer \in [Endpoint -> {"idle", "syn", "open", "fin", "rst"}]
      /\ \A d \in Endpoint : sent[d] \in Nat
      /\ \A l \in Session : <<l, "in">> \in Endpoint /\ <<l, "out">> \in Endpoint
  BY PartnerIs, NumbersAre DEF Base, IInv, TypeOK, Endpoint
<1>2. /\ peer[<<k, "in">>] = "idle" /\ peer' = [peer EXCEPT ![<<k, "in">>] = "open"]
      /\ UNCHANGED <<hashmap, ined, batch, cur, status, traces, sock, eof, rcvd, dlv,
                     sent, seen, turn>>
  BY DEF Connect, EnvUnchanged, procVars, pollVars
<1>3. \A d \in Endpoint : /\ Ended(d)' <=> Ended(d)
                          /\ peer[d] = "open" => peer'[d] = "open"
  BY <1>1, <1>2 DEF Ended
<1>4. \A d \in Endpoint : /\ Readable(d) => Readable(d)'
                          /\ Writable(d) => Writable(d)'
  BY <1>2, <1>3 DEF Readable, Writable, Avail, Space
<1>5. \A l \in Session : peer[<<l, "out">>] = "idle" <=> peer'[<<l, "out">>] = "idle"
  BY <1>1, <1>2
<1>6. /\ Up' /\ cur' = NULL
      /\ LFresh' /\ LHeard' /\ LHeld' /\ LReg' /\ LBatch'
  BY <1>1, <1>2, <1>3, <1>4, <1>5, PeerFrame
<1>7. LQuiet' /\ LLeft'
  BY <1>1, <1>2, <1>3 DEF LInv, LQuiet, LLeft, Speaks, Partner
<1>8. LAccepts'
  BY <1>2, <1>3 DEF LAccepts, Settled, Partner, Base, IInv, TypeOK
<1> QED BY <1>2, <1>6, <1>7, <1>8 DEF LInv

\* An end leaves when nothing is under way and nobody waits to be accepted.
LEMMA LeaveLInv ==
    ASSUME Base, LInv, NEW e \in Endpoint, NEW how \in {"fin", "rst"}, LClose(e, how),
           backlog = <<>>
    PROVE  LInv'
<1> USE NullAssumption
<1>1. /\ \A d \in Endpoint : Partner(d) \in Endpoint /\ Partner(Partner(d)) = d
      /\ Partner(e) # e
      /\ peer \in [Endpoint -> {"idle", "syn", "open", "fin", "rst"}]
      /\ \A d \in Endpoint : sent[d] \in Nat
      /\ \A l \in Session : <<l, "in">> \in Endpoint /\ <<l, "out">> \in Endpoint
  BY PartnerIs, NumbersAre DEF Base, IInv, TypeOK, Endpoint
<1>2. /\ peer[e] = "open" /\ peer' = [peer EXCEPT ![e] = how]
      /\ Speaks(e) /\ peer[Partner(e)] = "open"
      /\ sent[Partner(e)] = Len(dlv[e]) /\ sent[e] = Len(dlv[Partner(e)])
      /\ UNCHANGED <<hashmap, ined, batch, cur, status, traces, sock, eof, rcvd, dlv,
                     backlog, sent, seen, turn>>
  BY <1>1
  DEF LClose, PeerClose, EnvUnchanged, procVars, pollVars, Speaks, AllArrived
<1>3. \A d \in Endpoint : /\ Ended(d)' <=> Ended(d) \/ d = e
                          /\ d # e => peer'[d] = peer[d]
  BY <1>1, <1>2 DEF Ended
<1>4. \A d \in Endpoint : /\ Readable(d) => Readable(d)'
                          /\ Writable(d) => Writable(d)'
  BY <1>2, <1>3 DEF Readable, Writable, Avail, Space
<1>5. \A l \in Session : peer[<<l, "out">>] = "idle" <=> peer'[<<l, "out">>] = "idle"
  BY <1>1, <1>2
<1>6. /\ Up' /\ cur' = NULL
      /\ LFresh' /\ LHeard' /\ LHeld' /\ LReg' /\ LBatch'
  BY <1>1, <1>2, <1>3, <1>4, <1>5, PeerFrame
<1>7. LQuiet'
  BY <1>1, <1>2, <1>3 DEF LInv, LQuiet, Speaks, Partner
<1>8. LLeft'
  <2>1. SUFFICES ASSUME NEW d \in Endpoint, Ended(d)'
                 PROVE  /\ sent[d] = Len(dlv[Partner(d)]) /\ sent[Partner(d)] = Len(dlv[d])
                        /\ peer'[Partner(d)] = "open"
    BY <1>2 DEF LLeft, Partner
  <2>2. CASE d = e
    BY <1>1, <1>2, <1>3, <2>2
  <2>3. CASE d # e
    <3>1. Ended(d)
      BY <1>3, <2>1, <2>3
    <3>2. Partner(d) # e
      BY <1>1, <1>2, <3>1 DEF Ended
    <3> QED BY <1>1, <1>3, <3>1, <3>2 DEF LInv, LLeft
  <2> QED BY <2>2, <2>3
<1>9. LAccepts'
  BY <1>2 DEF LAccepts
<1> QED BY <1>2, <1>6, <1>7, <1>8, <1>9 DEF LInv

-----------------------------------------------------------------------------
(* The invariant after a step of the proxy. *)

\* Numbers that belong to other connections are in nobody else's record.
LEMMA OtherPairs ==
    ASSUME Base, TidyInv, NEW sd \in Fd, sock[sd] # NULL,
           NEW f \in Fd, sock[f] # NULL, f # sd, f # hashmap[sd].sd
    PROVE  /\ hashmap[f].sd # sd
           /\ sock[hashmap[sd].sd] # NULL => hashmap[f].sd # hashmap[sd].sd
  BY OpenEnd

\* Steps that leave all connections alone.
LEMMA ReadyLInv ==
    ASSUME Base, LInv, tproxy_ready, UNCHANGED turn
    PROVE  LInv'
<1>1. /\ batch' = [f \in DOMAIN batch |-> Ready(f)]
      /\ UNCHANGED <<hashmap, ined, cur, status, traces, sock, eof, rcvd, dlv, backlog, sent,
                     seen, peer>>
  BY DEF tproxy_ready, procVars, netVars
<1>2. /\ Up' /\ cur' = NULL /\ LQuiet' /\ LLeft' /\ LFresh' /\ LHeard' /\ LHeld' /\ LReg'
      /\ LAccepts'
  BY <1>1
  DEF LInv, Up, LQuiet, LLeft, LFresh, LHeard, LHeld, HeldAt, LReg, RegAt, LAccepts, Settled,
      Traced, Partner, Ended, Speaks
<1>3. LBatch'
  <2>1. SUFFICES ASSUME NEW f \in Fd
                 PROVE  /\ batch'[f] \subseteq ined[f]
                        /\ "IN" \in batch'[f] => Readable(sock[f])
                        /\ "OUT" \in batch'[f] => Writable(sock[f])
    BY <1>1 DEF LBatch, BatchAt, Readable, Writable, Avail, Ended, Space
  <2>2. batch'[f] = Ready(f) /\ f # asockin
    BY <1>1, ConstAssumption DEF Base, IInv, TypeOK
  <2> QED BY <2>2 DEF Ready
<1> QED BY <1>2, <1>3 DEF LInv

\* handleRead: a page from the end that speaks, then held for the other end.
LEMMA ReadLInv ==
    ASSUME Base, TidyInv, LInv, NEW sd \in Fd, activate_read(sd), UNCHANGED turn
    PROVE  LInv'
<1> USE NullAssumption, ConstAssumption
<1>1. PICK e : e = sock[sd]
  OBVIOUS
<1>2. PICK g : g = hashmap[sd].sd
  OBVIOUS
<1>3. PICK n : n = Least(Avail(e), PageSize)
  OBVIOUS
<1>4. /\ sock[sd] # NULL /\ Speaks(e) /\ "OUT" \notin batch[sd] /\ sock[g] # NULL
      /\ hashmap[sd].bufsize = 0 /\ hashmap[g].bufsize = 0
  BY <1>1, <1>2, InEvent DEF activate_read, InPart
<1>5. /\ e \in Endpoint /\ Partner(e) \in Endpoint /\ g \in Fd /\ g # sd
      /\ hashmap[g].sd = sd
  BY <1>1, <1>2, <1>4, OpenEnd
<1>6. /\ rcvd[e] \in Nat /\ sent[e] \in Nat /\ Len(dlv[Partner(e)]) \in Nat
      /\ rcvd[e] = Len(dlv[Partner(e)])
  <2>1. rcvd[e] = Len(dlv[Partner(e)]) + hashmap[sd].bufsize
    BY <1>1, <1>4 DEF LInv, LHeld, HeldAt
  <2> QED BY <1>4, <1>5, <2>1, NumbersAre DEF Base
<1>7. n \in Nat \ {0} /\ n <= PageSize /\ rcvd[e] + n <= sent[e]
  BY <1>1, <1>3, <1>6 DEF activate_read, Avail, Least
<1>8. /\ hashmap' = [hashmap EXCEPT ![sd] = [sd |-> g, bufsize |-> n,
                                            buf |-> "live", data |-> Received(e, n)]]
      /\ rcvd' = [rcvd EXCEPT ![e] = rcvd[e] + n]
      /\ ined' = resetEPOLL(setEPOLL(ined, g, Ev), sd)
      /\ batch' = [batch EXCEPT ![sd] = {}] /\ cur' = NULL
      /\ UNCHANGED <<backlog, peer, sent, seen, status, traces, sock, eof, dlv, turn>>
  BY <1>1, <1>2, <1>3, <1>4 DEF activate_read, ThenOut, netVars
<1>9. /\ hashmap'[sd].sd = g /\ hashmap'[sd].bufsize = n /\ hashmap'[sd].buf = "live"
      /\ hashmap'[sd].data = Received(e, n)
      /\ \A f \in Fd \ {sd} : hashmap'[f] = hashmap[f]
  BY <1>8 DEF Base, IInv, TypeOK
<1>10. /\ rcvd'[e] = rcvd[e] + n
       /\ \A d \in Endpoint : d # e => rcvd'[d] = rcvd[d]
  BY <1>5, <1>8 DEF Base, IInv, TypeOK
<1>11. /\ ined'[sd] = {} /\ ined'[g] = Ev /\ batch'[sd] = {}
       /\ \A f \in Fd \ {sd, g} : ined'[f] = ined[f]
       /\ \A f \in Fd \ {sd} : batch'[f] = batch[f]
  BY <1>4, <1>5, <1>8 DEF resetEPOLL, setEPOLL, Base, IInv, TypeOK
<1>12. \A f \in Fd \ {sd} : sock[f] # NULL =>
          sock[f] # e /\ sock[f] \in Endpoint /\ Partner(sock[f]) \in Endpoint
  BY <1>1, <1>4, OpenEnd DEF Base, SessInv
<1>13. Up' /\ cur' = NULL /\ LQuiet' /\ LLeft' /\ LAccepts'
  BY <1>8 DEF LInv, Up, LQuiet, LLeft, LAccepts, Settled, Partner, Ended, Speaks
<1>14. LFresh'
  <2>1. \A k : Traced(k)' <=> Traced(k)
    BY <1>8 DEF Traced
  <2>2. Traced(e[1])
    BY <1>1, <1>4 DEF Base, SessInv
  <2>3. \A k \in Session : ~ Traced(k) =>
           /\ <<k, "in">> # e /\ <<k, "out">> # e
           /\ <<k, "in">> \in Endpoint /\ <<k, "out">> \in Endpoint
    BY <2>2 DEF Endpoint
  <2> QED BY <1>8, <1>10, <2>1, <2>3 DEF LInv, LFresh
<1>15. LHeard'
  BY <1>7, <1>8, <1>10 DEF LInv, LHeard, Partner
<1>16. LHeld'
  <2>1. SUFFICES ASSUME NEW f \in Fd, sock[f] # NULL
                 PROVE  /\ sock[f] \notin eof /\ peer[<<sock[f][1], "out">>] # "idle"
                        /\ rcvd'[sock[f]] = Len(dlv[Partner(sock[f])]) + hashmap'[f].bufsize
                        /\ hashmap'[f].bufsize <= PageSize
                        /\ hashmap'[f].bufsize > 0 => hashmap'[f].buf = "live"
                        /\ \A i \in DOMAIN hashmap'[f].data :
                              hashmap'[f].data[i] = <<sock[f], Len(dlv[Partner(sock[f])]) + i>>
    BY <1>8 DEF LHeld, HeldAt, Partner
  <2>2. CASE f = sd
    <3>1. \A i \in DOMAIN Received(e, n) : Received(e, n)[i] = <<e, rcvd[e] + i>>
      BY DEF Received
    <3>2. sock[sd] \notin eof /\ peer[<<sock[sd][1], "out">>] # "idle"
      BY <1>4 DEF LInv, LHeld, HeldAt
    <3> QED BY <1>1, <1>6, <1>7, <1>9, <1>10, <2>2, <3>1, <3>2
  <2>3. CASE f # sd
    <3>1. hashmap'[f] = hashmap[f] /\ rcvd'[sock[f]] = rcvd[sock[f]]
      BY <1>9, <1>10, <1>12, <2>1, <2>3
    <3> QED BY <2>1, <3>1 DEF LInv, LHeld, HeldAt
  <2> QED BY <2>2, <2>3
<1>17. LReg'
  <2>1. SUFFICES ASSUME NEW f \in Fd, sock[f] # NULL
                 PROVE  \/ /\ sock[hashmap'[f].sd] # NULL
                           /\ ined'[f] = IF hashmap'[f].bufsize > 0 THEN {}
                                         ELSE IF hashmap'[hashmap'[f].sd].bufsize > 0
                                              THEN Ev ELSE {"IN"}
                        \/ /\ sock[hashmap'[f].sd] = NULL /\ ined'[f] = Ev
                           /\ Ended(Partner(sock[f])) /\ Partner(sock[f]) \in eof
    BY <1>8 DEF LReg, RegAt, Partner, Ended
  <2>2. CASE f = sd
    <3>1. hashmap'[f].sd = g /\ hashmap'[f].bufsize = n /\ ined'[f] = {}
      BY <1>9, <1>11, <2>2
    <3>2. n > 0
      BY <1>7
    <3> QED BY <1>4, <3>1, <3>2
  <2>3. CASE f = g
    BY <1>4, <1>5, <1>7, <1>9, <1>11, <2>3
  <2>4. CASE f # sd /\ f # g
    <3>1. hashmap[f].sd # sd
      BY <1>2, <1>4, <2>1, <2>4, OtherPairs
    <3>2. hashmap[f].sd \in Fd
      BY <2>1, OpenEnd
    <3>3. hashmap'[f] = hashmap[f] /\ hashmap'[hashmap[f].sd] = hashmap[hashmap[f].sd]
      BY <1>9, <2>4, <3>1, <3>2
    <3> QED BY <1>11, <2>1, <2>4, <3>3 DEF LInv, LReg, RegAt
  <2> QED BY <2>2, <2>3, <2>4
<1>18. LBatch'
  <2>1. SUFFICES ASSUME NEW f \in Fd
                 PROVE  /\ batch'[f] \subseteq ined'[f]
                        /\ "IN" \in batch'[f] => Readable(sock[f])'
                        /\ "OUT" \in batch'[f] => Writable(sock[f])'
    BY DEF LBatch, BatchAt
  <2>2. CASE f = sd
    BY <1>11, <2>2
  <2>3. CASE f # sd
    <3>1. batch'[f] \subseteq ined'[f]
      BY <1>11, <2>3 DEF LInv, LBatch, BatchAt, Base, IInv, TypeOK
    <3>2. batch[f] # {} => sock[f] # NULL
      BY DEF Base, IInv, EventsHaveEntries, HashmapTracksOpenFds
    <3>3. batch[f] # {} => (Readable(sock[f])' <=> Readable(sock[f]))
      BY <1>8, <1>10, <1>12, <2>3, <3>2 DEF Readable, Avail, Ended
    <3>4. Writable(sock[f])' <=> Writable(sock[f])
      BY <1>8 DEF Writable, Space, Ended
    <3> QED BY <1>11, <2>3, <3>1, <3>3, <3>4 DEF LInv, LBatch, BatchAt
  <2> QED BY <2>2, <2>3
<1> QED
  BY <1>8, <1>13, <1>14, <1>15, <1>16, <1>17, <1>18 DEF LInv

\* A connection a step does not touch.
LEMMA OtherConn ==
    ASSUME Base, LInv, NEW f \in Fd, sock[f] # NULL, NEW g, g = hashmap[f].sd,
           sock'[f] = sock[f], hashmap'[f] = hashmap[f], ined'[f] = ined[f],
           batch'[f] \subseteq batch[f],
           sock'[g] = sock[g], sock[g] # NULL => hashmap'[g] = hashmap[g],
           eof \subseteq eof', sock[f] \notin eof',
           \A d \in {sock[f], Partner(sock[f])} :
              rcvd'[d] = rcvd[d] /\ sent'[d] = sent[d] /\ dlv'[d] = dlv[d]
              /\ seen'[d] = seen[d] /\ peer'[d] = peer[d]
    PROVE  HeldAt(f)' /\ RegAt(f)' /\ BatchAt(f)'
<1>1. HeldAt(f) /\ RegAt(f) /\ BatchAt(f)
  BY DEF LInv, LHeld, LReg, LBatch
<1>2. /\ sock[f] \in Endpoint /\ Partner(sock[f])' = Partner(sock[f])
      /\ <<sock[f][1], "out">> \in {sock[f], Partner(sock[f])}
  BY DEF Base, IInv, TypeOK, Endpoint, Partner
<1>3. HeldAt(f)'
  BY <1>1, <1>2 DEF HeldAt
<1>4. RegAt(f)'
  BY <1>1, <1>2 DEF RegAt, Ended
<1>5. BatchAt(f)'
  <2>1. /\ Readable(sock[f])' <=> Readable(sock[f])
        /\ Writable(sock[f])' <=> Writable(sock[f])
    BY <1>2 DEF Readable, Writable, Avail, Space, Ended
  <2> QED BY <1>1, <2>1 DEF BatchAt
<1> QED BY <1>3, <1>4, <1>5

\* closeConnections on one end, the other end being registered for both events.
LEMMA CloseFrame ==
    ASSUME Base, Base', TidyInv, LInv, NEW sd \in Fd, sock[sd] # NULL, backlog = <<>>,
           NEW e, e = sock[sd], NEW g, g = hashmap[sd].sd,
           sock[g] # NULL => Ended(e) /\ ined'[g] = Ev,
           eof' = eof \cup {e}, sock' = [sock EXCEPT ![sd] = NULL],
           hashmap' = [hashmap EXCEPT ![sd] = NULL],
           batch' = [batch EXCEPT ![sd] = {}],
           \A f \in Fd \ {sd, g} : ined'[f] = ined[f],
           UNCHANGED <<backlog, peer, sent, seen, traces, rcvd, dlv, turn, cur, status>>
    PROVE  LInv'
<1> USE NullAssumption
<1>1. /\ e \in Endpoint /\ Partner(e) \in Endpoint /\ Partner(Partner(e)) = e
      /\ Partner(e) # e /\ g \in Fd \ {sd}
      /\ sock[g] # NULL => sock[g] = Partner(e) /\ hashmap[g].sd = sd
  BY OpenEnd, PartnerIs
<1>2. /\ sock'[sd] = NULL /\ batch'[sd] = {}
      /\ \A f \in Fd \ {sd} : /\ sock'[f] = sock[f] /\ hashmap'[f] = hashmap[f]
                              /\ batch'[f] = batch[f]
  BY DEF Base, IInv, TypeOK
<1>3. Up' /\ cur' = NULL /\ LQuiet' /\ LLeft' /\ LHeard' /\ LAccepts'
  BY DEF LInv, Up, LQuiet, LLeft, LHeard, LAccepts, Partner, Ended, Speaks
<1>4. LFresh'
  <2>1. \A k : Traced(k)' <=> Traced(k)
    BY DEF Traced
  <2>2. Traced(e[1])
    BY DEF Base, SessInv
  <2>3. \A k \in Session : ~ Traced(k) => <<k, "in">> # e /\ <<k, "out">> # e
    BY <2>2
  <2> QED BY <2>1, <2>3 DEF LInv, LFresh
<1>5. ASSUME NEW f \in Fd, sock'[f] # NULL
      PROVE  HeldAt(f)' /\ RegAt(f)' /\ BatchAt(f)'
  <2>1. f # sd /\ sock[f] # NULL /\ sock[f] # e /\ sock[f] \notin eof
    <3>1. f # sd /\ sock[f] # NULL
      BY <1>2, <1>5
    <3>2. sock[f] # e
      BY <3>1 DEF Base, SessInv
    <3>3. sock[f] \notin eof
      BY <3>1 DEF LInv, LHeld, HeldAt
    <3> QED BY <3>1, <3>2, <3>3
  <2>2. CASE f = g
    <3>1. /\ sock'[g] = Partner(e) /\ sock[g] = Partner(e) /\ hashmap'[g] = hashmap[g]
          /\ hashmap'[g].sd = sd
          /\ ined'[g] = Ev /\ Ended(e) /\ batch'[g] = batch[g] /\ batch[g] \subseteq Ev
      BY <1>1, <1>2, <2>1, <2>2 DEF Base, IInv, TypeOK
    <3>2. HeldAt(g) /\ BatchAt(g)
      BY <2>1, <2>2 DEF LInv, LHeld, LBatch
    <3>3. HeldAt(g)'
      <4>1. Partner(sock[g]) = e /\ Partner(sock[g])' = e
        BY <1>1, <3>1 DEF Partner
      <4>2. sock'[g] \notin eof' /\ peer'[<<sock'[g][1], "out">>] # "idle"
        BY <1>1, <3>1, <3>2 DEF HeldAt
      <4>3. PICK h, l : h = hashmap[g] /\ l = Len(dlv[e])
        OBVIOUS
      <4>4. /\ rcvd[sock[g]] = l + h.bufsize /\ h.bufsize <= PageSize
            /\ h.bufsize > 0 => h.buf = "live"
            /\ \A i \in DOMAIN h.data : h.data[i] = <<sock[g], l + i>>
        BY <3>2, <4>1, <4>3, Zenon DEF HeldAt
      <4>5. /\ hashmap'[g] = h /\ Len(dlv'[Partner(sock[g])']) = l
            /\ rcvd'[sock'[g]] = rcvd[sock[g]] /\ sock'[g] = sock[g]
        BY <3>1, <4>1, <4>3
      <4> QED BY <4>2, <4>4, <4>5, Zenon DEF HeldAt
    <3>4. RegAt(g)'
      <4>1. Partner(sock[g])' = e /\ Ended(e)' /\ e \in eof'
        BY <1>1, <3>1 DEF Partner, Ended
      <4> QED BY <1>2, <3>1, <4>1 DEF RegAt
    <3>5. BatchAt(g)'
      <4>1. /\ Readable(sock[g])' <=> Readable(sock[g])
            /\ Writable(sock[g])' <=> Writable(sock[g])
        BY <3>1 DEF Readable, Writable, Avail, Space, Ended
      <4> QED BY <3>1, <3>2, <4>1 DEF BatchAt
    <3> QED BY <2>2, <3>3, <3>4, <3>5
  <2>3. CASE f # g
    <3>1. hashmap[f].sd # sd /\ hashmap[f].sd \in Fd
      BY <2>1, <2>3, OtherPairs, OpenEnd
    <3>2. sock'[hashmap[f].sd] = sock[hashmap[f].sd]
          /\ hashmap'[hashmap[f].sd] = hashmap[hashmap[f].sd]
      BY <1>2, <3>1
    <3>3. sock'[f] = sock[f] /\ hashmap'[f] = hashmap[f] /\ ined'[f] = ined[f]
          /\ batch'[f] \subseteq batch[f] /\ sock[f] \notin eof'
      BY <1>2, <2>1, <2>3
    <3> QED BY <2>1, <3>2, <3>3, OtherConn
  <2> QED BY <2>2, <2>3
<1>6. LHeld' /\ LReg'
  BY <1>5 DEF LHeld, LReg
<1>7. LBatch'
  <2>1. ASSUME NEW f \in Fd, sock'[f] = NULL PROVE batch'[f] = {}
    BY <2>1 DEF Base, IInv, EventsHaveEntries, HashmapTracksOpenFds
  <2> QED BY <1>5, <2>1 DEF LBatch, BatchAt
<1> QED BY <1>3, <1>4, <1>6, <1>7 DEF LInv

\* recv returned 0 or -1: the end that speaks has left.
LEMMA EofLInv ==
    ASSUME Base, Base', TidyInv, LInv, NEW sd \in Fd, activate_eof(sd), UNCHANGED turn
    PROVE  LInv'
<1> USE NullAssumption
<1>1. PICK e : e = sock[sd]
  OBVIOUS
<1>2. PICK g : g = hashmap[sd].sd
  OBVIOUS
<1>3. "IN" \in batch[sd] /\ Avail(e) <= 0
  BY <1>1 DEF activate_eof, InPart
<1>4. /\ e # NULL /\ Readable(e) /\ "OUT" \notin batch[sd] /\ sock[g] # NULL
  BY <1>1, <1>2, <1>3, InEvent
<1>5. e \in Endpoint /\ g \in Fd \ {sd}
  BY <1>1, <1>2, <1>4, OpenEnd
<1>6. Ended(e)
  <2>1. Avail(e) \in Int
    BY <1>5, NumbersAre DEF Base, Avail
  <2> QED BY <1>3, <1>4, <2>1 DEF Readable
<1>7. backlog = <<>>
  BY <1>1, <1>4, <1>6 DEF LInv, LAccepts, Settled
<1>8. /\ ined' = resetEPOLL(setEPOLL(ined, g, Ev), sd)
      /\ eof' = eof \cup {e} /\ sock' = [sock EXCEPT ![sd] = NULL]
      /\ hashmap' = [hashmap EXCEPT ![sd] = NULL]
  BY <1>1, <1>2, <1>4 DEF activate_eof, closeConnections, removeEntry
<1>9. /\ UNCHANGED <<backlog, peer, sent, seen, traces, rcvd, dlv>>
      /\ batch' = [batch EXCEPT ![sd] = {}] /\ cur' = NULL
  BY <1>4 DEF activate_eof, ThenOut, netVars
<1>10. status' = "up"
  BY DEF activate_eof, closeConnections, StatusAfterFree, InPart, Up
<1>11. ined'[g] = Ev /\ \A f \in Fd \ {sd, g} : ined'[f] = ined[f]
  BY <1>4, <1>5, <1>8 DEF resetEPOLL, setEPOLL, Base, IInv, TypeOK
<1>12. cur' = cur /\ status' = status
  BY <1>9, <1>10 DEF LInv, Up
<1> QED BY <1>1, <1>2, <1>4, <1>6, <1>7, <1>8, <1>9, <1>11, <1>12, CloseFrame

\* The other end is closed too.
LEMMA CloseLInv ==
    ASSUME Base, Base', TidyInv, LInv, NEW sd \in Fd, activate_close(sd), UNCHANGED turn
    PROVE  LInv'
<1> USE NullAssumption
<1>1. PICK e : e = sock[sd]
  OBVIOUS
<1>2. PICK g : g = hashmap[sd].sd
  OBVIOUS
<1>3. cur = NULL /\ batch[sd] = {"OUT"} /\ hashmap[g] = NULL
  BY <1>2 DEF LInv, activate_close, OutPart, me, partner
<1>4. /\ e # NULL /\ hashmap[sd].bufsize = 0
      /\ \/ sock[g] # NULL
         \/ sock[g] = NULL /\ Partner(e) \in eof
  BY <1>1, <1>2, <1>3, OutEvent
<1>5. g \in Fd \ {sd}
  BY <1>1, <1>2, <1>4, OpenEnd
<1>6. sock[g] = NULL /\ Partner(e) \in eof
  BY <1>3, <1>4, <1>5 DEF Base, IInv, HashmapTracksOpenFds
<1>7. backlog = <<>>
  BY <1>1, <1>4, <1>6 DEF LInv, LAccepts, Settled
<1>8. /\ ined' = resetEPOLL(ined, sd)
      /\ eof' = eof \cup {e} /\ sock' = [sock EXCEPT ![sd] = NULL]
      /\ hashmap' = [hashmap EXCEPT ![sd] = NULL]
      /\ status' = status
  BY <1>1, <1>3, <1>4 DEF activate_close, closeConnections, removeEntry, partner
<1>9. /\ UNCHANGED <<backlog, peer, sent, seen, traces, rcvd, dlv>>
      /\ batch' = [batch EXCEPT ![sd] = {}] /\ cur' = cur
  BY <1>3 DEF activate_close, OutDone, netVars
<1>10. \A f \in Fd \ {sd, g} : ined'[f] = ined[f]
  BY <1>8 DEF resetEPOLL, Base, IInv, TypeOK
<1> QED BY <1>1, <1>2, <1>4, <1>6, <1>7, <1>8, <1>9, <1>10, CloseFrame

\* Sequences: what is appended follows.
LEMMA ConcatIs ==
    ASSUME NEW S, NEW s \in Seq(S), NEW t \in Seq(S)
    PROVE  /\ Len(s) \in Nat /\ Len(t) \in Nat
           /\ DOMAIN s = 1 .. Len(s) /\ DOMAIN t = 1 .. Len(t)
           /\ s \o t \in Seq(S) /\ Len(s \o t) = Len(s) + Len(t)
           /\ DOMAIN (s \o t) = 1 .. Len(s) + Len(t)
           /\ \A i \in 1 .. Len(s) : (s \o t)[i] = s[i]
           /\ \A i \in 1 .. Len(t) : (s \o t)[Len(s) + i] = t[i]
  OBVIOUS

\* What is held for sd is sent to it, all of it.
LEMMA WriteStep ==
    ASSUME Base, TidyInv, LInv, NEW sd \in Fd, activate_write(sd)
    PROVE  \E e, p \in Endpoint, g \in Fd :
              /\ e = sock[sd] /\ p = Partner(e) /\ g = hashmap[sd].sd
              /\ g # sd /\ sock[g] = p /\ hashmap[g].sd = sd
              /\ hashmap[sd].bufsize = 0 /\ hashmap[g].bufsize > 0
              /\ dlv' = [dlv EXCEPT ![e] = dlv[e] \o hashmap[g].data]
              /\ hashmap' = [hashmap EXCEPT ![g] = Flushed(hashmap[g])]
              /\ ined' = [ined EXCEPT ![sd] = {"IN"}, ![g] = {"IN"}]
              /\ batch' = [batch EXCEPT ![sd] = {}]
              /\ UNCHANGED <<backlog, peer, sent, seen, traces, isDone, sock, eof, rcvd,
                             cur, status>>
<1> USE NullAssumption
<1>1. PICK e : e = sock[sd]
  OBVIOUS
<1>2. PICK g : g = hashmap[sd].sd
  OBVIOUS
<1>3. cur = NULL /\ batch[sd] = {"OUT"} /\ hashmap[g] # NULL
  BY <1>2 DEF LInv, activate_write, OutPart, me, partner
<1>4. /\ e # NULL /\ hashmap[sd].bufsize = 0
      /\ \/ /\ sock[g] # NULL /\ hashmap[g].bufsize > 0 /\ hashmap[g].buf = "live"
            /\ Accepted(sd, hashmap[g].bufsize) = hashmap[g].bufsize
         \/ sock[g] = NULL
  BY <1>1, <1>2, <1>3, OutEvent
<1>5. e \in Endpoint /\ g \in Fd \ {sd} /\ Partner(e) \in Endpoint
  BY <1>1, <1>2, <1>4, OpenEnd
<1>6. /\ sock[g] # NULL /\ hashmap[g].bufsize > 0 /\ hashmap[g].buf = "live"
      /\ Accepted(sd, hashmap[g].bufsize) = hashmap[g].bufsize
  BY <1>3, <1>4, <1>5 DEF Base, IInv, HashmapTracksOpenFds
<1>7. sock[g] = Partner(e) /\ hashmap[g].sd = sd
  BY <1>1, <1>2, <1>4, <1>6, OpenEnd
<1>8. /\ hashmap[g].data \in Seq(Unit) /\ hashmap[g].bufsize = Len(hashmap[g].data)
  BY <1>3, <1>5, NumbersAre DEF Base
<1>9. SubSeq(hashmap[g].data, 1, hashmap[g].bufsize) = hashmap[g].data
  BY <1>8
<1>10. partner(sd) = hashmap[sd] /\ me(sd) = hashmap[g]
  BY <1>2, <1>3 DEF partner, me
<1>11. handleWrite(sd, g, hashmap[g]) /\ OutDone(sd)
  BY <1>2, <1>10 DEF activate_write
<1>12. dlv' = [dlv EXCEPT ![e] = dlv[e] \o hashmap[g].data]
  BY <1>1, <1>6, <1>9, <1>11 DEF handleWrite
<1>13. status' = status
  BY <1>6, <1>11 DEF handleWrite, StatusAfterFree, LInv, Up
<1>14. ined' = [ined EXCEPT ![sd] = {"IN"}, ![g] = {"IN"}]
  BY <1>1, <1>4, <1>6, <1>11 DEF handleWrite, setEPOLL
<1>15. /\ hashmap' = [hashmap EXCEPT ![g] = Flushed(hashmap[g])]
       /\ UNCHANGED <<backlog, peer, sent, seen, traces, isDone, sock, eof, rcvd>>
  BY <1>11 DEF handleWrite, netVars
<1>16. batch' = [batch EXCEPT ![sd] = {}] /\ cur' = cur
  BY <1>3, <1>11 DEF OutDone
<1> QED
  BY <1>1, <1>2, <1>4, <1>5, <1>6, <1>7, <1>12, <1>13, <1>14, <1>15, <1>16

\* handleWrite: all that is held is sent, and both ends are read again.
LEMMA WriteLInv ==
    ASSUME Base, Base', TidyInv, LInv, NEW sd \in Fd, activate_write(sd), UNCHANGED turn
    PROVE  LInv'
<1> USE NullAssumption
<1>1. PICK e, p \in Endpoint, g \in Fd :
              /\ e = sock[sd] /\ p = Partner(e) /\ g = hashmap[sd].sd
              /\ g # sd /\ sock[g] = p /\ hashmap[g].sd = sd
              /\ hashmap[sd].bufsize = 0 /\ hashmap[g].bufsize > 0
              /\ dlv' = [dlv EXCEPT ![e] = dlv[e] \o hashmap[g].data]
              /\ hashmap' = [hashmap EXCEPT ![g] = Flushed(hashmap[g])]
              /\ ined' = [ined EXCEPT ![sd] = {"IN"}, ![g] = {"IN"}]
              /\ batch' = [batch EXCEPT ![sd] = {}]
              /\ UNCHANGED <<backlog, peer, sent, seen, traces, isDone, sock, eof, rcvd,
                             cur, status>>
  BY WriteStep
<1>2. /\ e # NULL /\ p # NULL /\ Partner(p) = e /\ p # e
      /\ \A d \in Endpoint : Partner(d) \in Endpoint /\ Partner(Partner(d)) = d
  BY <1>1, PartnerIs
<1>3. Speaks(p) /\ ~ Ended(p) /\ ~ Ended(e)
  BY <1>1, <1>2, BusyEnd
<1>4. /\ hashmap[g].data \in Seq(Unit) /\ hashmap[g].bufsize = Len(hashmap[g].data)
      /\ hashmap[g].bufsize \in Nat /\ dlv[e] \in Seq(Unit)
  BY <1>1, <1>2, OpenEnd, NumbersAre DEF Base
<1>5. /\ dlv'[e] = dlv[e] \o hashmap[g].data
      /\ \A d \in Endpoint : d # e => dlv'[d] = dlv[d]
  BY <1>1 DEF Base, IInv, TypeOK
<1>6. /\ Len(dlv[e]) \in Nat /\ DOMAIN dlv[e] = 1 .. Len(dlv[e])
      /\ DOMAIN hashmap[g].data = 1 .. hashmap[g].bufsize
      /\ Len(dlv'[e]) = Len(dlv[e]) + hashmap[g].bufsize
      /\ DOMAIN dlv'[e] = 1 .. Len(dlv[e]) + hashmap[g].bufsize
      /\ \A i \in 1 .. Len(dlv[e]) : dlv'[e][i] = dlv[e][i]
      /\ \A i \in 1 .. hashmap[g].bufsize : dlv'[e][Len(dlv[e]) + i] = hashmap[g].data[i]
  <2>1. PICK t : t = hashmap[g].data
    OBVIOUS
  <2>2. PICK s : s = dlv[e]
    OBVIOUS
  <2>3. s \in Seq(Unit) /\ t \in Seq(Unit) /\ dlv'[e] = s \o t /\ hashmap[g].bufsize = Len(t)
    BY <1>4, <1>5, <2>1, <2>2
  <2>4. /\ Len(s) \in Nat /\ Len(t) \in Nat
        /\ DOMAIN s = 1 .. Len(s) /\ DOMAIN t = 1 .. Len(t)
        /\ Len(s \o t) = Len(s) + Len(t)
        /\ DOMAIN (s \o t) = 1 .. Len(s) + Len(t)
    BY <2>3, ConcatIs
  <2>5. /\ \A i \in 1 .. Len(s) : (s \o t)[i] = s[i]
        /\ \A i \in 1 .. Len(t) : (s \o t)[Len(s) + i] = t[i]
    BY <2>3, ConcatIs
  <2> QED BY <2>1, <2>2, <2>3, <2>4, <2>5, Zenon
<1>7. HeldAt(g) /\ HeldAt(sd) /\ RegAt(g)
  BY <1>1, <1>2 DEF LInv, LHeld, LReg
<1>8. batch[g] = {}
  <2>1. ined[g] = {} /\ batch[g] \subseteq ined[g]
    BY <1>1, <1>2, <1>7 DEF RegAt, LInv, LBatch, BatchAt
  <2> QED BY <2>1
<1>9. /\ hashmap'[g].sd = sd /\ hashmap'[g].bufsize = 0 /\ hashmap'[g].data = <<>>
      /\ \A f \in Fd \ {g} : hashmap'[f] = hashmap[f]
  BY <1>1 DEF Flushed, Base, IInv, TypeOK
<1>10. /\ ined'[sd] = {"IN"} /\ ined'[g] = {"IN"} /\ batch'[sd] = {} /\ batch'[g] = {}
       /\ \A f \in Fd \ {sd, g} : ined'[f] = ined[f] /\ batch'[f] = batch[f]
  BY <1>1, <1>8 DEF Base, IInv, TypeOK
<1>11. Up' /\ cur' = NULL /\ LAccepts'
  BY <1>1 DEF LInv, Up, LAccepts, Settled, Partner, Ended
<1>12. LQuiet'
  <2>1. SUFFICES ASSUME NEW d \in Endpoint, ~ Speaks(d)
                 PROVE  sent[d] = Len(dlv'[Partner(d)]) /\ ~ Ended(d)
    BY <1>1 DEF LQuiet, Partner, Ended, Speaks
  <2>2. Partner(d) # e
    BY <1>1, <1>2, <1>3, <2>1
  <2> QED BY <1>2, <1>5, <2>1, <2>2 DEF LInv, LQuiet
<1>13. LLeft'
  <2>1. SUFFICES ASSUME NEW d \in Endpoint, Ended(d)
                 PROVE  /\ sent[d] = Len(dlv'[Partner(d)]) /\ sent[Partner(d)] = Len(dlv'[d])
                        /\ peer[Partner(d)] = "open"
    BY <1>1 DEF LLeft, Partner, Ended
  <2>2. Partner(d) # e /\ d # e
    BY <1>1, <1>2, <1>3, <2>1
  <2> QED BY <1>2, <1>5, <2>1, <2>2 DEF LInv, LLeft
<1>14. LFresh'
  <2>1. \A k : Traced(k)' <=> Traced(k)
    BY <1>1 DEF Traced
  <2>2. Traced(e[1])
    BY <1>1, <1>2 DEF Base, SessInv
  <2>3. \A k \in Session : ~ Traced(k) =>
           /\ <<k, "in">> # e /\ <<k, "out">> # e
           /\ <<k, "in">> \in Endpoint /\ <<k, "out">> \in Endpoint
    BY <2>2 DEF Endpoint
  <2> QED BY <1>1, <1>5, <2>1, <2>3 DEF LInv, LFresh
<1>15. LHeard'
  <2>1. SUFFICES ASSUME NEW d \in Endpoint
                 PROVE  /\ rcvd[d] <= sent[d]
                        /\ \A i \in DOMAIN dlv'[d] : dlv'[d][i] = <<Partner(d), i>>
    BY <1>1 DEF LHeard, Partner
  <2>2. rcvd[d] <= sent[d] /\ \A i \in DOMAIN dlv[d] : dlv[d][i] = <<Partner(d), i>>
    BY DEF LInv, LHeard
  <2>3. CASE d # e
    BY <1>5, <2>2, <2>3
  <2>4. CASE d = e
    <3>1. SUFFICES ASSUME NEW i \in DOMAIN dlv'[e] PROVE dlv'[e][i] = <<p, i>>
      BY <1>1, <2>2, <2>4
    <3>2. CASE i \in 1 .. Len(dlv[e])
      BY <1>1, <1>6, <2>2, <2>4, <3>2
    <3>3. CASE i \notin 1 .. Len(dlv[e])
      <4>1. /\ i - Len(dlv[e]) \in 1 .. hashmap[g].bufsize
            /\ i = Len(dlv[e]) + (i - Len(dlv[e]))
        <5>1. PICK m : m = Len(dlv[e])
          OBVIOUS
        <5>2. PICK b : b = hashmap[g].bufsize
          OBVIOUS
        <5>3. m \in Nat /\ b \in Nat
          BY <1>4, <1>6, <5>1, <5>2, Zenon
        <5>4. i \in 1 .. m + b /\ i \notin 1 .. m
          BY <1>6, <3>3, <5>1, <5>2, Zenon
        <5>5. i - m \in 1 .. b /\ i = m + (i - m)
          BY <5>3, <5>4
        <5> QED BY <5>1, <5>2, <5>5, Zenon
      <4>2. dlv'[e][i] = hashmap[g].data[i - Len(dlv[e])]
        BY <1>6, <4>1
      <4>3. i - Len(dlv[e]) \in DOMAIN hashmap[g].data
        BY <1>4, <4>1
      <4>4. hashmap[g].data[i - Len(dlv[e])] = <<p, Len(dlv[e]) + (i - Len(dlv[e]))>>
        <5>1. sock[g] = p /\ Partner(p) = e
          BY <1>1, <1>2
        <5> QED BY <1>7, <4>3, <5>1, Zenon DEF HeldAt
      <4> QED BY <4>1, <4>2, <4>4
    <3> QED BY <3>2, <3>3
  <2> QED BY <2>3, <2>4
<1>16. ASSUME NEW f \in Fd, sock'[f] # NULL
       PROVE  HeldAt(f)' /\ RegAt(f)' /\ BatchAt(f)'
  <2>1. sock'[f] = sock[f] /\ sock[f] # NULL
    BY <1>1, <1>16
  <2>2. CASE f = g
    <3>1. HeldAt(g)'
      <4>1. rcvd[p] = Len(dlv'[e]) + 0
        <5>1. rcvd[p] = Len(dlv[e]) + hashmap[g].bufsize
          BY <1>1, <1>2, <1>7 DEF HeldAt
        <5> QED BY <1>4, <1>6, <5>1
      <4>2. Partner(sock[g])' = e /\ sock'[g] = p
        BY <1>1, <1>2 DEF Partner
      <4>3. p \notin eof' /\ peer'[<<p[1], "out">>] # "idle" /\ rcvd'[p] = rcvd[p]
        BY <1>1, <1>7 DEF HeldAt
      <4> QED BY <1>9, <4>1, <4>2, <4>3, ConstAssumption DEF HeldAt
    <3>2. RegAt(g)'
      <4>1. hashmap'[sd].bufsize = 0 /\ sock'[sd] # NULL
        BY <1>1, <1>2, <1>9
      <4> QED BY <1>9, <1>10, <4>1 DEF RegAt
    <3> QED BY <1>10, <2>2, <3>1, <3>2 DEF BatchAt
  <2>3. CASE f = sd
    <3>1. HeldAt(sd)'
      <4>1. dlv'[p] = dlv[p] /\ hashmap'[sd] = hashmap[sd]
        BY <1>1, <1>2, <1>5, <1>9
      <4>2. Partner(sock[sd])' = p /\ sock'[sd] = e /\ sock[sd] = e /\ Partner(e) = p
        BY <1>1 DEF Partner
      <4>3. UNCHANGED <<eof, peer, rcvd>>
        BY <1>1
      <4> QED BY <1>7, <4>1, <4>2, <4>3 DEF HeldAt
    <3>2. RegAt(sd)'
      <4>1. hashmap'[sd].bufsize = 0 /\ sock'[g] # NULL /\ hashmap'[sd].sd = g
        BY <1>1, <1>2, <1>9
      <4> QED BY <1>9, <1>10, <4>1 DEF RegAt
    <3> QED BY <1>10, <2>3, <3>1, <3>2 DEF BatchAt
  <2>4. CASE f # g /\ f # sd
    <3>1. hashmap[f].sd \notin {sd, g} /\ hashmap[f].sd \in Fd
      BY <1>1, <1>2, <2>1, <2>4, OtherPairs, OpenEnd
    <3>2. sock'[hashmap[f].sd] = sock[hashmap[f].sd]
          /\ hashmap'[hashmap[f].sd] = hashmap[hashmap[f].sd]
      BY <1>1, <1>9, <3>1
    <3>3. hashmap'[f] = hashmap[f] /\ ined'[f] = ined[f] /\ batch'[f] \subseteq batch[f]
      BY <1>9, <1>10, <2>4
    <3>4. sock[f] \in Endpoint /\ sock[f] # e /\ sock[f] # p /\ sock[f] \notin eof
      <4>1. sock[f] \notin eof
        BY <2>1 DEF LInv, LHeld, HeldAt
      <4>2. sock[f] \in Endpoint
        BY <2>1, OpenEnd
      <4> QED BY <1>1, <2>1, <2>4, <4>1, <4>2 DEF Base, SessInv
    <3>5. Partner(sock[f]) # e /\ Partner(sock[f]) \in Endpoint
      BY <1>1, <1>2, <3>4
    <3>6. \A d \in {sock[f], Partner(sock[f])} :
              rcvd'[d] = rcvd[d] /\ sent'[d] = sent[d] /\ dlv'[d] = dlv[d]
              /\ seen'[d] = seen[d] /\ peer'[d] = peer[d]
      BY <1>1, <1>5, <3>4, <3>5
    <3> QED BY <1>1, <2>1, <3>2, <3>3, <3>4, <3>6, OtherConn
  <2> QED BY <2>2, <2>3, <2>4
<1>17. LHeld' /\ LReg'
  BY <1>16 DEF LHeld, LReg
<1>18. LBatch'
  <2>1. ASSUME NEW f \in Fd, sock'[f] = NULL PROVE batch'[f] = {}
    BY <2>1 DEF Base, IInv, EventsHaveEntries, HashmapTracksOpenFds
  <2> QED BY <1>16, <2>1 DEF LBatch, BatchAt
<1> QED BY <1>11, <1>12, <1>13, <1>14, <1>15, <1>17, <1>18 DEF LInv

\* The two ends of a session.
LEMMA EndsOf ==
    ASSUME NEW k
    PROVE  /\ Partner(<<k, "in">>) = <<k, "out">> /\ Partner(<<k, "out">>) = <<k, "in">>
           /\ <<k, "in">>[1] = k /\ <<k, "out">>[1] = k
           /\ \A e : Partner(e)[1] = e[1]
  BY DEF Partner

\* A trace packet marks its session, and no other, as accepted.
LEMMA TracedAfter ==
    ASSUME Base, NEW x \in Session \cup {NULL}, udpTrace(x)
    PROVE  \A l : Traced(l)' <=> Traced(l) \/ l = x
<1>1. traces \in Seq(Session \cup {NULL}) /\ traces' = Append(traces, x)
  BY DEF Base, IInv, TypeOK, udpTrace
<1>2. /\ Len(traces) \in Nat /\ DOMAIN traces = 1 .. Len(traces)
      /\ DOMAIN traces' = 1 .. Len(traces) + 1
      /\ \A i \in 1 .. Len(traces) : traces'[i] = traces[i]
      /\ traces'[Len(traces) + 1] = x
  BY <1>1, AppendIs
<1> QED BY <1>2 DEF Traced

\* The session at the head of the queue is untouched so far, and as long as it
\* waits nobody has left.
LEMMA HeadIsFresh ==
    ASSUME Base, LInv, backlog # <<>>, NEW k, k = Head(backlog)
    PROVE  /\ k \in Session /\ ~ Traced(k)
           /\ <<k, "in">> \in Endpoint /\ <<k, "out">> \in Endpoint
           /\ peer[<<k, "out">>] = "idle"
           /\ \A e \in {<<k, "in">>, <<k, "out">>} :
                 rcvd[e] = 0 /\ dlv[e] = <<>> /\ e \notin eof /\ ~ Ended(e)
           /\ \A f \in Fd : sock[f] # NULL => sock[f][1] # k
           /\ Settled
<1>1. backlog \in Seq(Session)
  BY DEF Base, IInv, TypeOK
<1>2. k \in Session /\ 1 \in DOMAIN backlog /\ backlog[1] = k
  BY <1>1, TailIs
<1>3. <<k, "in">> \in Endpoint /\ <<k, "out">> \in Endpoint
  BY <1>2 DEF Endpoint
<1>4. ~ Traced(k)
  BY <1>2 DEF Base, SessInv, Queued
<1>5. /\ peer[<<k, "out">>] = "idle"
      /\ \A e \in {<<k, "in">>, <<k, "out">>} : rcvd[e] = 0 /\ dlv[e] = <<>> /\ e \notin eof
  BY <1>2, <1>4 DEF LInv, LFresh
<1>6. Partner(<<k, "in">>) = <<k, "out">>
  BY DEF Partner
<1>7. ~ Ended(<<k, "in">>) /\ ~ Ended(<<k, "out">>)
  BY <1>3, <1>5, <1>6 DEF LInv, LLeft, Ended
<1>8. \A f \in Fd : sock[f] # NULL => sock[f][1] # k
  BY <1>4 DEF Base, SessInv
<1>9. Settled
  BY DEF LInv, LAccepts
<1> QED BY <1>2, <1>3, <1>4, <1>5, <1>7, <1>8, <1>9

\* Both ends of the session at the head of the queue get a descriptor.
LEMMA AcceptLInv ==
    ASSUME Base, Base', TidyInv, LInv, handleNewConnection, UNCHANGED turn
    PROVE  LInv'
<1> USE NullAssumption
<1>1. PICK k \in Session, cin, cout \in Fd :
              /\ backlog # <<>> /\ k = Head(backlog) /\ cin # cout
              /\ sock[cin] = NULL /\ sock[cout] = NULL
              /\ sock' = [sock EXCEPT ![cin] = <<k, "in">>, ![cout] = <<k, "out">>]
              /\ hashmap' = NewEntries(cin, cout)
              /\ ined' = [ined EXCEPT ![cin] = {"IN"}, ![cout] = {"IN"}]
              /\ \A f \in Fd : sock[f] # NULL => sock[f][1] # k
  BY AcceptStep DEF Base
<1>2. /\ peer' = [peer EXCEPT ![<<k, "out">>] = "syn"]
      /\ batch' = [batch EXCEPT ![asockin] = {}]
      /\ udpTrace(k)
      /\ UNCHANGED <<cur, status, eof, sent, rcvd, dlv, seen, turn>>
  BY <1>1 DEF handleNewConnection
<1>3. /\ ~ Traced(k) /\ <<k, "in">> \in Endpoint /\ <<k, "out">> \in Endpoint
      /\ peer[<<k, "out">>] = "idle" /\ Settled
      /\ \A e \in {<<k, "in">>, <<k, "out">>} :
            rcvd[e] = 0 /\ dlv[e] = <<>> /\ e \notin eof /\ ~ Ended(e)
  BY <1>1, HeadIsFresh
<1>4. \A l : Traced(l)' <=> Traced(l) \/ l = k
  BY <1>2, TracedAfter
<1>5. /\ peer'[<<k, "out">>] = "syn"
      /\ \A d \in Endpoint : d # <<k, "out">> => peer'[d] = peer[d]
      /\ \A d \in Endpoint : Ended(d)' <=> Ended(d)
      /\ \A d \in Endpoint : Partner(d) \in Endpoint
  BY <1>2, <1>3, PartnerIs DEF Ended, Base, IInv, TypeOK
<1>6. /\ sock'[cin] = <<k, "in">> /\ sock'[cout] = <<k, "out">>
      /\ hashmap'[cin] = NewPartner(cout) /\ hashmap'[cout] = NewPartner(cin)
      /\ ined'[cin] = {"IN"} /\ ined'[cout] = {"IN"}
      /\ \A f \in Fd \ {cin, cout} : /\ sock'[f] = sock[f] /\ hashmap'[f] = hashmap[f]
                                     /\ ined'[f] = ined[f]
  <2>0. Fd \subseteq DOMAIN sock /\ Fd \subseteq DOMAIN hashmap /\ Fd \subseteq DOMAIN ined
    BY DEF Base, IInv, TypeOK
  <2>1. /\ sock'[cin] = <<k, "in">> /\ sock'[cout] = <<k, "out">>
        /\ \A f \in Fd \ {cin, cout} : sock'[f] = sock[f]
    BY <1>1, <2>0
  <2>2. /\ hashmap'[cin] = NewPartner(cout) /\ hashmap'[cout] = NewPartner(cin)
        /\ \A f \in Fd \ {cin, cout} : hashmap'[f] = hashmap[f]
    BY <1>1, <2>0 DEF NewEntries
  <2>3. /\ ined'[cin] = {"IN"} /\ ined'[cout] = {"IN"}
        /\ \A f \in Fd \ {cin, cout} : ined'[f] = ined[f]
    BY <1>1, <2>0
  <2> QED BY <2>1, <2>2, <2>3
<1>7. /\ \A f \in Fd : batch'[f] = batch[f]
      /\ batch[cin] = {} /\ batch[cout] = {}
  BY <1>1, <1>2, ConstAssumption
  DEF Base, IInv, TypeOK, EventsHaveEntries, HashmapTracksOpenFds
<1>8. Up' /\ cur' = NULL /\ LQuiet' /\ LHeard'
  BY <1>2, <1>5 DEF LInv, Up, LQuiet, LHeard, Speaks, Partner
<1>9. LLeft'
  <2>1. SUFFICES ASSUME NEW d \in Endpoint, Ended(d)
                 PROVE  /\ sent[d] = Len(dlv[Partner(d)]) /\ sent[Partner(d)] = Len(dlv[d])
                        /\ peer'[Partner(d)] = "open"
    BY <1>2, <1>5 DEF LLeft, Partner
  <2> QED BY <1>3, <1>5, <2>1 DEF LInv, LLeft
<1>10. LFresh'
  <2>1. \A l \in Session : l # k => /\ <<l, "out">> # <<k, "out">>
                                    /\ <<l, "out">> \in Endpoint
    BY DEF Endpoint
  <2> QED BY <1>2, <1>4, <1>5, <2>1 DEF LInv, LFresh
<1>11. ASSUME NEW f \in {cin, cout} PROVE HeldAt(f)' /\ RegAt(f)' /\ BatchAt(f)'
  <2>1. PICK e : e = sock'[f]
    OBVIOUS
  <2>2. /\ e \in {<<k, "in">>, <<k, "out">>} /\ e[1] = k
        /\ Partner(e) \in {<<k, "in">>, <<k, "out">>}
        /\ Partner(sock[f])' = Partner(e)
    <3>1. e \in {<<k, "in">>, <<k, "out">>}
      BY <1>6, <2>1
    <3>2. Partner(sock[f])' = Partner(e)
      BY <2>1 DEF Partner
    <3> QED BY <3>1, <3>2, EndsOf
  <2>3. /\ hashmap'[f].bufsize = 0 /\ hashmap'[f].data = <<>>
        /\ hashmap'[f].sd \in {cin, cout}
        /\ \A g \in {cin, cout} : hashmap'[g].bufsize = 0 /\ sock'[g] # NULL
    BY <1>3, <1>6 DEF NewPartner
  <2>4. HeldAt(f)'
    <3>1. e \notin eof' /\ peer'[<<e[1], "out">>] # "idle"
      BY <1>2, <1>3, <1>5, <2>2
    <3>2. rcvd'[e] = Len(dlv'[Partner(e)]) + 0
      BY <1>2, <1>3, <2>2
    <3> QED BY <2>1, <2>2, <2>3, <3>1, <3>2, ConstAssumption DEF HeldAt
  <2>5. RegAt(f)'
    <3>1. ined'[f] = {"IN"} /\ sock'[hashmap'[f].sd] # NULL
          /\ hashmap'[hashmap'[f].sd].bufsize = 0
      BY <1>6, <2>3
    <3> QED BY <2>3, <3>1 DEF RegAt
  <2>6. BatchAt(f)'
    BY <1>7 DEF BatchAt
  <2> QED BY <2>4, <2>5, <2>6
<1>12. ASSUME NEW f \in Fd \ {cin, cout}, sock'[f] # NULL
       PROVE  HeldAt(f)' /\ RegAt(f)' /\ BatchAt(f)'
  <2>1. sock'[f] = sock[f] /\ sock[f] # NULL /\ hashmap'[f] = hashmap[f]
        /\ ined'[f] = ined[f] /\ batch'[f] = batch[f]
    BY <1>6, <1>7, <1>12
  <2>2. sock[hashmap[f].sd] # NULL /\ hashmap[f].sd \in Fd
    BY <1>1, <2>1, SpacedIsTidy, OpenEnd DEF TidyAccepts, Whole
  <2>3. hashmap[f].sd \notin {cin, cout}
    BY <1>1, <2>2
  <2>4. sock'[hashmap[f].sd] = sock[hashmap[f].sd]
        /\ hashmap'[hashmap[f].sd] = hashmap[hashmap[f].sd]
    BY <1>6, <2>2, <2>3
  <2>5. /\ sock[f] # <<k, "out">> /\ Partner(sock[f]) # <<k, "out">>
        /\ sock[f] \in Endpoint
    <3>1. sock[f][1] # k /\ Partner(sock[f])[1] = sock[f][1]
      BY <1>1, <2>1, EndsOf
    <3> QED BY <2>1, <3>1, EndsOf, OpenEnd
  <2>6. sock[f] \notin eof
    BY <2>1 DEF LInv, LHeld, HeldAt
  <2>7. \A d \in {sock[f], Partner(sock[f])} :
              rcvd'[d] = rcvd[d] /\ sent'[d] = sent[d] /\ dlv'[d] = dlv[d]
              /\ seen'[d] = seen[d] /\ peer'[d] = peer[d]
    BY <1>2, <1>5, <2>5
  <2> QED BY <1>2, <2>1, <2>4, <2>6, <2>7, OtherConn
<1>13. LHeld' /\ LReg'
  BY <1>11, <1>12 DEF LHeld, LReg
<1>14. LBatch'
  <2>1. ASSUME NEW f \in Fd, sock'[f] = NULL PROVE batch'[f] = {}
    BY <2>1 DEF Base, IInv, EventsHaveEntries, HashmapTracksOpenFds
  <2> QED BY <1>11, <1>12, <2>1 DEF LBatch, BatchAt
<1>15. Settled'
  <2>1. SUFFICES ASSUME NEW f \in Fd, sock'[f] # NULL
                 PROVE  ~ Ended(sock[f])' /\ {sock'[f], Partner(sock[f])'} \cap eof = {}
    BY <1>2 DEF Settled
  <2>2. CASE f \in {cin, cout}
    <3>1. sock'[f] \in {<<k, "in">>, <<k, "out">>}
          /\ Partner(sock[f])' \in {<<k, "in">>, <<k, "out">>}
      <4>1. PICK d : d = sock'[f]
        OBVIOUS
      <4>2. Partner(sock[f])' = Partner(d)
        BY <4>1 DEF Partner
      <4> QED BY <1>6, <2>2, <4>1, <4>2, EndsOf
    <3>2. ~ Ended(<<k, "in">>)' /\ ~ Ended(<<k, "out">>)'
      BY <1>3, <1>5
    <3> QED BY <1>3, <3>1, <3>2 DEF Ended
  <2>3. CASE f \notin {cin, cout}
    <3>1. sock'[f] = sock[f] /\ sock[f] # NULL /\ sock[f] \in Endpoint
          /\ Partner(sock[f])' = Partner(sock[f])
      BY <1>6, <2>1, <2>3, OpenEnd DEF Partner
    <3>2. ~ Ended(sock[f]) /\ {sock[f], Partner(sock[f])} \cap eof = {}
      BY <1>3, <3>1 DEF Settled
    <3>3. Ended(sock[f])' <=> Ended(sock[f])
      <4>1. PICK d \in Endpoint : d = sock[f]
        BY <3>1
      <4> QED BY <1>5, <3>1, <4>1 DEF Ended
    <3> QED BY <3>1, <3>2, <3>3
  <2> QED BY <2>2, <2>3
<1> QED BY <1>2, <1>8, <1>9, <1>10, <1>13, <1>14, <1>15 DEF LInv, LAccepts

\* The head of the queue is hung up on, or nobody can be accepted: no connection
\* is touched, and the traces get longer.
LEMMA NotAcceptedLInv ==
    ASSUME Base, TidyInv, LInv,
           handleNewConnection_refused \/ handleNewConnection_nofd, UNCHANGED turn
    PROVE  LInv'
<1> USE NullAssumption
<1>1. PICK k : k = Head(backlog)
  OBVIOUS
<1>2. backlog # <<>>
  BY DEF Base, IInv, AcceptHasClient, handleNewConnection_refused, handleNewConnection_nofd
<1>3. /\ k \in Session /\ ~ Traced(k) /\ Settled
      /\ \A f \in Fd : sock[f] # NULL => sock[f][1] # k
  BY <1>1, <1>2, HeadIsFresh
<1>4. /\ batch' = [batch EXCEPT ![asockin] = {}]
      /\ UNCHANGED <<hashmap, ined, cur, status, sock, peer, sent, rcvd, dlv, seen, turn>>
      /\ \/ eof' = eof \cup {<<k, "in">>} /\ udpTrace(k)
         \/ eof' = eof /\ udpTrace(NULL)
  BY <1>1 DEF handleNewConnection_refused, handleNewConnection_nofd
<1>5. \/ eof' = eof \cup {<<k, "in">>} /\ \A l : Traced(l)' <=> Traced(l) \/ l = k
      \/ eof' = eof /\ \A l \in Session : Traced(l)' <=> Traced(l)
  BY <1>3, <1>4, TracedAfter
<1>6. \A f \in Fd : batch'[f] = batch[f]
  BY <1>4, ConstAssumption DEF Base, IInv, TypeOK
<1>7. Up' /\ cur' = NULL /\ LQuiet' /\ LHeard' /\ LLeft'
  BY <1>4 DEF LInv, Up, LQuiet, LHeard, LLeft, Speaks, Partner, Ended
<1>8. LFresh'
  <2>1. ASSUME NEW l \in Session, ~ Traced(l)'
        PROVE  /\ peer'[<<l, "out">>] = "idle"
               /\ \A e \in {<<l, "in">>, <<l, "out">>} :
                     rcvd'[e] = 0 /\ dlv'[e] = <<>> /\ e \notin eof'
    <3>1. ~ Traced(l) /\ (l # k \/ eof' = eof)
      BY <1>5, <2>1
    <3>2. \A e \in {<<l, "in">>, <<l, "out">>} : e \in eof' => e \in eof
      BY <1>4, <3>1
    <3> QED BY <1>4, <3>1, <3>2 DEF LInv, LFresh
  <2>2. ASSUME NEW l \in Session, Traced(l)', peer'[<<l, "out">>] = "idle"
        PROVE  <<l, "in">> \in eof'
    <3>1. CASE Traced(l)
      BY <1>4, <2>2, <3>1 DEF LInv, LFresh
    <3>2. CASE ~ Traced(l)
      BY <1>5, <2>2, <3>2
    <3> QED BY <3>1, <3>2
  <2> QED BY <2>1, <2>2 DEF LFresh
<1>9. ASSUME NEW f \in Fd, sock[f] # NULL
      PROVE  /\ sock[f] # <<k, "in">> /\ Partner(sock[f]) # <<k, "in">>
             /\ HeldAt(f)' /\ RegAt(f)'
  <2>1. /\ sock[f] # <<k, "in">> /\ Partner(sock[f]) # <<k, "in">>
        /\ sock[f] \notin eof
    <3>1. sock[f][1] # k /\ Partner(sock[f])[1] = sock[f][1]
      BY <1>3, <1>9, EndsOf
    <3>2. sock[f] \notin eof
      BY <1>9 DEF LInv, LHeld, HeldAt
    <3> QED BY <3>1, <3>2, EndsOf
  <2>2. batch'[f] \subseteq batch[f] /\ eof \subseteq eof' /\ sock[f] \notin eof'
    BY <1>4, <1>6, <2>1
  <2> QED BY <1>4, <1>9, <2>1, <2>2, OtherConn
<1>10. LHeld' /\ LReg'
  BY <1>4, <1>9 DEF LHeld, LReg
<1>11. LBatch'
  BY <1>4, <1>6 DEF LInv, LBatch, BatchAt, Readable, Writable, Avail, Space, Ended
<1>12. Settled'
  BY <1>3, <1>4, <1>9 DEF Settled, Ended, Partner
<1> QED BY <1>4, <1>7, <1>8, <1>10, <1>11, <1>12 DEF LInv, LAccepts

-----------------------------------------------------------------------------
(* The invariant always holds. *)

\* Every step of the proxy, a peer or the dialogue keeps LInv. That the proxy
\* does not exit is what TidyInv says of the next state.
LEMMA SpacedStep ==
    ASSUME Base, Base', TidyInv, TidyInv', LInv, [SpacedNext]_lvars
    PROVE  LInv'
<1>1. CASE as_ready
  BY <1>1, ReadyLInv DEF as_ready
<1>2. CASE as_handleNewConnection
  BY <1>2, AcceptLInv, NotAcceptedLInv DEF as_handleNewConnection
<1>3. ASSUME NEW sd \in Fd, as_activateAs_in(sd) PROVE LInv'
  BY <1>3, ReadLInv, EofLInv DEF as_activateAs_in, as_handleRead
<1>4. ASSUME NEW sd \in Fd, as_activateAs_out(sd) PROVE LInv'
  <2>1. ~ activate_exit(sd)
    BY DEF activate_exit, TidyInv, GonePartnerNeverExits
  <2> QED
    BY <1>4, <2>1, WriteLInv, CloseLInv
    DEF as_activateAs_out, as_closeConnections, as_handleWrite
<1>5. CASE Dialogue
  BY <1>5, DialogueLInv
<1>6. ASSUME NEW k \in Session, Settled, Connect(k), UNCHANGED turn PROVE LInv'
  BY <1>6, ConnectLInv
<1>7. ASSUME NEW e \in Endpoint, NEW how \in {"fin", "rst"}, backlog = <<>>, LClose(e, how)
      PROVE  LInv'
  BY <1>7, LeaveLInv
<1>8. CASE UNCHANGED lvars
  BY <1>8
  DEF lvars, vars, LInv, Up, LQuiet, LLeft, LFresh, LHeard, LHeld, HeldAt, LReg, RegAt,
      LBatch, BatchAt, LAccepts, Settled, Traced, Speaks, Partner, Ended, Readable, Writable,
      Avail, Space
<1> QED
  BY <1>1, <1>2, <1>3, <1>4, <1>5, <1>6, <1>7, <1>8 DEF SpacedNext, as_proxy

\* Whatever TProxy keeps in every environment it keeps in these.
LEMMA BaseAlways == Spec => []Base
  BY SpecSess, SpecData, EndsNameEachOther, PTL DEF Base

\* The invariant holds throughout the spaced use.
LEMMA SpacedAlways == SpacedSpec => [](Base /\ TidyInv /\ LInv)
<1>1. SpacedSpec => Spec
  BY SpacedIsNext, PTL DEF SpacedSpec, as_init, LInit, Spec
<1>2. LInit => TidyInv /\ LInv
  BY InitTidy, InitLInv DEF LInit
<1>3. Base /\ Base' /\ TidyInv /\ LInv /\ [SpacedNext]_lvars => TidyInv' /\ LInv'
  <2> SUFFICES ASSUME Base, Base', TidyInv, LInv, [SpacedNext]_lvars
               PROVE  TidyInv' /\ LInv'
    OBVIOUS
  <2>1. TidyInv'
    BY SpacedIsTidy, SpacedIsNext, NextTidy DEF Base
  <2> QED BY <2>1, SpacedStep
<1> QED BY <1>1, <1>2, <1>3, BaseAlways, PTL DEF SpacedSpec, as_init

-----------------------------------------------------------------------------
(* What the invariant means. *)

\* In a state of the invariant every descriptor is registered for what it waits for.
LEMMA LInvRegistered == Base /\ TidyInv /\ LInv => RegisteredForWhatItWaits
<1> USE NullAssumption
<1> SUFFICES ASSUME Base, TidyInv, LInv, NEW f \in Fd, sock[f] # NULL
             PROVE  LET rec   == hashmap[f]
                        other == hashmap[rec.sd]
                    IN /\ "OUT" \in ined[f] <=> (other = NULL \/ other.bufsize > 0)
                       /\ "IN" \in ined[f] <=> (other = NULL \/ rec.bufsize = 0)
  BY DEF RegisteredForWhatItWaits
<1>1. PICK g : g = hashmap[f].sd
  OBVIOUS
<1>2. /\ g \in Fd /\ hashmap[f].bufsize \in Nat
      /\ hashmap[g] # NULL <=> sock[g] # NULL
      /\ hashmap[g] # NULL => hashmap[g].bufsize \in Nat
  BY <1>1, OpenEnd, NumbersAre DEF Base, IInv, HashmapTracksOpenFds
<1>3. \/ /\ sock[g] # NULL
         /\ ined[f] = IF hashmap[f].bufsize > 0 THEN {}
                      ELSE IF hashmap[g].bufsize > 0 THEN Ev ELSE {"IN"}
      \/ sock[g] = NULL /\ ined[f] = Ev
  BY <1>1 DEF LInv, LReg, RegAt
<1>4. hashmap[f].bufsize > 0 => hashmap[g].bufsize = 0
  BY <1>1, BusyEnd
<1> QED BY <1>1, <1>2, <1>3, <1>4 DEF Ev

\* Two sequences with the same elements are the same.
LEMMA SameSeq ==
    ASSUME NEW S, NEW s \in Seq(S), NEW t \in Seq(S), Len(s) = Len(t),
           \A i \in 1 .. Len(s) : s[i] = t[i]
    PROVE  s = t
  OBVIOUS

\* In a state of the invariant nothing is lost.
LEMMA LInvNothingLost == Base /\ TidyInv /\ LInv => NothingLost
<1> USE NullAssumption
<1> SUFFICES ASSUME Base, TidyInv, LInv, NEW e \in Endpoint, NEW f \in Fd, sock[f] = e
             PROVE  dlv[Partner(e)] \o HeldFrom(e) = UnitsUpTo(e, rcvd[e])
  BY DEF NothingLost
<1>1. PICK s : s = dlv[Partner(e)]
  OBVIOUS
<1>2. PICK t : t = hashmap[f].data
  OBVIOUS
<1>3. /\ Partner(e) \in Endpoint /\ Partner(Partner(e)) = e /\ hashmap[f] # NULL
  BY OpenEnd, PartnerIs
<1>4. /\ s \in Seq(Unit) /\ t \in Seq(Unit) /\ rcvd[e] \in Nat
      /\ hashmap[f].bufsize = Len(t)
  BY <1>1, <1>2, <1>3, NumbersAre DEF Base
<1>5. HeldFrom(e) = t
  <2>1. \A g \in Fd : sock[g] = e => g = f
    BY <1>3 DEF Base, SessInv
  <2>2. (CHOOSE g \in Fd : sock[g] = e) = f
    BY <2>1
  <2>3. HeldFrom(e) = SubSeq(t, 1, Len(t))
    BY <1>2, <1>4, <2>2 DEF HeldFrom
  <2> QED BY <1>4, <2>3
<1>6. /\ \A i \in DOMAIN s : s[i] = <<e, i>>
      /\ \A i \in DOMAIN t : t[i] = <<e, Len(s) + i>>
      /\ rcvd[e] = Len(s) + Len(t)
  <2>1. HeldAt(f)
    BY DEF LInv, LHeld
  <2> QED BY <1>1, <1>2, <1>3, <1>4, <2>1 DEF HeldAt, LInv, LHeard
<1>7. /\ Len(s) \in Nat /\ Len(t) \in Nat
      /\ DOMAIN s = 1 .. Len(s) /\ DOMAIN t = 1 .. Len(t)
      /\ s \o t \in Seq(Unit) /\ Len(s \o t) = Len(s) + Len(t)
      /\ \A i \in 1 .. Len(s) : (s \o t)[i] = s[i]
      /\ \A i \in 1 .. Len(t) : (s \o t)[Len(s) + i] = t[i]
  BY <1>4, ConcatIs
<1>8. /\ UnitsUpTo(e, rcvd[e]) \in Seq(Unit) /\ Len(UnitsUpTo(e, rcvd[e])) = rcvd[e]
      /\ \A i \in 1 .. rcvd[e] : UnitsUpTo(e, rcvd[e])[i] = <<e, i>>
  <2>1. PICK n : n = rcvd[e]
    OBVIOUS
  <2>2. \A i \in 1 .. n : <<e, i>> \in Unit
    BY DEF Unit
  <2>3. n \in Nat
    BY <1>4, <2>1
  <2>4. UnitsUpTo(e, n) = [i \in 1 .. n |-> <<e, i>>]
    BY DEF UnitsUpTo
  <2>5. UnitsUpTo(e, n) \in Seq(Unit) /\ Len(UnitsUpTo(e, n)) = n
    BY <2>2, <2>3, <2>4
  <2>6. \A i \in 1 .. n : UnitsUpTo(e, n)[i] = <<e, i>>
    BY <2>4
  <2> QED BY <2>1, <2>5, <2>6
<1>9. ASSUME NEW i \in 1 .. Len(s) + Len(t) PROVE (s \o t)[i] = <<e, i>>
  <2>1. CASE i \in 1 .. Len(s)
    BY <1>6, <1>7, <2>1
  <2>2. CASE i \notin 1 .. Len(s)
    <3>1. PICK j \in 1 .. Len(t) : i = Len(s) + j
      <4>1. PICK m, n : m = Len(s) /\ n = Len(t)
        OBVIOUS
      <4>2. m \in Nat /\ n \in Nat /\ i \in 1 .. m + n /\ i \notin 1 .. m
        BY <1>7, <2>2, <4>1, Zenon
      <4>3. i - m \in 1 .. n /\ i = m + (i - m)
        BY <4>2
      <4> QED BY <4>1, <4>3, Zenon
    <3> QED BY <1>6, <1>7, <3>1
  <2> QED BY <2>1, <2>2
<1>10. s \o t = UnitsUpTo(e, rcvd[e])
  <2>1. PICK u : u = s \o t
    OBVIOUS
  <2>2. PICK w : w = UnitsUpTo(e, rcvd[e])
    OBVIOUS
  <2>3. u \in Seq(Unit) /\ w \in Seq(Unit) /\ Len(u) = Len(w)
    BY <1>6, <1>7, <1>8, <2>1, <2>2, Zenon
  <2>4. \A i \in 1 .. Len(u) : u[i] = w[i]
    <3>1. Len(u) = Len(s) + Len(t) /\ Len(u) = rcvd[e]
      BY <1>6, <1>7, <2>1, Zenon
    <3>2. \A i \in 1 .. Len(u) : u[i] = <<e, i>>
      BY <1>9, <2>1, <3>1, Zenon
    <3>3. \A i \in 1 .. Len(u) : w[i] = <<e, i>>
      BY <1>8, <2>2, <3>1, Zenon
    <3> QED BY <3>2, <3>3, Zenon
  <2>5. u = w
    BY <2>3, <2>4, SameSeq, Zenon
  <2> QED BY <2>1, <2>2, <2>5
<1> QED BY <1>1, <1>5, <1>10

\* Sessions that overlap, none opened while another one is being closed: autosys
\* never exits and never frees a buffer twice.
THEOREM SpacedNeverFails == SpacedSpec => []NeverFails
<1>1. LInv => NeverFails
  BY DEF LInv, NeverFails
<1> QED BY <1>1, SpacedAlways, PTL

\* They lose nothing that was read: what a page takes fits where EPOLLOUT says
\* there is room, and no page is read while one is held.
THEOREM SpacedNothingLost == SpacedSpec => []NothingLost
  BY SpacedAlways, LInvNothingLost, PTL

\* And none of their descriptors is left registered for the wrong events.
THEOREM SpacedRegistered == SpacedSpec => []RegisteredForWhatItWaits
  BY SpacedAlways, LInvRegistered, PTL

-----------------------------------------------------------------------------
(* Step by step, what Relay sees of the proxy is a step of Relay. *)

Line == [k \in Session |-> LineOf(k)]
Left == {e \in Endpoint : Ended(e)}

\* A session has been let in when it was traced and its server contacted.
LEMMA LineIs ==
    Base => \A k \in Session :
        LineOf(k) = IF peer[<<k, "in">>] = "idle" THEN "idle"
                    ELSE IF ~ Traced(k) THEN "waiting"
                    ELSE IF peer[<<k, "out">>] = "idle" THEN "refused" ELSE "up"
<1> SUFFICES ASSUME Base, NEW k \in Session
             PROVE  LineOf(k) = IF peer[<<k, "in">>] = "idle" THEN "idle"
                                ELSE IF ~ Traced(k) THEN "waiting"
                                ELSE IF peer[<<k, "out">>] = "idle" THEN "refused" ELSE "up"
  OBVIOUS
<1>1. /\ Traced(k) <=> peer[<<k, "in">>] # "idle" /\ ~ Queued(k)
      /\ Queued(k) => peer[<<k, "in">>] # "idle"
  BY DEF Base, SessInv, Queued
<1> QED BY <1>1 DEF LineOf, Queued

\* LineOf after a step, in terms of what the step leaves.
LEMMA LineAfter ==
    ASSUME Base'
    PROVE  \A k \in Session :
        LineOf(k)' = IF peer'[<<k, "in">>] = "idle" THEN "idle"
                     ELSE IF ~ Traced(k)' THEN "waiting"
                     ELSE IF peer'[<<k, "out">>] = "idle" THEN "refused" ELSE "up"
<1> SUFFICES ASSUME NEW k \in Session
             PROVE  LineOf(k)' = IF peer'[<<k, "in">>] = "idle" THEN "idle"
                                 ELSE IF ~ Traced(k)' THEN "waiting"
                                 ELSE IF peer'[<<k, "out">>] = "idle" THEN "refused"
                                 ELSE "up"
  OBVIOUS
<1>1. /\ Traced(k)' <=> peer'[<<k, "in">>] # "idle" /\ ~ Queued(k)'
      /\ Queued(k)' => peer'[<<k, "in">>] # "idle"
  BY DEF Base, SessInv, Queued
<1> QED BY <1>1 DEF LineOf, Queued

\* Most steps leave all lines as they are.
LEMMA LineFrame ==
    ASSUME Base, Base',
           \A k \in Session : /\ Traced(k)' <=> Traced(k)
                              /\ peer'[<<k, "in">>] = "idle" <=> peer[<<k, "in">>] = "idle"
                              /\ peer'[<<k, "out">>] = "idle" <=> peer[<<k, "out">>] = "idle"
    PROVE  Line' = Line
<1>1. \A k \in Session : LineOf(k)' = LineOf(k)
  BY LineIs, LineAfter
<1> QED BY <1>1 DEF Line

\* An end that was let in and not hung up on.
LEMMA OpenIsUp ==
    ASSUME Base, TidyInv, LInv, NEW f \in Fd, sock[f] # NULL
    PROVE  /\ sock[f][1] \in Session /\ LineOf(sock[f][1]) = "up" /\ sock[f] \notin eof
<1>1. /\ sock[f] \in Endpoint /\ HeldAt(f) /\ Traced(sock[f][1])
  BY OpenEnd DEF LInv, LHeld, Base, SessInv
<1>2. sock[f][1] \in Session
  BY <1>1 DEF Endpoint
<1>3. peer[<<sock[f][1], "in">>] # "idle"
  BY <1>1, <1>2 DEF Base, SessInv
<1>4. peer[<<sock[f][1], "out">>] # "idle" /\ sock[f] \notin eof
  BY <1>1 DEF HeldAt
<1> QED BY <1>1, <1>2, <1>3, <1>4, LineIs

\* An end that is open and was not hung up on may speak: its session waits, or
\* was let in. Once both ends are open it was let in.
LEMMA OpenPeer ==
    ASSUME Base, LInv, NEW e \in Endpoint, peer[e] = "open", e \notin eof
    PROVE  /\ e[1] \in Session /\ LineOf(e[1]) \in {"waiting", "up"}
           /\ peer[Partner(e)] = "open" => LineOf(e[1]) = "up"
<1>1. PICK k : k = e[1]
  OBVIOUS
<1>2. k \in Session /\ e \in {<<k, "in">>, <<k, "out">>}
  BY <1>1 DEF Endpoint
<1>3. /\ ~ Traced(k) => peer[<<k, "out">>] = "idle"
      /\ Traced(k) /\ peer[<<k, "out">>] = "idle" => <<k, "in">> \in eof
      /\ Traced(k) => peer[<<k, "in">>] # "idle"
  BY <1>2 DEF LInv, LFresh, Base, SessInv
<1>4. LineOf(k) = IF peer[<<k, "in">>] = "idle" THEN "idle"
                  ELSE IF ~ Traced(k) THEN "waiting"
                  ELSE IF peer[<<k, "out">>] = "idle" THEN "refused" ELSE "up"
  BY <1>2, LineIs
<1>5. CASE e = <<k, "in">>
  <2>1. Partner(e) = <<k, "out">>
    BY <1>5, EndsOf
  <2> QED BY <1>1, <1>2, <1>3, <1>4, <1>5, <2>1
<1>6. CASE e = <<k, "out">>
  BY <1>1, <1>2, <1>3, <1>4, <1>6
<1> QED BY <1>2, <1>5, <1>6

\* Relay's names for what the proxy keeps.
LEMMA RelayIs ==
    /\ Transparent!End = Endpoint
    /\ \A e : Transparent!Other(e) = Partner(e)
    /\ \A e : Transparent!Pending(e) = sent[Partner(e)] - Len(dlv[e])
    /\ Transparent!vars = <<Line, traces, sent, dlv, Left, eof>>
  BY DEF Transparent!End, Endpoint, Transparent!Other, Partner, Transparent!Pending,
         Transparent!vars, Line, Left

\* Steps that Relay does not see.
LEMMA UnseenStep ==
    ASSUME Base, Base', UNCHANGED <<traces, sent, dlv, eof>>,
           \A e \in Endpoint : /\ peer'[e] = "idle" <=> peer[e] = "idle"
                               /\ Ended(e)' <=> Ended(e)
    PROVE  UNCHANGED Transparent!vars
<1>1. Line' = Line
  <2>1. \A k \in Session : <<k, "in">> \in Endpoint /\ <<k, "out">> \in Endpoint
    BY DEF Endpoint
  <2>2. \A k \in Session : Traced(k)' <=> Traced(k)
    BY DEF Traced
  <2> QED BY <2>1, <2>2, LineFrame
<1>2. Left' = Left
  BY DEF Left
<1>3. UNCHANGED <<Line, traces, sent, dlv, Left, eof>>
  BY <1>1, <1>2
<1> QED BY <1>3 DEF Transparent!vars, Line, Left

\* A client connects: Ask.
LEMMA AskStep ==
    ASSUME Base, Base', LInv, NEW k \in Session, Connect(k)
    PROVE  Transparent!Ask(k)
<1>1. /\ peer[<<k, "in">>] = "idle" /\ peer' = [peer EXCEPT ![<<k, "in">>] = "open"]
      /\ UNCHANGED <<traces, sent, dlv, eof>>
  BY DEF Connect, EnvUnchanged, procVars
<1>2. /\ \A e \in Endpoint : /\ e # <<k, "in">> => peer'[e] = peer[e]
                             /\ Ended(e)' <=> Ended(e)
      /\ peer'[<<k, "in">>] = "open"
      /\ \A l \in Session : <<l, "in">> \in Endpoint /\ <<l, "out">> \in Endpoint
  BY <1>1 DEF Ended, Base, IInv, TypeOK, Endpoint
<1>3. ~ Traced(k) /\ \A l \in Session : Traced(l)' <=> Traced(l)
  BY <1>1 DEF Traced, Base, SessInv
<1>4. \A l \in Session : LineOf(l)' = IF l = k THEN "waiting" ELSE LineOf(l)
  BY <1>2, <1>3, LineIs, LineAfter
<1>5. Line[k] = "idle" /\ Line' = [Line EXCEPT ![k] = "waiting"]
  BY <1>1, <1>4, LineIs DEF Line
<1>6. Left' = Left
  BY <1>2 DEF Left
<1> QED BY <1>1, <1>5, <1>6 DEF Transparent!Ask, Line, Left

\* The session at the head of the queue is traced and served: Admit.
LEMMA AdmitStep ==
    ASSUME Base, Base', LInv, handleNewConnection
    PROVE  \E k \in Session : Transparent!Admit(k)
<1>1. PICK k : k = Head(backlog)
  OBVIOUS
<1>2. backlog # <<>>
  BY DEF handleNewConnection, Base, IInv, AcceptHasClient
<1>3. /\ k \in Session /\ ~ Traced(k) /\ <<k, "out">> \in Endpoint
      /\ peer[<<k, "out">>] = "idle"
  BY <1>1, <1>2, HeadIsFresh
<1>4. /\ peer' = [peer EXCEPT ![<<k, "out">>] = "syn"] /\ udpTrace(k)
      /\ UNCHANGED <<eof, sent, dlv>>
  BY <1>1 DEF handleNewConnection
<1>5. \A l : Traced(l)' <=> Traced(l) \/ l = k
  BY <1>3, <1>4, TracedAfter
<1>6. /\ peer'[<<k, "out">>] = "syn"
      /\ \A e \in Endpoint : e # <<k, "out">> => peer'[e] = peer[e]
      /\ \A e \in Endpoint : Ended(e)' <=> Ended(e)
      /\ \A l \in Session : <<l, "in">> \in Endpoint /\ <<l, "out">> \in Endpoint
  BY <1>3, <1>4 DEF Ended, Base, IInv, TypeOK, Endpoint
<1>7. peer[<<k, "in">>] # "idle"
  <2>1. peer'[<<k, "in">>] # "idle"
    BY <1>3, <1>5 DEF Base, SessInv
  <2> QED BY <1>3, <1>6, <2>1
<1>8. \A l \in Session : LineOf(l)' = IF l = k THEN "up" ELSE LineOf(l)
  BY <1>5, <1>6, <1>7, LineIs, LineAfter
<1>9. Line[k] = "waiting" /\ Line' = [Line EXCEPT ![k] = "up"]
  BY <1>3, <1>7, <1>8, LineIs DEF Line
<1>10. Left' = Left
  BY <1>6 DEF Left
<1> QED BY <1>3, <1>4, <1>9, <1>10 DEF Transparent!Admit, Line, Left, udpTrace

\* It is traced and closed, its server out of reach: Refuse.
LEMMA RefuseStep ==
    ASSUME Base, Base', LInv, handleNewConnection_refused
    PROVE  \E k \in Session : Transparent!Refuse(k)
<1>1. PICK k : k = Head(backlog)
  OBVIOUS
<1>2. backlog # <<>>
  BY DEF handleNewConnection_refused, Base, IInv, AcceptHasClient
<1>3. k \in Session /\ ~ Traced(k) /\ peer[<<k, "out">>] = "idle"
  BY <1>1, <1>2, HeadIsFresh
<1>4. /\ udpTrace(k) /\ eof' = eof \cup {<<k, "in">>}
      /\ UNCHANGED <<peer, sent, dlv>>
  BY <1>1 DEF handleNewConnection_refused
<1>5. \A l : Traced(l)' <=> Traced(l) \/ l = k
  BY <1>3, <1>4, TracedAfter
<1>6. peer[<<k, "in">>] # "idle"
  BY <1>3, <1>4, <1>5 DEF Base, SessInv
<1>7. \A l \in Session : LineOf(l)' = IF l = k THEN "refused" ELSE LineOf(l)
  BY <1>3, <1>4, <1>5, <1>6, LineIs, LineAfter
<1>8. Line[k] = "waiting" /\ Line' = [Line EXCEPT ![k] = "refused"]
  BY <1>3, <1>6, <1>7, LineIs DEF Line
<1>9. Left' = Left
  BY <1>4 DEF Left, Ended
<1> QED BY <1>3, <1>4, <1>8, <1>9 DEF Transparent!Refuse, Line, Left, udpTrace

\* accept finds no descriptor, and a packet is sent all the same: Misreport.
LEMMA MisreportStep ==
    ASSUME Base, Base', LInv, handleNewConnection_nofd
    PROVE  \E k \in Session : Transparent!Misreport(k)
<1>1. PICK k : k = Head(backlog)
  OBVIOUS
<1>2. backlog # <<>> /\ backlog \in Seq(Session)
  BY DEF handleNewConnection_nofd, Base, IInv, AcceptHasClient, TypeOK
<1>3. k \in Session /\ ~ Traced(k) /\ k # NULL
  BY <1>1, <1>2, HeadIsFresh, NullAssumption
<1>4. udpTrace(NULL) /\ UNCHANGED <<backlog, peer, sent, dlv, eof>>
  BY DEF handleNewConnection_nofd
<1>5. \A l \in Session : Traced(l)' <=> Traced(l)
  BY <1>4, TracedAfter, NullAssumption
<1>6. peer[<<k, "in">>] # "idle"
  BY <1>1, <1>2, TailIs DEF Base, SessInv
<1>7. Line' = Line
  BY <1>4, <1>5, LineFrame
<1>8. Line[k] = "waiting"
  BY <1>3, <1>6, LineIs DEF Line
<1>9. Left' = Left
  BY <1>4 DEF Left, Ended
<1> QED BY <1>3, <1>4, <1>7, <1>8, <1>9 DEF Transparent!Misreport, Line, Left, udpTrace

\* A peer sends a unit: Say.
LEMMA SayStep ==
    ASSUME Base, Base', LInv, NEW e \in Endpoint, PeerSend(e)
    PROVE  Transparent!Say(e)
<1>1. /\ peer[e] = "open" /\ e \notin eof
      /\ sent' = [sent EXCEPT ![e] = sent[e] + 1]
      /\ UNCHANGED <<peer, traces, dlv, eof>>
  BY DEF PeerSend, EnvUnchanged, procVars
<1>2. Line' = Line
  BY <1>1, LineFrame DEF Traced
<1>3. Line[e[1]] \in {"waiting", "up"}
  BY <1>1, OpenPeer DEF Line
<1>4. Left' = Left /\ e \notin Left
  BY <1>1 DEF Left, Ended
<1> QED BY <1>1, <1>2, <1>3, <1>4 DEF Transparent!Say, Line, Left

\* A peer closes, or is reset: Leave.
LEMMA LeaveStep ==
    ASSUME Base, Base', LInv, NEW e \in Endpoint, NEW how \in {"fin", "rst"}, LClose(e, how)
    PROVE  Transparent!Leave(e)
<1>1. /\ peer[e] = "open" /\ e \notin eof /\ peer[Partner(e)] = "open"
      /\ peer' = [peer EXCEPT ![e] = how]
      /\ UNCHANGED <<sent, traces, dlv, eof>>
  BY DEF LClose, PeerClose, EnvUnchanged, procVars
<1>2. /\ \A d \in Endpoint : /\ Ended(d)' <=> Ended(d) \/ d = e
                             /\ peer'[d] = "idle" <=> peer[d] = "idle"
      /\ \A l \in Session : <<l, "in">> \in Endpoint /\ <<l, "out">> \in Endpoint
  BY <1>1 DEF Ended, Base, IInv, TypeOK, Endpoint
<1>3. Line' = Line
  BY <1>1, <1>2, LineFrame DEF Traced
<1>4. Line[e[1]] = "up"
  BY <1>1, OpenPeer DEF Line
<1>5. Left' = Left \cup {e} /\ e \notin Left
  BY <1>1, <1>2 DEF Left, Ended
<1> QED BY <1>1, <1>3, <1>4, <1>5 DEF Transparent!Leave, Line, Left

\* handleWrite: Pass, of all the units that are held.
LEMMA PassStep ==
    ASSUME Base, Base', TidyInv, LInv, NEW sd \in Fd, activate_write(sd)
    PROVE  \E e \in Endpoint : \E n \in 1 .. sent[Partner(e)] - Len(dlv[e]) :
              Transparent!Pass(e, n)
<1> USE NullAssumption
<1>1. PICK e, p \in Endpoint, g \in Fd :
              /\ e = sock[sd] /\ p = Partner(e) /\ g = hashmap[sd].sd
              /\ g # sd /\ sock[g] = p /\ hashmap[g].sd = sd
              /\ hashmap[sd].bufsize = 0 /\ hashmap[g].bufsize > 0
              /\ dlv' = [dlv EXCEPT ![e] = dlv[e] \o hashmap[g].data]
              /\ hashmap' = [hashmap EXCEPT ![g] = Flushed(hashmap[g])]
              /\ ined' = [ined EXCEPT ![sd] = {"IN"}, ![g] = {"IN"}]
              /\ batch' = [batch EXCEPT ![sd] = {}]
              /\ UNCHANGED <<backlog, peer, sent, seen, traces, isDone, sock, eof, rcvd,
                             cur, status>>
  BY WriteStep
<1>2. PICK n : n = hashmap[g].bufsize
  OBVIOUS
<1>3. Partner(p) = e /\ e # NULL /\ p # NULL
  BY <1>1, PartnerIs
<1>4. /\ hashmap[g].data \in Seq(Unit) /\ n = Len(hashmap[g].data) /\ n \in Nat
      /\ DOMAIN hashmap[g].data = 1 .. n
      /\ Len(dlv[e]) \in Nat /\ rcvd[p] \in Nat /\ sent[p] \in Nat
  BY <1>1, <1>2, <1>3, OpenEnd, NumbersAre DEF Base
<1>5. HeldAt(g) /\ rcvd[p] <= sent[p]
  BY <1>1, <1>3 DEF LInv, LHeld, LHeard
<1>6. rcvd[p] = Len(dlv[e]) + n
  BY <1>1, <1>2, <1>3, <1>5 DEF HeldAt
<1>7. n \in 1 .. sent[Partner(e)] - Len(dlv[e])
  <2>1. n > 0 /\ sent[Partner(e)] = sent[p]
    BY <1>1, <1>2
  <2>2. PICK m : m = Len(dlv[e])
    OBVIOUS
  <2>3. m \in Nat /\ rcvd[p] = m + n
    BY <1>4, <1>6, <2>2
  <2>4. n <= sent[p] - m
    BY <1>4, <1>5, <2>3
  <2> QED BY <1>4, <2>1, <2>2, <2>3, <2>4
<1>8. hashmap[g].data = [i \in 1 .. n |-> <<Partner(e), Len(dlv[e]) + i>>]
  <2>1. \A i \in 1 .. n : hashmap[g].data[i] = <<p, Len(dlv[e]) + i>>
    <3>1. sock[g] = p /\ Partner(p) = e /\ DOMAIN hashmap[g].data = 1 .. n
      BY <1>1, <1>3, <1>4, Zenon
    <3> QED BY <1>5, <3>1, Zenon DEF HeldAt
  <2>2. PICK d : d = hashmap[g].data
    OBVIOUS
  <2>3. PICK l : l = Len(dlv[e])
    OBVIOUS
  <2>4. d \in Seq(Unit) /\ DOMAIN d = 1 .. n
    BY <1>4, <2>2, Zenon
  <2>5. d = [i \in 1 .. n |-> d[i]]
    BY <2>4
  <2>6. \A i \in 1 .. n : d[i] = <<p, l + i>>
    BY <2>1, <2>2, <2>3, Zenon
  <2>7. d = [i \in 1 .. n |-> <<p, l + i>>]
    BY <2>5, <2>6, Zenon
  <2> QED BY <1>1, <2>2, <2>3, <2>7, Zenon
<1>9. ~ Ended(e)
  BY <1>1, <1>3, BusyEnd
<1>10. e[1] \in Session /\ LineOf(e[1]) = "up" /\ e \notin eof
  BY <1>1, <1>3, OpenIsUp
<1>11. Line[e[1]] = "up" /\ e \notin Left \cup eof
  BY <1>9, <1>10 DEF Line, Left
<1>12. Line' = Line /\ Left' = Left
  <2>1. Left' = Left
    BY <1>1 DEF Left, Ended
  <2>2. UNCHANGED <<peer, traces>>
    BY <1>1
  <2> QED BY <2>1, <2>2, LineFrame DEF Traced
<1>13. Transparent!Other(e) = Partner(e)
  BY RelayIs
<1>14. dlv' = [dlv EXCEPT ![e] =
                 dlv[e] \o [i \in 1 .. n |-> <<Transparent!Other(e), Len(dlv[e]) + i>>]]
  BY <1>1, <1>8, <1>13
<1>15. UNCHANGED <<traces, sent, eof>>
  BY <1>1
<1>16. Transparent!Pass(e, n)
  BY <1>11, <1>12, <1>14, <1>15 DEF Transparent!Pass, Line, Left
<1> QED BY <1>7, <1>16

\* closeConnections: HangUp. Nothing is under way any more.
LEMMA HangUpStep ==
    ASSUME Base, Base', TidyInv, LInv, NEW sd \in Fd, sock[sd] # NULL, NEW e, e = sock[sd],
           Ended(e) \/ Ended(Partner(e)), eof' = eof \cup {e},
           UNCHANGED <<peer, sent, traces, dlv>>
    PROVE  \E d \in Endpoint : Transparent!HangUp(d)
<1>1. e \in Endpoint /\ Partner(e) \in Endpoint /\ Partner(Partner(e)) = e
  BY OpenEnd, PartnerIs
<1>2. sent[e] = Len(dlv[Partner(e)]) /\ sent[Partner(e)] = Len(dlv[e])
  <2>1. CASE Ended(e)
    BY <1>1, <2>1 DEF LInv, LLeft
  <2>2. CASE Ended(Partner(e))
    BY <1>1, <2>2 DEF LInv, LLeft
  <2> QED BY <2>1, <2>2
<1>3. Line[e[1]] = "up" /\ e \notin eof
  BY OpenIsUp DEF Line
<1>4. Line' = Line /\ Left' = Left
  <2>1. Left' = Left
    BY DEF Left, Ended
  <2> QED BY <2>1, LineFrame DEF Traced
<1>5. {e, Transparent!Other(e)} \cap Left # {}
  BY <1>1, RelayIs DEF Left
<1>6. Transparent!Pending(e) = 0 /\ Transparent!Pending(Transparent!Other(e)) = 0
  <2>1. sent[e] \in Nat /\ sent[Partner(e)] \in Nat
    BY <1>1, NumbersAre DEF Base
  <2>2. /\ Transparent!Pending(e) = sent[Partner(e)] - Len(dlv[e])
        /\ Transparent!Pending(Partner(e)) = sent[e] - Len(dlv[Partner(e)])
    BY <1>1, RelayIs
  <2> QED BY <1>2, <2>1, <2>2, RelayIs
<1> QED BY <1>1, <1>3, <1>4, <1>5, <1>6 DEF Transparent!HangUp, Line, Left

\* Every step of the proxies and their peers is a step of Relay, or none.
LEMMA RelayStep ==
    ASSUME Base, Base', TidyInv, TidyInv', LInv, LInv', [SpacedNext]_lvars
    PROVE  [Transparent!Next]_(Transparent!vars)
<1> DEFINE Goal == Transparent!Next \/ UNCHANGED Transparent!vars
<1> SUFFICES Goal
  OBVIOUS
<1> USE NullAssumption
<1>1. CASE as_ready
  <2>1. UNCHANGED <<traces, sent, dlv, eof, peer>>
    BY <1>1 DEF as_ready, tproxy_ready, procVars, netVars
  <2> QED BY <2>1, UnseenStep DEF Ended
<1>2. CASE as_handleNewConnection
  BY <1>2, AdmitStep, RefuseStep, MisreportStep DEF as_handleNewConnection, Transparent!Next
<1>3. ASSUME NEW sd \in Fd, activate_read(sd) PROVE Goal
  <2>1. UNCHANGED <<traces, sent, dlv, eof, peer>>
    BY <1>3 DEF activate_read, netVars
  <2> QED BY <2>1, UnseenStep DEF Ended
<1>4. ASSUME NEW sd \in Fd, activate_eof(sd) PROVE Goal
  <2>1. PICK e : e = sock[sd]
    OBVIOUS
  <2>2. "IN" \in batch[sd] /\ Avail(e) <= 0
    BY <1>4, <2>1 DEF activate_eof, InPart
  <2>3. e # NULL /\ Readable(e)
    BY <2>1, <2>2, InEvent
  <2>4. e \in Endpoint
    BY <2>1, <2>3, OpenEnd
  <2>5. Avail(e) \in Int
    BY <2>4, NumbersAre DEF Base, Avail
  <2>6. Ended(e)
    BY <2>2, <2>3, <2>5 DEF Readable
  <2>7. eof' = eof \cup {e} /\ UNCHANGED <<peer, sent, traces, dlv>>
    BY <1>4, <2>1, <2>3 DEF activate_eof, closeConnections, netVars
  <2>8. \E d \in Endpoint : Transparent!HangUp(d)
    BY <2>1, <2>3, <2>6, <2>7, HangUpStep
  <2> QED BY <2>8, RelayIs DEF Transparent!Next
<1>5. ASSUME NEW sd \in Fd, activate_write(sd) PROVE Goal
  BY <1>5, PassStep, RelayIs DEF Transparent!Next
<1>6. ASSUME NEW sd \in Fd, activate_close(sd) PROVE Goal
  <2>1. PICK e : e = sock[sd]
    OBVIOUS
  <2>2. PICK g : g = hashmap[sd].sd
    OBVIOUS
  <2>3. cur = NULL /\ batch[sd] = {"OUT"} /\ hashmap[g] = NULL
    BY <1>6, <2>2 DEF LInv, activate_close, OutPart, me, partner
  <2>4. e # NULL /\ (sock[g] # NULL \/ Ended(Partner(e)))
    BY <2>1, <2>2, <2>3, OutEvent
  <2>5. Ended(Partner(e))
    <3>1. g \in Fd
      BY <2>1, <2>2, <2>4, OpenEnd
    <3> QED BY <2>3, <2>4, <3>1 DEF Base, IInv, HashmapTracksOpenFds
  <2>6. eof' = eof \cup {e} /\ UNCHANGED <<peer, sent, traces, dlv>>
    BY <1>6, <2>1, <2>4 DEF activate_close, closeConnections, netVars
  <2>7. \E d \in Endpoint : Transparent!HangUp(d)
    BY <2>1, <2>4, <2>5, <2>6, HangUpStep
  <2> QED BY <2>7, RelayIs DEF Transparent!Next
<1>7. ASSUME NEW sd \in Fd PROVE ~ activate_exit(sd)
  BY DEF activate_exit, TidyInv, GonePartnerNeverExits
<1>8. ASSUME NEW k \in Session, LAnswer(k) PROVE Goal
  <2>1. /\ peer[<<k, "out">>] = "syn" /\ peer' = [peer EXCEPT ![<<k, "out">>] = "open"]
        /\ UNCHANGED <<traces, sent, dlv, eof>>
    BY <1>8 DEF LAnswer, Answer, EnvUnchanged, procVars
  <2>2. \A e \in Endpoint : /\ peer'[e] = "idle" <=> peer[e] = "idle"
                            /\ Ended(e)' <=> Ended(e)
    BY <2>1 DEF Ended, Base, IInv, TypeOK
  <2> QED BY <2>1, <2>2, UnseenStep
<1>9. ASSUME NEW e \in Endpoint, LSend(e) PROVE Goal
  <2>1. Transparent!Say(e)
    BY <1>9, SayStep DEF LSend
  <2> QED BY <2>1, RelayIs DEF Transparent!Next
<1>10. ASSUME NEW e \in Endpoint, LRead(e) \/ TakeTurn(e) PROVE Goal
  <2>1. UNCHANGED <<traces, sent, dlv, eof, peer>>
    BY <1>10 DEF LRead, PeerRead, TakeTurn, EnvUnchanged, procVars, vars
  <2> QED BY <2>1, UnseenStep DEF Ended
<1>11. ASSUME NEW k \in Session, Connect(k) PROVE Goal
  BY <1>11, AskStep DEF Transparent!Next
<1>12. ASSUME NEW e \in Endpoint, NEW how \in {"fin", "rst"}, LClose(e, how) PROVE Goal
  <2>1. Transparent!Leave(e)
    BY <1>12, LeaveStep
  <2> QED BY <2>1, RelayIs DEF Transparent!Next
<1>13. CASE UNCHANGED lvars
  <2>1. UNCHANGED <<traces, sent, dlv, eof, peer>>
    BY <1>13 DEF lvars, vars
  <2> QED BY <2>1, UnseenStep DEF Ended
<1>14. CASE as_proxy
  <2> HIDE DEF Goal
  <2> QED
    BY <1>1, <1>2, <1>3, <1>4, <1>5, <1>6, <1>7, <1>14
    DEF as_proxy, as_activateAs_in, as_activateAs_out, as_handleRead, as_closeConnections,
        as_handleWrite
<1>15. CASE Dialogue
  <2> HIDE DEF Goal
  <2> QED BY <1>8, <1>9, <1>10, <1>15 DEF Dialogue
<1> HIDE DEF Goal
<1> QED BY <1>11, <1>12, <1>13, <1>14, <1>15 DEF SpacedNext

\* At the start nobody has asked.
LEMMA RelayInit == LInit => Transparent!Init
<1> SUFFICES ASSUME LInit PROVE Transparent!Init
  OBVIOUS
<1>1. /\ \A k \in Session : peer[<<k, "in">>] = "idle"
      /\ \A e \in Endpoint : ~ Ended(e)
      /\ backlog = <<>>
  BY DEF LInit, Init, Endpoint, Ended
<1>2. Line = [k \in Session |-> "idle"]
  BY <1>1 DEF Line, LineOf
<1>3. Left = {}
  BY <1>1 DEF Left
<1>4. /\ traces = <<>> /\ eof = {}
      /\ sent = [e \in Transparent!End |-> 0] /\ dlv = [e \in Transparent!End |-> <<>>]
  BY RelayIs DEF LInit, Init
<1> QED BY <1>2, <1>3, <1>4 DEF Transparent!Init, Line, Left

\* Sessions that overlap, none opened while another one is being closed: to those
\* it stands between, autosys is Relay.
THEOREM SpacedImplementsRelay == SpacedSpec => ImplementsRelay
<1>1. Base /\ Base' /\ TidyInv /\ TidyInv' /\ LInv /\ LInv' /\ [SpacedNext]_lvars
         => [Transparent!Next]_(Transparent!vars)
  BY RelayStep
<1> QED
  BY <1>1, RelayInit, SpacedAlways, PTL
  DEF SpacedSpec, as_init, ImplementsRelay, Transparent!Spec

-----------------------------------------------------------------------------
(* One session after the other is a special case. *)

\* At the start no session is there.
LEMMA InitSolo == LInit => LSolo
  BY NullAssumption DEF LInit, Init, LSolo, Traced

\* Steps that neither queue nor accept a session.
LEMMA SoloFrame ==
    ASSUME LSolo, UNCHANGED <<backlog, traces>>, eof \subseteq eof',
           \A e \in Endpoint : peer'[e] # "idle" => peer[e] # "idle",
           \A f \in Fd : sock'[f] = sock[f] \/ (sock'[f] = NULL /\ sock[f] \in eof')
    PROVE  LSolo'
<1>1. \A k : Traced(k)' <=> Traced(k)
  BY DEF Traced
<1>2. ASSUME NEW e \in Endpoint, peer'[e] # "idle", Traced(e[1])', e \notin eof'
      PROVE  \E f \in Fd : sock'[f] = e
  <2>1. PICK f \in Fd : sock[f] = e
    BY <1>1, <1>2 DEF LSolo
  <2> QED BY <1>2, <2>1
<1> QED BY <1>1, <1>2 DEF LSolo

\* The queue is empty once its only session is taken from it.
LEMMA SoloTail ==
    ASSUME Base, LSolo, backlog # <<>>
    PROVE  Tail(backlog) = <<>>
<1>1. backlog \in Seq(Session) /\ Len(backlog) <= 1
  BY DEF Base, IInv, TypeOK, LSolo
<1> QED BY <1>1

\* One session after the other stays so.
LEMMA SoloStep ==
    ASSUME Base, Base', LInv, LSolo, [LNext]_lvars
    PROVE  LSolo'
<1> USE NullAssumption
<1>1. CASE tproxy_ready
  <2>1. UNCHANGED <<backlog, traces, eof, peer, sock>>
    BY <1>1 DEF tproxy_ready, procVars, netVars
  <2> QED BY <2>1, SoloFrame
<1>2. CASE handleNewConnection
  <2>1. PICK k \in Session, cin, cout \in Fd :
              /\ backlog # <<>> /\ k = Head(backlog) /\ cin # cout
              /\ sock[cin] = NULL /\ sock[cout] = NULL
              /\ sock' = [sock EXCEPT ![cin] = <<k, "in">>, ![cout] = <<k, "out">>]
              /\ hashmap' = NewEntries(cin, cout)
              /\ ined' = [ined EXCEPT ![cin] = {"IN"}, ![cout] = {"IN"}]
              /\ \A f \in Fd : sock[f] # NULL => sock[f][1] # k
    BY <1>2, AcceptStep DEF Base
  <2>2. /\ peer' = [peer EXCEPT ![<<k, "out">>] = "syn"] /\ udpTrace(k) /\ eof' = eof
        /\ backlog' = Tail(backlog)
    BY <1>2, <2>1 DEF handleNewConnection
  <2>3. backlog' = <<>>
    BY <2>1, <2>2, SoloTail
  <2>4. \A l : Traced(l)' <=> Traced(l) \/ l = k
    BY <2>2, TracedAfter
  <2>5. ASSUME NEW e \in Endpoint, peer'[e] # "idle", Traced(e[1])', e \notin eof'
        PROVE  \E f \in Fd : sock'[f] = e
    <3>1. CASE e[1] = k
      <4>1. e \in {<<k, "in">>, <<k, "out">>}
        BY <3>1 DEF Endpoint
      <4>2. sock'[cin] = <<k, "in">> /\ sock'[cout] = <<k, "out">>
        BY <2>1 DEF Base, IInv, TypeOK
      <4> QED BY <4>1, <4>2
    <3>2. CASE e[1] # k
      <4>1. peer'[e] = peer[e] /\ Traced(e[1])
        BY <2>2, <2>4, <2>5, <3>2, EndsOf DEF Base, IInv, TypeOK
      <4>2. PICK f \in Fd : sock[f] = e
        BY <2>2, <2>5, <4>1 DEF LSolo
      <4>3. f # cin /\ f # cout
        BY <2>1, <4>2
      <4> QED BY <2>1, <4>2, <4>3 DEF Base, IInv, TypeOK
    <3> QED BY <3>1, <3>2
  <2> QED BY <2>3, <2>5 DEF LSolo
<1>3. CASE handleNewConnection_refused
  <2>1. PICK k : k = Head(backlog)
    OBVIOUS
  <2>2. backlog # <<>>
    BY <1>3 DEF handleNewConnection_refused, Base, IInv, AcceptHasClient
  <2>3. k \in Session /\ peer[<<k, "out">>] = "idle"
    BY <2>1, <2>2, HeadIsFresh
  <2>4. /\ udpTrace(k) /\ eof' = eof \cup {<<k, "in">>}
        /\ backlog' = Tail(backlog) /\ UNCHANGED <<peer, sock>>
    BY <1>3, <2>1 DEF handleNewConnection_refused
  <2>5. backlog' = <<>>
    BY <2>2, <2>4, SoloTail
  <2>6. \A l : Traced(l)' <=> Traced(l) \/ l = k
    BY <2>3, <2>4, TracedAfter
  <2>7. ASSUME NEW e \in Endpoint, peer'[e] # "idle", Traced(e[1])', e \notin eof'
        PROVE  \E f \in Fd : sock'[f] = e
    <3>1. e[1] # k
      <4>1. e # <<k, "in">> /\ e # <<k, "out">>
        BY <2>3, <2>4, <2>7
      <4> QED BY <4>1 DEF Endpoint
    <3> QED BY <2>4, <2>6, <2>7, <3>1 DEF LSolo
  <2> QED BY <2>5, <2>7 DEF LSolo
<1>4. CASE handleNewConnection_nofd
  <2>1. udpTrace(NULL) /\ UNCHANGED <<backlog, eof, peer, sock>>
    BY <1>4 DEF handleNewConnection_nofd
  <2>2. \A e \in Endpoint : Traced(e[1])' <=> Traced(e[1])
    BY <2>1, TracedAfter DEF Endpoint
  <2> QED BY <2>1, <2>2 DEF LSolo
<1>5. ASSUME NEW sd \in Fd, activate_read(sd) \/ activate_write(sd) \/ activate_exit(sd)
      PROVE  LSolo'
  <2>1. UNCHANGED <<backlog, traces, eof, peer, sock>>
    BY <1>5 DEF activate_read, activate_write, handleWrite, activate_exit, netVars
  <2> QED BY <2>1, SoloFrame
<1>6. ASSUME NEW sd \in Fd, activate_eof(sd) \/ activate_close(sd) PROVE LSolo'
  <2>1. /\ UNCHANGED <<backlog, traces, peer>>
        /\ eof' = eof \cup ({sock[sd]} \ {NULL}) /\ sock' = [sock EXCEPT ![sd] = NULL]
    BY <1>6 DEF activate_eof, activate_close, closeConnections, netVars
  <2>2. \A f \in Fd : sock'[f] = sock[f] \/ (sock'[f] = NULL /\ sock[f] \in eof')
    BY <2>1 DEF Base, IInv, TypeOK
  <2> QED BY <2>1, <2>2, SoloFrame
<1>7. ASSUME NEW k \in Session, LConnect(k) PROVE LSolo'
  <2>1. /\ backlog = <<>> /\ Free = Fd /\ peer[<<k, "in">>] = "idle"
        /\ peer' = [peer EXCEPT ![<<k, "in">>] = "open"] /\ backlog' = Append(backlog, k)
        /\ UNCHANGED <<traces, sock, eof>>
    BY <1>7 DEF LConnect, Idle, Connect, EnvUnchanged, procVars
  <2>2. Len(backlog') <= 1
    BY <2>1
  <2>3. \A f \in Fd : sock[f] = NULL
    BY <2>1 DEF Free
  <2>4. ~ Traced(k) /\ \A l : Traced(l)' <=> Traced(l)
    BY <2>1 DEF Traced, Base, SessInv
  <2>5. \A e \in Endpoint : Traced(e[1])' => peer'[e] = peer[e]
    BY <2>1, <2>4, EndsOf DEF Base, IInv, TypeOK
  <2> QED BY <2>1, <2>2, <2>3, <2>4, <2>5 DEF LSolo
<1>8. ASSUME NEW k \in Session, LAnswer(k) PROVE LSolo'
  <2>1. /\ peer[<<k, "out">>] = "syn" /\ peer' = [peer EXCEPT ![<<k, "out">>] = "open"]
        /\ UNCHANGED <<backlog, traces, sock, eof>>
    BY <1>8 DEF LAnswer, Answer, EnvUnchanged, procVars
  <2>2. \A e \in Endpoint : peer'[e] # "idle" => peer[e] # "idle"
    BY <2>1 DEF Base, IInv, TypeOK
  <2> QED BY <2>1, <2>2, SoloFrame
<1>9. ASSUME NEW e \in Endpoint, LSend(e) \/ LRead(e) \/ TakeTurn(e) PROVE LSolo'
  <2>1. UNCHANGED <<backlog, traces, eof, peer, sock>>
    BY <1>9 DEF LSend, PeerSend, LRead, PeerRead, TakeTurn, EnvUnchanged, procVars, vars
  <2> QED BY <2>1, SoloFrame
<1>10. ASSUME NEW e \in Endpoint, NEW how \in {"fin", "rst"}, LClose(e, how) PROVE LSolo'
  <2>1. /\ peer[e] = "open" /\ peer' = [peer EXCEPT ![e] = how]
        /\ UNCHANGED <<backlog, traces, sock, eof>>
    BY <1>10 DEF LClose, PeerClose, EnvUnchanged, procVars
  <2>2. \A d \in Endpoint : peer'[d] # "idle" => peer[d] # "idle"
    BY <2>1 DEF Base, IInv, TypeOK
  <2> QED BY <2>1, <2>2, SoloFrame
<1>11. CASE UNCHANGED lvars
  <2>1. UNCHANGED <<backlog, traces, eof, peer, sock>>
    BY <1>11 DEF lvars, vars
  <2> QED BY <2>1, SoloFrame
<1>12. CASE LProxy
  BY <1>1, <1>2, <1>3, <1>4, <1>5, <1>6, <1>12 DEF LProxy, Proxy, ProxyStep
<1>13. CASE LPeers
  BY <1>7, <1>8, <1>9, <1>10, <1>13 DEF LPeers
<1> QED BY <1>11, <1>12, <1>13 DEF LNext

\* A client that connects only once the proxy is idle opens its session while no
\* other one is being closed, and one that leaves leaves nobody in the queue.
LEMMA SoloIsSpaced ==
    ASSUME Base, LInv, LSolo, [LNext]_lvars
    PROVE  [SpacedNext]_lvars
<1> USE NullAssumption
<1>1. CASE LProxy
  BY <1>1
  DEF LProxy, Proxy, ProxyStep, SpacedNext, as_proxy, as_ready, as_handleNewConnection,
      as_activateAs_in, as_activateAs_out, as_handleRead, as_closeConnections,
      as_handleWrite
<1>2. ASSUME NEW k \in Session, LConnect(k) PROVE SpacedNext
  BY <1>2 DEF LConnect, Idle, Free, Settled, SpacedNext
<1>3. ASSUME NEW e \in Endpoint, NEW how \in {"fin", "rst"}, LClose(e, how)
      PROVE  SpacedNext
  <2>1. peer[e] = "open" /\ e \notin eof /\ peer[Partner(e)] = "open"
    BY <1>3 DEF LClose, PeerClose
  <2>2. e[1] \in Session /\ LineOf(e[1]) = "up"
    BY <2>1, OpenPeer
  <2>3. Traced(e[1])
    BY <2>2, LineIs
  <2>4. PICK f \in Fd : sock[f] = e
    BY <2>1, <2>3 DEF LSolo
  <2>5. backlog = <<>>
    BY <2>4 DEF LSolo
  <2> QED BY <1>3, <2>5 DEF SpacedNext
<1>4. CASE LPeers
  BY <1>2, <1>3, <1>4 DEF LPeers, SpacedNext, Dialogue
<1> QED BY <1>1, <1>4 DEF LNext

\* The invariants hold throughout the lockstep use.
LEMMA LAlways == LSpec => [](Base /\ TidyInv /\ LInv /\ LSolo)
<1>1. LSpec => Spec
  BY LNextIsNext, PTL DEF LSpec, LInit, Spec
<1>2. LInit => TidyInv /\ LInv /\ LSolo
  BY InitTidy, InitLInv, InitSolo DEF LInit
<1>3. Base /\ Base' /\ TidyInv /\ LInv /\ LSolo /\ [LNext]_lvars
         => TidyInv' /\ LInv' /\ LSolo'
  <2> SUFFICES ASSUME Base, Base', TidyInv, LInv, LSolo, [LNext]_lvars
               PROVE  TidyInv' /\ LInv' /\ LSolo'
    OBVIOUS
  <2>1. TidyInv'
    BY SpacedIsTidy, LNextIsNext, NextTidy DEF Base
  <2> QED BY <2>1, SoloIsSpaced, SpacedStep, SoloStep
<1> QED BY <1>1, <1>2, <1>3, BaseAlways, PTL DEF LSpec

\* One session after the other is a way of keeping sessions apart.
THEOREM LockstepIsSpaced == LSpec => SpacedSpec
<1>1. Base /\ LInv /\ LSolo /\ [LNext]_lvars => [SpacedNext]_lvars
  BY SoloIsSpaced
<1> QED BY <1>1, LAlways, PTL DEF LSpec, SpacedSpec, as_init

\* The tracked clients' proxy never exits and never frees a buffer twice.
THEOREM LockstepNeverFails == LSpec => []NeverFails
  BY LockstepIsSpaced, SpacedNeverFails, PTL

\* It loses nothing that it read.
THEOREM LockstepNothingLost == LSpec => []NothingLost
  BY LockstepIsSpaced, SpacedNothingLost, PTL

\* It leaves no descriptor registered for the wrong events.
THEOREM LockstepRegistered == LSpec => []RegisteredForWhatItWaits
  BY LockstepIsSpaced, SpacedRegistered, PTL

\* To those it stands between it is Relay.
THEOREM LockstepImplementsRelay == LSpec => ImplementsRelay
  BY LockstepIsSpaced, SpacedImplementsRelay, PTL
=============================================================================
