----------------------- MODULE SimpleTCPServerProofs -----------------------
(***************************************************************************)
(* What TLAPS proves of SimpleTCPServer, for every set of connections and  *)
(* descriptors.                                                            *)
(***************************************************************************)
EXTENDS SimpleTCPServer, SequenceTheorems, TLAPS

\* A descriptor is watched exactly while it is open, and then the table has the
\* time its connection was accepted at.
TimesOfOpenFds ==
    \A sd \in Fd :
      /\ sd \in DOMAIN ed <=> owner[sd] # NULL
      /\ owner[sd] # NULL => sd \in DOMAIN hashtab /\ hashtab[sd] = since[owner[sd]]

\* A connection waits in the backlog once, and only before it is accepted.
BacklogNotAccepted ==
    /\ \A i \in 1 .. Len(backlog) : since[backlog[i]] = NULL /\ state[backlog[i]] # "none"
    /\ \A i, j \in 1 .. Len(backlog) : backlog[i] = backlog[j] => i = j
    /\ \A c \in Conn : state[c] = "none" => since[c] = NULL

\* A line of the log.
Line == [host : Seq({"head", "tail"}), time : 0 .. MaxTime]

SInv ==
    /\ TypeOK
    /\ TimesOfOpenFds
    /\ BacklogNotAccepted
    /\ LoggedTimeIsItsOwn
    /\ LookupAlwaysFinds

\* Nothing is open, waits or is logged at the start.
LEMMA InitSInv == Init => SInv
  BY FdAssumption
  DEF Init, SInv, TypeOK, TimesOfOpenFds, BacklogNotAccepted, LoggedTimeIsItsOwn,
      LookupAlwaysFinds, Hostname

\* EPOLL_CTL_MOD neither adds nor removes a descriptor.
LEMMA WatchDomain ==
    ASSUME NEW events, NEW sd, NEW ev \in {"IN", "OUT"},
           \A z \in DOMAIN events : events[z] \in {"IN", "OUT"}
    PROVE  /\ DOMAIN Watch(events, sd, ev) = DOMAIN events
           /\ \A z \in DOMAIN events : Watch(events, sd, ev)[z] \in {"IN", "OUT"}
  BY DEF Watch, Put

\* Accepting a connection keeps the invariant: it was not accepted before, so
\* no line and no other descriptor bears its time.
LEMMA AcceptSInv == SInv /\ activateServer_accept => SInv'
<1> SUFFICES ASSUME SInv, activateServer_accept PROVE SInv'
  OBVIOUS
<1> USE FdAssumption
<1>0. PICK sd \in Fd :
        /\ LowestFree(sd)
        /\ owner' = [owner EXCEPT ![sd] = Head(backlog)]
        /\ hashtab' = Put(hashtab, sd, clock)
        /\ ed' = Put(ed, sd, "IN")
  BY DEF activateServer_accept, StoreTime
<1>1. /\ backlog \in Seq(Conn) /\ backlog # <<>>
      /\ backlog' = Tail(backlog)
      /\ since' = [since EXCEPT ![Head(backlog)] = clock]
      /\ UNCHANGED <<state, wire, unsent, log, status, clock>>
  BY DEF activateServer_accept, SInv, TypeOK, peerVars
<1>2. /\ Head(backlog) \in Conn /\ Head(backlog) = backlog[1]
      /\ Tail(backlog) \in Seq(Conn)
      /\ Len(Tail(backlog)) = Len(backlog) - 1
      /\ \A i \in 1 .. Len(Tail(backlog)) : Tail(backlog)[i] = backlog[i + 1]
      /\ Len(backlog) \in Nat \ {0}
  BY <1>1, HeadTailProperties, EmptySeq, LenProperties
<1>3. since[Head(backlog)] = NULL
  BY <1>2 DEF SInv, BacklogNotAccepted
<1>4. TypeOK'
  BY <1>0, <1>1, <1>2 DEF SInv, TypeOK, Put
<1>5. TimesOfOpenFds'
  <2>1. owner[sd] = NULL
    BY <1>0 DEF LowestFree, Free
  <2> SUFFICES ASSUME NEW z \in Fd
               PROVE  /\ z \in DOMAIN ed' <=> owner'[z] # NULL
                      /\ owner'[z] # NULL => z \in DOMAIN hashtab' /\ hashtab'[z] = since'[owner'[z]]
    BY DEF TimesOfOpenFds
  <2>2. CASE z = sd
    BY <1>0, <1>1, <1>2, <2>2 DEF SInv, TypeOK, Put
  <2>3. CASE z # sd
    <3>1. owner'[z] = owner[z]
      BY <1>0, <2>3 DEF SInv, TypeOK
    <3>2. /\ z \in DOMAIN ed' <=> z \in DOMAIN ed
          /\ z \in DOMAIN hashtab => z \in DOMAIN hashtab' /\ hashtab'[z] = hashtab[z]
      BY <1>0, <2>3 DEF Put
    <3>3. owner[z] # NULL => owner[z] # Head(backlog)
      BY <1>3 DEF SInv, TypeOK, TimesOfOpenFds
    <3> QED
      BY <1>1, <1>2, <3>1, <3>2, <3>3 DEF SInv, TypeOK, TimesOfOpenFds
  <2> QED
    BY <2>2, <2>3
<1>6. BacklogNotAccepted'
  <2>1. \A i \in 1 .. Len(backlog') : backlog'[i] \in Conn /\ backlog'[i] # Head(backlog)
    BY <1>1, <1>2 DEF SInv, BacklogNotAccepted
  <2>2. \A i \in 1 .. Len(backlog') : i + 1 \in 1 .. Len(backlog) /\ backlog'[i] = backlog[i + 1]
    BY <1>1, <1>2
  <2>3. /\ \A i \in 1 .. Len(backlog') : since'[backlog'[i]] = NULL /\ state'[backlog'[i]] # "none"
        /\ \A i, j \in 1 .. Len(backlog') : backlog'[i] = backlog'[j] => i = j
    BY <1>1, <1>2, <2>1, <2>2 DEF SInv, TypeOK, BacklogNotAccepted
  <2>4. state[Head(backlog)] # "none"
    BY <1>2 DEF SInv, BacklogNotAccepted
  <2> QED
    BY <1>1, <1>2, <2>3, <2>4 DEF SInv, TypeOK, BacklogNotAccepted
<1>7. LoggedTimeIsItsOwn'
  <2>1. \A c \in Conn : \A i \in 1 .. Len(log[c]) : log[c][i] \in Line
    BY ElementOfSeq DEF SInv, TypeOK, Line
  <2>2. \A c \in Conn : \A i \in 1 .. Len(log[c]) : since[c] # NULL
    BY <2>1 DEF SInv, LoggedTimeIsItsOwn, Line
  <2>3. \A c \in Conn : c # Head(backlog) => since'[c] = since[c]
    BY <1>1, <1>2 DEF SInv, TypeOK
  <2> QED
    BY <1>1, <1>3, <2>2, <2>3 DEF SInv, LoggedTimeIsItsOwn
<1>8. LookupAlwaysFinds'
  BY <1>1 DEF SInv, LookupAlwaysFinds
<1> QED
  BY <1>4, <1>5, <1>6, <1>7, <1>8 DEF SInv

\* A line that is logged bears the time the table has, which is its own
\* connection's; the lookup finds it because the descriptor is open.
LEMMA ReadSInv == ASSUME SInv, NEW sd \in Fd, serverRead(sd) PROVE SInv'
<1> USE FdAssumption
<1> DEFINE c == owner[sd]
           line == [host |-> wire[c], time |-> hashtab[sd]]
<1>1. sd \in DOMAIN ed /\ c \in Conn /\ sd \in DOMAIN hashtab /\ hashtab[sd] = since[c]
  BY DEF serverRead, CanRead, SInv, TypeOK, TimesOfOpenFds
<1>2. /\ log' = [log EXCEPT ![c] = Append(log[c], line)]
      /\ wire' = [wire EXCEPT ![c] = <<>>]
      /\ state' = IF wire[c] = <<>> THEN [state EXCEPT ![c] = "spent"] ELSE state
      /\ hashtab' = hashtab
      /\ ed' = Watch(ed, sd, "OUT")
      /\ UNCHANGED <<status, owner, backlog, unsent, clock, since>>
  BY <1>1 DEF serverRead, logServerConnection, AfterLogging
<1>3. line \in Line /\ log[c] \in Seq(Line)
  BY <1>1 DEF SInv, TypeOK, Line
<1>4. DOMAIN ed' = DOMAIN ed /\ \A z \in DOMAIN ed : ed'[z] \in {"IN", "OUT"}
  BY <1>2, WatchDomain DEF SInv, TypeOK
<1>5. TypeOK'
  <2>0. Append(log[c], line) \in Seq(Line)
    BY <1>3, AppendProperties
  <2>1. log' \in [Conn -> Seq(Line)]
    BY <1>1, <1>2, <2>0 DEF SInv, TypeOK, Line
  <2>2. state' \in [Conn -> {"none", "open", "closed", "aborted", "spent"}]
    BY <1>2 DEF SInv, TypeOK
  <2>3. wire' \in [Conn -> Seq({"head", "tail"})]
    BY <1>2, EmptySeq DEF SInv, TypeOK
  <2> QED
    BY <1>2, <1>4, <2>1, <2>2, <2>3 DEF SInv, TypeOK, Line
<1>6. TimesOfOpenFds'
  BY <1>2, <1>4 DEF SInv, TimesOfOpenFds
<1>7. BacklogNotAccepted'
  <2>1. \A d \in Conn : /\ state'[d] = "none" => state[d] = "none"
                        /\ state[d] # "none" => state'[d] # "none"
    BY <1>1, <1>2 DEF SInv, TypeOK
  <2>2. \A i \in 1 .. Len(backlog) : backlog[i] \in Conn
    BY ElementOfSeq DEF SInv, TypeOK
  <2> QED
    BY <1>2, <2>1, <2>2 DEF SInv, BacklogNotAccepted
<1>8. LoggedTimeIsItsOwn'
  <2>1. /\ Len(log'[c]) = Len(log[c]) + 1 /\ Len(log[c]) \in Nat
        /\ log'[c][Len(log[c]) + 1] = line
        /\ \A i \in 1 .. Len(log[c]) : log'[c][i] = log[c][i]
    <3>1. log'[c] = Append(log[c], line)
      BY <1>1, <1>2 DEF SInv, TypeOK
    <3> QED
      BY <1>3, <3>1, AppendProperties, LenProperties
  <2>2. \A d \in Conn : d # c => log'[d] = log[d]
    BY <1>2 DEF SInv, TypeOK
  <2>3. \A i \in 1 .. Len(log'[c]) : log'[c][i].time = since[c]
    <3>1. \A i \in 1 .. Len(log'[c]) : i = Len(log[c]) + 1 \/ i \in 1 .. Len(log[c])
      BY <2>1
    <3>2. \A i \in 1 .. Len(log[c]) : log[c][i].time = since[c]
      BY <1>1 DEF SInv, LoggedTimeIsItsOwn
    <3>3. line.time = since[c]
      BY <1>1
    <3> QED
      BY <2>1, <3>1, <3>2, <3>3
  <2> QED
    BY <1>2, <2>2, <2>3 DEF SInv, LoggedTimeIsItsOwn
<1>9. LookupAlwaysFinds'
  BY <1>2 DEF SInv, LookupAlwaysFinds
<1> QED
  BY <1>5, <1>6, <1>7, <1>8, <1>9 DEF SInv

\* Closing a connection removes its descriptor from the table and from epoll.
LEMMA EndSInv == ASSUME SInv, NEW sd \in Fd, serverRead_end(sd) PROVE SInv'
<1> USE FdAssumption
<1>1. /\ owner' = [owner EXCEPT ![sd] = NULL]
      /\ hashtab' = Without(hashtab, sd)
      /\ UNCHANGED <<state, wire, unsent, log, status, backlog, clock, since>>
  BY DEF serverRead_end, peerVars
<1>2. ed' = Without(ed, sd)
  BY DEF serverRead_end, Watch, Without
<1>3. TypeOK'
  BY <1>1, <1>2 DEF SInv, TypeOK, Without
<1>4. TimesOfOpenFds'
  BY <1>1, <1>2 DEF SInv, TypeOK, TimesOfOpenFds, Without
<1>5. BacklogNotAccepted' /\ LoggedTimeIsItsOwn' /\ LookupAlwaysFinds'
  BY <1>1 DEF SInv, BacklogNotAccepted, LoggedTimeIsItsOwn, LookupAlwaysFinds
<1> QED
  BY <1>3, <1>4, <1>5 DEF SInv

\* Answering changes what the descriptor is watched for, and nothing else that
\* the invariant relates.
LEMMA WriteSInv ==
    ASSUME SInv, NEW sd \in Fd, serverWrite(sd) \/ serverWrite_sigpipe(sd)
    PROVE  SInv'
<1> USE FdAssumption
<1>1. /\ UNCHANGED <<hashtab, log, owner, backlog, wire, unsent, clock, since>>
      /\ status' \in {status, "sigpipe"}
  BY DEF serverWrite, serverWrite_sigpipe, peerVars
<1>2. DOMAIN ed' = DOMAIN ed /\ \A z \in DOMAIN ed : ed'[z] \in {"IN", "OUT"}
  <2>1. CASE serverWrite(sd)
    BY <2>1, WatchDomain DEF serverWrite, NextEvent, SInv, TypeOK
  <2>2. CASE serverWrite_sigpipe(sd)
    BY <2>2 DEF serverWrite_sigpipe, SInv, TypeOK
  <2> QED
    BY <2>1, <2>2
<1>3. /\ state' \in [Conn -> {"none", "open", "closed", "aborted", "spent"}]
      /\ \A c \in Conn : state'[c] = "none" <=> state[c] = "none"
  <2>1. CASE serverWrite(sd)
    BY <2>1 DEF serverWrite, Ended, SInv, TypeOK
  <2>2. CASE serverWrite_sigpipe(sd)
    BY <2>2 DEF serverWrite_sigpipe, peerVars, SInv, TypeOK
  <2> QED
    BY <2>1, <2>2
<1>4. TypeOK'
  BY <1>1, <1>2, <1>3 DEF SInv, TypeOK
<1>5. TimesOfOpenFds'
  BY <1>1, <1>2 DEF SInv, TimesOfOpenFds
<1>6. BacklogNotAccepted'
  <2>1. \A i \in 1 .. Len(backlog) : backlog[i] \in Conn
    BY ElementOfSeq DEF SInv, TypeOK
  <2> QED
    BY <1>1, <1>3, <2>1 DEF SInv, BacklogNotAccepted
<1>7. LoggedTimeIsItsOwn' /\ LookupAlwaysFinds'
  BY <1>1 DEF SInv, LoggedTimeIsItsOwn, LookupAlwaysFinds
<1> QED
  BY <1>4, <1>5, <1>6, <1>7 DEF SInv

\* A new connection joins the backlog, where it was not.
LEMMA ConnectSInv == ASSUME SInv, NEW c \in Conn, Connect(c) PROVE SInv'
<1> USE FdAssumption
<1>1. /\ state[c] = "none"
      /\ state' = [state EXCEPT ![c] = "open"]
      /\ backlog' = Append(backlog, c)
      /\ UNCHANGED <<hashtab, ed, log, status, owner, wire, unsent, clock, since>>
  BY DEF Connect, serverVars
<1>2. /\ backlog' \in Seq(Conn)
      /\ Len(backlog) \in Nat /\ Len(backlog') = Len(backlog) + 1
      /\ backlog'[Len(backlog) + 1] = c
      /\ \A i \in 1 .. Len(backlog) : backlog'[i] = backlog[i] /\ backlog[i] \in Conn
  BY <1>1, AppendProperties, LenProperties, ElementOfSeq DEF SInv, TypeOK
<1>3. TypeOK'
  BY <1>1, <1>2 DEF SInv, TypeOK
<1>4. TimesOfOpenFds' /\ LoggedTimeIsItsOwn' /\ LookupAlwaysFinds'
  BY <1>1 DEF SInv, TimesOfOpenFds, LoggedTimeIsItsOwn, LookupAlwaysFinds
<1>5. BacklogNotAccepted'
  <2>1. \A i \in 1 .. Len(backlog) : backlog[i] # c
    BY <1>1 DEF SInv, BacklogNotAccepted
  <2>2. \A i \in 1 .. Len(backlog') : i = Len(backlog) + 1 \/ i \in 1 .. Len(backlog)
    BY <1>2
  <2>3. \A i \in 1 .. Len(backlog') : since[backlog'[i]] = NULL /\ state'[backlog'[i]] # "none"
    <3> SUFFICES ASSUME NEW i \in 1 .. Len(backlog')
                 PROVE  since[backlog'[i]] = NULL /\ state'[backlog'[i]] # "none"
      OBVIOUS
    <3>1. since[c] = NULL /\ state'[c] = "open"
      BY <1>1 DEF SInv, TypeOK, BacklogNotAccepted
    <3>2. CASE i = Len(backlog) + 1
      BY <1>2, <3>1, <3>2
    <3>3. CASE i \in 1 .. Len(backlog)
      <4>1. backlog'[i] = backlog[i] /\ backlog[i] \in Conn /\ backlog[i] # c
        BY <1>2, <2>1, <3>3
      <4>2. since[backlog[i]] = NULL /\ state[backlog[i]] # "none"
        BY <3>3 DEF SInv, BacklogNotAccepted
      <4>3. state'[backlog[i]] = state[backlog[i]]
        BY <1>1, <4>1 DEF SInv, TypeOK
      <4> QED
        BY <4>1, <4>2, <4>3
    <3> QED
      BY <2>2, <3>2, <3>3
  <2>4. \A i, j \in 1 .. Len(backlog') : backlog'[i] = backlog'[j] => i = j
    BY <1>2, <2>1, <2>2 DEF SInv, BacklogNotAccepted
  <2>5. \A d \in Conn : state'[d] = "none" => since[d] = NULL
    BY <1>1 DEF SInv, TypeOK, BacklogNotAccepted
  <2> QED
    BY <1>1, <2>3, <2>4, <2>5 DEF BacklogNotAccepted
<1> QED
  BY <1>3, <1>4, <1>5 DEF SInv

\* What arrives, how a client ends its connection and the passing of time do
\* not touch what the server keeps.
LEMMA PeerSInv ==
    ASSUME SInv, NEW c \in Conn, NEW n \in 1 .. 2, NEW how \in {"closed", "aborted"},
           PeerSend(c, n) \/ PeerClose(c, how) \/ Tick
    PROVE  SInv'
<1> USE FdAssumption
<1>1. UNCHANGED <<hashtab, ed, log, status, owner, backlog, since>>
  BY DEF PeerSend, PeerClose, Tick, serverVars
<1>2. /\ state' \in [Conn -> {"none", "open", "closed", "aborted", "spent"}]
      /\ \A d \in Conn : state'[d] = "none" <=> state[d] = "none"
  BY DEF PeerSend, PeerClose, Tick, peerVars, SInv, TypeOK
<1>3. wire' \in [Conn -> Seq({"head", "tail"})] /\ unsent' \in [Conn -> Seq({"head", "tail"})]
  <2>1. CASE PeerSend(c, n)
    <3>1. unsent[c] \in Seq({"head", "tail"}) /\ n \in 1 .. Len(unsent[c]) /\ Len(unsent[c]) \in Nat
      BY <2>1, LenProperties DEF PeerSend, SInv, TypeOK
    <3>2. \A i \in 1 .. Len(unsent[c]) : unsent[c][i] \in {"head", "tail"}
      BY <3>1, ElementOfSeq
    <3>3. /\ SubSeq(unsent[c], 1, n) \in Seq({"head", "tail"})
          /\ SubSeq(unsent[c], n + 1, Len(unsent[c])) \in Seq({"head", "tail"})
      BY <3>1, <3>2, SubSeqProperties
    <3>4. wire[c] \o SubSeq(unsent[c], 1, n) \in Seq({"head", "tail"})
      BY <3>3, ConcatProperties DEF SInv, TypeOK
    <3> QED
      BY <2>1, <3>3, <3>4 DEF PeerSend, SInv, TypeOK
  <2>2. CASE PeerClose(c, how) \/ Tick
    BY <2>2 DEF PeerClose, Tick, peerVars, SInv, TypeOK
  <2> QED
    BY <2>1, <2>2
<1>4. clock' \in 0 .. MaxTime
  BY DEF PeerSend, PeerClose, Tick, SInv, TypeOK
<1>5. TypeOK'
  BY <1>1, <1>2, <1>3, <1>4 DEF SInv, TypeOK
<1>6. BacklogNotAccepted'
  <2>1. \A i \in 1 .. Len(backlog) : backlog[i] \in Conn
    BY ElementOfSeq DEF SInv, TypeOK
  <2> QED
    BY <1>1, <1>2, <2>1 DEF SInv, BacklogNotAccepted
<1>7. TimesOfOpenFds' /\ LoggedTimeIsItsOwn' /\ LookupAlwaysFinds'
  BY <1>1 DEF SInv, TimesOfOpenFds, LoggedTimeIsItsOwn, LookupAlwaysFinds
<1> QED
  BY <1>5, <1>6, <1>7 DEF SInv

\* With no descriptor left only the entry for -1 changes, which is no
\* connection's.
LEMMA NofdSInv == SInv /\ activateServer_nofd => SInv'
<1> SUFFICES ASSUME SInv, activateServer_nofd PROVE SInv'
  OBVIOUS
<1> USE FdAssumption
<1>1. /\ hashtab' = Put(hashtab, -1, clock)
      /\ UNCHANGED <<ed, log, status, owner, backlog, state, wire, unsent, clock, since>>
  BY DEF activateServer_nofd, StoreTime, peerVars
<1>2. /\ DOMAIN hashtab' = DOMAIN hashtab \cup {-1}
      /\ hashtab'[-1] = clock
      /\ \A z \in DOMAIN hashtab : z # -1 => hashtab'[z] = hashtab[z]
  BY <1>1 DEF Put
<1>3. TypeOK'
  BY <1>1, <1>2 DEF SInv, TypeOK
<1>4. TimesOfOpenFds'
  <2>1. \A z \in Fd : z # -1
    OBVIOUS
  <2> QED
    BY <1>1, <1>2, <2>1 DEF SInv, TimesOfOpenFds
<1>5. BacklogNotAccepted' /\ LoggedTimeIsItsOwn' /\ LookupAlwaysFinds'
  BY <1>1 DEF SInv, BacklogNotAccepted, LoggedTimeIsItsOwn, LookupAlwaysFinds
<1> QED
  BY <1>3, <1>4, <1>5 DEF SInv

\* The invariant is inductive.
LEMMA SpecSInv == Spec => []SInv
<1>1. Init => SInv
  BY InitSInv
<1>2. SInv /\ [Next \/ \E sd \in Fd : serverWrite_sigpipe(sd)]_vars => SInv'
  <2> SUFFICES ASSUME SInv, [Next \/ \E sd \in Fd : serverWrite_sigpipe(sd)]_vars
               PROVE  SInv'
    OBVIOUS
  <2>1. CASE activateServer_accept
    BY <2>1, AcceptSInv
  <2>2. CASE activateServer_nofd
    BY <2>2, NofdSInv
  <2>3. ASSUME NEW sd \in Fd, Handle(sd) \/ serverWrite_sigpipe(sd) PROVE SInv'
    BY <2>3, ReadSInv, EndSInv, WriteSInv DEF Handle
  <2>4. ASSUME NEW c \in Conn, Connect(c) PROVE SInv'
    BY <2>4, ConnectSInv
  <2>5. ASSUME NEW c \in Conn, NEW how \in {"closed", "aborted"}, PeerClose(c, how) PROVE SInv'
    <3>1. 1 \in 1 .. 2
      OBVIOUS
    <3> QED
      BY <2>5, <3>1, PeerSInv
  <2>6. ASSUME NEW c \in Conn, NEW n \in 1 .. Len(Hostname), PeerSend(c, n) PROVE SInv'
    <3>1. n \in 1 .. 2
      BY <2>6 DEF Hostname
    <3> QED
      BY <2>6, <3>1, PeerSInv
  <2>7. CASE Tick
    <3>1. UNCHANGED <<hashtab, ed, log, status, owner, backlog, state, wire, unsent, since>>
      BY <2>7 DEF Tick, serverVars, peerVars
    <3>2. clock' \in 0 .. MaxTime
      BY <2>7, FdAssumption DEF Tick, SInv, TypeOK
    <3>3. TypeOK'
      BY <3>1, <3>2 DEF SInv, TypeOK
    <3>4. TimesOfOpenFds' /\ BacklogNotAccepted' /\ LoggedTimeIsItsOwn' /\ LookupAlwaysFinds'
      BY <3>1 DEF SInv, TimesOfOpenFds, BacklogNotAccepted, LoggedTimeIsItsOwn, LookupAlwaysFinds
    <3> QED
      BY <3>3, <3>4 DEF SInv
  <2>8. CASE UNCHANGED vars
    BY <2>8
    DEF vars, SInv, TypeOK, TimesOfOpenFds, BacklogNotAccepted, LoggedTimeIsItsOwn,
        LookupAlwaysFinds
  <2> QED
    BY <2>1, <2>2, <2>3, <2>4, <2>5, <2>6, <2>7, <2>8 DEF Next
<1> QED
  BY <1>1, <1>2, PTL DEF Spec

\* Every variable of the server keeps its type.
THEOREM ServerTypeCorrect == Spec => []TypeOK
<1>1. SInv => TypeOK
  BY DEF SInv
<1> QED
  BY <1>1, SpecSInv, PTL

\* Every line of the log bears the time its own connection was accepted at.
THEOREM OwnTime == Spec => []LoggedTimeIsItsOwn
<1>1. SInv => LoggedTimeIsItsOwn
  BY DEF SInv
<1> QED
  BY <1>1, SpecSInv, PTL

\* The _exit of _simpletcp_logServerConnection is never reached.
THEOREM NoLookupExit == Spec => []LookupAlwaysFinds
<1>1. SInv => LookupAlwaysFinds
  BY DEF SInv
<1> QED
  BY <1>1, SpecSInv, PTL

-----------------------------------------------------------------------------
\* A line without a hostname is the last one of its connection, and nothing is
\* left on that connection to read: its error was met, and no more can arrive.
BlankIsLast ==
    \A c \in Conn : \A i \in 1 .. Len(log[c]) :
      log[c][i].host = <<>> => i = Len(log[c]) /\ state[c] = "spent" /\ wire[c] = <<>>

\* A step that logs nothing, and lets nothing arrive on a connection whose error
\* was met.
LEMMA BlankFrame ==
    ASSUME BlankIsLast, log' = log,
           \A d \in Conn : state[d] = "spent" => state'[d] = "spent" /\ wire'[d] = wire[d]
    PROVE  BlankIsLast'
  BY DEF BlankIsLast

\* What a read logs is blank only on a connection that was aborted, which by
\* then had no blank line.
LEMMA ReadBlank ==
    ASSUME SInv, BlankIsLast, NEW sd \in Fd, serverRead(sd) PROVE BlankIsLast'
<1>1. PICK c \in Conn : c = owner[sd]
  BY DEF serverRead, CanRead, SInv, TypeOK, TimesOfOpenFds
<1>2. PICK line \in Line :
         /\ line.host = wire[c]
         /\ log' = [log EXCEPT ![c] = Append(log[c], line)]
  <2>1. sd \in DOMAIN hashtab
    BY <1>1, FdAssumption DEF serverRead, CanRead, SInv, TypeOK, TimesOfOpenFds
  <2>2. [host |-> wire[c], time |-> hashtab[sd]] \in Line
    BY <1>1, <2>1 DEF SInv, TypeOK, Line
  <2> QED
    BY <1>1, <2>1, <2>2 DEF serverRead, logServerConnection
<1>3. /\ wire' = [wire EXCEPT ![c] = <<>>]
      /\ state' = IF wire[c] = <<>> THEN [state EXCEPT ![c] = "spent"] ELSE state
      /\ wire[c] # <<>> \/ state[c] = "aborted"
  <2>1. wire[c] # <<>> \/ Ended(c)
    BY <1>1 DEF serverRead, CanRead
  <2>2. ~ AtEnd(c)
    BY <1>1 DEF serverRead
  <2>3. wire[c] # <<>> \/ state[c] = "aborted"
    BY <2>1, <2>2 DEF AtEnd
  <2> QED
    BY <1>1, <2>3 DEF serverRead
<1>4. /\ log \in [Conn -> Seq(Line)]
      /\ wire \in [Conn -> Seq({"head", "tail"})]
      /\ state \in [Conn -> {"none", "open", "closed", "aborted", "spent"}]
  BY DEF SInv, TypeOK, Line
<1>5. /\ log'[c] = Append(log[c], line) /\ wire'[c] = <<>>
      /\ wire[c] = <<>> => state'[c] = "spent"
  BY <1>2, <1>3, <1>4
<1>6. \A d \in Conn : d # c => log'[d] = log[d] /\ wire'[d] = wire[d] /\ state'[d] = state[d]
  BY <1>2, <1>3, <1>4
<1>7. PICK s \in Seq(Line) : s = log[c]
  BY <1>4
<1>8. /\ Len(Append(s, line)) = Len(s) + 1 /\ Len(s) \in Nat
      /\ Append(s, line)[Len(s) + 1] = line
      /\ \A i \in 1 .. Len(s) : Append(s, line)[i] = s[i]
  BY <1>2, AppendProperties, LenProperties
<1>9. \A i \in 1 .. Len(s) : s[i].host # <<>>
  <2>1. \A i \in 1 .. Len(s) : s[i].host = <<>> => state[c] = "spent" /\ wire[c] = <<>>
    BY <1>7 DEF BlankIsLast
  <2> QED
    BY <1>3, <2>1
<1>10. ASSUME NEW i \in 1 .. Len(log'[c]), log'[c][i].host = <<>>
       PROVE  i = Len(log'[c]) /\ state'[c] = "spent" /\ wire'[c] = <<>>
  <2>1. i \in 1 .. Len(s) + 1
    BY <1>5, <1>7, <1>8
  <2>2. i \notin 1 .. Len(s)
    BY <1>5, <1>7, <1>8, <1>9, <1>10
  <2>3. i = Len(s) + 1
    BY <1>8, <2>1, <2>2
  <2>4. wire[c] = <<>>
    BY <1>2, <1>5, <1>7, <1>8, <1>10, <2>3
  <2> QED
    BY <1>5, <1>7, <1>8, <2>3, <2>4
<1> QED
  BY <1>6, <1>10 DEF BlankIsLast

\* Every step, by what it does to a connection whose error was met.
LEMMA NextBlank ==
    SInv /\ BlankIsLast /\ [Next \/ \E sd \in Fd : serverWrite_sigpipe(sd)]_vars => BlankIsLast'
<1> SUFFICES ASSUME SInv, BlankIsLast, [Next \/ \E sd \in Fd : serverWrite_sigpipe(sd)]_vars
             PROVE  BlankIsLast'
  OBVIOUS
<1>0. /\ wire \in [Conn -> Seq({"head", "tail"})]
      /\ state \in [Conn -> {"none", "open", "closed", "aborted", "spent"}]
  BY DEF SInv, TypeOK
<1>1. CASE UNCHANGED <<log, wire, state>>
  BY <1>1, BlankFrame
<1>2. ASSUME NEW sd \in Fd, serverRead(sd) PROVE BlankIsLast'
  BY <1>2, ReadBlank
<1>3. ASSUME NEW sd \in Fd, serverWrite(sd) PROVE BlankIsLast'
  <2>1. /\ log' = log /\ wire' = wire
        /\ state' = IF Ended(owner[sd]) THEN [state EXCEPT ![owner[sd]] = "spent"] ELSE state
    BY <1>3 DEF serverWrite
  <2>2. \A d \in Conn : state[d] = "spent" => state'[d] = "spent"
    BY <1>0, <2>1
  <2> QED
    BY <2>1, <2>2, BlankFrame
<1>4. ASSUME NEW c \in Conn,
             Connect(c) \/ \E how \in {"closed", "aborted"} : PeerClose(c, how)
      PROVE  BlankIsLast'
  <2>1. PICK v : /\ log' = log /\ wire' = wire /\ state[c] # "spent"
                 /\ state' = [state EXCEPT ![c] = v]
    BY <1>4 DEF Connect, PeerClose, serverVars
  <2>2. \A d \in Conn : state[d] = "spent" => state'[d] = "spent"
    BY <1>0, <2>1
  <2> QED
    BY <2>1, <2>2, BlankFrame
<1>5. ASSUME NEW c \in Conn, NEW n, PeerSend(c, n) PROVE BlankIsLast'
  <2>1. PICK w : /\ log' = log /\ state' = state /\ state[c] = "open"
                 /\ wire' = [wire EXCEPT ![c] = w]
    BY <1>5 DEF PeerSend, serverVars
  <2>2. \A d \in Conn : state[d] = "spent" => wire'[d] = wire[d]
    BY <1>0, <2>1
  <2> QED
    BY <2>1, <2>2, BlankFrame
<1>6. CASE activateServer_accept \/ activateServer_nofd \/ Tick
  BY <1>1, <1>6 DEF activateServer_accept, activateServer_nofd, Tick, peerVars, serverVars
<1>7. ASSUME NEW sd \in Fd, serverRead_end(sd) \/ serverWrite_sigpipe(sd) PROVE BlankIsLast'
  BY <1>1, <1>7 DEF serverRead_end, serverWrite_sigpipe, peerVars
<1>8. CASE UNCHANGED vars
  BY <1>1, <1>8 DEF vars
<1> QED
  BY <1>2, <1>3, <1>4, <1>5, <1>6, <1>7, <1>8 DEF Next, Handle

\* A receive that fails adds at most one line without a hostname, and that is
\* the last line of its connection.
THEOREM OneBlankLine == Spec => []BlankLinesBounded
<1>1. Init => BlankIsLast
  BY DEF Init, BlankIsLast
<1>2. BlankIsLast => BlankLinesBounded
  BY DEF BlankIsLast, BlankLinesBounded
<1> QED
  BY <1>1, <1>2, NextBlank, SpecSInv, PTL DEF Spec

-----------------------------------------------------------------------------
\* Of the hostname a part is logged, the next part waits to be read and the rest
\* is unsent, on every connection at any time.
Accounted(c) ==
    \E n, m \in 0 .. Len(Hostname) :
      /\ n <= m /\ Logged(c, n)
      /\ wire[c] = SubSeq(Hostname, n + 1, m)
      /\ unsent[c] = SubSeq(Hostname, m + 1, Len(Hostname))

\* A connection the server has closed had ended, and nothing was left to read.
ClosedAtEnd ==
    \A c \in Conn : since[c] # NULL /\ (\A sd \in Fd : owner[sd] # c) =>
      wire[c] = <<>> /\ Ended(c)

DInv == ClosedAtEnd /\ \A c \in Conn : Accounted(c)

\* A part of a sequence: its length and elements.
LEMMA PartIs ==
    ASSUME NEW S, NEW h \in Seq(S), NEW n \in 0 .. Len(h), NEW m \in 0 .. Len(h), n <= m
    PROVE  /\ SubSeq(h, n + 1, m) \in Seq(S) /\ Len(SubSeq(h, n + 1, m)) = m - n
           /\ \A i \in 1 .. m - n : SubSeq(h, n + 1, m)[i] = h[n + i]
           /\ n = m <=> SubSeq(h, n + 1, m) = <<>>
<1>1. Len(h) \in Nat /\ \A i \in 1 .. Len(h) : h[i] \in S
  BY LenProperties, ElementOfSeq
<1>2. SubSeq(h, n + 1, m) = [i \in 1 .. m - n |-> h[n + i]]
  <2>1. (m - (n + 1)) + 1 = m - n /\ \A i \in 1 .. m - n : (i + (n + 1)) - 1 = n + i
    BY <1>1
  <2> QED BY <1>1, <2>1
<1>3. m - n \in Nat /\ \A i \in 1 .. m - n : n + i \in 1 .. Len(h)
  BY <1>1
<1>4. PICK w : w = SubSeq(h, n + 1, m)
  OBVIOUS
<1>5. w \in [1 .. m - n -> S]
  BY <1>1, <1>2, <1>3, <1>4
<1>6. w \in Seq(S) /\ Len(w) = m - n
  BY <1>3, <1>5
<1>7. w = <<>> <=> m - n = 0
  BY <1>6, EmptySeq
<1> QED BY <1>1, <1>2, <1>4, <1>6, <1>7

\* Parts that follow each other make one part.
LEMMA PartsJoin ==
    ASSUME NEW S, NEW h \in Seq(S), NEW n \in 0 .. Len(h), NEW m \in 0 .. Len(h), n <= m,
           NEW rest, rest = SubSeq(h, m + 1, Len(h)), NEW k \in 1 .. Len(rest)
    PROVE  /\ m + k \in 0 .. Len(h)
           /\ SubSeq(h, n + 1, m) \o SubSeq(rest, 1, k) = SubSeq(h, n + 1, m + k)
           /\ SubSeq(rest, k + 1, Len(rest)) = SubSeq(h, (m + k) + 1, Len(h))
  OBVIOUS

\* The hostname is a sequence of pieces.
LEMMA HostnameIs == Hostname \in Seq({"head", "tail"}) /\ Len(Hostname) = 2
  BY DEF Hostname

\* A line with the next part of the hostname is one more cut.
LEMMA LoggedNext ==
    ASSUME SInv, NEW c \in Conn, NEW n \in 0 .. Len(Hostname), NEW m \in 0 .. Len(Hostname),
           n <= m, Logged(c, n), NEW line \in Line, line.host = SubSeq(Hostname, n + 1, m),
           log'[c] = Append(log[c], line)
    PROVE  Logged(c, m)'
<1>1. PICK s \in Seq(Line) : s = log[c]
  BY DEF SInv, TypeOK, Line
<1>2. PICK l \in Nat : l = Len(s)
  BY LenProperties
<1>3. PICK t : t = log'[c]
  OBVIOUS
<1>4. Len(t) = l + 1 /\ t[l + 1] = line /\ \A i \in 1 .. l : t[i] = s[i]
  BY <1>1, <1>2, <1>3, AppendProperties
<1>5. PICK cut \in [0 .. l -> 0 .. n] :
        /\ cut[0] = 0 /\ cut[l] = n
        /\ \A i \in 1 .. l :
             cut[i - 1] <= cut[i] /\ s[i].host = SubSeq(Hostname, cut[i - 1] + 1, cut[i])
  BY <1>1, <1>2 DEF Logged
<1>6. n \in Nat /\ m \in Nat
  BY HostnameIs
<1> DEFINE cut2 == [i \in 0 .. l + 1 |-> IF i = l + 1 THEN m ELSE cut[i]]
<1>7. \A i \in 0 .. l + 1 : i # l + 1 => i \in 0 .. l
  BY <1>2
<1>8. \A i \in 0 .. l : i \in 0 .. l + 1 /\ i # l + 1
  BY <1>2
<1>9. \A j \in 0 .. n : j \in 0 .. m
  BY <1>6
<1>10. cut2 \in [0 .. l + 1 -> 0 .. m]
  <2>1. m \in 0 .. m
    BY <1>6
  <2> QED BY <1>5, <1>7, <1>9, <2>1
<1>11. cut2[l + 1] = m /\ \A i \in 0 .. l : cut2[i] = cut[i]
  <2>1. l + 1 \in 0 .. l + 1
    BY <1>2
  <2> QED BY <1>8, <2>1
<1> HIDE DEF cut2
<1>12. cut2[0] = 0 /\ cut2[l] = n
  <2>1. 0 \in 0 .. l /\ l \in 0 .. l
    BY <1>2
  <2> QED BY <1>5, <1>11, <2>1
<1>13. ASSUME NEW i \in 1 .. l + 1
       PROVE  /\ cut2[i - 1] <= cut2[i]
              /\ t[i].host = SubSeq(Hostname, cut2[i - 1] + 1, cut2[i])
  <2>1. CASE i = l + 1
    <3>1. i - 1 = l
      BY <1>2, <2>1
    <3> QED BY <1>4, <1>11, <1>12, <2>1, <3>1
  <2>2. CASE i # l + 1
    <3>1. i \in 1 .. l /\ i \in 0 .. l /\ i - 1 \in 0 .. l
      BY <1>2, <2>2
    <3>2. cut2[i - 1] = cut[i - 1] /\ cut2[i] = cut[i] /\ t[i] = s[i]
      BY <1>4, <1>11, <3>1
    <3> QED BY <1>5, <3>1, <3>2
  <2> QED BY <2>1, <2>2
<1>14. \E f \in [0 .. Len(t) -> 0 .. m] :
         /\ f[0] = 0 /\ f[Len(t)] = m
         /\ \A i \in 1 .. Len(t) :
              f[i - 1] <= f[i] /\ t[i].host = SubSeq(Hostname, f[i - 1] + 1, f[i])
  BY <1>4, <1>10, <1>11, <1>12, <1>13
<1> QED BY <1>3, <1>14 DEF Logged, Hostname

\* A connection on which nothing is logged, sent or read stays accounted for.
LEMMA AccountedFrame ==
    ASSUME NEW c, Accounted(c), log'[c] = log[c], wire'[c] = wire[c], unsent'[c] = unsent[c]
    PROVE  Accounted(c)'
<1>1. \A n : Logged(c, n) => Logged(c, n)'
  BY DEF Logged, Hostname
<1> QED BY <1>1 DEF Accounted, Hostname

\* A step that leaves the data alone, gives up no descriptor, and neither
\* accepts a connection without giving it one nor reopens one that ended.
LEMMA DFrame ==
    ASSUME DInv, UNCHANGED <<log, wire, unsent>>,
           \A c \in Conn :
             /\ Ended(c) => Ended(c)'
             /\ since'[c] # NULL /\ (\A sd \in Fd : owner'[sd] # c) =>
                  since[c] # NULL /\ (\A sd \in Fd : owner[sd] # c)
    PROVE  DInv'
<1>1. ClosedAtEnd'
  BY DEF DInv, ClosedAtEnd
<1>2. \A c \in Conn : Accounted(c)'
  BY AccountedFrame DEF DInv
<1> QED BY <1>1, <1>2 DEF DInv

\* A read moves what waits to the log.
LEMMA ReadD == ASSUME SInv, DInv, NEW sd \in Fd, serverRead(sd) PROVE DInv'
<1>1. PICK c \in Conn : c = owner[sd]
  BY DEF serverRead, CanRead, SInv, TypeOK, TimesOfOpenFds
<1>2. PICK line \in Line :
         /\ line.host = wire[c]
         /\ log' = [log EXCEPT ![c] = Append(log[c], line)]
  <2>1. sd \in DOMAIN hashtab
    BY <1>1, FdAssumption DEF serverRead, CanRead, SInv, TypeOK, TimesOfOpenFds
  <2>2. [host |-> wire[c], time |-> hashtab[sd]] \in Line
    BY <1>1, <2>1 DEF SInv, TypeOK, Line
  <2> QED BY <1>1, <2>1, <2>2 DEF serverRead, logServerConnection
<1>3. /\ wire' = [wire EXCEPT ![c] = <<>>]
      /\ state' = IF wire[c] = <<>> THEN [state EXCEPT ![c] = "spent"] ELSE state
      /\ UNCHANGED <<unsent, owner, since>>
  BY <1>1 DEF serverRead
<1>4. log \in [Conn -> Seq(Line)] /\ DOMAIN wire = Conn /\ DOMAIN state = Conn
  BY DEF SInv, TypeOK, Line
<1>5. log'[c] = Append(log[c], line) /\ wire'[c] = <<>>
  BY <1>2, <1>3, <1>4
<1>6. \A d \in Conn : d # c => log'[d] = log[d] /\ wire'[d] = wire[d]
  BY <1>2, <1>3, <1>4
<1>7. \A d \in Conn : Ended(d) => Ended(d)'
  BY <1>3, <1>4 DEF Ended
<1>8. ClosedAtEnd'
  BY <1>3, <1>5, <1>6, <1>7 DEF DInv, ClosedAtEnd
<1>9. Accounted(c)'
  <2>1. PICK n, m \in 0 .. Len(Hostname) :
          /\ n <= m /\ Logged(c, n) /\ wire[c] = SubSeq(Hostname, n + 1, m)
          /\ unsent[c] = SubSeq(Hostname, m + 1, Len(Hostname))
    BY DEF DInv, Accounted
  <2>2. Logged(c, m)'
    BY <1>2, <1>5, <2>1, LoggedNext
  <2>3. SubSeq(Hostname, m + 1, m) = <<>> /\ m <= m
    BY HostnameIs, PartIs
  <2>4. wire'[c] = SubSeq(Hostname, m + 1, m) /\ unsent'[c] = SubSeq(Hostname, m + 1, Len(Hostname))
    BY <1>3, <1>5, <2>1, <2>3
  <2> QED BY <2>2, <2>3, <2>4 DEF Accounted, Hostname
<1>10. \A d \in Conn : Accounted(d)'
  BY <1>3, <1>6, <1>9, AccountedFrame DEF DInv
<1> QED BY <1>8, <1>10 DEF DInv

\* What arrives is the next part of what was unsent.
LEMMA SendD == ASSUME SInv, DInv, NEW c \in Conn, NEW k, PeerSend(c, k) PROVE DInv'
<1>1. /\ state[c] = "open" /\ k \in 1 .. Len(unsent[c])
      /\ wire' = [wire EXCEPT ![c] = wire[c] \o SubSeq(unsent[c], 1, k)]
      /\ unsent' = [unsent EXCEPT ![c] = SubSeq(unsent[c], k + 1, Len(unsent[c]))]
      /\ UNCHANGED <<log, owner, state, since>>
  BY DEF PeerSend, serverVars
<1>2. DOMAIN wire = Conn /\ DOMAIN unsent = Conn
  BY DEF SInv, TypeOK
<1>3. /\ wire'[c] = wire[c] \o SubSeq(unsent[c], 1, k)
      /\ unsent'[c] = SubSeq(unsent[c], k + 1, Len(unsent[c]))
      /\ \A d \in Conn : d # c => wire'[d] = wire[d] /\ unsent'[d] = unsent[d]
  BY <1>1, <1>2
<1>4. ClosedAtEnd'
  <2>1. ~ Ended(c) /\ \A d \in Conn : Ended(d)' <=> Ended(d)
    BY <1>1 DEF Ended
  <2> QED BY <1>1, <1>3, <2>1 DEF DInv, ClosedAtEnd
<1>5. Accounted(c)'
  <2>1. PICK n, m \in 0 .. Len(Hostname) :
          /\ n <= m /\ Logged(c, n) /\ wire[c] = SubSeq(Hostname, n + 1, m)
          /\ unsent[c] = SubSeq(Hostname, m + 1, Len(Hostname))
    BY DEF DInv, Accounted
  <2>2. /\ m + k \in 0 .. Len(Hostname)
        /\ wire'[c] = SubSeq(Hostname, n + 1, m + k)
        /\ unsent'[c] = SubSeq(Hostname, (m + k) + 1, Len(Hostname))
    <3>0. PICK rest : rest = unsent[c]
      OBVIOUS
    <3>1. PICK h \in Seq({"head", "tail"}) : h = Hostname
      BY HostnameIs
    <3>2. PICK i \in 1 .. Len(rest) : i = k
      BY <1>1, <3>0
    <3>3. rest = SubSeq(h, m + 1, Len(h)) /\ n \in 0 .. Len(h) /\ m \in 0 .. Len(h) /\ n <= m
      BY <2>1, <3>0, <3>1
    <3>4. /\ m + i \in 0 .. Len(h)
          /\ SubSeq(h, n + 1, m) \o SubSeq(rest, 1, i) = SubSeq(h, n + 1, m + i)
          /\ SubSeq(rest, i + 1, Len(rest)) = SubSeq(h, (m + i) + 1, Len(h))
      BY ONLY <3>1, <3>2, <3>3, PartsJoin
    <3> QED BY <1>3, <2>1, <3>0, <3>1, <3>2, <3>4, Zenon
  <2>3. n <= m + k
    BY <1>1, <2>1, HostnameIs
  <2>4. Logged(c, n)'
    BY <1>1, <2>1 DEF Logged, Hostname
  <2> QED BY <2>1, <2>2, <2>3, <2>4 DEF Accounted, Hostname
<1>6. \A d \in Conn : Accounted(d)'
  BY <1>1, <1>3, <1>5, AccountedFrame DEF DInv
<1> QED BY <1>4, <1>6 DEF DInv

\* Every step keeps every part of every hostname accounted for.
LEMMA NextD ==
    SInv /\ DInv /\ [Next \/ \E sd \in Fd : serverWrite_sigpipe(sd)]_vars => DInv'
<1> SUFFICES ASSUME SInv, DInv, [Next \/ \E sd \in Fd : serverWrite_sigpipe(sd)]_vars
             PROVE  DInv'
  OBVIOUS
<1>0. /\ state \in [Conn -> {"none", "open", "closed", "aborted", "spent"}]
      /\ owner \in [Fd -> Conn \cup {NULL}] /\ DOMAIN since = Conn /\ NULL \notin Conn
  BY FdAssumption DEF SInv, TypeOK
<1>1. CASE UNCHANGED <<log, wire, unsent, owner, since, state>>
  BY <1>1, DFrame DEF Ended
<1>2. ASSUME NEW sd \in Fd, serverRead(sd) PROVE DInv'
  BY <1>2, ReadD
<1>3. ASSUME NEW sd \in Fd, serverWrite(sd) PROVE DInv'
  <2>1. /\ UNCHANGED <<log, wire, unsent, owner, since>>
        /\ state' = IF Ended(owner[sd]) THEN [state EXCEPT ![owner[sd]] = "spent"] ELSE state
    BY <1>3 DEF serverWrite
  <2>2. \A c \in Conn : Ended(c) => Ended(c)'
    BY <1>0, <2>1 DEF Ended
  <2> QED BY <2>1, <2>2, DFrame
<1>4. ASSUME NEW c \in Conn,
             Connect(c) \/ \E how \in {"closed", "aborted"} : PeerClose(c, how)
      PROVE  DInv'
  <2>1. PICK v : /\ UNCHANGED <<log, wire, unsent, owner, since>>
                 /\ ~ Ended(c) /\ state' = [state EXCEPT ![c] = v]
    BY <1>4 DEF Connect, PeerClose, serverVars, Ended
  <2>2. \A d \in Conn : Ended(d) => Ended(d)'
    BY <1>0, <2>1 DEF Ended
  <2> QED BY <2>1, <2>2, DFrame
<1>5. ASSUME NEW c \in Conn, NEW n, PeerSend(c, n) PROVE DInv'
  BY <1>5, SendD
<1>6. CASE activateServer_nofd \/ Tick
  BY <1>1, <1>6 DEF activateServer_nofd, Tick, peerVars, serverVars
<1>7. CASE activateServer_accept
  <2>1. PICK sd, c :
          /\ sd \in Fd /\ owner[sd] = NULL /\ owner' = [owner EXCEPT ![sd] = c]
          /\ since' = [since EXCEPT ![c] = clock]
          /\ UNCHANGED <<log, wire, unsent, state>>
    BY <1>7 DEF activateServer_accept, LowestFree, Free, peerVars
  <2>2. owner'[sd] = c /\ \A z \in Fd : z # sd => owner'[z] = owner[z]
    BY <1>0, <2>1
  <2>3. \A d \in Conn : d # c => since'[d] = since[d]
    BY <1>0, <2>1
  <2>4. \A d \in Conn : Ended(d) => Ended(d)'
    BY <2>1 DEF Ended
  <2> QED BY <1>0, <2>1, <2>2, <2>3, <2>4, DFrame
<1>8. ASSUME NEW sd \in Fd, serverRead_end(sd) PROVE DInv'
  <2>1. /\ UNCHANGED <<log, wire, unsent, state, since>>
        /\ owner' = [owner EXCEPT ![sd] = NULL] /\ AtEnd(owner[sd])
    BY <1>8 DEF serverRead_end, peerVars
  <2>2. ClosedAtEnd'
    <3>1. SUFFICES ASSUME NEW c \in Conn, since[c] # NULL, \A z \in Fd : owner'[z] # c
                   PROVE  wire[c] = <<>> /\ Ended(c)
      BY <2>1 DEF ClosedAtEnd, Ended
    <3>2. CASE owner[sd] = c
      BY <2>1, <3>2 DEF AtEnd
    <3>3. CASE owner[sd] # c
      <4>1. \A z \in Fd : owner[z] # c
        BY <1>0, <2>1, <3>1, <3>3
      <4> QED BY <3>1, <4>1 DEF DInv, ClosedAtEnd
    <3> QED BY <3>2, <3>3
  <2>3. \A c \in Conn : Accounted(c)'
    BY <2>1, AccountedFrame DEF DInv
  <2> QED BY <2>2, <2>3 DEF DInv
<1>9. ASSUME NEW sd \in Fd, serverWrite_sigpipe(sd) PROVE DInv'
  BY <1>1, <1>9 DEF serverWrite_sigpipe, peerVars
<1>10. CASE UNCHANGED vars
  BY <1>1, <1>10 DEF vars
<1> QED
  BY <1>2, <1>3, <1>4, <1>5, <1>6, <1>7, <1>8, <1>9, <1>10 DEF Next, Handle

\* At the start nothing is logged or waits, and all is unsent.
LEMMA InitD == Init => DInv
<1> SUFFICES ASSUME Init PROVE DInv
  OBVIOUS
<1>1. ClosedAtEnd
  BY DEF Init, ClosedAtEnd
<1>2. ASSUME NEW c \in Conn PROVE Accounted(c)
  <2>1. log[c] = <<>> /\ wire[c] = <<>> /\ unsent[c] = Hostname
    BY DEF Init
  <2>2. Logged(c, 0)
    <3>1. [i \in 0 .. 0 |-> 0] \in [0 .. Len(log[c]) -> 0 .. 0]
      BY <2>1
    <3>2. [i \in 0 .. 0 |-> 0][0] = 0 /\ Len(log[c]) = 0 /\ 1 .. Len(log[c]) = {}
      BY <2>1
    <3> QED BY <3>1, <3>2 DEF Logged
  <2>3. SubSeq(Hostname, 0 + 1, 0) = <<>> /\ SubSeq(Hostname, 0 + 1, Len(Hostname)) = Hostname
    BY HostnameIs
  <2>4. 0 \in 0 .. Len(Hostname) /\ 0 <= 0
    BY HostnameIs
  <2> QED BY <2>1, <2>2, <2>3, <2>4 DEF Accounted
<1> QED BY <1>1, <1>2 DEF DInv

\* A connection is closed only once all that its client sent is in the log, once
\* and in order.
THEOREM ClosedIsLogged == Spec => []AllSentIsLogged
<1>1. DInv => AllSentIsLogged
  <2> SUFFICES ASSUME DInv, NEW c \in Conn, since[c] # NULL, \A sd \in Fd : owner[sd] # c
               PROVE  \E n \in 0 .. Len(Hostname) :
                        Logged(c, n) /\ unsent[c] = SubSeq(Hostname, n + 1, Len(Hostname))
    BY DEF AllSentIsLogged
  <2>1. wire[c] = <<>>
    BY DEF DInv, ClosedAtEnd
  <2>2. PICK n, m \in 0 .. Len(Hostname) :
          /\ n <= m /\ Logged(c, n) /\ wire[c] = SubSeq(Hostname, n + 1, m)
          /\ unsent[c] = SubSeq(Hostname, m + 1, Len(Hostname))
    BY DEF DInv, Accounted
  <2>3. n = m
    BY <2>1, <2>2, HostnameIs, PartIs
  <2> QED BY <2>2, <2>3
<1> QED BY <1>1, InitD, NextD, SpecSInv, PTL DEF Spec
=============================================================================
