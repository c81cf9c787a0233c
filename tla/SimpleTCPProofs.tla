-------------------------- MODULE SimpleTCPProofs --------------------------
(***************************************************************************)
(* What TLAPS proves of SimpleTCP, for any number of connections, faults   *)
(* and descriptors: client and server behave as they do on their own, so   *)
(* that what is proved of each holds of the two joined, and the server's   *)
(* log is the ground truth it is taken for.                                *)
(***************************************************************************)
EXTENDS SimpleTCP, TLAPS

CP == INSTANCE SimpleTCPClientProofs WITH ed <- ced, status <- cstatus, wire <- cwire
SP == INSTANCE SimpleTCPServerProofs WITH ed <- sed, status <- sstatus, wire <- swire

-----------------------------------------------------------------------------
\* The arguments are ones that either program accepts.
LEMMA ArgsAre ==
    /\ CP!checkClientArgs
    /\ Fd \subseteq Nat /\ MaxTime \in Nat /\ NULL \notin Conn /\ NULL \notin Nat
  BY JoinedAssumption DEF CP!checkClientArgs, Conn

\* Each action of the client is the one its own proofs are about.
LEMMA SameClient ==
    /\ C!Init <=> CP!Init
    /\ C!vars = CP!vars
    /\ C!Client <=> CP!Client
    /\ C!wakeupClient <=> CP!wakeupClient
    /\ C!wakeupClient_fails <=> CP!wakeupClient_fails
    /\ \A ans : C!AnswerConnect(ans) <=> CP!AnswerConnect(ans)
    /\ C!Reply <=> CP!Reply
    /\ \A n : C!Arrive(n) <=> CP!Arrive(n)
    /\ \A how : C!Hangup(how) <=> CP!Hangup(how)
<1>1. C!Init <=> CP!Init
  BY DEF C!Init, CP!Init
<1>2. C!vars = CP!vars
  BY DEF C!vars, CP!vars
<1>3. C!Up <=> CP!Up
  BY DEF C!Up, CP!Up
<1>4. C!Ended <=> CP!Ended
  BY DEF C!Ended, CP!Ended
<1>5. C!clientVars = CP!clientVars /\ C!proxyVars = CP!proxyVars
  BY DEF C!clientVars, CP!clientVars, C!proxyVars, CP!proxyVars
<1>6. C!Client <=> CP!Client
  <2>1. C!clientWrite <=> CP!clientWrite
    BY DEF C!clientWrite, CP!clientWrite, C!CanWrite, CP!CanWrite, C!Up, CP!Up, C!Ended,
           CP!Ended, C!After, CP!After, C!Asks, CP!Asks
  <2>2. C!clientWrite_sigpipe <=> CP!clientWrite_sigpipe
    BY DEF C!clientWrite_sigpipe, CP!clientWrite_sigpipe, C!CanWrite, CP!CanWrite, C!Up, CP!Up,
           C!Ended, CP!Ended, C!After, CP!After, C!proxyVars, CP!proxyVars
  <2>3. C!clientWrite_exit <=> CP!clientWrite_exit
    BY DEF C!clientWrite_exit, CP!clientWrite_exit, C!CanWrite, CP!CanWrite, C!Up, CP!Up,
           C!Ended, CP!Ended, C!After, CP!After, C!proxyVars, CP!proxyVars
  <2>4. C!clientRead_reply <=> CP!clientRead_reply
    BY DEF C!clientRead_reply, CP!clientRead_reply, C!CanRead, CP!CanRead, C!Up, CP!Up,
           C!Ended, CP!Ended, C!proxyVars, CP!proxyVars, C!Take, CP!Take, C!ReadFails,
           CP!ReadFails, C!NegotiationResult, CP!NegotiationResult, C!RequestResult,
           CP!RequestResult, C!Second, CP!Second, C!EventForNext, CP!EventForNext
  <2>5. C!clientRead_again <=> CP!clientRead_again
    BY DEF C!clientRead_again, CP!clientRead_again, C!CanRead, CP!CanRead, C!Up, CP!Up,
           C!Ended, CP!Ended, C!proxyVars, CP!proxyVars, C!MoreToDo, CP!MoreToDo, C!Traps,
           CP!Traps, C!StatusForNext, CP!StatusForNext
  <2>6. C!clientRead_done <=> CP!clientRead_done
    BY DEF C!clientRead_done, CP!clientRead_done, C!CanRead, CP!CanRead, C!Up, CP!Up,
           C!Ended, CP!Ended, C!proxyVars, CP!proxyVars, C!MoreToDo, CP!MoreToDo
  <2> QED BY <2>1, <2>2, <2>3, <2>4, <2>5, <2>6 DEF C!Client, CP!Client
<1>7. /\ C!wakeupClient <=> CP!wakeupClient
      /\ C!wakeupClient_fails <=> CP!wakeupClient_fails
  BY DEF C!wakeupClient, CP!wakeupClient, C!wakeupClient_fails, CP!wakeupClient_fails,
         C!startClient, CP!startClient, C!Up, CP!Up, C!proxyVars, CP!proxyVars
<1>8. C!Reply <=> CP!Reply
  BY DEF C!Reply, CP!Reply, C!Up, CP!Up, C!Replies, CP!Replies, C!clientVars, CP!clientVars
<1>9. /\ \A ans : C!AnswerConnect(ans) <=> CP!AnswerConnect(ans)
      /\ \A n : C!Arrive(n) <=> CP!Arrive(n)
      /\ \A how : C!Hangup(how) <=> CP!Hangup(how)
  BY DEF C!AnswerConnect, CP!AnswerConnect, C!Arrive, CP!Arrive, C!Hangup, CP!Hangup, C!Up,
         CP!Up, C!clientVars, CP!clientVars, C!proxyVars, CP!proxyVars
<1> QED BY <1>1, <1>2, <1>6, <1>7, <1>8, <1>9

\* So is each action of the server.
LEMMA SameServer ==
    /\ S!Init <=> SP!Init
    /\ S!vars = SP!vars
    /\ S!activateServer_accept <=> SP!activateServer_accept
    /\ S!activateServer_nofd <=> SP!activateServer_nofd
    /\ \A sd : S!serverRead(sd) <=> SP!serverRead(sd)
    /\ \A sd : S!serverRead_end(sd) <=> SP!serverRead_end(sd)
    /\ \A sd : S!serverWrite(sd) <=> SP!serverWrite(sd)
    /\ \A c : S!Connect(c) <=> SP!Connect(c)
    /\ \A c, n : S!PeerSend(c, n) <=> SP!PeerSend(c, n)
    /\ \A c, how : S!PeerClose(c, how) <=> SP!PeerClose(c, how)
    /\ S!Tick <=> SP!Tick
<1>1. S!Init <=> SP!Init
  BY DEF S!Init, SP!Init, S!Hostname, SP!Hostname
<1>2. S!vars = SP!vars
  BY DEF S!vars, SP!vars
<1>3. S!activateServer_accept <=> SP!activateServer_accept
  BY DEF S!activateServer_accept, SP!activateServer_accept, S!Up, SP!Up, S!LowestFree,
         SP!LowestFree, S!Free, SP!Free, S!StoreTime, SP!StoreTime, S!Put, SP!Put, S!peerVars,
         SP!peerVars
<1>4. S!activateServer_nofd <=> SP!activateServer_nofd
  BY DEF S!activateServer_nofd, SP!activateServer_nofd, S!Up, SP!Up, S!Free, SP!Free,
         S!StoreTime, SP!StoreTime, S!Put, SP!Put, S!peerVars, SP!peerVars
<1>5. \A sd : S!serverRead(sd) <=> SP!serverRead(sd)
  BY DEF S!serverRead, SP!serverRead, S!CanRead, SP!CanRead, S!Up, SP!Up, S!Ended, SP!Ended,
         S!AtEnd, SP!AtEnd, S!logServerConnection, SP!logServerConnection, S!AfterLogging,
         SP!AfterLogging, S!Watch, SP!Watch, S!Put, SP!Put
<1>6. \A sd : S!serverRead_end(sd) <=> SP!serverRead_end(sd)
  BY DEF S!serverRead_end, SP!serverRead_end, S!CanRead, SP!CanRead, S!Up, SP!Up, S!Ended,
         SP!Ended, S!AtEnd, SP!AtEnd, S!Without, SP!Without, S!Watch, SP!Watch, S!Put, SP!Put,
         S!peerVars, SP!peerVars
<1>7. \A sd : S!serverWrite(sd) <=> SP!serverWrite(sd)
  BY DEF S!serverWrite, SP!serverWrite, S!CanWrite, SP!CanWrite, S!Up, SP!Up, S!Ended,
         SP!Ended, S!Watch, SP!Watch, S!Put, SP!Put, S!NextEvent, SP!NextEvent
<1>8. /\ \A c : S!Connect(c) <=> SP!Connect(c)
      /\ \A c, n : S!PeerSend(c, n) <=> SP!PeerSend(c, n)
      /\ \A c, how : S!PeerClose(c, how) <=> SP!PeerClose(c, how)
      /\ S!Tick <=> SP!Tick
  BY DEF S!Connect, SP!Connect, S!PeerSend, SP!PeerSend, S!PeerClose, SP!PeerClose, S!Tick,
         SP!Tick, S!Up, SP!Up, S!serverVars, SP!serverVars, S!peerVars, SP!peerVars
<1> QED BY <1>1, <1>2, <1>3, <1>4, <1>5, <1>6, <1>7, <1>8

-----------------------------------------------------------------------------
(* The two programs, each with the other and the relay as its environment. *)

\* What a step is to the client.
LEMMA StepIsClients == [Next]_vars => [CP!Next]_(CP!vars)
<1> SUFFICES ASSUME [Next]_vars PROVE CP!Next \/ UNCHANGED CP!vars
  OBVIOUS
<1>1. clientVars' = clientVars => UNCHANGED CP!vars
  BY DEF clientVars, CP!vars
<1>2. CASE Client
  <2>1. C!Client \/ C!wakeupClient \/ C!wakeupClient_fails
    BY <1>2 DEF Client, ClientEvent, Wakeup, C!Client
  <2> QED BY <2>1, SameClient DEF CP!Next
<1>3. CASE Server \/ ServerNofd \/ Tick
  BY <1>1, <1>3 DEF Server, ServerAccept, ServerRead, ServerWrite, ServerNofd, Tick
<1>4. CASE Relay
  <2>1. CASE \E ans \in {"open", "refused"} : Accept(ans)
    BY <2>1, SameClient DEF Accept, CP!Next, CP!Proxy
  <2>2. CASE ReplyMethod \/ ReplyConnect \/ ReplyMessage
    BY <2>2, SameClient DEF ReplyMethod, ReplyConnect, ReplyMessage, CP!Next, CP!Proxy
  <2>3. CASE \E n \in 1 .. Len(due) : Deliver(n)
    BY <2>3, SameClient DEF Deliver, CP!Next, CP!Proxy
  <2>4. CASE Follow
    BY <2>4, SameClient DEF Follow, CP!Next, CP!Proxy
  <2>5. CASE \/ Open \/ \E c \in Conn : Close(c)
             \/ \E c \in Conn, n \in 1 .. 2 : Forward(c, n)
    BY <1>1, <2>5 DEF Open, Forward, Close
  <2> QED BY <1>4, <2>1, <2>2, <2>3, <2>4, <2>5 DEF Relay
<1>5. CASE Failure
  <2>1. CASE \E how \in {"closed", "aborted"} : Hangup(how)
    BY <2>1, SameClient DEF Hangup, CP!Next, CP!Proxy
  <2>2. CASE \E c \in Conn, how \in {"closed", "aborted"} : Break(c, how)
    BY <1>1, <2>2 DEF Break
  <2> QED BY <1>5, <2>1, <2>2 DEF Failure
<1>6. CASE UNCHANGED vars
  BY <1>1, <1>6 DEF vars
<1> QED BY <1>2, <1>3, <1>4, <1>5, <1>6 DEF Next

\* The connection that is being made is one of those the client is to make.
LEMMA OpenedIsConn == CP!CInv => opened \in Conn
<1> SUFFICES ASSUME CP!CInv PROVE opened \in Conn
  OBVIOUS
<1>1. CP!ConnsLeft /\ nconn \in Int /\ opened \in Nat
  BY DEF CP!CInv, CP!DataTypes
<1> QED BY <1>1, JoinedAssumption DEF CP!ConnsLeft, Conn

\* What a step is to the server.
LEMMA StepIsServers ==
    CP!CInv /\ [Next]_vars => [SP!Next \/ \E sd \in Fd : SP!serverWrite_sigpipe(sd)]_(SP!vars)
<1> SUFFICES ASSUME CP!CInv, [Next]_vars PROVE SP!Next \/ UNCHANGED SP!vars
  OBVIOUS
<1>1. serverVars' = serverVars => UNCHANGED SP!vars
  BY DEF serverVars, SP!vars
<1>2. CASE Server
  BY <1>2, SameServer
  DEF Server, ServerAccept, ServerRead, ServerWrite, SP!Next, SP!Handle
<1>3. CASE ServerNofd \/ Tick
  BY <1>3, SameServer DEF ServerNofd, Tick, SP!Next
<1>4. CASE Client
  BY <1>1, <1>4 DEF Client, ClientEvent, Wakeup
<1>5. CASE Relay
  <2>1. CASE \/ \E ans \in {"open", "refused"} : Accept(ans)
             \/ ReplyMethod \/ ReplyConnect \/ ReplyMessage
             \/ \E n \in 1 .. Len(due) : Deliver(n)
             \/ Follow
    BY <1>1, <2>1 DEF Accept, ReplyMethod, ReplyConnect, ReplyMessage, Deliver, Follow,
                      RelayUnchanged
  <2>2. CASE Open
    BY <2>2, OpenedIsConn, SameServer DEF Open, SP!Next
  <2>3. CASE \E c \in Conn, n \in 1 .. 2 : Forward(c, n)
    <3>1. PICK c \in Conn, n \in 1 .. 2 : S!PeerSend(c, n)
      BY <2>3 DEF Forward
    <3>2. Len(SP!Hostname) = 2
      BY DEF SP!Hostname
    <3> QED BY <3>1, <3>2, SameServer DEF SP!Next
  <2>4. CASE \E c \in Conn : Close(c)
    BY <2>4, SameServer DEF Close, SP!Next
  <2> QED BY <1>5, <2>1, <2>2, <2>3, <2>4 DEF Relay
<1>6. CASE Failure
  <2>1. CASE \E how \in {"closed", "aborted"} : Hangup(how)
    BY <1>1, <2>1 DEF Hangup, RelayUnchanged
  <2>2. CASE \E c \in Conn, how \in {"closed", "aborted"} : Break(c, how)
    BY <2>2, SameServer DEF Break, SP!Next
  <2> QED BY <1>6, <2>1, <2>2 DEF Failure
<1>7. CASE UNCHANGED vars
  BY <1>1, <1>7 DEF vars
<1> QED BY <1>2, <1>3, <1>4, <1>5, <1>6, <1>7 DEF Next

\* The client in the joined system is a client as it was checked on its own: the
\* relay is one of the proxies that it may meet.
THEOREM JoinedIsClient == Spec => CP!Spec
<1>1. Init => CP!Init
  BY SameClient DEF Init
<1> QED BY <1>1, StepIsClients, PTL DEF Spec, CP!Spec

\* So is the server: the client and the relay are peers that it may meet.
THEOREM JoinedIsServer == Spec => SP!Spec
<1>1. Init => SP!Init
  BY SameServer DEF Init
<1>2. CP!Spec => []CP!CInv
  BY CP!SpecCInv, ArgsAre
<1> QED BY <1>1, <1>2, JoinedIsClient, StepIsServers, PTL DEF Spec, SP!Spec

-----------------------------------------------------------------------------
(* OneLineEach. As long as nothing went wrong: *)

\* A hostname is with the relay, or with the server, or in the log.
LineAt(c) ==
    /\ state[c] # "aborted"
    /\ \/ unsent[c] = S!Hostname /\ swire[c] = <<>> /\ log[c] = <<>>
       \/ unsent[c] = <<>> /\ swire[c] = S!Hostname /\ log[c] = <<>>
       \/ /\ unsent[c] = <<>> /\ swire[c] = <<>>
          /\ Len(log[c]) = 1 /\ log[c][1].host = S!Hostname
LinesWhole == \A c \in Conn : LineAt(c)

\* Who is to be answered, or was, is in the log.
AnsweredIsLogged ==
    /\ \A sd \in DOMAIN sed : sed[sd] = "OUT" => log[owner[sd]] # <<>>
    /\ \A c \in answers : c \in Conn /\ log[c] # <<>>

FinishedIsLogged == \A c \in Conn : Finished(c) => log[c] # <<>>

\* No connection ends on the server's side before it does on the client's.
NobodyHangsUp ==
    /\ conn \in {"none", "connecting", "open"}
    /\ \A c \in Conn : state[c] # "none" => c <= opened
    /\ conn = "connecting" => state[opened] = "none"
    /\ conn = "open" /\ isDone = 0 /\ cstatus = "up" => state[opened] \in {"none", "open"}

\* A reply is read as a whole, before the next request is made; what can be read
\* in the end is the server's answer.
Silent == cwire = <<>> /\ due = <<>>
RepliesWhole ==
    /\ socks5_status \in {"INIT", "NEG_OK", "CONN_OK"} => Silent /\ asked = "nothing"
    /\ socks5_status = "NEG_REQ" =>
         /\ cwire = <<>> \/ due = <<>>
         /\ Len(cwire) <= 2 /\ Len(due) <= 2
         /\ asked = "nothing" \/ (asked = "method" /\ Silent)
    /\ socks5_status = "CONN_REQ" =>
         /\ cwire = <<>> \/ due = <<>>
         /\ Len(cwire) <= 3 /\ Len(due) <= 3
         /\ asked = "nothing" \/ (asked = "connect" /\ Silent)
    /\ socks5_status = "DONE" =>
         /\ asked \in {"message", "nothing"}
         /\ Silent \/ opened \in answers

NoFaultInv ==
    /\ LinesWhole /\ AnsweredIsLogged /\ FinishedIsLogged /\ NobodyHangsUp
    /\ conn # "none" => RepliesWhole

JInv == faults \in Nat /\ (faults = 0 => NoFaultInv)

\* What the proofs of the two programs provide.
Parts == CP!CInv /\ SP!SInv

-----------------------------------------------------------------------------
\* Nothing is open, asked or logged.
LEMMA InitJInv == Init => JInv
<1> SUFFICES ASSUME Init PROVE JInv
  OBVIOUS
<1>1. /\ socks5_status = "INIT" /\ conn = "connecting" /\ cwire = <<>> /\ due = <<>>
      /\ asked = "nothing" /\ opened = 1
  BY DEF Init, C!Init
<1>2. /\ sed = << >> /\ log = [c \in Conn |-> <<>>] /\ state = [c \in Conn |-> "none"]
      /\ swire = [c \in Conn |-> <<>>] /\ unsent = [c \in Conn |-> S!Hostname]
  BY DEF Init, S!Init
<1>3. answers = {} /\ faults = 0
  BY DEF Init
<1>4. 1 \in Conn
  BY JoinedAssumption DEF Conn
<1>5. LinesWhole
  BY <1>2 DEF LinesWhole, LineAt
<1>6. AnsweredIsLogged
  <2>1. DOMAIN sed = {}
    BY <1>2
  <2> QED BY <1>3, <2>1 DEF AnsweredIsLogged
<1>7. FinishedIsLogged
  BY <1>1 DEF FinishedIsLogged, Finished, Conn
<1>8. NobodyHangsUp
  BY <1>1, <1>2, <1>4 DEF NobodyHangsUp
<1>9. RepliesWhole
  BY <1>1 DEF RepliesWhole, Silent
<1> QED BY <1>3, <1>5, <1>6, <1>7, <1>8, <1>9 DEF JInv, NoFaultInv

\* What goes wrong is counted, and stays so.
LEMMA FaultsGrow == ASSUME faults \in Nat, [Next]_vars PROVE faults' \in Nat /\ (faults' = 0 => faults = 0)
<1>1. faults' \in {faults, faults + 1}
  <2>1. \A bad : Fault(bad) => faults' \in {faults, faults + 1}
    BY DEF Fault
  <2>2. CASE Client
    BY <2>1, <2>2 DEF Client, ClientEvent, Wakeup
  <2>3. CASE Server \/ ServerNofd \/ Tick
    BY <2>3 DEF Server, ServerAccept, ServerRead, ServerWrite, ServerNofd, Tick
  <2>4. CASE Relay
    BY <2>1, <2>4 DEF Relay, Accept, ReplyMethod, ReplyConnect, ReplyMessage, Deliver, Follow,
                      Open, Forward, Close
  <2>5. CASE Failure
    BY <2>1, <2>5 DEF Failure, Hangup, Break
  <2>6. CASE UNCHANGED vars
    BY <2>6 DEF vars
  <2> QED BY <2>2, <2>3, <2>4, <2>5, <2>6 DEF Next
<1> QED BY <1>1

\* What a step leaves alone on the server's side.
LEMMA ServerFrame ==
    ASSUME NoFaultInv, UNCHANGED <<log, state, swire, unsent, sed, owner, answers>>
    PROVE  LinesWhole' /\ AnsweredIsLogged'
<1>1. LinesWhole /\ AnsweredIsLogged
  BY DEF NoFaultInv
<1>2. LinesWhole'
  BY <1>1 DEF LinesWhole, LineAt
<1>3. AnsweredIsLogged'
  BY <1>1 DEF AnsweredIsLogged
<1> QED BY <1>2, <1>3

\* What a step of the client leaves alone, and a connection that is neither made
\* nor closed by it.
LEMMA ClientFrame ==
    ASSUME NoFaultInv, UNCHANGED <<serverVars, answers>>, UNCHANGED <<conn, opened, isDone>>,
           cstatus' \in {cstatus, "exit"}
    PROVE  LinesWhole' /\ AnsweredIsLogged' /\ FinishedIsLogged' /\ NobodyHangsUp'
<1>1. UNCHANGED <<log, state, swire, unsent, sed, owner>>
  BY DEF serverVars
<1>2. LinesWhole' /\ AnsweredIsLogged'
  BY <1>1, ServerFrame
<1>3. FinishedIsLogged'
  BY <1>1 DEF NoFaultInv, FinishedIsLogged, Finished
<1>4. NobodyHangsUp'
  BY <1>1 DEF NoFaultInv, NobodyHangsUp
<1> QED BY <1>2, <1>3, <1>4

\* The client writes on a connection that is open, having read all there was.
LEMMA WriteJ ==
    ASSUME Parts, NoFaultInv, C!clientWrite \/ C!clientWrite_exit,
           UNCHANGED <<serverVars, answers>>
    PROVE  NoFaultInv'
<1>1. conn = "open"
  BY DEF C!clientWrite, C!clientWrite_exit, C!CanWrite, C!Ended, NoFaultInv, NobodyHangsUp
<1>2. /\ UNCHANGED <<conn, opened, isDone, cwire, due>> /\ cstatus' \in {cstatus, "exit"}
      /\ \/ UNCHANGED <<socks5_status, asked>>
         \/ /\ socks5_status \in {"INIT", "NEG_OK", "CONN_OK", "DONE"}
            /\ socks5_status' = C!After[socks5_status] /\ asked' = C!Asks[socks5_status]
  BY <1>1 DEF C!clientWrite, C!clientWrite_exit, C!Ended, C!After, C!proxyVars
<1>3. LinesWhole' /\ AnsweredIsLogged' /\ FinishedIsLogged' /\ NobodyHangsUp'
  BY <1>2, ClientFrame
<1>4. RepliesWhole
  BY <1>1 DEF NoFaultInv
<1>5. RepliesWhole'
  <2>0. answers' = answers
    OBVIOUS
  <2>1. CASE UNCHANGED <<socks5_status, asked>>
    BY <1>2, <1>4, <2>0, <2>1 DEF RepliesWhole, Silent
  <2>2. CASE socks5_status = "INIT" /\ socks5_status' = "NEG_REQ" /\ asked' = "method"
    BY <1>2, <1>4, <2>2 DEF RepliesWhole, Silent
  <2>3. CASE socks5_status = "NEG_OK" /\ socks5_status' = "CONN_REQ" /\ asked' = "connect"
    BY <1>2, <1>4, <2>3 DEF RepliesWhole, Silent
  <2>4. CASE socks5_status \in {"CONN_OK", "DONE"} /\ socks5_status' = "DONE"
             /\ asked' = "message"
    BY <1>2, <1>4, <2>0, <2>4 DEF RepliesWhole, Silent
  <2> QED BY <1>2, <2>1, <2>2, <2>3, <2>4 DEF C!After, C!Asks
<1> QED BY <1>3, <1>5 DEF NoFaultInv

\* A reply is there as a whole when it is read, and nothing is left of it.
LEMMA ReplyReadJ ==
    ASSUME Parts, NoFaultInv, C!clientRead_reply, UNCHANGED <<serverVars, answers>>
    PROVE  NoFaultInv'
<1>1. /\ cwire # <<>> /\ conn # "none" /\ RepliesWhole
      /\ conn \in {"connecting", "open"} /\ ced = "IN"
  <2>1. conn \in {"none", "connecting", "open"}
    BY DEF NoFaultInv, NobodyHangsUp
  <2>2. ced = "IN" /\ cwire # <<>>
    BY <2>1 DEF C!clientRead_reply, C!CanRead, C!Ended
  <2>3. conn # "none"
    BY <2>2 DEF Parts, CP!CInv, CP!WatchedWhileOpen
  <2> QED BY <2>1, <2>2, <2>3 DEF NoFaultInv
<1>2. PICK n \in {2, 3} :
         /\ C!Take(n)
         /\ \/ n = 2 /\ socks5_status = "NEG_REQ" /\ socks5_status' \in {"NEG_OK", "NEG_FAIL"}
            \/ n = 3 /\ socks5_status = "CONN_REQ" /\ socks5_status' \in {"CONN_OK", "CONN_FAIL"}
  BY DEF C!clientRead_reply, C!NegotiationResult, C!RequestResult
<1>3. UNCHANGED <<asked, due, isDone, cstatus, opened>>
  BY DEF C!clientRead_reply, C!proxyVars
<1>4. conn' = conn /\ cwire' = SubSeq(cwire, n + 1, Len(cwire))
  BY <1>1, <1>2 DEF C!Take, C!ReadFails
<1>5. LinesWhole' /\ AnsweredIsLogged' /\ FinishedIsLogged' /\ NobodyHangsUp'
  BY <1>3, <1>4, ClientFrame
<1>6. /\ due = <<>> /\ asked = "nothing" /\ Len(cwire) <= n
  BY <1>1, <1>2 DEF RepliesWhole, Silent
<1>7. cwire \in Seq(CP!Byte)
  BY DEF Parts, CP!CInv, CP!DataTypes
<1>8. cwire' = <<>>
  BY <1>4, <1>6, <1>7
<1>9. RepliesWhole'
  BY <1>2, <1>3, <1>6, <1>8 DEF RepliesWhole, Silent
<1> QED BY <1>5, <1>9 DEF NoFaultInv

\* What the client takes as the answer is the server's, who has logged it.
LEMMA CloseJ ==
    ASSUME Parts, NoFaultInv, C!clientRead_again \/ C!clientRead_done,
           UNCHANGED <<serverVars, answers>>
    PROVE  NoFaultInv'
<1>1. conn \in {"none", "connecting", "open"}
  BY DEF NoFaultInv, NobodyHangsUp
<1>2. /\ ced = "IN" /\ cwire # <<>> /\ socks5_status = "DONE" /\ conn' = "none"
      /\ opened' = opened
  BY <1>1 DEF C!clientRead_again, C!clientRead_done, C!CanRead, C!Ended
<1>3. conn # "none" /\ opened \in Nat
  BY <1>2 DEF Parts, CP!CInv, CP!WatchedWhileOpen, CP!DataTypes
<1>4. opened \in answers
  BY <1>2, <1>3 DEF NoFaultInv, RepliesWhole, Silent
<1>5. log[opened] # <<>>
  BY <1>4 DEF NoFaultInv, AnsweredIsLogged
<1>6. UNCHANGED <<log, state, swire, unsent, sed, owner>>
  BY DEF serverVars
<1>7. LinesWhole' /\ AnsweredIsLogged'
  BY <1>6, ServerFrame
<1>8. FinishedIsLogged'
  BY <1>2, <1>5, <1>6 DEF NoFaultInv, FinishedIsLogged, Finished
<1>9. NobodyHangsUp'
  BY <1>2, <1>6 DEF NoFaultInv, NobodyHangsUp
<1> QED BY <1>2, <1>7, <1>8, <1>9 DEF NoFaultInv

\* The next connection is made after the last one was closed.
LEMMA WakeupJ ==
    ASSUME Parts, NoFaultInv, C!wakeupClient, UNCHANGED <<serverVars, answers>>
    PROVE  NoFaultInv'
<1>1. /\ conn = "none" /\ socks5_status = "INIT" /\ opened \in Nat
  <2>1. timer
    BY DEF C!wakeupClient
  <2> QED BY <2>1 DEF Parts, CP!CInv, CP!WatchedWhileOpen, CP!DataTypes
<1>2. /\ conn' = "connecting" /\ opened' = opened + 1 /\ cwire' = <<>> /\ due' = <<>>
      /\ asked' = "nothing" /\ socks5_status' = "INIT"
  BY <1>1 DEF C!wakeupClient, C!startClient
<1>3. UNCHANGED <<log, state, swire, unsent, sed, owner>>
  BY DEF serverVars
<1>4. LinesWhole' /\ AnsweredIsLogged'
  BY <1>3, ServerFrame
<1>5. FinishedIsLogged'
  <2>1. \A c \in Conn : c < opened + 1 => c < opened \/ c = opened
    BY <1>1 DEF Conn
  <2> QED BY <1>1, <1>2, <1>3, <2>1 DEF NoFaultInv, FinishedIsLogged, Finished
<1>6. NobodyHangsUp'
  <2>1. opened + 1 \in Conn
    <3>1. CP!ConnsLeft /\ nconn \in Int
      BY DEF Parts, CP!CInv, CP!DataTypes
    <3>2. isDone = 0
      BY DEF C!wakeupClient, C!Up
    <3>3. opened >= 1 /\ opened + nconn = NConn /\ (nconn >= 1 \/ nconn = NConn)
      BY <1>1, <3>1, <3>2 DEF CP!ConnsLeft
    <3> QED BY <1>1, <3>1, <3>3, JoinedAssumption DEF Conn
  <2>2. state[opened + 1] = "none"
    BY <1>1, <2>1 DEF NoFaultInv, NobodyHangsUp
  <2>3. \A c \in Conn : state[c] # "none" => c <= opened + 1
    BY <1>1 DEF NoFaultInv, NobodyHangsUp, Conn
  <2> QED BY <1>2, <1>3, <2>2, <2>3 DEF NobodyHangsUp
<1>7. RepliesWhole'
  BY <1>2 DEF RepliesWhole, Silent
<1> QED BY <1>4, <1>5, <1>6, <1>7 DEF NoFaultInv

\* A connection in progress is accepted; to refuse it is a fault.
LEMMA AcceptJ ==
    ASSUME Parts, NoFaultInv, faults = 0, faults' = 0, NEW ans \in {"open", "refused"},
           Accept(ans)
    PROVE  NoFaultInv'
<1>1. ans = "open"
  BY DEF Accept, Fault
<1>2. /\ conn = "connecting" /\ conn' = "open"
      /\ UNCHANGED <<socks5_status, isDone, cstatus, opened, asked, due, cwire, answers>>
  BY <1>1 DEF Accept, C!AnswerConnect, C!clientVars, C!proxyVars, RelayUnchanged
<1>3. UNCHANGED <<log, state, swire, unsent, sed, owner>>
  BY DEF Accept, RelayUnchanged, serverVars
<1>4. LinesWhole' /\ AnsweredIsLogged'
  BY <1>2, <1>3, ServerFrame
<1>5. FinishedIsLogged'
  BY <1>2, <1>3 DEF NoFaultInv, FinishedIsLogged, Finished
<1>6. NobodyHangsUp'
  BY <1>2, <1>3 DEF NoFaultInv, NobodyHangsUp
<1>7. RepliesWhole'
  BY <1>2 DEF NoFaultInv, RepliesWhole, Silent
<1> QED BY <1>4, <1>5, <1>6, <1>7 DEF NoFaultInv

\* A request is answered when nothing is left of an earlier reply; the message,
\* when the server has answered it.
LEMMA ReplyJ ==
    ASSUME Parts, NoFaultInv, ReplyMethod \/ ReplyConnect \/ ReplyMessage
    PROVE  NoFaultInv'
<1>1. C!Reply /\ RelayUnchanged /\ (asked = "message" => opened \in answers)
  BY DEF ReplyMethod, ReplyConnect, ReplyMessage
<1>2. /\ conn = "open" /\ asked # "nothing" /\ asked' = "nothing"
      /\ UNCHANGED <<socks5_status, isDone, cstatus, opened, conn, cwire, answers, serverVars>>
  BY <1>1 DEF C!Reply, C!clientVars, RelayUnchanged
<1>3. PICK r : r \in C!Replies[asked] /\ due' = due \o r
  BY <1>1 DEF C!Reply
<1>4. LinesWhole' /\ AnsweredIsLogged' /\ FinishedIsLogged' /\ NobodyHangsUp'
  BY <1>2, ClientFrame
<1>5. RepliesWhole /\ asked \in {"method", "connect", "message"}
  BY <1>2 DEF NoFaultInv, Parts, CP!CInv, CP!DataTypes
<1>6. /\ asked = "method" => r \in {<<"ver", "ok">>, <<"ver", "none">>}
      /\ asked = "connect" => r \in {<<"ver", "ok", "rest">>, <<"ver", "err", "rest">>}
  BY <1>3 DEF C!Replies
<1>7. RepliesWhole'
  <2>1. CASE socks5_status = "NEG_REQ"
    <3>1. asked = "method" /\ cwire = <<>> /\ due = <<>>
      BY <1>2, <1>5, <2>1 DEF RepliesWhole, Silent
    <3>2. Len(<<>> \o r) = 2
      <4>1. Len(<<>> \o <<"ver", "ok">>) = 2 /\ Len(<<>> \o <<"ver", "none">>) = 2
        OBVIOUS
      <4> QED BY <1>6, <3>1, <4>1, Zenon
    <3>3. Len(due') = 2 /\ Len(cwire) = 0
      BY <1>3, <3>1, <3>2
    <3> QED BY <1>2, <2>1, <3>1, <3>3 DEF RepliesWhole
  <2>2. CASE socks5_status = "CONN_REQ"
    <3>1. asked = "connect" /\ cwire = <<>> /\ due = <<>>
      BY <1>2, <1>5, <2>2 DEF RepliesWhole, Silent
    <3>2. Len(<<>> \o r) = 3
      <4>1. /\ Len(<<>> \o <<"ver", "ok", "rest">>) = 3
            /\ Len(<<>> \o <<"ver", "err", "rest">>) = 3
        OBVIOUS
      <4> QED BY <1>6, <3>1, <4>1, Zenon
    <3>3. Len(due') = 3 /\ Len(cwire) = 0
      BY <1>3, <3>1, <3>2
    <3> QED BY <1>2, <2>2, <3>1, <3>3 DEF RepliesWhole
  <2>3. CASE socks5_status = "DONE"
    <3>1. opened \in answers
      BY <1>1, <1>2, <1>5, <2>3 DEF RepliesWhole
    <3> QED BY <1>2, <2>3, <3>1 DEF RepliesWhole
  <2>4. CASE socks5_status \notin {"NEG_REQ", "CONN_REQ", "DONE"}
    <3>1. socks5_status \notin {"INIT", "NEG_OK", "CONN_OK"}
      BY <1>2, <1>5 DEF RepliesWhole
    <3> QED BY <1>2, <2>4, <3>1 DEF RepliesWhole
  <2> QED BY <2>1, <2>2, <2>3, <2>4
<1> QED BY <1>4, <1>7 DEF NoFaultInv

\* A reply arrives as a whole; to cut it is a fault.
LEMMA DeliverJ ==
    ASSUME Parts, NoFaultInv, faults = 0, faults' = 0, NEW n \in 1 .. Len(due), Deliver(n)
    PROVE  NoFaultInv'
<1>1. C!Arrive(n) /\ RelayUnchanged /\ ~ (n < Len(due))
  BY DEF Deliver, Fault
<1>2. cwire \in Seq(CP!Byte) /\ due \in Seq(CP!Byte)
  BY DEF Parts, CP!CInv, CP!DataTypes
<1>3. Len(due) \in Nat /\ n = Len(due) /\ n >= 1
  BY <1>1, <1>2
<1>4. /\ conn = "open"
      /\ UNCHANGED <<socks5_status, isDone, cstatus, opened, conn, asked, answers, serverVars>>
      /\ cwire' = cwire \o SubSeq(due, 1, n) /\ due' = SubSeq(due, n + 1, Len(due))
  BY <1>1 DEF C!Arrive, C!clientVars, RelayUnchanged
<1>5. LinesWhole' /\ AnsweredIsLogged' /\ FinishedIsLogged' /\ NobodyHangsUp'
  BY <1>4, ClientFrame
<1>6. due' = <<>> /\ due # <<>> /\ SubSeq(due, 1, n) = due
  BY <1>2, <1>3, <1>4
<1>7. cwire = <<>> => cwire' = due
  BY <1>2, <1>4, <1>6
<1>8. RepliesWhole
  BY <1>4 DEF NoFaultInv
<1>9. RepliesWhole'
  <2>1. CASE socks5_status = "NEG_REQ"
    <3>1. asked = "nothing" /\ cwire = <<>> /\ Len(due) <= 2
      BY <1>6, <1>8, <2>1 DEF RepliesWhole, Silent
    <3>2. Len(cwire') <= 2 /\ Len(due') <= 2
      BY <1>6, <1>7, <3>1
    <3> QED BY <1>4, <1>6, <2>1, <3>1, <3>2 DEF RepliesWhole
  <2>2. CASE socks5_status = "CONN_REQ"
    <3>1. asked = "nothing" /\ cwire = <<>> /\ Len(due) <= 3
      BY <1>6, <1>8, <2>2 DEF RepliesWhole, Silent
    <3>2. Len(cwire') <= 3 /\ Len(due') <= 3
      BY <1>6, <1>7, <3>1
    <3> QED BY <1>4, <1>6, <2>2, <3>1, <3>2 DEF RepliesWhole
  <2>3. CASE socks5_status = "DONE"
    <3>1. opened \in answers /\ asked \in {"message", "nothing"}
      BY <1>6, <1>8, <2>3 DEF RepliesWhole, Silent
    <3> QED BY <1>4, <2>3, <3>1 DEF RepliesWhole
  <2>4. CASE socks5_status \notin {"NEG_REQ", "CONN_REQ", "DONE"}
    <3>1. socks5_status \notin {"INIT", "NEG_OK", "CONN_OK"}
      BY <1>6, <1>8 DEF RepliesWhole, Silent
    <3> QED BY <1>4, <2>4, <3>1 DEF RepliesWhole
  <2> QED BY <2>1, <2>2, <2>3, <2>4
<1> QED BY <1>5, <1>9 DEF NoFaultInv

\* The relay has no end to pass on to the client.
LEMMA NoFollow == ASSUME NoFaultInv PROVE ~ Follow
  BY DEF Follow, C!Hangup, C!Up, S!Ended, NoFaultInv, NobodyHangsUp

\* What a step of the server or of the relay towards it leaves alone.
LEMMA RelayFrame ==
    ASSUME NoFaultInv, UNCHANGED clientVars, answers \subseteq answers'
    PROVE  conn' # "none" => RepliesWhole'
<1>1. UNCHANGED <<socks5_status, conn, cwire, due, asked, opened>>
  BY DEF clientVars
<1> QED BY <1>1 DEF NoFaultInv, RepliesWhole, Silent

\* A line that is there stays, so nobody misses it.
LEMMA LoggedFrame ==
    ASSUME NoFaultInv, UNCHANGED clientVars, \A c \in Conn : log[c] # <<>> => log'[c] # <<>>
    PROVE  FinishedIsLogged'
<1>1. UNCHANGED <<conn, opened>>
  BY DEF clientVars
<1> QED BY <1>1 DEF NoFaultInv, FinishedIsLogged, Finished

\* The server accepts a connection, closes one, or cannot accept one.
LEMMA ServerOtherJ ==
    ASSUME Parts, NoFaultInv, UNCHANGED <<clientVars, answers>>,
           \/ S!activateServer_accept \/ S!activateServer_nofd \/ S!Tick
           \/ \E sd \in Fd : S!serverRead_end(sd)
    PROVE  NoFaultInv'
<1>1. UNCHANGED <<log, state, swire, unsent>>
  BY DEF S!activateServer_accept, S!activateServer_nofd, S!Tick, S!serverRead_end, S!peerVars,
         S!serverVars
<1>2. /\ conn' # "none" => RepliesWhole'
      /\ FinishedIsLogged'
  BY <1>1, RelayFrame, LoggedFrame
<1>3. LinesWhole' /\ NobodyHangsUp'
  <2>1. LinesWhole /\ NobodyHangsUp
    BY DEF NoFaultInv
  <2>2. UNCHANGED <<conn, opened, isDone, cstatus>>
    BY DEF clientVars
  <2>3. LinesWhole'
    BY <1>1, <2>1 DEF LinesWhole, LineAt
  <2>4. NobodyHangsUp'
    BY <1>1, <2>1, <2>2 DEF NobodyHangsUp
  <2> QED BY <2>3, <2>4
<1>4. \A fd \in DOMAIN sed' : sed'[fd] = "OUT" =>
         fd \in DOMAIN sed /\ sed[fd] = "OUT" /\ owner'[fd] = owner[fd]
  <2>0. DOMAIN sed \subseteq Fd /\ owner \in [Fd -> Conn \cup {NULL}]
    BY DEF Parts, SP!SInv, SP!TypeOK
  <2>1. CASE S!activateServer_accept
    <3>1. PICK sd \in Fd : /\ owner' = [owner EXCEPT ![sd] = Head(backlog)]
                           /\ sed' = S!Put(sed, sd, "IN")
      BY <2>1 DEF S!activateServer_accept
    <3> QED BY <2>0, <3>1 DEF S!Put
  <2>2. CASE S!activateServer_nofd \/ S!Tick
    BY <2>2 DEF S!activateServer_nofd, S!Tick, S!serverVars
  <2>3. ASSUME NEW sd \in Fd, S!serverRead_end(sd)
        PROVE  \A fd \in DOMAIN sed' : sed'[fd] = "OUT" =>
                  fd \in DOMAIN sed /\ sed[fd] = "OUT" /\ owner'[fd] = owner[fd]
    <3>1. owner' = [owner EXCEPT ![sd] = NULL] /\ sed' = S!Without(sed, sd)
      BY <2>3 DEF S!serverRead_end, S!Watch, S!Without
    <3> QED BY <2>0, <3>1 DEF S!Without
  <2> QED BY <2>1, <2>2, <2>3
<1>5. AnsweredIsLogged'
  BY <1>1, <1>4 DEF NoFaultInv, AnsweredIsLogged
<1> QED BY <1>2, <1>3, <1>5 DEF NoFaultInv

\* The server reads a whole hostname, and logs it: the table has the time of
\* every connection that is open.
LEMMA ServerReadJ ==
    ASSUME Parts, NoFaultInv, UNCHANGED <<clientVars, answers>>, NEW sd \in Fd,
           S!serverRead(sd)
    PROVE  NoFaultInv'
<1>0. /\ log \in [Conn -> Seq(SP!Line)] /\ swire \in [Conn -> Seq({"head", "tail"})]
      /\ DOMAIN sed \subseteq Fd /\ owner \in [Fd -> Conn \cup {NULL}]
      /\ state \in [Conn -> {"none", "open", "closed", "aborted", "spent"}]
  BY DEF Parts, SP!SInv, SP!TypeOK, SP!Line
<1>1. PICK c \in Conn : c = owner[sd]
  <2>1. sd \in DOMAIN sed
    BY DEF S!serverRead, S!CanRead
  <2> QED BY <1>0, <2>1 DEF Parts, SP!SInv, SP!TimesOfOpenFds
<1>2. sd \in DOMAIN hashtab
  BY <1>1, ArgsAre DEF Parts, SP!SInv, SP!TimesOfOpenFds
<1>3. PICK t : log' = [log EXCEPT ![c] = Append(log[c], [host |-> swire[c], time |-> t])]
  BY <1>1, <1>2 DEF S!serverRead, S!logServerConnection
<1>4. LineAt(c)
  BY DEF NoFaultInv, LinesWhole
<1>5. swire[c] = S!Hostname /\ log[c] = <<>> /\ unsent[c] = <<>>
  <2>1. swire[c] # <<>> \/ S!Ended(c)
    BY <1>1 DEF S!serverRead, S!CanRead
  <2>2. ~ S!AtEnd(c)
    BY <1>1 DEF S!serverRead
  <2>3. swire[c] # <<>>
    BY <1>4, <2>1, <2>2 DEF S!AtEnd, LineAt
  <2> QED BY <1>4, <2>3 DEF LineAt
<1>6. S!Hostname # <<>>
  BY DEF S!Hostname
<1>7. /\ swire' = [swire EXCEPT ![c] = <<>>] /\ state' = state
      /\ UNCHANGED <<owner, unsent>> /\ sed' = S!Watch(sed, sd, "OUT")
  BY <1>1, <1>5, <1>6 DEF S!serverRead
<1>8. log'[c] = Append(<<>>, [host |-> S!Hostname, time |-> t])
  BY <1>0, <1>3, <1>5
<1>9. Len(log'[c]) = 1 /\ log'[c][1].host = S!Hostname /\ log'[c] # <<>>
  BY <1>8
<1>10. \A d \in Conn : d # c => log'[d] = log[d] /\ swire'[d] = swire[d]
  BY <1>0, <1>3, <1>7
<1>11. LinesWhole'
  <2> SUFFICES ASSUME NEW d \in Conn PROVE LineAt(d)'
    BY DEF LinesWhole
  <2>1. CASE d = c
    <3>1. swire'[c] = <<>>
      BY <1>0, <1>7
    <3> QED BY <1>4, <1>5, <1>7, <1>9, <2>1, <3>1 DEF LineAt
  <2>2. CASE d # c
    <3>1. LineAt(d)
      BY DEF NoFaultInv, LinesWhole
    <3> QED BY <1>7, <1>10, <2>2, <3>1 DEF LineAt
  <2> QED BY <2>1, <2>2
<1>12. \A d \in Conn : log[d] # <<>> => log'[d] # <<>>
  BY <1>9, <1>10
<1>13. AnsweredIsLogged'
  <2>1. ASSUME NEW fd \in DOMAIN sed', sed'[fd] = "OUT" PROVE log'[owner'[fd]] # <<>>
    <3>1. CASE fd = sd
      BY <1>1, <1>7, <1>9, <3>1
    <3>2. CASE fd # sd
      <4>1. fd \in DOMAIN sed /\ sed[fd] = "OUT" /\ fd \in Fd
        BY <1>0, <1>7, <2>1, <3>2 DEF S!Watch, S!Put
      <4>2. log[owner[fd]] # <<>>
        BY <4>1 DEF NoFaultInv, AnsweredIsLogged
      <4>3. owner[fd] \in Conn
        BY <1>0, <4>1 DEF Parts, SP!SInv, SP!TimesOfOpenFds
      <4> QED BY <1>7, <1>12, <4>2, <4>3
    <3> QED BY <3>1, <3>2
  <2> QED BY <1>12, <2>1 DEF NoFaultInv, AnsweredIsLogged
<1>14. NobodyHangsUp'
  <2>1. UNCHANGED <<conn, opened, isDone, cstatus>>
    BY DEF clientVars
  <2> QED BY <1>7, <2>1 DEF NoFaultInv, NobodyHangsUp
<1>15. FinishedIsLogged' /\ (conn' # "none" => RepliesWhole')
  BY <1>12, RelayFrame, LoggedFrame
<1> QED BY <1>11, <1>13, <1>14, <1>15 DEF NoFaultInv

\* The server answers who it has logged.
LEMMA ServerWriteJ ==
    ASSUME Parts, NoFaultInv, NEW sd \in Fd, ServerWrite(sd)
    PROVE  NoFaultInv'
<1>0. /\ DOMAIN sed \subseteq Fd /\ owner \in [Fd -> Conn \cup {NULL}]
      /\ state \in [Conn -> {"none", "open", "closed", "aborted", "spent"}]
  BY DEF Parts, SP!SInv, SP!TypeOK
<1>1. sd \in DOMAIN sed /\ sed[sd] = "OUT"
  BY DEF ServerWrite, S!serverWrite, S!CanWrite
<1>2. PICK c \in Conn : c = owner[sd]
  BY <1>0, <1>1 DEF Parts, SP!SInv, SP!TimesOfOpenFds
<1>3. log[c] # <<>>
  BY <1>1, <1>2 DEF NoFaultInv, AnsweredIsLogged
<1>4. /\ answers' \in {answers, answers \cup {c}}
      /\ UNCHANGED <<clientVars, log, owner, swire, unsent>>
      /\ sed' = S!Watch(sed, sd, "IN")
      /\ state' = IF S!Ended(c) THEN [state EXCEPT ![c] = "spent"] ELSE state
  BY <1>2 DEF ServerWrite, S!serverWrite, S!NextEvent
<1>5. \A d \in Conn : /\ state'[d] # state[d] => S!Ended(d) /\ state'[d] = "spent"
                      /\ state[d] \in {"none", "open"} => state'[d] = state[d]
  BY <1>0, <1>4 DEF S!Ended
<1>6. LinesWhole'
  <2> SUFFICES ASSUME NEW d \in Conn PROVE LineAt(d)'
    BY DEF LinesWhole
  <2>1. LineAt(d)
    BY DEF NoFaultInv, LinesWhole
  <2> QED BY <1>4, <1>5, <2>1 DEF LineAt
<1>7. AnsweredIsLogged'
  <2>1. \A fd \in DOMAIN sed' : sed'[fd] = "OUT" => fd \in DOMAIN sed /\ sed[fd] = "OUT"
    BY <1>4 DEF S!Watch, S!Put
  <2> QED BY <1>3, <1>4, <2>1 DEF NoFaultInv, AnsweredIsLogged
<1>8. NobodyHangsUp'
  <2>1. UNCHANGED <<conn, opened, isDone, cstatus>>
    BY <1>4 DEF clientVars
  <2>2. opened \in Conn
    BY OpenedIsConn DEF Parts
  <2>3. \A d \in Conn : state'[d] # "none" => state[d] # "none"
    BY <1>5
  <2>4. NobodyHangsUp
    BY DEF NoFaultInv
  <2> QED BY <1>5, <2>1, <2>2, <2>3, <2>4 DEF NobodyHangsUp
<1>9. FinishedIsLogged' /\ (conn' # "none" => RepliesWhole')
  BY <1>4, RelayFrame, LoggedFrame
<1> QED BY <1>6, <1>7, <1>8, <1>9 DEF NoFaultInv

\* The relay reaches the server while the client's connection is open.
LEMMA OpenJ == ASSUME Parts, NoFaultInv, Open PROVE NoFaultInv'
<1>1. /\ conn = "open" /\ UNCHANGED <<clientVars, answers, log, sed, owner, swire, unsent>>
      /\ state' = [state EXCEPT ![opened] = "open"]
  BY DEF Open, S!Connect, S!serverVars
<1>2. UNCHANGED <<conn, opened, isDone, cstatus>>
  BY <1>1 DEF clientVars
<1>3. opened \in Conn /\ state \in [Conn -> {"none", "open", "closed", "aborted", "spent"}]
  BY OpenedIsConn DEF Parts, SP!SInv, SP!TypeOK
<1>4. LinesWhole'
  <2> SUFFICES ASSUME NEW d \in Conn PROVE LineAt(d)'
    BY DEF LinesWhole
  <2>1. LineAt(d) /\ state'[d] \in {state[d], "open"}
    BY <1>1, <1>3 DEF NoFaultInv, LinesWhole
  <2> QED BY <1>1, <2>1 DEF LineAt
<1>5. AnsweredIsLogged'
  BY <1>1 DEF NoFaultInv, AnsweredIsLogged
<1>6. NobodyHangsUp'
  <2>1. NobodyHangsUp /\ opened <= opened
    BY <1>3 DEF NoFaultInv, Conn
  <2>2. state'[opened] = "open" /\ \A d \in Conn : d # opened => state'[d] = state[d]
    BY <1>1, <1>3
  <2> QED BY <1>1, <1>2, <2>1, <2>2 DEF NobodyHangsUp
<1>7. FinishedIsLogged' /\ (conn' # "none" => RepliesWhole')
  BY <1>1, RelayFrame, LoggedFrame
<1> QED BY <1>4, <1>5, <1>6, <1>7 DEF NoFaultInv

\* The hostname is passed on as a whole; to cut it is a fault.
LEMMA ForwardJ ==
    ASSUME Parts, NoFaultInv, faults = 0, faults' = 0, NEW c \in Conn, NEW n \in 1 .. 2,
           Forward(c, n)
    PROVE  NoFaultInv'
<1>1. S!PeerSend(c, n) /\ ~ (n < Len(unsent[c])) /\ UNCHANGED <<clientVars, answers>>
  BY DEF Forward, Fault
<1>2. /\ n \in 1 .. Len(unsent[c])
      /\ UNCHANGED <<log, sed, owner, state>>
      /\ swire' = [swire EXCEPT ![c] = swire[c] \o SubSeq(unsent[c], 1, n)]
      /\ unsent' = [unsent EXCEPT ![c] = SubSeq(unsent[c], n + 1, Len(unsent[c]))]
  BY <1>1 DEF S!PeerSend, S!serverVars
<1>3. /\ swire \in [Conn -> Seq({"head", "tail"})] /\ unsent \in [Conn -> Seq({"head", "tail"})]
  BY DEF Parts, SP!SInv, SP!TypeOK
<1>4. LineAt(c)
  BY DEF NoFaultInv, LinesWhole
<1>5. unsent[c] # <<>>
  BY <1>2
<1>6. unsent[c] = S!Hostname /\ swire[c] = <<>> /\ log[c] = <<>> /\ state[c] # "aborted"
  BY <1>4, <1>5 DEF LineAt
<1>7. Len(S!Hostname) = 2
  BY DEF S!Hostname
<1>8. n = 2
  BY <1>1, <1>2, <1>6, <1>7
<1>9. /\ <<>> \o SubSeq(S!Hostname, 1, 2) = S!Hostname
      /\ SubSeq(S!Hostname, 2 + 1, 2) = <<>>
  <2>1. PICK h \in Seq({"head", "tail"}) : h = S!Hostname
    BY <1>3, <1>6
  <2>2. Len(h) = 2
    BY <1>7, <2>1
  <2>3. SubSeq(h, 1, 2) = h /\ SubSeq(h, 2 + 1, 2) = <<>>
    BY <2>2
  <2>4. <<>> \o h = h
    OBVIOUS
  <2> QED BY <2>1, <2>3, <2>4
<1>10. swire'[c] = S!Hostname /\ unsent'[c] = <<>>
  BY <1>2, <1>3, <1>6, <1>7, <1>8, <1>9
<1>11. \A d \in Conn : d # c => swire'[d] = swire[d] /\ unsent'[d] = unsent[d]
  BY <1>2, <1>3
<1>12. LinesWhole'
  <2> SUFFICES ASSUME NEW d \in Conn PROVE LineAt(d)'
    BY DEF LinesWhole
  <2>1. CASE d = c
    BY <1>2, <1>6, <1>10, <2>1 DEF LineAt
  <2>2. CASE d # c
    <3>1. LineAt(d)
      BY DEF NoFaultInv, LinesWhole
    <3> QED BY <1>2, <1>11, <2>2, <3>1 DEF LineAt
  <2> QED BY <2>1, <2>2
<1>13. AnsweredIsLogged'
  BY <1>1, <1>2 DEF NoFaultInv, AnsweredIsLogged
<1>14. NobodyHangsUp'
  <2>1. UNCHANGED <<conn, opened, isDone, cstatus>>
    BY <1>1 DEF clientVars
  <2> QED BY <1>2, <2>1 DEF NoFaultInv, NobodyHangsUp
<1>15. FinishedIsLogged' /\ (conn' # "none" => RepliesWhole')
  BY <1>1, <1>2, RelayFrame, LoggedFrame
<1> QED BY <1>12, <1>13, <1>14, <1>15 DEF NoFaultInv

\* The relay closes what the client has closed.
LEMMA RelayCloseJ ==
    ASSUME Parts, NoFaultInv, NEW c \in Conn, Close(c) PROVE NoFaultInv'
<1>1. /\ Over(c) /\ state[c] = "open" /\ state' = [state EXCEPT ![c] = "closed"]
      /\ UNCHANGED <<clientVars, answers, log, sed, owner, swire, unsent>>
  BY DEF Close, S!PeerClose, S!serverVars
<1>2. UNCHANGED <<conn, opened, isDone, cstatus>>
  BY <1>1 DEF clientVars
<1>3. opened \in Conn /\ state \in [Conn -> {"none", "open", "closed", "aborted", "spent"}]
  BY OpenedIsConn DEF Parts, SP!SInv, SP!TypeOK
<1>4. LinesWhole'
  <2> SUFFICES ASSUME NEW d \in Conn PROVE LineAt(d)'
    BY DEF LinesWhole
  <2>1. LineAt(d) /\ state'[d] \in {state[d], "closed"}
    BY <1>1, <1>3 DEF NoFaultInv, LinesWhole
  <2> QED BY <1>1, <2>1 DEF LineAt
<1>5. AnsweredIsLogged'
  BY <1>1 DEF NoFaultInv, AnsweredIsLogged
<1>6. NobodyHangsUp'
  <2>1. NobodyHangsUp
    BY DEF NoFaultInv
  <2>2. state'[c] = "closed" /\ \A d \in Conn : d # c => state'[d] = state[d]
    BY <1>1, <1>3
  <2>3. c <= opened
    BY <1>1, <2>1 DEF NobodyHangsUp
  <2>4. c = opened => conn # "connecting" /\ ~ (conn = "open" /\ isDone = 0 /\ cstatus = "up")
    <3>1. c = opened => ~ (c < opened)
      BY <1>3 DEF Conn
    <3> QED BY <1>1, <2>1, <3>1 DEF Over, NobodyHangsUp
  <2> QED BY <1>2, <1>3, <2>1, <2>2, <2>3, <2>4 DEF NobodyHangsUp
<1>7. FinishedIsLogged' /\ (conn' # "none" => RepliesWhole')
  BY <1>1, RelayFrame, LoggedFrame
<1> QED BY <1>4, <1>5, <1>6, <1>7 DEF NoFaultInv

-----------------------------------------------------------------------------
\* Every step with which nothing goes wrong.
LEMMA NextJ ==
    ASSUME Parts, NoFaultInv, [Next]_vars, faults = 0, faults' = 0 PROVE NoFaultInv'
<1>1. CASE Client
  <2>1. CASE ClientEvent
    BY <2>1, WriteJ, ReplyReadJ, CloseJ DEF ClientEvent
  <2>2. CASE Wakeup
    <3>1. C!wakeupClient /\ UNCHANGED <<serverVars, answers>>
      BY <2>2 DEF Wakeup, Fault
    <3> QED BY <3>1, WakeupJ
  <2> QED BY <1>1, <2>1, <2>2 DEF Client
<1>2. CASE Server \/ ServerNofd \/ Tick
  <2>1. CASE ServerAccept \/ ServerNofd \/ Tick
    BY <2>1, ServerOtherJ DEF ServerAccept, ServerNofd, Tick
  <2>2. ASSUME NEW sd \in Fd, ServerRead(sd) PROVE NoFaultInv'
    BY <2>2, ServerReadJ, ServerOtherJ DEF ServerRead
  <2>3. ASSUME NEW sd \in Fd, ServerWrite(sd) PROVE NoFaultInv'
    BY <2>3, ServerWriteJ
  <2> QED BY <1>2, <2>1, <2>2, <2>3 DEF Server
<1>3. CASE Relay
  <2>1. CASE \E ans \in {"open", "refused"} : Accept(ans)
    BY <2>1, AcceptJ
  <2>2. CASE ReplyMethod \/ ReplyConnect \/ ReplyMessage
    BY <2>2, ReplyJ
  <2>3. CASE \E n \in 1 .. Len(due) : Deliver(n)
    BY <2>3, DeliverJ
  <2>4. CASE Follow
    BY <2>4, NoFollow
  <2>5. CASE Open
    BY <2>5, OpenJ
  <2>6. CASE \E c \in Conn, n \in 1 .. 2 : Forward(c, n)
    BY <2>6, ForwardJ
  <2>7. CASE \E c \in Conn : Close(c)
    BY <2>7, RelayCloseJ
  <2> QED BY <1>3, <2>1, <2>2, <2>3, <2>4, <2>5, <2>6, <2>7 DEF Relay
<1>4. ~ Failure
  BY DEF Failure, Hangup, Break, Fault
<1>5. CASE UNCHANGED vars
  <2>1. /\ UNCHANGED <<clientVars, serverVars, answers>>
        /\ UNCHANGED <<conn, opened, isDone, cstatus, socks5_status, asked, due, cwire>>
    BY <1>5 DEF vars, clientVars
  <2>2. LinesWhole' /\ AnsweredIsLogged' /\ FinishedIsLogged' /\ NobodyHangsUp'
    BY <2>1, ClientFrame
  <2> QED BY <2>1, <2>2, RelayFrame DEF NoFaultInv
<1> QED BY <1>1, <1>2, <1>3, <1>4, <1>5 DEF Next

\* The invariant, with those of the two programs.
LEMMA SpecJInv == Spec => []JInv
<1>1. CP!Spec => []CP!CInv
  BY CP!SpecCInv, ArgsAre
<1>2. SP!Spec => []SP!SInv
  BY SP!SpecSInv, ArgsAre
<1>3. CP!CInv /\ SP!SInv /\ JInv /\ [Next]_vars => JInv'
  BY FaultsGrow, NextJ DEF JInv, Parts
<1> QED BY <1>1, <1>2, <1>3, InitJInv, JoinedIsClient, JoinedIsServer, PTL DEF Spec

\* Unless something went wrong, every connection the client has closed has its
\* line in the server's log, one line with the whole hostname: the log is the
\* ground truth the correlation is compared with.
THEOREM GroundTruth == Spec => []OneLineEach
<1>1. ASSUME JInv PROVE OneLineEach
  <2> SUFFICES ASSUME faults = 0, NEW c \in Conn
               PROVE  /\ Finished(c) => log[c] # <<>>
                      /\ log[c] # <<>> => Len(log[c]) = 1 /\ log[c][1].host = S!Hostname
    BY DEF OneLineEach
  <2>1. FinishedIsLogged /\ LineAt(c)
    BY <1>1 DEF JInv, NoFaultInv, LinesWhole
  <2> QED BY <2>1 DEF FinishedIsLogged, LineAt
<1> QED BY <1>1, SpecJInv, PTL
=============================================================================
