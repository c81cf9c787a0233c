----------------------- MODULE SimpleTCPClientProofs -----------------------
(***************************************************************************)
(* What TLAPS proves of SimpleTCPClient, for every number of connections   *)
(* and every way in which the proxy's replies arrive.                      *)
(***************************************************************************)
EXTENDS SimpleTCPClient, TLAPS

Byte == {"ver", "ok", "err", "none", "rest", "data"}

\* TypeOK in two parts, for the provers.
DataTypes ==
    /\ socks5_status \in
         {"INIT", "NEG_REQ", "NEG_OK", "NEG_FAIL", "CONN_REQ", "CONN_OK", "CONN_FAIL", "DONE"}
    /\ nconn \in Int /\ isDone \in {0, 1} /\ opened \in Nat
    /\ ed \in {"", "IN", "OUT"}
    /\ status \in {"up", "exit", "sigpipe", "trap"}
    /\ conn \in {"none", "connecting", "open", "closed", "aborted", "refused", "reset"}
    /\ wire \in Seq(Byte) /\ due \in Seq(Byte)
    /\ asked \in {"nothing", "method", "connect", "message"}
FlagTypes == timer \in BOOLEAN /\ granted \in BOOLEAN

\* The descriptor is watched while there is one, and the client sleeps, in its
\* first status, only while there is none. A connection in progress is new.
WatchedWhileOpen ==
    /\ conn = "none" <=> ed = ""
    /\ timer => conn = "none" /\ socks5_status = "INIT"
    /\ conn = "connecting" => socks5_status = "INIT"

\* The second byte of what the proxy sent and the client did not read.
SecondUnread == IF Len(wire) >= 2 THEN wire[2] ELSE due[2 - Len(wire)]

\* The replies still unread, by status. A read takes at least one byte of the
\* reply to the negotiation, so at most one of them is left in front of the reply
\* to CONNECT, and that one's code is the second byte only if none is left. What
\* is under way on a connection that has ended never arrives.
Unread ==
    /\ socks5_status = "INIT" => wire = <<>> /\ due = <<>> /\ asked = "nothing"
    /\ socks5_status = "NEG_REQ" =>
         /\ Len(wire) + Len(due) <= 2
         /\ asked = "method" => wire = <<>> /\ due = <<>>
         /\ asked \in {"method", "nothing"}
    /\ socks5_status = "NEG_OK" =>
         /\ Len(wire) <= 1
         /\ conn = "open" => Len(wire) + Len(due) <= 1 /\ asked = "nothing"
    /\ socks5_status = "CONN_REQ" =>
         /\ Len(wire) >= 2 /\ wire[2] = "ok" => granted
         /\ conn = "open" /\ asked = "connect" => Len(wire) + Len(due) <= 1
         /\ conn = "open" /\ asked # "connect" =>
              /\ asked = "nothing"
              /\ Len(wire) + Len(due) >= 2 /\ SecondUnread = "ok" => granted
    /\ socks5_status \in {"CONN_OK", "DONE"} => granted

\* Connections made and connections left.
ConnsLeft ==
    /\ opened >= 1
    /\ opened + nconn = IF conn = "none" /\ isDone = 0 THEN NConn ELSE NConn + 1
    /\ nconn >= 1 \/ nconn = NConn
    /\ isDone = 1 => nconn <= 1

CInv == DataTypes /\ FlagTypes /\ WatchedWhileOpen /\ (conn # "none" => Unread) /\ ConnsLeft

-----------------------------------------------------------------------------
\* The start is a first connection with nothing read, asked or granted.
LEMMA InitCInv == Init => CInv
<1> SUFFICES ASSUME Init PROVE CInv
  OBVIOUS
<1>1. DataTypes /\ FlagTypes
  <2>1. DataTypes
    BY ArgsAccepted DEF Init, DataTypes, checkClientArgs
  <2> QED BY <2>1 DEF Init, FlagTypes
<1>2. WatchedWhileOpen /\ Unread
  BY DEF Init, WatchedWhileOpen, Unread
<1>3. ConnsLeft
  BY ArgsAccepted DEF Init, ConnsLeft, checkClientArgs
<1> QED BY <1>1, <1>2, <1>3 DEF CInv

\* _simpletcp_clientWrite goes on by one status and, if it reaches the proxy,
\* leaves one request to answer.
LEMMA WriteCInv == ASSUME CInv, clientWrite PROVE CInv'
<1>1. /\ socks5_status \in {"INIT", "NEG_OK", "CONN_OK", "DONE"}
      /\ ed = "OUT" /\ conn \in {"open", "closed", "aborted", "refused", "reset"}
      /\ conn' = IF conn = "open" THEN conn ELSE "reset"
      /\ ed' = "IN"
      /\ UNCHANGED <<nconn, isDone, timer, status, opened, wire, due, granted>>
  BY DEF clientWrite, CanWrite, Ended, After
<1>2. /\ socks5_status = "INIT" =>
            socks5_status' = "NEG_REQ" /\ asked' = IF conn = "open" THEN "method" ELSE asked
      /\ socks5_status = "NEG_OK" =>
            socks5_status' = "CONN_REQ" /\ asked' = IF conn = "open" THEN "connect" ELSE asked
      /\ socks5_status \in {"CONN_OK", "DONE"} =>
            socks5_status' = "DONE" /\ asked' = IF conn = "open" THEN "message" ELSE asked
  BY DEF clientWrite, After, Asks
<1>3. DataTypes'
  BY <1>1, <1>2 DEF CInv, DataTypes
<1>4. WatchedWhileOpen'
  BY <1>1, <1>2 DEF CInv, WatchedWhileOpen
<1>5. Unread'
  <2>1. Unread /\ Len(wire) \in Nat /\ Len(due) \in Nat
    BY <1>1 DEF CInv, DataTypes
  <2>2. CASE socks5_status = "INIT"
    BY <1>1, <1>2, <2>1, <2>2 DEF Unread
  <2>3. CASE socks5_status = "NEG_OK"
    BY <1>1, <1>2, <2>1, <2>3 DEF Unread
  <2>4. CASE socks5_status \in {"CONN_OK", "DONE"}
    BY <1>1, <1>2, <2>1, <2>4 DEF Unread
  <2> QED BY <1>1, <2>2, <2>3, <2>4
<1>6. ConnsLeft'
  BY <1>1 DEF CInv, ConnsLeft
<1>7. FlagTypes'
  BY <1>1 DEF CInv, FlagTypes
<1> QED BY <1>3, <1>4, <1>5, <1>6, <1>7 DEF CInv

\* What is left of a stream after a read of at most n bytes.
LEMMA TakeIs ==
    ASSUME NEW s \in Seq(Byte), NEW n \in Nat
    PROVE  /\ SubSeq(s, n + 1, Len(s)) \in Seq(Byte)
           /\ Len(SubSeq(s, n + 1, Len(s))) = IF Len(s) <= n THEN 0 ELSE Len(s) - n
           /\ Len(s) \in Nat
  OBVIOUS

\* A reply, or a piece of it, or its end is read.
LEMMA ReplyReadCInv == ASSUME CInv, clientRead_reply PROVE CInv'
<1>1. /\ ed = "IN" /\ ed' = "OUT" /\ (wire # <<>> \/ Ended)
      /\ UNCHANGED <<asked, due, granted, nconn, isDone, timer, status, opened>>
  BY DEF clientRead_reply, CanRead, EventForNext, proxyVars
<1>2. PICK n \in {2, 3} :
         /\ Take(n)
         /\ \/ n = 2 /\ socks5_status = "NEG_REQ" /\ socks5_status' = NegotiationResult
            \/ n = 3 /\ socks5_status = "CONN_REQ" /\ socks5_status' = RequestResult
  BY DEF clientRead_reply
<1>3. /\ wire' = SubSeq(wire, n + 1, Len(wire)) /\ wire \in Seq(Byte)
      /\ due \in Seq(Byte) /\ Len(due) \in Nat
      /\ conn' = conn \/ (conn = "aborted" /\ conn' = "reset")
  <2>1. wire' = SubSeq(wire, n + 1, Len(wire))
    BY <1>2 DEF Take
  <2>2. conn' = conn \/ (conn = "aborted" /\ conn' = "reset")
    BY <1>2 DEF Take, ReadFails
  <2>3. wire \in Seq(Byte) /\ due \in Seq(Byte)
    BY DEF CInv, DataTypes
  <2>4. Len(due) \in Nat
    BY <2>3
  <2> QED BY <2>1, <2>2, <2>3, <2>4
<1>4. /\ Len(wire) \in Nat /\ wire' \in Seq(Byte)
      /\ Len(wire') = IF Len(wire) <= n THEN 0 ELSE Len(wire) - n
  BY <1>3, TakeIs
<1>5. conn = "open" => Len(wire) >= 1
  BY <1>1, <1>3, <1>4 DEF Ended
<1>6. /\ conn # "none" /\ conn' # "none" /\ conn # "connecting" /\ conn' # "connecting"
      /\ ~ timer /\ Unread
  BY <1>1, <1>2, <1>3 DEF CInv, WatchedWhileOpen
<1>7. DataTypes'
  <2>1. socks5_status' \in {"NEG_FAIL", "NEG_OK", "CONN_FAIL", "CONN_OK"}
    BY <1>2 DEF NegotiationResult, RequestResult
  <2> QED BY <1>1, <1>3, <1>4, <2>1 DEF CInv, DataTypes
<1>8. WatchedWhileOpen'
  BY <1>1, <1>6 DEF WatchedWhileOpen
<1>9. Unread'
  <2>1. CASE socks5_status = "NEG_REQ"
    <3>1. n = 2 /\ socks5_status' \in {"NEG_FAIL", "NEG_OK"}
      BY <1>2, <2>1 DEF NegotiationResult
    <3>2. Len(wire) + Len(due) <= 2 /\ asked \in {"method", "nothing"}
          /\ (asked = "method" => wire = <<>>)
      BY <1>6, <2>1 DEF Unread
    <3>3. Len(wire') <= 1
      BY <1>3, <1>4, <3>1, <3>2
    <3>4. conn' = "open" => Len(wire') + Len(due) <= 1 /\ asked = "nothing"
      BY <1>3, <1>4, <1>5, <3>1, <3>2
    <3> QED BY <1>1, <3>1, <3>3, <3>4 DEF Unread
  <2>2. CASE socks5_status = "CONN_REQ"
    <3>1. socks5_status' \in {"CONN_FAIL", "CONN_OK"}
      BY <1>2, <2>2 DEF RequestResult
    <3>2. socks5_status' = "CONN_OK" => Len(wire) >= 2 /\ wire[2] = "ok"
      BY <1>2, <2>2 DEF RequestResult, Second
    <3>3. socks5_status' = "CONN_OK" => granted
      BY <1>6, <2>2, <3>2 DEF Unread
    <3> QED BY <1>1, <3>1, <3>3 DEF Unread
  <2> QED BY <1>2, <2>1, <2>2
<1>10. ConnsLeft'
  BY <1>1, <1>6 DEF CInv, ConnsLeft
<1>11. FlagTypes'
  BY <1>1 DEF CInv, FlagTypes
<1> QED BY <1>7, <1>8, <1>9, <1>10, <1>11 DEF CInv

\* The answer is taken as read: the connection is closed, and another one may
\* be left to make.
LEMMA CloseCInv == ASSUME CInv, clientRead_again \/ clientRead_done PROVE CInv'
<1>1. /\ ed = "IN" /\ ed' = "" /\ conn' = "none" /\ socks5_status = "DONE" /\ isDone = 0
      /\ UNCHANGED <<asked, due, granted, opened, wire>>
  BY DEF clientRead_again, clientRead_done, CanRead, Up, proxyVars
<1>2. conn # "none" /\ ~ timer
  BY <1>1 DEF CInv, WatchedWhileOpen
<1>3. CASE clientRead_again
  <2>1. /\ nconn > 1 /\ nconn' = nconn - 1 /\ socks5_status' = "INIT"
        /\ status' \in {"trap", status} /\ isDone' = isDone
    BY <1>3 DEF clientRead_again, MoreToDo, StatusForNext
  <2>2. FlagTypes'
    <3>1. timer' = ~ Traps
      BY <1>3 DEF clientRead_again
    <3> QED BY <1>1, <3>1, Zenon DEF CInv, FlagTypes, Traps
  <2>3. DataTypes'
    <3>1. DataTypes /\ UNCHANGED <<asked, due, opened, wire>>
      BY <1>1 DEF CInv
    <3>2. wire' \in Seq(Byte) /\ due' \in Seq(Byte)
      BY <3>1, Zenon DEF DataTypes
    <3>3. nconn' \in Int /\ isDone' \in {0, 1} /\ opened' \in Nat
      <4>1. nconn \in Int /\ isDone \in {0, 1} /\ opened \in Nat
        BY <3>1 DEF DataTypes
      <4> QED BY <2>1, <3>1, <4>1
    <3>4. /\ asked' \in {"nothing", "method", "connect", "message"}
          /\ status' \in {"up", "exit", "sigpipe", "trap"}
      BY <2>1, <3>1 DEF DataTypes
    <3> QED BY <1>1, <2>1, <3>2, <3>3, <3>4 DEF DataTypes
  <2>4. WatchedWhileOpen'
    BY <1>1, <2>1 DEF WatchedWhileOpen
  <2>5. ConnsLeft'
    <3>1. conn # "none" /\ conn' = "none" /\ isDone = 0 /\ opened' = opened
      BY <1>1, <1>2
    <3>2. ConnsLeft /\ nconn \in Int /\ opened \in Nat /\ NConn \in Int
      BY ArgsAccepted DEF CInv, DataTypes, checkClientArgs
    <3> QED BY <2>1, <3>1, <3>2 DEF ConnsLeft
  <2> QED BY <1>1, <2>2, <2>3, <2>4, <2>5 DEF CInv
<1>4. CASE clientRead_done
  <2>1. ~ (nconn > 1) /\ isDone' = 1 /\ UNCHANGED <<socks5_status, nconn, timer, status>>
    BY <1>4 DEF clientRead_done, MoreToDo
  <2>2. DataTypes'
    BY <1>1, <2>1 DEF CInv, DataTypes
  <2>3. WatchedWhileOpen'
    BY <1>1, <1>2, <2>1 DEF WatchedWhileOpen
  <2>4. ConnsLeft'
    <3>1. conn # "none" /\ conn' = "none" /\ opened' = opened
      BY <1>1, <1>2
    <3>2. ConnsLeft /\ nconn \in Int /\ opened \in Nat /\ NConn \in Int
      BY ArgsAccepted DEF CInv, DataTypes, checkClientArgs
    <3> QED BY <2>1, <3>1, <3>2 DEF ConnsLeft
  <2>5. FlagTypes'
    BY <1>1, <2>1 DEF CInv, FlagTypes
  <2> QED BY <1>1, <2>2, <2>3, <2>4, <2>5 DEF CInv
<1> QED BY <1>3, <1>4

\* The sleep is over: a new connection, or none if connect fails at once.
LEMMA WakeupCInv == ASSUME CInv, wakeupClient \/ wakeupClient_fails PROVE CInv'
<1>1. timer /\ timer' = FALSE /\ isDone = 0 /\ UNCHANGED <<socks5_status, nconn, isDone, status>>
  BY DEF wakeupClient, wakeupClient_fails, Up
<1>2. conn = "none" /\ socks5_status = "INIT"
  BY <1>1 DEF CInv, WatchedWhileOpen
<1>3. CASE wakeupClient
  <2>1. /\ conn' = "connecting" /\ ed' = "OUT"
        /\ wire' = <<>> /\ asked' = "nothing" /\ due' = <<>>
        /\ opened' = opened + 1 /\ granted' = FALSE
    BY <1>3 DEF wakeupClient, startClient
  <2>2. DataTypes'
    <3>1. UNCHANGED <<socks5_status, nconn, isDone, status>>
      BY <1>1
    <3>2. DataTypes
      BY DEF CInv
    <3>3. wire' \in Seq(Byte) /\ due' \in Seq(Byte)
      BY <2>1
    <3>4. opened' \in Nat
      <4>1. opened \in Nat
        BY <3>2 DEF DataTypes
      <4> QED BY <2>1, <4>1
    <3>5. nconn' \in Int /\ isDone' \in {0, 1} /\ status' \in {"up", "exit", "sigpipe", "trap"}
      BY <3>1, <3>2 DEF DataTypes
    <3> QED BY <1>2, <2>1, <3>1, <3>3, <3>4, <3>5 DEF DataTypes
  <2>3. WatchedWhileOpen' /\ Unread'
    BY <1>1, <1>2, <2>1 DEF WatchedWhileOpen, Unread
  <2>4. ConnsLeft'
    <3>1. /\ conn = "none" /\ isDone = 0 /\ UNCHANGED <<nconn, isDone>>
          /\ conn' = "connecting" /\ opened' = opened + 1
      BY <1>1, <1>2, <2>1
    <3>2. ConnsLeft /\ nconn \in Int /\ opened \in Nat /\ NConn \in Int
      BY ArgsAccepted DEF CInv, DataTypes, checkClientArgs
    <3> QED BY <3>1, <3>2 DEF ConnsLeft
  <2>5. FlagTypes'
    BY <1>1, <2>1 DEF FlagTypes
  <2> QED BY <2>2, <2>3, <2>4, <2>5 DEF CInv
<1>4. CASE wakeupClient_fails
  <2>1. UNCHANGED <<asked, due, granted, ed, opened, conn, wire>>
    BY <1>4 DEF wakeupClient_fails, proxyVars
  <2>2. FlagTypes'
    BY <1>1, <2>1 DEF CInv, FlagTypes
  <2>3. DataTypes' /\ WatchedWhileOpen' /\ ConnsLeft'
    BY <1>1, <1>2, <2>1 DEF CInv, DataTypes, WatchedWhileOpen, ConnsLeft
  <2> QED BY <1>2, <2>1, <2>2, <2>3 DEF CInv
<1> QED BY <1>3, <1>4

\* The process ends.
LEMMA ExitCInv == ASSUME CInv, clientWrite_exit \/ clientWrite_sigpipe PROVE CInv'
<1>1. /\ status' \in {"exit", "sigpipe"}
      /\ UNCHANGED <<asked, due, granted, socks5_status, nconn, isDone, ed, timer, opened, conn,
                     wire>>
  BY DEF clientWrite_exit, clientWrite_sigpipe, proxyVars
<1>2. FlagTypes'
  BY <1>1 DEF CInv, FlagTypes
<1>3. DataTypes' /\ WatchedWhileOpen' /\ ConnsLeft'
  <2>1. DataTypes /\ WatchedWhileOpen /\ ConnsLeft
    BY DEF CInv
  <2>2. status' \in {"up", "exit", "sigpipe", "trap"}
    BY <1>1
  <2>3. DataTypes'
    BY <1>1, <2>1, <2>2, Zenon DEF DataTypes
  <2>4. WatchedWhileOpen'
    BY <1>1, <2>1, Zenon DEF WatchedWhileOpen
  <2>5. ConnsLeft'
    BY <1>1, <2>1 DEF ConnsLeft
  <2> QED BY <2>3, <2>4, <2>5
<1>4. conn' # "none" => Unread'
  BY <1>1 DEF CInv, Unread, SecondUnread
<1> QED BY <1>2, <1>3, <1>4 DEF CInv

\* A connection is answered, or ended by the far end.
LEMMA ConnCInv ==
    ASSUME CInv, NEW c,
           \/ AnswerConnect(c) /\ c \in {"open", "refused"}
           \/ Hangup(c) /\ c \in {"closed", "aborted"}
    PROVE  CInv'
<1>1. /\ conn \in {"connecting", "open"} /\ conn' = c
      /\ c \in {"open", "refused", "closed", "aborted"}
      /\ c = "open" => conn = "connecting"
      /\ UNCHANGED <<asked, due, granted, socks5_status, nconn, isDone, ed, timer, opened,
                     status, wire>>
  BY DEF AnswerConnect, Hangup, clientVars, proxyVars
<1>2. DataTypes'
  <2>1. conn' \in {"none", "connecting", "open", "closed", "aborted", "refused", "reset"}
    BY <1>1
  <2> QED BY <1>1, <2>1, Zenon DEF CInv, DataTypes
<1>3. WatchedWhileOpen'
  BY <1>1 DEF CInv, WatchedWhileOpen
<1>4. Unread'
  <2>1. Unread /\ (conn = "connecting" => socks5_status = "INIT")
    BY <1>1 DEF CInv, WatchedWhileOpen
  <2>2. c = "open" => socks5_status = "INIT"
    BY <1>1, <2>1
  <2> QED BY <1>1, <2>1, <2>2 DEF Unread, SecondUnread
<1>5. ConnsLeft'
  BY <1>1 DEF CInv, ConnsLeft
<1>6. FlagTypes'
  BY <1>1 DEF CInv, FlagTypes
<1> QED BY <1>2, <1>3, <1>4, <1>5, <1>6 DEF CInv

\* Bytes of a reply join what is under way, behind it.
LEMMA AppendIs ==
    ASSUME NEW s \in Seq(Byte), NEW r \in Seq(Byte)
    PROVE  /\ s \o r \in Seq(Byte)
           /\ Len(s \o r) = Len(s) + Len(r)
           /\ \A i \in 1 .. Len(s) : (s \o r)[i] = s[i]
           /\ \A i \in 1 .. Len(r) : (s \o r)[Len(s) + i] = r[i]
           /\ Len(s) \in Nat /\ Len(r) \in Nat
  OBVIOUS

\* The proxy answers what it was asked.
LEMMA ReplyCInv == ASSUME CInv, Reply PROVE CInv'
<1>1. /\ conn = "open" /\ asked # "nothing" /\ asked' = "nothing"
      /\ UNCHANGED <<socks5_status, nconn, isDone, ed, timer, status, opened, conn, wire>>
  BY DEF Reply, clientVars
<1>2. PICK r \in Replies[asked] :
         due' = due \o r /\ granted' = (granted \/ r = <<"ver", "ok", "rest">>)
  BY DEF Reply
<1>3. DataTypes /\ WatchedWhileOpen /\ Unread /\ ConnsLeft /\ FlagTypes
  BY <1>1 DEF CInv
<1>4. asked \in {"method", "connect", "message"}
  BY <1>1, <1>3 DEF DataTypes
<1>5. /\ asked = "method" => r \in {<<"ver", "ok">>, <<"ver", "none">>}
      /\ asked = "connect" => r \in {<<"ver", "ok", "rest">>, <<"ver", "err", "rest">>}
      /\ asked = "message" => r \in {<<"data">>}
  BY <1>2 DEF Replies
<1>6. wire \in Seq(Byte) /\ due \in Seq(Byte)
  BY <1>3 DEF DataTypes
<1>7. r \in Seq(Byte)
  <2>1. /\ <<"ver", "ok">> \in Seq(Byte) /\ <<"ver", "none">> \in Seq(Byte)
        /\ <<"data">> \in Seq(Byte)
    BY DEF Byte
  <2>2. <<"ver", "ok", "rest">> \in Seq(Byte) /\ <<"ver", "err", "rest">> \in Seq(Byte)
    BY DEF Byte
  <2> QED BY <1>4, <1>5, <2>1, <2>2, Zenon
<1>8. due' \in Seq(Byte)
  BY <1>2, <1>6, <1>7, AppendIs
<1>9. Len(wire) \in Nat /\ Len(due) \in Nat /\ Len(due') = Len(due) + Len(r)
  BY <1>2, <1>6, <1>7, AppendIs
<1>10. FlagTypes'
  BY <1>1, <1>2, <1>3, Zenon DEF FlagTypes
<1>11. DataTypes'
  <2>1. wire' \in Seq(Byte)
    BY <1>1, <1>6
  <2> QED BY <1>1, <1>3, <1>8, <2>1 DEF DataTypes
<1>12. WatchedWhileOpen'
  BY <1>1, <1>3 DEF WatchedWhileOpen
<1>13. ConnsLeft'
  BY <1>1, <1>3 DEF ConnsLeft
<1>14. granted => granted'
  BY <1>2
<1>15. Unread'
  <2>1. CASE socks5_status = "NEG_REQ"
    <3>1. asked = "method" /\ wire = <<>> /\ due = <<>>
      BY <1>1, <1>3, <2>1 DEF Unread
    <3>2. Len(r) = 2
      BY <1>5, <3>1
    <3>3. Len(wire) = 0 /\ Len(due) = 0
      BY <3>1
    <3>4. Len(wire) + Len(due') <= 2
      BY <1>9, <3>2, <3>3
    <3> QED BY <1>1, <2>1, <3>4 DEF Unread
  <2>2. CASE socks5_status = "CONN_REQ"
    <3>1. asked = "connect" /\ Len(wire) + Len(due) <= 1
      BY <1>1, <1>3, <2>2 DEF Unread
    <3>2. Len(r) = 3 /\ r[1] = "ver" /\ (r[2] = "ok" => r = <<"ver", "ok", "rest">>)
      BY <1>5, <3>1
    <3>3. r[2] = "ok" => granted'
      BY <1>2, <3>2
    <3>4. SecondUnread' = due'[2 - Len(wire)]
      BY <1>1, <1>9, <3>1 DEF SecondUnread
    <3>5. due'[Len(due) + 1] = r[1] /\ due'[Len(due) + 2] = r[2]
      BY <1>2, <1>6, <1>7, <3>2, AppendIs
    <3>6. 2 - Len(wire) \in {Len(due) + 1, Len(due) + 2}
      BY <1>9, <3>1
    <3>7. SecondUnread' \in {r[1], r[2]}
      BY <3>4, <3>5, <3>6
    <3>8. SecondUnread' = "ok" => granted'
      BY <3>2, <3>3, <3>7
    <3>9. ~ (Len(wire) >= 2)
      BY <1>9, <3>1
    <3> QED BY <1>1, <2>2, <3>8, <3>9 DEF Unread
  <2>3. CASE socks5_status \in {"CONN_OK", "DONE"}
    BY <1>1, <1>3, <1>14, <2>3 DEF Unread
  <2>4. CASE socks5_status \in {"NEG_FAIL", "CONN_FAIL"}
    BY <1>1, <2>4 DEF Unread
  <2>5. socks5_status \notin {"INIT", "NEG_OK"}
    BY <1>1, <1>3 DEF Unread
  <2> QED BY <1>3, <2>1, <2>2, <2>3, <2>4, <2>5 DEF DataTypes
<1> QED BY <1>10, <1>11, <1>12, <1>13, <1>15 DEF CInv

\* Bytes that arrive move from what is under way to the end of what can be read.
LEMMA ArriveIs ==
    ASSUME NEW w \in Seq(Byte), NEW d \in Seq(Byte), NEW n \in 1 .. Len(d)
    PROVE  LET w2 == w \o SubSeq(d, 1, n)
               d2 == SubSeq(d, n + 1, Len(d))
           IN  /\ w2 \in Seq(Byte) /\ d2 \in Seq(Byte)
               /\ Len(w2) = Len(w) + n /\ Len(d2) = Len(d) - n
               /\ \A i \in 1 .. Len(w) : w2[i] = w[i]
               /\ \A i \in 1 .. n : w2[Len(w) + i] = d[i]
               /\ \A i \in 1 .. Len(d) - n : d2[i] = d[n + i]
               /\ Len(w) \in Nat /\ Len(d) \in Nat
<1> DEFINE p == SubSeq(d, 1, n)
<1>1. p \in Seq(Byte) /\ Len(p) = n /\ \A i \in 1 .. n : p[i] = d[i]
  OBVIOUS
<1>2. LET d2 == SubSeq(d, n + 1, Len(d))
      IN  /\ d2 \in Seq(Byte) /\ Len(d2) = Len(d) - n
          /\ \A i \in 1 .. Len(d) - n : d2[i] = d[n + i]
  OBVIOUS
<1>3. Len(w) \in Nat /\ Len(d) \in Nat
  OBVIOUS
<1> HIDE DEF p
<1>4. /\ w \o p \in Seq(Byte) /\ Len(w \o p) = Len(w) + Len(p)
      /\ \A i \in 1 .. Len(w) : (w \o p)[i] = w[i]
      /\ \A i \in 1 .. Len(p) : (w \o p)[Len(w) + i] = p[i]
  BY <1>1, AppendIs
<1> QED BY <1>1, <1>2, <1>3, <1>4 DEF p

\* The second byte unread is the same one before and after it arrives.
LEMMA ArriveCInv == ASSUME CInv, NEW n, Arrive(n) PROVE CInv'
<1>1. /\ conn = "open" /\ n \in 1 .. Len(due)
      /\ wire' = wire \o SubSeq(due, 1, n) /\ due' = SubSeq(due, n + 1, Len(due))
      /\ UNCHANGED <<socks5_status, nconn, isDone, ed, timer, status, opened, conn, asked,
                     granted>>
  BY DEF Arrive, clientVars
<1>2. DataTypes /\ WatchedWhileOpen /\ Unread /\ ConnsLeft /\ FlagTypes
  BY <1>1 DEF CInv
<1>3. wire \in Seq(Byte) /\ due \in Seq(Byte)
  BY <1>2 DEF DataTypes
<1>4. /\ wire' \in Seq(Byte) /\ due' \in Seq(Byte)
      /\ Len(wire') = Len(wire) + n /\ Len(due') = Len(due) - n
      /\ \A i \in 1 .. Len(wire) : wire'[i] = wire[i]
      /\ \A i \in 1 .. n : wire'[Len(wire) + i] = due[i]
      /\ \A i \in 1 .. Len(due) - n : due'[i] = due[n + i]
      /\ Len(wire) \in Nat /\ Len(due) \in Nat
  BY <1>1, <1>3, ArriveIs
<1>5. PICK a \in Nat, b \in Nat, a2 \in Int, b2 \in Int :
         /\ a = Len(wire) /\ b = Len(due) /\ a2 = Len(wire') /\ b2 = Len(due')
         /\ a2 = a + n /\ b2 = b - n /\ n \in 1 .. b
  BY <1>1, <1>4
<1>6. a2 + b2 = a + b /\ b >= 1 /\ b2 >= 0 /\ a2 >= 1
  BY <1>5
<1>7. FlagTypes'
  BY <1>1, <1>2, Zenon DEF FlagTypes
<1>8. DataTypes'
  BY <1>1, <1>2, <1>4 DEF DataTypes
<1>9. WatchedWhileOpen'
  BY <1>1, <1>2 DEF WatchedWhileOpen
<1>10. ConnsLeft'
  BY <1>1, <1>2 DEF ConnsLeft
<1>11. a2 + b2 >= 2 => SecondUnread' = SecondUnread
  <2> HAVE a2 + b2 >= 2
  <2>1. CASE a >= 2
    <3>1. wire'[2] = wire[2]
      BY <1>4, <1>5, <2>1
    <3> QED BY <1>5, <2>1, <3>1 DEF SecondUnread
  <2>2. CASE a < 2 /\ a2 >= 2
    <3>1. 2 - a \in 1 .. n /\ a + (2 - a) = 2
      BY <1>5, <2>2
    <3>2. wire'[Len(wire) + (2 - a)] = due[2 - a]
      BY <1>4, <3>1
    <3>3. wire'[2] = due[2 - a]
      BY <1>5, <3>1, <3>2
    <3> QED BY <1>5, <2>2, <3>3 DEF SecondUnread
  <2>3. CASE a2 < 2
    <3>1. a < 2 /\ 2 - a2 \in 1 .. b - n /\ n + (2 - a2) = 2 - a
      BY <1>5, <1>6, <2>3
    <3>2. due'[2 - a2] = due[n + (2 - a2)]
      BY <1>4, <1>5, <3>1
    <3>3. due'[2 - a2] = due[2 - a]
      BY <3>1, <3>2
    <3> QED BY <1>5, <2>3, <3>1, <3>3 DEF SecondUnread
  <2> QED BY <1>5, <2>1, <2>2, <2>3
<1>12. Unread'
  <2>1. CASE socks5_status = "NEG_REQ"
    <3>1. Len(due) = 0 => FALSE
      BY <1>5, <1>6
    <3>2. a + b <= 2 /\ asked = "nothing"
      BY <1>2, <1>5, <2>1, <3>1 DEF Unread
    <3>3. Len(wire') + Len(due') <= 2
      BY <1>5, <1>6, <3>2
    <3> QED BY <1>1, <2>1, <3>2, <3>3 DEF Unread
  <2>2. CASE socks5_status = "NEG_OK"
    <3>1. a + b <= 1 /\ asked = "nothing"
      BY <1>1, <1>2, <1>5, <2>2 DEF Unread
    <3>2. Len(wire') <= 1 /\ Len(wire') + Len(due') <= 1
      BY <1>5, <1>6, <3>1
    <3> QED BY <1>1, <2>2, <3>1, <3>2 DEF Unread
  <2>3. CASE socks5_status = "CONN_REQ"
    <3>1. CASE asked = "connect"
      <4>1. a + b <= 1
        BY <1>1, <1>2, <1>5, <2>3, <3>1 DEF Unread
      <4>2. Len(wire') + Len(due') <= 1 /\ ~ (Len(wire') >= 2)
        BY <1>5, <1>6, <4>1
      <4> QED BY <1>1, <2>3, <3>1, <4>2 DEF Unread
    <3>2. CASE asked # "connect"
      <4>1. asked = "nothing" /\ (a + b >= 2 /\ SecondUnread = "ok" => granted)
        BY <1>1, <1>2, <1>5, <2>3, <3>2 DEF Unread
      <4>2. a2 + b2 >= 2 /\ SecondUnread' = "ok" => granted
        BY <1>6, <1>11, <4>1
      <4>3. a2 >= 2 /\ wire'[2] = "ok" => granted
        BY <1>5, <1>6, <4>2 DEF SecondUnread
      <4> QED BY <1>1, <1>5, <2>3, <3>2, <4>1, <4>2, <4>3 DEF Unread
    <3> QED BY <3>1, <3>2
  <2>4. CASE socks5_status \in {"CONN_OK", "DONE"}
    BY <1>1, <1>2, <2>4 DEF Unread
  <2>5. CASE socks5_status \in {"NEG_FAIL", "CONN_FAIL"}
    BY <1>1, <2>5 DEF Unread
  <2>6. socks5_status # "INIT"
    <3>1. Len(due) = 0 => FALSE
      BY <1>5, <1>6
    <3> QED BY <1>2, <3>1 DEF Unread
  <2> QED BY <1>2, <2>1, <2>2, <2>3, <2>4, <2>5, <2>6 DEF DataTypes
<1> QED BY <1>7, <1>8, <1>9, <1>10, <1>12 DEF CInv

-----------------------------------------------------------------------------
\* Every step, one case for each action.
LEMMA NextCInv == CInv /\ [Next]_vars => CInv'
<1> SUFFICES ASSUME CInv, [Next]_vars PROVE CInv'
  OBVIOUS
<1>1. CASE clientWrite
  BY <1>1, WriteCInv
<1>2. CASE clientWrite_sigpipe \/ clientWrite_exit
  BY <1>2, ExitCInv
<1>3. CASE clientRead_reply
  BY <1>3, ReplyReadCInv
<1>4. CASE clientRead_again \/ clientRead_done
  BY <1>4, CloseCInv
<1>5. CASE wakeupClient \/ wakeupClient_fails
  BY <1>5, WakeupCInv
<1>6. CASE \E ans \in {"open", "refused"} : AnswerConnect(ans)
  <2>1. PICK ans \in {"open", "refused"} : AnswerConnect(ans)
    BY <1>6
  <2> QED BY <2>1, ConnCInv
<1>7. CASE \E how \in {"closed", "aborted"} : Hangup(how)
  <2>1. PICK how \in {"closed", "aborted"} : Hangup(how)
    BY <1>7
  <2> QED BY <2>1, ConnCInv
<1>8. CASE Reply
  BY <1>8, ReplyCInv
<1>9. CASE \E n \in 1 .. Len(due) : Arrive(n)
  BY <1>9, ArriveCInv
<1>10. CASE UNCHANGED vars
  <2>1. /\ socks5_status' = socks5_status /\ nconn' = nconn /\ isDone' = isDone /\ ed' = ed
        /\ timer' = timer /\ status' = status /\ conn' = conn /\ wire' = wire
        /\ asked' = asked /\ due' = due /\ opened' = opened /\ granted' = granted
    BY <1>10 DEF vars
  <2>2. DataTypes' /\ FlagTypes'
    <3>1. DataTypes /\ FlagTypes
      BY DEF CInv
    <3>2. DataTypes'
      <4>1. /\ socks5_status' \in {"INIT", "NEG_REQ", "NEG_OK", "NEG_FAIL", "CONN_REQ", "CONN_OK",
                                 "CONN_FAIL", "DONE"}
            /\ ed' \in {"", "IN", "OUT"} /\ status' \in {"up", "exit", "sigpipe", "trap"}
            /\ conn' \in {"none", "connecting", "open", "closed", "aborted", "refused", "reset"}
            /\ asked' \in {"nothing", "method", "connect", "message"}
        BY <2>1, <3>1, Zenon DEF DataTypes
      <4>2. nconn' \in Int /\ isDone' \in {0, 1} /\ opened' \in Nat
        BY <2>1, <3>1, Zenon DEF DataTypes
      <4>3. wire' \in Seq(Byte) /\ due' \in Seq(Byte)
        BY <2>1, <3>1, Zenon DEF DataTypes
      <4> QED BY <4>1, <4>2, <4>3, Zenon DEF DataTypes
    <3>3. FlagTypes'
      BY <2>1, <3>1, Zenon DEF FlagTypes
    <3> QED BY <3>2, <3>3
  <2>3. WatchedWhileOpen' /\ ConnsLeft'
    BY <2>1 DEF CInv, WatchedWhileOpen, ConnsLeft
  <2>4. conn' # "none" => Unread'
    BY <2>1 DEF CInv, Unread, SecondUnread
  <2> QED BY <2>2, <2>3, <2>4 DEF CInv
<1> QED BY <1>1, <1>2, <1>3, <1>4, <1>5, <1>6, <1>7, <1>8, <1>9, <1>10
        DEF Next, Client, Proxy

\* The invariant holds of every behaviour.
LEMMA SpecCInv == Spec => []CInv
  BY InitCInv, NextCInv, PTL DEF Spec

\* Every variable keeps its type: no read or write takes the client to a status
\* the switch of _simpletcp_activateClient does not know.
THEOREM ClientTypeCorrect == Spec => []TypeOK
<1>1. CInv => TypeOK
  BY DEF CInv, DataTypes, FlagTypes, TypeOK, Byte
<1> QED BY <1>1, SpecCInv, PTL

\* The hostname is sent only on a connection whose CONNECT the proxy granted,
\* in whatever pieces the two replies arrive.
THEOREM GrantedBeforeMessage == Spec => []MessageOnlyWhenGranted
<1>1. CInv => MessageOnlyWhenGranted
  BY DEF CInv, Unread, MessageOnlyWhenGranted
<1> QED BY <1>1, SpecCInv, PTL

\* The client makes NConn connections, or one when NConn is not positive, and is
\* done only after the last of them.
THEOREM MakesNConn == Spec => []MadeNConn
<1>1. ASSUME CInv PROVE MadeNConn
  <2>1. ConnsLeft /\ nconn \in Int /\ opened \in Nat /\ NConn \in Int /\ isDone \in {0, 1}
    BY <1>1, ArgsAccepted DEF CInv, DataTypes, checkClientArgs
  <2> QED BY <2>1 DEF ConnsLeft, MadeNConn
<1> QED BY <1>1, SpecCInv, PTL
=============================================================================
