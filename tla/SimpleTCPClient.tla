--------------------------- MODULE SimpleTCPClient ---------------------------
(***************************************************************************)
(* The client of src/simpletcp/simpletcp.c: it connects to a SOCKS5 proxy, *)
(* negotiates, asks for the server, sends its hostname, takes whatever it  *)
(* can read next as the answer, closes, sleeps and connects again, nconn   *)
(* times. There is explicitly no resilience in it: a step that fails ends  *)
(* the process at the next event.                                          *)
(*                                                                         *)
(* The proxy is the environment. What it sends is a stream of bytes that   *)
(* may arrive in pieces: "ver", then "ok" (0x00), "err" (another code) or  *)
(* "none" (0xff), then "rest" (the other 8 bytes of a reply to CONNECT).   *)
(***************************************************************************)
EXTENDS Integers, Sequences

CONSTANTS NConn,      \* the argument nConn
          SleepMin,   \* the argument sleep_min, 0 when it is not given
          SleepMax    \* the argument sleep_max

\* _simpletcp_checkClientArgs, without which simpletcp_new returns NULL.
checkClientArgs ==
    /\ NConn \in Int
    /\ SleepMin \in Nat /\ SleepMax \in Nat
    /\ SleepMin <= SleepMax

ASSUME ArgsAccepted == checkClientArgs

VARIABLES
  socks5_status,
  nconn,    \* connections left, the current one included
  isDone,
  ed,       \* the event sd is registered for, "" when it is not
  timer,    \* a callback is pending (createCallback)
  status,   \* "up", or how the process ended
  conn,     \* kernel: the state of sd
  wire,     \* kernel: bytes from the proxy that were not read
  asked,    \* the request the proxy has not answered yet
  due,      \* bytes of its answers that are under way
  opened,   \* history: connections that were started
  granted   \* history: the proxy has granted this connection's CONNECT

clientVars == <<socks5_status, nconn, isDone, ed, timer, status, opened>>
proxyVars  == <<asked, due, granted>>
vars == <<socks5_status, nconn, isDone, ed, timer, status, conn, wire, asked, due,
          opened, granted>>

Up == status = "up" /\ isDone = 0

-----------------------------------------------------------------------------
\* simpletcp_new: a startClient that fails here ends the program at once.
Init ==
    /\ socks5_status = "INIT"
    /\ nconn = NConn
    /\ isDone = 0
    /\ ed = "OUT"
    /\ timer = FALSE
    /\ status = "up"
    /\ conn = "connecting"
    /\ wire = <<>>
    /\ asked = "nothing"
    /\ due = <<>>
    /\ opened = 1
    /\ granted = FALSE

\* _simpletcp_startClient, once connect succeeds or is in progress.
startClient ==
    /\ conn' = "connecting"
    /\ ed' = "OUT"
    /\ wire' = <<>> /\ asked' = "nothing" /\ due' = <<>>
    /\ opened' = opened + 1 /\ granted' = FALSE

\* _simpletcp_wakeupClient, called when the time to sleep is over.
wakeupClient ==
    /\ Up /\ timer
    /\ timer' = FALSE
    /\ startClient
    /\ UNCHANGED <<socks5_status, nconn, isDone, status>>

\* connect fails at once; the callback does not look at startClient's result.
wakeupClient_fails ==
    /\ Up /\ timer
    /\ timer' = FALSE
    /\ UNCHANGED <<proxyVars, socks5_status, nconn, isDone, ed, status, opened, conn, wire>>

-----------------------------------------------------------------------------
(* _simpletcp_activateClient. *)

\* The far end closed, aborted or refused the connection; "reset" once the
\* client has met the error.
Ended == conn \in {"closed", "aborted", "refused", "reset"}

CanWrite == Up /\ ed = "OUT" /\ (conn = "open" \/ Ended)
CanRead  == Up /\ ed = "IN"  /\ (wire # <<>> \/ Ended)

\* The status a write leads to, and what it asks of the proxy.
After == [INIT |-> "NEG_REQ", NEG_OK |-> "CONN_REQ", CONN_OK |-> "DONE", DONE |-> "DONE"]
Asks  == [INIT |-> "method", NEG_OK |-> "connect", CONN_OK |-> "message", DONE |-> "message"]

\* _simpletcp_clientWrite; the result of the write is not looked at.
clientWrite ==
    /\ CanWrite /\ socks5_status \in DOMAIN After
    /\ socks5_status' = After[socks5_status]
    /\ asked' = IF conn = "open" THEN Asks[socks5_status] ELSE asked
    /\ conn' = IF Ended THEN "reset" ELSE conn
    /\ ed' = "IN"
    /\ UNCHANGED <<nconn, isDone, timer, status, opened, wire, due, granted>>

\* Writing once more after the error is met raises SIGPIPE, outside of Shadow.
clientWrite_sigpipe ==
    /\ CanWrite /\ socks5_status \in DOMAIN After /\ conn = "reset"
    /\ status' = "sigpipe"
    /\ UNCHANGED <<proxyVars, socks5_status, nconn, isDone, ed, timer, opened, conn, wire>>

\* A status that failed ends the process.
clientWrite_exit ==
    /\ CanWrite /\ socks5_status \notin DOMAIN After
    /\ status' = "exit"
    /\ UNCHANGED <<proxyVars, socks5_status, nconn, isDone, ed, timer, opened, conn, wire>>

\* The second byte of the packet read fills: the one the client put there for
\* its own request, when fewer than two have come.
Second == IF Len(wire) >= 2 THEN wire[2] ELSE "own"

ReadFails == wire = <<>> /\ conn = "aborted"

\* A read that returns 0 is no failure. 0xff fails the negotiation, every code
\* but 0x00 the request.
NegotiationResult == IF ReadFails \/ Second = "none" THEN "NEG_FAIL" ELSE "NEG_OK"
RequestResult == IF ReadFails \/ Second # "ok" THEN "CONN_FAIL" ELSE "CONN_OK"

\* read takes at most n bytes of the stream.
Take(n) ==
    /\ wire' = SubSeq(wire, n + 1, Len(wire))
    /\ conn' = IF ReadFails THEN "reset" ELSE conn

\* What sd is registered for once a reply was read.
EventForNext_kept == ed
EventForNext_both == "INOUT"
EventForNext == "OUT"

\* _simpletcp_clientRead of a reply: socks5Negotation, socks5ConnRequest.
clientRead_reply ==
    /\ CanRead
    /\ \/ socks5_status = "NEG_REQ"  /\ socks5_status' = NegotiationResult /\ Take(2)
       \/ socks5_status = "CONN_REQ" /\ socks5_status' = RequestResult /\ Take(3)
    /\ ed' = EventForNext
    /\ UNCHANGED <<proxyVars, nconn, isDone, timer, status, opened>>

\* In SOCKS5_DONE: close without reading, and be done after the last connection
\* or sleep. rand() % (smax - smin) traps when both are equal and not 0.
Traps == SleepMin = SleepMax /\ SleepMin # 0

MoreToDo_offByOne == nconn > 0
MoreToDo == nconn > 1

StatusForNext_kept == socks5_status
StatusForNext == "INIT"

clientRead_again ==
    /\ CanRead /\ socks5_status = "DONE" /\ MoreToDo
    /\ conn' = "none" /\ ed' = ""
    /\ socks5_status' = StatusForNext
    /\ nconn' = nconn - 1
    /\ timer' = ~ Traps
    /\ status' = IF Traps THEN "trap" ELSE status
    /\ UNCHANGED <<proxyVars, isDone, opened, wire>>

clientRead_done ==
    /\ CanRead /\ socks5_status = "DONE" /\ ~ MoreToDo
    /\ conn' = "none" /\ ed' = ""
    /\ isDone' = 1
    /\ UNCHANGED <<proxyVars, socks5_status, nconn, timer, status, opened, wire>>

Client ==
    \/ clientWrite \/ clientWrite_sigpipe \/ clientWrite_exit
    \/ clientRead_reply \/ clientRead_again \/ clientRead_done

-----------------------------------------------------------------------------
(* The proxy and, behind it, the server. *)

\* A connection in progress is accepted or refused.
AnswerConnect(ans) ==
    /\ Up /\ conn = "connecting"
    /\ conn' = ans
    /\ UNCHANGED <<clientVars, proxyVars, wire>>

Replies ==
    [method  |-> {<<"ver", "ok">>, <<"ver", "none">>},
     connect |-> {<<"ver", "ok", "rest">>, <<"ver", "err", "rest">>},
     message |-> {<<"data">>}]

Reply ==
    /\ Up /\ conn = "open" /\ asked # "nothing"
    /\ \E r \in Replies[asked] :
         /\ due' = due \o r
         /\ granted' = (granted \/ r = <<"ver", "ok", "rest">>)
    /\ asked' = "nothing"
    /\ UNCHANGED <<clientVars, conn, wire>>

\* The first n bytes that are under way arrive.
Arrive(n) ==
    /\ Up /\ conn = "open" /\ n \in 1 .. Len(due)
    /\ wire' = wire \o SubSeq(due, 1, n)
    /\ due' = SubSeq(due, n + 1, Len(due))
    /\ UNCHANGED <<clientVars, conn, asked, granted>>

Hangup(how) ==
    /\ Up /\ conn = "open"
    /\ conn' = how
    /\ UNCHANGED <<clientVars, proxyVars, wire>>

Proxy ==
    \/ \E ans \in {"open", "refused"} : AnswerConnect(ans)
    \/ Reply
    \/ \E n \in 1 .. Len(due) : Arrive(n)
    \/ \E how \in {"closed", "aborted"} : Hangup(how)

-----------------------------------------------------------------------------
Next == Client \/ wakeupClient \/ wakeupClient_fails \/ Proxy

Spec == Init /\ [][Next]_vars

\* The main loop handles what is ready, callbacks are called, and the proxy
\* answers and delivers; it need not ever hang up.
Fairness ==
    /\ WF_vars(Client) /\ WF_vars(wakeupClient \/ wakeupClient_fails)
    /\ WF_vars(\E ans \in {"open", "refused"} : AnswerConnect(ans))
    /\ WF_vars(Reply)
    /\ WF_vars(\E n \in 1 .. Len(due) : Arrive(n))

FairSpec == Spec /\ Fairness

-----------------------------------------------------------------------------
TypeOK ==
    /\ socks5_status \in
         {"INIT", "NEG_REQ", "NEG_OK", "NEG_FAIL", "CONN_REQ", "CONN_OK", "CONN_FAIL", "DONE"}
    /\ nconn \in Int /\ isDone \in {0, 1}
    /\ ed \in {"", "IN", "OUT"} /\ timer \in BOOLEAN
    /\ status \in {"up", "exit", "sigpipe", "trap"}
    /\ conn \in {"none", "connecting", "open", "closed", "aborted", "refused", "reset"}
    /\ wire \in Seq({"ver", "ok", "err", "none", "rest", "data"})
    /\ due \in Seq({"ver", "ok", "err", "none", "rest", "data"})
    /\ asked \in {"nothing", "method", "connect", "message"}
    /\ opened \in Nat /\ granted \in BOOLEAN

\* The hostname is sent only on a connection whose CONNECT the proxy granted,
\* however its replies are cut in pieces, and not on the strength of what an
\* earlier connection was granted.
MessageOnlyWhenGranted == socks5_status = "DONE" /\ conn # "none" => granted

\* A client that is done has made as many connections as it was asked to, and
\* it never makes more.
MadeNConn ==
    LET n == IF NConn > 1 THEN NConn ELSE 1
    IN  opened <= n /\ (isDone = 1 => opened = n)

\* No descriptor is watched and no callback is pending: connecting again failed
\* at once, and nothing will ever happen to the client any more.
Stranded == Up /\ ed = "" /\ ~ timer

\* Whatever the proxy does, if it answers what it is asked, the client comes to
\* an end: done, out at the first failure, or stranded by the result of
\* startClient that wakeupClient does not look at. It never waits on a
\* descriptor for the wrong event.
Terminates == <>(~ Up \/ Stranded)
=============================================================================
