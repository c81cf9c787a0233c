------------------------------ MODULE SimpleTCP ------------------------------
(***************************************************************************)
(* A simpletcp client and a simpletcp server with what lies between them:  *)
(* a SOCKS5 proxy, Tor, and whoever else relays (all external). The i-th   *)
(* connection of the client is connection i of the server.                 *)
(*                                                                         *)
(* SimpleTCPClient and SimpleTCPServer each have an environment that does  *)
(* what it likes. Here the two are joined: the relay connects to the       *)
(* server when the client asks for it, passes on the hostname the client   *)
(* wrote and the answer the server wrote, and closes after the client did. *)
(* Whatever goes wrong on the way is a fault, and faults are counted.      *)
(***************************************************************************)
EXTENDS Integers, Sequences

CONSTANTS NConn, SleepMin, SleepMax,   \* arguments of the client
          Fd, MaxTime,                 \* of SimpleTCPServer
          MaxFaults,                   \* bound on what goes wrong
          NULL

Conn == 1 .. NConn

\* What either program assumes of its arguments. A client that is told to make
\* no connection makes one, as if it had been told so; then NConn is 1.
ASSUME JoinedAssumption ==
    /\ NConn \in Nat \ {0}
    /\ SleepMin \in Nat /\ SleepMax \in Nat /\ SleepMin <= SleepMax
    /\ Fd \subseteq Nat /\ MaxTime \in Nat /\ MaxFaults \in Nat
    /\ NULL \notin Nat

VARIABLES
  socks5_status, nconn, isDone, ced, timer, cstatus, conn, cwire,   \* client
  asked, due, opened, granted,
  hashtab, sed, log, sstatus, owner, backlog, state, swire,         \* server
  unsent, clock, since,
  hosts,     \* relay: connections on which it was given the hostname
  answers,   \* relay: connections on which the server has answered
  faults     \* what went wrong so far

clientVars == <<socks5_status, nconn, isDone, ced, timer, cstatus, conn, cwire,
                asked, due, opened, granted>>
serverVars == <<hashtab, sed, log, sstatus, owner, backlog, state, swire,
                unsent, clock, since>>
vars == <<clientVars, serverVars, hosts, answers, faults>>

C == INSTANCE SimpleTCPClient WITH ed <- ced, status <- cstatus, wire <- cwire
S == INSTANCE SimpleTCPServer WITH ed <- sed, status <- sstatus, wire <- swire

Init == C!Init /\ S!Init /\ hosts = {} /\ answers = {} /\ faults = 0

\* One more thing goes wrong if bad holds.
Fault(bad) == faults' = faults + (IF bad THEN 1 ELSE 0) /\ faults' <= MaxFaults

-----------------------------------------------------------------------------
(* The two programs. Inside of Shadow there are no signals. *)

ClientEvent ==
    /\ \/ C!clientWrite \/ C!clientWrite_exit
       \/ C!clientRead_reply \/ C!clientRead_again \/ C!clientRead_done
    /\ hosts' = IF asked' = "message" THEN hosts \cup {opened} ELSE hosts
    /\ UNCHANGED <<serverVars, answers, faults>>

Wakeup ==
    /\ \/ C!wakeupClient /\ UNCHANGED faults
       \/ C!wakeupClient_fails /\ Fault(TRUE)
    /\ UNCHANGED <<serverVars, hosts, answers>>

ServerRead(sd) ==
    /\ S!serverRead(sd) \/ S!serverRead_end(sd)
    /\ UNCHANGED <<clientVars, hosts, answers, faults>>

ServerWrite(sd) ==
    /\ S!serverWrite(sd)
    /\ answers' = IF S!Ended(owner[sd]) THEN answers ELSE answers \cup {owner[sd]}
    /\ UNCHANGED <<clientVars, hosts, faults>>

ServerAccept == S!activateServer_accept /\ UNCHANGED <<clientVars, hosts, answers, faults>>
ServerNofd   == S!activateServer_nofd /\ UNCHANGED <<clientVars, hosts, answers, faults>>
Tick         == S!Tick /\ UNCHANGED <<clientVars, hosts, answers, faults>>

-----------------------------------------------------------------------------
(* The relay, towards the client. *)

RelayUnchanged == UNCHANGED <<serverVars, hosts, answers>>

Accept(ans) == C!AnswerConnect(ans) /\ Fault(ans = "refused") /\ RelayUnchanged

ReplyMethod ==
    /\ asked = "method" /\ C!Reply
    /\ Fault(due' = <<"ver", "none">>)
    /\ RelayUnchanged

\* A CONNECT is granted once the server has been reached.
ReplyConnect ==
    /\ asked = "connect" /\ C!Reply
    /\ granted' = (state[opened] # "none")
    /\ Fault(~ granted')
    /\ RelayUnchanged

ReplyMessage ==
    /\ asked = "message" /\ opened \in answers /\ C!Reply
    /\ Fault(FALSE) /\ RelayUnchanged

\* A reply that arrives in pieces counts as a fault.
Deliver(n) == C!Arrive(n) /\ Fault(n < Len(due)) /\ RelayUnchanged

Hangup(how) == C!Hangup(how) /\ Fault(TRUE) /\ RelayUnchanged

\* The server's side is gone: so is the client's.
Follow == S!Ended(opened) /\ C!Hangup("closed") /\ Fault(FALSE) /\ RelayUnchanged

-----------------------------------------------------------------------------
(* The relay, towards the server. *)

Open ==
    /\ asked = "connect" /\ conn = "open"
    /\ S!Connect(opened)
    /\ UNCHANGED <<clientVars, hosts, answers, faults>>

\* The hostname, or a piece of it, is passed on; to cut it is a fault.
Forward(c, n) ==
    /\ c \in hosts
    /\ S!PeerSend(c, n)
    /\ Fault(n < Len(unsent[c]))
    /\ UNCHANGED <<clientVars, hosts, answers>>

\* The client's side of connection c is over.
Over(c) == c < opened \/ conn # "open" \/ isDone = 1 \/ cstatus # "up"

Close(c) ==
    /\ Over(c) /\ (c \in hosts => unsent[c] = <<>>)
    /\ S!PeerClose(c, "closed")
    /\ UNCHANGED <<clientVars, hosts, answers, faults>>

Break(c, how) == S!PeerClose(c, how) /\ Fault(TRUE) /\ UNCHANGED <<clientVars, hosts, answers>>

-----------------------------------------------------------------------------
Client == ClientEvent \/ Wakeup

Server == ServerAccept \/ \E sd \in Fd : ServerRead(sd) \/ ServerWrite(sd)

\* What the relay does of itself. Only Deliver and Forward may be at fault.
Relay ==
    \/ \E ans \in {"open", "refused"} : Accept(ans)
    \/ ReplyMethod \/ ReplyConnect \/ ReplyMessage
    \/ \E n \in 1 .. Len(due) : Deliver(n)
    \/ Follow \/ Open
    \/ \E c \in Conn, n \in 1 .. 2 : Forward(c, n)
    \/ \E c \in Conn : Close(c)

Failure ==
    \/ \E how \in {"closed", "aborted"} : Hangup(how)
    \/ \E c \in Conn, how \in {"closed", "aborted"} : Break(c, how)

Next == Client \/ Server \/ Relay \/ Failure \/ ServerNofd \/ Tick

Spec == Init /\ [][Next]_vars

\* Each program handles what is ready, and the relay passes on what it has.
FairSpec == Spec /\ WF_vars(Client) /\ WF_vars(Server) /\ WF_vars(Relay)

-----------------------------------------------------------------------------
\* Connection c was made and closed by the client.
Finished(c) == c < opened \/ (c = opened /\ conn = "none")

\* The server's log is the ground truth. Unless something went wrong on the
\* way, each connection has one line in it by the time the client has closed
\* it, with the whole hostname, and never another one: what the client takes
\* as the answer, which is whatever is readable, is the answer.
OneLineEach ==
    faults = 0 => \A c \in Conn :
        /\ Finished(c) => log[c] # <<>>
        /\ log[c] # <<>> => Len(log[c]) = 1 /\ log[c][1].host = S!Hostname

\* Unless something goes wrong the client comes to its end, with a line for
\* each of the connections it was asked to make.
AllMade == <>(faults > 0 \/ (isDone = 1 /\ \A c \in Conn : log[c] # <<>>))

\* Whatever goes wrong, the client stops, and in the end the server holds no
\* connection and has none left to accept, though it has no timeout of its own.
Drained == <>[](backlog = <<>> /\ \A sd \in Fd : owner[sd] = NULL)
=============================================================================
