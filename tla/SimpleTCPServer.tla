--------------------------- MODULE SimpleTCPServer ---------------------------
(***************************************************************************)
(* The server of src/simpletcp/simpletcp.c: it accepts connections, keeps  *)
(* the time of each in a hash table under its descriptor, logs a line with *)
(* the client's hostname and that time for what it receives, answers, and  *)
(* closes when it reads the end. The log is the ground truth the           *)
(* correlation of the traces is compared with.                             *)
(*                                                                         *)
(* One thread runs everything; epoll is level-triggered and reports each   *)
(* descriptor at most once, so handling one event is one step. The clients *)
(* are the environment: a hostname may arrive in two pieces, and a         *)
(* connection may be closed or aborted at any moment.                      *)
(***************************************************************************)
EXTENDS Integers, Sequences

CONSTANTS Conn,     \* connections the clients make
          Fd,       \* descriptors the process may have for them
          MaxTime,  \* bound on the clock
          NULL

\* Descriptors are natural numbers: accept's -1 is none of them.
ASSUME FdAssumption ==
    /\ Fd \subseteq Nat
    /\ MaxTime \in Nat
    /\ NULL \notin Conn /\ NULL \notin Nat

VARIABLES
  hashtab,  \* the time of each connection, by descriptor
  ed,       \* the event each registered descriptor is watched for
  log,      \* the lines of the log file, by connection
  status,   \* "up", or how the process ended
  owner,    \* kernel: the connection behind each descriptor, or NULL
  backlog,  \* kernel: connections to accept
  state,    \* kernel: the state of each connection
  wire,     \* kernel: what was received on each and not read
  unsent,   \* the pieces of its hostname each client has yet to send
  clock,    \* what gettimeofday returns
  since     \* history: the time at which each connection was accepted

serverVars == <<hashtab, ed, log, status>>
peerVars   == <<state, wire, unsent>>
vars == <<hashtab, ed, log, status, owner, backlog, state, wire, unsent, clock, since>>

Hostname == <<"head", "tail">>

Up == status = "up"

-----------------------------------------------------------------------------
\* simpletcp_new in server mode: an empty log, an empty table, a socket that
\* listens and that stays registered.
Init ==
    /\ hashtab = << >>
    /\ ed = << >>
    /\ log = [c \in Conn |-> <<>>]
    /\ status = "up"
    /\ owner = [fd \in Fd |-> NULL]
    /\ backlog = <<>>
    /\ state = [c \in Conn |-> "none"]
    /\ wire = [c \in Conn |-> <<>>]
    /\ unsent = [c \in Conn |-> Hostname]
    /\ clock = 0
    /\ since = [c \in Conn |-> NULL]

Put(f, x, y) == [z \in DOMAIN f \cup {x} |-> IF z = x THEN y ELSE f[z]]
Without(f, x) == [z \in DOMAIN f \ {x} |-> f[z]]

\* EPOLL_CTL_MOD changes a descriptor that is registered and fails on others.
Watch(events, sd, ev) == IF sd \in DOMAIN events THEN Put(events, sd, ev) ELSE events

Free == {fd \in Fd : owner[fd] = NULL}
LowestFree(fd) == fd \in Free /\ \A other \in Free : fd <= other

\* A connection ended; "spent" is one whose error the server has met.
Ended(c) == state[c] \in {"closed", "aborted", "spent"}

-----------------------------------------------------------------------------
(* _simpletcp_activateServer, on the socket that listens. *)

\* The time of a new connection replaces what the table had for its descriptor.
StoreTime_unset(sd, t) == Put(hashtab, sd, NULL)
StoreTime_shared(sd, t) == [fd \in DOMAIN hashtab \cup {sd} |-> t]
StoreTime(sd, t) == Put(hashtab, sd, t)

activateServer_accept ==
    /\ Up /\ backlog # <<>>
    /\ \E sd \in Fd :
         /\ LowestFree(sd)
         /\ owner' = [owner EXCEPT ![sd] = Head(backlog)]
         /\ hashtab' = StoreTime(sd, clock)
         /\ ed' = Put(ed, sd, "IN")
    /\ backlog' = Tail(backlog)
    /\ since' = [since EXCEPT ![Head(backlog)] = clock]
    /\ UNCHANGED <<peerVars, log, status, clock>>

\* With no descriptor left accept returns -1, which becomes a key of the table
\* all the same; epoll refuses it, and the connection stays in the backlog.
activateServer_nofd ==
    /\ Up /\ backlog # <<>> /\ Free = {}
    /\ hashtab' = StoreTime(-1, clock)
    /\ UNCHANGED <<peerVars, ed, log, status, owner, backlog, clock, since>>

-----------------------------------------------------------------------------
(* _simpletcp_activateServer, on the descriptor of a connection. *)

CanRead(sd) ==
    /\ Up /\ sd \in DOMAIN ed /\ ed[sd] = "IN"
    /\ wire[owner[sd]] # <<>> \/ Ended(owner[sd])

CanWrite(sd) == Up /\ sd \in DOMAIN ed /\ ed[sd] = "OUT"

\* _simpletcp_logServerConnection: no entry for the descriptor ends the
\* process; otherwise a line is added with what was received and the time.
logServerConnection(sd, hostname) ==
    IF sd \in DOMAIN hashtab
      THEN /\ log' = [log EXCEPT ![owner[sd]] = Append(@, [host |-> hostname, time |-> hashtab[sd]])]
           /\ UNCHANGED status
      ELSE status' = "exit" /\ UNCHANGED log

\* recv returns 0: all was read, and no error is left to report.
AtEnd_never(c) == FALSE
AtEnd_hangup(c) == Ended(c) /\ state[c] # "aborted"
AtEnd(c) == wire[c] = <<>> /\ Ended(c) /\ state[c] # "aborted"

\* The table after a line was logged.
AfterLogging_removed(sd) == Without(hashtab, sd)
AfterLogging(sd) == hashtab

\* _simpletcp_serverRead of something. The result of recv is kept in a size_t,
\* so that of a recv that fails is positive too: an empty hostname.
serverRead(sd) ==
    /\ CanRead(sd)
    /\ LET c == owner[sd] IN
         /\ ~ AtEnd(c)
         /\ logServerConnection(sd, wire[c])
         /\ wire' = [wire EXCEPT ![c] = <<>>]
         /\ state' = IF wire[c] = <<>> THEN [state EXCEPT ![c] = "spent"] ELSE state
    /\ hashtab' = AfterLogging(sd)
    /\ ed' = Watch(ed, sd, "OUT")
    /\ UNCHANGED <<owner, backlog, unsent, clock, since>>

\* _simpletcp_serverRead of the end. The EPOLL_CTL_MOD that follows fails, the
\* descriptor being closed.
serverRead_end(sd) ==
    /\ CanRead(sd) /\ AtEnd(owner[sd])
    /\ owner' = [owner EXCEPT ![sd] = NULL]
    /\ hashtab' = Without(hashtab, sd)
    /\ ed' = Watch(Without(ed, sd), sd, "OUT")
    /\ UNCHANGED <<peerVars, log, status, backlog, clock, since>>

\* _simpletcp_serverWrite: what send returns is only reported. On a connection
\* that was aborted it meets the error, on one that was closed it brings it on.
NextEvent_out == "OUT"
NextEvent == "IN"

serverWrite(sd) ==
    /\ CanWrite(sd)
    /\ state' = IF Ended(owner[sd])
                  THEN [state EXCEPT ![owner[sd]] = "spent"] ELSE state
    /\ ed' = Watch(ed, sd, NextEvent)
    /\ UNCHANGED <<hashtab, log, status, owner, backlog, wire, unsent, clock, since>>

\* Outside of Shadow, writing after the error was met raises SIGPIPE.
serverWrite_sigpipe(sd) ==
    /\ CanWrite(sd) /\ state[owner[sd]] = "spent"
    /\ status' = "sigpipe"
    /\ UNCHANGED <<peerVars, hashtab, ed, log, owner, backlog, clock, since>>

-----------------------------------------------------------------------------
(* The clients, and time. *)

Connect(c) ==
    /\ Up /\ state[c] = "none"
    /\ state' = [state EXCEPT ![c] = "open"]
    /\ backlog' = Append(backlog, c)
    /\ UNCHANGED <<serverVars, owner, wire, unsent, clock, since>>

\* n more pieces of the hostname arrive.
PeerSend(c, n) ==
    /\ Up /\ state[c] = "open" /\ n \in 1 .. Len(unsent[c])
    /\ wire' = [wire EXCEPT ![c] = @ \o SubSeq(unsent[c], 1, n)]
    /\ unsent' = [unsent EXCEPT ![c] = SubSeq(@, n + 1, Len(@))]
    /\ UNCHANGED <<serverVars, owner, backlog, state, clock, since>>

PeerClose(c, how) ==
    /\ Up /\ state[c] = "open"
    /\ state' = [state EXCEPT ![c] = how]
    /\ UNCHANGED <<serverVars, owner, backlog, wire, unsent, clock, since>>

Tick ==
    /\ Up /\ clock < MaxTime
    /\ clock' = clock + 1
    /\ UNCHANGED <<serverVars, peerVars, owner, backlog, since>>

-----------------------------------------------------------------------------
Handle(sd) == serverRead(sd) \/ serverRead_end(sd) \/ serverWrite(sd)

\* Inside of Shadow there are no signals.
Next ==
    \/ activateServer_accept \/ activateServer_nofd
    \/ \E sd \in Fd : Handle(sd)
    \/ \E c \in Conn : Connect(c) \/ \E how \in {"closed", "aborted"} : PeerClose(c, how)
    \/ \E c \in Conn, n \in 1 .. Len(Hostname) : PeerSend(c, n)
    \/ Tick

Spec == Init /\ [][Next \/ \E sd \in Fd : serverWrite_sigpipe(sd)]_vars

-----------------------------------------------------------------------------
TypeOK ==
    /\ DOMAIN hashtab \subseteq Fd \cup {-1}
    /\ \A sd \in DOMAIN hashtab : hashtab[sd] \in 0 .. MaxTime
    /\ DOMAIN ed \subseteq Fd /\ \A sd \in DOMAIN ed : ed[sd] \in {"IN", "OUT"}
    /\ log \in [Conn -> Seq([host : Seq({"head", "tail"}), time : 0 .. MaxTime])]
    /\ status \in {"up", "exit", "sigpipe"}
    /\ owner \in [Fd -> Conn \cup {NULL}]
    /\ backlog \in Seq(Conn)
    /\ state \in [Conn -> {"none", "open", "closed", "aborted", "spent"}]
    /\ wire \in [Conn -> Seq({"head", "tail"})]
    /\ unsent \in [Conn -> Seq({"head", "tail"})]
    /\ clock \in 0 .. MaxTime
    /\ since \in [Conn -> (0 .. MaxTime) \cup {NULL}]

\* Every line bears the time at which its own connection was accepted, although
\* the table is kept under descriptors and those are used again.
LoggedTimeIsItsOwn == \A c \in Conn : \A i \in 1 .. Len(log[c]) : log[c][i].time = since[c]

\* The lookup of a connection's time always finds it, for each piece of a
\* hostname and after an error too: the _exit for "Null pointer in lookup" is
\* never taken.
LookupAlwaysFinds == status # "exit"

\* The lines of c hold, one after the other, the first n pieces of the hostname:
\* line i has those between the cuts i - 1 and i.
Logged(c, n) ==
    \E cut \in [0 .. Len(log[c]) -> 0 .. n] :
      /\ cut[0] = 0 /\ cut[Len(log[c])] = n
      /\ \A i \in 1 .. Len(log[c]) :
           cut[i - 1] <= cut[i] /\ log[c][i].host = SubSeq(Hostname, cut[i - 1] + 1, cut[i])

\* The server closes a connection only once it has logged all its client sent,
\* in the order it was sent and once, however it was cut and however it ended.
AllSentIsLogged ==
    \A c \in Conn :
      since[c] # NULL /\ (\A sd \in Fd : owner[sd] # c) =>
        \E n \in 0 .. Len(Hostname) :
          Logged(c, n) /\ unsent[c] = SubSeq(Hostname, n + 1, Len(Hostname))

\* A receive that fails is logged like a connection, with no hostname. It adds
\* at most one such line, only for a connection that was aborted, and nothing
\* of that connection is logged after it.
BlankLinesBounded ==
    \A c \in Conn : \A i \in 1 .. Len(log[c]) :
      log[c][i].host = <<>> => i = Len(log[c]) /\ state[c] = "spent"
=============================================================================
