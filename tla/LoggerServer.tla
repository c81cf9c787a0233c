---------------------------- MODULE LoggerServer ----------------------------
(***************************************************************************)
(* src/loggerserver/loggerserver.c: a UDP server that appends the payload  *)
(* of every packet it receives to a file, and the network that carries the *)
(* proxies' trace packets to it: packets may be lost, duplicated and       *)
(* reordered, and the socket's queue is finite. The process may be stopped *)
(* and started again, and started while it already runs.                   *)
(***************************************************************************)
EXTENDS Integers, Sequences, SequencesExt

CONSTANTS Packet,       \* the packets that are sent to the server
          Size,         \* packet -> length of its payload
          PAGE_SIZE,    \* the most that one recv returns
          QLen,         \* packets the socket's receive queue holds
          MaxCopies,    \* bound: copies of one packet, the original included
          MaxStarts,    \* bound: times the program is started
          InitFiles     \* what the log file may be before the first start

ASSUME LoggerAssumption ==
    /\ Size \in [Packet -> Nat]
    /\ PAGE_SIZE \in Nat \ {0}
    /\ {QLen, MaxCopies, MaxStarts} \subseteq Nat
    /\ InitFiles \subseteq {"none", "writable"}

VARIABLES
  running,  \* an instance is bound to the port
  queue,    \* kernel: the socket's receive queue
  file,     \* "none", "writable" or, with the mode it was created with, "locked"
  log,      \* the file's contents: the payloads in it, with their lengths
  starts,   \* times the program was started
  net,      \* packet -> copies under way
  copies,   \* packet -> copies that there have been
  base,     \* history: the file's contents when the instance had started
  got       \* history: the data recv has returned to the instance

serverVars == <<running, file, log, starts, base>>
vars == <<running, queue, file, log, starts, net, copies, base, got>>

Shorter(m, n) == IF m <= n THEN m ELSE n

\* What recv returns of p: the rest of a packet that does not fit is dropped.
Payload_whole(p) == [pkt |-> p, len |-> Size[p]]
Payload(p) == [pkt |-> p, len |-> Shorter(Size[p], PAGE_SIZE)]

\* open(log_path, O_RDWR | O_CREAT) without a mode: a file that exists is left
\* as it is; a new one gets whatever mode the missing argument holds.
PrepareLog ==
    /\ file' \in IF file = "none" THEN {"writable", "locked"} ELSE {file}
    /\ log' = log

Init ==
    /\ running = FALSE
    /\ queue = <<>>
    /\ file \in InitFiles
    /\ log = <<>>
    /\ starts = 0
    /\ net = [p \in Packet |-> 0]
    /\ copies = [p \in Packet |-> 0]
    /\ base = <<>>
    /\ got = <<>>

\* The socket is bound, unless another instance holds the port.
startReader       == ~ running /\ running' = TRUE
startReader_fails == running /\ running' = running

\* loggerserver_new: the file is prepared, then the socket is bound.
loggerserver_new ==
    /\ starts < MaxStarts
    /\ PrepareLog
    /\ startReader
    /\ starts' = starts + 1
    /\ base' = log'
    /\ got' = <<>>
    /\ UNCHANGED <<queue, net, copies>>

\* Started again: bind fails, but only after the file was prepared.
loggerserver_new_fails ==
    /\ starts < MaxStarts
    /\ PrepareLog
    /\ startReader_fails
    /\ starts' = starts + 1
    /\ UNCHANGED <<queue, net, copies, base, got>>

\* What recv returned, unless the packet was empty.
Receive(data) == got' = IF data.len > 0 THEN Append(got, data) ELSE got

\* One recv for the one event of loggerserver_ready. An empty packet has no data
\* and is not logged; neither open's nor write's result is looked at.
loggerserver_activate_skipsShort ==
    /\ running /\ queue # <<>>
    /\ queue' = Tail(queue)
    /\ LET data == Payload(Head(queue)) IN
         /\ Receive(data)
         /\ log' = IF data.len > 1 /\ file = "writable" THEN Append(log, data) ELSE log
    /\ UNCHANGED <<running, file, starts, net, copies, base>>
loggerserver_activate ==
    /\ running /\ queue # <<>>
    /\ queue' = Tail(queue)
    /\ LET data == Payload(Head(queue)) IN
         /\ Receive(data)
         /\ log' = IF data.len > 0 /\ file = "writable" THEN Append(log, data) ELSE log
    /\ UNCHANGED <<running, file, starts, net, copies, base>>

\* SIGTERM, or a crash: the queue goes with the socket.
exit_handler ==
    /\ running
    /\ running' = FALSE
    /\ queue' = <<>>
    /\ UNCHANGED <<file, log, starts, net, copies, base, got>>

-----------------------------------------------------------------------------
(* The senders and the network. *)

Send(p) ==
    /\ copies[p] = 0 /\ MaxCopies > 0
    /\ copies' = [copies EXCEPT ![p] = 1]
    /\ net' = [net EXCEPT ![p] = @ + 1]
    /\ UNCHANGED <<serverVars, queue, got>>

Duplicate(p) ==
    /\ net[p] > 0 /\ copies[p] < MaxCopies
    /\ copies' = [copies EXCEPT ![p] = @ + 1]
    /\ net' = [net EXCEPT ![p] = @ + 1]
    /\ UNCHANGED <<serverVars, queue, got>>

Lose(p) ==
    /\ net[p] > 0
    /\ net' = [net EXCEPT ![p] = @ - 1]
    /\ UNCHANGED <<serverVars, queue, copies, got>>

Deliver(p) ==
    /\ net[p] > 0 /\ running /\ Len(queue) < QLen
    /\ net' = [net EXCEPT ![p] = @ - 1]
    /\ queue' = Append(queue, p)
    /\ UNCHANGED <<serverVars, copies, got>>

Network == \E p \in Packet : Send(p) \/ Duplicate(p) \/ Lose(p) \/ Deliver(p)

loggerserver ==
    loggerserver_new \/ loggerserver_new_fails \/ loggerserver_activate

-----------------------------------------------------------------------------
TypeOK ==
    /\ running \in BOOLEAN
    /\ queue \in Seq(Packet) /\ Len(queue) <= QLen
    /\ file \in {"none", "writable", "locked"}
    /\ log \in Seq([pkt : Packet, len : 1 .. PAGE_SIZE])
    /\ starts \in 0 .. MaxStarts
    /\ net \in [Packet -> 0 .. MaxCopies]
    /\ copies \in [Packet -> 0 .. MaxCopies]
    /\ base \in Seq([pkt : Packet, len : 1 .. PAGE_SIZE])
    /\ got \in Seq([pkt : Packet, len : 1 .. PAGE_SIZE])

\* A packet in the queue is logged, unless the process ends, the packet is empty
\* or the file cannot be written.
QueuedIsLogged ==
    \A p \in Packet :
        running /\ file = "writable" /\ Size[p] > 0 /\ Contains(queue, p) ~>
            ~ running \/ \E i \in DOMAIN log : log[i].pkt = p
=============================================================================
