# TLA+ specifications of the eavesdropping plug-ins

The repository is an experiment on traffic correlation: inside the Shadow
simulator, a Tor network is run with tracing proxies in front of some clients
and servers. Each proxy reports every connection it accepts, by UDP, to a
logger; the clients and servers record what really happened; a script then
compares the two. This directory holds TLA+ specifications of the programs that
run in the simulation, configurations that check them with TLC, and proofs
checked by TLAPS.

## The system

| Part | State | Operations | Talks to |
|---|---|---|---|
| `tropeaproxy/tproxy.c` | hash table descriptor → record of the other end (descriptor, buffer, size); one `isDone`; an epoll set | `tproxy_ready`, `handleNewConnection`, `handleRead`, `handleWrite`, `closeConnections`, `udpTrace` | client and server by TCP, logger by UDP |
| `autosys/autosys.c` | the same | the same code under other names | Tor exits and servers, or clients and Tor |
| `loggerserver/loggerserver.c` | a UDP socket, a log file | `loggerserver_new`, `_activate` | receives the proxies' traces |
| `analyzer/analyzer.c` | the same | the same; the file is emptied at the start | the same |
| `simpletcp/simpletcp.c`, client | SOCKS5 status, connections left, one descriptor, a timer | `startClient`, `clientWrite`, `clientRead`, `wakeupClient` | a SOCKS5 proxy |
| `simpletcp/simpletcp.c`, server | hash table descriptor → time, a log file | accept, `serverRead`, `serverWrite`, `logServerConnection` | clients |
| `tools/pynalyzer.py` | the lines of the trace, connections with their candidates, the servers' own counts | `analyze`, `analyzeForward`, `candidateRankings`, `getAllServers`, `realConnectionsParser`, the comparison in `main` | reads the logs |
| `tools/*.sh`, `net-builder.py`, `catcher.py` | none | build networks, start runs, plot | files |
| `*-plugin.c` | none | register `new`, `free` and `ready` with Shadow | Shadow |

Every program is one thread around a level-triggered `epoll_wait`. There are no
locks; what is hard is the order of events, and, in the script that reads what
they leave behind, the order of lines:

- events collected in one batch are handled after others of the same batch have
  closed descriptors, accepted connections and re-used their numbers;
- records refer to the other end by descriptor *number*;
- one flag, `isDone`, serves all sessions;
- buffers are freed in two places under different conditions;
- results of `accept`, `send`, `open` and `connect` are not looked at;
- packets and pieces of messages are lost, doubled, reordered and split;
- programs are stopped, started again, and started twice;
- the trace is a file of packets in the order of their arrival, and is read as if
  it were sorted by time.

The list of hazards, each at its line and with the properties that cover it, is
in `PROJECT.json`.

## The modules

### TProxy: the forwarding core

`TProxy.tla` models `tproxy.c` from `tproxy_ready` down, one action per handler
and per way out of it. `hashmap`, `isDone`, `ined` are the fields of `TProxy`
with those names, `batch` is the array `epevs`, `cur` the local variables of
`_tproxy_activateTProxy` between its EPOLLIN and its EPOLLOUT part (between the
two, peers may act, and the entry may be gone). `activate_read` and
`activate_eof` are the EPOLLIN part with `handleRead` and `closeConnections`;
`activate_write`, `activate_close` and `activate_exit` the EPOLLOUT part with
`handleWrite`, `closeConnections` and the `_exit`s; `activate_nomem` is the
`_exit` after a failed allocation, `exit_handler` SIGTERM. A record's buffer is
`NULL`, `live` or `freed`; freeing it twice ends the run in `doublefree`.

The kernel and the peers are environment actions: `Connect`, `Answer`,
`PeerSend`, `PeerRead`, `PeerClose`. Bytes are counted in units and every unit
says who sent it, so that one can see what reaches whom. `LowWater` is the room
at which epoll reports EPOLLOUT: for a Linux TCP socket it is a third of the
send buffer, well above a page, unless buffers are small.

`SIGPIPE` cannot end the proxy: a descriptor is never registered for EPOLLOUT
without EPOLLIN, so an ended connection is read, and closed, before it is
written to a second time.

`TProxyTidy.tla` adds a history variable. A session that is half closed has left
the number of its closed end in the record of the other one, which still has to
read `isDone`; `accept` may give the number to a new session, and clears the flag.
`tidy` says that every client so far was accepted while no session was half
closed (`Whole`).

`TProxyLockstep.tla` adds how the simulation's clients use the proxy: sessions
one after the other, each a dialogue in which the ends take turns.
`Autosys.tla` is `autosys.c` in front of a server, where sessions overlap
(`CrowdSpec`), and the part of that use which works (`SpacedSpec`: no session is
opened while another one is being closed). Its actions are TProxy's: the two C
files have the same handlers.

### Relay: what the proxies promise

`Relay.tla` has no descriptors, events or buffers. A session asks, is admitted
and reported in one step (or refused, and reported as well), what one end says
the other hears in order and completely, and an end is hung up on only after one
of the two left and nothing was under way. `TProxyLockstep` instantiates it:
`line` is derived from the listen queue and the peers' states (`LineOf`),
`reports` is `traces`, `said` and `heard` are `sent` and `dlv`, `left` the peers
that ended, `hungup` is `eof`. `ImplementsRelay` says that every step of the
proxy is one of Relay's, or none; `Autosys` inherits it for overlapping sessions.
`Misreport` is the one concession: a proxy without descriptors reports sessions
that it does not let in (`tproxy.c:357`). Outside of these two uses the proxies
do not implement Relay, as the runs that find violations show.

### LoggerServer, Analyzer and Tracers

`LoggerServer.tla` has the file (its mode and its contents), the socket's finite
queue and a network that loses, duplicates and reorders. `open` with `O_CREAT`
and no mode creates a file that may or may not be writable. `got` is the history
of the data `recv` has returned, empty packets left out. `Analyzer.tla`
extends it and replaces the preparation of the file, and `Tracers.tla` is the
use of one of the two programs over that network. `isDone` is never set in
either program, so `resetAccept` is dead code.

### SimpleTCPClient and SimpleTCPServer

`SimpleTCPClient.tla` is the client's SOCKS5 automaton. The proxy's answers
arrive in pieces; a read that brings fewer than two bytes leaves the client's
own second byte where the reply's is looked for, as in the code. Inside of
Shadow there are no signals; outside, a second write to a connection that was
reset ends the process. Both outcomes are in the model (`_sigpipe`).

`SimpleTCPServer.tla` is the server, whose log the correlation is compared with.
`hashtab` and `ed` are its hash table and epoll set; the lines of its log are
kept by connection. `AllSentIsLogged` says what they hold by the cuts between
them: the lines of a connection have consecutive parts of the hostname, from its
beginning. A `recv` that fails counts as a positive size, as `size_t` makes it.

### SimpleTCP: client and server joined

Each of the two modules above has an environment that does what it likes.
`SimpleTCP.tla` instantiates both, with the names they share renamed, and puts
between them the SOCKS5 proxy and Tor, which are external: the relay connects to
the server when the client asks for it (`Open`), grants CONNECT once it has
reached it, passes on the hostname the client wrote (`Forward`) and the answer
the server wrote (`ReplyMessage`), closes after the client did (`Close`), and
gives up the client when the server's side is gone (`Follow`). Whatever else a
network does is counted as a fault: connections refused, broken or aborted, an
error in a reply, a message cut in pieces. The i-th connection of the client is
connection i of the server; while the relay is slow to close one, the next one
is under way.

### Pynalyzer: the correlation

`Pynalyzer.tla` is the script, one action per line of the trace (`analyze`), per
client whose turn it is (`candidateRankings`), per connection of it visited
(`getAllServers_visit`), per ranking made (`getAllServers_sort`), per server log
opened, per line of it read (`updateRealConnections`), and per client compared
(`match`). `client`, `cliconn` and `servers_infos` are the loop variables and the
dictionary of `getAllServers`. The inputs are the trace files in `Traces`, any set
of them, and all server logs within the bounds. `analyzeForward`, `calcProb`, `sorted_servers` are
operators with the names of the code. A probability is kept as its numerator over `THRESHOLD_MAX - THRESHOLD_MIN`, so
that scores are compared exactly; 0 is what the script takes as false. Equal
scores, and the iteration over a dictionary, leave the order open. The reference
(`TimesOf`, `Related`) says which servers were traced within the window of a
connection without any scan; `Disorder(m)` says by how much the file is out of
order.

## What TLC checks

Runs that pass:

| Run | Instance | Shows |
|---|---|---|
| `proxy_shared` | up to 3 sessions, 4 descriptors; 4 units with one session, 1 with two | Table, epoll set, descriptors and records agree, whatever overlaps and when descriptors run out; each accepted session is traced once. Unless a client was accepted while another session was half closed, every end gets only its partner's data, in order, and no event ends the process for a missing entry. |
| `lockstep` | 2 sessions in turn, 3 descriptors, 3 units per peer | The proxy implements Relay. Nothing fails; all that is sent is sent on and a close reaches both ends. |
| `autosys_spaced` | 3 sessions that overlap, fewer descriptors than they want | autosys implements Relay; nothing fails or is lost and every descriptor is registered for what it waits for, unless one is opened while another is being closed; also when `accept` or `socket` finds no descriptor. |
| `tracers` | 3 packets: empty, fitting, too long; 2 copies; 2 starts; file there or not | loggerserver's file has what it had and all that was received, in order, across restarts; analyzer's has nothing of an earlier run and no gap; a queued packet is logged. |
| `client` | 3 connections | The hostname is only sent where CONNECT was granted; exactly `nConn` connections; an end is reached. |
| `server` | 3 connections, 2 descriptors, 2 clock values | Every line has its own connection's time, all that was sent is logged, a failed receive adds at most one line. |
| `simpletcp` | 3 connections, 1 descriptor, up to 2 faults | Without a fault every connection has one line with its hostname by the time the client closes it, and the client makes all of them. Whatever the faults, in the end the server holds no connection. |
| `pynalyzer` | traces of up to 4 lines in any order, and of 2 connections with 3 or 4 lines of servers in the order of time; times 0 to 5, window 1 to 4, 1 client, 2 servers, up to 2 lines of the client in each server log | On a sorted trace the candidates are exactly those within the window; lines up to `THRESHOLD_MIN` late cost no candidate that is not at the far edge of the window; a server that follows every connection at one distance, with none nearer, is elected; every real count that is kept is that of the server's log; a match has evidence in trace and log; an experiment in which nothing goes wrong scores 1. |

Runs that find a violation; the findings in `PROJECT.json` quote the line of the
repository that says otherwise:

| Run | What the code does |
|---|---|
| `proxy_duplex` | Data read from one end is replaced when both ends send at once. |
| `proxy_reset` | A reset frees a buffer twice. |
| `autosys_exit` | A new session clears `isDone` while another is being closed, and the process exits. |
| `logger_restart` | loggerserver started again appends to the lines of the earlier run; the comment above its `open` says that they are cleaned. |

The models also show these behaviours, about which no run asks; the properties
are stated so that they do not depend on them:

- `tproxy.c:450`: the rest of a partial `send` is dropped (the dialogues assume `PageFits`:
  `PageSize <= LowWater`);
- `tproxy.c:357`: a trace is sent when `accept` failed for want of a descriptor
  (`TracedOnceAccepted` is about sessions that were accepted);
- `tproxy.c:417`: an end with something left to read when its other end is closed
  is taken out of epoll and stays open (in a dialogue in turns this does not
  happen);
- `autosys.c:511`: a re-used descriptor number may connect an old end to a new
  session (`TidyInOrder` and `TidyNeverExits` say that it takes an accept while
  another session is half closed, `SpacedSpec` excludes the case);
- `loggerserver.c:163`: a new file may be created unwritable, and then nothing is
  logged (`LoggedAllReceived` is about a file that can be written to);
- `analyzer.c:153`: a second start empties the running one's log before its
  `bind` fails;
- `simpletcp.c:601`: the end of the connection counts as the server's answer
  (`OneLineEach` holds only as long as nothing goes wrong on the way);
- `simpletcp.c:649`: a `recv` that fails is logged as a connection of a client
  without a name, since its result is kept in a `size_t`, and the report at line
  664 is never reached (`BlankLinesBounded` says how far this goes);
- `simpletcp.c:620`: equal, non-zero sleep bounds divide by zero (`Traps`; the run
  has different bounds);
- `simpletcp.c:155`: when connecting again fails at once, the client is left with
  no descriptor and no timer (`Stranded`);
- `pynalyzer.py:157`: the score divides by the total of the jumps, where
  `Documentation/report/core/analisys.tex` divides by their average; the comment
  of `getAllServers` says that servers are sorted by average, they are sorted by
  score;
- `pynalyzer.py:227`: in a file that is more than `THRESHOLD_MIN` out of order a
  scan starts behind, or stops before, lines it should have seen;
- `pynalyzer.py:182`: a distance of exactly `THRESHOLD_MIN` is no candidate, where
  `Documentation/report/core/analisys.tex:144-146` may be read to include it;
- `pynalyzer.py:284`: of a client that several servers logged only the server
  visited last is kept, although lines 356-361 and the TODO at 370-371 expect
  several (`RealCountsExact` is about what is kept, however many they are;
  `net-builder.py` gives each client one server);
- `pynalyzer.py:60`: without `--tracedir` no `maccuracy` is there to print.

Bounds. Two sessions are what it takes for one to re-use the other's descriptor
or flag; with four descriptors they overlap entirely, with two or three they
cannot. Units: a buffer that is replaced or sent twice takes two from one peer,
and `PageSize` 2 with 3 units makes reads of different sizes. `MaxTraces` bounds
the traces a proxy without descriptors sends for ever (in `autosys_spaced` one
more than there are sessions). The third session there re-uses the numbers of
one of two that overlap. `UnitsFor` limits the units of `proxy_shared` by the
number of sessions that have begun: one may send four, three of them from one
end, so that reads replace buffers and sends are cut short; two have one unit, to
be misdirected; three have none (one of them finds no descriptor left). SIGTERM
and want of memory end the process in every state alike, and are explored with
one session (`FailsEarly`). Connections are reset or refused before the third
session begins, and end in order after that (`ResetsOfTwo`): the double free
that a reset brings about takes one session, the number used again two.

`simpletcp` has one descriptor for three connections, so that the next
connection waits, and `accept` fails, while the relay is slow to close; two
faults are enough for one in each of two connections, or for a broken connection
after a cut message. In `pynalyzer` four lines in any order make two connections
of a client with a server's line for each. Two connections at different times, a
server that follows both at one distance and a rival with a line for each are six
lines: these traces are explored in the order of time, which the ranking's
properties ask for, and they are where the gap decides. Times 0 to 5 with a window from 1 to 4 have every distance from below the
window to beyond it, both edges included. Lines of another client only matter to
a scan by ending it, which any line may do, so one client is enough. A server has
one log: `simpletcp.c:338` names it after the host, and the simulations write all
of them to one directory, so `os.walk` meets no name twice.

Deadlock is not checked: each of the programs may end, and peers need not do
anything.

Fairness. The main loops run while an event is ready (`WF` of the handlers:
`epoll_wait` is level-triggered and returns every ready descriptor, and one
iteration handles all that it returned). In `lockstep` the peers
read what reaches them and a connection in progress is answered, by the kernel
of the other host. No peer has to send or to close. In `tracers` the process
handles what is queued while it runs. In `client` the SOCKS5 proxy answers what
it is asked and what is under way arrives; `Terminates` allows for the client
that is stranded by a failed reconnection. In `simpletcp` the client's and the
server's main loops are fair, and the relay as a whole goes on with what it has;
no fault ever has to happen.

## What is proved

Each theorem holds for every value of the constants that satisfies the module's
assumptions: any number of sessions, descriptors, connections, packets or lines,
any sizes and thresholds. `PROJECT.json` lists them with the property each one
states. The argument is always the same: an invariant that holds initially and
is kept by every step, and from which the property follows. The properties
themselves are not inductive; what has to be added is said below.

### The proxies in any environment

`TProxyProofs.tla`: the type invariant; the hash table has an entry for exactly
the open descriptors (`TableTracksDescriptors`); no event is collected or
registered for a descriptor without an entry, so that the first `_exit` of
`_tproxy_activateTProxy` cannot be reached (`NoEventForUnknownFd`); `bufsize` is
the length of the buffer's contents (`SendWithinBuffer`).

The invariant, `IInv`, is their conjunction. None of its parts is inductive
alone: that `handleWrite` and `handleRead` register only descriptors with an
entry needs the table to agree with the open descriptors (`setEPOLL` fails on
closed ones); that a close leaves no event behind needs the batch to be emptied
for the descriptor being handled; the type of a record needs `recv`'s -1 never to
stay in the table, since the entry is removed in the same step. The assumptions
are `ConstAssumption` (sizes are natural numbers, `LowWater` lies in
`1 .. SndBuf`, the listening descriptor is not among the others) and
`NullAssumption`.

`TProxySessionProofs.tla` goes on from sessions to data, still with peers that do
what they like:

- `EachSessionTracedOnce`, `EndsNameEachOther`: from `SessInv`, the life of a
  session (idle, queued once, traced once, at most one descriptor for each end);
  the ends of a newly accepted session are new, so that nothing names them yet;
- `NoUnitSentTwice`: from `DataInv`, which places every unit: received, and in
  one record or in one peer's stream, never in two;
- `TidySessionsInOrder`, `TidySessionsNeverExit`: for any number of sessions that
  overlap, as long as no client is accepted while one is half closed (`tidy`).
  `TidyInv` says what the numbers in records and in the local variables of an
  activation then mean: the other end, or nothing; and that whoever has lost its
  other end finds `isDone` set. An accept keeps this if every record's other end
  is open (`NextTidyIfWhole`), since the numbers it takes are then in no record.
  Without the condition both are false, which `autosys_exit` shows;
- `OneConnectionIsTidy`: a proxy that serves one session always meets it.

### The proxies as the simulation uses them, and Relay

`AutosysProofs.tla`, for dialogues that overlap with none opened while another
one is being closed (`SpacedSpec`): `SpacedNeverFails`, `SpacedNothingLost`,
`SpacedRegistered`, and `SpacedImplementsRelay`, the refinement of `Relay`.
`LockstepIsSpaced` shows that sessions one after the other are a case of it, which
gives the same four results for `LSpec`.

`LInv` describes a dialogue at any point of an activation: the end that does not
speak has nothing under way (`LQuiet`), an end leaves only when nothing is
(`LLeft`), the units delivered and held continue each other (`LHeard`, `LHeld`),
every descriptor is registered for what it waits for (`LReg`), and an event that
was collected is still true when it is handled (`LBatch`); the last is the
hazard of the batch. `InEvent` and `OutEvent` are what follows for a handler.
The proof that a step is one of Relay's has one case for each action: accepting a
session is `Admit`, `Refuse` or `Misreport`, `handleWrite` is `Pass`, a close is
`HangUp`, the rest are the ends' own steps or none. `LSolo` is what lockstep adds. The
assumption is `PageFits`, `PageSize <= LowWater`: without it `send` may take less
than a page and the rest is dropped (`tproxy.c:450`).

### The loggers

`TracersProofs.tla`: `TracerTypeCorrect`, `AllReceivedIsLogged`, `OldLinesAreGone`.
`TInv` adds that a program that was
started has a file, the analyzer one that can be written to (`StartedHasFile`),
and that the analyzer's log is the end of what it received, position by position
(`OnlyNewLines`).

### Client, server, and the two joined

`SimpleTCPServerProofs.tla`: `ServerTypeCorrect`; `OwnTime`, every line of the log
bears the time at which its own connection was accepted, although descriptors are
used again; `NoLookupExit`; `OneBlankLine`; and `ClosedIsLogged`, a connection is
closed only once all that its client sent is in the log, once and in order. `SInv` adds that the table has the
accepting time of the connection behind every open descriptor (`TimesOfOpenFds`)
and that a connection waits in the backlog once and only before it is accepted
(`BacklogNotAccepted`). `BlankIsLast` adds that a connection whose failed receive
was logged cannot be received from again. For `ClosedIsLogged`, `DInv` accounts
for every piece of a hostname at any time: one part is in the log, the next one
waits to be read, the rest is unsent (`Accounted`); and what the server closed had
ended with nothing left to read (`ClosedAtEnd`). A read moves the border between
the first two by what it took and adds one cut (`LoggedNext`), a send moves the
other one (`PartsJoin`).

`SimpleTCPClientProofs.tla`: `ClientTypeCorrect`, `GrantedBeforeMessage`,
`MakesNConn`. `CInv` has, for each state of the SOCKS5 dialogue, how much of the
replies may be unread (`Unread`): that the byte looked at as the answer to
CONNECT is the proxy's, however the negotiation's reply was cut in pieces, comes
from that count. `ConnsLeft` relates connections made and left. It is assumed
that the arguments pass the code's checks (`ArgsAccepted`).

`SimpleTCPProofs.tla` is about the composition. `JoinedIsClient` and
`JoinedIsServer` say that each program, joined with the other by the relay,
behaves as in its own specification, so that its theorems hold there; the second
needs the client's invariant, since the connection the relay opens has to be one
that the server may see. `GroundTruth` is `OneLineEach`. Its invariant, `JInv`,
speaks of the time before the first fault: a hostname is with the relay, or with
the server, or in the log, as a whole (`LinesWhole`); who was answered is in the
log (`AnsweredIsLogged`); nothing ends on the server's side first
(`NobodyHangsUp`); a reply is read before the next request (`RepliesWhole`).

### The script

`PynalyzerProofs.tla`: `PynalyzerTypeCorrect`; `SortedTraceIsExact` and
`LateLinesAreFound`, that `analyzeForward` agrees with the reference on a sorted
trace and misses nothing near in one with late lines; `RealCountsAreExact`;
`SteadyServerWins`, the ranking elects a server that follows every connection at
one distance; `MatchesAreJustified`, what is counted as matched is right.
`AnalyzedSoFar` says that the n-th line of a client was made into its n-th
connection by the scan that starts after its first equal line (`MadeOf`); the
rest is about the operators alone: `IndexIs`, `HitIsRelated` and `RelatedIsHit`
(with lines at most m late, what lies m inside of the window is met by the scan),
over `MinIs`, that a set of natural numbers that is not empty has a least
element. `LogsSoFar` has, for the logs, that those yet to be visited have counted
nothing and that a client with a line in the open log is known under that log:
this is why starting its table anew loses nothing of the open log.

The ranking adds up over the connections of a client, and what such a sum is for
every input would take induction over data. The script computes it in a loop, so
the induction is over its steps: `InfoOK` is the loop's invariant. After i
connections the sum of a server whose probability was never above p is at most
p * i, with equality only for a server that had p every time (`Steady`), and that
one has no gap. Hence (`BestSum`) no server that was not steady comes before or
level with one that was, with p the largest probability there is: its sum is
smaller and its divisor at least as large, whatever its gap is. `FollowerIsSteady` and
`SteadyFollows` say that, on a sorted trace, to be steady with probability
`THRESHOLD_MAX - d` is to follow at distance d. `RankedOK` keeps the outcome of
the sort, `Compared` that of `match` until the end; `OwnLines`, that a connection
was made of a line of its own client, is what leads from a candidate back to the
trace. That there are finitely many servers is assumed, since they are sorted.

### Only model-checked

- Liveness, which rests on fairness that the prover does not handle: `Forwarded`,
  `CloseReachesBothEnds`, `QueuedIsLogged`, `Terminates`, `AllMade`, `Drained`.
- What is false in general and shown by a counterexample: the runs that find a
  violation.

## Not modelled

The network builder (it writes the XML of a simulation once), the experiment
scripts and plots, the Shadow glue (it calls what the main loops call), the
options and the output of `pynalyzer.py`, parsing of arguments and DNS lookups (their checks appear as assumptions
on constants), log messages, the text of trace packets and log lines, memory
layout (the one-byte overflow of `log_path` at `loggerserver.c:154`).

## What is left

Every invariant that a passing run checks, and the refinement, is also a theorem. What remains with TLC is the liveness above.
