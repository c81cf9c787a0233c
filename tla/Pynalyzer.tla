----------------------------- MODULE Pynalyzer -----------------------------
(***************************************************************************)
(* src/tools/pynalyzer.py: the correlation of the traces. For each line of *)
(* a client in the trace file it looks forward for lines of servers within *)
(* a window of time, sums up for each client how near and how steady each  *)
(* server is, elects the best one, and compares it with what the servers   *)
(* logged themselves.                                                      *)
(*                                                                         *)
(* The inputs are traces, in the order of time or in any other, and any    *)
(* server logs. A probability is kept as its numerator over                *)
(* THRESHOLD_MAX - THRESHOLD_MIN, so that the comparison of scores is      *)
(* exact; the script's floats only round it.                               *)
(***************************************************************************)
EXTENDS Integers, Sequences, FiniteSets, SequencesExt, FiniteSetsExt

CONSTANTS Client, Server,               \* hostnames
          THRESHOLD_MIN, THRESHOLD_MAX,
          MaxTime,                      \* bound: the times in a trace
          Traces,                       \* bound: the trace files there may be
          MaxReal,                      \* bound: the lines of a client in a server log
          NULL

ASSUME PynalyzerAssumption ==
    /\ THRESHOLD_MIN \in Nat \ {0}
    /\ THRESHOLD_MAX \in Nat /\ THRESHOLD_MIN < THRESHOLD_MAX
    /\ {MaxTime, MaxReal} \subseteq Nat
    /\ IsFiniteSet(Server)
    /\ NULL \notin Server \cup Client

VARIABLES
  data,             \* the lines of the trace file
  ith,              \* lines of it that were analyzed
  connections,      \* client -> its connections, each with its candidates
  clients_stat,     \* client -> its candidates, the best one first
  client,           \* the one whose candidates are being collected, or NULL
  cliconn,          \* connections of that one that were visited
  servers_infos,    \* server -> what is known of it from those
  files,            \* server logs that os.walk has yet to visit
  open,             \* the server log being read, or NULL
  realConnections,  \* client -> server -> connections the server logged
  maccuracy,        \* client -> accuracy of its match, NULL if it has none
  real              \* history: <<server, client>> -> lines read from that log

rankVars == <<clients_stat, client, cliconn, servers_infos>>
realVars == <<files, open, realConnections, maccuracy, real>>
vars == <<data, ith, connections, rankVars, realVars>>

\* What the autosys proxies send: side, hostname and time of a connection.
Line == [side : {"c"}, hostname : Client, time : 0 .. MaxTime]
          \cup [side : {"s"}, hostname : Server, time : 0 .. MaxTime]

ASSUME TracesAssumption == Traces \subseteq Seq(Line)

Put(f, x, y) == [z \in DOMAIN f \cup {x} |-> IF z = x THEN y ELSE f[z]]

Init ==
    /\ data \in Traces
    /\ ith = 0
    /\ connections = << >> /\ clients_stat = << >>
    /\ client = NULL /\ cliconn = 0 /\ servers_infos = << >>
    /\ files = Server /\ open = NULL
    /\ realConnections = << >> /\ maccuracy = << >>
    /\ real = [p \in Server \X Client |-> 0]

-----------------------------------------------------------------------------
(* analyze: one line of the trace file after the other. *)

\* 0 stands for what the script takes as false: no candidate.
calcProb_fromMin(time1, time2) ==
    IF time2 - time1 < THRESHOLD_MIN \/ time2 - time1 > THRESHOLD_MAX
      THEN 0 ELSE THRESHOLD_MAX - (time2 - time1)
calcProb_past(time1, time2) ==
    IF time2 - time1 > THRESHOLD_MAX THEN 0 ELSE THRESHOLD_MAX - (time2 - time1)
calcProb(time1, time2) ==
    IF time2 - time1 <= THRESHOLD_MIN \/ time2 - time1 > THRESHOLD_MAX
      THEN 0 ELSE THRESHOLD_MAX - (time2 - time1)

\* The line after which the scan from time stops.
Breaks_backwards(time, line) == line.time - time > THRESHOLD_MAX \/ line.time < time
Breaks(time, line) == line.time - time > THRESHOLD_MAX

\* The candidates of a connection at time: of each server the first line that
\* the scan meets with a probability that is not 0.
analyzeForward(time, startIdx) ==
    LET scanned == {j \in startIdx .. Len(data) :
                      \A k \in startIdx .. j : ~ Breaks(time, data[k])}
        hits(h) == {j \in scanned : /\ data[j].side = "s" /\ data[j].hostname = h
                                    /\ calcProb(time, data[j].time) # 0}
    IN  [h \in {s \in Server : hits(s) # {}} |->
           LET line == data[Min(hits(h))]
           IN  [prob |-> calcProb(time, line.time), time |-> line.time]]

\* data.index(i): where the first line equal to this one is.
index(line) == Min({j \in DOMAIN data : data[j] = line})

analyze ==
    /\ ith < Len(data)
    /\ ith' = ith + 1
    /\ LET startConn == data[ith']
           conn == [time |-> startConn.time,
                    servers |-> analyzeForward(startConn.time, index(startConn) + 1)]
           cli  == startConn.hostname
       IN  connections' =
             IF startConn.side # "c" THEN connections
             ELSE Put(connections, cli,
                      Append(IF cli \in DOMAIN connections THEN connections[cli] ELSE <<>>, conn))
    /\ UNCHANGED <<data, rankVars, realVars>>

-----------------------------------------------------------------------------
(* candidateRankings: for each client in turn, getAllServers. *)

Analyzed == ith = Len(data)

candidateRankings(c) ==
    /\ Analyzed /\ client = NULL /\ c \in DOMAIN connections \ DOMAIN clients_stat
    /\ client' = c
    /\ UNCHANGED <<data, ith, connections, clients_stat, cliconn, servers_infos, realVars>>

\* What getAllServers knows of a server before its first visit.
FirstVisit_counted(prob) == [sum |-> 0, nconns |-> 1, gap |-> 0, last_prob |-> prob]
FirstVisit(prob) == [sum |-> 0, nconns |-> 0, gap |-> 0, last_prob |-> prob]

\* One more connection with this probability.
Added_signed(info, prob) ==
    [sum |-> info.sum + prob, nconns |-> info.nconns + 1,
     gap |-> info.gap + (prob - info.last_prob), last_prob |-> prob]
Added(info, prob) ==
    LET jump == prob - info.last_prob
    IN  [sum |-> info.sum + prob, nconns |-> info.nconns + 1,
         gap |-> info.gap + (IF jump < 0 THEN - jump ELSE jump), last_prob |-> prob]

\* One connection added to what is known of its candidates.
Visit(infos, servers) ==
    [sv \in DOMAIN infos \cup DOMAIN servers |->
       IF sv \notin DOMAIN servers THEN infos[sv]
       ELSE Added(IF sv \in DOMAIN infos THEN infos[sv] ELSE FirstVisit(servers[sv].prob),
                  servers[sv].prob)]

getAllServers_visit ==
    /\ client # NULL /\ cliconn < Len(connections[client])
    /\ cliconn' = cliconn + 1
    /\ servers_infos' = Visit(servers_infos, connections[client][cliconn'].servers)
    /\ UNCHANGED <<data, ith, connections, clients_stat, client, realVars>>

\* score = sum / (gap + 1), both over THRESHOLD_MAX - THRESHOLD_MIN.
Before(a, b) ==
    LET unit == THRESHOLD_MAX - THRESHOLD_MIN
    IN  a.sum * (b.gap + unit) >= b.sum * (a.gap + unit)

\* The candidates in decreasing order of score; equal ones in the order of a
\* dictionary, which is any.
sorted_servers(infos) ==
    {r \in SetToSeqs(DOMAIN infos) :
       \A i, j \in DOMAIN r : i < j => Before(infos[r[i]], infos[r[j]])}

\* The entry that candidateRankings makes of them.
candidates(infos, r) ==
    [i \in DOMAIN r |-> [server |-> r[i], nconns |-> infos[r[i]].nconns]]

\* The end of getAllServers, and of its turn in candidateRankings.
getAllServers_sort ==
    /\ client # NULL /\ cliconn = Len(connections[client])
    /\ \E r \in sorted_servers(servers_infos) :
         clients_stat' = Put(clients_stat, client, candidates(servers_infos, r))
    /\ client' = NULL /\ cliconn' = 0 /\ servers_infos' = << >>
    /\ UNCHANGED <<data, ith, connections, realVars>>

-----------------------------------------------------------------------------
(* realConnectionsParser *)

Ranked == Analyzed /\ DOMAIN clients_stat = DOMAIN connections

realConnectionsParser(s) ==
    /\ Ranked /\ open = NULL /\ s \in files
    /\ files' = files \ {s}
    /\ open' = s
    /\ UNCHANGED <<data, ith, connections, rankVars, realConnections, maccuracy, real>>

\* The table after one more line of s for key. The handler of the exception,
\* which is raised for an unknown key and for a known key with an unknown s
\* alike, makes a new table for the key.
Counted_emptied(key, s) ==
    IF key \in DOMAIN realConnections /\ s \in DOMAIN realConnections[key]
    THEN Put(realConnections, key, Put(realConnections[key], s, realConnections[key][s] + 1))
    ELSE Put(realConnections, key, Put(<< >>, s, 0))
Counted(key, s) ==
    IF key \in DOMAIN realConnections /\ s \in DOMAIN realConnections[key]
    THEN Put(realConnections, key, Put(realConnections[key], s, realConnections[key][s] + 1))
    ELSE Put(realConnections, key, Put(<< >>, s, 1))

\* updateRealConnections: one line, and the end of the file.
updateRealConnections(key) ==
    /\ open # NULL
    /\ real[<<open, key>>] < MaxReal
    /\ realConnections' = Counted(key, open)
    /\ real' = [real EXCEPT ![<<open, key>>] = @ + 1]
    /\ UNCHANGED <<data, ith, connections, rankVars, files, open, maccuracy>>

updateRealConnections_close ==
    /\ open # NULL
    /\ open' = NULL
    /\ UNCHANGED <<data, ith, connections, rankVars, files, realConnections, maccuracy, real>>

-----------------------------------------------------------------------------
(* The comparison at the end of the script. *)

RealKnown == Ranked /\ files = {} /\ open = NULL

\* A fraction: the smaller over the larger number of connections.
Ratio(m, n) == IF m <= n THEN <<m, n>> ELSE <<n, m>>

\* The accuracy for a client whose best candidate is sv and whose first real
\* server is realsv. NULL is the script's -1.0; matched_clients,
\* rclients_missing and matched_accuracy only count and add what is here.
Accuracy(sv, realsv, nconns) ==
    IF sv.server = realsv THEN Ratio(sv.nconns, nconns) ELSE NULL

match(eclient) ==
    /\ RealKnown /\ eclient \in DOMAIN clients_stat \ DOMAIN maccuracy
    /\ IF eclient \in DOMAIN realConnections /\ clients_stat[eclient] # <<>>
       THEN \E realsv \in DOMAIN realConnections[eclient] :
              maccuracy' = Put(maccuracy, eclient,
                               Accuracy(clients_stat[eclient][1], realsv,
                                        realConnections[eclient][realsv]))
       ELSE maccuracy' = Put(maccuracy, eclient, NULL)
    /\ UNCHANGED <<data, ith, connections, rankVars, files, open, realConnections, real>>

Next ==
    \/ analyze \/ getAllServers_visit \/ getAllServers_sort
    \/ \E c \in Client : candidateRankings(c) \/ updateRealConnections(c) \/ match(c)
    \/ \E s \in Server : realConnectionsParser(s)
    \/ updateRealConnections_close

Spec == Init /\ [][Next]_vars

-----------------------------------------------------------------------------
TypeOK ==
    /\ data \in Seq(Line) /\ ith \in 0 .. Len(data)
    /\ DOMAIN clients_stat \subseteq DOMAIN connections
    /\ client \in DOMAIN connections \cup {NULL} /\ cliconn \in 0 .. Len(data)
    /\ DOMAIN servers_infos \subseteq Server
    /\ \A c \in DOMAIN connections : \A i \in DOMAIN connections[c] :
         \A s \in DOMAIN connections[c][i].servers :
            connections[c][i].servers[s].prob \in 1 .. THRESHOLD_MAX - THRESHOLD_MIN - 1
    /\ files \subseteq Server /\ open \in Server \cup {NULL}
    /\ \A c \in DOMAIN realConnections : DOMAIN realConnections[c] \subseteq Server
    /\ DOMAIN maccuracy \subseteq DOMAIN clients_stat
    /\ real \in [Server \X Client -> 0 .. MaxReal]

-----------------------------------------------------------------------------
(* The reference: what the traces say, without a scan. *)

TimesOf(side, h) == {data[i].time : i \in {j \in DOMAIN data : data[j].side = side /\ data[j].hostname = h}}

\* The times at which server h was traced within the window of a connection.
Related(h, time) ==
    {t \in TimesOf("s", h) : THRESHOLD_MIN < t - time /\ t - time < THRESHOLD_MAX}

\* No line is more than m late behind a line with a later time.
Disorder(m) == \A i, j \in DOMAIN data : i < j => data[i].time - data[j].time <= m

\* The lines of client c among the first n.
LinesOf(c, n) == {j \in 1 .. n : data[j].side = "c" /\ data[j].hostname = c}

\* The lines of clients that were analyzed, and what line k was made into: the
\* n-th connection of its client if it is the client's n-th line.
ClientLines == {k \in 1 .. ith : data[k].side = "c"}
ConnOf(k) == connections[data[k].hostname][Cardinality(LinesOf(data[k].hostname, k))]

\* Of a trace in the order of time analyzeForward finds, for each connection of
\* each client, exactly the servers traced within the window, each with its
\* earliest time: neither the scan's end, nor equal times, nor lines that are
\* there twice (data.index gives the first of them) make a difference.
SortedIsExact ==
    Disorder(0) => \A k \in ClientLines :
        LET time == data[k].time
        IN  /\ ConnOf(k).time = time
            /\ ConnOf(k).servers = [h \in {s \in Server : Related(s, time) # {}} |->
                  [prob |-> THRESHOLD_MAX - (Min(Related(h, time)) - time),
                   time |-> Min(Related(h, time))]]

\* The lines are logged as the packets arrive. As long as none is later than
\* THRESHOLD_MIN, no server whose distance is at most THRESHOLD_MAX -
\* THRESHOLD_MIN is missed, by a scan that starts too late or stops too early.
JitterTolerated ==
    Disorder(THRESHOLD_MIN) => \A k \in ClientLines, h \in Server :
        LET time == data[k].time
        IN  (\E t \in Related(h, time) : t - time <= THRESHOLD_MAX - THRESHOLD_MIN)
               => h \in DOMAIN ConnOf(k).servers

\* Server h is traced at distance d from every connection of c.
Follows(h, c, d) == \A t \in TimesOf("c", c) : t + d \in TimesOf("s", h)

\* No server is traced nearer than d, within the window.
Nearest(c, d) == \A t \in TimesOf("c", c) : \A h \in Server :
                    \A u \in Related(h, t) : u - t >= d

\* What the correlation is for: a server that follows every connection of a
\* client at the same distance, with none nearer, is the best candidate, unless
\* another one does just the same.
SteadyServerIsBest ==
    Disorder(0) => \A c \in DOMAIN clients_stat : \A h \in Server :
        \A d \in THRESHOLD_MIN + 1 .. THRESHOLD_MAX - 1 :
            Follows(h, c, d) /\ Nearest(c, d) =>
                clients_stat[c] # <<>> /\ Follows(clients_stat[c][1].server, c, d)

\* In whatever order the logs are visited, every client that some server logged
\* is known with at least one of its servers, and whatever is kept of a client
\* and a server is the number of the client's lines in that server's log: the
\* table the handler replaces is never one that lines are still added to.
RealCountsExact ==
    \A c \in Client :
        /\ c \in DOMAIN realConnections <=> \E s \in Server : real[<<s, c>>] > 0
        /\ c \in DOMAIN realConnections =>
             /\ DOMAIN realConnections[c] # {}
             /\ \A s \in DOMAIN realConnections[c] :
                   realConnections[c][s] = real[<<s, c>>]

\* A client is only counted as matched with a server that logged it and that
\* was traced within the window of one of its connections.
MatchedHaveEvidence ==
    \A c \in DOMAIN maccuracy : maccuracy[c] # NULL =>
        LET s == clients_stat[c][1].server
        IN  /\ real[<<s, c>>] > 0
            /\ \E t \in TimesOf("c", c) : Related(s, t) # {}
            /\ maccuracy[c][1] \in 1 .. maccuracy[c][2]

\* An experiment in which nothing went wrong is matched with accuracy 1: one
\* server alone follows each of the client's connections, and it logged as many
\* as were traced.
PerfectTraceScoresOne ==
    Disorder(0) => \A c \in DOMAIN maccuracy : \A h \in Server :
        LET n == Cardinality(LinesOf(c, Len(data)))
        IN  /\ \E d \in THRESHOLD_MIN + 1 .. THRESHOLD_MAX - 1 :
                 /\ Follows(h, c, d) /\ Nearest(c, d)
                 /\ \A g \in Server \ {h} : ~ Follows(g, c, d)
            /\ \A s \in Server : real[<<s, c>>] = IF s = h THEN n ELSE 0
            => maccuracy[c] = <<n, n>>

\* What the last line of the output counts as matched is right in both ways:
\* nothing is matched without evidence, and nothing that is plain is missed.
MatchesAreRight == MatchedHaveEvidence /\ PerfectTraceScoresOne
=============================================================================
