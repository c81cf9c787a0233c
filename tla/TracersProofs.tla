--------------------------- MODULE TracersProofs ---------------------------
(***************************************************************************)
(* What TLAPS proves of Tracers: for every set of packets, every size of   *)
(* packet and of queue, and any number of starts, of either program.       *)
(***************************************************************************)
EXTENDS Tracers, TLAPS

Data == [pkt : Packet, len : 1 .. PAGE_SIZE]

\* The program, and what TypeOK says in two parts: for the network and for the
\* file. A copy under way is one of the copies there have been.
NetTypes ==
    /\ net \in [Packet -> Nat] /\ copies \in [Packet -> 0 .. MaxCopies]
    /\ \A p \in Packet : net[p] <= copies[p]
FileTypes ==
    /\ file \in {"none", "writable", "locked"}
    /\ log \in Seq(Data) /\ base \in Seq(Data) /\ got \in Seq(Data)
    /\ starts \in 0 .. MaxStarts
QueueTypes == queue \in Seq(Packet) /\ Len(queue) <= QLen
ProgTypes == running \in BOOLEAN /\ prog \in {"loggerserver", "analyzer"}

\* A program that was started has the file, the analyzer one it can write to;
\* who runs was started.
StartedHasFile ==
    /\ starts > 0 => file # "none"
    /\ prog = "analyzer" /\ starts > 0 => file = "writable"
    /\ running => starts > 0

\* OldDataCleaned by positions, which is easier to add a line to.
EndOfGot ==
    /\ Len(log) <= Len(got)
    /\ \A i \in 1 .. Len(log) : log[i] = got[Len(got) - Len(log) + i]
OnlyNewLines == prog = "analyzer" /\ starts > 0 => EndOfGot

TInv == /\ NetTypes /\ FileTypes /\ QueueTypes /\ ProgTypes
        /\ StartedHasFile /\ LoggedAllReceived /\ OnlyNewLines

-----------------------------------------------------------------------------
\* What recv returns of a packet is data unless it is empty.
LEMMA PayloadIs ==
    ASSUME NEW p \in Packet, Payload(p).len > 0
    PROVE  Payload(p) \in Data
<1>1. Size[p] \in Nat /\ PAGE_SIZE \in Nat
  BY LoggerAssumption
<1>2. Shorter(Size[p], PAGE_SIZE) \in 0 .. PAGE_SIZE
  BY <1>1 DEF Shorter
<1> QED BY <1>2 DEF Payload, Data

\* A line is added to a sequence of lines.
LEMMA AppendIs ==
    ASSUME NEW s \in Seq(Data), NEW d \in Data
    PROVE  /\ Append(s, d) \in Seq(Data) /\ Len(Append(s, d)) = Len(s) + 1 /\ Len(s) \in Nat
           /\ \A i \in 1 .. Len(s) : Append(s, d)[i] = s[i]
           /\ Append(s, d)[Len(s) + 1] = d
  OBVIOUS

\* What was written stays at the end of what was received when both grow by
\* the same line.
LEMMA EndAppend ==
    ASSUME NEW s \in Seq(Data), NEW t \in Seq(Data), NEW d \in Data, Len(s) <= Len(t),
           \A i \in 1 .. Len(s) : s[i] = t[Len(t) - Len(s) + i]
    PROVE  LET s2 == Append(s, d)
               t2 == Append(t, d)
           IN  /\ Len(s2) <= Len(t2)
               /\ \A i \in 1 .. Len(s2) : s2[i] = t2[Len(t2) - Len(s2) + i]
<1> DEFINE s2 == Append(s, d)
           t2 == Append(t, d)
<1>1. /\ Len(s2) = Len(s) + 1 /\ Len(s) \in Nat
      /\ \A i \in 1 .. Len(s) : s2[i] = s[i]
      /\ s2[Len(s) + 1] = d
  BY AppendIs
<1>2. /\ Len(t2) = Len(t) + 1 /\ Len(t) \in Nat
      /\ \A i \in 1 .. Len(t) : t2[i] = t[i]
      /\ t2[Len(t) + 1] = d
  BY AppendIs
<1> HIDE DEF s2, t2
<1>3. ASSUME NEW i \in 1 .. Len(s2) PROVE s2[i] = t2[Len(t2) - Len(s2) + i]
  <2>1. Len(t2) - Len(s2) + i = Len(t) - Len(s) + i
    BY <1>1, <1>2
  <2>2. CASE i <= Len(s)
    <3>1. i \in 1 .. Len(s) /\ Len(t) - Len(s) + i \in 1 .. Len(t)
      BY <1>1, <1>2, <2>2
    <3>2. s2[i] = s[i] /\ t2[Len(t) - Len(s) + i] = t[Len(t) - Len(s) + i]
      BY <1>1, <1>2, <3>1
    <3> QED BY <2>1, <3>1, <3>2
  <2>3. CASE i = Len(s) + 1
    <3>1. Len(t) - Len(s) + i = Len(t) + 1
      BY <1>1, <1>2, <2>3
    <3> QED BY <1>1, <1>2, <2>1, <2>3, <3>1
  <2> QED BY <1>1, <2>2, <2>3
<1>4. Len(s2) <= Len(t2)
  BY <1>1, <1>2
<1> QED BY <1>3, <1>4 DEF s2, t2

\* Nothing is logged, queued or under way at first.
LEMMA InitTInv == TInit => TInv
<1> SUFFICES ASSUME TInit PROVE TInv
  OBVIOUS
<1>1. NetTypes
  BY LoggerAssumption DEF TInit, Init, NetTypes
<1>2. FileTypes
  BY LoggerAssumption DEF TInit, Init, FileTypes
<1>3. QueueTypes
  BY LoggerAssumption DEF TInit, Init, QueueTypes
<1>4. ProgTypes
  BY DEF TInit, Init, ProgTypes
<1>5. StartedHasFile /\ LoggedAllReceived /\ OnlyNewLines
  BY DEF TInit, Init, StartedHasFile, LoggedAllReceived, OnlyNewLines
<1> QED BY <1>1, <1>2, <1>3, <1>4, <1>5 DEF TInv

\* A start, whether it comes to listen or not: loggerserver keeps what is in
\* the file, the analyzer has an empty one.
LEMMA StartTInv ==
    ASSUME TInv, prog' = prog,
           \/ prog = "loggerserver" /\ (loggerserver_new \/ loggerserver_new_fails)
           \/ prog = "analyzer" /\ (analyzer_new \/ analyzer_new_fails)
    PROVE  TInv'
<1>1. /\ starts < MaxStarts /\ starts' = starts + 1 /\ running' = TRUE
      /\ UNCHANGED <<queue, net, copies>>
  BY DEF loggerserver_new, loggerserver_new_fails, analyzer_new, analyzer_new_fails,
         startReader, startReader_fails, TInv, ProgTypes
<1>2. prog = "loggerserver" =>
         /\ log' = log /\ file' \in IF file = "none" THEN {"writable", "locked"} ELSE {file}
  BY DEF loggerserver_new, loggerserver_new_fails, PrepareLog
<1>3. prog = "analyzer" => log' = <<>> /\ file' = "writable"
  BY DEF analyzer_new, analyzer_new_fails, EmptyLog
<1>4. \/ base' = log' /\ got' = <<>>
      \/ running /\ base' = base /\ got' = got
  BY DEF loggerserver_new, loggerserver_new_fails, analyzer_new, analyzer_new_fails,
         startReader, startReader_fails
<1>5. FileTypes /\ QueueTypes /\ NetTypes /\ ProgTypes /\ StartedHasFile
  BY DEF TInv
<1>6. NetTypes' /\ QueueTypes'
  BY <1>1, <1>5 DEF NetTypes, QueueTypes
<1>7. ProgTypes'
  BY <1>1, <1>5 DEF ProgTypes
<1>8. starts \in 0 .. MaxStarts /\ MaxStarts \in Nat
  BY <1>5, LoggerAssumption DEF FileTypes
<1>9. log \in Seq(Data) /\ base \in Seq(Data) /\ got \in Seq(Data)
  BY <1>5 DEF FileTypes
<1>10. log' \in Seq(Data) /\ <<>> \in Seq(Data)
  <2>1. <<>> \in Seq(Data)
    OBVIOUS
  <2>2. log' = log \/ log' = <<>>
    BY <1>2, <1>3, <1>5 DEF ProgTypes
  <2> QED BY <1>9, <2>1, <2>2, Zenon
<1>11. base' \in Seq(Data) /\ got' \in Seq(Data)
  <2>1. base' \in {base, log'} /\ got' \in {got, <<>>}
    BY <1>4
  <2> QED BY <1>9, <1>10, <2>1, Zenon
<1>12. starts' \in 0 .. MaxStarts /\ starts' > 0
  BY <1>1, <1>8
<1>13. file' \in {"writable", "locked"}
  BY <1>2, <1>3, <1>5 DEF ProgTypes, FileTypes
<1>14. FileTypes'
  BY <1>10, <1>11, <1>12, <1>13 DEF FileTypes
<1>15. StartedHasFile'
  BY <1>3, <1>12, <1>13 DEF StartedHasFile
<1>16. LoggedAllReceived'
  <2>1. CASE base' = log' /\ got' = <<>>
    <3>1. log' = log' \o <<>>
      BY <1>10
    <3> QED BY <2>1, <3>1 DEF LoggedAllReceived
  <2>2. CASE running /\ base' = base /\ got' = got
    <3>1. starts > 0 /\ file # "none"
      BY <1>5, <2>2 DEF StartedHasFile
    <3>2. prog = "loggerserver" => log' = log /\ file' = file
      BY <1>2, <3>1
    <3> QED BY <2>2, <3>1, <3>2 DEF TInv, LoggedAllReceived
  <2> QED BY <1>4, <2>1, <2>2
<1>17. OnlyNewLines'
  <2>1. prog = "analyzer" => Len(log') = 0
    BY <1>3
  <2>2. Len(got') \in Nat
    BY <1>11
  <2> QED BY <2>1, <2>2 DEF OnlyNewLines, EndOfGot
<1> QED BY <1>6, <1>7, <1>14, <1>15, <1>16, <1>17 DEF TInv

\* A packet is received: a line is added, in the file and in what was received,
\* if it has data; in the file only if that can be written.
LEMMA ActivateTInv ==
    ASSUME TInv, prog' = prog, loggerserver_activate PROVE TInv'
<1>1. /\ running /\ queue # <<>> /\ queue' = Tail(queue)
      /\ UNCHANGED <<running, file, starts, net, copies, base>>
  BY DEF loggerserver_activate
<1>2. FileTypes /\ QueueTypes /\ NetTypes /\ ProgTypes /\ StartedHasFile
  BY DEF TInv
<1>3. queue \in Seq(Packet) /\ Len(queue) <= QLen /\ QLen \in Nat
  BY <1>2, LoggerAssumption DEF QueueTypes
<1>4. Head(queue) \in Packet /\ queue' \in Seq(Packet) /\ Len(queue') <= QLen
  BY <1>1, <1>3
<1>5. PICK p \in Packet : p = Head(queue)
  BY <1>4
<1>6. /\ got' = IF Payload(p).len > 0 THEN Append(got, Payload(p)) ELSE got
      /\ log' = IF Payload(p).len > 0 /\ file = "writable" THEN Append(log, Payload(p)) ELSE log
  BY <1>5 DEF loggerserver_activate, Receive
<1>7. Payload(p).len > 0 => Payload(p) \in Data
  BY PayloadIs
<1>8. QueueTypes'
  BY <1>4 DEF QueueTypes
<1>9. NetTypes'
  BY <1>1, <1>2 DEF NetTypes
<1>10. ProgTypes' /\ StartedHasFile'
  BY <1>1, <1>2 DEF ProgTypes, StartedHasFile
<1>11. log \in Seq(Data) /\ base \in Seq(Data) /\ got \in Seq(Data)
  BY <1>2 DEF FileTypes
<1>12. log' \in Seq(Data) /\ got' \in Seq(Data)
  BY <1>6, <1>7, <1>11, AppendIs
<1>13. FileTypes'
  BY <1>1, <1>2, <1>12 DEF FileTypes
<1>14. LoggedAllReceived'
  <2> SUFFICES ASSUME prog = "loggerserver", starts > 0, file = "writable"
               PROVE  log' = base \o got'
    BY <1>1 DEF LoggedAllReceived
  <2>1. log = base \o got
    BY DEF TInv, LoggedAllReceived
  <2>2. CASE Payload(p).len > 0
    <3>1. PICK d \in Data : d = Payload(p)
      BY <1>7, <2>2
    <3>2. Append(base \o got, d) = base \o Append(got, d)
      <4>1. PICK b, s : b = base /\ s = got
        OBVIOUS
      <4>2. b \in Seq(Data) /\ s \in Seq(Data)
        BY <1>11, <4>1, Zenon
      <4>3. Append(b \o s, d) = b \o Append(s, d)
        BY <4>2
      <4> QED BY <4>1, <4>3, Zenon
    <3> QED BY <1>6, <2>1, <2>2, <3>1, <3>2
  <2>3. CASE ~ (Payload(p).len > 0)
    BY <1>6, <2>1, <2>3
  <2> QED BY <2>2, <2>3
<1>15. OnlyNewLines'
  <2> SUFFICES ASSUME prog = "analyzer", starts > 0 PROVE EndOfGot'
    BY <1>1 DEF OnlyNewLines
  <2>1. file = "writable" /\ EndOfGot
    BY <1>2 DEF TInv, StartedHasFile, OnlyNewLines
  <2>2. CASE Payload(p).len > 0
    <3>1. PICK d \in Data : d = Payload(p)
      BY <1>7, <2>2
    <3>2. log' = Append(log, d) /\ got' = Append(got, d)
      BY <1>6, <2>1, <2>2, <3>1
    <3> QED BY <1>11, <2>1, <3>2, EndAppend DEF EndOfGot
  <2>3. CASE ~ (Payload(p).len > 0)
    BY <1>6, <2>1, <2>3 DEF EndOfGot
  <2> QED BY <2>2, <2>3
<1> QED BY <1>8, <1>9, <1>10, <1>13, <1>14, <1>15 DEF TInv

\* The network and the end of the process leave the file alone.
LEMMA NetworkTInv ==
    ASSUME TInv, prog' = prog, exit_handler \/ Network \/ UNCHANGED vars PROVE TInv'
<1>1. UNCHANGED <<file, log, starts, base, got>> /\ running' \in {running, FALSE}
  BY DEF exit_handler, Network, Send, Duplicate, Lose, Deliver, serverVars, vars
<1>2. FileTypes /\ QueueTypes /\ NetTypes /\ ProgTypes /\ StartedHasFile
  BY DEF TInv
<1>3. FileTypes' /\ LoggedAllReceived' /\ OnlyNewLines'
  BY <1>1 DEF TInv, FileTypes, LoggedAllReceived, OnlyNewLines, EndOfGot
<1>4. ProgTypes' /\ StartedHasFile'
  <2>1. ProgTypes'
    BY <1>1, <1>2 DEF ProgTypes
  <2>2. running' => running
    BY <1>1
  <2> QED BY <1>1, <1>2, <2>1, <2>2 DEF StartedHasFile
<1>5. queue \in Seq(Packet) /\ Len(queue) <= QLen /\ QLen \in Nat /\ MaxCopies \in Nat
  BY <1>2, LoggerAssumption DEF QueueTypes
<1>6. QueueTypes'
  <2>1. CASE queue' = queue
    BY <1>5, <2>1 DEF QueueTypes
  <2>2. CASE queue' = <<>>
    BY <1>5, <2>2 DEF QueueTypes
  <2>3. ASSUME NEW p \in Packet, Len(queue) < QLen, queue' = Append(queue, p)
        PROVE  QueueTypes'
    BY <1>5, <2>3 DEF QueueTypes
  <2>4. \/ queue' = queue \/ queue' = <<>>
        \/ \E p \in Packet : Len(queue) < QLen /\ queue' = Append(queue, p)
    BY DEF exit_handler, Network, Send, Duplicate, Lose, Deliver, vars
  <2> QED BY <2>1, <2>2, <2>3, <2>4
<1>7. NetTypes'
  <2>1. CASE UNCHANGED <<net, copies>>
    BY <1>2, <2>1 DEF NetTypes
  <2>2. ASSUME NEW p \in Packet, Send(p) \/ Duplicate(p) PROVE NetTypes'
    <3>1. /\ copies[p] < MaxCopies
          /\ copies' = [copies EXCEPT ![p] = copies[p] + 1]
          /\ net' = [net EXCEPT ![p] = net[p] + 1]
      BY <1>5, <2>2 DEF Send, Duplicate
    <3> QED BY <1>2, <1>5, <3>1 DEF NetTypes
  <2>3. ASSUME NEW p \in Packet, Lose(p) \/ Deliver(p) PROVE NetTypes'
    <3>1. net[p] > 0 /\ copies' = copies /\ net' = [net EXCEPT ![p] = net[p] - 1]
      BY <2>3 DEF Lose, Deliver
    <3> QED BY <1>2, <1>5, <3>1 DEF NetTypes
  <2> QED BY <2>1, <2>2, <2>3 DEF exit_handler, Network, vars
<1> QED BY <1>3, <1>4, <1>6, <1>7 DEF TInv

-----------------------------------------------------------------------------
\* Every step, by what it does to the file.
LEMMA NextTInv == TInv /\ [TNext]_tvars => TInv'
<1> SUFFICES ASSUME TInv, [TNext]_tvars PROVE TInv'
  OBVIOUS
<1>1. prog' = prog
  BY DEF TNext, tvars
<1>2. CASE loggerserver_activate
  BY <1>1, <1>2, ActivateTInv
<1>3. CASE \/ prog = "loggerserver" /\ (loggerserver_new \/ loggerserver_new_fails)
           \/ prog = "analyzer" /\ (analyzer_new \/ analyzer_new_fails)
  BY <1>1, <1>3, StartTInv
<1>4. CASE exit_handler \/ Network \/ UNCHANGED vars
  BY <1>1, <1>4, NetworkTInv
<1> QED BY <1>2, <1>3, <1>4
        DEF TNext, tvars, loggerserver, analyzer, analyzer_activate

\* The invariant holds of every behaviour.
LEMMA SpecTInv == TSpec => []TInv
  BY InitTInv, NextTInv, PTL DEF TSpec

\* Every variable of either program keeps its type; no line is longer than the
\* buffer that recv is given.
THEOREM TracerTypeCorrect == TSpec => []TypeOK
<1>1. ASSUME TInv PROVE TypeOK
  <2>1. \A p \in Packet : net[p] \in 0 .. MaxCopies
    BY <1>1, LoggerAssumption DEF TInv, NetTypes
  <2>2. net \in [Packet -> 0 .. MaxCopies]
    BY <1>1, <2>1 DEF TInv, NetTypes
  <2> QED BY <1>1, <2>2, Zenon
          DEF TInv, NetTypes, FileTypes, QueueTypes, ProgTypes, Data, TypeOK
<1> QED BY <1>1, SpecTInv, PTL

\* loggerserver's file has what was there when it started and all data that was
\* received since, in order, whatever is stopped or started in vain.
THEOREM AllReceivedIsLogged == TSpec => []LoggedAllReceived
<1>1. TInv => LoggedAllReceived
  BY DEF TInv
<1> QED BY <1>1, SpecTInv, PTL

\* The analyzer's file holds the end of what the analyzer that runs received
\* and no line of an earlier one.
THEOREM OldLinesAreGone == TSpec => []OldDataCleaned
<1>1. ASSUME TInv PROVE OldDataCleaned
  <2> SUFFICES ASSUME prog = "analyzer", starts > 0 PROVE IsSuffix(log, got)
    BY DEF OldDataCleaned
  <2>1. EndOfGot /\ log \in Seq(Data) /\ got \in Seq(Data)
    BY <1>1 DEF TInv, OnlyNewLines, FileTypes
  <2>2. PICK m \in Nat, n \in Nat : m = Len(log) /\ n = Len(got) /\ m <= n
    BY <2>1 DEF EndOfGot
  <2>3. /\ Reverse(log) = [i \in 1 .. m |-> log[m - i + 1]]
        /\ Reverse(got) = [i \in 1 .. n |-> got[n - i + 1]]
    BY <2>2 DEF Reverse
  <2>4. Reverse(log) \in Seq(Data) /\ Len(Reverse(log)) = m
    <3>1. \A i \in 1 .. m : log[m - i + 1] \in Data
      BY <2>1, <2>2
    <3> QED BY <2>3, <3>1
  <2>5. Reverse(got) \in Seq(Data) /\ Len(Reverse(got)) = n
    <3>1. \A i \in 1 .. n : got[n - i + 1] \in Data
      BY <2>1, <2>2
    <3> QED BY <2>3, <3>1
  <2>6. \A i \in 1 .. m : Reverse(log)[i] = Reverse(got)[i]
    <3> SUFFICES ASSUME NEW i \in 1 .. m PROVE log[m - i + 1] = got[n - i + 1]
      BY <2>2, <2>3
    <3>1. m - i + 1 \in 1 .. m /\ n - m + (m - i + 1) = n - i + 1
      BY <2>2
    <3>2. \A j \in 1 .. m : log[j] = got[n - m + j]
      BY <2>1, <2>2 DEF EndOfGot
    <3> QED BY <3>1, <3>2
  <2>7. SubSeq(Reverse(log), 1, m) = SubSeq(Reverse(got), 1, m)
    BY <2>2, <2>4, <2>5, <2>6
  <2> QED BY <2>2, <2>4, <2>5, <2>7 DEF IsSuffix, IsPrefix
<1> QED BY <1>1, SpecTInv, PTL
=============================================================================
