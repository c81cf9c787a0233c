-------------------------- MODULE PynalyzerProofs --------------------------
(***************************************************************************)
(* What TLAPS proves of Pynalyzer, for any thresholds, hosts, traces and   *)
(* server logs: the scan for candidates agrees with the reference, the     *)
(* table of real connections with the logs, a server that follows every    *)
(* connection at the same distance comes first, and what is counted as     *)
(* matched is right.                                                       *)
(***************************************************************************)
EXTENDS Pynalyzer, FiniteSetTheorems, TLAPS

\* A set of natural numbers that is not empty has a least element. The library's
\* theorem takes an operator; this follows from the one on strict subsets.
LEMMA MinIs ==
    ASSUME NEW T, T \subseteq Nat, T # {}
    PROVE  Min(T) \in T /\ \A y \in T : Min(T) <= y
<1> DEFINE UpTo(x) == {z \in T : z <= x}
           F == {UpTo(x) : x \in T}
<1>0. \A z \in T : z \in Nat
  OBVIOUS
<1>1. F \subseteq FiniteSubsetsOf(T)
  <2> SUFFICES ASSUME NEW x \in T PROVE UpTo(x) \in FiniteSubsetsOf(T)
    OBVIOUS
  <2>1. x \in Nat /\ 0 \in Int
    BY <1>0
  <2>2. ASSUME NEW z \in UpTo(x) PROVE z \in 0 .. x
    <3>1. z \in T /\ z <= x
      BY <2>2
    <3>2. z \in Nat
      BY <1>0, <3>1
    <3> QED BY <2>1, <3>1, <3>2
  <2>3. IsFiniteSet(0 .. x)
    BY <2>1, FS_Interval
  <2>4. IsFiniteSet(UpTo(x))
    BY <2>2, <2>3, FS_Subset, UpTo(x) \in SUBSET (0 .. x)
  <2>5. UpTo(x) \in SUBSET T
    OBVIOUS
  <2> QED BY <2>4, <2>5 DEF FiniteSubsetsOf
<1>2. F # {}
  OBVIOUS
<1>3. PICK M \in F : \A N \in F : ~ (<<N, M>> \in StrictSubsetOrdering(T))
  <2> HIDE DEF F
  <2>1. IsWellFoundedOn(StrictSubsetOrdering(T), FiniteSubsetsOf(T))
    BY FS_StrictSubsetOrderingWellFounded
  <2> QED BY <1>1, <1>2, <2>1, WFMin, Zenon
<1>4. PICK x \in T : M = UpTo(x)
  OBVIOUS
<1>5. ASSUME NEW y \in T PROVE x <= y
  <2> SUFFICES ASSUME y < x PROVE FALSE
    BY <1>0
  <2>0. x \in Nat /\ y \in Nat
    BY <1>0
  <2>1. ASSUME NEW z \in UpTo(y) PROVE z \in UpTo(x)
    <3>1. z \in T /\ z <= y
      BY <2>1
    <3>2. z \in Nat
      BY <1>0, <3>1
    <3>3. z <= x
      BY <2>0, <3>1, <3>2
    <3> QED BY <3>1, <3>3
  <2>2. x \in UpTo(x) /\ x \notin UpTo(y)
    BY <2>0
  <2>3. UpTo(y) # UpTo(x)
    BY <2>2
  <2>4. UpTo(y) \in SUBSET T /\ UpTo(x) \in SUBSET T /\ UpTo(y) \in F
    OBVIOUS
  <2>5. <<UpTo(y), UpTo(x)>> \in StrictSubsetOrdering(T)
    BY <2>1, <2>3, <2>4, UpTo(y) \subseteq UpTo(x) DEF StrictSubsetOrdering
  <2> QED BY <1>3, <1>4, <2>4, <2>5
<1> QED BY <1>5 DEF Min

-----------------------------------------------------------------------------
(* The scan of analyzeForward. *)

\* The lines the scan from startIdx meets, and those of server h it may take.
Scanned(time, startIdx) ==
    {j \in startIdx .. Len(data) : \A k \in startIdx .. j : ~ Breaks(time, data[k])}
Hits(time, startIdx, h) ==
    {j \in Scanned(time, startIdx) : /\ data[j].side = "s" /\ data[j].hostname = h
                                     /\ calcProb(time, data[j].time) # 0}

\* The connection that analyze makes of line k.
MadeOf(k) == [time |-> data[k].time,
              servers |-> analyzeForward(data[k].time, index(data[k]) + 1)]

\* What analyzeForward returns, in terms of Hits.
LEMMA ForwardIs ==
    ASSUME NEW time, NEW startIdx
    PROVE  analyzeForward(time, startIdx) =
             [h \in {s \in Server : Hits(time, startIdx, s) # {}} |->
                [prob |-> calcProb(time, data[Min(Hits(time, startIdx, h))].time),
                 time |-> data[Min(Hits(time, startIdx, h))].time]]
BY DEF analyzeForward, Hits, Scanned

\* The fields of a line of the trace.
LEMMA LineIs ==
    ASSUME data \in Seq(Line), NEW k \in DOMAIN data
    PROVE  /\ k \in 1 .. Len(data)
           /\ data[k] \in Line
           /\ data[k].time \in Nat
           /\ data[k].side \in {"c", "s"}
           /\ data[k].side = "c" => data[k].hostname \in Client
<1>1. data[k] \in Line /\ k \in 1 .. Len(data)
  OBVIOUS
<1> QED BY <1>1, PynalyzerAssumption DEF Line

\* data.index gives a line that is equal, and no later one.
LEMMA IndexIs ==
    ASSUME data \in Seq(Line), NEW k \in DOMAIN data
    PROVE  /\ index(data[k]) \in DOMAIN data
           /\ index(data[k]) <= k
           /\ data[index(data[k])] = data[k]
<1> DEFINE T == {j \in DOMAIN data : data[j] = data[k]}
<1>1. DOMAIN data = 1 .. Len(data) /\ Len(data) \in Nat
  OBVIOUS
<1>2. T \subseteq Nat /\ k \in T
  BY <1>1
<1>3. index(data[k]) = Min(T)
  BY DEF index
<1> HIDE DEF T
<1>4. Min(T) \in T /\ Min(T) <= k
  BY <1>2, MinIs
<1> QED BY <1>3, <1>4 DEF T

\* A distance with a probability is within the window, and conversely.
LEMMA ProbIs ==
    ASSUME NEW time1 \in Nat, NEW time2 \in Nat
    PROVE  /\ calcProb(time1, time2) # 0 <=>
                THRESHOLD_MIN < time2 - time1 /\ time2 - time1 < THRESHOLD_MAX
           /\ calcProb(time1, time2) # 0 =>
                /\ calcProb(time1, time2) = THRESHOLD_MAX - (time2 - time1)
                /\ calcProb(time1, time2) \in 1 .. THRESHOLD_MAX - THRESHOLD_MIN - 1
BY PynalyzerAssumption DEF calcProb

\* What the scan takes of server h was traced within the window.
LEMMA HitIsRelated ==
    ASSUME data \in Seq(Line), NEW k \in DOMAIN data, NEW h,
           NEW j \in Hits(data[k].time, index(data[k]) + 1, h)
    PROVE  /\ j \in DOMAIN data
           /\ calcProb(data[k].time, data[j].time) # 0
           /\ data[j].time \in Related(h, data[k].time)
<1>1. index(data[k]) \in 1 .. Len(data) /\ Len(data) \in Nat
  BY IndexIs
<1>2. j \in index(data[k]) + 1 .. Len(data)
  BY DEF Hits, Scanned
<1>3. j \in DOMAIN data
  BY <1>1, <1>2
<1>4. /\ data[j].side = "s" /\ data[j].hostname = h
      /\ calcProb(data[k].time, data[j].time) # 0
  BY DEF Hits
<1>5. data[j].time \in Nat /\ data[k].time \in Nat
  BY <1>3, LineIs
<1>6. data[j].time \in TimesOf("s", h)
  BY <1>3, <1>4 DEF TimesOf
<1>7. THRESHOLD_MIN < data[j].time - data[k].time /\ data[j].time - data[k].time < THRESHOLD_MAX
  BY <1>4, <1>5, ProbIs
<1> QED BY <1>3, <1>4, <1>6, <1>7 DEF Related

\* The other way round: with lines no later than m, a line within the window is
\* met if it is m nearer than THRESHOLD_MAX. The scan starts before it, since
\* it is more than m later than the connection, and no line on the way is so
\* much later that the scan stops.
LEMMA RelatedIsHit ==
    ASSUME data \in Seq(Line), NEW m \in Nat, m <= THRESHOLD_MIN, Disorder(m),
           NEW k \in DOMAIN data, NEW h, NEW j \in DOMAIN data,
           data[j].side = "s", data[j].hostname = h,
           THRESHOLD_MIN < data[j].time - data[k].time,
           data[j].time - data[k].time < THRESHOLD_MAX,
           data[j].time - data[k].time <= THRESHOLD_MAX - m
    PROVE  j \in Hits(data[k].time, index(data[k]) + 1, h)
<1> DEFINE i == index(data[k])
<1>1. i \in DOMAIN data /\ data[i] = data[k]
  BY IndexIs
<1> HIDE DEF i
<1>2. DOMAIN data = 1 .. Len(data) /\ Len(data) \in Nat
  OBVIOUS
<1>3. data[j].time \in Nat /\ data[k].time \in Nat
  BY LineIs
<1>4. i < j
  <2>1. CASE j < i
    <3>1. data[j].time - data[i].time <= m
      BY <1>1, <2>1 DEF Disorder
    <3> QED BY <1>1, <1>3, <3>1, PynalyzerAssumption
  <2>2. CASE j = i
    BY <1>1, <1>3, <2>2, PynalyzerAssumption
  <2> QED BY <1>1, <1>2, <2>1, <2>2
<1>5. j \in i + 1 .. Len(data)
  BY <1>1, <1>2, <1>4
<1>6. ASSUME NEW l \in i + 1 .. j PROVE ~ Breaks(data[k].time, data[l])
  <2>1. l \in DOMAIN data
    BY <1>1, <1>2, <1>5
  <2>2. data[l].time \in Nat
    BY <2>1, LineIs
  <2>3. data[l].time - data[j].time <= m
    <3>1. CASE l < j
      BY <2>1, <3>1 DEF Disorder
    <3>2. CASE l = j
      BY <1>3, <3>2
    <3>3. l < j \/ l = j
      BY <1>1, <1>2, <2>1
    <3> QED BY <3>1, <3>2, <3>3
  <2>4. \A a, b, c \in Nat : a - b <= m /\ b - c <= THRESHOLD_MAX - m
                                => ~ (a - c > THRESHOLD_MAX)
    BY PynalyzerAssumption
  <2>5. ~ (data[l].time - data[k].time > THRESHOLD_MAX)
    BY <1>3, <2>2, <2>3, <2>4
  <2> QED BY <2>5 DEF Breaks
<1>7. calcProb(data[k].time, data[j].time) # 0
  BY <1>3, ProbIs
<1>8. j \in Scanned(data[k].time, i + 1)
  BY <1>5, <1>6 DEF Scanned
<1> QED BY <1>7, <1>8 DEF Hits, i

\* The first of the lines that the scan may take.
LEMMA FirstHit ==
    ASSUME data \in Seq(Line), NEW k \in DOMAIN data, NEW h,
           Hits(data[k].time, index(data[k]) + 1, h) # {}
    PROVE  LET T == Hits(data[k].time, index(data[k]) + 1, h)
           IN  Min(T) \in T /\ \A j \in T : Min(T) <= j
<1> DEFINE T == Hits(data[k].time, index(data[k]) + 1, h)
<1>1. T \subseteq DOMAIN data
  BY HitIsRelated
<1>2. DOMAIN data \subseteq Nat
  OBVIOUS
<1> HIDE DEF T
<1>3. T \subseteq Nat
  BY <1>1, <1>2
<1>4. T # {} => Min(T) \in T /\ \A j \in T : Min(T) <= j
  BY <1>3, MinIs
<1> QED BY <1>4 DEF T

\* The probability of a candidate is never 0 and never the whole window.
LEMMA MadeProb ==
    ASSUME data \in Seq(Line), NEW k \in DOMAIN data, NEW h \in DOMAIN MadeOf(k).servers
    PROVE  MadeOf(k).servers[h].prob \in 1 .. THRESHOLD_MAX - THRESHOLD_MIN - 1
<1> DEFINE T(s) == Hits(data[k].time, index(data[k]) + 1, s)
           S == {s \in Server : T(s) # {}}
<1>1. MadeOf(k).servers = [s \in S |-> [prob |-> calcProb(data[k].time, data[Min(T(s))].time),
                                        time |-> data[Min(T(s))].time]]
  BY ForwardIs DEF MadeOf
<1>2. h \in S /\ T(h) # {}
  BY <1>1
<1>3. MadeOf(k).servers[h].prob = calcProb(data[k].time, data[Min(T(h))].time)
  BY <1>1, <1>2
<1>4. Min(T(h)) \in T(h)
  BY <1>2, FirstHit
<1> DEFINE j == Min(T(h))
<1>5. j \in DOMAIN data /\ calcProb(data[k].time, data[j].time) # 0
  BY <1>4, HitIsRelated
<1> HIDE DEF j, T
<1>6. data[k].time \in Nat /\ data[j].time \in Nat
  BY <1>5, LineIs
<1>7. calcProb(data[k].time, data[j].time) \in 1 .. THRESHOLD_MAX - THRESHOLD_MIN - 1
  BY <1>5, <1>6, ProbIs
<1> QED BY <1>3, <1>7 DEF j

\* The candidates of line k of a trace in the order of time.
LEMMA SortedMade ==
    ASSUME data \in Seq(Line), Disorder(0), NEW k \in DOMAIN data
    PROVE  LET time == data[k].time
           IN  MadeOf(k).servers = [h \in {s \in Server : Related(s, time) # {}} |->
                  [prob |-> THRESHOLD_MAX - (Min(Related(h, time)) - time),
                   time |-> Min(Related(h, time))]]
<1> DEFINE time == data[k].time
           T(s) == Hits(time, index(data[k]) + 1, s)
           R(s) == Related(s, time)
           S == {s \in Server : T(s) # {}}
           G(s) == [prob |-> calcProb(time, data[Min(T(s))].time), time |-> data[Min(T(s))].time]
           E(s) == [prob |-> THRESHOLD_MAX - (Min(R(s)) - time), time |-> Min(R(s))]
<1>1. MadeOf(k).servers = [s \in S |-> G(s)]
  BY ForwardIs DEF MadeOf
<1>2. ASSUME NEW h, NEW t \in R(h)
      PROVE  \E j \in T(h) : data[j].time = t
  <2>1. PICK j \in DOMAIN data : data[j].side = "s" /\ data[j].hostname = h /\ data[j].time = t
    BY <1>2 DEF Related, TimesOf
  <2>2. THRESHOLD_MIN < t - time /\ t - time < THRESHOLD_MAX
    BY <1>2 DEF Related
  <2>3. data[j].time \in Nat /\ time \in Nat
    BY <2>1, LineIs
  <2>4. data[j].time - data[k].time <= THRESHOLD_MAX - 0
    BY <2>1, <2>2, <2>3, PynalyzerAssumption
  <2>5. 0 \in Nat /\ 0 <= THRESHOLD_MIN
    BY PynalyzerAssumption
  <2>6. j \in T(h)
    BY <2>1, <2>2, <2>4, <2>5, RelatedIsHit
  <2> QED BY <2>1, <2>6
<1>3. ASSUME NEW h, NEW j \in T(h) PROVE j \in DOMAIN data /\ data[j].time \in R(h)
  BY <1>3, HitIsRelated
<1>4. S = {s \in Server : R(s) # {}}
  <2>1. \A s : T(s) # {} <=> R(s) # {}
    <3> HIDE DEF T, R
    <3> QED BY <1>2, <1>3
  <2> QED BY <2>1
<1>5. ASSUME NEW h \in S PROVE G(h) = E(h)
  <2> DEFINE j == Min(T(h))
  <2>1. T(h) # {}
    BY <1>5
  <2>2. j \in T(h) /\ \A l \in T(h) : j <= l
    BY <2>1, FirstHit
  <2> HIDE DEF j
  <2>3. j \in DOMAIN data /\ data[j].time \in R(h)
    BY <1>3, <2>2
  <2>4. data[j].time \in Nat /\ time \in Nat
    BY <2>3, LineIs
  <2>5. ASSUME NEW t \in R(h) PROVE t \in Nat /\ data[j].time <= t
    <3>1. PICK l \in T(h) : data[l].time = t
      BY <1>2
    <3>2. l \in DOMAIN data
      BY <1>3
    <3>3. t \in Nat
      BY <3>1, <3>2, LineIs
    <3>4. j <= l
      BY <2>2
    <3>5. j < l \/ j = l
      BY <2>3, <3>2, <3>4
    <3>6. CASE j < l
      <4>1. data[j].time - data[l].time <= 0
        BY <2>3, <3>2, <3>6 DEF Disorder
      <4> QED BY <2>4, <3>1, <3>3, <4>1
    <3>7. CASE j = l
      BY <2>4, <3>1, <3>7
    <3> QED BY <3>3, <3>5, <3>6, <3>7
  <2>6. Min(R(h)) = data[j].time
    <3> DEFINE Q == R(h)
    <3>1. Q \subseteq Nat /\ Q # {} /\ data[j].time \in Q /\ \A t \in Q : data[j].time <= t
      BY <2>3, <2>5
    <3> HIDE DEF Q
    <3>2. Min(Q) \in Q /\ Min(Q) <= data[j].time
      BY <3>1, MinIs
    <3>3. Min(Q) \in Nat /\ data[j].time <= Min(Q)
      BY <3>1, <3>2
    <3>4. Min(Q) = data[j].time
      BY <2>4, <3>2, <3>3
    <3> QED BY <3>4 DEF Q
  <2>7. calcProb(time, data[j].time) # 0
    BY <2>2, HitIsRelated
  <2>8. calcProb(time, data[j].time) = THRESHOLD_MAX - (data[j].time - time)
    BY <2>4, <2>7, ProbIs
  <2>9. G(h) = [prob |-> calcProb(time, data[j].time), time |-> data[j].time]
    BY DEF j
  <2> HIDE DEF G, R, time
  <2> QED BY <2>6, <2>8, <2>9
<1>6. [s \in S |-> G(s)] = [s \in S |-> E(s)]
  <2> HIDE DEF G, E, S
  <2> QED BY <1>5
<1>7. MadeOf(k).servers = [s \in S |-> E(s)]
  BY <1>1, <1>6, Zenon
<1>8. MadeOf(k).servers = [s \in {x \in Server : R(x) # {}} |-> E(s)]
  <2> HIDE DEF E, S, R
  <2> QED BY <1>4, <1>7
<1> QED BY <1>8

\* With lines up to THRESHOLD_MIN late, a server that was traced near enough is
\* a candidate of line k.
LEMMA JitterMade ==
    ASSUME data \in Seq(Line), Disorder(THRESHOLD_MIN), NEW k \in DOMAIN data,
           NEW h \in Server, NEW t \in Related(h, data[k].time),
           t - data[k].time <= THRESHOLD_MAX - THRESHOLD_MIN
    PROVE  h \in DOMAIN MadeOf(k).servers
<1> DEFINE T(s) == Hits(data[k].time, index(data[k]) + 1, s)
<1>1. PICK j \in DOMAIN data : data[j].side = "s" /\ data[j].hostname = h /\ data[j].time = t
  BY DEF Related, TimesOf
<1>2. THRESHOLD_MIN < t - data[k].time /\ t - data[k].time < THRESHOLD_MAX
  BY DEF Related
<1>3. THRESHOLD_MIN \in Nat /\ THRESHOLD_MIN <= THRESHOLD_MIN
  BY PynalyzerAssumption
<1>4. j \in T(h)
  BY <1>1, <1>2, <1>3, RelatedIsHit
<1>5. DOMAIN MadeOf(k).servers = {s \in Server : T(s) # {}}
  BY ForwardIs DEF MadeOf
<1> HIDE DEF T
<1> QED BY <1>4, <1>5

-----------------------------------------------------------------------------
(* The invariant. *)

\* The connections, line by line of the trace that was analyzed.
AnalyzedSoFar ==
    /\ data \in Seq(Line) /\ ith \in 0 .. Len(data)
    /\ \A c \in DOMAIN connections :
         /\ connections[c] \in Seq({MadeOf(k) : k \in DOMAIN data})
         /\ Len(connections[c]) = Cardinality(LinesOf(c, ith))
    /\ \A k \in ClientLines : /\ data[k].hostname \in DOMAIN connections
                              /\ ConnOf(k) = MadeOf(k)

\* The later phases only add to their tables.
TablesGrow ==
    /\ DOMAIN clients_stat \subseteq DOMAIN connections
    /\ client \in DOMAIN connections \cup {NULL}
    /\ DOMAIN maccuracy \subseteq DOMAIN clients_stat

\* The server logs: those yet to be visited have counted nothing, and a client
\* that the open one has a line of is known under that one.
LogsSoFar ==
    /\ files \subseteq Server /\ open \in Server \cup {NULL} /\ open \notin files
    /\ real \in [Server \X Client -> 0 .. MaxReal]
    /\ DOMAIN realConnections \subseteq Client
    /\ \A s \in files, c \in Client : real[<<s, c>>] = 0
    /\ \A s \in Server, c \in Client : real[<<s, c>>] > 0 => c \in DOMAIN realConnections
    /\ \A c \in DOMAIN realConnections : \E s \in Server :
         /\ DOMAIN realConnections[c] = {s}
         /\ realConnections[c][s] = real[<<s, c>>]
         /\ real[<<s, c>>] > 0
         /\ open # NULL => (real[<<open, c>>] > 0 => s = open)

PInv == AnalyzedSoFar /\ TablesGrow /\ LogsSoFar

\* The lines of a client are finitely many and grow with the trace.
LEMMA LinesFinite ==
    ASSUME NEW c, NEW n \in Nat
    PROVE  /\ IsFiniteSet(LinesOf(c, n))
           /\ Cardinality(LinesOf(c, n)) \in Nat
           /\ \A k \in 0 .. n : Cardinality(LinesOf(c, k)) <= Cardinality(LinesOf(c, n))
           /\ LinesOf(c, n) # {} => Cardinality(LinesOf(c, n)) > 0
<1>1. IsFiniteSet(1 .. n)
  BY FS_Interval
<1>2. LinesOf(c, n) \in SUBSET (1 .. n)
  BY DEF LinesOf
<1>3. IsFiniteSet(LinesOf(c, n))
  BY <1>1, <1>2, FS_Subset
<1>4. Cardinality(LinesOf(c, n)) \in Nat
  BY <1>3, FS_CardinalityType
<1>5. ASSUME NEW k \in 0 .. n PROVE Cardinality(LinesOf(c, k)) <= Cardinality(LinesOf(c, n))
  <2>1. 1 .. k \subseteq 1 .. n
    OBVIOUS
  <2>2. LinesOf(c, k) \in SUBSET LinesOf(c, n)
    BY <2>1 DEF LinesOf
  <2> QED BY <1>3, <2>2, FS_Subset
<1>6. LinesOf(c, n) # {} => Cardinality(LinesOf(c, n)) # 0
  BY <1>3, FS_EmptySet
<1> QED BY <1>3, <1>4, <1>5, <1>6

\* One more line of the trace.
LEMMA LinesNext ==
    ASSUME NEW c, NEW n \in Nat
    PROVE  /\ data[n + 1].side = "c" /\ data[n + 1].hostname = c =>
                Cardinality(LinesOf(c, n + 1)) = Cardinality(LinesOf(c, n)) + 1
           /\ ~ (data[n + 1].side = "c" /\ data[n + 1].hostname = c) =>
                Cardinality(LinesOf(c, n + 1)) = Cardinality(LinesOf(c, n))
<1>1. 1 .. n + 1 = (1 .. n) \cup {n + 1} /\ n + 1 \notin 1 .. n
  OBVIOUS
<1>2. CASE data[n + 1].side = "c" /\ data[n + 1].hostname = c
  <2>1. LinesOf(c, n + 1) = LinesOf(c, n) \cup {n + 1}
    BY <1>1, <1>2 DEF LinesOf
  <2>2. n + 1 \notin LinesOf(c, n)
    BY <1>1 DEF LinesOf
  <2>3. IsFiniteSet(LinesOf(c, n))
    BY LinesFinite
  <2> QED BY <1>2, <2>1, <2>2, <2>3, FS_AddElement
<1>3. CASE ~ (data[n + 1].side = "c" /\ data[n + 1].hostname = c)
  <2>1. LinesOf(c, n + 1) = LinesOf(c, n)
    BY <1>1, <1>3 DEF LinesOf
  <2> QED BY <1>3, <2>1
<1> QED BY <1>2, <1>3

\* Nothing was analyzed, and no log was read.
LEMMA InitPInv == Init => PInv
<1> SUFFICES ASSUME Init PROVE PInv
  OBVIOUS
<1>1. data \in Seq(Line)
  BY TracesAssumption DEF Init
<1>2. AnalyzedSoFar
  <2>1. ith = 0 /\ DOMAIN connections = {}
    BY DEF Init
  <2>2. ClientLines = {}
    BY <2>1 DEF ClientLines
  <2>3. ith \in 0 .. Len(data)
    BY <1>1, <2>1
  <2> QED BY <1>1, <2>1, <2>2, <2>3 DEF AnalyzedSoFar
<1>3. TablesGrow
  BY DEF Init, TablesGrow
<1>4. LogsSoFar
  <2>1. \A p \in Server \X Client : real[p] = 0
    BY DEF Init
  <2>2. real \in [Server \X Client -> 0 .. MaxReal]
    BY PynalyzerAssumption DEF Init
  <2>3. \A s \in Server, c \in Client : real[<<s, c>>] = 0
    BY <2>1
  <2> QED BY <2>2, <2>3, PynalyzerAssumption DEF Init, LogsSoFar
<1> QED BY <1>2, <1>3, <1>4 DEF PInv

\* What the lines were made into depends on the trace alone.
LEMMA SameMade ==
    ASSUME data' = data
    PROVE  /\ \A k : MadeOf(k)' = MadeOf(k)
           /\ \A c, n : LinesOf(c, n)' = LinesOf(c, n)
<1>1. \A time, i : analyzeForward(time, i)' = analyzeForward(time, i)
  BY DEF analyzeForward, Breaks, calcProb
<1>2. \A line : index(line)' = index(line)
  BY DEF index
<1>3. ASSUME NEW CONSTANT k PROVE MadeOf(k)' = MadeOf(k)
  BY <1>1, <1>2 DEF MadeOf
<1> QED BY <1>3 DEF LinesOf

\* A step that leaves the trace and the connections as they are.
LEMMA SameAnalyzed ==
    ASSUME AnalyzedSoFar, UNCHANGED <<data, ith, connections>>
    PROVE  AnalyzedSoFar'
<1>1. {MadeOf(k) : k \in DOMAIN data}' = {MadeOf(k) : k \in DOMAIN data}
  BY SameMade
<1>2. \A c, n : LinesOf(c, n)' = LinesOf(c, n)
  BY SameMade
<1>3. \A k : ConnOf(k)' = ConnOf(k) /\ MadeOf(k)' = MadeOf(k)
  BY SameMade DEF ConnOf
<1>4. ClientLines' = ClientLines
  BY DEF ClientLines
<1> QED BY <1>1, <1>2, <1>3, <1>4 DEF AnalyzedSoFar

\* One line is analyzed: a line of a client becomes that client's last
\* connection, and the earlier ones keep their places.
LEMMA AnalyzeLine == PInv /\ analyze => AnalyzedSoFar' /\ TablesGrow'
<1> SUFFICES ASSUME PInv, analyze PROVE AnalyzedSoFar' /\ TablesGrow'
  OBVIOUS
<1> DEFINE Made == {MadeOf(k) : k \in DOMAIN data}
           n == ith + 1
           line == data[n]
           cli == line.hostname
           before == IF cli \in DOMAIN connections THEN connections[cli] ELSE << >>
<1>1. data \in Seq(Line) /\ ith \in 0 .. Len(data) /\ Len(data) \in Nat
  BY DEF PInv, AnalyzedSoFar
<1>2. /\ ith' = n /\ n \in DOMAIN data /\ n \in 1 .. Len(data) /\ ith \in Nat
      /\ data' = data /\ clients_stat' = clients_stat /\ maccuracy' = maccuracy
      /\ client' = client
  BY <1>1 DEF analyze, rankVars, realVars
<1>3. connections' = IF line.side # "c" THEN connections
                     ELSE Put(connections, cli, Append(before, MadeOf(n)))
  BY <1>2 DEF analyze, MadeOf
<1>4. /\ \A k : MadeOf(k)' = MadeOf(k)
      /\ \A c, m : LinesOf(c, m)' = LinesOf(c, m)
  BY <1>2, SameMade
<1>5. {MadeOf(k) : k \in DOMAIN data}' = Made
  BY <1>2, <1>4
<1>6. ith' \in 0 .. Len(data')
  BY <1>1, <1>2
<1>7. \A c \in DOMAIN connections : connections[c] \in Seq(Made)
                                    /\ Len(connections[c]) = Cardinality(LinesOf(c, ith))
  BY DEF PInv, AnalyzedSoFar
<1>8. \A k \in ClientLines : data[k].hostname \in DOMAIN connections /\ ConnOf(k) = MadeOf(k)
  BY DEF PInv, AnalyzedSoFar
<1>9. ClientLines' = {k \in 1 .. n : data[k].side = "c"}
  BY <1>2 DEF ClientLines
<1>10. 1 .. n = (1 .. ith) \cup {n}
  BY <1>2
<1>11. CASE line.side # "c"
  <2>1. connections' = connections
    BY <1>3, <1>11
  <2>2. \A c : Cardinality(LinesOf(c, n)) = Cardinality(LinesOf(c, ith))
    BY <1>2, <1>11, LinesNext
  <2>3. ClientLines' = ClientLines
    BY <1>9, <1>10, <1>11 DEF ClientLines
  <2>4. \A k : ConnOf(k)' = ConnOf(k)
    BY <1>2, <1>4, <2>1 DEF ConnOf
  <2>5. \A c \in DOMAIN connections' :
          /\ connections'[c] \in Seq(Made)
          /\ Len(connections'[c]) = Cardinality(LinesOf(c, ith)')
    BY <1>2, <1>4, <1>7, <2>1, <2>2
  <2>6. AnalyzedSoFar'
    BY <1>1, <1>2, <1>4, <1>5, <1>6, <1>8, <2>1, <2>3, <2>4, <2>5 DEF AnalyzedSoFar
  <2>7. TablesGrow'
    BY <1>2, <2>1 DEF PInv, TablesGrow
  <2> QED BY <2>6, <2>7
<1>12. CASE line.side = "c"
  <2> DEFINE after == Append(before, MadeOf(n))
  <2>1. connections' = Put(connections, cli, after)
    BY <1>3, <1>12
  <2>2. /\ DOMAIN connections' = DOMAIN connections \cup {cli}
        /\ connections'[cli] = after
        /\ \A c \in DOMAIN connections : c # cli => connections'[c] = connections[c]
    <3> HIDE DEF after, cli
    <3> QED BY <2>1 DEF Put
  <2>3. before \in Seq(Made) /\ Len(before) = Cardinality(LinesOf(cli, ith))
    <3>1. CASE cli \in DOMAIN connections
      BY <1>7, <3>1
    <3>2. CASE cli \notin DOMAIN connections
      <4>1. LinesOf(cli, ith) = {}
        BY <1>8, <3>2 DEF LinesOf, ClientLines
      <4>2. before = << >>
        BY <3>2
      <4>3. Cardinality(LinesOf(cli, ith)) = 0
        BY <4>1, FS_EmptySet
      <4> HIDE DEF before, Made
      <4>4. before \in Seq(Made) /\ Len(before) = 0
        BY <4>2
      <4> QED BY <4>3, <4>4
    <3> QED BY <3>1, <3>2
  <2>4. MadeOf(n) \in Made
    BY <1>2
  <2> HIDE DEF before, Made
  <2>5. after \in Seq(Made) /\ Len(after) = Len(before) + 1
    BY <2>3, <2>4
  <2>6. Cardinality(LinesOf(cli, n)) = Cardinality(LinesOf(cli, ith)) + 1
    BY <1>2, <1>12, LinesNext
  <2>7. ASSUME NEW c \in DOMAIN connections'
        PROVE  connections'[c] \in Seq(Made) /\ Len(connections'[c]) = Cardinality(LinesOf(c, ith)')
    <3>1. CASE c = cli
      BY <1>2, <1>4, <2>2, <2>3, <2>5, <2>6, <3>1
    <3>2. CASE c # cli
      <4>1. c \in DOMAIN connections /\ connections'[c] = connections[c]
        BY <2>2, <3>2
      <4>2. Cardinality(LinesOf(c, n)) = Cardinality(LinesOf(c, ith))
        BY <1>2, <3>2, LinesNext
      <4> QED BY <1>2, <1>4, <1>7, <4>1, <4>2
    <3> QED BY <3>1, <3>2
  <2>8. ASSUME NEW k \in ClientLines'
        PROVE  data[k].hostname \in DOMAIN connections' /\ ConnOf(k)' = MadeOf(k)
    <3> DEFINE h == data[k].hostname
               p == Cardinality(LinesOf(h, k))
    <3>1. ConnOf(k)' = connections'[h][p]
      BY <1>2, <1>4 DEF ConnOf
    <3>2. CASE k = n
      <4>1. p = Len(before) + 1
        BY <2>3, <2>6, <3>2
      <4>2. after[Len(before) + 1] = MadeOf(n)
        BY <2>3, <2>4
      <4> QED BY <2>2, <3>1, <3>2, <4>1, <4>2
    <3>3. CASE k # n
      <4>1. k \in ClientLines /\ k \in 1 .. ith
        BY <1>9, <1>10, <3>3 DEF ClientLines
      <4>2. h \in DOMAIN connections /\ connections[h][p] = MadeOf(k)
        BY <1>8, <4>1 DEF ConnOf
      <4>3. CASE h = cli
        <5>1. k \in LinesOf(h, k)
          BY <4>1 DEF LinesOf, ClientLines
        <5>2. p \in Nat /\ p > 0
          BY <4>1, <5>1, LinesFinite
        <5>3. p <= Cardinality(LinesOf(h, ith))
          BY <1>2, <4>1, LinesFinite
        <5>4. before = connections[h]
          BY <4>2, <4>3 DEF before
        <5> HIDE DEF p
        <5>5. Len(before) \in Nat /\ p \in 1 .. Len(before)
          BY <2>3, <4>3, <5>2, <5>3
        <5>6. after[p] = before[p]
          BY <2>3, <2>4, <5>5
        <5> QED BY <2>2, <3>1, <4>2, <4>3, <5>4, <5>6
      <4>4. CASE h # cli
        BY <2>2, <3>1, <4>2, <4>4
      <4> QED BY <4>3, <4>4
    <3> QED BY <3>2, <3>3
  <2>9. AnalyzedSoFar'
    <3>1. \A k \in ClientLines' : /\ data'[k].hostname \in DOMAIN connections'
                                  /\ ConnOf(k)' = MadeOf(k)'
      BY <1>2, <1>4, <2>8
    <3> QED BY <1>1, <1>2, <1>5, <1>6, <2>7, <3>1 DEF AnalyzedSoFar
  <2>10. TablesGrow'
    BY <1>2, <2>2 DEF PInv, TablesGrow
  <2> QED BY <2>9, <2>10
<1> QED BY <1>11, <1>12

\* A log is opened: nothing of it was counted before.
LEMMA OpenLog == ASSUME NEW s0 \in Server
                 PROVE  LogsSoFar /\ realConnectionsParser(s0) => LogsSoFar'
<1> SUFFICES ASSUME LogsSoFar, realConnectionsParser(s0) PROVE LogsSoFar'
  OBVIOUS
<1>1. /\ open = NULL /\ s0 \in files /\ files' = files \ {s0} /\ open' = s0
      /\ realConnections' = realConnections /\ real' = real
  BY DEF realConnectionsParser
<1>2. \A c \in Client : real[<<s0, c>>] = 0
  BY <1>1 DEF LogsSoFar
<1>3. \A c \in DOMAIN realConnections : ~ (real[<<s0, c>>] > 0)
  BY <1>2 DEF LogsSoFar
<1> QED BY <1>1, <1>3 DEF LogsSoFar

\* A log is closed.
LEMMA CloseLog == LogsSoFar /\ updateRealConnections_close => LogsSoFar'
BY PynalyzerAssumption DEF LogsSoFar, updateRealConnections_close

\* A line of the open log: if it is not the client's first there, the client is
\* known under this log and the count goes on; if it is, the count starts anew.
LEMMA CountLine == ASSUME NEW key \in Client
                   PROVE  LogsSoFar /\ updateRealConnections(key) => LogsSoFar'
<1> SUFFICES ASSUME LogsSoFar, updateRealConnections(key) PROVE LogsSoFar'
  OBVIOUS
<1> DEFINE o == open
           old == real[<<o, key>>]
           rc == realConnections
<1>1. /\ o \in Server /\ open' = open /\ files' = files /\ o \notin files
      /\ files \subseteq Server /\ DOMAIN rc \subseteq Client
  BY DEF updateRealConnections, LogsSoFar
<1>2. /\ real \in [Server \X Client -> 0 .. MaxReal] /\ MaxReal \in Nat /\ old < MaxReal
      /\ real' = [real EXCEPT ![<<o, key>>] = old + 1]
  BY PynalyzerAssumption DEF updateRealConnections, LogsSoFar
<1>3. old \in 0 .. MaxReal
  BY <1>1, <1>2
<1>4. real' \in [Server \X Client -> 0 .. MaxReal]
  <2>1. old + 1 \in 0 .. MaxReal
    BY <1>2, <1>3
  <2> HIDE DEF old
  <2> QED BY <1>2, <2>1
<1>5. /\ real'[<<o, key>>] = old + 1
      /\ \A s \in Server, c \in Client : <<s, c>> # <<o, key>> => real'[<<s, c>>] = real[<<s, c>>]
  BY <1>1, <1>2
<1>6. \A c \in DOMAIN rc : \E s \in Server :
        /\ DOMAIN rc[c] = {s} /\ rc[c][s] = real[<<s, c>>] /\ real[<<s, c>>] > 0
        /\ real[<<o, c>>] > 0 => s = o
  BY <1>1, PynalyzerAssumption DEF LogsSoFar
<1>7. rc' = Counted(key, o)
  BY DEF updateRealConnections
<1>8. /\ DOMAIN rc' = DOMAIN rc \cup {key}
      /\ \A c \in DOMAIN rc : c # key => rc'[c] = rc[c]
  BY <1>7 DEF Counted, Put
<1>9. DOMAIN rc'[key] = {o} /\ rc'[key][o] = old + 1
  <2>1. CASE key \in DOMAIN rc /\ o \in DOMAIN rc[key]
    <3>1. rc' = Put(rc, key, Put(rc[key], o, rc[key][o] + 1))
      BY <1>7, <2>1 DEF Counted
    <3>2. rc'[key] = Put(rc[key], o, rc[key][o] + 1)
      BY <3>1 DEF Put
    <3>3. DOMAIN rc[key] = {o} /\ rc[key][o] = old
      BY <1>6, <2>1
    <3> QED BY <3>2, <3>3 DEF Put
  <2>2. CASE ~ (key \in DOMAIN rc /\ o \in DOMAIN rc[key])
    <3>1. rc' = Put(rc, key, Put(<< >>, o, 1))
      BY <1>7, <2>2 DEF Counted
    <3>2. rc'[key] = Put(<< >>, o, 1)
      BY <3>1 DEF Put
    <3>3. ~ (old > 0)
      <4>1. SUFFICES ASSUME old > 0 PROVE FALSE
        OBVIOUS
      <4>2. key \in DOMAIN rc
        BY <1>1, <4>1 DEF LogsSoFar
      <4>3. o \in DOMAIN rc[key]
        BY <1>6, <4>1, <4>2
      <4> QED BY <2>2, <4>2, <4>3
    <3>4. old = 0
      BY <1>3, <3>3
    <3> QED BY <3>2, <3>4 DEF Put
  <2> QED BY <2>1, <2>2
<1>10. \A s \in files, c \in Client : real'[<<s, c>>] = 0
  <2> SUFFICES ASSUME NEW s \in files, NEW c \in Client PROVE real'[<<s, c>>] = 0
    OBVIOUS
  <2>1. s \in Server /\ s # o /\ real[<<s, c>>] = 0
    BY <1>1 DEF LogsSoFar
  <2> QED BY <1>5, <2>1
<1>11. \A s \in Server, c \in Client : real'[<<s, c>>] > 0 => c \in DOMAIN rc'
  <2> SUFFICES ASSUME NEW s \in Server, NEW c \in Client, real'[<<s, c>>] > 0, c # key
               PROVE  c \in DOMAIN rc'
    BY <1>8
  <2>1. real[<<s, c>>] > 0
    BY <1>5
  <2> QED BY <1>8, <2>1 DEF LogsSoFar
<1>12. ASSUME NEW c \in DOMAIN rc'
       PROVE  \E s \in Server : /\ DOMAIN rc'[c] = {s} /\ rc'[c][s] = real'[<<s, c>>]
                                /\ real'[<<s, c>>] > 0
                                /\ real'[<<o, c>>] > 0 => s = o
  <2>1. CASE c = key
    <3>1. old + 1 > 0
      BY <1>3
    <3> QED BY <1>1, <1>5, <1>9, <2>1, <3>1
  <2>2. CASE c # key
    <3>1. c \in DOMAIN rc /\ rc'[c] = rc[c] /\ c \in Client
      BY <1>1, <1>8, <2>2
    <3>2. \A s \in Server : real'[<<s, c>>] = real[<<s, c>>]
      BY <1>5, <2>2, <3>1
    <3> QED BY <1>1, <1>6, <3>1, <3>2
  <2> QED BY <2>1, <2>2
<1>13. DOMAIN rc' \subseteq Client
  BY <1>1, <1>8
<1> HIDE DEF old
<1> QED BY <1>1, <1>4, <1>10, <1>11, <1>12, <1>13, PynalyzerAssumption DEF LogsSoFar

\* Each step keeps the invariant.
LEMMA NextPInv == PInv /\ [Next]_vars => PInv'
<1> SUFFICES ASSUME PInv, [Next]_vars PROVE PInv'
  OBVIOUS
<1> USE DEF PInv
<1>1. CASE analyze
  <2>1. LogsSoFar'
    BY <1>1 DEF analyze, LogsSoFar, realVars
  <2> QED BY <1>1, <2>1, AnalyzeLine
<1>2. ASSUME getAllServers_visit \/ \E c \in Client : candidateRankings(c) PROVE PInv'
  <2>1. /\ UNCHANGED <<data, ith, connections, clients_stat, realVars>>
        /\ client' = client \/ client' \in DOMAIN connections
    BY <1>2 DEF getAllServers_visit, candidateRankings
  <2>2. AnalyzedSoFar'
    BY <2>1, SameAnalyzed
  <2>3. TablesGrow' /\ LogsSoFar'
    BY <2>1 DEF TablesGrow, LogsSoFar, realVars
  <2> QED BY <2>2, <2>3
<1>8. CASE getAllServers_sort
  <2>1. /\ UNCHANGED <<data, ith, connections, realVars>>
        /\ DOMAIN clients_stat' = DOMAIN clients_stat \cup {client}
        /\ client # NULL /\ client' = NULL
    BY <1>8 DEF getAllServers_sort, Put
  <2>2. AnalyzedSoFar'
    BY <2>1, SameAnalyzed
  <2>3. TablesGrow'
    BY <2>1 DEF TablesGrow, realVars
  <2>4. LogsSoFar'
    BY <2>1 DEF LogsSoFar, realVars
  <2> QED BY <2>2, <2>3, <2>4
<1>3. ASSUME NEW c \in Client, updateRealConnections(c) PROVE PInv'
  <2>1. AnalyzedSoFar'
    BY <1>3, SameAnalyzed DEF updateRealConnections
  <2>2. TablesGrow'
    BY <1>3 DEF updateRealConnections, TablesGrow, rankVars
  <2> QED BY <1>3, <2>1, <2>2, CountLine
<1>4. ASSUME NEW c \in Client, match(c) PROVE PInv'
  <2>1. AnalyzedSoFar'
    BY <1>4, SameAnalyzed DEF match
  <2>2. c \in DOMAIN clients_stat /\ DOMAIN maccuracy' = DOMAIN maccuracy \cup {c}
    BY <1>4 DEF match, Put
  <2>3. TablesGrow'
    BY <1>4, <2>2 DEF match, TablesGrow, rankVars
  <2>4. LogsSoFar'
    BY <1>4 DEF match, LogsSoFar
  <2> QED BY <2>1, <2>3, <2>4
<1>5. ASSUME NEW s \in Server, realConnectionsParser(s) PROVE PInv'
  <2>1. AnalyzedSoFar'
    BY <1>5, SameAnalyzed DEF realConnectionsParser
  <2>2. TablesGrow'
    BY <1>5 DEF realConnectionsParser, TablesGrow, rankVars
  <2> QED BY <1>5, <2>1, <2>2, OpenLog
<1>6. CASE updateRealConnections_close
  <2>1. AnalyzedSoFar'
    BY <1>6, SameAnalyzed DEF updateRealConnections_close
  <2>2. TablesGrow'
    BY <1>6 DEF updateRealConnections_close, TablesGrow, rankVars
  <2> QED BY <1>6, <2>1, <2>2, CloseLog
<1>7. CASE UNCHANGED vars
  <2>1. AnalyzedSoFar'
    BY <1>7, SameAnalyzed DEF vars
  <2> QED BY <1>7, <2>1 DEF vars, rankVars, realVars, TablesGrow, LogsSoFar
<1> QED BY <1>1, <1>2, <1>3, <1>4, <1>5, <1>6, <1>7, <1>8 DEF Next

\* The invariant holds throughout.
LEMMA SpecPInv == Spec => []PInv
BY InitPInv, NextPInv, PTL DEF Spec

-----------------------------------------------------------------------------
(* The ranking. *)

\* Every connection of a client was made of one of its own lines.
OwnLines ==
    \A c \in DOMAIN connections :
      /\ Len(connections[c]) > 0
      /\ \A j \in 1 .. Len(connections[c]) : \E k \in LinesOf(c, ith) : connections[c][j] = MadeOf(k)

\* Server s is a candidate of the j-th connection of c, and with which probability.
Candidate(c, j, s) == s \in DOMAIN connections[c][j].servers
ProbOf(c, j, s) == connections[c][j].servers[s].prob

\* Among the first i connections of c, server s is a candidate of all with
\* probability p; of none with more.
Steady(c, i, s, p) == \A j \in 1 .. i : Candidate(c, j, s) /\ ProbOf(c, j, s) = p
AtMost(c, i, s, p) == \A j \in 1 .. i : Candidate(c, j, s) => ProbOf(c, j, s) <= p

\* What is known of s after i connections of c: the sum is as large as it can be
\* exactly for a steady server, and that one has no gap.
InfoOK(info, c, i, s) ==
    /\ info.sum \in Nat /\ info.gap \in Nat /\ info.last_prob \in Nat
    /\ info.nconns \in Nat \ {0}
    /\ \A p \in 1 .. THRESHOLD_MAX : AtMost(c, i, s, p) =>
         info.sum <= p * i /\ (info.sum = p * i => Steady(c, i, s, p))
    /\ \A p \in 1 .. THRESHOLD_MAX : Steady(c, i, s, p) =>
         info.sum = p * i /\ info.gap = 0 /\ info.nconns = i /\ info.last_prob = p

\* The loop of getAllServers, after its first cliconn connections.
Collecting ==
    /\ cliconn \in Nat
    /\ client = NULL => cliconn = 0 /\ servers_infos = << >>
    /\ client # NULL =>
         /\ Analyzed /\ client \in DOMAIN connections \ DOMAIN clients_stat
         /\ cliconn <= Len(connections[client])
         /\ DOMAIN servers_infos =
              {s \in Server : \E j \in 1 .. cliconn : Candidate(client, j, s)}
         /\ \A s \in DOMAIN servers_infos :
              InfoOK(servers_infos[s], client, cliconn, s)

\* The ranking of c: its first server is a candidate, and a steady one if any
\* is, with none more probable.
RankedOK(c) ==
    LET n == Len(connections[c])
        r == clients_stat[c]
    IN  /\ r # <<>> =>
             /\ r[1].server \in Server /\ r[1].nconns \in Nat \ {0}
             /\ \E j \in 1 .. n : Candidate(c, j, r[1].server)
             /\ \A p \in 1 .. THRESHOLD_MAX : Steady(c, n, r[1].server, p) => r[1].nconns = n
        /\ \A h \in Server, p \in 1 .. THRESHOLD_MAX :
             Steady(c, n, h, p) /\ (\A s \in Server : AtMost(c, n, s, p)) =>
               r # <<>> /\ Steady(c, n, r[1].server, p)

RankedSoFar == \A c \in DOMAIN clients_stat : Analyzed /\ RankedOK(c)

\* The clients compared so far.
Compared ==
    \A c \in DOMAIN maccuracy :
      /\ RealKnown
      /\ c \in DOMAIN realConnections /\ clients_stat[c] # <<>> =>
           \E realsv \in DOMAIN realConnections[c] :
             maccuracy[c] = Accuracy(clients_stat[c][1], realsv, realConnections[c][realsv])
      /\ ~ (c \in DOMAIN realConnections /\ clients_stat[c] # <<>>) => maccuracy[c] = NULL

QInv == OwnLines /\ Collecting /\ RankedSoFar /\ Compared

\* A line that is analyzed is its own client's.
LEMMA AnalyzeOwn == ASSUME PInv, OwnLines, analyze PROVE OwnLines'
<1> DEFINE n == ith + 1
           cli == data[n].hostname
           before == IF cli \in DOMAIN connections THEN connections[cli] ELSE << >>
           Made == {MadeOf(k) : k \in DOMAIN data}
<1>1. data \in Seq(Line) /\ ith \in 0 .. Len(data) /\ Len(data) \in Nat
  BY DEF PInv, AnalyzedSoFar
<1>2. ith' = n /\ n \in DOMAIN data /\ ith \in Nat /\ data' = data
  BY <1>1 DEF analyze
<1>3. connections' = IF data[n].side # "c" THEN connections
                     ELSE Put(connections, cli, Append(before, MadeOf(n)))
  BY <1>2 DEF analyze, MadeOf
<1>4. /\ \A k : MadeOf(k)' = MadeOf(k)
      /\ \A c, m : LinesOf(c, m)' = LinesOf(c, m)
  BY <1>2, SameMade
<1>5. \A c : LinesOf(c, ith)' = LinesOf(c, n)
  BY <1>2 DEF LinesOf
<1>6. \A c : LinesOf(c, ith) \subseteq LinesOf(c, n)
  BY <1>2 DEF LinesOf
<1>7. ASSUME NEW c \in DOMAIN connections
      PROVE  /\ Len(connections[c]) > 0
             /\ \A j \in 1 .. Len(connections[c]) :
                  \E k \in LinesOf(c, n) : connections[c][j] = MadeOf(k)
  BY <1>6, <1>7 DEF OwnLines
<1>8. CASE data[n].side # "c"
  <2>1. connections' = connections
    BY <1>3, <1>8
  <2> QED BY <1>4, <1>5, <1>7, <2>1 DEF OwnLines
<1>9. CASE data[n].side = "c"
  <2>1. PICK a : a = Append(before, MadeOf(n))
    OBVIOUS
  <2>2. /\ DOMAIN connections' = DOMAIN connections \cup {cli} /\ connections'[cli] = a
        /\ \A c \in DOMAIN connections : c # cli => connections'[c] = connections[c]
    <3>1. connections' = Put(connections, cli, a)
      BY <1>3, <1>9, <2>1
    <3> HIDE DEF cli, before
    <3> QED BY <3>1 DEF Put
  <2>3. before \in Seq(Made)
    <3>1. CASE cli \in DOMAIN connections
      BY <3>1 DEF PInv, AnalyzedSoFar
    <3>2. CASE cli \notin DOMAIN connections
      BY <3>2
    <3> QED BY <3>1, <3>2
  <2>4. \A j \in 1 .. Len(before) : \E k \in LinesOf(cli, n) : before[j] = MadeOf(k)
    <3>1. CASE cli \in DOMAIN connections
      BY <1>7, <3>1
    <3>2. CASE cli \notin DOMAIN connections
      BY <3>2
    <3> QED BY <3>1, <3>2
  <2>5. MadeOf(n) \in Made
    BY <1>2
  <2>6. n \in LinesOf(cli, n)
    BY <1>2, <1>9 DEF LinesOf
  <2> HIDE DEF before, Made
  <2>7. PICK l \in Nat : l = Len(before)
    BY <2>3
  <2>8. Len(a) = l + 1 /\ a[l + 1] = MadeOf(n) /\ \A j \in 1 .. l : a[j] = before[j]
    BY <2>1, <2>3, <2>5, <2>7
  <2>9. Len(a) > 0 /\ \A j \in 1 .. Len(a) : j = l + 1 \/ j \in 1 .. l
    BY <2>7, <2>8
  <2>10. \A j \in 1 .. Len(a) : \E k \in LinesOf(cli, n) : a[j] = MadeOf(k)
    BY <2>4, <2>6, <2>7, <2>8, <2>9
  <2>11. ASSUME NEW c \in DOMAIN connections'
         PROVE  /\ Len(connections'[c]) > 0
                /\ \A j \in 1 .. Len(connections'[c]) :
                     \E k \in LinesOf(c, n) : connections'[c][j] = MadeOf(k)
    <3>1. CASE c = cli
      BY <2>2, <2>9, <2>10, <3>1
    <3>2. CASE c # cli
      BY <1>7, <2>2, <3>2
    <3> QED BY <3>1, <3>2
  <2> QED BY <1>4, <1>5, <2>11 DEF OwnLines
<1> QED BY <1>8, <1>9

\* The other steps leave the connections alone.
LEMMA SameOwn ==
    ASSUME OwnLines, UNCHANGED <<data, ith, connections>> PROVE OwnLines'
<1>1. /\ \A k : MadeOf(k)' = MadeOf(k)
      /\ \A c : LinesOf(c, ith)' = LinesOf(c, ith)
  BY SameMade DEF LinesOf
<1> QED BY <1>1 DEF OwnLines

\* Products, by one factor more.
LEMMA Times ==
    /\ \A p, i \in Nat : p * i \in Nat /\ p * (i + 1) = p * i + p
    /\ \A p \in Nat : p * 1 = p /\ p * 0 = 0
<1>1. \A p, i \in Nat : p * i \in Nat
  OBVIOUS
<1>2. \A p, i \in Nat : p * (i + 1) = p * i + p
  OBVIOUS
<1> QED BY <1>1, <1>2

\* One connection more.
LEMMA OneMore ==
    ASSUME NEW c, NEW i \in Nat, NEW s, NEW p
    PROVE  /\ Steady(c, i + 1, s, p) <=>
                Steady(c, i, s, p) /\ Candidate(c, i + 1, s) /\ ProbOf(c, i + 1, s) = p
           /\ AtMost(c, i + 1, s, p) <=>
                AtMost(c, i, s, p) /\ (Candidate(c, i + 1, s) => ProbOf(c, i + 1, s) <= p)
<1>1. \A j : j \in 1 .. i + 1 <=> j \in 1 .. i \/ j = i + 1
  OBVIOUS
<1>2. Steady(c, i + 1, s, p) <=>
        Steady(c, i, s, p) /\ Candidate(c, i + 1, s) /\ ProbOf(c, i + 1, s) = p
  BY <1>1, Zenon DEF Steady
<1>3. AtMost(c, i + 1, s, p) <=>
        AtMost(c, i, s, p) /\ (Candidate(c, i + 1, s) => ProbOf(c, i + 1, s) <= p)
  BY <1>1, Zenon DEF AtMost
<1> QED BY <1>2, <1>3

\* A connection that s is no candidate of: the sum falls behind.
LEMMA SkipInfo ==
    ASSUME NEW c, NEW i \in Nat, NEW s, NEW info, InfoOK(info, c, i, s),
           ~ Candidate(c, i + 1, s)
    PROVE  InfoOK(info, c, i + 1, s)
<1>1. /\ info.sum \in Nat /\ info.gap \in Nat /\ info.last_prob \in Nat
      /\ info.nconns \in Nat \ {0}
  BY DEF InfoOK
<1>2. ASSUME NEW p \in 1 .. THRESHOLD_MAX PROVE ~ Steady(c, i + 1, s, p)
  BY OneMore
<1>3. ASSUME NEW p \in 1 .. THRESHOLD_MAX, AtMost(c, i + 1, s, p)
      PROVE  info.sum <= p * (i + 1) /\ info.sum # p * (i + 1)
  <2>1. AtMost(c, i, s, p)
    BY <1>3, OneMore
  <2>2. info.sum <= p * i
    BY <2>1 DEF InfoOK
  <2>3. PICK t : t = p * i
    OBVIOUS
  <2>4. p \in Nat /\ p > 0
    BY PynalyzerAssumption
  <2>5. t \in Nat /\ p * (i + 1) = t + p
    BY <2>3, <2>4, Times
  <2> QED BY <1>1, <2>2, <2>3, <2>4, <2>5
<1> QED BY <1>1, <1>2, <1>3 DEF InfoOK

\* A connection that s is a candidate of, not the first one.
LEMMA AddInfo ==
    ASSUME NEW c, NEW i \in Nat, NEW s, NEW info, InfoOK(info, c, i, s),
           Candidate(c, i + 1, s), NEW q \in 1 .. THRESHOLD_MAX, q = ProbOf(c, i + 1, s)
    PROVE  InfoOK(Added(info, q), c, i + 1, s)
<1> DEFINE new == Added(info, q)
<1>1. /\ info.sum \in Nat /\ info.gap \in Nat /\ info.last_prob \in Nat
      /\ info.nconns \in Nat \ {0}
  BY DEF InfoOK
<1>2. q \in Nat /\ q > 0
  BY PynalyzerAssumption
<1>3. /\ new.sum = info.sum + q /\ new.nconns = info.nconns + 1 /\ new.last_prob = q
      /\ new.gap = info.gap + (IF q - info.last_prob < 0 THEN - (q - info.last_prob)
                                                         ELSE q - info.last_prob)
  BY DEF Added
<1> HIDE DEF new
<1>4. new.sum \in Nat /\ new.gap \in Nat /\ new.last_prob \in Nat /\ new.nconns \in Nat \ {0}
  BY <1>1, <1>2, <1>3
<1>5. ASSUME NEW p \in 1 .. THRESHOLD_MAX, AtMost(c, i + 1, s, p)
      PROVE  new.sum <= p * (i + 1) /\ (new.sum = p * (i + 1) => Steady(c, i + 1, s, p))
  <2>1. AtMost(c, i, s, p) /\ q <= p
    BY <1>5, OneMore
  <2>2. info.sum <= p * i /\ (info.sum = p * i => Steady(c, i, s, p))
    BY <2>1 DEF InfoOK
  <2>3. PICK t : t = p * i
    OBVIOUS
  <2>4. p \in Nat
    BY PynalyzerAssumption
  <2>5. t \in Nat /\ p * (i + 1) = t + p
    BY <2>3, <2>4, Times
  <2>6. new.sum <= t + p /\ (new.sum = t + p => info.sum = t /\ q = p)
    BY <1>1, <1>2, <1>3, <2>1, <2>2, <2>3, <2>4, <2>5
  <2>7. info.sum = t /\ q = p => Steady(c, i + 1, s, p)
    BY <2>2, <2>3, OneMore
  <2> QED BY <2>5, <2>6, <2>7
<1>6. ASSUME NEW p \in 1 .. THRESHOLD_MAX, Steady(c, i + 1, s, p)
      PROVE  /\ new.sum = p * (i + 1) /\ new.gap = 0 /\ new.nconns = i + 1
             /\ new.last_prob = p
  <2>1. Steady(c, i, s, p) /\ q = p
    BY <1>6, OneMore
  <2>2. info.sum = p * i /\ info.gap = 0 /\ info.nconns = i /\ info.last_prob = p
    BY <2>1 DEF InfoOK
  <2>3. p * (i + 1) = p * i + p
    BY <1>2, <2>1, Times
  <2>4. new.gap = 0
    BY <1>2, <1>3, <2>1, <2>2
  <2> QED BY <1>3, <2>1, <2>2, <2>3, <2>4
<1> QED BY <1>4, <1>5, <1>6 DEF InfoOK, new

\* The first connection that s is a candidate of.
LEMMA FirstInfo ==
    ASSUME NEW c, NEW i \in Nat, NEW s, \A j \in 1 .. i : ~ Candidate(c, j, s),
           Candidate(c, i + 1, s), NEW q \in 1 .. THRESHOLD_MAX, q = ProbOf(c, i + 1, s)
    PROVE  InfoOK(Added(FirstVisit(q), q), c, i + 1, s)
<1> DEFINE new == Added(FirstVisit(q), q)
<1>1. q \in Nat /\ q > 0
  BY PynalyzerAssumption
<1>2. new.sum = q /\ new.nconns = 1 /\ new.last_prob = q /\ new.gap = 0
  BY <1>1 DEF Added, FirstVisit
<1> HIDE DEF new
<1>3. ASSUME NEW p \in 1 .. THRESHOLD_MAX, AtMost(c, i + 1, s, p)
      PROVE  new.sum <= p * (i + 1) /\ (new.sum = p * (i + 1) => Steady(c, i + 1, s, p))
  <2>1. q <= p
    BY <1>3, OneMore
  <2>2. PICK t : t = p * i
    OBVIOUS
  <2>3. p \in Nat /\ p > 0
    BY PynalyzerAssumption
  <2>4. t \in Nat /\ p * (i + 1) = t + p
    BY <2>2, <2>3, Times
  <2>5. new.sum <= t + p /\ (new.sum = t + p => t = 0 /\ q = p)
    BY <1>1, <1>2, <2>1, <2>3, <2>4
  <2>6. t = 0 => i = 0
    BY <2>2, <2>3
  <2>7. i = 0 /\ q = p => Steady(c, i + 1, s, p)
    <3>1. i = 0 => Steady(c, i, s, p)
      BY DEF Steady
    <3> QED BY <3>1, OneMore
  <2> QED BY <2>4, <2>5, <2>6, <2>7
<1>4. ASSUME NEW p \in 1 .. THRESHOLD_MAX, Steady(c, i + 1, s, p)
      PROVE  /\ new.sum = p * (i + 1) /\ new.gap = 0 /\ new.nconns = i + 1
             /\ new.last_prob = p
  <2>1. Steady(c, i, s, p) /\ q = p
    BY <1>4, OneMore
  <2>2. i = 0
    BY <2>1 DEF Steady
  <2>3. p * (i + 1) = p
    BY <1>1, <2>1, <2>2
  <2> QED BY <1>2, <2>1, <2>2, <2>3
<1> QED BY <1>1, <1>2, <1>3, <1>4 DEF InfoOK, new

\* The candidates of a connection are servers, with probabilities in their range.
LEMMA CandidateIs ==
    ASSUME PInv, NEW c \in DOMAIN connections, NEW j \in 1 .. Len(connections[c])
    PROVE  /\ DOMAIN connections[c][j].servers \subseteq Server
           /\ \A s : Candidate(c, j, s) =>
                /\ ProbOf(c, j, s) \in 1 .. THRESHOLD_MAX - THRESHOLD_MIN - 1
                /\ ProbOf(c, j, s) \in 1 .. THRESHOLD_MAX
<1> DEFINE Made == {MadeOf(k) : k \in DOMAIN data}
<1>1. connections[c] \in Seq(Made) /\ data \in Seq(Line)
  BY DEF PInv, AnalyzedSoFar
<1> HIDE DEF Made
<1>2. connections[c][j] \in Made
  BY <1>1
<1>3. PICK k \in DOMAIN data : connections[c][j] = MadeOf(k)
  BY <1>2 DEF Made
<1>4. DOMAIN MadeOf(k).servers \subseteq Server
  BY ForwardIs DEF MadeOf
<1>5. ASSUME NEW s \in DOMAIN MadeOf(k).servers
      PROVE  /\ MadeOf(k).servers[s].prob \in 1 .. THRESHOLD_MAX - THRESHOLD_MIN - 1
             /\ MadeOf(k).servers[s].prob \in 1 .. THRESHOLD_MAX
  <2>1. MadeOf(k).servers[s].prob \in 1 .. THRESHOLD_MAX - THRESHOLD_MIN - 1
    BY <1>1, MadeProb
  <2> QED BY <2>1, PynalyzerAssumption
<1> QED BY <1>3, <1>4, <1>5 DEF Candidate, ProbOf

\* The number of connections of a client.
LEMMA ConnectionsAre ==
    ASSUME PInv, NEW c \in DOMAIN connections
    PROVE  Len(connections[c]) \in Nat /\ Len(connections[c]) <= Len(data)
<1>1. data \in Seq(Line) /\ ith \in 0 .. Len(data) /\ Len(data) \in Nat /\ ith \in Nat
  BY DEF PInv, AnalyzedSoFar
<1>2. Len(connections[c]) = Cardinality(LinesOf(c, ith))
  BY DEF PInv, AnalyzedSoFar
<1>3. IsFiniteSet(1 .. ith) /\ Cardinality(1 .. ith) = ith
  BY <1>1, FS_Interval
<1>4. LinesOf(c, ith) \in SUBSET (1 .. ith)
  BY DEF LinesOf
<1>5. Cardinality(LinesOf(c, ith)) <= ith
  BY <1>3, <1>4, FS_Subset
<1>6. Cardinality(LinesOf(c, ith)) \in Nat
  BY <1>1, LinesFinite
<1> QED BY <1>1, <1>2, <1>5, <1>6

\* One connection is visited.
LEMMA VisitStep == ASSUME PInv, Collecting, getAllServers_visit PROVE Collecting'
<1>1. PICK c \in DOMAIN connections : c = client
  BY DEF getAllServers_visit, Collecting
<1>2. PICK i \in Nat : i = cliconn
  BY DEF Collecting
<1>3. PICK sv : sv = connections[c][i + 1].servers
  OBVIOUS
<1>4. /\ c # NULL /\ i < Len(connections[c]) /\ cliconn' = i + 1
      /\ servers_infos' = Visit(servers_infos, sv)
      /\ UNCHANGED <<data, ith, connections, clients_stat, client>>
  BY <1>1, <1>2, <1>3 DEF getAllServers_visit
<1>5. /\ Analyzed /\ c \notin DOMAIN clients_stat
      /\ DOMAIN servers_infos = {s \in Server : \E j \in 1 .. i : Candidate(c, j, s)}
      /\ \A s \in DOMAIN servers_infos : InfoOK(servers_infos[s], c, i, s)
  BY <1>1, <1>2, <1>4 DEF Collecting
<1>6. Len(connections[c]) \in Nat /\ i + 1 \in 1 .. Len(connections[c])
  BY <1>4, ConnectionsAre
<1>7. /\ DOMAIN sv \subseteq Server
      /\ \A s \in DOMAIN sv : Candidate(c, i + 1, s) /\ sv[s].prob = ProbOf(c, i + 1, s)
                              /\ sv[s].prob \in 1 .. THRESHOLD_MAX
      /\ \A s : Candidate(c, i + 1, s) => s \in DOMAIN sv
  BY <1>3, <1>6, CandidateIs DEF Candidate, ProbOf
<1>8. DOMAIN servers_infos' = {s \in Server : \E j \in 1 .. i + 1 : Candidate(c, j, s)}
  <2>1. DOMAIN servers_infos' = DOMAIN servers_infos \cup DOMAIN sv
    BY <1>4 DEF Visit
  <2>2. \A j : j \in 1 .. i + 1 <=> j \in 1 .. i \/ j = i + 1
    BY <1>2
  <2> QED BY <1>5, <1>7, <2>1, <2>2
<1>9. ASSUME NEW s \in DOMAIN servers_infos'
      PROVE  InfoOK(servers_infos'[s], c, i + 1, s)
  <2>1. s \in DOMAIN servers_infos \cup DOMAIN sv
    BY <1>4 DEF Visit
  <2>2. CASE s \notin DOMAIN sv
    <3>1. s \in DOMAIN servers_infos /\ servers_infos'[s] = servers_infos[s]
      BY <1>4, <2>1, <2>2 DEF Visit
    <3>2. ~ Candidate(c, i + 1, s)
      BY <1>7, <2>2
    <3> QED BY <1>5, <3>1, <3>2, SkipInfo
  <2>3. CASE s \in DOMAIN sv /\ s \in DOMAIN servers_infos
    <3>1. servers_infos'[s] = Added(servers_infos[s], sv[s].prob)
      BY <1>4, <2>1, <2>3 DEF Visit
    <3> QED BY <1>5, <1>7, <2>3, <3>1, AddInfo
  <2>4. CASE s \in DOMAIN sv /\ s \notin DOMAIN servers_infos
    <3>1. servers_infos'[s] = Added(FirstVisit(sv[s].prob), sv[s].prob)
      BY <1>4, <2>1, <2>4 DEF Visit
    <3>2. \A j \in 1 .. i : ~ Candidate(c, j, s)
      BY <1>5, <1>7, <2>4
    <3> QED BY <1>7, <2>4, <3>1, <3>2, FirstInfo
  <2> QED BY <2>1, <2>2, <2>3, <2>4
<1>10. /\ \A j, s : Candidate(c, j, s)' <=> Candidate(c, j, s)
       /\ \A j, s : ProbOf(c, j, s)' = ProbOf(c, j, s)
  BY <1>4 DEF Candidate, ProbOf
<1>11. \A s, p : /\ Steady(c, i + 1, s, p)' <=> Steady(c, i + 1, s, p)
                 /\ AtMost(c, i + 1, s, p)' <=> AtMost(c, i + 1, s, p)
  BY <1>10 DEF Steady, AtMost
<1>12. \A s \in DOMAIN servers_infos' : InfoOK(servers_infos[s], c, i + 1, s)'
  BY <1>9, <1>11 DEF InfoOK
<1>13. Analyzed'
  BY <1>4, <1>5 DEF Analyzed
<1>14. client' = c /\ c # NULL /\ c \in DOMAIN connections' \ DOMAIN clients_stat'
       /\ cliconn' \in Nat /\ cliconn' <= Len(connections'[c])
  BY <1>1, <1>4, <1>5, <1>6
<1>15. DOMAIN servers_infos' = {s \in Server : \E j \in 1 .. cliconn' : Candidate(client, j, s)'}
  BY <1>4, <1>8, <1>10, <1>14
<1>16. \A s \in DOMAIN servers_infos' : InfoOK(servers_infos[s], client, cliconn, s)'
  BY <1>4, <1>12, <1>14
<1> QED BY <1>13, <1>14, <1>15, <1>16 DEF Collecting

\* A ranking has every candidate in it, the first one before all others.
LEMMA SortedIs ==
    ASSUME NEW infos, IsFiniteSet(DOMAIN infos), NEW r \in sorted_servers(infos)
    PROVE  \E n \in Nat :
             /\ r \in [1 .. n -> DOMAIN infos]
             /\ \A h \in DOMAIN infos :
                  n >= 1 /\ (r[1] = h \/ Before(infos[r[1]], infos[h]))
<1> DEFINE S == DOMAIN infos
           n == Cardinality(S)
<1>1. n \in Nat
  BY FS_CardinalityType
<1>2. /\ r \in [1 .. n -> S] /\ \A i, j \in 1 .. n : i # j => r[i] # r[j]
      /\ \A i, j \in DOMAIN r : i < j => Before(infos[r[i]], infos[r[j]])
  BY DEF sorted_servers, SetToSeqs
<1> HIDE DEF n, S
<1>3. r \in Injection(1 .. n, S)
  BY <1>2 DEF Injection, IsInjective
<1>4. Cardinality(1 .. n) = n
  BY <1>1, FS_Interval
<1>5. IsFiniteSet(S) /\ Cardinality(S) = n
  BY DEF n, S
<1>6. r \in Surjection(1 .. n, S)
  BY <1>3, <1>4, <1>5, FS_Injection
<1>7. ASSUME NEW h \in S PROVE n >= 1 /\ (r[1] = h \/ Before(infos[r[1]], infos[h]))
  <2>1. PICK i \in 1 .. n : r[i] = h
    BY <1>6 DEF Surjection
  <2>2. n >= 1 /\ 1 \in 1 .. n /\ (i = 1 \/ 1 < i)
    BY <1>1, <2>1
  <2>3. DOMAIN r = 1 .. n
    BY <1>2
  <2> QED BY <1>2, <2>1, <2>2, <2>3
<1> QED BY <1>1, <1>2, <1>7 DEF S

\* A score that is no less than that of a sum as large as can be, without a gap,
\* is one of such a sum.
LEMMA BestSum ==
    ASSUME NEW a \in Nat, NEW g \in Nat, NEW m \in Nat \ {0}, NEW u \in Nat \ {0},
           a <= m, a * (0 + u) >= m * (g + u)
    PROVE  a = m
<1>1. SUFFICES ASSUME a < m PROVE FALSE
  OBVIOUS
<1>2. PICK e \in Nat \ {0} : m = a + e
  <2>1. m - a \in Nat \ {0} /\ m = a + (m - a)
    BY <1>1
  <2> QED BY <2>1
<1>3. m * (g + u) = m * g + m * u
  OBVIOUS
<1>4. m * u = a * u + e * u
  BY <1>2
<1>5. m * g \in Nat /\ a * u \in Nat /\ e * u \in Nat
  BY <1>2
<1>6. e * u # 0
  BY <1>2
<1>7. 0 + u = u
  OBVIOUS
<1>8. PICK x, y, z : x = m * g /\ y = a * u /\ z = e * u
  OBVIOUS
<1>9. y >= x + (y + z)
  BY <1>3, <1>4, <1>7, <1>8
<1> QED BY <1>5, <1>6, <1>8, <1>9

\* The candidates are ranked.
LEMMA SortStep ==
    ASSUME PInv, QInv, getAllServers_sort
    PROVE  RankedSoFar' /\ Collecting'
<1>1. PICK c \in DOMAIN connections : c = client
  BY DEF getAllServers_sort, QInv, Collecting
<1>2. PICK n : n = Len(connections[c])
  OBVIOUS
<1>3. PICK infos : infos = servers_infos
  OBVIOUS
<1>4. PICK r \in sorted_servers(infos) :
        clients_stat' = Put(clients_stat, c, candidates(infos, r))
  BY <1>1, <1>3 DEF getAllServers_sort
<1>5. /\ c # NULL /\ cliconn = n
      /\ client' = NULL /\ cliconn' = 0 /\ servers_infos' = << >>
      /\ UNCHANGED <<data, ith, connections>>
  BY <1>1, <1>2 DEF getAllServers_sort
<1>6. /\ Analyzed /\ c \notin DOMAIN clients_stat
      /\ DOMAIN infos = {s \in Server : \E j \in 1 .. n : Candidate(c, j, s)}
      /\ \A s \in DOMAIN infos : InfoOK(infos[s], c, n, s)
  BY <1>1, <1>2, <1>3, <1>5 DEF QInv, Collecting
<1>7. n \in Nat /\ n > 0
  BY <1>2, ConnectionsAre DEF QInv, OwnLines
<1>8. IsFiniteSet(DOMAIN infos)
  <2>1. DOMAIN infos \in SUBSET Server
    BY <1>6
  <2> QED BY <2>1, PynalyzerAssumption, FS_Subset
<1>9. PICK m \in Nat :
        /\ r \in [1 .. m -> DOMAIN infos]
        /\ \A h \in DOMAIN infos : m >= 1 /\ (r[1] = h \/ Before(infos[r[1]], infos[h]))
  BY <1>8, SortedIs
<1>10. PICK q : q = [i \in 1 .. m |-> [server |-> r[i], nconns |-> infos[r[i]].nconns]]
  OBVIOUS
<1>11. clients_stat' = Put(clients_stat, c, q)
  BY <1>4, <1>9, <1>10 DEF candidates
<1>12. /\ DOMAIN clients_stat' = DOMAIN clients_stat \cup {c} /\ clients_stat'[c] = q
       /\ \A d \in DOMAIN clients_stat : clients_stat'[d] = clients_stat[d]
  BY <1>6, <1>11 DEF Put
<1>13. q # <<>> => m >= 1
  <2>1. m = 0 => q = <<>>
    BY <1>10
  <2> QED BY <1>9, <2>1
<1>14. m >= 1 => /\ q # <<>> /\ r[1] \in DOMAIN infos /\ q[1].server = r[1]
                 /\ q[1].nconns = infos[r[1]].nconns
  <2>1. SUFFICES ASSUME m >= 1 PROVE /\ q # <<>> /\ r[1] \in DOMAIN infos /\ q[1].server = r[1]
                                     /\ q[1].nconns = infos[r[1]].nconns
    OBVIOUS
  <2>2. 1 \in 1 .. m
    BY <1>9, <2>1
  <2>3. q # <<>>
    BY <1>10, <2>2
  <2> QED BY <1>9, <1>10, <2>2, <2>3
<1>15. ASSUME m >= 1
       PROVE  /\ r[1] \in Server /\ infos[r[1]].nconns \in Nat \ {0}
              /\ \E j \in 1 .. n : Candidate(c, j, r[1])
              /\ \A p \in 1 .. THRESHOLD_MAX : Steady(c, n, r[1], p) => infos[r[1]].nconns = n
  <2>1. r[1] \in DOMAIN infos
    BY <1>14, <1>15
  <2>2. InfoOK(infos[r[1]], c, n, r[1])
    BY <1>6, <2>1
  <2> QED BY <1>6, <2>1, <2>2 DEF InfoOK
<1>16. ASSUME NEW h \in Server, NEW p \in 1 .. THRESHOLD_MAX, Steady(c, n, h, p),
              \A s \in Server : AtMost(c, n, s, p)
       PROVE  m >= 1 /\ Steady(c, n, r[1], p)
  <2>1. h \in DOMAIN infos
    <3>1. 1 \in 1 .. n
      BY <1>7
    <3>2. Candidate(c, 1, h)
      BY <1>16, <3>1 DEF Steady
    <3> QED BY <1>6, <3>1, <3>2
  <2>2. m >= 1 /\ (r[1] = h \/ Before(infos[r[1]], infos[h]))
    BY <1>9, <2>1
  <2>3. PICK a : a = infos[r[1]]
    OBVIOUS
  <2>4. PICK b : b = infos[h]
    OBVIOUS
  <2>5. r[1] \in DOMAIN infos /\ r[1] \in Server
    BY <1>6, <1>14, <2>2
  <2>6. InfoOK(a, c, n, r[1]) /\ InfoOK(b, c, n, h)
    BY <1>6, <2>1, <2>3, <2>4, <2>5
  <2>7. b.sum = p * n /\ b.gap = 0
    BY <1>16, <2>6 DEF InfoOK
  <2>8. /\ a.sum \in Nat /\ a.gap \in Nat /\ a.sum <= p * n
        /\ a.sum = p * n => Steady(c, n, r[1], p)
    BY <1>16, <2>5, <2>6 DEF InfoOK
  <2>9. CASE r[1] = h
    BY <1>16, <2>2, <2>9
  <2>10. CASE Before(infos[r[1]], infos[h])
    <3>1. PICK u \in Nat \ {0} : u = THRESHOLD_MAX - THRESHOLD_MIN
      BY PynalyzerAssumption
    <3>2. PICK w : w = p * n
      OBVIOUS
    <3>3. p \in Nat \ {0} /\ n \in Nat \ {0}
      BY <1>7, PynalyzerAssumption
    <3>4. w \in Nat \ {0}
      BY <3>2, <3>3
    <3>5. a.sum * (0 + u) >= w * (a.gap + u)
      BY <2>3, <2>4, <2>7, <2>10, <3>1, <3>2 DEF Before
    <3>6. a.sum = w
      BY <2>8, <3>1, <3>2, <3>4, <3>5, BestSum
    <3> QED BY <2>2, <2>8, <3>2, <3>6
  <2> QED BY <2>2, <2>9, <2>10
<1>17. \A d, j, s : (Candidate(d, j, s)' <=> Candidate(d, j, s))
                    /\ ProbOf(d, j, s)' = ProbOf(d, j, s)
  BY <1>5 DEF Candidate, ProbOf
<1>18. \A d, i, s, p : /\ Steady(d, i, s, p)' <=> Steady(d, i, s, p)
                       /\ AtMost(d, i, s, p)' <=> AtMost(d, i, s, p)
  BY <1>17 DEF Steady, AtMost
<1>19. RankedOK(c)'
  <2>1. Len(connections'[c]) = n
    BY <1>2, <1>5
  <2>2. q # <<>> => /\ q[1].server \in Server /\ q[1].nconns \in Nat \ {0}
                    /\ \E j \in 1 .. n : Candidate(c, j, q[1].server)
                    /\ \A p \in 1 .. THRESHOLD_MAX :
                          Steady(c, n, q[1].server, p) => q[1].nconns = n
    BY <1>13, <1>14, <1>15
  <2>3. \A h \in Server, p \in 1 .. THRESHOLD_MAX :
          Steady(c, n, h, p) /\ (\A s \in Server : AtMost(c, n, s, p)) =>
            q # <<>> /\ Steady(c, n, q[1].server, p)
    BY <1>14, <1>16
  <2> QED BY <1>12, <1>17, <1>18, <2>1, <2>2, <2>3 DEF RankedOK
<1>20. ASSUME NEW d \in DOMAIN clients_stat PROVE RankedOK(d)'
  <2>1. RankedOK(d) /\ clients_stat'[d] = clients_stat[d] /\ connections' = connections
    BY <1>5, <1>12 DEF QInv, RankedSoFar
  <2> QED BY <1>17, <1>18, <2>1 DEF RankedOK
<1>21. Analyzed'
  BY <1>5, <1>6 DEF Analyzed
<1>22. RankedSoFar'
  BY <1>12, <1>19, <1>20, <1>21 DEF RankedSoFar
<1>23. Collecting'
  BY <1>5 DEF Collecting
<1> QED BY <1>22, <1>23

\* A step outside of the ranking.
LEMMA RankFrame ==
    ASSUME UNCHANGED <<data, ith, connections, rankVars>>
    PROVE  (Collecting => Collecting') /\ (RankedSoFar => RankedSoFar')
<1>1. /\ data' = data /\ ith' = ith /\ connections' = connections
      /\ clients_stat' = clients_stat /\ client' = client /\ cliconn' = cliconn
      /\ servers_infos' = servers_infos
  BY DEF rankVars
<1>2. \A d, j, s : (Candidate(d, j, s)' <=> Candidate(d, j, s))
                   /\ ProbOf(d, j, s)' = ProbOf(d, j, s)
  BY <1>1 DEF Candidate, ProbOf
<1>3. \A d, i, s, p : /\ Steady(d, i, s, p)' <=> Steady(d, i, s, p)
                      /\ AtMost(d, i, s, p)' <=> AtMost(d, i, s, p)
  BY <1>2 DEF Steady, AtMost
<1>4. \A info, d, i, s : InfoOK(info, d, i, s)' <=> InfoOK(info, d, i, s)
  BY <1>3 DEF InfoOK
<1>5. Analyzed' <=> Analyzed
  BY <1>1 DEF Analyzed
<1>6. Collecting => Collecting'
  BY <1>1, <1>2, <1>4, <1>5 DEF Collecting
<1>7. \A d : RankedOK(d)' <=> RankedOK(d)
  BY <1>1, <1>2, <1>3 DEF RankedOK
<1> QED BY <1>1, <1>5, <1>6, <1>7 DEF RankedSoFar

\* Nothing is compared before all is ranked and every log was read.
LEMMA NotCompared ==
    ASSUME PInv, QInv, ~ RealKnown, maccuracy' = maccuracy
    PROVE  DOMAIN maccuracy = {} /\ Compared'
<1>1. DOMAIN maccuracy = {}
  BY DEF QInv, Compared
<1> QED BY <1>1 DEF Compared

\* Each step keeps the order of the phases and what each one found.
LEMMA NextQInv == PInv /\ QInv /\ [Next]_vars => QInv'
<1> SUFFICES ASSUME PInv, QInv, [Next]_vars PROVE QInv'
  OBVIOUS
<1>0. OwnLines /\ Collecting /\ RankedSoFar /\ Compared
  BY DEF QInv
<1>1. CASE analyze
  <2>1. ~ Analyzed /\ UNCHANGED <<rankVars, realVars>>
    <3>1. data \in Seq(Line) /\ ith \in 0 .. Len(data)
      BY DEF PInv, AnalyzedSoFar
    <3> QED BY <1>1, <3>1 DEF analyze, Analyzed
  <2>2. client = NULL /\ DOMAIN clients_stat = {} /\ ~ RealKnown
    BY <1>0, <2>1 DEF Collecting, RankedSoFar, RealKnown, Ranked
  <2>3. Compared'
    BY <2>1, <2>2, NotCompared DEF realVars
  <2>4. Collecting' /\ RankedSoFar'
    BY <1>0, <2>1, <2>2 DEF rankVars, Collecting, RankedSoFar
  <2>5. OwnLines'
    BY <1>0, <1>1, AnalyzeOwn
  <2> QED BY <2>3, <2>4, <2>5 DEF QInv
<1>2. ASSUME NEW c \in Client, candidateRankings(c) PROVE QInv'
  <2>1. /\ Analyzed /\ client = NULL /\ c \in DOMAIN connections \ DOMAIN clients_stat
        /\ client' = c /\ UNCHANGED <<data, ith, connections, clients_stat, cliconn, servers_infos>>
        /\ maccuracy' = maccuracy
    BY <1>2 DEF candidateRankings, realVars
  <2>2. OwnLines'
    BY <1>0, <2>1, SameOwn
  <2>3. ~ RealKnown
    BY <2>1 DEF RealKnown, Ranked
  <2>4. Compared'
    BY <2>1, <2>3, NotCompared
  <2>5. cliconn = 0 /\ servers_infos = << >> /\ Len(connections[c]) \in Nat
    BY <1>0, <2>1, ConnectionsAre DEF Collecting
  <2>6. Analyzed' /\ c # NULL
    BY <2>1, PynalyzerAssumption DEF Analyzed
  <2>7. Collecting'
    <3>1. DOMAIN servers_infos' = {} /\ 1 .. cliconn' = {} /\ 0 <= Len(connections[c])
      BY <2>1, <2>5
    <3> QED BY <2>1, <2>5, <2>6, <3>1 DEF Collecting
  <2>8. RankedSoFar'
    <3>1. \A d, j, s : (Candidate(d, j, s)' <=> Candidate(d, j, s))
                       /\ ProbOf(d, j, s)' = ProbOf(d, j, s)
      BY <2>1 DEF Candidate, ProbOf
    <3>2. \A d, i, s, p : /\ Steady(d, i, s, p)' <=> Steady(d, i, s, p)
                          /\ AtMost(d, i, s, p)' <=> AtMost(d, i, s, p)
      BY <3>1 DEF Steady, AtMost
    <3>3. \A d : RankedOK(d)' <=> RankedOK(d)
      BY <2>1, <3>1, <3>2 DEF RankedOK
    <3> QED BY <1>0, <2>1, <2>6, <3>3 DEF RankedSoFar
  <2> QED BY <2>2, <2>4, <2>7, <2>8 DEF QInv
<1>3. CASE getAllServers_visit \/ getAllServers_sort
  <2>1. client # NULL /\ UNCHANGED <<data, ith, connections>> /\ maccuracy' = maccuracy
    BY <1>3 DEF getAllServers_visit, getAllServers_sort, realVars
  <2>2. ~ RealKnown
    BY <1>0, <2>1 DEF Collecting, RealKnown, Ranked
  <2>3. Compared' /\ OwnLines'
    BY <1>0, <2>1, <2>2, NotCompared, SameOwn
  <2>4. Collecting'
    BY <1>0, <1>3, VisitStep, SortStep
  <2>5. RankedSoFar'
    <3>1. CASE getAllServers_sort
      BY <3>1, SortStep
    <3>2. CASE getAllServers_visit
      <4>1. \A d, j, s : (Candidate(d, j, s)' <=> Candidate(d, j, s))
                         /\ ProbOf(d, j, s)' = ProbOf(d, j, s)
        BY <2>1 DEF Candidate, ProbOf
      <4>2. \A d, i, s, p : /\ Steady(d, i, s, p)' <=> Steady(d, i, s, p)
                            /\ AtMost(d, i, s, p)' <=> AtMost(d, i, s, p)
        BY <4>1 DEF Steady, AtMost
      <4>3. clients_stat' = clients_stat
        BY <3>2 DEF getAllServers_visit
      <4>4. \A d : RankedOK(d)' <=> RankedOK(d)
        BY <2>1, <4>1, <4>2, <4>3 DEF RankedOK
      <4> QED BY <1>0, <2>1, <4>3, <4>4 DEF RankedSoFar, Analyzed
    <3> QED BY <1>3, <3>1, <3>2
  <2> QED BY <2>3, <2>4, <2>5 DEF QInv
<1>4. ASSUME \/ \E s \in Server : realConnectionsParser(s)
             \/ \E c \in Client : updateRealConnections(c)
             \/ updateRealConnections_close
      PROVE  QInv'
  <2>1. ~ RealKnown /\ UNCHANGED <<data, ith, connections, rankVars>> /\ maccuracy' = maccuracy
    BY <1>4 DEF realConnectionsParser, updateRealConnections, updateRealConnections_close, RealKnown
  <2>2. Compared' /\ OwnLines'
    BY <1>0, <2>1, NotCompared, SameOwn
  <2>3. Collecting' /\ RankedSoFar'
    BY <1>0, <2>1, RankFrame
  <2> QED BY <2>2, <2>3 DEF QInv
<1>5. ASSUME NEW c \in Client, match(c) PROVE QInv'
  <2>1. /\ RealKnown /\ UNCHANGED <<data, ith, connections, rankVars>>
        /\ UNCHANGED <<files, open, realConnections, real>>
    BY <1>5 DEF match
  <2>2. clients_stat' = clients_stat
    BY <2>1 DEF rankVars
  <2>3. RealKnown'
    BY <2>1, <2>2 DEF RealKnown, Ranked, Analyzed
  <2>4. DOMAIN maccuracy' = DOMAIN maccuracy \cup {c} /\ c \notin DOMAIN maccuracy
    BY <1>5 DEF match, Put
  <2>5. \A d \in DOMAIN maccuracy : maccuracy'[d] = maccuracy[d]
    BY <1>5 DEF match, Put
  <2>6. /\ c \in DOMAIN realConnections /\ clients_stat[c] # <<>> =>
             \E realsv \in DOMAIN realConnections[c] :
               maccuracy'[c] = Accuracy(clients_stat[c][1], realsv, realConnections[c][realsv])
        /\ ~ (c \in DOMAIN realConnections /\ clients_stat[c] # <<>>) => maccuracy'[c] = NULL
    BY <1>5 DEF match, Put
  <2>7. ASSUME NEW d \in DOMAIN maccuracy'
        PROVE  /\ d \in DOMAIN realConnections /\ clients_stat[d] # <<>> =>
                    \E realsv \in DOMAIN realConnections[d] :
                      maccuracy'[d] = Accuracy(clients_stat[d][1], realsv, realConnections[d][realsv])
               /\ ~ (d \in DOMAIN realConnections /\ clients_stat[d] # <<>>) => maccuracy'[d] = NULL
    <3>1. CASE d = c
      BY <2>6, <3>1
    <3>2. CASE d # c
      <4>1. d \in DOMAIN maccuracy /\ maccuracy'[d] = maccuracy[d]
        BY <2>4, <2>5, <3>2
      <4> QED BY <1>0, <4>1 DEF Compared
    <3> QED BY <3>1, <3>2
  <2>8. Compared'
    BY <2>1, <2>2, <2>3, <2>7 DEF Compared, Accuracy, Ratio
  <2>9. Collecting' /\ RankedSoFar' /\ OwnLines'
    BY <1>0, <2>1, RankFrame, SameOwn
  <2> QED BY <2>8, <2>9 DEF QInv
<1>6. CASE UNCHANGED vars
  <2>1. UNCHANGED <<data, ith, connections, rankVars, realVars>>
    BY <1>6 DEF vars
  <2>2. Collecting' /\ RankedSoFar' /\ OwnLines'
    BY <1>0, <2>1, RankFrame, SameOwn
  <2>3. UNCHANGED <<clients_stat, files, open, realConnections, maccuracy, real>>
    BY <2>1 DEF rankVars, realVars
  <2>4. RealKnown' <=> RealKnown
    BY <2>1, <2>3 DEF RealKnown, Ranked, Analyzed
  <2>5. Compared'
    BY <1>0, <2>3, <2>4 DEF Compared, Accuracy, Ratio
  <2> QED BY <2>2, <2>5 DEF QInv
<1> QED BY <1>1, <1>2, <1>3, <1>4, <1>5, <1>6 DEF Next

\* Nothing is ranked or compared at the start.
LEMMA InitQInv == Init => QInv
<1> SUFFICES ASSUME Init PROVE QInv
  OBVIOUS
<1>1. DOMAIN connections = {} /\ DOMAIN clients_stat = {} /\ DOMAIN maccuracy = {}
  BY DEF Init
<1>2. client = NULL /\ cliconn = 0 /\ servers_infos = << >>
  BY DEF Init
<1> QED BY <1>1, <1>2 DEF QInv, OwnLines, Collecting, RankedSoFar, Compared

\* Both invariants hold throughout.
LEMMA SpecQInv == Spec => [](PInv /\ QInv)
BY InitPInv, NextPInv, InitQInv, NextQInv, PTL DEF Spec

-----------------------------------------------------------------------------
(* What the ranking says of the trace. *)

\* A connection of c was made at one of the times of c.
LEMMA ConnectionHasTime ==
    ASSUME PInv, OwnLines, Analyzed, NEW c \in DOMAIN connections,
           NEW j \in 1 .. Len(connections[c])
    PROVE  \E k \in DOMAIN data : /\ connections[c][j] = MadeOf(k)
                                  /\ data[k].side = "c" /\ data[k].hostname = c
                                  /\ data[k].time \in TimesOf("c", c)
<1>1. PICK k \in LinesOf(c, ith) : connections[c][j] = MadeOf(k)
  BY DEF OwnLines
<1>2. data \in Seq(Line) /\ ith = Len(data)
  BY DEF PInv, AnalyzedSoFar, Analyzed
<1>3. k \in 1 .. Len(data) /\ data[k].side = "c" /\ data[k].hostname = c
  BY <1>2 DEF LinesOf
<1>4. k \in DOMAIN data
  BY <1>2, <1>3
<1>5. data[k].time \in TimesOf("c", c)
  BY <1>3, <1>4 DEF TimesOf
<1> QED BY <1>1, <1>3, <1>4, <1>5

\* The other way round: each time of c has a connection.
LEMMA TimeHasConnection ==
    ASSUME PInv, Analyzed, NEW c \in DOMAIN connections, NEW t \in TimesOf("c", c)
    PROVE  \E k \in DOMAIN data, j \in 1 .. Len(connections[c]) :
             data[k].time = t /\ connections[c][j] = MadeOf(k)
<1>1. PICK k \in DOMAIN data : data[k].side = "c" /\ data[k].hostname = c /\ data[k].time = t
  BY DEF TimesOf
<1>2. data \in Seq(Line) /\ ith = Len(data) /\ Len(data) \in Nat /\ ith \in Nat
  BY DEF PInv, AnalyzedSoFar, Analyzed
<1>3. k \in 1 .. ith /\ k \in Nat /\ k \in 0 .. ith
  BY <1>2
<1>4. k \in ClientLines
  BY <1>1, <1>3 DEF ClientLines
<1>5. PICK j : j = Cardinality(LinesOf(c, k))
  OBVIOUS
<1>6. connections[c][j] = MadeOf(k)
  BY <1>1, <1>4, <1>5 DEF PInv, AnalyzedSoFar, ConnOf
<1>7. Len(connections[c]) = Cardinality(LinesOf(c, ith))
  BY DEF PInv, AnalyzedSoFar
<1>8. k \in LinesOf(c, k)
  BY <1>1, <1>3 DEF LinesOf
<1>9. Cardinality(LinesOf(c, k)) \in Nat /\ Cardinality(LinesOf(c, k)) > 0
  BY <1>3, <1>8, LinesFinite
<1>10. /\ Cardinality(LinesOf(c, ith)) \in Nat
       /\ Cardinality(LinesOf(c, k)) <= Cardinality(LinesOf(c, ith))
  BY <1>2, <1>3, LinesFinite
<1>11. j \in 1 .. Len(connections[c])
  BY <1>5, <1>7, <1>9, <1>10
<1> QED BY <1>1, <1>6, <1>11

\* The probability of a server, of a trace in the order of time, says how far
\* its nearest time is.
LEMMA SortedProb ==
    ASSUME data \in Seq(Line), Disorder(0), NEW k \in DOMAIN data, NEW s \in Server
    PROVE  /\ s \in DOMAIN MadeOf(k).servers <=> Related(s, data[k].time) # {}
           /\ s \in DOMAIN MadeOf(k).servers =>
                \E u \in Related(s, data[k].time) :
                  /\ u \in Nat
                  /\ \A v \in Related(s, data[k].time) : u <= v
                  /\ MadeOf(k).servers[s].prob = THRESHOLD_MAX - (u - data[k].time)
<1>1. PICK t : t = data[k].time
  OBVIOUS
<1> DEFINE S == {g \in Server : Related(g, t) # {}}
<1>2. MadeOf(k).servers = [h \in S |-> [prob |-> THRESHOLD_MAX - (Min(Related(h, t)) - t),
                                        time |-> Min(Related(h, t))]]
  BY <1>1, SortedMade
<1>3. s \in DOMAIN MadeOf(k).servers <=> Related(s, t) # {}
  BY <1>2
<1>4. ASSUME s \in DOMAIN MadeOf(k).servers
      PROVE  \E u \in Related(s, t) : /\ u \in Nat
                                      /\ \A v \in Related(s, t) : u <= v
                                      /\ MadeOf(k).servers[s].prob = THRESHOLD_MAX - (u - t)
  <2>1. PICK R : R = Related(s, t)
    OBVIOUS
  <2>2. R # {}
    BY <1>3, <1>4, <2>1
  <2>3. R \subseteq Nat
    <3> SUFFICES ASSUME NEW v \in R PROVE v \in Nat
      OBVIOUS
    <3>1. PICK i \in DOMAIN data : v = data[i].time
      BY <2>1 DEF Related, TimesOf
    <3> QED BY <3>1, LineIs
  <2>4. Min(R) \in R /\ \A v \in R : Min(R) <= v
    BY <2>2, <2>3, MinIs
  <2>5. MadeOf(k).servers[s].prob = THRESHOLD_MAX - (Min(R) - t)
    BY <1>2, <1>4, <2>1
  <2>6. Min(R) \in Nat
    BY <2>3, <2>4
  <2> QED BY <2>1, <2>4, <2>5, <2>6
<1> QED BY <1>1, <1>3, <1>4

\* A server that follows c at distance d, with none nearer, is steady with
\* probability THRESHOLD_MAX - d, and no server has a larger one.
LEMMA FollowerIsSteady ==
    ASSUME PInv, OwnLines, Analyzed, Disorder(0), NEW c \in DOMAIN connections,
           NEW h \in Server, NEW d \in THRESHOLD_MIN + 1 .. THRESHOLD_MAX - 1,
           Follows(h, c, d), Nearest(c, d)
    PROVE  /\ Steady(c, Len(connections[c]), h, THRESHOLD_MAX - d)
           /\ \A s \in Server : AtMost(c, Len(connections[c]), s, THRESHOLD_MAX - d)
<1>0. data \in Seq(Line)
  BY DEF PInv, AnalyzedSoFar
<1>1. d \in Nat /\ THRESHOLD_MIN < d /\ d < THRESHOLD_MAX /\ THRESHOLD_MAX \in Nat
  BY PynalyzerAssumption
<1>2. ASSUME NEW j \in 1 .. Len(connections[c])
      PROVE  /\ Candidate(c, j, h) /\ ProbOf(c, j, h) = THRESHOLD_MAX - d
             /\ \A s \in Server : Candidate(c, j, s) => ProbOf(c, j, s) <= THRESHOLD_MAX - d
  <2>1. PICK k \in DOMAIN data : connections[c][j] = MadeOf(k) /\ data[k].time \in TimesOf("c", c)
    BY ConnectionHasTime
  <2>2. PICK t \in Nat : t = data[k].time
    BY <1>0, LineIs
  <2>3. \A s : /\ Candidate(c, j, s) <=> s \in DOMAIN MadeOf(k).servers
               /\ ProbOf(c, j, s) = MadeOf(k).servers[s].prob
    BY <2>1 DEF Candidate, ProbOf
  <2>4. ASSUME NEW s \in Server, NEW u \in Related(s, t) PROVE u - t >= d
    BY <2>1, <2>2 DEF Nearest
  <2>5. t + d \in Related(h, t)
    <3>1. t + d \in TimesOf("s", h)
      BY <2>1, <2>2 DEF Follows
    <3>2. THRESHOLD_MIN < (t + d) - t /\ (t + d) - t < THRESHOLD_MAX
      BY <1>1, PynalyzerAssumption
    <3> QED BY <3>1, <3>2 DEF Related
  <2>6. ASSUME NEW s \in Server, Candidate(c, j, s)
        PROVE  \E u \in Related(s, t) : /\ u \in Nat
                                        /\ \A v \in Related(s, t) : u <= v
                                        /\ ProbOf(c, j, s) = THRESHOLD_MAX - (u - t)
    <3>1. s \in DOMAIN MadeOf(k).servers
      BY <2>3, <2>6
    <3> QED BY <1>0, <2>2, <2>3, <3>1, SortedProb
  <2>7. Candidate(c, j, h)
    <3>1. h \in DOMAIN MadeOf(k).servers
      BY <1>0, <2>2, <2>5, SortedProb
    <3> QED BY <2>3, <3>1
  <2>8. ProbOf(c, j, h) = THRESHOLD_MAX - d
    <3>1. PICK u \in Related(h, t) : /\ u \in Nat
                                     /\ \A v \in Related(h, t) : u <= v
                                     /\ ProbOf(c, j, h) = THRESHOLD_MAX - (u - t)
      BY <2>6, <2>7
    <3>2. u - t >= d /\ u <= t + d
      BY <2>4, <2>5, <3>1
    <3>3. u - t = d
      BY <1>1, <2>2, <3>1, <3>2
    <3> QED BY <3>1, <3>3
  <2>9. ASSUME NEW s \in Server, Candidate(c, j, s) PROVE ProbOf(c, j, s) <= THRESHOLD_MAX - d
    <3>1. PICK u \in Related(s, t) : u \in Nat /\ ProbOf(c, j, s) = THRESHOLD_MAX - (u - t)
      BY <2>6, <2>9
    <3>2. u - t >= d
      BY <2>4
    <3> QED BY <1>1, <2>2, <3>1, <3>2
  <2> QED BY <2>7, <2>8, <2>9
<1> QED BY <1>2 DEF Steady, AtMost

\* A server that is steady with that probability follows c at that distance.
LEMMA SteadyFollows ==
    ASSUME PInv, Analyzed, Disorder(0), NEW c \in DOMAIN connections,
           NEW s \in Server, NEW d \in THRESHOLD_MIN + 1 .. THRESHOLD_MAX - 1,
           Steady(c, Len(connections[c]), s, THRESHOLD_MAX - d)
    PROVE  Follows(s, c, d)
<1> SUFFICES ASSUME NEW t \in TimesOf("c", c) PROVE t + d \in TimesOf("s", s)
  BY DEF Follows
<1>0. data \in Seq(Line)
  BY DEF PInv, AnalyzedSoFar
<1>1. PICK k \in DOMAIN data, j \in 1 .. Len(connections[c]) :
        data[k].time = t /\ connections[c][j] = MadeOf(k)
  BY TimeHasConnection
<1>2. s \in DOMAIN MadeOf(k).servers /\ MadeOf(k).servers[s].prob = THRESHOLD_MAX - d
  BY <1>1 DEF Steady, Candidate, ProbOf
<1>3. PICK u \in Related(s, t) : u \in Nat /\ MadeOf(k).servers[s].prob = THRESHOLD_MAX - (u - t)
  BY <1>0, <1>1, <1>2, SortedProb
<1>4. t \in Nat /\ d \in Nat /\ THRESHOLD_MAX \in Nat
  BY <1>0, <1>1, LineIs, PynalyzerAssumption
<1>5. u = t + d
  BY <1>2, <1>3, <1>4
<1>6. u \in TimesOf("s", s)
  BY <1>3 DEF Related
<1> QED BY <1>5, <1>6

\* The ranking of c when h follows it at distance d, with none nearer: the first
\* server follows it too, and has all its connections.
LEMMA BestFollows ==
    ASSUME PInv, QInv, Disorder(0), NEW c \in DOMAIN clients_stat, NEW h \in Server,
           NEW d \in THRESHOLD_MIN + 1 .. THRESHOLD_MAX - 1, Follows(h, c, d), Nearest(c, d)
    PROVE  /\ clients_stat[c] # <<>>
           /\ clients_stat[c][1].server \in Server
           /\ Follows(clients_stat[c][1].server, c, d)
           /\ clients_stat[c][1].nconns = Len(connections[c])
<1>1. c \in DOMAIN connections /\ Analyzed /\ OwnLines /\ RankedOK(c)
  BY DEF PInv, TablesGrow, QInv, RankedSoFar
<1>2. PICK n : n = Len(connections[c])
  OBVIOUS
<1>3. PICK p \in 1 .. THRESHOLD_MAX : p = THRESHOLD_MAX - d
  BY PynalyzerAssumption
<1>4. Steady(c, n, h, p) /\ \A s \in Server : AtMost(c, n, s, p)
  BY <1>1, <1>2, <1>3, FollowerIsSteady
<1>5. clients_stat[c] # <<>> /\ Steady(c, n, clients_stat[c][1].server, p)
  BY <1>1, <1>2, <1>4 DEF RankedOK
<1>6. clients_stat[c][1].server \in Server /\ clients_stat[c][1].nconns = n
  BY <1>1, <1>2, <1>5 DEF RankedOK
<1>7. Follows(clients_stat[c][1].server, c, d)
  BY <1>1, <1>2, <1>3, <1>5, <1>6, SteadyFollows
<1> QED BY <1>2, <1>5, <1>6, <1>7

\* A client with connections is one, and has as many as it has lines.
LEMMA RankedClient ==
    ASSUME PInv, QInv, NEW c \in DOMAIN clients_stat
    PROVE  /\ c \in Client /\ c \in DOMAIN connections /\ Analyzed /\ RankedOK(c)
           /\ Len(connections[c]) = Cardinality(LinesOf(c, Len(data)))
           /\ Len(connections[c]) \in Nat \ {0}
<1>1. c \in DOMAIN connections /\ Analyzed /\ OwnLines /\ RankedOK(c)
  BY DEF PInv, TablesGrow, QInv, RankedSoFar
<1>2. Len(connections[c]) \in Nat /\ Len(connections[c]) > 0
  BY <1>1, ConnectionsAre DEF OwnLines
<1>3. PICK k \in DOMAIN data : data[k].side = "c" /\ data[k].hostname = c
  <2>1. 1 \in 1 .. Len(connections[c])
    BY <1>2
  <2> QED BY <1>1, <2>1, ConnectionHasTime
<1>4. data \in Seq(Line)
  BY DEF PInv, AnalyzedSoFar
<1>5. c \in Client
  BY <1>3, <1>4, LineIs
<1>6. Len(connections[c]) = Cardinality(LinesOf(c, Len(data)))
  BY <1>1 DEF PInv, AnalyzedSoFar, Analyzed
<1> QED BY <1>1, <1>2, <1>5, <1>6

\* A candidate of a connection of c was traced within the window of one.
LEMMA CandidateIsRelated ==
    ASSUME PInv, OwnLines, Analyzed, NEW c \in DOMAIN connections,
           NEW j \in 1 .. Len(connections[c]), NEW s, Candidate(c, j, s)
    PROVE  \E t \in TimesOf("c", c) : Related(s, t) # {}
<1>0. data \in Seq(Line)
  BY DEF PInv, AnalyzedSoFar
<1>1. PICK k \in DOMAIN data : connections[c][j] = MadeOf(k) /\ data[k].time \in TimesOf("c", c)
  BY ConnectionHasTime
<1>2. s \in DOMAIN MadeOf(k).servers
  BY <1>1 DEF Candidate
<1>3. Hits(data[k].time, index(data[k]) + 1, s) # {}
  BY <1>2, ForwardIs DEF MadeOf
<1>4. PICK i : i \in Hits(data[k].time, index(data[k]) + 1, s)
  BY <1>3
<1>5. data[i].time \in Related(s, data[k].time)
  BY <1>0, <1>4, HitIsRelated
<1> QED BY <1>1, <1>5

\* What Ratio makes of two numbers of connections.
LEMMA RatioIs ==
    ASSUME NEW m \in Nat \ {0}, NEW n \in Nat \ {0}
    PROVE  Ratio(m, n)[1] \in 1 .. Ratio(m, n)[2] /\ Ratio(n, n) = <<n, n>>
BY DEF Ratio

\* The log of the one server that c is known under.
LEMMA KnownUnder ==
    ASSUME PInv, NEW c \in DOMAIN realConnections, NEW s \in DOMAIN realConnections[c]
    PROVE  /\ s \in Server /\ DOMAIN realConnections[c] = {s}
           /\ realConnections[c][s] = real[<<s, c>>]
           /\ real[<<s, c>>] \in Nat \ {0}
<1>1. PICK g \in Server : /\ DOMAIN realConnections[c] = {g}
                          /\ realConnections[c][g] = real[<<g, c>>]
                          /\ real[<<g, c>>] > 0
  BY DEF PInv, LogsSoFar
<1>2. g = s /\ c \in Client
  BY <1>1 DEF PInv, LogsSoFar
<1>3. <<s, c>> \in Server \X Client
  BY <1>1, <1>2
<1>4. real[<<s, c>>] \in 0 .. MaxReal
  BY <1>3 DEF PInv, LogsSoFar
<1>5. real[<<s, c>>] \in Nat \ {0}
  BY <1>1, <1>2, <1>4
<1> QED BY <1>1, <1>2, <1>5

-----------------------------------------------------------------------------
(* The theorems. *)

\* Every table has its type; a probability is neither 0, which the script takes
\* for none, nor as large as the window.
THEOREM PynalyzerTypeCorrect == Spec => []TypeOK
<1>1. PInv /\ QInv => TypeOK
  <2> SUFFICES ASSUME PInv, QInv PROVE TypeOK
    OBVIOUS
  <2>1. data \in Seq(Line) /\ ith \in 0 .. Len(data) /\ Len(data) \in Nat
    BY DEF PInv, AnalyzedSoFar
  <2>2. ASSUME NEW c \in DOMAIN connections, NEW i \in DOMAIN connections[c],
               NEW s \in DOMAIN connections[c][i].servers
        PROVE  connections[c][i].servers[s].prob \in 1 .. THRESHOLD_MAX - THRESHOLD_MIN - 1
    <3> DEFINE Made == {MadeOf(k) : k \in DOMAIN data}
    <3>1. connections[c] \in Seq(Made)
      BY DEF PInv, AnalyzedSoFar
    <3> HIDE DEF Made
    <3>2. i \in 1 .. Len(connections[c])
      BY <3>1
    <3> QED BY <3>2, CandidateIs DEF Candidate, ProbOf
  <2>3. \A c \in DOMAIN realConnections : DOMAIN realConnections[c] \subseteq Server
    BY DEF PInv, LogsSoFar
  <2>4. /\ DOMAIN clients_stat \subseteq DOMAIN connections
        /\ client \in DOMAIN connections \cup {NULL}
        /\ DOMAIN maccuracy \subseteq DOMAIN clients_stat
    BY DEF PInv, TablesGrow
  <2>5. /\ files \subseteq Server /\ open \in Server \cup {NULL}
        /\ real \in [Server \X Client -> 0 .. MaxReal]
    BY DEF PInv, LogsSoFar
  <2>6. cliconn \in 0 .. Len(data)
    <3>1. CASE client = NULL
      BY <2>1, <3>1 DEF QInv, Collecting
    <3>2. CASE client # NULL
      <4>1. client \in DOMAIN connections
        BY <2>4, <3>2
      <4>2. cliconn \in Nat /\ cliconn <= Len(connections[client])
        BY <3>2 DEF QInv, Collecting
      <4>3. Len(connections[client]) \in Nat /\ Len(connections[client]) <= Len(data)
        BY <4>1, ConnectionsAre
      <4> QED BY <2>1, <4>2, <4>3
    <3> QED BY <3>1, <3>2
  <2>7. DOMAIN servers_infos \subseteq Server
    <3>1. CASE client = NULL
      BY <3>1 DEF QInv, Collecting
    <3>2. CASE client # NULL
      BY <3>2 DEF QInv, Collecting
    <3> QED BY <3>1, <3>2
  <2> QED BY <2>1, <2>2, <2>3, <2>4, <2>5, <2>6, <2>7 DEF TypeOK
<1> QED BY <1>1, SpecQInv, PTL

\* analyzeForward is exact on a trace in the order of time, of any length, with
\* equal times and with lines that are there twice.
THEOREM SortedTraceIsExact == Spec => []SortedIsExact
<1>1. PInv => SortedIsExact
  <2> SUFFICES ASSUME PInv, Disorder(0), NEW k \in ClientLines
               PROVE  LET time == data[k].time
                      IN  /\ ConnOf(k).time = time
                          /\ ConnOf(k).servers = [h \in {s \in Server : Related(s, time) # {}} |->
                                [prob |-> THRESHOLD_MAX - (Min(Related(h, time)) - time),
                                 time |-> Min(Related(h, time))]]
    BY DEF SortedIsExact
  <2>1. ConnOf(k) = MadeOf(k) /\ data \in Seq(Line) /\ ith \in 0 .. Len(data)
    BY DEF PInv, AnalyzedSoFar
  <2>2. k \in DOMAIN data
    BY <2>1 DEF ClientLines
  <2>3. ConnOf(k).time = data[k].time
    BY <2>1 DEF MadeOf
  <2>4. ConnOf(k).servers = MadeOf(k).servers
    BY <2>1
  <2> QED BY <2>1, <2>2, <2>3, <2>4, SortedMade
<1> QED BY <1>1, SpecPInv, PTL

\* Lines that arrive up to THRESHOLD_MIN late make no near server be missed,
\* whatever the two thresholds are.
THEOREM LateLinesAreFound == Spec => []JitterTolerated
<1>1. PInv => JitterTolerated
  <2> SUFFICES ASSUME PInv, Disorder(THRESHOLD_MIN), NEW k \in ClientLines, NEW h \in Server,
                      NEW t \in Related(h, data[k].time),
                      t - data[k].time <= THRESHOLD_MAX - THRESHOLD_MIN
               PROVE  h \in DOMAIN ConnOf(k).servers
    BY DEF JitterTolerated
  <2>1. ConnOf(k) = MadeOf(k) /\ data \in Seq(Line) /\ ith \in 0 .. Len(data)
    BY DEF PInv, AnalyzedSoFar
  <2>2. k \in DOMAIN data
    BY <2>1 DEF ClientLines
  <2>3. h \in DOMAIN MadeOf(k).servers
    BY <2>1, <2>2, JitterMade
  <2> QED BY <2>1, <2>3
<1> QED BY <1>1, SpecPInv, PTL

\* What the table of real connections holds is right for any number of server
\* logs in any order, although the handler of the exception throws away tables.
THEOREM RealCountsAreExact == Spec => []RealCountsExact
<1>1. PInv => RealCountsExact
  <2> SUFFICES ASSUME LogsSoFar, NEW c \in Client
               PROVE  /\ c \in DOMAIN realConnections <=> \E s \in Server : real[<<s, c>>] > 0
                      /\ c \in DOMAIN realConnections =>
                           /\ DOMAIN realConnections[c] # {}
                           /\ \A s \in DOMAIN realConnections[c] :
                                 realConnections[c][s] = real[<<s, c>>]
    BY DEF PInv, RealCountsExact
  <2>1. c \in DOMAIN realConnections => \E s \in Server : real[<<s, c>>] > 0
    BY DEF LogsSoFar
  <2>2. c \in DOMAIN realConnections =>
           /\ DOMAIN realConnections[c] # {}
           /\ \A s \in DOMAIN realConnections[c] : realConnections[c][s] = real[<<s, c>>]
    BY DEF LogsSoFar
  <2> QED BY <2>1, <2>2 DEF LogsSoFar
<1> QED BY <1>1, SpecPInv, PTL

\* The ranking does what the correlation is for, for any thresholds, any number
\* of servers and connections, and any order among equal scores.
THEOREM SteadyServerWins == Spec => []SteadyServerIsBest
<1>1. PInv /\ QInv => SteadyServerIsBest
  BY BestFollows DEF SteadyServerIsBest
<1> QED BY <1>1, SpecQInv, PTL

\* What is counted as matched has its evidence in the logs and in the trace, and
\* an experiment in which nothing went wrong is matched with accuracy 1.
THEOREM MatchesAreJustified == Spec => []MatchesAreRight
<1>1. PInv /\ QInv => MatchedHaveEvidence
  <2> SUFFICES ASSUME PInv, QInv, NEW c \in DOMAIN maccuracy, maccuracy[c] # NULL,
                      NEW s, s = clients_stat[c][1].server
               PROVE  /\ real[<<s, c>>] > 0
                      /\ \E t \in TimesOf("c", c) : Related(s, t) # {}
                      /\ maccuracy[c][1] \in 1 .. maccuracy[c][2]
    BY DEF MatchedHaveEvidence
  <2>1. c \in DOMAIN clients_stat
    BY DEF PInv, TablesGrow
  <2>2. c \in DOMAIN realConnections /\ clients_stat[c] # <<>>
    BY DEF QInv, Compared
  <2>3. PICK realsv \in DOMAIN realConnections[c] :
          maccuracy[c] = Accuracy(clients_stat[c][1], realsv, realConnections[c][realsv])
    BY <2>2 DEF QInv, Compared
  <2>4. s = realsv /\ maccuracy[c] = Ratio(clients_stat[c][1].nconns, realConnections[c][s])
    BY <2>3 DEF Accuracy
  <2>5. realConnections[c][s] = real[<<s, c>>] /\ real[<<s, c>>] \in Nat \ {0}
    BY <2>2, <2>4, KnownUnder
  <2>6. c \in DOMAIN connections /\ Analyzed /\ RankedOK(c)
    BY <2>1, RankedClient
  <2>7. /\ clients_stat[c][1].nconns \in Nat \ {0}
        /\ \E j \in 1 .. Len(connections[c]) : Candidate(c, j, s)
    BY <2>2, <2>6 DEF RankedOK
  <2>8. \E t \in TimesOf("c", c) : Related(s, t) # {}
    BY <2>6, <2>7, CandidateIsRelated DEF QInv
  <2>9. maccuracy[c][1] \in 1 .. maccuracy[c][2]
    BY <2>4, <2>5, <2>7, RatioIs
  <2> QED BY <2>5, <2>8, <2>9
<1>2. PInv /\ QInv => PerfectTraceScoresOne
  <2> SUFFICES ASSUME PInv, QInv, Disorder(0), NEW c \in DOMAIN maccuracy, NEW h \in Server,
                      NEW n, n = Cardinality(LinesOf(c, Len(data))),
                      NEW d \in THRESHOLD_MIN + 1 .. THRESHOLD_MAX - 1,
                      Follows(h, c, d), Nearest(c, d),
                      \A g \in Server \ {h} : ~ Follows(g, c, d),
                      \A s \in Server : real[<<s, c>>] = IF s = h THEN n ELSE 0
               PROVE  maccuracy[c] = <<n, n>>
    BY DEF PerfectTraceScoresOne
  <2>1. c \in DOMAIN clients_stat
    BY DEF PInv, TablesGrow
  <2>2. c \in Client /\ n = Len(connections[c]) /\ n \in Nat \ {0}
    BY <2>1, RankedClient
  <2>3. /\ clients_stat[c] # <<>>
        /\ clients_stat[c][1].server \in Server
        /\ Follows(clients_stat[c][1].server, c, d)
        /\ clients_stat[c][1].nconns = n
    BY <2>1, <2>2, BestFollows
  <2>4. clients_stat[c][1].server = h
    BY <2>3
  <2>5. real[<<h, c>>] = n /\ n > 0
    BY <2>2
  <2>6. c \in DOMAIN realConnections
    BY <2>2, <2>5 DEF PInv, LogsSoFar
  <2>7. PICK realsv \in DOMAIN realConnections[c] :
          maccuracy[c] = Accuracy(clients_stat[c][1], realsv, realConnections[c][realsv])
    BY <2>3, <2>6 DEF QInv, Compared
  <2>8. /\ realsv \in Server /\ realConnections[c][realsv] = real[<<realsv, c>>]
        /\ real[<<realsv, c>>] \in Nat \ {0}
    BY <2>6, KnownUnder
  <2>9. realsv = h
    BY <2>8
  <2>10. maccuracy[c] = Ratio(n, n)
    BY <2>3, <2>4, <2>5, <2>7, <2>8, <2>9 DEF Accuracy
  <2> QED BY <2>2, <2>10, RatioIs
<1> QED BY <1>1, <1>2, SpecQInv, PTL DEF MatchesAreRight
=============================================================================
