---------------------------- MODULE MCPynalyzer ----------------------------
(* Pynalyzer for TLC: the servers are interchangeable. *)
EXTENDS Pynalyzer, TLC

CONSTANTS AnyLines,    \* bound: the lines of a trace in any order
          ServerLines  \* bound: the lines of servers in a trace in the order of time

\* The lines up to time t in the order of time.
InTime[t \in 0 .. MaxTime] ==
    (IF t = 0 THEN <<>> ELSE InTime[t - 1]) \o SetToSeq({l \in Line : l.time = t})

\* The traces, in the order of time, of two connections and more lines of servers
\* than traces in any order have room for: those of a server that follows both
\* connections, and those of a rival.
Rivals ==
    LET lines(side, n) == kSubset(n, {l \in Line : l.side = side})
    IN  {SelectSeq(InTime[MaxTime], LAMBDA l : l \in cs \cup ss) :
            cs \in lines("c", 2), ss \in UNION {lines("s", n) : n \in 3 .. ServerLines}}

MCTraces == BoundedSeq(Line, AnyLines) \cup Rivals

Symmetry == Permutations(Server)
=============================================================================
