------------------------------ MODULE Tracers ------------------------------
(***************************************************************************)
(* The logging side of an experiment: one of the two programs that receive *)
(* the proxies' trace packets, and the network in between.                 *)
(***************************************************************************)
EXTENDS Analyzer

VARIABLE prog   \* the program that is used

tvars == <<vars, prog>>

TInit == Init /\ prog \in {"loggerserver", "analyzer"}

TNext ==
    /\ \/ prog = "loggerserver" /\ loggerserver
       \/ prog = "analyzer" /\ analyzer
       \/ exit_handler
       \/ Network
    /\ UNCHANGED prog

\* What the program that is used does with a packet.
Activate ==
    /\ IF prog = "loggerserver" THEN loggerserver_activate ELSE analyzer_activate
    /\ UNCHANGED prog

\* The main loops run while the socket is readable.
TSpec == TInit /\ [][TNext]_tvars /\ WF_tvars(Activate)

-----------------------------------------------------------------------------
\* loggerserver/README.md:50: the file "should contain the payloads of all the
\* UDP packets" the server received, here in the order of their arrival and
\* after what was in it when the server started, whatever was stopped or started
\* in vain since; provided it was not created with a mode that forbids writing.
LoggedAllReceived ==
    prog = "loggerserver" /\ starts > 0 /\ file = "writable" => log = base \o got

\* analyzer.c:152: "Just clean old data if the file exists." The log has nothing
\* of an earlier run, and from its first line on nothing of this run is missing;
\* what was logged before an analyzer was started in vain is not in it.
OldDataCleaned == prog = "analyzer" /\ starts > 0 => IsSuffix(log, got)

\* loggerserver.c:157 says the same of loggerserver, "Just clean old data if the
\* file exists.", above the open that took the place of analyzer's fopen: the
\* log of a run has nothing of an earlier one.
OldLinesCleaned == prog = "loggerserver" /\ starts > 0 => IsSuffix(log, got)
=============================================================================
