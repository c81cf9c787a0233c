------------------------------ MODULE Analyzer ------------------------------
(***************************************************************************)
(* src/analyzer/analyzer.c: the logger the simulations run. It is          *)
(* loggerserver.c with one difference in control: the file is emptied with *)
(* fopen(log_path, "w+") when the program starts, before the socket is     *)
(* bound.                                                                  *)
(***************************************************************************)
EXTENDS LoggerServer

EmptyLog_keeps ==
    /\ file' = "writable"
    /\ log' = log
EmptyLog ==
    /\ file' = "writable"
    /\ log' = <<>>

\* analyzer_new
analyzer_new ==
    /\ starts < MaxStarts
    /\ EmptyLog
    /\ startReader
    /\ starts' = starts + 1
    /\ base' = log'
    /\ got' = <<>>
    /\ UNCHANGED <<queue, net, copies>>

\* analyzer_new while an instance holds the port: bind fails, but the file of
\* the instance that runs was emptied.
analyzer_new_fails ==
    /\ starts < MaxStarts
    /\ EmptyLog
    /\ startReader_fails
    /\ starts' = starts + 1
    /\ UNCHANGED <<queue, net, copies, base, got>>

\* analyzer_ready and _analyzer_activateAs
analyzer_activate == loggerserver_activate

analyzer == analyzer_new \/ analyzer_new_fails \/ analyzer_activate
=============================================================================
