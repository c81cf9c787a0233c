----------------------------- MODULE TProxyTidy -----------------------------
(***************************************************************************)
(* TProxy with a history variable that tells when its two shared pieces of *)
(* state are safe. A half-closed session leaves a descriptor number behind *)
(* in the record of the end still open, and waits for isDone to be read;   *)
(* accept gives the number away and clears the flag. tidy says that every  *)
(* client so far was accepted while no session was half closed.            *)
(***************************************************************************)
EXTENDS TProxy

VARIABLE tidy

hvars == <<vars, tidy>>

\* No session is half closed: every record's other end is open.
Whole == \A f \in Fd : hashmap[f] # NULL => sock[hashmap[f].sd] # NULL

\* The three ways out of handleNewConnection.
Accept == handleNewConnection \/ handleNewConnection_refused \/ handleNewConnection_nofd

HInit == Init /\ tidy = TRUE

HNext == Next /\ tidy' = (tidy /\ (Whole \/ ~ Accept))

HSpec == HInit /\ [][HNext]_hvars

\* However many sessions overlap, with their descriptor numbers used again and
\* data going both ways at once, no peer is sent anything but what its own
\* partner sent, in that order, unless a client was accepted between the two
\* closes of another session.
TidyInOrder == tidy => OnlyFromPartner

\* Nor does the end of a connection then end the process: the EPOLLOUT of the
\* other end finds isDone still set, also when sessions that are closed and
\* sessions that carry data share a batch.
TidyNeverExits == tidy => GonePartnerNeverExits
=============================================================================
