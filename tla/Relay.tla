------------------------------- MODULE Relay -------------------------------
(***************************************************************************)
(* What tropeaproxy and autosys promise to those they stand between: they  *)
(* report each connection to the tracer before anything else, then are     *)
(* invisible. What one end says the other one hears, all of it, in order,  *)
(* once; and an end is hung up on only when the other one has left, or     *)
(* could not be reached. There are no descriptors, events or buffers here. *)
(***************************************************************************)
EXTENDS Integers, Sequences

CONSTANTS Session, NULL

VARIABLES
  line,     \* session -> "idle", "waiting", "up" or "refused"
  reports,  \* the sessions reported to the tracer, in order
  said,     \* end -> units it has sent
  heard,    \* end -> units that reached it, each with its speaker and number
  left,     \* ends that closed, or were reset
  hungup    \* ends that the relay closed

vars == <<line, reports, said, heard, left, hungup>>

End      == Session \X {"in", "out"}
Other(e) == <<e[1], IF e[2] = "in" THEN "out" ELSE "in">>

\* What e has still to hear.
Pending(e) == said[Other(e)] - Len(heard[e])

Init ==
    /\ line = [k \in Session |-> "idle"]
    /\ reports = <<>>
    /\ said = [e \in End |-> 0]
    /\ heard = [e \in End |-> <<>>]
    /\ left = {} /\ hungup = {}

Ask(k) ==
    /\ line[k] = "idle"
    /\ line' = [line EXCEPT ![k] = "waiting"]
    /\ UNCHANGED <<reports, said, heard, left, hungup>>

\* A session is let in, and reported, in one step.
Admit(k) ==
    /\ line[k] = "waiting"
    /\ line' = [line EXCEPT ![k] = "up"]
    /\ reports' = Append(reports, k)
    /\ UNCHANGED <<said, heard, left, hungup>>

\* The far end cannot be reached: reported and hung up on.
Refuse(k) ==
    /\ line[k] = "waiting"
    /\ line' = [line EXCEPT ![k] = "refused"]
    /\ reports' = Append(reports, k)
    /\ hungup' = hungup \cup {<<k, "in">>}
    /\ UNCHANGED <<said, heard, left>>

\* A relay that is full makes a report for a session that it does not let in.
Misreport(k) ==
    /\ line[k] = "waiting"
    /\ reports' = Append(reports, NULL)
    /\ UNCHANGED <<line, said, heard, left, hungup>>

Say(e) ==
    /\ line[e[1]] \in {"waiting", "up"} /\ e \notin left \cup hungup
    /\ said' = [said EXCEPT ![e] = @ + 1]
    /\ UNCHANGED <<line, reports, heard, left, hungup>>

\* The next n units of the other end reach e.
Pass(e, n) ==
    /\ line[e[1]] = "up" /\ e \notin left \cup hungup
    /\ heard' = [heard EXCEPT ![e] =
                   @ \o [i \in 1 .. n |-> <<Other(e), Len(heard[e]) + i>>]]
    /\ UNCHANGED <<line, reports, said, left, hungup>>

Leave(e) ==
    /\ line[e[1]] = "up" /\ e \notin left \cup hungup
    /\ left' = left \cup {e}
    /\ UNCHANGED <<line, reports, said, heard, hungup>>

HangUp(e) ==
    /\ line[e[1]] = "up" /\ e \notin hungup
    /\ {e, Other(e)} \cap left # {}
    /\ Pending(e) = 0 /\ Pending(Other(e)) = 0
    /\ hungup' = hungup \cup {e}
    /\ UNCHANGED <<line, reports, said, heard, left>>

Next ==
    \/ \E k \in Session : Ask(k) \/ Admit(k) \/ Refuse(k) \/ Misreport(k)
    \/ \E e \in End : Say(e) \/ Leave(e) \/ HangUp(e)
    \/ \E e \in End : \E n \in 1 .. Pending(e) : Pass(e, n)

Spec == Init /\ [][Next]_vars
=============================================================================
