---------------------------- MODULE MCTProxyTidy ----------------------------
(* TProxyTidy for TLC, in any environment TProxy allows. *)
EXTENDS TProxyTidy, Functions, TLC

CONSTANT UnitsFor    \* bound: the units sent in all, for each number of sessions begun

Symmetry == Permutations(Session)

Begun == {k \in Session : peer[<<k, "in">>] # "idle"}

Bounded == Begun # {} => SumFunction(sent) <= UnitsFor[Cardinality(Begun)]

\* SIGTERM and want of memory end the process in any state alike: they are
\* explored with one session.
FailsEarly == status' \in {"term", "nomem"} => Cardinality(Begun) <= 1

\* A connection is reset or refused while at most two sessions have begun; once
\* the third has, connections end in order.
Resets == {e \in Endpoint : peer[e] = "rst"}

ResetsOfTwo == Cardinality(Begun) > 2 => Resets' \subseteq Resets

MCUnitsFor == <<4, 1, 0>>
=============================================================================
