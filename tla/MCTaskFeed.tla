----------------------------- MODULE MCTaskFeed -----------------------------
(* Instance of TaskFeed for TLC. *)
EXTENDS TaskFeed, TLC

CONSTANT t1

JustTheTask == {Key("task", t1)}

\* Of a lone request these do all that partial changes do.
OfAllFields == {c \in Changes : Cardinality(DOMAIN c) = 2}

Symmetry == Permutations(Sockets)
=============================================================================
