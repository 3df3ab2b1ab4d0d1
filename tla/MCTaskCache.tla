----------------------------- MODULE MCTaskCache ----------------------------
(* Instance of TaskCache for TLC. *)
EXTENDS TaskCache

CONSTANT t1

\* The one view whose deletion does something.
JustTheTask == {Key("task", t1)}

\* The changes that can be mixed: of two requests each sets another field.
OfOneField == {c \in Changes : Cardinality(DOMAIN c) = 1}
=============================================================================
