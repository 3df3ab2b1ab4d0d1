---------------------------- MODULE MCEventStore ----------------------------
(* Instance of AggregateHistory, and of the event store in it, for TLC. *)
EXTENDS AggregateHistory

CONSTANTS open, done, first

\* A whole entity, a changed status, and the payload of a status change, under
\* the types the rebuild knows and one it does not.
MCContents ==
  {"TaskCreated", "TaskUpdated", "TaskStatusChanged", "TaskNoted"}
  \X {[title |-> first, status |-> open], [status |-> done], [newStatus |-> done]}

Created == {"TaskCreated"}

Whole == {[title |-> first, status |-> open]}

Symmetry == Permutations(Writers) \cup Permutations(AggregateIds)
=============================================================================
