------------------------------ MODULE EventLog ------------------------------
(***************************************************************************)
(* What the event store promises: for each aggregate id a log to which     *)
(* events are appended one at a time, numbered by their position, all of   *)
(* them events of one aggregate type.                                      *)
(***************************************************************************)
EXTENDS Naturals, Sequences

CONSTANT AggregateIds

VARIABLE log  \* log[a] is the sequence of events of aggregate a

Init == log = [a \in AggregateIds |-> <<>>]

\* e may follow the events of l.
Continues(l, e) ==
  /\ e.version = Len(l) + 1
  /\ l # <<>> => e.aggregateType = Head(l).aggregateType

AppendTo(a) ==
  /\ Len(log'[a]) = Len(log[a]) + 1
  /\ LET e == log'[a][Len(log[a]) + 1]
     IN  /\ Continues(log[a], e)
         /\ log' = [log EXCEPT ![a] = Append(@, e)]

Next == \E a \in AggregateIds : AppendTo(a)

Spec == Init /\ [][Next]_log
=============================================================================
