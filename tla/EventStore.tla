----------------------------- MODULE EventStore -----------------------------
(***************************************************************************)
(* The append path of backend/src/modules/event-store.  appendEvent reads  *)
(* the newest version of an aggregate, stamps a new event with the next    *)
(* version and the time, and inserts it.  The read and the insert are two  *)
(* awaits, so the appends of two requests (or of two replicas) interleave; *)
(* the one thing that serialises them is the unique index of the entity,   *)
(* which covers (aggregateId, version) and not aggregateType.              *)
(*                                                                         *)
(* A call that ends, by success or by error, returns its caller to idle:   *)
(* appendEvent has no retry of its own.                                    *)
(***************************************************************************)
EXTENDS Naturals, FiniteSets

CONSTANTS
  AggregateIds,    \* identifiers of aggregates ("task-123")
  AggregateTypes,  \* Task, User, Project
  EventTypes,      \* TaskCreated, TaskUpdated, ...
  EventData,       \* payloads
  Writers,         \* concurrent callers of appendEvent, on any replica
  MaxSkew,         \* how far ahead of `now' a replica's clock may run
  MaxEvents,       \* bound: events stored
  MaxTime          \* bound: clock ticks

ASSUME ConstantsAreNumbers ==
  MaxSkew \in Nat /\ MaxEvents \in Nat /\ MaxTime \in Nat

VARIABLES
  events,  \* rows of table event_store
  writer,  \* each caller's progress through appendEvent
  now      \* wall clock

vars == <<events, writer, now>>

Event == [aggregateId : AggregateIds, aggregateType : AggregateTypes,
          eventType : EventTypes, eventData : EventData,
          version : Nat \ {0}, occurredAt : Nat]

\* A call in progress: "found" holds the answer of findOne, "created" the
\* entity about to be saved.
Call == [pc : {"found", "created"},
         aggregateId : AggregateIds, aggregateType : AggregateTypes,
         eventType : EventTypes, eventData : EventData,
         last : Nat, occurredAt : Nat]

NoCall == [pc |-> "idle"]

TypeOK ==
  /\ events \subseteq Event
  /\ writer \in [Writers -> {NoCall} \cup Call]
  /\ now \in Nat

-----------------------------------------------------------------------------
(* The table.                                                              *)

\* The rows the WHERE clause of findOne and of getAggregateEvents selects.
EventsOf(a, t) == {e \in events : e.aggregateId = a /\ e.aggregateType = t}

\* Faulty variant: the query forgets the aggregateType.
LastVersionOfAnyType(a, t, v) ==
  LET named == {e \in events : e.aggregateId = a} IN
  \/ named = {} /\ v = 0
  \/ \E e \in named : e.version = v /\ \A f \in named : f.version <= v

\* v is `lastEvent?.version || 0'.
IsLastVersion(a, t, v) ==
  \/ EventsOf(a, t) = {} /\ v = 0
  \/ \E e \in EventsOf(a, t) :
       e.version = v /\ \A f \in EventsOf(a, t) : f.version <= v

\* Faulty variant: the index is missing.
AnyVersionIsFree(a, v) == TRUE

\* The unique index on (aggregateId, version).
VersionIsFree(a, v) == ~ \E e \in events : e.aggregateId = a /\ e.version = v

-----------------------------------------------------------------------------
Init ==
  /\ events = {}
  /\ writer = [w \in Writers |-> NoCall]
  /\ now = 0

\* findOne is answered: the caller now holds the newest version it saw.
FindLast(w) ==
  /\ writer[w] = NoCall
  /\ \E a \in AggregateIds, t \in AggregateTypes,
        y \in EventTypes, d \in EventData,
        v \in {0} \cup {e.version : e \in events} :
       /\ IsLastVersion(a, t, v)
       /\ writer' = [writer EXCEPT ![w] =
            [pc |-> "found", aggregateId |-> a, aggregateType |-> t,
             eventType |-> y, eventData |-> d, last |-> v, occurredAt |-> 0]]
  /\ UNCHANGED <<events, now>>

\* The continuation of findOne builds the entity, stamping it with the clock
\* of its replica, and hands it to save.
CreateEntity(w) ==
  /\ writer[w].pc = "found"
  /\ \E s \in 0..MaxSkew :
       writer' = [writer EXCEPT ![w].pc = "created",
                                ![w].occurredAt = now + s]
  /\ UNCHANGED <<events, now>>

\* Faulty variant: the increment is missing.
SameVersion(c) == c.last

\* (lastEvent?.version || 0) + 1
NextVersion(c) == c.last + 1

NewEvent(c) ==
  [aggregateId |-> c.aggregateId, aggregateType |-> c.aggregateType,
   eventType |-> c.eventType, eventData |-> c.eventData,
   version |-> NextVersion(c), occurredAt |-> c.occurredAt]

\* The INSERT commits.
Save(w) ==
  /\ writer[w].pc = "created"
  /\ Cardinality(events) < MaxEvents
  /\ VersionIsFree(writer[w].aggregateId, NextVersion(writer[w]))
  /\ events' = events \cup {NewEvent(writer[w])}
  /\ writer' = [writer EXCEPT ![w] = NoCall]
  /\ UNCHANGED now

\* The INSERT violates the unique index: save rejects, appendEvent rejects.
SaveConflict(w) ==
  /\ writer[w].pc = "created"
  /\ ~ VersionIsFree(writer[w].aggregateId, NextVersion(writer[w]))
  /\ writer' = [writer EXCEPT ![w] = NoCall]
  /\ UNCHANGED <<events, now>>

\* The database fails, or the process dies, anywhere in the call.
Abort(w) ==
  /\ writer[w] # NoCall
  /\ writer' = [writer EXCEPT ![w] = NoCall]
  /\ UNCHANGED <<events, now>>

Tick ==
  /\ now < MaxTime
  /\ now' = now + 1
  /\ UNCHANGED <<events, writer>>

Next ==
  \/ \E w \in Writers :
       FindLast(w) \/ CreateEntity(w) \/ Save(w) \/ SaveConflict(w) \/ Abort(w)
  \/ Tick

Spec == Init /\ [][Next]_vars

-----------------------------------------------------------------------------
(* Properties.                                                             *)

\* The versions of an aggregate are 1, 2, ..., n without a hole, whatever
\* appends race: rebuildAggregate never folds over a history with a gap.
VersionsContiguous ==
  \A e \in events : \A k \in 1..e.version :
    \E f \in EventsOf(e.aggregateId, e.aggregateType) : f.version = k

\* An aggregateId belongs to the first aggregateType that stored an event
\* under it.  The query of appendEvent filters by type and the unique index
\* does not, so an append under a second type always asks for version 1 and
\* is always rejected.
OneTypePerId ==
  \A e, f \in events :
    e.aggregateId = f.aggregateId => e.aggregateType = f.aggregateType

\* Within an aggregate a later version never carries an earlier time, so
\* replayEvents (ordered by occurredAt) and rebuildAggregate (ordered by
\* version) never meet two of its events of different times in opposite
\* orders.  It needs clocks that agree: MaxSkew = 0.
OccurredAtFollowsVersion ==
  \A e, f \in events :
    /\ e.aggregateId = f.aggregateId
    /\ e.version < f.version
    => e.occurredAt <= f.occurredAt

-----------------------------------------------------------------------------
(* The inductive invariant behind the three properties: what a caller in   *)
(* the middle of appendEvent may rely on.                                  *)

\* Two rows of one aggregate id never share a version.
VersionUnique ==
  \A e, f \in events :
    e.aggregateId = f.aggregateId /\ e.version = f.version => e = f

\* Every version up to the one the caller saw is still there, under its type.
CallSawPrefix ==
  \A w \in Writers : writer[w] # NoCall =>
    \A k \in 1..writer[w].last :
      \E f \in EventsOf(writer[w].aggregateId, writer[w].aggregateType) :
        f.version = k

\* No stored event lies in the future, and a stamped entity is no older than
\* the events whose versions precede its own.
StampsOrdered ==
  /\ \A e \in events : e.occurredAt <= now
  /\ \A w \in Writers : writer[w].pc = "created" =>
       /\ writer[w].occurredAt <= now
       /\ \A e \in events :
            /\ e.aggregateId = writer[w].aggregateId
            /\ e.version <= writer[w].last
            => e.occurredAt <= writer[w].occurredAt

HistoryInv ==
  /\ TypeOK
  /\ VersionsContiguous
  /\ OneTypePerId
  /\ VersionUnique
  /\ CallSawPrefix

OrderInv ==
  /\ HistoryInv
  /\ StampsOrdered
  /\ OccurredAtFollowsVersion
=============================================================================
