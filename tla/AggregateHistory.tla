-------------------------- MODULE AggregateHistory --------------------------
(***************************************************************************)
(* What the event store is read for: getAggregateEvents and the loop of    *)
(* rebuildAggregate, over the histories that racing appends can produce;   *)
(* and the log the store stands for.                                       *)
(***************************************************************************)
EXTENDS EventStore, SequencesExt, TLC

CONSTANTS
  Undefined,  \* the value of an absent property
  Contents    \* bound: the types and payloads of rewritten events

-----------------------------------------------------------------------------
(* Reading.                                                                *)

\* The events of S by version, each of them once.
ByVersion(S) ==
  CHOOSE s \in SetToSeqs(S) :
    \A i, j \in DOMAIN s : i < j => s[i].version <= s[j].version

\* getAggregateEvents: ORDER BY version ASC.
History(a, t) == ByVersion(EventsOf(a, t))

Property(data, p) == IF p \in DOMAIN data THEN data[p] ELSE Undefined

\* Faulty variant: the older state wins.
MergeUnder(state, data) == state @@ data

\* {...state, ...data}
Merge(state, data) ==
  [p \in DOMAIN state \cup DOMAIN data |->
     IF p \in DOMAIN data THEN data[p] ELSE state[p]]

ApplyEvent(state, e) ==
  CASE e.eventType = "TaskCreated" ->
         Merge(e.eventData, [version |-> e.version])
    [] e.eventType = "TaskUpdated" ->
         Merge(Merge(state, e.eventData), [version |-> e.version])
    [] e.eventType = "TaskStatusChanged" ->
         Merge(state, [status |-> Property(e.eventData, "newStatus"),
                       version |-> e.version])
    [] OTHER -> state

EmptyState == << >>

\* The loop of rebuildAggregate: state[k] is what k events have made.
RebuildFrom(history) ==
  LET state[k \in 0..Len(history)] ==
        IF k = 0 THEN EmptyState ELSE ApplyEvent(state[k - 1], history[k])
  IN  state[Len(history)]

\* rebuildAggregate
Rebuild(a, t) == RebuildFrom(History(a, t))

\* Faulty variant: the start of the range is left out.
SelectedAfter(from, to, types) ==
  {e \in events :
     from < e.occurredAt /\ e.occurredAt <= to /\ e.eventType \in types}

\* The query of getEventsByTimeRange and replayEvents; no types, or an empty
\* list of them, means all.
Selected(from, to, types) ==
  {e \in events :
     from <= e.occurredAt /\ e.occurredAt <= to /\ e.eventType \in types}

\* replayEvents re-emits what is selected ordered by occurredAt: events of the
\* same time in any order the database likes.
Replays(from, to, types) ==
  {s \in SetToSeqs(Selected(from, to, types)) :
     \A i, j \in DOMAIN s : i < j => s[i].occurredAt <= s[j].occurredAt}

-----------------------------------------------------------------------------
(* What a rebuild should give, said without a loop.                        *)

Known == {"TaskCreated", "TaskUpdated", "TaskStatusChanged"}

\* The properties an event sets.
Sets(e) ==
  CASE e.eventType \in {"TaskCreated", "TaskUpdated"} ->
         DOMAIN e.eventData \cup {"version"}
    [] e.eventType = "TaskStatusChanged" -> {"status", "version"}
    [] OTHER -> {}

ValueSet(e, p) ==
  IF p = "version" THEN e.version
  ELSE IF e.eventType = "TaskStatusChanged" THEN Property(e.eventData, "newStatus")
  ELSE e.eventData[p]

\* The events of S since the aggregate was last created.
Life(S) ==
  {e \in S : ~ \E f \in S : f.eventType = "TaskCreated" /\ f.version > e.version}

\* e is the newest event of the current life that sets p.
SetsLast(S, p, e) ==
  /\ e \in Life(S) /\ p \in Sets(e)
  /\ \A f \in Life(S) : p \in Sets(f) => f.version <= e.version

\* The state has exactly the properties set since the last creation, each with
\* the value of the newest event that set it.
Shows(state, S) ==
  /\ DOMAIN state = UNION {Sets(e) : e \in Life(S)}
  /\ \A p \in DOMAIN state : \E e \in Life(S) :
       SetsLast(S, p, e) /\ state[p] = ValueSet(e, p)

\* A rebuilt aggregate shows the events stored for it, whatever appends raced;
\* and if all of them are of kinds the rebuild knows, its version is their
\* number, so that a caller can tell whether it has seen them all.
RebuildMatchesHistory ==
  \A a \in AggregateIds, t \in AggregateTypes :
    /\ Shows(Rebuild(a, t), EventsOf(a, t))
    /\ EventsOf(a, t) # {} /\ (\A e \in EventsOf(a, t) : e.eventType \in Known)
         => Rebuild(a, t).version = Cardinality(EventsOf(a, t))

\* The rows of a history with other contents.
Rewritten(h, contents) ==
  [i \in DOMAIN h |-> [h[i] EXCEPT !.eventType = contents[i][1],
                                  !.eventData = contents[i][2]]]

\* What events contain does not matter to appendEvent; to the rebuild it does.
\* It gives what the events of a stored history set, had they been any whole
\* entities, partial updates, status changes with and without a status, kinds
\* it does not know and second creations, in any order.  (Calls in progress add
\* nothing to that: every table is one with none.)
RebuildReadsContents ==
  (\A w \in Writers : writer[w] = NoCall) =>
    \A a \in AggregateIds, t \in AggregateTypes :
      \A contents \in [1..Cardinality(EventsOf(a, t)) -> Contents] :
        LET h == Rewritten(History(a, t), contents)
        IN  Shows(RebuildFrom(h), Range(h))

\* The k-th event of an aggregate that a replay up to some time gives is its
\* version k: the listeners get the beginning of its history, none left out and
\* in order, however its appends raced; two of its events with the same time
\* are the exception.
ReplayIsPrefix ==
  \A to \in 0..now : \A s \in Replays(0, to, EventTypes) :
    \A a \in AggregateIds, t \in AggregateTypes :
      (\A e, f \in EventsOf(a, t) : e.occurredAt = f.occurredAt => e = f) =>
        \A i \in DOMAIN s : s[i] \in EventsOf(a, t) =>
          s[i].version = Cardinality({j \in 1..i : s[j] \in EventsOf(a, t)})

-----------------------------------------------------------------------------
(* The log the store stands for.                                           *)

\* The rows of an aggregate id, whatever their type.
RowsOf(a) == {e \in events : e.aggregateId = a}

LogOf(a) == ByVersion(RowsOf(a))

Log == INSTANCE EventLog WITH log <- [a \in AggregateIds |-> LogOf(a)]

\* Racing appends behave as appends, one at a time, to one log per aggregate
\* id.
ImplementsLog == Log!Spec
=============================================================================
