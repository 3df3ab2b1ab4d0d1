-------------------------- MODULE EventStoreProofs --------------------------
(***************************************************************************)
(* TLAPS proofs about EventStore, for every set of ids, types, callers and *)
(* every bound.  HistoryInv needs nothing of the clocks; OrderInv is       *)
(* proved for replicas whose clocks agree.                                 *)
(***************************************************************************)
EXTENDS EventStore, TLAPS

(* What findOne returns is a natural number, and when it is positive some  *)
(* stored event of the aggregate carries it.                               *)
LEMMA LastVersionIsStored ==
  ASSUME TypeOK, NEW a \in AggregateIds, NEW t \in AggregateTypes,
         NEW v \in {0} \cup {e.version : e \in events},
         IsLastVersion(a, t, v)
  PROVE  /\ v \in Nat
         /\ v # 0 => \E e \in EventsOf(a, t) : e.version = v
<1>1. \A e \in events : e.version \in Nat
  BY DEF TypeOK, Event
<1>2. QED
  BY <1>1 DEF IsLastVersion

(* Every step keeps the types of the rows, the callers and the clock.      *)
LEMMA TypeStep == TypeOK /\ [Next]_vars => TypeOK'
<1> SUFFICES ASSUME TypeOK, [Next]_vars PROVE TypeOK'
  OBVIOUS
<1> USE DEF TypeOK
<1>1. ASSUME NEW w \in Writers, FindLast(w) PROVE TypeOK'
  <2>1. PICK a \in AggregateIds, t \in AggregateTypes,
             y \in EventTypes, d \in EventData,
             v \in {0} \cup {e.version : e \in events} :
          /\ IsLastVersion(a, t, v)
          /\ writer' = [writer EXCEPT ![w] =
               [pc |-> "found", aggregateId |-> a, aggregateType |-> t,
                eventType |-> y, eventData |-> d, last |-> v, occurredAt |-> 0]]
    BY <1>1 DEF FindLast
  <2>2. v \in Nat
    BY <2>1, LastVersionIsStored
  <2>3. QED
    BY <1>1, <2>1, <2>2 DEF FindLast, Call
<1>2. ASSUME NEW w \in Writers, CreateEntity(w) PROVE TypeOK'
  <2>1. writer[w] \in Call
    BY <1>2 DEF CreateEntity, NoCall
  <2>2. PICK s \in 0..MaxSkew :
          writer' = [writer EXCEPT ![w].pc = "created",
                                   ![w].occurredAt = now + s]
    BY <1>2 DEF CreateEntity
  <2>3. now + s \in Nat
    BY <2>2, ConstantsAreNumbers
  <2>4. [writer[w] EXCEPT !.pc = "created", !.occurredAt = now + s] \in Call
    BY <2>1, <2>3 DEF Call
  <2>5. QED
    BY <1>2, <2>2, <2>4 DEF CreateEntity
<1>3. ASSUME NEW w \in Writers, Save(w) PROVE TypeOK'
  <2>1. writer[w] \in Call
    BY <1>3 DEF Save, NoCall
  <2>2. NewEvent(writer[w]) \in Event
    BY <2>1 DEF NewEvent, NextVersion, Event, Call
  <2>3. QED
    BY <1>3, <2>2 DEF Save
<1>4. ASSUME NEW w \in Writers, SaveConflict(w) \/ Abort(w) PROVE TypeOK'
  BY <1>4 DEF SaveConflict, Abort
<1>5. CASE Tick
  BY <1>5 DEF Tick
<1>6. CASE UNCHANGED vars
  BY <1>6 DEF vars
<1>7. QED
  BY <1>1, <1>2, <1>3, <1>4, <1>5, <1>6 DEF Next

(* Type correctness: the rows of event_store, the state of every caller of *)
(* appendEvent and the clock always have their types.                      *)
THEOREM TypeCorrect == Spec => []TypeOK
<1>1. Init => TypeOK
  BY DEF Init, TypeOK
<1>2. QED
  BY <1>1, TypeStep, PTL DEF Spec
-----------------------------------------------------------------------------
(* The newest version findOne reports closes a prefix of the history: all  *)
(* smaller versions are stored too.                                        *)
LEMMA LastVersionClosesPrefix ==
  ASSUME HistoryInv, NEW a \in AggregateIds, NEW t \in AggregateTypes,
         NEW v \in {0} \cup {e.version : e \in events},
         IsLastVersion(a, t, v)
  PROVE  \A k \in 1..v : \E f \in EventsOf(a, t) : f.version = k
<1>1. v \in Nat /\ (v # 0 => \E e \in EventsOf(a, t) : e.version = v)
  BY LastVersionIsStored DEF HistoryInv
<1>2. CASE v = 0
  BY <1>2
<1>3. CASE v # 0
  <2>1. PICK e \in EventsOf(a, t) : e.version = v
    BY <1>1, <1>3
  <2>2. e \in events /\ e.aggregateId = a /\ e.aggregateType = t
    BY <2>1 DEF EventsOf
  <2>3. \A k \in 1..e.version :
          \E f \in EventsOf(e.aggregateId, e.aggregateType) : f.version = k
    BY <2>2 DEF HistoryInv, VersionsContiguous
  <2>4. QED
    BY <2>1, <2>2, <2>3
<1>4. QED
  BY <1>2, <1>3

(* A step that stores nothing and gives no caller a longer prefix than it  *)
(* had, or than is stored, keeps the history invariant.                    *)
LEMMA SilentStep ==
  ASSUME HistoryInv, TypeOK', UNCHANGED events, CallSawPrefix'
  PROVE  HistoryInv'
BY DEF HistoryInv, VersionsContiguous, OneTypePerId, VersionUnique, EventsOf

(* The insert is the one step that changes the table.                      *)
LEMMA SaveKeepsHistory ==
  ASSUME HistoryInv, TypeOK', NEW w \in Writers, Save(w)
  PROVE  HistoryInv'
<1>1. PICK c \in Call : c = writer[w] /\ c # NoCall
  BY DEF HistoryInv, TypeOK, Save, NoCall
<1> DEFINE n == NewEvent(c)
<1>2. /\ events' = events \cup {n}
      /\ writer' = [writer EXCEPT ![w] = NoCall]
      /\ VersionIsFree(c.aggregateId, c.last + 1)
  BY <1>1 DEF Save, NextVersion
<1>3. /\ n.aggregateId = c.aggregateId
      /\ n.aggregateType = c.aggregateType
      /\ n.version = c.last + 1
      /\ c.last \in Nat
  BY <1>1 DEF NewEvent, NextVersion, Call
<1>4. \A k \in 1..c.last :
        \E f \in EventsOf(c.aggregateId, c.aggregateType) : f.version = k
  BY <1>1 DEF HistoryInv, CallSawPrefix
<1>5. \A e \in events : e.version \in Nat \ {0}
  BY DEF HistoryInv, TypeOK, Event
<1>6. \A a, t : EventsOf(a, t) \subseteq EventsOf(a, t)'
  BY <1>2 DEF EventsOf
<1>7. n \in EventsOf(c.aggregateId, c.aggregateType)'
  BY <1>2, <1>3 DEF EventsOf
<1>8. VersionsContiguous'
  <2> SUFFICES ASSUME NEW e \in events', NEW k \in 1..e.version
               PROVE  \E f \in EventsOf(e.aggregateId, e.aggregateType)' :
                        f.version = k
    BY DEF VersionsContiguous
  <2>1. CASE e \in events
    BY <2>1, <1>6 DEF HistoryInv, VersionsContiguous
  <2>2. CASE e = n /\ k = c.last + 1
    BY <2>2, <1>3, <1>7
  <2>3. CASE e = n /\ k # c.last + 1
    <3>1. k \in 1..c.last
      BY <2>3, <1>3
    <3>2. QED
      BY <2>3, <3>1, <1>3, <1>4, <1>6
  <2>4. QED
    BY <2>1, <2>2, <2>3, <1>2
<1>9. \A e \in events : e.aggregateId = c.aggregateId
                          => e.aggregateType = c.aggregateType
  <2> SUFFICES ASSUME NEW e \in events, e.aggregateId = c.aggregateId
               PROVE  e.aggregateType = c.aggregateType
    OBVIOUS
  <2>1. PICK f \in EventsOf(e.aggregateId, e.aggregateType) : f.version = 1
    BY <1>5 DEF HistoryInv, VersionsContiguous
  <2>2. c.last # 0
    BY <2>1, <1>2 DEF VersionIsFree, EventsOf
  <2>3. PICK g \in EventsOf(c.aggregateId, c.aggregateType) : g.version = 1
    BY <2>2, <1>3, <1>4
  <2>4. QED
    BY <2>3 DEF HistoryInv, OneTypePerId, EventsOf
<1>10. OneTypePerId'
  BY <1>2, <1>3, <1>9 DEF HistoryInv, OneTypePerId
<1>11. VersionUnique'
  BY <1>2, <1>3 DEF HistoryInv, VersionUnique, VersionIsFree
<1>12. CallSawPrefix'
  BY <1>2, <1>6 DEF HistoryInv, TypeOK, CallSawPrefix
<1>13. QED
  BY <1>8, <1>10, <1>11, <1>12 DEF HistoryInv

\* Every step keeps the write models versions of the stored events.
LEMMA HistoryStep == HistoryInv /\ [Next]_vars => HistoryInv'
<1> SUFFICES ASSUME HistoryInv, [Next]_vars PROVE HistoryInv'
  OBVIOUS
<1>1. TypeOK /\ TypeOK'
  BY TypeStep DEF HistoryInv
<1>2. ASSUME NEW w \in Writers, FindLast(w) PROVE HistoryInv'
  <2>1. PICK a \in AggregateIds, t \in AggregateTypes,
             y \in EventTypes, d \in EventData,
             v \in {0} \cup {e.version : e \in events} :
          /\ IsLastVersion(a, t, v)
          /\ writer' = [writer EXCEPT ![w] =
               [pc |-> "found", aggregateId |-> a, aggregateType |-> t,
                eventType |-> y, eventData |-> d, last |-> v, occurredAt |-> 0]]
    BY <1>2 DEF FindLast
  <2>2. \A k \in 1..v : \E f \in EventsOf(a, t) : f.version = k
    BY <2>1, LastVersionClosesPrefix
  <2>3. UNCHANGED events
    BY <1>2 DEF FindLast
  <2>4. \A x, y1 : EventsOf(x, y1)' = EventsOf(x, y1)
    BY <2>3 DEF EventsOf
  <2>5. CallSawPrefix'
    BY <2>1, <2>2, <2>4, <1>1 DEF HistoryInv, CallSawPrefix, TypeOK
  <2>6. QED
    BY <1>1, <2>3, <2>5, SilentStep
<1>3. ASSUME NEW w \in Writers, CreateEntity(w) PROVE HistoryInv'
  <2>1. UNCHANGED events
    BY <1>3 DEF CreateEntity
  <2>2. \A x, y : EventsOf(x, y)' = EventsOf(x, y)
    BY <2>1 DEF EventsOf
  <2>3. /\ writer[w] \in Call /\ writer[w] # NoCall
        /\ writer'[w].last = writer[w].last
        /\ writer'[w].aggregateId = writer[w].aggregateId
        /\ writer'[w].aggregateType = writer[w].aggregateType
        /\ \A u \in Writers \ {w} : writer'[u] = writer[u]
    BY <1>1, <1>3 DEF CreateEntity, TypeOK, NoCall, Call
  <2>4. CallSawPrefix'
    BY <2>2, <2>3 DEF HistoryInv, CallSawPrefix
  <2>5. QED
    BY <1>1, <2>1, <2>4, SilentStep
<1>4. ASSUME NEW w \in Writers, Save(w) PROVE HistoryInv'
  BY <1>1, <1>4, SaveKeepsHistory
<1>5. ASSUME NEW w \in Writers, SaveConflict(w) \/ Abort(w) PROVE HistoryInv'
  <2>1. UNCHANGED events /\ writer' = [writer EXCEPT ![w] = NoCall]
    BY <1>5 DEF SaveConflict, Abort
  <2>2. CallSawPrefix'
    BY <2>1, <1>1 DEF HistoryInv, CallSawPrefix, TypeOK, EventsOf
  <2>3. QED
    BY <1>1, <2>1, <2>2, SilentStep
<1>6. CASE Tick \/ UNCHANGED vars
  <2>1. UNCHANGED <<events, writer>>
    BY <1>6 DEF Tick, vars
  <2>2. CallSawPrefix'
    BY <2>1 DEF HistoryInv, CallSawPrefix, EventsOf
  <2>3. QED
    BY <1>1, <2>1, <2>2, SilentStep
<1>7. QED
  BY <1>2, <1>3, <1>4, <1>5, <1>6 DEF Next

\* The stored versions are the history of each aggregate.
LEMMA HistoryInvariant == Spec => []HistoryInv
<1>1. Init => HistoryInv
  BY DEF Init, HistoryInv, TypeOK, VersionsContiguous, OneTypePerId,
         VersionUnique, CallSawPrefix
<1>2. QED
  BY <1>1, HistoryStep, PTL DEF Spec

(* However many appends race, on whatever replicas and clocks, the stored  *)
(* versions of an aggregate are 1..n without a hole.                       *)
THEOREM VersionsAlwaysContiguous == Spec => []VersionsContiguous
<1>1. HistoryInv => VersionsContiguous
  BY DEF HistoryInv
<1>2. QED
  BY <1>1, HistoryInvariant, PTL

(* A second aggregate type never gets an event in under an id in use.      *)
THEOREM IdsKeepTheirType == Spec => []OneTypePerId
<1>1. HistoryInv => OneTypePerId
  BY DEF HistoryInv
<1>2. QED
  BY <1>1, HistoryInvariant, PTL

-----------------------------------------------------------------------------
(* When the replicas' clocks agree, stamps follow versions.                *)
LEMMA OrderStep ==
  ASSUME MaxSkew = 0
  PROVE  OrderInv /\ [Next]_vars => OrderInv'
<1> SUFFICES ASSUME OrderInv, [Next]_vars PROVE OrderInv'
  OBVIOUS
<1>1. HistoryInv /\ HistoryInv' /\ TypeOK /\ TypeOK'
  BY HistoryStep DEF OrderInv, HistoryInv
<1> SUFFICES StampsOrdered' /\ OccurredAtFollowsVersion'
  BY <1>1 DEF OrderInv
<1>2. \A e \in events : /\ e.version \in Nat \ {0} /\ e.occurredAt \in Nat
                        /\ e.occurredAt <= now
  BY <1>1 DEF TypeOK, Event, OrderInv, StampsOrdered
<1>3. ASSUME NEW w \in Writers, FindLast(w)
      PROVE  StampsOrdered' /\ OccurredAtFollowsVersion'
  <2>1. /\ UNCHANGED <<events, now>>
        /\ writer'[w].pc = "found"
        /\ \A u \in Writers \ {w} : writer'[u] = writer[u]
    BY <1>1, <1>3 DEF FindLast, TypeOK
  <2>2. StampsOrdered'
    BY <2>1 DEF OrderInv, StampsOrdered
  <2>3. QED
    BY <2>1, <2>2 DEF OrderInv, OccurredAtFollowsVersion
<1>4. ASSUME NEW w \in Writers, CreateEntity(w)
      PROVE  StampsOrdered' /\ OccurredAtFollowsVersion'
  <2>1. /\ UNCHANGED <<events, now>>
        /\ writer[w] \in Call
        /\ \E s \in 0..MaxSkew :
             writer' = [writer EXCEPT ![w].pc = "created",
                                      ![w].occurredAt = now + s]
    BY <1>1, <1>4 DEF CreateEntity, TypeOK, NoCall
  <2>2. writer' = [writer EXCEPT ![w].pc = "created", ![w].occurredAt = now]
    <3>1. \A s \in 0..MaxSkew : now + s = now
      BY <1>1 DEF TypeOK
    <3>2. QED
      BY <2>1, <3>1
  <2>3. /\ writer'[w].occurredAt = now
        /\ \A u \in Writers \ {w} : writer'[u] = writer[u]
    BY <2>1, <2>2, <1>1 DEF TypeOK, Call
  <2>4. StampsOrdered'
    BY <2>1, <2>3, <1>1, <1>2 DEF OrderInv, StampsOrdered, TypeOK
  <2>5. QED
    BY <2>1, <2>4 DEF OrderInv, OccurredAtFollowsVersion
<1>5. ASSUME NEW w \in Writers, Save(w)
      PROVE  StampsOrdered' /\ OccurredAtFollowsVersion'
  <2> DEFINE c == writer[w]
             n == NewEvent(c)
  <2>1. c \in Call /\ c.pc = "created"
    BY <1>1, <1>5 DEF TypeOK, Save, NoCall
  <2>2. /\ events' = events \cup {n}
        /\ writer' = [writer EXCEPT ![w] = NoCall]
        /\ UNCHANGED now
        /\ VersionIsFree(c.aggregateId, c.last + 1)
    BY <1>5 DEF Save, NextVersion
  <2>3. /\ n.aggregateId = c.aggregateId
        /\ n.version = c.last + 1
        /\ n.occurredAt = c.occurredAt
        /\ c.last \in Nat /\ c.occurredAt \in Nat /\ c.occurredAt <= now
    BY <2>1 DEF NewEvent, NextVersion, Call, OrderInv, StampsOrdered
  <2>4. \A u \in Writers \ {w} : writer'[u] = writer[u]
    BY <2>2, <1>1 DEF TypeOK
  <2>5. writer'[w].pc # "created"
    BY <2>2, <1>1 DEF TypeOK, NoCall
  <2>6. \A u \in Writers \ {w} :
          /\ writer[u].pc = "created"
          /\ writer[u].aggregateId = c.aggregateId
          => writer[u].last < c.last + 1
    <3> SUFFICES ASSUME NEW u \in Writers \ {w}, writer[u].pc = "created",
                        writer[u].aggregateId = c.aggregateId,
                        ~ (writer[u].last < c.last + 1)
                 PROVE  FALSE
      OBVIOUS
    <3>1. writer[u] # NoCall /\ writer[u] \in Call
      BY <1>1 DEF TypeOK, NoCall
    <3>2. c.last + 1 \in 1..writer[u].last
      BY <3>1, <2>3 DEF Call
    <3>3. \E f \in EventsOf(writer[u].aggregateId, writer[u].aggregateType) :
            f.version = c.last + 1
      BY <3>1, <3>2, <1>1 DEF HistoryInv, CallSawPrefix
    <3>4. QED
      BY <3>3, <2>2 DEF EventsOf, VersionIsFree
  <2>7. StampsOrdered'
    <3>1. \A e \in events' : e.occurredAt <= now'
      BY <2>2, <2>3, <1>2
    <3>2. ASSUME NEW u \in Writers, writer'[u].pc = "created"
          PROVE  /\ writer'[u].occurredAt <= now'
                 /\ \A e \in events' :
                      /\ e.aggregateId = writer'[u].aggregateId
                      /\ e.version <= writer'[u].last
                      => e.occurredAt <= writer'[u].occurredAt
      <4>1. u # w /\ writer'[u] = writer[u]
        BY <3>2, <2>4, <2>5
      <4>2. writer[u] \in Call
        BY <3>2, <4>1, <1>1 DEF TypeOK, NoCall
      <4>3. ~ (n.aggregateId = writer[u].aggregateId /\ n.version <= writer[u].last)
        BY <3>2, <4>1, <4>2, <2>3, <2>6 DEF Call
      <4>4. QED
        BY <3>2, <4>1, <4>3, <2>2 DEF OrderInv, StampsOrdered
    <3>3. QED
      BY <3>1, <3>2 DEF StampsOrdered
  <2>8. \A f \in events : f.aggregateId = c.aggregateId => f.version < c.last + 1
    <3> SUFFICES ASSUME NEW f \in events, f.aggregateId = c.aggregateId,
                        ~ (f.version < c.last + 1)
                 PROVE  FALSE
      OBVIOUS
    <3>1. c.last + 1 \in 1..f.version
      BY <1>2, <2>3
    <3>2. \E g \in EventsOf(f.aggregateId, f.aggregateType) :
            g.version = c.last + 1
      BY <3>1, <1>1 DEF HistoryInv, VersionsContiguous
    <3>3. QED
      BY <3>2, <2>2 DEF EventsOf, VersionIsFree
  <2>9. ASSUME NEW e \in events', NEW f \in events',
               e.aggregateId = f.aggregateId, e.version < f.version
        PROVE  e.occurredAt <= f.occurredAt
    <3>1. CASE e \in events /\ f \in events
      BY <2>9, <3>1 DEF OrderInv, OccurredAtFollowsVersion
    <3>2. CASE e \in events /\ f = n
      <4>1. e.version <= c.last
        BY <2>3, <2>9, <3>2, <1>2
      <4>2. QED
        BY <2>1, <2>3, <2>9, <3>2, <4>1 DEF OrderInv, StampsOrdered
    <3>3. CASE e = n /\ f \in events
      BY <2>3, <2>8, <2>9, <3>3, <1>2
    <3>4. CASE e = n /\ f = n
      BY <2>3, <2>9, <3>4
    <3>5. QED
      BY <2>2, <3>1, <3>2, <3>3, <3>4
  <2>10. QED
    BY <2>7, <2>9 DEF OccurredAtFollowsVersion
<1>6. ASSUME NEW w \in Writers, SaveConflict(w) \/ Abort(w)
      PROVE  StampsOrdered' /\ OccurredAtFollowsVersion'
  <2>1. /\ UNCHANGED <<events, now>>
        /\ writer'[w].pc # "created"
        /\ \A u \in Writers \ {w} : writer'[u] = writer[u]
    BY <1>1, <1>6 DEF SaveConflict, Abort, NoCall, TypeOK
  <2>2. QED
    BY <2>1 DEF OrderInv, StampsOrdered, OccurredAtFollowsVersion
<1>7. CASE Tick
  <2>1. UNCHANGED <<events, writer>> /\ now' = now + 1 /\ now \in Nat
    BY <1>7, <1>1 DEF Tick, TypeOK
  <2>2. \A w \in Writers : writer[w].pc = "created" => writer[w].occurredAt \in Nat
    BY <1>1 DEF TypeOK, Call, NoCall
  <2>3. QED
    BY <2>1, <2>2, <1>2 DEF OrderInv, StampsOrdered, OccurredAtFollowsVersion
<1>8. CASE UNCHANGED vars
  BY <1>8 DEF vars, OrderInv, StampsOrdered, OccurredAtFollowsVersion
<1>9. QED
  BY <1>3, <1>4, <1>5, <1>6, <1>7, <1>8 DEF Next

(* With agreeing clocks, later versions of an aggregate never carry        *)
(* earlier times: replay order and rebuild order cannot contradict.        *)
THEOREM StampsFollowVersions ==
  ASSUME MaxSkew = 0
  PROVE  Spec => []OccurredAtFollowsVersion
<1>1. Init => OrderInv
  BY DEF Init, OrderInv, HistoryInv, TypeOK, VersionsContiguous, OneTypePerId,
         VersionUnique, CallSawPrefix, StampsOrdered, OccurredAtFollowsVersion,
         NoCall
<1>2. OrderInv /\ [Next]_vars => OrderInv'
  BY OrderStep
<1>3. OrderInv => OccurredAtFollowsVersion
  BY DEF OrderInv
<1>4. QED
  BY <1>1, <1>2, <1>3, PTL DEF Spec
=============================================================================
