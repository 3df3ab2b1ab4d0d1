----------------------- MODULE AggregateHistoryProofs -----------------------
(***************************************************************************)
(* TLAPS proofs that the event store implements one append-only log per    *)
(* aggregate id, that with agreeing clocks a replay gives the beginning of *)
(* each history, and that rebuilding an aggregate from one then counts it  *)
(* fully, for every number of ids, types, callers and events.              *)
(***************************************************************************)
EXTENDS AggregateHistory, EventStoreProofs, FiniteSetTheorems, SequenceTheorems,
        WellFoundedInduction

-----------------------------------------------------------------------------
(* Sorting.                                                                *)

\* n numbers of 1..n in strictly rising order are 1, 2, ..., n: the first i of
\* them are different numbers up to the i-th, and the last n - i + 1 are
\* different numbers from the i-th on.
LEMMA RisingIsIdentity ==
  ASSUME NEW n \in Nat, NEW g \in [1..n -> 1..n],
         \A i, j \in 1..n : i < j => g[i] < g[j]
  PROVE  \A i \in 1..n : g[i] = i
<1> SUFFICES ASSUME NEW i \in 1..n PROVE g[i] = i
  OBVIOUS
<1>1. \A j, k \in 1..n : g[j] = g[k] => j = k
  OBVIOUS
<1>2. i <= g[i]
  <2> DEFINE h == [j \in 1..i |-> g[j]]
  <2>1. h \in Injection(1..i, 1..g[i])
    <3>1. ASSUME NEW j \in 1..i PROVE j \in 1..n /\ g[j] \in 1..g[i]
      <4>1. j \in 1..n /\ (j = i \/ j < i)
        OBVIOUS
      <4>2. g[j] \in 1..n /\ g[i] \in 1..n /\ g[j] <= g[i]
        BY <4>1
      <4> QED
        BY <4>1, <4>2
    <3>2. h \in [1..i -> 1..g[i]]
      BY <3>1
    <3>3. \A j, k \in 1..i : h[j] = h[k] => j = k
      BY <1>1, <3>1
    <3> QED
      BY <3>2, <3>3 DEF Injection, IsInjective
  <2> HIDE DEF h
  <2>2. Cardinality(1..i) <= Cardinality(1..g[i])
    <3>1. IsFiniteSet(1..g[i])
      BY FS_Interval
    <3> QED
      BY <2>1, <3>1, FS_Injection
  <2>3. Cardinality(1..i) = i /\ Cardinality(1..g[i]) = g[i]
    BY FS_Interval
  <2> QED
    BY <2>2, <2>3
<1>3. g[i] <= i
  <2> DEFINE h == [j \in i..n |-> g[j]]
  <2>1. h \in Injection(i..n, g[i]..n)
    <3>1. ASSUME NEW j \in i..n PROVE j \in 1..n /\ g[j] \in g[i]..n
      <4>1. j \in 1..n /\ (j = i \/ i < j)
        OBVIOUS
      <4>2. g[j] \in 1..n /\ g[i] \in 1..n /\ g[i] <= g[j]
        BY <4>1
      <4> QED
        BY <4>1, <4>2
    <3>2. h \in [i..n -> g[i]..n]
      BY <3>1
    <3>3. \A j, k \in i..n : h[j] = h[k] => j = k
      BY <1>1, <3>1
    <3> QED
      BY <3>2, <3>3 DEF Injection, IsInjective
  <2> HIDE DEF h
  <2>2. Cardinality(i..n) <= Cardinality(g[i]..n)
    <3>1. IsFiniteSet(g[i]..n)
      BY FS_Interval
    <3> QED
      BY <2>1, <3>1, FS_Injection
  <2>3. Cardinality(i..n) = n - i + 1 /\ Cardinality(g[i]..n) = n - g[i] + 1
    BY FS_Interval
  <2> QED
    BY <2>2, <2>3
<1> QED
  BY <1>2, <1>3

\* Events whose versions are 1..n, each once.
Numbered(S, n) ==
  /\ {e.version : e \in S} = 1..n
  /\ \A e, f \in S : e.version = f.version => e = f

\* Sorted, each stands at its version.
LEMMA NumberedInOrder ==
  ASSUME NEW S, NEW n \in Nat, Numbered(S, n)
  PROVE  /\ ByVersion(S) \in [1..n -> S]
         /\ \A i \in 1..n : ByVersion(S)[i].version = i
<1>1. \A e \in S : e.version \in 1..n
  BY DEF Numbered
<1> DEFINE b == [i \in 1..n |-> CHOOSE e \in S : e.version = i]
<1>2. \A i \in 1..n : b[i] \in S /\ b[i].version = i
  <2> SUFFICES ASSUME NEW i \in 1..n PROVE b[i] \in S /\ b[i].version = i
    OBVIOUS
  <2>1. \E e \in S : e.version = i
    BY DEF Numbered
  <2> QED
    BY <2>1
<1>3. b \in [1..n -> S]
  BY <1>2
<1> HIDE DEF b
<1>4. b \in Bijection(1..n, S)
  <2>1. b \in Injection(1..n, S)
    BY <1>2, <1>3 DEF Injection, IsInjective
  <2>2. b \in Surjection(1..n, S)
    BY <1>1, <1>2, <1>3 DEF Surjection, Numbered
  <2> QED
    BY <2>1, <2>2 DEF Bijection
<1>5. Cardinality(S) = n
  <2>1. ExistsBijection(1..n, S)
    BY <1>4 DEF ExistsBijection
  <2> QED
    BY <2>1, FS_CountingElements
<1> DEFINE Sorted(s) == \A i, j \in DOMAIN s : i < j => s[i].version <= s[j].version
<1>6. b \in SetToSeqs(S) /\ Sorted(b)
  <2>1. \A i, j \in 1..n : i # j => b[i] # b[j]
    BY <1>2
  <2>2. \A i, j \in 1..n : i < j => b[i].version <= b[j].version
    BY <1>2
  <2> QED
    BY <1>3, <1>5, <2>1, <2>2 DEF SetToSeqs
<1>7. PICK s : s = ByVersion(S)
  OBVIOUS
<1>8. s \in SetToSeqs(S) /\ Sorted(s)
  BY <1>6, <1>7 DEF ByVersion
<1>9. s \in [1..n -> S] /\ \A i, j \in 1..n : i # j => s[i] # s[j]
  BY <1>5, <1>8 DEF SetToSeqs
<1>10. \A i, j \in 1..n : i < j => s[i].version < s[j].version
  <2> SUFFICES ASSUME NEW i \in 1..n, NEW j \in 1..n, i < j
               PROVE  s[i].version < s[j].version
    OBVIOUS
  <2>1. s[i].version <= s[j].version
    BY <1>8, <1>9
  <2>2. s[i].version # s[j].version
    BY <1>9 DEF Numbered
  <2>3. s[i].version \in 1..n /\ s[j].version \in 1..n
    BY <1>1, <1>9
  <2> QED
    BY <2>1, <2>2, <2>3
<1> DEFINE g == [i \in 1..n |-> s[i].version]
<1>11. \A i \in 1..n : g[i] = i
  <2>1. g \in [1..n -> 1..n]
    BY <1>1, <1>9
  <2>2. \A i, j \in 1..n : i < j => g[i] < g[j]
    BY <1>10
  <2> HIDE DEF g
  <2> QED
    BY <2>1, <2>2, RisingIsIdentity
<1> QED
  BY <1>7, <1>9, <1>11

-----------------------------------------------------------------------------
(* The step simulation.                                                    *)

\* The rows of every id are numbered without a hole.
AllNumbered == \A a \in AggregateIds : \E n \in Nat : Numbered(RowsOf(a), n)

LogInv == HistoryInv /\ AllNumbered

\* The mapping of the state to the variable of EventLog.
LogMap == [a \in AggregateIds |-> LogOf(a)]

\* An insert gives the next number to the id it is for, and to no other.
LEMMA SaveNumbers ==
  ASSUME HistoryInv, NEW w \in Writers, Save(w),
         NEW a, a = writer[w].aggregateId, NEW e, e = NewEvent(writer[w]),
         NEW n \in Nat, Numbered(RowsOf(a), n)
  PROVE  /\ e.version = n + 1 /\ e.aggregateId = a
         /\ RowsOf(a)' = RowsOf(a) \cup {e}
         /\ \A b \in AggregateIds \ {a} : RowsOf(b)' = RowsOf(b)
<1>1. PICK c \in Call : c = writer[w] /\ c # NoCall
  BY DEF HistoryInv, TypeOK, Save, NoCall
<1>2. a = c.aggregateId
  BY <1>1
<1>3. e = NewEvent(c)
  BY <1>1
<1>4. /\ e.version = c.last + 1 /\ e.aggregateId = a /\ c.last \in Nat
      /\ events' = events \cup {e} /\ VersionIsFree(a, c.last + 1)
  BY <1>1, <1>2, <1>3 DEF Save, NewEvent, NextVersion, Call
<1>5. \A k \in 1..c.last : \E f \in RowsOf(a) : f.version = k
  BY <1>1, <1>2 DEF HistoryInv, CallSawPrefix, EventsOf, RowsOf
<1>6. c.last = n
  <2>1. \A k \in 1..c.last : k \in 1..n
    BY <1>1, <1>2, <1>5 DEF Numbered
  <2>2. c.last + 1 \notin 1..n
    BY <1>1, <1>2, <1>4 DEF Numbered, VersionIsFree, RowsOf
  <2>3. c.last <= n
    <3>1. CASE c.last = 0
      BY <3>1
    <3>2. CASE c.last # 0
      BY <1>4, <2>1, <3>2
    <3> QED
      BY <3>1, <3>2
  <2> QED
    BY <1>4, <2>2, <2>3
<1>7. RowsOf(a)' = RowsOf(a) \cup {e} /\ \A b \in AggregateIds \ {a} : RowsOf(b)' = RowsOf(b)
  BY <1>4 DEF RowsOf
<1> QED
  BY <1>4, <1>6, <1>7

\* A set with the next number is numbered, and its order is that of the set and
\* the new event behind it.
LEMMA NextNumber ==
  ASSUME NEW S, NEW n \in Nat, Numbered(S, n), NEW e, e.version = n + 1
  PROVE  /\ Numbered(S \cup {e}, n + 1)
         /\ ByVersion(S) \in Seq(S) /\ Len(ByVersion(S)) = n
         /\ ByVersion(S \cup {e}) = Append(ByVersion(S), e)
<1>1. Numbered(S \cup {e}, n + 1)
  <2>1. {f.version : f \in S} = 1..n /\ \A f, g \in S : f.version = g.version => f = g
    BY DEF Numbered
  <2>2. {f.version : f \in S \cup {e}} = 1..(n + 1)
    <3>1. {f.version : f \in S \cup {e}} = {f.version : f \in S} \cup {n + 1}
      OBVIOUS
    <3> QED
      BY <2>1, <3>1
  <2>3. \A f \in S : f.version # n + 1
    BY <2>1
  <2>4. \A f, g \in S \cup {e} : f.version = g.version => f = g
    BY <2>1, <2>3
  <2> QED
    BY <2>2, <2>4 DEF Numbered
<1>2. PICK s : s = ByVersion(S)
  OBVIOUS
<1>3. PICK t : t = ByVersion(S \cup {e})
  OBVIOUS
<1>4. s \in [1..n -> S] /\ \A i \in 1..n : s[i].version = i
  BY <1>2, NumberedInOrder
<1>5. t \in [1..(n + 1) -> S \cup {e}] /\ \A i \in 1..(n + 1) : t[i].version = i
  <2>1. n + 1 \in Nat
    OBVIOUS
  <2>2. PICK T : T = S \cup {e}
    OBVIOUS
  <2>3. t = ByVersion(T) /\ Numbered(T, n + 1)
    BY <1>1, <1>3, <2>2
  <2>4. t \in [1..(n + 1) -> T] /\ \A i \in 1..(n + 1) : t[i].version = i
    BY <2>1, <2>3, NumberedInOrder
  <2> QED
    BY <2>2, <2>4
<1>6. s \in Seq(S) /\ s \in Seq(S \cup {e}) /\ Len(s) = n
  BY <1>4
<1>7. \A f, g \in S \cup {e} : f.version = g.version => f = g
  BY <1>1 DEF Numbered
<1>8. \A i \in 1..n : t[i] = s[i]
  <2> SUFFICES ASSUME NEW i \in 1..n PROVE t[i] = s[i]
    OBVIOUS
  <2>1. s[i] \in S \cup {e} /\ s[i].version = i
    BY <1>4
  <2>2. t[i] \in S \cup {e} /\ t[i].version = i
    BY <1>5
  <2> QED
    BY <1>7, <2>1, <2>2
<1>9. t[n + 1] = e
  <2>1. t[n + 1] \in S \cup {e} /\ t[n + 1].version = n + 1
    BY <1>5
  <2> QED
    BY <1>7, <2>1
<1>10. t = Append(s, e)
  <2>1. t \in Seq(S \cup {e}) /\ Len(t) = n + 1
    BY <1>5
  <2>2. /\ Append(s, e) \in Seq(S \cup {e}) /\ Len(Append(s, e)) = n + 1
        /\ \A i \in 1..n : Append(s, e)[i] = s[i]
        /\ Append(s, e)[n + 1] = e
    BY <1>6, AppendProperties
  <2>3. \A i \in 1..(n + 1) : t[i] = Append(s, e)[i]
    BY <1>8, <1>9, <2>2
  <2> QED
    BY <2>1, <2>2, <2>3, SeqEqual
<1> QED
  BY <1>1, <1>2, <1>3, <1>6, <1>10

\* Only an insert changes rows.
LEMMA OnlySaveStores ==
  ASSUME [Next]_vars, \A w \in Writers : ~Save(w)
  PROVE  events' = events
BY DEF Next, FindLast, CreateEntity, SaveConflict, Abort, Tick, vars

\* The rows stay numbered.
LEMMA LogStep == LogInv /\ [Next]_vars => LogInv'
<1> SUFFICES ASSUME LogInv, [Next]_vars PROVE LogInv'
  OBVIOUS
<1>1. HistoryInv /\ HistoryInv' /\ AllNumbered
  BY HistoryStep DEF LogInv
<1>2. CASE \A w \in Writers : ~Save(w)
  <2>1. events' = events
    BY <1>2, OnlySaveStores
  <2> QED
    BY <1>1, <2>1 DEF LogInv, AllNumbered, Numbered, RowsOf
<1>3. ASSUME NEW w \in Writers, Save(w) PROVE LogInv'
  <2>1. PICK a : a = writer[w].aggregateId
    OBVIOUS
  <2>2. PICK e : e = NewEvent(writer[w])
    OBVIOUS
  <2>3. a \in AggregateIds
    BY <1>1, <1>3, <2>1 DEF HistoryInv, TypeOK, Save, NoCall, Call
  <2>4. PICK n \in Nat : Numbered(RowsOf(a), n)
    BY <1>1, <2>3 DEF AllNumbered
  <2>5. /\ e.version = n + 1
        /\ RowsOf(a)' = RowsOf(a) \cup {e}
        /\ \A b \in AggregateIds \ {a} : RowsOf(b)' = RowsOf(b)
    BY <1>1, <1>3, <2>1, <2>2, <2>4, SaveNumbers
  <2>6. Numbered(RowsOf(a) \cup {e}, n + 1)
    BY <2>4, <2>5, NextNumber
  <2>7. Numbered(RowsOf(a), n + 1)'
    BY <2>5, <2>6 DEF Numbered
  <2>8. \A b \in AggregateIds \ {a} : \E k \in Nat : Numbered(RowsOf(b), k)'
    BY <1>1, <2>5 DEF AllNumbered, Numbered
  <2>9. AllNumbered'
    BY <2>7, <2>8 DEF AllNumbered
  <2> QED
    BY <1>1, <2>9 DEF LogInv
<1> QED
  BY <1>2, <1>3

\* A step of the store appends one event to one log, or none.
LEMMA LogSimulates == LogInv /\ [Next]_vars => [Log!Next]_LogMap
<1> SUFFICES ASSUME LogInv, [Next]_vars PROVE [Log!Next]_LogMap
  OBVIOUS
<1>1. HistoryInv /\ HistoryInv' /\ AllNumbered
  BY HistoryStep DEF LogInv
<1>2. CASE \A w \in Writers : ~Save(w)
  <2>1. events' = events
    BY <1>2, OnlySaveStores
  <2> QED
    BY <2>1 DEF LogMap, LogOf, RowsOf
<1>3. ASSUME NEW w \in Writers, Save(w) PROVE Log!Next
  <2>1. PICK a : a = writer[w].aggregateId
    OBVIOUS
  <2>2. PICK e : e = NewEvent(writer[w])
    OBVIOUS
  <2>3. a \in AggregateIds
    BY <1>1, <1>3, <2>1 DEF HistoryInv, TypeOK, Save, NoCall, Call
  <2>4. PICK n \in Nat : Numbered(RowsOf(a), n)
    BY <1>1, <2>3 DEF AllNumbered
  <2>5. /\ e.version = n + 1 /\ e.aggregateId = a
        /\ RowsOf(a)' = RowsOf(a) \cup {e}
        /\ \A b \in AggregateIds \ {a} : RowsOf(b)' = RowsOf(b)
    BY <1>1, <1>3, <2>1, <2>2, <2>4, SaveNumbers
  <2>6. PICK l : l = LogOf(a)
    OBVIOUS
  <2>7. l \in Seq(RowsOf(a)) /\ Len(l) = n /\ LogOf(a)' = Append(l, e)
    BY <2>4, <2>5, <2>6, NextNumber DEF LogOf
  <2>8. \A b \in AggregateIds \ {a} : LogOf(b)' = LogOf(b)
    BY <2>5 DEF LogOf
  <2>9. l # <<>> => e.aggregateType = Head(l).aggregateType
    <3> SUFFICES ASSUME l # <<>> PROVE e.aggregateType = Head(l).aggregateType
      OBVIOUS
    <3>1. PICK f : f = Head(l)
      OBVIOUS
    <3>2. f \in RowsOf(a)
      BY <2>7, <3>1
    <3>3. f \in events' /\ e \in events' /\ f.aggregateId = e.aggregateId
      BY <1>3, <2>2, <2>5, <3>2 DEF RowsOf, Save
    <3> QED
      BY <1>1, <3>1, <3>3 DEF HistoryInv, OneTypePerId
  <2>10. LogMap'[a] = Append(LogMap[a], e) /\ LogMap[a] = l
    BY <2>3, <2>6, <2>7 DEF LogMap
  <2>11. LogMap' = [LogMap EXCEPT ![a] = Append(@, e)]
    BY <2>3, <2>6, <2>7, <2>8 DEF LogMap
  <2>12. Len(LogMap'[a]) = n + 1 /\ LogMap'[a][n + 1] = e
    BY <2>7, <2>10
  <2>13. Log!AppendTo(a)
    <3>1. Log!Continues(l, e)
      BY <2>5, <2>7, <2>9 DEF Log!Continues
    <3> QED
      BY <2>7, <2>10, <2>11, <2>12, <3>1 DEF Log!AppendTo, LogMap
  <2> QED
    BY <2>3, <2>13 DEF Log!Next
<1> QED
  BY <1>2, <1>3

\* The empty table is the empty log of every id.
LEMMA LogAtFirst == Init => LogInv /\ Log!Init
<1> SUFFICES ASSUME Init PROVE LogInv /\ Log!Init
  OBVIOUS
<1>1. HistoryInv
  BY DEF Init, HistoryInv, TypeOK, VersionsContiguous, OneTypePerId,
         VersionUnique, CallSawPrefix
<1>2. \A a \in AggregateIds : RowsOf(a) = {}
  BY DEF Init, RowsOf
<1>3. Numbered({}, 0)
  BY DEF Numbered
<1>4. AllNumbered
  BY <1>2, <1>3 DEF AllNumbered
<1>5. ByVersion({}) = <<>>
  <2>1. ByVersion({}) \in [1..0 -> {}]
    BY <1>3, NumberedInOrder
  <2> QED
    BY <2>1
<1>6. Log!Init
  BY <1>2, <1>5 DEF Log!Init, LogOf
<1> QED
  BY <1>1, <1>4, <1>6 DEF LogInv

\* Racing appends, whatever conflicts, fails or dies between, behave as appends
\* of one event at a time to one log for each aggregate id.
THEOREM StoreImplementsLog == Spec => ImplementsLog
<1>1. Init => LogInv /\ Log!Init
  BY LogAtFirst
<1>2. LogInv /\ [Next]_vars => LogInv' /\ [Log!Next]_LogMap
  BY LogStep, LogSimulates
<1> QED
  BY <1>1, <1>2, PTL DEF Spec, ImplementsLog, Log!Spec, LogMap

-----------------------------------------------------------------------------
(* Replays.                                                                *)

\* An insert adds one row.
LEMMA RowsAreFinite == IsFiniteSet(events) /\ [Next]_vars => IsFiniteSet(events')
<1> SUFFICES ASSUME IsFiniteSet(events), [Next]_vars PROVE IsFiniteSet(events')
  OBVIOUS
<1>1. CASE \A w \in Writers : ~ Save(w)
  BY <1>1, OnlySaveStores
<1>2. ASSUME NEW w \in Writers, Save(w)
      PROVE  IsFiniteSet(events')
  <2>1. PICK e : e = NewEvent(writer[w])
    OBVIOUS
  <2>2. events' = events \cup {e}
    BY <1>2, <2>1 DEF Save
  <2> QED
    BY <2>2, FS_AddElement
<1> QED
  BY <1>1, <1>2

\* A replay gives each selected event, and none twice.
LEMMA ReplaysAll ==
  ASSUME IsFiniteSet(events), NEW from, NEW to, NEW types, NEW s \in Replays(from, to, types)
  PROVE  \E n \in Nat :
           /\ s \in [1..n -> Selected(from, to, types)]
           /\ \A i, j \in 1..n : s[i] = s[j] => i = j
           /\ \A e \in Selected(from, to, types) : \E i \in 1..n : s[i] = e
           /\ \A i, j \in 1..n : i < j => s[i].occurredAt <= s[j].occurredAt
<1>1. PICK S : S = Selected(from, to, types)
  OBVIOUS
<1>2. IsFiniteSet(S)
  BY <1>1, FS_Subset DEF Selected
<1>3. PICK n \in Nat : n = Cardinality(S)
  BY <1>2, FS_CardinalityType
<1>4. /\ s \in SetToSeqs(S)
      /\ \A i, j \in DOMAIN s : i < j => s[i].occurredAt <= s[j].occurredAt
  BY <1>1 DEF Replays
<1>5. s \in [1..n -> S] /\ \A i, j \in 1..n : s[i] = s[j] => i = j
  BY <1>3, <1>4 DEF SetToSeqs
<1>6. s \in Surjection(1..n, S)
  <2>1. s \in Injection(1..n, S)
    BY <1>5 DEF Injection, IsInjective
  <2>2. IsFiniteSet(1..n) /\ Cardinality(1..n) = n
    BY FS_Interval
  <2> QED
    BY <1>2, <1>3, <2>1, <2>2, FS_Injection
<1>7. \A e \in S : \E i \in 1..n : s[i] = e
  BY <1>6 DEF Surjection
<1> QED
  BY <1>1, <1>4, <1>5, <1>7

\* Of the events of an aggregate those that a replay gives up to version v are
\* the versions up to v.
LEMMA ReplayNumbers ==
  ASSUME OrderInv, IsFiniteSet(events), NEW to \in 0..now, NEW s \in Replays(0, to, EventTypes),
         NEW a \in AggregateIds, NEW t \in AggregateTypes,
         \A e, f \in EventsOf(a, t) : e.occurredAt = f.occurredAt => e = f,
         NEW i \in DOMAIN s, s[i] \in EventsOf(a, t)
  PROVE  s[i].version = Cardinality({j \in 1..i : s[j] \in EventsOf(a, t)})
<1>1. PICK n \in Nat :
        /\ s \in [1..n -> Selected(0, to, EventTypes)]
        /\ \A x, y \in 1..n : s[x] = s[y] => x = y
        /\ \A e \in Selected(0, to, EventTypes) : \E x \in 1..n : s[x] = e
        /\ \A x, y \in 1..n : x < y => s[x].occurredAt <= s[y].occurredAt
  BY ReplaysAll
<1>2. PICK g \in EventsOf(a, t) : g = s[i]
  OBVIOUS
<1>3. PICK v : v = g.version
  OBVIOUS
<1> DEFINE J == {j \in 1..i : s[j] \in EventsOf(a, t)}
<1>4. i \in 1..n /\ (\A j \in J : j \in 1..n /\ j <= i /\ s[j] \in EventsOf(a, t))
  BY <1>1
<1>5. \A e \in EventsOf(a, t) :
        /\ e \in events /\ e.version \in Nat \ {0} /\ e.occurredAt \in Nat
        /\ e.eventType \in EventTypes /\ e.aggregateId = a
  BY DEF OrderInv, HistoryInv, TypeOK, Event, EventsOf
<1>6. v \in Nat \ {0} /\ to \in Nat
  BY <1>2, <1>3, <1>5 DEF OrderInv, HistoryInv, TypeOK
<1>7. \A e, f \in EventsOf(a, t) : /\ e.version = f.version => e = f
                                   /\ e.version < f.version => e.occurredAt <= f.occurredAt
  BY <1>5 DEF OrderInv, HistoryInv, VersionUnique, OccurredAtFollowsVersion
<1>8. \A k \in 1..v : \E e \in EventsOf(a, t) : e.version = k
  <2>1. g \in events /\ g.aggregateId = a /\ g.aggregateType = t
    BY DEF EventsOf
  <2> QED
    BY <1>3, <2>1 DEF OrderInv, HistoryInv, VersionsContiguous
<1>9. g.occurredAt <= to
  BY <1>1, <1>2, <1>4 DEF Selected
<1>10. ASSUME NEW j \in J
       PROVE  s[j].version \in 1..v
  <2>1. PICK e \in EventsOf(a, t) : e = s[j]
    BY <1>4
  <2>2. j = i \/ e.occurredAt <= g.occurredAt
    BY <1>1, <1>2, <1>4, <2>1
  <2>3. e.version <= v
    <3>1. CASE j = i
      BY <1>2, <1>3, <1>6, <2>1, <3>1
    <3>2. CASE e.occurredAt <= g.occurredAt
      <4> SUFFICES ASSUME ~ (e.version <= v) PROVE FALSE
        OBVIOUS
      <4>1. g.version < e.version
        BY <1>3, <1>5, <1>6
      <4>2. g.occurredAt <= e.occurredAt
        BY <1>7, <4>1
      <4>3. g = e
        BY <1>5, <3>2, <4>2
      <4> QED
        BY <1>5, <4>1, <4>3
    <3> QED
      BY <2>2, <3>1, <3>2
  <2> QED
    BY <1>5, <1>6, <2>1, <2>3
<1>11. ASSUME NEW k \in 1..v
       PROVE  \E j \in J : s[j].version = k
  <2>1. PICK e \in EventsOf(a, t) : e.version = k
    BY <1>8
  <2>2. k < v \/ e = g
    BY <1>3, <1>6, <1>7, <2>1
  <2>3. e.occurredAt <= g.occurredAt
    BY <1>3, <1>5, <1>7, <2>1, <2>2
  <2>4. e \in Selected(0, to, EventTypes)
    BY <1>5, <1>6, <1>9, <2>3 DEF Selected
  <2>5. PICK j \in 1..n : s[j] = e
    BY <1>1, <2>4
  <2>6. j <= i
    <3> SUFFICES ASSUME i < j PROVE FALSE
      BY <1>4
    <3>1. g.occurredAt <= e.occurredAt
      BY <1>1, <1>2, <1>4, <2>5
    <3>2. g = e
      BY <1>5, <2>3, <3>1
    <3>3. j = i
      BY <1>1, <1>2, <1>4, <2>5, <3>2
    <3> QED
      BY <1>4, <3>3
  <2> QED
    BY <1>4, <2>1, <2>5, <2>6
<1> DEFINE h == [j \in J |-> s[j].version]
<1>12. h \in Bijection(J, 1..v)
  <2>1. h \in [J -> 1..v]
    BY <1>10
  <2>2. \A j, k \in J : h[j] = h[k] => j = k
    <3> SUFFICES ASSUME NEW j \in J, NEW k \in J, s[j].version = s[k].version
                 PROVE  j = k
      OBVIOUS
    <3>1. s[j] = s[k]
      BY <1>4, <1>7
    <3> QED
      BY <1>1, <1>4, <3>1
  <2>3. \A k \in 1..v : \E j \in J : h[j] = k
    BY <1>11
  <2> HIDE DEF h, J
  <2> QED
    BY <2>1, <2>2, <2>3 DEF Bijection, Injection, IsInjective, Surjection
<1>13. Cardinality(1..v) = Cardinality(J)
  <2> HIDE DEF h, J
  <2>1. IsFiniteSet(J)
    <3>1. IsFiniteSet(1..v)
      BY <1>6, FS_Interval
    <3>2. h \in Injection(J, 1..v)
      BY <1>12 DEF Bijection
    <3> QED
      BY <3>1, <3>2, FS_Injection
  <2>2. ExistsBijection(J, 1..v)
    BY <1>12 DEF ExistsBijection
  <2> QED
    BY <2>1, <2>2, FS_Bijection
<1>14. Cardinality(1..v) = v
  BY <1>6, FS_Interval
<1> QED
  BY <1>2, <1>3, <1>13, <1>14

\* replayEvents: with agreeing clocks, the k-th event of an aggregate that a
\* replay gives is its version k, however the appends raced.
THEOREM ReplaysGivePrefixes ==
  ASSUME MaxSkew = 0
  PROVE  Spec => []ReplayIsPrefix
<1>1. Init => OrderInv /\ IsFiniteSet(events)
  BY FS_EmptySet DEF Init, OrderInv, HistoryInv, TypeOK, VersionsContiguous, OneTypePerId,
         VersionUnique, CallSawPrefix, StampsOrdered, OccurredAtFollowsVersion,
         NoCall
<1>2. (OrderInv /\ IsFiniteSet(events)) /\ [Next]_vars => (OrderInv /\ IsFiniteSet(events))'
  BY OrderStep, RowsAreFinite
<1>3. OrderInv /\ IsFiniteSet(events) => ReplayIsPrefix
  BY ReplayNumbers DEF ReplayIsPrefix
<1> QED
  BY <1>1, <1>2, <1>3, PTL DEF Spec
-----------------------------------------------------------------------------
(* Rebuilding.  The theorems of the library that make inductions take an   *)
(* operator; here a set of numbers takes its place.                        *)

\* The least number principle, for sets.
LEMMA LeastNumber ==
  ASSUME NEW T \in SUBSET Nat, T # {}
  PROVE  \E x \in T : \A y \in T : x <= y
<1> DEFINE R == OpToRel(<, Nat)
<1>1. IsWellFoundedOn(R, Nat)
  BY NatLessThanWellFounded
<1>2. \A i, j \in Nat : i < j => <<i, j>> \in R
  BY DEF OpToRel
<1> HIDE DEF R
<1>3. PICK x \in T : \A y \in T : <<y, x>> \notin R
  BY <1>1, WFMin
<1>4. \A y \in T : y \in Nat /\ x \in Nat /\ ~(y < x)
  BY <1>2, <1>3
<1> QED
  BY <1>4

\* Induction, for sets.
LEMMA SetInduction ==
  ASSUME NEW T, 0 \in T, \A k \in Nat : k \in T => k + 1 \in T
  PROVE  \A k \in Nat : k \in T
<1> DEFINE Out == {k \in Nat : k \notin T}
<1> SUFFICES ASSUME Out # {} PROVE FALSE
  OBVIOUS
<1>1. PICK m \in Out : \A k \in Out : m <= k
  <2>1. Out \in SUBSET Nat
    OBVIOUS
  <2> HIDE DEF Out
  <2> QED
    BY <2>1, LeastNumber
<1>2. m \in Nat /\ m # 0 /\ m \notin T
  OBVIOUS
<1>3. m - 1 \in Nat /\ m - 1 \notin Out
  BY <1>1, <1>2
<1>4. m - 1 \in T /\ (m - 1) + 1 = m
  BY <1>2, <1>3
<1> QED
  BY <1>2, <1>3, <1>4

\* state is what the loop computes over the first n events of a history.
Loops(state, history, n) ==
  state = [k \in 0..n |-> IF k = 0 THEN EmptyState
                          ELSE ApplyEvent(state[k - 1], history[k])]

\* There is such a state for every number of events.
LEMMA LoopExists ==
  ASSUME NEW history
  PROVE  \A n \in Nat : \E state : Loops(state, history, n)
<1> DEFINE T == {n \in Nat : \E state : Loops(state, history, n)}
<1>1. 0 \in T
  <2> DEFINE s == [k \in 0..0 |-> EmptyState]
  <2>1. Loops(s, history, 0)
    BY DEF Loops
  <2> HIDE DEF s
  <2> QED
    BY <2>1
<1>2. ASSUME NEW n \in Nat, n \in T
      PROVE  n + 1 \in T
  <2>1. PICK s : Loops(s, history, n)
    BY <1>2
  <2> DEFINE x == ApplyEvent(s[n], history[n + 1])
             r == [k \in 0..(n + 1) |-> IF k = n + 1 THEN x ELSE s[k]]
  <2>2. ASSUME NEW k \in 0..(n + 1)
        PROVE  r[k] = IF k = 0 THEN EmptyState ELSE ApplyEvent(r[k - 1], history[k])
    <3>1. CASE k = n + 1
      <4>1. k - 1 \in 0..(n + 1) /\ k - 1 = n /\ k # 0 /\ n # n + 1
        BY <3>1
      <4>2. r[k] = x /\ r[k - 1] = s[n]
        <5> HIDE DEF x
        <5> QED
          BY <3>1, <4>1
      <4> QED
        BY <3>1, <4>1, <4>2
    <3>2. CASE k # n + 1
      <4>1. k \in 0..n /\ (k # 0 => k - 1 \in 0..n /\ k - 1 # n + 1 /\ k - 1 \in 0..(n + 1))
        BY <3>2
      <4>2. r[k] = s[k] /\ (k # 0 => r[k - 1] = s[k - 1])
        BY <3>2, <4>1
      <4>3. s[k] = IF k = 0 THEN EmptyState ELSE ApplyEvent(s[k - 1], history[k])
        BY <2>1, <4>1 DEF Loops
      <4> HIDE DEF r, x
      <4> QED
        BY <4>2, <4>3
    <3> QED
      BY <3>1, <3>2
  <2>3. r = [k \in 0..(n + 1) |-> r[k]]
    OBVIOUS
  <2> HIDE DEF r, x
  <2>4. Loops(r, history, n + 1)
    BY <2>2, <2>3 DEF Loops
  <2> QED
    BY <2>4
<1> HIDE DEF T
<1>3. \A n \in Nat : n \in T
  BY <1>1, <1>2, SetInduction
<1> QED
  BY <1>3 DEF T

\* So the loop of rebuildAggregate is one of them.
LEMMA RebuildLoops ==
  ASSUME NEW history, Len(history) \in Nat
  PROVE  \E state : /\ Loops(state, history, Len(history))
                    /\ RebuildFrom(history) = state[Len(history)]
<1> DEFINE n == Len(history)
           state[k \in 0..n] ==
             IF k = 0 THEN EmptyState ELSE ApplyEvent(state[k - 1], history[k])
<1>1. \E s : s = [k \in 0..n |-> IF k = 0 THEN EmptyState
                                 ELSE ApplyEvent(s[k - 1], history[k])]
  BY LoopExists DEF Loops
<1>2. state = [k \in 0..n |-> IF k = 0 THEN EmptyState
                              ELSE ApplyEvent(state[k - 1], history[k])]
  BY <1>1
<1>3. RebuildFrom(history) = state[n]
  BY DEF RebuildFrom
<1> HIDE DEF state
<1> QED
  BY <1>2, <1>3 DEF Loops

\* {...state, ...data}
LEMMA MergeIs ==
  ASSUME NEW state, NEW data
  PROVE  /\ DOMAIN Merge(state, data) = DOMAIN state \cup DOMAIN data
         /\ \A p \in DOMAIN data : Merge(state, data)[p] = data[p]
         /\ \A p \in DOMAIN state \ DOMAIN data : Merge(state, data)[p] = state[p]
BY DEF Merge

\* What one event does to the state.
LEMMA ApplySets ==
  ASSUME NEW s, NEW e, NEW r, r = ApplyEvent(s, e)
  PROVE  /\ e.eventType = "TaskCreated" => DOMAIN r = Sets(e)
         /\ e.eventType # "TaskCreated" => DOMAIN r = DOMAIN s \cup Sets(e)
         /\ \A p \in Sets(e) : r[p] = ValueSet(e, p)
         /\ e.eventType # "TaskCreated" => \A p \in DOMAIN s \ Sets(e) : r[p] = s[p]
<1> DEFINE d == e.eventData
           v == [version |-> e.version]
           w == [status |-> Property(d, "newStatus"), version |-> e.version]
<1>1. /\ DOMAIN v = {"version"} /\ v["version"] = e.version
      /\ DOMAIN w = {"status", "version"} /\ w["version"] = e.version
      /\ w["status"] = Property(d, "newStatus")
  OBVIOUS
<1>2. CASE e.eventType = "TaskCreated"
  <2>1. /\ ApplyEvent(s, e) = Merge(d, v) /\ Sets(e) = DOMAIN d \cup {"version"}
        /\ \A p : ValueSet(e, p) = IF p = "version" THEN e.version ELSE d[p]
    BY <1>2 DEF ApplyEvent, Sets, ValueSet
  <2> HIDE DEF d, v
  <2>2. /\ DOMAIN Merge(d, v) = DOMAIN d \cup DOMAIN v
        /\ \A p \in DOMAIN v : Merge(d, v)[p] = v[p]
        /\ \A p \in DOMAIN d \ DOMAIN v : Merge(d, v)[p] = d[p]
    BY MergeIs
  <2> QED
    BY <1>1, <1>2, <2>1, <2>2
<1>3. CASE e.eventType = "TaskUpdated"
  <2>1. /\ ApplyEvent(s, e) = Merge(Merge(s, d), v) /\ Sets(e) = DOMAIN d \cup {"version"}
        /\ \A p : ValueSet(e, p) = IF p = "version" THEN e.version ELSE d[p]
    BY <1>3 DEF ApplyEvent, Sets, ValueSet
  <2> HIDE DEF d, v
  <2> DEFINE u == Merge(s, d)
  <2>2. /\ DOMAIN u = DOMAIN s \cup DOMAIN d
        /\ \A p \in DOMAIN d : u[p] = d[p]
        /\ \A p \in DOMAIN s \ DOMAIN d : u[p] = s[p]
    BY MergeIs
  <2> HIDE DEF u
  <2>3. /\ DOMAIN Merge(u, v) = DOMAIN u \cup DOMAIN v
        /\ \A p \in DOMAIN v : Merge(u, v)[p] = v[p]
        /\ \A p \in DOMAIN u \ DOMAIN v : Merge(u, v)[p] = u[p]
    BY MergeIs
  <2>4. ApplyEvent(s, e) = Merge(u, v)
    BY <2>1 DEF u
  <2> QED
    BY <1>1, <1>3, <2>1, <2>2, <2>3, <2>4
<1>4. CASE e.eventType = "TaskStatusChanged"
  <2>1. /\ ApplyEvent(s, e) = Merge(s, w) /\ Sets(e) = {"status", "version"}
        /\ \A p : ValueSet(e, p) = IF p = "version" THEN e.version
                                   ELSE Property(d, "newStatus")
    BY <1>4 DEF ApplyEvent, Sets, ValueSet
  <2> HIDE DEF d, w
  <2>2. /\ DOMAIN Merge(s, w) = DOMAIN s \cup DOMAIN w
        /\ \A p \in DOMAIN w : Merge(s, w)[p] = w[p]
        /\ \A p \in DOMAIN s \ DOMAIN w : Merge(s, w)[p] = s[p]
    BY MergeIs
  <2> QED
    BY <1>1, <1>4, <2>1, <2>2
<1>5. CASE e.eventType \notin Known
  <2>1. ApplyEvent(s, e) = s /\ Sets(e) = {}
    BY <1>5 DEF ApplyEvent, Sets, Known
  <2> QED
    BY <1>5, <2>1 DEF Known
<1> QED
  BY <1>2, <1>3, <1>4, <1>5 DEF Known

\* e is newer than the events of S.
ComesAfter(e, S) ==
  e.version \in Nat /\ \A f \in S : f.version \in Nat /\ f.version < e.version

\* One more event.
LEMMA ApplyShows ==
  ASSUME NEW S, NEW e, ComesAfter(e, S), NEW s, Shows(s, S)
  PROVE  Shows(ApplyEvent(s, e), S \cup {e})
<1>1. PICK r : r = ApplyEvent(s, e)
  OBVIOUS
<1>2. /\ e.eventType = "TaskCreated" => DOMAIN r = Sets(e)
      /\ e.eventType # "TaskCreated" => DOMAIN r = DOMAIN s \cup Sets(e)
      /\ \A p \in Sets(e) : r[p] = ValueSet(e, p)
      /\ e.eventType # "TaskCreated" => \A p \in DOMAIN s \ Sets(e) : r[p] = s[p]
  BY <1>1, ApplySets
<1> DEFINE L == Life(S)
           N == Life(S \cup {e})
<1>3. N = IF e.eventType = "TaskCreated" THEN {e} ELSE L \cup {e}
  BY DEF Life, ComesAfter
<1>4. L \subseteq S
  BY DEF Life
<1>5. DOMAIN s = UNION {Sets(f) : f \in L}
  BY DEF Shows
<1>6. \A p \in DOMAIN s : \E f \in L :
        p \in Sets(f) /\ s[p] = ValueSet(f, p) /\ \A g \in L : p \in Sets(g) => g.version <= f.version
  BY DEF Shows, SetsLast
<1> HIDE DEF L, N
<1>7. DOMAIN r = UNION {Sets(f) : f \in N}
  BY <1>3, <1>5, <1>2
<1>8. ASSUME NEW p \in DOMAIN r
      PROVE  \E f \in N : SetsLast(S \cup {e}, p, f) /\ r[p] = ValueSet(f, p)
  <2>1. CASE p \in Sets(e)
    <3>1. e \in N /\ \A f \in N : f.version <= e.version
      BY <1>3, <1>4 DEF ComesAfter
    <3> QED
      BY <1>2, <2>1, <3>1 DEF SetsLast, N
  <2>2. CASE p \notin Sets(e)
    <3>1. e.eventType # "TaskCreated" /\ p \in DOMAIN s /\ N = L \cup {e} /\ r[p] = s[p]
      BY <1>3, <1>2, <2>2
    <3>2. PICK f \in L : /\ p \in Sets(f) /\ s[p] = ValueSet(f, p)
                         /\ \A g \in L : p \in Sets(g) => g.version <= f.version
      BY <1>6, <3>1
    <3> QED
      BY <2>2, <3>1, <3>2 DEF SetsLast, N
  <2> QED
    BY <2>1, <2>2
<1> QED
  BY <1>1, <1>7, <1>8 DEF Shows, N

\* The loop over events in the order of their versions shows them all.
LEMMA LoopShows ==
  ASSUME NEW n \in Nat, NEW S, NEW h \in [1..n -> S],
         \A i \in 1..n : h[i].version = i,
         \A e \in S : \E i \in 1..n : h[i] = e,
         NEW state, Loops(state, h, n)
  PROVE  Shows(state[n], S)
<1> DEFINE T == {k \in Nat : k <= n => Shows(state[k], {h[i] : i \in 1..k})}
<1>1. 0 \in T
  <2>1. state[0] = EmptyState
    BY DEF Loops
  <2>2. {h[i] : i \in 1..0} = {}
    OBVIOUS
  <2>3. Shows(EmptyState, {})
    BY DEF Shows, Life, EmptyState
  <2> QED
    BY <2>1, <2>2, <2>3
<1>2. ASSUME NEW k \in Nat, k \in T
      PROVE  k + 1 \in T
  <2> SUFFICES ASSUME k + 1 <= n
               PROVE  Shows(state[k + 1], {h[i] : i \in 1..(k + 1)})
    OBVIOUS
  <2> DEFINE P == {h[i] : i \in 1..k}
             e == h[k + 1]
  <2>1. Shows(state[k], P)
    BY <1>2
  <2>2. state[k + 1] = ApplyEvent(state[k], e)
    BY DEF Loops
  <2>3. k + 1 \in 1..n /\ \A i \in 1..k : i \in 1..n
    OBVIOUS
  <2>4. e.version = k + 1
    BY <2>3
  <2>5. \A f \in P : f.version \in Nat /\ f.version < e.version
    BY <2>3, <2>4
  <2>6. {h[i] : i \in 1..(k + 1)} = P \cup {e}
    BY <2>3
  <2> HIDE DEF P, e
  <2>7. ComesAfter(e, P)
    BY <2>4, <2>5 DEF ComesAfter
  <2>8. Shows(ApplyEvent(state[k], e), P \cup {e})
    BY <2>1, <2>7, ApplyShows
  <2> QED
    BY <2>2, <2>6, <2>8
<1> DEFINE P == {h[i] : i \in 1..n}
<1>3. P = S /\ (n \in T => Shows(state[n], P))
  OBVIOUS
<1> HIDE DEF P, T
<1>4. n \in T
  BY <1>1, <1>2, SetInduction
<1> QED
  BY <1>3, <1>4

\* The events of an aggregate are numbered 1, 2, ..., n.
LEMMA AggregateNumbered ==
  ASSUME LogInv, NEW a \in AggregateIds, NEW t \in AggregateTypes
  PROVE  \E n \in Nat : Numbered(EventsOf(a, t), n)
<1>1. PICK n \in Nat : Numbered(RowsOf(a), n)
  BY DEF LogInv, AllNumbered
<1>2. CASE EventsOf(a, t) = {}
  <2>1. Numbered({}, 0)
    BY DEF Numbered
  <2> QED
    BY <1>2, <2>1
<1>3. CASE EventsOf(a, t) # {}
  <2>1. PICK e \in EventsOf(a, t) : TRUE
    BY <1>3
  <2>2. \A f \in RowsOf(a) : f.aggregateType = t
    BY <2>1 DEF LogInv, HistoryInv, OneTypePerId, RowsOf, EventsOf
  <2>3. EventsOf(a, t) = RowsOf(a)
    BY <2>2 DEF RowsOf, EventsOf
  <2> QED
    BY <1>1, <2>3
<1> QED
  BY <1>2, <1>3

\* What is rebuilt from numbered events shows them, and their number.
LEMMA RebuildShows ==
  ASSUME NEW S, NEW n \in Nat, Numbered(S, n), NEW r, r = RebuildFrom(ByVersion(S))
  PROVE  /\ Shows(r, S)
         /\ S # {} /\ (\A e \in S : e.eventType \in Known) => r.version = Cardinality(S)
<1>1. PICK h : h = ByVersion(S)
  OBVIOUS
<1>2. h \in [1..n -> S] /\ \A i \in 1..n : h[i].version = i
  BY <1>1, NumberedInOrder
<1>3. h \in Seq(S) /\ Len(h) = n
  BY <1>2
<1>4. PICK state : Loops(state, h, n) /\ r = state[n]
  BY <1>1, <1>3, RebuildLoops
<1>5. ASSUME NEW e \in S
      PROVE  \E i \in 1..n : h[i] = e
  <2>1. PICK i \in 1..n : e.version = i
    BY DEF Numbered
  <2>2. h[i] \in S /\ h[i].version = e.version
    BY <1>2, <2>1
  <2> QED
    BY <2>1, <2>2 DEF Numbered
<1>6. Shows(r, S)
  <2>1. \A e \in S : \E i \in 1..n : h[i] = e
    BY <1>5
  <2>2. Shows(state[n], S)
    BY <1>2, <1>4, <2>1, LoopShows
  <2> QED
    BY <1>4, <2>2
<1>7. ASSUME S # {}, \A e \in S : e.eventType \in Known
      PROVE  r.version = Cardinality(S)
  <2>1. n # 0
    BY <1>5, <1>7
  <2>2. h[n] \in S /\ h[n].version = n
    BY <1>2, <2>1
  <2>3. \A f \in S : f.version \in 1..n
    BY DEF Numbered
  <2>4. h[n] \in Life(S)
    BY <2>2, <2>3 DEF Life
  <2>5. "version" \in Sets(h[n])
    BY <1>7, <2>2 DEF Sets, Known
  <2>6. "version" \in DOMAIN r
    BY <1>6, <2>4, <2>5 DEF Shows
  <2>7. PICK e \in Life(S) : SetsLast(S, "version", e) /\ r["version"] = ValueSet(e, "version")
    BY <1>6, <2>6 DEF Shows
  <2>8. n <= e.version /\ e.version \in 1..n
    <3>1. h[n].version <= e.version
      BY <2>4, <2>5, <2>7 DEF SetsLast
    <3> QED
      BY <2>2, <2>3, <3>1 DEF Life
  <2>9. r["version"] = n
    BY <2>7, <2>8 DEF ValueSet
  <2>10. Cardinality(S) = n
    <3>1. h \in Bijection(1..n, S)
      <4>1. \A i, j \in 1..n : h[i] = h[j] => i = j
        BY <1>2
      <4> QED
        BY <1>2, <1>5, <4>1 DEF Bijection, Injection, IsInjective, Surjection
    <3>2. ExistsBijection(1..n, S)
      BY <3>1 DEF ExistsBijection
    <3> QED
      BY <3>2, FS_CountingElements
  <2> QED
    BY <2>9, <2>10
<1> QED
  BY <1>6, <1>7

\* rebuildAggregate: whatever appends raced, the state it makes of an aggregate
\* has the newest value of every property and counts the events, for histories
\* of any length and any payloads.
THEOREM RebuildsMatchHistory == Spec => []RebuildMatchesHistory
<1>1. Init => LogInv
  BY LogAtFirst
<1>2. LogInv /\ [Next]_vars => LogInv'
  BY LogStep
<1>3. LogInv => RebuildMatchesHistory
  <2> SUFFICES ASSUME LogInv, NEW a \in AggregateIds, NEW t \in AggregateTypes
               PROVE  /\ Shows(Rebuild(a, t), EventsOf(a, t))
                      /\ EventsOf(a, t) # {} /\ (\A e \in EventsOf(a, t) : e.eventType \in Known)
                           => Rebuild(a, t).version = Cardinality(EventsOf(a, t))
    BY DEF RebuildMatchesHistory
  <2>1. PICK n \in Nat : Numbered(EventsOf(a, t), n)
    BY AggregateNumbered
  <2>2. Rebuild(a, t) = RebuildFrom(ByVersion(EventsOf(a, t)))
    BY DEF Rebuild, History
  <2> QED
    BY <2>1, <2>2, RebuildShows
<1> QED
  BY <1>1, <1>2, <1>3, PTL DEF Spec
=============================================================================
