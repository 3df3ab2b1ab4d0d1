---------------------------- MODULE TaskFeedProofs ---------------------------
(***************************************************************************)
(* The tasks, their cached views and who is told of an edit, for any       *)
(* replicas, tasks, users, sockets and requests: the requests of TaskCache *)
(* keep their types and cache no invented row; where one replica takes all *)
(* edits, one after another and without faults, its cached tasks are those *)
(* of the table, its clients show every live task and the listeners know   *)
(* it; and the gateway's presence map is true.                             *)
(***************************************************************************)
EXTENDS TaskFeed, FiniteSetTheorems, SequenceTheorems, TLAPS

-----------------------------------------------------------------------------
(* The inductive invariant of TaskCache.                                   *)

Stages == {"query", "again", "fill", "write", "readBack", "store", "delete",
           "evict", "invalidate"}

AnyAnswer == (UNION {Answers(k) : k \in Keys}) \cup {Absent}

Request == [pc : Stages, at : Replicas, op : {"read", "create", "update", "remove"},
            key : Keys, change : Changes \cup {NoChange}, found : AnyAnswer]

\* A request keeps to the stages of its operation, and the row it holds is one
\* of h, the rows the table has held.
InOrder(q, h) ==
  /\ q \in Request
  /\ q.op = "read" \/ q.key.kind = "task"
  /\ q.op = "update" => q.change \in Changes
  /\ q.pc \in {"query", "again"} => q.op # "create" /\ q.found = Absent
  /\ q.pc = "fill" => q.op # "create" /\ q.found \in Answers(q.key)
  /\ q.pc \in {"write", "readBack"} => q.op = "update"
  /\ q.pc \in {"delete", "evict"} => q.op = "remove"
  /\ q.pc = "store" => q.op \in {"create", "update"}
  /\ q.pc = "invalidate" => q.op # "read"
  /\ q.pc \notin {"query", "again"} /\ q.key.kind = "task" =>
       q.found \in h[q.key.of]

\* Rows are never dropped from the table.
TableIsTyped ==
  /\ tasks \in [Tasks -> Task \cup {NoTask}]
  /\ held \in [Tasks -> SUBSET Task]
  /\ \A t \in Tasks : tasks[t] \in held[t] \/ (tasks[t] = NoTask /\ held[t] = {})

\* v may be cached under k.
Cacheable(k, v, h) == v \in Answers(k) /\ (k.kind = "task" => v \in h[k.of])

CacheIsTyped ==
  /\ cache \in [Replicas -> [Keys -> AnyAnswer]]
  /\ \A p \in Replicas, k \in Keys :
       cache[p][k] = Absent \/ Cacheable(k, cache[p][k], held)

RequestsInOrder ==
  /\ request \in [Requests -> Request \cup {Idle}]
  /\ \A r \in Requests : request[r] = Idle \/ InOrder(request[r], held)

CountersAreTyped ==
  overlapped \in BOOLEAN /\ editors \subseteq Replicas /\ edits \in Nat /\ faults \in Nat

TasksInv == TableIsTyped /\ CacheIsTyped /\ RequestsInOrder /\ CountersAreTyped

-----------------------------------------------------------------------------
(* What holds besides while requests come one after another and nothing    *)
(* fails.                                                                  *)

Alone == ~ overlapped /\ faults = 0

OneAtATime ==
  \A r, s \in Requests : request[r] # Idle /\ request[s] # Idle => r = s

\* Request q has written its task and will yet store or delete the entry.
ToRefresh(q) == q.op # "create" /\ q.pc \in {"readBack", "store", "evict"}

\* The row that UPDATE leaves.
AfterUpdate(old, c) ==
  [old EXCEPT !.status = IF "status" \in DOMAIN c THEN c.status ELSE @,
              !.assignee = IF "assignee" \in DOMAIN c THEN c.assignee ELSE @]

\* All edits have come to replica p.
Leads(p) == editors \subseteq {p}

\* Request r will yet refresh the entry of task t.
Refreshes(r, t) ==
  request[r] # Idle /\ request[r].key = Key("task", t) /\ ToRefresh(request[r])

FreshAt(p) ==
  \A t \in Tasks :
    Fresh(p, Key("task", t)) \/ \E r \in Requests : Refreshes(r, t)

\* What a request holds that reads a task, or edits it where all edits come, is
\* what the table has, or had before its own write.
HoldsCurrent(q) ==
  q.key.kind = "task" =>
    /\ q.pc = "fill" => q.key.of \in Live /\ q.found = tasks[q.key.of]
    /\ q.pc = "again" => q.key.of \notin Live
    /\ q.pc = "store" \/ (q.pc = "invalidate" /\ q.op # "remove") =>
         q.key.of \in Live /\ q.found = tasks[q.key.of]
    /\ Leads(q.at) /\ q.pc \in {"write", "delete"} =>
         q.key.of \in Live /\ q.found = tasks[q.key.of]
    /\ Leads(q.at) /\ q.pc = "readBack" =>
         q.key.of \in Live /\ tasks[q.key.of] = AfterUpdate(q.found, q.change)

\* An edit in progress came to its replica.
EditsAreCounted ==
  \A r \in Requests :
    request[r] # Idle /\ request[r].op # "read" => request[r].at \in editors

AloneInv ==
  /\ EditsAreCounted
  /\ Alone => /\ OneAtATime
              /\ \A p \in Replicas : Leads(p) => FreshAt(p)
              /\ \A r \in Requests : request[r] # Idle => HoldsCurrent(request[r])

-----------------------------------------------------------------------------
(* The inductive invariant of TaskFeed.                                    *)

Entries == [old : Statuses, new : Statuses] \cup [assignee : Users]

\* Among the records that tell f one is the last.
HasLast(records, f) ==
  Tellings(records, f) = {}
  \/ \E i \in Tellings(records, f) : \A j \in Tellings(records, f) : j <= i

FeedIsTyped ==
  /\ sockets \in [Sockets -> Users \cup {NoUser}]
  /\ seen \in [Sockets -> [Tasks -> Task \cup {NoTask}]]
  /\ firstRow \in [Tasks -> Task \cup {NoTask}]
  /\ trail \in [Tasks -> Seq(Entries)]
  /\ \A t \in Tasks :
       /\ HasLast(trail[t], "new") /\ HasLast(trail[t], "assignee")
       /\ tasks[t] = NoTask => trail[t] = <<>>
       /\ tasks[t] # NoTask => firstRow[t] \in Task /\ ~ firstRow[t].deleted

\* Request r has written t and not yet told anybody.
IsWriting(r, t) == request[r].pc = "readBack" /\ request[r].key.of = t

ClientsShowTasks ==
  \A s \in Open \ missed, t \in Live :
    seen[s][t] = tasks[t] \/ \E r \in Requests : IsWriting(r, t) /\ request[r].at = Here

\* The listeners know t as the given row, but for an assignee taken away.
ToldOf(t, row) ==
  /\ Told(t).status = row.status
  /\ row.assignee # NoUser => Told(t).assignee = row.assignee
  /\ row.status = Completed /\ firstRow[t].status # Completed => t \in mailed

\* They know the row of the table, or the one before a write that they are not
\* told of yet.
ListenersFollow ==
  \A t \in Live :
    \/ ToldOf(t, tasks[t]) /\ \A r \in Requests : ~ IsWriting(r, t)
    \/ \E r \in Requests : IsWriting(r, t) /\ ToldOf(t, request[r].found)

\* No listener has failed, and all edits came to one replica.
Traced == ~ lost /\ \E p \in Replicas : Leads(p)

FeedInv ==
  /\ FeedIsTyped
  /\ Alone => ClientsShowTasks /\ (Traced => ListenersFollow)

-----------------------------------------------------------------------------
(* Keys, answers and rows.                                                 *)

\* A key is of one of the kinds of CacheKeys, and names a task or a user.
LEMMA KindsOfKeys ==
  ASSUME NEW k \in Keys
  PROVE  /\ k.kind \in {"task", "list", "stats", "projectStats", "dashboard"}
         /\ k.kind = "task" => k.of \in Tasks /\ k = Key("task", k.of)
         /\ k.kind = "dashboard" => k.of \in Assignees /\ k = Key("dashboard", k.of)
         /\ k.kind \in {"list", "stats", "projectStats"} => k = Key(k.kind, NoUser)
  BY DEF Keys, Key

\* CacheKeys.task tells tasks apart.
LEMMA TaskKeys ==
  ASSUME NEW t \in Tasks
  PROVE  Key("task", t) \in Keys /\ Key("task", t).kind = "task" /\ Key("task", t).of = t
  BY DEF Keys, Key

\* What may be cached under a task's key is a row.
LEMMA AnswersForTasks ==
  ASSUME NEW k, k.kind = "task"
  PROVE  Answers(k) = Task
  BY DEF Answers

\* An answer to a key is one of all answers.
LEMMA AnswersAreAnswers ==
  ASSUME NEW k \in Keys, NEW v \in Answers(k)
  PROVE  v \in AnyAnswer
  BY DEF AnyAnswer

\* A live task's row was in the table.
LEMMA LiveRows ==
  ASSUME TableIsTyped, NEW t \in Live
  PROVE  t \in Tasks /\ tasks[t] \in Task /\ tasks[t] \in held[t] /\ ~ tasks[t].deleted
  BY DEF TableIsTyped, Live

\* Counts by status are numbers, as there are finitely many tasks.
LEMMA CountsAreTyped ==
  ASSUME NEW ts \in SUBSET Tasks
  PROVE  Counts(ts) \in [Statuses -> Nat]
<1>1. \A s \in Statuses : Cardinality({t \in ts : tasks[t].status = s}) \in Nat
  <2> TAKE s \in Statuses
  <2>1. IsFiniteSet({t \in ts : tasks[t].status = s})
    BY TaskConstantsAreTyped, FS_Subset
  <2> QED
    BY <2>1, FS_CardinalityType
<1> QED
  BY <1>1 DEF Counts

\* What the database answers to a read of something that is there may be cached.
LEMMA ViewIsCacheable ==
  ASSUME TableIsTyped, NEW k \in Keys, ~ Missing(k)
  PROVE  Cacheable(k, View(k), held) /\ View(k) \in AnyAnswer
<1>1. Cacheable(k, View(k), held)
  <2>1. CASE k.kind = "task"
    <3>1. k.of \in Live /\ View(k) = tasks[k.of]
      BY <2>1 DEF Missing, View
    <3> QED
      BY <2>1, <3>1, LiveRows, AnswersForTasks DEF Cacheable
  <2>2. CASE k.kind = "list"
    <3>1. View(k) = [t \in Live |-> tasks[t]]
      BY <2>2 DEF View
    <3>2. \A t \in Live : t \in Tasks /\ tasks[t] \in Task
      BY LiveRows
    <3>3. View(k) \in [Live -> Task] /\ Live \in SUBSET Tasks
      BY <3>1, <3>2
    <3>4. Answers(k) = UNION {[ts -> Task] : ts \in SUBSET Tasks}
      BY <2>2 DEF Answers
    <3>5. View(k) \in Answers(k)
      BY <3>3, <3>4
    <3> QED
      BY <2>2, <3>5 DEF Cacheable
  <2>3. CASE k.kind \in {"stats", "projectStats", "dashboard"}
    <3>1. Answers(k) = [Statuses -> Nat]
      BY <2>3 DEF Answers
    <3>2. View(k) = Counts(Live) \/ View(k) = Counts(OnDashboard(k.of))
      BY <2>3 DEF View
    <3>3. Live \in SUBSET Tasks /\ OnDashboard(k.of) \in SUBSET Tasks
      BY DEF Live, OnDashboard
    <3> QED
      BY <2>3, <3>1, <3>2, <3>3, CountsAreTyped DEF Cacheable
  <2> QED
    BY <2>1, <2>2, <2>3, KindsOfKeys
<1> QED
  BY <1>1, AnswersAreAnswers DEF Cacheable

\* More rows make no answer invalid.
LEMMA HeldGrows ==
  ASSUME NEW h, NEW g, \A t \in Tasks : h[t] \subseteq g[t]
  PROVE  /\ \A k \in Keys : \A v : Cacheable(k, v, h) => Cacheable(k, v, g)
         /\ \A q : InOrder(q, h) => InOrder(q, g)
<1>1. \A k \in Keys : k.kind = "task" => k.of \in Tasks
  BY KindsOfKeys
<1>2. \A q \in Request : q.key \in Keys
  BY DEF Request
<1>3. \A q : InOrder(q, h) => InOrder(q, g)
  BY <1>1, <1>2 DEF InOrder
<1> QED
  BY <1>1, <1>3 DEF Cacheable

\* getOrSet goes on with an answer that may be cached.
LEMMA FoundInOrder ==
  ASSUME NEW h, NEW q \in Request, NEW v \in AnyAnswer,
         q.op # "create", q.op = "read" \/ q.key.kind = "task",
         q.op = "update" => q.change \in Changes,
         Cacheable(q.key, v, h)
  PROVE  Found(q, v) = Idle \/ InOrder(Found(q, v), h)
<1>0. q.op \in {"read", "update", "remove"}
  BY DEF Request
<1>1. CASE q.op = "read"
  BY <1>1 DEF Found
<1>2. CASE q.op = "update"
  <2> DEFINE p == [q EXCEPT !.pc = "write", !.found = v]
  <2>1. p \in Request
    BY DEF Request, Stages
  <2>2. p.pc = "write" /\ p.found = v /\ p.op = "update" /\ p.key = q.key /\ p.change = q.change
    BY <1>2 DEF Request
  <2>3. InOrder(p, h)
    <3> HIDE DEF p
    <3> QED
      BY <1>2, <2>1, <2>2 DEF InOrder, Cacheable
  <2>4. Found(q, v) = p
    BY <1>2 DEF Found
  <2> QED
    BY <2>3, <2>4
<1>3. CASE q.op = "remove"
  <2> DEFINE p == [q EXCEPT !.pc = "delete", !.found = v]
  <2>1. p \in Request
    BY DEF Request, Stages
  <2>2. p.pc = "delete" /\ p.found = v /\ p.op = "remove" /\ p.key = q.key /\ p.change = q.change
    BY <1>3 DEF Request
  <2>3. InOrder(p, h)
    <3> HIDE DEF p
    <3> QED
      BY <1>3, <2>1, <2>2 DEF InOrder, Cacheable
  <2>4. Found(q, v) = p
    BY <1>3 DEF Found
  <2> QED
    BY <2>3, <2>4
<1> QED
  BY <1>0, <1>1, <1>2, <1>3

-----------------------------------------------------------------------------
(* The requests of TaskCache, step by step.                                *)

\* A request moves while the table's history grows or stays.
LEMMA RequestMoves ==
  ASSUME RequestsInOrder, NEW r \in Requests, NEW q, Goes(r, q),
         q = Idle \/ InOrder(q, held'),
         \A t \in Tasks : held[t] \subseteq held'[t]
  PROVE  RequestsInOrder'
<1>1. request' = [request EXCEPT ![r] = q]
  BY DEF Goes
<1>2. q \in Request \cup {Idle}
  BY DEF InOrder
<1>3. request' \in [Requests -> Request \cup {Idle}]
  BY <1>1, <1>2 DEF RequestsInOrder
<1>4. \A p : InOrder(p, held) => InOrder(p, held')
  BY HeldGrows
<1>5. \A s \in Requests : request'[s] = Idle \/ InOrder(request'[s], held')
  BY <1>1, <1>4 DEF RequestsInOrder
<1> QED
  BY <1>3, <1>5 DEF RequestsInOrder

\* save, update and softDelete put a row in the table and its history.
LEMMA RecordKeepsTable ==
  ASSUME TableIsTyped, NEW t \in Tasks, NEW row \in Task, Record(t, row)
  PROVE  /\ TableIsTyped'
         /\ \A x \in Tasks : held[x] \subseteq held'[x]
         /\ row \in held'[t] /\ tasks'[t] = row
<1>1. /\ tasks' = [tasks EXCEPT ![t] = row]
      /\ held' = [held EXCEPT ![t] = held[t] \cup {row}]
  BY DEF Record
<1>2. \A x \in Tasks : /\ tasks'[x] = IF x = t THEN row ELSE tasks[x]
                       /\ held'[x] = IF x = t THEN held[t] \cup {row} ELSE held[x]
  BY <1>1 DEF TableIsTyped
<1>3. /\ tasks' \in [Tasks -> Task \cup {NoTask}]
      /\ held' \in [Tasks -> SUBSET Task]
  BY <1>1 DEF TableIsTyped
<1> QED
  BY <1>2, <1>3 DEF TableIsTyped

\* A write to a cache, or one that the store refused.
LEMMA SetKeepsCache ==
  ASSUME CacheIsTyped, NEW p \in Replicas, NEW k \in Keys, NEW v \in AnyAnswer, Set(p, k, v),
         v = Absent \/ Cacheable(k, v, held)
  PROVE  /\ cache' \in [Replicas -> [Keys -> AnyAnswer]]
         /\ \A o \in Replicas, x \in Keys :
              /\ cache'[o][x] = Absent \/ Cacheable(x, cache'[o][x], held)
              /\ o # p \/ x # k => cache'[o][x] = cache[o][x]
<1>1. CASE cache' = [cache EXCEPT ![p][k] = v]
  <2>1. cache' \in [Replicas -> [Keys -> AnyAnswer]]
    BY <1>1 DEF CacheIsTyped
  <2>2. \A o \in Replicas, x \in Keys :
          cache'[o][x] = IF o = p /\ x = k THEN v ELSE cache[o][x]
    BY <1>1 DEF CacheIsTyped
  <2> QED
    BY <2>1, <2>2 DEF CacheIsTyped
<1>2. CASE UNCHANGED cache
  BY <1>2 DEF CacheIsTyped
<1> QED
  BY <1>1, <1>2 DEF Set

\* The absence of an entry can be written.
LEMMA AbsentIsAnswer == Absent \in AnyAnswer
  BY DEF AnyAnswer

\* A cache that is left alone stays valid while rows are added.
LEMMA CacheStays ==
  ASSUME CacheIsTyped, UNCHANGED cache, \A t \in Tasks : held[t] \subseteq held'[t]
  PROVE  CacheIsTyped'
<1>1. \A k \in Keys : \A v : Cacheable(k, v, held) => Cacheable(k, v, held')
  BY HeldGrows
<1> QED
  BY <1>1 DEF CacheIsTyped

\* A step that changes neither the table nor the cache keeps both as they are.
LEMMA OnlyRequestMoves ==
  ASSUME TasksInv, NEW r \in Requests, NEW q, Goes(r, q),
         q = Idle \/ InOrder(q, held),
         UNCHANGED <<tasks, cache, held>>, CountersAreTyped'
  PROVE  TasksInv'
<1>1. RequestsInOrder'
  BY RequestMoves DEF TasksInv
<1>2. TableIsTyped' /\ CacheIsTyped'
  BY DEF TasksInv, TableIsTyped, CacheIsTyped
<1> QED
  BY <1>1, <1>2 DEF TasksInv

\* Counters stay numbers.
LEMMA CountersStay ==
  ASSUME CountersAreTyped,
         overlapped' = overlapped \/ \E r \in Requests : Begins(r),
         UNCHANGED <<edits, editors>> \/ \E p \in Replicas : Edit(p),
         UNCHANGED faults \/ Fails
  PROVE  CountersAreTyped'
<1>1. overlapped' \in BOOLEAN
  BY DEF CountersAreTyped, Begins
<1>2. edits' \in Nat /\ faults' \in Nat /\ editors' \subseteq Replicas
  BY DEF CountersAreTyped, Edit, Fails
<1> QED
  BY <1>1, <1>2 DEF CountersAreTyped

\* A request that starts is in order.
LEMMA AsksInOrder ==
  ASSUME NEW p \in Replicas, NEW op \in {"read", "update", "remove"}, NEW k \in Keys,
         NEW change \in Changes \cup {NoChange},
         op = "read" \/ k.kind = "task", op = "update" => change \in Changes,
         NEW h
  PROVE  InOrder(Asks(p, op, k, change), h)
<1> DEFINE q == Asks(p, op, k, change)
<1>1. q \in Request
  BY AbsentIsAnswer DEF Asks, Request, Stages
<1>2. q.pc = "query" /\ q.op = op /\ q.key = k /\ q.change = change /\ q.found = Absent
  BY DEF Asks
<1>3. InOrder(q, h)
  <2> HIDE DEF q
  <2> QED
    BY <1>1, <1>2 DEF InOrder
<1> QED
  BY <1>3

\* get answers, misses or fails.
LEMMA GetKeeps ==
  ASSUME TasksInv, NEW r \in Requests, NEW q, Get(r, q),
         InOrder(q, held), q.pc = "query",
         UNCHANGED <<tasks, cache, held>>, CountersAreTyped'
  PROVE  TasksInv'
<1>1. q \in Request /\ q.key \in Keys
  BY DEF InOrder, Request
<1>2. ASSUME NEW v, v = cache[q.at][q.key], v # Absent, Goes(r, Found(q, v)) PROVE TasksInv'
  <2>0. q.at \in Replicas
    BY <1>1 DEF Request
  <2>1. Cacheable(q.key, v, held) /\ v \in AnyAnswer
    BY <1>1, <1>2, <2>0 DEF TasksInv, CacheIsTyped
  <2>2. Found(q, v) = Idle \/ InOrder(Found(q, v), held)
    BY <1>1, <2>1, FoundInOrder DEF InOrder
  <2> QED
    BY <1>2, <2>2, OnlyRequestMoves
<1>3. CASE Goes(r, q)
  BY <1>3, OnlyRequestMoves
<1> QED
  BY <1>2, <1>3 DEF Get

\* findAll, findOne, update, remove and the dashboard begin with the cache.
LEMMA ReadersKeep ==
  ASSUME TasksInv, NEW r \in Requests, Read(r) \/ Update(r) \/ Remove(r)
  PROVE  TasksInv'
<1>1. CountersAreTyped' /\ UNCHANGED <<tasks, cache, held>>
  <2>1. /\ Begins(r)
        /\ UNCHANGED <<edits, editors>> \/ \E p \in Replicas : Edit(p)
        /\ UNCHANGED <<tasks, cache, held>>
    BY DEF Read, Update, Remove
  <2>2. UNCHANGED faults \/ Fails
    BY DEF Read, Update, Remove, Get
  <2> QED
    BY <2>1, <2>2, CountersStay DEF TasksInv
<1>2. CASE Read(r)
  <2>1. PICK p \in Replicas, k \in Views : Get(r, Asks(p, "read", k, NoChange))
    BY <1>2 DEF Read
  <2>2. /\ InOrder(Asks(p, "read", k, NoChange), held)
        /\ Asks(p, "read", k, NoChange).pc = "query"
    BY AsksInOrder, ViewsAreKeys DEF Asks
  <2> QED
    BY <1>1, <2>1, <2>2, GetKeeps
<1>3. CASE Update(r)
  <2>1. PICK p \in Replicas, t \in Tasks, c \in Changes :
          Get(r, Asks(p, "update", Key("task", t), c))
    BY <1>3, DtosAreChanges DEF Update
  <2>2. InOrder(Asks(p, "update", Key("task", t), c), held)
    BY AsksInOrder, TaskKeys
  <2>3. Asks(p, "update", Key("task", t), c).pc = "query"
    BY DEF Asks
  <2> QED
    BY <1>1, <2>1, <2>2, <2>3, GetKeeps
<1>4. CASE Remove(r)
  <2>1. PICK p \in Replicas, t \in Tasks : Get(r, Asks(p, "remove", Key("task", t), NoChange))
    BY <1>4 DEF Remove
  <2>2. InOrder(Asks(p, "remove", Key("task", t), NoChange), held)
    BY AsksInOrder, TaskKeys
  <2>3. Asks(p, "remove", Key("task", t), NoChange).pc = "query"
    BY DEF Asks
  <2> QED
    BY <1>1, <2>1, <2>2, <2>3, GetKeeps
<1> QED
  BY <1>2, <1>3, <1>4

\* A request that is past its start is in order.
LEMMA BusyInOrder ==
  ASSUME TasksInv, NEW r \in Requests, request[r].pc \in Stages
  PROVE  /\ InOrder(request[r], held) /\ request[r] \in Request
         /\ request[r].key \in Keys
<1>1. request[r] # Idle
  BY DEF Stages, Idle
<1> QED
  BY <1>1 DEF TasksInv, RequestsInOrder, InOrder, Request

\* The database answers, or fails the read once.
LEMMA QueryKeeps ==
  ASSUME TasksInv, NEW r \in Requests, Query(r) \/ QueryFails(r)
  PROVE  TasksInv'
<1> DEFINE q == request[r]
           again == [q EXCEPT !.pc = "again"]
           fill == [q EXCEPT !.pc = "fill", !.found = View(q.key)]
<1>1. q.pc = "query" /\ q \in Request /\ InOrder(q, held) /\ q.key \in Keys
  BY BusyInOrder DEF Query, QueryFails, Stages
<1>2. InOrder(again, held)
  <2>1. again \in Request /\ again.pc = "again" /\ again.op = q.op /\ again.key = q.key
        /\ again.change = q.change /\ again.found = q.found
    BY <1>1 DEF Request, Stages
  <2> HIDE DEF q, again
  <2> QED
    BY <1>1, <2>1 DEF InOrder
<1>3. ASSUME ~ Missing(q.key)
      PROVE  InOrder(fill, held)
  <2>1. Cacheable(q.key, View(q.key), held) /\ View(q.key) \in AnyAnswer
    BY <1>1, <1>3, ViewIsCacheable DEF TasksInv
  <2>2. fill \in Request /\ fill.pc = "fill" /\ fill.op = q.op /\ fill.key = q.key
        /\ fill.change = q.change /\ fill.found = View(q.key)
    BY <1>1, <2>1 DEF Request, Stages
  <2> HIDE DEF q, fill
  <2> QED
    BY <1>1, <2>1, <2>2 DEF InOrder, Cacheable
<1>4. /\ Goes(r, again) \/ (~ Missing(q.key) /\ Goes(r, fill))
      /\ UNCHANGED <<tasks, cache, held>>
      /\ CountersAreTyped'
  BY DEF Query, QueryFails, TasksInv, CountersAreTyped, history, Fails
<1> HIDE DEF q, again, fill
<1> QED
  BY <1>2, <1>3, <1>4, OnlyRequestMoves

\* The second read of wrap is answered, or rejects the request.
LEMMA AgainKeeps ==
  ASSUME TasksInv, NEW r \in Requests, Again(r) \/ Rejects(r)
  PROVE  TasksInv'
<1> DEFINE q == request[r]
           p == Found(q, View(q.key))
<1>1. /\ Goes(r, Idle) \/ (q.pc = "again" /\ ~ Missing(q.key) /\ Goes(r, p))
      /\ UNCHANGED <<tasks, cache, held>>
      /\ CountersAreTyped'
  BY DEF Again, Rejects, TasksInv, CountersAreTyped, history, Fails
<1>2. ASSUME q.pc = "again", ~ Missing(q.key)
      PROVE  p = Idle \/ InOrder(p, held)
  <2>1. q \in Request /\ InOrder(q, held) /\ q.key \in Keys
    BY <1>2, BusyInOrder DEF Stages
  <2>2. Cacheable(q.key, View(q.key), held) /\ View(q.key) \in AnyAnswer
    BY <1>2, <2>1, ViewIsCacheable DEF TasksInv
  <2> HIDE DEF q
  <2> QED
    BY <1>2, <2>1, <2>2, FoundInOrder DEF InOrder
<1> HIDE DEF q, p
<1> QED
  BY <1>1, <1>2, OnlyRequestMoves

\* wrap stores what it has read, which the cache may refuse.
LEMMA FillKeeps ==
  ASSUME TasksInv, NEW r \in Requests, Fill(r)
  PROVE  TasksInv'
<1> DEFINE q == request[r]
           p == Found(q, q.found)
<1>1. /\ q.pc = "fill" /\ Set(q.at, q.key, q.found) /\ Goes(r, p)
      /\ UNCHANGED <<tasks, held>>
      /\ CountersAreTyped'
  BY DEF Fill, TasksInv, CountersAreTyped, history, Fails, Set
<1>2. q \in Request /\ InOrder(q, held) /\ q.key \in Keys /\ q.at \in Replicas
  BY <1>1, BusyInOrder DEF Stages, Request
<1>3. q.found \in AnyAnswer /\ Cacheable(q.key, q.found, held)
  BY <1>1, <1>2 DEF InOrder, Cacheable, Request
<1>4. p = Idle \/ InOrder(p, held)
  <2> HIDE DEF q
  <2> QED
    BY <1>1, <1>2, <1>3, FoundInOrder DEF InOrder
<1> HIDE DEF q, p
<1>5. CacheIsTyped'
  BY <1>1, <1>2, <1>3, SetKeepsCache DEF TasksInv, CacheIsTyped
<1>6. RequestsInOrder'
  BY <1>1, <1>4, RequestMoves DEF TasksInv
<1>7. TableIsTyped'
  BY <1>1 DEF TasksInv, TableIsTyped
<1> QED
  BY <1>1, <1>5, <1>6, <1>7 DEF TasksInv

\* A step that records a row and moves its request.
LEMMA RecordKeeps ==
  ASSUME TasksInv, NEW r \in Requests, NEW t \in Tasks, NEW row \in Task,
         NEW q, Record(t, row), Goes(r, q),
         \A h : (\A x \in Tasks : held[x] \subseteq h[x]) /\ row \in h[t] => InOrder(q, h),
         UNCHANGED cache, CountersAreTyped'
  PROVE  TasksInv'
<1>1. /\ TableIsTyped'
      /\ \A x \in Tasks : held[x] \subseteq held'[x]
      /\ row \in held'[t]
  BY RecordKeepsTable DEF TasksInv
<1>2. InOrder(q, held')
  BY <1>1
<1>3. RequestsInOrder'
  BY <1>1, <1>2, RequestMoves DEF TasksInv
<1>4. CacheIsTyped'
  BY <1>1, CacheStays DEF TasksInv
<1> QED
  BY <1>1, <1>3, <1>4 DEF TasksInv

\* create saves the row.
LEMMA CreateKeeps ==
  ASSUME TasksInv, NEW r \in Requests, Create(r)
  PROVE  TasksInv'
<1>1. PICK e \in Replicas, t \in Tasks, s \in Statuses, u \in Assignees :
        LET row == [status |-> s, assignee |-> u, deleted |-> FALSE]
            q == Asks(e, "create", Key("task", t), NoChange)
        IN  /\ Edit(e) /\ Record(t, row)
            /\ Goes(r, [q EXCEPT !.pc = "invalidate", !.found = row])
  BY DEF Create
<1> DEFINE row == [status |-> s, assignee |-> u, deleted |-> FALSE]
           k == Key("task", t)
           a == Asks(e, "create", k, NoChange)
           p == [a EXCEPT !.pc = "invalidate", !.found = row]
<1>2. row \in Task
  BY DEF Task
<1>3. k \in Keys /\ k.kind = "task" /\ k.of = t
  BY TaskKeys
<1>4. row \in AnyAnswer
  BY <1>2, <1>3, AnswersForTasks, AnswersAreAnswers
<1>5. Record(t, row) /\ Goes(r, p)
  BY <1>1
<1>6. a \in Request /\ a.op = "create" /\ a.key = k
  BY <1>3, AbsentIsAnswer DEF Asks, Request, Stages
<1>7. p \in Request /\ p.pc = "invalidate" /\ p.op = "create" /\ p.key = k /\ p.found = row
  <2> HIDE DEF row, k, a
  <2> QED
    BY <1>4, <1>6 DEF Request, Stages
<1>8. CountersAreTyped' /\ UNCHANGED cache
  <2>1. Begins(r) /\ UNCHANGED <<cache, faults>>
    BY DEF Create
  <2> QED
    BY <1>1, <2>1, CountersStay DEF TasksInv
<1> HIDE DEF row, k, a, p
<1>9. \A h : row \in h[t] => InOrder(p, h)
  BY <1>3, <1>7 DEF InOrder
<1> QED
  BY <1>2, <1>5, <1>8, <1>9, RecordKeeps

\* The row that UPDATE leaves: the fields of the change, and the others.
LEMMA UpdatedRow ==
  ASSUME NEW old \in Task, NEW c \in Changes
  PROVE  LET row == [f \in DOMAIN old |-> IF f \in DOMAIN c THEN c[f] ELSE old[f]]
         IN  /\ row \in Task
             /\ row = AfterUpdate(old, c)
<1> DEFINE row == [f \in DOMAIN old |-> IF f \in DOMAIN c THEN c[f] ELSE old[f]]
<1>1. DOMAIN old = {"status", "assignee", "deleted"}
  BY DEF Task
<1>2. DOMAIN c \subseteq {"status", "assignee"}
  BY DEF Changes
<1>3. /\ "status" \in DOMAIN c => c["status"] \in Statuses
      /\ "assignee" \in DOMAIN c => c["assignee"] \in Assignees
  BY DEF Changes
<1>4. row = [status |-> IF "status" \in DOMAIN c THEN c["status"] ELSE old.status,
             assignee |-> IF "assignee" \in DOMAIN c THEN c["assignee"] ELSE old.assignee,
             deleted |-> old.deleted]
  BY <1>1, <1>2
<1>5. row \in Task
  BY <1>3, <1>4 DEF Task, Assignees
<1>6. row = AfterUpdate(old, c)
  BY <1>4 DEF AfterUpdate, Task
<1> QED
  BY <1>5, <1>6

\* A request whose task was found has the task in the table.
LEMMA TaskIsStored ==
  ASSUME TasksInv, NEW r \in Requests, request[r].pc \in Stages \ {"query", "again"},
         request[r].op # "read"
  PROVE  /\ request[r].key.kind = "task" /\ request[r].key.of \in Tasks
         /\ tasks[request[r].key.of] \in Task
         /\ tasks[request[r].key.of] \in held[request[r].key.of]
         /\ request[r].found \in held[request[r].key.of] /\ request[r].found \in Task
         /\ request[r].found \in AnyAnswer /\ request[r].at \in Replicas
<1>1. InOrder(request[r], held) /\ request[r].key \in Keys
  BY BusyInOrder
<1>2. request[r].key.kind = "task" /\ request[r].key.of \in Tasks
  BY <1>1, KindsOfKeys DEF InOrder
<1>3. /\ request[r].found \in held[request[r].key.of] /\ request[r].found \in AnyAnswer
      /\ request[r].at \in Replicas
  BY <1>1, <1>2 DEF InOrder, Request
<1> QED
  BY <1>2, <1>3 DEF TasksInv, TableIsTyped

\* UPDATE commits.
LEMMA WriteKeeps ==
  ASSUME TasksInv, NEW r \in Requests, Write(r)
  PROVE  TasksInv'
<1> DEFINE q == request[r]
           t == q.key.of
           c == q.change
           row == [f \in DOMAIN tasks[t] |-> IF f \in DOMAIN c THEN c[f] ELSE tasks[t][f]]
           p == [q EXCEPT !.pc = "readBack"]
<1>1. q.pc = "write" /\ Record(t, row) /\ Goes(r, p) /\ UNCHANGED cache
  BY DEF Write
<1>2. InOrder(q, held) /\ q \in Request /\ q.key \in Keys
  BY <1>1, BusyInOrder DEF Stages
<1>3. q.op = "update" /\ c \in Changes
  BY <1>1, <1>2 DEF InOrder
<1>4. /\ q.key.kind = "task" /\ t \in Tasks /\ tasks[t] \in Task /\ q.found \in held[t]
  BY <1>1, <1>3, TaskIsStored DEF Stages
<1>5. row \in Task
  BY <1>3, <1>4, UpdatedRow
<1>6. p \in Request /\ p.pc = "readBack" /\ p.op = "update" /\ p.key = q.key /\ p.change = c
      /\ p.found = q.found
  BY <1>2, <1>3 DEF Request, Stages
<1>7. CountersAreTyped'
  BY DEF Write, TasksInv, CountersAreTyped
<1> HIDE DEF q, t, c, row, p
<1>8. \A h : (\A x \in Tasks : held[x] \subseteq h[x]) => q.found \in h[t]
  BY <1>4
<1>9. t = q.key.of
  BY DEF t
<1>10. \A h : (\A x \in Tasks : held[x] \subseteq h[x]) => InOrder(p, h)
  BY <1>3, <1>4, <1>6, <1>8, <1>9 DEF InOrder
<1> QED
  BY <1>1, <1>4, <1>5, <1>7, <1>10, RecordKeeps

\* softDelete commits.
LEMMA DeleteKeeps ==
  ASSUME TasksInv, NEW r \in Requests, Delete(r)
  PROVE  TasksInv'
<1> DEFINE q == request[r]
           t == q.key.of
           row == [tasks[t] EXCEPT !.deleted = TRUE]
           p == [q EXCEPT !.pc = "evict"]
<1>1. q.pc = "delete" /\ Record(t, row) /\ Goes(r, p) /\ UNCHANGED cache
  BY DEF Delete
<1>2. InOrder(q, held) /\ q \in Request /\ q.key \in Keys
  BY <1>1, BusyInOrder DEF Stages
<1>3. q.op = "remove"
  BY <1>1, <1>2 DEF InOrder
<1>4. /\ q.key.kind = "task" /\ t \in Tasks /\ tasks[t] \in Task /\ q.found \in held[t]
  BY <1>1, <1>3, TaskIsStored DEF Stages
<1>5. row \in Task
  BY <1>4 DEF Task
<1>6. p \in Request /\ p.pc = "evict" /\ p.op = "remove" /\ p.key = q.key
      /\ p.found = q.found
  BY <1>2, <1>3 DEF Request, Stages
<1>7. CountersAreTyped'
  BY DEF Delete, TasksInv, CountersAreTyped
<1> HIDE DEF q, t, row, p
<1>8. \A h : (\A x \in Tasks : held[x] \subseteq h[x]) => q.found \in h[t]
  BY <1>4
<1>9. t = q.key.of
  BY DEF t
<1>10. \A h : (\A x \in Tasks : held[x] \subseteq h[x]) => InOrder(p, h)
  BY <1>3, <1>4, <1>6, <1>8, <1>9 DEF InOrder
<1> QED
  BY <1>1, <1>4, <1>5, <1>7, <1>10, RecordKeeps

\* A request after its edit goes on with another stage or row.
LEMMA GoesOnInOrder ==
  ASSUME NEW h, NEW q, InOrder(q, h), NEW pc \in {"store", "invalidate"},
         NEW found \in h[q.key.of], found \in AnyAnswer,
         q.op \in {"update", "create"} \/ (q.op = "remove" /\ pc = "invalidate")
  PROVE  InOrder([q EXCEPT !.pc = pc, !.found = found], h)
<1> DEFINE p == [q EXCEPT !.pc = pc, !.found = found]
<1>1. q \in Request
  BY DEF InOrder
<1>2. p \in Request /\ p.pc = pc /\ p.op = q.op /\ p.key = q.key /\ p.change = q.change
      /\ p.found = found
  BY <1>1 DEF Request, Stages
<1>3. InOrder(p, h)
  <2> HIDE DEF p
  <2> QED
    BY <1>2 DEF InOrder
<1> QED
  BY <1>3

\* findById reads the row back.
LEMMA ReadBackKeeps ==
  ASSUME TasksInv, NEW r \in Requests, ReadBack(r)
  PROVE  TasksInv'
<1> DEFINE q == request[r]
           t == q.key.of
           p == [q EXCEPT !.pc = "store", !.found = tasks[t]]
<1>1. /\ q.pc = "readBack" /\ (Goes(r, p) \/ Goes(r, Idle))
      /\ UNCHANGED <<tasks, cache, held>> /\ CountersAreTyped'
  BY DEF ReadBack, Updated, TasksInv, CountersAreTyped, history
<1>2. InOrder(q, held) /\ q.op = "update"
  BY <1>1, BusyInOrder DEF Stages, InOrder
<1>3. q.key.kind = "task" /\ t \in Tasks /\ tasks[t] \in held[t] /\ tasks[t] \in Task
  BY <1>1, <1>2, TaskIsStored DEF Stages
<1>4. tasks[t] \in AnyAnswer
  <2>1. q.key \in Keys
    BY <1>2 DEF InOrder, Request
  <2> QED
    BY <1>3, <2>1, AnswersForTasks, AnswersAreAnswers
<1>5. InOrder(p, held)
  BY <1>2, <1>3, <1>4, GoesOnInOrder
<1> HIDE DEF q, t, p
<1> QED
  BY <1>1, <1>5, OnlyRequestMoves

\* A step that writes one key and moves its request.
LEMMA CacheStepKeeps ==
  ASSUME TasksInv, NEW r \in Requests, NEW e \in Replicas, NEW k \in Keys, NEW v \in AnyAnswer,
         Set(e, k, v), v = Absent \/ Cacheable(k, v, held),
         NEW q, Goes(r, q), q = Idle \/ InOrder(q, held),
         UNCHANGED <<tasks, history, edits>>
  PROVE  TasksInv'
<1>1. CountersAreTyped'
  BY DEF Set, TasksInv, CountersAreTyped, history, Fails
<1>2. CacheIsTyped'
  BY SetKeepsCache DEF TasksInv, CacheIsTyped, history
<1>3. RequestsInOrder'
  BY RequestMoves DEF TasksInv, history
<1>4. TableIsTyped'
  BY DEF TasksInv, TableIsTyped, history
<1> QED
  BY <1>1, <1>2, <1>3, <1>4 DEF TasksInv

\* The task is cached.
LEMMA StoreKeeps ==
  ASSUME TasksInv, NEW r \in Requests, Store(r)
  PROVE  TasksInv'
<1> DEFINE q == request[r]
           p == [q EXCEPT !.pc = "invalidate"]
<1>1. /\ q.pc = "store" /\ Set(q.at, q.key, q.found) /\ (Goes(r, p) \/ Goes(r, Idle))
      /\ UNCHANGED <<tasks, history, edits>>
  BY DEF Store
<1>2. InOrder(q, held) /\ q \in Request /\ q.key \in Keys /\ q.op \in {"update", "create"}
  BY <1>1, BusyInOrder DEF Stages, InOrder
<1>3. q.key.kind = "task" /\ q.found \in held[q.key.of] /\ q.found \in AnyAnswer
      /\ q.found \in Task /\ q.at \in Replicas
  BY <1>1, <1>2, TaskIsStored DEF Stages
<1>4. Cacheable(q.key, q.found, held)
  BY <1>3, AnswersForTasks DEF Cacheable
<1>5. InOrder([q EXCEPT !.pc = "invalidate", !.found = q.found], held)
  BY <1>2, <1>3, GoesOnInOrder DEF Request
<1>6. p = [q EXCEPT !.pc = "invalidate", !.found = q.found]
  BY <1>2 DEF Request
<1> HIDE DEF q, p
<1> QED
  BY <1>1, <1>2, <1>3, <1>4, <1>5, <1>6, CacheStepKeeps

\* The removed task's entry is deleted.
LEMMA EvictKeeps ==
  ASSUME TasksInv, NEW r \in Requests, Evict(r)
  PROVE  TasksInv'
<1> DEFINE q == request[r]
           p == [q EXCEPT !.pc = "invalidate"]
<1>1. /\ q.pc = "evict" /\ Set(q.at, q.key, Absent) /\ Goes(r, p)
      /\ UNCHANGED <<tasks, history, edits>>
  BY DEF Evict, Del
<1>2. InOrder(q, held) /\ q \in Request /\ q.key \in Keys /\ q.op = "remove"
  BY <1>1, BusyInOrder DEF Stages, InOrder
<1>3. /\ q.key.kind = "task" /\ q.found \in held[q.key.of] /\ q.found \in AnyAnswer
      /\ q.at \in Replicas
  BY <1>1, <1>2, TaskIsStored DEF Stages
<1>4. InOrder([q EXCEPT !.pc = "invalidate", !.found = q.found], held)
  BY <1>2, <1>3, GoesOnInOrder
<1>5. p = [q EXCEPT !.pc = "invalidate", !.found = q.found]
  BY <1>2 DEF Request
<1> HIDE DEF q, p
<1> QED
  BY <1>1, <1>2, <1>3, <1>4, <1>5, AbsentIsAnswer, CacheStepKeeps

\* The patterns are deleted in vain.
LEMMA InvalidateKeeps ==
  ASSUME TasksInv, NEW r \in Requests, Invalidate(r)
  PROVE  TasksInv'
<1> DEFINE q == request[r]
           p == [q EXCEPT !.pc = "store"]
<1>1. /\ q.pc = "invalidate" /\ (Goes(r, Idle) \/ (q.op = "create" /\ Goes(r, p)))
      /\ UNCHANGED <<tasks, cache, held>> /\ CountersAreTyped'
  BY DEF Invalidate, TasksInv, CountersAreTyped, history
<1>2. InOrder(q, held) /\ q \in Request /\ q.op # "read"
  BY <1>1, BusyInOrder DEF Stages, InOrder
<1>3. q.found \in held[q.key.of] /\ q.found \in AnyAnswer
  BY <1>1, <1>2, TaskIsStored DEF Stages
<1>4. q.op = "create" => InOrder([q EXCEPT !.pc = "store", !.found = q.found], held)
  BY <1>2, <1>3, GoesOnInOrder
<1>5. p = [q EXCEPT !.pc = "store", !.found = q.found]
  BY <1>2 DEF Request
<1> HIDE DEF q, p
<1> QED
  BY <1>1, <1>4, <1>5, OnlyRequestMoves

\* An entry expires.
LEMMA ExpireKeeps ==
  ASSUME TasksInv, NEW p \in Replicas, NEW k \in Keys, Expire(p, k)
  PROVE  TasksInv'
<1>1. CacheIsTyped'
  <2>1. Set(p, k, Absent)
    BY DEF Expire, Set
  <2> QED
    BY <2>1, AbsentIsAnswer, SetKeepsCache DEF TasksInv, CacheIsTyped, Expire, history
<1>2. TableIsTyped' /\ RequestsInOrder' /\ CountersAreTyped'
  BY DEF Expire, history, TasksInv, TableIsTyped, RequestsInOrder, CountersAreTyped
<1> QED
  BY <1>1, <1>2 DEF TasksInv

\* A replica that restarts loses its requests and its cache.
LEMMA RestartKeeps ==
  ASSUME TasksInv, NEW p \in Replicas, Restart(p)
  PROVE  TasksInv'
<1>1. /\ cache' = [cache EXCEPT ![p] = [k \in Keys |-> Absent]]
      /\ UNCHANGED <<tasks, held, overlapped, editors, edits>>
      /\ Fails
      /\ request' = [r \in Requests |->
           IF request[r] # Idle /\ request[r].at = p THEN Idle ELSE request[r]]
  BY DEF Restart, history
<1>2. CacheIsTyped'
  BY <1>1, AbsentIsAnswer DEF TasksInv, CacheIsTyped
<1>3. RequestsInOrder'
  BY <1>1 DEF TasksInv, RequestsInOrder
<1>4. TableIsTyped' /\ CountersAreTyped'
  BY <1>1 DEF TasksInv, TableIsTyped, CountersAreTyped, Fails
<1> QED
  BY <1>2, <1>3, <1>4 DEF TasksInv

\* Every step keeps the rows, the cache and the requests in order.
LEMMA TasksStep ==
  ASSUME TasksInv, [Next]_vars
  PROVE  TasksInv'
<1>1. CASE UNCHANGED vars
  BY <1>1 DEF vars, history, TasksInv, TableIsTyped, CacheIsTyped, RequestsInOrder,
              CountersAreTyped
<1>2. ASSUME NEW r \in Requests,
             \/ Read(r) \/ Create(r) \/ Update(r) \/ Remove(r)
             \/ Proceed(r) \/ QueryFails(r) \/ Rejects(r)
      PROVE  TasksInv'
  <2>1. CASE Read(r) \/ Update(r) \/ Remove(r)
    BY <2>1, ReadersKeep
  <2>2. CASE Create(r)
    BY <2>2, CreateKeeps
  <2>3. CASE Query(r) \/ QueryFails(r)
    BY <2>3, QueryKeeps
  <2>4. CASE Again(r) \/ Rejects(r)
    BY <2>4, AgainKeeps
  <2>5. CASE Fill(r)
    BY <2>5, FillKeeps
  <2>6. CASE Write(r) \/ ReadBack(r)
    BY <2>6, WriteKeeps, ReadBackKeeps
  <2>7. CASE Store(r) \/ Delete(r)
    BY <2>7, StoreKeeps, DeleteKeeps
  <2>8. CASE Evict(r) \/ Invalidate(r)
    BY <2>8, EvictKeeps, InvalidateKeeps
  <2> QED
    BY <1>2, <2>1, <2>2, <2>3, <2>4, <2>5, <2>6, <2>7, <2>8 DEF Proceed
<1>3. ASSUME NEW p \in Replicas, Restart(p) \/ \E k \in Keys : Expire(p, k)
      PROVE  TasksInv'
  BY <1>3, ExpireKeeps, RestartKeeps
<1> QED
  BY <1>1, <1>2, <1>3 DEF Next

\* At first no request runs and nothing is cached.
LEMMA TasksAtFirst == Init => TasksInv
<1> SUFFICES ASSUME Init PROVE TasksInv
  OBVIOUS
<1>1. TableIsTyped
  BY DEF Init, TableIsTyped
<1>2. CacheIsTyped /\ RequestsInOrder /\ CountersAreTyped
  BY AbsentIsAnswer DEF Init, CacheIsTyped, RequestsInOrder, CountersAreTyped
<1> QED
  BY <1>1, <1>2 DEF TasksInv

\* The requests of TaskCache keep their types and stages, however they
\* interleave and fail.
THEOREM TasksInvariant == Spec => []TasksInv
  BY TasksAtFirst, TasksStep, PTL DEF Spec

\* The table, the cached answers and the requests keep their types: a missing
\* task is never cached as one, and the counters are numbers.
THEOREM TypeCorrect == Spec => []TypeOK
<1>1. TasksInv => TypeOK
  <2> SUFFICES ASSUME TasksInv PROVE TypeOK
    OBVIOUS
  <2>1. tasks \in [Tasks -> Task \cup {NoTask}] /\ overlapped \in BOOLEAN
        /\ editors \subseteq Replicas /\ edits \in Nat /\ faults \in Nat
    BY DEF TasksInv, TableIsTyped, CountersAreTyped
  <2>2. \A p \in Replicas, k \in Keys :
          cache[p][k] # Absent => cache[p][k] \in Answers(k)
    BY DEF TasksInv, CacheIsTyped, Cacheable
  <2>3. ASSUME NEW r \in Requests, request[r] # Idle
        PROVE  /\ request[r].pc \in Stages
               /\ request[r].op \in {"read", "create", "update", "remove"}
               /\ request[r].key \in Keys /\ request[r].at \in Replicas
               /\ request[r].found \in Answers(request[r].key) \cup {Absent}
    <3> DEFINE q == request[r]
    <3>1. InOrder(q, held) /\ q \in Request
      BY <2>3 DEF TasksInv, RequestsInOrder, InOrder
    <3>2. q.pc \in Stages /\ q.op \in {"read", "create", "update", "remove"}
          /\ q.key \in Keys /\ q.at \in Replicas
      BY <3>1 DEF Request
    <3>3. CASE q.pc \in {"query", "again"}
      BY <3>1, <3>2, <3>3 DEF InOrder
    <3>4. CASE q.pc = "fill"
      BY <3>1, <3>2, <3>4 DEF InOrder
    <3>5. CASE q.pc \notin {"query", "again", "fill"}
      <4>1. q.key.kind = "task"
        <5> HIDE DEF q
        <5> QED
          BY <3>1, <3>2, <3>5 DEF InOrder, Stages
      <4>2. q.key.of \in Tasks /\ q.found \in held[q.key.of]
        BY <3>1, <3>2, <3>5, <4>1, KindsOfKeys DEF InOrder
      <4> QED
        BY <3>2, <4>1, <4>2, AnswersForTasks DEF TasksInv, TableIsTyped
    <3> QED
      BY <3>2, <3>3, <3>4, <3>5
  <2> QED
    BY <2>1, <2>2, <2>3 DEF TypeOK, Stages
<1> QED
  BY <1>1, TasksInvariant, PTL

\* However requests interleave and fail, a cached task is a row that the table
\* once held.
THEOREM CachedTasksExisted == Spec => []CachedTaskExisted
<1>1. TasksInv => CachedTaskExisted
  BY TaskKeys DEF TasksInv, CacheIsTyped, Cacheable, CachedTaskExisted
<1> QED
  BY <1>1, TasksInvariant, PTL

-----------------------------------------------------------------------------
(* One request after another, without faults.                              *)

\* A cached task is fresh if it is the live row.
LEMMA TaskFreshness ==
  ASSUME NEW p \in Replicas, NEW t \in Tasks
  PROVE  /\ Fresh(p, Key("task", t)) <=>
              \/ cache[p][Key("task", t)] = Absent
              \/ t \in Live /\ cache[p][Key("task", t)] = tasks[t]
         /\ Fresh(p, Key("task", t))' <=>
              \/ cache'[p][Key("task", t)] = Absent
              \/ t \in Live' /\ cache'[p][Key("task", t)] = tasks'[t]
<1> DEFINE k == Key("task", t)
<1>1. k.kind = "task" /\ k.of = t
  BY DEF Key
<1>2. View(k) = tasks[t] /\ View(k)' = tasks'[t]
  BY <1>1 DEF View
<1>3. (Missing(k) <=> t \notin Live) /\ (Missing(k)' <=> t \notin Live')
  BY <1>1 DEF Missing
<1> QED
  BY <1>2, <1>3 DEF Fresh

\* A row that stays is live or not as before.
LEMMA LiveStays ==
  ASSUME NEW t \in Tasks, tasks'[t] = tasks[t]
  PROVE  t \in Live' <=> t \in Live
  BY DEF Live

\* A request that goes on for the same edit is counted.
LEMMA CountMoves ==
  ASSUME TasksInv, EditsAreCounted, NEW r \in Requests, NEW q, Goes(r, q),
         q = Idle \/ q.op = "read" \/ q.at \in editors', editors \subseteq editors'
  PROVE  EditsAreCounted'
<1>1. \A s \in Requests : request'[s] = IF s = r THEN q ELSE request[s]
  BY DEF Goes, TasksInv, RequestsInOrder
<1> QED
  BY <1>1 DEF EditsAreCounted

\* getOrSet goes on with the same key, for the same edit.
LEMMA FoundKeepsKey ==
  ASSUME NEW q \in Request, NEW v, q.op # "create"
  PROVE  \/ Found(q, v) = Idle
         \/ /\ Found(q, v).pc = IF q.op = "update" THEN "write" ELSE "delete"
            /\ q.op \in {"update", "remove"} /\ Found(q, v).key = q.key /\ Found(q, v).op = q.op /\ Found(q, v).at = q.at
            /\ Found(q, v).found = v
<1>1. q.op \in {"read", "update", "remove"}
  BY DEF Request
<1>3. CASE q.op = "read"
  BY <1>3 DEF Found
<1>4. CASE q.op = "update"
  <2> DEFINE p == [q EXCEPT !.pc = "write", !.found = v]
  <2>1. p.pc = "write" /\ p.key = q.key /\ p.op = q.op /\ p.at = q.at /\ p.found = v
    BY DEF Request
  <2>2. Found(q, v) = p
    BY <1>4 DEF Found
  <2> HIDE DEF p
  <2> QED
    BY <1>4, <2>1, <2>2
<1>5. CASE q.op = "remove"
  <2> DEFINE p == [q EXCEPT !.pc = "delete", !.found = v]
  <2>1. p.pc = "delete" /\ p.key = q.key /\ p.op = q.op /\ p.at = q.at /\ p.found = v
    BY DEF Request
  <2>2. Found(q, v) = p
    BY <1>5 DEF Found
  <2> HIDE DEF p
  <2> QED
    BY <1>5, <2>1, <2>2
<1> QED
  BY <1>1, <1>3, <1>4, <1>5

\* Every step of a request keeps its key and operation.
LEMMA ProceedKeepsKey ==
  ASSUME TasksInv, NEW r \in Requests, NEW q, q = request[r],
         Proceed(r) \/ QueryFails(r) \/ Rejects(r)
  PROVE  /\ q \in Request /\ InOrder(q, held) /\ q.key \in Keys /\ q.at \in Replicas /\ q # Idle
         /\ \E p : Goes(r, p) /\ (p = Idle \/ (p.key = q.key /\ p.op = q.op /\ p.at = q.at))
<1>1. q.pc \in Stages
  BY DEF Proceed, QueryFails, Rejects, Query, Again, Fill, Write, ReadBack,
         Store, Delete, Evict, Invalidate, Stages
<1>2. q \in Request /\ InOrder(q, held) /\ q.key \in Keys /\ q # Idle /\ q.at \in Replicas
  BY <1>1, BusyInOrder DEF Stages, Idle, Request
<1>3. \A pc : LET p == [q EXCEPT !.pc = pc]
              IN  p.key = q.key /\ p.op = q.op /\ p.at = q.at
  BY <1>2 DEF Request
<1>4. \A v : \A pc \in {"fill", "store"} :
        LET p == [q EXCEPT !.pc = pc, !.found = v]
        IN  p.key = q.key /\ p.op = q.op /\ p.at = q.at
  BY <1>2 DEF Request
<1>5. CASE Query(r) \/ QueryFails(r) \/ ReadBack(r)
  <2>1. \/ Goes(r, [q EXCEPT !.pc = "again"])
        \/ Goes(r, [q EXCEPT !.pc = "fill", !.found = View(q.key)])
        \/ Goes(r, [q EXCEPT !.pc = "store", !.found = Updated(q)])
        \/ Goes(r, Idle)
    BY <1>5 DEF Query, QueryFails, ReadBack
  <2>2. PICK p : Goes(r, p) /\ p \in {[q EXCEPT !.pc = "again"], Idle,
                   [q EXCEPT !.pc = "fill", !.found = View(q.key)],
                   [q EXCEPT !.pc = "store", !.found = Updated(q)]}
    BY <2>1, Zenon
  <2>3. p = Idle \/ (p.key = q.key /\ p.op = q.op /\ p.at = q.at)
    BY <2>2, <1>3, <1>4, Zenon
  <2> QED
    BY <1>2, <2>2, <2>3
<1>6. CASE Write(r) \/ Delete(r) \/ Store(r) \/ Evict(r) \/ Invalidate(r)
  <2>1. (\E pc : Goes(r, [q EXCEPT !.pc = pc])) \/ Goes(r, Idle)
    <3>1. \/ Goes(r, [q EXCEPT !.pc = "readBack"]) \/ Goes(r, [q EXCEPT !.pc = "evict"])
          \/ Goes(r, [q EXCEPT !.pc = "invalidate"]) \/ Goes(r, [q EXCEPT !.pc = "store"])
          \/ Goes(r, Idle)
      BY <1>6 DEF Write, Delete, Store, Evict, Invalidate
    <3> QED
      BY <3>1, Zenon
  <2> QED
    BY <1>2, <1>3, <2>1, Zenon
<1>7. CASE Again(r) \/ Fill(r) \/ Rejects(r)
  <2>1. Goes(r, Idle) \/ (q.pc \in {"again", "fill"} /\ \E v : Goes(r, Found(q, v)))
    BY <1>7 DEF Again, Fill, Rejects
  <2>2. q.pc \in {"again", "fill"} => q.op # "create"
    BY <1>2 DEF InOrder
  <2> QED
    BY <1>2, <2>1, <2>2, FoundKeepsKey
<1> QED
  BY <1>2, <1>5, <1>6, <1>7 DEF Proceed

\* A request asks for what it is told to.
LEMMA AsksFor ==
  ASSUME NEW p \in Replicas, NEW op \in {"read", "update", "remove", "create"},
         NEW k \in Keys, NEW c \in Changes \cup {NoChange}
  PROVE  LET q == Asks(p, op, k, c)
         IN  q \in Request /\ q.pc = "query" /\ q.at = p /\ q.op = op /\ q.key = k
  BY AbsentIsAnswer DEF Asks, Request, Stages

\* The request of create.
LEMMA CreatesRow ==
  ASSUME NEW r \in Requests, Create(r)
  PROVE  \E p \in Replicas, t \in Tasks, row \in Task, q \in Request :
           /\ ~ row.deleted /\ tasks[t] = NoTask /\ Record(t, row) /\ Goes(r, q) /\ Edit(p)
           /\ q.pc = "invalidate" /\ q.at = p /\ q.op = "create" /\ q.key = Key("task", t)
           /\ q.found = row
<1>1. PICK p \in Replicas, t \in Tasks, s \in Statuses, u \in Assignees :
        LET row == [status |-> s, assignee |-> u, deleted |-> FALSE]
            q == Asks(p, "create", Key("task", t), NoChange)
        IN  /\ Edit(p) /\ tasks[t] = NoTask /\ Record(t, row)
            /\ Goes(r, [q EXCEPT !.pc = "invalidate", !.found = row])
  BY DEF Create
<1>2. PICK row : row = [status |-> s, assignee |-> u, deleted |-> FALSE]
  OBVIOUS
<1>3. row \in Task /\ ~ row.deleted
  BY <1>2 DEF Task
<1>4. PICK a : a = Asks(p, "create", Key("task", t), NoChange)
  OBVIOUS
<1>5. a \in Request /\ a.op = "create" /\ a.key = Key("task", t) /\ a.at = p
  BY <1>4, TaskKeys, AsksFor
<1>6. row \in AnyAnswer
  BY <1>3, TaskKeys, AnswersForTasks, AnswersAreAnswers
<1>7. PICK q : q = [a EXCEPT !.pc = "invalidate", !.found = row]
  OBVIOUS
<1>8. /\ q \in Request /\ q.pc = "invalidate" /\ q.op = "create" /\ q.key = Key("task", t)
      /\ q.at = p /\ q.found = row
  BY <1>5, <1>6, <1>7 DEF Request, Stages
<1>9. Record(t, row) /\ Goes(r, q) /\ Edit(p) /\ tasks[t] = NoTask
  BY <1>1, <1>2, <1>4, <1>7
<1> QED
  BY <1>3, <1>8, <1>9

\* The request that a reader or an edit starts as.
LEMMA ReadersAsk ==
  ASSUME NEW r \in Requests, Read(r) \/ Update(r) \/ Remove(r)
  PROVE  \E q \in Request :
           /\ Get(r, q) /\ q.pc = "query" /\ q.key \in Keys /\ q.at \in Replicas
           /\ \/ q.op = "read" /\ UNCHANGED editors
              \/ q.op \in {"update", "remove"} /\ Edit(q.at) /\ q.key.kind = "task"
<1>1. CASE Read(r)
  <2>1. PICK p \in Replicas, k \in Views : Get(r, Asks(p, "read", k, NoChange))
    BY <1>1 DEF Read
  <2>2. k \in Keys /\ UNCHANGED editors
    BY <1>1, ViewsAreKeys DEF Read
  <2> DEFINE q == Asks(p, "read", k, NoChange)
  <2>3. q \in Request /\ q.pc = "query" /\ q.at = p /\ q.op = "read" /\ q.key = k
    BY <2>2, AsksFor
  <2>4. Get(r, q)
    BY <2>1
  <2> HIDE DEF q
  <2> QED
    BY <2>2, <2>3, <2>4
<1>2. CASE Update(r)
  <2>1. PICK p \in Replicas, t \in Tasks, c \in Changes :
          Edit(p) /\ Get(r, Asks(p, "update", Key("task", t), c))
    BY <1>2, DtosAreChanges DEF Update
  <2> QED
    BY <2>1, TaskKeys, AsksFor
<1>3. CASE Remove(r)
  <2>1. PICK p \in Replicas, t \in Tasks :
          Edit(p) /\ Get(r, Asks(p, "remove", Key("task", t), NoChange))
    BY <1>3 DEF Remove
  <2> QED
    BY <2>1, TaskKeys, AsksFor
<1> QED
  BY <1>1, <1>2, <1>3

\* The cache answers, or the request goes to the database.
LEMMA GetGoes ==
  ASSUME NEW r \in Requests, NEW q \in Request, Get(r, q), q.op # "create"
  PROVE  \/ Goes(r, q)
         \/ cache[q.at][q.key] # Absent /\ Goes(r, Found(q, cache[q.at][q.key]))
  BY DEF Get

\* Every edit in progress is one that its replica was asked for.
LEMMA EditsCounted ==
  ASSUME TasksInv, EditsAreCounted, [Next]_vars
  PROVE  EditsAreCounted'
<1>1. CASE UNCHANGED vars
  BY <1>1 DEF vars, history, EditsAreCounted
<1>2. ASSUME NEW r \in Requests, Read(r) \/ Update(r) \/ Remove(r)
      PROVE  EditsAreCounted'
  <2>1. PICK q \in Request :
           /\ Get(r, q) /\ q.pc = "query" /\ q.key \in Keys /\ q.at \in Replicas
           /\ \/ q.op = "read" /\ UNCHANGED editors
              \/ q.op \in {"update", "remove"} /\ Edit(q.at) /\ q.key.kind = "task"
    BY <1>2, ReadersAsk
  <2>2. q.op = "read" \/ q.at \in editors'
    BY <2>1 DEF Edit
  <2>3. editors \subseteq editors' /\ q.op # "create"
    BY <2>1 DEF Edit
  <2>4. PICK p : Goes(r, p) /\ (p = q \/ (\E v : p = Found(q, v)))
    BY <2>1, <2>3, GetGoes
  <2>5. p = Idle \/ p.op = "read" \/ p.at \in editors'
    BY <2>2, <2>3, <2>4, FoundKeepsKey
  <2> QED
    BY <2>3, <2>4, <2>5, CountMoves
<1>3. ASSUME NEW r \in Requests, Create(r)
      PROVE  EditsAreCounted'
  <2>1. PICK p \in Replicas, q \in Request : Edit(p) /\ q.at = p /\ Goes(r, q)
    BY <1>3, CreatesRow
  <2>2. q.at \in editors' /\ editors \subseteq editors'
    BY <2>1 DEF Edit
  <2> QED
    BY <2>1, <2>2, CountMoves
<1>4. ASSUME NEW r \in Requests, Proceed(r) \/ QueryFails(r) \/ Rejects(r)
      PROVE  EditsAreCounted'
  <2>1. UNCHANGED editors
    BY <1>4 DEF Proceed, QueryFails, Rejects, Query, Again, Fill, Write, ReadBack,
                Store, Delete, Evict, Invalidate, history
  <2>2. PICK q : q = request[r]
    OBVIOUS
  <2>3. q # Idle /\ q \in Request /\ \E p : Goes(r, p) /\ (p = Idle \/ (p.key = q.key /\ p.op = q.op /\ p.at = q.at))
    BY <1>4, <2>2, ProceedKeepsKey
  <2>4. PICK p : Goes(r, p) /\ (p = Idle \/ (p.op = q.op /\ p.at = q.at))
    BY <2>3
  <2>5. q.op = "read" \/ q.at \in editors
    BY <2>2, <2>3 DEF EditsAreCounted
  <2> QED
    BY <2>1, <2>4, <2>5, CountMoves
<1>5. ASSUME NEW p \in Replicas, Restart(p) \/ \E k \in Keys : Expire(p, k)
      PROVE  EditsAreCounted'
  <2>1. UNCHANGED editors /\ \A r \in Requests : request'[r] = request[r] \/ request'[r] = Idle
    BY <1>5 DEF Restart, Expire, history
  <2> QED
    BY <2>1 DEF EditsAreCounted
<1> QED
  BY <1>1, <1>2, <1>3, <1>4, <1>5 DEF Next

\* What a replica that leads has cached is fresh but for what r will refresh.
FreshBut(r) ==
  \A p \in Replicas : Leads(p) =>
    \A t \in Tasks : Fresh(p, Key("task", t)) \/ Refreshes(r, t)

\* A step of the only request that runs.
LEMMA AloneMoves ==
  ASSUME NEW r \in Requests, EditsAreCounted',
         \A s \in Requests \ {r} : request'[s] = Idle,
         FreshBut(r)', request'[r] # Idle => HoldsCurrent(request[r])'
  PROVE  AloneInv'
<1>1. OneAtATime'
  BY DEF OneAtATime
<1>2. \A p \in Replicas : Leads(p)' => FreshAt(p)'
  BY DEF FreshBut, FreshAt
<1>3. \A s \in Requests : request'[s] # Idle => HoldsCurrent(request[s])'
  <2> TAKE s \in Requests
  <2>1. CASE s = r
    BY <2>1
  <2>2. CASE s # r
    BY <2>2
  <2> QED
    BY <2>1, <2>2
<1> QED
  BY <1>1, <1>2, <1>3 DEF AloneInv

\* While requests come one after another, every other one is idle.
LEMMA OthersIdle ==
  ASSUME TasksInv, AloneInv, Alone, NEW r \in Requests, NEW q, Goes(r, q),
         request[r] # Idle \/ (Begins(r) /\ ~ overlapped')
  PROVE  /\ \A s \in Requests \ {r} : request'[s] = Idle /\ request[s] = Idle
         /\ request'[r] = q
         /\ FreshBut(r)
         /\ request[r] # Idle => HoldsCurrent(request[r])
<1>1. request' = [request EXCEPT ![r] = q] /\ request \in [Requests -> Request \cup {Idle}]
  BY DEF Goes, TasksInv, RequestsInOrder
<1>2. \A s \in Requests \ {r} : request[s] = Idle
  BY DEF AloneInv, OneAtATime, Begins
<1>3. FreshBut(r)
  <2>1. \A s \in Requests, t \in Tasks : Refreshes(s, t) => s = r
    BY <1>2 DEF Refreshes
  <2> QED
    BY <2>1 DEF AloneInv, FreshAt, FreshBut
<1> QED
  BY <1>1, <1>2, <1>3 DEF AloneInv

\* A request that will refresh nothing leaves nothing to refresh.
LEMMA AllFresh ==
  ASSUME NEW r \in Requests, FreshBut(r), request[r] = Idle \/ ~ ToRefresh(request[r])
  PROVE  \A p \in Replicas : Leads(p) => \A t \in Tasks : Fresh(p, Key("task", t))
  BY DEF FreshBut, Refreshes

\* Where neither the row nor the entry changes, the entry stays fresh.
LEMMA FreshStays ==
  ASSUME NEW p \in Replicas, NEW t \in Tasks, tasks'[t] = tasks[t],
         cache'[p][Key("task", t)] = cache[p][Key("task", t)],
         Fresh(p, Key("task", t))
  PROVE  Fresh(p, Key("task", t))'
  BY TaskFreshness, LiveStays

\* A replica that leads after a step did so before.
LEMMA LedBefore ==
  ASSUME NEW p \in Replicas, editors \subseteq editors', Leads(p)'
  PROVE  Leads(p)
  BY DEF Leads

\* Without faults the cache does what it is told.
LEMMA SetDone ==
  ASSUME TasksInv, Alone', NEW p \in Replicas, NEW k \in Keys, NEW v \in AnyAnswer, Set(p, k, v)
  PROVE  \A o \in Replicas, x \in Keys :
           cache'[o][x] = IF o = p /\ x = k THEN v ELSE cache[o][x]
<1>1. ~ Fails
  BY DEF Fails, Alone, TasksInv, CountersAreTyped
<1>2. cache' = [cache EXCEPT ![p][k] = v]
  BY <1>1 DEF Set
<1> QED
  BY <1>2 DEF TasksInv, CacheIsTyped

\* A request that has found its task goes on with the row.
LEMMA FoundCurrent ==
  ASSUME NEW q \in Request, NEW v, q.key \in Keys, q.op # "create",
         q.op = "read" \/ q.key.kind = "task",
         Leads(q.at)' /\ q.key.kind = "task" => q.key.of \in Live /\ v = tasks[q.key.of],
         UNCHANGED tasks, NEW r \in Requests, request'[r] = Found(q, v)
  PROVE  request'[r] # Idle => HoldsCurrent(request[r])' /\ ~ ToRefresh(request'[r])
<1> SUFFICES ASSUME request'[r] # Idle
             PROVE  HoldsCurrent(request[r])' /\ ~ ToRefresh(request'[r])
  OBVIOUS
<1>1. PICK p : p = request'[r]
  OBVIOUS
<1>2. p.pc \in {"write", "delete"} /\ p.key = q.key /\ p.at = q.at /\ p.found = v
  BY <1>1, FoundKeepsKey
<1>3. Live' = Live
  BY DEF Live
<1>4. HoldsCurrent(request[r])'
  BY <1>1, <1>2, <1>3 DEF HoldsCurrent, Leads
<1> QED
  BY <1>1, <1>2, <1>4 DEF ToRefresh

\* findAll, findOne, update, remove and the dashboard begin with the cache.
LEMMA AloneRead ==
  ASSUME TasksInv, AloneInv, Alone, Alone', EditsAreCounted', NEW r \in Requests,
         Read(r) \/ Update(r) \/ Remove(r)
  PROVE  AloneInv'
<1>1. Begins(r) /\ UNCHANGED <<tasks, cache>>
  BY DEF Read, Update, Remove
<1>2. PICK q \in Request :
         /\ Get(r, q) /\ q.pc = "query" /\ q.key \in Keys /\ q.at \in Replicas
         /\ \/ q.op = "read" /\ UNCHANGED editors
            \/ q.op \in {"update", "remove"} /\ Edit(q.at) /\ q.key.kind = "task"
  BY ReadersAsk
<1>3. editors \subseteq editors' /\ q.op # "create"
  BY <1>2 DEF Edit
<1>4. PICK v : v = cache[q.at][q.key]
  OBVIOUS
<1>5. PICK p : Goes(r, p) /\ (p = q \/ (v # Absent /\ p = Found(q, v)))
  BY <1>2, <1>3, <1>4, GetGoes
<1>6. /\ \A s \in Requests \ {r} : request'[s] = Idle /\ request[s] = Idle
      /\ request'[r] = p /\ FreshBut(r)
  BY <1>1, <1>5, OthersIdle DEF Alone
<1>7. \A o \in Replicas : Leads(o)' => \A t \in Tasks : Fresh(o, Key("task", t))
  BY <1>1, <1>3, <1>6, AllFresh, LedBefore DEF Begins
<1>8. FreshBut(r)'
  BY <1>1, <1>7, FreshStays DEF FreshBut
<1>9. request'[r] # Idle => HoldsCurrent(request[r])'
  <2>1. CASE p = q
    BY <1>2, <1>6, <2>1 DEF HoldsCurrent
  <2>2. CASE v # Absent /\ p = Found(q, v)
    <3>1. ASSUME Leads(q.at)', q.key.kind = "task"
          PROVE  q.key.of \in Live /\ v = tasks[q.key.of]
      <4>1. q.key.of \in Tasks /\ q.key = Key("task", q.key.of)
        BY <1>2, <3>1, KindsOfKeys
      <4>2. Fresh(q.at, Key("task", q.key.of))
        BY <1>2, <1>7, <3>1, <4>1
      <4> QED
        BY <1>2, <1>4, <2>2, <4>1, <4>2, TaskFreshness
    <3> QED
      BY <1>1, <1>2, <1>3, <1>6, <2>2, <3>1, FoundCurrent
  <2> QED
    BY <1>5, <2>1, <2>2
<1> QED
  BY <1>6, <1>8, <1>9, AloneMoves

\* The database answers a miss, or answers it again with nothing.
LEMMA AloneQuery ==
  ASSUME TasksInv, AloneInv, Alone, Alone', EditsAreCounted', NEW r \in Requests,
         Query(r) \/ Again(r)
  PROVE  AloneInv'
<1>1. PICK q : q = request[r]
  OBVIOUS
<1>2. /\ q.pc \in {"query", "again"} /\ q \in Request /\ InOrder(q, held) /\ q.key \in Keys
      /\ q # Idle
  BY <1>1, BusyInOrder DEF Query, Again, Stages, Idle
<1>3. /\ UNCHANGED <<tasks, cache, editors>>
      /\ q.key.kind = "task" => (Missing(q.key) <=> q.key.of \notin Live)
      /\ q.key.kind = "task" => View(q.key) = tasks[q.key.of]
  BY DEF Query, Again, history, Missing, View
<1>4. /\ \A s \in Requests \ {r} : request'[s] = Idle /\ request[s] = Idle
      /\ FreshBut(r) /\ HoldsCurrent(q)
  <2>1. \E p : Goes(r, p)
    BY <1>2, <1>1, ProceedKeepsKey DEF Proceed
  <2> QED
    BY <1>1, <1>2, <2>1, OthersIdle
<1>5. FreshBut(r)'
  <2>1. \A o \in Replicas : Leads(o) => \A t \in Tasks : Fresh(o, Key("task", t))
    BY <1>1, <1>2, <1>4, AllFresh DEF ToRefresh
  <2> QED
    BY <1>3, <2>1, FreshStays, LedBefore DEF FreshBut
<1>6. Live' = Live
  BY <1>3 DEF Live
<1>7. request'[r] # Idle => HoldsCurrent(request[r])'
  <2>1. CASE Query(r)
    <3> DEFINE again == [q EXCEPT !.pc = "again"]
               fill == [q EXCEPT !.pc = "fill", !.found = View(q.key)]
    <3>1. again.pc = "again" /\ again.key = q.key
          /\ fill.pc = "fill" /\ fill.key = q.key /\ fill.found = View(q.key)
      BY <1>2 DEF Request
    <3>2. (Missing(q.key) /\ Goes(r, again)) \/ (~ Missing(q.key) /\ Goes(r, fill))
      BY <1>1, <2>1 DEF Query
    <3> HIDE DEF again, fill
    <3>3. (Missing(q.key) /\ request'[r] = again) \/ (~ Missing(q.key) /\ request'[r] = fill)
      BY <1>1, <1>2, <3>2, OthersIdle
    <3> QED
      BY <1>2, <1>3, <1>6, <3>1, <3>3 DEF HoldsCurrent
  <2>2. CASE Again(r)
    <3>1. q.pc = "again"
      BY <1>1, <2>2 DEF Again
    <3>2. q.key.kind = "task" => Missing(q.key)
      BY <1>3, <1>4, <3>1 DEF HoldsCurrent
    <3>3. q.key.kind # "task" => q.op = "read"
      BY <1>2 DEF InOrder
    <3>4. Goes(r, Idle)
      BY <1>1, <2>2, <3>2, <3>3 DEF Again, Found
    <3>5. request'[r] = Idle
      BY <1>1, <1>2, <3>4, OthersIdle
    <3> QED
      BY <3>5
  <2> QED
    BY <2>1, <2>2
<1> QED
  BY <1>4, <1>5, <1>7, AloneMoves

\* A request writes its key: what it did not have to refresh stays fresh, and
\* what it had to is so at the only replica that may lead.
LEMMA FreshAfterSet ==
  ASSUME TasksInv, Alone', NEW r \in Requests, NEW q, q = request[r], FreshBut(r),
         q.at \in Replicas, q.key \in Keys, NEW v \in AnyAnswer, Set(q.at, q.key, v),
         UNCHANGED <<tasks, editors>>, ToRefresh(q) => q.at \in editors,
         v = Absent \/ (q.key.kind = "task" => q.key.of \in Live /\ v = tasks[q.key.of])
  PROVE  FreshBut(r)'
<1> SUFFICES ASSUME NEW p \in Replicas, Leads(p)', NEW t \in Tasks
             PROVE  Fresh(p, Key("task", t))'
  BY DEF FreshBut
<1>1. /\ \A o \in Replicas, x \in Keys :
           cache'[o][x] = IF o = q.at /\ x = q.key THEN v ELSE cache[o][x]
      /\ Leads(p) /\ Key("task", t) \in Keys
  BY SetDone, LedBefore, TaskKeys
<1>2. CASE p = q.at /\ q.key = Key("task", t)
  <2>1. q.key.kind = "task" /\ q.key.of = t
    BY <1>2, TaskKeys
  <2>2. cache'[p][Key("task", t)] = v
    BY <1>1, <1>2
  <2>3. tasks'[t] = tasks[t] /\ (t \in Live' <=> t \in Live)
    BY LiveStays
  <2> QED
    BY <2>1, <2>2, <2>3, TaskFreshness
<1>3. CASE ~ (p = q.at /\ q.key = Key("task", t))
  <2>1. cache'[p][Key("task", t)] = cache[p][Key("task", t)]
    BY <1>1, <1>3
  <2>2. ~ Refreshes(r, t)
    BY <1>1, <1>3 DEF Refreshes, Leads
  <2>3. Fresh(p, Key("task", t))
    BY <1>1, <2>2 DEF FreshBut
  <2> QED
    BY <2>1, <2>3, FreshStays
<1> QED
  BY <1>2, <1>3

\* What a busy request starts a step from.
LEMMA BusyAlone ==
  ASSUME TasksInv, AloneInv, Alone, NEW r \in Requests, NEW q, q = request[r],
         q.pc \in Stages, Proceed(r)
  PROVE  /\ q \in Request /\ InOrder(q, held) /\ q.key \in Keys /\ q.at \in Replicas /\ q # Idle
         /\ \A s \in Requests \ {r} : request'[s] = Idle
         /\ FreshBut(r) /\ HoldsCurrent(q)
         /\ q.op # "read" => q.at \in editors
         /\ ToRefresh(q) => q.at \in editors
         /\ \A p : Goes(r, p) => request'[r] = p
<1>1. q \in Request /\ InOrder(q, held) /\ q.key \in Keys /\ q.at \in Replicas /\ q # Idle
  BY ProceedKeepsKey
<1>2. /\ \A s \in Requests \ {r} : request'[s] = Idle
      /\ FreshBut(r) /\ HoldsCurrent(q)
  <2>1. \E p : Goes(r, p)
    BY ProceedKeepsKey
  <2> QED
    BY <1>1, <2>1, OthersIdle
<1>3. q.op # "read" => q.at \in editors
  BY <1>1 DEF AloneInv, EditsAreCounted
<1>4. ToRefresh(q) => q.op # "read"
  BY <1>1 DEF ToRefresh, InOrder
<1>5. \A p : Goes(r, p) => request'[r] = p
  BY <1>1, OthersIdle
<1> QED
  BY <1>1, <1>2, <1>3, <1>4, <1>5

\* wrap stores the answer.
LEMMA AloneFill ==
  ASSUME TasksInv, AloneInv, Alone, Alone', EditsAreCounted', NEW r \in Requests, Fill(r)
  PROVE  AloneInv'
<1>1. PICK q : q = request[r]
  OBVIOUS
<1>2. /\ q.pc = "fill" /\ Set(q.at, q.key, q.found) /\ Goes(r, Found(q, q.found))
      /\ UNCHANGED <<tasks, editors>>
  BY <1>1 DEF Fill, history
<1>3. /\ q \in Request /\ InOrder(q, held) /\ q.key \in Keys /\ q.at \in Replicas /\ q # Idle
      /\ \A s \in Requests \ {r} : request'[s] = Idle
      /\ FreshBut(r) /\ HoldsCurrent(q) /\ (ToRefresh(q) => q.at \in editors)
      /\ request'[r] = Found(q, q.found)
  BY <1>1, <1>2, BusyAlone DEF Proceed, Stages
<1>4. q.op # "create" /\ (q.op = "read" \/ q.key.kind = "task") /\ q.found \in AnyAnswer
  BY <1>2, <1>3 DEF InOrder, Request
<1>5. q.key.kind = "task" => q.key.of \in Live /\ q.found = tasks[q.key.of]
  BY <1>2, <1>3 DEF HoldsCurrent
<1>6. FreshBut(r)'
  BY <1>1, <1>2, <1>3, <1>4, <1>5, FreshAfterSet
<1>7. request'[r] # Idle => HoldsCurrent(request[r])'
  BY <1>2, <1>3, <1>4, <1>5, FoundCurrent
<1> QED
  BY <1>3, <1>6, <1>7, AloneMoves

\* The task is cached where it was edited.
LEMMA AloneStore ==
  ASSUME TasksInv, AloneInv, Alone, Alone', EditsAreCounted', NEW r \in Requests, Store(r)
  PROVE  AloneInv'
<1>1. PICK q : q = request[r]
  OBVIOUS
<1> DEFINE p == [q EXCEPT !.pc = "invalidate"]
<1>2. /\ q.pc = "store" /\ Set(q.at, q.key, q.found) /\ (Goes(r, Idle) \/ Goes(r, p))
      /\ UNCHANGED <<tasks, editors>>
  BY <1>1 DEF Store, history
<1>3. /\ q \in Request /\ InOrder(q, held) /\ q.key \in Keys /\ q.at \in Replicas /\ q # Idle
      /\ \A s \in Requests \ {r} : request'[s] = Idle
      /\ FreshBut(r) /\ HoldsCurrent(q) /\ (ToRefresh(q) => q.at \in editors)
      /\ \A x : Goes(r, x) => request'[r] = x
  BY <1>1, <1>2, BusyAlone DEF Proceed, Stages
<1>4. q.found \in AnyAnswer
  BY <1>3 DEF Request
<1>5. q.key.kind = "task" => q.key.of \in Live /\ q.found = tasks[q.key.of]
  BY <1>2, <1>3 DEF HoldsCurrent
<1>6. FreshBut(r)'
  BY <1>1, <1>2, <1>3, <1>4, <1>5, FreshAfterSet
<1>7. p.pc = "invalidate" /\ p.key = q.key /\ p.found = q.found
  BY <1>3 DEF Request
<1>8. Live' = Live /\ tasks' = tasks
  BY <1>2 DEF Live
<1>9. request'[r] # Idle => HoldsCurrent(request[r])'
  <2> HIDE DEF p
  <2>1. request'[r] # Idle => request'[r] = p
    BY <1>2, <1>3
  <2> QED
    BY <1>5, <1>7, <1>8, <2>1 DEF HoldsCurrent
<1> QED
  BY <1>3, <1>6, <1>9, AloneMoves

\* The entry of the removed task is deleted where it was removed.
LEMMA AloneEvict ==
  ASSUME TasksInv, AloneInv, Alone, Alone', EditsAreCounted', NEW r \in Requests, Evict(r)
  PROVE  AloneInv'
<1>1. PICK q : q = request[r]
  OBVIOUS
<1> DEFINE p == [q EXCEPT !.pc = "invalidate"]
<1>2. /\ q.pc = "evict" /\ Set(q.at, q.key, Absent) /\ Goes(r, p)
      /\ UNCHANGED <<tasks, editors>>
  BY <1>1 DEF Evict, Del, history
<1>3. /\ q \in Request /\ InOrder(q, held) /\ q.key \in Keys /\ q.at \in Replicas /\ q # Idle
      /\ \A s \in Requests \ {r} : request'[s] = Idle
      /\ FreshBut(r) /\ (ToRefresh(q) => q.at \in editors)
      /\ request'[r] = p
  BY <1>1, <1>2, BusyAlone DEF Proceed, Stages
<1>4. FreshBut(r)'
  BY <1>1, <1>2, <1>3, AbsentIsAnswer, FreshAfterSet
<1>5. p.pc = "invalidate" /\ p.op = "remove"
  BY <1>2, <1>3 DEF Request, InOrder
<1>6. HoldsCurrent(request[r])'
  <2> HIDE DEF p
  <2> QED
    BY <1>3, <1>5 DEF HoldsCurrent
<1> QED
  BY <1>3, <1>4, <1>6, AloneMoves

\* The pattern finds nothing to delete.
LEMMA AloneInvalidate ==
  ASSUME TasksInv, AloneInv, Alone, Alone', EditsAreCounted', NEW r \in Requests, Invalidate(r)
  PROVE  AloneInv'
<1>1. PICK q : q = request[r]
  OBVIOUS
<1> DEFINE p == [q EXCEPT !.pc = "store"]
<1>2. /\ q.pc = "invalidate" /\ (Goes(r, Idle) \/ (q.op = "create" /\ Goes(r, p)))
      /\ UNCHANGED <<tasks, cache, editors>>
  BY <1>1 DEF Invalidate, history
<1>3. /\ q \in Request /\ q # Idle
      /\ \A s \in Requests \ {r} : request'[s] = Idle
      /\ FreshBut(r) /\ HoldsCurrent(q)
      /\ \A x : Goes(r, x) => request'[r] = x
  BY <1>1, <1>2, BusyAlone DEF Proceed, Stages
<1>4. FreshBut(r)'
  <2>1. \A o \in Replicas : Leads(o) => \A t \in Tasks : Fresh(o, Key("task", t))
    BY <1>1, <1>2, <1>3, AllFresh DEF ToRefresh
  <2> QED
    BY <1>2, <2>1, FreshStays, LedBefore DEF FreshBut
<1>5. p.pc = "store" /\ p.key = q.key /\ p.found = q.found
  BY <1>3 DEF Request
<1>6. Live' = Live /\ tasks' = tasks
  BY <1>2 DEF Live
<1>7. request'[r] # Idle => HoldsCurrent(request[r])'
  <2> HIDE DEF p
  <2>1. request'[r] # Idle => request'[r] = p /\ q.op = "create"
    BY <1>2, <1>3
  <2> QED
    BY <1>2, <1>3, <1>5, <1>6, <2>1 DEF HoldsCurrent
<1> QED
  BY <1>3, <1>4, <1>7, AloneMoves

\* The row of one task changes; the entries of the others stay fresh.
LEMMA OneRowMoves ==
  ASSUME TasksInv, NEW t \in Tasks, NEW row, Record(t, row), UNCHANGED cache,
         NEW p \in Replicas, NEW x \in Tasks \ {t}, Fresh(p, Key("task", x))
  PROVE  Fresh(p, Key("task", x))'
<1>1. tasks'[x] = tasks[x]
  BY DEF Record, TasksInv, TableIsTyped
<1> QED
  BY <1>1, FreshStays

\* save commits a row that no cache has an entry of.
LEMMA AloneCreate ==
  ASSUME TasksInv, AloneInv, Alone, Alone', EditsAreCounted', NEW r \in Requests, Create(r)
  PROVE  AloneInv'
<1>1. PICK e \in Replicas, t \in Tasks, row \in Task, q \in Request :
        /\ ~ row.deleted /\ tasks[t] = NoTask /\ Record(t, row) /\ Goes(r, q) /\ Edit(e)
        /\ q.pc = "invalidate" /\ q.at = e /\ q.op = "create" /\ q.key = Key("task", t)
        /\ q.found = row
  BY CreatesRow
<1>2. Begins(r) /\ UNCHANGED cache /\ editors \subseteq editors'
  BY <1>1 DEF Create, Edit
<1>3. /\ \A s \in Requests \ {r} : request'[s] = Idle
      /\ request'[r] = q /\ FreshBut(r)
  BY <1>1, <1>2, OthersIdle DEF Alone
<1>4. \A o \in Replicas : Leads(o)' => \A x \in Tasks : Fresh(o, Key("task", x))
  BY <1>2, <1>3, AllFresh, LedBefore DEF Begins
<1>5. tasks'[t] = row /\ t \in Live'
  <2>1. tasks'[t] = row
    BY <1>1 DEF Record, TasksInv, TableIsTyped
  <2> QED
    BY <1>1, <2>1, NoTaskIsNoRow DEF Live
<1>6. FreshBut(r)'
  <2> SUFFICES ASSUME NEW o \in Replicas, Leads(o)', NEW x \in Tasks
               PROVE  Fresh(o, Key("task", x))'
    BY DEF FreshBut
  <2>1. CASE x = t
    <3>1. t \notin Live
      BY <1>1 DEF Live
    <3>2. cache[o][Key("task", t)] = Absent
      BY <1>4, <3>1, TaskFreshness
    <3> QED
      BY <1>2, <2>1, <3>2, TaskFreshness
  <2>2. CASE x # t
    BY <1>1, <1>2, <1>4, <2>2, OneRowMoves
  <2> QED
    BY <2>1, <2>2
<1>7. HoldsCurrent(request[r])'
  BY <1>1, <1>3, <1>5, TaskKeys DEF HoldsCurrent
<1> QED
  BY <1>3, <1>6, <1>7, AloneMoves

\* After UPDATE or softDelete the request's own entry is to be refreshed.
LEMMA FreshAfterRecord ==
  ASSUME TasksInv, NEW r \in Requests, NEW q, q = request[r], NEW t \in Tasks,
         q.key = Key("task", t), ~ ToRefresh(q), FreshBut(r),
         NEW row, Record(t, row), UNCHANGED <<cache, editors>>,
         request'[r] # Idle, request'[r].key = q.key, ToRefresh(request'[r])
  PROVE  FreshBut(r)'
<1> SUFFICES ASSUME NEW p \in Replicas, Leads(p)', NEW x \in Tasks, x # t
             PROVE  Fresh(p, Key("task", x))'
  BY DEF FreshBut, Refreshes, ToRefresh
<1>1. Fresh(p, Key("task", x))
  BY AllFresh, LedBefore
<1> QED
  BY <1>1, OneRowMoves

\* UPDATE commits.
LEMMA AloneWrite ==
  ASSUME TasksInv, AloneInv, Alone, Alone', EditsAreCounted', NEW r \in Requests, Write(r)
  PROVE  AloneInv'
<1>1. PICK q : q = request[r]
  OBVIOUS
<1>2. PICK t : t = q.key.of
  OBVIOUS
<1>3. PICK row : row = [f \in DOMAIN tasks[t] |->
                          IF f \in DOMAIN q.change THEN q.change[f] ELSE tasks[t][f]]
  OBVIOUS
<1> DEFINE p == [q EXCEPT !.pc = "readBack"]
<1>4. q.pc = "write" /\ Record(t, row) /\ Goes(r, p) /\ UNCHANGED <<cache, editors>>
  BY <1>1, <1>2, <1>3 DEF Write
<1>5. /\ q \in Request /\ InOrder(q, held) /\ q.key \in Keys /\ q # Idle
      /\ \A s \in Requests \ {r} : request'[s] = Idle
      /\ FreshBut(r) /\ HoldsCurrent(q)
      /\ request'[r] = p
  BY <1>1, <1>4, BusyAlone DEF Proceed, Stages
<1>6. q.op = "update" /\ q.change \in Changes
  BY <1>4, <1>5 DEF InOrder
<1>7. q.key.kind = "task" /\ t \in Tasks /\ tasks[t] \in Task /\ q.key = Key("task", t)
  BY <1>1, <1>2, <1>4, <1>5, <1>6, TaskIsStored, KindsOfKeys DEF Stages
<1>8. row \in Task /\ row = AfterUpdate(tasks[t], q.change)
  BY <1>3, <1>6, <1>7, UpdatedRow
<1>9. /\ p.pc = "readBack" /\ p.op = "update" /\ p.key = q.key /\ p.found = q.found
      /\ p.change = q.change /\ p.at = q.at
  BY <1>5, <1>6 DEF Request
<1> HIDE DEF p
<1>10. p # Idle
  BY <1>9 DEF Idle
<1>11. FreshBut(r)'
  BY <1>1, <1>4, <1>5, <1>7, <1>9, <1>10, FreshAfterRecord DEF ToRefresh
<1>12. HoldsCurrent(request[r])'
  <2> SUFFICES ASSUME Leads(p.at)'
               PROVE  t \in Live' /\ tasks'[t] = AfterUpdate(p.found, p.change)
    BY <1>2, <1>5, <1>9 DEF HoldsCurrent
  <2>1. t \in Live /\ q.found = tasks[t]
    BY <1>2, <1>4, <1>5, <1>7, <1>9 DEF HoldsCurrent, Leads
  <2>2. tasks'[t] = row
    BY <1>4, <1>7 DEF Record, TasksInv, TableIsTyped
  <2>3. ~ row.deleted /\ row # NoTask
    BY <1>7, <1>8, <2>1, NoTaskIsNoRow DEF AfterUpdate, Task, Live
  <2>4. t \in Live'
    BY <1>7, <2>2, <2>3 DEF Live
  <2> QED
    BY <1>8, <1>9, <2>1, <2>2, <2>4
<1> QED
  BY <1>5, <1>11, <1>12, AloneMoves

\* softDelete commits.
LEMMA AloneDelete ==
  ASSUME TasksInv, AloneInv, Alone, Alone', EditsAreCounted', NEW r \in Requests, Delete(r)
  PROVE  AloneInv'
<1>1. PICK q : q = request[r]
  OBVIOUS
<1>2. PICK t : t = q.key.of
  OBVIOUS
<1>3. PICK row : row = [tasks[t] EXCEPT !.deleted = TRUE]
  OBVIOUS
<1> DEFINE p == [q EXCEPT !.pc = "evict"]
<1>4. q.pc = "delete" /\ Record(t, row) /\ Goes(r, p) /\ UNCHANGED <<cache, editors>>
  BY <1>1, <1>2, <1>3 DEF Delete
<1>5. /\ q \in Request /\ InOrder(q, held) /\ q.key \in Keys /\ q # Idle
      /\ \A s \in Requests \ {r} : request'[s] = Idle
      /\ FreshBut(r) /\ request'[r] = p
  BY <1>1, <1>4, BusyAlone DEF Proceed, Stages
<1>6. q.op = "remove"
  BY <1>4, <1>5 DEF InOrder
<1>7. t \in Tasks /\ q.key = Key("task", t)
  BY <1>1, <1>2, <1>4, <1>5, <1>6, TaskIsStored, KindsOfKeys DEF Stages
<1>8. p.pc = "evict" /\ p.op = "remove" /\ p.key = q.key
  BY <1>5, <1>6 DEF Request
<1> HIDE DEF p
<1>9. p # Idle
  BY <1>8 DEF Idle
<1>10. FreshBut(r)'
  BY <1>1, <1>4, <1>5, <1>7, <1>8, <1>9, FreshAfterRecord DEF ToRefresh
<1>11. HoldsCurrent(request[r])'
  BY <1>5, <1>8 DEF HoldsCurrent
<1> QED
  BY <1>5, <1>10, <1>11, AloneMoves

\* findById finds the row that was written.
LEMMA AloneReadBack ==
  ASSUME TasksInv, AloneInv, Alone, Alone', EditsAreCounted', NEW r \in Requests, ReadBack(r)
  PROVE  AloneInv'
<1>1. PICK q : q = request[r]
  OBVIOUS
<1>2. PICK t : t = q.key.of
  OBVIOUS
<1> DEFINE p == [q EXCEPT !.pc = "store", !.found = tasks[t]]
<1>3. (t \in Live /\ Goes(r, p)) \/ (t \notin Live /\ Goes(r, Idle))
  BY <1>1, <1>2 DEF ReadBack, Updated
<1>4. q.pc = "readBack" /\ UNCHANGED <<tasks, cache, editors>>
  BY <1>1 DEF ReadBack, history
<1>5. /\ q \in Request /\ InOrder(q, held) /\ q.key \in Keys /\ q # Idle
      /\ \A s \in Requests \ {r} : request'[s] = Idle
      /\ FreshBut(r) /\ HoldsCurrent(q) /\ (ToRefresh(q) => q.at \in editors)
      /\ \A x : Goes(r, x) => request'[r] = x
  BY <1>1, <1>4, BusyAlone DEF Proceed, Stages
<1>6. q.op = "update"
  BY <1>4, <1>5 DEF InOrder
<1>7. q.key.kind = "task" /\ t \in Tasks /\ q.key = Key("task", t)
  BY <1>1, <1>2, <1>4, <1>5, <1>6, TaskIsStored, KindsOfKeys DEF Stages
<1>8. p.pc = "store" /\ p.op = "update" /\ p.key = q.key /\ p.found = tasks[t]
  BY <1>5, <1>6 DEF Request
<1> HIDE DEF p
<1>9. (t \in Live /\ request'[r] = p) \/ (t \notin Live /\ request'[r] = Idle)
  BY <1>3, <1>5
<1>10. p # Idle
  BY <1>8 DEF Idle
<1>11. FreshBut(r)'
  <2> SUFFICES ASSUME NEW o \in Replicas, Leads(o)', NEW x \in Tasks
               PROVE  Fresh(o, Key("task", x))' \/ Refreshes(r, x)'
    BY DEF FreshBut
  <2>1. Leads(o)
    BY <1>4, LedBefore
  <2>2. CASE x # t
    <3>1. Key("task", x) # q.key
      BY <1>7, <2>2, TaskKeys
    <3>2. Fresh(o, Key("task", x))
      BY <1>1, <1>5, <2>1, <3>1 DEF FreshBut, Refreshes
    <3> QED
      BY <1>4, <3>2, FreshStays
  <2>3. CASE x = t
    <3>1. q.at = o
      BY <1>4, <1>5, <1>6, <2>1 DEF ToRefresh, Leads
    <3>2. t \in Live
      BY <1>2, <1>4, <1>5, <1>7, <2>1, <3>1 DEF HoldsCurrent
    <3> QED
      BY <1>7, <1>8, <1>9, <1>10, <2>3, <3>2 DEF Refreshes, ToRefresh
  <2> QED
    BY <2>2, <2>3
<1>12. Live' = Live
  BY <1>4 DEF Live
<1>13. request'[r] # Idle => HoldsCurrent(request[r])'
  BY <1>2, <1>4, <1>8, <1>9, <1>12 DEF HoldsCurrent
<1> QED
  BY <1>5, <1>11, <1>13, AloneMoves

\* An entry that expires is fresh.
LEMMA AloneExpire ==
  ASSUME TasksInv, AloneInv, Alone, EditsAreCounted', NEW p \in Replicas, NEW k \in Keys,
         Expire(p, k)
  PROVE  AloneInv'
<1>1. UNCHANGED <<tasks, request, editors>> /\ cache' = [cache EXCEPT ![p][k] = Absent]
  BY DEF Expire, history
<1>2. OneAtATime'
  BY <1>1 DEF AloneInv, OneAtATime
<1>3. Live' = Live
  BY <1>1 DEF Live
<1>4. \A r \in Requests : request'[r] # Idle => HoldsCurrent(request[r])'
  BY <1>1, <1>3 DEF AloneInv, HoldsCurrent, Leads
<1>5. ASSUME NEW o \in Replicas, Leads(o)' PROVE FreshAt(o)'
  <2>1. FreshAt(o)
    BY <1>1, <1>5 DEF AloneInv, Leads
  <2>2. \A t \in Tasks : \/ cache'[o][Key("task", t)] = Absent
                         \/ cache'[o][Key("task", t)] = cache[o][Key("task", t)]
    BY <1>1, TaskKeys DEF TasksInv, CacheIsTyped
  <2>3. \A t \in Tasks : Fresh(o, Key("task", t)) => Fresh(o, Key("task", t))'
    BY <1>1, <2>2, TaskFreshness, FreshStays
  <2> QED
    BY <1>1, <2>1, <2>3 DEF FreshAt, Refreshes
<1> QED
  BY <1>2, <1>4, <1>5 DEF AloneInv

\* What was once overlapped or faulty stays so.
LEMMA WasAlone ==
  ASSUME TasksInv, [Next]_vars, Alone'
  PROVE  Alone /\ ~ Fails
<1>1. UNCHANGED vars \/ (\E r \in Requests :
               \/ Read(r) \/ Create(r) \/ Update(r) \/ Remove(r)
               \/ Proceed(r) \/ QueryFails(r) \/ Rejects(r))
      \/ (\E p \in Replicas : Restart(p) \/ \E k \in Keys : Expire(p, k))
  BY DEF Next
<1>2. ASSUME NEW r \in Requests,
             \/ Read(r) \/ Create(r) \/ Update(r) \/ Remove(r)
             \/ Proceed(r) \/ QueryFails(r) \/ Rejects(r)
      PROVE  (faults' = faults \/ Fails) /\ (overlapped => overlapped')
  <2>1. overlapped => overlapped'
    BY <1>2 DEF Read, Create, Update, Remove, Begins, Proceed, QueryFails, Rejects, Query, Again,
           Fill, Write, ReadBack, Store, Delete, Evict, Invalidate, history
  <2>2. faults' = faults \/ Fails
    BY <1>2 DEF Read, Create, Update, Remove, Get, Set, Del, Proceed, QueryFails, Rejects,
           Query, Again, Fill, Write, ReadBack, Store, Delete, Evict, Invalidate
  <2> QED
    BY <2>1, <2>2
<1>3. ASSUME NEW p \in Replicas, Restart(p) \/ \E k \in Keys : Expire(p, k)
      PROVE  (faults' = faults \/ Fails) /\ (overlapped => overlapped')
  BY <1>3 DEF Restart, Expire, history
<1>4. (faults' = faults \/ Fails) /\ (overlapped => overlapped')
  BY <1>1, <1>2, <1>3 DEF vars, history
<1> QED
  BY <1>4 DEF Alone, Fails, TasksInv, CountersAreTyped

\* Every step keeps what holds of lone requests.
LEMMA AloneStep ==
  ASSUME TasksInv, AloneInv, [Next]_vars
  PROVE  AloneInv'
<1>1. EditsAreCounted'
  BY EditsCounted DEF AloneInv
<1> SUFFICES ASSUME Alone' PROVE AloneInv'
  BY <1>1 DEF AloneInv
<1>2. Alone /\ ~ Fails
  BY WasAlone
<1>3. CASE UNCHANGED vars
  <2>1. UNCHANGED <<tasks, cache, request, editors>>
    BY <1>3 DEF vars, history
  <2>2. \A p \in Replicas : FreshAt(p) => FreshAt(p)'
    BY <2>1, FreshStays DEF FreshAt, Refreshes
  <2>3. OneAtATime' /\ Live' = Live
    BY <1>2, <2>1 DEF AloneInv, OneAtATime, Live
  <2>4. \A r \in Requests : request'[r] # Idle => HoldsCurrent(request[r])'
    BY <1>2, <2>1, <2>3 DEF AloneInv, HoldsCurrent, Leads
  <2> QED
    BY <1>1, <1>2, <2>1, <2>2, <2>3, <2>4 DEF AloneInv, Leads
<1>4. ASSUME NEW r \in Requests,
             \/ Read(r) \/ Create(r) \/ Update(r) \/ Remove(r)
             \/ Proceed(r) \/ QueryFails(r) \/ Rejects(r)
      PROVE  AloneInv'
  <2>1. ~ QueryFails(r) /\ ~ Rejects(r)
    BY <1>2 DEF QueryFails, Rejects
  <2>2. CASE Read(r) \/ Update(r) \/ Remove(r)
    BY <1>1, <1>2, <2>2, AloneRead
  <2>3. CASE Create(r)
    BY <1>1, <1>2, <2>3, AloneCreate
  <2>4. CASE Query(r) \/ Again(r) \/ Fill(r)
    BY <1>1, <1>2, <2>4, AloneQuery, AloneFill
  <2>5. CASE Write(r) \/ ReadBack(r) \/ Delete(r)
    BY <1>1, <1>2, <2>5, AloneWrite, AloneReadBack, AloneDelete
  <2>6. CASE Store(r) \/ Evict(r) \/ Invalidate(r)
    BY <1>1, <1>2, <2>6, AloneStore, AloneEvict, AloneInvalidate
  <2> QED
    BY <1>4, <2>1, <2>2, <2>3, <2>4, <2>5, <2>6 DEF Proceed
<1>5. ASSUME NEW p \in Replicas, Restart(p) \/ \E k \in Keys : Expire(p, k)
      PROVE  AloneInv'
  <2>1. ~ Restart(p)
    BY <1>2 DEF Restart
  <2> QED
    BY <1>1, <1>2, <1>5, <2>1, AloneExpire
<1> QED
  BY <1>3, <1>4, <1>5 DEF Next

\* At first nothing runs and nothing is cached.
LEMMA AloneAtFirst == Init => AloneInv
  BY TaskKeys DEF Init, AloneInv, EditsAreCounted, OneAtATime, FreshAt, Fresh

\* While requests come one after another and nothing fails, those that have all
\* edits hold and cache the current rows.
LEMMA AloneInvariant == Spec => [](TasksInv /\ AloneInv)
<1>1. Init => TasksInv /\ AloneInv
  BY TasksAtFirst, AloneAtFirst
<1>2. TasksInv /\ AloneInv /\ [Next]_vars => (TasksInv /\ AloneInv)'
  BY TasksStep, AloneStep
<1> QED
  BY <1>1, <1>2, PTL DEF Spec

\* When requests come one after another and nothing fails, a replica that
\* serves all edits has cached of each task its row, and nothing of one that is
\* gone.
THEOREM TasksAreFresh == Spec => []OrderlyTaskIsFresh
<1>1. AloneInv => OrderlyTaskIsFresh
  BY DEF AloneInv, OrderlyTaskIsFresh, Orderly, Quiet, Alone, Leads, FreshAt, Refreshes
<1> QED
  BY <1>1, AloneInvariant, PTL
-----------------------------------------------------------------------------
(* Trails.                                                                 *)

\* What one more record tells: its own fields, and of the others what the trail
\* told before.
LEMMA OneMoreRecord ==
  ASSUME NEW records \in Seq(Entries), NEW e \in Entries, NEW more,
         more = <<>> \/ more = <<e>>, NEW f, HasLast(records, f), NEW first
  PROVE  /\ records \o more \in Seq(Entries)
         /\ HasLast(records \o more, f)
         /\ LastTold(records \o more, f, first) =
              IF more = <<e>> /\ f \in DOMAIN e THEN e[f] ELSE LastTold(records, f, first)
<1>1. CASE more = <<>>
  <2>1. records \o more = records /\ <<e>> # <<>>
    BY <1>1, ConcatEmptySeq
  <2> QED
    BY <1>1, <2>1
<1>2. CASE more = <<e>>
  <2> DEFINE all == records \o <<e>>
             n == Len(records)
             T == Tellings(records, f)
  <2>1. <<e>> \in Seq(Entries) /\ Len(<<e>>) = 1 /\ <<e>>[1] = e
    OBVIOUS
  <2>2. /\ all \in Seq(Entries) /\ n \in Nat /\ Len(all) = n + 1
        /\ \A i \in 1..n : all[i] = records[i]
        /\ all[n + 1] = e
    <3>1. /\ all \in Seq(Entries) /\ Len(all) = n + 1 /\ n \in Nat
          /\ \A i \in 1..(n + 1) : all[i] = IF i <= n THEN records[i] ELSE <<e>>[i - n]
      BY <2>1, ConcatProperties
    <3>2. all[n + 1] = e
      <4>1. n + 1 \in 1..(n + 1) /\ ~ (n + 1 <= n) /\ (n + 1) - n = 1
        BY <3>1
      <4> QED
        BY <2>1, <3>1, <4>1
    <3> HIDE DEF all
    <3> QED
      BY <3>1, <3>2
  <2>3. DOMAIN records = 1..n /\ DOMAIN all = 1..(n + 1)
    <3> HIDE DEF all
    <3> QED
      BY <2>2
  <2>4. T \subseteq 1..n
    BY <2>3 DEF Tellings
  <2>5. Tellings(all, f) = IF f \in DOMAIN e THEN T \cup {n + 1} ELSE T
    <3> HIDE DEF all, n
    <3>1. DOMAIN all = 1..n \cup {n + 1}
      BY <2>2, <2>3
    <3>2. n + 1 \notin 1..n
      BY <2>2
    <3> QED
      BY <2>2, <2>3, <3>1, <3>2 DEF Tellings
  <2> HIDE DEF all, n, T
  <2>6. CASE f \in DOMAIN e
    <3>0. Tellings(all, f) = T \cup {n + 1} /\ n \in Nat /\ \A j \in T : j \in 1..n
      BY <2>2, <2>4, <2>5, <2>6
    <3>1. n + 1 \in Tellings(all, f) /\ \A j \in Tellings(all, f) : j <= n + 1
      BY <3>0
    <3>2. ASSUME NEW i \in Tellings(all, f), \A j \in Tellings(all, f) : j <= i
          PROVE  i = n + 1
      <4>1. n + 1 <= i
        BY <3>1, <3>2
      <4>2. i = n + 1 \/ i \in 1..n
        BY <3>0
      <4> QED
        BY <3>0, <4>1, <4>2
    <3>3. (CHOOSE i \in Tellings(all, f) : \A j \in Tellings(all, f) : j <= i) = n + 1
      BY <3>1, <3>2
    <3>4. Tellings(all, f) # {}
      BY <3>1
    <3>5. LastTold(all, f, first) = all[n + 1][f]
      BY <3>3, <3>4 DEF LastTold
    <3>6. HasLast(all, f)
      BY <3>1 DEF HasLast
    <3> QED
      BY <1>2, <2>2, <2>6, <3>5, <3>6 DEF all
  <2>7. CASE f \notin DOMAIN e
    <3>1. Tellings(all, f) = T
      BY <2>5, <2>7
    <3>2. HasLast(all, f)
      BY <3>1 DEF HasLast, T
    <3>3. ASSUME T = {}
          PROVE  LastTold(all, f, first) = LastTold(records, f, first)
      BY <3>1, <3>3 DEF LastTold, T
    <3>4. ASSUME T # {}
          PROVE  LastTold(all, f, first) = LastTold(records, f, first)
      <4> DEFINE last == CHOOSE i \in T : \A j \in T : j <= i
      <4>1. \E i \in T : \A j \in T : j <= i
        BY <3>4 DEF HasLast, T
      <4>2. last \in T
        BY <4>1
      <4>3. LastTold(all, f, first) = all[last][f]
        BY <3>1, <3>4 DEF LastTold
      <4>4. LastTold(records, f, first) = records[last][f]
        BY <3>4 DEF LastTold, T
      <4> HIDE DEF last
      <4>5. last \in 1..n
        BY <2>4, <4>2
      <4>6. all[last] = records[last]
        BY <2>2, <4>5
      <4> QED
        BY <4>3, <4>4, <4>6
    <3>5. LastTold(all, f, first) = LastTold(records, f, first)
      BY <3>3, <3>4
    <3> QED
      BY <1>2, <2>2, <2>7, <3>2, <3>5 DEF all
  <2> QED
    BY <2>6, <2>7
<1> QED
  BY <1>1, <1>2

\* An empty trail tells the row that was created.
LEMMA NothingTold ==
  ASSUME NEW f, NEW first
  PROVE  HasLast(<<>>, f) /\ LastTold(<<>>, f, first) = first
  BY DEF HasLast, LastTold, Tellings

\* TaskAuditListener: the status if it changed, the assignee if another user
\* has the task.
LEMMA RecordsTell ==
  ASSUME NEW records \in Seq(Entries), HasLast(records, "new"), HasLast(records, "assignee"),
         NEW old \in Task, NEW row \in Task
  PROVE  LET all == records \o Records(old, row)
         IN  /\ all \in Seq(Entries) /\ HasLast(all, "new") /\ HasLast(all, "assignee")
             /\ \A first : LastTold(all, "new", first) =
                  IF old.status # row.status THEN row.status
                  ELSE LastTold(records, "new", first)
             /\ \A first : LastTold(all, "assignee", first) =
                  IF old.assignee # row.assignee /\ row.assignee # NoUser THEN row.assignee
                  ELSE LastTold(records, "assignee", first)
<1> DEFINE e1 == [old |-> old.status, new |-> row.status]
           e2 == [assignee |-> row.assignee]
           A == IF old.status # row.status THEN <<e1>> ELSE <<>>
           B == IF old.assignee # row.assignee /\ row.assignee # NoUser THEN <<e2>> ELSE <<>>
<1>1. Records(old, row) = A \o B
  BY DEF Records
<1>2. /\ e1 \in Entries /\ "new" \in DOMAIN e1 /\ "assignee" \notin DOMAIN e1
      /\ e1["new"] = row.status
  BY DEF Entries, Task
<1>3. "new" \notin DOMAIN e2 /\ "assignee" \in DOMAIN e2 /\ e2["assignee"] = row.assignee
  OBVIOUS
<1>4. CASE row.assignee = NoUser
  <2>1. B = <<>>
    BY <1>4
  <2>2. (A = <<>> \/ A = <<e1>>) /\ (A = <<e1>> <=> old.status # row.status)
    OBVIOUS
  <2>3. A \in Seq(Entries) /\ A \o B = A
    <3>1. A \in Seq(Entries)
      BY <1>2
    <3> HIDE DEF A, B
    <3> QED
      BY <2>1, <3>1, ConcatEmptySeq
  <2> HIDE DEF A, B, e1, e2
  <2>4. /\ records \o A \in Seq(Entries)
        /\ HasLast(records \o A, "new") /\ HasLast(records \o A, "assignee")
        /\ \A first : LastTold(records \o A, "new", first) =
             IF A = <<e1>> THEN row.status ELSE LastTold(records, "new", first)
        /\ \A first : LastTold(records \o A, "assignee", first)
                      = LastTold(records, "assignee", first)
    <3>1. ASSUME NEW first, NEW f \in {"new", "assignee"}
          PROVE  /\ records \o A \in Seq(Entries) /\ HasLast(records \o A, f)
                 /\ LastTold(records \o A, f, first) =
                      IF A = <<e1>> /\ f \in DOMAIN e1 THEN e1[f]
                      ELSE LastTold(records, f, first)
      <4>1. HasLast(records, f)
        OBVIOUS
      <4> QED
        BY <1>2, <2>2, <4>1, OneMoreRecord
    <3>2. "new" \in {"new", "assignee"} /\ "assignee" \in {"new", "assignee"}
      OBVIOUS
    <3>3. ASSUME NEW first
          PROVE  LastTold(records \o A, "new", first) =
                   IF A = <<e1>> THEN row.status ELSE LastTold(records, "new", first)
      BY <1>2, <3>1, <3>2
    <3>4. ASSUME NEW first
          PROVE  LastTold(records \o A, "assignee", first)
                      = LastTold(records, "assignee", first)
      BY <1>2, <3>1, <3>2
    <3> QED
      BY <3>1, <3>2, <3>3, <3>4
  <2> QED
    BY <1>1, <1>4, <2>2, <2>3, <2>4
<1>5. CASE row.assignee # NoUser
  <2>1. e2 \in Entries
    BY <1>5 DEF Entries, Task, Assignees
  <2>2. (A = <<>> \/ A = <<e1>>) /\ (A = <<e1>> <=> old.status # row.status)
    OBVIOUS
  <2>3. (B = <<>> \/ B = <<e2>>) /\ (B = <<e2>> <=> old.assignee # row.assignee)
    BY <1>5
  <2>4. A \in Seq(Entries) /\ B \in Seq(Entries)
    BY <1>2, <2>1
  <2> HIDE DEF A, B, e1, e2
  <2>5. records \o (A \o B) = (records \o A) \o B
    BY <2>4, ConcatAssociative
  <2>6. /\ records \o A \in Seq(Entries)
        /\ HasLast(records \o A, "new") /\ HasLast(records \o A, "assignee")
        /\ \A first : LastTold(records \o A, "new", first) =
             IF A = <<e1>> THEN row.status ELSE LastTold(records, "new", first)
        /\ \A first : LastTold(records \o A, "assignee", first)
                      = LastTold(records, "assignee", first)
    <3>1. ASSUME NEW first, NEW f \in {"new", "assignee"}
          PROVE  /\ records \o A \in Seq(Entries) /\ HasLast(records \o A, f)
                 /\ LastTold(records \o A, f, first) =
                      IF A = <<e1>> /\ f \in DOMAIN e1 THEN e1[f]
                      ELSE LastTold(records, f, first)
      <4>1. HasLast(records, f)
        OBVIOUS
      <4> QED
        BY <1>2, <2>2, <4>1, OneMoreRecord
    <3>2. "new" \in {"new", "assignee"} /\ "assignee" \in {"new", "assignee"}
      OBVIOUS
    <3>3. ASSUME NEW first
          PROVE  LastTold(records \o A, "new", first) =
                   IF A = <<e1>> THEN row.status ELSE LastTold(records, "new", first)
      BY <1>2, <3>1, <3>2
    <3>4. ASSUME NEW first
          PROVE  LastTold(records \o A, "assignee", first)
                      = LastTold(records, "assignee", first)
      BY <1>2, <3>1, <3>2
    <3> QED
      BY <3>1, <3>2, <3>3, <3>4
  <2> DEFINE more == records \o A
  <2>7. more = records \o A
    OBVIOUS
  <2> HIDE DEF more
  <2>8. /\ more \o B \in Seq(Entries)
        /\ HasLast(more \o B, "new") /\ HasLast(more \o B, "assignee")
        /\ \A first : LastTold(more \o B, "new", first) = LastTold(more, "new", first)
        /\ \A first : LastTold(more \o B, "assignee", first) =
             IF B = <<e2>> THEN row.assignee ELSE LastTold(more, "assignee", first)
    <3>1. ASSUME NEW first, NEW f \in {"new", "assignee"}
          PROVE  /\ more \o B \in Seq(Entries) /\ HasLast(more \o B, f)
                 /\ LastTold(more \o B, f, first) =
                      IF B = <<e2>> /\ f \in DOMAIN e2 THEN e2[f]
                      ELSE LastTold(more, f, first)
      <4>1. HasLast(more, f)
        BY <2>6, <2>7
      <4>2. more \in Seq(Entries)
        BY <2>6, <2>7
      <4> QED
        BY <2>1, <2>3, <4>1, <4>2, OneMoreRecord
    <3>2. "new" \in {"new", "assignee"} /\ "assignee" \in {"new", "assignee"}
      OBVIOUS
    <3>3. ASSUME NEW first
          PROVE  LastTold(more \o B, "new", first) = LastTold(more, "new", first)
      BY <1>3, <3>1, <3>2
    <3>4. ASSUME NEW first
          PROVE  LastTold(more \o B, "assignee", first) =
                   IF B = <<e2>> THEN row.assignee ELSE LastTold(more, "assignee", first)
      BY <1>3, <3>1, <3>2
    <3> QED
      BY <3>1, <3>2, <3>3, <3>4
  <2> QED
    BY <1>1, <1>5, <2>2, <2>3, <2>5, <2>6, <2>7, <2>8
<1> QED
  BY <1>4, <1>5

-----------------------------------------------------------------------------
(* The feed, step by step.                                                 *)

\* The events of edits add no step to the requests and change none.
LEMMA FeedMoves ==
  ASSUME [FeedNext]_<<vars, feedVars>>
  PROVE  [Next]_vars
<1>1. ASSUME NEW r \in Requests,
             \/ CreateAndTell(r) \/ ProceedAndTell(r)
             \/ Read(r) \/ Update(r) \/ Remove(r) \/ QueryFails(r) \/ Rejects(r)
      PROVE  Next
  <2>1. \/ Create(r) \/ Write(r) \/ Delete(r) \/ ReadBack(r) \/ Store(r) \/ Evict(r)
        \/ Invalidate(r) \/ Read(r) \/ Update(r) \/ Remove(r) \/ Query(r) \/ Again(r)
        \/ Fill(r) \/ QueryFails(r) \/ Rejects(r)
    BY <1>1 DEF CreateAndTell, ProceedAndTell, WriteAndTell, ReadBackAndTell, FinishAndTell,
                Silently
  <2> QED
    BY <2>1 DEF Next, Proceed
<1>2. ASSUME NEW s \in Sockets, Disconnect(s) \/ \E u \in Users : Connect(s, u)
      PROVE  UNCHANGED vars
  BY <1>2 DEF Disconnect, Connect
<1>3. ASSUME NEW p \in Replicas, RestartAndForget(p) \/ \E k \in Keys : Expire(p, k)
      PROVE  Next
  BY <1>3 DEF RestartAndForget, Next
<1> QED
  BY <1>1, <1>2, <1>3 DEF FeedNext

\* What TaskCache's theorems say holds of the feed.
THEOREM FeedRunsTasks == FeedSpec => Spec
<1>1. FeedInit => Init
  BY DEF FeedInit
<1> QED
  BY <1>1, FeedMoves, PTL DEF FeedSpec, Spec

\* create puts one new task in the table.
LEMMA CreatedRow ==
  ASSUME TasksInv, NEW r \in Requests, Create(r)
  PROVE  \E t \in Tasks, row \in Task :
           /\ tasks[t] = NoTask /\ ~ row.deleted /\ tasks'[t] = row
           /\ \A x \in Tasks \ {t} : tasks'[x] = tasks[x]
           /\ request'[r].key.of = t /\ request'[r].pc = "invalidate"
<1>1. PICK p \in Replicas, t \in Tasks, row \in Task, q \in Request :
        /\ ~ row.deleted /\ tasks[t] = NoTask /\ Record(t, row) /\ Goes(r, q) /\ Edit(p)
        /\ q.pc = "invalidate" /\ q.at = p /\ q.op = "create" /\ q.key = Key("task", t)
        /\ q.found = row
  BY CreatesRow
<1>2. request'[r] = q
  BY <1>1 DEF Goes, TasksInv, RequestsInOrder
<1>3. tasks'[t] = row /\ \A x \in Tasks \ {t} : tasks'[x] = tasks[x]
  BY <1>1 DEF Record, TasksInv, TableIsTyped
<1> QED
  BY <1>1, <1>2, <1>3, TaskKeys

\* UPDATE and softDelete change a task that is there.
LEMMA WrittenRow ==
  ASSUME TasksInv, NEW r \in Requests, Write(r) \/ Delete(r)
  PROVE  \E t \in Tasks, row \in Task :
           /\ t = request[r].key.of /\ tasks[t] \in Task /\ tasks'[t] = row
           /\ \A x \in Tasks \ {t} : tasks'[x] = tasks[x]
           /\ \A s \in Requests \ {r} : request'[s] = request[s]
           /\ \/ /\ Delete(r) /\ row.deleted /\ request'[r].pc = "evict"
              \/ /\ Write(r) /\ row.deleted = tasks[t].deleted
                 /\ request'[r].pc = "readBack" /\ request'[r].key.of = t
                 /\ request'[r].found = request[r].found /\ request'[r].at = request[r].at
<1>1. PICK q : q = request[r]
  OBVIOUS
<1>2. PICK t : t = q.key.of
  OBVIOUS
<1>3. PICK old : old = tasks[t]
  OBVIOUS
<1>4. q.pc \in {"write", "delete"} /\ InOrder(q, held) /\ q \in Request
  BY <1>1, BusyInOrder DEF Write, Delete, Stages
<1>5. t \in Tasks /\ old \in Task
  <2>1. q.op # "read"
    BY <1>4 DEF InOrder
  <2> QED
    BY <1>1, <1>2, <1>3, <1>4, <2>1, TaskIsStored DEF Stages
<1>6. CASE Write(r)
  <2>1. q.change \in Changes
    BY <1>1, <1>4, <1>6 DEF InOrder, Write
  <2> DEFINE row == AfterUpdate(old, q.change)
             p == [q EXCEPT !.pc = "readBack"]
  <2>2. row \in Task /\ row.deleted = old.deleted
    BY <1>5, <2>1, UpdatedRow DEF AfterUpdate, Task
  <2>3. Record(t, row) /\ Goes(r, p)
    <3>1. Record(t, [f \in DOMAIN old |->
                       IF f \in DOMAIN q.change THEN q.change[f] ELSE old[f]])
      BY <1>1, <1>2, <1>3, <1>6 DEF Write
    <3>2. row = [f \in DOMAIN old |->
                   IF f \in DOMAIN q.change THEN q.change[f] ELSE old[f]]
      BY <1>5, <2>1, UpdatedRow
    <3> HIDE DEF row
    <3>3. Record(t, row)
      BY <3>1, <3>2
    <3> QED
      BY <1>1, <1>6, <3>3 DEF Write
  <2>4. p.pc = "readBack" /\ p.key = q.key /\ p.found = q.found /\ p.at = q.at
    BY <1>4 DEF Request
  <2> HIDE DEF row, p
  <2>5. \A x \in Requests : request'[x] = IF x = r THEN p ELSE request[x]
    BY <2>3 DEF Goes, TasksInv, RequestsInOrder
  <2>6. tasks'[t] = row /\ \A x \in Tasks \ {t} : tasks'[x] = tasks[x]
    BY <1>5, <2>3 DEF Record, TasksInv, TableIsTyped
  <2> QED
    BY <1>1, <1>2, <1>3, <1>5, <1>6, <2>2, <2>4, <2>5, <2>6
<1>7. CASE Delete(r)
  <2> DEFINE row == [old EXCEPT !.deleted = TRUE]
             p == [q EXCEPT !.pc = "evict"]
  <2>1. row \in Task /\ row.deleted
    BY <1>5 DEF Task
  <2>2. Record(t, row) /\ Goes(r, p)
    BY <1>1, <1>2, <1>3, <1>7 DEF Delete
  <2>3. p.pc = "evict"
    BY <1>4 DEF Request
  <2> HIDE DEF row, p
  <2>4. \A x \in Requests : request'[x] = IF x = r THEN p ELSE request[x]
    BY <2>2 DEF Goes, TasksInv, RequestsInOrder
  <2>5. tasks'[t] = row /\ \A x \in Tasks \ {t} : tasks'[x] = tasks[x]
    BY <1>5, <2>2 DEF Record, TasksInv, TableIsTyped
  <2> QED
    BY <1>1, <1>2, <1>3, <1>5, <1>7, <2>1, <2>3, <2>4, <2>5
<1> QED
  BY <1>6, <1>7

\* findById reads a live row back.
LEMMA ReadBackRow ==
  ASSUME TasksInv, NEW r \in Requests, ReadBack(r)
  PROVE  /\ request[r].pc = "readBack" /\ request[r].found \in Task /\ request[r].key.of \in Tasks
         /\ UNCHANGED tasks /\ \E p : Goes(r, p)
         /\ \/ request'[r] = Idle /\ request[r].key.of \notin Live
            \/ /\ request'[r] # Idle /\ request'[r].pc = "store" /\ request[r].key.of \in Live
               /\ request'[r].found = tasks[request[r].key.of]
<1>1. PICK q : q = request[r]
  OBVIOUS
<1>2. q.pc = "readBack" /\ q \in Request /\ q.op = "update"
  BY <1>1, BusyInOrder DEF ReadBack, Stages, InOrder
<1>3. q.found \in Task /\ q.key.of \in Tasks
  BY <1>1, <1>2, TaskIsStored DEF Stages
<1> DEFINE p == [q EXCEPT !.pc = "store", !.found = Updated(q)]
<1>4. (q.key.of \in Live /\ Goes(r, p)) \/ (q.key.of \notin Live /\ Goes(r, Idle))
  BY <1>1 DEF ReadBack
<1>5. p.found = tasks[q.key.of] /\ p.pc = "store"
  BY <1>2 DEF Updated, Request
<1> HIDE DEF p
<1>6. \/ q.key.of \in Live /\ request'[r] = p
      \/ q.key.of \notin Live /\ request'[r] = Idle
  BY <1>4 DEF Goes, TasksInv, RequestsInOrder
<1> QED
  BY <1>1, <1>2, <1>3, <1>4, <1>5, <1>6 DEF ReadBack, Idle

\* The last await of a create or update holds a row.
LEMMA FinishedRow ==
  ASSUME TasksInv, NEW r \in Requests, Store(r) \/ Evict(r) \/ Invalidate(r)
  PROVE  /\ request[r].key.of \in Tasks /\ request[r].found \in Task
         /\ request[r].pc \in {"store", "evict", "invalidate"}
         /\ request[r].pc = "evict" => request[r].op = "remove"
         /\ UNCHANGED tasks
<1>1. request[r].pc \in {"store", "evict", "invalidate"} /\ UNCHANGED tasks
  BY DEF Store, Evict, Invalidate
<1>2. InOrder(request[r], held)
  BY <1>1, BusyInOrder DEF Stages
<1>3. request[r].op # "read" /\ (request[r].pc = "evict" => request[r].op = "remove")
  BY <1>1, <1>2 DEF InOrder
<1> QED
  BY <1>1, <1>3, TaskIsStored DEF Stages

\* The room's clients take the row, if this replica serves the request.
LEMMA Broadcasts ==
  ASSUME FeedIsTyped, NEW q, NEW t \in Tasks, q.key.of = t, NEW row \in Task,
         Broadcast(q, row)
  PROVE  /\ seen' \in [Sockets -> [Tasks -> Task \cup {NoTask}]]
         /\ \A s \in Sockets, x \in Tasks :
              seen'[s][x] = IF q.at = Here /\ s \in Open /\ x = t THEN row
                            ELSE seen[s][x]
<1>1. CASE q.at # Here
  BY <1>1 DEF Broadcast, FeedIsTyped
<1>2. CASE q.at = Here
  <2>1. seen' = [s \in Sockets |-> IF s \in Open THEN [seen[s] EXCEPT ![t] = row]
                                   ELSE seen[s]]
    BY <1>2 DEF Broadcast
  <2>2. \A s \in Sockets : /\ seen[s] \in [Tasks -> Task \cup {NoTask}]
                           /\ [seen[s] EXCEPT ![t] = row] \in [Tasks -> Task \cup {NoTask}]
                           /\ \A x \in Tasks : [seen[s] EXCEPT ![t] = row][x]
                                               = IF x = t THEN row ELSE seen[s][x]
    BY DEF FeedIsTyped
  <2> QED
    BY <1>2, <2>1, <2>2
<1> QED
  BY <1>1, <1>2

\* Trails and first rows stay while no task appears.
LEMMA FeedTypesStay ==
  ASSUME FeedIsTyped, UNCHANGED <<firstRow, trail>>,
         sockets' \in [Sockets -> Users \cup {NoUser}],
         seen' \in [Sockets -> [Tasks -> Task \cup {NoTask}]],
         \A t \in Tasks : tasks'[t] = NoTask <=> tasks[t] = NoTask
  PROVE  FeedIsTyped'
  BY DEF FeedIsTyped

\* Every step of the feed keeps its types.
LEMMA FeedTypesStep ==
  ASSUME TasksInv, FeedIsTyped, [FeedNext]_<<vars, feedVars>>
  PROVE  FeedIsTyped'
<1> USE DEF FeedIsTyped
<1>1. ASSUME NEW r \in Requests, CreateAndTell(r)
      PROVE  FeedIsTyped'
  <2>1. PICK t \in Tasks, row \in Task :
          /\ tasks[t] = NoTask /\ ~ row.deleted /\ tasks'[t] = row
          /\ \A x \in Tasks \ {t} : tasks'[x] = tasks[x]
          /\ request'[r].key.of = t
    BY <1>1, CreatedRow DEF CreateAndTell
  <2>2. Broadcast(request'[r], row) /\ firstRow' = [firstRow EXCEPT ![t] = row]
    BY <1>1, <2>1 DEF CreateAndTell
  <2>3. UNCHANGED <<sockets, trail>>
    BY <1>1 DEF CreateAndTell
  <2>4. seen' \in [Sockets -> [Tasks -> Task \cup {NoTask}]]
    BY <2>1, <2>2, Broadcasts
  <2>5. /\ firstRow' \in [Tasks -> Task \cup {NoTask}]
        /\ \A x \in Tasks : firstRow'[x] = IF x = t THEN row ELSE firstRow[x]
    BY <2>2
  <2>6. \A x \in Tasks :
          /\ tasks'[x] = NoTask => trail'[x] = <<>>
          /\ tasks'[x] # NoTask => firstRow'[x] \in Task /\ ~ firstRow'[x].deleted
    BY <2>1, <2>3, <2>5, NoTaskIsNoRow
  <2> QED
    BY <2>3, <2>4, <2>5, <2>6
<1>2. ASSUME NEW r \in Requests, WriteAndTell(r)
      PROVE  FeedIsTyped'
  <2>1. PICK t \in Tasks : /\ tasks[t] \in Task /\ tasks'[t] \in Task
                           /\ \A x \in Tasks \ {t} : tasks'[x] = tasks[x]
    BY <1>2, WrittenRow DEF WriteAndTell
  <2>2. UNCHANGED <<sockets, seen, trail, firstRow>>
    BY <1>2 DEF WriteAndTell
  <2> QED
    BY <2>1, <2>2, NoTaskIsNoRow, FeedTypesStay
<1>3. ASSUME NEW r \in Requests, ReadBackAndTell(r)
      PROVE  FeedIsTyped'
  <2>1. UNCHANGED <<sockets, firstRow, tasks>>
    BY <1>3 DEF ReadBackAndTell, ReadBack
  <2>2. CASE request'[r] = Idle
    BY <1>3, <2>1, <2>2, FeedTypesStay DEF ReadBackAndTell
  <2>3. CASE request'[r] # Idle
    <3>1. PICK t, old, row : t = request[r].key.of /\ old = request[r].found
                             /\ row = request'[r].found
      OBVIOUS
    <3>2. t \in Tasks /\ old \in Task /\ row \in Task /\ tasks[t] # NoTask
      <4>1. t \in Live /\ old \in Task /\ row = tasks[t]
        BY <1>3, <2>3, <3>1, ReadBackRow DEF ReadBackAndTell
      <4> QED
        BY <4>1, LiveRows, NoTaskIsNoRow DEF TasksInv
    <3>3. Broadcast(request[r], row)
      BY <1>3, <2>3, <3>1 DEF ReadBackAndTell
    <3>4. trail' = [trail EXCEPT ![t] = trail[t] \o Records(old, row)] \/ UNCHANGED trail
      BY <1>3, <2>3, <3>1 DEF ReadBackAndTell
    <3>5. seen' \in [Sockets -> [Tasks -> Task \cup {NoTask}]]
      BY <3>1, <3>2, <3>3, Broadcasts
    <3>6. CASE UNCHANGED trail
      BY <2>1, <3>5, <3>6, FeedTypesStay
    <3>7. CASE trail' = [trail EXCEPT ![t] = trail[t] \o Records(old, row)]
      <4>1. PICK all : all = trail[t] \o Records(old, row)
        OBVIOUS
      <4>2. all \in Seq(Entries) /\ HasLast(all, "new") /\ HasLast(all, "assignee")
        BY <3>2, <4>1, RecordsTell
      <4>3. trail' = [trail EXCEPT ![t] = all]
        BY <3>7, <4>1
      <4>4. trail' \in [Tasks -> Seq(Entries)]
        BY <4>2, <4>3
      <4>5. \A x \in Tasks : trail'[x] = IF x = t THEN all ELSE trail[x]
        BY <4>3
      <4>6. \A x \in Tasks :
              /\ HasLast(trail'[x], "new") /\ HasLast(trail'[x], "assignee")
              /\ tasks'[x] = NoTask => trail'[x] = <<>>
        BY <2>1, <3>2, <4>2, <4>5
      <4> QED
        BY <2>1, <3>5, <4>4, <4>6
    <3> QED
      BY <3>4, <3>6, <3>7
  <2> QED
    BY <2>2, <2>3
<1>4. ASSUME NEW r \in Requests, FinishAndTell(r)
      PROVE  FeedIsTyped'
  <2>1. UNCHANGED <<sockets, firstRow, trail>>
    BY <1>4 DEF FinishAndTell
  <2>2. request[r].key.of \in Tasks /\ request[r].found \in Task /\ UNCHANGED tasks
    BY <1>4, FinishedRow DEF FinishAndTell
  <2>3. Broadcast(request[r], request[r].found) \/ UNCHANGED seen
    BY <1>4 DEF FinishAndTell
  <2>4. seen' \in [Sockets -> [Tasks -> Task \cup {NoTask}]]
    BY <2>2, <2>3, Broadcasts
  <2> QED
    BY <2>1, <2>2, <2>4, FeedTypesStay
<1>5. ASSUME NEW r \in Requests, UNCHANGED feedVars,
             \/ Silently(r) \/ Read(r) \/ Update(r) \/ Remove(r)
             \/ QueryFails(r) \/ Rejects(r)
      PROVE  FeedIsTyped'
  <2>1. UNCHANGED tasks
    BY <1>5 DEF Silently, Read, Update, Remove, Query, Again, Fill, QueryFails, Rejects
  <2> QED
    BY <1>5, <2>1 DEF feedVars
<1>6. ASSUME NEW p \in Replicas, NEW k \in Keys, Expire(p, k), UNCHANGED feedVars
      PROVE  FeedIsTyped'
  BY <1>6 DEF Expire, feedVars
<1>10. ASSUME NEW p \in Replicas, RestartAndForget(p)
       PROVE  FeedIsTyped'
  <2>1. /\ UNCHANGED <<tasks, seen, firstRow, trail>>
        /\ sockets' \in {sockets, [s \in Sockets |-> NoUser]}
    BY <1>10 DEF RestartAndForget, Restart
  <2> QED
    BY <2>1, FeedTypesStay
<1>7. ASSUME NEW s \in Sockets, NEW u \in Users, Connect(s, u)
      PROVE  FeedIsTyped'
  <2>1. /\ sockets' = [sockets EXCEPT ![s] = u] /\ seen' = [seen EXCEPT ![s] = tasks]
        /\ UNCHANGED <<tasks, firstRow, trail>>
    BY <1>7 DEF Connect, vars
  <2>2. sockets' \in [Sockets -> Users \cup {NoUser}]
    BY <2>1
  <2>3. seen' \in [Sockets -> [Tasks -> Task \cup {NoTask}]]
    BY <2>1 DEF TasksInv, TableIsTyped
  <2> QED
    BY <2>1, <2>2, <2>3, FeedTypesStay
<1>8. ASSUME NEW s \in Sockets, Disconnect(s)
      PROVE  FeedIsTyped'
  <2>1. /\ sockets' = [sockets EXCEPT ![s] = NoUser]
        /\ UNCHANGED <<tasks, seen, firstRow, trail>>
    BY <1>8 DEF Disconnect, vars
  <2>2. sockets' \in [Sockets -> Users \cup {NoUser}]
    BY <2>1
  <2> QED
    BY <2>1, <2>2, FeedTypesStay
<1>9. CASE UNCHANGED <<vars, feedVars>>
  BY <1>9 DEF vars, feedVars
<1> QED
  BY <1>1, <1>2, <1>3, <1>4, <1>5, <1>6, <1>7, <1>8, <1>9, <1>10 DEF FeedNext, ProceedAndTell

\* At first no socket is open and every trail is empty.
LEMMA FeedTypedAtFirst == FeedInit => FeedIsTyped
<1> SUFFICES ASSUME FeedInit PROVE FeedIsTyped
  OBVIOUS
<1>1. tasks \in [Tasks -> {row \in Task : ~ row.deleted} \cup {NoTask}]
  BY DEF FeedInit, Init
<1>2. trail = [t \in Tasks |-> <<>>] /\ firstRow = tasks
      /\ sockets = [s \in Sockets |-> NoUser] /\ seen = [s \in Sockets |-> tasks]
  BY DEF FeedInit
<1>3. <<>> \in Seq(Entries)
  BY EmptySeq
<1>4. \A t \in Tasks : HasLast(trail[t], "new") /\ HasLast(trail[t], "assignee")
  BY <1>2, NothingTold
<1>5. \A t \in Tasks :
        /\ tasks[t] = NoTask => trail[t] = <<>>
        /\ tasks[t] # NoTask => firstRow[t] \in Task /\ ~ firstRow[t].deleted
  BY <1>1, <1>2
<1>6. trail \in [Tasks -> Seq(Entries)]
  BY <1>2, <1>3
<1> QED
  BY <1>1, <1>2, <1>4, <1>5, <1>6 DEF FeedIsTyped

-----------------------------------------------------------------------------
(* Who knows an edit while requests come one after another.                *)

\* The fields of a task as its trail tells it.
LEMMA ToldFields ==
  ASSUME FeedIsTyped, NEW t \in Tasks, firstRow[t] \in Task
  PROVE  /\ Told(t).status = LastTold(trail[t], "new", firstRow[t].status)
         /\ Told(t).assignee = LastTold(trail[t], "assignee", firstRow[t].assignee)
  BY DEF Told, Task

\* What was told once is told still.
LEMMA TracedBefore ==
  ASSUME [FeedNext]_<<vars, feedVars>>, Traced'
  PROVE  Traced
<1>1. editors \subseteq editors'
  <2>1. [Next]_vars
    BY FeedMoves
  <2>2. ASSUME NEW r \in Requests,
               \/ Read(r) \/ Create(r) \/ Update(r) \/ Remove(r)
               \/ Proceed(r) \/ QueryFails(r) \/ Rejects(r)
        PROVE  editors \subseteq editors'
    BY <2>2 DEF Read, Create, Update, Remove, Edit, Proceed, QueryFails, Rejects, Query, Again,
                Fill, Write, ReadBack, Store, Delete, Evict, Invalidate, history
  <2>3. ASSUME NEW p \in Replicas, Restart(p) \/ \E k \in Keys : Expire(p, k)
        PROVE  editors \subseteq editors'
    BY <2>3 DEF Restart, Expire, history
  <2> QED
    BY <2>1, <2>2, <2>3 DEF Next, vars, history
<1>2. lost => lost'
  <2>1. ASSUME NEW r \in Requests, CreateAndTell(r) \/ ProceedAndTell(r)
        PROVE  lost => lost'
    BY <2>1 DEF CreateAndTell, ProceedAndTell, WriteAndTell, ReadBackAndTell, FinishAndTell,
                feedVars
  <2>2. ASSUME NEW s \in Sockets, Disconnect(s) \/ \E u \in Users : Connect(s, u)
        PROVE  lost => lost'
    BY <2>2 DEF Disconnect, Connect
  <2>3. ASSUME NEW p \in Replicas, RestartAndForget(p) \/ UNCHANGED feedVars
        PROVE  lost => lost'
    BY <2>3 DEF RestartAndForget, feedVars
  <2> QED
    BY <2>1, <2>2, <2>3 DEF FeedNext, feedVars
<1> QED
  BY <1>1, <1>2 DEF Traced, Leads

\* What the listeners know stays while they are told nothing.
LEMMA ToldStays ==
  ASSUME NEW t \in Tasks, NEW row, trail'[t] = trail[t], firstRow'[t] = firstRow[t],
         mailed \subseteq mailed', ToldOf(t, row)
  PROVE  ToldOf(t, row)'
  BY DEF ToldOf, Told

\* A task that is written by nobody is known as it is.
LEMMA KnownAsItIs ==
  ASSUME ClientsShowTasks, Traced => ListenersFollow, NEW t \in Live,
         \A r \in Requests : ~ IsWriting(r, t)
  PROVE  /\ \A s \in Open \ missed : seen[s][t] = tasks[t]
         /\ Traced => ToldOf(t, tasks[t])
  BY DEF ClientsShowTasks, ListenersFollow

\* Steps of requests that write nothing and tell nothing.
LEMMA KnownStays ==
  ASSUME ClientsShowTasks, Traced => ListenersFollow, TableIsTyped,
         UNCHANGED <<tasks, trail, firstRow, mailed>>, Traced' => Traced,
         \A r \in Requests, t \in Live : ~ IsWriting(r, t) /\ ~ IsWriting(r, t)',
         \A s \in Open' \ missed', t \in Live :
           seen'[s][t] = tasks[t] \/ (s \in Open \ missed /\ seen'[s][t] = seen[s][t])
  PROVE  ClientsShowTasks' /\ (Traced' => ListenersFollow')
<1>1. Live' = Live
  BY DEF Live
<1>2. ASSUME NEW t \in Live
      PROVE  /\ \A s \in Open \ missed : seen[s][t] = tasks[t]
             /\ Traced => ToldOf(t, tasks[t])
             /\ t \in Tasks
  BY KnownAsItIs DEF Live
<1>3. ClientsShowTasks'
  BY <1>1, <1>2 DEF ClientsShowTasks
<1>4. ASSUME Traced', NEW t \in Live
      PROVE  ToldOf(t, tasks[t])'
  <2>1. PICK row : row = tasks[t]
    OBVIOUS
  <2>2. ToldOf(t, row)'
    BY <1>2, <1>4, <2>1, ToldStays
  <2> QED
    BY <2>1, <2>2 DEF ToldOf
<1>5. Traced' => ListenersFollow'
  BY <1>1, <1>2, <1>4 DEF ListenersFollow
<1> QED
  BY <1>3, <1>5

\* Before and after steps of other stages no task is being written.
LEMMA NobodyWrites ==
  ASSUME TasksInv, AloneInv, Alone, NEW r \in Requests, NEW q, Goes(r, q),
         request[r] # Idle \/ (Begins(r) /\ ~ overlapped'),
         request[r].pc # "readBack"
  PROVE  /\ \A s \in Requests, t \in Tasks : ~ IsWriting(s, t)
         /\ \A s \in Requests \ {r}, t \in Tasks : ~ IsWriting(s, t)'
         /\ request'[r] = q
         /\ \A t \in Tasks : IsWriting(r, t)' <=> q.pc = "readBack" /\ q.key.of = t
<1>1. \A s \in Requests \ {r} : request'[s] = Idle /\ request[s] = Idle
  BY OthersIdle
<1>2. request'[r] = q
  BY OthersIdle
<1>3. Idle.pc # "readBack"
  BY DEF Idle
<1> QED
  BY <1>1, <1>2, <1>3 DEF IsWriting

\* create.
LEMMA KnownCreated ==
  ASSUME TasksInv, AloneInv, Alone, Alone', FeedIsTyped, ClientsShowTasks,
         Traced => ListenersFollow, Traced' => Traced, NEW r \in Requests, CreateAndTell(r)
  PROVE  ClientsShowTasks' /\ (Traced' => ListenersFollow')
<1>1. PICK t \in Tasks, row \in Task :
        /\ tasks[t] = NoTask /\ ~ row.deleted /\ tasks'[t] = row
        /\ \A x \in Tasks \ {t} : tasks'[x] = tasks[x]
        /\ request'[r].key.of = t /\ request'[r].pc = "invalidate"
  BY CreatedRow DEF CreateAndTell
<1>2. \A s \in Requests, x \in Tasks : ~ IsWriting(s, x) /\ ~ IsWriting(s, x)'
  <2>1. PICK q : Goes(r, q)
    BY DEF CreateAndTell, Create
  <2>2. Begins(r) /\ ~ overlapped' /\ request[r].pc # "readBack"
    BY DEF CreateAndTell, Create, Begins, Alone, Idle
  <2>3. /\ \A s \in Requests, x \in Tasks : ~ IsWriting(s, x)
        /\ \A s \in Requests \ {r}, x \in Tasks : ~ IsWriting(s, x)'
    BY <2>1, <2>2, NobodyWrites
  <2>4. \A x \in Tasks : ~ IsWriting(r, x)'
    BY <1>1 DEF IsWriting
  <2> QED
    BY <2>3, <2>4
<1>3. /\ Broadcast(request'[r], row) /\ firstRow' = [firstRow EXCEPT ![t] = row]
      /\ missed' = missed \cup (IF request'[r].at # Here THEN Open ELSE {})
      /\ UNCHANGED <<sockets, trail, mailed>>
  BY <1>1 DEF CreateAndTell, Misses
<1>4. \A x \in Tasks : firstRow'[x] = IF x = t THEN row ELSE firstRow[x]
  BY <1>3 DEF FeedIsTyped
<1>5. \A s \in Sockets, x \in Tasks :
        seen'[s][x] = IF request'[r].at = Here /\ s \in Open /\ x = t THEN row
                      ELSE seen[s][x]
  BY <1>1, <1>3, Broadcasts
<1>6. ASSUME NEW x \in Live', x # t
      PROVE  x \in Live /\ x \in Tasks /\ tasks'[x] = tasks[x]
  BY <1>1, <1>6 DEF Live
<1>7. ClientsShowTasks'
  <2> SUFFICES ASSUME NEW s \in Open', s \notin missed', NEW x \in Live'
               PROVE  seen'[s][x] = tasks'[x]
    BY DEF ClientsShowTasks
  <2>1. s \in Sockets /\ s \in Open \ missed /\ request'[r].at = Here
    BY <1>3 DEF Open
  <2>2. CASE x = t
    BY <1>1, <1>5, <2>1, <2>2
  <2>3. CASE x # t
    <3>1. x \in Live /\ x \in Tasks /\ tasks'[x] = tasks[x]
      BY <1>6, <2>3
    <3>2. seen[s][x] = tasks[x]
      BY <1>2, <2>1, <3>1, KnownAsItIs
    <3> QED
      BY <1>5, <2>1, <2>3, <3>1, <3>2
  <2> QED
    BY <2>2, <2>3
<1>8. ASSUME Traced', NEW x \in Live'
      PROVE  ToldOf(x, tasks[x])'
  <2>1. CASE x = t
    <3>1. trail'[t] = <<>>
      BY <1>1, <1>3 DEF FeedIsTyped
    <3>2. firstRow'[t] = row /\ tasks'[t] = row
      BY <1>1, <1>4
    <3>3. /\ LastTold(trail'[t], "new", row.status) = row.status
          /\ LastTold(trail'[t], "assignee", row.assignee) = row.assignee
      BY <3>1, NothingTold
    <3>4. [row EXCEPT !.status = row.status, !.assignee = row.assignee] = row
      BY DEF Task
    <3>5. Told(t)' = row
      BY <3>2, <3>3, <3>4 DEF Told
    <3> QED
      BY <2>1, <3>2, <3>5 DEF ToldOf
  <2>2. CASE x # t
    <3>1. x \in Live /\ x \in Tasks /\ tasks'[x] = tasks[x]
      BY <1>6, <2>2
    <3>2. PICK old : old = tasks[x]
      OBVIOUS
    <3>3. ToldOf(x, old)
      BY <1>2, <1>3, <1>8, <3>1, <3>2, KnownAsItIs
    <3>4. ToldOf(x, old)'
      BY <1>3, <1>4, <2>2, <3>1, <3>3, ToldStays
    <3> QED
      BY <3>1, <3>2, <3>4 DEF ToldOf
  <2> QED
    BY <2>1, <2>2
<1>9. Traced' => ListenersFollow'
  <2>1. \A x \in Live' : x \in Tasks
    BY DEF Live
  <2> QED
    BY <1>2, <1>8, <2>1 DEF ListenersFollow
<1> QED
  BY <1>7, <1>9

\* An UPDATE where all edits come starts from the row of the table.
LEMMA WritesCurrent ==
  ASSUME TasksInv, AloneInv, Alone, Traced, NEW r \in Requests, request[r].pc = "write"
  PROVE  request[r].key.of \in Live /\ request[r].found = tasks[request[r].key.of]
<1>1. PICK q : q = request[r]
  OBVIOUS
<1>2. q.pc = "write" /\ InOrder(q, held) /\ q # Idle
  BY <1>1, BusyInOrder DEF Stages, Idle
<1>3. q.op = "update" /\ q.key.kind = "task"
  BY <1>2 DEF InOrder
<1>4. Leads(q.at)
  BY <1>1, <1>2, <1>3 DEF AloneInv, EditsAreCounted, Traced, Leads
<1>5. HoldsCurrent(q)
  BY <1>1, <1>2 DEF AloneInv
<1> QED
  BY <1>1, <1>2, <1>3, <1>4, <1>5 DEF HoldsCurrent

\* UPDATE and softDelete commit before anybody is told.
LEMMA KnownWritten ==
  ASSUME TasksInv, AloneInv, Alone, FeedIsTyped, ClientsShowTasks,
         Traced => ListenersFollow, Traced' => Traced, NEW r \in Requests, WriteAndTell(r)
  PROVE  ClientsShowTasks' /\ (Traced' => ListenersFollow')
<1>1. PICK t \in Tasks, row \in Task :
           /\ t = request[r].key.of /\ tasks[t] \in Task /\ tasks'[t] = row
           /\ \A x \in Tasks \ {t} : tasks'[x] = tasks[x]
           /\ \/ row.deleted /\ request'[r].pc = "evict"
              \/ /\ Write(r) /\ request'[r].pc = "readBack" /\ request'[r].key.of = t
                 /\ request'[r].found = request[r].found /\ request'[r].at = request[r].at
  BY WrittenRow DEF WriteAndTell
<1>2. /\ \A s \in Requests, x \in Tasks : ~ IsWriting(s, x)
      /\ \A s \in Requests \ {r}, x \in Tasks : ~ IsWriting(s, x)'
  <2>1. PICK q : Goes(r, q)
    BY DEF WriteAndTell, Write, Delete
  <2>2. request[r].pc \in {"write", "delete"}
    BY DEF WriteAndTell, Write, Delete
  <2>3. request[r] # Idle /\ request[r].pc # "readBack"
    BY <2>2 DEF Idle
  <2> QED
    BY <2>1, <2>3, NobodyWrites
<1>3. \A x \in Tasks \ {t} : ~ IsWriting(r, x)'
  BY <1>1 DEF IsWriting
<1>4. row.deleted => t \notin Live'
  BY <1>1 DEF Live
<1>5. t \in Live' => /\ IsWriting(r, t)' /\ Write(r) /\ request'[r].found = request[r].found
                     /\ request'[r].at = request[r].at
  BY <1>1, <1>4 DEF IsWriting
<1>6. /\ missed' = missed \cup (IF request[r].at # Here THEN Open ELSE {})
      /\ UNCHANGED <<sockets, seen, trail, mailed, firstRow>>
  BY DEF WriteAndTell, Misses
<1>7. ASSUME NEW x \in Live', x # t
      PROVE  x \in Live /\ x \in Tasks /\ tasks'[x] = tasks[x]
  BY <1>1, <1>7 DEF Live
<1>8. ClientsShowTasks'
  <2> SUFFICES ASSUME NEW s \in Open', s \notin missed', NEW x \in Live'
               PROVE  \/ seen'[s][x] = tasks'[x]
                      \/ \E q \in Requests : IsWriting(q, x)' /\ request'[q].at = Here
    BY DEF ClientsShowTasks
  <2>1. s \in Open \ missed /\ request[r].at = Here
    BY <1>6 DEF Open
  <2>2. CASE x = t
    BY <1>5, <2>1, <2>2
  <2>3. CASE x # t
    <3>1. x \in Live /\ x \in Tasks /\ tasks'[x] = tasks[x]
      BY <1>7, <2>3
    <3> QED
      BY <1>2, <1>6, <2>1, <3>1, KnownAsItIs
  <2> QED
    BY <2>2, <2>3
<1>9. ASSUME Traced', NEW x \in Live'
      PROVE  \/ ToldOf(x, tasks[x])' /\ \A q \in Requests : ~ IsWriting(q, x)'
             \/ \E q \in Requests : IsWriting(q, x)' /\ ToldOf(x, request[q].found)'
  <2>1. CASE x = t
    <3>1. IsWriting(r, t)' /\ Write(r) /\ request'[r].found = request[r].found
      BY <1>5, <1>9, <2>1
    <3>2. request[r].pc = "write"
      BY <3>1 DEF Write
    <3>3. t \in Live /\ request[r].found = tasks[t]
      BY <1>1, <1>9, <3>2, WritesCurrent
    <3>4. PICK old : old = tasks[t]
      OBVIOUS
    <3>5. ToldOf(t, old)
      BY <1>2, <1>6, <1>9, <3>3, <3>4, KnownAsItIs
    <3>6. ToldOf(t, old)'
      BY <1>6, <3>5, ToldStays
    <3>7. ToldOf(t, request[r].found)'
      BY <3>1, <3>3, <3>4, <3>6 DEF ToldOf
    <3> QED
      BY <2>1, <3>1, <3>7
  <2>2. CASE x # t
    <3>1. x \in Live /\ x \in Tasks /\ tasks'[x] = tasks[x]
      BY <1>7, <2>2
    <3>2. PICK old : old = tasks[x]
      OBVIOUS
    <3>3. ToldOf(x, old)
      BY <1>2, <1>6, <1>9, <3>1, <3>2, KnownAsItIs
    <3>4. ToldOf(x, old)'
      BY <1>6, <3>1, <3>3, ToldStays
    <3>5. ToldOf(x, tasks[x])'
      BY <3>1, <3>2, <3>4 DEF ToldOf
    <3> QED
      BY <1>2, <1>3, <2>2, <3>1, <3>5
  <2> QED
    BY <2>1, <2>2
<1> QED
  BY <1>8, <1>9 DEF ListenersFollow

\* update reads its live row back and tells the clients and the listeners of it.
LEMMA KnownToldBack ==
  ASSUME TasksInv, AloneInv, Alone, FeedIsTyped, ClientsShowTasks,
         Traced => ListenersFollow, Traced' => Traced, NEW r \in Requests, ReadBackAndTell(r),
         request'[r] # Idle
  PROVE  ClientsShowTasks' /\ (Traced' => ListenersFollow')
<1>1. PICK q : q = request[r]
  OBVIOUS
<1>2. PICK t : t = q.key.of
  OBVIOUS
<1>3. PICK old : old = q.found
  OBVIOUS
<1>4. PICK row : row = tasks[t]
  OBVIOUS
<1>5. /\ q.pc = "readBack" /\ old \in Task /\ t \in Live /\ UNCHANGED tasks
      /\ request'[r].pc = "store" /\ request'[r].found = row
      /\ \E p : Goes(r, p)
  BY <1>1, <1>2, <1>3, <1>4, ReadBackRow DEF ReadBackAndTell
<1>6. t \in Tasks /\ row \in Task
  BY <1>4, <1>5, LiveRows DEF TasksInv
<1>10. /\ Broadcast(q, row)
       /\ \/ /\ trail' = [trail EXCEPT ![t] = trail[t] \o Records(old, row)]
             /\ mailed' = mailed \cup Mailed(t, old, row)
          \/ lost' = TRUE
       /\ UNCHANGED <<sockets, missed, firstRow>>
  BY <1>1, <1>2, <1>3, <1>5 DEF ReadBackAndTell
<1>11. \A s \in Requests \ {r} : request'[s] = Idle /\ request[s] = Idle
  <2>1. request[r] # Idle
    BY <1>1, <1>5 DEF Idle
  <2> QED
    BY <1>5, <2>1, OthersIdle
<1>12. \A s \in Requests, x \in Tasks :
         ~ IsWriting(s, x)' /\ (IsWriting(s, x) => s = r /\ x = t)
  BY <1>1, <1>2, <1>5, <1>11 DEF IsWriting, Idle
<1>13. IsWriting(r, t)
  BY <1>1, <1>2, <1>5 DEF IsWriting
<1>14. Live' = Live
  BY <1>5 DEF Live
<1>15. ClientsShowTasks'
  <2> SUFFICES ASSUME NEW s \in Open \ missed, NEW x \in Live
               PROVE  seen'[s][x] = tasks'[x]
    <3>1. Open' = Open /\ missed' = missed
      BY <1>10 DEF Open
    <3> QED
      BY <1>14, <3>1 DEF ClientsShowTasks
  <2>1. s \in Sockets /\ s \in Open /\ x \in Tasks
    BY DEF Open, Live
  <2>2. seen'[s][x] = IF q.at = Here /\ x = t THEN row ELSE seen[s][x]
    BY <1>2, <1>6, <1>10, <2>1, Broadcasts
  <2>3. CASE q.at = Here /\ x = t
    BY <1>4, <1>5, <2>2, <2>3
  <2>4. CASE q.at # Here \/ x # t
    <3>1. seen[s][x] = tasks[x]
      BY <1>1, <1>12, <2>1, <2>4 DEF ClientsShowTasks
    <3> QED
      BY <1>5, <2>2, <2>4, <3>1
  <2> QED
    BY <2>3, <2>4
<1>16. ASSUME Traced', NEW x \in Live
       PROVE  ToldOf(x, tasks[x])'
  <2>1. Traced /\ trail' = [trail EXCEPT ![t] = trail[t] \o Records(old, row)]
        /\ mailed' = mailed \cup Mailed(t, old, row)
    BY <1>10, <1>16 DEF Traced
  <2>2. \A y \in Tasks : trail'[y] = IF y = t THEN trail[t] \o Records(old, row) ELSE trail[y]
    BY <2>1 DEF FeedIsTyped
  <2>3. ListenersFollow /\ x \in Tasks
    BY <2>1 DEF Live
  <2>4. CASE x # t
    <3>1. ToldOf(x, tasks[x])
      BY <1>12, <2>3, <2>4 DEF ListenersFollow
    <3>2. PICK now : now = tasks[x]
      OBVIOUS
    <3>3. ToldOf(x, now)'
      BY <1>10, <2>1, <2>2, <2>3, <2>4, <3>1, <3>2, ToldStays
    <3> QED
      BY <1>5, <3>2, <3>3 DEF ToldOf
  <2>5. CASE x = t
    <3>1. ToldOf(t, old)
      <4>1. \E s \in Requests : IsWriting(s, t) /\ ToldOf(t, request[s].found)
        BY <1>5, <1>13, <2>3 DEF ListenersFollow
      <4> QED
        BY <1>1, <1>3, <1>6, <1>12, <4>1
    <3>2. PICK first, all : first = firstRow[t] /\ all = trail[t] \o Records(old, row)
      OBVIOUS
    <3>3. first \in Task
      BY <1>4, <1>6, <3>2, NoTaskIsNoRow DEF FeedIsTyped
    <3>4. /\ trail[t] \in Seq(Entries) /\ HasLast(trail[t], "new")
          /\ HasLast(trail[t], "assignee")
      BY <1>6 DEF FeedIsTyped
    <3>5. trail'[t] = all /\ firstRow'[t] = first /\ tasks'[t] = row
      BY <1>4, <1>5, <1>6, <1>10, <2>2, <3>2
    <3>6. /\ Told(t).status = LastTold(trail[t], "new", first.status)
          /\ Told(t).assignee = LastTold(trail[t], "assignee", first.assignee)
      BY <1>6, <3>2, <3>3, ToldFields
    <3>7. /\ Told(t)'.status = LastTold(all, "new", first.status)
          /\ Told(t)'.assignee = LastTold(all, "assignee", first.assignee)
      BY <3>3, <3>5 DEF Told, Task
    <3>8. LastTold(all, "new", first.status) =
            IF old.status # row.status THEN row.status ELSE LastTold(trail[t], "new", first.status)
      BY <1>5, <1>6, <3>2, <3>4, RecordsTell
    <3>9. LastTold(all, "assignee", first.assignee) =
            IF old.assignee # row.assignee /\ row.assignee # NoUser THEN row.assignee
            ELSE LastTold(trail[t], "assignee", first.assignee)
      BY <1>5, <1>6, <3>2, <3>4, RecordsTell
    <3>10. /\ Told(t)'.status = row.status
           /\ row.assignee # NoUser => Told(t)'.assignee = row.assignee
      BY <3>1, <3>6, <3>7, <3>8, <3>9 DEF ToldOf
    <3>11. row.status = Completed /\ first.status # Completed => t \in mailed'
      <4>1. old.status = Completed /\ first.status # Completed => t \in mailed
        BY <3>1, <3>2 DEF ToldOf
      <4>2. old.status # row.status /\ row.status = Completed => t \in Mailed(t, old, row)
        BY DEF Mailed
      <4> QED
        BY <2>1, <4>1, <4>2
    <3> QED
      BY <2>5, <3>5, <3>10, <3>11 DEF ToldOf
  <2> QED
    BY <2>4, <2>5
<1>17. Traced' => ListenersFollow'
  <2>1. \A x \in Live : x \in Tasks
    BY DEF Live
  <2> QED
    BY <1>12, <1>14, <1>16, <2>1 DEF ListenersFollow
<1> QED
  BY <1>15, <1>17

\* update reads its row back and tells the clients and the listeners of it.
LEMMA KnownReadBack ==
  ASSUME TasksInv, AloneInv, Alone, FeedIsTyped, ClientsShowTasks,
         Traced => ListenersFollow, Traced' => Traced, NEW r \in Requests, ReadBackAndTell(r)
  PROVE  ClientsShowTasks' /\ (Traced' => ListenersFollow')
<1>1. PICK q : q = request[r]
  OBVIOUS
<1>2. PICK t : t = q.key.of
  OBVIOUS
<1>3. PICK old : old = q.found
  OBVIOUS
<1>4. /\ q.pc = "readBack" /\ old \in Task /\ t \in Tasks /\ UNCHANGED tasks
      /\ \E p : Goes(r, p)
      /\ \/ request'[r] = Idle /\ t \notin Live
         \/ request'[r] # Idle /\ request'[r].pc = "store" /\ t \in Live
            /\ request'[r].found = tasks[t]
  BY <1>1, <1>2, <1>3, ReadBackRow DEF ReadBackAndTell
<1>5. \A s \in Requests \ {r} : request'[s] = Idle /\ request[s] = Idle
  BY <1>1, <1>4, OthersIdle DEF Idle
<1>6. CASE request'[r] = Idle
  <2>1. \A s \in Requests, x \in Live : ~ IsWriting(s, x) /\ ~ IsWriting(s, x)'
    BY <1>1, <1>2, <1>4, <1>5, <1>6 DEF IsWriting, Idle
  <2>2. UNCHANGED <<sockets, missed, seen, trail, mailed, firstRow>>
    BY <1>6 DEF ReadBackAndTell
  <2>3. Open' = Open
    BY <2>2 DEF Open
  <2> QED
    BY <1>4, <2>1, <2>2, <2>3, KnownStays DEF TasksInv
<1>7. CASE request'[r] # Idle
  BY <1>7, KnownToldBack
<1> QED
  BY <1>6, <1>7

\* The last await of an edit tells the clients what they know.
LEMMA KnownFinished ==
  ASSUME TasksInv, AloneInv, Alone, FeedIsTyped, ClientsShowTasks,
         Traced => ListenersFollow, Traced' => Traced, NEW r \in Requests, FinishAndTell(r)
  PROVE  ClientsShowTasks' /\ (Traced' => ListenersFollow')
<1>1. PICK q : q = request[r]
  OBVIOUS
<1>2. PICK t, row : t = q.key.of /\ row = q.found
  OBVIOUS
<1>3. /\ t \in Tasks /\ row \in Task /\ UNCHANGED tasks
      /\ q.pc \in {"store", "evict", "invalidate"}
      /\ q.pc = "evict" => q.op = "remove"
  BY <1>1, <1>2, FinishedRow DEF FinishAndTell
<1>4. q \in Request
  BY <1>1, <1>3, BusyInOrder DEF Stages
<1>5. PICK p : Goes(r, p) /\ p.pc # "readBack"
  <2>1. [q EXCEPT !.pc = "invalidate"].pc = "invalidate"
    BY <1>4 DEF Request
  <2>2. [q EXCEPT !.pc = "store"].pc = "store"
    BY <1>4 DEF Request
  <2>5. Idle.pc # "readBack"
    BY DEF Idle
  <2>6. CASE Store(r)
    BY <1>1, <2>1, <2>5, <2>6 DEF Store
  <2>7. CASE Evict(r)
    BY <1>1, <2>1, <2>7 DEF Evict
  <2>8. CASE Invalidate(r)
    BY <1>1, <2>2, <2>5, <2>8 DEF Invalidate
  <2> QED
    BY <2>6, <2>7, <2>8 DEF FinishAndTell
<1>6. \A s \in Requests, x \in Tasks : ~ IsWriting(s, x) /\ ~ IsWriting(s, x)'
  <2>1. request[r] # Idle /\ request[r].pc # "readBack"
    BY <1>1, <1>3 DEF Idle
  <2> QED
    BY <1>5, <2>1, NobodyWrites
<1>7. UNCHANGED <<sockets, missed, trail, mailed, firstRow>>
  BY DEF FinishAndTell
<1>8. UNCHANGED seen \/ (Broadcast(q, row) /\ q.op # "remove")
  BY <1>1, <1>2 DEF FinishAndTell
<1>9. q.op # "remove" => row = tasks[t]
  <2>1. InOrder(q, held) /\ q # Idle
    BY <1>1, <1>3, BusyInOrder DEF Stages, Idle
  <2>2. q.key.kind = "task"
    BY <1>3, <2>1 DEF InOrder
  <2>3. HoldsCurrent(q)
    BY <1>1, <2>1 DEF AloneInv
  <2> QED
    BY <1>2, <1>3, <2>2, <2>3 DEF HoldsCurrent
<1>10. \A s \in Open, x \in Tasks : seen'[s][x] = tasks[x] \/ seen'[s][x] = seen[s][x]
  <2>1. CASE UNCHANGED seen
    BY <2>1
  <2>2. CASE Broadcast(q, row) /\ q.op # "remove"
    BY <1>2, <1>3, <1>9, <2>2, Broadcasts DEF Open
  <2> QED
    BY <1>8, <2>1, <2>2
<1>11. Open' = Open /\ missed' = missed /\ \A x \in Live : x \in Tasks
  BY <1>7 DEF Open, Live
<1> QED
  BY <1>3, <1>6, <1>7, <1>10, <1>11, KnownStays DEF TasksInv

\* A request that has found its task or answered has not written.
LEMMA FoundWritesNot ==
  ASSUME NEW q \in Request, NEW v, q.op # "create"
  PROVE  Found(q, v).pc # "readBack"
<1>1. q.op \in {"read", "update", "remove"}
  BY DEF Request
<1>2. [q EXCEPT !.pc = "write", !.found = v].pc = "write"
  BY DEF Request
<1>3. [q EXCEPT !.pc = "delete", !.found = v].pc = "delete"
  BY DEF Request
<1> QED
  BY <1>1, <1>2, <1>3 DEF Found, Idle

\* Reads, and the start of edits.
LEMMA KnownSilently ==
  ASSUME TasksInv, AloneInv, Alone, Alone', ClientsShowTasks,
         Traced => ListenersFollow, Traced' => Traced, NEW r \in Requests,
         Silently(r) \/ Read(r) \/ Update(r) \/ Remove(r), UNCHANGED feedVars
  PROVE  ClientsShowTasks' /\ (Traced' => ListenersFollow')
<1>1. UNCHANGED tasks /\ UNCHANGED <<sockets, seen, missed, trail, mailed, firstRow>>
  BY DEF Silently, Read, Update, Remove, Query, Again, Fill, feedVars
<1>2. PICK p : Goes(r, p) /\ p.pc # "readBack"
  <2>1. CASE Read(r) \/ Update(r) \/ Remove(r)
    <3>1. PICK q \in Request : Get(r, q) /\ q.pc = "query" /\ q.op # "create"
      <4>1. PICK q \in Request :
               /\ Get(r, q) /\ q.pc = "query" /\ q.key \in Keys /\ q.at \in Replicas
               /\ \/ q.op = "read" /\ UNCHANGED editors
                  \/ q.op \in {"update", "remove"} /\ Edit(q.at) /\ q.key.kind = "task"
        BY <2>1, ReadersAsk
      <4> QED
        BY <4>1
    <3> QED
      BY <3>1, GetGoes, FoundWritesNot
  <2>4. ASSUME request[r].pc \in {"query", "again", "fill"}
        PROVE  request[r] \in Request /\ request[r].op # "create"
    <3>1. InOrder(request[r], held) /\ request[r] \in Request
      BY <2>4, BusyInOrder DEF Stages
    <3> QED
      BY <2>4, <3>1 DEF InOrder
  <2>5. PICK q : q = request[r]
    OBVIOUS
  <2>6. CASE Query(r)
    <3>1. q \in Request
      BY <2>4, <2>5, <2>6 DEF Query
    <3>2. \A v : /\ [q EXCEPT !.pc = "again"].pc = "again"
                 /\ [q EXCEPT !.pc = "fill", !.found = v].pc = "fill"
      BY <3>1 DEF Request
    <3>3. \E v : \/ Goes(r, [q EXCEPT !.pc = "again"])
                 \/ Goes(r, [q EXCEPT !.pc = "fill", !.found = v])
      BY <2>5, <2>6 DEF Query
    <3> QED
      BY <3>2, <3>3
  <2>7. CASE Again(r) \/ Fill(r)
    <3>1. q \in Request /\ q.op # "create"
      BY <2>4, <2>5, <2>7 DEF Again, Fill
    <3>2. Idle.pc # "readBack"
      BY DEF Idle
    <3>3. Goes(r, Idle) \/ \E v : Goes(r, Found(q, v))
      BY <2>5, <2>7 DEF Again, Fill
    <3> QED
      BY <3>1, <3>2, <3>3, FoundWritesNot
  <2> QED
    BY <2>1, <2>6, <2>7 DEF Silently
<1>3. request[r].pc # "readBack" /\ (request[r] # Idle \/ (Begins(r) /\ ~ overlapped'))
  BY DEF Silently, Read, Update, Remove, Query, Again, Fill, Begins, Idle, Alone
<1>4. \A s \in Requests, x \in Tasks : ~ IsWriting(s, x) /\ ~ IsWriting(s, x)'
  BY <1>2, <1>3, NobodyWrites
<1>5. Open' = Open /\ missed' = missed /\ \A x \in Live : x \in Tasks
  BY <1>1 DEF Open, Live
<1> QED
  BY <1>1, <1>4, <1>5, KnownStays DEF TasksInv

\* The requests stay: what clients and listeners show of a task stays, and a
\* client that has just come shows the table.
LEMMA KnownByOthers ==
  ASSUME ClientsShowTasks, Traced => ListenersFollow, TableIsTyped,
         UNCHANGED <<tasks, request, trail, firstRow, mailed>>, Traced' => Traced,
         \A s \in Open' \ missed', t \in Live :
           seen'[s][t] = tasks[t] \/ (s \in Open \ missed /\ seen'[s][t] = seen[s][t])
  PROVE  ClientsShowTasks' /\ (Traced' => ListenersFollow')
<1>1. Live' = Live /\ \A t \in Live : t \in Tasks
  BY DEF Live
<1>2. \A r \in Requests, t \in Tasks : IsWriting(r, t)' <=> IsWriting(r, t)
  BY DEF IsWriting
<1>3. ClientsShowTasks'
  BY <1>1, <1>2 DEF ClientsShowTasks
<1>4. \A t \in Tasks : /\ ToldOf(t, tasks[t])' <=> ToldOf(t, tasks[t])
                       /\ \A r \in Requests : ToldOf(t, request[r].found)'
                                              <=> ToldOf(t, request[r].found)
  BY DEF ToldOf, Told
<1>5. ListenersFollow => ListenersFollow'
  BY <1>1, <1>2, <1>4 DEF ListenersFollow
<1> QED
  BY <1>3, <1>5

\* Every step keeps clients and listeners up to date while requests come one by
\* one.
LEMMA FeedStep ==
  ASSUME TasksInv, AloneInv, FeedInv, [FeedNext]_<<vars, feedVars>>
  PROVE  FeedInv'
<1>1. FeedIsTyped /\ FeedIsTyped'
  BY FeedTypesStep DEF FeedInv
<1> SUFFICES ASSUME Alone'
             PROVE  ClientsShowTasks' /\ (Traced' => ListenersFollow')
  BY <1>1 DEF FeedInv
<1>2. Alone => ClientsShowTasks /\ (Traced => ListenersFollow)
  BY DEF FeedInv
<1>0. /\ Traced' => Traced
      /\ Alone /\ ~ Fails
  BY TracedBefore, FeedMoves, WasAlone
<1>3. ASSUME NEW r \in Requests,
             \/ CreateAndTell(r) \/ ProceedAndTell(r)
             \/ /\ Read(r) \/ Update(r) \/ Remove(r) \/ QueryFails(r) \/ Rejects(r)
                /\ UNCHANGED feedVars
      PROVE  ClientsShowTasks' /\ (Traced' => ListenersFollow')
  <2>1. ~ QueryFails(r) /\ ~ Rejects(r)
    BY <1>0 DEF QueryFails, Rejects
  <2>2. CASE CreateAndTell(r)
    BY <1>0, <1>1, <1>2, <2>2, KnownCreated
  <2>3. CASE WriteAndTell(r)
    BY <1>0, <1>1, <1>2, <2>3, KnownWritten
  <2>4. CASE ReadBackAndTell(r)
    BY <1>0, <1>1, <1>2, <2>4, KnownReadBack
  <2>5. CASE FinishAndTell(r)
    BY <1>0, <1>1, <1>2, <2>5, KnownFinished
  <2>6. CASE (Silently(r) \/ Read(r) \/ Update(r) \/ Remove(r)) /\ UNCHANGED feedVars
    BY <1>0, <1>1, <1>2, <2>6, KnownSilently
  <2> QED
    BY <1>3, <2>1, <2>2, <2>3, <2>4, <2>5, <2>6 DEF ProceedAndTell
<1>5. ASSUME NEW p \in Replicas, NEW k \in Keys, Expire(p, k), UNCHANGED feedVars
      PROVE  ClientsShowTasks' /\ (Traced' => ListenersFollow')
  <2>1. UNCHANGED <<tasks, request, overlapped, faults>>
        /\ UNCHANGED <<sockets, seen, missed, trail, mailed, firstRow, lost>>
    BY <1>5 DEF Expire, history, feedVars
  <2>2. Open' = Open
    BY <2>1 DEF Open
  <2> QED
    BY <1>0, <1>2, <2>1, <2>2, KnownByOthers DEF TasksInv
<1>6. ASSUME NEW s \in Sockets, NEW u \in Users, Connect(s, u)
      PROVE  ClientsShowTasks' /\ (Traced' => ListenersFollow')
  <2>1. /\ UNCHANGED <<tasks, request, overlapped, faults>>
        /\ UNCHANGED <<trail, mailed, firstRow, lost>>
        /\ sockets' = [sockets EXCEPT ![s] = u]
        /\ seen' = [seen EXCEPT ![s] = tasks] /\ missed' = missed \ {s}
    BY <1>6 DEF Connect, vars, history
  <2>2. \A x \in Sockets : /\ x # s => sockets'[x] = sockets[x] /\ seen'[x] = seen[x]
                           /\ x = s => seen'[x] = tasks
    BY <1>1, <2>1 DEF FeedIsTyped
  <2>3. \A x \in Open' \ missed' : x = s \/ x \in Open \ missed
    BY <2>1, <2>2 DEF Open
  <2>4. \A x \in Open' : x \in Sockets
    BY DEF Open
  <2> QED
    BY <1>0, <1>2, <2>1, <2>2, <2>3, <2>4, KnownByOthers DEF TasksInv
<1>7. ASSUME NEW s \in Sockets, Disconnect(s)
      PROVE  ClientsShowTasks' /\ (Traced' => ListenersFollow')
  <2>1. /\ UNCHANGED <<tasks, request, overlapped, faults>>
        /\ UNCHANGED <<seen, missed, trail, mailed, firstRow, lost>>
        /\ sockets' = [sockets EXCEPT ![s] = NoUser]
    BY <1>7 DEF Disconnect, vars, history
  <2>2. \A x \in Open' : x \in Open
    BY <1>1, <2>1 DEF Open, FeedIsTyped
  <2> QED
    BY <1>0, <1>2, <2>1, <2>2, KnownByOthers DEF TasksInv
<1>8. ASSUME UNCHANGED <<vars, feedVars>>
      PROVE  ClientsShowTasks' /\ (Traced' => ListenersFollow')
  <2>1. UNCHANGED <<tasks, request, overlapped, faults>>
        /\ UNCHANGED <<sockets, seen, missed, trail, mailed, firstRow, lost>>
    BY <1>8 DEF vars, history, feedVars
  <2>2. Open' = Open
    BY <2>1 DEF Open
  <2> QED
    BY <1>0, <1>2, <2>1, <2>2, KnownByOthers DEF TasksInv
<1>9. ASSUME NEW p \in Replicas PROVE ~ RestartAndForget(p)
  BY <1>0 DEF RestartAndForget, Restart
<1> QED
  BY <1>3, <1>5, <1>6, <1>7, <1>8, <1>9 DEF FeedNext

\* At first nobody has anything to be told.
LEMMA FeedAtFirst == FeedInit => FeedInv
<1> SUFFICES ASSUME FeedInit PROVE FeedInv
  OBVIOUS
<1>1. FeedIsTyped
  BY FeedTypedAtFirst
<1>2. ClientsShowTasks
  BY DEF FeedInit, ClientsShowTasks, Open
<1>3. \A r \in Requests, t \in Tasks : ~ IsWriting(r, t)
  BY DEF FeedInit, Init, IsWriting, Idle
<1>4. ASSUME NEW t \in Live
      PROVE  ToldOf(t, tasks[t])
  <2>1. t \in Tasks /\ tasks[t] \in Task
    <3>1. TasksInv
      BY TasksAtFirst DEF FeedInit
    <3> QED
      BY <3>1, LiveRows DEF TasksInv
  <2>2. firstRow[t] = tasks[t] /\ trail[t] = <<>>
    BY <2>1 DEF FeedInit
  <2>3. /\ LastTold(trail[t], "new", tasks[t].status) = tasks[t].status
        /\ LastTold(trail[t], "assignee", tasks[t].assignee) = tasks[t].assignee
    BY <2>2, NothingTold
  <2>4. Told(t) = tasks[t]
    BY <2>1, <2>2, <2>3 DEF Told, Task
  <2> QED
    BY <2>2, <2>4 DEF ToldOf
<1>5. ListenersFollow
  <2>1. \A t \in Live : t \in Tasks
    BY DEF Live
  <2> QED
    BY <1>3, <1>4, <2>1 DEF ListenersFollow
<1> QED
  BY <1>1, <1>2, <1>5 DEF FeedInv

\* While requests come one after another the clients of a replica show what its
\* edits left, and the listeners follow the writes.
LEMMA FeedInvariant == FeedSpec => [](TasksInv /\ AloneInv /\ FeedInv)
<1>1. FeedInit => TasksInv /\ AloneInv /\ FeedInv
  BY TasksAtFirst, AloneAtFirst, FeedAtFirst DEF FeedInit
<1>2. (TasksInv /\ AloneInv /\ FeedInv) /\ [FeedNext]_<<vars, feedVars>>
        => (TasksInv /\ AloneInv /\ FeedInv)'
  BY FeedMoves, TasksStep, AloneStep, FeedStep
<1> QED
  BY <1>1, <1>2, PTL DEF FeedSpec

\* The gateway: when requests come one after another and nothing fails, a
\* client shows every live task as the table has it, unless another replica has
\* served an edit since it connected.
THEOREM ClientsAreCurrent == FeedSpec => []OrderlyFeedIsCurrent
<1>1. FeedInv => OrderlyFeedIsCurrent
  BY DEF FeedInv, ClientsShowTasks, OrderlyFeedIsCurrent, Orderly, Quiet, Alone, IsWriting, Idle
<1> QED
  BY <1>1, FeedInvariant, PTL

\* TaskAuditListener and TaskNotificationListener: if besides one replica serves
\* all edits, the trail of a live task rebuilds its status, and its assignee as
\* long as it has one, and its completion was mailed.
THEOREM ListenersKnow == FeedSpec => []ListenersKnowTask
<1>1. FeedInv => ListenersKnowTask
  BY DEF FeedInv, ListenersFollow, ToldOf, ListenersKnowTask, Orderly, Quiet, Alone,
         IsWriting, Idle, Traced, Leads
<1> QED
  BY <1>1, FeedInvariant, PTL

-----------------------------------------------------------------------------
(* Presence.                                                               *)

\* A socket belongs to a user or is closed.
SocketsTyped == sockets \in [Sockets -> Users \cup {NoUser}]

PresenceInv == SocketsTyped /\ PresenceMatchesSockets

-----------------------------------------------------------------------------
\* The map is empty at first, as no socket is open.
LEMMA InitPresence == FeedInit => PresenceInv
  BY DEF FeedInit, PresenceInv, SocketsTyped, PresenceMatchesSockets, Open, Online

\* handleConnection adds the socket to its user's set, which may be new.
LEMMA ConnectKeepsPresence ==
  ASSUME PresenceInv, NEW s \in Sockets, NEW u \in Users, Connect(s, u)
  PROVE  PresenceInv'
<1> USE DEF PresenceInv, SocketsTyped, PresenceMatchesSockets, Connect
<1>1. /\ NoUser \notin Users
      /\ sockets[s] = NoUser
      /\ sockets' = [sockets EXCEPT ![s] = u]
  BY TaskConstantsAreTyped
<1>2. SocketsTyped'
  BY <1>1
<1>3. /\ DOMAIN connectedUsers' = DOMAIN connectedUsers \cup {u}
      /\ \A v \in DOMAIN connectedUsers' :
           connectedUsers'[v] = IF v = u THEN SocketsOf(u) \cup {s} ELSE connectedUsers[v]
  OBVIOUS
<1>4. SocketsOf(u) = {x \in Open : sockets[x] = u}
  BY DEF SocketsOf, Online
<1>5. Open' = Open \cup {s}
  BY <1>1 DEF Open
<1>6. \A v \in DOMAIN connectedUsers' :
        connectedUsers'[v] = {x \in Open' : sockets'[x] = v}
  BY <1>1, <1>3, <1>4, <1>5 DEF Open
<1>7. \A v \in Users : Online(v)' <=> \E x \in Open' : sockets'[x] = v
  BY <1>1, <1>3, <1>5 DEF Online, Open
<1> QED
  BY <1>2, <1>6, <1>7

\* handleDisconnect takes the socket from its user's set, and the user from
\* the map if it was the last.
LEMMA DisconnectKeepsPresence ==
  ASSUME PresenceInv, NEW s \in Sockets, Disconnect(s)
  PROVE  PresenceInv'
<1> DEFINE u == sockets[s]
           rest == Rest(u, s)
<1> USE DEF PresenceInv, SocketsTyped, PresenceMatchesSockets
<1>1. /\ NoUser \notin Users /\ s \in Open /\ u \in Users
      /\ sockets' = [sockets EXCEPT ![s] = NoUser]
  BY TaskConstantsAreTyped DEF Disconnect, Open
<1>2. SocketsTyped'
  BY <1>1
<1>3. Open' = Open \ {s}
  BY <1>1 DEF Open
<1>4. u \in DOMAIN connectedUsers /\ rest = {x \in Open' : sockets[x] = u}
  BY <1>1, <1>3 DEF Online, Rest
<1>5. /\ DOMAIN connectedUsers' = DOMAIN connectedUsers \ (IF rest = {} THEN {u} ELSE {})
      /\ \A v \in DOMAIN connectedUsers' :
           connectedUsers'[v] = IF v = u THEN rest ELSE connectedUsers[v]
  BY DEF Disconnect
<1>6. \A x \in Open' : sockets'[x] = sockets[x] /\ x # s
  BY <1>1, <1>3 DEF Open
<1>7. \A v \in DOMAIN connectedUsers' :
        connectedUsers'[v] = {x \in Open' : sockets'[x] = v}
  <2> SUFFICES ASSUME NEW v \in DOMAIN connectedUsers'
               PROVE  connectedUsers'[v] = {x \in Open' : sockets'[x] = v}
    OBVIOUS
  <2>1. CASE v = u
    <3>1. {x \in Open' : sockets'[x] = v} = {x \in Open' : sockets[x] = u}
      BY <2>1, <1>6
    <3>2. connectedUsers'[v] = rest
      BY <2>1, <1>5
    <3> HIDE DEF u, rest
    <3> QED
      BY <3>1, <3>2, <1>4
  <2>2. CASE v # u
    BY <2>2, <1>1, <1>3, <1>5, <1>6
  <2> QED
    BY <2>1, <2>2
<1>8. \A v \in Users : Online(v)' <=> \E x \in Open' : sockets'[x] = v
  <2> SUFFICES ASSUME NEW v \in Users
               PROVE  Online(v)' <=> \E x \in Open' : sockets'[x] = v
    OBVIOUS
  <2>1. CASE v = u
    BY <2>1, <1>4, <1>5, <1>6 DEF Online
  <2>2. CASE v # u
    BY <2>2, <1>1, <1>3, <1>5, <1>6 DEF Online
  <2> QED
    BY <2>1, <2>2
<1> QED
  BY <1>2, <1>7, <1>8

\* Requests and expiry do not touch the gateway's map.
LEMMA OthersKeepPresence ==
  ASSUME PresenceInv, UNCHANGED <<sockets, connectedUsers>>
  PROVE  PresenceInv'
  BY DEF PresenceInv, SocketsTyped, PresenceMatchesSockets, Open, Online

\* A restart closes the sockets and empties the map, or is another replica's.
LEMMA RestartKeepsPresence ==
  ASSUME PresenceInv, NEW p \in Replicas, RestartAndForget(p)
  PROVE  PresenceInv'
<1>1. CASE p = Here
  <2>1. sockets' = [s \in Sockets |-> NoUser] /\ connectedUsers' = [u \in {} |-> {}]
    BY <1>1 DEF RestartAndForget
  <2>2. Open' = {}
    BY <2>1 DEF Open
  <2> QED
    BY <2>1, <2>2 DEF PresenceInv, SocketsTyped, PresenceMatchesSockets, Online
<1>2. CASE p # Here
  BY <1>2, OthersKeepPresence DEF RestartAndForget
<1> QED
  BY <1>1, <1>2

\* However users connect and disconnect and replicas restart, the gateway holds
\* a user online exactly while one of his sockets is open, with those sockets.
THEOREM PresenceIsTrue == FeedSpec => []PresenceMatchesSockets
<1>1. ASSUME PresenceInv, [FeedNext]_<<vars, feedVars>>
      PROVE  PresenceInv'
  <2>1. CASE \E s \in Sockets, u \in Users : Connect(s, u)
    BY <1>1, <2>1, ConnectKeepsPresence
  <2>2. CASE \E s \in Sockets : Disconnect(s)
    BY <1>1, <2>2, DisconnectKeepsPresence
  <2>3. ASSUME NEW r \in Requests,
               CreateAndTell(r) \/ ProceedAndTell(r)
        PROVE  UNCHANGED <<sockets, connectedUsers>>
    BY <2>3 DEF CreateAndTell, ProceedAndTell, WriteAndTell, ReadBackAndTell, FinishAndTell,
                feedVars
  <2>4. CASE UNCHANGED feedVars
    BY <1>1, <2>4, OthersKeepPresence DEF feedVars
  <2>5. ASSUME NEW p \in Replicas, RestartAndForget(p)
        PROVE  PresenceInv'
    BY <1>1, <2>5, RestartKeepsPresence
  <2> QED
    BY <1>1, <2>1, <2>2, <2>3, <2>4, <2>5, OthersKeepPresence DEF FeedNext
<1>2. PresenceInv => PresenceMatchesSockets
  BY DEF PresenceInv
<1> QED
  BY InitPresence, <1>1, <1>2, PTL DEF FeedSpec
=============================================================================
