----------------------------- MODULE TaskCache ------------------------------
(***************************************************************************)
(* The tasks of one tenant and project with their cached views: the        *)
(* requests of TasksService and the dashboard over CacheService.  A read   *)
(* asks the cache, on a miss the database, and stores the answer; an edit  *)
(* commits to the database, then stores or deletes the cached task and     *)
(* calls for the deletion of the other views, one await at a time.         *)
(* Requests interleave at every await.  The events of edits are in         *)
(* TaskFeed.                                                               *)
(*                                                                         *)
(* Each replica has a cache of its own, in its memory: cache.module.ts     *)
(* passes its Redis store as `store', which the locked cache module does   *)
(* not read, so cache-manager falls back on a Keyv in memory.  For the     *)
(* same version cacheManager.stores is an array, whose keys() has no       *)
(* length: delPattern deletes nothing.  Errors of the cache are swallowed, *)
(* those of the database reject the request.                               *)
(***************************************************************************)
EXTENDS Naturals, FiniteSets

CONSTANTS
  Tasks,      \* ids of tasks
  Users,
  NoUser,     \* no assignee; as owner of a dashboard, the whole tenant
  Statuses,
  Replicas,   \* the processes that serve requests
  Requests,   \* requests that can be in progress at once
  Views,      \* bound: the keys that are ever read
  Dtos,       \* bound: the changes that are asked for
  MaxEdits,   \* bound: creations, updates and removals
  MaxFaults,  \* bound: failing calls of the database or the cache, and restarts
  NoTask,     \* the absence of a row
  Absent      \* the absence of a cache entry

ASSUME TaskConstantsAreTyped ==
  /\ IsFiniteSet(Tasks)
  /\ MaxEdits \in Nat /\ MaxFaults \in Nat
  /\ NoUser \notin Users

Assignees == Users \cup {NoUser}

\* A row; a soft-deleted one stays in the table.
Task == [status : Statuses, assignee : Assignees, deleted : BOOLEAN]

ASSUME NoTaskIsNoRow == NoTask \notin Task

\* The fields an UpdateTaskDto sets; an assigneeId of null takes the assignee
\* away.
Changes == [status : Statuses] \cup [assignee : Assignees]
           \cup [status : Statuses, assignee : Assignees]

\* CacheKeys.task, taskList, taskStats with and without project, dashboard.
Key(kind, of) == [kind |-> kind, of |-> of]

Keys == [kind : {"task"}, of : Tasks]
        \cup [kind : {"list", "stats", "projectStats"}, of : {NoUser}]
        \cup [kind : {"dashboard"}, of : Assignees]

ASSUME ViewsAreKeys == Views \subseteq Keys

ASSUME DtosAreChanges == Dtos \subseteq Changes

VARIABLES
  tasks,       \* the table tasks
  cache,       \* the cache of each replica, by key
  request,     \* the requests in progress
  held,        \* history: every row a task ever had
  overlapped,  \* history: two requests were once in progress together
  editors,     \* history: the replicas that served an edit
  edits, faults

history == <<held, overlapped, editors>>
vars == <<tasks, cache, request, history, edits, faults>>

-----------------------------------------------------------------------------
(* What a fresh read of each view gives.                                   *)

Live == {t \in Tasks : tasks[t] # NoTask /\ ~ tasks[t].deleted}

Counts(ts) == [s \in Statuses |-> Cardinality({t \in ts : tasks[t].status = s})]

\* DashboardService.getTaskStats counts the user's tasks, or all.
OnDashboard(u) == {t \in Live : u = NoUser \/ tasks[t].assignee = u}

View(k) ==
  CASE k.kind = "task" -> tasks[k.of]
    [] k.kind = "list" -> [t \in Live |-> tasks[t]]
    [] k.kind \in {"stats", "projectStats"} -> Counts(Live)
    [] k.kind = "dashboard" -> Counts(OnDashboard(k.of))

\* Faulty variant: what is missing is cached like a task.
NothingIsMissing(k) == FALSE

\* findById answers null for what is not there and what was removed.
Missing(k) == k.kind = "task" /\ k.of \notin Live

\* The answers that can be cached under a key.
Answers(k) ==
  CASE k.kind = "task" -> Task
    [] k.kind = "list" -> UNION {[ts -> Task] : ts \in SUBSET Tasks}
    [] OTHER -> [Statuses -> Nat]

-----------------------------------------------------------------------------
(* Requests.                                                               *)

Idle == [pc |-> "idle"]

NoChange == [none |-> TRUE]

TypeOK ==
  /\ tasks \in [Tasks -> Task \cup {NoTask}]
  /\ \A p \in Replicas, k \in Keys :
       cache[p][k] # Absent => cache[p][k] \in Answers(k)
  /\ \A r \in Requests : request[r] # Idle =>
       /\ request[r].pc \in {"query", "again", "fill", "write", "readBack",
                             "store", "delete", "evict", "invalidate"}
       /\ request[r].op \in {"read", "create", "update", "remove"}
       /\ request[r].at \in Replicas
       /\ request[r].key \in Keys
       /\ request[r].found \in Answers(request[r].key) \cup {Absent}
  /\ overlapped \in BOOLEAN /\ editors \subseteq Replicas
  /\ edits \in Nat /\ faults \in Nat

\* The tasks there are when the caches are empty.
Init ==
  /\ tasks \in [Tasks -> {row \in Task : ~ row.deleted} \cup {NoTask}]
  /\ cache = [p \in Replicas |-> [k \in Keys |-> Absent]]
  /\ request = [r \in Requests |-> Idle]
  /\ held = [t \in Tasks |-> {tasks[t]} \ {NoTask}]
  /\ overlapped = FALSE /\ editors = {}
  /\ edits = 0 /\ faults = 0

\* Request r starts.
Begins(r) ==
  /\ request[r] = Idle
  /\ overlapped' = (overlapped \/ \E s \in Requests \ {r} : request[s] # Idle)

\* Replica p is asked for an edit.
Edit(p) ==
  /\ edits < MaxEdits
  /\ edits' = edits + 1
  /\ editors' = editors \cup {p}

Goes(r, q) == request' = [request EXCEPT ![r] = q]

Fails == faults < MaxFaults /\ faults' = faults + 1

\* getOrSet has found v: a read is answered, an edit goes on.
Found(q, v) ==
  CASE q.op = "read"   -> Idle
    [] q.op = "update" -> [q EXCEPT !.pc = "write", !.found = v]
    [] q.op = "remove" -> [q EXCEPT !.pc = "delete", !.found = v]

\* The request asks its replica's cache first; get may also fail and count as a
\* miss.
Get(r, q) ==
  \/ /\ cache[q.at][q.key] # Absent
     /\ Goes(r, Found(q, cache[q.at][q.key]))
     /\ UNCHANGED faults
  \/ /\ cache[q.at][q.key] = Absent
     /\ Goes(r, q)
     /\ UNCHANGED faults
  \/ /\ cache[q.at][q.key] # Absent
     /\ Fails
     /\ Goes(r, q)

Asks(p, op, k, change) == [pc |-> "query", at |-> p, op |-> op, key |-> k,
                           change |-> change, found |-> Absent]

\* findAll, findOne, getStatsByStatus, getStats.
Read(r) ==
  /\ Begins(r)
  /\ \E p \in Replicas, k \in Views : Get(r, Asks(p, "read", k, NoChange))
  /\ UNCHANGED <<tasks, cache, held, editors, edits>>

Update(r) ==
  /\ Begins(r)
  /\ \E p \in Replicas, t \in Tasks, c \in Dtos :
       Edit(p) /\ Get(r, Asks(p, "update", Key("task", t), c))
  /\ UNCHANGED <<tasks, cache, held>>

Remove(r) ==
  /\ Begins(r)
  /\ \E p \in Replicas, t \in Tasks :
       Edit(p) /\ Get(r, Asks(p, "remove", Key("task", t), NoChange))
  /\ UNCHANGED <<tasks, cache, held>>

\* The database answers a miss; the several counts of a dashboard are taken
\* as one answer.  A missing task makes wrap ask once more.
Query(r) ==
  /\ request[r].pc = "query"
  /\ Goes(r, IF Missing(request[r].key)
             THEN [request[r] EXCEPT !.pc = "again"]
             ELSE [request[r] EXCEPT !.pc = "fill",
                                     !.found = View(request[r].key)])
  /\ UNCHANGED <<tasks, cache, history, edits, faults>>

QueryFails(r) ==
  /\ request[r].pc = "query"
  /\ Fails
  /\ Goes(r, [request[r] EXCEPT !.pc = "again"])
  /\ UNCHANGED <<tasks, cache, history, edits>>

\* The catch block of wrap: this answer is not cached.
Again(r) ==
  /\ request[r].pc = "again"
  /\ Goes(r, IF Missing(request[r].key)
             THEN Idle
             ELSE Found(request[r], View(request[r].key)))
  /\ UNCHANGED <<tasks, cache, history, edits, faults>>

\* set of CacheService, which swallows the error of the store.
Set(p, k, v) ==
  \/ cache' = [cache EXCEPT ![p][k] = v] /\ UNCHANGED faults
  \/ Fails /\ UNCHANGED cache

\* Faulty variant: the call is missing.
DelNothing(p, k) == UNCHANGED <<cache, faults>>

\* del of CacheService.
Del(p, k) == Set(p, k, Absent)

Fill(r) ==
  /\ request[r].pc = "fill"
  /\ Set(request[r].at, request[r].key, request[r].found)
  /\ Goes(r, Found(request[r], request[r].found))
  /\ UNCHANGED <<tasks, history, edits>>

\* The database rejects any other call: so does the request.
Rejects(r) ==
  /\ request[r].pc \in {"again", "write", "readBack", "delete"}
  /\ Fails
  /\ Goes(r, Idle)
  /\ UNCHANGED <<tasks, cache, history, edits>>

-----------------------------------------------------------------------------
(* Edits and their invalidation.                                           *)

Record(t, row) ==
  /\ tasks' = [tasks EXCEPT ![t] = row]
  /\ held' = [held EXCEPT ![t] = @ \cup {row}]

\* TasksService.create: after the validation the row is saved, the caches are
\* to be invalidated and the task is cached.
Create(r) ==
  /\ Begins(r)
  /\ \E p \in Replicas, t \in Tasks, s \in Statuses, u \in Assignees :
       LET row == [status |-> s, assignee |-> u, deleted |-> FALSE]
           q == Asks(p, "create", Key("task", t), NoChange)
       IN  /\ Edit(p)
           /\ tasks[t] = NoTask
           /\ Record(t, row)
           /\ Goes(r, [q EXCEPT !.pc = "invalidate", !.found = row])
  /\ UNCHANGED <<cache, faults>>

\* The UPDATE commits; it does not look at deletedAt.
Write(r) ==
  /\ request[r].pc = "write"
  /\ LET t == request[r].key.of
         c == request[r].change
     IN  Record(t, [f \in DOMAIN tasks[t] |->
                      IF f \in DOMAIN c THEN c[f] ELSE tasks[t][f]])
  /\ Goes(r, [request[r] EXCEPT !.pc = "readBack"])
  /\ UNCHANGED <<cache, overlapped, editors, edits, faults>>

\* Faulty variant: the old task with the client's changes stands for the row.
UpdatedMerged(q) ==
  [f \in DOMAIN q.found |-> IF f \in DOMAIN q.change THEN q.change[f] ELSE q.found[f]]

\* updatedTask
Updated(q) == tasks[q.key.of]

\* findById reads the row back.
ReadBack(r) ==
  /\ request[r].pc = "readBack"
  /\ LET q == request[r]
     IN  Goes(r, IF q.key.of \in Live
                 THEN [q EXCEPT !.pc = "store", !.found = Updated(q)]
                 ELSE Idle)
  /\ UNCHANGED <<tasks, cache, history, edits, faults>>

\* The task is cached; in update the invalidation follows.
Store(r) ==
  /\ request[r].pc = "store"
  /\ Set(request[r].at, request[r].key, request[r].found)
  /\ Goes(r, IF request[r].op = "create"
             THEN Idle ELSE [request[r] EXCEPT !.pc = "invalidate"])
  /\ UNCHANGED <<tasks, history, edits>>

\* softDelete; it finds the row even if it was removed before.
Delete(r) ==
  /\ request[r].pc = "delete"
  /\ Record(request[r].key.of, [tasks[request[r].key.of] EXCEPT !.deleted = TRUE])
  /\ Goes(r, [request[r] EXCEPT !.pc = "evict"])
  /\ UNCHANGED <<cache, overlapped, editors, edits, faults>>

Evict(r) ==
  /\ request[r].pc = "evict"
  /\ Del(request[r].at, request[r].key)
  /\ Goes(r, [request[r] EXCEPT !.pc = "invalidate"])
  /\ UNCHANGED <<tasks, history, edits>>

\* invalidateTaskCaches calls delPattern for the lists, the statistics and the
\* dashboards; it lists no key and deletes none.
Invalidate(r) ==
  /\ request[r].pc = "invalidate"
  /\ Goes(r, IF request[r].op = "create"
             THEN [request[r] EXCEPT !.pc = "store"] ELSE Idle)
  /\ UNCHANGED <<tasks, cache, history, edits, faults>>

\* A replica dies with its requests and its cache; its successor starts with
\* an empty one.
Restart(p) ==
  /\ Fails
  /\ request' = [r \in Requests |->
       IF request[r] # Idle /\ request[r].at = p THEN Idle ELSE request[r]]
  /\ cache' = [cache EXCEPT ![p] = [k \in Keys |-> Absent]]
  /\ UNCHANGED <<tasks, history, edits>>

\* Faulty variant: cached tasks have no time to live.
ExpireAllButTasks(p, k) ==
  /\ k.kind # "task" /\ cache[p][k] # Absent
  /\ cache' = [cache EXCEPT ![p][k] = Absent]
  /\ UNCHANGED <<tasks, request, history, edits, faults>>

\* Every entry has a time to live.  invalidateCache of the dashboard is meant
\* to delete entries too; it does so one by one, and adds no other step.
Expire(p, k) ==
  /\ cache[p][k] # Absent
  /\ cache' = [cache EXCEPT ![p][k] = Absent]
  /\ UNCHANGED <<tasks, request, history, edits, faults>>

Proceed(r) ==
  \/ Query(r) \/ Again(r) \/ Fill(r)
  \/ Write(r) \/ ReadBack(r) \/ Store(r)
  \/ Delete(r) \/ Evict(r) \/ Invalidate(r)

Next ==
  \/ \E r \in Requests :
       \/ Read(r) \/ Create(r) \/ Update(r) \/ Remove(r)
       \/ Proceed(r) \/ QueryFails(r) \/ Rejects(r)
  \/ \E p \in Replicas : Restart(p) \/ \E k \in Keys : Expire(p, k)

Spec == Init /\ [][Next]_vars

\* Awaits resume and entries expire.
FairSpec ==
  /\ Spec
  /\ \A r \in Requests : WF_vars(Proceed(r))
  /\ \A p \in Replicas, k \in Keys : WF_vars(Expire(p, k))

-----------------------------------------------------------------------------
(* Properties.                                                             *)

Quiet == \A r \in Requests : request[r] = Idle

\* Requests have come one after another and nothing failed.
Orderly == Quiet /\ ~ overlapped /\ faults = 0

Fresh(p, k) == cache[p][k] \in {Absent, IF Missing(k) THEN Absent ELSE View(k)}

\* When requests come one after another and nothing fails, what a replica that
\* serves all edits has cached of a task is its row, and nothing of one that is
\* gone.  It does not hold for lists, statistics and dashboards, and not in the
\* caches of other replicas: those are stale until their entries expire.
OrderlyTaskIsFresh ==
  \A p \in Replicas : Orderly /\ editors \subseteq {p} =>
    \A t \in Tasks : Fresh(p, Key("task", t))

\* However requests interleave and fail, on however many replicas, a cached
\* task is a row the table once held, never a mixture of two edits.
CachedTaskExisted ==
  \A p \in Replicas, t \in Tasks :
    cache[p][Key("task", t)] # Absent => cache[p][Key("task", t)] \in held[t]

\* However requests interleave and fail, once edits stop every view becomes
\* fresh and stays so: a stale fill lives no longer than its entry.
CacheBecomesFresh == <>[](\A p \in Replicas, k \in Keys : Fresh(p, k))
=============================================================================
