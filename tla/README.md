# TLA+ verification of the taskflow backend

This directory is the verification project of the backend in `src/backend` (NestJS,
TypeORM on PostgreSQL, RabbitMQ, a cache, Socket.IO; three replicas in
`src/k8s/deployment.yaml`). Paths below are relative to `src/backend/src`.
`PROJECT.json` lists the components, the runs, the source lines behind every
definition, the hazards, the mutants and the theorems.

## 1. Inventory

The system is a multi-tenant task manager. A request changes tasks or projects,
invalidates cached views and emits events in the process. Around that stands a
messaging back end of five services, each with a table of its own.

| Component | State | Operations | Correct when |
|---|---|---|---|
| Event store (`modules/event-store`) | table `event_store`, unique (aggregateId, version) | appendEvent, getAggregateEvents, rebuildAggregate, replayEvents | histories have no gap, one type per id, the rebuild is the newest value of each property |
| Outbox (`modules/outbox`) | `outbox_messages` | create, processOutbox (every 5 s, not awaited), cleanupOldMessages | nothing lost, nothing marked processed unpublished, nothing given up early, everything settles |
| RabbitMQ adapter (`common/rabbitmq`) | connection, channel, two queues | publish, consume, handlers | no delivery acknowledged without being handled |
| Inbox (`modules/inbox`) | `inbox_messages`, unique messageId | processMessage, cleanupExpired, getStuckMessages, retryMessage | a message is handled, once; failures are on record |
| Dead letters (`modules/dlq`) | `dead_letter_queue` | checkStuckMessages (hourly), addToDeadLetter, retryMessage, markAsResolved | a letter stands for a message that failed that often; each such message gets one |
| Saga engine (`modules/saga`) | `saga_executions`, the entity in memory | registerSaga, executeSaga, compensate | all steps in effect, or the completed ones undone in reverse; the row says which |
| Create-project saga (`modules/projects/sagas`) | a `context` field shared by executions | four steps, four compensations | an execution undoes what it did, not what another did |
| Tasks (`modules/tasks`) | `tasks`, cached task, list, statistics | create, findAll, findOne, update, remove, statistics | what is read is what was written; each change emits its events |
| Cache (`common/cache`) | entries in the memory of each replica | get, set, del, delPattern, wrap, increment | no stale value outlives its invalidation |
| Projects, Dashboard | `projects`, cached lists, details, counts | create, update, remove, reads | keys unique, cached fields and counts fresh |
| Webhooks (`modules/webhooks`) | `webhooks`; deliveries and failure counts in memory only | create, update, delete, handleEvent, triggerWebhook, retryDelivery | each event posted once to each hook that takes it |
| Realtime gateway (`modules/realtime`) | sockets per user and process, rooms | connect, disconnect, subscribe, broadcast | presence matches connections, clients show current rows |
| Audit, Notifications | `audit_logs`, mail | listeners on events | the trail rebuilds a task, completions are mailed |
| Rate limit (`common/guards`) | counter with expiry in the cache | canActivate | no more than the limit per window |
| Auth (`modules/auth`) | `users`, `tenants` | register, login | one tenant per subdomain, each with its administrator; refusals are justified |
| Request pipeline, DTOs, configuration, migrations, seeds, deployment | none over time | | unit tests reach them |

Interactions. TasksService calls the cache and the event emitter; audit,
notification, webhook and realtime listeners run on the emitter without being
awaited. The outbox relay calls RabbitMQ; the broker routes a message to two
queues; each consumer callback calls the inbox, whose handler emits again. The
dead-letter service reads the inbox. The saga engine calls the steps of a saga.
Most of this is wired loosely: in this commit nothing calls `outbox.create`,
`appendEvent`, `startConsumers` or `cleanupExpired`. The models take the services
at their word: every public operation may be called by anybody at any time.

Hard behaviours. Every `await` is a point where other requests, timers and
replicas interleave. No row is ever locked and `save()` writes back a whole
entity read earlier. One transaction spans two statements, the registration's; a
read-through cache stands before most tables. Timers run on every replica and do
not wait for their previous run. The broker redelivers what was not
acknowledged, and forgets what is nacked. Any save may fail, any replica may die
between two statements.

## 2. Modules

| Module | Models | Built on |
|---|---|---|
| `EventStore` | appendEvent of any number of concurrent callers | |
| `AggregateHistory` | getAggregateEvents, rebuildAggregate, replayEvents; the mapping to `EventLog` | `EventStore` |
| `EventLog` | abstract: one append-only log per aggregate id | |
| `EventStoreProofs` | theorems about `EventStore` | `EventStore` |
| `AggregateHistoryProofs` | theorems: the store implements `EventLog`, what a replay and a rebuild give | `AggregateHistory`, `EventStoreProofs` |
| `Outbox` | create, overlapping runs of processOutbox, clean-up, the answers of publish | |
| `OutboxProofs` | theorems about `Outbox` | `Outbox` |
| `Inbox` | broker queues, deliveries, acknowledgements, processMessage, clean-up | |
| `Dlq` | the dead-letter service over the inbox | `Inbox` |
| `DlqProofs` | theorems about `Inbox` and `Dlq` | `Dlq` |
| `Saga` | executeSaga and compensate of several executions in one process | |
| `SagaPromise` | abstract: steps in order, kept or taken back in reverse | |
| `CreateProjectSaga` | the four steps of the saga, its shared context, the projects and tasks | `Saga` |
| `SagaProofs` | theorems about `Saga`, its promise and `CreateProjectSaga` | `CreateProjectSaga` |
| `TaskCache` | the requests of TasksService and the dashboard over the cache | |
| `TaskFeed` | the events of these requests, sockets and presence, audit trail, mail | `TaskCache` |
| `TaskFeedProofs` | theorems about `TaskCache` and `TaskFeed` | `TaskFeed` |
| `Webhooks` | hooks, their edits, and the handling of events | |
| `WebhooksProofs` | theorems about `Webhooks` | `Webhooks` |
| `TenantDirectory` | abstract: one directory in which a subdomain is entered once, at once with its administrator | |
| `Accounts` | registration and login; the mapping to `TenantDirectory` | |
| `Projects` | ProjectsService over the cache, for clients with a token | `Accounts` |
| `TenancyProofs` | theorems about `Accounts` and `Projects` | `Projects` |
| `MC*` | instances for TLC | |

How state and actions correspond to code:

- **EventStore.** `events` is the table; `writer[w]` is one call of appendEvent
  with what it holds in local variables. `FindLast` is the answered `findOne`,
  `CreateEntity` the synchronous stretch that stamps `new Date()`, `Save` and
  `SaveConflict` the insert, which the unique index may refuse. `Abort` is a
  database error or a crash; appendEvent does not retry. `MaxSkew` is how far
  the clock of a replica may run ahead.
- **AggregateHistory.** `Rebuild` is the loop of rebuildAggregate over the rows by
  version, as a recursive function (`RebuildFrom`): object spread is `@@`, an
  absent property is `Undefined`. `RebuildMatchesHistory` says the same without
  a loop, from the set of events. `Replays` are the
  orders in which replayEvents may emit what it selects: the query sorts by
  time only. `ReplayIsPrefix` counts: the k-th event of an aggregate that a
  replay gives is its version k.
- **Outbox.** `outbox` is the table, `copy[r]` the entities a run still has to
  work through, oldest first, `pc[r]` the await it stands at. A save replaces
  the whole row by the copy (`WriteBack`). `publish` may answer either way;
  both answers count as an attempt. `overlapped` records that two runs were
  ever in progress together.
- **Inbox.** `waiting` is the broker, `worker[w]` a consumer callback in flight
  with the entity it holds and the replica it runs on. `connected` are the
  replicas whose one channel is open (`rabbitmq.service.ts` 8, 25). A lost
  connection queues all deliveries of the replica again (`LoseConnection`) while
  their callbacks run on; the first of them to answer throws out of `ack` and
  out of `nack`, and the replica dies with the others (`AnswerOnClosedChannel`),
  unless the unhandled error event of the connection ends it before (`Notice`).
  `Crash` takes all deliveries of a replica too. A successor connects at once.
  The broker and amqplib are modelled by how `rabbitmq.service.ts` uses them.
- **Dlq.** `letters` is the table, `checker[c]` the rows a run of
  checkStuckMessages has read and not yet moved, `admin[a]` a retryMessage
  between emit and save. `failures` and `runs` count what the inbox did.
- **Saga.** `execution` is the entity in memory, `row` what was last saved. Each
  save, each execute() and each compensate() is a step; each may fail. A crash
  takes all executions of the process at once.
- **CreateProjectSaga.** `current` is the execution whose context the field
  `this.context` refers to; a step reads the field when it is called, before
  its first await (`local`), and `part` counts the awaits it has passed. A
  result is written to the context of the execution it belongs to, so another
  execution's step may find it missing, or find another's. `projects` and
  `tasks` are kept by the execution that made them.
- **TaskCache.** `tasks` is the table, `cache[p]` the cache of replica p,
  `request[r]` one request with what it holds across awaits and the replica it
  runs on (`at`). A read is `Get`, `Query`, `Fill`; the retry of `wrap` after an
  error is `Again`, whose answer is not cached. An update finds the task
  (perhaps in the cache), writes the fields of its change (an assignee of
  `NoUser` is the `null` that `IsOptional` lets through), reads back, stores the
  task and calls for the invalidation; the other edits likewise. `held` are the
  rows a task ever had, `editors` the replicas that served an edit. The cache is
  external and taken at the versions `package-lock.json` locks: the cache module
  does not read the `store` that `cache.module.ts` (line 16) passes, so a replica
  caches in its own memory; and `stores` is an array, whose `keys()` has no
  length, so `delPattern` (`cache.service.ts` 56-82) deletes nothing
  (`Invalidate`).
- **TaskFeed.** The steps of `TaskCache` that emit are extended by their
  listeners (`CreateAndTell`, `ReadBackAndTell`, `FinishAndTell`). `sockets` are
  the connections of one replica, `connectedUsers` its map; `seen[s]` is what a
  client shows that loads the tasks when it connects and then takes every row
  it is sent. The gateway is that of the replica `Here`; requests on other
  replicas reach other sockets, and `missed` records the ones they passed by.
  `trail` keeps the records that carry a field (`Told` reads a task's row from
  the last record of each field), `mailed` the tasks whose
  creator was told; both listeners may fail, which the emitter logs (`lost`).
- **Webhooks.** `handling[e]` is the run of handleEvent for an event, with the
  hooks it has still to post to; a post arrives or fails and the loop goes on
  either way. `Relevant` is the filter as it is, by the constructor's name:
  only `'*'` ever matches. `wanted` and `ready` record which hooks were
  subscribed throughout, or at some time, between the emission and the read.
- **Accounts.** `request[c]` is the request a client waits for. Nothing a
  transaction wrote is in `tenants` and `users` before `Commit`; the unique
  index is `MustWait` (an insert waits for an open transaction with the same
  subdomain) and the refusal in `SaveTenant`. A lost reply leaves a committed
  tenant and a client without token. `Directory` reads a directory off the
  committed users (`EntryOf`); a transaction in progress is nothing there yet.
- **Projects.** `cachedList` and `cachedOne` are the two cached views of the
  replica `Here`; on another one a read may hit or miss (`Hit`, `Miss`). findOne is
  `Ask`, `QueryOne`, `FillOne`, and update goes through it twice. A `set` or `del`
  may fail unheard (`SetList`, `SetOne`), a query may fail (`QueryOneFails`,
  `Rejects`), the UPDATE may commit unheard (`WriteUnheard`) and a replica restart
  with an empty cache. `undeleted` records that a deletion failed or was not
  reached after a commit. What removal and creation leave in the caches stays
  there until `Expire`.

Operators commented "Faulty variant" are not part of any specification. Each
is a plausible bug in one operator of the code; `PROJECT.json` pairs it with a
property that must notice.

## 3. Runs

Passing runs.

| Run | Bounds | Shows |
|---|---|---|
| `EventStore` | 2 ids, 2 types, 3 callers, 3 events, 2 ticks, agreeing clocks; for the rebuild their contents are any of 4 kinds and 3 payloads | no gaps, one type per id, time follows version, a replay is a beginning of each history, refinement of `EventLog`; the fold gives each property its newest value and counts the events |
| `Outbox` | 2 overlapping runs, 2 messages, batch 1, limit 2, 2 faults | no false mark, no loss, no early give-up; forward-only rows and bounded publishes while runs do not overlap; every message settles |
| `Dlq` | 1 message, 2 queues, 2 workers on 2 replicas, 1 copy per queue, 2 faults in all (crashes, lost connections, failing calls, clean-ups), 1 hourly check, 1 administrator, limit 2 | acknowledgements, rows and letters never lie; failures are remembered; without collisions rows only advance; while no connection breaks and no call fails, the last copy of a message settles it and every arrival is settled |
| `Saga` | 2 executions of 4 steps, 2 keys, 1 failing save, 1 crash; steps and compensations fail | row against effects and against projects and tasks, order of compensation, termination |
| `TaskCache` | 1 task, 1 user, 2 statuses, 2 replicas, 2 requests, 2 edits of one field each, 1 fault (a failing call or a restart); the task is read | a fresh cached task where one replica took all edits, one after another; no invented row; staleness ends |
| `TaskFeed` | 1 task, 1 user, 2 statuses, 2 replicas, 1 request at a time, 2 edits of both fields, 1 fault, 2 sockets, 2 connections made | presence is the open sockets; clients, trail and mail agree with the table after requests that do not overlap |
| `Webhooks` | 2 hooks, 2 events, 1 edit, 1 fault; posts fail freely | at most one post, to hooks that were ready; every hook that takes an event has its turn |
| `Tenancy` | 2 clients, 2 tenants, 2 subdomains, 1 email, 3 attempts, 1 fault (a failing query, cache call or transaction, a lost reply or a restart), 2 replicas, 2 projects, 2 keys, 2 edits | whole registrations, justified refusals, unique keys, and current cached fields where one replica took all updates and its deletions succeeded; registration refines `TenantDirectory` |

Violation runs (each is a disagreement of the code with its own words, listed
under "findings").

| Run | Property | What happens |
|---|---|---|
| `InboxQueues` | `EachQueueServed` | both queues share the inbox key: the second handler never runs, yet its message is acknowledged |
| `StuckCrowdedOut` | `StuckReachDlq` | the batch of the hourly check is the oldest unprocessed rows, whatever their count (`inbox.service.ts` 89-96): a row below the limit, whose message will not come again, keeps a younger one that has reached it from its dead letter for good |
| `SagaLostStep` | `CompletedStepsCompensated` | the save after a step fails, and the completed step is not compensated |
| `WebhookNames` | `SubscribersAreTried` | subscriptions by event name match nothing: every payload's constructor is named 'Object' |

More defects are plain from the models, have no run of their own, and are the
reason for a condition in a property that does hold:

- the hourly check never changes the inbox rows it has moved, so it writes the
  same letters again every hour and on every replica;
- two deliveries of a message in flight at once both run its handler, and save
  their stale copies over each other's rows (`HandledOncePerFault` and
  `InboxRowsAdvance` exempt the messages in `collided`);
- one lost connection can lose a message though the database never fails
  (`LastCopySettles` and `EveryArrivalSettles` except it): a delivery that goes on
  after its connection broke inserts the row, its redelivery collides with
  that row and is dropped, and the first, or another delivery of its process,
  answers on the closed channel, so the process dies before the handler has run.
  What is left is a row with no failure counted, which no check moves to the
  dead letters;
- of two overlapping executions of the create-project saga, one can put its
  tasks into, or remove, the project of the other (`RowTellsProjectWhenAlone`
  exempts `overlapped`);
- pattern deletion deletes nothing with the locked cache-manager, so after every
  edit the lists, statistics and dashboards of tasks are stale until they expire
  (`OrderlyTaskIsFresh` is about the cached task only). With one that listed its
  keys the statistics of a project (`tasks.service.ts` 248-250) would be stale
  still: no invalidation names their key;
- each replica caches in its own memory, so an edit leaves what the others have
  cached of the task or project stale until it expires, and an update there may
  tell listeners a wrong old status (`OrderlyTaskIsFresh`, `ListenersKnowTask` and
  `OrderlyCacheShowsFields` speak of edits that all came to one replica);
- a deletion from the cache that fails is swallowed, and one that is not reached
  after a commit is not made up for (`undeleted` in `OrderlyCacheShowsFields`);
- an update that takes a task's assignee away emits no `task.assigned`
  (`tasks.service.ts` 190), so the audit trail keeps the old one
  (`ListenersKnowTask` asks for the assignee only while there is one);
- a created or removed project does not leave the cached list, and two racing
  creations or an update make two projects share a key;
- a client misses the edits that another replica serves, and of two accounts
  with one email one cannot log in.

Why the bounds are enough. The hazards are races of two actors over one row, so
two actors (three callers of the event store, since the index settles pairs)
and one or two rows reach them. Retry limits are 2 instead of 5: below and at
the limit all occur, and in the inbox two failures of two copies reach it. A
batch of 1 with 2 messages makes the older message stand before the younger
one; a larger batch only takes the same saves in one run. In `Dlq` two faults
of any kinds occur together, as a lost connection and a crash or a clean-up and
a failing call; a fault takes all deliveries of a replica, and two workers on
two replicas or on one are what it can take apart. `StuckCrowdedOut` has two
messages and a batch of one, for which the code has 100: the same takes a
hundred rows there. Bounds on faults, copies, edits and attempts only end the
otherwise infinite histories; every bound is a named constant. `TaskCache` and
`TaskFeed` read only the task: the other views are touched by nothing but their
own fills and expiry, since their deletion deletes nothing. In `TaskCache` an
update sets one field, so that two of them can be mixed; in `TaskFeed` it sets
both, which of a lone request includes the others (a field can be set to what
it is), and requests come one at a time, as its properties ask but for
presence, which requests do not touch. `Tenancy` takes one email, the case in
which logins can collide. Deadlock is checked in every run but `Tenancy`, where
clients stop when the bounds are used up.

Fairness. `Outbox` assumes weak fairness of a relay's normal steps: the timer
fires for ever and the event loop resumes awaits. Faults carry no fairness.
`Dlq` and `StuckCrowdedOut` assume the same of consumers and of the hourly
check, and strong fairness of delivery: a consumer is busy again and again, but
the broker serves it whenever it is free and connected. That a replica notices
a lost connection without answering a delivery is not assumed. `Saga` and
`Webhooks` assume only that awaits resume (a post ends with its timeout at the
latest), `TaskCache` also that every cache entry expires, which its time to
live guarantees. `TaskFeed` and `Tenancy` check safety only.

## 4. Proofs

Checked by TLAPS for every value of the constants.

- `EventStoreProofs`. The versions of an aggregate stay contiguous because of
  two facts the properties do not mention: a row's version is unique within its
  id (the index), and every version up to the one a caller saw is still stored
  (`CallSawPrefix`; rows are never deleted). `HistoryInv` joins these with
  contiguity and one-type-per-id, which follows since the first event of an id
  has version 1 under its type, so a second type always asks for the taken
  version 1. Both are theorems (`VersionsAlwaysContiguous`, `IdsKeepTheirType`);
  the run checks them as parts of `ImplementsLog`. `OrderInv` adds that stamps never lie in the future and that a
  stamped entity is no older than the events before it; it is proved from
  `MaxSkew = 0`, and without this assumption it is false.
- `OutboxProofs`. The invariants that hold for overlapping runs are
  inductive together with what a stale copy may claim (`CopiesClaimTruth`) and
  with the publish that is not yet counted (`AttemptPending`): a save that
  fails after a publish counts a retry for it, so its copy must still be one
  behind. `RelayInv` is their conjunction.
  While no two runs overlap, more holds (`LoneInv`): one run holds
  copies, each is the row as it is but for the publish just made
  (`CopiesAreFresh`), and every publish is a retry the row counts, a fault, or
  the one still to be saved (`AttemptsCounted`). The last two each need the
  other: the count is right because a save writes back a fresh copy. From these
  come `AttemptsAccounted` and the action property `RowsAdvance`.
- `AggregateHistoryProofs`. The store implements `EventLog`, by a step
  simulation: the rows of an id are numbered 1..n (`LogInv`), so sorted by
  version each stands at its own number (`NumberedInOrder`), an insert takes the
  number n + 1 (what its caller saw is a prefix, and the index refused every
  number in use) and appends to one log; every other step stutters. For a
  replay, the versions given up to the k-th event are mapped one-to-one onto
  1..k: an earlier version has no later stamp, so it was selected too and
  stands before. That needs `OrderInv` and a finite table.
  `RebuildsMatchHistory` is about a loop and needs an induction over the events,
  which the library's theorems do not offer to these provers. It is
  done by hand, with a set of numbers in place of the operator (`SetInduction`, from
  the least member every set of naturals has): first the loop computes a state
  for every number of events (`LoopExists`), then this shows the events it has
  seen (`LoopShows`), since one more event keeps that, kind by kind (`ApplyShows`).
- `DlqProofs`. What a delivery holds and may save is true
  (`DeliveriesClaimTruth`), although it read it long before: with it
  `ClaimsWereHandled`, `RetriesAreFailures` and `DroppedIsRemembered` are
  inductive (`InboxInv`). `HandledOncePerFault` needs an account of where each run
  of a handler went (`OnceInv`): two deliveries of a message that did not collide
  are one, what it found unprocessed stays so until it saves, and every run but
  one that is in the table, or about to be, was paid for by a fault. `LettersInv`
  adds that what a check has read stays true of the failures until it
  stores it, so each letter is justified.
  `InboxRowsAdvance` follows when a delivery that did not collide counts no
  fewer failures than the row it will replace (`CopiesAreCurrent`), for it is the
  only one to have written it since. `LastCopySettles` is not inductive:
  a delivery that is about to insert counts as a copy of its message, but not if
  another has inserted by then. `LastCopyTried` leaves such deliveries out, and
  needs beside it that only a lost connection closes a channel (`ClosedByLoss`),
  so that a crash queues again whatever it kills, and that the catch block saves a
  count above zero (`FailuresCounted`); and a settled message stays settled
  (`SettledKept`), since whatever replaces its row, or removes it, was handled or
  counts a failure.
- `SagaProofs`. `SagaInv` says for each stage of an execution what its entity,
  its row and its effects are (`Phase`), most of all that going back undoes what
  is below the failed step, from above (`TakingBack`). The three-way relation is
  inductive for any number of steps and executions since a step of one spares
  the others. From it follow `RowTellsEffects` and, step by step, that the engine
  keeps `SagaPromise` until a save fails. `SetupRunsTheEngine` shows
  `CreateProjectSaga` to take only steps of `Saga`, so all this holds of it.
  `RowTellsProjectWhenAlone` needs that an execution that runs alone owns the
  context field (`OwnsContext`), that no other reads its context before or after
  (`ContextUnread`), and what its project and tasks are half-way (`Made`, `Unmade`).
- `TaskFeedProofs`. `TasksInv` types the requests by their stage and keeps the
  row each holds among those the table had, so that nothing else is ever cached.
  While requests come one after another and nothing fails (`AloneInv`), each
  cached task of a replica that all edits came to (`Leads`) is fresh, or the one
  edit in progress will still store or delete it (`Refreshes`); and what this
  edit holds is the row, or the row before its own write (`HoldsCurrent`). Each
  needs the other: an edit may take the row it holds from the cache, and stores
  it there. `EditsAreCounted` is needed beside them, for an edit of another
  replica ends the lead. `FeedInv` lets clients lag behind a row exactly between
  its write and its reading back, and listeners too (`ListenersFollow`) where all
  edits have one replica (`Traced`), since the old row decides what they are told.
  The theorems of `TaskCache` carry over to the feed (`FeedRunsTasks`), where all
  three invariants are inductive together.
  The presence map is the open sockets by user. With the sockets' type
  the property is inductive (`PresenceInv`): a disconnect takes the user from the
  map exactly when his set becomes empty, which is when no other socket of his
  is open, because the set was exact before.
- `WebhooksProofs`. The hooks a run has still to post to are different ones,
  were ready and have not had the event (`Plan`); before the query of a run nobody
  was sent its event (`Asking`). Nobody is passed over (`TurnsInv`): who wants the
  event is among the hooks the query can find, then on the list, which holds
  all that were found (an injection between sets of one size leaves none out), and
  leaves the list only when tried.
- `TenancyProofs`. Open transactions hold tenant ids and subdomains that no row
  and no other transaction has (`TransactionsAreApart`), so a commit leaves whole
  registrations (`TablesAgree`). `ProjectsInv` types the requests about projects
  and, while they come one after another, says which cached fields may be stale:
  those of the project an update has written and not yet deleted from the cache,
  as long as no update came to another replica and no deletion was missed
  (`CachesFollow`); a restart empties the cache, and a failing fill adds nothing.
  `RegistersInOneStep` is the simulation of `TenantDirectory`: a commit enters
  exactly one user, with a subdomain no entry has, for the insert of its tenant
  waited until no other could have it; refusals, tokens and logins are answered
  from entries, and all other steps stutter. That every answered refusal stays
  justified is part of it and a theorem of its own (`RefusalsJustified`).
- The assumptions are the named ASSUMEs on constants, all of them true by what
  the constants stand for: naturals and positive limits, a mark that is no value
  (`NoRow`, `NoUser`, `NoTask`, `NoTenant`, `NoProject`, the marks of the saga's
  tables), tables with finitely many tasks and hooks, four steps of the
  create-project saga. `MaxSkew = 0` is assumed where it is stated
  (`StampsFollowVersions`, `ReplaysGivePrefixes`), for without agreeing clocks the
  two are false.

Every invariant of a specification, refinements and action properties included,
is a theorem. Model-checked only is liveness, which is outside the prover's
reach, like ENABLED: `EveryMessageSettles`, `EveryArrivalSettles`,
`EveryExecutionEnds`, `CacheBecomesFresh` and `EveryHookHasItsTurn`; and
`RebuildReadsContents`, a check of the rebuild with other contents, whose
counterpart for histories of any length is proved (`RebuildsMatchHistory`). The
safety halves of two are proved: `LastCopySettles` of the second and
`NobodyIsPassedOver` of the last. The violated properties have their
counterexamples in the violation runs.

## 5. Not modelled, and the plan

Not modelled by choice: the request pipeline, DTOs, utilities, configuration,
migrations and seeds (no behaviour over time); passwords, signatures and the
sending of mail (library work and I/O); the counting queries (they change no
state); the rate-limit guard, which is registered nowhere; `retryDelivery` of
the webhooks, which never finds a delivery; routing by topic and what the
broker does after `publish` has answered, which the repository does not
determine. The cached task and the cached project are read under keys without a
tenant (`tasks.service.ts` 143, `projects.service.ts` 59), so what is cached
for one tenant answers another that names the id: `TaskCache` has one tenant
and in `Projects` a client names projects of its own, and nothing here says
that tenants are kept apart by the cached reads.

Left out with regret: the outbox, both queues and the inbox in one composition,
against an abstract at-least-once channel. Which id a published message carries
on the wire, what the broker does with it after `publish`, and who calls
`outbox.create` are not settled by this commit, so the composition would rest on
guesses; `Outbox` ends at the answer of `publish` and `Inbox` begins at the
exchange for that reason.
