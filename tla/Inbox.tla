------------------------------- MODULE Inbox --------------------------------
(***************************************************************************)
(* The consuming side: RabbitMQService.consume hands each delivery of two  *)
(* queues to RabbitMQConsumer, which runs InboxService.processMessage.     *)
(* processMessage looks the message up in the inbox table, inserts a row   *)
(* if there is none, runs the handler and saves the outcome.  Every one of *)
(* these is an await, no prefetch limits how many deliveries are in flight *)
(* and every replica consumes, so deliveries of one message interleave.    *)
(*                                                                         *)
(* A callback that returns acks its delivery; one that throws nacks it     *)
(* without requeue, and no dead-letter exchange is configured, so the      *)
(* broker forgets it.                                                      *)
(*                                                                         *)
(* A process consumes both queues on one channel and does not reconnect.   *)
(* If its connection breaks, the broker queues all its deliveries again,   *)
(* while their callbacks go on until one of them calls ack or nack: on a   *)
(* closed channel both throw, nobody handles that, and the process dies    *)
(* with its other callbacks.  Its successor connects afresh.  A statement  *)
(* sent to the database before a death is executed before it or never.     *)
(*                                                                         *)
(* Messages are those that carry an id; both queues use it as inbox key.   *)
(***************************************************************************)
EXTENDS Naturals, FiniteSets

CONSTANTS
  Ids,          \* message ids
  Queues,       \* taskflow.notifications, taskflow.webhooks
  Replicas,     \* the processes that consume
  Workers,      \* deliveries that can be in flight at once, on all replicas
  MaxCopies,    \* bound: copies of a message a queue ever receives
  MaxFaults,    \* bound: crashes, lost connections, failing database calls and
                \* calls of cleanupExpired, taken together
  NoRow         \* the absence of a row

\* The columns the protocol reads or writes.
InboxRow == [processed : BOOLEAN, retryCount : Nat, createdAt : Nat]

ASSUME NoRowIsNoRow == NoRow \notin InboxRow

ASSUME BoundsAreNumbers == MaxCopies \in Nat /\ MaxFaults \in Nat

ASSUME WorkersAreFinite == IsFiniteSet(Workers)

VARIABLES
  inbox,     \* the table inbox_messages, by its unique messageId
  inserts,   \* rows ever inserted; the createdAt of the next one
  waiting,   \* copies ready for delivery in each queue
  arrived,   \* copies each queue ever received from the exchange
  connected, \* the replicas whose channel is open
  worker,    \* the deliveries in flight
  runs,      \* history: handler runs that completed
  served,    \* history: messages each queue's handler completed for
  failures,  \* history: passes through the catch block
  acked,     \* history: deliveries acknowledged
  dropped,   \* history: messages with a delivery nacked
  collided,  \* history: messages of which two deliveries were in flight at once
  crashes, losses, dbErrors, cleanups

brokerVars == <<waiting, arrived>>
historyVars == <<runs, served, failures, collided>>
faultVars == <<crashes, losses, dbErrors, cleanups>>
vars == <<inbox, inserts, waiting, arrived, connected, worker, runs, served,
          failures, acked, dropped, collided, crashes, losses, dbErrors, cleanups>>

\* A delivery in flight: the message, its queue, the replica it came to, and
\* the entity processMessage holds.
Delivery == [pc : {"find", "insert", "handle", "saveDone", "saveError"},
             id : Ids, queue : Queues, at : Replicas,
             row : InboxRow \cup {NoRow}]

Free == [pc |-> "free"]

TypeOK ==
  /\ inbox \in [Ids -> InboxRow \cup {NoRow}]
  /\ inserts \in Nat
  /\ waiting \in [Queues -> [Ids -> Nat]]
  /\ arrived \in [Queues -> [Ids -> Nat]]
  /\ connected \subseteq Replicas
  /\ worker \in [Workers -> Delivery \cup {Free}]
  /\ runs \in [Ids -> Nat]
  /\ served \in [Queues -> SUBSET Ids]
  /\ failures \in [Ids -> Nat]
  /\ acked \in [Queues -> SUBSET Ids]
  /\ dropped \subseteq Ids /\ collided \subseteq Ids
  /\ crashes \in Nat /\ losses \in Nat /\ dbErrors \in Nat /\ cleanups \in Nat

Init ==
  /\ inbox = [m \in Ids |-> NoRow]
  /\ inserts = 0
  /\ waiting = [q \in Queues |-> [m \in Ids |-> 0]]
  /\ arrived = [q \in Queues |-> [m \in Ids |-> 0]]
  /\ connected = Replicas
  /\ worker = [w \in Workers |-> Free]
  /\ runs = [m \in Ids |-> 0]
  /\ served = [q \in Queues |-> {}]
  /\ failures = [m \in Ids |-> 0]
  /\ acked = [q \in Queues |-> {}]
  /\ dropped = {} /\ collided = {}
  /\ crashes = 0 /\ losses = 0 /\ dbErrors = 0 /\ cleanups = 0

Stored(m) == inbox[m] # NoRow

Faults == crashes + losses + dbErrors + cleanups

-----------------------------------------------------------------------------
(* The broker.                                                             *)

\* The exchange routes a copy of a message to a queue it is bound to.  The
\* outbox may publish a message more than once.
Arrive(q, m) ==
  /\ arrived[q][m] < MaxCopies
  /\ arrived' = [arrived EXCEPT ![q][m] = @ + 1]
  /\ waiting' = [waiting EXCEPT ![q][m] = @ + 1]
  /\ UNCHANGED <<inbox, inserts, connected, worker, acked, dropped>>
  /\ UNCHANGED <<historyVars, faultVars>>

\* A copy is delivered to a replica: its consumer calls processMessage, whose
\* first step is the lookup.
Deliver(w, p, q, m) ==
  /\ worker[w] = Free
  /\ p \in connected
  /\ waiting[q][m] > 0
  /\ waiting' = [waiting EXCEPT ![q][m] = @ - 1]
  /\ worker' = [worker EXCEPT ![w] =
       [pc |-> "find", id |-> m, queue |-> q, at |-> p, row |-> NoRow]]
  /\ collided' = IF \E v \in Workers : worker[v] # Free /\ worker[v].id = m
                 THEN collided \cup {m} ELSE collided
  /\ UNCHANGED <<inbox, inserts, arrived, connected, acked, dropped>>
  /\ UNCHANGED <<runs, served, failures, faultVars>>

DeliveriesTo(p) == {w \in Workers : worker[w] # Free /\ worker[w].at = p}

\* A process dies with all its callbacks; its successor connects.
Die(p) ==
  /\ worker' = [w \in Workers |-> IF w \in DeliveriesTo(p) THEN Free ELSE worker[w]]
  /\ connected' = connected \cup {p}

\* Every delivery the replica had not answered is queued again.
Requeue(p) ==
  waiting' = [q \in Queues |-> [m \in Ids |->
    waiting[q][m] + Cardinality({w \in DeliveriesTo(p) :
                                   worker[w].queue = q /\ worker[w].id = m})]]

\* The channel of a delivery is closed: ack throws, the catch block calls
\* nack, which throws too, and the rejection is not handled.
AnswerOnClosedChannel(w) ==
  /\ worker[w].at \notin connected
  /\ Die(worker[w].at)
  /\ UNCHANGED <<acked, dropped>>

\* The callback returned: ack(msg).
Ack(w) ==
  \/ /\ worker[w].at \in connected
     /\ worker' = [worker EXCEPT ![w] = Free]
     /\ acked' = [acked EXCEPT ![worker[w].queue] = @ \cup {worker[w].id}]
     /\ UNCHANGED <<connected, dropped>>
  \/ AnswerOnClosedChannel(w)

\* The callback threw: nack(msg, false, false).
Nack(w) ==
  \/ /\ worker[w].at \in connected
     /\ worker' = [worker EXCEPT ![w] = Free]
     /\ dropped' = dropped \cup {worker[w].id}
     /\ UNCHANGED <<connected, acked>>
  \/ AnswerOnClosedChannel(w)

\* The connection of a replica breaks while its callbacks keep running.
LoseConnection(p) ==
  /\ p \in connected
  /\ Faults < MaxFaults
  /\ losses' = losses + 1
  /\ connected' = connected \ {p}
  /\ Requeue(p)
  /\ UNCHANGED <<inbox, inserts, arrived, worker, historyVars, acked, dropped,
                 crashes, dbErrors, cleanups>>

\* A replica without its connection dies before a callback finds out: the
\* connection's error event has no listener.
Notice(p) ==
  /\ p \in Replicas \ connected
  /\ Die(p)
  /\ UNCHANGED <<inbox, inserts, brokerVars, historyVars, acked, dropped, faultVars>>

\* A connected replica dies.
Crash(p) ==
  /\ p \in connected
  /\ DeliveriesTo(p) # {}
  /\ Faults < MaxFaults
  /\ crashes' = crashes + 1
  /\ Requeue(p)
  /\ Die(p)
  /\ UNCHANGED <<inbox, inserts, arrived, historyVars, acked, dropped,
                 losses, dbErrors, cleanups>>

-----------------------------------------------------------------------------
(* processMessage.                                                         *)

\* Faulty variants: no message counts as done, or every one with a row does.
NothingIsDone(m) == FALSE
SeenBefore(m) == Stored(m)

\* existing?.processed
AlreadyProcessed(m) == Stored(m) /\ inbox[m].processed

\* Faulty variant: the row is born processed.
NewRowProcessed == [processed |-> TRUE, retryCount |-> 0, createdAt |-> inserts]

NewRow == [processed |-> FALSE, retryCount |-> 0, createdAt |-> inserts]

\* findOne is answered with a processed row: the message is skipped.
FindProcessed(w) ==
  /\ worker[w].pc = "find"
  /\ AlreadyProcessed(worker[w].id)
  /\ Ack(w)
  /\ UNCHANGED <<inbox, inserts, brokerVars, historyVars, faultVars>>

\* findOne is answered with an unprocessed row: its copy goes to the handler.
FindUnprocessed(w) ==
  /\ worker[w].pc = "find"
  /\ Stored(worker[w].id)
  /\ ~ AlreadyProcessed(worker[w].id)
  /\ worker' = [worker EXCEPT ![w].pc = "handle",
                              ![w].row = inbox[worker[w].id]]
  /\ UNCHANGED <<inbox, inserts, brokerVars, connected, historyVars, acked,
                 dropped, faultVars>>

\* findOne is answered with null.
FindNone(w) ==
  /\ worker[w].pc = "find"
  /\ ~ Stored(worker[w].id)
  /\ worker' = [worker EXCEPT ![w].pc = "insert"]
  /\ UNCHANGED <<inbox, inserts, brokerVars, connected, historyVars, acked,
                 dropped, faultVars>>

\* The row is inserted.
Insert(w) ==
  /\ worker[w].pc = "insert"
  /\ ~ Stored(worker[w].id)
  /\ inbox' = [inbox EXCEPT ![worker[w].id] = NewRow]
  /\ inserts' = inserts + 1
  /\ worker' = [worker EXCEPT ![w].pc = "handle", ![w].row = NewRow]
  /\ UNCHANGED <<brokerVars, connected, historyVars, acked, dropped, faultVars>>

\* Another delivery inserted it since the lookup: the unique constraint makes
\* save reject, outside the try block.
InsertConflict(w) ==
  /\ worker[w].pc = "insert"
  /\ Stored(worker[w].id)
  /\ Nack(w)
  /\ UNCHANGED <<inbox, inserts, brokerVars, historyVars, faultVars>>

\* The handler completes and the copy is marked.
HandlerCompletes(w) ==
  /\ worker[w].pc = "handle"
  /\ runs' = [runs EXCEPT ![worker[w].id] = @ + 1]
  /\ served' = [served EXCEPT ![worker[w].queue] = @ \cup {worker[w].id}]
  /\ worker' = [worker EXCEPT ![w].pc = "saveDone", ![w].row.processed = TRUE]
  /\ UNCHANGED <<inbox, inserts, brokerVars, connected, failures, collided,
                 acked, dropped, faultVars>>

\* Faulty variants: the catch block forgets the count, doubles it or counts
\* down.
CountNothing(w) == worker' = [worker EXCEPT ![w].pc = "saveError"]
CountTwice(w) ==
  worker' = [worker EXCEPT ![w].pc = "saveError", ![w].row.retryCount = @ + 2]
CountDown(w) ==
  worker' = [worker EXCEPT ![w].pc = "saveError", ![w].row.retryCount = @ - 1]

CountFailure(w) ==
  worker' = [worker EXCEPT ![w].pc = "saveError", ![w].row.retryCount = @ + 1]

\* The handler throws: the catch block counts the failure on the copy.
HandlerThrows(w) ==
  /\ worker[w].pc = "handle"
  /\ CountFailure(w)
  /\ failures' = [failures EXCEPT ![worker[w].id] = @ + 1]
  /\ UNCHANGED <<inbox, inserts, brokerVars, connected, runs, served, collided,
                 acked, dropped, faultVars>>

\* save(inboxMessage): the whole copy replaces what the row holds by now; if
\* the row was cleaned up meanwhile, save inserts the copy.
WriteBack(w) == inbox' = [inbox EXCEPT ![worker[w].id] = worker[w].row]

SaveDone(w) ==
  /\ worker[w].pc = "saveDone"
  /\ WriteBack(w)
  /\ Ack(w)
  /\ UNCHANGED <<inserts, brokerVars, historyVars, faultVars>>

\* The error is rethrown once the failure is stored.
SaveError(w) ==
  /\ worker[w].pc = "saveError"
  /\ WriteBack(w)
  /\ Nack(w)
  /\ UNCHANGED <<inserts, brokerVars, historyVars, faultVars>>

\* The lookup, the insert or the save of the catch block fails: processMessage
\* rejects.
CallFails(w) ==
  /\ worker[w].pc \in {"find", "insert", "saveError"}
  /\ Faults < MaxFaults
  /\ dbErrors' = dbErrors + 1
  /\ Nack(w)
  /\ UNCHANGED <<inbox, inserts, brokerVars, historyVars, crashes, losses, cleanups>>

\* The save of the try block fails: the catch block counts a failure on a copy
\* that is marked processed already.
SaveDoneFails(w) ==
  /\ worker[w].pc = "saveDone"
  /\ Faults < MaxFaults
  /\ dbErrors' = dbErrors + 1
  /\ CountFailure(w)
  /\ failures' = [failures EXCEPT ![worker[w].id] = @ + 1]
  /\ UNCHANGED <<inbox, inserts, brokerVars, connected, runs, served, collided,
                 acked, dropped, crashes, losses, cleanups>>

ProcessMessage(w) ==
  \/ FindProcessed(w) \/ FindUnprocessed(w) \/ FindNone(w)
  \/ Insert(w) \/ InsertConflict(w)
  \/ HandlerCompletes(w) \/ HandlerThrows(w)
  \/ SaveDone(w) \/ SaveError(w)

-----------------------------------------------------------------------------
(* cleanupExpired removes processed rows created more than a week ago; a   *)
(* message may be redelivered after any time, so any processed row may be. *)

\* Faulty variant: the DELETE does not look at processed.
ExpirableAll == {m \in Ids : Stored(m)}

Expirable == {m \in Ids : Stored(m) /\ inbox[m].processed}

CleanupExpired ==
  /\ Faults < MaxFaults
  /\ cleanups' = cleanups + 1
  /\ \E old \in (SUBSET Expirable) \ {{}} :
       inbox' = [m \in Ids |-> IF m \in old THEN NoRow ELSE inbox[m]]
  /\ UNCHANGED <<inserts, brokerVars, connected, worker, historyVars, acked,
                 dropped, crashes, losses, dbErrors>>

\* All copies are consumed and no more will come.
Drained ==
  /\ \A q \in Queues, m \in Ids : arrived[q][m] = MaxCopies /\ waiting[q][m] = 0
  /\ \A w \in Workers : worker[w] = Free
  /\ UNCHANGED vars

Next ==
  \/ \E q \in Queues, m \in Ids : Arrive(q, m)
  \/ \E w \in Workers :
       \/ \E p \in Replicas, q \in Queues, m \in Ids : Deliver(w, p, q, m)
       \/ ProcessMessage(w)
       \/ CallFails(w) \/ SaveDoneFails(w)
  \/ \E p \in Replicas : LoseConnection(p) \/ Notice(p) \/ Crash(p)
  \/ CleanupExpired
  \/ Drained

Spec == Init /\ [][Next]_vars

\* The broker keeps delivering while a consumer is connected, and the event
\* loop resumes every callback.  A process that has lost its connection while
\* it had no delivery need not notice, ever.
FairSpec ==
  /\ Spec
  /\ \A w \in Workers : WF_vars(ProcessMessage(w))
  /\ \A q \in Queues, m \in Ids :
       SF_vars(\E w \in Workers, p \in Replicas : Deliver(w, p, q, m))

-----------------------------------------------------------------------------
(* Properties.                                                             *)

WasHandled(m) == runs[m] > 0

\* A row marked processed had a handler run to its end, whatever failures,
\* stale copies, crashes and clean-ups happened in between.
ProcessedWasHandled ==
  \A m \in Ids : AlreadyProcessed(m) => WasHandled(m)

\* A message is acknowledged only after some handler ran for it.
AckedWasHandled ==
  \A q \in Queues : \A m \in acked[q] : WasHandled(m)

\* What the table and the broker are told of a handling is true.
ClaimsWereHandled == ProcessedWasHandled /\ AckedWasHandled

\* retryCount never exceeds the failures there were: what DLQService reads as
\* attempts did happen.
RetriesAreFailures ==
  \A m \in Ids : Stored(m) => inbox[m].retryCount <= failures[m]

\* Unless the database failed, a message the broker has dropped is either in
\* the inbox or was handled: nothing disappears without a trace.
DroppedIsRemembered ==
  dbErrors = 0 => \A m \in dropped : Stored(m) \/ WasHandled(m)

\* Unless two of its deliveries were in flight at once, a message is handled
\* once, and once more at most for each crash, lost connection, failed call or
\* clean-up, though a fault hits all deliveries of a process at once.
HandledOncePerFault ==
  \A m \in Ids : m \notin collided => runs[m] <= 1 + Faults

\* As long as two of its deliveries are never in flight at once, no stale copy
\* takes back what the row of a message tells: processed is final, retryCount
\* never shrinks, and only a processed row is removed, step by step.
Advances(m) ==
  Stored(m) => IF Stored(m)'
               THEN /\ inbox[m].processed => inbox'[m].processed
                    /\ inbox[m].retryCount <= inbox'[m].retryCount
               ELSE inbox[m].processed

InboxRowsAdvance == [][\A m \in Ids : m \notin collided' => Advances(m)]_vars

\* "Emit internal event for notification handlers", "Trigger webhook
\* delivery": an acknowledged message had the handler of its queue run.
EachQueueServed ==
  \A q \in Queues : acked[q] \subseteq served[q]

\* A message is settled once it is handled or its failure is counted, so that
\* the check for stuck messages will come across it.
Settled(m) == WasHandled(m) \/ (Stored(m) /\ inbox[m].retryCount > 0)

Arrived(m) == \E q \in Queues : arrived[q][m] > 0

\* Some copy of the message waits for delivery or is being processed.
Alive(m) ==
  \/ \E q \in Queues : waiting[q][m] > 0
  \/ \E w \in Workers : worker[w] # Free /\ worker[w].id = m

\* While the database does not fail and no connection breaks, the last copy of
\* a message never goes without settling it, though its deliveries collide and
\* processes crash.  One broken connection is enough to lose a message: a
\* delivery that goes on inserts the row, the redelivery collides with that and
\* is dropped, and the process dies before its handler has run.
LastCopySettles ==
  dbErrors = 0 /\ losses = 0 =>
    \A m \in Ids : Arrived(m) => Alive(m) \/ Settled(m)

\* Unless the database fails or a connection breaks, a message that reached a
\* queue is settled sooner or later, through colliding deliveries and crashes.
EveryArrivalSettles ==
  \A m \in Ids : Arrived(m) ~> (Settled(m) \/ dbErrors > 0 \/ losses > 0)
=============================================================================
