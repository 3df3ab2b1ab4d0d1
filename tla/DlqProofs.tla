------------------------------ MODULE DlqProofs ------------------------------
(***************************************************************************)
(* TLAPS proofs about the inbox and the dead letters stored on top of it,  *)
(* for any messages, queues, deliveries in flight, checks, administrators, *)
(* limits and faults: the inbox rows only advance, and what a last copy    *)
(* leaves behind is settled.  The steps of Inbox come first: Dlq takes     *)
(* them over and adds its own.                                             *)
(***************************************************************************)
EXTENDS Dlq, FiniteSetTheorems, TLAPS

\* From its lookup on a delivery holds a row, which the handler's outcome is
\* written to.
RowsHeld ==
  \A w \in Workers :
    worker[w].pc \in {"handle", "saveDone", "saveError"} => worker[w].row # NoRow

InboxTyped == TypeOK /\ RowsHeld

\* What a delivery holds and is about to save: never more failures than there
\* were, and processed only after a handler ran.
ClaimsTruth(w) ==
  /\ worker[w].row.retryCount <= failures[worker[w].id]
  /\ worker[w].row.processed => WasHandled(worker[w].id)
  /\ worker[w].pc = "saveDone" => worker[w].row.processed

DeliveriesClaimTruth ==
  \A w \in Workers :
    worker[w].pc \in {"handle", "saveDone", "saveError"} => ClaimsTruth(w)

InboxInv ==
  /\ InboxTyped
  /\ ClaimsWereHandled
  /\ RetriesAreFailures
  /\ DroppedIsRemembered
  /\ DeliveriesClaimTruth

\* Two deliveries of a message that did not collide are one.
SoleDelivery ==
  \A v, w \in Workers :
    /\ worker[v] # Free /\ worker[w] # Free
    /\ worker[v].id = worker[w].id /\ worker[v].id \notin collided
    => v = w

\* What a sole delivery found unprocessed stays so until it saves.
FoundUnprocessed ==
  \A w \in Workers :
    /\ worker[w].pc \in {"insert", "handle", "saveDone", "saveError"}
    /\ worker[w].id \notin collided
    => ~ AlreadyProcessed(worker[w].id)

\* A completed run is in the table, or about to be saved there by a delivery
\* whose channel is open.
Recorded(m) ==
  \/ AlreadyProcessed(m)
  \/ \E w \in Workers : /\ worker[w].pc = "saveDone" /\ worker[w].id = m
                        /\ worker[w].at \in connected

Unhandled == {"find", "insert", "handle"}

\* A delivery whose connection broke before its handler ran may run it yet.
RunPending(m) ==
  \E w \in Workers : /\ worker[w].pc \in Unhandled /\ worker[w].id = m
                     /\ worker[w].at \notin connected

\* Every run but a recorded one was paid for by a fault, and so is the run that
\* is pending after a connection broke.
RunsPaidFor ==
  \A m \in Ids : m \notin collided =>
    runs[m] + (IF RunPending(m) THEN 1 ELSE 0)
      <= (IF Recorded(m) THEN 1 ELSE 0) + Faults

OnceInv == InboxInv /\ SoleDelivery /\ FoundUnprocessed /\ RunsPaidFor

\* What a check read of an inbox row, and what it stored of it, is true.
Truthful(m, count) ==
  /\ count >= MaxRetries /\ count <= failures[m]
  /\ Stored(m) \/ WasHandled(m)

ChecksReadTruth ==
  \A c \in Checkers, m \in Ids :
    checker[c][m] # NoRow => Truthful(m, checker[c][m].retryCount)

LettersInv ==
  /\ OnceInv /\ DlqTypeOK
  /\ LettersJustified /\ ChecksReadTruth

-----------------------------------------------------------------------------
(* Type correctness.                                                       *)

\* What a step of a delivery makes of it and of the others.
LEMMA OneDeliveryMoves ==
  ASSUME TypeOK, NEW w \in Workers, NEW d \in Delivery \cup {Free},
         worker' = [worker EXCEPT ![w] = d]
  PROVE  /\ worker' \in [Workers -> Delivery \cup {Free}]
         /\ worker'[w] = d
         /\ \A v \in Workers : v # w => worker'[v] = worker[v]
BY DEF TypeOK

\* A delivery in flight is told from a free place by its pc.
LEMMA BusyIsDelivery ==
  ASSUME TypeOK, NEW w \in Workers
  PROVE  /\ worker[w] # Free <=> worker[w].pc # "free"
         /\ worker[w] # Free => worker[w] \in Delivery
         /\ Free \notin Delivery
BY DEF TypeOK, Delivery, Free

\* What a step does to a delivery that is not its own: nothing, unless it ends a
\* process that has lost its connection.
LeftAlone(v) ==
  worker'[v] = worker[v] \/ (worker'[v] = Free /\ worker[v].at \notin connected)

\* A death ends the deliveries of its process and no other.
LEMMA DeathFrees ==
  ASSUME TypeOK, NEW p \in Replicas, Die(p)
  PROVE  /\ worker' \in [Workers -> Delivery \cup {Free}]
         /\ connected' \subseteq Replicas /\ connected \subseteq connected'
         /\ \A v \in Workers :
              worker'[v] = IF worker[v] # Free /\ worker[v].at = p
                           THEN Free ELSE worker[v]
         /\ p \notin connected => \A v \in Workers : LeftAlone(v)
<1>1. \A v \in Workers :
        worker'[v] = IF worker[v] # Free /\ worker[v].at = p THEN Free ELSE worker[v]
  BY DEF Die, DeliveriesTo
<1>2. worker' \in [Workers -> Delivery \cup {Free}]
  BY DEF Die, TypeOK
<1>3. connected' \subseteq Replicas /\ connected \subseteq connected'
  BY DEF Die, TypeOK
<1> QED
  BY <1>1, <1>2, <1>3 DEF LeftAlone

\* An ack and a nack free the worker and settle its delivery; on a closed channel
\* they end the process.
LEMMA AnswerFrees ==
  ASSUME TypeOK, NEW w \in Workers, worker[w] # Free, Ack(w) \/ Nack(w)
  PROVE  /\ worker' \in [Workers -> Delivery \cup {Free}]
         /\ worker'[w] = Free
         /\ \A v \in Workers : v # w => LeftAlone(v)
         /\ connected' \subseteq Replicas /\ connected \subseteq connected'
         /\ acked' \in [Queues -> SUBSET Ids]
         /\ \A q \in Queues : acked'[q] \subseteq acked[q] \cup {worker[w].id}
         /\ dropped' \subseteq dropped \cup {worker[w].id}
         /\ dropped' \subseteq Ids
         /\ Ack(w) => dropped' = dropped
         /\ Nack(w) => acked' = acked
<1>1. worker[w] \in Delivery
  BY BusyIsDelivery
<1>2. worker[w].queue \in Queues /\ worker[w].id \in Ids /\ worker[w].at \in Replicas
  BY <1>1 DEF Delivery
<1>3. /\ worker' \in [Workers -> Delivery \cup {Free}]
      /\ worker'[w] = Free
      /\ \A v \in Workers : v # w => LeftAlone(v)
      /\ connected' \subseteq Replicas /\ connected \subseteq connected'
  <2>1. CASE AnswerOnClosedChannel(w)
    <3>1. Die(worker[w].at) /\ worker[w].at \notin connected
      BY <2>1 DEF AnswerOnClosedChannel
    <3> QED
      BY <1>2, <3>1, DeathFrees
  <2>2. CASE ~ AnswerOnClosedChannel(w)
    <3>1. worker' = [worker EXCEPT ![w] = Free] /\ connected' = connected
      BY <2>2 DEF Ack, Nack
    <3> QED
      BY <3>1 DEF TypeOK, LeftAlone
  <2> QED
    BY <2>1, <2>2
<1>4. /\ acked' \in [Queues -> SUBSET Ids]
      /\ \A q \in Queues : acked'[q] \subseteq acked[q] \cup {worker[w].id}
  <2>1. acked \in [Queues -> SUBSET Ids]
    BY DEF TypeOK
  <2>2. CASE acked' = acked
    BY <2>1, <2>2
  <2>3. CASE acked' = [acked EXCEPT ![worker[w].queue] = @ \cup {worker[w].id}]
    <3>1. acked[worker[w].queue] \cup {worker[w].id} \in SUBSET Ids
      BY <1>2, <2>1
    <3> QED
      BY <2>1, <2>3, <3>1
  <2> QED
    BY <2>2, <2>3 DEF Ack, Nack, AnswerOnClosedChannel
<1>5. /\ dropped' \subseteq dropped \cup {worker[w].id}
      /\ dropped' \subseteq Ids
      /\ Ack(w) => dropped' = dropped
      /\ Nack(w) => acked' = acked
  BY <1>2 DEF Ack, Nack, AnswerOnClosedChannel, TypeOK
<1> QED
  BY <1>3, <1>4, <1>5

\* The broker has more copies to deliver after it has lost a process, of each
\* message that was being delivered to it at least one.
LEMMA RequeueAdds ==
  ASSUME TypeOK, NEW p \in Replicas, Requeue(p)
  PROVE  /\ waiting' \in [Queues -> [Ids -> Nat]]
         /\ \A q \in Queues, m \in Ids : waiting[q][m] > 0 => waiting'[q][m] > 0
         /\ \A w \in Workers : worker[w] # Free /\ worker[w].at = p =>
              waiting'[worker[w].queue][worker[w].id] > 0
<1> DEFINE D(q, m) == {w \in DeliveriesTo(p) :
                         worker[w].queue = q /\ worker[w].id = m}
<1>1. \A q, m : IsFiniteSet(D(q, m)) /\ Cardinality(D(q, m)) \in Nat
  <2>1. \A q, m : D(q, m) \subseteq Workers
    BY DEF DeliveriesTo
  <2> QED
    BY <2>1, WorkersAreFinite, FS_Subset, FS_CardinalityType
<1>2. waiting' = [q \in Queues |-> [m \in Ids |-> waiting[q][m] + Cardinality(D(q, m))]]
  BY DEF Requeue
<1>3. \A w \in Workers : worker[w] # Free /\ worker[w].at = p =>
        /\ worker[w].queue \in Queues /\ worker[w].id \in Ids
        /\ Cardinality(D(worker[w].queue, worker[w].id)) # 0
  <2> SUFFICES ASSUME NEW w \in Workers, worker[w] # Free, worker[w].at = p
               PROVE  /\ worker[w].queue \in Queues /\ worker[w].id \in Ids
                      /\ Cardinality(D(worker[w].queue, worker[w].id)) # 0
    OBVIOUS
  <2>1. worker[w].queue \in Queues /\ worker[w].id \in Ids
    BY BusyIsDelivery DEF Delivery
  <2>2. w \in D(worker[w].queue, worker[w].id)
    BY DEF DeliveriesTo
  <2> HIDE DEF D
  <2> QED
    BY <1>1, <2>1, <2>2, FS_EmptySet
<1> HIDE DEF D
<1>4. waiting \in [Queues -> [Ids -> Nat]]
  BY DEF TypeOK
<1>5. \A q \in Queues, m \in Ids :
        waiting'[q][m] = waiting[q][m] + Cardinality(D(q, m))
  BY <1>2
<1>6. waiting' \in [Queues -> [Ids -> Nat]]
  BY <1>1, <1>2, <1>4
<1>7. \A q \in Queues, m \in Ids :
        waiting[q][m] > 0 \/ Cardinality(D(q, m)) # 0 => waiting'[q][m] > 0
  <2> SUFFICES ASSUME NEW q \in Queues, NEW m \in Ids,
                      waiting[q][m] > 0 \/ Cardinality(D(q, m)) # 0
               PROVE  waiting'[q][m] > 0
    OBVIOUS
  <2>1. waiting[q][m] \in Nat /\ Cardinality(D(q, m)) \in Nat
    BY <1>1, <1>4
  <2> QED
    BY <1>5, <2>1
<1> QED
  BY <1>3, <1>6, <1>7

\* The copy of a delivery in flight is a row once its lookup is over.
LEMMA CopiesAreRows ==
  ASSUME TypeOK, NEW w \in Workers, worker[w] # Free, worker[w].row # NoRow
  PROVE  /\ [worker[w].row EXCEPT !.processed = TRUE] \in InboxRow
         /\ [worker[w].row EXCEPT !.retryCount = @ + 1] \in InboxRow
<1>1. worker[w] \in Delivery
  BY BusyIsDelivery
<1>2. worker[w].row \in InboxRow
  BY <1>1 DEF Delivery
<1>3. [worker[w].row EXCEPT !.processed = TRUE] \in InboxRow
  BY <1>2 DEF InboxRow
<1>4. worker[w].row.retryCount + 1 \in Nat
  BY <1>2 DEF InboxRow
<1>5. [worker[w].row EXCEPT !.retryCount = worker[w].row.retryCount + 1] \in InboxRow
  BY <1>2, <1>4 DEF InboxRow
<1> QED
  BY <1>3, <1>5

\* CountFailure on a copy that is a row.
LEMMA CountFailureMoves ==
  ASSUME TypeOK, NEW w \in Workers, worker[w] # Free, worker[w].row # NoRow,
         CountFailure(w)
  PROVE  LET d == [worker[w] EXCEPT !.pc = "saveError",
                                    !.row = [worker[w].row EXCEPT !.retryCount = @ + 1]]
         IN d \in Delivery /\ worker' = [worker EXCEPT ![w] = d]
<1> DEFINE row == [worker[w].row EXCEPT !.retryCount = @ + 1]
<1>1. row \in InboxRow
  BY CopiesAreRows
<1>2. worker[w] \in Delivery
  BY BusyIsDelivery
<1>3. worker' = [worker EXCEPT ![w] = [worker[w] EXCEPT !.pc = "saveError", !.row = row]]
  BY <1>2 DEF CountFailure, TypeOK, Delivery
<1> HIDE DEF row
<1>4. [worker[w] EXCEPT !.pc = "saveError", !.row = row] \in Delivery
  BY <1>1, <1>2 DEF Delivery
<1> QED
  BY <1>3, <1>4 DEF row

\* HandlerCompletes marks the copy.
LEMMA HandlerCompletesMoves ==
  ASSUME TypeOK, NEW w \in Workers, worker[w] # Free, worker[w].row # NoRow,
         HandlerCompletes(w)
  PROVE  LET d == [worker[w] EXCEPT !.pc = "saveDone",
                                    !.row = [worker[w].row EXCEPT !.processed = TRUE]]
         IN d \in Delivery /\ worker' = [worker EXCEPT ![w] = d]
<1> DEFINE row == [worker[w].row EXCEPT !.processed = TRUE]
<1>1. row \in InboxRow
  BY CopiesAreRows
<1>2. worker[w] \in Delivery
  BY BusyIsDelivery
<1>3. worker' = [worker EXCEPT ![w] = [worker[w] EXCEPT !.pc = "saveDone", !.row = row]]
  BY <1>2 DEF HandlerCompletes, TypeOK, Delivery
<1> HIDE DEF row
<1>4. [worker[w] EXCEPT !.pc = "saveDone", !.row = row] \in Delivery
  BY <1>1, <1>2 DEF Delivery
<1> QED
  BY <1>3, <1>4 DEF row

\* Every step of the workers and the broker keeps the types.
LEMMA InboxTypeStep == InboxTyped /\ [Next]_vars => InboxTyped'
<1> SUFFICES ASSUME InboxTyped, [Next]_vars PROVE InboxTyped'
  OBVIOUS
<1>0. TypeOK /\ RowsHeld
  BY DEF InboxTyped
\* A step that moves one delivery, and leaves it with its row where it needs one.
<1>1. ASSUME NEW w \in Workers, NEW d \in Delivery \cup {Free},
             worker' = [worker EXCEPT ![w] = d],
             d.pc \in {"handle", "saveDone", "saveError"} => d.row # NoRow
      PROVE  worker' \in [Workers -> Delivery \cup {Free}] /\ RowsHeld'
  BY <1>0, <1>1, OneDeliveryMoves DEF RowsHeld
<1>2. ASSUME NEW q \in Queues, NEW m \in Ids, Arrive(q, m) PROVE InboxTyped'
  BY <1>0, <1>2 DEF Arrive, historyVars, faultVars, InboxTyped, TypeOK, RowsHeld
<1>3. ASSUME NEW w \in Workers, NEW p \in Replicas, NEW q \in Queues, NEW m \in Ids,
             Deliver(w, p, q, m)
      PROVE  InboxTyped'
  <2>1. PICK d \in Delivery : /\ d.pc = "find"
                              /\ worker' = [worker EXCEPT ![w] = d]
    BY <1>3 DEF Deliver, Delivery
  <2>2. worker' \in [Workers -> Delivery \cup {Free}] /\ RowsHeld'
    BY <1>1, <2>1
  <2>3. waiting' \in [Queues -> [Ids -> Nat]] /\ collided' \subseteq Ids
    BY <1>0, <1>3 DEF Deliver, TypeOK
  <2> QED
    BY <1>0, <1>3, <2>2, <2>3 DEF Deliver, faultVars, InboxTyped, TypeOK
<1>4. ASSUME NEW w \in Workers, worker[w] # Free, Ack(w) \/ Nack(w),
             inbox' \in [Ids -> InboxRow \cup {NoRow}], dbErrors' \in Nat,
             UNCHANGED <<inserts, brokerVars, historyVars, crashes, losses, cleanups>>
      PROVE  InboxTyped'
  <2>1. /\ worker' \in [Workers -> Delivery \cup {Free}]
        /\ connected' \subseteq Replicas
        /\ acked' \in [Queues -> SUBSET Ids] /\ dropped' \subseteq Ids
        /\ \A v \in Workers : worker'[v] \in {worker[v], Free}
    BY <1>0, <1>4, AnswerFrees DEF LeftAlone
  <2>2. RowsHeld'
    BY <1>0, <2>1 DEF RowsHeld, Free
  <2> QED
    BY <1>0, <1>4, <2>1, <2>2 DEF InboxTyped, TypeOK, brokerVars, historyVars
<1>5. ASSUME NEW w \in Workers, FindProcessed(w) \/ InsertConflict(w) \/ CallFails(w)
      PROVE  InboxTyped'
  <2>1. worker[w] # Free
    BY <1>5 DEF FindProcessed, InsertConflict, CallFails, Free
  <2>2. /\ UNCHANGED <<inbox, inserts, brokerVars, historyVars, crashes, losses, cleanups>>
        /\ dbErrors' \in Nat
        /\ Ack(w) \/ Nack(w)
    BY <1>0, <1>5 DEF FindProcessed, InsertConflict, CallFails, faultVars, TypeOK
  <2>3. inbox' \in [Ids -> InboxRow \cup {NoRow}]
    BY <1>0, <2>2 DEF TypeOK
  <2> QED
    BY <1>4, <2>1, <2>2, <2>3
<1>6. ASSUME NEW w \in Workers, SaveDone(w) \/ SaveError(w) PROVE InboxTyped'
  <2>1. worker[w] # Free /\ worker[w] \in Delivery
    BY <1>0, <1>6, BusyIsDelivery DEF SaveDone, SaveError
  <2>2. worker[w].row \in InboxRow \cup {NoRow}
    BY <2>1 DEF Delivery
  <2>3. inbox' \in [Ids -> InboxRow \cup {NoRow}]
    BY <1>0, <1>6, <2>2 DEF SaveDone, SaveError, WriteBack, TypeOK
  <2>4. /\ UNCHANGED <<inserts, brokerVars, historyVars, crashes, losses, cleanups>>
        /\ dbErrors' \in Nat
        /\ Ack(w) \/ Nack(w)
    BY <1>0, <1>6 DEF SaveDone, SaveError, faultVars, TypeOK
  <2> QED
    BY <1>4, <2>1, <2>3, <2>4
<1>7. ASSUME NEW w \in Workers, FindUnprocessed(w) \/ FindNone(w) \/ Insert(w)
      PROVE  InboxTyped'
  <2>1. worker[w] # Free /\ worker[w] \in Delivery
    BY <1>0, <1>7, BusyIsDelivery DEF FindUnprocessed, FindNone, Insert
  <2>2. worker[w].id \in Ids /\ NewRow \in InboxRow
    BY <1>0, <2>1 DEF Delivery, NewRow, InboxRow, TypeOK
  <2>3. inbox' \in [Ids -> InboxRow \cup {NoRow}] /\ inserts' \in Nat
    <3>1. CASE Insert(w)
      BY <1>0, <2>2, <3>1 DEF Insert, TypeOK
    <3>2. CASE FindUnprocessed(w) \/ FindNone(w)
      BY <1>0, <3>2 DEF FindUnprocessed, FindNone, TypeOK
    <3> QED
      BY <1>7, <3>1, <3>2
  <2>4. PICK d \in Delivery : /\ worker' = [worker EXCEPT ![w] = d]
                              /\ d.pc \in {"handle", "saveDone", "saveError"}
                                   => d.row # NoRow
    <3>1. CASE FindUnprocessed(w)
      <4>1. inbox[worker[w].id] \in InboxRow /\ inbox[worker[w].id] # NoRow
        BY <1>0, <3>1, <2>2 DEF FindUnprocessed, Stored, TypeOK
      <4>2. [worker[w] EXCEPT !.pc = "handle", !.row = inbox[worker[w].id]] \in Delivery
        BY <2>1, <4>1 DEF Delivery
      <4>3. worker' = [worker EXCEPT ![w] =
              [worker[w] EXCEPT !.pc = "handle", !.row = inbox[worker[w].id]]]
        BY <1>0, <3>1 DEF FindUnprocessed, TypeOK
      <4>4. [worker[w] EXCEPT !.pc = "handle", !.row = inbox[worker[w].id]].row # NoRow
        BY <2>1, <4>1 DEF Delivery
      <4> QED
        BY <4>2, <4>3, <4>4
    <3>2. CASE FindNone(w)
      <4>1. [worker[w] EXCEPT !.pc = "insert"] \in Delivery
        BY <2>1 DEF Delivery
      <4> QED
        BY <3>2, <4>1, <2>1 DEF FindNone, TypeOK, Delivery
    <3>3. CASE Insert(w)
      <4>1. [worker[w] EXCEPT !.pc = "handle", !.row = NewRow] \in Delivery
        BY <2>1, <2>2 DEF Delivery
      <4>2. worker' = [worker EXCEPT ![w] =
              [worker[w] EXCEPT !.pc = "handle", !.row = NewRow]]
        BY <1>0, <3>3 DEF Insert, TypeOK
      <4>3. [worker[w] EXCEPT !.pc = "handle", !.row = NewRow].row # NoRow
        BY <2>1, <2>2, NoRowIsNoRow DEF Delivery
      <4> QED
        BY <4>1, <4>2, <4>3
    <3> QED
      BY <1>7, <3>1, <3>2, <3>3
  <2>5. worker' \in [Workers -> Delivery \cup {Free}] /\ RowsHeld'
    BY <1>1, <2>4
  <2> QED
    BY <1>0, <1>7, <2>3, <2>5 DEF FindUnprocessed, FindNone, Insert, InboxTyped,
       TypeOK, brokerVars, historyVars, faultVars
<1>8. ASSUME NEW w \in Workers,
             HandlerCompletes(w) \/ HandlerThrows(w) \/ SaveDoneFails(w)
      PROVE  InboxTyped'
  <2>1. worker[w] # Free /\ worker[w] \in Delivery /\ worker[w].row # NoRow
    BY <1>0, <1>8, BusyIsDelivery
       DEF HandlerCompletes, HandlerThrows, SaveDoneFails, RowsHeld
  <2>2. worker[w].id \in Ids /\ worker[w].queue \in Queues
    BY <2>1 DEF Delivery
  <2>3. NoRow # [worker[w].row EXCEPT !.processed = TRUE]
        /\ NoRow # [worker[w].row EXCEPT !.retryCount = @ + 1]
    BY <1>0, <2>1, CopiesAreRows, NoRowIsNoRow
  <2>4. PICK d \in Delivery : /\ worker' = [worker EXCEPT ![w] = d]
                              /\ d.row # NoRow
    <3>1. CASE HandlerCompletes(w)
      BY <1>0, <2>1, <2>3, <3>1, HandlerCompletesMoves DEF Delivery
    <3>2. CASE HandlerThrows(w) \/ SaveDoneFails(w)
      BY <1>0, <2>1, <2>3, <3>2, CountFailureMoves
         DEF HandlerThrows, SaveDoneFails, Delivery
    <3> QED
      BY <1>8, <3>1, <3>2
  <2>5. worker' \in [Workers -> Delivery \cup {Free}] /\ RowsHeld'
    BY <1>1, <2>4
  <2>6. runs' \in [Ids -> Nat] /\ failures' \in [Ids -> Nat] /\ dbErrors' \in Nat
    <3>1. CASE HandlerCompletes(w)
      BY <1>0, <2>2, <3>1 DEF HandlerCompletes, TypeOK, faultVars
    <3>2. CASE HandlerThrows(w)
      BY <1>0, <2>2, <3>2 DEF HandlerThrows, TypeOK, faultVars
    <3>3. CASE SaveDoneFails(w)
      BY <1>0, <2>2, <3>3 DEF SaveDoneFails, TypeOK
    <3> QED
      BY <1>8, <3>1, <3>2, <3>3
  <2>7. served' \in [Queues -> SUBSET Ids]
    <3>1. served[worker[w].queue] \cup {worker[w].id} \in SUBSET Ids
      BY <1>0, <2>2 DEF TypeOK
    <3> QED
      BY <1>0, <1>8, <3>1 DEF HandlerCompletes, HandlerThrows, SaveDoneFails, TypeOK
  <2> QED
    BY <1>0, <1>8, <2>5, <2>6, <2>7 DEF HandlerCompletes, HandlerThrows,
       SaveDoneFails, InboxTyped, TypeOK, brokerVars, faultVars
<1>9. ASSUME NEW p \in Replicas, LoseConnection(p) \/ Notice(p) \/ Crash(p)
      PROVE  InboxTyped'
  <2>1. waiting' \in [Queues -> [Ids -> Nat]]
    <3>1. CASE Notice(p)
      BY <1>0, <3>1 DEF Notice, brokerVars, TypeOK
    <3> QED
      BY <1>0, <1>9, <3>1, RequeueAdds DEF LoseConnection, Crash
  <2>2. /\ worker' \in [Workers -> Delivery \cup {Free}]
        /\ connected' \subseteq Replicas
        /\ \A v \in Workers : worker'[v] \in {worker[v], Free}
    <3>1. CASE LoseConnection(p)
      BY <1>0, <3>1 DEF LoseConnection, TypeOK
    <3>2. CASE Notice(p) \/ Crash(p)
      BY <1>0, <3>2, DeathFrees DEF Notice, Crash
    <3> QED
      BY <1>9, <3>1, <3>2
  <2>3. RowsHeld'
    BY <1>0, <2>2 DEF RowsHeld, Free
  <2>4. crashes' \in Nat /\ losses' \in Nat
    BY <1>0, <1>9 DEF LoseConnection, Notice, Crash, faultVars, TypeOK
  <2> QED
    BY <1>0, <1>9, <2>1, <2>2, <2>3, <2>4 DEF LoseConnection, Notice, Crash,
       InboxTyped, TypeOK, brokerVars, historyVars, faultVars
<1>10. CASE CleanupExpired
  BY <1>0, <1>10 DEF CleanupExpired, InboxTyped, TypeOK, RowsHeld, brokerVars,
     historyVars
<1>11. CASE UNCHANGED vars
  BY <1>0, <1>11 DEF vars, InboxTyped, TypeOK, RowsHeld
<1> QED
  BY <1>2, <1>3, <1>5, <1>6, <1>7, <1>8, <1>9, <1>10, <1>11
     DEF Next, ProcessMessage, Drained

-----------------------------------------------------------------------------
(* What the table, the broker and the deliveries claim.                    *)

\* Runs and failures only grow; so what was claimed stays true, and a step has
\* to answer only for what it claims anew.
LEMMA ClaimsKept ==
  ASSUME InboxInv, InboxTyped',
         \A m \in Ids : runs[m] <= runs'[m] /\ failures[m] <= failures'[m],
         \A m \in Ids :
           \/ inbox'[m] = inbox[m]
           \/ inbox'[m] = NoRow /\ AlreadyProcessed(m)
           \/ /\ inbox'[m] # NoRow
              /\ inbox'[m].retryCount <= failures'[m]
              /\ inbox'[m].processed => WasHandled(m)',
         \A q \in Queues : \A m \in acked'[q] : m \in acked[q] \/ WasHandled(m)',
         dbErrors' = 0 =>
           /\ dbErrors = 0
           /\ \A m \in dropped' : m \in dropped \/ Stored(m)',
         \A w \in Workers : worker'[w].pc \in {"handle", "saveDone", "saveError"} =>
           \/ ClaimsTruth(w)'
           \/ /\ worker'[w].pc = worker[w].pc /\ worker'[w].id = worker[w].id
              /\ worker'[w].row = worker[w].row
  PROVE  InboxInv'
<1>1. TypeOK /\ TypeOK' /\ RowsHeld
  BY DEF InboxInv, InboxTyped
<1>2. \A m \in Ids : /\ runs[m] \in Nat /\ runs'[m] \in Nat
                     /\ failures[m] \in Nat /\ failures'[m] \in Nat
                     /\ Stored(m) => inbox[m].retryCount \in Nat
  BY <1>1 DEF TypeOK, Stored, InboxRow
<1>3. \A m \in Ids : WasHandled(m) => WasHandled(m)'
  BY <1>2 DEF WasHandled
<1>4. \A m \in Ids : AlreadyProcessed(m) => WasHandled(m)'
  BY <1>3 DEF InboxInv, ClaimsWereHandled, ProcessedWasHandled
<1>5. ProcessedWasHandled'
  BY <1>4 DEF ProcessedWasHandled, AlreadyProcessed, Stored
<1>6. AckedWasHandled'
  <2>1. \A q \in Queues : acked'[q] \subseteq Ids
    BY <1>1 DEF TypeOK
  <2> QED
    BY <2>1, <1>3 DEF AckedWasHandled, InboxInv, ClaimsWereHandled
<1>7. RetriesAreFailures'
  BY <1>2 DEF RetriesAreFailures, InboxInv, Stored
<1>8. DroppedIsRemembered'
  <2>1. dropped' \subseteq Ids
    BY <1>1 DEF TypeOK
  <2>2. \A m \in Ids : Stored(m) \/ WasHandled(m) => Stored(m)' \/ WasHandled(m)'
    BY <1>3, <1>4 DEF Stored
  <2> QED
    BY <2>1, <2>2 DEF DroppedIsRemembered, InboxInv
<1>9. DeliveriesClaimTruth'
  <2> SUFFICES ASSUME NEW w \in Workers,
                      worker[w].pc \in {"handle", "saveDone", "saveError"},
                      worker'[w].pc = worker[w].pc, worker'[w].id = worker[w].id,
                      worker'[w].row = worker[w].row
               PROVE  ClaimsTruth(w)'
    BY DEF DeliveriesClaimTruth
  <2>1. worker[w] \in Delivery /\ worker[w].row # NoRow
    BY <1>1, BusyIsDelivery DEF RowsHeld
  <2>2. worker[w].id \in Ids /\ worker[w].row.retryCount \in Nat
    BY <2>1 DEF Delivery, InboxRow
  <2>3. ClaimsTruth(w)
    BY DEF InboxInv, DeliveriesClaimTruth
  <2> QED
    BY <2>2, <2>3, <1>2, <1>3 DEF ClaimsTruth
<1> QED
  BY <1>5, <1>6, <1>7, <1>8, <1>9 DEF InboxInv, ClaimsWereHandled

\* Every step keeps claims, retries and dropped messages accounted for.
LEMMA InboxStep == InboxInv /\ [Next]_vars => InboxInv'
<1> SUFFICES ASSUME InboxInv, [Next]_vars PROVE InboxInv'
  OBVIOUS
<1>0. InboxTyped /\ InboxTyped' /\ TypeOK /\ TypeOK' /\ RowsHeld
  BY InboxTypeStep DEF InboxInv, InboxTyped
<1>1. \A m \in Ids : /\ runs[m] \in Nat /\ failures[m] \in Nat
                     /\ Stored(m) => inbox[m] \in InboxRow
  BY <1>0 DEF TypeOK, Stored
<1>2. \A w \in Workers : worker[w] # Free =>
        /\ worker[w] \in Delivery
        /\ worker[w].id \in Ids /\ worker[w].queue \in Queues
  BY <1>0, BusyIsDelivery DEF Delivery
<1>3. ASSUME UNCHANGED <<inbox, runs, failures, acked, dropped, dbErrors>>,
             \A w \in Workers :
               worker'[w].pc \in {"handle", "saveDone", "saveError"} =>
               /\ worker'[w].pc = worker[w].pc /\ worker'[w].id = worker[w].id
               /\ worker'[w].row = worker[w].row
      PROVE  InboxInv'
  BY <1>0, <1>1, <1>3, ClaimsKept
<1>4. ASSUME NEW q \in Queues, NEW m \in Ids, Arrive(q, m) PROVE InboxInv'
  BY <1>3, <1>4 DEF Arrive, historyVars, faultVars
<1>5. ASSUME NEW w \in Workers, NEW p \in Replicas, NEW q \in Queues, NEW m \in Ids,
             Deliver(w, p, q, m)
      PROVE  InboxInv'
  <2>1. /\ worker'[w].pc = "find"
        /\ \A v \in Workers : v # w => worker'[v] = worker[v]
    BY <1>0, <1>5 DEF Deliver, TypeOK
  <2> QED
    BY <1>3, <1>5, <2>1 DEF Deliver, faultVars
<1>6. ASSUME NEW p \in Replicas, LoseConnection(p) \/ Notice(p) \/ Crash(p)
      PROVE  InboxInv'
  <2>1. \A v \in Workers : worker'[v] \in {worker[v], Free}
    <3>1. CASE LoseConnection(p)
      BY <3>1 DEF LoseConnection
    <3>2. CASE Notice(p) \/ Crash(p)
      BY <1>0, <3>2, DeathFrees DEF Notice, Crash
    <3> QED
      BY <1>6, <3>1, <3>2
  <2>2. UNCHANGED <<inbox, runs, failures, acked, dropped, dbErrors>>
    BY <1>6 DEF LoseConnection, Notice, Crash, historyVars, faultVars
  <2> QED
    BY <1>3, <2>1, <2>2 DEF Free
<1>7. CASE CleanupExpired
  <2>1. PICK old \in (SUBSET Expirable) :
          inbox' = [m \in Ids |-> IF m \in old THEN NoRow ELSE inbox[m]]
    BY <1>7 DEF CleanupExpired
  <2>2. \A m \in Ids : \/ inbox'[m] = inbox[m]
                       \/ inbox'[m] = NoRow /\ AlreadyProcessed(m)
    BY <2>1 DEF Expirable, AlreadyProcessed
  <2>3. UNCHANGED <<worker, runs, failures, acked, dropped, dbErrors>>
    BY <1>7 DEF CleanupExpired, historyVars
  <2> QED
    BY <1>0, <1>1, <2>2, <2>3, ClaimsKept
<1>8. CASE UNCHANGED vars
  BY <1>3, <1>8 DEF vars
<1>9. ASSUME NEW w \in Workers, FindProcessed(w) PROVE InboxInv'
  <2>1. worker[w] # Free /\ WasHandled(worker[w].id)
    BY <1>2, <1>9 DEF FindProcessed, Free, InboxInv, ClaimsWereHandled,
       ProcessedWasHandled
  <2>2. /\ \A v \in Workers : worker'[v] \in {worker[v], Free}
        /\ \A q \in Queues : \A m \in acked'[q] : m \in acked[q] \/ m = worker[w].id
        /\ dropped' = dropped
    BY <1>0, <1>9, <2>1, AnswerFrees DEF FindProcessed, LeftAlone
  <2>3. UNCHANGED <<inbox, runs, failures, dropped, dbErrors>>
    BY <1>9, <2>2 DEF FindProcessed, historyVars, faultVars
  <2>4. \A q \in Queues : \A m \in acked'[q] : m \in acked[q] \/ WasHandled(m)'
    BY <2>1, <2>2, <2>3 DEF WasHandled
  <2> QED
    BY <1>0, <1>1, <2>2, <2>3, <2>4, ClaimsKept DEF Free
<1>10. ASSUME NEW w \in Workers, InsertConflict(w) PROVE InboxInv'
  <2>3. worker[w] # Free
    BY <1>10 DEF InsertConflict, Free
  <2>1. /\ \A v \in Workers : worker'[v] \in {worker[v], Free}
        /\ \A m \in dropped' : m \in dropped \/ Stored(m)
        /\ acked' = acked
    BY <1>0, <1>10, <2>3, AnswerFrees DEF InsertConflict, LeftAlone
  <2>2. UNCHANGED <<inbox, runs, failures, acked, dbErrors>>
    BY <1>10, <2>1 DEF InsertConflict, historyVars, faultVars
  <2> QED
    BY <1>0, <1>1, <2>1, <2>2, ClaimsKept DEF Free, Stored
<1>11. ASSUME NEW w \in Workers, CallFails(w) PROVE InboxInv'
  <2>3. worker[w] # Free
    BY <1>11 DEF CallFails, Free
  <2>1. /\ \A v \in Workers : worker'[v] \in {worker[v], Free}
        /\ acked' = acked
    BY <1>0, <1>11, <2>3, AnswerFrees DEF CallFails, LeftAlone
  <2>4. dbErrors' # 0
    BY <1>0, <1>11 DEF CallFails, TypeOK
  <2>2. UNCHANGED <<inbox, runs, failures, acked>>
    BY <1>11, <2>1 DEF CallFails, historyVars
  <2> QED
    BY <1>0, <1>1, <2>1, <2>2, <2>4, ClaimsKept DEF Free
<1>12. ASSUME NEW w \in Workers, SaveDone(w) \/ SaveError(w) PROVE InboxInv'
  <2>1. worker[w] # Free
    BY <1>12 DEF SaveDone, SaveError, Free
  <2>2. /\ worker[w].row \in InboxRow /\ worker[w].row # NoRow
        /\ ClaimsTruth(w)
        /\ worker[w].id \in Ids
    BY <1>0, <1>2, <1>12, <2>1
       DEF SaveDone, SaveError, RowsHeld, Delivery, InboxInv, DeliveriesClaimTruth
  <2>3. /\ inbox'[worker[w].id] = worker[w].row
        /\ \A m \in Ids : m # worker[w].id => inbox'[m] = inbox[m]
    BY <1>0, <1>12, <2>2 DEF SaveDone, SaveError, WriteBack, TypeOK
  <2>4. UNCHANGED <<runs, failures, dbErrors>>
    BY <1>12 DEF SaveDone, SaveError, historyVars, faultVars
  <2>5. \A m \in Ids :
          \/ inbox'[m] = inbox[m]
          \/ /\ inbox'[m] # NoRow
             /\ inbox'[m].retryCount <= failures'[m]
             /\ inbox'[m].processed => WasHandled(m)'
    BY <2>2, <2>3, <2>4 DEF ClaimsTruth, WasHandled
  <2>6. \A q \in Queues : \A m \in acked'[q] : m \in acked[q] \/ WasHandled(m)'
    <3>1. CASE SaveDone(w)
      <4>1. WasHandled(worker[w].id)
        BY <2>2, <3>1 DEF SaveDone, ClaimsTruth
      <4>2. \A q \in Queues : \A m \in acked'[q] : m \in acked[q] \/ m = worker[w].id
        BY <1>0, <2>1, <3>1, AnswerFrees DEF SaveDone
      <4> QED
        BY <4>1, <4>2, <2>4 DEF WasHandled
    <3>2. CASE SaveError(w)
      <4>1. acked' = acked
        BY <1>0, <2>1, <3>2, AnswerFrees DEF SaveError
      <4> QED
        BY <4>1
    <3> QED
      BY <1>12, <3>1, <3>2
  <2>7. \A m \in dropped' : m \in dropped \/ Stored(m)'
    BY <1>0, <1>12, <2>1, <2>2, <2>3, AnswerFrees DEF SaveDone, SaveError, Stored
  <2>8. \A v \in Workers : worker'[v] \in {worker[v], Free}
    BY <1>0, <1>12, <2>1, AnswerFrees DEF SaveDone, SaveError, LeftAlone
  <2> QED
    BY <1>0, <1>1, <2>4, <2>5, <2>6, <2>7, <2>8, ClaimsKept DEF Free
<1>13. ASSUME NEW w \in Workers, FindNone(w) PROVE InboxInv'
  <2>1. /\ worker'[w].pc = "insert"
        /\ \A v \in Workers : v # w => worker'[v] = worker[v]
    BY <1>0, <1>2, <1>13 DEF FindNone, TypeOK, Delivery, Free
  <2> QED
    BY <1>3, <1>13, <2>1 DEF FindNone, historyVars, faultVars
<1>14. ASSUME NEW w \in Workers, FindUnprocessed(w) PROVE InboxInv'
  <2>1. worker[w] # Free
    BY <1>14 DEF FindUnprocessed, Free
  <2>2. /\ worker'[w].pc = "handle" /\ worker'[w].id = worker[w].id
        /\ worker'[w].row = inbox[worker[w].id]
        /\ \A v \in Workers : v # w => worker'[v] = worker[v]
    BY <1>0, <1>2, <1>14, <2>1 DEF FindUnprocessed, TypeOK, Delivery
  <2>3. UNCHANGED <<inbox, runs, failures, acked, dropped, dbErrors>>
    BY <1>14 DEF FindUnprocessed, historyVars, faultVars
  <2>4. ClaimsTruth(w)'
    <3>1. /\ inbox[worker[w].id].retryCount <= failures[worker[w].id]
          /\ ~ inbox[worker[w].id].processed
      BY <1>2, <1>14, <2>1 DEF FindUnprocessed, AlreadyProcessed, InboxInv,
         RetriesAreFailures
    <3> QED
      BY <2>2, <2>3, <3>1 DEF ClaimsTruth
  <2> QED
    BY <1>0, <1>1, <2>2, <2>3, <2>4, ClaimsKept
<1>15. ASSUME NEW w \in Workers, Insert(w) PROVE InboxInv'
  <2>1. worker[w] # Free /\ worker[w] \in Delivery /\ worker[w].id \in Ids
    BY <1>2, <1>15 DEF Insert, Free
  <2>2. /\ worker'[w].pc = "handle" /\ worker'[w].id = worker[w].id
        /\ worker'[w].row = NewRow
        /\ \A v \in Workers : v # w => worker'[v] = worker[v]
        /\ inbox'[worker[w].id] = NewRow
        /\ \A m \in Ids : m # worker[w].id => inbox'[m] = inbox[m]
    BY <1>0, <1>15, <2>1 DEF Insert, TypeOK, Delivery
  <2>3. UNCHANGED <<runs, failures, acked, dropped, dbErrors>>
    BY <1>15 DEF Insert, historyVars, faultVars
  <2>4. /\ NewRow # NoRow /\ NewRow.retryCount = 0 /\ ~ NewRow.processed
    <3>1. NewRow \in InboxRow
      BY <1>0 DEF NewRow, InboxRow, TypeOK
    <3> QED
      BY <3>1, NoRowIsNoRow DEF NewRow
  <2>5. ClaimsTruth(w)'
    BY <1>1, <2>1, <2>2, <2>3, <2>4 DEF ClaimsTruth
  <2>6. \A m \in Ids :
          \/ inbox'[m] = inbox[m]
          \/ /\ inbox'[m] # NoRow
             /\ inbox'[m].retryCount <= failures'[m]
             /\ inbox'[m].processed => WasHandled(m)'
    BY <1>1, <2>1, <2>2, <2>3, <2>4
  <2>7. \A m \in dropped' : m \in dropped
    BY <2>3
  <2> QED
    BY <1>0, <1>1, <2>2, <2>3, <2>5, <2>6, <2>7, ClaimsKept
<1>16. ASSUME NEW w \in Workers, HandlerCompletes(w) PROVE InboxInv'
  <2>1. /\ worker[w] # Free /\ worker[w] \in Delivery /\ worker[w].id \in Ids
        /\ worker[w].row \in InboxRow /\ worker[w].row # NoRow
        /\ ClaimsTruth(w)
    BY <1>0, <1>2, <1>16
       DEF HandlerCompletes, Free, RowsHeld, Delivery, InboxInv, DeliveriesClaimTruth
  <2>2. /\ worker'[w].pc = "saveDone" /\ worker'[w].id = worker[w].id
        /\ worker'[w].row.retryCount = worker[w].row.retryCount
        /\ worker'[w].row.processed
    <3> DEFINE row == [worker[w].row EXCEPT !.processed = TRUE]
               d == [worker[w] EXCEPT !.pc = "saveDone", !.row = row]
    <3>1. worker'[w] = d
      BY <1>0, <1>16, <2>1, HandlerCompletesMoves DEF TypeOK
    <3>2. row.retryCount = worker[w].row.retryCount /\ row.processed
      BY <2>1 DEF InboxRow
    <3> HIDE DEF row
    <3>3. d.pc = "saveDone" /\ d.id = worker[w].id /\ d.row = row
      BY <2>1 DEF Delivery
    <3> HIDE DEF d
    <3> QED
      BY <3>1, <3>2, <3>3
  <2>3. \A v \in Workers : v # w => worker'[v] = worker[v]
    BY <1>0, <1>16 DEF HandlerCompletes, TypeOK
  <2>4. /\ runs'[worker[w].id] > 0
        /\ \A m \in Ids : runs[m] <= runs'[m]
    <3>1. runs' = [runs EXCEPT ![worker[w].id] = @ + 1]
      BY <1>16 DEF HandlerCompletes
    <3> QED
      BY <1>0, <1>1, <2>1, <3>1 DEF TypeOK
  <2>5. UNCHANGED <<inbox, failures, acked, dropped, dbErrors>>
    BY <1>16 DEF HandlerCompletes, faultVars
  <2>6. ClaimsTruth(w)'
    BY <2>1, <2>2, <2>4, <2>5 DEF ClaimsTruth, WasHandled
  <2> QED
    BY <1>0, <1>1, <2>3, <2>4, <2>5, <2>6, ClaimsKept
<1>17. ASSUME NEW w \in Workers, HandlerThrows(w) \/ SaveDoneFails(w) PROVE InboxInv'
  <2>1. /\ worker[w] # Free /\ worker[w] \in Delivery /\ worker[w].id \in Ids
        /\ worker[w].row \in InboxRow /\ worker[w].row # NoRow
        /\ ClaimsTruth(w)
    BY <1>0, <1>2, <1>17
       DEF HandlerThrows, SaveDoneFails, Free, RowsHeld, Delivery, InboxInv,
           DeliveriesClaimTruth
  <2>2. CountFailure(w)
    BY <1>17 DEF HandlerThrows, SaveDoneFails
  <2>3. /\ worker'[w].pc = "saveError" /\ worker'[w].id = worker[w].id
        /\ worker'[w].row.retryCount = worker[w].row.retryCount + 1
        /\ worker'[w].row.processed = worker[w].row.processed
        /\ \A v \in Workers : v # w => worker'[v] = worker[v]
    <3> DEFINE row == [worker[w].row EXCEPT !.retryCount = @ + 1]
               d == [worker[w] EXCEPT !.pc = "saveError", !.row = row]
    <3>1. worker'[w] = d /\ \A v \in Workers : v # w => worker'[v] = worker[v]
      <4>1. d \in Delivery /\ worker' = [worker EXCEPT ![w] = d]
        BY <1>0, <2>1, <2>2, CountFailureMoves
      <4> HIDE DEF d
      <4> QED
        BY <1>0, <4>1, OneDeliveryMoves
    <3>2. /\ row.retryCount = worker[w].row.retryCount + 1
          /\ row.processed = worker[w].row.processed
      BY <2>1 DEF InboxRow
    <3> HIDE DEF row
    <3>3. d.pc = "saveError" /\ d.id = worker[w].id /\ d.row = row
      BY <2>1 DEF Delivery
    <3> HIDE DEF d
    <3> QED
      BY <3>1, <3>2, <3>3
  <2>4. /\ failures'[worker[w].id] = failures[worker[w].id] + 1
        /\ \A m \in Ids : failures[m] <= failures'[m]
        /\ worker[w].row.retryCount \in Nat /\ failures[worker[w].id] \in Nat
    <3>1. failures' = [failures EXCEPT ![worker[w].id] = @ + 1]
      BY <1>17 DEF HandlerThrows, SaveDoneFails
    <3>2. worker[w].row.retryCount \in Nat
      BY <2>1 DEF InboxRow
    <3> QED
      BY <1>0, <1>1, <2>1, <3>1, <3>2 DEF TypeOK
  <2>5. /\ UNCHANGED <<inbox, runs, acked, dropped>>
        /\ dbErrors' = 0 => dbErrors = 0
    <3>1. CASE HandlerThrows(w)
      BY <3>1 DEF HandlerThrows, faultVars
    <3>2. CASE SaveDoneFails(w)
      BY <1>0, <3>2 DEF SaveDoneFails, TypeOK
    <3> QED
      BY <1>17, <3>1, <3>2
  <2>6. ClaimsTruth(w)'
    BY <2>1, <2>3, <2>4, <2>5 DEF ClaimsTruth, WasHandled
  <2> QED
    BY <1>0, <1>1, <2>3, <2>4, <2>5, <2>6, ClaimsKept
<1> QED
  BY <1>4, <1>5, <1>6, <1>7, <1>8, <1>9, <1>10, <1>11, <1>12, <1>13, <1>14, <1>15,
     <1>16, <1>17 DEF Next, ProcessMessage, Drained

-----------------------------------------------------------------------------
(* A message handled once.                                                 *)

\* The faults so far are counted.
LEMMA FaultsAreNumbers == TypeOK => Faults \in Nat
BY DEF TypeOK, Faults

\* What a step other than a new delivery has to keep.
LEMMA OnceKept ==
  ASSUME OnceInv, InboxInv', collided' = collided,
         \A w \in Workers : worker'[w] # Free =>
           worker[w] # Free /\ worker'[w].id = worker[w].id,
         FoundUnprocessed',
         \A m \in Ids \ collided :
           \/ /\ runs'[m] = runs[m] /\ Faults' = Faults
              /\ Recorded(m) => Recorded(m)'
              /\ RunPending(m)' => RunPending(m)
           \/ /\ runs'[m] = runs[m] /\ Faults' = Faults + 1
              /\ \/ Recorded(m) => Recorded(m)'
                 \/ RunPending(m)' => RunPending(m)
           \/ /\ runs'[m] = runs[m] + 1 /\ Faults' = Faults
              /\ \/ /\ ~ Recorded(m) /\ Recorded(m)'
                    /\ RunPending(m)' => RunPending(m)
                 \/ /\ RunPending(m) /\ ~ RunPending(m)'
                    /\ Recorded(m) => Recorded(m)'
  PROVE  OnceInv'
<1>1. SoleDelivery'
  BY DEF SoleDelivery, OnceInv
<1>2. RunsPaidFor'
  <2> SUFFICES ASSUME NEW m \in Ids, m \notin collided
               PROVE  runs'[m] + (IF RunPending(m)' THEN 1 ELSE 0)
                        <= (IF Recorded(m)' THEN 1 ELSE 0) + Faults'
    BY DEF RunsPaidFor
  <2>1. runs[m] + (IF RunPending(m) THEN 1 ELSE 0)
          <= (IF Recorded(m) THEN 1 ELSE 0) + Faults
    BY DEF OnceInv, RunsPaidFor
  <2>2. Faults \in Nat /\ runs[m] \in Nat
    BY FaultsAreNumbers DEF OnceInv, InboxInv, InboxTyped, TypeOK
  <2> HIDE DEF Faults, Recorded, RunPending
  <2> QED
    BY <2>1, <2>2
<1> QED
  BY <1>1, <1>2 DEF OnceInv

\* A message that did not collide and is held by a delivery is recorded only
\* by that delivery.
LEMMA HeldIsRecordedByHolder ==
  ASSUME OnceInv, NEW w \in Workers,
         worker[w].pc \in {"insert", "handle", "saveDone", "saveError"},
         worker[w].id \notin collided
  PROVE  Recorded(worker[w].id) => worker[w].pc = "saveDone"
<1> SUFFICES ASSUME Recorded(worker[w].id) PROVE worker[w].pc = "saveDone"
  OBVIOUS
<1>1. PICK v \in Workers : worker[v].pc = "saveDone" /\ worker[v].id = worker[w].id
  BY DEF OnceInv, FoundUnprocessed, Recorded
<1>2. worker[v] # Free /\ worker[w] # Free
  BY <1>1 DEF Free
<1>3. v = w
  BY <1>1, <1>2 DEF OnceInv, SoleDelivery
<1> QED
  BY <1>1, <1>3

\* Only a broken connection leaves a handler's run pending.
LEMMA PendingKept ==
  ASSUME NEW w \in Workers, \A v \in Workers : v # w => LeftAlone(v),
         connected \subseteq connected',
         \/ worker'[w] = Free
         \/ worker'[w].pc \in Unhandled =>
              /\ worker[w].pc \in Unhandled
              /\ worker'[w].id = worker[w].id /\ worker'[w].at = worker[w].at,
         NEW m \in Ids, RunPending(m)'
  PROVE  RunPending(m)
<1>1. PICK v \in Workers : /\ worker'[v].pc \in Unhandled /\ worker'[v].id = m
                           /\ worker'[v].at \notin connected'
  BY DEF RunPending
<1>2. worker'[v] # Free
  BY <1>1 DEF Unhandled, Free
<1>3. /\ worker[v].pc \in Unhandled
      /\ worker'[v].id = worker[v].id /\ worker'[v].at = worker[v].at
  BY <1>1, <1>2 DEF LeftAlone
<1> QED
  BY <1>1, <1>3 DEF RunPending

\* A delivery's step takes away no other delivery's record.
LEMMA RecordedElsewhere ==
  ASSUME NEW w \in Workers, \A v \in Workers : v # w => LeftAlone(v),
         connected \subseteq connected', worker[w].pc # "saveDone",
         NEW m \in Ids, AlreadyProcessed(m) => AlreadyProcessed(m)', Recorded(m)
  PROVE  Recorded(m)'
<1>1. CASE AlreadyProcessed(m)
  BY <1>1 DEF Recorded
<1>2. ASSUME NEW v \in Workers, worker[v].pc = "saveDone", worker[v].id = m,
             worker[v].at \in connected
      PROVE  Recorded(m)'
  <2>1. worker'[v] = worker[v]
    BY <1>2 DEF LeftAlone
  <2> QED
    BY <1>2, <2>1 DEF Recorded
<1> QED
  BY <1>1, <1>2 DEF Recorded

\* Every step pays for a repeated handling with a fault.
LEMMA OnceStep == OnceInv /\ [Next]_vars => OnceInv'
<1> SUFFICES ASSUME OnceInv, [Next]_vars PROVE OnceInv'
  OBVIOUS
<1>0. InboxInv /\ InboxInv' /\ TypeOK /\ TypeOK' /\ RowsHeld /\ DeliveriesClaimTruth
  BY InboxStep DEF OnceInv, InboxInv, InboxTyped
<1>1. \A w \in Workers : worker[w] # Free =>
        /\ worker[w] \in Delivery /\ worker[w].id \in Ids
  BY <1>0, BusyIsDelivery DEF Delivery
<1>2. Faults \in Nat
  BY <1>0, FaultsAreNumbers
\* A step of one delivery that changes no message's being processed.
<1>3. ASSUME NEW w \in Workers, UNCHANGED <<collided, runs>>,
             \A m \in Ids : AlreadyProcessed(m)' <=> AlreadyProcessed(m),
             \A v \in Workers : v # w => LeftAlone(v),
             connected \subseteq connected',
             \/ worker'[w] = Free
             \/ /\ worker[w] # Free
                /\ worker'[w].id = worker[w].id /\ worker'[w].at = worker[w].at
                /\ \/ worker[w].pc \in {"insert", "handle", "saveDone", "saveError"}
                   \/ ~ AlreadyProcessed(worker[w].id)
                /\ worker'[w].pc \in Unhandled => worker[w].pc \in Unhandled,
             \/ Faults' = Faults + 1
             \/ Faults' = Faults /\ worker[w].pc # "saveDone"
      PROVE  OnceInv'
  <2>1. \A v \in Workers : worker'[v] # Free =>
          worker[v] # Free /\ worker'[v].id = worker[v].id
    BY <1>3 DEF LeftAlone
  <2>2. FoundUnprocessed'
    <3> SUFFICES ASSUME NEW v \in Workers,
                        worker'[v].pc \in {"insert", "handle", "saveDone", "saveError"},
                        worker'[v].id \notin collided
                 PROVE  ~ AlreadyProcessed(worker[v].id)'
      BY <1>3, <2>1 DEF FoundUnprocessed, Free
    <3>1. worker'[v] # Free
      BY DEF Free
    <3>2. worker[v] # Free /\ worker'[v].id = worker[v].id /\ worker[v].id \in Ids
      BY <3>1, <2>1, <1>1
    <3>3. ~ AlreadyProcessed(worker[v].id)
      BY <1>3, <3>1, <3>2 DEF OnceInv, FoundUnprocessed, LeftAlone
    <3> QED
      BY <1>3, <3>2, <3>3 DEF AlreadyProcessed, Stored
  <2>3. \A m \in Ids : RunPending(m)' => RunPending(m)
    BY <1>3, PendingKept
  <2>4. Faults' # Faults + 1 => \A m \in Ids : Recorded(m) => Recorded(m)'
    BY <1>3, RecordedElsewhere
  <2> HIDE DEF Faults, Recorded, RunPending
  <2> QED
    BY <1>0, <1>3, <2>1, <2>2, <2>3, <2>4, OnceKept
<1>4. ASSUME UNCHANGED <<collided, runs, worker, connected>>, Faults' \in {Faults, Faults + 1},
             \A m \in Ids : AlreadyProcessed(m)' => AlreadyProcessed(m),
             \A m \in Ids : AlreadyProcessed(m) => AlreadyProcessed(m)' \/ Faults' = Faults + 1
      PROVE  OnceInv'
  <2>1. FoundUnprocessed'
    <3> SUFFICES ASSUME NEW v \in Workers,
                        worker[v].pc \in {"insert", "handle", "saveDone", "saveError"},
                        worker[v].id \notin collided
                 PROVE  ~ AlreadyProcessed(worker[v].id)'
      BY <1>4 DEF FoundUnprocessed
    <3>1. worker[v] # Free
      BY DEF Free
    <3> QED
      BY <1>1, <1>4, <3>1 DEF OnceInv, FoundUnprocessed
  <2>2. \A m \in Ids : RunPending(m)' => RunPending(m)
    BY <1>4 DEF RunPending
  <2>3. Faults' # Faults + 1 => \A m \in Ids : Recorded(m) => Recorded(m)'
    BY <1>4 DEF Recorded
  <2> HIDE DEF Faults, Recorded, RunPending
  <2> QED
    BY <1>0, <1>4, <2>1, <2>2, <2>3, OnceKept
<1>5. ASSUME NEW q \in Queues, NEW m \in Ids, Arrive(q, m) PROVE OnceInv'
  BY <1>4, <1>5 DEF Arrive, historyVars, faultVars, Faults, AlreadyProcessed, Stored
<1>6. CASE UNCHANGED vars
  BY <1>4, <1>6 DEF vars, Faults, AlreadyProcessed, Stored
<1>7. CASE CleanupExpired
  <2>1. PICK old \in (SUBSET Expirable) :
          inbox' = [m \in Ids |-> IF m \in old THEN NoRow ELSE inbox[m]]
    BY <1>7 DEF CleanupExpired
  <2>2. \A m \in Ids : AlreadyProcessed(m)' => AlreadyProcessed(m)
    BY <2>1 DEF AlreadyProcessed, Stored
  <2>3. Faults' = Faults + 1
    BY <1>0, <1>7 DEF CleanupExpired, Faults, TypeOK
  <2> QED
    BY <1>4, <1>7, <2>2, <2>3 DEF CleanupExpired, historyVars
<1>8. ASSUME NEW w \in Workers, NEW p \in Replicas, NEW q \in Queues, NEW m \in Ids,
             Deliver(w, p, q, m)
      PROVE  OnceInv'
  <2>1. /\ worker[w] = Free
        /\ worker'[w].pc = "find" /\ worker'[w].id = m /\ worker'[w] # Free
        /\ worker'[w].at \in connected /\ connected' = connected
        /\ \A v \in Workers : v # w => worker'[v] = worker[v]
    BY <1>0, <1>8 DEF Deliver, TypeOK, Free
  <2>2. /\ collided \subseteq collided'
        /\ (\E v \in Workers : worker[v] # Free /\ worker[v].id = m) => m \in collided'
        /\ UNCHANGED <<inbox, runs>> /\ Faults' = Faults
    BY <1>8 DEF Deliver, faultVars, Faults
  <2>3. SoleDelivery'
    <3> SUFFICES ASSUME NEW u \in Workers, NEW v \in Workers,
                        worker'[u] # Free, worker'[v] # Free,
                        worker'[u].id = worker'[v].id, worker'[u].id \notin collided'
                 PROVE  u = v
      BY DEF SoleDelivery
    <3>1. CASE u # w /\ v # w
      BY <2>1, <2>2, <3>1 DEF OnceInv, SoleDelivery
    <3>2. CASE u = w \/ v = w
      BY <2>1, <2>2, <3>2
    <3> QED
      BY <3>1, <3>2
  <2>4. FoundUnprocessed'
    BY <2>1, <2>2 DEF OnceInv, FoundUnprocessed, AlreadyProcessed, Stored
  <2>5. \A k \in Ids : Recorded(k) => Recorded(k)'
    <3>1. \A v \in Workers : worker[v].pc = "saveDone" => worker'[v] = worker[v]
      BY <2>1 DEF Free
    <3> QED
      BY <2>1, <2>2, <3>1 DEF Recorded, AlreadyProcessed, Stored
  <2>7. \A k \in Ids : RunPending(k)' => RunPending(k)
    BY <2>1 DEF RunPending
  <2>6. RunsPaidFor'
    <3> SUFFICES ASSUME NEW k \in Ids, k \notin collided'
                 PROVE  runs'[k] + (IF RunPending(k)' THEN 1 ELSE 0)
                          <= (IF Recorded(k)' THEN 1 ELSE 0) + Faults'
      BY DEF RunsPaidFor
    <3>1. /\ runs[k] + (IF RunPending(k) THEN 1 ELSE 0)
               <= (IF Recorded(k) THEN 1 ELSE 0) + Faults
          /\ runs[k] \in Nat
      BY <1>0, <2>2 DEF OnceInv, RunsPaidFor, TypeOK
    <3> HIDE DEF Faults, Recorded, RunPending
    <3> QED
      BY <1>2, <2>2, <2>5, <2>7, <3>1
  <2> QED
    BY <1>0, <2>3, <2>4, <2>6 DEF OnceInv
<1>9. ASSUME NEW p \in Replicas, LoseConnection(p) \/ Notice(p) \/ Crash(p)
      PROVE  OnceInv'
  <2>1. /\ \A v \in Workers : worker'[v] \in {worker[v], Free}
        /\ Notice(p) => \A v \in Workers : LeftAlone(v)
        /\ Notice(p) \/ Crash(p) => connected \subseteq connected'
    <3>1. CASE LoseConnection(p)
      <4>1. ~ Notice(p) /\ ~ Crash(p)
        BY <1>0, <3>1 DEF LoseConnection, Notice, Crash, faultVars, TypeOK
      <4> QED
        BY <3>1, <4>1 DEF LoseConnection
    <3>2. CASE Notice(p) \/ Crash(p)
      BY <1>0, <3>2, DeathFrees DEF Notice, Crash
    <3> QED
      BY <1>9, <3>1, <3>2
  <2>2. UNCHANGED <<inbox, runs, collided>>
    BY <1>9 DEF LoseConnection, Notice, Crash, historyVars
  <2>3. Faults' = IF Notice(p) THEN Faults ELSE Faults + 1
    <3>1. CASE Notice(p)
      BY <3>1 DEF Notice, faultVars, Faults
    <3>2. CASE LoseConnection(p) \/ Crash(p)
      <4>1. ~ Notice(p)
        BY <1>0, <3>2 DEF LoseConnection, Crash, Notice, faultVars, TypeOK
      <4> QED
          <5>1. /\ crashes \in Nat /\ losses \in Nat
                /\ dbErrors \in Nat /\ cleanups \in Nat
            BY <1>0 DEF TypeOK
          <5>2. /\ dbErrors' = dbErrors /\ cleanups' = cleanups
                /\ \/ losses' = losses + 1 /\ crashes' = crashes
                   \/ losses' = losses /\ crashes' = crashes + 1
            BY <3>2 DEF LoseConnection, Crash
          <5> QED
            BY <4>1, <5>1, <5>2 DEF Faults
    <3> QED
      BY <1>9, <3>1, <3>2
  <2>4. FoundUnprocessed'
    BY <2>1, <2>2 DEF OnceInv, FoundUnprocessed, AlreadyProcessed, Stored, Free
  <2>5. \A v \in Workers : worker'[v] # Free =>
          worker[v] # Free /\ worker'[v].id = worker[v].id
    BY <2>1
  <2>6. Notice(p) \/ Crash(p) => \A m \in Ids : RunPending(m)' => RunPending(m)
    BY <2>1 DEF RunPending, Free, Unhandled
  <2>7. Notice(p) => \A m \in Ids : Recorded(m) => Recorded(m)'
    BY <2>1, <2>2 DEF Recorded, LeftAlone, AlreadyProcessed, Stored
\* The delivery that saves a run is the only one of its message: none is pending.
  <2>8. ASSUME LoseConnection(p), NEW m \in Ids \ collided, RunPending(m)', Recorded(m)
        PROVE  Recorded(m)'
    <3>1. worker' = worker
      BY <2>8 DEF LoseConnection
    <3>2. PICK v \in Workers : worker[v].pc \in Unhandled /\ worker[v].id = m
      BY <2>8, <3>1 DEF RunPending
    <3>3. \A u \in Workers : ~ (worker[u].pc = "saveDone" /\ worker[u].id = m)
      BY <2>8, <3>2 DEF OnceInv, SoleDelivery, Unhandled, Free
    <3> QED
      BY <2>2, <2>8, <3>3 DEF Recorded, AlreadyProcessed, Stored
  <2> HIDE DEF Faults, Recorded, RunPending
  <2> QED
    BY <1>0, <1>9, <2>2, <2>3, <2>4, <2>5, <2>6, <2>7, <2>8, OnceKept
<1>10. ASSUME NEW w \in Workers,
              \/ FindProcessed(w) \/ FindUnprocessed(w) \/ FindNone(w)
              \/ InsertConflict(w) \/ CallFails(w)
       PROVE  OnceInv'
  <2>1. /\ worker[w] # Free /\ worker[w] \in Delivery
        /\ worker[w].pc # "saveDone"
    BY <1>1, <1>10 DEF FindProcessed, FindUnprocessed, FindNone, InsertConflict,
       CallFails, Free
  <2>2. /\ \A v \in Workers : v # w => LeftAlone(v)
        /\ connected \subseteq connected'
    <3>1. CASE FindUnprocessed(w) \/ FindNone(w)
      BY <1>0, <3>1 DEF FindUnprocessed, FindNone, LeftAlone, TypeOK
    <3>2. CASE FindProcessed(w) \/ InsertConflict(w) \/ CallFails(w)
      BY <1>0, <2>1, <3>2, AnswerFrees DEF FindProcessed, InsertConflict, CallFails
    <3> QED
      BY <1>10, <3>1, <3>2
  <2>3. UNCHANGED <<inbox, runs, collided>>
    BY <1>10 DEF FindProcessed, FindUnprocessed, FindNone, InsertConflict,
       CallFails, historyVars
  <2>4. Faults' \in {Faults, Faults + 1}
    <3>1. CASE CallFails(w)
      BY <1>0, <3>1 DEF CallFails, Faults, TypeOK
    <3>2. CASE ~ CallFails(w)
      BY <1>10, <3>2 DEF FindProcessed, FindUnprocessed, FindNone, InsertConflict,
         faultVars, Faults
    <3> QED
      BY <3>1, <3>2
  <2>5. \/ worker'[w] = Free
        \/ /\ worker'[w].id = worker[w].id /\ worker'[w].at = worker[w].at
           /\ ~ AlreadyProcessed(worker[w].id)
           /\ worker[w].pc \in Unhandled
    <3>1. CASE FindUnprocessed(w) \/ FindNone(w)
      BY <1>0, <2>1, <3>1 DEF FindUnprocessed, FindNone, TypeOK, Delivery,
         AlreadyProcessed, Unhandled
    <3>2. CASE FindProcessed(w) \/ InsertConflict(w) \/ CallFails(w)
      BY <1>0, <2>1, <3>2, AnswerFrees DEF FindProcessed, InsertConflict, CallFails
    <3> QED
      BY <1>10, <3>1, <3>2
  <2>6. \A m \in Ids : AlreadyProcessed(m)' <=> AlreadyProcessed(m)
    BY <2>3 DEF AlreadyProcessed, Stored
  <2> QED
    BY <1>3, <2>1, <2>2, <2>3, <2>4, <2>5, <2>6
<1>11. ASSUME NEW w \in Workers, Insert(w) PROVE OnceInv'
  <2>1. worker[w] # Free /\ worker[w] \in Delivery /\ worker[w].id \in Ids
    BY <1>1, <1>11 DEF Insert, Free
  <2>2. /\ worker'[w].id = worker[w].id /\ worker'[w].at = worker[w].at
        /\ \A v \in Workers : v # w => LeftAlone(v)
        /\ UNCHANGED <<runs, collided, connected>> /\ Faults' = Faults
    BY <1>0, <1>11, <2>1 DEF Insert, TypeOK, Delivery, LeftAlone, historyVars,
       faultVars, Faults
  <2>3. \A m \in Ids : AlreadyProcessed(m)' <=> AlreadyProcessed(m)
    <3>1. /\ inbox'[worker[w].id] = NewRow /\ ~ NewRow.processed
          /\ \A m \in Ids : m # worker[w].id => inbox'[m] = inbox[m]
      BY <1>0, <1>11, <2>1 DEF Insert, TypeOK, NewRow
    <3>2. ~ Stored(worker[w].id)
      BY <1>11 DEF Insert
    <3> QED
      BY <3>1, <3>2 DEF AlreadyProcessed, Stored
  <2> QED
    BY <1>3, <1>11, <2>1, <2>2, <2>3 DEF Insert, Unhandled
<1>12. ASSUME NEW w \in Workers, HandlerThrows(w) \/ SaveDoneFails(w) PROVE OnceInv'
  <2>1. /\ worker[w] # Free /\ worker[w] \in Delivery /\ worker[w].row # NoRow
        /\ CountFailure(w)
    BY <1>0, <1>1, <1>12 DEF HandlerThrows, SaveDoneFails, Free, RowsHeld
  <2>2. /\ worker'[w].id = worker[w].id /\ worker'[w].at = worker[w].at
        /\ worker'[w].pc \notin Unhandled
        /\ \A v \in Workers : v # w => LeftAlone(v)
    <3> DEFINE row == [worker[w].row EXCEPT !.retryCount = @ + 1]
               d == [worker[w] EXCEPT !.pc = "saveError", !.row = row]
    <3>1. d \in Delivery /\ worker' = [worker EXCEPT ![w] = d]
      BY <1>0, <2>1, CountFailureMoves
    <3> HIDE DEF row
    <3>2. d.id = worker[w].id /\ d.at = worker[w].at /\ d.pc \notin Unhandled
      BY <2>1 DEF Delivery, Unhandled
    <3> HIDE DEF d
    <3> QED
      BY <1>0, <3>1, <3>2, OneDeliveryMoves DEF LeftAlone
  <2>3. /\ UNCHANGED <<inbox, runs, collided, connected>>
        /\ \/ Faults' = Faults + 1
           \/ Faults' = Faults /\ worker[w].pc # "saveDone"
    <3>1. CASE HandlerThrows(w)
      BY <3>1 DEF HandlerThrows, faultVars, Faults
    <3>2. CASE SaveDoneFails(w)
      BY <1>0, <3>2 DEF SaveDoneFails, Faults, TypeOK
    <3> QED
      BY <1>12, <3>1, <3>2
  <2>4. \A m \in Ids : AlreadyProcessed(m)' <=> AlreadyProcessed(m)
    BY <2>3 DEF AlreadyProcessed, Stored
  <2>5. worker[w].pc \in {"insert", "handle", "saveDone", "saveError"}
    BY <1>12 DEF HandlerThrows, SaveDoneFails
  <2> QED
    BY <1>3, <2>1, <2>2, <2>3, <2>4, <2>5
<1>13. ASSUME NEW w \in Workers, HandlerCompletes(w) PROVE OnceInv'
  <2>1. /\ worker[w] # Free /\ worker[w] \in Delivery /\ worker[w].row # NoRow
        /\ worker[w].pc = "handle" /\ worker[w].id \in Ids
    BY <1>0, <1>1, <1>13 DEF HandlerCompletes, Free, RowsHeld
  <2>2. /\ worker'[w].id = worker[w].id /\ worker'[w].pc = "saveDone"
        /\ worker'[w].at = worker[w].at
        /\ \A v \in Workers : v # w => worker'[v] = worker[v]
    <3> DEFINE row == [worker[w].row EXCEPT !.processed = TRUE]
               d == [worker[w] EXCEPT !.pc = "saveDone", !.row = row]
    <3>1. d \in Delivery /\ worker' = [worker EXCEPT ![w] = d]
      BY <1>0, <1>13, <2>1, HandlerCompletesMoves
    <3> HIDE DEF row
    <3>2. d.id = worker[w].id /\ d.pc = "saveDone" /\ d.at = worker[w].at
      BY <2>1 DEF Delivery
    <3> HIDE DEF d
    <3> QED
      BY <1>0, <3>1, <3>2, OneDeliveryMoves
  <2>3. /\ UNCHANGED <<inbox, collided, connected>> /\ Faults' = Faults
        /\ runs' = [runs EXCEPT ![worker[w].id] = @ + 1]
    BY <1>13 DEF HandlerCompletes, faultVars, Faults
  <2>4. FoundUnprocessed'
    BY <2>1, <2>2, <2>3 DEF OnceInv, FoundUnprocessed, AlreadyProcessed, Stored
  <2>5. \A v \in Workers : worker'[v] # Free =>
          worker[v] # Free /\ worker'[v].id = worker[v].id
    BY <2>1, <2>2
  <2>6. \A m \in Ids : Recorded(m) => Recorded(m)'
    BY <2>1, <2>2, <2>3 DEF Recorded, AlreadyProcessed, Stored
  <2>8. \A m \in Ids : RunPending(m)' => RunPending(m)
    BY <2>2, <2>3 DEF RunPending, Unhandled
  <2>9. ASSUME NEW m \in Ids, m = worker[w].id, m \notin collided,
               worker[w].at \in connected
        PROVE  ~ Recorded(m) /\ Recorded(m)'
    <3>1. ~ Recorded(m)
      BY <2>1, <2>9, HeldIsRecordedByHolder
    <3>2. Recorded(m)'
      BY <2>2, <2>3, <2>9 DEF Recorded
    <3> QED
      BY <3>1, <3>2
  <2>10. ASSUME NEW m \in Ids, m = worker[w].id, m \notin collided,
                worker[w].at \notin connected
         PROVE  RunPending(m) /\ ~ RunPending(m)'
    <3>1. RunPending(m)
      BY <2>1, <2>10 DEF RunPending, Unhandled
    <3>2. \A v \in Workers : v # w /\ worker[v] # Free => worker[v].id # m
      BY <2>1, <2>10 DEF OnceInv, SoleDelivery
    <3>3. \A v \in Workers : worker[v].pc \in Unhandled => worker[v] # Free
      BY DEF Unhandled, Free
    <3>4. ~ \E v \in Workers : worker'[v].pc \in Unhandled /\ worker'[v].id = m
      BY <2>2, <3>2, <3>3 DEF Unhandled
    <3> QED
      BY <3>1, <3>4 DEF RunPending
  <2>7. \A m \in Ids : runs'[m] = IF m = worker[w].id THEN runs[m] + 1 ELSE runs[m]
    BY <1>0, <2>1, <2>3 DEF TypeOK
  <2>11. \A m \in Ids \ collided :
           \/ runs'[m] = runs[m]
           \/ /\ runs'[m] = runs[m] + 1
              /\ \/ ~ Recorded(m) /\ Recorded(m)'
                 \/ RunPending(m) /\ ~ RunPending(m)'
    <3> SUFFICES ASSUME NEW m \in Ids, m \notin collided, m = worker[w].id
                 PROVE  \/ ~ Recorded(m) /\ Recorded(m)'
                        \/ RunPending(m) /\ ~ RunPending(m)'
      BY <2>7
    <3> QED
      BY <2>9, <2>10
  <2> HIDE DEF Faults, Recorded, RunPending
  <2> QED
    BY <1>0, <2>3, <2>4, <2>5, <2>6, <2>8, <2>11, OnceKept
<1>14. ASSUME NEW w \in Workers, SaveDone(w) \/ SaveError(w) PROVE OnceInv'
  <2>1. /\ worker[w] # Free /\ worker[w].id \in Ids
        /\ worker[w].pc \in {"saveDone", "saveError"}
        /\ worker[w].row # NoRow
    BY <1>0, <1>1, <1>14 DEF SaveDone, SaveError, Free, RowsHeld
  <2>2. /\ worker'[w] = Free
        /\ \A v \in Workers : v # w => LeftAlone(v)
        /\ connected \subseteq connected'
        /\ inbox'[worker[w].id] = worker[w].row
        /\ \A m \in Ids : m # worker[w].id => inbox'[m] = inbox[m]
    <3>1. inbox' = [inbox EXCEPT ![worker[w].id] = worker[w].row]
      BY <1>14 DEF SaveDone, SaveError, WriteBack
    <3> QED
      BY <1>0, <1>14, <2>1, <3>1, AnswerFrees DEF SaveDone, SaveError, TypeOK
  <2>3. UNCHANGED <<runs, collided>> /\ Faults' = Faults
    BY <1>14 DEF SaveDone, SaveError, historyVars, faultVars, Faults
  <2>4. \A v \in Workers : worker'[v] # Free =>
          worker[v] # Free /\ worker'[v].id = worker[v].id
    BY <2>2 DEF LeftAlone
  <2>5. FoundUnprocessed'
    <3> SUFFICES ASSUME NEW v \in Workers,
                        worker'[v].pc \in {"insert", "handle", "saveDone", "saveError"},
                        worker'[v].id \notin collided
                 PROVE  ~ AlreadyProcessed(worker[v].id)'
      BY <2>3, <2>4 DEF FoundUnprocessed, Free
    <3>1. v # w /\ worker'[v] = worker[v] /\ worker[v] # Free /\ worker[v].id \in Ids
      BY <1>1, <2>2 DEF Free, LeftAlone
    <3>2. worker[v].id # worker[w].id
      BY <2>1, <3>1 DEF OnceInv, SoleDelivery
    <3>3. ~ AlreadyProcessed(worker[v].id)
      BY <3>1 DEF OnceInv, FoundUnprocessed
    <3> QED
      BY <2>2, <3>1, <3>2, <3>3 DEF AlreadyProcessed, Stored
  <2>6. \A m \in Ids \ collided : Recorded(m) => Recorded(m)'
    <3> SUFFICES ASSUME NEW m \in Ids, m \notin collided, Recorded(m)
                 PROVE  Recorded(m)'
      OBVIOUS
    <3>1. CASE m = worker[w].id
      <4>1. worker[w].pc = "saveDone"
        BY <2>1, <3>1, HeldIsRecordedByHolder
      <4>2. worker[w].row.processed
        BY <1>0, <4>1 DEF DeliveriesClaimTruth, ClaimsTruth
      <4> QED
        BY <2>1, <2>2, <3>1, <4>2 DEF Recorded, AlreadyProcessed, Stored
    <3>2. CASE m # worker[w].id
      <4>1. AlreadyProcessed(m) => AlreadyProcessed(m)'
        BY <2>2, <3>2 DEF AlreadyProcessed, Stored
      <4>2. \A v \in Workers : worker[v].id = m /\ worker[v].at \in connected =>
              worker'[v] = worker[v]
        BY <2>2, <3>2 DEF LeftAlone
      <4> QED
        BY <2>2, <4>1, <4>2 DEF Recorded
    <3> QED
      BY <3>1, <3>2
  <2>7. \A m \in Ids : RunPending(m)' => RunPending(m)
    BY <2>2, PendingKept
  <2> HIDE DEF Faults, Recorded, RunPending
  <2> QED
    BY <1>0, <2>3, <2>4, <2>5, <2>6, <2>7, OnceKept
<1> QED
  BY <1>5, <1>6, <1>7, <1>8, <1>9, <1>10, <1>11, <1>12, <1>13, <1>14
     DEF Next, ProcessMessage, Drained

\* Each handling but the first has its own fault.
LEMMA OnceHandled == OnceInv => HandledOncePerFault
<1> SUFFICES ASSUME OnceInv, NEW m \in Ids, m \notin collided
             PROVE  runs[m] <= 1 + Faults
  BY DEF HandledOncePerFault
<1>1. TypeOK
  BY DEF OnceInv, InboxInv, InboxTyped
<1>2. runs[m] \in Nat /\ Faults \in Nat
  BY <1>1, FaultsAreNumbers DEF TypeOK
<1>3. runs[m] + (IF RunPending(m) THEN 1 ELSE 0)
        <= (IF Recorded(m) THEN 1 ELSE 0) + Faults
  BY DEF OnceInv, RunsPaidFor
<1> HIDE DEF Faults, Recorded, RunPending
<1> QED
  BY <1>2, <1>3

-----------------------------------------------------------------------------
(* The dead letters.                                                       *)

\* What a letter was told of its message stays true.
LEMMA HistoryGrows ==
  ASSUME InboxInv, [Next]_vars, NEW m \in Ids
  PROVE  /\ failures[m] <= failures'[m]
         /\ Stored(m) \/ WasHandled(m) => Stored(m)' \/ WasHandled(m)'
         /\ WasHandled(m) \/ AlreadyProcessed(m) => WasHandled(m)'
<1>0. TypeOK /\ TypeOK' /\ ProcessedWasHandled
  BY InboxTypeStep DEF InboxInv, InboxTyped, ClaimsWereHandled
<1>1. \A w \in Workers : worker[w] # Free =>
        worker[w].id \in Ids /\ worker[w].row \in InboxRow \cup {NoRow}
  BY <1>0, BusyIsDelivery DEF Delivery
<1>2. failures[m] \in Nat /\ runs[m] \in Nat
  BY <1>0 DEF TypeOK
\* A callback's step, and every other step.
<1>3. ASSUME NEW w \in Workers,
             ProcessMessage(w) \/ CallFails(w) \/ SaveDoneFails(w)
      PROVE  /\ UNCHANGED failures \/ HandlerThrows(w) \/ SaveDoneFails(w)
             /\ UNCHANGED runs \/ HandlerCompletes(w)
  BY <1>3 DEF ProcessMessage, FindProcessed, FindUnprocessed, FindNone, Insert,
     InsertConflict, HandlerCompletes, HandlerThrows, SaveDone, SaveError,
     CallFails, SaveDoneFails, historyVars
<1>4. \/ UNCHANGED <<failures, runs>>
      \/ \E w \in Workers : ProcessMessage(w) \/ CallFails(w) \/ SaveDoneFails(w)
  BY DEF Next, vars, Arrive, Deliver, LoseConnection, Notice, Crash, CleanupExpired,
     Drained, historyVars
<1>5. failures[m] <= failures'[m]
  <2>1. ASSUME NEW w \in Workers, HandlerThrows(w) \/ SaveDoneFails(w)
        PROVE  failures'[m] \in {failures[m], failures[m] + 1}
    <3>1. /\ worker[w].id \in Ids
          /\ failures' = [failures EXCEPT ![worker[w].id] = @ + 1]
      BY <1>1, <2>1 DEF HandlerThrows, SaveDoneFails, Free
    <3> QED
      BY <1>0, <3>1 DEF TypeOK
  <2>2. failures'[m] \in {failures[m], failures[m] + 1}
    BY <1>3, <1>4, <2>1
  <2> QED
    BY <1>2, <2>2
<1>6. runs[m] <= runs'[m]
  <2>1. ASSUME NEW w \in Workers, HandlerCompletes(w)
        PROVE  runs'[m] \in {runs[m], runs[m] + 1}
    <3>1. /\ worker[w].id \in Ids
          /\ runs' = [runs EXCEPT ![worker[w].id] = @ + 1]
      BY <1>1, <2>1 DEF HandlerCompletes, Free
    <3>2. runs \in [Ids -> Nat]
      BY <1>0 DEF TypeOK
    <3> QED
      BY <3>1, <3>2
  <2>2. runs'[m] \in {runs[m], runs[m] + 1}
    BY <1>3, <1>4, <2>1
  <2> QED
    BY <1>2, <2>2
<1>7. \/ inbox'[m] # NoRow
      \/ inbox'[m] = inbox[m]
      \/ AlreadyProcessed(m)
  <2>1. ASSUME NEW w \in Workers, Insert(w) PROVE inbox'[m] # NoRow \/ inbox'[m] = inbox[m]
    <3>1. NewRow # NoRow
      <4>1. NewRow \in InboxRow
        BY <1>0 DEF NewRow, InboxRow, TypeOK
      <4> QED
        BY <4>1, NoRowIsNoRow
    <3>2. inbox \in [Ids -> InboxRow \cup {NoRow}]
      BY <1>0 DEF TypeOK
    <3>3. inbox' = [inbox EXCEPT ![worker[w].id] = NewRow]
      BY <2>1 DEF Insert
    <3> QED
      BY <3>1, <3>2, <3>3
  <2>2. ASSUME NEW w \in Workers, SaveDone(w) \/ SaveError(w)
        PROVE  inbox'[m] # NoRow \/ inbox'[m] = inbox[m]
    <3>1. worker[w].row # NoRow
      BY <2>2 DEF SaveDone, SaveError, InboxInv, InboxTyped, RowsHeld
    <3> QED
      BY <1>0, <2>2, <3>1 DEF SaveDone, SaveError, WriteBack, TypeOK
  <2>3. CASE CleanupExpired
    BY <2>3 DEF CleanupExpired, Expirable, AlreadyProcessed
  <2> QED
    BY <2>1, <2>2, <2>3 DEF Next, vars, Arrive, Deliver, ProcessMessage,
       FindProcessed, FindUnprocessed, FindNone, InsertConflict, HandlerCompletes,
       HandlerThrows, SaveDoneFails, CallFails, LoseConnection, Notice, Crash, Drained
<1>8. WasHandled(m) \/ AlreadyProcessed(m) => WasHandled(m)'
  <2>1. AlreadyProcessed(m) => WasHandled(m)
    BY <1>0 DEF ProcessedWasHandled
  <2>2. runs'[m] \in Nat
    BY <1>0 DEF TypeOK
  <2>3. WasHandled(m) => WasHandled(m)'
    BY <1>2, <1>6, <2>2 DEF WasHandled
  <2> QED
    BY <2>1, <2>3
<1> QED
  BY <1>5, <1>7, <1>8 DEF Stored

\* A failing call of the dead letter service is another fault, and nothing else
\* to the inbox.
LEMMA FaultOnly ==
  ASSUME OnceInv, dbErrors' = dbErrors + 1,
         UNCHANGED <<inbox, inserts, brokerVars, connected, worker, historyVars,
                     acked, dropped, crashes, losses, cleanups>>
  PROVE  OnceInv'
<1>1. TypeOK /\ RowsHeld /\ InboxInv
  BY DEF OnceInv, InboxInv, InboxTyped
<1>2. dbErrors \in Nat /\ dbErrors + 1 \in Nat /\ dbErrors + 1 # 0
  BY <1>1 DEF TypeOK
<1>3. InboxTyped'
  BY <1>1, <1>2 DEF InboxTyped, TypeOK, RowsHeld, brokerVars, historyVars
<1>4. \A m \in Ids : runs[m] <= runs'[m] /\ failures[m] <= failures'[m]
  BY <1>1 DEF historyVars, TypeOK
<1>5. InboxInv'
  BY <1>1, <1>2, <1>3, <1>4, ClaimsKept DEF historyVars
<1>6. Faults' = Faults + 1
  BY <1>1 DEF Faults, TypeOK
<1>7. FoundUnprocessed'
  BY DEF OnceInv, FoundUnprocessed, AlreadyProcessed, Stored, historyVars
<1>8. \A m \in Ids : RunPending(m)' <=> RunPending(m)
  BY DEF RunPending
<1> HIDE DEF Faults, Recorded, RunPending
<1> QED
  BY <1>5, <1>6, <1>7, <1>8, OnceKept DEF historyVars

\* Resolving a letter changes neither its message nor its count.
LEMMA ResolvingKeeps ==
  ASSUME letters \in Seq(Letter), NEW n,
         letters' = [letters EXCEPT ![n].resolved = TRUE]
  PROVE  /\ letters' \in Seq(Letter)
         /\ DOMAIN letters' = DOMAIN letters
         /\ \A i \in DOMAIN letters :
              /\ letters[i].id \in Ids
              /\ letters'[i].id = letters[i].id
              /\ letters'[i].attemptCount = letters[i].attemptCount
<1>1. \A i \in DOMAIN letters : letters[i] \in Letter
  OBVIOUS
<1>2. ASSUME NEW x \in Letter
      PROVE  LET y == [x EXCEPT !.resolved = TRUE]
             IN y \in Letter /\ y.id = x.id /\ y.attemptCount = x.attemptCount
  BY DEF Letter
<1>3. ASSUME NEW i \in DOMAIN letters
      PROVE  /\ letters'[i] \in Letter
             /\ letters'[i].id = letters[i].id
             /\ letters'[i].attemptCount = letters[i].attemptCount
  <2>1. CASE i = n
    <3>1. letters'[i] = [letters[i] EXCEPT !.resolved = TRUE]
      BY <2>1
    <3> QED
      BY <1>1, <1>2, <3>1
  <2>2. CASE i # n
    BY <1>1, <2>2
  <2> QED
    BY <2>1, <2>2
<1>4. DOMAIN letters' = 1..Len(letters) /\ Len(letters) \in Nat
  OBVIOUS
<1>5. letters' \in Seq(Letter)
  <2>1. letters' = [i \in DOMAIN letters |-> letters'[i]]
    OBVIOUS
  <2>2. letters' \in [1..Len(letters) -> Letter]
    BY <1>3, <1>4, <2>1
  <2> QED
    BY <1>4, <2>2
<1> QED
  BY <1>1, <1>3, <1>4, <1>5 DEF Letter

\* Letters written earlier stay justified when nothing about them changed.
LEMMA LettersStep == LettersInv /\ [DlqNext]_allVars => LettersInv'
<1> SUFFICES ASSUME LettersInv, [DlqNext]_allVars PROVE LettersInv'
  OBVIOUS
<1>0. /\ OnceInv /\ InboxInv /\ TypeOK /\ DlqTypeOK
      /\ LettersJustified /\ ChecksReadTruth
  BY DEF LettersInv, OnceInv, InboxInv, InboxTyped
<1>1. /\ letters \in Seq(Letter)
      /\ checker \in [Checkers -> [Ids -> InboxRow \cup {NoRow}]]
      /\ admin \in [Admins -> Nat]
      /\ \A i \in DOMAIN letters : letters[i] \in Letter /\ letters[i].id \in Ids
  <2>1. /\ letters \in Seq(Letter)
        /\ checker \in [Checkers -> [Ids -> InboxRow \cup {NoRow}]]
        /\ admin \in [Admins -> Nat]
    BY <1>0 DEF DlqTypeOK
  <2>2. \A i \in DOMAIN letters : letters[i] \in Letter
    BY <2>1
  <2> QED
    BY <2>1, <2>2 DEF Letter
<1>2. \A m \in Ids : /\ failures[m] \in Nat /\ runs[m] \in Nat
                     /\ Stored(m) => inbox[m] \in InboxRow
  BY <1>0 DEF TypeOK, Stored
\* What the steps of this service leave of the inbox.
<1>3. ASSUME UNCHANGED vars
      PROVE  /\ OnceInv' /\ TypeOK'
             /\ \A m \in Ids : \A n : Truthful(m, n)' <=> Truthful(m, n)
  <2>1. OnceInv' /\ TypeOK'
    BY <1>0, <1>3, OnceStep DEF OnceInv, InboxInv, InboxTyped
  <2> QED
    BY <1>3, <2>1 DEF vars, Truthful, Stored, WasHandled
<1>4. ASSUME dbErrors' = dbErrors + 1,
             UNCHANGED <<inbox, inserts, brokerVars, connected, worker, historyVars,
                         acked, dropped, crashes, losses, cleanups>>
      PROVE  /\ OnceInv' /\ TypeOK'
             /\ \A m \in Ids : \A n : Truthful(m, n)' <=> Truthful(m, n)
  <2>1. OnceInv' /\ TypeOK'
    BY <1>0, <1>4, FaultOnly DEF OnceInv, InboxInv, InboxTyped
  <2> QED
    BY <1>4, <2>1 DEF historyVars, Truthful, Stored, WasHandled
<1>5. LettersJustified <=> \A i \in DOMAIN letters :
                             Truthful(letters[i].id, letters[i].attemptCount)
  BY DEF LettersJustified, Truthful
<1>6. CASE Next /\ UNCHANGED dlqVars
  <2>1. OnceInv' /\ TypeOK'
    BY <1>0, <1>6, OnceStep DEF OnceInv, InboxInv, InboxTyped
  <2>2. DlqTypeOK'
    BY <1>1, <1>6, <2>1 DEF DlqTypeOK, dlqVars
  <2>3. ASSUME NEW m \in Ids, NEW n \in Nat, Truthful(m, n) PROVE Truthful(m, n)'
    <3>1. /\ failures[m] <= failures'[m]
          /\ Stored(m) \/ WasHandled(m) => Stored(m)' \/ WasHandled(m)'
      BY <1>0, <1>6, HistoryGrows
    <3>2. failures'[m] \in Nat
      BY <2>1 DEF TypeOK
    <3> QED
      BY <1>2, <2>3, <3>1, <3>2 DEF Truthful
  <2>4. LettersJustified'
    <3> SUFFICES ASSUME NEW i \in DOMAIN letters
                 PROVE  Truthful(letters[i].id, letters[i].attemptCount)'
      BY <1>6 DEF LettersJustified, Truthful, dlqVars
    <3>1. /\ letters[i].id \in Ids /\ letters[i].attemptCount \in Nat
      BY <1>1 DEF Letter
    <3>2. Truthful(letters[i].id, letters[i].attemptCount)
      BY <1>0, <1>5
    <3> QED
      BY <1>6, <2>3, <3>1, <3>2 DEF dlqVars, Truthful, Stored, WasHandled
  <2>5. ChecksReadTruth'
    <3> SUFFICES ASSUME NEW c \in Checkers, NEW m \in Ids, checker[c][m] # NoRow
                 PROVE  Truthful(m, checker[c][m].retryCount)'
      BY <1>6 DEF ChecksReadTruth, dlqVars
    <3>1. checker[c][m].retryCount \in Nat
      BY <1>1 DEF InboxRow
    <3>2. Truthful(m, checker[c][m].retryCount)
      BY <1>0 DEF ChecksReadTruth
    <3> QED
      BY <1>6, <2>3, <3>1, <3>2 DEF dlqVars, Truthful, Stored, WasHandled
  <2> QED
    BY <2>1, <2>2, <2>4, <2>5 DEF LettersInv
<1>7. CASE UNCHANGED allVars
  BY <1>0, <1>1, <1>3, <1>7 DEF allVars, vars, dlqVars, LettersInv, DlqTypeOK,
     LettersJustified, ChecksReadTruth, Truthful, Stored, WasHandled
<1>8. ASSUME OnceInv', TypeOK',
             \A m \in Ids : \A n : Truthful(m, n)' <=> Truthful(m, n),
             letters' = letters, admin' \in [Admins -> Nat],
             checker' \in [Checkers -> [Ids -> InboxRow \cup {NoRow}]],
             \A c \in Checkers, m \in Ids :
               checker'[c][m] \in {checker[c][m], NoRow} \/
               Truthful(m, checker'[c][m].retryCount)
      PROVE  LettersInv'
  <2>1. DlqTypeOK'
    BY <1>1, <1>8 DEF DlqTypeOK
  <2>2. LettersJustified'
    BY <1>0, <1>1, <1>5, <1>8 DEF LettersJustified, Truthful
  <2>3. ChecksReadTruth'
    BY <1>0, <1>8 DEF ChecksReadTruth
  <2> QED
    BY <1>8, <2>1, <2>2, <2>3 DEF LettersInv
<1>9. ASSUME NEW c \in Checkers, FindStuck(c) PROVE LettersInv'
  <2> DEFINE batch == [m \in Ids |-> IF m \in StuckMessages /\ Exhausted(inbox[m])
                                     THEN inbox[m] ELSE NoRow]
  <2>1. checker' = [checker EXCEPT ![c] = batch] /\ UNCHANGED <<vars, letters, admin>>
    BY <1>9 DEF FindStuck
  <2>2. \A m \in Ids : \/ batch[m] = NoRow
                       \/ batch[m] \in InboxRow /\ Truthful(m, batch[m].retryCount)
    <3> SUFFICES ASSUME NEW m \in Ids, m \in StuckMessages, Exhausted(inbox[m])
                 PROVE  inbox[m] \in InboxRow /\ Truthful(m, inbox[m].retryCount)
      OBVIOUS
    <3>1. Stored(m)
      BY DEF StuckMessages, Unprocessed
    <3> QED
      BY <1>0, <1>2, <3>1 DEF Exhausted, Truthful, InboxInv, RetriesAreFailures
  <2>3. batch \in [Ids -> InboxRow \cup {NoRow}]
    BY <2>2
  <2> HIDE DEF batch
  <2>4. \A d \in Checkers : checker'[d] = IF d = c THEN batch ELSE checker[d]
    BY <1>1, <2>1
  <2>5. checker' \in [Checkers -> [Ids -> InboxRow \cup {NoRow}]]
    BY <1>1, <2>1, <2>3
  <2> QED
    BY <1>1, <1>3, <1>8, <2>1, <2>2, <2>4, <2>5
<1>10. ASSUME NEW c \in Checkers, AddLetter(c) PROVE LettersInv'
  <2>1. PICK m \in Pending(c) :
          /\ letters' = Append(letters, NewLetter(m, checker[c][m]))
          /\ checker' = [checker EXCEPT ![c][m] = NoRow]
    BY <1>10 DEF AddLetter
  <2>2. /\ m \in Ids /\ checker[c][m] \in InboxRow
        /\ Truthful(m, checker[c][m].retryCount)
    BY <1>0, <1>1 DEF Pending, ChecksReadTruth
  <2>3. /\ UNCHANGED <<vars, admin>>
        /\ OnceInv' /\ TypeOK'
        /\ \A k \in Ids : \A n : Truthful(k, n)' <=> Truthful(k, n)
    BY <1>3, <1>10 DEF AddLetter
  <2>4. NewLetter(m, checker[c][m]) \in Letter
    BY <2>2 DEF NewLetter, Letter, InboxRow
  <2>5. checker' = [checker EXCEPT ![c] = [checker[c] EXCEPT ![m] = NoRow]]
    BY <1>1, <2>1
  <2>6. /\ checker' \in [Checkers -> [Ids -> InboxRow \cup {NoRow}]]
        /\ \A d \in Checkers, k \in Ids : checker'[d][k] \in {checker[d][k], NoRow}
    BY <1>1, <2>2, <2>5
  <2>7. DlqTypeOK'
    BY <1>1, <2>1, <2>3, <2>4, <2>6 DEF DlqTypeOK
  <2>8. LettersJustified'
    <3> SUFFICES ASSUME NEW i \in DOMAIN letters'
                 PROVE  Truthful(letters[i].id, letters[i].attemptCount)'
      BY DEF LettersJustified, Truthful
    <3>1. CASE i \in DOMAIN letters
      <4>1. letters'[i] = letters[i]
        BY <1>1, <2>1, <3>1
      <4>2. Truthful(letters[i].id, letters[i].attemptCount)
        BY <1>0, <1>5, <3>1
      <4> QED
        BY <1>1, <2>3, <3>1, <4>1, <4>2 DEF vars, Truthful, Stored, WasHandled
    <3>2. CASE i = Len(letters) + 1
      <4>1. letters'[i] = NewLetter(m, checker[c][m])
        BY <1>1, <2>1, <3>2
      <4>2. letters'[i].id = m /\ letters'[i].attemptCount = checker[c][m].retryCount
        BY <4>1 DEF NewLetter
      <4> QED
        BY <2>2, <2>3, <4>2 DEF vars, Truthful, Stored, WasHandled
    <3> QED
      BY <1>1, <2>1, <3>1, <3>2
  <2>9. ChecksReadTruth'
    BY <1>0, <2>3, <2>6 DEF ChecksReadTruth
  <2> QED
    BY <2>3, <2>7, <2>8, <2>9 DEF LettersInv
<1>11. ASSUME NEW c \in Checkers, CheckAborts(c) PROVE LettersInv'
  <2>1. /\ OnceInv' /\ TypeOK'
        /\ \A m \in Ids : \A n : Truthful(m, n)' <=> Truthful(m, n)
        /\ letters' = letters /\ admin' = admin
    BY <1>4, <1>11 DEF CheckAborts
  <2>2. checker' = [checker EXCEPT ![c] = [m \in Ids |-> NoRow]]
    BY <1>11 DEF CheckAborts
  <2>3. /\ checker' \in [Checkers -> [Ids -> InboxRow \cup {NoRow}]]
        /\ \A d \in Checkers, m \in Ids : checker'[d][m] \in {checker[d][m], NoRow}
    BY <1>1, <2>2
  <2> QED
    BY <1>1, <1>8, <2>1, <2>3
<1>12. ASSUME NEW a \in Admins, RetryFails(a) PROVE LettersInv'
  <2>1. /\ OnceInv' /\ TypeOK'
        /\ \A m \in Ids : \A n : Truthful(m, n)' <=> Truthful(m, n)
        /\ letters' = letters /\ checker' = checker
    BY <1>4, <1>12 DEF RetryFails
  <2>2. admin' \in [Admins -> Nat]
    BY <1>1, <1>12 DEF RetryFails, NoLetter
  <2> QED
    BY <1>1, <1>8, <2>1, <2>2
<1>13. ASSUME NEW a \in Admins, NEW i \in DOMAIN letters, RetryEmits(a, i)
       PROVE  LettersInv'
  <2>1. admin' \in [Admins -> Nat]
    BY <1>1, <1>13 DEF RetryEmits
  <2> QED
    BY <1>1, <1>3, <1>8, <1>13, <2>1 DEF RetryEmits
<1>14. ASSUME NEW n, letters' = [letters EXCEPT ![n].resolved = TRUE],
              UNCHANGED <<vars, checker>>, admin' \in [Admins -> Nat]
       PROVE  LettersInv'
  <2>1. /\ OnceInv' /\ TypeOK'
        /\ \A m \in Ids : \A k : Truthful(m, k)' <=> Truthful(m, k)
    BY <1>3, <1>14
  <2>2. /\ letters' \in Seq(Letter) /\ DOMAIN letters' = DOMAIN letters
        /\ \A i \in DOMAIN letters :
             /\ letters'[i].id = letters[i].id
             /\ letters'[i].attemptCount = letters[i].attemptCount
    BY <1>1, <1>14, ResolvingKeeps
  <2>3. DlqTypeOK'
    BY <1>1, <1>14, <2>1, <2>2 DEF DlqTypeOK
  <2>4. LettersJustified'
    BY <1>0, <1>1, <1>5, <1>14, <2>2 DEF LettersJustified, vars, Stored, WasHandled
  <2>5. ChecksReadTruth'
    BY <1>0, <1>14, <2>1 DEF ChecksReadTruth
  <2> QED
    BY <2>1, <2>3, <2>4, <2>5 DEF LettersInv
<1>15. ASSUME NEW i \in DOMAIN letters, MarkAsResolved(i) PROVE LettersInv'
  BY <1>1, <1>14, <1>15 DEF MarkAsResolved
<1>16. ASSUME NEW a \in Admins, RetryResolves(a) PROVE LettersInv'
  BY <1>1, <1>14, <1>16 DEF RetryResolves, NoLetter
<1> QED
  BY <1>6, <1>7, <1>9, <1>10, <1>11, <1>12, <1>13, <1>15, <1>16 DEF DlqNext, Check

\* At first there are no letters.
LEMMA LettersHoldAtFirst == DlqInit => LettersInv
<1> SUFFICES ASSUME DlqInit PROVE LettersInv
  OBVIOUS
<1>1. Init
  BY DEF DlqInit
<1>2. InboxTyped
  BY <1>1 DEF Init, InboxTyped, TypeOK, RowsHeld, Free
<1>3. \A w \in Workers : worker[w] = Free /\ worker[w].pc = "free"
  BY <1>1 DEF Init, Free
<1>4. InboxInv
  BY <1>1, <1>2, <1>3 DEF Init, InboxInv, ClaimsWereHandled, ProcessedWasHandled,
     AckedWasHandled, AlreadyProcessed, Stored, RetriesAreFailures,
     DroppedIsRemembered, DeliveriesClaimTruth
<1>5. SoleDelivery /\ FoundUnprocessed
  BY <1>3 DEF SoleDelivery, FoundUnprocessed
<1>6. RunsPaidFor
  <2>1. \A m \in Ids : runs[m] = 0 /\ Faults = 0
    <3>1. crashes = 0 /\ losses = 0 /\ dbErrors = 0 /\ cleanups = 0
      BY <1>1 DEF Init
    <3>2. Faults = 0
      BY <3>1 DEF Faults
    <3>3. \A m \in Ids : runs[m] = 0
      BY <1>1 DEF Init
    <3> QED
      BY <3>2, <3>3
  <2>2. \A m \in Ids : (IF Recorded(m) THEN 1 ELSE 0) \in {0, 1}
    OBVIOUS
  <2>3. \A m \in Ids : ~ RunPending(m)
    BY <1>3 DEF RunPending, Unhandled
  <2> HIDE DEF Faults, Recorded, RunPending
  <2> QED
    BY <2>1, <2>2, <2>3 DEF RunsPaidFor
<1>7. DlqTypeOK
  BY <1>2 DEF DlqInit, DlqTypeOK, InboxTyped, NoLetter
<1>8. LettersJustified /\ ChecksReadTruth
  BY DEF DlqInit, LettersJustified, ChecksReadTruth
<1> QED
  BY <1>4, <1>5, <1>6, <1>7, <1>8 DEF LettersInv, OnceInv

\* The dead letter queue: what the checks read and the letters tell is true.
THEOREM LettersInvariant == DlqSpec => []LettersInv
<1>1. DlqInit => LettersInv
  BY LettersHoldAtFirst
<1>2. LettersInv /\ [DlqNext]_allVars => LettersInv'
  BY LettersStep
<1> QED
  BY <1>1, <1>2, PTL DEF DlqSpec

\* The columns, counters and deliveries keep their types, dead letters, batches
\* and administrators' requests theirs.
THEOREM TypesKept == DlqSpec => []DlqTypeOK
<1>1. LettersInv => DlqTypeOK
  BY DEF LettersInv
<1> QED
  BY <1>1, LettersInvariant, PTL

\* processMessage: a row marked processed had a handler run to its end, and so
\* had every acknowledged message, whatever copies were written back over what.
THEOREM ClaimsAreTrue == DlqSpec => []ClaimsWereHandled
<1>1. LettersInv => ClaimsWereHandled
  BY DEF LettersInv, OnceInv, InboxInv
<1> QED
  BY <1>1, LettersInvariant, PTL

\* The catch block: a row's retryCount is never more than the failures there were.
THEOREM RetriesWereFailures == DlqSpec => []RetriesAreFailures
<1>1. LettersInv => RetriesAreFailures
  BY DEF LettersInv, OnceInv, InboxInv
<1> QED
  BY <1>1, LettersInvariant, PTL

\* nack without requeue: while no database call failed, a message the broker has
\* dropped left a row or was handled.
THEOREM NothingDroppedUnseen == DlqSpec => []DroppedIsRemembered
<1>1. LettersInv => DroppedIsRemembered
  BY DEF LettersInv, OnceInv, InboxInv
<1> QED
  BY <1>1, LettersInvariant, PTL

\* The idempotency of the inbox: a message of which no two deliveries were in
\* flight at once is handled once, and once more for each fault at most.
THEOREM HandledOnce == DlqSpec => []HandledOncePerFault
<1>1. LettersInv => HandledOncePerFault
  BY OnceHandled DEF LettersInv
<1> QED
  BY <1>1, LettersInvariant, PTL

\* addToDeadLetter from what an earlier query read: the letter's count did happen
\* and reached the limit, and its message is still stored or was handled since.
THEOREM LettersAreJustified == DlqSpec => []LettersJustified
<1>1. LettersInv => LettersJustified
  BY DEF LettersInv
<1> QED
  BY <1>1, LettersInvariant, PTL

-----------------------------------------------------------------------------
(* Rows of the inbox only advance.                                         *)

Holding == {"handle", "saveDone", "saveError"}

\* The copy a delivery holds counts no fewer failures than the row it will
\* replace.
CopyIsCurrent(w) ==
  /\ Stored(worker[w].id)
  /\ inbox[worker[w].id].retryCount <= worker[w].row.retryCount

CopiesAreCurrent ==
  \A w \in Workers :
    worker[w].pc \in Holding /\ worker[w].id \notin collided => CopyIsCurrent(w)

\* A step that leaves the table alone: a copy is one held before, with one
\* failure more at most, or just read.
LEMMA CopiesKept ==
  ASSUME TypeOK, RowsHeld, CopiesAreCurrent, inbox' = inbox, collided \subseteq collided',
         \A w \in Workers : worker'[w].pc \in Holding =>
           \/ /\ worker[w].pc \in Holding /\ worker'[w].id = worker[w].id
              /\ worker'[w].row.retryCount \in
                   {worker[w].row.retryCount, worker[w].row.retryCount + 1}
           \/ /\ worker'[w].id \in Ids /\ Stored(worker'[w].id)
              /\ worker'[w].row = inbox[worker'[w].id]
  PROVE  CopiesAreCurrent'
<1> SUFFICES ASSUME NEW w \in Workers, worker'[w].pc \in Holding, worker'[w].id \notin collided'
             PROVE  CopyIsCurrent(w)'
  BY DEF CopiesAreCurrent
<1>1. \A m \in Ids : Stored(m) => inbox[m].retryCount \in Nat
  BY DEF TypeOK, Stored, InboxRow
<1>2. CASE /\ worker[w].pc \in Holding /\ worker'[w].id = worker[w].id
           /\ worker'[w].row.retryCount \in
                {worker[w].row.retryCount, worker[w].row.retryCount + 1}
  <2>1. worker[w] # Free /\ worker[w] \in Delivery
    BY <1>2, BusyIsDelivery DEF Holding
  <2>2. worker[w].id \in Ids /\ worker[w].row \in InboxRow
    BY <1>2, <2>1 DEF Delivery, RowsHeld, Holding
  <2>3. worker[w].row.retryCount \in Nat
    BY <2>2 DEF InboxRow
  <2>4. CopyIsCurrent(w)
    BY <1>2 DEF CopiesAreCurrent
  <2> QED
    BY <1>1, <1>2, <2>2, <2>3, <2>4 DEF CopyIsCurrent, Stored
<1>3. CASE /\ worker'[w].id \in Ids /\ Stored(worker'[w].id)
           /\ worker'[w].row = inbox[worker'[w].id]
  BY <1>1, <1>3 DEF CopyIsCurrent, Stored
<1> QED
  BY <1>2, <1>3

\* Deliveries that end take their copies with them.
LEMMA CopiesEndWithDeliveries ==
  ASSUME CopiesAreCurrent, inbox' = inbox, collided' = collided,
         \A v \in Workers : worker'[v] \in {worker[v], Free}
  PROVE  CopiesAreCurrent'
<1>1. Free.pc \notin Holding
  BY DEF Free, Holding
<1>2. \A v \in Workers : worker'[v].pc \in Holding => worker'[v] = worker[v]
  BY <1>1
<1> QED
  BY <1>2 DEF CopiesAreCurrent, CopyIsCurrent, Stored

\* The steps that leave the table alone.
LEMMA LeavesTable ==
  ASSUME OnceInv, CopiesAreCurrent, NEW w \in Workers,
         \/ \E p \in Replicas, q \in Queues, m \in Ids : Deliver(w, p, q, m)
         \/ CallFails(w)
         \/ FindProcessed(w) \/ FindUnprocessed(w) \/ FindNone(w) \/ InsertConflict(w)
         \/ HandlerCompletes(w) \/ HandlerThrows(w) \/ SaveDoneFails(w)
  PROVE  inbox' = inbox /\ CopiesAreCurrent'
<1>0. TypeOK /\ RowsHeld
  BY DEF OnceInv, InboxInv, InboxTyped
\* A step of one delivery.
<1>1. ASSUME inbox' = inbox, collided \subseteq collided',
             NEW d \in Delivery \cup {Free}, worker' = [worker EXCEPT ![w] = d],
             d.pc \in Holding =>
               \/ /\ worker[w].pc \in Holding /\ d.id = worker[w].id
                  /\ d.row.retryCount \in
                       {worker[w].row.retryCount, worker[w].row.retryCount + 1}
               \/ d.id \in Ids /\ Stored(d.id) /\ d.row = inbox[d.id]
      PROVE  inbox' = inbox /\ CopiesAreCurrent'
  <2>1. worker'[w] = d /\ \A v \in Workers : v # w => worker'[v] = worker[v]
    BY <1>0, <1>1, OneDeliveryMoves
  <2> QED
    BY <1>0, <1>1, <2>1, CopiesKept
<1>2. worker[w] # Free => worker[w] \in Delivery
  BY <1>0, BusyIsDelivery
<1>3. Free.pc \notin Holding
  BY DEF Free, Holding
<1>4. ASSUME NEW p \in Replicas, NEW q \in Queues, NEW m \in Ids, Deliver(w, p, q, m)
      PROVE  inbox' = inbox /\ CopiesAreCurrent'
  <2> DEFINE d == [pc |-> "find", id |-> m, queue |-> q, at |-> p, row |-> NoRow]
  <2>1. d \in Delivery /\ d.pc \notin Holding
    BY DEF Delivery, Holding
  <2>2. worker' = [worker EXCEPT ![w] = d] /\ inbox' = inbox /\ collided \subseteq collided'
    BY <1>4 DEF Deliver
  <2> HIDE DEF d
  <2> QED
    BY <1>1, <2>1, <2>2
<1>5. CASE CallFails(w) \/ FindProcessed(w) \/ InsertConflict(w)
  <2>1. /\ worker[w] # Free /\ inbox' = inbox /\ collided' = collided
        /\ Ack(w) \/ Nack(w)
    BY <1>5 DEF CallFails, FindProcessed, InsertConflict, historyVars, Free
  <2>2. \A v \in Workers : worker'[v] \in {worker[v], Free}
    BY <1>0, <2>1, AnswerFrees DEF LeftAlone
  <2> QED
    BY <2>1, <2>2, CopiesEndWithDeliveries
<1>7. CASE FindUnprocessed(w)
  <2>1. /\ worker[w] \in Delivery /\ worker[w].id \in Ids /\ Stored(worker[w].id)
        /\ inbox' = inbox /\ collided' = collided
    BY <1>2, <1>7 DEF FindUnprocessed, historyVars, Free, Delivery
  <2> DEFINE row == inbox[worker[w].id]
             d == [worker[w] EXCEPT !.pc = "handle", !.row = row]
  <2>2. row \in InboxRow /\ worker' = [worker EXCEPT ![w] = d]
    BY <1>0, <1>7, <2>1 DEF FindUnprocessed, Stored, TypeOK
  <2> HIDE DEF row
  <2>3. d \in Delivery /\ d.id = worker[w].id /\ d.row = row
    BY <2>1, <2>2 DEF Delivery
  <2> HIDE DEF d
  <2> QED
    BY <1>1, <2>1, <2>2, <2>3 DEF row
<1>8. CASE FindNone(w)
  <2> DEFINE d == [worker[w] EXCEPT !.pc = "insert"]
  <2>1. /\ worker[w] \in Delivery /\ worker' = [worker EXCEPT ![w] = d]
        /\ inbox' = inbox /\ collided' = collided
    BY <1>2, <1>8 DEF FindNone, historyVars, Free
  <2>2. d \in Delivery /\ d.pc \notin Holding
    BY <2>1 DEF Delivery, Holding
  <2> HIDE DEF d
  <2> QED
    BY <1>1, <2>1, <2>2
<1>9. CASE HandlerThrows(w) \/ SaveDoneFails(w)
  <2>1. /\ worker[w] # Free /\ worker[w] \in Delivery /\ worker[w].row # NoRow
        /\ CountFailure(w) /\ worker[w].pc \in Holding
        /\ inbox' = inbox /\ collided' = collided
    BY <1>0, <1>2, <1>9 DEF HandlerThrows, SaveDoneFails, Free, RowsHeld, Holding
  <2> DEFINE row == [worker[w].row EXCEPT !.retryCount = @ + 1]
             d == [worker[w] EXCEPT !.pc = "saveError", !.row = row]
  <2>2. d \in Delivery /\ worker' = [worker EXCEPT ![w] = d]
    BY <1>0, <2>1, CountFailureMoves
  <2>3. row.retryCount = worker[w].row.retryCount + 1
    BY <2>1 DEF Delivery, InboxRow
  <2> HIDE DEF row
  <2>4. d.id = worker[w].id /\ d.row = row
    BY <2>1 DEF Delivery
  <2> HIDE DEF d
  <2> QED
    BY <1>1, <2>1, <2>2, <2>3, <2>4
<1>10. CASE HandlerCompletes(w)
  <2>1. /\ worker[w] # Free /\ worker[w] \in Delivery /\ worker[w].row # NoRow
        /\ worker[w].pc \in Holding /\ inbox' = inbox /\ collided' = collided
    BY <1>0, <1>2, <1>10 DEF HandlerCompletes, Free, RowsHeld, Holding
  <2> DEFINE row == [worker[w].row EXCEPT !.processed = TRUE]
             d == [worker[w] EXCEPT !.pc = "saveDone", !.row = row]
  <2>2. d \in Delivery /\ worker' = [worker EXCEPT ![w] = d]
    BY <1>0, <1>10, <2>1, HandlerCompletesMoves
  <2>3. row.retryCount = worker[w].row.retryCount
    BY <2>1 DEF Delivery, InboxRow
  <2> HIDE DEF row
  <2>4. d.id = worker[w].id /\ d.row = row
    BY <2>1 DEF Delivery
  <2> HIDE DEF d
  <2> QED
    BY <1>1, <2>1, <2>2, <2>3, <2>4
<1> QED
  BY <1>4, <1>5, <1>7, <1>8, <1>9, <1>10

\* A sole delivery that inserts or saves does so for no other that holds a copy.
LEMMA OthersHoldOthers ==
  ASSUME OnceInv, CopiesAreCurrent, NEW w \in Workers, worker[w] # Free,
         collided' = collided,
         \A v \in Workers : v # w => worker'[v] \in {worker[v], Free},
         \A m \in Ids : m # worker[w].id => inbox'[m] = inbox[m],
         worker'[w].pc \in Holding => CopyIsCurrent(w)'
  PROVE  CopiesAreCurrent'
<1>0. Free.pc \notin Holding
  BY DEF Free, Holding
<1> SUFFICES ASSUME NEW v \in Workers, v # w, worker[v].pc \in Holding,
                    worker[v].id \notin collided, worker'[v] = worker[v]
             PROVE  CopyIsCurrent(v)'
  BY <1>0 DEF CopiesAreCurrent
<1>1. worker[v] # Free /\ worker[v].id \in Ids
  BY BusyIsDelivery DEF OnceInv, InboxInv, InboxTyped, Holding, Delivery
<1>2. worker[v].id # worker[w].id
  BY <1>1 DEF OnceInv, SoleDelivery
<1>3. CopyIsCurrent(v)
  BY DEF CopiesAreCurrent
<1> QED
  BY <1>1, <1>2, <1>3 DEF CopyIsCurrent, Stored

\* Every step of the inbox keeps the copies current and its rows advancing.
LEMMA RowsStep ==
  ASSUME OnceInv, CopiesAreCurrent, [Next]_vars
  PROVE  /\ CopiesAreCurrent'
         /\ \A m \in Ids : m \notin collided' => Advances(m)
<1>0. TypeOK /\ RowsHeld
  BY DEF OnceInv, InboxInv, InboxTyped
<1>1. \A m \in Ids : Stored(m) => inbox[m].retryCount \in Nat
  BY <1>0 DEF TypeOK, Stored, InboxRow
<1>2. \A m \in Ids : inbox'[m] = inbox[m] => Advances(m)
  BY <1>1 DEF Advances, Stored
<1>3. ASSUME inbox' = inbox, worker' = worker, collided' = collided
      PROVE  /\ CopiesAreCurrent'
             /\ \A m \in Ids : m \notin collided' => Advances(m)
  BY <1>2, <1>3 DEF CopiesAreCurrent, CopyIsCurrent, Stored
<1>4. CASE UNCHANGED vars \/ \E q \in Queues, m \in Ids : Arrive(q, m)
  BY <1>3, <1>4 DEF vars, Arrive, historyVars
<1>5. ASSUME NEW w \in Workers,
             \/ \E p \in Replicas, q \in Queues, m \in Ids : Deliver(w, p, q, m)
             \/ CallFails(w)
             \/ FindProcessed(w) \/ FindUnprocessed(w) \/ FindNone(w) \/ InsertConflict(w)
             \/ HandlerCompletes(w) \/ HandlerThrows(w) \/ SaveDoneFails(w)
      PROVE  /\ CopiesAreCurrent'
             /\ \A m \in Ids : m \notin collided' => Advances(m)
  BY <1>2, <1>5, LeavesTable
<1>6. ASSUME NEW w \in Workers, Insert(w)
      PROVE  /\ CopiesAreCurrent'
             /\ \A m \in Ids : m \notin collided' => Advances(m)
  <2>1. worker[w] # Free /\ worker[w] \in Delivery /\ worker[w].id \in Ids
    BY <1>0, <1>6, BusyIsDelivery DEF Insert, Free, Delivery
  <2>2. NewRow # NoRow /\ NewRow.retryCount = 0
    <3>1. inserts \in Nat
      BY <1>0 DEF TypeOK
    <3>2. NewRow \in InboxRow
      BY <3>1 DEF NewRow, InboxRow
    <3> QED
      BY <3>2, NoRowIsNoRow DEF NewRow
  <2>3. /\ inbox'[worker[w].id] = NewRow /\ ~ Stored(worker[w].id)
        /\ \A m \in Ids : m # worker[w].id => inbox'[m] = inbox[m]
        /\ worker'[w].id = worker[w].id /\ worker'[w].row = NewRow
        /\ \A v \in Workers : v # w => worker'[v] = worker[v]
        /\ collided' = collided
    BY <1>0, <1>6, <2>1 DEF Insert, TypeOK, Delivery, historyVars
  <2>4. CopyIsCurrent(w)'
    BY <2>2, <2>3 DEF CopyIsCurrent, Stored
  <2>5. CopiesAreCurrent'
    BY <2>1, <2>3, <2>4, OthersHoldOthers
  <2>6. \A m \in Ids : m = worker[w].id => Advances(m)
    BY <2>3 DEF Advances
  <2> QED
    BY <1>2, <2>3, <2>5, <2>6
<1>7. ASSUME NEW w \in Workers, SaveDone(w) \/ SaveError(w)
      PROVE  /\ CopiesAreCurrent'
             /\ \A m \in Ids : m \notin collided' => Advances(m)
  <2>1. /\ worker[w] # Free /\ worker[w].id \in Ids
        /\ worker[w].pc \in {"saveDone", "saveError"} /\ worker[w].row # NoRow
    BY <1>0, <1>7, BusyIsDelivery DEF SaveDone, SaveError, Free, Delivery, RowsHeld
  <2>2. /\ worker'[w] = Free /\ collided' = collided
        /\ \A v \in Workers : v # w => worker'[v] \in {worker[v], Free}
        /\ inbox'[worker[w].id] = worker[w].row
        /\ \A m \in Ids : m # worker[w].id => inbox'[m] = inbox[m]
    <3>1. inbox' = [inbox EXCEPT ![worker[w].id] = worker[w].row]
      BY <1>7 DEF SaveDone, SaveError, WriteBack
    <3> QED
      BY <1>0, <1>7, <2>1, <3>1, AnswerFrees
         DEF SaveDone, SaveError, TypeOK, historyVars, LeftAlone
  <2>3. CopiesAreCurrent'
    BY <2>1, <2>2, OthersHoldOthers DEF Free, Holding
  <2>4. ASSUME NEW m \in Ids, m = worker[w].id, m \notin collided PROVE Advances(m)
    <3>1. CopyIsCurrent(w) /\ ~ AlreadyProcessed(m)
      BY <2>1, <2>4 DEF OnceInv, FoundUnprocessed, CopiesAreCurrent, Holding
    <3>2. Stored(m) /\ Stored(m)'
      BY <2>1, <2>2, <2>4, <3>1 DEF CopyIsCurrent, Stored
    <3>3. inbox[m].retryCount <= inbox'[m].retryCount
      BY <2>2, <2>4, <3>1 DEF CopyIsCurrent
    <3>4. ~ inbox[m].processed
      BY <3>1, <3>2 DEF AlreadyProcessed
    <3> QED
      BY <3>2, <3>3, <3>4 DEF Advances
  <2> QED
    BY <1>2, <2>2, <2>3, <2>4
<1>8. CASE CleanupExpired
  <2>1. PICK old \in SUBSET Expirable :
          inbox' = [m \in Ids |-> IF m \in old THEN NoRow ELSE inbox[m]]
    BY <1>8 DEF CleanupExpired
  <2>2. worker' = worker /\ collided' = collided
    BY <1>8 DEF CleanupExpired, historyVars
  <2>3. \A m \in Ids : inbox'[m] = inbox[m]
                       \/ (AlreadyProcessed(m) /\ inbox'[m] = NoRow)
    BY <2>1 DEF Expirable, AlreadyProcessed
  <2>4. CopiesAreCurrent'
    <3> SUFFICES ASSUME NEW w \in Workers, worker[w].pc \in Holding,
                        worker[w].id \notin collided
                 PROVE  CopyIsCurrent(w)'
      BY <2>2 DEF CopiesAreCurrent
    <3>1. worker[w].id \in Ids
      BY <1>0, BusyIsDelivery DEF Holding, Delivery
    <3>2. ~ AlreadyProcessed(worker[w].id)
      BY DEF OnceInv, FoundUnprocessed, Holding
    <3>3. CopyIsCurrent(w)
      BY DEF CopiesAreCurrent
    <3> QED
      BY <2>2, <2>3, <3>1, <3>2, <3>3 DEF CopyIsCurrent, Stored
  <2>5. \A m \in Ids : AlreadyProcessed(m) /\ inbox'[m] = NoRow => Advances(m)
    BY DEF Advances, AlreadyProcessed, Stored
  <2> QED
    BY <1>2, <2>3, <2>4, <2>5
<1>9. ASSUME NEW p \in Replicas, LoseConnection(p) \/ Notice(p) \/ Crash(p)
      PROVE  /\ CopiesAreCurrent'
             /\ \A m \in Ids : m \notin collided' => Advances(m)
  <2>1. inbox' = inbox /\ collided' = collided
    BY <1>9 DEF LoseConnection, Notice, Crash, historyVars
  <2>2. \A v \in Workers : worker'[v] \in {worker[v], Free}
    <3>1. CASE LoseConnection(p)
      BY <3>1 DEF LoseConnection
    <3>2. CASE Notice(p) \/ Crash(p)
      BY <1>0, <3>2, DeathFrees DEF Notice, Crash
    <3> QED
      BY <1>9, <3>1, <3>2
  <2> QED
    BY <1>2, <2>1, <2>2, CopiesEndWithDeliveries
<1> QED
  BY <1>4, <1>5, <1>6, <1>7, <1>8, <1>9 DEF Next, ProcessMessage, Drained

\* The steps of the dead letters leave the inbox alone.
LEMMA DlqRowsStep ==
  ASSUME LettersInv, CopiesAreCurrent, [DlqNext]_allVars
  PROVE  /\ CopiesAreCurrent'
         /\ \A m \in Ids : m \notin collided' => Advances(m)
<1>0. OnceInv /\ TypeOK
  BY DEF LettersInv, OnceInv, InboxInv, InboxTyped
<1>1. CASE [Next]_vars
  BY <1>0, <1>1, RowsStep
<1>2. ASSUME UNCHANGED <<inbox, worker, historyVars>>
      PROVE  /\ CopiesAreCurrent'
             /\ \A m \in Ids : m \notin collided' => Advances(m)
  <2>1. CopiesAreCurrent'
    BY <1>2 DEF CopiesAreCurrent, CopyIsCurrent, Stored, historyVars
  <2>2. \A m \in Ids : Stored(m) => inbox[m].retryCount \in Nat
    BY <1>0 DEF TypeOK, Stored, InboxRow
  <2> QED
    BY <1>2, <2>1, <2>2 DEF Advances, Stored
<1>3. ASSUME NEW c \in Checkers, FindStuck(c) \/ AddLetter(c) PROVE UNCHANGED vars
  BY <1>3 DEF FindStuck, AddLetter
<1>4. ASSUME NEW c \in Checkers, CheckAborts(c)
      PROVE  UNCHANGED <<inbox, worker, historyVars>>
  BY <1>4 DEF CheckAborts
<1>5. ASSUME NEW a \in Admins, RetryFails(a)
      PROVE  UNCHANGED <<inbox, worker, historyVars>>
  BY <1>5 DEF RetryFails
<1>6. ASSUME NEW a \in Admins, RetryResolves(a) PROVE UNCHANGED vars
  BY <1>6 DEF RetryResolves
<1>7. ASSUME NEW i \in DOMAIN letters,
             MarkAsResolved(i) \/ \E a \in Admins : RetryEmits(a, i)
      PROVE  UNCHANGED vars
  BY <1>7 DEF MarkAsResolved, RetryEmits
<1>8. CASE UNCHANGED allVars
  BY <1>1, <1>8 DEF allVars
<1> QED
  BY <1>1, <1>2, <1>3, <1>4, <1>5, <1>6, <1>7, <1>8 DEF DlqNext, Check

\* The inbox as a record of progress: while no two deliveries of a message were
\* in flight at once, processed is final, retryCount never shrinks and only a
\* processed row is removed, through failing calls, crashes and clean-ups.
THEOREM InboxRowsOnlyAdvance == DlqSpec => InboxRowsAdvance
<1>1. DlqInit => CopiesAreCurrent
  BY DEF DlqInit, Init, CopiesAreCurrent, Holding, Free
<1>2. LettersInv /\ CopiesAreCurrent /\ [DlqNext]_allVars => CopiesAreCurrent'
  BY DlqRowsStep
<1>3. LettersInv /\ CopiesAreCurrent /\ [DlqNext]_allVars
        => [\A m \in Ids : m \notin collided' => Advances(m)]_vars
  BY DlqRowsStep
<1> QED
  BY <1>1, <1>2, <1>3, LettersInvariant, PTL DEF DlqSpec, InboxRowsAdvance

-----------------------------------------------------------------------------
(* The last copy of a message.                                             *)

\* Only a broken connection closes a channel.
ClosedByLoss == losses = 0 => connected = Replicas

\* What the catch block is about to save counts the failure.
FailuresCounted ==
  \A w \in Workers :
    worker[w].pc = "saveError" => worker[w].row.retryCount > 0

\* The delivery is on its way to the handler or to its save: it will not find
\* that another inserted the row first.
Trying(w, m) ==
  /\ worker[w] # Free
  /\ worker[w].id = m
  /\ worker[w].pc = "insert" => ~ Stored(m)

WillBeTried(m) ==
  \/ \E q \in Queues : waiting[q][m] > 0
  \/ \E w \in Workers : Trying(w, m)

\* What LastCopySettles lacks: a delivery that has lost the race for the insert
\* does not count as a last copy.
LastCopyTried ==
  dbErrors = 0 /\ losses = 0 =>
    \A m \in Ids : Arrived(m) => WillBeTried(m) \/ Settled(m)

LastInv == ClosedByLoss /\ FailuresCounted /\ LastCopyTried

\* A settled message stays settled: no save and no clean-up takes back both its
\* handling and its failures.
LEMMA SettledKept ==
  ASSUME InboxInv, FailuresCounted, [Next]_vars, NEW m \in Ids, Settled(m)
  PROVE  Settled(m)'
<1>0. TypeOK /\ TypeOK' /\ RowsHeld /\ DeliveriesClaimTruth
  BY InboxTypeStep DEF InboxInv, InboxTyped
<1>1. WasHandled(m) \/ AlreadyProcessed(m) => WasHandled(m)'
  BY HistoryGrows
<1>2. CASE WasHandled(m)
  BY <1>1, <1>2 DEF Settled
<1>3. CASE Stored(m) /\ inbox[m].retryCount > 0
  <2>1. ASSUME NEW w \in Workers, SaveDone(w) \/ SaveError(w) PROVE Settled(m)'
    <3>1. worker[w] # Free /\ worker[w].row # NoRow /\ ClaimsTruth(w)
      BY <1>0, <2>1 DEF SaveDone, SaveError, Free, RowsHeld, DeliveriesClaimTruth
    <3>2. \/ inbox'[m] = inbox[m]
          \/ m = worker[w].id /\ inbox'[m] = worker[w].row
      BY <1>0, <2>1 DEF SaveDone, SaveError, WriteBack, TypeOK
    <3>3. CASE inbox'[m] = inbox[m]
      BY <1>3, <3>3 DEF Settled, Stored
    <3>4. CASE SaveDone(w) /\ m = worker[w].id
      <4>1. WasHandled(m)
        BY <3>1, <3>4 DEF SaveDone, ClaimsTruth
      <4> QED
        BY <1>1, <4>1 DEF Settled
    <3>5. CASE SaveError(w) /\ inbox'[m] = worker[w].row
      BY <3>1, <3>5 DEF SaveError, FailuresCounted, Settled, Stored
    <3> QED
      BY <2>1, <3>2, <3>3, <3>4, <3>5
  <2>2. ASSUME NEW w \in Workers, Insert(w) PROVE inbox'[m] = inbox[m]
    BY <1>0, <1>3, <2>2 DEF Insert, TypeOK
  <2>3. CASE CleanupExpired
    <3>1. inbox'[m] = inbox[m] \/ AlreadyProcessed(m)
      BY <2>3 DEF CleanupExpired, Expirable, AlreadyProcessed
    <3> QED
      BY <1>1, <1>3, <3>1 DEF Settled, Stored
  <2>4. inbox'[m] = inbox[m] => Settled(m)'
    BY <1>3 DEF Settled, Stored
  <2> QED
    BY <2>1, <2>2, <2>3, <2>4 DEF Next, vars, Arrive, Deliver, ProcessMessage,
       FindProcessed, FindUnprocessed, FindNone, InsertConflict, HandlerCompletes,
       HandlerThrows, SaveDoneFails, CallFails, LoseConnection, Notice, Crash, Drained
<1> QED
  BY <1>2, <1>3 DEF Settled

\* A step of one delivery takes away the trial of no message but its own.
LEMMA OthersTry ==
  ASSUME NEW m \in Ids, WillBeTried(m), NEW w \in Workers,
         \A v \in Workers : v # w => worker'[v] = worker[v],
         \A q \in Queues : waiting[q][m] > 0 => waiting'[q][m] > 0,
         Stored(m)' => Stored(m)
  PROVE  Trying(w, m) \/ WillBeTried(m)'
BY DEF WillBeTried, Trying

\* While no connection has broken, a step of one delivery leaves the others as
\* they are.
LEMMA OthersStay ==
  ASSUME TypeOK, ClosedByLoss, losses' = losses, losses = 0, NEW w \in Workers,
         \A v \in Workers : v # w => LeftAlone(v)
  PROVE  \A v \in Workers : v # w => worker'[v] = worker[v]
<1>1. \A v \in Workers : worker[v] # Free => worker[v].at \in connected
  BY BusyIsDelivery DEF ClosedByLoss, Delivery
<1> QED
  BY <1>1 DEF LeftAlone

\* What a step of one delivery has to answer for: the count it is about to save,
\* and the message it was trying.
LEMMA LastKept ==
  ASSUME InboxInv, LastInv, [Next]_vars, NEW w \in Workers, worker[w] # Free,
         NEW k \in Ids, k = worker[w].id,
         \A v \in Workers : v # w => LeftAlone(v),
         connected \subseteq connected', losses' = losses,
         worker'[w].pc = "saveError" => worker'[w].row.retryCount > 0,
         dbErrors' = 0 => dbErrors = 0,
         UNCHANGED arrived,
         \A q \in Queues, m \in Ids : waiting[q][m] > 0 => waiting'[q][m] > 0,
         \A m \in Ids : m # k => inbox'[m] = inbox[m],
         dbErrors' = 0 /\ losses' = 0 =>
           \/ WillBeTried(k)' \/ Settled(k)'
           \/ ~ Trying(w, k) /\ (Stored(k)' => Stored(k))
  PROVE  LastInv'
<1>0. TypeOK /\ TypeOK'
  BY InboxTypeStep DEF InboxInv, InboxTyped
<1>3. ClosedByLoss'
  BY <1>0 DEF ClosedByLoss, LastInv, TypeOK
<1>4. FailuresCounted'
  BY DEF FailuresCounted, LastInv, LeftAlone, Free
<1>5. LastCopyTried'
  <2> SUFFICES ASSUME dbErrors' = 0, losses' = 0, NEW m \in Ids, Arrived(m)
               PROVE  WillBeTried(m)' \/ Settled(m)'
    BY DEF LastCopyTried, Arrived
  <2>1. WillBeTried(m) \/ Settled(m)'
    BY SettledKept DEF LastInv, LastCopyTried
  <2>5. \A v \in Workers : v # w => worker'[v] = worker[v]
    BY <1>0, OthersStay DEF LastInv
  <2>2. ASSUME ~ Trying(w, m), Stored(m)' => Stored(m)
        PROVE  WillBeTried(m)' \/ Settled(m)'
    BY <2>1, <2>2, <2>5, OthersTry
  <2>3. CASE m = k
    BY <2>2, <2>3
  <2>4. CASE m # k
    BY <2>2, <2>4 DEF Trying, Stored
  <2> QED
    BY <2>3, <2>4
<1> QED
  BY <1>3, <1>4, <1>5 DEF LastInv

\* Every step of the inbox keeps a last copy, unless it settles the message.
LEMMA LastStep == InboxInv /\ LastInv /\ [Next]_vars => LastInv'
<1> SUFFICES ASSUME InboxInv, LastInv, [Next]_vars PROVE LastInv'
  OBVIOUS
<1>0. TypeOK /\ RowsHeld /\ TypeOK' /\ DeliveriesClaimTruth
  BY InboxTypeStep DEF InboxInv, InboxTyped
<1>1. \A w \in Workers : worker[w] # Free =>
        /\ worker[w] \in Delivery
        /\ worker[w].id \in Ids /\ worker[w].queue \in Queues
        /\ worker[w].at \in Replicas
  BY <1>0, BusyIsDelivery DEF Delivery
<1>2. losses \in Nat /\ dbErrors \in Nat
  BY <1>0 DEF TypeOK
<1>3. Free.pc = "free"
  BY DEF Free
<1>4. ASSUME NEW q \in Queues, NEW m \in Ids, Arrive(q, m) PROVE LastInv'
  <2>1. UNCHANGED <<inbox, worker, connected, losses, dbErrors, runs>>
    BY <1>4 DEF Arrive, historyVars, faultVars
  <2>2. \A k \in Ids :
          /\ k # m => (Arrived(k)' <=> Arrived(k))
          /\ WillBeTried(k) => WillBeTried(k)'
    BY <1>0, <1>4, <2>1 DEF Arrive, TypeOK, Arrived, WillBeTried, Trying, Stored
  <2>3. WillBeTried(m)'
    BY <1>0, <1>4 DEF Arrive, TypeOK, WillBeTried
  <2> QED
    BY <2>1, <2>2, <2>3
       DEF LastInv, ClosedByLoss, FailuresCounted, LastCopyTried, Settled,
       WasHandled, Stored
<1>5. ASSUME NEW w \in Workers, NEW r \in Replicas, NEW q \in Queues, NEW m \in Ids,
             Deliver(w, r, q, m)
      PROVE  LastInv'
  <2>1. /\ UNCHANGED <<inbox, arrived, connected, losses, dbErrors, runs>>
        /\ worker'[w].pc = "find" /\ worker'[w].id = m
        /\ \A v \in Workers : v # w => worker'[v] = worker[v]
        /\ worker[w] = Free
    BY <1>0, <1>5 DEF Deliver, TypeOK, faultVars
  <2>2. WillBeTried(m)'
    BY <1>3, <2>1 DEF WillBeTried, Trying
  <2>3. \A k \in Ids : WillBeTried(k) => WillBeTried(k)'
    <3> SUFFICES ASSUME NEW k \in Ids, k # m, WillBeTried(k) PROVE WillBeTried(k)'
      BY <2>2
    <3>1. \A p \in Queues : waiting'[p][k] = waiting[p][k]
      BY <1>0, <1>5 DEF Deliver, TypeOK
    <3> QED
      BY <2>1, <3>1, OthersTry DEF Stored, Trying
  <2> QED
    BY <2>1, <2>3 DEF LastInv, ClosedByLoss, FailuresCounted, LastCopyTried,
       Settled, WasHandled, Stored, Arrived
<1>6. ASSUME NEW w \in Workers, ProcessMessage(w) PROVE LastInv'
  <2>1. worker[w].pc # "free" /\ worker[w] # Free
    BY <1>3, <1>6 DEF ProcessMessage, FindProcessed, FindUnprocessed, FindNone,
       Insert, InsertConflict, HandlerCompletes, HandlerThrows, SaveDone, SaveError
  <2>2. PICK k \in Ids : worker[w] \in Delivery /\ k = worker[w].id
    BY <1>1, <2>1
  <2>3. UNCHANGED <<losses, dbErrors, arrived, waiting>>
    BY <1>6 DEF ProcessMessage, FindProcessed, FindUnprocessed, FindNone, Insert,
       InsertConflict, HandlerCompletes, HandlerThrows, SaveDone, SaveError,
       brokerVars, faultVars
\* The delivery ends, and its message is settled or another's to try.
  <2>5. ASSUME Ack(w) \/ Nack(w),
               \A m \in Ids : m # k => inbox'[m] = inbox[m],
               \/ Settled(k)'
               \/ ~ Trying(w, k) /\ (Stored(k)' => Stored(k))
        PROVE  LastInv'
    <3>1. /\ worker'[w] = Free /\ connected \subseteq connected'
          /\ \A v \in Workers : v # w => LeftAlone(v)
      BY <1>0, <2>1, <2>5, AnswerFrees
    <3>2. worker'[w].pc # "saveError"
      BY <1>3, <3>1
    <3> QED
      BY <1>2, <2>1, <2>2, <2>3, <2>5, <3>1, <3>2, LastKept
\* The delivery goes on.
  <2>6. ASSUME NEW d \in Delivery, worker' = [worker EXCEPT ![w] = d],
               d.id = k, connected' = connected,
               d.pc = "saveError" => d.row.retryCount > 0,
               \A m \in Ids : m # k => inbox'[m] = inbox[m],
               d.pc # "insert" \/ ~ Stored(k)'
        PROVE  LastInv'
    <3>1. d # Free
      BY <1>0, BusyIsDelivery
    <3>2. worker'[w] = d /\ \A v \in Workers : v # w => worker'[v] = worker[v]
      BY <1>0, <2>6, OneDeliveryMoves
    <3>3. WillBeTried(k)'
      BY <2>6, <3>1, <3>2 DEF WillBeTried, Trying, Stored
    <3>4. \A v \in Workers : v # w => LeftAlone(v)
      BY <3>2 DEF LeftAlone
    <3> QED
      BY <1>2, <2>1, <2>2, <2>3, <2>6, <3>2, <3>3, <3>4, LastKept
  <2>7. CASE FindProcessed(w)
    <3>1. WasHandled(k) /\ inbox' = inbox /\ runs' = runs
      BY <2>2, <2>7 DEF FindProcessed, InboxInv, ClaimsWereHandled,
         ProcessedWasHandled, historyVars
    <3>2. Ack(w)
      BY <2>7 DEF FindProcessed
    <3> QED
      BY <2>5, <3>1, <3>2 DEF Settled, WasHandled
  <2>8. CASE InsertConflict(w)
    <3>1. Stored(k) /\ inbox' = inbox /\ ~ Trying(w, k)
      BY <2>2, <2>8 DEF InsertConflict, Trying
    <3>2. Nack(w)
      BY <2>8 DEF InsertConflict
    <3> QED
      BY <2>5, <3>1, <3>2
  <2>9. CASE SaveDone(w) \/ SaveError(w)
    <3>1. worker[w].row # NoRow /\ ClaimsTruth(w) /\ runs' = runs
      BY <1>0, <2>9 DEF SaveDone, SaveError, RowsHeld, DeliveriesClaimTruth,
         historyVars
    <3>2. inbox' = [inbox EXCEPT ![k] = worker[w].row]
      BY <2>2, <2>9 DEF SaveDone, SaveError, WriteBack
    <3>3. /\ inbox'[k] = worker[w].row
          /\ \A m \in Ids : m # k => inbox'[m] = inbox[m]
      BY <1>0, <2>2, <3>2 DEF TypeOK
    <3>4. Ack(w) \/ Nack(w)
      BY <2>9 DEF SaveDone, SaveError
    <3>5. Settled(k)'
      <4>1. CASE SaveDone(w)
        BY <2>2, <3>1, <4>1 DEF SaveDone, ClaimsTruth, Settled, WasHandled
      <4>2. CASE SaveError(w)
        BY <3>1, <3>3, <4>2 DEF SaveError, Settled, Stored, LastInv, FailuresCounted
      <4> QED
        BY <2>9, <4>1, <4>2
    <3> QED
      BY <2>5, <3>3, <3>4, <3>5
  <2>10. CASE FindUnprocessed(w)
    <3> DEFINE row == inbox[k]
               d == [worker[w] EXCEPT !.pc = "handle", !.row = row]
    <3>1. /\ worker' = [worker EXCEPT ![w] = d] /\ inbox' = inbox
          /\ connected' = connected
      BY <1>0, <2>2, <2>10 DEF FindUnprocessed, TypeOK
    <3>2. row \in InboxRow
      BY <1>0, <2>2, <2>10 DEF FindUnprocessed, Stored, TypeOK
    <3> HIDE DEF row
    <3>3. d \in Delivery /\ d.pc = "handle" /\ d.id = k
      BY <2>2, <3>2 DEF Delivery
    <3> HIDE DEF d
    <3> QED
      BY <2>6, <3>1, <3>3
  <2>11. CASE FindNone(w)
    <3> DEFINE d == [worker[w] EXCEPT !.pc = "insert"]
    <3>1. /\ worker' = [worker EXCEPT ![w] = d] /\ inbox' = inbox /\ ~ Stored(k)
          /\ connected' = connected
      BY <2>2, <2>11 DEF FindNone
    <3>2. d \in Delivery /\ d.pc = "insert" /\ d.id = k
      BY <2>2 DEF Delivery
    <3> HIDE DEF d
    <3> QED
      BY <2>6, <3>1, <3>2 DEF Stored
  <2>12. CASE Insert(w)
    <3> DEFINE d == [worker[w] EXCEPT !.pc = "handle", !.row = NewRow]
    <3>1. NewRow \in InboxRow
      BY <1>0 DEF NewRow, InboxRow, TypeOK
    <3>2. worker' = [worker EXCEPT ![w] = d] /\ connected' = connected
      BY <1>0, <2>12 DEF Insert, TypeOK
    <3>3. d \in Delivery /\ d.pc = "handle" /\ d.id = k
      BY <2>2, <3>1 DEF Delivery
    <3>4. \A m \in Ids : m # k => inbox'[m] = inbox[m]
      BY <1>0, <2>2, <2>12 DEF Insert, TypeOK
    <3> HIDE DEF d
    <3> QED
      BY <2>6, <3>2, <3>3, <3>4
  <2>13. CASE HandlerCompletes(w)
    <3> DEFINE row == [worker[w].row EXCEPT !.processed = TRUE]
               d == [worker[w] EXCEPT !.pc = "saveDone", !.row = row]
    <3>1. worker[w].row # NoRow /\ inbox' = inbox /\ connected' = connected
      BY <1>0, <2>13 DEF HandlerCompletes, RowsHeld
    <3>2. d \in Delivery /\ worker' = [worker EXCEPT ![w] = d]
      BY <1>0, <2>1, <2>13, <3>1, HandlerCompletesMoves
    <3> HIDE DEF row
    <3>3. d.pc = "saveDone" /\ d.id = k
      BY <2>2 DEF Delivery
    <3> HIDE DEF d
    <3> QED
      BY <2>6, <3>1, <3>2, <3>3
  <2>14. CASE HandlerThrows(w)
    <3> DEFINE row == [worker[w].row EXCEPT !.retryCount = @ + 1]
               d == [worker[w] EXCEPT !.pc = "saveError", !.row = row]
    <3>1. /\ worker[w].row # NoRow /\ inbox' = inbox /\ CountFailure(w)
          /\ connected' = connected
      BY <1>0, <2>14 DEF HandlerThrows, RowsHeld
    <3>2. d \in Delivery /\ worker' = [worker EXCEPT ![w] = d]
      BY <1>0, <2>1, <3>1, CountFailureMoves
    <3>3. row.retryCount > 0
      BY <2>2, <3>1 DEF Delivery, InboxRow
    <3> HIDE DEF row
    <3>4. d.pc = "saveError" /\ d.id = k /\ d.row = row
      BY <2>2 DEF Delivery
    <3> HIDE DEF d
    <3> QED
      BY <2>6, <3>1, <3>2, <3>3, <3>4
  <2> QED
    BY <1>6, <2>7, <2>8, <2>9, <2>10, <2>11, <2>12, <2>13, <2>14 DEF ProcessMessage
<1>7. ASSUME NEW w \in Workers, CallFails(w) PROVE LastInv'
  <2>1. /\ worker[w] # Free /\ Nack(w)
        /\ dbErrors' # 0 /\ UNCHANGED <<inbox, arrived, waiting, losses>>
    BY <1>2, <1>3, <1>7 DEF CallFails, brokerVars
  <2>2. PICK k \in Ids : k = worker[w].id
    BY <1>1, <2>1
  <2>3. /\ worker'[w] = Free /\ connected \subseteq connected'
        /\ \A v \in Workers : v # w => LeftAlone(v)
    BY <1>0, <2>1, AnswerFrees
  <2>4. worker'[w].pc # "saveError"
    BY <1>3, <2>3
  <2> QED
    BY <1>2, <2>1, <2>2, <2>3, <2>4, LastKept
<1>8. ASSUME NEW w \in Workers, SaveDoneFails(w) PROVE LastInv'
  <2> DEFINE row == [worker[w].row EXCEPT !.retryCount = @ + 1]
             d == [worker[w] EXCEPT !.pc = "saveError", !.row = row]
  <2>1. /\ worker[w] # Free /\ worker[w].row # NoRow /\ CountFailure(w)
        /\ dbErrors' # 0 /\ UNCHANGED <<inbox, arrived, waiting, losses, connected>>
    BY <1>0, <1>2, <1>3, <1>8 DEF SaveDoneFails, RowsHeld, brokerVars
  <2>2. d \in Delivery /\ worker' = [worker EXCEPT ![w] = d]
    BY <1>0, <2>1, CountFailureMoves
  <2>3. row.retryCount > 0
    BY <1>1, <2>1 DEF Delivery, InboxRow
  <2>5. PICK k \in Ids : k = worker[w].id
    BY <1>1, <2>1
  <2> HIDE DEF row
  <2>4. d.row = row
    BY <1>1, <2>1 DEF Delivery
  <2> HIDE DEF d
  <2>6. worker'[w] = d /\ \A v \in Workers : v # w => LeftAlone(v)
    BY <1>0, <2>2, OneDeliveryMoves DEF LeftAlone
  <2> QED
    BY <1>2, <2>1, <2>3, <2>4, <2>5, <2>6, LastKept
<1>9. ASSUME NEW p \in Replicas, LoseConnection(p) PROVE LastInv'
  <2>1. losses' # 0 /\ worker' = worker
    BY <1>2, <1>9 DEF LoseConnection
  <2> QED
    BY <2>1 DEF LastInv, ClosedByLoss, FailuresCounted, LastCopyTried
<1>12. ASSUME NEW p \in Replicas, Notice(p) \/ Crash(p) PROVE LastInv'
  <2>1. /\ UNCHANGED <<inbox, arrived, dbErrors, losses>>
        /\ Die(p)
    BY <1>12 DEF Notice, Crash, brokerVars, faultVars
  <2>2. /\ connected \subseteq connected' /\ connected' \subseteq Replicas
        /\ \A v \in Workers :
             worker'[v] = IF worker[v] # Free /\ worker[v].at = p THEN Free ELSE worker[v]
    BY <1>0, <2>1, DeathFrees
  <2>3. ClosedByLoss' /\ FailuresCounted'
    BY <1>3, <2>1, <2>2 DEF LastInv, ClosedByLoss, FailuresCounted
\* While no connection has broken, the copies of the dead process are requeued.
  <2>4. ASSUME losses = 0, NEW m \in Ids, WillBeTried(m) PROVE WillBeTried(m)'
    <3>1. Requeue(p)
      BY <1>12, <2>4 DEF Notice, Crash, LastInv, ClosedByLoss
    <3>2. CASE \E q \in Queues : waiting[q][m] > 0
      BY <1>0, <3>1, <3>2, RequeueAdds DEF WillBeTried
    <3>3. ASSUME NEW w \in Workers, Trying(w, m) PROVE WillBeTried(m)'
      <4>1. CASE worker[w].at = p
        <5>1. /\ waiting'[worker[w].queue][m] > 0 /\ worker[w].queue \in Queues
          BY <1>0, <1>1, <3>1, <3>3, <4>1, RequeueAdds DEF Trying
        <5> QED
          BY <5>1 DEF WillBeTried
      <4>2. CASE worker[w].at # p
        BY <2>1, <2>2, <3>3, <4>2 DEF WillBeTried, Trying, Stored
      <4> QED
        BY <4>1, <4>2
    <3> QED
      BY <2>4, <3>2, <3>3 DEF WillBeTried
  <2>5. \A m \in Ids : Settled(m) => Settled(m)'
    BY SettledKept DEF LastInv
  <2> QED
    BY <2>1, <2>3, <2>4, <2>5 DEF LastInv, LastCopyTried, Arrived
<1>10. CASE CleanupExpired
  <2>1. UNCHANGED <<arrived, waiting, worker, connected, losses, dbErrors>>
    BY <1>10 DEF CleanupExpired, brokerVars
  <2>2. \A m \in Ids : Stored(m)' => Stored(m)
    BY <1>10 DEF CleanupExpired, Stored
  <2>3. \A m \in Ids : WillBeTried(m) => WillBeTried(m)'
    BY <2>1, <2>2 DEF WillBeTried, Trying
  <2>4. \A m \in Ids : Settled(m) => Settled(m)'
    BY SettledKept DEF LastInv
  <2> QED
    BY <2>1, <2>3, <2>4 DEF LastInv, ClosedByLoss, FailuresCounted, LastCopyTried,
       Arrived
<1>11. CASE UNCHANGED vars
  BY <1>11 DEF vars, LastInv, ClosedByLoss, FailuresCounted, LastCopyTried,
     Arrived, WillBeTried, Trying, Settled, WasHandled, Stored
<1> QED
  BY <1>4, <1>5, <1>6, <1>7, <1>8, <1>9, <1>10, <1>11, <1>12 DEF Next, Drained

\* The steps of the dead letters leave the inbox alone, or add a fault.
LEMMA DlqLastStep == LettersInv /\ LastInv /\ [DlqNext]_allVars => LastInv'
<1> SUFFICES ASSUME LettersInv, LastInv, [DlqNext]_allVars PROVE LastInv'
  OBVIOUS
<1>0. InboxInv /\ TypeOK
  BY DEF LettersInv, OnceInv, InboxInv, InboxTyped
<1>1. CASE [Next]_vars
  BY <1>0, <1>1, LastStep
<1>2. ASSUME dbErrors' = dbErrors + 1, UNCHANGED <<worker, connected, losses>>
      PROVE  LastInv'
  <2>1. dbErrors' # 0
    BY <1>0, <1>2 DEF TypeOK
  <2> QED
    BY <1>2, <2>1 DEF LastInv, ClosedByLoss, FailuresCounted, LastCopyTried
<1>3. ASSUME NEW c \in Checkers, FindStuck(c) \/ AddLetter(c) PROVE UNCHANGED vars
  BY <1>3 DEF FindStuck, AddLetter
<1>4. ASSUME NEW c \in Checkers, CheckAborts(c) PROVE LastInv'
  BY <1>2, <1>4 DEF CheckAborts
<1>5. ASSUME NEW a \in Admins, RetryFails(a) PROVE LastInv'
  BY <1>2, <1>5 DEF RetryFails
<1>6. ASSUME NEW a \in Admins, RetryResolves(a) PROVE UNCHANGED vars
  BY <1>6 DEF RetryResolves
<1>7. ASSUME NEW i \in DOMAIN letters,
             MarkAsResolved(i) \/ \E a \in Admins : RetryEmits(a, i)
      PROVE  UNCHANGED vars
  BY <1>7 DEF MarkAsResolved, RetryEmits
<1>8. CASE UNCHANGED allVars
  BY <1>1, <1>8 DEF allVars
<1> QED
  BY <1>1, <1>3, <1>4, <1>5, <1>6, <1>7, <1>8 DEF DlqNext, Check

\* While the database does not fail and no connection breaks, the last copy of a
\* message settles it, however its deliveries interleave and processes crash.
THEOREM LastCopiesSettle == DlqSpec => []LastCopySettles
<1>1. DlqInit => LastInv
  BY DEF DlqInit, Init, LastInv, ClosedByLoss, FailuresCounted, LastCopyTried,
     Arrived, Free
<1>2. LettersInv /\ LastInv /\ [DlqNext]_allVars => LastInv'
  BY DlqLastStep
<1>3. LastInv => LastCopySettles
  BY DEF LastInv, LastCopyTried, LastCopySettles, WillBeTried, Trying, Alive
<1> QED
  BY <1>1, <1>2, <1>3, LettersInvariant, PTL DEF DlqSpec
=============================================================================
