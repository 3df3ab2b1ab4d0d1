------------------------------- MODULE Outbox -------------------------------
(***************************************************************************)
(* The relay of backend/src/modules/outbox: processOutbox, run by a timer  *)
(* every five seconds on every replica, reads the oldest unprocessed rows, *)
(* publishes them one by one and saves what became of each.  A run is not  *)
(* awaited by the timer and no row is locked, so runs overlap: on several  *)
(* replicas, or on one whose previous run is slow.  Each run works on the  *)
(* copies its query returned and save() writes a whole copy back.          *)
(*                                                                         *)
(* RabbitMQService.publish answers without a broker confirm.  True means   *)
(* the frame went to the socket buffer; false means it failed, or that the *)
(* buffer is full, in which case amqplib has queued the frame all the same.*)
(***************************************************************************)
EXTENDS Naturals, FiniteSets

CONSTANTS
  Relays,       \* concurrent runs of processOutbox, over all replicas
  MaxRetries,   \* LessThan(5)
  BatchSize,    \* take: 100
  MaxMessages,  \* bound: messages ever created
  MaxFaults,    \* bound: database errors and crashes
  NoRow         \* the absence of a row, or of a copy of one

\* The columns the relay reads or writes; processedAt goes with processed.
Row == [processed : BOOLEAN, retryCount : Nat]

ASSUME NoRowIsNoRow == NoRow \notin Row

ASSUME ConstantsAreNumbers ==
  /\ MaxRetries \in Nat \ {0}
  /\ BatchSize \in Nat \ {0}
  /\ MaxMessages \in Nat
  /\ MaxFaults \in Nat

VARIABLES
  created,   \* messages inserted so far; ids follow createdAt
  outbox,    \* the table outbox_messages
  pc,        \* where each run stands
  copy,      \* the entities each run still has to work through
  attempts,  \* history: calls of publish for each message
  answered,  \* history: messages for which publish answered true
  overlapped,  \* history: two runs were once in progress together
  faults     \* database errors and crashes so far

vars == <<created, outbox, pc, copy, attempts, answered, overlapped, faults>>

Ids == 1..MaxMessages

TypeOK ==
  /\ created \in 0..MaxMessages
  /\ outbox \in [Ids -> Row \cup {NoRow}]
  /\ pc \in [Relays -> {"idle", "publish", "saveDone", "saveError"}]
  /\ copy \in [Relays -> [Ids -> Row \cup {NoRow}]]
  /\ attempts \in [Ids -> Nat]
  /\ answered \subseteq Ids
  /\ overlapped \in BOOLEAN
  /\ faults \in Nat

Init ==
  /\ created = 0
  /\ outbox = [m \in Ids |-> NoRow]
  /\ pc = [r \in Relays |-> "idle"]
  /\ copy = [r \in Relays |-> [m \in Ids |-> NoRow]]
  /\ attempts = [m \in Ids |-> 0]
  /\ answered = {}
  /\ overlapped = FALSE
  /\ faults = 0

-----------------------------------------------------------------------------
(* OutboxService.create: the business code stores a message.               *)
Create ==
  /\ created < MaxMessages
  /\ created' = created + 1
  /\ outbox' = [outbox EXCEPT ![created + 1] =
                  [processed |-> FALSE, retryCount |-> 0]]
  /\ UNCHANGED <<pc, copy, attempts, answered, faults, overlapped>>

-----------------------------------------------------------------------------
(* processOutbox.                                                          *)

Stored(m) == outbox[m] # NoRow

\* Faulty variant: an off-by-one in the retry limit.
EligibleButLast == {m \in Ids : /\ Stored(m)
                                /\ ~ outbox[m].processed
                                /\ outbox[m].retryCount + 1 < MaxRetries}

\* Faulty variant: the query does not look at processed.
EligibleAgain == {m \in Ids : Stored(m) /\ outbox[m].retryCount < MaxRetries}

\* The WHERE clause of the query.
Eligible == {m \in Ids : /\ Stored(m)
                         /\ ~ outbox[m].processed
                         /\ outbox[m].retryCount < MaxRetries}

\* ORDER BY createdAt ASC, at most BatchSize rows.
Batch == {m \in Eligible :
            Cardinality({k \in Eligible : k < m}) < BatchSize}

\* The messages run r still holds; it works on the oldest.
Held(r) == {m \in Ids : copy[r][m] # NoRow}

IsCurrent(r, m) == m \in Held(r) /\ \A k \in Held(r) : m <= k

FindBatch(r) ==
  /\ pc[r] = "idle"
  /\ Batch # {}
  /\ copy' = [copy EXCEPT ![r] =
                [m \in Ids |-> IF m \in Batch THEN outbox[m] ELSE NoRow]]
  /\ pc' = [pc EXCEPT ![r] = "publish"]
  /\ overlapped' = (overlapped \/ \E s \in Relays : s # r /\ pc[s] # "idle")
  /\ UNCHANGED <<created, outbox, attempts, answered, faults>>

\* No message: the run returns.
FindNothing(r) ==
  /\ pc[r] = "idle"
  /\ Batch = {}
  /\ UNCHANGED vars

\* Faulty variant: marking a copy processed forgets its retries.
MarkProcessedAfresh(r, m) ==
  copy' = [copy EXCEPT ![r][m] = [processed |-> TRUE, retryCount |-> 0]]

MarkProcessed(r, m) == copy' = [copy EXCEPT ![r][m].processed = TRUE]

\* Faulty variant: the counter runs down.
CountDown(r, m) == copy' = [copy EXCEPT ![r][m].retryCount = @ - 1]

CountRetry(r, m) == copy' = [copy EXCEPT ![r][m].retryCount = @ + 1]

\* publish answers true: the copy is marked and its save is issued.
PublishAccepted(r) ==
  /\ pc[r] = "publish"
  /\ \E m \in Ids :
       /\ IsCurrent(r, m)
       /\ attempts' = [attempts EXCEPT ![m] = @ + 1]
       /\ answered' = answered \cup {m}
       /\ MarkProcessed(r, m)
  /\ pc' = [pc EXCEPT ![r] = "saveDone"]
  /\ UNCHANGED <<created, outbox, faults, overlapped>>

\* publish answers false: the throw lands in the catch block.
PublishRefused(r) ==
  /\ pc[r] = "publish"
  /\ \E m \in Ids :
       /\ IsCurrent(r, m)
       /\ attempts' = [attempts EXCEPT ![m] = @ + 1]
       /\ CountRetry(r, m)
  /\ pc' = [pc EXCEPT ![r] = "saveError"]
  /\ UNCHANGED <<created, outbox, answered, faults, overlapped>>

\* Faulty variant: every save marks the row processed.
WriteBackProcessed(r, m) ==
  outbox' = [outbox EXCEPT ![m] = [copy[r][m] EXCEPT !.processed = TRUE]]

\* save(message): whatever the row holds by now, it takes the copy's columns.
WriteBack(r, m) == outbox' = [outbox EXCEPT ![m] = copy[r][m]]

\* The loop moves on to the next message, or the run ends.
Advance(r, m) ==
  /\ copy' = [copy EXCEPT ![r][m] = NoRow]
  /\ pc' = [pc EXCEPT ![r] = IF Held(r) = {m} THEN "idle" ELSE "publish"]

\* Either save of the loop body commits.
Save(r) ==
  /\ pc[r] \in {"saveDone", "saveError"}
  /\ \E m \in Ids : IsCurrent(r, m) /\ WriteBack(r, m) /\ Advance(r, m)
  /\ UNCHANGED <<created, attempts, answered, faults, overlapped>>

\* The save in the try block fails.  The catch block counts a retry on the
\* copy, which is already marked processed, and saves that.
SaveDoneFails(r) ==
  /\ pc[r] = "saveDone"
  /\ faults < MaxFaults
  /\ faults' = faults + 1
  /\ \E m \in Ids : IsCurrent(r, m) /\ CountRetry(r, m)
  /\ pc' = [pc EXCEPT ![r] = "saveError"]
  /\ UNCHANGED <<created, outbox, attempts, answered, overlapped>>

\* The run is over and forgets its copies.
Abandon(r) ==
  /\ copy' = [copy EXCEPT ![r] = [m \in Ids |-> NoRow]]
  /\ pc' = [pc EXCEPT ![r] = "idle"]

\* The save in the catch block fails: the error leaves processOutbox.
SaveErrorFails(r) ==
  /\ pc[r] = "saveError"
  /\ faults < MaxFaults
  /\ faults' = faults + 1
  /\ Abandon(r)
  /\ UNCHANGED <<created, outbox, attempts, answered, overlapped>>

\* The replica dies; the next timer of the restarted one starts afresh.
Crash(r) ==
  /\ pc[r] # "idle"
  /\ faults < MaxFaults
  /\ faults' = faults + 1
  /\ Abandon(r)
  /\ UNCHANGED <<created, outbox, attempts, answered, overlapped>>

Run(r) ==
  \/ FindBatch(r) \/ FindNothing(r)
  \/ PublishAccepted(r) \/ PublishRefused(r)
  \/ Save(r)

-----------------------------------------------------------------------------
(* cleanupOldMessages deletes rows processed more than thirty days ago.    *)
(* No run holds its copies that long, so a row some run holds is not yet   *)
(* old enough.                                                             *)

\* Faulty variant: the DELETE does not look at processed.
RemovableAll == {m \in Ids : Stored(m)}

Removable == {m \in Ids : Stored(m) /\ outbox[m].processed}

CleanupOldMessages ==
  \E old \in SUBSET Removable :
    /\ old # {}
    /\ \A r \in Relays : old \cap Held(r) = {}
    /\ outbox' = [m \in Ids |-> IF m \in old THEN NoRow ELSE outbox[m]]
    /\ UNCHANGED <<created, pc, copy, attempts, answered, faults, overlapped>>

Next ==
  \/ Create
  \/ \E r \in Relays :
       Run(r) \/ SaveDoneFails(r) \/ SaveErrorFails(r) \/ Crash(r)
  \/ CleanupOldMessages

Spec == Init /\ [][Next]_vars

\* The timer starts every run again and again, and the event loop resumes
\* what an await has suspended.
FairSpec == Spec /\ \A r \in Relays : WF_vars(Run(r))

-----------------------------------------------------------------------------
(* Properties.                                                             *)

\* A row is marked processed only if publish has answered true for it: the
\* save that fails half-way, the stale copy of another run and the crash in
\* between never mark a message that was not handed to the broker.
ProcessedWasPublished ==
  \A m \in Ids : Stored(m) /\ outbox[m].processed => m \in answered

\* retryCount never runs ahead of the publishes really made, whatever copies
\* overwrite each other: no message is given up early.
RetriesWereAttempted ==
  \A m \in Ids : Stored(m) => outbox[m].retryCount <= attempts[m]

\* What a row tells of the publishing of its message is true.
RowsTellTruth == ProcessedWasPublished /\ RetriesWereAttempted

\* No row is lost: a message that was created is stored until it has been
\* handed to the broker.
UnpublishedStaysStored ==
  \A m \in 1..created : Stored(m) \/ m \in answered

\* While runs have never overlapped a row only moves forward: processed is
\* final and retryCount never shrinks.
RowAdvances(m) ==
  Stored(m) /\ outbox'[m] # NoRow =>
    /\ outbox[m].processed => outbox'[m].processed
    /\ outbox[m].retryCount <= outbox'[m].retryCount

RowsAdvance == [][~ overlapped' => \A m \in Ids : RowAdvances(m)]_vars

\* While runs have never overlapped every publish but the unrecorded ones of a
\* fault is accounted for by the retry limit.
AttemptsAccounted ==
  ~ overlapped => \A m \in Ids : attempts[m] <= MaxRetries + faults

\* A message is settled once it is processed or its retries are used up.
Settled(m) ==
  Stored(m) => outbox[m].processed \/ outbox[m].retryCount >= MaxRetries

\* Every message created is settled sooner or later, and for good: older
\* messages that keep failing give up their place in the batch, and the runs
\* cannot undo each other's progress for ever.
EveryMessageSettles ==
  \A m \in Ids : created >= m ~> [](Settled(m))

-----------------------------------------------------------------------------
(* The inductive invariant behind the invariants that hold for any number  *)
(* of overlapping runs: what a stale copy may still claim.                 *)

CopiesClaimTruth ==
  \A r \in Relays : \A m \in Held(r) :
    /\ copy[r][m].processed => m \in answered
    /\ copy[r][m].retryCount <= attempts[m]

\* The publish just made is not counted as a retry yet.
AttemptPending ==
  \A r \in Relays : pc[r] = "saveDone" =>
    \A m \in Ids : IsCurrent(r, m) => copy[r][m].retryCount < attempts[m]

RelayInv ==
  /\ TypeOK
  /\ ProcessedWasPublished
  /\ RetriesWereAttempted
  /\ UnpublishedStaysStored
  /\ CopiesClaimTruth
  /\ AttemptPending
=============================================================================
