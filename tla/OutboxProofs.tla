---------------------------- MODULE OutboxProofs ----------------------------
(***************************************************************************)
(* TLAPS proofs about Outbox for any number of overlapping relay runs, any *)
(* retry limit and batch size, and any number of faults; and what besides  *)
(* holds while no two runs overlap.                                        *)
(***************************************************************************)
EXTENDS Outbox, TLAPS

(* What one step does to the copies of a run: the entity being worked on   *)
(* changes to x and every other copy, of this run and of the others, stays.*)
LEMMA OneCopyChanges ==
  ASSUME TypeOK, NEW r \in Relays, NEW m \in Ids, NEW x \in Row \cup {NoRow},
         copy' = [copy EXCEPT ![r][m] = x]
  PROVE  /\ copy' \in [Relays -> [Ids -> Row \cup {NoRow}]]
         /\ copy'[r][m] = x
         /\ \A k \in Ids : k # m => copy'[r][k] = copy[r][k]
         /\ \A s \in Relays : s # r => copy'[s] = copy[s]
BY DEF TypeOK

(* Leaving a run forgets its copies and leaves the other runs alone.       *)
LEMMA AbandonForgets ==
  ASSUME TypeOK, NEW r \in Relays, Abandon(r)
  PROVE  /\ copy' \in [Relays -> [Ids -> Row \cup {NoRow}]]
         /\ pc' \in [Relays -> {"idle", "publish", "saveDone", "saveError"}]
         /\ pc'[r] = "idle"
         /\ \A k \in Ids : copy'[r][k] = NoRow
         /\ \A s \in Relays : s # r => copy'[s] = copy[s] /\ pc'[s] = pc[s]
BY DEF Abandon, TypeOK

(* The entity a run works on is a row, and marking it or counting a retry  *)
(* on it gives a row.                                                      *)
LEMMA CurrentIsRow ==
  ASSUME TypeOK, NEW r \in Relays, NEW m \in Ids, IsCurrent(r, m)
  PROVE  /\ copy[r][m] \in Row
         /\ [copy[r][m] EXCEPT !.processed = TRUE] \in Row
         /\ [copy[r][m] EXCEPT !.retryCount = @ + 1] \in Row
<1>1. copy[r][m] \in Row
  BY DEF TypeOK, IsCurrent, Held
<1>2. [copy[r][m] EXCEPT !.processed = TRUE] \in Row
  BY <1>1 DEF Row
<1>3. copy[r][m].retryCount + 1 \in Nat
  BY <1>1 DEF Row
<1>4. [copy[r][m] EXCEPT !.retryCount = copy[r][m].retryCount + 1] \in Row
  BY <1>1, <1>3 DEF Row
<1>5. QED
  BY <1>1, <1>2, <1>4

-----------------------------------------------------------------------------
(* Type correctness.                                                       *)
LEMMA InitTyped == Init => TypeOK
<1> SUFFICES ASSUME Init PROVE TypeOK
  OBVIOUS
<1>1. /\ created \in 0..MaxMessages
      /\ faults \in Nat
  BY ConstantsAreNumbers DEF Init
<1>2. overlapped \in BOOLEAN /\ answered \subseteq Ids
  BY Zenon DEF Init
<1>3. /\ outbox \in [Ids -> Row \cup {NoRow}]
      /\ pc \in [Relays -> {"idle", "publish", "saveDone", "saveError"}]
      /\ copy \in [Relays -> [Ids -> Row \cup {NoRow}]]
      /\ attempts \in [Ids -> Nat]
  BY DEF Init
<1>4. QED
  BY <1>1, <1>2, <1>3, Zenon DEF TypeOK

\* Every step of the relays and the database keeps the types.
LEMMA TypeStep == TypeOK /\ [Next]_vars => TypeOK'
<1> SUFFICES ASSUME TypeOK, [Next]_vars PROVE TypeOK'
  OBVIOUS
<1> USE ConstantsAreNumbers
<1>1. CASE Create
  <2>1. [processed |-> FALSE, retryCount |-> 0] \in Row
    BY DEF Row
  <2>2. QED
    BY <1>1, <2>1 DEF Create, TypeOK, Ids
<1>2. ASSUME NEW r \in Relays, FindBatch(r) PROVE TypeOK'
  BY <1>2 DEF FindBatch, TypeOK
<1>3. ASSUME NEW r \in Relays, PublishAccepted(r) PROVE TypeOK'
  <2>1. PICK m \in Ids :
          /\ IsCurrent(r, m)
          /\ attempts' = [attempts EXCEPT ![m] = @ + 1]
          /\ answered' = answered \cup {m}
          /\ copy' = [copy EXCEPT ![r][m] = [copy[r][m] EXCEPT !.processed = TRUE]]
    BY <1>3 DEF PublishAccepted, MarkProcessed, TypeOK
  <2>2. copy' \in [Relays -> [Ids -> Row \cup {NoRow}]]
    BY <2>1, CurrentIsRow, OneCopyChanges
  <2>3. QED
    BY <1>3, <2>1, <2>2 DEF PublishAccepted, TypeOK
<1>4. ASSUME NEW r \in Relays, PublishRefused(r) PROVE TypeOK'
  <2>1. PICK m \in Ids :
          /\ IsCurrent(r, m)
          /\ attempts' = [attempts EXCEPT ![m] = @ + 1]
          /\ copy' = [copy EXCEPT ![r][m] = [copy[r][m] EXCEPT !.retryCount = @ + 1]]
    BY <1>4 DEF PublishRefused, CountRetry, TypeOK
  <2>2. copy' \in [Relays -> [Ids -> Row \cup {NoRow}]]
    BY <2>1, CurrentIsRow, OneCopyChanges
  <2>3. QED
    BY <1>4, <2>1, <2>2 DEF PublishRefused, TypeOK
<1>5. ASSUME NEW r \in Relays, Save(r) PROVE TypeOK'
  BY <1>5 DEF Save, WriteBack, Advance, TypeOK
<1>6. ASSUME NEW r \in Relays, SaveDoneFails(r) PROVE TypeOK'
  <2>1. PICK m \in Ids :
          /\ IsCurrent(r, m)
          /\ copy' = [copy EXCEPT ![r][m] = [copy[r][m] EXCEPT !.retryCount = @ + 1]]
    BY <1>6 DEF SaveDoneFails, CountRetry, TypeOK
  <2>2. copy' \in [Relays -> [Ids -> Row \cup {NoRow}]]
    BY <2>1, CurrentIsRow, OneCopyChanges
  <2>3. /\ pc' = [pc EXCEPT ![r] = "saveError"] /\ faults' = faults + 1
        /\ UNCHANGED <<created, outbox, attempts, answered, overlapped>>
    BY <1>6 DEF SaveDoneFails
  <2>4. QED
    BY <2>2, <2>3 DEF TypeOK
<1>7. ASSUME NEW r \in Relays, SaveErrorFails(r) \/ Crash(r) PROVE TypeOK'
  <2>1. Abandon(r) /\ faults' = faults + 1
        /\ UNCHANGED <<created, outbox, attempts, answered, overlapped>>
    BY <1>7 DEF SaveErrorFails, Crash
  <2>2. QED
    BY <2>1, AbandonForgets DEF TypeOK
<1>8. CASE CleanupOldMessages
  BY <1>8 DEF CleanupOldMessages, TypeOK
<1>9. ASSUME NEW r \in Relays, FindNothing(r) PROVE TypeOK'
  BY <1>9 DEF FindNothing, vars, TypeOK
<1>10. CASE UNCHANGED vars
  BY <1>10 DEF vars, TypeOK
<1>11. QED
  BY <1>1, <1>2, <1>3, <1>4, <1>5, <1>6, <1>7, <1>8, <1>9, <1>10 DEF Next, Run

(* The table, the copies of every run and the history counters always have *)
(* their types.                                                            *)
THEOREM TypeCorrect == Spec => []TypeOK
<1>1. QED
  BY InitTyped, TypeStep, PTL DEF Spec

-----------------------------------------------------------------------------
(* The relay invariant, one lemma per action that disturbs it.             *)

\* A relay reads its batch.
LEMMA FindBatchStep ==
  ASSUME RelayInv, TypeOK', NEW r \in Relays, FindBatch(r)
  PROVE  RelayInv'
<1>1. /\ UNCHANGED <<created, outbox, attempts, answered>>
      /\ pc'[r] = "publish"
      /\ \A s \in Relays : s # r => pc'[s] = pc[s] /\ copy'[s] = copy[s]
      /\ \A m \in Ids : copy'[r][m] = IF m \in Batch THEN outbox[m] ELSE NoRow
  BY DEF FindBatch, RelayInv, TypeOK
<1>2. ProcessedWasPublished' /\ RetriesWereAttempted' /\ UnpublishedStaysStored'
  BY <1>1 DEF RelayInv, ProcessedWasPublished, RetriesWereAttempted,
              UnpublishedStaysStored, Stored
<1>3. \A m \in Ids : copy'[r][m] # NoRow =>
        /\ copy'[r][m].processed => m \in answered
        /\ copy'[r][m].retryCount <= attempts[m]
  BY <1>1 DEF RelayInv, ProcessedWasPublished, RetriesWereAttempted, Batch,
              Eligible, Stored
<1>4. CopiesClaimTruth'
  BY <1>1, <1>3 DEF RelayInv, CopiesClaimTruth, Held
<1>5. AttemptPending'
  BY <1>1 DEF RelayInv, AttemptPending, IsCurrent, Held
<1>6. QED
  BY <1>2, <1>4, <1>5 DEF RelayInv

(* A publish, whatever its answer: the attempt is counted, the entity of   *)
(* the calling run becomes x and nothing else moves.                       *)
LEMMA PublishStep ==
  ASSUME RelayInv, TypeOK', NEW r \in Relays, NEW m \in Ids, IsCurrent(r, m),
         NEW x \in Row,
         copy' = [copy EXCEPT ![r][m] = x],
         attempts' = [attempts EXCEPT ![m] = @ + 1],
         answered \subseteq answered',
         x.processed => m \in answered',
         x.retryCount <= attempts[m] + 1,
         pc'[r] = "saveDone" => x.retryCount <= attempts[m],
         \A s \in Relays : s # r => pc'[s] = pc[s],
         UNCHANGED <<created, outbox>>
  PROVE  RelayInv'
<1>1. TypeOK
  BY DEF RelayInv
<1>2. /\ copy'[r][m] = x
      /\ \A k \in Ids : k # m => copy'[r][k] = copy[r][k]
      /\ \A s \in Relays : s # r => copy'[s] = copy[s]
  BY <1>1, OneCopyChanges
<1>3. /\ \A k \in Ids : attempts[k] \in Nat /\ attempts'[k] \in Nat
      /\ attempts'[m] = attempts[m] + 1
      /\ \A k \in Ids : attempts[k] <= attempts'[k]
  BY <1>1 DEF TypeOK
<1>4. /\ \A k \in Ids : Stored(k) => outbox[k].retryCount \in Nat
      /\ \A s \in Relays : \A k \in Held(s) : copy[s][k].retryCount \in Nat
      /\ x.retryCount \in Nat
  BY <1>1 DEF TypeOK, Row, Stored, Held
<1>5. ProcessedWasPublished' /\ UnpublishedStaysStored'
  BY DEF RelayInv, ProcessedWasPublished, UnpublishedStaysStored, Stored
<1>6. RetriesWereAttempted'
  BY <1>3, <1>4 DEF RelayInv, RetriesWereAttempted, Stored
<1>7. ASSUME NEW s \in Relays, NEW k \in Ids, copy'[s][k] # NoRow
      PROVE  /\ copy'[s][k].processed => k \in answered'
             /\ copy'[s][k].retryCount <= attempts'[k]
  <2>1. CASE s = r /\ k = m
    BY <2>1, <1>2, <1>3
  <2>2. CASE ~ (s = r /\ k = m)
    <3>1. copy'[s][k] = copy[s][k] /\ k \in Held(s)
      BY <2>2, <1>2, <1>7 DEF Held
    <3>2. QED
      BY <3>1, <1>3, <1>4 DEF RelayInv, CopiesClaimTruth
  <2>3. QED
    BY <2>1, <2>2
<1>8. CopiesClaimTruth'
  BY <1>7 DEF CopiesClaimTruth, Held
<1>9. AttemptPending'
  <2> SUFFICES ASSUME NEW s \in Relays, pc'[s] = "saveDone",
                      NEW k \in Ids, IsCurrent(s, k)'
               PROVE  copy'[s][k].retryCount < attempts'[k]
    BY DEF AttemptPending
  <2>1. CASE s = r
    <3>1. NoRow # x
      BY NoRowIsNoRow
    <3>2. Held(r)' = Held(r)
      BY <1>2, <3>1 DEF Held, IsCurrent
    <3>3. k = m
      BY <2>1, <3>2 DEF IsCurrent, Held, Ids
    <3>4. QED
      BY <2>1, <3>3, <1>2, <1>3, <1>4
  <2>2. CASE s # r
    <3>1. pc[s] = "saveDone" /\ IsCurrent(s, k) /\ copy'[s] = copy[s]
      BY <2>2, <1>2 DEF IsCurrent, Held
    <3>2. copy[s][k].retryCount < attempts[k] /\ k \in Held(s)
      BY <3>1 DEF RelayInv, AttemptPending, IsCurrent
    <3>3. QED
      BY <3>1, <3>2, <1>3, <1>4
  <2>3. QED
    BY <2>1, <2>2
<1>10. QED
  BY <1>5, <1>6, <1>8, <1>9 DEF RelayInv

\* A relay saves what it has done with a message.
LEMMA SaveStep ==
  ASSUME RelayInv, TypeOK', NEW r \in Relays, Save(r)
  PROVE  RelayInv'
<1>1. TypeOK
  BY DEF RelayInv
<1>2. PICK m \in Ids : IsCurrent(r, m) /\ WriteBack(r, m) /\ Advance(r, m)
  BY DEF Save
<1>3. m \in Held(r) /\ copy[r][m] \in Row
  BY <1>1, <1>2, CurrentIsRow DEF IsCurrent
<1>4. /\ outbox'[m] = copy[r][m]
      /\ \A k \in Ids : k # m => outbox'[k] = outbox[k]
      /\ UNCHANGED <<created, attempts, answered>>
  BY <1>1, <1>2 DEF WriteBack, Save, TypeOK
<1>5. /\ copy'[r][m] = NoRow
      /\ \A k \in Ids : k # m => copy'[r][k] = copy[r][k]
      /\ \A s \in Relays : s # r => copy'[s] = copy[s]
  BY <1>1, <1>2, OneCopyChanges DEF Advance
<1>6. /\ pc'[r] # "saveDone"
      /\ \A s \in Relays : s # r => pc'[s] = pc[s]
  BY <1>1, <1>2 DEF Advance, TypeOK
<1>7. /\ copy[r][m].processed => m \in answered
      /\ copy[r][m].retryCount <= attempts[m]
  BY <1>3 DEF RelayInv, CopiesClaimTruth
<1>8. ProcessedWasPublished'
  BY <1>4, <1>7 DEF RelayInv, ProcessedWasPublished, Stored
<1>9. RetriesWereAttempted'
  BY <1>4, <1>7 DEF RelayInv, RetriesWereAttempted, Stored
<1>10. UnpublishedStaysStored'
  <2>1. outbox'[m] # NoRow
    BY <1>3, <1>4, NoRowIsNoRow
  <2>2. \A k \in 1..created : k \in Ids
    BY <1>1, ConstantsAreNumbers DEF TypeOK, Ids
  <2>3. QED
    BY <2>1, <2>2, <1>4 DEF RelayInv, UnpublishedStaysStored, Stored
<1>11. CopiesClaimTruth'
  BY <1>4, <1>5 DEF RelayInv, CopiesClaimTruth, Held
<1>12. AttemptPending'
  BY <1>4, <1>5, <1>6 DEF RelayInv, AttemptPending, IsCurrent, Held
<1>13. QED
  BY <1>8, <1>9, <1>10, <1>11, <1>12 DEF RelayInv

(* The catch block after a failed save: the attempt that AttemptPending    *)
(* kept in hand pays for the retry counted now.                            *)
LEMMA SaveDoneFailsStep ==
  ASSUME RelayInv, TypeOK', NEW r \in Relays, SaveDoneFails(r)
  PROVE  RelayInv'
<1>1. TypeOK
  BY DEF RelayInv
<1>2. PICK m \in Ids :
        /\ IsCurrent(r, m)
        /\ copy' = [copy EXCEPT ![r][m] = [copy[r][m] EXCEPT !.retryCount = @ + 1]]
  BY <1>1 DEF SaveDoneFails, CountRetry, TypeOK
<1> DEFINE x == [copy[r][m] EXCEPT !.retryCount = @ + 1]
<1>3. copy[r][m] \in Row /\ x \in Row /\ m \in Held(r)
  BY <1>1, <1>2, CurrentIsRow DEF IsCurrent
<1>4. /\ copy'[r][m] = x
      /\ \A k \in Ids : k # m => copy'[r][k] = copy[r][k]
      /\ \A s \in Relays : s # r => copy'[s] = copy[s]
  BY <1>1, <1>2, <1>3, OneCopyChanges
<1>5. /\ UNCHANGED <<created, outbox, attempts, answered>>
      /\ pc'[r] # "saveDone"
      /\ \A s \in Relays : s # r => pc'[s] = pc[s]
  BY <1>1 DEF SaveDoneFails, TypeOK
<1>6. /\ x.processed = copy[r][m].processed
      /\ x.retryCount = copy[r][m].retryCount + 1
      /\ copy[r][m].retryCount \in Nat /\ attempts[m] \in Nat
  BY <1>1, <1>3 DEF Row, TypeOK
<1>7. copy[r][m].retryCount < attempts[m]
  BY <1>2 DEF SaveDoneFails, RelayInv, AttemptPending
<1>8. /\ x.processed => m \in answered
      /\ x.retryCount <= attempts[m]
  BY <1>3, <1>6, <1>7 DEF RelayInv, CopiesClaimTruth
<1>9. ProcessedWasPublished' /\ RetriesWereAttempted' /\ UnpublishedStaysStored'
  BY <1>5 DEF RelayInv, ProcessedWasPublished, RetriesWereAttempted,
              UnpublishedStaysStored, Stored
<1>10. CopiesClaimTruth'
  <2> SUFFICES ASSUME NEW s \in Relays, NEW k \in Ids, copy'[s][k] # NoRow
               PROVE  /\ copy'[s][k].processed => k \in answered
                      /\ copy'[s][k].retryCount <= attempts[k]
    BY <1>5 DEF CopiesClaimTruth, Held
  <2>1. CASE s = r /\ k = m
    BY <2>1, <1>4, <1>8
  <2>2. CASE ~ (s = r /\ k = m)
    <3>1. copy'[s][k] = copy[s][k]
      BY <2>2, <1>4
    <3>2. QED
      BY <3>1 DEF RelayInv, CopiesClaimTruth, Held
  <2>3. QED
    BY <2>1, <2>2
<1>11. AttemptPending'
  BY <1>4, <1>5 DEF RelayInv, AttemptPending, IsCurrent, Held
<1>12. QED
  BY <1>9, <1>10, <1>11 DEF RelayInv

\* A relay that gives up or crashes drops what it held.
LEMMA AbandonStep ==
  ASSUME RelayInv, TypeOK', NEW r \in Relays, Abandon(r),
         UNCHANGED <<created, outbox, attempts, answered>>
  PROVE  RelayInv'
<1>1. /\ pc'[r] = "idle"
      /\ \A k \in Ids : copy'[r][k] = NoRow
      /\ \A s \in Relays : s # r => copy'[s] = copy[s] /\ pc'[s] = pc[s]
  BY AbandonForgets DEF RelayInv
<1>2. ProcessedWasPublished' /\ RetriesWereAttempted' /\ UnpublishedStaysStored'
  BY DEF RelayInv, ProcessedWasPublished, RetriesWereAttempted,
         UnpublishedStaysStored, Stored
<1>3. CopiesClaimTruth'
  BY <1>1 DEF RelayInv, CopiesClaimTruth, Held
<1>4. AttemptPending'
  BY <1>1 DEF RelayInv, AttemptPending, IsCurrent, Held
<1>5. QED
  BY <1>2, <1>3, <1>4 DEF RelayInv

\* A transaction adds its message.
LEMMA CreateStep ==
  ASSUME RelayInv, TypeOK', Create
  PROVE  RelayInv'
<1>1. TypeOK
  BY DEF RelayInv
<1>2. /\ created + 1 \in Ids
      /\ 1..created' = 1..created \cup {created + 1}
      /\ 1..created \subseteq Ids
  BY <1>1, ConstantsAreNumbers DEF Create, TypeOK, Ids
<1>3. /\ outbox'[created + 1] = [processed |-> FALSE, retryCount |-> 0]
      /\ \A k \in Ids : k # created + 1 => outbox'[k] = outbox[k]
      /\ UNCHANGED <<pc, copy, attempts, answered>>
  BY <1>1, <1>2 DEF Create, TypeOK
<1>4. \A k \in Ids : 0 <= attempts[k]
  BY <1>1 DEF TypeOK
<1>5. ProcessedWasPublished' /\ RetriesWereAttempted'
  BY <1>3, <1>4 DEF RelayInv, ProcessedWasPublished, RetriesWereAttempted, Stored
<1>6. UnpublishedStaysStored'
  <2>1. [processed |-> FALSE, retryCount |-> 0] # NoRow
    <3>1. [processed |-> FALSE, retryCount |-> 0] \in Row
      BY DEF Row
    <3>2. QED
      BY <3>1, NoRowIsNoRow
  <2>2. QED
    BY <2>1, <1>2, <1>3 DEF RelayInv, UnpublishedStaysStored, Stored
<1>7. CopiesClaimTruth' /\ AttemptPending'
  BY <1>3 DEF RelayInv, CopiesClaimTruth, AttemptPending, IsCurrent, Held
<1>8. QED
  BY <1>5, <1>6, <1>7 DEF RelayInv

\* The cleanup deletes published messages only.
LEMMA CleanupStep ==
  ASSUME RelayInv, TypeOK', CleanupOldMessages
  PROVE  RelayInv'
<1>1. PICK old \in SUBSET Removable :
        /\ outbox' = [m \in Ids |-> IF m \in old THEN NoRow ELSE outbox[m]]
        /\ UNCHANGED <<created, pc, copy, attempts, answered>>
  BY DEF CleanupOldMessages
<1>2. ProcessedWasPublished' /\ RetriesWereAttempted'
  BY <1>1 DEF RelayInv, ProcessedWasPublished, RetriesWereAttempted, Stored
<1>3. \A m \in old : m \in answered
  BY DEF Removable, RelayInv, ProcessedWasPublished
<1>4. \A m \in 1..created : m \in Ids
  BY ConstantsAreNumbers DEF RelayInv, TypeOK, Ids
<1>5. UnpublishedStaysStored'
  BY <1>1, <1>3, <1>4 DEF RelayInv, UnpublishedStaysStored, Stored
<1>6. CopiesClaimTruth' /\ AttemptPending'
  BY <1>1 DEF RelayInv, CopiesClaimTruth, AttemptPending, IsCurrent, Held
<1>7. QED
  BY <1>2, <1>5, <1>6 DEF RelayInv

\* Every step keeps the accounts of the relays.
LEMMA RelayStep == RelayInv /\ [Next]_vars => RelayInv'
<1> SUFFICES ASSUME RelayInv, [Next]_vars PROVE RelayInv'
  OBVIOUS
<1>1. TypeOK /\ TypeOK'
  BY TypeStep DEF RelayInv
<1>2. ASSUME NEW r \in Relays, PublishAccepted(r) PROVE RelayInv'
  <2>1. PICK m \in Ids :
          /\ IsCurrent(r, m)
          /\ attempts' = [attempts EXCEPT ![m] = @ + 1]
          /\ answered' = answered \cup {m}
          /\ copy' = [copy EXCEPT ![r][m] = [copy[r][m] EXCEPT !.processed = TRUE]]
    BY <1>1, <1>2 DEF PublishAccepted, MarkProcessed, TypeOK
  <2>2. PICK x \in Row : x = [copy[r][m] EXCEPT !.processed = TRUE]
    BY <1>1, <2>1, CurrentIsRow
  <2>3. copy[r][m] \in Row /\ m \in Held(r)
    BY <1>1, <2>1, CurrentIsRow DEF IsCurrent
  <2>4. x.retryCount <= attempts[m]
    BY <2>2, <2>3 DEF RelayInv, CopiesClaimTruth, Row
  <2>5. x.retryCount \in Nat /\ attempts[m] \in Nat
    BY <1>1 DEF TypeOK, Row
  <2>6. /\ UNCHANGED <<created, outbox>>
        /\ \A s \in Relays : s # r => pc'[s] = pc[s]
    BY <1>1, <1>2 DEF PublishAccepted, TypeOK
  <2>7. /\ x.retryCount <= attempts[m] + 1
        /\ x.processed => m \in answered'
        /\ answered \subseteq answered'
    BY <2>1, <2>4, <2>5
  <2>8. QED
    BY <1>1, <2>1, <2>2, <2>4, <2>6, <2>7, PublishStep
<1>3. ASSUME NEW r \in Relays, PublishRefused(r) PROVE RelayInv'
  <2>1. PICK m \in Ids :
          /\ IsCurrent(r, m)
          /\ attempts' = [attempts EXCEPT ![m] = @ + 1]
          /\ copy' = [copy EXCEPT ![r][m] = [copy[r][m] EXCEPT !.retryCount = @ + 1]]
    BY <1>1, <1>3 DEF PublishRefused, CountRetry, TypeOK
  <2>2. PICK x \in Row : x = [copy[r][m] EXCEPT !.retryCount = @ + 1]
    BY <1>1, <2>1, CurrentIsRow
  <2>3. copy[r][m] \in Row /\ m \in Held(r)
    BY <1>1, <2>1, CurrentIsRow DEF IsCurrent
  <2>4. /\ x.processed = copy[r][m].processed
        /\ x.retryCount = copy[r][m].retryCount + 1
        /\ copy[r][m].retryCount \in Nat /\ attempts[m] \in Nat
    BY <1>1, <2>2, <2>3 DEF Row, TypeOK
  <2>5. /\ x.processed => m \in answered
        /\ x.retryCount <= attempts[m] + 1
    BY <2>3, <2>4 DEF RelayInv, CopiesClaimTruth
  <2>6. /\ UNCHANGED <<created, outbox, answered>>
        /\ pc'[r] = "saveError"
        /\ \A s \in Relays : s # r => pc'[s] = pc[s]
    BY <1>1, <1>3 DEF PublishRefused, TypeOK
  <2>7. QED
    BY <1>1, <2>1, <2>2, <2>5, <2>6, PublishStep
<1>4. ASSUME NEW r \in Relays, SaveErrorFails(r) \/ Crash(r) PROVE RelayInv'
  BY <1>1, <1>4, AbandonStep DEF SaveErrorFails, Crash
<1>5. ASSUME UNCHANGED vars PROVE RelayInv'
  BY <1>5, <1>1 DEF vars, RelayInv, ProcessedWasPublished, RetriesWereAttempted,
         UnpublishedStaysStored, CopiesClaimTruth, AttemptPending, IsCurrent,
         Held, Stored
<1>6. ASSUME NEW r \in Relays, FindNothing(r) PROVE RelayInv'
  BY <1>5, <1>6 DEF FindNothing
<1>7. QED
  BY <1>1, <1>2, <1>3, <1>4, <1>5, <1>6, FindBatchStep, SaveStep,
     SaveDoneFailsStep, CreateStep, CleanupStep DEF Next, Run

\* The relays hold what the table had.
LEMMA RelayInvariant == Spec => []RelayInv
<1>1. Init => RelayInv
  BY InitTyped, ConstantsAreNumbers DEF Init, RelayInv, ProcessedWasPublished,
     RetriesWereAttempted, UnpublishedStaysStored, CopiesClaimTruth,
     AttemptPending, Held, Stored, Ids
<1>2. QED
  BY <1>1, RelayStep, PTL DEF Spec

(* However many runs overlap and fail, a row marked processed was handed   *)
(* to the broker, and no message is given up after fewer publishes than    *)
(* its retry count says.                                                   *)
THEOREM RowsAreTrue == Spec => []RowsTellTruth
<1>1. RelayInv => RowsTellTruth
  BY DEF RelayInv, RowsTellTruth
<1>2. QED
  BY <1>1, RelayInvariant, PTL

(* A created message stays in the table until it was handed to the broker, *)
(* the daily clean-up included.                                            *)
THEOREM NoMessageVanishes == Spec => []UnpublishedStaysStored
<1>1. RelayInv => UnpublishedStaysStored
  BY DEF RelayInv
<1>2. QED
  BY <1>1, RelayInvariant, PTL

-----------------------------------------------------------------------------
(* While no two runs have been in progress together.                       *)

\* A publish whose outcome run r has still to save.
Saving(r, m) == pc[r] \in {"saveDone", "saveError"} /\ IsCurrent(r, m)

LoneRun ==
  /\ \A r, s \in Relays : pc[r] # "idle" /\ pc[s] # "idle" => r = s
  /\ \A r \in Relays : pc[r] = "idle" => Held(r) = {}

\* A copy is the row as it is, but for the publish just made.
CopiesAreFresh ==
  \A r \in Relays : \A m \in Held(r) :
    /\ Stored(m) /\ ~outbox[m].processed /\ outbox[m].retryCount < MaxRetries
    /\ IF ~ Saving(r, m) THEN copy[r][m] = outbox[m]
       ELSE IF pc[r] = "saveDone"
       THEN copy[r][m].processed /\ copy[r][m].retryCount = outbox[m].retryCount
       ELSE copy[r][m].retryCount = outbox[m].retryCount + 1

\* Every publish is a retry the row counts, a fault, or the one not saved yet.
AttemptsCounted ==
  \A m \in Ids :
    /\ m > created => outbox[m] = NoRow /\ attempts[m] = 0
    /\ attempts[m] <= MaxRetries + faults
    /\ Stored(m) /\ ~outbox[m].processed =>
         /\ attempts[m] <= outbox[m].retryCount + faults + 1
         /\ (\A r \in Relays : ~ Saving(r, m)) => attempts[m] <= outbox[m].retryCount + faults

Alone == LoneRun /\ CopiesAreFresh /\ AttemptsCounted

LoneInv == TypeOK /\ (~overlapped => Alone)

\* While a run is in progress the others hold nothing.
LEMMA OthersAreIdle ==
  ASSUME LoneRun, NEW r \in Relays, pc[r] # "idle"
  PROVE  \A s \in Relays \ {r} :
           pc[s] = "idle" /\ Held(s) = {} /\ \A k \in Ids : ~Saving(s, k)
BY DEF LoneRun, Saving

\* A run works on one message at a time.
LEMMA OneIsCurrent ==
  ASSUME NEW r \in Relays, NEW m \in Ids, NEW k \in Ids, IsCurrent(r, m), IsCurrent(r, k)
  PROVE  m = k
BY ConstantsAreNumbers DEF IsCurrent, Held, Ids

\* Numbers are numbers.
LEMMA LoneNumbers ==
  ASSUME TypeOK
  PROVE  /\ created \in Nat /\ faults \in Nat /\ MaxRetries \in Nat /\ MaxMessages \in Nat
         /\ \A m \in Ids : m \in Nat /\ attempts[m] \in Nat
         /\ \A m \in Ids : Stored(m) => outbox[m] \in Row /\ outbox[m].retryCount \in Nat
         /\ \A r \in Relays : \A m \in Held(r) :
              m \in Ids /\ copy[r][m] \in Row /\ copy[r][m].retryCount \in Nat
BY ConstantsAreNumbers DEF TypeOK, Ids, Stored, Held, Row

\* The run in progress moves on within one message: its copy of m becomes x.
LEMMA CopyMoves ==
  ASSUME TypeOK, LoneRun, CopiesAreFresh, NEW r \in Relays, NEW m \in Ids,
         pc[r] # "idle", IsCurrent(r, m),
         pc[r] = "publish" \/ Saving(r, m),
         NEW x \in Row, copy' = [copy EXCEPT ![r][m] = x],
         pc'[r] \in {"saveDone", "saveError"},
         \A s \in Relays \ {r} : pc'[s] = pc[s],
         pc'[r] = "saveDone" => x.processed /\ x.retryCount = outbox[m].retryCount,
         pc'[r] = "saveError" => x.retryCount = outbox[m].retryCount + 1,
         UNCHANGED outbox
  PROVE  /\ LoneRun' /\ CopiesAreFresh'
         /\ Saving(r, m)'
         /\ \A s \in Relays, k \in Ids : Saving(s, k)' => s = r /\ k = m
<1>1. /\ copy'[r][m] = x /\ x # NoRow
      /\ \A k \in Ids \ {m} : copy'[r][k] = copy[r][k]
      /\ \A s \in Relays \ {r} : copy'[s] = copy[s]
  BY OneCopyChanges, NoRowIsNoRow
<1>2. \A s \in Relays : Held(s)' = Held(s)
  BY <1>1 DEF Held, IsCurrent
<1>3. \A s \in Relays, k \in Ids : IsCurrent(s, k)' <=> IsCurrent(s, k)
  BY <1>2 DEF IsCurrent
<1>4. Saving(r, m)'
  BY <1>3 DEF Saving
<1>5. \A s \in Relays, k \in Ids : Saving(s, k)' => s = r /\ k = m
  BY <1>3, OthersAreIdle, OneIsCurrent DEF Saving
<1>6. LoneRun'
  BY <1>2, OthersAreIdle DEF LoneRun
<1>7. CopiesAreFresh'
  <2> SUFFICES ASSUME NEW s \in Relays, NEW k \in Held(s)
               PROVE  /\ Stored(k) /\ ~outbox[k].processed
                      /\ outbox[k].retryCount < MaxRetries
                      /\ IF ~ Saving(s, k)' THEN copy'[s][k] = outbox[k]
                         ELSE IF pc'[s] = "saveDone"
                         THEN copy'[s][k].processed /\ copy'[s][k].retryCount = outbox[k].retryCount
                         ELSE copy'[s][k].retryCount = outbox[k].retryCount + 1
    BY <1>2 DEF CopiesAreFresh, Stored
  <2>1. s = r /\ k \in Ids
    BY OthersAreIdle DEF Held
  <2>2. /\ Stored(k) /\ ~outbox[k].processed /\ outbox[k].retryCount < MaxRetries
        /\ ~Saving(r, k) => copy[r][k] = outbox[k]
    BY <2>1 DEF CopiesAreFresh
  <2>3. CASE k = m
    BY <1>1, <1>4, <2>1, <2>2, <2>3
  <2>4. CASE k # m
    <3>1. ~Saving(r, k) /\ ~Saving(r, k)'
      BY <1>5, <2>1, <2>4, OneIsCurrent DEF Saving
    <3> QED
      BY <1>1, <2>1, <2>2, <2>4, <3>1
  <2> QED
    BY <2>3, <2>4
<1> QED
  BY <1>4, <1>5, <1>6, <1>7

\* A publish counts an attempt that is not saved yet.
LEMMA LonePublish ==
  ASSUME LoneInv, TypeOK', NEW r \in Relays, PublishAccepted(r) \/ PublishRefused(r)
  PROVE  LoneInv'
<1> SUFFICES ASSUME ~overlapped' PROVE Alone'
  BY DEF LoneInv
<1>1. /\ TypeOK /\ ~overlapped /\ Alone /\ pc[r] = "publish"
      /\ UNCHANGED <<created, outbox, faults>>
  BY DEF LoneInv, PublishAccepted, PublishRefused
<1>2. PICK m \in Ids :
        /\ IsCurrent(r, m) /\ attempts' = [attempts EXCEPT ![m] = @ + 1]
        /\ PublishAccepted(r) => MarkProcessed(r, m)
        /\ PublishRefused(r) => CountRetry(r, m)
  <2>1. CASE PublishAccepted(r)
    <3>1. pc'[r] = "saveDone"
      BY <1>1, <2>1 DEF PublishAccepted, TypeOK
    <3>2. ~PublishRefused(r)
      BY <1>1, <3>1 DEF PublishRefused, TypeOK
    <3> QED
      BY <2>1, <3>2 DEF PublishAccepted
  <2>2. CASE PublishRefused(r)
    <3>1. pc'[r] = "saveError"
      BY <1>1, <2>2 DEF PublishRefused, TypeOK
    <3>2. ~PublishAccepted(r)
      BY <1>1, <3>1 DEF PublishAccepted, TypeOK
    <3> QED
      BY <2>2, <3>2 DEF PublishRefused
  <2> QED
    BY <2>1, <2>2
<1>3. /\ m \in Held(r) /\ copy[r][m] \in Row /\ ~Saving(r, m)
      /\ copy[r][m] = outbox[m] /\ ~outbox[m].processed
      /\ outbox[m].retryCount < MaxRetries /\ Stored(m)
  <2>1. m \in Held(r) /\ copy[r][m] \in Row /\ ~Saving(r, m)
    BY <1>1, <1>2, CurrentIsRow DEF IsCurrent, Saving
  <2> QED
    BY <1>1, <2>1 DEF Alone, CopiesAreFresh
<1>4. PICK x \in Row :
        /\ copy' = [copy EXCEPT ![r][m] = x]
        /\ pc'[r] \in {"saveDone", "saveError"}
        /\ pc'[r] = "saveDone" => x.processed /\ x.retryCount = outbox[m].retryCount
        /\ pc'[r] = "saveError" => x.retryCount = outbox[m].retryCount + 1
  <2>1. CASE PublishAccepted(r)
    <3> DEFINE x == [copy[r][m] EXCEPT !.processed = TRUE]
    <3>1. copy' = [copy EXCEPT ![r][m] = x] /\ pc'[r] = "saveDone"
      BY <1>1, <1>2, <2>1 DEF PublishAccepted, MarkProcessed, TypeOK
    <3>2. x \in Row /\ x.processed /\ x.retryCount = outbox[m].retryCount
      BY <1>3 DEF Row
    <3> QED
      BY <3>1, <3>2
  <2>2. CASE PublishRefused(r)
    <3> DEFINE x == [copy[r][m] EXCEPT !.retryCount = @ + 1]
    <3>1. copy' = [copy EXCEPT ![r][m] = x] /\ pc'[r] = "saveError"
      BY <1>1, <1>2, <2>2 DEF PublishRefused, CountRetry, TypeOK
    <3>2. x \in Row /\ x.retryCount = outbox[m].retryCount + 1
      BY <1>3 DEF Row
    <3> QED
      BY <3>1, <3>2
  <2> QED
    BY <2>1, <2>2
<1>5. \A s \in Relays \ {r} : pc'[s] = pc[s]
  BY <1>1 DEF PublishAccepted, PublishRefused, TypeOK
<1>6. /\ LoneRun' /\ CopiesAreFresh' /\ Saving(r, m)'
      /\ \A s \in Relays, k \in Ids : Saving(s, k)' => s = r /\ k = m
  BY <1>1, <1>2, <1>4, <1>5, CopyMoves DEF Alone
<1>7. AttemptsCounted'
  <2>1. \A s \in Relays, k \in Ids : ~Saving(s, k)
    BY <1>1, OthersAreIdle DEF Alone, Saving
  <2>2. /\ attempts'[m] = attempts[m] + 1
        /\ \A k \in Ids \ {m} : attempts'[k] = attempts[k]
    BY <1>1, <1>2 DEF TypeOK
  <2>3. /\ attempts[m] <= outbox[m].retryCount + faults /\ ~(m > created)
        /\ attempts[m] \in Nat /\ outbox[m].retryCount \in Nat
        /\ faults \in Nat /\ MaxRetries \in Nat
    BY <1>1, <1>3, <2>1, LoneNumbers DEF Alone, AttemptsCounted, Stored
  <2> SUFFICES ASSUME NEW k \in Ids
               PROVE  /\ k > created => outbox[k] = NoRow /\ attempts'[k] = 0
                      /\ attempts'[k] <= MaxRetries + faults
                      /\ Stored(k) /\ ~outbox[k].processed =>
                           /\ attempts'[k] <= outbox[k].retryCount + faults + 1
                           /\ (\A s \in Relays : ~ Saving(s, k)') =>
                                attempts'[k] <= outbox[k].retryCount + faults
    BY <1>1 DEF AttemptsCounted, Stored
  <2>4. CASE k = m
    BY <1>3, <1>6, <2>2, <2>3, <2>4
  <2>5. CASE k # m
    BY <1>1, <2>1, <2>2, <2>5 DEF Alone, AttemptsCounted
  <2> QED
    BY <2>4, <2>5
<1> QED
  BY <1>6, <1>7 DEF Alone

\* What a save writes back is the row with the publish accounted for.
LEMMA SavedRow ==
  ASSUME TypeOK, Alone, NEW r \in Relays, NEW m \in Ids, Saving(r, m)
  PROVE  /\ pc[r] # "idle" /\ m \in Held(r) /\ copy[r][m] \in Row /\ Stored(m)
         /\ ~outbox[m].processed /\ ~(m > created)
         /\ outbox[m].retryCount \in Nat /\ copy[r][m].retryCount \in Nat
         /\ attempts[m] \in Nat /\ faults \in Nat
         /\ attempts[m] <= outbox[m].retryCount + faults + 1
         /\ attempts[m] <= MaxRetries + faults
         /\ outbox[m].retryCount <= copy[r][m].retryCount
         /\ pc[r] = "saveDone" => copy[r][m].processed
         /\ pc[r] = "saveDone" => copy[r][m].retryCount = outbox[m].retryCount
         /\ pc[r] = "saveError" => copy[r][m].retryCount = outbox[m].retryCount + 1
         /\ \A k \in Held(r) \ {m} : copy[r][k] = outbox[k]
<1>1. pc[r] # "idle" /\ pc[r] \in {"saveDone", "saveError"} /\ IsCurrent(r, m) /\ m \in Held(r)
  BY DEF Saving, IsCurrent
<1>2. /\ Stored(m) /\ ~outbox[m].processed
      /\ pc[r] = "saveDone" => copy[r][m].processed
      /\ pc[r] = "saveDone" => copy[r][m].retryCount = outbox[m].retryCount
      /\ pc[r] = "saveError" => copy[r][m].retryCount = outbox[m].retryCount + 1
  BY <1>1 DEF Alone, CopiesAreFresh
<1>3. \A k \in Held(r) \ {m} : copy[r][k] = outbox[k]
  <2> SUFFICES ASSUME NEW k \in Held(r) \ {m} PROVE copy[r][k] = outbox[k]
    OBVIOUS
  <2>1. k \in Ids /\ ~Saving(r, k)
    BY <1>1, OneIsCurrent DEF Saving, Held
  <2> QED
    BY <2>1 DEF Alone, CopiesAreFresh
<1>4. /\ copy[r][m] \in Row
      /\ outbox[m].retryCount \in Nat /\ copy[r][m].retryCount \in Nat
      /\ attempts[m] \in Nat /\ faults \in Nat
  BY <1>1, <1>2, LoneNumbers
<1>5. /\ ~(m > created) /\ attempts[m] <= MaxRetries + faults
      /\ attempts[m] <= outbox[m].retryCount + faults + 1
  BY <1>2 DEF Alone, AttemptsCounted, Stored
<1>6. outbox[m].retryCount <= copy[r][m].retryCount
  BY <1>1, <1>2, <1>4
<1> QED
  BY <1>1, <1>2, <1>3, <1>4, <1>5, <1>6

\* A save settles the account of its message.
LEMMA LoneSave ==
  ASSUME LoneInv, TypeOK', NEW r \in Relays, Save(r)
  PROVE  LoneInv'
<1> SUFFICES ASSUME ~overlapped' PROVE Alone'
  BY DEF LoneInv
<1>1. /\ TypeOK /\ Alone /\ LoneRun /\ pc[r] # "idle"
      /\ UNCHANGED <<created, attempts, faults>>
  BY DEF LoneInv, Alone, Save
<1>2. PICK m \in Ids : IsCurrent(r, m) /\ WriteBack(r, m) /\ Advance(r, m)
  BY DEF Save
<1>3. Saving(r, m)
  BY <1>2 DEF Save, Saving
<1>4. /\ outbox'[m] = copy[r][m]
      /\ \A k \in Ids \ {m} : outbox'[k] = outbox[k]
  BY <1>1, <1>2 DEF WriteBack, TypeOK
<1>5. /\ copy'[r][m] = NoRow
      /\ \A k \in Ids \ {m} : copy'[r][k] = copy[r][k]
      /\ \A s \in Relays \ {r} : copy'[s] = copy[s]
  BY <1>1, <1>2, OneCopyChanges DEF Advance
<1>6. /\ pc'[r] \in {"idle", "publish"}
      /\ pc'[r] = "idle" => Held(r) = {m}
      /\ \A s \in Relays \ {r} : pc'[s] = pc[s]
  BY <1>1, <1>2 DEF Advance, TypeOK
<1>7. /\ \A s \in Relays \ {r} : Held(s)' = Held(s) /\ Held(s) = {} /\ pc[s] = "idle"
      /\ Held(r)' = Held(r) \ {m}
  BY <1>1, <1>5, OthersAreIdle DEF Held
<1>8. \A s \in Relays, k \in Ids : ~Saving(s, k)'
  BY <1>6, <1>7 DEF Saving
<1>9. LoneRun'
  BY <1>6, <1>7 DEF LoneRun
<1>10. CopiesAreFresh'
  <2> SUFFICES ASSUME NEW k \in Held(r)'
               PROVE  /\ Stored(k)' /\ ~outbox'[k].processed
                      /\ outbox'[k].retryCount < MaxRetries /\ copy'[r][k] = outbox'[k]
    BY <1>7, <1>8 DEF CopiesAreFresh, Held
  <2>1. k \in Held(r) /\ k \in Ids \ {m}
    BY <1>7 DEF Held
  <2>2. copy[r][k] = outbox[k]
    BY <1>1, <1>3, <2>1, SavedRow
  <2>3. Stored(k) /\ ~outbox[k].processed /\ outbox[k].retryCount < MaxRetries
    BY <1>1, <2>1 DEF Alone, CopiesAreFresh
  <2> QED
    BY <1>4, <1>5, <2>1, <2>2, <2>3 DEF Stored
<1>11. AttemptsCounted'
  <2>1. /\ ~(m > created) /\ attempts[m] <= MaxRetries + faults
        /\ attempts[m] \in Nat /\ faults \in Nat /\ outbox'[m].retryCount \in Nat
    BY <1>1, <1>3, <1>4, SavedRow
  <2>2. ~outbox'[m].processed => attempts[m] <= outbox'[m].retryCount + faults
    <3> SUFFICES ASSUME ~outbox'[m].processed
                 PROVE  attempts[m] <= outbox'[m].retryCount + faults
      OBVIOUS
    <3>1. pc[r] = "saveError"
      BY <1>1, <1>3, <1>4, SavedRow DEF Saving
    <3>2. /\ copy[r][m].retryCount = outbox[m].retryCount + 1
          /\ attempts[m] <= outbox[m].retryCount + faults + 1
          /\ outbox[m].retryCount \in Nat
      BY <1>1, <1>3, <3>1, SavedRow
    <3> QED
      BY <1>4, <2>1, <3>2
  <2> SUFFICES ASSUME NEW k \in Ids
               PROVE  /\ k > created => outbox'[k] = NoRow /\ attempts[k] = 0
                      /\ attempts[k] <= MaxRetries + faults
                      /\ Stored(k)' /\ ~outbox'[k].processed =>
                           /\ attempts[k] <= outbox'[k].retryCount + faults + 1
                           /\ attempts[k] <= outbox'[k].retryCount + faults
    BY <1>1, <1>8 DEF AttemptsCounted
  <2>3. CASE k = m
    BY <2>1, <2>2, <2>3
  <2>4. CASE k # m
    <3>1. \A s \in Relays : ~Saving(s, k)
      BY <1>1, <1>2, <2>4, OthersAreIdle, OneIsCurrent DEF Saving
    <3> QED
      BY <1>1, <1>4, <2>4, <3>1 DEF Alone, AttemptsCounted, Stored
  <2> QED
    BY <2>3, <2>4
<1> QED
  BY <1>9, <1>10, <1>11 DEF Alone

\* A save that fails is a fault, and the catch block counts a retry as well.
LEMMA LoneSaveDoneFails ==
  ASSUME LoneInv, TypeOK', NEW r \in Relays, SaveDoneFails(r)
  PROVE  LoneInv'
<1> SUFFICES ASSUME ~overlapped' PROVE Alone'
  BY DEF LoneInv
<1>1. /\ TypeOK /\ Alone /\ pc[r] = "saveDone" /\ faults' = faults + 1
      /\ UNCHANGED <<created, outbox, attempts>>
      /\ pc' = [pc EXCEPT ![r] = "saveError"]
  BY DEF LoneInv, SaveDoneFails
<1>2. PICK m \in Ids : IsCurrent(r, m) /\ CountRetry(r, m)
  BY DEF SaveDoneFails
<1>3. Saving(r, m)
  BY <1>1, <1>2 DEF Saving
<1>4. /\ copy[r][m] \in Row /\ copy[r][m].retryCount = outbox[m].retryCount
      /\ outbox[m].retryCount \in Nat
  BY <1>1, <1>3, SavedRow
<1> DEFINE x == [copy[r][m] EXCEPT !.retryCount = @ + 1]
<1>5. copy' = [copy EXCEPT ![r][m] = x]
  BY <1>1, <1>2 DEF CountRetry, TypeOK
<1>6. x \in Row /\ x.retryCount = outbox[m].retryCount + 1
  BY <1>4 DEF Row
<1>7. pc'[r] = "saveError" /\ \A s \in Relays \ {r} : pc'[s] = pc[s]
  BY <1>1 DEF TypeOK
<1> HIDE DEF x
<1>8. /\ LoneRun' /\ CopiesAreFresh' /\ Saving(r, m)'
      /\ \A s \in Relays, k \in Ids : Saving(s, k)' => s = r /\ k = m
  BY <1>1, <1>2, <1>3, <1>5, <1>6, <1>7, CopyMoves DEF Alone
<1>9. AttemptsCounted'
  <2>1. \A s \in Relays, k \in Ids : Saving(s, k) => k = m
    BY <1>1, <1>2, OthersAreIdle, OneIsCurrent DEF Alone, Saving
  <2>2. \A k \in Ids : attempts[k] \in Nat
    BY <1>1, LoneNumbers
  <2>3. faults \in Nat /\ MaxRetries \in Nat
    BY <1>1, LoneNumbers
  <2> SUFFICES ASSUME NEW k \in Ids
               PROVE  /\ k > created => outbox[k] = NoRow /\ attempts[k] = 0
                      /\ attempts[k] <= MaxRetries + faults'
                      /\ Stored(k) /\ ~outbox[k].processed =>
                           /\ attempts[k] <= outbox[k].retryCount + faults' + 1
                           /\ attempts[k] <= outbox[k].retryCount + faults'
    BY <1>1 DEF AttemptsCounted, Stored
  <2>4. Stored(k) => outbox[k].retryCount \in Nat
    BY <1>1, LoneNumbers
  <2> QED
    BY <1>1, <2>1, <2>2, <2>3, <2>4 DEF Alone, AttemptsCounted
<1> QED
  BY <1>8, <1>9 DEF Alone

\* A run that ends in a fault may leave one publish uncounted.
LEMMA LoneAbandon ==
  ASSUME LoneInv, TypeOK', NEW r \in Relays, SaveErrorFails(r) \/ Crash(r)
  PROVE  LoneInv'
<1> SUFFICES ASSUME ~overlapped' PROVE Alone'
  BY DEF LoneInv
<1>1. /\ TypeOK /\ Alone /\ LoneRun /\ pc[r] # "idle" /\ Abandon(r) /\ faults' = faults + 1
      /\ UNCHANGED <<created, outbox, attempts>>
  BY DEF LoneInv, Alone, SaveErrorFails, Crash
<1>2. /\ pc'[r] = "idle"
      /\ \A k \in Ids : copy'[r][k] = NoRow
      /\ \A s \in Relays \ {r} : copy'[s] = copy[s] /\ pc'[s] = pc[s]
  BY <1>1, AbandonForgets
<1>3. \A s \in Relays : pc'[s] = "idle" /\ Held(s)' = {}
  BY <1>1, <1>2, OthersAreIdle DEF Held
<1>4. LoneRun' /\ CopiesAreFresh'
  BY <1>3 DEF LoneRun, CopiesAreFresh
<1>5. AttemptsCounted'
  <2>1. /\ faults \in Nat /\ MaxRetries \in Nat /\ \A k \in Ids : attempts[k] \in Nat
        /\ \A k \in Ids : Stored(k) => outbox[k].retryCount \in Nat
    BY <1>1, LoneNumbers
  <2> SUFFICES ASSUME NEW k \in Ids
               PROVE  /\ k > created => outbox[k] = NoRow /\ attempts[k] = 0
                      /\ attempts[k] <= MaxRetries + faults + 1
                      /\ Stored(k) /\ ~outbox[k].processed =>
                           /\ attempts[k] <= outbox[k].retryCount + faults + 1 + 1
                           /\ attempts[k] <= outbox[k].retryCount + faults + 1
    BY <1>1, <2>1 DEF AttemptsCounted, Stored
  <2> QED
    BY <1>1, <2>1 DEF Alone, AttemptsCounted
<1> QED
  BY <1>4, <1>5 DEF Alone

\* A run that finds nobody else in progress copies rows as they are.
LEMMA LoneFind ==
  ASSUME LoneInv, TypeOK', NEW r \in Relays, FindBatch(r)
  PROVE  LoneInv'
<1> SUFFICES ASSUME ~overlapped' PROVE Alone'
  BY DEF LoneInv
<1>1. /\ TypeOK /\ Alone
      /\ \A s \in Relays \ {r} : pc[s] = "idle"
      /\ pc[r] = "idle" /\ UNCHANGED <<created, outbox, attempts, faults>>
  BY DEF LoneInv, FindBatch, TypeOK
<1>2. /\ pc'[r] = "publish"
      /\ \A s \in Relays \ {r} : pc'[s] = pc[s] /\ copy'[s] = copy[s]
      /\ \A m \in Ids : copy'[r][m] = IF m \in Batch THEN outbox[m] ELSE NoRow
  BY <1>1 DEF FindBatch, TypeOK
<1>3. /\ \A s \in Relays \ {r} : Held(s)' = {}
      /\ \A m \in Held(r)' : m \in Batch /\ m \in Eligible
  BY <1>1, <1>2 DEF Held, Alone, LoneRun, Batch
<1>4. \A s \in Relays, k \in Ids : ~Saving(s, k) /\ ~Saving(s, k)'
  BY <1>1, <1>2 DEF Saving
<1>5. LoneRun'
  BY <1>1, <1>2, <1>3 DEF LoneRun
<1>6. CopiesAreFresh'
  <2> SUFFICES ASSUME NEW k \in Held(r)'
               PROVE  /\ Stored(k) /\ ~outbox[k].processed
                      /\ outbox[k].retryCount < MaxRetries /\ copy'[r][k] = outbox[k]
    BY <1>1, <1>3, <1>4 DEF CopiesAreFresh, Held, Stored
  <2> QED
    BY <1>2, <1>3 DEF Eligible
<1>7. AttemptsCounted'
  BY <1>1, <1>4 DEF Alone, AttemptsCounted, Stored
<1> QED
  BY <1>5, <1>6, <1>7 DEF Alone

\* A new message has not been attempted.
LEMMA LoneCreate ==
  ASSUME LoneInv, TypeOK', Create
  PROVE  LoneInv'
<1> SUFFICES ASSUME ~overlapped' PROVE Alone'
  BY DEF LoneInv
<1>1. /\ TypeOK /\ Alone /\ created' = created + 1 /\ created + 1 \in Ids
      /\ UNCHANGED <<pc, copy, attempts, faults>>
  BY ConstantsAreNumbers DEF LoneInv, Create, TypeOK, Ids
<1>2. PICK x \in Row : x.retryCount = 0 /\ outbox' = [outbox EXCEPT ![created + 1] = x]
  <2>1. [processed |-> FALSE, retryCount |-> 0] \in Row
    BY DEF Row
  <2> QED
    BY <2>1 DEF Create
<1>3. PICK n \in Ids : n = created + 1
  BY <1>1
<1>4. /\ outbox'[n] = x /\ \A k \in Ids \ {n} : outbox'[k] = outbox[k]
      /\ outbox[n] = NoRow /\ attempts[n] = 0
  <2>1. outbox'[n] = x /\ \A k \in Ids \ {n} : outbox'[k] = outbox[k]
    BY <1>1, <1>2, <1>3 DEF TypeOK
  <2>2. created \in Nat
    BY <1>1, LoneNumbers
  <2>3. outbox[n] = NoRow /\ attempts[n] = 0
    BY <1>1, <1>3, <2>2 DEF Alone, AttemptsCounted
  <2> QED
    BY <2>1, <2>3
<1>5. \A s \in Relays : Held(s)' = Held(s) /\ n \notin Held(s)
  BY <1>1, <1>4 DEF Held, Alone, CopiesAreFresh, Stored
<1>6. \A s \in Relays, k \in Ids : Saving(s, k)' <=> Saving(s, k)
  BY <1>1, <1>5 DEF Saving, IsCurrent
<1>7. LoneRun'
  BY <1>1, <1>5 DEF Alone, LoneRun
<1>8. CopiesAreFresh'
  <2> SUFFICES ASSUME NEW s \in Relays, NEW k \in Held(s)
               PROVE  /\ Stored(k)' /\ ~outbox'[k].processed /\ outbox'[k].retryCount < MaxRetries
                      /\ IF ~ Saving(s, k) THEN copy[s][k] = outbox'[k]
                         ELSE IF pc[s] = "saveDone"
                         THEN copy[s][k].processed /\ copy[s][k].retryCount = outbox'[k].retryCount
                         ELSE copy[s][k].retryCount = outbox'[k].retryCount + 1
    BY <1>1, <1>5, <1>6 DEF CopiesAreFresh, Held
  <2>1. k \in Ids \ {n}
    BY <1>5 DEF Held
  <2>2. outbox'[k] = outbox[k]
    BY <1>4, <2>1
  <2> QED
    BY <1>1, <2>2 DEF Alone, CopiesAreFresh, Stored
<1>9. AttemptsCounted'
  <2>1. /\ created \in Nat /\ faults \in Nat /\ MaxRetries \in Nat
        /\ \A k \in Ids : k \in Nat
    BY <1>1, LoneNumbers
  <2> SUFFICES ASSUME NEW k \in Ids
               PROVE  /\ k > created + 1 => outbox'[k] = NoRow /\ attempts[k] = 0
                      /\ attempts[k] <= MaxRetries + faults
                      /\ Stored(k)' /\ ~outbox'[k].processed =>
                           /\ attempts[k] <= outbox'[k].retryCount + faults + 1
                           /\ (\A s \in Relays : ~ Saving(s, k)) =>
                                attempts[k] <= outbox'[k].retryCount + faults
    BY <1>1, <1>6 DEF AttemptsCounted
  <2>2. CASE k = n
    BY <1>2, <1>3, <1>4, <2>1, <2>2
  <2>3. CASE k # n
    <3>1. outbox'[k] = outbox[k]
      BY <1>4, <2>3
    <3>2. k > created + 1 => k > created
      BY <2>1
    <3> QED
      BY <1>1, <3>1, <3>2 DEF Alone, AttemptsCounted, Stored
  <2> QED
    BY <2>2, <2>3
<1> QED
  BY <1>7, <1>8, <1>9 DEF Alone

\* The clean-up takes rows that nobody holds.
LEMMA LoneCleanup ==
  ASSUME LoneInv, TypeOK', CleanupOldMessages
  PROVE  LoneInv'
<1> SUFFICES ASSUME ~overlapped' PROVE Alone'
  BY DEF LoneInv
<1>1. PICK old \in SUBSET Removable :
        /\ \A r \in Relays : old \cap Held(r) = {}
        /\ outbox' = [m \in Ids |-> IF m \in old THEN NoRow ELSE outbox[m]]
        /\ UNCHANGED <<created, pc, copy, attempts, faults, overlapped>>
  BY DEF CleanupOldMessages
<1>2. Alone /\ \A m \in Ids : outbox'[m] = outbox[m] \/ outbox'[m] = NoRow
  BY <1>1 DEF LoneInv
<1>3. \A s \in Relays : Held(s)' = Held(s) /\ \A k \in Held(s) : k \in Ids /\ outbox'[k] = outbox[k]
  BY <1>1 DEF Held
<1>4. \A s \in Relays, k \in Ids : Saving(s, k)' <=> Saving(s, k)
  BY <1>1, <1>3 DEF Saving, IsCurrent
<1>5. LoneRun'
  BY <1>1, <1>2, <1>3 DEF Alone, LoneRun
<1>6. CopiesAreFresh'
  BY <1>1, <1>2, <1>3, <1>4 DEF Alone, CopiesAreFresh, Stored
<1>7. AttemptsCounted'
  BY <1>1, <1>2, <1>4 DEF Alone, AttemptsCounted, Stored
<1> QED
  BY <1>5, <1>6, <1>7 DEF Alone

\* Every step keeps the account.
LEMMA LoneStep == LoneInv /\ [Next]_vars => LoneInv'
<1> SUFFICES ASSUME LoneInv, [Next]_vars PROVE LoneInv'
  OBVIOUS
<1>1. TypeOK'
  BY TypeStep DEF LoneInv
<1>2. ASSUME UNCHANGED vars PROVE LoneInv'
  BY <1>1, <1>2 DEF vars, LoneInv, Alone, LoneRun, CopiesAreFresh, AttemptsCounted,
     Saving, IsCurrent, Held, Stored
<1> QED
  BY <1>1, <1>2, LonePublish, LoneSave, LoneSaveDoneFails, LoneAbandon, LoneFind,
     LoneCreate, LoneCleanup DEF Next, Run, FindNothing

\* The inductive invariant of a relay whose runs do not overlap.
LEMMA LoneInvariant == Spec => []LoneInv
<1>1. Init => LoneInv
  <2> SUFFICES ASSUME Init PROVE LoneInv
    OBVIOUS
  <2>1. TypeOK
    BY InitTyped
  <2>2. \A r \in Relays : Held(r) = {} /\ pc[r] = "idle"
    BY DEF Init, Held
  <2>3. LoneRun /\ CopiesAreFresh
    BY <2>2 DEF LoneRun, CopiesAreFresh
  <2>4. \A m \in Ids : outbox[m] = NoRow /\ attempts[m] = 0
    BY DEF Init
  <2>5. faults = 0 /\ MaxRetries \in Nat
    BY ConstantsAreNumbers DEF Init
  <2>6. AttemptsCounted
    BY <2>4, <2>5 DEF AttemptsCounted, Stored
  <2> QED
    BY <2>1, <2>3, <2>6 DEF LoneInv, Alone
<1> QED
  BY <1>1, LoneStep, PTL DEF Spec

\* While runs do not overlap, a message is published at most MaxRetries times
\* plus once for every fault.
THEOREM AttemptsAreAccounted == Spec => []AttemptsAccounted
<1>1. LoneInv => AttemptsAccounted
  BY DEF LoneInv, Alone, AttemptsCounted, AttemptsAccounted
<1> QED
  BY <1>1, LoneInvariant, PTL

\* While runs do not overlap, processed is final and retryCount never shrinks.
THEOREM RowsOnlyAdvance == Spec => RowsAdvance
<1>1. LoneInv /\ [Next]_vars => [~ overlapped' => \A m \in Ids : RowAdvances(m)]_vars
  <2> SUFFICES ASSUME LoneInv, Next, ~overlapped',
                      NEW m \in Ids, Stored(m), outbox'[m] # NoRow
               PROVE  /\ outbox[m].processed => outbox'[m].processed
                      /\ outbox[m].retryCount <= outbox'[m].retryCount
    BY DEF RowAdvances
  <2>1. /\ TypeOK /\ ~overlapped /\ Alone
    BY DEF LoneInv, TypeOK, Next, Create, Run, FindBatch, FindNothing, PublishAccepted,
       PublishRefused, Save, SaveDoneFails, SaveErrorFails, Crash, CleanupOldMessages, vars
  <2>2. outbox[m].retryCount \in Nat
    BY <2>1, LoneNumbers
  <2>3. CASE outbox'[m] = outbox[m]
    BY <2>2, <2>3
  <2>4. ASSUME NEW r \in Relays, Save(r), outbox'[m] # outbox[m]
        PROVE  ~outbox[m].processed /\ outbox[m].retryCount <= outbox'[m].retryCount
    <3>1. PICK k \in Ids : IsCurrent(r, k) /\ WriteBack(r, k) /\ Saving(r, k)
      BY <2>4 DEF Save, Saving
    <3>2. k = m /\ outbox'[m] = copy[r][m]
      BY <2>1, <2>4, <3>1 DEF WriteBack, TypeOK
    <3> QED
      BY <2>1, <3>1, <3>2, SavedRow
  <2>5. CASE Create
    <3>1. outbox'[m] = outbox[m]
      <4>1. m # created + 1
        <5>1. created + 1 \in Ids /\ created \in Nat
          BY <2>1, <2>5, ConstantsAreNumbers DEF Create, TypeOK, Ids
        <5> QED
          BY <2>1, <5>1 DEF Alone, AttemptsCounted, Stored
      <4> QED
        BY <2>1, <2>5, <4>1 DEF Create, TypeOK
    <3> QED
      BY <2>2, <3>1
  <2>6. CASE CleanupOldMessages
    <3>1. outbox'[m] = outbox[m]
      BY <2>6 DEF CleanupOldMessages
    <3> QED
      BY <2>2, <3>1
  <2> QED
    BY <2>3, <2>4, <2>5, <2>6 DEF Next, Run, FindBatch, FindNothing, PublishAccepted,
       PublishRefused, SaveDoneFails, SaveErrorFails, Crash, vars
<1> QED
  BY <1>1, LoneInvariant, PTL DEF Spec, RowsAdvance
=============================================================================
