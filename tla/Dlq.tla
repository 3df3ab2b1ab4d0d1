-------------------------------- MODULE Dlq ---------------------------------
(***************************************************************************)
(* backend/src/modules/dlq on top of the inbox.  Every hour, on every      *)
(* replica, checkStuckMessages takes the oldest unprocessed inbox rows and *)
(* stores a dead letter for each whose retryCount has reached the limit.   *)
(* Administrators retry or resolve letters.  The inbox row of a letter is  *)
(* not touched by any of this.                                             *)
(***************************************************************************)
EXTENDS Inbox, Sequences

CONSTANTS
  Checkers,    \* concurrent runs of checkStuckMessages
  Admins,      \* concurrent retryMessage requests
  MaxRetries,  \* MAX_RETRIES = 5
  Window,      \* take: 100 of getStuckMessages
  MaxLetters   \* bound: dead letters stored

ASSUME DlqConstantsAreNumbers ==
  MaxRetries \in Nat \ {0} /\ Window \in Nat \ {0} /\ MaxLetters \in Nat

VARIABLES
  letters,  \* the table dead_letter_queue, in order of insertion
  checker,  \* rows each run of checkStuckMessages has yet to add
  admin     \* the letter each retryMessage in progress is about to resolve

dlqVars == <<letters, checker, admin>>
allVars == <<vars, dlqVars>>

Letter == [id : Ids, attemptCount : Nat, resolved : BOOLEAN]

NoLetter == 0

DlqTypeOK ==
  /\ TypeOK
  /\ letters \in Seq(Letter)
  /\ checker \in [Checkers -> [Ids -> InboxRow \cup {NoRow}]]
  /\ admin \in [Admins -> Nat]

DlqInit ==
  /\ Init
  /\ letters = <<>>
  /\ checker = [c \in Checkers |-> [m \in Ids |-> NoRow]]
  /\ admin = [a \in Admins |-> NoLetter]

-----------------------------------------------------------------------------
(* checkStuckMessages.                                                     *)

Unprocessed == {m \in Ids : Stored(m) /\ ~ inbox[m].processed}

\* getStuckMessages: the oldest unprocessed rows.  Its parameter maxRetries
\* is not used.
StuckMessages ==
  {m \in Unprocessed :
     Cardinality({k \in Unprocessed : inbox[k].createdAt < inbox[m].createdAt})
       < Window}

\* Faulty variant: the limit is not looked at.
NeverExhausted(row) == TRUE

\* message.retryCount >= this.MAX_RETRIES
Exhausted(row) == row.retryCount >= MaxRetries

Pending(c) == {m \in Ids : checker[c][m] # NoRow}

\* The query is answered; the rows the loop will skip are left out at once.
FindStuck(c) ==
  /\ Pending(c) = {}
  /\ \E m \in StuckMessages : Exhausted(inbox[m])
  /\ checker' = [checker EXCEPT ![c] =
       [m \in Ids |-> IF m \in StuckMessages /\ Exhausted(inbox[m])
                      THEN inbox[m] ELSE NoRow]]
  /\ UNCHANGED <<vars, letters, admin>>

\* Faulty variant: the column default is missing.
LetterWithoutDefault(m, row) == [id |-> m, attemptCount |-> row.retryCount]

NewLetter(m, row) ==
  [id |-> m, attemptCount |-> row.retryCount, resolved |-> FALSE]

\* addToDeadLetter for the oldest row of the batch.
AddLetter(c) ==
  /\ Len(letters) < MaxLetters
  /\ \E m \in Pending(c) :
       /\ \A k \in Pending(c) : checker[c][m].createdAt <= checker[c][k].createdAt
       /\ letters' = Append(letters, NewLetter(m, checker[c][m]))
       /\ checker' = [checker EXCEPT ![c][m] = NoRow]
  /\ UNCHANGED <<vars, admin>>

\* The insert fails, or the replica dies: the rest of the batch is left.
CheckAborts(c) ==
  /\ Pending(c) # {}
  /\ Faults < MaxFaults
  /\ dbErrors' = dbErrors + 1
  /\ checker' = [checker EXCEPT ![c] = [m \in Ids |-> NoRow]]
  /\ UNCHANGED <<inbox, inserts, brokerVars, connected, worker, historyVars,
                 acked, dropped, crashes, losses, cleanups, letters, admin>>

-----------------------------------------------------------------------------
(* The administrators' operations.                                         *)

\* retryMessage finds the letter and its inbox row, unprocessed, and emits
\* the event.  The emitter runs the listeners on its own account: nothing
\* comes back that could fail the call or mark the row.
RetryEmits(a, i) ==
  /\ admin[a] = NoLetter
  /\ Stored(letters[i].id)
  /\ ~ inbox[letters[i].id].processed
  /\ admin' = [admin EXCEPT ![a] = i]
  /\ UNCHANGED <<vars, letters, checker>>

\* The letter is saved as resolved, 'Successfully retried'.
RetryResolves(a) ==
  /\ admin[a] # NoLetter
  /\ letters' = [letters EXCEPT ![admin[a]].resolved = TRUE]
  /\ admin' = [admin EXCEPT ![a] = NoLetter]
  /\ UNCHANGED <<vars, checker>>

\* That save fails: the call answers {success: false}.
RetryFails(a) ==
  /\ admin[a] # NoLetter
  /\ Faults < MaxFaults
  /\ dbErrors' = dbErrors + 1
  /\ admin' = [admin EXCEPT ![a] = NoLetter]
  /\ UNCHANGED <<inbox, inserts, brokerVars, connected, worker, historyVars,
                 acked, dropped, crashes, losses, cleanups, letters, checker>>

\* markAsResolved.
MarkAsResolved(i) ==
  /\ ~ letters[i].resolved
  /\ letters' = [letters EXCEPT ![i].resolved = TRUE]
  /\ UNCHANGED <<vars, checker, admin>>

Check(c) == FindStuck(c) \/ AddLetter(c)

DlqNext ==
  \/ Next /\ UNCHANGED dlqVars
  \/ \E c \in Checkers : Check(c) \/ CheckAborts(c)
  \/ \E i \in DOMAIN letters :
       MarkAsResolved(i) \/ \E a \in Admins : RetryEmits(a, i)
  \/ \E a \in Admins : RetryResolves(a) \/ RetryFails(a)

DlqSpec == DlqInit /\ [][DlqNext]_allVars

\* The hourly timer keeps firing; deliveries go on as in the inbox.  No
\* further copy of a message need ever arrive.
DlqFairSpec ==
  /\ DlqSpec
  /\ \A c \in Checkers : WF_allVars(Check(c))
  /\ \A w \in Workers : WF_allVars(ProcessMessage(w) /\ UNCHANGED dlqVars)
  /\ \A q \in Queues, m \in Ids :
       SF_allVars((\E w \in Workers, p \in Replicas : Deliver(w, p, q, m))
                    /\ UNCHANGED dlqVars)

-----------------------------------------------------------------------------
(* Properties.                                                             *)

\* A dead letter tells the truth: its message did fail as often as it says,
\* and at least as often as the limit, through stale copies and races; and its
\* row is still in the inbox to be retried, or it was handled since.
LettersJustified ==
  \A i \in DOMAIN letters :
    /\ letters[i].attemptCount >= MaxRetries
    /\ letters[i].attemptCount <= failures[letters[i].id]
    /\ Stored(letters[i].id) \/ WasHandled(letters[i].id)

LettersOf(m) == {i \in DOMAIN letters : letters[i].id = m}

\* "Check stuck messages in inbox and move to DLQ": a message that has
\* reached the limit gets its dead letter, unless it is processed after all
\* (or the bound of the model is reached).  The code does not keep it: the
\* rows below the limit count towards the window too, and nothing takes them
\* out of it.
StuckReachDlq ==
  \A m \in Ids :
    (Stored(m) /\ inbox[m].retryCount >= MaxRetries)
      ~> (LettersOf(m) # {} \/ WasHandled(m) \/ Len(letters) = MaxLetters)
=============================================================================
