CONSTANTS
  Ids = {m1}
  Queues = {notifications, webhooks}
  Workers = {w1, w2}
  Replicas = {p1, p2}
  MaxCopies = 1
  MaxFaults = 2
  NoRow = NoRow
  Checkers = {c1}
  Admins = {a1}
  MaxRetries = 2
  Window = 1
  MaxLetters = 1
SPECIFICATION DlqFairSpec
INVARIANTS
  DlqTypeOK
  ClaimsWereHandled
  RetriesAreFailures
  DroppedIsRemembered
  HandledOncePerFault
  LettersJustified
  LastCopySettles
PROPERTIES
  InboxRowsAdvance
  EveryArrivalSettles
