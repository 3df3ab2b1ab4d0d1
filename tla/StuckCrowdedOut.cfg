CONSTANTS
  Ids = {m1, m2}
  Queues = {notifications, webhooks}
  Workers = {w1}
  Replicas = {p1}
  MaxCopies = 1
  MaxFaults = 0
  NoRow = NoRow
  Checkers = {c1}
  Admins = {a1}
  MaxRetries = 2
  Window = 1
  MaxLetters = 1
SPECIFICATION DlqFairSpec
PROPERTIES
  StuckReachDlq
