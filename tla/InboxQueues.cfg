CONSTANTS
  Ids = {m1}
  Queues = {notifications, webhooks}
  Workers = {w1}
  Replicas = {p1, p2}
  MaxCopies = 1
  MaxFaults = 0
  NoRow = NoRow
SPECIFICATION Spec
INVARIANTS
  EachQueueServed
