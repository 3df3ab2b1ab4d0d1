CONSTANTS
  Tasks = {t1}
  Users = {u1}
  NoUser = NoUser
  Statuses = {todo, done}
  Replicas = {p1, p2}
  Requests = {r1, r2}
  Views <- JustTheTask
  Dtos <- OfOneField
  t1 = t1
  MaxEdits = 2
  MaxFaults = 1
  NoTask = NoTask
  Absent = Absent
SPECIFICATION FairSpec
INVARIANTS
  TypeOK
  OrderlyTaskIsFresh
  CachedTaskExisted
PROPERTIES
  CacheBecomesFresh
