CONSTANTS
  Tasks = {t1}
  Users = {u1}
  NoUser = NoUser
  Statuses = {todo, done}
  Replicas = {p1, p2}
  Here = p1
  Requests = {r1}
  Views <- JustTheTask
  Dtos <- OfAllFields
  t1 = t1
  MaxEdits = 2
  MaxFaults = 1
  NoTask = NoTask
  Absent = Absent
  Sockets = {s1, s2}
  Completed = done
  MaxConnects = 2
SPECIFICATION FeedSpec
SYMMETRY Symmetry
INVARIANTS
  PresenceMatchesSockets
  OrderlyFeedIsCurrent
  ListenersKnowTask
