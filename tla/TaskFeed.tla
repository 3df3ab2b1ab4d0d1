------------------------------ MODULE TaskFeed ------------------------------
(***************************************************************************)
(* Who is told of an edit: the events that the requests of TaskCache emit, *)
(* and their listeners.  The realtime gateway of one replica pushes rows   *)
(* to the sockets connected to it and counts who is online; the audit      *)
(* trail and the mail to a task's creator are one for all replicas.        *)
(*                                                                         *)
(* The emitter calls its listeners within the request, and what they throw *)
(* is logged.  Every socket is in the room of its tenant, so the rooms of  *)
(* projects add nothing; the mail to an assignee is left out: its listener *)
(* reads assignee.tenant.name, which no query has loaded, and throws.      *)
(***************************************************************************)
EXTENDS TaskCache, Sequences

CONSTANTS
  Sockets,      \* ids of connections to the replica Here
  Here,         \* the replica whose gateway is modelled
  Completed,    \* the status that is mailed
  MaxConnects   \* bound: connections made

ASSUME FeedConstantsAreTyped ==
  /\ Here \in Replicas /\ Completed \in Statuses
  /\ MaxConnects \in Nat

VARIABLES
  sockets,         \* the user of each socket, NoUser when it is closed
  connectedUsers,  \* the gateway's map from users to sets of sockets
  seen,            \* the rows each client shows
  missed,          \* history: sockets open while a row changed elsewhere
  trail,           \* audit_logs: status changes and assignments by task
  mailed,          \* tasks whose creator got mail of the completion
  firstRow,        \* history: each task as it was created
  connects, lost   \* history: connections made; a listener failed

feedVars == <<sockets, connectedUsers, seen, missed, trail, mailed, firstRow,
              connects, lost>>

Open == {s \in Sockets : sockets[s] # NoUser}

FeedInit ==
  /\ Init
  /\ sockets = [s \in Sockets |-> NoUser]
  /\ connectedUsers = [u \in {} |-> {}]
  /\ seen = [s \in Sockets |-> tasks]
  /\ missed = {}
  /\ trail = [t \in Tasks |-> <<>>]
  /\ mailed = {}
  /\ firstRow = tasks
  /\ connects = 0 /\ lost = FALSE

-----------------------------------------------------------------------------
(* The gateway.                                                            *)

SocketsOf(u) == IF u \in DOMAIN connectedUsers THEN connectedUsers[u] ELSE {}

\* handleConnection with a good token; the client then loads the tasks.  With
\* a bad one the socket is closed, and handleDisconnect finds no user.
Connect(s, u) ==
  /\ sockets[s] = NoUser
  /\ connects < MaxConnects
  /\ connects' = connects + 1
  /\ sockets' = [sockets EXCEPT ![s] = u]
  /\ connectedUsers' = [v \in DOMAIN connectedUsers \cup {u} |->
       IF v = u THEN SocketsOf(u) \cup {s} ELSE connectedUsers[v]]
  /\ seen' = [seen EXCEPT ![s] = tasks]
  /\ missed' = missed \ {s}
  /\ UNCHANGED <<vars, trail, mailed, firstRow, lost>>

\* Faulty variant: the user goes with any of his sockets.
RestAlways(u, s) == {}

Rest(u, s) == connectedUsers[u] \ {s}

\* handleDisconnect
Disconnect(s) ==
  /\ s \in Open
  /\ LET u == sockets[s]
         online == DOMAIN connectedUsers \
                     (IF Rest(u, s) = {} THEN {u} ELSE {})
     IN connectedUsers' = [v \in online |->
          IF v = u THEN Rest(u, s) ELSE connectedUsers[v]]
  /\ sockets' = [sockets EXCEPT ![s] = NoUser]
  /\ UNCHANGED <<vars, seen, missed, trail, mailed, firstRow, connects, lost>>

\* isUserOnline, and getOnlineUsers for the number of them.
Online(u) == u \in DOMAIN connectedUsers

\* Faulty variant: a client that knows the task is not sent it again.
BroadcastNew(q, row) ==
  seen' = IF q.at # Here THEN seen
          ELSE [s \in Sockets |-> IF s \in Open /\ seen[s][q.key.of] = NoTask
                                  THEN [seen[s] EXCEPT ![q.key.of] = row]
                                  ELSE seen[s]]

\* handleTaskCreated, handleTaskUpdated, handleTaskAssigned and
\* handleTaskStatusChanged of the replica that serves request q send the row to
\* the tenant's room.
Broadcast(q, row) ==
  seen' = IF q.at # Here THEN seen
          ELSE [s \in Sockets |-> IF s \in Open
                                  THEN [seen[s] EXCEPT ![q.key.of] = row]
                                  ELSE seen[s]]

\* The sockets that are not told what request q does.
Misses(q) == IF q.at # Here THEN Open ELSE {}

\* A replica restarts: if it is this one, its connections are gone.
RestartAndForget(p) ==
  /\ Restart(p)
  /\ IF p = Here
     THEN /\ sockets' = [s \in Sockets |-> NoUser]
          /\ connectedUsers' = [u \in {} |-> {}]
     ELSE UNCHANGED <<sockets, connectedUsers>>
  /\ UNCHANGED <<seen, missed, trail, mailed, firstRow, connects, lost>>

-----------------------------------------------------------------------------
(* The events of a request.                                                *)

\* create emits task.created.  It emits task.assigned without the assignee,
\* whom save() does not load: all three listeners throw.
CreateAndTell(r) ==
  /\ Create(r)
  /\ LET t == request'[r].key.of
     IN /\ Broadcast(request'[r], tasks'[t])
        /\ firstRow' = [firstRow EXCEPT ![t] = tasks'[t]]
  /\ missed' = missed \cup Misses(request'[r])
  /\ UNCHANGED <<sockets, connectedUsers, trail, mailed, connects, lost>>

WriteAndTell(r) ==
  /\ Write(r) \/ Delete(r)
  /\ missed' = missed \cup Misses(request[r])
  /\ UNCHANGED <<sockets, connectedUsers, seen, trail, mailed, firstRow,
                 connects, lost>>

\* Faulty variant: a first assignment is not told.
RecordsReassigned(old, row) ==
  (IF old.status # row.status
   THEN <<[old |-> old.status, new |-> row.status]>> ELSE <<>>)
  \o (IF old.assignee # row.assignee /\ old.assignee # NoUser
      THEN <<[assignee |-> row.assignee]>> ELSE <<>>)

\* What TaskAuditListener logs of task.status.changed and task.assigned.  An
\* update that leaves a task without assignee emits neither.
Records(old, row) ==
  (IF old.status # row.status
   THEN <<[old |-> old.status, new |-> row.status]>> ELSE <<>>)
  \o (IF old.assignee # row.assignee /\ row.assignee # NoUser
      THEN <<[assignee |-> row.assignee]>> ELSE <<>>)

\* TaskNotificationListener mails the creator of a task that is completed.
Mailed(t, old, row) ==
  IF old.status # row.status /\ row.status = Completed THEN {t} ELSE {}

\* update emits task.status.changed, task.assigned and task.updated.
ReadBackAndTell(r) ==
  /\ ReadBack(r)
  /\ IF request'[r] = Idle
     THEN UNCHANGED <<seen, trail, mailed, lost>>
     ELSE LET t == request[r].key.of
              old == request[r].found
              row == request'[r].found
          IN /\ Broadcast(request[r], row)
             /\ \/ /\ trail' = [trail EXCEPT ![t] = @ \o Records(old, row)]
                   /\ mailed' = mailed \cup Mailed(t, old, row)
                   /\ UNCHANGED lost
                \/ lost' = TRUE /\ UNCHANGED <<trail, mailed>>
  /\ UNCHANGED <<sockets, connectedUsers, missed, firstRow, connects>>

\* The last await of an edit: create and update emit their event once more
\* with the row they hold; for remove no client is told.
FinishAndTell(r) ==
  /\ Store(r) \/ Evict(r) \/ Invalidate(r)
  /\ IF request'[r] = Idle /\ request[r].op # "remove"
     THEN Broadcast(request[r], request[r].found)
     ELSE UNCHANGED seen
  /\ UNCHANGED <<sockets, connectedUsers, missed, trail, mailed, firstRow,
                 connects, lost>>

Silently(r) == Query(r) \/ Again(r) \/ Fill(r)

ProceedAndTell(r) ==
  \/ WriteAndTell(r) \/ ReadBackAndTell(r) \/ FinishAndTell(r)
  \/ Silently(r) /\ UNCHANGED feedVars

FeedNext ==
  \/ \E r \in Requests :
       \/ CreateAndTell(r)
       \/ ProceedAndTell(r)
       \/ /\ Read(r) \/ Update(r) \/ Remove(r) \/ QueryFails(r) \/ Rejects(r)
          /\ UNCHANGED feedVars
  \/ \E p \in Replicas :
       \/ RestartAndForget(p)
       \/ \E k \in Keys : Expire(p, k) /\ UNCHANGED feedVars
  \/ \E s \in Sockets : Disconnect(s) \/ \E u \in Users : Connect(s, u)

FeedSpec == FeedInit /\ [][FeedNext]_<<vars, feedVars>>

-----------------------------------------------------------------------------
(* Properties.                                                             *)

\* The gateway holds a user online exactly while one of his sockets is open,
\* with those sockets, however he opens and closes them.
PresenceMatchesSockets ==
  /\ \A u \in Users : Online(u) <=> \E s \in Open : sockets[s] = u
  /\ \A u \in DOMAIN connectedUsers :
       connectedUsers[u] = {s \in Open : sockets[s] = u}

\* When requests come one after another and nothing fails, a client shows
\* every live task as the table has it, although each edit sends the row twice
\* and reads the old one from a cache.  Edits served by another replica do not
\* reach it.
OrderlyFeedIsCurrent ==
  Orderly => \A s \in Open \ missed : \A t \in Live : seen[s][t] = tasks[t]

\* The records of a trail that tell field f.
Tellings(records, f) == {i \in DOMAIN records : f \in DOMAIN records[i]}

\* What the last of them tells, and before the first the row that was created.
LastTold(records, f, first) ==
  IF Tellings(records, f) = {} THEN first
  ELSE LET last == CHOOSE i \in Tellings(records, f) :
                     \A j \in Tellings(records, f) : j <= i
       IN  records[last][f]

\* A task as its trail tells it.
Told(t) == [firstRow[t] EXCEPT !.status = LastTold(trail[t], "new", @),
                               !.assignee = LastTold(trail[t], "assignee", @)]

\* When requests come one after another on one replica and nothing fails, the
\* audit trail of a live task rebuilds its status, and its assignee as long as
\* it has one, and its creator was mailed if it was completed after its
\* creation.  The trail does not tell when an assignee is taken away.
ListenersKnowTask ==
  Orderly /\ ~ lost /\ (\E p \in Replicas : editors \subseteq {p}) =>
    \A t \in Live :
      /\ Told(t).status = tasks[t].status
      /\ tasks[t].assignee # NoUser => Told(t).assignee = tasks[t].assignee
      /\ tasks[t].status = Completed /\ firstRow[t].status # Completed
           => t \in mailed
=============================================================================
