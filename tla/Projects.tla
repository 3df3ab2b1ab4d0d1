------------------------------ MODULE Projects ------------------------------
(***************************************************************************)
(* ProjectsService for the clients of Accounts that hold a token: the      *)
(* projects of their tenants, and in the memory of a replica the cached    *)
(* list of a tenant and the cached project.  A creation looks for the key  *)
(* and inserts; a removal and a creation leave the caches alone.  Errors   *)
(* of the cache are swallowed, those of the database reject the request.   *)
(*                                                                         *)
(* Every replica has a cache of its own, and none reads another's: the     *)
(* model keeps that of one, Here.  What the others have cached decides     *)
(* only whether they ask the database, so there they may or may not.       *)
(***************************************************************************)
EXTENDS Accounts

CONSTANTS
  Replicas,   \* the processes that serve requests about projects
  Here,       \* the one whose cache is modelled
  ProjectIds, Keys,
  MaxEdits,   \* bound: creations, updates and removals
  NoProject,  \* the absence of a row
  Absent      \* the absence of a cache entry

ASSUME EditsAreCounted == MaxEdits \in Nat

ASSUME HereIsReplica == Here \in Replicas

VARIABLES
  projects,    \* the table projects; of the fields a client sets only the key
  cachedList,  \* the cached list of each tenant
  cachedOne,   \* each project as it is cached
  overlapped,  \* history: two requests about projects were once in progress
  editors,     \* history: replicas with an update that has set another key
  undeleted,   \* history: a deletion from a cache failed after a committed
               \* update, or was not reached
  edits

projectVars == <<projects, cachedList, cachedOne, overlapped, editors, undeleted, edits>>
vars == <<accountVars, projectVars>>

Project == [tenant : TenantIds, key : Keys, deleted : BOOLEAN]

ASSUME NoProjectIsNoRow == NoProject \notin Project

Init ==
  /\ AccountsInit
  /\ projects = [p \in ProjectIds |-> NoProject]
  /\ cachedList = [t \in TenantIds |-> Absent]
  /\ cachedOne = [p \in ProjectIds |-> Absent]
  /\ overlapped = FALSE /\ editors = {} /\ undeleted = FALSE /\ edits = 0

\* A query does not see what was removed.
LiveIn(t) == {p \in ProjectIds : /\ projects[p] # NoProject
                                 /\ projects[p].tenant = t /\ ~projects[p].deleted}

OfTenant(t) == {p \in ProjectIds : projects[p] # NoProject /\ projects[p].tenant = t}

ListOf(t) == [p \in LiveIn(t) |-> projects[p].key]

-----------------------------------------------------------------------------
AboutProjects(c) == request[c].pc \in {"findKey", "insert", "queryList", "fillList",
  "queryOne", "again", "fillOne", "write", "delOne", "delList", "reread"}

Begins(c) ==
  /\ request[c] = Idle /\ token[c] # NoTenant
  /\ overlapped' = (overlapped \/ \E o \in Clients : AboutProjects(o))
  /\ UNCHANGED <<tenants, users, token, refused, attempts, faults>>

Edit == edits < MaxEdits /\ edits' = edits + 1

\* create: is the key there?
Create(c) ==
  /\ Begins(c) /\ Edit
  /\ \E r \in Replicas, k \in Keys : Goes(c, [pc |-> "findKey", at |-> r, key |-> k])
  /\ UNCHANGED <<projects, cachedList, cachedOne, editors, undeleted>>

\* Faulty variant: no key is ever taken.
KeyNeverTaken(t, k) == FALSE

KeyTaken(t, k) == \E p \in LiveIn(t) : projects[p].key = k

FindKey(c) ==
  /\ request[c].pc = "findKey"
  /\ IF KeyTaken(token[c], request[c].key) THEN Goes(c, Idle) ELSE Step(c, "insert")
  /\ UNCHANGED <<projectVars, faults>>

Insert(c) ==
  /\ request[c].pc = "insert"
  /\ \E p \in ProjectIds :
       /\ projects[p] = NoProject
       /\ projects' = [projects EXCEPT ![p] =
            [tenant |-> token[c], key |-> request[c].key, deleted |-> FALSE]]
  /\ Goes(c, Idle)
  /\ UNCHANGED <<cachedList, cachedOne, overlapped, editors, undeleted, edits, faults>>

\* get may find an entry in the cache of replica r, and may find none.
Hit(r, entry) == r = Here => entry # Absent
Miss(r, entry) == r = Here => entry = Absent

\* findAll: the cached list, or the database's.
FindAll(c) ==
  /\ Begins(c)
  /\ \E r \in Replicas :
       \/ Hit(r, cachedList[token[c]]) /\ Goes(c, Idle)
       \/ Miss(r, cachedList[token[c]]) /\ Goes(c, [pc |-> "queryList", at |-> r])
  /\ UNCHANGED <<projects, cachedList, cachedOne, editors, undeleted, edits>>

QueryList(c) ==
  /\ request[c].pc = "queryList"
  /\ Goes(c, [pc |-> "fillList", at |-> request[c].at, found |-> ListOf(token[c])])
  /\ UNCHANGED <<projectVars, faults>>

\* set or del of replica r's CacheService, which swallows the error.
SetList(r, t, v) ==
  \/ /\ cachedList' = IF r = Here THEN [cachedList EXCEPT ![t] = v] ELSE cachedList
     /\ UNCHANGED faults
  \/ Fault /\ UNCHANGED cachedList

SetOne(r, p, v) ==
  \/ /\ cachedOne' = IF r = Here THEN [cachedOne EXCEPT ![p] = v] ELSE cachedOne
     /\ UNCHANGED faults
  \/ Fault /\ UNCHANGED cachedOne

FillList(c) ==
  /\ request[c].pc = "fillList"
  /\ SetList(request[c].at, token[c], request[c].found)
  /\ Goes(c, Idle)
  /\ UNCHANGED <<projects, cachedOne, overlapped, editors, undeleted, edits>>

\* Once findOne has its answer, an update that has not written goes on.
Found(q) == IF q.key = Absent THEN Idle ELSE [q EXCEPT !.pc = "write"]

Ask(c, q) ==
  \/ Hit(q.at, cachedOne[q.project]) /\ Goes(c, Found(q))
  \/ Miss(q.at, cachedOne[q.project]) /\ Goes(c, [q EXCEPT !.pc = "queryOne"])

FindOne(c) ==
  /\ Begins(c)
  /\ \E r \in Replicas, p \in OfTenant(token[c]) :
       Ask(c, [pc |-> "reread", at |-> r, project |-> p, key |-> Absent, found |-> Absent])
  /\ UNCHANGED <<projects, cachedList, cachedOne, editors, undeleted, edits>>

\* update begins with findOne.
Update(c) ==
  /\ Begins(c) /\ Edit
  /\ \E r \in Replicas, p \in OfTenant(token[c]), k \in Keys :
       Ask(c, [pc |-> "reread", at |-> r, project |-> p, key |-> k, found |-> Absent])
  /\ UNCHANGED <<projects, cachedList, cachedOne, editors, undeleted>>

\* A project that is not found is asked for once more, and rejected.
QueryOne(c) ==
  /\ request[c].pc = "queryOne"
  /\ LET p == request[c].project
     IN Goes(c, IF p \in LiveIn(token[c])
                THEN [request[c] EXCEPT !.pc = "fillOne", !.found = projects[p].key]
                ELSE Idle)
  /\ UNCHANGED <<projectVars, faults>>

\* The query of a project fails: wrap asks again and does not cache the answer.
QueryOneFails(c) ==
  /\ request[c].pc = "queryOne"
  /\ Fault
  /\ Step(c, "again")
  /\ UNCHANGED projectVars

Again(c) ==
  /\ request[c].pc = "again"
  /\ Goes(c, IF request[c].project \in LiveIn(token[c]) THEN Found(request[c]) ELSE Idle)
  /\ UNCHANGED <<projectVars, faults>>

FillOne(c) ==
  /\ request[c].pc = "fillOne"
  /\ SetOne(request[c].at, request[c].project, request[c].found)
  /\ Goes(c, Found(request[c]))
  /\ UNCHANGED <<projects, cachedList, overlapped, editors, undeleted, edits>>

\* The UPDATE sets the key without looking for it, also of a removed project.
Commits(c) ==
  /\ request[c].pc = "write"
  /\ projects' = [projects EXCEPT ![request[c].project].key = request[c].key]
  /\ editors' = IF projects' # projects THEN editors \cup {request[c].at} ELSE editors
  /\ UNCHANGED <<cachedList, cachedOne, overlapped, edits>>

Write(c) ==
  /\ Commits(c)
  /\ Step(c, "delOne")
  /\ UNCHANGED <<undeleted, faults>>

\* The answer is lost: update throws, and the deletions are not reached.
WriteUnheard(c) ==
  /\ Commits(c)
  /\ Fault
  /\ Goes(c, Idle)
  /\ undeleted' = TRUE

DelOne(c) ==
  /\ request[c].pc = "delOne"
  /\ SetOne(request[c].at, request[c].project, Absent)
  /\ undeleted' = (undeleted \/ faults' # faults)
  /\ Step(c, "delList")
  /\ UNCHANGED <<projects, cachedList, overlapped, editors, edits>>

\* Faulty variant: the list stays.
DelNothing(c) ==
  /\ request[c].pc = "delList"
  /\ Step(c, "reread")
  /\ UNCHANGED <<projectVars, faults>>

DelList(c) ==
  /\ request[c].pc = "delList"
  /\ SetList(request[c].at, token[c], Absent)
  /\ undeleted' = (undeleted \/ faults' # faults)
  /\ Step(c, "reread")
  /\ UNCHANGED <<projects, cachedOne, overlapped, editors, edits>>

\* update ends with findOne.
Reread(c) ==
  /\ request[c].pc = "reread"
  /\ Ask(c, [request[c] EXCEPT !.key = Absent])
  /\ UNCHANGED <<projectVars, faults>>

\* Any other query fails, and the request with it; a list that fails once is
\* asked for again, and not cached.
Rejects(c) ==
  /\ request[c].pc \in {"findKey", "insert", "queryList", "again", "write"}
  /\ Fault
  /\ Goes(c, Idle)
  /\ UNCHANGED projectVars

\* remove: softDelete, and nothing else.
Remove(c) ==
  /\ Begins(c) /\ Edit
  /\ \E p \in OfTenant(token[c]) : projects' = [projects EXCEPT ![p].deleted = TRUE]
  /\ UNCHANGED <<request, cachedList, cachedOne, editors, undeleted>>

\* A replica dies with its requests and its cache; its successor starts with
\* an empty one.  Requests of Accounts fail on their own.
Restart(r) ==
  /\ Fault
  /\ request' = [c \in Clients |->
       IF AboutProjects(c) /\ request[c].at = r THEN Idle ELSE request[c]]
  /\ IF r = Here THEN /\ cachedList' = [t \in TenantIds |-> Absent]
                      /\ cachedOne' = [p \in ProjectIds |-> Absent]
     ELSE UNCHANGED <<cachedList, cachedOne>>
  /\ UNCHANGED <<tenants, users, token, refused, attempts>>
  /\ UNCHANGED <<projects, overlapped, editors, undeleted, edits>>

\* Entries have a time to live.
Expire ==
  /\ \/ /\ \E t \in TenantIds : /\ cachedList[t] # Absent
                                /\ cachedList' = [cachedList EXCEPT ![t] = Absent]
        /\ UNCHANGED cachedOne
     \/ /\ \E p \in ProjectIds : /\ cachedOne[p] # Absent
                                 /\ cachedOne' = [cachedOne EXCEPT ![p] = Absent]
        /\ UNCHANGED cachedList
  /\ UNCHANGED <<accountVars, projects, overlapped, editors, undeleted, edits>>

Proceed(c) ==
  /\ \/ FindKey(c) \/ Insert(c) \/ QueryList(c) \/ FillList(c) \/ QueryOne(c)
     \/ QueryOneFails(c) \/ Again(c) \/ FillOne(c) \/ Write(c) \/ WriteUnheard(c)
     \/ DelOne(c) \/ DelList(c) \/ Reread(c) \/ Rejects(c)
  /\ UNCHANGED <<tenants, users, token, refused, attempts>>

Next ==
  \/ AccountsNext /\ UNCHANGED projectVars
  \/ \E c \in Clients :
       \/ Create(c) \/ FindAll(c) \/ FindOne(c) \/ Update(c) \/ Remove(c)
       \/ Proceed(c)
  \/ \E r \in Replicas : Restart(r)
  \/ Expire

Spec == Init /\ [][Next]_vars

-----------------------------------------------------------------------------
(* Properties.                                                             *)

\* "Check if project key already exists for this tenant": while requests come
\* one after another, two live projects of a tenant do not share a key, unless
\* an update has set one, though queries fail and replicas restart.  No index
\* stands behind the check.
OrderlyKeysAreUnique ==
  ~overlapped /\ editors = {} =>
    \A t \in TenantIds : \A p, o \in LiveIn(t) :
      projects[p].key = projects[o].key => p = o

\* While requests come one after another, and every update that has set a key
\* came to the same replica and got to its deletions, which did not fail, that
\* replica's cached lists and projects show the current fields of what is still
\* there, although creations and removals are missing from them until they
\* expire, and whatever else fails.
OrderlyCacheShowsFields ==
  /\ ~overlapped /\ ~undeleted /\ editors \subseteq {Here}
  /\ \A c \in Clients : ~AboutProjects(c)
  => \A t \in TenantIds : \A p \in LiveIn(t) :
       /\ cachedOne[p] \in {Absent, projects[p].key}
       /\ cachedList[t] # Absent /\ p \in DOMAIN cachedList[t]
            => cachedList[t][p] = projects[p].key
=============================================================================
