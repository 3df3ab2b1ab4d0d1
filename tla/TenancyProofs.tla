---------------------------- MODULE TenancyProofs ---------------------------
(***************************************************************************)
(* TLAPS proofs about Accounts and Projects, for any number of clients,    *)
(* tenants, projects, requests and faults: registrations are all or        *)
(* nothing however they race and implement the one-step directory of       *)
(* TenantDirectory, refusals are justified, and what the requests about    *)
(* projects keep while they come one after another.                        *)
(***************************************************************************)
EXTENDS Projects, FiniteSetTheorems, TLAPS

-----------------------------------------------------------------------------
(* Accounts.                                                               *)

RegisterPcs == {"findTenant", "saveTenant", "saveUser", "commit"}

Registration == [pc : RegisterPcs, subdomain : Subdomains, email : Emails,
                 tenant : TenantIds \cup {NoTenant}]

AccountsTyped ==
  /\ tenants \in [TenantIds -> Subdomains \cup {NoTenant}]
  /\ users \subseteq User
  /\ token \in [Clients -> TenantIds \cup {NoTenant}]
  /\ \A c \in Clients : request[c].pc \in RegisterPcs => request[c] \in Registration
  /\ DOMAIN request = Clients
  /\ \A x \in refused : "subdomain" \in DOMAIN x => x.subdomain \in Subdomains

\* A tenant has one user, a user a tenant, a subdomain one tenant.
TablesAgree ==
  /\ \A u \in users : tenants[u.tenant] # NoTenant
  /\ \A u, v \in users : u.tenant = v.tenant => u = v
  /\ \A t \in TenantIds : tenants[t] # NoTenant => \E u \in users : u.tenant = t
  /\ \A t, o \in TenantIds : tenants[t] = tenants[o] => t = o \/ tenants[t] = NoTenant
  /\ \A c \in Clients : token[c] # NoTenant => tenants[token[c]] # NoTenant

\* A transaction that inserted a tenant holds an id and a subdomain that no row
\* and no other open transaction has.
TransactionsAreApart ==
  \A c \in Clients : InTransaction(c) =>
    /\ request[c].tenant \in TenantIds
    /\ tenants[request[c].tenant] = NoTenant
    /\ ~Taken(request[c].subdomain)
    /\ \A o \in Clients \ {c} : InTransaction(o) =>
         /\ request[o].tenant # request[c].tenant
         /\ request[o].subdomain # request[c].subdomain

AccountsInv ==
  AccountsTyped /\ TablesAgree /\ TransactionsAreApart /\ RefusalsAreJustified

-----------------------------------------------------------------------------
\* What there is stays, so what was refused rightly stays justified.
LEMMA JustifiedStays ==
  ASSUME AccountsInv, refused' = refused, users \subseteq users',
         \A t \in TenantIds : tenants[t] # NoTenant => tenants'[t] = tenants[t]
  PROVE  RefusalsAreJustified'
<1>1. \A x \in refused : "subdomain" \in DOMAIN x => Taken(x.subdomain)'
  <2> SUFFICES ASSUME NEW x \in refused, "subdomain" \in DOMAIN x
               PROVE  Taken(x.subdomain)'
    OBVIOUS
  <2>1. Taken(x.subdomain) /\ x.subdomain # NoTenant
    BY AccountConstantsAreTyped DEF AccountsInv, AccountsTyped, RefusalsAreJustified
  <2> QED
    BY <2>1 DEF Taken
<1>2. \A x \in refused : "subdomain" \notin DOMAIN x =>
        \E u \in users' : u.email = x.email /\ u # x
  BY DEF AccountsInv, RefusalsAreJustified
<1> QED
  BY <1>1, <1>2 DEF RefusalsAreJustified

\* A step that writes no table and begins no transaction.
LEMMA SameTables ==
  ASSUME AccountsInv, tenants' = tenants, users' = users,
         token' \in [Clients -> TenantIds \cup {NoTenant}],
         \A c \in Clients : token'[c] # NoTenant => tenants[token'[c]] # NoTenant,
         DOMAIN request' = Clients,
         \A c \in Clients :
           \/ request'[c] = request[c]
           \/ /\ request'[c].pc \in RegisterPcs => request'[c] \in Registration
              /\ request'[c].pc \in {"saveUser", "commit"} =>
                   /\ InTransaction(c)
                   /\ request'[c].tenant = request[c].tenant
                   /\ request'[c].subdomain = request[c].subdomain,
         \A x \in refused' : "subdomain" \in DOMAIN x => x.subdomain \in Subdomains,
         RefusalsAreJustified'
  PROVE  AccountsInv'
<1>1. \A c \in Clients : InTransaction(c)' =>
        /\ InTransaction(c)
        /\ request'[c].tenant = request[c].tenant
        /\ request'[c].subdomain = request[c].subdomain
  BY DEF InTransaction
<1>2. TransactionsAreApart'
  BY <1>1 DEF AccountsInv, TransactionsAreApart, Taken
<1>3. AccountsTyped'
  BY DEF AccountsInv, AccountsTyped
<1>4. TablesAgree'
  BY DEF AccountsInv, TablesAgree
<1> QED
  BY <1>2, <1>3, <1>4 DEF AccountsInv

\* The request of one client goes on.
LEMMA GoesMoves ==
  ASSUME AccountsTyped, NEW c \in Clients, NEW q, Goes(c, q)
  PROVE  /\ DOMAIN request' = Clients /\ request'[c] = q
         /\ \A o \in Clients \ {c} : request'[o] = request[o]
BY DEF Goes, AccountsTyped

\* A registration that goes on keeps its request.
LEMMA StepMoves ==
  ASSUME AccountsTyped, NEW c \in Clients, request[c].pc \in RegisterPcs,
         NEW pc \in RegisterPcs, Step(c, pc)
  PROVE  /\ DOMAIN request' = Clients
         /\ \A o \in Clients \ {c} : request'[o] = request[o]
         /\ request'[c] \in Registration /\ request'[c].pc = pc
         /\ request'[c].tenant = request[c].tenant
         /\ request'[c].subdomain = request[c].subdomain
<1>1. request[c] \in Registration
  BY DEF AccountsTyped
<1> DEFINE q == [request[c] EXCEPT !.pc = pc]
<1>2. q \in Registration /\ q.pc = pc /\ q.tenant = request[c].tenant
      /\ q.subdomain = request[c].subdomain
  BY <1>1 DEF Registration
<1>3. request' = [request EXCEPT ![c] = q]
  BY DEF Step
<1> HIDE DEF q
<1> QED
  BY <1>2, <1>3 DEF AccountsTyped

\* A refusal for a subdomain in use.
LEMMA RefuseKeeps ==
  ASSUME AccountsInv, NEW c \in Clients, request[c].pc \in {"findTenant", "saveTenant"},
         Refuse(c), Taken(request[c].subdomain), UNCHANGED <<tenants, users, token>>
  PROVE  AccountsInv'
<1>1. AccountsTyped /\ request[c] \in Registration
  BY DEF AccountsInv, AccountsTyped, RegisterPcs
<1> DEFINE x == [subdomain |-> request[c].subdomain]
<1>2. refused' = refused \cup {x} /\ Goes(c, Idle)
  BY DEF Refuse
<1>3. "subdomain" \in DOMAIN x /\ x.subdomain = request[c].subdomain
      /\ x.subdomain \in Subdomains
  BY <1>1 DEF Registration
<1> HIDE DEF x
<1>4. RefusalsAreJustified'
  BY <1>2, <1>3 DEF AccountsInv, RefusalsAreJustified, Taken
<1>5. \A y \in refused' : "subdomain" \in DOMAIN y => y.subdomain \in Subdomains
  BY <1>1, <1>2, <1>3 DEF AccountsTyped
<1>6. /\ DOMAIN request' = Clients /\ request'[c].pc = "idle"
      /\ \A o \in Clients \ {c} : request'[o] = request[o]
  BY <1>1, <1>2, GoesMoves DEF Idle
<1>7. /\ token' \in [Clients -> TenantIds \cup {NoTenant}]
      /\ \A o \in Clients : token'[o] # NoTenant => tenants[token'[o]] # NoTenant
  BY DEF AccountsInv, AccountsTyped, TablesAgree
<1> QED
  BY <1>4, <1>5, <1>6, <1>7, SameTables DEF RegisterPcs

\* The insert of a tenant opens a transaction with an unused id.
LEMMA SaveTenantKeeps ==
  ASSUME AccountsInv, NEW c \in Clients, SaveTenant(c)
  PROVE  AccountsInv'
<1>1. /\ AccountsTyped /\ request[c].pc = "saveTenant" /\ request[c] \in Registration
      /\ ~MustWait(c) /\ UNCHANGED <<tenants, users, token>>
  BY DEF SaveTenant, AccountsInv, AccountsTyped, RegisterPcs
<1>2. CASE Taken(request[c].subdomain)
  BY <1>1, <1>2, RefuseKeeps DEF SaveTenant
<1>3. CASE ~Taken(request[c].subdomain)
  <2>1. PICK t \in Unused : Goes(c, [request[c] EXCEPT !.pc = "saveUser", !.tenant = t])
    BY <1>3 DEF SaveTenant
  <2>2. refused' = refused
    BY <1>3 DEF SaveTenant
  <2>3. /\ t \in TenantIds /\ tenants[t] = NoTenant
        /\ \A o \in Clients : InTransaction(o) => request[o].tenant # t
    BY DEF Unused
  <2> DEFINE q == [request[c] EXCEPT !.pc = "saveUser", !.tenant = t]
  <2>4. /\ q \in Registration /\ q.pc = "saveUser" /\ q.tenant = t
        /\ q.subdomain = request[c].subdomain
    BY <1>1, <2>3 DEF Registration, RegisterPcs
  <2>5. /\ DOMAIN request' = Clients /\ request'[c] = q
        /\ \A o \in Clients \ {c} : request'[o] = request[o]
    BY <1>1, <2>1, GoesMoves
  <2> HIDE DEF q
  <2>6. AccountsTyped'
    BY <1>1, <2>2, <2>4, <2>5 DEF AccountsTyped
  <2>7. TablesAgree' /\ RefusalsAreJustified'
    BY <1>1, <2>2, JustifiedStays DEF AccountsInv, TablesAgree
  <2>8. \A o \in Clients \ {c} :
          /\ InTransaction(o)' <=> InTransaction(o)
          /\ InTransaction(o) => request[o].subdomain # request[c].subdomain
    BY <1>1, <2>5 DEF InTransaction, MustWait
  <2>9. ~ InTransaction(c) /\ TransactionsAreApart
    BY <1>1 DEF InTransaction, AccountsInv
  <2>10. TransactionsAreApart'
    <3> SUFFICES ASSUME NEW o \in Clients, InTransaction(o)'
                 PROVE  /\ request'[o].tenant \in TenantIds
                        /\ tenants[request'[o].tenant] = NoTenant
                        /\ ~Taken(request'[o].subdomain)
                        /\ \A f \in Clients \ {o} : InTransaction(f)' =>
                             /\ request'[f].tenant # request'[o].tenant
                             /\ request'[f].subdomain # request'[o].subdomain
      BY <1>1 DEF TransactionsAreApart, Taken
    <3>1. CASE o = c
      BY <1>3, <2>3, <2>4, <2>5, <2>8, <3>1
    <3>2. CASE o # c
      BY <2>3, <2>4, <2>5, <2>8, <2>9, <3>2 DEF TransactionsAreApart
    <3> QED
      BY <3>1, <3>2
  <2> QED
    BY <2>6, <2>7, <2>10 DEF AccountsInv
<1> QED
  BY <1>2, <1>3

\* The commit makes the tenant and its administrator visible together.
LEMMA CommitKeeps ==
  ASSUME AccountsInv, NEW c \in Clients, Commit(c)
  PROVE  AccountsInv'
<1> DEFINE t == request[c].tenant
           d == request[c].subdomain
           u == [tenant |-> t, email |-> request[c].email]
<1>1. /\ AccountsTyped /\ request[c].pc = "commit" /\ request[c] \in Registration
      /\ InTransaction(c) /\ refused' = refused
      /\ tenants' = [tenants EXCEPT ![t] = d]
      /\ users' = users \cup {u}
      /\ token' = token \/ token' = [token EXCEPT ![c] = t]
      /\ Goes(c, Idle)
  BY DEF Commit, AccountsInv, AccountsTyped, RegisterPcs, InTransaction
<1>2. /\ t \in TenantIds /\ tenants[t] = NoTenant /\ ~Taken(d)
      /\ d \in Subdomains /\ d # NoTenant
      /\ u \in User /\ u.tenant = t
      /\ \A o \in Clients \ {c} : InTransaction(o) =>
           request[o].tenant # t /\ request[o].subdomain # d
  <2>1. /\ t \in TenantIds /\ tenants[t] = NoTenant /\ ~Taken(d)
        /\ \A o \in Clients \ {c} : InTransaction(o) =>
             request[o].tenant # t /\ request[o].subdomain # d
    BY <1>1 DEF AccountsInv, TransactionsAreApart
  <2>2. d \in Subdomains /\ request[c].email \in Emails
    BY <1>1 DEF Registration
  <2> QED
    BY <2>1, <2>2, AccountConstantsAreTyped DEF User
<1>3. /\ DOMAIN request' = Clients /\ request'[c].pc = "idle"
      /\ \A o \in Clients \ {c} : request'[o] = request[o]
  BY <1>1, GoesMoves DEF Idle
<1> SUFFICES ASSUME NEW t0, t0 = t, NEW d0, d0 = d, NEW u0, u0 = u PROVE AccountsInv'
  OBVIOUS
<1> HIDE DEF t, d, u
<1>4. /\ tenants'[t0] = d0 /\ \A o \in TenantIds \ {t0} : tenants'[o] = tenants[o]
      /\ tenants' \in [TenantIds -> Subdomains \cup {NoTenant}]
  BY <1>1, <1>2 DEF AccountsTyped
<1>5. AccountsTyped'
  BY <1>1, <1>2, <1>3, <1>4 DEF AccountsTyped, RegisterPcs
<1>6. \A v \in users : v.tenant # t0 /\ tenants'[v.tenant] = tenants[v.tenant]
  BY <1>1, <1>2, <1>4 DEF AccountsInv, TablesAgree, AccountsTyped, User
<1>7. TablesAgree'
  <2>1. \A v \in users' : tenants'[v.tenant] # NoTenant
    BY <1>1, <1>2, <1>4, <1>6 DEF AccountsInv, TablesAgree
  <2>2. \A v, w \in users' : v.tenant = w.tenant => v = w
    BY <1>1, <1>2, <1>6 DEF AccountsInv, TablesAgree
  <2>3. \A o \in TenantIds : tenants'[o] # NoTenant => \E v \in users' : v.tenant = o
    BY <1>1, <1>2, <1>4 DEF AccountsInv, TablesAgree
  <2>4. \A o, f \in TenantIds : tenants'[o] = tenants'[f] => o = f \/ tenants'[o] = NoTenant
    BY <1>1, <1>2, <1>4 DEF AccountsInv, TablesAgree, Taken
  <2>5. \A o \in Clients : token'[o] # NoTenant => tenants'[token'[o]] # NoTenant
    BY <1>1, <1>2, <1>4 DEF AccountsInv, TablesAgree, AccountsTyped
  <2> QED
    BY <2>1, <2>2, <2>3, <2>4, <2>5 DEF TablesAgree
<1>8. \A o \in Clients : InTransaction(o)' =>
        /\ InTransaction(o) /\ o # c /\ request'[o] = request[o]
        /\ request[o].tenant # t0 /\ request[o].subdomain # d0
  BY <1>2, <1>3 DEF InTransaction
<1>9. TransactionsAreApart'
  BY <1>4, <1>8 DEF AccountsInv, TransactionsAreApart, Taken
<1>10. RefusalsAreJustified'
  BY <1>1, <1>2, <1>4, JustifiedStays
<1> QED
  BY <1>5, <1>7, <1>9, <1>10 DEF AccountsInv

\* A login with the right password is refused for a user of the same email.
LEMMA LoginKeeps ==
  ASSUME AccountsInv, NEW c \in Clients, Login(c)
  PROVE  AccountsInv'
<1>1. /\ AccountsTyped /\ UNCHANGED <<tenants, users, request>>
  BY DEF Login, AccountsInv
<1>2. PICK account \in users, found \in users :
        /\ found.email = account.email
        /\ IF found = account
           THEN token' = [token EXCEPT ![c] = account.tenant] /\ UNCHANGED refused
           ELSE refused' = refused \cup {account} /\ UNCHANGED token
  BY DEF Login
<1>3. /\ account \in User /\ tenants[account.tenant] # NoTenant
      /\ account.tenant \in TenantIds
  BY <1>1 DEF AccountsTyped, AccountsInv, TablesAgree, User
<1>4. "subdomain" \notin DOMAIN account
  BY <1>3 DEF User
<1>5. /\ token' \in [Clients -> TenantIds \cup {NoTenant}]
      /\ \A o \in Clients : token'[o] # NoTenant => tenants[token'[o]] # NoTenant
  BY <1>1, <1>2, <1>3 DEF AccountsTyped, AccountsInv, TablesAgree
<1>6. \A x \in refused' : "subdomain" \in DOMAIN x => x.subdomain \in Subdomains
  BY <1>1, <1>2, <1>4 DEF AccountsTyped
<1>7. RefusalsAreJustified'
  <2>1. CASE refused' = refused
    BY <1>1, <2>1, JustifiedStays
  <2>2. CASE found # account
    BY <1>1, <1>2, <1>4, <2>2 DEF AccountsInv, RefusalsAreJustified, Taken
  <2> QED
    BY <1>2, <2>1, <2>2
<1>8. DOMAIN request' = Clients
  BY <1>1 DEF AccountsTyped
<1> QED
  BY <1>1, <1>5, <1>6, <1>7, <1>8, SameTables

\* Steps that leave the tables and what was refused as they are.
LEMMA RequestKeeps ==
  ASSUME AccountsInv, NEW c \in Clients,
         UNCHANGED <<tenants, users, token, refused>>,
         DOMAIN request' = Clients,
         \A o \in Clients \ {c} : request'[o] = request[o],
         request'[c].pc \in RegisterPcs => request'[c] \in Registration,
         request'[c].pc \in {"saveUser", "commit"} =>
           /\ InTransaction(c)
           /\ request'[c].tenant = request[c].tenant
           /\ request'[c].subdomain = request[c].subdomain
  PROVE  AccountsInv'
<1>1. RefusalsAreJustified'
  BY JustifiedStays
<1>2. /\ token' \in [Clients -> TenantIds \cup {NoTenant}]
      /\ \A o \in Clients : token'[o] # NoTenant => tenants[token'[o]] # NoTenant
      /\ \A x \in refused' : "subdomain" \in DOMAIN x => x.subdomain \in Subdomains
  BY DEF AccountsInv, AccountsTyped, TablesAgree
<1> QED
  BY <1>1, <1>2, SameTables

\* Every step of the registrations and logins keeps tenants and users whole.
LEMMA AccountsStep ==
  ASSUME AccountsInv, AccountsNext
  PROVE  AccountsInv'
<1>0. AccountsTyped
  BY DEF AccountsInv
<1>1. ASSUME NEW c \in Clients, Register(c) PROVE AccountsInv'
  <2>1. PICK d \in Subdomains, m \in Emails :
          Goes(c, [pc |-> "findTenant", subdomain |-> d, email |-> m, tenant |-> NoTenant])
    BY <1>1 DEF Register
  <2>2. [pc |-> "findTenant", subdomain |-> d, email |-> m, tenant |-> NoTenant]
          \in Registration
    BY DEF Registration, RegisterPcs
  <2> QED
    BY <1>0, <1>1, <2>1, <2>2, GoesMoves, RequestKeeps DEF Register
<1>2. ASSUME NEW c \in Clients, FindTenant(c) PROVE AccountsInv'
  <2>1. CASE Taken(request[c].subdomain)
    BY <1>2, <2>1, RefuseKeeps DEF FindTenant
  <2>2. CASE ~Taken(request[c].subdomain)
    <3>1. /\ Step(c, "saveTenant") /\ request[c].pc = "findTenant"
          /\ UNCHANGED <<tenants, users, token, refused>>
      BY <1>2, <2>2 DEF FindTenant
    <3> QED
      BY <1>0, <3>1, StepMoves, RequestKeeps DEF RegisterPcs
  <2> QED
    BY <2>1, <2>2
<1>3. ASSUME NEW c \in Clients, SaveUser(c) PROVE AccountsInv'
  <2>1. /\ Step(c, "commit") /\ request[c].pc = "saveUser" /\ InTransaction(c)
        /\ UNCHANGED <<tenants, users, token, refused>>
    BY <1>3 DEF SaveUser, InTransaction
  <2> QED
    BY <1>0, <2>1, StepMoves, RequestKeeps DEF RegisterPcs
<1>4. ASSUME NEW c \in Clients, RegisterFails(c) PROVE AccountsInv'
  BY <1>0, <1>4, GoesMoves, RequestKeeps DEF RegisterFails, Idle, RegisterPcs
<1> QED
  BY <1>1, <1>2, <1>3, <1>4, SaveTenantKeeps, CommitKeeps, LoginKeeps
     DEF AccountsNext, Continue

-----------------------------------------------------------------------------
(* Projects.                                                               *)

\* The answers of findAll, and requests about projects.
Lists == UNION {[S -> Keys] : S \in SUBSET ProjectIds}

Creating == [pc : {"findKey", "insert"}, at : Replicas, key : Keys]

Listing ==
  [pc : {"queryList"}, at : Replicas] \cup [pc : {"fillList"}, at : Replicas, found : Lists]

AboutPcs == {"queryOne", "again", "fillOne", "write", "delOne", "delList", "reread"}

About == [pc : AboutPcs, at : Replicas, project : ProjectIds,
          key : Keys \cup {Absent}, found : Keys \cup {Absent}]

\* A request of a client of tenant t.
Fits(t, q) ==
  /\ q \in Creating \cup Listing \cup About
  /\ q \in About => q.project \in OfTenant(t)
  /\ q.pc = "write" => q.key \in Keys
  /\ q.pc = "fillOne" => q.found \in Keys

ProjectsTyped ==
  /\ projects \in [ProjectIds -> Project \cup {NoProject}]
  /\ cachedList \in [TenantIds -> Lists \cup {Absent}]
  /\ cachedOne \in [ProjectIds -> Keys \cup {Absent}]
  /\ overlapped \in BOOLEAN /\ undeleted \in BOOLEAN /\ editors \subseteq Replicas
  /\ \A c \in Clients : AboutProjects(c) =>
       token[c] \in TenantIds /\ Fits(token[c], request[c])

\* Projects that an update at Here has written and may still be cached there as
\* they were.
StaleOnes == {request[c].project :
  c \in {o \in Clients : request[o].pc = "delOne" /\ request[o].at = Here}}
Stale == {request[c].project :
  c \in {o \in Clients : request[o].pc \in {"delOne", "delList"} /\ request[o].at = Here}}

\* A list tells the keys of projects of a tenant, but for some.
Tells(list, t, but) ==
  \A p \in DOMAIN list : p \in OfTenant(t) /\ (p \notin but => list[p] = projects[p].key)

OneAtATime ==
  \A c, o \in Clients : AboutProjects(c) /\ AboutProjects(o) => c = o

KeysUnique ==
  \A t \in TenantIds : \A p, o \in LiveIn(t) : projects[p].key = projects[o].key => p = o

\* What the caches of Here depend on: updates that set a key came there and got
\* to their deletions.
CachesFollow == ~undeleted /\ editors \subseteq {Here}

CachesTell ==
  /\ \A t \in TenantIds : cachedList[t] # Absent => Tells(cachedList[t], t, Stale)
  /\ \A p \in ProjectIds : cachedOne[p] # Absent =>
       projects[p] # NoProject /\ (p \notin StaleOnes => cachedOne[p] = projects[p].key)

\* What a request has read and is about to use is still so.
ReadsHold ==
  \A c \in Clients :
    /\ request[c].pc = "insert" => ~KeyTaken(token[c], request[c].key)
    /\ request[c].pc = "fillList" => Tells(request[c].found, token[c], {})
    /\ request[c].pc = "fillOne" => request[c].found = projects[request[c].project].key

InOrder ==
  /\ OneAtATime /\ ReadsHold
  /\ CachesFollow => CachesTell
  /\ editors = {} => KeysUnique

Orderly == ~overlapped => InOrder

ProjectsInv == AccountsInv /\ ProjectsTyped /\ Orderly

\* Rows are added and changed, but never vanish or change their tenant.
RowsStay ==
  \A p \in ProjectIds : projects[p] # NoProject =>
    projects'[p] # NoProject /\ projects'[p].tenant = projects[p].tenant

-----------------------------------------------------------------------------
\* A row of a project, and the two ways it changes.
LEMMA RowFields ==
  ASSUME NEW x \in Project
  PROVE  /\ x.tenant \in TenantIds /\ x.key \in Keys /\ x.deleted \in BOOLEAN
         /\ x # NoProject
BY NoProjectIsNoRow DEF Project

\* A project that gets another key.
LEMMA RowRekeyed ==
  ASSUME NEW x \in Project, NEW k \in Keys
  PROVE  /\ [x EXCEPT !.key = k] \in Project /\ [x EXCEPT !.key = k].key = k
         /\ [x EXCEPT !.key = k].tenant = x.tenant
         /\ [x EXCEPT !.key = k].deleted = x.deleted
BY DEF Project

\* A project that is removed.
LEMMA RowRemoved ==
  ASSUME NEW x \in Project
  PROVE  /\ [x EXCEPT !.deleted = TRUE] \in Project
         /\ [x EXCEPT !.deleted = TRUE].deleted
         /\ [x EXCEPT !.deleted = TRUE].tenant = x.tenant
         /\ [x EXCEPT !.deleted = TRUE].key = x.key
BY DEF Project

\* The states in which requests about projects are.
LEMMA RequestFields ==
  ASSUME NEW q
  PROVE  /\ q \in Creating => q.pc \in {"findKey", "insert"} /\ q.key \in Keys
         /\ q \in Listing => q.pc \in {"queryList", "fillList"}
         /\ q \in Listing /\ q.pc = "fillList" => q.found \in Lists
         /\ q \in About =>
              /\ q.pc \in AboutPcs /\ q.at \in Replicas
              /\ q.project \in ProjectIds /\ q.key \in Keys \cup {Absent}
              /\ q.found \in Keys \cup {Absent}
         /\ q \in Creating \cup Listing => q.at \in Replicas /\ q.pc \notin AboutPcs
BY DEF Creating, Listing, About, AboutPcs

\* A request about a project moves to another state.
LEMMA AboutMoves ==
  ASSUME NEW q \in About, NEW pc \in AboutPcs
  PROVE  /\ [q EXCEPT !.pc = pc] \in About
         /\ [q EXCEPT !.pc = pc].pc = pc
         /\ [q EXCEPT !.pc = pc].project = q.project
         /\ [q EXCEPT !.pc = pc].key = q.key
         /\ [q EXCEPT !.pc = pc].at = q.at
BY DEF About

\* A request that reads its project once more.
LEMMA AboutAgain ==
  ASSUME NEW q \in About
  PROVE  /\ [q EXCEPT !.key = Absent] \in About
         /\ [q EXCEPT !.key = Absent].project = q.project
BY DEF About

\* A request that has found its project's key.
LEMMA AboutFound ==
  ASSUME NEW q \in About, NEW k \in Keys
  PROVE  /\ [q EXCEPT !.pc = "fillOne", !.found = k] \in About
         /\ [q EXCEPT !.pc = "fillOne", !.found = k].pc = "fillOne"
         /\ [q EXCEPT !.pc = "fillOne", !.found = k].found = k
         /\ [q EXCEPT !.pc = "fillOne", !.found = k].project = q.project
BY DEF About, AboutPcs

\* A request with its answer goes on to write or is over.
LEMMA FoundMoves ==
  ASSUME NEW t, NEW q \in About, q.project \in OfTenant(t)
  PROVE  Found(q) = Idle \/ (Fits(t, Found(q)) /\ Found(q).pc = "write")
<1>1. CASE q.key = Absent
  BY <1>1 DEF Found
<1>2. CASE q.key # Absent
  <2> DEFINE r == [q EXCEPT !.pc = "write"]
  <2>1. /\ Found(q) = r /\ r \in About /\ r.pc = "write"
        /\ r.project = q.project /\ r.key \in Keys
    BY <1>2, AboutMoves, RequestFields DEF Found, AboutPcs
  <2> HIDE DEF r
  <2> QED
    BY <2>1 DEF Fits
<1> QED
  BY <1>1, <1>2

\* findOne answers from the cache or asks the database.
LEMMA AskMoves ==
  ASSUME NEW t, NEW q \in About, q.project \in OfTenant(t), NEW c, Ask(c, q)
  PROVE  \E r : /\ Goes(c, r)
                /\ r = Idle \/ (Fits(t, r) /\ r.pc \in {"queryOne", "write"})
<1>1. CASE Goes(c, [q EXCEPT !.pc = "queryOne"])
  <2> DEFINE r == [q EXCEPT !.pc = "queryOne"]
  <2>1. Goes(c, r) /\ r \in About /\ r.pc = "queryOne" /\ r.project = q.project
    BY <1>1, AboutMoves DEF AboutPcs
  <2> HIDE DEF r
  <2> QED
    BY <2>1 DEF Fits
<1>2. CASE Goes(c, Found(q))
  BY <1>2, FoundMoves
<1> QED
  BY <1>1, <1>2 DEF Ask

\* The types, for a step of one client's request about projects.
LEMMA RequestTypes ==
  ASSUME ProjectsInv, NEW c \in Clients, NEW q,
         UNCHANGED <<tenants, users, token, refused>>,
         DOMAIN request' = Clients, request'[c] = q,
         \A o \in Clients \ {c} : request'[o] = request[o],
         token[c] \in TenantIds,
         q = Idle \/ Fits(token[c], q), RowsStay,
         projects' \in [ProjectIds -> Project \cup {NoProject}],
         cachedList' \in [TenantIds -> Lists \cup {Absent}],
         cachedOne' \in [ProjectIds -> Keys \cup {Absent}],
         overlapped' \in BOOLEAN, undeleted' \in BOOLEAN, editors' \subseteq Replicas
  PROVE  AccountsInv' /\ ProjectsTyped'
<1>1. q.pc \notin RegisterPcs
  BY RequestFields DEF Idle, Fits, RegisterPcs, AboutPcs
<1>2. AccountsInv'
  BY <1>1, RequestKeeps DEF ProjectsInv, RegisterPcs
<1>3. \A t \in TenantIds : OfTenant(t) \subseteq OfTenant(t)'
  BY DEF RowsStay, OfTenant
<1>4. ASSUME NEW o \in Clients, AboutProjects(o)'
      PROVE  token'[o] \in TenantIds /\ Fits(token[o], request[o])'
  <2>1. CASE o = c
    <3>1. q # Idle
      BY <1>4, <2>1 DEF AboutProjects, Idle
    <3> QED
      BY <1>3, <2>1, <3>1 DEF Fits
  <2>2. CASE o # c
    <3>1. token[o] \in TenantIds /\ Fits(token[o], request[o])
      BY <1>4, <2>2 DEF ProjectsInv, ProjectsTyped, AboutProjects
    <3> QED
      BY <1>3, <2>2, <3>1 DEF Fits
  <2> QED
    BY <2>1, <2>2
<1>5. ProjectsTyped'
  BY <1>4 DEF ProjectsTyped
<1> QED
  BY <1>2, <1>5

\* A request that begins while no other is in progress finds everything in
\* order; of the tables it may only remove a project.
LEMMA BeginOrderly ==
  ASSUME ProjectsInv, NEW c \in Clients, Begins(c),
         \A o \in Clients \ {c} : request'[o] = request[o],
         request'[c].pc \in {"idle", "findKey", "queryList", "queryOne", "write"},
         UNCHANGED <<cachedList, cachedOne, editors, undeleted>>,
         projects' \in [ProjectIds -> Project \cup {NoProject}],
         \A p \in ProjectIds :
           \/ projects'[p] = projects[p]
           \/ /\ projects[p] # NoProject /\ projects'[p] # NoProject
              /\ projects'[p].tenant = projects[p].tenant
              /\ projects'[p].key = projects[p].key
              /\ projects'[p].deleted
  PROVE  Orderly'
<1> SUFFICES ASSUME ~ overlapped' PROVE InOrder'
  BY DEF Orderly
<1>1. ~ overlapped /\ \A o \in Clients : ~ AboutProjects(o)
  BY DEF Begins, ProjectsInv, ProjectsTyped
<1>2. OneAtATime'
  BY <1>1 DEF OneAtATime, AboutProjects
<1>3. /\ Stale = {} /\ StaleOnes = {} /\ Stale' = {} /\ StaleOnes' = {}
  BY <1>1 DEF Stale, StaleOnes, AboutProjects
<1>4. ReadsHold'
  BY <1>1 DEF ReadsHold, AboutProjects
<1>5. /\ \A t \in TenantIds : OfTenant(t) \subseteq OfTenant(t)'
      /\ \A t \in TenantIds : \A p \in LiveIn(t)' : p \in LiveIn(t)
      /\ \A p \in ProjectIds : projects[p] # NoProject =>
           projects'[p] # NoProject /\ projects'[p].key = projects[p].key
  BY DEF OfTenant, LiveIn
<1>6. (CachesFollow => CachesTell) /\ (editors = {} => KeysUnique)
  BY <1>1 DEF ProjectsInv, Orderly, InOrder
<1>7. ASSUME CachesFollow PROVE CachesTell'
  <2>1. ASSUME NEW t \in TenantIds, cachedList[t] # Absent
        PROVE  Tells(cachedList[t], t, {})'
    <3>1. Tells(cachedList[t], t, {})
      BY <1>3, <1>6, <1>7, <2>1 DEF CachesTell
    <3> QED
      BY <1>5, <3>1 DEF Tells, OfTenant
  <2>2. ASSUME NEW p \in ProjectIds, cachedOne[p] # Absent
        PROVE  projects'[p] # NoProject /\ cachedOne[p] = projects'[p].key
    BY <1>3, <1>5, <1>6, <1>7, <2>2 DEF CachesTell
  <2> QED
    BY <1>3, <2>1, <2>2 DEF CachesTell
<1>8. editors = {} => KeysUnique'
  BY <1>5, <1>6 DEF KeysUnique, LiveIn
<1> QED
  BY <1>2, <1>4, <1>7, <1>8 DEF InOrder, CachesFollow

\* A request that only reads goes on.
LEMMA ReadOrderly ==
  ASSUME ProjectsInv, NEW c \in Clients, AboutProjects(c),
         request[c].pc \notin {"delOne", "delList"},
         \A o \in Clients \ {c} : request'[o] = request[o],
         UNCHANGED <<token, projectVars>>,
         request'[c].pc = "insert" => ~KeyTaken(token[c], request'[c].key),
         request'[c].pc = "fillList" => Tells(request'[c].found, token[c], {}),
         request'[c].pc = "fillOne" => request'[c].found = projects[request'[c].project].key,
         request'[c].pc \notin {"delOne", "delList"}
  PROVE  Orderly'
<1> SUFFICES ASSUME ~ overlapped PROVE InOrder'
  BY DEF Orderly, projectVars
<1>0. /\ UNCHANGED <<projects, cachedList, cachedOne, editors, undeleted>> /\ InOrder
  BY DEF ProjectsInv, Orderly, projectVars
<1>1. OneAtATime'
  BY <1>0 DEF InOrder, OneAtATime, AboutProjects
<1>2. Stale' = Stale /\ StaleOnes' = StaleOnes
  BY DEF Stale, StaleOnes
<1>3. CachesFollow => CachesTell'
  BY <1>0, <1>2 DEF InOrder, CachesTell, Tells, OfTenant
<1>4. ReadsHold'
  BY <1>0 DEF InOrder, ReadsHold, Tells, OfTenant, KeyTaken, LiveIn
<1>5. editors = {} => KeysUnique'
  BY <1>0 DEF InOrder, KeysUnique, LiveIn
<1> QED
  BY <1>0, <1>1, <1>3, <1>4, <1>5 DEF InOrder, CachesFollow

-----------------------------------------------------------------------------
\* Requests begin.
LEMMA BeginKeeps ==
  ASSUME ProjectsInv, NEW c \in Clients,
         Create(c) \/ FindAll(c) \/ FindOne(c) \/ Update(c) \/ Remove(c)
  PROVE  ProjectsInv'
<1>0. /\ AccountsTyped /\ ProjectsTyped /\ Begins(c)
      /\ UNCHANGED <<cachedList, cachedOne, editors, undeleted>>
      /\ token[c] \in TenantIds /\ request[c] = Idle
      /\ UNCHANGED <<tenants, users, token, refused>>
      /\ overlapped' \in BOOLEAN
  <2>1. /\ AccountsTyped /\ ProjectsTyped /\ Begins(c)
        /\ UNCHANGED <<cachedList, cachedOne, editors, undeleted>>
    BY DEF ProjectsInv, AccountsInv, Create, FindAll, FindOne, Update, Remove
  <2>2. token[c] \in TenantIds
    BY <2>1 DEF Begins, AccountsTyped
  <2>3. overlapped' \in BOOLEAN
    BY <2>1 DEF Begins, ProjectsTyped
  <2> QED
    BY <2>1, <2>2, <2>3 DEF Begins
<1>1. ASSUME NEW q, Goes(c, q), projects' = projects,
             q = Idle \/ (Fits(token[c], q) /\ q.pc \in {"findKey", "queryList", "queryOne", "write"})
      PROVE  ProjectsInv'
  <2>1. /\ DOMAIN request' = Clients /\ request'[c] = q
        /\ \A o \in Clients \ {c} : request'[o] = request[o]
    BY <1>0, <1>1, GoesMoves
  <2>2. RowsStay
    BY <1>1 DEF RowsStay
  <2>3. AccountsInv' /\ ProjectsTyped'
    BY <1>0, <1>1, <2>1, <2>2, RequestTypes DEF ProjectsTyped
  <2>4. request'[c].pc \in {"idle", "findKey", "queryList", "queryOne", "write"}
    BY <1>1, <2>1 DEF Idle
  <2>5. Orderly'
    BY <1>0, <1>1, <2>1, <2>4, BeginOrderly DEF ProjectsTyped
  <2> QED
    BY <2>3, <2>5 DEF ProjectsInv
<1>2. CASE Create(c)
  <2>1. PICK r \in Replicas, k \in Keys : Goes(c, [pc |-> "findKey", at |-> r, key |-> k])
    BY <1>2 DEF Create
  <2> DEFINE q == [pc |-> "findKey", at |-> r, key |-> k]
  <2>2. q \in Creating /\ q.pc = "findKey"
    BY DEF Creating
  <2>3. q \notin About
    BY <2>2, RequestFields DEF AboutPcs
  <2>4. Goes(c, q) /\ projects' = projects
    BY <1>2, <2>1 DEF Create
  <2> HIDE DEF q
  <2> QED
    BY <1>1, <2>2, <2>3, <2>4 DEF Fits
<1>3. CASE FindAll(c)
  <2>0. PICK r \in Replicas :
          Goes(c, Idle) \/ Goes(c, [pc |-> "queryList", at |-> r])
    BY <1>3 DEF FindAll
  <2> DEFINE q == [pc |-> "queryList", at |-> r]
  <2>1. q \in Listing /\ q.pc = "queryList" /\ q \notin About
    <3>1. q \in Listing /\ q.pc = "queryList"
      BY DEF Listing
    <3> QED
      BY <3>1, RequestFields DEF AboutPcs
  <2>2. (Goes(c, Idle) \/ Goes(c, q)) /\ projects' = projects
    BY <1>3, <2>0 DEF FindAll
  <2> HIDE DEF q
  <2> QED
    BY <1>1, <2>1, <2>2 DEF Fits
<1>4. CASE FindOne(c) \/ Update(c)
  <2>1. PICK e \in Replicas, p \in OfTenant(token[c]), k \in Keys \cup {Absent} :
          Ask(c, [pc |-> "reread", at |-> e, project |-> p, key |-> k, found |-> Absent])
    BY <1>4 DEF FindOne, Update
  <2> DEFINE q == [pc |-> "reread", at |-> e, project |-> p, key |-> k, found |-> Absent]
  <2>2. q \in About /\ q.project \in OfTenant(token[c])
    BY DEF About, AboutPcs, OfTenant
  <2>3. Ask(c, q)
    BY <2>1
  <2> HIDE DEF q
  <2>4. PICK r : /\ Goes(c, r)
                 /\ r = Idle \/ (Fits(token[c], r) /\ r.pc \in {"queryOne", "write"})
    BY <2>2, <2>3, AskMoves
  <2>5. projects' = projects
    BY <1>4 DEF FindOne, Update
  <2> QED
    BY <1>1, <2>4, <2>5
<1>5. CASE Remove(c)
  <2>1. PICK p \in OfTenant(token[c]) : projects' = [projects EXCEPT ![p].deleted = TRUE]
    BY <1>5 DEF Remove
  <2>2. p \in ProjectIds /\ projects[p] \in Project
    BY <1>0 DEF OfTenant, ProjectsTyped
  <2> DEFINE row == [projects[p] EXCEPT !.deleted = TRUE]
  <2>3. projects' = [projects EXCEPT ![p] = row]
    BY <2>1
  <2>4. /\ row \in Project /\ row # NoProject /\ row.tenant = projects[p].tenant
        /\ row.key = projects[p].key /\ row.deleted
    BY <2>2, RowRemoved, NoProjectIsNoRow
  <2> HIDE DEF row
  <2>5. /\ projects' \in [ProjectIds -> Project \cup {NoProject}]
        /\ projects'[p] = row /\ \A o \in ProjectIds \ {p} : projects'[o] = projects[o]
    BY <1>0, <2>2, <2>3, <2>4 DEF ProjectsTyped
  <2>6. RowsStay
    BY <2>4, <2>5 DEF RowsStay
  <2>7. request' = request /\ DOMAIN request' = Clients
    BY <1>0, <1>5 DEF Remove, AccountsTyped
  <2>8. AccountsInv' /\ ProjectsTyped'
    BY <1>0, <2>5, <2>6, <2>7, RequestTypes DEF ProjectsTyped
  <2>9. /\ projects[p] # NoProject
        /\ request'[c].pc \in {"idle", "findKey", "queryList", "queryOne", "write"}
    BY <1>0, <2>7 DEF OfTenant, Idle
  <2>10. \A o \in ProjectIds :
           \/ projects'[o] = projects[o]
           \/ /\ projects[o] # NoProject /\ projects'[o] # NoProject
              /\ projects'[o].tenant = projects[o].tenant
              /\ projects'[o].key = projects[o].key
              /\ projects'[o].deleted
    BY <2>4, <2>5, <2>9
  <2>11. Orderly'
    BY <1>0, <2>5, <2>7, <2>9, <2>10, BeginOrderly
  <2> QED
    BY <2>8, <2>11 DEF ProjectsInv
<1> QED
  BY <1>2, <1>3, <1>4, <1>5

-----------------------------------------------------------------------------
\* A request in progress is what its state says.
LEMMA InProgress ==
  ASSUME ProjectsInv, NEW c \in Clients, AboutProjects(c)
  PROVE  /\ token[c] \in TenantIds /\ AccountsTyped /\ ProjectsTyped
         /\ Fits(token[c], request[c]) /\ request[c].at \in Replicas
         /\ request[c].pc \in {"findKey", "insert"} => request[c] \in Creating
         /\ request[c].pc \in {"queryList", "fillList"} => request[c] \in Listing
         /\ request[c].pc \in AboutPcs
              => /\ request[c] \in About /\ request[c].project \in OfTenant(token[c])
                 /\ request[c].project \in ProjectIds
                 /\ projects[request[c].project] \in Project
                 /\ projects[request[c].project].tenant = token[c]
<1>1. token[c] \in TenantIds /\ AccountsTyped /\ ProjectsTyped /\ Fits(token[c], request[c])
  BY DEF ProjectsInv, ProjectsTyped, AccountsInv
<1>2. /\ request[c].pc \in {"findKey", "insert"} => request[c] \in Creating
      /\ request[c].pc \in {"queryList", "fillList"} => request[c] \in Listing
      /\ request[c].pc \in AboutPcs => request[c] \in About
  BY <1>1, RequestFields DEF Fits, AboutPcs
<1>3. request[c].at \in Replicas
  BY <1>1, RequestFields DEF Fits
<1>4. request[c] \in About =>
        /\ request[c].project \in OfTenant(token[c])
        /\ request[c].project \in ProjectIds
        /\ projects[request[c].project] \in Project
        /\ projects[request[c].project].tenant = token[c]
  BY <1>1 DEF Fits, OfTenant, ProjectsTyped
<1> QED
  BY <1>1, <1>2, <1>3, <1>4

\* A request that only reads.
LEMMA ReadKeeps ==
  ASSUME ProjectsInv, NEW c \in Clients, AboutProjects(c),
         request[c].pc \notin {"delOne", "delList"},
         UNCHANGED <<tenants, users, token, refused, projectVars>>,
         NEW q, Goes(c, q), q = Idle \/ Fits(token[c], q),
         q.pc = "insert" => ~KeyTaken(token[c], q.key),
         q.pc = "fillList" => Tells(q.found, token[c], {}),
         q.pc = "fillOne" => q.found = projects[q.project].key,
         q.pc \notin {"delOne", "delList"}
  PROVE  ProjectsInv'
<1>1. token[c] \in TenantIds /\ AccountsTyped /\ ProjectsTyped
  BY InProgress
<1>2. /\ DOMAIN request' = Clients /\ request'[c] = q
      /\ \A o \in Clients \ {c} : request'[o] = request[o]
  BY <1>1, GoesMoves
<1>3. RowsStay
  BY DEF RowsStay, projectVars
<1>4. AccountsInv' /\ ProjectsTyped'
  BY <1>1, <1>2, <1>3, RequestTypes DEF ProjectsTyped, projectVars
<1>5. Orderly'
  BY <1>2, ReadOrderly
<1> QED
  BY <1>4, <1>5 DEF ProjectsInv

\* Reads of projects change neither table nor cache.
LEMMA ReadsKeep ==
  ASSUME ProjectsInv, NEW c \in Clients,
         \/ FindKey(c) \/ QueryList(c) \/ QueryOne(c) \/ Reread(c)
         \/ QueryOneFails(c) \/ Again(c) \/ Rejects(c),
         UNCHANGED <<tenants, users, token, refused>>
  PROVE  ProjectsInv'
<1>0. /\ AboutProjects(c) /\ UNCHANGED projectVars
      /\ request[c].pc \notin {"delOne", "delList"}
      /\ Idle.pc = "idle"
  BY DEF FindKey, QueryList, QueryOne, Reread, QueryOneFails, Again, Rejects,
     AboutProjects, Idle
<1>1. ProjectsTyped
  BY DEF ProjectsInv
<1>2. CASE FindKey(c)
  <2>1. request[c] \in Creating /\ request[c].pc = "findKey"
    BY <1>0, <1>2, InProgress DEF FindKey
  <2>2. CASE KeyTaken(token[c], request[c].key)
    BY <1>0, <1>2, <2>2, ReadKeeps DEF FindKey
  <2>3. CASE ~KeyTaken(token[c], request[c].key)
    <3> DEFINE q == [request[c] EXCEPT !.pc = "insert"]
    <3>1. q \in Creating /\ q.pc = "insert" /\ q.key = request[c].key
      BY <2>1 DEF Creating
    <3>2. q \notin About
      BY <3>1, RequestFields DEF AboutPcs
    <3>3. Goes(c, q)
      BY <1>2, <2>3 DEF FindKey, Step, Goes
    <3> HIDE DEF q
    <3>4. Fits(token[c], q)
      BY <3>1, <3>2 DEF Fits
    <3> QED
      BY <1>0, <2>3, <3>1, <3>3, <3>4, ReadKeeps
  <2> QED
    BY <2>2, <2>3
<1>3. CASE QueryList(c)
  <2> DEFINE list == ListOf(token[c])
             q == [pc |-> "fillList", at |-> request[c].at, found |-> list]
  <2>1. Goes(c, q)
    BY <1>3 DEF QueryList
  <2>2. Tells(list, token[c], {}) /\ list \in Lists
    <3>1. LiveIn(token[c]) \in SUBSET ProjectIds
      BY DEF LiveIn
    <3>2. \A p \in LiveIn(token[c]) : projects[p].key \in Keys
      BY <1>1, RowFields DEF LiveIn, ProjectsTyped
    <3>3. list \in Lists
      BY <3>1, <3>2 DEF ListOf, Lists
    <3>4. Tells(list, token[c], {})
      BY DEF Tells, ListOf, LiveIn, OfTenant
    <3> QED
      BY <3>3, <3>4
  <2>3. q \in Listing /\ q.pc = "fillList" /\ q.found = list
    BY <1>0, <2>2, InProgress DEF Listing
  <2>4. q \notin About
    BY <2>3, RequestFields DEF AboutPcs
  <2> HIDE DEF q, list
  <2>5. Fits(token[c], q)
    BY <2>3, <2>4 DEF Fits
  <2> QED
    BY <1>0, <2>1, <2>2, <2>3, <2>5, ReadKeeps
<1>4. CASE QueryOne(c)
  <2>1. request[c] \in About /\ request[c].project \in OfTenant(token[c])
        /\ projects[request[c].project] \in Project
    BY <1>0, <1>4, InProgress DEF QueryOne, AboutPcs
  <2>2. CASE Goes(c, Idle)
    BY <1>0, <2>2, ReadKeeps
  <2>3. CASE ~ Goes(c, Idle)
    <3> DEFINE k == projects[request[c].project].key
               q == [request[c] EXCEPT !.pc = "fillOne", !.found = k]
    <3>1. Goes(c, q)
      BY <1>4, <2>3 DEF QueryOne
    <3>2. k \in Keys
      BY <2>1, RowFields
    <3>3. /\ q \in About /\ q.pc = "fillOne" /\ q.found = k
          /\ q.project = request[c].project
      BY <2>1, <3>2, AboutFound
    <3>4. q.found = projects[q.project].key /\ q.found \in Keys
      BY <3>2, <3>3
    <3> HIDE DEF q, k
    <3>5. Fits(token[c], q)
      BY <2>1, <3>3, <3>4 DEF Fits
    <3> QED
      BY <1>0, <3>1, <3>3, <3>4, <3>5, ReadKeeps
  <2> QED
    BY <2>2, <2>3
<1>5. CASE Reread(c)
  <2>1. request[c] \in About /\ request[c].project \in OfTenant(token[c])
    BY <1>0, <1>5, InProgress DEF Reread, AboutPcs
  <2>2. PICK r : /\ Goes(c, r)
                 /\ r = Idle \/ (Fits(token[c], r) /\ r.pc \in {"queryOne", "write"})
    BY <1>5, <2>1, AboutAgain, AskMoves DEF Reread
  <2> QED
    BY <1>0, <2>2, ReadKeeps
<1>6. CASE QueryOneFails(c)
  <2>1. request[c] \in About /\ request[c].project \in OfTenant(token[c])
    BY <1>0, <1>6, InProgress DEF QueryOneFails, AboutPcs
  <2> DEFINE q == [request[c] EXCEPT !.pc = "again"]
  <2>2. Goes(c, q)
    BY <1>6 DEF QueryOneFails, Step, Goes
  <2>3. q \in About /\ q.pc = "again" /\ q.project = request[c].project
    BY <2>1, AboutMoves DEF AboutPcs
  <2> HIDE DEF q
  <2>4. Fits(token[c], q)
    BY <2>1, <2>3 DEF Fits
  <2> QED
    BY <1>0, <2>2, <2>3, <2>4, ReadKeeps
<1>7. CASE Again(c)
  <2>1. request[c] \in About /\ request[c].project \in OfTenant(token[c])
    BY <1>0, <1>7, InProgress DEF Again, AboutPcs
  <2>2. PICK q : Goes(c, q) /\ (q = Idle \/ q = Found(request[c]))
    BY <1>7 DEF Again
  <2>3. q = Idle \/ (Fits(token[c], q) /\ q.pc = "write")
    BY <2>1, <2>2, FoundMoves
  <2> QED
    BY <1>0, <2>2, <2>3, ReadKeeps
<1>8. CASE Rejects(c)
  BY <1>0, <1>8, ReadKeeps DEF Rejects
<1> QED
  BY <1>2, <1>3, <1>4, <1>5, <1>6, <1>7, <1>8

\* When nothing else is in progress, the others hold nothing they have read.
LEMMA OnlyOne ==
  ASSUME ProjectsInv, ~overlapped, NEW c \in Clients, AboutProjects(c),
         \A o \in Clients \ {c} : request'[o] = request[o]
  PROVE  /\ OneAtATime' /\ InOrder /\ ReadsHold
         /\ \A o \in Clients \ {c} : ~AboutProjects(o) /\ ~AboutProjects(o)'
<1>1. OneAtATime /\ InOrder /\ ReadsHold
  BY DEF ProjectsInv, Orderly, InOrder
<1>2. \A o \in Clients \ {c} : ~AboutProjects(o) /\ ~AboutProjects(o)'
  BY <1>1 DEF OneAtATime, AboutProjects
<1>3. OneAtATime'
  BY <1>2 DEF OneAtATime
<1> QED
  BY <1>1, <1>2, <1>3

\* The new project has a key that no live project of the tenant has.
LEMMA InsertKeeps ==
  ASSUME ProjectsInv, NEW c \in Clients, Insert(c),
         UNCHANGED <<tenants, users, token, refused>>
  PROVE  ProjectsInv'
<1>0. /\ AboutProjects(c) /\ request[c].pc = "insert" /\ request[c] \in Creating
      /\ token[c] \in TenantIds /\ AccountsTyped /\ ProjectsTyped
      /\ request[c].key \in Keys
      /\ UNCHANGED <<cachedList, cachedOne, overlapped, editors, undeleted>>
  <2>1. AboutProjects(c) /\ request[c].pc = "insert"
    BY DEF Insert, AboutProjects
  <2> QED
    BY <2>1, InProgress, RequestFields DEF Insert
<1> DEFINE row == [tenant |-> token[c], key |-> request[c].key, deleted |-> FALSE]
<1>1. /\ row \in Project /\ row # NoProject /\ row.tenant = token[c]
      /\ row.key = request[c].key
  <2>1. row \in Project
    BY <1>0 DEF Project
  <2> QED
    BY <2>1, NoProjectIsNoRow
<1>2. PICK p \in ProjectIds :
        projects[p] = NoProject /\ projects' = [projects EXCEPT ![p] = row]
  BY DEF Insert
<1> SUFFICES ASSUME NEW r, r = row PROVE ProjectsInv'
  OBVIOUS
<1> HIDE DEF row
<1>3. /\ projects' \in [ProjectIds -> Project \cup {NoProject}]
      /\ projects'[p] = r /\ \A o \in ProjectIds \ {p} : projects'[o] = projects[o]
  BY <1>0, <1>1, <1>2 DEF ProjectsTyped
<1>4. /\ DOMAIN request' = Clients /\ request'[c] = Idle
      /\ \A o \in Clients \ {c} : request'[o] = request[o]
  BY <1>0, GoesMoves DEF Insert
<1>5. RowsStay
  BY <1>2, <1>3 DEF RowsStay
<1>6. AccountsInv' /\ ProjectsTyped'
  BY <1>0, <1>3, <1>4, <1>5, RequestTypes DEF ProjectsTyped
<1>7. ASSUME ~overlapped
      PROVE  InOrder'
  <2>1. /\ OneAtATime' /\ InOrder /\ ReadsHold
        /\ \A o \in Clients \ {c} : ~AboutProjects(o) /\ ~AboutProjects(o)'
    BY <1>0, <1>4, <1>7, OnlyOne
  <2>2. /\ Stale = {} /\ StaleOnes = {} /\ Stale' = {} /\ StaleOnes' = {}
    BY <1>0, <1>4, <2>1 DEF Stale, StaleOnes, AboutProjects, Idle
  <2>3. ReadsHold'
    BY <1>4, <2>1 DEF ReadsHold, AboutProjects, Idle
  <2>4. ASSUME CachesFollow, NEW t \in TenantIds, cachedList[t] # Absent
        PROVE  Tells(cachedList[t], t, {})'
    <3>1. Tells(cachedList[t], t, {})
      BY <2>1, <2>2, <2>4 DEF InOrder, CachesTell
    <3> QED
      BY <1>0, <1>2, <1>3, <3>1 DEF Tells, OfTenant
  <2>5. ASSUME CachesFollow, NEW o \in ProjectIds, cachedOne[o] # Absent
        PROVE  projects'[o] # NoProject /\ cachedOne[o] = projects'[o].key
    BY <1>2, <1>3, <2>1, <2>2, <2>5 DEF InOrder, CachesTell
  <2>6. CachesFollow => CachesTell'
    BY <1>0, <2>2, <2>4, <2>5 DEF CachesTell
  <2>7. ASSUME editors = {} PROVE KeysUnique'
    <3>1. KeysUnique /\ ~KeyTaken(token[c], request[c].key)
      BY <1>0, <2>1, <2>7 DEF InOrder, ReadsHold
    <3>2. \A o \in LiveIn(token[c]) : projects[o].key # request[c].key
      BY <3>1 DEF KeyTaken
    <3>3. \A t \in TenantIds : \A o \in LiveIn(t)' :
            IF o = p THEN t = token[c] /\ projects'[o].key = request[c].key
                     ELSE o \in LiveIn(t) /\ projects'[o].key = projects[o].key
      BY <1>1, <1>3 DEF LiveIn
    <3> QED
      BY <3>1, <3>2, <3>3 DEF KeysUnique
  <2> QED
    BY <1>0, <2>1, <2>3, <2>6, <2>7 DEF InOrder, CachesFollow
<1> QED
  BY <1>0, <1>6, <1>7 DEF ProjectsInv, Orderly

\* findAll stores the list it has read.
LEMMA FillListKeeps ==
  ASSUME ProjectsInv, NEW c \in Clients, FillList(c),
         UNCHANGED <<tenants, users, token, refused>>
  PROVE  ProjectsInv'
<1>0. /\ AboutProjects(c) /\ request[c].pc = "fillList" /\ request[c] \in Listing
      /\ token[c] \in TenantIds /\ AccountsTyped /\ ProjectsTyped
      /\ request[c].found \in Lists
      /\ UNCHANGED <<projects, cachedOne, overlapped, editors, undeleted>>
  <2>1. AboutProjects(c) /\ request[c].pc = "fillList"
    BY DEF FillList, AboutProjects
  <2> QED
    BY <2>1, InProgress, RequestFields DEF FillList
<1>1. /\ cachedList' \in [TenantIds -> Lists \cup {Absent}]
      /\ cachedList'[token[c]] \in {request[c].found, cachedList[token[c]]}
      /\ \A t \in TenantIds \ {token[c]} : cachedList'[t] = cachedList[t]
  BY <1>0 DEF FillList, SetList, ProjectsTyped
<1>2. /\ DOMAIN request' = Clients /\ request'[c] = Idle
      /\ \A o \in Clients \ {c} : request'[o] = request[o]
  BY <1>0, GoesMoves DEF FillList
<1>3. AccountsInv' /\ ProjectsTyped'
  BY <1>0, <1>1, <1>2, RequestTypes DEF ProjectsTyped, RowsStay
<1>4. ASSUME ~overlapped
      PROVE  InOrder'
  <2>1. /\ OneAtATime' /\ InOrder /\ ReadsHold
        /\ \A o \in Clients \ {c} : ~AboutProjects(o) /\ ~AboutProjects(o)'
    BY <1>0, <1>2, <1>4, OnlyOne
  <2>2. /\ Stale = {} /\ StaleOnes = {} /\ Stale' = {} /\ StaleOnes' = {}
    BY <1>0, <1>2, <2>1 DEF Stale, StaleOnes, AboutProjects, Idle
  <2>3. ReadsHold'
    BY <1>2, <2>1 DEF ReadsHold, AboutProjects, Idle
  <2>4. ASSUME CachesFollow, NEW t \in TenantIds, cachedList'[t] # Absent
        PROVE  Tells(cachedList'[t], t, {})
    BY <1>0, <1>1, <2>1, <2>2, <2>4 DEF InOrder, CachesTell, ReadsHold
  <2>5. CachesFollow => \A t \in TenantIds :
          cachedList'[t] # Absent => Tells(cachedList[t], t, Stale)'
    BY <1>0, <2>2, <2>4 DEF Tells, OfTenant
  <2>6. CachesFollow => CachesTell'
    BY <1>0, <2>1, <2>2, <2>5 DEF InOrder, CachesTell
  <2>7. editors = {} => KeysUnique'
    BY <1>0, <2>1 DEF InOrder, KeysUnique, LiveIn
  <2> QED
    BY <1>0, <2>1, <2>3, <2>6, <2>7 DEF InOrder, CachesFollow
<1> QED
  BY <1>0, <1>3, <1>4 DEF ProjectsInv, Orderly

\* What was found fills the cache, and an update goes on to write.
LEMMA FillOneKeeps ==
  ASSUME ProjectsInv, NEW c \in Clients, FillOne(c),
         UNCHANGED <<tenants, users, token, refused>>
  PROVE  ProjectsInv'
<1>0. /\ AboutProjects(c) /\ request[c].pc = "fillOne" /\ request[c] \in About
      /\ request[c].project \in OfTenant(token[c]) /\ request[c].project \in ProjectIds
      /\ projects[request[c].project] \in Project
      /\ token[c] \in TenantIds /\ AccountsTyped /\ ProjectsTyped
      /\ request[c].found \in Keys
      /\ UNCHANGED <<projects, cachedList, overlapped, editors, undeleted>>
  <2>1. AboutProjects(c) /\ request[c].pc = "fillOne"
    BY DEF FillOne, AboutProjects
  <2> QED
    BY <2>1, InProgress DEF FillOne, Fits, AboutPcs
<1>1. PICK p \in ProjectIds, k \in Keys : p = request[c].project /\ k = request[c].found
  BY <1>0
<1>2. /\ cachedOne' \in [ProjectIds -> Keys \cup {Absent}]
      /\ cachedOne'[p] \in {k, cachedOne[p]}
      /\ \A o \in ProjectIds \ {p} : cachedOne'[o] = cachedOne[o]
  BY <1>0, <1>1 DEF FillOne, SetOne, ProjectsTyped
<1>3. PICK q : /\ Goes(c, q)
               /\ q = Idle \/ (Fits(token[c], q) /\ q.pc = "write")
  BY <1>0, FoundMoves DEF FillOne
<1>4. /\ DOMAIN request' = Clients /\ request'[c] = q /\ q.pc \in {"idle", "write"}
      /\ \A o \in Clients \ {c} : request'[o] = request[o]
  BY <1>0, <1>3, GoesMoves DEF Idle
<1>5. AccountsInv' /\ ProjectsTyped'
  BY <1>0, <1>2, <1>3, <1>4, RequestTypes DEF ProjectsTyped, RowsStay
<1>6. ASSUME ~overlapped
      PROVE  InOrder'
  <2>1. /\ OneAtATime' /\ InOrder /\ ReadsHold
        /\ \A o \in Clients \ {c} : ~AboutProjects(o) /\ ~AboutProjects(o)'
    BY <1>0, <1>4, <1>6, OnlyOne
  <2>2. /\ Stale = {} /\ StaleOnes = {} /\ Stale' = {} /\ StaleOnes' = {}
    BY <1>0, <1>4, <2>1 DEF Stale, StaleOnes, AboutProjects
  <2>3. ReadsHold'
    BY <1>4, <2>1 DEF ReadsHold, AboutProjects
  <2>4. projects[p] # NoProject /\ k = projects[p].key
    BY <1>0, <1>1, <2>1, NoProjectIsNoRow DEF ReadsHold
  <2>5. CachesFollow => \A o \in ProjectIds : cachedOne'[o] # Absent =>
          projects[o] # NoProject /\ cachedOne'[o] = projects[o].key
    BY <1>2, <2>1, <2>2, <2>4 DEF InOrder, CachesTell
  <2>6. CachesFollow => \A t \in TenantIds :
          cachedList[t] # Absent => Tells(cachedList[t], t, Stale)'
    BY <1>0, <2>1, <2>2 DEF InOrder, CachesTell, Tells, OfTenant
  <2>7. CachesFollow => CachesTell'
    BY <1>0, <2>2, <2>5, <2>6 DEF CachesTell
  <2>8. editors = {} => KeysUnique'
    BY <1>0, <2>1 DEF InOrder, KeysUnique, LiveIn
  <2> QED
    BY <1>0, <2>1, <2>3, <2>7, <2>8 DEF InOrder, CachesFollow
<1> QED
  BY <1>0, <1>5, <1>6 DEF ProjectsInv, Orderly

\* The project that is written is stale in the caches of Here from now on, if
\* its update came there; an update of a key that came elsewhere, or whose answer
\* was lost, leaves nothing to be said of them.
LEMMA WriteKeeps ==
  ASSUME ProjectsInv, NEW c \in Clients, Write(c) \/ WriteUnheard(c),
         UNCHANGED <<tenants, users, token, refused>>
  PROVE  ProjectsInv'
<1>0. /\ AboutProjects(c) /\ request[c].pc = "write" /\ request[c] \in About
      /\ request[c].project \in OfTenant(token[c]) /\ request[c].project \in ProjectIds
      /\ projects[request[c].project] \in Project
      /\ token[c] \in TenantIds /\ AccountsTyped /\ ProjectsTyped
      /\ request[c].key \in Keys /\ request[c].at \in Replicas /\ Commits(c)
      /\ UNCHANGED <<cachedList, cachedOne, overlapped>>
  <2>1. AboutProjects(c) /\ request[c].pc = "write" /\ Commits(c)
    BY DEF Write, WriteUnheard, Commits, AboutProjects
  <2> QED
    BY <2>1, InProgress DEF Commits, Fits, AboutPcs
<1>1. PICK p \in ProjectIds, k \in Keys : p = request[c].project /\ k = request[c].key
  BY <1>0
<1>2. PICK row : row = [projects[p] EXCEPT !.key = k]
  OBVIOUS
<1>3. /\ row \in Project /\ row # NoProject
      /\ row.tenant = projects[p].tenant /\ row.deleted = projects[p].deleted
      /\ projects[p] # NoProject /\ projects[p] \in Project
  <2>1. row \in Project /\ row.tenant = projects[p].tenant
        /\ row.deleted = projects[p].deleted
    BY <1>0, <1>1, <1>2, RowRekeyed
  <2> QED
    BY <1>0, <1>1, <2>1, NoProjectIsNoRow
<1>4. projects' = [projects EXCEPT ![p] = row]
  BY <1>0, <1>1, <1>2 DEF Commits
<1>5. /\ projects' \in [ProjectIds -> Project \cup {NoProject}]
      /\ projects'[p] = row /\ \A o \in ProjectIds \ {p} : projects'[o] = projects[o]
  BY <1>0, <1>3, <1>4 DEF ProjectsTyped
<1>6. PICK r : r = [request[c] EXCEPT !.pc = "delOne"]
  OBVIOUS
<1>7. PICK q : /\ Goes(c, q)
               /\ \/ WriteUnheard(c) /\ q = Idle
                  \/ /\ Write(c) /\ q \in About /\ q.pc = "delOne" /\ q.project = p
                     /\ q.at = request[c].at
  <2>1. CASE Write(c)
    <3>1. r \in About /\ r.pc = "delOne" /\ r.project = p /\ r.at = request[c].at
      BY <1>0, <1>1, <1>6, AboutMoves DEF AboutPcs
    <3>2. Goes(c, r)
      BY <1>6, <2>1 DEF Write, Step, Goes
    <3> QED
      BY <2>1, <3>1, <3>2
  <2>2. CASE WriteUnheard(c)
    BY <2>2 DEF WriteUnheard
  <2> QED
    BY <2>1, <2>2
<1>8. /\ DOMAIN request' = Clients /\ request'[c] = q
      /\ \A o \in Clients \ {c} : request'[o] = request[o]
  BY <1>0, <1>7, GoesMoves
<1>9. q = Idle \/ Fits(token[c], q)
  BY <1>0, <1>1, <1>7 DEF Fits
<1>10. RowsStay
  BY <1>3, <1>5 DEF RowsStay
<1>11. /\ editors' \subseteq Replicas /\ undeleted' \in BOOLEAN
       /\ editors' = {} => projects' = projects /\ editors = {}
       /\ CachesFollow' =>
            CachesFollow /\ Write(c) /\ (projects' = projects \/ request[c].at = Here)
  BY <1>0 DEF Commits, Write, WriteUnheard, ProjectsTyped, CachesFollow
<1>12. AccountsInv' /\ ProjectsTyped'
  BY <1>0, <1>5, <1>8, <1>9, <1>10, <1>11, RequestTypes DEF ProjectsTyped
<1>13. ASSUME ~overlapped
       PROVE  InOrder'
  <2>1. /\ OneAtATime' /\ InOrder /\ ReadsHold
        /\ \A o \in Clients \ {c} : ~AboutProjects(o) /\ ~AboutProjects(o)'
    BY <1>0, <1>8, <1>13, OnlyOne
  <2>2. /\ Stale = {} /\ StaleOnes = {}
        /\ Write(c) /\ request[c].at = Here => p \in Stale' /\ p \in StaleOnes'
    <3>1. Stale = {} /\ StaleOnes = {}
      BY <1>0, <2>1 DEF Stale, StaleOnes, AboutProjects
    <3>2. ASSUME Write(c), request[c].at = Here
          PROVE  request'[c].pc = "delOne" /\ request'[c].at = Here /\ request'[c].project = p
      <4>1. request' = [request EXCEPT ![c].pc = "delOne"]
        BY <3>2 DEF Write, Step
      <4>2. request'[c] = r
        BY <1>0, <1>6, <4>1 DEF AccountsTyped
      <4> QED
        BY <1>0, <1>1, <1>6, <3>2, <4>2, AboutMoves DEF AboutPcs
    <3> QED
      BY <3>1, <3>2 DEF Stale, StaleOnes
  <2>3. ReadsHold'
    BY <1>7, <1>8, <2>1 DEF ReadsHold, AboutProjects, Idle
  <2>4. ASSUME CachesFollow', NEW t \in TenantIds, cachedList[t] # Absent
        PROVE  Tells(cachedList[t], t, Stale)'
    <3>1. Tells(cachedList[t], t, {})
      BY <1>11, <2>1, <2>2, <2>4 DEF InOrder, CachesTell
    <3> QED
      BY <1>0, <1>3, <1>5, <1>11, <2>2, <2>4, <3>1 DEF Tells, OfTenant
  <2>5. ASSUME CachesFollow', NEW o \in ProjectIds, cachedOne[o] # Absent
        PROVE  projects'[o] # NoProject
               /\ (o \notin StaleOnes' => cachedOne[o] = projects'[o].key)
    BY <1>3, <1>5, <1>11, <2>1, <2>2, <2>5 DEF InOrder, CachesTell
  <2>6. CachesFollow' => CachesTell'
    BY <1>0, <2>4, <2>5 DEF CachesTell
  <2>7. editors' = {} => KeysUnique'
    BY <1>11, <2>1 DEF InOrder, KeysUnique, LiveIn
  <2> QED
    BY <2>1, <2>3, <2>6, <2>7 DEF InOrder
<1> QED
  BY <1>0, <1>12, <1>13 DEF ProjectsInv, Orderly

\* The entry of the project goes, then the list of its tenant; where that fails,
\* nothing is left to be said of the caches.
LEMMA DelKeeps ==
  ASSUME ProjectsInv, faults \in Nat, NEW c \in Clients, DelOne(c) \/ DelList(c),
         UNCHANGED <<tenants, users, token, refused>>
  PROVE  ProjectsInv'
<1>0. /\ AboutProjects(c) /\ request[c].pc \in {"delOne", "delList"} /\ request[c] \in About
      /\ request[c].project \in OfTenant(token[c]) /\ request[c].project \in ProjectIds
      /\ projects[request[c].project].tenant = token[c]
      /\ token[c] \in TenantIds /\ AccountsTyped /\ ProjectsTyped
      /\ UNCHANGED <<projects, overlapped, editors>> /\ undeleted' \in BOOLEAN
  <2>1. AboutProjects(c) /\ request[c].pc \in {"delOne", "delList"}
    BY DEF DelOne, DelList, AboutProjects
  <2> QED
    BY <2>1, InProgress DEF DelOne, DelList, Fits, AboutPcs, ProjectsTyped
<1>1. PICK p \in ProjectIds : p = request[c].project
  BY <1>0
<1>2. PICK pc \in {"delList", "reread"} :
        /\ Step(c, pc)
        /\ DelOne(c) => pc = "delList"
        /\ DelList(c) => pc = "reread"
  BY DEF DelOne, DelList
<1>3. PICK q : q = [request[c] EXCEPT !.pc = pc]
  OBVIOUS
<1>4. Goes(c, q) /\ q \in About /\ q.pc = pc /\ q.project = p /\ q.at = request[c].at
  <2>1. Goes(c, q)
    BY <1>2, <1>3 DEF Step, Goes
  <2>2. PICK r \in About : r = request[c]
    BY <1>0
  <2>3. q = [r EXCEPT !.pc = pc]
    BY <1>3, <2>2
  <2>4. [r EXCEPT !.pc = pc] \in About /\ [r EXCEPT !.pc = pc].pc = pc
        /\ [r EXCEPT !.pc = pc].project = r.project /\ [r EXCEPT !.pc = pc].at = r.at
    <3>1. pc \in AboutPcs
      BY DEF AboutPcs
    <3> QED
      BY <3>1, AboutMoves, Zenon
  <2> QED
    BY <1>1, <2>1, <2>2, <2>3, <2>4
<1>5. /\ DOMAIN request' = Clients /\ request'[c] = q
      /\ \A o \in Clients \ {c} : request'[o] = request[o]
  BY <1>0, <1>4, GoesMoves
<1>6. Fits(token[c], q)
  BY <1>0, <1>1, <1>4 DEF Fits
<1>7. /\ cachedList' \in [TenantIds -> Lists \cup {Absent}]
      /\ cachedOne' \in [ProjectIds -> Keys \cup {Absent}]
      /\ \A o \in ProjectIds : cachedOne'[o] = cachedOne[o] \/ cachedOne'[o] = Absent
      /\ DelOne(c) => /\ cachedList' = cachedList
                      /\ CachesFollow' /\ request[c].at = Here => cachedOne'[p] = Absent
      /\ DelList(c) =>
           /\ cachedOne' = cachedOne
           /\ CachesFollow' /\ request[c].at = Here => cachedList'[token[c]] = Absent
           /\ \A t \in TenantIds \ {token[c]} : cachedList'[t] = cachedList[t]
           /\ request[c].at # Here => cachedList' = cachedList
      /\ CachesFollow' => CachesFollow
  <2>1. CASE DelOne(c)
    <3>1. request[c].pc = "delOne" /\ ~DelList(c)
      BY <2>1 DEF DelOne, DelList
    <3>2. /\ cachedList' = cachedList /\ (undeleted' \/ UNCHANGED faults)
          /\ SetOne(request[c].at, p, Absent) /\ (CachesFollow' => CachesFollow)
      BY <1>0, <1>1, <2>1 DEF DelOne, CachesFollow
    <3> QED
      BY <1>0, <3>1, <3>2 DEF SetOne, Fault, ProjectsTyped, CachesFollow
  <2>2. CASE DelList(c)
    <3>1. request[c].pc = "delList" /\ ~DelOne(c)
      BY <2>2 DEF DelOne, DelList
    <3>2. /\ cachedOne' = cachedOne /\ (undeleted' \/ UNCHANGED faults)
          /\ SetList(request[c].at, token[c], Absent) /\ (CachesFollow' => CachesFollow)
      BY <1>0, <2>2 DEF DelList, CachesFollow
    <3> QED
      BY <1>0, <3>1, <3>2 DEF SetList, Fault, ProjectsTyped, CachesFollow
  <2> QED
    BY <2>1, <2>2
<1>8. AccountsInv' /\ ProjectsTyped'
  BY <1>0, <1>5, <1>6, <1>7, RequestTypes DEF ProjectsTyped, RowsStay
<1>9. ASSUME ~overlapped
      PROVE  InOrder'
  <2>1. /\ OneAtATime' /\ InOrder /\ ReadsHold
        /\ \A o \in Clients \ {c} : ~AboutProjects(o) /\ ~AboutProjects(o)'
    BY <1>0, <1>5, <1>9, OnlyOne
  <2>2. /\ Stale \subseteq {p} /\ StaleOnes \subseteq {p}
        /\ DelOne(c) /\ request[c].at = Here => p \in Stale'
        /\ DelList(c) => StaleOnes = {}
        /\ request[c].at # Here => Stale = {} /\ StaleOnes = {}
    BY <1>0, <1>1, <1>2, <1>4, <1>5, <2>1 DEF Stale, StaleOnes, AboutProjects, DelList
  <2>3. ReadsHold'
    BY <1>4, <1>5, <2>1 DEF ReadsHold, AboutProjects
  <2>4. ASSUME CachesFollow', NEW t \in TenantIds, cachedList'[t] # Absent
        PROVE  Tells(cachedList[t], t, Stale)'
    <3>1. CASE DelOne(c)
      <4>1. /\ Tells(cachedList[t], t, {p}) /\ cachedList' = cachedList
            /\ request[c].at # Here => Tells(cachedList[t], t, {})
        BY <1>7, <2>1, <2>2, <2>4, <3>1 DEF InOrder, CachesTell, Tells
      <4> QED
        BY <1>0, <2>2, <3>1, <4>1 DEF Tells, OfTenant
    <3>2. CASE DelList(c) /\ request[c].at = Here
      <4>1. t # token[c] /\ cachedList'[t] = cachedList[t]
        BY <1>7, <2>4, <3>2
      <4>2. Tells(cachedList[t], t, {p})
        BY <1>7, <2>1, <2>2, <2>4, <4>1 DEF InOrder, CachesTell, Tells
      <4>3. p \notin DOMAIN cachedList[t]
        BY <1>0, <1>1, <4>1, <4>2 DEF Tells, OfTenant
      <4> QED
        BY <1>0, <4>1, <4>2, <4>3 DEF Tells, OfTenant
    <3>3. CASE DelList(c) /\ request[c].at # Here
      <4>1. Tells(cachedList[t], t, {}) /\ cachedList' = cachedList
        BY <1>7, <2>1, <2>2, <2>4, <3>3 DEF InOrder, CachesTell
      <4> QED
        BY <1>0, <4>1 DEF Tells, OfTenant
    <3> QED
      BY <3>1, <3>2, <3>3
  <2>5. ASSUME CachesFollow', NEW o \in ProjectIds, cachedOne'[o] # Absent
        PROVE  projects[o] # NoProject /\ cachedOne'[o] = projects[o].key
    BY <1>7, <2>1, <2>2, <2>5 DEF InOrder, CachesTell
  <2>6. CachesFollow' => CachesTell'
    BY <1>0, <2>4, <2>5 DEF CachesTell
  <2>7. editors = {} => KeysUnique'
    BY <1>0, <2>1 DEF InOrder, KeysUnique, LiveIn
  <2> QED
    BY <1>0, <2>1, <2>3, <2>6, <2>7 DEF InOrder
<1> QED
  BY <1>0, <1>8, <1>9 DEF ProjectsInv, Orderly

\* Entries that expire only leave less to tell.
LEMMA ExpireKeeps ==
  ASSUME ProjectsInv, Expire
  PROVE  ProjectsInv'
<1>0. /\ ProjectsTyped /\ AccountsInv
      /\ UNCHANGED <<tenants, users, request, token, refused, projects>>
      /\ UNCHANGED <<overlapped, editors, undeleted>>
  BY DEF ProjectsInv, Expire, accountVars
<1>1. /\ cachedList' \in [TenantIds -> Lists \cup {Absent}]
      /\ cachedOne' \in [ProjectIds -> Keys \cup {Absent}]
      /\ \A t \in TenantIds : cachedList'[t] \in {cachedList[t], Absent}
      /\ \A p \in ProjectIds : cachedOne'[p] \in {cachedOne[p], Absent}
  BY <1>0 DEF Expire, ProjectsTyped
<1>2. AccountsInv'
  BY <1>0 DEF AccountsInv, AccountsTyped, TablesAgree, TransactionsAreApart,
     RefusalsAreJustified, InTransaction, Taken
<1>3. ProjectsTyped'
  BY <1>0, <1>1 DEF ProjectsTyped, AboutProjects, Fits, OfTenant
<1>4. Stale' = Stale /\ StaleOnes' = StaleOnes
  BY <1>0 DEF Stale, StaleOnes
<1>5. CachesTell => CachesTell'
  BY <1>0, <1>1, <1>4 DEF CachesTell, Tells, OfTenant
<1>6. Orderly'
  BY <1>0, <1>5 DEF ProjectsInv, Orderly, InOrder, CachesFollow, OneAtATime, AboutProjects, ReadsHold, Tells,
     OfTenant, KeyTaken, LiveIn, KeysUnique
<1> QED
  BY <1>2, <1>3, <1>6 DEF ProjectsInv

\* A replica that restarts loses its requests, and Here its cache.
LEMMA RestartKeeps ==
  ASSUME ProjectsInv, NEW r \in Replicas, Restart(r)
  PROVE  ProjectsInv'
<1>0. /\ ProjectsTyped /\ AccountsInv /\ AccountsTyped
      /\ UNCHANGED <<tenants, users, token, refused, projects>>
      /\ UNCHANGED <<overlapped, editors, undeleted>>
  BY DEF ProjectsInv, AccountsInv, Restart
<1>1. /\ DOMAIN request' = Clients
      /\ \A c \in Clients :
           IF AboutProjects(c) /\ request[c].at = r THEN request'[c] = Idle
           ELSE request'[c] = request[c]
  BY DEF Restart
<1>2. Idle.pc = "idle"
  BY DEF Idle
<1>3. AccountsInv'
  <2>1. /\ RefusalsAreJustified'
        /\ token' \in [Clients -> TenantIds \cup {NoTenant}]
        /\ \A c \in Clients : token'[c] # NoTenant => tenants[token'[c]] # NoTenant
        /\ \A x \in refused' : "subdomain" \in DOMAIN x => x.subdomain \in Subdomains
    BY <1>0, JustifiedStays DEF AccountsInv, AccountsTyped, TablesAgree
  <2>2. \A c \in Clients : request'[c] = request[c] \/ request'[c].pc = "idle"
    BY <1>1, <1>2
  <2> QED
    BY <1>0, <1>1, <2>1, <2>2, SameTables DEF RegisterPcs
<1>4. \A c \in Clients : AboutProjects(c)' =>
        /\ AboutProjects(c) /\ request'[c] = request[c] /\ request[c].at # r
  BY <1>1, <1>2 DEF AboutProjects
<1>5. /\ cachedList' \in [TenantIds -> Lists \cup {Absent}]
      /\ cachedOne' \in [ProjectIds -> Keys \cup {Absent}]
      /\ r # Here => cachedList' = cachedList /\ cachedOne' = cachedOne
      /\ r = Here => /\ \A t \in TenantIds : cachedList'[t] = Absent
                     /\ \A p \in ProjectIds : cachedOne'[p] = Absent
  BY <1>0 DEF Restart, ProjectsTyped
<1>6. ProjectsTyped'
  <2>1. \A c \in Clients : AboutProjects(c)' =>
          (token[c] \in TenantIds /\ Fits(token[c], request[c]))'
    BY <1>0, <1>4 DEF ProjectsTyped, Fits, OfTenant
  <2> QED
    BY <1>0, <1>5, <2>1 DEF ProjectsTyped
<1>7. ASSUME r # Here PROVE Stale' = Stale /\ StaleOnes' = StaleOnes
  <2>1. \A c \in Clients : \A pc \in {"delOne", "delList"} :
          request'[c].pc = pc /\ request'[c].at = Here <=>
            request[c].pc = pc /\ request[c].at = Here
    BY <1>1, <1>2, <1>4, <1>7 DEF AboutProjects
  <2>2. \A c \in Clients :
          request[c].pc \in {"delOne", "delList"} /\ request[c].at = Here
            => request'[c] = request[c]
    BY <1>1, <1>7
  <2> QED
    BY <2>1, <2>2 DEF Stale, StaleOnes
<1>8. CachesTell => CachesTell'
  <2>1. CASE r = Here
    BY <1>5, <2>1 DEF CachesTell
  <2>2. CASE r # Here
    BY <1>0, <1>5, <1>7, <2>2 DEF CachesTell, Tells, OfTenant
  <2> QED
    BY <2>1, <2>2
<1>9. ReadsHold => ReadsHold'
  <2>1. \A c \in Clients : request'[c].pc \in {"insert", "fillList", "fillOne"}
          => request'[c] = request[c]
    BY <1>1, <1>2
  <2> QED
    BY <1>0, <2>1 DEF ReadsHold, KeyTaken, LiveIn, Tells, OfTenant
<1>10. OneAtATime => OneAtATime'
  BY <1>4 DEF OneAtATime
<1>11. KeysUnique => KeysUnique'
  BY <1>0 DEF KeysUnique, LiveIn
<1> QED
  BY <1>0, <1>3, <1>6, <1>8, <1>9, <1>10, <1>11 DEF ProjectsInv, Orderly, InOrder, CachesFollow

\* Registrations and logins change neither the request about a project nor the
\* token of a client that has one in progress.
LEMMA AccountsMove ==
  ASSUME AccountsTyped, NEW c \in Clients,
         Register(c) \/ Continue(c) \/ RegisterFails(c) \/ Login(c)
  PROVE  /\ ~AboutProjects(c) /\ ~AboutProjects(c)'
         /\ request[c].pc \in RegisterPcs \cup {"idle"}
         /\ request'[c].pc \in RegisterPcs \cup {"idle"}
         /\ \A o \in Clients \ {c} : request'[o] = request[o] /\ token'[o] = token[o]
<1>1. ASSUME NEW q, Goes(c, q), q.pc \in RegisterPcs \cup {"idle"}
      PROVE  /\ request'[c].pc \in RegisterPcs \cup {"idle"}
             /\ \A o \in Clients \ {c} : request'[o] = request[o]
  BY <1>1, GoesMoves
<1>2. ASSUME NEW pc \in RegisterPcs, Step(c, pc), request[c].pc \in RegisterPcs
      PROVE  /\ request'[c].pc \in RegisterPcs \cup {"idle"}
             /\ \A o \in Clients \ {c} : request'[o] = request[o]
  BY <1>2, StepMoves
<1>3. Idle.pc = "idle"
  BY DEF Idle
<1>4. /\ request[c].pc \in RegisterPcs \cup {"idle"}
      /\ request'[c].pc \in RegisterPcs \cup {"idle"}
      /\ \A o \in Clients \ {c} : request'[o] = request[o]
  <2>1. CASE Register(c)
    <3>1. PICK d \in Subdomains, m \in Emails :
            Goes(c, [pc |-> "findTenant", subdomain |-> d, email |-> m, tenant |-> NoTenant])
      BY <2>1 DEF Register
    <3>2. request[c].pc = "idle"
      BY <2>1, <1>3 DEF Register, Attempt
    <3> QED
      BY <1>1, <3>1, <3>2 DEF RegisterPcs
  <2>2. CASE FindTenant(c)
    BY <1>1, <1>2, <1>3, <2>2 DEF FindTenant, Refuse, RegisterPcs
  <2>3. CASE SaveTenant(c)
    <3>1. request[c].pc = "saveTenant" /\ request[c] \in Registration
      BY <2>3 DEF SaveTenant, AccountsTyped, RegisterPcs
    <3>2. CASE Goes(c, Idle)
      BY <1>1, <1>3, <3>1, <3>2 DEF RegisterPcs
    <3>3. CASE ~Goes(c, Idle)
      <4>1. PICK t \in TenantIds :
              Goes(c, [request[c] EXCEPT !.pc = "saveUser", !.tenant = t])
        BY <2>3, <3>3 DEF SaveTenant, Refuse, Unused
      <4>2. [request[c] EXCEPT !.pc = "saveUser", !.tenant = t].pc = "saveUser"
        BY <3>1 DEF Registration
      <4> QED
        BY <1>1, <3>1, <4>1, <4>2 DEF RegisterPcs
    <3> QED
      BY <3>2, <3>3
  <2>4. CASE SaveUser(c)
    BY <1>2, <2>4 DEF SaveUser, RegisterPcs
  <2>5. CASE Commit(c)
    BY <1>1, <1>3, <2>5 DEF Commit, RegisterPcs
  <2>6. CASE RegisterFails(c)
    BY <1>1, <1>3, <2>6 DEF RegisterFails, RegisterPcs
  <2>7. CASE Login(c)
    BY <1>3, <2>7 DEF Login, Attempt
  <2> QED
    BY <2>1, <2>2, <2>3, <2>4, <2>5, <2>6, <2>7 DEF Continue
<1>5. \A o \in Clients \ {c} : token'[o] = token[o]
  <2>1. token' = token \/ \E t : token' = [token EXCEPT ![c] = t]
    BY DEF Register, Continue, FindTenant, SaveTenant, SaveUser, Commit, RegisterFails, Login
  <2> QED
    BY <2>1 DEF AccountsTyped
<1> QED
  BY <1>4, <1>5 DEF AboutProjects, RegisterPcs

\* A step of Accounts.
LEMMA AccountsKeepProjects ==
  ASSUME ProjectsInv, AccountsNext, UNCHANGED projectVars
  PROVE  ProjectsInv'
<1>0. /\ AccountsInv /\ AccountsTyped /\ ProjectsTyped
      /\ UNCHANGED <<projects, cachedList, cachedOne, overlapped, editors, undeleted>>
  BY DEF ProjectsInv, AccountsInv, projectVars
<1>1. PICK c \in Clients : Register(c) \/ Continue(c) \/ RegisterFails(c) \/ Login(c)
  BY DEF AccountsNext
<1>2. /\ ~AboutProjects(c) /\ ~AboutProjects(c)'
      /\ request[c].pc \in RegisterPcs \cup {"idle"}
      /\ request'[c].pc \in RegisterPcs \cup {"idle"}
      /\ \A o \in Clients \ {c} : request'[o] = request[o] /\ token'[o] = token[o]
  BY <1>0, <1>1, AccountsMove
<1>3. AccountsInv'
  BY <1>0, AccountsStep
<1>4. \A o \in Clients : AboutProjects(o)' => o # c /\ AboutProjects(o)
  BY <1>2 DEF AboutProjects
<1>5. ProjectsTyped'
  <2>1. \A o \in Clients : AboutProjects(o)' =>
          (token[o] \in TenantIds /\ Fits(token[o], request[o]))'
    BY <1>0, <1>2, <1>4 DEF ProjectsTyped, Fits, OfTenant
  <2> QED
    BY <1>0, <2>1 DEF ProjectsTyped
<1>6. Stale' = Stale /\ StaleOnes' = StaleOnes
  <2>1. \A o \in Clients : \A pc \in {"delOne", "delList"} :
          /\ request'[o].pc = pc <=> request[o].pc = pc
          /\ request[o].pc = pc => request'[o] = request[o]
    BY <1>2 DEF RegisterPcs
  <2> QED
    BY <2>1 DEF Stale, StaleOnes
<1>7. ReadsHold => ReadsHold'
  BY <1>0, <1>2 DEF ReadsHold, RegisterPcs, KeyTaken, LiveIn, Tells, OfTenant
<1>8. CachesTell => CachesTell'
  BY <1>0, <1>6 DEF CachesTell, Tells, OfTenant
<1>9. OneAtATime => OneAtATime'
  BY <1>4 DEF OneAtATime
<1>10. KeysUnique => KeysUnique'
  BY <1>0 DEF KeysUnique, LiveIn
<1> QED
  BY <1>0, <1>3, <1>5, <1>7, <1>8, <1>9, <1>10
     DEF ProjectsInv, Orderly, InOrder, CachesFollow

\* Before the first registration there is nothing to agree or to be stale.
LEMMA ProjectsAtFirst ==
  ASSUME Init
  PROVE  ProjectsInv
<1>0. /\ tenants = [t \in TenantIds |-> NoTenant] /\ users = {}
      /\ request = [c \in Clients |-> Idle] /\ token = [c \in Clients |-> NoTenant]
      /\ refused = {}
      /\ projects = [p \in ProjectIds |-> NoProject]
      /\ cachedList = [t \in TenantIds |-> Absent]
      /\ cachedOne = [p \in ProjectIds |-> Absent]
      /\ overlapped = FALSE /\ editors = {} /\ undeleted = FALSE
  BY DEF Init, AccountsInit
<1>1. \A c \in Clients : request[c].pc = "idle"
  BY <1>0 DEF Idle
<1>2. AccountsInv
  BY <1>0, <1>1 DEF AccountsInv, AccountsTyped, TablesAgree, TransactionsAreApart,
     RefusalsAreJustified, InTransaction, RegisterPcs
<1>3. \A c \in Clients : ~AboutProjects(c)
  BY <1>1 DEF AboutProjects
<1>4. ProjectsTyped
  BY <1>0, <1>3 DEF ProjectsTyped
<1>5. OneAtATime /\ ReadsHold /\ KeysUnique /\ CachesTell
  BY <1>0, <1>1, <1>3 DEF OneAtATime, ReadsHold, KeysUnique, CachesTell, LiveIn
<1> QED
  BY <1>2, <1>4, <1>5 DEF ProjectsInv, Orderly, InOrder

\* Every step keeps the invariant.
LEMMA ProjectsStep ==
  ASSUME ProjectsInv, faults \in Nat, [Next]_vars
  PROVE  ProjectsInv'
<1>1. CASE AccountsNext /\ UNCHANGED projectVars
  BY <1>1, AccountsKeepProjects
<1>2. ASSUME NEW c \in Clients,
             Create(c) \/ FindAll(c) \/ FindOne(c) \/ Update(c) \/ Remove(c)
      PROVE  ProjectsInv'
  BY <1>2, BeginKeeps
<1>3. ASSUME NEW c \in Clients, Proceed(c) PROVE ProjectsInv'
  <2>1. UNCHANGED <<tenants, users, token, refused>>
    BY <1>3 DEF Proceed
  <2>2. CASE \/ FindKey(c) \/ QueryList(c) \/ QueryOne(c) \/ Reread(c)
             \/ QueryOneFails(c) \/ Again(c) \/ Rejects(c)
    BY <2>1, <2>2, ReadsKeep
  <2>3. CASE Insert(c)
    BY <2>1, <2>3, InsertKeeps
  <2>4. CASE FillList(c)
    BY <2>1, <2>4, FillListKeeps
  <2>5. CASE FillOne(c)
    BY <2>1, <2>5, FillOneKeeps
  <2>6. CASE Write(c) \/ WriteUnheard(c)
    BY <2>1, <2>6, WriteKeeps
  <2>7. CASE DelOne(c) \/ DelList(c)
    BY <2>1, <2>7, DelKeeps
  <2> QED
    BY <1>3, <2>2, <2>3, <2>4, <2>5, <2>6, <2>7 DEF Proceed
<1>4. CASE Expire
  BY <1>4, ExpireKeeps
<1>5. CASE UNCHANGED vars
  BY <1>5 DEF vars, accountVars, projectVars, ProjectsInv, AccountsInv, AccountsTyped,
     TablesAgree, TransactionsAreApart, RefusalsAreJustified, InTransaction, Taken,
     ProjectsTyped, Orderly, InOrder, CachesFollow, AboutProjects, Fits, OfTenant, OneAtATime, CachesTell,
     Stale, StaleOnes, Tells, ReadsHold, KeyTaken, LiveIn, KeysUnique
<1>6. ASSUME NEW r \in Replicas, Restart(r) PROVE ProjectsInv'
  BY <1>6, RestartKeeps
<1> QED
  BY <1>1, <1>2, <1>3, <1>4, <1>5, <1>6 DEF Next

\* Faults are counted.
LEMMA FaultsCount ==
  ASSUME faults \in Nat, [Next]_vars
  PROVE  faults' \in Nat
<1>1. CASE AccountsNext
  <2>1. ASSUME NEW c \in Clients, Continue(c) PROVE faults' = faults \/ Fault
    BY <2>1 DEF Continue, FindTenant, SaveTenant, SaveUser, Commit
  <2> QED
    BY <1>1, <2>1 DEF AccountsNext, Register, RegisterFails, Login, Fault
<1>2. ASSUME NEW c \in Clients,
             Create(c) \/ FindAll(c) \/ FindOne(c) \/ Update(c) \/ Remove(c)
      PROVE  faults' = faults
  BY <1>2 DEF Create, FindAll, FindOne, Update, Remove, Begins
<1>3. ASSUME NEW c \in Clients, Proceed(c) PROVE faults' = faults \/ Fault
  BY <1>3 DEF Proceed, FindKey, Insert, QueryList, FillList, QueryOne, QueryOneFails, Again,
     FillOne, Write, WriteUnheard, DelOne, DelList, Reread, Rejects, SetList, SetOne
<1>4. ASSUME NEW r \in Replicas, Restart(r) PROVE Fault
  BY <1>4 DEF Restart
<1>5. CASE Expire \/ UNCHANGED vars
  BY <1>5 DEF Expire, vars, accountVars
<1> QED
  BY <1>1, <1>2, <1>3, <1>4, <1>5 DEF Next, Fault

\* The inductive invariant of Accounts and Projects together: types, tables that
\* agree, transactions apart, and orderly requests that find what they expect.
THEOREM ProjectsInvariant == Spec => []ProjectsInv
<1>1. Init => ProjectsInv /\ faults \in Nat
  <2>1. Init => faults \in Nat
    BY DEF Init, AccountsInit
  <2> QED
    BY <2>1, ProjectsAtFirst
<1>2. ProjectsInv /\ faults \in Nat /\ [Next]_vars => (ProjectsInv /\ faults \in Nat)'
  BY ProjectsStep, FaultsCount
<1> QED
  BY <1>1, <1>2, PTL DEF Spec

\* Every registration is whole: a tenant has exactly its administrator, its
\* subdomain is its own, and every token is of a tenant that is there, however
\* registrations race, fail and lose their replies.
THEOREM RegistrationsWhole == Spec => []RegistrationsAreWhole
<1>1. ProjectsInv => RegistrationsAreWhole
  <2> SUFFICES ASSUME ProjectsInv PROVE RegistrationsAreWhole
    OBVIOUS
  <2>0. TablesAgree
    BY DEF ProjectsInv, AccountsInv
  <2>1. ASSUME NEW t \in TenantIds
        PROVE  Cardinality({u \in users : u.tenant = t}) =
                 IF tenants[t] = NoTenant THEN 0 ELSE 1
    <3>1. CASE tenants[t] = NoTenant
      <4>1. {u \in users : u.tenant = t} = {}
        BY <2>0, <3>1 DEF TablesAgree
      <4> QED
        BY <3>1, <4>1, FS_EmptySet
    <3>2. CASE tenants[t] # NoTenant
      <4>1. PICK u \in users : u.tenant = t
        BY <2>0, <3>2 DEF TablesAgree
      <4>2. {v \in users : v.tenant = t} = {u}
        BY <2>0, <4>1 DEF TablesAgree
      <4> QED
        BY <3>2, <4>2, FS_Singleton
    <3> QED
      BY <3>1, <3>2
  <2> QED
    BY <2>0, <2>1 DEF RegistrationsAreWhole, TablesAgree
<1> QED
  BY <1>1, ProjectsInvariant, PTL

\* A registration is refused only for a subdomain in use, and a login with the
\* right password only where another user has the email.
THEOREM RefusalsJustified == Spec => []RefusalsAreJustified
<1>1. ProjectsInv => RefusalsAreJustified
  BY DEF ProjectsInv, AccountsInv
<1> QED
  BY <1>1, ProjectsInvariant, PTL

\* While requests come one after another and no update has set a key, live
\* projects of a tenant differ in their keys.
THEOREM KeysAreUnique == Spec => []OrderlyKeysAreUnique
<1>1. ProjectsInv => OrderlyKeysAreUnique
  BY DEF ProjectsInv, Orderly, InOrder, KeysUnique, OrderlyKeysAreUnique
<1> QED
  BY <1>1, ProjectsInvariant, PTL

\* While requests come one after another, and updates that set a key came to one
\* replica and got to their deletions, which did not fail, the caches of that
\* replica show the current fields of every project that is still there, though
\* fills and queries fail and replicas restart.
THEOREM CacheShowsFields == Spec => []OrderlyCacheShowsFields
<1>1. ProjectsInv => OrderlyCacheShowsFields
  <2> SUFFICES ASSUME ProjectsInv, ~overlapped, CachesFollow,
                      \A c \in Clients : ~AboutProjects(c),
                      NEW t \in TenantIds, NEW p \in LiveIn(t)
               PROVE  /\ cachedOne[p] \in {Absent, projects[p].key}
                      /\ cachedList[t] # Absent /\ p \in DOMAIN cachedList[t]
                           => cachedList[t][p] = projects[p].key
    BY DEF OrderlyCacheShowsFields, CachesFollow
  <2>1. CachesTell /\ p \in ProjectIds
    BY DEF ProjectsInv, Orderly, InOrder, LiveIn
  <2>2. Stale = {} /\ StaleOnes = {}
    BY DEF Stale, StaleOnes, AboutProjects
  <2>3. cachedOne[p] \in {Absent, projects[p].key}
    BY <2>1, <2>2 DEF CachesTell
  <2>4. cachedList[t] # Absent /\ p \in DOMAIN cachedList[t]
          => cachedList[t][p] = projects[p].key
    BY <2>1, <2>2 DEF CachesTell, Tells
  <2> QED
    BY <2>3, <2>4
<1> QED
  BY <1>1, ProjectsInvariant, PTL

-----------------------------------------------------------------------------
(* The directory that registrations and logins stand for.                  *)

Entries == {EntryOf(u) : u \in users}

DirectoryMap == <<Entries, token, refused>>

\* A user's entry tells his tenant's subdomain and his email.
LEMMA EntryIs ==
  ASSUME AccountsInv, NEW u \in users
  PROVE  /\ EntryOf(u) \in Directory!Entry /\ EntryOf(u) \in Entries
         /\ EntryOf(u).tenant = u.tenant
         /\ EntryOf(u).subdomain = tenants[u.tenant]
         /\ EntryOf(u).email = u.email
         /\ u = [tenant |-> u.tenant, email |-> u.email]
<1>1. /\ u.tenant \in TenantIds /\ u.email \in Emails
      /\ u = [tenant |-> u.tenant, email |-> u.email]
  BY DEF AccountsInv, AccountsTyped, User
<1>2. tenants[u.tenant] \in Subdomains
  BY <1>1 DEF AccountsInv, AccountsTyped, TablesAgree
<1> QED
  BY <1>1, <1>2 DEF EntryOf, Directory!Entry, Entries

\* A subdomain in use has an entry.
LEMMA TurnedAway ==
  ASSUME AccountsInv, NEW c \in Clients, request[c].pc \in {"findTenant", "saveTenant"},
         Refuse(c), Taken(request[c].subdomain), UNCHANGED <<tenants, users, token>>
  PROVE  Directory!TurnAway
<1>1. request[c].subdomain \in Subdomains
  BY DEF AccountsInv, AccountsTyped, RegisterPcs, Registration
<1>2. PICK t \in TenantIds : tenants[t] = request[c].subdomain
  BY DEF Taken
<1>3. PICK u \in users : u.tenant = t
  BY <1>1, <1>2, AccountConstantsAreTyped DEF AccountsInv, TablesAgree
<1>4. EntryOf(u) \in Entries /\ EntryOf(u).subdomain = request[c].subdomain
  BY <1>2, <1>3, EntryIs
<1>5. Entries' = Entries
  BY DEF Entries, EntryOf
<1> QED
  BY <1>4, <1>5 DEF Directory!TurnAway, Entries, Refuse

\* The commit adds the entry, whole.
LEMMA Enrolled ==
  ASSUME AccountsInv, NEW c \in Clients, Commit(c)
  PROVE  Directory!Enrol
<1>1. PICK t, d, m : t = request[c].tenant /\ d = request[c].subdomain /\ m = request[c].email
  OBVIOUS
<1>2. PICK u, e : /\ u = [tenant |-> t, email |-> m]
                  /\ e = [tenant |-> t, subdomain |-> d, email |-> m]
  OBVIOUS
<1>3. /\ tenants' = [tenants EXCEPT ![t] = d] /\ users' = users \cup {u}
      /\ token' = token \/ token' = [token EXCEPT ![c] = t]
      /\ refused' = refused /\ InTransaction(c)
  BY <1>1, <1>2 DEF Commit, InTransaction
<1>4. t \in TenantIds /\ tenants[t] = NoTenant /\ ~Taken(d)
  BY <1>1, <1>3 DEF AccountsInv, TransactionsAreApart
<1>5. tenants'[t] = d /\ \A o \in TenantIds \ {t} : tenants'[o] = tenants[o]
  BY <1>3, <1>4 DEF AccountsInv, AccountsTyped
<1>6. d \in Subdomains /\ m \in Emails
  BY <1>1 DEF Commit, AccountsInv, AccountsTyped, RegisterPcs, Registration
<1>7. /\ e \in Directory!Entry /\ e.tenant = t /\ e.subdomain = d
      /\ u.tenant = t /\ u.email = m
  BY <1>2, <1>4, <1>6 DEF Directory!Entry
<1>8. EntryOf(u)' = e
  BY <1>2, <1>5, <1>7 DEF EntryOf
<1>9. \A v \in users : v.tenant \in TenantIds \ {t}
  BY <1>4 DEF AccountsInv, AccountsTyped, TablesAgree, User
<1>10. \A v \in users : EntryOf(v)' = EntryOf(v)
  BY <1>5, <1>9 DEF EntryOf
<1>11. Entries' = Entries \cup {e}
  <2>1. Entries' = {EntryOf(v)' : v \in users \cup {u}}
    BY <1>3 DEF Entries
  <2> QED
    BY <1>8, <1>10, <2>1 DEF Entries
<1>12. \A f \in Entries : f.tenant # e.tenant /\ f.subdomain # e.subdomain
  <2> SUFFICES ASSUME NEW v \in users
               PROVE  EntryOf(v).tenant # t /\ EntryOf(v).subdomain # d
    BY <1>7 DEF Entries
  <2> QED
    BY <1>4, <1>9, EntryIs DEF Taken
<1>13. Directory!GiveToken(e) \/ UNCHANGED token
  BY <1>3, <1>7 DEF Directory!GiveToken
<1> QED
  BY <1>3, <1>7, <1>11, <1>12, <1>13 DEF Directory!Enrol, Entries

\* A login hands out a token of an entry, or its account is mistaken for
\* another of the same email.
LEMMA LoggedIn ==
  ASSUME AccountsInv, NEW c \in Clients, Login(c)
  PROVE  Directory!LogIn \/ Directory!MistakeForAnother
<1>1. PICK account \in users, found \in users :
        /\ found.email = account.email
        /\ IF found = account
           THEN token' = [token EXCEPT ![c] = account.tenant] /\ UNCHANGED refused
           ELSE refused' = refused \cup {account} /\ UNCHANGED token
  BY DEF Login
<1>2. Entries' = Entries
  BY DEF Login, Entries, EntryOf
<1>3. CASE found = account
  BY <1>1, <1>2, <1>3, EntryIs DEF Directory!LogIn, Directory!GiveToken, Entries
<1>4. CASE found # account
  <2> DEFINE e == EntryOf(account)  f == EntryOf(found)
  <2>1. /\ e \in Entries /\ f \in Entries /\ e.email = f.email
        /\ e.tenant = account.tenant /\ f.tenant = found.tenant
        /\ account = [tenant |-> e.tenant, email |-> e.email]
    BY <1>1, EntryIs
  <2>2. e # f
    BY <1>4, <2>1 DEF AccountsInv, TablesAgree
  <2>3. refused' = refused \cup {[tenant |-> e.tenant, email |-> e.email]}
        /\ UNCHANGED token
    BY <1>1, <1>4, <2>1
  <2> HIDE DEF e, f
  <2> QED
    BY <1>2, <2>1, <2>2, <2>3 DEF Directory!MistakeForAnother, Entries
<1> QED
  BY <1>3, <1>4

\* Every step is a step of the directory, or none.
LEMMA DirectorySimulates ==
  ASSUME ProjectsInv, [Next]_vars
  PROVE  [Directory!Next]_DirectoryMap
<1>1. AccountsInv
  BY DEF ProjectsInv
<1>2. ASSUME UNCHANGED <<tenants, users, token, refused>> PROVE UNCHANGED DirectoryMap
  BY <1>2 DEF DirectoryMap, Entries, EntryOf
<1>3. ASSUME NEW c \in Clients, FindTenant(c) PROVE [Directory!Next]_DirectoryMap
  <2>1. CASE Taken(request[c].subdomain)
    BY <1>1, <1>3, <2>1, TurnedAway DEF FindTenant, Directory!Next
  <2>2. CASE ~Taken(request[c].subdomain)
    BY <1>2, <1>3, <2>2 DEF FindTenant
  <2> QED
    BY <2>1, <2>2
<1>4. ASSUME NEW c \in Clients, SaveTenant(c) PROVE [Directory!Next]_DirectoryMap
  <2>1. CASE Taken(request[c].subdomain)
    BY <1>1, <1>4, <2>1, TurnedAway DEF SaveTenant, Directory!Next
  <2>2. CASE ~Taken(request[c].subdomain)
    BY <1>2, <1>4, <2>2 DEF SaveTenant
  <2> QED
    BY <2>1, <2>2
<1>5. ASSUME NEW c \in Clients, Commit(c) PROVE Directory!Next
  BY <1>1, <1>5, Enrolled DEF Directory!Next
<1>6. ASSUME NEW c \in Clients, Login(c) PROVE Directory!Next
  BY <1>1, <1>6, LoggedIn DEF Directory!Next
<1>7. ASSUME NEW c \in Clients, Register(c) \/ SaveUser(c) \/ RegisterFails(c)
      PROVE  UNCHANGED DirectoryMap
  BY <1>2, <1>7 DEF Register, SaveUser, RegisterFails
<1>8. CASE AccountsNext
  BY <1>3, <1>4, <1>5, <1>6, <1>7, <1>8 DEF AccountsNext, Continue
<1>9. ASSUME NEW c \in Clients,
             Create(c) \/ FindAll(c) \/ FindOne(c) \/ Update(c) \/ Remove(c) \/ Proceed(c)
      PROVE  UNCHANGED DirectoryMap
  BY <1>2, <1>9 DEF Create, FindAll, FindOne, Update, Remove, Begins, Proceed
<1>10. CASE Expire \/ UNCHANGED vars
  BY <1>2, <1>10 DEF Expire, vars, accountVars
<1>11. ASSUME NEW r \in Replicas, Restart(r) PROVE UNCHANGED DirectoryMap
  BY <1>2, <1>11 DEF Restart
<1> QED
  BY <1>8, <1>9, <1>10, <1>11 DEF Next

\* However their lookups, inserts and commits interleave, fail and are rolled
\* back, registrations and logins behave as steps of one directory.
THEOREM RegistersInOneStep == Spec => RegistersAtOnce
<1>1. Init => Directory!Init
  <2> SUFFICES ASSUME Init PROVE Directory!Init
    OBVIOUS
  <2>1. /\ users = {} /\ refused = {}
        /\ token = [c \in Clients |-> NoTenant]
    BY DEF Init, AccountsInit
  <2> QED
    BY <2>1 DEF Directory!Init
<1>2. ProjectsInv /\ [Next]_vars => [Directory!Next]_DirectoryMap
  BY DirectorySimulates
<1> QED
  BY <1>1, <1>2, ProjectsInvariant, PTL
     DEF Spec, RegistersAtOnce, Directory!Spec, DirectoryMap, Entries
=============================================================================
