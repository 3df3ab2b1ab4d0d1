------------------------------ MODULE Accounts ------------------------------
(***************************************************************************)
(* Registration and login of AuthService.  A registration looks the        *)
(* subdomain up and then inserts the tenant and its administrator in one   *)
(* transaction; a unique index on the subdomain decides races, making the  *)
(* second insert wait for the first transaction.  A login looks a user up  *)
(* by email alone.                                                         *)
(***************************************************************************)
EXTENDS Naturals, FiniteSets

CONSTANTS
  Clients,      \* each has one request in progress at most
  TenantIds, Subdomains, Emails,
  MaxAttempts,  \* bound: registrations and logins
  MaxFaults,    \* bound: failing calls and lost replies
  NoTenant      \* the absence of a row or of a token

ASSUME AccountConstantsAreTyped ==
  /\ MaxAttempts \in Nat /\ MaxFaults \in Nat
  /\ NoTenant \notin TenantIds /\ NoTenant \notin Subdomains

VARIABLES
  tenants,   \* the table tenants: the subdomain of each row
  users,     \* the table users: tenant and email of each row
  request,   \* the request each client waits for
  token,     \* the tenant of the access token each client holds
  refused,   \* history: subdomains and accounts that were refused
  attempts, faults

accountVars == <<tenants, users, request, token, refused, attempts, faults>>

User == [tenant : TenantIds, email : Emails]

Idle == [pc |-> "idle"]

AccountsInit ==
  /\ tenants = [t \in TenantIds |-> NoTenant]
  /\ users = {}
  /\ request = [c \in Clients |-> Idle]
  /\ token = [c \in Clients |-> NoTenant]
  /\ refused = {}
  /\ attempts = 0 /\ faults = 0

Goes(c, q) == request' = [request EXCEPT ![c] = q]
Step(c, pc) == request' = [request EXCEPT ![c].pc = pc]

Attempt(c) ==
  /\ request[c] = Idle
  /\ attempts < MaxAttempts
  /\ attempts' = attempts + 1

Fault == faults < MaxFaults /\ faults' = faults + 1

-----------------------------------------------------------------------------
(* register.                                                               *)

Register(c) ==
  /\ Attempt(c)
  /\ \E d \in Subdomains, m \in Emails :
       Goes(c, [pc |-> "findTenant", subdomain |-> d, email |-> m, tenant |-> NoTenant])
  /\ UNCHANGED <<tenants, users, token, refused, faults>>

Taken(d) == \E t \in TenantIds : tenants[t] = d

Refuse(c) ==
  /\ refused' = refused \cup {[subdomain |-> request[c].subdomain]}
  /\ Goes(c, Idle)

InTransaction(c) == request[c].pc \in {"saveUser", "commit"}

\* An open transaction of another client has inserted the subdomain.
MustWait(c) ==
  \E o \in Clients \ {c} :
    InTransaction(o) /\ request[o].subdomain = request[c].subdomain

\* Faulty variant: a registration in progress counts as a tenant.
FindTenantOrAttempt(c) ==
  /\ request[c].pc = "findTenant"
  /\ IF Taken(request[c].subdomain) \/ MustWait(c) THEN Refuse(c)
     ELSE Step(c, "saveTenant") /\ UNCHANGED refused
  /\ UNCHANGED <<tenants, users, token, attempts, faults>>

\* The lookup; ConflictException if there is such a tenant.
FindTenant(c) ==
  /\ request[c].pc = "findTenant"
  /\ IF Taken(request[c].subdomain) THEN Refuse(c)
     ELSE Step(c, "saveTenant") /\ UNCHANGED refused
  /\ UNCHANGED <<tenants, users, token, attempts, faults>>

Unused == {t \in TenantIds : /\ tenants[t] = NoTenant
                             /\ \A c \in Clients : InTransaction(c) => request[c].tenant # t}

\* Faulty variant: the tenant is saved outside the transaction.
SaveTenantAtOnce(c) ==
  /\ request[c].pc = "saveTenant"
  /\ ~ MustWait(c)
  /\ IF Taken(request[c].subdomain) THEN Refuse(c) /\ UNCHANGED tenants
     ELSE /\ \E t \in Unused :
               /\ Goes(c, [request[c] EXCEPT !.pc = "saveUser", !.tenant = t])
               /\ tenants' = [tenants EXCEPT ![t] = request[c].subdomain]
          /\ UNCHANGED refused
  /\ UNCHANGED <<users, token, attempts, faults>>

\* The tenant is inserted, unless the unique index rejects it.
SaveTenant(c) ==
  /\ request[c].pc = "saveTenant"
  /\ ~ MustWait(c)
  /\ IF Taken(request[c].subdomain) THEN Refuse(c)
     ELSE /\ \E t \in Unused :
               Goes(c, [request[c] EXCEPT !.pc = "saveUser", !.tenant = t])
          /\ UNCHANGED refused
  /\ UNCHANGED <<tenants, users, token, attempts, faults>>

\* The administrator is inserted and the tokens are signed.
SaveUser(c) ==
  /\ request[c].pc = "saveUser"
  /\ Step(c, "commit")
  /\ UNCHANGED <<tenants, users, token, refused, attempts, faults>>

\* The transaction commits, and the client gets its tokens unless the reply is
\* lost.
Commit(c) ==
  /\ request[c].pc = "commit"
  /\ LET q == request[c]
     IN /\ tenants' = [tenants EXCEPT ![q.tenant] = q.subdomain]
        /\ users' = users \cup {[tenant |-> q.tenant, email |-> q.email]}
        /\ \/ token' = [token EXCEPT ![c] = q.tenant] /\ UNCHANGED faults
           \/ Fault /\ UNCHANGED token
  /\ Goes(c, Idle)
  /\ UNCHANGED <<refused, attempts>>

\* A call fails or the replica dies: what was not committed is rolled back.
RegisterFails(c) ==
  /\ request[c].pc \in {"findTenant", "saveTenant", "saveUser", "commit"}
  /\ Fault
  /\ Goes(c, Idle)
  /\ UNCHANGED <<tenants, users, token, refused, attempts>>

-----------------------------------------------------------------------------
(* login, and refreshToken for the same account.                           *)

\* The client has the email and password of `account'.  The query finds some
\* user with that email; the password is that of the account only.
Login(c) ==
  /\ Attempt(c)
  /\ \E account \in users, found \in users :
       /\ found.email = account.email
       /\ IF found = account
          THEN token' = [token EXCEPT ![c] = account.tenant] /\ UNCHANGED refused
          ELSE refused' = refused \cup {account} /\ UNCHANGED token
  /\ UNCHANGED <<tenants, users, request, faults>>

Continue(c) == FindTenant(c) \/ SaveTenant(c) \/ SaveUser(c) \/ Commit(c)

AccountsNext ==
  \E c \in Clients :
    Register(c) \/ Continue(c) \/ RegisterFails(c) \/ Login(c)

-----------------------------------------------------------------------------
(* Properties.                                                             *)

\* However registrations race and fail, every tenant has exactly its
\* administrator, no user is without a tenant, no subdomain belongs to two,
\* and a client holds no token of a tenant that is not there.
RegistrationsAreWhole ==
  /\ \A t \in TenantIds :
       Cardinality({u \in users : u.tenant = t}) = IF tenants[t] = NoTenant THEN 0 ELSE 1
  /\ \A t, o \in TenantIds : tenants[t] = tenants[o] => t = o \/ tenants[t] = NoTenant
  /\ \A c \in Clients : token[c] # NoTenant => tenants[token[c]] # NoTenant

\* A registration is refused only for a subdomain that is in use, although the
\* lookup and the insert are two steps and transactions may be rolled back;
\* a login with the right password only if two tenants share the email.
RefusalsAreJustified ==
  \A x \in refused :
    IF "subdomain" \in DOMAIN x THEN Taken(x.subdomain)
    ELSE \E u \in users : u.email = x.email /\ u # x

EntryOf(u) == [tenant |-> u.tenant, subdomain |-> tenants[u.tenant], email |-> u.email]

Directory == INSTANCE TenantDirectory
               WITH directory <- {EntryOf(u) : u \in users}

\* Registrations and logins, whose lookups, inserts and commits interleave and
\* fail, behave as if each of them happened in one step, when it commits or is
\* answered, and no entry is changed afterwards.
RegistersAtOnce == Directory!Spec
=============================================================================
