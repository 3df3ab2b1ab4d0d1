-------------------------- MODULE TenantDirectory ---------------------------
(***************************************************************************)
(* What registration and login promise: a directory of tenants, each with  *)
(* its subdomain and its administrator, to which entries are added whole   *)
(* and in which they stay; tokens of tenants in it; and no answer `no'     *)
(* that the directory does not explain.                                    *)
(***************************************************************************)

CONSTANTS Clients, TenantIds, Subdomains, Emails,
          NoTenant  \* the absence of a token

VARIABLES
  directory,  \* the tenants there are
  token,      \* the tenant of the token each client holds
  refused     \* subdomains and accounts that were refused

Entry == [tenant : TenantIds, subdomain : Subdomains, email : Emails]

Init ==
  /\ directory = {}
  /\ token = [c \in Clients |-> NoTenant]
  /\ refused = {}

GiveToken(e) == \E c \in Clients : token' = [token EXCEPT ![c] = e.tenant]

\* A tenant registers under a subdomain of its own; the reply may be lost.
Enrol ==
  /\ \E e \in Entry :
       /\ \A f \in directory : f.tenant # e.tenant /\ f.subdomain # e.subdomain
       /\ directory' = directory \cup {e}
       /\ GiveToken(e) \/ UNCHANGED token
  /\ UNCHANGED refused

\* The subdomain is in use.
TurnAway ==
  /\ \E e \in directory : refused' = refused \cup {[subdomain |-> e.subdomain]}
  /\ UNCHANGED <<directory, token>>

LogIn ==
  /\ \E e \in directory : GiveToken(e)
  /\ UNCHANGED <<directory, refused>>

\* The email is that of two administrators, and the other one was looked at.
MistakeForAnother ==
  /\ \E e, f \in directory :
       /\ e # f /\ e.email = f.email
       /\ refused' = refused \cup {[tenant |-> e.tenant, email |-> e.email]}
  /\ UNCHANGED <<directory, token>>

Next == Enrol \/ TurnAway \/ LogIn \/ MistakeForAnother

Spec == Init /\ [][Next]_<<directory, token, refused>>
=============================================================================
