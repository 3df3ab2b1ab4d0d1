CONSTANTS
  Clients = {c1, c2}
  TenantIds = {t1, t2}
  Subdomains = {d1, d2}
  Emails = {m1}
  MaxAttempts = 3
  MaxFaults = 1
  NoTenant = NoTenant
  Replicas = {r1, r2}
  Here = r1
  ProjectIds = {p1, p2}
  Keys = {k1, k2}
  MaxEdits = 2
  NoProject = NoProject
  Absent = Absent
SPECIFICATION Spec
SYMMETRY Symmetry
INVARIANTS
  RegistrationsAreWhole
  OrderlyKeysAreUnique
  OrderlyCacheShowsFields
PROPERTIES
  RegistersAtOnce
CHECK_DEADLOCK FALSE
