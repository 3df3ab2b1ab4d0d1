------------------------------ MODULE MCTenancy -----------------------------
(* Instance of Projects, and of the accounts in it, for TLC. *)
EXTENDS Projects, TLC

Symmetry ==
  Permutations(Clients) \cup Permutations(TenantIds) \cup Permutations(ProjectIds)
  \cup Permutations(Keys) \cup Permutations(Subdomains)
=============================================================================
