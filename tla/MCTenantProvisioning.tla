------------------------- MODULE MCTenantProvisioning -------------------------
(* Instances of TenantProvisioning for TLC: symmetry of the identities that *)
(* no action tells apart.                                                  *)
EXTENDS TenantProvisioning, TLC

Symmetry ==
  Permutations(KeptKeys) \cup Permutations(Keys \ KeptKeys)
    \cup Permutations(Requests) \cup Permutations(Workers)
SymmetryAll == Symmetry \cup Permutations(Tenants)
=============================================================================
