--------------------------- MODULE MCTenantSteps ---------------------------
(***************************************************************************)
(* TenantSteps for TLC: the environments of the organization are alike.    *)
(***************************************************************************)
EXTENDS TenantSteps, TLC

Symmetry == Permutations(Env)

=============================================================================
