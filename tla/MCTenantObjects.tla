-------------------------- MODULE MCTenantObjects --------------------------
(***************************************************************************)
(* TenantObjects for TLC: environments whose names meet in both ways.      *)
(***************************************************************************)
EXTENDS TenantObjects

E(org, env_key) == [org |-> org, env |-> env_key]

\* a/b with a/b-hl; a/b-b with a-b/b.
Environments ==
  { E(<<"a">>, <<"b">>), E(<<"a">>, <<"b", "hl">>), E(<<"a">>, <<"b", "b">>),
    E(<<"a", "b">>, <<"b">>) }

=============================================================================
