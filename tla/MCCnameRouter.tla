--------------------------- MODULE MCCnameRouter ---------------------------
(***************************************************************************)
(* CnameRouter for TLC, and the resolution of a host for all subdomains of *)
(* up to eight characters.                                                 *)
(***************************************************************************)
EXTENDS CnameRouter

Resolution == INSTANCE RouteResolve WITH NoSplit <- 0

\* All subdomains, each with every set of tenants it may stand for.
AllSubdomains == Resolution!LongestOrgWins(8)

\* Whatever host a request resolves, the loop of resolve() finds the tenant with the
\* longest organization among those that DNS knows.
ResolutionIsRight == (\E g \in Goroutine: At(g, "resolve")) => AllSubdomains

=============================================================================
