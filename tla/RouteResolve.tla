---------------------------- MODULE RouteResolve ----------------------------
(***************************************************************************)
(* How the CNAME router finds the tenant of a subdomain: it is split at its*)
(* separators, from right to left, into <org> and <env>, until the headless*)
(* service of a split has an address in DNS.                               *)
(*                                                                         *)
(* Source: caddy-cname-router/cnamerouter.go (resolve).                    *)
(*                                                                         *)
(* A separator is one character, and the others are alike.  A split is     *)
(* named by the position of its separator.                                 *)
(***************************************************************************)
EXTENDS Integers, Sequences, FiniteSetsExt

CONSTANT NoSplit

Names(maxLen) == UNION {[1 .. n -> {"x", "-"}]: n \in 0 .. maxLen}

\* The separators among the first n characters.
Separators(sub, n) == {i \in 1 .. n: sub[i] = "-"}

\* Both parts of a tenant's name are DNS labels (api/orgs/route.ts:29): neither is
\* empty, nor starts or ends with a separator.
Splits(sub) ==
  {i \in Separators(sub, Len(sub)):
     /\ 1 < i /\ i < Len(sub)
     /\ "-" \notin {sub[1], sub[i - 1], sub[i + 1], sub[Len(sub)]}}

\* Mutant: from left to right.
FirstIndex(sub, n) == Min(Separators(sub, n))

\* strings.LastIndex
LastIndex(sub, n) == Max(Separators(sub, n))

\* resolve()'s loop over the length of what remains: it ends at a leading separator,
\* skips an empty environment, and asks DNS about any other split.
Resolve(sub, inDNS) ==
  LET loop[remaining \in 0 .. Len(sub)] ==
        IF Separators(sub, remaining) \subseteq {1} THEN NoSplit
        ELSE LET i == LastIndex(sub, remaining) IN
             IF i < Len(sub) /\ i \in inDNS THEN i ELSE loop[i - 1]
  IN loop[Len(sub)]

\* Wherever separators lead, trail or repeat, the loop finds the tenant with the
\* longest organization among those the subdomain may stand for.
LongestOrgWins(maxLen) ==
  \A sub \in Names(maxLen): \A inDNS \in SUBSET Splits(sub):
    Resolve(sub, inDNS) = IF inDNS = {} THEN NoSplit ELSE Max(inDNS)

=============================================================================
