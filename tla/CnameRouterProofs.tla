------------------------- MODULE CnameRouterProofs -------------------------
(***************************************************************************)
(* Type correctness of the CNAME router, the bound on the age of the DNS   *)
(* answers it acts on, for any goroutines, hosts, times to live and numbers*)
(* of changes and faults, and the tenant it finds, for any subdomain.      *)
(***************************************************************************)
EXTENDS MCCnameRouter, Sequences, WellFoundedInduction, TLAPS

\* A request in progress is for some host.
HostInv == \A g \in Goroutine: pc[g] # "idle" => host[g] \in Host

\* An answer in hand is not older than it takes to store it.
LookupInv ==
  \A g \in Goroutine:
    /\ pc[g] \in {"idle", "load", "resolve"} => age[g] = 0
    /\ pc[g] = "store" => age[g] <= MaxLookup

\* An entry that is still valid was read that long before it was stored.
EntryInv ==
  \A h \in Host:
    Valid(h) => cache[h].age + cache[h].left <= MaxLookup + TTL(cache[h].svc)

FreshInv == TypeOK /\ HostInv /\ LookupInv /\ EntryInv /\ AnswersAreFresh

---------------------------------------------------------------------------
\* The caches start empty and nobody asks.
LEMMA FreshInit == Init => FreshInv
<1> SUFFICES ASSUME Init PROVE FreshInv
  OBVIOUS
<1>1. TypeOK
  BY RouterAssumption DEF Init, TypeOK, PC, AnswerCap, FetchCap
<1>2. HostInv /\ LookupInv /\ AnswersAreFresh
  BY DEF Init, HostInv, LookupInv, AnswersAreFresh, At
<1>3. EntryInv
  BY DEF Init, EntryInv, Valid
<1> QED BY <1>1, <1>2, <1>3 DEF FreshInv

\* A goroutine that answers its request is idle and has forgotten it.
LEMMA AnswerType ==
  ASSUME TypeOK, NEW g \in Goroutine, Answer(g)
  PROVE  /\ pc' \in [Goroutine -> PC]
         /\ host' \in [Goroutine -> Host \cup {NULL}]
         /\ svc' \in [Goroutine -> Service \cup {NULL}]
         /\ routes' \in [Goroutine -> SUBSET Host]
         /\ age' \in [Goroutine -> 0 .. AnswerCap]
BY RouterAssumption DEF TypeOK, Answer, Goto, PC, AnswerCap

\* The steps of the tenant lookup keep the state well formed.
LEMMA TenantStepType ==
  ASSUME TypeOK, HostInv, NEW g \in Goroutine,
         \/ \E h \in Host: Request(g, h)
         \/ CacheHit(g) \/ CacheMiss(g) \/ Resolve(g) \/ Store(g) \/ Pods(g)
  PROVE  TypeOK'
<1> USE DEF TypeOK, cluster, registry, locals
<1>1. CASE \E h \in Host: Request(g, h)
  BY <1>1 DEF Request, At, Goto, PC
<1>2. CASE CacheHit(g)
  <2>1. cache[host[g]] \in Entry
    BY <1>2 DEF CacheHit, Valid, At, HostInv
  <2> QED BY <1>2, <2>1 DEF CacheHit, AfterTenant, Goto, PC, Entry
<1>3. CASE CacheMiss(g)
  BY <1>3 DEF CacheMiss, Goto, PC
<1>4. CASE Resolve(g)
  <2>1. dns[host[g]] \in Service \cup {NULL}
    BY <1>4 DEF Resolve, At, HostInv
  <2>2. svc' \in [Goroutine -> Service \cup {NULL}] /\ faults' \in Nat
    BY <1>4, <2>1 DEF Resolve, MayFail
  <2> QED BY <1>4, <2>2 DEF Resolve, Goto, PC
<1>5. CASE Store(g)
  <2>1. TTL(svc[g]) \in 0 .. PositiveTTL + NegativeTTL
    BY RouterAssumption DEF TTL
  <2>2. [svc |-> svc[g], left |-> TTL(svc[g]), age |-> age[g]] \in Entry
    BY <2>1 DEF Entry
  <2>3. cache' \in [Host -> Entry \cup {NULL}]
    BY <1>5, <2>2 DEF Store
  <2> QED BY <1>5, <2>3 DEF Store, AfterTenant, Goto, PC
<1>6. CASE Pods(g)
  BY <1>6, AnswerType DEF Pods, MayFail
<1> QED BY <1>1, <1>2, <1>3, <1>4, <1>5, <1>6

\* So do those of the registry.
LEMMA RegistryStepType ==
  ASSUME TypeOK, NEW g \in Goroutine,
         CmRead(g) \/ CmLock(g) \/ Fetch(g) \/ FetchFails(g) \/ Install(g) \/ CmReread(g)
  PROVE  TypeOK'
<1> USE DEF TypeOK, cluster, registry, locals
<1>1. CASE CmRead(g)
  BY <1>1, AnswerType DEF CmRead, Goto, PC
<1>2. CASE CmLock(g)
  BY <1>2 DEF CmLock, Goto, PC
<1>3. CASE Fetch(g)
  BY <1>3, RouterAssumption DEF Fetch, Goto, PC
<1>4. CASE FetchFails(g)
  BY <1>4, RouterAssumption DEF FetchFails, MayFail, Goto, PC
<1>5. CASE Install(g)
  BY <1>5, RouterAssumption DEF Install, Goto, PC, FetchCap
<1>6. CASE CmReread(g)
  BY <1>6, AnswerType DEF CmReread
<1> QED BY <1>1, <1>2, <1>3, <1>4, <1>5, <1>6

\* The caps are numbers.
LEMMA CapsAreNat == AnswerCap \in Nat /\ FetchCap \in Nat
BY RouterAssumption DEF AnswerCap, FetchCap

\* Ages stay below their caps.
LEMMA OlderType ==
  ASSUME NEW cap \in Nat, NEW n \in 0 .. cap
  PROVE  Older(n, cap) \in 0 .. cap /\ n <= Older(n, cap) /\ Older(n, cap) <= n + 1
BY DEF Older

\* And so do those of the cluster and the clock.
LEMMA EnvironmentStepType ==
  ASSUME TypeOK, Change \/ Tick
  PROVE  TypeOK'
<1> USE DEF TypeOK, cluster, registry, locals
<1>1. CASE Change
  BY <1>1 DEF Change
<1>2. CASE Tick
  <2>1. AnswerCap \in Nat /\ FetchCap \in Nat
    BY RouterAssumption DEF AnswerCap, FetchCap
  <2>2. cmAge' \in 0 .. FetchCap
    BY <1>2, <2>1, OlderType DEF Tick
  <2>3. age' \in [Goroutine -> 0 .. AnswerCap]
    BY <1>2, <2>1, OlderType DEF Tick
  <2>4. ASSUME NEW h \in Host, cache[h] # NULL
        PROVE  [cache[h] EXCEPT !.left = IF @ > 0 THEN @ - 1 ELSE 0,
                                !.age = Older(@, AnswerCap)] \in Entry
    <3>1. cache[h] \in Entry
      BY <2>4
    <3>2. Older(cache[h].age, AnswerCap) \in 0 .. AnswerCap
      BY <2>1, <3>1, OlderType DEF Entry
    <3>3. (IF cache[h].left > 0 THEN cache[h].left - 1 ELSE 0) \in 0 .. PositiveTTL + NegativeTTL
      BY <3>1, RouterAssumption DEF Entry
    <3> QED BY <3>1, <3>2, <3>3 DEF Entry
  <2>5. cache' \in [Host -> Entry \cup {NULL}]
    BY <1>2, <2>4 DEF Tick
  <2> QED BY <1>2, <2>2, <2>3, <2>5 DEF Tick
<1> QED BY <1>1, <1>2

\* Every step keeps the state well formed.
LEMMA StepType == TypeOK /\ HostInv /\ [Next]_vars => TypeOK'
<1> SUFFICES ASSUME TypeOK, HostInv, [Next]_vars PROVE TypeOK'
  OBVIOUS
<1>1. CASE UNCHANGED vars
  BY <1>1 DEF vars, cluster, registry, locals, TypeOK
<1>2. CASE Next
  BY <1>2, TenantStepType, RegistryStepType, EnvironmentStepType DEF Next, Step
<1> QED BY <1>1, <1>2

---------------------------------------------------------------------------
(***************************************************************************)
(* How old an answer can be                                                *)
(***************************************************************************)

\* What the invariant says of one goroutine.
Waits(g) ==
  /\ pc[g] # "idle" => host[g] \in Host
  /\ pc[g] \in {"idle", "load", "resolve"} => age[g] = 0
  /\ pc[g] = "store" => age[g] <= MaxLookup
  /\ pc[g] = "pods" => age[g] < MaxLookup + PositiveTTL
  /\ pc[g] = "cm_read" => age[g] < MaxLookup + NegativeTTL

\* The invariant is about one goroutine, or one entry, at a time.
LEMMA FreshParts ==
  /\ FreshInv <=> TypeOK /\ EntryInv /\ \A g \in Goroutine: Waits(g)
  /\ FreshInv' <=> TypeOK' /\ EntryInv' /\ \A g \in Goroutine: Waits(g)'
BY DEF FreshInv, HostInv, LookupInv, AnswersAreFresh, Waits, At

\* A step of one goroutine leaves the others alone.
LEMMA OthersWait ==
  ASSUME TypeOK, NEW g \in Goroutine, NEW f \in Goroutine, f # g, Waits(f),
         Step(g) \/ \E h \in Host: Request(g, h)
  PROVE  Waits(f)'
<1>1. pc'[f] = pc[f] /\ host'[f] = host[f] /\ age'[f] = age[f]
  BY DEF TypeOK, Step, Request, CacheHit, CacheMiss, Resolve, Store, Pods, CmRead, CmLock, Fetch,
     FetchFails, Install, CmReread, Answer, Goto
<1> QED BY <1>1 DEF Waits

\* A goroutine takes an answer from the cache while it is valid, or looks it up.
LEMMA StepWaits ==
  ASSUME FreshInv, NEW g \in Goroutine, Step(g) \/ \E h \in Host: Request(g, h)
  PROVE  Waits(g)'
<1>1. TypeOK /\ EntryInv /\ Waits(g)
  BY FreshParts
<1>2. CASE \E h \in Host: Request(g, h)
  BY <1>1, <1>2 DEF Request, At, Goto, TypeOK, Waits
<1>3. CASE CacheHit(g)
  <2> DEFINE entry == cache[host[g]]
  <2>1. host[g] \in Host
    BY <1>1, <1>3 DEF CacheHit, At, Waits
  <2>2. entry \in Entry /\ entry.left > 0
    BY <1>1, <1>3, <2>1 DEF CacheHit, Valid, TypeOK
  <2>3. entry.age + entry.left <= MaxLookup + TTL(entry.svc)
    BY <1>1, <1>3, <2>1 DEF CacheHit, EntryInv
  <2>4. entry.age < MaxLookup + TTL(entry.svc)
    BY <2>2, <2>3, RouterAssumption DEF Entry, TTL
  <2>5. pc'[g] = AfterTenant(entry.svc) /\ age'[g] = entry.age /\ host'[g] = host[g]
    BY <1>1, <1>3 DEF CacheHit, Goto, TypeOK
  <2> QED BY <2>1, <2>4, <2>5 DEF AfterTenant, TTL, Waits
<1>4. CASE CacheMiss(g) \/ Resolve(g)
  BY <1>1, <1>4, RouterAssumption DEF CacheMiss, Resolve, At, Goto, TypeOK, Waits
<1>5. CASE Store(g)
  <2>1. age[g] <= MaxLookup /\ age[g] \in Int /\ host[g] \in Host
    BY <1>1, <1>5 DEF Store, At, Waits, TypeOK
  <2>2. pc'[g] \in {"pods", "cm_read"} /\ age'[g] = age[g] /\ host'[g] = host[g]
    BY <1>1, <1>5 DEF Store, AfterTenant, Goto, TypeOK
  <2> QED BY <2>1, <2>2, RouterAssumption DEF Waits
<1>6. CASE Pods(g) \/ CmReread(g) \/ CmRead(g)
  BY <1>1, <1>6 DEF Pods, CmReread, CmRead, Answer, At, Goto, TypeOK, Waits
<1>7. CASE CmLock(g) \/ Fetch(g) \/ FetchFails(g) \/ Install(g)
  BY <1>1, <1>7 DEF CmLock, Fetch, FetchFails, Install, At, Goto, TypeOK, Waits
<1> QED BY <1>2, <1>3, <1>4, <1>5, <1>6, <1>7 DEF Step

\* The clock stops for an answer that has to be stored, and ages no other.
LEMMA EnvironmentWaits ==
  ASSUME FreshInv, NEW g \in Goroutine, Change \/ Tick \/ UNCHANGED vars
  PROVE  Waits(g)'
<1>1. TypeOK /\ Waits(g)
  BY FreshParts
<1>2. CASE Change \/ UNCHANGED vars
  BY <1>1, <1>2 DEF Change, vars, locals, Waits
<1>3. CASE Tick
  <2>1. pc' = pc /\ host' = host
    BY <1>3 DEF Tick
  <2>2. CASE pc[g] = "store"
    <3>1. age[g] < MaxLookup /\ age'[g] = Older(age[g], AnswerCap)
      BY <1>3, <2>2 DEF Tick, At
    <3>2. age[g] \in 0 .. AnswerCap /\ AnswerCap \in Nat
      BY <1>1, CapsAreNat DEF TypeOK
    <3>3. age'[g] \in 0 .. AnswerCap /\ age'[g] <= age[g] + 1
      BY <3>1, <3>2, OlderType
    <3> QED BY <3>3, <1>1, <2>1, <2>2, <3>1, <3>2, RouterAssumption DEF Waits
  <2>3. CASE pc[g] # "store"
    BY <1>1, <1>3, <2>1, <2>3 DEF Tick, At, TypeOK, Waits
  <2> QED BY <2>2, <2>3
<1> QED BY <1>2, <1>3

\* An entry is stored with its whole time to live, and loses of it what it ages.
LEMMA EntryStep ==
  ASSUME FreshInv, [Next]_vars
  PROVE  EntryInv'
<1>1. TypeOK /\ EntryInv /\ \A g \in Goroutine: Waits(g)
  BY FreshParts
<1>2. CASE UNCHANGED cache
  BY <1>1, <1>2 DEF EntryInv, Valid
<1>3. ASSUME NEW g \in Goroutine, Store(g) PROVE EntryInv'
  <2>1. age[g] \in Nat /\ age[g] <= MaxLookup
    BY <1>1, <1>3 DEF Store, At, Waits, TypeOK
  <2>2. TTL(svc[g]) \in Nat
    BY RouterAssumption DEF TTL
  <2>3. ASSUME NEW h \in Host, h = host[g]
        PROVE  cache'[h] = [svc |-> svc[g], left |-> TTL(svc[g]), age |-> age[g]]
    BY <1>1, <1>3, <2>3 DEF Store, TypeOK
  <2>4. ASSUME NEW h \in Host, h # host[g] PROVE cache'[h] = cache[h]
    BY <1>1, <1>3, <2>4 DEF Store, TypeOK
  <2>5. ASSUME NEW h \in Host, Valid(h)'
        PROVE  cache'[h].age + cache'[h].left <= MaxLookup + TTL(cache'[h].svc)
    <3>1. CASE h = host[g]
      BY <2>1, <2>2, <2>3, <3>1, RouterAssumption
    <3>2. CASE h # host[g]
      BY <1>1, <2>4, <2>5, <3>2 DEF EntryInv, Valid
    <3> QED BY <3>1, <3>2
  <2> QED BY <2>5 DEF EntryInv, TTL
<1>4. CASE Tick
  <2>1. ASSUME NEW h \in Host, Valid(h)'
        PROVE  cache'[h].age + cache'[h].left <= MaxLookup + TTL(cache'[h].svc)
    <3>1. cache[h] # NULL /\ cache[h] \in Entry
      BY <1>1, <1>4, <2>1 DEF Tick, Valid, TypeOK
    <3>2. cache'[h] = [cache[h] EXCEPT !.left = IF @ > 0 THEN @ - 1 ELSE 0,
                                       !.age = Older(@, AnswerCap)]
      BY <1>4, <3>1 DEF Tick
    <3>3. cache[h].left > 0 /\ cache'[h].left = cache[h].left - 1 /\ cache'[h].svc = cache[h].svc
      BY <2>1, <3>1, <3>2 DEF Valid, Entry
    <3>4. cache'[h].age = Older(cache[h].age, AnswerCap)
      BY <3>1, <3>2 DEF Entry
    <3>5. /\ cache[h].age \in Nat /\ cache[h].left \in Nat
          /\ cache'[h].age \in Nat /\ cache'[h].age <= cache[h].age + 1
      <4>1. cache[h].age \in 0 .. AnswerCap /\ cache[h].left \in Nat /\ AnswerCap \in Nat
        BY <3>1, CapsAreNat, RouterAssumption DEF Entry
      <4>2. cache'[h].age \in 0 .. AnswerCap /\ cache'[h].age <= cache[h].age + 1
        BY <3>4, <4>1, OlderType
      <4>3. cache'[h].age \in Nat
        BY <4>1, <4>2
      <4> QED BY <3>3, <4>1, <4>2, <4>3
    <3>6. cache[h].age + cache[h].left <= MaxLookup + TTL(cache[h].svc)
      BY <1>1, <3>1, <3>3 DEF EntryInv, Valid
    <3>7. TTL(cache[h].svc) \in Nat
      BY RouterAssumption DEF TTL
    <3> QED BY <3>3, <3>5, <3>6, <3>7, RouterAssumption
  <2> QED BY <2>1 DEF EntryInv, TTL
<1> QED BY <1>2, <1>3, <1>4
        DEF Next, vars, Step, Request, CacheHit, CacheMiss, Resolve, Pods, CmRead, CmLock, Fetch,
            FetchFails, Install, CmReread, Change

\* Every step keeps the invariant.
LEMMA FreshStep == FreshInv /\ [Next]_vars => FreshInv'
<1> SUFFICES ASSUME FreshInv, [Next]_vars PROVE FreshInv'
  OBVIOUS
<1>1. TypeOK'
  BY StepType DEF FreshInv
<1>2. ASSUME NEW g \in Goroutine PROVE Waits(g)'
  <2>1. CASE Change \/ Tick \/ UNCHANGED vars
    BY <2>1, EnvironmentWaits
  <2>2. ASSUME NEW f \in Goroutine, Step(f) \/ \E h \in Host: Request(f, h)
        PROVE  Waits(g)'
    <3>1. CASE f = g
      BY <2>2, <3>1, StepWaits
    <3>2. CASE f # g
      BY <2>2, <3>2, OthersWait, FreshParts
    <3> QED BY <3>1, <3>2
  <2> QED BY <2>1, <2>2 DEF Next
<1> QED BY <1>1, <1>2, EntryStep, FreshParts

\* The caches, the registry and the goroutines stay well formed.
THEOREM RouterTypeCorrect == Spec => []TypeOK
<1>1. FreshInv => TypeOK
  BY DEF FreshInv
<1> QED BY <1>1, FreshInit, FreshStep, PTL DEF Spec

\* A request never acts on a DNS answer older than its time to live and the time
\* it took to store it, however many requests share the cache.
THEOREM AnswersAreFreshAlways == Spec => []AnswersAreFresh
<1>1. FreshInv => AnswersAreFresh
  BY DEF FreshInv
<1> QED BY <1>1, FreshInit, FreshStep, PTL DEF Spec

---------------------------------------------------------------------------
(***************************************************************************)
(* The tenant of a subdomain                                               *)
(*                                                                         *)
(* resolve()'s loop is a recursive function: a solution of the equation    *)
(* that Turn states.  Longest is one (TurnIsRight), and there is no other, *)
(* because two solutions would have to differ at a least length.           *)
(***************************************************************************)

\* A set of numbers that is not empty has a least element.
LEMMA LeastNat ==
  ASSUME NEW T, T \subseteq Nat, T # {}
  PROVE  \E x \in T: \A y \in T: x <= y
<1> DEFINE R == {ss \in Nat \X Nat: ss[1] < ss[2]}
<1>1. IsWellFoundedOn(R, Nat)
  BY NatLessThanWellFounded DEF OpToRel
<1>2. ASSUME NEW x \in Nat, NEW y \in Nat, y < x PROVE <<y, x>> \in R
  <2>1. <<y, x>> \in Nat \X Nat
    OBVIOUS
  <2>2. <<y, x>>[1] = y /\ <<y, x>>[2] = x
    OBVIOUS
  <2>3. <<y, x>>[1] < <<y, x>>[2]
    BY <1>2, <2>2
  <2> QED
    BY <2>1, <2>3, Zenon
<1> HIDE DEF R
<1>3. PICK x \in T: \A y \in T: ~ (<<y, x>> \in R)
  BY <1>1, WFMin
<1>4. ASSUME NEW y \in T PROVE x <= y
  <2>1. x \in Nat /\ y \in Nat
    OBVIOUS
  <2>2. ~ (y < x)
    BY <2>1, <1>2, <1>3, Zenon
  <2> QED
    BY <2>1, <2>2
<1> QED
  BY <1>4

\* So a set of numbers that is not empty and has a bound has a greatest one.
LEMMA MaxOfNats ==
  ASSUME NEW S, NEW n \in Nat, S \subseteq 0 .. n, S # {}
  PROVE  Resolution!Max(S) \in S /\ \A y \in S: y <= Resolution!Max(S)
<1> DEFINE T == {k \in Nat: n - k \in S}
<1>1. T # {} /\ T \subseteq Nat
  <2>1. PICK s \in S: TRUE
    OBVIOUS
  <2>2. n - s \in Nat /\ n - (n - s) = s
    BY <2>1
  <2> QED
    BY <2>2
<1>2. PICK k \in T: \A y \in T: k <= y
  BY <1>1, LeastNat
<1>3. n - k \in S /\ \A y \in S: y <= n - k
  <2>1. \A y \in S: n - y \in T
    OBVIOUS
  <2> QED
    BY <1>2, <2>1
<1>4. \E x \in S: \A y \in S: x >= y
  BY <1>3
<1> QED
  BY <1>4 DEF Resolution!Max

\* Which is the only one of its kind.
LEMMA MaxIs ==
  ASSUME NEW S, NEW n \in Nat, S \subseteq 0 .. n, NEW x \in S, \A y \in S: y <= x
  PROVE  Resolution!Max(S) = x
<1>1. Resolution!Max(S) \in S /\ \A y \in S: y <= Resolution!Max(S)
  BY MaxOfNats
<1>2. Resolution!Max(S) \in Nat /\ x \in Nat
  <2>1. \A y \in S: y \in Nat
    OBVIOUS
  <2> QED
    BY <1>1, <2>1
<1>3. x <= Resolution!Max(S) /\ Resolution!Max(S) <= x
  BY <1>1
<1> QED
  BY <1>2, <1>3

\* One turn of resolve()'s loop, which goes on as f.
Turn(sub, inDNS, f, remaining) ==
  IF Resolution!Separators(sub, remaining) \subseteq {1} THEN 0
  ELSE LET i == Resolution!LastIndex(sub, remaining) IN
       IF i < Len(sub) /\ i \in inDNS THEN i ELSE f[i - 1]

\* The longest organization within what remains.
Longest(inDNS, remaining) ==
  LET left == {i \in inDNS: i <= remaining} IN IF left = {} THEN 0 ELSE Resolution!Max(left)

\* The splits that DNS may know are separators, and none of them leads or trails.
LEMMA SplitsAre ==
  ASSUME NEW sub \in Seq({"x", "-"}), NEW inDNS \in SUBSET Resolution!Splits(sub)
  PROVE  /\ Len(sub) \in Nat
         /\ \A i \in inDNS: i \in Nat /\ 1 < i /\ i < Len(sub)
         /\ \A i \in inDNS, r \in 0 .. Len(sub): i <= r => i \in Resolution!Separators(sub, r)
BY DEF Resolution!Splits, Resolution!Separators

\* The last separator of what remains is in it, and no separator comes after it.
LEMMA LastSeparator ==
  ASSUME NEW sub \in Seq({"x", "-"}), NEW r \in 0 .. Len(sub),
         ~ (Resolution!Separators(sub, r) \subseteq {1})
  PROVE  /\ Resolution!LastIndex(sub, r) \in 1 .. r
         /\ \A i \in Resolution!Separators(sub, r): i <= Resolution!LastIndex(sub, r)
<1>1. Resolution!Separators(sub, r) \subseteq 1 .. r
  BY DEF Resolution!Separators
<1>2. r \in Nat /\ Resolution!Separators(sub, r) \subseteq 0 .. r
  BY <1>1
<1>3. Resolution!Separators(sub, r) # {}
  OBVIOUS
<1>4. /\ Resolution!Max(Resolution!Separators(sub, r)) \in Resolution!Separators(sub, r)
      /\ \A i \in Resolution!Separators(sub, r): i <= Resolution!Max(Resolution!Separators(sub, r))
  BY <1>2, <1>3, MaxOfNats
<1> QED
  BY <1>1, <1>4 DEF Resolution!LastIndex

\* A turn finds the longest organization, if the turns after it do.
LEMMA TurnIsRight ==
  ASSUME NEW sub \in Seq({"x", "-"}), NEW inDNS \in SUBSET Resolution!Splits(sub),
         NEW f, NEW r \in 0 .. Len(sub),
         \A n \in 0 .. Len(sub): n < r => f[n] = Longest(inDNS, n)
  PROVE  Turn(sub, inDNS, f, r) = Longest(inDNS, r)
<1> DEFINE left == {i \in inDNS: i <= r}
           last == Resolution!LastIndex(sub, r)
           seps == Resolution!Separators(sub, r)
<1>1. /\ Len(sub) \in Nat /\ r \in Nat
      /\ \A i \in inDNS: i \in Nat /\ 1 < i /\ i < Len(sub)
      /\ \A i \in inDNS: i <= r => i \in seps
  BY SplitsAre
<1> HIDE DEF seps
<1>2. CASE seps \subseteq {1}
  <2>1. ASSUME NEW i \in inDNS, i <= r PROVE FALSE
    BY <1>1, <1>2, <2>1
  <2>2. left = {}
    BY <2>1
  <2> QED
    BY <1>2, <2>2 DEF Turn, Longest, seps
<1>3. CASE ~ (seps \subseteq {1})
  <2>1. last \in 1 .. r /\ \A i \in seps: i <= last
    BY <1>3, LastSeparator DEF seps
  <2>2. \A i \in inDNS: i <= r => i <= last
    BY <1>1, <2>1
  <2> HIDE DEF last
  <2>3. Turn(sub, inDNS, f, r) = IF last < Len(sub) /\ last \in inDNS THEN last ELSE f[last - 1]
    BY <1>3 DEF Turn, last, seps
  <2>4. CASE last \in inDNS
    <3>1. last \in left /\ left \subseteq 0 .. r
      <4>1. last \in left
        BY <1>1, <2>1, <2>4
      <4>2. ASSUME NEW i \in left PROVE i \in 0 .. r
        BY <1>1
      <4> QED
        BY <4>1, <4>2
    <3>2. \A i \in left: i <= last
      BY <2>2
    <3> HIDE DEF left
    <3>4. Resolution!Max(left) = last
      BY <1>1, <3>1, <3>2, MaxIs
    <3>3. Turn(sub, inDNS, f, r) = last
      BY <1>1, <2>3, <2>4
    <3> QED
      BY <3>1, <3>3, <3>4 DEF Longest, left
  <2>5. CASE last \notin inDNS
    <3>1. last - 1 \in 0 .. Len(sub) /\ last - 1 < r
      BY <1>1, <2>1
    <3>2. left = {i \in inDNS: i <= last - 1}
      <4>1. ASSUME NEW i \in inDNS PROVE i <= r <=> i <= last - 1
        BY <1>1, <2>1, <2>2, <2>5
      <4> QED
        BY <4>1
    <3>3. Turn(sub, inDNS, f, r) = Longest(inDNS, last - 1)
      BY <2>3, <2>5, <3>1
    <3> QED
      BY <3>2, <3>3 DEF Longest
  <2> QED
    BY <2>4, <2>5
<1> QED
  BY <1>2, <1>3

\* Whatever the subdomain, however long, and wherever separators lead, trail or repeat
\* in it, the loop of resolve() finds the tenant with the longest organization among
\* those that DNS knows.
THEOREM LongestOrganizationWins ==
  ASSUME NEW sub \in Seq({"x", "-"}), NEW inDNS \in SUBSET Resolution!Splits(sub)
  PROVE  Resolution!Resolve(sub, inDNS) = IF inDNS = {} THEN 0 ELSE Resolution!Max(inDNS)
<1> DEFINE D == 0 .. Len(sub)
           Solves(f) == f = [r \in D |-> Turn(sub, inDNS, f, r)]
           loop == CHOOSE f: Solves(f)
           best == [r \in D |-> Longest(inDNS, r)]
<1>1. Solves(best)
  <2>1. ASSUME NEW r \in D PROVE Turn(sub, inDNS, best, r) = Longest(inDNS, r)
    BY TurnIsRight
  <2> QED
    BY <2>1
<1>2. Solves(loop)
  BY <1>1
<1> HIDE DEF loop
<1>3. ASSUME NEW r \in D PROVE loop[r] = Turn(sub, inDNS, loop, r)
  BY <1>2
<1>4. \A r \in D: loop[r] = Longest(inDNS, r)
  <2> DEFINE wrong == {r \in D: loop[r] # Longest(inDNS, r)}
  <2>1. SUFFICES ASSUME wrong # {} PROVE FALSE
    OBVIOUS
  <2>2. PICK r \in wrong: \A n \in wrong: r <= n
    <3>1. wrong \subseteq Nat
      OBVIOUS
    <3> QED
      BY <2>1, <3>1, LeastNat
  <2>3. \A n \in D: n < r => loop[n] = Longest(inDNS, n)
    BY <2>2
  <2>4. Turn(sub, inDNS, loop, r) = Longest(inDNS, r)
    BY <2>3, TurnIsRight
  <2> QED
    BY <1>3, <2>2, <2>4
<1>5. Resolution!Resolve(sub, inDNS) = loop[Len(sub)]
  BY DEF Resolution!Resolve, loop, Turn
<1>6. Len(sub) \in D /\ {i \in inDNS: i <= Len(sub)} = inDNS
  BY SplitsAre
<1> QED
  BY <1>4, <1>5, <1>6 DEF Longest

\* Whenever a request resolves a host, the loop is right about all subdomains that
\* the runs enumerate.
THEOREM ResolutionIsAlwaysRight == Spec => []ResolutionIsRight
<1>1. AllSubdomains
  <2>1. ASSUME NEW sub \in Resolution!Names(8) PROVE sub \in Seq({"x", "-"})
    <3>1. PICK n \in 0 .. 8: sub \in [1 .. n -> {"x", "-"}]
      BY DEF Resolution!Names
    <3>2. n \in Nat
      OBVIOUS
    <3> QED
      BY <3>1, <3>2
  <2> QED
    BY <2>1, LongestOrganizationWins DEF AllSubdomains, Resolution!LongestOrgWins
<1>2. ResolutionIsRight
  BY <1>1 DEF ResolutionIsRight
<1> QED
  BY <1>2, PTL

=============================================================================
