---------------------------- MODULE CnameRouter ----------------------------
(***************************************************************************)
(* The CNAME router's lookups: concurrent requests over a tenant cache with*)
(* a time to live, and over a registry of ConfigMap routes behind a lock.  *)
(* ServeHTTP and CertificateAllowed ask the same two questions in the same *)
(* order; each has a copy of the caches to itself, and this is one of them.*)
(*                                                                         *)
(* Source: caddy-cname-router/cnamerouter.go.                              *)
(*                                                                         *)
(* Abstractions.  A host resolves to a service or to nothing (RouteResolve *)
(* is about how).  Clock time is relative: the time that an entry is still *)
(* valid, and the time since something was read, both counted in ticks and *)
(* the latter up to a cap.                                                 *)
(***************************************************************************)
EXTENDS Integers

CONSTANTS
  Goroutine,     \* the requests served at the same time
  Host,          \* host names asked for
  Service,       \* tenant services
  PositiveTTL,   \* cache_ttl
  NegativeTTL,   \* negative_cache_ttl
  Interval,      \* cmCacheInterval
  MaxLookup,     \* ticks between a DNS answer and its entry in the cache
  MaxChanges,    \* changes to the tenants and ConfigMaps in the cluster
  MaxFaults,     \* DNS and API calls that fail
  NULL           \* no service, no entry, nobody

ASSUME RouterAssumption ==
  /\ {PositiveTTL, NegativeTTL, Interval, MaxLookup} \subseteq Nat \ {0}
  /\ MaxChanges \in Nat /\ MaxFaults \in Nat
  /\ NULL \notin Goroutine \cup Host \cup Service

VARIABLES
  dns,         \* the cluster: the tenant service each host stands for
  configmaps,  \* the cluster: the hosts that have a caddy-route ConfigMap
  cache,       \* cache[h]: what tenant() remembers of h
  cmRoutes,    \* the hosts in the registry
  cmAge,       \* ticks since cmLastFetch
  cmRoutesMu,  \* who holds the registry's write lock
  pc, host,    \* of each goroutine: its next statement and the host it asks for
  svc,         \* ... the service it was told
  routes,      \* ... the ConfigMaps it fetched
  age,         \* history: how old that DNS answer was when tenant() returned it
  changes, faults

cluster == <<dns, configmaps, changes>>
registry == <<cmRoutes, cmAge, cmRoutesMu>>
locals == <<pc, host, svc, routes, age>>
vars == <<cluster, cache, registry, locals, faults>>

PC == {"idle", "load", "resolve", "store", "pods", "cm_read", "cm_lock", "fetch",
       "install", "cm_reread"}

\* Past these, nothing tells two ages apart.
AnswerCap == MaxLookup + PositiveTTL + NegativeTTL
FetchCap == Interval + 1

Older(n, cap) == IF n < cap THEN n + 1 ELSE n

Entry == [svc: Service \cup {NULL}, left: 0 .. PositiveTTL + NegativeTTL, age: 0 .. AnswerCap]

TypeOK ==
  /\ dns \in [Host -> Service \cup {NULL}]
  /\ configmaps \subseteq Host
  /\ cache \in [Host -> Entry \cup {NULL}]
  /\ cmRoutes \subseteq Host
  /\ cmAge \in 0 .. FetchCap
  /\ cmRoutesMu \in Goroutine \cup {NULL}
  /\ pc \in [Goroutine -> PC]
  /\ host \in [Goroutine -> Host \cup {NULL}]
  /\ svc \in [Goroutine -> Service \cup {NULL}]
  /\ routes \in [Goroutine -> SUBSET Host]
  /\ age \in [Goroutine -> 0 .. AnswerCap]
  /\ changes \in Nat /\ faults \in Nat

\* cmLastFetch is the zero time: the registry is older than any interval.
Init ==
  /\ dns \in [Host -> Service \cup {NULL}]
  /\ configmaps \in SUBSET Host
  /\ cache = [h \in Host |-> NULL]
  /\ cmRoutes = {} /\ cmAge = FetchCap /\ cmRoutesMu = NULL
  /\ pc = [g \in Goroutine |-> "idle"]
  /\ host = [g \in Goroutine |-> NULL]
  /\ svc = [g \in Goroutine |-> NULL]
  /\ routes = [g \in Goroutine |-> {}]
  /\ age = [g \in Goroutine |-> 0]
  /\ changes = 0 /\ faults = 0

At(g, label) == pc[g] = label
Goto(g, label) == pc' = [pc EXCEPT ![g] = label]

\* The request is over and its goroutine forgets what it knew.
Answer(g) ==
  /\ Goto(g, "idle")
  /\ host' = [host EXCEPT ![g] = NULL]
  /\ svc' = [svc EXCEPT ![g] = NULL]
  /\ routes' = [routes EXCEPT ![g] = {}]
  /\ age' = [age EXCEPT ![g] = 0]

\* A call may fail while faults are left.
MayFail == faults < MaxFaults /\ faults' = faults + 1

---------------------------------------------------------------------------
(***************************************************************************)
(* tenant                                                                  *)
(***************************************************************************)

Request(g, h) ==
  /\ At(g, "idle")
  /\ Goto(g, "load")
  /\ host' = [host EXCEPT ![g] = h]
  /\ UNCHANGED <<cluster, cache, registry, svc, routes, age, faults>>

\* What tenant() returns decides which of the two stages is next.
AfterTenant(service) == IF service # NULL THEN "pods" ELSE "cm_read"

TTL(service) == IF service # NULL THEN PositiveTTL ELSE NegativeTTL

\* Mutant: an entry is used whether it has expired or not.
EverValid(h) == cache[h] # NULL

Valid(h) == cache[h] # NULL /\ cache[h].left > 0

CacheHit(g) ==
  /\ At(g, "load")
  /\ Valid(host[g])
  /\ LET entry == cache[host[g]] IN
       /\ svc' = [svc EXCEPT ![g] = entry.svc]
       /\ age' = [age EXCEPT ![g] = entry.age]
       /\ Goto(g, AfterTenant(entry.svc))
  /\ UNCHANGED <<cluster, cache, registry, host, routes, faults>>

CacheMiss(g) ==
  /\ At(g, "load")
  /\ ~ Valid(host[g])
  /\ Goto(g, "resolve")
  /\ UNCHANGED <<cluster, cache, registry, host, svc, routes, age, faults>>

\* resolve(): DNS answers, or fails, which is cached like "no such tenant".
Resolve(g) ==
  /\ At(g, "resolve")
  /\ \/ svc' = [svc EXCEPT ![g] = dns[host[g]]] /\ UNCHANGED faults
     \/ svc' = [svc EXCEPT ![g] = NULL] /\ MayFail
  /\ Goto(g, "store")
  /\ UNCHANGED <<cluster, cache, registry, host, routes, age>>

\* Last writer wins, also when its answer is the older one.
Store(g) ==
  /\ At(g, "store")
  /\ cache' = [cache EXCEPT ![host[g]] =
                 [svc |-> svc[g], left |-> TTL(svc[g]), age |-> age[g]]]
  /\ Goto(g, AfterTenant(svc[g]))
  /\ UNCHANGED <<cluster, registry, host, svc, routes, age, faults>>

\* podIPs: proxied when the service has pods, 502 otherwise.
Pods(g) ==
  /\ At(g, "pods")
  /\ Answer(g)
  /\ \/ UNCHANGED faults
     \/ MayFail
  /\ UNCHANGED <<cluster, cache, registry>>

---------------------------------------------------------------------------
(***************************************************************************)
(* cmLookup and refreshCMRoutes                                            *)
(***************************************************************************)

\* Mutant: the comparison is the wrong way round.
NeverExpired == cmAge < Interval

Expired == cmAge > Interval

\* Under the read lock: the route and the age.
CmRead(g) ==
  /\ At(g, "cm_read")
  /\ cmRoutesMu = NULL
  /\ IF Expired
     THEN Goto(g, "cm_lock") /\ UNCHANGED <<host, svc, routes, age>>
     ELSE Answer(g)
  /\ UNCHANGED <<cluster, cache, registry, faults>>

\* The write lock, and the check whether another goroutine was faster.
CmLock(g) ==
  /\ At(g, "cm_lock")
  /\ cmRoutesMu = NULL
  /\ IF 2 * cmAge < Interval
     THEN Goto(g, "cm_reread") /\ UNCHANGED cmRoutesMu
     ELSE Goto(g, "fetch") /\ cmRoutesMu' = g
  /\ UNCHANGED <<cluster, cache, cmRoutes, cmAge, host, svc, routes, age, faults>>

\* The API's answer; the lock is held all the while.
Fetch(g) ==
  /\ At(g, "fetch")
  /\ routes' = [routes EXCEPT ![g] = configmaps]
  /\ Goto(g, "install")
  /\ UNCHANGED <<cluster, cache, registry, host, svc, age, faults>>

\* Mutant: the early return does not unlock.
LockKept(g) ==
  /\ At(g, "fetch")
  /\ MayFail
  /\ Goto(g, "cm_reread")
  /\ UNCHANGED <<cluster, cache, registry, host, svc, routes, age>>

\* ... or it fails: registry and time stamp stay as they were.
FetchFails(g) ==
  /\ At(g, "fetch")
  /\ MayFail
  /\ cmRoutesMu' = NULL
  /\ Goto(g, "cm_reread")
  /\ UNCHANGED <<cluster, cache, cmRoutes, cmAge, host, svc, routes, age>>

Install(g) ==
  /\ At(g, "install")
  /\ cmRoutes' = routes[g]
  /\ cmAge' = 0
  /\ cmRoutesMu' = NULL
  /\ Goto(g, "cm_reread")
  /\ UNCHANGED <<cluster, cache, host, svc, routes, age, faults>>

CmReread(g) ==
  /\ At(g, "cm_reread")
  /\ cmRoutesMu = NULL
  /\ Answer(g)
  /\ UNCHANGED <<cluster, cache, registry, faults>>

---------------------------------------------------------------------------
(***************************************************************************)
(* The cluster and the clock                                               *)
(***************************************************************************)

\* Tenants and ConfigMaps come and go.
Change ==
  /\ changes < MaxChanges
  /\ changes' = changes + 1
  /\ \E h \in Host:
       \/ /\ \E service \in Service \cup {NULL}: dns' = [dns EXCEPT ![h] = service]
          /\ UNCHANGED configmaps
       \/ /\ configmaps' = IF h \in configmaps THEN configmaps \ {h} ELSE configmaps \cup {h}
          /\ UNCHANGED dns
  /\ UNCHANGED <<cache, registry, locals, faults>>

\* An answer from DNS is in the cache within MaxLookup ticks.
Tick ==
  /\ \A g \in Goroutine: At(g, "store") => age[g] < MaxLookup
  /\ cache' = [h \in Host |->
       IF cache[h] = NULL THEN NULL
       ELSE [cache[h] EXCEPT !.left = IF @ > 0 THEN @ - 1 ELSE 0, !.age = Older(@, AnswerCap)]]
  /\ cmAge' = Older(cmAge, FetchCap)
  /\ age' = [g \in Goroutine |-> IF At(g, "store") THEN Older(age[g], AnswerCap) ELSE age[g]]
  /\ UNCHANGED <<cluster, cmRoutes, cmRoutesMu, pc, host, svc, routes, faults>>

Step(g) ==
  \/ CacheHit(g)
  \/ CacheMiss(g)
  \/ Resolve(g)
  \/ Store(g)
  \/ Pods(g)
  \/ CmRead(g)
  \/ CmLock(g)
  \/ Fetch(g)
  \/ FetchFails(g)
  \/ Install(g)
  \/ CmReread(g)

Next ==
  \/ \E g \in Goroutine, h \in Host: Request(g, h)
  \/ \E g \in Goroutine: Step(g)
  \/ Change
  \/ Tick

Spec == Init /\ [][Next]_vars

\* Goroutines run; a sync.RWMutex lets nobody wait for ever, hence strong fairness.
\* The clock runs.  Nobody has to send a request.
FairSpec == Spec /\ (\A g \in Goroutine: SF_vars(Step(g))) /\ WF_vars(Tick)

---------------------------------------------------------------------------
(***************************************************************************)
(* Properties                                                              *)
(***************************************************************************)

\* No request acts on a DNS answer that is older than its time to live and the time
\* it took to store it: a removed tenant is forgotten, and a new one noticed, that
\* soon, although a slower goroutine may overwrite a newer answer with its own.
AnswersAreFresh ==
  \A g \in Goroutine:
    /\ At(g, "pods") => age[g] < MaxLookup + PositiveTTL
    /\ At(g, "cm_read") => age[g] < MaxLookup + NegativeTTL

\* Every request is answered: the lock is released on every path, whether the API
\* answers, fails or was asked by somebody else.
RequestsAreAnswered == \A g \in Goroutine: ~ At(g, "idle") ~> At(g, "idle")

\* What the request of g was told is what the cluster holds as it is answered.
Right(g) ==
  IF At(g, "pods") THEN svc[g] = dns[host[g]]
  ELSE dns[host[g]] = NULL /\ (host[g] \in cmRoutes <=> host[g] \in configmaps)

\* Once the cluster is quiet and calls succeed, wrong answers end.
WrongAnswersEnd ==
  <>[][\A g \in Goroutine: ~ At(g, "idle") /\ At(g, "idle")' => Right(g)]_vars

=============================================================================
