------------------------ MODULE TenantObjectsProofs ------------------------
(***************************************************************************)
(* Proofs about TenantObjects, for any environments: which ones have a     *)
(* name in common, and that no task changes what belongs to another.       *)
(***************************************************************************)
EXTENDS TenantObjects, SequenceTheorems, TLAPS

OwnKinds == {"Deployment", "HorizontalPodAutoscaler", "PodDisruptionBudget", "Service",
             "Ingress"}

SecretSuffixes == {"valkey", "os-creds", "postgres"}

Suffixes == SecretSuffixes \cup {"hl", "assets", "os-user"}

\* What names are made of.  (The provers do not know that a literal is in STRING.)
Part == STRING \cup Suffixes \cup {"route"}

Key == Seq(Part)

\* The names of an environment, one by one.
Listed(e) ==
  {Own(kind, e): kind \in OwnKinds} \cup {SecretFor(e, s): s \in SecretSuffixes}
  \cup {Headless(e), Claim(e), Volume(e), Route(e), Database(e), Role(e), User(e)}

---------------------------------------------------------------------------
(***************************************************************************)
(* Names                                                                   *)
(***************************************************************************)

\* The keys of an environment are sequences, and so is the name of its instance.
LEMMA Keys ==
  ASSUME NEW e \in Env
  PROVE  /\ e.org \in Key /\ e.env \in Key /\ e.org # <<>> /\ e.env # <<>>
         /\ e.org # CaddyIngress
         /\ instanceName(e) \in Key
<1>1. e \in [org: Seq(STRING) \ {<<>>}, env: Seq(STRING) \ {<<>>}]
  BY ObjectsAssumption
<1>2. e.org \in Seq(STRING) \ {<<>>} /\ e.env \in Seq(STRING) \ {<<>>}
  BY <1>1
<1>3. e.org \in Key /\ e.env \in Key
  BY <1>2, SeqMonotonic DEF Key, Part
<1> QED
  BY <1>2, <1>3, ObjectsAssumption, ConcatProperties DEF Key, instanceName

\* Names with a suffix are the same if instance and suffix are.
LEMMA SuffixedNames ==
  ASSUME NEW e \in Env, NEW f \in Env, NEW s \in Suffixes, NEW t \in Suffixes
  PROVE  (Suffixed(e, s) = Suffixed(f, t)) <=> (instanceName(e) = instanceName(f) /\ s = t)
BY Keys, AppendInjective DEF Key, Part, Suffixed

\* The names in the overlay.
LEMMA OverlayNames ==
  ASSUME NEW e \in Env
  PROVE  Names(generateOverlayKustomization(e)) =
           {Own(kind, e): kind \in OwnKinds \ {"Ingress"}} \cup {Headless(e)}
           \cup Limits(e.org) \cup {TenantConfig(e.org)}
<1> DEFINE five == { Deployment(e),
                     Manifest(Own("HorizontalPodAutoscaler", e), {ScaleTarget(e)}),
                     Selecting(Own("PodDisruptionBudget", e), Selector(e)),
                     Selecting(Own("Service", e), Selector(e)),
                     Selecting(Headless(e), Selector(e)) }
           base == Limits(e.org) \cup {TenantConfig(e.org)}
<1>1. \A n, refs: Manifest(n, refs).name = n
  BY DEF Manifest
<1>2. \A n, l: Selecting(n, l).name = n
  BY DEF Manifest, Selecting
<1>3. Deployment(e).name = Own("Deployment", e)
  BY DEF Manifest, Deployment
<1>4. {m.name: m \in five} =
        {Own(kind, e): kind \in OwnKinds \ {"Ingress"}} \cup {Headless(e)}
  <2>1. {m.name: m \in five} =
          { Own("Deployment", e), Own("HorizontalPodAutoscaler", e),
            Own("PodDisruptionBudget", e), Own("Service", e), Headless(e) }
    <3>1. \A a, b, c, d, h: {m.name: m \in {a, b, c, d, h}} =
                                  {a.name, b.name, c.name, d.name, h.name}
      OBVIOUS
    <3> QED
      BY <3>1, <1>1, <1>2, <1>3
  <2>2. OwnKinds \ {"Ingress"} =
          {"Deployment", "HorizontalPodAutoscaler", "PodDisruptionBudget", "Service"}
    BY DEF OwnKinds
  <2> QED
    BY <2>1, <2>2
<1>5. {m.name: m \in {Manifest(n, {}): n \in base}} = base
  <2>1. ASSUME NEW n \in base PROVE n \in {m.name: m \in {Manifest(k, {}): k \in base}}
    <3>1. Manifest(n, {}) \in {Manifest(k, {}): k \in base}
      BY <2>1
    <3> QED
      BY <3>1, <1>1
  <2>2. ASSUME NEW n \in {m.name: m \in {Manifest(k, {}): k \in base}} PROVE n \in base
    BY <1>1, <2>2
  <2> QED
    BY <2>1, <2>2
<1>6. generateOverlayKustomization(e) = five \cup {Manifest(n, {}): n \in base}
  BY DEF generateOverlayKustomization
<1> HIDE DEF five, base
<1>7. Names(generateOverlayKustomization(e)) = 
        {m.name: m \in five} \cup {m.name: m \in {Manifest(n, {}): n \in base}}
  BY <1>6 DEF Names
<1> QED
  BY <1>4, <1>5, <1>7 DEF base

\* Every manifest of an environment has a name that is listed or shared.
LEMMA ManifestNames ==
  ASSUME NEW e \in Env
  PROVE  Names(ManifestsOf[e]) \subseteq Listed(e) \cup SharedNames(e.org)
<1> SUFFICES ASSUME NEW i \in 1 .. 10, NEW m \in Provision[e][i]
             PROVE  m.name \in Listed(e) \cup SharedNames(e.org)
  <2>1. DOMAIN Provision[e] = 1 .. 10
    BY DEF Provision
  <2> QED
    BY <2>1 DEF Names, ManifestsOf
<1>1. CASE i \in {1, 2, 3}
  BY <1>1 DEF Provision, Manifest, Listed, SharedNames, SecretSuffixes
<1>2. CASE i \in {4, 5, 6}
  BY <1>2 DEF Provision, Manifest, Listed, SecretSuffixes
<1>3. CASE i = 7
  <2>1. m \in generateOverlayKustomization(e)
    BY <1>3 DEF Provision
  <2>2. m.name \in Names(generateOverlayKustomization(e))
    BY <2>1 DEF Names
  <2> QED
    BY <2>2, OverlayNames DEF Listed, SharedNames
<1>4. CASE i \in {8, 9, 10}
  BY <1>4 DEF Provision, Manifest, Listed, OwnKinds
<1> QED
  BY <1>1, <1>2, <1>3, <1>4

\* ... and every listed name is in some manifest.
LEMMA ListedInManifests ==
  ASSUME NEW e \in Env
  PROVE  Listed(e) \subseteq Names(ManifestsOf[e])
<1>1. DOMAIN Provision[e] = 1 .. 10
  BY DEF Provision
<1>2. \A i \in 1 .. 10: \A m \in Provision[e][i]: m.name \in Names(ManifestsOf[e])
  BY <1>1 DEF Names, ManifestsOf
<1>3. Names(generateOverlayKustomization(e)) = {m.name: m \in Provision[e][7]}
  BY DEF Provision, Names
<1>4. /\ \A kind \in OwnKinds \ {"Ingress"}: Own(kind, e) \in {m.name: m \in Provision[e][7]}
      /\ Headless(e) \in {m.name: m \in Provision[e][7]}
  BY <1>3, OverlayNames
<1>5. /\ Own("Ingress", e) \in {m.name: m \in Provision[e][8]}
      /\ Route(e) \in {m.name: m \in Provision[e][9]}
  BY DEF Provision, Manifest
<1>6. /\ SecretFor(e, "valkey") \in {m.name: m \in Provision[e][2]}
      /\ SecretFor(e, "os-creds") \in {m.name: m \in Provision[e][4]}
      /\ User(e) \in {m.name: m \in Provision[e][4]}
      /\ SecretFor(e, "postgres") \in {m.name: m \in Provision[e][5]}
  BY DEF Provision, Manifest
<1>7. /\ Role(e) \in {m.name: m \in Provision[e][5]}
      /\ Database(e) \in {m.name: m \in Provision[e][5]}
      /\ Volume(e) \in {m.name: m \in Provision[e][6]}
      /\ Claim(e) \in {m.name: m \in Provision[e][6]}
  BY DEF Provision, Manifest
<1>8. \A i \in 1 .. 10: {m.name: m \in Provision[e][i]} \subseteq Names(ManifestsOf[e])
  BY <1>2
<1> QED
  BY <1>4, <1>5, <1>6, <1>7, <1>8 DEF Listed, OwnKinds, SecretSuffixes

\* A listed name is known by its kind, but for the Services and the Secrets.
LEMMA ListedByKind ==
  ASSUME NEW e \in Env, NEW n \in Listed(e)
  PROVE  \/ n.kind \in OwnKinds /\ n = Own(n.kind, e)
         \/ n.kind = "Service" /\ n = Headless(e)
         \/ n.kind = "Secret" /\ \E s \in SecretSuffixes: n = SecretFor(e, s)
         \/ n.kind = "PersistentVolumeClaim" /\ n = Claim(e)
         \/ n.kind = "PersistentVolume" /\ n = Volume(e)
         \/ n.kind = "ConfigMap" /\ n = Route(e)
         \/ n.kind = "Database" /\ n = Database(e)
         \/ n.kind = "Role" /\ n = Role(e)
         \/ n.kind = "User" /\ n = User(e)
<1>1. CASE \E kind \in OwnKinds: n = Own(kind, e)
  BY <1>1 DEF Own, Name
<1>2. CASE \E s \in SecretSuffixes: n = SecretFor(e, s)
  BY <1>2 DEF SecretFor, Name
<1>3. CASE n \in {Headless(e), Claim(e), Volume(e), Route(e), Database(e), Role(e), User(e)}
  BY <1>3 DEF Headless, Claim, Volume, Route, Database, Role, User, Name
<1> QED
  BY <1>1, <1>2, <1>3 DEF Listed

\* No listed name is shared, whatever organization shares it.
LEMMA ListedIsNotShared ==
  ASSUME NEW e \in Env, NEW f \in Env
  PROVE  Listed(e) \cap SharedNames(f.org) = {}
<1> SUFFICES ASSUME NEW n \in Listed(e), n \in SharedNames(f.org)
             PROVE  FALSE
  OBVIOUS
<1>1. Len(instanceName(e)) >= 2
  <2>1. e.org \in Key /\ e.env \in Key /\ e.org # <<>> /\ e.env # <<>>
    BY Keys
  <2>2. Len(e.org) \in Nat \ {0} /\ Len(e.env) \in Nat \ {0}
    BY <2>1, EmptySeq, LenProperties DEF Key
  <2>3. Len(e.org \o e.env) = Len(e.org) + Len(e.env)
    BY <2>1, ConcatProperties DEF Key
  <2>4. \A a, b \in Nat \ {0}: a + b >= 2
    OBVIOUS
  <2> QED
    BY <2>2, <2>3, <2>4 DEF instanceName
<1>2. e.org # CaddyIngress /\ f.org # CaddyIngress /\ e.org # ClusterWide /\ f.org # ClusterWide
  BY Keys DEF ClusterWide
<1>3. CaddyIngress # ClusterWide
  BY DEF CaddyIngress, ClusterWide
<1>4. n.kind \in {"Namespace", "ResourceQuota", "LimitRange", "Service", "Secret", "ConfigMap"}
  BY DEF SharedNames, Limits, TheNamespace, Valkey, Wasabi, TenantConfig, Name
<1>5. n.kind # "Service"
  <2> SUFFICES ASSUME n.kind = "Service"
               PROVE  FALSE
    OBVIOUS
  <2>1. n.name = <<"valkey">>
    BY DEF SharedNames, Limits, TheNamespace, Valkey, Wasabi, TenantConfig, Name
  <2>2. n.name = instanceName(e) \/ n.name = Suffixed(e, "hl")
    BY ListedByKind DEF Own, Headless, Name
  <2>3. Len(n.name) >= 2
    BY <1>1, <2>2, Keys, AppendProperties DEF Suffixed, Key
  <2> QED
    BY <2>1, <2>3
<1>6. n.kind # "Secret"
  <2> SUFFICES ASSUME n.kind = "Secret"
               PROVE  FALSE
    OBVIOUS
  <2>1. n.name = <<"wasabi", "backup", "creds">>
    BY DEF SharedNames, Limits, TheNamespace, Valkey, Wasabi, TenantConfig, Name
  <2>2. PICK s \in SecretSuffixes: n.name = Suffixed(e, s)
    BY ListedByKind DEF SecretFor, Name, OwnKinds
  <2>3. n.name[Len(n.name)] = s
    BY <2>2, Keys, AppendProperties DEF Suffixed, Key, SecretSuffixes
  <2> QED
    BY <2>1, <2>3 DEF SecretSuffixes
<1>7. n.kind # "ConfigMap"
  <2> SUFFICES ASSUME n.kind = "ConfigMap"
               PROVE  FALSE
    OBVIOUS
  <2>1. n.ns = f.org
    BY DEF SharedNames, Limits, TheNamespace, Valkey, Wasabi, TenantConfig, Name
  <2>2. n.ns = CaddyIngress
    BY ListedByKind DEF Route, Name, OwnKinds
  <2> QED
    BY <1>2, <2>1, <2>2
<1>8. n.kind \notin {"Namespace", "ResourceQuota", "LimitRange"}
  BY ListedByKind DEF OwnKinds
<1> QED
  BY <1>4, <1>5, <1>6, <1>7, <1>8

\* So the environment's own names are the listed ones.
LEMMA OwnAreListed ==
  ASSUME NEW e \in Env
  PROVE  /\ OwnNames[e] = Listed(e)
         /\ Names(ManifestsOf[e]) \subseteq OwnNames[e] \cup SharedNames(e.org)
BY ManifestNames, ListedInManifests, ListedIsNotShared DEF OwnNames

\* Where they are: in the organization's namespace, the router's or none.
LEMMA OwnNamespaces ==
  ASSUME NEW e \in Env, NEW n \in OwnNames[e]
  PROVE  n.ns \in {e.org, CaddyIngress, ClusterWide}
<1>1. n \in Listed(e)
  BY OwnAreListed
<1> QED
  BY <1>1, ListedByKind
     DEF Own, SecretFor, Headless, Claim, Volume, Route, Database, Role, User, Name

\* Two environments whose names do not clash have no name in common ...
LEMMA NoCommonName ==
  ASSUME NEW e \in Env, NEW f \in Env, ~ Clash(e, f)
  PROVE  OwnNames[e] \cap OwnNames[f] = {}
<1> SUFFICES ASSUME NEW n \in Listed(e), n \in Listed(f)
             PROVE  FALSE
  BY OwnAreListed
<1>1. instanceName(e) # instanceName(f)
  BY DEF Clash
<1>2. ASSUME NEW s \in Suffixes, NEW t \in Suffixes PROVE Suffixed(e, s) # Suffixed(f, t)
  BY <1>1, SuffixedNames
<1>3. CASE n.kind \in OwnKinds \ {"Service"}
  <2>1. n = Own(n.kind, e) /\ n = Own(n.kind, f)
    BY <1>3, ListedByKind DEF OwnKinds
  <2>2. n.name = instanceName(e) /\ n.name = instanceName(f)
    BY <2>1 DEF Own, Name
  <2> QED
    BY <1>1, <2>2
<1>4. CASE n.kind = "Service"
  <2>1. /\ n = Own("Service", e) \/ n = Headless(e)
        /\ n = Own("Service", f) \/ n = Headless(f)
    BY <1>4, ListedByKind DEF OwnKinds
  <2>2. e.org = f.org
    BY <2>1 DEF Own, Headless, Name
  <2>3. instanceName(e) # Suffixed(f, "hl") /\ instanceName(f) # Suffixed(e, "hl")
    BY <2>2 DEF Clash
  <2>4. /\ n.name = instanceName(e) \/ n.name = Suffixed(e, "hl")
        /\ n.name = instanceName(f) \/ n.name = Suffixed(f, "hl")
    BY <2>1 DEF Own, Headless, Name
  <2>5. Suffixed(e, "hl") # Suffixed(f, "hl")
    BY <1>2 DEF Suffixes
  <2> QED
    BY <1>1, <2>3, <2>4, <2>5
<1>5. CASE n.kind = "Secret"
  <2>1. PICK s \in SecretSuffixes: n = SecretFor(e, s)
    BY <1>5, ListedByKind DEF OwnKinds
  <2>2. PICK t \in SecretSuffixes: n = SecretFor(f, t)
    BY <1>5, ListedByKind DEF OwnKinds
  <2>3. Suffixed(e, s) = Suffixed(f, t)
    BY <2>1, <2>2 DEF SecretFor, Name
  <2> QED
    BY <1>2, <2>3 DEF Suffixes
<1>6. CASE n.kind \in {"PersistentVolumeClaim", "PersistentVolume", "User"}
  <2>1. \/ n = Claim(e) /\ n = Claim(f)
        \/ n = Volume(e) /\ n = Volume(f)
        \/ n = User(e) /\ n = User(f)
    BY <1>6, ListedByKind DEF OwnKinds
  <2>2. Suffixed(e, "assets") = Suffixed(f, "assets") \/ Suffixed(e, "os-user") = Suffixed(f, "os-user")
    BY <2>1 DEF Claim, Volume, User, Name
  <2> QED
    BY <1>2, <2>2 DEF Suffixes
<1>7. CASE n.kind \in {"Database", "Role"}
  <2>1. \/ n = Database(e) /\ n = Database(f)
        \/ n = Role(e) /\ n = Role(f)
    BY <1>7, ListedByKind DEF OwnKinds
  <2>2. n.name = instanceName(e) /\ n.name = instanceName(f)
    BY <2>1 DEF Database, Role, Name
  <2> QED
    BY <1>1, <2>2
<1>8. CASE n.kind = "ConfigMap"
  <2>1. n = Route(e) /\ n = Route(f)
    BY <1>8, ListedByKind DEF OwnKinds
  <2>2. <<"route">> \o instanceName(e) = <<"route">> \o instanceName(f)
    BY <2>1 DEF Route, Name
  <2>3. <<"route">> \in Key
    BY DEF Key, Part
  <2> QED
    BY <1>1, <2>2, <2>3, Keys, ConcatSimplifications DEF Key
<1> QED
  BY <1>3, <1>4, <1>5, <1>6, <1>7, <1>8, ListedByKind

\* The environments that are in each other's way are exactly those whose names clash:
\* the keys alone decide, and nothing else of what the worker names after them.
THEOREM ClashIsExact ==
  ASSUME NEW e \in Env, NEW f \in Env
  PROVE  OwnNames[e] \cap OwnNames[f] # {} <=> Clash(e, f)
<1>1. CASE instanceName(e) = instanceName(f)
  <2>1. Volume(e) = Volume(f)
    BY <1>1 DEF Volume, Suffixed
  <2> QED
    BY <1>1, <2>1, OwnAreListed DEF Listed, Clash
<1>2. CASE e.org = f.org /\ Suffixed(e, "hl") = instanceName(f)
  <2>1. Headless(e) = Own("Service", f)
    BY <1>2 DEF Headless, Own
  <2> QED
    BY <1>2, <2>1, OwnAreListed DEF Listed, OwnKinds, Clash
<1>3. CASE e.org = f.org /\ Suffixed(f, "hl") = instanceName(e)
  <2>1. Headless(f) = Own("Service", e)
    BY <1>3 DEF Headless, Own
  <2> QED
    BY <1>3, <2>1, OwnAreListed DEF Listed, OwnKinds, Clash
<1> QED
  BY <1>1, <1>2, <1>3, NoCommonName DEF Clash

---------------------------------------------------------------------------
(***************************************************************************)
(* Tasks                                                                   *)
(***************************************************************************)

\* What is done to a row alone.
OfRow(e) == Create(e) \/ Recover(e) \/ \E a \in DOMAIN Queued: Retrigger(e, a)

\* A running task has an environment.
TaskInv == task # NULL => env \in Env

LEMMA TaskInvAlways == Spec => []TaskInv
<1>1. Init => TaskInv
  BY DEF Init, TaskInv
<1>2. TaskInv /\ [Next]_vars => TaskInv'
  <2> SUFFICES ASSUME TaskInv, [Next]_vars
               PROVE  TaskInv'
    OBVIOUS
  <2> USE DEF TaskInv
  <2>1. CASE UNCHANGED vars
    BY <2>1 DEF vars
  <2>2. CASE \E e \in Env:
               OfRow(e) \/ BeginProvision(e) \/ BeginPatch(e) \/ BeginDecommission(e)
    BY <2>2 DEF OfRow, Create, Recover, Retrigger, Begin, BeginProvision, BeginPatch,
                BeginDecommission
  <2>3. CASE ApplyStep \/ DeleteStep \/ Swallowed
    BY <2>3 DEF ApplyStep, DeleteStep, Swallowed, NextStep
  <2>4. CASE Applied \/ Decommissioned \/ StepFails
    BY <2>4 DEF Applied, Decommissioned, StepFails, Ends
  <2> QED
    BY <2>1, <2>2, <2>3, <2>4 DEF Next, OfRow
<1> QED
  BY <1>1, <1>2, PTL DEF Spec

\* The names of a step are the environment's own or shared in its organization.
LEMMA StepNames ==
  ASSUME NEW e \in Env
  PROVE  /\ \A i \in DOMAIN Provision[e]:
               Names(Provision[e][i]) \subseteq OwnNames[e] \cup SharedNames(e.org)
         /\ \A i \in DOMAIN Patch[e]:
               Names(Patch[e][i]) \subseteq OwnNames[e] \cup SharedNames(e.org)
         /\ \A i \in DOMAIN Decommission[e]: Decommission[e][i] \subseteq OwnNames[e]
<1>1. \A i \in DOMAIN Provision[e]: Names(Provision[e][i]) \subseteq Names(ManifestsOf[e])
  BY DEF ManifestsOf, Names
<1>2. \A i \in DOMAIN Patch[e]: Patch[e][i] = generateOverlayKustomization(e)
  BY DEF Patch
<1>3. Names(generateOverlayKustomization(e)) \subseteq Listed(e) \cup SharedNames(e.org)
  BY OverlayNames DEF Listed, SharedNames
<1>4. ASSUME NEW i \in DOMAIN Decommission[e] PROVE Decommission[e][i] \subseteq Listed(e)
  <2>1. i \in 1 .. 10
    BY <1>4 DEF Decommission
  <2>2. CASE i \in {1, 2, 3, 4}
    BY <2>2 DEF Decommission, ServicesOf, Listed, OwnKinds, SecretSuffixes
  <2>3. CASE i \in {5, 6, 7, 8, 9, 10}
    BY <2>3 DEF Decommission, Listed, OwnKinds
  <2> QED
    BY <2>1, <2>2, <2>3
<1> QED
  BY <1>1, <1>2, <1>3, <1>4, OwnAreListed

\* What a step leaves alone: the names that it neither applies nor removes.
LEMMA ApplyLeaves ==
  ASSUME NEW ms, NEW n, n \notin Names(ms), Apply(ms)
  PROVE  /\ n \in DOMAIN cluster <=> n \in DOMAIN cluster'
         /\ n \in DOMAIN cluster => cluster'[n] = cluster[n]
BY DEF Apply

LEMMA RemoveLeaves ==
  ASSUME NEW ns, NEW n, n \notin ns, Remove(ns)
  PROVE  /\ n \in DOMAIN cluster <=> n \in DOMAIN cluster'
         /\ n \in DOMAIN cluster => cluster'[n] = cluster[n]
BY DEF Remove

\* No task of the worker changes what belongs to another active environment, be it of
\* the same organization or of another, as long as the two names do not clash.
THEOREM TasksKeepToThemselves == Spec => OthersUntouched
<1> DEFINE Same(n) == /\ n \in DOMAIN cluster <=> n \in DOMAIN cluster'
                      /\ n \in DOMAIN cluster => cluster'[n] = cluster[n]
           Untouched == \A f \in Env:
                          task # NULL /\ f # env /\ status[f] \notin {NULL, "decommissioned"}
                          /\ ~ Clash(env, f)
                          => \A n \in OwnNames[f]: Same(n)
<1>1. TaskInv /\ [Next]_vars => Untouched
  <2> SUFFICES ASSUME TaskInv, [Next]_vars,
                      NEW f \in Env, task # NULL, f # env,
                      status[f] \notin {NULL, "decommissioned"}, ~ Clash(env, f),
                      NEW n \in OwnNames[f]
               PROVE  Same(n)
    OBVIOUS
  <2>1. env \in Env
    BY DEF TaskInv
  <2>2. n \notin OwnNames[env] \cup SharedNames(env.org)
    BY <2>1, NoCommonName, OwnAreListed, ListedIsNotShared
  <2>3. ASSUME NEW i \in DOMAIN Manifests, Applying PROVE n \notin Names(Manifests[i])
    BY <2>1, <2>2, <2>3, StepNames DEF Manifests
  <2>4. ASSUME NEW i \in DOMAIN Decommission[env] PROVE n \notin Decommission[env][i]
    BY <2>1, <2>2, <2>4, StepNames
  <2>5. CASE UNCHANGED cluster
    BY <2>5
  <2>6. CASE ApplyStep
    BY <2>6, <2>3, ApplyLeaves DEF ApplyStep, Applying
  <2>7. CASE DeleteStep
    BY <2>7, <2>4, RemoveLeaves DEF DeleteStep, Deleting
  <2>8. CASE Decommissioned
    <3> DEFINE gone == {TheNamespace(env.org)} \cup {k \in DOMAIN cluster: k.ns = env.org}
    <3>1. CASE getActiveEnvCountForOrg = {}
      <4>1. f.org # env.org
        BY <3>1, <2>8 DEF getActiveEnvCountForOrg
      <4>2. n.ns # env.org
        BY <4>1, <2>1, OwnNamespaces, Keys DEF ClusterWide
      <4>3. n # TheNamespace(env.org)
        BY <2>2 DEF SharedNames
      <4>4. n \notin gone
        BY <4>2, <4>3
      <4>5. Remove(gone)
        BY <2>8, <3>1 DEF Decommissioned
      <4> QED
        BY <4>4, <4>5, RemoveLeaves
    <3>2. CASE getActiveEnvCountForOrg # {}
      <4>1. Remove({})
        BY <2>8, <3>2 DEF Decommissioned
      <4> QED
        BY <4>1, RemoveLeaves
    <3> QED
      BY <3>1, <3>2
  <2>9. CASE StepFails
    <3>1. CASE Applying /\ Apply(Manifests[step])
      BY <3>1, <2>3, ApplyLeaves DEF Applying
    <3>2. CASE Deleting /\ Remove(Decommission[env][step])
      BY <3>2, <2>4, RemoveLeaves DEF Deleting
    <3> QED
      BY <2>9, <3>1, <3>2, <2>5 DEF StepFails
  <2>10. CASE Swallowed
    <3>1. CASE Applying /\ Apply(WithoutUser)
      <4>1. Names(WithoutUser) \subseteq Names(Manifests[step])
        BY DEF WithoutUser, Names
      <4>2. n \notin Names(WithoutUser)
        BY <4>1, <3>1, <2>3 DEF Applying
      <4> QED
        BY <3>1, <4>2, ApplyLeaves
    <3> QED
      BY <2>10, <3>1, <2>5 DEF Swallowed
  <2>11. CASE UNCHANGED vars
    BY <2>11, <2>5 DEF vars
  <2>12. CASE \E e \in Env:
                OfRow(e) \/ BeginProvision(e) \/ BeginPatch(e) \/ BeginDecommission(e)
    BY <2>12, <2>5
       DEF OfRow, Create, Recover, Retrigger, BeginProvision, BeginPatch, BeginDecommission, Begin
  <2>13. CASE Applied
    BY <2>13, <2>5 DEF Applied
  <2> QED
    BY <2>6, <2>7, <2>8, <2>9, <2>10, <2>11, <2>12, <2>13 DEF Next, OfRow
<1>2. TaskInv /\ [Next]_vars => [Untouched]_vars
  BY <1>1
<1>3. Spec => [][Untouched]_vars
  BY <1>2, TaskInvAlways, PTL DEF Spec
<1> QED
  BY <1>3 DEF OthersUntouched

---------------------------------------------------------------------------
(***************************************************************************)
(* What is in the cluster: the inductive invariant                         *)
(***************************************************************************)

TypeInv ==
  /\ status \in [Env -> Status \cup {NULL}]
  /\ task \in Task \cup {NULL}
  /\ step \in Nat
  /\ provisioned \subseteq Env
  /\ task # NULL => env \in Env /\ status[env] \notin {NULL, "decommissioned"}

\* What was provisioned is active, and nothing but a patch is done to it.
HistoryInv ==
  /\ \A e \in provisioned: status[e] \notin {NULL, "decommissioned"}
  /\ task \in {"provision", "decommission"} => env \notin provisioned

\* Whatever exists was applied for an environment that had a row: under one of its own
\* names, or under one that its organization shares.
OwnerInv ==
  \A n \in DOMAIN cluster:
    \E f \in Env:
      /\ status[f] # NULL
      /\ \/ n \in OwnNames[f] /\ cluster[n] = f
         \/ n \in SharedNames(f.org) /\ cluster[n] = NULL

There(e, n) == n \in DOMAIN cluster /\ cluster[n] = Owner(e, n)

\* All that is applied for e is there, but perhaps for the search user.
Wired(e) == \A n \in Names(ManifestsOf[e]) \ {User(e)}: There(e, n)

\* While it provisions, what the steps behind it applied; and what was provisioned stays.
WiredInv ==
  /\ task = "provision" =>
       \A i \in 1 .. 10: i < step =>
         \A n \in Names(Provision[env][i]) \ {User(env)}: There(env, n)
  /\ \A e \in provisioned: Alone(e) => Wired(e)

\* What is not in Kubernetes stays if its removal fails.
MayStay(e) == {Database(e), Role(e), User(e)}

\* While it decommissions, what the steps behind it deleted is gone.
GoneInv ==
  /\ task = "decommission" =>
       \A i \in 1 .. 10: i < step =>
         Decommission[env][i] \cap DOMAIN cluster \subseteq MayStay(env)
  /\ NothingLeftBehind

IInv == TypeInv /\ HistoryInv /\ OwnerInv /\ WiredInv /\ GoneInv

---------------------------------------------------------------------------
(***************************************************************************)
(* Steps                                                                   *)
(***************************************************************************)

LEMMA TaskNames ==
  /\ NULL \notin Status /\ NULL \notin Task /\ NULL \notin Env
  /\ Task = {"provision", "patch", "decommission"}
  /\ \A a \in DOMAIN Queued: Queued[a] \in Status \ {"decommissioned"}
BY ObjectsAssumption DEF Task, Queued, Status

\* A request, or the recovery of a row that is stuck, changes one row and nothing else.
LEMMA RowsOnly ==
  ASSUME NEW e \in Env, OfRow(e)
  PROVE  /\ UNCHANGED <<cluster, task, env, step, provisioned>>
         /\ \E s \in Status \ {"decommissioned"}: status' = [status EXCEPT ![e] = s]
<1>1. CASE Create(e)
  BY <1>1 DEF Create, Status
<1>2. CASE Recover(e)
  <2>1. (IF status[e] = "provisioning" THEN "pending" ELSE "deployed")
          \in Status \ {"decommissioned"}
    BY DEF Status
  <2> QED
    BY <1>2, <2>1, TaskNames DEF Recover
<1>3. CASE \E a \in DOMAIN Queued: Retrigger(e, a)
  BY <1>3, TaskNames DEF Retrigger
<1> QED
  BY <1>1, <1>2, <1>3 DEF OfRow

\* What a step does to the cluster: nothing, or it applies manifests of its task or
\* removes what the decommissioner lists, or it is the end of a decommission.
LEMMA ClusterStep ==
  ASSUME TypeInv, [Next]_vars
  PROVE  \/ UNCHANGED cluster
         \/ /\ env \in Env /\ task \in {"provision", "patch"} /\ step \in DOMAIN Manifests
            /\ \E ms \in SUBSET Manifests[step]: Apply(ms)
         \/ /\ env \in Env /\ task = "decommission" /\ step \in DOMAIN Decommission[env]
            /\ Remove(Decommission[env][step])
         \/ env \in Env /\ Decommissioned
<1>1. CASE UNCHANGED vars
  BY <1>1 DEF vars
<1>2. CASE \E e \in Env:
             OfRow(e) \/ BeginProvision(e) \/ BeginPatch(e) \/ BeginDecommission(e)
  BY <1>2, RowsOnly DEF BeginProvision, BeginPatch, BeginDecommission, Begin
<1>3. CASE Applied
  BY <1>3 DEF Applied
<1>4. Applying \/ Deleting \/ Decommissioned => env \in Env
  BY TaskNames DEF Applying, Deleting, Decommissioned, TypeInv
<1>5. CASE ApplyStep
  BY <1>4, <1>5 DEF ApplyStep, Applying
<1>6. CASE DeleteStep
  BY <1>4, <1>6 DEF DeleteStep, Deleting
<1>7. CASE Decommissioned
  BY <1>4, <1>7
<1>8. CASE StepFails
  BY <1>4, <1>8 DEF StepFails, Applying, Deleting
<1>9. CASE Swallowed
  <2>1. WithoutUser \in SUBSET Manifests[step]
    BY DEF WithoutUser
  <2> QED
    BY <1>4, <1>9, <2>1 DEF Swallowed, Applying
<1> QED
  BY <1>1, <1>2, <1>3, <1>5, <1>6, <1>7, <1>8, <1>9 DEF Next, OfRow

\* What a step does to the rows: none disappears, none becomes provisioned but at the end of
\* a provision, and none decommissioned but at the end of a decommission.
LEMMA StatusStep ==
  ASSUME TypeInv, [Next]_vars, NEW f \in Env
  PROVE  /\ status'[f] = NULL => status[f] = NULL
         /\ f \in provisioned' => f \in provisioned \/ (Applied /\ task = "provision" /\ f = env)
         /\ status'[f] = "decommissioned" =>
              status[f] = "decommissioned" \/ (Decommissioned /\ f = env)
<1>0. status \in [Env -> Status \cup {NULL}] /\ NULL \notin Status
  BY TaskNames DEF TypeInv
<1>1. CASE UNCHANGED <<status, provisioned>>
  BY <1>1
<1>2. CASE \E e \in Env: OfRow(e)
  <2>1. PICK e \in Env, s \in Status \ {"decommissioned"}:
          status' = [status EXCEPT ![e] = s] /\ UNCHANGED provisioned
    BY <1>2, RowsOnly
  <2> QED
    BY <1>0, <2>1
<1>3. CASE \E e \in Env: BeginProvision(e) \/ BeginPatch(e) \/ BeginDecommission(e)
  BY <1>0, <1>3 DEF BeginProvision, BeginPatch, BeginDecommission, Begin, Status
<1>4. CASE Applied
  BY <1>0, <1>4 DEF Applied, Ends, Status
<1>5. CASE Decommissioned
  BY <1>0, <1>5 DEF Decommissioned, Ends, Status
<1>6. CASE StepFails
  BY <1>0, <1>6 DEF StepFails, Ends, Status
<1>7. CASE ApplyStep \/ DeleteStep \/ Swallowed
  BY <1>1, <1>7 DEF ApplyStep, DeleteStep, Swallowed, NextStep
<1> QED
  BY <1>1, <1>2, <1>3, <1>4, <1>5, <1>6, <1>7 DEF Next, vars, OfRow

\* An environment that is alone was so before, and the worker's is none that it clashes
\* with.
LEMMA AloneStep ==
  ASSUME TypeInv, [Next]_vars, NEW e \in Env, Alone(e)'
  PROVE  Alone(e) /\ (task # NULL /\ e # env => ~ Clash(env, e))
<1>1. Alone(e)
  BY StatusStep DEF Alone
<1>2. ASSUME task # NULL, e # env PROVE ~ Clash(env, e)
  <2>1. env \in Env /\ status[env] # NULL
    BY <1>2, TaskNames DEF TypeInv
  <2>2. ~ Clash(e, env)
    BY <1>1, <1>2, <2>1 DEF Alone
  <2> QED
    BY <2>2 DEF Clash
<1> QED
  BY <1>1, <1>2

\* The names of what a task applies.
LEMMA AppliedNames ==
  ASSUME env \in Env, task \in {"provision", "patch"}, step \in DOMAIN Manifests,
         NEW ms \in SUBSET Manifests[step]
  PROVE  Names(ms) \subseteq OwnNames[env] \cup SharedNames(env.org)
<1>1. Names(ms) \subseteq Names(Manifests[step])
  BY DEF Names
<1> QED
  BY <1>1, StepNames DEF Manifests

LEMMA TypeStep == TypeInv /\ [Next]_vars => TypeInv'
<1> SUFFICES ASSUME TypeInv, [Next]_vars
             PROVE  TypeInv'
  OBVIOUS
<1>0. /\ status \in [Env -> Status \cup {NULL}] /\ task \in Task \cup {NULL} /\ step \in Nat
      /\ provisioned \subseteq Env /\ NULL \notin Status
      /\ task # NULL => env \in Env /\ status[env] \notin {NULL, "decommissioned"}
  BY TaskNames DEF TypeInv
<1>1. CASE UNCHANGED vars
  BY <1>0, <1>1 DEF vars, TypeInv
<1>2. CASE \E e \in Env: OfRow(e)
  <2>1. PICK e \in Env, s \in Status \ {"decommissioned"}:
          /\ status' = [status EXCEPT ![e] = s]
          /\ UNCHANGED <<task, env, step, provisioned>>
    BY <1>2, RowsOnly
  <2> QED
    BY <1>0, <2>1 DEF TypeInv
<1>3. CASE \E e \in Env: BeginProvision(e) \/ BeginPatch(e) \/ BeginDecommission(e)
  BY <1>0, <1>3
     DEF BeginProvision, BeginPatch, BeginDecommission, Begin, TypeInv, Status, Task
<1>4. CASE Applied \/ Decommissioned \/ StepFails
  <2>1. /\ task' = NULL /\ step' = 0
        /\ task # NULL
        /\ \E s \in Status \cup {status[env]}: status' = [status EXCEPT ![env] = s]
        /\ provisioned' \subseteq provisioned \cup {env}
    BY <1>0, <1>4, TaskNames
       DEF Applied, Decommissioned, StepFails, Applying, Deleting, Ends, Status
  <2> QED
    BY <1>0, <2>1 DEF TypeInv
<1>5. CASE ApplyStep \/ DeleteStep \/ Swallowed
  <2>1. step' = step + 1 /\ UNCHANGED <<status, task, env, provisioned>>
    BY <1>5 DEF ApplyStep, DeleteStep, Swallowed, NextStep
  <2> QED
    BY <1>0, <2>1 DEF TypeInv
<1> QED
  BY <1>1, <1>2, <1>3, <1>4, <1>5 DEF Next, OfRow

\* Whatever is queued for an environment that was provisioned leaves it so until a task
\* begins that is no patch.
LEMMA HistoryStep == TypeInv /\ HistoryInv /\ [Next]_vars => HistoryInv'
<1> SUFFICES ASSUME TypeInv, HistoryInv, [Next]_vars
             PROVE  HistoryInv'
  OBVIOUS
<1>0. /\ status \in [Env -> Status \cup {NULL}] /\ provisioned \subseteq Env
      /\ NULL \notin Status \cup Task /\ Task = {"provision", "patch", "decommission"}
      /\ task # NULL => env \in Env
  BY TaskNames DEF TypeInv
<1>1. CASE UNCHANGED vars
  BY <1>1 DEF vars, HistoryInv
<1>2. CASE \E e \in Env: OfRow(e)
  <2>1. PICK e \in Env, s \in Status \ {"decommissioned"}:
          /\ status' = [status EXCEPT ![e] = s]
          /\ UNCHANGED <<task, env, provisioned>>
    BY <1>2, RowsOnly
  <2> QED
    BY <1>0, <2>1 DEF HistoryInv
<1>3. ASSUME NEW e \in Env, BeginProvision(e) \/ BeginPatch(e) \/ BeginDecommission(e)
      PROVE  HistoryInv'
  <2>1. PICK t \in Task, s \in Status \ {"decommissioned"}:
          /\ status' = [status EXCEPT ![e] = s] /\ task' = t /\ env' = e
          /\ provisioned' = IF t = "patch" THEN provisioned ELSE provisioned \ {e}
    BY <1>3 DEF BeginProvision, BeginPatch, BeginDecommission, Begin, Task, Status
  <2> QED
    BY <1>0, <2>1 DEF HistoryInv
<1>4. CASE Applied
  <2>1. /\ env \in Env /\ task' = NULL /\ status' = [status EXCEPT ![env] = "deployed"]
        /\ provisioned' \subseteq provisioned \cup {env}
    BY <1>0, <1>4 DEF Applied, Ends
  <2> QED
    BY <1>0, <2>1 DEF HistoryInv, Status
<1>5. CASE Decommissioned
  <2>1. /\ env \in Env /\ task' = NULL /\ status' = [status EXCEPT ![env] = "decommissioned"]
        /\ provisioned' = provisioned /\ env \notin provisioned
    BY <1>0, <1>5 DEF Decommissioned, Ends, HistoryInv
  <2> QED
    BY <1>0, <2>1 DEF HistoryInv
<1>6. CASE StepFails
  <2>1. /\ env \in Env /\ task' = NULL /\ provisioned' = provisioned
        /\ \E s \in {"failed", status[env]}: status' = [status EXCEPT ![env] = s]
    BY <1>0, <1>6 DEF StepFails, Applying, Deleting, Ends
  <2> QED
    BY <1>0, <2>1 DEF HistoryInv, Status
<1>7. CASE ApplyStep \/ DeleteStep \/ Swallowed
  BY <1>7 DEF ApplyStep, DeleteStep, Swallowed, NextStep, HistoryInv
<1> QED
  BY <1>1, <1>2, <1>3, <1>4, <1>5, <1>6, <1>7 DEF Next, OfRow

\* What is applied belongs to the worker's environment or is shared in its organization.
LEMMA OwnerStep == TypeInv /\ OwnerInv /\ [Next]_vars => OwnerInv'
<1> SUFFICES ASSUME TypeInv, OwnerInv, [Next]_vars, NEW n \in DOMAIN cluster'
             PROVE  \E f \in Env:
                      /\ status'[f] # NULL
                      /\ \/ n \in OwnNames[f] /\ cluster'[n] = f
                         \/ n \in SharedNames(f.org) /\ cluster'[n] = NULL
  BY DEF OwnerInv
<1>1. ASSUME n \in DOMAIN cluster, cluster'[n] = cluster[n]
      PROVE  \E f \in Env:
               /\ status'[f] # NULL
               /\ \/ n \in OwnNames[f] /\ cluster'[n] = f
                  \/ n \in SharedNames(f.org) /\ cluster'[n] = NULL
  BY <1>1, StatusStep DEF OwnerInv
<1>2. CASE UNCHANGED cluster
  BY <1>1, <1>2
<1>3. CASE /\ env \in Env /\ task \in {"provision", "patch"} /\ step \in DOMAIN Manifests
           /\ \E ms \in SUBSET Manifests[step]: Apply(ms)
  <2>1. PICK ms \in SUBSET Manifests[step]: Apply(ms)
    BY <1>3
  <2>2. CASE n \in Names(ms)
    <3>1. n \in OwnNames[env] \/ n \in SharedNames(env.org)
      BY <1>3, <2>2, AppliedNames
    <3>2. cluster'[n] = Owner(env, n)
      BY <2>1, <2>2 DEF Apply
    <3>3. status'[env] # NULL
      BY <1>3, StatusStep, TaskNames DEF TypeInv
    <3> QED
      BY <1>3, <3>1, <3>2, <3>3 DEF Owner
  <2>3. CASE n \notin Names(ms)
    BY <1>1, <2>1, <2>3 DEF Apply
  <2> QED
    BY <2>2, <2>3
<1>4. CASE \E ns: Remove(ns)
  BY <1>1, <1>4 DEF Remove
<1> QED
  BY <1>2, <1>3, <1>4, ClusterStep DEF Decommissioned

---------------------------------------------------------------------------
(***************************************************************************)
(* What is applied stays                                                   *)
(***************************************************************************)

\* Applying makes a name the environment's, and leaves it so.
LEMMA ThereApplied ==
  ASSUME NEW e, e = env, NEW ms, Apply(ms), NEW n, n \in Names(ms) \/ There(e, n)
  PROVE  There(e, n)'
<1>1. Owner(e, n)' = Owner(e, n)
  BY DEF Owner
<1> QED
  BY <1>1 DEF Apply, There

\* Another environment's manifests replace none of its own, and what the two share stays
\* shared.
LEMMA ThereBesides ==
  ASSUME TypeInv, [Next]_vars, NEW e \in Env, task # NULL => e # env /\ ~ Clash(env, e),
         status[e] \notin {NULL, "decommissioned"},
         NEW n \in Names(ManifestsOf[e]), There(e, n)
  PROVE  There(e, n)'
<1>0. Owner(e, n)' = Owner(e, n)
  BY DEF Owner
<1>1. CASE UNCHANGED cluster
  BY <1>0, <1>1 DEF There
<1>2. CASE /\ env \in Env /\ task \in {"provision", "patch"} /\ step \in DOMAIN Manifests
           /\ \E ms \in SUBSET Manifests[step]: Apply(ms)
  <2>1. PICK ms \in SUBSET Manifests[step]: Apply(ms)
    BY <1>2
  <2>2. e # env /\ ~ Clash(env, e)
    BY <1>2, TaskNames
  <2>3. CASE n \in Names(ms)
    <3>1. n \in OwnNames[env] \/ n \in SharedNames(env.org)
      BY <1>2, <2>3, AppliedNames
    <3>2. n \notin OwnNames[e]
      <4>1. OwnNames[env] \cap OwnNames[e] = {}
        BY <1>2, <2>2, NoCommonName
      <4>2. OwnNames[e] \cap SharedNames(env.org) = {}
        BY <1>2, OwnAreListed, ListedIsNotShared
      <4> QED
        BY <3>1, <4>1, <4>2
    <3>3. n \notin OwnNames[env]
      <4>1. n \in SharedNames(e.org)
        BY <3>2, OwnAreListed
      <4> QED
        BY <1>2, <4>1, OwnAreListed, ListedIsNotShared
    <3>4. cluster'[n] = Owner(env, n) /\ n \in DOMAIN cluster'
      BY <2>1, <2>3 DEF Apply
    <3> QED
      BY <1>0, <3>2, <3>3, <3>4 DEF Owner, There
  <2>4. CASE n \notin Names(ms)
    BY <1>0, <2>1, <2>4, ApplyLeaves DEF There
  <2> QED
    BY <2>3, <2>4
<1>3. ASSUME env \in Env, e # env, ~ Clash(env, e) PROVE n \notin OwnNames[env]
  <2>1. OwnNames[env] \cap OwnNames[e] = {} /\ OwnNames[env] \cap SharedNames(e.org) = {}
    BY <1>3, NoCommonName, OwnAreListed, ListedIsNotShared
  <2> QED
    BY <2>1, OwnAreListed
<1>4. CASE /\ env \in Env /\ task = "decommission" /\ step \in DOMAIN Decommission[env]
           /\ Remove(Decommission[env][step])
  <2>1. n \notin Decommission[env][step]
    BY <1>3, <1>4, StepNames, TaskNames
  <2> QED
    BY <1>0, <1>4, <2>1, RemoveLeaves DEF There
<1>5. CASE env \in Env /\ Decommissioned
  <2> DEFINE gone == IF getActiveEnvCountForOrg = {}
                     THEN {TheNamespace(env.org)} \cup {k \in DOMAIN cluster: k.ns = env.org}
                     ELSE {}
  <2>1. Remove(gone)
    BY <1>5 DEF Decommissioned
  <2>2. n \notin gone
    <3>1. ASSUME getActiveEnvCountForOrg = {} PROVE n.ns # env.org /\ n # TheNamespace(env.org)
      <4>1. e # env /\ e.org # env.org
        BY <1>5, <3>1, TaskNames DEF Decommissioned, getActiveEnvCountForOrg
      <4>2. /\ e.org # env.org /\ env.org # CaddyIngress /\ env.org # ClusterWide
            /\ \A org: TheNamespace(org).name = org
        BY <1>5, <4>1, Keys DEF ClusterWide, TheNamespace, Name
      <4>3. CASE n \in OwnNames[e]
        <5>1. n.ns # env.org
          BY <4>2, <4>3, OwnNamespaces
        <5>2. n # TheNamespace(env.org)
          BY <1>5, <4>3, OwnAreListed, ListedIsNotShared DEF SharedNames
        <5> QED
          BY <5>1, <5>2
      <4>4. CASE n \in SharedNames(e.org)
        <5>1. n = TheNamespace(e.org) \/ (n.ns = e.org /\ n.kind # "Namespace")
          BY <4>4 DEF SharedNames, Limits, Valkey, Wasabi, TenantConfig, Name
        <5>2. TheNamespace(e.org).ns = ClusterWide /\ TheNamespace(env.org).kind = "Namespace"
          BY DEF TheNamespace, Name
        <5> QED
          BY <4>2, <5>1, <5>2
      <4> QED
        BY <4>3, <4>4, OwnAreListed
    <3> QED
      BY <3>1
  <2> HIDE DEF gone
  <2> QED
    BY <1>0, <2>1, <2>2, RemoveLeaves DEF There
<1> QED
  BY <1>1, <1>2, <1>4, <1>5, ClusterStep

\* The provisioner's own steps: what one of them applied is there when it is behind.
LEMMA ProvisionStep ==
  ASSUME TypeInv, WiredInv, [Next]_vars, task' = "provision", NEW i \in 1 .. 10, i < step',
         NEW n \in Names(Provision[env'][i]) \ {User(env')}
  PROVE  There(env, n)' /\ env' \in Env
<1>0. "provision" # NULL /\ "provision" # "patch" /\ "provision" # "decommission"
  BY TaskNames
<1>1. CASE UNCHANGED vars
  <2>1. env' = env /\ env \in Env
    BY <1>0, <1>1 DEF vars, TypeInv
  <2>2. There(env, n)
    BY <1>1, <2>1 DEF vars, WiredInv
  <2> QED
    BY <1>1, <2>1, <2>2 DEF vars, There, Owner
<1>2. CASE \E e \in Env: OfRow(e)
  <2>1. UNCHANGED <<cluster, task, env, step>>
    BY <1>2, RowsOnly
  <2>2. env' = env /\ env \in Env
    BY <1>0, <2>1 DEF TypeInv
  <2>3. There(env, n)
    BY <2>1, <2>2 DEF WiredInv
  <2> QED
    BY <2>1, <2>2, <2>3 DEF There, Owner
<1>3. ~ \E e \in Env: BeginProvision(e) \/ BeginPatch(e) \/ BeginDecommission(e)
  BY <1>0 DEF BeginProvision, BeginPatch, BeginDecommission, Begin
<1>4. ~ (Applied \/ Decommissioned \/ StepFails)
  BY <1>0 DEF Applied, Decommissioned, StepFails, Ends
<1>5. CASE ApplyStep \/ DeleteStep \/ Swallowed
  <2>1. step' = step + 1 /\ task = "provision" /\ env' = env
    BY <1>5 DEF ApplyStep, DeleteStep, Swallowed, NextStep
  <2>2. env \in Env /\ step \in Nat
    BY <1>0, <2>1 DEF TypeInv
  <2>3. Manifests = Provision[env] /\ ~ Deleting
    BY <1>0, <2>1 DEF Manifests, Deleting
  <2>4. PICK ms \in SUBSET Provision[env][step]:
          Apply(ms) /\ (ms # Provision[env][step] => step = 4 /\ ms = WithoutUser)
    <3>1. CASE ApplyStep
      BY <2>3, <3>1 DEF ApplyStep
    <3>2. CASE Swallowed
      <4>1. WithoutUser \in SUBSET Provision[env][step]
        BY <2>3 DEF WithoutUser
      <4> QED
        BY <1>0, <2>1, <2>3, <3>2, <4>1 DEF Swallowed, Lenient
    <3> QED
      BY <1>5, <2>3, <3>1, <3>2 DEF DeleteStep
  <2>5. CASE i < step
    <3>1. There(env, n)
      BY <2>1, <2>2, <2>5 DEF WiredInv
    <3>2. \A e: e = env => There(e, n)'
      BY <2>4, <3>1, ThereApplied
    <3> QED
      BY <2>1, <2>2, <3>2 DEF There, Owner
  <2>6. CASE i = step
    <3>1. n \in Names(ms)
      <4>1. CASE ms = Provision[env][step]
        BY <2>1, <2>6, <4>1
      <4>2. CASE step = 4 /\ ms = WithoutUser
        <5>1. n = SecretFor(env, "os-creds")
          <6>1. Provision[env][4] =
                  {Manifest(User(env), {}), Manifest(SecretFor(env, "os-creds"), {User(env)})}
            BY <2>2 DEF Provision
          <6> QED
            BY <2>1, <2>6, <4>2, <6>1 DEF Names, Manifest
        <5>2. Manifest(SecretFor(env, "os-creds"), {User(env)}) \in WithoutUser
          BY <2>2, <2>3, <4>2 DEF WithoutUser, Provision, Manifest, SecretFor, Name
        <5>3. Manifest(SecretFor(env, "os-creds"), {User(env)}).name = n
          BY <5>1 DEF Manifest
        <5> QED
          BY <4>2, <5>2, <5>3 DEF Names
      <4> QED
        BY <2>4, <4>1, <4>2
    <3>2. \A e: e = env => There(e, n)'
      BY <2>4, <3>1, ThereApplied
    <3> QED
      BY <2>1, <2>2, <3>2 DEF There, Owner
  <2> QED
    BY <2>1, <2>2, <2>5, <2>6
<1> QED
  BY <1>1, <1>2, <1>3, <1>4, <1>5 DEF Next, OfRow

\* Whoever was provisioned is wired: it came out of a provision, and nobody else has touched
\* it since.
LEMMA WiredStep == TypeInv /\ HistoryInv /\ WiredInv /\ [Next]_vars => WiredInv'
<1> SUFFICES ASSUME TypeInv, HistoryInv, WiredInv, [Next]_vars
             PROVE  WiredInv'
  OBVIOUS
<1>1. ASSUME task' = "provision", NEW i \in 1 .. 10, i < step',
             NEW n \in Names(Provision[env'][i]) \ {User(env')}
      PROVE  There(env, n)'
  BY <1>1, ProvisionStep
<1>2. ASSUME NEW e \in Env, e \in provisioned', Alone(e)'
      PROVE  Wired(e)'
  <2> SUFFICES ASSUME NEW n \in Names(ManifestsOf[e]) \ {User(e)}
               PROVE  There(e, n)'
    BY DEF Wired
  <2>1. Alone(e) /\ (task # NULL /\ e # env => ~ Clash(env, e))
    BY <1>2, AloneStep
  <2>2. CASE e \in provisioned
    <3>1. There(e, n)
      BY <2>1, <2>2 DEF WiredInv, Wired
    <3>2. status[e] \notin {NULL, "decommissioned"}
      BY <2>2 DEF HistoryInv
    <3>3. CASE task # NULL => e # env
      BY <2>1, <3>1, <3>2, <3>3, ThereBesides
    <3>4. CASE task # NULL /\ e = env
      <4>1. task = "patch"
        BY <2>2, <3>4, TaskNames DEF TypeInv, HistoryInv
      <4>2. CASE UNCHANGED cluster
        BY <3>1, <4>2 DEF There, Owner
      <4>3. CASE \E ms: Apply(ms)
        BY <3>1, <3>4, <4>3, ThereApplied
      <4> QED
        BY <4>1, <4>2, <4>3, ClusterStep DEF Decommissioned
    <3> QED
      BY <3>3, <3>4
  <2>3. CASE Applied /\ task = "provision" /\ e = env
    <3>1. step > 10 /\ step \in Nat
      BY <2>3 DEF Applied, Manifests, Provision, TypeInv
    <3>2. PICK i \in 1 .. 10: n \in Names(Provision[e][i])
      <4>1. DOMAIN Provision[e] = 1 .. 10
        BY DEF Provision
      <4> QED
        BY <4>1 DEF ManifestsOf, Names
    <3>3. There(e, n)
      BY <2>3, <3>1, <3>2 DEF WiredInv
    <3> QED
      BY <2>3, <3>3 DEF Applied, There, Owner
  <2> QED
    BY <1>2, <2>2, <2>3, StatusStep
<1>3. provisioned' \subseteq Env
  BY TypeStep DEF TypeInv
<1> QED
  BY <1>1, <1>2, <1>3 DEF WiredInv

\* What is gone of a decommissioned environment does not come back: the others apply
\* nothing under its names.
LEMMA GoneBesides ==
  ASSUME TypeInv, [Next]_vars, NEW e \in Env, task # NULL => e # env /\ ~ Clash(env, e),
         NEW n \in OwnNames[e], n \in DOMAIN cluster'
  PROVE  n \in DOMAIN cluster
<1>1. CASE UNCHANGED cluster
  BY <1>1
<1>2. CASE /\ env \in Env /\ task \in {"provision", "patch"} /\ step \in DOMAIN Manifests
           /\ \E ms \in SUBSET Manifests[step]: Apply(ms)
  <2>1. PICK ms \in SUBSET Manifests[step]: Apply(ms)
    BY <1>2
  <2>2. e # env /\ ~ Clash(env, e)
    BY <1>2, TaskNames
  <2>3. OwnNames[env] \cap OwnNames[e] = {} /\ OwnNames[e] \cap SharedNames(env.org) = {}
    BY <1>2, <2>2, NoCommonName, OwnAreListed, ListedIsNotShared
  <2>4. n \notin Names(ms)
    BY <1>2, <2>3, AppliedNames
  <2> QED
    BY <2>1, <2>4, ApplyLeaves
<1>3. CASE \E ns: Remove(ns)
  BY <1>3 DEF Remove
<1> QED
  BY <1>1, <1>2, <1>3, ClusterStep DEF Decommissioned

\* The decommissioner's list is complete.
LEMMA DecommissionedNames ==
  ASSUME NEW e \in Env
  PROVE  /\ \A n \in OwnNames[e] \ MayStay(e): \E i \in 1 .. 10: n \in Decommission[e][i]
         /\ \A i \in {1, 9, 10}: Decommission[e][i] \subseteq MayStay(e)
         /\ DOMAIN Decommission[e] = 1 .. 10
         /\ Len(Decommission[e]) = 10
<1>1. ASSUME NEW n \in Listed(e), n \notin MayStay(e)
      PROVE  \E i \in 1 .. 10: n \in Decommission[e][i]
  <2>1. \/ n \in {Own("Deployment", e), Own("HorizontalPodAutoscaler", e),
                  Own("PodDisruptionBudget", e)}
        \/ n \in ServicesOf(e)
        \/ n \in {SecretFor(e, "valkey"), SecretFor(e, "postgres"), SecretFor(e, "os-creds")}
        \/ n = Claim(e) \/ n = Volume(e) \/ n = Own("Ingress", e) \/ n = Route(e)
    BY <1>1 DEF Listed, OwnKinds, SecretSuffixes, MayStay, ServicesOf
  <2>2. /\ Decommission[e][2] = {Own("Deployment", e), Own("HorizontalPodAutoscaler", e),
                                 Own("PodDisruptionBudget", e)}
        /\ Decommission[e][3] = ServicesOf(e)
        /\ Decommission[e][4] = {SecretFor(e, "valkey"), SecretFor(e, "postgres"),
                                 SecretFor(e, "os-creds")}
        /\ Decommission[e][5] = {Claim(e)} /\ Decommission[e][6] = {Volume(e)}
        /\ Decommission[e][7] = {Own("Ingress", e)} /\ Decommission[e][8] = {Route(e)}
    BY DEF Decommission
  <2> QED
    BY <2>1, <2>2
<1>2. /\ Decommission[e][1] = {} /\ Decommission[e][9] = {Database(e), Role(e)}
      /\ Decommission[e][10] = {User(e)}
      /\ DOMAIN Decommission[e] = 1 .. 10 /\ Len(Decommission[e]) = 10
  BY DEF Decommission
<1> QED
  BY <1>1, <1>2, OwnAreListed DEF MayStay

\* The decommissioner's own steps: what one of them listed is gone when it is behind.
LEMMA DecommissionStep ==
  ASSUME TypeInv, GoneInv, [Next]_vars, task' = "decommission", NEW i \in 1 .. 10, i < step'
  PROVE  Decommission[env'][i] \cap DOMAIN cluster' \subseteq MayStay(env')
<1>0. "decommission" # NULL /\ "decommission" # "patch" /\ "provision" # "decommission"
  BY TaskNames
<1>1. CASE UNCHANGED vars
  BY <1>1 DEF vars, GoneInv
<1>2. CASE \E e \in Env: OfRow(e)
  <2>1. UNCHANGED <<cluster, task, env, step>>
    BY <1>2, RowsOnly
  <2> QED
    BY <2>1 DEF GoneInv
<1>3. ~ \E e \in Env: BeginProvision(e) \/ BeginPatch(e) \/ BeginDecommission(e)
  BY <1>0 DEF BeginProvision, BeginPatch, BeginDecommission, Begin
<1>4. ~ (Applied \/ Decommissioned \/ StepFails)
  BY <1>0 DEF Applied, Decommissioned, StepFails, Ends
<1>5. CASE ApplyStep \/ DeleteStep \/ Swallowed
  <2>1. step' = step + 1 /\ task = "decommission" /\ env' = env
    BY <1>5 DEF ApplyStep, DeleteStep, Swallowed, NextStep
  <2>2. env \in Env /\ step \in Nat /\ ~ Applying
    BY <1>0, <2>1 DEF TypeInv, Applying
  <2>3. DOMAIN cluster' \subseteq DOMAIN cluster
    BY <1>5, <2>2 DEF ApplyStep, DeleteStep, Swallowed, Remove
  <2>4. CASE i < step
    BY <2>1, <2>3, <2>4 DEF GoneInv
  <2>5. CASE i = step
    <3>1. CASE DeleteStep
      BY <2>1, <2>5, <3>1 DEF DeleteStep, Remove
    <3>2. CASE Swallowed
      BY <1>0, <2>1, <2>2, <2>5, <3>2, DecommissionedNames DEF Swallowed, Lenient
    <3> QED
      BY <1>5, <2>2, <3>1, <3>2 DEF ApplyStep
  <2> QED
    BY <2>1, <2>2, <2>4, <2>5
<1> QED
  BY <1>1, <1>2, <1>3, <1>4, <1>5 DEF Next, OfRow

LEMMA GoneStep == TypeInv /\ GoneInv /\ [Next]_vars => GoneInv'
<1> SUFFICES ASSUME TypeInv, GoneInv, [Next]_vars
             PROVE  GoneInv'
  OBVIOUS
<1>1. ASSUME NEW e \in Env, status'[e] = "decommissioned", Alone(e)',
             NEW n \in OwnNames[e], n \in DOMAIN cluster'
      PROVE  n \in MayStay(e)
  <2>1. Alone(e) /\ (task # NULL /\ e # env => ~ Clash(env, e))
    BY <1>1, AloneStep
  <2>2. CASE status[e] = "decommissioned"
    <3>1. task # NULL => e # env
      BY <2>2 DEF TypeInv
    <3>2. n \in DOMAIN cluster
      BY <1>1, <2>1, <3>1, GoneBesides
    <3> QED
      BY <1>1, <2>1, <2>2, <3>2 DEF GoneInv, NothingLeftBehind, MayStay
  <2>3. CASE Decommissioned /\ e = env
    <3>1. n \in DOMAIN cluster
      BY <1>1, <2>3 DEF Decommissioned, Remove
    <3>2. step > 10 /\ step \in Nat /\ task = "decommission"
      BY <2>3, DecommissionedNames DEF Decommissioned, TypeInv
    <3>3. \A i \in 1 .. 10: Decommission[e][i] \cap DOMAIN cluster \subseteq MayStay(e)
      BY <2>3, <3>2 DEF GoneInv
    <3> QED
      BY <1>1, <3>1, <3>3, DecommissionedNames
  <2> QED
    BY <1>1, <2>2, <2>3, StatusStep
<1>2. NothingLeftBehind'
  BY <1>1 DEF NothingLeftBehind, MayStay
<1> QED
  BY <1>2, DecommissionStep DEF GoneInv, MayStay

LEMMA ObjectsInit == Init => IInv
<1> SUFFICES ASSUME Init
             PROVE  IInv
  OBVIOUS
<1>1. /\ task = NULL /\ step = 0 /\ DOMAIN cluster = {} /\ provisioned = {}
      /\ status = [e \in Env |-> NULL]
  BY DEF Init
<1>2. NULL \notin {"provision", "decommission", "decommissioned"}
  BY TaskNames DEF Status
<1>3. TypeInv /\ HistoryInv
  BY <1>1, <1>2 DEF TypeInv, HistoryInv
<1>4. OwnerInv
  BY <1>1 DEF OwnerInv
<1>5. WiredInv
  BY <1>1, <1>2 DEF WiredInv
<1>6. GoneInv
  BY <1>1, <1>2 DEF GoneInv, NothingLeftBehind
<1> QED
  BY <1>3, <1>4, <1>5, <1>6 DEF IInv

\* The invariant holds in every behaviour.
THEOREM ObjectsAlways == Spec => []IInv
<1>1. IInv /\ [Next]_vars => IInv'
  BY TypeStep, HistoryStep, OwnerStep, WiredStep, GoneStep DEF IInv
<1> QED
  BY <1>1, ObjectsInit, PTL DEF Spec

\* A decommissioned environment has left nothing in Kubernetes under any of its names:
\* the list that the decommissioner spells out is complete, what it deletes stays
\* deleted, and a step that fails does not let it go on (decommissionEnv).
THEOREM NothingIsLeftBehind == Spec => []NothingLeftBehind
<1>1. IInv => NothingLeftBehind
  BY DEF IInv, GoneInv
<1> QED
  BY <1>1, ObjectsAlways, PTL

---------------------------------------------------------------------------
(***************************************************************************)
(* What manifests say of each other                                        *)
(***************************************************************************)

RouterEntry(e) == Manifest(Route(e), ServicesOf(e))

\* The manifests of the overlay.
LEMMA OverlayManifests ==
  ASSUME NEW e \in Env, NEW m \in generateOverlayKustomization(e)
  PROVE  \/ m = Deployment(e)
         \/ m = Manifest(Own("HorizontalPodAutoscaler", e), {ScaleTarget(e)})
         \/ m = Selecting(Own("PodDisruptionBudget", e), Selector(e))
         \/ m = Selecting(Own("Service", e), Selector(e))
         \/ m = Selecting(Headless(e), Selector(e))
         \/ \E n \in Limits(e.org) \cup {TenantConfig(e.org)}: m = Manifest(n, {})
BY DEF generateOverlayKustomization

\* Every name that a manifest refers to is the name of another one of the environment's.
LEMMA RefsAreApplied ==
  ASSUME NEW e \in Env, NEW m \in ManifestsOf[e]
  PROVE  m.refs \subseteq Names(ManifestsOf[e])
<1>1. PICK i \in 1 .. 10: m \in Provision[e][i]
  <2>1. DOMAIN Provision[e] = 1 .. 10
    BY DEF Provision
  <2> QED
    BY <2>1 DEF ManifestsOf
<1>2. \A n, refs: Manifest(n, refs).refs = refs
  BY DEF Manifest
<1>3. CASE i \in {1, 2, 3}
  <2>1. m.refs = {}
    BY <1>1, <1>3 DEF Provision, Manifest
  <2> QED
    BY <2>1
<1>4. CASE i \in {4, 5, 6}
  <2>1. m.refs \subseteq {User(e), Role(e), Database(e), Claim(e), Volume(e)}
    BY <1>1, <1>2, <1>4 DEF Provision
  <2> QED
    BY <2>1, ListedInManifests DEF Listed
<1>5. CASE i = 7
  <2>1. m \in generateOverlayKustomization(e)
    BY <1>1, <1>5 DEF Provision
  <2>2. \A n, l: Selecting(n, l).refs = {}
    BY DEF Selecting, Manifest
  <2>3. Deployment(e).refs =
          {SecretFor(e, "postgres"), SecretFor(e, "os-creds"), Database(e), Claim(e)}
    BY DEF Deployment, Manifest
  <2>4. m.refs \subseteq {SecretFor(e, "postgres"), SecretFor(e, "os-creds"), Database(e), Claim(e),
                          Own("Deployment", e)}
    <3>1. m = Deployment(e) \/ m.refs = {ScaleTarget(e)} \/ m.refs = {}
      <4>1. CASE \E n, l: m = Selecting(n, l)
        BY <2>2, <4>1
      <4>2. CASE \E n: m = Manifest(n, {})
        BY <1>2, <4>2
      <4>3. CASE m = Manifest(Own("HorizontalPodAutoscaler", e), {ScaleTarget(e)})
        BY <1>2, <4>3
      <4> QED
        BY <2>1, <4>1, <4>2, <4>3, OverlayManifests
    <3> QED
      BY <2>3, <3>1 DEF ScaleTarget
  <2> QED
    BY <2>4, ListedInManifests DEF Listed, SecretSuffixes, OwnKinds
<1>6. CASE i \in {8, 9, 10}
  <2>1. m.refs \subseteq {Own("Service", e), Headless(e)}
    BY <1>1, <1>2, <1>6 DEF Provision
  <2> QED
    BY <2>1, ListedInManifests DEF Listed, OwnKinds
<1> QED
  BY <1>1, <1>3, <1>4, <1>5, <1>6

\* What there is under the kinds that the traffic passes.
LEMMA ManifestsByKind ==
  ASSUME NEW e \in Env, NEW m \in ManifestsOf[e]
  PROVE  /\ m.name.kind = "Deployment" => m = Deployment(e)
         /\ m.name.kind = "Service" => m.name = Valkey(e.org) \/ m.selects = Selector(e)
         /\ m.name.kind = "ConfigMap" => m.name = TenantConfig(e.org) \/ m = RouterEntry(e)
<1>1. PICK i \in 1 .. 10: m \in Provision[e][i]
  <2>1. DOMAIN Provision[e] = 1 .. 10
    BY DEF Provision
  <2> QED
    BY <2>1 DEF ManifestsOf
<1>2. \A n, refs: Manifest(n, refs).name = n
  BY DEF Manifest
<1>3. CASE i \in {1, 2, 3}
  <2>1. m.name = Valkey(e.org) \/ m.name = SecretFor(e, "valkey") \/ m.name = Wasabi(e.org)
        \/ m.name = TheNamespace(e.org) \/ m.name \in Limits(e.org)
    BY <1>1, <1>2, <1>3 DEF Provision
  <2>2. /\ SecretFor(e, "valkey").kind = "Secret" /\ Wasabi(e.org).kind = "Secret"
        /\ TheNamespace(e.org).kind = "Namespace"
        /\ \A n \in Limits(e.org): n.kind \in {"ResourceQuota", "LimitRange"}
    BY DEF SecretFor, Wasabi, TheNamespace, Limits, Name
  <2>3. m.name = Valkey(e.org) \/ m.name.kind \in {"Secret", "Namespace", "ResourceQuota", "LimitRange"}
    BY <2>1, <2>2
  <2>4. Valkey(e.org).kind = "Service"
    BY DEF Valkey, Name
  <2> QED
    BY <2>3, <2>4
<1>4. CASE i \in {4, 5, 6}
  <2>1. m.name \in {User(e), SecretFor(e, "os-creds"), Role(e), Database(e),
                    SecretFor(e, "postgres"), Volume(e), Claim(e)}
    BY <1>1, <1>2, <1>4 DEF Provision
  <2> QED
    BY <2>1 DEF SecretFor, User, Role, Database, Volume, Claim, Name
<1>5. CASE i = 7
  <2>1. m \in generateOverlayKustomization(e)
    BY <1>1, <1>5 DEF Provision
  <2>2. CASE m = Deployment(e)
    BY <2>2 DEF Deployment, Manifest, Own, Name
  <2>3. CASE m = Manifest(Own("HorizontalPodAutoscaler", e), {ScaleTarget(e)})
    BY <2>3 DEF Manifest, Own, Name
  <2>4. CASE \E n: n.kind \in {"Service", "PodDisruptionBudget"} /\ m = Selecting(n, Selector(e))
    BY <2>4 DEF Selecting, Manifest
  <2>5. CASE \E n \in Limits(e.org) \cup {TenantConfig(e.org)}: m = Manifest(n, {})
    BY <1>2, <2>5 DEF Limits, TenantConfig, Name
  <2>6. /\ Own("PodDisruptionBudget", e).kind = "PodDisruptionBudget"
        /\ Own("Service", e).kind = "Service" /\ Headless(e).kind = "Service"
    BY DEF Own, Headless, Name
  <2>7. \/ m = Deployment(e)
        \/ m = Manifest(Own("HorizontalPodAutoscaler", e), {ScaleTarget(e)})
        \/ \E n: n.kind \in {"Service", "PodDisruptionBudget"} /\ m = Selecting(n, Selector(e))
        \/ \E n \in Limits(e.org) \cup {TenantConfig(e.org)}: m = Manifest(n, {})
    BY <2>1, <2>6, OverlayManifests
  <2> QED
    BY <2>2, <2>3, <2>4, <2>5, <2>7
<1>6. CASE i = 8
  <2>1. m.name = Own("Ingress", e)
    BY <1>1, <1>2, <1>6 DEF Provision
  <2> QED
    BY <2>1 DEF Own, Name
<1>7. CASE i \in {9, 10}
  <2>1. m = RouterEntry(e)
    BY <1>1, <1>7 DEF Provision, RouterEntry, ServicesOf
  <2> QED
    BY <1>2, <2>1 DEF RouterEntry, Route, Name
<1> QED
  BY <1>1, <1>3, <1>4, <1>5, <1>6, <1>7

\* What belongs to an environment that was provisioned, and at most patched since then, is
\* there as it was applied for it, and every name in it leads to something, but for the
\* search user: the provisioner applied all of it, a patch only confirms it, and no other
\* environment's task takes any of it.
THEOREM DeployedAlwaysIsWired == Spec => []DeployedIsWired
<1>1. ASSUME IInv, NEW e \in Env, e \in provisioned, Alone(e), NEW m \in ManifestsOf[e]
      PROVE  /\ m.name \in DOMAIN cluster \cup {User(e)}
             /\ m.name \in DOMAIN cluster => cluster[m.name] = Owner(e, m.name)
             /\ m.refs \subseteq DOMAIN cluster \cup {User(e)}
  <2>1. \A n \in Names(ManifestsOf[e]) \ {User(e)}: There(e, n)
    BY <1>1 DEF IInv, WiredInv, Wired
  <2>2. m.name \in Names(ManifestsOf[e]) /\ m.refs \subseteq Names(ManifestsOf[e])
    BY <1>1, RefsAreApplied DEF Names
  <2>3. ASSUME User(e) \in DOMAIN cluster PROVE cluster[User(e)] = Owner(e, User(e))
    <3>1. User(e) \in OwnNames[e]
      BY OwnAreListed DEF Listed
    <3>2. PICK f \in Env: /\ status[f] # NULL
                          /\ \/ User(e) \in OwnNames[f] /\ cluster[User(e)] = f
                             \/ User(e) \in SharedNames(f.org)
      BY <1>1, <2>3 DEF IInv, OwnerInv
    <3>3. User(e) \in OwnNames[f] /\ cluster[User(e)] = f
      BY <3>1, <3>2, OwnAreListed, ListedIsNotShared
    <3>4. Clash(e, f)
      BY <3>1, <3>3, NoCommonName
    <3>5. f = e
      BY <1>1, <3>2, <3>4 DEF Alone
    <3> QED
      BY <3>1, <3>3, <3>5 DEF Owner
  <2> QED
    BY <2>1, <2>2, <2>3 DEF There
<1>2. IInv => DeployedIsWired
  BY <1>1 DEF DeployedIsWired, IInv, TypeInv
<1> QED
  BY <1>2, ObjectsAlways, PTL

\* The Services of an environment have names of their own.
LEMMA ServicesAreOwn ==
  ASSUME NEW e \in Env, NEW n \in ServicesOf(e)
  PROVE  /\ n \in OwnNames[e] /\ n # Valkey(e.org)
         /\ n.kind = "Service" /\ n.ns = e.org
<1>1. n \in Listed(e)
  BY DEF ServicesOf, Listed, OwnKinds
<1>2. Valkey(e.org) \in SharedNames(e.org)
  BY DEF SharedNames
<1> QED
  BY <1>1, <1>2, OwnAreListed, ListedIsNotShared DEF ServicesOf, Own, Headless, Name

\* Under an own name there is a manifest of that name.
LEMMA ContentOf ==
  ASSUME NEW e \in Env, NEW n \in OwnNames[e], n \in DOMAIN cluster, cluster[n] = e
  PROVE  Content(n) \in ManifestsOf[e] /\ Content(n).name = n
<1>1. \E m \in ManifestsOf[e]: m.name = n
  BY DEF OwnNames, Names
<1> QED
  BY <1>1 DEF Content

\* The router's entry of such an environment leads to its pods and to no others: the
\* overlay adds the instance to the selectors of the Services, and no two instances of an
\* organization have the same name.
THEOREM TrafficAlwaysStaysHome == Spec => []TrafficStaysHome
<1>1. ASSUME IInv, NEW e \in Env, e \in provisioned, Alone(e)
      PROVE  \A n \in Content(Route(e)).refs: Pods(n) = {Own("Deployment", e)}
  <2>1. ASSUME NEW n \in OwnNames[e] \ {User(e)}
        PROVE  /\ n \in DOMAIN cluster /\ cluster[n] = e
               /\ Content(n) \in ManifestsOf[e] /\ Content(n).name = n
    <3>1. n \in Names(ManifestsOf[e])
      BY <2>1 DEF OwnNames
    <3>2. There(e, n)
      BY <1>1, <2>1, <3>1 DEF IInv, WiredInv, Wired
    <3>3. n \in DOMAIN cluster /\ cluster[n] = e
      BY <2>1, <3>2 DEF There, Owner
    <3> QED
      BY <2>1, <3>3, ContentOf
  <2>2. Content(Route(e)).refs = ServicesOf(e)
    <3>1. Route(e) \in OwnNames[e] /\ Route(e) # User(e) /\ Route(e).kind = "ConfigMap"
      BY OwnAreListed DEF Listed, Route, User, Name
    <3>2. Route(e) # TenantConfig(e.org)
      BY <3>1, OwnAreListed, ListedIsNotShared DEF SharedNames
    <3>3. Content(Route(e)) = RouterEntry(e)
      BY <2>1, <3>1, <3>2, ManifestsByKind
    <3> QED
      BY <3>3 DEF RouterEntry, Manifest
  <2>3. ASSUME NEW n \in ServicesOf(e) PROVE Content(n).selects = Selector(e) /\ n.ns = e.org
    <3>1. n # User(e)
      BY <2>3, ServicesAreOwn DEF User, Name
    <3> QED
      BY <2>1, <2>3, <3>1, ServicesAreOwn, ManifestsByKind
  <2>4. ASSUME NEW f \in Env, NEW d \in OwnNames[f], d \in DOMAIN cluster, cluster[d] = f,
               d.kind = "Deployment"
        PROVE  Content(d).labels = PodLabels(f) /\ d = Own("Deployment", f)
    <3>1. Content(d) = Deployment(f)
      BY <2>4, ContentOf, ManifestsByKind
    <3>2. Deployment(f).labels = PodLabels(f) /\ Deployment(f).name = Own("Deployment", f)
      BY DEF Deployment, Manifest
    <3> QED
      BY <2>4, <3>1, <3>2, ContentOf
  <2>5. \A f \in Env: Finds(Selector(e), PodLabels(f)) <=> instanceName(f) = instanceName(e)
    BY DEF Finds, Selector, PodLabels
  <2>6. ASSUME NEW n \in ServicesOf(e) PROVE Pods(n) = {Own("Deployment", e)}
    <3>1. Own("Deployment", e) \in Pods(n)
      <4> DEFINE d == Own("Deployment", e)
      <4>1. d \in OwnNames[e] /\ d.kind = "Deployment" /\ d.ns = e.org /\ d # User(e)
        BY OwnAreListed DEF Listed, OwnKinds, Own, User, Name
      <4>2. d \in DOMAIN cluster /\ Content(d).labels = PodLabels(e)
        BY <2>1, <2>4, <4>1
      <4> HIDE DEF d
      <4> QED
        BY <2>3, <2>5, <2>6, <4>1, <4>2 DEF Pods, d
    <3>2. ASSUME NEW d \in Pods(n) PROVE d = Own("Deployment", e)
      <4>1. /\ d \in DOMAIN cluster /\ d.kind = "Deployment" /\ d.ns = e.org
            /\ Finds(Selector(e), Content(d).labels)
        BY <2>3, <2>6, <3>2 DEF Pods
      <4>2. PICK f \in Env: \/ d \in OwnNames[f] /\ cluster[d] = f
                            \/ d \in SharedNames(f.org)
        BY <1>1, <4>1 DEF IInv, OwnerInv
      <4>3. d \notin SharedNames(f.org)
        BY <4>1 DEF SharedNames, Limits, TheNamespace, Valkey, Wasabi, TenantConfig, Name
      <4>4. Content(d).labels = PodLabels(f) /\ d = Own("Deployment", f)
        BY <2>4, <4>1, <4>2, <4>3
      <4>5. instanceName(f) = instanceName(e) /\ f.org = e.org
        BY <2>5, <4>1, <4>4 DEF Own, Name
      <4> QED
        BY <4>4, <4>5 DEF Own
    <3> QED
      BY <3>1, <3>2
  <2> QED
    BY <2>2, <2>6
<1>2. IInv => TrafficStaysHome
  BY <1>1 DEF TrafficStaysHome, IInv, TypeInv
<1> QED
  BY <1>2, ObjectsAlways, PTL

=============================================================================
