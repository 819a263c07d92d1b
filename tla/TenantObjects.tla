--------------------------- MODULE TenantObjects ---------------------------
(***************************************************************************)
(* What the worker creates and deletes for several organizations, by name: *)
(* namespaces, database and search cluster are shared, and every object is *)
(* named after the instance <org>-<env>, so that two environments meet     *)
(* where their names do.  What objects say of each other is kept too: the  *)
(* names they refer to and the labels by which they find pods.             *)
(*                                                                         *)
(* Source: control-plane/src/worker/templates.ts, kustomize.ts,            *)
(* provisioner.ts, decommissioner.ts, opensearch.ts; kustomize/dotcms-base.*)
(*                                                                         *)
(* Abstractions.  A name is the sequence of its parts between hyphens.  A  *)
(* numbered step is one action, and one that fails did all of it or none   *)
(* (TenantSteps has each call by itself); an attempt that is repeated is   *)
(* not told from one that begins after a crash.  Roles, mappings and       *)
(* action groups in OpenSearch go with the user.  'stopped' is not told    *)
(* from 'deployed'.  Rows are not deleted here.                            *)
(***************************************************************************)
EXTENDS Naturals, Sequences

CONSTANTS
  Env,         \* environments, as records of their org and env keys
  MaxOps,      \* requests of the operators
  MaxTasks,    \* tasks that the worker takes up
  MaxFaults,   \* steps that fail, and crashes
  NULL         \* no row, no task, no environment, no labels

CaddyIngress == <<"caddy", "ingress">>  \* the namespace of the router
ClusterWide == <<>>                     \* what is in no namespace

Status == {"pending", "provisioning", "reconfiguring", "stopping", "decommissioning",
           "deployed", "failed", "decommissioned"}

\* ACTION_TO_QUEUED_STATUS of the retrigger route.
Queued == [provision |-> "pending", patch |-> "reconfiguring", stop |-> "stopping",
           decommission |-> "decommissioning"]

Task == {"provision", "patch", "decommission"}

\* No organization has the key of the namespace that the router reads.
ASSUME ObjectsAssumption ==
  /\ Env \subseteq [org: Seq(STRING) \ {<<>>}, env: Seq(STRING) \ {<<>>}]
  /\ \A e \in Env: e.org # CaddyIngress
  /\ MaxOps \in Nat /\ MaxTasks \in Nat /\ MaxFaults \in Nat
  /\ NULL \notin Env /\ NULL \notin Status \cup Task

VARIABLES
  status,   \* deploy_status of each row
  cluster,  \* what exists: for each name, whose manifest was applied last; NULL if shared
  task,     \* what the worker does: "provision", "patch" or "decommission"
  env,      \* ... for which environment
  step,     \* ... the number of its next step
  ops, tasks, faults,  \* requests, tasks taken up and failures so far
  provisioned          \* history: those that were provisioned, and only patched since then

vars == <<status, cluster, task, env, step, ops, tasks, faults, provisioned>>

---------------------------------------------------------------------------
(***************************************************************************)
(* Names                                                                   *)
(***************************************************************************)

instanceName(e) == e.org \o e.env

Suffixed(e, suffix) == Append(instanceName(e), suffix)

Name(kind, ns, name) == [kind |-> kind, ns |-> ns, name |-> name]

Own(kind, e) == Name(kind, e.org, instanceName(e))
Headless(e) == Name("Service", e.org, Suffixed(e, "hl"))
SecretFor(e, service) == Name("Secret", e.org, Suffixed(e, service))
Claim(e) == Name("PersistentVolumeClaim", e.org, Suffixed(e, "assets"))
Volume(e) == Name("PersistentVolume", ClusterWide, Suffixed(e, "assets"))
Route(e) == Name("ConfigMap", CaddyIngress, <<"route">> \o instanceName(e))
Database(e) == Name("Database", ClusterWide, instanceName(e))
Role(e) == Name("Role", ClusterWide, instanceName(e))
User(e) == Name("User", ClusterWide, Suffixed(e, "os-user"))

TheNamespace(org) == Name("Namespace", ClusterWide, org)
Limits(org) == { Name("ResourceQuota", org, <<"tenant", "quota">>),
                 Name("LimitRange", org, <<"tenant", "limits">>) }
Valkey(org) == Name("Service", org, <<"valkey">>)
Wasabi(org) == Name("Secret", org, <<"wasabi", "backup", "creds">>)
TenantConfig(org) == Name("ConfigMap", org, <<"dotcms", "tenant", "config">>)

SharedNames(org) ==
  {TheNamespace(org), Valkey(org), Wasabi(org), TenantConfig(org)} \cup Limits(org)

---------------------------------------------------------------------------
(***************************************************************************)
(* Manifests                                                               *)
(***************************************************************************)

\* refs: the names in it; selects: the labels by which it finds pods; labels: those
\* of the pods it makes.
Manifest(name, refs) ==
  [name |-> name, refs |-> refs, selects |-> NULL, labels |-> NULL]

Names(ms) == {m.name: m \in ms}

PodLabels(e) == [app |-> <<"dotcms">>, instance |-> instanceName(e)]

\* What dotcms-base selects.  The overlay leaves it in the Deployment.
BaseSelector(e) == [app |-> <<"dotcms">>]

\* What the overlay makes of it in the Services and the disruption budget.
Selector(e) == [app |-> <<"dotcms">>, instance |-> instanceName(e)]

Selecting(name, labels) == [Manifest(name, {}) EXCEPT !.selects = labels]

Deployment(e) ==
  [Manifest(Own("Deployment", e),
            {SecretFor(e, "postgres"), SecretFor(e, "os-creds"), Database(e), Claim(e)})
     EXCEPT !.selects = BaseSelector(e), !.labels = PodLabels(e)]

\* Mutant: the autoscaler is renamed, its scaleTargetRef is not.
ScalesTheBase(e) == Name("Deployment", e.org, <<"dotcms">>)

ScaleTarget(e) == Own("Deployment", e)

\* The overlay: what it patches of dotcms-base, and what goes to the namespace as it is.
generateOverlayKustomization(e) ==
  { Deployment(e),
    Manifest(Own("HorizontalPodAutoscaler", e), {ScaleTarget(e)}),
    Selecting(Own("PodDisruptionBudget", e), Selector(e)),
    Selecting(Own("Service", e), Selector(e)),
    Selecting(Headless(e), Selector(e)) }
  \cup {Manifest(n, {}): n \in Limits(e.org) \cup {TenantConfig(e.org)}}

\* provisionEnv: what each of its steps applies; the last one waits for the pods.
Provision == [e \in Env |->
  << {Manifest(n, {}): n \in Limits(e.org) \cup {TheNamespace(e.org)}},
     {Manifest(Valkey(e.org), {}), Manifest(SecretFor(e, "valkey"), {})},
     {Manifest(Wasabi(e.org), {})},
     {Manifest(User(e), {}), Manifest(SecretFor(e, "os-creds"), {User(e)})},
     { Manifest(Role(e), {}), Manifest(Database(e), {Role(e)}),
       Manifest(SecretFor(e, "postgres"), {Role(e), Database(e)}) },
     {Manifest(Volume(e), {Claim(e)}), Manifest(Claim(e), {Volume(e)})},
     generateOverlayKustomization(e),
     {Manifest(Own("Ingress", e), {Own("Service", e), Headless(e)})},
     {Manifest(Route(e), {Own("Service", e), Headless(e)})},
     {} >>]

ManifestsOf == [e \in Env |-> UNION {Provision[e][i]: i \in DOMAIN Provision[e]}]

OwnNames == [e \in Env |-> Names(ManifestsOf[e]) \ SharedNames(e.org)]

Owner(e, n) == IF n \in OwnNames[e] THEN e ELSE NULL

\* A patch applies the overlay again.
Patch == [e \in Env |-> << generateOverlayKustomization(e) >>]

\* Mutant: the headless Service is looked for under another name.
HeadlessByAnotherName(e) ==
  {Own("Service", e), Name("Service", e.org, Suffixed(e, "headless"))}

ServicesOf(e) == {Own("Service", e), Headless(e)}

\* decommissionEnv: what each of its steps deletes.  The first one scales to zero; the
\* namespace comes after the last.
Decommission == [e \in Env |->
  << {},
     {Own("Deployment", e), Own("HorizontalPodAutoscaler", e), Own("PodDisruptionBudget", e)},
     ServicesOf(e),
     {SecretFor(e, "valkey"), SecretFor(e, "postgres"), SecretFor(e, "os-creds")},
     {Claim(e)},
     {Volume(e)},
     {Own("Ingress", e)},
     {Route(e)},
     {Database(e), Role(e)},
     {User(e)} >>]

---------------------------------------------------------------------------
(***************************************************************************)
(* Requests and the worker's tasks                                         *)
(***************************************************************************)

Init ==
  /\ status = [e \in Env |-> NULL]
  /\ cluster = [n \in {} |-> NULL]
  /\ task = NULL /\ env = NULL /\ step = 0
  /\ ops = 0 /\ tasks = 0 /\ faults = 0
  /\ provisioned = {}

Requested == ops < MaxOps /\ ops' = ops + 1

\* POST /api/envs
Create(e) ==
  /\ Requested
  /\ status[e] = NULL
  /\ status' = [status EXCEPT ![e] = "pending"]
  /\ UNCHANGED <<cluster, task, env, step, tasks, faults, provisioned>>

\* The UPDATE of POST retrigger; the SELECT that refuses a decommissioned row may be long
\* ago.  detectAndEnqueueReconfigs queues a patch as well.
Retrigger(e, action) ==
  /\ Requested
  /\ status[e] # NULL
  /\ status' = [status EXCEPT ![e] = Queued[action]]
  /\ UNCHANGED <<cluster, task, env, step, tasks, faults, provisioned>>

\* recoverStuckProvisioningRows and recoverStuckReconfiguringRows.
Recover(e) ==
  /\ task = NULL
  /\ status[e] \in {"provisioning", "reconfiguring"}
  /\ status' = [status EXCEPT ![e] = IF @ = "provisioning" THEN "pending" ELSE "deployed"]
  /\ UNCHANGED <<cluster, task, env, step, ops, tasks, faults, provisioned>>

Begin(e, t, from, inProgress) ==
  /\ task = NULL
  /\ tasks < MaxTasks /\ tasks' = tasks + 1
  /\ status[e] \in from
  /\ status' = [status EXCEPT ![e] = inProgress]
  /\ provisioned' = IF t = "patch" THEN provisioned ELSE provisioned \ {e}
  /\ task' = t /\ env' = e /\ step' = 1
  /\ UNCHANGED <<cluster, ops, faults>>

BeginProvision(e) == Begin(e, "provision", {"pending"}, "provisioning")

\* Whatever came before: a retrigger queues a patch of any row.
BeginPatch(e) == Begin(e, "patch", {"reconfiguring"}, "reconfiguring")

\* Queued by a retrigger, or dcomm_date has elapsed.
BeginDecommission(e) ==
  Begin(e, "decommission",
        {"pending", "reconfiguring", "deployed", "failed", "decommissioning"}, "decommissioning")

Ends(s) ==
  /\ status' = [status EXCEPT ![env] = s]
  /\ task' = NULL /\ env' = NULL /\ step' = 0
  /\ UNCHANGED <<ops, tasks>>

---------------------------------------------------------------------------
(***************************************************************************)
(* Steps                                                                   *)
(***************************************************************************)

\* applyObject, kubectlApplyDir, CREATE: whoever writes a name last prevails.
Apply(ms) ==
  cluster' = [n \in DOMAIN cluster \cup Names(ms) |->
                IF n \in Names(ms) THEN Owner(env, n) ELSE cluster[n]]

\* deleteObject, DROP: a name that is not there is no error.
Remove(names) == cluster' = [n \in DOMAIN cluster \ names |-> cluster[n]]

Manifests == IF task = "provision" THEN Provision[env] ELSE Patch[env]

Applying == task \in {"provision", "patch"} /\ step \in DOMAIN Manifests

Deleting == task = "decommission" /\ step \in DOMAIN Decommission[env]

NextStep == step' = step + 1 /\ UNCHANGED <<status, task, env, ops, tasks, provisioned>>

ApplyStep == Applying /\ Apply(Manifests[step]) /\ NextStep /\ UNCHANGED faults

DeleteStep == Deleting /\ Remove(Decommission[env][step]) /\ NextStep /\ UNCHANGED faults

Applied ==
  /\ task \in {"provision", "patch"} /\ step > Len(Manifests)
  /\ Ends("deployed")
  /\ provisioned' = IF task = "provision" THEN provisioned \cup {env} ELSE provisioned
  /\ UNCHANGED <<cluster, faults>>

\* Mutant: environments that failed do not keep the namespace.
DeployedEnvsForOrg == {f \in Env \ {env}: f.org = env.org /\ status[f] = "deployed"}

getActiveEnvCountForOrg ==
  {f \in Env \ {env}: f.org = env.org /\ status[f] \notin {NULL, "decommissioned"}}

\* Step 11: the namespace goes with all there is in it, unless another one is active.
Decommissioned ==
  /\ task = "decommission" /\ step > Len(Decommission[env])
  /\ Remove(IF getActiveEnvCountForOrg = {}
            THEN {TheNamespace(env.org)} \cup {n \in DOMAIN cluster: n.ns = env.org}
            ELSE {})
  /\ Ends("decommissioned")
  /\ UNCHANGED <<faults, provisioned>>

\* The errors of scaling, of PostgreSQL and of OpenSearch go no further.
Lenient ==
  \/ task = "provision" /\ step = 4
  \/ task = "decommission" /\ step \in {1, 9, 10}

Fault == faults < MaxFaults /\ faults' = faults + 1

\* A step throws before it did anything or after it did everything, at the last attempt;
\* or the process dies there, and the status stays.
StepFails ==
  /\ Fault
  /\ \/ Applying /\ (UNCHANGED cluster \/ Apply(Manifests[step]))
     \/ Deleting /\ ~ Lenient /\ (UNCHANGED cluster \/ Remove(Decommission[env][step]))
  /\ Ends("failed") \/ Ends(status[env])
  /\ UNCHANGED provisioned

\* provisionOpenSearch fails; the Secret gets a password all the same.
WithoutUser == {m \in Manifests[step]: m.name.kind = "Secret"}

Swallowed ==
  /\ Fault
  /\ Lenient
  /\ \/ Applying /\ Apply(WithoutUser)
     \/ Deleting /\ UNCHANGED cluster
  /\ NextStep

Next ==
  \/ \E e \in Env:
       \/ Create(e) \/ Recover(e) \/ \E a \in DOMAIN Queued: Retrigger(e, a)
       \/ BeginProvision(e) \/ BeginPatch(e) \/ BeginDecommission(e)
  \/ ApplyStep
  \/ DeleteStep
  \/ Applied
  \/ Decommissioned
  \/ StepFails
  \/ Swallowed

Spec == Init /\ [][Next]_vars

---------------------------------------------------------------------------
(***************************************************************************)
(* Properties                                                              *)
(***************************************************************************)

\* Two environments are in each other's way: a-b with environment c and a with
\* environment b-c, and x with x-hl of the same organization.
Clash(e, f) ==
  \/ instanceName(e) = instanceName(f)
  \/ e.org = f.org /\ (Suffixed(e, "hl") = instanceName(f) \/ Suffixed(f, "hl") = instanceName(e))

Alone(e) == \A f \in Env \ {e}: Clash(e, f) => status[f] = NULL

\* What belongs to an environment that was provisioned, and at most patched since then, is
\* there as it was applied for it, and every name in it leads to something, except the
\* search user, whose failure is swallowed.
\* (kustomize.ts: the overlay patches each name of dotcms-base by hand, in 10 places.)
DeployedIsWired ==
  \A e \in provisioned: Alone(e) =>
    \A m \in ManifestsOf[e]:
      /\ m.name \in DOMAIN cluster \cup {User(e)}
      /\ m.name \in DOMAIN cluster => cluster[m.name] = Owner(e, m.name)
      /\ m.refs \subseteq DOMAIN cluster \cup {User(e)}

\* What was applied under a name of some environment's own.
Content(n) == CHOOSE m \in ManifestsOf[cluster[n]]: m.name = n

Finds(selector, labels) ==
  \A key \in DOMAIN selector: key \in DOMAIN labels /\ labels[key] = selector[key]

\* The pods behind a name: those of the Deployments of its namespace that it selects.
Pods(n) == {d \in DOMAIN cluster: /\ d.kind = "Deployment" /\ d.ns = n.ns
                                  /\ Finds(Content(n).selects, Content(d).labels)}

\* The router's entry of such an environment leads to its pods and to no others.
TrafficStaysHome ==
  \A e \in provisioned: Alone(e) =>
    \A n \in Content(Route(e)).refs: Pods(n) = {Own("Deployment", e)}

\* What is decommissioned has left nothing in Kubernetes under any of its names: the
\* decommissioner spells the names once more.
NothingLeftBehind ==
  \A e \in Env: status[e] = "decommissioned" /\ Alone(e) =>
    OwnNames[e] \cap DOMAIN cluster \subseteq {Database(e), Role(e), User(e)}

\* No task, whatever fails in it, changes what belongs to another active environment,
\* of the same organization or of another, unless their names clash.
OthersUntouched ==
  [][ \A f \in Env:
        task # NULL /\ f # env /\ status[f] \notin {NULL, "decommissioned"} /\ ~ Clash(env, f)
        => \A n \in OwnNames[f]: /\ n \in DOMAIN cluster <=> n \in DOMAIN cluster'
                                 /\ n \in DOMAIN cluster => cluster'[n] = cluster[n] ]_vars

=============================================================================
