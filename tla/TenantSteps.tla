---------------------------- MODULE TenantSteps ----------------------------
(***************************************************************************)
(* Inside fn(): the steps by which the worker provisions, patches and      *)
(* decommissions the environments of one organization, which share a       *)
(* namespace.  A call may fail before or after it took effect, the process *)
(* may die at any step, and requests change the rows meanwhile.            *)
(*                                                                         *)
(* Source: control-plane/src/worker/provisioner.ts, decommissioner.ts,     *)
(* opensearch.ts, k8s.ts, poll.ts; the organization routes, api/provision, *)
(* retrigger and delete.                                                   *)
(*                                                                         *)
(* Abstractions.  Objects that are applied and deleted together are one.   *)
(* Of PollWorker only this is kept: a row is taken up, an attempt that     *)
(* throws is repeated or is the last one, a crash leaves the status as it  *)
(* is, and the row may be purged after a teardown.  'stopped' is not told  *)
(* from 'deployed': both are patched, torn down and counted alike.  A      *)
(* random password is one that is not in use.                              *)
(***************************************************************************)
EXTENDS Integers, Sequences

CONSTANTS
  Env,         \* environments of the organization
  MaxOps,      \* requests of the operators
  MaxFaults,   \* calls that fail, and crashes
  NULL         \* no row, no password, no task

VARIABLES
  org,          \* whether the organization has a row
  status, due,  \* of each environment's row: deploy_status, and whether dcomm_date has elapsed
  orgDelete,    \* a DELETE of the organization has counted no active environment
  request,      \* request[e]: a retrigger or a DELETE that e's row has been read for
  namespace,    \* the organization's namespace
  objects,      \* objects[e]: what there is of e in Kubernetes, PostgreSQL and OpenSearch
  secret,       \* secret[e][s]: the password in the Secret for service s
  account,      \* account[e][s]: the password that service s knows
  task, env,    \* the worker's task and its environment
  step,         \* ... the number of the step to take
  pass,         \* ... the password read or made for the service at hand
  ops, faults,
  provisioned,  \* history: those that were provisioned, and only patched since then
  orphaned      \* history: those whose row was deleted although it was active

tables == <<org, status, due>>
requests == <<orgDelete, request>>
history == <<provisioned, orphaned>>
cluster == <<namespace, objects, secret, account>>
worker == <<task, env, step, pass>>
vars == <<tables, requests, cluster, worker, ops, faults, history>>

Status == {"pending", "provisioning", "reconfiguring", "stopping", "deployed", "failed",
           "decommissioning", "decommissioned"}

\* ACTION_TO_QUEUED_STATUS of the retrigger route.
Queued == [provision |-> "pending", patch |-> "reconfiguring", stop |-> "stopping",
           decommission |-> "decommissioning"]

Service == {"os", "pg"}

\* At most three are told apart: the Secret's, the service's and a new one.
Password == 1 .. 3

Namespaced == {"valkey", "claim", "deployment", "services", "ingress"}
ClusterWide == {"volume", "route"}
Object == Namespaced \cup ClusterWide \cup {"database", "os_roles"}

provisionEnv ==
  << "namespace", "valkey", "os_read", "os_user", "os_roles", "os_secret",
     "pg_read", "pg_role", "database", "pg_secret", "volume", "claim",
     "deployment", "services", "ingress", "route", "ready" >>

\* Mutant: the cluster-wide objects are left to the deletion of the namespace.
LeftToCascade ==
  << "scale", "deployment", "services", "valkey", "pg_secret", "os_secret", "claim",
     "ingress", "drop_database", "drop_role", "os_roles", "os_user", "count",
     "namespace" >>

decommissionEnv ==
  << "scale", "deployment", "services", "valkey", "pg_secret", "os_secret", "claim",
     "volume", "ingress", "route", "drop_database", "drop_role", "os_roles", "os_user",
     "count", "namespace" >>

\* A patch applies the overlay, and nothing else.
patchEnv == << "deployment", "services" >>

Steps == [provision |-> provisionEnv, patch |-> patchEnv, decommission |-> decommissionEnv]

ASSUME TenantAssumption ==
  /\ MaxOps \in Nat /\ MaxFaults \in Nat
  /\ NULL \notin Env /\ NULL \notin Status /\ NULL \notin Password /\ NULL \notin DOMAIN Queued
  /\ NULL # "delete"

NoPassword == [s \in Service |-> NULL]

TypeOK ==
  /\ org \in BOOLEAN /\ orgDelete \in BOOLEAN
  /\ request \in [Env -> DOMAIN Queued \cup {"delete", NULL}]
  /\ status \in [Env -> Status \cup {NULL}]
  /\ due \in [Env -> BOOLEAN]
  /\ namespace \in {"absent", "active", "terminating"}
  /\ objects \in [Env -> SUBSET Object]
  /\ secret \in [Env -> [Service -> Password \cup {NULL}]]
  /\ account \in [Env -> [Service -> Password \cup {NULL}]]
  /\ task \in DOMAIN Steps \cup {NULL}
  /\ env \in Env \cup {NULL}
  /\ step \in Nat
  /\ pass \in Password \cup {NULL}
  /\ ops \in 0 .. MaxOps /\ faults \in 0 .. MaxFaults
  /\ provisioned \subseteq Env /\ orphaned \subseteq Env

Init ==
  /\ org = FALSE /\ orgDelete = FALSE
  /\ request = [e \in Env |-> NULL]
  /\ status = [e \in Env |-> NULL]
  /\ due = [e \in Env |-> FALSE]
  /\ namespace = "absent"
  /\ objects = [e \in Env |-> {}]
  /\ secret = [e \in Env |-> NoPassword]
  /\ account = [e \in Env |-> NoPassword]
  /\ task = NULL /\ env = NULL /\ step = 0 /\ pass = NULL
  /\ ops = 0 /\ faults = 0
  /\ provisioned = {} /\ orphaned = {}

---------------------------------------------------------------------------
(***************************************************************************)
(* Requests                                                                *)
(***************************************************************************)

Requested == ops < MaxOps /\ ops' = ops + 1

\* POST /api/orgs
CreateOrg ==
  /\ Requested
  /\ ~ org
  /\ org' = TRUE
  /\ UNCHANGED <<status, due, requests, cluster, worker, faults, history>>

\* POST /api/envs, which needs the organization, and POST /api/provision, which
\* creates it as well.
CreateEnv(e) ==
  /\ Requested
  /\ status[e] = NULL
  /\ org' = TRUE
  /\ status' = [status EXCEPT ![e] = "pending"]
  /\ due' = [due EXCEPT ![e] = FALSE]
  /\ UNCHANGED <<requests, cluster, worker, faults, history>>

\* PATCH decommission, or DELETE of an environment that is not decommissioned.
DecommissionEnv(e) ==
  /\ Requested
  /\ status[e] \notin {NULL, "decommissioned"}
  /\ due' = [due EXCEPT ![e] = TRUE]
  /\ UNCHANGED <<org, status, requests, cluster, worker, faults, history>>

\* The SELECT of POST retrigger, and of DELETE of an environment that is decommissioned.
ReadRow(e, r) ==
  /\ Requested
  /\ request[e] = NULL
  /\ IF r = "delete" THEN status[e] = "decommissioned"
     ELSE status[e] \notin {NULL, "decommissioned"}
  /\ request' = [request EXCEPT ![e] = r]
  /\ UNCHANGED <<tables, orgDelete, cluster, worker, faults, history>>

\* ... and the UPDATE, of whatever row there is by now.  A future dcomm_date is kept by a
\* retriggered decommission.
Retrigger(e) ==
  /\ request[e] \in DOMAIN Queued
  /\ request' = [request EXCEPT ![e] = NULL]
  /\ IF status[e] = NULL THEN UNCHANGED <<status, due>>
     ELSE /\ status' = [status EXCEPT ![e] = Queued[request[e]]]
          /\ \E d \in CASE request[e] = "provision" -> {FALSE}
                      [] request[e] = "decommission" -> {due[e], TRUE}
                      [] OTHER -> {due[e]}:
               due' = [due EXCEPT ![e] = d]
  /\ UNCHANGED <<org, orgDelete, cluster, worker, ops, faults, history>>

Active == {e \in Env: status[e] \notin {NULL, "decommissioned"}}

\* hardDeleteEnv: by key, whatever the row says.
DeleteRow(e) ==
  /\ status' = [status EXCEPT ![e] = NULL]
  /\ due' = [due EXCEPT ![e] = FALSE]
  /\ provisioned' = provisioned \ {e}
  /\ orphaned' = orphaned \cup ({e} \cap Active)

DeleteEnv(e) ==
  /\ request[e] = "delete"
  /\ request' = [request EXCEPT ![e] = NULL]
  /\ DeleteRow(e)
  /\ UNCHANGED <<org, orgDelete, cluster, worker, ops, faults>>

\* The settings of a deployed environment are edited, and detectAndEnqueueReconfigs
\* finds the difference.
Drift(e) ==
  /\ Requested
  /\ task = NULL
  /\ status[e] = "deployed"
  /\ status' = [status EXCEPT ![e] = "reconfiguring"]
  /\ UNCHANGED <<org, due, requests, cluster, worker, faults, history>>

\* DELETE /api/orgs/[id]: the count ...
OrgCount ==
  /\ Requested
  /\ org /\ ~ orgDelete
  /\ Active = {}
  /\ orgDelete' = TRUE
  /\ UNCHANGED <<tables, request, cluster, worker, faults, history>>

\* ... and the transaction, which takes every row of the organization.
OrgDelete ==
  /\ orgDelete
  /\ orgDelete' = FALSE
  /\ org' = FALSE
  /\ status' = [e \in Env |-> NULL]
  /\ due' = [e \in Env |-> FALSE]
  /\ provisioned' = {}
  /\ orphaned' = orphaned \cup Active
  /\ UNCHANGED <<request, cluster, worker, ops, faults>>

Request ==
  \/ CreateOrg
  \/ \E e \in Env: \/ CreateEnv(e) \/ DecommissionEnv(e) \/ Drift(e)
                   \/ Retrigger(e) \/ DeleteEnv(e)
                   \/ \E r \in DOMAIN Queued \cup {"delete"}: ReadRow(e, r)
  \/ OrgCount
  \/ OrgDelete

---------------------------------------------------------------------------
(***************************************************************************)
(* The worker takes up a row and puts it down                              *)
(***************************************************************************)

\* The status in progress; a patch keeps the one it was queued with.
Begin(e, t, inProgress) ==
  /\ task = NULL
  /\ status' = [status EXCEPT ![e] = inProgress]
  /\ provisioned' = IF t = "patch" THEN provisioned ELSE provisioned \ {e}
  /\ task' = t /\ env' = e /\ step' = 1 /\ pass' = NULL
  /\ UNCHANGED <<org, due, requests, cluster, ops, faults, orphaned>>

BeginProvision(e) ==
  /\ status[e] = "pending" /\ ~ due[e]
  /\ Begin(e, "provision", "provisioning")

BeginPatch(e) ==
  /\ status[e] = "reconfiguring" /\ ~ due[e]
  /\ Begin(e, "patch", "reconfiguring")

BeginDecommission(e) ==
  /\ \/ status[e] = "decommissioning"
     \/ due[e] /\ status[e] \in {"pending", "reconfiguring", "deployed", "failed"}
  /\ Begin(e, "decommission", "decommissioning")

\* recoverStuckProvisioningRows and recoverStuckReconfiguringRows, after a crash or when
\* the row has waited for long.
Recover(e) ==
  /\ task = NULL
  /\ status[e] \in {"provisioning", "reconfiguring"}
  /\ status' = [status EXCEPT ![e] = IF @ = "provisioning" THEN "pending" ELSE "deployed"]
  /\ UNCHANGED <<org, due, requests, cluster, worker, ops, faults, history>>

PutDown == task' = NULL /\ env' = NULL /\ step' = 0 /\ pass' = NULL

\* UPDATE of a row that may be gone by now.
SetStatus(s) == status' = IF status[env] = NULL THEN status ELSE [status EXCEPT ![env] = s]

Done == task # NULL /\ step > Len(Steps[task])

\* fn() has returned: the status is written ...
Finish ==
  /\ Done /\ step = Len(Steps[task]) + 1
  /\ SetStatus(IF task = "decommission" THEN "decommissioned" ELSE "deployed")
  /\ provisioned' = IF task = "provision" /\ status[env] # NULL THEN provisioned \cup {env}
                    ELSE provisioned
  /\ orphaned' = IF task = "decommission" THEN orphaned \ {env} ELSE orphaned
  /\ step' = step + 1
  /\ UNCHANGED <<org, due, requests, cluster, task, env, pass, ops, faults>>

\* ... after a teardown the row is purged, if the snapshot says pending_delete ...
Purge ==
  /\ task = "decommission" /\ step = Len(Steps[task]) + 2
  /\ DeleteRow(env)
  /\ step' = step + 1
  /\ UNCHANGED <<org, requests, cluster, task, env, pass, ops, faults>>

\* ... and, after the log entry, the row is put down.
EndTask ==
  /\ Done /\ step > Len(Steps[task]) + 1
  /\ PutDown
  /\ UNCHANGED <<tables, requests, cluster, ops, faults, history>>

\* Mutant: runStep writes its log entry and does not throw again.
NotRethrown ==
  /\ step' = step + 1
  /\ UNCHANGED <<status, task, env, pass, provisioned>>

\* An attempt threw: the next one starts over, unless this was the last one or the
\* row is gone, so that the log entry is refused.
NextAttempt ==
  \/ /\ status[env] # NULL
     /\ step' = 1 /\ pass' = NULL
     /\ provisioned' = IF task = "patch" THEN provisioned ELSE provisioned \ {env}
     /\ UNCHANGED <<status, task, env>>
  \/ SetStatus("failed") /\ PutDown /\ UNCHANGED provisioned

Crash ==
  /\ faults < MaxFaults /\ faults' = faults + 1
  /\ task # NULL
  /\ PutDown
  /\ UNCHANGED <<tables, requests, cluster, ops, history>>

---------------------------------------------------------------------------
(***************************************************************************)
(* The steps                                                               *)
(***************************************************************************)

Running == task # NULL /\ step <= Len(Steps[task])

Does(t, names) == task = t /\ Running /\ Steps[t][step] \in names

Name == Steps[task][step]

\* The service that a Secret, or the reading of it, is about.
ServiceOf == [os_read |-> "os", os_secret |-> "os", pg_read |-> "pg", pg_secret |-> "pg"]

Unused(s) == CHOOSE p \in Password: p \notin {secret[env][s], account[env][s]}

\* applyObject of the namespace; while it is terminating it refuses the quota.
ApplyNamespace ==
  /\ Does("provision", {"namespace"})
  /\ namespace # "terminating"
  /\ namespace' = "active"
  /\ UNCHANGED <<objects, secret, account>>

\* applyObject, kubectlApplyDir, osPut, CREATE DATABASE: what is there stays.
Apply ==
  /\ Does("provision", Object) \/ Does("patch", Object)
  /\ Name \in Namespaced => namespace = "active"
  /\ objects' = [objects EXCEPT ![env] = @ \cup {Name}]
  /\ UNCHANGED <<namespace, secret, account>>

ApplySecret ==
  /\ Does("provision", {"os_secret", "pg_secret"})
  /\ namespace = "active"
  /\ secret' = [secret EXCEPT ![env][ServiceOf[Name]] = pass]
  /\ UNCHANGED <<namespace, objects, account>>

\* The OpenSearch client makes a password when it is given none.
UserPassword == IF pass = NULL THEN Unused("os") ELSE pass

\* osPut: an existing user keeps its password.
PutUser ==
  /\ Does("provision", {"os_user"})
  /\ account' = IF account[env]["os"] = NULL
                THEN [account EXCEPT ![env]["os"] = UserPassword]
                ELSE account
  /\ UNCHANGED <<namespace, objects, secret>>

\* Mutant: an existing role is left alone, as a user is in OpenSearch.
RoleKept ==
  /\ Does("provision", {"pg_role"})
  /\ account' = IF account[env]["pg"] = NULL THEN [account EXCEPT ![env]["pg"] = pass]
                ELSE account
  /\ UNCHANGED <<namespace, objects, secret>>

\* CREATE ROLE or ALTER ROLE, with the password either way.
PutRole ==
  /\ Does("provision", {"pg_role"})
  /\ account' = [account EXCEPT ![env]["pg"] = pass]
  /\ UNCHANGED <<namespace, objects, secret>>

\* deleteObject, or OpenSearch's DELETE: what is absent is fine.
Delete ==
  /\ Does("decommission", Object)
  /\ objects' = [objects EXCEPT ![env] = @ \ {Name}]
  /\ UNCHANGED <<namespace, secret, account>>

DeleteSecret ==
  /\ Does("decommission", {"os_secret", "pg_secret"})
  /\ secret' = [secret EXCEPT ![env][ServiceOf[Name]] = NULL]
  /\ UNCHANGED <<namespace, objects, account>>

\* DROP DATABASE is executed in the owner's role, so there must be one.
DropDatabase ==
  /\ Does("decommission", {"drop_database"})
  /\ account[env]["pg"] # NULL
  /\ objects' = [objects EXCEPT ![env] = @ \ {"database"}]
  /\ UNCHANGED <<namespace, secret, account>>

DropAccount ==
  /\ Does("decommission", {"drop_role", "os_user"})
  /\ account' = [account EXCEPT ![env][IF Name = "os_user" THEN "os" ELSE "pg"] = NULL]
  /\ UNCHANGED <<namespace, objects, secret>>

\* forceDeleteNamespace, which returns after a minute although it may not be gone.
DeleteNamespace ==
  /\ Does("decommission", {"namespace"})
  /\ namespace' = IF namespace = "active" THEN "terminating" ELSE namespace
  /\ UNCHANGED <<objects, secret, account>>

\* Steps that only look: readSecretField, waitForDeploymentReady; and the scale-down
\* ahead of the deletion.
Look ==
  /\ Does("provision", {"os_read", "pg_read", "ready"}) \/ Does("decommission", {"scale"})
  /\ UNCHANGED cluster

Effect ==
  \/ ApplyNamespace
  \/ Apply
  \/ ApplySecret
  \/ PutUser
  \/ PutRole
  \/ Delete
  \/ DeleteSecret
  \/ DropDatabase
  \/ DropAccount
  \/ DeleteNamespace
  \/ Look

\* The local that holds the password: a retry uses the Secret's again.
Remember(found) ==
  pass' = CASE Name = "os_read" -> found
            [] Name = "os_user" -> UserPassword
            [] Name = "pg_read" -> IF found = NULL THEN Unused("pg") ELSE found
            [] OTHER -> pass

NextStep ==
  /\ step' = step + 1
  /\ UNCHANGED <<tables, requests, task, env, ops, history>>

Step ==
  /\ Effect
  /\ Remember(IF Name \in DOMAIN ServiceOf THEN secret[env][ServiceOf[Name]] ELSE NULL)
  /\ NextStep
  /\ UNCHANGED faults

\* Mutants: the environment's own row counts; those that are not deployed do not.
OwnRowToo == Active
DeployedOnly == {e \in Env \ {env}: status[e] = "deployed"}

\* getActiveEnvCountForOrg
RemainingActiveEnvs == Active \ {env}

Count ==
  /\ Does("decommission", {"count"})
  /\ step' = IF RemainingActiveEnvs = {} THEN step + 1 ELSE step + 2
  /\ UNCHANGED <<tables, requests, cluster, task, env, pass, ops, faults, history>>

---------------------------------------------------------------------------
(***************************************************************************)
(* Steps that fail                                                         *)
(***************************************************************************)

Fault == faults < MaxFaults /\ faults' = faults + 1

\* The calls whose errors go no further, and the step after the handler.
Swallowed ==
  [ provision |-> [os_user |-> "os_secret", os_roles |-> "os_secret"],
    patch |-> <<>>,
    decommission |-> [scale |-> "deployment", drop_database |-> "os_roles",
                      drop_role |-> "os_roles", os_roles |-> "count", os_user |-> "count"] ]

GoTo(name) == step' = CHOOSE i \in DOMAIN Steps[task]: Steps[task][i] = name

\* A password that was not found in the Secret is replaced by a placeholder.
Placeholder ==
  IF pass # NULL /\ pass = secret[env]["os"] THEN pass ELSE Unused("os")'

\* What the handlers do: carry on, or end the attempt.
Caught ==
  /\ UNCHANGED <<org, due, requests, ops, orphaned>>
  /\ IF Name \in DOMAIN Swallowed[task]
     THEN /\ UNCHANGED <<status, task, env, provisioned>>
          /\ GoTo(Swallowed[task][Name])
          /\ pass' = IF task = "provision" THEN Placeholder ELSE pass
     ELSE NextAttempt

\* A call fails before it took effect, or after: only its answer is lost.
Fails ==
  /\ Running
  /\ Name \notin {"os_read", "pg_read"}
  /\ Fault
  /\ Effect \/ UNCHANGED cluster
  /\ Caught

\* The log entry of the success, or the baseline, cannot be written: the status is.
EndFails ==
  /\ Done /\ step > Len(Steps[task]) + 1
  /\ Fault
  /\ NextAttempt
  /\ UNCHANGED <<org, due, requests, cluster, ops, orphaned>>

\* readSecretField takes any error for "not found" ...
ReadFails ==
  /\ Does("provision", {"os_read", "pg_read"})
  /\ Fault
  /\ Remember(NULL)
  /\ NextStep
  /\ UNCHANGED cluster

\* ... and osDelete any answer for a success.
DeleteIgnored ==
  /\ Does("decommission", {"os_roles", "os_user"})
  /\ Fault
  /\ NextStep
  /\ UNCHANGED <<cluster, pass>>

\* Nobody's fault: the namespace is on its way out, or the database has no owner.
Refused ==
  /\ Running
  /\ \/ Does("provision", {"namespace"}) /\ namespace = "terminating"
     \/ /\ namespace # "active"
        /\ Does("provision", Namespaced \cup {"os_secret", "pg_secret"}) \/ Does("patch", Namespaced)
     \/ Does("decommission", {"drop_database"}) /\ account[env]["pg"] = NULL
  /\ UNCHANGED <<cluster, faults>>
  /\ Caught

\* Kubernetes has deleted what was in the namespace.
NamespaceGone ==
  /\ namespace = "terminating"
  /\ namespace' = "absent"
  /\ objects' = [e \in Env |-> objects[e] \ Namespaced]
  /\ secret' = [e \in Env |-> NoPassword]
  /\ UNCHANGED <<tables, requests, account, worker, ops, faults, history>>

Next ==
  \/ Request
  \/ \E e \in Env: BeginProvision(e) \/ BeginPatch(e) \/ BeginDecommission(e) \/ Recover(e)
  \/ Step
  \/ Count
  \/ Fails
  \/ ReadFails
  \/ DeleteIgnored
  \/ Refused
  \/ Finish
  \/ Purge
  \/ EndTask
  \/ EndFails
  \/ Crash
  \/ NamespaceGone

Spec == Init /\ [][Next]_vars

---------------------------------------------------------------------------
(***************************************************************************)
(* Properties                                                              *)
(***************************************************************************)

Kubernetes == Namespaced \cup ClusterWide

\* An environment that was provisioned, and at most patched since then, has everything
\* it needs, whatever failed on the way and however often it was started over: all of
\* its objects, in a namespace that stays.
DeployedIsComplete ==
  \A e \in provisioned:
    /\ namespace = "active"
    /\ Kubernetes \cup {"database"} \subseteq objects[e]
    /\ NULL \notin {secret[e]["os"], secret[e]["pg"]}

\* ... and its Secret has the password that PostgreSQL knows.
DatabaseCredentialsAgree ==
  \A e \in provisioned: secret[e]["pg"] = account[e]["pg"]

\* The console says more of every environment that is 'deployed': it is "live and
\* serving traffic" (DeploymentStatusPanel.tsx:60).
DeployedIsLive ==
  \A e \in Env: status[e] = "deployed" =>
    {"deployment", "services", "route"} \subseteq objects[e]

\* Nothing in Kubernetes outlives the decommission of its environment, the objects
\* outside of the namespace included, whatever was swallowed on the way.
DecommissionedHasNoObjects ==
  \A e \in Env: status[e] = "decommissioned" =>
    objects[e] \cap Kubernetes = {} /\ secret[e] = NoPassword

\* The comment of hardDeleteEnv: a row is deleted only after everything of it has been.
\* (The rows of an organization that is deleted are not meant.)
DeletedWasCleanedUp ==
  [][\A e \in Env: status[e] # NULL /\ status'[e] = NULL /\ org' =>
       objects[e] \cap Kubernetes = {} /\ secret[e] = NoPassword]_vars

\* The namespace is deleted under nobody else: other environments have nothing in it,
\* although rows come and go after the count.  The exception are those whose row was
\* deleted under them: by the transaction of an organization's DELETE, whose count was
\* outdated, or by the purge of an environment, which goes by key.
NamespaceServesOthers ==
  [][namespace = "active" /\ namespace' = "terminating" =>
       \A e \in Env \ {env}: objects[e] \cap Namespaced = {} \/ e \in orphaned]_vars

\* The last environment to go takes the namespace with it, unless another one lost its
\* row that way.
LastOneCleansUp ==
  [][\A e \in Env:
       /\ status[e] # "decommissioned" /\ status'[e] = "decommissioned"
       /\ \A f \in Env: status'[f] \in {NULL, "decommissioned"}
       => namespace' # "active" \/ orphaned \ {e} # {}]_vars

\* The comments of opensearch.ts and provisioner.ts: the Secret and the OpenSearch
\* user stay in sync.
SearchCredentialsAgree ==
  \A e \in provisioned:
    account[e]["os"] # NULL => secret[e]["os"] = account[e]["os"]

=============================================================================
