------------------------- MODULE TenantStepsProofs -------------------------
(***************************************************************************)
(* Proofs about TenantSteps, for any environments, requests and faults: an *)
(* environment that was provisioned has its namespace, and its Secret the  *)
(* password that PostgreSQL knows; what a decommission leaves behind.      *)
(***************************************************************************)
EXTENDS TenantSteps, TLAPS

\* A running task is at one of its steps, or past the last one.  Its environment does not
\* count as provisioned before the task is done, unless it is only patched.
TaskInv ==
  task # NULL =>
    /\ env \in Env
    /\ step \in 1 .. Len(Steps[task]) + 3
    /\ task = "decommission" \/ (task = "provision" /\ step <= 18) => env \notin provisioned

\* What the steps taken so far have brought about, if none was skipped but the roles.
\* The password in hand is a real one from step 5 on, PostgreSQL's from step 9 on.
ProvisionInv ==
  task = "provision" =>
    /\ step > 1 => namespace = "active"
    /\ \A i \in 1 .. 17: i < step /\ provisionEnv[i] \in Kubernetes \cup {"database"}
                           => provisionEnv[i] \in objects[env]
    /\ step > 4 => pass # NULL
    /\ step > 6 => secret[env]["os"] # NULL
    /\ step > 8 => account[env]["pg"] = pass
    /\ step > 10 => secret[env]["pg"] = pass

\* What was provisioned has a row.
RowInv == \A e \in provisioned: status[e] \notin {NULL, "decommissioned"}

\* A task that gets to the deletion of the namespace has nobody left to serve.
LastInv ==
  task = "decommission" /\ step = 16 => provisioned = {}

DeployedInv == DeployedIsComplete /\ DatabaseCredentialsAgree

TypeInv == TypeOK /\ TaskInv

IInv == TypeInv /\ ProvisionInv /\ RowInv /\ LastInv /\ DeployedInv

\* What the steps of a decommission have deleted so far, whatever was swallowed.
DecommissionInv ==
  task = "decommission" =>
    /\ \A i \in 1 .. 16: i < step /\ decommissionEnv[i] \in Kubernetes
                           => decommissionEnv[i] \notin objects[env]
    /\ step > 5 => secret[env]["pg"] = NULL
    /\ step > 6 => secret[env]["os"] = NULL

Clear(e) == objects[e] \cap Kubernetes = {} /\ secret[e] = NoPassword

\* Nothing is there for an environment that is decommissioned, or that has no row and did
\* not lose it while it was active; and nothing is made for such a one.
ClearInv ==
  /\ \A e \in Env: status[e] = "decommissioned" \/ (status[e] = NULL /\ e \notin orphaned)
                   => Clear(e)
  /\ task \in {"provision", "patch"} =>
       status[env] # "decommissioned" /\ (status[env] # NULL \/ env \in orphaned)

\* The count was right and stays right: before the deletion of the namespace nobody
\* else has anything, and at the end either it is on its way or somebody is left.
NamespaceInv ==
  task = "decommission" =>
    /\ step = 16 => \A e \in Env \ {env}: Clear(e) \/ e \in orphaned
    /\ step = 17 => namespace # "active" \/ RemainingActiveEnvs # {} \/ orphaned \ {env} # {}

CleanupInv == DecommissionInv /\ ClearInv /\ NamespaceInv

---------------------------------------------------------------------------
(***************************************************************************)
(* The sequences of steps                                                  *)
(***************************************************************************)

\* The tasks, as functions.
LEMMA TaskSteps ==
  /\ DOMAIN Steps = {"provision", "patch", "decommission"}
  /\ Steps["provision"] = provisionEnv /\ Steps["patch"] = patchEnv
  /\ Steps["decommission"] = decommissionEnv
  /\ Len(provisionEnv) = 17 /\ DOMAIN provisionEnv = 1 .. 17
  /\ Len(patchEnv) = 2 /\ DOMAIN patchEnv = 1 .. 2
  /\ Len(decommissionEnv) = 16 /\ DOMAIN decommissionEnv = 1 .. 16
BY DEF Steps, provisionEnv, patchEnv, decommissionEnv

\* The names of tasks, of statuses and of requests are none of the others.
LEMMA Names ==
  NULL \notin {"provision", "patch", "stop", "decommission", "delete"} \cup Status
BY TenantAssumption DEF Queued

\* Where a task is while it runs, and at its end.
LEMMA WhileRunning ==
  ASSUME Running
  PROVE  /\ task = "provision" => step <= 17
         /\ task = "decommission" => step <= 16
<1>1. CASE task = "provision"
  BY <1>1, TaskSteps DEF Running
<1>2. CASE task = "decommission"
  BY <1>2, TaskSteps DEF Running
<1> QED BY <1>1, <1>2

LEMMA AtTheEnd ==
  ASSUME Done
  PROVE  /\ task = "provision" => step > 17
         /\ task = "provision" /\ step = Len(Steps[task]) + 1 => step = 18
         /\ task = "decommission" /\ step = Len(Steps[task]) + 1 => step = 17
<1>1. CASE task = "provision"
  BY <1>1, TaskSteps DEF Done
<1>2. CASE task = "decommission"
  BY <1>2, TaskSteps DEF Done
<1> QED BY <1>1, <1>2

\* Where the steps are that the invariant speaks of.
LEMMA ProvisionAt ==
  ASSUME NEW i \in 1 .. 17
  PROVE  /\ provisionEnv[i] = "namespace" <=> i = 1
         /\ provisionEnv[i] = "os_read" <=> i = 3
         /\ provisionEnv[i] = "os_user" <=> i = 4
         /\ provisionEnv[i] = "os_roles" <=> i = 5
         /\ provisionEnv[i] = "os_secret" <=> i = 6
         /\ provisionEnv[i] = "pg_read" <=> i = 7
         /\ provisionEnv[i] = "pg_role" <=> i = 8
         /\ provisionEnv[i] = "pg_secret" <=> i = 10
BY DEF provisionEnv

LEMMA DecommissionAt ==
  ASSUME NEW i \in 1 .. 16
  PROVE  /\ decommissionEnv[i] = "count" <=> i = 15
         /\ decommissionEnv[i] = "namespace" <=> i = 16
         /\ decommissionEnv[i] = "scale" <=> i = 1
         /\ decommissionEnv[i] = "deployment" <=> i = 2
         /\ decommissionEnv[i] = "pg_secret" <=> i = 5
         /\ decommissionEnv[i] = "os_secret" <=> i = 6
         /\ decommissionEnv[i] = "drop_database" <=> i = 11
         /\ decommissionEnv[i] = "drop_role" <=> i = 12
         /\ decommissionEnv[i] = "os_user" <=> i = 14
         /\ decommissionEnv[i] = "os_roles" <=> i = 13
BY DEF decommissionEnv

\* The handler carries on at a later step, before any that the invariant is about.
LEMMA GoToStep ==
  ASSUME task \in DOMAIN Steps, Name \in DOMAIN Swallowed[task], GoTo(Swallowed[task][Name])
  PROVE  /\ task # "patch"
         /\ task = "provision" => step' = 6
         /\ task = "decommission" => step' \in {2, 13, 15}
<1>0. task # "patch"
  BY DEF Swallowed
<1>1. CASE task = "provision"
  <2>1. Swallowed[task][Name] = "os_secret"
    BY <1>1 DEF Swallowed
  <2>2. (CHOOSE i \in 1 .. 17: provisionEnv[i] = "os_secret") = 6
    BY ProvisionAt
  <2> QED BY <1>1, <2>1, <2>2, TaskSteps DEF GoTo
<1>2. CASE task = "decommission"
  <2>1. Swallowed[task][Name] \in {"deployment", "os_roles", "count"}
    BY <1>2 DEF Swallowed
  <2>2. /\ (CHOOSE i \in 1 .. 16: decommissionEnv[i] = "deployment") = 2
        /\ (CHOOSE i \in 1 .. 16: decommissionEnv[i] = "os_roles") = 13
        /\ (CHOOSE i \in 1 .. 16: decommissionEnv[i] = "count") = 15
    BY DecommissionAt
  <2> QED BY <1>2, <2>1, <2>2, TaskSteps DEF GoTo
<1> QED BY <1>0, <1>1, <1>2, TaskSteps

\* Three passwords are enough: one is in use neither in the Secret nor in the service.
LEMMA UnusedIsPassword ==
  \A s: Unused(s) \in Password /\ Unused(s)' \in Password
<1>1. \A a, b: \E p \in Password: p \notin {a, b}
  BY DEF Password
<1>2. TAKE s
<1>3. /\ \E p \in Password: p \notin {secret[env][s], account[env][s]}
      /\ \E p \in Password: p \notin {secret[env][s], account[env][s]}'
  BY <1>1
<1> QED BY <1>3 DEF Unused

---------------------------------------------------------------------------
(***************************************************************************)
(* Type correctness                                                        *)
(***************************************************************************)

\* Every effect leaves the cluster's objects and passwords well typed.
LEMMA EffectTypes ==
  ASSUME TypeInv, Effect
  PROVE  /\ namespace' \in {"absent", "active", "terminating"}
         /\ objects' \in [Env -> SUBSET Object]
         /\ secret' \in [Env -> [Service -> Password \cup {NULL}]]
         /\ account' \in [Env -> [Service -> Password \cup {NULL}]]
<1>0. /\ env \in Env /\ task \in DOMAIN Steps
      /\ pass \in Password \cup {NULL}
      /\ namespace \in {"absent", "active", "terminating"}
      /\ objects \in [Env -> SUBSET Object]
      /\ secret \in [Env -> [Service -> Password \cup {NULL}]]
      /\ account \in [Env -> [Service -> Password \cup {NULL}]]
  BY Names, TaskSteps
  DEF TypeInv, TypeOK, TaskInv, Effect, ApplyNamespace, Apply, ApplySecret, PutUser,
      PutRole, Delete, DeleteSecret, DropDatabase, DropAccount, DeleteNamespace, Look, Does,
      Running
<1>1. CASE ApplyNamespace
  BY <1>0, <1>1 DEF ApplyNamespace
<1>2. CASE Apply
  BY <1>0, <1>2 DEF Apply, Does, Name
<1>3. CASE ApplySecret
  BY <1>0, <1>3 DEF ApplySecret
<1>4. CASE PutUser
  <2>1. UserPassword \in Password
    BY <1>0, UnusedIsPassword DEF UserPassword
  <2> QED BY <1>0, <1>4, <2>1 DEF PutUser
<1>5. CASE PutRole
  BY <1>0, <1>5 DEF PutRole
<1>6. CASE Delete
  BY <1>0, <1>6 DEF Delete
<1>7. CASE DeleteSecret
  BY <1>0, <1>7 DEF DeleteSecret
<1>8. CASE DropDatabase
  BY <1>0, <1>8 DEF DropDatabase
<1>9. CASE DropAccount
  BY <1>0, <1>9 DEF DropAccount
<1>10. CASE DeleteNamespace
  BY <1>0, <1>10 DEF DeleteNamespace
<1>11. CASE Look
  BY <1>0, <1>11 DEF Look, cluster
<1> QED
  BY Effect, <1>1, <1>2, <1>3, <1>4, <1>5, <1>6, <1>7, <1>8, <1>9, <1>10, <1>11 DEF Effect

\* The password remembered is one that was found or made, or none.
LEMMA RememberTypes ==
  ASSUME TypeInv, Running, NEW found \in Password \cup {NULL}, Remember(found)
  PROVE  pass' \in Password \cup {NULL}
<1>1. pass \in Password \cup {NULL}
  BY DEF TypeInv, TypeOK
<1>2. UserPassword \in Password /\ Unused("pg") \in Password
  BY <1>1, UnusedIsPassword DEF UserPassword
<1> QED BY <1>1, <1>2 DEF Remember

\* Every effect is a step of the task.
LEMMA EffectRuns ==
  ASSUME Effect
  PROVE  Running
BY DEF Effect, ApplyNamespace, Apply, ApplySecret, PutUser, PutRole, Delete, DeleteSecret,
       DropDatabase, DropAccount, DeleteNamespace, Look, Does

\* The next attempt starts over, with nothing provisioned unless it is a patch.
LEMMA NextAttemptTypes ==
  ASSUME TypeInv, task # NULL, NextAttempt
  PROVE  /\ status' \in [Env -> Status \cup {NULL}]
         /\ task' \in DOMAIN Steps \cup {NULL} /\ env' \in Env \cup {NULL}
         /\ step' \in Nat /\ pass' \in Password \cup {NULL}
         /\ provisioned' \subseteq provisioned
         /\ TaskInv'
<1>0. /\ env \in Env /\ task \in DOMAIN Steps
      /\ status \in [Env -> Status \cup {NULL}] /\ provisioned \subseteq Env
  BY Names, TaskSteps DEF TypeInv, TypeOK, TaskInv
<1>1. CASE /\ step' = 1 /\ pass' = NULL /\ UNCHANGED <<status, task, env>>
           /\ provisioned' = IF task = "patch" THEN provisioned ELSE provisioned \ {env}
  <2>1. Len(Steps[task]) \in Nat
    BY <1>0, TaskSteps
  <2> QED BY <1>0, <1>1, <2>1 DEF TaskInv
<1>2. CASE SetStatus("failed") /\ PutDown /\ UNCHANGED provisioned
  BY <1>0, <1>2 DEF SetStatus, PutDown, TaskInv, Status
<1> QED BY <1>1, <1>2 DEF NextAttempt

\* The handlers leave a well-typed task, or none.
LEMMA CaughtTypes ==
  ASSUME TypeInv, Running, Caught
  PROVE  /\ status' \in [Env -> Status \cup {NULL}]
         /\ task' \in DOMAIN Steps \cup {NULL} /\ env' \in Env \cup {NULL}
         /\ step' \in Nat /\ pass' \in Password \cup {NULL}
         /\ provisioned' \subseteq provisioned
         /\ TaskInv'
<1>0. /\ env \in Env /\ task \in DOMAIN Steps /\ step \in Nat
      /\ status \in [Env -> Status \cup {NULL}] /\ provisioned \subseteq Env
      /\ pass \in Password \cup {NULL}
  BY Names, TaskSteps DEF TypeInv, TypeOK, TaskInv, Running
<1>1. CASE Name \in DOMAIN Swallowed[task]
  <2>0. /\ GoTo(Swallowed[task][Name]) /\ UNCHANGED <<status, task, env, provisioned>>
        /\ pass' = IF task = "provision" THEN Placeholder ELSE pass
    BY <1>1 DEF Caught
  <2>1. step' \in 1 .. Len(Steps[task])
    <3>1. /\ task # "patch"
          /\ task = "provision" => step' = 6
          /\ task = "decommission" => step' \in {2, 13, 15}
      BY <1>0, <1>1, <2>0, GoToStep
    <3>2. CASE task = "provision"
      BY <3>1, <3>2, TaskSteps
    <3>3. CASE task = "decommission"
      BY <3>1, <3>3, TaskSteps
    <3> QED BY <1>0, <3>1, <3>2, <3>3, TaskSteps
  <2>2. pass' \in Password \cup {NULL}
    BY <1>0, <2>0, UnusedIsPassword DEF Placeholder
  <2>3. step' \in Nat
    BY <1>0, <2>1, TaskSteps
  <2>4. TaskInv'
    <3>1. Len(Steps[task]) \in Nat
      BY <1>0, TaskSteps
    <3>2. task = "decommission" \/ task = "provision" => env \notin provisioned
      BY <1>0, WhileRunning DEF TypeInv, TaskInv, Running
    <3> QED BY <1>0, <2>0, <2>1, <2>3, <3>1, <3>2 DEF TaskInv
  <2> QED BY <1>0, <2>0, <2>2, <2>3, <2>4
<1>2. CASE NextAttempt
  BY <1>2, NextAttemptTypes DEF Running
<1> QED BY <1>1, <1>2 DEF Caught

LEMMA TypeInit ==
  Init => TypeInv
<1> SUFFICES ASSUME Init PROVE TypeInv
  OBVIOUS
<1>1. TaskInv
  BY DEF Init, TaskInv
<1>2. ops \in 0 .. MaxOps /\ faults \in 0 .. MaxFaults
  BY TenantAssumption DEF Init
<1> QED BY <1>1, <1>2 DEF Init, NoPassword, TypeInv, TypeOK

\* A request is about rows, and leaves them well typed.
LEMMA RequestTypes ==
  ASSUME TypeInv, Request
  PROVE  TypeInv'
<1> USE TenantAssumption
<1> USE DEF tables, requests, cluster, worker, history
<1>1. CASE CreateOrg
  BY <1>1 DEF CreateOrg, Requested, TypeInv, TypeOK, TaskInv
<1>2. ASSUME NEW e \in Env, CreateEnv(e)
      PROVE  TypeInv'
  BY <1>2 DEF CreateEnv, Requested, Status, TypeInv, TypeOK, TaskInv
<1>3. ASSUME NEW e \in Env, DecommissionEnv(e)
      PROVE  TypeInv'
  BY <1>3 DEF DecommissionEnv, Requested, TypeInv, TypeOK, TaskInv
<1>4. ASSUME NEW e \in Env, Retrigger(e)
      PROVE  TypeInv'
  <2>1. Queued[request[e]] \in Status
    BY <1>4 DEF Retrigger, Queued, Status
  <2>2. status' \in [Env -> Status \cup {NULL}] /\ due' \in [Env -> BOOLEAN]
    <3>1. CASE status[e] = NULL
      BY <1>4, <3>1 DEF Retrigger, TypeInv, TypeOK
    <3>2. CASE status[e] # NULL
      <4>1. PICK d \in CASE request[e] = "provision" -> {FALSE}
                         [] request[e] = "decommission" -> {due[e], TRUE}
                         [] OTHER -> {due[e]}: due' = [due EXCEPT ![e] = d]
        BY <1>4, <3>2 DEF Retrigger
      <4>2. due[e] \in BOOLEAN
        BY DEF TypeInv, TypeOK
      <4>3. d \in BOOLEAN
        BY <4>1, <4>2
      <4> QED BY <1>4, <2>1, <3>2, <4>1, <4>3 DEF Retrigger, TypeInv, TypeOK
    <3> QED BY <3>1, <3>2
  <2> QED BY <1>4, <2>2 DEF Retrigger, TypeInv, TypeOK, TaskInv
<1>5. ASSUME NEW e \in Env, DeleteEnv(e)
      PROVE  TypeInv'
  BY <1>5 DEF DeleteEnv, DeleteRow, TypeInv, TypeOK, TaskInv
<1>6. ASSUME NEW e \in Env, NEW r \in DOMAIN Queued \cup {"delete"}, ReadRow(e, r)
      PROVE  TypeInv'
  BY <1>6 DEF ReadRow, Requested, TypeInv, TypeOK, TaskInv
<1>7. ASSUME NEW e \in Env, Drift(e)
      PROVE  TypeInv'
  BY <1>7 DEF Drift, Requested, Status, TypeInv, TypeOK, TaskInv
<1>8. CASE OrgCount
  BY <1>8 DEF OrgCount, Requested, TypeInv, TypeOK, TaskInv
<1>9. CASE OrgDelete
  BY <1>9 DEF OrgDelete, Active, TypeInv, TypeOK, TaskInv
<1> QED BY <1>1, <1>2, <1>3, <1>4, <1>5, <1>6, <1>7, <1>8, <1>9 DEF Request

\* One step per action of Next.
LEMMA TypeStep ==
  ASSUME TypeInv, [Next]_vars
  PROVE  TypeInv'
<1> USE TenantAssumption
<1> USE DEF tables, requests, cluster, worker, history
<1>0. CASE UNCHANGED vars
  BY <1>0 DEF vars, TypeInv, TypeOK, TaskInv
<1>1. ASSUME NEW e \in Env, BeginProvision(e) \/ BeginPatch(e) \/ BeginDecommission(e)
      PROVE  TypeInv'
  <2>1. PICK t \in {"provision", "patch", "decommission"},
             s \in {"provisioning", "reconfiguring", "decommissioning"}: Begin(e, t, s)
    BY <1>1 DEF BeginProvision, BeginPatch, BeginDecommission
  <2>2. /\ task' = t /\ env' = e /\ step' = 1 /\ pass' = NULL
        /\ provisioned' = IF t = "patch" THEN provisioned ELSE provisioned \ {e}
    BY <2>1 DEF Begin
  <2>3. TaskInv'
    <3>1. Len(Steps[t]) \in Nat
      BY TaskSteps
    <3> QED BY <2>2, <3>1 DEF TaskInv
  <2>4. TypeOK'
    BY <2>1, <2>2, TaskSteps DEF TypeInv, TypeOK, Status, Begin
  <2> QED BY <2>3, <2>4 DEF TypeInv
<1>2. ASSUME NEW e \in Env, Recover(e)
      PROVE  TypeInv'
  BY <1>2 DEF Recover, TypeInv, TypeOK, TaskInv, Status
<1>3. CASE Step
  <2>1. Effect /\ Running /\ step' = step + 1
    BY <1>3, EffectRuns DEF Step, NextStep
  <2>2. pass' \in Password \cup {NULL}
    <3>1. IF Name \in DOMAIN ServiceOf THEN secret[env][ServiceOf[Name]] \in Password \cup {NULL}
          ELSE TRUE
      BY <2>1 DEF TypeInv, TypeOK, TaskInv, Running, ServiceOf, Service
    <3> QED BY <1>3, <2>1, <3>1, RememberTypes DEF Step
  <2>3. TaskInv'
    BY <1>3, <2>1, TaskSteps, WhileRunning DEF Step, NextStep, TypeInv, TypeOK, TaskInv, Running
  <2>4. TypeOK'
    BY <1>3, <2>1, <2>2, EffectTypes DEF Step, NextStep, TypeInv, TypeOK
  <2> QED BY <2>3, <2>4 DEF TypeInv
<1>4. CASE Count
  <2>1. task = "decommission" /\ step = 15 /\ step' \in {16, 17}
    BY <1>4, DecommissionAt, TaskSteps DEF Count, Does, Running, TypeInv, TypeOK, TaskInv
  <2> QED BY <1>4, <2>1, TaskSteps DEF Count, TypeInv, TypeOK, TaskInv
<1>5. CASE Fails
  <2>1. Running /\ Caught /\ (Effect \/ UNCHANGED cluster) /\ faults' \in 0 .. MaxFaults
    BY <1>5 DEF Fails, Fault, TypeInv, TypeOK
  <2>2. /\ namespace' \in {"absent", "active", "terminating"}
        /\ objects' \in [Env -> SUBSET Object]
        /\ secret' \in [Env -> [Service -> Password \cup {NULL}]]
        /\ account' \in [Env -> [Service -> Password \cup {NULL}]]
    <3>1. CASE Effect
      BY <3>1, EffectTypes
    <3>2. CASE UNCHANGED cluster
      BY <3>2 DEF TypeInv, TypeOK
    <3> QED BY <2>1, <3>1, <3>2
  <2> QED BY <2>1, <2>2, CaughtTypes DEF Caught, TypeInv, TypeOK
<1>6. CASE ReadFails
  <2>1. Running /\ pass' \in Password \cup {NULL} /\ faults' \in 0 .. MaxFaults
    BY <1>6, RememberTypes DEF ReadFails, Does, Fault, TypeInv, TypeOK
  <2>2. TaskInv'
    BY <1>6, <2>1, TaskSteps DEF ReadFails, Does, NextStep, TypeInv, TypeOK, TaskInv, Running
  <2> QED BY <1>6, <2>1, <2>2 DEF ReadFails, NextStep, TypeInv, TypeOK
<1>7. CASE DeleteIgnored
  <2>1. Running /\ faults' \in 0 .. MaxFaults
    BY <1>7 DEF DeleteIgnored, Does, Fault, TypeInv, TypeOK
  <2>2. TaskInv'
    BY <1>7, <2>1, TaskSteps DEF DeleteIgnored, Does, NextStep, TypeInv, TypeOK, TaskInv, Running
  <2> QED BY <1>7, <2>1, <2>2 DEF DeleteIgnored, NextStep, TypeInv, TypeOK
<1>8. CASE Refused
  BY <1>8, CaughtTypes DEF Refused, Caught, TypeInv, TypeOK
<1>9. CASE Finish
  <2>1. task \in DOMAIN Steps /\ env \in Env
    BY <1>9 DEF Finish, Done, TypeInv, TypeOK, TaskInv
  <2>2. TaskInv'
    <3>1. Len(Steps[task]) \in Nat
      BY <2>1, TaskSteps
    <3>2. /\ task = "decommission" => env \notin provisioned
          /\ task = "provision" => step' = 19
      BY <1>9, AtTheEnd DEF Finish, Done, TypeInv, TaskInv
    <3> QED BY <1>9, <2>1, <3>1, <3>2 DEF Finish, TaskInv, TypeInv, TypeOK
  <2> QED BY <1>9, <2>1, <2>2 DEF Finish, SetStatus, Status, TypeInv, TypeOK
<1>10. CASE Purge
  <2>1. task = "decommission" /\ env \in Env
    BY <1>10, Names DEF Purge, TypeInv, TaskInv
  <2>2. TaskInv'
    BY <1>10, <2>1, TaskSteps DEF Purge, DeleteRow, TypeInv, TypeOK, TaskInv
  <2> QED BY <1>10, <2>1, <2>2 DEF Purge, DeleteRow, TypeInv, TypeOK
<1>11. CASE EndTask
  BY <1>11 DEF EndTask, PutDown, TypeInv, TypeOK, TaskInv
<1>12. CASE EndFails
  <2>1. task # NULL /\ NextAttempt /\ faults' \in 0 .. MaxFaults
    BY <1>12 DEF EndFails, Done, Fault, TypeInv, TypeOK
  <2> QED BY <1>12, <2>1, NextAttemptTypes DEF EndFails, TypeInv, TypeOK
<1>13. CASE Crash
  BY <1>13 DEF Crash, PutDown, TypeInv, TypeOK, TaskInv
<1>14. CASE NamespaceGone
  BY <1>14 DEF NamespaceGone, NoPassword, TypeInv, TypeOK, TaskInv
<1> QED
  BY <1>0, <1>1, <1>2, <1>3, <1>4, <1>5, <1>6, <1>7, <1>8, <1>9, <1>10, <1>11, <1>12, <1>13,
     <1>14, RequestTypes
  DEF Next

\* Every reachable state is well typed, for any environments and any bounds.
THEOREM TypeCorrect ==
  Spec => []TypeOK
<1>1. Spec => []TypeInv
  BY TypeInit, TypeStep, PTL DEF Spec
<1>2. TypeInv => TypeOK
  BY DEF TypeInv
<1> QED BY <1>1, <1>2, PTL

---------------------------------------------------------------------------
(***************************************************************************)
(* What requests and failures do to the rows                               *)
(***************************************************************************)

\* The requests leave the cluster and the worker alone.  They decommission nobody, and a
\* row that is deleted while it is active makes an orphan.
LEMMA RequestRows ==
  ASSUME TypeInv, Request
  PROVE  /\ UNCHANGED <<cluster, worker>>
         /\ orphaned \subseteq orphaned' /\ provisioned' \subseteq provisioned
         /\ \A e \in Env:
              /\ status'[e] = "decommissioned" => status[e] = "decommissioned"
              /\ status'[e] = NULL => /\ status[e] \in {NULL, "decommissioned"} \/ e \in orphaned'
                                      /\ e \notin provisioned' \/ status[e] = NULL
<1>0. /\ status \in [Env -> Status \cup {NULL}] /\ provisioned \subseteq Env
      /\ NULL \notin Status
  BY TenantAssumption DEF TypeInv, TypeOK
<1> USE DEF tables, requests, cluster, worker, history
<1>1. CASE \/ CreateOrg
           \/ OrgCount
           \/ \E e \in Env: \/ DecommissionEnv(e)
                           \/ \E r \in DOMAIN Queued \cup {"delete"}: ReadRow(e, r)
  BY <1>1 DEF CreateOrg, OrgCount, DecommissionEnv, ReadRow
<1>2. CASE \E e \in Env: CreateEnv(e) \/ Drift(e) \/ Retrigger(e)
  <2>1. PICK e \in Env, s \in Status \ {"decommissioned"}:
               /\ status' = status \/ status' = [status EXCEPT ![e] = s]
               /\ UNCHANGED <<cluster, worker, orphaned, provisioned>>
    <3>1. CASE \E e \in Env: CreateEnv(e) \/ Drift(e)
      BY <3>1 DEF CreateEnv, Drift, Status
    <3>2. ASSUME NEW e \in Env, Retrigger(e)
          PROVE  /\ Queued[request[e]] \in Status \ {"decommissioned"}
                 /\ status' = status \/ status' = [status EXCEPT ![e] = Queued[request[e]]]
                 /\ UNCHANGED <<cluster, worker, orphaned, provisioned>>
      <4>1. request[e] \in DOMAIN Queued
        BY <3>2 DEF Retrigger
      <4>2. Queued[request[e]] \in Status \ {"decommissioned"}
        BY <4>1 DEF Queued, Status
      <4>3. UNCHANGED <<cluster, worker, orphaned, provisioned>>
        BY <3>2 DEF Retrigger
      <4>4. status' = status \/ status' = [status EXCEPT ![e] = Queued[request[e]]]
        BY <3>2 DEF Retrigger
      <4> QED BY <4>2, <4>3, <4>4
    <3> QED BY <1>2, <3>1, <3>2
  <2>2. \A f \in Env: status'[f] = status[f] \/ status'[f] = s
    BY <1>0, <2>1
  <2> QED BY <1>0, <2>1, <2>2
<1>3. CASE \E e \in Env: DeleteEnv(e)
  BY <1>0, <1>3 DEF DeleteEnv, DeleteRow, Active, Status
<1>4. CASE OrgDelete
  BY <1>0, <1>4 DEF OrgDelete, Active, Status
<1> QED BY <1>1, <1>2, <1>3, <1>4 DEF Request

\* An attempt that throws starts over, or the row says 'failed'.
LEMMA AttemptEnds ==
  ASSUME TypeInv, task # NULL, NextAttempt
  PROVE  /\ task' = NULL \/ (step' = 1 /\ UNCHANGED <<status, task, env>>)
         /\ provisioned' \subseteq provisioned
         /\ \A e \in Env: status'[e] = status[e] \/ (status[e] # NULL /\ status'[e] = "failed")
<1>1. env \in Env /\ status \in [Env -> Status \cup {NULL}]
  BY DEF TypeInv, TypeOK, TaskInv
<1> QED BY <1>1 DEF NextAttempt, SetStatus, PutDown

---------------------------------------------------------------------------
(***************************************************************************)
(* What was provisioned is complete and has the right password             *)
(***************************************************************************)

\* A step is about the task's environment; of the others it can take the namespace only,
\* as the last step of a decommission.
LEMMA EffectElsewhere ==
  ASSUME TypeInv, Effect
  PROVE  /\ \A e \in Env \ {env}: /\ objects'[e] = objects[e]
                                  /\ secret'[e] = secret[e]
                                  /\ account'[e] = account[e]
         /\ namespace = "active" =>
              namespace' = "active" \/ (task = "decommission" /\ step = 16)
<1>1. CASE ApplyNamespace
  BY <1>1 DEF ApplyNamespace
<1>2. CASE Apply
  BY <1>2 DEF Apply, TypeInv, TypeOK
<1>3. CASE ApplySecret
  BY <1>3 DEF ApplySecret, TypeInv, TypeOK
<1>4. CASE PutUser
  BY <1>4 DEF PutUser, TypeInv, TypeOK
<1>5. CASE PutRole
  BY <1>5 DEF PutRole, TypeInv, TypeOK
<1>6. CASE Delete
  BY <1>6 DEF Delete, TypeInv, TypeOK
<1>7. CASE DeleteSecret
  BY <1>7 DEF DeleteSecret, TypeInv, TypeOK
<1>8. CASE DropDatabase
  BY <1>8 DEF DropDatabase, TypeInv, TypeOK
<1>9. CASE DropAccount
  BY <1>9 DEF DropAccount, TypeInv, TypeOK
<1>10. CASE DeleteNamespace
  <2>1. task = "decommission" /\ step \in 1 .. 16 /\ decommissionEnv[step] = "namespace"
    BY <1>10, TaskSteps, Names DEF DeleteNamespace, Does, Running, TypeInv, TaskInv
  <2> QED BY <1>10, <2>1, DecommissionAt DEF DeleteNamespace
<1>11. CASE Look
  BY <1>11 DEF Look, cluster
<1> QED
  BY Effect, <1>1, <1>2, <1>3, <1>4, <1>5, <1>6, <1>7, <1>8, <1>9, <1>10, <1>11 DEF Effect

\* A patch only adds to the objects.
LEMMA EffectOfPatch ==
  ASSUME TypeInv, Effect, task = "patch"
  PROVE  /\ objects[env] \subseteq objects'[env]
         /\ UNCHANGED <<namespace, secret, account>>
<1>1. env \in Env /\ objects \in [Env -> SUBSET Object]
  BY Names DEF TypeInv, TypeOK, TaskInv
<1>2. Apply
  BY DEF Effect, ApplyNamespace, ApplySecret, PutUser, PutRole, Delete, DeleteSecret,
         DropDatabase, DropAccount, DeleteNamespace, Look, Does
<1> QED BY <1>1, <1>2 DEF Apply

\* Hence those that were provisioned keep what they have while the worker works.
LEMMA DeployedKept ==
  ASSUME IInv, Effect \/ UNCHANGED cluster, task # NULL, provisioned' \subseteq provisioned
  PROVE  DeployedInv'
<1>1. ASSUME NEW e \in provisioned'
      PROVE  /\ namespace' = "active"
             /\ objects[e] \subseteq objects'[e]
             /\ secret'[e] = secret[e]
             /\ account'[e] = account[e]
  <2>1. e \in provisioned /\ e \in Env /\ namespace = "active"
    BY <1>1 DEF IInv, TypeInv, TypeOK, DeployedInv, DeployedIsComplete
  <2>2. CASE Effect /\ e # env
    <3>1. ~ (task = "decommission" /\ step = 16)
      BY <2>1 DEF IInv, LastInv
    <3> QED BY <2>1, <2>2, <3>1, EffectElsewhere DEF IInv
  <2>3. CASE Effect /\ e = env
    <3>1. task = "patch"
      <4>1. /\ task = "provision" => step <= 18
            /\ task \in DOMAIN Steps
        BY <2>3, EffectRuns, WhileRunning DEF Running, IInv, TypeInv, TypeOK
      <4> QED BY <2>1, <2>3, <4>1, TaskSteps DEF IInv, TypeInv, TaskInv
    <3> QED BY <2>1, <2>3, <3>1, EffectOfPatch DEF IInv
  <2>4. CASE UNCHANGED cluster
    BY <2>1, <2>4 DEF cluster
  <2> QED BY <2>2, <2>3, <2>4
<1>2. provisioned' \subseteq provisioned
  OBVIOUS
<1> QED BY <1>1, <1>2 DEF IInv, DeployedInv, DeployedIsComplete, DatabaseCredentialsAgree

\* What the steps of provisioning do for the environment.
LEMMA EffectOfProvision ==
  ASSUME TypeInv, Effect, task = "provision"
  PROVE  /\ step = 1 \/ namespace = "active" => namespace' = "active"
         /\ objects[env] \subseteq objects'[env]
         /\ Name \in Object => Name \in objects'[env]
         /\ secret'[env]["os"] = IF step = 6 THEN pass ELSE secret[env]["os"]
         /\ secret'[env]["pg"] = IF step = 10 THEN pass ELSE secret[env]["pg"]
         /\ account'[env]["pg"] = IF step = 8 THEN pass ELSE account[env]["pg"]
<1>0. /\ env \in Env /\ step \in 1 .. 17 /\ Name = provisionEnv[step]
      /\ objects \in [Env -> SUBSET Object]
      /\ secret \in [Env -> [Service -> Password \cup {NULL}]]
      /\ account \in [Env -> [Service -> Password \cup {NULL}]]
  BY EffectRuns, TaskSteps, Names DEF Running, Name, TypeInv, TypeOK, TaskInv
<1>0a. /\ step = 1 <=> Name = "namespace"
       /\ step = 6 <=> Name = "os_secret"
       /\ step = 8 <=> Name = "pg_role"
       /\ step = 10 <=> Name = "pg_secret"
  BY <1>0, ProvisionAt
<1> USE <1>0, <1>0a
<1>1. CASE ApplyNamespace
  BY <1>1 DEF ApplyNamespace, Does, Name, Object, Namespaced, ClusterWide
<1>2. CASE Apply
  BY <1>2 DEF Apply, Does, Name, Object, Namespaced, ClusterWide
<1>3. CASE ApplySecret
  BY <1>3 DEF ApplySecret, Does, Name, Object, Namespaced, ClusterWide, ServiceOf, Service
<1>4. CASE PutUser
  BY <1>4 DEF PutUser, Does, Name, Object, Namespaced, ClusterWide, Service
<1>5. CASE PutRole
  BY <1>5 DEF PutRole, Does, Name, Object, Namespaced, ClusterWide, Service
<1>6. CASE Look
  BY <1>6 DEF Look, Does, Name, Object, Namespaced, ClusterWide, cluster
<1> QED
  BY Effect, <1>1, <1>2, <1>3, <1>4, <1>5, <1>6
  DEF Effect, Does, Delete, DeleteSecret, DropDatabase, DropAccount, DeleteNamespace

\* A step that succeeds adds what it was for.
LEMMA ProvisionStep ==
  ASSUME IInv, Step
  PROVE  ProvisionInv'
<1> SUFFICES ASSUME task = "provision"
             PROVE  ProvisionInv'
  BY DEF Step, NextStep, ProvisionInv
<1>1. /\ Effect /\ env \in Env /\ step \in 1 .. 17 /\ Name = provisionEnv[step]
      /\ step' = step + 1 /\ task' = task /\ env' = env
  BY EffectRuns, TaskSteps, Names
  DEF Step, NextStep, Running, Name, IInv, TypeInv, TypeOK, TaskInv
<1>2. /\ step = 3 <=> Name = "os_read"
      /\ step = 4 <=> Name = "os_user"
      /\ step = 7 <=> Name = "pg_read"
  BY <1>1, ProvisionAt
<1>3. /\ step \in {4, 7} => pass' # NULL
      /\ step \notin {3, 4, 7} => pass' = pass
  <2>1. \A s: Unused(s) # NULL
    BY UnusedIsPassword, TenantAssumption
  <2>2. UserPassword # NULL
    BY <2>1 DEF UserPassword
  <2> QED BY <1>1, <1>2, <2>1, <2>2 DEF Step, Remember
<1>4. ASSUME NEW i \in 1 .. 17, i < step', provisionEnv[i] \in Kubernetes \cup {"database"}
      PROVE  provisionEnv[i] \in objects'[env']
  <2>1. i < step \/ i = step
    BY <1>1, <1>4
  <2>2. provisionEnv[i] \in Object
    BY <1>4 DEF Kubernetes, Object
  <2> QED BY <1>1, <1>4, <2>1, <2>2, EffectOfProvision DEF IInv, ProvisionInv
<1>5. /\ step' > 1 => namespace' = "active"
      /\ step' > 4 => pass' # NULL
  BY <1>1, <1>3, EffectOfProvision DEF IInv, ProvisionInv
<1>6. /\ step' > 6 => secret'[env']["os"] # NULL
      /\ step' > 8 => account'[env']["pg"] = pass'
      /\ step' > 10 => secret'[env']["pg"] = pass'
  BY <1>1, <1>3, EffectOfProvision DEF IInv, ProvisionInv
<1> QED BY <1>4, <1>5, <1>6 DEF ProvisionInv

\* Where the handlers carry on, the roles alone have been skipped.
LEMMA ProvisionCaught ==
  ASSUME IInv, Running, Caught, Effect \/ UNCHANGED cluster
  PROVE  ProvisionInv'
<1> SUFFICES ASSUME task = "provision", task' = "provision"
             PROVE  ProvisionInv'
  BY DEF Caught, NextAttempt, PutDown, ProvisionInv
<1>1. /\ env \in Env /\ step \in 1 .. 17 /\ Name = provisionEnv[step]
  BY TaskSteps, Names DEF Running, Name, IInv, TypeInv, TypeOK, TaskInv
<1>2. CASE Name \in DOMAIN Swallowed[task]
  <2>1. step \in {4, 5}
    BY <1>1, <1>2, ProvisionAt DEF Swallowed
  <2>2. step' = 6 /\ env' = env
    BY <1>2, GoToStep, TaskSteps DEF Caught
  <2>3. pass' # NULL
    BY <1>2, UnusedIsPassword, TenantAssumption DEF Caught, Placeholder
  <2>4. namespace' = "active" /\ objects[env] \subseteq objects'[env]
    BY <2>1, EffectOfProvision DEF IInv, ProvisionInv, cluster
  <2>5. ASSUME NEW i \in 1 .. 17, i < 6, provisionEnv[i] \in Kubernetes \cup {"database"}
        PROVE  provisionEnv[i] \in objects'[env]
    <3>1. i < 4
      BY <2>5, ProvisionAt DEF Kubernetes, Namespaced, ClusterWide
    <3> QED BY <2>1, <2>4, <2>5, <3>1 DEF IInv, ProvisionInv
  <2> QED BY <2>2, <2>3, <2>4, <2>5 DEF ProvisionInv
<1>3. CASE NextAttempt
  <2>1. step' = 1
    BY <1>3, Names, TaskSteps DEF NextAttempt, PutDown
  <2> QED BY <2>1 DEF ProvisionInv
<1> QED BY <1>2, <1>3 DEF Caught

\* The invariant of all of it; the cases are those of Next.
LEMMA Invariant ==
  ASSUME IInv, [Next]_vars
  PROVE  IInv'
<1>0. TypeInv' /\ TypeInv
  BY TypeStep DEF IInv
<1>0a. /\ status \in [Env -> Status \cup {NULL}] /\ provisioned \subseteq Env
       /\ task # NULL => env \in Env
       /\ NULL \notin {"provision", "patch", "decommission", "decommissioned", "deployed"}
  BY <1>0, Names DEF TypeInv, TypeOK, TaskInv, Status
<1> USE DEF tables, requests, cluster, worker, history
<1>1. CASE UNCHANGED vars
  BY <1>0, <1>1
  DEF vars, IInv, ProvisionInv, RowInv, LastInv, DeployedInv, DeployedIsComplete,
      DatabaseCredentialsAgree
<1>2. ASSUME NEW e \in Env, BeginProvision(e) \/ BeginPatch(e) \/ BeginDecommission(e)
      PROVE  IInv'
  <2>1. PICK s \in {"provisioning", "reconfiguring", "decommissioning"}:
          /\ UNCHANGED cluster /\ step' = 1
          /\ status' = [status EXCEPT ![e] = s]
          /\ provisioned' \subseteq provisioned
    BY <1>2 DEF BeginProvision, BeginPatch, BeginDecommission, Begin
  <2>2. RowInv'
    BY <1>0a, <2>1, TenantAssumption DEF IInv, RowInv, Status
  <2> QED BY <1>0, <2>1, <2>2
          DEF IInv, ProvisionInv, LastInv, DeployedInv, DeployedIsComplete,
              DatabaseCredentialsAgree
<1>3. ASSUME NEW e \in Env, Recover(e)
      PROVE  IInv'
  <2>1. /\ UNCHANGED <<cluster, worker, provisioned>>
        /\ \A f \in Env: status'[f] = status[f] \/ status'[f] \in {"pending", "deployed"}
    BY <1>0a, <1>3 DEF Recover
  <2>2. RowInv'
    BY <1>0a, <2>1, TenantAssumption DEF IInv, RowInv, Status
  <2> QED BY <1>0, <2>1, <2>2
          DEF IInv, ProvisionInv, LastInv, DeployedInv, DeployedIsComplete,
              DatabaseCredentialsAgree
<1>4. CASE Request
  <2>1. UNCHANGED <<cluster, worker>> /\ provisioned' \subseteq provisioned
    BY <1>0, <1>4, RequestRows
  <2>2. RowInv'
    BY <1>0, <1>0a, <1>4, RequestRows DEF IInv, RowInv
  <2> QED BY <1>0, <2>1, <2>2
          DEF IInv, ProvisionInv, LastInv, DeployedInv, DeployedIsComplete,
              DatabaseCredentialsAgree
<1>5. CASE Step
  <2>1. task # NULL /\ Effect /\ UNCHANGED <<status, provisioned>>
    BY <1>5, EffectRuns DEF Step, NextStep, Running
  <2>2. LastInv'
    <3>1. SUFFICES ASSUME task = "decommission", step = 15 PROVE FALSE
      BY <1>5, <2>1 DEF Step, NextStep, LastInv, IInv, TypeInv, TypeOK
    <3>2. Name = "count"
      BY <3>1, TaskSteps, DecommissionAt DEF Name
    <3> QED BY <2>1, <3>1, <3>2
            DEF Effect, ApplyNamespace, Apply, ApplySecret, PutUser, PutRole, Delete,
                DeleteSecret, DropDatabase, DropAccount, DeleteNamespace, Look, Does, Name,
                Object, Namespaced, ClusterWide
  <2>3. DeployedInv' /\ RowInv'
    BY <2>1, DeployedKept DEF IInv, RowInv
  <2> QED BY <1>0, <1>5, <2>2, <2>3, ProvisionStep DEF IInv
<1>6. CASE Count
  <2>1. /\ UNCHANGED <<status, cluster, provisioned>> /\ task = "decommission" /\ task' = task
        /\ step' = IF RemainingActiveEnvs = {} THEN step + 1 ELSE step + 2
        /\ step = 15
    BY <1>6, DecommissionAt, TaskSteps
    DEF Count, Does, Running, IInv, TypeInv, TypeOK, TaskInv
  <2>2. RemainingActiveEnvs = {} => provisioned = {}
    BY <1>0a, <2>1 DEF RemainingActiveEnvs, Active, IInv, RowInv, TypeInv, TaskInv
  <2>3. LastInv'
    BY <2>1, <2>2 DEF LastInv
  <2>4. DeployedInv' /\ RowInv'
    BY <2>1 DEF IInv, RowInv, DeployedInv, DeployedIsComplete, DatabaseCredentialsAgree
  <2> QED BY <1>0, <1>0a, <2>1, <2>3, <2>4 DEF IInv, ProvisionInv
<1>7. CASE Fails \/ Refused
  <2>1. Running /\ task # NULL /\ Caught /\ (Effect \/ UNCHANGED cluster)
    BY <1>7 DEF Fails, Refused, Running
  <2>2. \/ UNCHANGED <<status, task, env, provisioned>> /\ GoTo(Swallowed[task][Name])
           /\ Name \in DOMAIN Swallowed[task]
        \/ NextAttempt
    BY <2>1 DEF Caught
  <2>3. /\ provisioned' \subseteq provisioned
        /\ \A e \in Env: status'[e] = status[e] \/ (status[e] # NULL /\ status'[e] = "failed")
    BY <1>0, <2>1, <2>2, AttemptEnds
  <2>4. RowInv'
    BY <1>0a, <2>3, TenantAssumption DEF IInv, RowInv, Status
  <2>5. LastInv'
    <3>1. task' = "decommission" => step' # 16
      BY <1>0, <1>0a, <2>1, <2>2, GoToStep, AttemptEnds DEF TypeInv, TypeOK
    <3> QED BY <3>1 DEF LastInv
  <2>6. DeployedInv'
    BY <2>1, <2>3, DeployedKept
  <2> QED BY <1>0, <2>1, <2>4, <2>5, <2>6, ProvisionCaught DEF IInv
<1>8. CASE ReadFails
  <2>1. /\ UNCHANGED <<status, cluster, task, env, provisioned>> /\ task = "provision"
        /\ step \in {3, 7} /\ step' = step + 1
        /\ step = 7 => pass' # NULL
    <3>1. task = "provision" /\ step \in 1 .. 17 /\ provisionEnv[step] \in {"os_read", "pg_read"}
      BY <1>8, TaskSteps, Names
      DEF ReadFails, Does, Running, IInv, TypeInv, TypeOK, TaskInv
    <3>2. step \in {3, 7} /\ (step = 7 => Name = "pg_read")
      BY <3>1, ProvisionAt, TaskSteps DEF Name
    <3> QED BY <1>8, <3>1, <3>2, UnusedIsPassword, TenantAssumption
            DEF ReadFails, NextStep, Remember
  <2>2. ProvisionInv'
    <3>1. \A i \in 1 .. 17: i < step' /\ provisionEnv[i] \in Kubernetes \cup {"database"}
                             => i < step
      BY <2>1, ProvisionAt DEF Kubernetes, Namespaced, ClusterWide
    <3> QED BY <2>1, <3>1 DEF IInv, ProvisionInv
  <2> QED BY <1>0, <1>0a, <2>1, <2>2
          DEF IInv, RowInv, LastInv, DeployedInv, DeployedIsComplete, DatabaseCredentialsAgree
<1>9. CASE DeleteIgnored
  <2>1. /\ UNCHANGED <<status, cluster, task, env, provisioned>> /\ task = "decommission"
        /\ step \in 1 .. 16 /\ step' = step + 1
        /\ decommissionEnv[step] \in {"os_roles", "os_user"}
    BY <1>9, TaskSteps, Names
    DEF DeleteIgnored, Does, Running, NextStep, IInv, TypeInv, TypeOK, TaskInv
  <2>2. step' # 16
    BY <2>1, DecommissionAt
  <2> QED BY <1>0, <1>0a, <2>1, <2>2
          DEF IInv, ProvisionInv, RowInv, LastInv, DeployedInv, DeployedIsComplete,
              DatabaseCredentialsAgree
<1>10. CASE Finish
  <2>1. /\ UNCHANGED <<cluster, task, env, pass>> /\ env \in Env
        /\ step = Len(Steps[task]) + 1 /\ step' = step + 1 /\ task \in DOMAIN Steps
        /\ \A e \in Env \ {env}: status'[e] = status[e]
        /\ status'[env] = NULL => status[env] = NULL
        /\ task # "decommission" => status'[env] \in {NULL, "deployed"}
    BY <1>0, <1>0a, <1>10, TenantAssumption DEF Finish, Done, SetStatus, TypeInv, TypeOK, Status
  <2>2. /\ provisioned' = IF task = "provision" /\ status[env] # NULL THEN provisioned \cup {env}
                          ELSE provisioned
        /\ task = "decommission" => env \notin provisioned
    BY <1>0, <1>0a, <1>10 DEF Finish, TypeInv, TaskInv
  <2>3. RowInv'
    BY <1>0a, <2>1, <2>2 DEF IInv, RowInv
  <2>4. LastInv'
    BY <1>10, <2>1, AtTheEnd DEF Finish, LastInv
  <2>5. ProvisionInv' /\ (task = "provision" => step = 18)
    BY <1>10, <2>1, AtTheEnd DEF Finish, IInv, ProvisionInv
  <2>6. DeployedInv'
    <3>1. CASE task = "provision"
      <4>1. ASSUME NEW k \in Kubernetes \cup {"database"}
            PROVE  k \in objects[env]
        <5>1. \E i \in 1 .. 17: provisionEnv[i] = k
          BY DEF provisionEnv, Kubernetes, Namespaced, ClusterWide
        <5> QED BY <2>5, <3>1, <5>1 DEF IInv, ProvisionInv
      <4>2. /\ namespace = "active" /\ secret[env]["os"] # NULL
            /\ secret[env]["pg"] = account[env]["pg"] /\ secret[env]["pg"] # NULL
        BY <2>5, <3>1 DEF IInv, ProvisionInv
      <4> QED BY <2>1, <2>2, <3>1, <4>1, <4>2
              DEF IInv, DeployedInv, DeployedIsComplete, DatabaseCredentialsAgree
    <3>2. CASE task # "provision"
      BY <2>1, <2>2, <3>2 DEF IInv, DeployedInv, DeployedIsComplete, DatabaseCredentialsAgree
    <3> QED BY <3>1, <3>2
  <2> QED BY <1>0, <2>3, <2>4, <2>5, <2>6 DEF IInv
<1>11. CASE Purge
  <2>1. /\ UNCHANGED <<cluster, task>> /\ task = "decommission" /\ env \in Env
        /\ step' = 19 /\ status' = [status EXCEPT ![env] = NULL]
        /\ provisioned' = provisioned \ {env}
    BY <1>0a, <1>11, TaskSteps DEF Purge, DeleteRow
  <2> QED BY <1>0, <1>0a, <2>1
          DEF IInv, ProvisionInv, RowInv, LastInv, DeployedInv, DeployedIsComplete,
              DatabaseCredentialsAgree
<1>12. CASE EndTask \/ Crash
  BY <1>0, <1>0a, <1>12
  DEF EndTask, Crash, PutDown, IInv, ProvisionInv, RowInv, LastInv, DeployedInv,
      DeployedIsComplete, DatabaseCredentialsAgree
<1>13. CASE EndFails
  <2>1. task # NULL /\ NextAttempt /\ UNCHANGED cluster
    BY <1>13 DEF EndFails, Done
  <2>2. /\ task' = NULL \/ step' = 1
        /\ provisioned' \subseteq provisioned
        /\ \A e \in Env: status'[e] = status[e] \/ (status[e] # NULL /\ status'[e] = "failed")
    BY <1>0, <2>1, AttemptEnds
  <2>3. RowInv'
    BY <1>0a, <2>2, TenantAssumption DEF IInv, RowInv, Status
  <2> QED BY <1>0, <1>0a, <2>1, <2>2, <2>3
          DEF IInv, ProvisionInv, LastInv, DeployedInv, DeployedIsComplete,
              DatabaseCredentialsAgree
<1>14. CASE NamespaceGone
  <2>1. namespace = "terminating" /\ UNCHANGED <<status, worker, provisioned>>
    BY <1>14 DEF NamespaceGone
  <2>2. provisioned = {}
    BY <2>1 DEF IInv, DeployedInv, DeployedIsComplete
  <2>3. task = "provision" => step \in Nat /\ step <= 1
    BY <2>1 DEF IInv, ProvisionInv, TypeInv, TypeOK
  <2>4. ProvisionInv'
    BY <2>1, <2>3 DEF ProvisionInv
  <2> QED BY <1>0, <2>1, <2>2, <2>4
          DEF IInv, RowInv, LastInv, DeployedInv, DeployedIsComplete, DatabaseCredentialsAgree
<1> QED
  BY <1>1, <1>2, <1>3, <1>4, <1>5, <1>6, <1>7, <1>8, <1>9, <1>10, <1>11, <1>12, <1>13, <1>14
  DEF Next

LEMMA InvariantInit ==
  Init => IInv
BY TypeInit, Names
DEF Init, IInv, ProvisionInv, RowInv, LastInv, DeployedInv, DeployedIsComplete,
    DatabaseCredentialsAgree

\* An environment that was provisioned, and at most patched since then, has all of its
\* objects and both Secrets in a namespace that stays, through every failure, crash and
\* request (provisionEnv, decommissionEnv).
THEOREM DeployedIsAlwaysComplete ==
  Spec => []DeployedIsComplete
<1>1. Spec => []IInv
  BY InvariantInit, Invariant, PTL DEF Spec
<1>2. IInv => DeployedIsComplete
  BY DEF IInv, DeployedInv
<1> QED BY <1>1, <1>2, PTL

\* ... and its Secret has the password that PostgreSQL knows (provisionPostgres).
THEOREM DatabaseCredentialsAlwaysAgree ==
  Spec => []DatabaseCredentialsAgree
<1>1. Spec => []IInv
  BY InvariantInit, Invariant, PTL DEF Spec
<1>2. IInv => DatabaseCredentialsAgree
  BY DEF IInv, DeployedInv
<1> QED BY <1>1, <1>2, PTL

---------------------------------------------------------------------------
(***************************************************************************)
(* What a decommission leaves behind                                       *)
(***************************************************************************)

\* What its steps do for the environment, and to the namespace.
LEMMA EffectOfDecommission ==
  ASSUME TypeInv, Effect, task = "decommission"
  PROVE  /\ objects'[env] \subseteq objects[env]
         /\ Name \in Object => Name \notin objects'[env]
         /\ secret'[env]["pg"] = IF step = 5 THEN NULL ELSE secret[env]["pg"]
         /\ secret'[env]["os"] = IF step = 6 THEN NULL ELSE secret[env]["os"]
         /\ namespace' = "active" => namespace = "active" /\ step # 16
         /\ step # 15
<1>0. /\ env \in Env /\ step \in 1 .. 16 /\ Name = decommissionEnv[step]
      /\ objects \in [Env -> SUBSET Object]
      /\ secret \in [Env -> [Service -> Password \cup {NULL}]]
  BY EffectRuns, TaskSteps, Names DEF Running, Name, TypeInv, TypeOK, TaskInv
<1>0a. /\ step = 5 <=> Name = "pg_secret"
       /\ step = 6 <=> Name = "os_secret"
       /\ step = 15 <=> Name = "count"
       /\ step = 16 <=> Name = "namespace"
  BY <1>0, DecommissionAt
<1> USE <1>0, <1>0a
<1>1. CASE Delete
  BY <1>1 DEF Delete, Does, Name, Object, Namespaced, ClusterWide
<1>2. CASE DeleteSecret
  BY <1>2 DEF DeleteSecret, Does, Name, Object, Namespaced, ClusterWide, ServiceOf, Service
<1>3. CASE DropDatabase
  BY <1>3 DEF DropDatabase, Does, Name, Object, Namespaced, ClusterWide
<1>4. CASE DropAccount
  BY <1>4 DEF DropAccount, Does, Name, Object, Namespaced, ClusterWide
<1>5. CASE DeleteNamespace
  BY <1>5 DEF DeleteNamespace, Does, Name, Object, Namespaced, ClusterWide
<1>6. CASE Look
  BY <1>6 DEF Look, Does, Name, Object, Namespaced, ClusterWide, cluster
<1> QED
  BY Effect, <1>1, <1>2, <1>3, <1>4, <1>5, <1>6
  DEF Effect, Does, ApplyNamespace, Apply, ApplySecret, PutUser, PutRole

\* Nothing is given to those that have nothing, unless they are provisioned or patched.
LEMMA ClearKept ==
  ASSUME TypeInv, Effect \/ UNCHANGED cluster, NEW e \in Env, Clear(e),
         e # env \/ task = "decommission"
  PROVE  Clear(e)'
<1>1. CASE Effect /\ e # env
  BY <1>1, EffectElsewhere DEF Clear
<1>2. CASE Effect /\ e = env
  <2>1. /\ objects'[e] \subseteq objects[e]
        /\ secret'[e] \in [Service -> Password \cup {NULL}]
        /\ secret'[e]["pg"] = NULL /\ secret'[e]["os"] = NULL
    BY <1>2, EffectOfDecommission, EffectTypes DEF Clear, NoPassword, Service
  <2> QED BY <2>1 DEF Clear, NoPassword, Service
<1>3. CASE UNCHANGED cluster
  BY <1>3 DEF cluster, Clear
<1> QED BY <1>1, <1>2, <1>3

\* While the worker is at a task, nobody becomes one that nothing may be given to.
LEMMA ClearWhileWorking ==
  ASSUME TypeInv, ClearInv, task # NULL, Effect \/ UNCHANGED cluster,
         UNCHANGED orphaned,
         \A e \in Env: status'[e] \in {NULL, "decommissioned"} => status'[e] = status[e],
         task' = NULL \/ UNCHANGED <<status, task, env>>
  PROVE  ClearInv'
<1>1. ASSUME NEW e \in Env, status'[e] = "decommissioned" \/ (status'[e] = NULL /\ e \notin orphaned')
      PROVE  Clear(e)'
  <2>1. Clear(e) /\ (e # env \/ task = "decommission")
    BY <1>1, TaskSteps DEF ClearInv, TypeInv, TypeOK
  <2> QED BY <2>1, ClearKept
<1> QED BY <1>1, Names DEF ClearInv

\* Where the handlers of a decommission carry on: what they skip is not in Kubernetes.
LEMMA DecommissionCaught ==
  ASSUME TypeInv, Running, task = "decommission", Caught, task' = "decommission"
  PROVE  \/ step' = 1
         \/ step = 1 /\ step' = 2
         \/ step \in {11, 12} /\ step' = 13
         \/ step \in {13, 14} /\ step' = 15
<1>1. step \in 1 .. 16 /\ Name = decommissionEnv[step]
  BY TaskSteps, Names DEF Running, Name, TypeInv, TypeOK, TaskInv
<1>2. CASE Name \in DOMAIN Swallowed[task]
  <2>1. Name \in {"scale", "drop_database", "drop_role", "os_roles", "os_user"}
    BY <1>2 DEF Swallowed
  <2>2. GoTo(Swallowed[task][Name])
    BY <1>2 DEF Caught
  <2>3. CASE step = 1
    <3>1. Swallowed[task][Name] = "deployment"
      BY <1>1, <2>3, DecommissionAt DEF Swallowed
    <3>2. (CHOOSE i \in 1 .. 16: decommissionEnv[i] = "deployment") = 2
      BY DecommissionAt
    <3> QED BY <2>2, <2>3, <3>1, <3>2, TaskSteps DEF GoTo
  <2>4. CASE step \in {11, 12}
    <3>1. Swallowed[task][Name] = "os_roles"
      BY <1>1, <2>4, DecommissionAt DEF Swallowed
    <3>2. (CHOOSE i \in 1 .. 16: decommissionEnv[i] = "os_roles") = 13
      BY DecommissionAt
    <3> QED BY <2>2, <2>4, <3>1, <3>2, TaskSteps DEF GoTo
  <2>5. CASE step \in {13, 14}
    <3>1. Swallowed[task][Name] = "count"
      BY <1>1, <2>5, DecommissionAt DEF Swallowed
    <3>2. (CHOOSE i \in 1 .. 16: decommissionEnv[i] = "count") = 15
      BY DecommissionAt
    <3> QED BY <2>2, <2>5, <3>1, <3>2, TaskSteps DEF GoTo
  <2> QED BY <1>1, <2>1, <2>3, <2>4, <2>5, DecommissionAt
<1>3. CASE NextAttempt
  BY <1>3, Names, TaskSteps DEF NextAttempt, PutDown
<1> QED BY <1>2, <1>3 DEF Caught

\* A decommission that is done has deleted everything in Kubernetes.
LEMMA DecommissionDone ==
  ASSUME TypeInv, DecommissionInv, task = "decommission", step > 16
  PROVE  Clear(env)
<1>1. env \in Env /\ secret[env] \in [Service -> Password \cup {NULL}]
  BY Names, TaskSteps DEF TypeInv, TypeOK, TaskInv
<1>2. ASSUME NEW k \in Kubernetes PROVE k \notin objects[env]
  <2>1. \E i \in 1 .. 16: decommissionEnv[i] = k
    BY DEF decommissionEnv, Kubernetes, Namespaced, ClusterWide
  <2> QED BY <2>1 DEF DecommissionInv, TypeInv, TypeOK
<1>3. secret[env] = NoPassword
  BY <1>1 DEF DecommissionInv, NoPassword, Service, TypeInv, TypeOK
<1> QED BY <1>2, <1>3 DEF Clear

\* What the steps of a task do to what is left of a decommission.
LEMMA CleanupWorks ==
  ASSUME TypeInv, CleanupInv, Step \/ Count \/ Fails \/ ReadFails \/ DeleteIgnored \/ Refused
  PROVE  CleanupInv'
<1>0. /\ status \in [Env -> Status \cup {NULL}]
      /\ NULL \notin {"provision", "patch", "decommission", "decommissioned", "failed"}
  BY Names DEF TypeInv, TypeOK, Status
<1> USE DEF CleanupInv, tables, history
<1>1. CASE Step
  <2>1. /\ Effect /\ Running /\ task # NULL /\ step' = step + 1
        /\ UNCHANGED <<status, task, env, orphaned>>
    BY <1>1, EffectRuns DEF Step, NextStep, Running
  <2>2. ClearInv'
    BY <2>1, ClearWhileWorking
  <2>3. ASSUME task = "decommission"
        PROVE  DecommissionInv' /\ NamespaceInv'
    <3>1. step \in 1 .. 16 /\ Name = decommissionEnv[step]
      BY <2>1, <2>3, TaskSteps DEF Running, Name, TypeInv, TypeOK, TaskInv
    <3>2. ASSUME NEW i \in 1 .. 16, i < step', decommissionEnv[i] \in Kubernetes
          PROVE  decommissionEnv[i] \notin objects'[env]
      <4>1. i < step \/ i = step
        BY <2>1, <3>1, <3>2
      <4>2. decommissionEnv[i] \in Object
        BY <3>2 DEF Kubernetes, Object
      <4> QED BY <2>1, <2>3, <3>1, <3>2, <4>1, <4>2, EffectOfDecommission DEF DecommissionInv
    <3>3. DecommissionInv'
      BY <2>1, <2>3, <3>1, <3>2, EffectOfDecommission DEF DecommissionInv
    <3>4. NamespaceInv'
      BY <2>1, <2>3, <3>1, EffectOfDecommission DEF NamespaceInv
    <3> QED BY <3>3, <3>4
  <2> QED BY <2>1, <2>2, <2>3 DEF DecommissionInv, NamespaceInv
<1>2. CASE Count
  <2>1. /\ UNCHANGED <<status, cluster, task, env, orphaned>> /\ task = "decommission"
        /\ step' = IF RemainingActiveEnvs = {} THEN step + 1 ELSE step + 2
        /\ step = 15
    BY <1>2, DecommissionAt, TaskSteps DEF Count, Does, Running, TypeInv, TypeOK, TaskInv
  <2>2. ClearInv'
    BY <1>0, <2>1, ClearWhileWorking
  <2>3. DecommissionInv'
    <3>1. \A i \in 1 .. 16: i < step' /\ decommissionEnv[i] \in Kubernetes => i < step
      BY <2>1, DecommissionAt DEF Kubernetes, Namespaced, ClusterWide
    <3> QED BY <2>1, <3>1 DEF DecommissionInv, cluster
  <2>4. NamespaceInv'
    <3>1. CASE RemainingActiveEnvs = {}
      <4>1. \A e \in Env \ {env}: status[e] \in {NULL, "decommissioned"}
        BY <3>1 DEF RemainingActiveEnvs, Active
      <4> QED BY <2>1, <3>1, <4>1 DEF NamespaceInv, ClearInv, Clear, cluster
    <3>2. CASE RemainingActiveEnvs # {}
      <4>1. RemainingActiveEnvs' = RemainingActiveEnvs
        BY <2>1 DEF RemainingActiveEnvs, Active
      <4> QED BY <2>1, <3>2, <4>1 DEF NamespaceInv
    <3> QED BY <3>1, <3>2
  <2> QED BY <2>2, <2>3, <2>4
<1>3. CASE Fails \/ Refused
  <2>1. /\ Running /\ task # NULL /\ Caught /\ (Effect \/ UNCHANGED cluster)
        /\ UNCHANGED orphaned
    BY <1>3 DEF Fails, Refused, Running, Caught
  <2>2. /\ \A e \in Env: status'[e] \in {NULL, "decommissioned"} => status'[e] = status[e]
        /\ task' = NULL \/ UNCHANGED <<status, task, env>>
    BY <1>0, <2>1, AttemptEnds DEF Caught
  <2>3. ClearInv'
    BY <2>1, <2>2, ClearWhileWorking
  <2>4. ASSUME task' = "decommission"
        PROVE  DecommissionInv' /\ NamespaceInv'
    <3>1. task = "decommission" /\ env' = env
      BY <1>0, <2>2, <2>4
    <3>2. \/ step' = 1
          \/ step = 1 /\ step' = 2
          \/ step \in {11, 12} /\ step' = 13
          \/ step \in {13, 14} /\ step' = 15
      BY <2>1, <2>4, <3>1, DecommissionCaught
    <3>3. \A i \in 1 .. 16: i < step' /\ decommissionEnv[i] \in Kubernetes => i < step
      BY <3>2, DecommissionAt DEF Kubernetes, Namespaced, ClusterWide
    <3>4. /\ objects'[env] \subseteq objects[env]
          /\ secret[env]["pg"] = NULL => secret'[env]["pg"] = NULL
          /\ secret[env]["os"] = NULL => secret'[env]["os"] = NULL
      BY <2>1, <3>1, EffectOfDecommission DEF cluster
    <3>5. DecommissionInv'
      BY <3>1, <3>2, <3>3, <3>4 DEF DecommissionInv
    <3> QED BY <3>2, <3>5 DEF NamespaceInv
  <2> QED BY <2>3, <2>4 DEF DecommissionInv, NamespaceInv
<1>4. CASE ReadFails
  <2>1. /\ UNCHANGED <<status, cluster, task, env, orphaned>> /\ task = "provision"
    BY <1>4 DEF ReadFails, Does, NextStep
  <2>2. ClearInv'
    BY <1>0, <2>1, ClearWhileWorking
  <2> QED BY <2>1, <2>2 DEF DecommissionInv, NamespaceInv
<1>5. CASE DeleteIgnored
  <2>1. /\ UNCHANGED <<status, cluster, task, env, orphaned>> /\ task = "decommission"
        /\ step \in 1 .. 16 /\ step' = step + 1
        /\ decommissionEnv[step] \in {"os_roles", "os_user"}
    BY <1>5, TaskSteps, Names
    DEF DeleteIgnored, Does, Running, NextStep, TypeInv, TypeOK, TaskInv
  <2>2. step \in {13, 14}
    BY <2>1, DecommissionAt
  <2>3. \A i \in 1 .. 16: i < step' /\ decommissionEnv[i] \in Kubernetes => i < step
    BY <2>1, <2>2, DecommissionAt DEF Kubernetes, Namespaced, ClusterWide
  <2>4. ClearInv'
    BY <1>0, <2>1, ClearWhileWorking
  <2> QED BY <2>1, <2>2, <2>3, <2>4 DEF DecommissionInv, NamespaceInv, cluster
<1> QED BY <1>1, <1>2, <1>3, <1>4, <1>5

\* What the end of a task does to it: the environment of a decommission is no orphan any
\* more, as nothing of it is left.
LEMMA CleanupEnds ==
  ASSUME TypeInv, CleanupInv, Finish \/ Purge \/ EndTask \/ EndFails \/ Crash
  PROVE  CleanupInv'
<1>0. /\ status \in [Env -> Status \cup {NULL}] /\ orphaned \subseteq Env
      /\ task # NULL => env \in Env
      /\ NULL \notin {"provision", "patch", "decommission", "decommissioned", "deployed", "failed"}
  BY Names DEF TypeInv, TypeOK, TaskInv, Status
<1> USE DEF CleanupInv, tables, history
<1>1. CASE Finish
  <2>1. /\ UNCHANGED <<cluster, task, env>> /\ env \in Env /\ task \in DOMAIN Steps
        /\ step = Len(Steps[task]) + 1 /\ step' = step + 1
        /\ \A e \in Env \ {env}: status'[e] = status[e]
        /\ status'[env] = IF status[env] = NULL THEN NULL
                          ELSE IF task = "decommission" THEN "decommissioned" ELSE "deployed"
        /\ orphaned' = IF task = "decommission" THEN orphaned \ {env} ELSE orphaned
    BY <1>0, <1>1 DEF Finish, Done, SetStatus, TypeInv, TypeOK
  <2>2. task = "decommission" => Clear(env) /\ step = 17
    BY <1>1, <2>1, AtTheEnd, DecommissionDone DEF Finish
  <2>3. ClearInv'
    <3>1. \A e \in Env: Clear(e)' <=> Clear(e)
      BY <2>1 DEF Clear, cluster
    <3> QED BY <1>0, <2>1, <2>2, <3>1 DEF ClearInv
  <2>4. DecommissionInv' /\ NamespaceInv'
    BY <2>1, <2>2 DEF DecommissionInv, NamespaceInv, cluster
  <2> QED BY <2>3, <2>4
<1>2. CASE Purge
  <2>1. /\ UNCHANGED <<cluster, task, env>> /\ env \in Env /\ task = "decommission"
        /\ step = 18 /\ step' = 19
        /\ status' = [status EXCEPT ![env] = NULL]
        /\ orphaned' = orphaned \cup ({env} \cap Active)
    BY <1>0, <1>2, TaskSteps DEF Purge, DeleteRow
  <2>2. ClearInv'
    <3>1. \A e \in Env: Clear(e)' <=> Clear(e)
      BY <2>1 DEF Clear, cluster
    <3> QED BY <1>0, <2>1, <3>1 DEF ClearInv, Active
  <2>3. DecommissionInv' /\ NamespaceInv'
    BY <2>1 DEF DecommissionInv, NamespaceInv, cluster
  <2> QED BY <2>2, <2>3
<1>3. CASE EndTask \/ Crash
  BY <1>0, <1>3
  DEF EndTask, Crash, PutDown, cluster, DecommissionInv, ClearInv, NamespaceInv, Clear
<1>4. CASE EndFails
  <2>1. task # NULL /\ NextAttempt /\ UNCHANGED cluster /\ UNCHANGED orphaned
    BY <1>4 DEF EndFails, Done
  <2>2. /\ task' = NULL \/ (step' = 1 /\ UNCHANGED <<status, task, env>>)
        /\ \A e \in Env: status'[e] \in {NULL, "decommissioned"} => status'[e] = status[e]
    BY <1>0, <2>1, AttemptEnds
  <2>3. ClearInv'
    BY <2>1, <2>2, ClearWhileWorking
  <2> QED BY <1>0, <2>1, <2>2, <2>3 DEF DecommissionInv, NamespaceInv
<1> QED BY <1>1, <1>2, <1>3, <1>4

LEMMA CleanupStep ==
  ASSUME TypeInv, CleanupInv, [Next]_vars
  PROVE  CleanupInv'
<1>0. /\ status \in [Env -> Status \cup {NULL}]
      /\ task # NULL => env \in Env
      /\ NULL \notin {"provision", "patch", "decommission", "decommissioned"}
  BY Names DEF TypeInv, TypeOK, TaskInv, Status
<1> USE DEF CleanupInv, tables, history
<1>1. CASE UNCHANGED vars
  BY <1>1 DEF vars, requests, cluster, worker, DecommissionInv, ClearInv, NamespaceInv, Clear,
       RemainingActiveEnvs, Active
<1>2. ASSUME NEW e \in Env, BeginProvision(e) \/ BeginPatch(e) \/ BeginDecommission(e)
      PROVE  CleanupInv'
  <2>1. /\ UNCHANGED <<cluster, orphaned>> /\ step' = 1 /\ env' = e
        /\ \E s \in {"provisioning", "reconfiguring", "decommissioning"}:
             status' = [status EXCEPT ![e] = s]
    BY <1>2 DEF BeginProvision, BeginPatch, BeginDecommission, Begin
  <2>2. status'[e] \notin {NULL, "decommissioned"} /\ \A f \in Env \ {e}: status'[f] = status[f]
    BY <1>0, <2>1, TenantAssumption DEF Status
  <2>3. ClearInv'
    BY <2>1, <2>2 DEF ClearInv, Clear, cluster
  <2> QED BY <2>1, <2>3 DEF DecommissionInv, NamespaceInv
<1>3. ASSUME NEW e \in Env, Recover(e)
      PROVE  CleanupInv'
  <2>1. /\ UNCHANGED <<cluster, worker, orphaned>> /\ task = NULL
        /\ status'[e] \notin {NULL, "decommissioned"} /\ \A f \in Env \ {e}: status'[f] = status[f]
    BY <1>0, <1>3, TenantAssumption DEF Recover, Status
  <2> QED BY <1>0, <2>1 DEF ClearInv, Clear, cluster, worker, DecommissionInv, NamespaceInv
<1>4. CASE Request
  <2>1. /\ UNCHANGED <<cluster, worker>> /\ orphaned \subseteq orphaned'
        /\ \A e \in Env:
             /\ status'[e] = "decommissioned" => status[e] = "decommissioned"
             /\ status'[e] = NULL => status[e] \in {NULL, "decommissioned"} \/ e \in orphaned'
    BY <1>4, RequestRows
  <2>2. ClearInv'
    <3>1. \A e \in Env: Clear(e)' <=> Clear(e)
      BY <2>1 DEF Clear, cluster
    <3> QED BY <1>0, <2>1, <3>1 DEF ClearInv, worker
  <2>3. DecommissionInv'
    BY <2>1 DEF DecommissionInv, cluster, worker
  <2>4. NamespaceInv'
    <3>1. RemainingActiveEnvs \subseteq RemainingActiveEnvs' \cup (orphaned' \ {env})
      BY <2>1 DEF RemainingActiveEnvs, Active, worker
    <3> QED BY <2>1, <3>1 DEF NamespaceInv, Clear, cluster, worker
  <2> QED BY <2>2, <2>3, <2>4
<1>5. CASE NamespaceGone
  <2>1. /\ UNCHANGED <<status, worker, orphaned>> /\ namespace' = "absent"
        /\ \A e \in Env: /\ objects'[e] \subseteq objects[e]
                         /\ secret'[e] = NoPassword
    BY <1>5 DEF NamespaceGone
  <2>2. \A e \in Env: Clear(e) => Clear(e)'
    BY <2>1 DEF Clear, NoPassword
  <2>3. ClearInv'
    BY <2>1, <2>2 DEF ClearInv, worker
  <2>4. DecommissionInv'
    BY <1>0, <2>1 DEF DecommissionInv, worker, NoPassword, Service
  <2>5. NamespaceInv'
    BY <2>1, <2>2 DEF NamespaceInv, worker
  <2> QED BY <2>3, <2>4, <2>5
<1> QED
  BY <1>1, <1>2, <1>3, <1>4, <1>5, CleanupWorks, CleanupEnds DEF Next

LEMMA CleanupInit ==
  Init => CleanupInv
BY Names
DEF Init, CleanupInv, DecommissionInv, ClearInv, NamespaceInv, Clear

\* Nothing in Kubernetes outlives the decommission of its environment, whatever was
\* swallowed or repeated (decommissionEnv).
THEOREM DecommissionedAlwaysHasNoObjects ==
  Spec => []DecommissionedHasNoObjects
<1>1. Spec => [](TypeInv /\ CleanupInv)
  BY TypeInit, TypeStep, CleanupInit, CleanupStep, PTL DEF Spec
<1>2. CleanupInv => DecommissionedHasNoObjects
  BY DEF CleanupInv, ClearInv, Clear, DecommissionedHasNoObjects
<1> QED BY <1>1, <1>2, PTL

\* The namespace is deleted under nobody else, although rows come and go after
\* getActiveEnvCountForOrg has counted them, unless a row was deleted under its environment.
THEOREM NamespaceAlwaysServesOthers ==
  Spec => NamespaceServesOthers
<1>1. ASSUME TypeInv, CleanupInv, [Next]_vars,
             namespace = "active", namespace' = "terminating",
             NEW e \in Env \ {env}, e \notin orphaned
      PROVE  objects[e] \cap Namespaced = {}
  <2>1. namespace' # namespace /\ namespace' # "active"
    BY <1>1
  <2>2. Effect
    BY <1>1, <2>1, RequestRows
    DEF Next, BeginProvision, BeginPatch, BeginDecommission, Begin, Recover, Step, Count, Fails,
        ReadFails, DeleteIgnored, Refused, Finish, Purge, EndTask, EndFails, Crash, NamespaceGone,
        vars, cluster
  <2>3. task = "decommission" /\ step = 16
    BY <1>1, <2>1, <2>2, EffectElsewhere
  <2>4. Clear(e)
    BY <1>1, <2>3 DEF CleanupInv, NamespaceInv
  <2> QED BY <2>4 DEF Clear, Kubernetes
<1>2. TypeInv /\ CleanupInv /\ [Next]_vars
        => [namespace = "active" /\ namespace' = "terminating" =>
              \A e \in Env \ {env}: objects[e] \cap Namespaced = {} \/ e \in orphaned]_vars
  BY <1>1
<1>3. Spec => [](TypeInv /\ CleanupInv)
  BY TypeInit, TypeStep, CleanupInit, CleanupStep, PTL DEF Spec
<1> QED BY <1>2, <1>3, PTL DEF Spec, NamespaceServesOthers

\* The last environment to go takes the namespace with it (decommissionEnv, its last
\* step), unless the row of another one was deleted under it.
THEOREM LastOneAlwaysCleansUp ==
  Spec => LastOneCleansUp
<1>1. ASSUME TypeInv, CleanupInv, [Next]_vars, NEW e \in Env,
             status[e] # "decommissioned", status'[e] = "decommissioned",
             \A f \in Env: status'[f] \in {NULL, "decommissioned"}, orphaned \ {e} = {}
      PROVE  namespace' # "active"
  <2>0. /\ status \in [Env -> Status \cup {NULL}]
        /\ NULL \notin {"decommissioned", "deployed"}
    BY <1>1, Names DEF TypeInv, TypeOK, Status
  <2>1. Finish
    <3>1. ASSUME Caught, Running PROVE status'[e] # "decommissioned"
      BY <1>1, <2>0, <3>1, AttemptEnds DEF Caught, Running
    <3>2. ASSUME EndFails PROVE status'[e] # "decommissioned"
      BY <1>1, <2>0, <3>2, AttemptEnds DEF EndFails, Done
    <3> QED BY <1>1, <2>0, <3>1, <3>2, RequestRows
        DEF Next, BeginProvision, BeginPatch, BeginDecommission, Begin, Recover, Step, NextStep,
            Count, Fails, ReadFails, DeleteIgnored, Refused, Purge, DeleteRow, EndTask, Crash,
            NamespaceGone, vars, tables
  <2>2. /\ status' = IF status[env] = NULL THEN status
                     ELSE [status EXCEPT ![env] = IF task = "decommission" THEN "decommissioned"
                                                  ELSE "deployed"]
        /\ namespace' = namespace /\ step = Len(Steps[task]) + 1 /\ task \in DOMAIN Steps
    BY <1>1, <2>1 DEF Finish, Done, SetStatus, cluster, TypeInv, TypeOK
  <2>3. e = env /\ task = "decommission" /\ \A f \in Env \ {env}: status'[f] = status[f]
    BY <1>1, <2>0, <2>2
  <2>4. step = 17
    BY <2>2, <2>3, TaskSteps
  <2>5. RemainingActiveEnvs = {}
    BY <1>1, <2>3 DEF RemainingActiveEnvs, Active
  <2> QED BY <1>1, <2>2, <2>3, <2>4, <2>5 DEF CleanupInv, NamespaceInv
<1>2. TypeInv /\ CleanupInv /\ [Next]_vars
        => [\A e \in Env:
              /\ status[e] # "decommissioned" /\ status'[e] = "decommissioned"
              /\ \A f \in Env: status'[f] \in {NULL, "decommissioned"}
              => namespace' # "active" \/ orphaned \ {e} # {}]_vars
  BY <1>1
<1>3. Spec => [](TypeInv /\ CleanupInv)
  BY TypeInit, TypeStep, CleanupInit, CleanupStep, PTL DEF Spec
<1> QED BY <1>2, <1>3, PTL DEF Spec, LastOneCleansUp

=============================================================================
