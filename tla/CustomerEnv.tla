---------------------------- MODULE CustomerEnv ----------------------------
(***************************************************************************)
(* The PostgreSQL tables the control plane shares: customer_env, one row   *)
(* per tenant environment, and deployment_log.  Every statement the API    *)
(* routes and the polling worker issue is one operator here, so that a     *)
(* statement is one atomic step wherever it is used.                       *)
(*                                                                         *)
(* Source: control-plane/src/worker/db-worker.ts and db/migrations.        *)
(*                                                                         *)
(* Abstractions.  The seven drift-tracked columns are one config: replicas *)
(* is kept, the other six are one member of Image.  A date column is NULL, *)
(* "future" or "elapsed".  mod_date is compared in two ways only, with     *)
(* last_applied_at (the flag modified) and with the ten-minute recovery    *)
(* cutoff (the flag stale).  deployment_log is what runWithRetry has       *)
(* logged of an action since its last 'success': the entries with a        *)
(* retry_count above 0.  Steps, recovery and drift log theirs with 0.      *)
(***************************************************************************)
EXTENDS Integers

CONSTANTS
  Env,          \* the (org_key, env_key) pairs in use
  Image,        \* values of the drift-tracked columns other than replicas
  MaxReplicas,  \* the largest replica count an operator asks for
  MAX_RETRIES,  \* attempts per run of runWithRetry
  NULL          \* SQL NULL, and the row that does not exist

Status == { "pending", "provisioning", "deployed", "reconfiguring", "stopping",
            "stopped", "failed", "decommissioning", "decommissioned" }

Action == {"provision", "patch", "decommission"}

Date == {NULL, "future", "elapsed"}

Config == [image: Image, replicas: 0 .. MaxReplicas]

Row == [ deploy_status: Status, config: Config,
         stop_date: Date, dcomm_date: Date, pending_delete: BOOLEAN,
         last_applied_config: Config \cup {NULL},
         modified: BOOLEAN,   \* mod_date > last_applied_at, or no last_applied_at
         stale: BOOLEAN ]     \* mod_date older than the recovery cutoff

\* What was logged since the last success: the largest retry_count of a 'retrying'
\* entry, and whether the last attempt has logged 'failed'.
Window == [retries: 0 .. MAX_RETRIES, failed: BOOLEAN]

ASSUME ConstantsAssumption ==
  /\ MaxReplicas \in Nat
  /\ MAX_RETRIES \in Nat \ {0}
  /\ NULL \notin Row \cup Config \cup Env
  /\ NULL \notin Status \cup Action \cup {"future", "elapsed"}

VARIABLES
  customer_env,    \* customer_env[e] is e's row, NULL when there is none
  deployment_log   \* deployment_log[e][a] is the window of action a

tables == <<customer_env, deployment_log>>

FreshWindows == [a \in Action |-> [retries |-> 0, failed |-> FALSE]]

Exists(e) == customer_env[e] # NULL

\* e's row exists and has one of the statuses in S.
StatusIn(e, S) == Exists(e) /\ customer_env[e].deploy_status \in S

TablesTypeOK ==
  /\ customer_env \in [Env -> Row \cup {NULL}]
  /\ deployment_log \in [Env -> [Action -> Window]]

TablesInit ==
  /\ customer_env = [e \in Env |-> NULL]
  /\ deployment_log = [e \in Env |-> FreshWindows]

---------------------------------------------------------------------------
(***************************************************************************)
(* Statements on customer_env.                                             *)
(***************************************************************************)

\* The BEFORE UPDATE trigger: every update moves mod_date to NOW().
Touched(r) == [r EXCEPT !.modified = TRUE, !.stale = FALSE]

\* UPDATE customer_env SET ... WHERE the key is e: nothing when there is no row.
UpdateRow(e, Set(_)) ==
  customer_env' = IF Exists(e)
                  THEN [customer_env EXCEPT ![e] = Touched(Set(customer_env[e]))]
                  ELSE customer_env

\* UPDATE customer_env SET ... WHERE Cond: every row that satisfies it.
UpdateWhere(Cond(_), Set(_)) ==
  customer_env' = [e \in Env |-> IF Exists(e) /\ Cond(customer_env[e])
                                 THEN Touched(Set(customer_env[e]))
                                 ELSE customer_env[e]]

InsertRow(e, config, stop_date) ==
  customer_env' = [customer_env EXCEPT ![e] =
    [ deploy_status |-> "pending", config |-> config, stop_date |-> stop_date,
      dcomm_date |-> NULL, pending_delete |-> FALSE,
      last_applied_config |-> NULL, modified |-> TRUE, stale |-> FALSE ]]

setEnvStatus(e, status) ==
  LET Set(r) == [r EXCEPT !.deploy_status = status] IN UpdateRow(e, Set)

\* Mutant: the baseline is copied from the row instead of the applied config.
BaselineFromRow(e, config) ==
  customer_env' = IF Exists(e)
    THEN [customer_env EXCEPT ![e] = [@ EXCEPT !.last_applied_config = customer_env[e].config,
                                               !.modified = FALSE, !.stale = FALSE]]
    ELSE customer_env

\* last_applied_at = NOW(), and the trigger gives mod_date the same instant.
updateLastAppliedConfig(e, config) ==
  customer_env' = IF Exists(e)
    THEN [customer_env EXCEPT ![e] = [@ EXCEPT !.last_applied_config = config,
                                               !.modified = FALSE, !.stale = FALSE]]
    ELSE customer_env

applyElapsedStops ==
  LET Cond(r) == /\ r.deploy_status = "deployed"
                 /\ r.stop_date = "elapsed"
                 /\ r.config.replicas > 0
      Set(r) == [r EXCEPT !.config.replicas = 0]
  IN UpdateWhere(Cond, Set)

\* Mutant: nobody takes a stuck 'provisioning' row back.
NoProvisioningRecovery == UNCHANGED customer_env

\* The 'retrying' row this and the next two insert carries retry_count 0, which
\* leaves every window as it was.
recoverStuckProvisioningRows ==
  LET Cond(r) == r.deploy_status = "provisioning" /\ r.stale
      Set(r) == [r EXCEPT !.deploy_status = "pending"]
  IN UpdateWhere(Cond, Set)

recoverStuckReconfiguringRows ==
  LET Cond(r) == r.deploy_status = "reconfiguring" /\ r.stale
      Set(r) == [r EXCEPT !.deploy_status = "deployed"]
  IN UpdateWhere(Cond, Set)

\* The WHERE clause of the drift query.
Drifted(r) ==
  /\ r.deploy_status \in {"deployed", "stopped"}
  /\ r.last_applied_config # NULL
  /\ r.modified
  /\ r.config # r.last_applied_config

\* Mutant: drift of a stopped environment is not looked for.
DriftOfDeployedOnly ==
  LET Cond(r) == Drifted(r) /\ r.deploy_status = "deployed"
      Set(r) == [r EXCEPT !.deploy_status = "reconfiguring"]
  IN UpdateWhere(Cond, Set)

detectAndEnqueueReconfigs ==
  LET Set(r) == [r EXCEPT !.deploy_status = "reconfiguring"]
  IN UpdateWhere(Drifted, Set)

\* One transaction: the log rows first, then the environment's row.
hardDeleteEnv(e) ==
  /\ customer_env' = [customer_env EXCEPT ![e] = NULL]
  /\ deployment_log' = [deployment_log EXCEPT ![e] = FreshWindows]

---------------------------------------------------------------------------
(***************************************************************************)
(* Statements on deployment_log.  Its foreign key names customer_env, so   *)
(* an insert needs the row; callers say what happens when it is gone.      *)
(***************************************************************************)

\* Mutant: every run of runWithRetry starts from zero.
ForgottenRetries(e, action) == 0

getRetryCount(e, action) == deployment_log[e][action].retries

logSuccess(e, action) ==
  deployment_log' = [deployment_log EXCEPT ![e][action] = FreshWindows[action]]

logRetrying(e, action, count) ==
  deployment_log' = [deployment_log EXCEPT ![e][action].retries =
                       IF count > @ THEN count ELSE @]

\* runStep: an entry 'failed' with retry_count 0 for the step that threw, in every
\* attempt; its own error is swallowed.  What runWithRetry has logged stays.
logStepFailed(e, action) == UNCHANGED deployment_log

logFailed(e, action) ==
  deployment_log' = [deployment_log EXCEPT ![e][action].failed = TRUE]

=============================================================================
