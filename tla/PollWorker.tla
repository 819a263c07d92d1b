----------------------------- MODULE PollWorker -----------------------------
(***************************************************************************)
(* The polling worker: one loop in one process.  A cycle recovers stuck    *)
(* rows, applies elapsed stops, detects config drift, reads the rows that  *)
(* need attention once, and then runs one task after another from that     *)
(* snapshot, each task under runWithRetry.                                 *)
(*                                                                         *)
(* Source: control-plane/src/worker/poll.ts.                               *)
(*                                                                         *)
(* Every await is a step boundary: the API routes act between any two of   *)
(* the actions below.  What provisionEnv, kubectl apply and decommissionEnv*)
(* do to the cluster is deployed[e], the config that the Deployment of e   *)
(* was last given (NULL when it has no resources).  The order of the       *)
(* snapshot (mod_date) is left open: Dispatch may take any row of it.      *)
(***************************************************************************)
EXTENDS CustomerEnv

VARIABLES
  pc,        \* the worker's next statement
  snapshot,  \* snapshot[e]: e's row as getPendingEnvs read it, until it is handled
  env,       \* the environment of the current task
  action,    \* the action of the current task
  attempt,   \* runWithRetry's loop variable
  deployed,  \* deployed[e]: what runs in the cluster for e
  tries      \* history: tries[e][a] counts the calls of fn since the window was reset

workerVars == <<pc, snapshot, env, action, attempt>>

Recovery == {"recover_provisioning", "recover_reconfiguring", "apply_stops",
             "detect_drift", "fetch"}

\* The statements of runWithRetry inside its try, after fn() has returned.
Completion == {"finish", "record", "purge", "log_success"}

PC == {"sleep", "dispatch", "mark", "run", "catch", "log_failed"} \cup Recovery \cup Completion

\* The actions whose calls are counted.  A decommission that has failed is tried
\* again in every cycle, without end.
Counted == {"provision", "patch"}

\* The columns of a snapshot row that pollOnce and runWithRetry use.
SnapshotRow == [ deploy_status: Status, config: Config, dcomm_date: Date,
                 pending_delete: BOOLEAN ]

WorkerTypeOK ==
  /\ pc \in PC
  /\ snapshot \in [Env -> SnapshotRow \cup {NULL}]
  /\ env \in Env \cup {NULL}
  /\ action \in Action \cup {NULL}
  /\ attempt \in 0 .. MAX_RETRIES
  /\ deployed \in [Env -> Config \cup {NULL}]
  /\ tries \in [Env -> [Counted -> Nat]]

NoTries == [a \in Counted |-> 0]

\* A worker that has just started: it remembers nothing.
AtRest ==
  /\ pc = "sleep"
  /\ snapshot = [e \in Env |-> NULL]
  /\ env = NULL /\ action = NULL /\ attempt = 0

WorkerInit ==
  /\ AtRest
  /\ deployed = [e \in Env |-> NULL]
  /\ tries = [e \in Env |-> NoTries]

Goto(label) == pc' = label

\* The task is over: back to the for loop of pollOnce.
NextTask ==
  /\ Goto("dispatch")
  /\ snapshot' = [snapshot EXCEPT ![env] = NULL]
  /\ env' = NULL /\ action' = NULL /\ attempt' = 0

\* An exception reaches runLoop, which logs it and sleeps: the rest of the
\* snapshot is dropped.
AbandonCycle ==
  /\ Goto("sleep")
  /\ snapshot' = [e \in Env |-> NULL]
  /\ env' = NULL /\ action' = NULL /\ attempt' = 0

KeepTask == UNCHANGED <<snapshot, env, action, attempt>>

CountTry(e, a) == tries' = IF a \in Counted THEN [tries EXCEPT ![e][a] = @ + 1] ELSE tries

ForgetTries(e, a) == tries' = IF a \in Counted THEN [tries EXCEPT ![e][a] = 0] ELSE tries

---------------------------------------------------------------------------
(***************************************************************************)
(* pollOnce                                                                *)
(***************************************************************************)

StartCycle ==
  /\ pc = "sleep"
  /\ Goto("recover_provisioning")
  /\ KeepTask
  /\ UNCHANGED <<tables, deployed, tries>>

RecoverProvisioning ==
  /\ pc = "recover_provisioning"
  /\ recoverStuckProvisioningRows
  /\ Goto("recover_reconfiguring")
  /\ KeepTask
  /\ UNCHANGED <<deployment_log, deployed, tries>>

RecoverReconfiguring ==
  /\ pc = "recover_reconfiguring"
  /\ recoverStuckReconfiguringRows
  /\ Goto("apply_stops")
  /\ KeepTask
  /\ UNCHANGED <<deployment_log, deployed, tries>>

ApplyStops ==
  /\ pc = "apply_stops"
  /\ applyElapsedStops
  /\ Goto("detect_drift")
  /\ KeepTask
  /\ UNCHANGED <<deployment_log, deployed, tries>>

DetectDrift ==
  /\ pc = "detect_drift"
  /\ detectAndEnqueueReconfigs
  /\ Goto("fetch")
  /\ KeepTask
  /\ UNCHANGED <<deployment_log, deployed, tries>>

\* Mutants: a status too many, and one too few.
PolledWithDecommissioned ==
  {"pending", "reconfiguring", "decommissioning", "deployed", "stopped", "failed", "decommissioned"}
PolledWithoutFailed == {"pending", "reconfiguring", "decommissioning", "deployed", "stopped"}

\* The statuses pollOnce asks getPendingEnvs for.
Polled == {"pending", "reconfiguring", "decommissioning", "deployed", "stopped", "failed"}

\* The one read of the rows.  The clock is read right after it, so whether a
\* dcomm_date has elapsed is fixed for the cycle too.
FetchSnapshot ==
  /\ pc = "fetch"
  /\ snapshot' = [e \in Env |->
       IF StatusIn(e, Polled)
       THEN [ deploy_status |-> customer_env[e].deploy_status,
              config |-> customer_env[e].config,
              dcomm_date |-> customer_env[e].dcomm_date,
              pending_delete |-> customer_env[e].pending_delete ]
       ELSE NULL]
  /\ Goto("dispatch")
  /\ UNCHANGED <<tables, env, action, attempt, deployed, tries>>

\* The if-chain of pollOnce's loop: the action a snapshot row calls for.
TaskFor(s) ==
  CASE s.dcomm_date = "elapsed" \/ s.deploy_status = "decommissioning" -> "decommission"
    [] OTHER -> CASE s.deploy_status = "reconfiguring" -> "patch"
                  [] s.deploy_status = "pending" -> "provision"
                  [] OTHER -> NULL

HasTask(e) == snapshot[e] # NULL /\ TaskFor(snapshot[e]) # NULL

\* One iteration, up to and with runWithRetry's read of the retry count.  With
\* no attempt left fn() is not called: straight to marking the row failed.
Dispatch(e) ==
  /\ pc = "dispatch"
  /\ HasTask(e)
  /\ env' = e
  /\ action' = TaskFor(snapshot[e])
  /\ attempt' = getRetryCount(e, action')
  /\ Goto(IF attempt' >= MAX_RETRIES THEN "catch"
          ELSE IF action' = "patch" THEN "run" ELSE "mark")
  /\ IF pc' = "run" THEN CountTry(e, action') ELSE UNCHANGED tries
  /\ UNCHANGED <<tables, snapshot, deployed>>

EndCycle ==
  /\ pc = "dispatch"
  /\ \A e \in Env: ~ HasTask(e)
  /\ AbandonCycle
  /\ UNCHANGED <<tables, deployed, tries>>

---------------------------------------------------------------------------
(***************************************************************************)
(* runWithRetry                                                            *)
(***************************************************************************)

\* Mutant: the final status of a decommission is written before its work.
MarkDoneFirst ==
  /\ pc = "mark"
  /\ setEnvStatus(env, IF action = "provision" THEN "provisioning" ELSE "decommissioned")
  /\ Goto("run")
  /\ KeepTask
  /\ CountTry(env, action)
  /\ UNCHANGED <<deployment_log, deployed>>

\* patch keeps the status detectAndEnqueueReconfigs gave the row.
MarkInProgress ==
  /\ pc = "mark"
  /\ setEnvStatus(env, IF action = "provision" THEN "provisioning" ELSE "decommissioning")
  /\ Goto("run")
  /\ KeepTask
  /\ CountTry(env, action)
  /\ UNCHANGED <<deployment_log, deployed>>

\* What a successful fn() leaves in the cluster: the snapshot's config.
Target == IF action = "decommission" THEN NULL ELSE snapshot[env].config

\* waitForDeploymentReady wants at least one desired replica.
CanSucceed == action = "provision" => snapshot[env].config.replicas > 0

RunSucceeds ==
  /\ pc = "run"
  /\ CanSucceed
  /\ deployed' = [deployed EXCEPT ![env] = Target]
  /\ Goto("finish")
  /\ KeepTask
  /\ UNCHANGED <<tables, tries>>

\* Mutant: a decommission that throws goes on as if it had not.
FailureSwallowed ==
  /\ pc = "run"
  /\ \E result \in {deployed[env], Target}: deployed' = [deployed EXCEPT ![env] = result]
  /\ Goto(IF action = "decommission" THEN "finish" ELSE "catch")
  /\ KeepTask
  /\ UNCHANGED <<tables, tries>>

\* fn() throws: what it set out to do may or may not have been done, and the step that
\* threw has been logged.
RunFails ==
  /\ pc = "run"
  /\ \E result \in {deployed[env], Target}: deployed' = [deployed EXCEPT ![env] = result]
  /\ logStepFailed(env, action)
  /\ Goto("catch")
  /\ KeepTask
  /\ UNCHANGED <<customer_env, tries>>

FinalStatus ==
  CASE action = "decommission" -> "decommissioned"
    [] action = "patch" /\ snapshot[env].config.replicas = 0 -> "stopped"
    [] OTHER -> "deployed"

\* Mutant: pending_delete is looked at after every action.
PurgeAfterAnyAction ==
  /\ pc = "finish"
  /\ setEnvStatus(env, FinalStatus)
  /\ Goto(IF snapshot[env].pending_delete THEN "purge"
          ELSE IF action # "decommission" THEN "record" ELSE "log_success")
  /\ KeepTask
  /\ UNCHANGED <<deployment_log, deployed, tries>>

\* Mutant: only a patch records its baseline.
BaselineOfPatchesOnly ==
  /\ pc = "finish"
  /\ setEnvStatus(env, FinalStatus)
  /\ Goto(IF action = "patch" THEN "record"
          ELSE IF action = "decommission" /\ snapshot[env].pending_delete THEN "purge"
          ELSE "log_success")
  /\ KeepTask
  /\ UNCHANGED <<deployment_log, deployed, tries>>

SetFinalStatus ==
  /\ pc = "finish"
  /\ setEnvStatus(env, FinalStatus)
  /\ Goto(IF action # "decommission" THEN "record"
          ELSE IF snapshot[env].pending_delete THEN "purge" ELSE "log_success")
  /\ KeepTask
  /\ UNCHANGED <<deployment_log, deployed, tries>>

\* The snapshot's config, not the row's, becomes the drift baseline.
RecordApplied ==
  /\ pc = "record"
  /\ updateLastAppliedConfig(env, snapshot[env].config)
  /\ Goto("log_success")
  /\ KeepTask
  /\ UNCHANGED <<deployment_log, deployed, tries>>

PurgeRow ==
  /\ pc = "purge"
  /\ hardDeleteEnv(env)
  /\ Goto("log_success")
  /\ KeepTask
  /\ tries' = [tries EXCEPT ![env] = NoTries]
  /\ UNCHANGED deployed

LogSuccess ==
  /\ pc = "log_success"
  /\ Exists(env)
  /\ logSuccess(env, action)
  /\ NextTask
  /\ ForgetTries(env, action)
  /\ UNCHANGED <<customer_env, deployed>>

\* The row is gone (purged just above, or deleted by a request): the foreign key
\* refuses the log row, still inside the try.
LogSuccessFails ==
  /\ pc = "log_success"
  /\ ~ Exists(env)
  /\ Goto("catch")
  /\ KeepTask
  /\ UNCHANGED <<tables, deployed, tries>>

\* Mutant: no check for the last attempt.
RetryWithoutEnd ==
  /\ pc = "catch"
  /\ Exists(env)
  /\ logRetrying(env, action, attempt + 1)
  /\ attempt' = attempt + 1
  /\ Goto("run")
  /\ CountTry(env, action)
  /\ UNCHANGED <<customer_env, deployed, snapshot, env, action>>

LogRetrying ==
  /\ pc = "catch"
  /\ attempt < MAX_RETRIES - 1
  /\ Exists(env)
  /\ logRetrying(env, action, attempt + 1)
  /\ attempt' = attempt + 1
  /\ Goto("run")
  /\ CountTry(env, action)
  /\ UNCHANGED <<customer_env, deployed, snapshot, env, action>>

\* Mutant: the last attempt but one counts as the last.
MarkFailedEarly ==
  /\ pc = "catch"
  /\ attempt >= MAX_RETRIES - 2
  /\ setEnvStatus(env, "failed")
  /\ Goto("log_failed")
  /\ KeepTask
  /\ UNCHANGED <<deployment_log, deployed, tries>>

\* The last attempt, or none left at all.
MarkFailed ==
  /\ pc = "catch"
  /\ attempt >= MAX_RETRIES - 1
  /\ setEnvStatus(env, "failed")
  /\ Goto("log_failed")
  /\ KeepTask
  /\ UNCHANGED <<deployment_log, deployed, tries>>

LogFailed ==
  /\ pc = "log_failed"
  /\ Exists(env)
  /\ logFailed(env, action)
  /\ NextTask
  /\ UNCHANGED <<customer_env, deployed, tries>>

\* A log insert in the catch block that the foreign key refuses ends the cycle.
LogInCatchFails ==
  /\ \/ pc = "catch" /\ attempt < MAX_RETRIES - 1
     \/ pc = "log_failed"
  /\ ~ Exists(env)
  /\ AbandonCycle
  /\ UNCHANGED <<tables, deployed, tries>>

---------------------------------------------------------------------------
(***************************************************************************)
(* What goes wrong around the worker.                                      *)
(***************************************************************************)

\* A statement inside the try throws: the attempt failed.
DbErrorInTry ==
  /\ pc \in Completion
  /\ Goto("catch")
  /\ KeepTask
  /\ UNCHANGED <<tables, deployed, tries>>

\* A statement anywhere else throws: the cycle ends where it is.
DbErrorOutside ==
  /\ pc \in Recovery \cup {"dispatch", "mark", "catch", "log_failed"}
  /\ AbandonCycle
  /\ UNCHANGED <<tables, deployed, tries>>

\* The process dies, in the middle of fn() too, and a new one starts.
WorkerCrash ==
  /\ deployed' \in IF pc = "run"
                   THEN {deployed, [deployed EXCEPT ![env] = Target]}
                   ELSE {deployed}
  /\ AbandonCycle
  /\ UNCHANGED <<tables, tries>>

\* The worker's own steps, those that need no outside event.
WorkerStep ==
  \/ StartCycle
  \/ RecoverProvisioning
  \/ RecoverReconfiguring
  \/ ApplyStops
  \/ DetectDrift
  \/ FetchSnapshot
  \/ \E e \in Env: Dispatch(e)
  \/ EndCycle
  \/ MarkInProgress
  \/ RunSucceeds
  \/ RunFails
  \/ SetFinalStatus
  \/ RecordApplied
  \/ PurgeRow
  \/ LogSuccess
  \/ LogSuccessFails
  \/ LogRetrying
  \/ MarkFailed
  \/ LogFailed
  \/ LogInCatchFails

=============================================================================
