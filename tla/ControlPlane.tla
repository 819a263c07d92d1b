---------------------------- MODULE ControlPlane ----------------------------
(***************************************************************************)
(* The control plane: the API routes and the polling worker over the same  *)
(* tables, in one process (instrumentation.ts starts the worker inside the *)
(* Next.js server; kustomize/deployment.yaml runs one replica and replaces *)
(* it by Recreate, so two workers never overlap).  A crash takes the worker*)
(* and the requests in flight with it; the tables survive.                 *)
(*                                                                         *)
(* Clocks move the dates, and databases fail.  The counters bound what an  *)
(* operator and the environment do; nothing else is bounded.               *)
(***************************************************************************)
EXTENDS EnvApi, PollWorker

CONSTANTS
  MaxOps,      \* operator requests
  MaxCrashes,  \* process crashes
  MaxFaults    \* database errors seen by the worker

ASSUME BoundsAssumption == MaxOps \in Nat /\ MaxCrashes \in Nat /\ MaxFaults \in Nat

VARIABLE count \* how many of each have happened; how many retriggers reset a window and
               \* how many requests deleted a row that the worker was going to deploy

vars == <<tables, requests, workerVars, deployed, tries, count>>

Counters == [ops: Nat, crashes: Nat, faults: Nat, retriggers: Nat, purges: Nat]

TypeOK == TablesTypeOK /\ ApiTypeOK /\ WorkerTypeOK /\ count \in Counters

Init ==
  /\ TablesInit
  /\ ApiInit
  /\ WorkerInit
  /\ count = [ops |-> 0, crashes |-> 0, faults |-> 0, retriggers |-> 0, purges |-> 0]

---------------------------------------------------------------------------
\* An operator's request arrives.
OperatorStep ==
  /\ count.ops < MaxOps
  /\ count' = [count EXCEPT !.ops = @ + 1]
  /\ \E e \in Env:
       \/ CreateEnv(e)
       \/ EditEnv(e)
       \/ StopEnv(e)
       \/ DecommissionEnv(e)
       \/ \E q \in Request: DeleteSelect(q, e)
       \/ \E q \in Request, a \in Action \cup {"stop"}: RetriggerSelect(q, e, a)
  /\ UNCHANGED <<workerVars, deployed, tries>>

\* The worker has read e's row and is to deploy it, now or later in this cycle.
ToDeploy(e) == snapshot[e] # NULL /\ TaskFor(snapshot[e]) \in Counted

\* A handler in flight issues its next statement.
DeleteStep(q) ==
  /\ \/ /\ DeletePurge(q)
        /\ tries' = [tries EXCEPT ![requests[q].env] = NoTries]
        /\ count' = IF ToDeploy(requests[q].env) THEN [count EXCEPT !.purges = @ + 1] ELSE count
     \/ DeleteFlag(q) /\ UNCHANGED <<tries, count>>
  /\ UNCHANGED <<workerVars, deployed>>

RetriggerStep(q) ==
  /\ \/ /\ RetriggerLog(q)
        /\ ForgetTries(requests[q].env, requests[q].action)
        /\ count' = [count EXCEPT !.retriggers = @ + 1]
     \/ RetriggerLogFails(q) /\ UNCHANGED <<tries, count>>
     \/ RetriggerUpdate(q) /\ UNCHANGED <<tries, count>>
  /\ UNCHANGED <<workerVars, deployed>>

RequestStep == \E q \in Request: DeleteStep(q) \/ RetriggerStep(q)

---------------------------------------------------------------------------
\* Time passes.  None of these is an UPDATE: mod_date stays.
StopDateElapses(e) ==
  /\ Exists(e)
  /\ customer_env[e].stop_date = "future"
  /\ customer_env' = [customer_env EXCEPT ![e].stop_date = "elapsed"]
  /\ UNCHANGED deployment_log

DcommDateElapses(e) ==
  /\ Exists(e)
  /\ customer_env[e].dcomm_date = "future"
  /\ customer_env' = [customer_env EXCEPT ![e].dcomm_date = "elapsed"]
  /\ UNCHANGED deployment_log

\* Ten minutes without an update.  Only the two recovery queries look at it.
RowGoesStale(e) ==
  /\ StatusIn(e, {"provisioning", "reconfiguring"})
  /\ ~ customer_env[e].stale
  /\ customer_env' = [customer_env EXCEPT ![e].stale = TRUE]
  /\ UNCHANGED deployment_log

ClockStep ==
  /\ \E e \in Env: StopDateElapses(e) \/ DcommDateElapses(e) \/ RowGoesStale(e)
  /\ UNCHANGED <<requests, workerVars, deployed, tries, count>>

---------------------------------------------------------------------------
Crash ==
  /\ count.crashes < MaxCrashes
  /\ count' = [count EXCEPT !.crashes = @ + 1]
  /\ WorkerCrash
  /\ requests' = [q \in Request |-> NULL]

DbError ==
  /\ count.faults < MaxFaults
  /\ count' = [count EXCEPT !.faults = @ + 1]
  /\ DbErrorInTry \/ DbErrorOutside
  /\ UNCHANGED requests

Worker == WorkerStep /\ UNCHANGED <<requests, count>>

Next ==
  \/ OperatorStep
  \/ RequestStep
  \/ ClockStep
  \/ Worker
  \/ Crash
  \/ DbError

\* The loop keeps running, handlers finish and clocks advance.  Nobody has to
\* make a request, and nothing has to fail.
Fairness ==
  /\ WF_vars(Worker)
  /\ \A q \in Request: WF_vars(DeleteStep(q)) /\ WF_vars(RetriggerStep(q))
  /\ \A e \in Env:
       /\ WF_vars(StopDateElapses(e) /\ UNCHANGED <<requests, workerVars, deployed, tries, count>>)
       /\ WF_vars(DcommDateElapses(e) /\ UNCHANGED <<requests, workerVars, deployed, tries, count>>)
       /\ WF_vars(RowGoesStale(e) /\ UNCHANGED <<requests, workerVars, deployed, tries, count>>)

Spec == Init /\ [][Next]_vars

FairSpec == Spec /\ Fairness

---------------------------------------------------------------------------
(***************************************************************************)
(* Safety                                                                  *)
(***************************************************************************)

\* A row at rest that nobody has written since its baseline was recorded tells
\* the truth: what runs in the cluster is last_applied_config.  The worker works
\* from a snapshot while the row changes under it, so this is about recording
\* what was applied (the snapshot) and about never leaving a half-done task
\* behind a clean row, crashes and failed attempts included.
CleanRowIsApplied ==
  \A e \in Env:
    StatusIn(e, {"deployed", "stopped"}) /\ ~ customer_env[e].modified
      => deployed[e] = customer_env[e].last_applied_config

\* 'decommissioned' means that nothing runs: no provision or patch that started
\* from an older snapshot, and no attempt cut short, leaves resources behind it.
DecommissionedIsGone ==
  \A e \in Env: StatusIn(e, {"decommissioned"}) => deployed[e] = NULL

\* The worker's own purge never deletes the row of an environment that still has
\* resources, whatever the requests did to that row since the task began.
PurgeLeavesNothing == pc = "purge" => deployed[env] = NULL

\* The requests a retrigger has in flight for e, past its terminal-state guard.
Retriggering(e) ==
  \E q \in Request: /\ requests[q] # NULL
                    /\ requests[q].kind = "retrigger"
                    /\ requests[q].env = e

\* 'decommissioned' is terminal (retrigger/route.ts:102-110 refuses it): neither the
\* worker, whose snapshot may be older, nor another route brings the row back.  Two
\* exceptions: a retrigger that read the row before it was decommissioned, and an
\* attempt that is counted as failed because its last statement was.
DecommissionedIsFinal ==
  [][\A e \in Env:
       StatusIn(e, {"decommissioned"}) /\ count.faults = 0 /\ ~ Retriggering(e)
         => customer_env'[e] = NULL \/ customer_env'[e].deploy_status = "decommissioned"]_vars

\* What is known of an environment from outside: whether it has a row and in which
\* status, and whether anything runs for it.  (And whether the worker is at it.)
Standing == [e \in Env |-> IF Exists(e) THEN customer_env[e].deploy_status ELSE NULL]

Running == [e \in Env |-> deployed[e] # NULL]

Promised == INSTANCE Lifecycle WITH status <- Standing, running <- Running, busy <- env

\* Seen like that, every step is one of Lifecycle or none at all: resources come and go
\* only for the one environment the worker is at and never once it is decommissioned,
\* and the worker writes 'deployed', 'stopped' and 'decommissioned' only when they are
\* true, whatever was requested, thrown, recovered or lost since its snapshot.
KeepsLifecycle == [][Promised!Next]_(Promised!vars)

\* The retry cap survives crashes and database errors: each of them costs at most one
\* attempt more, and so does a retrigger, or a delete that finds the row replaced by a
\* new one which the worker is about to deploy.
AttemptsBounded ==
  \A e \in Env, a \in Counted:
    tries[e][a] <= MAX_RETRIES + count.crashes + count.faults + count.retriggers + count.purges

\* Drift of an environment can be detected once it is deployed: its baseline is there
\* when the task is over.  A crash or a database error between the two statements loses
\* it, and so does a retrigger of 'patch' ahead of the first provision.
DeployedHasBaseline ==
  count.crashes = 0 /\ count.faults = 0 /\ count.retriggers = 0 =>
    \A e \in Env: StatusIn(e, {"deployed", "stopped"}) /\ env # e
                   => customer_env[e].last_applied_config # NULL

\* A row becomes 'failed' by its own task only, and a provision or a patch is given up
\* only after all attempts were made, those before a crash included, however many
\* entries 'failed' its steps have left in the log by then.  (A retrigger in the middle
\* of a run resets the count; and a task whose row was deleted and created again under
\* it goes on counting for the new row.)
NoEarlySurrender ==
  [][\A e \in Env:
       ~ StatusIn(e, {"failed"}) /\ StatusIn(e, {"failed"})' =>
         /\ e = env
         /\ count.retriggers = 0 /\ count.purges = 0 /\ action \in Counted
              => tries[e][action] >= MAX_RETRIES]_vars

---------------------------------------------------------------------------
(***************************************************************************)
(* Liveness, under FairSpec                                                *)
(***************************************************************************)

InProgress == {"pending", "provisioning", "reconfiguring", "decommissioning"}

\* No environment stays in a transient status: a crash in the middle of a task,
\* an abandoned cycle or another environment's task only delays it.
InProgressEnds ==
  \A e \in Env: StatusIn(e, InProgress) ~> ~ StatusIn(e, InProgress)

\* Once the operators are quiet, drift that the query can see does not last.
VisibleDriftIsReconciled ==
  <>[] \A e \in Env: Exists(e) => ~ Drifted(customer_env[e])

DueForTeardown(e, S) == StatusIn(e, S) /\ customer_env[e].dcomm_date = "elapsed"

TornDownOrReported(e) ==
  ~ Exists(e) \/ StatusIn(e, {"decommissioned"}) \/ deployment_log[e]["decommission"].failed

\* An environment whose dcomm_date has elapsed is torn down, or the log says that
\* the decommission failed, unless the operator takes the date back.  'stopping'
\* is left out: see AnyStateIsTornDown.
DueTeardownHappens ==
  \A e \in Env:
    DueForTeardown(e, Status \ {"stopping"})
      ~> TornDownOrReported(e) \/ ~ DueForTeardown(e, Status \ {"stopping"})

---------------------------------------------------------------------------
(***************************************************************************)
(* What the comments say, and the code does not do                         *)
(***************************************************************************)

\* db-worker.ts:186-189, on "all 'deployed' environments": "Any row where the live
\* values differ from the stored snapshot is atomically transitioned to
\* 'reconfiguring'".  The query also wants mod_date > last_applied_at, and a change
\* made while a task was running is older than that.
Differs(e) ==
  /\ StatusIn(e, {"deployed"})
  /\ customer_env[e].last_applied_config # NULL
  /\ customer_env[e].config # customer_env[e].last_applied_config

DriftIsSeen == \A e \in Env: Differs(e) ~> ~ Differs(e)

\* db-worker.ts:195-197: "Rows where last_applied_config IS NULL are skipped - they have
\* never been successfully provisioned and will be handled by the pending ->
\* provisioning path instead."
SkippedWasNeverProvisioned ==
  \A e \in Env:
    StatusIn(e, {"deployed"}) /\ env # e /\ customer_env[e].last_applied_config = NULL
      => deployed[e] = NULL

\* db-worker.ts:318: "After all retries exhausted (env='failed') -> caller skips
\* re-attempting".
ExhaustedIsSkipped ==
  pc = "run" => ~ deployment_log[env][action].failed

\* poll.ts:21: "* -> decommissioning (dcomm_date elapsed, any non-decommissioned
\* state)".
AnyStateIsTornDown ==
  \A e \in Env:
    DueForTeardown(e, Status)
      ~> TornDownOrReported(e) \/ ~ DueForTeardown(e, Status)

\* 005_add_pending_delete.sql:11-13: "the polling worker will hard-delete this row
\* from the DB immediately after decommission completes".
DeletedIsPurged ==
  \A e \in Env:
    StatusIn(e, {"decommissioned"}) /\ customer_env[e].pending_delete ~> ~ Exists(e)

=============================================================================
