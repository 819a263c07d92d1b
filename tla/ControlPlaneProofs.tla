------------------------- MODULE ControlPlaneProofs -------------------------
(***************************************************************************)
(* The safety theorems of ControlPlane, for any environments, images,      *)
(* request handlers and bounds.                                            *)
(*                                                                         *)
(* DecommissionedIsGone and CleanRowIsApplied speak of rows and of the     *)
(* cluster only, and so are not inductive: what the worker holds in its    *)
(* snapshot and in the task it is running decides what the next statement  *)
(* does to them.  IInv adds that.                                          *)
(***************************************************************************)
EXTENDS ControlPlaneTypes

\* After fn() has returned, and until the task ends, the cluster holds its target.
AppliedInv == pc \in Completion => deployed[env] = Target

Decommissioned(e) == StatusIn(e, {"decommissioned"})

\* A decommissioned environment has nothing running, and no task of the snapshot
\* is about it, but for the decommission that has just brought it there.
DoneInv ==
  \A e \in Env: Decommissioned(e) =>
    /\ deployed[e] = NULL
    /\ snapshot[e] # NULL => pc \in Working /\ env = e /\ action = "decommission"

\* Without database errors that decommission has only its last statements left.
FinalInv ==
  count.faults = 0 /\ pc \in Working /\ Decommissioned(env) => pc \in {"purge", "log_success"}

\* A row at rest and untouched since its baseline was recorded.
Clean(e) == StatusIn(e, {"deployed", "stopped"}) /\ ~ customer_env[e].modified

\* The worker is about to call fn(), or may be again.
MayRun == pc = "run" \/ (pc = "catch" /\ attempt < MAX_RETRIES)

\* Clean rows tell the truth; a row that waits for its patch is not clean, and
\* one whose task may still call fn() is clean only if that changes nothing.
CleanInv ==
  /\ \A e \in Env: Clean(e) => deployed[e] = customer_env[e].last_applied_config
  /\ \A e \in Env:
       snapshot[e] # NULL /\ TaskFor(snapshot[e]) = "patch" /\ ~ (pc \in Working /\ env = e)
         => ~ Clean(e)
  /\ MayRun /\ Clean(env) => deployed[env] = Target

IInv == Sound /\ AppliedInv /\ DoneInv /\ FinalInv /\ CleanInv

---------------------------------------------------------------------------
(***************************************************************************)
(* What one step does to one row                                           *)
(***************************************************************************)

\* The row keeps its status, its baseline and whether it was modified since.
SameStanding(e) ==
  /\ Exists(e)
  /\ customer_env'[e] # NULL
  /\ customer_env'[e].deploy_status = customer_env[e].deploy_status
  /\ customer_env'[e].modified = customer_env[e].modified
  /\ customer_env'[e].last_applied_config = customer_env[e].last_applied_config

\* The row was written: the trigger says so, and it did not become decommissioned.
Written(e) ==
  /\ customer_env'[e] # NULL
  /\ customer_env'[e].modified = TRUE
  /\ \/ customer_env'[e].deploy_status # "decommissioned"
     \/ Exists(e) /\ customer_env'[e].deploy_status = customer_env[e].deploy_status

RowChange(e) ==
  \/ customer_env'[e] = customer_env[e]
  \/ customer_env'[e] = NULL
  \/ SameStanding(e)
  \/ Written(e)

\* What the trigger does.
LEMMA TouchedRow ==
  ASSUME NEW r \in Row
  PROVE  /\ Touched(r) \in Row
         /\ Touched(r) # NULL
         /\ Touched(r).modified = TRUE
         /\ Touched(r).deploy_status = r.deploy_status
<1>1. Touched(r) \in Row
  BY DEF Touched, Row
<1> QED BY <1>1, ConstantsAssumption DEF Touched, Row

\* A status update writes the row, if there is one.
LEMMA SetEnvStatusChange ==
  ASSUME RowsOK, NEW e \in Env, NEW f \in Env, NEW status \in Status \ {"decommissioned"},
         setEnvStatus(f, status)
  PROVE  RowChange(e)
<1>1. CASE e = f /\ Exists(e)
  <2>1. customer_env[e] \in Row
    BY <1>1, ExistingRow
  <2>2. customer_env'[e] = Touched([customer_env[e] EXCEPT !.deploy_status = status])
    BY <1>1 DEF setEnvStatus, UpdateRow, RowsOK
  <2> QED BY <2>1, <2>2, ConstantsAssumption DEF RowChange, Written, Touched, Row
<1>2. CASE ~ (e = f /\ Exists(e))
  BY <1>2 DEF setEnvStatus, UpdateRow, RowsOK, RowChange
<1> QED BY <1>1, <1>2

\* So do the bulk updates of a cycle, each row they select.
LEMMA BulkUpdateChange ==
  ASSUME RowsOK, NEW e \in Env,
         \/ recoverStuckProvisioningRows
         \/ recoverStuckReconfiguringRows
         \/ applyElapsedStops
         \/ detectAndEnqueueReconfigs
  PROVE  RowChange(e)
<1>1. CASE ~ Exists(e)
  BY <1>1 DEF recoverStuckProvisioningRows, recoverStuckReconfiguringRows, applyElapsedStops,
     detectAndEnqueueReconfigs, UpdateWhere, RowChange
<1>2. CASE Exists(e)
  <2>1. customer_env[e] \in Row
    BY <1>2, ExistingRow
  <2>2. customer_env'[e] \in
          { customer_env[e],
            Touched([customer_env[e] EXCEPT !.deploy_status = "pending"]),
            Touched([customer_env[e] EXCEPT !.deploy_status = "deployed"]),
            Touched([customer_env[e] EXCEPT !.config.replicas = 0]),
            Touched([customer_env[e] EXCEPT !.deploy_status = "reconfiguring"]) }
    BY DEF recoverStuckProvisioningRows, recoverStuckReconfiguringRows, applyElapsedStops,
       detectAndEnqueueReconfigs, UpdateWhere
  <2> QED BY <1>2, <2>1, <2>2, ConstantsAssumption DEF RowChange, Written, Touched, Row
<1> QED BY <1>1, <1>2

\* The operator's requests.
LEMMA OperatorStepChange ==
  ASSUME RowsOK, NEW e \in Env, OperatorStep
  PROVE  RowChange(e)
<1>1. PICK f \in Env:
        \/ CreateEnv(f) \/ EditEnv(f) \/ StopEnv(f) \/ DecommissionEnv(f)
        \/ \E q \in Request: DeleteSelect(q, f)
        \/ \E q \in Request, a \in Action \cup {"stop"}: RetriggerSelect(q, f, a)
  BY DEF OperatorStep
<1>2. CASE \/ \E q \in Request: DeleteSelect(q, f)
           \/ \E q \in Request, a \in Action \cup {"stop"}: RetriggerSelect(q, f, a)
  BY <1>2 DEF DeleteSelect, RetriggerSelect, tables, RowChange
<1>3. CASE CreateEnv(f)
  BY <1>3, ConstantsAssumption DEF CreateEnv, InsertRow, RowsOK, RowChange, Written, Row
<1>4. CASE EditEnv(f) \/ StopEnv(f) \/ DecommissionEnv(f)
  <2>1. customer_env[f] \in Row
    BY <1>4, ExistingRow DEF EditEnv, StopEnv, DecommissionEnv, StatusIn
  <2>2. CASE e # f
    BY <1>4, <2>2 DEF EditEnv, StopEnv, DecommissionEnv, UpdateRow, RowsOK, RowChange
  <2>3. CASE e = f
    <3>1. PICK r \in Row: /\ r.deploy_status = customer_env[e].deploy_status
                          /\ customer_env'[e] = Touched(r)
      <4>1. CASE EditEnv(f)
        <5>1. PICK config \in Config, stop_date \in EntryDate, dcomm_date \in EntryDate:
                customer_env'[e] =
                  Touched([customer_env[e] EXCEPT !.config = config, !.stop_date = stop_date,
                                                  !.dcomm_date = dcomm_date])
          BY <2>3, <4>1 DEF EditEnv, UpdateRow, RowsOK
        <5>2. LET r == [customer_env[e] EXCEPT !.config = config, !.stop_date = stop_date,
                                               !.dcomm_date = dcomm_date]
              IN  r \in Row /\ r.deploy_status = customer_env[e].deploy_status
          BY <2>1, <2>3, EntryDateAssumption DEF Row
        <5> QED BY <5>1, <5>2
      <4>2. CASE StopEnv(f)
        <5>1. customer_env'[e] =
                Touched([customer_env[e] EXCEPT !.config.replicas = 0, !.stop_date = "elapsed"])
          BY <2>3, <4>2 DEF StopEnv, StatusIn, UpdateRow, RowsOK
        <5>2. LET r == [customer_env[e] EXCEPT !.config.replicas = 0, !.stop_date = "elapsed"]
              IN  r \in Row /\ r.deploy_status = customer_env[e].deploy_status
          <6>1. [customer_env[e].config EXCEPT !.replicas = 0] \in Config
            BY <2>1, <2>3, ConstantsAssumption DEF Row, Config
          <6> QED BY <2>1, <2>3, <6>1 DEF Row, Date
        <5> QED BY <5>1, <5>2
      <4>3. CASE DecommissionEnv(f)
        <5>1. customer_env'[e] = Touched([customer_env[e] EXCEPT !.dcomm_date = "elapsed"])
          BY <2>3, <4>3 DEF DecommissionEnv, StatusIn, UpdateRow, RowsOK
        <5>2. LET r == [customer_env[e] EXCEPT !.dcomm_date = "elapsed"]
              IN  r \in Row /\ r.deploy_status = customer_env[e].deploy_status
          BY <2>1, <2>3 DEF Row, Date
        <5> QED BY <5>1, <5>2
      <4> QED BY <1>4, <4>1, <4>2, <4>3
    <3>2. Exists(e)
      BY <1>4, <2>3 DEF EditEnv, StopEnv, DecommissionEnv, StatusIn
    <3> QED BY <3>1, <3>2, TouchedRow DEF RowChange, Written
  <2> QED BY <2>2, <2>3
<1> QED BY <1>1, <1>2, <1>3, <1>4

\* The later statements of delete and retrigger.
LEMMA RequestStepChange ==
  ASSUME Sound, NEW e \in Env, RequestStep
  PROVE  RowChange(e)
<1>1. PICK q \in Request: DeleteStep(q) \/ RetriggerStep(q)
  BY DEF RequestStep
<1> DEFINE f == requests[q].env
<1>2. RowsOK /\ ApiTypeOK
  BY TypeOKParts DEF Sound
<1>3. f \in Env /\ requests[q] \in InFlight
  BY <1>1, <1>2 DEF DeleteStep, RetriggerStep, DeletePurge, DeleteFlag, RetriggerLog, RetriggerLogFails,
     RetriggerUpdate, ApiTypeOK, InFlight
<1>4. CASE DeletePurge(q)
  BY <1>2, <1>3, <1>4 DEF DeletePurge, hardDeleteEnv, RowsOK, RowChange
<1>5. CASE RetriggerLog(q) \/ RetriggerLogFails(q)
  BY <1>5 DEF RetriggerLog, RetriggerLogFails, tables, RowChange
<1>6. CASE DeleteFlag(q) \/ RetriggerUpdate(q)
  <2>1. CASE e # f \/ ~ Exists(f)
    BY <1>2, <1>3, <1>6, <2>1 DEF DeleteFlag, RetriggerUpdate, UpdateRow, RowsOK, RowChange
  <2>2. CASE e = f /\ Exists(f)
    <3>1. customer_env[e] \in Row
      BY <1>2, <2>2, ExistingRow
    <3>2. CASE DeleteFlag(q)
      <4>1. customer_env'[e] =
              Touched([customer_env[e] EXCEPT !.pending_delete = TRUE, !.dcomm_date = "elapsed"])
        BY <1>2, <2>2, <3>2 DEF DeleteFlag, UpdateRow, RowsOK
      <4>2. LET r == [customer_env[e] EXCEPT !.pending_delete = TRUE, !.dcomm_date = "elapsed"]
            IN  r \in Row /\ r.deploy_status = customer_env[e].deploy_status
        BY <3>1 DEF Row, Date
      <4> QED BY <2>2, <4>1, <4>2, TouchedRow DEF RowChange, Written
    <3>3. CASE RetriggerUpdate(q)
      <4>1. requests[q].action \in Action \cup {"stop"}
        BY <1>3, <3>3 DEF RetriggerUpdate, InFlight
      <4>2. customer_env'[e] = Touched(Queued(customer_env[e], requests[q].action))
        BY <1>2, <2>2, <3>3 DEF RetriggerUpdate, UpdateRow, RowsOK
      <4>3. /\ Queued(customer_env[e], requests[q].action) \in Row
            /\ Queued(customer_env[e], requests[q].action).deploy_status # "decommissioned"
        BY <3>1, <4>1 DEF Queued, Action, Row, Status, Date
      <4> QED BY <4>2, <4>3, TouchedRow DEF RowChange, Written
    <3> QED BY <1>6, <3>2, <3>3
  <2> QED BY <2>1, <2>2
<1> QED BY <1>1, <1>4, <1>5, <1>6 DEF DeleteStep, RetriggerStep

\* The clock.
LEMMA ClockStepChange ==
  ASSUME RowsOK, NEW e \in Env, ClockStep
  PROVE  RowChange(e)
<1>1. PICK f \in Env: StopDateElapses(f) \/ DcommDateElapses(f) \/ RowGoesStale(f)
  BY DEF ClockStep
<1>2. CASE e # f
  BY <1>1, <1>2 DEF StopDateElapses, DcommDateElapses, RowGoesStale, RowsOK, RowChange
<1>3. CASE e = f
  <2>1. Exists(e) /\ customer_env[e] \in Row
    BY <1>1, <1>3, ExistingRow DEF StopDateElapses, DcommDateElapses, RowGoesStale, StatusIn
  <2>2. customer_env'[e] \in { [customer_env[e] EXCEPT !.stop_date = "elapsed"],
                               [customer_env[e] EXCEPT !.dcomm_date = "elapsed"],
                               [customer_env[e] EXCEPT !.stale = TRUE] }
    BY <1>1, <1>3 DEF StopDateElapses, DcommDateElapses, RowGoesStale, RowsOK
  <2>3. customer_env'[e] \in Row
    BY <2>1, <2>2 DEF Row, Date
  <2>4. customer_env'[e] # NULL
    BY <2>3, ConstantsAssumption
  <2> QED BY <2>1, <2>2, <2>4 DEF RowChange, SameStanding, Row
<1> QED BY <1>2, <1>3

\* The worker, but for the two statements that end a task's work.
LEMMA WorkerChange ==
  ASSUME Sound, NEW e \in Env, WorkerStep, ~ SetFinalStatus, ~ RecordApplied
  PROVE  RowChange(e)
<1>1. RowsOK
  BY TypeOKParts DEF Sound
<1>2. CASE RecoverProvisioning \/ RecoverReconfiguring \/ ApplyStops \/ DetectDrift
  BY <1>1, <1>2, BulkUpdateChange DEF RecoverProvisioning, RecoverReconfiguring, ApplyStops, DetectDrift
<1>3. CASE MarkInProgress
  <2>1. env \in Env
    BY <1>3 DEF MarkInProgress, Sound, TaskInv, Working
  <2> QED BY <1>1, <1>3, <2>1, SetEnvStatusChange DEF MarkInProgress, Status
<1>4. CASE MarkFailed
  <2>1. env \in Env
    BY <1>4 DEF MarkFailed, Sound, TaskInv, Working
  <2> QED BY <1>1, <1>4, <2>1, SetEnvStatusChange DEF MarkFailed, Status
<1>5. CASE PurgeRow
  BY <1>1, <1>5 DEF PurgeRow, hardDeleteEnv, RowsOK, RowChange
<1>6. CASE UNCHANGED customer_env
  BY <1>6 DEF RowChange
<1> QED BY <1>2, <1>3, <1>4, <1>5, <1>6
        DEF WorkerStep, StartCycle, FetchSnapshot, Dispatch, EndCycle, RunSucceeds, RunFails,
            LogSuccess, LogSuccessFails, LogRetrying, LogFailed, LogInCatchFails, tables

\* Every step, but for those two.
LEMMA StepChange ==
  ASSUME Sound, NEW e \in Env, [Next]_vars, ~ SetFinalStatus, ~ RecordApplied
  PROVE  RowChange(e)
<1>1. RowsOK
  BY TypeOKParts DEF Sound
<1>2. CASE Worker
  BY <1>2, WorkerChange DEF Worker
<1>3. CASE Crash \/ DbError \/ UNCHANGED vars
  BY <1>3 DEF Crash, DbError, WorkerCrash, DbErrorInTry, DbErrorOutside, vars, tables, RowChange
<1> QED BY <1>1, <1>2, <1>3, OperatorStepChange, RequestStepChange, ClockStepChange DEF Next

\* So no such step makes a row clean or decommissioned, and a row that stays clean
\* keeps its baseline.
LEMMA OnlyByTask ==
  ASSUME NEW e \in Env, RowChange(e)
  PROVE  /\ Clean(e)' => /\ Clean(e)
                         /\ customer_env'[e].last_applied_config = customer_env[e].last_applied_config
         /\ Decommissioned(e)' => Decommissioned(e)
BY DEF RowChange, SameStanding, Written, Clean, Decommissioned, StatusIn, Exists

\* Marking the work done writes the row; only a decommission decommissions it.
LEMMA SetFinalStatusChange ==
  ASSUME Sound, NEW e \in Env, SetFinalStatus
  PROVE  /\ e # env => customer_env'[e] = customer_env[e]
         /\ e = env => ~ Clean(e)' /\ (Decommissioned(e)' => action = "decommission")
<1>1. RowsOK /\ env \in Env
  BY TypeOKParts DEF Sound, SetFinalStatus, TaskInv, Working, Completion
<1>2. CASE e # env \/ ~ Exists(env)
  BY <1>1, <1>2 DEF SetFinalStatus, setEnvStatus, UpdateRow, RowsOK, Clean, Decommissioned, StatusIn, Exists
<1>3. CASE e = env /\ Exists(env)
  <2>1. customer_env[e] \in Row
    BY <1>1, <1>3, ExistingRow
  <2>2. customer_env'[e] = Touched([customer_env[e] EXCEPT !.deploy_status = FinalStatus])
    BY <1>1, <1>3 DEF SetFinalStatus, setEnvStatus, UpdateRow, RowsOK
  <2>3. FinalStatus \in Status /\ (FinalStatus = "decommissioned" => action = "decommission")
    BY DEF FinalStatus, Status
  <2>4. [customer_env[e] EXCEPT !.deploy_status = FinalStatus] \in Row
        /\ [customer_env[e] EXCEPT !.deploy_status = FinalStatus].deploy_status = FinalStatus
    BY <2>1, <2>3 DEF Row
  <2>5. customer_env'[e].modified = TRUE /\ customer_env'[e].deploy_status = FinalStatus
    BY <2>2, <2>4, TouchedRow
  <2> QED BY <1>3, <2>3, <2>5 DEF Clean, Decommissioned, StatusIn
<1> QED BY <1>2, <1>3

\* Recording the baseline makes the row clean; the baseline is the task's target.
LEMMA RecordAppliedChange ==
  ASSUME Sound, NEW e \in Env, RecordApplied
  PROVE  /\ e # env => customer_env'[e] = customer_env[e]
         /\ e = env /\ Clean(e)' => customer_env'[e].last_applied_config = Target
         /\ Decommissioned(e)' => Decommissioned(e)
<1>1. RowsOK /\ env \in Env /\ action # "decommission"
  BY TypeOKParts DEF Sound, RecordApplied, TaskInv, Working, Completion
<1>2. CASE e # env \/ ~ Exists(env)
  BY <1>1, <1>2 DEF RecordApplied, updateLastAppliedConfig, RowsOK, Clean, Decommissioned, StatusIn, Exists
<1>3. CASE e = env /\ Exists(env)
  <2>1. customer_env[e] \in Row
    BY <1>1, <1>3, ExistingRow
  <2>2. customer_env'[e] = [customer_env[e] EXCEPT !.last_applied_config = snapshot[env].config,
                                                   !.modified = FALSE, !.stale = FALSE]
    BY <1>1, <1>3 DEF RecordApplied, updateLastAppliedConfig, RowsOK
  <2>3. /\ customer_env'[e].last_applied_config = snapshot[env].config
        /\ customer_env'[e].deploy_status = customer_env[e].deploy_status
    BY <2>1, <2>2 DEF Row
  <2> QED BY <1>1, <1>3, <2>3 DEF Target, Decommissioned, StatusIn
<1> QED BY <1>2, <1>3

---------------------------------------------------------------------------
(***************************************************************************)
(* The inductive step                                                      *)
(***************************************************************************)

\* Everyone but the worker leaves the worker's variables and the cluster alone.
Bystander == UNCHANGED <<workerVars, deployed>>

LEMMA Bystanders ==
  ASSUME OperatorStep \/ RequestStep \/ ClockStep \/ UNCHANGED vars
  PROVE  Bystander
BY DEF OperatorStep, RequestStep, DeleteStep, RetriggerStep, ClockStep, vars, workerVars, Bystander

\* fn()'s result is there from its return to the end of the task.
LEMMA AppliedStep == IInv /\ [Next]_vars => AppliedInv'
<1> SUFFICES ASSUME IInv, [Next]_vars, pc' \in Completion PROVE deployed'[env'] = Target'
  BY DEF AppliedInv
<1>1. CASE Bystander
  BY <1>1 DEF Bystander, workerVars, IInv, AppliedInv, Target
<1>2. CASE RunSucceeds
  <2>1. env \in Env /\ deployed \in [Env -> Config \cup {NULL}]
    BY <1>2 DEF RunSucceeds, IInv, Sound, TaskInv, Working, TypeOK, WorkerTypeOK
  <2> QED BY <1>2, <2>1 DEF RunSucceeds, KeepTask, Target
<1>3. CASE SetFinalStatus \/ RecordApplied \/ PurgeRow
  BY <1>3 DEF SetFinalStatus, RecordApplied, PurgeRow, KeepTask, Target, IInv, AppliedInv, Completion
<1>4. CASE Crash \/ DbError
  BY <1>4 DEF Crash, DbError, WorkerCrash, DbErrorInTry, DbErrorOutside, AbandonCycle, Goto, Completion
<1>5. CASE Worker /\ ~ (RunSucceeds \/ SetFinalStatus \/ RecordApplied \/ PurgeRow)
  BY <1>5 DEF Worker, WorkerStep, StartCycle, RecoverProvisioning, RecoverReconfiguring, ApplyStops,
     DetectDrift, FetchSnapshot, Dispatch, EndCycle, MarkInProgress, RunFails, LogSuccess, LogSuccessFails,
     LogRetrying, MarkFailed, LogFailed, LogInCatchFails, AbandonCycle, NextTask, Goto, Completion
<1> QED BY <1>1, <1>2, <1>3, <1>4, <1>5, Bystanders DEF Next

\* Where the cluster changes: fn() moves the current environment to its target.
LEMMA DeployedChange ==
  ASSUME Sound, [Next]_vars, NEW e \in Env
  PROVE  \/ deployed'[e] = deployed[e]
         \/ pc = "run" /\ e = env /\ deployed'[e] = Target
<1>1. deployed \in [Env -> Config \cup {NULL}]
  BY DEF Sound, TypeOK, WorkerTypeOK
<1>2. CASE RunSucceeds \/ RunFails
  BY <1>1, <1>2 DEF RunSucceeds, RunFails
<1>3. CASE Crash
  BY <1>1, <1>3 DEF Crash, WorkerCrash
<1>4. CASE UNCHANGED deployed
  BY <1>4
<1>5. CASE Worker /\ ~ (RunSucceeds \/ RunFails)
  BY <1>4, <1>5 DEF Worker, WorkerStep, StartCycle, RecoverProvisioning, RecoverReconfiguring, ApplyStops,
     DetectDrift, FetchSnapshot, Dispatch, EndCycle, MarkInProgress, SetFinalStatus, RecordApplied,
     PurgeRow, LogSuccess, LogSuccessFails, LogRetrying, MarkFailed, LogFailed, LogInCatchFails
<1>6. CASE DbError
  BY <1>4, <1>6 DEF DbError, DbErrorInTry, DbErrorOutside
<1> QED BY <1>2, <1>3, <1>4, <1>5, <1>6, Bystanders DEF Next, Bystander

\* Where the snapshot and the task change.
LEMMA TaskChange ==
  ASSUME Sound, [Next]_vars, NEW e \in Env
  PROVE  \/ /\ snapshot' = snapshot /\ env' = env /\ action' = action
            /\ pc \in Working <=> pc' \in Working
         \/ pc = "dispatch" /\ snapshot' = snapshot
         \/ pc = "fetch" /\ FetchSnapshot
         \/ snapshot'[e] = NULL
         \/ pc \in Working /\ pc' \notin Working /\ env # e /\ snapshot'[e] = snapshot[e]
<1>1. snapshot \in [Env -> SnapshotRow \cup {NULL}]
  BY DEF Sound, TypeOK, WorkerTypeOK
<1>2. CASE Bystander
  BY <1>2 DEF Bystander, workerVars
<1>3. CASE StartCycle \/ RecoverProvisioning \/ RecoverReconfiguring \/ ApplyStops \/ DetectDrift
  BY <1>3 DEF StartCycle, RecoverProvisioning, RecoverReconfiguring, ApplyStops, DetectDrift, KeepTask,
     Goto, Working, Completion
<1>4. CASE FetchSnapshot
  BY <1>4 DEF FetchSnapshot
<1>5. CASE \E f \in Env: Dispatch(f)
  BY <1>5 DEF Dispatch
<1>6. CASE \/ MarkInProgress \/ RunSucceeds \/ RunFails \/ SetFinalStatus \/ RecordApplied
           \/ PurgeRow \/ LogSuccessFails \/ MarkFailed \/ LogRetrying \/ DbErrorInTry
  BY <1>6 DEF MarkInProgress, RunSucceeds, RunFails, SetFinalStatus, RecordApplied, PurgeRow,
     LogSuccessFails, MarkFailed, LogRetrying, DbErrorInTry, KeepTask, Goto, Working, Completion
<1>7. CASE LogSuccess \/ LogFailed
  BY <1>1, <1>7 DEF LogSuccess, LogFailed, NextTask, Goto, Working, Completion
<1>8. CASE EndCycle \/ LogInCatchFails \/ DbErrorOutside \/ WorkerCrash
  BY <1>8 DEF EndCycle, LogInCatchFails, DbErrorOutside, WorkerCrash, AbandonCycle
<1> QED BY <1>2, <1>3, <1>4, <1>5, <1>6, <1>7, <1>8, Bystanders
        DEF Next, Worker, WorkerStep, Crash, DbError

\* A row is clean after a step only if it was, with the same baseline, but for the
\* row whose baseline the step records.
LEMMA CleanBefore ==
  ASSUME Sound, [Next]_vars, NEW e \in Env, Clean(e)', ~ (RecordApplied /\ e = env)
  PROVE  /\ Clean(e)
         /\ customer_env'[e].last_applied_config = customer_env[e].last_applied_config
         /\ ~ (SetFinalStatus /\ e = env)
<1>1. CASE ~ SetFinalStatus /\ ~ RecordApplied
  BY <1>1, StepChange, OnlyByTask
<1>2. CASE SetFinalStatus
  BY <1>2, SetFinalStatusChange DEF Clean, StatusIn, Exists
<1>3. CASE RecordApplied
  <2>1. ~ SetFinalStatus
    BY <1>3 DEF RecordApplied, SetFinalStatus
  <2> QED BY <1>3, <2>1, RecordAppliedChange DEF Clean, StatusIn, Exists
<1> QED BY <1>1, <1>2, <1>3

\* A row is decommissioned after a step only if it was, but for the row whose
\* decommission the step completes.
LEMMA DecommissionedBefore ==
  ASSUME Sound, [Next]_vars, NEW e \in Env, Decommissioned(e)', ~ (SetFinalStatus /\ e = env)
  PROVE  Decommissioned(e)
<1>1. CASE ~ SetFinalStatus /\ ~ RecordApplied
  BY <1>1, StepChange, OnlyByTask
<1>2. CASE SetFinalStatus
  BY <1>2, SetFinalStatusChange DEF Decommissioned, StatusIn, Exists
<1>3. CASE RecordApplied
  BY <1>3, RecordAppliedChange
<1> QED BY <1>1, <1>2, <1>3

\* Decommissioned environments stay empty, and no task comes back to them.
LEMMA DoneStep == IInv /\ [Next]_vars => DoneInv'
<1> SUFFICES ASSUME IInv, [Next]_vars, NEW e \in Env, Decommissioned(e)'
             PROVE  /\ deployed'[e] = NULL
                    /\ snapshot'[e] # NULL => pc' \in Working /\ env' = e /\ action' = "decommission"
  BY DEF DoneInv
<1>1. CASE SetFinalStatus /\ e = env
  <2>1. action = "decommission"
    BY <1>1, SetFinalStatusChange DEF IInv
  <2>2. deployed[e] = NULL
    BY <1>1, <2>1 DEF SetFinalStatus, IInv, AppliedInv, Completion, Target
  <2>3. deployed' = deployed /\ env' = env /\ action' = action /\ pc' \in Working
    BY <1>1 DEF SetFinalStatus, KeepTask, Goto, Working, Completion
  <2> QED BY <1>1, <2>1, <2>2, <2>3
<1>2. CASE ~ (SetFinalStatus /\ e = env)
  <2>1. Decommissioned(e)
    BY <1>2, DecommissionedBefore DEF IInv
  <2>2. /\ deployed[e] = NULL
        /\ snapshot[e] # NULL => pc \in Working /\ env = e /\ action = "decommission"
    BY <2>1 DEF IInv, DoneInv
  <2>3. deployed'[e] = NULL
    <3>1. CASE pc = "run" /\ e = env /\ deployed'[e] = Target
      <4>1. action = "decommission"
        BY <2>2, <3>1 DEF IInv, Sound, TaskInv, Working
      <4> QED BY <3>1, <4>1 DEF Target
    <3> QED BY <2>2, <3>1, DeployedChange DEF IInv
  <2>4. ASSUME FetchSnapshot PROVE snapshot'[e] = NULL
    BY <2>1, <2>4 DEF FetchSnapshot, Decommissioned, StatusIn, Polled
  <2>5. ASSUME pc = "dispatch" PROVE pc \notin Working
    BY <2>5 DEF Working, Completion
  <2> QED BY <2>2, <2>3, <2>4, <2>5, TaskChange DEF IInv
<1> QED BY <1>1, <1>2

\* No database error, and a decommission that is done is not done again.
LEMMA FinalStep == IInv /\ [Next]_vars => FinalInv'
<1> SUFFICES ASSUME IInv, [Next]_vars, count'.faults = 0, pc' \in Working, Decommissioned(env)'
             PROVE  pc' \in {"purge", "log_success"}
  BY DEF FinalInv
<1>1. count.faults = 0 /\ ~ DbError
  <2>1. count \in Counters
    BY DEF IInv, Sound, TypeOK
  <2>2. ~ DbError
    BY <2>1 DEF DbError, Counters
  <2>3. count'.faults = count.faults
    BY <2>1, <2>2 DEF Next, OperatorStep, RequestStep, DeleteStep, RetriggerStep, ClockStep, Worker, Crash,
       vars, Counters
  <2> QED BY <2>2, <2>3
<1>2. CASE SetFinalStatus
  <2>1. env \in Env /\ env' = env
    BY <1>2 DEF SetFinalStatus, KeepTask, IInv, Sound, TaskInv, Working, Completion
  <2>2. action = "decommission"
    BY <1>2, <2>1, SetFinalStatusChange DEF IInv, Decommissioned, StatusIn, Exists
  <2> QED BY <1>2, <2>2 DEF SetFinalStatus, Goto
<1>3. CASE \E f \in Env: Dispatch(f)
  <2>1. PICK f \in Env: Dispatch(f)
    BY <1>3
  <2>2. Decommissioned(f) /\ snapshot[f] # NULL /\ pc \notin Working
    BY <2>1 DEF Dispatch, HasTask, tables, Decommissioned, StatusIn, Exists, Working, Completion
  <2> QED BY <2>2 DEF IInv, DoneInv
<1>4. CASE Bystander \/ MarkInProgress \/ RunSucceeds \/ RunFails \/ RecordApplied \/ PurgeRow
           \/ LogSuccessFails \/ MarkFailed \/ LogRetrying
  <2>1. env' = env /\ pc \in Working
    BY <1>4 DEF Bystander, workerVars, MarkInProgress, RunSucceeds, RunFails, RecordApplied, PurgeRow,
       LogSuccessFails, MarkFailed, LogRetrying, KeepTask, Working, Completion
  <2>2. env \in Env
    BY <2>1 DEF IInv, Sound, TaskInv
  <2>3. Decommissioned(env)' => customer_env'[env] # NULL
    BY <2>1 DEF Decommissioned, StatusIn, Exists
  <2>4. CASE SetFinalStatus
    BY <1>2, <2>4
  <2>5. CASE ~ SetFinalStatus
    <3>1. \A e \in Env: Decommissioned(e)' => Decommissioned(e)
      BY <2>5, DecommissionedBefore DEF IInv
    <3>2. Decommissioned(env)
      BY <2>1, <2>2, <3>1 DEF Decommissioned, StatusIn, Exists
    <3>3. pc \in {"purge", "log_success"}
      BY <1>1, <2>1, <3>2 DEF IInv, FinalInv
    <3>4. ~ PurgeRow
      BY <2>2, <2>3 DEF PurgeRow, hardDeleteEnv, IInv, Sound, TypeOK, TablesTypeOK
    <3>5. ~ LogSuccessFails
      BY <3>2 DEF LogSuccessFails, Decommissioned, StatusIn
    <3> QED BY <1>4, <3>3, <3>4, <3>5 DEF Bystander, workerVars, MarkInProgress, RunSucceeds, RunFails,
               RecordApplied, MarkFailed, LogRetrying
  <2> QED BY <2>4, <2>5
<1>5. CASE StartCycle \/ RecoverProvisioning \/ RecoverReconfiguring \/ ApplyStops \/ DetectDrift
           \/ FetchSnapshot \/ EndCycle \/ LogSuccess \/ LogFailed \/ LogInCatchFails \/ Crash
  BY <1>5 DEF StartCycle, RecoverProvisioning, RecoverReconfiguring, ApplyStops, DetectDrift, FetchSnapshot,
     EndCycle, LogSuccess, LogFailed, LogInCatchFails, Crash, WorkerCrash, AbandonCycle, NextTask, Goto,
     Working, Completion
<1> QED BY <1>1, <1>2, <1>3, <1>4, <1>5, Bystanders DEF Next, Worker, WorkerStep

\* A status update leaves no clean row.
LEMMA SetEnvStatusDirties ==
  ASSUME RowsOK, NEW e \in Env, NEW status \in Status, setEnvStatus(e, status)
  PROVE  ~ Clean(e)'
<1>1. CASE Exists(e)
  <2>1. customer_env[e] \in Row
    BY <1>1, ExistingRow
  <2>2. customer_env'[e] = Touched([customer_env[e] EXCEPT !.deploy_status = status])
    BY <1>1 DEF setEnvStatus, UpdateRow, RowsOK
  <2>3. [customer_env[e] EXCEPT !.deploy_status = status] \in Row
    BY <2>1 DEF Row
  <2> QED BY <2>2, <2>3, TouchedRow DEF Clean
<1>2. CASE ~ Exists(e)
  BY <1>2 DEF setEnvStatus, UpdateRow, Clean, StatusIn, Exists
<1> QED BY <1>1, <1>2

\* A patch is what a 'reconfiguring' row calls for, and nothing else.
LEMMA PatchNeedsReconfiguring ==
  ASSUME NEW s, TaskFor(s) = "patch"
  PROVE  s.deploy_status = "reconfiguring"
<1>1. CASE s.dcomm_date = "elapsed" \/ s.deploy_status = "decommissioning"
  BY <1>1 DEF TaskFor
<1>2. CASE ~ (s.dcomm_date = "elapsed" \/ s.deploy_status = "decommissioning")
  <2> DEFINE rest == CASE s.deploy_status = "reconfiguring" -> "patch"
                       [] s.deploy_status = "pending" -> "provision"
                       [] OTHER -> NULL
  <2>1. TaskFor(s) = rest
    BY <1>2 DEF TaskFor
  <2>2. ASSUME s.deploy_status # "reconfiguring" PROVE rest # "patch"
    BY <2>2, ConstantsAssumption DEF Action
  <2> QED BY <2>1, <2>2
<1> QED BY <1>1, <1>2

\* With attempts left, the worker runs the task it took up.
LEMMA DispatchedTask ==
  ASSUME IInv, [Next]_vars, NEW e \in Env, Dispatch(e), MayRun'
  PROVE  snapshot[e] # NULL /\ TaskFor(snapshot[e]) = "patch"
<1>1. snapshot[e] # NULL /\ action' = TaskFor(snapshot[e])
  BY DEF Dispatch, HasTask
<1>2. attempt' \in 0 .. MAX_RETRIES
  BY SoundStep DEF IInv, Sound, TypeOK, WorkerTypeOK
<1>3. CASE attempt' >= MAX_RETRIES
  <2>1. pc' = "catch"
    BY <1>3 DEF Dispatch, Goto
  <2> QED BY <1>2, <1>3, <2>1, ConstantsAssumption DEF MayRun
<1>4. CASE ~ (attempt' >= MAX_RETRIES)
  <2>1. pc' = IF action' = "patch" THEN "run" ELSE "mark"
    BY <1>4 DEF Dispatch, Goto
  <2> QED BY <1>1, <2>1 DEF MayRun
<1> QED BY <1>3, <1>4

\* Clean rows keep telling the truth.
LEMMA CleanStep == IInv /\ [Next]_vars => CleanInv'
<1> SUFFICES ASSUME IInv, [Next]_vars PROVE CleanInv'
  OBVIOUS
<1>1. ASSUME NEW e \in Env, Clean(e)'
      PROVE  deployed'[e] = customer_env'[e].last_applied_config
  <2>1. CASE RecordApplied /\ e = env
    <3>1. customer_env'[e].last_applied_config = Target
      BY <1>1, <2>1, RecordAppliedChange DEF IInv
    <3>2. deployed'[e] = Target
      BY <2>1 DEF RecordApplied, IInv, AppliedInv, Completion
    <3> QED BY <3>1, <3>2
  <2>2. CASE ~ (RecordApplied /\ e = env)
    <3>1. Clean(e) /\ customer_env'[e].last_applied_config = customer_env[e].last_applied_config
      BY <1>1, <2>2, CleanBefore DEF IInv
    <3>2. deployed[e] = customer_env[e].last_applied_config
      BY <3>1 DEF IInv, CleanInv
    <3>3. pc = "run" /\ e = env => deployed[e] = Target
      BY <3>1 DEF IInv, CleanInv, MayRun
    <3> QED BY <3>1, <3>2, <3>3, DeployedChange DEF IInv
  <2> QED BY <2>1, <2>2
<1>2. ASSUME NEW e \in Env, snapshot'[e] # NULL, TaskFor(snapshot'[e]) = "patch",
             ~ (pc' \in Working /\ env' = e), Clean(e)'
      PROVE  FALSE
  <2>1. CASE RecordApplied /\ e = env
    BY <1>2, <2>1 DEF RecordApplied, KeepTask, Goto, Working, Completion
  <2>2. CASE ~ (RecordApplied /\ e = env)
    <3>1. Clean(e)
      BY <1>2, <2>2, CleanBefore DEF IInv
    <3>2. ASSUME snapshot'[e] = snapshot[e], ~ (pc \in Working /\ env = e) PROVE FALSE
      BY <1>2, <3>1, <3>2 DEF IInv, CleanInv
    <3>3. ASSUME FetchSnapshot PROVE FALSE
      <4>1. snapshot'[e].deploy_status = customer_env[e].deploy_status
        BY <1>2, <3>3 DEF FetchSnapshot
      <4>2. snapshot'[e].deploy_status = "reconfiguring"
        BY <1>2, PatchNeedsReconfiguring
      <4> QED BY <3>1, <4>1, <4>2 DEF Clean, StatusIn
    <3>4. ASSUME pc = "dispatch" PROVE pc \notin Working
      BY <3>4 DEF Working, Completion
    <3> QED BY <1>2, <3>2, <3>3, <3>4, TaskChange DEF IInv
  <2> QED BY <2>1, <2>2
<1>3. ASSUME MayRun', Clean(env)' PROVE deployed'[env'] = Target'
  <2> DEFINE stays == env' = env /\ Target' = Target
  <2>1. RowsOK /\ (pc \in Working => env \in Env)
    BY TypeOKParts DEF IInv, Sound, TaskInv
  <2>2. CASE Bystander \/ LogRetrying
    <3>1. stays /\ deployed' = deployed /\ ~ RecordApplied
      BY <1>3, <2>2 DEF Bystander, workerVars, LogRetrying, Target, MayRun, Goto, RecordApplied
    <3>2. MayRun /\ env \in Env
      BY <1>3, <2>1, <2>2, ConstantsAssumption
         DEF Bystander, workerVars, LogRetrying, MayRun, Working, IInv, Sound, TypeOK, WorkerTypeOK
    <3>3. \A e \in Env: Clean(e)' => Clean(e)
      BY <3>1, CleanBefore DEF IInv
    <3>4. Clean(env)
      BY <1>3, <3>1, <3>2, <3>3 DEF Clean, StatusIn, Exists
    <3> QED BY <3>1, <3>2, <3>4 DEF IInv, CleanInv
  <2>3. CASE \E f \in Env: Dispatch(f)
    <3>1. PICK f \in Env: Dispatch(f)
      BY <2>3
    <3>2. TaskFor(snapshot[f]) = "patch" /\ snapshot[f] # NULL
      BY <1>3, <3>1, DispatchedTask
    <3>3. Clean(f) /\ pc \notin Working
      BY <1>3, <3>1 DEF Dispatch, tables, Clean, StatusIn, Exists, Working, Completion
    <3> QED BY <3>2, <3>3 DEF IInv, CleanInv
  <2>4. CASE MarkInProgress
    <3>1. env \in Env /\ env' = env
      BY <2>1, <2>4 DEF MarkInProgress, KeepTask, Working
    <3>2. \A e \in Env: e = env => ~ Clean(e)'
      BY <2>1, <2>4, SetEnvStatusDirties DEF MarkInProgress, Status
    <3> QED BY <1>3, <3>1, <3>2 DEF Clean, StatusIn, Exists
  <2>5. CASE RunFails
    <3>1. stays /\ env \in Env /\ MayRun
      BY <2>1, <2>5 DEF RunFails, KeepTask, Target, MayRun, Working
    <3>2. Clean(env)
      BY <1>3, <2>5, <3>1 DEF RunFails, tables, Clean, StatusIn, Exists
    <3>3. deployed[env] = Target
      BY <3>1, <3>2 DEF IInv, CleanInv
    <3> QED BY <3>1, <3>3, DeployedChange DEF IInv
  <2>6. CASE LogSuccessFails \/ DbErrorInTry
    BY <2>6 DEF LogSuccessFails, DbErrorInTry, KeepTask, Target, IInv, AppliedInv, Completion
  <2>7. CASE \/ StartCycle \/ RecoverProvisioning \/ RecoverReconfiguring \/ ApplyStops \/ DetectDrift
             \/ FetchSnapshot \/ EndCycle \/ RunSucceeds \/ SetFinalStatus \/ RecordApplied \/ PurgeRow
             \/ LogSuccess \/ MarkFailed \/ LogFailed \/ LogInCatchFails \/ WorkerCrash \/ DbErrorOutside
    BY <1>3, <2>7 DEF StartCycle, RecoverProvisioning, RecoverReconfiguring, ApplyStops, DetectDrift,
       FetchSnapshot, EndCycle, RunSucceeds, SetFinalStatus, RecordApplied, PurgeRow, LogSuccess, MarkFailed,
       LogFailed, LogInCatchFails, WorkerCrash, DbErrorOutside, AbandonCycle, NextTask, Goto, MayRun
  <2> QED BY <2>2, <2>3, <2>4, <2>5, <2>6, <2>7, Bystanders DEF Next, Worker, WorkerStep, Crash, DbError
<1> QED BY <1>1, <1>2, <1>3 DEF CleanInv

---------------------------------------------------------------------------
(***************************************************************************)
(* The theorems                                                            *)
(***************************************************************************)

\* Nothing is at rest yet, and nothing is running.
LEMMA IInvInit == Init => IInv
<1> SUFFICES ASSUME Init PROVE IInv
  OBVIOUS
<1>1. Sound
  BY SoundInit
<1>2. (\A e \in Env: ~ Exists(e) /\ snapshot[e] = NULL) /\ pc = "sleep"
  BY DEF Init, TablesInit, WorkerInit, AtRest, Exists
<1>3. AppliedInv /\ FinalInv
  BY <1>2 DEF AppliedInv, FinalInv, Working, Completion
<1>4. DoneInv /\ CleanInv
  BY <1>2 DEF DoneInv, Decommissioned, CleanInv, Clean, StatusIn, MayRun
<1> QED BY <1>1, <1>3, <1>4 DEF IInv

\* Every step keeps the invariant.
LEMMA IInvStep == IInv /\ [Next]_vars => IInv'
BY SoundStep, AppliedStep, DoneStep, FinalStep, CleanStep DEF IInv

\* The rows, the cluster and the worker's task agree in every reachable state.
THEOREM IInvAlways == Spec => []IInv
BY IInvInit, IInvStep, PTL DEF Spec

\* A row at rest that nobody has written since its baseline was recorded names
\* the config that runs, whatever was requested, failed or crashed meanwhile.
THEOREM CleanRowIsAppliedAlways == Spec => []CleanRowIsApplied
<1>1. IInv => CleanRowIsApplied
  BY DEF IInv, CleanInv, CleanRowIsApplied, Clean
<1> QED BY <1>1, IInvAlways, PTL

\* Nothing runs for a decommissioned environment.
THEOREM DecommissionedIsGoneAlways == Spec => []DecommissionedIsGone
<1>1. IInv => DecommissionedIsGone
  BY DEF IInv, DoneInv, DecommissionedIsGone, Decommissioned
<1> QED BY <1>1, IInvAlways, PTL

\* The worker deletes the row of an environment only when nothing runs for it.
THEOREM PurgeLeavesNothingAlways == Spec => []PurgeLeavesNothing
<1>1. IInv => PurgeLeavesNothing
  BY DEF IInv, AppliedInv, Completion, Target, PurgeLeavesNothing, Sound, TaskInv
<1> QED BY <1>1, IInvAlways, PTL

---------------------------------------------------------------------------
(***************************************************************************)
(* 'decommissioned' is final                                               *)
(***************************************************************************)

\* e's row is gone, or decommissioned, after the step.
Settled(e) == customer_env'[e] = NULL \/ customer_env'[e].deploy_status = "decommissioned"

\* What an operator or the clock does to a decommissioned row is about its config
\* and dates.
LEMMA OperatorSettles ==
  ASSUME RowsOK, NEW e \in Env, Decommissioned(e), OperatorStep \/ ClockStep
  PROVE  Settled(e)
<1>1. Exists(e) /\ customer_env[e] \in Row /\ customer_env[e].deploy_status = "decommissioned"
  BY ExistingRow DEF Decommissioned, StatusIn
<1>2. CASE ClockStep
  <2>1. PICK f \in Env: StopDateElapses(f) \/ DcommDateElapses(f) \/ RowGoesStale(f)
    BY <1>2 DEF ClockStep
  <2>2. customer_env'[e] \in { customer_env[e],
                               [customer_env[e] EXCEPT !.stop_date = "elapsed"],
                               [customer_env[e] EXCEPT !.dcomm_date = "elapsed"],
                               [customer_env[e] EXCEPT !.stale = TRUE] }
    BY <2>1 DEF StopDateElapses, DcommDateElapses, RowGoesStale, RowsOK
  <2> QED BY <1>1, <2>2 DEF Settled, Row
<1>3. CASE OperatorStep
  <2>1. PICK f \in Env:
          \/ CreateEnv(f) \/ EditEnv(f) \/ StopEnv(f) \/ DecommissionEnv(f)
          \/ \E q \in Request: DeleteSelect(q, f)
          \/ \E q \in Request, a \in Action \cup {"stop"}: RetriggerSelect(q, f, a)
    BY <1>3 DEF OperatorStep
  <2>2. CASE \/ \E q \in Request: DeleteSelect(q, f)
             \/ \E q \in Request, a \in Action \cup {"stop"}: RetriggerSelect(q, f, a)
    BY <1>1, <2>2 DEF DeleteSelect, RetriggerSelect, tables, Settled
  <2>3. CASE CreateEnv(f) \/ StopEnv(f) \/ DecommissionEnv(f)
    <3>1. e # f
      BY <1>1, <2>3 DEF CreateEnv, StopEnv, DecommissionEnv, StatusIn, Exists
    <3> QED BY <1>1, <2>3, <3>1
            DEF CreateEnv, InsertRow, StopEnv, DecommissionEnv, UpdateRow, RowsOK, Settled
  <2>4. CASE EditEnv(f)
    <3>1. CASE e # f
      BY <1>1, <2>4, <3>1 DEF EditEnv, UpdateRow, RowsOK, Settled
    <3>2. CASE e = f
      <4>1. PICK config \in Config, stop_date \in EntryDate, dcomm_date \in EntryDate:
              customer_env'[e] =
                Touched([customer_env[e] EXCEPT !.config = config, !.stop_date = stop_date,
                                                !.dcomm_date = dcomm_date])
        BY <2>4, <3>2 DEF EditEnv, UpdateRow, RowsOK
      <4> QED BY <1>1, <4>1 DEF Settled, Touched, Row
    <3> QED BY <3>1, <3>2
  <2> QED BY <2>1, <2>2, <2>3, <2>4
<1> QED BY <1>2, <1>3

\* A request in flight deletes or flags a decommissioned row; only a retrigger
\* would write its status.
LEMMA RequestSettles ==
  ASSUME Sound, NEW e \in Env, Decommissioned(e), RequestStep, ~ Retriggering(e)
  PROVE  Settled(e)
<1>1. PICK q \in Request: DeleteStep(q) \/ RetriggerStep(q)
  BY DEF RequestStep
<1>2. RowsOK /\ ApiTypeOK
  BY TypeOKParts DEF Sound
<1>3. customer_env[e] \in Row /\ customer_env[e].deploy_status = "decommissioned"
  BY <1>2, ExistingRow DEF Decommissioned, StatusIn
<1>4. requests[q].env \in Env
  BY <1>1, <1>2 DEF DeleteStep, RetriggerStep, DeletePurge, DeleteFlag, RetriggerLog, RetriggerLogFails,
     RetriggerUpdate, ApiTypeOK, InFlight
<1>5. CASE DeletePurge(q)
  BY <1>2, <1>3, <1>4, <1>5 DEF DeletePurge, hardDeleteEnv, RowsOK, Settled
<1>6. CASE DeleteFlag(q)
  <2>1. customer_env'[e] \in
          { customer_env[e],
            Touched([customer_env[e] EXCEPT !.pending_delete = TRUE, !.dcomm_date = "elapsed"]) }
    BY <1>2, <1>4, <1>6 DEF DeleteFlag, UpdateRow, RowsOK
  <2> QED BY <1>3, <2>1 DEF Settled, Touched, Row
<1>7. CASE RetriggerLog(q) \/ RetriggerLogFails(q)
  BY <1>3, <1>7 DEF RetriggerLog, RetriggerLogFails, tables, Settled
<1>8. CASE RetriggerUpdate(q)
  <2>1. requests[q].env # e
    BY <1>8 DEF RetriggerUpdate, Retriggering
  <2> QED BY <1>2, <1>3, <1>4, <1>8, <2>1 DEF RetriggerUpdate, UpdateRow, RowsOK, Settled
<1> QED BY <1>1, <1>5, <1>6, <1>7, <1>8 DEF DeleteStep, RetriggerStep

\* The bulk updates select other statuses, and the task in progress, which writes
\* the status of its own environment, has only its last statements left.
LEMMA WorkerSettles ==
  ASSUME IInv, NEW e \in Env, Decommissioned(e), WorkerStep, count.faults = 0
  PROVE  Settled(e)
<1>1. RowsOK /\ (pc \in Working => env \in Env)
  BY TypeOKParts DEF IInv, Sound, TaskInv
<1>2. Exists(e) /\ customer_env[e] \in Row /\ customer_env[e].deploy_status = "decommissioned"
  BY <1>1, ExistingRow DEF Decommissioned, StatusIn
<1>3. CASE RecoverProvisioning \/ RecoverReconfiguring \/ ApplyStops \/ DetectDrift
  <2>1. customer_env'[e] = customer_env[e]
    BY <1>2, <1>3 DEF RecoverProvisioning, RecoverReconfiguring, ApplyStops, DetectDrift,
       recoverStuckProvisioningRows, recoverStuckReconfiguringRows, applyElapsedStops,
       detectAndEnqueueReconfigs, Drifted, UpdateWhere
  <2> QED BY <1>2, <2>1 DEF Settled
<1>4. CASE MarkInProgress \/ SetFinalStatus \/ MarkFailed \/ RecordApplied
  <2>1. pc \in Working /\ pc \notin {"purge", "log_success"}
    BY <1>4 DEF MarkInProgress, SetFinalStatus, MarkFailed, RecordApplied, Working, Completion
  <2>2. e # env
    BY <2>1 DEF IInv, FinalInv
  <2>3. customer_env'[e] = customer_env[e]
    BY <1>1, <1>4, <2>1, <2>2 DEF MarkInProgress, SetFinalStatus, MarkFailed, RecordApplied,
       setEnvStatus, UpdateRow, updateLastAppliedConfig, RowsOK
  <2> QED BY <1>2, <2>3 DEF Settled
<1>5. CASE PurgeRow
  BY <1>1, <1>2, <1>5 DEF PurgeRow, hardDeleteEnv, RowsOK, Settled
<1>6. CASE UNCHANGED customer_env
  BY <1>2, <1>6 DEF Settled
<1> QED BY <1>3, <1>4, <1>5, <1>6
        DEF WorkerStep, StartCycle, FetchSnapshot, Dispatch, EndCycle, RunSucceeds, RunFails,
            LogSuccess, LogSuccessFails, LogRetrying, LogFailed, LogInCatchFails, tables

\* Nobody brings a decommissioned row back, but for a retrigger that read it before
\* and an attempt counted as failed after its last statement was.
THEOREM DecommissionedIsFinalAlways == Spec => DecommissionedIsFinal
<1>1. ASSUME IInv, [Next]_vars, NEW e \in Env,
             StatusIn(e, {"decommissioned"}), count.faults = 0, ~ Retriggering(e)
      PROVE  customer_env'[e] = NULL \/ customer_env'[e].deploy_status = "decommissioned"
  <2>1. RowsOK /\ Decommissioned(e) /\ Sound
    BY <1>1, TypeOKParts DEF IInv, Sound, Decommissioned
  <2>2. CASE OperatorStep \/ ClockStep
    BY <2>1, <2>2, OperatorSettles DEF Settled
  <2>3. CASE RequestStep
    BY <1>1, <2>1, <2>3, RequestSettles DEF Settled
  <2>4. CASE Worker
    BY <1>1, <2>1, <2>4, WorkerSettles DEF Worker, Settled
  <2>5. CASE Crash \/ DbError \/ UNCHANGED vars
    BY <1>1, <2>5 DEF Crash, DbError, WorkerCrash, DbErrorInTry, DbErrorOutside, vars, tables, StatusIn
  <2> QED BY <1>1, <2>2, <2>3, <2>4, <2>5 DEF Next
<1>2. IInv /\ [Next]_vars =>
        [\A e \in Env:
           StatusIn(e, {"decommissioned"}) /\ count.faults = 0 /\ ~ Retriggering(e)
             => customer_env'[e] = NULL \/ customer_env'[e].deploy_status = "decommissioned"]_vars
  BY <1>1
<1> QED BY <1>2, IInvAlways, PTL DEF Spec, DecommissionedIsFinal

=============================================================================
