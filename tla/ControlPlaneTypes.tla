------------------------- MODULE ControlPlaneTypes -------------------------
(***************************************************************************)
(* Type correctness of ControlPlane, for any environments, images, request *)
(* handlers and bounds.  A statement of customer_env keeps rows rows, a    *)
(* statement of deployment_log keeps every window within MAX_RETRIES, and  *)
(* the worker's loop variable never passes it.                             *)
(***************************************************************************)
EXTENDS ControlPlane, TLAPS

RowsOK == customer_env \in [Env -> Row \cup {NULL}]

LogOK == deployment_log \in [Env -> [Action -> Window]]

---------------------------------------------------------------------------
(***************************************************************************)
(* Statements                                                              *)
(***************************************************************************)

\* A row that exists is a row: what every UPDATE by key starts from.
LEMMA ExistingRow ==
  ASSUME RowsOK, NEW e \in Env, Exists(e)
  PROVE  customer_env[e] \in Row
BY DEF RowsOK, Exists

\* The status updates of the worker keep the table well formed.
LEMMA SetEnvStatusType ==
  ASSUME RowsOK, NEW e \in Env, NEW status \in Status, setEnvStatus(e, status)
  PROVE  RowsOK'
BY ExistingRow DEF RowsOK, setEnvStatus, UpdateRow, Touched, Row

\* Recording a baseline keeps the table well formed.
LEMMA UpdateLastAppliedConfigType ==
  ASSUME RowsOK, NEW e \in Env, NEW config \in Config, updateLastAppliedConfig(e, config)
  PROVE  RowsOK'
BY ExistingRow DEF RowsOK, updateLastAppliedConfig, Row

\* The four bulk updates of a cycle keep the table well formed.
LEMMA BulkUpdateType ==
  ASSUME RowsOK,
         \/ recoverStuckProvisioningRows
         \/ recoverStuckReconfiguringRows
         \/ applyElapsedStops
         \/ detectAndEnqueueReconfigs
  PROVE  RowsOK'
<1>1. CASE recoverStuckProvisioningRows
  <2>1. customer_env' = [e \in Env |-> customer_env'[e]]
    BY <1>1 DEF recoverStuckProvisioningRows, UpdateWhere
  <2>2. ASSUME NEW e \in Env PROVE customer_env'[e] \in Row \cup {NULL}
    <3>1. CASE Exists(e)
      <4>1. customer_env[e] \in Row
        BY <3>1, ExistingRow
      <4> QED BY <1>1, <4>1 DEF recoverStuckProvisioningRows, UpdateWhere, Touched, Row, Status
    <3>2. CASE ~ Exists(e)
      BY <1>1, <3>2 DEF recoverStuckProvisioningRows, UpdateWhere, RowsOK
    <3> QED BY <3>1, <3>2
  <2> QED BY <2>1, <2>2 DEF RowsOK
<1>2. CASE recoverStuckReconfiguringRows
  <2>1. customer_env' = [e \in Env |-> customer_env'[e]]
    BY <1>2 DEF recoverStuckReconfiguringRows, UpdateWhere
  <2>2. ASSUME NEW e \in Env PROVE customer_env'[e] \in Row \cup {NULL}
    <3>1. CASE Exists(e)
      <4>1. customer_env[e] \in Row
        BY <3>1, ExistingRow
      <4> QED BY <1>2, <4>1 DEF recoverStuckReconfiguringRows, UpdateWhere, Touched, Row, Status
    <3>2. CASE ~ Exists(e)
      BY <1>2, <3>2 DEF recoverStuckReconfiguringRows, UpdateWhere, RowsOK
    <3> QED BY <3>1, <3>2
  <2> QED BY <2>1, <2>2 DEF RowsOK
<1>3. CASE applyElapsedStops
  <2>1. customer_env' = [e \in Env |-> customer_env'[e]]
    BY <1>3 DEF applyElapsedStops, UpdateWhere
  <2>2. ASSUME NEW e \in Env PROVE customer_env'[e] \in Row \cup {NULL}
    <3>1. CASE Exists(e)
      <4>1. customer_env[e] \in Row
        BY <3>1, ExistingRow
      <4>2. [customer_env[e] EXCEPT !.config.replicas = 0] \in Row
        BY <4>1, ConstantsAssumption DEF Row, Config
      <4> QED BY <1>3, <4>1, <4>2 DEF applyElapsedStops, UpdateWhere, Touched, Row
    <3>2. CASE ~ Exists(e)
      BY <1>3, <3>2 DEF applyElapsedStops, UpdateWhere, RowsOK
    <3> QED BY <3>1, <3>2
  <2> QED BY <2>1, <2>2 DEF RowsOK
<1>4. CASE detectAndEnqueueReconfigs
  <2>1. customer_env' = [e \in Env |-> customer_env'[e]]
    BY <1>4 DEF detectAndEnqueueReconfigs, UpdateWhere
  <2>2. ASSUME NEW e \in Env PROVE customer_env'[e] \in Row \cup {NULL}
    <3>1. CASE Exists(e)
      <4>1. customer_env[e] \in Row
        BY <3>1, ExistingRow
      <4>2. customer_env'[e] \in
              {customer_env[e], Touched([customer_env[e] EXCEPT !.deploy_status = "reconfiguring"])}
        BY <1>4 DEF detectAndEnqueueReconfigs, UpdateWhere
      <4> QED BY <4>1, <4>2 DEF Touched, Row, Status
    <3>2. CASE ~ Exists(e)
      BY <1>4, <3>2 DEF detectAndEnqueueReconfigs, UpdateWhere, RowsOK
    <3> QED BY <3>1, <3>2
  <2> QED BY <2>1, <2>2 DEF RowsOK
<1> QED BY <1>1, <1>2, <1>3, <1>4

\* The three kinds of log entry, and a purge, keep the windows well formed.
LEMMA LogType ==
  ASSUME LogOK, NEW e \in Env, NEW a \in Action, NEW n \in 0 .. MAX_RETRIES,
         logSuccess(e, a) \/ logRetrying(e, a, n) \/ logFailed(e, a) \/ hardDeleteEnv(e)
  PROVE  LogOK'
<1>1. FreshWindows \in [Action -> Window]
  BY ConstantsAssumption DEF FreshWindows, Window
<1>2. CASE logSuccess(e, a)
  BY <1>1, <1>2 DEF logSuccess, LogOK
<1>3. CASE logRetrying(e, a, n)
  <2> DEFINE w == [deployment_log[e][a] EXCEPT !.retries = IF n > @ THEN n ELSE @]
  <2>1. w \in Window
    BY DEF LogOK, Window
  <2>2. deployment_log' = [deployment_log EXCEPT ![e][a] = w]
    BY <1>3 DEF logRetrying, LogOK
  <2> HIDE DEF w
  <2>3. [deployment_log[e] EXCEPT ![a] = w] \in [Action -> Window]
    BY <2>1 DEF LogOK
  <2> QED BY <2>2, <2>3 DEF LogOK
<1>4. CASE logFailed(e, a)
  <2> DEFINE w == [deployment_log[e][a] EXCEPT !.failed = TRUE]
  <2>1. w \in Window
    <3>1. deployment_log[e][a] \in Window
      BY DEF LogOK
    <3> QED BY <3>1 DEF Window
  <2>2. deployment_log' = [deployment_log EXCEPT ![e][a] = w]
    BY <1>4 DEF logFailed, LogOK
  <2> HIDE DEF w
  <2>3. [deployment_log[e] EXCEPT ![a] = w] \in [Action -> Window]
    BY <2>1 DEF LogOK
  <2> QED BY <2>2, <2>3 DEF LogOK
<1>5. CASE hardDeleteEnv(e)
  BY <1>1, <1>5 DEF hardDeleteEnv, LogOK
<1> QED BY <1>2, <1>3, <1>4, <1>5

\* The history counters stay numbers.
LEMMA TriesType ==
  ASSUME tries \in [Env -> [Counted -> Nat]], NEW e \in Env, NEW a,
         CountTry(e, a) \/ ForgetTries(e, a)
  PROVE  tries' \in [Env -> [Counted -> Nat]]
<1>1. CASE a \in Counted
  <2>1. [tries[e] EXCEPT ![a] = @ + 1] \in [Counted -> Nat]
        /\ [tries[e] EXCEPT ![a] = 0] \in [Counted -> Nat]
    BY <1>1
  <2>2. \/ tries' = [tries EXCEPT ![e] = [tries[e] EXCEPT ![a] = @ + 1]]
        \/ tries' = [tries EXCEPT ![e] = [tries[e] EXCEPT ![a] = 0]]
    BY <1>1 DEF CountTry, ForgetTries
  <2> QED BY <2>1, <2>2
<1>2. CASE a \notin Counted
  BY <1>2 DEF CountTry, ForgetTries
<1> QED BY <1>1, <1>2

\* A purge leaves no row, and that is well formed.
LEMMA HardDeleteType ==
  ASSUME RowsOK, NEW e \in Env, hardDeleteEnv(e)
  PROVE  RowsOK'
BY DEF RowsOK, hardDeleteEnv

---------------------------------------------------------------------------
(***************************************************************************)
(* Steps                                                                   *)
(***************************************************************************)

\* What TypeOK says, part by part, before a step and after it.
LEMMA TypeOKParts ==
  /\ TypeOK <=> RowsOK /\ LogOK /\ ApiTypeOK /\ WorkerTypeOK /\ count \in Counters
  /\ TypeOK' <=> RowsOK' /\ LogOK' /\ ApiTypeOK' /\ WorkerTypeOK' /\ count' \in Counters
BY DEF TypeOK, TablesTypeOK, RowsOK, LogOK

\* The operator's new requests are well formed and only touch well-formed rows.
LEMMA OperatorStepType == TypeOK /\ OperatorStep => TypeOK'
<1> SUFFICES ASSUME TypeOK, OperatorStep PROVE TypeOK'
  OBVIOUS
<1> USE TypeOKParts
<1>1. WorkerTypeOK'
  BY DEF OperatorStep, WorkerTypeOK, workerVars
<1>2. count' \in Counters
  BY DEF OperatorStep, Counters
<1>3. PICK e \in Env:
        \/ CreateEnv(e) \/ EditEnv(e) \/ StopEnv(e) \/ DecommissionEnv(e)
        \/ \E q \in Request: DeleteSelect(q, e)
        \/ \E q \in Request, a \in Action \cup {"stop"}: RetriggerSelect(q, e, a)
  BY DEF OperatorStep
<1>4. LogOK'
  BY <1>3 DEF CreateEnv, EditEnv, StopEnv, DecommissionEnv, DeleteSelect, RetriggerSelect, tables, LogOK
<1>5. ASSUME \/ \E q \in Request: DeleteSelect(q, e)
             \/ \E q \in Request, a \in Action \cup {"stop"}: RetriggerSelect(q, e, a)
      PROVE  RowsOK' /\ ApiTypeOK'
  <2>1. RowsOK'
    BY <1>5 DEF DeleteSelect, RetriggerSelect, tables, RowsOK
  <2>2. CASE \E q \in Request: DeleteSelect(q, e)
    <3>1. PICK q \in Request: DeleteSelect(q, e)
      BY <2>2
    <3> DEFINE new == [ kind |-> "delete", env |-> e,
                        decommissioned |-> customer_env[e].deploy_status = "decommissioned" ]
    <3>2. new \in InFlight
      BY DEF InFlight
    <3>3. requests' = [requests EXCEPT ![q] = new]
      BY <3>1 DEF DeleteSelect
    <3> QED BY <2>1, <3>2, <3>3 DEF ApiTypeOK
  <2>3. CASE \E q \in Request, a \in Action \cup {"stop"}: RetriggerSelect(q, e, a)
    <3>1. PICK q \in Request, a \in Action \cup {"stop"}: RetriggerSelect(q, e, a)
      BY <2>3
    <3> DEFINE new == [kind |-> "retrigger", env |-> e, action |-> a, logged |-> FALSE]
    <3>2. new \in InFlight
      BY DEF InFlight
    <3>3. requests' = [requests EXCEPT ![q] = new]
      BY <3>1 DEF RetriggerSelect
    <3> QED BY <2>1, <3>2, <3>3 DEF ApiTypeOK
  <2> QED BY <1>5, <2>2, <2>3
<1>6. ASSUME CreateEnv(e) \/ EditEnv(e) \/ StopEnv(e) \/ DecommissionEnv(e)
      PROVE  RowsOK' /\ ApiTypeOK'
  <2>1. ApiTypeOK'
    BY <1>6 DEF CreateEnv, EditEnv, StopEnv, DecommissionEnv, ApiTypeOK
  <2>2. CASE CreateEnv(e)
    BY <2>1, <2>2, EntryDateAssumption DEF CreateEnv, InsertRow, RowsOK, Row, Status, Date
  <2>3. CASE EditEnv(e)
    <3>1. PICK config \in Config, stop_date \in EntryDate, dcomm_date \in EntryDate:
            customer_env' = [customer_env EXCEPT ![e] =
              Touched([customer_env[e] EXCEPT !.config = config, !.stop_date = stop_date,
                                              !.dcomm_date = dcomm_date])]
      BY <2>3 DEF EditEnv, UpdateRow
    <3>2. customer_env[e] \in Row
      BY <2>3, ExistingRow DEF EditEnv
    <3> QED BY <2>1, <3>1, <3>2, EntryDateAssumption DEF RowsOK, Touched, Row
  <2>4. CASE StopEnv(e)
    <3>1. customer_env[e] \in Row
      BY <2>4, ExistingRow DEF StopEnv, StatusIn
    <3>2. [customer_env[e] EXCEPT !.config.replicas = 0, !.stop_date = "elapsed"] \in Row
      <4>1. [customer_env[e] EXCEPT !.config.replicas = 0] \in Row
        BY <3>1, ConstantsAssumption DEF Row, Config
      <4> QED BY <4>1 DEF Row, Date
    <3>3. customer_env' = [customer_env EXCEPT ![e] =
            Touched([customer_env[e] EXCEPT !.config.replicas = 0, !.stop_date = "elapsed"])]
      BY <2>4 DEF StopEnv, StatusIn, UpdateRow
    <3> QED BY <2>1, <3>2, <3>3 DEF RowsOK, Touched, Row
  <2>5. CASE DecommissionEnv(e)
    <3>1. customer_env[e] \in Row
      BY <2>5, ExistingRow DEF DecommissionEnv, StatusIn
    <3> QED BY <2>1, <2>5, <3>1 DEF DecommissionEnv, StatusIn, UpdateRow, RowsOK, Touched, Row, Date
  <2> QED BY <1>6, <2>2, <2>3, <2>4, <2>5
<1> QED BY <1>1, <1>2, <1>3, <1>4, <1>5, <1>6

\* A handler's later statements act on the environment its first one named.
LEMMA RequestStepType == TypeOK /\ RequestStep => TypeOK'
<1> SUFFICES ASSUME TypeOK, NEW q \in Request, DeleteStep(q) \/ RetriggerStep(q)
             PROVE  TypeOK'
  BY DEF RequestStep
<1> USE TypeOKParts
<1> DEFINE r == requests[q]
<1>1. r # NULL => r \in InFlight
  BY DEF ApiTypeOK
<1>2. CASE DeleteStep(q)
  <2>1. r \in [kind: {"delete"}, env: Env, decommissioned: BOOLEAN]
    BY <1>1, <1>2 DEF DeleteStep, DeletePurge, DeleteFlag, InFlight
  <2>2. ApiTypeOK'
    BY <1>2 DEF DeleteStep, DeletePurge, DeleteFlag, Answer, ApiTypeOK
  <2>3. WorkerTypeOK' /\ count' \in Counters
    <3>1. count' \in Counters
      BY <1>2 DEF DeleteStep, Counters
    <3> QED BY <1>2, <2>1, <3>1 DEF DeleteStep, WorkerTypeOK, workerVars, NoTries
  <2>4. CASE DeletePurge(q)
    <3>1. hardDeleteEnv(r.env) /\ r.env \in Env
      BY <2>1, <2>4 DEF DeletePurge
    <3>2. 0 \in 0 .. MAX_RETRIES /\ "provision" \in Action
      BY ConstantsAssumption DEF Action
    <3> QED BY <2>2, <2>3, <3>1, <3>2, HardDeleteType, LogType
  <2>5. CASE DeleteFlag(q)
    <3>1. LogOK'
      BY <2>5 DEF DeleteFlag, LogOK
    <3>2. RowsOK'
      <4>1. CASE Exists(r.env)
        <5>1. customer_env[r.env] \in Row
          BY <2>1, <4>1, ExistingRow
        <5>2. customer_env' = [customer_env EXCEPT ![r.env] =
                Touched([customer_env[r.env] EXCEPT !.pending_delete = TRUE, !.dcomm_date = "elapsed"])]
          BY <2>5, <4>1 DEF DeleteFlag, UpdateRow
        <5> QED BY <2>1, <5>1, <5>2 DEF RowsOK, Touched, Row, Date
      <4>2. CASE ~ Exists(r.env)
        BY <2>5, <4>2 DEF DeleteFlag, UpdateRow, RowsOK
      <4> QED BY <4>1, <4>2
    <3> QED BY <2>2, <2>3, <3>1, <3>2
  <2> QED BY <1>2, <2>4, <2>5 DEF DeleteStep
<1>3. CASE RetriggerStep(q)
  <2>1. r \in [kind: {"retrigger"}, env: Env, action: Action \cup {"stop"}, logged: BOOLEAN]
    BY <1>1, <1>3 DEF RetriggerStep, RetriggerLog, RetriggerLogFails, RetriggerUpdate, InFlight
  <2>2. ApiTypeOK'
    <3>1. [r EXCEPT !.logged = TRUE] \in InFlight
      BY <2>1 DEF InFlight
    <3> QED BY <1>3, <3>1 DEF RetriggerStep, RetriggerLog, RetriggerLogFails, RetriggerUpdate, Answer, ApiTypeOK
  <2>3. WorkerTypeOK' /\ count' \in Counters
    <3>1. count' \in Counters
      BY <1>3 DEF RetriggerStep, Counters
    <3>2. tries' \in [Env -> [Counted -> Nat]]
      <4>1. UNCHANGED tries \/ ForgetTries(r.env, r.action)
        BY <1>3 DEF RetriggerStep
      <4> QED BY <2>1, <4>1, TriesType DEF WorkerTypeOK
    <3> QED BY <1>3, <3>1, <3>2 DEF RetriggerStep, WorkerTypeOK, workerVars
  <2>4. CASE RetriggerLog(q)
    <3>1. RowsOK'
      BY <2>4 DEF RetriggerLog, RowsOK
    <3>2. CASE r.action = "stop"
      BY <2>2, <2>3, <2>4, <3>1, <3>2 DEF RetriggerLog, LogOK
    <3>3. CASE r.action # "stop"
      <4>1. logSuccess(r.env, r.action) /\ r.env \in Env /\ r.action \in Action
        BY <2>1, <2>4, <3>3 DEF RetriggerLog
      <4>2. 0 \in 0 .. MAX_RETRIES
        BY ConstantsAssumption
      <4> QED BY <2>2, <2>3, <3>1, <4>1, <4>2, LogType
    <3> QED BY <3>2, <3>3
  <2>5. CASE RetriggerLogFails(q)
    BY <2>2, <2>3, <2>5 DEF RetriggerLogFails, tables, RowsOK, LogOK
  <2>6. CASE RetriggerUpdate(q)
    <3>1. LogOK'
      BY <2>6 DEF RetriggerUpdate, LogOK
    <3>2. ASSUME NEW row \in Row PROVE Touched(Queued(row, r.action)) \in Row
      BY <2>1 DEF Queued, Action, Touched, Row, Status, Date
    <3>3. RowsOK'
      BY <2>1, <2>6, <3>2, ExistingRow DEF RetriggerUpdate, UpdateRow, RowsOK
    <3> QED BY <2>2, <2>3, <3>1, <3>3
  <2> QED BY <1>3, <2>4, <2>5, <2>6 DEF RetriggerStep
<1> QED BY <1>2, <1>3

\* The clock changes one column of one row.
LEMMA ClockStepType == TypeOK /\ ClockStep => TypeOK'
<1> SUFFICES ASSUME TypeOK, ClockStep PROVE TypeOK'
  OBVIOUS
<1> USE TypeOKParts
<1>1. ApiTypeOK' /\ WorkerTypeOK' /\ count' \in Counters
  BY DEF ClockStep, ApiTypeOK, WorkerTypeOK, workerVars
<1>2. PICK e \in Env: StopDateElapses(e) \/ DcommDateElapses(e) \/ RowGoesStale(e)
  BY DEF ClockStep
<1>3. customer_env[e] \in Row
  BY <1>2, ExistingRow DEF StopDateElapses, DcommDateElapses, RowGoesStale, StatusIn
<1>4. LogOK'
  BY <1>2 DEF StopDateElapses, DcommDateElapses, RowGoesStale, LogOK
<1>5. CASE StopDateElapses(e)
  BY <1>1, <1>3, <1>4, <1>5 DEF StopDateElapses, RowsOK, Row, Date
<1>6. CASE DcommDateElapses(e)
  BY <1>1, <1>3, <1>4, <1>6 DEF DcommDateElapses, RowsOK, Row, Date
<1>7. CASE RowGoesStale(e)
  BY <1>1, <1>3, <1>4, <1>7 DEF RowGoesStale, RowsOK, Row
<1> QED BY <1>2, <1>5, <1>6, <1>7

---------------------------------------------------------------------------
(***************************************************************************)
(* The worker's steps.  Beyond types they need one fact: while a task is   *)
(* running there is one, with a snapshot row, and where it still can call  *)
(* fn() it has an attempt left.                                            *)
(***************************************************************************)

\* The statements of runWithRetry.
Working == {"mark", "run", "catch", "log_failed"} \cup Completion

\* The current task is the one its snapshot row calls for.  Nothing is left of a
\* snapshot between cycles.
TaskInv ==
  /\ pc \in Working =>
       /\ env \in Env
       /\ snapshot[env] # NULL
       /\ action \in Action
       /\ action = TaskFor(snapshot[env])
  /\ pc \in Recovery \cup {"sleep"} => \A e \in Env: snapshot[e] = NULL
  /\ pc \in {"mark", "run"} \cup Completion => attempt < MAX_RETRIES
  /\ pc = "mark" => action # "patch"
  /\ pc = "record" => action # "decommission"
  /\ pc = "purge" => action = "decommission"

\* A dispatched task is one of the three actions.
LEMMA TaskForIsAction ==
  ASSUME NEW s, TaskFor(s) # NULL
  PROVE  TaskFor(s) \in Action
BY DEF TaskFor, Action

\* A task's config is a config.
LEMMA TargetType ==
  ASSUME WorkerTypeOK, TaskInv, pc \in Working
  PROVE  Target \in Config \cup {NULL} /\ (action # "decommission" => Target \in Config)
<1>1. snapshot[env] \in SnapshotRow
  BY DEF WorkerTypeOK, TaskInv
<1> QED BY <1>1 DEF Target, SnapshotRow

\* Ending a task and abandoning a cycle leave a worker that is well formed.
LEMMA RestType ==
  ASSUME WorkerTypeOK, NextTask \/ AbandonCycle,
         tries' \in [Env -> [Counted -> Nat]], deployed' \in [Env -> Config \cup {NULL}]
  PROVE  WorkerTypeOK'
<1>1. snapshot' \in [Env -> SnapshotRow \cup {NULL}]
  <2>1. CASE NextTask
    BY <2>1 DEF WorkerTypeOK, NextTask
  <2>2. CASE AbandonCycle
    BY <2>2 DEF AbandonCycle
  <2> QED BY <2>1, <2>2
<1>2. pc' \in PC
  BY DEF NextTask, AbandonCycle, Goto, PC
<1>3. env' = NULL /\ action' = NULL /\ attempt' = 0
  BY DEF NextTask, AbandonCycle
<1>4. attempt' \in 0 .. MAX_RETRIES
  BY <1>3, ConstantsAssumption
<1> QED BY <1>1, <1>2, <1>3, <1>4 DEF WorkerTypeOK

\* TypeOK and TaskInv together are inductive.
Sound == TypeOK /\ TaskInv

\* The worker's variables that a task keeps, and the requests' side of TypeOK.
LEMMA KeepType ==
  ASSUME Sound, UNCHANGED <<requests, count>>
  PROVE  ApiTypeOK' /\ count' \in Counters
BY DEF Sound, TypeOK, ApiTypeOK

\* Where no task is running yet.
LEMMA CycleStepType ==
  ASSUME Sound, UNCHANGED <<requests, count>>,
         \/ StartCycle \/ RecoverProvisioning \/ RecoverReconfiguring \/ ApplyStops
         \/ DetectDrift
  PROVE  Sound'
<1> USE TypeOKParts
<1>1. RowsOK'
  BY BulkUpdateType DEF Sound, StartCycle, RecoverProvisioning, RecoverReconfiguring, ApplyStops,
     DetectDrift, tables, RowsOK
<1>2. LogOK'
  BY DEF Sound, StartCycle, RecoverProvisioning, RecoverReconfiguring, ApplyStops,
     DetectDrift, tables, LogOK
<1>3. /\ KeepTask
      /\ UNCHANGED <<deployed, tries>>
      /\ pc' \in Recovery
      /\ pc \in Recovery \cup {"sleep"}
  BY DEF StartCycle, RecoverProvisioning, RecoverReconfiguring, ApplyStops, DetectDrift, Goto, Recovery
<1>4. WorkerTypeOK'
  BY <1>3 DEF Sound, WorkerTypeOK, KeepTask, PC
<1>5. TaskInv'
  BY <1>3 DEF Sound, TaskInv, KeepTask, Working, Recovery, Completion
<1> QED BY <1>1, <1>2, <1>4, <1>5, KeepType DEF Sound

\* The snapshot's rows are the rows' columns.
LEMMA FetchSnapshotType ==
  ASSUME Sound, UNCHANGED <<requests, count>>, FetchSnapshot
  PROVE  Sound'
<1> USE TypeOKParts
<1>1. RowsOK' /\ LogOK'
  BY DEF Sound, FetchSnapshot, tables, RowsOK, LogOK
<1>2. snapshot' \in [Env -> SnapshotRow \cup {NULL}]
  <2>1. ASSUME NEW e \in Env, StatusIn(e, Polled)
        PROVE  [ deploy_status |-> customer_env[e].deploy_status,
                 config |-> customer_env[e].config,
                 dcomm_date |-> customer_env[e].dcomm_date,
                 pending_delete |-> customer_env[e].pending_delete ] \in SnapshotRow
    <3>1. customer_env[e] \in Row
      BY <2>1, ExistingRow DEF Sound, StatusIn
    <3> QED BY <3>1 DEF Row, SnapshotRow
  <2> QED BY <2>1 DEF FetchSnapshot
<1>3. WorkerTypeOK'
  BY <1>2 DEF Sound, FetchSnapshot, WorkerTypeOK, Goto, PC
<1>4. TaskInv'
  BY DEF FetchSnapshot, TaskInv, Goto, Working, Recovery, Completion
<1> QED BY <1>1, <1>3, <1>4, KeepType DEF Sound

\* The dispatched task starts at the retry count of its window.
LEMMA DispatchType ==
  ASSUME Sound, UNCHANGED <<requests, count>>, NEW e \in Env, Dispatch(e)
  PROVE  Sound'
<1> USE TypeOKParts
<1>1. RowsOK' /\ LogOK'
  BY DEF Sound, Dispatch, tables, RowsOK, LogOK
<1>2. action' \in Action /\ action' = TaskFor(snapshot[e]) /\ env' = e /\ snapshot' = snapshot
      /\ snapshot[e] # NULL
  BY TaskForIsAction DEF Dispatch, HasTask
<1>3. attempt' \in 0 .. MAX_RETRIES
  <2>1. deployment_log[e][action'] \in Window
    BY <1>2 DEF Sound, LogOK
  <2> QED BY <2>1 DEF Dispatch, getRetryCount, Window
<1>4. pc' = (IF attempt' >= MAX_RETRIES THEN "catch" ELSE IF action' = "patch" THEN "run" ELSE "mark")
  BY DEF Dispatch, Goto
<1>5. tries' \in [Env -> [Counted -> Nat]]
  BY <1>2, TriesType DEF Dispatch, Sound, WorkerTypeOK
<1>6. WorkerTypeOK'
  BY <1>2, <1>3, <1>4, <1>5 DEF Dispatch, Sound, WorkerTypeOK, PC
<1>7. TaskInv'
  <2>1. pc' \in {"catch", "run", "mark"} /\ (pc' # "catch" => attempt' < MAX_RETRIES)
        /\ (pc' = "mark" => action' # "patch")
    BY <1>3, <1>4, ConstantsAssumption
  <2> QED BY <1>2, <2>1 DEF TaskInv, Working, Recovery, Completion
<1> QED BY <1>1, <1>6, <1>7, KeepType DEF Sound

\* Leaving a task, or the whole cycle, at any statement.
LEMMA RestSound ==
  ASSUME Sound, NextTask \/ AbandonCycle, RowsOK', LogOK', ApiTypeOK', count' \in Counters,
         tries' \in [Env -> [Counted -> Nat]], deployed' \in [Env -> Config \cup {NULL}]
  PROVE  Sound'
<1>1. WorkerTypeOK'
  BY RestType DEF Sound, TypeOK
<1>2. TaskInv'
  BY DEF TaskInv, NextTask, AbandonCycle, Goto, Working, Recovery, Completion
<1> QED BY <1>1, <1>2, TypeOKParts DEF Sound

\* Going on with the same task.  The statement may count an attempt.
LEMMA KeepTaskSound ==
  ASSUME Sound, pc \in Working, pc' \in Working \ {"mark"}, KeepTask,
         RowsOK', LogOK', ApiTypeOK', count' \in Counters,
         tries' \in [Env -> [Counted -> Nat]], deployed' \in [Env -> Config \cup {NULL}],
         pc' \in {"run"} \cup Completion => pc \in {"mark", "run"} \cup Completion,
         pc' = "record" => action # "decommission",
         pc' = "purge" => action = "decommission"
  PROVE  Sound'
<1>1. WorkerTypeOK'
  BY DEF Sound, TypeOK, WorkerTypeOK, KeepTask, Working, PC
<1>2. TaskInv'
  BY DEF Sound, TaskInv, KeepTask, Working, Recovery, Completion
<1> QED BY <1>1, <1>2, TypeOKParts DEF Sound

\* The statements of a task that go on with it.
LEMMA TaskStepType ==
  ASSUME Sound, UNCHANGED <<requests, count>>,
         \/ MarkInProgress \/ RunSucceeds \/ RunFails \/ SetFinalStatus \/ RecordApplied
         \/ PurgeRow \/ LogSuccessFails \/ MarkFailed
  PROVE  Sound'
<1> USE TypeOKParts
<1>1. /\ pc \in Working /\ KeepTask
      /\ env \in Env /\ action \in Action
  BY DEF MarkInProgress, RunSucceeds, RunFails, SetFinalStatus, RecordApplied, PurgeRow,
         LogSuccessFails, MarkFailed, Sound, TaskInv, Working, Completion
<1>2. ApiTypeOK' /\ count' \in Counters
  BY KeepType
<1>3. RowsOK /\ LogOK /\ tries \in [Env -> [Counted -> Nat]] /\ deployed \in [Env -> Config \cup {NULL}]
  BY DEF Sound, WorkerTypeOK
<1>4. Target \in Config \cup {NULL} /\ (action # "decommission" => Target \in Config)
  BY <1>1, TargetType DEF Sound
<1>5. CASE MarkInProgress
  <2>1. RowsOK'
    BY <1>1, <1>3, <1>5, SetEnvStatusType DEF MarkInProgress, Status
  <2>2. LogOK' /\ deployed' = deployed
    BY <1>3, <1>5 DEF MarkInProgress, LogOK
  <2>3. tries' \in [Env -> [Counted -> Nat]]
    BY <1>1, <1>3, <1>5, TriesType DEF MarkInProgress
  <2>4. pc = "mark" /\ pc' = "run"
    BY <1>5 DEF MarkInProgress, Goto
  <2> QED BY <1>1, <1>2, <1>3, <2>1, <2>2, <2>3, <2>4, KeepTaskSound DEF Working, Completion
<1>6. CASE RunSucceeds \/ RunFails
  <2>1. RowsOK' /\ LogOK' /\ tries' = tries
    BY <1>3, <1>6 DEF RunSucceeds, RunFails, logStepFailed, tables, RowsOK, LogOK
  <2>2. deployed' \in [Env -> Config \cup {NULL}]
    BY <1>1, <1>3, <1>4, <1>6 DEF RunSucceeds, RunFails
  <2>3. pc = "run" /\ pc' \in {"finish", "catch"}
    BY <1>6 DEF RunSucceeds, RunFails, Goto
  <2> QED BY <1>1, <1>2, <1>3, <2>1, <2>2, <2>3, KeepTaskSound DEF Working, Completion
<1>7. CASE SetFinalStatus
  <2>1. RowsOK'
    BY <1>1, <1>3, <1>7, SetEnvStatusType DEF SetFinalStatus, FinalStatus, Status
  <2>2. LogOK' /\ deployed' = deployed /\ tries' = tries
    BY <1>3, <1>7 DEF SetFinalStatus, LogOK
  <2>3. /\ pc = "finish" /\ pc' \in {"record", "purge", "log_success"}
        /\ pc' = "record" => action # "decommission"
        /\ pc' = "purge" => action = "decommission"
    BY <1>7 DEF SetFinalStatus, Goto
  <2> QED BY <1>1, <1>2, <1>3, <2>1, <2>2, <2>3, KeepTaskSound DEF Working, Completion
<1>8. CASE RecordApplied
  <2>1. snapshot[env].config \in Config
    BY <1>1, <1>4, <1>8 DEF RecordApplied, Sound, TaskInv, Target
  <2>2. RowsOK'
    BY <1>1, <1>3, <1>8, <2>1, UpdateLastAppliedConfigType DEF RecordApplied
  <2>3. LogOK' /\ deployed' = deployed /\ tries' = tries /\ pc = "record" /\ pc' = "log_success"
    BY <1>3, <1>8 DEF RecordApplied, LogOK, Goto
  <2> QED BY <1>1, <1>2, <1>3, <2>2, <2>3, KeepTaskSound DEF Working, Completion
<1>9. CASE PurgeRow
  <2>1. RowsOK' /\ LogOK'
    <3>1. 0 \in 0 .. MAX_RETRIES
      BY ConstantsAssumption
    <3> QED BY <1>1, <1>3, <1>9, <3>1, HardDeleteType, LogType DEF PurgeRow
  <2>2. deployed' = deployed /\ pc = "purge" /\ pc' = "log_success"
    BY <1>9 DEF PurgeRow, Goto
  <2>3. tries' \in [Env -> [Counted -> Nat]]
    BY <1>1, <1>3, <1>9 DEF PurgeRow, NoTries
  <2> QED BY <1>1, <1>2, <1>3, <2>1, <2>2, <2>3, KeepTaskSound DEF Working, Completion
<1>10. CASE LogSuccessFails
  <2>1. RowsOK' /\ LogOK' /\ deployed' = deployed /\ tries' = tries /\ pc' = "catch"
    BY <1>3, <1>10 DEF LogSuccessFails, tables, RowsOK, LogOK, Goto
  <2> QED BY <1>1, <1>2, <1>3, <2>1, KeepTaskSound DEF Working, Completion
<1>11. CASE MarkFailed
  <2>1. RowsOK'
    BY <1>1, <1>3, <1>11, SetEnvStatusType DEF MarkFailed, Status
  <2>2. LogOK' /\ deployed' = deployed /\ tries' = tries /\ pc' = "log_failed"
    BY <1>3, <1>11 DEF MarkFailed, LogOK, Goto
  <2> QED BY <1>1, <1>2, <1>3, <2>1, <2>2, KeepTaskSound DEF Working, Completion
<1> QED BY <1>5, <1>6, <1>7, <1>8, <1>9, <1>10, <1>11

\* The statements that end a task, or the cycle, and the next attempt.
LEMMA TaskEndType ==
  ASSUME Sound, UNCHANGED <<requests, count>>,
         LogSuccess \/ LogRetrying \/ LogFailed \/ LogInCatchFails \/ EndCycle
  PROVE  Sound'
<1> USE TypeOKParts
<1>1. ApiTypeOK' /\ count' \in Counters
  BY KeepType
<1>2. RowsOK /\ LogOK /\ tries \in [Env -> [Counted -> Nat]] /\ deployed \in [Env -> Config \cup {NULL}]
  BY DEF Sound, WorkerTypeOK
<1>3. RowsOK'
  BY <1>2 DEF LogSuccess, LogRetrying, LogFailed, LogInCatchFails, EndCycle, tables, RowsOK
<1>4. deployed' \in [Env -> Config \cup {NULL}]
  BY <1>2 DEF LogSuccess, LogRetrying, LogFailed, LogInCatchFails, EndCycle
<1>5. 0 \in 0 .. MAX_RETRIES
  BY ConstantsAssumption
<1>6. CASE LogSuccess
  <2>1. env \in Env /\ action \in Action
    BY <1>6 DEF LogSuccess, Sound, TaskInv, Working, Completion
  <2>2. LogOK'
    BY <1>2, <1>5, <1>6, <2>1, LogType DEF LogSuccess
  <2>3. tries' \in [Env -> [Counted -> Nat]]
    BY <1>2, <1>6, <2>1, TriesType DEF LogSuccess
  <2> QED BY <1>1, <1>3, <1>4, <1>6, <2>2, <2>3, RestSound DEF LogSuccess
<1>7. CASE LogRetrying
  <2>1. pc \in Working /\ env \in Env /\ action \in Action
    BY <1>7 DEF LogRetrying, Sound, TaskInv, Working, Completion
  <2>2. attempt \in 0 .. MAX_RETRIES /\ attempt < MAX_RETRIES - 1
    BY <1>7 DEF LogRetrying, Sound, WorkerTypeOK
  <2>3. attempt + 1 \in 0 .. MAX_RETRIES /\ attempt + 1 < MAX_RETRIES
    BY <2>2, ConstantsAssumption
  <2>4. LogOK'
    BY <1>2, <1>7, <2>1, <2>3, LogType DEF LogRetrying
  <2>5. tries' \in [Env -> [Counted -> Nat]]
    BY <1>2, <1>7, <2>1, TriesType DEF LogRetrying
  <2>6. WorkerTypeOK'
    BY <1>4, <1>7, <2>3, <2>5 DEF LogRetrying, Goto, Sound, WorkerTypeOK, PC
  <2>7. TaskInv'
    BY <1>7, <2>1, <2>3 DEF LogRetrying, Goto, Sound, TaskInv, Working, Recovery, Completion
  <2> QED BY <1>1, <1>3, <2>4, <2>6, <2>7 DEF Sound
<1>8. CASE LogFailed
  <2>1. env \in Env /\ action \in Action
    BY <1>8 DEF LogFailed, Sound, TaskInv, Working, Completion
  <2>2. LogOK' /\ tries' = tries
    BY <1>2, <1>5, <1>8, <2>1, LogType DEF LogFailed
  <2> QED BY <1>1, <1>2, <1>3, <1>4, <1>8, <2>2, RestSound DEF LogFailed
<1>9. CASE LogInCatchFails \/ EndCycle
  <2>1. LogOK' /\ tries' = tries
    BY <1>2, <1>9 DEF LogInCatchFails, EndCycle, tables, LogOK
  <2> QED BY <1>1, <1>2, <1>3, <1>4, <1>9, <2>1, RestSound DEF LogInCatchFails, EndCycle
<1> QED BY <1>6, <1>7, <1>8, <1>9

\* A crash or a database error leaves the tables alone.
LEMMA FaultType == Sound /\ (Crash \/ DbError) => Sound'
<1> SUFFICES ASSUME Sound, Crash \/ DbError PROVE Sound'
  OBVIOUS
<1> USE TypeOKParts
<1>1. RowsOK' /\ LogOK' /\ tries' \in [Env -> [Counted -> Nat]]
  BY DEF Sound, Crash, DbError, WorkerCrash, DbErrorInTry, DbErrorOutside, tables, RowsOK, LogOK, WorkerTypeOK
<1>2. ApiTypeOK' /\ count' \in Counters
  BY DEF Sound, Crash, DbError, ApiTypeOK, Counters
<1>3. deployed \in [Env -> Config \cup {NULL}]
  BY DEF Sound, WorkerTypeOK
<1>4. CASE Crash
  <2>1. CASE pc = "run"
    <3>1. env \in Env /\ Target \in Config \cup {NULL}
      BY <2>1, TargetType DEF Sound, TaskInv, Working
    <3>2. deployed' \in [Env -> Config \cup {NULL}]
      BY <1>3, <1>4, <2>1, <3>1 DEF Crash, WorkerCrash
    <3> QED BY <1>1, <1>2, <1>4, <3>2, RestSound DEF Crash, WorkerCrash
  <2>2. CASE pc # "run"
    <3>1. deployed' = deployed
      BY <1>4, <2>2 DEF Crash, WorkerCrash
    <3> QED BY <1>1, <1>2, <1>3, <1>4, <3>1, RestSound DEF Crash, WorkerCrash
  <2> QED BY <2>1, <2>2
<1>5. CASE DbError /\ DbErrorInTry
  <2>1. pc \in Working /\ pc' = "catch" /\ KeepTask /\ deployed' = deployed
    BY <1>5 DEF DbErrorInTry, Goto, Working
  <2> QED BY <1>1, <1>2, <1>3, <2>1, KeepTaskSound DEF Working, Completion
<1>6. CASE DbError /\ DbErrorOutside
  BY <1>1, <1>2, <1>3, <1>6, RestSound DEF DbErrorOutside
<1> QED BY <1>4, <1>5, <1>6 DEF DbError

\* What leaves the worker's variables alone leaves its task alone.
LEMMA OthersKeepTask ==
  TaskInv /\ UNCHANGED workerVars => TaskInv'
BY DEF TaskInv, workerVars

\* Every step preserves Sound.
LEMMA SoundStep == Sound /\ [Next]_vars => Sound'
<1> SUFFICES ASSUME Sound, [Next]_vars PROVE Sound'
  OBVIOUS
<1>1. CASE OperatorStep
  BY <1>1, OperatorStepType, OthersKeepTask DEF Sound, OperatorStep
<1>2. CASE RequestStep
  <2>1. UNCHANGED workerVars
    BY <1>2 DEF RequestStep, DeleteStep, RetriggerStep
  <2> QED BY <1>2, <2>1, RequestStepType, OthersKeepTask DEF Sound
<1>3. CASE ClockStep
  BY <1>3, ClockStepType, OthersKeepTask DEF Sound, ClockStep
<1>4. CASE Worker
  BY <1>4, CycleStepType, FetchSnapshotType, DispatchType, TaskStepType, TaskEndType
     DEF Worker, WorkerStep
<1>5. CASE Crash \/ DbError
  BY <1>5, FaultType
<1>6. CASE UNCHANGED vars
  <2>1. TypeOK'
    BY <1>6 DEF vars, tables, workerVars, Sound, TypeOK, TablesTypeOK, ApiTypeOK, WorkerTypeOK
  <2> QED BY <1>6, <2>1, OthersKeepTask DEF vars, Sound
<1> QED BY <1>1, <1>2, <1>3, <1>4, <1>5, <1>6 DEF Next

\* The tables are empty and the worker sleeps.
LEMMA SoundInit == Init => Sound
<1> SUFFICES ASSUME Init PROVE Sound
  OBVIOUS
<1>1. TablesTypeOK /\ ApiTypeOK
  BY ConstantsAssumption DEF Init, TablesInit, ApiInit, TablesTypeOK, ApiTypeOK, FreshWindows, Window
<1>2. WorkerTypeOK
  BY ConstantsAssumption DEF Init, WorkerInit, AtRest, WorkerTypeOK, PC, NoTries
<1>3. TaskInv
  BY DEF Init, WorkerInit, AtRest, TaskInv, Working, Recovery, Completion
<1>4. count \in Counters
  BY DEF Init, Counters
<1> QED BY <1>1, <1>2, <1>3, <1>4 DEF Sound, TypeOK

\* Every reachable state is well formed, and a running task is the one its
\* snapshot row calls for, with an attempt left wherever fn() may be called.
THEOREM SoundAlways == Spec => []Sound
<1>1. Init => Sound
  BY SoundInit
<1>2. Sound /\ [Next]_vars => Sound'
  BY SoundStep
<1> QED BY <1>1, <1>2, PTL DEF Spec

\* Type correctness: no statement writes a status, date, config or retry count
\* that the schema or the worker does not know.
THEOREM TypeCorrect == Spec => []TypeOK
<1>1. Sound => TypeOK
  BY DEF Sound
<1> QED BY <1>1, SoundAlways, PTL

=============================================================================
