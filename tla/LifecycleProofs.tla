--------------------------- MODULE LifecycleProofs ---------------------------
(***************************************************************************)
(* ControlPlane implements Lifecycle, for any environments, images, request*)
(* handlers and bounds: what an environment looks like from outside begins *)
(* as Lifecycle begins, and every step is one of Lifecycle's or changes    *)
(* nothing that is seen.                                                   *)
(*                                                                         *)
(* First what each statement does to Standing, then which step of Lifecycle*)
(* each action is.  That the resources of a decommissioned environment are *)
(* left alone and that 'deployed' is true when it is written come from     *)
(* IInv (DoneInv and AppliedInv).                                          *)
(***************************************************************************)
EXTENDS ControlPlaneProofs

\* Between tasks the worker is at no environment.
IdleInv == pc \notin Working => env = NULL

LInv == IInv /\ IdleInv

\* Only Dispatch takes up an environment, and every way out of a task lets go of it.
LEMMA IdleStep == LInv /\ [Next]_vars => IdleInv'
<1> SUFFICES ASSUME LInv, [Next]_vars PROVE IdleInv'
  OBVIOUS
<1>1. CASE UNCHANGED workerVars
  BY <1>1 DEF LInv, IdleInv, workerVars
<1>2. CASE WorkerStep
  BY <1>2 DEF LInv, IdleInv, WorkerStep, StartCycle, RecoverProvisioning, RecoverReconfiguring,
     ApplyStops, DetectDrift, FetchSnapshot, Dispatch, EndCycle, MarkInProgress, RunSucceeds, RunFails,
     SetFinalStatus, RecordApplied, PurgeRow, LogSuccess, LogSuccessFails, LogRetrying, MarkFailed,
     LogFailed, LogInCatchFails, AbandonCycle, NextTask, KeepTask, Goto, Working, Completion
<1>3. CASE WorkerCrash \/ DbErrorInTry \/ DbErrorOutside
  BY <1>3 DEF LInv, IdleInv, WorkerCrash, DbErrorInTry, DbErrorOutside, AbandonCycle, KeepTask, Goto,
     Working, Completion
<1> QED BY <1>1, <1>2, <1>3 DEF Next, OperatorStep, RequestStep, DeleteStep, RetriggerStep, ClockStep,
        Worker, Crash, DbError, vars

\* The invariant and its addition hold in every reachable state.
LEMMA LInvAlways == Spec => []LInv
<1>1. Init => LInv
  BY IInvInit DEF LInv, IdleInv, Init, WorkerInit, AtRest
<1>2. LInv /\ [Next]_vars => LInv'
  BY IInvStep, IdleStep DEF LInv
<1> QED BY <1>1, <1>2, PTL DEF Spec

---------------------------------------------------------------------------
(***************************************************************************)
(* What a statement does to the standing of the environments               *)
(***************************************************************************)

\* NULL stands for no row, and for nothing else.
LEMMA StandingOf ==
  ASSUME RowsOK, NEW e \in Env
  PROVE  /\ ~ Exists(e) => Standing[e] = NULL
         /\ Exists(e) => /\ customer_env[e] \in Row
                         /\ Standing[e] = customer_env[e].deploy_status
                         /\ Standing[e] # NULL
<1>1. ~ Exists(e) => Standing[e] = NULL
  BY DEF Standing
<1>2. ASSUME Exists(e)
      PROVE  customer_env[e] \in Row /\ Standing[e] = customer_env[e].deploy_status
  BY <1>2, ExistingRow DEF Standing
<1>3. ASSUME Exists(e) PROVE Standing[e] # NULL
  BY <1>2, <1>3, ConstantsAssumption DEF Row
<1> QED BY <1>1, <1>2, <1>3

\* Two functions on Env that agree everywhere.
LEMMA SameFunction ==
  ASSUME NEW s, s = [e \in Env |-> s[e]], \A e \in Env: Standing'[e] = s[e]
  PROVE  Standing' = s
<1>1. Standing' = [e \in Env |-> Standing'[e]]
  BY DEF Standing
<1> QED BY <1>1

\* A row is written, new or over what was there.
LEMMA WrittenStanding ==
  ASSUME RowsOK, NEW e \in Env, NEW r \in Row, customer_env' = [customer_env EXCEPT ![e] = r]
  PROVE  /\ Standing' = [Standing EXCEPT ![e] = r.deploy_status]
         /\ r.deploy_status = Standing[e] => Standing' = Standing
<1>1. r # NULL
  BY ConstantsAssumption
<1>2. ASSUME NEW f \in Env
      PROVE  Standing'[f] = [Standing EXCEPT ![e] = r.deploy_status][f]
  BY <1>1 DEF Standing, Exists, RowsOK
<1>3. Standing = [f \in Env |-> Standing[f]]
  BY DEF Standing
<1>4. Standing' = [Standing EXCEPT ![e] = r.deploy_status]
  <2> DEFINE s == [Standing EXCEPT ![e] = r.deploy_status]
  <2>1. s = [f \in Env |-> s[f]]
    BY <1>3
  <2> QED BY <1>2, <2>1, SameFunction
<1> QED BY <1>3, <1>4

\* A row goes.
LEMMA GoneStanding ==
  ASSUME RowsOK, NEW e \in Env, hardDeleteEnv(e)
  PROVE  /\ Standing' = [Standing EXCEPT ![e] = NULL]
         /\ ~ Exists(e) => Standing' = Standing
<1>1. ASSUME NEW f \in Env
      PROVE  Standing'[f] = [Standing EXCEPT ![e] = NULL][f]
  BY DEF Standing, Exists, RowsOK, hardDeleteEnv
<1>2. Standing = [f \in Env |-> Standing[f]]
  BY DEF Standing
<1>3. Standing' = [Standing EXCEPT ![e] = NULL]
  <2> DEFINE s == [Standing EXCEPT ![e] = NULL]
  <2>1. s = [f \in Env |-> s[f]]
    BY <1>2
  <2> QED BY <1>1, <2>1, SameFunction
<1> QED BY <1>2, <1>3, StandingOf

\* The worker sets the status of the environment it is at.
LEMMA SetStanding ==
  ASSUME RowsOK, NEW e \in Env, NEW s \in Status, setEnvStatus(e, s)
  PROVE  Standing' = IF Standing[e] = NULL THEN Standing ELSE [Standing EXCEPT ![e] = s]
<1>1. CASE ~ Exists(e)
  <2>1. Standing' = Standing
    BY <1>1 DEF setEnvStatus, UpdateRow, Standing, Exists
  <2> QED BY <1>1, <2>1, StandingOf
<1>2. CASE Exists(e)
  <2>1. customer_env[e] \in Row /\ Standing[e] # NULL
    BY <1>2, StandingOf
  <2> DEFINE r == Touched([customer_env[e] EXCEPT !.deploy_status = s])
  <2>2. customer_env' = [customer_env EXCEPT ![e] = r]
    BY <1>2 DEF setEnvStatus, UpdateRow
  <2>3. r \in Row /\ r.deploy_status = s
    BY <2>1 DEF Touched, Row
  <2> HIDE DEF r
  <2> QED BY <2>1, <2>2, <2>3, WrittenStanding
<1> QED BY <1>1, <1>2

\* A bulk update that moves the rows it selects, all in a status of from, is a sweep.
LEMMA SweptStanding ==
  ASSUME RowsOK, env = NULL, env' = env, Running' = Running,
         NEW from, NEW to, NEW S \in SUBSET Env,
         \A e \in S: StatusIn(e, from),
         \A e \in Env: /\ e \in S => customer_env'[e] # NULL /\ customer_env'[e].deploy_status = to
                       /\ e \notin S => customer_env'[e] = customer_env[e]
  PROVE  Promised!Sweep(from, to)
<1>1. S \in SUBSET {e \in Env: Standing[e] \in from}
  BY StandingOf DEF StatusIn
<1> DEFINE s == [e \in Env |-> IF e \in S THEN to ELSE Standing[e]]
<1>2. ASSUME NEW e \in Env PROVE Standing'[e] = s[e]
  BY DEF Standing, Exists
<1>3. Standing' = s
  BY <1>2, SameFunction
<1> QED BY <1>1, <1>3 DEF Promised!Sweep

\* Every environment keeps its row and its status, or stays without one.
LEMMA KeptStanding ==
  ASSUME \A e \in Env: \/ customer_env'[e] = customer_env[e]
                       \/ /\ Exists(e) /\ customer_env'[e] # NULL
                          /\ customer_env'[e].deploy_status = customer_env[e].deploy_status
  PROVE  Standing' = Standing
<1>1. ASSUME NEW e \in Env PROVE Standing'[e] = Standing[e]
  BY DEF Standing, Exists
<1>2. Standing = [e \in Env |-> Standing[e]]
  BY DEF Standing
<1> QED BY <1>1, <1>2, SameFunction

---------------------------------------------------------------------------
(***************************************************************************)
(* Which step of Lifecycle each action is                                  *)
(***************************************************************************)

Seen == Promised!Next \/ UNCHANGED Promised!vars

\* A step that only moves rows from one status to another, between tasks.
LEMMA SeenUnchanged ==
  ASSUME Standing' = Standing, Running' = Running, env' = env
  PROVE  Seen
BY DEF Seen, Promised!vars

\* What runs for the environments is a matter of deployed alone.
LEMMA RunningKept == UNCHANGED deployed => Running' = Running
BY DEF Running

\* Create, or a change of config and dates that Lifecycle does not see.
LEMMA OperatorSeen == LInv /\ OperatorStep => Seen
<1> SUFFICES ASSUME LInv, OperatorStep PROVE Seen
  OBVIOUS
<1>1. RowsOK /\ Running' = Running /\ env' = env
  BY TypeOKParts, RunningKept DEF LInv, IInv, Sound, OperatorStep, workerVars
<1>2. PICK f \in Env:
        \/ CreateEnv(f) \/ EditEnv(f) \/ StopEnv(f) \/ DecommissionEnv(f)
        \/ \E q \in Request: DeleteSelect(q, f)
        \/ \E q \in Request, a \in Action \cup {"stop"}: RetriggerSelect(q, f, a)
  BY DEF OperatorStep
<1>3. CASE \/ \E q \in Request: DeleteSelect(q, f)
           \/ \E q \in Request, a \in Action \cup {"stop"}: RetriggerSelect(q, f, a)
  <2>1. Standing' = Standing
    BY <1>3, KeptStanding DEF DeleteSelect, RetriggerSelect, tables
  <2> QED BY <1>1, <2>1, SeenUnchanged
<1>4. CASE EditEnv(f) \/ StopEnv(f) \/ DecommissionEnv(f)
  <2>1. Exists(f) /\ customer_env[f] \in Row
    BY <1>1, <1>4, ExistingRow DEF EditEnv, StopEnv, DecommissionEnv, StatusIn
  <2>2. \E r: /\ customer_env' = [customer_env EXCEPT ![f] = Touched(r)]
              /\ r \in Row /\ r.deploy_status = customer_env[f].deploy_status
    <3>1. CASE EditEnv(f)
      <4>1. PICK config \in Config, stop_date \in EntryDate, dcomm_date \in EntryDate:
              customer_env' = [customer_env EXCEPT ![f] =
                Touched([customer_env[f] EXCEPT !.config = config, !.stop_date = stop_date,
                                                !.dcomm_date = dcomm_date])]
        BY <3>1 DEF EditEnv, UpdateRow
      <4> DEFINE r == [customer_env[f] EXCEPT !.config = config, !.stop_date = stop_date,
                                              !.dcomm_date = dcomm_date]
      <4>2. r \in Row /\ r.deploy_status = customer_env[f].deploy_status
        BY <2>1, EntryDateAssumption DEF Row
      <4> QED BY <4>1, <4>2
    <3>2. CASE StopEnv(f)
      <4> DEFINE r == [customer_env[f] EXCEPT !.config.replicas = 0, !.stop_date = "elapsed"]
      <4>1. customer_env' = [customer_env EXCEPT ![f] = Touched(r)]
        BY <2>1, <3>2 DEF StopEnv, UpdateRow
      <4>2. [customer_env[f].config EXCEPT !.replicas = 0] \in Config
        BY <2>1, ConstantsAssumption DEF Row, Config
      <4>3. r \in Row /\ r.deploy_status = customer_env[f].deploy_status
        BY <2>1, <4>2 DEF Row, Date
      <4> QED BY <4>1, <4>3
    <3>3. CASE DecommissionEnv(f)
      <4> DEFINE r == [customer_env[f] EXCEPT !.dcomm_date = "elapsed"]
      <4>1. customer_env' = [customer_env EXCEPT ![f] = Touched(r)]
        BY <2>1, <3>3 DEF DecommissionEnv, UpdateRow
      <4>2. r \in Row /\ r.deploy_status = customer_env[f].deploy_status
        BY <2>1 DEF Row, Date
      <4> QED BY <4>1, <4>2
    <3> QED BY <1>4, <3>1, <3>2, <3>3
  <2>3. Standing' = Standing
    <3>1. PICK r: /\ customer_env' = [customer_env EXCEPT ![f] = Touched(r)]
                  /\ r \in Row /\ r.deploy_status = customer_env[f].deploy_status
      BY <2>2
    <3>2. Touched(r) \in Row /\ Touched(r).deploy_status = Standing[f]
      BY <1>1, <2>1, <3>1, TouchedRow, StandingOf
    <3> QED BY <1>1, <2>1, <3>1, <3>2, WrittenStanding
  <2> QED BY <1>1, <2>3, SeenUnchanged
<1>5. CASE CreateEnv(f)
  <2>1. PICK config \in Config, stop_date \in EntryDate: InsertRow(f, config, stop_date)
    BY <1>5 DEF CreateEnv
  <2>2. Standing[f] = NULL
    BY <1>1, <1>5, StandingOf DEF CreateEnv
  <2> DEFINE r == [ deploy_status |-> "pending", config |-> config, stop_date |-> stop_date,
                    dcomm_date |-> NULL, pending_delete |-> FALSE,
                    last_applied_config |-> NULL, modified |-> TRUE, stale |-> FALSE ]
  <2>3. r \in Row /\ r.deploy_status = "pending"
    BY EntryDateAssumption DEF Row, Status, Date
  <2>4. Standing' = [Standing EXCEPT ![f] = "pending"]
    <3>1. customer_env' = [customer_env EXCEPT ![f] = r]
      BY <2>1 DEF InsertRow
    <3> QED BY <1>1, <2>3, <3>1, WrittenStanding
  <2>5. Promised!Create(f)
    BY <1>1, <2>2, <2>4 DEF Promised!Create
  <2> QED BY <2>5 DEF Seen, Promised!Next
<1> QED BY <1>2, <1>3, <1>4, <1>5

\* The last statement of a retrigger is Retrigger, that of a delete is Delete: neither
\* looks at the status any more.
LEMMA RequestSeen == LInv /\ RequestStep => Seen
<1> SUFFICES ASSUME LInv, NEW q \in Request, DeleteStep(q) \/ RetriggerStep(q) PROVE Seen
  BY DEF RequestStep
<1> DEFINE f == requests[q].env
<1>1. RowsOK /\ ApiTypeOK /\ Running' = Running /\ env' = env
  BY TypeOKParts, RunningKept DEF LInv, IInv, Sound, DeleteStep, RetriggerStep, workerVars
<1>2. f \in Env /\ requests[q] \in InFlight
  BY <1>1 DEF DeleteStep, RetriggerStep, DeletePurge, DeleteFlag, RetriggerLog, RetriggerLogFails,
     RetriggerUpdate, ApiTypeOK, InFlight
<1> HIDE DEF f
<1>3. CASE DeletePurge(q)
  <2>1. hardDeleteEnv(f)
    BY <1>3 DEF DeletePurge, f
  <2>2. CASE Exists(f)
    <3>1. Promised!Delete(f)
      BY <1>1, <1>2, <2>1, <2>2, GoneStanding, StandingOf DEF Promised!Delete
    <3> QED BY <1>2, <3>1 DEF Seen, Promised!Next
  <2>3. CASE ~ Exists(f)
    BY <1>1, <1>2, <2>1, <2>3, GoneStanding, SeenUnchanged
  <2> QED BY <2>2, <2>3
<1>4. CASE RetriggerLog(q) \/ RetriggerLogFails(q)
  <2>1. Standing' = Standing
    BY <1>4, KeptStanding DEF RetriggerLog, RetriggerLogFails, tables
  <2> QED BY <1>1, <2>1, SeenUnchanged
<1>5. CASE (DeleteFlag(q) \/ RetriggerUpdate(q)) /\ ~ Exists(f)
  <2>1. Standing' = Standing
    BY <1>5, KeptStanding DEF DeleteFlag, RetriggerUpdate, UpdateRow, f
  <2> QED BY <1>1, <2>1, SeenUnchanged
<1>6. CASE DeleteFlag(q) /\ Exists(f)
  <2> DEFINE r == [customer_env[f] EXCEPT !.pending_delete = TRUE, !.dcomm_date = "elapsed"]
  <2>1. customer_env[f] \in Row /\ Standing[f] = customer_env[f].deploy_status
    BY <1>1, <1>2, <1>6, StandingOf
  <2>2. r \in Row /\ r.deploy_status = customer_env[f].deploy_status
    BY <2>1 DEF Row, Date
  <2>3. customer_env' = [customer_env EXCEPT ![f] = Touched(r)]
    BY <1>6 DEF DeleteFlag, UpdateRow, f
  <2>4. Touched(r) \in Row /\ Touched(r).deploy_status = Standing[f]
    BY <2>1, <2>2, TouchedRow
  <2>5. Standing' = Standing
    BY <1>1, <1>2, <2>3, <2>4, WrittenStanding
  <2> QED BY <1>1, <2>5, SeenUnchanged
<1>7. CASE RetriggerUpdate(q) /\ Exists(f)
  <2> DEFINE r == Queued(customer_env[f], requests[q].action)
  <2>1. customer_env[f] \in Row /\ Standing[f] # NULL
    BY <1>1, <1>2, <1>7, StandingOf
  <2>2. requests[q].action \in Action \cup {"stop"}
    BY <1>2, <1>7 DEF RetriggerUpdate, InFlight
  <2>3. r \in Row /\ r.deploy_status \in {"pending", "reconfiguring", "stopping", "decommissioning"}
    BY <2>1, <2>2 DEF Queued, Action, Row, Status, Date
  <2>4. customer_env' = [customer_env EXCEPT ![f] = Touched(r)]
    BY <1>7 DEF RetriggerUpdate, UpdateRow, f
  <2> HIDE DEF r
  <2>5. Touched(r) \in Row /\ Touched(r).deploy_status = r.deploy_status
    BY <2>3, TouchedRow
  <2>6. Standing' = [Standing EXCEPT ![f] = r.deploy_status]
    BY <1>1, <1>2, <2>4, <2>5, WrittenStanding
  <2>7. Promised!Retrigger(f)
    BY <1>1, <2>1, <2>3, <2>6 DEF Promised!Retrigger
  <2> QED BY <1>2, <2>7 DEF Seen, Promised!Next
<1> QED BY <1>3, <1>4, <1>5, <1>6, <1>7 DEF DeleteStep, RetriggerStep

\* The clock changes no status.
LEMMA ClockSeen == LInv /\ ClockStep => Seen
<1> SUFFICES ASSUME LInv, ClockStep PROVE Seen
  OBVIOUS
<1>1. RowsOK /\ Running' = Running /\ env' = env
  BY TypeOKParts, RunningKept DEF LInv, IInv, Sound, ClockStep, workerVars
<1>2. PICK f \in Env: StopDateElapses(f) \/ DcommDateElapses(f) \/ RowGoesStale(f)
  BY DEF ClockStep
<1>3. Exists(f) /\ customer_env[f] \in Row /\ Standing[f] = customer_env[f].deploy_status
  BY <1>1, <1>2, StandingOf DEF StopDateElapses, DcommDateElapses, RowGoesStale, StatusIn
<1>4. PICK r \in { [customer_env[f] EXCEPT !.stop_date = "elapsed"],
                   [customer_env[f] EXCEPT !.dcomm_date = "elapsed"],
                   [customer_env[f] EXCEPT !.stale = TRUE] }: customer_env' = [customer_env EXCEPT ![f] = r]
  BY <1>2 DEF StopDateElapses, DcommDateElapses, RowGoesStale
<1>5. r \in Row /\ r.deploy_status = Standing[f]
  BY <1>3, <1>4 DEF Row, Date
<1>6. Standing' = Standing
  BY <1>1, <1>3, <1>4, <1>5, WrittenStanding
<1> QED BY <1>1, <1>6, SeenUnchanged

\* The bulk updates of a cycle are the three sweeps, and applyElapsedStops writes no
\* status.  The worker is at no environment then.
LEMMA CycleSeen ==
  LInv /\ (RecoverProvisioning \/ RecoverReconfiguring \/ ApplyStops \/ DetectDrift) => Seen
<1> SUFFICES ASSUME LInv, RecoverProvisioning \/ RecoverReconfiguring \/ ApplyStops \/ DetectDrift
             PROVE  Seen
  OBVIOUS
<1>1. /\ RowsOK /\ Running' = Running
      /\ env = NULL /\ env' = env
  BY TypeOKParts, RunningKept
     DEF LInv, IInv, Sound, IdleInv, RecoverProvisioning, RecoverReconfiguring, ApplyStops, DetectDrift,
         KeepTask, Working, Completion
<1>2. ASSUME NEW e \in Env, Exists(e) PROVE customer_env[e] \in Row
  BY <1>1, <1>2, ExistingRow
<1>3. CASE RecoverProvisioning
  <2> DEFINE S == {e \in Env: StatusIn(e, {"provisioning"}) /\ customer_env[e].stale}
  <2>1. ASSUME NEW e \in Env
        PROVE  /\ e \in S => customer_env'[e] # NULL /\ customer_env'[e].deploy_status = "pending"
               /\ e \notin S => customer_env'[e] = customer_env[e]
    <3>1. CASE e \in S
      <4> DEFINE r == [customer_env[e] EXCEPT !.deploy_status = "pending"]
      <4>1. customer_env'[e] = Touched(r)
        BY <1>3, <3>1 DEF RecoverProvisioning, recoverStuckProvisioningRows, UpdateWhere, StatusIn
      <4>2. r \in Row /\ r.deploy_status = "pending"
        BY <1>2, <3>1 DEF StatusIn, Row, Status
      <4> QED BY <3>1, <4>1, <4>2, TouchedRow
    <3>2. CASE e \notin S
      BY <1>3, <3>2 DEF RecoverProvisioning, recoverStuckProvisioningRows, UpdateWhere, StatusIn
    <3> QED BY <3>1, <3>2
  <2>2. S \in SUBSET Env /\ \A e \in S: StatusIn(e, {"provisioning"})
    OBVIOUS
  <2> HIDE DEF S
  <2>3. Promised!Sweep({"provisioning"}, "pending")
    BY <1>1, <2>1, <2>2, SweptStanding
  <2> QED BY <2>3 DEF Seen, Promised!Next
<1>4. CASE RecoverReconfiguring
  <2> DEFINE S == {e \in Env: StatusIn(e, {"reconfiguring"}) /\ customer_env[e].stale}
  <2>1. ASSUME NEW e \in Env
        PROVE  /\ e \in S => customer_env'[e] # NULL /\ customer_env'[e].deploy_status = "deployed"
               /\ e \notin S => customer_env'[e] = customer_env[e]
    <3>1. CASE e \in S
      <4> DEFINE r == [customer_env[e] EXCEPT !.deploy_status = "deployed"]
      <4>1. customer_env'[e] = Touched(r)
        BY <1>4, <3>1 DEF RecoverReconfiguring, recoverStuckReconfiguringRows, UpdateWhere, StatusIn
      <4>2. r \in Row /\ r.deploy_status = "deployed"
        BY <1>2, <3>1 DEF StatusIn, Row, Status
      <4> QED BY <3>1, <4>1, <4>2, TouchedRow
    <3>2. CASE e \notin S
      BY <1>4, <3>2 DEF RecoverReconfiguring, recoverStuckReconfiguringRows, UpdateWhere, StatusIn
    <3> QED BY <3>1, <3>2
  <2>2. S \in SUBSET Env /\ \A e \in S: StatusIn(e, {"reconfiguring"})
    OBVIOUS
  <2> HIDE DEF S
  <2>3. Promised!Sweep({"reconfiguring"}, "deployed")
    BY <1>1, <2>1, <2>2, SweptStanding
  <2> QED BY <2>3 DEF Seen, Promised!Next
<1>5. CASE DetectDrift
  <2> DEFINE S == {e \in Env: Exists(e) /\ Drifted(customer_env[e])}
  <2>1. ASSUME NEW e \in Env
        PROVE  /\ e \in S => customer_env'[e] # NULL /\ customer_env'[e].deploy_status = "reconfiguring"
               /\ e \notin S => customer_env'[e] = customer_env[e]
    <3>1. CASE e \in S
      <4> DEFINE r == [customer_env[e] EXCEPT !.deploy_status = "reconfiguring"]
      <4>1. customer_env'[e] = Touched(r)
        BY <1>5, <3>1 DEF DetectDrift, detectAndEnqueueReconfigs, UpdateWhere
      <4>2. r \in Row /\ r.deploy_status = "reconfiguring"
        BY <1>2, <3>1 DEF Row, Status
      <4> QED BY <3>1, <4>1, <4>2, TouchedRow
    <3>2. CASE e \notin S
      BY <1>5, <3>2 DEF DetectDrift, detectAndEnqueueReconfigs, UpdateWhere
    <3> QED BY <3>1, <3>2
  <2>2. S \in SUBSET Env /\ \A e \in S: StatusIn(e, {"deployed", "stopped"})
    BY DEF Drifted, StatusIn
  <2> HIDE DEF S
  <2>3. Promised!Sweep({"deployed", "stopped"}, "reconfiguring")
    BY <1>1, <2>1, <2>2, SweptStanding
  <2> QED BY <2>3 DEF Seen, Promised!Next
<1>6. CASE ApplyStops
  <2>1. ASSUME NEW e \in Env, customer_env'[e] # customer_env[e]
        PROVE  /\ Exists(e) /\ customer_env'[e] # NULL
               /\ customer_env'[e].deploy_status = customer_env[e].deploy_status
    <3> DEFINE r == [customer_env[e] EXCEPT !.config.replicas = 0]
    <3>1. Exists(e) /\ customer_env'[e] = Touched(r)
      BY <1>6, <2>1 DEF ApplyStops, applyElapsedStops, UpdateWhere
    <3>2. customer_env[e] \in Row
      BY <1>2, <3>1
    <3>3. [customer_env[e].config EXCEPT !.replicas = 0] \in Config
      BY <3>2, ConstantsAssumption DEF Row, Config
    <3>4. r \in Row /\ r.deploy_status = customer_env[e].deploy_status
      BY <3>2, <3>3 DEF Row
    <3> QED BY <3>1, <3>4, TouchedRow
  <2>2. Standing' = Standing
    BY <2>1, KeptStanding
  <2> QED BY <1>1, <2>2, SeenUnchanged
<1> QED BY <1>3, <1>4, <1>5, <1>6

\* Taking up a task is Begin: no snapshot row is about a decommissioned environment.
LEMMA DispatchSeen ==
  ASSUME LInv, NEW e \in Env, Dispatch(e)
  PROVE  Seen
<1>1. RowsOK /\ Running' = Running /\ Standing' = Standing /\ env' = e
  BY TypeOKParts, RunningKept, KeptStanding DEF LInv, IInv, Sound, Dispatch, tables
<1>2. pc \notin Working /\ env = NULL
  BY DEF LInv, IdleInv, Dispatch, Working, Completion
<1>3. Standing[e] # "decommissioned"
  <2>1. ~ Decommissioned(e)
    BY <1>2 DEF LInv, IInv, DoneInv, Dispatch, HasTask
  <2>2. NULL # "decommissioned"
    BY ConstantsAssumption DEF Status
  <2> QED BY <1>1, <2>1, <2>2, StandingOf DEF Decommissioned, StatusIn
<1>4. Promised!Begin(e)
  BY <1>1, <1>2, <1>3 DEF Promised!Begin
<1> QED BY <1>4 DEF Seen, Promised!Next

\* Creating and removing resources, with success or not, and before a crash too, is
\* Work: of a decommissioned environment there is nothing left to remove.
LEMMA WorkSeen ==
  ASSUME LInv, pc = "run", UNCHANGED tables, env' = env \/ env' = NULL,
         \/ deployed' = deployed
         \/ deployed' = [deployed EXCEPT ![env] = Target]
  PROVE  Seen
<1>1. RowsOK /\ env \in Env /\ env # NULL /\ deployed \in [Env -> Config \cup {NULL}]
  BY TypeOKParts, ConstantsAssumption DEF LInv, IInv, Sound, TaskInv, Working, WorkerTypeOK
<1>2. Standing' = Standing
  BY KeptStanding DEF tables
<1>3. CASE deployed' = deployed
  <2>1. Running' = Running
    BY <1>3, RunningKept
  <2>2. Promised!Stop \/ env' = env
    BY <1>2, <2>1 DEF Promised!Stop
  <2> QED BY <1>2, <2>1, <2>2, SeenUnchanged DEF Seen, Promised!Next
<1>4. CASE deployed' # deployed
  <2>1. deployed' = [deployed EXCEPT ![env] = Target]
    BY <1>4
  <2>2. ~ Decommissioned(env)
    <3>1. ASSUME Decommissioned(env) PROVE deployed[env] = NULL /\ Target = NULL
      BY <1>1, <3>1 DEF LInv, IInv, Sound, TaskInv, DoneInv, Target, Working
    <3>2. [deployed EXCEPT ![env] = deployed[env]] = deployed
      BY <1>1
    <3> QED BY <1>4, <2>1, <3>1, <3>2
  <2>3. Standing[env] # "decommissioned"
    <3>1. NULL # "decommissioned"
      BY ConstantsAssumption DEF Status
    <3> QED BY <1>1, <2>2, <3>1, StandingOf DEF Decommissioned, StatusIn
  <2>4. Running' = [Running EXCEPT ![env] = Target # NULL]
    BY <1>1, <2>1 DEF Running
  <2>5. (Target # NULL) \in BOOLEAN
    OBVIOUS
  <2>6. Promised!Work
    BY <1>1, <1>2, <2>3, <2>4, <2>5 DEF Promised!Work
  <2> QED BY <2>6 DEF Seen, Promised!Next
<1> QED BY <1>3, <1>4

\* The status a task ends with is true: it is written after fn() has returned.
LEMMA FinalSeen == LInv /\ SetFinalStatus => Seen
<1> SUFFICES ASSUME LInv, SetFinalStatus PROVE Seen
  OBVIOUS
<1>1. /\ RowsOK /\ Running' = Running /\ env' = env
      /\ env \in Env /\ env # NULL /\ deployed[env] = Target
  BY TypeOKParts, RunningKept, ConstantsAssumption
     DEF LInv, IInv, Sound, TaskInv, AppliedInv, SetFinalStatus, KeepTask, Working, Completion
<1>2. FinalStatus \in Status
  BY DEF FinalStatus, Status
<1>3. Promised!SetStatus(FinalStatus)
  BY <1>1, <1>2, SetStanding DEF SetFinalStatus, Promised!SetStatus
<1>4. CASE action = "decommission"
  <2>1. FinalStatus = "decommissioned" /\ ~ Running[env]
    BY <1>1, <1>4 DEF FinalStatus, Target, Running
  <2>2. Promised!Finish
    BY <1>1, <1>3, <2>1 DEF Promised!Finish
  <2> QED BY <2>2 DEF Seen, Promised!Next
<1>5. CASE action # "decommission"
  <2>1. FinalStatus \in {"deployed", "stopped"}
    BY <1>5 DEF FinalStatus
  <2>2. Target \in Config
    BY <1>5, TargetType DEF LInv, IInv, Sound, TypeOK, SetFinalStatus, Working, Completion
  <2>3. Running[env]
    BY <1>1, <2>2, ConstantsAssumption DEF Running
  <2>4. Promised!Finish
    BY <1>1, <1>3, <2>1, <2>3 DEF Promised!Finish
  <2> QED BY <2>4 DEF Seen, Promised!Next
<1> QED BY <1>4, <1>5

\* Marking a task begun is Mark, marking it failed is Finish, and the purge is Delete.
LEMMA StatusSeen == LInv /\ (MarkInProgress \/ MarkFailed \/ PurgeRow) => Seen
<1> SUFFICES ASSUME LInv, MarkInProgress \/ MarkFailed \/ PurgeRow PROVE Seen
  OBVIOUS
<1>1. /\ RowsOK /\ Running' = Running /\ env' = env
      /\ env \in Env /\ env # NULL
  BY TypeOKParts, RunningKept, ConstantsAssumption
     DEF LInv, IInv, Sound, TaskInv, MarkInProgress, MarkFailed, PurgeRow, KeepTask, Working, Completion
<1>2. CASE MarkInProgress
  <2> DEFINE s == IF action = "provision" THEN "provisioning" ELSE "decommissioning"
  <2>1. Promised!SetStatus(s)
    BY <1>1, <1>2, SetStanding DEF MarkInProgress, Status, Promised!SetStatus
  <2>2. Promised!Mark
    BY <1>1, <2>1 DEF Promised!Mark
  <2> QED BY <2>2 DEF Seen, Promised!Next
<1>3. CASE MarkFailed
  <2>1. Promised!SetStatus("failed")
    BY <1>1, <1>3, SetStanding DEF MarkFailed, Status, Promised!SetStatus
  <2>2. Promised!Finish
    BY <1>1, <2>1 DEF Promised!Finish
  <2> QED BY <2>2 DEF Seen, Promised!Next
<1>4. CASE PurgeRow
  <2>1. hardDeleteEnv(env)
    BY <1>4 DEF PurgeRow
  <2>2. CASE Exists(env)
    <3>1. Promised!Delete(env)
      BY <1>1, <2>1, <2>2, GoneStanding, StandingOf DEF Promised!Delete
    <3> QED BY <1>1, <3>1 DEF Seen, Promised!Next
  <2>3. CASE ~ Exists(env)
    BY <1>1, <2>1, <2>3, GoneStanding, SeenUnchanged
  <2> QED BY <2>2, <2>3
<1> QED BY <1>2, <1>3, <1>4

\* Log entries and the baseline are not seen, and a task or a cycle that ends is Stop.
LEMMA QuietSeen ==
  ASSUME LInv, UNCHANGED deployed,
         \/ UNCHANGED customer_env /\ (KeepTask \/ NextTask \/ AbandonCycle)
         \/ UNCHANGED customer_env /\ LogRetrying
         \/ FetchSnapshot
         \/ RecordApplied
  PROVE  Seen
<1>1. Running' = Running /\ RowsOK
  BY RunningKept, TypeOKParts DEF LInv, IInv, Sound
<1>2. Standing' = Standing
  <2>1. CASE UNCHANGED customer_env
    BY <2>1, KeptStanding
  <2>2. CASE RecordApplied /\ ~ Exists(env)
    BY <2>2, KeptStanding DEF RecordApplied, updateLastAppliedConfig
  <2>3. CASE RecordApplied /\ Exists(env)
    <3> DEFINE r == [customer_env[env] EXCEPT !.last_applied_config = snapshot[env].config,
                                              !.modified = FALSE, !.stale = FALSE]
    <3>1. env \in Env /\ snapshot[env].config \in Config
      <4>1. pc \in Working /\ action # "decommission"
        BY <2>3 DEF RecordApplied, LInv, IInv, Sound, TaskInv, Working, Completion
      <4> QED BY <4>1, TargetType DEF LInv, IInv, Sound, TypeOK, TaskInv, Target
    <3>2. customer_env[env] \in Row /\ Standing[env] = customer_env[env].deploy_status
      BY <1>1, <2>3, <3>1, StandingOf
    <3>3. r \in Row /\ r.deploy_status = Standing[env]
      BY <3>1, <3>2 DEF Row
    <3>4. customer_env' = [customer_env EXCEPT ![env] = r]
      BY <2>3 DEF RecordApplied, updateLastAppliedConfig
    <3> HIDE DEF r
    <3> QED BY <1>1, <3>1, <3>3, <3>4, WrittenStanding
  <2> QED BY <2>1, <2>2, <2>3 DEF FetchSnapshot, tables
<1>3. env' = env \/ env' = NULL
  BY DEF KeepTask, NextTask, AbandonCycle, LogRetrying, FetchSnapshot, RecordApplied
<1>4. CASE env' = env
  BY <1>1, <1>2, <1>4, SeenUnchanged
<1>5. CASE env' = NULL
  <2>1. Promised!Stop
    BY <1>1, <1>2, <1>5 DEF Promised!Stop
  <2> QED BY <2>1 DEF Seen, Promised!Next
<1> QED BY <1>3, <1>4, <1>5

\* Every step of the control plane is a step of Lifecycle, or changes nothing of it.
LEMMA EveryStepSeen == LInv /\ [Next]_vars => Seen
<1> SUFFICES ASSUME LInv, [Next]_vars PROVE Seen
  OBVIOUS
<1>1. CASE UNCHANGED vars
  BY <1>1, KeptStanding, RunningKept, SeenUnchanged DEF vars, tables, workerVars
<1>2. CASE WorkerStep
  <2>1. CASE RunSucceeds \/ RunFails
    <3>1. pc = "run" /\ UNCHANGED tables /\ env' = env
      BY <2>1 DEF RunSucceeds, RunFails, logStepFailed, KeepTask, tables
    <3>2. deployed' = deployed \/ deployed' = [deployed EXCEPT ![env] = Target]
      <4>1. env \in Env /\ deployed \in [Env -> Config \cup {NULL}]
        BY <3>1 DEF LInv, IInv, Sound, TaskInv, TypeOK, WorkerTypeOK, Working
      <4> QED BY <2>1, <4>1 DEF RunSucceeds, RunFails
    <3> QED BY <3>1, <3>2, WorkSeen
  <2>2. CASE \/ StartCycle \/ EndCycle \/ LogSuccess \/ LogSuccessFails \/ LogRetrying
             \/ LogFailed \/ LogInCatchFails \/ FetchSnapshot \/ RecordApplied
    BY <2>2, QuietSeen
       DEF StartCycle, EndCycle, LogSuccess, LogSuccessFails, LogRetrying, LogFailed, LogInCatchFails,
           FetchSnapshot, RecordApplied, tables
  <2> QED BY <1>2, <2>1, <2>2, CycleSeen, DispatchSeen, FinalSeen, StatusSeen DEF WorkerStep
<1>3. CASE WorkerCrash
  <2>1. CASE pc = "run"
    BY <1>3, <2>1, WorkSeen DEF WorkerCrash, AbandonCycle
  <2>2. CASE pc # "run"
    BY <1>3, <2>2, QuietSeen DEF WorkerCrash, tables
  <2> QED BY <2>1, <2>2
<1>4. CASE DbErrorInTry \/ DbErrorOutside
  BY <1>4, QuietSeen DEF DbErrorInTry, DbErrorOutside, tables
<1> QED BY <1>1, <1>2, <1>3, <1>4, OperatorSeen, RequestSeen, ClockSeen DEF Next, Worker, Crash, DbError

---------------------------------------------------------------------------
(***************************************************************************)
(* The theorems                                                            *)
(***************************************************************************)

\* The worker says 'deployed', 'stopped' and 'decommissioned' only when it is true, and
\* creates and removes resources only of the environment it is at and never once that
\* one is decommissioned, whatever was requested, thrown, recovered or lost meanwhile.
THEOREM KeepsLifecycleAlways == Spec => KeepsLifecycle
<1>1. LInv /\ [Next]_vars => [Promised!Next]_(Promised!vars)
  BY EveryStepSeen DEF Seen
<1> QED BY <1>1, LInvAlways, PTL DEF Spec, KeepsLifecycle

\* The control plane implements Lifecycle.
THEOREM ImplementsLifecycle == Spec => Promised!Spec
<1>1. Init => Promised!Init
  <2> SUFFICES ASSUME Init PROVE Promised!Init
    OBVIOUS
  <2>1. Standing = [e \in Env |-> NULL]
    BY DEF Init, TablesInit, Standing, Exists
  <2>2. Running = [e \in Env |-> FALSE]
    BY DEF Init, WorkerInit, Running
  <2> QED BY <2>1, <2>2 DEF Init, WorkerInit, AtRest, Promised!Init
<1>2. LInv /\ [Next]_vars => [Promised!Next]_(Promised!vars)
  BY EveryStepSeen DEF Seen
<1> QED BY <1>1, <1>2, LInvAlways, PTL DEF Spec, Promised!Spec

=============================================================================
