---------------------------- MODULE RetryProofs ----------------------------
(***************************************************************************)
(* How often fn() is called, for any environments, handlers and bounds.    *)
(* The retry count lives in the log and not in the worker, so it is read   *)
(* again after a crash, reset under a running task by a retrigger, and     *)
(* deleted with the row.  tries counts the calls; the invariants relate it *)
(* to the window in the log and to attempt, the worker's own copy of it.   *)
(***************************************************************************)
EXTENDS ControlPlaneTypes, FiniteSetTheorems

\* fn() has been called for e in the current run of runWithRetry.
Begun(e, a) == pc \in Working \ {"mark"} /\ env = e /\ action = a

\* ... and the last attempt has not been given up yet.
Attempting(e, a) == Begun(e, a) /\ pc # "log_failed"

\* The worker's copy of the count is never behind the log, and never past its end.
CountInv ==
  /\ \A e \in Env, a \in Action: getRetryCount(e, a) < MAX_RETRIES
  /\ pc \in Working => getRetryCount(env, action) <= attempt /\ attempt < MAX_RETRIES

---------------------------------------------------------------------------
(***************************************************************************)
(* Not too many calls                                                      *)
(***************************************************************************)

\* The retriggers that have reset a window and have not queued the row yet.
Logged ==
  {q \in Request: requests[q] # NULL /\ requests[q].kind = "retrigger" /\ requests[q].logged}

\* The calls that what went wrong has cost so far; a retrigger costs its own only
\* when it queues the row.
Granted ==
  count.crashes + count.faults + count.retriggers + count.purges - Cardinality(Logged)

\* Every call has left a 'retrying' row or has been granted.
Rested(e, a) == tries[e][a] <= getRetryCount(e, a) + Granted

\* One more may be made that leaves no row.
Spare(e, a) == tries[e][a] + 1 <= getRetryCount(e, a) + Granted

\* All but one.
Spent(e, a) == tries[e][a] <= getRetryCount(e, a) + Granted + 1

\* The statuses from which the worker comes back to deploy without being asked to.
Live == {"pending", "provisioning", "reconfiguring", "deployed", "stopped"}

\* Where another run may begin: the row is, or was read, in such a status, or it is
\* missing and may be created again.
MustRest(e, a) ==
  \/ ~ Exists(e)
  \/ StatusIn(e, Live) /\ ~ Attempting(e, a)
  \/ ToDeploy(e) /\ ~ Begun(e, a)

\* Where a run is to begin for a row that is missing: its call leaves no row.
MustSpare(e, a) == ~ Exists(e) /\ ToDeploy(e) /\ ~ Begun(e, a)

\* At most one call has left no row, and none where another run may begin.
Balanced(e, a) ==
  /\ Spent(e, a)
  /\ MustRest(e, a) => Rested(e, a)
  /\ MustSpare(e, a) => Spare(e, a)

BudgetInv ==
  /\ IsFiniteSet(Logged)
  /\ Granted >= 0
  /\ \A e \in Env, a \in Counted: Balanced(e, a)

---------------------------------------------------------------------------
(***************************************************************************)
(* Not too few calls                                                       *)
(***************************************************************************)

Undisturbed == count.retriggers = 0 /\ count.purges = 0

\* The log claims no call that was not made, ...
Honest(e, a) ==
  /\ getRetryCount(e, a) <= tries[e][a]
  /\ deployment_log[e][a].failed => MAX_RETRIES <= tries[e][a]

\* ... and neither does the worker.
HonestTask ==
  pc \in Working /\ action \in Counted =>
    /\ attempt <= tries[env][action]
    /\ pc # "mark" => attempt + 1 <= tries[env][action]
    /\ pc = "log_failed" => MAX_RETRIES <= tries[env][action]

HonestInv == Undisturbed => HonestTask /\ \A e \in Env, a \in Counted: Honest(e, a)

RetryInv == Sound /\ CountInv /\ BudgetInv /\ HonestInv

---------------------------------------------------------------------------
(***************************************************************************)
(* A baseline for what is deployed                                         *)
(***************************************************************************)

Calm == count.crashes = 0 /\ count.faults = 0 /\ count.retriggers = 0

\* Nothing that is deployed, or waits for a patch, lacks a baseline, but for the row
\* whose baseline is written next.
Based(e) ==
  StatusIn(e, {"deployed", "stopped", "reconfiguring"}) /\ ~ (pc = "record" /\ env = e)
    => customer_env[e].last_applied_config # NULL

\* No retrigger is past its first statement.
NothingLogged ==
  \A q \in Request: requests[q] # NULL /\ requests[q].kind = "retrigger" => ~ requests[q].logged

BaselineInv == Calm => NothingLogged /\ \A e \in Env: Based(e)

---------------------------------------------------------------------------
(***************************************************************************)
(* What the statements do to the log and to the history                    *)
(***************************************************************************)

\* The four statements on deployment_log, seen from one window.
LEMMA LogEffects ==
  ASSUME LogOK, NEW e \in Env, NEW a \in Action, NEW f \in Env, NEW b \in Action, NEW n \in Nat
  PROVE  /\ logSuccess(f, b) =>
              deployment_log'[e][a] = IF e = f /\ a = b THEN FreshWindows[a] ELSE deployment_log[e][a]
         /\ hardDeleteEnv(f) =>
              deployment_log'[e][a] = IF e = f THEN FreshWindows[a] ELSE deployment_log[e][a]
         /\ logRetrying(f, b, n) =>
              /\ getRetryCount(e, a)' = IF e = f /\ a = b /\ n > getRetryCount(e, a) THEN n
                                         ELSE getRetryCount(e, a)
              /\ deployment_log'[e][a].failed = deployment_log[e][a].failed
         /\ logFailed(f, b) =>
              /\ getRetryCount(e, a)' = getRetryCount(e, a)
              /\ deployment_log'[e][a].failed = (deployment_log[e][a].failed \/ (e = f /\ a = b))
<1>1. deployment_log[e] \in [Action -> Window] /\ deployment_log[f] \in [Action -> Window]
      /\ deployment_log[e][a] \in Window /\ deployment_log[f][b] \in Window
  BY DEF LogOK
<1>2. ASSUME logSuccess(f, b)
      PROVE  deployment_log'[e][a] = IF e = f /\ a = b THEN FreshWindows[a] ELSE deployment_log[e][a]
  BY <1>1, <1>2 DEF logSuccess, LogOK
<1>3. ASSUME hardDeleteEnv(f)
      PROVE  deployment_log'[e][a] = IF e = f THEN FreshWindows[a] ELSE deployment_log[e][a]
  BY <1>1, <1>3 DEF hardDeleteEnv, LogOK
<1>4. ASSUME logRetrying(f, b, n)
      PROVE  /\ getRetryCount(e, a)' = IF e = f /\ a = b /\ n > getRetryCount(e, a) THEN n
                                         ELSE getRetryCount(e, a)
             /\ deployment_log'[e][a].failed = deployment_log[e][a].failed
  BY <1>1, <1>4 DEF logRetrying, LogOK, Window, getRetryCount
<1>5. ASSUME logFailed(f, b)
      PROVE  /\ getRetryCount(e, a)' = getRetryCount(e, a)
             /\ deployment_log'[e][a].failed = (deployment_log[e][a].failed \/ (e = f /\ a = b))
  BY <1>1, <1>5 DEF logFailed, LogOK, Window, getRetryCount
<1> QED BY <1>2, <1>3, <1>4, <1>5

\* A fresh window counts nothing.
LEMMA FreshWindow ==
  ASSUME NEW a \in Action
  PROVE  FreshWindows[a].retries = 0 /\ FreshWindows[a].failed = FALSE
BY DEF FreshWindows

\* The three things that happen to the history.
LEMMA TriesEffects ==
  ASSUME tries \in [Env -> [Counted -> Nat]], NEW e \in Env, NEW a \in Counted, NEW f \in Env, NEW b
  PROVE  /\ CountTry(f, b) =>
              tries'[e][a] = IF e = f /\ a = b THEN tries[e][a] + 1 ELSE tries[e][a]
         /\ ForgetTries(f, b) =>
              tries'[e][a] = IF e = f /\ a = b THEN 0 ELSE tries[e][a]
         /\ tries' = [tries EXCEPT ![f] = NoTries] =>
              tries'[e][a] = IF e = f THEN 0 ELSE tries[e][a]
BY DEF CountTry, ForgetTries, NoTries

\* All other steps leave both alone.
LEMMA QuietSteps ==
  ASSUME [Next]_vars,
         \A q \in Request: ~ DeletePurge(q) /\ ~ RetriggerLog(q),
         \A e \in Env: ~ Dispatch(e),
         ~ MarkInProgress, ~ PurgeRow, ~ LogSuccess, ~ LogRetrying, ~ LogFailed
  PROVE  UNCHANGED <<deployment_log, tries>>
<1>1. CASE OperatorStep
  BY <1>1 DEF OperatorStep, CreateEnv, EditEnv, StopEnv, DecommissionEnv, DeleteSelect, RetriggerSelect, tables
<1>2. CASE RequestStep
  BY <1>2 DEF RequestStep, DeleteStep, RetriggerStep, DeleteFlag, RetriggerLogFails, RetriggerUpdate, tables
<1>3. CASE ClockStep
  BY <1>3 DEF ClockStep, StopDateElapses, DcommDateElapses, RowGoesStale
<1>4. CASE Worker
  BY <1>4 DEF Worker, WorkerStep, StartCycle, RecoverProvisioning, RecoverReconfiguring, ApplyStops,
     DetectDrift, FetchSnapshot, EndCycle, RunSucceeds, RunFails, logStepFailed, SetFinalStatus, RecordApplied,
     LogSuccessFails, MarkFailed, LogInCatchFails, tables
<1>5. CASE Crash \/ DbError \/ UNCHANGED vars
  BY <1>5 DEF Crash, DbError, WorkerCrash, DbErrorInTry, DbErrorOutside, tables, vars
<1> QED BY <1>1, <1>2, <1>3, <1>4, <1>5 DEF Next

\* A task that runs after a step ran before it, unless the step begins it or its next
\* attempt.
LEMMA TaskKept ==
  ASSUME [Next]_vars, pc' \in Working, \A e \in Env: ~ Dispatch(e), ~ LogRetrying
  PROVE  /\ pc \in Working
         /\ UNCHANGED <<snapshot, env, action, attempt>>
         /\ pc' = "mark" => pc = "mark"
         /\ pc = "mark" /\ pc' # "mark" => MarkInProgress
         /\ pc' = "log_failed" => pc = "log_failed" \/ MarkFailed
         /\ pc = "log_failed" => pc' = "log_failed"
<1>1. CASE UNCHANGED workerVars
  BY <1>1 DEF workerVars
<1>2. CASE Worker
  BY <1>2 DEF Worker, WorkerStep, StartCycle, RecoverProvisioning, RecoverReconfiguring, ApplyStops,
     DetectDrift, FetchSnapshot, EndCycle, MarkInProgress, RunSucceeds, RunFails, SetFinalStatus,
     RecordApplied, PurgeRow, LogSuccess, LogSuccessFails, MarkFailed, LogFailed, LogInCatchFails,
     AbandonCycle, NextTask, KeepTask, Goto, Working, Completion
<1>3. CASE Crash \/ DbError
  BY <1>3 DEF Crash, DbError, WorkerCrash, DbErrorInTry, DbErrorOutside, AbandonCycle, KeepTask, Goto,
     Working, Completion
<1>4. CASE UNCHANGED vars
  BY <1>1, <1>4 DEF vars
<1> QED BY <1>1, <1>2, <1>3, <1>4 DEF Next, OperatorStep, RequestStep, DeleteStep, RetriggerStep, ClockStep

---------------------------------------------------------------------------
(***************************************************************************)
(* What one step does to one window                                        *)
(***************************************************************************)

\* The four ways in which a window changes, if it does.
SameWindow(e, a) == deployment_log'[e][a] = deployment_log[e][a]

FreshWindowOf(e, a) == deployment_log'[e][a] = FreshWindows[a]

RetryLogged(e, a) ==
  /\ LogRetrying /\ e = env /\ a = action
  /\ deployment_log'[e][a].failed = deployment_log[e][a].failed
  /\ getRetryCount(e, a)' = IF attempt + 1 > getRetryCount(e, a) THEN attempt + 1 ELSE getRetryCount(e, a)

FailureLogged(e, a) ==
  /\ LogFailed /\ e = env /\ a = action
  /\ getRetryCount(e, a)' = getRetryCount(e, a)

\* Whom a handler in flight is about.
LEMMA HandlerTypes ==
  ASSUME Sound, NEW q \in Request, DeletePurge(q) \/ RetriggerLog(q)
  PROVE  /\ requests[q].env \in Env
         /\ RetriggerLog(q) => requests[q].action \in Action \cup {"stop"}
BY DEF Sound, TypeOK, ApiTypeOK, InFlight, DeletePurge, RetriggerLog

\* What is known while a task runs.
LEMMA TaskTypes ==
  ASSUME Sound
  PROVE  /\ LogOK
         /\ tries \in [Env -> [Counted -> Nat]]
         /\ attempt \in Nat
         /\ pc \in Working => env \in Env /\ action \in Action
BY TypeOKParts DEF Sound, WorkerTypeOK, TaskInv

LEMMA WindowChange ==
  ASSUME Sound, [Next]_vars, NEW e \in Env, NEW a \in Action
  PROVE  \/ SameWindow(e, a)
         \/ FreshWindowOf(e, a)
         \/ RetryLogged(e, a)
         \/ FailureLogged(e, a)
<1> USE TaskTypes
<1>1. CASE \E q \in Request: DeletePurge(q)
  <2>1. PICK q \in Request: DeletePurge(q)
    BY <1>1
  <2>2. hardDeleteEnv(requests[q].env) /\ requests[q].env \in Env /\ 0 \in Nat
    BY <2>1, HandlerTypes DEF DeletePurge
  <2> QED BY <2>2, LogEffects DEF SameWindow, FreshWindowOf
<1>2. CASE \E q \in Request: RetriggerLog(q)
  <2>1. PICK q \in Request: RetriggerLog(q)
    BY <1>2
  <2>2. CASE requests[q].action = "stop"
    BY <2>1, <2>2 DEF RetriggerLog, SameWindow
  <2>3. CASE requests[q].action # "stop"
    <3>1. logSuccess(requests[q].env, requests[q].action) /\ 0 \in Nat
          /\ requests[q].env \in Env /\ requests[q].action \in Action
      BY <2>1, <2>3, HandlerTypes DEF RetriggerLog
    <3> QED BY <3>1, LogEffects DEF SameWindow, FreshWindowOf
  <2> QED BY <2>2, <2>3
<1>3. CASE PurgeRow
  <2>1. hardDeleteEnv(env) /\ env \in Env /\ action \in Action /\ 0 \in Nat
    BY <1>3 DEF PurgeRow, Working, Completion
  <2> QED BY <2>1, LogEffects DEF SameWindow, FreshWindowOf
<1>4. CASE LogSuccess
  <2>1. logSuccess(env, action) /\ env \in Env /\ action \in Action /\ 0 \in Nat
    BY <1>4 DEF LogSuccess, Working, Completion
  <2> QED BY <2>1, LogEffects DEF SameWindow, FreshWindowOf
<1>5. CASE LogRetrying
  <2>1. logRetrying(env, action, attempt + 1) /\ env \in Env /\ action \in Action /\ attempt + 1 \in Nat
    BY <1>5 DEF LogRetrying, Working
  <2>2. CASE e = env /\ a = action
    BY <1>5, <2>1, <2>2, LogEffects DEF RetryLogged
  <2>3. CASE ~ (e = env /\ a = action)
    BY <2>1, <2>3 DEF logRetrying, LogOK, SameWindow
  <2> QED BY <2>2, <2>3
<1>6. CASE LogFailed
  <2>1. logFailed(env, action) /\ env \in Env /\ action \in Action /\ 0 \in Nat
    BY <1>6 DEF LogFailed, Working
  <2>2. CASE e = env /\ a = action
    BY <1>6, <2>1, <2>2, LogEffects DEF FailureLogged
  <2>3. CASE ~ (e = env /\ a = action)
    BY <2>1, <2>3 DEF logFailed, LogOK, SameWindow
  <2> QED BY <2>2, <2>3
<1>7. CASE MarkInProgress \/ \E f \in Env: Dispatch(f)
  BY <1>7 DEF MarkInProgress, Dispatch, tables, SameWindow
<1> QED BY <1>1, <1>2, <1>3, <1>4, <1>5, <1>6, <1>7, QuietSteps DEF SameWindow

\* What a dispatched task starts with.
LEMMA Dispatched ==
  ASSUME Sound, CountInv, NEW e \in Env, Dispatch(e)
  PROVE  /\ env' = e /\ action' = TaskFor(snapshot[e]) /\ action' \in Action
         /\ snapshot[e] # NULL /\ snapshot' = snapshot /\ pc = "dispatch"
         /\ attempt' = getRetryCount(e, action') /\ attempt' < MAX_RETRIES
         /\ pc' = IF action' = "patch" THEN "run" ELSE "mark"
         /\ UNCHANGED <<tables, deployed>>
         /\ IF action' = "patch" THEN CountTry(e, action') ELSE UNCHANGED tries
<1>1. /\ env' = e /\ action' = TaskFor(snapshot[e]) /\ action' \in Action
      /\ snapshot[e] # NULL /\ snapshot' = snapshot /\ pc = "dispatch"
      /\ attempt' = getRetryCount(e, action')
      /\ UNCHANGED <<tables, deployed>>
  BY TaskForIsAction DEF Dispatch, HasTask
<1>2. attempt' \in Nat /\ attempt' < MAX_RETRIES /\ MAX_RETRIES \in Nat
  BY <1>1, TaskTypes, ConstantsAssumption DEF CountInv, LogOK, Window, getRetryCount
<1>3. pc' = IF action' = "patch" THEN "run" ELSE "mark"
  BY <1>2 DEF Dispatch, Goto
<1>4. IF action' = "patch" THEN CountTry(e, action') ELSE UNCHANGED tries
  BY <1>3 DEF Dispatch
<1> QED BY <1>1, <1>2, <1>3, <1>4

\* No window is ever full, and the log does not get ahead of the worker.
LEMMA CountStep == Sound /\ CountInv /\ [Next]_vars => CountInv'
<1> SUFFICES ASSUME Sound, CountInv, [Next]_vars PROVE CountInv'
  OBVIOUS
<1>1. /\ LogOK /\ attempt \in Nat /\ MAX_RETRIES \in Nat \ {0}
      /\ \A e \in Env, a \in Action: getRetryCount(e, a) \in Nat
  BY TaskTypes, ConstantsAssumption DEF LogOK, Window, getRetryCount
<1>2. ASSUME NEW e \in Env, NEW a \in Action PROVE getRetryCount(e, a)' < MAX_RETRIES
  <2>1. CASE SameWindow(e, a)
    BY <2>1 DEF SameWindow, CountInv, getRetryCount
  <2>2. CASE FreshWindowOf(e, a)
    <3>1. getRetryCount(e, a)' = 0
      BY <2>2, FreshWindow DEF FreshWindowOf, getRetryCount
    <3> QED BY <1>1, <3>1
  <2>3. CASE RetryLogged(e, a)
    BY <1>1, <2>3 DEF RetryLogged, LogRetrying, CountInv
  <2>4. CASE FailureLogged(e, a)
    BY <2>4 DEF FailureLogged, CountInv
  <2> QED BY <2>1, <2>2, <2>3, <2>4, WindowChange
<1>3. ASSUME pc' \in Working
      PROVE  getRetryCount(env, action)' <= attempt' /\ attempt' < MAX_RETRIES
  <2>1. CASE \E e \in Env: Dispatch(e)
    <3>1. PICK e \in Env: Dispatch(e)
      BY <2>1
    <3>2. env' = e /\ action' \in Action /\ attempt' = getRetryCount(e, action') /\ attempt' < MAX_RETRIES
          /\ deployment_log' = deployment_log
      BY <3>1, Dispatched DEF tables
    <3>3. getRetryCount(env, action)' = attempt'
      BY <3>2 DEF getRetryCount
    <3> QED BY <1>1, <3>2, <3>3
  <2>2. CASE LogRetrying
    <3>1. env' = env /\ action' = action /\ attempt' = attempt + 1 /\ attempt < MAX_RETRIES - 1 /\ pc \in Working
      BY <2>2 DEF LogRetrying, Working
    <3>2. env \in Env /\ action \in Action /\ getRetryCount(env, action) <= attempt
      BY <3>1, TaskTypes DEF CountInv
    <3>3. logRetrying(env, action, attempt + 1)
      BY <2>2 DEF LogRetrying
    <3>4. deployment_log'[env][action].retries = attempt + 1
      BY <1>1, <3>2, <3>3, LogEffects DEF getRetryCount
    <3> QED BY <1>1, <3>1, <3>4 DEF getRetryCount
  <2>3. CASE ~ (\E e \in Env: Dispatch(e)) /\ ~ LogRetrying
    <3>1. pc \in Working /\ env' = env /\ action' = action /\ attempt' = attempt
      BY <1>3, <2>3, TaskKept
    <3>2. env \in Env /\ action \in Action /\ getRetryCount(env, action) <= attempt /\ attempt < MAX_RETRIES
      BY <3>1, TaskTypes DEF CountInv
    <3>3. deployment_log'[env][action].retries \in {0, getRetryCount(env, action)}
      BY <2>3, <3>2, WindowChange, FreshWindow
         DEF SameWindow, FreshWindowOf, RetryLogged, FailureLogged, getRetryCount
    <3> QED BY <1>1, <3>1, <3>2, <3>3 DEF getRetryCount
  <2> QED BY <2>1, <2>2, <2>3
<1> QED BY <1>2, <1>3 DEF CountInv

---------------------------------------------------------------------------
(***************************************************************************)
(* What has been granted never shrinks                                     *)
(***************************************************************************)

LEMMA GrantedType ==
  ASSUME Sound, IsFiniteSet(Logged)
  PROVE  /\ Granted \in Int
         /\ Cardinality(Logged) \in Nat
         /\ count.crashes \in Nat /\ count.faults \in Nat
         /\ count.retriggers \in Nat /\ count.purges \in Nat
BY FS_CardinalityType DEF Granted, Sound, TypeOK, Counters

\* The first of the two statements of a retrigger is paid for by the second one.
LEMMA GrantedByLog ==
  ASSUME Sound, IsFiniteSet(Logged), NEW q \in Request, RetriggerLog(q),
         count' = [count EXCEPT !.retriggers = @ + 1]
  PROVE  IsFiniteSet(Logged)' /\ Granted' = Granted
<1>1. requests \in [Request -> InFlight \cup {NULL}] /\ count \in Counters
  BY DEF Sound, TypeOK, ApiTypeOK
<1>2. requests[q] \in [kind: {"retrigger"}, env: Env, action: Action \cup {"stop"}, logged: BOOLEAN]
  BY <1>1 DEF RetriggerLog, InFlight
<1>3. requests' = [requests EXCEPT ![q] = [requests[q] EXCEPT !.logged = TRUE]]
  BY <1>1 DEF RetriggerLog
<1>4. /\ requests'[q] # NULL /\ requests'[q].kind = "retrigger" /\ requests'[q].logged
      /\ \A p \in Request: p # q => requests'[p] = requests[p]
  <2>1. requests'[q] = [requests[q] EXCEPT !.logged = TRUE]
    BY <1>1, <1>3
  <2>2. requests'[q] \in InFlight
    BY <1>2, <2>1 DEF InFlight
  <2>3. requests'[q].kind = "retrigger" /\ requests'[q].logged
    BY <1>2, <2>1
  <2>4. requests'[q] # NULL
    BY <2>2, InFlightAssumption
  <2> QED BY <1>1, <1>3, <2>3, <2>4
<1>5. Logged' = Logged \cup {q} /\ q \notin Logged
  BY <1>4 DEF Logged, RetriggerLog
<1>6. IsFiniteSet(Logged)' /\ Cardinality(Logged') = Cardinality(Logged) + 1
  BY <1>5, FS_AddElement
<1>7. /\ count'.retriggers = count.retriggers + 1 /\ count'.crashes = count.crashes
      /\ count'.faults = count.faults /\ count'.purges = count.purges
  BY <1>1 DEF Counters
<1> QED BY <1>6, <1>7, GrantedType DEF Granted

\* The second statement uses it up, and any fault drops all.
LEMMA GrantedByUpdate ==
  ASSUME Sound, IsFiniteSet(Logged), NEW q \in Request, RetriggerUpdate(q), UNCHANGED count
  PROVE  IsFiniteSet(Logged)' /\ Granted' = Granted + 1
<1>1. requests' = [requests EXCEPT ![q] = NULL] /\ requests \in [Request -> InFlight \cup {NULL}]
  BY DEF RetriggerUpdate, Answer, Sound, TypeOK, ApiTypeOK
<1>2. Logged' = Logged \ {q} /\ q \in Logged
  BY <1>1 DEF Logged, RetriggerUpdate
<1>3. IsFiniteSet(Logged)' /\ Cardinality(Logged') = Cardinality(Logged) - 1
  BY <1>2, FS_RemoveElement
<1> QED BY <1>3, GrantedType DEF Granted

LEMMA GrantedByFault ==
  ASSUME Sound, IsFiniteSet(Logged), Crash \/ DbError
  PROVE  IsFiniteSet(Logged)' /\ Granted' >= Granted + 1 /\ Granted' \in Int
<1>1. count \in Counters
  BY DEF Sound, TypeOK
<1>2. CASE Crash
  <2>1. Logged' = {}
    BY <1>2 DEF Crash, Logged
  <2>2. IsFiniteSet(Logged)' /\ Cardinality(Logged') = 0
    BY <2>1, FS_EmptySet
  <2>3. /\ count'.retriggers = count.retriggers /\ count'.crashes = count.crashes + 1
        /\ count'.faults = count.faults /\ count'.purges = count.purges
    BY <1>1, <1>2 DEF Crash, Counters
  <2> QED BY <2>2, <2>3, GrantedType DEF Granted
<1>3. CASE DbError
  <2>1. Logged' = Logged
    BY <1>3 DEF DbError, Logged
  <2>2. /\ count'.retriggers = count.retriggers /\ count'.crashes = count.crashes
        /\ count'.faults = count.faults + 1 /\ count'.purges = count.purges
    BY <1>1, <1>3 DEF DbError, Counters
  <2> QED BY <2>1, <2>2, GrantedType DEF Granted
<1> QED BY <1>2, <1>3

\* A delete of a row that the worker is to deploy is granted one.
LEMMA GrantedByPurge ==
  ASSUME Sound, IsFiniteSet(Logged), NEW q \in Request, DeletePurge(q),
         count' = IF ToDeploy(requests[q].env) THEN [count EXCEPT !.purges = @ + 1] ELSE count
  PROVE  /\ IsFiniteSet(Logged)'
         /\ Granted' = IF ToDeploy(requests[q].env) THEN Granted + 1 ELSE Granted
<1>1. /\ requests' = [requests EXCEPT ![q] = NULL] /\ requests \in [Request -> InFlight \cup {NULL}]
      /\ count \in Counters
  BY DEF DeletePurge, Answer, Sound, TypeOK, ApiTypeOK
<1>2. Logged' = Logged
  BY <1>1 DEF Logged, DeletePurge
<1>3. /\ count'.retriggers = count.retriggers /\ count'.crashes = count.crashes
      /\ count'.faults = count.faults
      /\ count'.purges = IF ToDeploy(requests[q].env) THEN count.purges + 1 ELSE count.purges
  BY <1>1 DEF Counters
<1> QED BY <1>2, <1>3, GrantedType DEF Granted

\* Nothing else changes it.
LEMMA GrantedElse ==
  ASSUME Sound, IsFiniteSet(Logged),
         \/ OperatorStep
         \/ \E q \in Request: (DeleteFlag(q) \/ RetriggerLogFails(q)) /\ UNCHANGED count
         \/ UNCHANGED <<requests, count>>
  PROVE  IsFiniteSet(Logged)' /\ Granted' = Granted
<1>1. requests \in [Request -> InFlight \cup {NULL}] /\ count \in Counters
  BY DEF Sound, TypeOK, ApiTypeOK
<1>2. /\ count'.retriggers = count.retriggers /\ count'.crashes = count.crashes
      /\ count'.faults = count.faults /\ count'.purges = count.purges
  BY <1>1 DEF OperatorStep, Counters
<1>3. Logged' = Logged
  <2>1. CASE UNCHANGED requests
    BY <2>1 DEF Logged
  <2>2. CASE \E e \in Env, q \in Request: DeleteSelect(q, e)
    <3>1. PICK e \in Env, q \in Request: DeleteSelect(q, e)
      BY <2>2
    <3>2. /\ requests[q] = NULL
          /\ requests'[q].kind = "delete"
          /\ \A p \in Request: p # q => requests'[p] = requests[p]
      BY <1>1, <3>1 DEF DeleteSelect
    <3> QED BY <3>2 DEF Logged
  <2>3. CASE \E e \in Env, q \in Request, a \in Action \cup {"stop"}: RetriggerSelect(q, e, a)
    <3>1. PICK e \in Env, q \in Request, a \in Action \cup {"stop"}: RetriggerSelect(q, e, a)
      BY <2>3
    <3>2. /\ requests[q] = NULL
          /\ requests'[q].logged = FALSE
          /\ \A p \in Request: p # q => requests'[p] = requests[p]
      BY <1>1, <3>1 DEF RetriggerSelect
    <3> QED BY <3>2 DEF Logged
  <2>4. CASE OperatorStep
    <3>1. PICK e \in Env:
            \/ CreateEnv(e) \/ EditEnv(e) \/ StopEnv(e) \/ DecommissionEnv(e)
            \/ \E q \in Request: DeleteSelect(q, e)
            \/ \E q \in Request, a \in Action \cup {"stop"}: RetriggerSelect(q, e, a)
      BY <2>4 DEF OperatorStep
    <3>2. CASE CreateEnv(e) \/ EditEnv(e) \/ StopEnv(e) \/ DecommissionEnv(e)
      BY <2>1, <3>2 DEF CreateEnv, EditEnv, StopEnv, DecommissionEnv
    <3> QED BY <2>2, <2>3, <3>1, <3>2
  <2>5. CASE \E q \in Request: DeleteFlag(q) \/ RetriggerLogFails(q)
    <3>1. PICK q \in Request: DeleteFlag(q) \/ RetriggerLogFails(q)
      BY <2>5
    <3>2. /\ requests' = [requests EXCEPT ![q] = NULL] /\ q \notin Logged
      BY <3>1 DEF DeleteFlag, RetriggerLogFails, Answer, Logged
    <3> QED BY <1>1, <3>2 DEF Logged
  <2> QED BY <2>1, <2>4, <2>5
<1> QED BY <1>2, <1>3 DEF Granted

---------------------------------------------------------------------------
(***************************************************************************)
(* What one step does to the status and the baseline of one row            *)
(***************************************************************************)

StatusKept(e) ==
  /\ Exists(e)' = Exists(e)
  /\ Exists(e) => /\ customer_env'[e].deploy_status = customer_env[e].deploy_status
                  /\ customer_env'[e].last_applied_config = customer_env[e].last_applied_config

Created(e) == ~ Exists(e) /\ Exists(e)' /\ customer_env'[e].deploy_status = "pending"

\* The row, if there is one, gets the status and keeps its baseline.
StatusSet(e, status) ==
  /\ Exists(e)' = Exists(e)
  /\ Exists(e) => /\ customer_env'[e].deploy_status = status
                  /\ customer_env'[e].last_applied_config = customer_env[e].last_applied_config

\* An update that leaves status and baseline alone.
LEMMA TouchedKept ==
  ASSUME RowsOK, NEW e \in Env, Exists(e), NEW r \in Row, customer_env'[e] = Touched(r),
         r.last_applied_config = customer_env[e].last_applied_config
  PROVE  StatusSet(e, r.deploy_status)
<1>1. Touched(r) \in Row /\ Touched(r).deploy_status = r.deploy_status
      /\ Touched(r).last_applied_config = r.last_applied_config
  BY DEF Touched, Row
<1>2. Touched(r) # NULL
  BY <1>1, ConstantsAssumption
<1> QED BY <1>1, <1>2 DEF StatusSet, Exists

LEMMA StatusUpdate ==
  ASSUME RowsOK, NEW e \in Env, NEW f \in Env, NEW status \in Status, setEnvStatus(f, status)
  PROVE  IF e = f THEN StatusSet(e, status) ELSE StatusKept(e)
<1>1. CASE e = f /\ Exists(e)
  <2> DEFINE r == [customer_env[e] EXCEPT !.deploy_status = status]
  <2>1. customer_env[e] \in Row /\ customer_env'[e] = Touched(r)
    BY <1>1, ExistingRow DEF setEnvStatus, UpdateRow, RowsOK
  <2>2. /\ r \in Row /\ r.deploy_status = status
        /\ r.last_applied_config = customer_env[e].last_applied_config
    BY <2>1 DEF Row
  <2> HIDE DEF r
  <2> QED BY <1>1, <2>1, <2>2, TouchedKept
<1>2. CASE ~ (e = f /\ Exists(e))
  BY <1>2 DEF setEnvStatus, UpdateRow, RowsOK, StatusSet, StatusKept, Exists
<1> QED BY <1>1, <1>2

\* Operators write no status, but for that of a new row.
LEMMA OperatorRows ==
  ASSUME RowsOK, NEW e \in Env, OperatorStep
  PROVE  StatusKept(e) \/ Created(e)
<1>1. PICK f \in Env:
        \/ CreateEnv(f) \/ EditEnv(f) \/ StopEnv(f) \/ DecommissionEnv(f)
        \/ \E q \in Request: DeleteSelect(q, f)
        \/ \E q \in Request, a \in Action \cup {"stop"}: RetriggerSelect(q, f, a)
  BY DEF OperatorStep
<1>2. CASE UNCHANGED customer_env
  BY <1>2 DEF StatusKept, Exists
<1>3. CASE CreateEnv(f)
  <2>1. PICK r \in Row: r.deploy_status = "pending" /\ customer_env' = [customer_env EXCEPT ![f] = r]
    <3>1. PICK config \in Config, stop_date \in EntryDate: InsertRow(f, config, stop_date)
      BY <1>3 DEF CreateEnv
    <3>2. [ deploy_status |-> "pending", config |-> config, stop_date |-> stop_date,
            dcomm_date |-> NULL, pending_delete |-> FALSE,
            last_applied_config |-> NULL, modified |-> TRUE, stale |-> FALSE ] \in Row
      BY EntryDateAssumption DEF Row, Status, Date
    <3> QED BY <3>1, <3>2 DEF InsertRow
  <2>2. CASE e = f
    <3>1. customer_env'[e] = r /\ r # NULL
      BY <2>1, <2>2, ConstantsAssumption DEF RowsOK
    <3> QED BY <1>3, <2>1, <2>2, <3>1 DEF CreateEnv, Created, Exists
  <2>3. CASE e # f
    BY <2>1, <2>3 DEF RowsOK, StatusKept, Exists
  <2> QED BY <2>2, <2>3
<1>4. CASE EditEnv(f) \/ StopEnv(f) \/ DecommissionEnv(f)
  <2>1. Exists(f) /\ customer_env[f] \in Row
    BY <1>4, ExistingRow DEF EditEnv, StopEnv, DecommissionEnv, StatusIn
  <2>2. CASE e # f
    BY <1>4, <2>2 DEF EditEnv, StopEnv, DecommissionEnv, UpdateRow, RowsOK, StatusKept, Exists
  <2>3. CASE e = f
    <3>1. PICK r \in Row: /\ r.deploy_status = customer_env[e].deploy_status
                          /\ r.last_applied_config = customer_env[e].last_applied_config
                          /\ customer_env'[e] = Touched(r)
      <4>1. CASE EditEnv(f)
        <5>1. PICK config \in Config, stop_date \in EntryDate, dcomm_date \in EntryDate:
                customer_env'[e] =
                  Touched([customer_env[e] EXCEPT !.config = config, !.stop_date = stop_date,
                                                  !.dcomm_date = dcomm_date])
          BY <2>3, <4>1 DEF EditEnv, UpdateRow, RowsOK
        <5>2. LET r == [customer_env[e] EXCEPT !.config = config, !.stop_date = stop_date,
                                               !.dcomm_date = dcomm_date]
              IN  /\ r \in Row /\ r.deploy_status = customer_env[e].deploy_status
                  /\ r.last_applied_config = customer_env[e].last_applied_config
          BY <2>1, <2>3, EntryDateAssumption DEF Row
        <5> QED BY <5>1, <5>2
      <4>2. CASE StopEnv(f)
        <5>1. customer_env'[e] =
                Touched([customer_env[e] EXCEPT !.config.replicas = 0, !.stop_date = "elapsed"])
          BY <2>1, <2>3, <4>2 DEF StopEnv, UpdateRow, RowsOK
        <5>2. LET r == [customer_env[e] EXCEPT !.config.replicas = 0, !.stop_date = "elapsed"]
              IN  /\ r \in Row /\ r.deploy_status = customer_env[e].deploy_status
                  /\ r.last_applied_config = customer_env[e].last_applied_config
          <6>1. [customer_env[e].config EXCEPT !.replicas = 0] \in Config
            BY <2>1, <2>3, ConstantsAssumption DEF Row, Config
          <6> QED BY <2>1, <2>3, <6>1 DEF Row, Date
        <5> QED BY <5>1, <5>2
      <4>3. CASE DecommissionEnv(f)
        <5>1. customer_env'[e] = Touched([customer_env[e] EXCEPT !.dcomm_date = "elapsed"])
          BY <2>1, <2>3, <4>3 DEF DecommissionEnv, UpdateRow, RowsOK
        <5>2. LET r == [customer_env[e] EXCEPT !.dcomm_date = "elapsed"]
              IN  /\ r \in Row /\ r.deploy_status = customer_env[e].deploy_status
                  /\ r.last_applied_config = customer_env[e].last_applied_config
          BY <2>1, <2>3 DEF Row, Date
        <5> QED BY <5>1, <5>2
      <4> QED BY <1>4, <4>1, <4>2, <4>3
    <3> QED BY <2>1, <2>3, <3>1, TouchedKept DEF StatusSet, StatusKept
  <2> QED BY <2>2, <2>3
<1> QED BY <1>1, <1>2, <1>3, <1>4 DEF DeleteSelect, RetriggerSelect, tables

\* Flagging a row for deletion and the clock write none.
LEMMA FlagRows ==
  ASSUME RowsOK, NEW e \in Env, NEW q \in Request, DeleteFlag(q), requests[q].env \in Env
  PROVE  StatusKept(e)
<1>1. CASE e = requests[q].env /\ Exists(e)
  <2> DEFINE r == [customer_env[e] EXCEPT !.pending_delete = TRUE, !.dcomm_date = "elapsed"]
  <2>1. customer_env[e] \in Row /\ customer_env'[e] = Touched(r)
    BY <1>1, ExistingRow DEF DeleteFlag, UpdateRow, RowsOK
  <2>2. /\ r \in Row /\ r.deploy_status = customer_env[e].deploy_status
        /\ r.last_applied_config = customer_env[e].last_applied_config
    BY <2>1 DEF Row, Date
  <2> HIDE DEF r
  <2> QED BY <1>1, <2>1, <2>2, TouchedKept DEF StatusSet, StatusKept
<1>2. CASE ~ (e = requests[q].env /\ Exists(e))
  BY <1>2 DEF DeleteFlag, UpdateRow, RowsOK, StatusKept, Exists
<1> QED BY <1>1, <1>2

LEMMA ClockRows ==
  ASSUME RowsOK, NEW e \in Env, ClockStep
  PROVE  StatusKept(e)
<1>1. PICK f \in Env: StopDateElapses(f) \/ DcommDateElapses(f) \/ RowGoesStale(f)
  BY DEF ClockStep
<1>2. CASE e # f
  BY <1>1, <1>2 DEF StopDateElapses, DcommDateElapses, RowGoesStale, RowsOK, StatusKept, Exists
<1>3. CASE e = f
  <2>1. Exists(e) /\ customer_env[e] \in Row
    BY <1>1, <1>3, ExistingRow DEF StopDateElapses, DcommDateElapses, RowGoesStale, StatusIn
  <2>2. customer_env'[e] \in { [customer_env[e] EXCEPT !.stop_date = "elapsed"],
                               [customer_env[e] EXCEPT !.dcomm_date = "elapsed"],
                               [customer_env[e] EXCEPT !.stale = TRUE] }
    BY <1>1, <1>3 DEF StopDateElapses, DcommDateElapses, RowGoesStale, RowsOK
  <2>3. customer_env'[e] \in Row
    BY <2>1, <2>2 DEF Row, Date
  <2>4. customer_env'[e] # NULL
    BY <2>3, ConstantsAssumption
  <2> QED BY <2>1, <2>2, <2>4 DEF StatusKept, Exists, Row
<1> QED BY <1>2, <1>3

\* What the last statement of a retrigger writes.
QueuedStatus(a) ==
  CASE a = "provision" -> "pending"
    [] a = "patch" -> "reconfiguring"
    [] a = "stop" -> "stopping"
    [] a = "decommission" -> "decommissioning"

LEMMA RetriggerRows ==
  ASSUME RowsOK, NEW e \in Env, NEW q \in Request, RetriggerUpdate(q),
         requests[q].env \in Env, requests[q].action \in Action \cup {"stop"}
  PROVE  IF e = requests[q].env THEN StatusSet(e, QueuedStatus(requests[q].action)) ELSE StatusKept(e)
<1>1. CASE e = requests[q].env /\ Exists(e)
  <2> DEFINE r == Queued(customer_env[e], requests[q].action)
  <2>1. customer_env[e] \in Row /\ customer_env'[e] = Touched(r)
    BY <1>1, ExistingRow DEF RetriggerUpdate, UpdateRow, RowsOK
  <2>2. /\ r \in Row /\ r.deploy_status = QueuedStatus(requests[q].action)
        /\ r.last_applied_config = customer_env[e].last_applied_config
    BY <2>1 DEF Queued, QueuedStatus, Action, Row, Status, Date
  <2> HIDE DEF r
  <2> QED BY <1>1, <2>1, <2>2, TouchedKept
<1>2. CASE ~ (e = requests[q].env /\ Exists(e))
  BY <1>2 DEF RetriggerUpdate, UpdateRow, RowsOK, StatusSet, StatusKept, Exists
<1> QED BY <1>1, <1>2

\* What the statements of a cycle do to the rows they select.
CycleChange(e) ==
  /\ Exists(e)
  /\ \/ customer_env[e].deploy_status = "provisioning" /\ StatusSet(e, "pending")
     \/ customer_env[e].deploy_status = "reconfiguring" /\ StatusSet(e, "deployed")
     \/ /\ customer_env[e].deploy_status \in {"deployed", "stopped"}
        /\ customer_env[e].last_applied_config # NULL
        /\ StatusSet(e, "reconfiguring")

LEMMA BulkUpdateRows ==
  ASSUME RowsOK, NEW e \in Env,
         \/ recoverStuckProvisioningRows
         \/ recoverStuckReconfiguringRows
         \/ applyElapsedStops
         \/ detectAndEnqueueReconfigs
  PROVE  StatusKept(e) \/ CycleChange(e)
<1>1. CASE customer_env'[e] = customer_env[e]
  BY <1>1 DEF StatusKept, Exists
<1>2. CASE Exists(e) /\ customer_env'[e] # customer_env[e]
  <2>1. customer_env[e] \in Row
    BY <1>2, ExistingRow
  <2>2. CASE recoverStuckProvisioningRows
    <3>1. /\ customer_env[e].deploy_status = "provisioning"
          /\ customer_env'[e] = Touched([customer_env[e] EXCEPT !.deploy_status = "pending"])
      BY <1>2, <2>2 DEF recoverStuckProvisioningRows, UpdateWhere
    <3> DEFINE r == [customer_env[e] EXCEPT !.deploy_status = "pending"]
    <3>2. /\ r \in Row /\ r.deploy_status = "pending"
          /\ r.last_applied_config = customer_env[e].last_applied_config
      BY <2>1 DEF Row, Status
    <3> HIDE DEF r
    <3>3. StatusSet(e, "pending")
      BY <1>2, <3>1, <3>2, TouchedKept DEF r
    <3> QED BY <1>2, <3>1, <3>3 DEF CycleChange
  <2>3. CASE recoverStuckReconfiguringRows
    <3>1. /\ customer_env[e].deploy_status = "reconfiguring"
          /\ customer_env'[e] = Touched([customer_env[e] EXCEPT !.deploy_status = "deployed"])
      BY <1>2, <2>3 DEF recoverStuckReconfiguringRows, UpdateWhere
    <3> DEFINE r == [customer_env[e] EXCEPT !.deploy_status = "deployed"]
    <3>2. /\ r \in Row /\ r.deploy_status = "deployed"
          /\ r.last_applied_config = customer_env[e].last_applied_config
      BY <2>1 DEF Row, Status
    <3> HIDE DEF r
    <3>3. StatusSet(e, "deployed")
      BY <1>2, <3>1, <3>2, TouchedKept DEF r
    <3> QED BY <1>2, <3>1, <3>3 DEF CycleChange
  <2>4. CASE applyElapsedStops
    <3>1. customer_env'[e] = Touched([customer_env[e] EXCEPT !.config.replicas = 0])
      BY <1>2, <2>4 DEF applyElapsedStops, UpdateWhere
    <3> DEFINE r == [customer_env[e] EXCEPT !.config.replicas = 0]
    <3>2. [customer_env[e].config EXCEPT !.replicas = 0] \in Config
      BY <2>1, ConstantsAssumption DEF Row, Config
    <3>3. /\ r \in Row /\ r.deploy_status = customer_env[e].deploy_status
          /\ r.last_applied_config = customer_env[e].last_applied_config
      BY <2>1, <3>2 DEF Row
    <3> HIDE DEF r
    <3>4. StatusSet(e, customer_env[e].deploy_status)
      BY <1>2, <3>1, <3>3, TouchedKept DEF r
    <3> QED BY <1>2, <3>4 DEF StatusSet, StatusKept
  <2>5. CASE detectAndEnqueueReconfigs
    <3>1. /\ Drifted(customer_env[e])
          /\ customer_env'[e] = Touched([customer_env[e] EXCEPT !.deploy_status = "reconfiguring"])
      BY <1>2, <2>5 DEF detectAndEnqueueReconfigs, UpdateWhere
    <3> DEFINE r == [customer_env[e] EXCEPT !.deploy_status = "reconfiguring"]
    <3>2. /\ r \in Row /\ r.deploy_status = "reconfiguring"
          /\ r.last_applied_config = customer_env[e].last_applied_config
      BY <2>1 DEF Row, Status
    <3> HIDE DEF r
    <3>3. StatusSet(e, "reconfiguring")
      BY <1>2, <3>1, <3>2, TouchedKept DEF r
    <3> QED BY <1>2, <3>1, <3>3 DEF CycleChange, Drifted
  <2> QED BY <2>2, <2>3, <2>4, <2>5
<1>3. CASE ~ Exists(e)
  BY <1>3 DEF recoverStuckProvisioningRows, recoverStuckReconfiguringRows, applyElapsedStops,
     detectAndEnqueueReconfigs, UpdateWhere, StatusKept, Exists
<1> QED BY <1>1, <1>2, <1>3

---------------------------------------------------------------------------
(***************************************************************************)
(* The budget of calls                                                     *)
(***************************************************************************)

\* The calls made and the calls logged are numbers, before a step and after it.
LEMMA Numbers ==
  ASSUME Sound, Sound', NEW e \in Env, NEW a \in Counted
  PROVE  /\ tries[e][a] \in Nat /\ getRetryCount(e, a) \in Nat
         /\ tries'[e][a] \in Nat /\ getRetryCount(e, a)' \in Nat
<1>1. a \in Action
  BY DEF Counted, Action
<1>2. /\ tries \in [Env -> [Counted -> Nat]] /\ LogOK
      /\ tries' \in [Env -> [Counted -> Nat]] /\ LogOK'
  BY TypeOKParts DEF Sound, WorkerTypeOK
<1>3. tries[e] \in [Counted -> Nat] /\ tries'[e] \in [Counted -> Nat]
  BY <1>2
<1>4. deployment_log[e][a] \in Window /\ deployment_log'[e][a] \in Window
  BY <1>1, <1>2 DEF LogOK
<1> QED BY <1>3, <1>4 DEF Window, getRetryCount

\* The step grants n calls.
Grants(n) == IsFiniteSet(Logged)' /\ Granted' \in Int /\ Granted' >= Granted + n

\* A balance that need not change does not, ...
Settled(e, a) ==
  /\ tries'[e][a] = tries[e][a]
  /\ getRetryCount(e, a)' >= getRetryCount(e, a)
  /\ MustRest(e, a)' => MustRest(e, a)
  /\ MustSpare(e, a)' => MustSpare(e, a)

LEMMA BalancedKept ==
  ASSUME Sound, Sound', BudgetInv, NEW e \in Env, NEW a \in Counted, Grants(0), Settled(e, a)
  PROVE  Balanced(e, a)'
<1>1. Granted \in Int /\ Balanced(e, a)
  BY GrantedType DEF BudgetInv
<1> QED BY <1>1, Numbers DEF Grants, Settled, Balanced, Spent, Rested, Spare

\* ... one call granted covers the one that has left no row, ...
LEMMA BalancedGranted ==
  ASSUME Sound, Sound', BudgetInv, NEW e \in Env, NEW a \in Counted, Grants(1),
         tries'[e][a] = tries[e][a],
         getRetryCount(e, a)' >= getRetryCount(e, a),
         MustSpare(e, a)' => MustSpare(e, a)
  PROVE  Balanced(e, a)'
<1>1. Granted \in Int /\ Balanced(e, a)
  BY GrantedType DEF BudgetInv
<1>2. ~ Exists(e) => MustRest(e, a)
  BY DEF MustRest
<1> QED BY <1>1, <1>2, Numbers DEF Grants, Balanced, Spent, Rested, Spare, MustSpare

\* ... and nothing is owed in a new window.
LEMMA BalancedReset ==
  ASSUME Sound, Sound', BudgetInv, NEW e \in Env, NEW a \in Counted, Grants(0),
         tries'[e][a] = 0,
         MustSpare(e, a)' => Grants(1)
  PROVE  Balanced(e, a)'
<1>1. Granted \in Int /\ Granted >= 0
  BY GrantedType DEF BudgetInv
<1> QED BY <1>1, Numbers DEF Grants, Balanced, Spent, Rested, Spare

\* Whether a run may begin for e depends on e's row and on the worker.
LEMMA SettledByRow ==
  ASSUME NEW e \in Env, NEW a \in Counted, UNCHANGED <<workerVars, deployment_log, tries>>,
         Sound, Sound',
         \/ StatusKept(e)
         \/ Created(e)
         \/ \E s \in Status \ Live: StatusSet(e, s)
  PROVE  Settled(e, a)
<1>1. /\ tries'[e][a] = tries[e][a] /\ getRetryCount(e, a)' = getRetryCount(e, a)
      /\ getRetryCount(e, a) \in Nat
  BY Numbers DEF getRetryCount
<1>2. /\ Attempting(e, a)' = Attempting(e, a) /\ Begun(e, a)' = Begun(e, a)
      /\ ToDeploy(e)' = ToDeploy(e)
  BY DEF workerVars, Attempting, Begun, ToDeploy
<1>3. /\ Exists(e) => Exists(e)'
      /\ StatusIn(e, Live)' => StatusIn(e, Live) \/ ~ Exists(e)
  BY DEF StatusKept, Created, StatusSet, StatusIn
<1> QED BY <1>1, <1>2, <1>3 DEF Settled, MustRest, MustSpare

\* What operators, the clock and the smaller statements of the handlers do.
LEMMA BudgetBystander ==
  ASSUME Sound, Sound', BudgetInv, Grants(0), UNCHANGED <<workerVars, deployment_log, tries>>,
         \A e \in Env: StatusKept(e) \/ Created(e)
  PROVE  BudgetInv'
<1>1. ASSUME NEW e \in Env, NEW a \in Counted PROVE Balanced(e, a)'
  BY SettledByRow, BalancedKept
<1>2. Granted \in Int
  BY GrantedType DEF BudgetInv
<1> QED BY <1>1, <1>2 DEF BudgetInv, Grants

\* A hard delete forgets what was called, and what was logged with it; a row that the
\* worker was going to deploy is granted a call.
LEMMA BudgetDelete ==
  ASSUME Sound, Sound', BudgetInv, NEW f \in Env, hardDeleteEnv(f),
         tries' = [tries EXCEPT ![f] = NoTries],
         snapshot' = snapshot, Grants(0), ToDeploy(f) => Grants(1),
         \A e \in Env, a \in Counted:
            e # f => Begun(e, a)' = Begun(e, a) /\ Attempting(e, a)' = Attempting(e, a)
  PROVE  BudgetInv'
<1>1. ASSUME NEW e \in Env, NEW a \in Counted PROVE Balanced(e, a)'
  <2>1. a \in Action /\ RowsOK /\ LogOK /\ tries \in [Env -> [Counted -> Nat]] /\ 0 \in Nat
    BY TypeOKParts DEF Sound, WorkerTypeOK, Counted, Action
  <2>2. CASE e = f
    <3>1. tries'[e][a] = 0
      BY <2>1, <2>2, TriesEffects
    <3>2. MustSpare(e, a)' => Grants(1)
      BY <2>2 DEF MustSpare, ToDeploy
    <3> QED BY <3>1, <3>2, BalancedReset
  <2>3. CASE e # f
    <3>1. tries'[e][a] = tries[e][a]
      BY <2>1, <2>3, TriesEffects
    <3>2. deployment_log'[e][a] = deployment_log[e][a] /\ customer_env'[e] = customer_env[e]
      BY <2>1, <2>3, LogEffects DEF hardDeleteEnv, RowsOK
    <3>3. getRetryCount(e, a)' >= getRetryCount(e, a)
      BY <3>2, Numbers DEF getRetryCount
    <3>4. Settled(e, a)
      BY <2>3, <3>1, <3>2, <3>3 DEF Settled, MustRest, MustSpare, ToDeploy, Exists, StatusIn
    <3> QED BY <3>4, BalancedKept
  <2> QED BY <2>2, <2>3
<1>2. Granted \in Int
  BY GrantedType DEF BudgetInv
<1> QED BY <1>1, <1>2 DEF BudgetInv, Grants

\* A retrigger's first statement resets one window of a row that is there.
LEMMA BudgetRetriggerLog ==
  ASSUME Sound, Sound', BudgetInv, NEW q \in Request, RetriggerLog(q),
         ForgetTries(requests[q].env, requests[q].action), UNCHANGED workerVars, Grants(0)
  PROVE  BudgetInv'
<1> DEFINE f == requests[q].env
           b == requests[q].action
<1>1. f \in Env /\ b \in Action \cup {"stop"}
  BY HandlerTypes
<1>2. ASSUME NEW e \in Env, NEW a \in Counted PROVE Balanced(e, a)'
  <2>1. a \in Action /\ LogOK /\ tries \in [Env -> [Counted -> Nat]] /\ 0 \in Nat
    BY TypeOKParts DEF Sound, WorkerTypeOK, Counted, Action
  <2>2. customer_env' = customer_env
    BY DEF RetriggerLog
  <2>3. CASE e = f /\ a = b
    <3>1. tries'[e][a] = 0
      BY <2>1, <2>3, TriesEffects
    <3>2. ~ MustSpare(e, a)'
      BY <2>2, <2>3 DEF RetriggerLog, MustSpare, Exists
    <3> QED BY <3>1, <3>2, BalancedReset
  <2>4. CASE ~ (e = f /\ a = b)
    <3>1. tries'[e][a] = tries[e][a]
      BY <1>1, <2>1, <2>4, TriesEffects
    <3>2. deployment_log'[e][a] = deployment_log[e][a]
      <4>1. CASE b = "stop"
        BY <4>1 DEF RetriggerLog
      <4>2. CASE b # "stop"
        <5>1. logSuccess(f, b) /\ b \in Action
          BY <1>1, <4>2 DEF RetriggerLog
        <5> QED BY <1>1, <2>1, <2>4, <5>1, LogEffects
      <4> QED BY <4>1, <4>2
    <3>3. getRetryCount(e, a)' >= getRetryCount(e, a)
      BY <3>2, Numbers DEF getRetryCount
    <3>4. Settled(e, a)
      BY <2>2, <3>1, <3>3
         DEF Settled, MustRest, MustSpare, ToDeploy, Exists, StatusIn, Begun, Attempting, workerVars
    <3> QED BY <3>4, BalancedKept
  <2> QED BY <2>3, <2>4
<1>3. Granted \in Int
  BY GrantedType DEF BudgetInv
<1> QED BY <1>2, <1>3 DEF BudgetInv, Grants

\* Its last one puts the row back to work, and is granted the call.
LEMMA BudgetRetriggerUpdate ==
  ASSUME Sound, Sound', BudgetInv, Grants(1), UNCHANGED <<workerVars, deployment_log, tries>>,
         \A e \in Env: Exists(e)' = Exists(e)
  PROVE  BudgetInv'
<1>1. ASSUME NEW e \in Env, NEW a \in Counted PROVE Balanced(e, a)'
  <2>1. tries'[e][a] = tries[e][a] /\ getRetryCount(e, a)' >= getRetryCount(e, a)
    BY Numbers DEF getRetryCount
  <2>2. MustSpare(e, a)' => MustSpare(e, a)
    BY DEF MustSpare, ToDeploy, Begun, workerVars
  <2> QED BY <2>1, <2>2, BalancedGranted
<1>2. Granted \in Int
  BY GrantedType DEF BudgetInv
<1> QED BY <1>1, <1>2 DEF BudgetInv, Grants

\* A fault is granted one too.
LEMMA BudgetFault ==
  ASSUME Sound, Sound', BudgetInv, Crash \/ DbError
  PROVE  BudgetInv'
<1>1. Granted \in Int /\ Grants(1)
  BY GrantedType, GrantedByFault DEF BudgetInv, Grants
<1>2. ASSUME NEW e \in Env, NEW a \in Counted PROVE Balanced(e, a)'
  <2>1. UNCHANGED <<tables, tries>>
    BY DEF Crash, DbError, WorkerCrash, DbErrorInTry, DbErrorOutside
  <2>2. tries'[e][a] = tries[e][a] /\ getRetryCount(e, a)' >= getRetryCount(e, a)
    BY <2>1, Numbers DEF getRetryCount, tables
  <2>3. CASE DbErrorInTry
    BY <2>1, <2>2, <2>3, <1>1, BalancedGranted
       DEF MustSpare, ToDeploy, Begun, DbErrorInTry, KeepTask, Goto, Working, Completion, Exists, tables
  <2>4. CASE AbandonCycle
    <3>1. ~ ToDeploy(e)'
      BY <2>4 DEF AbandonCycle, ToDeploy
    <3> QED BY <2>2, <3>1, <1>1, BalancedGranted DEF MustSpare
  <2> QED BY <2>3, <2>4 DEF Crash, DbError, WorkerCrash, DbErrorOutside
<1> QED BY <1>1, <1>2 DEF BudgetInv, Grants

---------------------------------------------------------------------------
(***************************************************************************)
(* The budget and the worker                                               *)
(***************************************************************************)

\* A row calls for a deployment in two statuses only.
LEMMA CountedStatus ==
  ASSUME NEW s, TaskFor(s) \in Counted
  PROVE  s.deploy_status \in {"pending", "reconfiguring"}
<1>1. CASE s.dcomm_date = "elapsed" \/ s.deploy_status = "decommissioning"
  BY <1>1 DEF TaskFor, Counted
<1>2. CASE ~ (s.dcomm_date = "elapsed" \/ s.deploy_status = "decommissioning")
  <2> DEFINE rest == CASE s.deploy_status = "reconfiguring" -> "patch"
                       [] s.deploy_status = "pending" -> "provision"
                       [] OTHER -> NULL
  <2>1. TaskFor(s) = rest
    BY <1>2 DEF TaskFor
  <2>2. ASSUME s.deploy_status \notin {"pending", "reconfiguring"} PROVE rest = NULL
    BY <2>2
  <2>3. NULL \notin Counted
    BY ConstantsAssumption DEF Counted, Action
  <2> QED BY <2>1, <2>2, <2>3
<1> QED BY <1>1, <1>2

\* While e's task goes on, nothing changes but perhaps its row.
LEMMA SettledByTask ==
  ASSUME Sound, Sound', NEW e \in Env, NEW a \in Counted,
         tries'[e][a] = tries[e][a], getRetryCount(e, a)' >= getRetryCount(e, a),
         Exists(e)' = Exists(e), snapshot' = snapshot, Begun(e, a) => Begun(e, a)',
         StatusIn(e, Live)' /\ ~ Attempting(e, a)' => MustRest(e, a)
  PROVE  Settled(e, a)
BY DEF Settled, MustRest, MustSpare, ToDeploy

\* When it ends it leaves nothing to do for e, and no call that is not accounted for.
LEMMA SettledByEnd ==
  ASSUME Sound, Sound', NEW e \in Env, NEW a \in Counted,
         tries'[e][a] = tries[e][a], getRetryCount(e, a)' >= getRetryCount(e, a),
         customer_env' = customer_env,
         ToDeploy(e)' => ToDeploy(e) /\ ~ Begun(e, a),
         ~ Attempting(e, a) \/ ~ Exists(e)
  PROVE  Settled(e, a)
BY DEF Settled, MustRest, MustSpare, Exists, StatusIn

\* fn() is called for a row that was read with that task in mind: whatever becomes of
\* the row, there was a call left for it.
LEMMA BalancedCalled ==
  ASSUME Sound, Sound', BudgetInv, NEW e \in Env, NEW a \in Counted, Grants(0),
         ToDeploy(e), ~ Begun(e, a), Begun(e, a)', Attempting(e, a)',
         Exists(e)' = Exists(e),
         getRetryCount(e, a)' = getRetryCount(e, a),
         tries'[e][a] = tries[e][a] + 1
  PROVE  Balanced(e, a)'
<1>1. Granted \in Int /\ Balanced(e, a)
  BY GrantedType DEF BudgetInv
<1>2. MustRest(e, a) /\ (~ Exists(e) => MustSpare(e, a))
  BY DEF MustRest, MustSpare
<1>3. ~ MustSpare(e, a)' /\ (MustRest(e, a)' => ~ Exists(e))
  BY DEF MustRest, MustSpare
<1> QED BY <1>1, <1>2, <1>3, Numbers DEF Grants, Balanced, Spent, Rested, Spare

\* Before the first task of a cycle.
LEMMA BudgetCycle ==
  ASSUME Sound, Sound', BudgetInv, Grants(0),
         StartCycle \/ RecoverProvisioning \/ RecoverReconfiguring \/ ApplyStops \/ DetectDrift
  PROVE  BudgetInv'
<1>1. ASSUME NEW e \in Env, NEW a \in Counted PROVE Balanced(e, a)'
  <2>1. StatusKept(e) \/ CycleChange(e)
    <3>1. RowsOK
      BY TypeOKParts DEF Sound
    <3> QED BY <3>1, BulkUpdateRows DEF StartCycle, RecoverProvisioning, RecoverReconfiguring, ApplyStops,
               DetectDrift, tables, StatusKept, Exists
  <2>2. /\ UNCHANGED <<deployment_log, tries, snapshot>>
        /\ pc \notin Working /\ pc' \notin Working
    BY DEF StartCycle, RecoverProvisioning, RecoverReconfiguring, ApplyStops, DetectDrift, KeepTask, Goto,
       tables, Working, Completion
  <2>3. tries'[e][a] = tries[e][a] /\ getRetryCount(e, a)' >= getRetryCount(e, a)
    BY <2>2, Numbers DEF getRetryCount
  <2>4. ~ Begun(e, a) /\ ~ Begun(e, a)' /\ ~ Attempting(e, a)
    BY <2>2 DEF Begun, Attempting
  <2>5. Exists(e)' = Exists(e) /\ (StatusIn(e, Live)' => StatusIn(e, Live))
    BY <2>1 DEF StatusKept, CycleChange, StatusSet, StatusIn, Live
  <2> QED BY <2>2, <2>3, <2>4, <2>5, SettledByTask, BalancedKept DEF MustRest
<1>2. Granted \in Int
  BY GrantedType DEF BudgetInv
<1> QED BY <1>1, <1>2 DEF BudgetInv, Grants

\* The snapshot holds rows that are there, and deploys those that are live.
LEMMA BudgetFetch ==
  ASSUME Sound, Sound', BudgetInv, Grants(0), FetchSnapshot
  PROVE  BudgetInv'
<1>1. ASSUME NEW e \in Env, NEW a \in Counted PROVE Balanced(e, a)'
  <2>1. tries'[e][a] = tries[e][a] /\ getRetryCount(e, a)' >= getRetryCount(e, a)
    BY Numbers DEF FetchSnapshot, getRetryCount, tables
  <2>2. ~ Begun(e, a) /\ ~ Begun(e, a)' /\ ~ Attempting(e, a) /\ ~ Attempting(e, a)'
    BY DEF FetchSnapshot, Goto, Begun, Attempting, Working, Completion
  <2>3. ToDeploy(e)' => StatusIn(e, Live)
    <3>1. SUFFICES ASSUME ToDeploy(e)' PROVE StatusIn(e, Live)
      OBVIOUS
    <3>2. StatusIn(e, Polled) /\ snapshot'[e].deploy_status = customer_env[e].deploy_status
      BY <3>1 DEF FetchSnapshot, ToDeploy
    <3>3. snapshot'[e].deploy_status \in {"pending", "reconfiguring"}
      BY <3>1, CountedStatus DEF ToDeploy
    <3> QED BY <3>2, <3>3 DEF StatusIn, Live
  <2>4. customer_env' = customer_env
    BY DEF FetchSnapshot, tables
  <2>5. Settled(e, a)
    BY <2>1, <2>2, <2>3, <2>4 DEF Settled, MustRest, MustSpare, StatusIn, Exists
  <2> QED BY <2>5, BalancedKept
<1>2. Granted \in Int
  BY GrantedType DEF BudgetInv
<1> QED BY <1>1, <1>2 DEF BudgetInv, Grants

\* A patch is called at once, ...
LEMMA BudgetDispatch ==
  ASSUME Sound, Sound', CountInv, BudgetInv, Grants(0), NEW f \in Env, Dispatch(f)
  PROVE  BudgetInv'
<1>1. /\ env' = f /\ action' = TaskFor(snapshot[f]) /\ action' \in Action
      /\ snapshot[f] # NULL /\ snapshot' = snapshot /\ pc = "dispatch"
      /\ pc' = IF action' = "patch" THEN "run" ELSE "mark"
      /\ UNCHANGED <<tables, deployed>>
      /\ IF action' = "patch" THEN CountTry(f, action') ELSE UNCHANGED tries
  BY Dispatched
<1>2. ASSUME NEW e \in Env, NEW a \in Counted PROVE Balanced(e, a)'
  <2>1. tries \in [Env -> [Counted -> Nat]]
    BY TypeOKParts DEF Sound, WorkerTypeOK
  <2>2. getRetryCount(e, a)' = getRetryCount(e, a) /\ customer_env' = customer_env
    BY <1>1 DEF getRetryCount, tables
  <2>3. ~ Begun(e, a) /\ ~ Attempting(e, a)
    BY <1>1 DEF Begun, Attempting, Working, Completion
  <2>4. CASE action' = "patch" /\ e = f /\ a = action'
    <3>1. tries'[e][a] = tries[e][a] + 1
      BY <1>1, <2>1, <2>4, TriesEffects
    <3>2. ToDeploy(e) /\ Begun(e, a)' /\ Attempting(e, a)' /\ Exists(e)' = Exists(e)
      BY <1>1, <2>2, <2>4 DEF ToDeploy, Begun, Attempting, Exists, Working, Counted
    <3> QED BY <2>2, <2>3, <3>1, <3>2, BalancedCalled
  <2>5. CASE ~ (action' = "patch" /\ e = f /\ a = action')
    <3>1. tries'[e][a] = tries[e][a] /\ getRetryCount(e, a)' >= getRetryCount(e, a)
      BY <1>1, <2>1, <2>2, <2>5, TriesEffects, Numbers
    <3>2. Exists(e)' = Exists(e) /\ StatusIn(e, Live)' = StatusIn(e, Live)
      BY <2>2 DEF Exists, StatusIn
    <3> QED BY <1>1, <2>3, <3>1, <3>2, SettledByTask, BalancedKept DEF MustRest
  <2> QED BY <2>4, <2>5
<1>3. Granted \in Int
  BY GrantedType DEF BudgetInv
<1> QED BY <1>2, <1>3 DEF BudgetInv, Grants

\* ... a provision after its row was marked, and a decommission is not counted but
\* takes the row out of the live ones.
LEMMA BudgetMark ==
  ASSUME Sound, Sound', BudgetInv, Grants(0), MarkInProgress
  PROVE  BudgetInv'
<1>1. /\ env \in Env /\ action \in Action /\ action = TaskFor(snapshot[env]) /\ snapshot[env] # NULL
      /\ action # "patch"
  BY DEF MarkInProgress, Sound, TaskInv, Working
<1>2. pc = "mark" /\ pc' = "run" /\ UNCHANGED <<deployment_log, snapshot, env, action>>
  BY DEF MarkInProgress, Goto, KeepTask
<1>3. ASSUME NEW e \in Env, NEW a \in Counted PROVE Balanced(e, a)'
  <2>1. tries \in [Env -> [Counted -> Nat]] /\ RowsOK
    BY TypeOKParts DEF Sound, WorkerTypeOK
  <2>2. getRetryCount(e, a)' = getRetryCount(e, a)
    BY <1>2 DEF getRetryCount
  <2>3. ~ Begun(e, a) /\ ~ Attempting(e, a)
    BY <1>2 DEF Begun, Attempting
  <2>4. /\ Exists(e)' = Exists(e)
        /\ e # env => StatusKept(e)
        /\ action = "decommission" /\ e = env => StatusSet(e, "decommissioning")
    <3>1. (IF action = "provision" THEN "provisioning" ELSE "decommissioning") \in Status
      BY DEF Status
    <3>2. IF e = env THEN StatusSet(e, IF action = "provision" THEN "provisioning" ELSE "decommissioning")
          ELSE StatusKept(e)
      BY <1>1, <2>1, <3>1, StatusUpdate DEF MarkInProgress
    <3> QED BY <3>2 DEF StatusSet, StatusKept
  <2>5. CountTry(env, action)
    BY DEF MarkInProgress
  <2>6. CASE e = env /\ a = action
    <3>1. tries'[e][a] = tries[e][a] + 1
      BY <1>1, <2>1, <2>5, <2>6, TriesEffects
    <3>2. ToDeploy(e) /\ Begun(e, a)' /\ Attempting(e, a)'
      BY <1>1, <1>2, <2>6 DEF ToDeploy, Begun, Attempting, Working
    <3> QED BY <2>2, <2>3, <2>4, <3>1, <3>2, BalancedCalled
  <2>7. CASE ~ (e = env /\ a = action)
    <3>1. tries'[e][a] = tries[e][a] /\ getRetryCount(e, a)' >= getRetryCount(e, a)
      BY <1>1, <2>1, <2>2, <2>5, <2>7, TriesEffects, Numbers
    <3>2. StatusIn(e, Live)' => MustRest(e, a)
      <4>1. CASE e # env
        BY <2>3, <2>4, <4>1 DEF StatusKept, StatusIn, MustRest
      <4>2. CASE e = env /\ action = "decommission"
        BY <2>4, <4>2 DEF StatusSet, StatusIn, Live
      <4>3. CASE e = env /\ action = "provision"
        BY <1>1, <2>3, <4>3 DEF MustRest, ToDeploy, Counted
      <4> QED BY <1>1, <4>1, <4>2, <4>3 DEF Action
    <3> QED BY <1>2, <2>3, <2>4, <3>1, <3>2, SettledByTask, BalancedKept
  <2> QED BY <2>6, <2>7
<1>4. Granted \in Int
  BY GrantedType DEF BudgetInv
<1> QED BY <1>3, <1>4 DEF BudgetInv, Grants

\* The statements of a task that change the status of its row at most.
LEMMA TaskRows ==
  ASSUME Sound, NEW e \in Env,
         RunSucceeds \/ RunFails \/ SetFinalStatus \/ RecordApplied \/ LogSuccessFails \/ MarkFailed
  PROVE  /\ Exists(e)' = Exists(e)
         /\ \/ StatusIn(e, Live)' => StatusIn(e, Live)
            \/ SetFinalStatus /\ e = env
         /\ SetFinalStatus /\ e = env /\ action = "decommission" => ~ StatusIn(e, Live)'
         /\ MarkFailed /\ e = env => ~ StatusIn(e, Live)'
<1>1. RowsOK /\ env \in Env
  BY TypeOKParts DEF Sound, TaskInv, Working, Completion, RunSucceeds, RunFails, SetFinalStatus,
     RecordApplied, LogSuccessFails, MarkFailed
<1>2. CASE RunSucceeds \/ RunFails \/ LogSuccessFails
  BY <1>2 DEF RunSucceeds, RunFails, LogSuccessFails, SetFinalStatus, MarkFailed, tables, Exists, StatusIn
<1>3. CASE SetFinalStatus
  <2>1. FinalStatus \in Status /\ (action = "decommission" => FinalStatus = "decommissioned")
    BY DEF FinalStatus, Status
  <2>2. IF e = env THEN StatusSet(e, FinalStatus) ELSE StatusKept(e)
    BY <1>1, <1>3, <2>1, StatusUpdate DEF SetFinalStatus
  <2> QED BY <1>3, <2>1, <2>2 DEF StatusSet, StatusKept, StatusIn, Live, SetFinalStatus, MarkFailed
<1>4. CASE MarkFailed
  <2>1. IF e = env THEN StatusSet(e, "failed") ELSE StatusKept(e)
    BY <1>1, <1>4, StatusUpdate DEF MarkFailed, Status
  <2> QED BY <1>4, <2>1 DEF StatusSet, StatusKept, StatusIn, Live, SetFinalStatus, MarkFailed
<1>5. CASE RecordApplied
  <2>1. CASE e = env /\ Exists(e)
    <3>1. customer_env[e] \in Row
      BY <1>1, <2>1, ExistingRow
    <3>2. customer_env'[e] = [customer_env[e] EXCEPT !.last_applied_config = snapshot[env].config,
                                                     !.modified = FALSE, !.stale = FALSE]
      BY <1>1, <1>5, <2>1 DEF RecordApplied, updateLastAppliedConfig, RowsOK
    <3>3. snapshot[env].config \in Config
      BY <1>5 DEF RecordApplied, Sound, TypeOK, WorkerTypeOK, TaskInv, Working, Completion, SnapshotRow
    <3>4. customer_env'[e] \in Row /\ customer_env'[e].deploy_status = customer_env[e].deploy_status
      BY <3>1, <3>2, <3>3 DEF Row
    <3>5. customer_env'[e] # NULL
      BY <3>4, ConstantsAssumption
    <3> QED BY <1>5, <2>1, <3>4, <3>5 DEF Exists, StatusIn, RecordApplied, SetFinalStatus, MarkFailed
  <2>2. CASE ~ (e = env /\ Exists(e))
    BY <1>1, <1>5, <2>2 DEF RecordApplied, updateLastAppliedConfig, RowsOK, Exists, StatusIn,
       SetFinalStatus, MarkFailed
  <2> QED BY <2>1, <2>2
<1> QED BY <1>2, <1>3, <1>4, <1>5

\* They call nothing, and a row they make live is one whose calls are accounted for.
LEMMA BudgetTask ==
  ASSUME Sound, Sound', BudgetInv, Grants(0),
         RunSucceeds \/ RunFails \/ SetFinalStatus \/ RecordApplied \/ LogSuccessFails \/ MarkFailed
  PROVE  BudgetInv'
<1>1. /\ env \in Env /\ action \in Action /\ action = TaskFor(snapshot[env]) /\ snapshot[env] # NULL
      /\ pc \in Working \ {"mark", "log_failed"} /\ pc' \in Working \ {"mark"}
      /\ pc' = "log_failed" => MarkFailed
      /\ UNCHANGED <<deployment_log, tries, snapshot, env, action>>
  BY DEF RunSucceeds, RunFails, logStepFailed, SetFinalStatus, RecordApplied, LogSuccessFails, MarkFailed, Goto, KeepTask,
     tables, Sound, TaskInv, Working, Completion
<1>2. ASSUME NEW e \in Env, NEW a \in Counted PROVE Balanced(e, a)'
  <2>1. tries'[e][a] = tries[e][a] /\ getRetryCount(e, a)' >= getRetryCount(e, a)
    BY <1>1, Numbers DEF getRetryCount
  <2>2. Begun(e, a)' = Begun(e, a)
    BY <1>1 DEF Begun
  <2>3. Exists(e)' = Exists(e)
    BY TaskRows
  <2>4. ASSUME StatusIn(e, Live)', ~ Attempting(e, a)' PROVE MustRest(e, a)
    <3>1. ~ (MarkFailed /\ e = env)
      BY <2>4, TaskRows
    <3>2. ~ Attempting(e, a)
      BY <1>1, <2>4, <3>1 DEF Attempting, Begun
    <3>3. CASE StatusIn(e, Live)
      BY <3>2, <3>3 DEF MustRest
    <3>4. CASE SetFinalStatus /\ e = env
      <4>1. action # "decommission"
        BY <2>4, <3>4, TaskRows
      <4>2. ToDeploy(e)
        BY <1>1, <3>4, <4>1 DEF ToDeploy, Action, Counted
      <4>3. ~ Begun(e, a)
        BY <1>1, <3>2 DEF Attempting
      <4> QED BY <4>2, <4>3 DEF MustRest
    <3> QED BY <2>4, <3>3, <3>4, TaskRows
  <2> QED BY <1>1, <2>1, <2>2, <2>3, <2>4, SettledByTask, BalancedKept
<1>3. Granted \in Int
  BY GrantedType DEF BudgetInv
<1> QED BY <1>2, <1>3 DEF BudgetInv, Grants

\* The end of a task, or of a cycle.
LEMMA BudgetEnd ==
  ASSUME Sound, Sound', BudgetInv, Grants(0), LogSuccess \/ LogFailed \/ LogInCatchFails \/ EndCycle
  PROVE  BudgetInv'
<1>1. ASSUME NEW e \in Env, NEW a \in Counted PROVE Balanced(e, a)'
  <2>1. /\ tries \in [Env -> [Counted -> Nat]] /\ LogOK /\ a \in Action /\ 0 \in Nat
        /\ pc # "dispatch" => env \in Env /\ action \in Action
    BY TypeOKParts DEF Sound, WorkerTypeOK, Counted, Action, TaskInv, LogSuccess, LogFailed,
       LogInCatchFails, EndCycle, Working, Completion
  <2>2. customer_env' = customer_env
    BY DEF LogSuccess, LogFailed, LogInCatchFails, EndCycle, tables
  <2>3. ToDeploy(e)' => ToDeploy(e) /\ ~ Begun(e, a)
    <3>1. CASE AbandonCycle
      BY <3>1 DEF AbandonCycle, ToDeploy
    <3>2. CASE NextTask
      BY <3>2 DEF NextTask, ToDeploy, Begun, Sound, TypeOK, WorkerTypeOK
    <3> QED BY <3>1, <3>2 DEF LogSuccess, LogFailed, LogInCatchFails, EndCycle
  <2>4. CASE LogSuccess /\ e = env /\ a = action
    <3>1. tries'[e][a] = 0
      BY <2>1, <2>4, TriesEffects DEF LogSuccess
    <3>2. ~ MustSpare(e, a)'
      BY <2>2, <2>4 DEF LogSuccess, MustSpare, Exists
    <3> QED BY <3>1, <3>2, BalancedReset
  <2>5. CASE ~ (LogSuccess /\ e = env /\ a = action)
    <3>1. tries'[e][a] = tries[e][a]
      BY <2>1, <2>5, TriesEffects DEF LogSuccess, LogFailed, LogInCatchFails, EndCycle
    <3>2. getRetryCount(e, a)' = getRetryCount(e, a)
      <4>1. CASE LogSuccess
        <5>1. logSuccess(env, action) /\ env \in Env /\ action \in Action
          BY <2>1, <4>1 DEF LogSuccess
        <5>2. deployment_log'[e][a] = deployment_log[e][a]
          BY <2>1, <2>5, <4>1, <5>1, LogEffects
        <5> QED BY <5>2 DEF getRetryCount
      <4>2. CASE LogFailed
        <5>1. logFailed(env, action) /\ env \in Env /\ action \in Action
          BY <2>1, <4>2 DEF LogFailed
        <5> QED BY <2>1, <5>1, LogEffects
      <4>3. CASE LogInCatchFails \/ EndCycle
        BY <4>3 DEF LogInCatchFails, EndCycle, tables, getRetryCount
      <4> QED BY <4>1, <4>2, <4>3
    <3>3. ~ Attempting(e, a) \/ ~ Exists(e)
      BY <2>5 DEF Attempting, Begun, LogSuccess, LogFailed, LogInCatchFails, EndCycle, Working, Completion
    <3> QED BY <2>2, <2>3, <3>1, <3>2, <3>3, Numbers, SettledByEnd, BalancedKept
  <2> QED BY <2>4, <2>5
<1>2. Granted \in Int
  BY GrantedType DEF BudgetInv
<1> QED BY <1>1, <1>2 DEF BudgetInv, Grants

\* Another attempt leaves a row for the one before it.
LEMMA BudgetRetry ==
  ASSUME Sound, Sound', CountInv, BudgetInv, Grants(0), LogRetrying
  PROVE  BudgetInv'
<1>1. /\ env \in Env /\ action \in Action /\ Exists(env) /\ pc = "catch" /\ pc' = "run"
      /\ attempt \in Nat /\ getRetryCount(env, action) <= attempt
      /\ UNCHANGED <<customer_env, snapshot, env, action>>
      /\ logRetrying(env, action, attempt + 1) /\ CountTry(env, action)
  BY TaskTypes DEF LogRetrying, Goto, Working, CountInv
<1>2. ASSUME NEW e \in Env, NEW a \in Counted PROVE Balanced(e, a)'
  <2>1. tries \in [Env -> [Counted -> Nat]] /\ LogOK /\ a \in Action /\ attempt + 1 \in Nat
    BY <1>1, TypeOKParts DEF Sound, WorkerTypeOK, Counted, Action
  <2>2. Exists(e)' = Exists(e) /\ StatusIn(e, Live)' = StatusIn(e, Live)
    BY <1>1 DEF Exists, StatusIn
  <2>3. CASE e = env /\ a = action
    <3>1. tries'[e][a] = tries[e][a] + 1
      BY <1>1, <2>1, <2>3, TriesEffects
    <3>2. getRetryCount(e, a)' >= getRetryCount(e, a) + 1
      BY <1>1, <2>1, <2>3, LogEffects, Numbers
    <3>3. ~ MustRest(e, a)' /\ ~ MustSpare(e, a)'
      BY <1>1, <2>2, <2>3 DEF MustRest, MustSpare, Attempting, Begun, Working
    <3>4. Granted \in Int /\ Spent(e, a)
      BY GrantedType DEF BudgetInv, Balanced
    <3> QED BY <3>1, <3>2, <3>3, <3>4, Numbers DEF Grants, Balanced, Spent
  <2>4. CASE ~ (e = env /\ a = action)
    <3>1. tries'[e][a] = tries[e][a]
      BY <1>1, <2>1, <2>4, TriesEffects
    <3>2. getRetryCount(e, a)' >= getRetryCount(e, a)
      BY <1>1, <2>1, <2>4, LogEffects, Numbers
    <3>3. ~ Begun(e, a) /\ ~ Attempting(e, a)
      BY <2>4 DEF Begun, Attempting
    <3> QED BY <1>1, <2>2, <3>1, <3>2, <3>3, SettledByTask, BalancedKept DEF MustRest
  <2> QED BY <2>3, <2>4
<1>3. Granted \in Int
  BY GrantedType DEF BudgetInv
<1> QED BY <1>2, <1>3 DEF BudgetInv, Grants

\* Every step keeps the budget.
LEMMA BudgetStep == Sound /\ CountInv /\ BudgetInv /\ [Next]_vars => BudgetInv'
<1> SUFFICES ASSUME Sound, CountInv, BudgetInv, [Next]_vars PROVE BudgetInv'
  OBVIOUS
<1>1. Sound' /\ RowsOK /\ IsFiniteSet(Logged) /\ Granted \in Int
  BY SoundStep, TypeOKParts, GrantedType DEF BudgetInv, Sound
<1>2. ASSUME \/ OperatorStep
             \/ \E q \in Request: (DeleteFlag(q) \/ RetriggerLogFails(q)) /\ UNCHANGED count
             \/ UNCHANGED <<requests, count>>
      PROVE  Grants(0)
  BY <1>1, <1>2, GrantedElse DEF Grants
<1>3. CASE OperatorStep
  <2>1. UNCHANGED <<workerVars, deployment_log, tries>>
    BY <1>3 DEF OperatorStep, CreateEnv, EditEnv, StopEnv, DecommissionEnv, DeleteSelect, RetriggerSelect, tables
  <2> QED BY <1>1, <1>2, <1>3, <2>1, OperatorRows, BudgetBystander
<1>4. CASE ClockStep
  <2>1. UNCHANGED <<workerVars, deployment_log, tries, requests, count>>
    BY <1>4 DEF ClockStep, StopDateElapses, DcommDateElapses, RowGoesStale
  <2> QED BY <1>1, <1>2, <1>4, <2>1, ClockRows, BudgetBystander
<1>5. CASE RequestStep
  <2>1. PICK q \in Request: DeleteStep(q) \/ RetriggerStep(q)
    BY <1>5 DEF RequestStep
  <2>2. UNCHANGED workerVars /\ requests[q] \in InFlight
    BY <1>1, <2>1 DEF DeleteStep, RetriggerStep, DeletePurge, DeleteFlag, RetriggerLog, RetriggerLogFails,
       RetriggerUpdate, Sound, TypeOK, ApiTypeOK
  <2>3. CASE DeletePurge(q) /\ tries' = [tries EXCEPT ![requests[q].env] = NoTries]
             /\ count' = IF ToDeploy(requests[q].env) THEN [count EXCEPT !.purges = @ + 1] ELSE count
    <3> DEFINE f == requests[q].env
    <3>1. f \in Env /\ hardDeleteEnv(f)
      BY <2>3, HandlerTypes DEF DeletePurge
    <3>2. Grants(0) /\ (ToDeploy(f) => Grants(1))
      BY <1>1, <2>3, GrantedByPurge DEF Grants
    <3>3. /\ snapshot' = snapshot
          /\ \A e \in Env, a \in Counted: Begun(e, a)' = Begun(e, a) /\ Attempting(e, a)' = Attempting(e, a)
      BY <2>2 DEF workerVars, Begun, Attempting
    <3> HIDE DEF f
    <3>4. tries' = [tries EXCEPT ![f] = NoTries]
      BY <2>3 DEF f
    <3> QED BY <1>1, <3>1, <3>2, <3>3, <3>4, BudgetDelete
  <2>4. CASE RetriggerLog(q) /\ ForgetTries(requests[q].env, requests[q].action)
             /\ count' = [count EXCEPT !.retriggers = @ + 1]
    <3>1. Grants(0)
      BY <1>1, <2>4, GrantedByLog DEF Grants
    <3> QED BY <1>1, <2>2, <2>4, <3>1, BudgetRetriggerLog
  <2>5. CASE (DeleteFlag(q) \/ RetriggerLogFails(q)) /\ UNCHANGED <<tries, count>>
    <3>1. UNCHANGED <<workerVars, deployment_log, tries>>
      BY <2>2, <2>5 DEF DeleteFlag, RetriggerLogFails, tables
    <3>2. requests[q].env \in Env
      BY <2>2 DEF InFlight
    <3>3. \A e \in Env: StatusKept(e)
      BY <1>1, <2>5, <3>2, FlagRows DEF RetriggerLogFails, tables, StatusKept, Exists
    <3>4. Grants(0)
      BY <1>2, <2>5
    <3> QED BY <1>1, <3>1, <3>3, <3>4, BudgetBystander
  <2>6. CASE RetriggerUpdate(q) /\ UNCHANGED <<tries, count>>
    <3>1. UNCHANGED <<workerVars, deployment_log, tries>>
      BY <2>2, <2>6 DEF RetriggerUpdate
    <3>2. requests[q].env \in Env /\ requests[q].action \in Action \cup {"stop"}
      BY <2>2, <2>6 DEF InFlight, RetriggerUpdate
    <3>3. \A e \in Env: Exists(e)' = Exists(e)
      BY <1>1, <2>6, <3>2, RetriggerRows DEF StatusSet, StatusKept
    <3>4. Grants(1)
      BY <1>1, <2>6, GrantedByUpdate DEF Grants
    <3> QED BY <1>1, <3>1, <3>3, <3>4, BudgetRetriggerUpdate
  <2> QED BY <2>1, <2>3, <2>4, <2>5, <2>6 DEF DeleteStep, RetriggerStep
<1>6. CASE Worker
  <2>1. Grants(0)
    BY <1>2, <1>6 DEF Worker
  <2>2. CASE PurgeRow
    <3>1. /\ env \in Env /\ hardDeleteEnv(env) /\ ~ ToDeploy(env) /\ snapshot' = snapshot
          /\ tries' = [tries EXCEPT ![env] = NoTries] /\ env' = env
      BY <2>2 DEF PurgeRow, KeepTask, Sound, TaskInv, Working, Completion, ToDeploy, Counted
    <3>2. \A e \in Env, a \in Counted:
            e # env => Begun(e, a)' = Begun(e, a) /\ Attempting(e, a)' = Attempting(e, a)
      BY <3>1 DEF Begun, Attempting
    <3> QED BY <1>1, <2>1, <3>1, <3>2, BudgetDelete
  <2> QED BY <1>1, <1>6, <2>1, <2>2, BudgetCycle, BudgetFetch, BudgetDispatch, BudgetMark, BudgetTask,
             BudgetEnd, BudgetRetry DEF Worker, WorkerStep
<1>7. CASE Crash \/ DbError
  BY <1>1, <1>7, BudgetFault
<1>8. CASE UNCHANGED vars
  <2>1. UNCHANGED <<workerVars, deployment_log, tries, requests, count, customer_env>>
    BY <1>8 DEF vars, tables
  <2>2. \A e \in Env: StatusKept(e)
    BY <2>1 DEF StatusKept, Exists
  <2> QED BY <1>1, <1>2, <2>1, <2>2, BudgetBystander
<1> QED BY <1>3, <1>4, <1>5, <1>6, <1>7, <1>8 DEF Next

---------------------------------------------------------------------------
(***************************************************************************)
(* The log claims no call that was not made                                *)
(***************************************************************************)

\* The counters only grow.
LEMMA UndisturbedBefore ==
  ASSUME Sound, [Next]_vars, Undisturbed'
  PROVE  Undisturbed
<1>1. count \in Counters
  BY DEF Sound, TypeOK
<1>2. \/ count' = count
      \/ count' = [count EXCEPT !.ops = @ + 1]
      \/ count' = [count EXCEPT !.purges = @ + 1]
      \/ count' = [count EXCEPT !.retriggers = @ + 1]
      \/ count' = [count EXCEPT !.crashes = @ + 1]
      \/ count' = [count EXCEPT !.faults = @ + 1]
  BY DEF Next, OperatorStep, RequestStep, DeleteStep, RetriggerStep, ClockStep, Worker, Crash, DbError, vars
<1> QED BY <1>1, <1>2 DEF Undisturbed, Counters

\* What is true of the log and of attempt stays true when nothing is called or logged.
LEMMA HonestKept ==
  ASSUME HonestTask, \A e \in Env, a \in Counted: Honest(e, a),
         UNCHANGED <<deployment_log, tries>>,
         pc' \in Working => /\ pc \in Working /\ (pc = "mark" => pc' = "mark")
                            /\ UNCHANGED <<env, action, attempt>>
                            /\ pc' = "log_failed" => pc = "log_failed" \/ attempt >= MAX_RETRIES - 1,
         Sound, Sound'
  PROVE  HonestTask' /\ \A e \in Env, a \in Counted: Honest(e, a)'
<1>1. \A e \in Env, a \in Counted: Honest(e, a)'
  BY DEF Honest, getRetryCount
<1>2. ASSUME pc' \in Working, action' \in Counted
      PROVE  /\ attempt' <= tries'[env'][action']
             /\ pc' # "mark" => attempt' + 1 <= tries'[env'][action']
             /\ pc' = "log_failed" => MAX_RETRIES <= tries'[env'][action']
  <2>1. env \in Env /\ action \in Counted /\ attempt \in Nat /\ MAX_RETRIES \in Nat /\ pc \in Working
    BY <1>2, ConstantsAssumption DEF Sound, TypeOK, WorkerTypeOK, TaskInv
  <2>2. tries[env][action] \in Nat
    BY <2>1, Numbers
  <2> QED BY <1>2, <2>1, <2>2 DEF HonestTask
<1> QED BY <1>1, <1>2 DEF HonestTask

\* A reset of one window together with its calls.
LEMMA HonestReset ==
  ASSUME Sound, Sound', NEW e \in Env, NEW a \in Counted, FreshWindowOf(e, a), tries'[e][a] = 0
  PROVE  Honest(e, a)'
<1>1. a \in Action
  BY DEF Counted, Action
<1>2. deployment_log'[e][a].retries = 0 /\ deployment_log'[e][a].failed = FALSE
  BY <1>1, FreshWindow DEF FreshWindowOf
<1> QED BY <1>2 DEF Honest, getRetryCount

\* The steps that do neither.
LEMMA HonestQuiet ==
  ASSUME Sound, Sound', HonestTask, \A e \in Env, a \in Counted: Honest(e, a),
         \/ UNCHANGED <<workerVars, deployment_log, tries>>
         \/ Crash \/ DbError
         \/ StartCycle \/ RecoverProvisioning \/ RecoverReconfiguring \/ ApplyStops \/ DetectDrift
         \/ FetchSnapshot \/ EndCycle \/ LogInCatchFails
         \/ RunSucceeds \/ RunFails \/ SetFinalStatus \/ RecordApplied \/ LogSuccessFails \/ MarkFailed
  PROVE  HonestTask' /\ \A e \in Env, a \in Counted: Honest(e, a)'
<1>1. CASE UNCHANGED <<workerVars, deployment_log, tries>>
  <2>1. UNCHANGED <<deployment_log, tries>> /\ UNCHANGED <<env, action, attempt>> /\ pc' = pc
    BY <1>1 DEF workerVars
  <2>2. /\ pc' \in Working => pc \in Working
        /\ pc = "mark" => pc' = "mark"
        /\ pc' = "log_failed" => pc = "log_failed"
    BY <2>1
  <2> QED BY <2>1, <2>2, HonestKept
<1>2. CASE \/ StartCycle \/ RecoverProvisioning \/ RecoverReconfiguring \/ ApplyStops \/ DetectDrift
           \/ FetchSnapshot
  <2>1. UNCHANGED <<deployment_log, tries>> /\ pc' \notin Working
    BY <1>2 DEF StartCycle, RecoverProvisioning, RecoverReconfiguring, ApplyStops, DetectDrift, FetchSnapshot,
       Goto, tables, Working, Completion
  <2> QED BY <2>1, HonestKept
<1>3. CASE EndCycle \/ LogInCatchFails \/ Crash \/ DbErrorOutside
  <2>1. UNCHANGED <<deployment_log, tries>> /\ pc' \notin Working
    BY <1>3 DEF EndCycle, LogInCatchFails, Crash, WorkerCrash, DbErrorOutside, AbandonCycle, Goto, tables,
       Working, Completion
  <2> QED BY <2>1, HonestKept
<1>4. CASE \/ RunSucceeds \/ RunFails \/ SetFinalStatus \/ RecordApplied \/ LogSuccessFails \/ MarkFailed
           \/ DbErrorInTry
  <2>1. /\ UNCHANGED <<deployment_log, tries, env, action, attempt>>
        /\ pc \in Working \ {"mark"}
        /\ pc' = "log_failed" => attempt >= MAX_RETRIES - 1
    BY <1>4 DEF RunSucceeds, RunFails, logStepFailed, SetFinalStatus, RecordApplied, LogSuccessFails, MarkFailed,
       DbErrorInTry, Goto, KeepTask, tables, Working, Completion
  <2> QED BY <2>1, HonestKept
<1> QED BY <1>1, <1>2, <1>3, <1>4 DEF DbError

\* fn() is called.
LEMMA HonestCall ==
  ASSUME Sound, Sound', CountInv, HonestTask, \A e \in Env, a \in Counted: Honest(e, a),
         (\E e \in Env: Dispatch(e)) \/ MarkInProgress \/ LogRetrying
  PROVE  HonestTask' /\ \A e \in Env, a \in Counted: Honest(e, a)'
<1>1. /\ tries \in [Env -> [Counted -> Nat]] /\ LogOK /\ attempt \in Nat /\ MAX_RETRIES \in Nat
      /\ Counted \subseteq Action
  BY TaskTypes, ConstantsAssumption DEF Counted, Action
<1>2. CASE \E e \in Env: Dispatch(e)
  <2>1. PICK f \in Env: Dispatch(f)
    BY <1>2
  <2>2. /\ env' = f /\ action' \in Action /\ attempt' = getRetryCount(f, action')
        /\ pc' = IF action' = "patch" THEN "run" ELSE "mark"
        /\ deployment_log' = deployment_log
        /\ IF action' = "patch" THEN CountTry(f, action') ELSE UNCHANGED tries
    BY <2>1, Dispatched DEF tables
  <2>3. ASSUME NEW e \in Env, NEW a \in Counted
        PROVE  /\ Honest(e, a)' /\ tries'[e][a] >= tries[e][a]
               /\ action' = "patch" /\ e = f /\ a = action' => tries'[e][a] = tries[e][a] + 1
    BY <1>1, <2>2, TriesEffects, Numbers, ConstantsAssumption DEF Honest, getRetryCount
  <2>4. ASSUME action' \in Counted
        PROVE  /\ attempt' <= tries'[f][action']
               /\ pc' # "mark" => attempt' + 1 <= tries'[f][action']
    BY <2>2, <2>3, <2>4, Numbers DEF Honest
  <2> QED BY <2>2, <2>3, <2>4 DEF HonestTask
<1>3. CASE MarkInProgress
  <2>1. /\ pc = "mark" /\ pc' = "run" /\ UNCHANGED <<deployment_log, env, action, attempt>>
        /\ CountTry(env, action) /\ env \in Env
    BY <1>3 DEF MarkInProgress, Goto, KeepTask, Sound, TaskInv, Working
  <2>2. ASSUME NEW e \in Env, NEW a \in Counted
        PROVE  /\ Honest(e, a)'
               /\ e = env /\ a = action => tries'[e][a] = tries[e][a] + 1
    BY <1>1, <2>1, TriesEffects, Numbers, ConstantsAssumption DEF Honest, getRetryCount
  <2>3. action \in Counted => attempt <= tries[env][action] /\ tries[env][action] \in Nat
    BY <2>1, Numbers DEF HonestTask, Working
  <2> QED BY <1>1, <2>1, <2>2, <2>3 DEF HonestTask
<1>4. CASE LogRetrying
  <2>1. /\ env \in Env /\ action \in Action /\ pc = "catch" /\ pc' = "run"
        /\ UNCHANGED <<env, action>> /\ attempt' = attempt + 1
        /\ logRetrying(env, action, attempt + 1) /\ CountTry(env, action)
    BY <1>4, TaskTypes DEF LogRetrying, Goto, Working
  <2>2. action \in Counted => attempt + 1 <= tries[env][action] /\ tries[env][action] \in Nat
    BY <2>1, Numbers DEF HonestTask, Working
  <2>3. ASSUME NEW e \in Env, NEW a \in Counted
        PROVE  /\ Honest(e, a)'
               /\ e = env /\ a = action => tries'[e][a] = tries[e][a] + 1
    <3>1. /\ getRetryCount(e, a)' = IF env = e /\ action = a /\ attempt + 1 > getRetryCount(e, a)
                                     THEN attempt + 1 ELSE getRetryCount(e, a)
          /\ deployment_log'[e][a].failed = deployment_log[e][a].failed
      BY <1>1, <2>1, LogEffects
    <3>2. tries'[e][a] = IF e = env /\ a = action THEN tries[e][a] + 1 ELSE tries[e][a]
      BY <1>1, <2>1, TriesEffects
    <3>3. Honest(e, a)
      OBVIOUS
    <3> QED BY <1>1, <2>2, <3>1, <3>2, <3>3, Numbers DEF Honest
  <2> QED BY <1>1, <2>1, <2>2, <2>3 DEF HonestTask
<1> QED BY <1>2, <1>3, <1>4

\* A window is reset, or its end is written.
LEMMA HonestLog ==
  ASSUME Sound, Sound', HonestTask, \A e \in Env, a \in Counted: Honest(e, a),
         PurgeRow \/ LogSuccess \/ LogFailed
  PROVE  HonestTask' /\ \A e \in Env, a \in Counted: Honest(e, a)'
<1>1. /\ tries \in [Env -> [Counted -> Nat]] /\ LogOK /\ 0 \in Nat
      /\ Counted \subseteq Action /\ env \in Env /\ action \in Action
  BY TaskTypes DEF Counted, Action, PurgeRow, LogSuccess, LogFailed, Working, Completion
<1>2. CASE PurgeRow
  <2>1. /\ hardDeleteEnv(env) /\ tries' = [tries EXCEPT ![env] = NoTries]
        /\ action' = action /\ action = "decommission"
    BY <1>2 DEF PurgeRow, KeepTask, Sound, TaskInv
  <2>2. ASSUME NEW e \in Env, NEW a \in Counted PROVE Honest(e, a)'
    <3>1. deployment_log'[e][a] = IF e = env THEN FreshWindows[a] ELSE deployment_log[e][a]
      BY <1>1, <2>1, LogEffects
    <3>2. tries'[e][a] = IF e = env THEN 0 ELSE tries[e][a]
      BY <1>1, <2>1, TriesEffects
    <3> QED BY <3>1, <3>2, HonestReset DEF FreshWindowOf, Honest, getRetryCount
  <2> QED BY <2>1, <2>2 DEF HonestTask, Counted
<1>3. CASE LogSuccess
  <2>1. logSuccess(env, action) /\ ForgetTries(env, action) /\ pc' = "dispatch"
    BY <1>3 DEF LogSuccess, NextTask, Goto
  <2>2. ASSUME NEW e \in Env, NEW a \in Counted PROVE Honest(e, a)'
    <3>1. deployment_log'[e][a] = IF e = env /\ a = action THEN FreshWindows[a] ELSE deployment_log[e][a]
      BY <1>1, <2>1, LogEffects
    <3>2. tries'[e][a] = IF e = env /\ a = action THEN 0 ELSE tries[e][a]
      BY <1>1, <2>1, TriesEffects
    <3> QED BY <3>1, <3>2, HonestReset DEF FreshWindowOf, Honest, getRetryCount
  <2> QED BY <2>1, <2>2 DEF HonestTask, Working, Completion
<1>4. CASE LogFailed
  <2>1. logFailed(env, action) /\ pc = "log_failed" /\ pc' = "dispatch" /\ tries' = tries
    BY <1>4 DEF LogFailed, NextTask, Goto
  <2>2. ASSUME NEW e \in Env, NEW a \in Counted PROVE Honest(e, a)'
    <3>1. /\ getRetryCount(e, a)' = getRetryCount(e, a)
          /\ deployment_log'[e][a].failed = (deployment_log[e][a].failed \/ (e = env /\ a = action))
      BY <1>1, <2>1, LogEffects
    <3>2. e = env /\ a = action => MAX_RETRIES <= tries[e][a]
      BY <2>1 DEF HonestTask, Working
    <3>3. Honest(e, a)
      OBVIOUS
    <3> QED BY <2>1, <3>1, <3>2, <3>3 DEF Honest
  <2> QED BY <2>1, <2>2 DEF HonestTask, Working, Completion
<1> QED BY <1>2, <1>3, <1>4

\* A handler in flight does not touch the window of the task that runs.
LEMMA HonestRequest ==
  ASSUME Sound, Sound', Undisturbed', HonestTask, \A e \in Env, a \in Counted: Honest(e, a), RequestStep
  PROVE  HonestTask' /\ \A e \in Env, a \in Counted: Honest(e, a)'
<1>1. PICK q \in Request: DeleteStep(q) \/ RetriggerStep(q)
  BY DEF RequestStep
<1>2. UNCHANGED workerVars /\ count \in Counters
  BY <1>1 DEF DeleteStep, RetriggerStep, Sound, TypeOK
<1>3. CASE DeletePurge(q) /\ tries' = [tries EXCEPT ![requests[q].env] = NoTries]
           /\ count' = IF ToDeploy(requests[q].env) THEN [count EXCEPT !.purges = @ + 1] ELSE count
  <2> DEFINE f == requests[q].env
  <2>1. /\ tries \in [Env -> [Counted -> Nat]] /\ LogOK /\ 0 \in Nat /\ Counted \subseteq Action
        /\ f \in Env /\ hardDeleteEnv(f) /\ tries' = [tries EXCEPT ![f] = NoTries]
    BY <1>3, TaskTypes, HandlerTypes DEF Counted, Action, DeletePurge
  <2>2. ~ ToDeploy(f)
    <3>1. ASSUME ToDeploy(f) PROVE count'.purges = count.purges + 1
      BY <1>2, <1>3, <3>1 DEF Counters
    <3> QED BY <1>2, <3>1 DEF Undisturbed, Counters
  <2> HIDE DEF f
  <2>3. pc \in Working /\ action \in Counted => env # f
    BY <2>2 DEF ToDeploy, Sound, TaskInv
  <2>4. ASSUME NEW e \in Env, NEW a \in Counted
        PROVE  Honest(e, a)' /\ (e # f => tries'[e][a] = tries[e][a])
    <3>1. deployment_log'[e][a] = IF e = f THEN FreshWindows[a] ELSE deployment_log[e][a]
      BY <2>1, LogEffects
    <3>2. tries'[e][a] = IF e = f THEN 0 ELSE tries[e][a]
      BY <2>1, TriesEffects
    <3> QED BY <3>1, <3>2, HonestReset DEF FreshWindowOf, Honest, getRetryCount
  <2>5. pc \in Working => env \in Env
    BY DEF Sound, TaskInv
  <2> QED BY <1>2, <2>3, <2>4, <2>5 DEF HonestTask, workerVars
<1>4. CASE count' = [count EXCEPT !.retriggers = @ + 1]
  BY <1>2, <1>4 DEF Undisturbed, Counters
<1>5. CASE (DeleteFlag(q) \/ RetriggerLogFails(q) \/ RetriggerUpdate(q)) /\ UNCHANGED tries
  <2>1. UNCHANGED <<workerVars, deployment_log, tries>>
    BY <1>2, <1>5 DEF DeleteFlag, RetriggerLogFails, RetriggerUpdate, tables
  <2> QED BY <2>1, HonestQuiet
<1> QED BY <1>1, <1>3, <1>4, <1>5 DEF DeleteStep, RetriggerStep

\* Every step keeps the log honest.
LEMMA HonestStep == Sound /\ CountInv /\ HonestInv /\ [Next]_vars => HonestInv'
<1> SUFFICES ASSUME Sound, CountInv, HonestInv, [Next]_vars, Undisturbed'
             PROVE  HonestTask' /\ \A e \in Env, a \in Counted: Honest(e, a)'
  BY DEF HonestInv
<1>1. Sound' /\ HonestTask /\ \A e \in Env, a \in Counted: Honest(e, a)
  BY SoundStep, UndisturbedBefore DEF HonestInv
<1>2. CASE OperatorStep \/ ClockStep \/ UNCHANGED vars
  <2>1. UNCHANGED <<workerVars, deployment_log, tries>>
    BY <1>2 DEF OperatorStep, CreateEnv, EditEnv, StopEnv, DecommissionEnv, DeleteSelect, RetriggerSelect,
       ClockStep, StopDateElapses, DcommDateElapses, RowGoesStale, tables, vars, workerVars
  <2> QED BY <1>1, <2>1, HonestQuiet
<1>3. CASE RequestStep
  BY <1>1, <1>3, HonestRequest
<1>4. CASE Worker
  BY <1>1, <1>4, HonestQuiet, HonestCall, HonestLog DEF Worker, WorkerStep
<1>5. CASE Crash \/ DbError
  BY <1>1, <1>5, HonestQuiet
<1> QED BY <1>2, <1>3, <1>4, <1>5 DEF Next

---------------------------------------------------------------------------
(***************************************************************************)
(* Baselines                                                               *)
(***************************************************************************)

LEMMA CalmBefore ==
  ASSUME Sound, [Next]_vars, Calm'
  PROVE  /\ Calm /\ ~ Crash /\ ~ DbError
         /\ \A q \in Request: RetriggerStep(q) => RetriggerLogFails(q) \/ RetriggerUpdate(q)
<1>1. count \in Counters
  BY DEF Sound, TypeOK
<1>2. \/ count' = count
      \/ count' = [count EXCEPT !.ops = @ + 1]
      \/ count' = [count EXCEPT !.purges = @ + 1]
      \/ count' = [count EXCEPT !.retriggers = @ + 1]
      \/ count' = [count EXCEPT !.crashes = @ + 1]
      \/ count' = [count EXCEPT !.faults = @ + 1]
  BY DEF Next, OperatorStep, RequestStep, DeleteStep, RetriggerStep, ClockStep, Worker, Crash, DbError, vars
<1>3. Calm
  BY <1>1, <1>2 DEF Calm, Counters
<1>4. count'.crashes # count.crashes + 1 /\ count'.faults # count.faults + 1
      /\ count'.retriggers # count.retriggers + 1
  BY <1>3 DEF Calm
<1> QED BY <1>1, <1>3, <1>4 DEF Crash, DbError, RetriggerStep, Counters

\* A row that keeps its status and its baseline, or is new, or gets another status.
LEMMA BasedKept ==
  ASSUME NEW e \in Env, Based(e), pc = "record" /\ env = e => pc' = "record" /\ env' = e,
         \/ StatusKept(e)
         \/ Created(e)
         \/ ~ Exists(e)'
         \/ \E s \in Status \ {"deployed", "stopped", "reconfiguring"}: StatusSet(e, s)
  PROVE  Based(e)'
BY DEF Based, StatusKept, Created, StatusSet, StatusIn

\* No request takes a baseline away.
LEMMA BasedRequests ==
  ASSUME Sound, Calm', [Next]_vars, NothingLogged, \A e \in Env: Based(e), OperatorStep \/ RequestStep
  PROVE  NothingLogged' /\ \A e \in Env: Based(e)'
<1>1. /\ RowsOK /\ requests \in [Request -> InFlight \cup {NULL}]
      /\ pc' = pc /\ env' = env
  BY TypeOKParts DEF Sound, ApiTypeOK, OperatorStep, RequestStep, DeleteStep, RetriggerStep, workerVars
<1>2. CASE OperatorStep
  <2>1. \A e \in Env: Based(e)'
    BY <1>1, <1>2, OperatorRows, BasedKept
  <2>2. NothingLogged'
    <3>1. PICK e \in Env:
            \/ CreateEnv(e) \/ EditEnv(e) \/ StopEnv(e) \/ DecommissionEnv(e)
            \/ \E q \in Request: DeleteSelect(q, e)
            \/ \E q \in Request, a \in Action \cup {"stop"}: RetriggerSelect(q, e, a)
      BY <1>2 DEF OperatorStep
    <3>2. CASE CreateEnv(e) \/ EditEnv(e) \/ StopEnv(e) \/ DecommissionEnv(e)
      BY <3>2 DEF CreateEnv, EditEnv, StopEnv, DecommissionEnv, NothingLogged
    <3>3. CASE \E q \in Request: DeleteSelect(q, e)
      BY <1>1, <3>3 DEF DeleteSelect, NothingLogged
    <3>4. CASE \E q \in Request, a \in Action \cup {"stop"}: RetriggerSelect(q, e, a)
      BY <1>1, <3>4 DEF RetriggerSelect, NothingLogged
    <3> QED BY <3>1, <3>2, <3>3, <3>4
  <2> QED BY <2>1, <2>2
<1>3. CASE RequestStep
  <2>1. PICK q \in Request: DeletePurge(q) \/ DeleteFlag(q) \/ RetriggerLogFails(q) \/ RetriggerUpdate(q)
    BY <1>3, CalmBefore DEF RequestStep, DeleteStep
  <2>2. ~ RetriggerUpdate(q)
    BY DEF NothingLogged, RetriggerUpdate
  <2>3. requests' = [requests EXCEPT ![q] = NULL] /\ requests[q].env \in Env
    BY <1>1, <2>1, <2>2 DEF DeletePurge, DeleteFlag, RetriggerLogFails, Answer, InFlight
  <2>4. NothingLogged'
    BY <1>1, <2>3 DEF NothingLogged
  <2>5. ASSUME NEW e \in Env PROVE StatusKept(e) \/ ~ Exists(e)'
    <3>1. CASE DeletePurge(q)
      BY <1>1, <2>3, <3>1 DEF DeletePurge, hardDeleteEnv, RowsOK, StatusKept, Exists
    <3>2. CASE DeleteFlag(q)
      BY <1>1, <2>3, <3>2, FlagRows
    <3>3. CASE RetriggerLogFails(q)
      BY <3>3 DEF RetriggerLogFails, tables, StatusKept, Exists
    <3> QED BY <2>1, <2>2, <3>1, <3>2, <3>3
  <2> QED BY <1>1, <2>4, <2>5, BasedKept
<1> QED BY <1>2, <1>3

\* Neither does the worker: what it deploys it records, and drift and recovery only
\* move rows that have one.
LEMMA BasedWorker ==
  ASSUME Sound, NEW e \in Env, \A f \in Env: Based(f), WorkerStep
  PROVE  Based(e)'
<1>1. RowsOK
  BY TypeOKParts DEF Sound
<1>2. CASE StartCycle \/ RecoverProvisioning \/ RecoverReconfiguring \/ ApplyStops \/ DetectDrift
  <2>1. StatusKept(e) \/ CycleChange(e)
    BY <1>1, <1>2, BulkUpdateRows DEF StartCycle, RecoverProvisioning, RecoverReconfiguring, ApplyStops,
       DetectDrift, tables, StatusKept, Exists
  <2>2. pc # "record"
    BY <1>2 DEF StartCycle, RecoverProvisioning, RecoverReconfiguring, ApplyStops, DetectDrift
  <2> QED BY <2>1, <2>2 DEF Based, StatusKept, CycleChange, StatusSet, StatusIn
<1>3. CASE MarkInProgress \/ MarkFailed
  <2>1. /\ env \in Env /\ pc # "record"
        /\ \E s \in {"provisioning", "decommissioning", "failed"}: setEnvStatus(env, s)
    BY <1>3 DEF MarkInProgress, MarkFailed, Sound, TaskInv, Working
  <2>2. PICK s \in {"provisioning", "decommissioning", "failed"}: setEnvStatus(env, s)
    BY <2>1
  <2>3. IF e = env THEN StatusSet(e, s) ELSE StatusKept(e)
    BY <1>1, <2>1, <2>2, StatusUpdate DEF Status
  <2> QED BY <2>1, <2>3 DEF Based, StatusSet, StatusKept, StatusIn
<1>4. CASE SetFinalStatus
  <2>1. /\ env \in Env /\ FinalStatus \in Status /\ pc = "finish" /\ env' = env
        /\ action = "decommission" => FinalStatus = "decommissioned"
        /\ action # "decommission" => pc' = "record"
    BY <1>4 DEF SetFinalStatus, Sound, TaskInv, Working, Completion, FinalStatus, Status, Goto, KeepTask
  <2>2. IF e = env THEN StatusSet(e, FinalStatus) ELSE StatusKept(e)
    BY <1>1, <1>4, <2>1, StatusUpdate DEF SetFinalStatus
  <2> QED BY <2>1, <2>2 DEF Based, StatusSet, StatusKept, StatusIn
<1>5. CASE RecordApplied
  <2>1. /\ env \in Env /\ snapshot[env].config \in Config
        /\ updateLastAppliedConfig(env, snapshot[env].config)
    BY <1>5 DEF RecordApplied, Sound, TypeOK, WorkerTypeOK, TaskInv, Working, Completion, SnapshotRow
  <2>2. CASE e = env /\ Exists(e)
    <3>1. customer_env[e] \in Row
      BY <1>1, <2>2, ExistingRow
    <3>2. customer_env'[e] = [customer_env[e] EXCEPT !.last_applied_config = snapshot[env].config,
                                                     !.modified = FALSE, !.stale = FALSE]
      BY <1>1, <2>1, <2>2 DEF updateLastAppliedConfig, RowsOK
    <3>3. customer_env'[e].last_applied_config = snapshot[env].config
      BY <3>1, <3>2 DEF Row
    <3> QED BY <2>1, <3>3, ConstantsAssumption DEF Based
  <2>3. CASE e # env
    BY <1>1, <2>1, <2>3 DEF updateLastAppliedConfig, RowsOK, Based, StatusIn, Exists
  <2>4. CASE ~ Exists(e)
    BY <1>1, <2>1, <2>4 DEF updateLastAppliedConfig, RowsOK, Based, StatusIn, Exists
  <2> QED BY <2>2, <2>3, <2>4
<1>6. CASE PurgeRow
  <2>1. env \in Env /\ pc # "record"
    BY <1>6 DEF PurgeRow, Sound, TaskInv, Working, Completion
  <2>2. StatusKept(e) \/ ~ Exists(e)'
    BY <1>1, <1>6, <2>1 DEF PurgeRow, hardDeleteEnv, RowsOK, StatusKept, Exists
  <2> QED BY <2>1, <2>2, BasedKept
<1>7. CASE UNCHANGED customer_env /\ pc # "record"
  BY <1>7, BasedKept DEF StatusKept, Exists
<1> QED BY <1>2, <1>3, <1>4, <1>5, <1>6, <1>7
        DEF WorkerStep, FetchSnapshot, Dispatch, EndCycle, RunSucceeds, RunFails,
            LogSuccess, LogSuccessFails, LogRetrying, LogFailed, LogInCatchFails, tables

LEMMA BaselineStep == Sound /\ BaselineInv /\ [Next]_vars => BaselineInv'
<1> SUFFICES ASSUME Sound, BaselineInv, [Next]_vars, Calm'
             PROVE  NothingLogged' /\ \A e \in Env: Based(e)'
  BY DEF BaselineInv
<1>1. NothingLogged /\ (\A e \in Env: Based(e)) /\ RowsOK /\ ~ Crash /\ ~ DbError
  BY CalmBefore, TypeOKParts DEF BaselineInv, Sound
<1>2. CASE OperatorStep \/ RequestStep
  BY <1>1, <1>2, BasedRequests
<1>3. CASE ClockStep
  <2>1. requests' = requests /\ pc' = pc /\ env' = env
    BY <1>3 DEF ClockStep, workerVars
  <2> QED BY <1>1, <1>3, <2>1, ClockRows, BasedKept DEF NothingLogged
<1>4. CASE Worker
  BY <1>1, <1>4, BasedWorker DEF Worker, NothingLogged
<1>5. CASE UNCHANGED vars
  BY <1>1, <1>5 DEF vars, workerVars, tables, NothingLogged, Based, StatusIn, Exists
<1> QED BY <1>1, <1>2, <1>3, <1>4, <1>5 DEF Next

---------------------------------------------------------------------------
(***************************************************************************)
(* The theorems                                                            *)
(***************************************************************************)

LEMMA RetryInit == Init => RetryInv
<1> SUFFICES ASSUME Init PROVE RetryInv
  OBVIOUS
<1>1. Sound
  BY SoundInit
<1>2. /\ \A e \in Env, a \in Action: deployment_log[e][a] = [retries |-> 0, failed |-> FALSE]
      /\ \A e \in Env, a \in Counted: tries[e][a] = 0
      /\ pc = "sleep" /\ snapshot = [e \in Env |-> NULL]
      /\ count = [ops |-> 0, crashes |-> 0, faults |-> 0, retriggers |-> 0, purges |-> 0]
      /\ requests = [q \in Request |-> NULL]
      /\ Counted \subseteq Action
  BY DEF Init, TablesInit, FreshWindows, WorkerInit, AtRest, NoTries, ApiInit, Counted, Action
<1>3. MAX_RETRIES \in Nat \ {0}
  BY ConstantsAssumption
<1>4. CountInv
  BY <1>2, <1>3 DEF CountInv, getRetryCount, Working, Completion
<1>5. IsFiniteSet(Logged) /\ Granted = 0
  <2>1. Logged = {}
    BY <1>2 DEF Logged
  <2>2. IsFiniteSet(Logged) /\ Cardinality(Logged) = 0
    BY <2>1, FS_EmptySet
  <2> QED BY <1>2, <2>2 DEF Granted
<1>6. BudgetInv
  BY <1>2, <1>5 DEF BudgetInv, Balanced, Spent, Rested, Spare, MustSpare, ToDeploy, getRetryCount
<1>7. HonestInv
  BY <1>2 DEF HonestInv, Honest, HonestTask, getRetryCount, Working, Completion
<1> QED BY <1>1, <1>4, <1>6, <1>7 DEF RetryInv

\* The log, the worker's attempt and the calls that were made agree, in every state.
THEOREM RetryInvAlways == Spec => []RetryInv
<1>1. Init => RetryInv
  BY RetryInit
<1>2. RetryInv /\ [Next]_vars => RetryInv'
  BY SoundStep, CountStep, BudgetStep, HonestStep DEF RetryInv
<1> QED BY <1>1, <1>2, PTL DEF Spec

\* The retry cap survives: fn() is called MAX_RETRIES times for one window, and once
\* more for each crash, database error, retrigger and delete of a row read before.
THEOREM AttemptsBoundedAlways == Spec => []AttemptsBounded
<1>1. RetryInv => AttemptsBounded
  <2>1. SUFFICES ASSUME RetryInv, NEW e \in Env, NEW a \in Counted
                 PROVE  tries[e][a] <= MAX_RETRIES + count.crashes + count.faults
                                       + count.retriggers + count.purges
    BY DEF AttemptsBounded
  <2>2. getRetryCount(e, a) < MAX_RETRIES /\ Spent(e, a) /\ MAX_RETRIES \in Nat
    BY <2>1, ConstantsAssumption DEF RetryInv, CountInv, BudgetInv, Balanced, Counted, Action
  <2>3. getRetryCount(e, a) \in Nat /\ tries[e][a] \in Nat
    <3>1. tries \in [Env -> [Counted -> Nat]] /\ LogOK /\ a \in Action
      BY <2>1, TaskTypes DEF RetryInv, Counted, Action
    <3>2. deployment_log[e][a] \in Window /\ tries[e] \in [Counted -> Nat]
      BY <3>1 DEF LogOK
    <3> QED BY <3>2 DEF Window, getRetryCount
  <2>4. /\ Cardinality(Logged) \in Nat
        /\ count.crashes \in Nat /\ count.faults \in Nat
        /\ count.retriggers \in Nat /\ count.purges \in Nat
    BY <2>1, GrantedType DEF RetryInv, BudgetInv
  <2>5. tries[e][a] <= getRetryCount(e, a) + 1 + (count.crashes + count.faults + count.retriggers
                                                   + count.purges - Cardinality(Logged))
    BY <2>2, <2>3, <2>4 DEF Spent, Granted
  <2> QED BY <2>2, <2>3, <2>4, <2>5
<1> QED BY <1>1, RetryInvAlways, PTL

\* Nothing but the end of its own task makes a row 'failed'.
LEMMA FailedByTask ==
  ASSUME Sound, [Next]_vars, NEW e \in Env, ~ StatusIn(e, {"failed"}), StatusIn(e, {"failed"})'
  PROVE  /\ e = env /\ MarkFailed
         /\ UNCHANGED <<env, action, tries, count>> /\ pc' = "log_failed"
<1>1. RowsOK /\ requests \in [Request -> InFlight \cup {NULL}]
  BY TypeOKParts DEF Sound, ApiTypeOK
<1>2. ~ StatusKept(e) /\ ~ Created(e) /\ ~ CycleChange(e) /\ Exists(e)'
  BY DEF StatusKept, Created, CycleChange, StatusSet, StatusIn
<1>3. ASSUME NEW s \in Status \ {"failed"} PROVE ~ StatusSet(e, s)
  BY DEF StatusSet, StatusIn
<1>4. CASE OperatorStep \/ ClockStep \/ Crash \/ DbError \/ UNCHANGED vars
  BY <1>1, <1>2, <1>4, OperatorRows, ClockRows
     DEF Crash, DbError, WorkerCrash, DbErrorInTry, DbErrorOutside, vars, tables, StatusKept, Exists
<1>5. CASE RequestStep
  <2>1. PICK q \in Request: \/ DeletePurge(q) \/ DeleteFlag(q)
                           \/ RetriggerLog(q) \/ RetriggerLogFails(q) \/ RetriggerUpdate(q)
    BY <1>5 DEF RequestStep, DeleteStep, RetriggerStep
  <2>2. requests[q] \in InFlight /\ requests[q].env \in Env
    BY <1>1, <2>1 DEF DeletePurge, DeleteFlag, RetriggerLog, RetriggerLogFails, RetriggerUpdate, InFlight
  <2>3. CASE DeletePurge(q) \/ RetriggerLog(q) \/ RetriggerLogFails(q)
    BY <1>1, <1>2, <2>2, <2>3
       DEF DeletePurge, hardDeleteEnv, RetriggerLog, RetriggerLogFails, RowsOK, tables, StatusKept, Exists
  <2>4. CASE DeleteFlag(q)
    BY <1>1, <1>2, <2>2, <2>4, FlagRows
  <2>5. CASE RetriggerUpdate(q)
    <3>1. requests[q].action \in Action \cup {"stop"}
      BY <2>2, <2>5 DEF RetriggerUpdate, InFlight
    <3>2. QueuedStatus(requests[q].action) \in Status \ {"failed"}
      BY <3>1 DEF QueuedStatus, Action, Status
    <3> QED BY <1>1, <1>2, <1>3, <2>2, <2>5, <3>1, <3>2, RetriggerRows
  <2> QED BY <2>1, <2>3, <2>4, <2>5
<1>6. CASE Worker
  <2>1. WorkerStep /\ UNCHANGED count
    BY <1>6 DEF Worker
  <2>2. CASE RecoverProvisioning \/ RecoverReconfiguring \/ ApplyStops \/ DetectDrift
    BY <1>1, <1>2, <2>2, BulkUpdateRows DEF RecoverProvisioning, RecoverReconfiguring, ApplyStops, DetectDrift
  <2>3. CASE MarkInProgress \/ SetFinalStatus
    <3>1. /\ env \in Env
          /\ \E s \in Status \ {"failed"}: setEnvStatus(env, s)
      BY <2>3 DEF MarkInProgress, SetFinalStatus, FinalStatus, Sound, TaskInv, Working, Completion, Status
    <3>2. PICK s \in Status \ {"failed"}: setEnvStatus(env, s)
      BY <3>1
    <3>3. IF e = env THEN StatusSet(e, s) ELSE StatusKept(e)
      BY <1>1, <3>1, <3>2, StatusUpdate
    <3> QED BY <1>2, <1>3, <3>3
  <2>4. CASE MarkFailed
    <3>1. env \in Env /\ setEnvStatus(env, "failed")
      BY <2>4 DEF MarkFailed, Sound, TaskInv, Working
    <3>2. IF e = env THEN StatusSet(e, "failed") ELSE StatusKept(e)
      BY <1>1, <3>1, StatusUpdate DEF Status
    <3> QED BY <1>2, <2>1, <2>4, <3>2 DEF MarkFailed, Goto, KeepTask
  <2>5. CASE RecordApplied
    <3>1. env \in Env
      BY <2>5 DEF RecordApplied, Sound, TaskInv, Working, Completion
    <3>2. CASE Exists(e) /\ e = env
      <4>1. customer_env[e] \in Row
        BY <1>1, <3>2, ExistingRow
      <4>2. customer_env'[e] = [customer_env[e] EXCEPT !.last_applied_config = snapshot[env].config,
                                                       !.modified = FALSE, !.stale = FALSE]
        BY <1>1, <2>5, <3>1, <3>2 DEF RecordApplied, updateLastAppliedConfig, RowsOK
      <4>3. customer_env'[e].deploy_status = customer_env[e].deploy_status
        BY <4>1, <4>2 DEF Row
      <4> QED BY <3>2, <4>3 DEF StatusIn
    <3>3. CASE ~ (Exists(e) /\ e = env)
      BY <1>1, <1>2, <2>5, <3>1, <3>3
         DEF RecordApplied, updateLastAppliedConfig, RowsOK, StatusKept, Exists
    <3> QED BY <3>2, <3>3
  <2>6. CASE PurgeRow
    <3>1. env \in Env
      BY <2>6 DEF PurgeRow, Sound, TaskInv, Working, Completion
    <3> QED BY <1>1, <1>2, <2>6, <3>1 DEF PurgeRow, hardDeleteEnv, RowsOK, StatusKept, Exists
  <2>7. CASE UNCHANGED customer_env
    BY <1>2, <2>7 DEF StatusKept, Exists
  <2> QED BY <2>1, <2>2, <2>3, <2>4, <2>5, <2>6, <2>7
          DEF WorkerStep, StartCycle, FetchSnapshot, Dispatch, EndCycle, RunSucceeds, RunFails,
              LogSuccess, LogSuccessFails, LogRetrying, LogFailed, LogInCatchFails, tables
<1> QED BY <1>4, <1>5, <1>6 DEF Next

\* No attempt is skipped: a provision or a patch is given up only after MAX_RETRIES
\* calls, those before a crash included, unless a retrigger or a delete changed what is
\* counted.
THEOREM NoEarlySurrenderAlways == Spec => NoEarlySurrender
<1> DEFINE Surrender ==
      \A e \in Env:
        ~ StatusIn(e, {"failed"}) /\ StatusIn(e, {"failed"})' =>
          /\ e = env
          /\ count.retriggers = 0 /\ count.purges = 0 /\ action \in Counted
               => tries[e][action] >= MAX_RETRIES
<1>1. RetryInv /\ RetryInv' /\ [Next]_vars => [Surrender]_vars
  <2> SUFFICES ASSUME RetryInv, RetryInv', [Next]_vars, NEW e \in Env,
                      ~ StatusIn(e, {"failed"}), StatusIn(e, {"failed"})'
               PROVE  /\ e = env
                      /\ Undisturbed /\ action \in Counted => tries[e][action] >= MAX_RETRIES
    BY DEF Undisturbed
  <2>1. /\ e = env
        /\ UNCHANGED <<env, action, tries, count>> /\ pc' = "log_failed"
    BY FailedByTask DEF RetryInv
  <2>2. ASSUME Undisturbed, action \in Counted PROVE MAX_RETRIES <= tries[env][action]
    BY <2>1, <2>2 DEF RetryInv, HonestInv, HonestTask, Undisturbed, Working
  <2> QED BY <2>1, <2>2
<1>2. Spec => [][Surrender]_vars
  BY <1>1, RetryInvAlways, PTL DEF Spec
<1> QED BY <1>2 DEF NoEarlySurrender

\* Drift of whatever is deployed can be detected, as long as no crash, database error
\* or retrigger comes between the two statements that deploy it.
THEOREM DeployedHasBaselineAlways == Spec => []DeployedHasBaseline
<1>1. Init => Sound /\ BaselineInv
  BY SoundInit DEF Init, TablesInit, ApiInit, BaselineInv, NothingLogged, Based, StatusIn, Exists
<1>2. Sound /\ BaselineInv /\ [Next]_vars => (Sound /\ BaselineInv)'
  BY SoundStep, BaselineStep
<1>3. BaselineInv => DeployedHasBaseline
  BY DEF BaselineInv, Calm, Based, DeployedHasBaseline, StatusIn
<1> QED BY <1>1, <1>2, <1>3, PTL DEF Spec

=============================================================================
