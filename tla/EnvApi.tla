------------------------------- MODULE EnvApi -------------------------------
(***************************************************************************)
(* The HTTP routes that write customer_env: create, edit, stop,            *)
(* decommission, delete and retrigger.                                     *)
(*                                                                         *)
(* Source: control-plane/src/app/api/envs/.                                *)
(*                                                                         *)
(* A handler that issues one deciding statement is one action.  Delete and *)
(* retrigger read the row in one statement and write in later ones, and    *)
(* everyone else may act in between: each has one action per statement,    *)
(* and requests[q] is what handler q remembers between them.  Requests     *)
(* that are refused (400, 404, 409, 422) change nothing and are left out.  *)
(***************************************************************************)
EXTENDS CustomerEnv

CONSTANTS
  Request,    \* the handlers that may be in flight at the same time
  EntryDate   \* the dates that operators enter in the forms

ASSUME EntryDateAssumption == EntryDate \subseteq Date

VARIABLE requests  \* requests[q] is NULL when q is idle

apiVars == <<customer_env, deployment_log, requests>>

InFlight ==
       [kind: {"delete"}, env: Env, decommissioned: BOOLEAN]
  \cup [kind: {"retrigger"}, env: Env, action: Action \cup {"stop"}, logged: BOOLEAN]

ASSUME InFlightAssumption == NULL \notin InFlight

ApiTypeOK == requests \in [Request -> InFlight \cup {NULL}]

ApiInit == requests = [q \in Request |-> NULL]

Answer(q) == requests' = [requests EXCEPT ![q] = NULL]

---------------------------------------------------------------------------
\* POST /api/envs: the primary key refuses a second row (409).
CreateEnv(e) ==
  /\ ~ Exists(e)
  /\ \E config \in Config, stop_date \in EntryDate: InsertRow(e, config, stop_date)
  /\ UNCHANGED <<deployment_log, requests>>

\* PATCH /api/envs/[id]/detail, the settings form: any config, any dates, and no
\* guard on the status.
EditEnv(e) ==
  /\ Exists(e)
  /\ \E config \in Config, stop_date \in EntryDate, dcomm_date \in EntryDate:
       LET Set(r) == [r EXCEPT !.config = config, !.stop_date = stop_date,
                               !.dcomm_date = dcomm_date]
       IN UpdateRow(e, Set)
  /\ UNCHANGED <<deployment_log, requests>>

\* PATCH /api/envs/[id]/stop, one guarded UPDATE.
StopEnv(e) ==
  /\ StatusIn(e, Status \ {"decommissioning", "decommissioned"})
  /\ LET Set(r) == [r EXCEPT !.config.replicas = 0, !.stop_date = "elapsed"]
     IN UpdateRow(e, Set)
  /\ UNCHANGED <<deployment_log, requests>>

\* PATCH /api/envs/[id]/decommission, one guarded UPDATE.
DecommissionEnv(e) ==
  /\ StatusIn(e, Status \ {"decommissioned"})
  /\ LET Set(r) == [r EXCEPT !.dcomm_date = "elapsed"] IN UpdateRow(e, Set)
  /\ UNCHANGED <<deployment_log, requests>>

---------------------------------------------------------------------------
\* DELETE /api/envs/[id]/delete: the SELECT.
DeleteSelect(q, e) ==
  /\ requests[q] = NULL
  /\ Exists(e)
  /\ requests' = [requests EXCEPT ![q] =
       [ kind |-> "delete", env |-> e,
         decommissioned |-> customer_env[e].deploy_status = "decommissioned" ]]
  /\ UNCHANGED tables

\* ... the row read was decommissioned: hard delete now.
DeletePurge(q) ==
  /\ requests[q] # NULL
  /\ requests[q].kind = "delete"
  /\ requests[q].decommissioned
  /\ hardDeleteEnv(requests[q].env)
  /\ Answer(q)

\* ... or flag the row for the worker, whatever its status is by now.
DeleteFlag(q) ==
  /\ requests[q] # NULL
  /\ requests[q].kind = "delete"
  /\ ~ requests[q].decommissioned
  /\ LET Set(r) == [r EXCEPT !.pending_delete = TRUE, !.dcomm_date = "elapsed"]
     IN UpdateRow(requests[q].env, Set)
  /\ Answer(q)
  /\ UNCHANGED deployment_log

---------------------------------------------------------------------------
\* POST /api/envs/[id]/retrigger: the SELECT and the terminal-state guard.
RetriggerSelect(q, e, action) ==
  /\ requests[q] = NULL
  /\ StatusIn(e, Status \ {"decommissioned"})
  /\ requests' = [requests EXCEPT ![q] =
       [kind |-> "retrigger", env |-> e, action |-> action, logged |-> FALSE]]
  /\ UNCHANGED tables

\* ... the synthetic 'success' that resets the retry window.  No window is kept
\* for 'stop', which the worker never runs.
RetriggerLog(q) ==
  /\ requests[q] # NULL
  /\ requests[q].kind = "retrigger"
  /\ ~ requests[q].logged
  /\ Exists(requests[q].env)
  /\ IF requests[q].action = "stop"
     THEN UNCHANGED deployment_log
     ELSE logSuccess(requests[q].env, requests[q].action)
  /\ requests' = [requests EXCEPT ![q].logged = TRUE]
  /\ UNCHANGED customer_env

\* ... which the foreign key refuses once the row is gone: answer 500.
RetriggerLogFails(q) ==
  /\ requests[q] # NULL
  /\ requests[q].kind = "retrigger"
  /\ ~ requests[q].logged
  /\ ~ Exists(requests[q].env)
  /\ Answer(q)
  /\ UNCHANGED tables

\* What the last statement of each retrigger action writes.
Queued(r, action) ==
  LET OrNow(d) == IF d = NULL THEN "elapsed" ELSE d IN
  CASE action = "provision" ->
         [r EXCEPT !.deploy_status = "pending", !.stop_date = NULL, !.dcomm_date = NULL]
    [] action = "patch" -> [r EXCEPT !.deploy_status = "reconfiguring"]
    [] action = "stop" -> [r EXCEPT !.deploy_status = "stopping", !.stop_date = OrNow(@)]
    [] action = "decommission" ->
         [r EXCEPT !.deploy_status = "decommissioning", !.dcomm_date = OrNow(@)]

RetriggerUpdate(q) ==
  /\ requests[q] # NULL
  /\ requests[q].kind = "retrigger"
  /\ requests[q].logged
  /\ LET Set(r) == Queued(r, requests[q].action) IN UpdateRow(requests[q].env, Set)
  /\ Answer(q)
  /\ UNCHANGED deployment_log

=============================================================================
