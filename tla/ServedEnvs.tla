----------------------------- MODULE ServedEnvs -----------------------------
(***************************************************************************)
(* The environments as the screens see them: the rows behind the routes,   *)
(* written by this screen's operator, by others, and by the worker.        *)
(*                                                                         *)
(* Every route that a screen calls is one atomic operator here; EnvApi and *)
(* PollWorker have their statements one by one.  v numbers the writes, so  *)
(* that two reads can be put in order.  The clock stands still while       *)
(* a screen is open: a date is NULL, past ("elapsed"), later today         *)
(* ("today") or on a later day ("later").                                  *)
(***************************************************************************)
EXTENDS Browser

CONSTANTS
  Env,      \* the environments
  Deployed, \* those that exist, and run, when the screen is opened
  MaxWrites \* writes of rows, by anybody

VARIABLES
  served,  \* served[e] is e's row, NULL when there is none
  writes   \* how many writes there have been, the initial rows being the first

serverVars == <<served, writes>>

Status == {"pending", "deployed", "stopped", "failed", "decommissioning", "decommissioned"}

Date == {NULL, "elapsed", "today", "later"}

Row == [ deploy_status: Status, replicas: {0, 1}, stop_date: Date, dcomm_date: Date,
         v: 1 .. MaxWrites ]

ASSUME ServedAssumption ==
  /\ Deployed \subseteq Env /\ MaxWrites \in Nat \ {0}
  /\ NULL \notin Row /\ NULL \notin {"elapsed", "today", "later"}

\* GET /api/envs/[id]/status: what a poll learns of a row.  It has no replicas.
StatusOf(r) ==
  [deploy_status |-> r.deploy_status, stop_date |-> r.stop_date, dcomm_date |-> r.dcomm_date,
   v |-> r.v]

Live == [deploy_status: Status, stop_date: Date, dcomm_date: Date, v: 1 .. MaxWrites]

\* The answer to a poll of e.
Polling(e) == IF served[e] = NULL THEN NULL ELSE StatusOf(served[e])

ServedTypeOK == served \in [Env -> Row \cup {NULL}] /\ writes \in 1 .. MaxWrites

Created == [ deploy_status |-> "pending", replicas |-> 1, stop_date |-> NULL,
             dcomm_date |-> NULL, v |-> 1 ]

ServedInit ==
  /\ served = [e \in Env |-> IF e \in Deployed THEN [Created EXCEPT !.deploy_status = "deployed"]
                            ELSE NULL]
  /\ writes = 1

Write(e, row) ==
  /\ writes < MaxWrites
  /\ writes' = writes + 1
  /\ served' = [served EXCEPT ![e] = [row EXCEPT !.v = writes + 1]]

RowGone(e) == served' = [served EXCEPT ![e] = NULL] /\ UNCHANGED writes

---------------------------------------------------------------------------
(***************************************************************************)
(* What the routes write.                                                  *)
(***************************************************************************)

Stopped(r) == [r EXCEPT !.replicas = 0, !.stop_date = "elapsed"]

Decommissioned(r) == [r EXCEPT !.dcomm_date = "elapsed"]

Redeployed(r) ==
  [r EXCEPT !.deploy_status = "pending", !.stop_date = NULL, !.dcomm_date = NULL]

\* Whether the stop, decommission or retrigger route accepts the row (409 otherwise).
Accepts(kind, r) ==
  /\ r # NULL
  /\ r.deploy_status # "decommissioned"
  /\ kind = "stop" => r.deploy_status # "decommissioning"

Written(kind, r) ==
  CASE kind = "stop" -> Stopped(r)
    [] kind = "decommission" -> Decommissioned(r)
    [] kind = "redeploy" -> Redeployed(r)

---------------------------------------------------------------------------
(***************************************************************************)
(* What others do to a row.                                                *)
(***************************************************************************)

\* The worker takes the row one step further.
WorkerWrites(r) ==
  IF r.dcomm_date = "elapsed"
  THEN IF r.deploy_status = "decommissioned" THEN {}
       ELSE {[r EXCEPT !.deploy_status = s]: s \in {"decommissioning", "decommissioned", "failed"}}
  ELSE CASE r.deploy_status = "pending" ->
              {[r EXCEPT !.deploy_status = s]: s \in {"deployed", "failed"}}
         [] r.deploy_status = "deployed" /\ r.stop_date = "elapsed" ->
              {[r EXCEPT !.deploy_status = "stopped", !.replicas = 0]}
         [] OTHER -> {}

\* Another operator stops, tears down or redeploys, sets a stop for later today, or
\* takes a teardown back.
OperatorWrites(r) ==
       {Written(k, r): k \in {x \in {"stop", "decommission", "redeploy"}: Accepts(x, r)}}
  \cup {[r EXCEPT !.stop_date = "today"], [r EXCEPT !.dcomm_date = NULL]}

OthersWrite(e) ==
  /\ served[e] # NULL
  /\ Spend("changes")
  /\ \E r \in (WorkerWrites(served[e]) \cup OperatorWrites(served[e])) \ {served[e]}:
       Write(e, r)

\* The worker's purge, or the delete of another operator.
OthersDelete(e) ==
  /\ served[e] # NULL /\ served[e].deploy_status = "decommissioned"
  /\ Spend("changes")
  /\ RowGone(e)

=============================================================================
