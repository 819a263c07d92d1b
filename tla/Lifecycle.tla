----------------------------- MODULE Lifecycle -----------------------------
(***************************************************************************)
(* What the control plane promises about an environment, without tables,   *)
(* snapshots, retries or handlers: one worker, one environment at a time,  *)
(* and a status that is written after the fact.                            *)
(*                                                                         *)
(* Source: control-plane/src/worker/poll.ts (its head comment and loop),   *)
(* db-worker.ts and the routes of app/api/envs.  ControlPlane implements   *)
(* this: see Promised and KeepsLifecycle there, and LifecycleProofs.       *)
(***************************************************************************)
CONSTANTS
  Env,   \* the environments
  NULL   \* no row, no task

VARIABLES
  status,   \* status[e] is the deploy_status of e's row, NULL when there is none
  running,  \* running[e]: there are resources of e in the cluster
  busy      \* the environment the worker is at, NULL between tasks

vars == <<status, running, busy>>

Init ==
  /\ status = [e \in Env |-> NULL]
  /\ running = [e \in Env |-> FALSE]
  /\ busy = NULL

---------------------------------------------------------------------------
\* What operators may do at any time.  None of it touches the cluster.
Create(e) ==
  /\ status[e] = NULL
  /\ status' = [status EXCEPT ![e] = "pending"]
  /\ UNCHANGED <<running, busy>>

Retrigger(e) ==
  /\ status[e] # NULL
  /\ \E s \in {"pending", "reconfiguring", "stopping", "decommissioning"}:
       status' = [status EXCEPT ![e] = s]
  /\ UNCHANGED <<running, busy>>

\* A handler looks at the status first, but not in the same statement.
Delete(e) ==
  /\ status[e] # NULL
  /\ status' = [status EXCEPT ![e] = NULL]
  /\ UNCHANGED <<running, busy>>

---------------------------------------------------------------------------
\* Between tasks the worker moves rows on: what is stuck back to its queue, what has
\* drifted into it.
Sweep(from, to) ==
  /\ busy = NULL
  /\ \E S \in SUBSET {e \in Env: status[e] \in from}:
       status' = [e \in Env |-> IF e \in S THEN to ELSE status[e]]
  /\ UNCHANGED <<running, busy>>

\* It takes up no environment that is decommissioned ...
Begin(e) ==
  /\ busy = NULL
  /\ status[e] # "decommissioned"
  /\ busy' = e
  /\ UNCHANGED <<status, running>>

SetStatus(s) == status' = IF status[busy] = NULL THEN status ELSE [status EXCEPT ![busy] = s]

Mark ==
  /\ busy # NULL
  /\ SetStatus("provisioning") \/ SetStatus("decommissioning")
  /\ UNCHANGED <<running, busy>>

\* ... creates or removes the resources of the one it is at and of no other, and none
\* once that one is decommissioned ...
Work ==
  /\ busy # NULL
  /\ status[busy] # "decommissioned"
  /\ \E b \in BOOLEAN: running' = [running EXCEPT ![busy] = b]
  /\ UNCHANGED status

\* ... and says what it did only when it is true: running when it runs, decommissioned
\* when nothing does.
Finish ==
  /\ busy # NULL
  /\ \/ running[busy] /\ (SetStatus("deployed") \/ SetStatus("stopped"))
     \/ ~ running[busy] /\ SetStatus("decommissioned")
     \/ SetStatus("failed")
  /\ UNCHANGED <<running, busy>>

\* The task ends, or the process dies in the middle of it.
Stop == busy' = NULL /\ UNCHANGED <<status, running>>

Next ==
  \/ \E e \in Env: Create(e) \/ Retrigger(e) \/ Delete(e) \/ Begin(e)
  \/ Sweep({"provisioning"}, "pending")
  \/ Sweep({"reconfiguring"}, "deployed")
  \/ Sweep({"deployed", "stopped"}, "reconfiguring")
  \/ Mark
  \/ Work /\ UNCHANGED busy
  \/ Work /\ busy' = NULL
  \/ Finish
  \/ Stop

Spec == Init /\ [][Next]_vars

=============================================================================
