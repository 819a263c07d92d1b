--------------------------- MODULE MCControlPlane ---------------------------
(***************************************************************************)
(* ControlPlane for TLC.  The images and the request handlers are          *)
(* interchangeable; symmetry is used by the safety runs only.              *)
(***************************************************************************)
EXTENDS ControlPlane, TLC

Symmetry == Permutations(Image) \cup Permutations(Request)

\* Every environment has been created and provisioned, and nothing happened since:
\* a state of Spec, so that a run with several environments need not spend its
\* requests on getting there.
AllDeployed ==
  \E config \in {c \in Config: c.replicas > 0}:
    /\ customer_env = [e \in Env |->
         [ deploy_status |-> "deployed", config |-> config, stop_date |-> NULL,
           dcomm_date |-> NULL, pending_delete |-> FALSE,
           last_applied_config |-> config, modified |-> FALSE, stale |-> FALSE ]]
    /\ deployment_log = [e \in Env |-> FreshWindows]
    /\ ApiInit
    /\ AtRest
    /\ deployed = [e \in Env |-> config]
    /\ tries = [e \in Env |-> NoTries]
    /\ count = [ops |-> 0, crashes |-> 0, faults |-> 0, retriggers |-> 0, purges |-> 0]

SpecFromEither == (Init \/ AllDeployed) /\ [][Next]_vars

FairSpecFromDeployed == AllDeployed /\ [][Next]_vars /\ Fairness

=============================================================================
