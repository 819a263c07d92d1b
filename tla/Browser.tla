------------------------------ MODULE Browser ------------------------------
(***************************************************************************)
(* What the screens of the web UI have in common.  A screen calls a route  *)
(* with fetch and awaits the answer: the request is sent, the route serves *)
(* it, the answer is applied, and anything may happen between those three  *)
(* steps.  The network may lose a request, or the answer to one that was   *)
(* served: the screen cannot tell which.                                   *)
(*                                                                         *)
(* The budget bounds what operators, failures and the rest of the system   *)
(* do; timers are not bounded.                                             *)
(***************************************************************************)
EXTENDS Integers

CONSTANTS
  NULL,        \* null and undefined, and the row that does not exist
  MaxClicks,   \* what the operator of the screen does
  MaxFaults,   \* failed calls
  MaxChanges,  \* what others write while the screen is open
  MaxEvents    \* all of these together

ASSUME BrowserAssumption ==
  /\ MaxClicks \in Nat /\ MaxFaults \in Nat /\ MaxChanges \in Nat /\ MaxEvents \in Nat

VARIABLE used  \* used[k] of the budget is spent

Budget == [clicks |-> MaxClicks, faults |-> MaxFaults, changes |-> MaxChanges]

BudgetTypeOK ==
  used \in [clicks: 0 .. MaxClicks, faults: 0 .. MaxFaults, changes: 0 .. MaxChanges]

BudgetInit == used = [clicks |-> 0, faults |-> 0, changes |-> 0]

Spend(k) ==
  /\ used[k] < Budget[k]
  /\ used.clicks + used.faults + used.changes < MaxEvents
  /\ used' = [used EXCEPT ![k] = @ + 1]

=============================================================================
