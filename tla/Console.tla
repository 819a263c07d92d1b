------------------------------- MODULE Console -------------------------------
(***************************************************************************)
(* The web UI: one of its three screens is open, while others, and the     *)
(* worker, write the rows that the routes serve.  A screen keeps nothing   *)
(* when it is left, so each behaviour opens one and stays there; the       *)
(* screens share the server's rows and the budget.                         *)
(***************************************************************************)
EXTENDS LogPanel, EnvTable, DetailPage

VARIABLE view  \* "logs", "list" or "detail"

vars == <<used, serverVars, panelVars, tableVars, pageVars, view>>

Init ==
  /\ view \in {"logs", "list", "detail"}
  /\ BudgetInit /\ ServedInit
  /\ PanelInit /\ TableInit /\ PageInit
  /\ view # "logs" => deployment_log = <<>>

OnLogs(A) == view = "logs" /\ A /\ UNCHANGED <<serverVars, tableVars, pageVars, view>>

OnList(A) == view = "list" /\ A /\ UNCHANGED <<panelVars, pageVars, view>>

OnDetail(A) == view = "detail" /\ A /\ RecordServed /\ UNCHANGED <<panelVars, tableVars, view>>

Next == OnLogs(PanelNext) \/ OnList(TableNext) \/ OnDetail(PageNext)

(***************************************************************************)
(* Fairness: the timers fire, a request that was sent is served and its    *)
(* answer applied, unless it fails, and an INSERT that was begun ends.     *)
(* Nothing is assumed of the operator or of the other writers.             *)
(*                                                                         *)
(* The strong fairness of the table's polls is an assumption about time:   *)
(* a tick aborts a poll that has not been answered yet, so a route that    *)
(* always needs longer than the interval never updates the row.            *)
(***************************************************************************)
Fairness ==
  /\ WF_vars(OnLogs(\E s \in Slot: fetchLogs(s)))
  /\ \A s \in Slot: WF_vars(OnLogs(ServeCall(s) \/ ApplyCall(s)))
  /\ \A w \in Writer: WF_vars(OnLogs(EndInsert(w)))
  /\ WF_vars(OnList(DebounceFires))
  /\ WF_vars(OnList(\E l \in loads: ServeLoad(l) \/ ApplyLoad(l)))
  /\ WF_vars(OnList(pollAll))
  /\ \A e \in Env: /\ WF_vars(OnList(\E p \in polls[e]: ServeStatus(e, p)))
                   /\ SF_vars(OnList(\E p \in polls[e]: ApplyStatus(e, p)))
  /\ WF_vars(OnDetail(ServeDetail \/ loadEnvData))
  /\ WF_vars(OnDetail(\E s \in PollSlot: fetchStatus(s)))
  /\ \A c \in PollSlot \cup Awaited: WF_vars(OnDetail(ServePoll(c) \/ ApplyPagePoll(c)))

Spec == Init /\ [][Next]_vars /\ Fairness

---------------------------------------------------------------------------
ConsoleTypeOK == BudgetTypeOK /\ ServedTypeOK /\ PanelTypeOK /\ TableTypeOK /\ PageTypeOK

\* A spinner turns, and a button is disabled, only while its call is in flight: no
\* failure, refusal or late answer leaves a control of any screen stuck.
NoControlIsStuck == PanelSpinners /\ TableSpinners /\ PageSpinners

\* Once the others rest, the open screen comes to show the newest log entries, the
\* polled status of every row, or that of the page, and stays so: no late answer, lost
\* call or optimistic update is left standing in them.  What no poll brings is not
\* included: the settings on the page, and the other columns of the list, may stay old.
ScreenCatchesUp ==
  <>[](CASE view = "logs" -> ShowsNewest
         [] view = "list" -> TableShowsStatus
         [] view = "detail" -> PageShowsStatus)

=============================================================================
