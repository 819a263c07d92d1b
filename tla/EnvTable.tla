------------------------------ MODULE EnvTable ------------------------------
(***************************************************************************)
(* The environment list: a search box, the rows that match, a status poll  *)
(* per row, stop, decommission and delete per row, bulk actions over a     *)
(* selection, and the dialog that creates an environment.                  *)
(*                                                                         *)
(* Source: control-plane/src/components/EnvList.tsx, with                  *)
(* CreateEnvModal.tsx, app/page.tsx and the GET and PATCH routes it calls. *)
(*                                                                         *)
(* Answers are applied in any order, save that a list load aborts the load *)
(* before it and a status poll the poll of the same row before it: an      *)
(* aborted call is forgotten, whether it was served or not.  React applies *)
(* the effects of a state change at once: an action contains the effects   *)
(* that its assignments trigger.                                           *)
(***************************************************************************)
EXTENDS ServedEnvs, FiniteSets

CONSTANTS
  Query,   \* what is typed into the search box
  Matches, \* Matches[q] are the environments GET /api/envs?q= finds
  ActSlot  \* the operator calls in flight at the same time

VARIABLES
  query, debounce,     \* the search box, and whether its 300 ms timer runs
  listState, loads,    \* the list, and its loads in flight
  rows,                \* rows[e] is e's row of the table, NULL when there is none
  polls,               \* polls[e]: e's status polls in flight
  acts,                \* acts[s]: operator call in slot s
  selected, bulk,      \* checkboxes; the bulk action being confirmed or running
  shownFor,            \* history: the query whose answer is shown
  applied,             \* history: the version of e's row that was last put on the screen
  removed              \* history: rows taken out by a delete since the list was loaded

tableVars == <<query, debounce, listState, loads, rows, polls, acts, selected, bulk, shownFor,
               applied, removed>>

ActKind == {"stop", "decommission", "delete", "create"}

BulkKind == {"redeploy", "stop", "decommission"}

TableRow == [ base: Row, live: Live \cup {NULL},
              polling: BOOLEAN, stopping: BOOLEAN, decommissioning: BOOLEAN ]

Load == [query: Query, found: [Env -> Row \cup {NULL}] \cup {NULL}]

StatusPoll == [served: BOOLEAN, row: Live \cup {NULL}]

Act == [ kind: ActKind, env: Env, answer: {NULL, "ok", "refused", "gone"}, row: Row \cup {NULL} ]

ASSUME TableAssumption ==
  /\ Query # {} /\ Matches \in [Query -> SUBSET Env]
  /\ NULL \notin {"ok", "refused", "gone"} /\ NULL \notin TableRow /\ NULL \notin Act

Fresh(r) ==
  [base |-> r, live |-> NULL, polling |-> TRUE, stopping |-> FALSE, decommissioning |-> FALSE]

Shown == {e \in Env: rows[e] # NULL}

TableTypeOK ==
  /\ query \in Query /\ debounce \in BOOLEAN
  /\ listState \in {"loading", "error", "ready"}
  /\ loads \subseteq Load
  /\ rows \in [Env -> TableRow \cup {NULL}]
  /\ polls \in [Env -> SUBSET StatusPoll]
  /\ acts \in [ActSlot -> Act \cup {NULL}]
  /\ selected \subseteq Env
  /\ bulk \in [kind: BulkKind, keys: SUBSET Env, running: BOOLEAN, waiting: SUBSET Env] \cup {NULL}
  /\ shownFor \in Query \cup {NULL} /\ applied \in [Env -> 0 .. MaxWrites] /\ removed \subseteq Env

\* Mounted: the first load is under way, and the timer of the search box runs.
TableInit ==
  /\ query = CHOOSE q \in Query: TRUE
  /\ debounce = TRUE
  /\ listState = "loading"
  /\ loads = {[query |-> query, found |-> NULL]}
  /\ rows = [e \in Env |-> NULL]
  /\ polls = [e \in Env |-> {}]
  /\ acts = [s \in ActSlot |-> NULL]
  /\ selected = {} /\ bulk = NULL
  /\ shownFor = NULL /\ applied = [e \in Env |-> 0] /\ removed = {}

---------------------------------------------------------------------------
(***************************************************************************)
(* Loading the list.                                                       *)
(***************************************************************************)

\* Mutant: the load before this one is not aborted.
LoadWithoutAbort(q) ==
  /\ loads' = loads \cup {[query |-> q, found |-> NULL]}
  /\ listState' = "loading"
  /\ polls' = [e \in Env |-> {}]

\* A new load aborts the one before it; the list is no longer ready, which ends
\* the polling and aborts the polls.
loadEnvs(q) ==
  /\ loads' = {[query |-> q, found |-> NULL]}
  /\ listState' = "loading"
  /\ polls' = [e \in Env |-> {}]

keptByLoad == <<rows, selected, shownFor, applied, removed>>

\* A keystroke, the clear button, or another org clicked: the timer starts anew.
TypeQuery(q) ==
  /\ q # query
  /\ Spend("clicks")
  /\ query' = q
  /\ debounce' = TRUE
  /\ UNCHANGED <<serverVars, listState, loads, polls, acts, bulk, keptByLoad>>

DebounceFires ==
  /\ debounce
  /\ debounce' = FALSE
  /\ loadEnvs(query)
  /\ UNCHANGED <<serverVars, query, acts, bulk, keptByLoad, used>>

Retry ==
  /\ listState = "error"
  /\ loadEnvs(query)
  /\ UNCHANGED <<serverVars, query, debounce, acts, bulk, keptByLoad, used>>

ServeLoad(l) ==
  /\ l.found = NULL
  /\ loads' = (loads \ {l}) \cup
       {[l EXCEPT !.found = [e \in Env |-> IF e \in Matches[l.query] THEN served[e] ELSE NULL]]}
  /\ UNCHANGED <<serverVars, query, debounce, listState, polls, acts, bulk, keptByLoad, used>>

NewPolls(S) == [e \in Env |-> IF e \in S THEN {[served |-> FALSE, row |-> NULL]} ELSE {}]

\* Mutant: the selection outlives the list it was made on.
ApplyLoadKeepingSelection(l) ==
  /\ l.found # NULL
  /\ loads' = loads \ {l}
  /\ rows' = [e \in Env |-> IF l.found[e] = NULL THEN NULL ELSE Fresh(l.found[e])]
  /\ selected' = selected /\ removed' = {}
  /\ listState' = "ready" /\ shownFor' = l.query
  /\ polls' = NewPolls({e \in Env: l.found[e] # NULL})
  /\ applied' = [e \in Env |-> IF l.found[e] = NULL THEN applied[e] ELSE l.found[e].v]
  /\ UNCHANGED <<serverVars, query, debounce, acts, bulk, used>>

\* The answer replaces the rows and clears the selection; ready again, so every
\* row is polled at once.
ApplyLoad(l) ==
  /\ l.found # NULL
  /\ loads' = loads \ {l}
  /\ rows' = [e \in Env |-> IF l.found[e] = NULL THEN NULL ELSE Fresh(l.found[e])]
  /\ selected' = {} /\ removed' = {}
  /\ listState' = "ready" /\ shownFor' = l.query
  /\ polls' = NewPolls({e \in Env: l.found[e] # NULL})
  /\ applied' = [e \in Env |-> IF l.found[e] = NULL THEN applied[e] ELSE l.found[e].v]
  /\ UNCHANGED <<serverVars, query, debounce, acts, bulk, used>>

LoadFails(l) ==
  /\ Spend("faults")
  /\ loads' = loads \ {l}
  /\ listState' = "error"
  /\ UNCHANGED <<serverVars, query, debounce, polls, acts, bulk, keptByLoad>>

---------------------------------------------------------------------------
(***************************************************************************)
(* Polling the status of the rows.                                         *)
(***************************************************************************)

\* Mutant: the poll before this one is not aborted.
PollsWithoutAbort(S) ==
  [e \in Env |-> IF e \in S THEN polls[e] \cup {[served |-> FALSE, row |-> NULL]} ELSE polls[e]]

\* fetchStatus of every row in S, each aborting the poll of that row before it.
PollsOf(S) == [e \in Env |-> IF e \in S THEN {[served |-> FALSE, row |-> NULL]} ELSE polls[e]]

\* Every pollInterval while the list is ready.
pollAll ==
  /\ listState = "ready" /\ Shown # {}
  /\ polls' = PollsOf(Shown)
  /\ rows' = [e \in Env |-> IF rows[e] = NULL THEN NULL ELSE [rows[e] EXCEPT !.polling = TRUE]]
  /\ UNCHANGED <<serverVars, query, debounce, listState, loads, acts, selected, bulk, shownFor,
                 applied, removed, used>>

\* GET /api/envs/[id]/status
ServeStatus(e, p) ==
  /\ ~ p.served
  /\ polls' = [polls EXCEPT ![e] = (@ \ {p}) \cup {[served |-> TRUE, row |-> Polling(e)]}]
  /\ UNCHANGED <<serverVars, query, debounce, listState, loads, acts, bulk, keptByLoad, used>>

keptByStatus ==
  <<serverVars, query, debounce, listState, loads, acts, selected, bulk, shownFor, removed>>

\* The row found becomes the live status; a 404 keeps the one before it.
ApplyStatus(e, p) ==
  /\ p.served
  /\ polls' = [polls EXCEPT ![e] = @ \ {p}]
  /\ IF rows[e] = NULL THEN UNCHANGED <<rows, applied>>
     ELSE IF p.row = NULL
     THEN rows' = [rows EXCEPT ![e].polling = FALSE] /\ UNCHANGED applied
     ELSE /\ rows' = [rows EXCEPT ![e] = [@ EXCEPT !.live = p.row, !.polling = FALSE]]
          /\ applied' = [applied EXCEPT ![e] = p.row.v]
  /\ UNCHANGED <<keptByStatus, used>>

StatusFails(e, p) ==
  /\ Spend("faults")
  /\ polls' = [polls EXCEPT ![e] = @ \ {p}]
  /\ rows' = IF rows[e] = NULL THEN rows ELSE [rows EXCEPT ![e].polling = FALSE]
  /\ UNCHANGED <<keptByStatus, applied>>

---------------------------------------------------------------------------
(***************************************************************************)
(* The buttons of a row, and the create dialog.                            *)
(***************************************************************************)

liveStatus(r) == IF r.live # NULL THEN r.live.deploy_status ELSE r.base.deploy_status

isStoppable(status) == status = "deployed"

isDecommissionable(status) == status \in {"stopped", "failed"}

keptByClick ==
  <<serverVars, query, debounce, listState, loads, polls, selected, bulk, shownFor, applied, removed>>

Click(kind, e) ==
  /\ Spend("clicks")
  /\ \E s \in ActSlot: /\ acts[s] = NULL
                    /\ acts' = [acts EXCEPT ![s] =
                         [kind |-> kind, env |-> e, answer |-> NULL, row |-> NULL]]
  /\ UNCHANGED keptByClick

OnScreen(e) == listState = "ready" /\ rows[e] # NULL

stopEnv(e) ==
  /\ OnScreen(e)
  /\ isStoppable(liveStatus(rows[e])) /\ ~ rows[e].stopping
  /\ rows' = [rows EXCEPT ![e].stopping = TRUE]
  /\ Click("stop", e)

decommissionEnv(e) ==
  /\ OnScreen(e)
  /\ isDecommissionable(liveStatus(rows[e])) /\ ~ rows[e].decommissioning
  /\ rows' = [rows EXCEPT ![e].decommissioning = TRUE]
  /\ Click("decommission", e)

\* The delete button has no guard but its confirmation.
deleteEnv(e) == OnScreen(e) /\ Click("delete", e) /\ UNCHANGED rows

createEnv(e) == Click("create", e) /\ UNCHANGED rows

\* The route serves the call.
ServeAct(s) ==
  /\ acts[s] # NULL /\ acts[s].answer = NULL
  /\ LET e == acts[s].env
         k == acts[s].kind
         Answer(a) == acts' = [acts EXCEPT ![s] = [@ EXCEPT !.answer = a, !.row = served'[e]]]
     IN \/ /\ k \in {"stop", "decommission"} /\ Accepts(k, served[e])
           /\ Write(e, Written(k, served[e]))
           /\ Answer("ok")
        \/ /\ k \in {"stop", "decommission"} /\ ~ Accepts(k, served[e])
           /\ UNCHANGED serverVars
           /\ Answer("refused")
        \/ /\ k = "delete"
           /\ IF served[e] = NULL THEN UNCHANGED serverVars /\ Answer("refused")
              ELSE IF served[e].deploy_status = "decommissioned"
              THEN RowGone(e) /\ Answer("gone")
              ELSE Write(e, Decommissioned(served[e])) /\ Answer("ok")
        \/ /\ k = "create"
           /\ IF served[e] = NULL
              THEN Write(e, Created) /\ Answer("ok")
              ELSE UNCHANGED serverVars /\ Answer("refused")
  /\ UNCHANGED <<query, debounce, listState, loads, rows, polls, selected, bulk, shownFor,
                 applied, removed, used>>

\* Stop accepted: what the route wrote is shown before the next poll tells it.
AfterStop(r) ==
  [r EXCEPT !.stopping = FALSE, !.base = Stopped(@),
            !.live = IF @ = NULL THEN NULL ELSE [@ EXCEPT !.stop_date = "elapsed"]]

AfterDecommission(r) ==
  LET TornDown(row) == [row EXCEPT !.dcomm_date = "elapsed", !.deploy_status = "decommissioning"]
  IN [r EXCEPT !.decommissioning = FALSE, !.base = TornDown(@),
               !.live = IF @ = NULL THEN NULL ELSE TornDown(@)]

\* Refused or lost: the button can be pressed again.
Released(r, kind) ==
  CASE kind = "stop" -> [r EXCEPT !.stopping = FALSE]
    [] kind = "decommission" -> [r EXCEPT !.decommissioning = FALSE]
    [] OTHER -> r

Done(s) == acts' = [acts EXCEPT ![s] = NULL]

\* An answer that changes at most the row of its environment.
ApplyActToRow(s) ==
  /\ acts[s] # NULL /\ acts[s].answer # NULL
  /\ LET e == acts[s].env
         k == acts[s].kind
         a == acts[s].answer
         After(r) == IF a = "refused" THEN Released(r, k)
                     ELSE CASE k = "stop" -> AfterStop(r)
                            [] k = "decommission" -> AfterDecommission(r)
                            [] k = "delete" ->
                                 [r EXCEPT !.base = [acts[s].row EXCEPT !.deploy_status = "decommissioning"]]
     IN /\ a # "gone" /\ ~ (k = "create" /\ a = "ok")
        /\ rows' = IF rows[e] = NULL THEN rows ELSE [rows EXCEPT ![e] = After(@)]
  /\ Done(s)
  /\ UNCHANGED keptByClick /\ UNCHANGED used

\* 204: the row is taken out, and the others are polled anew when their number has
\* changed.  Its checkbox is forgotten here and stays in the selection.
ApplyDelete(s) ==
  /\ acts[s] # NULL /\ acts[s].answer = "gone"
  /\ LET e == acts[s].env
     IN /\ rows' = [f \in Env |-> IF f = e \/ rows[f] = NULL THEN NULL
                                  ELSE IF rows[e] # NULL /\ listState = "ready"
                                  THEN [rows[f] EXCEPT !.polling = TRUE] ELSE rows[f]]
        /\ removed' = removed \cup {e}
        /\ polls' = IF rows[e] # NULL /\ listState = "ready" THEN NewPolls(Shown \ {e}) ELSE polls
  /\ Done(s)
  /\ UNCHANGED <<serverVars, query, debounce, listState, loads, selected, bulk, shownFor, applied, used>>

\* Created: the page bumps refreshKey, which loads the list anew.
ApplyCreate(s) ==
  /\ acts[s] # NULL /\ acts[s].kind = "create" /\ acts[s].answer = "ok"
  /\ loadEnvs(query)
  /\ Done(s)
  /\ UNCHANGED <<serverVars, query, debounce, bulk, keptByLoad, used>>

ActFails(s) ==
  /\ acts[s] # NULL
  /\ Spend("faults")
  /\ rows' = IF rows[acts[s].env] = NULL THEN rows
             ELSE [rows EXCEPT ![acts[s].env] = Released(@, acts[s].kind)]
  /\ Done(s)
  /\ UNCHANGED keptByClick

---------------------------------------------------------------------------
(***************************************************************************)
(* Selection and bulk actions.                                             *)
(***************************************************************************)

keptByBulk == <<query, debounce, acts, rows, shownFor, applied, removed>>

toggleRowSelection(e) ==
  /\ OnScreen(e)
  /\ Spend("clicks")
  /\ selected' = IF e \in selected THEN selected \ {e} ELSE selected \cup {e}
  /\ UNCHANGED <<serverVars, listState, loads, polls, bulk, keptByBulk>>

toggleSelectAll ==
  /\ listState = "ready" /\ Shown # {}
  /\ Spend("clicks")
  /\ selected' = IF Shown \subseteq selected THEN {} ELSE Shown
  /\ UNCHANGED <<serverVars, listState, loads, polls, bulk, keptByBulk>>

\* The keys are those selected when the dialog opens.
OpenBulk(kind) ==
  /\ selected # {} /\ bulk = NULL
  /\ Spend("clicks")
  /\ bulk' = [kind |-> kind, keys |-> selected, running |-> FALSE, waiting |-> selected]
  /\ UNCHANGED <<serverVars, listState, loads, polls, selected, keptByBulk>>

CancelBulk ==
  /\ bulk # NULL /\ ~ bulk.running
  /\ bulk' = NULL
  /\ UNCHANGED <<serverVars, listState, loads, polls, selected, keptByBulk, used>>

executeBulkAction ==
  /\ bulk # NULL /\ ~ bulk.running
  /\ bulk' = [bulk EXCEPT !.running = TRUE]
  /\ UNCHANGED <<serverVars, listState, loads, polls, selected, keptByBulk, used>>

\* One of the parallel calls is served (whatever the row's status is), and counted.
ServeBulk(e) ==
  /\ bulk # NULL /\ bulk.running /\ e \in bulk.waiting
  /\ IF Accepts(bulk.kind, served[e])
     THEN Write(e, Written(bulk.kind, served[e]))
     ELSE UNCHANGED serverVars
  /\ bulk' = [bulk EXCEPT !.waiting = @ \ {e}]
  /\ UNCHANGED <<listState, loads, polls, selected, keptByBulk, used>>

BulkCallFails(e) ==
  /\ bulk # NULL /\ bulk.running /\ e \in bulk.waiting
  /\ Spend("faults")
  /\ bulk' = [bulk EXCEPT !.waiting = @ \ {e}]
  /\ UNCHANGED <<serverVars, listState, loads, polls, selected, keptByBulk>>

\* All have answered: the selection is cleared and the list loaded for what the
\* search box holds by now.
FinishBulk ==
  /\ bulk # NULL /\ bulk.running /\ bulk.waiting = {}
  /\ bulk' = NULL
  /\ selected' = {}
  /\ loadEnvs(query)
  /\ UNCHANGED <<serverVars, keptByBulk, used>>

---------------------------------------------------------------------------
OthersStep ==
  /\ \E e \in Env: OthersWrite(e) \/ OthersDelete(e)
  /\ UNCHANGED tableVars

TableNext ==
  \/ \E q \in Query: TypeQuery(q)
  \/ DebounceFires
  \/ Retry
  \/ \E l \in loads: ServeLoad(l) \/ ApplyLoad(l) \/ LoadFails(l)
  \/ pollAll
  \/ \E e \in Env: \E p \in polls[e]: ServeStatus(e, p) \/ ApplyStatus(e, p) \/ StatusFails(e, p)
  \/ \E e \in Env: stopEnv(e) \/ decommissionEnv(e) \/ deleteEnv(e) \/ createEnv(e)
  \/ \E s \in ActSlot: ServeAct(s) \/ ApplyActToRow(s) \/ ApplyDelete(s) \/ ApplyCreate(s) \/ ActFails(s)
  \/ \E e \in Env: toggleRowSelection(e) \/ ServeBulk(e) \/ BulkCallFails(e)
  \/ toggleSelectAll
  \/ \E k \in BulkKind: OpenBulk(k)
  \/ CancelBulk
  \/ executeBulkAction
  \/ FinishBulk
  \/ OthersStep

---------------------------------------------------------------------------
\* The rows on the screen answer what the search box says, in whatever order the
\* loads of two queries, of a refresh and of a bulk action are answered; while the
\* 300 ms of the last keystroke run, they may still answer the text before it.
RowsAnswerTheQuery ==
  listState = "ready" /\ ~ debounce => shownFor = query

\* No list load and no status poll that is applied was computed before one that was
\* applied earlier, whatever was aborted, lost or overtaken.  It speaks of these calls
\* only: what the answer of a stop or of a decommission shows in advance may still be
\* undone by a poll that was served before it.
ReadsStayInOrder ==
  [][\A e \in Env: applied'[e] >= applied[e]]_<<serverVars, tableVars>>

shownStop(r) == IF r.live # NULL /\ r.live.stop_date # NULL THEN r.live.stop_date ELSE r.base.stop_date

\* A stop that is shown stays on the screen as long as the server's row has it
\* (EnvList.tsx:608-610: "effectiveStatus() will show 'stopping' until the worker
\* patches K8s and transitions to 'stopped'").
StopStaysVisible ==
  [][\A e \in Env:
       /\ rows[e] # NULL /\ rows'[e] # NULL
       /\ shownStop(rows[e]) = "elapsed"
       /\ served[e] # NULL /\ served[e].stop_date = "elapsed"
       => shownStop(rows'[e]) = "elapsed"]_<<serverVars, tableVars>>

\* What is selected is in the list as it was loaded last, however loads, failed loads,
\* deletes and bulk actions follow each other; a row that its own delete button took
\* out is the exception.  The list need not be on the screen: it is hidden while it is
\* loaded anew and after a load that failed.
SelectionIsListed == selected \subseteq Shown \cup removed

\* Once a reload has ended, a bulk action can only be opened, or confirmed, for rows on
\* the screen (EnvList.tsx:873, "Clear selection on every list reload so stale
\* selections don't persist").
NoStaleSelection ==
  listState # "loading" =>
    selected \cup (IF bulk # NULL /\ ~ bulk.running THEN bulk.keys ELSE {})
      \subseteq {e \in Env: OnScreen(e)} \cup removed

\* A spinner turns, and a button is disabled, only while its call is in flight.
TableSpinners ==
  listState = "ready" =>
    \A e \in Shown:
      /\ rows[e].polling => polls[e] # {}
      /\ rows[e].stopping => \E s \in ActSlot: acts[s] # NULL /\ acts[s].kind = "stop" /\ acts[s].env = e
      /\ rows[e].decommissioning =>
           \E s \in ActSlot: acts[s] # NULL /\ acts[s].kind = "decommission" /\ acts[s].env = e

TableShowsStatus ==
  /\ listState # "loading"
  /\ listState = "ready" =>
       \A e \in Shown: served[e] # NULL => rows[e].live = StatusOf(served[e])

=============================================================================
