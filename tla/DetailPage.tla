----------------------------- MODULE DetailPage -----------------------------
(***************************************************************************)
(* The page of one environment: its row, loaded once, with the settings    *)
(* form made from it; its status, polled; and the stop, decommission and   *)
(* save calls, whose answers may replace the row and the form.             *)
(*                                                                         *)
(* Source: control-plane/src/app/envs/[org]/[env]/page.tsx with            *)
(* lib/settingsForm.ts and the detail, status, stop and decommission       *)
(* routes.                                                                 *)
(*                                                                         *)
(* replicas stands for the columns of the form that are not dates.  The    *)
(* version v that a form carries is that of the row it was made from; the  *)
(* code does not send it.  No call is ever aborted.                        *)
(***************************************************************************)
EXTENDS ServedEnvs

CONSTANTS
  Here,     \* the environment of the page
  PollSlot  \* the polls of the timer in flight at the same time

VARIABLES
  loadState, loadCall,           \* the first load
  envData, form, status,         \* the row, the settings form, the polled status
  edited,                        \* history: the fields changed since the form was made
  statusCalls,                   \* polls in flight: of the timer, and awaited ones
  modal, stopping, decommissioning, saving,
  stopCall, dcommCall, saveCall, \* the write in flight of each kind
  acked,                         \* history: newest own write that was reported as done
  unread,                        \* history: that was a stop whose row could not be read
  overlapped,                    \* history: a stop and a save were in flight together
  ever                           \* history: every row that was served

pageVars == <<loadState, loadCall, envData, form, status, edited, statusCalls,
              modal, stopping, decommissioning, saving, stopCall, dcommCall, saveCall,
              acked, unread, overlapped, ever>>

Field == {"replicas", "stop_date", "dcomm_date"}

Form == [replicas: {0, 1}, stop_date: Date, dcomm_date: Date, v: 1 .. MaxWrites]

Awaited == {"init", "stop", "decommission"}

Answer == {NULL, "ok", "refused"}

PagePoll == [served: BOOLEAN, row: Live \cup {NULL}]

WriteCall == [answer: Answer, row: Row \cup {NULL}]

SaveCall == [answer: Answer, row: Row \cup {NULL}, body: Form, previous: Row, edited: SUBSET Field]

ASSUME PageAssumption ==
  /\ Here \in Env
  /\ PollSlot \cap Awaited = {}
  /\ NULL \notin {"ok", "refused", "stop", "decommission"}
  /\ NULL \notin Form /\ NULL \notin PagePoll /\ NULL \notin WriteCall /\ NULL \notin SaveCall

PageTypeOK ==
  /\ loadState \in {"loading", "error", "ready"}
  /\ envData \in Row \cup {NULL} /\ status \in Live \cup {NULL}
  /\ form \in Form \cup {NULL} /\ edited \subseteq Field
  /\ statusCalls \in [PollSlot \cup Awaited -> PagePoll \cup {NULL}]
  /\ modal \in {NULL, "stop", "decommission"}
  /\ {stopping, decommissioning, saving, unread, overlapped} \subseteq BOOLEAN
  /\ {loadCall, stopCall, dcommCall} \subseteq WriteCall \cup {NULL}
  /\ saveCall \in SaveCall \cup {NULL}
  /\ acked \in 0 .. MaxWrites /\ ever \subseteq Row

Sent == [answer |-> NULL, row |-> NULL]

Polled == [served |-> FALSE, row |-> NULL]

PageInit ==
  /\ loadState = "loading" /\ loadCall = Sent
  /\ envData = NULL /\ form = NULL /\ status = NULL /\ edited = {}
  /\ statusCalls = [c \in PollSlot \cup Awaited |-> NULL]
  /\ modal = NULL /\ stopping = FALSE /\ decommissioning = FALSE /\ saving = FALSE
  /\ stopCall = NULL /\ dcommCall = NULL /\ saveCall = NULL
  /\ acked = 0 /\ unread = FALSE /\ overlapped = FALSE
  /\ ever = IF served[Here] = NULL THEN {} ELSE {served[Here]}

---------------------------------------------------------------------------
(***************************************************************************)
(* The settings form.                                                      *)
(***************************************************************************)

\* Mutant: a scheduled teardown does not make it into the form.
FormWithoutTeardown(r) ==
  [replicas |-> r.replicas, stop_date |-> r.stop_date, dcomm_date |-> NULL, v |-> r.v]

envToFormState(r) ==
  [replicas |-> r.replicas, stop_date |-> r.stop_date, dcomm_date |-> r.dcomm_date, v |-> r.v]

\* A form holds the day, in the zone of the browser, on which a date falls, and the
\* route reads a day as its first moment in the zone of the database: what was earlier,
\* later today or on a later day may come back as passed, or as a later day.
DayAsDate(d) == IF d = NULL THEN {NULL} ELSE {"elapsed", "later"}

isSettingsDirty == \E f \in Field: form[f] # envToFormState(envData)[f]

OnPage == loadState = "ready" /\ envData # NULL

\* A row that arrived: shown, and the form made anew from it.
Show(r) == envData' = r /\ form' = envToFormState(r) /\ edited' = {}

---------------------------------------------------------------------------
(***************************************************************************)
(* The first load and the polls.                                           *)
(***************************************************************************)

ServeDetail ==
  /\ loadCall # NULL /\ loadCall.answer = NULL
  /\ loadCall' = [answer |-> IF served[Here] = NULL THEN "refused" ELSE "ok", row |-> served[Here]]
  /\ UNCHANGED <<serverVars, loadState, envData, form, status, edited, statusCalls, modal,
                 stopping, decommissioning, saving, stopCall, dcommCall, saveCall, acked,
                 unread, overlapped, used>>

keptByLoading ==
  <<serverVars, status, modal, stopping, decommissioning, saving, stopCall, dcommCall, saveCall,
    acked, unread, overlapped>>

\* init goes on to the status, whatever became of the load.
loadEnvData ==
  /\ loadCall # NULL /\ loadCall.answer # NULL
  /\ IF loadCall.answer = "ok" THEN Show(loadCall.row) /\ UNCHANGED loadState
     ELSE loadState' = "error" /\ UNCHANGED <<envData, form, edited>>
  /\ loadCall' = NULL
  /\ statusCalls' = [statusCalls EXCEPT !["init"] = Polled]
  /\ UNCHANGED <<keptByLoading, used>>

DetailFails ==
  /\ loadCall # NULL
  /\ Spend("faults")
  /\ loadState' = "error"
  /\ loadCall' = NULL
  /\ statusCalls' = [statusCalls EXCEPT !["init"] = Polled]
  /\ UNCHANGED <<keptByLoading, envData, form, edited>>

keptByPoll ==
  <<serverVars, loadCall, envData, form, edited, saving, stopCall, dcommCall, saveCall, acked,
    unread, overlapped>>

\* Mutant: the timer stops at the first answer.
fetchStatusOnce(s) ==
  /\ loadState = "ready" /\ status = NULL
  /\ statusCalls[s] = NULL
  /\ statusCalls' = [statusCalls EXCEPT ![s] = Polled]
  /\ UNCHANGED <<keptByPoll, loadState, status, modal, stopping, decommissioning, used>>

\* The timer, every five seconds, however many polls are still unanswered.
fetchStatus(s) ==
  /\ loadState = "ready"
  /\ statusCalls[s] = NULL
  /\ statusCalls' = [statusCalls EXCEPT ![s] = Polled]
  /\ UNCHANGED <<keptByPoll, loadState, status, modal, stopping, decommissioning, used>>

ServePoll(c) ==
  /\ statusCalls[c] # NULL /\ ~ statusCalls[c].served
  /\ statusCalls' = [statusCalls EXCEPT ![c] = [served |-> TRUE, row |-> Polling(Here)]]
  /\ UNCHANGED <<keptByPoll, loadState, status, modal, stopping, decommissioning, used>>

\* What waits for this poll, answered or not, goes on.
AfterPoll(c) ==
  /\ statusCalls' = [statusCalls EXCEPT ![c] = NULL]
  /\ loadState' = IF c = "init" THEN "ready" ELSE loadState
  /\ stopping' = (stopping /\ c # "stop")
  /\ modal' = IF c = "stop" /\ modal = "stop" THEN NULL ELSE modal
  /\ decommissioning' = (decommissioning /\ c # "decommission")

ApplyPagePoll(c) ==
  /\ statusCalls[c] # NULL /\ statusCalls[c].served
  /\ status' = IF statusCalls[c].row = NULL THEN status ELSE statusCalls[c].row
  /\ AfterPoll(c)
  /\ UNCHANGED <<keptByPoll, used>>

PollFails(c) ==
  /\ statusCalls[c] # NULL
  /\ Spend("faults")
  /\ AfterPoll(c)
  /\ UNCHANGED <<keptByPoll, status>>

---------------------------------------------------------------------------
(***************************************************************************)
(* Stop and decommission.                                                  *)
(***************************************************************************)

deployStatus == IF status # NULL THEN status.deploy_status ELSE envData.deploy_status

keptByModal ==
  <<serverVars, loadState, loadCall, envData, form, status, edited, statusCalls, saving,
    saveCall, acked, unread>>

\* The buttons open a dialog; the status may change while it is open.
OpenModal ==
  /\ OnPage /\ modal = NULL
  /\ \/ deployStatus = "deployed" /\ ~ stopping /\ modal' = "stop"
     \/ deployStatus \in {"stopped", "failed"} /\ ~ decommissioning /\ modal' = "decommission"
  /\ UNCHANGED <<keptByModal, stopping, decommissioning, stopCall, dcommCall, overlapped, used>>

\* The cancel button waits for the call that was confirmed, the backdrop does not.
CloseModal ==
  /\ modal # NULL
  /\ modal' = NULL
  /\ UNCHANGED <<keptByModal, stopping, decommissioning, stopCall, dcommCall, overlapped, used>>

handleStop ==
  /\ modal = "stop" /\ ~ stopping
  /\ Spend("clicks")
  /\ stopping' = TRUE
  /\ stopCall' = Sent
  /\ overlapped' = (overlapped \/ saveCall # NULL)
  /\ UNCHANGED <<keptByModal, modal, decommissioning, dcommCall>>

handleDecommission ==
  /\ modal = "decommission" /\ ~ decommissioning
  /\ Spend("clicks")
  /\ decommissioning' = TRUE
  /\ dcommCall' = Sent
  /\ UNCHANGED <<keptByModal, modal, stopping, stopCall, overlapped>>

\* What the route did, and the row it returns.
Serve(kind) ==
  IF Accepts(kind, served[Here])
  THEN Write(Here, Written(kind, served[Here]))
  ELSE UNCHANGED serverVars

AnswerTo(call, accepted) ==
  [call EXCEPT !.answer = IF accepted THEN "ok" ELSE "refused", !.row = served'[Here]]

keptByServing ==
  <<loadState, loadCall, envData, form, status, edited, statusCalls, modal, stopping,
    decommissioning, saving, acked, unread, overlapped>>

ServeStop ==
  /\ stopCall # NULL /\ stopCall.answer = NULL
  /\ Serve("stop")
  /\ stopCall' = AnswerTo(stopCall, Accepts("stop", served[Here]))
  /\ UNCHANGED <<keptByServing, dcommCall, saveCall, used>>

ServeDecommission ==
  /\ dcommCall # NULL /\ dcommCall.answer = NULL
  /\ Serve("decommission")
  /\ dcommCall' = AnswerTo(dcommCall, Accepts("decommission", served[Here]))
  /\ UNCHANGED <<keptByServing, stopCall, saveCall, used>>

keptByAnswer ==
  <<serverVars, loadState, loadCall, status, saving, saveCall, overlapped>>

\* Mutant: the settings form is not made anew.
ApplyStopToRow ==
  /\ stopCall # NULL /\ stopCall.answer = "ok"
  /\ \/ /\ envData' = stopCall.row /\ UNCHANGED <<form, edited>>
        /\ unread' = FALSE /\ UNCHANGED used
     \/ /\ UNCHANGED <<envData, form, edited>>
        /\ unread' = TRUE /\ Spend("faults")
  /\ acked' = stopCall.row.v
  /\ stopCall' = NULL
  /\ statusCalls' = [statusCalls EXCEPT !["stop"] = Polled]
  /\ UNCHANGED <<keptByAnswer, modal, stopping, decommissioning, dcommCall>>

\* Accepted: the row is shown, and unsaved edits are dropped with the old form, unless
\* the body cannot be read.  Either way the stop is reported as done, and the dialog
\* stays until the status has been fetched.
ApplyStop ==
  /\ stopCall # NULL /\ stopCall.answer = "ok"
  /\ \/ /\ Show(stopCall.row)
        /\ unread' = FALSE /\ UNCHANGED used
     \/ /\ UNCHANGED <<envData, form, edited>>
        /\ unread' = TRUE /\ Spend("faults")
  /\ acked' = stopCall.row.v
  /\ stopCall' = NULL
  /\ statusCalls' = [statusCalls EXCEPT !["stop"] = Polled]
  /\ UNCHANGED <<keptByAnswer, modal, stopping, decommissioning, dcommCall>>

\* Accepted: only the status is fetched anew; row and form stay as they are.
ApplyDecommission ==
  /\ dcommCall # NULL /\ dcommCall.answer = "ok"
  /\ modal' = IF modal = "decommission" THEN NULL ELSE modal
  /\ dcommCall' = NULL
  /\ statusCalls' = [statusCalls EXCEPT !["decommission"] = Polled]
  /\ UNCHANGED <<keptByAnswer, envData, form, edited, acked, unread, stopping, decommissioning, stopCall,
                 used>>

\* Refused, or lost: a toast, and the dialog stays open.
StopEnds ==
  /\ stopCall # NULL
  /\ \/ stopCall.answer = "refused" /\ UNCHANGED used
     \/ Spend("faults")
  /\ stopping' = FALSE /\ stopCall' = NULL
  /\ UNCHANGED <<keptByAnswer, envData, form, edited, acked, unread, statusCalls, modal,
                 decommissioning, dcommCall>>

DecommissionEnds ==
  /\ dcommCall # NULL
  /\ \/ dcommCall.answer = "refused" /\ UNCHANGED used
     \/ Spend("faults")
  /\ decommissioning' = FALSE /\ dcommCall' = NULL
  /\ UNCHANGED <<keptByAnswer, envData, form, edited, acked, unread, statusCalls, modal, stopping,
                 stopCall>>

---------------------------------------------------------------------------
(***************************************************************************)
(* The settings.                                                           *)
(***************************************************************************)

keptByForm ==
  <<serverVars, loadState, loadCall, status, statusCalls, modal, stopping, decommissioning,
    stopCall, dcommCall>>

EditForm(f) ==
  /\ OnPage /\ ~ saving
  /\ Spend("clicks")
  /\ \E x \in (IF f = "replicas" THEN {0, 1} ELSE {NULL, "later"}) \ {form[f]}:
       form' = [form EXCEPT ![f] = x]
  /\ edited' = edited \cup {f}
  /\ UNCHANGED <<keptByForm, envData, saving, saveCall, acked, unread, overlapped>>

handleSettingsReset ==
  /\ OnPage /\ ~ saving /\ isSettingsDirty
  /\ Show(envData)
  /\ UNCHANGED <<keptByForm, saving, saveCall, acked, unread, overlapped, used>>

\* All fields of the form are sent, edited or not; the row shown takes the new
\* settings, not the new dates, before the answer is there.
handleSettingsSave ==
  /\ OnPage /\ ~ saving /\ isSettingsDirty
  /\ saving' = TRUE
  /\ envData' = [envData EXCEPT !.replicas = form.replicas]
  /\ saveCall' = [answer |-> NULL, row |-> NULL, body |-> form, previous |-> envData,
                  edited |-> edited]
  /\ overlapped' = (overlapped \/ stopCall # NULL)
  /\ UNCHANGED <<keptByForm, form, edited, acked, unread, used>>

\* PATCH /api/envs/[id]/detail: every column of the body, no guard on the status.
ServeSave ==
  /\ saveCall # NULL /\ saveCall.answer = NULL
  /\ IF served[Here] = NULL THEN UNCHANGED serverVars
     ELSE \E stop \in DayAsDate(saveCall.body.stop_date), dcomm \in DayAsDate(saveCall.body.dcomm_date):
            Write(Here, [served[Here] EXCEPT !.replicas = saveCall.body.replicas,
                                             !.stop_date = stop, !.dcomm_date = dcomm])
  /\ saveCall' = AnswerTo(saveCall, served[Here] # NULL)
  /\ UNCHANGED <<keptByServing, stopCall, dcommCall, used>>

ApplySave ==
  /\ saveCall # NULL /\ saveCall.answer = "ok"
  /\ Show(saveCall.row)
  /\ acked' = saveCall.row.v /\ unread' = FALSE
  /\ saving' = FALSE /\ saveCall' = NULL
  /\ UNCHANGED <<keptByForm, overlapped, used>>

\* Mutant: the settings shown in advance stay after a failure.
SaveEndsUnreverted ==
  /\ saveCall # NULL
  /\ \/ saveCall.answer = "refused" /\ UNCHANGED used
     \/ Spend("faults")
  /\ saving' = FALSE /\ saveCall' = NULL
  /\ UNCHANGED <<keptByForm, envData, form, edited, acked, unread, overlapped>>

\* Refused, or lost: back to the row that was shown when Save was pressed.
SaveEnds ==
  /\ saveCall # NULL
  /\ \/ saveCall.answer = "refused" /\ UNCHANGED used
     \/ Spend("faults")
  /\ envData' = saveCall.previous
  /\ saving' = FALSE /\ saveCall' = NULL
  /\ UNCHANGED <<keptByForm, form, edited, acked, unread, overlapped>>

---------------------------------------------------------------------------
OthersOnPage ==
  /\ OthersWrite(Here) \/ OthersDelete(Here)
  /\ UNCHANGED <<keptByServing, stopCall, dcommCall, saveCall>>

PageNext ==
  \/ ServeDetail \/ loadEnvData \/ DetailFails
  \/ \E s \in PollSlot: fetchStatus(s)
  \/ \E c \in PollSlot \cup Awaited: ServePoll(c) \/ ApplyPagePoll(c) \/ PollFails(c)
  \/ OpenModal \/ CloseModal
  \/ handleStop \/ ServeStop \/ ApplyStop \/ StopEnds
  \/ handleDecommission \/ ServeDecommission \/ ApplyDecommission \/ DecommissionEnds
  \/ \E f \in Field: EditForm(f)
  \/ handleSettingsReset
  \/ handleSettingsSave \/ ServeSave \/ ApplySave \/ SaveEnds
  \/ OthersOnPage

\* Conjoined to every step of the page.
RecordServed == ever' = ever \cup ({served'[Here]} \ {NULL})

---------------------------------------------------------------------------
\* The row and the form are never older than the stops and saves that the page has
\* reported as done (page.tsx:185, "Apply the returned row so replicas=0 and stop_date
\* are immediately visible"), as long as a stop and a save are not in flight together.
ReportedWritesAreShown ==
  envData # NULL /\ ~ overlapped => envData.v >= acked /\ form.v >= acked

\* ... and one exception more: a stop that was accepted, and is reported, although the
\* row it returned could not be read.  Otherwise, whatever else is in flight, a save
\* never undoes a stop that the same page reported.  Decommission is not among the
\* writes: its answer changes neither row nor form, and the next save takes the
\* teardown back.
PageKnowsOwnWrites == ~ unread => ReportedWritesAreShown

\* Settings that no server row ever had are shown only while their save is in flight.
NoPhantomSettings == envData # NULL /\ ~ saving => envData \in ever

\* A save that reaches the row its form was made from changes what the operator edited
\* (detail/route.ts:192, "only touch fields that were provided"): the other settings
\* stay as they are, and a stop or a teardown that was not edited is neither scheduled
\* nor cancelled.  Its date is not kept, only that there is one: every save moves it to
\* the beginning of a day.
SaveChangesWhatWasEdited ==
  [][saveCall # NULL /\ saveCall' # NULL /\ served' # served /\ saveCall'.answer = "ok"
       /\ saveCall.answer = NULL /\ served[Here].v = saveCall.body.v
     => \A f \in Field \ saveCall.edited:
          IF f = "replicas" THEN served'[Here].replicas = served[Here].replicas
          ELSE served'[Here][f] = NULL <=> served[Here][f] = NULL]_<<serverVars, pageVars>>

PageSpinners ==
  /\ saving => saveCall # NULL
  /\ stopping => stopCall # NULL \/ statusCalls["stop"] # NULL
  /\ decommissioning => dcommCall # NULL \/ statusCalls["decommission"] # NULL

PageShowsStatus ==
  /\ loadState # "loading"
  /\ loadState = "ready" /\ served[Here] # NULL => status = StatusOf(served[Here])

=============================================================================
