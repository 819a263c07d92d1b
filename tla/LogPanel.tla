------------------------------ MODULE LogPanel ------------------------------
(***************************************************************************)
(* The deployment log panel: it polls the newest page, appends older pages *)
(* on demand and retriggers the newest action.  No call is ever aborted,   *)
(* so answers are applied in the order in which they happen to arrive.     *)
(*                                                                         *)
(* Source: control-plane/src/components/DeploymentLogPanel.tsx and         *)
(* control-plane/src/app/api/envs/[id]/logs/route.ts.                      *)
(*                                                                         *)
(* An entry is its id.  An INSERT takes its created_date when it begins and*)
(* its id, from the sequence, when it is executed, so two concurrent ones  *)
(* may disagree on which is newer.  Filters are not used by the panel.  At *)
(* most Cardinality(Slot) calls are in flight: a tick that finds no slot   *)
(* is skipped.                                                             *)
(***************************************************************************)
EXTENDS Browser, FiniteSets, SequencesExt

CONSTANTS
  Slot,    \* the panel's calls in flight at the same time
  Writer,  \* who else inserts log entries: the worker, other operators
  Limit,   \* entries per page
  MaxOlder \* entries that are there when the panel is opened

VARIABLES
  deployment_log,  \* deployment_log[x] is the created_date of the environment's entry x
  inserting,       \* inserting[w] is the date of w's INSERT, NULL when it has none
  calls,           \* calls[s]: the panel's call in slot s
  logs, hasMore, loading, loadingMore, retriggerState,  \* the panel's state
  banners          \* how many timers run that hide the banner of a retrigger

panelVars == <<deployment_log, inserting, calls, logs, hasMore, loading, loadingMore,
               retriggerState, banners>>

panelState == <<logs, hasMore, loading, loadingMore, retriggerState, banners>>

PanelCall == [ kind: {"poll", "more", "retrigger"}, before: Nat \cup {NULL}, served: BOOLEAN,
               page: Seq(Nat), has_more: BOOLEAN ]

ASSUME PanelAssumption ==
  /\ Slot # {} /\ IsFiniteSet(Writer) /\ Limit \in Nat \ {0} /\ MaxOlder \in Nat
  /\ NULL \notin Nat /\ NULL \notin PanelCall

PanelTypeOK ==
  /\ deployment_log \in Seq(Nat)
  /\ inserting \in [Writer -> Nat \cup {NULL}]
  /\ calls \in [Slot -> PanelCall \cup {NULL}]
  /\ \A s \in Slot: calls[s] # NULL => Len(calls[s].page) <= Limit
  /\ logs \in Seq(Nat)
  /\ {hasMore, loading, loadingMore} \subseteq BOOLEAN
  /\ retriggerState \in {"idle", "loading", "success", "error"} /\ banners \in Nat

---------------------------------------------------------------------------
(***************************************************************************)
(* The table and GET /api/envs/[id]/logs.                                  *)
(***************************************************************************)

Entries == DOMAIN deployment_log

\* ORDER BY created_date DESC, deployment_log_id DESC
Newer(x, y) ==
  \/ deployment_log[x] > deployment_log[y]
  \/ deployment_log[x] = deployment_log[y] /\ x > y

\* Those entries in that order: the i-th is the one that i - 1 of them are newer than.
Ordered(entries) ==
  [i \in 1 .. Cardinality(entries) |->
     CHOOSE x \in entries: Cardinality({y \in entries: Newer(y, x)}) = i - 1]

\* Dates are drawn in order: entries written and INSERTs begun so far, plus one.
NextDate ==
  Len(deployment_log) + Cardinality({w \in Writer: inserting[w] # NULL}) + 1

BeginInsert(w) ==
  /\ inserting[w] = NULL
  /\ Spend("changes")
  /\ inserting' = [inserting EXCEPT ![w] = NextDate]
  /\ UNCHANGED <<deployment_log, calls, panelState>>

EndInsert(w) ==
  /\ inserting[w] # NULL
  /\ deployment_log' = Append(deployment_log, inserting[w])
  /\ inserting' = [inserting EXCEPT ![w] = NULL]
  /\ UNCHANGED <<calls, panelState, used>>

\* Mutant: the cursor includes the entry it names.
PageWithCursor(before) ==
  LET found == Ordered({x \in Entries: before = NULL \/ x <= before})
  IN SubSeq(found, 1, IF Len(found) < Limit THEN Len(found) ELSE Limit)

\* Mutant: one entry more, to see whether there is one, that is not cut off again.
PageOneTooMany(before) ==
  LET found == Ordered({x \in Entries: before = NULL \/ x < before})
  IN SubSeq(found, 1, IF Len(found) <= Limit THEN Len(found) ELSE Limit + 1)

\* WHERE deployment_log_id < before ... LIMIT
Page(before) ==
  LET found == Ordered({x \in Entries: before = NULL \/ x < before})
  IN SubSeq(found, 1, IF Len(found) < Limit THEN Len(found) ELSE Limit)

\* Mutant: one entry more has to be left than there need be.
OneMoreIsNotMore(page) ==
  /\ Len(page) = Limit
  /\ Cardinality({x \in Entries: x < Last(page)}) > 1

\* A full page whose last entry does not have the smallest id.
HasMore(page) ==
  /\ Len(page) = Limit
  /\ \E x \in Entries: x < Last(page)

---------------------------------------------------------------------------
(***************************************************************************)
(* The panel.                                                              *)
(***************************************************************************)

Call(kind, before) ==
  [kind |-> kind, before |-> before, served |-> FALSE, page |-> <<>>, has_more |-> FALSE]

\* Mounted: the first fetchLogs is under way.
PanelInit ==
  /\ \E n \in 0 .. MaxOlder: deployment_log = [x \in 1 .. n |-> x]
  /\ inserting = [w \in Writer |-> NULL]
  /\ LET first == CHOOSE s \in Slot: TRUE
     IN calls = [s \in Slot |-> IF s = first THEN Call("poll", NULL) ELSE NULL]
  /\ logs = <<>> /\ hasMore = FALSE /\ loading = TRUE /\ loadingMore = FALSE
  /\ retriggerState = "idle" /\ banners = 0

Send(s, kind, before) ==
  /\ calls[s] = NULL
  /\ calls' = [calls EXCEPT ![s] = Call(kind, before)]

\* Every pollInterval, and whenever the refresh button is pressed.
fetchLogs(s) ==
  /\ Send(s, "poll", NULL)
  /\ UNCHANGED <<deployment_log, inserting, panelState, used>>

\* "Load older entries": from the oldest entry shown.
fetchMoreLogs(s) ==
  /\ hasMore /\ ~ loadingMore /\ logs # <<>>
  /\ Spend("clicks")
  /\ Send(s, "more", Last(logs))
  /\ loadingMore' = TRUE
  /\ UNCHANGED <<deployment_log, inserting, logs, hasMore, loading, retriggerState, banners>>

\* The retry button repeats the action of the newest entry shown.
handleRetrigger(s) ==
  /\ logs # <<>> /\ retriggerState # "loading"
  /\ Spend("clicks")
  /\ Send(s, "retrigger", NULL)
  /\ retriggerState' = "loading"
  /\ UNCHANGED <<deployment_log, inserting, logs, hasMore, loading, loadingMore, banners>>

\* The timer of a banner resets the button, whatever it shows by then.
BannerExpires ==
  /\ banners > 0
  /\ banners' = banners - 1
  /\ retriggerState' = "idle"
  /\ UNCHANGED <<deployment_log, inserting, calls, logs, hasMore, loading, loadingMore, used>>

\* The route answers.  A retrigger inserts an entry of its own.
ServeCall(s) ==
  /\ calls[s] # NULL /\ ~ calls[s].served
  /\ LET page == IF calls[s].kind = "retrigger" THEN <<>> ELSE Page(calls[s].before)
     IN calls' = [calls EXCEPT ![s] = [@ EXCEPT !.served = TRUE, !.page = page,
                                                !.has_more = HasMore(page)]]
  /\ deployment_log' = IF calls[s].kind = "retrigger"
                       THEN Append(deployment_log, NextDate)
                       ELSE deployment_log
  /\ UNCHANGED <<inserting, panelState, used>>

\* The answer of a poll replaces the list, whatever older pages it held.
ApplyPoll(s) ==
  /\ calls[s] # NULL /\ calls[s].served /\ calls[s].kind = "poll"
  /\ logs' = calls[s].page /\ hasMore' = calls[s].has_more
  /\ loading' = FALSE
  /\ calls' = [calls EXCEPT ![s] = NULL]
  /\ UNCHANGED <<deployment_log, inserting, loadingMore, retriggerState, banners, used>>

\* ... that of "load older entries" is appended to whatever is shown by then.
ApplyMore(s) ==
  /\ calls[s] # NULL /\ calls[s].served /\ calls[s].kind = "more"
  /\ logs' = logs \o calls[s].page /\ hasMore' = calls[s].has_more
  /\ loadingMore' = FALSE
  /\ calls' = [calls EXCEPT ![s] = NULL]
  /\ UNCHANGED <<deployment_log, inserting, loading, retriggerState, banners, used>>

\* ... and a retrigger that was accepted fetches the newest page.  The timer of its
\* banner starts when that fetch is over; here it may fire earlier, too.
ApplyRetrigger(s) ==
  /\ calls[s] # NULL /\ calls[s].served /\ calls[s].kind = "retrigger"
  /\ retriggerState' = "success" /\ banners' = banners + 1
  /\ calls' = [calls EXCEPT ![s] = Call("poll", NULL)]
  /\ UNCHANGED <<deployment_log, inserting, logs, hasMore, loading, loadingMore, used>>

ApplyCall(s) == ApplyPoll(s) \/ ApplyMore(s) \/ ApplyRetrigger(s)

\* Mutant: a failed "load older entries" leaves its spinner.
CallFailsSpinning(s) ==
  /\ calls[s] # NULL
  /\ Spend("faults")
  /\ calls' = [calls EXCEPT ![s] = NULL]
  /\ loading' = (loading /\ calls[s].kind # "poll")
  /\ retriggerState' = IF calls[s].kind = "retrigger" THEN "error" ELSE retriggerState
  /\ UNCHANGED <<deployment_log, inserting, logs, hasMore, loadingMore, banners>>

CallFails(s) ==
  /\ calls[s] # NULL
  /\ Spend("faults")
  /\ calls' = [calls EXCEPT ![s] = NULL]
  /\ loading' = (loading /\ calls[s].kind # "poll")
  /\ loadingMore' = (loadingMore /\ calls[s].kind # "more")
  /\ retriggerState' = IF calls[s].kind = "retrigger" THEN "error" ELSE retriggerState
  /\ UNCHANGED <<deployment_log, inserting, logs, hasMore, banners>>

PanelNext ==
  \/ \E w \in Writer: BeginInsert(w) \/ EndInsert(w)
  \/ \E s \in Slot:
       \/ fetchLogs(s)
       \/ fetchMoreLogs(s)
       \/ handleRetrigger(s)
       \/ ServeCall(s)
       \/ ApplyCall(s)
       \/ CallFails(s)
  \/ BannerExpires

---------------------------------------------------------------------------
\* Two concurrent INSERTs whose dates and ids disagree: the cursor of the route is
\* the id, its order is the date.
Skewed == \E x, y \in Entries: x < y /\ deployment_log[x] > deployment_log[y]

\* Neighbours in the log, newest first.
Continuous(entries) ==
  \E i \in 0 .. Len(deployment_log) - Len(entries):
    entries = SubSeq(Ordered(Entries), i + 1, i + Len(entries))

\* What the panel shows is one piece of the log, without a gap and without a
\* repetition (DeploymentLogPanel.tsx:352-356: appending "so the user sees a
\* continuous scrollable history").
HistoryIsContinuous == Continuous(logs)

\* However polls, older pages and new entries interleave, what the panel shows
\* is at most two pieces of the log, each without a gap and without a repetition:
\* the list that a poll put there while older entries were on their way, and the
\* older entries that were appended to it since.  A later poll mends it, and no
\* number of clicks makes it worse.  The exception are concurrent inserts, whose
\* order and cursor disagree.
HistoryHasOneSeam ==
  ~ Skewed =>
    \E k \in 0 .. Len(logs):
      Continuous(SubSeq(logs, 1, k)) /\ Continuous(SubSeq(logs, k + 1, Len(logs)))

\* No "load older entries" button means that the oldest entry is on the screen.
NothingOlderIsHidden ==
  ~ hasMore /\ logs # <<>> =>
    \A x \in Entries: \E y \in Range(logs): y <= x

PanelSpinners ==
  /\ loading => \E s \in Slot: calls[s] # NULL /\ calls[s].kind = "poll"
  /\ loadingMore => \E s \in Slot: calls[s] # NULL /\ calls[s].kind = "more"
  /\ retriggerState = "loading" => \E s \in Slot: calls[s] # NULL /\ calls[s].kind = "retrigger"

ShowsNewest == IsPrefix(Page(NULL), logs)

=============================================================================
