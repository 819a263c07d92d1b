---------------------------- MODULE ConsoleProofs ----------------------------
(***************************************************************************)
(* Proofs about the screens of Console, for any environments, queries,     *)
(* pages, clicks, failures and writes of others.                           *)
(***************************************************************************)
EXTENDS Console, FiniteSetTheorems, SequenceTheorems, TLAPS

---------------------------------------------------------------------------
(***************************************************************************)
(* The rows behind the routes                                              *)
(***************************************************************************)

\* What a route makes of a row is a row.
LEMMA WrittenRows ==
  ASSUME NEW r \in Row
  PROVE  /\ Stopped(r) \in Row /\ Decommissioned(r) \in Row /\ Redeployed(r) \in Row
         /\ \A s \in Status: [r EXCEPT !.deploy_status = s] \in Row
         /\ \A d \in Date: [r EXCEPT !.stop_date = d] \in Row /\ [r EXCEPT !.dcomm_date = d] \in Row
<1>1. /\ "elapsed" \in Date /\ NULL \in Date
      /\ "pending" \in Status
  BY DEF Date, Status
<1> QED
  BY <1>1 DEF Row, Stopped, Decommissioned, Redeployed

LEMMA WrittenIsRow ==
  ASSUME NEW r \in Row, NEW kind \in {"stop", "decommission", "redeploy"}
  PROVE  Written(kind, r) \in Row
BY WrittenRows DEF Written

LEMMA OthersRows ==
  ASSUME NEW r \in Row
  PROVE  WorkerWrites(r) \cup OperatorWrites(r) \subseteq Row
<1>1. WorkerWrites(r) \subseteq Row
  <2>1. {"decommissioning", "decommissioned", "failed", "deployed", "stopped"} \subseteq Status
    BY DEF Status
  <2>2. [r EXCEPT !.deploy_status = "stopped", !.replicas = 0] \in Row
    BY <2>1 DEF Row
  <2> QED
    BY <2>1, <2>2, WrittenRows DEF WorkerWrites
<1>2. OperatorWrites(r) \subseteq Row
  <2>1. "today" \in Date /\ NULL \in Date
    BY DEF Date
  <2>2. \A k \in {x \in {"stop", "decommission", "redeploy"}: Accepts(x, r)}: Written(k, r) \in Row
    BY WrittenIsRow
  <2>3. [r EXCEPT !.stop_date = "today"] \in Row /\ [r EXCEPT !.dcomm_date = NULL] \in Row
    BY <2>1, WrittenRows
  <2> QED
    BY <2>2, <2>3 DEF OperatorWrites
<1> QED
  BY <1>1, <1>2

LEMMA StatusOfRow ==
  ASSUME NEW r \in Row
  PROVE  StatusOf(r) \in Live /\ StatusOf(r).v = r.v
BY DEF Row, Live, StatusOf

\* A write gives the row a version of its own.
LEMMA WriteRow ==
  ASSUME ServedTypeOK, NEW e \in Env, NEW row \in Row, Write(e, row)
  PROVE  /\ ServedTypeOK' /\ writes' = writes + 1
         /\ served'[e] \in Row /\ served'[e] # NULL /\ served'[e].v = writes'
         /\ \A f \in {"deploy_status", "replicas", "stop_date", "dcomm_date"}:
              served'[e][f] = row[f]
         /\ \A f \in Env \ {e}: served'[f] = served[f]
<1>1. writes + 1 \in 1 .. MaxWrites /\ writes' = writes + 1
  BY ServedAssumption DEF Write, ServedTypeOK
<1>2. [row EXCEPT !.v = writes + 1] \in Row
  BY <1>1 DEF Row
<1>3. /\ [row EXCEPT !.v = writes + 1].v = writes + 1
      /\ \A f \in {"deploy_status", "replicas", "stop_date", "dcomm_date"}:
           [row EXCEPT !.v = writes + 1][f] = row[f]
  BY DEF Row
<1>4. served' = [served EXCEPT ![e] = [row EXCEPT !.v = writes + 1]]
  BY DEF Write
<1> QED
  BY <1>1, <1>2, <1>3, <1>4, ServedAssumption DEF ServedTypeOK

\* What may become of the rows: they stay, are written, or go.
RowsChange ==
  /\ writes' >= writes
  /\ \A e \in Env: \/ served'[e] = served[e]
                   \/ served'[e] = NULL
                   \/ served'[e] \in Row /\ served'[e].v = writes' /\ writes' = writes + 1

LEMMA WriteChange ==
  ASSUME ServedTypeOK, NEW e \in Env, NEW row \in Row, Write(e, row)
  PROVE  ServedTypeOK' /\ RowsChange
BY WriteRow, ServedAssumption DEF RowsChange, ServedTypeOK

LEMMA GoneChange ==
  ASSUME ServedTypeOK, NEW e \in Env, RowGone(e)
  PROVE  ServedTypeOK' /\ RowsChange
BY ServedAssumption DEF ServedTypeOK, RowGone, RowsChange

LEMMA SameChange ==
  ASSUME ServedTypeOK, UNCHANGED serverVars
  PROVE  ServedTypeOK' /\ RowsChange
BY ServedAssumption DEF ServedTypeOK, serverVars, RowsChange

LEMMA OthersChange ==
  ASSUME ServedTypeOK, NEW e \in Env, OthersWrite(e) \/ OthersDelete(e)
  PROVE  ServedTypeOK' /\ RowsChange
<1>1. CASE OthersWrite(e)
  <2>1. served[e] \in Row
    BY <1>1 DEF OthersWrite, ServedTypeOK
  <2>2. PICK r \in Row: Write(e, r)
    BY <1>1, <2>1, OthersRows DEF OthersWrite
  <2> QED
    BY <2>2, WriteChange
<1>2. CASE OthersDelete(e)
  BY <1>2, GoneChange DEF OthersDelete
<1> QED
  BY <1>1, <1>2

---------------------------------------------------------------------------
(***************************************************************************)
(* The list: types                                                         *)
(***************************************************************************)

LEMMA FreshRow ==
  ASSUME NEW r \in Row
  PROVE  Fresh(r) \in TableRow
BY DEF Fresh, TableRow

\* What answers make of a row of the table.
LEMMA AnsweredRows ==
  ASSUME NEW r \in TableRow
  PROVE  /\ AfterStop(r) \in TableRow /\ AfterDecommission(r) \in TableRow
         /\ \A k \in ActKind: Released(r, k) \in TableRow
         /\ \A b \in Row: [r EXCEPT !.base = [b EXCEPT !.deploy_status = "decommissioning"]] \in TableRow
<1>1. r.base \in Row /\ r.live \in Live \cup {NULL}
  BY DEF TableRow
<1>2. "elapsed" \in Date /\ "decommissioning" \in Status
  BY DEF Date, Status
<1>3. \A l \in Live: /\ [l EXCEPT !.stop_date = "elapsed"] \in Live
                     /\ [l EXCEPT !.dcomm_date = "elapsed", !.deploy_status = "decommissioning"] \in Live
  BY <1>2 DEF Live
<1>4. \A b \in Row: /\ [b EXCEPT !.dcomm_date = "elapsed", !.deploy_status = "decommissioning"] \in Row
                    /\ [b EXCEPT !.deploy_status = "decommissioning"] \in Row
  BY <1>2 DEF Row
<1>5. AfterStop(r) \in TableRow
  <2>1. Stopped(r.base) \in Row
    BY <1>1, WrittenRows
  <2>2. (IF r.live = NULL THEN NULL ELSE [r.live EXCEPT !.stop_date = "elapsed"]) \in Live \cup {NULL}
    BY <1>1, <1>3
  <2> QED
    BY <2>1, <2>2 DEF AfterStop, TableRow
<1>6. AfterDecommission(r) \in TableRow
  <2>1. (IF r.live = NULL THEN NULL
         ELSE [r.live EXCEPT !.dcomm_date = "elapsed", !.deploy_status = "decommissioning"])
          \in Live \cup {NULL}
    BY <1>1, <1>3
  <2> QED
    BY <1>1, <1>4, <2>1 DEF AfterDecommission, TableRow
<1>7. \A k \in ActKind: Released(r, k) \in TableRow
  BY DEF Released, TableRow
<1>8. \A b \in Row: [r EXCEPT !.base = [b EXCEPT !.deploy_status = "decommissioning"]] \in TableRow
  BY <1>4 DEF TableRow
<1> QED
  BY <1>5, <1>6, <1>7, <1>8

\* A delete that was accepted has brought the row along.
DeletedRow ==
  \A s \in ActSlot: acts[s] # NULL /\ acts[s].kind = "delete" /\ acts[s].answer = "ok"
                    => acts[s].row \in Row

TableTypes == ServedTypeOK /\ TableTypeOK /\ DeletedRow

\* The loads and what they bring.
LEMMA LoadTypes ==
  ASSUME TableTypes,
         \/ \E q \in Query: TypeQuery(q)
         \/ DebounceFires \/ Retry
         \/ \E l \in loads: ServeLoad(l) \/ ApplyLoad(l) \/ LoadFails(l)
  PROVE  TableTypes' /\ UNCHANGED serverVars
<1>1. \A q \in Query: [query |-> q, found |-> NULL] \in Load
  BY DEF Load
<1>2. query \in Query
  BY DEF TableTypes, TableTypeOK
<1>3. CASE \E q \in Query: TypeQuery(q)
  BY <1>3 DEF TypeQuery, keptByLoad, serverVars, TableTypes, ServedTypeOK, TableTypeOK, DeletedRow
<1>4. CASE DebounceFires \/ Retry
  BY <1>1, <1>2, <1>4
     DEF DebounceFires, Retry, loadEnvs, keptByLoad, serverVars, TableTypes, ServedTypeOK, TableTypeOK,
         DeletedRow
<1>5. CASE \E l \in loads: ServeLoad(l)
  <2>1. PICK l \in loads: ServeLoad(l)
    BY <1>5
  <2> DEFINE found == [e \in Env |-> IF e \in Matches[l.query] THEN served[e] ELSE NULL]
  <2>2. l \in Load /\ found \in [Env -> Row \cup {NULL}]
    BY DEF TableTypes, TableTypeOK, ServedTypeOK
  <2>3. [l EXCEPT !.found = found] \in Load
    BY <2>2 DEF Load
  <2>4. loads' = (loads \ {l}) \cup {[l EXCEPT !.found = found]}
    BY <2>1 DEF ServeLoad
  <2> HIDE DEF found
  <2> QED
    BY <2>1, <2>3, <2>4
       DEF ServeLoad, keptByLoad, serverVars, TableTypes, ServedTypeOK, TableTypeOK, DeletedRow
<1>6. CASE \E l \in loads: ApplyLoad(l)
  <2>1. PICK l \in loads: ApplyLoad(l)
    BY <1>6
  <2>2. l.found \in [Env -> Row \cup {NULL}] /\ l.query \in Query
    BY <2>1 DEF ApplyLoad, TableTypes, TableTypeOK, Load
  <2>3. rows' \in [Env -> TableRow \cup {NULL}]
    <3>1. rows' = [e \in Env |-> IF l.found[e] = NULL THEN NULL ELSE Fresh(l.found[e])]
      BY <2>1 DEF ApplyLoad
    <3> QED
      BY <2>2, <3>1, FreshRow
  <2>4. polls' \in [Env -> SUBSET StatusPoll]
    BY <2>1 DEF ApplyLoad, NewPolls, StatusPoll
  <2>5. applied' \in [Env -> 0 .. MaxWrites]
    <3>1. applied' = [e \in Env |-> IF l.found[e] = NULL THEN applied[e] ELSE l.found[e].v]
      BY <2>1 DEF ApplyLoad
    <3>2. \A r \in Row: r.v \in 0 .. MaxWrites
      BY ServedAssumption DEF Row
    <3> QED
      BY <2>2, <3>1, <3>2 DEF TableTypes, TableTypeOK
  <2>6. /\ loads' = loads \ {l} /\ selected' = {} /\ removed' = {}
        /\ listState' = "ready" /\ shownFor' = l.query
        /\ UNCHANGED <<serverVars, query, debounce, acts, bulk>>
    BY <2>1 DEF ApplyLoad
  <2> QED
    BY <2>2, <2>3, <2>4, <2>5, <2>6 DEF serverVars, TableTypes, ServedTypeOK, TableTypeOK, DeletedRow
<1>7. CASE \E l \in loads: LoadFails(l)
  BY <1>7 DEF LoadFails, keptByLoad, serverVars, TableTypes, ServedTypeOK, TableTypeOK, DeletedRow
<1> QED
  BY <1>3, <1>4, <1>5, <1>6, <1>7

\* The polls.
LEMMA PollTypes ==
  ASSUME TableTypes,
         \/ pollAll
         \/ \E e \in Env: \E p \in polls[e]: ServeStatus(e, p) \/ ApplyStatus(e, p) \/ StatusFails(e, p)
  PROVE  TableTypes' /\ UNCHANGED serverVars
<1>1. \A r \in TableRow: /\ \A b \in BOOLEAN: [r EXCEPT !.polling = b] \in TableRow
                         /\ \A l \in Live: [r EXCEPT !.live = l, !.polling = FALSE] \in TableRow
  BY DEF TableRow
<1>2. /\ rows \in [Env -> TableRow \cup {NULL}] /\ polls \in [Env -> SUBSET StatusPoll]
      /\ applied \in [Env -> 0 .. MaxWrites]
  BY DEF TableTypes, TableTypeOK
<1>3. CASE pollAll
  <2>1. polls' \in [Env -> SUBSET StatusPoll]
    BY <1>2, <1>3 DEF pollAll, PollsOf, StatusPoll
  <2>2. rows' \in [Env -> TableRow \cup {NULL}]
    BY <1>1, <1>2, <1>3 DEF pollAll
  <2> QED
    BY <1>3, <2>1, <2>2 DEF pollAll, serverVars, TableTypes, ServedTypeOK, TableTypeOK, DeletedRow
<1>4. CASE \E e \in Env: \E p \in polls[e]: ServeStatus(e, p)
  <2>0. PICK e \in Env: \E p \in polls[e]: ServeStatus(e, p)
    BY <1>4
  <2>1. PICK p \in polls[e]: ServeStatus(e, p)
    BY <2>0
  <2>2. Polling(e) \in Live \cup {NULL}
    BY StatusOfRow DEF Polling, TableTypes, ServedTypeOK
  <2>3. polls' \in [Env -> SUBSET StatusPoll]
    <3>1. [served |-> TRUE, row |-> Polling(e)] \in StatusPoll
      BY <2>2 DEF StatusPoll
    <3> QED
      BY <1>2, <2>1, <3>1 DEF ServeStatus
  <2> QED
    BY <2>1, <2>3 DEF ServeStatus, keptByLoad, serverVars, TableTypes, ServedTypeOK, TableTypeOK, DeletedRow
<1>5. CASE \E e \in Env: \E p \in polls[e]: ApplyStatus(e, p)
  <2>0. PICK e \in Env: \E p \in polls[e]: ApplyStatus(e, p)
    BY <1>5
  <2>1. PICK p \in polls[e]: ApplyStatus(e, p)
    BY <2>0
  <2>2. p.row \in Live \cup {NULL}
    BY <1>2 DEF StatusPoll
  <2>3. polls' \in [Env -> SUBSET StatusPoll]
    BY <1>2, <2>1 DEF ApplyStatus
  <2>4. rows' \in [Env -> TableRow \cup {NULL}] /\ applied' \in [Env -> 0 .. MaxWrites]
    <3>1. p.row # NULL => p.row.v \in 0 .. MaxWrites
      BY <2>2, ServedAssumption DEF Live
    <3>2. CASE rows[e] = NULL
      BY <1>2, <2>1, <3>2 DEF ApplyStatus
    <3>3. CASE rows[e] # NULL
      <4>1. rows[e] \in TableRow
        BY <1>2, <3>3
      <4>2. CASE p.row = NULL
        BY <1>1, <1>2, <2>1, <3>3, <4>1, <4>2 DEF ApplyStatus
      <4>3. CASE p.row # NULL
        <5>1. [rows[e] EXCEPT !.live = p.row, !.polling = FALSE] \in TableRow
          BY <1>1, <2>2, <4>1, <4>3
        <5>2. /\ rows' = [rows EXCEPT ![e] = [rows[e] EXCEPT !.live = p.row, !.polling = FALSE]]
              /\ applied' = [applied EXCEPT ![e] = p.row.v]
          BY <2>1, <3>3, <4>3 DEF ApplyStatus
        <5> QED
          BY <1>2, <3>1, <4>3, <5>1, <5>2
      <4> QED
        BY <4>2, <4>3
    <3> QED
      BY <3>2, <3>3
  <2> QED
    BY <2>1, <2>3, <2>4
    DEF ApplyStatus, keptByStatus, serverVars, TableTypes, ServedTypeOK, TableTypeOK, DeletedRow
<1>6. CASE \E e \in Env: \E p \in polls[e]: StatusFails(e, p)
  <2>0. PICK e \in Env: \E p \in polls[e]: StatusFails(e, p)
    BY <1>6
  <2>1. PICK p \in polls[e]: StatusFails(e, p)
    BY <2>0
  <2>2. polls' \in [Env -> SUBSET StatusPoll] /\ rows' \in [Env -> TableRow \cup {NULL}]
    BY <1>1, <1>2, <2>1 DEF StatusFails
  <2> QED
    BY <2>1, <2>2 DEF StatusFails, keptByStatus, serverVars, TableTypes, ServedTypeOK, TableTypeOK, DeletedRow
<1> QED
  BY <1>3, <1>4, <1>5, <1>6

\* The buttons, and what their calls do at the server.
LEMMA ButtonTypes ==
  ASSUME TableTypes, NEW e \in Env,
         stopEnv(e) \/ decommissionEnv(e) \/ deleteEnv(e) \/ createEnv(e)
  PROVE  TableTypes' /\ UNCHANGED serverVars
<1>1. rows \in [Env -> TableRow \cup {NULL}] /\ acts \in [ActSlot -> Act \cup {NULL}]
  BY DEF TableTypes, TableTypeOK
<1>2. rows' \in [Env -> TableRow \cup {NULL}]
  <2>1. \A r \in TableRow: /\ [r EXCEPT !.stopping = TRUE] \in TableRow
                           /\ [r EXCEPT !.decommissioning = TRUE] \in TableRow
    BY DEF TableRow
  <2> QED
    BY <1>1, <2>1 DEF stopEnv, decommissionEnv, deleteEnv, createEnv, OnScreen
<1>3. PICK k \in ActKind: Click(k, e)
  BY DEF stopEnv, decommissionEnv, deleteEnv, createEnv, ActKind
<1>4. PICK s \in ActSlot:
        acts' = [acts EXCEPT ![s] = [kind |-> k, env |-> e, answer |-> NULL, row |-> NULL]]
  BY <1>3 DEF Click
<1>5. [kind |-> k, env |-> e, answer |-> NULL, row |-> NULL] \in Act
  BY DEF Act
<1>6. acts' \in [ActSlot -> Act \cup {NULL}] /\ DeletedRow'
  <2>1. acts' \in [ActSlot -> Act \cup {NULL}]
    BY <1>1, <1>4, <1>5
  <2>2. DeletedRow'
    BY <1>1, <1>4, TableAssumption DEF DeletedRow, TableTypes
  <2> QED
    BY <2>1, <2>2
<1> QED
  BY <1>2, <1>3, <1>6 DEF Click, keptByClick, serverVars, TableTypes, ServedTypeOK, TableTypeOK

LEMMA ActServed ==
  ASSUME TableTypes, NEW s \in ActSlot, ServeAct(s)
  PROVE  TableTypes' /\ RowsChange
<1> DEFINE e == acts[s].env
           k == acts[s].kind
<1>1. /\ acts \in [ActSlot -> Act \cup {NULL}] /\ served \in [Env -> Row \cup {NULL}]
      /\ acts[s] \in Act /\ e \in Env /\ k \in ActKind
  BY DEF ServeAct, TableTypes, TableTypeOK, ServedTypeOK, Act
<1>2. PICK a \in {"ok", "refused", "gone"}:
        /\ acts' = [acts EXCEPT ![s] = [acts[s] EXCEPT !.answer = a, !.row = served'[e]]]
        /\ \/ a = "ok" /\ \E r \in Row: Write(e, r)
           \/ a = "refused" /\ UNCHANGED serverVars
           \/ a = "gone" /\ RowGone(e)
  <2>1. CASE k \in {"stop", "decommission"} /\ Accepts(k, served[e])
    <3>1. served[e] \in Row
      BY <1>1, <2>1 DEF Accepts
    <3>2. Written(k, served[e]) \in Row
      BY <2>1, <3>1, WrittenIsRow
    <3> QED
      BY <2>1, <3>2 DEF ServeAct
  <2>2. CASE k \in {"stop", "decommission"} /\ ~ Accepts(k, served[e])
    BY <2>2 DEF ServeAct
  <2>3. CASE k = "delete"
    <3>1. served[e] # NULL => Decommissioned(served[e]) \in Row
      BY <1>1, WrittenRows
    <3> QED
      BY <2>3, <3>1 DEF ServeAct
  <2>4. CASE k = "create"
    <3>1. Created \in Row
      BY ServedAssumption DEF Created, Row, Status, Date
    <3> QED
      BY <2>4, <3>1 DEF ServeAct
  <2> QED
    BY <1>1, <2>1, <2>2, <2>3, <2>4 DEF ActKind
<1> HIDE DEF e, k
<1>3. ServedTypeOK' /\ RowsChange /\ (a = "ok" => served'[e] \in Row)
  BY <1>1, <1>2, WriteRow, WriteChange, GoneChange, SameChange DEF TableTypes
<1>4. served'[e] \in Row \cup {NULL}
  BY <1>1, <1>3 DEF ServedTypeOK
<1>5. [acts[s] EXCEPT !.answer = a, !.row = served'[e]] \in Act
  BY <1>1, <1>2, <1>4 DEF Act
<1>6. acts' \in [ActSlot -> Act \cup {NULL}]
  BY <1>1, <1>2, <1>5
<1>7. DeletedRow'
  <2> SUFFICES ASSUME NEW t \in ActSlot, acts'[t] # NULL, acts'[t].kind = "delete",
                      acts'[t].answer = "ok"
               PROVE  acts'[t].row \in Row
    BY DEF DeletedRow
  <2>1. CASE t = s
    <3>1. acts'[t].answer = a /\ acts'[t].row = served'[e]
      BY <1>1, <1>2, <2>1 DEF Act
    <3> QED
      BY <1>3, <3>1
  <2>2. CASE t # s
    BY <1>1, <1>2, <2>2 DEF TableTypes, DeletedRow
  <2> QED
    BY <2>1, <2>2
<1> QED
  BY <1>3, <1>6, <1>7 DEF ServeAct, TableTypes, TableTypeOK

\* What the answer to a button, or its loss, makes of its row: nothing of what is polled
\* is touched, and the button of that kind can be pressed again.
LEMMA RowAnswered ==
  ASSUME TableTypes, NEW s \in ActSlot, ApplyActToRow(s) \/ ActFails(s), rows[acts[s].env] # NULL
  PROVE  \E r \in TableRow:
           /\ rows' = [rows EXCEPT ![acts[s].env] = r]
           /\ r.polling = rows[acts[s].env].polling
           /\ r.stopping => acts[s].kind # "stop" /\ rows[acts[s].env].stopping
           /\ r.decommissioning =>
                acts[s].kind # "decommission" /\ rows[acts[s].env].decommissioning
<1> DEFINE e == acts[s].env
           k == acts[s].kind
           Fits(r) == /\ r \in TableRow /\ r.polling = rows[e].polling
                      /\ r.stopping => k # "stop" /\ rows[e].stopping
                      /\ r.decommissioning => k # "decommission" /\ rows[e].decommissioning
<1>1. acts[s] \in Act /\ acts[s].answer \in {NULL, "ok", "refused", "gone"}
  BY DEF ApplyActToRow, ActFails, TableTypes, TableTypeOK, Act
<1>2. e \in Env /\ k \in ActKind
  BY <1>1 DEF Act
<1>3. rows[e] \in TableRow
  BY <1>2 DEF TableTypes, TableTypeOK
<1>4. Fits(Released(rows[e], k))
  BY <1>2, <1>3, AnsweredRows DEF Released, TableRow, ActKind
<1>5. k = "stop" => Fits(AfterStop(rows[e]))
  BY <1>3, AnsweredRows DEF AfterStop, TableRow
<1>6. k = "decommission" => Fits(AfterDecommission(rows[e]))
  BY <1>3, AnsweredRows DEF AfterDecommission, TableRow
<1>7. CASE ActFails(s) \/ (ApplyActToRow(s) /\ acts[s].answer = "refused")
  <2>1. rows' = [rows EXCEPT ![e] = Released(rows[e], k)]
    BY <1>7 DEF ApplyActToRow, ActFails
  <2> HIDE DEF e, k
  <2> QED
    BY <1>4, <2>1 DEF e, k
<1>8. CASE ApplyActToRow(s) /\ acts[s].answer # "refused"
  <2>1. CASE k = "stop"
    <3>1. rows' = [rows EXCEPT ![e] = AfterStop(rows[e])]
      BY <1>8, <2>1 DEF ApplyActToRow
    <3> QED
      BY <1>5, <2>1, <3>1
  <2>2. CASE k = "decommission"
    <3>1. rows' = [rows EXCEPT ![e] = AfterDecommission(rows[e])]
      BY <1>8, <2>2 DEF ApplyActToRow
    <3> QED
      BY <1>6, <2>2, <3>1
  <2>3. CASE k = "delete"
    <3> DEFINE r == [rows[e] EXCEPT !.base = [acts[s].row EXCEPT !.deploy_status = "decommissioning"]]
    <3>1. rows' = [rows EXCEPT ![e] = r]
      BY <1>8, <2>3 DEF ApplyActToRow
    <3>2. acts[s].answer = "ok"
      BY <1>1, <1>8 DEF ApplyActToRow
    <3>3. acts[s].row \in Row
      BY <1>8, <2>3, <3>2 DEF ApplyActToRow, TableTypes, DeletedRow
    <3>4. Fits(r)
      BY <1>3, <2>3, <3>3, AnsweredRows DEF TableRow
    <3> QED
      BY <3>1, <3>4
  <2>4. k # "create"
    BY <1>1, <1>8 DEF ApplyActToRow
  <2> QED
    BY <1>2, <2>1, <2>2, <2>3, <2>4 DEF ActKind
<1> QED
  BY <1>7, <1>8

LEMMA ActApplied ==
  ASSUME TableTypes, NEW s \in ActSlot,
         ApplyActToRow(s) \/ ApplyDelete(s) \/ ApplyCreate(s) \/ ActFails(s)
  PROVE  TableTypes' /\ UNCHANGED serverVars
<1>1. /\ rows \in [Env -> TableRow \cup {NULL}] /\ acts \in [ActSlot -> Act \cup {NULL}]
      /\ polls \in [Env -> SUBSET StatusPoll] /\ removed \subseteq Env /\ query \in Query
  BY DEF TableTypes, TableTypeOK
<1>2. acts[s] \in Act /\ acts[s].env \in Env /\ acts[s].kind \in ActKind
  BY <1>1 DEF ApplyActToRow, ApplyDelete, ApplyCreate, ActFails, Act
<1>3. acts' = [acts EXCEPT ![s] = NULL]
  BY DEF ApplyActToRow, ApplyDelete, ApplyCreate, ActFails, Done
<1>4. acts' \in [ActSlot -> Act \cup {NULL}] /\ DeletedRow'
  BY <1>1, <1>3 DEF TableTypes, DeletedRow
<1>5. CASE ApplyActToRow(s)
  <2> DEFINE e == acts[s].env
  <2>1. ASSUME rows[e] # NULL
        PROVE  \E r \in TableRow: rows' = [rows EXCEPT ![e] = r]
    BY <1>5, <2>1, RowAnswered
  <2>2. rows[e] = NULL => rows' = rows
    BY <1>5 DEF ApplyActToRow
  <2>3. rows' \in [Env -> TableRow \cup {NULL}]
    BY <1>1, <1>2, <2>1, <2>2
  <2> QED
    BY <1>4, <1>5, <2>3 DEF ApplyActToRow, keptByClick, serverVars, TableTypes, ServedTypeOK, TableTypeOK
<1>6. CASE ApplyDelete(s)
  <2>1. \A r \in TableRow: [r EXCEPT !.polling = TRUE] \in TableRow
    BY DEF TableRow
  <2>2. rows' \in [Env -> TableRow \cup {NULL}]
    BY <1>1, <1>6, <2>1 DEF ApplyDelete
  <2>3. polls' \in [Env -> SUBSET StatusPoll]
    <3>1. \A S: NewPolls(S) \in [Env -> SUBSET StatusPoll]
      BY DEF NewPolls, StatusPoll
    <3> QED
      BY <1>1, <1>6, <3>1 DEF ApplyDelete
  <2>4. removed' \subseteq Env
    BY <1>1, <1>2, <1>6 DEF ApplyDelete
  <2> QED
    BY <1>4, <1>6, <2>2, <2>3, <2>4 DEF ApplyDelete, serverVars, TableTypes, ServedTypeOK, TableTypeOK
<1>7. CASE ApplyCreate(s)
  <2>1. loads' \subseteq Load /\ polls' \in [Env -> SUBSET StatusPoll] /\ listState' = "loading"
    BY <1>1, <1>7 DEF ApplyCreate, loadEnvs, Load
  <2> QED
    BY <1>4, <1>7, <2>1 DEF ApplyCreate, keptByLoad, serverVars, TableTypes, ServedTypeOK, TableTypeOK
<1>8. CASE ActFails(s)
  <2>1. rows' \in [Env -> TableRow \cup {NULL}]
    BY <1>1, <1>2, <1>8, AnsweredRows DEF ActFails
  <2> QED
    BY <1>4, <1>8, <2>1 DEF ActFails, keptByClick, serverVars, TableTypes, ServedTypeOK, TableTypeOK
<1> QED
  BY <1>5, <1>6, <1>7, <1>8

\* Selection and bulk actions.
LEMMA BulkTypes ==
  ASSUME TableTypes,
         \/ \E e \in Env: toggleRowSelection(e) \/ ServeBulk(e) \/ BulkCallFails(e)
         \/ toggleSelectAll \/ (\E k \in BulkKind: OpenBulk(k))
         \/ CancelBulk \/ executeBulkAction \/ FinishBulk
  PROVE  TableTypes' /\ RowsChange
<1> DEFINE B == [kind: BulkKind, keys: SUBSET Env, running: BOOLEAN, waiting: SUBSET Env]
<1>1. /\ selected \subseteq Env /\ bulk \in B \cup {NULL} /\ query \in Query
      /\ served \in [Env -> Row \cup {NULL}] /\ ServedTypeOK
  BY DEF TableTypes, TableTypeOK, ServedTypeOK
<1>2. CASE (\E e \in Env: toggleRowSelection(e)) \/ toggleSelectAll
  <2>1. selected' \subseteq Env
    BY <1>1, <1>2 DEF toggleRowSelection, toggleSelectAll, Shown
  <2> QED
    BY <1>1, <1>2, <2>1, SameChange
       DEF toggleRowSelection, toggleSelectAll, keptByBulk, TableTypes, TableTypeOK, DeletedRow
<1>3. CASE (\E k \in BulkKind: OpenBulk(k)) \/ CancelBulk \/ executeBulkAction
  <2>1. bulk' \in B \cup {NULL}
    <3>1. CASE \E k \in BulkKind: OpenBulk(k)
      BY <1>1, <3>1 DEF OpenBulk
    <3>2. CASE CancelBulk
      BY <3>2 DEF CancelBulk
    <3>3. CASE executeBulkAction
      <4>1. bulk \in B /\ bulk' = [bulk EXCEPT !.running = TRUE]
        BY <1>1, <3>3 DEF executeBulkAction
      <4> QED
        BY <4>1
    <3> QED
      BY <1>3, <3>1, <3>2, <3>3
  <2> QED
    BY <1>1, <1>3, <2>1, SameChange
       DEF OpenBulk, CancelBulk, executeBulkAction, keptByBulk, TableTypes, TableTypeOK, DeletedRow
<1>4. CASE \E e \in Env: ServeBulk(e)
  <2>1. PICK e \in Env: ServeBulk(e)
    BY <1>4
  <2>2. bulk' \in B \cup {NULL}
    BY <1>1, <2>1 DEF ServeBulk
  <2>3. ServedTypeOK' /\ RowsChange
    <3>1. CASE Accepts(bulk.kind, served[e])
      <4>1. served[e] \in Row /\ bulk.kind \in {"stop", "decommission", "redeploy"}
        BY <1>1, <2>1, <3>1 DEF ServeBulk, Accepts, BulkKind
      <4>2. Written(bulk.kind, served[e]) \in Row
        BY <4>1, WrittenIsRow
      <4> QED
        BY <1>1, <2>1, <3>1, <4>2, WriteChange DEF ServeBulk
    <3>2. CASE ~ Accepts(bulk.kind, served[e])
      BY <1>1, <2>1, <3>2, SameChange DEF ServeBulk
    <3> QED
      BY <3>1, <3>2
  <2> QED
    BY <2>1, <2>2, <2>3 DEF ServeBulk, keptByBulk, TableTypes, TableTypeOK, DeletedRow
<1>5. CASE \E e \in Env: BulkCallFails(e)
  <2>1. bulk' \in B \cup {NULL}
    BY <1>1, <1>5 DEF BulkCallFails
  <2> QED
    BY <1>1, <1>5, <2>1, SameChange DEF BulkCallFails, keptByBulk, TableTypes, TableTypeOK, DeletedRow
<1>6. CASE FinishBulk
  <2>1. /\ bulk' = NULL /\ selected' = {} /\ loads' \subseteq Load
        /\ polls' \in [Env -> SUBSET StatusPoll] /\ listState' = "loading"
    BY <1>1, <1>6 DEF FinishBulk, loadEnvs, Load
  <2> QED
    BY <1>1, <1>6, <2>1, SameChange DEF FinishBulk, keptByBulk, TableTypes, TableTypeOK, DeletedRow
<1> QED
  BY <1>2, <1>3, <1>4, <1>5, <1>6

LEMMA TableTypesStep ==
  ASSUME TableTypes, TableNext
  PROVE  TableTypes' /\ RowsChange
<1>1. CASE \/ \E q \in Query: TypeQuery(q)
           \/ DebounceFires \/ Retry
           \/ \E l \in loads: ServeLoad(l) \/ ApplyLoad(l) \/ LoadFails(l)
  BY <1>1, LoadTypes, SameChange DEF TableTypes
<1>2. CASE \/ pollAll
           \/ \E e \in Env: \E p \in polls[e]: ServeStatus(e, p) \/ ApplyStatus(e, p) \/ StatusFails(e, p)
  BY <1>2, PollTypes, SameChange DEF TableTypes
<1>3. CASE \E e \in Env: stopEnv(e) \/ decommissionEnv(e) \/ deleteEnv(e) \/ createEnv(e)
  BY <1>3, ButtonTypes, SameChange DEF TableTypes
<1>4. CASE \E s \in ActSlot:
             ServeAct(s) \/ ApplyActToRow(s) \/ ApplyDelete(s) \/ ApplyCreate(s) \/ ActFails(s)
  BY <1>4, ActServed, ActApplied, SameChange DEF TableTypes
<1>5. CASE \/ \E e \in Env: toggleRowSelection(e) \/ ServeBulk(e) \/ BulkCallFails(e)
           \/ toggleSelectAll \/ (\E k \in BulkKind: OpenBulk(k))
           \/ CancelBulk \/ executeBulkAction \/ FinishBulk
  BY <1>5, BulkTypes
<1>6. CASE OthersStep
  <2>1. ServedTypeOK' /\ RowsChange
    BY <1>6, OthersChange DEF OthersStep, TableTypes
  <2> QED
    BY <1>6, <2>1 DEF OthersStep, tableVars, TableTypes, TableTypeOK, DeletedRow
<1> QED
  BY <1>1, <1>2, <1>3, <1>4, <1>5, <1>6 DEF TableNext

LEMMA TableTypesInit ==
  ASSUME ServedInit, TableInit
  PROVE  TableTypes
<1>1. ServedTypeOK
  <2>1. Created \in Row /\ [Created EXCEPT !.deploy_status = "deployed"] \in Row
    BY ServedAssumption DEF Created, Row, Status, Date
  <2> QED
    BY <2>1, ServedAssumption DEF ServedInit, ServedTypeOK
<1>2. query \in Query
  BY TableAssumption DEF TableInit
<1>3. loads \subseteq Load
  BY <1>2 DEF TableInit, Load
<1>4. TableTypeOK /\ DeletedRow
  BY <1>2, <1>3, ServedAssumption DEF TableInit, TableTypeOK, DeletedRow
<1> QED
  BY <1>1, <1>4 DEF TableTypes

---------------------------------------------------------------------------
(***************************************************************************)
(* The list: one load at a time, and nothing polled while it is under way  *)
(***************************************************************************)

OneLoad == \A l, m \in loads: l = m

LoadingState == loads # {} => listState = "loading"

QuietWhileLoading == listState = "loading" => \A e \in Env: polls[e] = {}

LoadsAskTheQuery == ~ debounce => \A l \in loads: l.query = query

OnePoll == \A e \in Env: \A p, q \in polls[e]: p = q

LoadInv ==
  OneLoad /\ LoadingState /\ QuietWhileLoading /\ LoadsAskTheQuery /\ OnePoll
  /\ RowsAnswerTheQuery /\ SelectionIsListed

LEMMA LoadInvInit ==
  ASSUME TableInit
  PROVE  LoadInv
BY DEF TableInit, LoadInv, OneLoad, LoadingState, QuietWhileLoading, LoadsAskTheQuery, OnePoll,
       RowsAnswerTheQuery, SelectionIsListed

\* A load that begins makes itself the only one.
LEMMA LoadBegins ==
  ASSUME loadEnvs(query), ~ debounce' \/ debounce' = debounce, UNCHANGED query, SelectionIsListed'
  PROVE  LoadInv'
<1>1. /\ loads' = {[query |-> query, found |-> NULL]} /\ listState' = "loading" /\ query' = query
      /\ \A e \in Env: polls'[e] = {}
  BY DEF loadEnvs
<1> QED
  BY <1>1 DEF LoadInv, OneLoad, LoadingState, QuietWhileLoading, LoadsAskTheQuery, OnePoll,
              RowsAnswerTheQuery

LEMMA LoadInvLoads ==
  ASSUME TableTypes, LoadInv,
         \/ \E q \in Query: TypeQuery(q)
         \/ DebounceFires \/ Retry
         \/ \E l \in loads: ServeLoad(l) \/ ApplyLoad(l) \/ LoadFails(l)
  PROVE  LoadInv'
<1>1. CASE \E q \in Query: TypeQuery(q)
  BY <1>1 DEF TypeQuery, keptByLoad, LoadInv, OneLoad, LoadingState, QuietWhileLoading,
              LoadsAskTheQuery, OnePoll, RowsAnswerTheQuery, SelectionIsListed, Shown
<1>2. CASE DebounceFires \/ Retry
  <2>1. SelectionIsListed'
    BY <1>2 DEF DebounceFires, Retry, keptByLoad, LoadInv, SelectionIsListed, Shown
  <2> QED
    BY <1>2, <2>1, LoadBegins DEF DebounceFires, Retry
<1>3. CASE \E l \in loads: ServeLoad(l)
  <2>1. PICK l \in loads: ServeLoad(l)
    BY <1>3
  <2> DEFINE found == [e \in Env |-> IF e \in Matches[l.query] THEN served[e] ELSE NULL]
             m == [l EXCEPT !.found = found]
  <2>2. m.query = l.query
    BY DEF TableTypes, TableTypeOK, Load
  <2>3. loads' = (loads \ {l}) \cup {m}
    BY <2>1 DEF ServeLoad
  <2> HIDE DEF m
  <2>4. loads' = {m}
    BY <2>3 DEF LoadInv, OneLoad
  <2> QED
    BY <2>1, <2>2, <2>4
       DEF ServeLoad, keptByLoad, LoadInv, OneLoad, LoadingState, QuietWhileLoading,
           LoadsAskTheQuery, OnePoll, RowsAnswerTheQuery, SelectionIsListed, Shown
<1>4. CASE \E l \in loads: ApplyLoad(l)
  <2>1. PICK l \in loads: ApplyLoad(l)
    BY <1>4
  <2>2. /\ loads' = {} /\ listState' = "ready" /\ selected' = {} /\ shownFor' = l.query
        /\ UNCHANGED <<query, debounce>>
    BY <2>1 DEF ApplyLoad, LoadInv, OneLoad
  <2>3. \A e \in Env: \A p, q \in polls'[e]: p = q
    BY <2>1 DEF ApplyLoad, NewPolls
  <2> QED
    BY <2>1, <2>2, <2>3
       DEF LoadInv, OneLoad, LoadingState, QuietWhileLoading, LoadsAskTheQuery, OnePoll,
           RowsAnswerTheQuery, SelectionIsListed
<1>5. CASE \E l \in loads: LoadFails(l)
  BY <1>5 DEF LoadFails, keptByLoad, LoadInv, OneLoad, LoadingState, QuietWhileLoading,
              LoadsAskTheQuery, OnePoll, RowsAnswerTheQuery, SelectionIsListed, Shown
<1> QED
  BY <1>1, <1>2, <1>3, <1>4, <1>5

LEMMA LoadInvPolls ==
  ASSUME TableTypes, LoadInv,
         \/ pollAll
         \/ \E e \in Env: \E p \in polls[e]: ServeStatus(e, p) \/ ApplyStatus(e, p) \/ StatusFails(e, p)
  PROVE  LoadInv'
<1>1. /\ rows \in [Env -> TableRow \cup {NULL}] /\ polls \in [Env -> SUBSET StatusPoll]
      /\ NULL \notin TableRow
  BY TableAssumption DEF TableTypes, TableTypeOK
<1>2. UNCHANGED <<query, debounce, listState, loads, selected, shownFor, removed>>
  BY DEF pollAll, ServeStatus, ApplyStatus, StatusFails, keptByLoad, keptByStatus
<1>3. QuietWhileLoading' /\ OnePoll'
  <2>1. CASE pollAll
    BY <1>2, <2>1 DEF pollAll, PollsOf, LoadInv, QuietWhileLoading, OnePoll
  <2>2. CASE \E e \in Env: \E p \in polls[e]: ServeStatus(e, p) \/ ApplyStatus(e, p) \/ StatusFails(e, p)
    <3>1. PICK e \in Env: \E p \in polls[e]:
                            ServeStatus(e, p) \/ ApplyStatus(e, p) \/ StatusFails(e, p)
      BY <2>2
    <3>2. PICK p \in polls[e]: ServeStatus(e, p) \/ ApplyStatus(e, p) \/ StatusFails(e, p)
      BY <3>1
    <3>3. listState # "loading" /\ polls[e] \ {p} = {}
      BY DEF LoadInv, QuietWhileLoading, OnePoll
    <3>4. /\ \A f \in Env \ {e}: polls'[f] = polls[f]
          /\ polls'[e] = {} \/ \E q: polls'[e] = {q}
      <4>1. CASE ServeStatus(e, p)
        <5>1. polls' = [polls EXCEPT ![e] = (polls[e] \ {p}) \cup {[served |-> TRUE, row |-> Polling(e)]}]
          BY <4>1 DEF ServeStatus
        <5>2. polls'[e] = {[served |-> TRUE, row |-> Polling(e)]}
          BY <1>1, <3>3, <5>1
        <5> QED
          BY <1>1, <5>1, <5>2
      <4>2. CASE ApplyStatus(e, p) \/ StatusFails(e, p)
        <5>1. polls' = [polls EXCEPT ![e] = polls[e] \ {p}]
          BY <4>2 DEF ApplyStatus, StatusFails
        <5> QED
          BY <1>1, <3>3, <5>1
      <4> QED
        BY <3>2, <4>1, <4>2
    <3> QED
      BY <1>2, <3>3, <3>4 DEF LoadInv, QuietWhileLoading, OnePoll
  <2> QED
    BY <2>1, <2>2
<1>4. Shown \subseteq Shown'
  <2>1. \A r \in TableRow: \A b \in BOOLEAN: [r EXCEPT !.polling = b] \in TableRow
    BY DEF TableRow
  <2>2. \A r \in TableRow: \A l \in Live: [r EXCEPT !.live = l, !.polling = FALSE] \in TableRow
    BY DEF TableRow
  <2>3. CASE pollAll
    BY <1>1, <2>1, <2>3 DEF pollAll, Shown
  <2>4. CASE \E e \in Env: \E p \in polls[e]: ServeStatus(e, p)
    BY <2>4 DEF ServeStatus, keptByLoad, Shown
  <2>5. CASE \E e \in Env: \E p \in polls[e]: ApplyStatus(e, p) \/ StatusFails(e, p)
    <3>1. PICK e \in Env: \E p \in polls[e]: ApplyStatus(e, p) \/ StatusFails(e, p)
      BY <2>5
    <3>2. PICK p \in polls[e]: ApplyStatus(e, p) \/ StatusFails(e, p)
      BY <3>1
    <3>3. p.row \in Live \cup {NULL}
      BY <1>1 DEF StatusPoll
    <3>4. rows[e] # NULL => \E r \in TableRow: rows' = [rows EXCEPT ![e] = r]
      <4>1. CASE rows[e] = NULL
        BY <4>1
      <4>2. CASE rows[e] # NULL
        <5>1. rows[e] \in TableRow
          BY <1>1, <4>2
        <5>2. \/ rows' = [rows EXCEPT ![e] = [rows[e] EXCEPT !.polling = FALSE]]
              \/ /\ p.row # NULL
                 /\ rows' = [rows EXCEPT ![e] = [rows[e] EXCEPT !.live = p.row, !.polling = FALSE]]
          BY <3>2, <4>2 DEF ApplyStatus, StatusFails
        <5> QED
          BY <2>1, <2>2, <3>3, <5>1, <5>2
      <4> QED
        BY <4>1, <4>2
    <3>5. rows[e] = NULL => rows' = rows
      BY <3>2 DEF ApplyStatus, StatusFails
    <3> QED
      BY <1>1, <3>4, <3>5 DEF Shown
  <2> QED
    BY <2>3, <2>4, <2>5
<1> QED
  BY <1>2, <1>3, <1>4
     DEF LoadInv, OneLoad, LoadingState, LoadsAskTheQuery, RowsAnswerTheQuery, SelectionIsListed

LEMMA LoadInvActs ==
  ASSUME TableTypes, LoadInv,
         \/ \E e \in Env: stopEnv(e) \/ decommissionEnv(e) \/ deleteEnv(e) \/ createEnv(e)
         \/ \E s \in ActSlot:
              ServeAct(s) \/ ApplyActToRow(s) \/ ApplyDelete(s) \/ ApplyCreate(s) \/ ActFails(s)
  PROVE  LoadInv'
<1>1. /\ rows \in [Env -> TableRow \cup {NULL}] /\ acts \in [ActSlot -> Act \cup {NULL}]
      /\ NULL \notin TableRow /\ selected \subseteq Env
  BY TableAssumption DEF TableTypes, TableTypeOK
<1>2. ASSUME UNCHANGED <<query, debounce, listState, loads, polls, selected, shownFor, removed>>,
             Shown \subseteq Shown'
      PROVE  LoadInv'
  BY <1>2 DEF LoadInv, OneLoad, LoadingState, QuietWhileLoading, LoadsAskTheQuery, OnePoll,
              RowsAnswerTheQuery, SelectionIsListed
<1>3. CASE \E e \in Env: stopEnv(e) \/ decommissionEnv(e) \/ deleteEnv(e) \/ createEnv(e)
  <2>1. PICK e \in Env: stopEnv(e) \/ decommissionEnv(e) \/ deleteEnv(e) \/ createEnv(e)
    BY <1>3
  <2>2. Shown \subseteq Shown'
    <3>1. rows[e] # NULL => /\ [rows[e] EXCEPT !.stopping = TRUE] \in TableRow
                            /\ [rows[e] EXCEPT !.decommissioning = TRUE] \in TableRow
      BY <1>1 DEF TableRow
    <3> QED
      BY <1>1, <2>1, <3>1 DEF stopEnv, decommissionEnv, deleteEnv, createEnv, OnScreen, Shown
  <2>3. \E k \in ActKind: Click(k, e)
    BY <2>1 DEF stopEnv, decommissionEnv, deleteEnv, createEnv, ActKind
  <2> QED
    BY <1>2, <2>2, <2>3 DEF Click, keptByClick
<1>4. CASE \E s \in ActSlot: ServeAct(s)
  <2>1. UNCHANGED rows
    BY <1>4 DEF ServeAct
  <2>2. Shown \subseteq Shown'
    BY <2>1 DEF Shown
  <2> QED
    BY <1>2, <1>4, <2>2 DEF ServeAct
<1>5. CASE \E s \in ActSlot: ApplyActToRow(s) \/ ActFails(s)
  <2>1. PICK s \in ActSlot: ApplyActToRow(s) \/ ActFails(s)
    BY <1>5
  <2>2. UNCHANGED keptByClick
    BY <2>1 DEF ApplyActToRow, ActFails
  <2>3. TableTypes'
    BY <2>1, ActApplied
  <2>4. \A e \in Env: rows[e] # NULL => rows'[e] # NULL
    <3> DEFINE e == acts[s].env
    <3>1. acts[s] \in Act /\ e \in Env
      BY <1>1, <2>1 DEF ApplyActToRow, ActFails, Act
    <3>2. rows[e] = NULL => rows' = rows
      BY <2>1 DEF ApplyActToRow, ActFails
    <3>3. rows[e] # NULL => \E r \in TableRow: rows' = [rows EXCEPT ![e] = r]
      BY <2>1, <3>1, RowAnswered
    <3> HIDE DEF e
    <3> QED
      BY <1>1, <3>1, <3>2, <3>3
  <2> QED
    BY <1>2, <2>2, <2>4 DEF keptByClick, Shown
<1>6. CASE \E s \in ActSlot: ApplyDelete(s)
  <2>1. PICK s \in ActSlot: ApplyDelete(s)
    BY <1>6
  <2> DEFINE e == acts[s].env
  <2>2. UNCHANGED <<query, debounce, listState, loads, selected, shownFor>>
    BY <2>1 DEF ApplyDelete
  <2>3. removed' = removed \cup {e}
    BY <2>1 DEF ApplyDelete
  <2>4. \/ polls' = polls
        \/ listState = "ready" /\ \E S: polls' = NewPolls(S)
    BY <2>1 DEF ApplyDelete
  <2>5. Shown \subseteq Shown' \cup {e}
    <3>1. \A r \in TableRow: [r EXCEPT !.polling = TRUE] \in TableRow
      BY DEF TableRow
    <3>2. \A f \in Env \ {e}: rows[f] # NULL => rows'[f] \in TableRow
      BY <1>1, <2>1, <3>1 DEF ApplyDelete
    <3> QED
      BY <1>1, <3>2 DEF Shown
  <2>6. QuietWhileLoading' /\ OnePoll'
    BY <2>2, <2>4 DEF LoadInv, QuietWhileLoading, OnePoll, NewPolls
  <2> HIDE DEF e
  <2> QED
    BY <2>2, <2>3, <2>5, <2>6
       DEF LoadInv, OneLoad, LoadingState, LoadsAskTheQuery, RowsAnswerTheQuery, SelectionIsListed
<1>7. CASE \E s \in ActSlot: ApplyCreate(s)
  <2>1. SelectionIsListed'
    BY <1>7 DEF ApplyCreate, keptByLoad, LoadInv, SelectionIsListed, Shown
  <2> QED
    BY <1>7, <2>1, LoadBegins DEF ApplyCreate
<1> QED
  BY <1>3, <1>4, <1>5, <1>6, <1>7

LEMMA LoadInvBulk ==
  ASSUME TableTypes, LoadInv,
         \/ \E e \in Env: toggleRowSelection(e) \/ ServeBulk(e) \/ BulkCallFails(e)
         \/ toggleSelectAll \/ (\E k \in BulkKind: OpenBulk(k))
         \/ CancelBulk \/ executeBulkAction \/ FinishBulk
  PROVE  LoadInv'
<1>1. CASE (\E e \in Env: toggleRowSelection(e)) \/ toggleSelectAll
  <2>1. UNCHANGED <<query, debounce, listState, loads, polls, shownFor, removed, rows>>
    BY <1>1 DEF toggleRowSelection, toggleSelectAll, keptByBulk
  <2>2. listState = "ready" /\ selected' \subseteq selected \cup Shown
    BY <1>1 DEF toggleRowSelection, toggleSelectAll, OnScreen, Shown
  <2>3. Shown' = Shown
    BY <2>1 DEF Shown
  <2> QED
    BY <2>1, <2>2, <2>3
       DEF LoadInv, OneLoad, LoadingState, QuietWhileLoading, LoadsAskTheQuery, OnePoll,
           RowsAnswerTheQuery, SelectionIsListed
<1>2. CASE \/ \E e \in Env: ServeBulk(e) \/ BulkCallFails(e)
           \/ (\E k \in BulkKind: OpenBulk(k)) \/ CancelBulk \/ executeBulkAction
  <2>1. UNCHANGED <<query, debounce, listState, loads, polls, selected, shownFor, removed, rows>>
    BY <1>2 DEF ServeBulk, BulkCallFails, OpenBulk, CancelBulk, executeBulkAction, keptByBulk
  <2>2. Shown' = Shown
    BY <2>1 DEF Shown
  <2> QED
    BY <2>1, <2>2
       DEF LoadInv, OneLoad, LoadingState, QuietWhileLoading, LoadsAskTheQuery, OnePoll,
           RowsAnswerTheQuery, SelectionIsListed
<1>3. CASE FinishBulk
  <2>1. SelectionIsListed'
    BY <1>3 DEF FinishBulk, SelectionIsListed
  <2> QED
    BY <1>3, <2>1, LoadBegins DEF FinishBulk, keptByBulk
<1> QED
  BY <1>1, <1>2, <1>3

LEMMA LoadInvStep ==
  ASSUME TableTypes, LoadInv, TableNext
  PROVE  LoadInv'
<1>1. CASE OthersStep
  BY <1>1 DEF OthersStep, tableVars, LoadInv, OneLoad, LoadingState, QuietWhileLoading,
              LoadsAskTheQuery, OnePoll, RowsAnswerTheQuery, SelectionIsListed, Shown
<1> QED
  BY <1>1, LoadInvLoads, LoadInvPolls, LoadInvActs, LoadInvBulk DEF TableNext

---------------------------------------------------------------------------
(***************************************************************************)
(* The list: versions                                                      *)
(***************************************************************************)

\* A row of e that an answer still carries is not older than what is on the screen, and
\* not newer than what the server has.
Between(e, v) ==
  v >= applied[e] /\ v <= writes /\ (served[e] # NULL => v <= served[e].v)

VersionInv ==
  \A e \in Env:
    /\ Between(e, applied[e])
    /\ served[e] # NULL => served[e].v <= writes
    /\ \A l \in loads: l.found # NULL /\ l.found[e] # NULL => Between(e, l.found[e].v)
    /\ \A p \in polls[e]: p.served /\ p.row # NULL => Between(e, p.row.v)

LEMMA VersionInvInit ==
  ASSUME ServedInit, TableInit
  PROVE  VersionInv
<1>1. \A e \in Env: served[e] # NULL => served[e].v = 1
  BY DEF ServedInit, Created
<1>2. writes = 1 /\ \A l \in loads: l.found = NULL
  BY DEF ServedInit, TableInit
<1>3. \A e \in Env: applied[e] = 0 /\ polls[e] = {}
  BY DEF TableInit
<1> QED
  BY <1>1, <1>2, <1>3 DEF VersionInv, Between

\* Numbers of what is typed are numbers.
LEMMA VersionNumbers ==
  ASSUME TableTypes
  PROVE  /\ writes \in Nat
         /\ \A e \in Env: applied[e] \in Nat /\ (served[e] # NULL => served[e].v \in Nat)
         /\ \A l \in loads: l.found # NULL =>
              \A e \in Env: l.found[e] # NULL => l.found[e] \in Row /\ l.found[e].v \in Nat
         /\ \A e \in Env: \A p \in polls[e]: p.row # NULL => p.row \in Live /\ p.row.v \in Nat
<1>1. /\ \A r \in Row: r.v \in Nat
      /\ \A r \in Live: r.v \in Nat
  BY ServedAssumption DEF Row, Live
<1>2. writes \in Nat /\ \A e \in Env: applied[e] \in Nat /\ (served[e] # NULL => served[e].v \in Nat)
  BY <1>1, ServedAssumption DEF TableTypes, ServedTypeOK, TableTypeOK
<1>3. \A l \in loads: l.found # NULL =>
        \A e \in Env: l.found[e] # NULL => l.found[e] \in Row /\ l.found[e].v \in Nat
  BY <1>1 DEF TableTypes, TableTypeOK, Load
<1>4. \A e \in Env: \A p \in polls[e]: p.row # NULL => p.row \in Live /\ p.row.v \in Nat
  BY <1>1 DEF TableTypes, TableTypeOK, StatusPoll
<1> QED
  BY <1>2, <1>3, <1>4

\* Writes and deletes keep the bounds: a new row is newer than everything.
LEMMA BetweenKept ==
  ASSUME TableTypes, VersionInv, ServedTypeOK', RowsChange, NEW e \in Env, applied'[e] = applied[e],
         NEW v \in Nat, Between(e, v)
  PROVE  Between(e, v)'
<1>1. writes' \in Nat /\ writes \in Nat /\ writes' >= writes
  BY VersionNumbers, ServedAssumption DEF ServedTypeOK, RowsChange
<1> QED
  BY <1>1, VersionNumbers DEF Between, RowsChange

LEMMA VersionsKept ==
  ASSUME TableTypes, VersionInv, ServedTypeOK', RowsChange, UNCHANGED applied,
         \A l \in loads': l \in loads \/ l.found = NULL,
         \A e \in Env: \A p \in polls'[e]: p \in polls[e] \/ ~ p.served
  PROVE  VersionInv'
<1> SUFFICES ASSUME NEW e \in Env
             PROVE  /\ Between(e, applied[e])'
                    /\ served'[e] # NULL => served'[e].v <= writes'
                    /\ \A l \in loads': l.found # NULL /\ l.found[e] # NULL => Between(e, l.found[e].v)'
                    /\ \A p \in polls'[e]: p.served /\ p.row # NULL => Between(e, p.row.v)'
  BY DEF VersionInv
<1>1. Between(e, applied[e])'
  BY VersionNumbers, BetweenKept DEF VersionInv
<1>2. served'[e] # NULL => served'[e].v <= writes'
  BY VersionNumbers, ServedAssumption DEF VersionInv, RowsChange, ServedTypeOK
<1>3. \A l \in loads': l.found # NULL /\ l.found[e] # NULL => Between(e, l.found[e].v)'
  BY VersionNumbers, BetweenKept DEF VersionInv
<1>4. \A p \in polls'[e]: p.served /\ p.row # NULL => Between(e, p.row.v)'
  BY VersionNumbers, BetweenKept DEF VersionInv
<1> QED
  BY <1>1, <1>2, <1>3, <1>4

\* The list steps that take nothing from an answer.
LEMMA VersionsOfOtherSteps ==
  ASSUME TableTypes, LoadInv, VersionInv, TableNext,
         ~ \E l \in loads: ServeLoad(l) \/ ApplyLoad(l),
         ~ \E e \in Env: \E p \in polls[e]: ServeStatus(e, p) \/ ApplyStatus(e, p)
  PROVE  VersionInv' /\ UNCHANGED applied
<1>1. ServedTypeOK' /\ RowsChange
  BY TableTypesStep DEF TableTypes
<1>2. ASSUME UNCHANGED <<loads, polls, applied>>
      PROVE  VersionInv'
  BY <1>1, <1>2, VersionsKept
<1>3. ASSUME loadEnvs(query), UNCHANGED applied
      PROVE  VersionInv'
  BY <1>1, <1>3, VersionsKept DEF loadEnvs
<1>4. CASE \E q \in Query: TypeQuery(q)
  BY <1>2, <1>4 DEF TypeQuery, keptByLoad
<1>5. CASE DebounceFires \/ Retry \/ FinishBulk \/ \E s \in ActSlot: ApplyCreate(s)
  BY <1>3, <1>5 DEF DebounceFires, Retry, FinishBulk, ApplyCreate, keptByLoad, keptByBulk
<1>6. CASE \E l \in loads: LoadFails(l)
  BY <1>1, <1>6, VersionsKept DEF LoadFails, keptByLoad
<1>7. CASE pollAll
  <2>1. \A e \in Env: \A p \in polls'[e]: p \in polls[e] \/ ~ p.served
    BY <1>7 DEF pollAll, PollsOf
  <2> QED
    BY <1>1, <1>7, <2>1, VersionsKept DEF pollAll
<1>8. CASE \E e \in Env: \E p \in polls[e]: StatusFails(e, p)
  <2>1. \A e \in Env: polls'[e] \subseteq polls[e]
    BY <1>8 DEF StatusFails, TableTypes, TableTypeOK
  <2> QED
    BY <1>1, <1>8, <2>1, VersionsKept DEF StatusFails, keptByStatus
<1>9. CASE \E e \in Env: stopEnv(e) \/ decommissionEnv(e) \/ deleteEnv(e) \/ createEnv(e)
  <2>1. UNCHANGED keptByClick
    BY <1>9 DEF stopEnv, decommissionEnv, deleteEnv, createEnv, Click
  <2> QED
    BY <1>2, <2>1 DEF keptByClick
<1>10. CASE \E s \in ActSlot: ServeAct(s) \/ ApplyActToRow(s) \/ ActFails(s)
  BY <1>2, <1>10 DEF ServeAct, ApplyActToRow, ActFails, keptByClick
<1>11. CASE \E s \in ActSlot: ApplyDelete(s)
  <2>1. \A e \in Env: \A p \in polls'[e]: p \in polls[e] \/ ~ p.served
    BY <1>11 DEF ApplyDelete, NewPolls
  <2> QED
    BY <1>1, <1>11, <2>1, VersionsKept DEF ApplyDelete
<1>12. CASE \/ \E e \in Env: toggleRowSelection(e) \/ ServeBulk(e) \/ BulkCallFails(e)
            \/ toggleSelectAll \/ (\E k \in BulkKind: OpenBulk(k)) \/ CancelBulk \/ executeBulkAction
  BY <1>2, <1>12 DEF toggleRowSelection, ServeBulk, BulkCallFails, toggleSelectAll, OpenBulk,
                     CancelBulk, executeBulkAction, keptByBulk
<1>13. CASE OthersStep
  BY <1>2, <1>13 DEF OthersStep, tableVars
<1> QED
  BY <1>4, <1>5, <1>6, <1>7, <1>8, <1>9, <1>10, <1>11, <1>12, <1>13 DEF TableNext

\* The list steps that take something from an answer, or put something into one.
LEMMA VersionsOfAnswers ==
  ASSUME TableTypes, LoadInv, VersionInv,
         \/ \E l \in loads: ServeLoad(l) \/ ApplyLoad(l)
         \/ \E e \in Env: \E p \in polls[e]: ServeStatus(e, p) \/ ApplyStatus(e, p)
  PROVE  VersionInv' /\ \A e \in Env: applied'[e] >= applied[e]
<1>0. /\ polls \in [Env -> SUBSET StatusPoll] /\ applied \in [Env -> 0 .. MaxWrites]
      /\ served \in [Env -> Row \cup {NULL}]
  BY DEF TableTypes, TableTypeOK, ServedTypeOK
<1>1. UNCHANGED serverVars
  BY DEF ServeLoad, ApplyLoad, ServeStatus, ApplyStatus, keptByStatus
<1>2. \A e \in Env: applied[e] >= applied[e] /\ (served[e] # NULL => Between(e, served[e].v))
  BY VersionNumbers DEF VersionInv, Between
<1>3. CASE \E l \in loads: ServeLoad(l)
  <2>1. PICK l \in loads: ServeLoad(l)
    BY <1>3
  <2> DEFINE found == [e \in Env |-> IF e \in Matches[l.query] THEN served[e] ELSE NULL]
             m == [l EXCEPT !.found = found]
  <2>2. m.found = found
    BY DEF TableTypes, TableTypeOK, Load
  <2>3. \A e \in Env: found[e] # NULL => Between(e, found[e].v)
    BY <1>2
  <2>4. UNCHANGED <<polls, applied>> /\ loads' = (loads \ {l}) \cup {m}
    BY <2>1 DEF ServeLoad, keptByLoad
  <2> HIDE DEF m, found
  <2> QED
    BY <1>1, <1>2, <2>2, <2>3, <2>4 DEF serverVars, VersionInv, Between
<1>4. CASE \E l \in loads: ApplyLoad(l)
  <2>1. PICK l \in loads: ApplyLoad(l)
    BY <1>4
  <2>2. /\ l.found # NULL /\ loads' = {}
        /\ applied' = [e \in Env |-> IF l.found[e] = NULL THEN applied[e] ELSE l.found[e].v]
        /\ \A e \in Env: \A p \in polls'[e]: ~ p.served
    BY <2>1 DEF ApplyLoad, NewPolls, LoadInv, OneLoad
  <2>3. \A e \in Env: applied'[e] >= applied[e] /\ applied'[e] <= writes
                      /\ (served[e] # NULL => applied'[e] <= served[e].v)
    BY <2>2, VersionNumbers DEF VersionInv, Between
  <2>4. \A e \in Env: applied'[e] >= applied'[e]
    BY <2>2, VersionNumbers
  <2> QED
    BY <1>1, <2>2, <2>3, <2>4 DEF serverVars, VersionInv, Between
<1>5. CASE \E e \in Env: \E p \in polls[e]: ServeStatus(e, p)
  <2>0. PICK e \in Env: \E p \in polls[e]: ServeStatus(e, p)
    BY <1>5
  <2>1. PICK p \in polls[e]: ServeStatus(e, p)
    BY <2>0
  <2> DEFINE q == [served |-> TRUE, row |-> Polling(e)]
  <2>2. polls' = [polls EXCEPT ![e] = (polls[e] \ {p}) \cup {q}]
    BY <2>1 DEF ServeStatus
  <2>3. q.row # NULL => Between(e, q.row.v)
    <3>1. served[e] # NULL => q.row.v = served[e].v
      BY <1>0, StatusOfRow DEF Polling
    <3> QED
      BY <1>2, <3>1 DEF Polling
  <2>4. UNCHANGED <<loads, applied>>
    BY <2>1 DEF ServeStatus, keptByLoad
  <2> HIDE DEF q
  <2> QED
    BY <1>0, <1>1, <1>2, <2>2, <2>3, <2>4 DEF serverVars, VersionInv, Between
<1>6. CASE \E e \in Env: \E p \in polls[e]: ApplyStatus(e, p)
  <2>0. PICK e \in Env: \E p \in polls[e]: ApplyStatus(e, p)
    BY <1>6
  <2>1. PICK p \in polls[e]: ApplyStatus(e, p)
    BY <2>0
  <2>2. polls' = [polls EXCEPT ![e] = {}] /\ loads' = loads /\ loads = {}
    <3>1. polls[e] \ {p} = {} /\ listState # "loading"
      BY DEF LoadInv, OnePoll, QuietWhileLoading
    <3> QED
      BY <2>1, <3>1 DEF ApplyStatus, keptByStatus, LoadInv, LoadingState
  <2>3. \/ UNCHANGED applied
        \/ p.row # NULL /\ p.served /\ applied' = [applied EXCEPT ![e] = p.row.v]
    BY <2>1 DEF ApplyStatus
  <2>4. CASE UNCHANGED applied
    BY <1>0, <1>1, <1>2, <2>2, <2>4 DEF serverVars, VersionInv, Between
  <2>5. CASE p.row # NULL /\ p.served /\ applied' = [applied EXCEPT ![e] = p.row.v]
    <3>1. Between(e, p.row.v) /\ p.row.v \in Nat
      BY <2>5, VersionNumbers DEF VersionInv
    <3>2. applied'[e] = p.row.v /\ \A f \in Env \ {e}: applied'[f] = applied[f]
      BY <1>0, <2>5
    <3>3. polls'[e] = {} /\ \A f \in Env \ {e}: polls'[f] = polls[f]
      BY <1>0, <2>2
    <3> QED
      BY <1>1, <1>2, <2>2, <3>1, <3>2, <3>3 DEF serverVars, VersionInv, Between
  <2> QED
    BY <2>3, <2>4, <2>5
<1> QED
  BY <1>3, <1>4, <1>5, <1>6

LEMMA VersionInvStep ==
  ASSUME TableTypes, LoadInv, VersionInv, TableNext
  PROVE  VersionInv' /\ \A e \in Env: applied'[e] >= applied[e]
<1>1. \A e \in Env: applied[e] >= applied[e]
  BY VersionNumbers
<1> QED
  BY <1>1, VersionsOfOtherSteps, VersionsOfAnswers

---------------------------------------------------------------------------
(***************************************************************************)
(* The list: spinners                                                      *)
(***************************************************************************)

GoneIsDeleted ==
  \A s \in ActSlot: acts[s] # NULL /\ acts[s].answer = "gone" => acts[s].kind = "delete"

SpinInv == GoneIsDeleted /\ TableSpinners

\* A call of that kind for e is in flight.
Pending(k, e) == \E s \in ActSlot: acts[s] # NULL /\ acts[s].kind = k /\ acts[s].env = e

Spinners ==
  listState = "ready" =>
    \A e \in Shown: /\ rows[e].polling => polls[e] # {}
                    /\ rows[e].stopping => Pending("stop", e)
                    /\ rows[e].decommissioning => Pending("decommission", e)

LEMMA SpinnersArePending == (TableSpinners <=> Spinners) /\ (TableSpinners' <=> Spinners')
<1>1. TableSpinners <=> Spinners
  BY DEF TableSpinners, Spinners, Pending
<1>2. TableSpinners' <=> Spinners'
  BY DEF TableSpinners, Spinners, Pending
<1> QED
  BY <1>1, <1>2

LEMMA SpinInvInit ==
  ASSUME TableInit
  PROVE  SpinInv
BY DEF TableInit, SpinInv, GoneIsDeleted, TableSpinners

LEMMA SpinInvLoads ==
  ASSUME TableTypes, SpinInv,
         \/ \E q \in Query: TypeQuery(q)
         \/ DebounceFires \/ Retry
         \/ \E l \in loads: ServeLoad(l) \/ ApplyLoad(l) \/ LoadFails(l)
  PROVE  SpinInv'
<1>1. UNCHANGED acts /\ GoneIsDeleted'
  BY DEF TypeQuery, DebounceFires, Retry, ServeLoad, ApplyLoad, LoadFails, SpinInv, GoneIsDeleted
<1>2. CASE (\E q \in Query: TypeQuery(q)) \/ \E l \in loads: ServeLoad(l)
  <2>1. UNCHANGED <<listState, rows, polls>>
    BY <1>2 DEF TypeQuery, ServeLoad, keptByLoad
  <2> QED
    BY <1>1, <2>1 DEF SpinInv, TableSpinners, Shown
<1>3. CASE DebounceFires \/ Retry \/ \E l \in loads: LoadFails(l)
  <2>1. listState' # "ready"
    BY <1>3 DEF DebounceFires, Retry, LoadFails, loadEnvs
  <2> QED
    BY <1>1, <2>1 DEF SpinInv, TableSpinners
<1>4. CASE \E l \in loads: ApplyLoad(l)
  <2>1. PICK l \in loads: ApplyLoad(l)
    BY <1>4
  <2>2. \A e \in Shown': l.found[e] # NULL /\ rows'[e] = Fresh(l.found[e])
    BY <2>1 DEF ApplyLoad, Shown
  <2>3. \A e \in Shown': polls'[e] # {}
    BY <2>1, <2>2 DEF ApplyLoad, NewPolls, Shown
  <2>4. \A e \in Shown': ~ rows'[e].stopping /\ ~ rows'[e].decommissioning
    <3>1. \A r: Fresh(r).stopping = FALSE /\ Fresh(r).decommissioning = FALSE
      BY DEF Fresh
    <3> QED
      BY <2>2, <3>1
  <2> QED
    BY <1>1, <2>3, <2>4 DEF SpinInv, TableSpinners
<1> QED
  BY <1>2, <1>3, <1>4

LEMMA SpinInvPolls ==
  ASSUME TableTypes, SpinInv,
         \/ pollAll
         \/ \E e \in Env: \E p \in polls[e]: ServeStatus(e, p) \/ ApplyStatus(e, p) \/ StatusFails(e, p)
  PROVE  SpinInv'
<1>1. /\ rows \in [Env -> TableRow \cup {NULL}] /\ polls \in [Env -> SUBSET StatusPoll]
      /\ NULL \notin TableRow
  BY TableAssumption DEF TableTypes, TableTypeOK
<1>2. UNCHANGED <<listState, acts>> /\ GoneIsDeleted'
  BY DEF pollAll, ServeStatus, ApplyStatus, StatusFails, keptByLoad, keptByStatus, SpinInv, GoneIsDeleted
<1> SUFFICES ASSUME listState = "ready", NEW e \in Shown'
             PROVE  /\ e \in Shown /\ rows'[e].stopping = rows[e].stopping
                    /\ rows'[e].decommissioning = rows[e].decommissioning
                    /\ rows'[e].polling => polls'[e] # {}
  BY <1>2 DEF SpinInv, TableSpinners
<1>3. CASE pollAll
  <2>1. e \in Shown /\ rows[e] \in TableRow
    BY <1>1, <1>3 DEF pollAll, Shown
  <2>2. rows'[e] = [rows[e] EXCEPT !.polling = TRUE] /\ polls'[e] # {}
    BY <1>3, <2>1 DEF pollAll, PollsOf, Shown
  <2> QED
    BY <2>1, <2>2 DEF TableRow
<1>4. CASE \E f \in Env: \E p \in polls[f]: ServeStatus(f, p)
  <2>1. UNCHANGED rows /\ e \in Shown
    BY <1>4 DEF ServeStatus, keptByLoad, Shown
  <2>2. polls[e] # {} => polls'[e] # {}
    BY <1>1, <1>4, <2>1 DEF ServeStatus, Shown
  <2> QED
    BY <2>1, <2>2 DEF SpinInv, TableSpinners
<1>5. CASE \E f \in Env: \E p \in polls[f]: ApplyStatus(f, p) \/ StatusFails(f, p)
  <2>1. PICK f \in Env: \E p \in polls[f]: ApplyStatus(f, p) \/ StatusFails(f, p)
    BY <1>5
  <2>2. PICK p \in polls[f]: ApplyStatus(f, p) \/ StatusFails(f, p)
    BY <2>1
  <2>3. polls' = [polls EXCEPT ![f] = polls[f] \ {p}]
    BY <2>2 DEF ApplyStatus, StatusFails
  <2>4. \/ rows' = rows /\ rows[f] = NULL
        \/ rows[f] # NULL /\ \E r: /\ rows' = [rows EXCEPT ![f] = r] /\ r.polling = FALSE
                                   /\ r.stopping = rows[f].stopping
                                   /\ r.decommissioning = rows[f].decommissioning
    <3>1. CASE rows[f] = NULL
      BY <2>2, <3>1 DEF ApplyStatus, StatusFails
    <3>2. CASE rows[f] # NULL
      <4>1. rows[f] \in TableRow
        BY <1>1, <3>2
      <4>2. \/ rows' = [rows EXCEPT ![f] = [rows[f] EXCEPT !.polling = FALSE]]
            \/ rows' = [rows EXCEPT ![f] = [rows[f] EXCEPT !.live = p.row, !.polling = FALSE]]
        BY <2>2, <3>2 DEF ApplyStatus, StatusFails
      <4>3. /\ [rows[f] EXCEPT !.polling = FALSE].polling = FALSE
            /\ [rows[f] EXCEPT !.polling = FALSE].stopping = rows[f].stopping
            /\ [rows[f] EXCEPT !.polling = FALSE].decommissioning = rows[f].decommissioning
            /\ [rows[f] EXCEPT !.live = p.row, !.polling = FALSE].polling = FALSE
            /\ [rows[f] EXCEPT !.live = p.row, !.polling = FALSE].stopping = rows[f].stopping
            /\ [rows[f] EXCEPT !.live = p.row, !.polling = FALSE].decommissioning
                 = rows[f].decommissioning
        BY <4>1 DEF TableRow
      <4> QED
        BY <3>2, <4>2, <4>3
    <3> QED
      BY <3>1, <3>2
  <2>5. CASE e = f
    BY <1>1, <2>1, <2>4, <2>5 DEF Shown
  <2>6. CASE e # f
    <3>1. rows'[e] = rows[e] /\ polls'[e] = polls[e] /\ e \in Shown
      BY <1>1, <2>3, <2>4, <2>6 DEF Shown
    <3> QED
      BY <3>1 DEF SpinInv, TableSpinners
  <2> QED
    BY <2>5, <2>6
<1> QED
  BY <1>3, <1>4, <1>5

LEMMA SpinInvButtons ==
  ASSUME TableTypes, SpinInv, NEW e \in Env,
         stopEnv(e) \/ decommissionEnv(e) \/ deleteEnv(e) \/ createEnv(e)
  PROVE  SpinInv'
<1>1. /\ rows \in [Env -> TableRow \cup {NULL}] /\ acts \in [ActSlot -> Act \cup {NULL}]
      /\ NULL \notin Act /\ NULL \notin TableRow
  BY TableAssumption DEF TableTypes, TableTypeOK
<1>2. PICK k \in ActKind:
        /\ Click(k, e)
        /\ stopEnv(e) => k = "stop"
        /\ decommissionEnv(e) => k = "decommission"
  <2>3. ~ (stopEnv(e) /\ decommissionEnv(e))
    BY DEF stopEnv, decommissionEnv, isStoppable, isDecommissionable
  <2>4. CASE stopEnv(e)
    BY <2>3, <2>4 DEF stopEnv, ActKind
  <2>5. CASE decommissionEnv(e)
    BY <2>3, <2>5 DEF decommissionEnv, ActKind
  <2>6. CASE ~ stopEnv(e) /\ ~ decommissionEnv(e)
    BY <2>6 DEF deleteEnv, createEnv, ActKind
  <2> QED
    BY <2>4, <2>5, <2>6
<1> DEFINE call == [kind |-> k, env |-> e, answer |-> NULL, row |-> NULL]
<1>3. PICK s \in ActSlot: acts[s] = NULL /\ acts' = [acts EXCEPT ![s] = call]
  BY <1>2 DEF Click
<1>4. call \in Act
  BY DEF Act
<1>5. acts'[s] # NULL /\ acts'[s].kind = k /\ acts'[s].env = e /\ acts'[s].answer = NULL
  BY <1>1, <1>3, <1>4
<1>6. \A t \in ActSlot: acts[t] # NULL => acts'[t] = acts[t]
  BY <1>1, <1>3
<1>7. GoneIsDeleted'
  BY <1>1, <1>3, <1>5, TableAssumption DEF SpinInv, GoneIsDeleted
<1>8. UNCHANGED <<listState, polls>>
  BY <1>2 DEF Click, keptByClick
<1>9. \A f \in Shown': /\ f \in Shown /\ rows'[f].polling = rows[f].polling
                       /\ rows'[f].stopping => rows[f].stopping \/ (k = "stop" /\ f = e)
                       /\ rows'[f].decommissioning =>
                            rows[f].decommissioning \/ (k = "decommission" /\ f = e)
  <2>1. CASE stopEnv(e)
    <3>1. rows[e] \in TableRow /\ rows' = [rows EXCEPT ![e] = [rows[e] EXCEPT !.stopping = TRUE]]
      BY <1>1, <2>1 DEF stopEnv, OnScreen
    <3> DEFINE r == [rows[e] EXCEPT !.stopping = TRUE]
    <3>2. /\ r.polling = rows[e].polling
          /\ r.decommissioning = rows[e].decommissioning
      BY <3>1 DEF TableRow
    <3>3. rows[e] # NULL
      BY <1>1, <3>1
    <3>4. rows' = [rows EXCEPT ![e] = r]
      BY <3>1
    <3> HIDE DEF r
    <3>5. rows'[e] = r /\ \A f \in Env \ {e}: rows'[f] = rows[f]
      BY <1>1, <3>4
    <3> QED
      BY <1>2, <2>1, <3>2, <3>3, <3>5 DEF Shown
  <2>2. CASE decommissionEnv(e)
    <3>1. /\ rows[e] \in TableRow
          /\ rows' = [rows EXCEPT ![e] = [rows[e] EXCEPT !.decommissioning = TRUE]]
      BY <1>1, <2>2 DEF decommissionEnv, OnScreen
    <3> DEFINE r == [rows[e] EXCEPT !.decommissioning = TRUE]
    <3>2. /\ r.polling = rows[e].polling
          /\ r.stopping = rows[e].stopping
      BY <3>1 DEF TableRow
    <3>3. rows[e] # NULL
      BY <1>1, <3>1
    <3>4. rows' = [rows EXCEPT ![e] = r]
      BY <3>1
    <3> HIDE DEF r
    <3>5. rows'[e] = r /\ \A f \in Env \ {e}: rows'[f] = rows[f]
      BY <1>1, <3>4
    <3> QED
      BY <1>2, <2>2, <3>2, <3>3, <3>5 DEF Shown
  <2>3. CASE deleteEnv(e) \/ createEnv(e)
    BY <2>3 DEF deleteEnv, createEnv, Shown
  <2> QED
    BY <2>1, <2>2, <2>3
<1> HIDE DEF call
<1>10. TableSpinners'
  BY <1>5, <1>6, <1>8, <1>9 DEF SpinInv, TableSpinners
<1> QED
  BY <1>7, <1>10 DEF SpinInv

\* An answer, or its loss, releases the button it belongs to.
LEMMA SpinInvActs ==
  ASSUME TableTypes, SpinInv, NEW s \in ActSlot,
         ServeAct(s) \/ ApplyActToRow(s) \/ ApplyDelete(s) \/ ApplyCreate(s) \/ ActFails(s)
  PROVE  SpinInv'
<1>1. /\ rows \in [Env -> TableRow \cup {NULL}] /\ acts \in [ActSlot -> Act \cup {NULL}]
      /\ polls \in [Env -> SUBSET StatusPoll] /\ NULL \notin Act /\ NULL \notin TableRow
  BY TableAssumption DEF TableTypes, TableTypeOK
<1> DEFINE e == acts[s].env
           k == acts[s].kind
<1>2. acts[s] # NULL /\ acts[s] \in Act /\ e \in Env /\ k \in ActKind
  BY <1>1 DEF ServeAct, ApplyActToRow, ApplyDelete, ApplyCreate, ActFails, Act
<1>3. CASE ServeAct(s)
  <2>1. \E a \in {"ok", "refused", "gone"}:
          /\ acts' = [acts EXCEPT ![s] = [acts[s] EXCEPT !.answer = a, !.row = served'[e]]]
          /\ a = "gone" => k = "delete"
    BY <1>2, <1>3 DEF ServeAct, ActKind
  <2>2. PICK a \in {"ok", "refused", "gone"}:
          /\ acts' = [acts EXCEPT ![s] = [acts[s] EXCEPT !.answer = a, !.row = served'[e]]]
          /\ a = "gone" => k = "delete"
    BY <2>1
  <2> DEFINE call == [acts[s] EXCEPT !.answer = a, !.row = served'[e]]
  <2>3. call.kind = k /\ call.env = e /\ call.answer = a
    BY <1>2 DEF Act
  <2>4. call # NULL
    <3>1. served'[e] \in Row \cup {NULL}
      BY <1>2, <1>3, ActServed DEF TableTypes, ServedTypeOK
    <3>2. call \in Act
      BY <1>2, <3>1 DEF Act
    <3> QED
      BY <1>1, <3>2
  <2>5. acts' = [acts EXCEPT ![s] = call]
    BY <2>2
  <2> HIDE DEF call
  <2>6. /\ acts'[s] = call /\ \A t \in ActSlot \ {s}: acts'[t] = acts[t]
        /\ UNCHANGED <<listState, rows, polls>>
    BY <1>1, <1>3, <2>5 DEF ServeAct
  <2> HIDE DEF e, k
  <2>7. GoneIsDeleted'
    BY <2>2, <2>3, <2>6 DEF SpinInv, GoneIsDeleted
  <2>8. \A kind: \A f: Pending(kind, f) => Pending(kind, f)'
    BY <1>2, <2>3, <2>4, <2>6 DEF Pending, e, k
  <2>9. TableSpinners'
    <3>1. Spinners'
      <4>1. Spinners
        BY SpinnersArePending DEF SpinInv
      <4> QED
        BY <2>6, <2>8, <4>1 DEF Spinners, Shown
    <3> QED
      BY <3>1, SpinnersArePending
  <2> QED
    BY <2>7, <2>9 DEF SpinInv
<1>4. ASSUME ApplyActToRow(s) \/ ApplyDelete(s) \/ ApplyCreate(s) \/ ActFails(s)
      PROVE  /\ acts'[s] = NULL /\ \A t \in ActSlot \ {s}: acts'[t] = acts[t]
             /\ GoneIsDeleted'
             /\ \A kind: \A f: Pending(kind, f) /\ (kind # k \/ f # e) => Pending(kind, f)'
  <2>1. acts' = [acts EXCEPT ![s] = NULL]
    BY <1>4 DEF ApplyActToRow, ApplyDelete, ApplyCreate, ActFails, Done
  <2>2. acts'[s] = NULL /\ \A t \in ActSlot \ {s}: acts'[t] = acts[t]
    BY <1>1, <2>1
  <2> QED
    BY <2>2 DEF Pending, SpinInv, GoneIsDeleted
<1>5. CASE ApplyActToRow(s) \/ ActFails(s)
  <2>1. UNCHANGED <<listState, polls>>
    BY <1>5 DEF ApplyActToRow, ActFails, keptByClick
  <2>2. \A f \in Shown':
          /\ f \in Shown /\ rows'[f].polling = rows[f].polling
          /\ rows'[f].stopping => rows[f].stopping /\ (f # e \/ k # "stop")
          /\ rows'[f].decommissioning => rows[f].decommissioning /\ (f # e \/ k # "decommission")
    <3>1. CASE rows[e] = NULL
      <4>1. rows' = rows
        BY <1>5, <3>1 DEF ApplyActToRow, ActFails
      <4> QED
        BY <3>1, <4>1 DEF Shown
    <3>2. CASE rows[e] # NULL
      <4>1. PICK r \in TableRow:
              /\ rows' = [rows EXCEPT ![e] = r]
              /\ r.polling = rows[e].polling
              /\ r.stopping => k # "stop" /\ rows[e].stopping
              /\ r.decommissioning => k # "decommission" /\ rows[e].decommissioning
        BY <1>5, <3>2, RowAnswered
      <4> HIDE DEF e, k
      <4>2. rows'[e] = r /\ \A f \in Env \ {e}: rows'[f] = rows[f]
        BY <1>1, <1>2, <4>1
      <4> QED
        BY <3>2, <4>1, <4>2 DEF Shown
    <3> QED
      BY <3>1, <3>2
  <2> HIDE DEF e, k
  <2>3. TableSpinners'
    <3>1. Spinners'
      <4>1. Spinners
        BY SpinnersArePending DEF SpinInv
      <4>2. \A kind: \A f: Pending(kind, f) /\ (kind # k \/ f # e) => Pending(kind, f)'
        BY <1>4, <1>5
      <4> QED
        BY <2>1, <2>2, <4>1, <4>2 DEF Spinners
    <3> QED
      BY <3>1, SpinnersArePending
  <2> QED
    BY <1>4, <1>5, <2>3 DEF SpinInv
<1>6. CASE ApplyDelete(s)
  <2>1. k = "delete"
    BY <1>2, <1>6 DEF ApplyDelete, SpinInv, GoneIsDeleted
  <2>2. UNCHANGED listState
    BY <1>6 DEF ApplyDelete
  <2>3. \A f \in Shown': /\ f \in Shown /\ f # e
                         /\ rows'[f].stopping = rows[f].stopping
                         /\ rows'[f].decommissioning = rows[f].decommissioning
                         /\ listState = "ready" /\ rows'[f].polling => polls'[f] # {}
    <3> SUFFICES ASSUME NEW f \in Shown'
                 PROVE  /\ f \in Shown /\ f # e
                        /\ rows'[f].stopping = rows[f].stopping
                        /\ rows'[f].decommissioning = rows[f].decommissioning
                        /\ listState = "ready" /\ rows'[f].polling => polls'[f] # {}
      OBVIOUS
    <3>1. f \in Env /\ f # e /\ f \in Shown /\ rows[f] \in TableRow
      BY <1>1, <1>6 DEF ApplyDelete, Shown
    <3>2. CASE rows[e] # NULL /\ listState = "ready"
      <4>1. rows'[f] = [rows[f] EXCEPT !.polling = TRUE]
        BY <1>6, <3>1, <3>2 DEF ApplyDelete, Shown
      <4>2. polls'[f] # {}
        BY <1>6, <3>1, <3>2 DEF ApplyDelete, NewPolls, Shown
      <4> QED
        BY <3>1, <4>1, <4>2 DEF TableRow
    <3>3. CASE ~ (rows[e] # NULL /\ listState = "ready")
      <4>1. rows'[f] = rows[f] /\ polls' = polls
        BY <1>6, <3>1, <3>3 DEF ApplyDelete, Shown
      <4> QED
        BY <3>1, <4>1 DEF SpinInv, TableSpinners
    <3> QED
      BY <3>2, <3>3
  <2> HIDE DEF e, k
  <2>4. TableSpinners'
    <3>1. Spinners'
      <4>1. Spinners
        BY SpinnersArePending DEF SpinInv
      <4>2. \A kind: \A f: Pending(kind, f) /\ (kind # k \/ f # e) => Pending(kind, f)'
        BY <1>4, <1>6
      <4> QED
        BY <2>1, <2>2, <2>3, <4>1, <4>2 DEF Spinners
    <3> QED
      BY <3>1, SpinnersArePending
  <2> QED
    BY <1>4, <1>6, <2>4 DEF SpinInv
<1>7. CASE ApplyCreate(s)
  <2>1. listState' # "ready"
    BY <1>7 DEF ApplyCreate, loadEnvs
  <2> QED
    BY <1>4, <1>7, <2>1 DEF SpinInv, TableSpinners
<1> QED
  BY <1>3, <1>5, <1>6, <1>7

LEMMA SpinInvStep ==
  ASSUME TableTypes, SpinInv, TableNext
  PROVE  SpinInv'
<1>1. CASE \/ \E e \in Env: toggleRowSelection(e) \/ ServeBulk(e) \/ BulkCallFails(e)
           \/ toggleSelectAll \/ (\E k \in BulkKind: OpenBulk(k)) \/ CancelBulk \/ executeBulkAction
           \/ OthersStep
  <2>1. UNCHANGED <<listState, rows, polls, acts>>
    BY <1>1 DEF toggleRowSelection, ServeBulk, BulkCallFails, toggleSelectAll, OpenBulk, CancelBulk,
                executeBulkAction, keptByBulk, OthersStep, tableVars
  <2> QED
    BY <2>1 DEF SpinInv, GoneIsDeleted, TableSpinners, Shown
<1>2. CASE FinishBulk
  <2>1. listState' # "ready" /\ UNCHANGED acts
    BY <1>2 DEF FinishBulk, loadEnvs, keptByBulk
  <2> QED
    BY <2>1 DEF SpinInv, GoneIsDeleted, TableSpinners
<1> QED
  BY <1>1, <1>2, SpinInvLoads, SpinInvPolls, SpinInvButtons, SpinInvActs DEF TableNext

---------------------------------------------------------------------------
(***************************************************************************)
(* The page: types                                                         *)
(***************************************************************************)

\* The row and its form come together, and a save has both.
FormWithRow == (envData = NULL <=> form = NULL) /\ (saveCall # NULL => form # NULL)

\* An answer that says ok has brought the row along.
AnswersBringRows ==
  /\ \A c \in {loadCall, stopCall, dcommCall}: c # NULL /\ c.answer = "ok" => c.row \in Row
  /\ saveCall # NULL /\ saveCall.answer = "ok" => saveCall.row \in Row

PageTypes == ServedTypeOK /\ PageTypeOK /\ FormWithRow /\ AnswersBringRows

LEMMA FormOfRow ==
  ASSUME NEW r \in Row
  PROVE  envToFormState(r) \in Form /\ envToFormState(r) # NULL /\ envToFormState(r).v = r.v
         /\ \A f \in Field: envToFormState(r)[f] = r[f]
<1>1. envToFormState(r) \in Form
  BY DEF Row, Form, envToFormState
<1>2. envToFormState(r).v = r.v /\ \A f \in Field: envToFormState(r)[f] = r[f]
  BY DEF envToFormState, Field
<1> QED
  BY <1>1, <1>2, PageAssumption

\* A row that is shown.
LEMMA ShowTypes ==
  ASSUME NEW r \in Row, Show(r)
  PROVE  /\ envData' \in Row /\ envData' # NULL /\ form' \in Form /\ form' # NULL
         /\ edited' \subseteq Field /\ FormWithRow'
BY FormOfRow, ServedAssumption DEF Show, FormWithRow

LEMMA PageTypesInit ==
  ASSUME ServedTypeOK, PageInit
  PROVE  PageTypes
<1>1. loadCall \in WriteCall /\ loadCall.answer = NULL
  BY DEF PageInit, Sent, WriteCall, Answer
<1>2. ever \subseteq Row
  BY PageAssumption DEF PageInit, ServedTypeOK
<1>3. FormWithRow
  BY DEF PageInit, FormWithRow
<1>4. AnswersBringRows
  BY <1>1, PageAssumption DEF PageInit, AnswersBringRows
<1>5. PageTypeOK
  <2>1. statusCalls \in [PollSlot \cup Awaited -> PagePoll \cup {NULL}]
    BY DEF PageInit
  <2>2. {loadCall, stopCall, dcommCall} \subseteq WriteCall \cup {NULL}
    BY <1>1 DEF PageInit
  <2>3. acked \in 0 .. MaxWrites
    BY ServedAssumption DEF PageInit
  <2> QED
    BY <1>2, <2>1, <2>2, <2>3 DEF PageInit, PageTypeOK
<1> QED
  BY <1>3, <1>4, <1>5 DEF PageTypes

\* The calls that are sent.
LEMMA SentCalls == Sent \in WriteCall /\ Sent.answer = NULL /\ Polled \in PagePoll
BY DEF Sent, WriteCall, Answer, Polled, PagePoll

\* What the types of the page say, one variable at a time.
LEMMA PageTypeFacts ==
  ASSUME PageTypes
  PROVE  /\ served \in [Env -> Row \cup {NULL}] /\ Here \in Env /\ served[Here] \in Row \cup {NULL}
         /\ statusCalls \in [PollSlot \cup Awaited -> PagePoll \cup {NULL}]
         /\ loadCall \in WriteCall \cup {NULL} /\ stopCall \in WriteCall \cup {NULL}
         /\ dcommCall \in WriteCall \cup {NULL} /\ saveCall \in SaveCall \cup {NULL}
         /\ stopping \in BOOLEAN /\ decommissioning \in BOOLEAN /\ saving \in BOOLEAN
         /\ overlapped \in BOOLEAN /\ unread \in BOOLEAN
BY PageAssumption DEF PageTypes, PageTypeOK, ServedTypeOK

LEMMA PageTypesLoading ==
  ASSUME PageTypes, ServeDetail \/ loadEnvData \/ DetailFails, RecordServed
  PROVE  PageTypes' /\ RowsChange
<1>1. ServedTypeOK' /\ RowsChange /\ UNCHANGED serverVars
  BY SameChange DEF PageTypes, ServeDetail, loadEnvData, DetailFails, keptByLoading
<1>2. ever' \subseteq Row
  BY <1>1, PageAssumption DEF RecordServed, PageTypes, PageTypeOK, ServedTypeOK
<1>3. CASE ServeDetail
  <2>1. loadCall' \in WriteCall /\ (loadCall'.answer = "ok" => loadCall'.row \in Row)
    BY <1>3, PageTypeFacts DEF ServeDetail, WriteCall, Answer
  <2> QED
    BY <1>1, <1>2, <1>3, <2>1 DEF ServeDetail, PageTypes, PageTypeOK, FormWithRow, AnswersBringRows
<1>4. CASE loadEnvData \/ DetailFails
  <2>1. statusCalls' \in [PollSlot \cup Awaited -> PagePoll \cup {NULL}]
    BY <1>4, PageTypeFacts, SentCalls DEF loadEnvData, DetailFails
  <2>2. /\ envData' \in Row \cup {NULL} /\ form' \in Form \cup {NULL} /\ edited' \subseteq Field
        /\ FormWithRow'
    <3>1. CASE loadEnvData /\ loadCall.answer = "ok"
      <4>1. loadCall.row \in Row /\ Show(loadCall.row)
        BY <3>1 DEF loadEnvData, PageTypes, AnswersBringRows
      <4> QED
        BY <4>1, ShowTypes
    <3>2. CASE UNCHANGED <<envData, form, edited>>
      BY <1>4, <3>2
         DEF loadEnvData, DetailFails, keptByLoading, PageTypes, PageTypeOK, FormWithRow
    <3> QED
      BY <1>4, <3>1, <3>2 DEF loadEnvData, DetailFails
  <2>3. /\ loadCall' = NULL /\ loadState' \in {"loading", "error", "ready"}
        /\ UNCHANGED keptByLoading
    BY <1>4 DEF loadEnvData, DetailFails, PageTypes, PageTypeOK
  <2> QED
    BY <1>1, <1>2, <2>1, <2>2, <2>3 DEF keptByLoading, PageTypes, PageTypeOK, AnswersBringRows
<1> QED
  BY <1>3, <1>4

LEMMA PageTypesPolls ==
  ASSUME PageTypes, RecordServed,
         \/ \E s \in PollSlot: fetchStatus(s)
         \/ \E c \in PollSlot \cup Awaited: ServePoll(c) \/ ApplyPagePoll(c) \/ PollFails(c)
  PROVE  PageTypes' /\ RowsChange
<1>1. UNCHANGED <<keptByPoll, edited>>
  BY DEF fetchStatus, ServePoll, ApplyPagePoll, PollFails, keptByPoll
<1>2. ServedTypeOK' /\ RowsChange
  BY <1>1, SameChange DEF PageTypes, keptByPoll
<1>3. ever' \subseteq Row
  BY <1>2, PageAssumption DEF RecordServed, PageTypes, PageTypeOK, ServedTypeOK
<1>4. statusCalls' \in [PollSlot \cup Awaited -> PagePoll \cup {NULL}]
  <2>1. Polling(Here) \in Live \cup {NULL}
    BY PageTypeFacts, StatusOfRow DEF Polling
  <2>2. [served |-> TRUE, row |-> Polling(Here)] \in PagePoll
    BY <2>1 DEF PagePoll
  <2> QED
    BY <2>2, PageTypeFacts, SentCalls DEF fetchStatus, ServePoll, ApplyPagePoll, PollFails, AfterPoll
<1>5. status' \in Live \cup {NULL}
  <2>1. CASE \E c \in PollSlot \cup Awaited: ApplyPagePoll(c)
    <3>1. PICK c \in PollSlot \cup Awaited: ApplyPagePoll(c)
      BY <2>1
    <3>2. statusCalls[c].row \in Live \cup {NULL}
      BY <3>1, PageTypeFacts DEF ApplyPagePoll, PagePoll
    <3> QED
      BY <3>1, <3>2 DEF ApplyPagePoll, PageTypes, PageTypeOK
  <2>2. CASE UNCHANGED status
    BY <2>2 DEF PageTypes, PageTypeOK
  <2> QED
    BY <2>1, <2>2 DEF fetchStatus, ServePoll, PollFails
<1>6. /\ loadState' \in {"loading", "error", "ready"} /\ modal' \in {NULL, "stop", "decommission"}
      /\ stopping' \in BOOLEAN /\ decommissioning' \in BOOLEAN
  BY PageTypeFacts
     DEF fetchStatus, ServePoll, ApplyPagePoll, PollFails, AfterPoll, PageTypes, PageTypeOK
<1> QED
  BY <1>1, <1>2, <1>3, <1>4, <1>5, <1>6
     DEF keptByPoll, PageTypes, PageTypeOK, FormWithRow, AnswersBringRows

LEMMA VersionsOfRows ==
  ASSUME NEW r \in Row
  PROVE  r.v \in Nat /\ r.v \in 0 .. MaxWrites
BY ServedAssumption DEF Row

\* What the route of a stop or a teardown does to the row of the page.
LEMMA ServeTypes ==
  ASSUME ServedTypeOK, NEW kind \in {"stop", "decommission"}, Serve(kind)
  PROVE  /\ ServedTypeOK' /\ RowsChange /\ served'[Here] \in Row \cup {NULL}
         /\ Accepts(kind, served[Here]) =>
              served[Here] \in Row /\ served'[Here] \in Row /\ served'[Here] # NULL
<1>1. CASE Accepts(kind, served[Here])
  <2>1. served[Here] \in Row
    BY <1>1, PageAssumption DEF Accepts, ServedTypeOK
  <2>2. Written(kind, served[Here]) \in Row
    BY <2>1, WrittenIsRow
  <2>3. Write(Here, Written(kind, served[Here]))
    BY <1>1 DEF Serve
  <2> QED
    BY <2>1, <2>2, <2>3, WriteRow, WriteChange, PageAssumption
<1>2. CASE ~ Accepts(kind, served[Here])
  <2>1. ServedTypeOK' /\ RowsChange
    BY <1>2, SameChange DEF Serve
  <2> QED
    BY <1>2, <2>1, PageAssumption DEF ServedTypeOK
<1> QED
  BY <1>1, <1>2

LEMMA PageTypesDialog ==
  ASSUME PageTypes, RecordServed,
         OpenModal \/ CloseModal \/ handleStop \/ handleDecommission
  PROVE  PageTypes' /\ RowsChange
<1>1. UNCHANGED <<serverVars, loadState, loadCall, envData, form, status, edited, statusCalls, saving,
                  saveCall, acked, unread>>
  BY DEF OpenModal, CloseModal, handleStop, handleDecommission, keptByModal
<1>2. ServedTypeOK' /\ RowsChange
  BY <1>1, SameChange DEF PageTypes
<1>3. ever' \subseteq Row
  BY <1>2, PageAssumption DEF RecordServed, PageTypes, PageTypeOK, ServedTypeOK
<1>4. /\ modal' \in {NULL, "stop", "decommission"} /\ stopping' \in BOOLEAN
      /\ decommissioning' \in BOOLEAN /\ overlapped' \in BOOLEAN
  BY PageTypeFacts DEF OpenModal, CloseModal, handleStop, handleDecommission, PageTypes, PageTypeOK
<1>5. stopCall' \in {stopCall, Sent} /\ dcommCall' \in {dcommCall, Sent}
  BY DEF OpenModal, CloseModal, handleStop, handleDecommission
<1>6. {loadCall', stopCall', dcommCall'} \subseteq WriteCall \cup {NULL}
  BY <1>1, <1>5, PageTypeFacts, SentCalls
<1>7. AnswersBringRows'
  BY <1>1, <1>5, SentCalls, PageAssumption DEF PageTypes, AnswersBringRows
<1> QED
  BY <1>1, <1>2, <1>3, <1>4, <1>6, <1>7, PageTypeFacts DEF PageTypes, PageTypeOK, FormWithRow

LEMMA PageTypesServed ==
  ASSUME PageTypes, RecordServed, ServeStop \/ ServeDecommission
  PROVE  PageTypes' /\ RowsChange
<1>1. PICK kind \in {"stop", "decommission"}: Serve(kind)
  BY DEF ServeStop, ServeDecommission
<1>2. ServedTypeOK' /\ RowsChange
  BY <1>1, ServeTypes DEF PageTypes
<1>3. ever' \subseteq Row
  BY <1>2, PageAssumption DEF RecordServed, PageTypes, PageTypeOK, ServedTypeOK
<1>4. \A c \in WriteCall: \A b \in BOOLEAN: (b => served'[Here] \in Row) =>
        /\ AnswerTo(c, b) \in WriteCall
        /\ AnswerTo(c, b).answer = "ok" => AnswerTo(c, b).row \in Row
  <2>1. served'[Here] \in Row \cup {NULL}
    BY <1>2, PageAssumption DEF ServedTypeOK
  <2> QED
    BY <2>1 DEF AnswerTo, WriteCall, Answer
<1>5. UNCHANGED <<keptByServing, saveCall>>
  BY DEF ServeStop, ServeDecommission
<1>6. CASE ServeStop
  <2>1. /\ stopCall \in WriteCall /\ stopCall' = AnswerTo(stopCall, Accepts("stop", served[Here]))
        /\ UNCHANGED dcommCall
    BY <1>6, PageTypeFacts DEF ServeStop
  <2>2. Accepts("stop", served[Here]) \in BOOLEAN /\
          (Accepts("stop", served[Here]) => served'[Here] \in Row)
    BY <1>6, ServeTypes DEF ServeStop, PageTypes, Accepts
  <2>3. stopCall' \in WriteCall /\ (stopCall'.answer = "ok" => stopCall'.row \in Row)
    BY <1>4, <2>1, <2>2
  <2> QED
    BY <1>2, <1>3, <1>5, <2>1, <2>3
       DEF keptByServing, PageTypes, PageTypeOK, FormWithRow, AnswersBringRows
<1>7. CASE ServeDecommission
  <2>1. /\ dcommCall \in WriteCall
        /\ dcommCall' = AnswerTo(dcommCall, Accepts("decommission", served[Here]))
        /\ UNCHANGED stopCall
    BY <1>7, PageTypeFacts DEF ServeDecommission
  <2>2. Accepts("decommission", served[Here]) \in BOOLEAN /\
          (Accepts("decommission", served[Here]) => served'[Here] \in Row)
    BY <1>7, ServeTypes DEF ServeDecommission, PageTypes, Accepts
  <2>3. dcommCall' \in WriteCall /\ (dcommCall'.answer = "ok" => dcommCall'.row \in Row)
    BY <1>4, <2>1, <2>2
  <2> QED
    BY <1>2, <1>3, <1>5, <2>1, <2>3
       DEF keptByServing, PageTypes, PageTypeOK, FormWithRow, AnswersBringRows
<1> QED
  BY <1>6, <1>7

LEMMA PageTypesAnswered ==
  ASSUME PageTypes, RecordServed, ApplyStop \/ ApplyDecommission \/ StopEnds \/ DecommissionEnds
  PROVE  PageTypes' /\ RowsChange
<1>1. UNCHANGED keptByAnswer
  BY DEF ApplyStop, ApplyDecommission, StopEnds, DecommissionEnds
<1>2. ServedTypeOK' /\ RowsChange
  BY <1>1, SameChange DEF PageTypes, keptByAnswer
<1>3. ever' \subseteq Row
  BY <1>2, PageAssumption DEF RecordServed, PageTypes, PageTypeOK, ServedTypeOK
<1>4. statusCalls' \in [PollSlot \cup Awaited -> PagePoll \cup {NULL}]
  BY PageTypeFacts, SentCalls DEF ApplyStop, ApplyDecommission, StopEnds, DecommissionEnds
<1>5. /\ envData' \in Row \cup {NULL} /\ form' \in Form \cup {NULL} /\ edited' \subseteq Field
      /\ FormWithRow' /\ acked' \in 0 .. MaxWrites /\ unread' \in BOOLEAN
  <2>1. CASE ApplyStop
    <3>1. /\ stopCall.row \in Row /\ acked' = stopCall.row.v /\ unread' \in BOOLEAN
          /\ Show(stopCall.row) \/ UNCHANGED <<envData, form, edited>>
      BY <2>1 DEF ApplyStop, PageTypes, AnswersBringRows
    <3>2. acked' \in 0 .. MaxWrites
      BY <3>1, VersionsOfRows
    <3>3. CASE Show(stopCall.row)
      BY <3>1, <3>2, <3>3, ShowTypes
    <3>4. CASE UNCHANGED <<envData, form, edited>>
      BY <1>1, <3>1, <3>2, <3>4 DEF keptByAnswer, PageTypes, PageTypeOK, FormWithRow
    <3> QED
      BY <3>1, <3>3, <3>4
  <2>2. CASE UNCHANGED <<envData, form, edited, acked, unread>>
    BY <1>1, <2>2 DEF keptByAnswer, PageTypes, PageTypeOK, FormWithRow
  <2> QED
    BY <2>1, <2>2 DEF ApplyDecommission, StopEnds, DecommissionEnds
<1>6. /\ modal' \in {NULL, "stop", "decommission"} /\ stopping' \in BOOLEAN
      /\ decommissioning' \in BOOLEAN
  BY PageTypeFacts DEF ApplyStop, ApplyDecommission, StopEnds, DecommissionEnds, PageTypes, PageTypeOK
<1>7. stopCall' \in {stopCall, NULL} /\ dcommCall' \in {dcommCall, NULL}
  BY DEF ApplyStop, ApplyDecommission, StopEnds, DecommissionEnds
<1>8. {loadCall', stopCall', dcommCall'} \subseteq WriteCall \cup {NULL} /\ AnswersBringRows'
  BY <1>1, <1>7, PageTypeFacts DEF keptByAnswer, PageTypes, AnswersBringRows
<1> QED
  BY <1>1, <1>2, <1>3, <1>4, <1>5, <1>6, <1>8, PageTypeFacts DEF keptByAnswer, PageTypes, PageTypeOK

\* A save that is sent carries the form and remembers the row.
LEMMA SaveSent ==
  ASSUME PageTypes, handleSettingsSave
  PROVE  /\ envData \in Row /\ envData # NULL /\ form \in Form /\ envData' \in Row /\ envData' # NULL
         /\ envData'.v = envData.v
         /\ saveCall' \in SaveCall /\ saveCall' # NULL /\ saveCall'.answer = NULL
         /\ saveCall'.body = form /\ saveCall'.previous = envData /\ saveCall'.edited = edited
<1>1. envData \in Row /\ envData # NULL /\ form \in Form
  BY DEF handleSettingsSave, OnPage, PageTypes, PageTypeOK, FormWithRow
<1>2. envData' \in Row /\ envData'.v = envData.v
  <2>1. envData' = [envData EXCEPT !.replicas = form.replicas]
    BY DEF handleSettingsSave
  <2> QED
    BY <1>1, <2>1 DEF Row, Form
<1>3. saveCall' = [answer |-> NULL, row |-> NULL, body |-> form, previous |-> envData, edited |-> edited]
  BY DEF handleSettingsSave
<1>4. saveCall' \in SaveCall
  <2>1. edited \subseteq Field
    BY DEF PageTypes, PageTypeOK
  <2> QED
    BY <1>1, <1>3, <2>1 DEF SaveCall, Answer
<1> QED
  BY <1>1, <1>2, <1>3, <1>4, PageAssumption, ServedAssumption

LEMMA PageTypesForm ==
  ASSUME PageTypes, RecordServed,
         \/ \E f \in Field: EditForm(f)
         \/ handleSettingsReset \/ handleSettingsSave \/ ApplySave \/ SaveEnds
  PROVE  PageTypes' /\ RowsChange
<1>1. UNCHANGED keptByForm
  BY DEF EditForm, handleSettingsReset, handleSettingsSave, ApplySave, SaveEnds
<1>2. ServedTypeOK' /\ RowsChange
  BY <1>1, SameChange DEF PageTypes, keptByForm
<1>3. ever' \subseteq Row
  BY <1>2, PageAssumption DEF RecordServed, PageTypes, PageTypeOK, ServedTypeOK
<1>4. ASSUME envData' \in Row \cup {NULL}, form' \in Form \cup {NULL}, edited' \subseteq Field,
             saveCall' \in SaveCall \cup {NULL}, FormWithRow', acked' \in 0 .. MaxWrites,
             saving' \in BOOLEAN, unread' \in BOOLEAN, overlapped' \in BOOLEAN,
             saveCall' # NULL /\ saveCall'.answer = "ok" => saveCall'.row \in Row
      PROVE  PageTypes'
  BY <1>1, <1>2, <1>3, <1>4 DEF keptByForm, PageTypes, PageTypeOK, AnswersBringRows
<1>5. CASE \E f \in Field: EditForm(f)
  <2>1. PICK f \in Field: EditForm(f)
    BY <1>5
  <2>2. envData \in Row /\ form \in Form
    BY <2>1 DEF EditForm, OnPage, PageTypes, PageTypeOK, FormWithRow
  <2>3. PICK x: form' = [form EXCEPT ![f] = x] /\ x \in (IF f = "replicas" THEN {0, 1} ELSE {NULL, "later"})
    BY <2>1 DEF EditForm
  <2>4. form' \in Form
    <3>1. {NULL, "later"} \subseteq Date
      BY DEF Date
    <3>2. CASE f = "replicas"
      BY <2>2, <2>3, <3>2 DEF Form
    <3>3. CASE f = "stop_date"
      BY <2>2, <2>3, <3>1, <3>3 DEF Form
    <3>4. CASE f = "dcomm_date"
      BY <2>2, <2>3, <3>1, <3>4 DEF Form
    <3> QED
      BY <3>2, <3>3, <3>4 DEF Field
  <2>5. UNCHANGED <<envData, saving, saveCall, acked, unread, overlapped>> /\ edited' \subseteq Field
    BY <2>1 DEF EditForm, PageTypes, PageTypeOK
  <2>6. FormWithRow'
    BY <2>2, <2>4, <2>5, ServedAssumption, PageAssumption DEF FormWithRow
  <2> QED
    BY <1>2, <1>4, <2>2, <2>4, <2>5, <2>6, PageTypeFacts DEF PageTypes, PageTypeOK, AnswersBringRows
<1>6. CASE handleSettingsReset
  <2>1. envData \in Row /\ Show(envData)
    BY <1>6 DEF handleSettingsReset, OnPage, PageTypes, PageTypeOK
  <2>2. UNCHANGED <<saving, saveCall, acked, unread, overlapped>>
    BY <1>6 DEF handleSettingsReset
  <2> QED
    BY <1>2, <1>4, <2>1, <2>2, ShowTypes, PageTypeFacts DEF PageTypes, PageTypeOK, AnswersBringRows
<1>7. CASE handleSettingsSave
  <2>4. UNCHANGED <<form, edited, acked, unread>> /\ saving' = TRUE /\ overlapped' \in BOOLEAN
    BY <1>7, PageTypeFacts DEF handleSettingsSave
  <2>5. FormWithRow'
    BY <1>7, <2>4, SaveSent, PageAssumption DEF FormWithRow
  <2> QED
    BY <1>2, <1>4, <1>7, <2>4, <2>5, SaveSent, PageAssumption DEF PageTypes, PageTypeOK
<1>8. CASE ApplySave
  <2>1. saveCall.row \in Row /\ Show(saveCall.row) /\ acked' = saveCall.row.v
    BY <1>8 DEF ApplySave, PageTypes, AnswersBringRows
  <2>2. saving' = FALSE /\ saveCall' = NULL /\ unread' = FALSE /\ UNCHANGED overlapped
    BY <1>8 DEF ApplySave
  <2> QED
    BY <1>2, <1>4, <2>1, <2>2, ShowTypes, VersionsOfRows, PageTypeFacts
<1>9. CASE SaveEnds
  <2>1. envData' \in Row /\ saving' = FALSE /\ saveCall' = NULL
        /\ UNCHANGED <<form, edited, acked, unread, overlapped>>
    BY <1>9, PageTypeFacts DEF SaveEnds, SaveCall
  <2>2. form # NULL
    BY <1>9 DEF SaveEnds, PageTypes, FormWithRow
  <2>3. FormWithRow'
    BY <2>1, <2>2, ServedAssumption DEF FormWithRow
  <2> QED
    BY <1>2, <1>4, <2>1, <2>3, PageTypeFacts DEF PageTypes, PageTypeOK
<1> QED
  BY <1>2, <1>5, <1>6, <1>7, <1>8, <1>9

\* What PATCH does to the row of the page and to the call.
LEMMA SaveServed ==
  ASSUME PageTypes, ServeSave
  PROVE  /\ ServedTypeOK' /\ RowsChange
         /\ served[Here] # NULL =>
              /\ served[Here] \in Row /\ served'[Here] \in Row /\ served'[Here] # NULL
              /\ served'[Here].replicas = saveCall.body.replicas
              /\ served'[Here].stop_date \in DayAsDate(saveCall.body.stop_date)
              /\ served'[Here].dcomm_date \in DayAsDate(saveCall.body.dcomm_date)
         /\ saveCall \in SaveCall /\ saveCall # NULL /\ saveCall' \in SaveCall /\ saveCall' # NULL
         /\ saveCall'.answer = (IF served[Here] # NULL THEN "ok" ELSE "refused")
         /\ saveCall'.row = served'[Here] /\ saveCall'.body = saveCall.body
         /\ saveCall'.previous = saveCall.previous /\ saveCall'.edited = saveCall.edited
<1>1. saveCall # NULL /\ saveCall \in SaveCall /\ served[Here] \in Row \cup {NULL}
  BY PageTypeFacts DEF ServeSave
<1>2. /\ ServedTypeOK' /\ RowsChange
      /\ served[Here] # NULL =>
           /\ served'[Here] \in Row /\ served'[Here] # NULL
           /\ served'[Here].replicas = saveCall.body.replicas
           /\ served'[Here].stop_date \in DayAsDate(saveCall.body.stop_date)
           /\ served'[Here].dcomm_date \in DayAsDate(saveCall.body.dcomm_date)
  <2>1. CASE served[Here] = NULL
    BY <2>1, SameChange DEF ServeSave, PageTypes
  <2>2. CASE served[Here] # NULL
    <3>0. PICK stop \in DayAsDate(saveCall.body.stop_date),
               dcomm \in DayAsDate(saveCall.body.dcomm_date):
            Write(Here, [served[Here] EXCEPT !.replicas = saveCall.body.replicas,
                                             !.stop_date = stop, !.dcomm_date = dcomm])
      BY <2>2 DEF ServeSave
    <3>1. saveCall.body.replicas \in {0, 1} /\ stop \in Date /\ dcomm \in Date
      BY <1>1 DEF SaveCall, Form, DayAsDate, Date
    <3> DEFINE r == [served[Here] EXCEPT !.replicas = saveCall.body.replicas,
                                         !.stop_date = stop, !.dcomm_date = dcomm]
    <3>2. r \in Row
      BY <1>1, <2>2, <3>1 DEF Row
    <3>3. r.replicas = saveCall.body.replicas /\ r.stop_date = stop /\ r.dcomm_date = dcomm
      BY <1>1, <2>2 DEF Row
    <3>4. Write(Here, r)
      BY <3>0
    <3> HIDE DEF r
    <3>5. /\ served'[Here] \in Row /\ served'[Here] # NULL
          /\ \A f \in {"deploy_status", "replicas", "stop_date", "dcomm_date"}: served'[Here][f] = r[f]
      BY <3>2, <3>4, WriteRow, PageAssumption DEF PageTypes
    <3>6. ServedTypeOK' /\ RowsChange
      BY <3>2, <3>4, WriteChange, PageAssumption DEF PageTypes
    <3> QED
      BY <3>3, <3>5, <3>6
  <2> QED
    BY <2>1, <2>2
<1>3. served'[Here] \in Row \cup {NULL}
  BY <1>2, PageAssumption DEF ServedTypeOK
<1>4. saveCall' = [saveCall EXCEPT !.answer = IF served[Here] # NULL THEN "ok" ELSE "refused",
                                   !.row = served'[Here]]
  BY DEF ServeSave, AnswerTo
<1>5. saveCall' \in SaveCall
  BY <1>1, <1>3, <1>4 DEF SaveCall, Answer
<1>6. /\ saveCall'.answer = (IF served[Here] # NULL THEN "ok" ELSE "refused")
      /\ saveCall'.row = served'[Here] /\ saveCall'.body = saveCall.body
      /\ saveCall'.previous = saveCall.previous /\ saveCall'.edited = saveCall.edited
  BY <1>1, <1>4 DEF SaveCall
<1> QED
  BY <1>1, <1>2, <1>5, <1>6, PageAssumption

LEMMA PageTypesSaved ==
  ASSUME PageTypes, RecordServed, ServeSave
  PROVE  PageTypes' /\ RowsChange
<1>1. ever' \subseteq Row
  BY SaveServed, PageAssumption DEF RecordServed, PageTypes, PageTypeOK, ServedTypeOK
<1>2. saveCall' \in SaveCall /\ (saveCall'.answer = "ok" => saveCall'.row \in Row)
  BY SaveServed, PageAssumption
<1>3. UNCHANGED <<keptByServing, stopCall, dcommCall>>
  BY DEF ServeSave
<1> QED
  BY <1>1, <1>2, <1>3, SaveServed
     DEF keptByServing, PageTypes, PageTypeOK, FormWithRow, AnswersBringRows

LEMMA PageTypesStep ==
  ASSUME PageTypes, PageNext, RecordServed
  PROVE  PageTypes' /\ RowsChange
<1>1. CASE OthersOnPage
  <2>1. ServedTypeOK' /\ RowsChange
    BY <1>1, OthersChange, PageAssumption DEF OthersOnPage, PageTypes
  <2>2. ever' \subseteq Row
    BY <2>1, PageAssumption DEF RecordServed, PageTypes, PageTypeOK, ServedTypeOK
  <2> QED
    BY <1>1, <2>1, <2>2
       DEF OthersOnPage, keptByServing, PageTypes, PageTypeOK, FormWithRow, AnswersBringRows
<1> QED
  BY <1>1, PageTypesLoading, PageTypesPolls, PageTypesDialog, PageTypesServed, PageTypesAnswered,
     PageTypesForm, PageTypesSaved DEF PageNext

---------------------------------------------------------------------------
(***************************************************************************)
(* The page: its own writes                                                *)
(***************************************************************************)

\* Until the first load has ended nothing else is under way.
LoadPhase ==
  loadCall # NULL =>
    /\ loadState # "ready" /\ envData = NULL /\ acked = 0
    /\ modal = NULL /\ stopCall = NULL /\ dcommCall = NULL /\ saveCall = NULL
    /\ \A c \in PollSlot \cup Awaited: statusCalls[c] = NULL

SavingInFlight == saving <=> saveCall # NULL

\* A stop and a save that are in flight together are remembered; otherwise, and unless
\* the row of a stop could not be read, the row to which a failed save returns is as
\* new as the one on the screen.
OverlapRemembered ==
  /\ saveCall # NULL /\ stopCall # NULL => overlapped
  /\ saveCall # NULL /\ ~ overlapped /\ ~ unread => saveCall.previous.v >= acked

OwnWritesInv == LoadPhase /\ SavingInFlight /\ OverlapRemembered /\ PageKnowsOwnWrites

LEMMA OwnWritesInit ==
  ASSUME PageInit
  PROVE  OwnWritesInv
BY DEF PageInit, OwnWritesInv, LoadPhase, SavingInFlight, OverlapRemembered, PageKnowsOwnWrites,
       ReportedWritesAreShown

LEMMA LoadPhaseStep ==
  ASSUME PageTypes, LoadPhase, PageNext
  PROVE  LoadPhase'
<1> SUFFICES ASSUME loadCall' # NULL
             PROVE  LoadPhase'
  BY DEF LoadPhase
<1>1. CASE ServeDetail
  BY <1>1 DEF ServeDetail, LoadPhase
<1>2. CASE OthersOnPage \/ CloseModal
  BY <1>2 DEF OthersOnPage, keptByServing, CloseModal, keptByModal, LoadPhase
<1>3. CASE loadEnvData \/ DetailFails
  BY <1>3 DEF loadEnvData, DetailFails
<1>4. CASE \/ \E s \in PollSlot: fetchStatus(s)
           \/ \E c \in PollSlot \cup Awaited: ServePoll(c) \/ ApplyPagePoll(c) \/ PollFails(c)
  BY <1>4 DEF fetchStatus, ServePoll, ApplyPagePoll, PollFails, keptByPoll, LoadPhase
<1>5. CASE OpenModal \/ handleStop \/ handleDecommission
  BY <1>5, PageAssumption DEF OpenModal, OnPage, handleStop, handleDecommission, keptByModal, LoadPhase
<1>6. CASE ServeStop \/ ServeDecommission \/ ServeSave
  BY <1>6 DEF ServeStop, ServeDecommission, ServeSave, keptByServing, LoadPhase
<1>7. CASE ApplyStop \/ ApplyDecommission \/ StopEnds \/ DecommissionEnds
  BY <1>7 DEF ApplyStop, ApplyDecommission, StopEnds, DecommissionEnds, keptByAnswer, LoadPhase
<1>8. CASE \/ \E f \in Field: EditForm(f)
           \/ handleSettingsReset \/ handleSettingsSave \/ ApplySave \/ SaveEnds
  BY <1>8 DEF EditForm, handleSettingsReset, handleSettingsSave, ApplySave, SaveEnds, OnPage, keptByForm,
              LoadPhase
<1> QED
  BY <1>1, <1>2, <1>3, <1>4, <1>5, <1>6, <1>7, <1>8 DEF PageNext

LEMMA SavingStep ==
  ASSUME PageTypes, SavingInFlight, PageNext
  PROVE  SavingInFlight'
<1>1. CASE handleSettingsSave \/ ServeSave
  <2>1. saveCall' # NULL /\ saving'
    BY <1>1, SaveSent, SaveServed DEF handleSettingsSave, ServeSave, keptByServing, SavingInFlight
  <2> QED
    BY <2>1 DEF SavingInFlight
<1>2. CASE ApplySave \/ SaveEnds
  BY <1>2 DEF ApplySave, SaveEnds, SavingInFlight
<1>3. CASE UNCHANGED <<saving, saveCall>>
  BY <1>3 DEF SavingInFlight
<1>4. CASE \/ ServeDetail \/ loadEnvData \/ DetailFails
           \/ \E s \in PollSlot: fetchStatus(s)
           \/ \E c \in PollSlot \cup Awaited: ServePoll(c) \/ ApplyPagePoll(c) \/ PollFails(c)
  BY <1>3, <1>4 DEF ServeDetail, loadEnvData, DetailFails, keptByLoading, fetchStatus, ServePoll,
                    ApplyPagePoll, PollFails, keptByPoll
<1>5. CASE \/ OpenModal \/ CloseModal \/ handleStop \/ handleDecommission
           \/ ServeStop \/ ServeDecommission
           \/ ApplyStop \/ ApplyDecommission \/ StopEnds \/ DecommissionEnds \/ OthersOnPage
  BY <1>3, <1>5 DEF OpenModal, CloseModal, handleStop, handleDecommission, keptByModal, ServeStop,
                    ServeDecommission, keptByServing, ApplyStop, ApplyDecommission, StopEnds,
                    DecommissionEnds, keptByAnswer, OthersOnPage
<1>6. CASE (\E f \in Field: EditForm(f)) \/ handleSettingsReset
  BY <1>3, <1>6 DEF EditForm, handleSettingsReset
<1> QED
  BY <1>1, <1>2, <1>4, <1>5, <1>6 DEF PageNext

\* What a step of the page leaves alone keeps the relation of the two.
LEMMA OwnWritesKept ==
  ASSUME OwnWritesInv, UNCHANGED <<saveCall, stopCall, overlapped, acked, unread>>,
         \/ UNCHANGED <<envData, form>>
         \/ envData' # NULL => envData'.v >= acked /\ form'.v >= acked
  PROVE  OverlapRemembered' /\ PageKnowsOwnWrites'
BY DEF OwnWritesInv, OverlapRemembered, PageKnowsOwnWrites, ReportedWritesAreShown

LEMMA OwnWritesStep ==
  ASSUME PageTypes, OwnWritesInv, PageNext
  PROVE  OwnWritesInv'
<1>1. LoadPhase' /\ SavingInFlight'
  BY LoadPhaseStep, SavingStep DEF OwnWritesInv
<1>2. acked \in Nat
  BY ServedAssumption DEF PageTypes, PageTypeOK
<1> SUFFICES OverlapRemembered' /\ PageKnowsOwnWrites'
  BY <1>1 DEF OwnWritesInv
<1>3. CASE ServeDetail \/ DetailFails
  <2>1. UNCHANGED <<saveCall, stopCall, overlapped, acked, unread, envData, form>>
    BY <1>3 DEF ServeDetail, DetailFails, keptByLoading
  <2> QED
    BY <2>1, OwnWritesKept
<1>4. CASE loadEnvData
  <2>1. acked = 0 /\ UNCHANGED <<saveCall, stopCall, overlapped, acked, unread>>
    BY <1>4 DEF loadEnvData, keptByLoading, OwnWritesInv, LoadPhase
  <2>2. CASE loadCall.answer = "ok"
    <3>1. loadCall.row \in Row /\ Show(loadCall.row)
      BY <1>4, <2>2 DEF loadEnvData, PageTypes, AnswersBringRows
    <3>2. envData' = loadCall.row /\ form'.v = loadCall.row.v /\ loadCall.row.v \in Nat
      BY <3>1, FormOfRow, VersionsOfRows DEF Show
    <3> QED
      BY <2>1, <3>2, OwnWritesKept
  <2>3. CASE loadCall.answer # "ok"
    BY <1>4, <2>1, <2>3, OwnWritesKept DEF loadEnvData
  <2> QED
    BY <2>2, <2>3
<1>5. CASE \/ \E s \in PollSlot: fetchStatus(s)
           \/ \E c \in PollSlot \cup Awaited: ServePoll(c) \/ ApplyPagePoll(c) \/ PollFails(c)
  <2>1. UNCHANGED <<saveCall, stopCall, overlapped, acked, unread, envData, form>>
    BY <1>5 DEF fetchStatus, ServePoll, ApplyPagePoll, PollFails, keptByPoll
  <2> QED
    BY <2>1, OwnWritesKept
<1>6. CASE OpenModal \/ CloseModal \/ handleDecommission
  <2>1. UNCHANGED <<saveCall, stopCall, overlapped, acked, unread, envData, form>>
    BY <1>6 DEF OpenModal, CloseModal, handleDecommission, keptByModal
  <2> QED
    BY <2>1, OwnWritesKept
<1>7. CASE handleStop
  <2>1. UNCHANGED <<saveCall, acked, unread, envData, form>> /\ overlapped' = (overlapped \/ saveCall # NULL)
    BY <1>7 DEF handleStop, keptByModal
  <2> QED
    BY <2>1 DEF OwnWritesInv, OverlapRemembered, PageKnowsOwnWrites, ReportedWritesAreShown
<1>8. CASE ServeStop
  <2>1. UNCHANGED <<saveCall, overlapped, acked, unread, envData, form>> /\ stopCall # NULL
    BY <1>8 DEF ServeStop, keptByServing
  <2> QED
    BY <2>1 DEF OwnWritesInv, OverlapRemembered, PageKnowsOwnWrites, ReportedWritesAreShown
<1>9. CASE ServeDecommission \/ OthersOnPage
  <2>1. UNCHANGED <<saveCall, stopCall, overlapped, acked, unread, envData, form>>
    BY <1>9 DEF ServeDecommission, OthersOnPage, keptByServing
  <2> QED
    BY <2>1, OwnWritesKept
<1>10. CASE ApplyStop
  <2>1. /\ stopCall' = NULL /\ UNCHANGED <<saveCall, overlapped>> /\ (saveCall # NULL => overlapped)
        /\ ~ unread' => /\ stopCall.row \in Row /\ acked' = stopCall.row.v
                        /\ envData' = stopCall.row /\ form' = envToFormState(stopCall.row)
    BY <1>10 DEF ApplyStop, Show, keptByAnswer, PageTypes, AnswersBringRows, OwnWritesInv, OverlapRemembered
  <2>2. CASE unread'
    BY <2>1, <2>2 DEF OverlapRemembered, PageKnowsOwnWrites
  <2>3. CASE ~ unread'
    <3>1. form'.v = stopCall.row.v /\ stopCall.row.v \in Nat
      BY <2>1, <2>3, FormOfRow, VersionsOfRows
    <3> QED
      BY <2>1, <2>3, <3>1 DEF OverlapRemembered, PageKnowsOwnWrites, ReportedWritesAreShown
  <2> QED
    BY <2>2, <2>3
<1>11. CASE StopEnds \/ ApplyDecommission \/ DecommissionEnds
  <2>1. UNCHANGED <<saveCall, overlapped, acked, unread, envData, form>> /\ stopCall' \in {stopCall, NULL}
    BY <1>11 DEF StopEnds, ApplyDecommission, DecommissionEnds, keptByAnswer
  <2> QED
    BY <2>1 DEF OwnWritesInv, OverlapRemembered, PageKnowsOwnWrites, ReportedWritesAreShown
<1>12. CASE \E f \in Field: EditForm(f)
  <2>1. UNCHANGED <<saveCall, stopCall, overlapped, acked, unread, envData>>
    BY <1>12 DEF EditForm, keptByForm
  <2>2. form'.v = form.v
    <3>1. form \in Form
      BY <1>12 DEF EditForm, OnPage, PageTypes, PageTypeOK, FormWithRow
    <3>2. \E f \in Field: \E x: form' = [form EXCEPT ![f] = x]
      BY <1>12 DEF EditForm
    <3> QED
      BY <3>1, <3>2 DEF Form, Field
  <2> QED
    BY <2>1, <2>2 DEF OwnWritesInv, OverlapRemembered, PageKnowsOwnWrites, ReportedWritesAreShown
<1>13. CASE handleSettingsReset
  <2>1. /\ envData \in Row /\ envData # NULL /\ envData' = envData /\ form' = envToFormState(envData)
        /\ UNCHANGED <<saveCall, stopCall, overlapped, acked, unread>>
    BY <1>13 DEF handleSettingsReset, OnPage, Show, keptByForm, PageTypes, PageTypeOK
  <2>2. form'.v = envData.v
    BY <2>1, FormOfRow
  <2> QED
    BY <2>1, <2>2 DEF OwnWritesInv, OverlapRemembered, PageKnowsOwnWrites, ReportedWritesAreShown
<1>14. CASE handleSettingsSave
  <2>1. /\ envData # NULL /\ envData'.v = envData.v /\ saveCall'.previous = envData
        /\ UNCHANGED <<form, acked, unread, stopCall>> /\ overlapped' = (overlapped \/ stopCall # NULL)
    BY <1>14, SaveSent DEF handleSettingsSave, keptByForm
  <2> QED
    BY <2>1 DEF OwnWritesInv, OverlapRemembered, PageKnowsOwnWrites, ReportedWritesAreShown
<1>15. CASE ServeSave
  <2>1. /\ saveCall # NULL /\ saveCall'.previous = saveCall.previous
        /\ UNCHANGED <<stopCall, overlapped, acked, unread, envData, form>>
    BY <1>15, SaveServed DEF ServeSave, keptByServing
  <2> QED
    BY <2>1 DEF OwnWritesInv, OverlapRemembered, PageKnowsOwnWrites, ReportedWritesAreShown
<1>16. CASE ApplySave
  <2>1. /\ saveCall.row \in Row /\ envData' = saveCall.row /\ form' = envToFormState(saveCall.row)
        /\ acked' = saveCall.row.v /\ saveCall' = NULL
    BY <1>16 DEF ApplySave, Show, PageTypes, AnswersBringRows
  <2>2. form'.v = saveCall.row.v /\ saveCall.row.v \in Nat
    BY <2>1, FormOfRow, VersionsOfRows
  <2> QED
    BY <2>1, <2>2 DEF OverlapRemembered, PageKnowsOwnWrites, ReportedWritesAreShown
<1>17. CASE SaveEnds
  <2>1. /\ saveCall # NULL /\ envData' = saveCall.previous /\ saveCall' = NULL
        /\ UNCHANGED <<form, acked, unread, overlapped>>
    BY <1>17 DEF SaveEnds
  <2>2. envData # NULL
    BY <2>1 DEF PageTypes, FormWithRow
  <2> QED
    BY <2>1, <2>2 DEF OwnWritesInv, OverlapRemembered, PageKnowsOwnWrites, ReportedWritesAreShown
<1> QED
  BY <1>3, <1>4, <1>5, <1>6, <1>7, <1>8, <1>9, <1>10, <1>11, <1>12, <1>13, <1>14, <1>15, <1>16, <1>17
     DEF PageNext

---------------------------------------------------------------------------
(***************************************************************************)
(* The page: the rows it has seen                                          *)
(***************************************************************************)

\* Form f, with the fields of E edited, was made from a row that the server had.
MadeFrom(f, E) == \E r \in ever: r.v = f.v /\ \A x \in Field \ E: f[x] = r[x]

\* While the page is open, every row of the server is recorded, no two under one version.
RecordInv ==
  /\ served[Here] # NULL => served[Here] \in ever
  /\ \A r \in ever: r.v <= writes
  /\ \A r, q \in ever: r.v = q.v => r = q

\* What an accepted call brings was recorded, and so was the row a failed save returns to.
CarriedInv ==
  /\ loadCall # NULL /\ loadCall.answer = "ok" => loadCall.row \in ever
  /\ stopCall # NULL /\ stopCall.answer = "ok" => stopCall.row \in ever
  /\ saveCall # NULL =>
       /\ saveCall.previous \in ever /\ MadeFrom(saveCall.body, saveCall.edited)
       /\ saveCall.answer = "ok" => saveCall.row \in ever

ShownInv == NoPhantomSettings /\ (form # NULL => MadeFrom(form, edited))

SeenInv == RecordInv /\ CarriedInv /\ ShownInv

LEMMA SeenInvInit ==
  ASSUME ServedInit, PageInit
  PROVE  SeenInv
<1>1. served[Here] # NULL => served[Here].v = 1 /\ writes = 1
  BY PageAssumption DEF ServedInit, Created
<1>2. ever = IF served[Here] = NULL THEN {} ELSE {served[Here]}
  BY DEF PageInit
<1>3. RecordInv
  BY <1>1, <1>2 DEF RecordInv
<1>4. CarriedInv /\ ShownInv
  BY PageAssumption DEF PageInit, Sent, CarriedInv, ShownInv, NoPhantomSettings
<1> QED
  BY <1>3, <1>4 DEF SeenInv

\* A written row is newer than every row recorded before it.
LEMMA RecordStep ==
  ASSUME PageTypes, PageTypes', RowsChange, RecordInv, RecordServed
  PROVE  RecordInv' /\ ever \subseteq ever'
<1>1. ever' = ever \cup ({served'[Here]} \ {NULL}) /\ ever \subseteq Row /\ writes \in Nat /\ writes' \in Nat
  BY ServedAssumption DEF RecordServed, PageTypes, PageTypeOK, ServedTypeOK
<1>2. \/ served'[Here] \in ever \cup {NULL}
      \/ served'[Here] \in Row /\ served'[Here].v = writes + 1 /\ writes' = writes + 1
  BY PageAssumption DEF RowsChange, RecordInv
<1>3. writes' >= writes /\ \A r \in ever: r.v \in Nat /\ r.v <= writes /\ r.v <= writes'
  BY <1>1, VersionsOfRows DEF RowsChange, RecordInv
<1>4. served'[Here] # NULL => served'[Here] \in ever'
  BY <1>1
<1>5. \A r \in ever': r.v <= writes'
  BY <1>1, <1>2, <1>3
<1>6. \A r, q \in ever': r.v = q.v => r = q
  BY <1>1, <1>2, <1>3 DEF RecordInv
<1> QED
  BY <1>1, <1>4, <1>5, <1>6 DEF RecordInv

\* The form of a row that was recorded.
LEMMA ShownRecorded ==
  ASSUME NEW r \in Row, r \in ever, ever \subseteq ever', Show(r)
  PROVE  ShownInv'
<1>1. envData' = r /\ form' = envToFormState(r) /\ edited' = {}
  BY DEF Show
<1>2. MadeFrom(form, edited)'
  BY <1>1, FormOfRow DEF MadeFrom
<1> QED
  BY <1>1, <1>2 DEF ShownInv, NoPhantomSettings

LEMMA MadeFromKept ==
  ASSUME ever \subseteq ever', NEW f, NEW E, MadeFrom(f, E)
  PROVE  \E r \in ever': r.v = f.v /\ \A x \in Field \ E: f[x] = r[x]
BY DEF MadeFrom

LEMMA CarriedKept ==
  ASSUME CarriedInv, ever \subseteq ever', loadCall' \in {loadCall, NULL},
         stopCall' \in {stopCall, NULL}, saveCall' \in {saveCall, NULL}
  PROVE  CarriedInv'
<1>1. saveCall' # NULL => MadeFrom(saveCall.body, saveCall.edited)'
  BY MadeFromKept DEF CarriedInv, MadeFrom
<1> QED
  BY <1>1 DEF CarriedInv

LEMMA ShownKept ==
  ASSUME ShownInv, ever \subseteq ever', UNCHANGED <<envData, form, edited, saving>>
  PROVE  ShownInv'
<1>1. form' # NULL => MadeFrom(form, edited)'
  BY MadeFromKept DEF ShownInv, MadeFrom
<1> QED
  BY <1>1 DEF ShownInv, NoPhantomSettings

LEMMA SeenInvStep ==
  ASSUME PageTypes, OwnWritesInv, SeenInv, PageNext, RecordServed
  PROVE  SeenInv'
<1>1. PageTypes' /\ RowsChange
  BY PageTypesStep
<1>2. RecordInv' /\ ever \subseteq ever'
  BY <1>1, RecordStep DEF SeenInv
<1>3. CarriedInv /\ ShownInv
  BY DEF SeenInv
<1> SUFFICES CarriedInv' /\ ShownInv'
  BY <1>2 DEF SeenInv
<1>4. CASE ServeDetail
  <2>1. UNCHANGED <<stopCall, saveCall, envData, form, edited, saving, serverVars>>
    BY <1>4 DEF ServeDetail
  <2>2. loadCall'.answer = "ok" => loadCall'.row \in ever'
    BY <1>2, <1>4, <2>1 DEF ServeDetail, serverVars, RecordInv
  <2>3. saveCall' # NULL => MadeFrom(saveCall.body, saveCall.edited)'
    BY <1>2, <1>3, <2>1, MadeFromKept DEF CarriedInv, MadeFrom
  <2>4. CarriedInv'
    BY <1>2, <1>3, <2>1, <2>2, <2>3 DEF CarriedInv
  <2> QED
    BY <1>2, <1>3, <2>1, <2>4, ShownKept
<1>5. CASE loadEnvData \/ DetailFails
  <2>1. loadCall' = NULL /\ UNCHANGED <<stopCall, saveCall, saving>>
    BY <1>5 DEF loadEnvData, DetailFails, keptByLoading
  <2>2. CASE loadEnvData /\ loadCall.answer = "ok"
    <3>1. loadCall.row \in Row /\ loadCall.row \in ever /\ Show(loadCall.row)
      BY <1>3, <2>2 DEF loadEnvData, PageTypes, AnswersBringRows, CarriedInv
    <3> QED
      BY <1>2, <1>3, <2>1, <3>1, ShownRecorded, CarriedKept
  <2>3. CASE UNCHANGED <<envData, form, edited>>
    BY <1>2, <1>3, <2>1, <2>3, ShownKept, CarriedKept
  <2> QED
    BY <1>5, <2>2, <2>3 DEF loadEnvData, DetailFails
<1>6. CASE \/ \E s \in PollSlot: fetchStatus(s)
           \/ \E c \in PollSlot \cup Awaited: ServePoll(c) \/ ApplyPagePoll(c) \/ PollFails(c)
  <2>1. UNCHANGED <<loadCall, stopCall, saveCall, envData, form, edited, saving>>
    BY <1>6 DEF fetchStatus, ServePoll, ApplyPagePoll, PollFails, keptByPoll
  <2> QED
    BY <1>2, <1>3, <2>1, ShownKept, CarriedKept
<1>7. CASE \/ OpenModal \/ CloseModal \/ handleDecommission \/ ServeDecommission \/ OthersOnPage
           \/ StopEnds \/ ApplyDecommission \/ DecommissionEnds
  <2>1. /\ UNCHANGED <<loadCall, saveCall, envData, form, edited, saving>>
        /\ stopCall' \in {stopCall, NULL}
    BY <1>7 DEF OpenModal, CloseModal, handleDecommission, keptByModal, ServeDecommission, OthersOnPage,
                keptByServing, StopEnds, ApplyDecommission, DecommissionEnds, keptByAnswer
  <2> QED
    BY <1>2, <1>3, <2>1, ShownKept, CarriedKept
<1>8. CASE handleStop \/ ServeStop
  <2>1. UNCHANGED <<loadCall, saveCall, envData, form, edited, saving>>
    BY <1>8 DEF handleStop, keptByModal, ServeStop, keptByServing
  <2>2. stopCall'.answer = "ok" => stopCall'.row \in ever'
    <3>1. CASE handleStop
      BY <3>1, SentCalls, PageAssumption DEF handleStop
    <3>2. CASE ServeStop
      <4>1. /\ stopCall \in WriteCall
            /\ stopCall' = AnswerTo(stopCall, Accepts("stop", served[Here])) /\ Serve("stop")
        BY <3>2, PageTypeFacts DEF ServeStop
      <4>2. stopCall'.row = served'[Here]
        BY <4>1 DEF AnswerTo, WriteCall
      <4>3. stopCall'.answer = "ok" => Accepts("stop", served[Here])
        BY <4>1 DEF AnswerTo, WriteCall
      <4>4. Accepts("stop", served[Here]) => served'[Here] # NULL
        BY <4>1, ServeTypes DEF PageTypes
      <4> QED
        BY <1>2, <4>2, <4>3, <4>4 DEF RecordInv
    <3> QED
      BY <1>8, <3>1, <3>2
  <2>3. saveCall' # NULL => MadeFrom(saveCall.body, saveCall.edited)'
    BY <1>2, <1>3, <2>1, MadeFromKept DEF CarriedInv, MadeFrom
  <2>4. CarriedInv'
    BY <1>2, <1>3, <2>1, <2>2, <2>3 DEF CarriedInv
  <2> QED
    BY <1>2, <1>3, <2>1, <2>4, ShownKept
<1>9. CASE ApplyStop
  <2>1. stopCall' = NULL /\ UNCHANGED <<loadCall, saveCall, saving>>
    BY <1>9 DEF ApplyStop, keptByAnswer
  <2>2. CASE Show(stopCall.row)
    <3>1. stopCall.row \in Row /\ stopCall.row \in ever
      BY <1>3, <1>9 DEF ApplyStop, PageTypes, AnswersBringRows, CarriedInv
    <3> QED
      BY <1>2, <1>3, <2>1, <2>2, <3>1, ShownRecorded, CarriedKept
  <2>3. CASE UNCHANGED <<envData, form, edited>>
    BY <1>2, <1>3, <2>1, <2>3, ShownKept, CarriedKept
  <2> QED
    BY <1>9, <2>2, <2>3 DEF ApplyStop
<1>10. CASE \E f \in Field: EditForm(f)
  <2>1. PICK f \in Field: EditForm(f)
    BY <1>10
  <2>2. UNCHANGED <<loadCall, stopCall, saveCall, envData, saving>> /\ edited' = edited \cup {f}
    BY <2>1 DEF EditForm, keptByForm
  <2>3. form \in Form /\ form # NULL /\ \E x: form' = [form EXCEPT ![f] = x]
    BY <2>1 DEF EditForm, OnPage, PageTypes, PageTypeOK, FormWithRow
  <2>4. form'.v = form.v /\ \A x \in Field \ {f}: form'[x] = form[x]
    BY <2>3 DEF Form, Field
  <2>5. MadeFrom(form, edited)'
    <3>1. PICK r \in ever: r.v = form.v /\ \A x \in Field \ edited: form[x] = r[x]
      BY <1>3, <2>3 DEF ShownInv, MadeFrom
    <3> QED
      BY <1>2, <2>2, <2>4, <3>1 DEF MadeFrom
  <2> QED
    BY <1>2, <1>3, <2>2, <2>5, CarriedKept DEF ShownInv, NoPhantomSettings
<1>11. CASE handleSettingsReset
  <2>1. /\ envData \in Row /\ envData \in ever /\ Show(envData)
        /\ UNCHANGED <<loadCall, stopCall, saveCall, saving>>
    BY <1>3, <1>11
       DEF handleSettingsReset, OnPage, keptByForm, PageTypes, PageTypeOK, ShownInv, NoPhantomSettings
  <2> QED
    BY <1>2, <1>3, <2>1, ShownRecorded, CarriedKept
<1>12. CASE handleSettingsSave
  <2>1. /\ envData \in ever /\ form # NULL /\ saving' = TRUE
        /\ UNCHANGED <<loadCall, stopCall, form, edited>>
    BY <1>3, <1>12, SaveSent
       DEF handleSettingsSave, OnPage, keptByForm, PageTypes, FormWithRow, ShownInv, NoPhantomSettings
  <2>2. /\ saveCall'.body = form /\ saveCall'.edited = edited /\ saveCall'.previous = envData
        /\ saveCall'.answer = NULL
    BY <1>12, SaveSent
  <2>3. MadeFrom(form, edited)' /\ MadeFrom(saveCall.body, saveCall.edited)'
    BY <1>2, <1>3, <2>1, <2>2, MadeFromKept DEF ShownInv, MadeFrom
  <2>4. CarriedInv'
    BY <1>2, <1>3, <2>1, <2>2, <2>3, PageAssumption DEF CarriedInv
  <2> QED
    BY <2>1, <2>3, <2>4 DEF ShownInv, NoPhantomSettings
<1>13. CASE ServeSave
  <2>1. UNCHANGED <<loadCall, stopCall, envData, form, edited, saving>> /\ saveCall # NULL
    BY <1>13 DEF ServeSave, keptByServing
  <2>2. /\ saveCall'.body = saveCall.body /\ saveCall'.edited = saveCall.edited
        /\ saveCall'.previous = saveCall.previous
        /\ saveCall'.answer = "ok" => saveCall'.row = served'[Here] /\ served'[Here] # NULL
    BY <1>13, SaveServed, PageAssumption
  <2>3. MadeFrom(saveCall.body, saveCall.edited)'
    BY <1>2, <1>3, <2>1, <2>2, MadeFromKept DEF CarriedInv, MadeFrom
  <2>4. CarriedInv'
    BY <1>2, <1>3, <2>1, <2>2, <2>3 DEF CarriedInv, RecordInv
  <2> QED
    BY <1>2, <1>3, <2>1, <2>4, ShownKept
<1>14. CASE ApplySave
  <2>1. saveCall' = NULL /\ UNCHANGED <<loadCall, stopCall>>
    BY <1>14 DEF ApplySave, keptByForm
  <2>2. saveCall.row \in Row /\ saveCall.row \in ever /\ Show(saveCall.row)
    BY <1>3, <1>14 DEF ApplySave, PageTypes, AnswersBringRows, CarriedInv
  <2> QED
    BY <1>2, <1>3, <2>1, <2>2, ShownRecorded, CarriedKept
<1>15. CASE SaveEnds
  <2>1. /\ saveCall # NULL /\ saveCall' = NULL /\ envData' = saveCall.previous
        /\ UNCHANGED <<loadCall, stopCall, form, edited>>
    BY <1>15 DEF SaveEnds, keptByForm
  <2>2. form' # NULL => MadeFrom(form, edited)'
    BY <1>2, <1>3, <2>1, MadeFromKept DEF ShownInv, MadeFrom
  <2>3. envData' \in ever'
    BY <1>2, <1>3, <2>1 DEF CarriedInv
  <2> QED
    BY <1>2, <1>3, <2>1, <2>2, <2>3, CarriedKept DEF ShownInv, NoPhantomSettings
<1> QED
  BY <1>4, <1>5, <1>6, <1>7, <1>8, <1>9, <1>10, <1>11, <1>12, <1>13, <1>14, <1>15 DEF PageNext

\* A save that reaches the row its form was made from.
LEMMA SaveEditsOnly ==
  ASSUME PageTypes, SeenInv, PageNext,
         saveCall # NULL, saveCall' # NULL, served' # served, saveCall'.answer = "ok",
         saveCall.answer = NULL, served[Here].v = saveCall.body.v,
         NEW f \in Field \ saveCall.edited
  PROVE  IF f = "replicas" THEN served'[Here].replicas = served[Here].replicas
         ELSE served'[Here][f] = NULL <=> served[Here][f] = NULL
<1>1. ServeSave
  BY PageAssumption
     DEF PageNext, ServeDetail, loadEnvData, DetailFails, keptByLoading, fetchStatus, ServePoll,
         ApplyPagePoll, PollFails, keptByPoll, OpenModal, CloseModal, handleStop, handleDecommission,
         keptByModal, ServeStop, ServeDecommission, OthersOnPage, keptByServing, ApplyStop, StopEnds,
         ApplyDecommission, DecommissionEnds, keptByAnswer, EditForm, handleSettingsReset,
         handleSettingsSave, ApplySave, SaveEnds, keptByForm
<1>2. served[Here] # NULL
  BY <1>1, SaveServed, PageAssumption
<1>3. served[Here] \in ever
  BY <1>2 DEF SeenInv, RecordInv
<1>4. saveCall.body[f] = served[Here][f]
  <2>1. PICK r \in ever: r.v = saveCall.body.v /\ \A x \in Field \ saveCall.edited: saveCall.body[x] = r[x]
    BY DEF SeenInv, CarriedInv, MadeFrom
  <2>2. r = served[Here]
    BY <1>3, <2>1 DEF SeenInv, RecordInv
  <2> QED
    BY <2>1, <2>2
<1>5. CASE f = "replicas"
  BY <1>1, <1>2, <1>4, <1>5, SaveServed
<1>6. CASE f = "stop_date"
  BY <1>1, <1>2, <1>4, <1>6, SaveServed, ServedAssumption DEF DayAsDate
<1>7. CASE f = "dcomm_date"
  BY <1>1, <1>2, <1>4, <1>7, SaveServed, ServedAssumption DEF DayAsDate
<1> QED
  BY <1>5, <1>6, <1>7 DEF Field

---------------------------------------------------------------------------
(***************************************************************************)
(* The page: spinners                                                      *)
(***************************************************************************)

LEMMA PageSpinnersInit ==
  ASSUME PageInit
  PROVE  PageSpinners
BY DEF PageInit, PageSpinners

\* The button of a stop or of a teardown is released by the poll that its answer starts.
LEMMA PageSpinnersStep ==
  ASSUME PageTypes, SavingInFlight', PageSpinners, PageNext
  PROVE  PageSpinners'
<1>1. saving' => saveCall' # NULL
  BY DEF SavingInFlight
<1>2. {"init", "stop", "decommission"} \subseteq PollSlot \cup Awaited
  BY DEF Awaited
<1>3. /\ statusCalls \in [PollSlot \cup Awaited -> PagePoll \cup {NULL}]
      /\ NULL \notin PagePoll /\ Polled # NULL /\ Sent # NULL
  BY PageTypeFacts, SentCalls, PageAssumption
<1> SUFFICES /\ stopping' => stopCall' # NULL \/ statusCalls'["stop"] # NULL
             /\ decommissioning' => dcommCall' # NULL \/ statusCalls'["decommission"] # NULL
  BY <1>1 DEF PageSpinners
<1>4. CASE \/ ServeDetail \/ CloseModal \/ OpenModal \/ ServeSave \/ OthersOnPage
           \/ (\E f \in Field: EditForm(f))
           \/ handleSettingsReset \/ handleSettingsSave \/ ApplySave \/ SaveEnds
  <2>1. UNCHANGED <<stopping, decommissioning, stopCall, dcommCall, statusCalls>>
    BY <1>4 DEF ServeDetail, CloseModal, OpenModal, keptByModal, ServeSave, OthersOnPage, keptByServing,
                EditForm, handleSettingsReset, handleSettingsSave, ApplySave, SaveEnds, keptByForm
  <2> QED
    BY <2>1 DEF PageSpinners
<1>5. CASE loadEnvData \/ DetailFails
  <2>1. /\ UNCHANGED <<stopping, decommissioning, stopCall, dcommCall>>
        /\ statusCalls' = [statusCalls EXCEPT !["init"] = Polled]
    BY <1>5 DEF loadEnvData, DetailFails, keptByLoading
  <2> QED
    BY <1>2, <1>3, <2>1 DEF PageSpinners
<1>6. CASE \E s \in PollSlot: fetchStatus(s)
  <2>1. /\ UNCHANGED <<stopping, decommissioning, stopCall, dcommCall>>
        /\ \E s \in PollSlot: statusCalls' = [statusCalls EXCEPT ![s] = Polled]
    BY <1>6 DEF fetchStatus, keptByPoll
  <2> QED
    BY <1>2, <1>3, <2>1 DEF PageSpinners
<1>7. CASE \E c \in PollSlot \cup Awaited: ServePoll(c)
  <2>1. [served |-> TRUE, row |-> Polling(Here)] \in PagePoll
    <3>1. Polling(Here) \in Live \cup {NULL}
      BY PageTypeFacts, StatusOfRow DEF Polling
    <3> QED
      BY <3>1 DEF PagePoll
  <2>2. /\ UNCHANGED <<stopping, decommissioning, stopCall, dcommCall>>
        /\ \E c \in PollSlot \cup Awaited: \E p \in PagePoll: statusCalls' = [statusCalls EXCEPT ![c] = p]
    BY <1>7, <2>1 DEF ServePoll, keptByPoll
  <2> QED
    BY <1>2, <1>3, <2>2 DEF PageSpinners
<1>8. CASE \E c \in PollSlot \cup Awaited: ApplyPagePoll(c) \/ PollFails(c)
  <2>1. PICK c \in PollSlot \cup Awaited: AfterPoll(c) /\ UNCHANGED keptByPoll
    BY <1>8 DEF ApplyPagePoll, PollFails
  <2> QED
    BY <1>2, <1>3, <2>1 DEF AfterPoll, keptByPoll, PageSpinners
<1>9. CASE handleStop \/ handleDecommission
  BY <1>3, <1>9 DEF handleStop, handleDecommission, keptByModal, PageSpinners
<1>10. CASE ServeStop \/ ServeDecommission
  <2>1. UNCHANGED <<stopping, decommissioning, statusCalls>>
    BY <1>10 DEF ServeStop, ServeDecommission, keptByServing
  <2>2. served'[Here] \in Row \cup {NULL}
    BY <1>10, ServeTypes DEF ServeStop, ServeDecommission, PageTypes
  <2>3. \A c \in WriteCall: \A b: AnswerTo(c, b) \in WriteCall
    BY <2>2 DEF AnswerTo, WriteCall, Answer
  <2>4. /\ stopCall # NULL => stopCall' # NULL
        /\ dcommCall # NULL => dcommCall' # NULL
    BY <1>10, <2>3, PageTypeFacts, PageAssumption DEF ServeStop, ServeDecommission
  <2> QED
    BY <2>1, <2>4 DEF PageSpinners
<1>11. CASE ApplyStop \/ ApplyDecommission
  BY <1>2, <1>3, <1>11 DEF ApplyStop, ApplyDecommission, PageSpinners
<1>12. CASE StopEnds \/ DecommissionEnds
  BY <1>12 DEF StopEnds, DecommissionEnds, PageSpinners
<1> QED
  BY <1>4, <1>5, <1>6, <1>7, <1>8, <1>9, <1>10, <1>11, <1>12 DEF PageNext

---------------------------------------------------------------------------
(***************************************************************************)
(* The log: its order and its pages                                        *)
(***************************************************************************)

\* No two entries are equally new, and each is as many places down as there are newer ones.
LEMMA NewerIsOrder ==
  ASSUME deployment_log \in Seq(Nat)
  PROVE  \A x, y, z \in Entries:
           /\ ~ Newer(x, x)
           /\ Newer(x, y) /\ Newer(y, z) => Newer(x, z)
           /\ x # y => Newer(x, y) \/ Newer(y, x)
<1>1. \A x \in Entries: x \in Nat /\ deployment_log[x] \in Nat
  BY DEF Entries
<1> QED
  BY <1>1 DEF Newer

Rank(entries, x) == Cardinality({y \in entries: Newer(y, x)})

LEMMA RanksCount ==
  ASSUME deployment_log \in Seq(Nat), NEW entries \in SUBSET Entries
  PROVE  /\ IsFiniteSet(entries) /\ Cardinality(entries) \in Nat
         /\ \A x \in entries: Rank(entries, x) \in 0 .. Cardinality(entries) - 1
         /\ \A x, y \in entries: Newer(x, y) => Rank(entries, x) < Rank(entries, y)
<1> DEFINE above(x) == {y \in entries: Newer(y, x)}
<1>1. IsFiniteSet(entries) /\ Cardinality(entries) \in Nat
  <2>1. Len(deployment_log) \in Nat /\ Entries = 1 .. Len(deployment_log)
    BY DEF Entries
  <2>2. IsFiniteSet(Entries)
    BY <2>1, FS_Interval
  <2>3. IsFiniteSet(entries)
    BY <2>2, FS_Subset
  <2> QED
    BY <2>3, FS_CardinalityType
<1>2. ASSUME NEW x \in entries
      PROVE  IsFiniteSet(above(x)) /\ Rank(entries, x) \in 0 .. Cardinality(entries) - 1
  <2>1. above(x) \in SUBSET entries /\ x \notin above(x)
    BY NewerIsOrder
  <2>2. above(x) # entries
    BY <2>1
  <2>3. IsFiniteSet(above(x)) /\ Cardinality(above(x)) <= Cardinality(entries)
    BY <1>1, <2>1, FS_Subset
  <2>4. Cardinality(above(x)) # Cardinality(entries)
    BY <1>1, <2>1, <2>2, FS_Subset
  <2>5. Cardinality(above(x)) \in Nat
    BY <2>3, FS_CardinalityType
  <2>6. Rank(entries, x) = Cardinality(above(x))
    BY DEF Rank
  <2> QED
    BY <1>1, <2>3, <2>4, <2>5, <2>6
<1>3. ASSUME NEW x \in entries, NEW y \in entries, Newer(x, y)
      PROVE  Rank(entries, x) < Rank(entries, y)
  <2>1. above(x) \in SUBSET above(y)
    BY <1>3, NewerIsOrder
  <2>2. x \in above(y) /\ x \notin above(x)
    BY <1>3, NewerIsOrder
  <2>3. IsFiniteSet(above(x)) /\ IsFiniteSet(above(y))
    BY <1>2
  <2>4. Cardinality(above(x)) <= Cardinality(above(y))
    BY <2>1, <2>3, FS_Subset
  <2>5. Cardinality(above(x)) # Cardinality(above(y))
    BY <2>1, <2>2, <2>3, FS_Subset
  <2>6. Cardinality(above(x)) \in Nat /\ Cardinality(above(y)) \in Nat
    BY <2>3, FS_CardinalityType
  <2>7. Rank(entries, x) = Cardinality(above(x)) /\ Rank(entries, y) = Cardinality(above(y))
    BY DEF Rank
  <2> QED
    BY <2>4, <2>5, <2>6, <2>7
<1> QED
  BY <1>1, <1>2, <1>3

\* Every place is taken, because there are as many places as entries.
LEMMA RanksAreTaken ==
  ASSUME deployment_log \in Seq(Nat), NEW entries \in SUBSET Entries
  PROVE  /\ \A x, y \in entries: Rank(entries, x) = Rank(entries, y) => x = y
         /\ \A i \in 0 .. Cardinality(entries) - 1: \E x \in entries: Rank(entries, x) = i
<1> DEFINE n == Cardinality(entries)
           rank == [x \in entries |-> Rank(entries, x)]
<1>1. /\ IsFiniteSet(entries) /\ n \in Nat
      /\ \A x \in entries: Rank(entries, x) \in 0 .. n - 1
      /\ \A x, y \in entries: Newer(x, y) => Rank(entries, x) < Rank(entries, y)
  BY RanksCount
<1>2. ASSUME NEW x \in entries, NEW y \in entries, Rank(entries, x) = Rank(entries, y)
      PROVE  x = y
  <2>1. ~ Newer(x, y) /\ ~ Newer(y, x)
    BY <1>1, <1>2
  <2> QED
    BY <2>1, NewerIsOrder
<1>3. rank \in Injection(entries, 0 .. n - 1)
  <2>1. rank \in [entries -> 0 .. n - 1]
    BY <1>1
  <2>2. \A x, y \in entries: rank[x] = rank[y] => x = y
    BY <1>2
  <2> QED
    BY <2>1, <2>2 DEF Injection, IsInjective
<1>4. IsFiniteSet(0 .. n - 1) /\ Cardinality(0 .. n - 1) = n
  <2>1. 0 \in Int /\ n - 1 \in Int
    BY <1>1
  <2>2. /\ IsFiniteSet(0 .. n - 1)
        /\ Cardinality(0 .. n - 1) = IF 0 > n - 1 THEN 0 ELSE n - 1 - 0 + 1
    BY <2>1, FS_Interval
  <2> QED
    BY <1>1, <2>2
<1>5. rank \in Surjection(entries, 0 .. n - 1)
  BY <1>3, <1>4, FS_Injection
<1>6. \A i \in 0 .. n - 1: \E x \in entries: rank[x] = i
  BY <1>5 DEF Surjection
<1> QED
  BY <1>2, <1>6

\* The ordered entries are these entries, each at its place.
LEMMA OrderedEntries ==
  ASSUME deployment_log \in Seq(Nat), NEW entries \in SUBSET Entries
  PROVE  /\ Cardinality(entries) \in Nat
         /\ Ordered(entries) \in [1 .. Cardinality(entries) -> entries]
         /\ \A i \in 1 .. Cardinality(entries): Rank(entries, Ordered(entries)[i]) = i - 1
         /\ \A x \in entries: /\ Rank(entries, x) + 1 \in 1 .. Cardinality(entries)
                              /\ Ordered(entries)[Rank(entries, x) + 1] = x
<1> DEFINE n == Cardinality(entries)
           at(i) == CHOOSE x \in entries: Rank(entries, x) = i - 1
<1>1. n \in Nat /\ \A x \in entries: Rank(entries, x) \in 0 .. n - 1
  BY RanksCount
<1>2. ASSUME NEW i \in 1 .. n PROVE at(i) \in entries /\ Rank(entries, at(i)) = i - 1
  <2>1. i - 1 \in 0 .. n - 1
    BY <1>1
  <2>2. \E x \in entries: Rank(entries, x) = i - 1
    BY <2>1, RanksAreTaken
  <2> QED
    BY <2>2
<1>3. Ordered(entries) = [i \in 1 .. n |-> at(i)]
  BY DEF Ordered, Rank
<1> HIDE DEF at
<1>4. Ordered(entries) \in [1 .. n -> entries] /\ \A i \in 1 .. n: Ordered(entries)[i] = at(i)
  BY <1>2, <1>3
<1>5. ASSUME NEW x \in entries
      PROVE  /\ Rank(entries, x) + 1 \in 1 .. n
             /\ Ordered(entries)[Rank(entries, x) + 1] = x
  <2>1. Rank(entries, x) + 1 \in 1 .. n /\ Rank(entries, x) \in Nat
    BY <1>1
  <2>2. Rank(entries, at(Rank(entries, x) + 1)) = Rank(entries, x)
    BY <1>2, <2>1
  <2>3. at(Rank(entries, x) + 1) = x
    BY <1>2, <2>1, <2>2, RanksAreTaken
  <2> QED
    BY <1>4, <2>1, <2>3
<1> QED
  BY <1>1, <1>2, <1>4, <1>5

\* Unless ids and dates disagree, the order is that of the ids.
LEMMA OrderedIds ==
  ASSUME deployment_log \in Seq(Nat), ~ Skewed, NEW k \in 0 .. Len(deployment_log)
  PROVE  \A i \in 1 .. k: Ordered(1 .. k)[i] = k + 1 - i
<1>1. 1 .. k \in SUBSET Entries /\ Entries = 1 .. Len(deployment_log) /\ k \in Nat
  BY DEF Entries
<1>2. Cardinality(1 .. k) = k
  BY <1>1, FS_Interval
<1>3. ASSUME NEW x \in 1 .. k PROVE Rank(1 .. k, x) = k - x
  <2>1. ASSUME NEW y \in 1 .. k PROVE Newer(y, x) <=> y > x
    <3>1. x \in Nat /\ y \in Nat /\ deployment_log[x] \in Nat /\ deployment_log[y] \in Nat
      BY <1>1
    <3>2. x < y => deployment_log[x] <= deployment_log[y]
      BY <1>1, <3>1 DEF Skewed
    <3>3. y < x => deployment_log[y] <= deployment_log[x]
      BY <1>1, <3>1 DEF Skewed
    <3> QED
      BY <3>1, <3>2, <3>3 DEF Newer
  <2>2. {y \in 1 .. k: Newer(y, x)} = {y \in 1 .. k: y > x}
    BY <2>1
  <2>3. {y \in 1 .. k: y > x} = x + 1 .. k
    BY <1>1
  <2>4. Cardinality(x + 1 .. k) = k - x
    BY <1>1, FS_Interval
  <2> QED
    BY <2>2, <2>3, <2>4 DEF Rank
<1>4. ASSUME NEW i \in 1 .. k PROVE Ordered(1 .. k)[i] = k + 1 - i
  <2>1. k + 1 - i \in 1 .. k
    BY <1>1
  <2>2. Rank(1 .. k, k + 1 - i) = i - 1
    BY <1>3, <2>1
  <2>3. Ordered(1 .. k)[Rank(1 .. k, k + 1 - i) + 1] = k + 1 - i
    BY <1>1, <2>1, OrderedEntries
  <2> QED
    BY <2>2, <2>3
<1> QED
  BY <1>4

---------------------------------------------------------------------------
\* A piece of the log without a gap, as long as ids and dates agree.
Falls(q) == \A i \in 1 .. Len(q): q[i] = q[1] + 1 - i

\* Two such pieces, the second one after k entries.
FallsFrom(q, k) ==
  /\ \A i \in 1 .. k: q[i] = q[1] + 1 - i
  /\ \A i \in k + 1 .. Len(q): q[i] = q[k + 1] + 1 - (i - k)

InTable(q) == \A i \in 1 .. Len(q): q[i] \in Entries

Reaches(q) == \E i \in 1 .. Len(q): q[i] = 1

\* One piece is two, the second one empty.
LEMMA FallsTogether ==
  ASSUME NEW q \in Seq(Nat), Falls(q)
  PROVE  \E k \in 0 .. Len(q): FallsFrom(q, k)
<1>1. Len(q) \in 0 .. Len(q) /\ Len(q) + 1 .. Len(q) = {}
  OBVIOUS
<1>2. FallsFrom(q, Len(q))
  BY <1>1 DEF Falls, FallsFrom
<1> QED
  BY <1>1, <1>2

\* A piece that is put below one piece, or below two where the second one ends.
LEMMA PiecesJoined ==
  ASSUME NEW q \in Seq(Nat), NEW p \in Seq(Nat), p # <<>>, Falls(p),
         Falls(q) \/ (q # <<>> /\ p[1] = Last(q) - 1),
         \E k \in 0 .. Len(q): FallsFrom(q, k)
  PROVE  \E k \in 0 .. Len(q \o p): FallsFrom(q \o p, k)
<1> DEFINE r == q \o p
<1>1. /\ Len(q) \in Nat /\ Len(p) \in Nat /\ Len(p) >= 1
      /\ r \in Seq(Nat) /\ Len(r) = Len(q) + Len(p)
  OBVIOUS
<1>2. /\ \A i \in 1 .. Len(q): r[i] = q[i]
      /\ \A i \in 1 .. Len(p): r[Len(q) + i] = p[i]
  OBVIOUS
<1> HIDE DEF r
<1>3. ASSUME NEW i \in Len(q) + 1 .. Len(r)
      PROVE  r[i] = p[1] + 1 - (i - Len(q)) /\ p[1] \in Nat
  <2>1. i - Len(q) \in 1 .. Len(p) /\ Len(q) + (i - Len(q)) = i /\ 1 \in 1 .. Len(p)
    BY <1>1
  <2>2. r[i] = p[i - Len(q)] /\ p[1] \in Nat
    BY <1>2, <2>1
  <2> QED
    BY <2>1, <2>2 DEF Falls
<1>4. CASE Falls(q)
  <2>1. ASSUME NEW i \in 1 .. Len(q) PROVE r[i] = r[1] + 1 - i
    <3>1. 1 \in 1 .. Len(q)
      BY <1>1
    <3>2. r[i] = q[i] /\ r[1] = q[1]
      BY <1>2, <3>1
    <3>3. q[i] = q[1] + 1 - i
      BY <1>4 DEF Falls
    <3> QED
      BY <3>2, <3>3
  <2>2. ASSUME NEW i \in Len(q) + 1 .. Len(r) PROVE r[i] = r[Len(q) + 1] + 1 - (i - Len(q))
    <3>1. Len(q) + 1 \in Len(q) + 1 .. Len(r)
      BY <1>1
    <3>2. r[Len(q) + 1] = p[1] + 1 - (Len(q) + 1 - Len(q)) /\ p[1] \in Nat
      BY <1>3, <3>1
    <3>3. r[Len(q) + 1] = p[1]
      BY <1>1, <3>2
    <3> QED
      BY <1>3, <3>3
  <2>3. FallsFrom(r, Len(q)) /\ Len(q) \in 0 .. Len(r)
    BY <1>1, <2>1, <2>2 DEF FallsFrom
  <2> QED
    BY <2>3 DEF r
<1>5. CASE ~ Falls(q) /\ q # <<>> /\ p[1] = Last(q) - 1
  <2>1. PICK k \in 0 .. Len(q): FallsFrom(q, k)
    OBVIOUS
  <2>2. k # Len(q)
    BY <1>5, <2>1 DEF Falls, FallsFrom
  <2>3. k + 1 \in k + 1 .. Len(q) /\ Len(q) \in k + 1 .. Len(q) /\ k \in Nat
    BY <1>1, <2>2
  <2>4. k + 1 \in 1 .. Len(q) /\ Len(q) \in 1 .. Len(q) /\ q[k + 1] \in Nat
    <3>1. k + 1 \in 1 .. Len(q) /\ Len(q) \in 1 .. Len(q)
      BY <1>1, <2>3
    <3>2. q \in [1 .. Len(q) -> Nat]
      BY LenProperties
    <3> QED
      BY <3>1, <3>2
  <2>5. Last(q) = q[k + 1] + 1 - (Len(q) - k)
    BY <2>1, <2>3 DEF FallsFrom, Last
  <2>6. ASSUME NEW i \in 1 .. k PROVE r[i] = r[1] + 1 - i
    <3>1. i \in 1 .. Len(q) /\ 1 \in 1 .. Len(q)
      BY <1>1, <2>4
    <3> QED
      BY <1>2, <2>1, <3>1 DEF FallsFrom
  <2>7. ASSUME NEW i \in k + 1 .. Len(r) PROVE r[i] = r[k + 1] + 1 - (i - k)
    <3>1. r[k + 1] = q[k + 1]
      BY <1>2, <2>4
    <3>2. CASE i <= Len(q)
      <4>1. i \in k + 1 .. Len(q) /\ i \in 1 .. Len(q)
        BY <1>1, <2>3, <3>2
      <4> QED
        BY <1>2, <2>1, <3>1, <4>1 DEF FallsFrom
    <3>3. CASE ~ (i <= Len(q))
      <4>1. i \in Len(q) + 1 .. Len(r) /\ i \in Int
        BY <1>1, <2>3, <3>3
      <4>2. r[i] = p[1] + 1 - (i - Len(q))
        BY <1>3, <4>1
      <4>3. p[1] = (q[k + 1] + 1 - (Len(q) - k)) - 1
        BY <1>5, <2>5
      <4>4. PICK y \in Nat: y = q[k + 1]
        BY <2>4
      <4>5. i \in Int /\ k \in Nat /\ Len(q) \in Nat
        BY <1>1, <2>3, <4>1
      <4> QED
        BY <3>1, <4>2, <4>3, <4>4, <4>5
    <3> QED
      BY <3>2, <3>3
  <2>8. FallsFrom(r, k) /\ k \in 0 .. Len(r)
    BY <1>1, <2>6, <2>7 DEF FallsFrom
  <2> QED
    BY <2>8 DEF r
<1> QED
  BY <1>4, <1>5

\* A page below a cursor, or the first one: it is in the table, its has_more says whether
\* something is below it, and unless ids and dates disagree it has the newest entries.
LEMMA PageFacts ==
  ASSUME deployment_log \in Seq(Nat), NEW before \in Entries \cup {NULL},
         before # NULL => before > 1
  PROVE  /\ Page(before) \in Seq(Nat) /\ Len(Page(before)) <= Limit
         /\ InTable(Page(before))
         /\ before # NULL => Page(before) # <<>>
         /\ HasMore(Page(before)) => Page(before) # <<>> /\ Last(Page(before)) > 1
         /\ Page(before) # <<>> /\ ~ HasMore(Page(before)) => Reaches(Page(before))
         /\ ~ Skewed =>
              /\ Falls(Page(before))
              /\ before # NULL => Page(before)[1] = before - 1
<1> DEFINE k == IF before = NULL THEN Len(deployment_log) ELSE before - 1
           found == Ordered(1 .. k)
           n == IF k < Limit THEN k ELSE Limit
           page == Page(before)
<1>1. /\ Len(deployment_log) \in Nat /\ Entries = 1 .. Len(deployment_log)
      /\ Limit \in Nat /\ Limit >= 1
  BY PanelAssumption DEF Entries
<1>2. k \in 0 .. Len(deployment_log) /\ (before # NULL => k = before - 1 /\ k >= 1)
  BY <1>1
<1>3. {x \in Entries: before = NULL \/ x < before} = 1 .. k
  BY <1>1
<1> HIDE DEF k
<1>4. 1 .. k \in SUBSET Entries /\ Cardinality(1 .. k) = k /\ k \in Nat
  <2>1. k \in Nat /\ 1 \in Int /\ k \in Int
    BY <1>1, <1>2
  <2>2. Cardinality(1 .. k) = IF 1 > k THEN 0 ELSE k - 1 + 1
    BY <2>1, FS_Interval
  <2>3. 1 .. k \in SUBSET Entries
    BY <1>1, <1>2
  <2> QED
    BY <2>1, <2>2, <2>3
<1>5. /\ found \in [1 .. k -> 1 .. k]
      /\ \A x \in 1 .. k: Rank(1 .. k, x) + 1 \in 1 .. k /\ found[Rank(1 .. k, x) + 1] = x
  BY <1>4, OrderedEntries
<1>6. found \in Seq(Nat) /\ Len(found) = k
  BY <1>4, <1>5
<1>7. page = SubSeq(found, 1, n)
  BY <1>3, <1>6 DEF Page
<1> HIDE DEF found, page
<1>8. n \in 0 .. k /\ n <= Limit /\ (k >= 1 => n >= 1)
  BY <1>1, <1>4
<1>9. page \in Seq(Nat) /\ Len(page) = n /\ \A i \in 1 .. n: page[i] = found[i]
  BY <1>6, <1>7, <1>8
<1>10. ASSUME NEW i \in 1 .. n PROVE page[i] \in 1 .. k
  <2>1. i \in 1 .. k
    BY <1>4, <1>8
  <2> QED
    BY <1>5, <1>9, <2>1
<1>11. InTable(page)
  BY <1>4, <1>9, <1>10 DEF InTable
<1>12. ASSUME HasMore(page) PROVE page # <<>> /\ Last(page) > 1
  <2>1. Len(page) = Limit /\ n \in 1 .. n
    BY <1>1, <1>8, <1>9, <1>12 DEF HasMore
  <2>2. PICK x \in Entries: x < Last(page)
    BY <1>12 DEF HasMore
  <2>3. Last(page) = page[n] /\ Last(page) \in 1 .. k
    BY <1>9, <1>10, <2>1 DEF Last
  <2> QED
    BY <1>1, <1>4, <1>9, <2>1, <2>2, <2>3
<1>13. ASSUME page # <<>>, ~ HasMore(page) PROVE Reaches(page)
  <2>1. n >= 1 /\ 1 \in 1 .. k
    BY <1>4, <1>8, <1>9, <1>13
  <2>2. CASE n = Limit
    <3>1. \A x \in Entries: ~ (x < Last(page))
      BY <1>9, <1>13, <2>2 DEF HasMore
    <3>2. Last(page) = page[n] /\ page[n] \in 1 .. k /\ n \in 1 .. n
      BY <1>9, <1>10, <1>8, <2>1 DEF Last
    <3>3. page[n] = 1
      BY <1>4, <2>1, <3>1, <3>2
    <3> QED
      BY <1>9, <3>2, <3>3 DEF Reaches
  <2>3. CASE n # Limit
    <3>1. n = k
      BY <1>4, <1>1, <2>3
    <3>2. Rank(1 .. k, 1) + 1 \in 1 .. n /\ found[Rank(1 .. k, 1) + 1] = 1
      BY <1>5, <2>1, <3>1
    <3> QED
      BY <1>9, <3>2 DEF Reaches
  <2> QED
    BY <2>2, <2>3
<1>14. ASSUME ~ Skewed
       PROVE  Falls(page) /\ (before # NULL => page[1] = before - 1)
  <2>1. ASSUME NEW i \in 1 .. n PROVE page[i] = k + 1 - i
    <3>1. i \in 1 .. k
      BY <1>4, <1>8
    <3>2. found[i] = k + 1 - i
      BY <1>2, <1>14, <3>1, OrderedIds DEF found
    <3> QED
      BY <1>9, <3>2
  <2>2. ASSUME NEW i \in 1 .. n PROVE page[i] = page[1] + 1 - i
    <3>1. 1 \in 1 .. n /\ i \in Int
      BY <1>8
    <3>2. page[1] = k + 1 - 1 /\ page[i] = k + 1 - i
      BY <2>1, <3>1
    <3> QED
      BY <1>4, <3>1, <3>2
  <2>3. before # NULL => page[1] = before - 1
    <3>1. SUFFICES ASSUME before # NULL PROVE page[1] = before - 1
      OBVIOUS
    <3>2. 1 \in 1 .. n /\ k = before - 1
      BY <1>2, <1>8, <3>1
    <3> QED
      BY <1>4, <2>1, <3>2
  <2> QED
    BY <1>9, <2>2, <2>3 DEF Falls
<1>15. before # NULL => page # <<>>
  BY <1>2, <1>8, <1>9
<1> QED
  BY <1>8, <1>9, <1>11, <1>12, <1>13, <1>14, <1>15 DEF page

---------------------------------------------------------------------------
(***************************************************************************)
(* The panel: what its calls bring and what it shows                       *)
(***************************************************************************)

\* An older page is asked for below an entry that is not the oldest, and an answer is
\* the page that was asked for, cut from the table as it was when the route served it.
AnswerIsPage(c) ==
  /\ InTable(c.page)
  /\ c.kind = "poll" => c.before = NULL
  /\ c.kind = "more" => c.before \in Entries /\ c.before > 1 /\ (c.served => c.page # <<>>)
  /\ c.has_more => c.page # <<>> /\ Last(c.page) > 1
  /\ c.served /\ ~ c.has_more /\ c.page # <<>> => Reaches(c.page)
  /\ ~ Skewed =>
       Falls(c.page) /\ (c.kind = "more" /\ c.page # <<>> => c.page[1] = c.before - 1)

CallsInv == \A s \in Slot: calls[s] # NULL => AnswerIsPage(calls[s])

\* The button for older entries is there as long as the oldest entry is not on the screen.
LogsInv ==
  /\ InTable(logs)
  /\ hasMore => logs # <<>> /\ Last(logs) > 1
  /\ ~ hasMore /\ logs # <<>> => Reaches(logs)
  /\ ~ Skewed => \E k \in 0 .. Len(logs): FallsFrom(logs, k)

PanelBase == PanelTypeOK /\ CallsInv /\ LogsInv /\ PanelSpinners

AsksForMore(s) == calls[s] # NULL /\ calls[s].kind = "more"

\* At most one older page is on its way, and what it will be put below ends at its cursor,
\* unless a poll has put a list without a seam there meanwhile.
SeamInv ==
  /\ \A s, t \in Slot: AsksForMore(s) /\ AsksForMore(t) => s = t
  /\ \A s \in Slot: AsksForMore(s) => loadingMore
  /\ ~ Skewed => \A s \in Slot: AsksForMore(s) =>
       Falls(logs) \/ (logs # <<>> /\ Last(logs) = calls[s].before)

PanelInv == PanelBase /\ SeamInv

---------------------------------------------------------------------------
\* The table only grows.
Grows == deployment_log' = deployment_log \/ \E d \in Nat: deployment_log' = Append(deployment_log, d)

LEMMA TableGrows ==
  ASSUME deployment_log \in Seq(Nat), Grows
  PROVE  /\ deployment_log' \in Seq(Nat) /\ Entries \subseteq Entries'
         /\ Skewed => Skewed'
<1>1. CASE deployment_log' = deployment_log
  BY <1>1 DEF Entries, Skewed
<1>2. ASSUME NEW d \in Nat, deployment_log' = Append(deployment_log, d)
      PROVE  /\ deployment_log' \in Seq(Nat) /\ Entries \subseteq Entries'
             /\ Skewed => Skewed'
  <2>1. deployment_log' \in Seq(Nat) /\ Len(deployment_log') = Len(deployment_log) + 1
    BY <1>2
  <2>2. Entries = 1 .. Len(deployment_log) /\ Entries' = 1 .. Len(deployment_log')
    BY <2>1 DEF Entries
  <2>3. Entries \subseteq Entries' /\ \A x \in Entries: deployment_log'[x] = deployment_log[x]
    BY <1>2, <2>1, <2>2
  <2>4. Skewed => Skewed'
    BY <2>3 DEF Skewed
  <2> QED
    BY <2>1, <2>3, <2>4
<1> QED
  BY <1>1, <1>2 DEF Grows

\* What was cut from the table is still in it.
LEMMA PagesStay ==
  ASSUME PanelTypeOK, Grows
  PROVE  /\ \A c \in PanelCall: AnswerIsPage(c) => AnswerIsPage(c)'
         /\ LogsInv /\ UNCHANGED <<logs, hasMore>> => LogsInv'
<1>1. Entries \subseteq Entries' /\ (Skewed => Skewed')
  BY TableGrows DEF PanelTypeOK
<1>2. ASSUME NEW q, InTable(q) PROVE InTable(q)'
  BY <1>1, <1>2 DEF InTable
<1>3. ASSUME NEW c \in PanelCall, AnswerIsPage(c) PROVE AnswerIsPage(c)'
  <2>1. InTable(c.page)'
    BY <1>2, <1>3 DEF AnswerIsPage
  <2> QED
    BY <1>1, <1>3, <2>1 DEF AnswerIsPage
<1>4. ASSUME LogsInv, UNCHANGED <<logs, hasMore>> PROVE LogsInv'
  <2>1. InTable(logs)'
    BY <1>1, <1>4 DEF InTable, LogsInv
  <2> QED
    BY <1>1, <1>4, <2>1 DEF LogsInv
<1> QED
  BY <1>3, <1>4

\* What is sent is a call, and its answer is empty yet.
LEMMA SentCall ==
  ASSUME NEW kind \in {"poll", "more", "retrigger"}, NEW before \in Nat \cup {NULL},
         kind = "poll" => before = NULL,
         kind = "more" => before \in Entries /\ before > 1
  PROVE  /\ Call(kind, before) \in PanelCall /\ Call(kind, before).kind = kind
         /\ Len(Call(kind, before).page) <= Limit /\ AnswerIsPage(Call(kind, before))
<1>1. <<>> \in Seq(Nat) /\ Len(<<>>) = 0 /\ 0 <= Limit
  BY PanelAssumption
<1>2. Call(kind, before) \in PanelCall
  BY <1>1 DEF Call, PanelCall
<1>3. /\ Call(kind, before).kind = kind /\ Call(kind, before).before = before
      /\ Call(kind, before).page = <<>> /\ ~ Call(kind, before).served
      /\ ~ Call(kind, before).has_more
  BY DEF Call
<1> QED
  BY <1>1, <1>2, <1>3 DEF AnswerIsPage, InTable, Falls

LEMMA PanelInvInit == PanelInit => PanelInv
<1> SUFFICES ASSUME PanelInit PROVE PanelInv
  OBVIOUS
<1>1. deployment_log \in Seq(Nat)
  <2>1. PICK n \in 0 .. MaxOlder: deployment_log = [x \in 1 .. n |-> x]
    BY DEF PanelInit
  <2>2. n \in Nat /\ deployment_log \in [1 .. n -> Nat]
    BY <2>1, PanelAssumption
  <2> QED
    BY <2>2
<1>2. Call("poll", NULL) \in PanelCall /\ Len(Call("poll", NULL).page) <= Limit /\ AnswerIsPage(Call("poll", NULL))
  BY SentCall
<1>3. /\ calls \in [Slot -> PanelCall \cup {NULL}]
      /\ \A s \in Slot: calls[s] \in {Call("poll", NULL), NULL}
  BY <1>2 DEF PanelInit
<1>4. CallsInv /\ \A s \in Slot: calls[s] # NULL => Len(calls[s].page) <= Limit
  BY <1>2, <1>3 DEF CallsInv
<1>5. PanelTypeOK
  <2>1. logs = <<>> /\ logs \in Seq(Nat)
    BY DEF PanelInit
  <2> QED
    BY <1>1, <1>3, <1>4, <2>1 DEF PanelTypeOK, PanelInit
<1>6. LogsInv
  BY DEF LogsInv, PanelInit, InTable, FallsFrom
<1>7. \E s \in Slot: calls[s] = Call("poll", NULL)
  <2>1. PICK first \in Slot: first = CHOOSE s \in Slot: TRUE
    BY PanelAssumption
  <2> QED
    BY <2>1 DEF PanelInit
<1>8. Call("poll", NULL) # NULL /\ Call("poll", NULL).kind = "poll"
  BY <1>2, PanelAssumption DEF Call
<1>9. PanelSpinners
  BY <1>7, <1>8 DEF PanelSpinners, PanelInit
<1>10. SeamInv
  BY <1>3, <1>8 DEF SeamInv, AsksForMore
<1> QED
  BY <1>4, <1>5, <1>6, <1>9, <1>10 DEF PanelInv, PanelBase

\* One call changes: it is sent, answered, or over.
LEMMA CallChanges ==
  ASSUME PanelTypeOK, CallsInv, Grows, NEW s \in Slot, NEW c \in PanelCall \cup {NULL},
         c # NULL => AnswerIsPage(c) /\ Len(c.page) <= Limit,
         calls' = [calls EXCEPT ![s] = c]
  PROVE  /\ calls' \in [Slot -> PanelCall \cup {NULL}]
         /\ \A t \in Slot: calls'[t] # NULL => Len(calls'[t].page) <= Limit
         /\ CallsInv'
         /\ calls'[s] = c /\ \A t \in Slot \ {s}: calls'[t] = calls[t]
<1>1. calls' \in [Slot -> PanelCall \cup {NULL}] /\ calls'[s] = c /\ \A t \in Slot \ {s}: calls'[t] = calls[t]
  BY DEF PanelTypeOK
<1>2. ASSUME NEW t \in Slot, calls'[t] # NULL
      PROVE  Len(calls'[t].page) <= Limit /\ AnswerIsPage(calls[t])'
  <2>1. PICK d \in PanelCall: d = calls'[t]
    BY <1>1, <1>2
  <2>2. AnswerIsPage(d) /\ Len(d.page) <= Limit
    BY <1>1, <1>2, <2>1 DEF CallsInv, PanelTypeOK
  <2>3. AnswerIsPage(d)'
    BY <2>2, PagesStay
  <2> QED
    BY <2>1, <2>2, <2>3 DEF AnswerIsPage, InTable, Falls, Reaches
<1> QED
  BY <1>1, <1>2 DEF CallsInv

\* A date is a number.
LEMMA DatesAreNumbers == PanelTypeOK => NextDate \in Nat
<1> SUFFICES ASSUME PanelTypeOK PROVE NextDate \in Nat
  OBVIOUS
<1>1. Cardinality({w \in Writer: inserting[w] # NULL}) \in Nat
  <2>1. IsFiniteSet({w \in Writer: inserting[w] # NULL})
    BY PanelAssumption, FS_Subset
  <2> QED
    BY <2>1, FS_CardinalityType
<1> QED
  BY <1>1 DEF NextDate, PanelTypeOK

\* The other writers, and the banner's timer, change nothing that the invariant is about.
LEMMA OthersInsert ==
  ASSUME PanelInv, \/ BannerExpires
                   \/ \E w \in Writer: BeginInsert(w) \/ EndInsert(w)
  PROVE  PanelBase'
<1> USE DEF PanelInv, PanelBase
<1>1. UNCHANGED <<calls, logs, hasMore, loading, loadingMore>>
  BY DEF BannerExpires, BeginInsert, EndInsert, panelState
<1>2. Grows /\ inserting' \in [Writer -> Nat \cup {NULL}]
  <2>1. NextDate \in Nat
    BY DatesAreNumbers
  <2>2. ASSUME NEW w \in Writer, EndInsert(w) PROVE inserting[w] \in Nat
    BY <2>2 DEF EndInsert, PanelTypeOK
  <2> QED
    BY <2>1, <2>2 DEF BannerExpires, BeginInsert, EndInsert, PanelTypeOK, Grows
<1>3. deployment_log' \in Seq(Nat)
  BY <1>2, TableGrows DEF PanelTypeOK
<1>4. /\ retriggerState' \in {"idle", "loading", "success", "error"} /\ banners' \in Nat
      /\ retriggerState' = "loading" => retriggerState = "loading"
  BY DEF BannerExpires, BeginInsert, EndInsert, panelState, PanelTypeOK
<1>5. PanelTypeOK'
  BY <1>1, <1>2, <1>3, <1>4 DEF PanelTypeOK
<1>6. CallsInv'
  <2>1. ASSUME NEW t \in Slot, calls'[t] # NULL PROVE AnswerIsPage(calls[t])'
    <3>1. PICK d \in PanelCall: d = calls[t]
      BY <1>1, <2>1 DEF PanelTypeOK
    <3>2. AnswerIsPage(d)'
      BY <1>1, <1>2, <2>1, <3>1, PagesStay DEF CallsInv
    <3> QED
      BY <1>1, <3>1, <3>2 DEF AnswerIsPage, InTable, Falls, Reaches
  <2> QED
    BY <2>1 DEF CallsInv
<1>7. LogsInv'
  BY <1>1, <1>2, PagesStay
<1>8. PanelSpinners'
  BY <1>1, <1>4 DEF PanelSpinners
<1> QED
  BY <1>5, <1>6, <1>7, <1>8

\* What the operator and the timer send.
LEMMA PanelSends ==
  ASSUME PanelInv, NEW s \in Slot, fetchLogs(s) \/ fetchMoreLogs(s) \/ handleRetrigger(s)
  PROVE  PanelBase'
<1> USE DEF PanelInv, PanelBase
<1>0. Entries \subseteq Nat
  BY DEF PanelTypeOK, Entries
<1>1. /\ UNCHANGED <<deployment_log, inserting, logs, hasMore, loading, banners>>
      /\ calls[s] = NULL
  BY DEF fetchLogs, fetchMoreLogs, handleRetrigger, Send, panelState
<1>2. PICK kind \in {"poll", "more", "retrigger"}, before \in Nat \cup {NULL}:
        /\ kind = "poll" => before = NULL
        /\ kind = "more" => before \in Entries /\ before > 1
        /\ calls' = [calls EXCEPT ![s] = Call(kind, before)]
        /\ loadingMore' /\ ~ loadingMore => kind = "more"
        /\ retriggerState' = "loading" /\ retriggerState # "loading" => kind = "retrigger"
        /\ loadingMore' \in BOOLEAN
        /\ retriggerState' \in {"idle", "loading", "success", "error"}
  <2>1. CASE fetchLogs(s)
    BY <2>1 DEF fetchLogs, Send, panelState, PanelTypeOK
  <2>2. CASE fetchMoreLogs(s)
    <3>1. logs # <<>> /\ Last(logs) > 1
      BY <2>2 DEF fetchMoreLogs, LogsInv
    <3>2. Len(logs) \in 1 .. Len(logs)
      BY <3>1 DEF PanelTypeOK
    <3>3. logs[Len(logs)] \in Entries
      BY <3>2 DEF LogsInv, InTable
    <3>4. Last(logs) \in Entries /\ Last(logs) \in Nat
      BY <1>0, <3>3 DEF Last
    <3> QED
      BY <2>2, <3>1, <3>4 DEF fetchMoreLogs, Send, PanelTypeOK
  <2>3. CASE handleRetrigger(s)
    BY <2>3 DEF handleRetrigger, Send, PanelTypeOK
  <2> QED
    BY <2>1, <2>2, <2>3
<1>3. PICK c \in PanelCall: c = Call(kind, before)
  BY <1>2, SentCall
<1>4. AnswerIsPage(c) /\ Len(c.page) <= Limit /\ c.kind = kind
  BY <1>2, <1>3, SentCall
<1>5. Grows /\ calls' = [calls EXCEPT ![s] = c]
  BY <1>1, <1>2, <1>3 DEF Grows
<1>6. /\ calls' \in [Slot -> PanelCall \cup {NULL}]
      /\ \A t \in Slot: calls'[t] # NULL => Len(calls'[t].page) <= Limit
      /\ CallsInv'
      /\ calls'[s] = c /\ \A t \in Slot \ {s}: calls'[t] = calls[t]
  BY <1>4, <1>5, CallChanges
<1>7. PanelTypeOK'
  BY <1>1, <1>2, <1>6 DEF PanelTypeOK
<1>8. LogsInv'
  BY <1>1, <1>5, PagesStay
<1>9. PanelSpinners'
  <2>1. \A t \in Slot: calls[t] # NULL => calls'[t] = calls[t]
    BY <1>1, <1>6
  <2>2. c # NULL /\ calls'[s] = c
    BY <1>6, PanelAssumption
  <2>3. ASSUME loadingMore' PROVE \E t \in Slot: calls'[t] # NULL /\ calls'[t].kind = "more"
    BY <1>2, <1>4, <2>1, <2>2, <2>3 DEF PanelSpinners
  <2>4. ASSUME retriggerState' = "loading"
        PROVE  \E t \in Slot: calls'[t] # NULL /\ calls'[t].kind = "retrigger"
    BY <1>2, <1>4, <2>1, <2>2, <2>4 DEF PanelSpinners
  <2>5. ASSUME loading' PROVE \E t \in Slot: calls'[t] # NULL /\ calls'[t].kind = "poll"
    BY <1>1, <2>1, <2>5 DEF PanelSpinners
  <2> QED
    BY <2>3, <2>4, <2>5 DEF PanelSpinners
<1> QED
  BY <1>6, <1>7, <1>8, <1>9

\* The route's answer.
LEMMA ServedCall ==
  ASSUME PanelTypeOK, CallsInv, NEW s \in Slot, calls[s] # NULL,
         NEW page, page = IF calls[s].kind = "retrigger" THEN <<>> ELSE Page(calls[s].before),
         NEW c, c = [calls[s] EXCEPT !.served = TRUE, !.page = page, !.has_more = HasMore(page)]
  PROVE  c \in PanelCall /\ c.kind = calls[s].kind /\ Len(c.page) <= Limit /\ AnswerIsPage(c)
<1>1. calls[s] \in PanelCall /\ AnswerIsPage(calls[s])
  BY DEF PanelTypeOK, CallsInv
<1>2. page \in Seq(Nat) /\ HasMore(page) \in BOOLEAN
  <2>1. CASE calls[s].kind = "retrigger"
    BY <2>1 DEF HasMore
  <2>2. CASE calls[s].kind # "retrigger"
    <3>1. /\ calls[s].before \in Entries \cup {NULL}
          /\ calls[s].before # NULL => calls[s].before > 1
      BY <1>1, <2>2 DEF AnswerIsPage, PanelCall
    <3>2. Page(calls[s].before) \in Seq(Nat)
      BY <3>1, PageFacts DEF PanelTypeOK
    <3> QED
      BY <2>2, <3>2 DEF HasMore
  <2> QED
    BY <2>1, <2>2
<1>3. /\ c \in PanelCall /\ c.kind = calls[s].kind /\ c.before = calls[s].before
      /\ c.page = page /\ (c.has_more <=> HasMore(page)) /\ c.served
  BY <1>1, <1>2 DEF PanelCall
<1>4. CASE calls[s].kind = "retrigger"
  <2>1. page = <<>> /\ Len(page) = 0 /\ Limit \in Nat /\ Limit >= 1
    BY <1>4, PanelAssumption
  <2>2. ~ HasMore(page)
    BY <2>1, PanelAssumption DEF HasMore
  <2>3. InTable(page) /\ Falls(page)
    BY <2>1 DEF InTable, Falls
  <2>4. c.page = <<>> /\ ~ c.has_more /\ c.kind = "retrigger" /\ c.page = page
    BY <1>3, <1>4, <2>1, <2>2
  <2>5. AnswerIsPage(c)
    BY <2>3, <2>4 DEF AnswerIsPage
  <2> QED
    BY <1>3, <2>1, <2>5
<1>5. CASE calls[s].kind # "retrigger"
  <2>1. /\ calls[s].before \in Entries \cup {NULL}
        /\ calls[s].before # NULL => calls[s].before > 1
        /\ calls[s].kind = "more" => calls[s].before \in Entries /\ calls[s].before > 1
        /\ calls[s].kind = "poll" => calls[s].before = NULL
    BY <1>1, <1>5 DEF AnswerIsPage, PanelCall
  <2>2. calls[s].kind = "more" => calls[s].before # NULL
    BY <2>1, PanelAssumption DEF Entries, PanelTypeOK
  <2>3. page = Page(calls[s].before)
    BY <1>5
  <2>4. /\ Len(page) <= Limit
        /\ InTable(page)
        /\ calls[s].before # NULL => page # <<>>
        /\ HasMore(page) => page # <<>> /\ Last(page) > 1
        /\ page # <<>> /\ ~ HasMore(page) => Reaches(page)
        /\ ~ Skewed => Falls(page) /\ (calls[s].before # NULL => page[1] = calls[s].before - 1)
    BY <2>1, <2>3, PageFacts DEF PanelTypeOK
  <2> QED
    BY <1>3, <2>1, <2>2, <2>4 DEF AnswerIsPage
<1> QED
  BY <1>4, <1>5


\* The route answers a call, and a retrigger is logged.
LEMMA PanelServes ==
  ASSUME PanelInv, NEW s \in Slot, ServeCall(s)
  PROVE  PanelBase'
<1> USE DEF PanelInv, PanelBase
<1>1. /\ UNCHANGED <<inserting, logs, hasMore, loading, loadingMore, retriggerState, banners>>
      /\ calls[s] # NULL
  BY DEF ServeCall, panelState
<1>2. PICK page: page = IF calls[s].kind = "retrigger" THEN <<>> ELSE Page(calls[s].before)
  OBVIOUS
<1>3. PICK c: c = [calls[s] EXCEPT !.served = TRUE, !.page = page, !.has_more = HasMore(page)]
  OBVIOUS
<1>4. calls' = [calls EXCEPT ![s] = c]
  BY <1>2, <1>3 DEF ServeCall
<1>5. c \in PanelCall /\ c.kind = calls[s].kind /\ Len(c.page) <= Limit /\ AnswerIsPage(c)
  BY <1>1, <1>2, <1>3, ServedCall
<1>6. Grows
  BY DatesAreNumbers DEF ServeCall, Grows
<1>7. /\ calls' \in [Slot -> PanelCall \cup {NULL}]
      /\ \A t \in Slot: calls'[t] # NULL => Len(calls'[t].page) <= Limit
      /\ CallsInv'
      /\ calls'[s] = c /\ \A t \in Slot \ {s}: calls'[t] = calls[t]
  BY <1>4, <1>5, <1>6, CallChanges
<1>8. deployment_log' \in Seq(Nat)
  BY <1>6, TableGrows DEF PanelTypeOK
<1>9. PanelTypeOK'
  BY <1>1, <1>7, <1>8 DEF PanelTypeOK
<1>10. LogsInv'
  BY <1>1, <1>6, PagesStay
<1>11. PanelSpinners'
  <2>1. \A t \in Slot: calls[t] # NULL => calls'[t] # NULL /\ calls'[t].kind = calls[t].kind
    BY <1>5, <1>7, PanelAssumption
  <2> QED
    BY <1>1, <2>1 DEF PanelSpinners
<1> QED
  BY <1>7, <1>9, <1>10, <1>11

\* An answer takes the place of the list, or is put below it.
LEMMA PageShown ==
  ASSUME PanelInv, NEW s \in Slot, ApplyPoll(s) \/ ApplyMore(s)
  PROVE  logs' \in Seq(Nat) /\ hasMore' \in BOOLEAN /\ LogsInv'
<1> USE DEF PanelInv, PanelBase
<1> DEFINE c == calls[s]
           page == c.page
<1>1. c \in PanelCall /\ AnswerIsPage(c) /\ c.served /\ logs \in Seq(Nat)
  BY DEF ApplyPoll, ApplyMore, CallsInv, PanelTypeOK
<1>2. page \in Seq(Nat) /\ c.has_more \in BOOLEAN
  BY <1>1 DEF PanelCall
<1>3. UNCHANGED deployment_log /\ hasMore' = c.has_more
  BY DEF ApplyPoll, ApplyMore
<1>4. (Skewed' <=> Skewed) /\ \A q: InTable(q)' <=> InTable(q)
  BY <1>3 DEF Skewed, InTable, Entries
<1>5. CASE ApplyPoll(s)
  <2>1. logs' = page
    BY <1>5 DEF ApplyPoll
  <2>2. InTable(logs)'
    BY <1>1, <1>3, <2>1 DEF AnswerIsPage, InTable, Entries
  <2>3. ASSUME ~ Skewed PROVE \E k \in 0 .. Len(logs'): FallsFrom(logs', k)
    BY <1>1, <1>2, <2>1, <2>3, FallsTogether DEF AnswerIsPage
  <2> QED
    BY <1>1, <1>2, <1>3, <1>4, <2>1, <2>2, <2>3 DEF AnswerIsPage, LogsInv, FallsFrom
<1>6. CASE ApplyMore(s)
  <2>1. logs' = logs \o page /\ c.kind = "more" /\ AsksForMore(s)
    BY <1>6 DEF ApplyMore, AsksForMore
  <2> HIDE DEF c, page
  <2>2. page # <<>> /\ InTable(page) /\ InTable(logs)
    BY <1>1, <2>1 DEF AnswerIsPage, LogsInv, page
  <2>3. /\ Len(logs) \in Nat /\ Len(page) \in Nat /\ Len(page) >= 1
        /\ logs' \in Seq(Nat) /\ Len(logs') = Len(logs) + Len(page)
    BY <1>1, <1>2, <2>1, <2>2
  <2>4. /\ \A i \in 1 .. Len(logs): logs'[i] = logs[i]
        /\ \A i \in 1 .. Len(page): logs'[Len(logs) + i] = page[i]
    BY <1>1, <1>2, <2>1
  <2>5. ASSUME NEW i \in 1 .. Len(logs'), ~ (i <= Len(logs))
        PROVE  /\ i - Len(logs) \in 1 .. Len(page)
               /\ logs'[i] = page[i - Len(logs)]
    <3>1. i - Len(logs) \in 1 .. Len(page) /\ Len(logs) + (i - Len(logs)) = i
      BY <2>3, <2>5
    <3> QED
      BY <2>4, <3>1
  <2>6. InTable(logs)'
    <3>1. ASSUME NEW i \in 1 .. Len(logs') PROVE logs'[i] \in Entries
      <4>1. CASE i <= Len(logs)
        <5>1. i \in 1 .. Len(logs)
          BY <2>3, <4>1
        <5> QED
          BY <2>2, <2>4, <5>1 DEF InTable
      <4>2. CASE ~ (i <= Len(logs))
        BY <2>2, <2>5, <4>2 DEF InTable
      <4> QED
        BY <4>1, <4>2
    <3> QED
      BY <1>3, <3>1 DEF InTable, Entries
  <2>7. logs' # <<>> /\ Last(logs)' = Last(page)
    <3>1. Len(page) \in 1 .. Len(page)
      BY <2>3
    <3>2. logs'[Len(logs')] = page[Len(page)]
      BY <2>3, <2>4, <3>1
    <3> QED
      BY <2>3, <3>2 DEF Last
  <2>8. ASSUME Reaches(page) PROVE Reaches(logs)'
    <3>1. PICK i \in 1 .. Len(page): page[i] = 1
      BY <2>8 DEF Reaches
    <3>2. Len(logs) + i \in 1 .. Len(logs') /\ logs'[Len(logs) + i] = 1
      <4>1. Len(logs) + i \in 1 .. Len(logs')
        BY <2>3, <3>1
      <4>2. logs'[Len(logs) + i] = page[i]
        BY <2>4, <3>1
      <4> QED
        BY <3>1, <4>1, <4>2
    <3> QED
      BY <3>2 DEF Reaches
  <2>9. ASSUME ~ Skewed PROVE \E k \in 0 .. Len(logs'): FallsFrom(logs', k)
    <3>1. Falls(page) /\ page[1] = c.before - 1
      BY <1>1, <2>1, <2>2, <2>9 DEF AnswerIsPage, page
    <3>2. Falls(logs) \/ (logs # <<>> /\ page[1] = Last(logs) - 1)
      BY <2>1, <2>9, <3>1 DEF SeamInv, c
    <3>3. \E k \in 0 .. Len(logs): FallsFrom(logs, k)
      BY <2>9 DEF LogsInv
    <3> QED
      BY <1>1, <1>2, <2>1, <2>2, <3>1, <3>2, <3>3, PiecesJoined
  <2> QED
    BY <1>1, <1>2, <1>3, <1>4, <2>1, <2>2, <2>3, <2>6, <2>7, <2>8, <2>9
       DEF AnswerIsPage, LogsInv, FallsFrom, page
<1> QED
  BY <1>5, <1>6

\* The call of an answer that is applied is over, or fetches the newest page.
LEMMA PanelApplies ==
  ASSUME PanelInv, NEW s \in Slot, ApplyCall(s)
  PROVE  PanelBase'
<1> USE DEF PanelInv, PanelBase
<1>1. UNCHANGED <<deployment_log, inserting>> /\ calls[s] # NULL
  BY DEF ApplyCall, ApplyPoll, ApplyMore, ApplyRetrigger
<1>2. Grows
  BY <1>1 DEF Grows
<1>3. PICK c \in PanelCall \cup {NULL}:
        /\ calls' = [calls EXCEPT ![s] = c]
        /\ c # NULL => AnswerIsPage(c) /\ Len(c.page) <= Limit
  <2>1. CASE ApplyPoll(s) \/ ApplyMore(s)
    BY <2>1 DEF ApplyPoll, ApplyMore
  <2>2. CASE ApplyRetrigger(s)
    BY <2>2, SentCall DEF ApplyRetrigger
  <2> QED
    BY <2>1, <2>2 DEF ApplyCall
<1>4. /\ calls' \in [Slot -> PanelCall \cup {NULL}]
      /\ \A t \in Slot: calls'[t] # NULL => Len(calls'[t].page) <= Limit
      /\ CallsInv'
      /\ \A t \in Slot \ {s}: calls'[t] = calls[t]
  BY <1>2, <1>3, CallChanges
<1>5. CASE ApplyPoll(s) \/ ApplyMore(s)
  <2>1. logs' \in Seq(Nat) /\ hasMore' \in BOOLEAN /\ LogsInv'
    BY <1>5, PageShown
  <2>2. UNCHANGED <<retriggerState, banners>> /\ {loading', loadingMore'} \subseteq BOOLEAN
    BY <1>5 DEF ApplyPoll, ApplyMore, PanelTypeOK
  <2>3. PanelTypeOK'
    BY <1>1, <1>4, <2>1, <2>2 DEF PanelTypeOK
  <2>4. PanelSpinners'
    <3>1. calls[s].kind # "retrigger"
      BY <1>5 DEF ApplyPoll, ApplyMore
    <3>2. /\ loadingMore' => loadingMore /\ calls[s].kind # "more"
          /\ loading' => loading /\ calls[s].kind # "poll"
      BY <1>5 DEF ApplyPoll, ApplyMore
    <3> QED
      BY <1>4, <2>2, <3>1, <3>2 DEF PanelSpinners
  <2> QED
    BY <1>4, <2>1, <2>3, <2>4
<1>6. CASE ApplyRetrigger(s)
  <2>1. /\ UNCHANGED <<logs, hasMore, loading, loadingMore>>
        /\ retriggerState' = "success" /\ banners' \in Nat /\ calls[s].kind = "retrigger"
    BY <1>6 DEF ApplyRetrigger, PanelTypeOK
  <2>2. PanelTypeOK' /\ LogsInv'
    BY <1>1, <1>2, <1>4, <2>1, PagesStay DEF PanelTypeOK
  <2>3. PanelSpinners'
    BY <1>4, <2>1 DEF PanelSpinners
  <2> QED
    BY <1>4, <2>2, <2>3
<1> QED
  BY <1>5, <1>6 DEF ApplyCall

LEMMA PanelFails ==
  ASSUME PanelInv, NEW s \in Slot, CallFails(s)
  PROVE  PanelBase'
<1> USE DEF PanelInv, PanelBase
<1>1. /\ UNCHANGED <<deployment_log, inserting, logs, hasMore, banners>>
      /\ calls[s] # NULL /\ calls' = [calls EXCEPT ![s] = NULL]
      /\ {loading', loadingMore'} \subseteq BOOLEAN
      /\ retriggerState' \in {"idle", "loading", "success", "error"}
      /\ loadingMore' => loadingMore /\ calls[s].kind # "more"
      /\ loading' => loading /\ calls[s].kind # "poll"
      /\ retriggerState' = "loading" => retriggerState = "loading" /\ calls[s].kind # "retrigger"
  BY DEF CallFails, PanelTypeOK
<1>2. Grows
  BY <1>1 DEF Grows
<1>3. /\ calls' \in [Slot -> PanelCall \cup {NULL}]
      /\ \A t \in Slot: calls'[t] # NULL => Len(calls'[t].page) <= Limit
      /\ CallsInv'
      /\ \A t \in Slot \ {s}: calls'[t] = calls[t]
  BY <1>1, <1>2, CallChanges
<1>4. PanelTypeOK' /\ LogsInv'
  BY <1>1, <1>2, <1>3, PagesStay DEF PanelTypeOK
<1>5. PanelSpinners'
  BY <1>1, <1>3 DEF PanelSpinners
<1> QED
  BY <1>3, <1>4, <1>5

\* What is not asked for anew keeps its place.
LEMMA SeamKept ==
  ASSUME SeamInv, UNCHANGED logs, Skewed => Skewed',
         \A t \in Slot: AsksForMore(t)' => /\ AsksForMore(t) /\ calls'[t].before = calls[t].before
                                          /\ loadingMore'
  PROVE  SeamInv'
BY DEF SeamInv, Falls, Last

LEMMA SeamInvStep ==
  ASSUME PanelInv, PanelNext
  PROVE  SeamInv'
<1> USE DEF PanelInv, PanelBase
<1>1. Grows
  <2>1. NextDate \in Nat
    BY DatesAreNumbers
  <2>2. ASSUME NEW w \in Writer, EndInsert(w) PROVE inserting[w] \in Nat
    BY <2>2 DEF EndInsert, PanelTypeOK
  <2> QED
    BY <2>1, <2>2
       DEF Grows, PanelNext, BannerExpires, BeginInsert, EndInsert, fetchLogs, fetchMoreLogs,
           handleRetrigger, ServeCall, ApplyCall, ApplyPoll, ApplyMore, ApplyRetrigger, CallFails
<1>2. Skewed => Skewed'
  BY <1>1, TableGrows DEF PanelTypeOK
<1>3. calls \in [Slot -> PanelCall \cup {NULL}]
  BY DEF PanelTypeOK
<1>4. CASE BannerExpires \/ \E w \in Writer: BeginInsert(w) \/ EndInsert(w)
  <2>1. UNCHANGED <<calls, logs, loadingMore>>
    BY <1>4 DEF BannerExpires, BeginInsert, EndInsert, panelState
  <2> QED
    BY <1>2, <2>1, SeamKept DEF AsksForMore, SeamInv
<1>5. CASE \E s \in Slot: fetchLogs(s) \/ handleRetrigger(s)
  <2>1. PICK s \in Slot: fetchLogs(s) \/ handleRetrigger(s)
    BY <1>5
  <2>2. PICK kind \in {"poll", "retrigger"}: calls' = [calls EXCEPT ![s] = Call(kind, NULL)]
    BY <2>1 DEF fetchLogs, handleRetrigger, Send
  <2>3. UNCHANGED <<logs, loadingMore>>
    BY <2>1 DEF fetchLogs, handleRetrigger, panelState
  <2>4. \A t \in Slot: AsksForMore(t)' => t # s
    BY <1>3, <2>2 DEF AsksForMore, Call
  <2>5. \A t \in Slot \ {s}: calls'[t] = calls[t]
    BY <1>3, <2>2
  <2> QED
    BY <1>2, <2>3, <2>4, <2>5, SeamKept DEF AsksForMore, SeamInv
<1>6. CASE \E s \in Slot: fetchMoreLogs(s)
  <2>1. PICK s \in Slot: fetchMoreLogs(s)
    BY <1>6
  <2>2. /\ ~ loadingMore /\ loadingMore' /\ logs # <<>> /\ UNCHANGED logs
        /\ calls' = [calls EXCEPT ![s] = Call("more", Last(logs))]
    BY <2>1 DEF fetchMoreLogs, Send
  <2>3. \A t \in Slot: AsksForMore(t)' => t = s
    BY <1>3, <2>2 DEF AsksForMore, SeamInv
  <2>4. calls'[s].before = Last(logs)
    BY <1>3, <2>2 DEF Call
  <2> QED
    BY <2>2, <2>3, <2>4 DEF SeamInv, Last
<1>7. CASE \E s \in Slot: ServeCall(s)
  <2>1. PICK s \in Slot: ServeCall(s)
    BY <1>7
  <2>2. UNCHANGED <<logs, loadingMore>> /\ calls[s] # NULL
    BY <2>1 DEF ServeCall, panelState
  <2>3. PICK page, more: calls' = [calls EXCEPT ![s] = [calls[s] EXCEPT !.served = TRUE, !.page = page,
                                                                        !.has_more = more]]
    BY <2>1 DEF ServeCall
  <2>4. calls[s] \in PanelCall
    BY <1>3, <2>2
  <2>5. calls'[s].kind = calls[s].kind /\ calls'[s].before = calls[s].before
    BY <1>3, <2>3, <2>4 DEF PanelCall
  <2>6. \A t \in Slot \ {s}: calls'[t] = calls[t]
    BY <1>3, <2>3
  <2> QED
    BY <1>2, <2>2, <2>5, <2>6, SeamKept DEF AsksForMore, SeamInv
<1>8. CASE \E s \in Slot: ApplyCall(s) \/ CallFails(s)
  <2>1. PICK s \in Slot: ApplyCall(s) \/ CallFails(s)
    BY <1>8
  <2>2. /\ calls[s] # NULL
        /\ calls' = [calls EXCEPT ![s] = NULL] \/ calls' = [calls EXCEPT ![s] = Call("poll", NULL)]
        /\ loadingMore' = loadingMore \/ AsksForMore(s)
        /\ logs' = logs \/ AsksForMore(s) \/ (calls[s].kind = "poll" /\ logs' = calls[s].page)
    BY <2>1 DEF ApplyCall, ApplyPoll, ApplyMore, ApplyRetrigger, CallFails, AsksForMore, PanelTypeOK
  <2>3. /\ \A t \in Slot: AsksForMore(t)' => t # s
        /\ \A t \in Slot \ {s}: calls'[t] = calls[t]
    BY <1>3, <2>2 DEF AsksForMore, Call
  <2>4. CASE AsksForMore(s)
    BY <2>3, <2>4 DEF AsksForMore, SeamInv
  <2>5. CASE ~ AsksForMore(s) /\ logs' = logs
    BY <1>2, <2>2, <2>3, <2>5, SeamKept DEF AsksForMore, SeamInv
  <2>6. CASE ~ AsksForMore(s) /\ calls[s].kind = "poll" /\ logs' = calls[s].page
    <3>1. ~ Skewed => Falls(logs)'
      BY <2>2, <2>6 DEF CallsInv, AnswerIsPage, Falls
    <3> QED
      BY <1>2, <2>2, <2>3, <2>6, <3>1 DEF AsksForMore, SeamInv
  <2> QED
    BY <2>2, <2>4, <2>5, <2>6
<1> QED
  BY <1>4, <1>5, <1>6, <1>7, <1>8 DEF PanelNext

\* Every step of the panel keeps its invariant.
LEMMA PanelInvStep ==
  ASSUME PanelInv, PanelNext
  PROVE  PanelInv'
<1>1. PanelBase'
  BY OthersInsert, PanelSends, PanelServes, PanelApplies, PanelFails DEF PanelNext
<1> QED
  BY <1>1, SeamInvStep DEF PanelInv

LEMMA PanelRests ==
  ASSUME PanelInv, UNCHANGED panelVars
  PROVE  PanelInv'
<1> USE DEF PanelInv, PanelBase
<1>1. UNCHANGED <<deployment_log, inserting, calls, logs, hasMore, loading, loadingMore,
                  retriggerState, banners>>
  BY DEF panelVars
<1>2. Grows
  BY <1>1 DEF Grows
<1>3. CallsInv'
  <2>1. ASSUME NEW t \in Slot, calls'[t] # NULL PROVE AnswerIsPage(calls[t])'
    <3>1. PICK d \in PanelCall: d = calls[t]
      BY <1>1, <2>1 DEF PanelTypeOK
    <3>2. AnswerIsPage(d)'
      BY <1>1, <1>2, <2>1, <3>1, PagesStay DEF CallsInv
    <3> QED
      BY <1>1, <3>1, <3>2 DEF AnswerIsPage, InTable, Falls, Reaches
  <2> QED
    BY <2>1 DEF CallsInv
<1>4. SeamInv'
  <2>1. Skewed => Skewed'
    BY <1>2, TableGrows DEF PanelTypeOK
  <2> QED
    BY <1>1, <2>1, SeamKept DEF AsksForMore, SeamInv
<1> QED
  BY <1>1, <1>2, <1>3, <1>4, PagesStay DEF PanelTypeOK, PanelSpinners

\* A falling list of ids is a piece of the list of all ids.
LEMMA PieceOfIds ==
  ASSUME NEW n \in Nat, NEW all \in Seq(Nat), Len(all) = n,
         \A j \in 1 .. n: all[j] = n + 1 - j,
         NEW q \in Seq(Nat), Falls(q), \A i \in 1 .. Len(q): q[i] \in 1 .. n
  PROVE  \E i \in 0 .. n - Len(q): q = SubSeq(all, i + 1, i + Len(q))
<1>1. PICK m \in Nat: m = Len(q)
  OBVIOUS
<1>2. CASE m = 0
  <2>1. q = <<>> /\ SubSeq(all, 0 + 1, 0 + Len(q)) = <<>>
    <3>1. q = <<>>
      BY <1>1, <1>2, EmptySeq
    <3>2. 0 + 1 \in Int /\ 0 + Len(q) \in Int /\ 0 + Len(q) < 0 + 1
      BY <1>1, <1>2
    <3> QED
      BY <3>1, <3>2, SubSeqEmpty
  <2>2. 0 \in 0 .. n - Len(q)
    BY <1>1, <1>2
  <2> QED
    BY <2>1, <2>2
<1>3. CASE m > 0
  <2>1. PICK top \in 1 .. n: top = q[1]
    BY <1>1, <1>3
  <2>2. \A j \in 1 .. m: q[j] = top + 1 - j
    BY <1>1, <2>1 DEF Falls
  <2>3. m \in 1 .. m /\ q[m] \in 1 .. n
    BY <1>1, <1>3
  <2>4. top + 1 - m >= 1
    BY <2>2, <2>3
  <2>5. PICK i \in Int: i = n - top
    OBVIOUS
  <2>6. i \in 0 .. n - m /\ i \in Nat /\ i + m <= n
    <3>1. top \in Int /\ m \in Int /\ n \in Int /\ top <= n /\ m >= 0
      OBVIOUS
    <3>2. m <= top
      BY <2>4, <3>1
    <3>3. i >= 0 /\ i <= n - m
      BY <2>5, <3>1, <3>2
    <3> QED
      BY <3>1, <3>3
  <2>7. ASSUME NEW j \in 1 .. m PROVE i + j \in 1 .. n /\ all[i + j] = q[j]
    <3>1. i + j \in 1 .. n
      BY <2>6
    <3>2. all[i + j] = n + 1 - (i + j) /\ q[j] = top + 1 - j
      BY <2>2, <3>1
    <3> QED
      BY <2>5, <3>1, <3>2
  <2>8. \A k \in i + 1 .. i + m: all[k] \in Nat
    BY <2>6
  <2>9. /\ SubSeq(all, i + 1, i + m) \in Seq(Nat)
        /\ Len(SubSeq(all, i + 1, i + m)) = m
        /\ \A j \in 1 .. m: SubSeq(all, i + 1, i + m)[j] = all[i + j]
    <3>1. i + 1 \in Int /\ i + m \in Int /\ i + 1 <= i + m /\ i + m - (i + 1) + 1 = m
      BY <1>3, <2>6
    <3>2. /\ SubSeq(all, i + 1, i + m) \in Seq(Nat)
          /\ Len(SubSeq(all, i + 1, i + m)) = m
          /\ \A j \in 1 .. m: SubSeq(all, i + 1, i + m)[j] = all[i + 1 + j - 1]
      BY <2>8, <3>1, SubSeqProperties
    <3>3. \A j \in 1 .. m: i + 1 + j - 1 = i + j
      OBVIOUS
    <3> QED
      BY <3>2, <3>3
  <2>10. q = SubSeq(all, i + 1, i + m)
    <3>1. PICK r \in Seq(Nat): r = SubSeq(all, i + 1, i + m)
      BY <2>9
    <3>2. Len(r) = Len(q) /\ \A j \in 1 .. Len(q): r[j] = q[j]
      BY <1>1, <2>7, <2>9, <3>1
    <3> QED
      BY <3>1, <3>2, SeqEqual
  <2> QED
    BY <1>1, <2>6, <2>10
<1>4. m = 0 \/ m > 0
  OBVIOUS
<1> QED
  BY <1>2, <1>3, <1>4, Zenon

\* All entries in their order, as long as ids and dates agree.
LEMMA AllIds ==
  ASSUME deployment_log \in Seq(Nat), ~ Skewed, NEW n \in Nat, n = Len(deployment_log)
  PROVE  /\ Ordered(Entries) \in Seq(Nat) /\ Len(Ordered(Entries)) = n
         /\ \A j \in 1 .. n: Ordered(Entries)[j] = n + 1 - j
<1>1. Entries = 1 .. n
  BY DEF Entries
<1>2. Cardinality(1 .. n) = n
  <2>1. 1 \in Int /\ n \in Int
    OBVIOUS
  <2>2. Cardinality(1 .. n) = IF 1 > n THEN 0 ELSE n - 1 + 1
    BY <2>1, FS_Interval
  <2> QED
    BY <2>2
<1>3. Ordered(1 .. n) \in [1 .. n -> 1 .. n]
  BY <1>1, <1>2, OrderedEntries
<1>4. n \in 0 .. Len(deployment_log)
  OBVIOUS
<1>5. \A j \in 1 .. n: Ordered(1 .. n)[j] = n + 1 - j
  BY <1>4, OrderedIds
<1>6. Ordered(1 .. n) \in Seq(Nat) /\ Len(Ordered(1 .. n)) = n
  BY <1>3
<1> QED
  BY <1>1, <1>5, <1>6

\* What the invariant says of the screen.
LEMMA PanelShows ==
  ASSUME PanelInv
  PROVE  HistoryHasOneSeam /\ NothingOlderIsHidden
<1>1. /\ deployment_log \in Seq(Nat) /\ logs \in Seq(Nat) /\ LogsInv
      /\ Entries = 1 .. Len(deployment_log) /\ Len(deployment_log) \in Nat /\ Len(logs) \in Nat
  BY DEF PanelInv, PanelBase, PanelTypeOK, Entries
<1>2. NothingOlderIsHidden
  <2> SUFFICES ASSUME ~ hasMore, logs # <<>>
               PROVE  \A x \in Entries: \E y \in Range(logs): y <= x
    BY DEF NothingOlderIsHidden
  <2>1. PICK i \in 1 .. Len(logs): logs[i] = 1
    BY <1>1 DEF LogsInv, Reaches
  <2>2. 1 \in Range(logs)
    BY <1>1, <2>1 DEF Range
  <2> QED
    BY <1>1, <2>2
<1>3. HistoryHasOneSeam
  <2> SUFFICES ASSUME ~ Skewed
               PROVE  \E k \in 0 .. Len(logs):
                        Continuous(SubSeq(logs, 1, k)) /\ Continuous(SubSeq(logs, k + 1, Len(logs)))
    BY DEF HistoryHasOneSeam
  <2>1. PICK n \in Nat: n = Len(deployment_log)
    BY <1>1
  <2>2. PICK all: all = Ordered(Entries)
    OBVIOUS
  <2>3. all \in Seq(Nat) /\ Len(all) = n /\ \A j \in 1 .. n: all[j] = n + 1 - j
    BY <1>1, <2>1, <2>2, AllIds
  <2>4. PICK k \in 0 .. Len(logs): FallsFrom(logs, k)
    BY <1>1 DEF LogsInv
  <2>5. ASSUME NEW q \in Seq(Nat), Falls(q), \A i \in 1 .. Len(q): q[i] \in Entries
        PROVE  Continuous(q)
    <3>1. \A i \in 1 .. Len(q): q[i] \in 1 .. n
      BY <1>1, <2>1, <2>5
    <3>2. \E i \in 0 .. n - Len(q): q = SubSeq(all, i + 1, i + Len(q))
      BY <2>3, <2>5, <3>1, PieceOfIds
    <3> QED
      BY <2>1, <2>2, <3>2 DEF Continuous
  <2>6. k \in Nat /\ k <= Len(logs) /\ \A i \in 1 .. Len(logs): logs[i] \in Entries
    BY <1>1 DEF LogsInv, InTable
  <2>7. Continuous(SubSeq(logs, 1, k))
    <3>1. PICK q: q = SubSeq(logs, 1, k)
      OBVIOUS
    <3>2. q \in Seq(Nat) /\ Len(q) = k /\ \A i \in 1 .. k: q[i] = logs[i]
      BY <1>1, <2>6, <3>1
    <3>3. ASSUME NEW i \in 1 .. k PROVE q[i] = q[1] + 1 - i /\ q[i] \in Entries
      <4>1. 1 \in 1 .. k /\ i \in 1 .. Len(logs)
        BY <1>1, <2>6
      <4>2. q[i] = logs[i] /\ q[1] = logs[1] /\ logs[i] = logs[1] + 1 - i
        BY <2>4, <3>2, <4>1 DEF FallsFrom
      <4> QED
        BY <2>6, <4>1, <4>2
    <3>4. Falls(q) /\ \A i \in 1 .. Len(q): q[i] \in Entries
      BY <3>2, <3>3 DEF Falls
    <3> QED
      BY <2>5, <3>1, <3>2, <3>4
  <2>8. Continuous(SubSeq(logs, k + 1, Len(logs)))
    <3>1. PICK q: q = SubSeq(logs, k + 1, Len(logs))
      OBVIOUS
    <3>2. q \in Seq(Nat) /\ Len(q) = Len(logs) - k /\ \A i \in 1 .. Len(q): q[i] = logs[k + i]
      BY <1>1, <2>6, <3>1
    <3>3. ASSUME NEW i \in 1 .. Len(q) PROVE q[i] = q[1] + 1 - i /\ q[i] \in Entries
      <4>1. /\ k + i \in k + 1 .. Len(logs) /\ k + i \in 1 .. Len(logs)
            /\ 1 \in 1 .. Len(q) /\ (k + i) - k = i
        BY <1>1, <2>6, <3>2
      <4>2. q[i] = logs[k + i] /\ q[1] = logs[k + 1] /\ logs[k + i] \in Entries
        BY <2>6, <3>2, <4>1
      <4>3. logs[k + i] = logs[k + 1] + 1 - ((k + i) - k)
        BY <2>4, <4>1 DEF FallsFrom
      <4> QED
        BY <4>1, <4>2, <4>3
    <3>4. Falls(q) /\ \A i \in 1 .. Len(q): q[i] \in Entries
      BY <3>3 DEF Falls
    <3> QED
      BY <2>5, <3>1, <3>2, <3>4
  <2> QED
    BY <2>4, <2>7, <2>8
<1> QED
  BY <1>2, <1>3

---------------------------------------------------------------------------
(***************************************************************************)
(* The console                                                             *)
(***************************************************************************)

\* Every step spends at most one of what the budget allows.
Spends == UNCHANGED used \/ \E k \in {"clicks", "faults", "changes"}: Spend(k)

LEMMA PanelSpends == PanelNext => Spends
<1> USE DEF Spends
<1>1. ASSUME NEW w \in Writer, BeginInsert(w) \/ EndInsert(w) PROVE Spends
  BY <1>1 DEF BeginInsert, EndInsert
<1>2. ASSUME NEW s \in Slot,
             fetchLogs(s) \/ fetchMoreLogs(s) \/ handleRetrigger(s) \/ ServeCall(s) \/ ApplyCall(s) \/ CallFails(s)
      PROVE  Spends
  BY <1>2 DEF fetchLogs, fetchMoreLogs, handleRetrigger, ServeCall, ApplyCall, ApplyPoll, ApplyMore,
              ApplyRetrigger, CallFails
<1>3. BannerExpires => Spends
  BY DEF BannerExpires
<1> QED
  BY <1>1, <1>2, <1>3 DEF PanelNext

LEMMA TableSpends == TableNext => Spends
<1> USE DEF Spends
<1>1. ASSUME \/ \E q \in Query: TypeQuery(q)
             \/ DebounceFires \/ Retry \/ pollAll
             \/ \E l \in loads: ServeLoad(l) \/ ApplyLoad(l) \/ LoadFails(l)
      PROVE  Spends
  BY <1>1 DEF TypeQuery, DebounceFires, Retry, pollAll, ServeLoad, ApplyLoad, LoadFails
<1>2. ASSUME NEW e \in Env, NEW p \in polls[e], ServeStatus(e, p) \/ ApplyStatus(e, p) \/ StatusFails(e, p)
      PROVE  Spends
  BY <1>2 DEF ServeStatus, ApplyStatus, StatusFails
<1>3. ASSUME NEW e \in Env,
             \/ stopEnv(e) \/ decommissionEnv(e) \/ deleteEnv(e) \/ createEnv(e)
             \/ toggleRowSelection(e) \/ ServeBulk(e) \/ BulkCallFails(e)
      PROVE  Spends
  BY <1>3 DEF stopEnv, decommissionEnv, deleteEnv, createEnv, Click, toggleRowSelection, ServeBulk, BulkCallFails
<1>4. ASSUME NEW s \in ActSlot,
             ServeAct(s) \/ ApplyActToRow(s) \/ ApplyDelete(s) \/ ApplyCreate(s) \/ ActFails(s)
      PROVE  Spends
  BY <1>4 DEF ServeAct, ApplyActToRow, ApplyDelete, ApplyCreate, ActFails
<1>5. ASSUME \/ toggleSelectAll \/ CancelBulk \/ executeBulkAction \/ FinishBulk
             \/ \E k \in BulkKind: OpenBulk(k)
      PROVE  Spends
  BY <1>5 DEF toggleSelectAll, CancelBulk, executeBulkAction, FinishBulk, OpenBulk
<1>6. OthersStep => Spends
  BY DEF OthersStep, OthersWrite, OthersDelete
<1> QED
  BY <1>1, <1>2, <1>3, <1>4, <1>5, <1>6 DEF TableNext

LEMMA PageSpends == PageNext => Spends
<1> USE DEF Spends
<1>1. ServeDetail \/ loadEnvData \/ DetailFails \/ OpenModal \/ CloseModal => Spends
  BY DEF ServeDetail, loadEnvData, DetailFails, OpenModal, CloseModal
<1>2. ASSUME \/ \E s \in PollSlot: fetchStatus(s)
             \/ \E c \in PollSlot \cup Awaited: ServePoll(c) \/ ApplyPagePoll(c) \/ PollFails(c)
      PROVE  Spends
  BY <1>2 DEF fetchStatus, ServePoll, ApplyPagePoll, PollFails
<1>3. handleStop \/ ServeStop \/ ApplyStop \/ StopEnds => Spends
  BY DEF handleStop, ServeStop, ApplyStop, StopEnds
<1>4. handleDecommission \/ ServeDecommission \/ ApplyDecommission \/ DecommissionEnds => Spends
  BY DEF handleDecommission, ServeDecommission, ApplyDecommission, DecommissionEnds
<1>5. (\E f \in Field: EditForm(f)) \/ handleSettingsReset \/ handleSettingsSave => Spends
  BY DEF EditForm, handleSettingsReset, handleSettingsSave
<1>6. ServeSave \/ ApplySave \/ SaveEnds => Spends
  BY DEF ServeSave, ApplySave, SaveEnds
<1>7. OthersOnPage => Spends
  BY DEF OthersOnPage, OthersWrite, OthersDelete
<1> QED
  BY <1>1, <1>2, <1>3, <1>4, <1>5, <1>6, <1>7 DEF PageNext

LEMMA BudgetStep ==
  ASSUME BudgetTypeOK, [Next]_vars
  PROVE  BudgetTypeOK'
<1>1. Spends
  BY PanelSpends, TableSpends, PageSpends DEF Next, OnLogs, OnList, OnDetail, vars, Spends
<1>2. ASSUME NEW k \in {"clicks", "faults", "changes"}, Spend(k) PROVE BudgetTypeOK'
  BY <1>2, BrowserAssumption DEF Spend, Budget, BudgetTypeOK
<1> QED
  BY <1>1, <1>2 DEF Spends, BudgetTypeOK

ListInv == TableTypes /\ LoadInv /\ VersionInv /\ SpinInv

PageInv == PageTypes /\ OwnWritesInv /\ NoPhantomSettings /\ PageSpinners

\* The rows are recorded while the page is open.
ConsoleInv == ListInv /\ PageInv /\ (view = "detail" => SeenInv)

LEMMA ConsoleInvInit == Init => ConsoleInv
<1> SUFFICES ASSUME Init
             PROVE  ConsoleInv
  OBVIOUS
<1>1. ServedInit /\ TableInit /\ PageInit
  BY DEF Init
<1>2. ListInv
  BY <1>1, TableTypesInit, LoadInvInit, VersionInvInit, SpinInvInit DEF ListInv
<1>3. PageInv /\ SeenInv
  BY <1>1, <1>2, PageTypesInit, OwnWritesInit, SeenInvInit, PageSpinnersInit
     DEF PageInv, ListInv, TableTypes, SeenInv, ShownInv
<1> QED
  BY <1>2, <1>3 DEF ConsoleInv

\* On the other screens the list rests, and what it knows of versions stays true.
LEMMA ListRests ==
  ASSUME ListInv, ServedTypeOK', RowsChange, UNCHANGED tableVars
  PROVE  ListInv'
<1>1. TableTypes'
  BY DEF ListInv, TableTypes, TableTypeOK, DeletedRow, tableVars
<1>2. LoadInv' /\ SpinInv'
  BY DEF ListInv, tableVars, LoadInv, OneLoad, LoadingState, QuietWhileLoading, LoadsAskTheQuery, OnePoll,
         RowsAnswerTheQuery, SelectionIsListed, Shown, SpinInv, GoneIsDeleted, TableSpinners
<1>3. VersionInv'
  BY VersionsKept DEF ListInv, tableVars
<1> QED
  BY <1>1, <1>2, <1>3 DEF ListInv

LEMMA PageRests ==
  ASSUME PageInv, ServedTypeOK', UNCHANGED pageVars
  PROVE  PageInv'
BY DEF PageInv, PageTypes, PageTypeOK, FormWithRow, AnswersBringRows, OwnWritesInv, LoadPhase,
       SavingInFlight, OverlapRemembered, PageKnowsOwnWrites, ReportedWritesAreShown, NoPhantomSettings,
       PageSpinners, pageVars

LEMMA ConsoleInvStep ==
  ASSUME ConsoleInv, [Next]_vars
  PROVE  ConsoleInv'
<1>1. ServedTypeOK
  BY DEF ConsoleInv, ListInv, TableTypes
<1>2. CASE OnLogs(PanelNext)
  <2>1. view = "logs" /\ UNCHANGED <<serverVars, tableVars, pageVars, view>>
    BY <1>2 DEF OnLogs
  <2>2. ServedTypeOK' /\ RowsChange
    BY <1>1, <2>1, SameChange
  <2> QED
    BY <2>1, <2>2, ListRests, PageRests DEF ConsoleInv
<1>3. CASE OnList(TableNext)
  <2>1. view = "list" /\ TableNext /\ UNCHANGED <<pageVars, view>>
    BY <1>3 DEF OnList
  <2>2. ListInv'
    BY <2>1, TableTypesStep, LoadInvStep, VersionInvStep, SpinInvStep DEF ConsoleInv, ListInv
  <2> QED
    BY <2>1, <2>2, PageRests DEF ConsoleInv, ListInv, TableTypes
<1>4. CASE OnDetail(PageNext)
  <2>1. view = "detail" /\ PageNext /\ RecordServed /\ UNCHANGED <<tableVars, view>>
    BY <1>4 DEF OnDetail
  <2>2. PageTypes' /\ RowsChange /\ OwnWritesInv' /\ SeenInv'
    BY <2>1, PageTypesStep, OwnWritesStep, SeenInvStep DEF ConsoleInv, PageInv
  <2>3. PageSpinners'
    BY <2>1, <2>2, PageSpinnersStep DEF ConsoleInv, PageInv, OwnWritesInv
  <2>4. PageInv'
    BY <2>2, <2>3 DEF PageInv, SeenInv, ShownInv
  <2> QED
    BY <2>1, <2>2, <2>4, ListRests DEF ConsoleInv, PageTypes
<1>5. CASE UNCHANGED vars
  <2>1. UNCHANGED <<serverVars, tableVars, pageVars, view>>
    BY <1>5 DEF vars
  <2>2. ServedTypeOK' /\ RowsChange
    BY <1>1, <2>1, SameChange
  <2>3. SeenInv => SeenInv'
    BY <2>1 DEF serverVars, pageVars, SeenInv, RecordInv, CarriedInv, ShownInv, NoPhantomSettings, MadeFrom
  <2> QED
    BY <2>1, <2>2, <2>3, ListRests, PageRests DEF ConsoleInv
<1> QED
  BY <1>2, <1>3, <1>4, <1>5 DEF Next

\* The invariant of the list and of the page: what they hold has its type, at most one
\* list load is under way and asks for what the search box says, no answer carries a row
\* older than the one on the screen, no two recorded rows share a version, and the row and
\* the form were made from rows the server had (EnvList.tsx, app/envs/[org]/[env]/page.tsx).
THEOREM ConsoleAlways == Spec => []ConsoleInv
<1>1. Init => ConsoleInv
  BY ConsoleInvInit
<1>2. ConsoleInv /\ [Next]_vars => ConsoleInv'
  BY ConsoleInvStep
<1> QED
  BY <1>1, <1>2, PTL DEF Spec

\* The rows on the screen answer what the search box says, in whatever order loads are
\* answered (EnvList.tsx, loadEnvs and its AbortController).
THEOREM RowsAlwaysAnswerTheQuery == Spec => []RowsAnswerTheQuery
<1>1. ConsoleInv => RowsAnswerTheQuery
  BY DEF ConsoleInv, ListInv, LoadInv
<1> QED
  BY <1>1, ConsoleAlways, PTL

\* What is selected is in the list that was loaded last, on the screen or not (EnvList.tsx,
\* setSelectedKeys in loadEnvs, toggleSelectAll and executeBulkAction).
THEOREM SelectionAlwaysListed == Spec => []SelectionIsListed
<1>1. ConsoleInv => SelectionIsListed
  BY DEF ConsoleInv, ListInv, LoadInv
<1> QED
  BY <1>1, ConsoleAlways, PTL

\* No list load and no status poll is applied after a newer one (EnvList.tsx, the
\* AbortControllers of loadEnvs and fetchStatus).
THEOREM ReadsAlwaysInOrder == Spec => ReadsStayInOrder
<1>1. ConsoleInv /\ [Next]_vars => \A e \in Env: applied'[e] >= applied[e]
  <2> SUFFICES ASSUME ConsoleInv, [Next]_vars
               PROVE  \A e \in Env: applied'[e] >= applied[e]
    OBVIOUS
  <2>1. CASE UNCHANGED applied
    BY <2>1, VersionNumbers DEF ConsoleInv, ListInv
  <2>2. CASE OnList(TableNext)
    BY <2>2, VersionInvStep DEF OnList, ConsoleInv, ListInv
  <2> QED
    BY <2>1, <2>2 DEF Next, OnLogs, OnDetail, tableVars, vars
<1>2. ConsoleInv /\ [Next]_vars =>
        [\A e \in Env: applied'[e] >= applied[e]]_<<serverVars, tableVars>>
  BY <1>1
<1> QED
  BY <1>2, ConsoleAlways, PTL DEF Spec, ReadsStayInOrder

\* The row and the form are never older than what the page itself stopped or saved, save
\* for a stop whose row could not be read and a stop and a save in flight together
\* (page.tsx, handleStop and handleSettingsSave).
THEOREM PageAlwaysKnowsOwnWrites == Spec => []PageKnowsOwnWrites
<1>1. ConsoleInv => PageKnowsOwnWrites
  BY DEF ConsoleInv, PageInv, OwnWritesInv
<1> QED
  BY <1>1, ConsoleAlways, PTL

\* Settings that no row ever had are shown only while their save is in flight (page.tsx,
\* the optimistic update of handleSettingsSave and its revert).
THEOREM PhantomsOnlyWhileSaving == Spec => []NoPhantomSettings
<1>1. ConsoleInv => NoPhantomSettings
  BY DEF ConsoleInv, PageInv
<1> QED
  BY <1>1, ConsoleAlways, PTL

\* A save that reaches the row its form was made from changes the settings that were
\* edited only, and neither schedules nor cancels what was not edited (page.tsx,
\* handleSettingsSave; settingsForm.ts; detail/route.ts, PATCH).
THEOREM SavesAlwaysChangeEditsOnly == Spec => SaveChangesWhatWasEdited
<1> DEFINE A == saveCall # NULL /\ saveCall' # NULL /\ served' # served /\ saveCall'.answer = "ok"
                  /\ saveCall.answer = NULL /\ served[Here].v = saveCall.body.v
                => \A f \in Field \ saveCall.edited:
                     IF f = "replicas" THEN served'[Here].replicas = served[Here].replicas
                     ELSE served'[Here][f] = NULL <=> served[Here][f] = NULL
<1>1. ConsoleInv /\ [Next]_vars => A
  <2> SUFFICES ASSUME ConsoleInv, [Next]_vars
               PROVE  A
    OBVIOUS
  <2>1. CASE UNCHANGED pageVars
    BY <2>1, PageAssumption DEF pageVars
  <2>2. CASE OnDetail(PageNext)
    BY <2>2, SaveEditsOnly DEF OnDetail, ConsoleInv, PageInv
  <2> QED
    BY <2>1, <2>2 DEF Next, OnLogs, OnList, vars
<1>2. ConsoleInv /\ [Next]_vars => [A]_<<serverVars, pageVars>>
  BY <1>1
<1> QED
  BY <1>2, ConsoleAlways, PTL DEF Spec, SaveChangesWhatWasEdited

---------------------------------------------------------------------------
LEMMA PanelStep ==
  ASSUME PanelInv, [Next]_vars
  PROVE  PanelInv'
<1>1. CASE OnLogs(PanelNext)
  BY <1>1, PanelInvStep DEF OnLogs
<1>2. CASE UNCHANGED panelVars
  BY <1>2, PanelRests
<1> QED
  BY <1>1, <1>2 DEF Next, OnList, OnDetail, vars

\* The invariant of the log panel: every answer is a page of the table as it was when the
\* route served it, an older page is asked for only while there is one, and the list is
\* made of such pages (DeploymentLogPanel.tsx; api/envs/[id]/logs/route.ts).
THEOREM PanelAlways == Spec => [](BudgetTypeOK /\ PanelInv)
<1>1. Init => BudgetTypeOK /\ PanelInv
  BY PanelInvInit, BrowserAssumption DEF Init, BudgetInit, BudgetTypeOK
<1>2. BudgetTypeOK /\ PanelInv /\ [Next]_vars => (BudgetTypeOK /\ PanelInv)'
  BY BudgetStep, PanelStep
<1> QED
  BY <1>1, <1>2, PTL DEF Spec

\* The log on the screen is at most two pieces of the log, however polls, older pages and
\* new entries interleave (DeploymentLogPanel.tsx, fetchLogs and fetchMoreLogs).
THEOREM HistoryNeverMoreThanOneSeam == Spec => []HistoryHasOneSeam
<1>1. PanelInv => HistoryHasOneSeam
  BY PanelShows
<1> QED
  BY <1>1, PanelAlways, PTL

\* Without a button for older entries the oldest is on the screen (logs/route.ts, has_more).
THEOREM NothingOlderEverHidden == Spec => []NothingOlderIsHidden
<1>1. PanelInv => NothingOlderIsHidden
  BY PanelShows
<1> QED
  BY <1>1, PanelAlways, PTL

\* The screens and the rows behind the routes stay well formed.
THEOREM ConsoleTypeCorrect == Spec => []ConsoleTypeOK
<1>1. BudgetTypeOK /\ PanelInv /\ ConsoleInv => ConsoleTypeOK
  BY DEF ConsoleTypeOK, PanelInv, PanelBase, ConsoleInv, ListInv, TableTypes, PageInv, PageTypes
<1> QED
  BY <1>1, ConsoleAlways, PanelAlways, PTL

\* No control of the three screens stays disabled, and no spinner turns, without a call in
\* flight (the loadingMore, retrigger, stopping, decommissioning, saving and polling flags
\* of DeploymentLogPanel.tsx, EnvList.tsx and page.tsx).
THEOREM NoControlEverStuck == Spec => []NoControlIsStuck
<1>1. PanelInv /\ ConsoleInv => NoControlIsStuck
  BY DEF NoControlIsStuck, PanelInv, PanelBase, ConsoleInv, ListInv, SpinInv, PageInv
<1> QED
  BY <1>1, ConsoleAlways, PanelAlways, PTL

=============================================================================
