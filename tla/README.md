# Formal models of hetzner-k3s

TLA+ models of the program in this repository, the TLC runs that check them and
the TLAPS proofs about them. Paths below are relative to the repository root
unless they start with `worker/` or `api/`, which stand for
`control-plane/src/worker/` and `control-plane/src/app/api/`.

    tlc -config ControlPlane_requests.cfg MCControlPlane.tla
    tlapm ControlPlaneProofs.tla

## 1. The system

The repository hosts dotCMS tenants on a k3s cluster. Operators describe
environments in a web UI; the control plane keeps them as rows in PostgreSQL and a
polling worker makes the cluster agree with the rows.

| Component | State it keeps | Operations | Talks to |
| --- | --- | --- | --- |
| Tables (`db/migrations`, `worker/db-worker.ts`) | `customer_env` (one row per environment), `deployment_log` (append only), `customer_org` | the SQL statements, the `mod_date` trigger, the foreign keys | everybody |
| Environment routes (`api/envs`) | nothing between requests; the row a handler has read, while it runs | create, edit, stop, decommission, delete, retrigger; status, logs, manifest (read only) | tables |
| Polling worker (`worker/poll.ts`) | the snapshot of a cycle, the running task, the attempt | recovery of stuck rows, elapsed stops, drift detection, one task after another with retries | tables, provisioner, decommissioner |
| Provisioner, decommissioner, OpenSearch, credentials, Kubernetes wrapper (`worker/*.ts`) | database users, buckets, secrets, indices and Deployments in the cluster | ordered steps, each idempotent or error-swallowing in its own way | cluster |
| Overlays (`worker/kustomize.ts`, `templates.ts`) | none | render manifests; normalise quantities and image names | provisioner |
| Organization routes (`api/orgs`) | `customer_org` | create, edit, delete when no environment is left | tables |
| Provision route (`api/provision`) | none | one transaction: the organization, if there is none, and a pending environment | tables |
| CNAME router (`caddy-cname-router`) | ConfigMap routes, tenant cache, negative cache | resolve a host, refresh, expire | Kubernetes API |
| Web UI (`components`, `app`) | the rows, statuses, forms and log entries on the screen; the calls in flight | poll, search, edit and save, stop, decommission, delete, bulk actions, retrigger, older log pages | routes |
| Authentication (`auth.ts`, `proxy.ts`) | session cookie | a check in front of the routes | NextAuth |
| Migrations runner (`db/migrate.ts`) | applied files | apply the missing ones in order | tables |
| Tenant scripts (`tenant-*.sh`), installation scripts | none | sequences of `kubectl` and `helm` | cluster |

Everything meets in the tables. The worker runs **inside** the Next.js server
(`instrumentation.ts`), so handlers and worker interleave at every `await`, and a
crash takes all of them at once. There is one replica and its Deployment is replaced
by `Recreate` (`kustomize/deployment.yaml`): two workers never overlap.

What is hard:

- the worker decides from **one** read of the rows and acts on it for minutes, while
  requests change the same rows;
- statuses, baseline (`last_applied_config`), log and cluster are written by separate
  statements, and a crash or an error may fall between any two;
- the retry count is not kept in memory but reconstructed from the log;
- one loop serves all environments, and an exception drops the rest of a cycle;
- several handlers read in one statement and write in another;
- every object in the cluster is named after the instance `<org>-<env>`, in namespaces that
  environments share, and the names are spelled out in four files;
- a screen shows what it read seconds ago, changes it before the route has agreed, has several
  calls in flight that are answered in any order, and saves a form made from an old row.

What makes the components correct:

- **control plane**: a row at rest names what runs; `decommissioned` means that nothing
  runs, and is final; a purge never orphans resources; attempts are bounded, and none
  is given up early, across crashes; transient statuses end; due teardowns happen;
  drift is reconciled.
- **provisioner / decommissioner**: a provision that reports success has made every object, in
  a namespace that stays, and a patch takes none away; Secret and database agree on the
  password whatever fails between them; `decommissioned` leaves nothing behind; the namespace,
  which the environments of an organization share, goes with the last of them and not earlier.
- **deletions of rows**: an environment's DELETE and purge, and an organization's DELETE, act on
  what an earlier statement has read; the properties of the namespace name what these windows can do.
- **router**: no request acts on a DNS answer older than its TTL, whichever goroutine stored
  it; every request is answered, although the registry's lock is held across an API call;
  wrong answers end; a subdomain with several separators finds its tenant.
- **names**: a task of one environment leaves the objects of every other alone, of the same
  organization or of another; a deployed environment is wired to its own objects and its router
  entry leads to its own pods; the decommissioner finds all that the provisioner made.
- **web UI**: what is on the screen is what was asked for, and no read is overtaken by an older one;
  a save changes what was edited, and does not undo what the page itself reported; older log entries
  never scatter the log; no lost or late answer leaves a button dead.

The complete list of components, with what is and is not modelled, is in
`PROJECT.json` under `components`; the hazards, each at its line, under `hazards`.

## 2. The modules

| Module | Models | Extends |
| --- | --- | --- |
| `CustomerEnv` | the two tables: every statement that writes them is one operator | |
| `EnvApi` | the writing routes of `api/envs` | `CustomerEnv` |
| `PollWorker` | `pollOnce` and `runWithRetry` | `CustomerEnv` |
| `ControlPlane` | routes, worker, clocks, crashes and database errors together; the properties | both |
| `Lifecycle` | the abstract specification: what an environment looks like from outside | |
| `MCControlPlane` | symmetry, and starts from deployed environments, for TLC | `ControlPlane` |
| `ControlPlaneTypes` | proofs: type correctness and what the running task is | `ControlPlane` |
| `ControlPlaneProofs` | proofs: the safety theorems | `ControlPlaneTypes` |
| `LifecycleProofs` | proofs: `ControlPlane` implements `Lifecycle` | `ControlPlaneProofs`, instance of `Lifecycle` |
| `RetryProofs` | proofs: how often `fn()` is called, against the log; baselines | `ControlPlaneTypes` |
| `TenantSteps` | inside `provisionEnv`, a patch and `decommissionEnv`: the steps, their failures and passwords, the namespace that environments share; the organization routes, retrigger and delete | |
| `MCTenantSteps` | symmetry, for TLC | `TenantSteps` |
| `TenantStepsProofs` | proofs: type correctness, completeness of what is provisioned, database credentials; what a decommission leaves, and the namespace | `TenantSteps` |
| `TenantObjects` | the objects of several organizations by name, with what they refer to and select: `templates.ts`, `kustomize.ts`, provisioner and decommissioner | |
| `MCTenantObjects` | environments whose names meet, for TLC | `TenantObjects` |
| `TenantObjectsProofs` | proofs: when names clash; tasks keep to their own objects; what is provisioned is wired, what is decommissioned is gone | `TenantObjects` |
| `CnameRouter` | the CNAME router's tenant cache and ConfigMap registry under concurrent requests | |
| `RouteResolve` | how the router splits a subdomain into organization and environment, a function | |
| `MCCnameRouter` | both, for TLC | `CnameRouter`, instance of `RouteResolve` |
| `CnameRouterProofs` | proofs: type correctness, the age of answers, what the loop of `resolve()` finds | `MCCnameRouter` |
| `Browser` | the budget of clicks, faults and changes that the screens share | |
| `ServedEnvs` | the rows as the routes serve them; what others write meanwhile | `Browser` |
| `LogPanel` | `DeploymentLogPanel.tsx` and `GET .../logs` | `Browser` |
| `EnvTable` | `EnvList.tsx`: search, rows, polls, buttons, bulk actions, create | `ServedEnvs` |
| `DetailPage` | `app/envs/[org]/[env]/page.tsx` and `settingsForm.ts` | `ServedEnvs` |
| `Console` | the web UI: one of the three screens is open; fairness | the five above |
| `MCConsole` | what a search finds, for TLC | `Console` |
| `ConsoleProofs` | proofs: all safety properties of the screens | `Console` |

Definitions named `Mutant` in a comment are wrong variants of the next definition,
kept to show that a property notices them; nothing else uses them.

### State

- `customer_env[e]`: the row, `NULL` when absent. The seven drift-tracked columns are
  one `config`: `replicas` is kept because stopping sets it to 0, the others are one
  value of `Image`. Dates are `NULL`, `"future"` or `"elapsed"`; they elapse in an
  action of their own. `mod_date` is used in two comparisons only, and so is two
  flags: `modified` (later than `last_applied_at`) and `stale` (older than the
  ten-minute recovery cutoff). `Touched` is the trigger that moves `mod_date`.
- `deployment_log[e][a]`: the part of the log that `getRetryCount` looks at, i.e. what
  was logged for action `a` since its last `success`: the highest `retry_count` of
  the `retrying` entries, and whether `runWithRetry` has logged the end of the last attempt as
  `failed`. The `failed` entries that `runStep` writes at every failing step, of every attempt,
  have `retry_count` 0 and are not counted (`logStepFailed`).
- `requests[q]`: what a delete or retrigger handler remembers between its statements.
- `pc`, `snapshot`, `env`, `action`, `attempt`: the worker's locals. `snapshot[e]` is
  cleared when the row has been handled. The order of the rows is left open.
- `deployed[e]`: what the cluster runs for `e`, the config last applied or `NULL`. This
  is all that provisioner and decommissioner amount to here. A failed call may have
  done its work or not.
- `tries`, `count`: history. `tries` counts the calls of `fn()` since the retry window
  was reset; `count` bounds operator requests, crashes and faults, and counts the
  retriggers that reset a window and the deletes of a row that the worker was about to deploy
  (`purges`).

- The tenants (`TenantSteps`): `objects[e]` is what there is of `e`, `secret[e]` and
  `account[e]` the passwords in its two Secrets and in the two services, `namespace` the
  organization's. `task`, `env`, `step` and `pass` are the worker's place in the sequence
  `provisionEnv`, `patchEnv` or `decommissionEnv` and the password local. Of the rows only
  `deploy_status` (`stopped` is not told from `deployed`) and whether `dcomm_date` has elapsed are
  kept, of `PollWorker` that a row is taken up, that an attempt which throws is repeated or is the
  last, that a crash leaves the status, and that a row may be purged after its teardown. The snapshot
  of a cycle is not here but in `PollWorker`. `request[e]` is a retrigger or a delete that has read the row of `e`
  and not written it yet. Two histories: `provisioned` are the environments whose last task was a
  provision that succeeded, or patches after it; `orphaned` those whose row was deleted while it was
  active. A new random password is one of three values that is in use neither in the Secret nor in
  the service.
- The objects (`TenantObjects`): `cluster` maps the names that exist, of Kubernetes, PostgreSQL
  and OpenSearch, to the environment whose manifest was applied under it last (`NULL` for what an
  organization shares). A name is the sequence of its parts between hyphens, so `a-b` with `c` and
  `a` with `b-c` meet as they do in the code. `Provision`, `Patch` and `Decommission` list, step by
  step, what is applied or deleted; a manifest has the names it refers to, the labels by which it
  finds pods and those of the pods it makes. `status`, `task`, `env` and `step` are the worker's,
  `provisioned` is the same history as above.
- The screens: React state under the names of the source (`logs`, `hasMore`, `loadingMore`;
  `query`, `listState`, `rows`, `selected`; `envData`, `form`, `status`, `modal`, `saving`), and the
  calls in flight (`calls`; `loads`, `polls`, `acts`, `bulk`; `statusCalls`, `stopCall`, `dcommCall`,
  `saveCall`). An entry of the log is its id, and `deployment_log[x]` the date of entry `x`; the order of
  a page is computed from both (`Ordered`). A row of the list has its loaded `base`, its polled `live` and the spinners. `served`
  is the table behind the routes; a row there carries the number `v` of its last write, which the
  code does not have and which only properties look at. Variables marked *history* (`shownFor`,
  `applied`, `removed`, `edited`, `acked`, `unread`, `overlapped`, `ever`) are for properties, too. A date
  is past, later today or on a later day. The form keeps the day only, in the zone of the browser, and
  the route reads it as a midnight of its own: every date that is saved, edited or not, may come back
  as one that has passed or as one that is still to come (`DayAsDate`).
- The router (`CnameRouter`): `cache` is the `sync.Map` of `tenant()`; an entry has the
  service (or `NULL`, for an error), the ticks `left` until it expires and, as history, the
  `age` of its DNS answer. `cmRoutes`, `cmAge` (ticks since `cmLastFetch`) and
  `cmRoutesMu` are the registry and its lock; a read lock is taken and released within
  one step, so only the writer is recorded. `dns` and `configmaps` are the cluster.
  `ServeHTTP` and `CertificateAllowed` make the same lookups on a copy of these each;
  the module is one copy, and where the second stage ends does not matter to it.

### Actions

An action is one handler or one statement up to the next `await`. Create, edit, stop
and decommission are one deciding statement each. Delete is `DeleteSelect`, then
`DeletePurge` or `DeleteFlag`; retrigger is `RetriggerSelect`, `RetriggerLog` (or
`RetriggerLogFails` when the row is gone: foreign key), `RetriggerUpdate`. A cycle is
`StartCycle`, `RecoverProvisioning`, `RecoverReconfiguring`, `ApplyStops`,
`DetectDrift`, `FetchSnapshot`, then `Dispatch(e)` for one row after another until
`EndCycle`. A task is `MarkInProgress` (not for a patch), `RunSucceeds` or `RunFails`,
`SetFinalStatus`, `RecordApplied` or `PurgeRow`, `LogSuccess`; its catch block is
`LogRetrying`, or `MarkFailed` and `LogFailed`. `LogSuccessFails` and
`LogInCatchFails` are the inserts that the foreign key refuses. `Crash` may come at any
point, `DbErrorInTry` and `DbErrorOutside` are a throwing statement inside and outside of
the try block: the first counts as a failed attempt, the second ends the cycle.

In `TenantSteps` one step of the worker is one action: `Step` takes the effect of the
step's name (`Apply`, `PutRole`, `DropDatabase`, ...) and goes on. `Fails` is a call that
throws, with or without having taken effect; `Caught` then carries on behind the handler that
swallows the error, with a placeholder password if it is OpenSearch's, or ends the attempt.
`ReadFails` and `DeleteIgnored` are the two calls that do not notice. `Refused` needs no
fault: Kubernetes refuses objects in a namespace that is terminating, and the database
cannot be dropped without its owner. `NamespaceGone` is Kubernetes'; it may come at any time
after the deletion. The log entries of `runStep` are left out here: `getRetryCount` does not count
them. When the steps are through, the status is written (`Finish`), the row purged (`Purge`), and the
task ends (`EndTask`) or a statement after the status throws (`EndFails`). A patch is queued by
a retrigger, whatever came before (`ReadRow`, then `Retrigger` of whatever row there is by then), or by
`Drift`; it applies the overlay and nothing else, and writes `deployed`.

In `TenantObjects` a numbered step is one action, `ApplyStep` or `DeleteStep`; one that throws did all
of it or none, and the row becomes `failed` or, if the process died, stays as it is (`StepFails`); the
ones whose handlers swallow errors go on (`Swallowed`). `Decommissioned` is step 11 with the count of the
organization's other environments. `Retrigger` queues any task for any row; `BeginPatch` does not ask
whether the environment was ever provisioned, as the worker does not.

On a screen, a call is three actions: it is sent by a timer or a click, served by the route
(`ServeCall`, `ServeStatus`, `ServeSave`, ...), and its answer is applied (`ApplyPoll`, `ApplyLoad`,
`ApplySave`, ...); or it fails before or after it was served. Anything may happen in between, and
calls of the same kind overtake each other, save where the code aborts one: a list load aborts the
load before it, a status poll the poll of the same row. Effects that React runs on a change of
state are part of the action that changes it: a list that becomes ready polls all of its rows at once.
The routes are one atomic operator each here (`Accepts`, `Written`); `EnvApi` has their statements.
`WorkerWrites` and `OperatorWrites` are what everybody else does to a row meanwhile.

In the router an action ends where another goroutine can be noticed: at an access to the
cache, a lock, a DNS or an API call. A request is `Request`, then `CacheHit`, or `CacheMiss`,
`Resolve` and `Store`; then `Pods` for a tenant, or `CmRead` and, when the registry has
expired, `CmLock`, `Fetch` and `Install` (or `FetchFails`), `CmReread`. `Change` is the
cluster's, `Tick` the clock's: it waits for `Store` when the answer is `MaxLookup` ticks
old, which names the time that scheduling may put between the two.
`RouteResolve` is the loop of `resolve()` as a recursive function over the length of what
remains; `LongestOrgWins` compares it with the maximum of the splits that DNS knows.

## 3. The runs

| Run | Bounds | What it checks |
| --- | --- | --- |
| `requests` | 1 environment, new or deployed, 1 image, replicas 0..1, 2 handlers, 2 requests, 3 attempts, 1 crash, 1 database error | `TypeOK`, `CleanRowIsApplied`, `DecommissionedIsGone`, `PurgeLeavesNothing`, `AttemptsBounded`, `NoEarlySurrender`, `DeployedHasBaseline`, `DecommissionedIsFinal`, `KeepsLifecycle` |
| `liveness` | 1 environment, 2 requests, 2 attempts, 1 crash, 1 database error | `InProgressEnds`, `VisibleDriftIsReconciled`, `DueTeardownHappens` |
| `two_envs` | 2 environments that start deployed, 2 requests, 1 attempt, 1 database error | `InProgressEnds`, `DueTeardownHappens` |
| `cname_router` | 2 goroutines, 1 host, 1 service, TTLs 2 and 1, interval 2, 1 change, 1 failed call; subdomains of up to 8 characters | `AnswersAreFresh`, `RequestsAreAnswered`, `WrongAnswersEnd`, `ResolutionIsRight` |
| `tenant_steps` | 2 environments of one organization, 4 requests, 2 failures or crashes | `DeployedIsComplete`, `DatabaseCredentialsAgree`, `DecommissionedHasNoObjects`, `NamespaceServesOthers`, `LastOneCleansUp` |
| `tenant_objects` | 4 environments of 2 organizations, among them `a`/`b-b` with `a-b`/`b` and `a`/`b` with `a`/`b-hl`; 3 requests, 3 tasks, 2 failures or crashes | `DeployedIsWired`, `TrafficStaysHome`, `NothingLeftBehind`, `OthersUntouched` |
| `console` | 2 environments, 2 queries, pages of 1 entry over 2 older ones, 2 panel calls, 1 operator call and 1 timer poll at a time, 2 clicks, 1 failed call, 1 change by others, 3 of these in all | `ConsoleTypeOK`, `HistoryHasOneSeam`, `NothingOlderIsHidden`, `RowsAnswerTheQuery`, `SelectionIsListed`, `ReadsStayInOrder`, `PageKnowsOwnWrites`, `NoPhantomSettings`, `SaveChangesWhatWasEdited`, `NoControlIsStuck`, `ScreenCatchesUp` |
| `lost_drift` | | finding: `DriftIsSeen` is violated |
| `exhausted` | | finding: `ExhaustedIsSkipped` is violated |
| `stopping` | | finding: `AnyStateIsTornDown` is violated |
| `lost_delete` | | finding: `DeletedIsPurged` is violated |
| `search_credentials` | 1 environment, 2 requests, 1 failure | finding: `SearchCredentialsAgree` is violated |

- `CleanRowIsApplied`: a row at rest that nobody has written since its baseline was
  recorded names what runs. The worker must record what it applied and not what the
  row says by then.
- `DecommissionedIsGone`, `PurgeLeavesNothing`: `decommissioned`, and the purge, come after
  the teardown, never on top of a provision or a failed attempt.
- `DecommissionedIsFinal`: with two exceptions, which the property names, nobody brings a
  decommissioned row back. One is a retrigger that read the row before the
  decommission completed (`api/envs/[id]/retrigger/route.ts:102` and its UPDATE are
  separate statements), the other a decommission whose last statement threw: the attempt
  counts as failed and the next one starts over.
- `AttemptsBounded`, `NoEarlySurrender`: the two sides of reconstructing the retry count.
  A crash, an error or a retrigger costs one attempt more at most; and a row *becomes* `failed` by its
  own task only, for a provision or a patch after `MAX_RETRIES` calls of `fn()`, although every failing
  step of every attempt has written `failed` entries into the log before (`worker/logger.ts:57-67`): the
  query that counts must not see these. A delete is an exception of both: `DeletePurge` removes
  whatever row has the key by then, and the log with it, so that a row which was deleted and created
  again since the snapshot is worked at once more, or inherits the attempts of the old one.
- `DeployedHasBaseline`: drift of a deployed environment can be detected, because a baseline is
  there when its task is over. A crash or an error between the status and the baseline loses it for
  good, since drift detection skips such rows (see *Beside the runs*); the property names these, and a
  retrigger of `patch` ahead of the first provision, as its exceptions.
- `KeepsLifecycle`: seen from outside, every step is one of `Lifecycle`: resources come and go only
  for the environment the worker is at, never once it is decommissioned, and `deployed`, `stopped`
  and `decommissioned` are written only when they are true. Requests may write the status at any
  time, which is why nothing stronger can be said of a row between two tasks.
- `InProgressEnds`: `pending`, `provisioning`, `reconfiguring` and `decommissioning` are
  left again, whichever of the crash points interrupted the work.
- `VisibleDriftIsReconciled`: once operators are quiet, no row that the drift query
  selects stays.
- `DueTeardownHappens`: an elapsed `dcomm_date` leads to a teardown, or to a logged
  failure, unless the date is taken back.
- `DeployedIsComplete`: no swallowed error, lost answer or new start of the sequence lets a
  provision report success with an object or a Secret missing, and no patch, retrigger or purge and no
  later decommission of another environment takes any of it away. OpenSearch's roles are the
  exception: their errors are swallowed. It speaks of environments that were *provisioned*, not of the
  status `deployed`: a retriggered `patch` ends in `deployed` over whatever there is, which may be
  nothing (see *Beside the runs*).
- `DatabaseCredentialsAgree`: reading the Secret first and then setting the role's password
  either way brings both together again, wherever the attempt before broke off, even
  when the Secret could not be read. It speaks of the same environments.
- `DecommissionedHasNoObjects`: three handlers of the decommission swallow errors; none of them
  leaves anything in Kubernetes, inside or outside of the namespace. (The database and the
  OpenSearch user may stay behind: their errors are the swallowed ones.)
- `NamespaceServesOthers`, `LastOneCleansUp`: the count and the deletion of the namespace are
  separate calls, and rows come and go between them; still nobody's objects are lost, and no
  namespace is left over. The exception are environments whose row was deleted while it was
  active (`orphaned`). Two windows lead there: an environment created between the count and the
  transaction of an organization's DELETE, and a row that was retriggered or created anew between the
  reading of `decommissioned` and the purge, which goes by key.
- `DeployedIsWired`, `TrafficStaysHome`: the overlay patches the names and selectors of
  `dotcms-base` one by one; once an environment has been provisioned, and through all patches of it or
  of any other, every name that a manifest refers to exists, what belongs to the
  environment was applied for it, and the Services behind its router entry select its own pods only.
- `NothingLeftBehind`: the decommissioner finds everything in Kubernetes although it spells the names
  again, also when the namespace stays for others.
- `OthersUntouched`: no task changes what belongs to another active environment, of the same
  organization or of another. The exception, in all four, are environments whose names clash.
- `HistoryHasOneSeam`, `NothingOlderIsHidden`: what the panel shows is at most two pieces of the log,
  each without a gap or a repetition, and when the button for older entries is missing there are none.
  The seam is where a page that was asked for before a poll replaced the list is appended after it
  (`DeploymentLogPanel.tsx:340`, `373`); the property includes that interleaving and says that no number
  of polls and clicks makes it worse. It excepts concurrent INSERTs whose dates and ids disagree (the
  cursor is the id, the order is the date); the other has no exception.
- `RowsAnswerTheQuery`, `SelectionIsListed`: overlapping loads leave the rows of the newest query;
  what is selected is in the list that was loaded last, or was taken out of it by its own delete button.
  That the list is on the screen is not said: see *Beside the runs*.
- `ReadsStayInOrder`: of the list's loads and status polls none is applied after one that was computed
  later, because polls of a row abort each other and a load ends all of them. The answers of stop,
  decommission and delete are not among these calls: what they show in advance may be undone by a poll
  that was served before them (see *Beside the runs*).
- `PageKnowsOwnWrites`, `SaveChangesWhatWasEdited`, `NoPhantomSettings`: the form is made anew from the
  row that a stop or a save returns, so a save does not undo them; a save changes what was edited and
  nothing else; settings shown in advance are taken back if the save fails. The exceptions: what others write
  meanwhile *is* overwritten (the route compares nothing); so is the page's own decommission, whose
  answer changes neither row nor form; a stop and a save that are in flight together; and a stop that is
  reported although the row it returned could not be read (`page.tsx:186`). Of a date that was not edited
  the second says only that it is there after the save if it was before: every save cuts the dates to a
  day, and so moves them, sometimes into the past.
- `NoControlIsStuck`, `ScreenCatchesUp`: every spinner belongs to a call in flight; once the others
  rest the screen comes to show what the polls bring: the newest log entries, the status of every row, that
  of the page. The settings on the page and the other columns of the list are not polled and may stay old
  after a lost answer. The badge of the list falls back to the dates of the loaded row where the polled ones are null (`EnvList.tsx:247`), so after
  somebody else's redeploy it says `stopping` until the list is loaded again.
- `AnswersAreFresh`: although the slower of two goroutines may overwrite a newer entry and
  give its old answer a full TTL, no answer in use is older than `MaxLookup` and one TTL.
- `RequestsAreAnswered`: the write lock is held while the API is asked; every path out of
  `refreshCMRoutes`, the failing ones included, gives it back.
- `WrongAnswersEnd`: once the cluster is quiet and calls succeed, what a request is told
  is what the cluster holds: neither a negative entry nor an old registry survives.
- `ResolutionIsRight`: leading, trailing and repeated separators included, the loop
  finds the longest organization among the tenants that DNS knows. Two tenants whose keys
  join to the same subdomain (`a` with `b-c`, `a-b` with `c`) are therefore not both
  reachable; nothing in the organization or environment routes forbids the pair.

**Why the bounds are enough.** Environments interact only through the one loop: its
order and the rows dropped from a snapshot. Two environments show it; the safety
properties are about one environment, and all of them are proved for any number. `requests` starts
from no environment, or from a deployed one, so that its two requests are a create and a change, or a
change while a task runs and a second one (delete, retrigger) on top of it; two handlers let them
race. Two replica counts distinguish "what runs", "what is asked for" and "what was recorded".
One crash and one error at any point cover each gap between two statements, and with the
source's three attempts a crash can fall between any two. `MaxOps`,
`MaxCrashes` and `MaxFaults` are the only bounds; deadlock is checked everywhere, the
worker never stops. `EntryDate` is what an operator may enter in a date field: every date,
but for `two_envs`, where dates come from the stop, decommission and delete requests
only. That run also starts from two environments that have been created and provisioned,
so that its two requests are about running environments (a purge that drops the other
environment's task, say) and not spent on creating them.
In `tenant_steps` two environments are one that goes and one that comes or stays; four
requests are enough to create both, to decommission one, and to retrigger or delete it, or to
delete a row that a retrigger has brought back. Two faults
are a failure and a crash, or a failure in each of two attempts. The environments
are alike, so symmetry is sound (the run has no liveness property). `TenantSteps_requests.cfg`, beside the
runs, has six requests and no faults: a row is brought back or deleted wrongly *and* its sibling torn down. It does not check for deadlock: requests and faults run out, and
then there is nothing left to do.
In the router hosts share nothing but the registry, so one host is enough; two goroutines
are one that is slow and one that overtakes it. The TTLs differ, the interval is long enough
for the three cases of the double check (younger than half, between, expired), and one change and
one failure may come anywhere. The proofs cover any number of each, and subdomains of any length.
In `tenant_objects` names meet in the two ways they can; three tasks bring up two environments and
take one of them down, or patch what was never provisioned, or fail and are repeated. Three requests create two
environments and retrigger one. The proofs cover any keys and any number of tasks. In `console` two calls of a kind are enough for one to overtake the other (the list's
polls and loads abort each other and are not bounded); pages of one entry make every entry a page
boundary. Three clicks, faults and changes are, say, a stop, a lost answer and a write of the worker.
What these bounds cut off matters to `ScreenCatchesUp` only; the other ten properties are proved for any.
Both runs do not check for deadlock: when tasks or clicks run out, or the row is gone, there may be
nothing left to do.

**Fairness.** The control plane's `FairSpec` assumes weak fairness of the worker (`runLoop` never ends: it
catches everything and sleeps `POLL_INTERVAL_MS`), of each handler in flight (an HTTP
handler runs to its end), and of the clock for each date. Nothing obliges an operator to
ask, and a crash or an error need never happen. It is weak fairness of the worker as a
whole: `RunSucceeds` need not be chosen, so the properties hold even if every
attempt fails, and with any order of rows. The router's `FairSpec` assumes strong fairness
of each goroutine: one that waits for the lock is enabled again and again, and a
`sync.RWMutex` passes nobody over for ever (a waiting writer stops new readers, and is itself
served in turn). Clients need not ask; the clock runs. The screens' `Fairness`: timers fire, a
request that was sent is served and its answer applied unless it fails, an INSERT that was begun
ends. Of the operator and the other writers nothing is assumed. The list's `ApplyStatus` is strongly
fair, because a tick of the timer aborts a poll that is not answered yet: this says that the status
route does not always take longer than the interval.

### Findings

Five statements of the repository's comments on the worker are not what the code does; each is a run
that ends in a counterexample, and `PROJECT.json` quotes the line.

1. `lost_drift` (`worker/db-worker.ts:186-189`): an edit made while a task runs has an older
   `mod_date` than the `last_applied_at` that the task sets at its end, so the drift query
   never selects the row.
2. `exhausted` (`worker/db-worker.ts:318`): a decommission that failed is run again, one attempt in
   every cycle, because `failed` rows with an elapsed `dcomm_date` are polled and the
   window holds `retrying` entries up to `MAX_RETRIES - 1` only.
3. `stopping` (`worker/poll.ts:21`): `stopping`, which retrigger sets, is not among the
   statuses polled; such a row is never decommissioned.
4. `lost_delete` (`db/migrations/005_add_pending_delete.sql:11-13`): a delete that
   arrives while the decommission runs is never carried out, since `pending_delete` is
   read from the snapshot.
5. `search_credentials` (`worker/opensearch.ts:269`): the OpenSearch user is created before
   the Secret; if a call after that fails, the handler in `provisioner.ts` stores a
   new password in the Secret while the user keeps the first, and existing users are skipped
   ever after.

`DriftIsSeen`, `AnyStateIsTornDown` and `DeletedIsPurged` are temporal, and their
counterexamples are behaviours of `FairSpec`.

### Beside the runs

Seven more texts are contradicted by the code. Each is a property of a module, with a configuration
that ends in a short counterexample; they are not among the runs of `PROJECT.json`, whose passing properties
name these cases as exceptions or are stated so that they include them.

| Configuration | Property | The text | What happens |
| --- | --- | --- | --- |
| `ControlPlane_lost_baseline.cfg` | `SkippedWasNeverProvisioned` | `worker/db-worker.ts:195-197`: rows without a baseline "have never been successfully provisioned" | a crash between the status `deployed` (`poll.ts:226`) and the baseline (`poll.ts:228`) leaves a provisioned row without one, which no recovery selects |
| `TenantSteps_patched.cfg` | `DeployedIsLive` | `components/DeploymentStatusPanel.tsx:60`, of `deployed`: "Environment is live and serving traffic" | a `patch` is retriggered before any provision (`retrigger/route.ts:139`); the row becomes `deployed` with an overlay, or nothing |
| `TenantSteps_stale_delete.cfg` | `DeletedWasCleanedUp` | `worker/db-worker.ts:376-377`: "Only call this after all Kubernetes/Postgres/OpenSearch resources have been cleaned up by the decommissioner" | a retrigger that was read before the teardown ended brings the row back between DELETE's SELECT and its purge |
| `Console_history.cfg` | `HistoryIsContinuous` | `components/DeploymentLogPanel.tsx:352-356`: "a continuous scrollable history" | an older page is appended to the list of a later poll; the next poll mends it |
| `Console_undone_stop.cfg` | `StopStaysVisible` | `components/EnvList.tsx:608-610`: "will show 'stopping' until the worker patches K8s" | a poll that was served before the stop is applied after it |
| `Console_stale_selection.cfg` | `NoStaleSelection` | `components/EnvList.tsx:873`: "Clear selection on every list reload so stale selections don't persist" | a reload fails: the selection stays, and a bulk action can be confirmed with no row on the screen |
| `Console_unread_stop.cfg` | `ReportedWritesAreShown` | `app/envs/[org]/[env]/page.tsx:185`: "Apply the returned row so replicas=0 and stop_date are immediately visible" | the body of an accepted stop cannot be read: it is reported as done, and row and form stay as they were |

    tlc -config Console_history.cfg MCConsole.tla

## 4. The proofs

Every safety invariant and every action property that a passing run checks is a theorem, for every value
of the constants: any environments, organizations, keys, handlers, goroutines, attempts, page sizes,
requests, crashes and errors. The theorems hold under the assumptions that the modules state beside
their constants, and TLC evaluates all of them:

- control plane: at least one attempt, `NULL` is none of the values (`ConstantsAssumption`,
  `InFlightAssumption`), operators enter dates (`EntryDateAssumption`), bounds are naturals
  (`BoundsAssumption`);
- tenants: `TenantAssumption`, the same; names: `ObjectsAssumption`, keys are nonempty, no organization has
  the key of the router's own namespace, and `NULL` is no environment, status or task;
- router: `RouterAssumption`, TTLs, interval and `MaxLookup` are positive, `NULL` is none of the values;
- screens: `BrowserAssumption`, `ServedAssumption`, `TableAssumption`, `PageAssumption`, `PanelAssumption`:
  bounds are naturals, a page has at least one entry, finitely many INSERTs are under way at a time, the
  page shows an environment that exists, the slots of timer polls and awaited polls are different, and
  `NULL` is none of the records.

| Theorem | States |
| --- | --- |
| `TypeCorrect` | `Spec => []TypeOK` |
| `SoundAlways` | in addition, a running task is what its snapshot row calls for, and `fn()` is called only with an attempt left |
| `IInvAlways` | the inductive invariant |
| `CleanRowIsAppliedAlways` | `Spec => []CleanRowIsApplied` |
| `DecommissionedIsGoneAlways` | `Spec => []DecommissionedIsGone` |
| `PurgeLeavesNothingAlways` | `Spec => []PurgeLeavesNothing` |
| `DecommissionedIsFinalAlways` | `Spec => DecommissionedIsFinal` |
| `KeepsLifecycleAlways` | `Spec => KeepsLifecycle` |
| `ImplementsLifecycle` | `Spec => Promised!Spec`: `ControlPlane` implements `Lifecycle` |
| `RetryInvAlways` | the inductive invariant of the retries |
| `AttemptsBoundedAlways` | `Spec => []AttemptsBounded` |
| `NoEarlySurrenderAlways` | `Spec => NoEarlySurrender` |
| `DeployedHasBaselineAlways` | `Spec => []DeployedHasBaseline` |
| `TypeCorrect` of `TenantStepsProofs` | `Spec => []TypeOK` of the tenants |
| `DeployedIsAlwaysComplete` | `Spec => []DeployedIsComplete` |
| `DatabaseCredentialsAlwaysAgree` | `Spec => []DatabaseCredentialsAgree` |
| `DecommissionedAlwaysHasNoObjects` | `Spec => []DecommissionedHasNoObjects` |
| `NamespaceAlwaysServesOthers` | `Spec => NamespaceServesOthers` |
| `LastOneAlwaysCleansUp` | `Spec => LastOneCleansUp` |
| `ClashIsExact` | the own names of two environments meet if and only if the environments clash |
| `TasksKeepToThemselves` | `Spec => OthersUntouched` |
| `ObjectsAlways` | the inductive invariant of the objects by name |
| `NothingIsLeftBehind` | `Spec => []NothingLeftBehind` |
| `DeployedAlwaysIsWired` | `Spec => []DeployedIsWired` |
| `TrafficAlwaysStaysHome` | `Spec => []TrafficStaysHome` |
| `RouterTypeCorrect` | `Spec => []TypeOK` of the router |
| `AnswersAreFreshAlways` | `Spec => []AnswersAreFresh` |
| `LongestOrganizationWins` | for subdomains of any length and any tenants, the loop of `resolve()` finds what `LongestOrgWins` says |
| `ResolutionIsAlwaysRight` | `Spec => []ResolutionIsRight` |
| `ConsoleAlways` | the inductive invariant of list and page |
| `RowsAlwaysAnswerTheQuery` | `Spec => []RowsAnswerTheQuery` |
| `SelectionAlwaysListed` | `Spec => []SelectionIsListed` |
| `ReadsAlwaysInOrder` | `Spec => ReadsStayInOrder` |
| `PageAlwaysKnowsOwnWrites` | `Spec => []PageKnowsOwnWrites` |
| `PhantomsOnlyWhileSaving` | `Spec => []NoPhantomSettings` |
| `SavesAlwaysChangeEditsOnly` | `Spec => SaveChangesWhatWasEdited` |
| `PanelAlways` | the inductive invariant of the log panel |
| `HistoryNeverMoreThanOneSeam` | `Spec => []HistoryHasOneSeam` |
| `NothingOlderEverHidden` | `Spec => []NothingOlderIsHidden` |
| `ConsoleTypeCorrect` | `Spec => []ConsoleTypeOK` |
| `NoControlEverStuck` | `Spec => []NoControlIsStuck` |

### Rows and cluster

The properties speak of rows and the cluster, but the next statement of the worker is
decided by its snapshot and its task. `IInv` adds what has to be known of them:

- `AppliedInv`: from the return of `fn()` to the end of the task the cluster holds the
  task's target; hence the status, the baseline and the purge that follow are true.
- `DoneInv`: a decommissioned environment has nothing running **and no row in the
  snapshot**, other than that of the decommission that has just brought it there. It
  is why an older snapshot cannot provision it again: decommissioned rows are not
  polled, and the only step to `decommissioned` is that of its own task.
- `FinalInv`: without database errors that decommission has only its last statements left.
- `CleanInv`: a row that waits in the snapshot for a patch is not clean, because it was
  `reconfiguring` when it was read and every way back to rest sets `mod_date`; and one
  whose task may still call `fn()` is clean only if the call would change nothing.

The step lemmas are organised by what a step can disturb: `RowChange` says what any
step but two may do to a row, `Bystanders` which steps leave the task and the cluster
alone; each invariant then needs the few steps that matter to it. TLC checked `IInv`
before it was proved.

The refinement maps a row to its status (`Standing`), the cluster to "something runs" (`Running`)
and the worker's `env` to `busy`. Each action is shown to be one step of `Lifecycle` or to leave all
three alone (`OperatorSeen`, `RequestSeen`, `CycleSeen`, `WorkSeen`, ...). Two of them need `IInv`:
that resources of a decommissioned environment are left alone is `DoneInv`, that `deployed` is
true when it is written is `AppliedInv`. `IdleInv` adds that the worker is at nobody between tasks.

### Retries

`AttemptsBounded` relates calls of `fn()` to a number that is read back from the log, by a worker that
keeps its own copy (`attempt`), under a log that requests reset. `RetryInv` says how the three go together:

- `CountInv`: the copy is never behind the log.
- `BudgetInv`: what the log does not account for was *granted*, by a crash, an error, a retrigger (once
  it has queued the row, not when it resets the window; `Logged` is the difference) or a purge.
  One call may be unaccounted for while the task is at it (`Spent`), none where the worker may come
  back by itself (`MustRest`), and one must be to spare where the row is missing and its task is yet to run,
  because the foreign key will refuse its entry (`MustSpare`).
- `HonestInv`: the log claims no call that was not made.

`NoEarlySurrender` is about steps: a row becomes `failed`. That only its own task writes `failed`
(`FailedByTask`), and that it does so with the last attempt behind it, is read off the steps; that the
attempts were really made is `HonestInv`. The `failed` entries which `runStep` writes at a
failing step of *any* attempt (`logStepFailed`) have retry count 0 and are no evidence of either.

`BaselineInv` is about the gap between the status and the baseline: only the row whose baseline is written
next lacks it. It must include `reconfiguring`, whose patch does not care.

### Tenants

The properties speak of the end of a provision, so the invariant says what each
step has left for it: `ProvisionInv` relates the number of the step to the objects that are
there and to the password in hand, in the role and in the Secret. What they promise, they promise
of the environments in `provisioned`: a provision succeeded, and since then there were at most patches. That
is not what the status says, because a patch makes any row `deployed`. `TaskInv` keeps the environment of a
provision or a decommission out of it meanwhile; a patch only adds (`EffectOfPatch`) and so
disturbs none. `RowInv`: what was provisioned has a row, and not a decommissioned one. `LastInv`
says that a decommission which has got to the deletion of the namespace has nothing provisioned beside it.
The steps that swallow errors need `ProvisionCaught`: the handler carries on behind OpenSearch's steps, and no
object is skipped.

The way down has `CleanupInv`. `DecommissionInv` is the mirror of `ProvisionInv`: what the steps behind
deleted is gone, swallowed errors included, since the steps that swallow are not those of Kubernetes.
`ClearInv` adds that an environment without a row, or with a decommissioned one, has nothing and is nobody's
task. `NamespaceInv` carries the count over to the deletion that is a separate call: before it, nobody else
has anything, and after it either the namespace is going or somebody is left. The exception of both is
`orphaned`: environments whose active row went under them, with their organization or by a purge
that deleted by key what it had read before.

### Names

The argument is about sequences: `instanceName` is a concatenation and suffixes are
appended, so two names of the same kind are equal only if the instances are, or if one instance is
the other with the suffix (`-hl`, since environments `x` and `x-hl` can both exist). A task then
touches names of its own environment and those its organization shares. The deletion of the namespace
takes whatever is in it, but it waits for the count of the organization's other active environments to
be zero, and those of other organizations have their own.

For what is in the cluster the invariant has four parts. `HistoryInv`: what was provisioned has an active
row, and of the tasks only a patch may be at it. `OwnerInv`: whatever exists was applied for an environment that
has a row. `WiredInv`: what the steps behind applied is there, and what a provisioned environment was
given stays, as long as nobody clashes with it. `GoneInv`: what the steps behind deleted
is gone, and stays so. `DeployedIsWired` and `TrafficStaysHome` follow from the tables alone: every name
that is referred to is applied by a step of the same list, and selectors and labels match only at home.

### Router

The invariant is `FreshInv`. What bounds the age of an answer is that an entry which is
still valid satisfies `age + left <= MaxLookup + TTL` (`EntryInv`): a tick adds to one and takes
from the other. `LookupInv` says the same of an answer that is yet to be stored. It holds
for every writer on its own, which is why the order of the writers does not matter.

The loop of `resolve()` is a recursive function on the length of what remains. Nothing is proved about it
by an induction scheme, but a counterexample to what a turn should return would have a least one
(`LeastNat`, from the well-foundedness of the naturals), and the turn before it decides (`TurnIsRight`):
either this separator splits off a tenant that DNS knows, or the separator before the next one does.

### Screens

What makes the list right is `LoadInv`: there is one load at a time, it asks the query of the box, and
nothing is polled while it runs. Hence whatever polls or other calls come back, no row of an older query
gets on the screen. `VersionInv` puts every row that a load or a poll carries between the one that was read
last and what the server has; with one poll per row and none across a load, what is read next is not older.
It says nothing of what a stop or a decommission shows in advance: an older poll may undo that.

The page needs more, because a save carries a form made from an older row and may fail. `OwnWritesInv`
relates the row to which a failed save returns to the one on the screen, unless a stop and a save
overlapped or the row of an accepted stop could not be read, which it remembers (`overlapped`, `unread`). `SeenInv` says that every row in flight, on the screen or behind the form
is one that the server had, and that no two recorded rows have the same version; so a form that has the
server's version differs from the server's row in the edited fields only, but for its dates: these are cut to
days and may be any date, elapsed or not, though none comes or goes. That is what a save changes.

The panel's `PanelInv` is about answers before they arrive: `AnswerIsPage` says that each was a page of the
table when it was cut, directly below its cursor, and that "no more" means that it reached the first entry;
tables only grow, so it is true when it is applied, too (`PagesStay`). `SeamInv` says that at most one older
page is in flight, and that the list either falls by one from entry to entry, since a poll has replaced
it, or ends at that page's cursor. What is appended therefore makes no second seam (`LogsInv`), unless
dates and ids disagree. That a page
has the entries in order, each once, is a pigeonhole argument about ranks (`OrderedEntries`).

`SpinInv`, `PageSpinners` and `PanelSpinners` tie every spinner to a call in flight.

### What attempts at proof have shown

- `AttemptsBounded` and `NoEarlySurrender` had no exception for deletes, and hold in the runs without it,
  whose bounds do not let a create, a decommission, a delete, a create and another delete meet. The attempt
  to prove them found it: `DeletePurge` deletes by key the row that an operator has created after the handler
  read the old one, together with the new log, and the worker, which has the new row in its snapshot,
  runs a task whose entries the foreign key refuses. `count.purges` counts these.
- `ReadsStayInOrder` excepted loads that somebody overtook; the exception was not needed.

### Only model-checked

The liveness properties of control plane, router and screens (`InProgressEnds`, `VisibleDriftIsReconciled`,
`DueTeardownHappens`, `RequestsAreAnswered`, `WrongAnswersEnd`, `ScreenCatchesUp`), since fairness is
beyond the prover. The five findings and the seven properties beside the runs are counterexamples.

### Observed

Things met while modelling that no run reports, because no text of the repository says otherwise,
or because a property names them as its exception:

- The overlay gives Services and the disruption budget the instance as a selector, but not the
  Deployment: its `matchLabels`, and with them the pods that the autoscaler counts, are `app: dotcms`,
  which is every environment of the organization.
- `limitrange.yaml` says that it matches `limitRangeSpec` in `templates.ts`; the figures differ, and each
  provision applies the one and then the other.
- The router finds two tenants under one subdomain when their keys join to the same name; nothing in
  the routes forbids the pair, nor an environment `x-hl` beside `x`, nor an organization with the key
  of an infrastructure namespace (`ObjectsAssumption` rules that out).
- The settings form cuts every date to a day of the browser's time zone, and the route reads that day as
  midnight UTC: any save, whatever it edits, moves the dates of the row, and one later today has then passed.
- The timer of a retrigger's banner enables the button while the next retrigger is in flight.

## 5. Not modelled

- Figures, images and environment variables in manifests. Readiness of a Deployment is a choice:
  between `RunSucceeds` and `RunFails` in `PollWorker`, between `Step` and `Fails` in `TenantSteps`,
  between `Applied` and `StepFails` in `TenantObjects`.
- PATCH of an organization: it changes descriptive columns only. OpenSearch's action groups and
  seed index stand and fall with its roles, and these with its user.
- Requests that are refused (400, 404, 409, 422): they change nothing. (The screens see the refusal.)
- `worker_state`: nothing reads it back. `stopWorker`: nothing calls it. The `stop` branch of
  `runWithRetry`: no cycle selects `stopping`.
- The order of rows in a snapshot, formatting of the log and its filters, which the panel does not use.
- The router's Caddyfile parsing, its choice of a pod (sticky cookie), forwarded headers and
  the decoding of ConfigMaps; the rate at which a failing API is asked again.
- Of the web UI: the organization list and its dialogs, the manifest and log dialogs, looks and
  wording. `EnvironmentStatusDashboard`, `EnvForm` and `OrgForm` are on no page.
- Manifest and health routes: they render one row, or nothing. Authentication: a check without state.
- The migrations runner: one loop before anything else runs, a transaction per file. The tenant and
  installation scripts: sequences that somebody runs by hand. Static manifests, other than
  `dotcms-base`, which `TenantObjects` has.

## 6. Plan

Done: the control plane with its abstract lifecycle, the steps and the names by which it provisions
and decommissions, the CNAME router, the screens; and proofs of all safety properties that the passing runs check.
What is left:

1. The log as a sequence of entries, with `getRetryCount` as its query, and a proof that the window
   `deployment_log[e][a]` is what the query says of it.
2. That the steps of `TenantSteps` implement what `PollWorker` takes for one call of `fn()`: the end of a
   provision with everything there, the end of a decommission with nothing; with the snapshot of a cycle,
   which `TenantSteps` leaves to `PollWorker`.
3. An abstract specification of the router's `tenant()`: the answer is one that DNS gave within
   `MaxLookup` and a TTL.
