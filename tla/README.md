# Formal model of Canvas Standalone

TLA+ modules, TLC runs and TLAPS proofs for Canvas Standalone: a Go backend
(`backend/`), a TypeScript front end (`frontend/`) and the scripts that deploy
them (`deploy/`). Paths below are relative to the repository; `job.go:493`
stands for `backend/internal/job/job.go`, line 493. `PROJECT.json` lists the
components, runs, theorems, hazards and findings, and maps every definition to
the lines it translates.

Contents: 1 the system, 2 the modules, 3 the runs, 4 the proofs,
5 disagreements found, 6 what is left out, 7 what would come next.

## 1. The system

A browser draws on a canvas. The project is kept by the API server
(`canvas-api`) in PostgreSQL and an object directory. Pictures are generated by
an external service: the API writes a job row, and worker processes
(`canvas-worker`) claim rows, call the service (each call is paid for), store
the pictures as assets and settle the row. Nothing but the database connects
API and workers. Two slots, `stable` and `candidate`, run side by side behind
a path proxy that follows a route file.

| component | state | operations | what is hard | what makes it correct |
|---|---|---|---|---|
| Job queue and worker (`job.go`, `cmd/canvas-worker`) | `canvas_jobs`, `canvas_job_results`, the worker's local variables | submit, cancel, claim (with the sweep of expired leases), BeginUpstream, the call, MarkSaving, store assets, Complete, Fail | workers that crash or stall between any two steps, expiring leases, lost database calls, a cancellation meeting a dispatch | one paid call per job, one outcome, decided by the holder; every job is settled |
| Job admission (`job.go` Create) | rows of `canvas_jobs` | POST /jobs with an Idempotency-Key | checks in separate queries; the client repeats the call | one job per key, never on facts older than the call |
| Model policy (`policy.go`, `model-policy-page.tsx`) | policy row, items, audits, the page | Get (two queries), Update (version check) | several administrators, unanswered saves, a torn Get | no edit is lost unseen |
| Project saving (`use-canvas-store.ts`, `project.go`) | the store of each tab, IndexedDB drafts, `canvas_projects` | open, edit, autosave, save now, create, retry, reload, close | timers, edits and answers interleave; tabs close; late requests | versions do not run ahead of content; closing loses nothing; saves end |
| Credentials (`credential/`) | `canvas_credentials` | bind, verify, disable, delete | a late 401 disables a newer binding | only "usable" is modelled, in `JobAdmission` |
| Job events, polling, task recovery (`canvas-job-controller.ts`, `canvas-task-recovery.ts`, `api.go`) | streams and polls per request, records of tasks, slots for pictures | generate, retry, stop, delete, stream, poll, draw, reload, recover | answers in any order, streams that end early, replaced pages, late timers | no slot for two tasks, nobody waits for nothing, no job forgotten |
| Assets (`asset.go`, `objectstore/`) | rows and objects | create, clean up | crash or lost answer between object and row | a picture that is referred to has its file |
| Editor documents (`editor.go`, `image-editor-controller.ts`) | versions, revisions, each tab's draft | load, update by version, retry, crop, masked job | a read before the check without a lock, lost answers, two tabs | no version overwritten unseen, a result committed once |
| Asset library (`library.go`, `use-asset-store.ts`) | rows; view and queues of each tab; the legacy store | migrate, add, edit, remove | optimistic changes that fail in any order, several tabs | no old asset lost, the view is what is stored |
| Authentication cache (`authn.go`) | positive answers | lookup, invalidate | a late answer refills the cache | not modelled, see section 6 |
| Official session (`session-adapter.ts`) | a pair of tokens in local storage, a refresh per tab | call, refresh, repeat, give up | several tabs, one rotating token | a session that was left stays left, a token is sent once |
| Release and rollback (`deploy/canvas-*.sh`, `lib.sh`, `update_routes.py`) | containers, route file, `current.env`, `previous.env`, a lock | release, rollback, route update | a command fails, a gate is not met, the script is killed half-way | no lost route, complete success, complete undo, usable rollback target |
| Deployment operator (`deployment_operator.py`) | operation records, the active operation | start, run, time out, recover | restarts, commands that survive their script, a record that cannot be written | one deployment at a time, true records, a rollback goes back |
| Migrations (`migrate.go`) | schema versions | apply | two processes migrate | not modelled, see section 6 |
| Transfer (`transfer/`, `cmd/canvas-migrate`) | both databases, exports, copied files | audit, export, import, copy, verify | users go on, commands race or are killed | all or nothing, complete when called complete |
| Gateway client (`gateway/client.go`) | none | image requests | which outcomes are certain | part of JobQueue |
| API server, proxy, the rest of the user interface, configuration | none, or input and output only | | | not modelled, see section 6 |

Interaction: the page calls the API (HTTP); admission writes the row that the
queue claims (shared table); the queue reads project, credential and assets and
writes assets; a job's result is written into the canvas by the front end and
saved like any edit; a release replaces API and worker containers while jobs
run, which the queue sees as crashed workers. The operator runs the release
scripts; the lock they take is inherited by the commands they start.

## 2. The modules

| module | models | theorems |
|---|---|---|
| `JobLifecycle` | the promise of the job service: no worker, lease or clock | `JobQueue` implements it |
| `JobQueue` | queue and workers; `INSTANCE JobLifecycle` | `JobQueueProofs`: 13 |
| `JobAdmission` | POST /jobs, the policy, its editors | `ImageJobsProofs`: 6 |
| `ImageJobs` | `JobAdmission` and `JobQueue` over one table | `ImageJobsProofs`: 7 |
| `KeyedService` | the promise to who uses an Idempotency-Key: no handler, queue or worker | `ImageJobs` implements it |
| `TaskView` | what a page may count on about the jobs it follows | `JobQueue` and `CanvasGeneration` implement it |
| `ProjectSync` | the project store of every tab, the drafts, the server's row | `BrowserProofs`: 3 |
| `CanvasGeneration` | the pictures of a canvas page on their way: requests, jobs, records, recovery | `BrowserProofs`: 5 |
| `EditorDocuments` | the focused editor in several tabs, the document and its assets | `EditorDocumentsProofs`: 5 |
| `AssetLibrary` | the asset store of every tab, its migration, the library's rows | `AssetLibraryProofs`: 3 |
| `OfficialSession` | the session adapters of several tabs over one pair of tokens | `BrowserProofs`: 3 |
| `CanvasRelease` | release, rollback and route update | `CanvasReleaseProofs`: 6 |
| `DeploymentOperator` | the operator, its scripts and their commands, a person's scripts | `DeploymentOperatorProofs`: 4 |
| `Transfer` | the five commands of `canvas-migrate` and both installations | `TransferProofs`: 6 |
| `MC*` | instances for TLC, with symmetry where the constants are interchangeable | |

Definitions named `...Anyway`, `...EvenDeleted`, `...Unowned` and so on, under
a comment that says *Faulty variant*, are not part of the specifications: each
is the neighbouring definition with a plausible mistake, and the property it
belongs to fails when it is put in that definition's place. Where a mistake is
simply another definition of the module (`SeesCompletion` for `SeesOutcome`),
that one is used.

Modules that are extended together write a prefix before the usual names:
`AdmissionInit`, `AdmissionNext`, `AdmissionSpec`, `AdmissionTypeOK` in
`JobAdmission`, `Image...` in `ImageJobs`, `Page...` in `CanvasGeneration`,
`Session...` in `OfficialSession`.

### JobQueue

One action is one transaction, one upstream call or one stored asset, so a
worker can stop or be overtaken between any two.

- `job[j]` is the row. The lease time is abstracted to none, live or expired.
  `started` and `cancel` are `upstream_started_at` and `cancel_requested_at`
  being set.
- `worker[w]` is where `RunOnce` stands. A process draws a random id, so an id
  is used once; when all ids are used up no further process starts.
- `ClaimJob` is the whole of `Claim`: first the sweep of expired leases (three
  UPDATEs on disjoint rows, one operator `SweptRow`), then the row it takes.
  ORDER BY with SKIP LOCKED lets any claimable row be the one taken.
- A database call may fail before or after the server acted. In Claim,
  MarkSaving, Complete and Fail such an error ends the process, so it is a
  `Crash` before or after the action. In BeginUpstream the process goes on, so
  it is an action of its own, `BeginUpstreamLost`.
- `LeaseExpires` of a living worker is a stall and counts as a fault. That of
  a dead one happens by itself. `main` does not wait for the processor on
  SIGTERM, so an orderly stop is a `Crash` too.
- `Answered` gives the number of pictures in the answer, 0 if it cannot be
  parsed. What the pictures are is left out.

### JobAdmission

- `call[c]` walks through the queries of `Create` in their order: project,
  credential, policy row, policy items, INSERT ... ON CONFLICT. Any query can
  fail.
- `ReadPolicy` and `ReadItems` are the two queries of `policy.Get`, `OpenPage`
  and `ShowPage` the same two for an administrator's page.
- A capability's parameters are one set of sizes with a default; defaults are
  applied before the digest is taken, as in the code. Input assets are left out.
- `audits` is the audit table with what each editor was shown, and gives the
  policy in force after any number of edits (`InForce`). An Update that finds
  another version changes nothing and is not an action. A save whose answer is
  lost leaves the page as it was.

### ImageJobs

- A row is named after the call that inserted it, so `Jobs` is `Calls`.
  `CreateJob` is the handler's INSERT and the queue's `Submit` in one step;
  every other step is one component's, but for what they read of each other:
- a process dispatches only after it has found the credential active
  (`FindCredential`, `cleared`), and stores a picture only in a project that is
  there (`Work`). The worker's own Disable is one of the ways a credential ends.
- `KeyedService` says what a client is promised who names a wish with an
  Idempotency-Key: one job, named in every acceptance; one upstream request; one
  outcome, `completed` only with a request and `canceled` only without.
  `KeepsPromise` is that promise of the whole service, for all keys at once.

### ProjectSync

- Edits are numbered and a document is the set of edits in it, so "this save
  loses that edit" can be stated. `mixed` marks content that does not derive
  from the version it would replace: a resumed draft of another version, an
  edit while the server's copy is being taken over, a creation that turns out
  to exist in a later version.
- Every `await` in the store is a point between two actions: waiting for the
  creation, the request, the removal of the draft, the fetch.
- An answer is handled in the step in which the server acts. The tab sends
  nothing while it waits, and edits in between are separate steps, so nobody
  can tell. A request whose tab is closed, or whose answer is lost, becomes an
  orphan that the server handles late or never.
- The local draft is written in the step that schedules the save.
- Abstractions: one retry or reload at a time per tab; `deleteProjects` and the
  timers of task recovery are not modelled (their edits are `UpdateProject`).

### CanvasRelease

- `script[p]` walks through `canvas-release.sh`; a rollback is a release of
  what `previous.env` named, a route update only the second part.
- The three containers of a slot are one value, `Mixed` when they do not agree.
- A command that fails runs the ERR trap (`restore_previous`: routes, services,
  state files, one action each). A check that fails calls `die`, which is `exit
  1`: bash runs the EXIT trap only, and the script ends where it stands.
- `update_routes.py` reads the whole file and replaces it: two actions.
- `Kill` at any point frees the lock (the kernel drops `flock`) and restores
  nothing. `torn` remembers slots where that happened after `current.env` was
  written. Restoring a file is taken to succeed; docker may not comply.

### CanvasGeneration

- A slot is a place for one picture in an image node. A generation lists the
  pictures it waits for in its node (`metadata.images`); a mask edit or a new
  angle (`EditPicture`) makes a node without a list, which is one `Bare` slot:
  stopped, it is idle and not failed. `view` is what the page
  shows, `doc` what the store has (and the draft and the server with it):
  a page that was replaced still writes `doc`, never `view`.
- `request[r]` is one call of `runImageJob` and the job it creates: posting,
  streaming, polling, reading the picture. A stream may end early or miss the
  last change; a poll may fail.
- `record[r]` is the slot for which the store recorded the task (`Register`,
  `use-canvas-store.ts:660`): the first free one among the targets of the source
  node when the answer to createJob arrives. Free is a picture of a list that no
  record claims, or a bare slot that waits, whoever has it
  (`canvas-task-recovery.ts:152`). The nodes here are all targets of one source;
  a generation into an empty node, in place, is not modelled. `monitors` are the recorded tasks polled since the project
  was opened, `cleanups` the five-second timers after which a record is removed.
- `Show` is the page reading its pictures, `ReloadTab` a closed or reloaded tab,
  `Remount` the new page that a finished recovery makes of the canvas.
- One action per handler: `JobCreated` and `CreationFails` for createJob,
  `SeesOutcome`, `StreamEnds`, `PollFails` for `canvas-job-controller.ts`,
  `FinishRecovery` and `Cleanup` for `canvas-task-recovery.ts`.

### EditorDocuments

- `log` has one entry per version of the document with its writer, the version
  the writer's draft came from and the latest it was told of; `revs` are the
  rows of `canvas_editor_revisions`.
- `making[p]` walks through `asset.Service.Create`: object first, then the row;
  a failed commit removes the object, and so does one whose answer was lost.
- `put[e]` is a save. The server reads the current picture before the statement
  that compares the version (`editor.go:232`), so these are two actions.
- The answer to a save is read after its commit (`ReadBack`), so it may name a
  version of another tab. `told` is the latest version the tab was sent in this
  way, or with a conflict, without taking it for its draft.
- What an operation draws is a picture; a plain change (zoom, background) is a
  save without one.

### AssetLibrary

- `requests` holds calls on their way and their answers, so a call can be
  handled late, its answer lost, its tab closed in between.
- `tab[t].queue[i]` is the item's chain in `mutationQueues`; an entry keeps what
  it would roll back to. The content of an item is the number of the edit that
  wrote it. `last`, `told` and `hasty` are history for the properties: the last
  edit made, items whose failure was shown, items changed before the library had
  been loaded.
- `Open`, `List`, `Migrate`, `TakeVersions`, `Show`, `ForgetLegacy` are the
  loading in its order, with awaits between them.

### OfficialSession

- A pair of tokens is a number, `pairs` says to which login it belongs. The
  official service and its pages are not in this repository; they may refuse any
  call and any refresh, and log in, log out or refresh the stored pair at any
  time. The model assumes no rule of theirs.
- A call (`authorizedFetch`) is sent, waits for the refresh its tab shares, and
  is repeated once. All who wait for a refresh continue in one step, as the
  continuations of one promise run in one task. The three keys are written and
  removed within one task and are one value.

### DeploymentOperator

- `thread` is where the active operation's thread and the script it runs are;
  `commands` are the external commands the script has started. A script that is
  killed leaves its command running, and the command has inherited the lock.
- `operations` are the records on disk, `active` the one in memory. `Finish`
  makes the last record from the exit code and the reconciliation report alone;
  `Restart` is a new process of the proxy.
- The official service has a live and an idle color: an update fills the idle
  one and switches, a rollback switches back. `PersonLocks` and `PersonDeploys`
  are somebody's scripts in a terminal.

### Transfer

- `source` and `target` are the two databases with what users do to them in the
  meantime; `exports` what is published in each output directory.
- A command holds what it has read; between any two of its steps it can be
  `Killed`. `ImportCommits` is one transaction, with the comparison
  (`verifyTargetDatabase`) inside; its snapshot is taken by the statement that
  waits for the lock.
- Projects, jobs and the model policy stand for all tables, which are exported,
  inserted and compared alike.

## 3. The runs

| run | constants | what it shows |
|---|---|---|
| `jobqueue_faults` | 2 jobs, 3 worker ids, 2 outputs, 1 fault | nothing is sent twice, no answer forgotten, results match assets, only the holder settles; the queue implements `JobLifecycle`; every job is settled |
| `imagejobs_races` | 2 calls, 1 key, 2 prompts, 2 administrators, 3 offers, 3 edits, 2 worker ids, 1 fault | retries agree; admission is recent; no policy edit is lost; the service implements `KeyedService` |
| `projectsync_safety` | 2 tabs in 2 browsers, 2 edits, 2 faults | saving loses nothing; every save ends |
| `projectsync_reopen` | 2 tabs, 3 edits, 1 fault | disagreement 1 |
| `generation_recovery` | the nodes of 2 edits and 1 generation, of one slot each, 2 requests, 1 reload, 1 edit, 2 mishaps | no listed picture for two tasks; a page opened again waits only for what is polled; no job forgotten; every wait ends |
| `editor_safety` | 2 tabs, 2 pictures, 3 versions, 1 fault | nothing overwritten unseen; a result enters once; pictures have files; the editor does not stay busy |
| `asset_library` | 2 tabs, 1 old and 1 new item, 2 changes, 1 mishap, symmetry | no old asset lost; a quiet tab shows what is stored |
| `session_refresh` | 2 tabs, 3 calls, 4 pairs, 2 logins | a session that was left stays left; a refresh token is sent once |
| `canvasrelease_safety` | 2 scripts, 2 slots, 2 releases, symmetry | routes, success, undo, rollback target |
| `canvasrelease_gates` | the same | disagreement 2 |
| `operator_safety` | 2 releases, 3 operations, 2 mishaps | one deployment at a time; true records; rollback goes back; every operation ends |
| `transfer_safety` | 1 old project, 2 jobs, 2 outputs, 2 commands, 1 change, 1 edit, symmetry | imports all or nothing; users keep their work; verified is complete; open jobs are decided |

Why the bounds are enough.

- *Queue*: one worker that dispatched, a successor and a stalled third is the
  longest chain of hands a row can pass through before it is dispatched or
  failed; two outputs let a failure fall between two assets. The proofs lift
  every safety property to any number of everything.
- *Admission*: a race needs two calls with one key; a lost edit two editors, and
  three edits let a stale page be refused and saved again. The constraint
  `OneRace` keeps three races apart: all edits of both administrators before any
  call; both calls against one edit, or against the loss of project and
  credential; both calls against workers, cancellations and the loss of the
  credential. The proofs need none of these bounds.
- *Project*: two writers, an edit each, and two faults (a lost answer and a
  closed tab) reach every pc and every combination of save, creation and fetch.
- *Generation*: two requests let answers cross, between two edits, or between a
  generation and an edit whose node comes before or after it in the order of the
  targets; a deletion frees a slot, one request retries the other's; one reload
  and one more mishap let a recovery meet a request of the page opened again.
- *Editor*: three versions are a first save, one by the other tab and a retry;
  two pictures let both tabs have one in hand. What a tab may write
  after an answer that named another tab's version takes a fourth version; that
  case is left to the proof.
- *Asset library*: two changes of one item queue behind each other and behind its
  creation, or come from two tabs; one mishap fails a call or closes a tab.
- *Session*: two calls share a refresh while the other tab, a login or the
  service's own page changes the pair; with four pairs one of either login can
  arrive late.
- *Release*: the lock is between two; two releases give old and new, and scripts
  may run any number of times, so sequences of every length are covered.
- *Operator*: update, rollback and a third operation that meets what they left;
  two mishaps let a restart follow a switch by hand or a lost record.
- *Transfer*: two commands are what may race; two exports that differ by the one
  change of the old installation may be imported after each other.

Deadlock is not checked where the system may stop (all jobs settled, all edits
made, all bounds used up). `CanvasRelease` never stops and is checked for it.

Fairness. Nothing is assumed of users, and no request is assumed to succeed.

- `JobQueue`: each worker's loop (it polls for ever, `job.go:755`), the start of
  a new process after one ended (`restart: unless-stopped`,
  `deploy/compose.yml`), the expiry of a dead worker's lease (`NOW()` moves on).
  With one fault and three ids a fresh process is always left.
- `ProjectSync`: `Progress(t)`. Timers fire, IndexedDB answers, and each request
  of an open tab is answered or fails.
- `CanvasGeneration`: a page is mounted and reads its pictures (`Show`), each
  request and each monitor gets an answer (`Answers`, `FinishRecovery`), the
  five-second timers fire (`Cleanup`), and a job settles (`Settle`), which is
  `EveryJobSettles` of the queue.
- `EditorDocuments`: `Server(p)`, `Loading`, `Saving`, `Working`. The API's
  handlers end; a tab's calls and jobs are answered or fail.
- `DeploymentOperator`: the operator's thread runs and its time limit strikes.
  Nothing is assumed of the external commands, which may hang for ever.

## 4. The proofs

TLAPS checks the theorems for every value of the constants. Assumptions are the
named `ASSUME`s of the modules: "no job", "no worker" and "no release" are not a
job, a worker or a release (or script), the pictures, items, exports and tabs
that stand for "none" are not among the real ones, at least one output, natural bounds,
offers of the right type; in `ImageJobs` a row is named after its call
(`RowsAssumption`).

**JobQueueProofs.** Types are proved together with `HandInv` (which processes
have a job in hand). No safety property of the queue is inductive by itself:
that a job is sent once depends on where every process stands. `IInv` consists
of `JobInv` (about a row: queued means unstarted, held means owned, canceled
means never started ...), `PreparingInv`, `PastInv` and `FailingInv` (about a
process and its row) and `OneDispatcher`. The hinge is `upstream_started_at`: a
started row is never queued again (the sweep), so a process past BeginUpstream
has no successor; and while a row is unstarted nobody has sent anything. One
lemma per action (`...Keeps`) shows that it keeps `IInv`. The action properties
and the refinement follow from a second set of lemmas (`...Moves`), which sort
what a step can do to one job into a few moves (`JobMove`). `StockInv` rests on
both: only one process ever stores for a job, and it counts what it stored
(`Tally`), so what it hands over at Complete is all there is. The same moves
give a second, coarser refinement: what a page is shown of the jobs is a
behaviour of `TaskView` (`TasksAreServed`).

Proved: `TypeCorrect`, `Invariance`, `SentOnce`, `DispatcherUnique`,
`RowsReachable`, `CanceledIsFree`, `AnswerKept`, `SettledStays`,
`CancelStopsSend`, `HolderSettles`, `ImplementsLifecycle`, `ResultsAreAssets`,
`TasksAreServed`.

**ImageJobsProofs.** In its first part, about `JobAdmission`,
`NoLostPolicyEdit` rests on `PageInv`: a page whose version is the policy's
shows the policy, row and items. It holds because `Get` reads the version
first: items read later can only be newer, and then the version of the page is
already old and `Update` refuses it. `History` says that what was in force
after n edits stays so, and a deleted project stays deleted; `CallInv` and
`AdmittedInv` carry what each handler has read back to a moment of its call.

Proved: `AdmissionTypes`, `EditsKept`, `AdmissionInvariance`,
`OneJobForRetries`, `AdmissionIsRecent`, `NoJobAfterDeletion`.

Its second part is the composition. `ServiceAdmits` and `ServiceQueues` show that
`ImageJobs` implements both components: each step is a step of both, or of one
while the other rests. So every safety property of the two holds of the whole,
and both inductive invariants can be used together (`RowsAreLinked`). What has to
be added is `Linked`: the rows the workers see are exactly the jobs the handlers
created, under the keys of their calls. From admission comes that a key names
one job, from the queue that a job is sent once, and `Linked` makes it
`OneRequestPerKey`. `CanceledKeyIsFree` says that whoever was given a job that
is now canceled was charged for no call with its key; `AnswersMatchRows` that
an accepted call's job is in the queue and only an accepted or failed call has
a row (so `Submit` never stands in the way of an INSERT).

Its third part is the refinement of `KeyedService`. `KeyViews` reads what a key
shows, has spent and was given off the one row that has the key, in every state
of the invariant. A step leaves asks, accepted answers and existing jobs alone
(`Lasting`), and does to the row what `JobMove` of the queue says; `KeyMoves`
turns each of these moves into a step of `KeyedService`, or into rest. A row
that was not there before is a fresh one (`NewRow`), again by `Linked`.

Proved: `ServiceAdmits`, `ServiceQueues`, `RowsAreLinked`, `PaidOncePerKey`,
`CanceledKeysAreFree`, `AnswersAreTrue`, `ServiceKeepsPromise`.

**CanvasReleaseProofs.** The lock is the key. `Holder` says of the one script
that has it how the shared files relate to what it has read, kept and set:
`StageInv` (how far it is and which flags are set), `RouteInv` (the backup
differs from the route file in the slot's own route only, the copy not at all),
`StateInv` (state files against backups and target), `ServiceInv` (containers)
and `BackupInv` (the backups served). `StateServed` covers the time when nobody
has the lock. `QuietStep` and `HolderStep` say once what a step of the holder
has to show; then there is one lemma per action.

Proved: `ReleaseInvariance`, `ReleaseTypes`, `RoutesKept`, `SuccessComplete`,
`TrapUndoes`, `TargetsServed`: all safety properties of the run.

**BrowserProofs** has three parts, which share nothing but the module.

*ProjectSync.* `IInv` says of every tab's record `Good`: its `Shape` (which pcs
go together) and that it is `Sound` against the server's row. `Fits` is the
heart: a content that names a version contains every edit that version has,
unless it is mixed. It is kept by each answer because the server's row only
grows (`ServerGrows`). `Creation1` and `Creation2` say that only one tab is the
`Creator` of a project, without which a creation that answers "exists" could be
another's. `Kept` carries `ClosingLosesNothing`: what a tab shows is stored or
in the draft, as long as no other tab of the browser has the project open. One
lemma per action (`...Keeps`).

*OfficialSession.* `LeftSessionStaysLeft` is inductive: an answer enters only
while the pair it was sent for is still stored, and a pair is of one login.
`RefreshTokenSentOnce` is not; it needs `Spent`: a refresh token that a tab has
sent is the one it still waits for, or is not stored any more. It holds because every
way out of a refresh replaces what is stored or removes it, the failure too.

*CanvasGeneration.* `OneTaskPerImage` is inductive: a task is recorded for a free
slot only, and a picture of a list is free when no record has it. Of bare slots
it does not hold (section 5). `RestoredWaitsAreWatched` needs
`OnlyMonitors`: on a page nobody has touched since it was opened no request
runs and no timer is set, and every record is polled; so nothing but a finished
poll changes a slot, and it takes its record along. `NoJobIsForgotten` needs
`ReadIsCompleted`: a request reads its picture only when its job is completed.
The actions are proved in groups: what the user does (`Steered`), what a request
does when it gives up for a mishap (`GivesUp`) and otherwise (`GoesOn`). The
other side of `TaskView` is here (`TasksAreFollowed`): what the page takes the
service to do, late creations by the calls of a closed tab included, is what
`TaskView` allows, because no request that is still unposted or unanswered has
a job (`NothingPosted`). So the jobs of `CanvasGeneration` do nothing beyond what
the queue is proved to keep to. (The two meet in `TaskView`; that its every
behaviour is one of the service is not claimed.)

Proved: `SyncTypes`, `SaveLosesNothing`, `CloseLosesNothing`; `SessionTypes`,
`NoWayBack`, `TokensAreSentOnce`; `PageTypes`, `ImagesAreNotShared`,
`WaitsAreWatched`, `JobsAreFollowed`, `TasksAreFollowed`.

**EditorDocumentsProofs.** Four invariants, each about another hazard.
`KeptAreStored` and `Picked`: only pictures that are stored come near the
document, whatever happens to rows and objects of the others. `ReadsCurrent`: a
save that will pass the version check has read the picture of the version it
replaces, although it read before. `Account`: every version since the one a
draft comes from is the tab's own or was told to it. `Ownership`: a picture
somebody has in hand is in no revision yet, and in nobody else's hands. Lemmas
`...Does` say once what an action does to a tab, for all four.

Proved: `EditorTypes`, `PicturesCanBeOpened`, `ShowsLastRevision`,
`NothingOverwrittenUnseen`, `ResultsAreCommittedOnce`.

**AssetLibraryProofs.** `Calls`: each loop of a tab waits for at most one call,
and of the kind its phase or the front of its queue calls for. `Fresh`: an item
nobody has used has left no trace. `Versions` (with `Fits`): a version known in
a tab or a call is one the row had, and names one content. `Loads` and `Kept`:
what the loading knows of the legacy store, so that it is removed only when
everything in it has a row. `Settled` is the invariant behind `ViewIsStored`:
what is not stored yet is at the end of the item's queue, and what each entry
would roll back to is older than the entry. The steps are reduced to one slot
(one item of one tab) and one answer before the invariants are looked at.

Proved: `LibraryTypes`, `LegacyIsNeverLost`, `LastEditsAreStored`.

**DeploymentOperatorProofs.** `Locked`: a command has the lock its script had,
so there is one command, and none while somebody else holds the lock. From it
`InOrder` (which operations can still have a command or a report under way) and
`Proven` (a flag in a record has its evidence). `CanRollBack` relates the last
switch of colors to the last records: while a rollback is allowed, going back is
going back to where that update came from.

Proved: `OperatorTypes`, `OneAtATime`, `RecordsTrue`, `RollbacksReturn`.

**TransferProofs.** The action properties follow from the types and from what
the import's own step compares; rows change in that step and by users only.
Files go from none to whole and never back. `Comparing`: a verification under
way compares an export that was imported, since records of import stay.

Proved: `TransferTypes`, `WorkIsKept`, `ImportsAreWhole`, `CopiesAreWhole`,
`VerifiedStaysComplete`, `DecisionsAreExact`.

**Proved and in no run**: the type invariants of the modules with proofs;
`OneDispatcher`, `SettledIsFinal`, `EarlyCancelPreventsSend` and `NoStrandedRow`
of the queue; `DeletedProjectGetsNoNewJob`; `OneRequestPerKey`, `CanceledKeyIsFree` and
`AnswersMatchRows` of the service as a whole; `ServesTasks` and `FollowsTasks`;
`FilesAppearWhole`.

**Only model-checked**: liveness (`EveryJobSettles`, `EverySaveSettles`, `EveryWaitEnds`, `BusyEnds`,
`EveryOperationEnds`), which under fairness is beyond the prover. Every safety
property of a run that passes is proved.

## 5. Disagreements found, and other observations

Twice the code does something else than a document or a message of the
repository says:

1. *A conflict forgotten* (`ConflictSurvivesReopening`). A draft of another
   version is shown as a conflict but holds the server's version number; after
   one more edit, reopening resumes it over the server's edits
   (`use-canvas-store.ts:588`).
2. *A gate that does not restore* (`GateFailureRestores`). The gates of
   `canvas-release.sh:172-180` end in `die`, which does not fire the ERR trap;
   `docs/UPGRADE_CN.md:154` promises that any gate that fails restores the old
   containers, state and routes. What does hold is `TrapRestores`.

What else the code does that its reader may not expect. No document says
otherwise, so no run is about it; unless noted the models have the step.

*Queue and admission.* Every error of BeginUpstream, a database error included,
is reported as `canceled_before_dispatch` (`job.go:706`). `policy.Get` reads row
and items in two queries (`policy.go:50`), so a job can be admitted by the
switch of one policy and the models of the next.

*Projects.* The answer to a save sets the title to the one it carried, even if it
was changed in the meantime (`use-canvas-store.ts:255`). While the server's copy
is being taken over, an edit saves old content over it
(`use-canvas-store.ts:509`).

*Generation.* A recovery that finishes remounts the page, and a request of the
page before then draws nothing: its record is removed five seconds later and
the slot stays loading until the next reload. Records are bound to the
first free slot of the source node's targets, in the order in which createJob is
answered. A node without a list of pictures, the child of a mask edit or of a
new angle, is returned before the claims are looked at
(`canvas-task-recovery.ts:152`): of two such edits of one picture under way at
once, or an edit and a generation, both tasks are recorded for the first such
node while it waits. After a reload the other node shows as interrupted, and the
outcome that is polled last replaces the first. A retry carries no
node id and is never recorded; retrying one picture aborts the node's other
requests. The record of a stopped job stays, and after a reload its error may
replace a newer picture. The Go backend never returns `open_jobs` or
`media_tasks`. Undo (not modelled) can bring back a loading node that nobody
fills.

*Editor.* The answer to a save is read after its commit (`editor.go:286`) and may
name a later version, of another tab. A tab whose draft was loaded again during
that save takes the version without its content
(`image-editor-controller.ts:118`), and its next save writes over what it was
sent but did not draw. When the save of a job's picture fails, Retry runs the whole job again;
a plain save after it forgets the picture. A job that runs when the editor is
closed is never committed, a crop is. A commit whose answer is lost leaves a row
without its object, to which nothing refers.

*Asset library.* Two queued edits that both fail leave an edit shown that is not
stored (a failure is told). After an update whose answer was lost, every later
one is refused until the next load. An edit of an asset that could not be
migrated reports success and is gone after a reload; an asset added while the
library loads vanishes from view until then. A removal whose answer was lost may
arrive late and delete an item edited since. An item removed in another tab
cannot be removed here before a reload. If removing the legacy store fails, the
legacy assets replace what is shown; changes made meanwhile are `hasty` in the
model and exempt from `ViewIsStored`.

*Session.* A refresh that fails, or is answered after the pair has changed,
removes whatever tokens are stored: of two tabs that refresh with one token, the
second logs both out, and so does a repeated call that is aborted or times out
(`session-adapter.ts:121`). A call that is answered 401 after another user has
logged in elsewhere is repeated with that user's token.

*Operator.* An update that was interrupted by a restart, or timed out with no
report, leaves rollback unavailable although it was deployed. If the last record
cannot be written, every request is refused until the operator restarts. Scripts
from a terminal are unknown to its check of what may be rolled back. Two
concurrent writers of `update_catalog.py` can lose one's entry (not modelled).

*Transfer.* verify-transfer compares all rows, so a project created between the
import's snapshot and its commit makes it fail later. An import over a target
that was edited, or of a newer export, is refused. The policy an import writes
may have the version number that an open policy page shows (not modelled).

## 6. What is not modelled

- The wire format and HTTP of the gateway client; only the outcomes the worker
  tells apart. `net/http` may itself repeat a POST that carries an
  Idempotency-Key on a broken connection (`client.go:326`): that is inside the
  library, and what the service does with it is not in this repository.
- Credentials beyond "usable": binding, verification and the worker's Disable
  (by id, so a late 401 can disable a newer binding). The authentication cache,
  whose answers live for half a minute at most; what limits them is a clock.
- In the user interface: drawing, selection, undo and redo, and all of the
  vendored drawing application with its pages for images, video and audio, which
  is most of the repository's lines. They change a document that `ProjectSync`
  and `CanvasGeneration` take as it comes. The polling of video and audio tasks:
  the Go backend has no such tasks.
- In the asset library: `replaceAssets`, the repairing update after a creation
  (a client id is fresh), the upload of a migrated asset's file. In assets:
  deletion and parent links. In projects: List, asset references, validation of
  documents, and `deleteProjects`.
- `canvas-writes.sh` beyond its holding of the lock, and the scripts of the
  official service; `update_catalog.py`; what key reconciliation compares.
- Migrations (one transaction per file, under an advisory lock, before any
  service starts), the API server's routing, the proxy's forwarding,
  configuration, logging and build information: no behaviour over time beside
  what is above.
- Two tabs of one browser on one project are in `ProjectSync` and its proofs
  (`ClosingLosesNothing` exempts them) but not in the runs: they share one draft,
  and the tab that saves removes the one the other was told is kept.
- Local storage seen half-written by another tab: its three keys are one value.

## 7. What would come next

1. Credential binding with the worker's Disable, composed with `ImageJobs`;
   the authentication cache with a clock.
2. Undo history over `CanvasGeneration`, and the two stores in one model: a
   recovery's result saved by `ProjectSync`.
3. An abstract store with compare-and-set, implemented by projects, editor
   documents, library and policy.
4. Migrations.
