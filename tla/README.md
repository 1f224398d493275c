# TLA+ models of Plug-and-Play Local RAG

This directory models the parts of the system whose correctness depends on the
order in which things happen: processes that share the database, requests that check
in one transaction and act in another, commands and reports that are lost, processes
that stop between two durable changes. There are twelve models, each with one
configuration for TLC, and proofs of the safety properties of all of them. Every
definition is translated from the code; `PROJECT.json` gives its source lines under
`map`, and lists the runs, the mutants that show that each property can fail, the
hazards of the code and the theorems.

To check: `tlc -config MCIngestion.cfg MCIngestion` (and likewise for the other
configurations), `tlapm ProcessProofs.tla` (and likewise for the other `*Proofs`
modules) for the proofs.

## 1. The system and its parts

The product is a local question-answering service over a library of PDF
documents. One machine runs PostgreSQL (with pgvector), an object store for the
uploaded files, and several Python processes under a supervisor. Nearly all
shared state is in PostgreSQL, and nearly every write goes through a stored
function (`apps/api/alembic/versions/*.py`), which is the unit of atomicity.

| part | state it keeps | operations | interacts with | module |
|---|---|---|---|---|
| inference coordinator (`runtime/coordinator.py`, `scheduler.py`, `limits.py`) | registries of futures, streams and cancellation events, two priority queues, execution tasks, one semaphore per stage, `_idle`, `_draining`, `_closed` | `submit`, `stream`, `cancel`, `drain`, `resume`, `close`, the dispatcher and the execution tasks | API, ingestion worker, controller (drain around configuration changes) | Coordinator |
| ingestion jobs and worker (`worker.py`, `services/ingestion.py`, migrations 0001, 0005, 0010) | `documents`, `document_generations`, `chunks`, `ingestion_jobs` | upload, claim, heartbeat, progress, commit, requeue, poison, reingest (prepare/commit), maintenance requeue, delete | object store, parser and OCR, coordinator (embeddings) | Ingestion |
| reingestion operations (migration 0010, `services/system.py`) | `reprocessing_operations`, generations built beside the live one | preview, start, pause, resume, cancel, retry, cleanup | the ingestion worker does the work | Ingestion |
| search index rebuild (`services/reprocessing.py`, migration 0010) | `embedding_generations`, `chunk_embeddings`, `reindex_tasks`, the active generation | the same, and claim/commit/fail of tasks, qualification, cutover, rollback | lives in the ingestion worker's process; ingestion writes into the active generation | Reindex |
| object lifecycle (`services/object_deletions.py`, `object_lifecycle.py`, `routes/documents.py`) | upload reservations, `object_deletions` with lease and fence | preflight, commit upload, queue orphans, claim, finish | object store, upload, delete | Objects |
| service leases (`worker.py: ControlledServiceLease`) | `service_leases` | claim, heartbeat, desired state | supervisor, both workers | Objects |
| chat turns (`services/chats.py`, `routes/chats.py`, migrations 0001, 0002) | `chats`, `chat_turns`, `turn_sources`, citations; per request the prepared turn | begin, retry, continue, store sources, monitor, finalize, fail, interrupt, withdraw, delete, repair | coordinator (generation), access control, sessions | ChatTurns, Chats |
| accounts and sessions (`services/authentication.py`, migrations 0001, 0004) | users, challenges, sessions, login throttles | login, refresh, logout, activate, change of password, create, change and reset of accounts | every request | Accounts |
| owner setup (`services/setup.py`, 0007) | setup code, browser challenges | issue, verify, complete | accounts | Accounts |
| access control and library (`services/library.py`, `authorization.py`, 0001, 0004) | nodes, grants, boundaries, teams, `effective_document_access` and its version | preview/apply of every change of access, create, upload, move, delete | chat, documents | Access |
| runtime configuration (`services/system.py`, 0009, 0014; supervisor `controller.py`) | revisions, previews, grants, changes, profile operations; `runtime-overrides.json` | preview, reauthenticate, apply, claim, stages, roll back, report | coordinator, OCR, supervisor | Configuration |
| maintenance gate, attended backup (`maintenance_gate.py`, `backup.py`, supervisor `personal_runtime.py`) | the gate, `backup_runs`, the bundle, the catalog | drain, dump, export, restore and audit, report, resume | every changing request, both workers | Backup |
| OCR service (`runtime/ocr_*.py`, `services/parsing/ocr_subprocess.py`) | workspaces, runs, one slot per run | upload, run, result, delete, cancel, drain | ingestion worker | Ocr |
| supervisor (`apps/supervisor/runtime.py`, `manifest.py`) | mutex, job object, process map, restart budget | start, readiness, monitor, stop cascade, restart | all processes | Supervisor |
| updater (`ops/windows/v8a/Update-RagPersonal.ps1`, `personal_update.py`, `updates.py`, `v8a_trust.py`) | transaction file, release directories, environment files, journal | download, verify, install, roll back, recover | supervisor, backup | Update |
| retrieval, prompts, PDF parsing | none | pure functions | chat, ingestion | - |
| web client, other operations scripts | presentation, files | - | API, supervisor | - |

What is hard in it:

- *Concurrency inside one process.* The coordinator and the OCR service are
  cooperative: between two awaits nothing interleaves, but a cancellation can hit a
  task at any await and also before its first step.
- *Concurrency across processes.* Two generations of a worker process overlap
  whenever one is suspended longer than its lease. The defence is a fencing token
  and a lease token compared inside the stored functions.
- *Read-then-act across statements.* The database runs at READ COMMITTED: inside
  one stored function each statement sees its own snapshot, so a check followed by
  an update is atomic only if the row checked is locked.
- *Read-then-act across requests.* Preview and apply, prepare and commit, a password
  verified outside any transaction: what was seen may be gone when it is used.
- *Crashes.* A worker, the process tree, a supervisor or the updater may stop between
  two durable changes; half-done work must stay invisible or recoverable.
- *Lost messages.* API and controller command each other over HTTP with short
  timeouts; a command may be taken although its sender was told that it was not.
- *Clients that go away.* A chat request streams for minutes; its client, its
  session or its access to the sources may be gone before the answer is stored, and
  its cleanup may run when the turn already belongs to another request.
- *Copies beside the live one.* A rebuild, its failure, its cancellation and its
  cleanup must not disturb the copy that is being served.

The list under `hazards` in `PROJECT.json` names these with their lines and with
the properties that cover them.

## 2. Modules

### Coordinator

One asyncio process. An action is what one coroutine does between two points at
which it really suspends; the scheduler's condition lock is never held across a
suspension, so admission and one pass of the dispatcher are single steps. State:
the registries (`registered`, `future`, `queue`, `cancelSet`), the scheduler
(`interactive`, `background`, `schedActive`, `tally`), the tasks (`spawned` in
creation order, `waiters` and `holding` for the semaphores, `ending` for streams
that wait to put their last item, `doomed` for a pending `task.cancel()`), and the
control part (`draining`, `idle`, `drainer`, `life`). Abstracted: payloads,
adapters (they return, yield, raise or are cancelled), metrics, the 60 seconds
after which a background entry counts as starved (left open).

Three details decide what the model shows. `StartTask` does nothing for a task that
was cancelled before it ran: none of `_execute`, not even its `finally`, is
entered. `CancelEffect` on a queued request removes the registration without
touching `_idle`. And a failure item for a stream whose queue is full is dropped
(`FailureLost`).

### Ingestion

The job queue, the worker processes, and reingestion operations. A generation is
named by its document and its origin: the upload (`Original`) or an operation.
`job[g]` is the last job that targets generation `g`; the attempt counter and the
fencing token start at 0 and are only ever incremented together, so one number
stands for both. `leased` says whether `lease_expires_at` is in the future, `due`
whether `available_at` has passed; the clocks are the actions `Expire` and
`BecomeDue`. Each stored function is one action, except pause, whose check
(`PauseCheck`) reads jobs that it does not lock before it updates the operation
(`PauseApply`). A worker is `down`, `idle` or `busy` with the `IngestionLease` it
was given; parsing and embedding are the time between claim and commit. An error
becomes `Backoff` or `Poison`; every refused call is `Stale`; `Crash` covers a
killed process and an exception that leaves `_run()`. `ticket` is the snapshot
token of a reingest request that was prepared and may be committed later, or
twice.

### Reindex

The shadow rebuild of the search index. `embedded[e]` is the set of chunks
generation `e` covers, `live` the chunks that search ranges over, `current` the
generation it uses. A worker claims a batch, commits or fails its tasks one by
one, and, when there is no task left, claims the qualification. Two stored functions
are two actions each, because a later statement of theirs depends on an earlier one
that locks nothing. The commit of a task (`CountTasks`, `CommitTask`) counts the
tasks that are left before its own update is visible to anybody else (`tx` is the
open transaction, `Locked` the row it holds). The completion of a
qualification (`QualifyCheck`, `Cutover`) compares with the live chunks and then
switches; `late` records what became ready in between. What the qualification sample
measures is a choice between pass and fail.

Ingestion and Reindex are two views of one database: `Reindex!Ingest` is the
effect on embeddings of `Ingestion!Commit`, and `Reindex!Remove` that of
`Ingestion!Delete`.

### Objects

The originals in the object store. A key is the checksum of a file, and so its
name: uploads of the same content compete for it. An upload request goes through
`PreflightReserves` (or is refused, or told that it is a duplicate), `Put`,
`Verify` and `Commit`; `GiveUp` covers every way in which it ends without a
document. `resv` is the table of reservations, named by the request that inserted
them; a repeated request of the same sender `uses` the reservation of the first.
`deletion` is the queue of deletions, `phase` and `target` what each deletion
worker does, `service` the row of `service_leases` that lets one process run.

The stored functions are single steps (preflight, commit, the deletion of a
document and the orphan query take the same advisory lock). The call to the object
store is a step of its own between claim and completion, and the store knows no
fencing token. If the process ends while such a call is in flight, the call takes
effect then or not at all (`Unattended`). `holder` stands for the lease token and
the fencing token of a deletion, both drawn anew by each claim. A lease may run out
while its process lives, once per worker of `MayMiss`; `missed` remembers which did,
and `Prompt` says that none has. `StoreFails` says whether the store may refuse.

Ingestion leaves the originals out: it starts where `Objects!Commit` ends, and
`Ingestion!Delete` is the other half of `Objects!DeleteDocument`.

### ChatTurns and Chats

`ChatTurns` is the promise: at most one turn of a chat is open, and it is the last;
it is answered only while its owner may see every document it rests on; answers and
withdrawals are final; what was only paused may be taken up again.

`Chats` is how requests carry it out. `turn` joins the rows of `chat_turns` and
`turn_sources`: status, generation token, source documents and `text`, the documents
whose excerpts the stored answer (final or partial) was written from. A request is
`retrieving` from begin or retry to the snapshot of its sources and `generating`
until the answer is stored. An answer cut off at its limit is continued once by the
same request (`ContinueAutomatically`), and if that is cut off, too, stored as a
partial one (`StopAtLimit`); one with bad citations is written anew once
(`RepairCitations`), or kept as it is and marked (`GiveUpCitations`). A request is `closing` while the stream, the route and the
response run their handlers, each of which may report an interruption (`Interrupt`,
any number of times) before the request is gone (`Leave`). What a request remembers
is `mine`, `held` and `watched`. The name of a request stands for the token it draws;
since a finished request leaves nothing behind, names are used again and the number
of attempts is not bounded.

`doc` is what the owner's access amounts to: a document is readable or hidden, and
once deleted it stays visible in old turns (`kept`) or not (`lost`), by the access at
that moment. Which documents a turn looks at is any readable set: the scope that the
owner chose. `Revoke` is the monitor, which a request runs in every wait, and every
refused authentication; it goes through a function that needs no session. The other
reports do need one, which is why `Fail` and `Leave` may leave a turn open whose
session has ended. `Crash` forgets all requests; `Repair` is the maintenance command
that may be run while the API is down.

The refinement maps the status (`failed`, `interrupted`, `length_limited` and
`citation_failed` are all paused), the sources to the basis, and the documents that
are readable or kept to what is allowed.

### Accounts

Accounts, sessions, the login throttle and the setup page. A stored function is one
step where it takes its locks at once; what is checked in one transaction and used in
a later one is remembered by the `request`. So a login is read, verified and opened in
three steps; a refresh selects and then updates; a change of the password verifies
between two statements; and an administrator's change checks its actor, locks its
target's row and then waits for the final-administrator lock, with the deadlock that
PostgreSQL resolves by aborting one. Hashes stand for what they are compared as, expiry
may happen at any time. `knows` and `guesses` are history variables for the properties.

### Access

`library` joins nodes, grants, create grants, boundaries and teams; `rows` and
`current` are the computed access table and whether its version is the current one;
`preview` is the stored preview with its digest. Preview and apply are two
transactions, everything else is one step in between. `Inherits` and `Names`, in the
property section, define who should read what independently of the SQL that computes
it (`Rebuild`). `Upwards` is what the recursive queries compute, the least set that is
closed under taking parents. Names, renaming and administrators, who read everything, are left out.

### Configuration

The way of a configuration change from preview over reauthentication and apply to the
controller: its claim, drain, replacement of `runtime-overrides.json`, restarts,
validation, report, and the way back after a failure. `wire` holds commands that the
controller has not taken; a command, a reply and a report can be lost
(`faults`), and the process tree can stop (`Crash`): the rows and the overrides
document survive. The operations that validate a profile run in the API beside it. The
impact digest is modelled as what it hashes. `abandoned` records the rows whose
attendant was lost. A stage of the controller goes through the affected services
(`left`) in the order of their names (`IsFirst`) and makes the calls of that stage for
each (`Calls`, `next`). The schema fixes the generation and the reranking profile
(`ck_runtime_generation_profile`, `ck_runtime_reranker_profile`), so two configurations
differ in the environment of the OCR service only; `ConfigurationAssumption` says so.

The module stands for the coordinator and the OCR service by their drain and resume;
what those promise is checked in Coordinator (`DrainBoundary`) and Ocr
(`DrainedIsIdle`).

### Backup

The maintenance gate and the attended backup. Requests enter the gate, put an object,
commit and leave; the controller closes the gate, waits, stops the workers, dumps,
exports, writes the manifest, reports, restores, audits, records and reports; its
finally block starts the workers and opens the gate. `bundles` is what is in the
folder, `catalog` the list in `backup-catalog.json`, cut off at `MaxEntries` (50 in the
code), `lost` and `refused` are history. `TreeStops` is the end of the process tree. A
delivery that failed is recorded in the administrator's own session
(`v9_admin_fail_personal_backup_delivery`): `FailDelivery` has the outcome in which that
session has ended and nothing is recorded.

### Supervisor

The Team edition's supervisor, two instances of it on one machine. The steps are
those between two calls to Windows: mutex, job, create suspended, assign, resume,
readiness, poll, stop cascade, reap, and the order in which the `with` blocks and the
`finally` block undo them. Time is `Tick`: it ages the attempts in the restart budget
and ends the back-off. `SupervisorDies` is its crash. A service that listens binds its
port some time after it was resumed (`Bind`, the field `bound`), and only while no other
process holds it. Readiness asks who holds the port (`OwnsListener`) and not what else
runs: a process that a failed start could not terminate may live on beside its successor,
and keeps it from becoming ready only if it has the port. The order of the services is
stated by rounds, as `_ordered_services` computes it: a service is in the first round in
which everything it depends on is in an earlier one (`AreRounds`, `Round`), and services
of one round are in the order of their names (`Before`).

### Ocr

A batch of pages is a call of the parser with bounded retries. Every HTTP call is a
request in flight (`net`), handled in any order; the client may have given up on it.
A run acquires the slot, is split over subprocesses in threads and gathers them; a
failed part cancels the others, which die some time later. The run waits for them, but
for 4.1 seconds at most (`StopAwaited`), so it may end, and free its slot, while one is
dying. Nothing ends the subprocesses of a service that stops or crashes: they become
orphans (`Orphaned`), work on until they end by themselves (`OrphanEnds`), and keep
their workspace from being deleted.

### Update

One durable change per step. `InstallSteps`, `RollbackSteps` and `RecoverSteps` are
the orders in which the scripts make them, `Fail` and `Crash` cut them off anywhere.
`txn` is the transaction file; `env`, `contract`, `journal`, `shortcuts` and `db` are
the parts that must agree. `personal-release.json` is copied in place: a run cut off at
that step may leave it `torn` (`CutOff`), and since every run of the script reads it first,
neither an update nor Recover starts until somebody puts a whole one there. The channel may publish, and the application be started,
stopped and backed up, in between.

### The Proofs modules

Four of them extend one model: `ObjectsProofs`, `ReindexProofs`, `ChatsProofs` and
`AccessProofs`. The other four extend two models of neighbouring parts: `ProcessProofs`
(Ingestion and Supervisor), `ServiceProofs` (Coordinator and Ocr), `PersonalProofs`
(Update and Backup) and `AdministrationProofs` (Accounts and Configuration). The two
specifications of such a module have no variable and no definition in common, which is
why those of Supervisor, Ocr, Backup and Configuration carry the component in their
names (`OcrSpec`, `backupVars`); each theorem is about one of them. A module has the
inductive invariant of each model, one lemma per action and the theorems (section 4).

### MC modules

Each `MC` module only gives values to the constants of one model.

## 3. Runs

There is one run per model; safety and liveness are checked on the same instance.

| run | what it shows | bounds |
|---|---|---|
| `coordinator` | after a drain has been released nothing is queued, running or registered (`DrainBoundary`); a stream's terminal item is its last and comes when the request is no longer registered (`TerminalItemIsLast`); every caller is answered (`EveryCallerAnswered`) | two embedding requests (one background) that compete for one slot, one stream with a queue of 1, so that the slot is contended and the queue full; cancellation of one of each kind, close |
| `ingestion` | a superseded worker changes nothing; a ready document keeps one complete copy and leaves search only by deletion or the maintenance requeue; a live job is never replaced; every document settles | one document, two workers without working heartbeats, two operations that rebuild in opposite directions, four jobs, two claims per job, one crash: two workers on one job, a stale worker after a requeue, a copy that is replaced twice and cleaned up |
| `reindex` | one effective claim per task; a cutover covers what was there when the sources were compared; a rebuild ends | two chunks in one batch, two workers whose leases expire, the real three attempts, a crash, one operation with pause, cancel, retry, rollback and cleanup, chunks that come and go |
| `objects` | a key has one claimant; documents keep their originals while leases are renewed in time; nothing is left over for ever | two uploads of one content by one sender, so that they may share a reservation, two workers of which one may miss a lease, two attempts, a crash, failures of the store |
| `chat` | the turns implement `ChatTurns`; what is shown of an answer was written only from documents its owner may see now (`NothingHiddenIsShown`); a turn is ended only by the request that generates it (`OthersNeverEndATurn`) | two turns, any number of attempts by two requests at a time, two documents, sessions that end, one crash |
| `accounts` | an active administrator remains; a live session has proved the current password; failed logins are bounded although the block is tested before; the owner has proved the code issued last | two accounts, two passwords, three sessions, two requests at a time, two browsers, two setup codes, three changes of an account; the limits are reduced to 2 failures and 2 codes |
| `access` | nobody reads beyond the grants that count now; an applied preview changes what it showed; the library stays a tree | a member, a team, two folders, a file, three grants: a move or a boundary changes what a team's grant reaches |
| `configuration` | a change is what its administrator confirmed; what is reported as effective or rolled back is what runs; every row settles | two administrators, two changes among three configurations of two services, a profile operation, one lost message or failed step, one stop |
| `backup` | dump and inventory of an export agree; a backup shown as succeeded can be restored; the service resumes and runs end | two documents, two requests, two runs, a catalog of one entry, so that the second run pushes the first out, one fault, one stop |
| `supervisor` | dependencies stand while their dependents do; the watched process of a listening service holds its port, and nobody unknown does; children run only under their supervisor; every supervisor ends up watching a complete graph or leaves | two instances, a database and two services that need it, six processes, three faults, a budget of one restart |
| `ocr` | no more runs at work in the running service than slots; from the answer to a drain no run exists and no subprocess is at work; every batch settles and every slot is free again | two batches, two attempts, one slot, two subprocesses, two faults |
| `update` | a cut-off update leaves one whole release or a transaction that calls for Recover; a rollback brings everything back; the installation only moves forward | three releases of three schema revisions, two candidates, two environment files, two faults: one in the installation and one in its rollback or recovery |

Bounds cap counters and the number of faults only. Each allows what the shortest
interesting history needs and one more where that is affordable: a job claimed twice,
a generation that replaces one that replaced another, a fault and a second one
while the first is being undone. The theorems hold for every value of the bounds. Deadlock is checked in `update`; elsewhere the system may
rest: nobody uploads, every request has been answered, or a bound is reached.

What the liveness properties except, because the code (or the bound) does not get
past it:

- `EveryCallerAnswered`: the caller's own request was cancelled, or its stream failed
  behind a full queue;
- `EveryDocumentSettles`: the last claim the bound allows was lost (`MaxFence`);
- `OperationEnds`: the rebuild is `Stalled` (section 5);
- `LeftoverRemoved`: the deletion failed for good, or the object was put late under a
  reservation that another request had already used;
- `EveryRowSettles`, `ServiceResumes`: the claim's reply, the last report, the gate's
  request, the session that has to record a failed delivery, or the process itself was lost;
- `UpOrOut`: a stray process runs, which may hold the port of its service for ever.

Fairness. *Coordinator*: the event loop runs every ready callback, adapters end
because each of their calls has a timeout, and the HTTP layer reads its stream;
cancellations, drain, resume, close and new requests are not fair. *Ingestion*: the
worker's loop polls, a claimed job ends (`ingestion_processing_timeout`), clocks
advance, and the supervisor restarts a dead process; no administrator action is
fair. *Reindex*: likewise. *Objects*: the worker's loop and its calls go on, a lost
service lease is noticed, the supervisor restarts the process, clocks advance, and a
request that reserved a key ends one way or the other; a live process does not have to
miss a lease, and nobody has to upload or to delete. *Configuration* and *Backup*: the
controller's thread goes on (each of its calls has a timeout), a sent command is taken
or times out, requests inside the gate end, and the user starts the application
again; no administrator action, no fault is fair. *Supervisor*: its one thread runs on,
time passes, and a running service comes to bind a port that is free. *Ocr*: requests on
the loopback interface are handled, and a subprocess ends by its deadline; an orphan,
whose deadline nobody enforces, need not. Crashes are bounded everywhere, since the code bounds
neither how often a job may kill its worker nor how long a process may be suspended.
*Chats*, *Accounts*, *Access* and *Update* are safety only: whether a turn is retried
or a recovery run is up to people.

## 4. Proofs

`ProcessProofs` shows of Ingestion, for any number of documents, operations and workers and
whatever the bounds:

- `TypeCorrect`: types, and the CHECK constraints on the operation counters;
- `FencingSafe`: at most one worker holds a claim on a job that the database would
  accept (`OneEffectiveClaim`);
- `ServedCopySafe`: a ready document's active generation is ready and stored
  (`ReadyIsSearchable`), and is its only ready one (`OneReadyGeneration`);
- `SupersededSafe`, `ReadySafe`, `LiveJobSafe`: the three action properties
  `SupersededWorkerIsHarmless`, `ReadyNeverDegrades` and `LiveJobNeverReplaced`.

The only assumption is `IngestionAssumption`: `Documents` is finite, the markers
`Original`, `NoClaim`, `NoTicket` are not members of the sets they stand beside,
and the parameters have their types.

None of the properties is inductive alone. `Inv` has four parts:

- `Types`, with the fact that an operation that was never previewed has empty
  counters;
- `Fencing`: job ids are drawn from the document's counter, a claim never runs
  ahead of the fence of the job it names, and no two workers hold the same claim.
  A new claim increments the fence, so it differs from every claim that exists;
  this is what makes `OneEffectiveClaim` hold however leases expire;
- `Serving`: the copy that serves a ready document is not the target of a live
  job (otherwise a poison of that job would spoil it), and an operation's job
  belongs to the copy that the operation creates, which is served only when
  the job is completed;
- `Lineage`: nothing exists of an operation's copies before it starts, and an
  absent document has no jobs. Without it `Start` could reset a copy in service.

`TypeCorrect`, `FencingSafe` and `OneProcessSafe` are what the others rest on or
sharpen; no run repeats them.

All parts were model-checked as invariants of the `ingestion` instance first.

Of the Supervisor it shows, for every graph the manifest accepts, any number of
supervisors and processes, and whatever fails:

- `DependencyOrderHolds`: a service is in the process map only while everything it
  depends on is (`DependencyOrder`);
- `ListenerIsOwnedHolds`: while the process that the map has for a listening service runs,
  it and no other holds the port; and unless a supervisor has crashed, whoever holds a
  port is known to the supervisor that started it (`ListenerIsOwned`);
- `ChildrenWithinReignHolds`: a service runs only while a handle of the job is open and,
  unless a supervisor has crashed, only under the supervisor that holds the mutex
  (`ChildrenWithinReign`).

`DependencyOrder` follows from two facts that are easier to keep: the map is always an
initial part of the order (`Ordered`: the start loop extends it at the first service
missing, the cascade shortens it at the end), and a service comes after what it depends
on. The second needs that rounds exist, which is what `DependenciesAssumption` says: the
manifest refuses a graph with a cycle. `Knows` says that each process an instance
refers to is its own and is referred to once (as current child, in the map, or among the
retained), so that terminating one never hits another; `Holding` ties the position
in the `with` blocks to mutex and job; `Reign` is `ChildrenWithinReign` with the job
membership of each running process. `PortsHeld` is the first half of `ListenerIsOwned`,
with the fact that a port has one holder. The second half holds of every running process
(`Tracked`), whether it listens or not: it is in the map, being started or retained until
the supervisor leaves the job. That is shown on top of the invariant, since
it needs `Reign` to exclude that an instance outside the job has anything running.

`ObjectsProofs` shows, for any number of keys, uploads and workers:

- `OneClaimantSafe`: a key never has two claimants among a document, an upload that
  may still commit and a pending deletion (`OneClaimant`), whatever the leases do;
- `OriginalsSafe`: while leases are renewed in time, every document has its original
  in the store (`OriginalsKept`);
- `OneProcessSafe`: while the owner renews its lease, one process runs
  (`OneProcess`).

The assumption is `ObjectsAssumption` (types, and `None` is nobody's name). For
`OneClaimant` the invariant `Inv` adds that a request under way was given a
reservation of its own content (`Given`): a commit then closes the only open
reservation of the key whose document it creates. `OriginalsKept` needs the whole
chain: what a worker deletes it holds (`Held`), hence it is pending, hence by
`OneClaimant` no document and no active upload has it; an upload that verified its
object and may still commit has it in the store (`Backed`), which needs that a
reservation, once closed, is never reopened (`Fresh`: a request that has not begun
has no reservation that others could share). `Held` and the lease of the
process (for `OneProcess`) are where the heartbeats enter, and the only places: both are
proved under `Prompt`, the rest without it.

`ServiceProofs` shows of the Coordinator, for any number of requests, stages, slots and queue sizes:

- `DrainBoundaryHolds`: a drain is released at the exact boundary (`DrainBoundary`);
- `TerminalItemIsLastHolds`: a stream ends once (`TerminalItemIsLast`).

`Once` says that a request is in one place: in one queue, among the tasks that have not
started, waiting for a stage, holding it, or ending. Without it a task that ends would
not take the request out of everything. `Lined` says that it waits only for its own
stage, which is where `LeaveStage` looks for it. `Covered` (until close, what is
queued or runs is registered) and `Quiet` (`_idle` is set, and a drain released, only
when nothing is registered) give the boundary; `Quiet` survives an admission because
that clears `_idle` and needs `_draining` to be unset. `Terminated` strengthens the
second property: behind a terminal item the request is neither registered nor present,
so nobody is left who could add another. `Unborn` lets an admission start from nothing.
Note what is *not* invariant: a registered request need not be present (observations,
section 5), and nothing here says that it is.

Of the Ocr service it shows, for any clients, attempts, slots and subprocesses:

- `BoundedOcrHolds`: no more jobs have subprocesses of the running service at work that
  nobody told to stop than there are slots (`BoundedOcr`); the orphans of a service that
  stopped are not counted, and no bound on them holds;
- `DrainedIsIdleHolds`: from the answer to a drain until the service is replaced no run
  exists, and no subprocess that was not told to stop (`DrainedIsIdle`).

`OcrAliveHolds` ties a living subprocess to a running job and that to its slot, which
only the end of the run gives back. For this a job must not be run twice: `OcrAskedOnce`
says that the request for a run finds no run of its job and is sent once, although its
client gives up and tries again under another job. `OcrDraining` adds that once a drain
has begun the flag is set that refuses new runs.

`ReindexProofs` shows, for any number of chunks, workers, operations and attempts:

- `OneEffectiveTaskClaimHolds`: the fencing of tasks (`OneEffectiveTaskClaim`);
- `CutoverCoversHolds`: a cutover loses nothing that was compared (`CutoverCovers`).

`ClaimInv` is the argument of Ingestion's fencing, with two more places where a claim
may live: the batch a worker goes through and the commit whose transaction is open, which
holds the row. `BuildInv` ties what is embedded to the tasks: a completed task has its
embedding, the commit that counted itself the last one still is when it ends, an
operation that qualifies or has succeeded has no task left, and the generation search
uses is the active one. `QualInv` says that no two workers hold the same qualification,
and that from the comparison to the switch the claim holds and every live chunk outside
`late` is embedded; this is what `CutoverCovers` needs, since comparison and switch are
two statements.

`ChatsProofs` shows, for any number of turns, requests and documents:

- `ImplementsTurnsHolds`: Chats implements ChatTurns (`ImplementsTurns`), by the mapping
  of section 2. Every action is shown to be a step of the promise or to leave
  the mapped variables alone;
- `NothingHiddenIsShownHolds` and `OthersNeverEndATurnHolds`.

The invariant: turns are numbered in order, blank beyond the last, at most one is open,
and the recorded sources of each cover its stored text (`RowInv`). The last part is not
inductive alone, because the text is written later than the sources: `Grounded` adds that
a request at work holds something to write from, and that as long as its token is the
turn's, the turn records all of it.

`AdministrationProofs` shows of the Accounts, for any accounts, sessions, browsers, overlapping requests and
limits: `AdminRemainsHolds`, `SessionKnowsPasswordHolds`, `GuessesBoundedHolds` and
`OwnerProvedTheCodeHolds`.

- `AdminRemains` is not inductive alone: an administrator's change that was let in before
  must still meet an account, or it would bring one into being. The invariant adds that
  its target exists (`TargetsExist`); the test under the final-administrator lock does the
  rest.
- A session, and a login between verification and opening, carries the version of the
  account at which the password was proved; every change of the password raises the
  version. So as long as the versions agree the proof is of the current password
  (`SessionsRest`, `LoginsRest`), and a login verified against an old one opens nothing.
- `Challenged`: whoever holds the setup challenge has proved the code issued last, since a
  new code takes the challenge away.
- `Counting` relates the count of the throttle to the guesses of a user and the failing
  logins that have passed the block and are not counted yet. The bound follows because
  the latter are at most the requests (hence `IsFiniteSet(Requests)`).

Of the Configuration it shows, for any sessions, previews, grants, changes, faults and
stops, and any configurations that differ for OCR only:

- `AppliedAsConfirmedHolds`: a change has the configuration and the base its own session
  previewed, no preview serves two changes, and each change has spent one password proof
  of its session (`AppliedAsConfirmed`);
- `ReportedResultHoldsAlways`: once a change is recorded as effective or rolled back, the
  document and every service hold what it says (`ReportedResultHolds`).

For the first, the preview of a change must be spent (`Spent`), or it could be applied
again; the count of changes and of spent grants grows by one together. The second
follows the controller's thread. While it works its change is `applying`, hence the
last one (`OnlyLastActive`, from the unique index), hence the last one claimed, so that no
older result is spoken of while the runtime is in between (`ResultOpen`).
`ThreadKnows` says what each stage has achieved: from the restart on the document is the
desired configuration, from the validation on every service runs it and none
drains; and likewise, call by call, on the way back. It is what the report of
`effective` or `rolled_back` rests on. `OthersUntouched` keeps the services that are not
affected at their values, and `ResultKept` is the result without `up`: while the tree is
down the document alone holds it, and a start reads it from there. A failure in delivery
is recorded only on a row that is still pending, which nobody had claimed.

`AccessProofs` shows, for any library, members, teams and operations:

- `NothingBeyondGrantsHolds`: nobody reads more than the grants that count now;
- `TreeSoundHolds`: the library stays a tree;
- `PreviewHonouredHolds`: an applied preview changes what it showed.

`Upwards` is a least set, so its induction is one lemma (`UpLeast`): what holds of a node
and is handed on to parents holds of everything above. From it come that the
walk is linear (`AboveLinear`), has no cycle where every node reaches the root
(`NoCycle`), and is not changed by what happens elsewhere (`UpSame`). `Placing` is the
heart of the tree: a node hung below an existing folder that is not below it keeps every
walk finite and rooted; creation, upload and move are its three uses, and `Acyclic` is
needed exactly for the move. `RowsBacked` is weaker than the table being right (it is
not, after an activation): a row of the current version is backed by a grant or the
uploader, whether the account is active or not. The creation of an empty folder and
the deletion of a childless one keep the rows because no file's walk passes them
(`Kept`). `CountedInherits` finally connects the stopping walk of the query with the
definition of inheritance in the property.

`PersonalProofs` shows of the Update, for any releases, environment files and numbers of runs and faults:
`WholeOrRecoverableHolds`, `RolledBackIsPriorHolds` and `OnlyForwardHolds`. The
invariant follows the position in the scripts: what a preparing run has read is still so
(`Preparing`), the installation is touched only under an unfinished transaction
(`Installing`), without one everything is the release of the journal (`Settled`), an
unfinished one still has what its recovery needs (`Recoverable`), and each step of
install, rollback and recovery leaves behind what the later ones assume (`Progress`).

Of the Backup it shows, for any documents, requests, workers, runs, faults and stops and
any size of the catalog: `PairAgreesHolds` (dump and inventory of a complete export agree,
and the objects of every document in it are there) and `SucceededIsRestorableHolds` (a
backup shown as succeeded is complete, passed the audit of its restore, and is
in the catalog unless newer ones pushed it out). `Gate` says that between the
closing of the gate and its opening nobody is inside, and no worker runs while the export
does; so the dump is still what the database holds when the objects are copied and the
inventory is taken (`Exporting`). `Operation` says that only the newest run is active, so
that a late report or failure of delivery hits no other. `Outcomes` relates what the rows
say to the folder. `Catalogs` says that the catalog lists runs from the newest to the
oldest; without it, an insertion in front could push out an entry newer than those it
keeps.

Assumptions: each module's proofs rest on the one named `ASSUME` of its model, which
gives the constants their types, keeps markers such as `None` out of the sets they stand
beside, and asks for finiteness where something is counted. TLC evaluates them in the
runs. Where the graph of services is concerned, they say that names have a rank and that
the graph has no cycle, which `manifest.py` checks. `Spec` is without fairness in
Coordinator, where the run uses `FairSpec`; a behaviour of that is one of `Spec`. The
invariants of Coordinator, Update, Accounts, Ocr, Backup, Supervisor and Configuration
were model-checked on the instances of the runs before they were proved.

Every invariant and every action property that a run checks is a theorem. Only
model-checked is liveness: fairness and `ENABLED` are outside the proofs. Whatever depends
on interleavings of statements inside one stored function beyond those that are split is
in neither.

## 5. Observations

What the models make visible, by module. Each is a behaviour of the code that a
property excepts, that a property is stated around, or that decides a guard.

*Coordinator.*
- A cancel that hits a task between its creation and its first step leaves the id
  registered and active for good (`coordinator.py:196`); a later drain cannot end.
- An adapter failure behind a full stream queue drops the failure item, and the
  reader waits for ever (`coordinator.py:543`).
- Cancelling the last queued request does not set `_idle`: a waiting drain runs into
  its timeout.

*Ingestion.*
- The totals of an operation are fixed by the preview and its targets by the start: a
  document that becomes ready in between is queued, but the operation may succeed
  without it.
- A claim may commit between pause's check and its update.
- Only the error path looks at the attempt limit (`worker.py:222`): a job that kills
  its worker is claimed again and again.
- A failed operation with a job still marked running can be neither cancelled nor
  worked on until it is retried (migration 0010, line 1240).

*Reindex.*
- A chunk that becomes ready between the comparison and the switch is missing from
  the new index, although `source_unchanged` is recorded (0010:1585, 1648).
- A rebuild stalls when two commits count without each other, when the last chunks
  that were left are deleted, or when a task has used up its attempts without a report
  (0010:1452, 1386, 1277).
- A rollback drops what was ingested since the cutover from search.

*Objects.*
- The reservation of an abandoned upload is never removed, so its key is queued for
  deletion again after every pass (0001:4578), and uploads of that content keep meeting
  "pending object deletion; retry later" (`routes/documents.py:221`).
- A request that shares a reservation may put its object after the first one's
  document was created and deleted: nothing collects that object.
- Without timely heartbeats a superseded deletion worker may delete the original of
  a new document, since the object store knows no fence.
- A deletion that failed for good stays as a row and blocks uploads of that content.

*Chats.*
- A turn stays open, and its chat closed to questions, when the session ends while the
  request retrieves and the client then goes away, or when the API dies, until
  somebody runs the repair with the service stopped.
- A chat may be deleted under a turn that began after the check.
- Deleting a document withdraws the turn that is being generated from it, although the
  same deletion a moment after the answer leaves the answer visible.
- The earlier answers that go into later prompts are not recorded as sources.

*Accounts.*
- Two administrators who change each other deadlock on their rows; PostgreSQL aborts
  one, and that one's request fails.
- A refresh updates the session without looking at `revoked_at` again (0001:1990).

*Access.*
- A grant to create folders raises the version without computing the rows
  (0004:692), and neither do activation and reset: until the next change that does,
  members read less than granted, never more.
- A readable document whose place its reader cannot see is taken for a damaged
  library (`library.py:629`).
- A move that an uploader has previewed can never be applied: apply asks for an
  administrator first.

*Configuration.*
- A claim whose reply is lost, or a stop, leaves the row active, and the unique index
  blocks every later change.
- When the last report is lost, the prior values are not restored (`controller.py:256`).
- A session that ends before the delivery failure is recorded leaves the change pending.
- The GPU profile of OCR needs evidence that no operation can record.

*Backup.*
- A gate left closed by a drain that timed out refuses even the request that starts
  the next backup (`maintenance_gate.py:33`).
- A worker that does not start in the finally block is silently gone.
- The object of an interrupted upload makes the audit of the restore fail.
- The catalog is written before the verified report, and keeps 50 entries.
- The dump contains its own operation as running.
- A session that ends before the delivery failure is recorded leaves the run pending, and
  it refuses later backups.

*Supervisor.*
- A process that a failed start could not terminate lives on while the service is
  started beside it. If it has the port the new one is never ready; if it has not, both
  run, the new one watched and the old one only retained.
- A second instance that is refused deletes the startup diagnostic of the first.
- The job is opened if it exists, so children of a crashed supervisor may survive in
  the job of the next.
- A service that is never ready may never exhaust the budget, if its attempts are
  spread wider than the window.

*Ocr.*
- The deletion after a cancel or a timeout is refused (409) while the run dies, the
  refusal is ignored, and nothing calls `cleanup_abandoned`: the workspace stays.
- A client's timeout does not cancel the run.
- A second cancellation gives the slot away while a subprocess is dying.
- Subprocesses of a service that stopped or crashed live on as orphans, and the new
  service, with all its slots free, runs beside them: the limit holds for each
  service process, not for the machine.
- A subprocess that takes longer than 4.1 seconds to stop dies after its slot was given
  away.
- `/admin/resume` is not modelled: nothing in the repository calls it.

*Update.*
- A new update does not look for an unfinished transaction, although
  `Check-for-Updates.cmd` tells the user to run it again: it overwrites the transaction
  and may commit a mixed installation. `overwritten` marks these histories, and the
  properties are about the others.
- Neither rollback nor Recover restores `release-state.json`: a release that was
  rolled back is refused as not newer.
- Recover of a transaction that is only prepared restores the database from an older
  backup, although nothing was migrated.
- `personal-release.json` is copied in place (`Update-RagPersonal.ps1:305`, 455, 477) and
  read before Recover is entered (285): a torn one blocks Recover and every later update.
- Environment files are written in place; a torn one is not repaired by the
  replacement of paths (`RagPersonal.psm1:100`).
- Nothing keeps two updaters apart; release directories are never removed.

## 6. Not modelled, and the plan

Not modelled, with the reason in `PROJECT.json`: retrieval, prompts and parsing
(pure functions over text), the web client, the Team edition's backup and the other
operations scripts (pure I/O around what is modelled). Of the chats, the conversation
history in the prompt is not followed: it is read when the turn begins and not looked
at again. Of the service leases, the ingestion worker's use is not repeated: it is the
class that Objects models. The supervisor of the Personal edition is modelled as far
as Configuration and Backup use it.

The models are complete along the plan, and their safety properties are proved. What is
left are two sharper statements: that a registered request of the coordinator is present
unless it was cancelled before its first step, and that the rows of Access are exact while
no account has been activated or reset since they were computed.
