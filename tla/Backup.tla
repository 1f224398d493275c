------------------------------- MODULE Backup --------------------------------
(***************************************************************************)
(* The attended backup of the Personal edition.                            *)
(*                                                                         *)
(* The API records a run and commands the controller.  The controller lets *)
(* the user choose a folder, closes the API's maintenance gate and waits   *)
(* for the requests inside it, stops the two workers, dumps the database,  *)
(* exports every object and then the inventory the database has by now,    *)
(* reports the export, restores the pair in disposable stores, audits it   *)
(* and reports the verification.  Whatever happens, it then starts the     *)
(* workers again and opens the gate if it knows that it closed it.         *)
(*                                                                         *)
(* The library is reduced to what a backup must pair: the documents, the   *)
(* deletions still to be done and the objects in the store.  An object is  *)
(* named by the hash of its content, so that a key stands for it.          *)
(***************************************************************************)
EXTENDS Naturals, Sequences, FiniteSets, SequencesExt

CONSTANTS Keys,        \* object keys; each is uploaded at most once
          Requests,    \* slots for requests that change the library
          MaxEntries,  \* entries the catalog keeps: 50
          MaxBackupRuns,     \* bound on backup runs
          MaxBackupFaults,   \* bound on failed steps and lost messages
          MaxCrashes   \* bound on stops of the process tree

ASSUME CatalogAssumption == MaxEntries \in Nat \ {0}

VARIABLES
    docs,        \* documents, by the key of their original
    deletions,   \* object_deletions: keys queued for the deletion worker
    store,       \* keys in the bucket
    fresh,       \* keys nobody has uploaded yet
    requests,    \* what each request does
    draining,    \* MaintenanceGate._draining
    workers,     \* worker processes that run
    runs,        \* backup_runs with personal_backup_operations
    call,        \* the API request that started a backup
    wire,        \* commands on their way to the controller
    ctl,         \* the controller's operation thread, or Idle
    bundles,     \* per run, the folder at the destination
    catalog,     \* backup-catalog.json
    up,          \* the process tree runs
    backup_faults, crashes,
    lost,        \* history: kinds of failure that happened
    refused      \* history: runs the administrator was told have failed

backupVars == <<docs, deletions, store, fresh, requests, draining, workers, runs,
          call, wire, ctl, bundles, catalog, up, backup_faults, crashes, lost,
          refused>>

library == <<docs, deletions, store, fresh, requests>>
outcome == <<bundles, catalog>>
meta    == <<up, crashes>>

Workers == {"ingestion", "deletion"}
Idle == [at |-> "idle"]
NoCall == [at |-> "none"]
NoRequest == [at |-> "none"]
NoBundle == [at |-> "none"]
Inventory == [docs |-> docs, deletions |-> deletions]

BackupInit ==
    /\ docs = {} /\ deletions = {} /\ store = {} /\ fresh = Keys
    /\ requests = [r \in Requests |-> NoRequest]
    /\ draining = FALSE /\ workers = Workers
    /\ runs = <<>> /\ call = NoCall /\ wire = {} /\ ctl = Idle
    /\ bundles = <<>> /\ catalog = <<>>
    /\ up = TRUE /\ backup_faults = 0 /\ crashes = 0 /\ lost = {} /\ refused = {}

\* One of the bounded failures happens, of a kind the properties tell apart.
BackupFault(kind) ==
    /\ backup_faults < MaxBackupFaults /\ backup_faults' = backup_faults + 1 /\ lost' = lost \cup {kind}
NoFault == UNCHANGED <<backup_faults, lost>>

-----------------------------------------------------------------------------
(* Requests that change the library, inside the maintenance gate.          *)

\* MaintenanceGate.enter_mutation: refused while draining.
Enters == up /\ ~draining

\* _active_mutations: the request that starts a backup is one of them.
ActiveMutations == {r \in Requests : requests[r].at # "none"}
InGate == ActiveMutations # {} \/ call # NoCall

UploadBegins(r, k) ==
    /\ Enters /\ requests[r] = NoRequest /\ k \in fresh
    /\ fresh' = fresh \ {k}
    /\ requests' = [requests EXCEPT ![r] = [at |-> "put", key |-> k]]
    /\ UNCHANGED <<docs, deletions, store>>

DeleteBegins(r, k) ==
    /\ Enters /\ requests[r] = NoRequest /\ k \in docs
    /\ \A q \in Requests : requests[q] # [at |-> "delete", key |-> k]
    /\ requests' = [requests EXCEPT ![r] = [at |-> "delete", key |-> k]]
    /\ UNCHANGED <<docs, deletions, store, fresh>>

\* The object is stored first, the document is committed in a transaction of
\* its own; the request leaves the gate when it ends.
PutObject(r) ==
    /\ requests[r].at = "put" /\ store' = store \cup {requests[r].key}
    /\ requests' = [requests EXCEPT ![r].at = "commit"]
    /\ UNCHANGED <<docs, deletions, fresh>>

CommitUpload(r) ==
    /\ requests[r].at = "commit" /\ docs' = docs \cup {requests[r].key}
    /\ requests' = [requests EXCEPT ![r] = NoRequest]
    /\ UNCHANGED <<deletions, store, fresh>>

\* The client goes away or the commit is refused: the object stays behind.
AbandonUpload(r) ==
    /\ requests[r].at = "commit"
    /\ requests' = [requests EXCEPT ![r] = NoRequest]
    /\ UNCHANGED <<docs, deletions, store, fresh>>

DeleteDocument(r) ==
    /\ requests[r].at = "delete"
    /\ docs' = docs \ {requests[r].key}
    /\ deletions' = deletions \cup {requests[r].key}
    /\ requests' = [requests EXCEPT ![r] = NoRequest]
    /\ UNCHANGED <<store, fresh>>

Mutation(r) ==
    /\ up
    /\ \/ \E k \in Keys : UploadBegins(r, k) \/ DeleteBegins(r, k)
       \/ PutObject(r) \/ CommitUpload(r) \/ AbandonUpload(r)
       \/ DeleteDocument(r)
    /\ UNCHANGED <<draining, workers, runs, call, wire, ctl, outcome, backup_faults,
                   lost, refused, meta>>

\* The deletion worker queues what an abandoned upload left, deletes an
\* object, and takes a deleted one off its queue.
Unowned(k) ==
    /\ k \in store \ (docs \cup deletions)
    /\ \A r \in Requests : requests[r].at # "none" => requests[r].key # k

DeletionPass(k) ==
    /\ up /\ "deletion" \in workers
    /\ \/ Unowned(k) /\ deletions' = deletions \cup {k} /\ UNCHANGED store
       \/ k \in deletions \cap store /\ store' = store \ {k}
          /\ UNCHANGED deletions
       \/ k \in deletions \ store /\ deletions' = deletions \ {k}
          /\ UNCHANGED store
    /\ UNCHANGED <<docs, fresh, requests, draining, workers, runs, call, wire,
                   ctl, outcome, backup_faults, lost, refused, meta>>

-----------------------------------------------------------------------------
(* Starting a run and delivering the command.                              *)

\* uq_personal_backup_active: one pending or running operation.
ActiveRun(i) == runs[i].state \in {"pending", "running"}
NoActiveRun == \A i \in DOMAIN runs : ~ActiveRun(i)

\* v4_begin_backup_run and the row of v9_admin_start_personal_backup.
NewRun ==
    [run |-> "running", state |-> "pending", stage |-> "queued",
     manifest |-> "none"]

\* SystemService.start_personal_backup up to the commit; the request waits
\* for the controller to take the command.
StartBackup ==
    /\ Enters /\ call = NoCall /\ Len(runs) < MaxBackupRuns /\ NoActiveRun
    /\ runs' = Append(runs, NewRun) /\ bundles' = Append(bundles, NoBundle)
    /\ call' = [at |-> "waiting", run |-> Len(runs) + 1]
    /\ wire' = wire \cup {Len(runs) + 1}
    /\ UNCHANGED <<library, draining, workers, ctl, catalog, backup_faults, lost,
                   refused, meta>>

\* ControllerServer._handle; the lock may also be held by a change of the
\* configuration.
HandleCommand(i) ==
    /\ up /\ i \in wire /\ wire' = wire \ {i}
    /\ \/ /\ ctl = Idle /\ NoFault
          /\ ctl' = [at |-> "claim", run |-> i, drained |-> FALSE,
                     stopped |-> {}]
          /\ call' = IF call = [at |-> "waiting", run |-> i] THEN NoCall
                     ELSE call
       \/ /\ IF ctl = Idle THEN BackupFault("busy") ELSE NoFault
          /\ UNCHANGED ctl
          /\ call' = IF call = [at |-> "waiting", run |-> i]
                     THEN [call EXCEPT !.at = "failing"] ELSE call
    /\ UNCHANGED <<library, draining, workers, runs, outcome, refused, meta>>

\* The command is lost, or not answered within 5 s although it arrives.
CommandTimesOut ==
    /\ up /\ call.at = "waiting" /\ BackupFault("command")
    /\ \E kept \in {wire, wire \ {call.run}} : wire' = kept
    /\ call' = [call EXCEPT !.at = "failing"]
    /\ UNCHANGED <<library, draining, workers, runs, ctl, outcome, refused,
                   meta>>

\* v4_finish_backup_run with p_succeeded false: only a running run.
FailRun(row) == IF row.run = "running" THEN [row EXCEPT !.run = "failed"] ELSE row

\* Mutant: only the operation that is still pending is failed.
DeliveryFailsIfPending(row) ==
    IF row.state = "pending"
    THEN [row EXCEPT !.run = "failed", !.state = "failed", !.stage = "failed"]
    ELSE row

\* v9_admin_fail_personal_backup_delivery: the run is failed even when the
\* controller has claimed the operation by now.
DeliveryFails(row) ==
    IF row.state = "pending"
    THEN [FailRun(row) EXCEPT !.state = "failed", !.stage = "failed"]
    ELSE FailRun(row)

\* The failure is recorded in the session of the caller.  One that has ended, or
\* whose user is no administrator any more, is turned away (v4_require_admin): the
\* row stays as it is.
FailDelivery ==
    /\ up /\ call.at = "failing" /\ call' = NoCall
    /\ \/ /\ runs' = [runs EXCEPT ![call.run] = DeliveryFails(runs[call.run])]
          /\ refused' = refused \cup {call.run} /\ UNCHANGED lost
       \/ lost' = lost \cup {"session"} /\ UNCHANGED <<runs, refused>>
    /\ UNCHANGED <<library, draining, workers, wire, ctl, outcome, backup_faults,
                   meta>>

-----------------------------------------------------------------------------
(* The controller's thread: PersonalRuntime._create_backup.                *)

AtStage(stage) == up /\ ctl.at = stage
Go(stage) == ctl' = [ctl EXCEPT !.at = stage]
Row == runs[ctl.run]
SetRow(row) == runs' = [runs EXCEPT ![ctl.run] = row]
SetBundle(b) == bundles' = [bundles EXCEPT ![ctl.run] = b]
quiet == <<library, call, wire, refused, meta>>

\* An exception after the claim: report it, then the finally block.
Raised == Go("fail")

\* A request to the API fails: it did not arrive, or its reply was lost.
Lost(row) == BackupFault("request") /\ (SetRow(row) \/ UNCHANGED runs)

\* v9_controller_claim_personal_backup.  "claimed" is set after the call, so
\* that an exception in it is not reported.
ClaimBackup ==
    /\ AtStage("claim")
    /\ LET claimed == [Row EXCEPT !.state = "running", !.stage = "draining"] IN
       \/ Row.state = "pending" /\ SetRow(claimed) /\ Go("choose") /\ NoFault
       \/ Row.state # "pending" /\ ctl' = Idle /\ UNCHANGED runs /\ NoFault
       \/ /\ Row.state = "pending" /\ BackupFault("claim") /\ ctl' = Idle
          /\ SetRow(claimed) \/ UNCHANGED runs
    /\ UNCHANGED <<quiet, draining, workers, outcome>>

\* choose_destination: the user may cancel, or choose a folder that is refused.
ChooseDestination ==
    /\ AtStage("choose") /\ (Go("drain") \/ Raised)
    /\ UNCHANGED <<quiet, draining, workers, runs, outcome, backup_faults, lost>>

\* MaintenanceGate.drain sets the flag and then waits for the idle event.
BeginDrain ==
    /\ AtStage("drain")
    /\ \/ draining' = TRUE /\ Go("idle_wait") /\ NoFault
       \/ UNCHANGED draining /\ Raised /\ BackupFault("request")
    /\ UNCHANGED <<quiet, workers, runs, outcome>>

\* Mutant: the drain returns without waiting for the requests inside.
IdleAtOnce == TRUE

\* The idle event is set when the last request leaves.
IdleReached == ~InGate

\* After 900 s the route answers 503; a lost reply has the same effect: the
\* flag is set and "drained" is not.
Drained ==
    /\ AtStage("idle_wait")
    /\ \/ IdleReached /\ ctl' = [ctl EXCEPT !.at = "stop", !.drained = TRUE]
          /\ NoFault
       \/ BackupFault("gate") /\ Raised
    /\ UNCHANGED <<quiet, draining, workers, runs, outcome>>

StopWorkers ==
    /\ AtStage("stop") /\ workers' = {}
    /\ ctl' = [ctl EXCEPT !.at = "exporting", !.stopped = workers]
    /\ UNCHANGED <<quiet, draining, runs, outcome, backup_faults, lost>>

\* v9_controller_advance_personal_backup.
Stage(stage, next) ==
    /\ AtStage(stage)
    /\ LET advanced == [Row EXCEPT !.stage = stage] IN
       \/ Row.state = "running" /\ SetRow(advanced) /\ Go(next) /\ NoFault
       \/ Row.state # "running" /\ UNCHANGED runs /\ Raised /\ NoFault
       \/ Row.state = "running" /\ Lost(advanced) /\ Raised
    /\ UNCHANGED <<quiet, draining, workers, outcome>>

\* PersonalBackupService.export: pg_dump takes one snapshot of the database.
Dump ==
    /\ AtStage("dump")
    /\ \/ SetBundle([at |-> "dumped", dump |-> Inventory]) /\ Go("objects")
          /\ NoFault
       \/ BackupFault("step") /\ UNCHANGED bundles /\ Raised
    /\ UNCHANGED <<quiet, draining, workers, runs, catalog>>

\* StorageTransferService.export downloads every object of the bucket; what
\* fails removes the folder.
ExportObjects ==
    /\ AtStage("objects")
    /\ \/ /\ NoFault /\ Go("snapshot")
          /\ SetBundle([at |-> "objects", dump |-> bundles[ctl.run].dump,
                        objects |-> store])
       \/ BackupFault("step") /\ SetBundle(NoBundle) /\ Raised
    /\ UNCHANGED <<quiet, draining, workers, runs, catalog>>

\* _validate_database_objects: every document has its object in the bundle.
ValidDatabaseObjects(inventory, objects) == inventory.docs \subseteq objects

\* The inventory of the manifest is read from the database after the objects,
\* in v4_maintenance_storage_snapshot.
WriteManifest ==
    /\ AtStage("snapshot")
    /\ LET b == bundles[ctl.run] IN
       \/ /\ ValidDatabaseObjects(Inventory, b.objects) /\ NoFault
          /\ SetBundle([at |-> "complete", dump |-> b.dump,
                        objects |-> b.objects, inventory |-> Inventory])
          /\ Go("exported")
       \/ /\ ~ValidDatabaseObjects(Inventory, b.objects) /\ NoFault
          /\ SetBundle(NoBundle) /\ Raised
       \/ BackupFault("step") /\ SetBundle(NoBundle) /\ Raised
    /\ UNCHANGED <<quiet, draining, workers, runs, catalog>>

\* v9_controller_finish_personal_backup_export: refused when the run was
\* failed meanwhile, and then neither row changes.
ReportExported ==
    /\ AtStage("exported")
    /\ LET accepted == Row.run = "running" /\ Row.state = "running"
           row == [Row EXCEPT !.run = "succeeded", !.stage = "verifying",
                              !.manifest = "recorded"] IN
       \/ accepted /\ SetRow(row) /\ Go("verifying") /\ NoFault
       \/ ~accepted /\ UNCHANGED runs /\ Raised /\ NoFault
       \/ accepted /\ Lost(row) /\ Raised
    /\ UNCHANGED <<quiet, draining, workers, outcome>>

\* _validate_manifest: a manifest with all its fields; it is written last.
ValidManifest(b) == b.at = "complete"

\* import_archive compares the restored database with the manifest.
ImportAccepts(b) ==
    /\ ValidManifest(b) /\ ValidDatabaseObjects(b.inventory, b.objects)
    /\ b.inventory = b.dump

\* audit of the restored pair: an object without a document or a queued
\* deletion is an orphan, and an orphan is not clean.
AuditClean(b) ==
    /\ b.dump.docs \subseteq b.objects
    /\ b.objects \ (b.dump.docs \cup b.dump.deletions) = {}

\* _record_verified_backup: one entry for a run, newest first, the oldest left out.
Recorded(i) ==
    LET entries == <<i>> \o RemoveFirst(catalog, i) IN
    SubSeq(entries, 1, IF Len(entries) > MaxEntries THEN MaxEntries ELSE Len(entries))

\* PersonalBackupService.verify; removing the disposable stores can fail
\* after the verification is recorded.
VerifyPair ==
    /\ AtStage("verify")
    /\ LET b == bundles[ctl.run] IN
       \/ /\ ImportAccepts(b) /\ AuditClean(b) /\ NoFault
          /\ catalog' = Recorded(ctl.run) /\ Go("verified")
       \/ ~(ImportAccepts(b) /\ AuditClean(b)) /\ Raised /\ NoFault
          /\ UNCHANGED catalog
       \/ /\ BackupFault("step") /\ Raised
          /\ \/ UNCHANGED catalog
             \/ ImportAccepts(b) /\ AuditClean(b) /\ catalog' = Recorded(ctl.run)
    /\ UNCHANGED <<quiet, draining, workers, runs, bundles>>

\* v9_controller_record_restore_verification.
ReportVerified ==
    /\ AtStage("verified")
    /\ LET accepted == Row.run = "succeeded" /\ Row.state = "running"
                         /\ Row.stage = "verifying"
           row == [Row EXCEPT !.state = "succeeded", !.stage = "succeeded"] IN
       \/ accepted /\ SetRow(row) /\ Go("restart") /\ NoFault
       \/ ~accepted /\ UNCHANGED runs /\ Raised /\ NoFault
       \/ accepted /\ Lost(row) /\ Raised
    /\ UNCHANGED <<quiet, draining, workers, outcome>>

\* v9_controller_fail_personal_backup; its own failure is swallowed.
ReportFailed ==
    /\ AtStage("fail") /\ Go("restart")
    /\ LET row == [FailRun(Row) EXCEPT !.state = "failed", !.stage = "failed"] IN
       \/ Row.state = "running" /\ SetRow(row) /\ NoFault
       \/ Row.state # "running" /\ UNCHANGED runs /\ NoFault
       \/ Row.state = "running" /\ BackupFault("report") /\ UNCHANGED runs
    /\ UNCHANGED <<quiet, draining, workers, outcome>>

\* The finally block starts what it stopped; a worker that does not become
\* ready stays down and nobody hears of it.
RestartWorkers ==
    /\ AtStage("restart") /\ Go("resume")
    /\ \/ workers' = workers \cup ctl.stopped /\ NoFault
       \/ \E w \in ctl.stopped : workers' = (workers \cup ctl.stopped) \ {w}
          /\ BackupFault("worker")
    /\ UNCHANGED <<quiet, draining, runs, outcome>>

\* Mutant: the gate is opened again after a verified backup only.
ResumesIfVerified == ctl.drained /\ Row.state = "succeeded"

\* maintenance_resume is called if "drained" is set.
Resumes == ctl.drained

ResumeMutations ==
    /\ AtStage("resume") /\ ctl' = Idle
    /\ \/ draining' = (draining /\ ~Resumes) /\ NoFault
       \/ Resumes /\ UNCHANGED draining /\ BackupFault("gate")
    /\ UNCHANGED <<quiet, workers, runs, outcome>>

-----------------------------------------------------------------------------
(* The process tree stops and is started again.  Rows, objects, bundles and *)
(* catalog stay; the gate is memory of the API.                             *)

TreeStops ==
    /\ up /\ crashes < MaxCrashes /\ crashes' = crashes + 1 /\ up' = FALSE
    /\ requests' = [r \in Requests |-> NoRequest]
    /\ draining' = FALSE /\ workers' = {} /\ call' = NoCall /\ wire' = {}
    /\ ctl' = Idle /\ lost' = lost \cup {"crash"}
    /\ UNCHANGED <<docs, deletions, store, fresh, runs, outcome, backup_faults,
                   refused>>

StartAll ==
    /\ ~up /\ up' = TRUE /\ workers' = Workers
    /\ UNCHANGED <<library, draining, runs, call, wire, ctl, outcome, backup_faults,
                   crashes, lost, refused>>

Export == Dump \/ ExportObjects \/ WriteManifest

CreateBackup ==
    \/ ClaimBackup \/ ChooseDestination \/ BeginDrain \/ Drained \/ StopWorkers
    \/ Stage("exporting", "dump") \/ Export \/ ReportExported
    \/ Stage("verifying", "verify") \/ VerifyPair \/ ReportVerified
    \/ ReportFailed \/ RestartWorkers \/ ResumeMutations

Delivery == \/ \E i \in wire : HandleCommand(i)
            \/ FailDelivery

BackupNext ==
    \/ \E r \in Requests : Mutation(r)
    \/ \E k \in Keys : DeletionPass(k)
    \/ StartBackup \/ CommandTimesOut \/ Delivery
    \/ CreateBackup
    \/ TreeStops \/ StartAll

\* Requests end, because the drain gives up after 900 s otherwise (Drained);
\* the folder dialog is given up after 300 s; the threads and processes go on
\* and the user starts the application again.
BackupFairness ==
    /\ \A r \in Requests : WF_backupVars(requests[r] # NoRequest /\ Mutation(r))
    /\ WF_backupVars(Delivery) /\ WF_backupVars(CreateBackup) /\ WF_backupVars(StartAll)

BackupSpec == BackupInit /\ [][BackupNext]_backupVars /\ BackupFairness

-----------------------------------------------------------------------------
(* Properties.                                                             *)

Complete(i) == bundles[i].at = "complete"

\* The two halves of a finished export agree: between pg_dump and the
\* inventory that the manifest gets at the end neither a request that was
\* inside the gate nor a worker changed the library.
PairAgrees ==
    \A i \in DOMAIN runs : Complete(i) =>
       bundles[i].dump = bundles[i].inventory
         /\ bundles[i].dump.docs \subseteq bundles[i].objects

\* The entries of the catalog are all newer than run i, and there is no room.
PushedOut(i) ==
    Len(catalog) = MaxEntries /\ \A k \in DOMAIN catalog : catalog[k] > i

\* A backup that is shown as succeeded can be restored: its folder is still
\* complete and clean, the catalog has it unless it is full of newer ones, and
\* nobody was told that it failed, although the API gives up on a command that
\* the controller takes.
SucceededIsRestorable ==
    \A i \in DOMAIN runs : runs[i].state = "succeeded" =>
       /\ runs[i].run = "succeeded" /\ runs[i].manifest = "recorded"
       /\ Complete(i) /\ AuditClean(bundles[i])
       /\ i \in Range(catalog) \/ PushedOut(i)
       /\ i \notin refused

\* Whatever fails, the service comes back: the API accepts changes again and both
\* workers run again, unless the very request that closes or opens the gate was lost or
\* timed out, or the worker itself did not start; and every run ends, so that its row
\* does not refuse later backups, unless the claim's reply, the report of the failure,
\* the process itself or the session that has to record the failed delivery was lost.
ServiceResumes ==
    []<>(/\ up => /\ draining => "gate" \in lost
                  /\ workers # Workers => "worker" \in lost
         /\ (\A i \in DOMAIN runs : ~ActiveRun(i))
              \/ lost \cap {"claim", "report", "crash", "session"} # {})

=============================================================================
