----------------------------- MODULE Ingestion -----------------------------
(***************************************************************************)
(* Document ingestion: the job queue kept in PostgreSQL, the worker        *)
(* processes that claim jobs under a lease with a fencing token, and the   *)
(* "reingestion" operations that rebuild ready documents with another      *)
(* parser beside the live copy.                                            *)
(*                                                                         *)
(* The stored functions of migration 0010 (and the ones of 0001 and 0005   *)
(* it leaves in force) are the actions; each runs in a transaction of its  *)
(* own that locks the rows it changes, so it is one step.  The one         *)
(* exception is pause, whose check and update read different snapshots.    *)
(* A document generation is named by its document and by what created it:  *)
(* the upload ("Original") or an operation.                                *)
(***************************************************************************)
EXTENDS Naturals, FiniteSets

CONSTANTS Documents,
          Operations,     \* reprocessing operations of type "reingestion"
          Original,       \* the lineage of an upload, and of a job outside operations
          Workers,        \* worker processes; several overlap after a pause
          NoClaim,
          NoTicket,
          Versions,       \* parser versions
          UploadVersion,  \* the parser version each document is uploaded with
          Target,         \* the parser version each operation rebuilds to
          MaxAttempts,    \* ingestion_maximum_attempts
          HeartbeatsHold, \* whether a live worker always renews its lease in time
          MayDelete,      \* whether documents and generations may be removed
          MayRequeue,     \* whether the maintenance tool may requeue documents
          MaxFence,       \* bound: claims of one job
          MaxSerial,      \* bound: jobs of one document
          MaxCrashes      \* bound: crashes of worker processes

Lineages    == Operations \cup {Original}
Generations == Documents \X Lineages
Claims      == [gen : Generations, id : Nat, fence : Nat]
DocStates   == {"absent", "uploaded", "working", "ready", "failed", "deleted"}
Snapshots   == [state : DocStates, serial : Nat, fence : Nat]

ASSUME IngestionAssumption ==
  /\ IsFiniteSet(Documents)
  /\ Original \notin Operations
  /\ NoClaim \notin Claims
  /\ NoTicket \notin Snapshots
  /\ UploadVersion \in [Documents -> Versions]
  /\ Target \in [Operations -> Versions]
  /\ MaxAttempts \in Nat \ {0}
  /\ HeartbeatsHold \in BOOLEAN /\ MayDelete \in BOOLEAN /\ MayRequeue \in BOOLEAN
  /\ MaxFence \in Nat /\ MaxSerial \in Nat /\ MaxCrashes \in Nat

VARIABLES
  docState,  \* documents.state; "working" stands for parsing .. indexing
  active,    \* documents.active_generation_id, as a lineage
  genState,  \* document_generations.state
  chunks,    \* generations whose chunks (and their embeddings) are stored
  job,       \* per generation, the last job that targets it
  serial,    \* per document, jobs created so far
  ticket,    \* per document, the snapshot a requeue request was prepared with
  op,        \* reprocessing_operations
  pausing,   \* operations whose pause has passed its check
  phase,     \* worker processes: down, idle, busy with a claim
  claim,     \* the IngestionLease a worker holds
  crashes

docVars    == <<docState, active, genState, chunks>>
jobVars    == <<job, serial, ticket>>
opVars     == <<op, pausing>>
workerVars == <<phase, claim, crashes>>
vars == <<docVars, jobVars, opVars, workerVars>>

-----------------------------------------------------------------------------
(* Rows.  attempt and fencing_token start at 0 and are only ever           *)
(* incremented together, by a claim, so one number stands for both; a      *)
(* lease_token is drawn with each of them.                                 *)

Jobs == [status : {"none", "queued", "running", "completed", "failed"},
         id     : Nat,
         fence  : Nat,
         leased : BOOLEAN,   \* lease_expires_at is in the future
         due    : BOOLEAN,   \* available_at has passed
         op     : Lineages]  \* reprocessing_operation_id

NoJob == [status |-> "none", id |-> 0, fence |-> 0, leased |-> FALSE,
          due |-> FALSE, op |-> Original]

NewJob(n, o) == [NoJob EXCEPT !.status = "queued", !.id = n, !.due = TRUE, !.op = o]

OpenStates == {"running", "paused"}

NoOperation == [state |-> "none", total |-> 0, completed |-> 0, failed |-> 0]

Init ==
  /\ docState = [d \in Documents |-> "absent"]
  /\ active = [d \in Documents |-> Original]
  /\ genState = [g \in Generations |-> "none"]
  /\ chunks = {}
  /\ job = [g \in Generations |-> NoJob]
  /\ serial = [d \in Documents |-> 0]
  /\ ticket = [d \in Documents |-> NoTicket]
  /\ op = [o \in Operations |-> NoOperation]
  /\ pausing = {}
  /\ phase = [w \in Workers |-> "idle"]
  /\ claim = [w \in Workers |-> NoClaim]
  /\ crashes = 0

-----------------------------------------------------------------------------
(* Documents.                                                              *)

GensOf(d) == {g \in Generations : g[1] = d}

ActiveGen(d) == <<d, active[d]>>

Live(g) == job[g].status \in {"queued", "running"}

\* The document row, its first generation (two triggers) and its first job.
Upload(d) ==
  /\ docState[d] = "absent"
  /\ docState' = [docState EXCEPT ![d] = "uploaded"]
  /\ genState' = [genState EXCEPT ![<<d, Original>>] = "building"]
  /\ serial' = [serial EXCEPT ![d] = 1]
  /\ job' = [job EXCEPT ![<<d, Original>>] = NewJob(1, Original)]
  /\ UNCHANGED <<active, chunks, ticket, opVars, workerVars>>

\* DELETE FROM documents cascades to its generations, chunks and jobs.
Delete(d) ==
  /\ MayDelete
  /\ docState[d] \notin {"absent", "deleted"}
  /\ docState' = [docState EXCEPT ![d] = "deleted"]
  /\ genState' = [g \in Generations |-> IF g[1] = d THEN "none" ELSE genState[g]]
  /\ chunks' = chunks \ GensOf(d)
  /\ job' = [g \in Generations |-> IF g[1] = d THEN NoJob ELSE job[g]]
  /\ UNCHANGED <<active, serial, ticket, opVars, workerVars>>

IsLatestJob(g) ==
  /\ job[g].status # "none"
  /\ \A h \in GensOf(g[1]) : job[h].status # "none" => job[h].id <= job[g].id

\* The digest over the document and its latest job.  Their updated_at columns
\* move with the fields kept here.
Snapshot(g) ==
  [state |-> docState[g[1]], serial |-> serial[g[1]], fence |-> job[g].fence]

Failed(g) == docState[g[1]] = "failed" /\ job[g].status = "failed"

\* v4_prepare_document_reingest, and the maintenance tool's snapshot.
PrepareRequeue(g) ==
  /\ IsLatestJob(g)
  /\ \A h \in GensOf(g[1]) : ~Live(h)
  /\ Failed(g) \/ MayRequeue
  /\ ticket' = [ticket EXCEPT ![g[1]] = Snapshot(g)]
  /\ UNCHANGED <<docVars, job, serial, opVars, workerVars>>

\* Mutant: the commit trusts its preparation and looks at nothing again.
RequeueAllowedUnchecked(g) == ticket[g[1]] # NoTicket

RequeueAllowed(g) ==
  /\ IsLatestJob(g)
  /\ \A h \in GensOf(g[1]) : ~Live(h)
  /\ Failed(g) \/ MayRequeue
  /\ ticket[g[1]] = Snapshot(g)

\* v4_commit_document_reingest, after the original was verified in the object
\* store, and v4_maintenance_requeue_document.  A ticket may come in twice.
Requeue(d) ==
  /\ serial[d] < MaxSerial
  /\ docState[d] \notin {"absent", "deleted"}
  /\ \E g \in GensOf(d) : RequeueAllowed(g)
  /\ docState' = [docState EXCEPT ![d] = "uploaded"]
  /\ chunks' = chunks \ GensOf(d)
  /\ serial' = [serial EXCEPT ![d] = @ + 1]
  /\ job' = [job EXCEPT ![ActiveGen(d)] = NewJob(serial[d] + 1, Original)]
  /\ UNCHANGED <<active, genState, ticket, opVars, workerVars>>

-----------------------------------------------------------------------------
(* Reingestion operations.                                                 *)

Eligible(o) ==
  {d \in Documents :
     /\ docState[d] = "ready"
     /\ (IF active[d] = Original THEN UploadVersion[d] ELSE Target[active[d]]) # Target[o]}

NoOpenOperation == \A p \in Operations : op[p].state \notin OpenStates

\* The preview fixes the totals that the operation will be measured against.
Preview(o) ==
  /\ op[o].state = "none"
  /\ NoOpenOperation
  /\ Eligible(o) # {}
  /\ op' = [op EXCEPT ![o] =
               [@ EXCEPT !.state = "previewed", !.total = Cardinality(Eligible(o))]]
  /\ UNCHANGED <<docVars, jobVars, pausing, workerVars>>

\* The targets are selected again, the totals are not.
Start(o) ==
  /\ op[o].state = "previewed"
  /\ NoOpenOperation
  /\ \A d \in Eligible(o) : serial[d] < MaxSerial
  /\ op' = [op EXCEPT ![o].state = "running"]
  /\ genState' = [g \in Generations |->
                    IF g[1] \in Eligible(o) /\ g[2] = o THEN "building" ELSE genState[g]]
  /\ job' = [g \in Generations |->
               IF g[1] \in Eligible(o) /\ g[2] = o
                 THEN NewJob(serial[g[1]] + 1, o) ELSE job[g]]
  /\ serial' = [d \in Documents |->
                  IF d \in Eligible(o) THEN serial[d] + 1 ELSE serial[d]]
  /\ UNCHANGED <<docState, active, chunks, ticket, pausing, workerVars>>

OpJobs(o) == {g \in Generations : job[g].op = o /\ job[g].status # "none"}

NoneRunning(o) == \A g \in OpJobs(o) : job[g].status # "running"

\* "operation is between safe pause boundaries": read in a statement of its own.
PauseCheck(o) ==
  /\ op[o].state # "none"
  /\ NoneRunning(o)
  /\ pausing' = pausing \cup {o}
  /\ UNCHANGED <<docVars, jobVars, op, workerVars>>

PauseApply(o) ==
  /\ o \in pausing
  /\ pausing' = pausing \ {o}
  /\ op' = IF op[o].state = "running" THEN [op EXCEPT ![o].state = "paused"] ELSE op
  /\ UNCHANGED <<docVars, jobVars, workerVars>>

Resume(o) ==
  /\ op[o].state = "paused"
  /\ op' = [op EXCEPT ![o].state = "running"]
  /\ UNCHANGED <<docVars, jobVars, pausing, workerVars>>

Cancel(o) ==
  /\ op[o].state \in {"paused", "failed"}
  /\ NoneRunning(o)
  /\ job' = [g \in Generations |->
               IF g \in OpJobs(o) /\ job[g].status \in {"queued", "failed"}
                 THEN NoJob ELSE job[g]]
  /\ genState' = [g \in Generations |->
                    IF g[2] = o /\ genState[g] \in {"building", "failed"}
                      THEN "abandoned" ELSE genState[g]]
  /\ op' = [op EXCEPT ![o].state = "cancelled"]
  /\ UNCHANGED <<docState, active, chunks, serial, ticket, pausing, workerVars>>

Retried(o) == {g \in OpJobs(o) : job[g].status = "failed"}

\* uq_reprocessing_active_operation refuses it while another one is open.
Retry(o) ==
  /\ op[o].state = "failed"
  /\ NoOpenOperation
  /\ job' = [g \in Generations |->
               IF g \in Retried(o)
                 THEN [job[g] EXCEPT !.status = "queued", !.due = TRUE, !.leased = FALSE]
                 ELSE job[g]]
  /\ genState' = [g \in Generations |->
                    IF g[2] = o /\ genState[g] = "failed" THEN "building" ELSE genState[g]]
  /\ op' = [op EXCEPT ![o] = [@ EXCEPT !.state = "running", !.failed = 0]]
  /\ UNCHANGED <<docState, active, chunks, serial, ticket, pausing, workerVars>>

\* Mutant: cleanup does not look at documents.active_generation_id.
RemovableEvenActive(g) ==
  g[2] \in Operations /\ genState[g] \in {"ready", "retained", "abandoned", "failed"}

Removable(g) ==
  /\ g[2] \in Operations
  /\ genState[g] \in {"retained", "abandoned", "failed"}
  /\ \A d \in Documents : ActiveGen(d) # g

\* v10_admin_cleanup_generation; chunks and jobs of the generation go with it.
Cleanup(g) ==
  /\ MayDelete
  /\ Removable(g)
  /\ genState' = [genState EXCEPT ![g] = "none"]
  /\ chunks' = chunks \ {g}
  /\ job' = [job EXCEPT ![g] = NoJob]
  /\ UNCHANGED <<docState, active, serial, ticket, opVars, workerVars>>

-----------------------------------------------------------------------------
(* Workers.                                                                *)

OpRuns(g) == job[g].op \in Operations => op[job[g].op].state = "running"

\* Mutant: the job of a worker that died is never claimed again.
ClaimableQueuedOnly(g) == job[g].status = "queued" /\ job[g].due /\ OpRuns(g)

Claimable(g) ==
  /\ \/ job[g].status = "queued" /\ job[g].due
     \/ job[g].status = "running" /\ ~job[g].leased
  /\ OpRuns(g)

Claimed(j) ==
  [j EXCEPT !.status = "running", !.leased = TRUE, !.fence = j.fence + 1]

\* v4_claim_ingestion_job.
Claim(w, g) ==
  /\ phase[w] = "idle"
  /\ Claimable(g)
  /\ job[g].fence < MaxFence
  /\ job' = [job EXCEPT ![g] = Claimed(@)]
  /\ phase' = [phase EXCEPT ![w] = "busy"]
  /\ claim' = [claim EXCEPT ![w] =
                 [gen |-> g, id |-> job[g].id, fence |-> Claimed(job[g]).fence]]
  /\ UNCHANGED <<docVars, serial, ticket, opVars, crashes>>

Matches(c) ==
  /\ job[c.gen].status = "running"
  /\ job[c.gen].id = c.id
  /\ job[c.gen].fence = c.fence

\* Mutant: the lease token and the fencing token are not compared.
EffectiveUnfenced(c) == job[c.gen].status = "running" /\ job[c.gen].leased

\* What every call of a worker must satisfy for the database to accept it.
Effective(c) == Matches(c) /\ job[c.gen].leased

Drop(w) ==
  /\ phase' = [phase EXCEPT ![w] = "idle"]
  /\ claim' = [claim EXCEPT ![w] = NoClaim]
  /\ UNCHANGED crashes

\* v4_update_ingestion_progress, accepted.
Progress(w) ==
  /\ phase[w] = "busy"
  /\ LET g == claim[w].gen
         d == g[1]
     IN /\ Effective(claim[w])
        /\ OpRuns(g)
        /\ docState' = IF ActiveGen(d) = g /\ docState[d] # "ready"
                         THEN [docState EXCEPT ![d] = "working"] ELSE docState
  /\ UNCHANGED <<active, genState, chunks, jobVars, opVars, workerVars>>

\* StaleIngestionClaim: a heartbeat, a progress report, a commit or an error
\* transition was refused and the worker forgets the job.
Stale(w) ==
  /\ phase[w] = "busy"
  /\ ~Effective(claim[w]) \/ ~OpRuns(claim[w].gen)
  /\ Drop(w)
  /\ UNCHANGED <<docVars, jobVars, opVars>>

\* The operation's share of a commit.
Credit(o) ==
  IF o = Original THEN op
  ELSE LET done == op[o].completed + 1
       IN [op EXCEPT ![o] =
             [op[o] EXCEPT !.completed = done,
                           !.state = IF done = op[o].total THEN "succeeded"
                                                           ELSE op[o].state]]

Switched(g) ==
  [h \in Generations |->
     IF h = g THEN "ready"
     ELSE IF h = ActiveGen(g[1]) /\ genState[h] = "ready" THEN "retained"
     ELSE genState[h]]

\* v4_commit_ingestion_job.  completed_documents <= total_documents is a CHECK.
Commit(w) ==
  /\ phase[w] = "busy"
  /\ LET g == claim[w].gen
         o == job[g].op
     IN /\ Effective(claim[w])
        /\ OpRuns(g)
        /\ o # Original => op[o].completed < op[o].total
        /\ chunks' = chunks \cup {g}
        /\ genState' = Switched(g)
        /\ active' = [active EXCEPT ![g[1]] = g[2]]
        /\ docState' = [docState EXCEPT ![g[1]] = "ready"]
        /\ job' = [job EXCEPT ![g] = [@ EXCEPT !.status = "completed", !.leased = FALSE]]
        /\ op' = Credit(o)
  /\ Drop(w)
  /\ UNCHANGED <<serial, ticket, pausing>>

\* A retryable error below the attempt limit: v4_requeue_ingestion_job with a
\* later available_at.  If that time has already passed when the statement
\* runs, it is refused and the job keeps its lease.
Backoff(w) ==
  /\ phase[w] = "busy"
  /\ Effective(claim[w])
  /\ claim[w].fence < MaxAttempts
  /\ \/ job' = [job EXCEPT ![claim[w].gen] =
                  [@ EXCEPT !.status = "queued", !.leased = FALSE, !.due = FALSE]]
     \/ UNCHANGED job
  /\ Drop(w)
  /\ UNCHANGED <<docVars, serial, ticket, opVars>>

\* Mutant: the failure is written to the document whatever its state.
PoisonedDocAlways(g) == [docState EXCEPT ![g[1]] = "failed"]

PoisonedDoc(g) ==
  IF ActiveGen(g[1]) = g /\ docState[g[1]] # "ready"
    THEN [docState EXCEPT ![g[1]] = "failed"] ELSE docState

\* v4_poison_ingestion_job.  It asks nothing of the operation's state.
\* failed_documents <= total_documents is a CHECK.
Poison(w) ==
  /\ phase[w] = "busy"
  /\ LET g == claim[w].gen
         o == job[g].op
     IN /\ Effective(claim[w])
        /\ o # Original => op[o].failed < op[o].total
        /\ job' = [job EXCEPT ![g] = [@ EXCEPT !.status = "failed", !.leased = FALSE]]
        /\ genState' = [genState EXCEPT ![g] = "failed"]
        /\ docState' = PoisonedDoc(g)
        /\ op' = IF o = Original THEN op
                 ELSE [op EXCEPT ![o] = [op[o] EXCEPT !.state = "failed", !.failed = op[o].failed + 1]]
  /\ Drop(w)
  /\ UNCHANGED <<active, chunks, serial, ticket, pausing>>

\* The process dies: killed, or a SQLAlchemyError or a violated CHECK left _run().
Crash(w) ==
  /\ phase[w] # "down"
  /\ crashes < MaxCrashes
  /\ crashes' = crashes + 1
  /\ phase' = [phase EXCEPT ![w] = "down"]
  /\ claim' = [claim EXCEPT ![w] = NoClaim]
  /\ UNCHANGED <<docVars, jobVars, opVars>>

Restart(w) ==
  /\ phase[w] = "down"
  /\ phase' = [phase EXCEPT ![w] = "idle"]
  /\ UNCHANGED <<docVars, jobVars, opVars, claim, crashes>>

HeldByWorker(g) ==
  \E w \in Workers : phase[w] = "busy" /\ claim[w].gen = g /\ Matches(claim[w])

\* lease_expires_at passes.  The heartbeat every third of the lease prevents it
\* unless the process is gone, has given up, or was suspended.
Expire(g) ==
  /\ job[g].status = "running"
  /\ job[g].leased
  /\ HeartbeatsHold => ~HeldByWorker(g)
  /\ job' = [job EXCEPT ![g].leased = FALSE]
  /\ UNCHANGED <<docVars, serial, ticket, opVars, workerVars>>

\* available_at passes.
BecomeDue(g) ==
  /\ job[g].status = "queued"
  /\ ~job[g].due
  /\ job' = [job EXCEPT ![g].due = TRUE]
  /\ UNCHANGED <<docVars, serial, ticket, opVars, workerVars>>

-----------------------------------------------------------------------------
DocumentStep(d)   == Upload(d) \/ Delete(d) \/ Requeue(d)
OperationStep(o)  == \/ Preview(o) \/ Start(o) \/ PauseCheck(o) \/ PauseApply(o)
                     \/ Resume(o) \/ Cancel(o) \/ Retry(o)
GenerationStep(g) == PrepareRequeue(g) \/ Cleanup(g) \/ Expire(g) \/ BecomeDue(g)
WorkerStep(w)     == \/ \E g \in Generations : Claim(w, g)
                     \/ Progress(w) \/ Stale(w) \/ Commit(w) \/ Backoff(w)
                     \/ Poison(w) \/ Crash(w) \/ Restart(w)

Next == \/ \E d \in Documents : DocumentStep(d)
        \/ \E o \in Operations : OperationStep(o)
        \/ \E g \in Generations : GenerationStep(g)
        \/ \E w \in Workers : WorkerStep(w)

Spec == Init /\ [][Next]_vars

\* The worker's loop keeps polling, a claimed job's processing ends (the
\* processing timeout sees to that), clocks advance, and the supervisor
\* restarts a process that died.
Fairness ==
  /\ \A w \in Workers :
       /\ WF_vars(\E g \in Generations : Claim(w, g))
       /\ WF_vars(Stale(w) \/ Commit(w) \/ Backoff(w) \/ Poison(w))
       /\ WF_vars(Restart(w))
  /\ \A g \in Generations : WF_vars(Expire(g)) /\ WF_vars(BecomeDue(g))

FairSpec == Spec /\ Fairness

-----------------------------------------------------------------------------
(* Properties.                                                             *)

GenStates == {"none", "building", "ready", "failed", "retained", "abandoned"}

OpRecords ==
  [state : OpenStates \cup {"none", "previewed", "succeeded", "failed", "cancelled"},
   total : Nat, completed : Nat, failed : Nat]

\* The rows keep their domains, no claim runs ahead of its job's fencing token,
\* and the counters respect the CHECK constraints of reprocessing_operations.
TypeOK ==
  /\ docState \in [Documents -> DocStates]
  /\ active \in [Documents -> Lineages]
  /\ genState \in [Generations -> GenStates]
  /\ chunks \subseteq Generations
  /\ job \in [Generations -> Jobs]
  /\ serial \in [Documents -> Nat]
  /\ ticket \in [Documents -> Snapshots \cup {NoTicket}]
  /\ op \in [Operations -> OpRecords]
  /\ \A o \in Operations : op[o].completed <= op[o].total /\ op[o].failed <= op[o].total
  /\ pausing \subseteq Operations
  /\ phase \in [Workers -> {"down", "idle", "busy"}]
  /\ claim \in [Workers -> Claims \cup {NoClaim}]
  /\ \A w \in Workers : phase[w] = "busy" <=> claim[w] # NoClaim
  /\ crashes \in Nat

\* However leases expire and processes are suspended, crash and come back, at
\* most one worker holds a claim on a job that the database would still accept.
OneEffectiveClaim ==
  \A v, w \in Workers :
    /\ phase[v] = "busy" /\ Matches(claim[v])
    /\ phase[w] = "busy" /\ Matches(claim[w])
    /\ claim[v].gen = claim[w].gen
    => v = w

\* A document that search may use ("ready") always has a complete, current copy:
\* its active generation is ready and its chunks are stored.  No requeue, retry,
\* cleanup, poison or late worker takes that copy away from under it.
ReadyIsSearchable ==
  \A d \in Documents :
    docState[d] = "ready" => genState[ActiveGen(d)] = "ready" /\ ActiveGen(d) \in chunks

\* No document has two ready generations: the one being served is retired by the
\* commit that replaces it.
OneReadyGeneration ==
  \A g \in Generations : genState[g] = "ready" => g = ActiveGen(g[1])

\* A worker whose claim the database no longer accepts cannot change anything
\* stored: all it can do is to drop the claim or die.
SupersededWorkerIsHarmless ==
  [][\A w \in Workers :
       /\ phase[w] = "busy" /\ claim'[w] # claim[w]
       /\ ~(Matches(claim[w]) /\ job[claim[w].gen].leased)
       => UNCHANGED <<docVars, job, op>>]_vars

\* A ready document stays ready: a failed rebuild, a late poison or a progress
\* report of another generation never takes it out of search.  Only its deletion
\* and the maintenance tool, which creates a new job with it, do.
ReadyNeverDegrades ==
  [][\A d \in Documents :
       docState[d] = "ready" /\ docState'[d] # "ready"
         => docState'[d] = "deleted" \/ serial'[d] = serial[d] + 1]_vars

\* A job that is queued or running is never replaced by another job for the same
\* copy, however often a reingest request is submitted.
LiveJobNeverReplaced ==
  [][\A g \in Generations :
       Live(g) /\ job'[g].status # "none" => job'[g].id = job[g].id]_vars

\* Every uploaded document ends up ready, failed or deleted, however leases expire and
\* workers die: retries are bounded and the jobs of dead workers are picked up again.
\* The exception is the model's: a claim that is lost cannot follow the MaxFence-th one.
EveryDocumentSettles ==
  []<>(\A d \in Documents :
         docState[d] \in {"uploaded", "working"} =>
           job[ActiveGen(d)].fence = MaxFence /\ ~job[ActiveGen(d)].leased)
=============================================================================
