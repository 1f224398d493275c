------------------------------ MODULE Reindex ------------------------------
(***************************************************************************)
(* Shadow rebuild of the search index: "reindex" operations build a new    *)
(* embedding generation beside the active one, qualify it and switch, and  *)
(* an administrator may roll back to a retained generation.  The stored    *)
(* functions are those of migration 0010; their caller is the              *)
(* ReprocessingWorker of app/services/reprocessing.py, which lives in the  *)
(* ingestion worker's process.                                             *)
(*                                                                         *)
(* A stored function is one step, except where it reads and then acts in   *)
(* statements of their own (READ COMMITTED takes a snapshot for each):     *)
(* pause, the commit of a task, which counts the tasks that other commits  *)
(* have made visible, and the qualification that ends in the cutover.  A   *)
(* chunk stands for the chunks of one ready document's active generation.  *)
(***************************************************************************)
EXTENDS Naturals, FiniteSets

CONSTANTS Chunks,
          Operations,   \* operations of type "reindex"; each builds one generation
          Baseline,     \* the generation created by the migration
          Workers,
          None,         \* no qualification, no open transaction
          BatchSize,    \* embedding_batch_size
          TaskAttempts, \* CHECK (attempt BETWEEN 0 AND 3)
          MaxCrashes,   \* bound: crashes of worker processes
          MaxQualify    \* bound: claims of one qualification

Generations == Operations \cup {Baseline}
Qualifications == [op : Operations, fence : Nat]
Claims == [op : Operations, chunk : Chunks, fence : Nat]
Commits == [claim : Claims, last : BOOLEAN]

ASSUME ReindexAssumption ==
  /\ IsFiniteSet(Chunks)
  /\ Baseline \notin Operations
  /\ None \notin Qualifications \cup Commits
  /\ BatchSize \in Nat \ {0} /\ TaskAttempts \in Nat \ {0}
  /\ MaxCrashes \in Nat /\ MaxQualify \in Nat

VARIABLES
  live,      \* chunks of ready documents: what search ranges over
  unborn,    \* chunks not ingested yet
  late,      \* history: chunks ingested between a cutover's comparison and its switch
  embedded,  \* chunk_embeddings: per generation, the chunks it covers
  genState,  \* embedding_generations.state
  source,    \* embedding_generations.source_generation_id
  current,   \* embedding_generation_state.active_generation_id
  op,        \* reprocessing_operations
  task,      \* reindex_tasks, per operation and chunk
  pausing,   \* operations whose pause has passed its check
  phase,     \* what each worker is doing
  batch,     \* the claims of its batch
  left,      \* those of them it has not reported yet
  tx,        \* its open commit: the claim, and whether it counted itself the last
  qual,      \* its qualification claim
  crashes

dataVars   == <<live, unborn, late, embedded, genState, source, current>>
opVars     == <<op, task, pausing>>
workerVars == <<phase, batch, left, tx, qual, crashes>>
vars == <<dataVars, opVars, workerVars>>

-----------------------------------------------------------------------------
(* attempt and fencing_token of a task start at 0 and are incremented      *)
(* together by a claim: one number stands for both.                        *)

NoTask == [state |-> "none", fence |-> 0, leased |-> FALSE]

NoOperation == [state |-> "none", total |-> 0, fence |-> 0, leased |-> FALSE]

OpenStates == {"running", "paused", "qualifying"}

Init ==
  /\ \E C \in SUBSET Chunks :
       /\ live = C
       /\ unborn = Chunks \ C
       /\ embedded = [e \in Generations |-> IF e = Baseline THEN C ELSE {}]
  /\ genState = [e \in Generations |-> IF e = Baseline THEN "active" ELSE "none"]
  /\ source = [e \in Generations |-> Baseline]
  /\ current = Baseline
  /\ op = [o \in Operations |-> NoOperation]
  /\ task = [o \in Operations |-> [c \in Chunks |-> NoTask]]
  /\ pausing = {}
  /\ phase = [w \in Workers |-> "idle"]
  /\ batch = [w \in Workers |-> {}]
  /\ left = [w \in Workers |-> {}]
  /\ tx = [w \in Workers |-> None]
  /\ qual = [w \in Workers |-> None]
  /\ crashes = 0
  /\ late = {}

-----------------------------------------------------------------------------
(* Documents come and go.                                                  *)

\* v4_commit_ingestion_job embeds into the generation active at that moment.
Ingest(c) ==
  /\ c \in unborn
  /\ unborn' = unborn \ {c}
  /\ late' = IF \E w \in Workers : phase[w] = "cutover" THEN late \cup {c} ELSE late
  /\ live' = live \cup {c}
  /\ embedded' = [embedded EXCEPT ![current] = @ \cup {c}]
  /\ UNCHANGED <<genState, source, current, opVars, workerVars>>

\* A commit holds the row of its task until it ends.
Locked(o, c) ==
  \E w \in Workers : tx[w] # None /\ tx[w].claim.op = o /\ tx[w].claim.chunk = c

\* Deleting a document cascades to its chunks, their embeddings and tasks, and waits
\* for whoever holds one of them.
Remove(c) ==
  /\ c \in live
  /\ \A o \in Operations : ~Locked(o, c)
  /\ live' = live \ {c}
  /\ embedded' = [e \in Generations |-> embedded[e] \ {c}]
  /\ task' = [o \in Operations |-> [task[o] EXCEPT ![c] = NoTask]]
  /\ UNCHANGED <<unborn, late, genState, source, current, op, pausing, workerVars>>

-----------------------------------------------------------------------------
(* The administrator.                                                      *)

NoOpenOperation == \A p \in Operations : op[p].state \notin OpenStates

TasksOf(o) == {c \in Chunks : task[o][c].state # "none"}

InState(o, s) == {c \in Chunks : task[o][c].state = s}

Preview(o) ==
  /\ op[o].state = "none"
  /\ NoOpenOperation
  /\ live # {}
  /\ op' = [op EXCEPT ![o].state = "previewed", ![o].total = Cardinality(live)]
  /\ UNCHANGED <<dataVars, task, pausing, workerVars>>

\* One task per chunk of a ready document; total_chunks is the preview's.
Start(o) ==
  /\ op[o].state = "previewed"
  /\ NoOpenOperation
  /\ op' = [op EXCEPT ![o].state = "running"]
  /\ genState' = [genState EXCEPT ![o] = "building"]
  /\ source' = [source EXCEPT ![o] = current]
  /\ task' = [task EXCEPT ![o] = [c \in Chunks |->
                IF c \in live THEN [NoTask EXCEPT !.state = "queued"] ELSE NoTask]]
  /\ UNCHANGED <<live, unborn, late, embedded, current, pausing, workerVars>>

PauseCheck(o) ==
  /\ op[o].state # "none"
  /\ InState(o, "running") = {}
  /\ pausing' = pausing \cup {o}
  /\ UNCHANGED <<dataVars, op, task, workerVars>>

PauseApply(o) ==
  /\ o \in pausing
  /\ pausing' = pausing \ {o}
  /\ op' = IF op[o].state = "running" THEN [op EXCEPT ![o].state = "paused"] ELSE op
  /\ UNCHANGED <<dataVars, task, workerVars>>

Resume(o) ==
  /\ op[o].state = "paused"
  /\ op' = [op EXCEPT ![o].state = "running"]
  /\ UNCHANGED <<dataVars, task, pausing, workerVars>>

\* The tasks stay; only the generation is given up.
Cancel(o) ==
  /\ op[o].state \in {"paused", "failed"}
  /\ InState(o, "running") = {}
  /\ genState' = IF genState[o] = "building" THEN [genState EXCEPT ![o] = "abandoned"]
                                             ELSE genState
  /\ op' = [op EXCEPT ![o].state = "cancelled"]
  /\ UNCHANGED <<live, unborn, late, embedded, source, current, task, pausing, workerVars>>

\* Only failed tasks below the attempt limit are queued again.
Retry(o) ==
  /\ op[o].state = "failed"
  /\ NoOpenOperation
  /\ task' = [task EXCEPT ![o] = [c \in Chunks |->
                IF task[o][c].state = "failed" /\ task[o][c].fence < TaskAttempts
                  THEN [task[o][c] EXCEPT !.state = "queued"] ELSE task[o][c]]]
  /\ genState' = IF genState[o] = "none" THEN genState
                                         ELSE [genState EXCEPT ![o] = "building"]
  /\ op' = [op EXCEPT ![o].state = "running"]
  /\ UNCHANGED <<live, unborn, late, embedded, source, current, pausing, workerVars>>

\* The active generation is retired and another one takes its place.
SwitchTo(e) ==
  /\ genState' = [genState EXCEPT ![current] = "retained", ![e] = "active"]
  /\ current' = e

\* A retained generation of the last 30 days; nothing is asked of its coverage.
Rollback(e) ==
  /\ genState[e] = "retained"
  /\ SwitchTo(e)
  /\ UNCHANGED <<live, unborn, late, embedded, source, opVars, workerVars>>

\* A generation another one was built from is held by its foreign key.
CleanupGeneration(e) ==
  /\ e \in Operations
  /\ genState[e] \in {"retained", "abandoned"}
  /\ e # current
  /\ \A c \in Chunks : ~Locked(e, c)
  /\ \A f \in Generations : genState[f] # "none" => source[f] # e
  /\ genState' = [genState EXCEPT ![e] = "none"]
  /\ embedded' = [embedded EXCEPT ![e] = {}]
  /\ task' = [task EXCEPT ![e] = [c \in Chunks |-> NoTask]]
  /\ UNCHANGED <<live, unborn, late, source, current, op, pausing, workerVars>>

-----------------------------------------------------------------------------
(* The worker: a batch of tasks.                                           *)

\* Mutant: a task whose worker vanished is not offered again.
CandidatesQueuedOnly(o) ==
  {c \in Chunks : op[o].state = "running" /\ task[o][c].state = "queued"}

Candidates(o) ==
  {c \in Chunks : op[o].state = "running" /\
     \/ task[o][c].state = "queued"
     \/ task[o][c].state = "running" /\ ~task[o][c].leased /\ ~Locked(o, c)}

\* LIMIT p_limit: as many as there are, at most a batch.
Picks(o) ==
  {S \in SUBSET Candidates(o) :
     /\ S # {}
     /\ Cardinality(S) <= BatchSize
     /\ S # Candidates(o) => Cardinality(S) = BatchSize}

Idle(w) ==
  /\ phase' = [phase EXCEPT ![w] = "idle"]
  /\ batch' = [batch EXCEPT ![w] = {}]
  /\ left' = [left EXCEPT ![w] = {}]
  /\ qual' = [qual EXCEPT ![w] = None]
  /\ UNCHANGED tx

\* Mutant: a claim does not move the fencing token.
ClaimedSameFence(t) == [t EXCEPT !.state = "running", !.leased = TRUE]

Claimed(t) == [t EXCEPT !.state = "running", !.leased = TRUE, !.fence = @ + 1]

\* v10_claim_reindex_tasks.
ClaimTasks(w, o) ==
  /\ phase[w] = "idle"
  /\ \E S \in Picks(o) :
       LET new == {[op |-> o, chunk |-> c, fence |-> Claimed(task[o][c]).fence] : c \in S}
       IN /\ \A c \in S : task[o][c].fence < TaskAttempts
          /\ task' = [task EXCEPT ![o] = [c \in Chunks |->
                        IF c \in S THEN Claimed(task[o][c]) ELSE task[o][c]]]
          /\ batch' = [batch EXCEPT ![w] = new]
          /\ left' = [left EXCEPT ![w] = new]
  /\ phase' = [phase EXCEPT ![w] = "committing"]
  /\ UNCHANGED <<dataVars, op, pausing, tx, qual, crashes>>

\* A fourth attempt violates the CHECK: the statement raises, the exception
\* leaves _run() and the process ends.
ClaimRaises(w, o) ==
  /\ phase[w] = "idle"
  /\ \E S \in Picks(o) : \E c \in S : task[o][c].fence >= TaskAttempts
  /\ crashes < MaxCrashes
  /\ crashes' = crashes + 1
  /\ phase' = [phase EXCEPT ![w] = "down"]
  /\ UNCHANGED <<dataVars, opVars, batch, left, tx, qual>>

Matches(k) ==
  /\ task[k.op][k.chunk].state = "running"
  /\ task[k.op][k.chunk].fence = k.fence

\* One claim of the batch has been dealt with; the last one ends the batch.
Report(w, k) ==
  /\ left' = [left EXCEPT ![w] = @ \ {k}]
  /\ phase' = IF left[w] = {k} THEN [phase EXCEPT ![w] = "idle"]
              ELSE IF phase[w] = "counted" THEN [phase EXCEPT ![w] = "committing"] ELSE phase
  /\ batch' = IF left[w] = {k} THEN [batch EXCEPT ![w] = {}] ELSE batch
  /\ tx' = [tx EXCEPT ![w] = None]
  /\ UNCHANGED <<qual, crashes>>

\* No task other than the one of chunk c is left to complete.
BuildDone(o, c) == TasksOf(o) \ {c} \subseteq InState(o, "completed")

\* v10_commit_reindex_task accepts the embedding and, when its own row is done, counts
\* those that are done and committed.
CountTasks(w, k) ==
  /\ phase[w] = "committing"
  /\ k \in left[w]
  /\ Matches(k)
  /\ task[k.op][k.chunk].leased
  /\ op[k.op].state = "running"
  /\ genState[k.op] = "building"
  /\ tx' = [tx EXCEPT ![w] = [claim |-> k, last |-> BuildDone(k.op, k.chunk)]]
  /\ phase' = [phase EXCEPT ![w] = "counted"]
  /\ UNCHANGED <<dataVars, opVars, batch, left, qual, crashes>>

\* Its end: the last one ends the build, in whatever state the operation is by now.
CommitTask(w, k) ==
  /\ phase[w] = "counted"
  /\ k = tx[w].claim
  /\ embedded' = [embedded EXCEPT ![k.op] = @ \cup {k.chunk}]
  /\ task' = [task EXCEPT ![k.op][k.chunk].state = "completed",
                          ![k.op][k.chunk].leased = FALSE]
  /\ op' = IF tx[w].last THEN [op EXCEPT ![k.op].state = "qualifying"] ELSE op
  /\ Report(w, k)
  /\ UNCHANGED <<live, unborn, late, genState, source, current, pausing>>

\* It returned false; the worker goes on with the next one.
CommitStale(w, k) ==
  /\ phase[w] = "committing"
  /\ k \in left[w]
  /\ ~(Matches(k) /\ task[k.op][k.chunk].leased /\ op[k.op].state = "running")
  /\ Report(w, k)
  /\ UNCHANGED <<dataVars, opVars>>

\* The embedder, the validation or a statement raised: every claim of the batch
\* is reported as failed, the ones already reported included.
BatchError(w) ==
  /\ phase[w] = "committing"
  /\ phase' = [phase EXCEPT ![w] = "failing"]
  /\ left' = [left EXCEPT ![w] = batch[w]]
  /\ UNCHANGED <<dataVars, opVars, batch, tx, qual, crashes>>

\* v10_fail_reindex_task: neither the lease's end nor the operation is looked at.
FailTask(w, k) ==
  /\ phase[w] = "failing"
  /\ k \in left[w]
  /\ IF ~Matches(k) THEN UNCHANGED <<task, genState, op>>
     ELSE IF k.fence < TaskAttempts
     THEN /\ task' = [task EXCEPT ![k.op][k.chunk].state = "queued",
                                  ![k.op][k.chunk].leased = FALSE]
          /\ UNCHANGED <<genState, op>>
     ELSE /\ task' = [task EXCEPT ![k.op][k.chunk].state = "failed",
                                  ![k.op][k.chunk].leased = FALSE]
          /\ genState' = [genState EXCEPT ![k.op] = "abandoned"]
          /\ op' = [op EXCEPT ![k.op].state = "failed"]
  /\ Report(w, k)
  /\ UNCHANGED <<live, unborn, late, embedded, source, current, pausing>>

-----------------------------------------------------------------------------
(* The worker: qualification and cutover.                                  *)

\* v10_claim_reindex_qualification, asked for when there is no task to claim.
ClaimQualification(w, o) ==
  /\ phase[w] = "idle"
  /\ \A p \in Operations : Candidates(p) = {}
  /\ op[o].state = "qualifying"
  /\ ~op[o].leased
  /\ op[o].fence < MaxQualify
  /\ op' = [op EXCEPT ![o].leased = TRUE, ![o].fence = @ + 1]
  /\ qual' = [qual EXCEPT ![w] = [op |-> o, fence |-> op[o].fence + 1]]
  /\ phase' = [phase EXCEPT ![w] = "qualifying"]
  /\ UNCHANGED <<dataVars, task, pausing, batch, left, tx, crashes>>

QualificationHolds(q) ==
  /\ op[q.op].state = "qualifying"
  /\ op[q.op].fence = q.fence
  /\ op[q.op].leased

\* Mutant: only the number of embeddings is compared, not what they cover.
SourceUnchangedByCount(o) == Cardinality(embedded[o]) = op[o].total

SourceUnchanged(o) ==
  /\ TasksOf(o) = live
  /\ Cardinality(embedded[o]) = op[o].total

\* First half of v10_complete_reindex_qualification: the operation row is
\* locked, the sources are compared and the embeddings counted.
QualifyCheck(w) ==
  /\ phase[w] = "qualifying"
  /\ QualificationHolds(qual[w])
  /\ SourceUnchanged(qual[w].op)
  /\ phase' = [phase EXCEPT ![w] = "cutover"]
  /\ UNCHANGED <<dataVars, opVars, batch, left, tx, qual, crashes>>

\* Second half: the switch.
Cutover(w) ==
  /\ phase[w] = "cutover"
  /\ SwitchTo(qual[w].op)
  /\ op' = [op EXCEPT ![qual[w].op].state = "succeeded", ![qual[w].op].leased = FALSE]
  /\ Idle(w)
  /\ UNCHANGED <<live, unborn, late, embedded, source, task, pausing, crashes>>

\* The checks, or retrieval, reranking or citations of the sample, did not pass.
QualifyFail(w) ==
  /\ phase[w] = "qualifying"
  /\ QualificationHolds(qual[w])
  /\ genState' = [genState EXCEPT ![qual[w].op] = "abandoned"]
  /\ op' = [op EXCEPT ![qual[w].op].state = "failed", ![qual[w].op].leased = FALSE]
  /\ Idle(w)
  /\ UNCHANGED <<live, unborn, late, embedded, source, current, task, pausing, crashes>>

QualifyStale(w) ==
  /\ phase[w] = "qualifying"
  /\ ~QualificationHolds(qual[w])
  /\ Idle(w)
  /\ UNCHANGED <<dataVars, opVars, crashes>>

-----------------------------------------------------------------------------
(* Processes and clocks.  Nothing renews these leases.                     *)

\* A transaction that is cut off between its statements is rolled back.
Crash(w) ==
  /\ phase[w] # "down"
  /\ crashes < MaxCrashes
  /\ crashes' = crashes + 1
  /\ phase' = [phase EXCEPT ![w] = "down"]
  /\ batch' = [batch EXCEPT ![w] = {}]
  /\ left' = [left EXCEPT ![w] = {}]
  /\ qual' = [qual EXCEPT ![w] = None]
  /\ tx' = [tx EXCEPT ![w] = None]
  /\ UNCHANGED <<dataVars, opVars>>

Restart(w) ==
  /\ phase[w] = "down"
  /\ phase' = [phase EXCEPT ![w] = "idle"]
  /\ UNCHANGED <<dataVars, opVars, batch, left, tx, qual, crashes>>

ExpireTask(o, c) ==
  /\ task[o][c].state = "running"
  /\ task[o][c].leased
  /\ task' = [task EXCEPT ![o][c].leased = FALSE]
  /\ UNCHANGED <<dataVars, op, pausing, workerVars>>

\* Not while the completion holds the row: its lease was checked on entry.
ExpireQualification(o) ==
  /\ op[o].leased
  /\ \A w \in Workers : phase[w] = "cutover" => qual[w].op # o
  /\ op' = [op EXCEPT ![o].leased = FALSE]
  /\ UNCHANGED <<dataVars, task, pausing, workerVars>>

-----------------------------------------------------------------------------
BatchStep(w) ==
  \/ BatchError(w)
  \/ \E k \in left[w] : CountTasks(w, k) \/ CommitTask(w, k) \/ CommitStale(w, k) \/ FailTask(w, k)

QualifyStep(w) == QualifyCheck(w) \/ Cutover(w) \/ QualifyFail(w) \/ QualifyStale(w)

ClaimStep(w) ==
  \E o \in Operations : ClaimTasks(w, o) \/ ClaimRaises(w, o) \/ ClaimQualification(w, o)

AdminStep(o) ==
  \/ Preview(o) \/ Start(o) \/ PauseCheck(o) \/ PauseApply(o) \/ Resume(o)
  \/ Cancel(o) \/ Retry(o)

Next ==
  \/ \E c \in Chunks : Ingest(c) \/ Remove(c)
  \/ \E o \in Operations : AdminStep(o) \/ ExpireQualification(o)
  \/ \E e \in Generations : Rollback(e) \/ CleanupGeneration(e)
  \/ \E o \in Operations, c \in Chunks : ExpireTask(o, c)
  \/ \E w \in Workers :
       BatchStep(w) \/ QualifyStep(w) \/ ClaimStep(w) \/ Crash(w) \/ Restart(w)

Spec == Init /\ [][Next]_vars

\* The worker's loop never stops polling, a batch and a qualification end, the
\* supervisor restarts the process, and clocks advance.
Fairness ==
  /\ \A w \in Workers : /\ WF_vars(BatchStep(w)) /\ WF_vars(QualifyStep(w))
                        /\ WF_vars(ClaimStep(w)) /\ WF_vars(Restart(w))
  /\ \A o \in Operations : WF_vars(ExpireQualification(o))
  /\ \A o \in Operations, c \in Chunks : WF_vars(ExpireTask(o, c))

FairSpec == Spec /\ Fairness

-----------------------------------------------------------------------------
(* Properties.                                                             *)

\* Two workers never both hold a claim on a task that the database would accept,
\* although nothing renews a task's lease while its batch is embedded.
OneEffectiveTaskClaim ==
  \A v, w \in Workers : \A k \in batch[v] \cap batch[w] : Matches(k) => v = w

\* A rebuild that succeeds loses nothing that was there when its sources were compared
\* ('source_unchanged', true): at the moment search is switched to it, it covers every
\* chunk of a ready document but those that became ready since the comparison.
CutoverCovers ==
  [][\A o \in Operations :
       op[o].state # "succeeded" /\ op'[o].state = "succeeded"
         => live' \ late \subseteq embedded'[o]]_vars

\* What the worker cannot get past: no commit is left that would notice the end of the
\* build (the last chunks were deleted, or two commits counted without each other), a
\* task has used up its attempts without a report, or (the model's bound) the
\* qualification was claimed too often.
Stalled(o) ==
  IF op[o].state = "qualifying" THEN op[o].fence = MaxQualify /\ ~op[o].leased
  ELSE \/ TasksOf(o) = InState(o, "completed")
       \/ \E c \in TasksOf(o) : task[o][c].fence = TaskAttempts

\* A started rebuild comes to an end by itself, whatever the administrator, crashes and
\* expiring leases do, unless it is stalled: lost batches are claimed again and lost
\* qualifications repeated.
OperationEnds ==
  []<>(\A o \in Operations : op[o].state \in {"running", "qualifying"} => Stalled(o))
=============================================================================
