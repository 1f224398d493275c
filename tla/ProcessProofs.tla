---------------------------- MODULE ProcessProofs ---------------------------
(***************************************************************************)
(* The processes in the background.  The ingestion workers: fencing, the   *)
(* copies of a document and its jobs, for any documents, workers and       *)
(* operations.  The supervisor that starts and stops all services: their   *)
(* order, their ports and their processes, for any graph the manifest      *)
(* accepts and any number of supervisors.  The two specifications share no *)
(* state.                                                                  *)
(***************************************************************************)
EXTENDS Ingestion, Supervisor, FiniteSetTheorems, SequenceTheorems,
        NaturalsInduction, WellFoundedInduction, TLAPS

-----------------------------------------------------------------------------
(* The ingestion workers.                                                  *)

-----------------------------------------------------------------------------
(* The inductive invariant.                                                *)

\* An operation that was never previewed has empty counters.
BlankUntilPreviewed ==
  \A o \in Operations : op[o].state = "none" => op[o] = NoOperation

\* Job ids are drawn from the document's counter and start at 1.
JobIdsDrawn ==
  \A g \in Generations :
    /\ job[g].id <= serial[g[1]]
    /\ job[g].status # "none" => job[g].id > 0

\* A claim names a job id that was drawn, and never runs ahead of the fencing
\* token of that job.
ClaimsBehindJobs ==
  \A w \in Workers : phase[w] = "busy" =>
    /\ 0 < claim[w].id
    /\ claim[w].id <= serial[claim[w].gen[1]]
    /\ job[claim[w].gen].id = claim[w].id => claim[w].fence <= job[claim[w].gen].fence

\* No two workers hold the same claim.
ClaimsDistinct ==
  \A v, w \in Workers :
    phase[v] = "busy" /\ phase[w] = "busy" /\ claim[v] = claim[w] => v = w

\* A document that was never uploaded has no jobs.
AbsentIsBlank ==
  \A d \in Documents : docState[d] = "absent" =>
    serial[d] = 0 /\ \A l \in Lineages : job[<<d, l>>].status = "none"

\* The copy that serves a ready document is not being rebuilt.
LiveIsNotServed ==
  \A d \in Documents : Live(ActiveGen(d)) => docState[d] # "ready"

\* An operation's job belongs to the copy the operation creates, and that copy
\* is served only once the job is completed.
OperationJobs ==
  \A g \in Generations : job[g].op # Original =>
    /\ job[g].op = g[2]
    /\ g = ActiveGen(g[1]) => job[g].status = "completed"

\* Nothing exists of an operation's copies before the operation starts.
LineageStarted ==
  \A d \in Documents, o \in Operations :
    active[d] = o \/ job[<<d, o>>].status # "none"
      => op[o].state \notin {"none", "previewed"}

Types == TypeOK /\ BlankUntilPreviewed

-----------------------------------------------------------------------------
(* Types.                                                                  *)

LEMMA EligibleCount ==
  ASSUME NEW o \in Operations
  PROVE  Cardinality(Eligible(o)) \in Nat
<1>1. Eligible(o) \subseteq Documents
  BY DEF Eligible
<1>2. IsFiniteSet(Eligible(o))
  BY <1>1, FS_Subset, IngestionAssumption
<1> QED
  BY <1>2, FS_CardinalityType

LEMMA NewJobType ==
  ASSUME NEW n \in Nat, NEW o \in Lineages
  PROVE  NewJob(n, o) \in Jobs
BY DEF NewJob, NoJob, Jobs, Lineages

LEMMA NoJobType == NoJob \in Jobs
BY DEF NoJob, Jobs, Lineages

\* The changes the actions make to a job's row.
LEMMA JobUpdates ==
  ASSUME NEW j \in Jobs
  PROVE  /\ Claimed(j) \in Jobs
         /\ [j EXCEPT !.status = "completed", !.leased = FALSE] \in Jobs
         /\ [j EXCEPT !.status = "failed", !.leased = FALSE] \in Jobs
         /\ [j EXCEPT !.status = "queued", !.leased = FALSE, !.due = FALSE] \in Jobs
         /\ [j EXCEPT !.status = "queued", !.due = TRUE, !.leased = FALSE] \in Jobs
<1> DEFINE n == j.fence + 1
<1>1. n \in Nat
  BY DEF Jobs
<1> HIDE DEF n
<1>2. [j EXCEPT !.status = "running", !.leased = TRUE, !.fence = n] \in Jobs
  BY <1>1 DEF Jobs
<1>3. Claimed(j) \in Jobs
  BY <1>2 DEF Claimed, n
<1> QED
  BY <1>3 DEF Jobs

\* What they leave alone.
LEMMA JobFields ==
  ASSUME NEW j \in Jobs, NEW k,
         \/ k = [j EXCEPT !.status = "completed", !.leased = FALSE]
         \/ k = [j EXCEPT !.status = "failed", !.leased = FALSE]
         \/ k = [j EXCEPT !.status = "queued", !.leased = FALSE, !.due = FALSE]
         \/ k = [j EXCEPT !.status = "queued", !.due = TRUE, !.leased = FALSE]
  PROVE  k.id = j.id /\ k.fence = j.fence /\ k.op = j.op
BY DEF Jobs

\* ... and to an operation's row.
LEMMA OpUpdates ==
  ASSUME NEW r \in OpRecords, NEW n \in Nat, NEW s, s \in {"succeeded", r.state}
  PROVE  /\ [r EXCEPT !.state = "previewed", !.total = n] \in OpRecords
         /\ [r EXCEPT !.state = "running", !.failed = 0] \in OpRecords
         /\ [r EXCEPT !.state = "failed", !.failed = n] \in OpRecords
         /\ [r EXCEPT !.completed = n, !.state = s] \in OpRecords
BY DEF OpRecords, OpenStates

LEMMA InitTypes == Init => Types
<1> SUFFICES ASSUME Init PROVE Types
  OBVIOUS
<1>1. NoJob \in Jobs
  BY NoJobType
<1>2. NoOperation \in OpRecords /\ NoOperation.completed = 0
      /\ NoOperation.failed = 0 /\ NoOperation.total = 0
  BY DEF NoOperation, OpRecords
<1>3. TypeOK
  BY <1>1, <1>2 DEF Init, TypeOK, DocStates, Lineages, GenStates
<1>4. BlankUntilPreviewed
  BY DEF Init, BlankUntilPreviewed
<1> QED
  BY <1>3, <1>4 DEF Types

\* Documents, generations and clocks.
LEMMA DocumentTypes ==
  ASSUME Types, NEW d \in Documents, DocumentStep(d)
  PROVE  Types'
<1> USE DEF Types, docVars, jobVars, opVars, workerVars
<1>1. CASE Upload(d)
  <2>1. <<d, Original>> \in Generations /\ NewJob(1, Original) \in Jobs
    BY NewJobType DEF Generations, Lineages
  <2> QED
    BY <1>1, <2>1 DEF Upload, TypeOK, BlankUntilPreviewed, DocStates, GenStates
<1>2. CASE Delete(d)
  BY <1>2, NoJobType DEF Delete, TypeOK, BlankUntilPreviewed, DocStates, GenStates
<1>3. CASE Requeue(d)
  <2>1. ActiveGen(d) \in Generations
    BY DEF ActiveGen, Generations, TypeOK
  <2>2. NewJob(serial[d] + 1, Original) \in Jobs
    BY NewJobType DEF TypeOK, Lineages
  <2> QED
    BY <1>3, <2>1, <2>2 DEF Requeue, TypeOK, BlankUntilPreviewed, DocStates
<1> QED
  BY <1>1, <1>2, <1>3 DEF DocumentStep

LEMMA GenerationTypes ==
  ASSUME Types, NEW g \in Generations, GenerationStep(g)
  PROVE  Types'
<1> USE DEF Types, docVars, jobVars, opVars, workerVars
<1>1. CASE PrepareRequeue(g)
  <2>1. g[1] \in Documents
    BY DEF Generations
  <2>2. Snapshot(g) \in Snapshots
    BY <2>1 DEF Snapshot, Snapshots, TypeOK, Jobs
  <2> QED
    BY <1>1, <2>1, <2>2 DEF PrepareRequeue, TypeOK, BlankUntilPreviewed
<1>2. CASE Cleanup(g)
  BY <1>2, NoJobType DEF Cleanup, TypeOK, BlankUntilPreviewed, GenStates
<1>3. CASE Expire(g)
  BY <1>3 DEF Expire, TypeOK, BlankUntilPreviewed, Jobs
<1>4. CASE BecomeDue(g)
  BY <1>4 DEF BecomeDue, TypeOK, BlankUntilPreviewed, Jobs
<1> QED
  BY <1>1, <1>2, <1>3, <1>4 DEF GenerationStep

LEMMA OperationTypes ==
  ASSUME Types, NEW o \in Operations, OperationStep(o)
  PROVE  Types'
<1> USE DEF Types, docVars, jobVars, opVars, workerVars
<1>1. CASE Preview(o)
  <2>1. op[o] = NoOperation
    BY <1>1 DEF Preview, BlankUntilPreviewed
  <2> DEFINE n == Cardinality(Eligible(o))
  <2>2. n \in Nat
    BY EligibleCount
  <2>3. op' = [op EXCEPT ![o] = [op[o] EXCEPT !.state = "previewed", !.total = n]]
    BY <1>1 DEF Preview
  <2> HIDE DEF n
  <2>4. /\ op' \in [Operations -> OpRecords]
        /\ \A p \in Operations : op'[p].completed <= op'[p].total
                                 /\ op'[p].failed <= op'[p].total
        /\ BlankUntilPreviewed'
    <3>1. [op[o] EXCEPT !.state = "previewed", !.total = n] \in OpRecords
      BY <2>2, OpUpdates DEF TypeOK
    <3> QED
      BY <2>1, <2>2, <2>3, <3>1 DEF TypeOK, BlankUntilPreviewed, NoOperation, OpRecords
  <2> QED
    BY <1>1, <2>4 DEF Preview, TypeOK
<1>2. CASE Start(o)
  <2>1. \A g \in Generations : NewJob(serial[g[1]] + 1, o) \in Jobs
    BY NewJobType DEF TypeOK, Generations, Lineages
  <2> QED
    BY <1>2, <2>1
    DEF Start, TypeOK, BlankUntilPreviewed, OpRecords, OpenStates, GenStates
<1>3. CASE PauseCheck(o)
  BY <1>3 DEF PauseCheck, TypeOK, BlankUntilPreviewed
<1>4. CASE PauseApply(o)
  BY <1>4 DEF PauseApply, TypeOK, BlankUntilPreviewed, OpRecords, OpenStates
<1>5. CASE Resume(o)
  BY <1>5 DEF Resume, TypeOK, BlankUntilPreviewed, OpRecords, OpenStates
<1>6. CASE Cancel(o)
  BY <1>6, NoJobType
  DEF Cancel, TypeOK, BlankUntilPreviewed, OpRecords, OpenStates, GenStates
<1>7. CASE Retry(o)
  <2>1. \A g \in Generations :
          [job[g] EXCEPT !.status = "queued", !.due = TRUE, !.leased = FALSE] \in Jobs
    BY JobUpdates DEF TypeOK
  <2>2. op[o] \in OpRecords
    BY DEF TypeOK
  <2>3. [op[o] EXCEPT !.state = "running", !.failed = 0] \in OpRecords
    BY <2>2, OpUpdates
  <2>4. op' = [op EXCEPT ![o] = [op[o] EXCEPT !.state = "running", !.failed = 0]]
    BY <1>7 DEF Retry
  <2>5. /\ op' \in [Operations -> OpRecords]
        /\ \A p \in Operations : op'[p].completed <= op'[p].total
                                 /\ op'[p].failed <= op'[p].total
        /\ BlankUntilPreviewed'
    BY <2>2, <2>3, <2>4 DEF TypeOK, OpRecords, BlankUntilPreviewed
  <2>6. job' \in [Generations -> Jobs]
    BY <1>7, <2>1 DEF Retry, TypeOK
  <2>7. genState' \in [Generations -> GenStates]
    BY <1>7 DEF Retry, TypeOK, GenStates
  <2> QED
    BY <1>7, <2>5, <2>6, <2>7 DEF Retry, TypeOK
<1> QED
  BY <1>1, <1>2, <1>3, <1>4, <1>5, <1>6, <1>7 DEF OperationStep

\* What a worker's claim refers to.
LEMMA ClaimType ==
  ASSUME Types, NEW w \in Workers, phase[w] = "busy"
  PROVE  /\ claim[w] \in Claims
         /\ claim[w].gen \in Generations
         /\ claim[w].gen[1] \in Documents
         /\ claim[w].gen[2] \in Lineages
         /\ claim[w].gen = <<claim[w].gen[1], claim[w].gen[2]>>
         /\ job[claim[w].gen] \in Jobs
         /\ job[claim[w].gen].op \in Lineages
<1>1. claim[w] \in Claims
  BY DEF Types, TypeOK
<1>2. claim[w].gen \in Generations
  BY <1>1 DEF Claims
<1>3. job[claim[w].gen] \in Jobs
  BY <1>2 DEF Types, TypeOK
<1> QED
  BY <1>1, <1>2, <1>3 DEF Generations, Jobs

\* Going idle, as the steps that end a claim do.
LEMMA DropType ==
  ASSUME Types, NEW w \in Workers, Drop(w)
  PROVE  /\ phase' \in [Workers -> {"down", "idle", "busy"}]
         /\ claim' \in [Workers -> Claims \cup {NoClaim}]
         /\ \A v \in Workers : phase'[v] = "busy" <=> claim'[v] # NoClaim
         /\ crashes' \in Nat
BY DEF Drop, Types, TypeOK

LEMMA WorkerTypes ==
  ASSUME Types, NEW w \in Workers, WorkerStep(w)
  PROVE  Types'
<1> USE DEF Types, docVars, jobVars, opVars, workerVars
<1>1. ASSUME NEW g \in Generations, Claim(w, g) PROVE Types'
  <2>1. job[g] \in Jobs /\ Claimed(job[g]) \in Jobs
    BY JobUpdates DEF TypeOK
  <2>2. [gen |-> g, id |-> job[g].id, fence |-> Claimed(job[g]).fence] \in Claims
    BY <2>1 DEF Claims, Jobs
  <2> QED
    BY <1>1, <2>1, <2>2, IngestionAssumption DEF Claim, TypeOK, BlankUntilPreviewed
<1>2. CASE Progress(w)
  BY <1>2, ClaimType DEF Progress, TypeOK, BlankUntilPreviewed, DocStates
<1>3. CASE Stale(w)
  BY <1>3, DropType DEF Stale, TypeOK, BlankUntilPreviewed
<1>4. CASE Commit(w)
  <2> DEFINE g == claim[w].gen
             o == job[g].op
  <2>1. phase[w] = "busy" /\ Effective(claim[w]) /\ OpRuns(g) /\ Drop(w)
    BY <1>4 DEF Commit
  <2>2. /\ g \in Generations /\ g[1] \in Documents /\ g[2] \in Lineages
        /\ o \in Lineages
    BY <2>1, ClaimType
  <2>3. op' \in [Operations -> OpRecords]
        /\ \A p \in Operations :
             /\ op'[p].completed <= op'[p].total /\ op'[p].failed <= op'[p].total
             /\ op'[p].state = "none" => op'[p] = op[p] /\ op[p].state = "none"
    <3>1. CASE o = Original
      BY <1>4, <3>1 DEF Commit, Credit, TypeOK, BlankUntilPreviewed
    <3>2. CASE o # Original
      <4>1. o \in Operations /\ op[o].completed < op[o].total /\ op[o].state = "running"
        BY <1>4, <2>1, <2>2, <3>2 DEF Commit, OpRuns, Lineages
      <4> DEFINE n == op[o].completed + 1
                 s == IF n = op[o].total THEN "succeeded" ELSE op[o].state
      <4>2. /\ op[o] \in OpRecords /\ n \in Nat /\ n <= op[o].total
            /\ s \in {"succeeded", op[o].state}
        BY <4>1 DEF TypeOK, OpRecords
      <4>3. op' = [op EXCEPT ![o] = [op[o] EXCEPT !.completed = n, !.state = s]]
        BY <1>4, <3>2 DEF Commit, Credit
      <4> HIDE DEF n, s
      <4>4. [op[o] EXCEPT !.completed = n, !.state = s] \in OpRecords
        BY <4>2, OpUpdates
      <4> QED
        BY <4>1, <4>2, <4>3, <4>4 DEF TypeOK, OpRecords
    <3> QED
      BY <3>1, <3>2
  <2>4. BlankUntilPreviewed'
    BY <2>3 DEF BlankUntilPreviewed
  <2>5. /\ docState' \in [Documents -> DocStates]
        /\ active' \in [Documents -> Lineages]
        /\ genState' \in [Generations -> GenStates]
        /\ chunks' \subseteq Generations
    BY <1>4, <2>2 DEF Commit, Switched, TypeOK, DocStates, GenStates
  <2>6. job' \in [Generations -> Jobs]
    <3>1. [job[g] EXCEPT !.status = "completed", !.leased = FALSE] \in Jobs
      BY <2>2, JobUpdates DEF TypeOK
    <3> QED
      BY <1>4, <2>2, <3>1 DEF Commit, TypeOK
  <2> QED
    BY <1>4, <2>1, <2>3, <2>4, <2>5, <2>6, DropType DEF Commit, TypeOK
<1>5. CASE Backoff(w)
  <2>1. phase[w] = "busy" /\ Drop(w)
    BY <1>5 DEF Backoff
  <2>2. job' \in [Generations -> Jobs]
    <3>1. [job[claim[w].gen] EXCEPT !.status = "queued", !.leased = FALSE,
                                    !.due = FALSE] \in Jobs
      BY <2>1, ClaimType, JobUpdates
    <3> QED
      BY <1>5, <2>1, <3>1, ClaimType DEF Backoff, TypeOK
  <2> QED
    BY <1>5, <2>1, <2>2, DropType DEF Backoff, TypeOK, BlankUntilPreviewed
<1>6. CASE Poison(w)
  <2> DEFINE g == claim[w].gen
             o == job[g].op
  <2>1. phase[w] = "busy" /\ Drop(w)
    BY <1>6 DEF Poison
  <2>2. g \in Generations /\ g[1] \in Documents /\ o \in Lineages
    BY <2>1, ClaimType
  <2>3. op' \in [Operations -> OpRecords]
        /\ \A p \in Operations :
             /\ op'[p].completed <= op'[p].total /\ op'[p].failed <= op'[p].total
             /\ op'[p].state = "none" => op'[p] = op[p] /\ op[p].state = "none"
    <3>1. CASE o = Original
      BY <1>6, <3>1 DEF Poison, TypeOK, BlankUntilPreviewed
    <3>2. CASE o # Original
      <4>1. o \in Operations /\ op[o].failed < op[o].total
        BY <1>6, <2>2, <3>2 DEF Poison, Lineages
      <4> DEFINE n == op[o].failed + 1
      <4>2. op[o] \in OpRecords /\ n \in Nat /\ n <= op[o].total
        BY <4>1 DEF TypeOK, OpRecords
      <4>3. op' = [op EXCEPT ![o] = [op[o] EXCEPT !.state = "failed", !.failed = n]]
        BY <1>6, <3>2 DEF Poison
      <4> HIDE DEF n
      <4>4. [op[o] EXCEPT !.state = "failed", !.failed = n] \in OpRecords
        BY <4>2, OpUpdates
      <4> QED
        BY <4>1, <4>2, <4>3, <4>4 DEF TypeOK, OpRecords
    <3> QED
      BY <3>1, <3>2
  <2>4. BlankUntilPreviewed'
    BY <2>3 DEF BlankUntilPreviewed
  <2>5. /\ docState' \in [Documents -> DocStates]
        /\ genState' \in [Generations -> GenStates]
    BY <1>6, <2>2 DEF Poison, PoisonedDoc, TypeOK, DocStates, GenStates
  <2>6. job' \in [Generations -> Jobs]
    <3>1. [job[g] EXCEPT !.status = "failed", !.leased = FALSE] \in Jobs
      BY <2>2, JobUpdates DEF TypeOK
    <3> QED
      BY <1>6, <2>2, <3>1 DEF Poison, TypeOK
  <2> QED
    BY <1>6, <2>1, <2>3, <2>4, <2>5, <2>6, DropType DEF Poison, TypeOK
<1>7. CASE Crash(w)
  BY <1>7 DEF Crash, TypeOK, BlankUntilPreviewed
<1>8. CASE Restart(w)
  BY <1>8 DEF Restart, TypeOK, BlankUntilPreviewed
<1> QED
  BY <1>1, <1>2, <1>3, <1>4, <1>5, <1>6, <1>7, <1>8 DEF WorkerStep

LEMMA NextTypes == Types /\ [Next]_vars => Types'
<1> SUFFICES ASSUME Types, [Next]_vars PROVE Types'
  OBVIOUS
<1>1. CASE UNCHANGED vars
  BY <1>1
  DEF Types, TypeOK, BlankUntilPreviewed, vars, docVars, jobVars, opVars, workerVars
<1> QED
  BY <1>1, DocumentTypes, OperationTypes, GenerationTypes, WorkerTypes DEF Next

\* Types: every row keeps its domain and the CHECK constraints on the counters of
\* reprocessing_operations are never violated, for any number of documents,
\* operations and workers.
THEOREM TypeCorrect == Spec => []TypeOK
<1>1. Types => TypeOK
  BY DEF Types
<1> QED
  BY InitTypes, NextTypes, <1>1, PTL DEF Spec

-----------------------------------------------------------------------------
(* Fencing.                                                                *)

Fencing == JobIdsDrawn /\ ClaimsBehindJobs /\ ClaimsDistinct

\* A step keeps Fencing when it starts no claim and when every job keeps its id
\* (and its fencing token does not go back), goes away, or gets a fresh id.
LEMMA FencingKept ==
  ASSUME Types, Types', Fencing,
         \A d \in Documents : serial[d] <= serial'[d],
         \A g \in Generations :
           \/ /\ job'[g].id = job[g].id /\ job[g].fence <= job'[g].fence
              /\ job'[g].status # "none" => job[g].status # "none"
           \/ job'[g] = NoJob
           \/ serial[g[1]] < job'[g].id /\ job'[g].id <= serial'[g[1]],
         \A w \in Workers : phase'[w] = "busy" => phase[w] = "busy" /\ claim'[w] = claim[w]
  PROVE  Fencing'
<1>1. \A g \in Generations : /\ g[1] \in Documents
                             /\ job[g].id \in Nat /\ job'[g].id \in Nat
                             /\ job[g].fence \in Nat /\ job'[g].fence \in Nat
                             /\ serial[g[1]] \in Nat /\ serial'[g[1]] \in Nat
  BY DEF Types, TypeOK, Generations, Jobs
<1>2. JobIdsDrawn'
  BY <1>1 DEF Fencing, JobIdsDrawn, NoJob
<1>3. ClaimsBehindJobs'
  <2> SUFFICES ASSUME NEW w \in Workers, phase'[w] = "busy"
               PROVE  /\ 0 < claim[w].id
                      /\ claim[w].id <= serial'[claim[w].gen[1]]
                      /\ job'[claim[w].gen].id = claim[w].id
                           => claim[w].fence <= job'[claim[w].gen].fence
    BY DEF ClaimsBehindJobs
  <2>1. phase[w] = "busy"
    OBVIOUS
  <2>2. claim[w].gen \in Generations /\ claim[w].id \in Nat /\ claim[w].fence \in Nat
    BY <2>1, ClaimType DEF Claims
  <2>3. /\ 0 < claim[w].id /\ claim[w].id <= serial[claim[w].gen[1]]
        /\ job[claim[w].gen].id = claim[w].id => claim[w].fence <= job[claim[w].gen].fence
    BY <2>1 DEF Fencing, ClaimsBehindJobs
  <2> QED
    BY <1>1, <2>2, <2>3 DEF NoJob
<1>4. ClaimsDistinct'
  BY DEF Fencing, ClaimsDistinct
<1> QED
  BY <1>2, <1>3, <1>4 DEF Fencing

LEMMA DocumentFencing ==
  ASSUME Types, Types', Fencing, AbsentIsBlank, NEW d \in Documents, DocumentStep(d)
  PROVE  Fencing'
<1> USE DEF docVars, jobVars, opVars, workerVars
<1>1. \A g \in Generations : g[1] \in Documents /\ job[g] \in Jobs
  BY DEF Types, TypeOK, Generations
<1>2. CASE Upload(d)
  <2>1. serial[d] = 0 /\ serial' = [serial EXCEPT ![d] = 1] /\ serial \in [Documents -> Nat]
    BY <1>2 DEF Upload, AbsentIsBlank, Types, TypeOK
  <2>2. NewJob(1, Original).id = 1
    BY DEF NewJob, NoJob
  <2>3. \A g \in Generations : job'[g] = job[g] \/ (g[1] = d /\ job'[g].id = 1)
    BY <1>2, <2>2 DEF Upload, Types, TypeOK
  <2> QED
    BY <1>1, <1>2, <2>1, <2>3, FencingKept DEF Upload, Jobs
<1>3. CASE Delete(d)
  <2>1. \A g \in Generations : job'[g] = job[g] \/ job'[g] = NoJob
    BY <1>3 DEF Delete
  <2>2. \A e \in Documents : serial[e] <= serial'[e]
    BY <1>3 DEF Delete, Types, TypeOK
  <2> QED
    BY <1>1, <1>3, <2>1, <2>2, FencingKept DEF Delete, Jobs
<1>4. CASE Requeue(d)
  <2>1. serial' = [serial EXCEPT ![d] = serial[d] + 1] /\ serial \in [Documents -> Nat]
    BY <1>4 DEF Requeue, Types, TypeOK
  <2>2. NewJob(serial[d] + 1, Original).id = serial[d] + 1
    BY DEF NewJob, NoJob
  <2>3. ActiveGen(d)[1] = d /\ ActiveGen(d) \in Generations
    BY DEF ActiveGen, Types, TypeOK, Generations
  <2>4. \A g \in Generations : job'[g] = job[g] \/ (g[1] = d /\ job'[g].id = serial[d] + 1)
    BY <1>4, <2>2, <2>3 DEF Requeue, Types, TypeOK
  <2>5. \A e \in Documents : serial[e] <= serial'[e]
    BY <2>1
  <2> QED
    BY <1>1, <1>4, <2>1, <2>4, <2>5, FencingKept DEF Requeue, Jobs
<1> QED
  BY <1>2, <1>3, <1>4 DEF DocumentStep

LEMMA GenerationFencing ==
  ASSUME Types, Types', Fencing, NEW g \in Generations, GenerationStep(g)
  PROVE  Fencing'
<1> USE DEF docVars, jobVars, opVars, workerVars
<1>1. \A h \in Generations : job[h] \in Jobs
  BY DEF Types, TypeOK
<1>2. \A d \in Documents : serial'[d] = serial[d] /\ serial[d] <= serial[d]
  BY DEF GenerationStep, PrepareRequeue, Cleanup, Expire, BecomeDue, Types, TypeOK
<1>3. \A w \in Workers : phase'[w] = phase[w] /\ claim'[w] = claim[w]
  BY DEF GenerationStep, PrepareRequeue, Cleanup, Expire, BecomeDue
<1>4. \A h \in Generations :
        \/ /\ job'[h].id = job[h].id /\ job'[h].fence = job[h].fence
           /\ job'[h].status = job[h].status
        \/ job'[h] = NoJob
  BY <1>1 DEF GenerationStep, PrepareRequeue, Cleanup, Expire, BecomeDue, Types, TypeOK, Jobs
<1> QED
  BY <1>1, <1>2, <1>3, <1>4, FencingKept DEF Jobs

LEMMA OperationFencing ==
  ASSUME Types, Types', Fencing, NEW o \in Operations, OperationStep(o)
  PROVE  Fencing'
<1> USE DEF docVars, jobVars, opVars, workerVars
<1>1. \A h \in Generations : job[h] \in Jobs /\ h[1] \in Documents
  BY DEF Types, TypeOK, Generations
<1>2. \A d \in Documents : serial[d] \in Nat
  BY DEF Types, TypeOK
<1>3. \A w \in Workers : phase'[w] = phase[w] /\ claim'[w] = claim[w]
  BY DEF OperationStep, Preview, Start, PauseCheck, PauseApply, Resume, Cancel, Retry
<1>4. CASE Start(o)
  <2>1. \A d \in Documents : serial'[d] = IF d \in Eligible(o) THEN serial[d] + 1 ELSE serial[d]
    BY <1>4 DEF Start
  <2>2. \A h \in Generations :
          job'[h] = IF h[1] \in Eligible(o) /\ h[2] = o
                      THEN NewJob(serial[h[1]] + 1, o) ELSE job[h]
    BY <1>4 DEF Start
  <2>3. \A n \in Nat : NewJob(n, o).id = n
    BY DEF NewJob, NoJob
  <2>4. \A d \in Documents : serial[d] <= serial'[d]
    BY <1>2, <2>1
  <2>5. \A h \in Generations :
          \/ job'[h] = job[h]
          \/ serial[h[1]] < job'[h].id /\ job'[h].id <= serial'[h[1]]
    BY <1>1, <1>2, <2>1, <2>2, <2>3
  <2> QED
    BY <1>1, <1>3, <2>4, <2>5, FencingKept DEF Jobs
<1>5. CASE Preview(o) \/ PauseCheck(o) \/ PauseApply(o) \/ Resume(o)
  <2>1. job' = job /\ serial' = serial
    BY <1>5 DEF Preview, PauseCheck, PauseApply, Resume
  <2>2. \A d \in Documents : serial[d] <= serial'[d]
    BY <1>2, <2>1
  <2> QED
    BY <1>1, <1>3, <2>1, <2>2, FencingKept DEF Jobs
<1>6. CASE Cancel(o)
  <2>1. \A h \in Generations : job'[h] = job[h] \/ job'[h] = NoJob
    BY <1>6 DEF Cancel
  <2>2. \A d \in Documents : serial[d] <= serial'[d]
    BY <1>2, <1>6 DEF Cancel
  <2> QED
    BY <1>1, <1>3, <2>1, <2>2, FencingKept DEF Jobs
<1>7. CASE Retry(o)
  <2>1. \A h \in Generations : /\ job'[h].id = job[h].id /\ job'[h].fence = job[h].fence
                               /\ job'[h].status # "none" => job[h].status # "none"
    BY <1>1, <1>7 DEF Retry, Retried, Jobs
  <2>2. \A d \in Documents : serial[d] <= serial'[d]
    <3>1. serial' = serial
      BY <1>7 DEF Retry
    <3> QED
      BY <1>2, <3>1
  <2> QED
    BY <1>1, <1>3, <2>1, <2>2, FencingKept DEF Jobs
<1> QED
  BY <1>4, <1>5, <1>6, <1>7 DEF OperationStep

LEMMA WorkerFencing ==
  ASSUME Types, Types', Fencing, NEW w \in Workers, WorkerStep(w)
  PROVE  Fencing'
<1> USE DEF docVars, jobVars, opVars, workerVars
<1>1. \A h \in Generations : job[h] \in Jobs /\ h[1] \in Documents
  BY DEF Types, TypeOK, Generations
<1>2. \A d \in Documents : serial'[d] = serial[d] /\ serial[d] \in Nat
  BY DEF WorkerStep, Claim, Progress, Stale, Commit, Backoff, Poison, Crash, Restart,
         Types, TypeOK
<1>3. ASSUME NEW g \in Generations, Claim(w, g) PROVE Fencing'
  <2> DEFINE c == [gen |-> g, id |-> job[g].id, fence |-> Claimed(job[g]).fence]
  <2>1. /\ job' = [job EXCEPT ![g] = Claimed(job[g])]
        /\ phase' = [phase EXCEPT ![w] = "busy"]
        /\ claim' = [claim EXCEPT ![w] = c]
        /\ job[g].status # "none"
    BY <1>3 DEF Claim, Claimable
  <2>2. /\ Claimed(job[g]).id = job[g].id
        /\ Claimed(job[g]).fence = job[g].fence + 1
        /\ job[g].fence \in Nat /\ job[g].id \in Nat
    BY <1>1 DEF Claimed, Jobs
  <2>3. c.gen = g /\ c.id = job[g].id /\ c.fence = job[g].fence + 1
    BY <2>2
  <2> HIDE DEF c
  <2>4. \A h \in Generations : /\ job'[h].id = job[h].id
                               /\ job'[h].fence = IF h = g THEN job[h].fence + 1 ELSE job[h].fence
                               /\ job'[h].status # "none" => job[h].status # "none"
    BY <2>1, <2>2 DEF Types, TypeOK
  <2>5. JobIdsDrawn'
    BY <1>1, <1>2, <2>4 DEF Fencing, JobIdsDrawn
  <2>6. \A v \in Workers : phase'[v] = "busy" =>
          \/ v = w /\ claim'[v] = c
          \/ v # w /\ phase[v] = "busy" /\ claim'[v] = claim[v]
    BY <2>1 DEF Types, TypeOK
  <2>7. \A v \in Workers : phase[v] = "busy" =>
          /\ claim[v].gen \in Generations /\ claim[v].id \in Nat /\ claim[v].fence \in Nat
          /\ 0 < claim[v].id /\ claim[v].id <= serial[claim[v].gen[1]]
          /\ job[claim[v].gen].id = claim[v].id => claim[v].fence <= job[claim[v].gen].fence
    BY ClaimType DEF Fencing, ClaimsBehindJobs, Claims
  <2>8. ClaimsBehindJobs'
    <3> SUFFICES ASSUME NEW v \in Workers, phase'[v] = "busy"
                 PROVE  /\ 0 < claim'[v].id
                        /\ claim'[v].id <= serial'[claim'[v].gen[1]]
                        /\ job'[claim'[v].gen].id = claim'[v].id
                             => claim'[v].fence <= job'[claim'[v].gen].fence
      BY DEF ClaimsBehindJobs
    <3>1. CASE v = w
      <4>1. claim'[v] = c /\ job[g].id <= serial[g[1]] /\ 0 < job[g].id
        BY <2>1, <2>2, <2>6, <3>1 DEF Fencing, JobIdsDrawn
      <4>2. job'[g].fence = job[g].fence + 1
        BY <2>4
      <4> QED
        BY <1>1, <1>2, <2>2, <2>3, <4>1, <4>2
    <3>2. CASE v # w
      <4>1. phase[v] = "busy" /\ claim'[v] = claim[v]
        BY <2>6, <3>2
      <4>2. claim[v].gen \in Generations /\ job[claim[v].gen].fence \in Nat
        BY <1>1, <2>7, <4>1 DEF Jobs
      <4> QED
        BY <1>1, <1>2, <2>4, <2>7, <4>1, <4>2
    <3> QED
      BY <3>1, <3>2
  <2>9. \A v \in Workers : phase[v] = "busy" => claim[v] # c
    BY <2>2, <2>3, <2>7
  <2>10. ClaimsDistinct'
    BY <2>6, <2>9 DEF Fencing, ClaimsDistinct
  <2> QED
    BY <2>5, <2>8, <2>10 DEF Fencing
<1>4. ASSUME Progress(w) \/ Stale(w) \/ Commit(w) \/ Backoff(w) \/ Poison(w)
             \/ Crash(w) \/ Restart(w)
      PROVE  Fencing'
  <2>1. \A v \in Workers : phase'[v] = "busy" => phase[v] = "busy" /\ claim'[v] = claim[v]
    BY <1>4 DEF Progress, Stale, Commit, Backoff, Poison, Crash, Restart, Drop, Types, TypeOK
  <2>2. \A h \in Generations : /\ job'[h].id = job[h].id /\ job'[h].fence = job[h].fence
                               /\ job'[h].status # "none" => job[h].status # "none"
    <3>1. CASE job' = job
      BY <3>1
    <3>2. ASSUME Commit(w) \/ Backoff(w) \/ Poison(w), job' # job
          PROVE  \A h \in Generations :
                   /\ job'[h].id = job[h].id /\ job'[h].fence = job[h].fence
                   /\ job'[h].status # "none" => job[h].status # "none"
      <4> DEFINE g == claim[w].gen
      <4>1. g \in Generations /\ job[g] \in Jobs /\ job[g].status # "none"
        BY <3>2, ClaimType DEF Commit, Backoff, Poison, Effective, Matches
      <4>2. \/ job' = [job EXCEPT ![g] = [job[g] EXCEPT !.status = "completed", !.leased = FALSE]]
            \/ job' = [job EXCEPT ![g] = [job[g] EXCEPT !.status = "failed", !.leased = FALSE]]
            \/ job' = [job EXCEPT ![g] = [job[g] EXCEPT !.status = "queued", !.leased = FALSE,
                                                       !.due = FALSE]]
        BY <3>2 DEF Commit, Backoff, Poison
      <4> HIDE DEF g
      <4>3. \/ job'[g] = [job[g] EXCEPT !.status = "completed", !.leased = FALSE]
            \/ job'[g] = [job[g] EXCEPT !.status = "failed", !.leased = FALSE]
            \/ job'[g] = [job[g] EXCEPT !.status = "queued", !.leased = FALSE, !.due = FALSE]
        BY <4>1, <4>2 DEF Types, TypeOK
      <4>4. job'[g].id = job[g].id /\ job'[g].fence = job[g].fence
        BY <4>1, <4>3, JobFields
      <4>5. \A h \in Generations \ {g} : job'[h] = job[h]
        BY <4>2 DEF Types, TypeOK
      <4> QED
        BY <4>1, <4>4, <4>5
    <3> QED
      BY <1>4, <3>1, <3>2 DEF Progress, Stale, Crash, Restart
  <2>3. \A d \in Documents : serial[d] <= serial'[d]
    BY <1>2
  <2>4. \A h \in Generations : job[h].fence <= job'[h].fence
    BY <1>1, <2>2 DEF Jobs
  <2> QED
    BY <2>1, <2>2, <2>3, <2>4, FencingKept
<1> QED
  BY <1>3, <1>4 DEF WorkerStep

-----------------------------------------------------------------------------
(* What a ready document is served from.                                   *)

Serving ==
  ReadyIsSearchable /\ OneReadyGeneration /\ LiveIsNotServed /\ OperationJobs

\* A step that leaves documents alone and does not touch ready generations keeps
\* Serving as long as jobs only leave "queued" and "running", or move within them.
LEMMA ServingKept ==
  ASSUME Types, Types', Serving,
         docState' = docState, active' = active, chunks' = chunks,
         \A g \in Generations :
           genState'[g] = genState[g] \/ (genState[g] # "ready" /\ genState'[g] # "ready"),
         \A g \in Generations :
           \/ job'[g] = job[g]
           \/ job'[g] = NoJob
           \/ /\ job'[g].op = job[g].op
              /\ job[g].status \in {"queued", "running"} \/ job[g].op # Original
              /\ job[g].status # "completed"
  PROVE  Serving'
<1>1. \A d \in Documents : ActiveGen(d) \in Generations /\ ActiveGen(d)[1] = d
  BY DEF ActiveGen, Types, TypeOK, Generations
<1>2. \A d : ActiveGen(d)' = ActiveGen(d)
  BY DEF ActiveGen
<1>3. ReadyIsSearchable'
  BY <1>1, <1>2 DEF Serving, ReadyIsSearchable
<1>4. OneReadyGeneration'
  BY <1>2 DEF Serving, OneReadyGeneration
<1>5. OperationJobs'
  BY <1>2 DEF Serving, OperationJobs, NoJob
<1>6. LiveIsNotServed'
  <2> SUFFICES ASSUME NEW d \in Documents, Live(ActiveGen(d))', docState[d] = "ready"
               PROVE  FALSE
    BY DEF LiveIsNotServed
  <2> DEFINE g == ActiveGen(d)
  <2>1. g \in Generations /\ g[1] = d /\ job'[g].status \in {"queued", "running"}
    BY <1>1, <1>2 DEF Live
  <2>2. job[g].status \notin {"queued", "running"}
    BY <2>1 DEF Serving, LiveIsNotServed, Live
  <2>3. job[g].op # Original => job[g].status = "completed"
    BY <2>1 DEF Serving, OperationJobs
  <2> QED
    BY <2>1, <2>2, <2>3 DEF NoJob
<1> QED
  BY <1>3, <1>4, <1>5, <1>6 DEF Serving

LEMMA GenerationServing ==
  ASSUME Types, Types', Serving, NEW g \in Generations, GenerationStep(g)
  PROVE  Serving'
<1> USE DEF docVars, jobVars, opVars, workerVars
<1>1. CASE PrepareRequeue(g)
  BY <1>1, ServingKept DEF PrepareRequeue
<1>2. CASE Expire(g)
  <2>1. \A h \in Generations :
          \/ job'[h] = job[h]
          \/ job'[h].op = job[h].op /\ job[h].status = "running"
    BY <1>2 DEF Expire, Types, TypeOK, Jobs
  <2> QED
    BY <1>2, <2>1, ServingKept DEF Expire
<1>3. CASE BecomeDue(g)
  <2>1. \A h \in Generations :
          \/ job'[h] = job[h]
          \/ job'[h].op = job[h].op /\ job[h].status = "queued"
    BY <1>3 DEF BecomeDue, Types, TypeOK, Jobs
  <2> QED
    BY <1>3, <2>1, ServingKept DEF BecomeDue
<1>4. CASE Cleanup(g)
  <2>1. /\ genState' = [genState EXCEPT ![g] = "none"] /\ chunks' = chunks \ {g}
        /\ job' = [job EXCEPT ![g] = NoJob]
        /\ docState' = docState /\ active' = active
        /\ genState[g] # "ready" /\ \A d \in Documents : ActiveGen(d) # g
    BY <1>4 DEF Cleanup, Removable
  <2>2. \A d \in Documents : ActiveGen(d) \in Generations /\ ActiveGen(d)[1] = d
    BY DEF ActiveGen, Types, TypeOK, Generations
  <2>3. \A d : ActiveGen(d)' = ActiveGen(d)
    BY <2>1 DEF ActiveGen
  <2>4. \A h \in Generations : \/ h = g /\ genState'[h] = "none" /\ job'[h] = NoJob
                               \/ h # g /\ genState'[h] = genState[h] /\ job'[h] = job[h]
    <3>1. genState \in [Generations -> GenStates] /\ job \in [Generations -> Jobs]
      BY DEF Types, TypeOK
    <3>2. \A h \in Generations : genState'[h] = IF h = g THEN "none" ELSE genState[h]
      BY <2>1, <3>1
    <3>3. \A h \in Generations : job'[h] = IF h = g THEN NoJob ELSE job[h]
      BY <2>1, <3>1
    <3> QED
      BY <3>2, <3>3
  <2>5. ReadyIsSearchable'
    BY <2>1, <2>2, <2>3, <2>4 DEF Serving, ReadyIsSearchable
  <2>6. OneReadyGeneration'
    BY <2>3, <2>4 DEF Serving, OneReadyGeneration
  <2>7. OperationJobs'
    BY <2>3, <2>4 DEF Serving, OperationJobs, NoJob
  <2>8. LiveIsNotServed'
    BY <2>1, <2>2, <2>3, <2>4 DEF Serving, LiveIsNotServed, Live, NoJob
  <2> QED
    BY <2>5, <2>6, <2>7, <2>8 DEF Serving
<1> QED
  BY <1>1, <1>2, <1>3, <1>4 DEF GenerationStep

LEMMA OperationServing ==
  ASSUME Types, Types', Serving, NEW o \in Operations, OperationStep(o)
  PROVE  Serving'
<1> USE DEF docVars, jobVars, opVars, workerVars
<1>1. CASE Preview(o) \/ PauseCheck(o) \/ PauseApply(o) \/ Resume(o)
  <2>1. UNCHANGED <<docState, active, genState, chunks, job>>
    BY <1>1 DEF Preview, PauseCheck, PauseApply, Resume
  <2> QED
    BY <2>1, ServingKept
<1>2. CASE Cancel(o)
  <2>1. \A h \in Generations : genState'[h] = genState[h]
                              \/ (genState[h] # "ready" /\ genState'[h] # "ready")
    BY <1>2 DEF Cancel
  <2>2. \A h \in Generations : job'[h] = job[h] \/ job'[h] = NoJob
    BY <1>2 DEF Cancel
  <2> QED
    BY <1>2, <2>1, <2>2, ServingKept DEF Cancel
<1>3. CASE Retry(o)
  <2>1. \A h \in Generations : genState'[h] = genState[h]
                              \/ (genState[h] # "ready" /\ genState'[h] # "ready")
    BY <1>3 DEF Retry
  <2>2. \A h \in Generations :
          \/ job'[h] = job[h]
          \/ job'[h].op = job[h].op /\ job[h].op = o /\ job[h].status = "failed"
    <3> SUFFICES ASSUME NEW h \in Generations, job'[h] # job[h]
                 PROVE  job'[h].op = job[h].op /\ job[h].op = o /\ job[h].status = "failed"
      OBVIOUS
    <3>1. /\ h \in Retried(o)
          /\ job'[h] = [job[h] EXCEPT !.status = "queued", !.due = TRUE, !.leased = FALSE]
      BY <1>3 DEF Retry
    <3>2. job[h] \in Jobs
      BY DEF Types, TypeOK
    <3> QED
      BY <3>1, <3>2, JobFields DEF Retried, OpJobs
  <2>3. docState' = docState /\ active' = active /\ chunks' = chunks
    BY <1>3 DEF Retry
  <2> QED
    BY <2>1, <2>2, <2>3, ServingKept, IngestionAssumption
<1>4. CASE Start(o)
  <2>1. /\ \A h \in Generations :
             genState'[h] = IF h[1] \in Eligible(o) /\ h[2] = o THEN "building" ELSE genState[h]
        /\ \A h \in Generations :
             job'[h] = IF h[1] \in Eligible(o) /\ h[2] = o
                         THEN NewJob(serial[h[1]] + 1, o) ELSE job[h]
        /\ docState' = docState /\ active' = active /\ chunks' = chunks
    BY <1>4 DEF Start
  <2>2. \A n : NewJob(n, o).op = o
    BY DEF NewJob, NoJob
  <2>3. \A d \in Documents : ActiveGen(d) \in Generations /\ ActiveGen(d)[1] = d
                             /\ ActiveGen(d)[2] = active[d]
    BY DEF ActiveGen, Types, TypeOK, Generations
  <2>4. \A d : ActiveGen(d)' = ActiveGen(d)
    BY <2>1 DEF ActiveGen
  <2>5. \A d \in Eligible(o) : active[d] # o
    BY IngestionAssumption DEF Eligible
  <2>6. \A d \in Documents : /\ genState'[ActiveGen(d)] = genState[ActiveGen(d)]
                             /\ job'[ActiveGen(d)] = job[ActiveGen(d)]
    BY <2>1, <2>3, <2>5
  <2>7. ReadyIsSearchable'
    BY <2>1, <2>4, <2>6 DEF Serving, ReadyIsSearchable
  <2>8. OneReadyGeneration'
    BY <2>1, <2>4 DEF Serving, OneReadyGeneration
  <2>9. LiveIsNotServed'
    BY <2>1, <2>4, <2>6 DEF Serving, LiveIsNotServed, Live
  <2>10. OperationJobs'
    <3> SUFFICES ASSUME NEW h \in Generations, job'[h].op # Original
                 PROVE  /\ job'[h].op = h[2]
                        /\ h = ActiveGen(h[1]) => job'[h].status = "completed"
      BY <2>4 DEF OperationJobs
    <3>1. CASE job'[h] = job[h]
      BY <3>1 DEF Serving, OperationJobs
    <3>2. CASE job'[h] # job[h]
      <4>1. h[1] \in Eligible(o) /\ h[2] = o /\ job'[h].op = o
        BY <2>1, <2>2, <3>2
      <4>2. h[1] \in Documents
        BY DEF Generations
      <4> QED
        BY <2>3, <2>5, <4>1, <4>2
    <3> QED
      BY <3>1, <3>2
  <2> QED
    BY <2>7, <2>8, <2>9, <2>10 DEF Serving
<1> QED
  BY <1>1, <1>2, <1>3, <1>4 DEF OperationStep

LEMMA DocumentServing ==
  ASSUME Types, Types', Serving, NEW d \in Documents, DocumentStep(d)
  PROVE  Serving'
<1> USE DEF docVars, jobVars, opVars, workerVars
<1>1. \A e \in Documents : /\ ActiveGen(e) \in Generations /\ ActiveGen(e)[1] = e
                           /\ ActiveGen(e) = <<e, active[e]>>
  BY DEF ActiveGen, Types, TypeOK, Generations
<1>2. active' = active /\ \A e : ActiveGen(e)' = ActiveGen(e)
  BY DEF DocumentStep, Upload, Delete, Requeue, ActiveGen
<1>3. \A n : NewJob(n, Original).op = Original
  BY DEF NewJob, NoJob
<1>4. \A g \in Generations : g[1] # d =>
        genState'[g] = genState[g] /\ job'[g] = job[g] /\ (g \in chunks' <=> g \in chunks)
  BY <1>1 DEF DocumentStep, Upload, Delete, Requeue, GensOf, Types, TypeOK
<1>5. docState'[d] # "ready" /\ \A e \in Documents \ {d} : docState'[e] = docState[e]
  BY DEF DocumentStep, Upload, Delete, Requeue, Types, TypeOK
<1>6. \A g \in Generations : /\ genState'[g] = "ready" => genState[g] = "ready"
                             /\ job'[g] = job[g] \/ job'[g].op = Original
  <2>1. genState \in [Generations -> GenStates] /\ job \in [Generations -> Jobs]
    BY DEF Types, TypeOK
  <2>2. CASE Upload(d)
    BY <1>3, <2>1, <2>2 DEF Upload
  <2>3. CASE Delete(d)
    BY <2>1, <2>3 DEF Delete, NoJob
  <2>4. CASE Requeue(d)
    BY <1>1, <1>3, <2>1, <2>4 DEF Requeue
  <2> QED
    BY <2>2, <2>3, <2>4 DEF DocumentStep
<1>7. ReadyIsSearchable'
  BY <1>1, <1>2, <1>4, <1>5 DEF Serving, ReadyIsSearchable
<1>8. OneReadyGeneration'
  BY <1>2, <1>6 DEF Serving, OneReadyGeneration
<1>9. LiveIsNotServed'
  BY <1>1, <1>2, <1>4, <1>5 DEF Serving, LiveIsNotServed, Live
<1>10. OperationJobs'
  BY <1>2, <1>6 DEF Serving, OperationJobs
<1> QED
  BY <1>7, <1>8, <1>9, <1>10 DEF Serving

LEMMA CommitServing ==
  ASSUME Types, Types', Serving, NEW w \in Workers, Commit(w),
         NEW g \in Generations, g = claim[w].gen
  PROVE  Serving'
<1>1. \A e \in Documents : /\ ActiveGen(e) \in Generations /\ ActiveGen(e)[1] = e
                           /\ ActiveGen(e) = <<e, active[e]>>
  BY DEF ActiveGen, Types, TypeOK, Generations
<1>2. /\ g[1] \in Documents /\ g[2] \in Lineages
      /\ g = <<g[1], g[2]>> /\ job[g] \in Jobs
  BY DEF Types, TypeOK, Generations
<1>3. /\ job' = [job EXCEPT ![g] = [job[g] EXCEPT !.status = "completed", !.leased = FALSE]]
      /\ chunks' = chunks \cup {g} /\ genState' = Switched(g)
      /\ active' = [active EXCEPT ![g[1]] = g[2]]
      /\ docState' = [docState EXCEPT ![g[1]] = "ready"]
  BY DEF Commit
<1>4. /\ job'[g] = [job[g] EXCEPT !.status = "completed", !.leased = FALSE]
      /\ \A h \in Generations \ {g} : job'[h] = job[h]
  BY <1>3 DEF Types, TypeOK
<1>5. job'[g].op = job[g].op /\ job'[g].status = "completed"
  BY <1>2, <1>4, JobFields DEF Jobs
<1>6. /\ ActiveGen(g[1])' = g
      /\ \A e \in Documents \ {g[1]} : /\ ActiveGen(e)' = ActiveGen(e)
                                       /\ docState'[e] = docState[e]
  BY <1>2, <1>3 DEF ActiveGen, Types, TypeOK
<1>7. /\ genState'[g] = "ready"
      /\ \A h \in Generations \ {g} :
           /\ genState'[h] = "ready" => genState[h] = "ready" /\ h # ActiveGen(g[1])
           /\ h # ActiveGen(g[1]) => genState'[h] = genState[h]
  BY <1>3 DEF Switched
<1>8. ReadyIsSearchable'
  <2> SUFFICES ASSUME NEW e \in Documents, docState'[e] = "ready"
               PROVE  genState'[ActiveGen(e)'] = "ready" /\ ActiveGen(e)' \in chunks'
    BY DEF ReadyIsSearchable
  <2>1. CASE e = g[1]
    BY <1>3, <1>6, <1>7, <2>1
  <2>2. CASE e # g[1]
    <3>1. /\ ActiveGen(e)' = ActiveGen(e) /\ docState[e] = "ready"
          /\ ActiveGen(e) # g /\ ActiveGen(e) # ActiveGen(g[1])
      BY <1>1, <1>2, <1>6, <2>2
    <3> QED
      BY <1>1, <1>3, <1>7, <3>1 DEF Serving, ReadyIsSearchable
  <2> QED
    BY <2>1, <2>2
<1>9. OneReadyGeneration'
  <2> SUFFICES ASSUME NEW h \in Generations, genState'[h] = "ready", h # g
               PROVE  h = ActiveGen(h[1])'
    BY <1>6 DEF OneReadyGeneration
  <2>1. genState[h] = "ready" /\ h # ActiveGen(g[1]) /\ h = ActiveGen(h[1])
    BY <1>7 DEF Serving, OneReadyGeneration
  <2>2. h[1] \in Documents /\ h[1] # g[1]
    BY <2>1 DEF Generations
  <2> QED
    BY <1>6, <2>1, <2>2
<1>10. LiveIsNotServed'
  <2> SUFFICES ASSUME NEW e \in Documents, Live(ActiveGen(e))'
               PROVE  docState'[e] # "ready"
    BY DEF LiveIsNotServed
  <2>1. e # g[1]
    BY <1>5, <1>6 DEF Live
  <2>2. ActiveGen(e)' = ActiveGen(e) /\ ActiveGen(e) # g /\ ActiveGen(e) \in Generations
    BY <1>1, <1>2, <1>6, <2>1
  <2>3. Live(ActiveGen(e))
    BY <1>4, <2>2 DEF Live
  <2> QED
    BY <1>6, <2>1, <2>3 DEF Serving, LiveIsNotServed
<1>11. OperationJobs'
  <2> SUFFICES ASSUME NEW h \in Generations, job'[h].op # Original
               PROVE  /\ job'[h].op = h[2]
                      /\ h = ActiveGen(h[1])' => job'[h].status = "completed"
    BY DEF OperationJobs
  <2>1. CASE h = g
    BY <1>5, <2>1 DEF Serving, OperationJobs
  <2>2. CASE h # g
    <3>1. job'[h] = job[h] /\ h[1] \in Documents
      BY <1>4, <2>2 DEF Generations
    <3>2. h = ActiveGen(h[1])' => h = ActiveGen(h[1])
      BY <1>6, <2>2, <3>1
    <3> QED
      BY <3>1, <3>2 DEF Serving, OperationJobs
  <2> QED
    BY <2>1, <2>2
<1> QED
  BY <1>8, <1>9, <1>10, <1>11 DEF Serving

LEMMA PoisonServing ==
  ASSUME Types, Types', Serving, NEW w \in Workers, Poison(w),
         NEW g \in Generations, g = claim[w].gen
  PROVE  Serving'
<1>1. \A e \in Documents : ActiveGen(e) \in Generations /\ ActiveGen(e)[1] = e
  BY DEF ActiveGen, Types, TypeOK, Generations
<1>2. g[1] \in Documents /\ job[g] \in Jobs /\ job[g].status = "running"
  BY DEF Types, TypeOK, Generations, Poison, Effective, Matches
<1>3. /\ job' = [job EXCEPT ![g] = [job[g] EXCEPT !.status = "failed", !.leased = FALSE]]
      /\ genState' = [genState EXCEPT ![g] = "failed"] /\ docState' = PoisonedDoc(g)
      /\ chunks' = chunks /\ active' = active
  BY DEF Poison
<1>4. /\ job'[g] = [job[g] EXCEPT !.status = "failed", !.leased = FALSE]
      /\ \A h \in Generations \ {g} : job'[h] = job[h]
  BY <1>3 DEF Types, TypeOK
<1>5. job'[g].op = job[g].op /\ job'[g].status = "failed"
  BY <1>2, <1>4, JobFields DEF Jobs
<1>6. \A e \in Documents : docState'[e] = "ready" => docState[e] = "ready"
  BY <1>2, <1>3 DEF PoisonedDoc, Types, TypeOK
<1>7. \A e : ActiveGen(e)' = ActiveGen(e)
  BY <1>3 DEF ActiveGen
<1>8. \A e \in Documents : docState[e] = "ready" => ActiveGen(e) # g
  BY <1>2 DEF Serving, LiveIsNotServed, Live
<1>9. genState'[g] = "failed" /\ \A h \in Generations \ {g} : genState'[h] = genState[h]
  BY <1>3 DEF Types, TypeOK
<1>10. ReadyIsSearchable'
  BY <1>1, <1>3, <1>6, <1>7, <1>8, <1>9 DEF Serving, ReadyIsSearchable
<1>11. OneReadyGeneration'
  BY <1>7, <1>9 DEF Serving, OneReadyGeneration
<1>12. LiveIsNotServed'
  BY <1>1, <1>4, <1>5, <1>6, <1>7 DEF Serving, LiveIsNotServed, Live
<1>13. OperationJobs'
  <2>1. job[g].op # Original => job[g].op = g[2] /\ g # ActiveGen(g[1])
    BY <1>2 DEF Serving, OperationJobs
  <2> QED
    <3> SUFFICES ASSUME NEW h \in Generations, job'[h].op # Original
                 PROVE  /\ job'[h].op = h[2]
                        /\ h = ActiveGen(h[1]) => job'[h].status = "completed"
      BY <1>7 DEF OperationJobs
    <3>1. CASE h = g
      BY <1>5, <2>1, <3>1
    <3>2. CASE h # g
      BY <1>4, <3>2 DEF Serving, OperationJobs
    <3> QED
      BY <3>1, <3>2
<1> QED
  BY <1>10, <1>11, <1>12, <1>13 DEF Serving

LEMMA WorkerServing ==
  ASSUME Types, Types', Serving, NEW w \in Workers, WorkerStep(w)
  PROVE  Serving'
<1> USE DEF docVars, jobVars, opVars, workerVars
<1>1. \A e \in Documents : /\ ActiveGen(e) \in Generations /\ ActiveGen(e)[1] = e
                           /\ ActiveGen(e) = <<e, active[e]>>
  BY DEF ActiveGen, Types, TypeOK, Generations
<1>2. ASSUME NEW g \in Generations, Claim(w, g) PROVE Serving'
  <2>1. /\ job[g].status \in {"queued", "running"}
        /\ job' = [job EXCEPT ![g] = Claimed(job[g])]
        /\ UNCHANGED <<docState, active, genState, chunks>>
    BY <1>2 DEF Claim, Claimable
  <2>2. Claimed(job[g]).op = job[g].op
    BY DEF Claimed, Types, TypeOK, Jobs
  <2>3. \A h \in Generations :
          job'[h] = job[h]
          \/ (job'[h].op = job[h].op /\ job[h].status \in {"queued", "running"})
    BY <2>1, <2>2 DEF Types, TypeOK
  <2> QED
    BY <2>1, <2>3, ServingKept
<1>3. CASE Progress(w)
  <2>1. /\ UNCHANGED <<active, genState, chunks, job>>
        /\ \A d \in Documents : docState'[d] = "ready" <=> docState[d] = "ready"
    BY <1>3, ClaimType DEF Progress, Types, TypeOK
  <2> QED
    BY <2>1 DEF Serving, ReadyIsSearchable, OneReadyGeneration, LiveIsNotServed,
                OperationJobs, ActiveGen, Live
<1>4. CASE Stale(w) \/ Crash(w) \/ Restart(w)
  <2>1. UNCHANGED <<docState, active, genState, chunks, job>>
    BY <1>4 DEF Stale, Crash, Restart
  <2> QED
    BY <2>1, ServingKept
<1>5. CASE Backoff(w)
  <2> DEFINE g == claim[w].gen
  <2>1. g \in Generations /\ job[g] \in Jobs /\ job[g].status = "running"
    BY <1>5, ClaimType DEF Backoff, Effective, Matches
  <2>2. \/ job' = job
        \/ job' = [job EXCEPT ![g] = [job[g] EXCEPT !.status = "queued", !.leased = FALSE,
                                                   !.due = FALSE]]
    BY <1>5 DEF Backoff
  <2>3. UNCHANGED <<docState, active, genState, chunks>>
    BY <1>5 DEF Backoff
  <2> HIDE DEF g
  <2>4. job'[g].op = job[g].op /\ \A h \in Generations \ {g} : job'[h] = job[h]
    <3>1. \/ job'[g] = job[g]
          \/ job'[g] = [job[g] EXCEPT !.status = "queued", !.leased = FALSE, !.due = FALSE]
      BY <2>1, <2>2 DEF Types, TypeOK
    <3> QED
      BY <2>1, <2>2, <3>1, JobFields DEF Types, TypeOK
  <2>5. \A h \in Generations :
          job'[h] = job[h] \/ (job'[h].op = job[h].op /\ job[h].status = "running")
    BY <2>1, <2>4
  <2> QED
    BY <2>3, <2>5, ServingKept
<1>6. CASE Commit(w)
  <2>1. claim[w].gen \in Generations
    BY <1>6, ClaimType DEF Commit
  <2> QED
    BY <1>6, <2>1, CommitServing
<1>7. CASE Poison(w)
  <2>1. claim[w].gen \in Generations
    BY <1>7, ClaimType DEF Poison
  <2> QED
    BY <1>7, <2>1, PoisonServing
<1> QED
  BY <1>2, <1>3, <1>4, <1>5, <1>6, <1>7 DEF WorkerStep

-----------------------------------------------------------------------------
(* Lineages.                                                               *)

Lineage == AbsentIsBlank /\ LineageStarted

\* A step keeps Lineage when no operation goes back before its start, and when a
\* job or a served copy appears only where there was one, or for a document that
\* is present and a copy whose operation has started.
LEMMA LineageKept ==
  ASSUME Types, Types', Lineage,
         \A d \in Documents : docState'[d] = "absent" =>
           /\ docState[d] = "absent" /\ serial'[d] = serial[d]
           /\ \A l \in Lineages :
                job'[<<d, l>>].status # "none" => job[<<d, l>>].status # "none",
         \A d \in Documents, o \in Operations :
           active'[d] = o \/ job'[<<d, o>>].status # "none"
             => op'[o].state \notin {"none", "previewed"}
  PROVE  Lineage'
BY DEF Lineage, AbsentIsBlank, LineageStarted

\* An operation that has started stays started.
LEMMA StartedStays ==
  ASSUME Types, [Next]_vars, NEW o \in Operations,
         op[o].state \notin {"none", "previewed"}
  PROVE  op'[o].state \notin {"none", "previewed"}
<1> USE DEF docVars, jobVars, opVars, workerVars
<1>1. op[o] \in OpRecords /\ op \in [Operations -> OpRecords]
  BY DEF Types, TypeOK
<1>2. CASE op' = op
  BY <1>2
<1>3. ASSUME NEW p \in Operations, OperationStep(p)
      PROVE  op'[o].state \notin {"none", "previewed"}
  <2>1. CASE o = p
    <3>1. CASE Retry(o)
      <4>1. op'[o] = [op[o] EXCEPT !.state = "running", !.failed = 0]
        BY <1>1, <3>1 DEF Retry
      <4> QED
        BY <1>1, <4>1 DEF OpRecords
    <3>2. CASE Start(o) \/ PauseCheck(o) \/ PauseApply(o) \/ Resume(o) \/ Cancel(o)
      BY <1>1, <3>2 DEF Start, PauseCheck, PauseApply, Resume, Cancel, OpRecords
    <3> QED
      BY <1>3, <2>1, <3>1, <3>2 DEF OperationStep, Preview
  <2>2. CASE o # p
    <3>1. op'[o] = op[o]
      BY <1>1, <1>3, <2>2
      DEF OperationStep, Preview, Start, PauseCheck, PauseApply, Resume, Cancel, Retry
    <3> QED
      BY <3>1
  <2> QED
    BY <2>1, <2>2
<1>4. ASSUME NEW w \in Workers, Commit(w), op' # op
      PROVE  op'[o].state \notin {"none", "previewed"}
  <2> DEFINE p == job[claim[w].gen].op
             n == op[p].completed + 1
             s == IF n = op[p].total THEN "succeeded" ELSE op[p].state
  <2>1. p # Original /\ op' = [op EXCEPT ![p] = [op[p] EXCEPT !.completed = n, !.state = s]]
    BY <1>4 DEF Commit, Credit
  <2>2. o = p => s \notin {"none", "previewed"}
    OBVIOUS
  <2> HIDE DEF p, n, s
  <2>3. CASE o = p
    <3>1. op'[o] = [op[o] EXCEPT !.completed = n, !.state = s]
      BY <1>1, <2>1, <2>3
    <3>2. op'[o].state = s
      BY <1>1, <3>1 DEF OpRecords
    <3> QED
      BY <2>2, <2>3, <3>2
  <2>4. CASE o # p
    <3>1. op'[o] = op[o]
      BY <1>1, <2>1, <2>4
    <3> QED
      BY <3>1
  <2> QED
    BY <2>3, <2>4
<1>5. ASSUME NEW w \in Workers, Poison(w), op' # op
      PROVE  op'[o].state \notin {"none", "previewed"}
  <2> DEFINE p == job[claim[w].gen].op
             n == op[p].failed + 1
  <2>1. op' = [op EXCEPT ![p] = [op[p] EXCEPT !.state = "failed", !.failed = n]]
    BY <1>5 DEF Poison
  <2> HIDE DEF p, n
  <2>2. CASE o = p
    <3>1. op'[o] = [op[o] EXCEPT !.state = "failed", !.failed = n]
      BY <1>1, <2>1, <2>2
    <3> QED
      BY <1>1, <3>1 DEF OpRecords
  <2>3. CASE o # p
    <3>1. op'[o] = op[o]
      BY <1>1, <2>1, <2>3
    <3> QED
      BY <3>1
  <2> QED
    BY <2>2, <2>3
<1>6. ASSUME op' # op
      PROVE  \/ \E p \in Operations : OperationStep(p)
             \/ \E w \in Workers : Commit(w) \/ Poison(w)
  <2>1. CASE UNCHANGED vars
    BY <1>6, <2>1 DEF vars
  <2>2. CASE \E d \in Documents : DocumentStep(d)
    BY <1>6, <2>2 DEF DocumentStep, Upload, Delete, Requeue
  <2>3. CASE \E g \in Generations : GenerationStep(g)
    BY <1>6, <2>3 DEF GenerationStep, PrepareRequeue, Cleanup, Expire, BecomeDue
  <2>4. CASE \E w \in Workers : WorkerStep(w)
    BY <1>6, <2>4 DEF WorkerStep, Claim, Progress, Stale, Backoff, Crash, Restart
  <2> QED
    BY <2>1, <2>2, <2>3, <2>4 DEF Next
<1> QED
  BY <1>2, <1>3, <1>4, <1>5, <1>6

LEMMA NextLineage ==
  ASSUME Types, Types', Lineage, Serving, [Next]_vars
  PROVE  Lineage'
<1> USE DEF docVars, jobVars, opVars, workerVars
<1>1. /\ docState \in [Documents -> DocStates] /\ active \in [Documents -> Lineages]
      /\ job \in [Generations -> Jobs] /\ serial \in [Documents -> Nat]
      /\ \A d \in Documents, l \in Lineages : <<d, l>> \in Generations
  BY DEF Types, TypeOK, Generations
<1>2. \A d \in Documents, o \in Operations :
        active[d] = o \/ job[<<d, o>>].status # "none"
          => op'[o].state \notin {"none", "previewed"}
  BY StartedStays DEF Lineage, LineageStarted
<1>3. CASE UNCHANGED vars
  BY <1>2, <1>3, LineageKept DEF vars
<1>4. ASSUME NEW d \in Documents, DocumentStep(d) PROVE Lineage'
  <2>1. active' = active /\ docState'[d] # "absent"
    BY <1>1, <1>4 DEF DocumentStep, Upload, Delete, Requeue
  <2>2. ActiveGen(d) = <<d, active[d]>> /\ ActiveGen(d) \in Generations
    BY <1>1 DEF ActiveGen
  <2>3. \A g \in Generations : \/ job'[g] = job[g]
                               \/ job'[g] = NoJob
                               \/ g = <<d, Original>>
                               \/ g = <<d, active[d]>>
    BY <1>1, <1>4, <2>2 DEF DocumentStep, Upload, Delete, Requeue
  <2>4. \A e \in Documents : e # d =>
          /\ docState'[e] = docState[e] /\ serial'[e] = serial[e]
          /\ \A l \in Lineages : job'[<<e, l>>].status # "none" => job[<<e, l>>].status # "none"
    <3>1. \A e \in Documents : e # d => docState'[e] = docState[e] /\ serial'[e] = serial[e]
      BY <1>1, <1>4 DEF DocumentStep, Upload, Delete, Requeue
    <3> QED
      BY <1>1, <2>3, <3>1 DEF NoJob
  <2>5. \A e \in Documents, o \in Operations :
          active'[e] = o \/ job'[<<e, o>>].status # "none"
            => op'[o].state \notin {"none", "previewed"}
    <3> SUFFICES ASSUME NEW e \in Documents, NEW o \in Operations,
                        active'[e] = o \/ job'[<<e, o>>].status # "none"
                 PROVE  op'[o].state \notin {"none", "previewed"}
      OBVIOUS
    <3>1. o \in Lineages /\ <<e, o>> \in Generations
      BY <1>1 DEF Lineages
    <3>2. active[e] = o \/ job[<<e, o>>].status # "none"
      BY <2>1, <2>3, <3>1, IngestionAssumption DEF NoJob
    <3> QED
      BY <1>2, <3>2
  <2> QED
    BY <2>1, <2>4, <2>5, LineageKept
<1>5. ASSUME NEW g \in Generations, GenerationStep(g) PROVE Lineage'
  <2>1. docState' = docState /\ active' = active /\ serial' = serial
    BY <1>5 DEF GenerationStep, PrepareRequeue, Cleanup, Expire, BecomeDue
  <2>2. \A h \in Generations : job'[h].status # "none" => job[h].status # "none"
    BY <1>1, <1>5 DEF GenerationStep, PrepareRequeue, Cleanup, Expire, BecomeDue, NoJob, Jobs
  <2>3. \A d \in Documents, l \in Lineages :
          job'[<<d, l>>].status # "none" => job[<<d, l>>].status # "none"
    BY <1>1, <2>2
  <2> QED
    BY <1>2, <2>1, <2>3, LineageKept DEF Lineages
<1>6. ASSUME NEW o \in Operations, OperationStep(o) PROVE Lineage'
  <2>1. docState' = docState /\ active' = active
    BY <1>6 DEF OperationStep, Preview, Start, PauseCheck, PauseApply, Resume, Cancel, Retry
  <2>2. CASE Start(o)
    <3>1. op'[o].state = "running"
      BY <2>2 DEF Start, Types, TypeOK, OpRecords
    <3>2. \A e \in Documents : docState[e] = "absent" => e \notin Eligible(o)
      BY DEF Eligible
    <3>3. \A e \in Documents : e \notin Eligible(o) =>
            serial'[e] = serial[e] /\ \A l \in Lineages : job'[<<e, l>>] = job[<<e, l>>]
      BY <1>1, <2>2 DEF Start
    <3>4. \A e \in Documents, l \in Lineages : l # o => job'[<<e, l>>] = job[<<e, l>>]
      BY <1>1, <2>2 DEF Start
    <3>5. \A e \in Documents, p \in Operations :
            active'[e] = p \/ job'[<<e, p>>].status # "none"
              => op'[p].state \notin {"none", "previewed"}
      BY <1>2, <2>1, <3>1, <3>4 DEF Lineages
    <3> QED
      BY <2>1, <3>2, <3>3, <3>5, LineageKept
  <2>3. CASE ~Start(o)
    <3>1. serial' = serial
      BY <1>6, <2>3
      DEF OperationStep, Preview, PauseCheck, PauseApply, Resume, Cancel, Retry
    <3>2. \A h \in Generations : job'[h].status # "none" => job[h].status # "none"
      BY <1>6, <2>3 DEF OperationStep, Preview, PauseCheck, PauseApply, Resume, Cancel,
                        Retry, Retried, NoJob
    <3>3. \A d \in Documents, l \in Lineages :
            job'[<<d, l>>].status # "none" => job[<<d, l>>].status # "none"
      BY <1>1, <3>2
    <3> QED
      BY <1>2, <2>1, <3>1, <3>3, LineageKept DEF Lineages
  <2> QED
    BY <2>2, <2>3
<1>7. ASSUME NEW w \in Workers, WorkerStep(w) PROVE Lineage'
  <2>1. serial' = serial
    BY <1>7 DEF WorkerStep, Claim, Progress, Stale, Commit, Backoff, Poison, Crash, Restart
  <2>2. \A h \in Generations : job'[h].status # "none" => job[h].status # "none"
    <3>1. ASSUME NEW g \in Generations, Claim(w, g)
          PROVE  \A h \in Generations : job'[h].status # "none" => job[h].status # "none"
      BY <1>1, <3>1 DEF Claim, Claimable
    <3>2. ASSUME Commit(w) \/ Backoff(w) \/ Poison(w)
          PROVE  \A h \in Generations : job'[h].status # "none" => job[h].status # "none"
      <4>1. claim[w].gen \in Generations /\ job[claim[w].gen].status = "running"
        BY <3>2, ClaimType DEF Commit, Backoff, Poison, Effective, Matches
      <4>2. \A h \in Generations : h # claim[w].gen => job'[h] = job[h]
        BY <1>1, <3>2 DEF Commit, Backoff, Poison
      <4> QED
        BY <4>1, <4>2
    <3> QED
      BY <1>7, <3>1, <3>2 DEF WorkerStep, Progress, Stale, Crash, Restart
  <2>3. \A d \in Documents, l \in Lineages :
          job'[<<d, l>>].status # "none" => job[<<d, l>>].status # "none"
    BY <1>1, <2>2
  <2>4. \A d \in Documents : docState'[d] = "absent" => docState[d] = "absent"
    BY <1>1, <1>7 DEF WorkerStep, Claim, Progress, Stale, Commit, Backoff, Poison,
                      PoisonedDoc, Crash, Restart
  <2>5. \A d \in Documents : \/ active'[d] = active[d]
                             \/ job[<<d, active'[d]>>].status # "none"
    <3>1. CASE Commit(w)
      <4>1. /\ claim[w].gen \in Generations /\ job[claim[w].gen].status = "running"
            /\ claim[w].gen = <<claim[w].gen[1], claim[w].gen[2]>>
            /\ claim[w].gen[1] \in Documents
        BY <3>1, ClaimType DEF Commit, Effective, Matches
      <4> QED
        BY <1>1, <3>1, <4>1 DEF Commit
    <3>2. CASE ~Commit(w)
      BY <1>7, <3>2 DEF WorkerStep, Claim, Progress, Stale, Backoff, Poison, Crash, Restart
    <3> QED
      BY <3>1, <3>2
  <2>6. \A d \in Documents, o \in Operations :
          active'[d] = o \/ job'[<<d, o>>].status # "none"
            => op'[o].state \notin {"none", "previewed"}
    BY <1>2, <2>3, <2>5 DEF Lineages
  <2> QED
    BY <2>1, <2>3, <2>4, <2>6, LineageKept
<1> QED
  BY <1>3, <1>4, <1>5, <1>6, <1>7 DEF Next

-----------------------------------------------------------------------------
(* The invariant is inductive, and what follows from it.                   *)

Inv == Types /\ Fencing /\ Serving /\ Lineage

LEMMA InitInv == Init => Inv
<1> SUFFICES ASSUME Init PROVE Inv
  OBVIOUS
<1>1. Types
  BY InitTypes
<1>2. \A g \in Generations : job[g] = NoJob /\ g[1] \in Documents
  BY DEF Init, Generations
<1>3. Fencing
  BY <1>2 DEF Init, Fencing, JobIdsDrawn, ClaimsBehindJobs, ClaimsDistinct, NoJob
<1>4. \A d \in Documents : ActiveGen(d) \in Generations
  BY <1>1 DEF ActiveGen, Types, TypeOK, Generations
<1>5. Serving
  BY <1>2, <1>4 DEF Init, Serving, ReadyIsSearchable, OneReadyGeneration, LiveIsNotServed,
                    OperationJobs, Live, NoJob
<1>6. \A d \in Documents, l \in Lineages : <<d, l>> \in Generations
  BY DEF Generations
<1>7. Lineage
  BY <1>2, <1>6, IngestionAssumption
  DEF Init, Lineage, AbsentIsBlank, LineageStarted, NoJob, Lineages
<1> QED
  BY <1>1, <1>3, <1>5, <1>7 DEF Inv

LEMMA NextInv == Inv /\ [Next]_vars => Inv'
<1> SUFFICES ASSUME Inv, [Next]_vars PROVE Inv'
  OBVIOUS
<1>1. Types /\ Types'
  BY NextTypes DEF Inv
<1>2. Lineage'
  BY <1>1, NextLineage DEF Inv
<1>3. CASE UNCHANGED vars
  <2>1. Fencing'
    BY <1>3 DEF Inv, Fencing, JobIdsDrawn, ClaimsBehindJobs, ClaimsDistinct, vars,
                jobVars, workerVars
  <2>2. Serving'
    BY <1>1, <1>3, ServingKept DEF Inv, vars, docVars, jobVars
  <2> QED
    BY <1>1, <1>2, <2>1, <2>2 DEF Inv
<1>4. CASE Next
  <2>1. Fencing'
    BY <1>1, <1>4, DocumentFencing, OperationFencing, GenerationFencing, WorkerFencing
    DEF Next, Inv, Lineage
  <2>2. Serving'
    BY <1>1, <1>4, DocumentServing, OperationServing, GenerationServing, WorkerServing
    DEF Next, Inv
  <2> QED
    BY <1>1, <1>2, <2>1, <2>2 DEF Inv
<1> QED
  BY <1>3, <1>4

\* Inv in every reachable state.
THEOREM Invariance == Spec => []Inv
BY InitInv, NextInv, PTL DEF Spec

LEMMA OneEffective == Inv => OneEffectiveClaim
<1> SUFFICES ASSUME Inv, NEW v \in Workers, NEW w \in Workers,
                    phase[v] = "busy", Matches(claim[v]),
                    phase[w] = "busy", Matches(claim[w]),
                    claim[v].gen = claim[w].gen
             PROVE  v = w
  BY DEF OneEffectiveClaim
<1>1. claim[v] \in Claims /\ claim[w] \in Claims
  BY ClaimType DEF Inv
<1>2. claim[v] = claim[w]
  BY <1>1 DEF Matches, Claims
<1> QED
  BY <1>2 DEF Inv, Fencing, ClaimsDistinct

\* Fencing: whatever expires, crashes or is suspended, the database accepts at most
\* one worker's claim on a job at any time.
THEOREM FencingSafe == Spec => []OneEffectiveClaim
BY Invariance, OneEffective, PTL

\* What is served: a ready document's active generation is ready and stored, and no
\* other generation of it is ready, through rebuilds, retries, requeues, cleanups and
\* deletions.
THEOREM ServedCopySafe == Spec => [](ReadyIsSearchable /\ OneReadyGeneration)
<1>1. Inv => ReadyIsSearchable /\ OneReadyGeneration
  BY DEF Inv, Serving
<1> QED
  BY Invariance, <1>1, PTL

-----------------------------------------------------------------------------
(* Action properties.                                                      *)

LEMMA SupersededStep ==
  ASSUME Inv, [Next]_vars, NEW w \in Workers, phase[w] = "busy", claim'[w] # claim[w],
         ~(Matches(claim[w]) /\ job[claim[w].gen].leased)
  PROVE  UNCHANGED <<docVars, job, op>>
<1> USE DEF docVars, jobVars, opVars, workerVars
<1>1. ~Effective(claim[w])
  BY DEF Effective
<1>2. PICK v \in Workers : WorkerStep(v)
  BY DEF Next, vars, DocumentStep, Upload, Delete, Requeue, GenerationStep, PrepareRequeue,
         Cleanup, Expire, BecomeDue, OperationStep, Preview, Start, PauseCheck, PauseApply,
         Resume, Cancel, Retry
<1>3. v = w
  BY <1>2 DEF WorkerStep, Claim, Progress, Stale, Commit, Backoff, Poison, Crash, Restart,
              Drop, Inv, Types, TypeOK
<1> QED
  BY <1>1, <1>2, <1>3
  DEF WorkerStep, Claim, Progress, Stale, Commit, Backoff, Poison, Crash, Restart

\* A worker the database no longer listens to changes nothing that is stored when it
\* lets go of its claim.
THEOREM SupersededSafe == Spec => SupersededWorkerIsHarmless
<1>1. Inv /\ [Next]_vars =>
        [\A w \in Workers :
           /\ phase[w] = "busy" /\ claim'[w] # claim[w]
           /\ ~(Matches(claim[w]) /\ job[claim[w].gen].leased)
           => UNCHANGED <<docVars, job, op>>]_vars
  BY SupersededStep
<1> QED
  BY Invariance, <1>1, PTL DEF Spec, SupersededWorkerIsHarmless

LEMMA DegradeStep ==
  ASSUME Inv, [Next]_vars, NEW d \in Documents, docState[d] = "ready", docState'[d] # "ready"
  PROVE  docState'[d] = "deleted" \/ serial'[d] = serial[d] + 1
<1> USE DEF docVars, jobVars, opVars, workerVars
<1>1. docState \in [Documents -> DocStates] /\ serial \in [Documents -> Nat]
  BY DEF Inv, Types, TypeOK
<1>2. docState' # docState
  OBVIOUS
<1>3. CASE \E e \in Documents : DocumentStep(e)
  BY <1>1, <1>3 DEF DocumentStep, Upload, Delete, Requeue
<1>4. CASE \E w \in Workers : WorkerStep(w)
  BY <1>1, <1>2, <1>4 DEF WorkerStep, Claim, Progress, Stale, Commit, Backoff, Poison,
                          PoisonedDoc, Crash, Restart
<1>5. CASE \E g \in Generations : GenerationStep(g)
  BY <1>2, <1>5 DEF GenerationStep, PrepareRequeue, Cleanup, Expire, BecomeDue
<1>6. CASE \E o \in Operations : OperationStep(o)
  BY <1>2, <1>6
  DEF OperationStep, Preview, Start, PauseCheck, PauseApply, Resume, Cancel, Retry
<1> QED
  BY <1>2, <1>3, <1>4, <1>5, <1>6 DEF Next, vars

\* Only deletion and the maintenance requeue take a ready document out of search.
THEOREM ReadySafe == Spec => ReadyNeverDegrades
<1>1. Inv /\ [Next]_vars =>
        [\A d \in Documents :
           docState[d] = "ready" /\ docState'[d] # "ready"
             => docState'[d] = "deleted" \/ serial'[d] = serial[d] + 1]_vars
  BY DegradeStep
<1> QED
  BY Invariance, <1>1, PTL DEF Spec, ReadyNeverDegrades

LEMMA ReplaceStep ==
  ASSUME Inv, [Next]_vars, NEW g \in Generations, Live(g), job'[g].status # "none"
  PROVE  job'[g].id = job[g].id
<1> USE DEF docVars, jobVars, opVars, workerVars
<1>1. /\ job \in [Generations -> Jobs] /\ job[g] \in Jobs
      /\ g[1] \in Documents /\ g[2] \in Lineages /\ g = <<g[1], g[2]>>
      /\ active \in [Documents -> Lineages]
  BY DEF Inv, Types, TypeOK, Generations
<1>2. job[g].status \in {"queued", "running"}
  BY DEF Live
<1>3. CASE UNCHANGED vars
  BY <1>3 DEF vars
<1>4. ASSUME NEW d \in Documents, DocumentStep(d) PROVE job'[g].id = job[g].id
  <2>1. CASE Upload(d)
    <3>1. job[<<d, Original>>].status = "none"
      BY <2>1 DEF Upload, Inv, Lineage, AbsentIsBlank, Lineages
    <3>2. g # <<d, Original>>
      BY <1>2, <3>1
    <3>3. job'[g] = job[g]
      BY <1>1, <2>1, <3>2 DEF Upload
    <3> QED
      BY <3>3
  <2>2. CASE Delete(d)
    <3>1. job'[g] = job[g] \/ job'[g] = NoJob
      BY <2>2 DEF Delete
    <3> QED
      BY <3>1 DEF NoJob
  <2>3. CASE Requeue(d)
    <3>1. g[1] # d
      BY <2>3 DEF Requeue, RequeueAllowed, GensOf, Live
    <3>2. g # ActiveGen(d)
      BY <3>1 DEF ActiveGen
    <3>3. job'[g] = job[g]
      BY <1>1, <2>3, <3>2 DEF Requeue
    <3> QED
      BY <3>3
  <2> QED
    BY <1>4, <2>1, <2>2, <2>3 DEF DocumentStep
<1>5. ASSUME NEW h \in Generations, GenerationStep(h) PROVE job'[g].id = job[g].id
  BY <1>1, <1>5 DEF GenerationStep, PrepareRequeue, Cleanup, Expire, BecomeDue, NoJob, Jobs
<1>6. ASSUME NEW o \in Operations, OperationStep(o) PROVE job'[g].id = job[g].id
  <2>1. CASE Start(o)
    <3>1. g[2] # o
      BY <1>1, <1>2, <2>1 DEF Start, Inv, Lineage, LineageStarted
    <3>2. job'[g] = job[g]
      BY <2>1, <3>1 DEF Start
    <3> QED
      BY <3>2
  <2>2. CASE Cancel(o)
    <3>1. job'[g] = job[g] \/ job'[g] = NoJob
      BY <2>2 DEF Cancel
    <3> QED
      BY <3>1 DEF NoJob
  <2>3. CASE Retry(o)
    <3>1. \/ job'[g] = job[g]
          \/ job'[g] = [job[g] EXCEPT !.status = "queued", !.due = TRUE, !.leased = FALSE]
      BY <2>3 DEF Retry
    <3> QED
      BY <1>1, <3>1, JobFields
  <2> QED
    BY <1>6, <2>1, <2>2, <2>3
    DEF OperationStep, Preview, PauseCheck, PauseApply, Resume
<1>7. ASSUME NEW w \in Workers, WorkerStep(w) PROVE job'[g].id = job[g].id
  <2>1. ASSUME NEW h \in Generations, Claim(w, h) PROVE job'[g].id = job[g].id
    <3>1. job'[g] = job[g] \/ job'[g] = Claimed(job[g])
      BY <1>1, <2>1 DEF Claim
    <3> QED
      BY <1>1, <3>1 DEF Claimed, Jobs
  <2>2. CASE Commit(w) \/ Backoff(w) \/ Poison(w)
    <3>1. \/ job'[g] = job[g]
          \/ job'[g] = [job[g] EXCEPT !.status = "completed", !.leased = FALSE]
          \/ job'[g] = [job[g] EXCEPT !.status = "failed", !.leased = FALSE]
          \/ job'[g] = [job[g] EXCEPT !.status = "queued", !.leased = FALSE, !.due = FALSE]
      BY <1>1, <2>2 DEF Commit, Backoff, Poison
    <3> QED
      BY <1>1, <3>1, JobFields
  <2> QED
    BY <1>7, <2>1, <2>2 DEF WorkerStep, Progress, Stale, Crash, Restart
<1> QED
  BY <1>3, <1>4, <1>5, <1>6, <1>7 DEF Next

\* A job that is waiting or being worked on is never replaced by another one.
THEOREM LiveJobSafe == Spec => LiveJobNeverReplaced
<1>1. Inv /\ [Next]_vars =>
        [\A g \in Generations :
           Live(g) /\ job'[g].status # "none" => job'[g].id = job[g].id]_vars
  BY ReplaceStep
<1> QED
  BY Invariance, <1>1, PTL DEF Spec, LiveJobNeverReplaced

-----------------------------------------------------------------------------
(* The supervisor.                                                         *)

LEMMA LeastNatural ==
  ASSUME NEW N \in SUBSET Nat, N # {} PROVE \E n \in N : \A m \in N : n <= m
<1>1. \E n \in N : \A m \in N : <<m, n>> \notin OpToRel(<, Nat)
  BY NatLessThanWellFounded, WFMin
<1>2. PICK n \in N : \A m \in N : <<m, n>> \notin OpToRel(<, Nat)
  BY <1>1
<1>3. ASSUME NEW m \in N PROVE n <= m
  <2>1. <<m, n>> \notin {q \in Nat \X Nat : q[1] < q[2]}
    BY <1>2 DEF OpToRel
  <2> QED
    BY <2>1
<1> QED
  BY <1>2, <1>3

LEMMA RoundFacts ==
  \E n \in Nat :
         /\ Round \in [Services -> 1 .. n]
         /\ NameRank \in [Services -> 1 .. n]
         /\ \A s, t \in Services : NameRank[s] = NameRank[t] => s = t
         /\ \A s \in Services : /\ Dependencies[s] \subseteq Services
                                /\ \A t \in Dependencies[s] : Round[t] < Round[s]
<1>3. PICK n \in Nat : n = Cardinality(Services)
  BY FS_CardinalityType, GraphAssumption
<1>4. Round \in Rounds /\ AreRounds(Round)
  BY DependenciesAssumption DEF ValidDependencies, Round
<1>5. Round \in [Services -> 1 .. n] /\ NameRank \in [Services -> 1 .. n]
  BY <1>3, <1>4, GraphAssumption DEF Rounds
<1>6. ASSUME NEW s \in Services
      PROVE  /\ Dependencies[s] \subseteq Services
             /\ \A t \in Dependencies[s] : Round[t] < Round[s]
  <2>1. Dependencies[s] \subseteq Services
    BY GraphAssumption
  <2>2. PICK r \in 1 .. n : r = Round[s]
    BY <1>5
  <2>3. {u \in Services : Round[u] = r} = ReadyServices({u \in Services : Round[u] >= r})
    BY <1>3, <1>4, <2>2 DEF AreRounds
  <2>4. Dependencies[s] \cap {u \in Services : Round[u] >= r} = {}
    BY <2>2, <2>3 DEF ReadyServices
  <2>5. ASSUME NEW t \in Dependencies[s] PROVE Round[t] < r
    BY <1>5, <2>1, <2>4
  <2> QED
    BY <2>1, <2>2, <2>5
<1>7. \A s, t \in Services : NameRank[s] = NameRank[t] => s = t
  BY GraphAssumption
<1> QED
  BY <1>5, <1>6, <1>7

LEMMA FirstService ==
  ASSUME NEW T \in SUBSET Services, T # {}
  PROVE  \E s \in T : \A t \in T : t = s \/ Before(s, t)
<1>1. PICK n \in Nat : /\ Round \in [Services -> 1 .. n] /\ NameRank \in [Services -> 1 .. n]
                       /\ \A s, t \in Services : NameRank[s] = NameRank[t] => s = t
  BY RoundFacts
<1>2. PICK r \in {Round[s] : s \in T} : \A q \in {Round[s] : s \in T} : r <= q
  <2>1. {Round[s] : s \in T} \in SUBSET Nat /\ {Round[s] : s \in T} # {}
    BY <1>1
  <2> QED
    BY <2>1, LeastNatural
<1> DEFINE L == {s \in T : Round[s] = r}
<1>3. PICK k \in {NameRank[s] : s \in L} : \A q \in {NameRank[s] : s \in L} : k <= q
  <2>1. {NameRank[s] : s \in L} \in SUBSET Nat /\ {NameRank[s] : s \in L} # {}
    BY <1>1, <1>2
  <2> QED
    BY <2>1, LeastNatural
<1>4. PICK s \in L : NameRank[s] = k
  BY <1>3
<1>5. ASSUME NEW t \in T, t # s PROVE Before(s, t)
  <2>1. Round[t] \in Nat /\ NameRank[t] \in Nat /\ r \in Nat /\ k \in Nat /\ r <= Round[t]
    BY <1>1, <1>2, <1>3
  <2>2. Round[t] = r => k <= NameRank[t]
    BY <1>3
  <2>3. k # NameRank[t]
    BY <1>1, <1>4, <1>5
  <2> QED
    BY <1>4, <2>1, <2>2, <2>3 DEF Before
<1> QED
  BY <1>4, <1>5

LEMMA LastService ==
  ASSUME NEW T \in SUBSET Services, T # {}
  PROVE  \E s \in T : \A t \in T : t = s \/ Before(t, s)
<1>1. PICK n \in Nat : /\ Round \in [Services -> 1 .. n] /\ NameRank \in [Services -> 1 .. n]
                       /\ \A s, t \in Services : NameRank[s] = NameRank[t] => s = t
  BY RoundFacts
<1>2. PICK r \in {n - Round[s] : s \in T} : \A q \in {n - Round[s] : s \in T} : r <= q
  <2>1. {n - Round[s] : s \in T} \in SUBSET Nat /\ {n - Round[s] : s \in T} # {}
    BY <1>1
  <2> QED
    BY <2>1, LeastNatural
<1> DEFINE L == {s \in T : n - Round[s] = r}
<1>3. PICK k \in {n - NameRank[s] : s \in L} : \A q \in {n - NameRank[s] : s \in L} : k <= q
  <2>1. {n - NameRank[s] : s \in L} \in SUBSET Nat /\ {n - NameRank[s] : s \in L} # {}
    BY <1>1, <1>2
  <2> QED
    BY <2>1, LeastNatural
<1>4. PICK s \in L : n - NameRank[s] = k
  BY <1>3
<1>5. ASSUME NEW t \in T, t # s PROVE Before(t, s)
  <2>1. /\ Round[t] \in Nat /\ NameRank[t] \in Nat /\ Round[s] \in Nat /\ NameRank[s] \in Nat
        /\ n - Round[s] <= n - Round[t]
    BY <1>1, <1>2, <1>4
  <2>2. Round[t] = Round[s] => n - NameRank[s] <= n - NameRank[t]
    BY <1>3, <1>4
  <2>3. NameRank[s] # NameRank[t]
    BY <1>1, <1>4, <1>5
  <2> QED
    BY <2>1, <2>2, <2>3 DEF Before
<1> QED
  BY <1>4, <1>5

-----------------------------------------------------------------------------
(* The inductive invariant of the supervisor.                               *)

WithChild == {"created", "awaiting", "abort"}
Starting == WithChild \cup {"start", "validated"}
WithJob == Starting \cup {"cascade", "sleep", "monitor", "closejob"}
WithMutex == WithJob \cup {"opening", "closemutex"}
Places == WithMutex \cup {"final", "reap"} \cup Gone

Processes == {Free} \cup [state : {"suspended", "running", "dead"}, svc : Services,
                            by : Instances, job : BOOLEAN, serves : BOOLEAN, bound : BOOLEAN]
SupervisorTypes ==
  /\ pc \in [Instances -> Places]
  /\ jobs \subseteq Instances
  /\ children \in [Pids -> Processes]
  /\ processes \in [Instances -> [Services -> Pids \cup {0}]]
  /\ child \in [Instances -> Pids \cup {0}]
  /\ retained \in [Instances -> SUBSET Pids]

\* The named objects of Windows belong to the instance that is inside them.
Holding ==
  /\ \A i \in Instances : /\ pc[i] \in WithMutex => mutex = i
                          /\ pc[i] \in WithJob => i \in jobs
  /\ \A i \in jobs : pc[i] \in WithJob \cup {"crashed"}

Owned(i, p) == children[p] # Free /\ children[p].by = i

\* What an instance knows of its processes: all are its own and not yet
\* closed, each is known once, and the map holds an initial part of the order.
Knows(i) ==
  /\ child[i] # 0 <=> pc[i] \in WithChild
  /\ child[i] # 0 => /\ Owned(i, child[i]) /\ child[i] \notin retained[i]
                     /\ children[child[i]].svc = Current(i)
  /\ \A s \in Registered(i) : /\ Owned(i, processes[i][s])
                              /\ children[processes[i][s]].svc = s
                              /\ processes[i][s] \notin retained[i]
  /\ \A p \in retained[i] : Owned(i, p)
  /\ pc[i] \in Gone => retained[i] = {}
Ordered(i) ==
  /\ pc[i] \in Starting => Registered(i) # Services
  /\ \A s \in Registered(i), t \in Services : Before(t, s) => t \in Registered(i)
  /\ pc[i] \in Gone \cup {"opening", "sleep", "reap"} => Registered(i) = {}

NoneCrashed == \A j \in Instances : pc[j] # "crashed"

\* What runs is in a job that somebody keeps open.
Reign ==
  \A p \in Pids : Running(p) =>
    /\ children[p].job /\ jobs # {} /\ (NoneCrashed => mutex = children[p].by)

\* A port has one holder, and the process that the map has for a listening
\* service holds its port as long as it runs.
PortsHeld ==
  /\ \A p \in Pids, q \in Pids, s \in Services : HoldsPort(p, s) /\ HoldsPort(q, s) => p = q
  /\ \A i \in Instances, s \in Listening :
       processes[i][s] # 0 /\ Running(processes[i][s]) => HoldsPort(processes[i][s], s)

SupervisorInv == /\ SupervisorTypes /\ Holding /\ Reign
                 /\ \A i \in Instances : Knows(i) /\ Ordered(i)
                 /\ PortsHeld

LEMMA SupervisorInitially ==
  ASSUME SupervisorInit PROVE SupervisorInv
<1>1. /\ pc = [i \in Instances |-> "idle"] /\ jobs = {}
      /\ children = [p \in Pids |-> Free]
      /\ processes = [i \in Instances |-> [s \in Services |-> 0]]
      /\ child = [i \in Instances |-> 0] /\ retained = [i \in Instances |-> {}]
  BY DEF SupervisorInit
<1>2. SupervisorTypes
  BY <1>1 DEF SupervisorTypes, Places, Gone, Processes
<1>3. Holding
  BY <1>1 DEF Holding, WithMutex, WithJob, Starting, WithChild
<1>4. \A i \in Instances : Registered(i) = {}
  BY <1>1 DEF Registered
<1>5. ASSUME NEW i \in Instances PROVE Knows(i) /\ Ordered(i)
  <2>1. pc[i] = "idle" /\ child[i] = 0 /\ retained[i] = {}
    BY <1>1
  <2> QED
    BY <1>4, <2>1 DEF Knows, Ordered, Starting, WithChild
<1>6. \A p \in Pids : ~Running(p)
  BY <1>1 DEF Running, Free
<1>7. Reign /\ PortsHeld
  <2>1. Reign
    BY <1>6 DEF Reign
  <2>2. PortsHeld
    BY <1>1, <1>6, GraphAssumption DEF PortsHeld, HoldsPort
  <2> QED
    BY <2>1, <2>2
<1> QED
  BY <1>2, <1>3, <1>5, <1>7 DEF SupervisorInv

ProcessesKept(j) ==
  \A p \in Pids : Owned(j, p) => /\ children'[p] # Free /\ children'[p].by = j
                                 /\ children'[p].svc = children[p].svc
NothingStarts ==
  \A p \in Pids : Running(p)' =>
    /\ Running(p) /\ children'[p].by = children[p].by /\ children'[p].svc = children[p].svc
    /\ children'[p].serves = children[p].serves /\ children'[p].bound = children[p].bound
    /\ (children[p].job => children'[p].job)

LEMMA OrderKept ==
  ASSUME NEW i, processes'[i] = processes[i]
  PROVE  Registered(i)' = Registered(i) /\ Current(i)' = Current(i)
<1>1. Registered(i)' = Registered(i)
  BY DEF Registered
<1> QED
  BY <1>1 DEF Current

LEMMA OthersKnow ==
  ASSUME SupervisorTypes, NEW j \in Instances, Knows(j), Ordered(j),
         pc'[j] = pc[j], child'[j] = child[j], processes'[j] = processes[j],
         retained'[j] = retained[j],
         pc[j] \notin Gone => ProcessesKept(j)
  PROVE  Knows(j)' /\ Ordered(j)'
<1>1. Registered(j)' = Registered(j) /\ Current(j)' = Current(j)
  BY OrderKept
<1>2. Ordered(j)'
  BY <1>1 DEF Ordered
<1>3. CASE pc[j] \in Gone
  <2>1. child[j] = 0 /\ retained[j] = {} /\ Registered(j) = {}
    BY <1>3 DEF Knows, Ordered, Gone, WithChild
  <2> QED
    BY <1>1, <1>2, <2>1 DEF Knows
<1>4. CASE pc[j] \notin Gone
  <2>1. \A p \in Pids : Owned(j, p) => Owned(j, p)' /\ children'[p].svc = children[p].svc
    BY <1>4 DEF ProcessesKept, Owned
  <2>2. \A s \in Registered(j) : processes[j][s] \in Pids
    BY DEF Registered, SupervisorTypes
  <2>3. child[j] # 0 => child[j] \in Pids
    BY DEF SupervisorTypes
  <2>4. retained[j] \subseteq Pids
    BY DEF SupervisorTypes
  <2>5. (child[j] # 0 <=> pc[j] \in WithChild)'
    BY DEF Knows
  <2>6. child[j] # 0 => /\ Owned(j, child[j])' /\ children'[child[j]].svc = Current(j)
                        /\ child[j] \notin retained[j]
    BY <2>1, <2>3 DEF Knows
  <2>7. \A s \in Registered(j) : /\ Owned(j, processes[j][s])' /\ children'[processes[j][s]].svc = s
                                 /\ processes[j][s] \notin retained[j]
    BY <2>1, <2>2 DEF Knows
  <2>8. \A p \in retained[j] : Owned(j, p)'
    BY <2>1, <2>4 DEF Knows
  <2> QED
    BY <1>1, <1>2, <1>4, <2>5, <2>6, <2>7, <2>8 DEF Knows, Owned
<1> QED
  BY <1>3, <1>4

\* No process is started and none binds a port: the ports keep their holders.
LEMMA PortsStay ==
  ASSUME SupervisorInv, NothingStarts,
         \A i \in Instances, s \in Services : processes'[i][s] \in {processes[i][s], 0}
  PROVE  PortsHeld'
<1>1. \A p \in Pids : Running(p)' => /\ Running(p) /\ children'[p].svc = children[p].svc
                                     /\ children'[p].bound = children[p].bound
  BY DEF NothingStarts
<1>2. ASSUME NEW p \in Pids, NEW q \in Pids, NEW s \in Services, HoldsPort(p, s)', HoldsPort(q, s)'
      PROVE  p = q
  <2>1. HoldsPort(p, s) /\ HoldsPort(q, s)
    BY <1>1, <1>2 DEF HoldsPort
  <2> QED
    BY <2>1 DEF SupervisorInv, PortsHeld
<1>3. ASSUME NEW i \in Instances, NEW s \in Listening,
             processes'[i][s] # 0, Running(processes[i][s])'
      PROVE  processes'[i][s] = processes[i][s] /\ HoldsPort(processes[i][s], s)'
  <2>1. s \in Services
    BY GraphAssumption
  <2>2. processes'[i][s] = processes[i][s] /\ processes[i][s] # 0
    BY <1>3, <2>1
  <2>3. processes[i][s] \in Pids
    BY <2>1, <2>2 DEF SupervisorInv, SupervisorTypes
  <2>4. HoldsPort(processes[i][s], s)
    BY <1>1, <1>3, <2>2, <2>3 DEF SupervisorInv, PortsHeld
  <2> QED
    BY <1>1, <1>3, <2>2, <2>3, <2>4 DEF HoldsPort, Running
<1>4. \A i \in Instances, s \in Listening :
        processes'[i][s] # 0 => processes'[i][s] = processes[i][s]
  BY GraphAssumption
<1> QED
  BY <1>2, <1>3, <1>4 DEF PortsHeld, HoldsPort, Running

LEMMA ReignStays ==
  ASSUME SupervisorInv, NothingStarts, NoneCrashed' => NoneCrashed,
         UNCHANGED <<mutex, jobs>>
  PROVE  Reign'
  BY DEF SupervisorInv, Reign, NothingStarts, Running

LEMMA HoldingStays ==
  ASSUME SupervisorTypes, Holding, NEW i \in Instances, NEW b \in Places,
         pc' = [pc EXCEPT ![i] = b], UNCHANGED <<mutex, jobs>>,
         b \in WithMutex => pc[i] \in WithMutex,
         b \in WithJob => pc[i] \in WithJob,
         pc[i] \in WithJob \cup {"crashed"} => b \in WithJob \cup {"crashed"}
  PROVE  Holding'
  BY DEF SupervisorTypes, Holding

\* A step of instance i inside its objects: what the others know stays.
LEMMA LocalStep ==
  ASSUME SupervisorInv, NEW i \in Instances, NEW b \in Places,
         pc' = [pc EXCEPT ![i] = b], UNCHANGED <<mutex, jobs>>,
         b \in WithMutex => pc[i] \in WithMutex, b \in WithJob <=> pc[i] \in WithJob,
         b = "crashed" <=> pc[i] = "crashed",
         SupervisorTypes', NothingStarts,
         \A j \in Instances \ {i} :
           /\ child'[j] = child[j] /\ processes'[j] = processes[j] /\ retained'[j] = retained[j]
           /\ pc[j] \notin Gone => ProcessesKept(j),
         \A s \in Services : processes'[i][s] \in {processes[i][s], 0},
         Knows(i)', Ordered(i)'
  PROVE  SupervisorInv'
<1>0. SupervisorTypes
  BY DEF SupervisorInv
<1>1. NoneCrashed' => NoneCrashed
  BY <1>0 DEF NoneCrashed, SupervisorTypes
<1>2. Holding'
  BY HoldingStays DEF SupervisorInv
<1>3. Reign'
  BY <1>1, ReignStays
<1>4. PortsHeld'
  <2>1. \A j \in Instances, s \in Services : processes'[j][s] \in {processes[j][s], 0}
    OBVIOUS
  <2> QED
    BY <1>1, <2>1, PortsStay
<1>5. ASSUME NEW j \in Instances \ {i} PROVE Knows(j)' /\ Ordered(j)'
  <2>1. pc'[j] = pc[j]
    BY <1>0 DEF SupervisorTypes
  <2>2. Knows(j) /\ Ordered(j)
    BY DEF SupervisorInv
  <2> QED
    BY <1>0, <2>1, <2>2, OthersKnow
<1> QED
  BY <1>2, <1>3, <1>4, <1>5 DEF SupervisorInv

\* Only the place of instance i changes.
LEMMA Moves ==
  ASSUME SupervisorInv, NEW i \in Instances, NEW b \in Places,
         pc' = [pc EXCEPT ![i] = b],
         UNCHANGED <<mutex, jobs, children, processes, child, retained>>,
         b \in WithMutex => pc[i] \in WithMutex, b \in WithJob <=> pc[i] \in WithJob,
         b # "crashed", pc[i] # "crashed",
         b \in WithChild <=> pc[i] \in WithChild,
         b \in Gone => retained[i] = {},
         b \in Starting => Registered(i) # Services,
         b \in Gone \cup {"opening", "sleep", "reap"} => Registered(i) = {}
  PROVE  SupervisorInv'
<1>0. SupervisorTypes /\ Knows(i) /\ Ordered(i)
  BY DEF SupervisorInv
<1>1. SupervisorTypes' /\ pc'[i] = b
  BY <1>0 DEF SupervisorTypes
<1>2. NothingStarts /\ \A j \in Instances : ProcessesKept(j)
  BY DEF NothingStarts, ProcessesKept, Owned, Running
<1>3. Registered(i)' = Registered(i) /\ Current(i)' = Current(i)
  BY OrderKept
<1>4. Ordered(i)'
  BY <1>0, <1>1, <1>3 DEF Ordered
<1>5. Knows(i)'
  BY <1>0, <1>1, <1>3 DEF Knows, Owned
<1> QED
  BY <1>1, <1>2, <1>4, <1>5, LocalStep

LEMMA SupervisorMoves ==
  ASSUME SupervisorInv, NEW i \in Instances,
         \/ PrepareFails(i) \/ NotReady(i) \/ CascadeEnd(i) \/ Wake(i)
         \/ DetectExit(i) \/ Interrupt(i) \/ JobFails(i) \/ FinalEnd(i)
  PROVE  SupervisorInv'
<1>0. Ordered(i) /\ Knows(i) /\ Services # {}
  BY GraphAssumption DEF SupervisorInv
<1> USE DEF Places, WithMutex, WithJob, Starting, WithChild, Gone
<1>1. ASSUME NEW b \in Places, Goto(i, b)
      PROVE  pc' = [pc EXCEPT ![i] = b]
  BY <1>1 DEF Goto
<1>2. CASE PrepareFails(i)
  BY <1>2, Moves DEF PrepareFails, StartupFailed, Goto, handles
<1>3. CASE NotReady(i)
  BY <1>0, <1>3, Moves DEF NotReady, Goto, handles, Ordered
<1>4. CASE CascadeEnd(i)
  <2>1. PICK b \in {"closejob", "sleep"} : pc' = [pc EXCEPT ![i] = b]
    BY <1>4 DEF CascadeEnd, Goto
  <2>2. /\ pc[i] = "cascade" /\ Registered(i) = {}
        /\ UNCHANGED <<mutex, jobs, children, processes, child, retained>>
    BY <1>4 DEF CascadeEnd, handles
  <2> QED
    BY <2>1, <2>2, Moves
<1>5. CASE Wake(i)
  BY <1>0, <1>5, Moves DEF Wake, Goto, handles, Ordered
<1>6. CASE DetectExit(i)
  BY <1>6, Moves DEF DetectExit, Goto, handles
<1>7. CASE Interrupt(i)
  BY <1>7, Moves DEF Interrupt, Goto, handles
<1>8. CASE JobFails(i)
  BY <1>8, Moves DEF JobFails, Goto, handles
<1>9. CASE FinalEnd(i)
  BY <1>9, Moves DEF FinalEnd, Goto, handles
<1> QED
  BY <1>2, <1>3, <1>4, <1>5, <1>6, <1>7, <1>8, <1>9

LEMMA CurrentService ==
  ASSUME NEW i,
         Registered(i) # Services
  PROVE  /\ Current(i) \in Services /\ Current(i) \notin Registered(i)
         /\ \A t \in Services \ Registered(i) : t = Current(i) \/ Before(Current(i), t)
<1> DEFINE left == Services \ Registered(i)
<1>1. left \in SUBSET Services /\ left # {}
  BY DEF Registered
<1>2. \E s \in left : \A t \in left : t = s \/ Before(s, t)
  BY <1>1, FirstService
<1>3. Current(i) \in left /\ \A t \in left : t = Current(i) \/ Before(Current(i), t)
  BY <1>2 DEF Current
<1> QED
  BY <1>3

LEMMA Terminated ==
  ASSUME SupervisorTypes, NEW i \in Instances, NEW p \in Pids, Owned(i, p),
         children' = [children EXCEPT ![p] = Free]
  PROVE  /\ NothingStarts /\ children' \in [Pids -> Processes]
         /\ \A j \in Instances \ {i} : ProcessesKept(j)
         /\ \A q \in Pids \ {p} : children'[q] = children[q]
<1>1. children \in [Pids -> Processes] /\ Free \in Processes
  BY DEF SupervisorTypes, Processes
<1>2. children'[p] = Free /\ \A q \in Pids \ {p} : children'[q] = children[q]
  BY <1>1
<1>3. NothingStarts
  BY <1>2 DEF NothingStarts, Running, Free
<1>4. \A j \in Instances \ {i} : ProcessesKept(j)
  BY <1>2 DEF ProcessesKept, Owned
<1> QED
  BY <1>1, <1>2, <1>3, <1>4

LEMMA NotTerminated ==
  ASSUME SupervisorTypes, NEW p \in Pids, children[p] # Free,
         \/ children' = children
         \/ children' = [children EXCEPT ![p].state = "dead"]
         \/ children' = [children EXCEPT ![p].job = TRUE]
  PROVE  /\ NothingStarts /\ children' \in [Pids -> Processes]
         /\ \A j \in Instances : ProcessesKept(j)
<1>1. children \in [Pids -> Processes]
  BY DEF SupervisorTypes
<1>2. PICK c \in [state : {"suspended", "running", "dead"}, svc : Services,
                 by : Instances, job : BOOLEAN, serves : BOOLEAN, bound : BOOLEAN] : c = children[p]
  BY <1>1 DEF Processes
<1>3. CASE children' = children
  BY <1>1, <1>3 DEF NothingStarts, ProcessesKept, Owned, Running
<1>4. ASSUME NEW d \in [state : {"suspended", "running", "dead"}, svc : Services,
                       by : Instances, job : BOOLEAN, serves : BOOLEAN, bound : BOOLEAN],
             children' = [children EXCEPT ![p] = d],
             d.svc = c.svc, d.by = c.by,
             \/ d.state # "running"
             \/ d.state = c.state /\ d.serves = c.serves /\ d.job /\ d.bound = c.bound
      PROVE  /\ NothingStarts /\ children' \in [Pids -> Processes]
             /\ \A j \in Instances : ProcessesKept(j)
  <2>1. d \in Processes /\ d # Free
    BY DEF Processes, Free
  <2>2. children'[p] = d /\ \A q \in Pids \ {p} : children'[q] = children[q]
    BY <1>1, <1>4
  <2>3. NothingStarts
    BY <1>2, <1>4, <2>2 DEF NothingStarts, Running
  <2>4. children' \in [Pids -> Processes]
    BY <1>1, <1>4, <2>1
  <2>5. \A j \in Instances : ProcessesKept(j)
    BY <1>2, <1>4, <2>1, <2>2 DEF ProcessesKept, Owned
  <2> QED
    BY <2>3, <2>4, <2>5
<1>5. CASE children' = [children EXCEPT ![p].state = "dead"]
  <2>1. PICK d \in [state : {"suspended", "running", "dead"}, svc : Services,
                   by : Instances, job : BOOLEAN, serves : BOOLEAN, bound : BOOLEAN] :
          d = [c EXCEPT !.state = "dead"] /\ d.svc = c.svc /\ d.by = c.by /\ d.state = "dead"
    <3>1. [c EXCEPT !.state = "dead"] \in [state : {"suspended", "running", "dead"}, svc : Services,
                                  by : Instances, job : BOOLEAN, serves : BOOLEAN, bound : BOOLEAN]
      OBVIOUS
    <3>2. [c EXCEPT !.state = "dead"].svc = c.svc /\ [c EXCEPT !.state = "dead"].by = c.by
          /\ [c EXCEPT !.state = "dead"].state = "dead"
      OBVIOUS
    <3> QED
      BY <3>1, <3>2
  <2>2. children' = [children EXCEPT ![p] = d]
    BY <1>2, <1>5, <2>1
  <2> QED
    BY <1>4, <2>1, <2>2
<1>6. CASE children' = [children EXCEPT ![p].job = TRUE]
  <2>1. PICK d \in [state : {"suspended", "running", "dead"}, svc : Services,
                   by : Instances, job : BOOLEAN, serves : BOOLEAN, bound : BOOLEAN] :
          /\ d = [c EXCEPT !.job = TRUE] /\ d.svc = c.svc /\ d.by = c.by
          /\ d.state = c.state /\ d.serves = c.serves /\ d.job /\ d.bound = c.bound
    <3>1. [c EXCEPT !.job = TRUE] \in [state : {"suspended", "running", "dead"}, svc : Services,
                                      by : Instances, job : BOOLEAN, serves : BOOLEAN, bound : BOOLEAN]
      OBVIOUS
    <3>2. /\ [c EXCEPT !.job = TRUE].svc = c.svc /\ [c EXCEPT !.job = TRUE].by = c.by
          /\ [c EXCEPT !.job = TRUE].state = c.state /\ [c EXCEPT !.job = TRUE].serves = c.serves
          /\ [c EXCEPT !.job = TRUE].job /\ [c EXCEPT !.job = TRUE].bound = c.bound
      OBVIOUS
    <3> QED
      BY <3>1, <3>2
  <2>2. children' = [children EXCEPT ![p] = d]
    BY <1>2, <1>6, <2>1
  <2> QED
    BY <1>4, <2>1, <2>2
<1> QED
  BY <1>3, <1>5, <1>6

LEMMA SupervisorLaunches ==
  ASSUME SupervisorInv, NEW i \in Instances, Launch(i)
  PROVE  SupervisorInv'
<1> USE DEF Places, WithMutex, WithJob, Starting, WithChild, Gone
<1>1. /\ UNCHANGED <<jobs, children, processes, child, retained>> /\ pc[i] = "idle"
      /\ \/ mutex = None /\ mutex' = i /\ pc' = [pc EXCEPT ![i] = "opening"]
         \/ UNCHANGED mutex /\ pc' = [pc EXCEPT ![i] = "done"]
  BY DEF Launch, Goto, budget
<1>2. SupervisorTypes /\ Knows(i) /\ Ordered(i) /\ Holding /\ Reign
  BY DEF SupervisorInv
<1>3. child[i] = 0 /\ retained[i] = {} /\ Registered(i) = {}
  BY <1>1, <1>2 DEF Knows, Ordered
<1>4. CASE UNCHANGED mutex /\ pc' = [pc EXCEPT ![i] = "done"]
  BY <1>1, <1>3, <1>4, Moves
<1>5. CASE mutex = None /\ mutex' = i /\ pc' = [pc EXCEPT ![i] = "opening"]
  <2>1. SupervisorTypes' /\ pc'[i] = "opening" /\ \A j \in Instances \ {i} : pc'[j] = pc[j]
    BY <1>1, <1>2, <1>5 DEF SupervisorTypes
  <2>2. \A j \in Instances : pc[j] \notin WithMutex
    BY <1>2, <1>5, GraphAssumption DEF Holding
  <2>3. Holding'
    BY <1>1, <1>2, <1>5, <2>1, <2>2 DEF Holding, SupervisorTypes
  <2>4. NothingStarts /\ \A j \in Instances : ProcessesKept(j)
    BY <1>1 DEF NothingStarts, ProcessesKept, Owned, Running
  <2>5. NoneCrashed' => NoneCrashed
    BY <1>1, <2>1 DEF NoneCrashed
  <2>6. Reign'
    <3>1. ASSUME NEW p \in Pids, Running(p), NoneCrashed PROVE FALSE
      <4>1. mutex = children[p].by /\ children[p].state = "running"
        BY <1>2, <3>1 DEF Reign, Running
      <4>2. children[p] \in Processes
        BY <1>2 DEF SupervisorTypes
      <4>3. children[p].by \in Instances
        BY <4>1, <4>2 DEF Processes, Free
      <4> QED
        BY <1>5, <4>1, <4>3, GraphAssumption
    <3> QED
      BY <1>1, <1>2, <2>5, <3>1 DEF Reign, Running
  <2>7. PortsHeld'
    BY <1>1, <2>1, <2>4, <2>5, PortsStay
  <2>8. Knows(i)' /\ Ordered(i)'
    <3>1. Registered(i)' = {}
      BY <1>1, <1>3, OrderKept
    <3> QED
      BY <1>1, <1>3, <2>1, <3>1 DEF Knows, Ordered
  <2>9. ASSUME NEW j \in Instances \ {i} PROVE Knows(j)' /\ Ordered(j)'
    BY <1>1, <1>2, <2>1, <2>4, OthersKnow DEF SupervisorInv
  <2> QED
    BY <2>1, <2>3, <2>6, <2>7, <2>8, <2>9 DEF SupervisorInv
<1> QED
  BY <1>1, <1>4, <1>5

LEMMA SupervisorOpensJob ==
  ASSUME SupervisorInv, NEW i \in Instances, OpenJob(i)
  PROVE  SupervisorInv'
<1> USE DEF Places, WithMutex, WithJob, Starting, WithChild, Gone
<1>1. /\ UNCHANGED <<mutex, children, processes, child, retained>> /\ pc[i] = "opening"
      /\ jobs' = jobs \cup {i} /\ pc' = [pc EXCEPT ![i] = "start"]
  BY DEF OpenJob, Goto
<1>2. SupervisorTypes /\ Knows(i) /\ Ordered(i) /\ Holding /\ Reign
  BY DEF SupervisorInv
<1>3. child[i] = 0 /\ Registered(i) = {} /\ Registered(i) # Services
  BY <1>1, <1>2, GraphAssumption DEF Knows, Ordered
<1>4. SupervisorTypes' /\ pc'[i] = "start" /\ \A j \in Instances \ {i} : pc'[j] = pc[j]
  BY <1>1, <1>2 DEF SupervisorTypes
<1>5. Holding'
  BY <1>1, <1>2, <1>4 DEF Holding, SupervisorTypes
<1>6. NothingStarts /\ \A j \in Instances : ProcessesKept(j)
  BY <1>1 DEF NothingStarts, ProcessesKept, Owned, Running
<1>7. NoneCrashed' => NoneCrashed
  BY <1>1, <1>4 DEF NoneCrashed
<1>8. Reign'
  BY <1>1, <1>2, <1>7 DEF Reign, Running
<1>9. PortsHeld'
  BY <1>1, <1>4, <1>6, <1>7, PortsStay
<1>10. Knows(i)' /\ Ordered(i)'
  <2>1. Registered(i)' = Registered(i) /\ Current(i)' = Current(i)
    BY <1>1, OrderKept
  <2> QED
    BY <1>1, <1>2, <1>3, <1>4, <2>1 DEF Knows, Ordered, Owned
<1>11. ASSUME NEW j \in Instances \ {i} PROVE Knows(j)' /\ Ordered(j)'
  BY <1>1, <1>2, <1>4, <1>6, OthersKnow DEF SupervisorInv
<1> QED
  BY <1>4, <1>5, <1>8, <1>9, <1>10, <1>11 DEF SupervisorInv

LEMMA SupervisorCreates ==
  ASSUME SupervisorInv, NEW i \in Instances,
         CreateSuspended(i)
  PROVE  SupervisorInv'
<1> USE DEF Places, WithMutex, WithJob, Starting, WithChild, Gone
<1>1. PICK p \in Pids :
        /\ children[p] = Free /\ child' = [child EXCEPT ![i] = p]
        /\ children' = [children EXCEPT ![p] =
             [state |-> "suspended", svc |-> Current(i), by |-> i, job |-> FALSE,
              serves |-> Current(i) # Caddy \/ pc[i] = "validated", bound |-> FALSE]]
  BY DEF CreateSuspended
<1>2. /\ UNCHANGED <<mutex, jobs, processes, retained>> /\ pc[i] \in {"start", "validated"}
      /\ pc' = [pc EXCEPT ![i] = "created"]
  BY DEF CreateSuspended, Goto, handles
<1>3. SupervisorTypes /\ Knows(i) /\ Ordered(i)
  BY DEF SupervisorInv
<1>4. Current(i) \in Services /\ Current(i) \notin Registered(i)
  BY <1>2, <1>3, CurrentService DEF Ordered
<1>5. PICK c \in Processes :
        /\ c # Free /\ c.state = "suspended" /\ c.svc = Current(i) /\ c.by = i
        /\ children' = [children EXCEPT ![p] = c]
  <2>1. (Current(i) # Caddy \/ pc[i] = "validated") \in BOOLEAN
    OBVIOUS
  <2> QED
    BY <1>1, <1>4, <2>1 DEF Processes, Free
<1>6. children'[p] = c /\ \A q \in Pids \ {p} : children'[q] = children[q]
  BY <1>3, <1>5 DEF SupervisorTypes
<1>7. SupervisorTypes' /\ child'[i] = p /\ pc'[i] = "created"
  <2>1. child' \in [Instances -> Pids \cup {0}] /\ child'[i] = p
    BY <1>1, <1>3 DEF SupervisorTypes
  <2>2. children' \in [Pids -> Processes]
    BY <1>3, <1>5 DEF SupervisorTypes
  <2>3. pc' \in [Instances -> Places] /\ pc'[i] = "created"
    BY <1>2, <1>3 DEF SupervisorTypes
  <2> QED
    BY <1>2, <1>3, <2>1, <2>2, <2>3 DEF SupervisorTypes
<1>8. NothingStarts /\ \A j \in Instances : ProcessesKept(j)
  BY <1>1, <1>5, <1>6 DEF NothingStarts, ProcessesKept, Owned, Running
<1>9. Registered(i)' = Registered(i) /\ Current(i)' = Current(i)
  BY <1>2, OrderKept
<1>10. Ordered(i)'
  BY <1>2, <1>3, <1>7, <1>9 DEF Ordered
<1>11. Knows(i)'
  <2>1. \A q \in Pids : Owned(i, q) => q # p /\ Owned(i, q)' /\ children'[q] = children[q]
    BY <1>1, <1>6 DEF Owned
  <2>2. p # 0
    BY <1>1, GraphAssumption DEF Pids
  <2>3. Owned(i, p)' /\ p \notin retained[i]
    BY <1>3, <1>5, <1>6, <2>1 DEF Owned, Knows, SupervisorTypes
  <2>4. \A s \in Registered(i) : processes[i][s] \in Pids
    BY <1>3 DEF Registered, SupervisorTypes
  <2>5. \A s \in Registered(i) : /\ Owned(i, processes[i][s])'
                                 /\ children'[processes[i][s]].svc = s
                                 /\ processes[i][s] \notin retained[i]
    BY <1>2, <1>3, <2>1, <2>4 DEF Knows
  <2>6. \A q \in retained[i] : Owned(i, q)'
    BY <1>3, <2>1 DEF Knows, SupervisorTypes
  <2> QED
    BY <1>2, <1>5, <1>6, <1>7, <1>9, <2>2, <2>3, <2>5, <2>6 DEF Knows, Owned
<1>12. \A j \in Instances \ {i} : child'[j] = child[j] /\ processes'[j] = processes[j] /\ retained'[j] = retained[j]
  BY <1>1, <1>2, <1>3 DEF SupervisorTypes
<1> QED
  BY <1>2, <1>7, <1>8, <1>10, <1>11, <1>12, LocalStep

\* Instance i gives up process p, or loses it: what it still knows stays.
LEMMA KnowsTheRest ==
  ASSUME SupervisorTypes, NEW i \in Instances, Knows(i), NEW p,
         \A q \in Pids \ {p} : Owned(i, q) => /\ children'[q] # Free /\ children'[q].by = i
                                              /\ children'[q].svc = children[q].svc,
         child'[i] = 0, pc'[i] \notin WithChild, pc'[i] \in Gone => retained'[i] = {},
         \A s \in Services : processes'[i][s] \in {processes[i][s], 0},
         \A s \in Registered(i) : processes'[i][s] # 0 => processes[i][s] # p /\ processes[i][s] \notin retained'[i],
         retained'[i] \subseteq Pids, \A q \in retained'[i] : Owned(i, q)'
  PROVE  Knows(i)'
<1>1. \A s \in Registered(i)' : /\ s \in Registered(i) /\ processes'[i][s] = processes[i][s]
                                /\ processes'[i][s] # 0 /\ s \in Services
  BY DEF Registered
<1>2. \A s \in Registered(i) : processes[i][s] \in Pids
  BY DEF Registered, SupervisorTypes
<1>3. \A s \in Registered(i) : Owned(i, processes[i][s]) /\ children[processes[i][s]].svc = s
  BY DEF Knows
<1>4. ASSUME NEW s \in Registered(i)'
      PROVE  /\ children'[processes'[i][s]] # Free /\ children'[processes'[i][s]].by = i
             /\ children'[processes'[i][s]].svc = s /\ processes'[i][s] \notin retained'[i]
  <2>1. s \in Registered(i) /\ processes'[i][s] = processes[i][s] /\ processes'[i][s] # 0
    BY <1>1
  <2>2. processes[i][s] # p /\ processes[i][s] \notin retained'[i] /\ processes[i][s] \in Pids
    BY <1>2, <2>1
  <2> QED
    BY <1>3, <2>1, <2>2
<1> QED
  BY <1>4 DEF Knows, Owned

\* The child being started is none of the processes in the map.
LEMMA ChildIsNew ==
  ASSUME SupervisorInv, NEW i \in Instances,
         pc[i] \in WithChild
  PROVE  /\ child[i] \in Pids /\ child[i] # 0 /\ Owned(i, child[i])
         /\ child[i] \notin retained[i] /\ children[child[i]].svc = Current(i)
         /\ Current(i) \in Services /\ Current(i) \notin Registered(i)
         /\ \A s \in Registered(i) : processes[i][s] # child[i]
<1>1. SupervisorTypes /\ Knows(i) /\ Ordered(i) /\ pc[i] \in Starting
  BY DEF SupervisorInv, Starting
<1>2. Current(i) \in Services /\ Current(i) \notin Registered(i)
  BY <1>1, CurrentService DEF Ordered
<1>3. child[i] \in Pids /\ child[i] # 0
  BY <1>1 DEF Knows, SupervisorTypes
<1> QED
  BY <1>1, <1>2, <1>3 DEF Knows

\* Process p leaves what instance i watches: it is closed, or it is retained.
LEMMA GivenUp ==
  ASSUME SupervisorTypes, NEW i \in Instances, Knows(i), NEW p \in Pids, Owned(i, p),
         p \notin retained[i],
         \/ /\ children' = [children EXCEPT ![p] = Free] /\ UNCHANGED retained
         \/ /\ children' = children \/ children' = [children EXCEPT ![p].state = "dead"]
            /\ retained' = [retained EXCEPT ![i] = @ \cup {p}]
  PROVE  /\ NothingStarts /\ children' \in [Pids -> Processes]
         /\ \A j \in Instances \ {i} : ProcessesKept(j)
         /\ \A q \in Pids \ {p} : Owned(i, q) => /\ children'[q] # Free /\ children'[q].by = i
                                                 /\ children'[q].svc = children[q].svc
         /\ retained' \in [Instances -> SUBSET Pids]
         /\ \A j \in Instances \ {i} : retained'[j] = retained[j]
         /\ retained'[i] \subseteq retained[i] \cup {p}
         /\ \A q \in retained'[i] : Owned(i, q)'
<1>1. /\ NothingStarts /\ children' \in [Pids -> Processes]
      /\ \A j \in Instances \ {i} : ProcessesKept(j)
      /\ \A q \in Pids \ {p} : Owned(i, q) => /\ children'[q] # Free /\ children'[q].by = i
                                              /\ children'[q].svc = children[q].svc
  <2>1. CASE children' = [children EXCEPT ![p] = Free]
    BY <2>1, Terminated DEF Owned
  <2>2. CASE children' = children \/ children' = [children EXCEPT ![p].state = "dead"]
    BY <2>2, NotTerminated DEF Owned, ProcessesKept
  <2> QED
    BY <2>1, <2>2
<1>3. /\ retained' \in [Instances -> SUBSET Pids]
      /\ \A j \in Instances \ {i} : retained'[j] = retained[j]
      /\ \A q \in retained'[i] : q \in retained[i] \/ (q = p /\ children' # [children EXCEPT ![p] = Free])
      /\ retained'[i] = retained[i] \/ retained'[i] = retained[i] \cup {p}
  <2>1. CASE children' = [children EXCEPT ![p] = Free] /\ UNCHANGED retained
    BY <2>1 DEF SupervisorTypes
  <2>2. CASE /\ children' = children \/ children' = [children EXCEPT ![p].state = "dead"]
             /\ retained' = [retained EXCEPT ![i] = @ \cup {p}]
    <3>1. retained'[i] = retained[i] \cup {p} /\ \A j \in Instances \ {i} : retained'[j] = retained[j]
      BY <2>2 DEF SupervisorTypes
    <3>2. retained' \in [Instances -> SUBSET Pids]
      BY <2>2 DEF SupervisorTypes
    <3>3. children'[p] # Free
      BY <2>2, NotTerminated DEF ProcessesKept, Owned
    <3>4. children' # [children EXCEPT ![p] = Free]
      BY <3>3 DEF SupervisorTypes
    <3> QED
      BY <3>1, <3>2, <3>4
  <2> QED
    BY <2>1, <2>2
<1>5. \A q \in retained'[i] : Owned(i, q)'
  <2>1. ASSUME NEW q \in retained'[i] PROVE Owned(i, q)'
    <3>1. CASE q \in retained[i]
      <4>1. q # p /\ q \in Pids /\ Owned(i, q)
        BY <3>1 DEF Knows, SupervisorTypes
      <4> QED
        BY <1>1, <4>1 DEF Owned
    <3>2. CASE q = p /\ children' # [children EXCEPT ![p] = Free]
      <4>1. children' = children \/ children' = [children EXCEPT ![p].state = "dead"]
        BY <3>2
      <4> QED
        BY <3>2, <4>1, NotTerminated DEF ProcessesKept, Owned
    <3> QED
      BY <1>3, <3>1, <3>2
  <2> QED
    BY <2>1
<1> QED
  BY <1>1, <1>3, <1>5

LEMMA SupervisorAborts ==
  ASSUME SupervisorInv, NEW i \in Instances,
         AssignOrResumeFails(i) \/ ValidationPasses(i) \/ AbortStart(i)
  PROVE  SupervisorInv'
<1> USE DEF Places, WithMutex, WithJob, Starting, WithChild, Gone
<1>1. /\ UNCHANGED <<mutex, jobs, processes>> /\ pc[i] \in WithChild
  BY DEF AssignOrResumeFails, ValidationPasses, AbortStart, handles
<1>2. SupervisorTypes /\ Knows(i) /\ Ordered(i)
  BY DEF SupervisorInv
<1>3. PICK p \in Pids :
        /\ p = child[i] /\ p # 0 /\ Owned(i, p) /\ p \notin retained[i]
        /\ \A s \in Registered(i) : processes[i][s] # p
  BY <1>1, ChildIsNew
<1>4. Registered(i)' = Registered(i) /\ Current(i)' = Current(i)
  BY <1>1, OrderKept
<1>5. CASE AssignOrResumeFails(i)
  <2>1. /\ UNCHANGED <<child, retained>> /\ pc' = [pc EXCEPT ![i] = "abort"]
        /\ children' = children \/ children' = [children EXCEPT ![p].job = TRUE]
    BY <1>3, <1>5 DEF AssignOrResumeFails, Goto
  <2>2. /\ NothingStarts /\ children' \in [Pids -> Processes]
        /\ \A j \in Instances : ProcessesKept(j)
    BY <1>2, <1>3, <2>1, NotTerminated DEF Owned
  <2>3. SupervisorTypes' /\ pc'[i] = "abort"
    BY <1>1, <1>2, <2>1, <2>2 DEF SupervisorTypes
  <2>4. Ordered(i)'
    BY <1>1, <1>2, <1>4, <2>3 DEF Ordered
  <2>5. Knows(i)'
    <3>1. \A q \in Pids : Owned(i, q) => Owned(i, q)' /\ children'[q].svc = children[q].svc
      BY <2>2 DEF ProcessesKept, Owned
    <3>2. \A s \in Registered(i) : processes[i][s] \in Pids
      BY <1>2 DEF Registered, SupervisorTypes
    <3>3. retained[i] \subseteq Pids
      BY <1>2 DEF SupervisorTypes
    <3>4. child[i] # 0 /\ Owned(i, child[i])' /\ children'[child[i]].svc = Current(i) /\ child[i] \notin retained[i]
      BY <1>2, <1>3, <2>1, <3>1 DEF Knows
    <3>5. \A s \in Registered(i) : /\ Owned(i, processes[i][s])' /\ children'[processes[i][s]].svc = s
                                   /\ processes[i][s] \notin retained[i]
      BY <1>1, <1>2, <3>1, <3>2 DEF Knows
    <3>6. \A q \in retained[i] : Owned(i, q)'
      BY <1>2, <3>1, <3>3 DEF Knows
    <3> QED
      BY <1>1, <1>4, <2>1, <2>3, <3>4, <3>5, <3>6 DEF Knows
  <2> QED
    BY <1>1, <2>1, <2>2, <2>3, <2>4, <2>5, LocalStep
<1>6. ASSUME NEW b \in {"validated", "cascade"}, pc' = [pc EXCEPT ![i] = b],
             child' = [child EXCEPT ![i] = 0],
             \/ /\ children' = [children EXCEPT ![p] = Free] /\ UNCHANGED retained
             \/ /\ children' = children \/ children' = [children EXCEPT ![p].state = "dead"]
                /\ retained' = [retained EXCEPT ![i] = @ \cup {p}]
      PROVE  SupervisorInv'
  <2>1. /\ NothingStarts /\ children' \in [Pids -> Processes]
        /\ \A j \in Instances \ {i} : ProcessesKept(j)
        /\ \A q \in Pids \ {p} : Owned(i, q) => /\ children'[q] # Free /\ children'[q].by = i
                                                /\ children'[q].svc = children[q].svc
    BY <1>2, <1>3, <1>6, GivenUp
  <2>2. /\ child' \in [Instances -> Pids \cup {0}] /\ child'[i] = 0
        /\ \A j \in Instances \ {i} : child'[j] = child[j]
    BY <1>2, <1>6 DEF SupervisorTypes
  <2>3. /\ retained' \in [Instances -> SUBSET Pids]
        /\ \A j \in Instances \ {i} : retained'[j] = retained[j]
        /\ retained'[i] \subseteq retained[i] \cup {p}
    BY <1>2, <1>3, <1>6, GivenUp
  <2>4. SupervisorTypes' /\ pc'[i] = b
    BY <1>1, <1>2, <1>6, <2>1, <2>2, <2>3 DEF SupervisorTypes
  <2>5. \A q \in retained'[i] : Owned(i, q)'
    BY <1>2, <1>3, <1>6, GivenUp
  <2>6. Knows(i)'
    <3>1. \A s \in Registered(i) : processes[i][s] # p /\ processes[i][s] \notin retained'[i]
      BY <1>2, <1>3, <2>3 DEF Knows
    <3>2. \A s \in Services : processes'[i][s] \in {processes[i][s], 0}
      BY <1>1
    <3>3. pc'[i] \notin WithChild /\ pc'[i] \notin Gone /\ retained'[i] \subseteq Pids
      BY <2>3, <2>4
    <3> QED
      BY <1>2, <2>1, <2>2, <2>5, <3>1, <3>2, <3>3, KnowsTheRest
  <2>7. Ordered(i)'
    BY <1>1, <1>2, <1>4, <2>4 DEF Ordered
  <2>8. \A s \in Services : processes'[i][s] \in {processes[i][s], 0}
    BY <1>1
  <2> QED
    BY <1>1, <1>6, <2>1, <2>2, <2>3, <2>4, <2>6, <2>7, <2>8, LocalStep
<1>7. CASE ValidationPasses(i)
  BY <1>3, <1>6, <1>7 DEF ValidationPasses, Goto
<1>8. CASE AbortStart(i)
  BY <1>3, <1>6, <1>8 DEF AbortStart, StartupFailed, Goto, TerminateAndClose, CannotTerminate, Retain
<1> QED
  BY <1>5, <1>7, <1>8

LEMMA SupervisorCascades ==
  ASSUME SupervisorInv, NEW i \in Instances,
         CascadeStop(i)
  PROVE  SupervisorInv'
<1>1. /\ UNCHANGED <<pc, mutex, jobs, child>> /\ pc[i] \in {"cascade", "final"}
      /\ Registered(i) # {}
  BY DEF CascadeStop, handles
<1>2. SupervisorTypes /\ Knows(i) /\ Ordered(i)
  BY DEF SupervisorInv
<1>3. PICK s \in Registered(i) :
        s = NextToStop(i) /\ \A t \in Registered(i) : t = s \/ Before(t, s)
  <2>1. Registered(i) \in SUBSET Services
    BY DEF Registered
  <2>2. \E s \in Registered(i) : \A t \in Registered(i) : t = s \/ Before(t, s)
    BY <1>1, <2>1, LastService
  <2> QED
    BY <2>2 DEF NextToStop
<1>4. PICK p \in Pids :
        /\ p = processes[i][s] /\ Owned(i, p) /\ p \notin retained[i] /\ children[p].svc = s
  BY <1>2, <1>3 DEF Knows, Registered, SupervisorTypes
<1>5. /\ processes' = [processes EXCEPT ![i][s] = 0]
      /\ \/ children' = [children EXCEPT ![p] = Free] /\ UNCHANGED retained
         \/ /\ children' = children \/ children' = [children EXCEPT ![p].state = "dead"]
            /\ retained' = [retained EXCEPT ![i] = @ \cup {p}]
  BY <1>3, <1>4 DEF CascadeStop, TerminateAndClose, CannotTerminate, Retain
<1>6. /\ NothingStarts /\ children' \in [Pids -> Processes]
      /\ \A j \in Instances \ {i} : ProcessesKept(j)
      /\ \A q \in Pids \ {p} : Owned(i, q) => /\ children'[q] # Free /\ children'[q].by = i
                                              /\ children'[q].svc = children[q].svc
      /\ retained' \in [Instances -> SUBSET Pids]
      /\ \A j \in Instances \ {i} : retained'[j] = retained[j]
      /\ retained'[i] \subseteq retained[i] \cup {p}
      /\ \A q \in retained'[i] : Owned(i, q)'
  BY <1>2, <1>4, <1>5, GivenUp
<1>7. /\ processes' \in [Instances -> [Services -> Pids \cup {0}]]
      /\ \A j \in Instances \ {i} : processes'[j] = processes[j]
      /\ processes'[i][s] = 0 /\ \A t \in Services \ {s} : processes'[i][t] = processes[i][t]
  <2>1. s \in Services
    BY <1>3 DEF Registered
  <2> QED
    BY <1>2, <1>5, <2>1 DEF SupervisorTypes
<1>8. SupervisorTypes'
  BY <1>1, <1>2, <1>6, <1>7 DEF SupervisorTypes
<1>9. Registered(i)' = Registered(i) \ {s}
  BY <1>7 DEF Registered
<1>10. Ordered(i)'
  <2>1. ASSUME NEW u \in Registered(i) \ {s}, NEW t \in Services, Before(t, u)
        PROVE  t \in Registered(i) \ {s}
    <3>1. t \in Registered(i) /\ Before(u, s) /\ u \in Services /\ s \in Services
      BY <1>2, <1>3, <2>1 DEF Ordered, Registered
    <3>2. ASSUME t = s PROVE FALSE
      <4>1. PICK n \in Nat : Round \in [Services -> 1 .. n] /\ NameRank \in [Services -> 1 .. n]
        BY RoundFacts
      <4>2. Round[s] \in Nat /\ Round[u] \in Nat /\ NameRank[s] \in Nat /\ NameRank[u] \in Nat
        BY <3>1, <4>1
      <4> QED
        BY <2>1, <3>1, <3>2, <4>2 DEF Before
    <3> QED
      BY <3>1, <3>2
  <2>2. pc'[i] \notin Starting /\ pc'[i] \notin Gone \cup {"opening", "sleep", "reap"}
    BY <1>1 DEF Starting, WithChild, Gone
  <2> QED
    BY <1>9, <2>1, <2>2 DEF Ordered
<1>11. Knows(i)'
  <2>1. pc'[i] \notin WithChild /\ pc'[i] \notin Gone
    BY <1>1 DEF WithChild, Gone
  <2>2. child'[i] = 0
    BY <1>1, <1>2, <2>1 DEF Knows
  <2>3. \A t \in Services : processes'[i][t] \in {processes[i][t], 0}
    BY <1>7
  <2>4. \A t \in Registered(i) :
          processes'[i][t] # 0 => processes[i][t] # p /\ processes[i][t] \notin retained'[i]
    <3>1. ASSUME NEW t \in Registered(i), processes'[i][t] # 0
          PROVE  processes[i][t] # p /\ processes[i][t] \notin retained'[i]
      <4>1. t # s
        BY <1>7, <3>1
      <4>2. children[processes[i][t]].svc = t /\ processes[i][t] \notin retained[i]
        BY <1>2 DEF Knows
      <4> QED
        BY <1>4, <1>6, <4>1, <4>2
    <3> QED
      BY <3>1
  <2>5. retained'[i] \subseteq Pids
    BY <1>6
  <2> QED
    BY <1>2, <1>6, <2>1, <2>2, <2>3, <2>4, <2>5, KnowsTheRest
<1>12. pc' = [pc EXCEPT ![i] = pc[i]] /\ pc[i] \in Places /\ pc[i] # "crashed"
  BY <1>1, <1>2 DEF SupervisorTypes
<1>13. \A t \in Services : processes'[i][t] \in {processes[i][t], 0}
  BY <1>7
<1> QED
  BY <1>1, <1>6, <1>7, <1>8, <1>10, <1>11, <1>12, <1>13, LocalStep

LEMMA SupervisorReaps ==
  ASSUME SupervisorInv, NEW i \in Instances, ReapRetained(i)
  PROVE  SupervisorInv'
<1>1. UNCHANGED <<mutex, jobs, processes, child>> /\ pc[i] = "reap"
  BY DEF ReapRetained, handles
<1>2. SupervisorTypes /\ Knows(i) /\ Ordered(i)
  BY DEF SupervisorInv
<1>3. Registered(i) = {} /\ child[i] = 0
  BY <1>1, <1>2 DEF Ordered, Knows, WithChild
<1>4. CASE /\ retained[i] = {} /\ pc' = [pc EXCEPT ![i] = "done"] /\ UNCHANGED <<children, retained>>
  BY <1>1, <1>3, <1>4, Moves DEF Places, WithMutex, WithJob, Starting, WithChild, Gone
<1>5. ASSUME NEW p \in retained[i], UNCHANGED pc,
             retained' = [retained EXCEPT ![i] = @ \ {p}],
             \/ children' = [children EXCEPT ![p] = Free]
             \/ children' = children
             \/ children' = [children EXCEPT ![p].state = "dead"]
      PROVE  SupervisorInv'
  <2>1. p \in Pids /\ Owned(i, p)
    BY <1>2, <1>5 DEF Knows, SupervisorTypes
  <2>2. /\ NothingStarts /\ children' \in [Pids -> Processes]
        /\ \A j \in Instances \ {i} : ProcessesKept(j)
        /\ \A q \in Pids \ {p} : Owned(i, q) => /\ children'[q] # Free /\ children'[q].by = i
                                                /\ children'[q].svc = children[q].svc
    <3>1. CASE children' = [children EXCEPT ![p] = Free]
      BY <1>2, <2>1, <3>1, Terminated DEF Owned
    <3>2. CASE children' = children \/ children' = [children EXCEPT ![p].state = "dead"]
      BY <1>2, <2>1, <3>2, NotTerminated DEF Owned, ProcessesKept
    <3> QED
      BY <1>5, <3>1, <3>2
  <2>3. /\ retained' \in [Instances -> SUBSET Pids] /\ retained'[i] = retained[i] \ {p}
        /\ \A j \in Instances \ {i} : retained'[j] = retained[j]
    BY <1>2, <1>5 DEF SupervisorTypes
  <2>4. SupervisorTypes'
    BY <1>1, <1>2, <1>5, <2>2, <2>3 DEF SupervisorTypes
  <2>5. Registered(i)' = Registered(i)
    BY <1>1, OrderKept
  <2>6. Ordered(i)'
    BY <1>2, <1>5, <2>5 DEF Ordered
  <2>7. \A q \in retained'[i] : Owned(i, q)'
    BY <1>2, <2>2, <2>3 DEF Knows, Owned, SupervisorTypes
  <2>8. Knows(i)'
    BY <1>1, <1>3, <1>5, <2>5, <2>7 DEF Knows, WithChild, Gone
  <2>9. pc' = [pc EXCEPT ![i] = pc[i]] /\ pc[i] \in Places /\ pc[i] # "crashed"
    BY <1>1, <1>2, <1>5 DEF SupervisorTypes
  <2> QED
    BY <1>1, <2>2, <2>3, <2>4, <2>6, <2>8, <2>9, LocalStep
<1> QED
  BY <1>4, <1>5 DEF ReapRetained, Goto, TerminateAndClose, CannotTerminate

LEMMA SupervisorReady ==
  ASSUME SupervisorInv, NEW i \in Instances,
         Ready(i)
  PROVE  SupervisorInv'
<1> DEFINE s == Current(i)
<1> DEFINE p == child[i]
<1>1. /\ UNCHANGED <<mutex, jobs, children, retained>> /\ pc[i] = "awaiting"
      /\ children[p].serves /\ PassesReadiness(p)
      /\ processes' = [processes EXCEPT ![i][s] = p]
      /\ child' = [child EXCEPT ![i] = 0]
      /\ \/ Services \ Registered(i) = {s} /\ pc' = [pc EXCEPT ![i] = "monitor"]
         \/ Services \ Registered(i) # {s} /\ pc' = [pc EXCEPT ![i] = "start"]
  BY DEF Ready, Goto, handles
<1>2. SupervisorTypes /\ Knows(i) /\ Ordered(i)
  BY DEF SupervisorInv
<1>3. /\ p \in Pids /\ p # 0 /\ Owned(i, p) /\ p \notin retained[i] /\ children[p].svc = s
      /\ s \in Services /\ s \notin Registered(i)
      /\ \A t \in Registered(i) : processes[i][t] # p
  BY <1>1, ChildIsNew DEF WithChild
<1>4. \A t \in Services \ Registered(i) : t = s \/ Before(s, t)
  BY <1>1, <1>2, CurrentService DEF Ordered, Starting, WithChild
<1> HIDE DEF s, p
<1>5. /\ processes' \in [Instances -> [Services -> Pids \cup {0}]]
      /\ \A j \in Instances \ {i} : processes'[j] = processes[j]
      /\ processes'[i][s] = p /\ \A t \in Services \ {s} : processes'[i][t] = processes[i][t]
  BY <1>1, <1>2, <1>3 DEF SupervisorTypes
<1>6. /\ child' \in [Instances -> Pids \cup {0}] /\ child'[i] = 0
      /\ \A j \in Instances \ {i} : child'[j] = child[j]
  BY <1>1, <1>2 DEF SupervisorTypes
<1>7. PICK b \in {"monitor", "start"} :
        pc' = [pc EXCEPT ![i] = b] /\ (b = "start" => Services \ Registered(i) # {s})
  BY <1>1
<1>8. /\ pc' \in [Instances -> Places] /\ pc'[i] = b
      /\ \A j \in Instances \ {i} : pc'[j] = pc[j]
  BY <1>2, <1>7 DEF SupervisorTypes, Places, WithMutex, WithJob, Starting
<1>9. SupervisorTypes'
  BY <1>1, <1>2, <1>5, <1>6, <1>8 DEF SupervisorTypes
<1>10. Registered(i)' = Registered(i) \cup {s}
  BY <1>3, <1>5 DEF Registered
<1>11. Ordered(i)'
  <2>1. ASSUME NEW u \in Registered(i) \cup {s}, NEW t \in Services, Before(t, u)
        PROVE  t \in Registered(i) \cup {s}
    <3>1. CASE u \in Registered(i)
      BY <1>2, <2>1, <3>1 DEF Ordered
    <3>2. CASE u = s
      <4>1. ASSUME t \notin Registered(i), t # s PROVE FALSE
        <5>1. Before(s, t)
          BY <1>4, <4>1
        <5>2. PICK n \in Nat : Round \in [Services -> 1 .. n] /\ NameRank \in [Services -> 1 .. n]
          BY RoundFacts
        <5>3. Round[s] \in Nat /\ Round[t] \in Nat /\ NameRank[s] \in Nat /\ NameRank[t] \in Nat
          BY <1>3, <5>2
        <5> QED
          BY <2>1, <3>2, <5>1, <5>3 DEF Before
      <4> QED
        BY <4>1
    <3> QED
      BY <3>1, <3>2
  <2>2. b = "start" => Registered(i) \cup {s} # Services
    BY <1>3, <1>7
  <2> QED
    BY <1>8, <1>10, <2>1, <2>2 DEF Ordered, Starting, WithChild, Gone
<1>12. Knows(i)'
  <2>1. ASSUME NEW t \in Registered(i) \cup {s}
        PROVE  /\ Owned(i, processes'[i][t]) /\ children[processes'[i][t]].svc = t
               /\ processes'[i][t] \notin retained[i]
    <3>1. CASE t = s
      BY <1>3, <1>5, <3>1
    <3>2. CASE t # s
      <4>1. t \in Registered(i) /\ processes'[i][t] = processes[i][t]
        BY <1>5, <3>2 DEF Registered
      <4> QED
        BY <1>2, <4>1 DEF Knows
    <3> QED
      BY <3>1, <3>2
  <2>2. \A q \in retained[i] : Owned(i, q)
    BY <1>2 DEF Knows
  <2>3. pc'[i] \notin WithChild /\ pc'[i] \notin Gone
    BY <1>8 DEF WithChild, Gone
  <2> QED
    BY <1>1, <1>6, <1>10, <2>1, <2>2, <2>3 DEF Knows, Owned
<1>13. ASSUME NEW j \in Instances \ {i} PROVE Knows(j)' /\ Ordered(j)'
  <2>1. ProcessesKept(j)
    BY <1>1 DEF ProcessesKept, Owned
  <2> QED
    BY <1>1, <1>2, <1>5, <1>6, <1>8, <2>1, OthersKnow DEF SupervisorInv
<1>14. Holding'
  <2>1. b \in Places /\ b \in WithMutex /\ b \in WithJob /\ pc[i] \in WithMutex /\ pc[i] \in WithJob
    BY <1>1 DEF Places, WithMutex, WithJob, Starting, WithChild
  <2> QED
    BY <1>1, <1>2, <1>7, <2>1, HoldingStays DEF SupervisorInv
<1>15. NoneCrashed' => NoneCrashed
  BY <1>1, <1>8 DEF NoneCrashed
<1>16. NothingStarts
  BY <1>1 DEF NothingStarts, Running
<1>17. Reign'
  BY <1>1, <1>15, <1>16, ReignStays
<1>18. PortsHeld'
  <2>1. ASSUME NEW k \in Instances, NEW z \in Listening, processes'[k][z] # 0,
               Running(processes'[k][z])
        PROVE  HoldsPort(processes'[k][z], z)
    <3>0. z \in Services
      BY GraphAssumption
    <3>1. CASE k = i /\ z = s
      <4>1. processes'[k][z] = p /\ children[p].svc = z
        BY <1>3, <1>5, <3>1
      <4>2. OwnsListener(p)
        BY <1>1, <4>1 DEF PassesReadiness
      <4> QED
        BY <4>1, <4>2 DEF OwnsListener
    <3>2. CASE ~(k = i /\ z = s)
      <4>1. processes'[k][z] = processes[k][z]
        BY <1>5, <3>0, <3>2
      <4> QED
        BY <2>1, <4>1 DEF SupervisorInv, PortsHeld
    <3> QED
      BY <3>1, <3>2
  <2>2. children' = children
    BY <1>1
  <2> QED
    BY <2>1, <2>2 DEF SupervisorInv, PortsHeld, HoldsPort, Running
<1> QED
  BY <1>9, <1>11, <1>12, <1>13, <1>14, <1>17, <1>18 DEF SupervisorInv

LEMMA SupervisorResumes ==
  ASSUME SupervisorInv, NEW i \in Instances,
         AssignAndResume(i)
  PROVE  SupervisorInv'
<1>1. /\ UNCHANGED <<mutex, jobs, processes, child, retained>> /\ pc[i] = "created"
      /\ pc' = [pc EXCEPT ![i] = "awaiting"]
  BY DEF AssignAndResume, Goto, handles
<1>2. SupervisorTypes /\ Knows(i) /\ Ordered(i) /\ Holding /\ Reign
  BY DEF SupervisorInv
<1>3. PICK p \in Pids :
        /\ p = child[i] /\ p # 0 /\ Owned(i, p) /\ p \notin retained[i]
        /\ children[p].svc = Current(i) /\ Current(i) \notin Registered(i)
        /\ \A s \in Registered(i) : processes[i][s] # p
  BY <1>1, ChildIsNew DEF WithChild
<1>4. PICK c \in [state : {"suspended", "running", "dead"}, svc : Services,
                 by : Instances, job : BOOLEAN, serves : BOOLEAN, bound : BOOLEAN] : c = children[p]
  BY <1>2, <1>3 DEF SupervisorTypes, Processes, Owned
<1>5. PICK d \in [state : {"suspended", "running", "dead"}, svc : Services,
                 by : Instances, job : BOOLEAN, serves : BOOLEAN, bound : BOOLEAN] :
        /\ d = [c EXCEPT !.state = "running", !.job = TRUE, !.bound = FALSE]
        /\ d.svc = c.svc /\ d.by = c.by /\ d.serves = c.serves /\ d.job /\ ~d.bound
  <2> DEFINE e == [c EXCEPT !.state = "running", !.job = TRUE, !.bound = FALSE]
  <2>1. e \in [state : {"suspended", "running", "dead"}, svc : Services,
               by : Instances, job : BOOLEAN, serves : BOOLEAN, bound : BOOLEAN]
    OBVIOUS
  <2>2. e.svc = c.svc /\ e.by = c.by /\ e.serves = c.serves /\ e.job /\ ~e.bound
    OBVIOUS
  <2> QED
    BY <2>1, <2>2
<1>6. d \in Processes /\ d # Free /\ children' = [children EXCEPT ![p] = d]
  <2>1. d \in Processes /\ d # Free
    BY DEF Processes, Free
  <2>2. children' = [children EXCEPT ![p] = d]
    BY <1>3, <1>4, <1>5 DEF AssignAndResume, Resumed
  <2> QED
    BY <2>1, <2>2
<1>7. children'[p] = d /\ \A q \in Pids \ {p} : children'[q] = children[q]
  BY <1>2, <1>6 DEF SupervisorTypes
<1>8. /\ pc' \in [Instances -> Places] /\ pc'[i] = "awaiting"
      /\ \A j \in Instances \ {i} : pc'[j] = pc[j]
  BY <1>1, <1>2 DEF SupervisorTypes, Places, WithMutex, WithJob, Starting, WithChild
<1>9. SupervisorTypes'
  <2>1. children' \in [Pids -> Processes]
    BY <1>2, <1>6 DEF SupervisorTypes
  <2> QED
    BY <1>1, <1>2, <1>8, <2>1 DEF SupervisorTypes
<1>10. \A j \in Instances : ProcessesKept(j)
  BY <1>4, <1>5, <1>6, <1>7 DEF ProcessesKept, Owned
<1>11. ASSUME NEW j \in Instances \ {i} PROVE Knows(j)' /\ Ordered(j)'
  BY <1>1, <1>2, <1>8, <1>10, OthersKnow DEF SupervisorInv
<1>12. Registered(i)' = Registered(i) /\ Current(i)' = Current(i)
  BY <1>1, OrderKept
<1>13. Ordered(i)'
  BY <1>1, <1>2, <1>8, <1>12 DEF Ordered, Starting, WithChild, Gone
<1>14. Knows(i)'
  <2>1. \A q \in Pids : Owned(i, q) => Owned(i, q)' /\ children'[q].svc = children[q].svc
    BY <1>10 DEF ProcessesKept, Owned
  <2>2. \A s \in Registered(i) : processes[i][s] \in Pids
    BY <1>2 DEF Registered, SupervisorTypes
  <2>3. retained[i] \subseteq Pids
    BY <1>2 DEF SupervisorTypes
  <2>4. child[i] # 0 /\ Owned(i, child[i])' /\ children'[child[i]].svc = Current(i) /\ child[i] \notin retained[i]
    BY <1>1, <1>3, <2>1
  <2>5. \A s \in Registered(i) : /\ Owned(i, processes[i][s])' /\ children'[processes[i][s]].svc = s
                                 /\ processes[i][s] \notin retained[i]
    BY <1>1, <1>2, <2>1, <2>2 DEF Knows
  <2>6. \A q \in retained[i] : Owned(i, q)'
    BY <1>2, <2>1, <2>3 DEF Knows
  <2>7. pc'[i] \in WithChild /\ pc'[i] \notin Gone
    BY <1>8 DEF WithChild, Gone
  <2> QED
    BY <1>1, <1>12, <2>4, <2>5, <2>6, <2>7 DEF Knows
<1>15. pc[i] \in WithMutex /\ pc[i] \in WithJob /\ "awaiting" \in Places
        /\ "awaiting" \in WithMutex /\ "awaiting" \in WithJob
  BY <1>1 DEF Places, WithMutex, WithJob, Starting, WithChild
<1>16. Holding' /\ mutex = i /\ i \in jobs
  BY <1>1, <1>2, <1>15, HoldingStays DEF Holding
<1>17. NoneCrashed' => NoneCrashed
  BY <1>1, <1>8 DEF NoneCrashed
<1>18. Reign'
  <2>1. ASSUME NEW q \in Pids, Running(q)'
        PROVE  children'[q].job /\ jobs' # {} /\ (NoneCrashed' => mutex' = children'[q].by)
    <3>1. CASE q = p
      BY <1>1, <1>3, <1>4, <1>5, <1>7, <1>16, <3>1 DEF Owned
    <3>2. CASE q # p
      <4>1. children'[q] = children[q] /\ Running(q)
        BY <1>7, <2>1, <3>2 DEF Running
      <4> QED
        BY <1>1, <1>2, <1>17, <4>1 DEF Reign
    <3> QED
      BY <3>1, <3>2
  <2> QED
    BY <2>1 DEF Reign
<1>19. PortsHeld'
  <2>1. ASSUME NEW q \in Pids, NEW s, HoldsPort(q, s)' PROVE HoldsPort(q, s)
    <3>1. q # p
      BY <1>5, <1>7, <2>1 DEF HoldsPort
    <3> QED
      BY <1>7, <2>1, <3>1 DEF HoldsPort, Running
  <2>2. ASSUME NEW k \in Instances, NEW s \in Listening, processes[k][s] # 0,
               Running(processes[k][s])'
        PROVE  HoldsPort(processes[k][s], s)'
    <3>1. s \in Services /\ s \in Registered(k)
      BY <2>2, GraphAssumption DEF Registered
    <3>2. processes[k][s] \in Pids /\ Owned(k, processes[k][s])
      BY <1>2, <2>2, <3>1 DEF SupervisorInv, Knows, SupervisorTypes
    <3>3. processes[k][s] # p
      BY <1>3, <3>1, <3>2 DEF Owned
    <3>4. children'[processes[k][s]] = children[processes[k][s]]
      BY <1>7, <3>2, <3>3
    <3>5. HoldsPort(processes[k][s], s)
      BY <1>1, <2>2, <3>4 DEF SupervisorInv, PortsHeld, Running
    <3> QED
      BY <1>1, <2>2, <3>4, <3>5 DEF HoldsPort, Running
  <2>3. processes' = processes
    BY <1>1
  <2> QED
    BY <2>1, <2>2, <2>3 DEF SupervisorInv, PortsHeld, HoldsPort, Running
<1> QED
  BY <1>9, <1>11, <1>13, <1>14, <1>16, <1>18, <1>19 DEF SupervisorInv

\* A step of Windows: no instance runs.
LEMMA WorldStep ==
  ASSUME SupervisorInv, UNCHANGED <<pc, processes, child, retained>>,
         children' \in [Pids -> Processes], jobs' \subseteq Instances, NothingStarts,
         \A j \in Instances : pc[j] \notin Gone => ProcessesKept(j),
         Holding', Reign'
  PROVE  SupervisorInv'
<1>1. SupervisorTypes'
  BY DEF SupervisorInv, SupervisorTypes
<1>2. PortsHeld'
  <2>1. NoneCrashed' => NoneCrashed
    BY DEF NoneCrashed
  <2>2. \A i \in Instances, s \in Services : processes'[i][s] \in {processes[i][s], 0}
    OBVIOUS
  <2> QED
    BY <1>1, <2>1, <2>2, PortsStay
<1>3. ASSUME NEW j \in Instances PROVE Knows(j)' /\ Ordered(j)'
  BY OthersKnow DEF SupervisorInv
<1> QED
  BY <1>1, <1>2, <1>3 DEF SupervisorInv

\* What has been killed: an entry that nobody watches is gone.
LEMMA KilledProcess ==
  ASSUME SupervisorTypes, NEW p \in Pids, children[p] # Free
  PROVE  /\ Killed(children[p]) \in Processes
         /\ Killed(children[p]).state # "running"
         /\ pc[children[p].by] \notin Gone =>
               /\ Killed(children[p]) # Free
               /\ Killed(children[p]).by = children[p].by
               /\ Killed(children[p]).svc = children[p].svc
<1>1. PICK c \in [state : {"suspended", "running", "dead"}, svc : Services,
                 by : Instances, job : BOOLEAN, serves : BOOLEAN, bound : BOOLEAN] : c = children[p]
  BY DEF SupervisorTypes, Processes
<1>2. /\ [c EXCEPT !.state = "dead"] \in [state : {"suspended", "running", "dead"}, svc : Services,
                                          by : Instances, job : BOOLEAN, serves : BOOLEAN, bound : BOOLEAN]
      /\ [c EXCEPT !.state = "dead"].state = "dead"
      /\ [c EXCEPT !.state = "dead"].by = c.by /\ [c EXCEPT !.state = "dead"].svc = c.svc
  OBVIOUS
<1>3. [c EXCEPT !.state = "dead"] \in Processes /\ [c EXCEPT !.state = "dead"] # Free
  BY <1>2 DEF Processes, Free
<1>4. Free \in Processes /\ Free.state = "free"
  BY DEF Processes, Free
<1>5. CASE pc[c.by] \in Gone
  BY <1>1, <1>4, <1>5 DEF Killed
<1>6. CASE pc[c.by] \notin Gone
  BY <1>1, <1>2, <1>3, <1>6 DEF Killed
<1> QED
  BY <1>1, <1>5, <1>6

LEMMA ChildEnds ==
  ASSUME SupervisorInv, NEW p \in Pids, ChildExits(p)
  PROVE  SupervisorInv'
<1>1. /\ UNCHANGED <<pc, mutex, jobs, processes, child, retained>> /\ Running(p)
      /\ children' = [children EXCEPT ![p] = Killed(children[p])]
  BY DEF ChildExits, handles
<1>2. SupervisorTypes /\ Holding
  BY DEF SupervisorInv
<1>3. children[p] # Free
  BY <1>1 DEF Running, Free
<1>4. PICK d \in Processes :
        /\ d = Killed(children[p]) /\ d.state # "running"
        /\ pc[children[p].by] \notin Gone =>
             d # Free /\ d.by = children[p].by /\ d.svc = children[p].svc
  BY <1>2, <1>3, KilledProcess
<1>5. children'[p] = d /\ \A q \in Pids \ {p} : children'[q] = children[q]
  BY <1>1, <1>2, <1>4 DEF SupervisorTypes
<1>6. children' \in [Pids -> Processes]
  BY <1>1, <1>2, <1>4 DEF SupervisorTypes
<1>7. NothingStarts
  BY <1>4, <1>5 DEF NothingStarts, Running
<1>8. \A j \in Instances : pc[j] \notin Gone => ProcessesKept(j)
  BY <1>4, <1>5 DEF ProcessesKept, Owned
<1>9. Holding'
  BY <1>1, <1>2 DEF Holding
<1>10. NoneCrashed' => NoneCrashed
  BY <1>1 DEF NoneCrashed
<1>11. Reign' /\ jobs' \subseteq Instances
  BY <1>1, <1>2, <1>7, <1>10, ReignStays DEF SupervisorTypes
<1> QED
  BY <1>1, <1>6, <1>7, <1>8, <1>9, <1>11, WorldStep

LEMMA JobCloses ==
  ASSUME SupervisorInv, NEW i \in Instances, CloseJobHandle(i)
  PROVE  /\ children' \in [Pids -> Processes] /\ NothingStarts /\ jobs' = jobs \ {i}
         /\ \A j \in Instances : pc[j] \notin Gone => ProcessesKept(j)
         /\ \A p \in Pids : Running(p)' => jobs' # {}
<1>1. SupervisorTypes /\ Reign
  BY DEF SupervisorInv
<1>2. ASSUME NEW p \in Pids
      PROVE  \/ children'[p] = children[p] /\ (jobs = {i} => children[p] = Free \/ ~children[p].job \/ Dead(p))
             \/ children[p] # Free /\ children'[p] = Killed(children[p])
  BY DEF CloseJobHandle
<1>3. \A p \in Pids : children'[p] \in Processes
  BY <1>1, <1>2, KilledProcess DEF SupervisorTypes
<1>4. children' \in [Pids -> Processes] /\ jobs' = jobs \ {i}
  BY <1>3 DEF CloseJobHandle
<1>5. \A p \in Pids : Running(p)' => children'[p] = children[p] /\ Running(p)
  BY <1>1, <1>2, KilledProcess DEF Running
<1>6. NothingStarts
  BY <1>5 DEF NothingStarts
<1>7. \A j \in Instances : pc[j] \notin Gone => ProcessesKept(j)
  BY <1>1, <1>2, KilledProcess DEF ProcessesKept, Owned
<1>8. ASSUME NEW p \in Pids, Running(p)' PROVE jobs' # {}
  <2>1. Running(p) /\ children'[p] = children[p]
    BY <1>5, <1>8
  <2>2. children[p].job /\ jobs # {}
    BY <1>1, <2>1 DEF Reign
  <2>3. children[p] # Free /\ ~Dead(p)
    BY <2>1 DEF Running, Dead, Free
  <2>4. Killed(children[p]).state # "running"
    BY <1>1, <2>3, KilledProcess
  <2>5. children'[p] # Killed(children[p])
    BY <2>1, <2>4 DEF Running
  <2>6. jobs # {i}
    BY <1>2, <2>2, <2>3, <2>5
  <2> QED
    BY <1>4, <2>2, <2>6
<1> QED
  BY <1>4, <1>6, <1>7, <1>8

LEMMA HandlesClose ==
  ASSUME SupervisorInv, NEW i \in Instances, HandleCloses(i)
  PROVE  SupervisorInv'
<1>1. UNCHANGED <<pc, processes, child, retained>> /\ pc[i] = "crashed"
  BY DEF HandleCloses
<1>2. SupervisorTypes /\ Holding /\ Reign /\ ~NoneCrashed'
  BY <1>1 DEF SupervisorInv, NoneCrashed
<1>0. "crashed" \notin WithMutex /\ "crashed" \notin WithJob
  BY DEF WithMutex, WithJob, Starting, WithChild
<1>3. CASE mutex = i /\ mutex' = None /\ UNCHANGED <<jobs, children>>
  <2>1. Holding'
    BY <1>0, <1>1, <1>2, <1>3 DEF Holding
  <2>2. NothingStarts /\ \A j \in Instances : ProcessesKept(j)
    BY <1>3 DEF NothingStarts, ProcessesKept, Owned, Running
  <2>3. Reign'
    BY <1>2, <1>3 DEF Reign, Running
  <2>4. children' \in [Pids -> Processes] /\ jobs' \subseteq Instances
    BY <1>2, <1>3 DEF SupervisorTypes
  <2> QED
    BY <1>1, <2>1, <2>2, <2>3, <2>4, WorldStep
<1>4. CASE i \in jobs /\ CloseJobHandle(i) /\ UNCHANGED mutex
  <2>1. /\ children' \in [Pids -> Processes] /\ NothingStarts /\ jobs' = jobs \ {i}
        /\ \A j \in Instances : pc[j] \notin Gone => ProcessesKept(j)
        /\ \A p \in Pids : Running(p)' => jobs' # {}
    BY <1>4, JobCloses
  <2>2. Holding' /\ jobs' \subseteq Instances
    BY <1>0, <1>1, <1>2, <1>4, <2>1 DEF Holding, SupervisorTypes
  <2>3. Reign'
    BY <1>2, <2>1 DEF Reign, NothingStarts
  <2> QED
    BY <1>1, <2>1, <2>2, <2>3, WorldStep
<1> QED
  BY <1>3, <1>4 DEF HandleCloses

\* A step of instance i that gives something up: it starts no process.
LEMMA LeavingStep ==
  ASSUME SupervisorInv, NEW i \in Instances, SupervisorTypes',
         NothingStarts, NoneCrashed' => NoneCrashed, Holding', Reign',
         Knows(i)', Ordered(i)',
         \A s \in Services : processes'[i][s] \in {processes[i][s], 0},
         \A j \in Instances \ {i} :
           /\ pc'[j] = pc[j] /\ child'[j] = child[j]
           /\ processes'[j] = processes[j] /\ retained'[j] = retained[j]
           /\ pc[j] \notin Gone => ProcessesKept(j)
  PROVE  SupervisorInv'
<1>0. SupervisorTypes
  BY DEF SupervisorInv
<1>1. PortsHeld'
  <2>1. \A j \in Instances, s \in Services : processes'[j][s] \in {processes[j][s], 0}
    OBVIOUS
  <2> QED
    BY <2>1, PortsStay
<1>2. ASSUME NEW j \in Instances \ {i} PROVE Knows(j)' /\ Ordered(j)'
  <2>1. Knows(j) /\ Ordered(j)
    BY DEF SupervisorInv
  <2> QED
    BY <1>0, <2>1, OthersKnow
<1> QED
  BY <1>1, <1>2 DEF SupervisorInv

\* An instance outside a start that goes on with the same processes.
LEMMA StillKnows ==
  ASSUME SupervisorTypes, NEW i \in Instances, Knows(i), Ordered(i),
         pc[i] \notin WithChild, pc'[i] \notin Starting,
         pc'[i] \notin Gone \cup {"opening", "sleep", "reap"},
         child'[i] = child[i], processes'[i] = processes[i],
         retained'[i] = retained[i], ProcessesKept(i)
  PROVE  Knows(i)' /\ Ordered(i)'
<1>1. Registered(i)' = Registered(i)
  BY OrderKept
<1>2. child[i] = 0 /\ pc'[i] \notin WithChild
  BY DEF Knows, Starting
<1>3. Ordered(i)'
  BY <1>1 DEF Ordered
<1>4. \A p \in Pids : Owned(i, p) => Owned(i, p)' /\ children'[p].svc = children[p].svc
  BY DEF ProcessesKept, Owned
<1>5. \A s \in Registered(i) : processes[i][s] \in Pids
  BY DEF Registered, SupervisorTypes
<1>6. retained[i] \subseteq Pids
  BY DEF SupervisorTypes
<1>7. \A s \in Registered(i) : /\ Owned(i, processes[i][s])' /\ children'[processes[i][s]].svc = s
                               /\ processes[i][s] \notin retained[i]
  BY <1>4, <1>5 DEF Knows
<1>8. \A p \in retained[i] : Owned(i, p)'
  BY <1>4, <1>6 DEF Knows
<1> QED
  BY <1>1, <1>2, <1>3, <1>7, <1>8 DEF Knows, Owned

LEMMA SupervisorLeavesJob ==
  ASSUME SupervisorInv, NEW i \in Instances, LeaveJob(i)
  PROVE  SupervisorInv'
<1>1. /\ pc[i] = "closejob" /\ CloseJobHandle(i) /\ pc' = [pc EXCEPT ![i] = "closemutex"]
      /\ UNCHANGED <<mutex, processes, child, retained>>
  BY DEF LeaveJob, Goto
<1>2. SupervisorTypes /\ Holding /\ Reign /\ Knows(i) /\ Ordered(i)
  BY DEF SupervisorInv
<1>3. /\ children' \in [Pids -> Processes] /\ NothingStarts /\ jobs' = jobs \ {i}
      /\ \A j \in Instances : pc[j] \notin Gone => ProcessesKept(j)
      /\ \A p \in Pids : Running(p)' => jobs' # {}
  BY <1>1, JobCloses
<1>4. /\ pc' \in [Instances -> Places] /\ pc'[i] = "closemutex"
      /\ \A j \in Instances \ {i} : pc'[j] = pc[j]
  BY <1>1, <1>2 DEF SupervisorTypes, Places, WithMutex
<1>5. SupervisorTypes'
  BY <1>1, <1>2, <1>3, <1>4 DEF SupervisorTypes
<1>6. NoneCrashed' => NoneCrashed
  BY <1>1, <1>4 DEF NoneCrashed
<1>7. /\ pc[i] \in WithMutex /\ pc[i] \notin WithChild /\ pc[i] \notin Gone
      /\ pc'[i] \notin WithJob /\ pc'[i] \notin Starting
      /\ pc'[i] \notin Gone \cup {"opening", "sleep", "reap"}
  BY <1>1, <1>4 DEF WithMutex, WithJob, Starting, WithChild, Gone
<1>8. Holding'
  <2>1. ASSUME NEW j \in Instances
        PROVE  /\ pc'[j] \in WithMutex => mutex' = j
               /\ pc'[j] \in WithJob => j \in jobs'
    BY <1>1, <1>2, <1>3, <1>4, <1>7 DEF Holding
  <2>2. ASSUME NEW j \in jobs' PROVE pc'[j] \in WithJob \cup {"crashed"}
    BY <1>2, <1>3, <1>4 DEF Holding, SupervisorTypes
  <2> QED
    BY <2>1, <2>2 DEF Holding
<1>9. Reign'
  BY <1>1, <1>2, <1>3, <1>6 DEF Reign, NothingStarts
<1>10. Knows(i)' /\ Ordered(i)'
  BY <1>1, <1>2, <1>3, <1>7, StillKnows
<1>11. \A s \in Services : processes'[i][s] \in {processes[i][s], 0}
  BY <1>1
<1>12. \A j \in Instances \ {i} :
        /\ pc'[j] = pc[j] /\ child'[j] = child[j]
        /\ processes'[j] = processes[j] /\ retained'[j] = retained[j]
        /\ pc[j] \notin Gone => ProcessesKept(j)
  BY <1>1, <1>3, <1>4
<1> QED
  BY <1>3, <1>5, <1>6, <1>8, <1>9, <1>10, <1>11, <1>12, LeavingStep

\* The job has been left before the mutex, so nothing runs any more.
LEMMA SupervisorLeavesMutex ==
  ASSUME SupervisorInv, NEW i \in Instances, LeaveMutex(i)
  PROVE  SupervisorInv'
<1>1. /\ pc[i] = "closemutex" /\ mutex' = None /\ pc' = [pc EXCEPT ![i] = "final"]
      /\ UNCHANGED <<jobs, children, processes, child, retained>>
  BY DEF LeaveMutex, Goto
<1>2. SupervisorTypes /\ Holding /\ Reign /\ Knows(i) /\ Ordered(i)
  BY DEF SupervisorInv
<1>3. NothingStarts /\ \A j \in Instances : ProcessesKept(j)
  BY <1>1 DEF NothingStarts, ProcessesKept, Owned, Running
<1>4. /\ pc' \in [Instances -> Places] /\ pc'[i] = "final"
      /\ \A j \in Instances \ {i} : pc'[j] = pc[j]
  BY <1>1, <1>2 DEF SupervisorTypes, Places
<1>5. SupervisorTypes'
  BY <1>1, <1>2, <1>4 DEF SupervisorTypes
<1>6. NoneCrashed' => NoneCrashed
  BY <1>1, <1>4 DEF NoneCrashed
<1>7. /\ pc[i] \in WithMutex /\ pc[i] \notin WithJob \cup {"crashed"} /\ pc[i] \notin WithChild
      /\ pc'[i] \notin WithMutex /\ pc'[i] \notin WithJob /\ pc'[i] \notin Starting
      /\ pc'[i] \notin Gone \cup {"opening", "sleep", "reap"}
  BY <1>1, <1>4 DEF WithMutex, WithJob, Starting, WithChild, Gone
<1>8. \A j \in Instances \ {i} : pc[j] \notin WithMutex
  BY <1>2, <1>7 DEF Holding
<1>9. Holding'
  <2>1. ASSUME NEW j \in Instances
        PROVE  /\ pc'[j] \in WithMutex => mutex' = j
               /\ pc'[j] \in WithJob => j \in jobs'
    BY <1>1, <1>2, <1>4, <1>7, <1>8 DEF Holding
  <2>2. ASSUME NEW j \in jobs' PROVE pc'[j] \in WithJob \cup {"crashed"}
    BY <1>1, <1>2, <1>4, <1>7 DEF Holding, SupervisorTypes
  <2> QED
    BY <2>1, <2>2 DEF Holding
<1>10. ASSUME NEW p \in Pids, Running(p), NoneCrashed PROVE FALSE
  <2>1. PICK j \in jobs : TRUE
    BY <1>2, <1>10 DEF Reign
  <2>2. j \in Instances /\ pc[j] \in WithJob
    BY <1>2, <1>10 DEF Holding, SupervisorTypes, NoneCrashed
  <2> QED
    BY <1>7, <1>8, <2>2 DEF WithMutex
<1>11. Reign'
  <2>1. ASSUME NEW p \in Pids, Running(p)'
        PROVE  children'[p].job /\ jobs' # {} /\ (NoneCrashed' => mutex' = children'[p].by)
    BY <1>1, <1>2, <1>6, <1>10, <2>1 DEF Reign, Running
  <2> QED
    BY <2>1 DEF Reign
<1>12. Knows(i)' /\ Ordered(i)'
  BY <1>1, <1>2, <1>3, <1>7, StillKnows
<1>13. \A s \in Services : processes'[i][s] \in {processes[i][s], 0}
  BY <1>1
<1>14. \A j \in Instances \ {i} :
        /\ pc'[j] = pc[j] /\ child'[j] = child[j]
        /\ processes'[j] = processes[j] /\ retained'[j] = retained[j]
        /\ pc[j] \notin Gone => ProcessesKept(j)
  BY <1>1, <1>3, <1>4
<1> QED
  BY <1>3, <1>5, <1>6, <1>9, <1>11, <1>12, <1>13, <1>14, LeavingStep

LEMMA SupervisorCrashes ==
  ASSUME SupervisorInv, NEW i \in Instances, SupervisorDies(i)
  PROVE  SupervisorInv'
<1>1. /\ pc[i] \notin Gone /\ pc' = [pc EXCEPT ![i] = "crashed"]
      /\ processes' = [processes EXCEPT ![i] = [s \in Services |-> 0]]
      /\ child' = [child EXCEPT ![i] = 0] /\ retained' = [retained EXCEPT ![i] = {}]
      /\ UNCHANGED <<mutex, jobs>>
  BY DEF SupervisorDies, Goto, handles
<1>2. SupervisorTypes /\ Holding /\ Reign
  BY DEF SupervisorInv
<1>3. ASSUME NEW p \in Pids
      PROVE  \/ children'[p] = children[p]
             \/ children'[p] = Free /\ children[p].by = i
  BY DEF SupervisorDies
<1>4. children' \in [Pids -> Processes]
  <2>1. \A p \in Pids : children'[p] \in Processes
    BY <1>2, <1>3 DEF SupervisorTypes, Processes
  <2>2. children' = [p \in Pids |-> children'[p]]
    BY DEF SupervisorDies
  <2> QED
    BY <2>1, <2>2
<1>5. NothingStarts
  BY <1>3 DEF NothingStarts, Running, Free
<1>6. \A j \in Instances \ {i} : ProcessesKept(j)
  BY <1>3 DEF ProcessesKept, Owned
<1>7. /\ pc' \in [Instances -> Places] /\ pc'[i] = "crashed"
      /\ \A j \in Instances \ {i} : pc'[j] = pc[j]
  BY <1>1, <1>2 DEF SupervisorTypes, Places, Gone
<1>8. /\ processes' \in [Instances -> [Services -> Pids \cup {0}]]
      /\ processes'[i] = [s \in Services |-> 0]
      /\ \A j \in Instances \ {i} : processes'[j] = processes[j]
  BY <1>1, <1>2 DEF SupervisorTypes
<1>9. /\ child' \in [Instances -> Pids \cup {0}] /\ child'[i] = 0
      /\ \A j \in Instances \ {i} : child'[j] = child[j]
  BY <1>1, <1>2 DEF SupervisorTypes
<1>10. /\ retained' \in [Instances -> SUBSET Pids] /\ retained'[i] = {}
       /\ \A j \in Instances \ {i} : retained'[j] = retained[j]
  BY <1>1, <1>2 DEF SupervisorTypes
<1>11. SupervisorTypes'
  BY <1>1, <1>2, <1>4, <1>7, <1>8, <1>9, <1>10 DEF SupervisorTypes
<1>12. ~NoneCrashed'
  BY <1>7 DEF NoneCrashed
<1>13. pc'[i] \notin WithMutex /\ pc'[i] \notin Starting /\ pc'[i] \notin WithChild
  BY <1>7 DEF WithMutex, WithJob, Starting, WithChild
<1>14. Holding'
  <2>1. ASSUME NEW j \in Instances
        PROVE  /\ pc'[j] \in WithMutex => mutex' = j
               /\ pc'[j] \in WithJob => j \in jobs'
    BY <1>1, <1>2, <1>7, <1>13 DEF Holding, WithMutex
  <2>2. ASSUME NEW j \in jobs' PROVE pc'[j] \in WithJob \cup {"crashed"}
    BY <1>1, <1>2, <1>7 DEF Holding, SupervisorTypes
  <2> QED
    BY <2>1, <2>2 DEF Holding
<1>15. Reign'
  BY <1>1, <1>2, <1>5, <1>12 DEF Reign, NothingStarts
<1>16. Registered(i)' = {}
  BY <1>8 DEF Registered
<1>17. Knows(i)'
  BY <1>9, <1>10, <1>13, <1>16 DEF Knows
<1>18. Ordered(i)'
  BY <1>13, <1>16 DEF Ordered
<1>19. \A s \in Services : processes'[i][s] \in {processes[i][s], 0}
  BY <1>8
<1>20. \A j \in Instances \ {i} :
        /\ pc'[j] = pc[j] /\ child'[j] = child[j]
        /\ processes'[j] = processes[j] /\ retained'[j] = retained[j]
        /\ pc[j] \notin Gone => ProcessesKept(j)
  BY <1>6, <1>7, <1>8, <1>9, <1>10
<1> QED
  BY <1>5, <1>11, <1>12, <1>14, <1>15, <1>17, <1>18, <1>19, <1>20, LeavingStep

\* A process binds the port of its service, which nobody holds.
LEMMA SupervisorBinds ==
  ASSUME SupervisorInv, NEW p \in Pids, Bind(p)
  PROVE  SupervisorInv'
<1>1. /\ UNCHANGED <<pc, mutex, jobs, processes, child, retained>> /\ Running(p)
      /\ \A q \in Pids : ~HoldsPort(q, children[p].svc)
      /\ children' = [children EXCEPT ![p].bound = TRUE]
  BY DEF Bind, handles
<1>2. SupervisorTypes /\ Holding /\ Reign
  BY DEF SupervisorInv
<1>3. PICK c \in [state : {"suspended", "running", "dead"}, svc : Services,
                 by : Instances, job : BOOLEAN, serves : BOOLEAN, bound : BOOLEAN] :
        c = children[p]
  BY <1>1, <1>2 DEF SupervisorTypes, Processes, Running, Free
<1>4. PICK d \in [state : {"suspended", "running", "dead"}, svc : Services,
                 by : Instances, job : BOOLEAN, serves : BOOLEAN, bound : BOOLEAN] :
        /\ d = [c EXCEPT !.bound = TRUE] /\ d.state = c.state /\ d.svc = c.svc
        /\ d.by = c.by /\ d.job = c.job /\ d.bound
  <2> DEFINE e == [c EXCEPT !.bound = TRUE]
  <2>1. e \in [state : {"suspended", "running", "dead"}, svc : Services,
               by : Instances, job : BOOLEAN, serves : BOOLEAN, bound : BOOLEAN]
    OBVIOUS
  <2>2. e.state = c.state /\ e.svc = c.svc /\ e.by = c.by /\ e.job = c.job /\ e.bound
    OBVIOUS
  <2> QED
    BY <2>1, <2>2
<1>5. d \in Processes /\ d # Free /\ children' = [children EXCEPT ![p] = d]
  <2>1. d \in Processes /\ d # Free
    BY DEF Processes, Free
  <2>2. children' = [children EXCEPT ![p] = d]
    BY <1>1, <1>3, <1>4
  <2> QED
    BY <2>1, <2>2
<1>6. children'[p] = d /\ \A q \in Pids \ {p} : children'[q] = children[q]
  BY <1>2, <1>5 DEF SupervisorTypes
<1>7. SupervisorTypes' /\ Holding'
  <2>1. children' \in [Pids -> Processes]
    BY <1>2, <1>5 DEF SupervisorTypes
  <2> QED
    BY <1>1, <1>2, <2>1 DEF SupervisorTypes, Holding
<1>8. \A q \in Pids : /\ Running(q)' <=> Running(q)
                      /\ Running(q) => /\ children'[q].by = children[q].by
                                       /\ children'[q].job = children[q].job
                                       /\ children'[q].svc = children[q].svc
  BY <1>3, <1>4, <1>6 DEF Running
<1>9. Reign'
  BY <1>1, <1>2, <1>8 DEF Reign, NoneCrashed
<1>10. \A j \in Instances : ProcessesKept(j)
  BY <1>3, <1>4, <1>5, <1>6 DEF ProcessesKept, Owned
<1>11. ASSUME NEW j \in Instances PROVE Knows(j)' /\ Ordered(j)'
  BY <1>1, <1>2, <1>10, OthersKnow DEF SupervisorInv
<1>12. PortsHeld'
  <2>1. ASSUME NEW q \in Pids, NEW s, HoldsPort(q, s)'
        PROVE  HoldsPort(q, s) \/ (q = p /\ s = children[p].svc)
    BY <1>3, <1>4, <1>6, <2>1 DEF HoldsPort, Running
  <2>2. ASSUME NEW q \in Pids, NEW s, HoldsPort(q, s) PROVE HoldsPort(q, s)'
    BY <1>3, <1>4, <1>6, <2>2 DEF HoldsPort, Running
  <2>3. ASSUME NEW q \in Pids, NEW u \in Pids, NEW s \in Services,
               HoldsPort(q, s)', HoldsPort(u, s)'
        PROVE  q = u
    BY <1>1, <2>1, <2>3 DEF SupervisorInv, PortsHeld
  <2>4. ASSUME NEW k \in Instances, NEW s \in Listening, processes[k][s] # 0,
               Running(processes[k][s])'
        PROVE  HoldsPort(processes[k][s], s)'
    <3>1. processes[k][s] \in Pids
      BY <1>2, <2>4, GraphAssumption DEF SupervisorTypes
    <3>2. Running(processes[k][s])
      BY <1>1, <1>8, <2>4, <3>1 DEF Running
    <3>3. HoldsPort(processes[k][s], s)
      BY <2>4, <3>2 DEF SupervisorInv, PortsHeld
    <3>4. PICK own \in Pids : own = processes[k][s] /\ HoldsPort(own, s)
      BY <3>1, <3>3
    <3>5. HoldsPort(own, s)'
      BY <2>2, <3>4
    <3> QED
      BY <1>1, <3>4, <3>5 DEF HoldsPort, Running
  <2> QED
    BY <1>1, <2>3, <2>4 DEF PortsHeld, HoldsPort, Running
<1> QED
  BY <1>7, <1>9, <1>11, <1>12 DEF SupervisorInv

\* The clock, and a step of nobody.
LEMMA SupervisorStutters ==
  ASSUME SupervisorInv,
         UNCHANGED <<pc, mutex, jobs, children, processes, child, retained>>
  PROVE  SupervisorInv'
<1>1. SupervisorTypes' /\ Holding'
  BY DEF SupervisorInv, SupervisorTypes, Holding
<1>2. Reign'
  BY DEF SupervisorInv, Reign, NoneCrashed, Running
<1>3. PortsHeld'
  BY DEF SupervisorInv, PortsHeld, HoldsPort, Running
<1>4. ASSUME NEW i \in Instances PROVE Knows(i)' /\ Ordered(i)'
  <2>1. Registered(i)' = Registered(i) /\ Current(i)' = Current(i)
    BY OrderKept
  <2>2. Knows(i) /\ Ordered(i)
    BY DEF SupervisorInv
  <2> QED
    BY <2>1, <2>2 DEF Knows, Ordered, Owned
<1> QED
  BY <1>1, <1>2, <1>3, <1>4 DEF SupervisorInv

LEMMA SupervisorSteps ==
  ASSUME SupervisorInv,
         [SupervisorNext]_supervisorVars
  PROVE  SupervisorInv'
<1>1. ASSUME NEW i \in Instances, Step(i) PROVE SupervisorInv'
  <2>1. CASE \/ NotReady(i) \/ CascadeEnd(i) \/ Wake(i)
             \/ DetectExit(i) \/ FinalEnd(i)
    BY <2>1, SupervisorMoves
  <2>2. CASE ValidationPasses(i) \/ AbortStart(i)
    BY <2>2, SupervisorAborts
  <2>3. CASE OpenJob(i)
    BY <2>3, SupervisorOpensJob
  <2>4. CASE CreateSuspended(i)
    BY <2>4, SupervisorCreates
  <2>5. CASE AssignAndResume(i)
    BY <2>5, SupervisorResumes
  <2>6. CASE Ready(i)
    BY <2>6, SupervisorReady
  <2>7. CASE CascadeStop(i)
    BY <2>7, SupervisorCascades
  <2>8. CASE LeaveJob(i)
    BY <2>8, SupervisorLeavesJob
  <2>9. CASE LeaveMutex(i)
    BY <2>9, SupervisorLeavesMutex
  <2>10. CASE ReapRetained(i)
    BY <2>10, SupervisorReaps
  <2>11. CASE HandleCloses(i)
    BY <2>11, HandlesClose
  <2> QED
    BY <1>1, <2>1, <2>2, <2>3, <2>4, <2>5, <2>6, <2>7, <2>8, <2>9, <2>10, <2>11 DEF Step
<1>2. ASSUME NEW i \in Instances,
             \/ Launch(i) \/ JobFails(i) \/ PrepareFails(i)
             \/ AssignOrResumeFails(i) \/ Interrupt(i) \/ SupervisorDies(i)
      PROVE  SupervisorInv'
  <2>1. CASE Launch(i)
    BY <2>1, SupervisorLaunches
  <2>2. CASE JobFails(i) \/ PrepareFails(i) \/ Interrupt(i)
    BY <2>2, SupervisorMoves
  <2>3. CASE AssignOrResumeFails(i)
    BY <2>3, SupervisorAborts
  <2>4. CASE SupervisorDies(i)
    BY <2>4, SupervisorCrashes
  <2> QED
    BY <1>2, <2>1, <2>2, <2>3, <2>4
<1>3. ASSUME NEW p \in Pids, Bind(p) \/ ChildExits(p) PROVE SupervisorInv'
  BY <1>3, ChildEnds, SupervisorBinds
<1>4. CASE Tick
  BY <1>4, SupervisorStutters DEF Tick, handles
<1>5. CASE UNCHANGED supervisorVars
  BY <1>5, SupervisorStutters DEF supervisorVars
<1> QED
  BY <1>1, <1>2, <1>3, <1>4, <1>5 DEF SupervisorNext

\* The map holds an initial part of the order, and the order puts a service
\* after what it depends on.
LEMMA OrderImpliesDependencies ==
  ASSUME SupervisorInv
  PROVE  DependencyOrder
<1>1. PICK n \in Nat :
         /\ Round \in [Services -> 1 .. n] /\ NameRank \in [Services -> 1 .. n]
         /\ \A s \in Services : /\ Dependencies[s] \subseteq Services
                                /\ \A t \in Dependencies[s] : Round[t] < Round[s]
  BY RoundFacts
<1>2. ASSUME NEW i \in Instances, NEW s \in Registered(i)
      PROVE  Dependencies[s] \subseteq Registered(i)
  <2>1. s \in Services
    BY DEF Registered
  <2>2. \A t \in Dependencies[s] : t \in Services /\ Before(t, s)
    BY <1>1, <2>1 DEF Before
  <2>3. Ordered(i)
    BY DEF SupervisorInv
  <2> QED
    BY <2>2, <2>3 DEF Ordered
<1>3. ASSUME NEW i \in Instances, child[i] # 0
      PROVE  Dependencies[children[child[i]].svc] \subseteq Registered(i)
  <2>1. Knows(i) /\ Ordered(i)
    BY DEF SupervisorInv
  <2>2. Registered(i) # Services /\ children[child[i]].svc = Current(i)
    BY <1>3, <2>1 DEF Knows, Ordered, Starting
  <2>3. /\ Current(i) \in Services
        /\ \A t \in Services \ Registered(i) : t = Current(i) \/ Before(Current(i), t)
    BY <2>2, CurrentService
  <2>4. PICK c \in Services : c = Current(i)
    BY <2>3
  <2>5. ASSUME NEW t \in Dependencies[c], t \notin Registered(i) PROVE FALSE
    <3>1. t \in Services /\ Round[t] < Round[c]
      BY <1>1
    <3>2. Round[t] \in Nat /\ Round[c] \in Nat
      BY <1>1, <3>1
    <3>3. t = c \/ Before(c, t)
      BY <2>3, <2>4, <2>5, <3>1
    <3> QED
      BY <3>1, <3>2, <3>3 DEF Before
  <2> QED
    BY <2>2, <2>4, <2>5
<1> QED
  BY <1>2, <1>3 DEF DependencyOrder

\* The inductive invariant of the supervisors of one deployment, however many there are
\* and whatever their children, the calls to Windows and their own crashes do.
THEOREM SupervisorInvariance ==
  SupervisorSpec => []SupervisorInv
<1>1. SupervisorInit => SupervisorInv
  BY SupervisorInitially
<1>2. SupervisorInv /\ [SupervisorNext]_supervisorVars => SupervisorInv'
  BY SupervisorSteps
<1> QED
  BY <1>1, <1>2, PTL DEF SupervisorSpec

\* In every graph the manifest accepts, a service is started after, and stopped before,
\* everything it depends on (_ordered_services, _stop_cascade).
THEOREM DependencyOrderHolds ==
  SupervisorSpec => []DependencyOrder
<1>1. SupervisorInv => DependencyOrder
  BY OrderImpliesDependencies
<1> QED
  BY <1>1, SupervisorInvariance, PTL

-----------------------------------------------------------------------------
(* Whoever runs is known to the instance that started it.                   *)

Tracked ==
  NoneCrashed => \A p \in Pids : Running(p) => Known(children[p].by, p)

\* A running process was started by an instance.
LEMMA StartedBy ==
  ASSUME SupervisorTypes, NEW p \in Pids, Running(p)
  PROVE  children[p].by \in Instances /\ children[p] # Free
  BY DEF SupervisorTypes, Processes, Running, Free

\* Only instance i moves, and it still knows whichever of its processes runs.
LEMMA TrackedStays ==
  ASSUME SupervisorInv, Tracked, NEW i \in Instances, NoneCrashed' => NoneCrashed,
         \A p \in Pids : Running(p)' => Running(p) /\ children'[p].by = children[p].by,
         \A p \in Pids : Running(p)' /\ Known(i, p) /\ children[p].by = i => Known(i, p)',
         \A j \in Instances \ {i} :
           child'[j] = child[j] /\ processes'[j] = processes[j] /\ retained'[j] = retained[j]
  PROVE  Tracked'
<1> SUFFICES ASSUME NoneCrashed, NEW p \in Pids, Running(p)' PROVE Known(children[p].by, p)'
  BY DEF Tracked
<1>0. SupervisorTypes
  BY DEF SupervisorInv
<1>1. Running(p) /\ children'[p].by = children[p].by
  OBVIOUS
<1>2. Known(children[p].by, p) /\ children[p].by \in Instances
  BY <1>0, <1>1, StartedBy DEF Tracked
<1>3. CASE children[p].by = i
  BY <1>1, <1>2, <1>3 DEF Known
<1>4. CASE children[p].by # i
  BY <1>1, <1>2, <1>4 DEF Known
<1> QED
  BY <1>3, <1>4

\* Nobody's knowledge changes and nothing starts.
LEMMA TrackedKept ==
  ASSUME SupervisorInv, Tracked, NoneCrashed' => NoneCrashed, NothingStarts,
         UNCHANGED <<child, processes, retained>>
  PROVE  Tracked'
<1> SUFFICES ASSUME NoneCrashed, NEW p \in Pids, Running(p)' PROVE Known(children[p].by, p)'
  BY DEF Tracked
<1>1. Running(p) /\ children'[p].by = children[p].by
  BY DEF NothingStarts
<1>2. Known(children[p].by, p)
  BY <1>1 DEF Tracked
<1> QED
  BY <1>1, <1>2 DEF Known

\* Without a crash, what runs was started by the instance inside the job.
LEMMA RunsInside ==
  ASSUME SupervisorInv, NoneCrashed, NEW p \in Pids, Running(p)
  PROVE  pc[children[p].by] \in WithJob
<1>1. SupervisorTypes /\ Holding /\ jobs # {} /\ mutex = children[p].by
  BY DEF SupervisorInv, Reign
<1>2. PICK j \in jobs : j \in Instances /\ pc[j] \in WithJob
  BY <1>1 DEF Holding, SupervisorTypes, NoneCrashed
<1>3. mutex = j
  BY <1>1, <1>2 DEF Holding, WithMutex
<1> QED
  BY <1>1, <1>2, <1>3

\* A crash is for ever.
LEMMA CrashLasts ==
  ASSUME SupervisorInv, [SupervisorNext]_supervisorVars
  PROVE  NoneCrashed' => NoneCrashed
<1>0. pc \in [Instances -> Places]
  BY DEF SupervisorInv, SupervisorTypes
<1> SUFFICES ASSUME NEW j \in Instances, pc[j] = "crashed" PROVE pc'[j] = "crashed"
  BY DEF NoneCrashed
<1>1. ASSUME NEW i \in Instances, pc[i] # "crashed", NEW b, Goto(i, b) PROVE pc'[j] = "crashed"
  BY <1>0, <1>1 DEF Goto
<1>2. ASSUME NEW i \in Instances, Step(i) PROVE pc'[j] = "crashed"
  <2>1. CASE OpenJob(i) \/ CreateSuspended(i) \/ AssignAndResume(i) \/ ValidationPasses(i)
    BY <1>1, <2>1 DEF OpenJob, CreateSuspended, AssignAndResume, ValidationPasses
  <2>2. CASE Ready(i) \/ NotReady(i) \/ AbortStart(i)
    BY <1>1, <2>2 DEF Ready, NotReady, AbortStart, StartupFailed
  <2>3. CASE CascadeStop(i) \/ CascadeEnd(i) \/ Wake(i) \/ DetectExit(i)
    BY <1>1, <2>3 DEF CascadeStop, CascadeEnd, Wake, DetectExit
  <2>4. CASE LeaveJob(i) \/ LeaveMutex(i) \/ FinalEnd(i) \/ ReapRetained(i) \/ HandleCloses(i)
    BY <1>1, <2>4 DEF LeaveJob, LeaveMutex, FinalEnd, ReapRetained, HandleCloses
  <2> QED
    BY <1>2, <2>1, <2>2, <2>3, <2>4 DEF Step
<1>3. ASSUME NEW i \in Instances,
             \/ Launch(i) \/ JobFails(i) \/ PrepareFails(i)
             \/ AssignOrResumeFails(i) \/ Interrupt(i) \/ SupervisorDies(i)
      PROVE  pc'[j] = "crashed"
  BY <1>1, <1>3 DEF Launch, JobFails, PrepareFails, StartupFailed, AssignOrResumeFails,
                    Interrupt, SupervisorDies, Gone
<1>4. CASE \E p \in Pids : Bind(p) \/ ChildExits(p)
  BY <1>4 DEF Bind, ChildExits
<1>5. CASE Tick \/ UNCHANGED supervisorVars
  BY <1>5 DEF Tick, supervisorVars
<1> QED
  BY <1>2, <1>3, <1>4, <1>5 DEF SupervisorNext

\* The process that instance i gives up is closed, or it is retained.
LEMMA TrackedGivenUp ==
  ASSUME SupervisorInv, Tracked, NoneCrashed' => NoneCrashed, NEW i \in Instances,
         ValidationPasses(i) \/ AbortStart(i) \/ CascadeStop(i)
  PROVE  Tracked'
<1>0. SupervisorTypes /\ Knows(i)
  BY DEF SupervisorInv
<1>1. ASSUME NEW p \in Pids, Owned(i, p), p \notin retained[i],
             \A j \in Instances \ {i} : child'[j] = child[j] /\ processes'[j] = processes[j],
             \A q \in Pids \ {p} : /\ q = child[i] => q = child'[i]
                                   /\ \A s \in Services : processes[i][s] = q => processes'[i][s] = q,
             \/ /\ children' = [children EXCEPT ![p] = Free] /\ UNCHANGED retained
             \/ /\ children' = children \/ children' = [children EXCEPT ![p].state = "dead"]
                /\ retained' = [retained EXCEPT ![i] = @ \cup {p}]
      PROVE  Tracked'
  <2>1. NothingStarts /\ \A j \in Instances \ {i} : retained'[j] = retained[j]
    BY <1>0, <1>1, GivenUp
  <2>2. ASSUME NEW q \in Pids, Running(q)', Known(i, q) PROVE Known(i, q)'
    <3>1. retained[i] \subseteq retained'[i]
      BY <1>0, <1>1 DEF SupervisorTypes
    <3>2. CASE q = p
      <4>1. children' # [children EXCEPT ![p] = Free]
        BY <1>0, <2>2, <3>2 DEF SupervisorTypes, Running, Free
      <4>2. p \in retained'[i]
        BY <1>0, <1>1, <4>1 DEF SupervisorTypes
      <4> QED
        BY <3>2, <4>2 DEF Known
    <3>3. CASE q # p
      BY <1>1, <2>2, <3>1, <3>3 DEF Known
    <3> QED
      BY <3>2, <3>3
  <2> QED
    BY <1>1, <2>1, <2>2, TrackedStays DEF NothingStarts
<1>2. CASE ValidationPasses(i) \/ AbortStart(i)
  <2>1. pc[i] \in WithChild
    BY <1>2 DEF ValidationPasses, AbortStart, WithChild
  <2>2. PICK p \in Pids : p = child[i] /\ Owned(i, p) /\ p \notin retained[i]
    BY <2>1, ChildIsNew
  <2>3. /\ child' = [child EXCEPT ![i] = 0] /\ processes' = processes
        /\ \/ /\ children' = [children EXCEPT ![p] = Free] /\ UNCHANGED retained
           \/ /\ children' = children \/ children' = [children EXCEPT ![p].state = "dead"]
              /\ retained' = [retained EXCEPT ![i] = @ \cup {p}]
    BY <1>2, <2>2 DEF ValidationPasses, AbortStart, TerminateAndClose, CannotTerminate, Retain
  <2>4. \A j \in Instances \ {i} : child'[j] = child[j] /\ processes'[j] = processes[j]
    BY <1>0, <2>3 DEF SupervisorTypes
  <2> QED
    BY <1>1, <2>2, <2>3, <2>4
<1>3. CASE CascadeStop(i)
  <2>1. PICK s \in Registered(i) : s = NextToStop(i)
    <3>1. Registered(i) \in SUBSET Services /\ Registered(i) # {}
      BY <1>3 DEF Registered, CascadeStop
    <3>2. \E s \in Registered(i) : \A t \in Registered(i) : t = s \/ Before(t, s)
      BY <3>1, LastService
    <3> QED
      BY <3>2 DEF NextToStop
  <2>2. PICK p \in Pids : p = processes[i][s] /\ Owned(i, p) /\ p \notin retained[i]
    BY <1>0, <2>1 DEF Knows, Registered, SupervisorTypes
  <2>3. /\ processes' = [processes EXCEPT ![i][s] = 0] /\ child' = child
        /\ \/ /\ children' = [children EXCEPT ![p] = Free] /\ UNCHANGED retained
           \/ /\ children' = children \/ children' = [children EXCEPT ![p].state = "dead"]
              /\ retained' = [retained EXCEPT ![i] = @ \cup {p}]
    BY <1>3, <2>1, <2>2 DEF CascadeStop, TerminateAndClose, CannotTerminate, Retain
  <2>4. /\ \A j \in Instances \ {i} : processes'[j] = processes[j]
        /\ \A t \in Services \ {s} : processes'[i][t] = processes[i][t]
    BY <1>0, <2>3 DEF SupervisorTypes
  <2>5. ASSUME NEW q \in Pids \ {p}, NEW t \in Services, processes[i][t] = q
        PROVE  processes'[i][t] = q
    BY <2>2, <2>4, <2>5
  <2> QED
    BY <1>1, <2>2, <2>3, <2>4, <2>5
<1> QED
  BY <1>2, <1>3

\* The process that instance i starts, or has found ready.
LEMMA TrackedStarting ==
  ASSUME SupervisorInv, Tracked, NoneCrashed' => NoneCrashed, NEW i \in Instances,
         CreateSuspended(i) \/ AssignAndResume(i) \/ Ready(i)
  PROVE  Tracked'
<1>0. SupervisorTypes /\ Knows(i) /\ 0 \notin Pids
  BY GraphAssumption DEF SupervisorInv, Pids
<1>1. CASE CreateSuspended(i)
  <2>1. PICK p \in Pids :
          /\ children[p] = Free /\ child' = [child EXCEPT ![i] = p]
          /\ children' = [children EXCEPT ![p] =
               [state |-> "suspended", svc |-> Current(i), by |-> i, job |-> FALSE,
                serves |-> Current(i) # Caddy \/ pc[i] = "validated", bound |-> FALSE]]
    BY <1>1 DEF CreateSuspended
  <2>2. UNCHANGED <<processes, retained>> /\ child[i] = 0
    BY <1>0, <1>1 DEF CreateSuspended, Knows, WithChild
  <2>3. \A q \in Pids : Running(q)' => children'[q] = children[q]
    BY <1>0, <2>1 DEF SupervisorTypes, Running
  <2>4. \A j \in Instances \ {i} : child'[j] = child[j]
    BY <1>0, <2>1 DEF SupervisorTypes
  <2>5. \A q \in Pids : Known(i, q) => Known(i, q)'
    BY <1>0, <2>2 DEF Known
  <2>6. \A q \in Pids : Running(q)' => Running(q) /\ children'[q].by = children[q].by
    BY <2>3 DEF Running
  <2> QED
    BY <2>2, <2>4, <2>5, <2>6, TrackedStays
<1>2. CASE AssignAndResume(i)
  <2>1. PICK p \in Pids : p = child[i] /\ Owned(i, p)
    BY <1>2, ChildIsNew DEF AssignAndResume, WithChild
  <2>2. /\ children' = [children EXCEPT ![p] = Resumed(p)]
        /\ UNCHANGED <<child, processes, retained>>
    BY <1>2, <2>1 DEF AssignAndResume
  <2>3. children'[p].by = i /\ \A q \in Pids \ {p} : children'[q] = children[q]
    <3>1. PICK c \in [state : {"suspended", "running", "dead"}, svc : Services,
                      by : Instances, job : BOOLEAN, serves : BOOLEAN, bound : BOOLEAN] :
            c = children[p] /\ c.by = i
      BY <1>0, <2>1 DEF SupervisorTypes, Processes, Owned
    <3>2. [c EXCEPT !.state = "running", !.job = TRUE, !.bound = FALSE].by = i
      BY <3>1
    <3> QED
      BY <1>0, <2>2, <3>1, <3>2 DEF SupervisorTypes, Resumed
  <2> SUFFICES ASSUME NoneCrashed, NEW q \in Pids, Running(q)' PROVE Known(children[q].by, q)'
    BY DEF Tracked
  <2>4. CASE q = p
    BY <2>1, <2>2, <2>3, <2>4 DEF Known
  <2>5. CASE q # p
    <3>1. children'[q] = children[q] /\ Running(q)
      BY <2>3, <2>5 DEF Running
    <3>2. Known(children[q].by, q)
      BY <3>1 DEF Tracked
    <3> QED
      BY <2>2, <3>1, <3>2 DEF Known
  <2> QED
    BY <2>4, <2>5
<1>3. CASE Ready(i)
  <2>1. PICK p \in Pids, s \in Services :
          p = child[i] /\ s = Current(i) /\ s \notin Registered(i)
    BY <1>3, ChildIsNew DEF Ready, WithChild
  <2>2. /\ UNCHANGED <<children, retained>>
        /\ processes' = [processes EXCEPT ![i][s] = p] /\ child' = [child EXCEPT ![i] = 0]
    BY <1>3, <2>1 DEF Ready
  <2>3. /\ processes'[i][s] = p /\ processes[i][s] = 0
        /\ \A t \in Services \ {s} : processes'[i][t] = processes[i][t]
    BY <1>0, <2>1, <2>2 DEF SupervisorTypes, Registered
  <2>4. \A j \in Instances \ {i} : child'[j] = child[j] /\ processes'[j] = processes[j]
    BY <1>0, <2>2 DEF SupervisorTypes
  <2>5. ASSUME NEW q \in Pids, Known(i, q) PROVE Known(i, q)'
    <3>1. CASE q = p
      BY <2>3, <3>1 DEF Known
    <3>2. CASE q \in retained[i]
      BY <2>2, <3>2 DEF Known
    <3>3. CASE \E t \in Services : processes[i][t] = q
      BY <1>0, <2>3, <3>3 DEF Known
    <3> QED
      BY <2>1, <2>5, <3>1, <3>2, <3>3 DEF Known
  <2>6. \A q \in Pids : Running(q)' => Running(q) /\ children'[q].by = children[q].by
    BY <2>2 DEF Running
  <2> QED
    BY <2>2, <2>4, <2>5, <2>6, TrackedStays
<1> QED
  BY <1>1, <1>2, <1>3

\* When an instance reaps what it retained, the job has ended what ran.
LEMMA TrackedReaped ==
  ASSUME SupervisorInv, Tracked, NoneCrashed' => NoneCrashed, NEW i \in Instances,
         ReapRetained(i)
  PROVE  Tracked'
<1>0. SupervisorTypes /\ Knows(i)
  BY DEF SupervisorInv
<1>1. UNCHANGED <<processes, child>> /\ pc[i] = "reap"
  BY DEF ReapRetained
<1>2. NothingStarts /\ \A j \in Instances \ {i} : retained'[j] = retained[j]
  <2>1. CASE UNCHANGED <<children, retained>>
    BY <2>1 DEF NothingStarts, Running
  <2>2. ASSUME NEW p \in retained[i], retained' = [retained EXCEPT ![i] = @ \ {p}],
               \/ children' = [children EXCEPT ![p] = Free] \/ children' = children
               \/ children' = [children EXCEPT ![p].state = "dead"]
        PROVE  NothingStarts /\ \A j \in Instances \ {i} : retained'[j] = retained[j]
    <3>1. p \in Pids /\ Owned(i, p) /\ children[p] # Free
      BY <1>0, <2>2 DEF Knows, SupervisorTypes, Owned
    <3>2. NothingStarts
      <4>1. CASE children' = [children EXCEPT ![p] = Free]
        BY <1>0, <3>1, <4>1, Terminated
      <4>2. CASE children' = children \/ children' = [children EXCEPT ![p].state = "dead"]
        BY <1>0, <3>1, <4>2, NotTerminated
      <4> QED
        BY <2>2, <4>1, <4>2
    <3> QED
      BY <1>0, <2>2, <3>2 DEF SupervisorTypes
  <2> QED
    BY <2>1, <2>2 DEF ReapRetained, TerminateAndClose, CannotTerminate
<1> SUFFICES ASSUME NoneCrashed, NEW p \in Pids, Running(p)' PROVE Known(children[p].by, p)'
  BY DEF Tracked
<1>3. Running(p) /\ children'[p].by = children[p].by
  BY <1>2 DEF NothingStarts
<1>4. Known(children[p].by, p) /\ children[p].by \in Instances
  BY <1>0, <1>3, StartedBy DEF Tracked
<1>5. children[p].by # i
  BY <1>1, <1>3, RunsInside DEF WithJob, Starting, WithChild
<1> QED
  BY <1>1, <1>2, <1>3, <1>4, <1>5 DEF Known

LEMMA TrackedSteps ==
  ASSUME SupervisorInv, Tracked, [SupervisorNext]_supervisorVars
  PROVE  Tracked'
<1>0. SupervisorTypes /\ (NoneCrashed' => NoneCrashed)
  BY CrashLasts DEF SupervisorInv
<1>1. ASSUME UNCHANGED <<children, child, processes, retained>> PROVE Tracked'
  BY <1>0, <1>1, TrackedKept DEF NothingStarts, Running
<1>2. ASSUME NEW i \in Instances, Step(i) PROVE Tracked'
  <2>1. CASE \/ NotReady(i) \/ CascadeEnd(i) \/ Wake(i) \/ DetectExit(i) \/ FinalEnd(i)
             \/ OpenJob(i) \/ LeaveMutex(i)
    BY <1>1, <2>1 DEF NotReady, CascadeEnd, Wake, DetectExit, FinalEnd, OpenJob, LeaveMutex
  <2>2. CASE ValidationPasses(i) \/ AbortStart(i) \/ CascadeStop(i)
    BY <1>0, <2>2, TrackedGivenUp
  <2>3. CASE CreateSuspended(i) \/ AssignAndResume(i) \/ Ready(i)
    BY <1>0, <2>3, TrackedStarting
  <2>4. CASE ReapRetained(i)
    BY <1>0, <2>4, TrackedReaped
  <2>5. CASE LeaveJob(i)
    <3>1. NothingStarts
      BY <2>5, JobCloses DEF LeaveJob
    <3> QED
      BY <1>0, <2>5, <3>1, TrackedKept DEF LeaveJob
  <2>6. CASE HandleCloses(i)
    BY <2>6 DEF HandleCloses, Tracked, NoneCrashed
  <2> QED
    BY <1>2, <2>1, <2>2, <2>3, <2>4, <2>5, <2>6 DEF Step
<1>3. ASSUME NEW i \in Instances, Launch(i) \/ JobFails(i) \/ PrepareFails(i) \/ Interrupt(i)
      PROVE  Tracked'
  BY <1>1, <1>3 DEF Launch, JobFails, PrepareFails, Interrupt
<1>4. ASSUME NEW i \in Instances, AssignOrResumeFails(i) PROVE Tracked'
  <2>1. PICK p \in Pids : p = child[i] /\ children[p] # Free
    BY <1>4, ChildIsNew DEF AssignOrResumeFails, WithChild, Owned
  <2>2. NothingStarts
    BY <1>0, <1>4, <2>1, NotTerminated DEF AssignOrResumeFails
  <2> QED
    BY <1>0, <1>4, <2>2, TrackedKept DEF AssignOrResumeFails
<1>5. ASSUME NEW i \in Instances, SupervisorDies(i) PROVE Tracked'
  BY <1>0, <1>5 DEF SupervisorDies, Goto, Tracked, NoneCrashed, SupervisorTypes
<1>6. ASSUME NEW p \in Pids, Bind(p) PROVE Tracked'
  <2>1. UNCHANGED <<child, processes, retained>> /\ Running(p)
        /\ children' = [children EXCEPT ![p].bound = TRUE]
    BY <1>6 DEF Bind
  <2>2. \A q \in Pids : Running(q)' => Running(q) /\ children'[q].by = children[q].by
    <3>1. PICK c \in [state : {"suspended", "running", "dead"}, svc : Services,
                      by : Instances, job : BOOLEAN, serves : BOOLEAN, bound : BOOLEAN] :
            c = children[p]
      BY <1>0, <2>1 DEF SupervisorTypes, Processes, Running, Free
    <3>2. [c EXCEPT !.bound = TRUE].state = c.state /\ [c EXCEPT !.bound = TRUE].by = c.by
      OBVIOUS
    <3>3. children'[p] = [c EXCEPT !.bound = TRUE] /\ \A q \in Pids \ {p} : children'[q] = children[q]
      BY <1>0, <2>1, <3>1 DEF SupervisorTypes
    <3> QED
      BY <3>1, <3>2, <3>3 DEF Running
  <2> SUFFICES ASSUME NoneCrashed, NEW q \in Pids, Running(q)' PROVE Known(children[q].by, q)'
    BY <1>0 DEF Tracked
  <2>3. Known(children[q].by, q)
    BY <2>2 DEF Tracked
  <2> QED
    BY <2>1, <2>2, <2>3 DEF Known
<1>7. ASSUME NEW p \in Pids, ChildExits(p) PROVE Tracked'
  <2>1. UNCHANGED <<child, processes, retained>> /\ Running(p)
        /\ children' = [children EXCEPT ![p] = Killed(children[p])]
    BY <1>7 DEF ChildExits
  <2>2. Killed(children[p]).state # "running"
    BY <1>0, <2>1, KilledProcess DEF Running, Free
  <2>3. NothingStarts
    BY <1>0, <2>1, <2>2 DEF NothingStarts, Running, SupervisorTypes
  <2> QED
    BY <1>0, <2>1, <2>3, TrackedKept
<1>8. CASE Tick \/ UNCHANGED supervisorVars
  BY <1>1, <1>8 DEF Tick, supervisorVars
<1> QED
  BY <1>2, <1>3, <1>4, <1>5, <1>6, <1>7, <1>8 DEF SupervisorNext

\* While the process that the map has for a listening service runs, the port is its own,
\* however processes of earlier starts and of crashed supervisors linger and bind, and
\* unless a supervisor has crashed whoever holds a port is known to the one that started
\* it (listener_owner_checker in _check_readiness, _start, _stop_cascade).
THEOREM ListenerIsOwnedHolds ==
  SupervisorSpec => []ListenerIsOwned
<1>1. SupervisorInit => Tracked
  BY DEF SupervisorInit, Tracked, Running, Free
<1>2. SupervisorInv /\ Tracked /\ [SupervisorNext]_supervisorVars => Tracked'
  BY TrackedSteps
<1>3. SupervisorInv /\ Tracked => ListenerIsOwned
  <2> SUFFICES ASSUME SupervisorInv, Tracked PROVE ListenerIsOwned
    OBVIOUS
  <2>0. Listening \subseteq Services /\ SupervisorTypes /\ PortsHeld
    BY GraphAssumption DEF SupervisorInv
  <2>1. ASSUME NEW i \in Instances, NEW s \in Listening, NEW p \in Pids,
               processes[i][s] # 0, Running(processes[i][s])
        PROVE  HoldsPort(p, s) <=> p = processes[i][s]
    <3>1. HoldsPort(processes[i][s], s) /\ processes[i][s] \in Pids /\ s \in Services
      BY <2>0, <2>1 DEF PortsHeld, SupervisorTypes
    <3>2. HoldsPort(p, s) => p = processes[i][s]
      BY <2>0, <3>1 DEF PortsHeld
    <3> QED
      BY <3>1, <3>2
  <2>2. NoneCrashed => \A p \in Pids, s \in Listening : HoldsPort(p, s) => Known(children[p].by, p)
    BY DEF Tracked, HoldsPort
  <2> QED
    BY <2>1, <2>2 DEF ListenerIsOwned, NoneCrashed
<1> QED
  BY <1>1, <1>2, <1>3, SupervisorInvariance, PTL DEF SupervisorSpec

\* A service runs only while a handle of the job is open and, unless a supervisor has
\* crashed, only while the supervisor that started it holds the mutex (SingleInstance,
\* JobObject).
THEOREM ChildrenWithinReignHolds ==
  SupervisorSpec => []ChildrenWithinReign
<1>1. SupervisorInv => ChildrenWithinReign
  BY DEF SupervisorInv, Reign, NoneCrashed, ChildrenWithinReign
<1> QED
  BY <1>1, SupervisorInvariance, PTL
=============================================================================
