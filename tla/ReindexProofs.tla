--------------------------- MODULE ReindexProofs ---------------------------
(***************************************************************************)
(* The fencing of task and qualification claims, and what it protects: a   *)
(* rebuild that succeeds covers the sources it was compared with, for      *)
(* every number of chunks, operations and workers.                         *)
(***************************************************************************)
EXTENDS Reindex, FiniteSetTheorems, TLAPS

TaskRows == [state : {"none", "queued", "running", "completed", "failed"},
             fence : Nat, leased : BOOLEAN]

OpRows == [state : {"none", "previewed", "running", "paused", "qualifying", "succeeded",
                    "failed", "cancelled"},
           total : Nat, fence : Nat, leased : BOOLEAN]

GenStates == {"none", "building", "active", "retained", "abandoned"}

Phases == {"idle", "committing", "counted", "failing", "qualifying", "cutover", "down"}

DataTypes ==
  /\ live \in SUBSET Chunks
  /\ embedded \in [Generations -> SUBSET Chunks]
  /\ genState \in [Generations -> GenStates]
  /\ current \in Generations

OpTypes ==
  /\ op \in [Operations -> OpRows]
  /\ task \in [Operations -> [Chunks -> TaskRows]]

WorkerTypes ==
  /\ phase \in [Workers -> Phases]
  /\ batch \in [Workers -> SUBSET Claims]
  /\ left \in [Workers -> SUBSET Claims]
  /\ tx \in [Workers -> Commits \cup {None}]
  /\ qual \in [Workers -> Qualifications \cup {None}]

Types == DataTypes /\ OpTypes /\ WorkerTypes

New(o) == op[o].state \in {"none", "previewed"}

\* Every task that is left of the operation, but perhaps the one of chunk c, is done.
Done(o) == \A c \in Chunks : task[o][c].state \in {"none", "completed"}
DoneBut(o, c) == \A d \in Chunks \ {c} : task[o][d].state \in {"none", "completed"}

-----------------------------------------------------------------------------
(* Claims of tasks.                                                        *)

\* No claim is ahead of its task, as long as the task exists; only started operations
\* are claimed from, so a task that is gone does not come back.
Behind ==
  \A w \in Workers : \A k \in batch[w] :
    /\ ~New(k.op)
    /\ task[k.op][k.chunk].state # "none" => k.fence <= task[k.op][k.chunk].fence

\* No claim is made twice.
Disjoint == \A v, w \in Workers : \A k \in batch[v] : k \in batch[w] => v = w

\* A worker reports claims of its batch.
LeftOfBatch == \A w \in Workers : left[w] \subseteq batch[w]

\* While a commit is open, it holds the row of its task as it found it.
TxHolds ==
  \A w \in Workers :
    /\ phase[w] = "counted" <=> tx[w] # None
    /\ tx[w] # None => tx[w].claim \in left[w] /\ Matches(tx[w].claim)

ClaimInv == Behind /\ Disjoint /\ LeftOfBatch /\ TxHolds

-----------------------------------------------------------------------------
(* What a build has reached.                                               *)

\* A completed task has its embedding.
Embedded ==
  \A o \in Operations : \A c \in Chunks :
    task[o][c].state = "completed" => c \in embedded[o]

\* The commit that counted itself the last one still is when it ends.
LastIsLast ==
  \A w \in Workers : tx[w] # None /\ tx[w].last =>
    /\ genState[tx[w].claim.op] = "building"
    /\ DoneBut(tx[w].claim.op, tx[w].claim.chunk)

\* An operation that qualifies, or has succeeded, is complete, and only such a one has
\* a generation that was ever active.
Stages ==
  \A o \in Operations :
    /\ New(o) => genState[o] = "none"
    /\ op[o].state = "qualifying" => genState[o] = "building" /\ Done(o)
    /\ op[o].state = "succeeded" => Done(o)
    /\ genState[o] \in {"active", "retained"} => op[o].state = "succeeded"

OneActive == genState[current] = "active"

BuildInv == Embedded /\ LastIsLast /\ Stages /\ OneActive

-----------------------------------------------------------------------------
(* Claims of qualifications.                                               *)

QualBehind ==
  \A w \in Workers :
    /\ phase[w] \in {"qualifying", "cutover"} => qual[w] # None
    /\ qual[w] # None => qual[w].fence <= op[qual[w].op].fence

QualOnce == \A v, w \in Workers : qual[v] # None /\ qual[v] = qual[w] => v = w

\* Between the comparison and the switch the claim holds, and what was compared is
\* embedded.
CutoverReady ==
  \A w \in Workers : phase[w] = "cutover" =>
    /\ QualificationHolds(qual[w])
    /\ live \ late \subseteq embedded[qual[w].op]

QualInv == QualBehind /\ QualOnce /\ CutoverReady

Inv == Types /\ ClaimInv /\ BuildInv /\ QualInv

-----------------------------------------------------------------------------
LEMMA TaskType ==
  ASSUME Types, NEW o \in Operations, NEW c \in Chunks
  PROVE  task[o][c] \in TaskRows
<1>1. task[o] \in [Chunks -> TaskRows]
  BY DEF Types, OpTypes
<1> QED
  BY <1>1

\* A step that writes one row.
LEMMA TaskWrite ==
  ASSUME Types, NEW o \in Operations, NEW c \in Chunks, NEW row \in TaskRows,
         task' = [task EXCEPT ![o][c] = row]
  PROVE  /\ task' \in [Operations -> [Chunks -> TaskRows]]
         /\ \A p \in Operations, d \in Chunks :
              task'[p][d] = IF p = o /\ d = c THEN row ELSE task[p][d]
BY DEF Types, OpTypes

(* What keeps each part.                                                   *)

\* Steps that are no worker's: rows of tasks keep their fence, vanish when nobody
\* commits to them, or belong to an operation nobody has claimed from.
LEMMA ClaimsKeptByOthers ==
  ASSUME Types, ClaimInv, UNCHANGED <<phase, batch, left, tx>>,
         \A o \in Operations : New(o)' => New(o),
         \A o \in Operations, c \in Chunks :
           \/ /\ task'[o][c].fence = task[o][c].fence
              /\ task[o][c].state = "none" => task'[o][c].state = "none"
              /\ task[o][c].state = "running" => task'[o][c].state = "running"
           \/ task'[o][c].state = "none" /\ ~Locked(o, c)
           \/ New(o)
  PROVE  ClaimInv'
<1>1. \A w \in Workers : \A k \in batch[w] : k \in Claims /\ k.op \in Operations /\ k.chunk \in Chunks
  BY DEF Types, WorkerTypes, Claims
<1>2. Behind'
  BY <1>1 DEF ClaimInv, Behind
<1>3. Disjoint' /\ LeftOfBatch'
  BY DEF ClaimInv, Disjoint, LeftOfBatch
<1>4. TxHolds'
  <2> SUFFICES ASSUME NEW w \in Workers, tx[w] # None
               PROVE  Matches(tx[w].claim)'
    BY DEF ClaimInv, TxHolds
  <2>1. tx[w].claim \in batch[w] /\ Matches(tx[w].claim) /\ Locked(tx[w].claim.op, tx[w].claim.chunk)
    BY DEF ClaimInv, TxHolds, LeftOfBatch, Locked
  <2>2. ~New(tx[w].claim.op)
    BY <2>1 DEF ClaimInv, Behind
  <2> QED
    BY <1>1, <2>1, <2>2 DEF Matches
<1> QED
  BY <1>2, <1>3, <1>4 DEF ClaimInv

\* Steps of a worker that neither claims nor begins to commit: no fence moves, and no
\* other worker's open commit is disturbed.
LEMMA ClaimsKeptByWorker ==
  ASSUME Types, ClaimInv, NEW w \in Workers,
         \A v \in Workers \ {w} : /\ phase'[v] = phase[v] /\ batch'[v] = batch[v]
                                  /\ left'[v] = left[v] /\ tx'[v] = tx[v],
         batch'[w] \subseteq batch[w], left'[w] \subseteq batch'[w],
         tx'[w] = None, phase'[w] # "counted",
         \A o \in Operations : New(o)' => New(o),
         \A o \in Operations, c \in Chunks :
           /\ task'[o][c].fence = task[o][c].fence
           /\ task[o][c].state = "none" => task'[o][c].state = "none",
         \A v \in Workers \ {w} :
           tx[v] # None => task'[tx[v].claim.op][tx[v].claim.chunk].state = "running"
  PROVE  ClaimInv'
<1>1. \A v \in Workers : \A k \in batch[v] : k \in Claims /\ k.op \in Operations /\ k.chunk \in Chunks
  BY DEF Types, WorkerTypes, Claims
<1>2. \A v \in Workers : batch'[v] \subseteq batch[v]
  OBVIOUS
<1>3. Behind'
  BY <1>1, <1>2 DEF ClaimInv, Behind
<1>4. Disjoint'
  BY <1>2 DEF ClaimInv, Disjoint
<1>5. LeftOfBatch'
  BY DEF ClaimInv, LeftOfBatch
<1>6. TxHolds'
  <2> SUFFICES ASSUME NEW v \in Workers \ {w}, tx[v] # None
               PROVE  Matches(tx[v].claim)'
    BY DEF ClaimInv, TxHolds
  <2>1. tx[v].claim \in batch[v] /\ Matches(tx[v].claim) /\ tx'[v] = tx[v]
    BY DEF ClaimInv, TxHolds, LeftOfBatch
  <2>2. /\ task'[tx[v].claim.op][tx[v].claim.chunk].state = "running"
        /\ task'[tx[v].claim.op][tx[v].claim.chunk].fence = tx[v].claim.fence
    BY <1>1, <2>1 DEF Matches
  <2> QED
    BY <2>1, <2>2 DEF Matches
<1> QED
  BY <1>3, <1>4, <1>5, <1>6 DEF ClaimInv

\* An effective claim that an open commit does not hold leaves that commit alone.
LEMMA ClaimsApart ==
  ASSUME Types, ClaimInv, NEW w \in Workers, NEW v \in Workers \ {w},
         NEW k \in left[w], Matches(k), tx[v] # None
  PROVE  k.op # tx[v].claim.op \/ k.chunk # tx[v].claim.chunk
<1>1. tx[v].claim \in batch[v] /\ k \in batch[w] /\ Matches(tx[v].claim)
  BY DEF ClaimInv, TxHolds, LeftOfBatch
<1>2. k \in Claims /\ tx[v].claim \in Claims
  BY <1>1 DEF Types, WorkerTypes
<1>3. ASSUME k.op = tx[v].claim.op, k.chunk = tx[v].claim.chunk
      PROVE  k = tx[v].claim
  BY <1>1, <1>2, <1>3 DEF Matches, Claims
<1> QED
  BY <1>1, <1>3 DEF ClaimInv, Disjoint

\* Steps that move no task, no operation and no generation on.
LEMMA BuildKept ==
  ASSUME Types, BuildInv, UNCHANGED <<genState, current>>,
         \A o \in Operations : /\ op'[o].state = op[o].state
                               /\ embedded[o] \subseteq embedded'[o],
         \A o \in Operations, c \in Chunks : task'[o][c].state = task[o][c].state,
         \A w \in Workers : tx'[w] \in {tx[w], None}
  PROVE  BuildInv'
<1>1. Embedded'
  BY DEF BuildInv, Embedded
<1>2. LastIsLast'
  <2> SUFFICES ASSUME NEW w \in Workers, tx'[w] # None, tx'[w].last
               PROVE  /\ genState'[tx'[w].claim.op] = "building"
                      /\ DoneBut(tx[w].claim.op, tx[w].claim.chunk)'
    BY DEF LastIsLast
  <2>1. tx'[w] = tx[w] /\ tx[w].claim.op \in Operations
    BY DEF Types, WorkerTypes, Commits, Claims
  <2> QED
    BY <2>1 DEF BuildInv, LastIsLast, DoneBut
<1>3. Stages'
  BY DEF BuildInv, Stages, New, Done
<1>4. OneActive'
  BY DEF BuildInv, OneActive
<1> QED
  BY <1>1, <1>2, <1>3, <1>4 DEF BuildInv

\* Steps that neither claim a qualification nor pass its comparison: what the cutover
\* rests on stays.
LEMMA QualKept ==
  ASSUME Types, QualInv,
         \A w \in Workers :
           /\ qual'[w] \in {qual[w], None}
           /\ phase'[w] \in {"qualifying", "cutover"} =>
                phase'[w] = phase[w] /\ qual'[w] = qual[w],
         \A o \in Operations : op'[o].fence = op[o].fence,
         \A w \in Workers :
           phase[w] = "cutover" /\ phase'[w] = "cutover" =>
             /\ op'[qual[w].op].state = op[qual[w].op].state
             /\ op'[qual[w].op].leased = op[qual[w].op].leased
             /\ live' \ late' \subseteq embedded'[qual[w].op]
  PROVE  QualInv'
<1>1. \A w \in Workers : qual[w] # None => qual[w] \in Qualifications /\ qual[w].op \in Operations
  BY DEF Types, WorkerTypes, Qualifications
<1>2. QualBehind'
  BY <1>1 DEF QualInv, QualBehind
<1>3. QualOnce'
  BY DEF QualInv, QualOnce
<1>4. CutoverReady'
  <2> SUFFICES ASSUME NEW w \in Workers, phase'[w] = "cutover"
               PROVE  /\ QualificationHolds(qual[w])'
                      /\ live' \ late' \subseteq embedded'[qual'[w].op]
    BY DEF CutoverReady
  <2>1. phase[w] = "cutover" /\ qual'[w] = qual[w] /\ qual[w].op \in Operations
    BY <1>1 DEF QualInv, QualBehind
  <2>2. QualificationHolds(qual[w])
    BY <2>1 DEF QualInv, CutoverReady
  <2> QED
    BY <2>1, <2>2 DEF QualificationHolds
<1> QED
  BY <1>2, <1>3, <1>4 DEF QualInv

\* While a worker is about to switch, the operation is complete and its generation
\* neither active nor given up.
LEMMA CutoverStage ==
  ASSUME Types, BuildInv, QualInv, NEW w \in Workers, phase[w] = "cutover"
  PROVE  /\ qual[w] \in Qualifications /\ qual[w].op \in Operations
         /\ op[qual[w].op].state = "qualifying" /\ op[qual[w].op].leased
         /\ op[qual[w].op].fence = qual[w].fence
         /\ genState[qual[w].op] = "building" /\ Done(qual[w].op)
         /\ live \ late \subseteq embedded[qual[w].op]
<1>1. qual[w] \in Qualifications /\ qual[w].op \in Operations
  BY DEF QualInv, QualBehind, Types, WorkerTypes, Qualifications
<1> QED
  BY <1>1 DEF QualInv, CutoverReady, QualificationHolds, BuildInv, Stages

-----------------------------------------------------------------------------
(* Documents.                                                              *)

LEMMA IngestInv ==
  ASSUME Inv, NEW c \in Chunks, Ingest(c)
  PROVE  Inv'
<1>1. /\ UNCHANGED <<genState, current, op, task, phase, batch, left, tx, qual>>
      /\ live' = live \cup {c}
      /\ embedded' = [embedded EXCEPT ![current] = @ \cup {c}]
      /\ late' = IF \E w \in Workers : phase[w] = "cutover" THEN late \cup {c} ELSE late
  BY DEF Ingest, opVars, workerVars
<1>2. Types'
  BY <1>1 DEF Inv, Types, DataTypes, OpTypes, WorkerTypes
<1>3. ClaimInv'
  BY <1>1, ClaimsKeptByOthers DEF Inv, New
<1>4. \A e \in Generations : embedded[e] \subseteq embedded'[e]
  BY <1>1 DEF Inv, Types, DataTypes
<1>5. BuildInv'
  BY <1>1, <1>4, BuildKept DEF Inv, Generations
<1>6. ASSUME NEW w \in Workers, phase[w] = "cutover"
      PROVE  live' \ late' \subseteq embedded'[qual[w].op]
  BY <1>1, <1>4, <1>6, CutoverStage DEF Inv, Generations
<1>7. QualInv'
  BY <1>1, <1>6, QualKept DEF Inv
<1> QED
  BY <1>2, <1>3, <1>5, <1>7 DEF Inv

LEMMA RemoveInv ==
  ASSUME Inv, NEW c \in Chunks, Remove(c)
  PROVE  Inv'
<1>1. /\ UNCHANGED <<genState, current, late, op, phase, batch, left, tx, qual>>
      /\ live' = live \ {c}
      /\ embedded' = [e \in Generations |-> embedded[e] \ {c}]
      /\ task' = [o \in Operations |-> [task[o] EXCEPT ![c] = NoTask]]
      /\ \A o \in Operations : ~Locked(o, c)
  BY DEF Remove, workerVars
<1>2. NoTask \in TaskRows /\ NoTask.state = "none"
  BY DEF NoTask, TaskRows
<1>3. Types'
  BY <1>1, <1>2 DEF Inv, Types, DataTypes, OpTypes, WorkerTypes
<1>4. \A o \in Operations, d \in Chunks :
        task'[o][d] = IF d = c THEN NoTask ELSE task[o][d]
  BY <1>1 DEF Inv, Types, OpTypes
<1>5. ClaimInv'
  BY <1>1, <1>2, <1>4, ClaimsKeptByOthers DEF Inv, New
<1>6. BuildInv'
  <2>1. Embedded'
    BY <1>1, <1>2, <1>4 DEF Inv, BuildInv, Embedded, Generations
  <2>2. \A o \in Operations : Done(o) => Done(o)'
    BY <1>2, <1>4 DEF Done
  <2>3. LastIsLast'
    <3> SUFFICES ASSUME NEW w \in Workers, tx[w] # None, tx[w].last
                 PROVE  /\ genState[tx[w].claim.op] = "building"
                        /\ DoneBut(tx[w].claim.op, tx[w].claim.chunk)'
      BY <1>1 DEF LastIsLast
    <3>1. tx[w].claim.op \in Operations /\ tx'[w] = tx[w]
      BY <1>1 DEF Inv, Types, WorkerTypes, Commits, Claims
    <3> QED
      BY <1>2, <1>4, <3>1 DEF Inv, BuildInv, LastIsLast, DoneBut
  <2>4. Stages'
    BY <1>1, <2>2 DEF Inv, BuildInv, Stages, New
  <2> QED
    BY <1>1, <2>1, <2>3, <2>4 DEF Inv, BuildInv, OneActive
<1>7. ASSUME NEW w \in Workers, phase[w] = "cutover"
      PROVE  live' \ late' \subseteq embedded'[qual[w].op]
  BY <1>1, <1>7, CutoverStage DEF Inv, Generations
<1>8. QualInv'
  BY <1>1, <1>7, QualKept DEF Inv
<1> QED
  BY <1>3, <1>5, <1>6, <1>8 DEF Inv

-----------------------------------------------------------------------------
(* The administrator.                                                      *)

\* The number of chunks is a number.
LEMMA TotalType ==
  ASSUME Inv PROVE Cardinality(live) \in Nat
BY ReindexAssumption, FS_Subset, FS_CardinalityType DEF Inv, Types, DataTypes

\* An operation whose row is rewritten before or between its builds: what counts is the
\* state it leaves and the state it enters.
LEMMA OperationMoves ==
  ASSUME Inv, NEW o \in Operations, NEW row \in OpRows, op' = [op EXCEPT ![o] = row],
         row.fence = op[o].fence,
         op[o].state # "qualifying",
         row.state \notin {"qualifying", "succeeded"},
         row.state \in {"none", "previewed"} => New(o),
         genState[o] \notin {"active", "retained"},
         UNCHANGED <<dataVars, task, phase, batch, left, tx, qual>>
  PROVE  Inv'
<1>1. \A p \in Operations : op'[p] = IF p = o THEN row ELSE op[p]
  BY DEF Inv, Types, OpTypes
<1>2. Types'
  BY DEF Inv, Types, DataTypes, OpTypes, WorkerTypes, dataVars
<1>3. ClaimInv'
  BY <1>1, ClaimsKeptByOthers DEF Inv, New
<1>4. Embedded' /\ LastIsLast' /\ OneActive'
  BY DEF Inv, BuildInv, Embedded, LastIsLast, DoneBut, OneActive, dataVars
<1>5. Stages'
  BY <1>1 DEF Inv, BuildInv, Stages, New, Done, dataVars
<1>6. \A w \in Workers : phase[w] = "cutover" => /\ qual[w].op \in Operations /\ qual[w].op # o
                                                 /\ live \ late \subseteq embedded[qual[w].op]
  BY CutoverStage DEF Inv
<1>7. QualInv'
  BY <1>1, <1>6, QualKept DEF Inv, dataVars
<1> QED
  BY <1>2, <1>3, <1>4, <1>5, <1>7 DEF Inv, BuildInv

LEMMA PreviewInv ==
  ASSUME Inv, NEW o \in Operations, Preview(o)
  PROVE  Inv'
<1> DEFINE row == [op[o] EXCEPT !.state = "previewed", !.total = Cardinality(live)]
<1>1. op' = [op EXCEPT ![o] = row] /\ op[o].state = "none"
      /\ UNCHANGED <<dataVars, task, phase, batch, left, tx, qual>>
  BY DEF Preview, workerVars, Inv, Types, OpTypes
<1>2. row \in OpRows /\ row.state = "previewed" /\ row.fence = op[o].fence
  BY TotalType DEF Inv, Types, OpTypes, OpRows
<1> HIDE DEF row
<1>3. genState[o] = "none" /\ New(o)
  BY <1>1 DEF Inv, BuildInv, Stages, New
<1> QED
  BY <1>1, <1>2, <1>3, OperationMoves

LEMMA StartInv ==
  ASSUME Inv, NEW o \in Operations, Start(o)
  PROVE  Inv'
<1>1. /\ op[o].state = "previewed"
      /\ op' = [op EXCEPT ![o].state = "running"]
      /\ genState' = [genState EXCEPT ![o] = "building"]
      /\ task' = [task EXCEPT ![o] = [c \in Chunks |->
                IF c \in live THEN [NoTask EXCEPT !.state = "queued"] ELSE NoTask]]
      /\ UNCHANGED <<live, late, embedded, current, phase, batch, left, tx, qual>>
  BY DEF Start, workerVars
<1>2. NoTask \in TaskRows /\ [NoTask EXCEPT !.state = "queued"] \in TaskRows
      /\ NoTask.state = "none" /\ [NoTask EXCEPT !.state = "queued"].state = "queued"
  BY DEF NoTask, TaskRows
<1>3. \A p \in Operations :
        /\ op'[p].fence = op[p].fence /\ op'[p].leased = op[p].leased
        /\ op'[p].state = IF p = o THEN "running" ELSE op[p].state
        /\ p # o => task'[p] = task[p] /\ op'[p] = op[p]
        /\ genState'[p] = IF p = o THEN "building" ELSE genState[p]
  BY <1>1 DEF Inv, Types, OpTypes, OpRows, DataTypes, Generations
<1>4. \A c \in Chunks : task'[o][c].state \in {"none", "queued"}
  BY <1>1, <1>2 DEF Inv, Types, OpTypes
<1>5. Types'
  <2>1. DataTypes' /\ WorkerTypes'
    BY <1>1 DEF Inv, Types, DataTypes, WorkerTypes, GenStates
  <2>2. op' \in [Operations -> OpRows]
    BY <1>1 DEF Inv, Types, OpTypes, OpRows
  <2>3. task' \in [Operations -> [Chunks -> TaskRows]]
    BY <1>1, <1>2 DEF Inv, Types, OpTypes
  <2> QED
    BY <2>1, <2>2, <2>3 DEF Types, OpTypes
<1>6. New(o) /\ genState[o] = "none" /\ current # o
  BY <1>1 DEF New, Inv, BuildInv, Stages, OneActive
<1>7. ClaimInv'
  BY <1>1, <1>3, <1>6, ClaimsKeptByOthers DEF Inv, New
<1>8. Embedded'
  BY <1>1, <1>3, <1>4 DEF Inv, BuildInv, Embedded
<1>9. LastIsLast'
  <2> SUFFICES ASSUME NEW w \in Workers, tx[w] # None, tx[w].last
               PROVE  /\ genState'[tx[w].claim.op] = "building"
                      /\ DoneBut(tx[w].claim.op, tx[w].claim.chunk)'
    BY <1>1 DEF LastIsLast
  <2>1. tx[w].claim \in batch[w] /\ tx[w].claim.op \in Operations /\ tx'[w] = tx[w]
    BY <1>1 DEF Inv, ClaimInv, TxHolds, LeftOfBatch, Types, WorkerTypes, Commits, Claims
  <2>2. tx[w].claim.op # o
    BY <1>6, <2>1 DEF Inv, ClaimInv, Behind
  <2> QED
    BY <1>3, <2>1, <2>2 DEF Inv, BuildInv, LastIsLast, DoneBut
<1>10. Stages' /\ OneActive'
  <2>1. \A p \in Operations : p # o => (Done(p) <=> Done(p)') /\ (New(p) <=> New(p)')
    BY <1>3 DEF Done, New
  <2>2. Stages'
    BY <1>3, <2>1 DEF Inv, BuildInv, Stages, New
  <2>3. OneActive'
    BY <1>1, <1>6 DEF Inv, BuildInv, OneActive, Types, DataTypes
  <2> QED
    BY <2>2, <2>3
<1>11. \A w \in Workers : phase[w] = "cutover" => /\ qual[w].op \in Operations /\ qual[w].op # o
                                                  /\ live \ late \subseteq embedded[qual[w].op]
  BY <1>1, CutoverStage DEF Inv
<1>12. QualInv'
  BY <1>1, <1>3, <1>11, QualKept DEF Inv
<1> QED
  BY <1>5, <1>7, <1>8, <1>9, <1>10, <1>12 DEF Inv, BuildInv

\* Pause and resume.
LEMMA PauseInv ==
  ASSUME Inv, NEW o \in Operations, PauseApply(o) \/ Resume(o)
  PROVE  Inv'
<1>1. UNCHANGED <<dataVars, task, phase, batch, left, tx, qual>>
  BY DEF PauseApply, Resume, workerVars
<1>2. CASE op[o].state \notin {"running", "paused"}
  <2>1. UNCHANGED op
    BY <1>2 DEF PauseApply, Resume
  <2>2. Types' /\ QualInv'
    BY <1>1, <2>1 DEF Inv, Types, DataTypes, OpTypes, WorkerTypes, dataVars, QualInv, QualBehind,
       QualOnce, CutoverReady, QualificationHolds
  <2>3. ClaimInv'
    BY <1>1, <2>1, ClaimsKeptByOthers DEF Inv, New
  <2>4. BuildInv'
    BY <1>1, <2>1, BuildKept DEF Inv, dataVars
  <2> QED
    BY <2>2, <2>3, <2>4 DEF Inv
<1>3. CASE op[o].state \in {"running", "paused"}
  <2>1. PICK st \in {"running", "paused"} : op' = [op EXCEPT ![o] = [op[o] EXCEPT !.state = st]]
    <3>1. op = [op EXCEPT ![o] = [op[o] EXCEPT !.state = op[o].state]]
      BY DEF Inv, Types, OpTypes, OpRows
    <3> QED
      BY <1>3, <3>1 DEF PauseApply, Resume, Inv, Types, OpTypes
  <2> DEFINE row == [op[o] EXCEPT !.state = st]
  <2>2. row \in OpRows /\ row.state = st /\ row.fence = op[o].fence
    BY DEF Inv, Types, OpTypes, OpRows
  <2> HIDE DEF row
  <2>3. op' = [op EXCEPT ![o] = row]
    BY <2>1 DEF row
  <2>4. genState[o] \notin {"active", "retained"}
    BY <1>3 DEF Inv, BuildInv, Stages
  <2> QED
    BY <1>1, <1>3, <2>2, <2>3, <2>4, OperationMoves
<1> QED
  BY <1>2, <1>3

\* An open commit's claim and operation.
LEMMA OpenCommit ==
  ASSUME Inv, NEW w \in Workers, tx[w] # None
  PROVE  /\ tx[w].claim \in batch[w] /\ tx[w].claim \in left[w] /\ tx[w].claim \in Claims
         /\ tx[w].claim.op \in Operations /\ tx[w].claim.chunk \in Chunks
         /\ tx[w].last \in BOOLEAN
         /\ Matches(tx[w].claim) /\ ~New(tx[w].claim.op)
         /\ Locked(tx[w].claim.op, tx[w].claim.chunk)
<1>1. tx[w].claim \in batch[w] /\ tx[w].claim \in left[w] /\ Matches(tx[w].claim)
  BY DEF Inv, ClaimInv, TxHolds, LeftOfBatch
<1>2. tx[w].claim \in Claims /\ tx[w].last \in BOOLEAN
  BY DEF Inv, Types, WorkerTypes, Commits
<1>3. ~New(tx[w].claim.op)
  BY <1>1 DEF Inv, ClaimInv, Behind
<1> QED
  BY <1>1, <1>2, <1>3 DEF Claims, Locked

LEMMA CancelInv ==
  ASSUME Inv, NEW o \in Operations, Cancel(o)
  PROVE  Inv'
<1>1. /\ op[o].state \in {"paused", "failed"} /\ InState(o, "running") = {}
      /\ op' = [op EXCEPT ![o].state = "cancelled"]
      /\ UNCHANGED <<live, late, embedded, current, task, phase, batch, left, tx, qual>>
      /\ genState' = IF genState[o] = "building" THEN [genState EXCEPT ![o] = "abandoned"]
                                                 ELSE genState
  BY DEF Cancel, workerVars
<1>2. \A p \in Operations :
        /\ op'[p].fence = op[p].fence /\ op'[p].leased = op[p].leased
        /\ op'[p].state = IF p = o THEN "cancelled" ELSE op[p].state
        /\ p # o => genState'[p] = genState[p]
  BY <1>1 DEF Inv, Types, OpTypes, OpRows, DataTypes, Generations
<1>3. Types'
  <2>1. DataTypes' /\ WorkerTypes'
    BY <1>1 DEF Inv, Types, DataTypes, WorkerTypes, GenStates
  <2>2. OpTypes'
    BY <1>1 DEF Inv, Types, OpTypes, OpRows
  <2> QED
    BY <2>1, <2>2 DEF Types
<1>4. ClaimInv'
  BY <1>1, <1>2, ClaimsKeptByOthers DEF Inv, New
<1>5. Embedded'
  BY <1>1 DEF Inv, BuildInv, Embedded
<1>6. LastIsLast'
  <2> SUFFICES ASSUME NEW w \in Workers, tx[w] # None, tx[w].last
               PROVE  /\ genState'[tx[w].claim.op] = "building"
                      /\ DoneBut(tx[w].claim.op, tx[w].claim.chunk)'
    BY <1>1 DEF LastIsLast
  <2>1. tx[w].claim.op # o
    BY <1>1, OpenCommit DEF InState, Matches
  <2> QED
    BY <1>1, <1>2, <2>1, OpenCommit DEF Inv, BuildInv, LastIsLast, DoneBut
<1>7. genState[o] \notin {"active", "retained"} /\ genState'[o] \notin {"active", "retained"}
      /\ current # o
  BY <1>1 DEF Inv, BuildInv, Stages, OneActive, Types, DataTypes, Generations
<1>8. Stages'
  BY <1>1, <1>2, <1>7 DEF Inv, BuildInv, Stages, New, Done
<1>9. OneActive'
  BY <1>1, <1>7 DEF Inv, BuildInv, OneActive
<1>10. \A w \in Workers : phase[w] = "cutover" => /\ qual[w].op \in Operations /\ qual[w].op # o
                                                  /\ live \ late \subseteq embedded[qual[w].op]
  BY <1>1, CutoverStage DEF Inv
<1>11. QualInv'
  BY <1>1, <1>2, <1>10, QualKept DEF Inv
<1> QED
  BY <1>3, <1>4, <1>5, <1>6, <1>8, <1>9, <1>11 DEF Inv, BuildInv

LEMMA RetryInv ==
  ASSUME Inv, NEW o \in Operations, Retry(o)
  PROVE  Inv'
<1>1. /\ op[o].state = "failed"
      /\ op' = [op EXCEPT ![o].state = "running"]
      /\ task' = [task EXCEPT ![o] = [c \in Chunks |->
                IF task[o][c].state = "failed" /\ task[o][c].fence < TaskAttempts
                  THEN [task[o][c] EXCEPT !.state = "queued"] ELSE task[o][c]]]
      /\ genState' = IF genState[o] = "none" THEN genState
                                             ELSE [genState EXCEPT ![o] = "building"]
      /\ UNCHANGED <<live, late, embedded, current, phase, batch, left, tx, qual>>
  BY DEF Retry, workerVars
<1>2. \A p \in Operations :
        /\ op'[p].fence = op[p].fence /\ op'[p].leased = op[p].leased
        /\ op'[p].state = IF p = o THEN "running" ELSE op[p].state
        /\ p # o => genState'[p] = genState[p] /\ task'[p] = task[p]
  BY <1>1 DEF Inv, Types, OpTypes, OpRows, DataTypes, Generations
<1>3. \A c \in Chunks :
        /\ task'[o][c] \in TaskRows /\ task'[o][c].fence = task[o][c].fence
        /\ \/ task'[o][c].state = task[o][c].state
           \/ task[o][c].state = "failed" /\ task'[o][c].state = "queued"
  <2> SUFFICES ASSUME NEW c \in Chunks
               PROVE  /\ task'[o][c] \in TaskRows /\ task'[o][c].fence = task[o][c].fence
                      /\ \/ task'[o][c].state = task[o][c].state
                         \/ task[o][c].state = "failed" /\ task'[o][c].state = "queued"
    OBVIOUS
  <2>1. task'[o][c] = IF task[o][c].state = "failed" /\ task[o][c].fence < TaskAttempts
                        THEN [task[o][c] EXCEPT !.state = "queued"] ELSE task[o][c]
    BY <1>1 DEF Inv, Types, OpTypes
  <2>2. task[o][c] \in TaskRows
    BY TaskType DEF Inv
  <2> QED
    BY <2>1, <2>2 DEF TaskRows
<1>4. Types'
  <2>1. DataTypes' /\ WorkerTypes'
    BY <1>1 DEF Inv, Types, DataTypes, WorkerTypes, GenStates
  <2>2. op' \in [Operations -> OpRows]
    BY <1>1 DEF Inv, Types, OpTypes, OpRows
  <2>3. task' \in [Operations -> [Chunks -> TaskRows]]
    <3>1. [c \in Chunks |-> IF task[o][c].state = "failed" /\ task[o][c].fence < TaskAttempts
              THEN [task[o][c] EXCEPT !.state = "queued"] ELSE task[o][c]] \in [Chunks -> TaskRows]
      BY DEF Inv, Types, OpTypes, TaskRows
    <3> QED
      BY <1>1, <3>1 DEF Inv, Types, OpTypes
  <2> QED
    BY <2>1, <2>2, <2>3 DEF Types, OpTypes
<1>5. ClaimInv'
  BY <1>1, <1>2, <1>3, ClaimsKeptByOthers DEF Inv, New
<1>6. Embedded'
  BY <1>1, <1>2, <1>3 DEF Inv, BuildInv, Embedded
<1>7. LastIsLast'
  <2> SUFFICES ASSUME NEW w \in Workers, tx[w] # None, tx[w].last
               PROVE  /\ genState'[tx[w].claim.op] = "building"
                      /\ DoneBut(tx[w].claim.op, tx[w].claim.chunk)'
    BY <1>1 DEF LastIsLast
  <2>1. /\ genState[tx[w].claim.op] = "building"
        /\ DoneBut(tx[w].claim.op, tx[w].claim.chunk)
    BY DEF Inv, BuildInv, LastIsLast
  <2>2. genState'[tx[w].claim.op] = "building"
    BY <1>1, <2>1, OpenCommit DEF Inv, Types, DataTypes, Generations
  <2>3. DoneBut(tx[w].claim.op, tx[w].claim.chunk)'
    BY <1>1, <1>2, <1>3, <2>1, OpenCommit DEF DoneBut
  <2> QED
    BY <2>2, <2>3
<1>8. genState[o] \notin {"active", "retained"} /\ genState'[o] \notin {"active", "retained"}
      /\ current # o
  BY <1>1 DEF Inv, BuildInv, Stages, OneActive, Types, DataTypes, Generations
<1>9. Stages'
  <2>1. \A p \in Operations : p # o => (Done(p) <=> Done(p)') /\ (New(p) <=> New(p)')
    BY <1>2 DEF Done, New
  <2> QED
    BY <1>2, <1>8, <2>1 DEF Inv, BuildInv, Stages, New
<1>10. OneActive'
  BY <1>1, <1>8 DEF Inv, BuildInv, OneActive
<1>11. \A w \in Workers : phase[w] = "cutover" => /\ qual[w].op \in Operations /\ qual[w].op # o
                                                  /\ live \ late \subseteq embedded[qual[w].op]
  BY <1>1, CutoverStage DEF Inv
<1>12. QualInv'
  BY <1>1, <1>2, <1>11, QualKept DEF Inv
<1> QED
  BY <1>4, <1>5, <1>6, <1>7, <1>9, <1>10, <1>12 DEF Inv, BuildInv

LEMMA RollbackInv ==
  ASSUME Inv, NEW e \in Generations, Rollback(e)
  PROVE  Inv'
<1>1. /\ genState[e] = "retained"
      /\ genState' = [genState EXCEPT ![current] = "retained", ![e] = "active"]
      /\ current' = e
      /\ UNCHANGED <<live, late, embedded, op, task, phase, batch, left, tx, qual>>
  BY DEF Rollback, SwitchTo, opVars, workerVars
<1>2. /\ genState'[e] = "active"
      /\ \A f \in Generations : f # e => genState'[f] = IF f = current THEN "retained" ELSE genState[f]
  BY <1>1 DEF Inv, Types, DataTypes
<1>3. Types'
  BY <1>1 DEF Inv, Types, DataTypes, OpTypes, WorkerTypes, GenStates
<1>4. ClaimInv'
  BY <1>1, ClaimsKeptByOthers DEF Inv, New
<1>5. Embedded' /\ OneActive'
  BY <1>1, <1>2 DEF Inv, BuildInv, Embedded, OneActive
<1>6. \A o \in Operations :
        /\ genState[o] \in {"none", "building"} => genState'[o] = genState[o]
        /\ genState'[o] \in {"active", "retained"} => genState[o] \in {"active", "retained"}
  BY <1>1, <1>2 DEF Generations, Inv, BuildInv, OneActive
<1>7. Stages'
  <2>1. \A o \in Operations : (New(o)' <=> New(o)) /\ (Done(o)' <=> Done(o))
    BY <1>1 DEF New, Done
  <2> QED
    BY <1>1, <1>6, <2>1 DEF Inv, BuildInv, Stages
<1>8. LastIsLast'
  BY <1>1, <1>6, OpenCommit DEF Inv, BuildInv, LastIsLast, DoneBut
<1>9. \A w \in Workers : phase[w] = "cutover" => live \ late \subseteq embedded[qual[w].op]
  BY CutoverStage DEF Inv
<1>10. QualInv'
  BY <1>1, <1>9, QualKept DEF Inv
<1> QED
  BY <1>3, <1>4, <1>5, <1>7, <1>8, <1>10 DEF Inv, BuildInv

LEMMA CleanupInv ==
  ASSUME Inv, NEW e \in Generations, CleanupGeneration(e)
  PROVE  Inv'
<1>1. /\ e \in Operations /\ genState[e] \in {"retained", "abandoned"} /\ e # current
      /\ \A c \in Chunks : ~Locked(e, c)
      /\ genState' = [genState EXCEPT ![e] = "none"]
      /\ embedded' = [embedded EXCEPT ![e] = {}]
      /\ task' = [task EXCEPT ![e] = [c \in Chunks |-> NoTask]]
      /\ UNCHANGED <<live, late, current, op, phase, batch, left, tx, qual>>
  BY DEF CleanupGeneration, workerVars
<1>2. NoTask \in TaskRows /\ NoTask.state = "none"
  BY DEF NoTask, TaskRows
<1>3. Types'
  BY <1>1, <1>2 DEF Inv, Types, DataTypes, OpTypes, WorkerTypes, GenStates
<1>4. /\ genState'[e] = "none" /\ \A c \in Chunks : task'[e][c].state = "none"
      /\ \A o \in Operations : o # e => /\ genState'[o] = genState[o] /\ embedded'[o] = embedded[o]
                                        /\ task'[o] = task[o]
  BY <1>1, <1>2 DEF Inv, Types, DataTypes, OpTypes, Generations
<1>5. ClaimInv'
  BY <1>1, <1>4, ClaimsKeptByOthers DEF Inv, New
<1>6. Embedded'
  BY <1>4 DEF Inv, BuildInv, Embedded
<1>7. OneActive'
  BY <1>1 DEF Inv, BuildInv, OneActive, Types, DataTypes
<1>8. Stages'
  BY <1>1, <1>4 DEF Inv, BuildInv, Stages, New, Done
<1>9. LastIsLast'
  <2> SUFFICES ASSUME NEW w \in Workers, tx[w] # None, tx[w].last
               PROVE  /\ genState'[tx[w].claim.op] = "building"
                      /\ DoneBut(tx[w].claim.op, tx[w].claim.chunk)'
    BY <1>1 DEF LastIsLast
  <2>1. tx[w].claim.op # e
    BY <1>1, OpenCommit
  <2> QED
    BY <1>1, <1>4, <2>1, OpenCommit DEF Inv, BuildInv, LastIsLast, DoneBut
<1>10. \A w \in Workers : phase[w] = "cutover" => live \ late \subseteq embedded'[qual[w].op]
  BY <1>1, <1>4, CutoverStage DEF Inv
<1>11. QualInv'
  BY <1>1, <1>10, QualKept DEF Inv
<1> QED
  BY <1>3, <1>5, <1>6, <1>7, <1>8, <1>9, <1>11 DEF Inv, BuildInv

\* Leases that run out, and a pause that has only looked.
LEMMA ExpireTaskInv ==
  ASSUME Inv, NEW o \in Operations, NEW c \in Chunks, ExpireTask(o, c)
  PROVE  Inv'
<1>1. /\ task' = [task EXCEPT ![o][c].leased = FALSE]
      /\ UNCHANGED <<dataVars, op, phase, batch, left, tx, qual>>
  BY DEF ExpireTask, workerVars
<1>2. PICK row \in TaskRows :
        /\ task' = [task EXCEPT ![o][c] = row]
        /\ row.state = task[o][c].state /\ row.fence = task[o][c].fence
  <2>1. task[o][c] \in TaskRows
    BY TaskType DEF Inv
  <2>2. /\ [task[o][c] EXCEPT !.leased = FALSE] \in TaskRows
        /\ [task[o][c] EXCEPT !.leased = FALSE].state = task[o][c].state
        /\ [task[o][c] EXCEPT !.leased = FALSE].fence = task[o][c].fence
    BY <2>1 DEF TaskRows
  <2> QED
    BY <1>1, <2>2
<1>3. /\ Types'
      /\ \A p \in Operations, d \in Chunks :
           task'[p][d].state = task[p][d].state /\ task'[p][d].fence = task[p][d].fence
  <2>1. /\ task' \in [Operations -> [Chunks -> TaskRows]]
        /\ \A p \in Operations, d \in Chunks :
              task'[p][d] = IF p = o /\ d = c THEN row ELSE task[p][d]
    BY <1>2, TaskWrite DEF Inv
  <2>2. Types'
    BY <1>1, <2>1 DEF Inv, Types, DataTypes, OpTypes, WorkerTypes, dataVars
  <2> QED
    BY <1>2, <2>1, <2>2
<1>4. ClaimInv'
  BY <1>1, <1>3, ClaimsKeptByOthers DEF Inv, New
<1>5. BuildInv'
  BY <1>1, <1>3, BuildKept DEF Inv, dataVars
<1>6. \A w \in Workers : phase[w] = "cutover" => live \ late \subseteq embedded[qual[w].op]
  BY CutoverStage DEF Inv
<1>7. QualInv'
  BY <1>1, <1>6, QualKept DEF Inv, dataVars
<1> QED
  BY <1>3, <1>4, <1>5, <1>7 DEF Inv

LEMMA ExpireQualificationInv ==
  ASSUME Inv, NEW o \in Operations, ExpireQualification(o)
  PROVE  Inv'
<1>1. /\ op' = [op EXCEPT ![o].leased = FALSE]
      /\ \A w \in Workers : phase[w] = "cutover" => qual[w].op # o
      /\ UNCHANGED <<dataVars, task, phase, batch, left, tx, qual>>
  BY DEF ExpireQualification, workerVars
<1>2. Types'
  BY <1>1 DEF Inv, Types, DataTypes, OpTypes, WorkerTypes, OpRows, dataVars
<1>3. \A p \in Operations : /\ op'[p].state = op[p].state /\ op'[p].fence = op[p].fence
                            /\ p # o => op'[p] = op[p]
  BY <1>1 DEF Inv, Types, OpTypes, OpRows
<1>4. ClaimInv'
  BY <1>1, <1>3, ClaimsKeptByOthers DEF Inv, New
<1>5. BuildInv'
  BY <1>1, <1>3, BuildKept DEF Inv, dataVars
<1>6. \A w \in Workers : phase[w] = "cutover" => /\ live \ late \subseteq embedded[qual[w].op]
                                                 /\ qual[w].op \in Operations
  BY CutoverStage DEF Inv
<1>7. QualInv'
  BY <1>1, <1>3, <1>6, QualKept DEF Inv, dataVars
<1> QED
  BY <1>2, <1>4, <1>5, <1>7 DEF Inv

LEMMA NothingInv ==
  ASSUME Inv, UNCHANGED <<dataVars, op, task, phase, batch, left, tx, qual>>
  PROVE  Inv'
<1>1. Types'
  BY DEF Inv, Types, DataTypes, OpTypes, WorkerTypes, dataVars
<1>2. ClaimInv'
  BY ClaimsKeptByOthers DEF Inv, New
<1>3. BuildInv'
  BY BuildKept DEF Inv, dataVars
<1>4. \A w \in Workers : phase[w] = "cutover" => live \ late \subseteq embedded[qual[w].op]
  BY CutoverStage DEF Inv
<1>5. QualInv'
  BY <1>4, QualKept DEF Inv, dataVars
<1> QED
  BY <1>1, <1>2, <1>3, <1>5 DEF Inv

-----------------------------------------------------------------------------
(* The workers.                                                            *)

\* A worker that lets go of all it has, or of nothing, without writing to the database.
LEMMA WorkerRestsInv ==
  ASSUME Inv, NEW w \in Workers,
         UNCHANGED <<dataVars, op, task>>,
         \A v \in Workers \ {w} : /\ phase'[v] = phase[v] /\ batch'[v] = batch[v]
                                  /\ left'[v] = left[v] /\ tx'[v] = tx[v] /\ qual'[v] = qual[v],
         WorkerTypes',
         batch'[w] \subseteq batch[w], left'[w] \subseteq batch'[w], tx'[w] = None,
         phase'[w] \in {"idle", "committing", "failing", "down"}, qual'[w] \in {qual[w], None}
  PROVE  Inv'
<1>1. Types'
  BY DEF Inv, Types, DataTypes, OpTypes, dataVars
<1>2. \A v \in Workers : tx[v] # None => task[tx[v].claim.op][tx[v].claim.chunk].state = "running"
  BY OpenCommit DEF Matches
<1>3. ClaimInv'
  BY <1>2, ClaimsKeptByWorker DEF Inv, New
<1>4. BuildInv'
  BY BuildKept DEF Inv, dataVars
<1>5. \A v \in Workers : phase[v] = "cutover" => live \ late \subseteq embedded[qual[v].op]
  BY CutoverStage DEF Inv
<1>6. QualInv'
  BY <1>5, QualKept DEF Inv, dataVars
<1> QED
  BY <1>1, <1>3, <1>4, <1>6 DEF Inv

LEMMA ReportTypes ==
  ASSUME Inv, NEW w \in Workers, NEW k, Report(w, k)
  PROVE  /\ WorkerTypes'
         /\ \A v \in Workers \ {w} : /\ phase'[v] = phase[v] /\ batch'[v] = batch[v]
                                     /\ left'[v] = left[v] /\ tx'[v] = tx[v]
         /\ UNCHANGED qual
         /\ batch'[w] \subseteq batch[w] /\ left'[w] \subseteq batch'[w] /\ tx'[w] = None
         /\ phase[w] \in {"committing", "counted", "failing"} =>
              phase'[w] \in {"idle", "committing", "failing"}
<1>1. WorkerTypes'
  BY DEF Inv, Types, WorkerTypes, Report, Phases
<1>2. /\ \A v \in Workers \ {w} : /\ phase'[v] = phase[v] /\ batch'[v] = batch[v]
                                  /\ left'[v] = left[v] /\ tx'[v] = tx[v]
      /\ UNCHANGED qual /\ tx'[w] = None
      /\ phase[w] \in {"committing", "counted", "failing"} =>
              phase'[w] \in {"idle", "committing", "failing"}
  BY DEF Inv, Types, WorkerTypes, Report
<1>3. left'[w] = left[w] \ {k} /\ batch'[w] = IF left[w] = {k} THEN {} ELSE batch[w]
  BY DEF Inv, Types, WorkerTypes, Report
<1>4. left[w] \subseteq batch[w]
  BY DEF Inv, ClaimInv, LeftOfBatch
<1> QED
  BY <1>1, <1>2, <1>3, <1>4

LEMMA RestSteps ==
  ASSUME Inv, NEW w \in Workers,
         \/ BatchError(w)
         \/ QualifyStale(w)
         \/ Crash(w)
         \/ Restart(w)
         \/ \E k \in left[w] : CommitStale(w, k)
         \/ \E o \in Operations : ClaimRaises(w, o)
  PROVE  Inv'
<1>0. /\ left[w] \subseteq batch[w] /\ (phase[w] = "counted" <=> tx[w] # None)
      /\ batch[w] \in SUBSET Claims
  BY DEF Inv, ClaimInv, LeftOfBatch, TxHolds, Types, WorkerTypes
<1>1. CASE BatchError(w)
  <2>1. /\ UNCHANGED <<dataVars, op, task, batch, tx, qual>>
        /\ phase[w] = "committing"
        /\ phase' = [phase EXCEPT ![w] = "failing"] /\ left' = [left EXCEPT ![w] = batch[w]]
    BY <1>1 DEF BatchError, opVars
  <2>2. WorkerTypes'
    BY <1>0, <2>1 DEF Inv, Types, WorkerTypes, Phases
  <2>3. phase'[w] = "failing" /\ left'[w] = batch[w] /\ tx'[w] = None
        /\ \A v \in Workers \ {w} : phase'[v] = phase[v] /\ left'[v] = left[v]
    BY <1>0, <2>1 DEF Inv, Types, WorkerTypes
  <2> QED
    BY <2>1, <2>2, <2>3, WorkerRestsInv
<1>2. CASE QualifyStale(w)
  <2>1. UNCHANGED <<dataVars, op, task>> /\ Idle(w) /\ phase[w] = "qualifying"
    BY <1>2 DEF QualifyStale, opVars
  <2>2. WorkerTypes'
    BY <2>1 DEF Inv, Types, WorkerTypes, Idle, Phases
  <2>3. /\ phase'[w] = "idle" /\ left'[w] = {} /\ batch'[w] = {} /\ tx'[w] = None /\ qual'[w] = None
        /\ \A v \in Workers \ {w} : /\ phase'[v] = phase[v] /\ batch'[v] = batch[v]
                                    /\ left'[v] = left[v] /\ tx'[v] = tx[v] /\ qual'[v] = qual[v]
    BY <1>0, <2>1 DEF Inv, Types, WorkerTypes, Idle
  <2> QED
    BY <2>1, <2>2, <2>3, WorkerRestsInv
<1>3. CASE Crash(w)
  <2>1. UNCHANGED <<dataVars, op, task>>
    BY <1>3 DEF Crash, opVars
  <2>2. WorkerTypes'
    BY <1>3 DEF Inv, Types, WorkerTypes, Crash, Phases
  <2>3. /\ phase'[w] = "down" /\ left'[w] = {} /\ batch'[w] = {} /\ tx'[w] = None /\ qual'[w] = None
        /\ \A v \in Workers \ {w} : /\ phase'[v] = phase[v] /\ batch'[v] = batch[v]
                                    /\ left'[v] = left[v] /\ tx'[v] = tx[v] /\ qual'[v] = qual[v]
    BY <1>3 DEF Inv, Types, WorkerTypes, Crash
  <2> QED
    BY <2>1, <2>2, <2>3, WorkerRestsInv
<1>4. CASE Restart(w) \/ \E o \in Operations : ClaimRaises(w, o)
  <2>1. /\ UNCHANGED <<dataVars, op, task, batch, left, tx, qual>> /\ phase[w] # "counted"
        /\ \/ phase' = [phase EXCEPT ![w] = "idle"]
           \/ phase' = [phase EXCEPT ![w] = "down"]
    BY <1>4 DEF Restart, ClaimRaises, opVars
  <2>2. WorkerTypes'
    BY <2>1 DEF Inv, Types, WorkerTypes, Phases
  <2>3. /\ phase'[w] \in {"idle", "down"} /\ tx'[w] = None
        /\ \A v \in Workers \ {w} : phase'[v] = phase[v]
    BY <1>0, <2>1 DEF Inv, Types, WorkerTypes
  <2> QED
    BY <1>0, <2>1, <2>2, <2>3, WorkerRestsInv
<1>5. ASSUME NEW k \in left[w], CommitStale(w, k)
      PROVE  Inv'
  <2>1. UNCHANGED <<dataVars, op, task>> /\ Report(w, k) /\ phase[w] = "committing"
    BY <1>5 DEF CommitStale, opVars
  <2>2. /\ WorkerTypes'
        /\ \A v \in Workers \ {w} : /\ phase'[v] = phase[v] /\ batch'[v] = batch[v]
                                    /\ left'[v] = left[v] /\ tx'[v] = tx[v]
        /\ UNCHANGED qual
        /\ batch'[w] \subseteq batch[w] /\ left'[w] \subseteq batch'[w] /\ tx'[w] = None
        /\ phase'[w] \in {"idle", "committing", "failing"}
    BY <2>1, ReportTypes
  <2> QED
    BY <2>1, <2>2, WorkerRestsInv
<1> QED
  BY <1>1, <1>2, <1>3, <1>4, <1>5

LEMMA ClaimedRow ==
  ASSUME NEW t \in TaskRows
  PROVE  /\ Claimed(t) \in TaskRows /\ Claimed(t).state = "running"
         /\ Claimed(t).fence = t.fence + 1 /\ Claimed(t).fence \in Nat
<1>1. PICK n \in Nat : n = t.fence + 1
  BY DEF TaskRows
<1>2. Claimed(t) = [t EXCEPT !.state = "running", !.leased = TRUE, !.fence = n]
  BY <1>1 DEF Claimed, TaskRows
<1>3. [t EXCEPT !.state = "running", !.leased = TRUE, !.fence = n] \in TaskRows
  BY DEF TaskRows
<1>4. Claimed(t).state = "running" /\ Claimed(t).fence = n
  BY <1>2 DEF TaskRows
<1> QED
  BY <1>1, <1>2, <1>3, <1>4

\* What a claim does to the rows it picks, and that its claims are ahead of them.
ClaimEffect(w, o, S, new) ==
  /\ \A c \in S : /\ op[o].state = "running"
                  /\ \/ task[o][c].state = "queued"
                     \/ task[o][c].state = "running" /\ ~Locked(o, c)
  /\ \A k \in new : /\ k.op = o /\ k.chunk \in S /\ k.fence = task[o][k.chunk].fence + 1
                    /\ k.fence \in Nat
  /\ task' \in [Operations -> [Chunks -> TaskRows]]
  /\ \A p \in Operations, d \in Chunks :
       IF p = o /\ d \in S
         THEN task'[p][d].state = "running" /\ task'[p][d].fence = task[o][d].fence + 1
         ELSE task'[p][d] = task[p][d]
  /\ batch' = [batch EXCEPT ![w] = new] /\ left' = [left EXCEPT ![w] = new]

LEMMA ClaimTasksEffect ==
  ASSUME Inv, NEW w \in Workers, NEW o \in Operations, ClaimTasks(w, o)
  PROVE  \E S \in SUBSET Chunks, new \in SUBSET Claims : ClaimEffect(w, o, S, new)
<1>1. PICK S \in Picks(o) :
        /\ task' = [task EXCEPT ![o] = [c \in Chunks |->
                      IF c \in S THEN Claimed(task[o][c]) ELSE task[o][c]]]
        /\ batch' = [batch EXCEPT ![w] =
             {[op |-> o, chunk |-> c, fence |-> Claimed(task[o][c]).fence] : c \in S}]
        /\ left' = [left EXCEPT ![w] =
             {[op |-> o, chunk |-> c, fence |-> Claimed(task[o][c]).fence] : c \in S}]
  BY DEF ClaimTasks
<1> DEFINE new == {[op |-> o, chunk |-> c, fence |-> Claimed(task[o][c]).fence] : c \in S}
<1>2. /\ S \in SUBSET Chunks
      /\ \A c \in S : /\ op[o].state = "running"
                      /\ \/ task[o][c].state = "queued"
                         \/ task[o][c].state = "running" /\ ~Locked(o, c)
  BY DEF Picks, Candidates
<1>3. ASSUME NEW c \in Chunks
      PROVE  /\ Claimed(task[o][c]) \in TaskRows /\ Claimed(task[o][c]).state = "running"
             /\ Claimed(task[o][c]).fence = task[o][c].fence + 1
             /\ Claimed(task[o][c]).fence \in Nat
  <2>1. task[o][c] \in TaskRows
    BY TaskType DEF Inv
  <2> QED
    BY <2>1, ClaimedRow
<1>4. PICK nw \in SUBSET Claims :
        /\ nw = new
        /\ \A k \in nw : /\ k.op = o /\ k.chunk \in S /\ k.fence = task[o][k.chunk].fence + 1
                         /\ k.fence \in Nat
  <2>1. ASSUME NEW k \in new
        PROVE  /\ k.op = o /\ k.chunk \in S /\ k.fence = task[o][k.chunk].fence + 1
               /\ k.fence \in Nat /\ k \in Claims
    <3>1. PICK c \in S : k = [op |-> o, chunk |-> c, fence |-> Claimed(task[o][c]).fence]
      OBVIOUS
    <3> QED
      BY <1>2, <1>3, <3>1 DEF Claims
  <2> HIDE DEF new
  <2> QED
    BY <2>1
<1>5. \A p \in Operations, d \in Chunks :
        task'[p][d] = IF p = o /\ d \in S THEN Claimed(task[o][d]) ELSE task[p][d]
  BY <1>1 DEF Inv, Types, OpTypes
<1>6. task' \in [Operations -> [Chunks -> TaskRows]]
  <2>1. [c \in Chunks |-> IF c \in S THEN Claimed(task[o][c]) ELSE task[o][c]]
          \in [Chunks -> TaskRows]
    BY <1>3, TaskType DEF Inv
  <2> QED
    BY <1>1, <2>1 DEF Inv, Types, OpTypes
<1>7. batch' = [batch EXCEPT ![w] = nw] /\ left' = [left EXCEPT ![w] = nw]
  BY <1>1, <1>4
<1>8. \A p \in Operations, d \in Chunks :
        IF p = o /\ d \in S
          THEN task'[p][d].state = "running" /\ task'[p][d].fence = task[o][d].fence + 1
          ELSE task'[p][d] = task[p][d]
  BY <1>3, <1>5
<1> HIDE DEF new
<1> S \in SUBSET Chunks
  BY <1>2
<1> WITNESS S \in SUBSET Chunks, nw \in SUBSET Claims
<1> QED
  BY <1>2, <1>4, <1>6, <1>7, <1>8 DEF ClaimEffect

LEMMA ClaimTasksInv ==
  ASSUME Inv, NEW w \in Workers, NEW o \in Operations, ClaimTasks(w, o)
  PROVE  Inv'
<1>0. PICK S \in SUBSET Chunks, new \in SUBSET Claims : ClaimEffect(w, o, S, new)
  BY ClaimTasksEffect
<1>1. /\ \A c \in S : /\ op[o].state = "running"
                      /\ \/ task[o][c].state = "queued"
                         \/ task[o][c].state = "running" /\ ~Locked(o, c)
      /\ \A k \in new : /\ k.op = o /\ k.chunk \in S /\ k.fence = task[o][k.chunk].fence + 1
                        /\ k.fence \in Nat
      /\ task' \in [Operations -> [Chunks -> TaskRows]]
      /\ \A p \in Operations, d \in Chunks :
           IF p = o /\ d \in S
             THEN task'[p][d].state = "running" /\ task'[p][d].fence = task[o][d].fence + 1
             ELSE task'[p][d] = task[p][d]
      /\ batch' = [batch EXCEPT ![w] = new] /\ left' = [left EXCEPT ![w] = new]
  BY <1>0 DEF ClaimEffect
<1>2. /\ UNCHANGED <<dataVars, op, tx, qual>> /\ phase[w] = "idle"
      /\ phase' = [phase EXCEPT ![w] = "committing"]
  BY DEF ClaimTasks
<1>3. Types'
  BY <1>1, <1>2 DEF Inv, Types, DataTypes, OpTypes, WorkerTypes, Phases, dataVars
<1>4. /\ batch'[w] = new /\ left'[w] = new /\ phase'[w] = "committing" /\ tx[w] = None
      /\ \A v \in Workers \ {w} : /\ phase'[v] = phase[v] /\ batch'[v] = batch[v]
                                  /\ left'[v] = left[v]
  BY <1>1, <1>2 DEF Inv, Types, WorkerTypes, ClaimInv, TxHolds
<1>5. \A v \in Workers : \A k \in batch[v] :
        /\ k \in Claims /\ k.op \in Operations /\ k.chunk \in Chunks /\ k.fence \in Nat
        /\ task[k.op][k.chunk].fence \in Nat
  BY TaskType DEF Inv, Types, WorkerTypes, Claims, TaskRows
<1>6. \A v \in Workers \ {w} : \A k \in batch[v] : k \notin new
  BY <1>1, <1>5 DEF Inv, ClaimInv, Behind
<1>7. Disjoint' /\ LeftOfBatch'
  BY <1>4, <1>6 DEF Inv, ClaimInv, Disjoint, LeftOfBatch
<1>8. Behind'
  <2>1. ASSUME NEW v \in Workers \ {w}, NEW k \in batch[v]
        PROVE  /\ ~New(k.op)'
               /\ task'[k.op][k.chunk].state # "none" => k.fence <= task'[k.op][k.chunk].fence
    BY <1>1, <1>2, <1>5, <2>1 DEF Inv, ClaimInv, Behind, New
  <2>2. ASSUME NEW k \in new
        PROVE  /\ ~New(k.op)'
               /\ task'[k.op][k.chunk].state # "none" => k.fence <= task'[k.op][k.chunk].fence
    BY <1>1, <1>2, <2>2 DEF New
  <2> QED
    BY <1>4, <2>1, <2>2 DEF Behind
<1>9. \A v \in Workers : tx[v] # None =>
        task'[tx[v].claim.op][tx[v].claim.chunk] = task[tx[v].claim.op][tx[v].claim.chunk]
  BY <1>1, OpenCommit DEF Matches
<1>10. TxHolds'
  <2> SUFFICES ASSUME NEW v \in Workers
               PROVE  /\ phase'[v] = "counted" <=> tx[v] # None
                      /\ tx[v] # None => tx[v].claim \in left'[v] /\ Matches(tx[v].claim)'
    BY <1>2 DEF TxHolds
  <2>1. phase'[v] = "counted" <=> tx[v] # None
    BY <1>4 DEF Inv, ClaimInv, TxHolds
  <2>2. ASSUME tx[v] # None PROVE tx[v].claim \in left'[v] /\ Matches(tx[v].claim)'
    BY <1>2, <1>4, <1>9, <2>2, OpenCommit DEF Matches
  <2> QED
    BY <2>1, <2>2
<1>11. \A p \in Operations, d \in Chunks :
         task'[p][d].state \in {"none", "completed"} <=> task[p][d].state \in {"none", "completed"}
  BY <1>1
<1>12. Embedded'
  BY <1>1, <1>2 DEF Inv, BuildInv, Embedded, dataVars
<1>13. LastIsLast'
  BY <1>2, <1>11, OpenCommit DEF Inv, BuildInv, LastIsLast, DoneBut, dataVars
<1>14. Stages'
  <2>1. \A p \in Operations : (New(p)' <=> New(p)) /\ (Done(p)' <=> Done(p))
    BY <1>2, <1>11 DEF New, Done
  <2> QED
    BY <1>2, <2>1 DEF Inv, BuildInv, Stages, dataVars
<1>15. OneActive'
  BY <1>2 DEF Inv, BuildInv, OneActive, dataVars
<1>16. \A v \in Workers : phase[v] = "cutover" => live \ late \subseteq embedded[qual[v].op]
  BY CutoverStage DEF Inv
<1>17. QualInv'
  BY <1>2, <1>4, <1>16, QualKept DEF Inv, dataVars
<1> QED
  BY <1>3, <1>7, <1>8, <1>10, <1>12, <1>13, <1>14, <1>15, <1>17 DEF Inv, ClaimInv, BuildInv

LEMMA CountTasksInv ==
  ASSUME Inv, NEW w \in Workers, NEW k \in left[w], CountTasks(w, k)
  PROVE  Inv'
<1> DEFINE new == [claim |-> k, last |-> BuildDone(k.op, k.chunk)]
<1>1. /\ phase[w] = "committing" /\ Matches(k) /\ genState[k.op] = "building"
      /\ UNCHANGED <<dataVars, op, task, batch, left, qual>>
      /\ tx' = [tx EXCEPT ![w] = new] /\ phase' = [phase EXCEPT ![w] = "counted"]
  BY DEF CountTasks, opVars
<1>2. k \in Claims /\ k.op \in Operations /\ k.chunk \in Chunks
  BY DEF Inv, Types, WorkerTypes, Claims
<1>3. new \in Commits /\ new # None /\ new.claim = k
      /\ new.last = BuildDone(k.op, k.chunk)
  <2>1. BuildDone(k.op, k.chunk) \in BOOLEAN
    BY DEF BuildDone
  <2> QED
    BY <1>2, <2>1, ReindexAssumption DEF Commits
<1>4. new.last => DoneBut(k.op, k.chunk)
  BY <1>3 DEF BuildDone, DoneBut, TasksOf, InState
<1> HIDE DEF new
<1>5. Types'
  BY <1>1, <1>3 DEF Inv, Types, DataTypes, OpTypes, WorkerTypes, Phases, dataVars
<1>6. /\ tx'[w] = new /\ phase'[w] = "counted"
      /\ \A v \in Workers \ {w} : tx'[v] = tx[v] /\ phase'[v] = phase[v]
  BY <1>1 DEF Inv, Types, WorkerTypes
<1>7. Behind' /\ Disjoint' /\ LeftOfBatch'
  BY <1>1 DEF Inv, ClaimInv, Behind, Disjoint, LeftOfBatch, New
<1>8. TxHolds'
  BY <1>1, <1>3, <1>6 DEF Inv, ClaimInv, TxHolds, Matches
<1>9. Embedded' /\ Stages' /\ OneActive'
  BY <1>1 DEF Inv, BuildInv, Embedded, Stages, OneActive, New, Done, dataVars
<1>10. LastIsLast'
  BY <1>1, <1>3, <1>4, <1>6 DEF Inv, BuildInv, LastIsLast, DoneBut, dataVars
<1>11. \A v \in Workers : phase[v] = "cutover" => live \ late \subseteq embedded[qual[v].op]
  BY CutoverStage DEF Inv
<1>12. QualInv'
  BY <1>1, <1>6, <1>11, QualKept DEF Inv, dataVars
<1> QED
  BY <1>5, <1>7, <1>8, <1>9, <1>10, <1>12 DEF Inv, ClaimInv, BuildInv

\* The row of a task after its commit, or after a failure.
LEMMA EndedRow ==
  ASSUME NEW t \in TaskRows, NEW st \in {"completed", "queued", "failed"}
  PROVE  /\ [t EXCEPT !.state = st, !.leased = FALSE] \in TaskRows
         /\ [t EXCEPT !.state = st, !.leased = FALSE].state = st
         /\ [t EXCEPT !.state = st, !.leased = FALSE].fence = t.fence
BY DEF TaskRows

\* A claim whose row the step writes.
EndsTask(k, st) ==
  /\ task' \in [Operations -> [Chunks -> TaskRows]]
  /\ \A p \in Operations, d \in Chunks :
       IF p = k.op /\ d = k.chunk
         THEN task'[p][d].state = st /\ task'[p][d].fence = task[p][d].fence
         ELSE task'[p][d] = task[p][d]

LEMMA EndsTaskRow ==
  ASSUME Types, NEW k \in Claims, NEW st \in {"completed", "queued", "failed"}
  PROVE  task' = [task EXCEPT ![k.op][k.chunk].state = st, ![k.op][k.chunk].leased = FALSE]
           => EndsTask(k, st)
<1>1. PICK o \in Operations, c \in Chunks : o = k.op /\ c = k.chunk
  BY DEF Claims
<1>2. PICK t \in TaskRows : t = task[o][c]
  BY TaskType
<1>3. PICK row \in TaskRows : row = [t EXCEPT !.state = st, !.leased = FALSE]
  BY EndedRow
<1>4. row.state = st /\ row.fence = t.fence
  BY <1>3, EndedRow
<1>5. ASSUME task' = [task EXCEPT ![k.op][k.chunk].state = st, ![k.op][k.chunk].leased = FALSE]
      PROVE  task' = [task EXCEPT ![o][c] = row]
  BY <1>1, <1>2, <1>3, <1>5 DEF Types, OpTypes
<1>6. task' = [task EXCEPT ![o][c] = row] =>
        /\ task' \in [Operations -> [Chunks -> TaskRows]]
        /\ \A p \in Operations, d \in Chunks :
             task'[p][d] = IF p = o /\ d = c THEN row ELSE task[p][d]
  BY DEF Types, OpTypes
<1>7. task' = [task EXCEPT ![o][c] = row] => EndsTask(k, st)
  BY <1>1, <1>2, <1>4, <1>6 DEF EndsTask
<1> QED
  BY <1>5, <1>7

LEMMA CommitTaskInv ==
  ASSUME Inv, NEW w \in Workers, NEW k \in left[w], CommitTask(w, k)
  PROVE  Inv'
<1>1. /\ phase[w] = "counted" /\ k = tx[w].claim /\ Report(w, k)
      /\ embedded' = [embedded EXCEPT ![k.op] = @ \cup {k.chunk}]
      /\ UNCHANGED <<live, late, genState, current>>
  BY DEF CommitTask
<1>2. /\ tx[w] # None /\ k \in Claims /\ k.op \in Operations /\ k.chunk \in Chunks
      /\ Matches(k) /\ ~New(k.op) /\ task[k.op][k.chunk].state = "running"
  BY <1>1, OpenCommit DEF Inv, ClaimInv, TxHolds, Matches
<1>3. EndsTask(k, "completed")
  <2>1. task' = [task EXCEPT ![k.op][k.chunk].state = "completed",
                             ![k.op][k.chunk].leased = FALSE]
    BY DEF CommitTask
  <2> QED
    BY <1>2, <2>1, EndsTaskRow DEF Inv
<1>4. \A p \in Operations, d \in Chunks :
        IF p = k.op /\ d = k.chunk
          THEN task'[p][d].state = "completed" /\ task'[p][d].fence = task[p][d].fence
          ELSE task'[p][d] = task[p][d]
  BY <1>3 DEF EndsTask
<1>5. \/ op' = op
      \/ op' = [op EXCEPT ![k.op].state = "qualifying"] /\ genState[k.op] = "building" /\ Done(k.op)'
  <2>1. CASE tx[w].last
    <3>1. op' = [op EXCEPT ![k.op].state = "qualifying"]
      BY <2>1 DEF CommitTask
    <3>2. genState[k.op] = "building" /\ DoneBut(k.op, k.chunk)
      BY <1>1, <1>2, <2>1 DEF Inv, BuildInv, LastIsLast
    <3>3. Done(k.op)'
      BY <1>2, <1>4, <3>2 DEF Done, DoneBut
    <3> QED
      BY <3>1, <3>2, <3>3
  <2>2. CASE ~tx[w].last
    BY <2>2 DEF CommitTask
  <2> QED
    BY <2>1, <2>2
<1>51. /\ op' \in [Operations -> OpRows]
       /\ \A p \in Operations :
            /\ op'[p].fence = op[p].fence /\ op'[p].leased = op[p].leased
            /\ \/ op'[p].state = op[p].state
               \/ /\ p = k.op /\ op'[p].state = "qualifying"
                  /\ genState[p] = "building" /\ Done(p)'
  <2>1. CASE op' = op
    BY <2>1 DEF Inv, Types, OpTypes
  <2>2. CASE op' = [op EXCEPT ![k.op].state = "qualifying"]
    BY <1>2, <1>5, <2>2 DEF Inv, Types, OpTypes, OpRows
  <2> QED
    BY <1>5, <2>1, <2>2
<1>6. \A e \in Generations : embedded[e] \subseteq embedded'[e]
  BY <1>1 DEF Inv, Types, DataTypes
<1>7. k.chunk \in embedded'[k.op]
  BY <1>1, <1>2 DEF Inv, Types, DataTypes, Generations
<1>8. /\ WorkerTypes'
      /\ \A v \in Workers \ {w} : /\ phase'[v] = phase[v] /\ batch'[v] = batch[v]
                                  /\ left'[v] = left[v] /\ tx'[v] = tx[v]
      /\ UNCHANGED qual
      /\ batch'[w] \subseteq batch[w] /\ left'[w] \subseteq batch'[w] /\ tx'[w] = None
      /\ phase'[w] \in {"idle", "committing", "failing"}
  BY <1>1, ReportTypes
<1>9. Types'
  <2>1. DataTypes'
    BY <1>1, <1>2 DEF Inv, Types, DataTypes
  <2> QED
    BY <1>3, <1>51, <1>8, <2>1 DEF Types, OpTypes, EndsTask
<1>10. ASSUME NEW v \in Workers \ {w}, tx[v] # None
       PROVE  /\ tx[v].claim.op \in Operations /\ tx[v].claim.chunk \in Chunks
              /\ task'[tx[v].claim.op][tx[v].claim.chunk].state = "running"
  <2>1. /\ tx[v].claim.op \in Operations /\ tx[v].claim.chunk \in Chunks
        /\ Matches(tx[v].claim)
    BY <1>10, OpenCommit
  <2>2. k.op # tx[v].claim.op \/ k.chunk # tx[v].claim.chunk
    BY <1>2, <1>10, ClaimsApart DEF Inv
  <2> QED
    BY <1>4, <2>1, <2>2 DEF Matches
<1>11. ClaimInv'
  <2>1. \A p \in Operations : New(p)' => New(p)
    BY <1>51 DEF New
  <2>2. \A p \in Operations, d \in Chunks :
          /\ task'[p][d].fence = task[p][d].fence
          /\ task[p][d].state = "none" => task'[p][d].state = "none"
    BY <1>2, <1>4
  <2> QED
    BY <1>8, <1>10, <2>1, <2>2, ClaimsKeptByWorker DEF Inv
<1>12. Embedded'
  BY <1>4, <1>6, <1>7 DEF Inv, BuildInv, Embedded, Generations
<1>13. LastIsLast'
  <2> SUFFICES ASSUME NEW v \in Workers \ {w}, tx[v] # None, tx[v].last
               PROVE  /\ genState[tx[v].claim.op] = "building"
                      /\ \A d \in Chunks \ {tx[v].claim.chunk} :
                           task'[tx[v].claim.op][d].state \in {"none", "completed"}
    BY <1>1, <1>8 DEF LastIsLast, DoneBut
  <2> QED
    BY <1>4, <1>10 DEF Inv, BuildInv, LastIsLast, DoneBut
<1>14. Stages'
  <2>1. \A p \in Operations : Done(p) => Done(p)'
    BY <1>4 DEF Done
  <2> QED
    BY <1>1, <1>2, <1>51, <2>1 DEF Inv, BuildInv, Stages, New
<1>15. OneActive'
  BY <1>1 DEF Inv, BuildInv, OneActive
<1>16. ASSUME NEW v \in Workers, phase[v] = "cutover"
       PROVE  /\ qual[v].op \in Operations /\ qual[v].op # k.op
              /\ live \ late \subseteq embedded'[qual[v].op]
  BY <1>2, <1>6, <1>16, CutoverStage DEF Inv, Done, Generations
<1>17. QualInv'
  BY <1>1, <1>51, <1>8, <1>16, QualKept DEF Inv
<1> QED
  BY <1>9, <1>11, <1>12, <1>13, <1>14, <1>15, <1>17 DEF Inv, BuildInv

\* A failed claim that the database accepts: the task is queued again, or the operation
\* fails and its generation is abandoned.
LEMMA FailTaskInv ==
  ASSUME Inv, NEW w \in Workers, NEW k \in left[w], FailTask(w, k)
  PROVE  Inv'
<1>1. /\ phase[w] = "failing" /\ Report(w, k)
      /\ UNCHANGED <<live, late, embedded, current>>
  BY DEF FailTask
<1>2. k \in Claims /\ k.op \in Operations /\ k.chunk \in Chunks
  BY DEF Inv, Types, WorkerTypes, Claims
<1>3. /\ WorkerTypes'
      /\ \A v \in Workers \ {w} : /\ phase'[v] = phase[v] /\ batch'[v] = batch[v]
                                  /\ left'[v] = left[v] /\ tx'[v] = tx[v]
      /\ UNCHANGED qual
      /\ batch'[w] \subseteq batch[w] /\ left'[w] \subseteq batch'[w] /\ tx'[w] = None
      /\ phase'[w] \in {"idle", "committing", "failing"}
  BY <1>1, ReportTypes
<1>4. CASE ~Matches(k)
  <2>1. UNCHANGED <<task, genState, op>>
    BY <1>4 DEF FailTask
  <2>2. Types'
    BY <1>1, <1>3, <2>1 DEF Inv, Types, DataTypes, OpTypes
  <2>3. \A v \in Workers : tx[v] # None => task[tx[v].claim.op][tx[v].claim.chunk].state = "running"
    BY OpenCommit DEF Matches
  <2>4. ClaimInv'
    BY <1>3, <2>1, <2>3, ClaimsKeptByWorker DEF Inv, New
  <2>5. BuildInv'
    BY <1>1, <1>3, <2>1, BuildKept DEF Inv
  <2>6. \A v \in Workers : phase[v] = "cutover" => live \ late \subseteq embedded[qual[v].op]
    BY CutoverStage DEF Inv
  <2>7. QualInv'
    BY <1>1, <1>3, <2>1, <2>6, QualKept DEF Inv
  <2> QED
    BY <2>2, <2>4, <2>5, <2>7 DEF Inv
<1>5. CASE Matches(k)
  <2>1. PICK st \in {"queued", "failed"} :
          /\ task' = [task EXCEPT ![k.op][k.chunk].state = st, ![k.op][k.chunk].leased = FALSE]
          /\ \/ UNCHANGED <<genState, op>>
             \/ /\ genState' = [genState EXCEPT ![k.op] = "abandoned"]
                /\ op' = [op EXCEPT ![k.op].state = "failed"]
    BY <1>5 DEF FailTask
  <2>2. EndsTask(k, st)
    BY <1>2, <2>1, EndsTaskRow DEF Inv
  <2>3. \A p \in Operations, d \in Chunks :
          IF p = k.op /\ d = k.chunk
            THEN task'[p][d].state = st /\ task'[p][d].fence = task[p][d].fence
            ELSE task'[p][d] = task[p][d]
    BY <2>2 DEF EndsTask
  <2>4. task[k.op][k.chunk].state = "running" /\ ~New(k.op)
    BY <1>5 DEF Matches, Inv, ClaimInv, LeftOfBatch, Behind
  <2>5. /\ op[k.op].state \notin {"none", "previewed", "qualifying", "succeeded"}
        /\ genState[k.op] \notin {"active", "retained"} /\ current # k.op
    BY <1>2, <2>4 DEF Inv, BuildInv, Stages, Done, OneActive, New
  <2>6. \A p \in Operations :
          /\ op'[p].fence = op[p].fence /\ op'[p].leased = op[p].leased
          /\ p # k.op => op'[p].state = op[p].state /\ genState'[p] = genState[p]
    BY <1>2, <2>1 DEF Inv, Types, OpTypes, OpRows, DataTypes, Generations
  <2>61. op' \in [Operations -> OpRows]
    <3>1. CASE UNCHANGED <<genState, op>>
      BY <3>1 DEF Inv, Types, OpTypes
    <3>2. CASE op' = [op EXCEPT ![k.op].state = "failed"]
      BY <1>2, <3>2 DEF Inv, Types, OpTypes, OpRows
    <3> QED
      BY <2>1, <3>1, <3>2
  <2>7. /\ op'[k.op].state \notin {"none", "previewed", "qualifying", "succeeded"}
        /\ genState'[k.op] \notin {"active", "retained"}
    BY <1>2, <2>1, <2>5 DEF Inv, Types, OpTypes, OpRows, DataTypes, Generations
  <2>8. Types'
    <3>1. DataTypes'
      BY <1>1, <1>2, <2>1 DEF Inv, Types, DataTypes, GenStates
    <3> QED
      BY <1>3, <2>2, <2>61, <3>1 DEF Types, OpTypes, EndsTask
  <2>9. ASSUME NEW v \in Workers \ {w}, tx[v] # None
        PROVE  /\ tx[v].claim.op \in Operations /\ tx[v].claim.chunk \in Chunks
               /\ task'[tx[v].claim.op][tx[v].claim.chunk].state = "running"
               /\ tx[v].last => tx[v].claim.op # k.op
    <3>1. /\ tx[v].claim.op \in Operations /\ tx[v].claim.chunk \in Chunks
          /\ Matches(tx[v].claim)
      BY <2>9, OpenCommit
    <3>2. k.op # tx[v].claim.op \/ k.chunk # tx[v].claim.chunk
      BY <1>5, <2>9, ClaimsApart DEF Inv
    <3>3. tx[v].last => tx[v].claim.op # k.op
      BY <1>2, <2>4, <2>9, <3>2 DEF Inv, BuildInv, LastIsLast, DoneBut
    <3> QED
      BY <2>3, <3>1, <3>2, <3>3 DEF Matches
  <2>10. ClaimInv'
    BY <1>2, <1>3, <2>3, <2>4, <2>6, <2>7, <2>9, ClaimsKeptByWorker DEF Inv, New
  <2>11. Embedded'
    BY <1>1, <2>3 DEF Inv, BuildInv, Embedded
  <2>12. LastIsLast'
    <3> SUFFICES ASSUME NEW v \in Workers \ {w}, tx[v] # None, tx[v].last
                 PROVE  /\ genState'[tx[v].claim.op] = "building"
                        /\ \A d \in Chunks \ {tx[v].claim.chunk} :
                             task'[tx[v].claim.op][d].state \in {"none", "completed"}
      BY <1>3 DEF LastIsLast, DoneBut
    <3> QED
      BY <2>3, <2>6, <2>9 DEF Inv, BuildInv, LastIsLast, DoneBut
  <2>13. Stages'
    <3>1. \A p \in Operations : p # k.op => (Done(p) => Done(p)') /\ (New(p)' => New(p))
      BY <2>3, <2>6 DEF Done, New
    <3> QED
      BY <2>6, <2>7, <3>1 DEF Inv, BuildInv, Stages, New
  <2>14. OneActive'
    BY <1>1, <1>2, <2>1, <2>5 DEF Inv, BuildInv, OneActive, Types, DataTypes
  <2>15. ASSUME NEW v \in Workers, phase[v] = "cutover"
         PROVE  /\ qual[v].op \in Operations /\ qual[v].op # k.op
                /\ live \ late \subseteq embedded[qual[v].op]
    BY <2>5, <2>15, CutoverStage DEF Inv
  <2>16. QualInv'
    BY <1>1, <1>3, <2>6, <2>15, QualKept DEF Inv
  <2> QED
    BY <2>8, <2>10, <2>11, <2>12, <2>13, <2>14, <2>16 DEF Inv, BuildInv
<1> QED
  BY <1>4, <1>5

-----------------------------------------------------------------------------
(* Qualification and cutover.                                              *)

LEMMA QualType ==
  ASSUME Inv, NEW w \in Workers, qual[w] # None
  PROVE  /\ qual[w] \in Qualifications /\ qual[w].op \in Operations /\ qual[w].fence \in Nat
         /\ op[qual[w].op].fence \in Nat /\ qual[w].fence <= op[qual[w].op].fence
<1>1. qual[w] \in Qualifications
  BY DEF Inv, Types, WorkerTypes
<1>2. qual[w].op \in Operations /\ qual[w].fence \in Nat
  BY <1>1 DEF Qualifications
<1> QED
  BY <1>1, <1>2 DEF Inv, Types, OpTypes, OpRows, QualInv, QualBehind

LEMMA ClaimQualificationInv ==
  ASSUME Inv, NEW w \in Workers, NEW o \in Operations, ClaimQualification(w, o)
  PROVE  Inv'
<1>1. PICK q \in Qualifications : q = [op |-> o, fence |-> op[o].fence + 1]
  <2>1. PICK n \in Nat : n = op[o].fence + 1
    BY DEF Inv, Types, OpTypes, OpRows
  <2>2. [op |-> o, fence |-> n] \in Qualifications
    BY DEF Qualifications
  <2> QED
    BY <2>1, <2>2
<1>2. q.op = o /\ q.fence = op[o].fence + 1 /\ q # None /\ op[o].fence \in Nat
  BY <1>1, ReindexAssumption DEF Inv, Types, OpTypes, OpRows
<1>3. /\ phase[w] = "idle" /\ op[o].state = "qualifying" /\ ~op[o].leased
      /\ qual' = [qual EXCEPT ![w] = q]
      /\ phase' = [phase EXCEPT ![w] = "qualifying"]
      /\ UNCHANGED <<dataVars, task, batch, left, tx>>
  BY <1>1 DEF ClaimQualification
<1>4. op' = [op EXCEPT ![o] = [op[o] EXCEPT !.leased = TRUE, !.fence = op[o].fence + 1]]
  BY DEF ClaimQualification, Inv, Types, OpTypes, OpRows
<1>5. PICK row \in OpRows : row = [op[o] EXCEPT !.leased = TRUE, !.fence = op[o].fence + 1]
  <2>1. PICK n \in Nat, r \in OpRows : n = op[o].fence + 1 /\ r = op[o]
    BY DEF Inv, Types, OpTypes, OpRows
  <2>2. [r EXCEPT !.leased = TRUE, !.fence = n] \in OpRows
    BY DEF OpRows
  <2> QED
    BY <2>1, <2>2
<1>6. row.state = op[o].state /\ row.fence = op[o].fence + 1
  BY <1>5 DEF Inv, Types, OpTypes, OpRows
<1>7. \A p \in Operations : op'[p] = IF p = o THEN row ELSE op[p]
  BY <1>4, <1>5 DEF Inv, Types, OpTypes
<1>8. Types'
  <2>1. op' \in [Operations -> OpRows]
    BY <1>4, <1>5 DEF Inv, Types, OpTypes
  <2> QED
    BY <1>3, <2>1 DEF Inv, Types, DataTypes, OpTypes, WorkerTypes, Phases, dataVars
<1>9. /\ phase'[w] = "qualifying" /\ qual'[w] = q /\ tx[w] = None
      /\ \A v \in Workers \ {w} : phase'[v] = phase[v] /\ qual'[v] = qual[v]
  BY <1>3 DEF Inv, Types, WorkerTypes, ClaimInv, TxHolds
<1>10. \A p \in Operations : op'[p].state = op[p].state
  BY <1>6, <1>7
<1>11. Behind' /\ Disjoint' /\ LeftOfBatch'
  BY <1>3, <1>10 DEF Inv, ClaimInv, Behind, Disjoint, LeftOfBatch, New, Types, WorkerTypes, Claims
<1>12. TxHolds'
  BY <1>3, <1>9 DEF Inv, ClaimInv, TxHolds, Matches
<1>13. BuildInv'
  BY <1>3, <1>10, BuildKept DEF Inv, dataVars
<1>14. ASSUME NEW v \in Workers, phase[v] = "cutover"
       PROVE  qual[v].op \in Operations /\ qual[v].op # o
  BY <1>3, <1>14, CutoverStage DEF Inv
<1>15. QualBehind'
  <2>1. \A v \in Workers \ {w} : qual[v] # None => qual[v].fence <= op'[qual[v].op].fence
    BY <1>2, <1>6, <1>7, QualType
  <2>2. q.fence <= op'[q.op].fence
    BY <1>2, <1>6, <1>7
  <2> QED
    BY <1>2, <1>9, <2>1, <2>2 DEF Inv, QualInv, QualBehind
<1>16. QualOnce'
  <2>1. \A v \in Workers : qual[v] # None => qual[v] # q
    BY <1>2, QualType
  <2> QED
    BY <1>9, <2>1 DEF Inv, QualInv, QualOnce
<1>17. CutoverReady'
  <2> SUFFICES ASSUME NEW v \in Workers \ {w}, phase[v] = "cutover"
               PROVE  QualificationHolds(qual[v])' /\ live \ late \subseteq embedded[qual[v].op]
    BY <1>3, <1>9 DEF CutoverReady, dataVars
  <2>1. op'[qual[v].op] = op[qual[v].op] /\ qual'[v] = qual[v]
    BY <1>7, <1>9, <1>14
  <2>2. QualificationHolds(qual[v]) /\ live \ late \subseteq embedded[qual[v].op]
    BY DEF Inv, QualInv, CutoverReady
  <2> QED
    BY <2>1, <2>2 DEF QualificationHolds
<1> QED
  BY <1>8, <1>11, <1>12, <1>13, <1>15, <1>16, <1>17 DEF Inv, ClaimInv, QualInv

\* What was compared is embedded: the operation qualifies, so each of its tasks is
\* completed, and its tasks are the live chunks.
LEMMA QualifyCheckInv ==
  ASSUME Inv, NEW w \in Workers, QualifyCheck(w)
  PROVE  Inv'
<1>1. /\ phase[w] = "qualifying" /\ QualificationHolds(qual[w]) /\ SourceUnchanged(qual[w].op)
      /\ phase' = [phase EXCEPT ![w] = "cutover"]
      /\ UNCHANGED <<dataVars, op, task, batch, left, tx, qual>>
  BY DEF QualifyCheck, opVars
<1>2. qual[w] # None /\ qual[w].op \in Operations
  BY <1>1, QualType DEF Inv, QualInv, QualBehind
<1>3. Types'
  BY <1>1 DEF Inv, Types, DataTypes, OpTypes, WorkerTypes, Phases, dataVars
<1>4. /\ phase'[w] = "cutover" /\ tx[w] = None
      /\ \A v \in Workers \ {w} : phase'[v] = phase[v]
  BY <1>1 DEF Inv, Types, WorkerTypes, ClaimInv, TxHolds
<1>5. ClaimInv'
  BY <1>1, <1>4 DEF Inv, ClaimInv, Behind, Disjoint, LeftOfBatch, TxHolds, Matches, New
<1>6. BuildInv'
  BY <1>1, BuildKept DEF Inv, dataVars
<1>7. live \subseteq embedded[qual[w].op]
  <2>1. Done(qual[w].op)
    BY <1>1, <1>2 DEF QualificationHolds, Inv, BuildInv, Stages
  <2>2. \A c \in live : c \in Chunks /\ task[qual[w].op][c].state = "completed"
    BY <1>1, <2>1 DEF SourceUnchanged, TasksOf, Done
  <2> QED
    BY <1>2, <2>2 DEF Inv, BuildInv, Embedded
<1>8. QualBehind' /\ QualOnce'
  BY <1>1, <1>2, <1>4 DEF Inv, QualInv, QualBehind, QualOnce
<1>9. CutoverReady'
  BY <1>1, <1>4, <1>7 DEF Inv, QualInv, CutoverReady, QualificationHolds, dataVars
<1> QED
  BY <1>3, <1>5, <1>6, <1>8, <1>9 DEF Inv, QualInv

\* The worker whose claim holds is the only one at the operation.
LEMMA EndQualification ==
  ASSUME Inv, NEW w \in Workers, qual[w] # None, QualificationHolds(qual[w]), Idle(w),
         NEW st \in {"succeeded", "failed"},
         op' = [op EXCEPT ![qual[w].op].state = st, ![qual[w].op].leased = FALSE],
         phase[w] \in {"qualifying", "cutover"},
         UNCHANGED <<live, late, embedded, task>>
  PROVE  /\ WorkerTypes' /\ OpTypes' /\ ClaimInv' /\ QualInv' /\ Embedded'
         /\ op'[qual[w].op].state = st
         /\ \A p \in Operations : p # qual[w].op => op'[p] = op[p]
         /\ UNCHANGED tx
<1>1. qual[w] \in Qualifications /\ qual[w].op \in Operations
  BY QualType
<1>2. PICK o \in Operations : o = qual[w].op
  BY <1>1
<1>3. PICK row \in OpRows : /\ op' = [op EXCEPT ![o] = row]
                            /\ row.state = st /\ row.fence = op[o].fence
  <2>1. PICK r \in OpRows : r = op[o]
    BY DEF Inv, Types, OpTypes
  <2>2. PICK s \in OpRows : s = [r EXCEPT !.state = st, !.leased = FALSE]
    BY DEF OpRows
  <2>3. s.state = st /\ s.fence = r.fence
    BY <2>2 DEF OpRows
  <2>4. op' = [op EXCEPT ![o] = s]
    BY <1>2, <2>1, <2>2 DEF Inv, Types, OpTypes
  <2> QED
    BY <2>1, <2>3, <2>4
<1>4. OpTypes' /\ \A p \in Operations : op'[p] = IF p = o THEN row ELSE op[p]
  BY <1>3 DEF Inv, Types, OpTypes
<1>5. WorkerTypes' /\ UNCHANGED tx
  BY DEF Inv, Types, WorkerTypes, Idle, Phases
<1>6. /\ phase'[w] = "idle" /\ left'[w] = {} /\ batch'[w] = {} /\ tx'[w] = None /\ qual'[w] = None
      /\ \A v \in Workers \ {w} : /\ phase'[v] = phase[v] /\ batch'[v] = batch[v]
                                  /\ left'[v] = left[v] /\ tx'[v] = tx[v] /\ qual'[v] = qual[v]
  BY DEF Inv, Types, WorkerTypes, Idle, ClaimInv, TxHolds
<1>7. \A v \in Workers : tx[v] # None => task[tx[v].claim.op][tx[v].claim.chunk].state = "running"
  BY OpenCommit DEF Matches
<1>8. \A p \in Operations : New(p)' => New(p)
  BY <1>3, <1>4 DEF New
<1>9. ClaimInv'
  BY <1>6, <1>7, <1>8, ClaimsKeptByWorker DEF Inv
<1>10. ASSUME NEW v \in Workers \ {w}, phase[v] = "cutover"
       PROVE  /\ qual[v].op \in Operations /\ qual[v].op # o
              /\ live \ late \subseteq embedded[qual[v].op]
  <2>1. /\ qual[v] \in Qualifications /\ qual[v].op \in Operations
        /\ op[qual[v].op].fence = qual[v].fence
        /\ live \ late \subseteq embedded[qual[v].op]
    BY <1>10, CutoverStage DEF Inv
  <2>2. ASSUME qual[v].op = o PROVE qual[v] = qual[w]
    BY <1>1, <1>2, <2>1, <2>2 DEF QualificationHolds, Qualifications
  <2>3. qual[v] # qual[w]
    BY DEF Inv, QualInv, QualOnce
  <2> QED
    BY <2>1, <2>2, <2>3
<1>11. QualInv'
  <2>1. \A v \in Workers :
          /\ qual'[v] \in {qual[v], None}
          /\ phase'[v] \in {"qualifying", "cutover"} =>
               phase'[v] = phase[v] /\ qual'[v] = qual[v]
    BY <1>6
  <2>2. \A p \in Operations : op'[p].fence = op[p].fence
    BY <1>3, <1>4
  <2>3. ASSUME NEW v \in Workers, phase[v] = "cutover", phase'[v] = "cutover"
        PROVE  /\ op'[qual[v].op] = op[qual[v].op]
               /\ live' \ late' \subseteq embedded'[qual[v].op]
    BY <1>4, <1>6, <1>10, <2>3
  <2> QED
    BY <2>1, <2>2, <2>3, QualKept DEF Inv
<1>12. Embedded'
  BY DEF Inv, BuildInv, Embedded
<1> QED
  BY <1>2, <1>3, <1>4, <1>5, <1>9, <1>11, <1>12

LEMMA CutoverInv ==
  ASSUME Inv, NEW w \in Workers, Cutover(w)
  PROVE  Inv'
<1>1. /\ phase[w] = "cutover" /\ SwitchTo(qual[w].op) /\ Idle(w)
      /\ UNCHANGED <<live, late, embedded, task>>
  BY DEF Cutover
<1>2. /\ qual[w] # None /\ qual[w].op \in Operations /\ QualificationHolds(qual[w])
      /\ genState[qual[w].op] = "building" /\ Done(qual[w].op)
  BY <1>1, CutoverStage DEF Inv, QualInv, QualBehind, CutoverReady
<1>3. /\ WorkerTypes' /\ OpTypes' /\ ClaimInv' /\ QualInv' /\ Embedded'
      /\ op'[qual[w].op].state = "succeeded"
      /\ \A p \in Operations : p # qual[w].op => op'[p] = op[p]
      /\ UNCHANGED tx
  <2>1. op' = [op EXCEPT ![qual[w].op].state = "succeeded", ![qual[w].op].leased = FALSE]
    BY DEF Cutover
  <2> QED
    BY <1>1, <1>2, <2>1, EndQualification
<1>4. PICK o \in Operations : o = qual[w].op
  BY <1>2
<1>5. /\ genState' = [genState EXCEPT ![current] = "retained", ![o] = "active"]
      /\ current' = o
  BY <1>1, <1>4 DEF SwitchTo
<1>6. /\ genState'[o] = "active"
      /\ \A f \in Generations : f # o => genState'[f] = IF f = current THEN "retained" ELSE genState[f]
  BY <1>5 DEF Inv, Types, DataTypes, Generations
<1>7. DataTypes'
  BY <1>1, <1>5 DEF Inv, Types, DataTypes, GenStates, Generations
<1>8. \A p \in Operations \ {o} :
        /\ genState[p] \in {"none", "building"} => genState'[p] = genState[p]
        /\ genState'[p] \in {"active", "retained"} => genState[p] \in {"active", "retained"}
  BY <1>6 DEF Generations, Inv, BuildInv, OneActive
<1>9. OneActive'
  BY <1>5, <1>6 DEF OneActive
<1>10. Stages'
  <2>1. \A p \in Operations : Done(p)' <=> Done(p)
    BY <1>1 DEF Done
  <2>2. \A p \in Operations \ {o} : New(p)' <=> New(p)
    BY <1>3, <1>4 DEF New
  <2> QED
    BY <1>2, <1>3, <1>4, <1>6, <1>8, <2>1, <2>2 DEF Inv, BuildInv, Stages, New
<1>11. LastIsLast'
  <2> SUFFICES ASSUME NEW v \in Workers, tx[v] # None, tx[v].last
               PROVE  /\ genState'[tx[v].claim.op] = "building"
                      /\ \A d \in Chunks \ {tx[v].claim.chunk} :
                           task[tx[v].claim.op][d].state \in {"none", "completed"}
    BY <1>1, <1>3 DEF LastIsLast, DoneBut
  <2>1. tx[v].claim.op \in Operations /\ tx[v].claim.op # o
    BY <1>2, <1>4, OpenCommit DEF Done, Matches
  <2> QED
    BY <1>8, <2>1 DEF Inv, BuildInv, LastIsLast, DoneBut
<1> QED
  BY <1>3, <1>7, <1>9, <1>10, <1>11 DEF Inv, Types, BuildInv

LEMMA QualifyFailInv ==
  ASSUME Inv, NEW w \in Workers, QualifyFail(w)
  PROVE  Inv'
<1>1. /\ phase[w] = "qualifying" /\ QualificationHolds(qual[w]) /\ Idle(w)
      /\ genState' = [genState EXCEPT ![qual[w].op] = "abandoned"]
      /\ UNCHANGED <<live, late, embedded, current, task>>
  BY DEF QualifyFail
<1>2. /\ qual[w] # None /\ qual[w].op \in Operations
      /\ genState[qual[w].op] = "building" /\ Done(qual[w].op)
  BY <1>1, QualType DEF Inv, QualInv, QualBehind, QualificationHolds, BuildInv, Stages
<1>3. /\ WorkerTypes' /\ OpTypes' /\ ClaimInv' /\ QualInv' /\ Embedded'
      /\ op'[qual[w].op].state = "failed"
      /\ \A p \in Operations : p # qual[w].op => op'[p] = op[p]
      /\ UNCHANGED tx
  <2>1. op' = [op EXCEPT ![qual[w].op].state = "failed", ![qual[w].op].leased = FALSE]
    BY DEF QualifyFail
  <2> QED
    BY <1>1, <1>2, <2>1, EndQualification
<1>4. PICK o \in Operations : o = qual[w].op
  BY <1>2
<1>5. /\ genState'[o] = "abandoned" /\ current # o
      /\ \A f \in Generations : f # o => genState'[f] = genState[f]
  BY <1>1, <1>2, <1>4 DEF Inv, Types, DataTypes, Generations, BuildInv, OneActive
<1>6. DataTypes'
  BY <1>1, <1>2 DEF Inv, Types, DataTypes, GenStates
<1>7. OneActive'
  BY <1>1, <1>5 DEF Inv, Types, DataTypes, BuildInv, OneActive
<1>8. Stages'
  <2>1. \A p \in Operations : Done(p)' <=> Done(p)
    BY <1>1 DEF Done
  <2>2. \A p \in Operations \ {o} : (New(p)' <=> New(p)) /\ genState'[p] = genState[p]
    BY <1>3, <1>4, <1>5 DEF New, Generations
  <2> QED
    BY <1>3, <1>4, <1>5, <2>1, <2>2 DEF Inv, BuildInv, Stages, New
<1>9. LastIsLast'
  <2> SUFFICES ASSUME NEW v \in Workers, tx[v] # None, tx[v].last
               PROVE  /\ genState'[tx[v].claim.op] = "building"
                      /\ \A d \in Chunks \ {tx[v].claim.chunk} :
                           task[tx[v].claim.op][d].state \in {"none", "completed"}
    BY <1>1, <1>3 DEF LastIsLast, DoneBut
  <2>1. tx[v].claim.op \in Operations /\ tx[v].claim.op # o
    BY <1>2, <1>4, OpenCommit DEF Done, Matches
  <2> QED
    BY <1>5, <2>1 DEF Inv, BuildInv, LastIsLast, DoneBut, Generations
<1> QED
  BY <1>3, <1>6, <1>7, <1>8, <1>9 DEF Inv, Types, BuildInv

-----------------------------------------------------------------------------
LEMMA InitInv == Init => Inv
<1> SUFFICES ASSUME Init PROVE Inv
  OBVIOUS
<1>1. NoTask \in TaskRows /\ NoTask.state = "none" /\ NoOperation \in OpRows
      /\ NoOperation.state = "none"
  BY DEF NoTask, TaskRows, NoOperation, OpRows
<1>2. Types
  <2>1. DataTypes
    BY DEF Init, DataTypes, Generations, GenStates
  <2>2. OpTypes
    BY <1>1 DEF Init, OpTypes
  <2>3. WorkerTypes
    BY DEF Init, WorkerTypes, Phases
  <2> QED
    BY <2>1, <2>2, <2>3 DEF Types
<1>3. \A o \in Operations : /\ op[o].state = "none" /\ genState[o] = "none"
                            /\ \A c \in Chunks : task[o][c].state = "none"
  BY <1>1, ReindexAssumption DEF Init, Generations
<1>4. ClaimInv
  BY DEF Init, ClaimInv, Behind, Disjoint, LeftOfBatch, TxHolds
<1>5. BuildInv
  BY <1>3 DEF Init, BuildInv, Embedded, LastIsLast, Stages, OneActive, New, Generations
<1>6. QualInv
  BY DEF Init, QualInv, QualBehind, QualOnce, CutoverReady
<1> QED
  BY <1>2, <1>4, <1>5, <1>6 DEF Inv

LEMMA NextInv == Inv /\ [Next]_vars => Inv'
<1> SUFFICES ASSUME Inv, [Next]_vars PROVE Inv'
  OBVIOUS
<1>1. ASSUME NEW c \in Chunks, Ingest(c) \/ Remove(c) PROVE Inv'
  BY <1>1, IngestInv, RemoveInv
<1>2. ASSUME NEW o \in Operations, AdminStep(o) \/ ExpireQualification(o) PROVE Inv'
  <2>1. CASE PauseCheck(o)
    BY <2>1, NothingInv DEF PauseCheck, workerVars
  <2> QED
    BY <1>2, <2>1, PreviewInv, StartInv, PauseInv, CancelInv, RetryInv, ExpireQualificationInv
    DEF AdminStep
<1>3. ASSUME NEW e \in Generations, Rollback(e) \/ CleanupGeneration(e) PROVE Inv'
  BY <1>3, RollbackInv, CleanupInv
<1>4. ASSUME NEW o \in Operations, NEW c \in Chunks, ExpireTask(o, c) PROVE Inv'
  BY <1>4, ExpireTaskInv
<1>5. ASSUME NEW w \in Workers, BatchStep(w) PROVE Inv'
  BY <1>5, RestSteps, CountTasksInv, CommitTaskInv, FailTaskInv DEF BatchStep
<1>6. ASSUME NEW w \in Workers, QualifyStep(w) PROVE Inv'
  BY <1>6, QualifyCheckInv, CutoverInv, QualifyFailInv, RestSteps DEF QualifyStep
<1>7. ASSUME NEW w \in Workers, ClaimStep(w) PROVE Inv'
  BY <1>7, ClaimTasksInv, RestSteps, ClaimQualificationInv DEF ClaimStep
<1>8. ASSUME NEW w \in Workers, Crash(w) \/ Restart(w) PROVE Inv'
  BY <1>8, RestSteps
<1>9. CASE UNCHANGED vars
  BY <1>9, NothingInv DEF vars, opVars, workerVars
<1> QED
  BY <1>1, <1>2, <1>3, <1>4, <1>5, <1>6, <1>7, <1>8, <1>9 DEF Next

\* Claims stay fenced, builds complete before they qualify, and the comparison holds
\* until the switch.
THEOREM Invariance == Spec => []Inv
BY InitInv, NextInv, PTL DEF Spec

\* The fencing token of v10_claim_reindex_tasks: two workers never hold claims on the
\* same task that the database would both accept.
THEOREM OneEffectiveTaskClaimHolds == Spec => []OneEffectiveTaskClaim
<1>1. Inv => OneEffectiveTaskClaim
  BY DEF Inv, ClaimInv, Disjoint, OneEffectiveTaskClaim
<1> QED
  BY <1>1, Invariance, PTL

\* Only the switch makes an operation succeed.
LEMMA OnlyCutoverSucceeds ==
  ASSUME Inv, Next, NEW o \in Operations, op[o].state # "succeeded", op'[o].state = "succeeded"
  PROVE  \E w \in Workers : Cutover(w) /\ qual[w].op = o
<1>0. op \in [Operations -> OpRows]
  BY DEF Inv, Types, OpTypes
<1>1. ASSUME NEW c \in Chunks, Ingest(c) \/ Remove(c) PROVE FALSE
  BY <1>1 DEF Ingest, Remove, opVars
<1>2. ASSUME NEW p \in Operations, AdminStep(p) \/ ExpireQualification(p) PROVE FALSE
  <2>1. CASE Preview(p)
    BY <1>0, <2>1 DEF Preview, OpRows
  <2>2. CASE Start(p) \/ PauseApply(p) \/ Resume(p) \/ Cancel(p) \/ Retry(p)
    BY <1>0, <2>2 DEF Start, PauseApply, Resume, Cancel, Retry, OpRows
  <2>3. CASE PauseCheck(p)
    BY <2>3 DEF PauseCheck
  <2>4. CASE ExpireQualification(p)
    BY <1>0, <2>4 DEF ExpireQualification, OpRows
  <2> QED
    BY <1>2, <2>1, <2>2, <2>3, <2>4 DEF AdminStep
<1>3. ASSUME NEW e \in Generations, Rollback(e) \/ CleanupGeneration(e) PROVE FALSE
  BY <1>3 DEF Rollback, CleanupGeneration, opVars
<1>4. ASSUME NEW p \in Operations, NEW c \in Chunks, ExpireTask(p, c) PROVE FALSE
  BY <1>4 DEF ExpireTask
<1>5. ASSUME NEW w \in Workers, BatchStep(w) PROVE FALSE
  <2>1. CASE BatchError(w)
    BY <2>1 DEF BatchError, opVars
  <2>2. ASSUME NEW k \in left[w], CountTasks(w, k) \/ CommitStale(w, k) PROVE FALSE
    BY <2>2 DEF CountTasks, CommitStale, opVars
  <2>3. ASSUME NEW k \in left[w], CommitTask(w, k) PROVE FALSE
    <3>1. op' = op \/ op' = [op EXCEPT ![k.op].state = "qualifying"]
      BY <2>3 DEF CommitTask
    <3> QED
      BY <1>0, <3>1 DEF OpRows
  <2>4. ASSUME NEW k \in left[w], FailTask(w, k) PROVE FALSE
    <3>1. op' = op \/ op' = [op EXCEPT ![k.op].state = "failed"]
      BY <2>4 DEF FailTask
    <3> QED
      BY <1>0, <3>1 DEF OpRows
  <2> QED
    BY <1>5, <2>1, <2>2, <2>3, <2>4 DEF BatchStep
<1>6. ASSUME NEW w \in Workers, QualifyCheck(w) \/ QualifyStale(w) PROVE FALSE
  BY <1>6 DEF QualifyCheck, QualifyStale, opVars
<1>7. ASSUME NEW w \in Workers, QualifyFail(w) PROVE FALSE
  BY <1>0, <1>7 DEF QualifyFail, OpRows
<1>8. ASSUME NEW w \in Workers, Cutover(w) PROVE qual[w].op = o
  BY <1>0, <1>8 DEF Cutover, OpRows
<1>9. ASSUME NEW w \in Workers, ClaimStep(w) PROVE FALSE
  BY <1>0, <1>9 DEF ClaimStep, ClaimTasks, ClaimRaises, ClaimQualification, OpRows, opVars
<1>10. ASSUME NEW w \in Workers, Crash(w) \/ Restart(w) PROVE FALSE
  BY <1>10 DEF Crash, Restart, opVars
<1> QED
  BY <1>1, <1>2, <1>3, <1>4, <1>5, <1>6, <1>7, <1>8, <1>9, <1>10 DEF Next, QualifyStep

\* A rebuild that succeeds covers what its sources were compared with: what
\* v10_complete_reindex_qualification found embedded stays so until it switches.
THEOREM CutoverCoversHolds == Spec => CutoverCovers
<1> DEFINE Covers ==
      \A o \in Operations :
        op[o].state # "succeeded" /\ op'[o].state = "succeeded"
          => live' \ late \subseteq embedded'[o]
<1>1. Inv /\ [Next]_vars => [Covers]_vars
  <2> SUFFICES ASSUME Inv, Next, NEW o \in Operations, op[o].state # "succeeded",
                      op'[o].state = "succeeded"
               PROVE  live' \ late \subseteq embedded'[o]
    OBVIOUS
  <2>1. PICK w \in Workers : Cutover(w) /\ qual[w].op = o
    BY OnlyCutoverSucceeds
  <2>2. phase[w] = "cutover" /\ UNCHANGED <<live, embedded>>
    BY <2>1 DEF Cutover
  <2> QED
    BY <2>1, <2>2, CutoverStage DEF Inv
<1> QED
  BY <1>1, Invariance, PTL DEF Spec, CutoverCovers
=============================================================================
