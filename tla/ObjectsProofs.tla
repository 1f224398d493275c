--------------------------- MODULE ObjectsProofs ---------------------------
(***************************************************************************)
(* OneClaimant for every set of keys, uploads and workers: however uploads *)
(* of the same content, deletions and the orphan query interleave, and     *)
(* whatever happens to the leases of the deletion worker, a key is claimed *)
(* by a document, by an upload or by a deletion, never by two of them.     *)
(***************************************************************************)
EXTENDS Objects, TLAPS

\* The rows that the argument reads keep their domains.
Rows ==
  /\ docs \subseteq Keys
  /\ resv \in [Uploads -> Reservations]
  /\ deletion \in [Keys -> Deletions]
  /\ req \in [Uploads -> {"new", "reserved", "put", "verified", "done", "failed"}]
  /\ uses \in [Uploads -> Uploads \cup {None}]

\* A request under way was given a reservation of the content it sends.
Given ==
  \A u \in Uploads : req[u] \in {"reserved", "put", "verified"} =>
    uses[u] \in Uploads /\ KeyOf[uses[u]] = KeyOf[u]

Inv == Rows /\ Given /\ OneClaimant

\* No key has more open reservations, nor more active ones, than before.
NoNewReservation ==
  \A k \in Keys : OpenFor(k)' \subseteq OpenFor(k) /\ Active(k)' \subseteq Active(k)

-----------------------------------------------------------------------------
\* A row of the deletion queue is well formed when it is new, gone or claimed.
LEMMA DeletionRows ==
  /\ NoDeletion \in Deletions /\ NewDeletion \in Deletions
  /\ NoDeletion.status = "none" /\ NewDeletion.status # "none"
<1>1. 0 \in 0..MaxAttempts
  BY ObjectsAssumption
<1> QED
  BY <1>1 DEF NoDeletion, NewDeletion, Deletions

\* Closing open reservations (Closed) only takes them away from OpenFor.
LEMMA ClosedRows ==
  ASSUME Rows, NEW S
  PROVE  /\ Closed(S) \in [Uploads -> Reservations]
         /\ \A r \in Uploads : /\ Closed(S)[r].live = resv[r].live
                               /\ Closed(S)[r].outcome \in {"expired", resv[r].outcome}
                               /\ r \notin S => Closed(S)[r] = resv[r]
                               /\ r \in S => Closed(S)[r].outcome = "expired"
BY DEF Rows, Closed, Reservations

\* With the same documents, no new reservation and no new pending deletion,
\* OneClaimant stays.
LEMMA Fewer ==
  ASSUME OneClaimant, docs' = docs, NoNewReservation,
         \A k \in Keys : Pending(k)' => Pending(k)
  PROVE  OneClaimant'
BY DEF OneClaimant, NoNewReservation

\* Requests that move on, or end, keep Given.
LEMMA GivenStays ==
  ASSUME Rows, Given, UNCHANGED uses,
         \A u \in Uploads : req'[u] \in {"reserved", "put", "verified"} =>
                              req[u] \in {"reserved", "put", "verified"}
  PROVE  Given'
BY DEF Given

\* The initial database has no rows.
LEMMA InitInv == Init => Inv
<1> SUFFICES ASSUME Init PROVE Inv
  OBVIOUS
<1>1. NoReservation \in Reservations /\ NoReservation.outcome = "none"
  BY DEF NoReservation, Reservations
<1>2. Rows
  BY <1>1, DeletionRows DEF Init, Rows
<1>3. Given
  BY DEF Init, Given
<1>4. \A k \in Keys : OpenFor(k) = {}
  BY <1>1 DEF Init, OpenFor
<1>5. OneClaimant
  BY <1>4, DeletionRows DEF Init, OneClaimant, Active, Pending
<1> QED
  BY <1>2, <1>3, <1>5 DEF Inv

-----------------------------------------------------------------------------
\* The upload requests.
LEMMA UploadInv ==
  ASSUME Inv, NEW u \in Uploads, UploadStep(u)
  PROVE  Inv'
<1> USE DEF Inv
<1>k. KeyOf[u] \in Keys
  BY ObjectsAssumption
<1>1. CASE PreflightRefused(u) \/ Put(u) \/ Verify(u) \/ GiveUp(u)
  <2>1. UNCHANGED <<docs, resv, deletion, uses>>
    BY <1>1 DEF PreflightRefused, Put, Verify, GiveUp, storeVars
  <2>2. PICK p \in {"put", "verified", "failed"} :
          /\ req' = [req EXCEPT ![u] = p]
          /\ p # "failed" => req[u] \in {"reserved", "put"}
    BY <1>1 DEF PreflightRefused, Put, Verify, GiveUp, Move
  <2>3. Rows'
    BY <2>1, <2>2 DEF Rows
  <2>4. Given'
    BY <2>1, <2>2, GivenStays DEF Rows
  <2>5. OneClaimant'
    BY <2>1 DEF OneClaimant, OpenFor, Active, Pending
  <2> QED
    BY <2>3, <2>4, <2>5
<1>2. CASE PreflightDuplicate(u)
  <2> DEFINE S == OpenFor(KeyOf[u]) \ Active(KeyOf[u])
  <2>1. resv' = Closed(S) /\ req' = [req EXCEPT ![u] = "done"]
        /\ UNCHANGED <<docs, deletion, uses>>
    BY <1>2 DEF PreflightDuplicate, Move, storeVars
  <2> HIDE DEF S
  <2>2. Rows'
    BY <2>1, ClosedRows DEF Rows
  <2>3. Given'
    BY <2>1, GivenStays DEF Rows
  <2>4. NoNewReservation
    BY <2>1, ClosedRows DEF NoNewReservation, OpenFor, Active
  <2>5. OneClaimant'
    BY <2>1, <2>4, Fewer DEF Pending
  <2> QED
    BY <2>2, <2>3, <2>5
<1>3. CASE PreflightReserves(u)
  <2> DEFINE k == KeyOf[u]
             S == OpenFor(k) \ Active(k)
             old == Closed(S)
  <2>1. /\ ~Pending(k) /\ k \notin docs
        /\ req' = [req EXCEPT ![u] = "reserved"]
        /\ UNCHANGED <<docs, deletion>>
        /\ \/ /\ Active(k) = {}
              /\ resv' = [old EXCEPT ![u] = NewReservation]
              /\ uses' = [uses EXCEPT ![u] = u]
           \/ \E r \in Active(k) : resv' = old /\ uses' = [uses EXCEPT ![u] = r]
    BY <1>3 DEF PreflightReserves, MayReserve, Move, storeVars
  <2>2. /\ NewReservation \in Reservations
        /\ NewReservation.outcome = "open"
    BY DEF NewReservation, Reservations
  <2>3. /\ old \in [Uploads -> Reservations]
        /\ \A r \in Uploads : /\ old[r].live = resv[r].live
                              /\ old[r].outcome \in {"expired", resv[r].outcome}
                              /\ r \in S => old[r].outcome = "expired"
    BY ClosedRows
  <2> HIDE DEF old
  <2>4. CASE Active(k) = {} /\ resv' = [old EXCEPT ![u] = NewReservation]
             /\ uses' = [uses EXCEPT ![u] = u]
    <3>1. Rows'
      BY <2>1, <2>2, <2>3, <2>4 DEF Rows
    <3>2. Given'
      BY <2>1, <2>4 DEF Given, Rows
    <3>3. OpenFor(k)' \subseteq {u}
      BY <2>2, <2>3, <2>4 DEF OpenFor
    <3>4. \A j \in Keys \ {k} : OpenFor(j)' \subseteq OpenFor(j)
                                /\ Active(j)' \subseteq Active(j)
      BY <2>2, <2>3, <2>4 DEF OpenFor, Active
    <3>5. Active(k)' \subseteq OpenFor(k)'
      BY DEF Active
    <3>6. \A j \in Keys : Pending(j)' <=> Pending(j)
      BY <2>1 DEF Pending
    <3>7. OneClaimant'
      <4> SUFFICES ASSUME NEW j \in Keys
                   PROVE  /\ ~(j \in docs' /\ Active(j)' # {})
                          /\ Pending(j)' => j \notin docs' /\ Active(j)' = {}
                          /\ \A r, s \in OpenFor(j)' : r = s
        BY DEF OneClaimant
      <4>1. CASE j = k
        BY <4>1, <2>1, <3>3, <3>6
      <4>2. CASE j # k
        BY <4>2, <2>1, <3>4, <3>6 DEF OneClaimant
      <4> QED
        BY <4>1, <4>2
    <3> QED
      BY <3>1, <3>2, <3>7
  <2>5. ASSUME NEW r \in Active(k), resv' = old, uses' = [uses EXCEPT ![u] = r]
        PROVE  Inv'
    <3>1. r \in Uploads /\ KeyOf[r] = k
      BY <2>5 DEF Active, OpenFor
    <3>2. Rows'
      BY <2>1, <2>3, <2>5, <3>1 DEF Rows
    <3>3. Given'
      BY <2>1, <2>5, <3>1 DEF Given, Rows
    <3>4. NoNewReservation
      BY <2>3, <2>5 DEF NoNewReservation, OpenFor, Active
    <3>5. OneClaimant'
      BY <2>1, <3>4, Fewer DEF Pending
    <3> QED
      BY <3>2, <3>3, <3>5
  <2> QED
    BY <2>1, <2>4, <2>5
<1>4. CASE Commit(u)
  <2> DEFINE r == uses[u]
             k == KeyOf[u]
  <2>1. r \in Uploads /\ KeyOf[r] = k
    BY <1>4 DEF Commit, Given
  <2>2. PICK o \in {"duplicate", "created"} :
          resv' = [resv EXCEPT ![r] = [resv[r] EXCEPT !.outcome = o]]
    BY <1>4 DEF Commit
  <2>3. /\ r \in OpenFor(k) /\ r \in Active(k)
        /\ ~Pending(k)
        /\ docs' = docs \cup {k}
        /\ req' = [req EXCEPT ![u] = "done"]
        /\ UNCHANGED <<deletion, uses>>
    BY <1>4, <2>1 DEF Commit, CommitAllowed, OpenFor, Active, Move
  <2>4. resv'[r].outcome = o /\ \A s \in Uploads \ {r} : resv'[s] = resv[s]
    BY <2>1, <2>2 DEF Rows, Reservations
  <2>5. Rows'
    BY <1>k, <2>1, <2>2, <2>3 DEF Rows, Reservations
  <2>6. Given'
    BY <2>3, GivenStays DEF Rows
  <2>7. NoNewReservation
    BY <2>1, <2>4 DEF NoNewReservation, OpenFor, Active
  <2>8. OpenFor(k)' = {}
    <3>1. OpenFor(k)' \subseteq OpenFor(k)
      BY <1>k, <2>7 DEF NoNewReservation
    <3>2. \A s \in OpenFor(k) : s = r
      BY <1>k, <2>3 DEF OneClaimant
    <3>3. r \notin OpenFor(k)'
      BY <2>4 DEF OpenFor
    <3> QED
      BY <3>1, <3>2, <3>3
  <2>9. Active(k)' = {}
    BY <2>8 DEF Active
  <2>10. \A j \in Keys : Pending(j)' <=> Pending(j)
    BY <2>3 DEF Pending
  <2>11. OneClaimant'
    BY <2>3, <2>7, <2>9, <2>10 DEF OneClaimant, NoNewReservation
  <2> QED
    BY <2>5, <2>6, <2>11
<1> QED
  BY <1>1, <1>2, <1>3, <1>4 DEF UploadStep

-----------------------------------------------------------------------------
\* A step of the worker or of a clock that changes at most the deletions of keys
\* whose deletion is pending, or closes reservations, keeps everything.
LEMMA WorkerKeeps ==
  ASSUME Inv, UNCHANGED <<docs, req, uses>>,
         resv' \in [Uploads -> Reservations], NoNewReservation,
         deletion' \in [Keys -> Deletions],
         \A k \in Keys : Pending(k)' => Pending(k)
  PROVE  Inv'
<1>1. Rows'
  BY DEF Inv, Rows
<1>2. Given'
  BY DEF Inv, Given
<1>3. OneClaimant'
  BY Fewer DEF Inv
<1> QED
  BY <1>1, <1>2, <1>3 DEF Inv

\* The same, for a step that changes one row of the queue, or none.
LEMMA RowKeeps ==
  ASSUME Inv, UNCHANGED <<docs, resv, req, uses>>, NEW k \in Keys, NEW d \in Deletions,
         d.status # "none" => Pending(k),
         deletion' = [deletion EXCEPT ![k] = d] \/ deletion' = deletion
  PROVE  Inv'
<1>1. resv' \in [Uploads -> Reservations] /\ deletion' \in [Keys -> Deletions]
  BY DEF Inv, Rows
<1>2. NoNewReservation
  BY DEF NoNewReservation, OpenFor, Active
<1>3. \A j \in Keys : Pending(j)' => Pending(j)
  BY DEF Inv, Rows, Pending
<1> QED
  BY <1>1, <1>2, <1>3, WorkerKeeps

\* Nothing that the invariant reads changes.
LEMMA NothingRead ==
  ASSUME Inv, UNCHANGED <<docs, resv, deletion, req, uses>>
  PROVE  Inv'
BY DEF Inv, Rows, Given, OneClaimant, OpenFor, Active, Pending

\* What becomes of a row when its attempt fails, its lease ends or it is due.
LEMMA RowUpdates ==
  ASSUME NEW d \in Deletions
  PROVE  /\ FailedDeletion(d) \in Deletions
         /\ [d EXCEPT !.due = TRUE] \in Deletions
         /\ [d EXCEPT !.due = TRUE].status = d.status
         /\ [d EXCEPT !.leased = FALSE] \in Deletions
         /\ [d EXCEPT !.leased = FALSE].status = d.status
BY DEF FailedDeletion, Deletions

\* An administrator deletes a document.
LEMMA DeleteDocumentInv ==
  ASSUME Inv, NEW k \in Keys, DeleteDocument(k)
  PROVE  Inv'
<1>1. /\ k \in docs
      /\ deletion' = [deletion EXCEPT ![k] = NewDeletion]
      /\ docs' = docs \ {k}
      /\ UNCHANGED <<resv, req, uses>>
  BY DEF DeleteDocument, reqVars
<1>2. Rows'
  BY <1>1, DeletionRows DEF Inv, Rows
<1>3. Given'
  BY <1>1 DEF Inv, Given
<1>4. \A j \in Keys : OpenFor(j)' = OpenFor(j) /\ Active(j)' = Active(j)
  BY <1>1 DEF OpenFor, Active
<1>5. \A j \in Keys : Pending(j)' => Pending(j) \/ j = k
  BY <1>1 DEF Inv, Rows, Pending
<1>6. Active(k) = {}
  BY <1>1 DEF Inv, OneClaimant
<1>7. OneClaimant'
  BY <1>1, <1>4, <1>5, <1>6 DEF Inv, OneClaimant
<1> QED
  BY <1>2, <1>3, <1>7 DEF Inv

\* The head of a pass closes the reservations that have expired.
LEMMA OrphansClosed ==
  ASSUME Inv, NEW w \in Workers, QueueOrphans(w)
  PROVE  /\ resv' \in [Uploads -> Reservations]
         /\ NoNewReservation
         /\ \A u \in Uploads : resv[u].outcome = "none" => resv'[u].outcome = "none"
<1> DEFINE S == {r \in Uploads : resv[r].outcome = "open" /\ ~resv[r].live}
<1>1. resv' = Closed(S) /\ \A r \in S : resv[r].outcome = "open"
  BY DEF QueueOrphans
<1> HIDE DEF S
<1>2. NoNewReservation
  BY <1>1, ClosedRows DEF Inv, NoNewReservation, OpenFor, Active
<1> QED
  BY <1>1, <1>2, ClosedRows DEF Inv

\* It queues only keys that have no document and no active reservation.
LEMMA QueueOrphansInv ==
  ASSUME Inv, NEW w \in Workers, QueueOrphans(w)
  PROVE  Inv'
<1>1. /\ deletion' = [k \in Keys |-> IF Orphaned(k) /\ ~Pending(k) THEN NewDeletion
                                                                   ELSE deletion[k]]
      /\ UNCHANGED <<docs, req, uses>>
  BY DEF QueueOrphans, storeVars, reqVars
<1>2. Rows'
  BY <1>1, OrphansClosed, DeletionRows DEF Inv, Rows
<1>3. Given'
  BY <1>1 DEF Inv, Given
<1>4. \A k \in Keys : Pending(k)' => Pending(k) \/ Orphaned(k)
  BY <1>1 DEF Pending
<1>5. \A k \in Keys : Orphaned(k) => k \notin docs /\ Active(k) = {}
  BY DEF Orphaned
<1>6. OneClaimant'
  BY <1>1, <1>4, <1>5, OrphansClosed DEF Inv, OneClaimant, NoNewReservation
<1> QED
  BY <1>2, <1>3, <1>6 DEF Inv

\* The rest of a pass, the process' own life, and calls to the store.
LEMMA WorkerInv ==
  ASSUME Inv, NEW w \in Workers,
         \/ StartProcess(w) \/ PassStep(w) \/ StoreStep(w)
         \/ LoseOwnership(w) \/ Crash(w)
  PROVE  Inv'
<1>1. CASE \/ StartProcess(w) \/ Abandon(w) \/ StoreStep(w)
           \/ LoseOwnership(w) \/ Crash(w)
  <2>1. UNCHANGED <<docs, resv, deletion, req, uses>>
    BY <1>1 DEF StartProcess, Abandon, StoreStep, DeleteObject, DeleteFails,
                LoseOwnership, Crash, storeVars, reqVars
  <2> QED
    BY <2>1, NothingRead
<1>2. CASE QueueOrphans(w)
  BY <1>2, QueueOrphansInv
<1>3. CASE Claim(w)
  <2>0. UNCHANGED <<docs, resv, req, uses>>
    BY <1>3 DEF Claim, storeVars, reqVars
  <2>1. CASE UNCHANGED deletion
    BY <2>0, <2>1, NothingRead
  <2>2. ASSUME NEW k \in Keys, Claimable(k),
               deletion' = [deletion EXCEPT ![k] =
                 [status |-> "leased", due |-> TRUE, leased |-> TRUE,
                  attempt |-> Attempted(deletion[k].attempt), holder |-> w]]
        PROVE  Inv'
    <3> DEFINE d == [status |-> "leased", due |-> TRUE, leased |-> TRUE,
                     attempt |-> Attempted(deletion[k].attempt), holder |-> w]
    <3>1. deletion[k].attempt \in 0..MaxAttempts
      BY DEF Inv, Rows, Deletions
    <3>2. Attempted(deletion[k].attempt) \in 0..MaxAttempts
      BY <3>1, ObjectsAssumption DEF Attempted
    <3>3. d \in Deletions
      BY <3>2 DEF Deletions
    <3>4. Pending(k)
      BY <2>2 DEF Claimable, Pending
    <3>5. deletion' = [deletion EXCEPT ![k] = d]
      BY <2>2
    <3> QED
      BY <2>0, <3>3, <3>4, <3>5, RowKeeps
  <2> QED
    BY <1>3, <2>1, <2>2 DEF Claim, ClaimedRow
<1>4. CASE Complete(w) \/ Retry(w)
  <2>0. UNCHANGED <<docs, resv, req, uses>>
    BY <1>4 DEF Complete, Retry, storeVars, reqVars
  <2>1. CASE UNCHANGED deletion
    BY <2>0, <2>1, NothingRead
  <2>2. CASE target[w] \in Keys
    <3> DEFINE k == target[w]
    <3>1. deletion[k] \in Deletions
      BY <2>2 DEF Inv, Rows
    <3>2. CASE deletion' = [deletion EXCEPT ![k] = NoDeletion]
      BY <2>0, <2>2, <3>2, DeletionRows, RowKeeps
    <3>3. CASE deletion' = [deletion EXCEPT ![k] = FailedDeletion(deletion[k])] /\ Holds(w)
      <4>1. Pending(k)
        BY <3>3 DEF Holds, Pending
      <4>2. FailedDeletion(deletion[k]) \in Deletions
        BY <3>1, RowUpdates
      <4> QED
        BY <2>0, <2>2, <3>3, <4>1, <4>2, RowKeeps
    <3> QED
      BY <1>4, <2>1, <3>2, <3>3 DEF Complete, Retry
  <2>3. CASE target[w] \notin Keys
    <3>1. deletion' = deletion
      BY <1>4, <2>3 DEF Complete, Retry, Inv, Rows
    <3> QED
      BY <2>1, <3>1
  <2> QED
    BY <2>2, <2>3
<1> QED
  BY <1>1, <1>2, <1>3, <1>4 DEF PassStep

\* The clocks let reservations age, and change nothing else.
LEMMA Aging ==
  ASSUME Inv, NEW r \in Uploads, ReservationExpires(r) \/ GracePasses(r)
  PROVE  /\ resv' \in [Uploads -> Reservations]
         /\ NoNewReservation
         /\ \A u \in Uploads : resv'[u].outcome = resv[u].outcome
         /\ UNCHANGED <<storeVars, deletion, reqVars, workerVars>>
<1>1. PICK v \in Reservations :
        /\ resv' = [resv EXCEPT ![r] = v]
        /\ v.outcome = resv[r].outcome
        /\ v.live => resv[r].live
  <2>1. resv[r] \in Reservations
    BY DEF Inv, Rows
  <2>2. CASE ReservationExpires(r)
    <3> DEFINE v == [resv[r] EXCEPT !.live = FALSE]
    <3>1. v \in Reservations /\ v.outcome = resv[r].outcome /\ ~v.live
      BY <2>1 DEF Reservations
    <3>2. resv' = [resv EXCEPT ![r] = v]
      BY <2>2 DEF ReservationExpires
    <3> HIDE DEF v
    <3> QED
      BY <3>1, <3>2
  <2>3. CASE GracePasses(r)
    <3> DEFINE v == [resv[r] EXCEPT !.stale = TRUE]
    <3>1. v \in Reservations /\ v.outcome = resv[r].outcome /\ v.live = resv[r].live
      BY <2>1 DEF Reservations
    <3>2. resv' = [resv EXCEPT ![r] = v]
      BY <2>3 DEF GracePasses
    <3> HIDE DEF v
    <3> QED
      BY <3>1, <3>2
  <2> QED
    BY <2>2, <2>3
<1>2. resv' \in [Uploads -> Reservations]
  BY <1>1 DEF Inv, Rows
<1>3. \A s \in Uploads : resv'[s].outcome = resv[s].outcome
                         /\ (resv'[s].live => resv[s].live)
  BY <1>1 DEF Inv, Rows
<1>4. NoNewReservation
  BY <1>3 DEF NoNewReservation, OpenFor, Active
<1> QED
  BY <1>2, <1>3, <1>4 DEF ReservationExpires, GracePasses

LEMMA ReservationClocksInv ==
  ASSUME Inv, NEW r \in Uploads, ReservationExpires(r) \/ GracePasses(r)
  PROVE  Inv'
<1>1. UNCHANGED <<docs, deletion, req, uses>>
  BY Aging DEF storeVars, reqVars
<1>2. deletion' \in [Keys -> Deletions] /\ \A k \in Keys : Pending(k)' => Pending(k)
  BY <1>1 DEF Inv, Rows, Pending
<1> QED
  BY <1>1, <1>2, Aging, WorkerKeeps

LEMMA DeletionClocksInv ==
  ASSUME Inv, NEW k \in Keys, BecomesDue(k) \/ LeaseExpires(k)
  PROVE  Inv'
<1>1. UNCHANGED <<docs, resv, req, uses>>
  BY DEF BecomesDue, LeaseExpires, storeVars, reqVars
<1>2. deletion[k] \in Deletions
  BY DEF Inv, Rows
<1>3. CASE BecomesDue(k)
  <2> DEFINE d == [deletion[k] EXCEPT !.due = TRUE]
  <2>1. d \in Deletions /\ d.status = deletion[k].status
    BY <1>2, RowUpdates
  <2>2. deletion' = [deletion EXCEPT ![k] = d]
    BY <1>3 DEF BecomesDue
  <2> HIDE DEF d
  <2> QED
    BY <1>1, <2>1, <2>2, RowKeeps DEF Pending
<1>4. CASE LeaseExpires(k)
  <2> DEFINE d == [deletion[k] EXCEPT !.leased = FALSE]
  <2>1. d \in Deletions /\ d.status = deletion[k].status
    BY <1>2, RowUpdates
  <2>2. deletion' = [deletion EXCEPT ![k] = d]
    BY <1>4 DEF LeaseExpires
  <2> HIDE DEF d
  <2> QED
    BY <1>1, <2>1, <2>2, RowKeeps DEF Pending
<1> QED
  BY <1>3, <1>4

-----------------------------------------------------------------------------
\* Every reachable state satisfies the inductive invariant.
THEOREM Invariance == Spec => []Inv
<1>1. Init => Inv
  BY InitInv
<1>2. Inv /\ [Next]_vars => Inv'
  <2> SUFFICES ASSUME Inv, [Next]_vars PROVE Inv'
    OBVIOUS
  <2>1. ASSUME NEW u \in Uploads, UploadStep(u) PROVE Inv'
    BY <2>1, UploadInv
  <2>2. ASSUME NEW u \in Uploads, ReservationExpires(u) \/ GracePasses(u) PROVE Inv'
    BY <2>2, ReservationClocksInv
  <2>3. ASSUME NEW k \in Keys, DeleteDocument(k) PROVE Inv'
    BY <2>3, DeleteDocumentInv
  <2>4. ASSUME NEW k \in Keys, BecomesDue(k) \/ LeaseExpires(k) PROVE Inv'
    BY <2>4, DeletionClocksInv
  <2>5. ASSUME NEW w \in Workers,
               \/ StartProcess(w) \/ PassStep(w) \/ StoreStep(w)
               \/ LoseOwnership(w) \/ Crash(w)
        PROVE Inv'
    BY <2>5, WorkerInv
  <2>6. CASE ServiceExpires
    BY <2>6, NothingRead DEF ServiceExpires, storeVars, reqVars
  <2>7. CASE UNCHANGED vars
    BY <2>7, NothingRead DEF vars, storeVars, reqVars
  <2> QED
    BY <2>1, <2>2, <2>3, <2>4, <2>5, <2>6, <2>7 DEF Next
<1> QED
  BY <1>1, <1>2, PTL DEF Spec

\* A key never has two claimants among its document, an upload that may still
\* commit and a pending deletion: v4_admin_commit_upload cannot create a document
\* whose original is queued for deletion, nor can the orphan query queue the key of
\* an upload under way.  Neither the leases of the worker nor the store matter.
THEOREM OneClaimantSafe == Spec => []OneClaimant
<1>1. Inv => OneClaimant
  BY DEF Inv
<1> QED
  BY <1>1, Invariance, PTL

-----------------------------------------------------------------------------
(* The originals.  While leases are renewed in time, the object that a      *)
(* worker is about to delete is pending, and so, by OneClaimant, neither a  *)
(* document's nor that of an upload that may still commit.                  *)

\* A worker has a target exactly while it deletes.
Targets ==
  /\ phase \in [Workers -> {"down", "polling", "claiming", "deleting", "deleted", "erred"}]
  /\ target \in [Workers -> Keys \cup {None}]
  /\ \A w \in Workers :
       target[w] \in Keys <=> phase[w] \in {"deleting", "deleted", "erred"}

\* A request that has not begun has no reservation, and nobody shares one of its.
Fresh ==
  \A u \in Uploads :
    /\ req[u] = "new" => resv[u].outcome = "none"
    /\ req[u] \in {"reserved", "put", "verified"} => req[uses[u]] # "new"

\* A target is held by its worker as long as leases are renewed.
Held == Prompt => \A w \in Workers : target[w] \in Keys => Holds(w)

\* The owner of the service is the process that runs.
Owned ==
  Prompt => \A w \in Workers : phase[w] # "down" => service.owner = w /\ service.live

\* An upload that verified its object and may still commit it has it.
Backed ==
  Prompt => \A u \in Uploads :
    req[u] = "verified" /\ uses[u] \in Active(KeyOf[u]) => KeyOf[u] \in stored

WorkInv == Targets /\ Fresh /\ Held /\ Owned

\* No step but those of uploads begins requests, or changes their reservations
\* except to close them or let them age.
LEMMA FreshStays ==
  ASSUME Inv, Fresh, UNCHANGED <<req, uses>>,
         \A u \in Uploads : resv[u].outcome = "none" => resv'[u].outcome = "none"
  PROVE  Fresh'
BY DEF Fresh

\* The upload requests keep the facts about workers; and Fresh, since only a
\* reservation that is active is shared.
LEMMA UploadWork ==
  ASSUME Inv, WorkInv, NEW u \in Uploads, UploadStep(u)
  PROVE  WorkInv'
<1>1. UNCHANGED <<deletion, phase, target, service, missed>>
  BY DEF UploadStep, PreflightRefused, PreflightDuplicate, PreflightReserves, Put, Verify,
         Commit, GiveUp, workerVars
<1>2. Targets' /\ Held' /\ Owned'
  BY <1>1 DEF WorkInv, Targets, Held, Owned, Holds, Prompt
<1>3. Fresh'
  <2> USE DEF Inv, WorkInv
  <2>1. CASE PreflightRefused(u) \/ Put(u) \/ Verify(u) \/ GiveUp(u)
    BY <2>1 DEF PreflightRefused, Put, Verify, GiveUp, Move, Fresh, Rows, Given
  <2>2. CASE PreflightDuplicate(u)
    <3> DEFINE S == OpenFor(KeyOf[u]) \ Active(KeyOf[u])
    <3>1. resv' = Closed(S) /\ req' = [req EXCEPT ![u] = "done"] /\ uses' = uses
      BY <2>2 DEF PreflightDuplicate, Move
    <3>2. \A r \in S : resv[r].outcome = "open"
      BY DEF OpenFor
    <3> HIDE DEF S
    <3>3. \A r \in Uploads : resv[r].outcome = "none" => resv'[r].outcome = "none"
      BY <3>1, <3>2, ClosedRows
    <3> QED
      BY <3>1, <3>3 DEF Fresh, Rows, Given
  <2>3. CASE PreflightReserves(u)
    <3> DEFINE k == KeyOf[u]
               S == OpenFor(k) \ Active(k)
               old == Closed(S)
    <3>1. /\ req' = [req EXCEPT ![u] = "reserved"]
          /\ \/ /\ resv' = [old EXCEPT ![u] = NewReservation]
                /\ uses' = [uses EXCEPT ![u] = u]
             \/ \E r \in Active(k) : resv' = old /\ uses' = [uses EXCEPT ![u] = r]
      BY <2>3 DEF PreflightReserves, Move
    <3>2. \A r \in S : resv[r].outcome = "open"
      BY DEF OpenFor
    <3> HIDE DEF S
    <3>3. /\ old \in [Uploads -> Reservations]
          /\ \A r \in Uploads : resv[r].outcome = "none" => old[r].outcome = "none"
      BY <3>2, ClosedRows
    <3> HIDE DEF old
    <3>4. CASE resv' = [old EXCEPT ![u] = NewReservation] /\ uses' = [uses EXCEPT ![u] = u]
      BY <3>1, <3>3, <3>4 DEF Fresh, Rows, Given
    <3>5. ASSUME NEW r \in Active(k), resv' = old, uses' = [uses EXCEPT ![u] = r]
          PROVE  Fresh'
      <4>1. r \in Uploads /\ req[r] # "new"
        BY DEF Active, OpenFor, Fresh
      <4> QED
        BY <3>1, <3>3, <3>5, <4>1 DEF Fresh, Rows, Given
    <3> QED
      BY <3>1, <3>4, <3>5
  <2>4. CASE Commit(u)
    <3>1. uses[u] \in Uploads /\ resv[uses[u]].outcome = "open"
          /\ req' = [req EXCEPT ![u] = "done"] /\ uses' = uses
      BY <2>4 DEF Commit, CommitAllowed, Given, Move
    <3>2. \A r \in Uploads \ {uses[u]} : resv'[r] = resv[r]
      BY <2>4 DEF Commit, Rows
    <3> QED
      BY <3>1, <3>2 DEF Fresh, Rows, Given
  <2> QED
    BY <2>1, <2>2, <2>3, <2>4 DEF UploadStep
<1> QED
  BY <1>2, <1>3 DEF WorkInv

\* Steps that change only rows of the queue that nobody deletes.
LEMMA OtherRows ==
  ASSUME Inv, WorkInv, UNCHANGED <<phase, target, service, req, uses>>, Prompt' => Prompt,
         \A u \in Uploads : resv[u].outcome = "none" => resv'[u].outcome = "none",
         \A w \in Workers :
           target[w] \in Keys /\ Holds(w) /\ Prompt' =>
             /\ deletion'[target[w]].status = deletion[target[w]].status
             /\ deletion'[target[w]].holder = deletion[target[w]].holder
             /\ deletion'[target[w]].leased = deletion[target[w]].leased
  PROVE  WorkInv'
<1>1. Fresh'
  BY FreshStays DEF WorkInv
<1>2. Targets' /\ Owned'
  BY DEF WorkInv, Targets, Owned
<1>3. Held'
  BY DEF WorkInv, Held, Holds
<1> QED
  BY <1>1, <1>2, <1>3 DEF WorkInv

\* A worker moves between phases in which it has the same target, or none.
LEMMA PhaseSteps ==
  ASSUME Inv, WorkInv, NEW w \in Workers,
         \/ StartProcess(w) \/ DeleteObject(w) \/ DeleteFails(w) \/ Abandon(w)
         \/ LoseOwnership(w) \/ Crash(w)
  PROVE  WorkInv'
<1>1. UNCHANGED <<resv, deletion, req, uses>> /\ Prompt' = Prompt
  BY DEF StartProcess, DeleteObject, DeleteFails, Abandon, Back, LoseOwnership, Crash,
         storeVars, reqVars, Prompt
<1>2. Fresh'
  BY <1>1, FreshStays DEF WorkInv
<1>3. None \notin Keys
  BY ObjectsAssumption
<1>4. Targets'
  BY <1>3 DEF WorkInv, Targets, StartProcess, DeleteObject, DeleteFails, Abandon, Back,
              LoseOwnership, Crash, Stop
<1>5. \A v \in Workers : target'[v] \in Keys => target'[v] = target[v]
  BY <1>3 DEF WorkInv, Targets, StartProcess, DeleteObject, DeleteFails, Abandon, Back,
              LoseOwnership, Crash, Stop
<1>6. Held'
  BY <1>1, <1>5 DEF WorkInv, Held, Holds
<1>7. Owned'
  <2>1. CASE StartProcess(w)
    BY <1>1, <2>1 DEF StartProcess, ServiceFree, WorkInv, Targets, Owned
  <2>2. CASE DeleteObject(w) \/ DeleteFails(w) \/ Abandon(w)
    BY <1>1, <2>2 DEF DeleteObject, DeleteFails, Abandon, Back, WorkInv, Targets, Owned
  <2>3. CASE LoseOwnership(w) \/ Crash(w)
    BY <1>1, <2>3 DEF LoseOwnership, Crash, Stop, WorkInv, Targets, Owned
  <2> QED
    BY <2>1, <2>2, <2>3
<1> QED
  BY <1>2, <1>4, <1>6, <1>7 DEF WorkInv

\* The pass: a claim takes only rows whose lease nobody holds, and the end of a
\* deletion changes only the row that its own worker holds.
LEMMA PassWork ==
  ASSUME Inv, WorkInv, NEW w \in Workers,
         QueueOrphans(w) \/ Claim(w) \/ Complete(w) \/ Retry(w)
  PROVE  WorkInv'
<1> USE DEF WorkInv
<1>k. None \notin Keys
  BY ObjectsAssumption
<1>p. Prompt' = Prompt
  BY DEF QueueOrphans, Claim, Complete, Retry, Back, Prompt
<1>1. CASE QueueOrphans(w)
  <2>1. /\ deletion' = [k \in Keys |-> IF Orphaned(k) /\ ~Pending(k) THEN NewDeletion
                                                                     ELSE deletion[k]]
        /\ phase[w] = "polling" /\ phase' = [phase EXCEPT ![w] = "claiming"]
        /\ UNCHANGED <<req, uses, target, service>>
    BY <1>1 DEF QueueOrphans, reqVars
  <2>2. Fresh'
    BY <1>1, <2>1, OrphansClosed, FreshStays
  <2>3. Targets' /\ Owned'
    BY <1>p, <2>1 DEF Targets, Owned
  <2>4. Held'
    BY <1>p, <2>1 DEF Held, Holds, Pending, Targets
  <2> QED
    BY <2>2, <2>3, <2>4
<1>2. CASE Claim(w)
  <2>1. phase[w] = "claiming" /\ UNCHANGED <<resv, req, uses, service>>
    BY <1>2 DEF Claim, reqVars
  <2>2. Fresh'
    BY <2>1, FreshStays
  <2>3. Targets' /\ Owned'
    BY <1>2, <2>1, <1>k, <1>p DEF Claim, Targets, Owned
  <2>4. Held'
    <3>1. CASE UNCHANGED <<deletion, target>>
      BY <1>p, <3>1 DEF Held, Holds
    <3>2. ASSUME NEW k \in Keys, Claimable(k),
                 deletion' = [deletion EXCEPT ![k] =
                   [status |-> "leased", due |-> TRUE, leased |-> TRUE,
                    attempt |-> Attempted(deletion[k].attempt), holder |-> w]],
                 target' = [target EXCEPT ![w] = k]
          PROVE  Held'
      <4> SUFFICES ASSUME Prompt, NEW v \in Workers, target'[v] \in Keys
                   PROVE  Holds(v)'
        BY <1>p DEF Held
      <4>1. /\ deletion'[k].status = "leased" /\ deletion'[k].holder = w
            /\ deletion'[k].leased
            /\ \A j \in Keys \ {k} : deletion'[j] = deletion[j]
        BY <3>2 DEF Inv, Rows
      <4>2. CASE v = w
        BY <4>1, <4>2, <3>2 DEF Holds, Targets
      <4>3. CASE v # w
        <5>1. target'[v] = target[v] /\ target[v] \in Keys
          BY <4>3, <3>2 DEF Targets
        <5>2. Holds(v)
          BY <5>1 DEF Held
        <5>3. target[v] # k
          BY <5>2, <3>2 DEF Holds, Claimable
        <5> QED
          BY <4>1, <5>1, <5>2, <5>3 DEF Holds
      <4> QED
        BY <4>2, <4>3
    <3> QED
      BY <1>2, <3>1, <3>2 DEF Claim, ClaimedRow
  <2> QED
    BY <2>2, <2>3, <2>4
<1>3. CASE Complete(w) \/ Retry(w)
  <2>1. /\ target[w] \in Keys
        /\ target' = [target EXCEPT ![w] = None]
        /\ phase' = [phase EXCEPT ![w] = "polling"]
        /\ phase[w] # "down"
        /\ UNCHANGED <<resv, req, uses, service>>
    BY <1>3 DEF Complete, Retry, Back, Targets, reqVars
  <2>2. Fresh'
    BY <2>1, FreshStays
  <2>3. Targets' /\ Owned'
    BY <2>1, <1>k, <1>p DEF Targets, Owned
  <2>4. \A j \in Keys : j # target[w] => deletion'[j] = deletion[j]
    BY <1>3, <2>1 DEF Complete, Retry, Inv, Rows
  <2>5. Held'
    <3> SUFFICES ASSUME Prompt, NEW v \in Workers, target'[v] \in Keys
                 PROVE  Holds(v)'
      BY <1>p DEF Held
    <3>1. v # w /\ target'[v] = target[v] /\ target[v] \in Keys
      BY <2>1, <1>k DEF Targets
    <3>2. Holds(v) /\ Holds(w)
      BY <2>1, <3>1 DEF Held
    <3>3. target[v] # target[w]
      BY <3>1, <3>2 DEF Holds
    <3> QED
      BY <2>4, <3>1, <3>2, <3>3 DEF Holds
  <2> QED
    BY <2>2, <2>3, <2>5
<1> QED
  BY <1>1, <1>2, <1>3

\* Deletions of documents and the clocks.
LEMMA OtherWork ==
  ASSUME Inv, WorkInv,
         \/ \E k \in Keys : DeleteDocument(k) \/ BecomesDue(k) \/ LeaseExpires(k)
         \/ \E r \in Uploads : ReservationExpires(r) \/ GracePasses(r)
         \/ ServiceExpires
  PROVE  WorkInv'
<1>1. ASSUME NEW k \in Keys, DeleteDocument(k) PROVE WorkInv'
  <2>1. /\ UNCHANGED <<phase, target, service, req, uses, resv>> /\ Prompt' = Prompt
        /\ deletion' = [deletion EXCEPT ![k] = NewDeletion]
        /\ ~Pending(k)
    BY <1>1 DEF DeleteDocument, reqVars, workerVars, Prompt
  <2>2. \A w \in Workers : target[w] \in Keys /\ Holds(w) =>
          deletion'[target[w]] = deletion[target[w]]
    BY <2>1 DEF Holds, Pending, Inv, Rows
  <2> QED
    BY <2>1, <2>2, OtherRows
<1>2. ASSUME NEW k \in Keys, BecomesDue(k) PROVE WorkInv'
  <2>1. /\ UNCHANGED <<phase, target, service, req, uses, resv>> /\ Prompt' = Prompt
        /\ deletion[k].status = "queued"
        /\ \A j \in Keys : j # k => deletion'[j] = deletion[j]
    BY <1>2 DEF BecomesDue, reqVars, workerVars, Inv, Rows, Prompt
  <2>2. \A w \in Workers : target[w] \in Keys /\ Holds(w) =>
          deletion'[target[w]] = deletion[target[w]]
    BY <2>1 DEF Holds
  <2> QED
    BY <2>1, <2>2, OtherRows
<1>3. ASSUME NEW k \in Keys, LeaseExpires(k) PROVE WorkInv'
  <2>1. /\ UNCHANGED <<phase, target, service, req, uses, resv>>
        /\ Prompt' => /\ Prompt
                      /\ \A w \in Workers : target[w] = k => deletion[k].holder # w
        /\ \A j \in Keys : j # k => deletion'[j] = deletion[j]
    BY <1>3 DEF LeaseExpires, Late, reqVars, Inv, Rows, Prompt
  <2>2. \A w \in Workers : target[w] \in Keys /\ Holds(w) /\ Prompt' =>
          deletion'[target[w]] = deletion[target[w]]
    BY <2>1 DEF Holds
  <2> QED
    BY <2>1, <2>2, OtherRows
<1>4. ASSUME NEW r \in Uploads, ReservationExpires(r) \/ GracePasses(r) PROVE WorkInv'
  BY <1>4, Aging, OtherRows DEF reqVars, workerVars, Prompt
<1>5. CASE ServiceExpires
  <2>1. /\ service.live
        /\ Prompt' => Prompt /\ \A w \in Workers : service.owner = w => phase[w] = "down"
        /\ UNCHANGED <<phase, target, deletion, resv, req, uses>>
    BY <1>5 DEF ServiceExpires, Late, reqVars, Prompt
  <2>2. Targets' /\ Fresh' /\ Held'
    BY <2>1, FreshStays DEF WorkInv, Targets, Held, Holds
  <2>3. Owned'
    BY <2>1 DEF WorkInv, Owned
  <2> QED
    BY <2>2, <2>3 DEF WorkInv
<1> QED
  BY <1>1, <1>2, <1>3, <1>4, <1>5

-----------------------------------------------------------------------------
\* An object disappears from the store only while its deletion is pending.
LEMMA StoreKeeps ==
  ASSUME Inv, Backed, OriginalsKept, UNCHANGED <<docs, resv, req, uses>>, Prompt' => Prompt,
         Prompt => \A k \in stored : k \in stored' \/ (k \in Keys /\ Pending(k))
  PROVE  Backed' /\ OriginalsKept'
<1>1. OriginalsKept'
  BY DEF Inv, OneClaimant, OriginalsKept
<1>2. Backed'
  <2> SUFFICES ASSUME Prompt, NEW u \in Uploads, req[u] = "verified",
                      uses[u] \in Active(KeyOf[u])
               PROVE  KeyOf[u] \in stored'
    BY DEF Backed, Active, OpenFor
  <2>1. KeyOf[u] \in Keys
    BY ObjectsAssumption
  <2>2. ~Pending(KeyOf[u])
    BY <2>1 DEF Inv, OneClaimant
  <2> QED
    BY <2>2 DEF Backed
<1> QED
  BY <1>1, <1>2

\* Steps that leave the store alone, add no document and make no reservation active.
LEMMA StoreAlone ==
  ASSUME Inv, Backed, OriginalsKept, stored' = stored, docs' \subseteq docs, Prompt' => Prompt,
         UNCHANGED <<req, uses>>, NoNewReservation
  PROVE  Backed' /\ OriginalsKept'
<1>1. OriginalsKept'
  BY DEF OriginalsKept
<1>2. \A u \in Uploads : KeyOf[u] \in Keys
  BY ObjectsAssumption
<1>3. \A u \in Uploads : uses[u] \in Active(KeyOf[u])' => uses[u] \in Active(KeyOf[u])
  BY <1>2 DEF NoNewReservation
<1>4. \A u \in Uploads : uses'[u] \in Active(KeyOf[u])' => uses[u] \in Active(KeyOf[u])
  BY <1>3
<1>5. Backed'
  BY <1>4 DEF Backed
<1> QED
  BY <1>1, <1>5

\* The uploads: what is committed was verified, and has been kept since.
LEMMA UploadStore ==
  ASSUME Inv, WorkInv, Backed, OriginalsKept, NEW u \in Uploads, UploadStep(u)
  PROVE  Backed' /\ OriginalsKept'
<1> USE DEF Inv, WorkInv
<1>k. \A v \in Uploads : KeyOf[v] \in Keys
  BY ObjectsAssumption
<1>p. Prompt' = Prompt
  BY DEF UploadStep, PreflightRefused, PreflightDuplicate, PreflightReserves, Put, Verify,
         Commit, GiveUp, workerVars, Prompt
<1>1. CASE PreflightRefused(u) \/ Put(u) \/ Verify(u) \/ GiveUp(u)
  <2>1. stored \subseteq stored' /\ UNCHANGED <<docs, resv, uses>>
    BY <1>1 DEF PreflightRefused, Put, Verify, GiveUp, storeVars
  <2>2. \A v \in Uploads : req'[v] = "verified" =>
          req[v] = "verified" \/ KeyOf[v] \in stored'
    BY <1>1 DEF PreflightRefused, Put, Verify, GiveUp, Move, storeVars, Rows
  <2>3. Backed'
    BY <1>p, <2>1, <2>2 DEF Backed, Active, OpenFor
  <2> QED
    BY <1>p, <2>1, <2>3 DEF OriginalsKept
<1>2. CASE PreflightDuplicate(u) \/ PreflightReserves(u) \/ Commit(u)
  <2>1. stored' = stored
    BY <1>2 DEF PreflightDuplicate, PreflightReserves, Commit, storeVars
  <2>2. \A v \in Uploads : req'[v] = "verified" =>
          /\ v # u /\ req[v] = "verified"
          /\ uses'[v] = uses[v] /\ uses[v] \in Uploads
    BY <1>2 DEF PreflightDuplicate, PreflightReserves, Commit, Move, Rows, Given
  <2>3. \A r \in Uploads : req[r] # "new" =>
          /\ resv'[r].outcome = "open" => resv[r].outcome = "open"
          /\ resv'[r].live => resv[r].live
    <3>1. CASE PreflightDuplicate(u)
      BY <3>1, ClosedRows DEF PreflightDuplicate
    <3>2. CASE PreflightReserves(u)
      <4> DEFINE old == Closed(OpenFor(KeyOf[u]) \ Active(KeyOf[u]))
      <4>1. /\ req[u] = "new"
            /\ resv' = [old EXCEPT ![u] = NewReservation] \/ resv' = old
        BY <3>2 DEF PreflightReserves
      <4>2. /\ old \in [Uploads -> Reservations]
            /\ \A r \in Uploads : /\ old[r].live = resv[r].live
                                  /\ old[r].outcome \in {"expired", resv[r].outcome}
        BY ClosedRows
      <4> HIDE DEF old
      <4> QED
        BY <4>1, <4>2
    <3>3. CASE Commit(u)
      <4>1. uses[u] \in Uploads /\ resv[uses[u]] \in Reservations
        BY <3>3 DEF Commit, Given, Rows
      <4>2. PICK o \in {"duplicate", "created"} :
              resv' = [resv EXCEPT ![uses[u]] = [resv[uses[u]] EXCEPT !.outcome = o]]
        BY <3>3 DEF Commit
      <4>3. [resv[uses[u]] EXCEPT !.outcome = o].outcome = o
            /\ [resv[uses[u]] EXCEPT !.outcome = o].live = resv[uses[u]].live
        BY <4>1 DEF Reservations
      <4> QED
        BY <4>1, <4>2, <4>3 DEF Rows
    <3> QED
      BY <1>2, <3>1, <3>2, <3>3
  <2>4. Backed'
    <3> SUFFICES ASSUME Prompt, NEW v \in Uploads, req'[v] = "verified",
                        uses'[v] \in Active(KeyOf[v])'
                 PROVE  KeyOf[v] \in stored'
      BY <1>p DEF Backed
    <3>1. req[v] = "verified" /\ uses'[v] = uses[v] /\ uses[v] \in Uploads
      BY <2>2
    <3>2. req[uses[v]] # "new"
      BY <3>1 DEF Fresh
    <3>3. resv'[uses[v]].outcome = "open" /\ resv'[uses[v]].live /\ KeyOf[uses[v]] = KeyOf[v]
      BY <3>1 DEF Active, OpenFor
    <3>4. uses[v] \in Active(KeyOf[v])
      BY <2>3, <3>1, <3>2, <3>3 DEF Active, OpenFor
    <3> QED
      BY <2>1, <3>1, <3>4 DEF Backed
  <2>5. OriginalsKept'
    <3>1. CASE docs' = docs
      BY <1>p, <2>1, <3>1 DEF OriginalsKept
    <3>2. CASE Commit(u)
      <4>1. uses[u] \in Active(KeyOf[u]) /\ req[u] = "verified"
        BY <3>2 DEF Commit, CommitAllowed, Active, OpenFor, Given
      <4>2. docs' = docs \cup {KeyOf[u]}
        BY <3>2 DEF Commit
      <4> QED
        BY <1>p, <2>1, <4>1, <4>2 DEF Backed, OriginalsKept
    <3> QED
      BY <1>2, <3>1, <3>2 DEF PreflightDuplicate, PreflightReserves, storeVars
  <2> QED
    BY <2>4, <2>5
<1> QED
  BY <1>1, <1>2 DEF UploadStep

\* The worker: what it deletes, or lets be deleted when it ends, it holds.
LEMMA WorkerStore ==
  ASSUME Inv, WorkInv, Backed, OriginalsKept, NEW w \in Workers,
         \/ StartProcess(w) \/ PassStep(w) \/ StoreStep(w)
         \/ LoseOwnership(w) \/ Crash(w)
  PROVE  Backed' /\ OriginalsKept'
<1>p. Prompt' = Prompt
  BY DEF StartProcess, PassStep, QueueOrphans, Claim, Complete, Retry, Abandon, Back,
         StoreStep, DeleteObject, DeleteFails, LoseOwnership, Crash, Prompt
<1>1. CASE StoreStep(w) \/ Abandon(w) \/ LoseOwnership(w) \/ Crash(w)
  <2>1. UNCHANGED <<docs, resv, req, uses>>
    BY <1>1 DEF StoreStep, DeleteObject, DeleteFails, Abandon, LoseOwnership, Crash,
                storeVars, reqVars
  <2>2. stored' = stored \/ (phase[w] = "deleting" /\ stored' = stored \ {target[w]})
    BY <1>1 DEF StoreStep, DeleteObject, DeleteFails, Abandon, LoseOwnership, Crash,
                Unattended, storeVars
  <2>3. phase[w] = "deleting" /\ Prompt => target[w] \in Keys /\ Pending(target[w])
    BY DEF WorkInv, Targets, Held, Holds, Pending
  <2> QED
    BY <1>p, <2>1, <2>2, <2>3, StoreKeeps
<1>2. CASE StartProcess(w) \/ Claim(w) \/ Complete(w) \/ Retry(w)
  <2>1. UNCHANGED <<stored, docs, resv, req, uses>>
    BY <1>2 DEF StartProcess, Claim, Complete, Retry, storeVars, reqVars
  <2> QED
    BY <1>p, <2>1, StoreKeeps
<1>3. CASE QueueOrphans(w)
  <2>1. UNCHANGED <<stored, docs, req, uses>>
    BY <1>3 DEF QueueOrphans, storeVars, reqVars
  <2> QED
    BY <1>p, <1>3, <2>1, OrphansClosed, StoreAlone
<1> QED
  BY <1>1, <1>2, <1>3 DEF PassStep

\* Everything together is inductive.
THEOREM StoreInvariance == Spec => [](Inv /\ WorkInv /\ Backed /\ OriginalsKept)
<1>1. Init => WorkInv /\ Backed /\ OriginalsKept
  <2> SUFFICES ASSUME Init PROVE WorkInv /\ Backed /\ OriginalsKept
    OBVIOUS
  <2>1. Targets /\ Held /\ Owned
    BY ObjectsAssumption DEF Init, Targets, Held, Owned
  <2>2. Fresh
    BY DEF Init, Fresh, NoReservation
  <2>3. Backed /\ OriginalsKept
    BY DEF Init, Backed, OriginalsKept
  <2> QED
    BY <2>1, <2>2, <2>3 DEF WorkInv
<1>2. Inv /\ WorkInv /\ Backed /\ OriginalsKept /\ [Next]_vars
        => (WorkInv /\ Backed /\ OriginalsKept)'
  <2> SUFFICES ASSUME Inv, WorkInv, Backed, OriginalsKept, [Next]_vars
               PROVE  WorkInv' /\ Backed' /\ OriginalsKept'
    OBVIOUS
  <2>1. ASSUME NEW u \in Uploads, UploadStep(u)
        PROVE  WorkInv' /\ Backed' /\ OriginalsKept'
    BY <2>1, UploadWork, UploadStore
  <2>2. ASSUME NEW w \in Workers,
               \/ StartProcess(w) \/ PassStep(w) \/ StoreStep(w)
               \/ LoseOwnership(w) \/ Crash(w)
        PROVE  WorkInv' /\ Backed' /\ OriginalsKept'
    <3>1. WorkInv'
      BY <2>2, PhaseSteps, PassWork DEF PassStep, StoreStep
    <3> QED
      BY <2>2, <3>1, WorkerStore
  <2>3. ASSUME NEW k \in Keys, DeleteDocument(k) \/ BecomesDue(k) \/ LeaseExpires(k)
        PROVE  WorkInv' /\ Backed' /\ OriginalsKept'
    <3>1. WorkInv'
      BY <2>3, OtherWork
    <3>2. docs' \subseteq docs /\ UNCHANGED <<stored, resv, req, uses>> /\ (Prompt' => Prompt)
      BY <2>3 DEF DeleteDocument, BecomesDue, LeaseExpires, Late, storeVars, reqVars, workerVars,
                  Prompt
    <3>3. NoNewReservation
      BY <3>2 DEF NoNewReservation, OpenFor, Active
    <3> QED
      BY <3>1, <3>2, <3>3, StoreAlone
  <2>4. ASSUME NEW r \in Uploads, ReservationExpires(r) \/ GracePasses(r)
        PROVE  WorkInv' /\ Backed' /\ OriginalsKept'
    <3>1. WorkInv'
      BY <2>4, OtherWork
    <3>2. UNCHANGED <<stored, docs, req, uses>> /\ NoNewReservation /\ Prompt' = Prompt
      BY <2>4, Aging DEF storeVars, reqVars, workerVars, Prompt
    <3> QED
      BY <3>1, <3>2, StoreAlone
  <2>5. CASE ServiceExpires
    <3>1. WorkInv'
      BY <2>5, OtherWork
    <3>2. UNCHANGED <<stored, docs, resv, req, uses>> /\ (Prompt' => Prompt)
      BY <2>5 DEF ServiceExpires, Late, storeVars, reqVars, Prompt
    <3> QED
      BY <3>1, <3>2, StoreKeeps
  <2>6. CASE UNCHANGED vars
    <3>1. UNCHANGED <<stored, docs, resv, deletion, req, uses, phase, target, service>>
          /\ Prompt' = Prompt
      BY <2>6 DEF vars, storeVars, reqVars, workerVars, Prompt
    <3>2. WorkInv'
      BY <3>1, OtherRows
    <3> QED
      BY <3>1, <3>2, StoreKeeps
  <2> QED
    BY <2>1, <2>2, <2>3, <2>4, <2>5, <2>6 DEF Next
<1> QED
  BY <1>1, <1>2, Invariance, PTL DEF Spec

\* While heartbeats arrive in time, no document loses its original: no deletion,
\* first or retried, of this or an earlier document with the same content, removes
\* an object that v4_admin_commit_upload gave to a document.
THEOREM OriginalsSafe == Spec => []OriginalsKept
BY StoreInvariance, PTL

\* While the owner renews its service lease, no second deletion worker runs.
THEOREM OneProcessSafe == Spec => []OneProcess
<1>1. WorkInv => OneProcess
  BY DEF WorkInv, Owned, OneProcess
<1> QED
  BY <1>1, StoreInvariance, PTL
=============================================================================
