------------------------------ MODULE Objects ------------------------------
(***************************************************************************)
(* The originals in the object store: an upload reserves its content-      *)
(* addressed key, puts the file and commits the document; the deletion of  *)
(* a document and the collection of abandoned uploads queue the key for    *)
(* deletion, and a deletion worker, which owns its service by a lease,     *)
(* removes the object under a lease of its own.                            *)
(*                                                                         *)
(* The stored functions (migration 0001) are single steps: preflight,      *)
(* commit, delete and the orphan query take the same advisory lock per     *)
(* checksum.  The object store knows no leases, so a call to it takes      *)
(* effect whenever it is made.                                             *)
(***************************************************************************)
EXTENDS Naturals

CONSTANTS Keys,          \* checksums, which are object keys
          Uploads,       \* upload requests
          KeyOf,         \* the content each request sends
          Sender,        \* who sends it, where to and under which name
          Workers,       \* deletion worker processes
          None,
          MaxAttempts,   \* attempts after which a deletion is given up (5)
          MayMiss,       \* bound: live processes that may fail, once, to renew a lease in time
          MaxCrashes,    \* bound: crashes of worker processes
          StoreFails     \* whether calls to the object store may fail

ASSUME ObjectsAssumption ==
  /\ KeyOf \in [Uploads -> Keys]
  /\ None \notin Workers \cup Uploads \cup Keys
  /\ MaxAttempts \in Nat \ {0}
  /\ MayMiss \subseteq Workers
  /\ StoreFails \in BOOLEAN
  /\ MaxCrashes \in Nat

VARIABLES
  stored,    \* objects in the bucket
  docs,      \* keys that a document row refers to
  resv,      \* upload_reservations, named by the request that inserted it
  deletion,  \* object_deletions, per key
  req,       \* what each upload request is doing
  uses,      \* the reservation a request was given
  phase,     \* what each worker process is doing
  target,    \* the key of the deletion it claimed
  service,   \* the service_leases row "deletion_worker"
  missed,    \* processes that let a lease of theirs run out
  crashes

storeVars  == <<stored, docs>>
reqVars    == <<req, uses>>
workerVars == <<phase, target, service, missed, crashes>>
vars == <<storeVars, resv, deletion, reqVars, workerVars>>

-----------------------------------------------------------------------------
\* live: expires_at is in the future; stale: the grace period has passed too.
Reservations == [outcome : {"none", "open", "expired", "created", "duplicate"},
                 live    : BOOLEAN,
                 stale   : BOOLEAN]

NoReservation == [outcome |-> "none", live |-> FALSE, stale |-> FALSE]

NewReservation == [outcome |-> "open", live |-> TRUE, stale |-> FALSE]

\* holder stands for the lease token and the fencing token, which are drawn
\* anew by every claim.  Attempts beyond the limit are not told apart.
Deletions == [status  : {"none", "queued", "leased", "failed"},
              due     : BOOLEAN,
              leased  : BOOLEAN,
              attempt : 0..MaxAttempts,
              holder  : Workers \cup {None}]

NoDeletion == [status |-> "none", due |-> FALSE, leased |-> FALSE, attempt |-> 0,
               holder |-> None]

NewDeletion == [NoDeletion EXCEPT !.status = "queued", !.due = TRUE]

Init ==
  /\ stored = {} /\ docs = {}
  /\ resv = [u \in Uploads |-> NoReservation]
  /\ deletion = [k \in Keys |-> NoDeletion]
  /\ req = [u \in Uploads |-> "new"]
  /\ uses = [u \in Uploads |-> None]
  /\ phase = [w \in Workers |-> "down"]
  /\ target = [w \in Workers |-> None]
  /\ service = [owner |-> None, live |-> FALSE]
  /\ missed = {}
  /\ crashes = 0

-----------------------------------------------------------------------------
(* Uploads.                                                                *)

Pending(k) == deletion[k].status # "none"

OpenFor(k) == {r \in Uploads : KeyOf[r] = k /\ resv[r].outcome = "open"}

Active(k) == {r \in OpenFor(k) : resv[r].live}

Closed(S) == [r \in Uploads |-> IF r \in S THEN [resv[r] EXCEPT !.outcome = "expired"]
                                           ELSE resv[r]]

Move(u, p) == req' = [req EXCEPT ![u] = p]

\* Every refusal raises inside the request's transaction, which is rolled back:
\* a pending deletion, a reservation of somebody else, no access to the
\* duplicate, no such folder.
PreflightRefused(u) ==
  /\ req[u] = "new"
  /\ Move(u, "failed")
  /\ UNCHANGED <<storeVars, resv, deletion, uses, workerVars>>

\* The content is stored already.
PreflightDuplicate(u) ==
  /\ req[u] = "new"
  /\ ~Pending(KeyOf[u])
  /\ KeyOf[u] \in docs
  /\ resv' = Closed(OpenFor(KeyOf[u]) \ Active(KeyOf[u]))
  /\ Move(u, "done")
  /\ UNCHANGED <<storeVars, deletion, uses, workerVars>>

MayReserve(u) == ~Pending(KeyOf[u]) /\ KeyOf[u] \notin docs

\* A repeated request of the same sender shares its reservation.
PreflightReserves(u) ==
  /\ req[u] = "new"
  /\ MayReserve(u)
  /\ LET k == KeyOf[u]
         old == Closed(OpenFor(k) \ Active(k))
     IN \/ /\ Active(k) = {}
           /\ resv' = [old EXCEPT ![u] = NewReservation]
           /\ uses' = [uses EXCEPT ![u] = u]
        \/ \E r \in Active(k) :
             /\ Sender[r] = Sender[u]
             /\ resv' = old
             /\ uses' = [uses EXCEPT ![u] = r]
  /\ Move(u, "reserved")
  /\ UNCHANGED <<storeVars, deletion, workerVars>>

\* put_if_absent.
Put(u) ==
  /\ req[u] = "reserved"
  /\ stored' = stored \cup {KeyOf[u]}
  /\ Move(u, "put")
  /\ UNCHANGED <<docs, resv, deletion, uses, workerVars>>

\* head and validate_remote_metadata.
Verify(u) ==
  /\ req[u] = "put"
  /\ Move(u, IF KeyOf[u] \in stored THEN "verified" ELSE "failed")
  /\ UNCHANGED <<storeVars, resv, deletion, uses, workerVars>>

CommitAllowed(u) ==
  /\ resv[uses[u]].outcome = "open"
  /\ resv[uses[u]].live
  /\ ~Pending(KeyOf[u])

\* v4_admin_commit_upload: the document is created, or somebody else was faster.
Commit(u) ==
  /\ req[u] = "verified"
  /\ CommitAllowed(u)
  /\ resv' = [resv EXCEPT ![uses[u]] = [@ EXCEPT !.outcome =
                IF KeyOf[u] \in docs THEN "duplicate" ELSE "created"]]
  /\ docs' = docs \cup {KeyOf[u]}
  /\ Move(u, "done")
  /\ UNCHANGED <<stored, deletion, uses, workerVars>>

\* The request ends without a document: its reservation is refused, its sender
\* lost access or went away, the store or the API process failed.
GiveUp(u) ==
  /\ req[u] \in {"reserved", "put", "verified"}
  /\ Move(u, "failed")
  /\ UNCHANGED <<storeVars, resv, deletion, uses, workerVars>>

\* v4_admin_delete_document.
DeleteDocument(k) ==
  /\ k \in docs
  /\ ~Pending(k)
  /\ deletion' = [deletion EXCEPT ![k] = NewDeletion]
  /\ docs' = docs \ {k}
  /\ UNCHANGED <<stored, resv, reqVars, workerVars>>

-----------------------------------------------------------------------------
(* The deletion worker.                                                    *)

ServiceFree == ~service.live

\* ControlledServiceLease.start: a process that finds the service owned ends.
StartProcess(w) ==
  /\ phase[w] = "down"
  /\ ServiceFree
  /\ service' = [owner |-> w, live |-> TRUE]
  /\ phase' = [phase EXCEPT ![w] = "polling"]
  /\ UNCHANGED <<storeVars, resv, deletion, reqVars, target, missed, crashes>>

\* Mutant: an abandoned reservation is enough, whatever happened to the key since.
OrphanedAnyway(k) ==
  \E r \in Uploads : KeyOf[r] = k /\ resv[r].stale /\ resv[r].outcome \in {"open", "expired"}

Orphaned(k) ==
  /\ \E r \in Uploads : KeyOf[r] = k /\ resv[r].stale /\ resv[r].outcome \in {"open", "expired"}
  /\ k \notin docs
  /\ Active(k) = {}

\* v4_queue_expired_upload_orphans, at the head of every pass.
QueueOrphans(w) ==
  /\ phase[w] = "polling"
  /\ resv' = Closed({r \in Uploads : resv[r].outcome = "open" /\ ~resv[r].live})
  /\ deletion' = [k \in Keys |-> IF Orphaned(k) /\ ~Pending(k) THEN NewDeletion
                                                               ELSE deletion[k]]
  /\ phase' = [phase EXCEPT ![w] = "claiming"]
  /\ UNCHANGED <<storeVars, reqVars, target, service, missed, crashes>>

Claimable(k) ==
  /\ \/ deletion[k].status = "queued" /\ deletion[k].due
     \/ deletion[k].status = "leased" /\ ~deletion[k].leased
  /\ k \notin docs
  /\ Active(k) = {}

Attempted(n) == IF n = MaxAttempts THEN n ELSE n + 1

\* Mutant: the row is finished before the object is deleted.
ClaimedRowGone(d, w) == NoDeletion

ClaimedRow(d, w) ==
  [status |-> "leased", due |-> TRUE, leased |-> TRUE, attempt |-> Attempted(d.attempt),
   holder |-> w]

\* v4_claim_object_deletion.
Claim(w) ==
  /\ phase[w] = "claiming"
  /\ \/ \E k \in Keys :
          /\ Claimable(k)
          /\ deletion' = [deletion EXCEPT ![k] = ClaimedRow(deletion[k], w)]
          /\ target' = [target EXCEPT ![w] = k]
          /\ phase' = [phase EXCEPT ![w] = "deleting"]
     \/ /\ \A k \in Keys : ~Claimable(k)
        /\ phase' = [phase EXCEPT ![w] = "polling"]
        /\ UNCHANGED <<deletion, target>>
  /\ UNCHANGED <<storeVars, resv, reqVars, service, missed, crashes>>

Holds(w) ==
  /\ deletion[target[w]].status = "leased"
  /\ deletion[target[w]].holder = w
  /\ deletion[target[w]].leased

Back(w) ==
  /\ phase' = [phase EXCEPT ![w] = "polling"]
  /\ target' = [target EXCEPT ![w] = None]
  /\ UNCHANGED <<service, missed, crashes>>

\* The object is gone, or was not there.
DeleteObject(w) ==
  /\ phase[w] = "deleting"
  /\ stored' = stored \ {target[w]}
  /\ phase' = [phase EXCEPT ![w] = "deleted"]
  /\ UNCHANGED <<docs, resv, deletion, reqVars, target, service, missed, crashes>>

DeleteFails(w) ==
  /\ StoreFails
  /\ phase[w] = "deleting"
  /\ phase' = [phase EXCEPT ![w] = "erred"]
  /\ UNCHANGED <<storeVars, resv, deletion, reqVars, target, service, missed, crashes>>

\* v4_finish_object_deletion with success; "stale" changes nothing.
Complete(w) ==
  /\ phase[w] = "deleted"
  /\ deletion' = IF Holds(w) THEN [deletion EXCEPT ![target[w]] = NoDeletion] ELSE deletion
  /\ Back(w)
  /\ UNCHANGED <<storeVars, resv, reqVars>>

\* Mutant: the attempts are not counted against a limit.
FailedDeletionForever(d) ==
  [d EXCEPT !.status = "queued", !.due = FALSE, !.leased = FALSE, !.holder = None]

FailedDeletion(d) ==
  [d EXCEPT !.status = IF d.attempt = MaxAttempts THEN "failed" ELSE "queued",
            !.due = FALSE, !.leased = FALSE, !.holder = None]

\* v4_finish_object_deletion with an error: a later attempt, or none.
Retry(w) ==
  /\ phase[w] = "erred"
  /\ deletion' = IF Holds(w)
                   THEN [deletion EXCEPT ![target[w]] = FailedDeletion(@)] ELSE deletion
  /\ Back(w)
  /\ UNCHANGED <<storeVars, resv, reqVars>>

\* What a call in flight does when nobody waits for its answer any more.
Unattended(w) ==
  stored' = stored \/ (phase[w] = "deleting" /\ stored' = stored \ {target[w]})

\* A refused heartbeat cancels the deletion, and waits for its thread to end.
Abandon(w) ==
  /\ phase[w] = "deleting"
  /\ ~Holds(w)
  /\ Unattended(w)
  /\ Back(w)
  /\ UNCHANGED <<docs, resv, deletion, reqVars>>

Stop(w) ==
  /\ phase' = [phase EXCEPT ![w] = "down"]
  /\ target' = [target EXCEPT ![w] = None]

\* The ownership heartbeat was refused: run() stops the worker and ends.
LoseOwnership(w) ==
  /\ phase[w] # "down"
  /\ ~(service.owner = w /\ service.live)
  /\ Unattended(w)
  /\ Stop(w)
  /\ UNCHANGED <<docs, resv, deletion, reqVars, service, missed, crashes>>

Crash(w) ==
  /\ phase[w] # "down"
  /\ crashes < MaxCrashes
  /\ crashes' = crashes + 1
  /\ Unattended(w)
  /\ Stop(w)
  /\ UNCHANGED <<docs, resv, deletion, reqVars, service, missed>>

-----------------------------------------------------------------------------
(* Time passes.                                                            *)

ReservationExpires(r) ==
  /\ resv[r].live
  /\ resv' = [resv EXCEPT ![r] = [@ EXCEPT !.live = FALSE]]
  /\ UNCHANGED <<storeVars, deletion, reqVars, workerVars>>

GracePasses(r) ==
  /\ resv[r].outcome # "none" /\ ~resv[r].live /\ ~resv[r].stale
  /\ resv' = [resv EXCEPT ![r] = [@ EXCEPT !.stale = TRUE]]
  /\ UNCHANGED <<storeVars, deletion, reqVars, workerVars>>

BecomesDue(k) ==
  /\ deletion[k].status = "queued" /\ ~deletion[k].due
  /\ deletion' = [deletion EXCEPT ![k] = [@ EXCEPT !.due = TRUE]]
  /\ UNCHANGED <<storeVars, resv, reqVars, workerVars>>

\* Heartbeats come every third of a lease, while the object is deleted as well; a
\* live process whose heartbeat comes too late all the same is noted in missed.
Late(W) == W \subseteq MayMiss \ missed /\ missed' = missed \cup W

LeaseExpires(k) ==
  /\ deletion[k].leased
  /\ Late({w \in Workers : target[w] = k /\ deletion[k].holder = w})
  /\ deletion' = [deletion EXCEPT ![k] = [@ EXCEPT !.leased = FALSE]]
  /\ UNCHANGED <<storeVars, resv, reqVars, phase, target, service, crashes>>

ServiceExpires ==
  /\ service.live
  /\ Late({w \in Workers : service.owner = w /\ phase[w] # "down"})
  /\ service' = [service EXCEPT !.live = FALSE]
  /\ UNCHANGED <<storeVars, resv, deletion, reqVars, phase, target, crashes>>

-----------------------------------------------------------------------------
UploadStep(u) ==
  \/ PreflightRefused(u) \/ PreflightDuplicate(u) \/ PreflightReserves(u)
  \/ Put(u) \/ Verify(u) \/ Commit(u) \/ GiveUp(u)

PassStep(w) == QueueOrphans(w) \/ Claim(w) \/ Complete(w) \/ Retry(w) \/ Abandon(w)

StoreStep(w) == DeleteObject(w) \/ DeleteFails(w)

Next ==
  \/ \E u \in Uploads : UploadStep(u) \/ ReservationExpires(u) \/ GracePasses(u)
  \/ \E k \in Keys : DeleteDocument(k) \/ BecomesDue(k) \/ LeaseExpires(k)
  \/ \E w \in Workers :
       StartProcess(w) \/ PassStep(w) \/ StoreStep(w) \/ LoseOwnership(w) \/ Crash(w)
  \/ ServiceExpires

Spec == Init /\ [][Next]_vars

\* Clocks advance, a started upload ends one way or the other, the worker's loop
\* and its calls go on, and the supervisor starts the process whenever it is down.
Fairness ==
  /\ \A u \in Uploads : /\ WF_vars(Put(u) \/ Verify(u) \/ Commit(u) \/ GiveUp(u))
                        /\ WF_vars(ReservationExpires(u)) /\ WF_vars(GracePasses(u))
  /\ \A k \in Keys : WF_vars(BecomesDue(k)) /\ WF_vars(LeaseExpires(k) /\ UNCHANGED missed)
  /\ \A w \in Workers : /\ WF_vars(PassStep(w)) /\ WF_vars(StoreStep(w))
                        /\ WF_vars(LoseOwnership(w)) /\ WF_vars(StartProcess(w))
  /\ WF_vars(ServiceExpires /\ UNCHANGED missed)

FairSpec == Spec /\ Fairness

-----------------------------------------------------------------------------
(* Properties.                                                             *)

\* The rows keep their domains; a worker has a target exactly while it deletes.
TypeOK ==
  /\ stored \subseteq Keys /\ docs \subseteq Keys
  /\ resv \in [Uploads -> Reservations]
  /\ deletion \in [Keys -> Deletions]
  /\ \A k \in Keys : deletion[k].leased => deletion[k].status = "leased"
  /\ req \in [Uploads -> {"new", "reserved", "put", "verified", "done", "failed"}]
  /\ uses \in [Uploads -> Uploads \cup {None}]
  /\ phase \in [Workers -> {"down", "polling", "claiming", "deleting", "deleted", "erred"}]
  /\ target \in [Workers -> Keys \cup {None}]
  /\ \A w \in Workers :
       target[w] # None <=> phase[w] \in {"deleting", "deleted", "erred"}
  /\ service \in [owner : Workers \cup {None}, live : BOOLEAN]
  /\ missed \subseteq MayMiss
  /\ crashes \in Nat

\* A key has one claimant: a document, an upload that may still commit, or a
\* pending deletion.  Between them, preflight, commit, the deletion of documents
\* and the orphan query never let two of them exist at once, and at most one
\* reservation of a key is open (uq_upload_reservations_active_object).
OneClaimant ==
  \A k \in Keys :
    /\ ~(k \in docs /\ Active(k) # {})
    /\ Pending(k) => k \notin docs /\ Active(k) = {}
    /\ \A r, s \in OpenFor(k) : r = s

\* Every process has renewed its leases in time so far.
Prompt == missed = {}

\* No document loses its original: while leases are renewed in time, no deletion
\* that was queued, retried or taken over hits an object that a document uses,
\* however uploads of the same content come and go.
OriginalsKept == Prompt => docs \subseteq stored

\* While the owner renews its lease, the service has one process at a time, also
\* across crashes and restarts.
OneProcess ==
  Prompt => \A v, w \in Workers : phase[v] # "down" /\ phase[w] # "down" => v = w

\* What is to be removed: an object that some upload reserved and no document uses, or
\* a key with a deletion, unless the deletion was given up.
Leftover(k) ==
  /\ k \notin docs /\ deletion[k].status # "failed"
  /\ \/ Pending(k)
     \/ k \in stored /\ \E r \in Uploads : KeyOf[r] = k /\ resv[r].outcome \in {"open", "expired"}

\* Nothing is left over for ever, whatever crashes or loses its lease: an upload adopts
\* the object or the orphan query finds it, and its deletion is retried and taken over
\* until the object is gone or the attempts are used up.
LeftoverRemoved == \A k \in Keys : []<>~Leftover(k)

=============================================================================
