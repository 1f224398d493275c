-------------------------------- MODULE Ocr ---------------------------------
(***************************************************************************)
(* Optical character recognition of a batch of pages.  The parser asks a   *)
(* client, with bounded retries (services/parsing/pdf.py); the client      *)
(* uploads the pages as a new job of the isolated service, asks for the    *)
(* run, fetches the result and deletes the job (runtime/ocr_client.py).    *)
(* The service admits one run per OCR slot, splits it over subprocesses,   *)
(* gathers them, and can be cancelled, drained for a restart, or die       *)
(* (runtime/ocr_service.py, ocr_adapter.py, ocr_workspace.py,              *)
(* services/parsing/ocr_subprocess.py).                                    *)
(*                                                                         *)
(* Every call is a request in flight, handled in any order, whose answer   *)
(* the client may no longer be waiting for: it gives up after its timeout  *)
(* or on a broken connection without telling the service.                  *)
(***************************************************************************)
EXTENDS Integers, FiniteSets

CONSTANTS
  Clients,       \* batches of pages to be recognised, one call of the parser each
  MaxAttempts,   \* external_batch_max_attempts
  Processes,     \* the subprocesses a run is split over
  OcrLimit,      \* StageLimits of Stage.OCR
  MaxFaults      \* bound on timeouts, failures, cancellations, drains and
                 \* crashes

ASSUME OcrAssumption ==
  /\ MaxAttempts \in 1 .. 4 /\ OcrLimit \in Nat \ {0} /\ Processes # {}

VARIABLES
  pc,          \* client -> the call it is in
  attempt,     \* client -> the attempt it is in
  then,        \* client -> what follows the deletion of its job
  net,         \* requests in flight
  answer,      \* client -> the answer to its current call, or "none"
  workspace,   \* job -> what its directory holds
  uploading,   \* jobs whose upload is being received
  run,         \* job -> where its run is
  holders,     \* jobs that hold an OCR slot
  process,     \* job -> subprocess -> its state
  ocr_draining,    \* the service refuses new runs
  drain,       \* the administrator's drain: "none", "waiting", "drained"
  faults

ocrVars == <<pc, attempt, then, net, answer, workspace, uploading, run, holders,
          process, ocr_draining, drain, faults>>
client == <<pc, attempt, then>>
service == <<workspace, uploading, run, holders, process>>
admin == <<ocr_draining, drain>>

Jobs == Clients \X (1 .. MaxAttempts)
Current(c) == <<c, attempt[c]>>
Active == {j \in Jobs : run[j] # "none"}
Ended == {"parsed", "failed", "cancelled"}
Calls == {"put", "ocr", "result", "cancel", "delete"}
Off == [k \in Processes |-> "off"]
Fault == faults < MaxFaults /\ faults' = faults + 1

OcrInit ==
  /\ pc = [c \in Clients |-> "idle"]
  /\ attempt = [c \in Clients |-> 1]
  /\ then = [c \in Clients |-> "none"]
  /\ net = {}
  /\ answer = [c \in Clients |-> "none"]
  /\ workspace = [j \in Jobs |-> "none"]
  /\ uploading = {}
  /\ run = [j \in Jobs |-> "none"]
  /\ holders = {}
  /\ process = [j \in Jobs |-> Off]
  /\ ocr_draining = FALSE /\ drain = "none" /\ faults = 0
-----------------------------------------------------------------------------
(* The client.                                                             *)
Call(c, kind) ==
  /\ pc' = [pc EXCEPT ![c] = kind]
  /\ net' = net \cup {[kind |-> kind, job |-> Current(c)]}
  /\ answer' = [answer EXCEPT ![c] = "none"]

Begin(c) ==
  /\ pc[c] = "idle" /\ Call(c, "put")
  /\ UNCHANGED <<attempt, then, service, admin, faults>>

(* The finally block: the job is deleted, and then the outcome counts.     *)
Leave(c, outcome) ==
  Call(c, "delete") /\ then' = [then EXCEPT ![c] = outcome]

NextCall == [put |-> "ocr", ocr |-> "result"]
Answered(c) ==
  /\ pc[c] \in {"put", "ocr"} /\ answer[c] = "ok"
  /\ Call(c, NextCall[pc[c]])
  /\ UNCHANGED <<attempt, then, service, admin, faults>>
ResultAnswered(c) ==
  /\ pc[c] = "result" /\ answer[c] = "ok"
  /\ Leave(c, "parsed")
  /\ UNCHANGED <<attempt, service, admin, faults>>
Refused(c) ==
  /\ pc[c] \in {"put", "ocr", "result"} /\ answer[c] = "error"
  /\ Leave(c, "retry")
  /\ UNCHANGED <<attempt, service, admin, faults>>
(* A timeout or a broken connection is an OcrError too, and the service is *)
(* not told that nobody waits any more.                                    *)
GiveUp(c) ==
  /\ pc[c] \in {"put", "ocr", "result"} /\ answer[c] = "none" /\ Fault
  /\ Leave(c, "retry")
  /\ UNCHANGED <<attempt, service, admin>>

(* The worker's task is cancelled: the run is cancelled at the service,    *)
(* then the job is deleted.                                                *)
Cancelled(c) ==
  /\ pc[c] \in {"put", "ocr", "result"} /\ Fault
  /\ Call(c, "cancel")
  /\ UNCHANGED <<attempt, then, service, admin>>
CancelAnswered(c) ==
  /\ pc[c] = "cancel"
  /\ \/ answer[c] # "none" /\ UNCHANGED faults
     \/ answer[c] = "none" /\ Fault
  /\ Leave(c, "cancelled")
  /\ UNCHANGED <<attempt, service, admin>>

(* A cancellation between two attempts, or during the deletion.            *)
CancelledLate(c) ==
  /\ pc[c] = "delete" \/ (pc[c] = "idle" /\ attempt[c] > 1)
  /\ Fault
  /\ pc' = [pc EXCEPT ![c] = "cancelled"]
  /\ then' = [then EXCEPT ![c] = "none"]
  /\ answer' = [answer EXCEPT ![c] = "none"]
  /\ UNCHANGED <<attempt, net, service, admin>>

(* The status of the deletion is not looked at, an HTTP error is ignored.  *)
(* The parser then retries after an OcrError or gives up.                  *)
DeleteAnswered(c) ==
  /\ pc[c] = "delete"
  /\ \/ answer[c] # "none" /\ UNCHANGED faults
     \/ answer[c] = "none" /\ Fault
  /\ IF then[c] = "retry" /\ attempt[c] < MaxAttempts
     THEN /\ pc' = [pc EXCEPT ![c] = "idle"]
          /\ attempt' = [attempt EXCEPT ![c] = @ + 1]
     ELSE /\ pc' = [pc EXCEPT ![c] =
               IF then[c] = "retry" THEN "failed" ELSE then[c]]
          /\ UNCHANGED attempt
  /\ then' = [then EXCEPT ![c] = "none"]
  /\ answer' = [answer EXCEPT ![c] = "none"]
  /\ UNCHANGED <<net, service, admin>>
-----------------------------------------------------------------------------
(* The service.  An answer reaches its client only while that waits for it.*)
Waits(kind, j) == pc[j[1]] = kind /\ attempt[j[1]] = j[2]
Answer(kind, j, value) ==
  answer' = IF Waits(kind, j) THEN [answer EXCEPT ![j[1]] = value] ELSE answer
Take(kind, j) ==
  /\ [kind |-> kind, job |-> j] \in net
  /\ net' = net \ {[kind |-> kind, job |-> j]}

Created(j) == [workspace EXCEPT ![j] = "partial"]
Removed(j) == [workspace EXCEPT ![j] = "none"]
Exists(j) == workspace[j] # "none"

(* The directory of a job is new: its name holds a fresh uuid.             *)
HandlePut(j) ==
  /\ Take("put", j)
  /\ workspace' = Created(j)
  /\ uploading' = uploading \cup {j}
  /\ UNCHANGED <<client, answer, run, holders, process, admin, faults>>

(* The body arrives and its length and checksum agree; the directory may   *)
(* have been deleted meanwhile.                                            *)
UploadStored(j) ==
  /\ j \in uploading
  /\ uploading' = uploading \ {j}
  /\ workspace' = [workspace EXCEPT ![j] = IF @ = "none" THEN @ ELSE "input"]
  /\ Answer("put", j, "ok")
  /\ UNCHANGED <<client, net, run, holders, process, admin, faults>>
UploadBroken(j) ==
  /\ j \in uploading
  /\ IF Waits("put", j) THEN Fault ELSE UNCHANGED faults
  /\ uploading' = uploading \ {j}
  /\ workspace' = Removed(j)
  /\ Answer("put", j, "error")
  /\ UNCHANGED <<client, net, run, holders, process, admin>>

AdmitsDraining(j) == Exists(j)
Admits(j) == ~ocr_draining /\ Exists(j)
HandleOcr(j) ==
  /\ Take("ocr", j)
  /\ \/ /\ Admits(j) /\ run' = [run EXCEPT ![j] = "waiting"]
        /\ UNCHANGED answer
     \/ ~Admits(j) /\ Answer("ocr", j, "error") /\ UNCHANGED run
  /\ UNCHANGED <<client, workspace, uploading, holders, process, admin, faults>>

(* The slot is taken, the pages are split and one subprocess per part is   *)
(* started; the input may turn out to be unreadable.                       *)
StartProcesses(j) ==
  /\ run[j] = "waiting" /\ Cardinality(holders) < OcrLimit
  /\ holders' = holders \cup {j}
  /\ \/ /\ process' = [process EXCEPT ![j] = [k \in Processes |-> "alive"]]
        /\ run' = [run EXCEPT ![j] = "running"] /\ UNCHANGED faults
     \/ /\ Fault /\ UNCHANGED process
        /\ run' = [run EXCEPT ![j] = "stopping"]
  /\ UNCHANGED <<client, net, answer, workspace, uploading, admin>>

(* A subprocess exits with code 0 before its deadline, or it does not; its *)
(* result files are complete and well formed, or they are not.             *)
SetProcess(j, k, state) == process' = [process EXCEPT ![j][k] = state]
ProcessExits(j, k) ==
  /\ process[j][k] = "alive" /\ run[j] = "running"
  /\ \/ SetProcess(j, k, "exited") /\ UNCHANGED faults
     \/ SetProcess(j, k, "bad") /\ Fault
  /\ UNCHANGED <<client, net, answer, workspace, uploading, run, holders, admin>>
LoadResults(j, k) ==
  /\ process[j][k] = "exited" /\ run[j] = "running"
  /\ \/ SetProcess(j, k, "ok") /\ UNCHANGED faults
     \/ SetProcess(j, k, "bad") /\ Fault
  /\ UNCHANGED <<client, net, answer, workspace, uploading, run, holders, admin>>

(* The cancellation of a part sets the event its thread polls, and the     *)
(* task waits for the thread to stop the subprocess.                       *)
StopNothing(j) == process
StopProcesses(j) ==
  [process EXCEPT ![j] = [k \in Processes |->
     IF process[j][k] \in {"alive", "dying"} THEN "dying" ELSE "off"]]
ProcessStops(j, k) ==
  /\ process[j][k] = "dying" /\ SetProcess(j, k, "off")
  /\ UNCHANGED <<client, net, answer, workspace, uploading, run, holders,
                 admin, faults>>

(* One part failed: the others are cancelled and awaited.                  *)
GatherFails(j) ==
  /\ run[j] = "running" /\ \E k \in Processes : process[j][k] = "bad"
  /\ process' = StopProcesses(j)
  /\ run' = [run EXCEPT ![j] = "stopping"]
  /\ UNCHANGED <<client, net, answer, workspace, uploading, holders, admin,
                 faults>>
RunCompletes(j) ==
  /\ run[j] = "running" /\ \A k \in Processes : process[j][k] = "ok"
  /\ workspace' = [workspace EXCEPT ![j] = "result"]
  /\ process' = [process EXCEPT ![j] = Off]
  /\ run' = [run EXCEPT ![j] = "none"] /\ holders' = holders \ {j}
  /\ Answer("ocr", j, "ok")
  /\ UNCHANGED <<client, net, uploading, admin, faults>>

(* The finally block of execute: the request is forgotten, the slot freed. *)
(* The wait for a subprocess to stop has an end of its own, after which    *)
(* the run goes on without it.                                             *)
FreedNever(j) == holders
Freed(j) == holders \ {j}
StopAwaited(j) ==
  IF \E k \in Processes : process[j][k] = "dying" THEN Fault ELSE UNCHANGED faults
RunStopped(j) ==
  /\ run[j] = "stopping" /\ StopAwaited(j)
  /\ run' = [run EXCEPT ![j] = "none"] /\ holders' = Freed(j)
  /\ Answer("ocr", j, "error")
  /\ UNCHANGED <<client, net, workspace, uploading, process, admin>>

(* cancel() cancels the task of the run.  A task that is already waiting   *)
(* for its subprocesses to stop is woken by it and does not wait for them. *)
HandleCancelJob(j) ==
  /\ Take("cancel", j)
  /\ Answer("cancel", j, "ok")
  /\ \/ run[j] = "none" /\ UNCHANGED <<run, process, holders>>
     \/ /\ run[j] \in {"waiting", "running"}
        /\ run' = [run EXCEPT ![j] = "stopping"]
        /\ process' = StopProcesses(j) /\ UNCHANGED holders
     \/ /\ run[j] = "stopping"
        /\ run' = [run EXCEPT ![j] = "none"]
        /\ holders' = Freed(j) /\ UNCHANGED process
  /\ UNCHANGED <<client, workspace, uploading, admin, faults>>

HandleResult(j) ==
  /\ Take("result", j)
  /\ Answer("result", j, IF workspace[j] = "result" THEN "ok" ELSE "error")
  /\ UNCHANGED <<client, service, admin, faults>>

\* DELETE is refused while the run of the job is registered.
Deletes(j) == run[j] = "none"

HandleDelete(j) ==
  /\ Take("delete", j)
  /\ \/ /\ Deletes(j)
        /\ workspace' = Removed(j)
        /\ Answer("delete", j, "ok")
     \/ /\ \/ ~Deletes(j)
           \/ j \in uploading
           \/ \E k \in Processes : process[j][k] \in {"dying", "orphan"}
        /\ Answer("delete", j, "error") /\ UNCHANGED workspace
  /\ UNCHANGED <<client, uploading, run, holders, process, admin, faults>>
-----------------------------------------------------------------------------
(* A restart of the service is preceded by a drain, which waits for the    *)
(* registered runs; a drain that times out leaves the service draining.    *)
StartDrain ==
  /\ drain = "none" /\ Fault
  /\ ocr_draining' = TRUE /\ drain' = "waiting"
  /\ UNCHANGED <<client, net, answer, service>>
Drained ==
  /\ drain = "waiting" /\ Active = {} /\ drain' = "drained"
  /\ UNCHANGED <<client, net, answer, service, ocr_draining, faults>>
DrainTimesOut ==
  /\ drain = "waiting" /\ Fault /\ drain' = "timedout"
  /\ UNCHANGED <<client, net, answer, service, ocr_draining>>

(* The process of the service is replaced: workspaces stay on disk, runs   *)
(* and uploads are gone, and clients see a broken connection.  The         *)
(* subprocesses are not tied to the life of the service: the ones that run *)
(* become orphans, which nobody watches and which end in their own time.   *)
Orphaned ==
  [j \in Jobs |-> [k \in Processes |->
     IF process[j][k] \in {"alive", "dying", "orphan"} THEN "orphan" ELSE "off"]]
Replaced ==
  /\ uploading' = {} /\ holders' = {}
  /\ run' = [j \in Jobs |-> "none"]
  /\ process' = Orphaned
  /\ ocr_draining' = FALSE /\ drain' = "none"
  /\ answer' = [c \in Clients |->
       IF /\ pc[c] \in Calls /\ answer[c] = "none"
          /\ [kind |-> pc[c], job |-> Current(c)] \notin net
       THEN "error" ELSE answer[c]]
  /\ UNCHANGED <<client, net, workspace>>
Restart ==
  drain \in {"drained", "timedout"} /\ Replaced /\ UNCHANGED faults
Crash == Fault /\ Replaced
OrphanEnds(j, k) ==
  /\ process[j][k] = "orphan" /\ SetProcess(j, k, "off")
  /\ UNCHANGED <<client, net, answer, workspace, uploading, run, holders,
                 admin, faults>>

Handle(j) ==
  \/ HandlePut(j) \/ HandleOcr(j) \/ HandleCancelJob(j)
  \/ HandleResult(j) \/ HandleDelete(j)
Serve(j) ==
  \/ UploadStored(j) \/ UploadBroken(j) \/ StartProcesses(j)
  \/ GatherFails(j) \/ RunCompletes(j) \/ RunStopped(j)
  \/ \E k \in Processes :
       ProcessExits(j, k) \/ LoadResults(j, k) \/ ProcessStops(j, k)
ClientStep(c) ==
  \/ Begin(c) \/ Answered(c) \/ ResultAnswered(c) \/ Refused(c)
  \/ CancelAnswered(c) \/ DeleteAnswered(c)
OcrNext ==
  \/ \E c \in Clients :
       ClientStep(c) \/ GiveUp(c) \/ Cancelled(c) \/ CancelledLate(c)
  \/ \E j \in Jobs : Handle(j) \/ Serve(j)
  \/ \E j \in Jobs, k \in Processes : OrphanEnds(j, k)
  \/ StartDrain \/ Drained \/ DrainTimesOut \/ Restart \/ Crash

(* Requests on the loopback interface are handled, the event loop and the  *)
(* threads run on, and a subprocess ends by its deadline at the latest.    *)
(* Nothing is assumed of an orphan, whose deadline nobody enforces.        *)
OcrFairness ==
  /\ \A c \in Clients : WF_ocrVars(ClientStep(c))
  /\ \A j \in Jobs : WF_ocrVars(Handle(j)) /\ WF_ocrVars(Serve(j))
OcrSpec == OcrInit /\ [][OcrNext]_ocrVars /\ OcrFairness
-----------------------------------------------------------------------------
(* However runs fail, are cancelled or are abandoned by clients that retry *)
(* under a new job, at most OcrLimit jobs have subprocesses of the running *)
(* service at work that nobody has told to stop (StageLimits.acquire, the  *)
(* gather in IsolatedOcrAdapter.process, the cancel event of parse_pages). *)
(* The orphans of a service that died work on beside them, uncounted: its  *)
(* successor starts with every slot free and knows nothing of them.        *)
BoundedOcr ==
  Cardinality({j \in Jobs : \E k \in Processes : process[j][k] = "alive"})
    <= OcrLimit

(* From the answer to a drain until the service is replaced no run exists  *)
(* and no subprocess works that was not told to stop, whatever requests    *)
(* were in flight when the drain began or arrive later (drain, execute):   *)
(* a restart that was drained for orphans none that is still at work.      *)
DrainedIsIdle ==
  drain = "drained" =>
    Active = {} /\ \A j \in Jobs, k \in Processes : process[j][k] # "alive"

(* Once the faults stop, every batch is parsed, has failed or is           *)
(* cancelled, and the service is at rest with every slot free: no client   *)
(* waits for an answer that nobody owes it and no abandoned run keeps the  *)
(* slot (parse_pages, execute, _run_process_sync).                         *)
EveryBatchSettles ==
  []<>(/\ \A c \in Clients : pc[c] \in Ended
       /\ Active = {} /\ holders = {})
=============================================================================
