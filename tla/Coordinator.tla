---------------------------- MODULE Coordinator ----------------------------
(***************************************************************************)
(* The inference coordinator (apps/api/app/runtime/coordinator.py with     *)
(* scheduler.py and limits.py): one asyncio process that admits embedding, *)
(* rerank and generation requests, queues them by priority, runs each in a *)
(* task of its own behind a semaphore per stage, and can be drained.       *)
(*                                                                         *)
(* One action is what one coroutine does between two points where it       *)
(* really suspends.  The scheduler's condition lock is never held across a *)
(* suspension, so enqueue(), next() on a non-empty queue and cancel() run  *)
(* without yielding: submit() up to its await, and the dispatcher's whole  *)
(* pass over the queue, are one step each.  Callbacks of one event-loop    *)
(* pass run in any order, except that new tasks start in creation order.   *)
(***************************************************************************)
EXTENDS Naturals, Sequences, FiniteSets

CONSTANTS Requests,    \* request ids; every client draws a fresh uuid4
          Streaming,   \* the requests served by stream(), the others by submit()
          Background,  \* the requests of priority "background"
          Stages,      \* runtime stages
          StageOf,     \* the stage each request runs in
          Limit,       \* semaphore size of each stage
          StreamCap,   \* asyncio.Queue(maxsize=64)
          MaxChunks,   \* bound: chunks one generation emits
          Cancellable, \* requests somebody may cancel or abandon
          MayClose     \* whether the process may be shut down

ASSUME CoordinatorAssumption ==
  /\ IsFiniteSet(Requests)
  /\ Streaming \subseteq Requests
  /\ Background \subseteq Requests
  /\ Cancellable \subseteq Requests
  /\ StageOf \in [Requests -> Stages]
  /\ Limit \in [Stages -> Nat \ {0}]
  /\ StreamCap \in Nat \ {0}
  /\ MaxChunks \in Nat
  /\ MayClose \in BOOLEAN

VARIABLES
  registered,   \* keys of _cancellations (and of _futures or _streams)
  cancelSet,    \* requests whose cancellation event is set
  interactive,  \* scheduler queues, in enqueue order
  background,
  schedActive,  \* scheduler._active
  tally,        \* scheduler counters: completed, failed, cancelled
  dispatcher,   \* the dispatcher task: absent, ready to run, parked in wait()
  spawned,      \* execution tasks created and not started, in creation order
  doomed,       \* live execution tasks with a pending task.cancel()
  waiters,      \* per stage, the tasks queued on its semaphore
  holding,      \* tasks that hold their stage's semaphore
  ending,       \* streams that left their stage and wait to put _STREAM_DONE
  future,       \* per submit() request, its future
  caller,       \* per request, what its caller is doing
  queue,        \* per stream() request, the items its consumer has not read
  produced,     \* per stream() request, chunks emitted so far
  draining,     \* _draining
  idle,         \* the _idle event
  drainer,      \* the controller's drain() call
  life,         \* _closed and the progress of close()
  closeWait     \* the execution tasks close() gathers

reqVars   == <<registered, cancelSet, future, caller>>
schedVars == <<interactive, background, schedActive, tally>>
taskVars  == <<dispatcher, spawned, doomed, waiters, holding, ending>>
queueVars == <<queue, produced>>
ctlVars   == <<draining, idle, drainer, life, closeWait>>
vars == <<reqVars, schedVars, taskVars, queueVars, ctlVars>>

-----------------------------------------------------------------------------
Elements(s) == {s[i] : i \in DOMAIN s}

\* A request is in a queue once at most.
Without(s, r) ==
  IF r \in Elements(s)
    THEN LET k == CHOOSE i \in DOMAIN s : s[i] = r
         IN  [i \in 1..(Len(s) - 1) |-> IF i < k THEN s[i] ELSE s[i + 1]]
    ELSE s

Queued == Elements(interactive) \cup Elements(background)

Waiting == UNION {Elements(waiters[s]) : s \in Stages}

\* _active_tasks: the execution tasks that have not finished.
Live == Elements(spawned) \cup Waiting \cup holding \cup ending

Holders(s) == {r \in holding : StageOf[r] = s}

Init ==
  /\ registered = {}
  /\ cancelSet = {}
  /\ interactive = <<>>
  /\ background = <<>>
  /\ schedActive = {}
  /\ tally = [completed |-> 0, failed |-> 0, cancelled |-> 0]
  /\ dispatcher = "absent"
  /\ spawned = <<>>
  /\ doomed = {}
  /\ waiters = [s \in Stages |-> <<>>]
  /\ holding = {}
  /\ ending = {}
  /\ future = [r \in Requests |-> "none"]
  /\ caller = [r \in Requests |-> "idle"]
  /\ queue = [r \in Requests |-> <<>>]
  /\ produced = [r \in Requests |-> 0]
  /\ draining = FALSE
  /\ idle = TRUE
  /\ drainer = "none"
  /\ life = "open"
  /\ closeWait = {}

-----------------------------------------------------------------------------
(* Admission: the synchronous prefix of submit() and stream().             *)

\* "coordinator runtime is closed" / "coordinator is draining".
Reject(r) ==
  /\ caller[r] = "idle"
  /\ draining
  /\ caller' = [caller EXCEPT ![r] = "rejected"]
  /\ UNCHANGED <<registered, cancelSet, future, schedVars, taskVars, queueVars,
                 ctlVars>>

\* A fresh id is registered, _idle is cleared, the entry goes to the queue of
\* its priority, and the dispatcher is created or notified.
Admit(r) ==
  /\ caller[r] = "idle"
  /\ ~draining
  /\ registered' = registered \cup {r}
  /\ idle' = FALSE
  /\ IF r \in Background
       THEN background' = Append(background, r) /\ UNCHANGED interactive
       ELSE interactive' = Append(interactive, r) /\ UNCHANGED background
  /\ dispatcher' = "ready"
  /\ caller' = [caller EXCEPT ![r] = "waiting"]
  /\ future' = [future EXCEPT ![r] = IF r \in Streaming THEN "none" ELSE "pending"]
  /\ UNCHANGED <<cancelSet, schedActive, tally, spawned, doomed, waiters, holding,
                 ending, queueVars, draining, drainer, life,
                 closeWait>>

-----------------------------------------------------------------------------
(* The dispatcher.  next() does not suspend while an entry is queued, so a *)
(* pass hands every queued entry to a task: the starved oldest background  *)
(* entry if there is one, then interactive entries, then the background    *)
(* ones.  Whether the oldest background entry has waited long enough to be *)
(* starved (60 seconds) is left open.                                      *)

DispatchOrder(starved) ==
  IF starved /\ background # <<>>
    THEN <<Head(background)>> \o interactive \o Tail(background)
    ELSE interactive \o background

\* After _closed the loop condition stops the dispatcher behind one item.
Dispatch ==
  /\ dispatcher = "ready"
  /\ \E starved \in BOOLEAN :
       LET order == DispatchOrder(starved)
           taken == IF life = "open" \/ order = <<>> THEN order ELSE <<Head(order)>>
           left(s) == IF taken = order THEN <<>> ELSE Without(s, Head(order))
       IN /\ spawned' = spawned \o taken
          /\ schedActive' = schedActive \cup Elements(taken)
          /\ interactive' = left(interactive)
          /\ background' = left(background)
          /\ dispatcher' = IF life = "open" \/ taken = <<>> THEN "parked" ELSE "stopped"
  /\ UNCHANGED <<reqVars, tally, doomed, waiters, holding, ending, queueVars,
                 ctlVars>>

-----------------------------------------------------------------------------
(* Execution tasks.                                                        *)

\* asyncio.Semaphore: a slot is free only when nobody who still wants it waits.
WantsSlot(s) == Elements(waiters[s]) \ doomed

SlotFree(s) == /\ Cardinality(Holders(s)) < Limit[s]
               /\ WantsSlot(s) = {}

\* The task's first step.  A task cancelled before it started raises at once:
\* none of _execute() runs, its finally block included.  So does one whose
\* registration close() has already cleared (KeyError before the try).
StartTask ==
  /\ spawned # <<>>
  /\ LET r == Head(spawned)
         s == StageOf[r]
         runs == r \notin doomed /\ r \in registered
     IN /\ spawned' = Tail(spawned)
        /\ doomed' = doomed \ {r}
        /\ holding' = IF runs /\ SlotFree(s) THEN holding \cup {r} ELSE holding
        /\ waiters' = IF runs /\ ~SlotFree(s)
                        THEN [waiters EXCEPT ![s] = Append(@, r)]
                        ELSE waiters
  /\ UNCHANGED <<reqVars, schedVars, dispatcher, ending, queueVars, ctlVars>>

\* Mutant: _idle is set whenever a task ends, outstanding requests or not.
SetIdleAlways(reg) ==
  /\ idle' = TRUE
  /\ drainer' = IF drainer = "waiting" THEN "woken" ELSE drainer

\* _idle.set() also wakes a drain() that waits on it.
SetIdleIfEmpty(reg) ==
  /\ idle' = (idle \/ reg = {})
  /\ drainer' = IF reg = {} /\ drainer = "waiting" THEN "woken" ELSE drainer

\* Mutant: the slot is given back and nobody is woken.
LeaveStageSilently(r) ==
  /\ holding' = holding \ {r}
  /\ waiters' = [waiters EXCEPT ![StageOf[r]] = Without(@, r)]

Foremost(h, set, s) ==
  \A i, j \in DOMAIN s : s[i] = h /\ s[j] \in set => i <= j

\* Leaving the stage: the semaphore passes the slot to its first live waiter.
LeaveStage(r) ==
  LET s == StageOf[r]
      heirs == IF r \in holding THEN WantsSlot(s) \ {r} ELSE {}
  IN IF heirs = {}
       THEN /\ holding' = holding \ {r}
            /\ waiters' = [waiters EXCEPT ![s] = Without(@, r)]
       ELSE \E h \in heirs :
              /\ Foremost(h, heirs, waiters[s])
              /\ holding' = (holding \ {r}) \cup {h}
              /\ waiters' = [waiters EXCEPT ![s] = Without(Without(@, r), h)]

\* Mutant: the finally block forgets to pop the registration.
FinishTaskKeepsId(r, outcome) ==
  /\ LeaveStage(r)
  /\ ending' = ending \ {r}
  /\ doomed' = doomed \ {r}
  /\ schedActive' = schedActive \ {r}
  /\ tally' = IF outcome = "ok" THEN [tally EXCEPT !.completed = @ + 1]
                                ELSE [tally EXCEPT !.failed = @ + 1]
  /\ SetIdleIfEmpty(registered)
  /\ UNCHANGED <<registered, cancelSet, caller, interactive, background, dispatcher, spawned,
                 draining, life, closeWait>>

\* The finally block of _execute() and _execute_stream().
FinishTask(r, outcome) ==
  /\ LeaveStage(r)
  /\ ending' = ending \ {r}
  /\ doomed' = doomed \ {r}
  /\ schedActive' = schedActive \ {r}
  /\ tally' = IF outcome = "ok" THEN [tally EXCEPT !.completed = @ + 1]
                                ELSE [tally EXCEPT !.failed = @ + 1]
  /\ registered' = registered \ {r}
  /\ SetIdleIfEmpty(registered \ {r})
  /\ UNCHANGED <<cancelSet, caller, interactive, background, dispatcher, spawned,
                 draining, life, closeWait>>

\* future.set_result / set_exception / cancel, "if not future.done()".
Settle(r, outcome) ==
  future' = IF future[r] = "pending" THEN [future EXCEPT ![r] = outcome] ELSE future

\* _put_stream_failure(): put_nowait, and a full queue drops the failure.
PutFailure(r) ==
  queue' = IF Len(queue[r]) < StreamCap
             THEN [queue EXCEPT ![r] = Append(@, "failure")]
             ELSE queue

Undisturbed(r) == r \in holding /\ r \notin doomed /\ r \notin cancelSet

\* The adapter returned: _execute() resolves the future and cleans up.
Complete(r) ==
  /\ r \notin Streaming
  /\ Undisturbed(r)
  /\ Settle(r, "ok")
  /\ FinishTask(r, "ok")
  /\ UNCHANGED queueVars

\* The adapter yielded a chunk; put() waits while the queue is full.
ProduceChunk(r) ==
  /\ r \in Streaming
  /\ Undisturbed(r)
  /\ produced[r] < MaxChunks
  /\ Len(queue[r]) < StreamCap
  /\ queue' = [queue EXCEPT ![r] = Append(@, "chunk")]
  /\ produced' = [produced EXCEPT ![r] = @ + 1]
  /\ UNCHANGED <<reqVars, schedVars, taskVars, ctlVars>>

\* The adapter's stream ended.  The stage is left before _STREAM_DONE is put,
\* and on a full queue the task waits for room outside its stage.
EndStream(r) ==
  /\ r \in Streaming
  /\ Undisturbed(r)
  /\ \/ /\ Len(queue[r]) < StreamCap
        /\ queue' = [queue EXCEPT ![r] = Append(@, "done")]
        /\ FinishTask(r, "ok")
        /\ UNCHANGED <<future, produced>>
     \/ /\ Len(queue[r]) = StreamCap
        /\ LeaveStage(r)
        /\ ending' = ending \cup {r}
        /\ UNCHANGED <<reqVars, schedVars, dispatcher, spawned, doomed, queueVars,
                       ctlVars>>

PutDone(r) ==
  /\ r \in ending
  /\ r \notin doomed
  /\ Len(queue[r]) < StreamCap
  /\ queue' = [queue EXCEPT ![r] = Append(@, "done")]
  /\ FinishTask(r, "ok")
  /\ UNCHANGED <<future, produced>>

\* The adapter raised.
Fail(r) ==
  /\ Undisturbed(r)
  /\ IF r \in Streaming
       THEN PutFailure(r) /\ UNCHANGED future
       ELSE Settle(r, "error") /\ UNCHANGED queue
  /\ FinishTask(r, "failed")
  /\ UNCHANGED produced

\* CancelledError inside a started task, or the check of the event.
HandleCancel(r) ==
  /\ r \in Waiting \cup holding \cup ending
  /\ r \in doomed \/ (r \in holding /\ r \in cancelSet)
  /\ IF r \in Streaming
       THEN PutFailure(r) /\ UNCHANGED future
       ELSE Settle(r, "cancelled") /\ UNCHANGED queue
  /\ FinishTask(r, "failed")
  /\ UNCHANGED produced

-----------------------------------------------------------------------------
(* Cancellation and the callers.                                           *)

\* cancel(r) of a registered request; q is what its stream's queue holds.  A
\* queued entry is withdrawn and its caller told; an active one has its task
\* cancelled.  _idle is not touched.
CancelEffect(r, q) ==
  /\ cancelSet' = cancelSet \cup {r}
  /\ IF r \in Queued
       THEN /\ interactive' = Without(interactive, r)
            /\ background' = Without(background, r)
            /\ tally' = [tally EXCEPT !.cancelled = @ + 1]
            /\ registered' = registered \ {r}
            /\ dispatcher' = IF dispatcher = "parked" THEN "ready" ELSE dispatcher
            /\ Settle(r, "cancelled")
            /\ queue' = [queue EXCEPT ![r] = IF r \in Streaming THEN Append(q, "failure")
                                                                ELSE q]
            /\ UNCHANGED doomed
       ELSE /\ doomed' = doomed \cup ({r} \cap Live)
            /\ queue' = [queue EXCEPT ![r] = q]
            /\ UNCHANGED <<interactive, background, tally, registered, dispatcher, future>>
  /\ UNCHANGED <<schedActive, spawned, waiters, holding, ending, produced, ctlVars>>

OnlyQueue(r, q) ==
  /\ queue' = [queue EXCEPT ![r] = q]
  /\ UNCHANGED <<cancelSet, registered, future, schedVars, taskVars, produced, ctlVars>>

CancelIfRegistered(r, q) ==
  IF r \in registered THEN CancelEffect(r, q) ELSE OnlyQueue(r, q)

\* POST /cancel/{request_id}.
CancelRequest(r) ==
  /\ r \in Cancellable \cap registered
  /\ CancelEffect(r, queue[r])
  /\ UNCHANGED caller

\* The task inside submit() is cancelled: so is the future it awaits.
AbandonSubmit(r) ==
  /\ r \in Cancellable \ Streaming
  /\ caller[r] = "waiting"
  /\ future[r] = "pending"
  /\ future' = [future EXCEPT ![r] = "cancelled"]
  /\ UNCHANGED <<registered, cancelSet, caller, schedVars, taskVars, queueVars,
                 ctlVars>>

\* submit() resumes: it returns, raises, or on CancelledError cancels its id.
ResumeSubmit(r) ==
  /\ caller[r] = "waiting"
  /\ future[r] \in {"ok", "error", "cancelled"}
  /\ caller' = [caller EXCEPT ![r] = IF future[r] = "ok" THEN "served" ELSE "failed"]
  /\ IF future[r] = "cancelled" THEN CancelIfRegistered(r, queue[r])
                                ELSE OnlyQueue(r, queue[r])

\* The consumer inside stream() takes the next item; a terminal one runs the
\* finally block.
ReadStream(r) ==
  /\ caller[r] = "waiting"
  /\ queue[r] # <<>>
  /\ LET item == Head(queue[r])
         rest == Tail(queue[r])
     IN IF item = "chunk"
          THEN OnlyQueue(r, rest) /\ UNCHANGED caller
          ELSE /\ caller' = [caller EXCEPT ![r] =
                               IF item = "done" THEN "served" ELSE "failed"]
               /\ CancelIfRegistered(r, rest)

\* The consumer goes away: the finally block cancels what is still registered.
AbandonStream(r) ==
  /\ r \in Cancellable \cap Streaming
  /\ caller[r] = "waiting"
  /\ caller' = [caller EXCEPT ![r] = "failed"]
  /\ CancelIfRegistered(r, queue[r])

-----------------------------------------------------------------------------
(* Drain, resume and close.                                                *)

DrainStart ==
  /\ drainer \in {"none", "drained", "timedout"}
  /\ life = "open"
  /\ draining' = TRUE
  /\ idle' = (idle \/ registered = {})
  /\ drainer' = IF idle \/ registered = {} THEN "woken" ELSE "waiting"
  /\ UNCHANGED <<reqVars, schedVars, taskVars, queueVars, life, closeWait>>

DrainReturn ==
  /\ drainer = "woken"
  /\ drainer' = "drained"
  /\ UNCHANGED <<reqVars, schedVars, taskVars, queueVars, draining, idle, life, closeWait>>

\* asyncio.wait_for() gives up after timeout_seconds; _draining stays set.
DrainTimeout ==
  /\ drainer = "waiting"
  /\ drainer' = "timedout"
  /\ UNCHANGED <<reqVars, schedVars, taskVars, queueVars, draining, idle, life, closeWait>>

Resume ==
  /\ draining
  /\ life = "open"
  /\ draining' = FALSE
  /\ UNCHANGED <<reqVars, schedVars, taskVars, queueVars, idle, drainer, life, closeWait>>

\* close() up to its await: every event is set, every live task cancelled.
CloseBegin ==
  /\ MayClose
  /\ life = "open"
  /\ life' = "closing"
  /\ draining' = TRUE
  /\ cancelSet' = cancelSet \cup registered
  /\ doomed' = Live
  /\ closeWait' = Live
  /\ UNCHANGED <<registered, future, caller, schedVars, dispatcher, spawned, waiters,
                 holding, ending, queueVars, idle, drainer>>

\* gather() returned: the dispatcher is cancelled, the registries are cleared.
CloseEnd ==
  /\ life = "closing"
  /\ closeWait \cap Live = {}
  /\ life' = "closed"
  /\ dispatcher' = "stopped"
  /\ future' = [r \in Requests |->
                  IF r \in registered /\ future[r] = "pending" THEN "cancelled"
                                                               ELSE future[r]]
  /\ registered' = {}
  /\ UNCHANGED <<cancelSet, caller, schedVars, spawned, doomed, waiters, holding,
                 ending, queueVars, draining, idle, drainer, closeWait>>

-----------------------------------------------------------------------------
TaskStep(r) == Complete(r) \/ ProduceChunk(r) \/ EndStream(r) \/ PutDone(r) \/ Fail(r)

CallerStep(r) == ResumeSubmit(r) \/ ReadStream(r)

Next ==
  \/ \E r \in Requests :
       \/ Admit(r) \/ Reject(r)
       \/ TaskStep(r) \/ HandleCancel(r)
       \/ CallerStep(r)
       \/ CancelRequest(r) \/ AbandonSubmit(r) \/ AbandonStream(r)
  \/ Dispatch \/ StartTask
  \/ DrainStart \/ DrainReturn \/ DrainTimeout \/ Resume
  \/ CloseBegin \/ CloseEnd

Spec == Init /\ [][Next]_vars

(***************************************************************************)
(* The event loop runs every ready callback; the adapters end because      *)
(* every call they make has a timeout; the HTTP layer reads its stream.    *)
(* Callers, cancellations, drain, resume and close come when they like.    *)
(***************************************************************************)
Fairness ==
  /\ WF_vars(Dispatch) /\ WF_vars(StartTask) /\ WF_vars(DrainReturn)
  /\ \A r \in Requests :
       WF_vars(TaskStep(r)) /\ WF_vars(HandleCancel(r)) /\ WF_vars(CallerStep(r))

FairSpec == Spec /\ Fairness

-----------------------------------------------------------------------------
\* "Reject new work and wait for the exact queued/active boundary": once a
\* drain has been released, and until resume() or close(), nothing is queued,
\* running or registered.
DrainBoundary ==
  (drainer \in {"woken", "drained"} /\ draining /\ life = "open")
    => registered = {} /\ Queued = {} /\ Live = {}

\* A stream carries one terminal item, behind all its chunks, and by the time
\* the consumer can read it the request is no longer registered: the cancel()
\* in stream()'s finally block never hits a request that ended by itself.
TerminalItemIsLast ==
  \A r \in Streaming : \A i \in DOMAIN queue[r] :
    queue[r][i] # "chunk" => i = Len(queue[r]) /\ r \notin registered

\* A stream that failed with its queue full: the failure item is lost.
FailureLost(r) == r \in Streaming /\ r \notin registered /\ produced[r] >= StreamCap

\* Every admitted caller gets its answer, whatever is cancelled, abandoned, drained or
\* closed around it.  A caller can wait for ever only if its own request was cancelled,
\* or its stream failed behind a full queue (_put_stream_failure()).
EveryCallerAnswered ==
  []<>(\A r \in Requests : caller[r] = "waiting" => r \in cancelSet \/ FailureLost(r))

=============================================================================
