----------------------------- MODULE Supervisor -----------------------------
(***************************************************************************)
(* The Team edition's process supervisor (apps/supervisor/runtime.py).  An *)
(* instance takes a machine-wide mutex, opens a job object whose closing   *)
(* kills every process assigned to it, starts the services in dependency   *)
(* order, each one suspended, assigned to the job, resumed and awaited,    *)
(* and then polls them.  A service that does not start, or that exits,     *)
(* makes it stop the whole graph in reverse order, charge the restart      *)
(* budget of that service, wait, and start the whole graph again.  When    *)
(* the budget is exhausted or the clean-up fails it leaves: the job is     *)
(* closed, then the mutex, and only then does the finally block stop what  *)
(* is left and reap the processes it could not terminate before.           *)
(*                                                                         *)
(* Faults: a child exits, a call to start it fails, its readiness times    *)
(* out, it cannot be terminated or its handle cannot be closed, the        *)
(* supervisor is interrupted, or it dies and Windows closes its handles in *)
(* an order of its own.                                                    *)
(***************************************************************************)
EXTENDS Integers, FiniteSets, Sequences

CONSTANTS
  Instances,        \* processes that run Supervisor.run for one deployment,
                    \* numbered in the order of their launch
  Services,         \* the services of the manifest
  Dependencies,     \* service -> the services it depends on
  NameRank,         \* service -> position of its name in the sort order
  Listening,        \* services whose readiness is tied to a listening port
  Caddy,            \* the service whose configuration is validated first
  MaximumRestarts, WindowSeconds, BackoffSeconds,  \* the restart policy
  MaxPid,           \* bound on processes at one time
  MaxFaults,        \* bound on faults of all kinds
  None

ASSUME PolicyAssumption ==
  /\ MaximumRestarts \in Nat \ {0} /\ WindowSeconds \in Nat \ {0}
  /\ BackoffSeconds \in Seq(Nat) /\ BackoffSeconds # << >>
ASSUME GraphAssumption ==
  /\ Instances \subseteq Nat /\ None \notin Instances /\ MaxPid \in Nat
  /\ IsFiniteSet(Services) /\ Services # {} /\ Listening \subseteq Services
  /\ Dependencies \in [Services -> SUBSET Services]
  /\ NameRank \in [Services -> 1 .. Cardinality(Services)]
  /\ \A s, t \in Services : NameRank[s] = NameRank[t] => s = t

VARIABLES
  pc,          \* instance -> where its run is
  mutex,       \* the instance that holds the named mutex, or None
  jobs,        \* the instances that hold a handle of the named job
  children,    \* pid -> the process, or Free
  processes,   \* instance -> service -> its pid in the map, or 0
  child,       \* instance -> the process being started, or 0
  retained,    \* instance -> processes it could not terminate or close
  failure,     \* instance -> the failed service and how it failed
  broken,      \* instance -> the current stop cascade met an error
  result,      \* instance -> how its run ended
  attempts,    \* service -> ages of the failures in the owner's budget
  wait,        \* seconds the owner still sleeps
  diagnostic,  \* the service named by the startup diagnostic, or None
  faults       \* faults so far

supervisorVars == <<pc, mutex, jobs, children, processes, child, retained, failure,
          broken, result, attempts, wait, diagnostic, faults>>
budget == <<attempts, wait>>
handles == <<mutex, jobs>>
outcome == <<failure, broken, result>>

Pids == 1 .. MaxPid
Free == [state |-> "free"]
Gone == {"idle", "done", "crashed"}

(* The loop of _ordered_services takes in every round the services that    *)
(* depend on none of those still pending, by name within a round.          *)
ReadyServices(pending) == {s \in pending : Dependencies[s] \cap pending = {}}
AreRounds(round) ==
  \A n \in 1 .. Cardinality(Services) :
    {s \in Services : round[s] = n} = ReadyServices({s \in Services : round[s] >= n})
Rounds == [Services -> 1 .. Cardinality(Services)]
Round == CHOOSE round \in Rounds : AreRounds(round)
Before(s, t) == \/ Round[s] < Round[t]
                \/ Round[s] = Round[t] /\ NameRank[s] < NameRank[t]
(* What the manifest's validation accepts: known, other services, and the  *)
(* rounds come to an end.                                                  *)
ValidDependencies ==
  /\ \A s \in Services : Dependencies[s] \subseteq Services \ {s}
  /\ \E round \in Rounds : AreRounds(round)
ASSUME DependenciesAssumption == ValidDependencies

Registered(i) == {s \in Services : processes[i][s] # 0}
(* The start loop fills the map in order and every cascade empties it, so  *)
(* the loop is at the first service that is not in the map.                *)
Current(i) ==
  LET left == Services \ Registered(i)
  IN CHOOSE s \in left : \A t \in left : t = s \/ Before(s, t)
Running(p) == children[p].state = "running"
Dead(p) == children[p].state = "dead"
Fault == faults < MaxFaults /\ faults' = faults + 1
-----------------------------------------------------------------------------
SupervisorInit ==
  /\ pc = [i \in Instances |-> "idle"]
  /\ mutex = None /\ jobs = {}
  /\ children = [p \in Pids |-> Free]
  /\ processes = [i \in Instances |-> [s \in Services |-> 0]]
  /\ child = [i \in Instances |-> 0]
  /\ retained = [i \in Instances |-> {}]
  /\ failure = [i \in Instances |-> [svc |-> None, startup |-> FALSE]]
  /\ broken = [i \in Instances |-> FALSE]
  /\ result = [i \in Instances |-> "none"]
  /\ attempts = [s \in Services |-> << >>] /\ wait = 0
  /\ diagnostic = None /\ faults = 0

Goto(i, label) == pc' = [pc EXCEPT ![i] = label]

(* The budgets are local to a run.                                         *)
NoBudget == /\ attempts' = [s \in Services |-> << >>]
            /\ wait' = 0

(* run() removes the diagnostic before it tries to take the mutex, so a    *)
(* refused second instance removes the diagnostic of the first.            *)
Launch(i) ==
  /\ pc[i] = "idle" /\ \A j \in Instances : j < i => pc[j] # "idle"
  /\ diagnostic' = None
  /\ \/ /\ mutex = None
        /\ mutex' = i /\ Goto(i, "opening")
        /\ NoBudget /\ UNCHANGED result
     \/ /\ mutex # None
        /\ Goto(i, "done") /\ result' = [result EXCEPT ![i] = "raised"]
        /\ UNCHANGED <<mutex, budget>>
  /\ UNCHANGED <<jobs, children, processes, child, retained, failure, broken,
                 faults>>

(* CreateJobObject opens a job of that name if there is one already.       *)
OpenJob(i) ==
  /\ pc[i] = "opening"
  /\ jobs' = jobs \cup {i} /\ Goto(i, "start")
  /\ UNCHANGED <<mutex, children, processes, child, retained, outcome, budget,
                 diagnostic, faults>>
JobFails(i) ==
  /\ pc[i] = "opening" /\ Fault
  /\ Goto(i, "closemutex") /\ result' = [result EXCEPT ![i] = "raised"]
  /\ UNCHANGED <<handles, children, processes, child, retained, failure,
                 broken, budget, diagnostic>>
-----------------------------------------------------------------------------
(* Starting one service: the environment file, the password and the logon, *)
(* then the process, suspended; for Caddy a validation process first.      *)
StartupFailed(i) ==
  /\ failure' = [failure EXCEPT ![i] = [svc |-> Current(i), startup |-> TRUE]]
  /\ broken' = [broken EXCEPT ![i] = FALSE]
  /\ diagnostic' = Current(i)
  /\ Goto(i, "cascade")

PrepareFails(i) ==
  /\ pc[i] \in {"start", "validated"} /\ Fault
  /\ StartupFailed(i)
  /\ UNCHANGED <<handles, children, processes, child, retained, result, budget>>

CreateSuspended(i) ==
  /\ pc[i] \in {"start", "validated"}
  /\ \E p \in Pids :
       /\ children[p] = Free
       /\ \A q \in Pids : q < p => children[q] # Free
       /\ child' = [child EXCEPT ![i] = p]
       /\ children' = [children EXCEPT ![p] =
            [state |-> "suspended", svc |-> Current(i), by |-> i, job |-> FALSE,
             serves |-> Current(i) # Caddy \/ pc[i] = "validated",
             bound |-> FALSE]]
  /\ Goto(i, "created")
  /\ UNCHANGED <<handles, processes, retained, outcome, budget, diagnostic,
                 faults>>

\* It begins to run, without a port.
Resumed(p) ==
  [children[p] EXCEPT !.state = "running", !.job = TRUE, !.bound = FALSE]
AssignAndResume(i) ==
  /\ pc[i] = "created"
  /\ children' = [children EXCEPT ![child[i]] = Resumed(child[i])]
  /\ Goto(i, "awaiting")
  /\ UNCHANGED <<handles, processes, child, retained, outcome, budget,
                 diagnostic, faults>>
AssignOrResumeFails(i) ==
  /\ pc[i] = "created" /\ Fault
  /\ \/ UNCHANGED children
     \/ children' = [children EXCEPT ![child[i]].job = TRUE]
  /\ Goto(i, "abort")
  /\ UNCHANGED <<handles, processes, child, retained, outcome, budget,
                 diagnostic>>

(* The validation process exits with code 0 and its handle is closed.      *)
ValidationPasses(i) ==
  /\ pc[i] = "awaiting" /\ ~children[child[i]].serves /\ Running(child[i])
  /\ children' = [children EXCEPT ![child[i]] = Free]
  /\ child' = [child EXCEPT ![i] = 0]
  /\ Goto(i, "validated")
  /\ UNCHANGED <<handles, processes, retained, outcome, budget, diagnostic,
                 faults>>

(* Some time after it was resumed a service binds its port, which Windows  *)
(* lets one process hold.  A process that an earlier start left behind     *)
(* does so too, if it had not come to it before.                           *)
HoldsPort(p, s) == Running(p) /\ children[p].svc = s /\ children[p].bound
Bind(p) ==
  /\ Running(p) /\ children[p].serves /\ children[p].svc \in Listening
  /\ \A q \in Pids : ~HoldsPort(q, children[p].svc)
  /\ children' = [children EXCEPT ![p].bound = TRUE]
  /\ UNCHANGED <<pc, handles, processes, child, retained, outcome, budget,
                 diagnostic, faults>>

(* A child is ready when it is alive and, if it listens, when the listener *)
(* belongs to this very process.                                           *)
AnyListener(p) == \E q \in Pids : HoldsPort(q, children[p].svc)
OwnsListener(p) == HoldsPort(p, children[p].svc)
PassesReadiness(p) ==
  Running(p) /\ (children[p].svc \in Listening => OwnsListener(p))
Ready(i) ==
  /\ pc[i] = "awaiting" /\ children[child[i]].serves
  /\ PassesReadiness(child[i])
  /\ processes' = [processes EXCEPT ![i][Current(i)] = child[i]]
  /\ child' = [child EXCEPT ![i] = 0]
  /\ IF Services \ Registered(i) = {Current(i)}
       THEN Goto(i, "monitor") /\ diagnostic' = None
       ELSE Goto(i, "start") /\ UNCHANGED diagnostic
  /\ UNCHANGED <<handles, children, retained, outcome, budget, faults>>
(* It exited, another process holds its port until the deadline, or it is  *)
(* too slow; a validation exited with another code or took longer than 30  *)
(* seconds.                                                                *)
PortTaken(p) ==
  /\ children[p].serves /\ children[p].svc \in Listening
  /\ \E q \in Pids \ {p} : HoldsPort(q, children[p].svc)
NotReady(i) ==
  /\ pc[i] = "awaiting"
  /\ \/ Dead(child[i]) /\ UNCHANGED faults
     \/ PortTaken(child[i]) /\ UNCHANGED faults
     \/ Fault
  /\ Goto(i, "abort")
  /\ UNCHANGED <<handles, children, processes, child, retained, outcome,
                 budget, diagnostic>>
-----------------------------------------------------------------------------
(* _terminate_and_close: up to three attempts to see the process exited or *)
(* to terminate it, then its handles are closed.  It may fail with the     *)
(* process alive, or dead with a handle left.                              *)
TerminateAndClose(p) ==
  children' = [children EXCEPT ![p] = Free] /\ UNCHANGED faults
CannotTerminate(p) ==
  /\ Fault
  /\ \/ UNCHANGED children
     \/ children' = [children EXCEPT ![p].state = "dead"]
Retain(i, p) == retained' = [retained EXCEPT ![i] = @ \cup {p}]

(* _start cleans up after itself; a process it cannot clean up is retained *)
(* and run() goes on as after any other startup failure.                   *)
AbortStart(i) ==
  /\ pc[i] = "abort"
  /\ \/ TerminateAndClose(child[i]) /\ UNCHANGED retained
     \/ CannotTerminate(child[i]) /\ Retain(i, child[i])
  /\ child' = [child EXCEPT ![i] = 0]
  /\ StartupFailed(i)
  /\ UNCHANGED <<handles, processes, result, budget>>

(* _stop_cascade takes the services in reverse order.                      *)
StopForwards(i) ==
  CHOOSE s \in Registered(i) : \A t \in Registered(i) : t = s \/ Before(s, t)
NextToStop(i) ==
  CHOOSE s \in Registered(i) : \A t \in Registered(i) : t = s \/ Before(t, s)
CascadeStop(i) ==
  /\ pc[i] \in {"cascade", "final"} /\ Registered(i) # {}
  /\ LET s == NextToStop(i)
         p == processes[i][s]
     IN /\ processes' = [processes EXCEPT ![i][s] = 0]
        /\ \/ TerminateAndClose(p) /\ UNCHANGED <<retained, broken>>
           \/ /\ CannotTerminate(p) /\ Retain(i, p)
              /\ broken' = [broken EXCEPT ![i] = TRUE]
  /\ UNCHANGED <<pc, handles, child, failure, result, budget, diagnostic>>

(* RestartBudget.record_failure.  Ages stop at the window's length.        *)
Recent(ages) == SelectSeq(ages, LAMBDA age : age < WindowSeconds)
Allowed(recent) == Len(recent) < MaximumRestarts
Delay(recent) ==
  BackoffSeconds[IF Len(recent) <= Len(BackoffSeconds) THEN Len(recent)
                 ELSE Len(BackoffSeconds)]

CascadeEnd(i) ==
  /\ pc[i] = "cascade" /\ Registered(i) = {}
  /\ LET s == failure[i].svc
         recent == Recent(attempts[s])
     IN \/ /\ broken[i] /\ UNCHANGED budget
           /\ Goto(i, "closejob") /\ result' = [result EXCEPT ![i] = "raised"]
        \/ /\ ~broken[i] /\ ~Allowed(recent)
           /\ attempts' = [attempts EXCEPT ![s] = recent]
           /\ UNCHANGED wait
           /\ Goto(i, "closejob")
           /\ result' = [result EXCEPT ![i] =
                IF failure[i].startup THEN "raised" ELSE "code"]
        \/ /\ ~broken[i] /\ Allowed(recent)
           /\ attempts' = [attempts EXCEPT ![s] = Append(recent, 0)]
           /\ wait' = Delay(Append(recent, 0))
           /\ Goto(i, "sleep") /\ UNCHANGED result
  /\ UNCHANGED <<handles, children, processes, child, retained, failure,
                 broken, diagnostic, faults>>

Wake(i) ==
  /\ pc[i] = "sleep" /\ wait = 0
  /\ failure' = [failure EXCEPT ![i].svc = None]
  /\ Goto(i, "start")
  /\ UNCHANGED <<handles, children, processes, child, retained, broken, result,
                 attempts, wait, diagnostic, faults>>
-----------------------------------------------------------------------------
(* The monitor polls the services in order; those it has passed may exit   *)
(* before it reaches the one it reports.                                   *)
PolledListeners == Listening
Polled == Services
DetectExit(i) ==
  /\ pc[i] = "monitor"
  /\ \E s \in Polled :
       /\ Dead(processes[i][s])
       /\ failure' = [failure EXCEPT ![i] = [svc |-> s, startup |-> FALSE]]
  /\ broken' = [broken EXCEPT ![i] = FALSE]
  /\ Goto(i, "cascade")
  /\ UNCHANGED <<handles, children, processes, child, retained, result, budget,
                 diagnostic, faults>>

(* An interrupt, or a poll that raises.                                    *)
Interrupt(i) ==
  /\ pc[i] \in {"monitor", "sleep"} /\ Fault
  /\ Goto(i, "closejob") /\ result' = [result EXCEPT ![i] = "raised"]
  /\ UNCHANGED <<handles, children, processes, child, retained, failure,
                 broken, budget, diagnostic>>

(* Closing the last handle of the job kills the processes assigned to it.  *)
(* A process nobody has a handle of is gone at once.                       *)
Killed(c) == IF pc[c.by] \in Gone THEN Free ELSE [c EXCEPT !.state = "dead"]
CloseJobHandle(i) ==
  /\ jobs' = jobs \ {i}
  /\ children' = [p \in Pids |->
       IF /\ jobs = {i} /\ children[p] # Free
          /\ children[p].job /\ ~Dead(p)
       THEN Killed(children[p]) ELSE children[p]]

(* The with block leaves the job first and the mutex after it.             *)
LeaveMutexFirst(i) ==
  /\ pc[i] = "closejob" /\ mutex' = None /\ Goto(i, "closemutex")
  /\ NoBudget
  /\ UNCHANGED <<jobs, children, processes, child, retained, outcome,
                 diagnostic, faults>>
LeaveJob(i) ==
  /\ pc[i] = "closejob" /\ CloseJobHandle(i) /\ Goto(i, "closemutex")
  /\ NoBudget
  /\ UNCHANGED <<mutex, processes, child, retained, outcome, diagnostic, faults>>
LeaveMutex(i) ==
  /\ pc[i] = "closemutex" /\ mutex' = None /\ Goto(i, "final")
  /\ broken' = [broken EXCEPT ![i] = FALSE]
  /\ UNCHANGED <<jobs, children, processes, child, retained, failure, result,
                 budget, diagnostic, faults>>

(* The finally block: CascadeStop, then every retained process once more.  *)
FinalEnd(i) ==
  /\ pc[i] = "final" /\ Registered(i) = {}
  /\ Goto(i, "reap")
  /\ result' = [result EXCEPT ![i] = IF broken[i] THEN "raised" ELSE @]
  /\ UNCHANGED <<handles, children, processes, child, retained, failure,
                 broken, budget, diagnostic, faults>>
ReapRetained(i) ==
  /\ pc[i] = "reap"
  /\ \/ /\ retained[i] = {}
        /\ Goto(i, "done")
        /\ UNCHANGED <<children, retained, result, faults>>
     \/ \E p \in retained[i] :
          /\ TerminateAndClose(p)
          /\ retained' = [retained EXCEPT ![i] = @ \ {p}]
          /\ UNCHANGED <<pc, result>>
     \/ \E p \in retained[i] :
          /\ CannotTerminate(p)
          /\ retained' = [retained EXCEPT ![i] = @ \ {p}]
          /\ result' = [result EXCEPT ![i] = "raised"]
          /\ UNCHANGED pc
  /\ UNCHANGED <<handles, processes, child, failure, broken, budget,
                 diagnostic>>
-----------------------------------------------------------------------------
ChildExits(p) ==
  /\ Running(p) /\ Fault
  /\ children' = [children EXCEPT ![p] = Killed(@)]
  /\ UNCHANGED <<pc, handles, processes, child, retained, outcome, budget,
                 diagnostic>>

(* The supervisor process dies: what it knew is lost and Windows closes    *)
(* its handles in an order of its own.                                     *)
SupervisorDies(i) ==
  /\ pc[i] \notin Gone /\ Fault
  /\ Goto(i, "crashed")
  /\ children' = [p \in Pids |->
       IF children[p] # Free /\ Dead(p) /\ children[p].by = i
       THEN Free ELSE children[p]]
  /\ processes' = [processes EXCEPT ![i] = [s \in Services |-> 0]]
  /\ child' = [child EXCEPT ![i] = 0]
  /\ retained' = [retained EXCEPT ![i] = {}]
  /\ failure' = [failure EXCEPT ![i] = [svc |-> None, startup |-> FALSE]]
  /\ broken' = [broken EXCEPT ![i] = FALSE]
  /\ IF mutex = i THEN NoBudget ELSE UNCHANGED budget
  /\ UNCHANGED <<handles, result, diagnostic>>
HandleCloses(i) ==
  /\ pc[i] = "crashed"
  /\ \/ mutex = i /\ mutex' = None /\ UNCHANGED <<jobs, children>>
     \/ i \in jobs /\ CloseJobHandle(i) /\ UNCHANGED mutex
  /\ UNCHANGED <<pc, processes, child, retained, outcome, budget, diagnostic,
                 faults>>

Older(age) == IF age < WindowSeconds THEN age + 1 ELSE age
Aged(ages) == [k \in DOMAIN ages |-> Older(ages[k])]
Tick ==
  /\ attempts' = [s \in Services |-> Aged(attempts[s])]
  /\ wait' = IF wait = 0 THEN 0 ELSE wait - 1
  /\ UNCHANGED <<pc, handles, children, processes, child, retained, outcome,
                 diagnostic, faults>>

Step(i) ==
  \/ OpenJob(i) \/ CreateSuspended(i) \/ AssignAndResume(i)
  \/ ValidationPasses(i) \/ Ready(i) \/ NotReady(i) \/ AbortStart(i)
  \/ CascadeStop(i) \/ CascadeEnd(i) \/ Wake(i) \/ DetectExit(i)
  \/ LeaveJob(i) \/ LeaveMutex(i) \/ FinalEnd(i) \/ ReapRetained(i)
  \/ HandleCloses(i)
SupervisorNext ==
  \/ \E i \in Instances :
       \/ Launch(i) \/ Step(i)
       \/ JobFails(i) \/ PrepareFails(i) \/ AssignOrResumeFails(i)
       \/ Interrupt(i) \/ SupervisorDies(i)
  \/ \E p \in Pids : Bind(p) \/ ChildExits(p)
  \/ Tick

(* The supervisor is one thread that runs on; time passes; Windows closes  *)
(* the handles of a process that has ended; a service comes to bind its    *)
(* port if it is free (one that does not is too slow, a fault).            *)
SupervisorFairness ==
  /\ WF_supervisorVars(Tick)
  /\ \A i \in Instances : WF_supervisorVars(Step(i))
  /\ \A p \in Pids : WF_supervisorVars(Bind(p))
SupervisorSpec == SupervisorInit /\ [][SupervisorNext]_supervisorVars /\ SupervisorFairness
-----------------------------------------------------------------------------
(* A service is in the process map only while every service it depends on  *)
(* is: it is started after they have been found ready, and when the graph  *)
(* is stopped, whichever service failed and wherever a termination failed, *)
(* they are stopped after it (_ordered_services, _stop_cascade).           *)
DependencyOrder ==
  \A i \in Instances :
    /\ \A s \in Registered(i) : Dependencies[s] \subseteq Registered(i)
    /\ child[i] # 0 =>
         Dependencies[children[child[i]].svc] \subseteq Registered(i)

(* While the process that the map has for a listening service runs, the    *)
(* port is its own: no process that an earlier start or a crashed          *)
(* supervisor left behind answers in its place, not even one that binds    *)
(* late (listener_owner_checker in _check_readiness).  And unless a        *)
(* supervisor has crashed, whoever holds a port is known to the one that   *)
(* started it: it is in the map, being started, or retained to be reaped   *)
(* (_start, _retained_processes, _stop_cascade).                           *)
Known(i, p) ==
  \/ p = child[i] \/ p \in retained[i]
  \/ \E s \in Services : processes[i][s] = p
ListenerIsOwned ==
  /\ \A i \in Instances, s \in Listening, p \in Pids :
       (processes[i][s] # 0 /\ Running(processes[i][s])) =>
          (HoldsPort(p, s) <=> p = processes[i][s])
  /\ (\A j \in Instances : pc[j] # "crashed") =>
       \A p \in Pids, s \in Listening :
         HoldsPort(p, s) => Known(children[p].by, p)

(* No process of a service runs outside the reign of its supervisor: it    *)
(* runs only while some handle of the job is open, and unless a supervisor *)
(* has crashed only while the one that started it holds the mutex, so the  *)
(* next supervisor finds none (SingleInstance, JobObject, the order of the *)
(* with block).                                                            *)
ChildrenWithinReign ==
  \A p \in Pids :
    Running(p) =>
      /\ jobs # {}
      /\ (\A j \in Instances : pc[j] # "crashed") => mutex = children[p].by

(* Once the faults stop, every launched supervisor ends up watching a      *)
(* complete graph of running services, or it has left: no failure goes     *)
(* unnoticed and no wait is for ever (run).  The exception is a process    *)
(* that runs with no entry in any map: one a start could not terminate, or *)
(* one of a crashed supervisor in a job that was opened again before its   *)
(* last handle was closed.  It may hold the port of its service for ever,  *)
(* and attempts spread wider than the window never exhaust the budget.     *)
AllUp(i) ==
  pc[i] = "monitor" /\ \A s \in Services : Running(processes[i][s])
Stray(p) ==
  /\ Running(p)
  /\ \A i \in Instances : /\ child[i] # p
                         /\ \A s \in Services : processes[i][s] # p
UpOrOut ==
  []<>(\/ \A i \in Instances : pc[i] \in Gone \/ AllUp(i)
       \/ \E p \in Pids : Stray(p))
=============================================================================
