---------------------------- MODULE Configuration ----------------------------
(***************************************************************************)
(* Changing the runtime configuration of the Personal edition.             *)
(*                                                                         *)
(* An administrator previews a configuration, proves the password again    *)
(* for exactly that impact and applies it.  The API writes a change row    *)
(* and sends a command to the local controller (5 s timeout); the          *)
(* controller claims the row back through the API, drains the services it  *)
(* affects, replaces their environment in runtime-overrides.json, restarts *)
(* and validates them, and reports the result; any failure on the way      *)
(* makes it put the prior values back.  Requests and replies between API   *)
(* and controller can be lost, and the runtime (API, controller, services  *)
(* are one process tree) can stop at any moment: the database rows and the *)
(* overrides document survive, everything else does not.                   *)
(*                                                                         *)
(* A configuration is the environment it gives each service.  The impact   *)
(* digest is a hash of base revision and configuration and is modelled as  *)
(* that pair; nonces and grant tokens are modelled by the row they open.   *)
(***************************************************************************)
EXTENDS Naturals, Sequences, FiniteSets, Functions

CONSTANTS AdminSessions,  \* sessions of administrators
          ServiceOrder,   \* the mutable services in the order of their names
          Configs,        \* configurations: Services -> environment
          Baseline,       \* the configuration of the first revision
          Profiles,       \* profiles of the release
          Startable,      \* those v8_admin_start_system_operation names
          OcrOf,          \* the OCR profile of each configuration
          MaxChanges,     \* bound on configuration changes
          MaxPreviews,    \* bound on previews
          MaxGrants,      \* bound on reauthentication grants
          MaxOperations,  \* bound on profile operations
          MaxFaults,      \* bound on failed steps and lost messages
          MaxCrashes      \* bound on stops of the runtime

Services == Range(ServiceOrder)

\* The generation and the reranking profile are fixed by check constraints
\* (ck_runtime_generation_profile, ck_runtime_reranker_profile), so that two
\* configurations differ in the environment of the OCR service only.
ASSUME ConfigurationAssumption ==
    /\ Configs \subseteq [Services -> UNION {Range(c) : c \in Configs}]
    /\ \A c, d \in Configs, s \in Services : c[s] # d[s] => s = "ocr"
    /\ Baseline \in Configs
    /\ OcrOf \in [Configs -> Profiles]
    /\ Startable \subseteq Profiles

VARIABLES
    revisions,   \* runtime_configuration_revisions: their configurations
    effective,   \* the revisions whose effective flag is set
    previews,    \* runtime_configuration_previews
    grants,      \* system_reauthentication_grants
    changes,     \* runtime_configuration_changes
    operations,  \* system_operations
    evidence,    \* system_profile_evidence
    live,        \* the sessions v4_require_admin accepts
    calls,       \* per session, the apply request the API is serving
    jobs,        \* operations the API is running: "queued" or "executing"
    wire,        \* commands on their way to the controller
    ctl,         \* the controller's operation thread, or IdleThread
    overrides,   \* runtime-overrides.json, per service
    running,     \* the environment each child runs with, or Down
    draining,    \* services that refuse new work
    up,          \* the process tree runs
    faults, crashes,
    abandoned    \* history: changes and operations whose attendant was lost

configurationVars == <<revisions, effective, previews, grants, changes, operations,
          evidence, live, calls, jobs, wire, ctl, overrides, running,
          draining, up, faults, crashes, abandoned>>

rows    == <<revisions, effective, previews, grants, changes>>
profile == <<operations, evidence, jobs>>
runtime == <<overrides, running, draining>>
meta    == <<faults, crashes, abandoned>>

Down == "down"
IdleThread == [at |-> "idle"]
NoCall == [at |-> "none"]
Active == {"pending", "applying"}

\* v13_admin_effective_runtime_configuration, and whether the state that
\* v9_admin_runtime_configuration shows is other than effective.
Effective == CHOOSE r \in effective : TRUE
ActiveChange == \E i \in DOMAIN changes : changes[i].state \in Active

\* The session is activated and v4_require_admin accepts it.
Admitted(s) == up /\ s \in live
Fault == faults < MaxFaults /\ faults' = faults + 1

ConfigurationInit ==
    /\ revisions = <<Baseline>> /\ effective = {1}
    /\ previews = <<>> /\ grants = <<>> /\ changes = <<>>
    /\ operations = <<>> /\ evidence = [p \in Profiles |-> "none"]
    /\ live = AdminSessions /\ calls = [s \in AdminSessions |-> NoCall]
    /\ jobs = <<>> /\ wire = {} /\ ctl = IdleThread
    /\ overrides = Baseline /\ running = Baseline /\ draining = {}
    /\ up = TRUE /\ faults = 0 /\ crashes = 0 /\ abandoned = {}

-----------------------------------------------------------------------------
(* The administrator.                                                      *)

\* SystemService.preview_configuration: an OCR profile other than the
\* effective one must have passed its validation on this computer.  (The
\* generation and reranking profiles are fixed by the schema; in auto mode the
\* service picks the profile by the same rule.)
Selectable(config) ==
    \/ OcrOf[config] = OcrOf[revisions[Effective]]
    \/ evidence[OcrOf[config]] = "locally_validated"

\* v9_admin_preview_runtime_configuration: the selection must differ from the
\* effective revision, its base.
NewPreview(s, config) ==
    [session |-> s, base |-> Effective, config |-> config,
     consumed |-> FALSE, fresh |-> TRUE]

PreviewConfiguration(s, config) ==
    /\ Admitted(s) /\ Len(previews) < MaxPreviews
    /\ Selectable(config) /\ config # revisions[Effective]
    /\ previews' = Append(previews, NewPreview(s, config))
    /\ UNCHANGED <<revisions, effective, grants, changes, live, calls, wire,
                   ctl, up>>
    /\ UNCHANGED <<profile, runtime, meta>>

\* The preview a grant is asked for: of this session, unused and unexpired.
OpenPreview(s, p) ==
    /\ p \in DOMAIN previews
    /\ previews[p].session = s /\ previews[p].fresh /\ ~previews[p].consumed

\* v9_admin_issue_reauthentication_grant: for the preview's digest.
NewGrant(s, p) ==
    [session |-> s, base |-> previews[p].base, config |-> previews[p].config,
     consumed |-> FALSE, fresh |-> TRUE]

\* The password is verified, then the grant is issued.
Reauthenticate(s, p) ==
    /\ Admitted(s) /\ Len(grants) < MaxGrants /\ OpenPreview(s, p)
    /\ grants' = Append(grants, NewGrant(s, p))
    /\ UNCHANGED <<revisions, effective, previews, changes, live, calls, wire,
                   ctl, up>>
    /\ UNCHANGED <<profile, runtime, meta>>

\* Five minutes pass: what the session previewed and proved has expired.
Lapsed(s, table) ==
    [i \in DOMAIN table |->
       [table[i] EXCEPT !.fresh = table[i].fresh /\ table[i].session # s]]

Expire(s) ==
    /\ \E p \in DOMAIN previews : OpenPreview(s, p)
    /\ previews' = Lapsed(s, previews) /\ grants' = Lapsed(s, grants)
    /\ UNCHANGED <<revisions, effective, changes, live, calls, wire, ctl, up>>
    /\ UNCHANGED <<profile, runtime, meta>>

\* The session ends: logout, expiry, or the account is disabled.
EndSession(s) ==
    /\ s \in live /\ live' = live \ {s}
    /\ UNCHANGED <<rows, profile, calls, wire, ctl, runtime, up, meta>>

\* Mutant: the preview's base is not compared with the effective revision.
PreviewNotStale(s, p) == OpenPreview(s, p)

\* The preview's conditions of v9_admin_apply_runtime_configuration.
PreviewHolds(s, p) == OpenPreview(s, p) /\ previews[p].base = Effective

\* Its conditions on the grant: this session's, for this digest, unused.
GrantHolds(s, p, g) ==
    /\ g \in DOMAIN grants
    /\ grants[g].session = s /\ grants[g].fresh /\ ~grants[g].consumed
    /\ grants[g].base = previews[p].base
    /\ grants[g].config = previews[p].config

\* uq_runtime_configuration_change_active: one pending or applying change.
NoActiveChange == ~ActiveChange

\* The statements of v9_admin_apply_runtime_configuration that write.
RecordChange(s, p, g) ==
    /\ revisions' = Append(revisions, previews[p].config)
    /\ changes' = Append(changes,
         [session |-> s, preview |-> p, prior |-> Effective,
          desired |-> Len(revisions) + 1, state |-> "pending",
          stage |-> "queued", reason |-> "none", nonce |-> Len(changes) + 1])
    /\ previews' = [previews EXCEPT ![p].consumed = TRUE]
    /\ grants' = [grants EXCEPT ![g].consumed = TRUE]

\* SystemService.apply_configuration up to the commit: the request now waits
\* for the controller to take the command.
ApplyConfiguration(s, p, g) ==
    /\ Admitted(s) /\ calls[s] = NoCall /\ Len(changes) < MaxChanges
    /\ PreviewHolds(s, p) /\ GrantHolds(s, p, g) /\ NoActiveChange
    /\ RecordChange(s, p, g)
    /\ calls' = [calls EXCEPT ![s] = [at |-> "waiting",
                                      change |-> Len(changes) + 1]]
    /\ wire' = wire \cup {Len(changes) + 1}
    /\ UNCHANGED <<effective, live, ctl, up>>
    /\ UNCHANGED <<profile, runtime, meta>>

-----------------------------------------------------------------------------
(* The command between API and controller.                                 *)

\* Mutant: 409 from a busy controller is taken for an answer.
AnswerBusy(c, at) ==
    calls' = [s \in AdminSessions |->
                IF calls[s] = [at |-> "waiting", change |-> c] THEN NoCall
                ELSE calls[s]]

\* The request that waits for the answer to the command of change c.
Answer(c, at) ==
    calls' = [s \in AdminSessions |->
                IF calls[s] = [at |-> "waiting", change |-> c]
                THEN IF at = "none" THEN NoCall
                     ELSE [at |-> at, change |-> c]
                ELSE calls[s]]

\* ControllerServer._handle: without waiting, one operation at a time.  202
\* ends the API's request; 409 is ControllerUnavailable to it.
HandleCommand(c) ==
    /\ up /\ c \in wire /\ wire' = wire \ {c}
    /\ IF ctl = IdleThread
       THEN ctl' = [at |-> "claim", change |-> c] /\ Answer(c, "none")
       ELSE UNCHANGED ctl /\ Answer(c, "failing")
    /\ UNCHANGED <<rows, profile, runtime, live, up, meta>>

\* The command is lost, or answered too late (the handler may still get it):
\* after 5 s the client raises ControllerUnavailable.
CommandTimesOut(s) ==
    /\ calls[s].at = "waiting" /\ Fault
    /\ \E kept \in {wire, wire \ {calls[s].change}} : wire' = kept
    /\ calls' = [calls EXCEPT ![s].at = "failing"]
    /\ UNCHANGED <<rows, profile, runtime, live, ctl, up, crashes, abandoned>>

\* v9_admin_fail_runtime_configuration_delivery: only the row that is still
\* pending is failed.
FailPending(c) ==
    changes' = [changes EXCEPT ![c].state = "failed", ![c].stage = "failed",
                  ![c].reason = "controller_unavailable", ![c].nonce = 0]

\* fail_configuration_delivery.  A session that has ended meanwhile may not
\* fail its own change: the row stays pending.
FailDelivery(s) ==
    /\ up /\ calls[s].at = "failing"
    /\ LET c == calls[s].change IN
         IF s \in live /\ changes[c].state = "pending"
         THEN FailPending(c) /\ UNCHANGED abandoned
         ELSE /\ UNCHANGED changes
              /\ abandoned' = IF s \in live THEN abandoned
                              ELSE abandoned \cup {<<"change", c>>}
    /\ calls' = [calls EXCEPT ![s] = NoCall]
    /\ UNCHANGED <<revisions, effective, previews, grants, profile, runtime,
                   live, wire, ctl, up, faults, crashes>>

-----------------------------------------------------------------------------
(* The controller's thread: PersonalRuntime.apply around                    *)
(* ConfigurationController.apply.  "at" is the stage it works on, "left"   *)
(* the affected services it has still to go through, "next" the position   *)
(* of the next call for the first of them, and "report" is TRUE while the  *)
(* stage has still to be reported.                                         *)

\* The services whose environment differs.
Affected(c) ==
    {s \in Services : revisions[changes[c].desired][s]
                        # revisions[changes[c].prior][s]}

\* Mutant: the rollback restarts without putting the values back.
RestoresNothing == <<"restart", "validate">>

\* The rollback brings one service after the other back.
Restores == <<"replace", "restart", "validate">>

\* The calls on the runtime that a stage makes for each affected service.
Calls ==
    [draining |-> <<"drain">>, applying |-> <<"replace">>,
     restarting |-> <<"restart">>, validating |-> <<"validate">>,
     rolling_back |-> Restores]

\* A stage goes through the services in the order of their names.
IsFirst(s, left) ==
    \E k \in DOMAIN ServiceOrder :
      /\ ServiceOrder[k] = s /\ s \in left
      /\ \A j \in DOMAIN ServiceOrder : j < k => ServiceOrder[j] \notin left

Following ==
    [draining |-> "applying", applying |-> "restarting",
     restarting |-> "validating", validating |-> "effective",
     rolling_back |-> "rolled_back"]

\* An exception: inside the try block it starts the rollback; in the rollback
\* or after the block it reaches PersonalRuntime.apply, which reports failed.
Caught == {"draining", "applying", "restarting", "validating"}
Enter(stage, c) ==
    [at |-> stage, change |-> c, report |-> TRUE, next |-> 1,
     left |-> IF stage \in DOMAIN Calls THEN Affected(c) ELSE {}]
Raised == Enter(IF ctl.at \in Caught THEN "rolling_back" ELSE "failed",
                ctl.change)

\* v9_controller_runtime_configuration_change: pending becomes applying.
ClaimRow(c) ==
    changes' = [changes EXCEPT ![c].state = "applying",
                               ![c].stage = "preflight"]

\* ControllerApi.claim.  It stands before the try statement: a refused claim,
\* a request that fails and a reply that is lost all end the thread.
Claim ==
    /\ up /\ ctl.at = "claim"
    /\ LET c == ctl.change IN
         \/ /\ changes[c].state = "pending" /\ changes[c].nonce = c
            /\ ClaimRow(c) /\ ctl' = [at |-> "preflight", change |-> c]
            /\ UNCHANGED <<faults, abandoned>>
         \/ /\ changes[c].state # "pending" \/ changes[c].nonce # c
            /\ ctl' = IdleThread /\ UNCHANGED <<changes, faults, abandoned>>
         \/ /\ Fault /\ ctl' = IdleThread
            /\ changes[c].state = "pending"
            /\ ClaimRow(c) \/ UNCHANGED changes
            /\ abandoned' = abandoned \cup {<<"change", c>>}
    /\ UNCHANGED <<revisions, effective, previews, grants, profile, runtime,
                   live, calls, wire, up, crashes>>

\* SignedProfileResolver.resolve of both configurations, before the try
\* block: a profile the release no longer has, or no affected service, is
\* reported as failed.
Preflight ==
    /\ up /\ ctl.at = "preflight"
    /\ \/ Affected(ctl.change) # {} /\ ctl' = Enter("draining", ctl.change)
          /\ UNCHANGED faults
       \/ (Affected(ctl.change) = {} \/ faults < MaxFaults)
          /\ ctl' = Enter("failed", ctl.change)
          /\ faults' = IF faults < MaxFaults THEN faults + 1 ELSE faults
    /\ UNCHANGED <<rows, profile, runtime, live, calls, wire, up, crashes,
                   abandoned>>

Target(s) ==
    revisions[IF ctl.at = "rolling_back" THEN changes[ctl.change].prior
              ELSE changes[ctl.change].desired][s]

\* The four calls of ControllerRuntime, each with the states an exception in
\* it can leave.  restart stops the child first, so one that does not become
\* ready again is gone, and no longer among the children the monitor polls.
Drain(s) == draining' = draining \cup {s} /\ UNCHANGED <<overrides, running>>

ReplaceEnvironment(s) ==
    /\ overrides' = [overrides EXCEPT ![s] = Target(s)]
    /\ UNCHANGED <<running, draining>>

Restart(s) ==
    /\ running' = [running EXCEPT ![s] = overrides[s]]
    /\ draining' = draining \ {s} /\ UNCHANGED overrides

RestartFails(s) ==
    /\ running' = [running EXCEPT ![s] = Down]
    /\ draining' = draining \ {s} /\ UNCHANGED overrides

Validate == UNCHANGED runtime

Perform(op, s) ==
    \/ op = "drain" /\ Drain(s)
    \/ op = "replace" /\ ReplaceEnvironment(s)
    \/ op = "restart" /\ Restart(s)
    \/ op = "validate" /\ Validate

PerformFails(op, s) ==
    \/ op = "drain" /\ (Drain(s) \/ UNCHANGED runtime)
    \/ op = "restart" /\ RestartFails(s)
    \/ op \in {"replace", "validate"} /\ UNCHANGED runtime

\* After a call: the next one for this service, or the first for the next
\* service, or the stage that follows.
AfterCall(s) ==
    IF ctl.next < Len(Calls[ctl.at]) THEN [ctl EXCEPT !.next = ctl.next + 1]
    ELSE IF ctl.left # {s}
         THEN [ctl EXCEPT !.next = 1, !.left = ctl.left \ {s}]
         ELSE Enter(Following[ctl.at], ctl.change)

\* One call on the runtime.
Step ==
    /\ up /\ ctl.at \in DOMAIN Calls /\ ~ctl.report
    /\ \E s \in Services :
         /\ IsFirst(s, ctl.left)
         /\ \/ /\ Perform(Calls[ctl.at][ctl.next], s)
               /\ ctl' = AfterCall(s)
               /\ UNCHANGED faults
            \/ /\ Fault /\ PerformFails(Calls[ctl.at][ctl.next], s)
               /\ ctl' = Raised
    /\ UNCHANGED <<rows, profile, live, calls, wire, up, crashes, abandoned>>

\* v9_controller_advance_runtime_configuration.
AdvanceRow(c, stage) ==
    /\ changes' = [changes EXCEPT ![c].stage = stage]
    /\ UNCHANGED effective

\* v9_controller_finish_runtime_configuration: an effective result moves the
\* flag from the prior to the desired revision.
FinishRow(c, result) ==
    /\ changes' = [changes EXCEPT ![c].state = result, ![c].stage = result,
                     ![c].reason = "reported", ![c].nonce = 0]
    /\ effective' = IF result = "effective"
                    THEN (effective \ {changes[c].prior})
                           \cup {changes[c].desired}
                    ELSE effective

Terminal == {"effective", "failed", "rolled_back"}

Report(c, stage) ==
    /\ changes[c].state = "applying" /\ changes[c].nonce = c
    /\ IF stage \in Terminal THEN FinishRow(c, stage) ELSE AdvanceRow(c, stage)

\* _Reporter.stage: the API applies the report, or the request does not reach
\* it, or it does and the reply is lost, which the thread cannot tell apart.
\* The exception of the last report of all is swallowed.
ReportStage ==
    /\ up /\ ctl.at \in DOMAIN Calls \cup Terminal /\ ctl.report
    /\ LET c == ctl.change IN
         \/ /\ Report(c, ctl.at)
            /\ ctl' = IF ctl.at \in Terminal THEN IdleThread
                      ELSE [ctl EXCEPT !.report = FALSE]
            /\ UNCHANGED <<faults, abandoned>>
         \/ /\ Fault
            /\ Report(c, ctl.at) \/ UNCHANGED <<changes, effective>>
            /\ ctl' = IF ctl.at = "failed" THEN IdleThread ELSE Raised
            /\ abandoned' = IF ctl.at = "failed"
                            THEN abandoned \cup {<<"change", c>>}
                            ELSE abandoned
         \/ /\ changes[c].state # "applying"
            /\ ctl' = IF ctl.at = "failed" THEN IdleThread ELSE Raised
            /\ UNCHANGED <<changes, effective, faults, abandoned>>
    /\ UNCHANGED <<revisions, previews, grants, profile, runtime, live, calls,
                   wire, up, crashes>>

-----------------------------------------------------------------------------
(* Validating or benchmarking a profile from the System page.              *)

IsOcr(p) == p \in Range(OcrOf)

\* run_profile_operation before it starts: only the OCR profile can be
\* benchmarked, and it must be the effective one with no change active.
MayRun(p, kind) ==
    /\ kind = "profile_benchmark" => IsOcr(p)
    /\ IsOcr(p) => ~ActiveChange /\ OcrOf[revisions[Effective]] = p

\* v8_admin_start_system_operation: one running operation per profile.
Insertable(p) ==
    /\ p \in Startable
    /\ \A i \in DOMAIN operations :
         operations[i].profile = p => operations[i].state # "running"

StartOperation(s, p, kind) ==
    /\ Admitted(s) /\ Len(operations) < MaxOperations
    /\ MayRun(p, kind) /\ Insertable(p)
    /\ operations' = Append(operations,
         [profile |-> p, kind |-> kind, state |-> "running",
          stage |-> "queued"])
    /\ jobs' = Append(jobs, "queued")
    /\ UNCHANGED <<rows, runtime, evidence, live, calls, wire, ctl, up, meta>>

\* v8_advance_system_operation.
AdvanceOperationRow(i) ==
    operations' = [operations EXCEPT ![i].stage =
                     IF operations[i].kind = "profile_benchmark"
                     THEN "benchmarking" ELSE "validating"]

\* The operation gets the service's asyncio lock, advances its row and runs
\* the fixture of the profile.
AdvanceOperation(i) ==
    /\ up /\ i \in DOMAIN jobs /\ jobs[i] = "queued"
    /\ \A j \in DOMAIN jobs : jobs[j] # "executing"
    /\ jobs' = [jobs EXCEPT ![i] = "executing"]
    /\ AdvanceOperationRow(i)
    /\ UNCHANGED <<rows, runtime, evidence, live, calls, wire, ctl, up, meta>>

\* _execute: the fixture of an OCR profile needs the OCR service; any
\* exception counts as a failed validation.
Passes(i) ==
    IF /\ IsOcr(operations[i].profile)
       /\ running["ocr"] = Down \/ "ocr" \in draining
    THEN {FALSE} ELSE BOOLEAN

\* v8_complete_system_operation: the row ends, and a validation replaces the
\* evidence of its profile.
CompleteRow(i, ok) ==
    /\ operations' = [operations EXCEPT
         ![i].state = IF ok THEN "effective" ELSE "failed",
         ![i].stage = IF ok THEN "effective" ELSE "failed"]
    /\ evidence' =
         IF operations[i].kind = "profile_validation"
         THEN [evidence EXCEPT ![operations[i].profile] =
                 IF ok THEN "locally_validated" ELSE "failed"]
         ELSE evidence

CompleteOperation(i) ==
    /\ up /\ i \in DOMAIN jobs /\ jobs[i] = "executing"
    /\ jobs' = [jobs EXCEPT ![i] = "ended"]
    /\ \E ok \in Passes(i) : CompleteRow(i, ok)
    /\ UNCHANGED <<rows, runtime, live, calls, wire, ctl, up, meta>>

-----------------------------------------------------------------------------
(* The process tree stops, because a child exited or the user stopped it,  *)
(* and is started again.                                                   *)

ActiveRows ==
    {<<"change", i>> : i \in {j \in DOMAIN changes : changes[j].state \in Active}}
    \cup {<<"operation", i>> :
            i \in {j \in DOMAIN operations : operations[j].state = "running"}}

\* monitor and stop_all: everything in memory is gone, the rows stay active.
Crash ==
    /\ up /\ crashes < MaxCrashes /\ crashes' = crashes + 1
    /\ up' = FALSE
    /\ wire' = {} /\ ctl' = IdleThread /\ calls' = [s \in AdminSessions |-> NoCall]
    /\ jobs' = [i \in DOMAIN jobs |-> "ended"]
    /\ running' = [s \in Services |-> Down] /\ draining' = {}
    /\ abandoned' = abandoned \cup ActiveRows
    /\ UNCHANGED <<rows, operations, evidence, overrides, live, faults>>

\* start_all: every child starts with the overrides the document holds.
StartAll ==
    /\ ~up /\ up' = TRUE /\ running' = overrides
    /\ UNCHANGED <<rows, profile, overrides, draining, live, calls, wire, ctl,
                   meta>>

SystemRoutes(s) ==
    \/ \E config \in Configs : PreviewConfiguration(s, config)
    \/ \E p \in DOMAIN previews : Reauthenticate(s, p)
    \/ \E p \in DOMAIN previews, g \in DOMAIN grants :
         ApplyConfiguration(s, p, g)
    \/ \E p \in Profiles, kind \in {"profile_validation", "profile_benchmark"} :
         StartOperation(s, p, kind)

ControllerThread == Claim \/ Preflight \/ Step \/ ReportStage

ConfigurationNext ==
    \/ \E s \in AdminSessions : SystemRoutes(s) \/ EndSession(s) \/ Expire(s)
    \/ \E s \in AdminSessions : CommandTimesOut(s) \/ FailDelivery(s)
    \/ \E c \in wire : HandleCommand(c)
    \/ \E i \in DOMAIN jobs : AdvanceOperation(i) \/ CompleteOperation(i)
    \/ ControllerThread
    \/ Crash \/ StartAll

\* The API serves its requests, the controller's thread goes on, a command is
\* taken or times out, and the user starts the application again.
ConfigurationFairness ==
    /\ WF_configurationVars(ControllerThread)
    /\ WF_configurationVars(\E c \in wire : HandleCommand(c))
    /\ WF_configurationVars(\E s \in AdminSessions : FailDelivery(s))
    /\ WF_configurationVars(\E i \in DOMAIN jobs : AdvanceOperation(i) \/ CompleteOperation(i))
    /\ WF_configurationVars(StartAll)

ConfigurationSpec == ConfigurationInit /\ [][ConfigurationNext]_configurationVars /\ ConfigurationFairness

-----------------------------------------------------------------------------
(* Properties.                                                             *)

\* A change is what its administrator saw and confirmed: the preview of that
\* session, against the revision the change replaces, one password proof for
\* every change, however previews, grants and other changes interleave.
AppliedAsConfirmed ==
    /\ \A i \in DOMAIN changes :
         LET p == previews[changes[i].preview] IN
         /\ p.session = changes[i].session
         /\ p.base = changes[i].prior
         /\ p.config = revisions[changes[i].desired]
         /\ \A j \in DOMAIN changes :
              changes[j].preview = changes[i].preview => i = j
    /\ \A s \in AdminSessions :
         Cardinality({i \in DOMAIN changes : changes[i].session = s})
           = Cardinality({g \in DOMAIN grants :
                            grants[g].session = s /\ grants[g].consumed})

\* The last change a controller worked on.
Claimed(i) ==
    ~(changes[i].state = "pending"
        \/ changes[i].reason = "controller_unavailable")
LastClaimed(i) ==
    Claimed(i) /\ \A j \in DOMAIN changes : j > i => ~Claimed(j)

\* What the controller reports is what runs: once a change is recorded as
\* effective or rolled back, the document and every service hold the
\* configuration it says, and no service is left refusing work, whatever
\* reports were lost on the way and across a restart.
ReportedResultHolds ==
    \A i \in DOMAIN changes :
       (LastClaimed(i) /\ up /\ changes[i].state \in {"effective", "rolled_back"})
         => LET result == revisions[IF changes[i].state = "effective"
                                    THEN changes[i].desired
                                    ELSE changes[i].prior] IN
            /\ overrides = result /\ running = result /\ draining = {}

\* Every change and every profile operation ends, unless the process that
\* attended it was lost: nothing else leaves a row active, which would block
\* every later one through the unique index.  (Rows are bounded, so that they
\* cannot keep relieving each other.)
EveryRowSettles == []<>(ActiveRows \subseteq abandoned)

=============================================================================
