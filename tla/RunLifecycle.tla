---------------------------- MODULE RunLifecycle ----------------------------
(***************************************************************************)
(* internal/execution Runner.Run: one verification run in a container.     *)
(* The runner creates and starts the sandbox, runs the plan's commands,    *)
(* starts observers and an attached service, then finalizes: signal the    *)
(* service, quiesce the workload, collect the final evidence, inventory    *)
(* and export the outputs, remove the peer observer and the sandbox, and   *)
(* decide the cleanup verdict.                                             *)
(*                                                                         *)
(* Beside the runner there are the service goroutine and the caller, who   *)
(* may cancel the context at any moment.  Every engine call may fail.  A   *)
(* failed call may have taken effect; a call whose CLI process has         *)
(* returned takes no effect later (external: the container engine).        *)
(***************************************************************************)
EXTENDS RunContract

CONSTANTS
    Plans,                  \* sealed execution plans
    MaxReadinessAttempts    \* maxHTTPReadinessAttempts (128)

Observers == {"filesystem-write", "resource-usage", "port-listen"}

\* A plan: its commands before the signal, by phase, with the one service of
\* an HTTP plan; the engine; the required observers; whether allowed residue
\* is declared; whether a CLI plan asserts that an output file exists; the
\* number of HTTP journey steps.
IsPlan(p) ==
    /\ p.commands \in Seq({"setup", "build", "exercise", "cleanup", "service"})
    /\ p.docker \in BOOLEAN /\ p.allowed \in BOOLEAN /\ p.file \in BOOLEAN
    /\ p.observers \subseteq Observers
    /\ p.journey \in Nat

ASSUME PlansAssumption == Plans # {} /\ \A p \in Plans : IsPlan(p)

ASSUME AttemptsAssumption == MaxReadinessAttempts \in Nat \ {0}

\* Every stable code Run may report.
Codes == VerdictCodes \cup {"CANCELLED", "SANDBOX_START_FAILED", "OBSERVER_START_FAILED",
                           "RESOURCE_LIMIT_EXCEEDED"}

ASSUME CodesAssumption == NoError \notin Codes

VARIABLES
    plan,       \* the sealed plan
    pc,         \* the stage Run is in
    ctx,        \* "live" or "cancelled": the caller's context
    engine,     \* what exists in the container engine
    service,    \* the attached service goroutine
    local,      \* the local variables of Run
    stirred,    \* history: a workload process appeared after quiescence was confirmed
    outcome     \* what Run returned, or NoOutcome

vars == <<plan, pc, ctx, engine, service, local, stirred, outcome>>

NoOutcome == [returned |-> "none yet"]

IsHTTP == \E i \in DOMAIN plan.commands : plan.commands[i] = "service"
Required(observer) == observer \in plan.observers
\* Port observation is live-qualified on Docker, for HTTP plans.
PortEligible == Required("port-listen") /\ plan.docker /\ IsHTTP

\* Every finalizationSucceeded = false in the code is paired with an append
\* to finalizationErrors, so the flag is the emptiness of that slice.
finalizationSucceeded == local.finalization = << >>

newCleanupResidueSummary(failure) ==
    [verdict |-> "not-tested", failure |-> failure, residue |-> "none",
     quiescent |-> FALSE, disposable |-> FALSE, identity |-> FALSE, complete |-> FALSE]

Init ==
    /\ plan \in Plans
    /\ pc = "create"
    /\ ctx = "live"
    /\ engine = [target |-> "absent", peer |-> FALSE, workload |-> FALSE, produced |-> FALSE]
    /\ service = [state |-> "none", result |-> NoError, cancelled |-> FALSE]
    /\ local = [id |-> FALSE, peerID |-> FALSE, next |-> 1, turn |-> 0, signalled |-> TRUE,
                primary |-> NoError, finalization |-> << >>, resource |-> NoError,
                sessions |-> {}, ready |-> {}, final |-> {}, quiesced |-> FALSE,
                exportSafe |-> FALSE, journey |-> "blocked", exported |-> FALSE,
                peerRemoved |-> FALSE, emitted |-> 0,
                summary |-> newCleanupResidueSummary("inventory-not-attempted")]
    /\ stirred = FALSE
    /\ outcome = NoOutcome

-----------------------------------------------------------------------------
(* Shapes shared by the stages. *)

At(stage) == pc = stage
Goto(stage) == pc' = stage
EngineUnchanged == UNCHANGED <<engine, service>>
Frame == UNCHANGED <<plan, ctx, stirred, outcome>>

Primary(l, code) == [l EXCEPT !.primary = code]
Finalization(l, code) == [l EXCEPT !.finalization = Append(@, code)]

\* Where the command loop leads: a service is signalled, then all is quiesced.
Finalize == IF service.state # "none" THEN "signal" ELSE "quiesce"

\* An engine call made under the caller's context may always fail, and can
\* succeed only while the context is live.
MaySucceed == ctx = "live"

\* The effect a workload command may leave behind.
WorkloadEffect ==
    \E alive, wrote \in BOOLEAN :
        engine' = [engine EXCEPT !.workload = @ \/ alive, !.produced = @ \/ wrote]

-----------------------------------------------------------------------------
(* Sandbox start. *)

\* The container is created; its immutable identity may be unreadable, which
\* only resource preflight treats as fatal.
create ==
    /\ At("create")
    /\ \/ /\ MaySucceed
          /\ engine' = [engine EXCEPT !.target = "created"]
          /\ \E id \in BOOLEAN :
                 local' = [local EXCEPT
                     !.id = id,
                     !.primary = IF ~id /\ Required("resource-usage")
                                 THEN "OBSERVER_START_FAILED" ELSE NoError]
          /\ Goto("start")
       \/ /\ \E target \in {"absent", "created"} : engine' = [engine EXCEPT !.target = target]
          /\ local' = Primary(local, "SANDBOX_PREPARE_FAILED")
          /\ Goto("unavailable")
    /\ UNCHANGED service /\ Frame

start ==
    /\ At("start")
    /\ \/ /\ MaySucceed
          /\ engine' = [engine EXCEPT !.target = "running"]
          /\ Goto("preflight")
          /\ UNCHANGED local
       \/ /\ \E target \in {"created", "running"} : engine' = [engine EXCEPT !.target = target]
          /\ local' = Primary(local, "SANDBOX_START_FAILED")
          /\ Goto("unavailable")
    /\ UNCHANGED service /\ Frame

\* Active cgroup preflight, when resource usage is observed.
resourcePreflight ==
    /\ At("preflight")
    /\ \/ /\ local.primary = NoError /\ Required("resource-usage") /\ MaySucceed
          /\ local' = [local EXCEPT !.ready = @ \cup {"resource-usage"}]
          /\ Goto("init")
       \/ /\ local.primary = NoError /\ Required("resource-usage")
          /\ local' = Primary(local, "OBSERVER_START_FAILED")
          /\ Goto("quiesce")
       \/ /\ local.primary # NoError \/ ~Required("resource-usage")
          /\ Goto(IF local.primary = NoError THEN "init" ELSE "quiesce")
          /\ UNCHANGED local
    /\ EngineUnchanged /\ Frame

initializeOutputDirectories ==
    /\ At("init")
    /\ \/ MaySucceed /\ Goto("baseline") /\ UNCHANGED local
       \/ Goto("quiesce") /\ local' = Primary(local, "SANDBOX_START_FAILED")
    /\ EngineUnchanged /\ Frame

\* The filesystem baseline.  Its failure costs coverage, not the run.
filesystemBaseline ==
    /\ At("baseline")
    /\ \/ /\ Required("filesystem-write") /\ local.id /\ MaySucceed
          /\ local' = [local EXCEPT !.ready = @ \cup {"filesystem-write"}]
       \/ UNCHANGED local
    /\ Goto("probe")
    /\ EngineUnchanged /\ Frame

\* Runtime version, workload identity and archive helper, in that order.
probes ==
    /\ At("probe")
    /\ \/ /\ MaySucceed
          /\ local' = [local EXCEPT !.exportSafe = TRUE]
          /\ Goto("trace")
       \/ /\ \E code \in {"RUNNER_FEATURE_UNAVAILABLE", "RUNTIME_VERSION_UNRESOLVED"} :
                 local' = Primary(local, code)
          /\ Goto("quiesce")
    /\ EngineUnchanged /\ Frame

startOutputsActivityTrace ==
    /\ At("trace")
    /\ \/ /\ Required("filesystem-write") /\ plan.docker /\ local.id /\ MaySucceed
          /\ local' = [local EXCEPT !.sessions = @ \cup {"trace"}, !.ready = @ \cup {"trace"}]
       \/ UNCHANGED local
    /\ Goto("step")
    /\ EngineUnchanged /\ Frame

-----------------------------------------------------------------------------
(* The command loop. *)

phaseFailureCode(command) ==
    CASE command = "setup" -> "SETUP_FAILED"
      [] command = "build" -> "BUILD_FAILED"
      [] command = "cleanup" -> "CLEANUP_FAILED"
      [] command = "exercise" -> "JOURNEY_ASSERTION_FAILED"

\* How a foreground command may end: an accepted exit, a non-zero exit, its
\* timeout, or an operational failure; cancellation when the context is.
StepResults(command) ==
    IF ctx = "cancelled" THEN {"CANCELLED"}
    ELSE {NoError, phaseFailureCode(command), "TIMEOUT", "SANDBOX_START_FAILED"}

\* Outputs may be exported after a trustworthy exit, whatever its status.
StepExportSafe(result) == result \notin {"TIMEOUT", "CANCELLED", "SANDBOX_START_FAILED"}

runStep ==
    /\ At("step")
    /\ local.next <= Len(plan.commands)
    /\ plan.commands[local.next] # "service"
    /\ WorkloadEffect
    /\ \E result \in StepResults(plan.commands[local.next]) : \E status \in Statuses :
           /\ local' = [local EXCEPT
                  !.primary = result,
                  !.next = @ + 1,
                  !.exportSafe = @ /\ StepExportSafe(result),
                  !.journey = IF plan.commands[local.next] = "exercise" THEN status ELSE @]
           /\ Goto(IF result = NoError THEN "step" ELSE Finalize)
    /\ UNCHANGED service /\ Frame

stepsDone ==
    /\ At("step")
    /\ local.next > Len(plan.commands)
    /\ Goto(Finalize)
    /\ UNCHANGED local /\ EngineUnchanged /\ Frame

\* The peer observer container is created and started before the service.
\* When its creation cannot be confirmed its identity is looked up under the
\* same context, which may fail too.
startPeerPortObservation ==
    /\ At("step")
    /\ local.next <= Len(plan.commands) /\ plan.commands[local.next] = "service"
    /\ \/ /\ PortEligible /\ local.id /\ MaySucceed
          /\ engine' = [engine EXCEPT !.peer = TRUE]
          /\ \E session \in BOOLEAN :
                 local' = [local EXCEPT !.peerID = TRUE,
                     !.sessions = IF session THEN @ \cup {"port"} ELSE @,
                     !.ready = IF session THEN @ \cup {"port-listen"} ELSE @]
       \/ /\ PortEligible /\ local.id
          /\ \E created \in BOOLEAN : engine' = [engine EXCEPT !.peer = created]
          /\ UNCHANGED local
       \/ /\ ~(PortEligible /\ local.id)
          /\ UNCHANGED <<local, engine>>
    /\ Goto("service")
    /\ UNCHANGED service /\ Frame

startService ==
    /\ At("service")
    /\ service' = [service EXCEPT !.state = "starting"]
    /\ local' = [local EXCEPT !.turn = 0]
    /\ Goto("readiness")
    /\ UNCHANGED engine /\ Frame

\* What a service that has returned means to whoever is still using it.
ServiceExit == IF service.result # NoError THEN service.result ELSE "SERVICE_START_FAILED"

\* The error of a readiness wait whose deadline has passed or whose context
\* is done.
readinessTerminalError == IF ctx = "cancelled" THEN "CANCELLED" ELSE "READINESS_FAILED"

\* Mutant: the attempt limit is never looked at.
waitForReadinessUnbounded ==
    /\ At("readiness")
    /\ service.state # "returned" /\ MaySucceed
    /\ local' = [local EXCEPT !.turn = @ + 1]
    /\ Goto("readiness")
    /\ EngineUnchanged /\ Frame

\* One turn of the readiness loop: poll the service, then one request.
waitForReadiness ==
    /\ At("readiness")
    /\ \/ /\ service.state = "returned"
          /\ local' = Primary(local, ServiceExit)
          /\ Goto("signal")
       \/ /\ service.state # "returned"
          /\ \E code \in {readinessTerminalError, "PROCESS_LEAK"} : local' = Primary(local, code)
          /\ Goto("signal")
       \/ /\ service.state # "returned" /\ MaySucceed /\ engine.workload
          /\ local' = [local EXCEPT !.turn = 0]
          /\ Goto("journey")
       \/ /\ service.state # "returned" /\ MaySucceed
          /\ local.turn + 1 < MaxReadinessAttempts
          /\ local' = [local EXCEPT !.turn = @ + 1]
          /\ Goto("readiness")
    /\ EngineUnchanged /\ Frame

\* How a journey step may end, and what the ordered assertion then reads:
\* its own status, or blocked when the journey never got to it.
JourneyFailures ==
    [JOURNEY_ASSERTION_FAILED |-> {"failed", "blocked"},
     OBSERVER_INCOMPLETE |-> {"inconclusive", "blocked"},
     TIMEOUT |-> {"blocked"}, PROCESS_LEAK |-> {"blocked"}, CANCELLED |-> {"blocked"}]

\* One step of the HTTP journey: the context and the service are polled, and
\* a request or an assertion is carried out; the last turn only polls.
executeHTTPJourney ==
    /\ At("journey")
    /\ \/ /\ \/ /\ ctx = "cancelled" /\ local' = Primary(local, "CANCELLED")
             \/ /\ service.state = "returned" /\ local' = Primary(local, ServiceExit)
             \/ /\ local.turn < plan.journey
                /\ \E code \in DOMAIN JourneyFailures : \E status \in JourneyFailures[code] :
                       /\ code = "CANCELLED" => ctx = "cancelled"
                       /\ local' = [local EXCEPT !.primary = code, !.journey = status]
          /\ Goto("signal")
          /\ UNCHANGED engine
       \/ /\ MaySucceed /\ service.state # "returned" /\ local.turn < plan.journey
          /\ local' = [local EXCEPT !.turn = @ + 1]
          /\ Goto("journey")
          /\ \E wrote \in BOOLEAN : engine' = [engine EXCEPT !.produced = @ \/ wrote]
       \/ /\ MaySucceed /\ service.state # "returned" /\ local.turn = plan.journey
          /\ local' = [local EXCEPT !.journey = "passed", !.next = @ + 1]
          /\ Goto("step")
          /\ UNCHANGED engine
    /\ UNCHANGED service /\ Frame

-----------------------------------------------------------------------------
(* Finalization, on contexts of its own: cancellation no longer matters. *)

\* The helper confirms that no workload process is left, or the service
\* context is cancelled and the failure recorded.
signalService ==
    /\ At("signal")
    /\ \/ /\ engine' = [engine EXCEPT !.workload = FALSE]
          /\ UNCHANGED <<local, service>>
       \/ /\ local' = [Finalization(local, "CLEANUP_FAILED") EXCEPT !.signalled = FALSE]
          /\ service' = [service EXCEPT !.cancelled = TRUE]
          /\ UNCHANGED engine
    /\ Goto("wait")
    /\ Frame

\* Mutant: a service that cannot be joined is not reported.
waitServiceResultSilently ==
    /\ At("wait")
    /\ service' = [service EXCEPT !.cancelled = TRUE]
    /\ Goto("quiesce")
    /\ UNCHANGED <<local, engine>> /\ Frame

\* Mutant: the wait has no deadline.
waitServiceResultForever ==
    /\ At("wait")
    /\ service.state = "returned"
    /\ service' = [service EXCEPT !.cancelled = TRUE]
    /\ Goto("quiesce")
    /\ UNCHANGED <<local, engine>> /\ Frame

\* The attached service is joined, or the cleanup timeout expires.
waitServiceResult ==
    /\ At("wait")
    /\ service' = [service EXCEPT !.cancelled = TRUE]
    /\ \/ /\ service.state = "returned"
          /\ local' = [local EXCEPT
                 !.primary = IF local.primary = NoError /\ local.signalled
                             THEN service.result ELSE @,
                 !.exportSafe = @ /\ service.result = NoError]
       \/ /\ service.state # "returned"
          /\ local' = Finalization(local, "CLEANUP_FAILED")
    /\ Goto("quiesce")
    /\ UNCHANGED engine /\ Frame

\* Mutant: the observer sessions are forgotten when quiescence fails.
quiesceWorkloadProcessesForgetting ==
    /\ At("quiesce")
    /\ \/ /\ engine' = [engine EXCEPT !.workload = FALSE]
          /\ local' = [local EXCEPT !.quiesced = TRUE]
          /\ Goto("stop")
       \/ /\ local' = [Finalization(local, "CLEANUP_FAILED") EXCEPT
                 !.summary.failure = "workload-quiescence-failed", !.emitted = @ + 1]
          /\ Goto("peer")
          /\ UNCHANGED engine
    /\ UNCHANGED service /\ Frame

\* Every non-root process is killed and confirmed gone.  When that fails no
\* further evidence is collected: sessions are aborted and the summary stays
\* undecided.
quiesceWorkloadProcesses ==
    /\ At("quiesce")
    /\ \/ /\ engine' = [engine EXCEPT !.workload = FALSE]
          /\ local' = [local EXCEPT !.quiesced = TRUE]
          /\ Goto("stop")
       \/ /\ \E alive \in {FALSE, engine.workload} : engine' = [engine EXCEPT !.workload = alive]
          /\ local' = [Finalization(local, "CLEANUP_FAILED") EXCEPT
                 !.sessions = {},
                 !.resource = IF Required("resource-usage") THEN "OBSERVER_INCOMPLETE" ELSE @,
                 !.summary.failure = "workload-quiescence-failed",
                 !.emitted = @ + 1]
          /\ Goto("peer")
    /\ UNCHANGED service /\ Frame

\* The observer sessions that are open end, each with or without a trusted
\* result: the port observer first, then the activity trace.
stopSessions ==
    /\ At("stop")
    /\ \E trusted \in SUBSET local.sessions :
           local' = [local EXCEPT !.sessions = {}, !.final = @ \cup
               {IF s = "port" THEN "port-listen" ELSE s : s \in trusted}]
    /\ Goto("final")
    /\ EngineUnchanged /\ Frame

filesystemFinal ==
    /\ At("final")
    /\ \/ /\ "filesystem-write" \in local.ready
          /\ local' = [local EXCEPT !.final = @ \cup {"filesystem-write"}]
       \/ UNCHANGED local
    /\ Goto("resource")
    /\ EngineUnchanged /\ Frame

\* The final cgroup snapshot.  Limits are judged against the active one.
resourceFinal ==
    /\ At("resource")
    /\ \/ /\ Required("resource-usage") /\ local.id
          /\ \E code \in IF "resource-usage" \in local.ready
                         THEN {NoError, "RESOURCE_LIMIT_EXCEEDED"} ELSE {NoError} :
                 local' = [local EXCEPT !.final = @ \cup {"resource-usage"}, !.resource = code]
       \/ /\ Required("resource-usage") /\ local.id
          /\ local' = [local EXCEPT !.resource = "OBSERVER_INCOMPLETE"]
       \/ /\ ~(Required("resource-usage") /\ local.id)
          /\ UNCHANGED local
    /\ Goto("disposable")
    /\ EngineUnchanged /\ Frame

\* Cleanup evidence ends undecided: the failure class is recorded, in the
\* summary and as a finalization error, and nothing is exported.
Undecided(l, failure) ==
    [Finalization(l, "CLEANUP_FAILED") EXCEPT
        !.summary.failure = failure, !.emitted = @ + 1]

removeCleanupDisposableDirectories ==
    /\ At("disposable")
    /\ \/ /\ local.id
          /\ local' = [local EXCEPT !.summary.quiescent = TRUE, !.summary.disposable = TRUE]
          /\ Goto("identity")
       \/ /\ local.id
          /\ local' = [Undecided(local, "disposable-removal-failed") EXCEPT
                           !.summary.quiescent = TRUE]
          /\ Goto("peer")
       \/ /\ ~local.id
          /\ local' = Undecided(local, "immutable-container-identity-unavailable")
          /\ Goto("peer")
    /\ EngineUnchanged /\ Frame

inspectContainerIdentity ==
    /\ At("identity")
    /\ \/ /\ local' = [local EXCEPT !.summary.identity = TRUE]
          /\ Goto("inventory")
       \/ /\ local' = Undecided(local, "container-identity-readback-failed")
          /\ Goto("peer")
    /\ EngineUnchanged /\ Frame

\* What may lie in /outputs: a file the workload wrote is still there, and
\* links or special files may be.
PossibleResidue == IF engine.produced THEN {"plain", "unsafe"} ELSE {"none", "plain", "unsafe"}

classifyCleanupInventory(residue) ==
    CASE residue = "none" -> "clean"
      [] residue = "plain" /\ plan.allowed -> "allowed-residue"
      [] OTHER -> "undeclared-residue"

\* Mutant: links and special files do not keep the outputs from the host.
collectCleanupInventoryTrusting ==
    /\ At("inventory")
    /\ \E residue \in PossibleResidue :
           local' = [local EXCEPT
               !.summary.verdict = classifyCleanupInventory(residue),
               !.summary.failure = "none", !.summary.complete = TRUE,
               !.summary.residue = residue, !.emitted = @ + 1]
    /\ Goto(IF local.exportSafe THEN "repair" ELSE "peer")
    /\ EngineUnchanged /\ Frame

\* The listing fails (inventory-failed), or it shows the disposable directories
\* again, which a process that came to life after quiescence may have made; or
\* it cannot be classified; or it is.
collectCleanupInventory ==
    /\ At("inventory")
    /\ \/ /\ \E failure \in {"inventory-failed", "disposable-removal-failed"} :
                 local' = Undecided(local, failure)
          /\ Goto("peer")
       \/ /\ \E residue \in PossibleResidue :
                 local' = [Undecided(local, "classification-failed") EXCEPT
                               !.summary.complete = TRUE, !.summary.residue = residue]
          /\ Goto("peer")
       \/ \E residue \in PossibleResidue :
              /\ local' = [local EXCEPT
                     !.summary.verdict = classifyCleanupInventory(residue),
                     !.summary.failure = "none",
                     !.summary.complete = TRUE,
                     !.summary.residue = residue,
                     !.emitted = @ + 1]
              /\ Goto(IF local.exportSafe /\ residue # "unsafe" THEN "repair" ELSE "peer")
    /\ EngineUnchanged /\ Frame

repairOutputPermissions ==
    /\ At("repair")
    /\ \/ Goto("export") /\ UNCHANGED local
       \/ Goto("peer") /\ local' = Finalization(local, "CLEANUP_FAILED")
    /\ EngineUnchanged /\ Frame

exportOutputs ==
    /\ At("export")
    /\ \/ local' = [local EXCEPT !.exported = TRUE]
       \/ \E code \in {"CLEANUP_FAILED", "RESOURCE_LIMIT_EXCEEDED", "FORBIDDEN_FILESYSTEM_ACCESS"} :
              local' = Finalization(local, code)
    /\ Goto("peer")
    /\ EngineUnchanged /\ Frame

\* The container never started: there was no boundary to inventory.
boundaryUnavailable ==
    /\ At("unavailable")
    /\ local' = [local EXCEPT
           !.summary = newCleanupResidueSummary("sandbox-boundary-unavailable"),
           !.emitted = @ + 1]
    /\ Goto("peer")
    /\ EngineUnchanged /\ Frame

\* Removal of the peer observer, whose identity must be known for it.
removePeerPortContainer ==
    /\ At("peer")
    /\ \/ /\ local.peerID
          /\ local' = [local EXCEPT !.peerRemoved = TRUE]
          /\ engine' = [engine EXCEPT !.peer = FALSE]
       \/ /\ local.peerID
          /\ local' = Finalization(local, "SANDBOX_DESTROY_FAILED")
          /\ \E peer \in BOOLEAN : engine' = [engine EXCEPT !.peer = peer]
       \/ /\ ~local.peerID
          /\ UNCHANGED <<local, engine>>
    /\ Goto("remove")
    /\ UNCHANGED service /\ Frame

\* rm -f of the sandbox, attempted whatever happened before.
removeContainer ==
    /\ At("remove")
    /\ \/ /\ engine' = [engine EXCEPT !.target = "absent", !.workload = FALSE]
          /\ UNCHANGED local
       \/ /\ engine' \in {engine, [engine EXCEPT !.target = "absent", !.workload = FALSE]}
          /\ local' = Finalization(local, "SANDBOX_DESTROY_FAILED")
    /\ Goto("finish")
    /\ UNCHANGED service /\ Frame

-----------------------------------------------------------------------------
(* The outcome. *)

\* A file assertion of a CLI plan reads the host copy of the outputs, after
\* everything else; the path may be one that cannot be inspected.
fileStatuses ==
    {IF local.exported /\ engine.produced THEN "passed" ELSE "failed", "inconclusive"}

assertionStatuses(file) ==
    IF plan.file /\ ~IsHTTP THEN <<local.journey, file>> ELSE <<local.journey>>

\* The first failed assertion, else the first one that was not decided.
assertionFailure(statuses) ==
    IF \E i \in DOMAIN statuses : statuses[i] = "failed" THEN "JOURNEY_ASSERTION_FAILED"
    ELSE IF \E i \in DOMAIN statuses : statuses[i] # "passed" THEN "OBSERVER_INCOMPLETE"
    ELSE NoError

\* Observers with high coverage, the one that satisfies a requirement.  Only
\* resource usage can have it: both snapshots, a quiescent workload and the
\* exported size.  Filesystem writes and listening ports are covered at best
\* effort.
completeObservers ==
    {o \in {"resource-usage"} \cap plan.observers \cap local.ready \cap local.final :
        local.quiesced /\ local.exported}

\* Mutant: the ports are compared while the observer may still exist.
portsComparedEarly == "port-listen" \in plan.observers \cap local.ready \cap local.final

\* The sampled ports are compared with the declared ones only when both ends of
\* the observation are there, the workload is quiescent and the peer removed.
portsCompared ==
    /\ "port-listen" \in plan.observers \cap local.ready \cap local.final
    /\ local.quiesced /\ local.peerRemoved

\* Declaration findings come from observations that have both ends.
PossibleFindings ==
    SUBSET ((IF {"filesystem-write", "trace"} \cap local.ready \cap local.final # {}
             THEN {"UNDECLARED_FILESYSTEM_WRITE"} ELSE {}) \cup
            (IF portsCompared THEN {"UNDECLARED_PORT_LISTEN"} ELSE {}))

\* Mutant: a finalization failure hides the residue that was found.
cleanupOutcomeFinalizationFirst(l) ==
    IF l.finalization # << >> THEN "not-tested" ELSE l.summary.verdict

cleanupOutcome(l) ==
    IF l.summary.verdict = "undeclared-residue" THEN "undeclared-residue"
    ELSE IF l.finalization # << >> THEN "not-tested"
    ELSE l.summary.verdict

\* The controller's copies are removed, the errors are put together, and the
\* first of primary, finalization, resource and assertion error is returned.
finish ==
    /\ At("finish")
    /\ \E copies \in BOOLEAN, found \in PossibleFindings, file \in fileStatuses :
           LET l == IF copies THEN local ELSE Finalization(local, "CLEANUP_FAILED")
               failure == assertionFailure(assertionStatuses(file))
               returned == IF l.primary # NoError THEN l.primary
                           ELSE IF l.finalization # << >> THEN Head(l.finalization)
                           ELSE IF l.resource # NoError THEN l.resource
                           ELSE failure
               reported == {l.primary, l.resource, returned}
                           \cup {l.finalization[i] : i \in DOMAIN l.finalization}
                           \cup (IF l.summary.verdict = "undeclared-residue"
                                 THEN {"CLEANUP_RESIDUE"} ELSE {})
                           \cup found
           IN  /\ local' = l
               /\ outcome' = [returned |-> returned,
                              errors |-> reported \ {NoError},
                              cleanup |-> cleanupOutcome(l),
                              observed |-> l.summary.verdict,
                              emitted |-> l.emitted,
                              valid |-> cleanupObservationValid(l.summary, plan.allowed),
                              statuses |-> assertionStatuses(file),
                              complete |-> completeObservers,
                              compared |-> portsCompared]
    /\ Goto("done")
    /\ EngineUnchanged /\ UNCHANGED <<plan, ctx, stirred>>

-----------------------------------------------------------------------------
(* The service goroutine, and the caller. *)

\* The exec takes effect in the container.
serviceDispatch ==
    /\ service.state = "starting" /\ engine.target = "running"
    /\ service' = [service EXCEPT !.state = "running"]
    /\ \E wrote \in BOOLEAN :
           engine' = [engine EXCEPT !.workload = TRUE, !.produced = @ \/ wrote]
    /\ stirred' = (stirred \/ local.quiesced)
    /\ UNCHANGED <<plan, pc, ctx, local, outcome>>

\* runAttachedService returns.  An exec that was never confirmed has failed;
\* after a cancellation by the caller or the runner the result says so.
runAttachedService ==
    /\ service.state \in {"starting", "running"}
    /\ \E result \in IF ctx = "cancelled" \/ service.cancelled THEN {"CANCELLED"}
                     ELSE {"TIMEOUT", "SERVICE_START_FAILED"}
                          \cup (IF service.state = "running" THEN {NoError} ELSE {}) :
           service' = [service EXCEPT !.state = "returned", !.result = result]
    /\ UNCHANGED <<plan, pc, ctx, engine, local, stirred, outcome>>

Cancel ==
    /\ ctx = "live" /\ pc # "done"
    /\ ctx' = "cancelled"
    /\ UNCHANGED <<plan, pc, engine, service, local, stirred, outcome>>

Returned == pc = "done" /\ service.state \in {"none", "returned"} /\ UNCHANGED vars

Run ==
    \/ create \/ start \/ resourcePreflight \/ initializeOutputDirectories
    \/ filesystemBaseline \/ probes \/ startOutputsActivityTrace
    \/ runStep \/ stepsDone \/ startPeerPortObservation \/ startService
    \/ waitForReadiness \/ executeHTTPJourney
    \/ signalService \/ waitServiceResult \/ quiesceWorkloadProcesses \/ stopSessions
    \/ filesystemFinal \/ resourceFinal \/ removeCleanupDisposableDirectories
    \/ inspectContainerIdentity \/ collectCleanupInventory \/ repairOutputPermissions
    \/ exportOutputs \/ boundaryUnavailable \/ removePeerPortContainer
    \/ removeContainer \/ finish

Next == Run \/ serviceDispatch \/ runAttachedService \/ Cancel \/ Returned

Spec == Init /\ [][Next]_vars

\* Every call of the runner is bounded by a timeout, so Run keeps taking
\* steps, whatever the service does.
FairSpec == Spec /\ WF_vars(Run)
-----------------------------------------------------------------------------
(* Properties. *)

Stages == {"create", "start", "preflight", "init", "baseline", "probe", "trace", "step",
           "service", "readiness", "journey", "signal", "wait", "quiesce", "stop", "final",
           "resource", "disposable", "identity", "inventory", "repair", "export",
           "unavailable", "peer", "remove", "finish", "done"}
Failures == {"none", "inventory-not-attempted", "sandbox-boundary-unavailable",
             "workload-quiescence-failed", "immutable-container-identity-unavailable",
             "disposable-removal-failed", "container-identity-readback-failed",
             "inventory-failed", "classification-failed"}
Summary == [verdict : Cleanup, failure : Failures, residue : {"none", "plain", "unsafe"},
            quiescent : BOOLEAN, disposable : BOOLEAN, identity : BOOLEAN, complete : BOOLEAN]

\* Type correctness; the readiness loop never makes more attempts than its bound.
TypeOK ==
    /\ plan \in Plans
    /\ pc \in Stages
    /\ ctx \in {"live", "cancelled"}
    /\ engine \in [target : {"absent", "created", "running"}, peer : BOOLEAN,
                   workload : BOOLEAN, produced : BOOLEAN]
    /\ service \in [state : {"none", "starting", "running", "returned"},
                    result : Codes \cup {NoError}, cancelled : BOOLEAN]
    /\ local.primary \in Codes \cup {NoError}
    /\ local.resource \in Codes \cup {NoError}
    /\ local.finalization \in Seq(FinalizationCodes)
    /\ local.summary \in Summary
    /\ local.journey \in Statuses
    /\ local.next \in 1..(Len(plan.commands) + 1)
    /\ pc = "readiness" => local.turn < MaxReadinessAttempts

HasReturned == outcome # NoOutcome

\* When Run returns nothing it started is silently left behind: a sandbox or
\* a known peer container that still exists is reported as
\* SANDBOX_DESTROY_FAILED, no observer session is open, and a service
\* goroutine that is still there has had its context cancelled.
NothingLeftBehind ==
    HasReturned =>
        /\ engine.target # "absent" \/ (local.peerID /\ engine.peer) =>
               "SANDBOX_DESTROY_FAILED" \in outcome.errors
        /\ local.sessions = {}
        /\ service.state \in {"starting", "running"} => service.cancelled

\* A clean or allowed verdict is earned: the sandbox is gone, no workload
\* process appeared after quiescence was confirmed (a service exec that
\* lands late), and clean means that the workload left nothing in /outputs.
EarnedClean ==
    HasReturned /\ outcome.cleanup \in {"clean", "allowed-residue"} =>
        /\ ~stirred
        /\ engine.target = "absent"
        /\ service.state \in {"none", "returned"}
        /\ outcome.cleanup = "clean" => ~engine.produced

\* Evidence that is relied on, full coverage of an observer or ports compared
\* with their declarations, was collected from a workload that stayed quiet,
\* or the run reports CLEANUP_FAILED; and ports are compared only once the
\* observer's own container is gone.
EvidenceIsEarned ==
    HasReturned /\ (outcome.complete # {} \/ outcome.compared) =>
        /\ stirred => "CLEANUP_FAILED" \in outcome.errors
        /\ outcome.compared => ~engine.peer

\* The listing showed what had been reported removed: the failure class
\* belongs to an earlier stage than the flags.
DisposableReappeared(d) ==
    /\ d.verdict = "not-tested" /\ d.failure = "disposable-removal-failed"
    /\ d.quiescent /\ d.disposable /\ d.identity /\ ~d.complete

\* The outcome keeps the promises its caller builds on, and its cleanup
\* observation is one that Build accepts, but for disposable directories that
\* reappeared between their removal and the inventory.
OutcomeInContract ==
    HasReturned =>
        /\ MayReturn(outcome)
        /\ outcome.valid \/ DisposableReappeared(local.summary)

\* Outputs cross to the host only out of an identified sandbox, without
\* links or special files, and from a workload that is quiet unless the run
\* already reports that the service could not be joined.
ExportIsGuarded ==
    [][local'.exported /\ ~local.exported =>
          /\ local.id /\ local.quiesced
          /\ local.summary.residue # "unsafe"
          /\ engine.workload => "CLEANUP_FAILED" \in {local.finalization[i] :
                                                     i \in DOMAIN local.finalization}
      ]_vars

\* Run returns: no engine call, service or observer can hold it forever.
RunTerminates == <>(pc = "done")

\* docs/architecture.md: finalization forcibly removes any peer observer, or
\* reports that it could not.
PeerNeverLeaks ==
    HasReturned /\ engine.peer => "SANDBOX_DESTROY_FAILED" \in outcome.errors
=============================================================================
