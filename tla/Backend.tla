------------------------------ MODULE Backend -------------------------------
(***************************************************************************)
(* internal/execution: what a local container engine offers (Doctor), what *)
(* the command makes of it (probe), and whether that covers what a plan    *)
(* requires (NegotiateFeatures).  A required feature is a pair: its prefix *)
(* and its name.                                                           *)
(***************************************************************************)
EXTENDS Integers, Sequences, FiniteSets

Backends == <<"docker", "podman">>

\* What the engine's info command may come to.
EngineAnswers == {"fails", "unreadable", "no-os", "windows", "linux"}

unavailableRunnerFeatures(os) ==
    [available |-> FALSE, os |-> os, networkDeny |-> FALSE, processExec |-> "unavailable",
     filesystemWrite |-> "unavailable", portListen |-> "unavailable", resource |-> "unavailable"]

\* The engine must have named its operating system.
parseBackendInfo(answer) == answer \notin {"unreadable", "no-os"}

\* Doctor returns features and, unless the engine serves Linux containers, an
\* error with them.
Doctor(answer) ==
    CASE answer = "fails" \/ ~parseBackendInfo(answer) ->
             [err |-> TRUE, features |-> unavailableRunnerFeatures("unknown")]
      [] answer = "windows" -> [err |-> TRUE, features |-> unavailableRunnerFeatures(answer)]
      [] answer = "linux" ->
             [err |-> FALSE,
              features |-> [available |-> TRUE, os |-> answer, networkDeny |-> TRUE,
                            processExec |-> "best-effort", filesystemWrite |-> "unavailable",
                            portListen |-> "unavailable", resource |-> "unavailable"]]

\* Every backend is asked; the preferred one, or the first available one.
DetectBackends(answers) ==
    [i \in DOMAIN Backends |->
        LET doctor == Doctor(answers[Backends[i]])
        IN IF doctor.err THEN unavailableRunnerFeatures("unknown") ELSE doctor.features]
ProbedBackend(answers, preferred) ==
    LET all == DetectBackends(answers)
        usable == {i \in DOMAIN all : all[i].available}
        chosen == CASE preferred # "auto" -> CHOOSE i \in DOMAIN Backends : Backends[i] = preferred
                    [] preferred = "auto" /\ usable # {} ->
                           CHOOSE i \in usable : \A j \in usable : i <= j
                    [] OTHER -> 1
    IN [backend |-> Backends[chosen], features |-> all[chosen]]

---------------------------------------------------------------------------
coverageIsFull(value) == value = "full"
resourceCoverageIsAdequate(value) == coverageIsFull(value) \/ value = "high"
filesystemCoverageIsAdequate(value) == coverageIsFull(value) \/ value = "high"

observerIncomplete(observer, f) ==
    CASE observer = "process-exec" -> ~coverageIsFull(f.processExec)
      [] observer = "filesystem-write" -> ~filesystemCoverageIsAdequate(f.filesystemWrite)
      [] observer = "port-listen" -> ~coverageIsFull(f.portListen)
      [] observer = "resource-usage" -> ~resourceCoverageIsAdequate(f.resource)
      [] OTHER -> FALSE

\* The observer a feature is about, under either of its names.
ObserverOf(feature) ==
    CASE feature[1] = "observer" -> feature[2]
      [] feature[2] = "process-exec-observation" -> "process-exec"
      [] feature[2] = "filesystem-write-observation" -> "filesystem-write"
      [] feature[2] = "port-listen-observation" -> "port-listen"
      [] feature[2] = "resource-usage-observation" -> "resource-usage"
      [] OTHER -> "none"

\* Mutant: the runner does not know the signals' feature.
KnownFeatures_noSignal ==
    {"read-only-source", "isolated-workspace", "bounded-logs", "process-cleanup",
     "process-tree-cleanup", "cleanup-residue-classification", "read-only-root", "non-root",
     "background-service", "loopback-http-driver"}

\* What any available engine offers.
KnownFeatures ==
    {"read-only-source", "isolated-workspace", "bounded-logs", "process-cleanup",
     "process-tree-cleanup", "cleanup-residue-classification", "read-only-root", "non-root",
     "background-service", "service-signal", "loopback-http-driver"}

unavailableFeature(feature, f) ==
    LET linux == f.available /\ f.os = "linux"
        name == feature[2]
    IN CASE feature[1] = "platform" -> name \notin {"linux/amd64", "linux/arm64"} \/ ~linux
         [] feature[1] = "observer" ->
                /\ ~observerIncomplete(name, f)
                /\ ~(name = "network-enforcement" /\ f.networkDeny)
                /\ ~(name = "filesystem-write" /\ filesystemCoverageIsAdequate(f.filesystemWrite))
                /\ ~(name = "resource-usage" /\ resourceCoverageIsAdequate(f.resource))
         [] feature[1] = "network-allowlist" -> TRUE
         [] name = "linux-container" -> ~linux
         [] name \in {"network-deny", "network-enforcement"} -> ~f.networkDeny
         [] name \in KnownFeatures -> ~f.available
         [] ObserverOf(feature) # "none" -> FALSE
         [] OTHER -> TRUE

\* A hard requirement that is missing refuses the plan; an observer that is
\* not good enough is only listed.
NegotiateFeatures(required, f) ==
    [ok |-> \A feature \in required : ~unavailableFeature(feature, f),
     incomplete |-> {feature \in required : observerIncomplete(ObserverOf(feature), f)}]
=============================================================================
