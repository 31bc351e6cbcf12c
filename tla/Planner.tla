------------------------------ MODULE Planner -------------------------------
(***************************************************************************)
(* internal/planner: from a valid manifest and a source snapshot to a      *)
(* resolved plan, or a refusal.  A plan has no place for much of what a    *)
(* manifest may say; what it has no place for must be refused first.       *)
(***************************************************************************)
EXTENDS Manifest

\* internal/runtimepolicy: the approved runtimes.
approvedRuntimes ==
    {[adapter |-> "node", version |-> "node-version", image |-> "node-image",
      platform |-> "linux/amd64"],
     [adapter |-> "python", version |-> "python-version", image |-> "python-image",
      platform |-> "linux/amd64"]}
RuntimeApproved(adapter, version, image, platform) ==
    [adapter |-> adapter, version |-> version, image |-> image, platform |-> platform]
        \in approvedRuntimes

sortedUnique(values) == Range(values) \ {""}
exactStringSet(actual, expected) == Len(actual) = Cardinality(expected) /\ Range(actual) = expected
normalizedTimeout(t, fallback) == IF t = Absent THEN fallback ELSE t
pathWithinOutputs(p) == Head(p) = "outputs"

---------------------------------------------------------------------------
\* The refusals, in the order Resolve makes them.

PublicInclude == {"normalized-observations", "verification-summary"}
PublicExclude == {"raw-stderr", "raw-stdout", "raw-syscall-trace"}

validateEvidenceProfile(m) ==
    /\ m.evidence = "minimal-public"
    /\ \/ exactStringSet(m.include, PublicInclude)
       \/ exactStringSet(m.include, PublicInclude \union {"sbom"})
    /\ exactStringSet(m.exclude, PublicExclude)

ContractRequest(m) ==
    /\ ParseAlphaHTTPURL(m.requestURL) /\ m.requestURL.port = DeclaredPort(m)
    /\ ParseAlphaHTTPDuration(normalizedTimeout(m.requestTimeout,
                                  normalizedTimeout(m.exerciseTimeout, Minute)), MaxTimeout)
    /\ ValidateAlphaHTTPHeaders(m.headers, HasJSON(m))
    /\ ~(HasBody(m) /\ HasJSON(m))
    /\ m.requestBody # "large" /\ m.requestJSON # "large"

ContractAssertion(m) ==
    /\ "fileExists" \in m.assertOps => ValidateAlphaHTTPOutputPath(m.assertPath)
    /\ "response" \in m.assertOps =>
           /\ m.status # 0 => m.status >= MinStatus /\ m.status <= MaxStatus
           /\ m.bodyContains \notin {"empty", "large"}
           /\ m.headerMatch # "bad-value"

ContractSignal(m) == RequestCount(m) <= MaxRequests /\ ValidCleanupSignal(m)

validateHTTPAlphaExecutionContract(m) ==
    /\ StepCount(m) <= MaxJourneySteps
    /\ m.service /\ Steps(m, "cleanup") # <<>>
    /\ m.readiness
    /\ ParseAlphaHTTPURL(m.readyURL) /\ DeclaredPort(m) # 0 /\ m.readyURL.port = DeclaredPort(m)
    /\ m.readyStatus >= MinStatus /\ m.readyStatus <= MaxStatus
    /\ ParseAlphaHTTPDuration(m.readyTimeout, MaxReadiness)
    /\ ParseAlphaHTTPDuration(normalizedTimeout(m.exerciseTimeout, Minute), MaxTimeout)
    /\ \A i \in DOMAIN m.journey :
           /\ m.journey[i] = "request" => ContractRequest(m)
           /\ m.journey[i] = "assert" => ContractAssertion(m)
    /\ ContractSignal(m)

validateExecutableProfile(m) ==
    /\ m.inputType # "none" => ~(Mounted(m) /\ m.inputChoices) /\ m.inputRequired
    /\ m.driver = "http" =>
           /\ validateHTTPAlphaExecutionContract(m)
           /\ "assert" \in Range(m.journey) => m.assertRequired
    /\ m.driver = "cli" =>
           /\ "stdinFixture" \notin m.driverExtras
           /\ \A n \in 1..m.assertions :
                  /\ Assertion(m, n).required
                  /\ Assertion(m, n).ops \cap {"jsonFile", "response"} = {}

HTTPServiceID(m) == IF m.driver = "http" THEN ServiceID(m) ELSE ""

EnvironmentFeatures(m) ==
    m.envExtras \cap {"requiredServices", "requiredRunnerFeatures", "time", "logBytes"} = {}

ServiceFeatures(m) ==
    m.service => HTTPServiceID(m) # "" /\ m.serviceExtras \cap {"workingDirectory", "environment"} = {}

StepFeatures(m, phase, step) ==
    IF "signal" \in step.acts
    THEN phase = "cleanup" /\ HTTPServiceID(m) # "" /\ step.target = HTTPServiceID(m)
    ELSE "run" \in step.acts =>
             /\ ~step.shell
             /\ step.extras \cap {"workingDirectory", "environment", "timeout",
                                  "allowedExitCodes", "outputMode"} = {}

PhaseFeatures(m) ==
    /\ Declared(m, m.extrasPhase) => m.phaseExtras \cap {"observerRequirements", "outputs"} = {}
    /\ \A p \in StepPhases : \A i \in DOMAIN Steps(m, p) : StepFeatures(m, p, Steps(m, p)[i])

AssertionFeatures(a) ==
    /\ "stderrRegex" \notin a.ops
    /\ a.ops \cap {"stdoutContains", "stderrContains", "stdoutRegex"} # {} => a.text # "empty"

DriverFeatures(m) ==
    /\ "timeout" \notin m.driverExtras
    /\ \A n \in 1..m.assertions : AssertionFeatures(Assertion(m, n))

CapabilityFeatures(m) ==
    /\ m.allow = {}
    /\ "run" \in m.capabilities =>
           /\ \A p \in m.writes : pathWithinOutputs(p)
           /\ m.capExtras \cap {"create", "delete", "rename", "chmod", "symlink",
                                "childProcesses", "shell", "backgroundProcesses", "environment",
                                "secrets", "resources", "devices", "hostIntegration"} = {}
           /\ m.listeners > 0 => \/ m.protocol = ""
                                 \/ HTTPServiceID(m) # "" /\ m.protocol = "tcp"

VerificationFeatures(m) ==
    /\ m.threshold >= m.repeats
    /\ m.verExtras \cap {"stabilityRule", "resourceVariancePercent"} = {}
    /\ m.residue \in {<<>>, << <<"outputs", "**">> >>}

validateSchemaExecutionFeatures(m) ==
    /\ EnvironmentFeatures(m)
    /\ ServiceFeatures(m)
    /\ PhaseFeatures(m)
    /\ DriverFeatures(m)
    /\ CapabilityFeatures(m)
    /\ VerificationFeatures(m)

MountPath(m) == IF m.inputMount = <<>> THEN <<"inputs", m.inputName>> ELSE m.inputMount

\* Inputs are files or directories of the snapshot, mounted apart.
validateResolvedInputs(m) ==
    m.inputType # "none" =>
        /\ Mounted(m)
        /\ m.fixtureFound
        /\ ~IsPrefix(MountPath(m), m.secondMount) /\ ~IsPrefix(m.secondMount, MountPath(m))

---------------------------------------------------------------------------
\* The schema a structured assertion names, as the inventory lists it.

UsesSchema(m) ==
    LET ops == IF m.driver = "http" THEN m.assertOps
               ELSE UNION {Assertion(m, n).ops : n \in 1..m.assertions}
    IN \/ ops \cap {"stdoutJsonSchema", "jsonFile"} # {}
       \/ "response" \in ops /\ "jsonSchema" \in m.responseExtras

schemaInventoryEntry(m) == m.schemaEntry \notin {"absent", "twice"}
validSchemaDigest(m) == m.schemaEntry # "bad-digest"
validSchemaRepositoryPath(p) == validPortableRepositoryPath(p)

SchemaListed(m) ==
    /\ validSchemaRepositoryPath(m.schemaPath)
    /\ schemaInventoryEntry(m)
    /\ m.schemaEntry # "link"
    /\ m.schemaEntry # "too-large"
    /\ validSchemaDigest(m)

\* On disk, a component of the path may have become a link.
validateSchemaPathComponents(m) == m.schemaEntry # "component-link"

CompileSchema(m) == m.schemaEntry # "outside-profile"

---------------------------------------------------------------------------
\* The plan.

\* A command's readiness and signal are there or not: sequences of at most
\* one element.
Command(phase, id, role, argv, timeout) ==
    [phase |-> phase, id |-> id, role |-> role, argv |-> argv, timeout |-> timeout,
     readiness |-> <<>>, signal |-> <<>>]
Foreground(phase, step, timeout) == Command(phase, step.id, "foreground", step.argv, timeout)
Signal(phase, step, timeout) ==
    [Command(phase, step.id, "signal", "none", timeout) EXCEPT
        !.signal = << [target |-> step.target, type |-> step.type, grace |-> step.grace] >>]

\* A run step with an argument list, or a signal; anything else is dropped.
PlanSteps(m, phase, fallback) ==
    LET timeout == normalizedTimeout(PhaseTimeout(m, phase), fallback)
        kept(step) == ("run" \in step.acts /\ step.argv # "none") \/ "signal" \in step.acts
        planned(step) == IF "run" \in step.acts /\ step.argv # "none"
                         THEN Foreground(phase, step, timeout) ELSE Signal(phase, step, timeout)
        steps == SelectSeq(Steps(m, phase), kept)
    IN [i \in DOMAIN steps |-> planned(steps[i])]

ServiceCommand(m) ==
    LET readiness == [url |-> m.readyURL, status |-> m.readyStatus,
                      timeout |-> normalizedTimeout(m.readyTimeout, 30 * Second)]
    IN IF ~m.service THEN <<>>
       ELSE << [Command("run", m.serviceID, "service", m.serviceArgv,
                        normalizedTimeout(m.runTimeout, 2 * Minute)) EXCEPT
                   !.readiness = IF m.readiness THEN <<readiness>> ELSE <<>>] >>

JourneyCommand(m) ==
    IF m.driverArgv = "none" THEN <<>>
    ELSE << Command("exercise", "journey-cli", "journey", m.driverArgv,
                    normalizedTimeout(m.exerciseTimeout, Minute)) >>

resolvedCommands(m) ==
    PlanSteps(m, "prepare", 2 * Minute) \o PlanSteps(m, "setup", 5 * Minute)
        \o PlanSteps(m, "build", 5 * Minute) \o PlanSteps(m, "run", 2 * Minute)
        \o ServiceCommand(m) \o JourneyCommand(m) \o PlanSteps(m, "cleanup", 30 * Second)

\* An assertion keeps the operations a plan has a field for; text that is
\* empty leaves the field as if it were not there.
PlanOps(m, a) ==
    IF m.driver = "http" THEN a.ops \cap {"fileExists", "response", "jsonFile"}
    ELSE {op \in a.ops \cap {"exitCode", "stdoutContains", "stderrContains", "stdoutRegex",
                             "stdoutJsonSchema", "fileExists"} :
             op \in {"stdoutContains", "stderrContains", "stdoutRegex"} => a.text # "empty"}

PlanAssertion(m, a) ==
    [id |-> IF a.id = "" THEN "assertion" ELSE a.id, ops |-> PlanOps(m, a), text |-> a.text,
     path |-> a.path]

resolvedAssertions(m) ==
    IF m.driver = "http"
    THEN [i \in 1..Count(m.journey, "assert") |-> PlanAssertion(m, Assertion(m, 1))]
    ELSE [n \in 1..m.assertions |-> PlanAssertion(m, Assertion(m, n))]

\* The journey's requests, with the headers in lower case and the assertions
\* by their ids.
normalizedHTTPHeaders(h) == [h EXCEPT !.names = IF @ = "mixed" THEN "lower" ELSE @]
resolvedHTTPJourney(m) ==
    [service |-> m.serviceID, steps |-> m.journey, more |-> <<m.moreRequests, m.moreAsserts>>,
     id |-> m.requestID, method |-> m.method, url |-> m.requestURL,
     headers |-> normalizedHTTPHeaders(m.headers), body |-> m.requestBody, json |-> m.requestJSON,
     timeout |-> normalizedTimeout(m.requestTimeout, normalizedTimeout(m.exerciseTimeout, Minute))]

resolvedCapabilities(m) ==
    [deny |-> m.deny \union (Range(OrderedPhases) \ m.capabilities), allow |-> m.allow,
     listeners |-> m.listeners, host |-> m.listenHost, port |-> m.listenPort,
     protocol |-> IF m.driver = "http" /\ m.protocol = "" THEN "tcp" ELSE m.protocol]

resolvedInputs(m) ==
    IF m.inputType = "none" THEN <<>>
    ELSE << [mount |-> MountPath(m), type |-> m.inputType, fixture |-> m.fixture,
             readOnly |-> m.inputReadOnly] >>
             \o (IF m.secondMount = <<"none">> THEN <<>>
                 ELSE << [mount |-> m.secondMount, type |-> "file", fixture |-> <<"other.txt">>,
                          readOnly |-> TRUE] >>)

resolvedObservers(m) ==
    m.observers \union {"filesystem-write", "network-enforcement", "port-listen", "process-exec"}

Platform(m) == IF m.architecture = "amd64" THEN "linux/amd64" ELSE "linux/arm64"

PlanFeatures(m) ==
    LET plain == {"linux-container", "read-only-source", "isolated-workspace", "network-deny",
                  "bounded-logs", "process-cleanup", "cleanup-residue-classification"}
        http == {"background-service", "loopback-http-driver", "service-signal"}
    IN ({"plain"} \X (IF m.driver = "http" THEN plain \union http ELSE plain))
           \union ({"platform"} \X {Platform(m)})
           \union ({"observer"} \X resolvedObservers(m))
           \union ({"network-allowlist"} \X m.allow)

\* The expected value of a JSON path is encoded and read back.
ExpectedJSON(m) == (m.driver = "http" /\ "response" \in m.assertOps) => m.jsonPath # "bad-value"

\* What Resolve refuses before it reads a schema.
Resolvable(m) ==
    /\ Validate(m)
    /\ m.scenario = "quickstart"
    /\ validateExecutableProfile(m)
    /\ validateEvidenceProfile(m)
    /\ validateSchemaExecutionFeatures(m)
    /\ m.secret = "none"
    /\ validateResolvedInputs(m)
    /\ IsPinnedImage(m.image)
    /\ IsExactRuntimeVersion(m.version)
    /\ RuntimeApproved(m.adapter, m.version, m.image,
                       Platform(m))
    /\ m.policy = "baseline-v1"
    /\ ExpectedJSON(m)

JourneyDriverVersion(driver) == IF driver = "cli" THEN "0.2.0" ELSE "0.1.0"

\* What the plan's digest covers of what a later override changes.
digestPlan(repeats, threshold) == <<repeats, threshold>>

\* The snapshot is the manifest's text and the schema's version; a digest
\* stands for what was hashed.
Resolve(m, snapshot) ==
    [schemaVersion |-> "4", treeDigest |-> snapshot,
     planDigest |-> digestPlan(m.repeats, m.threshold),
     adapter |-> m.adapter, version |-> m.version, image |-> m.image, imageDigest |-> <<m.image>>,
     cpu |-> m.cpu, memory |-> m.memory, disk |-> m.disk, pids |-> m.pids,
     inputs |-> resolvedInputs(m),
     driver |-> m.driver, driverVersion |-> JourneyDriverVersion(m.driver),
     commands |-> resolvedCommands(m), assertions |-> resolvedAssertions(m),
     journey |-> IF m.driver = "http" THEN <<resolvedHTTPJourney(m)>> ELSE <<>>,
     response |-> [to |-> m.responseTo, status |-> m.status, header |-> m.headerMatch,
                   body |-> m.bodyContains, jsonPath |-> m.jsonPath,
                   schema |-> "jsonSchema" \in m.responseExtras],
     schema |-> [path |-> m.schemaPath, digest |-> <<snapshot[2]>>, dialect |-> "2020-12",
                 validator |-> "alpha"],
     classifier |-> "0.1.0", residue |-> m.residue,
     evidence |-> m.evidence, include |-> sortedUnique(m.include),
     exclude |-> sortedUnique(m.exclude),
     capabilities |-> resolvedCapabilities(m), features |-> PlanFeatures(m),
     observers |-> resolvedObservers(m),
     repeats |-> m.repeats, threshold |-> m.threshold]

\* verify --repeats: more repeats, and no more failures allowed than before.
MaxRepeats == 10
OverrideAllowed(plan, requested) == requested >= plan.repeats /\ requested <= MaxRepeats
OverrideRepeats(plan, requested) ==
    LET threshold == requested - (plan.repeats - plan.threshold)
    IN IF requested = plan.repeats THEN plan
       ELSE [plan EXCEPT !.repeats = requested, !.threshold = threshold,
                         !.planDigest = digestPlan(requested, threshold)]
=============================================================================
