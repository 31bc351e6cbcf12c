------------------------------ MODULE Manifest ------------------------------
(***************************************************************************)
(* internal/manifest: what load and Validate ask of a manifest.            *)
(*                                                                         *)
(* A manifest m is a flat record: the document, its one environment, its   *)
(* one scenario.  Durations are milliseconds, sizes MiB, processor shares  *)
(* thousandths; paths are sequences of segments; a string whose bytes do   *)
(* not matter is one of a few classes.  An "extras" field is the set of    *)
(* optional fields the manifest gives there.                               *)
(***************************************************************************)
EXTENDS Integers, Sequences, FiniteSets, SequencesExt

Absent == -1                    \* a duration the manifest leaves out
Second == 1000
Minute == 60 * Second
MaxTimeout == 30 * Minute
MaxReadiness == 2 * Minute
MaxGrace == 10 * Second
MaxJourneySteps == 128
MaxRequests == 32
MaxHeaders == 64
MaxHeaderBytes == 65536
MinStatus == 200
MaxStatus == 599

OrderedPhases == <<"prepare", "setup", "build", "run", "exercise", "cleanup">>
StepPhases == {"prepare", "setup", "build", "run", "cleanup"}

---------------------------------------------------------------------------
\* The classes of value.

identifierPattern(id) == id \notin {"", "Bad"}
namePattern(name) == name \notin {"", "Bad"}
supportedHTTPMethods == {"get", "head", "post", "put", "patch", "delete", "options"}
validateArgv(argv) == argv = "argv"
validateTimeout(t) == t = Absent \/ (t > 0 /\ t <= MaxTimeout)
ParseAlphaHTTPDuration(t, max) == t >= 1 /\ t <= max
validateHTTPDuration(t, max) == t = Absent \/ ParseAlphaHTTPDuration(t, max)
ParseAlphaHTTPURL(u) == u.canonical
validateHTTPURLPort(u, port) == (port # 0 /\ ParseAlphaHTTPURL(u)) => u.port = port
validSandboxPath(p) == p # <<>> /\ ".." \notin Range(p)
validSandboxGlob(p) ==
    LET base == IF p # <<>> /\ Last(p) \in {"**", "*"} THEN Front(p) ELSE p
    IN validSandboxPath(base)
ValidateAlphaHTTPOutputPath(p) == validSandboxPath(p) /\ Head(p) = "outputs"
portableWindowsDeviceName(segment) == segment = "CON"
validPortableRepositoryPath(p) ==
    p # <<>> /\ \A s \in Range(p) : s # ".." /\ ~portableWindowsDeviceName(s)
validHostname(host) == host = "host.example"
validSize(mib) == mib > 0 /\ mib <= 1073741824
validCPU(millis) == millis >= 1 /\ millis <= 64000
IsPinnedImage(image) == image \in {"node-image", "python-image", "pinned"}
IsExactRuntimeVersion(version) == version \in {"node-version", "python-version", "exact"}

\* The effective headers of a request, the driver's own content type included.
ValidateAlphaHTTPHeaders(h, hasJSON) ==
    LET own == IF hasJSON /\ ~h.contentType THEN 1 ELSE 0
    IN /\ h.printable /\ ~h.longValue
       /\ h.count + own <= MaxHeaders
       /\ h.bytes + 32 * own <= MaxHeaderBytes

---------------------------------------------------------------------------
\* The parts of a scenario.

OwnStep(m) ==
    [id |-> m.stepID, acts |-> m.stepActs, argv |-> m.stepArgv, shell |-> m.stepShell,
     extras |-> m.stepExtras, target |-> "app", type |-> "term", grace |-> Second]
SignalStep(m) ==
    [id |-> "stop", acts |-> {"signal"}, argv |-> "none", shell |-> FALSE,
     extras |-> {}, target |-> m.signalTarget, type |-> m.signalType, grace |-> m.signalGrace]

\* A phase's steps: one of the scenario's own and the service's signal.
Steps(m, phase) ==
    LET own == IF m.stepPhase = phase THEN <<OwnStep(m)>> ELSE <<>>
        signal == IF m.signalPhase = phase THEN <<SignalStep(m)>> ELSE <<>>
    IN IF m.signalLast THEN own \o signal ELSE signal \o own

Declared(m, phase) ==
    \/ Steps(m, phase) # <<>>
    \/ phase = "run" /\ m.service
    \/ phase = "exercise" /\ m.driver # "none"

PhaseTimeout(m, phase) ==
    CASE phase = "run" -> m.runTimeout
      [] phase = "exercise" -> m.exerciseTimeout
      [] phase = "cleanup" -> m.cleanupTimeout
      [] OTHER -> m.stepTimeout

ServiceID(m) == IF m.service THEN m.serviceID ELSE ""

Assertion(m, n) ==
    IF n = 1 THEN [id |-> m.assertID, ops |-> m.assertOps, text |-> m.assertText,
                   required |-> m.assertRequired, path |-> m.assertPath]
             ELSE [id |-> m.secondID, ops |-> {"exitCode"}, text |-> "text",
                   required |-> TRUE, path |-> <<>>]
Assertions(m) == [n \in 1..m.assertions |-> Assertion(m, n)]

HasBody(m) == m.requestBody # "none"
HasJSON(m) == m.requestJSON # "none"

Count(s, kind) == Cardinality({i \in DOMAIN s : s[i] = kind})
RequestCount(m) == Count(m.journey, "request") + m.moreRequests
AssertCount(m) == Count(m.journey, "assert") + m.moreAsserts
StepCount(m) == Len(m.journey) + m.moreRequests + m.moreAsserts

---------------------------------------------------------------------------
\* Loading: one YAML document of known fields, no aliases, duplicate keys or
\* literal secrets, that satisfies the public schema.

rejectAliases(m) == m.yaml # "alias"
detectLiteralSecret(m) == m.secret # "literal"
validateKnownFields(m) == m.yaml # "unknown-field"
duplicateKeyError(m) == m.yaml # "duplicate-key"

\* What the public schema asks beyond Validate.
ValidateManifest(m) ==
    /\ m.yaml # "wrong-shape"
    /\ m.driver = "cli" => \A n \in 1..m.assertions : identifierPattern(Assertion(m, n).id)
    /\ m.driver = "http" => "stdinFixture" \notin m.driverExtras

load(m) ==
    /\ m.yaml \notin {"syntax", "two-documents"}
    /\ rejectAliases(m)
    /\ detectLiteralSecret(m)
    /\ validateKnownFields(m) /\ duplicateKeyError(m)
    /\ ValidateManifest(m)

---------------------------------------------------------------------------
\* Validation: every clause says that the code adds no finding.

ValidHeader(m) ==
    /\ m.apiVersion = "v1alpha1"
    /\ m.kind = "RepoPassport"
    /\ namePattern(m.name)
    /\ m.projectKind # "other"
    /\ m.entrypoint # "unknown"

ValidEnvironment(m) ==
    /\ m.os = "linux"
    /\ m.architecture \in {"amd64", "arm64"}
    /\ m.adapter \in {"node", "python"}
    /\ m.version # ""
    /\ m.image \notin {"", "latest"}
    /\ m.pids > 0 /\ m.pids <= 4096
    /\ validCPU(m.cpu)
    /\ validSize(m.memory) /\ validSize(m.disk)

Mounted(m) == m.inputType \in {"file", "directory"}

ValidInputs(m) ==
    m.inputType # "none" =>
        /\ identifierPattern(m.inputName)
        /\ m.inputType \in {"string", "integer", "boolean", "file", "directory", "json",
                            "secret-reference", "choice"}
        /\ Mounted(m) => m.inputReadOnly
        /\ Mounted(m) => m.fixture # <<>> /\ ".." \notin Range(m.fixture)
        /\ m.inputMount # <<>> =>
               validSandboxPath(m.inputMount) /\ Head(m.inputMount) = "inputs"
                                              /\ Len(m.inputMount) > 1

ValidSecrets(m) == m.secret \in {"none", "synthetic"}

validateStep(step) ==
    /\ ~step.shell
    /\ identifierPattern(step.id)
    /\ Cardinality(step.acts) = 1
    /\ "run" \in step.acts => (step.argv # "none") # step.shell /\ validateArgv(step.argv)
    /\ "signal" \in step.acts =>
           /\ identifierPattern(step.target)
           /\ step.type \in {"term", "kill", "int", "hup"}
           /\ validateTimeout(step.grace)

\* The ids of the phases' steps and of the service are all different.
StepIDs(m) ==
    LET own == IF m.stepPhase = "none" THEN <<>> ELSE <<m.stepID>>
        signal == IF m.signalPhase = "none" THEN <<>> ELSE <<"stop">>
        service == IF m.service THEN <<m.serviceID>> ELSE <<>>
    IN own \o signal \o service

validateSteps(m) ==
    /\ \A p \in StepPhases : \A i \in DOMAIN Steps(m, p) : validateStep(Steps(m, p)[i])
    /\ IsInjective(StepIDs(m))

ValidPhases(m) ==
    /\ \A p \in Range(OrderedPhases) : Declared(m, p) => validateTimeout(PhaseTimeout(m, p))
    /\ validateSteps(m)

ValidService(m) ==
    m.service =>
        /\ ~m.serviceShell
        /\ identifierPattern(m.serviceID)
        /\ (m.serviceArgv # "none") # m.serviceShell /\ validateArgv(m.serviceArgv)
        /\ m.readiness
        /\ ParseAlphaHTTPURL(m.readyURL)
        /\ m.readyStatus >= MinStatus /\ m.readyStatus <= MaxStatus
        /\ ParseAlphaHTTPDuration(m.readyTimeout, MaxReadiness)

\* A signal may only reach the declared service, and only during cleanup.
validateSignalTargets(m) ==
    \A p \in StepPhases : \A i \in DOMAIN Steps(m, p) :
        "signal" \in Steps(m, p)[i].acts =>
            /\ ServiceID(m) # ""
            /\ Steps(m, p)[i].target = ServiceID(m)
            /\ p = "cleanup"

validateAssertion(m, a) ==
    /\ a.id # "" => identifierPattern(a.id)
    /\ Cardinality(a.ops) = 1
    /\ a.ops \cap {"stdoutRegex", "stderrRegex"} # {} => a.text # "bad-regex"
    /\ a.ops \cap {"stdoutJsonSchema", "jsonFile"} # {} => validPortableRepositoryPath(m.schemaPath)
    /\ a.ops \cap {"fileExists", "jsonFile"} # {} => validSandboxPath(a.path)

ValidCLI(m) ==
    /\ validateArgv(m.driverArgv)
    /\ m.assertions > 0
    /\ m.journey = <<>>

\* The seen ids and the assertions of either driver.
ValidAssertions(m) ==
    /\ \A i, j \in 1..m.assertions :
           (i # j /\ identifierPattern(Assertion(m, i).id)) => Assertion(m, i).id # Assertion(m, j).id
    /\ \A i \in 1..m.assertions : validateAssertion(m, Assertion(m, i))

---------------------------------------------------------------------------
\* The HTTP profile.

DeclaredPort(m) == IF m.listeners = 1 THEN m.listenPort ELSE 0

ValidListener(m) ==
    /\ m.listeners = 1
    /\ m.listenHost = "127.0.0.1"
    /\ m.protocol \in {"", "tcp"}
    /\ m.readiness => validateHTTPURLPort(m.readyURL, DeclaredPort(m))

\* The cleanup steps that signal the service.
ServiceSignals(m) ==
    {i \in DOMAIN Steps(m, "cleanup") :
        "signal" \in Steps(m, "cleanup")[i].acts /\ Steps(m, "cleanup")[i].target = ServiceID(m)}

ValidCleanupSignal(m) ==
    /\ Cardinality(ServiceSignals(m)) = 1
    /\ \A i \in ServiceSignals(m) :
           /\ i = Len(Steps(m, "cleanup"))
           /\ ParseAlphaHTTPDuration(Steps(m, "cleanup")[i].grace, MaxGrace)

validateHTTPRequestHeaders(m) ==
    /\ ValidateAlphaHTTPHeaders(m.headers, HasJSON(m))
    /\ m.headers.names \in {"lower", "mixed"}

validateHTTPRequest(m) ==
    /\ identifierPattern(m.requestID)
    /\ Count(m.journey, "request") = 1
    /\ m.method \in supportedHTTPMethods
    /\ ParseAlphaHTTPURL(m.requestURL)
    /\ validateHTTPURLPort(m.requestURL, DeclaredPort(m))
    /\ validateHTTPDuration(m.requestTimeout, MaxTimeout)
    /\ validateHTTPRequestHeaders(m)
    /\ ~(HasBody(m) /\ HasJSON(m))
    /\ m.requestBody # "large" /\ m.requestJSON # "large"

validateHTTPAssertionID(m) ==
    /\ identifierPattern(m.assertID)
    /\ Count(m.journey, "assert") = 1
    /\ "request" \in Range(m.journey) => m.assertID # m.requestID

\* i is the assertion's place in the journey.
validateHTTPResponseAssertion(m, i) ==
    /\ \E j \in 1..(i - 1) : m.journey[j] = "request" /\ m.requestID = m.responseTo
    /\ m.status # 0 => m.status >= MinStatus /\ m.status <= MaxStatus
    /\ m.headerMatch \in {"none", "match"}
    /\ m.bodyContains \in {"none", "match"}
    /\ m.jsonPath # "bad-path"
    /\ "jsonSchema" \in m.responseExtras => validPortableRepositoryPath(m.schemaPath)
    /\ \/ m.status # 0
       \/ "match" \in {m.headerMatch, m.bodyContains}
       \/ m.jsonPath # "none"
       \/ "jsonSchema" \in m.responseExtras

ValidHTTPAssertion(m, i) ==
    LET a == Assertion(m, 1)
    IN /\ validateHTTPAssertionID(m)
       /\ validateAssertion(m, a)
       /\ a.ops \cap {"fileExists", "jsonFile"} # {} => ValidateAlphaHTTPOutputPath(a.path)
       /\ a.ops \subseteq {"response", "fileExists", "jsonFile"}
       /\ "response" \in a.ops => validateHTTPResponseAssertion(m, i)

validateHTTPProfile(m) ==
    /\ m.service
    /\ ValidListener(m)
    /\ validateHTTPDuration(m.exerciseTimeout, MaxTimeout)
    /\ ValidCleanupSignal(m)
    /\ StepCount(m) > 0 /\ StepCount(m) <= MaxJourneySteps
    /\ \A i \in DOMAIN m.journey :
           /\ m.journey[i] \in {"request", "assert"}
           /\ m.journey[i] = "request" => validateHTTPRequest(m)
           /\ m.journey[i] = "assert" => ValidHTTPAssertion(m, i)
    /\ RequestCount(m) > 0 /\ RequestCount(m) <= MaxRequests
    /\ AssertCount(m) > 0

ValidExercise(m) ==
    /\ m.driver \in {"cli", "http"}
    /\ m.driver = "cli" => ValidCLI(m)
    /\ m.driver = "http" => m.driverArgv = "none" /\ m.assertions = 0 /\ validateHTTPProfile(m)
    /\ m.driver # "http" => ServiceID(m) = ""
    /\ ValidAssertions(m)

ValidCapabilities(m) ==
    /\ \A p \in m.capabilities \cap {"run", "exercise"} : p \in m.deny /\ p \notin m.allow
    /\ m.deny \cap m.allow = {}
    /\ m.allow # {} => validHostname(m.allowHost)
    /\ \A p \in m.writes : validSandboxGlob(p)

ValidVerification(m) ==
    /\ m.repeats > 0
    /\ m.threshold > 0 /\ m.threshold <= m.repeats
    /\ m.observers \subseteq {"process-exec", "filesystem-write", "port-listen",
                              "network-enforcement", "resource-usage"}
    /\ \A p \in Range(m.residue) : validSandboxGlob(p)

ValidScenario(m) ==
    /\ m.environment = "main"
    /\ ValidInputs(m) /\ ValidSecrets(m)
    /\ ValidPhases(m) /\ ValidService(m) /\ validateSignalTargets(m)
    /\ ValidExercise(m)
    /\ ValidCapabilities(m)
    /\ ValidVerification(m)

Validate(m) ==
    /\ ValidHeader(m)
    /\ ValidEnvironment(m)
    /\ ValidScenario(m)
    /\ m.policy # ""
=============================================================================
