----------------------------- MODULE MCPlanning -----------------------------
(***************************************************************************)
(* Two tables in one run: every manifest that differs from a valid CLI or  *)
(* HTTP manifest in at most two fields, through the planner and the        *)
(* runner; and every combination of verdicts through aggregate.            *)
(***************************************************************************)
EXTENDS Planning, VerdictTable

URL(port, canonical) == [port |-> port, canonical |-> canonical]
Headers(count, bytesOf, names) ==
    [count |-> count, bytes |-> bytesOf, names |-> names, contentType |-> FALSE,
     printable |-> TRUE, longValue |-> FALSE]
Include == <<"verification-summary", "normalized-observations">>
Exclude == <<"raw-stdout", "raw-stderr", "raw-syscall-trace">>

\* Each field's value in a valid CLI manifest, and the values it may be given
\* instead.
CLI == [
    yaml |-> <<"ok", "syntax", "two-documents", "alias", "unknown-field", "duplicate-key", "wrong-shape">>,
    apiVersion |-> <<"v1alpha1", "v2">>, kind |-> <<"RepoPassport", "Other">>,
    name |-> <<"demo", "Bad">>, projectKind |-> <<"cli", "other">>,
    entrypoint |-> <<"declared", "unknown">>, policy |-> <<"baseline-v1", "", "custom">>,
    scenario |-> <<"quickstart", "other">>, environment |-> <<"main", "unknown">>,
    os |-> <<"linux", "windows">>, architecture |-> <<"amd64", "arm64", "386">>,
    adapter |-> <<"node", "python", "ruby">>,
    version |-> <<"node-version", "python-version", "exact", "range", "">>,
    image |-> <<"node-image", "python-image", "pinned", "tag", "latest", "">>,
    pids |-> <<64, 0, 4096, 4097>>, cpu |-> <<1000, 0, 1, 64000, 64001>>,
    memory |-> <<512, 0, 65536, 65537>>, disk |-> <<1024, 0, 2048, 2049>>,
    envExtras |-> <<{}, {"requiredServices"}, {"requiredRunnerFeatures"}, {"time"}, {"logBytes"}>>,
    inputType |-> <<"file", "none", "directory", "string", "tape">>,
    inputName |-> <<"data", "Bad">>, inputRequired |-> <<TRUE, FALSE>>,
    inputChoices |-> <<FALSE, TRUE>>, inputReadOnly |-> <<TRUE, FALSE>>,
    fixture |-> << <<"data.txt">>, <<>>, <<"..", "data.txt">>, <<"a,b">> >>, fixtureFound |-> <<TRUE, FALSE>>,
    inputMount |-> << <<>>, <<"inputs", "a">>, <<"inputs">>, <<"etc", "a">>, <<"inputs", "..">>,
                      <<"inputs", "a,b">> >>,
    secondMount |-> << <<"none">>, <<"inputs", "data">>, <<"inputs", "data", "b">>, <<"inputs", "a", "b">>,
                       <<"inputs", "a,b">> >>,
    secret |-> <<"none", "synthetic", "literal", "unscoped">>,
    stepPhase |-> <<"setup", "none", "prepare", "build", "run", "cleanup">>,
    stepID |-> <<"install", "Bad", "", "stop", "app", "journey-cli">>,
    stepActs |-> <<{"run"}, {}, {"signal"}, {"run", "signal"}>>,
    stepArgv |-> <<"argv", "none", "nul">>, stepShell |-> <<FALSE, TRUE>>,
    stepExtras |-> <<{}, {"workingDirectory"}, {"environment"}, {"timeout"}, {"allowedExitCodes"}, {"outputMode"}>>,
    stepTimeout |-> <<Absent, 0, 1, MaxTimeout, MaxTimeout + 1>>,
    runTimeout |-> <<Absent, 0, MaxTimeout>>,
    cleanupTimeout |-> <<Absent, 0, 750, 751, 5 * Second, MaxTimeout, MaxTimeout + 1>>,
    exerciseTimeout |-> <<Absent, 0, 1, MaxTimeout, MaxTimeout + 1>>,
    extrasPhase |-> <<"exercise", "setup", "run", "cleanup">>,
    phaseExtras |-> <<{}, {"outputs"}, {"observerRequirements"}>>,
    signalPhase |-> <<"none", "cleanup", "run">>, signalLast |-> <<TRUE, FALSE>>,
    signalTarget |-> <<"app", "Bad", "db">>, signalType |-> <<"term", "kill", "usr1">>,
    signalGrace |-> <<Second, Absent, 0, 1, MaxGrace, MaxGrace + 1>>,
    service |-> <<FALSE, TRUE>>, serviceID |-> <<"app", "Bad", "install">>,
    serviceShell |-> <<FALSE, TRUE>>, serviceArgv |-> <<"argv", "none", "nul">>,
    serviceExtras |-> <<{}, {"workingDirectory"}, {"environment"}>>,
    readiness |-> <<TRUE, FALSE>>,
    readyURL |-> <<URL(3000, TRUE), URL(3000, FALSE), URL(4000, TRUE)>>,
    readyStatus |-> <<200, 199, 599, 600>>,
    readyTimeout |-> <<Second, Absent, 0, MaxReadiness, MaxReadiness + 1>>,
    driver |-> <<"cli", "none", "http", "grpc">>, driverArgv |-> <<"argv", "none", "nul">>,
    driverExtras |-> <<{}, {"timeout"}, {"stdinFixture"}>>,
    assertions |-> <<2, 0, 1>>, assertID |-> <<"check", "", "Bad", "get">>,
    secondID |-> <<"exit", "check", "">>,
    assertOps |-> <<{"stdoutContains"}, {}, {"exitCode"}, {"stderrContains"}, {"stdoutRegex"},
                    {"stdoutJsonSchema"}, {"stderrRegex"}, {"fileExists"}, {"response"}, {"jsonFile"},
                    {"exitCode", "stdoutRegex"}>>,
    assertText |-> <<"text", "empty", "bad-regex">>, assertRequired |-> <<TRUE, FALSE>>,
    assertPath |-> << <<"outputs", "a">>, <<"outputs">>, <<"workspace", "a">>, <<"outputs", "..">> >>,
    schemaPath |-> << <<"schemas", "a">>, <<"..", "a">>, <<"CON">>, <<>> >>,
    schemaEntry |-> <<"listed", "absent", "twice", "link", "too-large", "bad-digest", "outside-profile",
                     "component-link">>,
    journey |-> << <<>>, <<"request", "assert">>, <<"assert", "request">>, <<"request">>, <<"assert">>,
                   <<"request", "assert", "request">>, <<"request", "assert", "assert">>,
                   <<"request", "both">>, <<"request", "assert", "empty">> >>,
    moreRequests |-> <<0, 31, 32>>, moreAsserts |-> <<0, 126, 127>>,
    requestID |-> <<"get", "Bad", "check">>, method |-> <<"get", "post", "head", "GET", "trace">>,
    requestURL |-> <<URL(3000, TRUE), URL(3000, FALSE), URL(4000, TRUE)>>,
    requestTimeout |-> <<Absent, 0, 1, MaxTimeout, MaxTimeout + 1>>,
    requestBody |-> <<"none", "text", "large">>, requestJSON |-> <<"none", "value", "large">>,
    headers |-> <<Headers(1, 100, "lower"), Headers(1, 100, "mixed"), Headers(1, 100, "forbidden"),
                  Headers(64, 6400, "lower"), Headers(65, 6500, "lower"),
                  Headers(8, MaxHeaderBytes, "lower"), Headers(8, MaxHeaderBytes - 32, "lower"),
                  [Headers(1, 100, "lower") EXCEPT !.printable = FALSE],
                  [Headers(64, 6400, "lower") EXCEPT !.contentType = TRUE]>>,
    responseTo |-> <<"get", "other">>, status |-> <<200, 0, 199, 599, 600>>,
    headerMatch |-> <<"none", "match", "bad-name", "bad-value">>,
    bodyContains |-> <<"none", "match", "empty", "large">>,
    jsonPath |-> <<"none", "equals", "bad-path", "bad-value">>,
    responseExtras |-> <<{}, {"jsonSchema"}>>,
    capabilities |-> << {"setup", "run"}, {}, {"run"}, {"run", "exercise"} >>,
    deny |-> << {"setup", "run"}, {"run"}, {} >>, allow |-> << {}, {"setup"}, {"run"} >>,
    allowHost |-> <<"host.example", "10.0.0.1">>,
    writes |-> << {<<"outputs", "**">>}, {<<"outputs">>}, {<<"workspace">>}, {<<"..">>} >>,
    capExtras |-> <<{}, {"create"}, {"delete"}, {"rename"}, {"chmod"}, {"symlink"}, {"childProcesses"},
                    {"shell"}, {"backgroundProcesses"}, {"environment"}, {"secrets"}, {"resources"},
                    {"devices"}, {"hostIntegration"}>>,
    listeners |-> <<0, 1, 2>>, listenHost |-> <<"127.0.0.1", "0.0.0.0">>, listenPort |-> <<3000, 4000>>,
    protocol |-> <<"", "tcp", "udp">>,
    repeats |-> <<2, 0, 1, 3, 11>>, threshold |-> <<2, 0, 1, 3, 11>>,
    observers |-> <<{}, {"resource-usage"}, {"sonar"}>>,
    residue |-> << <<>>, << <<"outputs", "**">> >>, << <<"tmp">> >>, << <<"..">> >>,
                   << <<"outputs", "**">>, <<"outputs", "**">> >> >>,
    verExtras |-> <<{}, {"stabilityRule"}, {"resourceVariancePercent"}>>,
    evidence |-> <<"minimal-public", "full">>,
    include |-> <<Include, Include \o <<"sbom">>, Include \o <<"raw">>, <<Include[1], Include[1]>> >>,
    exclude |-> <<Exclude, <<Exclude[1]>> >>]

Fields == DOMAIN CLI

\* The fields in which the valid HTTP manifest differs, and their values.
HTTP == [
    adapter |-> 2, version |-> 2, image |-> 2, service |-> 2, signalPhase |-> 2, driver |-> 3,
    driverArgv |-> 2, assertions |-> 2, assertOps |-> 9, journey |-> 2, capabilities |-> 4,
    listeners |-> 2, inputType |-> 2]

Base(driver) ==
    [f \in Fields |-> IF driver = "http" /\ f \in DOMAIN HTTP THEN HTTP[f] ELSE 1]

\* The fields that some check relates; two of a group vary together.
Groups == {
    {"architecture", "adapter", "version", "image", "cpu", "memory", "disk", "pids"},
    {"inputType", "inputName", "inputRequired", "inputChoices", "inputReadOnly", "fixture",
     "fixtureFound", "inputMount", "secondMount"},
    {"stepPhase", "stepID", "stepActs", "stepArgv", "stepShell", "stepExtras", "stepTimeout",
     "extrasPhase", "phaseExtras", "signalPhase", "signalLast", "signalTarget", "signalType",
     "signalGrace", "cleanupTimeout", "service", "serviceID"},
    {"service", "serviceID", "serviceShell", "serviceArgv", "serviceExtras", "readiness", "readyURL",
     "readyStatus", "readyTimeout", "runTimeout", "driver", "listeners", "listenHost", "listenPort",
     "protocol", "capabilities", "requestURL"},
    {"driver", "driverArgv", "driverExtras", "assertions", "assertID", "secondID", "assertOps",
     "assertText", "assertRequired", "assertPath", "schemaPath", "schemaEntry", "journey", "stepID",
     "exerciseTimeout", "requestTimeout"},
    {"journey", "moreRequests", "moreAsserts", "requestID", "method", "requestURL", "requestBody",
     "requestJSON", "headers", "assertID", "responseTo"},
    {"assertOps", "responseTo", "status", "headerMatch", "bodyContains", "jsonPath",
     "responseExtras", "schemaPath", "schemaEntry"},
    {"capabilities", "deny", "allow", "allowHost", "writes", "capExtras", "protocol", "listeners"},
    {"repeats", "threshold", "residue", "verExtras"}}

Deviations(driver, fields) ==
    UNION {{<<f, i>> : i \in (DOMAIN CLI[f]) \ {Base(driver)[f]}} : f \in fields}
Pairs(driver, group) ==
    UNION {{{d, e} : e \in Deviations(driver, group \ {d[1]})} : d \in Deviations(driver, group)}

MCCases ==
    UNION {{<<driver, {}>>} \union {<<driver, {d}>> : d \in Deviations(driver, Fields)}
               \union UNION {{<<driver, p>> : p \in Pairs(driver, group)} : group \in Groups} :
           driver \in {"cli", "http"}}

Values(c) ==
    [f \in Fields |->
        LET own == {d \in c[2] : d[1] = f}
        IN CLI[f][IF own = {} THEN Base(c[1])[f] ELSE (CHOOSE d \in own : TRUE)[2]]]

\* What is said of a phase's capabilities is said only of the declared ones;
\* the further steps of a journey repeat a kind of step it has.
Scenario(c) ==
    LET m == Values(c)
        run == "run" \in m.capabilities
    IN [m EXCEPT !.deny = IF c[1] = "http" /\ @ = {"setup", "run"}
                          THEN m.capabilities ELSE @ \cap m.capabilities,
                 !.allow = @ \cap m.capabilities,
                 !.moreRequests = IF Count(m.journey, "request") > 0 THEN @ ELSE 0,
                 !.moreAsserts = IF Count(m.journey, "assert") > 0 THEN @ ELSE 0,
                 !.listeners = IF run THEN @ ELSE 0,
                 !.writes = IF run THEN @ ELSE {}]

\* A rewritten second half says what another valid manifest says.
MCText(c, halves) == IF halves = <<>> \/ halves[2] = 0 THEN Scenario(c) ELSE Scenario(<<"cli", {}>>)

SchemaCLI == <<"cli", {<<"assertOps", 6>>}>>
MCEditedCases == {SchemaCLI, <<"http", {<<"responseExtras", 2>>}>>}
AVerdict == CHOOSE verdicts \in Verdicts : TRUE

Init ==
    \/ VerdictInit /\ PlanningStart(<<"cli", {}>>, "refused")
    \/ v = AVerdict /\ PlanningInit
Next == PlanningNext /\ UNCHANGED v
Spec == Init /\ [][Next]_<<planning, v>>
=============================================================================
