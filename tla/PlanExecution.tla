--------------------------- MODULE PlanExecution ----------------------------
(***************************************************************************)
(* internal/execution: what the runner itself asks of a resolved plan      *)
(* before it prepares anything (validatePlan, validateHTTPPlan), and of    *)
(* its inputs and schemas once the source is copied.  The checks are the   *)
(* runner's own, written apart from the planner's.                         *)
(***************************************************************************)
EXTENDS Planner, Backend

\* Times in milliseconds, sizes in MiB.
DefaultConfig ==
    [cleanupTimeout |-> 15 * Second, maxStepTimeout |-> 30 * Minute, maxDisk |-> 2048,
     maxPIDs |-> 4096, maxMemory |-> 65536, maxCPUMillis |-> 64000,
     maxHTTPHeaderBytes |-> 65536]

normalizedConfig(config) ==
    [f \in DOMAIN config |-> IF config[f] <= 0 THEN DefaultConfig[f] ELSE config[f]]

\* The commands use no other configuration.
Config == normalizedConfig(DefaultConfig)
serviceSignalHelperSlack == 750

Smaller(a, b) == IF a < b THEN a ELSE b

validResolvedEvidence(plan) ==
    /\ plan.evidence = "minimal-public"
    /\ plan.exclude = PublicExclude
    /\ plan.include \in {PublicInclude, PublicInclude \union {"sbom"}}

\* The one platform the features require; none when there is no or another one.
requiredPlanPlatform(features) ==
    LET required == {f[2] : f \in {g \in features : g[1] = "platform"}}
    IN IF \E p \in {"linux/amd64", "linux/arm64"} : required = {p}
       THEN CHOOSE p \in required : TRUE ELSE "none"
\* A digest is the sequence of what was hashed; there is none of nothing.
validDigest(digest) == digest # <<>>
runtimeExecutable(adapter) == adapter \in {"node", "python"}
validPinnedImageReference(reference, digest) == 
    IsPinnedImage(reference) /\ digest = <<reference>>

PlanHead(plan) ==
    /\ plan.schemaVersion = "4"
    /\ validResolvedEvidence(plan)
    /\ plan.classifier = "0.1.0"
    /\ plan.residue \in {<<>>, << <<"outputs", "**">> >>}
    /\ <<"plain", "cleanup-residue-classification">> \in plan.features
    /\ <<plan.driver, plan.driverVersion>> \in {<<"cli", "0.2.0">>, <<"http", "0.1.0">>}
    /\ validDigest(plan.imageDigest)
    /\ validPinnedImageReference(plan.image, plan.imageDigest)
    /\ plan.planDigest # <<>> /\ plan.treeDigest # <<>>
    /\ IsExactRuntimeVersion(plan.version)
    /\ runtimeExecutable(plan.adapter)
    /\ requiredPlanPlatform(plan.features) # "none"
    /\ RuntimeApproved(plan.adapter, plan.version, plan.image, requiredPlanPlatform(plan.features))

PlanResources(plan) ==
    /\ plan.cpu > 0 /\ plan.cpu <= Config.maxCPUMillis
    /\ plan.memory > 0 /\ plan.memory <= Config.maxMemory
    /\ plan.pids > 0 /\ plan.pids <= Config.maxPIDs
    /\ plan.disk > 0 /\ plan.disk <= Config.maxDisk

PlanCommand(c) ==
    /\ c.phase \in Range(OrderedPhases)
    /\ identifierPattern(c.id)
    /\ CASE c.role = "service" -> c.phase = "run" /\ c.readiness # <<>> /\ c.signal = <<>>
         [] c.role = "signal" -> /\ c.phase = "cleanup" /\ c.signal # <<>> /\ c.readiness = <<>>
                                 /\ c.argv = "none"
         [] c.role \in {"", "foreground", "journey"} -> c.signal = <<>> /\ c.readiness = <<>>
         [] OTHER -> FALSE
    /\ c.role # "signal" => c.argv # "none"
    /\ c.argv # "nul"
    /\ c.timeout # Absent => c.timeout > 0 /\ c.timeout <= Config.maxStepTimeout

PlanCommands(plan) ==
    /\ plan.commands # <<>>
    /\ \A i \in DOMAIN plan.commands : PlanCommand(plan.commands[i])
    /\ \A i, j \in DOMAIN plan.commands : plan.commands[i].id = plan.commands[j].id => i = j

validPortableSchemaPath(p) == validPortableRepositoryPath(p)
validateStructuredJSONSchemaRef(schema) ==
    /\ schema.dialect = "2020-12"
    /\ schema.validator = "alpha"
    /\ validDigest(schema.digest)
    /\ validPortableSchemaPath(schema.path)

PlanAssertions(plan) ==
    /\ \A i \in DOMAIN plan.assertions :
           LET a == plan.assertions[i]
           IN /\ identifierPattern(a.id)
              /\ Cardinality(a.ops) = 1
              /\ "stdoutRegex" \in a.ops => a.text # "bad-regex"
              /\ "stdoutJsonSchema" \in a.ops => validateStructuredJSONSchemaRef(plan.schema)
    /\ \A i, j \in DOMAIN plan.assertions : plan.assertions[i].id = plan.assertions[j].id => i = j

---------------------------------------------------------------------------
\* The HTTP plan.

WithRole(plan, role) == {i \in DOMAIN plan.commands : plan.commands[i].role = role}

\* Without a journey there is no service, no signal, no response to look at.
PlainPlan(plan) ==
    /\ plan.driver # "http"
    /\ WithRole(plan, "service") \union WithRole(plan, "signal") = {}
    /\ \A i \in DOMAIN plan.commands : plan.commands[i].readiness = <<>>
    /\ \A i \in DOMAIN plan.assertions : plan.assertions[i].ops \cap {"response", "jsonFile"} = {}

validateSignal(signal, maximum) ==
    /\ signal.type \in {"term", "kill", "int", "hup"}
    /\ signal.grace # Absent
    /\ ParseAlphaHTTPDuration(signal.grace, MaxGrace)
    /\ signal.grace <= maximum

\* The signal's helper needs its slack inside both the command's timeout and
\* the runner's cleanup timeout.
SignalWindow(c) ==
    /\ c.timeout > serviceSignalHelperSlack /\ c.timeout <= Config.maxStepTimeout
    /\ Config.cleanupTimeout > serviceSignalHelperSlack
    /\ validateSignal(c.signal[1],
           Smaller(Smaller(Config.cleanupTimeout - serviceSignalHelperSlack, MaxGrace),
                   c.timeout - serviceSignalHelperSlack))

validateDeclaredServicePort(plan, url) ==
    /\ ParseAlphaHTTPURL(url)
    /\ plan.capabilities.listeners = 1
    /\ plan.capabilities.host = "127.0.0.1"
    /\ plan.capabilities.port = url.port
    /\ plan.capabilities.protocol \in {"", "tcp"}

ReadinessPlan(plan, readiness) ==
    /\ readiness.status >= MinStatus /\ readiness.status <= MaxStatus
    /\ ParseAlphaHTTPURL(readiness.url)
    /\ ParseAlphaHTTPDuration(readiness.timeout, Smaller(Config.maxStepTimeout, MaxReadiness))
    /\ validateDeclaredServicePort(plan, readiness.url)

ServicePlan(plan) ==
    /\ Cardinality(WithRole(plan, "service")) = 1
    /\ Cardinality(WithRole(plan, "signal")) = 1
    /\ WithRole(plan, "journey") = {}
    /\ \A s \in WithRole(plan, "service"), k \in WithRole(plan, "signal") :
           /\ plan.commands[s].id = plan.journey[1].service
           /\ plan.commands[s].readiness # <<>>
           /\ plan.commands[k].signal # <<>>
           /\ plan.commands[k].signal[1].target = plan.commands[s].id
           /\ k = Len(plan.commands)
           /\ SignalWindow(plan.commands[k])
           /\ ReadinessPlan(plan, plan.commands[s].readiness[1])
    /\ {"run", "exercise"} \subseteq plan.capabilities.deny
    /\ plan.capabilities.allow \cap {"run", "exercise"} = {}

ResponsePlan(plan) ==
    LET r == plan.response
    IN /\ r.to # ""
       /\ r.status # 0 \/ r.header # "none" \/ r.body # "none" \/ r.jsonPath # "none" \/ r.schema
       /\ r.status # 0 => r.status >= MinStatus /\ r.status <= MaxStatus
       /\ r.body \in {"none", "match"}
       /\ r.header \in {"none", "match"}
       /\ r.jsonPath \in {"none", "equals"}
       /\ r.schema => validateStructuredJSONSchemaRef(plan.schema)

validateHTTPOutputAssertionPath(p) == ValidateAlphaHTTPOutputPath(p)

HTTPAssertion(plan, a) ==
    CASE "response" \in a.ops -> ResponsePlan(plan)
      [] "jsonFile" \in a.ops ->
             /\ validateHTTPOutputAssertionPath(a.path)
             /\ a.path # <<"outputs">>
             /\ validateStructuredJSONSchemaRef(plan.schema)
      [] "fileExists" \in a.ops -> validateHTTPOutputAssertionPath(a.path)
      [] OTHER -> FALSE

\* The methods in the plan's lower case and in the driver's upper case.
UpperMethod ==
    [get |-> "GET", head |-> "HEAD", post |-> "POST", put |-> "PUT", patch |-> "PATCH",
     delete |-> "DELETE", options |-> "OPTIONS", trace |-> "TRACE"]
allowedHTTPMethod(method) ==
    method \in {"GET", "HEAD", "POST", "PUT", "PATCH", "DELETE", "OPTIONS"}
isWholeMillisecondDuration(t) == t >= 1
effectiveHeaderLimit == Smaller(Config.maxHTTPHeaderBytes, MaxHeaderBytes)

\* The request the driver will send: the method in upper case, one body, and
\* the driver's own content type among the headers of a JSON body.
TrustedHTTPRequest(r) ==
    LET own == IF r.json # "none" /\ ~r.headers.contentType THEN 1 ELSE 0
    IN [id |-> r.id, method |-> UpperMethod[r.method], url |-> r.url, timeout |-> r.timeout,
        headers |-> [r.headers EXCEPT !.count = @ + own, !.bytes = @ + 32 * own],
        body |-> IF r.body # "none" THEN r.body ELSE r.json]

\* Whether there is such a request.
trustedHTTPRequestFromPlan(r) ==
    /\ ParseAlphaHTTPDuration(r.timeout, Smaller(Config.maxStepTimeout, MaxTimeout))
    /\ isWholeMillisecondDuration(r.timeout)
    /\ r.method \in DOMAIN UpperMethod
    /\ ValidateAlphaHTTPHeaders(r.headers, r.json # "none")
    /\ r.headers.names = "lower"
    /\ ~(r.body # "none" /\ r.json # "none")
    /\ TrustedHTTPRequest(r).headers.count <= MaxHeaders
    /\ TrustedHTTPRequest(r).headers.bytes <= effectiveHeaderLimit
    /\ TrustedHTTPRequest(r).body # "large"
    /\ ParseAlphaHTTPURL(r.url)
    /\ allowedHTTPMethod(TrustedHTTPRequest(r).method)

\* What the driver itself asks of a request before it is sent.
validateTrustedHTTPRequest(request) ==
    /\ identifierPattern(request.id)
    /\ allowedHTTPMethod(request.method)
    /\ ParseAlphaHTTPURL(request.url)
    /\ isWholeMillisecondDuration(request.timeout) /\ request.timeout <= MaxTimeout
    /\ request.headers.count <= MaxHeaders
    /\ request.headers.names = "lower" /\ request.headers.printable /\ ~request.headers.longValue
    /\ request.headers.bytes <= effectiveHeaderLimit
    /\ request.body # "large"

sameHTTPOrigin(first, second) == first.port = second.port

\* i is a step of the journey; an assertion's request came before it.
JourneyStep(plan, i) ==
    LET r == plan.journey[1]
        before == {j \in 1..(i - 1) : r.steps[j] = r.steps[i]}
    IN /\ before = {}
       /\ r.steps[i] \in {"request", "assert"}
       /\ r.steps[i] = "request" =>
              /\ identifierPattern(r.id)
              /\ \A a \in Range(plan.assertions) : a.id # r.id
              /\ \A s \in WithRole(plan, "service") :
                     sameHTTPOrigin(plan.commands[s].readiness[1].url, r.url)
              /\ trustedHTTPRequestFromPlan(r)
       /\ r.steps[i] = "assert" /\ "response" \in plan.assertions[1].ops =>
              \E j \in 1..(i - 1) : r.steps[j] = "request" /\ r.id = plan.response.to

JourneyPlan(plan) ==
    LET r == plan.journey[1]
        requests == Count(r.steps, "request") + r.more[1]
        asserts == Count(r.steps, "assert") + r.more[2]
    IN /\ \A name \in {"background-service", "service-signal", "loopback-http-driver"} :
              <<"plain", name>> \in plan.features
       /\ Len(plan.assertions) > 0
       /\ \A a \in Range(plan.assertions) : HTTPAssertion(plan, a)
       /\ Len(r.steps) + r.more[1] + r.more[2] \in 2..MaxJourneySteps
       /\ \A i \in DOMAIN r.steps : JourneyStep(plan, i)
       /\ requests > 0 /\ requests <= MaxRequests
       /\ asserts > 0
       /\ Count(r.steps, "assert") = Len(plan.assertions)

validateHTTPPlan(plan) ==
    IF plan.journey = <<>> THEN PlainPlan(plan)
    ELSE plan.driver = "http" /\ ServicePlan(plan) /\ JourneyPlan(plan)

validatePlan(plan) ==
    /\ PlanHead(plan)
    /\ PlanResources(plan)
    /\ plan.capabilities.allow = {}
    /\ PlanCommands(plan)
    /\ PlanAssertions(plan)
    /\ validateHTTPPlan(plan)

---------------------------------------------------------------------------
\* The inputs and the schemas, taken from the copied source.

cleanFixturePath(p) == p # <<>> /\ ".." \notin Range(p)

\* A comma or a control character, which the engine's mount option cannot carry.
unsafeMountSourcePath(p) == "a,b" \in Range(p)

cleanInputMountPath(p) ==
    p # <<>> /\ ~unsafeMountSourcePath(p) /\ Head(p) = "inputs" /\ ".." \notin Range(p)
sandboxPathsOverlap(p, q) == IsPrefix(p, q) \/ IsPrefix(q, p)

\* found: the fixtures the copy holds, each with its type.
MountableInputs(inputs, found) ==
    /\ \A i \in DOMAIN inputs :
           /\ inputs[i].readOnly
           /\ cleanFixturePath(inputs[i].fixture)
           /\ cleanInputMountPath(inputs[i].mount)
           /\ ~unsafeMountSourcePath(inputs[i].fixture)
           /\ inputs[i].type \in {"file", "directory"}
           /\ <<inputs[i].fixture, inputs[i].type>> \in found
    /\ \A i, j \in DOMAIN inputs : i # j => ~sandboxPathsOverlap(inputs[i].mount, inputs[j].mount)

structuredJSONSchemaReferences(plan) ==
    {i \in DOMAIN plan.assertions :
        \/ plan.assertions[i].ops \cap {"stdoutJsonSchema", "jsonFile"} # {}
        \/ "response" \in plan.assertions[i].ops /\ plan.response.schema}

\* version: the schema's bytes in the copy.
readPreparedSchema(plan, version) ==
    validateStructuredJSONSchemaRef(plan.schema) /\ <<version>> = plan.schema.digest
=============================================================================
