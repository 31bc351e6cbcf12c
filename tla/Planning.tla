------------------------------ MODULE Planning ------------------------------
(***************************************************************************)
(* From a manifest on disk to a plan the runner takes: manifest.Load, the  *)
(* source snapshot, planner.Resolve, the repeats of the command line, the  *)
(* engine, the runner's own validation and the copies a run works on,      *)
(* while the manifest and a schema it names may be edited meanwhile.  The  *)
(* source tree is these two files.                                         *)
(***************************************************************************)
EXTENDS PlanExecution

CONSTANTS
    Cases,          \* the manifests considered
    Text(_, _),     \* what a case's text says, given which of its halves were rewritten
    EditedCases,    \* the cases somebody edits meanwhile
    MaxEdits,
    Requested       \* the --repeats asked for; 0 when the flag is not given

VARIABLES
    case,
    file,           \* the text of each of the two files the path may name, in two halves
    at,             \* the file the path names
    stamp,          \* each file's modification time
    held,           \* every text the path has named
    schema,         \* the schema file's bytes, by version
    edits,          \* the edits still to come
    stage,
    buffer,         \* what a read has so far
    first,          \* what the first read saw
    snapshot,       \* the source snapshot: the manifest's text and the schema's version
    bytes,          \* the version of the schema the plan was resolved with
    plan,
    backend,        \* the engine the command has chosen
    incomplete,     \* the required features the engine covers only in part
    live,           \* the source as the runner finds it
    copy,           \* the runner's copy of the source
    workspace,      \* the copy the workload gets
    runDir          \* the run's directory: "absent", "present" or "left" behind

files == <<file, at, stamp, held, schema, edits>>
planning == <<case, file, at, stamp, held, schema, edits, stage, buffer, first, snapshot, bytes, plan,
              backend, incomplete, live, copy, workspace, runDir>>
copies == <<live, copy, workspace, runDir>>
engine == <<backend, incomplete, copies>>

\* The command has opened the manifest and noted its state; a manifest that
\* cannot be opened is one whose first read fails.
PlanningStart(c, s) ==
    /\ case = c
    /\ file = [f \in 1..2 |-> IF f = 1 THEN <<0, 0>> ELSE <<1, 1>>]
    /\ at = 1
    /\ stamp = [f \in 1..2 |-> 0]
    /\ held = {<<0, 0>>}
    /\ schema = 0
    /\ edits = IF case \in EditedCases THEN MaxEdits ELSE 0
    /\ stage = s
    /\ buffer = <<>> /\ first = <<>>
    /\ snapshot = <<>> /\ bytes = 0
    /\ plan = <<>>
    /\ backend = "" /\ incomplete = {}
    /\ live = <<>> /\ copy = <<>> /\ workspace = <<>> /\ runDir = "absent"

PlanningInit == \E c \in Cases : PlanningStart(c, "first")

Over == {"refused", "no-runner", "not-executable", "unsupported", "prepared"}

---------------------------------------------------------------------------
\* The editor.

\* One half of the file is rewritten in place; the clock may be too coarse to
\* show it.
RewriteHalf(half) ==
    /\ edits > 0 /\ stage \notin Over
    /\ file[at][half] = 0
    /\ file' = [file EXCEPT ![at][half] = 1]
    /\ held' = held \union {file'[at]}
    /\ \E tick \in 0..1 : stamp' = [stamp EXCEPT ![at] = @ + tick]
    /\ edits' = edits - 1
    /\ UNCHANGED <<case, at, schema, stage, buffer, first, snapshot, bytes, plan, engine>>

\* Another file is renamed over it.
ReplaceFile ==
    /\ edits > 0 /\ stage \notin Over
    /\ at = 1
    /\ at' = 2
    /\ held' = held \union {file[2]}
    /\ edits' = edits - 1
    /\ UNCHANGED <<case, file, stamp, schema, stage, buffer, first, snapshot, bytes, plan, engine>>

EditSchema ==
    /\ edits > 0 /\ stage \notin Over
    /\ schema' = schema + 1
    /\ edits' = edits - 1
    /\ UNCHANGED <<case, file, at, stamp, held, stage, buffer, first, snapshot, bytes, plan, engine>>

---------------------------------------------------------------------------
\* readStableManifest: the opened file is read twice, and the path must still
\* name it, unchanged, at the end.

\* A read may always fail.
Fails == stage' = "refused"

readBoundedManifest ==
    /\ stage \in {"first", "second"}
    /\ Len(buffer) < 2
    /\ IF edits = 0 THEN buffer' = buffer \o SubSeq(file[1], Len(buffer) + 1, 2)
                    ELSE buffer' = Append(buffer, file[1][Len(buffer) + 1])
    /\ UNCHANGED stage \/ Fails
    /\ UNCHANGED <<case, files, first, snapshot, bytes, plan, engine>>

stableManifestFileInfo == stamp[1] = 0

\* The second read and the comparison are left out.
sameManifestRead_unread == TRUE

sameManifestRead == buffer = first /\ at = 1 /\ stableManifestFileInfo

AfterFirstRead ==
    /\ stage = "first" /\ Len(buffer) = 2
    /\ \/ stableManifestFileInfo /\ stage' = "second" /\ first' = buffer /\ buffer' = <<>>
       \/ Fails /\ UNCHANGED <<first, buffer>>
    /\ UNCHANGED <<case, files, snapshot, bytes, plan, engine>>

\* The document that was read.
Document == Text(case, first)

Load ==
    /\ stage = "second" /\ Len(buffer) = 2
    /\ (sameManifestRead /\ load(Document) /\ stage' = "loaded") \/ Fails
    /\ UNCHANGED <<case, files, buffer, first, snapshot, bytes, plan, engine>>

\* The source tree, and what a walk that has seen the entries in seen sees
\* next: one entry at a time while somebody may still edit.
Tree == <<file[at], schema>>
Walked(seen) == IF edits = 0 THEN seen \o SubSeq(Tree, Len(seen) + 1, 2)
                ELSE Append(seen, Tree[Len(seen) + 1])

\* acquisition: the snapshot is taken after the manifest was read.
Fetch ==
    /\ stage = "loaded"
    /\ snapshot' = Walked(snapshot)
    /\ \/ stage' = CASE Len(snapshot') < 2 -> stage
                       [] Len(snapshot') = 2 /\ ~Resolvable(Document) -> "refused"
                       [] OTHER -> IF UsesSchema(Document) THEN "schema" ELSE "resolved"
       \/ Fails
    /\ UNCHANGED <<case, files, buffer, first, bytes, plan, engine>>

verifySchemaSnapshotBytes == schema = snapshot[2]

\* The schema is read twice; each time its bytes must be the inventory's.
readSnapshotSchema ==
    /\ stage \in {"schema", "schema-again"}
    /\ bytes' = schema
    /\ \/ /\ SchemaListed(Document) /\ validateSchemaPathComponents(Document)
          /\ verifySchemaSnapshotBytes
          /\ stage' = CASE stage = "schema" -> "schema-again"
                        [] stage = "schema-again" /\ CompileSchema(Document) -> "resolved"
                        [] OTHER -> "refused"
       \/ Fails
    /\ UNCHANGED <<case, files, buffer, first, snapshot, plan, engine>>

\* The repeats asked for.
RequestRepeats(requested) ==
    LET resolved == Resolve(Document, snapshot)
        asked == IF requested = 0 THEN resolved ELSE OverrideRepeats(resolved, requested)
    IN /\ stage = "resolved"
       /\ IF \/ requested # 0 /\ ~OverrideAllowed(resolved, requested)
             \/ asked.repeats \notin 1..MaxRepeats
          THEN stage' = "refused" /\ UNCHANGED plan
          ELSE stage' = "planned" /\ plan' = <<asked>>
       /\ UNCHANGED <<case, files, buffer, first, snapshot, bytes, engine>>

\* The controller's data directory is made, and must lie outside the source
\* and behind no link.
OpenDataRoot ==
    /\ stage = "planned"
    /\ stage' = "data-root" \/ Fails
    /\ UNCHANGED <<case, files, buffer, first, snapshot, bytes, plan, engine>>

\* Every engine is asked before the first repeat.
probe(preferred, answers) ==
    LET chosen == ProbedBackend(answers, preferred)
    IN /\ stage = "data-root"
       /\ backend' = chosen.backend
       /\ stage' = IF chosen.features.available THEN "probed" ELSE "no-runner"
       /\ UNCHANGED <<case, files, buffer, first, snapshot, bytes, plan, incomplete, copies>>

\* No random run ID could be made.
secureRunIDFails == Fails

\* The runner validates the plan and asks the chosen engine again, which may
\* have gone or changed since.
Prepare(answer) ==
    LET doctor == Doctor(answer)
        negotiation == NegotiateFeatures(plan[1].features, doctor.features)
        valid == validatePlan(plan[1])
    IN /\ stage = "probed"
       /\ \/ ~valid /\ stage' = "not-executable"
          \/ valid /\ doctor.err /\ stage' = "no-runner"
          \/ valid /\ ~doctor.err /\ ~negotiation.ok /\ stage' = "unsupported"
          \/ valid /\ ~doctor.err /\ negotiation.ok /\ (stage' = "inventory" \/ secureRunIDFails)
       /\ incomplete' = IF stage' = "inventory" THEN negotiation.incomplete ELSE {}
       /\ UNCHANGED <<case, files, buffer, first, snapshot, bytes, plan, backend, copies>>

---------------------------------------------------------------------------
\* The copies of a run.

\* The live source must have the plan's digest before the run's directory is
\* made.
prepareFilesystem ==
    /\ stage = "inventory"
    /\ live' = Walked(live)
    /\ \/ Len(live') < 2 /\ UNCHANGED <<stage, runDir>>
       \/ Len(live') = 2 /\ live' = plan[1].treeDigest /\ stage' = "copy" /\ runDir' = "present"
       \/ Fails /\ UNCHANGED runDir
    /\ UNCHANGED <<case, files, buffer, first, snapshot, bytes, plan, backend, incomplete,
                   copy, workspace>>

\* The run's directory is removed, or the removal fails too.
cleanupOnError == stage' = "refused" /\ runDir' \in {"absent", "left"}

\* What was copied is hashed on the way.
copyRegularFile(copied) == \A i \in DOMAIN copied : copied[i] = live[i]

\* The copied tree is walked once more.
verifyCopiedInventory(copied) == copied = live

copyInventory ==
    /\ stage = "copy"
    /\ copy' = Walked(copy)
    /\ \/ /\ copyRegularFile(copy')
          /\ Len(copy') = 2 => verifyCopiedInventory(copy')
          /\ stage' = IF Len(copy') < 2 THEN "copy" ELSE "workspace"
          /\ UNCHANGED runDir
       \/ cleanupOnError
    /\ UNCHANGED <<case, files, buffer, first, snapshot, bytes, plan, backend, incomplete, live,
                   workspace>>

\* The workspace is copied from the runner's copy, which nobody else writes.
copyWorkspace ==
    /\ stage = "workspace"
    /\ workspace' = copy
    /\ \/ /\ copyRegularFile(workspace') /\ verifyCopiedInventory(workspace')
          /\ stage' = "schemas"
          /\ UNCHANGED runDir
       \/ cleanupOnError
    /\ UNCHANGED <<case, files, buffer, first, snapshot, bytes, plan, backend, incomplete, live, copy>>

\* Every schema a plan's assertion names is read from the copy and compiled.
prepareStructuredJSONSchemas ==
    /\ stage = "schemas"
    /\ \/ /\ structuredJSONSchemaReferences(plan[1]) # {} =>
                 readPreparedSchema(plan[1], copy[2]) /\ CompileSchema(Document)
          /\ stage' = "inputs"
          /\ UNCHANGED runDir
       \/ cleanupOnError
    /\ UNCHANGED <<case, files, buffer, first, snapshot, bytes, plan, backend, incomplete, live, copy,
                   workspace>>

\* The fixtures of the copied tree, which are those of the manifest's text.
Fixtures == IF Document.fixtureFound
            THEN {<<Document.fixture, Document.inputType>>, <<<<"other.txt">>, "file">>}
            ELSE {<<<<"other.txt">>, "file">>}

prepareInputs ==
    /\ stage = "inputs"
    /\ \/ /\ MountableInputs(plan[1].inputs, Fixtures)
          /\ stage' = "prepared"
          /\ UNCHANGED runDir
       \/ cleanupOnError
    /\ UNCHANGED <<case, files, buffer, first, snapshot, bytes, plan, backend, incomplete, live, copy,
                   workspace>>

PlanningNext ==
    \/ \E half \in 1..2 : RewriteHalf(half)
    \/ ReplaceFile
    \/ EditSchema
    \/ readBoundedManifest
    \/ AfterFirstRead
    \/ Load
    \/ Fetch
    \/ readSnapshotSchema
    \/ \E requested \in Requested : RequestRepeats(requested)
    \/ OpenDataRoot
    \/ \E preferred \in {"auto", "docker", "podman"}, answers \in [Range(Backends) -> EngineAnswers] :
           probe(preferred, answers)
    \/ \E answer \in EngineAnswers : Prepare(answer)
    \/ prepareFilesystem \/ copyInventory \/ copyWorkspace
    \/ prepareStructuredJSONSchemas \/ prepareInputs

---------------------------------------------------------------------------
\* What a plan owes its manifest.

\* The actions a scenario declares, phase by phase.
DeclaredActions(m) ==
    LET of(p) == [i \in DOMAIN Steps(m, p) |-> <<p, Steps(m, p)[i].id>>]
        service == IF m.service THEN << <<"run", m.serviceID>> >> ELSE <<>>
        journey == IF m.driver = "cli" THEN << <<"exercise", "journey-cli">> >> ELSE <<>>
    IN of("prepare") \o of("setup") \o of("build") \o of("run") \o service \o journey
           \o of("cleanup")

\* The declarations a plan has no field for.
Unplaced(m) ==
    m.envExtras \union m.verExtras \union m.driverExtras
        \union (IF "run" \in m.capabilities THEN m.capExtras ELSE {})
        \union (IF m.service THEN m.serviceExtras ELSE {})
        \union (IF m.stepPhase # "none" THEN m.stepExtras ELSE {})
        \union (IF Declared(m, m.extrasPhase) THEN m.phaseExtras ELSE {})
        \union (IF m.secret = "none" THEN {} ELSE {"secret"})
        \union (IF m.inputType # "none" /\ m.inputChoices THEN {"choices"} ELSE {})

DeclaredAssertions(m) ==
    IF m.driver = "http" THEN <<Assertion(m, 1)>> ELSE Assertions(m)

Carries(p, m) ==
    /\ Unplaced(m) = {}
    /\ [i \in DOMAIN p.commands |-> <<p.commands[i].phase, p.commands[i].id>>] = DeclaredActions(m)
    /\ Len(p.assertions) = Len(DeclaredAssertions(m))
    /\ \A i \in DOMAIN p.assertions :
           LET a == DeclaredAssertions(m)[i]
           IN p.assertions[i].id = a.id /\ p.assertions[i].ops = a.ops /\ a.required
    /\ p.repeats >= m.repeats /\ p.repeats - p.threshold = m.repeats - m.threshold
    /\ p.planDigest = digestPlan(p.repeats, p.threshold)

\* A plan is made of a text the manifest's path really held and of the
\* snapshot's schema, and carries everything that text declares: its actions
\* in phase order, every assertion with its operation, the repeats and the
\* failures they allow, which its digest covers.  What a plan has no place for was refused, never left
\* out (spec/scenario-model.md, "never be silently omitted").  What is then
\* prepared to run is the tree the plan was resolved against, schema included,
\* whoever edited the source meanwhile; and a preparation that fails leaves no
\* directory behind unless its removal failed.
PlanIsFaithful ==
    /\ plan # <<>> =>
           /\ first \in held
           /\ UsesSchema(Document) => bytes = snapshot[2]
           /\ Carries(plan[1], Document)
    /\ stage = "prepared" => workspace = snapshot
    /\ stage = "refused" => runDir # "present"

\* The limits of the local runner that the planner does not know.
RunnerLimits(m) ==
    \/ m.disk > Config.maxDisk \/ m.memory > Config.maxMemory
    \/ m.driver = "cli" /\ m.stepPhase # "none" /\ m.stepID = "journey-cli"
    \/ m.driver = "http"
           /\ LET timeout == IF m.cleanupTimeout = Absent THEN 30 * Second ELSE m.cleanupTimeout
              IN m.signalGrace + serviceSignalHelperSlack > timeout
    \/ m.driver = "http" /\ "jsonFile" \in m.assertOps /\ m.assertPath = <<"outputs">>

\* An input whose fixture or mount path the manifest and the planner accept and
\* no engine can be asked to mount.
UnsafeMounts(m) ==
    /\ m.inputType # "none"
    /\ \E p \in {m.fixture, m.inputMount, m.secondMount} : unsafeMountSourcePath(p)

\* The planner's checks, the runner's and the driver's, written apart, agree:
\* the runner takes every plan the planner resolves, but for its own limits on
\* sizes, on the signal's window, on the id of the journey's command and on
\* the file a JSON assertion reads; no Linux engine lacks a feature such a
\* plan requires; every observer that does not observe in full is listed as
\* incomplete (features.go, "never silently represented as full support");
\* once the source is copied, the runner finds every schema with its digest and
\* can mount every input but one with a comma or a control character in its
\* paths; and the driver will send the journey's request.
PlannedIsExecutable ==
    /\ stage = "not-executable" => RunnerLimits(Document)
    /\ stage # "unsupported"
    /\ stage = "schemas" /\ structuredJSONSchemaReferences(plan[1]) # {} =>
           readPreparedSchema(plan[1], copy[2])
    /\ stage = "inputs" => MountableInputs(plan[1].inputs, Fixtures) \/ UnsafeMounts(Document)
    /\ stage = "prepared" =>
           /\ \A o \in plan[1].observers \ {"network-enforcement"} : <<"observer", o>> \in incomplete
           /\ plan[1].journey # <<>> => 
                  validateTrustedHTTPRequest(TrustedHTTPRequest(plan[1].journey[1]))
=============================================================================
