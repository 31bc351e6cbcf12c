# RepoPassport: TLA+ models, checks and proofs

RepoPassport runs a repository's declared journey in a container, records what
it observed, turns that into a verification result, and lets others check
signed results offline against trust policies and release indexes whose state
may only move forward.  This directory models the parts of the program whose
correctness depends on the order of steps: processes that share files, runs
that fail half-way, evidence that must agree with what really happened, and
directories that are published by a rename.

Contents: 1 inventory, 2 plan, 3 modules, 4 runs, 5 bounds, 6 fairness,
7 proofs, 8 findings and observations, 9 what is left out.

## 1. Inventory

### State stores (`internal/truststate`, `releasestate`, `trustrotationstate`, `trustchainstate`)

*State*: one JSON record per scope in a per-user directory, with a lock file
beside it.  *Operation*: `Observe` (in `releasestate` `ObserveIndex` and
`ObserveTransition`): validate, open and lock the lock file with a deadline,
read the record, compare, and unless it matches or conflicts write a temporary
file, sync it, rename it over the record, sync the directory and read it back.
*Interaction*: several verifier processes share the files and nothing else.
*Hard*: the read-compare-write between processes, a process killed or a machine
losing power between any two steps, a lock holder that hangs, two generations
in one record that must advance together.
*Correct when*: what a caller was told is accepted is never rolled back or
contradicted, what was reported as written survives a power loss unless the
whole directory is lost, and a waiter always gives up.

### The run (`internal/execution`)

*State*: a target container, an optional peer container of the port observer,
the goroutine of an attached service, observer sessions, the accumulating
errors and the cleanup summary.  *Operations*: the stages of `Run` from
creating the sandbox to the outcome.  *Interaction*: the container engine (any
call may fail and may have taken effect nevertheless), the service goroutine,
the caller who may cancel.  *Hard*: finalization goes on after every failure;
the service may start late, never answer, or die under a probe; a cancelled
call may have created something.  *Correct when*: the cleanup verdict, the
findings, the evidence and the exported outputs agree with what is really left
and with each other, and `Run` returns.

### The verdict and the verify command (`internal/verification`, `internal/cli`)

*State*: findings, the log of repeats, the caller's cleanup verdict, the work
directory, the result.  *Operations*: probe, execute a repeat, remove the work
directory, read the source again, `Build`, write to the run store.
*Interaction*: `execution` through its outcome, `acquisition` through the
source digest, `storage`.  *Hard*: verdicts fold over completed and failed
repeats on two paths that must agree; the source belongs to somebody else.
*Correct when*: a verified result was earned by every repeat and is about the
planned source, and one bad repeat shows.

### The lane producer (`internal/sourcequalification`)

*State*: the private workspace, a stage and staging directories beside the
output, the output directory, the gate records.  *Operations*: `ProduceLane`
from creating the workspace over the gates, the receipt, the staged lane, the
removal of the workspace and the promotion, or a tombstone.  *Interaction*:
several producers may be given one output; tools, repository and file system
may change or fail under the producer.  *Hard*: each undo step may fail too;
kills and power loss between rename and sync; codes and statuses are kept
apart and must agree.  *Correct when*: what was reported published is there and
stays there, a passing lane was earned, and leftovers are reported.

### The observers of a run (`internal/execution`) and the report (`internal/rendering`)

*State*: helper processes in the target and in a peer container, the pipes to
and from them, two pictures of `/outputs`, the engine's diff, cgroup counters
and, in the controller, one observation state per observer.  *Operations*:
preflight, start, one window of allowed writes per dispatched phase, stop,
drain, compare, publish; then the report reads the result again.
*Interaction*: frames over a pipe, the workload that writes beside the observer,
the engine.  *Hard*: a notification may be lost, late, or about a window that
has been closed; a sample is not a moment; every buffer has a limit; a helper
dies or never answers.  *Correct when*: "no undeclared operation" is only said
of a run that had none, two observers of one write differ at most over the size
of its directory, a listener that stays up is seen, the report shows what was decided, and the session ends.

### Planning (`internal/manifest`, `planner`, `runtimepolicy`, `execution`'s validation and preparation)

*State*: the manifest and a schema file on disk, the document, the snapshot, the
plan, the engine's answers, the disposable workspace.  *Operations*: load,
validate, resolve, override the repeats, probe, validate again as the runner,
copy.  *Interaction*: the files belong to somebody who may edit them; the engine
may change between the probe and the run.  *Hard*: one rule is written in the
schema, in `Validate`, in the planner, in the runner and in the HTTP driver.
*Correct when*: a plan says what the manifest says, nothing is silently left
out, the runner takes what the planner resolves, and what runs is the tree that
was planned.

### Offline verification (`internal/attestation`, `releaseindex`, `acquisition`, `spdx`, `internal/cli`)

*State*: signed documents (bundles, policies, transitions, chains, indexes),
the durable registers above, a directory tree.  *Operations*:
`verify-attestation` in six modes, `verify-release-index`, `attest`,
`sign-release-index` and the issuing commands.  *Interaction*: commands share
the registers; somebody edits the tree under them.  *Hard*: which of two dozen
checks comes before which observation; a command killed between two of its
observations; a digest of a tree no moment had.  *Correct when*: exactly the
genuine documents are accepted, acceptance never goes back, nothing is recorded
for documents that do not stand, and the files of an answer about a directory
were there together at one moment.

### Publication (`internal/storage`, `attestation`, `releaseindex`, `releasekit`, `releasequalification`, `sourcequalification`'s packages, `cmd/*`)

*State*: the destination, temporaries and staging directories, what a power loss
would keep.  *Operations*: run directory, signing artifacts, evaluation, kit,
release directory, the package and the tool directory of a source qualification
and seven kinds of sidecar, each with its own order of write, sync, rename,
verification and withdrawal.  *Interaction*: several processes with one
destination; readers at any time; directories that are edited or replaced while
they are sealed or assembled.  *Correct when*: nobody finds half of something, what is
said to be durable survives, what a command reports is what is there, and what
is released was qualified.

### The rest

| Part | Role, state and why it matters here |
|---|---|
| `sourcequalification`, other than lane and packages | attempt history, documents, Git reader, final qualification, gate process control |
| `discovery`, `privacy` | detection and redaction; no state |
| `canonicaljson`, `structuredjson` | encoders and decoders; no state |
| `pathsecurity`, `controllerfs`, `atomicfile`, `windowssecurity` | operating-system wrappers |
| `acceptanceregistry` | rules of a registry document; its publication is modelled |
| `cmd/*` | flags and exit codes |

PROJECT.json lists every part with its status and every hazard with the line
where it bites.

## 2. Plan

The order followed what users rely on most; all eight steps are done.

1. **State stores** with the abstract register they implement, and proofs for
   any number of processes, scopes and values.
2. **The run**: `RunLifecycle`, with `RunContract` as what its caller may rely on.
3. **The verify command** on top of the contract, and the verdict table.
4. **The lane producer**: `GateRunner` and `LaneController`.
5. **Publication elsewhere**: one module for every other family of files.
6. **Offline verification**: documents, freshness and the commands, composed
   with the registers that the state stores were shown to implement.
7. **The observers of a run** and the report made of them.
8. **Planning**: manifest, planner, backend and the runner's validation.

The theorems follow the same order: every safety property of the state stores,
the run, the verify command and the verdict table, the lane producer,
publication, the offline commands and the observers' sessions is proved for
every instance (section 7).  What could follow: proofs about planning, which
need lemmas about filtered sequences and a type of manifests; and models of the
attempt history and the final qualification of `sourcequalification` and of the
lock file of `plan --check`.

## 3. Modules

### State stores

| Module | Models |
|---|---|
| `MonotonicStore` | `Observe` of all four packages, its lock, files, kills and power loss |
| `MonotonicRegister` | the abstract specification: one register per scope that only advances, answers true of the register when given |
| `StateRecords` | what each package stores, validates and keys its files by |
| `StateComparison` | how each package compares an observation with its record |
| `MCStateStores` | small instances |
| `MonotonicStore_proofs` | theorems, about the machinery and about the four comparisons |

A step of `MonotonicStore` is a system call or a group of calls on files nobody
else sees:

| Action | Code |
|---|---|
| `Observe` | validation, directories, lock file (`truststate.go`) |
| `acquireLock` | one turn of the loop over a non-blocking flock (`lock.go`, `lock_unix.go`) |
| `readRecord` | decode, check the scope, compare; matched and rejected answers return here |
| `writeTemporary` | create, write, sync and close the temporary file |
| `atomicReplace` | the rename (`platform_unix.go`) |
| `syncDirectory` | fsync of the directory |
| `verifyRecord` | read back, then initialized or advanced |
| `Kill`, `WriteBack`, `PowerLoss` | the environment |

`entry` is what processes read and `survivors` what the disk may hold after a
power loss: a rename adds to it, a directory sync collapses it for all records
of that directory.  `directory` says of each directory of records whether it is
absent, was made by an `Observe` (`ensurePrivateDirectory`), or has a durable
path: the code syncs the directory and never its parents, so the path is durable
only once the file system has written it back on its own (`WriteBack`), and a
power loss before that may take the directory with all its records.  `accepted` and `committed` are histories of what callers
were told.  The comparison is a constant operator; what the machinery needs of
it is the assumption `ClassifyAssumption`, which is proved of the four
packages.

### The run and the verify command

| Module | Models |
|---|---|
| `Verification` | `functionalVerdict`, `capabilityVerdict`, `cleanupVerdict`, `reproducibilityVerdict`, `aggregate` and the validity of a cleanup observation |
| `RunContract` | what an outcome of `Run` promises |
| `RunLifecycle` | `Runner.Run`, stage by stage |
| `VerifyCommand` | `runVerify` and `Build` |
| `VerdictTable` | `aggregate` against the table of `spec/status-error-model.md` |
| `MCRunLifecycle`, `MCVerifyCommand` | small instances |
| `RunLifecycle_proofs`, `VerifyCommand_proofs` | theorems |

In `RunLifecycle` the variable `pc` is the stage of `Run`, `engine` what exists
in the container engine, `service` the goroutine of the attached service,
`local` the local variables of `Run`, and `stirred` a history variable: a
workload process appeared after quiescence was confirmed.  There is one action
per stage, each with the disjuncts of its error paths; `serviceDispatch` and
`runAttachedService` are the goroutine, `Cancel` the caller.  Of the observers only
resource usage can be complete (`completeObservers`): ports and written files are
best effort at most (`peer_port_observer.go:1758-1761`), and whether ports were
compared with their declarations is a field of its own (`compared`).  A file
assertion may be inconclusive.  The inventory fails as such, or because it lists
a disposable directory whose removal had been reported; the outcome's `valid` says
whether the validator of cleanup observations takes what was made of it, and
`Build` refuses a result with one that it does not take.  `RunLifecycle` is
checked to keep `RunContract`, and `VerifyCommand` takes any outcome the
contract allows, so the composition does not depend on the small plans.

In `VerifyCommand`, `runs` are the outcomes of the repeats that completed, and the
other variables are what `runVerify` keeps of them as it goes: `assertions`,
`features` (the evidence every repeat had), `findings`, `fingerprintCounts` and
`matching` (how many repeats have the commonest fingerprint), and its own
`cleanup` verdict; `source`, `workRoot` and `result` are what lies outside.

### The lane producer

| Module | Models |
|---|---|
| `GateRunner` | judging one gate, marking records, aggregation, what the receipt validator demands, codes and their statuses |
| `LaneController` | `ProduceLane` for several producers with one output |
| `MCLaneController` | two producers, two gates |
| `LaneController_proofs` | theorems |

Before the first gate `BindApplications` validates the request again, which reads
the disk again, and may refuse it (`gate_runner.go:115-121`): then there are no gate
records at all, and the lane ends as `RECEIPT_INVALID`.

`disk` is what lies under the output and under the random names of each
producer, `survivors` what the output may be after a power loss, `workspace` the
private workspace.  Publication of the lane to its stage and of a tombstone to
the output go through the same actions (`createPrivateQualificationStaging`,
`writePrivatePackageFiles`, `publishPackageDirectoryNoReplace`,
`releaseStaging`, `syncPublishedPackageParent`, `cleanupStaging`), told apart by
`local.job`; removal of a published directory is two steps
(`cleanupPublishedPackage`, `unlinkPublishedPackage`) because its files go
before it does.  Promotion is `promoteControllerLaneStage`, `promoteNoReplace`
and `syncPromotedStage`.

### The observers

| Module | Models |
|---|---|
| `FrameStream` | a helper's standard output: writing, bounded reading, junk, loss, end |
| `RetainedState` | comparison of two pictures: files against declared writes, the engine's diff, cgroup counters |
| `ActivityTrace` | the trace's session with its helper, windows and rules, the notifications and their comparison, and the runner's steps around them |
| `PeerPort` | the observer of listening ports in its peer container |
| `Rendering` | what the report shows of the published observations |
| `MCObservers` | a small instance; either observer, as they share no state |
| `ActivityTrace_proofs`, `PeerPort_proofs` | theorems |

`ctl`, `cmp`, `filesystem`, `engine` and `resource` are the controller's
observation states, `control` and `stream` the two pipes, `helper` the process
in the sandbox; histories record what was really written and which window was
open then.  The Python helper takes what a read gives it (`HelperRead`) and then
records it one notification at a time (`HelperRecord`), up to the first that makes
it fail; the workload's operations (`CreateFile`, `WriteFile`, `RenameFile` and so
on) come with the one or two notifications inotify sends for them.  A controller
action takes the outcomes of its calls as Boolean
parameters, and each bad one is paid from `faults`.  `Preflight` takes its steps
in the code's order: the resource preflight, the output directories, the baseline
picture and the three probes of the sandbox, where a failure of any but the
baseline ends the run before the trace is started.  A file that is created or
removed changes the recorded size of its directory (`Resized`), as on tmpfs.

### Offline commands

| Module | Models |
|---|---|
| `TrustDocuments`, `ReleaseDocuments` | the documents and their validation, signature by signature |
| `Bundle` | bundles, their validation, and whether a bundle's source, plan and SBOM are current |
| `TreeWalk` | how a tree is listed directory by directory, inspected and read step by step |
| `OfflineCommands` | the commands as processes, in the order of their checks and observations |
| `MCOffline` | pools of genuine documents and near misses, and scripts of commands |
| `OfflineCommands_proofs` | theorems |

`reg` holds the registers (`StateComparison` is what each store compares),
`trees` everything the directory has been, `walk` and `snaps` what each process
has seen of it, `since` and `after` which trees and which other commands a
command came after.  As `filepath.WalkDir` does, a walk lists a directory when it
comes to it (`fetchList`, `listDirectory`), so that two directories are listed at
two moments; the inventory is sorted at the end.  Directories are nested one deep.

### Publication

| Module | Models |
|---|---|
| `ReleaseQualification` | kit, build identity, inspection of a release directory |
| `SourcePackage` | lane directories, receipts, manifests and executables, what assembly checks of them and what a verifier asks |
| `Publication` | the families and their steps, with kills and power loss |
| `MCPublication` | two processes, every family of files, sidecars of two and of three files |
| `Publication_proofs` | theorems |

`family` is what the processes publish, `dest` the destination (`there`: its
directory exists), `durable` the names in it that a power loss keeps and
`dirDurable` whether the directory itself would be kept; `source` is the
construction directory of a release or what a package is assembled from, and
`edits` counts what others have changed in it.  Each process has its stage, its
temporaries, how far it has come, what it has read, and its outcome.

### Planning

| Module | Models |
|---|---|
| `Manifest` | the document, schema conditions and `Validate` |
| `Planner` | `Resolve`: features, mounts, phases, journey, HTTP profile, schemas |
| `Backend` | the engine's answers, backend choice, feature negotiation |
| `PlanExecution` | the runner's and the HTTP driver's own validation of a plan |
| `Planning` | load, fetch, resolve, repeats, data directory, probe, prepare and copy while files are edited |
| `MCPlanning` | the manifests of the instance, and the verdict table |

A behaviour of `Planning` is one command up to the prepared run.  The manifest is
read twice, half by half (`readBoundedManifest`, `AfterFirstRead`, `Load`); the
tree is walked entry by entry into the snapshot (`Fetch`), the runner's inventory
(`prepareFilesystem`), its copy (`copyInventory`) and the workspace
(`copyWorkspace`); schemas and inputs are then taken from the copy
(`prepareStructuredJSONSchemas`, `prepareInputs`).  A digest stands for what was
hashed, so that a plan or a schema that changed after it was hashed shows.  Every
step may fail; once the run's directory exists a failure goes through
`cleanupOnError`, whose removal may fail too.

## 4. Runs

| Run | Checks | Shows |
|---|---|---|
| `state_stores` | `TypeOK`, `AcceptedNeverRegresses`, `AcceptanceIsAChain`, `ImplementsRegister`, `WaitIsBounded` | two processes, kills anywhere: nothing accepted is rolled back or contradicted; the store implements the register; a waiter gives up although the holder may hang |
| `state_power` | `CommittedSurvives` | policies and indexes in two directories with power loss: what was acknowledged is still there or was replaced by something newer, unless the power loss took a whole directory that `Observe` had made and whose path was not yet durable |
| `run_lifecycle` | `TypeOK`, `EarnedClean`, `EvidenceIsEarned`, `NothingLeftBehind`, `OutcomeInContract`, `ExportIsGuarded`, `RunTerminates` | four plans with every engine call failing at will and cancellation at any step |
| `verify_command` | `TypeOK`, `VerifiedIsEarned`, `StableIsEarned`, `BadRepeatShows` | up to two repeats with any outcome the contract allows and a source that changes at any time |
| `decision_tables` | `AggregateFollowsTable`, `PlanIsFaithful`, `PlannedIsExecutable` | all combinations of verdicts; every manifest near a valid one from its file to the prepared workspace, with edits meanwhile |
| `lane_controller` | `ReportIsTrue`, `PassIsEarned`, `OutcomesAreValid`, `LeftoversAreReported` | two producers, one output, two gates, failures, cancellation, kills and power loss |
| `observers` | `TraceTypeOK`, `ClearIsSound`, `ObserversAgree`, `TraceIsWhole`, `LimitEventsSurface`, `LongListenerIsSeen`, `ReportShowsWhatWasDecided`, `SessionEnds` | helpers, workload, faults and limits in every order |
| `offline_commands` | `AcceptedIsJustified`, `AcceptedInOrder`, `RecordedIsEarned`, `ObservedTreeExisted` | single commands over genuine documents and near misses, pairs that share state, and edits of the directory |
| `publication` | `PublishedIsWhole`, `DurabilityIsTrue`, `OutcomeIsTrue`, `ReleasedIsQualified` | two processes and one destination, any call failing, kills, a power loss |
| `run_peer`, `verify_caller`, `lane_cleanup` | one property each | disagreements between code and documents, section 8 |

The runs without deadlock checking are of programs that end.

For each property of a passing run PROJECT.json names a mutated definition (a
dropped guard, a missing sync, a swapped order) under which the property fails.

## 5. Bounds

- *State stores*: two processes are enough for every race of one lock, since
  any further process is another that waits; generations 1 and 2 with a second
  digest give an older, an equal, a conflicting and a newer value for every
  record, and a rotation of a root to itself is an invalid one; `MaxTries` is the
  number of polls before the lock's deadline.  TLC runs the rotation records,
  whose two generations can disagree, and the release records, which lie in two
  directories, each absent or durable at the start of `state_power`, where the
  processes are symmetric; `state_stores` is without power loss and starts from
  durable ones; the other two packages differ in the comparison only, which is
  proved about.
- *Run*: four plans that between them have every phase, both drivers, both
  engines, every observer, declared and undeclared residue;
  `MaxReadinessAttempts` is 2 instead of 128, so that success at once, success
  after a retry and exhaustion all happen.
- *Verify command*: one code of each class stands for the class, as the verdict
  functions only ask for membership; one or two repeats show disagreement, an
  early end and agreement.
- *Lane*: two producers race for the output; two gates give a first and a last
  one; a process result has at most two flags at once, so that every pair meets
  the order in which a result is judged.  The producers are symmetric.

- *Observers*: limits are 2 or 4 instead of thousands, so that each is met and
  exceeded; `ReadLimit` is 1, since one read may not take the helper's whole
  queue, which is what its check for pending notifications is for (the run also
  passes with 2, and the theorems hold for every limit); one fault per
  behaviour for each observer.  In `PeerPort` time is in units, `MaxGap` is 2.
- *Offline commands*: keys are 1 the root, 2 and 3 its successors, 4 a signer of
  bundles and indexes, 5 somebody else; three generations, two hops; four files,
  of which one lies in a subdirectory, and one that the snapshot skips.  Some 3,900
  single commands, pairs for shared state, and edits in the scripts that are about a
  directory, with three of them where a file of the root and one of the subdirectory
  come and go.
- *Publication*: two processes; one executable and one kit of the release's four
  and two, which the checks treat one by one; two edits of the build directory,
  or two replacements of a lane, package or controller; two subjects and two runs,
  so that a lane can be of another revision or of another run; one power loss.
- *Planning*: manifests that differ from a valid CLI or HTTP manifest in at most
  two fields of a related group; one step, one input and a second mount, one
  environment; further requests and assertions are of a kind the journey already
  has; the source tree is the manifest and one schema file; two edits, of the two
  cases that have a schema; the engine answers in five classes and may change
  between probe and preparation.

## 6. Fairness

- `WaiterSpec` assumes only that a process in the lock loop keeps running
  (`WF` of `acquireLock`): the loop sleeps and polls against a clock.  A holder
  may hang forever.
- `FairSpec` of `RunLifecycle` assumes `WF` of the runner's own steps: every
  engine call, probe and wait has a timeout or a grace period in the code.
  Nothing is assumed of the service, of its goroutine or of the caller.

- `MCObservers` assumes `WF` of the controller, all of whose waits have deadlines,
  and of a helper that has not died, a process the system schedules.  Nothing is
  assumed of the workload or of when a helper crashes.

Everything else is safety and needs no fairness.

## 7. Proofs

### The state stores

`MonotonicStore_proofs` proves for any sets of processes, scopes and
observations and any comparison that satisfies `ClassifyAssumption`:

| Theorem | States |
|---|---|
| `TypeCorrect`, `PowerTypeCorrect` | `TypeOK`, with kills and also with power loss |
| `Durability` | `CommittedSurvives`, with kills and power loss |
| `NoRollback` | `AcceptedNeverRegresses` |
| `NoEquivocation` | `AcceptanceIsAChain` |
| `Refinement` | every step is a step of the register or a stutter |

None of these invariants is inductive.  The argument is ownership: a process
past the lock holds it (`LockOwned`) and so is the only one between lock and
return in its scope; hence what it read is still on file until its own rename
and may be replaced by its value (`Snapshot`), what it renamed is still there
until it returns (`Replaced`), and after its sync the disk can hold nothing else
(`Synced`).  `Owned` is the conjunction of these with `TypeOK`, `ValidCalls` and
`EntrySurvives`; `OwnedNext` has one lemma per action.  Durability adds
`AllCover`, that everything which may survive covers what was committed, which a
rename keeps because the value renamed extends the one read (`CommitsCovered`); a
power loss then leaves a survivor in every directory it does not take, and it takes
none but a made one (`CommittedNext`, `PowerLossFrame`).  `NoRollback` and `NoEquivocation` come from `Agreed` by the
transitivity of acceptance.

`NoRollback` and `NoEquivocation` are about kills and not about power loss, and
that is not an omission: a record that was renamed and not yet synced may be
*matched* by another process and then lost, so acceptance by a match is not
durable and outside `CommittedSurvives`; only what was reported as written is
(`Durability`).

The assumptions: sentinels are distinct from values, every observation names a
scope, and the comparison is total, reflexive and symmetric on matches, and
transitive on acceptance.  The last is proved for each of the
four packages (`TrustComparison`, `ReleaseComparison`, `RotationComparison`,
`ChainComparison`), for any generations, digests, keys and scopes.

### The run

`RunLifecycle_proofs` proves for every set of plans, any bound on the readiness
attempts and every interleaving of the runner, the service goroutine and the
caller's cancellation:

| Theorem | States |
|---|---|
| `RunInvariant` | the inductive invariant `Inv` |
| `RunTypes` | `TypeOK`: the loops over commands and readiness attempts keep their bounds |
| `NothingIsLeftBehind` | `NothingLeftBehind` |
| `CleanIsEarned` | `EarnedClean` |
| `CompleteIsEarned` | `EvidenceIsEarned` |
| `ContractIsKept` | `OutcomeInContract` |
| `ExportGuarded` | the action property `ExportIsGuarded` |

All these promises are about the moment when `Run` has returned, and the service
goroutine may still move then.  So `Inv` follows the stages: `Joined` says that
past the join the service is absent, or cancelled and, unless it returned,
reported as `CLEANUP_FAILED`; `Quiet` that once the workload is quiet nothing but
such a service can stir it; `Summarised` what the cleanup summary is at each stage,
that the observation made of it is one the validator recognises or the one of a
disposable directory that reappeared (`Recognised`, `RecognisedStep`), and that clean
means nothing was produced; `Released` that whatever still exists in the engine has a finding;
`Concluded` that the outcome follows from what was recorded.  `Types` and `Bounds` are the typing.  One lemma per action; the actions of
a kind of stage share a lemma that says what they leave alone (`OpeningStep`,
`WorkingStep`, `GatherStep`, `RemoveStep`), and what `primaryRunError`, `Run`'s
errors and its verdict can be are lemmas about those operators.

`ContractIsKept` is what lets `VerifyCommand` forget the runner: its assumption
`OutcomesAssumption` asks of an outcome no more than `MayReturn`, which the theorem
gives for every plan.

Assumptions: `PlansAssumption` (a plan is one that validation lets through),
`AttemptsAssumption` (at least one readiness attempt) and `CodesAssumption`,
`NoErrorAssumption` (a nil error is no code).

### The verify command and the verdict table

`VerifyCommand_proofs` proves for any outcomes the contract allows, any repeat
counts up to ten, any required observers and any preparation errors:

| Theorem | States |
|---|---|
| `VerifyInvariant` | the inductive invariant `Inv` |
| `VerifyTypes` | `TypeOK`: no more repeats than asked, one of the seven statuses |
| `VerifiedEarned` | `VerifiedIsEarned` |
| `StableEarned` | `StableIsEarned` |
| `BadRepeatIsShown` | `BadRepeatShows` |
| `TableIsFollowed` | `AggregateFollowsTable`, for every record of verdicts |

The result is a function of the accumulators and the properties are about the
repeats, so `Accumulated` says what the accumulators keep of every repeat, and
`Counted` that a count which has kept up with the number of repeats is a count of
all of them: the loop only ever raises one count, and the highest is compared with
the number of repeats.  `Staged` is what the later stages establish about the work
directory and the source; `Concluded`, that the result is `Build`'s of a state that
has not changed since, and that `Build` compared the caller's cleanup verdict with
the findings.  Assumptions: `OutcomesAssumption`, `RequestsAssumption`,
`RefetchAssumption` (the provider's own codes are none that a verdict looks at) and
`NoErrorAssumption`.  The verdict that `Build` derives from a cleanup observation
(`observedCleanup`, a fold over the repeats) is left unexpanded: what is proved does
not depend on it, because `Build` refuses a result in which the two disagree.

### The lane producer

`LaneController_proofs` proves for any number of producers with one output, any
number of gates and any results an executor may report, with kills and power loss:

| Theorem | States |
|---|---|
| `LaneInvariant` | the inductive invariant `Inv` |
| `ReportsAreTrue` | `ReportIsTrue` |
| `PassesAreEarned` | `PassIsEarned` |
| `OutcomesValid` | `OutcomesAreValid` |
| `LeftoversReported` | the action property `LeftoversAreReported` |

`LocalOK` follows one producer from its gates to its outcome: a gate that did not
pass leaves an error behind, and the error decides the status, so that the records
are ones the receipt validator accepts, or there are none because the request was
refused before the first gate.  `DiskOK` is ownership, of two
kinds: a producer's random names are its own (`NamesOK`); and whoever has renamed
something to the output is the only one to take it back, since every other
producer's rename refuses an existing name (`Reached`, `Told`).  `Earned` says that
a passing lane at the output, or on the disk, belongs to a producer past its
promotion.  What a producer leaves behind is not in `Inv`: `Tidy` adds which of its
private directories may still hold something at which step, and that a failed undo
step has by then made the code `CLEANUP_FAILED`, or still has the tombstone that
will say so before it.  Assumptions: `GatesAssumption` (at least one gate) and
`ResultsAssumption` (results are well typed).

### Publication

`Publication_proofs` proves for any number of processes with one destination, any
set of the families that publish, any number of edits of what is published, with
kills at any step and a power loss:

| Theorem | States |
|---|---|
| `PublicationInvariant` | the inductive invariant `Inv` |
| `NothingHalfPublished` | `PublishedIsWhole` |
| `ConfirmedStays` | `DurabilityIsTrue` |
| `AnswersAreTrue` | `OutcomeIsTrue` |
| `OnlyQualifiedIsReleased` | `ReleasedIsQualified` |

The four properties are about the destination, which all processes write, and
none of them is inductive: that what a process reported is still there depends on
what every other process may do under the same name.  The argument is again
ownership.  A link and a rename without replacement refuse a name that exists, so
under a name only its creator acts until it takes the name back, and a whole
directory has one holder (`Owned`); a run
directory is made by `Mkdir`, which refuses too, so its writer is alone in it
(`OneRun`).  Hence what a process knows of its own names (`Placed`) and what it
answered (`Answered`) are kept by the steps of all the others, and an action has to
be looked at from its own process only: `DraftStep`, `LinkStep`, `FailKeepsInv` and
their like say so once for all actions of a kind, and there is one lemma per action.
`Sited` says which stages belong to which family and `Drafted` what lies in a
process's temporaries, which is what a rename then makes public.  A power loss
keeps `durable` and may drop the rest; what was confirmed is durable (`Answered`),
and the entries of sidecar and package directories are synced before the rename
(`Drafted`).  The contents are kept by `Qualified` for `dist` and by `Owned` for packages: what
lies there passed its checks as it was copied, and two lemmas about the operators do the rest, that
what qualifies is the release of one tested executable (`QualifiedRelease`) and that
tools assembled from a package are accepted together with it on either platform
(`ToolsAreAccepted`).

Assumptions: `FamiliesAssumption` (the families are those the program has) and
`EditLimitAssumption`.

### The offline commands

`OfflineCommands_proofs` proves for every set of scripts, that is any commands in
any number of processes over any documents, any paths and any limits of the
documents, with kills between any two steps:

| Theorem | States |
|---|---|
| `AcceptanceInOrder` | `AcceptedInOrder` |
| `AcceptanceIsJustified` | `AcceptedIsJustified` |
| `RecordingIsEarned` | `RecordedIsEarned` |
| `ObservationExisted` | `ObservedTreeExisted` |

`Inv` ties a command's step to what it has checked (`Local`), and the registers to
the commands that wrote them: every record was earned by a command that had checked
its documents (`Earned`), a scope has one (`OneRecord`), what was accepted is
covered by it (`Covered`), any two acceptances of a scope are comparable
(`Chained`), and in order when one command came after the other (`InOrder`).  The
order of a command's checks differs from the order in which genuineness is
defined, so the lemmas about documents show for each mode that the checks passed
are together equivalent to `Genuine`; `MadeInv` does the same for what issuing
commands write and their verifiers then ask.  The tree needs more than `Inv`,
because it is edited between any two steps of a walk: `TreeInv` says of a scan of
artifacts that what was listed and read so far was there together at one moment,
and `AboutInv` the same of the files of a source tree, whose walks must agree before
and after the manifest or a package lock is read.  For these, `Walking` and `Walked`
say of a walk that each directory was listed once (`Once`) and at some moment
(`ListedAt`), with what was then in it (`SeenIn`); of two walks that agree, the files
read by the first were all still there when the second began (`WasThere`), and what
was not found in a directory was absent when the second listed it.

Assumptions: `DocumentBounds`, `PathsAssumption`, `TreesAssumption` (a script starts
from a tree of those paths) and `ScriptsAssumption` (what flag parsing and decoding
let through).  `ScriptsAssumption` also asks that a bundle compared with a source
claims a tree that has a manifest.  The proof needed it: without it, a manifest
created after the second walk, read, and removed before the third gives an answer
about a tree that no moment had; a bundle made by `attest` always claims one.  The
attempt to prove the equivalences had found earlier that three checks of the code
were missing in the model (the status of a policy's keys, and the channel of the
release's transitions and chains); they are there now.

### The activity trace

`ActivityTrace_proofs` proves for any steps, declared writes, files, windows and
limits, in every mode, with crashes, failed calls, lost and junk frames and a
workload that writes whenever it runs:

| Theorem | States |
|---|---|
| `TraceTypes_ok` | `TraceTypeOK` |
| `TracesAreWhole` | `TraceIsWhole` |
| `ClearsAreSound` | `ClearIsSound` |
| `ObserversNeverDisagree` | `ObserversAgree` |
| `LimitEventsAlwaysSurface` | `LimitEventsSurface` |

The properties are about the end of a session and compare what the helper counted
with what was really written.  `Whole` carries the comparison through the session:
while the helper lives and the session can still be published, either a
notification that will end the trace (a new directory, a lost watch, an overflow)
is on its way, or every directory is watched and the written paths are exactly
those recorded, read or still queued.  `Exchange` says that at most one command or
frame is under way and which one, which ties the rules in the helper to the step
the controller has dispatched: a window is opened, and the trace stopped, only when
nothing is pending, so no write is matched against another step's rules
(`Compared`).  A process that survives its step would break this; the check after
each dispatch finds it, so a comparison that can still be made has such a process
only while that check is due.  A final frame is written after the workload was
quiesced and says the same for good (`Testimony`).  `Granted` and `Changed` relate
the writes to the patterns and to the two pictures of the retained files: a path that
nobody wrote is unchanged, and a directory of whose entries some were written differs
at most in its size (`Kept`, which `AddedIs` and `RemovedIs` give for the workload's
operations), so that of what one observer clears the other can convict nothing but
such a directory; `Limits` follows the cgroup
counters.  `Progress`, `HelperStaged` and `Commanded` are where the controller and
the helper stand, `Bounds` and `TraceTypes` the rest.  There is one lemma per action.

Assumptions: `TraceAssumption` (positive limits, finitely many declared patterns),
`FilesAssumption` (paths are not empty, and what exists at the start lies in a
directory) and `ChannelSizeAssumption`.  The theorems are about `TraceSpec`, and those of
the next section about `PeerSpec`; `MCObservers` runs one or the other.

### The port observer

`PeerPort_proofs` proves `LongListenerIsSeen` (`LongListenersAreSeen`) for any
finite set of endpoints, any gap and any limits.  `PeerInv` bounds the age of a
listener that no sample has seen by the helper's clock (`Young`): at most 1 + clock
between two samples, and 1 + `MaxGap` + clock after the clock was read and before
the table is, so that the longest such age is twice the gap plus one.
`Sampled` says that a longer one has been seen, or that the helper will find its
own delay; `PeerStaged` that the final sample is taken after the workload was
quiesced; `Told` that a final frame carries every endpoint observed.  Assumptions:
`PeerAssumption` and `ChannelSizeAssumption`.

### Only model-checked

- Liveness (`WaitIsBounded`, `RunTerminates`, `SessionEnds`): liveness under
  fairness is out of this prover's reach.
- `ReportShowsWhatWasDecided`: that the counts of the phases add up to the number
  of notifications is a sum over a function, and the summaries of a report are
  filtered from a sequence; what such a fold yields for every input is induction
  over data, which these provers cannot do.
- `PlanIsFaithful` and `PlannedIsExecutable`: they compare four tables of rules,
  over some eighty fields of a manifest, with filtered sequences of steps and
  assertions.  TLC goes through every manifest near a valid one; a proof would
  repeat the tables.

## 8. Findings and observations

Each finding has a run in which TLC shows a behaviour of the code that a line of
the repository excludes.

- `run_peer`: a peer container whose creation was cut off cannot be found again
  under the dead context and stays; the architecture document says that
  finalization forcibly removes any peer observer.
- `verify_caller`: a later repeat that fails before `Run` makes the caller's
  cleanup verdict disagree with what `Build` derives, and a result whose findings
  are accurate is refused.
- `lane_cleanup`: a promotion that can be neither synced nor undone is reported
  as an existing destination; the RFC says that a cleanup failure cannot be
  downgraded.

Seen while modelling, without a run of their own: `RESOURCE_LIMIT_EXCEEDED` alone
changes no functional, capability or cleanup verdict; `OBSERVER_START_FAILED` is
overwritten by a later `SANDBOX_START_FAILED`; coverage of written files and of
listening ports is never above best effort, so a manifest that requires either in
full cannot be verified; when a disposable directory shows in the inventory after its
removal was reported, the runner emits a cleanup observation of a class that belongs
to an earlier stage (`cleanup_inventory.go:498-505`), the validator refuses it
(`verification.go:614-651`), and the whole result is lost (`OutcomeInContract` names
this case); a non-zero command of the cleanup phase yields `CLEANUP_FAILED`
with a clean verdict, which `Build` then refuses; a file assertion of a CLI plan
is evaluated on the host directory although the export failed; a record that was
renamed and not synced is shown as the durable one; a failed rollback of a
tombstone keeps the tombstone's original code; `Run` reports `PROCESS_LEAK`
(`service.go:337`, `http_driver.go:934`) while the cleanup verdict stays clean,
although the capability model calls such a run non-clean; a source that cannot be
read again (`cli.go:594`) is reported under the provider's own code, which no
verdict looks at.

*State stores.*  The directories are made by `ensurePrivateDirectory`
(`truststate.go:132-245`, `releasestate.go:191-285`) and no parent is synced;
`syncDirectory` (`platform_unix.go:86-93`) is called on the leaf only.  On a fresh
data root the first acknowledged record may therefore disappear with its directory at
a power loss, and the next observation starts from nothing (`CommittedSurvives` names
this case).

*Observers.*  A run ended before the trace was started, by the resource preflight,
the output directories or a probe of the sandbox (`runner.go:949-1104`), publishes a
notification comparison that is `not-tested` and names no failure, and the report says
NOT REPORTED instead of NOT-TESTED (`ReportShowsWhatWasDecided` says that this is the
only case).  A declared write below a directory changes that directory's recorded size
(`filesystem_observer.go:32`, `102`, `511`), so the retained state can be nonconforming
in a run whose notifications are clear; `selectFilesystemDeclarationFinding` then has to
choose (`ObserversAgree` says that this is the only case).  `LongListenerIsSeen` holds for twice the accepted gap and not for one, as
the clock is read before the table.  More declared patterns than the
notification limit make the comparison unavailable, never clear.

*Offline commands.*  A trust policy is recorded before the signer it decides
about is known to be acceptable.  `digestFile` follows a link put there after the
file was inspected.  A release policy refuses its own authority in its list, not the
root.  The documents disclaim protection against rollback across modes and across
a change of authority (`release.md:79`, `cli.md:68`), so none is claimed.  A walk
lists each directory when it comes to it, so with a file of the root and one of a
subdirectory created and removed in turn, six edits in all, two walks agree on a tree
that as a whole no moment had: each file of it was there, and each absence was true of
its directory, but at different moments.  `ObservedTreeExisted` claims no more than
that the files were there together.  If
somebody restored identical content between two walks, a comparison of two walks
could not tell; in the model every edit leaves new content.

*Publication.*  The withdrawal of a sidecar directory removes what lies at the
destination without checking that it is its own.  `repopass-release-qualify`
removes the construction directory before it renames, so losing the race for
`dist` loses the bytes; it fails closed.  Runs, kits, evaluations and releases
sync no directory and are not durable against power loss; `dist` may come back
partial.  A killed publisher leaves its temporaries.

*Planning.*  Five places where the planner accepts and the runner refuses, all
failing closed, and all named in `PlannedIsExecutable`: a comma or a control
character in the path of a fixture or of its mount, which
`validSandboxPath` and the planner take and `unsafeMountSourcePath` does not
(`runner.go:2650`, `2725`; the tests at `runner_test.go:1238` and `1261` pin the
refusal); a phase step of a CLI plan called `journey-cli`; disk above 2 GiB or memory above 64 GiB; a cleanup
timeout that does not exceed the signal's grace by 750 ms; a JSON file assertion
on `/outputs` itself.  The manifest is loaded before the snapshot is taken, so the
snapshot may hold a newer manifest than the one planned.  `NegotiateFeatures` has
no answer for full coverage of process execution or listening ports and would
refuse it; `Doctor` never reports it.  `verify` never reads the lock file.

## 9. Modelling assumptions and what is left out

- The Unix build: flock, rename, renameat2 with no replacement, fsync of
  directories.  The Windows code is not modelled.
- An engine request takes effect before its CLI call returns or not at all.
  Files written by a workload show in the inventory.  Cleanup stages use their
  own contexts and are not cut off by the caller.
- `finalizationSucceeded` is the emptiness of `finalizationErrors`: the code always
  sets the two together.  An HTTP plan has one service and a final signal.
- A plan's success threshold is the number of its repeats.  The source is not
  followed after it was read again.
- Bytes, JSON, paths, digests and signatures are values: equal or different,
  readable or not.  Path and permission checks are among the ways in which a
  step may fail.
- In `LaneController` the random names are taken to be unused, a producer's
  workspace is its own, and the removal of a workspace is not followed through a
  power loss.  Preparation of a lane is the set of errors it can end with.
- Observers: the system calls of the helpers and the wording of observations are
  left out; an abort waits for the helper's process or gives up at its deadline.
- Offline commands: each document is read once and does not change under its
  command; a signature is the key that made it; the registers are those
  `MonotonicStore` implements, which answer truly or are unavailable, having
  advanced or not.  In this module what a manifest plans and what a package lock
  yields are functions of the content that was read, or errors.
- Publication: a removal is final; what a package directory is taken to hold is
  what it held at one moment, as every file is read twice and looked at again; a
  subject stands for its revisions and its tree, an executable is its operating
  system, revision and a serial number; the two passes of a qualification are one, as
  the sealed directory is private; `QualifyPreHelper` is not modelled.
- Planning: durations are whole milliseconds, which is all the schema allows; the
  public schema is modelled by the conditions that go beyond `Validate`; any
  preparation step may fail by I/O.

Not modelled, and why:

- `sourcequalification` beyond lanes, packages and tools: some nine thousand lines
  of sequential document validation, a Git object reader and, on Windows, an
  AppContainer executor.  Their control is straight-line; their substance is
  encodings and operating-system objects.
- Encoders, discovery and redaction: no state, properties of text.
- Cryptography: an assumption of the system.
- Operating-system wrappers, beyond their effects, and all Windows code.
- The lock file, `init`, the runtime helper, `VerifyIntegrity` and the rules of the
  acceptance registry: sequential, and reached by unit tests.
- Flag parsing, logging and printing.
