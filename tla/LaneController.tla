--------------------------- MODULE LaneController ---------------------------
(***************************************************************************)
(* ProduceLane (internal/sourcequalification): a producer runs the gates   *)
(* of its lane in a private workspace, writes the lane to a stage beside   *)
(* the output, cleans its workspace and only then renames the stage to the *)
(* output, which must not exist; a lane that could not be built leaves a   *)
(* tombstone there instead.  Several producers may be given the same       *)
(* output.  Any call may fail, a producer may be killed anywhere, and the  *)
(* machine may lose power.                                                 *)
(***************************************************************************)
EXTENDS GateRunner, Sequences

CONSTANTS
    Proc,       \* producers given the same output directory
    Gates,      \* how many gates the lane requires
    Results     \* what the executor may report of one gate process

ASSUME GatesAssumption == Gates \in Nat \ {0}
ASSUME ResultsAssumption == Results \subseteq ProcessResult

\* The directories in the parent of the output: the output itself, and for
\* each producer the lane's stage and the staging directories of lane and
\* tombstone, all under random names.
Name == {"output"} \X {"all"} \cup {"stage", "lane", "tombstone"} \X Proc
Output == <<"output", "all">>
Stage(p) == <<"stage", p>>
Absent == [kind |-> "absent"]

\* A directory is whole when it holds exactly the files of its kind.
Package(p, kind, status, whole) ==
    [kind |-> kind, owner |-> p, status |-> status, whole |-> whole]

VARIABLES
    disk,       \* [Name -> what processes see under the name]
    survivors,  \* what the output may be after a power loss
    workspace,  \* [Proc -> "absent", "empty" or "used"]
    pc,         \* [Proc -> where in ProduceLane the producer is]
    local,      \* [Proc -> its variables]
    result      \* [Proc -> what ProduceLane returned, or NoResult]

vars == <<disk, survivors, workspace, pc, local, result>>

NoResult == [code |-> "none yet"]

\* gates and err: the gate records and the first error; status: the lane's;
\* job: what is being published; then: what a failed publication returns or
\* what follows a withdrawal; code and ready: the outcome of the stage;
\* cancelled: the caller's context; ran: gates executed so far; sound:
\* history, whether every gate was run and everything observed of the
\* processes, the tools, the logs and the source was the expected.
Locals == [gates |-> [i \in 1..Gates |-> NotRun], err |-> "none", status |-> "NOT_RUN",
           job |-> "lane", then |-> "none", code |-> "none", ready |-> FALSE,
           cancelled |-> FALSE, ran |-> 0, sound |-> TRUE]

Init ==
    /\ disk = [n \in Name |-> Absent]
    /\ survivors = {Absent}
    /\ workspace = [p \in Proc |-> "absent"]
    /\ pc = [p \in Proc |-> "idle"]
    /\ local = [p \in Proc |-> Locals]
    /\ result = [p \in Proc |-> NoResult]

-----------------------------------------------------------------------------
(* Helpers. *)

At(p, step) == pc[p] = step
Goto(p, step) == pc' = [pc EXCEPT ![p] = step] /\ UNCHANGED result
Update(p, l) == local' = [local EXCEPT ![p] = l]
SameDisk == UNCHANGED <<disk, survivors>>

\* The variables of a producer that has ended are gone, but for the history.
Ended(p) == [Locals EXCEPT !.sound = local[p].sound]

Return(p, code, status, published) ==
    /\ pc' = [pc EXCEPT ![p] = "returned"]
    /\ result' = [result EXCEPT ![p] =
                      [code |-> code, status |-> status, published |-> published]]
    /\ Update(p, Ended(p))

controllerFailure(p, code) == Return(p, code, "FAIL", FALSE)

\* Names change: processes see it at once, the disk may hold either state.
\* The random names are used by their producer only and mean nothing after a
\* power loss, so that only the output's survivors are kept.
Put(changes) ==
    /\ disk' = [n \in Name |-> IF n \in DOMAIN changes THEN changes[n] ELSE disk[n]]
    /\ survivors' = survivors \cup {disk'[Output]}

One(n, content) == [m \in {n} |-> content]

\* renameat2 with RENAME_NOREPLACE.
MayRename(to) == disk[to] = Absent
Rename(from, to) == Put([n \in {from, to} |-> IF n = to THEN disk[from] ELSE Absent])

\* The parent directory is synced.
syncPackageDirectory == survivors' = {disk'[Output]}

IsOwn(p, n) == disk[n] # Absent /\ disk[n].owner = p
IsWhole(n) == disk[n] # Absent /\ disk[n].whole

-----------------------------------------------------------------------------
(* From the request to the receipt. *)

\* The output must be absent and the private workspace is created; a failed
\* creation may leave an empty directory behind.
ProduceLane(p) ==
    /\ At(p, "idle")
    /\ \/ /\ disk[Output] = Absent
          /\ workspace' = [workspace EXCEPT ![p] = "used"]
          /\ Goto(p, "allocate")
          /\ UNCHANGED local
       \/ /\ workspace' \in {workspace, [workspace EXCEPT ![p] = "empty"]}
          /\ controllerFailure(p, "INVALID_INPUT")
    /\ SameDisk

\* An unused name for the stage is chosen; nothing is created yet.
allocateStage(p) ==
    /\ At(p, "allocate")
    /\ \/ Goto(p, "history") /\ UNCHANGED <<workspace, local>>
       \/ /\ workspace' = [workspace EXCEPT ![p] = "absent"]
          /\ controllerFailure(p, "INVALID_INPUT")
       \/ controllerFailure(p, "CLEANUP_FAILED") /\ UNCHANGED workspace
    /\ SameDisk

\* The lane fails before anything is published.
LaneError(p, l, err) ==
    /\ Update(p, [l EXCEPT !.err = err, !.status = "FAIL"])
    /\ Goto(p, "readback")

\* An outcome without a lane: nothing is read back.
NoLane(p, codes) ==
    /\ \E code \in codes :
           Update(p, [local[p] EXCEPT !.code = code,
                          !.status = attemptTombstoneStatusForCode(code)])
    /\ Goto(p, "clean")

\* The attempt history cannot be had, or an earlier run has been here.
HasPriorExecution(p) ==
    /\ At(p, "history")
    /\ \/ Goto(p, "configure") /\ UNCHANGED local
       \/ NoLane(p, {"GATE_BLOCKED", "GATE_FAILED"})
    /\ SameDisk /\ UNCHANGED workspace

\* Directories, applications, environment and platform facts.
buildProductionLaneConfiguration(p) ==
    /\ At(p, "configure")
    /\ \/ ~local[p].cancelled /\ Goto(p, "validate") /\ UNCHANGED local
       \/ NoLane(p, {"INVALID_INPUT"})
    /\ SameDisk /\ UNCHANGED workspace

validateQualificationLaneRequest(p) ==
    /\ At(p, "validate")
    /\ \/ ~local[p].cancelled /\ Goto(p, "snapshot") /\ UNCHANGED local
       \/ LaneError(p, local[p], "INVALID_INPUT")
    /\ SameDisk /\ UNCHANGED workspace

\* The repository is snapshotted and archived, the controller inspects
\* itself, the clock is read.
sourceFromRepositorySnapshot(p) ==
    /\ At(p, "snapshot")
    /\ \/ Goto(p, "bind") /\ UNCHANGED local
       \/ \E err \in {"INVALID_INPUT", "ARCHIVE_INVALID", "RECEIPT_INVALID"} :
              LaneError(p, local[p], err)
    /\ SameDisk /\ UNCHANGED workspace

\* The start of runRequiredGates.  It validates the request once more, looking
\* at the directories and applications as they are now; a refusal leaves no
\* records at all.  Then every gate application is opened and its digest taken.
BindApplications(p) ==
    /\ At(p, "bind")
    /\ \/ /\ Update(p, [local[p] EXCEPT !.gates = <<>>, !.err = "INVALID_INPUT"])
          /\ Goto(p, "receipt")
       \/ ~local[p].cancelled /\ Goto(p, "gate") /\ UNCHANGED local
       \/ /\ ~local[p].cancelled
          /\ Update(p, [local[p] EXCEPT !.gates[1] = markGateBindingFailure("BLOCKED"),
                            !.err = "GATE_BLOCKED", !.sound = FALSE])
          /\ Goto(p, "receipt")
       \/ /\ local[p].cancelled
          /\ Update(p, [local[p] EXCEPT !.err = "GATE_NOT_RUN"])
          /\ Goto(p, "receipt")
    /\ SameDisk /\ UNCHANGED workspace

\* One turn of the gate loop: the applications are verified, the process is
\* run under the source guard, its log is written and the result judged.
\* cut: the caller cancels while the process runs.
runRequiredGates(p) ==
    LET i == local[p].ran + 1
    IN  /\ At(p, "gate")
        /\ \/ /\ local[p].cancelled
              /\ Update(p, [local[p] EXCEPT !.err = "GATE_NOT_RUN"])
              /\ Goto(p, "unbind")
           \/ /\ ~local[p].cancelled        \* Verify fails
              /\ Update(p, [local[p] EXCEPT !.gates[i] = markGateBindingFailure("FAIL"),
                                !.err = "GATE_FAILED", !.sound = FALSE])
              /\ Goto(p, "unbind")
           \/ /\ ~local[p].cancelled
              /\ \E r \in Results, cut \in BOOLEAN, logged \in BOOLEAN :
                     LET seen == IF cut THEN [r EXCEPT !.flags = @ \cup {"cancelled", "source-changed"}]
                                 ELSE r
                         verdict == IF logged THEN evaluateGateResult(seen)
                                    ELSE [status |-> "FAIL", exit |-> validGateExitCode(r.exit),
                                          err |-> "GATE_FAILED"]
                         expected == /\ logged /\ seen.flags = {} /\ seen.exit = "zero"
                                     /\ seen.meets /\ ~seen.err
                     IN  /\ Update(p, [local[p] EXCEPT
                                !.cancelled = cut,
                                !.gates[i] = [status |-> verdict.status, exit |-> verdict.exit,
                                              timed |-> TRUE],
                                !.err = verdict.err, !.ran = i, !.sound = @ /\ expected])
                         /\ Goto(p, IF verdict.err = "none" /\ i < Gates THEN "gate"
                                    ELSE "unbind")
        /\ SameDisk /\ UNCHANGED workspace

\* The held applications are closed, whatever the gates did.
releaseBinding(p) ==
    /\ At(p, "unbind")
    /\ \/ UNCHANGED local
       \/ Update(p, [local[p] EXCEPT !.gates = markLastEvaluatedGateCleanupFailure(@),
                         !.err = "CLEANUP_FAILED", !.sound = FALSE])
    /\ Goto(p, "receipt")
    /\ SameDisk /\ UNCHANGED workspace

ReceiptIsValid(l) ==
    qualificationLaneGateStatus(l.gates, Gates, l.err).ok /\ validateReceiptGates(l.gates)

GatesDone(l) == [l EXCEPT !.gates = Locals.gates, !.cancelled = FALSE, !.ran = 0,
                          !.sound = @ /\ l.ran = Gates]

\* The receipt is put together and marshalled, or the clock ran backwards.
marshalCanonicalReceipt(p) ==
    /\ At(p, "receipt")
    /\ \/ /\ ReceiptIsValid(local[p])
          /\ Update(p, [GatesDone(local[p]) EXCEPT
                            !.status = AggregateQualificationStatus(local[p].gates)])
          /\ Goto(p, "staging")
       \/ LaneError(p, GatesDone(local[p]), "RECEIPT_INVALID")
    /\ SameDisk /\ UNCHANGED workspace

-----------------------------------------------------------------------------
(* Publication of a directory: the lane to the stage, a tombstone to the   *)
(* output.  Both are filled under a random name and renamed.               *)

Staging(p) == <<local[p].job, p>>
Target(p) == IF local[p].job = "lane" THEN Stage(p) ELSE Output
Artifact(p, whole) ==
    Package(p, local[p].job, IF local[p].job = "lane" THEN local[p].status
                             ELSE attemptTombstoneStatusForCode(local[p].code), whole)

\* A publication returns an error: the lane's is kept for the read-back; a
\* tombstone's is dropped, and ProduceLane returns without one.
PublicationFailed(p, err) ==
    \/ local[p].job = "lane" /\ LaneError(p, local[p], err)
    \/ /\ local[p].job = "tombstone"
       /\ Return(p, local[p].code, attemptTombstoneStatusForCode(local[p].code), FALSE)

Refusal(p) == IF disk[Target(p)] # Absent THEN "DESTINATION_EXISTS" ELSE "INVALID_INPUT"

Fail(p, step, err) == Update(p, [local[p] EXCEPT !.then = err]) /\ Goto(p, step)

\* A failed creation rolls back, and that too may fail.
createPrivateQualificationStaging(p) ==
    /\ At(p, "staging")
    /\ \/ /\ disk[Target(p)] = Absent
          /\ Put(One(Staging(p), Artifact(p, FALSE)))
          /\ Goto(p, "fill")
          /\ UNCHANGED local
       \/ /\ PublicationFailed(p, Refusal(p))
          /\ \/ SameDisk
             \/ disk[Target(p)] = Absent /\ Put(One(Staging(p), Package(p, "empty", "FAIL", FALSE)))
    /\ UNCHANGED workspace

\* Each file is written and synced, all are read back, the directory is synced.
writePrivatePackageFiles(p) ==
    /\ At(p, "fill")
    /\ \/ Put(One(Staging(p), Artifact(p, TRUE))) /\ Goto(p, "rename") /\ UNCHANGED local
       \/ SameDisk /\ Fail(p, "unstage", "INVALID_INPUT")
    /\ UNCHANGED workspace

\* Mutant: the rename replaces what is there.
publishPackageDirectoryReplacing(p) ==
    /\ At(p, "rename")
    /\ Rename(Staging(p), Target(p)) /\ Goto(p, "release") /\ UNCHANGED local
    /\ UNCHANGED workspace

publishPackageDirectoryNoReplace(p) ==
    /\ At(p, "rename")
    /\ \/ /\ MayRename(Target(p))
          /\ Rename(Staging(p), Target(p)) /\ Goto(p, "release") /\ UNCHANGED local
       \/ SameDisk /\ Fail(p, "unstage", Refusal(p))
    /\ UNCHANGED workspace

\* The handles on the staging directory, now the target, are closed.
releaseStaging(p) ==
    /\ At(p, "release")
    /\ \/ Goto(p, "sync") /\ UNCHANGED local
       \/ Fail(p, "retract", "CLEANUP_FAILED")
    /\ SameDisk /\ UNCHANGED workspace

syncPublishedPackageParent(p) ==
    /\ At(p, "sync")
    /\ \/ /\ UNCHANGED disk /\ syncPackageDirectory
          /\ \/ local[p].job = "lane" /\ Goto(p, "verify") /\ UNCHANGED local
             \/ /\ local[p].job = "tombstone"
                /\ Return(p, local[p].code, attemptTombstoneStatusForCode(local[p].code), TRUE)
       \/ SameDisk /\ Fail(p, "retract", "INVALID_INPUT")
    /\ UNCHANGED workspace

\* The deferred cleanup of a staging directory that was not renamed.
cleanupStaging(p) ==
    /\ At(p, "unstage")
    /\ \/ Put(One(Staging(p), Absent)) /\ PublicationFailed(p, local[p].then)
       \/ SameDisk /\ PublicationFailed(p, "CLEANUP_FAILED")
    /\ UNCHANGED workspace

-----------------------------------------------------------------------------
(* Withdrawal of a directory that was renamed. *)

\* withdraw: the stage goes before ProduceLane returns "then" or publishes a
\* tombstone.
Withdraw(p, l, then) ==
    /\ Update(p, [l EXCEPT !.job = "withdraw", !.then = then])
    /\ Goto(p, "withdraw")

Withdrawn(p) ==
    \/ /\ local[p].then = "tombstone"
       /\ Update(p, [local[p] EXCEPT !.job = "tombstone"])
       /\ Goto(p, "staging")
    \/ local[p].then # "tombstone" /\ controllerFailure(p, local[p].then)

Retracted(p, ok) ==
    \/ /\ local[p].job \in {"lane", "tombstone"}
       /\ PublicationFailed(p, IF ok THEN local[p].then ELSE "CLEANUP_FAILED")
    \/ local[p].job = "promote" /\ Withdraw(p, local[p], "DESTINATION_EXISTS")
    \/ local[p].job = "withdraw" /\ IF ok THEN Withdrawn(p) ELSE controllerFailure(p, "CLEANUP_FAILED")

RetractedName(p) == IF local[p].job \in {"lane", "withdraw"} THEN Stage(p) ELSE Output

\* The directory must be the one that was published, with exactly its files;
\* they are removed first.
cleanupPublishedPackage(p) ==
    LET n == RetractedName(p)
    IN  /\ At(p, "retract")
        /\ \/ /\ IsOwn(p, n) /\ IsWhole(n)
              /\ Put(One(n, [disk[n] EXCEPT !.whole = FALSE]))
              /\ Goto(p, "unlink") /\ UNCHANGED local
           \/ SameDisk /\ Retracted(p, FALSE)
        /\ UNCHANGED workspace

\* Then the directory, and the parent is synced.
unlinkPublishedPackage(p) ==
    LET n == RetractedName(p)
    IN  /\ At(p, "unlink")
        /\ \/ /\ disk' = [disk EXCEPT ![n] = Absent] /\ syncPackageDirectory
              /\ Retracted(p, TRUE)
           \/ Put(One(n, Absent)) /\ Retracted(p, FALSE)
           \/ SameDisk /\ Retracted(p, FALSE)
        /\ UNCHANGED workspace

\* Mutant: a stage that cannot be read is left where it is.
withdrawControllerLaneStageQuietly(p) ==
    /\ At(p, "withdraw")
    /\ \/ Withdrawn(p)
       \/ IsWhole(Stage(p)) /\ Goto(p, "retract") /\ UNCHANGED local
    /\ SameDisk /\ UNCHANGED workspace

withdrawControllerLaneStage(p) ==
    /\ At(p, "withdraw")
    /\ \/ disk[Stage(p)] = Absent /\ Withdrawn(p)
       \/ IsWhole(Stage(p)) /\ Goto(p, "retract") /\ UNCHANGED local
       \/ controllerFailure(p, "CLEANUP_FAILED")
    /\ SameDisk /\ UNCHANGED workspace

-----------------------------------------------------------------------------
(* From the stage to the result. *)

\* The repository and the stage are read again.
verifyQualificationLanePublicationSource(p) ==
    /\ At(p, "verify")
    /\ \/ IsOwn(p, Stage(p)) /\ IsWhole(Stage(p)) /\ Goto(p, "readback") /\ UNCHANGED local
       \/ LaneError(p, local[p], "CLEANUP_FAILED")
       \/ /\ Update(p, [local[p] EXCEPT !.then = "SOURCE_DIRTY", !.sound = FALSE])
          /\ Goto(p, "retract")
       \/ Fail(p, "retract", "INVALID_INPUT")
    /\ SameDisk /\ UNCHANGED workspace

\* The outcome of the stage: ready only with a readable lane whose receipt
\* has the status the lane returned.
produceControllerLaneStage(p) ==
    LET code == IF local[p].err = "none" THEN "none"
                ELSE qualificationLaneErrorCode(local[p].err, local[p].status)
        outcome(ready, status, c) ==
            Update(p, [local[p] EXCEPT !.ready = ready, !.status = status, !.code = c, !.err = "none"])
    IN  /\ At(p, "readback")
        /\ \/ IsWhole(Stage(p)) /\ disk[Stage(p)].status = local[p].status
                                /\ outcome(TRUE, local[p].status, code)
           \/ IsWhole(Stage(p)) /\ disk[Stage(p)].status # local[p].status
                                /\ outcome(FALSE, "FAIL", "RECEIPT_INVALID")
           \/ code # "none" /\ outcome(FALSE, local[p].status, code)       \* it cannot be read
           \/ code = "none" /\ outcome(FALSE, "FAIL", "RECEIPT_INVALID")
        /\ Goto(p, "clean")
        /\ SameDisk /\ UNCHANGED workspace

normalizeProduceLaneOutcome(l) ==
    IF l.status = "PASS" THEN l.ready /\ l.code = "none"
    ELSE l.code # "none" /\ l.status = attemptTombstoneStatusForCode(l.code)

\* The private workspace is removed before anything is promoted.
cleanupWorkspace(p) ==
    LET valid == normalizeProduceLaneOutcome(local[p])
    IN  /\ At(p, "clean")
        /\ \/ /\ workspace' = [workspace EXCEPT ![p] = "absent"]
              /\ \/ local[p].ready /\ valid /\ Goto(p, "promote") /\ UNCHANGED local
                 \/ ~local[p].ready /\ valid /\ Withdraw(p, local[p], "tombstone")
                 \/ ~valid /\ Withdraw(p, local[p], "INVALID_INPUT")
           \/ /\ Withdraw(p, [local[p] EXCEPT !.code = "CLEANUP_FAILED"], "tombstone")
              /\ UNCHANGED workspace
        /\ SameDisk

\* The stage is read twice, its receipt verified and the directory synced.
promoteControllerLaneStage(p) ==
    /\ At(p, "promote")
    /\ \/ /\ disk[Output] = Absent /\ IsWhole(Stage(p))
          /\ Goto(p, "promoteRename") /\ UNCHANGED local
       \/ Withdraw(p, local[p], "DESTINATION_EXISTS")
    /\ SameDisk /\ UNCHANGED workspace

promoteNoReplace(p) ==
    /\ At(p, "promoteRename")
    /\ \/ /\ MayRename(Output) /\ Rename(Stage(p), Output)
          /\ Update(p, [local[p] EXCEPT !.job = "promote"])
          /\ Goto(p, "promoteSync")
       \/ SameDisk /\ Withdraw(p, local[p], "DESTINATION_EXISTS")
    /\ UNCHANGED workspace

\* The promotion is made durable, or undone.
syncPromotedStage(p) ==
    /\ At(p, "promoteSync")
    /\ \/ /\ UNCHANGED disk /\ syncPackageDirectory
          /\ Return(p, IF local[p].status = "PASS" THEN "OK" ELSE local[p].code,
                    local[p].status, TRUE)
       \/ SameDisk /\ Goto(p, "retract") /\ UNCHANGED local
    /\ UNCHANGED workspace

-----------------------------------------------------------------------------
(* The environment. *)

\* The caller cancels.  After the gates nothing looks at the context.
Cancel(p) ==
    /\ pc[p] \in {"history", "configure", "validate", "snapshot", "bind", "gate"} /\ ~local[p].cancelled
    /\ Update(p, [local[p] EXCEPT !.cancelled = TRUE])
    /\ UNCHANGED <<disk, survivors, workspace, pc, result>>

Gone == {"returned", "dead"}

Kill(p) ==
    /\ pc[p] \notin Gone \cup {"idle"}
    /\ Goto(p, "dead")
    /\ Update(p, Ended(p))
    /\ SameDisk /\ UNCHANGED workspace

\* Every producer under way dies and the output is one of the things the disk
\* may hold.
PowerLoss ==
    /\ \E content \in survivors :
           /\ disk' = [n \in Name |-> IF n = Output THEN content ELSE Absent]
           /\ survivors' = {content}
    /\ pc' = [p \in Proc |-> IF pc[p] \in Gone \cup {"idle"} THEN pc[p] ELSE "dead"]
    /\ local' = [p \in Proc |-> Ended(p)]
    /\ UNCHANGED <<workspace, result>>

AllGone == (\A p \in Proc : pc[p] \in Gone) /\ UNCHANGED vars

Step(p) ==
    \/ ProduceLane(p) \/ allocateStage(p)
    \/ HasPriorExecution(p) \/ buildProductionLaneConfiguration(p)
    \/ validateQualificationLaneRequest(p) \/ sourceFromRepositorySnapshot(p)
    \/ BindApplications(p) \/ runRequiredGates(p) \/ releaseBinding(p)
    \/ marshalCanonicalReceipt(p)
    \/ createPrivateQualificationStaging(p) \/ writePrivatePackageFiles(p)
    \/ publishPackageDirectoryNoReplace(p) \/ releaseStaging(p)
    \/ syncPublishedPackageParent(p) \/ cleanupStaging(p)
    \/ cleanupPublishedPackage(p) \/ unlinkPublishedPackage(p)
    \/ withdrawControllerLaneStage(p)
    \/ verifyQualificationLanePublicationSource(p) \/ produceControllerLaneStage(p)
    \/ cleanupWorkspace(p)
    \/ promoteControllerLaneStage(p) \/ promoteNoReplace(p) \/ syncPromotedStage(p)

Next == (\E p \in Proc : Step(p) \/ Cancel(p) \/ Kill(p)) \/ PowerLoss \/ AllGone

Spec == Init /\ [][Next]_vars
-----------------------------------------------------------------------------
(* Properties. *)

\* Whoever was told that its lane or tombstone is published finds exactly
\* that at the output: whole, with the status reported, and there after a
\* power loss, whatever other producers with the same output do.
ReportIsTrue ==
    \A p \in Proc : result[p] # NoResult /\ result[p].published =>
        \A c \in survivors :
            /\ c # Absent /\ c.owner = p /\ c.whole /\ c.status = result[p].status
            /\ result[p].code = "OK" => c.kind = "lane"

\* A passing lane at the output, also of a producer that was killed, was
\* earned: every gate ran and every observation of the processes, the tools,
\* the logs and the source was the expected one, and the private workspace
\* was removed first.
PassIsEarned ==
    \A c \in survivors : c # Absent /\ c.kind = "lane" /\ c.status = "PASS" =>
        /\ local[c.owner].sound
        /\ workspace[c.owner] = "absent"

\* The checks ProduceLane makes of its own parts fail in one way only: the
\* receipt validator accepts the records of every run of the gates, and has
\* none to accept when the request was refused before the first gate.  The
\* code of an outcome always stands for its status.
OutcomesAreValid ==
    \A p \in Proc :
        /\ At(p, "receipt") => \/ ReceiptIsValid(local[p])
                               \/ local[p].gates = <<>> /\ local[p].ran = 0
        /\ At(p, "clean") => normalizeProduceLaneOutcome(local[p])

\* A producer that returns leaves no private log, no stage and no lane
\* staging behind without saying CLEANUP_FAILED.
LeftoversAreReported ==
    [][\A p \in Proc :
          result[p] = NoResult /\ result'[p] # NoResult /\ result'[p].code # "CLEANUP_FAILED" =>
              /\ workspace'[p] # "used"
              /\ \A n \in {Stage(p), <<"lane", p>>} : disk'[n].kind \in {"absent", "empty"}
      ]_vars

\* docs/rfcs/0002-current-source-qualification.md: a cleanup failure cannot
\* be downgraded after otherwise successful gates.  A passing lane that a
\* producer left at the output without publishing it is a cleanup failure.
CleanupFailureIsReported ==
    \A p \in Proc : result[p] # NoResult /\ ~result[p].published /\ IsOwn(p, Output)
                    /\ disk[Output].kind = "lane" /\ disk[Output].status = "PASS"
        => result[p].code = "CLEANUP_FAILED"
=============================================================================
