--------------------------- MODULE VerifyCommand ---------------------------
(***************************************************************************)
(* internal/cli runVerify: probe a runner, execute the plan as often as    *)
(* requested, remove the work directory, take the source's digest again,   *)
(* and hand everything to verification.Build; the result is then written   *)
(* to the run store.  A repeat is any outcome RunContract allows, or a     *)
(* preparation that failed before Run.  The source tree belongs to         *)
(* somebody else and may change at any time.                               *)
(***************************************************************************)
EXTENDS RunContract, SequencesExt

CONSTANTS
    Outcomes,       \* outcomes of a run, as RunContract allows them
    Requests,       \* repeat counts a plan may ask for (1..10)
    Required,       \* the plan's required observers
    PrepareCodes,   \* errors of Execute before Run: plan, doctor, features, copies
    RefetchCodes    \* codes of the local provider when the source cannot be read again

ASSUME OutcomesAssumption ==
    \A o \in Outcomes : MayReturn(o) /\ o.statuses \in Seq(Statuses) /\ o.cleanup \in Cleanup

ASSUME RequestsAssumption == Requests \subseteq 1..10

\* The provider answers with codes of its own (SOURCE_NOT_FOUND,
\* SOURCE_SYMLINK_ESCAPE, SOURCE_TOO_LARGE, ... CANCELLED), none of which
\* any verdict looks at.
ASSUME RefetchAssumption == RefetchCodes \cap VerdictCodes = {}

VARIABLES
    pc,                 \* the stage runVerify is in
    requested,          \* repeats asked for; plans want all of them to agree
    source,             \* "planned" or "changed": the tree, against the plan's digest
    runs,               \* the outcomes of the repeats that completed, in order
    assertions,         \* the statuses of their assertions, in order
    fingerprintCounts,  \* how often each fingerprint was seen
    matching,           \* the largest of those counts
    features,           \* the observers every repeat so far had coverage of
    findings,           \* codes of the findings so far
    cleanup,            \* the caller's cleanup verdict
    workRoot,           \* "absent" or "present": the controller's work directory
    result              \* what Build made of it, or how the command failed

\* What the repeat loop accumulates.
loop == <<runs, assertions, fingerprintCounts, matching, features>>

vars == <<pc, requested, source, loop, findings, cleanup, workRoot, result>>

NoResult == [status |-> "none yet"]

completed == Len(runs)

\* Repeats that agree on assertions and cleanup share a fingerprint.
assertionFingerprint(o) == <<o.statuses, o.cleanup>>

countOf(digest) ==
    IF digest \in DOMAIN fingerprintCounts THEN fingerprintCounts[digest] ELSE 0

\* Coverage is the least any repeat had; the first one's replaces the probe's.
mergeRunnerFeatures(o) ==
    IF runs = << >> THEN o.complete ELSE features \cap o.complete

\* Coverage of the required observers; a runner that never ran has none.
coverage == IF runs = << >> THEN {} ELSE features \cap Required

\* The verdict Build reads off the cleanup observations.
observedCleanup ==
    FoldLeft(aggregateCleanupVerdict, "clean", [i \in DOMAIN runs |-> runs[i].observed])

observationCount == FoldLeft(+, 0, [i \in DOMAIN runs |-> runs[i].emitted])

-----------------------------------------------------------------------------
(* The command. *)

Init ==
    /\ pc = "probe"
    /\ requested \in Requests
    /\ source = "planned"
    /\ runs = << >> /\ assertions = << >>
    /\ fingerprintCounts = [digest \in {} |-> 0] /\ matching = 0
    /\ features = {}
    /\ findings = {}
    /\ cleanup = "clean"
    /\ workRoot = "absent"
    /\ result = NoResult

\* No runner is a finding; a work directory that cannot be made ends the
\* command.
probe ==
    /\ pc = "probe"
    /\ \/ /\ workRoot' = "present"
          /\ pc' = "execute"
          /\ UNCHANGED <<findings, result>>
       \/ /\ findings' = findings \cup {"RUNNER_UNAVAILABLE"}
          /\ pc' = "removeWorkRoot"
          /\ UNCHANGED <<workRoot, result>>
       \/ /\ result' = [status |-> "failed"]
          /\ pc' = "done"
          /\ UNCHANGED <<workRoot, findings>>
    /\ UNCHANGED <<requested, source, loop, cleanup>>

\* Execute fails before Run: a zero Outcome, whose cleanup verdict ranks as
\* not-tested, and an error that ends the loop.
prepareFailure ==
    /\ pc = "execute"
    /\ \E code \in PrepareCodes \cup {"SOURCE_DIGEST_MISMATCH"} :
           findings' = findings \cup {code}
    /\ cleanup' = aggregateCleanupVerdict(cleanup, "not-tested")
    /\ pc' = "removeWorkRoot"
    /\ UNCHANGED <<requested, source, loop, workRoot, result>>

\* What one completed repeat adds to what the loop has accumulated.
accumulate(o) ==
    LET digest == assertionFingerprint(o) IN
    /\ runs' = Append(runs, o)
    /\ assertions' = assertions \o o.statuses
    /\ fingerprintCounts' = [d \in DOMAIN fingerprintCounts \cup {digest} |->
                                 IF d = digest THEN countOf(d) + 1 ELSE fingerprintCounts[d]]
    /\ matching' = IF countOf(digest) + 1 > matching THEN countOf(digest) + 1 ELSE matching
    /\ features' = mergeRunnerFeatures(o)
    /\ findings' = (findings \cup {o.returned} \cup o.errors) \ {NoError}
    /\ cleanup' = aggregateCleanupVerdict(cleanup, o.cleanup)

\* Mutant: one repeat too many.
executeRepeatOnceMore ==
    /\ pc = "execute" /\ source = "planned"
    /\ \E o \in Outcomes :
           /\ accumulate(o)
           /\ pc' = IF o.returned = NoError /\ completed <= requested
                    THEN "execute" ELSE "removeWorkRoot"
    /\ UNCHANGED <<requested, source, workRoot, result>>

\* One repeat.  Preparation has copied the source and found the plan's
\* digest; an error ends the loop.
executeRepeat ==
    /\ pc = "execute" /\ source = "planned"
    /\ \E o \in Outcomes :
           /\ accumulate(o)
           /\ pc' = IF o.returned = NoError /\ completed + 1 < requested
                    THEN "execute" ELSE "removeWorkRoot"
    /\ UNCHANGED <<requested, source, workRoot, result>>

removeWorkRoot ==
    /\ pc = "removeWorkRoot"
    /\ \/ /\ workRoot' = "absent"
          /\ UNCHANGED <<findings, cleanup>>
       \/ /\ workRoot = "present"
          /\ cleanup' = aggregateCleanupVerdict(cleanup, "not-tested")
          /\ findings' = findings \cup {"CLEANUP_FAILED"}
          /\ UNCHANGED workRoot
    /\ pc' = "resnapshot"
    /\ UNCHANGED <<requested, source, loop, result>>

\* Mutant: the second digest is not compared with the first.
resnapshotUncompared ==
    /\ pc = "resnapshot"
    /\ \/ UNCHANGED findings
       \/ \E code \in RefetchCodes : findings' = findings \cup {code}
    /\ cleanup' = IF completed = 0 THEN "not-tested" ELSE cleanup
    /\ pc' = "build"
    /\ UNCHANGED <<requested, source, loop, workRoot, result>>

\* The source is resolved and fetched again and its digest compared.  When
\* that fails, asDomainError keeps the provider's own code: the mismatch
\* code is only its fallback.
resnapshot ==
    /\ pc = "resnapshot"
    /\ \/ source = "planned" /\ UNCHANGED findings
       \/ source = "changed" /\ findings' = findings \cup {"SOURCE_DIGEST_MISMATCH"}
       \/ \E code \in RefetchCodes : findings' = findings \cup {code}
    /\ cleanup' = IF completed = 0 THEN "not-tested" ELSE cleanup
    /\ pc' = "build"
    /\ UNCHANGED <<requested, source, loop, workRoot, result>>

\* The caller's verdict and the one that follows from the evidence.
callerAgrees == cleanup = cleanupVerdict(observedCleanup, completed, findings)

verdicts ==
    [functional |-> functionalVerdict(findings, assertions, completed),
     capability |-> capabilityVerdict(findings, coverage = Required),
     reproducibility |-> reproducibilityVerdict(requested, completed, matching, requested),
     cleanup |-> cleanup,
     evidence |-> "unsigned",
     freshness |-> "current"]

\* What Build checks of the observations and of its caller before it derives
\* any verdict.
accepted ==
    /\ \A i \in DOMAIN runs : runs[i].valid
    /\ observationCount = completed
    /\ callerAgrees

Build ==
    /\ pc = "build"
    /\ \/ /\ accepted
          /\ result' = [status |-> "built", verdicts |-> verdicts, overall |-> aggregate(verdicts)]
          /\ pc' = "write"
       \/ /\ ~accepted
          /\ result' = [status |-> "rejected"]
          /\ pc' = "done"
    /\ UNCHANGED <<requested, source, loop, findings, cleanup, workRoot>>

\* The run store takes the result, or the command reports that it did not.
storeWrite ==
    /\ pc = "write"
    /\ \E status \in {"written", "unwritten"} : result' = [result EXCEPT !.status = status]
    /\ pc' = "done"
    /\ UNCHANGED <<requested, source, loop, findings, cleanup, workRoot>>

\* Somebody edits the source tree before it is looked at again.
SourceChanges ==
    /\ source = "planned"
    /\ pc \in {"probe", "execute", "removeWorkRoot", "resnapshot"}
    /\ source' = "changed"
    /\ UNCHANGED <<pc, requested, loop, findings, cleanup, workRoot, result>>

Finished == pc = "done" /\ UNCHANGED vars

Next == probe \/ prepareFailure \/ executeRepeat \/ removeWorkRoot \/ resnapshot \/ Build \/ storeWrite
        \/ SourceChanges \/ Finished

Spec == Init /\ [][Next]_vars

-----------------------------------------------------------------------------
(* Properties. *)

HasResult == "overall" \in DOMAIN result

\* Type correctness; no more runs than requested.
TypeOK ==
    /\ pc \in {"probe", "execute", "removeWorkRoot", "resnapshot", "build", "write", "done"}
    /\ requested \in Requests
    /\ completed <= requested
    /\ cleanup \in Cleanup
    /\ workRoot \in {"absent", "present"}
    /\ HasResult => result.overall \in Overall

\* A verified result, with or without warnings, is earned by every repeat:
\* all that were requested ran, every assertion of each passed, each ended
\* clean or with allowed residue and with full coverage, no code of a
\* failing class was reported, the source is the one planned unless the
\* findings say it could not be read again, and the controller's work
\* directory is gone.
VerifiedIsEarned ==
    HasResult /\ result.overall \in {"verified", "verified-with-warnings"} =>
        /\ completed = requested
        /\ \A i \in DOMAIN runs :
               LET o == runs[i]
               IN  /\ \A k \in DOMAIN o.statuses : o.statuses[k] = "passed"
                   /\ o.cleanup \in {"clean", "allowed-residue"}
                   /\ Required \subseteq o.complete
                   /\ ~Meets(VerdictCodes, o.errors)
        /\ source = "planned" \/ Meets(RefetchCodes, findings)
        /\ workRoot = "absent"

\* Stable means that every requested repeat ran and all of them agree.
StableIsEarned ==
    HasResult /\ result.verdicts.reproducibility = "stable" =>
        /\ completed = requested /\ requested > 1
        /\ \A i, j \in DOMAIN runs : assertionFingerprint(runs[i]) = assertionFingerprint(runs[j])

\* One bad repeat is never outvoted by good ones: undeclared residue, or a
\* capability code, in any repeat shows in the dimension it belongs to.
BadRepeatShows ==
    HasResult => \A i \in DOMAIN runs :
        LET o == runs[i]
        IN  /\ o.cleanup = "undeclared-residue" =>
                   result.verdicts.cleanup = "undeclared-residue"
            /\ Meets(NonconformingCodes, o.errors) =>
                   result.verdicts.capability = "nonconforming"
            /\ o.cleanup = "not-tested" =>
                   result.verdicts.cleanup \in {"not-tested", "undeclared-residue"}

\* Build's cross-check of its caller, which runVerify is written to satisfy.
CallerCleanupAgrees == pc = "build" => callerAgrees
=============================================================================
