---------------------------- MODULE Verification ----------------------------
(***************************************************************************)
(* internal/verification: how Build turns the findings, assertions and     *)
(* cleanup observations of a run into verdicts.  Pure operators; errors    *)
(* are sets of stable codes, assertions a sequence of statuses.            *)
(***************************************************************************)
EXTENDS Naturals, Sequences

Cleanup == {"clean", "allowed-residue", "undeclared-residue", "not-tested"}
Overall == {"verified", "verified-with-warnings", "nonconforming", "failed",
            "blocked", "inconclusive", "stale"}
Statuses == {"passed", "failed", "blocked", "inconclusive"}
Coverage == {"full", "high", "best-effort", "unavailable"}

BlockedCodes == {"RUNNER_UNAVAILABLE", "RUNNER_FEATURE_UNAVAILABLE", "SANDBOX_PREPARE_FAILED",
                 "MUTABLE_BASE_IMAGE", "RUNTIME_VERSION_UNRESOLVED"}
FailCodes == {"JOURNEY_ASSERTION_FAILED", "SETUP_FAILED", "BUILD_FAILED",
              "SERVICE_START_FAILED", "READINESS_FAILED"}
InconclusiveCodes == {"TIMEOUT", "OBSERVER_INCOMPLETE", "OBSERVATION_SCHEMA_INVALID",
                      "NONDETERMINISTIC_RESULT", "SOURCE_DIGEST_MISMATCH"}
NonconformingCodes == {"UNDECLARED_FILESYSTEM_WRITE", "FORBIDDEN_FILESYSTEM_ACCESS",
                       "UNDECLARED_NETWORK_DESTINATION", "FORBIDDEN_NETWORK_ATTEMPT",
                       "UNDECLARED_PORT_LISTEN", "UNDECLARED_PROCESS_EXEC"}
ResidueCodes == {"CLEANUP_RESIDUE", "PROCESS_LEAK"}
TechnicalCodes == {"CLEANUP_FAILED", "SANDBOX_DESTROY_FAILED"}

\* Every code that some verdict looks at.
VerdictCodes == BlockedCodes \cup FailCodes \cup InconclusiveCodes
                \cup NonconformingCodes \cup ResidueCodes \cup TechnicalCodes

Meets(codes, errors) == codes \cap errors # {}

-----------------------------------------------------------------------------
(* The dimensions. *)

\* The first assertion that did not pass decides, in the order recorded.
FirstNotPassed(statuses) ==
    LET bad == {i \in DOMAIN statuses : statuses[i] # "passed"}
    IN  IF bad = {} THEN "passed"
        ELSE statuses[CHOOSE i \in bad : \A j \in bad : i <= j]

functionalVerdict(errors, statuses, completed) ==
    CASE Meets(BlockedCodes, errors) -> "blocked"
      [] ~Meets(BlockedCodes, errors) /\ Meets(FailCodes, errors) -> "fail"
      [] OTHER ->
           CASE FirstNotPassed(statuses) = "failed" -> "fail"
             [] FirstNotPassed(statuses) = "blocked" -> "blocked"
             [] FirstNotPassed(statuses) = "inconclusive" -> "inconclusive"
             [] FirstNotPassed(statuses) = "passed" ->
                  IF Meets(InconclusiveCodes, errors) \/ completed = 0 \/ statuses = << >>
                  THEN "inconclusive" ELSE "pass"

\* A required observer counts only with full or high coverage.
coverageComplete(required, coverage) ==
    \A observer \in required : coverage[observer] \in {"full", "high"}

\* Mutant: missing coverage hides a violation.
capabilityVerdictCoverageFirst(errors, complete) ==
    IF ~complete THEN "incomplete"
    ELSE IF Meets(NonconformingCodes, errors) THEN "nonconforming" ELSE "conforming"

capabilityVerdict(errors, complete) ==
    IF Meets(NonconformingCodes, errors) THEN "nonconforming"
    ELSE IF complete THEN "conforming" ELSE "incomplete"

cleanupVerdict(declared, completed, errors) ==
    IF completed = 0 THEN "not-tested"
    ELSE IF declared = "undeclared-residue" \/ Meets(ResidueCodes, errors)
    THEN "undeclared-residue"
    ELSE IF Meets(TechnicalCodes, errors) THEN "not-tested" ELSE declared

\* Mutant: repeats that never ran are not counted.
reproducibilityVerdictOfCompleted(requested, completed, matching, threshold) ==
    IF requested <= 1 \/ completed = 0 THEN "not-tested"
    ELSE IF matching = completed THEN "stable" ELSE "flaky"

reproducibilityVerdict(requested, completed, matching, threshold) ==
    IF requested <= 1 \/ completed = 0 THEN "not-tested"
    ELSE IF completed # requested THEN "not-reproducible"
    ELSE IF matching = requested THEN "stable"
    ELSE IF matching < threshold THEN "not-reproducible" ELSE "flaky"

\* Mutant: a capability violation outranks a functional failure.
aggregateCapabilityFirst(v) ==
    IF v.capability = "nonconforming" THEN "nonconforming"
    ELSE IF v.functional = "fail" THEN "failed" ELSE "inconclusive"

\* The overall display status: a first-match decision on a verdict record.
aggregate(v) ==
    IF v.evidence \in {"tampered", "untrusted-signer"} THEN "nonconforming"
    ELSE IF v.freshness # "current" THEN "stale"
    ELSE IF v.functional = "blocked" THEN "blocked"
    ELSE IF v.functional = "inconclusive" THEN "inconclusive"
    ELSE IF v.functional = "fail" THEN "failed"
    ELSE IF v.capability = "nonconforming" \/ v.cleanup = "undeclared-residue"
    THEN "nonconforming"
    ELSE IF \/ v.capability = "incomplete"
            \/ v.cleanup = "not-tested"
            \/ v.reproducibility \in {"flaky", "not-reproducible"}
    THEN "inconclusive"
    ELSE IF /\ v.functional = "pass"
            /\ v.capability \in {"conforming", "warning"}
            /\ v.cleanup \in {"clean", "allowed-residue"}
    THEN IF \/ v.capability = "warning"
            \/ v.reproducibility = "not-tested"
            \/ v.evidence \in {"none", "unsigned", "self-signed"}
            \/ v.cleanup = "allowed-residue"
         THEN "verified-with-warnings" ELSE "verified"
    ELSE "inconclusive"

-----------------------------------------------------------------------------
(* Cleanup observations. *)

CleanupRank(verdict) ==
    CASE verdict = "undeclared-residue" -> 4
      [] verdict = "not-tested" -> 3
      [] verdict = "allowed-residue" -> 2
      [] verdict = "clean" -> 1

aggregateCleanupVerdict(left, right) ==
    IF CleanupRank(right) > CleanupRank(left) THEN right ELSE left

\* Where in the cleanup boundary a failure class may arise.
FailureStage(failure) ==
    CASE failure \in {"sandbox-boundary-unavailable", "inventory-not-attempted",
                      "workload-quiescence-failed",
                      "immutable-container-identity-unavailable"} -> 0
      [] failure = "disposable-removal-failed" -> 1
      [] failure = "container-identity-readback-failed" -> 2
      [] failure = "inventory-failed" -> 3
      [] failure = "classification-failed" -> 4

\* The number of boundary flags set, in the order they must be set.
BoundaryFlags(d) == <<d.quiescent, d.disposable, d.identity, d.complete>>

FlagsAreMonotonic(d) ==
    \A i \in 1..3 : BoundaryFlags(d)[i + 1] => BoundaryFlags(d)[i]

\* A decisive summary needs every flag and no failure, and a verdict that
\* follows from what was found; an undecided one needs a failure class that
\* belongs to the first flag that is missing.
cleanupObservationValid(d, allowed) ==
    /\ ~d.complete => d.residue = "none"
    /\ CASE d.verdict = "not-tested" ->
               /\ d.failure # "none"
               /\ FlagsAreMonotonic(d)
               /\ \A i \in 1..4 : BoundaryFlags(d)[i] <=> i <= FailureStage(d.failure)
         [] d.verdict # "not-tested" ->
               /\ d.failure = "none"
               /\ \A i \in 1..4 : BoundaryFlags(d)[i]
    /\ d.verdict = "clean" => d.residue = "none"
    /\ d.verdict = "allowed-residue" => d.residue = "plain" /\ allowed
    /\ d.verdict = "undeclared-residue" =>
           d.residue = "unsafe" \/ (d.residue = "plain" /\ ~allowed)
=============================================================================
