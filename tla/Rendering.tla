----------------------------- MODULE Rendering -----------------------------
(***************************************************************************)
(* The report of a verification (internal/rendering/render.go).  It trusts *)
(* no summary it reads: every view checks the summaries of all completed   *)
(* repeats again and says nothing of one that does not add up.             *)
(*                                                                         *)
(* A result is [requested, completed, observations, write]; an observation *)
(* has the fields of RetainedState's summaries.  The constant details,     *)
(* which writer and reader spell alike, are left out.                      *)
(***************************************************************************)
EXTENDS Naturals, Sequences, FiniteSets

LOCAL INSTANCE FiniteSetsExt

CONSTANTS
  RepeatLimit,             \* most repeats a verification may ask for
  RenderedChangeLimit,     \* filesystemRetainedStateChangeLimit
  RenderedNotifications,   \* the limit of notifications the report accepts
  RenderedWindows,         \* of windows
  RenderedRules,           \* of rules in one
  RenderedEndpoints        \* of endpoints

Members(seq) == {seq[i] : i \in DOMAIN seq}

Sum(counts) == MapThenSumSet(LAMBDA k : counts[k], DOMAIN counts)

\* The head of every view.
RepeatsValid(result) ==
  /\ result.requested \in 1..RepeatLimit
  /\ result.completed \in 1..result.requested

SummariesOf(result, operation) ==
  SelectSeq(result.observations, LAMBDA o : o.operation = operation)

\* Exactly one summary for each completed repeat.
Complete(result, summaries) == RepeatsValid(result) /\ Len(summaries) = result.completed

\* renderedExactDetailKeys
renderedExactDetailKeys(details, keys) == DOMAIN details = keys

\* boundedFilesystemChangeCount, of a detail that may be missing.
boundedFilesystemChangeCount(details, key) ==
  key \in DOMAIN details /\ details[key] \in 0..RenderedChangeLimit

NotReported == [coverage |-> "UNAVAILABLE", comparison |-> "NOT REPORTED"]

-----------------------------------------------------------------------------
ComparisonCounts == {"declaredPatternCount", "comparedChangeCount",
                     "allowedChangeCount", "undeclaredChangeCount"}

\* The counts of a comparison that was made are there and add up.
RetainedCountsHold(summary) ==
  LET d == summary.details IN
  /\ \A k \in ComparisonCounts : boundedFilesystemChangeCount(d, k)
  /\ d.allowedChangeCount + d.undeclaredChangeCount = d.comparedChangeCount
  /\ d.declarationComparisonResult = "conforming-retained-state" <=> d.undeclaredChangeCount = 0

\* retainedDeclarationComparisonView: one bad repeat is enough, and one that
\* was not tested leaves the others' good word unsaid.
retainedDeclarationComparisonView(summaries) ==
  LET results == {summaries[i].details.declarationComparisonResult : i \in DOMAIN summaries}
  IN  IF "nonconforming-retained-state" \in results THEN "NONCONFORMING"
      ELSE IF "not-tested" \in results THEN "NOT-TESTED" ELSE "CONFORMING"

retainedCountsReported(summaries) ==
  \A i \in DOMAIN summaries :
    /\ summaries[i].details.declarationComparisonResult # "not-tested"
    /\ RetainedCountsHold(summaries[i])

\* retainedCoverageRank
retainedCoverageRank(coverage) ==
  CASE coverage = "full" -> 3 [] coverage = "high" -> 2
    [] coverage = "best-effort" -> 1 [] OTHER -> 0

\* filesystemSummaryView, its part about the retained files: the weakest
\* coverage of the repeats.
filesystemSummaryView(result) ==
  LET summaries == SummariesOf(result, "filesystem.retained-state.summary")
      coverages == {summaries[i].coverage : i \in DOMAIN summaries}
  IN  IF ~Complete(result, summaries) THEN NotReported
      ELSE [coverage |-> CHOOSE c \in coverages :
                           \A d \in coverages : retainedCoverageRank(c) <= retainedCoverageRank(d),
            comparison |-> retainedDeclarationComparisonView(summaries),
            counted |-> retainedCountsReported(summaries)]

-----------------------------------------------------------------------------
\* engineDiffSummaryView
EngineDiffHolds(summary) ==
  /\ summary.coverage = "best-effort" /\ summary.result = "observed"
  /\ {"finalByteCount", "finalNonEmpty"} \subseteq DOMAIN summary.details
  /\ summary.details.finalNonEmpty <=> summary.details.finalByteCount # 0

engineDiffSummaryView(result) ==
  LET summaries == SummariesOf(result, "filesystem.engine-diff.summary")
  IN  IF Complete(result, summaries) /\ \A s \in Members(summaries) : EngineDiffHolds(s)
      THEN "BEST-EFFORT" ELSE "UNAVAILABLE"

-----------------------------------------------------------------------------
ActivityIdentities == {"startIdentityVerified", "readyIdentityVerified", "stopIdentityVerified",
                       "finalIdentityVerified", "workloadQuiescenceVerified"}

\* activityTraceSummaryView: what it asks of one summary.
ActivityTraceHolds(summary) ==
  LET d == summary.details IN
  /\ renderedExactDetailKeys(d, ActivityIdentities \cup
       {"notificationCount", "renameHintCount", "changeHintCount", "phaseCounts"})
  /\ summary.confidence = "high" /\ summary.coverage = "best-effort" /\ summary.result = "observed"
  /\ \A k \in ActivityIdentities : d[k]
  /\ \A k \in {"notificationCount", "renameHintCount", "changeHintCount"} :
       d[k] <= RenderedNotifications
  /\ d.renameHintCount + d.changeHintCount = d.notificationCount
  /\ Sum(d.phaseCounts) = d.notificationCount

activityTraceSummaryView(result) ==
  LET summaries == SummariesOf(result, "filesystem.activity-trace.summary")
  IN  IF Complete(result, summaries) /\ \A s \in Members(summaries) : ActivityTraceHolds(s)
      THEN "BEST-EFFORT" ELSE "UNAVAILABLE"

-----------------------------------------------------------------------------
OperationBase == {"comparisonResult", "preDispatchQuiescenceVerified",
                  "postDispatchQuiescenceVerified", "phaseAcknowledgementsComplete"}
OperationCounts == {"windowCount", "quiescenceWindowCount", "declaredPatternCount",
                    "comparedNotificationCount", "allowedNotificationCount",
                    "undeclaredNotificationCount"}

\* A comparison that was made ...
OperationDecided(summary) ==
  LET d == summary.details IN
  /\ d.comparisonResult \in {"nonconforming-notifications", "no-undeclared-observed"}
  /\ renderedExactDetailKeys(d, OperationBase \cup OperationCounts)
  /\ summary.result = "observed" /\ summary.coverage = "best-effort" /\ summary.confidence = "high"
  /\ d.preDispatchQuiescenceVerified /\ d.postDispatchQuiescenceVerified
  /\ d.phaseAcknowledgementsComplete
  /\ d.windowCount \in 1..RenderedWindows /\ d.quiescenceWindowCount = d.windowCount
  /\ d.declaredPatternCount <= d.windowCount * RenderedRules
  /\ d.comparedNotificationCount <= RenderedNotifications
  /\ d.allowedNotificationCount + d.undeclaredNotificationCount = d.comparedNotificationCount
  /\ d.comparisonResult = "no-undeclared-observed" <=> d.undeclaredNotificationCount = 0

\* ... and one that was not, which must say why.
OperationUntested(summary) ==
  /\ summary.details.comparisonResult = "not-tested"
  /\ renderedExactDetailKeys(summary.details, OperationBase \cup {"failure"})
  /\ summary.result = "unavailable" /\ summary.coverage = "unavailable"
  /\ summary.confidence = "unknown"

\* operationNotificationSummaryView
operationNotificationSummaryView(result) ==
  LET summaries == SummariesOf(result, "filesystem.operation-notification.summary")
      results == {summaries[i].details.comparisonResult : i \in DOMAIN summaries}
  IN  IF ~Complete(result, summaries)
         \/ \E s \in Members(summaries) : ~OperationDecided(s) /\ ~OperationUntested(s)
      THEN NotReported
      ELSE [coverage |-> IF "not-tested" \in results THEN "UNAVAILABLE" ELSE "BEST-EFFORT",
            comparison |-> IF "nonconforming-notifications" \in results THEN "NONCONFORMING"
                           ELSE IF "not-tested" \in results THEN "NOT-TESTED"
                           ELSE "NO-UNDECLARED-OBSERVED"]

-----------------------------------------------------------------------------
PortFlags == {"identityVerified", "namespaceIsolationVerified", "workloadQuiescenceVerified",
              "peerRemoveVerified"}
PortCounts == {"declaredEndpointCount", "baselineEndpointCount", "sampledEndpointCount",
               "undeclaredEndpointCount", "sampleCount", "transitionCount"}

\* validRenderedPeerPortFailure
validRenderedPeerPortFailure(failure) ==
  failure \in {"backend-not-live-qualified", "unsupported-http-profile",
               "immutable-container-identity-unavailable", "ready-transport-failed",
               "final-transport-failed", "workload-quiescence-failed",
               "observer-not-started", "peer-remove-failed"}

PortDecided(summary) ==
  LET d == summary.details IN
  /\ d.comparisonResult \in {"nonconforming-listeners", "no-undeclared-observed"}
  /\ renderedExactDetailKeys(d, {"comparisonResult"} \cup PortFlags \cup PortCounts)
  /\ summary.result = "observed" /\ summary.coverage = "best-effort" /\ summary.confidence = "high"
  /\ \A k \in PortFlags : d[k]
  /\ d.baselineEndpointCount = 0 /\ d.declaredEndpointCount = 1
  /\ d.sampledEndpointCount \in 1..RenderedEndpoints
  /\ d.sampledEndpointCount = d.declaredEndpointCount + d.undeclaredEndpointCount
  /\ d.sampleCount >= 3 /\ d.transitionCount >= 2
  /\ d.comparisonResult = "no-undeclared-observed" <=> d.undeclaredEndpointCount = 0

PortUntested(summary) ==
  LET d == summary.details IN
  /\ d.comparisonResult = "not-tested"
  /\ DOMAIN d \in {{"comparisonResult"} \cup PortFlags, {"comparisonResult", "failure"} \cup PortFlags}
  /\ summary.result = "unavailable" /\ summary.coverage = "unavailable"
  /\ summary.confidence = "unknown"
  /\ "failure" \in DOMAIN d => validRenderedPeerPortFailure(d.failure)

\* portListenerSummaryView
portListenerSummaryView(result) ==
  LET summaries == SummariesOf(result, "port.listener-trace.summary")
      results == {summaries[i].details.comparisonResult : i \in DOMAIN summaries}
  IN  IF ~Complete(result, summaries)
         \/ \E s \in Members(summaries) : ~PortDecided(s) /\ ~PortUntested(s)
      THEN NotReported
      ELSE [coverage |-> IF "not-tested" \in results THEN "UNAVAILABLE" ELSE "BEST-EFFORT",
            comparison |-> IF "nonconforming-listeners" \in results THEN "NONCONFORMING"
                           ELSE IF "not-tested" \in results THEN "NOT-TESTED"
                           ELSE "NO-UNDECLARED-OBSERVED"]
=============================================================================
